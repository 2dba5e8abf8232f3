------------------------------ MODULE LikePattern ------------------------------
(* LIKE (like_pattern.go).  The operand is cut into tokens once; a value is     *)
(* scanned greedily, with one point to come back to: the last '%'.              *)
(* A text is a sequence of characters.                                          *)
EXTENDS Naturals, Sequences

Percent == 37
Underscore == 95
Backslash == 92

Lit(text) == [kind |-> "lit", lit |-> text]
One == [kind |-> "one", lit |-> <<>>]
Any == [kind |-> "any", lit |-> <<>>]

From(text, at) == SubSeq(text, at, Len(text))

Characters == Seq(Nat)
LikeTok == [kind : {"lit", "one", "any"}, lit : Characters]

\* A trailing unpaired escape is the one malformed pattern.
WellFormed[p \in Characters] ==
    CASE p = <<>>             -> TRUE
      [] Head(p) # Backslash -> WellFormed[Tail(p)]
      [] OTHER               -> Len(p) > 1 /\ WellFormed[From(p, 3)]

\* Literal text in one token, and a run of '%' in one.
AddChar(toks, c) ==
    IF toks # <<>> /\ toks[Len(toks)].kind = "lit"
    THEN [toks EXCEPT ![Len(toks)].lit = Append(@, c)]
    ELSE Append(toks, Lit(<<c>>))

AddAny(toks) == IF toks # <<>> /\ toks[Len(toks)] = Any THEN toks ELSE Append(toks, Any)

TokensFrom[toks \in Seq(LikeTok), p \in Characters] ==
    CASE p = <<>>              -> toks
      [] Head(p) = Backslash  -> TokensFrom[AddChar(toks, p[2]), From(p, 3)]
      [] Head(p) = Percent    -> TokensFrom[AddAny(toks), Tail(p)]
      [] Head(p) = Underscore -> TokensFrom[Append(toks, One), Tail(p)]
      [] OTHER                -> TokensFrom[AddChar(toks, Head(p)), Tail(p)]

Tokens(p) == TokensFrom[<<>>, p]

\* The token takes the text at j.
Takes(tok, text, j) == \/ tok.kind = "one"
                       \/ /\ tok.kind = "lit"
                          /\ j + Len(tok.lit) - 1 <= Len(text)
                          /\ SubSeq(text, j, j + Len(tok.lit) - 1) = tok.lit

\* Mutant of Passed: the scan comes back to the first star, not to the last.
PassedFirst(star, i, j) == IF star.tok = 0 THEN [tok |-> i, to |-> j] ELSE star

\* The star to come back to once token i, a '%', is passed at character j.
Passed(star, i, j) == [tok |-> i, to |-> j]

\* matches: i and j are the next token and character, star the last '%' passed
\* and where the text after it begins.
Scan(toks, text) ==
    LET scan[i \in Nat, j \in Nat, star \in [tok : Nat, to : Nat]] ==
          IF j > Len(text)
          THEN \A k \in i .. Len(toks) : toks[k] = Any
          ELSE CASE i <= Len(toks) /\ toks[i] = Any -> scan[i + 1, j, Passed(star, i, j)]
                 [] i <= Len(toks) /\ Takes(toks[i], text, j) ->
                      scan[i + 1, j + (IF toks[i] = One THEN 1 ELSE Len(toks[i].lit)), star]
                 [] star.tok = 0 -> FALSE
                 [] OTHER -> scan[star.tok + 1, star.to + 1, [star EXCEPT !.to = @ + 1]]
    IN  scan[1, 1, [tok |-> 0, to |-> 0]]

LikeMatches(p, text) == WellFormed[p] /\ Scan(Tokens(p), text)

\* What a pattern means: '%' is any text, '_' one character, '\X' is X.
Glob[p \in Characters, text \in Characters] ==
    CASE p = <<>>             -> text = <<>>
      [] Head(p) = Percent   -> \E n \in 1 .. Len(text) + 1 : Glob[Tail(p), From(text, n)]
      [] text = <<>>         -> FALSE
      [] Head(p) = Underscore -> Glob[Tail(p), Tail(text)]
      [] Head(p) = Backslash -> p[2] = Head(text) /\ Glob[From(p, 3), Tail(text)]
      [] OTHER               -> Head(p) = Head(text) /\ Glob[Tail(p), Tail(text)]
=============================================================================
