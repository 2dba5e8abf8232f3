---------------------------- MODULE MCFieldSearch ----------------------------
(* Fields of numbers, of times and of text.  The numbers lie at and just       *)
(* beyond every bound of the scaled types, and between the values they hold;   *)
(* the times at, before and inside every period; the patterns have stars that  *)
(* need coming back to.                                                        *)
EXTENDS FieldSearch

MCMinScale == -4

\* The text of a number matters to no comparison of numbers.
Number(u, s) == [Scalar("number", <<48>>) EXCEPT !.num = [u |-> u, s |-> s]]

Numbers == {Number(n, 0) : n \in {0, 7, 8, -8, -9, 100, 127, 128, 2047, 2048, 9900, 9901}}
           \cup {Number(50, 1), Number(5, 1), Number(-85, 1), Number(75, 1), Number(101, 2),
                 Number(125, 3), Number(1, 4), Number(-1, 4), Number(995, 2), Number(2047, 1),
                 Number(2048, 1), Number(-2049, 1), Number(1, -4), Number(-991, 0)}

\* ValuesFit is true of every number near the scaled bounds, in every scale; and
\* a power of ten of more digits than a number has is above it.
ASSUME ScaledNumbersFit == \A u \in -2200 .. 2200, s \in -3 .. 5 : ValueFits(Number(u, s))
ASSUME PowersOfTen ==
    \A u \in -2200 .. 2200, k \in 1 .. 8 :
        /\ 10 ^ k \in Nat \ {0}
        /\ k > Precision(Whole(u)) => Abs(u) < 10 ^ k

Word(text) == Scalar("string", text)

Time(t, wall, offset) ==
    [Word(<<49>>) EXCEPT !.time = [type |-> t, wall |-> wall, offset |-> offset]]

Times == {Time("YEAR", 16, 0), Time("YEAR", 32, 0),
          Time("YEAR_MONTH", 16, 0), Time("YEAR_MONTH", 24, 0),
          Time("LOCAL_DATE", 16, 0), Time("LOCAL_DATE", 20, 0), Time("LOCAL_DATE", 32, 0),
          Time("LOCAL_TIME", 16, 0), Time("LOCAL_TIME", 17, 0), Time("LOCAL_TIME", 18, 0),
          Time("LOCAL_DATE_TIME", 16, 0), Time("LOCAL_DATE_TIME", 17, 0),
          Time("LOCAL_DATE_TIME", 24, 0), Time("LOCAL_DATE_TIME", 26, 0),
          Time("ZONED_DATE_TIME", 16, 0), Time("ZONED_DATE_TIME", 18, 2),
          Time("ZONED_DATE_TIME", 24, -2), Time("ZONED_DATE_TIME", 25, 0)}

\* a, b, the wildcards and the escape.
Words(n) == {Word(t) : t \in UNION {[1 .. k -> {97, 98}] : k \in 0 .. n}}
Texts == Words(3) \cup {Word(<<97>> \o w.text) : w \in Words(3) \ Words(2)}
Patterns == {Word(t) : t \in
    {<<37, 97, 98, 37>>, <<37, 97, 37, 98>>, <<97, 37, 98, 95>>, <<37, 95, 97>>, <<37, 37, 97>>,
     <<95>>, <<92, 97, 37>>, <<92, 37>>, <<97, 92>>, <<37>>, <<97, 98, 37, 97, 98>>}}

Nul == Scalar("null", <<>>)

MCPools ==
    LET mixed == Numbers \cup {Word(<<97>>), Nul}
        bounds == {Number(0, 0), Number(8, 0), Number(75, 1), Number(128, 0), Number(101, 2),
                   Number(-9, 0), Number(2048, 1), Word(<<97>>)}
    IN  {[values |-> mixed, operands |-> mixed \ {Nul}, bounds |-> bounds,
          ops |-> CompareOps \cup UnaryOps],
         [values |-> Times, operands |-> Times, bounds |-> Times, ops |-> CompareOps],
         [values |-> Texts \cup {Nul}, operands |-> Patterns \cup Words(2),
          bounds |-> Words(1), ops |-> CompareOps \cup StringOps]}
=============================================================================
