----------------------------- MODULE UniqueClaims -----------------------------
(* The claims an entity makes on its model's composite unique keys             *)
(* (unique_signature.go, unique.go): a key is the paths of its fields, a claim *)
(* the signature of their values, which the store lets no other live entity    *)
(* hold.  A signature is text, so different values must not spell the same.    *)
EXTENDS Filters

CONSTANTS MaxCoeffDigits, MaxNumExp   \* the numbers a claim may be made with

NoClaim == <<>>
PartialKey == <<0>>                   \* ErrPartialUniqueKey, for all its reasons

Separator == 31
Colon == 58

Digits(n) == LET len == Precision(Whole(n))
             IN  [i \in 1 .. len |-> 48 + ((n \div 10 ^ (len - i)) % 10)]

CommonFactor(n, m) ==
    CHOOSE k \in 1 .. m : /\ n % k = 0 /\ m % k = 0
                          /\ \A j \in k + 1 .. m : n % j # 0 \/ m % j # 0

\* big.Rat.RatString: the reduced fraction, or the integer it is.
RatString(d) ==
    LET n == IF d.s < 0 THEN Abs(d.u) * 10 ^ (-d.s) ELSE Abs(d.u)
        m == IF d.s > 0 THEN 10 ^ d.s ELSE 1
        k == CommonFactor(n, m)
    IN  (IF d.u < 0 THEN <<45>> ELSE <<>>) \o Digits(n \div k)
        \o (IF m = k THEN <<>> ELSE <<47>> \o Digits(m \div k))

\* The digits of the literal before its exponent, leading zeros too.
CoeffDigits(text) ==
    Cardinality({i \in DOMAIN text : /\ text[i] \in 48 .. 57
                                     /\ \A j \in 1 .. i : text[j] \notin {69, 101}})

OutOfBounds(v) == CoeffDigits(v.text) > MaxCoeffDigits \/ Abs(v.num.s) > MaxNumExp

\* Mutant of StringToken: the text without its length.
StringTokenBare(text) == <<115, Colon>> \o text

\* s<length>:<text>.  The length keeps a text that looks like tokens apart.
StringToken(text) == <<115>> \o Digits(Len(text)) \o <<Colon>> \o text

Token(v) ==
    CASE v.kind = "string"  -> StringToken(v.text)
      [] v.kind = "boolean" -> <<98, Colon>> \o v.text
      [] v.kind = "number"  -> IF OutOfBounds(v) THEN PartialKey
                               ELSE <<110, Colon>> \o RatString(v.num)
      [] OTHER              -> PartialKey

\* walkPath: through objects only.
ValueAt(path, data) == IF path = <<>> THEN Absent ELSE CHOOSE v \in Resolve({data}, path) : TRUE
Given(key, data) == {i \in DOMAIN key : ValueAt(key[i], data).kind \notin {"absent", "null"}}

RECURSIVE Joined(_)
Joined(tokens) == IF Len(tokens) = 1 THEN tokens[1]
                  ELSE tokens[1] \o <<Separator>> \o Joined(Tail(tokens))

\* computeOneClaim: of no value no claim, of some of them an error.
Claim(key, data) ==
    LET tokens == [i \in DOMAIN key |-> Token(ValueAt(key[i], data))]
        given == Given(key, data)
    IN  CASE given = {}                                                 -> NoClaim
          [] given # DOMAIN key \/ \E i \in given : tokens[i] = PartialKey -> PartialKey
          [] OTHER                                                      -> Joined(tokens)

\* What the store guards (external): a claim is refused that another entity holds.
Granted(key, entity, others) ==
    LET claim == Claim(key, entity.data)
    IN  /\ claim # PartialKey
        /\ claim # NoClaim => \A other \in others : Claim(key, other.data) # claim
=============================================================================
