--------------------------- MODULE MCDocumentSearch ---------------------------
(* Three models.  Of one, a field is seen as text, as a number, as null, as an   *)
(* object, as arrays of each and as an array of arrays, beside a second one, and *)
(* everything is asked of it.  One is sorted, by fields that are missing, tie or *)
(* change their type, and one has a unique key of two fields.                    *)
EXTENDS DocumentSearch

MCMinScale == -4

X == Scalar("string", <<120>>)
Y == Scalar("string", <<121>>)
Seven == [Scalar("number", <<55>>) EXCEPT !.num = [u |-> 7, s |-> 0]]
SevenAsText == [Seven EXCEPT !.kind = "string"]
True == Scalar("boolean", TrueText)
Noon(text, offset) == [Scalar("string", text) EXCEPT
    !.time = [type |-> "ZONED_DATE_TIME", wall |-> 16 + offset, offset |-> offset]]

Meta(id, state, time) ==
    [id |-> id, state |-> state, creationDate |-> time, transitionForLatestSave |-> X]
Entity(members, state, time) == [data |-> Object(members), meta |-> Meta(X, state, time)]
A(v) == [a |-> v]
B(v) == Object([b |-> v])

Shapes ==
    {Entity(A(X), X, Noon(<<49>>, 0)), Entity(A(Seven), Y, Noon(<<50>>, 2)),
     Entity(A(Array(<<X, Null, Y>>)), X, Absent), Entity(A(Array(<<Y, X>>)), Y, Absent),
     Entity(A(Array(<<X, Y>>)), X, Absent),
     Entity(A(B(X)), X, Absent), Entity(A(Array(<<B(Seven), X, Object(NoMember)>>)), X, Absent),
     Entity(A(Array(<<Array(<<X, Seven>>), Array(<<>>)>>)), X, Absent),
     Entity([a |-> Null, b |-> True], Y, Absent), Entity(A(Array(<<>>)), Y, Absent),
     Entity(A(SevenAsText), X, Absent)}

PathA(subs) == <<[name |-> "a", subs |-> subs]>>
PathAB(subs) == PathA(subs) \o <<Hop1("b")>>

Paths1 == {PathA(<<>>), PathA(<<Star>>), PathA(<<0>>), PathA(<<1>>), PathAB(<<>>),
           PathAB(<<Star>>), PathAB(<<0>>), PathA(<<Star, Star>>), PathA(<<0, 1>>)}

Not(c) == Group("NOT", <<c>>)
Compare == {Simple(p, op, v) : p \in Paths1, op \in {"EQ", "NE"}, v \in {X, Seven}}
Presence == {Simple(p, op, Null) :
               p \in {PathA(<<>>), PathA(<<Star>>), PathA(<<1>>), PathAB(<<>>)}, op \in UnaryOps}
Positional == {ArrayClause(p, "EQ", vs) :
                 p \in {PathA(<<Star>>), PathA(<<>>)},
                 vs \in {<<X, Null, Y>>, <<Null, X>>, <<Y, X>>, <<Null>>}}
Lifecycles == {Lifecycle("state", "NE", X), Lifecycle("previousTransition", "EQ", X),
               Lifecycle("creationDate", "EQ", Noon(<<49>>, 0)),
               Lifecycle("creationDate", "NE", Noon(<<49>>, 0)),
               Lifecycle("creationDate", "IS_NULL", Null)}
Groups == {Group("AND", <<Lifecycle("state", "EQ", X), Simple(PathA(<<Star>>), "EQ", Y)>>),
           Group("OR", <<ArrayClause(PathA(<<Star>>), "EQ", <<Null, X, Null>>),
                         Simple(<<Hop1("b")>>, "EQ", True)>>),
           Group("AND", <<>>), Group("OR", <<>>),
           Group("NOT", <<>>), Group("XOR", <<Lifecycle("state", "EQ", X)>>)}
Malformed == {Simple(PathA(<<>>), "EQ", B(X)), Simple(PathA(<<>>), "EQ", Null),
              Simple(PathA(<<>>), "BETWEEN", Array(<<X>>)), Lifecycle("owner", "EQ", X), Function}

Everything == [form |-> "everything"]
Asked ==
    Compare \cup {Not(c) : c \in Compare} \cup Presence \cup Positional
    \cup {Not(c) : c \in Positional} \cup Lifecycles \cup Groups \cup Malformed
    \cup {Everything}

\* To be sorted: the ids are in another order than the values.
ById(id, members, state, time) ==
    [data |-> Object(members), meta |-> Meta(Scalar("string", <<id>>), state, time)]
Whole1(n, text) == [Scalar("number", text) EXCEPT !.num = Whole(n)]
Ten == Whole1(10, <<49, 48>>)
NineBits == Whole1(257, <<50, 53, 55>>)      \* rounds to 256
EightBits == Whole1(256, <<50, 53, 54>>)
NotANumber == Scalar("string", <<78, 97, 78>>)
Endless == Scalar("string", <<43, 73, 110, 102>>)
T == Scalar("string", <<84>>)                \* ParseBool's true
NoState == Scalar("string", <<>>)
False == Scalar("boolean", FalseText)
Morning == [Noon(<<48>>, 0) EXCEPT !.time.wall = 4]

\* Doubles tell the numbers of the type DOUBLE apart.
ASSUME DoublesDiffer ==
    \A u \in -99 .. 98, s \in -2 .. 3 : ToDouble([u |-> u, s |-> s]) < ToDouble([u |-> u + 1, s |-> s])

Sortable ==
    {ById(105, A(EightBits), NoState, Absent), ById(104, [a |-> Seven, b |-> True], X, Absent),
     ById(103, A(NotANumber), Y, Absent), ById(102, [a |-> Ten, b |-> False], X, Noon(<<49>>, 0)),
     ById(101, [b |-> True], NoState, Morning), ById(100, A(Null), X, Noon(<<49>>, 0)),
     ById(99, [a |-> Noon(<<49>>, 0), b |-> False], X, Absent), ById(98, A(Morning), Y, Morning),
     ById(97, [a |-> SevenAsText, b |-> T], X, Absent), ById(96, A(Array(<<X>>)), Y, Morning),
     ById(95, A(Endless), X, Absent), ById(94, A(NineBits), X, Absent)}
OrderPaths == {<<"data", PathA(<<>>)>>, <<"data", <<Hop1("b")>>>>, <<"meta", <<Hop1("creationDate")>>>>,
               <<"meta", <<Hop1("state")>>>>, <<"meta", <<Hop1("id")>>>>}
Keyed == {SortKey(p[1], p[2], desc) : p \in OrderPaths, desc \in BOOLEAN}
Opposed(k, l) == k.path # l.path /\ <<Hop1("id")>> \notin {k.path, l.path} /\ ~k.desc /\ l.desc
Orders == {<<k>> : k \in Keyed} \cup {kl \in Keyed \X Keyed : Opposed(kl[1], kl[2])}

\* A text that spells a separator and the beginning of a token.
Posing == Scalar("string", <<120, 31, 115, 58, 120>>)
SevenAgain == [Scalar("number", <<55, 46, 48>>) EXCEPT !.num = [u |-> 70, s |-> 1]]
Half == [Scalar("number", <<48, 46, 53>>) EXCEPT !.num = [u |-> 5, s |-> 1]]
HalfAgain == [Scalar("number", <<53, 101, 45, 49>>) EXCEPT !.num = [u |-> 5, s |-> 1]]
Long == [Scalar("number", <<49, 48, 48, 48>>) EXCEPT !.num = [u |-> 1000, s |-> 0]]
Pair(v, w) == Entity([a |-> v, b |-> w], X, Absent)
Claiming == {Pair(X, Posing), Pair(Posing, X), Pair(Seven, X), Pair(SevenAgain, X),
             Pair(SevenAsText, X), Pair(Half, True), Pair(HalfAgain, True), Pair(Half, False),
             Pair(Long, X), Pair(X, Array(<<X>>)), Pair(X, Null), Pair(Null, Null)}

MCCollections ==
    {[entities |-> Shapes, keys |-> {}, conditions |-> Asked, orders |-> {<<>>}],
     [entities |-> Sortable, keys |-> {}, conditions |-> {Everything}, orders |-> Orders],
     [entities |-> Claiming, keys |-> {<<PathA(<<>>), <<Hop1("b")>>>>},
      conditions |-> {Everything}, orders |-> {<<>>}]}

\* Two numbers and a text between them, by their ids.
MCTextAmongNumbers ==
    {[entities |-> {e \in Sortable : e.meta.id.text \in {<<102>>, <<103>>, <<104>>}},
      keys |-> {}, conditions |-> {Everything},
      orders |-> {<<SortKey("data", PathA(<<>>), desc)>> : desc \in BOOLEAN}]}
=============================================================================
