------------------------------- MODULE Temporals -------------------------------
(* Temporal operands and the six temporal types of a field (temporal.go,        *)
(* temporal_subtype.go).  An operand is read once, as its own type, and then    *)
(* resolved to each declared type: down to a coarser one by flooring, which may *)
(* change the operator, or up to a finer one, to the start of its period.       *)
(*                                                                              *)
(* A wall-clock reading is a number of half milliseconds, the finest thing the  *)
(* comparisons tell apart, in a calendar of two months a year, two days a month *)
(* and two milliseconds a day.                                                  *)
EXTENDS Integers, Sequences, FiniteSets

Millisecond == 2
DayLength   == 2 * Millisecond
MonthLength == 2 * DayLength
YearLength  == 2 * MonthLength
EpochDate   == YearLength      \* 1970-01-01: the second year of the calendar

TemporalType == {"YEAR", "YEAR_MONTH", "LOCAL_DATE", "LOCAL_TIME",
                 "LOCAL_DATE_TIME", "ZONED_DATE_TIME"}

\* A TemporalValue: its wall clock, and the offset of a zoned one.
Temporal(t, wall) == [type |-> t, wall |-> wall, offset |-> 0]

FloorTo(length, wall) == (wall \div length) * length
TimeOfDay(wall) == wall % DayLength

\* Epoch milliseconds: zone-less types are read at UTC.
Millis(v) == IF v.type = "ZONED_DATE_TIME" THEN (v.wall - v.offset) \div Millisecond
                                           ELSE v.wall \div Millisecond

-----------------------------------------------------------------------------

\* The edges of downGraph and of upGraph, from finer to coarser and back.
\* LOCAL_TIME hangs beside the dates, on LOCAL_DATE_TIME.
Down == {<<"ZONED_DATE_TIME", "LOCAL_DATE_TIME">>, <<"LOCAL_DATE_TIME", "LOCAL_TIME">>,
         <<"LOCAL_DATE_TIME", "LOCAL_DATE">>, <<"LOCAL_DATE", "YEAR_MONTH">>,
         <<"YEAR_MONTH", "YEAR">>}
Up == {<<e[2], e[1]>> : e \in Down}

\* The hops from one type to another: the graphs are trees, so there is at most
\* one path; buildDownPaths and buildUpPaths find it by a depth-first search.
Paths(edges, from, to) ==
    LET hops[n \in 0 .. 4] ==
          IF n = 0 THEN {<<from>>}
          ELSE {Append(pe[1], pe[2][2]) :
                  pe \in {pe \in hops[n - 1] \X edges : pe[2][1] = pe[1][n]}}
    IN  {p \in UNION {hops[n] : n \in 1 .. 4} : p[Len(p)] = to}

DownPaths == [fromTo \in TemporalType \X TemporalType |-> Paths(Down, fromTo[1], fromTo[2])]
UpPaths   == [fromTo \in TemporalType \X TemporalType |-> Paths(Up, fromTo[1], fromTo[2])]

\* One hop: floors to the coarser type, to the date or the time of day, or keeps
\* the wall clock; going up, the start of a period is where it already is.
Hop(v, t) ==
    Temporal(t, CASE t = "YEAR"       -> FloorTo(YearLength, v.wall)
                  [] t = "YEAR_MONTH" -> FloorTo(MonthLength, v.wall)
                  [] t = "LOCAL_DATE" -> FloorTo(DayLength, v.wall)
                  [] t = "LOCAL_TIME" -> EpochDate + TimeOfDay(v.wall)
                  [] OTHER            -> v.wall)

\* isPrecise of a hop down: nothing is lost.
Precise(v, t) == t = "LOCAL_DATE_TIME" \/ Hop(v, t).wall = v.wall

\* Mutant of MutateDownscaleOp: the operator is kept.
KeepOp(op) == op

\* Past a floored operand >= is > and < is <=.
MutateDownscaleOp(op) == CASE op = "GTE" -> "GT"
                           [] op = "LT"  -> "LTE"
                           [] OTHER      -> op

\* The operand as it stands before each hop of a path.
Along(v, path) ==
    LET at[i \in DOMAIN path] == IF i = 1 THEN v ELSE Hop(at[i - 1], path[i])
    IN  at

TimeCondition(t, op, v) == [type |-> t, op |-> op, millis |-> Millis(v)]

\* convertTemporal down a path: an imprecise hop drops EQ, and changes another
\* operator except into LOCAL_TIME, which only loses the date.
ConvertDown(v, path, op) ==
    LET at == Along(v, path)
        imprecise == {path[i] : i \in {i \in 2 .. Len(path) : ~Precise(at[i - 1], path[i])}}
        newOp == IF imprecise \ {"LOCAL_TIME"} = {} THEN op ELSE MutateDownscaleOp(op)
        last == Len(path)
    IN  IF imprecise # {} /\ op = "EQ" THEN {}
        ELSE {TimeCondition(path[last], newOp, at[last])}

ConvertUp(v, path, op) == {TimeCondition(path[Len(path)], op, Along(v, path)[Len(path)])}

ConvertTemporal(v, t, op) ==
    LET down == DownPaths[v.type, t]
    IN  IF down # {} THEN UNION {ConvertDown(v, p, op) : p \in down}
        ELSE UNION {ConvertUp(v, p, op) : p \in UpPaths[v.type, t]}

ExpandTemporalOperand(v, types, op) ==
    UNION {IF t = v.type THEN {TimeCondition(t, op, v)} ELSE ConvertTemporal(v, t, op) :
             t \in types \cap TemporalType}

\* resolveTemporalMillis, of a bound: asked as if for GT, which drops nothing.
ResolveMillis(v, t) == {c.millis : c \in ExpandTemporalOperand(v, {t}, "GT")}
=============================================================================
