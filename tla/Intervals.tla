------------------------------ MODULE Intervals ------------------------------
(***************************************************************************)
(* IntervalSet: a set of positions as a sequence of half-open runs,        *)
(* sorted, with a gap between each and the next.                           *)
(***************************************************************************)
EXTENDS Integers, Sequences, FiniteSets, SequencesExt

\* A set sorted: the k-th is the one that, itself included, k are not after.
InOrder(S, notAfter) ==
  [k \in 1 .. Cardinality(S) |-> CHOOSE x \in S : Cardinality({y \in S : <<y, x>> \in notAfter}) = k]

Lexicographic(triples) ==
  {p \in triples \X triples :
     \/ p[1][1] < p[2][1]
     \/ p[1][1] = p[2][1] /\ p[1][2] < p[2][2]
     \/ p[1][1] = p[2][1] /\ p[1][2] = p[2][2] /\ p[1][3] <= p[2][3]}

Run(start, end) == <<start, end>>

Positions(set) == UNION {run[1] .. run[2] - 1 : run \in ToSet(set)}

\* The last run made to end elsewhere.
Extended(set, end) == Append(Front(set), Run(Last(set)[1], end))

MergeSpan(set, span) ==
  IF set # <<>> /\ span[1] <= Last(set)[2]
  THEN Extended(set, IF Last(set)[2] > span[2] THEN Last(set)[2] ELSE span[2])
  ELSE Append(set, span)

\* coalesce, over the spans queued.
Coalesce(spans) ==
  LET queued  == {s \in spans : s[1] < s[2]}
      earlier == {p \in queued \X queued :
                    p[1][1] < p[2][1] \/ (p[1][1] = p[2][1] /\ p[1][2] <= p[2][2])}
  IN  FoldLeft(MergeSpan, <<>>, InOrder(queued, earlier))

\* push_ordered_point
PushPoint(set, p) ==
  IF set # <<>> /\ Last(set)[2] = p THEN Extended(set, p + 1) ELSE Append(set, Run(p, p + 1))

OfPoints(points) ==
  FoldLeft(PushPoint, <<>>, InOrder(points, {p \in points \X points : p[1] <= p[2]}))

\* Of the two runs looked at, the one that ends first is passed.
PassRun(a, b, s) ==
  IF s.i > Len(a) \/ s.j > Len(b) THEN s
  ELSE LET start == IF a[s.i][1] > b[s.j][1] THEN a[s.i][1] ELSE b[s.j][1]
           end   == IF a[s.i][2] < b[s.j][2] THEN a[s.i][2] ELSE b[s.j][2]
           out   == IF start < end THEN Append(s.out, Run(start, end)) ELSE s.out
       IN  IF a[s.i][2] < b[s.j][2]
           THEN [i |-> s.i + 1, j |-> s.j, out |-> out]
           ELSE [i |-> s.i, j |-> s.j + 1, out |-> out]

\* intersect_into
Intersect(a, b) ==
  FoldLeft(LAMBDA s, step : PassRun(a, b, s), [i |-> 1, j |-> 1, out |-> <<>>],
           [k \in 1 .. Len(a) + Len(b) |-> k]).out

LenPositions(set) == FoldLeft(LAMBDA sum, run : sum + run[2] - run[1], 0, set)
=============================================================================
