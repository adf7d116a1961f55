--------------------------- MODULE LiveIndexProofs ---------------------------
(***************************************************************************)
(* The two layers of a view stay consistent: whatever events are applied,  *)
(* however late or often; whatever order an enumeration meets the files    *)
(* in; through compactions and restarts. A base is made by numbering       *)
(* records in an order, so the proof is about orders first, then about the *)
(* delta, then about what BuildBase and Compacted make. On that rest two   *)
(* further parts: what a view shows of each file, against the volume's     *)
(* past, and the paths it shows.                                           *)
(***************************************************************************)
EXTENDS LiveIndex, FunctionTheorems, FiniteSetTheorems, SequenceTheorems, WellFoundedInduction, TLAPS

-----------------------------------------------------------------------------
(* Induction over the naturals, for a set. *)

\* A set that has zero, and with each number the next, has all of them.
LEMMA NatSetInduction ==
  ASSUME NEW S, 0 \in S, \A n \in Nat : n \in S => n + 1 \in S
  PROVE  Nat \subseteq S
<1> SUFFICES ASSUME NEW n \in Nat, n \notin S PROVE FALSE
  OBVIOUS
<1> DEFINE Missing == {0 .. m : m \in Nat \ S}
<1>1. Missing \subseteq FiniteSubsetsOf(Nat) /\ Missing # {}
  <2>1. \A m \in Nat : IsFiniteSet(0 .. m) /\ 0 .. m \in SUBSET Nat
    BY FS_Interval
  <2> QED  BY <2>1 DEF FiniteSubsetsOf
<1>2. PICK x \in Missing : \A y \in Missing : <<y, x>> \notin StrictSubsetOrdering(Nat)
  <2> HIDE DEF Missing
  <2> QED  BY <1>1, FS_StrictSubsetOrderingWellFounded, WFMin
<1>3. PICK m \in Nat \ S : x = 0 .. m
  OBVIOUS
<1>4. m # 0 /\ m - 1 \in Nat /\ m - 1 \notin S
  OBVIOUS
<1>5. 0 .. (m - 1) \in Missing
  BY <1>4
<1>6. 0 .. (m - 1) \subseteq 0 .. m /\ 0 .. (m - 1) # 0 .. m /\ 0 .. m \in SUBSET Nat
  BY <1>4
<1> QED  BY <1>2, <1>3, <1>5, <1>6 DEF StrictSubsetOrdering

-----------------------------------------------------------------------------
(* Places in an order. *)

\* R orders S.
Orders(R, S) ==
  /\ \A x \in S : <<x, x>> \in R
  /\ \A x, y \in S : <<x, y>> \in R \/ <<y, x>> \in R
  /\ \A x, y \in S : <<x, y>> \in R /\ <<y, x>> \in R => x = y
  /\ \A x, y, z \in S : <<x, y>> \in R /\ <<y, z>> \in R => <<x, z>> \in R

UpTo(R, S, x) == {y \in S : <<y, x>> \in R}

\* Counting what comes before each element, and itself, numbers the elements in
\* their order.
LEMMA RankIsBijection ==
  ASSUME NEW S, IsFiniteSet(S), NEW R, Orders(R, S),
         NEW rank, rank = [x \in S |-> Cardinality(UpTo(R, S, x))]
  PROVE  /\ rank \in Bijection(S, 1 .. Cardinality(S))
         /\ \A x, y \in S : rank[x] <= rank[y] => <<x, y>> \in R
<1>1. \A x \in S : IsFiniteSet(UpTo(R, S, x)) /\ Cardinality(UpTo(R, S, x)) \in Nat
                   /\ Cardinality(UpTo(R, S, x)) <= Cardinality(S)
  BY FS_Subset, FS_CardinalityType DEF UpTo
<1>2. Cardinality(S) \in Nat
  BY FS_CardinalityType
<1>3. ASSUME NEW x \in S, NEW y \in S, <<x, y>> \in R, x # y
      PROVE  rank[x] < rank[y]
  <2>1. UpTo(R, S, x) \subseteq UpTo(R, S, y) /\ y \in UpTo(R, S, y) /\ y \notin UpTo(R, S, x)
    BY <1>3 DEF Orders, UpTo
  <2>2. Cardinality(UpTo(R, S, x)) # Cardinality(UpTo(R, S, y))
        /\ Cardinality(UpTo(R, S, x)) <= Cardinality(UpTo(R, S, y))
    BY <2>1, <1>1, FS_Subset
  <2> QED  BY <2>2, <1>1
<1>4. \A x \in S : 1 <= rank[x]
  <2> SUFFICES ASSUME NEW x \in S PROVE 1 <= rank[x]
    OBVIOUS
  <2>1. x \in UpTo(R, S, x)
    BY DEF Orders, UpTo
  <2>2. Cardinality(UpTo(R, S, x)) # 0
    BY <2>1, <1>1, FS_EmptySet
  <2> QED  BY <2>2, <1>1
<1>5. rank \in [S -> 1 .. Cardinality(S)]
  BY <1>1, <1>2, <1>4
<1>6. \A x \in S : rank[x] \in Nat
  BY <1>1
<1>7. rank \in Injection(S, 1 .. Cardinality(S))
  <2>1. ASSUME NEW x \in S, NEW y \in S, rank[x] = rank[y], x # y PROVE FALSE
    <3>1. rank[x] < rank[y] \/ rank[y] < rank[x]
      BY <2>1, <1>3 DEF Orders
    <3> QED  BY <2>1, <3>1, <1>6
  <2> QED  BY <2>1, <1>5 DEF Injection, IsInjective
<1>8. IsFiniteSet(1 .. Cardinality(S)) /\ Cardinality(1 .. Cardinality(S)) = Cardinality(S)
  BY <1>2, FS_Interval
<1>9. rank \in Surjection(S, 1 .. Cardinality(S))
  BY <1>7, <1>8, FS_Injection
<1>10. ASSUME NEW x \in S, NEW y \in S, rank[x] <= rank[y], <<x, y>> \notin R PROVE FALSE
  <2>1. <<y, x>> \in R /\ x # y
    BY <1>10 DEF Orders
  <2>2. rank[y] < rank[x]
    BY <2>1, <1>3
  <2> QED  BY <2>2, <1>6, <1>10
<1> QED  BY <1>7, <1>9, <1>10 DEF Bijection

-----------------------------------------------------------------------------
(* The two layers of a view. *)

BaseRecord == [frn : Files \cup {Root}, name : Nat, parent : Nat]

\* A base is sorted by name, every index in it is one of its records, and the
\* root directory's own record is nameless and has no parent.
BaseOK(b) ==
  /\ b.recs \in Seq(BaseRecord)
  /\ \A i \in DOMAIN b.recs : b.recs[i].parent \in {PARENT_NONE} \cup DOMAIN b.recs
  /\ \A f \in DOMAIN b.frns : b.frns[f] \in DOMAIN b.recs
  /\ \A i, j \in DOMAIN b.recs : i < j => b.recs[i].name <= b.recs[j].name
  /\ \A i \in DOMAIN b.recs : b.recs[i].frn = Root => b.recs[i].name = 0 /\ b.recs[i].parent = PARENT_NONE

\* The sidecar resolves every record's file to that record, and no other file.
Exact(b) ==
  /\ \A i \in DOMAIN b.recs : b.recs[i].frn \in DOMAIN b.frns /\ b.frns[b.recs[i].frn] = i
  /\ \A f \in DOMAIN b.frns : b.recs[b.frns[f]].frn = f

Addition == [frn : Files, name : Nat \ {0}, parent : {"base", "delta"} \X Nat, live : BOOLEAN]
Deltas(b) == [ tombstones : SUBSET DOMAIN b.recs, added : Seq(Addition),
               added_frns : UNION {[fs -> Nat] : fs \in SUBSET Files} ]

\* A delta's additions come after their parents, and added_frns finds the live ones.
DeltaOK(b, d) ==
  /\ d \in Deltas(b)
  /\ \A i \in DOMAIN d.added :
       d.added[i].parent \in {BaseRef(j) : j \in DOMAIN b.recs} \cup {DeltaRef(j) : j \in 1 .. i - 1}
  /\ DOMAIN d.added_frns = {d.added[i].frn : i \in LiveAdded(d)}
  /\ \A i \in LiveAdded(d) : d.added_frns[d.added[i].frn] = i

\* No file has a live record in both layers.
Apart(b, d) ==
  \A i \in LiveAdded(d), j \in LiveBase(b, d) : d.added[i].frn # b.recs[j].frn

\* What a lookup of a file in the delta finds is its live addition.
LEMMA LookupAdded ==
  ASSUME NEW b, NEW d, DeltaOK(b, d), NEW f
  PROVE  \/ /\ Lookup(d.added_frns, f) = 0 /\ f \notin DOMAIN d.added_frns
            /\ \A i \in LiveAdded(d) : d.added[i].frn # f
         \/ /\ Lookup(d.added_frns, f) # 0 /\ Lookup(d.added_frns, f) \in LiveAdded(d)
            /\ Lookup(d.added_frns, f) \in DOMAIN d.added /\ d.added[Lookup(d.added_frns, f)].live
            /\ d.added[Lookup(d.added_frns, f)].frn = f
            /\ \A i \in LiveAdded(d) : d.added[i].frn = f => i = Lookup(d.added_frns, f)
<1>1. d.added \in Seq(Addition) /\ \A i \in LiveAdded(d) : i \in DOMAIN d.added /\ d.added[i].live
  BY DEF DeltaOK, Deltas, LiveAdded
<1>2. \A i \in LiveAdded(d) : i # 0
  BY <1>1
<1>3. CASE f \in DOMAIN d.added_frns
  BY <1>1, <1>2, <1>3 DEF DeltaOK, Lookup
<1>4. CASE f \notin DOMAIN d.added_frns
  BY <1>4 DEF DeltaOK, Lookup
<1> QED  BY <1>3, <1>4

\* A lookup in the sidecar finds a record or nothing.
LEMMA LookupSidecar ==
  ASSUME NEW b, BaseOK(b), NEW f
  PROVE  Lookup(b.frns, f) = 0 \/ Lookup(b.frns, f) \in DOMAIN b.recs
BY DEF BaseOK, Lookup

\* What a deletion does to a delta.
LEMMA DeleteKeeps ==
  ASSUME NEW b, BaseOK(b), NEW d, DeltaOK(b, d), NEW f
  PROVE  /\ DeltaOK(b, Delete(d, b, f))
         /\ Apart(b, d) => Apart(b, Delete(d, b, f))
         /\ DOMAIN Delete(d, b, f).added = DOMAIN d.added
<1> DEFINE added == Lookup(d.added_frns, f)
           index == Lookup(b.frns, f)
           e     == Delete(d, b, f)
<1>1. CASE added # 0
  <2>1. e = [d EXCEPT !.added[added].live = FALSE,
                      !.added_frns = Restrict(@, DOMAIN @ \ {f})]
    BY <1>1 DEF Delete
  <2>2. /\ added \in LiveAdded(d) /\ added \in DOMAIN d.added /\ d.added[added].frn = f
        /\ \A i \in LiveAdded(d) : d.added[i].frn = f => i = added
    BY <1>1, LookupAdded
  <2> HIDE DEF added, e
  <2>3. d \in Deltas(b) /\ d.added \in Seq(Addition)
    BY DEF DeltaOK, Deltas
  <2>4. /\ e.tombstones = d.tombstones
        /\ e.added = [d.added EXCEPT ![added].live = FALSE]
        /\ e.added_frns = [g \in DOMAIN d.added_frns \ {f} |-> d.added_frns[g]]
        /\ e = [tombstones |-> e.tombstones, added |-> e.added, added_frns |-> e.added_frns]
    BY <2>1, <2>3 DEF Deltas, Restrict
  <2>5. /\ e.added \in Seq(Addition) /\ DOMAIN e.added = DOMAIN d.added
        /\ \A i \in DOMAIN d.added : /\ e.added[i].frn = d.added[i].frn
                                     /\ e.added[i].parent = d.added[i].parent
                                     /\ e.added[i].live = (i # added /\ d.added[i].live)
    <3> DEFINE dead == [d.added[added] EXCEPT !.live = FALSE]
    <3>1. \A i \in DOMAIN d.added : d.added[i] \in Addition
      BY <2>3
    <3>2. /\ dead \in Addition /\ dead.frn = d.added[added].frn
          /\ dead.parent = d.added[added].parent /\ dead.live = FALSE
      BY <2>2, <3>1 DEF Addition
    <3> HIDE DEF dead
    <3>3. e.added = [d.added EXCEPT ![added] = dead]
      BY <2>4 DEF dead
    <3>4. e.added \in Seq(Addition)
      BY <2>2, <2>3, <3>2, <3>3, ExceptSeq
    <3>5. DOMAIN e.added = DOMAIN d.added /\ e.added[added] = dead
          /\ \A i \in DOMAIN d.added \ {added} : e.added[i] = d.added[i]
      BY <2>2, <2>3, <3>3
    <3>6. \A i \in DOMAIN d.added : d.added[i].live \in BOOLEAN
      BY <3>1 DEF Addition
    <3> QED  BY <3>2, <3>4, <3>5, <3>6
  <2>6. LiveAdded(e) = LiveAdded(d) \ {added}
    BY <2>5 DEF LiveAdded
  <2>7. e.added_frns \in UNION {[fs -> Nat] : fs \in SUBSET Files}
    <3>1. PICK fs \in SUBSET Files : d.added_frns \in [fs -> Nat]
      BY <2>3 DEF Deltas
    <3>2. e.added_frns \in [fs \ {f} -> Nat]
      BY <2>4, <3>1
    <3> QED  BY <3>2
  <2>8. e \in Deltas(b)
    BY <2>3, <2>4, <2>5, <2>7 DEF Deltas
  <2>9. \A i \in LiveAdded(d) : i \in DOMAIN d.added
    BY DEF LiveAdded
  <2>10. DeltaOK(b, e)
    <3>1. \A i \in DOMAIN e.added :
            e.added[i].parent \in {BaseRef(j) : j \in DOMAIN b.recs} \cup {DeltaRef(j) : j \in 1 .. i - 1}
      BY <2>5 DEF DeltaOK
    <3>2. DOMAIN e.added_frns = {e.added[i].frn : i \in LiveAdded(e)}
      <4>1. DOMAIN e.added_frns = {d.added[i].frn : i \in LiveAdded(d)} \ {f}
        BY <2>4 DEF DeltaOK
      <4> QED  BY <4>1, <2>2, <2>5, <2>6, <2>9
    <3>3. \A i \in LiveAdded(e) : e.added_frns[e.added[i].frn] = i
      <4> SUFFICES ASSUME NEW i \in LiveAdded(d), i # added PROVE e.added_frns[e.added[i].frn] = i
        BY <2>6
      <4>1. d.added[i].frn # f /\ d.added[i].frn \in DOMAIN d.added_frns /\ d.added_frns[d.added[i].frn] = i
        BY <2>2 DEF DeltaOK
      <4> QED  BY <4>1, <2>4, <2>5, <2>9
    <3> QED  BY <2>8, <3>1, <3>2, <3>3 DEF DeltaOK
  <2>11. Apart(b, d) => Apart(b, e)
    BY <2>4, <2>5, <2>6, <2>9 DEF Apart, LiveBase
  <2> QED  BY <2>5, <2>10, <2>11 DEF e
<1>2. CASE added = 0 /\ index # 0
  <2>1. e = [d EXCEPT !.tombstones = @ \cup {index}] /\ index \in DOMAIN b.recs
    BY <1>2, LookupSidecar DEF Delete
  <2> HIDE DEF e, index, added
  <2>2. /\ e \in Deltas(b) /\ e.added = d.added /\ e.added_frns = d.added_frns
        /\ d.tombstones \subseteq e.tombstones
    BY <2>1 DEF DeltaOK, Deltas
  <2>3. LiveAdded(e) = LiveAdded(d) /\ LiveBase(b, e) \subseteq LiveBase(b, d)
    BY <2>2 DEF LiveAdded, LiveBase
  <2>4. DeltaOK(b, e)
    BY <2>2, <2>3 DEF DeltaOK
  <2>5. Apart(b, d) => Apart(b, e)
    BY <2>2, <2>3 DEF Apart
  <2> QED  BY <2>2, <2>4, <2>5 DEF e
<1>3. CASE added = 0 /\ index = 0
  <2>1. e = d
    BY <1>3 DEF Delete
  <2> QED  BY <2>1
<1> QED  BY <1>1, <1>2, <1>3

\* A parent that can be resolved is a record that is there.
LEMMA ResolvedParent ==
  ASSUME NEW b, BaseOK(b), NEW d, DeltaOK(b, d), NEW f, NEW p \in ResolveParent(d, b, f)
  PROVE  p \in {BaseRef(j) : j \in DOMAIN b.recs} \cup {DeltaRef(j) : j \in DOMAIN d.added}
BY LookupAdded, LookupSidecar DEF ResolveParent

\* What is left in the delta's map when an addition is put into it.
LEMMA PushedShape ==
  ASSUME NEW b, BaseOK(b), NEW d, DeltaOK(b, d), NEW f \in Files, NEW parentFrn,
         NEW name \in Nat \ {0}, NEW e \in Pushed(d, b, f, parentFrn, name)
  PROVE  /\ e.tombstones = d.tombstones
         /\ e \in Deltas(b)
         /\ DOMAIN d.added = 1 .. Len(d.added) /\ Len(d.added) \in Nat
         /\ DOMAIN e.added = 1 .. Len(d.added) + 1
         /\ \A i \in DOMAIN d.added : e.added[i] = d.added[i]
         /\ e.added[Len(d.added) + 1].frn = f /\ e.added[Len(d.added) + 1].live
         /\ e.added[Len(d.added) + 1].name = name
         /\ e.added[Len(d.added) + 1].parent \in ResolveParent(d, b, parentFrn)
         /\ e.added[Len(d.added) + 1].parent
              \in {BaseRef(j) : j \in DOMAIN b.recs} \cup {DeltaRef(j) : j \in DOMAIN d.added}
         /\ DOMAIN e.added_frns = {f} \cup DOMAIN d.added_frns
         /\ e.added_frns[f] = Len(d.added) + 1
         /\ \A g \in DOMAIN d.added_frns : g # f => e.added_frns[g] = d.added_frns[g]
<1>1. PICK parent \in ResolveParent(d, b, parentFrn) :
        e = [d EXCEPT !.added = Append(@, [frn |-> f, name |-> name, parent |-> parent, live |-> TRUE]),
                      !.added_frns = Inserted(@, f, Len(d.added) + 1)]
  BY DEF Pushed
<1> DEFINE new == [frn |-> f, name |-> name, parent |-> parent, live |-> TRUE]
<1>2. d \in Deltas(b) /\ d.added \in Seq(Addition)
  BY DEF DeltaOK, Deltas
<1>3. parent \in {BaseRef(j) : j \in DOMAIN b.recs} \cup {DeltaRef(j) : j \in DOMAIN d.added}
  BY ResolvedParent
<1>4. \A j \in DOMAIN b.recs : j \in Nat
  BY DEF BaseOK
<1>5. parent \in {"base", "delta"} \X Nat
  BY <1>2, <1>3, <1>4 DEF BaseRef, DeltaRef
<1>6. new \in Addition /\ new.frn = f /\ new.live /\ new.parent = parent /\ new.name = name
  BY <1>5 DEF Addition
<1>7. /\ e.tombstones = d.tombstones
      /\ e.added = Append(d.added, new)
      /\ e.added_frns = Inserted(d.added_frns, f, Len(d.added) + 1)
      /\ e = [tombstones |-> e.tombstones, added |-> e.added, added_frns |-> e.added_frns]
  BY <1>1, <1>2 DEF Deltas
<1> HIDE DEF new
<1>8. /\ e.added \in Seq(Addition) /\ DOMAIN e.added = 1 .. Len(d.added) + 1
      /\ DOMAIN d.added = 1 .. Len(d.added) /\ Len(d.added) \in Nat
      /\ \A i \in DOMAIN d.added : e.added[i] = d.added[i]
      /\ e.added[Len(d.added) + 1] = new
  BY <1>2, <1>6, <1>7
<1>9. /\ DOMAIN e.added_frns = {f} \cup DOMAIN d.added_frns
      /\ e.added_frns[f] = Len(d.added) + 1
      /\ \A g \in DOMAIN d.added_frns : g # f => e.added_frns[g] = d.added_frns[g]
      /\ e.added_frns = [g \in {f} \cup DOMAIN d.added_frns |-> IF g = f THEN Len(d.added) + 1 ELSE d.added_frns[g]]
  BY <1>7 DEF Inserted
<1>10. e.added_frns \in UNION {[fs -> Nat] : fs \in SUBSET Files}
  <2>1. PICK fs \in SUBSET Files : d.added_frns \in [fs -> Nat]
    BY <1>2 DEF Deltas
  <2>2. e.added_frns \in [fs \cup {f} -> Nat]
    BY <1>8, <1>9, <2>1
  <2> QED  BY <2>2
<1>11. e \in Deltas(b)
  BY <1>2, <1>7, <1>8, <1>10 DEF Deltas
<1> QED  BY <1>1, <1>3, <1>6, <1>7, <1>8, <1>9, <1>11

\* An addition of a file that has no live record.
LEMMA PushedKeeps ==
  ASSUME NEW b, BaseOK(b), NEW d, DeltaOK(b, d), NEW f \in Files, NEW parentFrn,
         NEW name \in Nat \ {0}, ~Present(d, b, f), NEW e \in Pushed(d, b, f, parentFrn, name)
  PROVE  /\ DeltaOK(b, e)
         /\ Exact(b) /\ Apart(b, d) => Apart(b, e)
<1> DEFINE n == Len(d.added) + 1
<1>1. /\ Lookup(d.added_frns, f) = 0
      /\ \A i \in LiveAdded(d) : d.added[i].frn # f
      /\ Lookup(b.frns, f) = 0 \/ Lookup(b.frns, f) \in d.tombstones
  BY LookupAdded DEF Present
<1>2. /\ e.tombstones = d.tombstones
      /\ e \in Deltas(b)
      /\ DOMAIN d.added = 1 .. Len(d.added) /\ Len(d.added) \in Nat
      /\ DOMAIN e.added = 1 .. n
      /\ \A i \in DOMAIN d.added : e.added[i] = d.added[i]
      /\ e.added[n].frn = f /\ e.added[n].live
      /\ e.added[n].parent
              \in {BaseRef(j) : j \in DOMAIN b.recs} \cup {DeltaRef(j) : j \in DOMAIN d.added}
      /\ DOMAIN e.added_frns = {f} \cup DOMAIN d.added_frns
      /\ e.added_frns[f] = n
      /\ \A g \in DOMAIN d.added_frns : g # f => e.added_frns[g] = d.added_frns[g]
  BY PushedShape
<1>3. LiveAdded(e) = LiveAdded(d) \cup {n}
  BY <1>2 DEF LiveAdded
<1>4. \A i \in LiveAdded(d) : i \in DOMAIN d.added /\ i # n
  BY <1>2 DEF LiveAdded
<1>5. DeltaOK(b, e)
  <2>1. ASSUME NEW i \in DOMAIN e.added
        PROVE  e.added[i].parent \in {BaseRef(j) : j \in DOMAIN b.recs} \cup {DeltaRef(j) : j \in 1 .. i - 1}
    <3>1. CASE i = n
      <4>1. 1 .. n - 1 = DOMAIN d.added
        BY <1>2
      <4> QED  BY <3>1, <4>1, <1>2
    <3>2. CASE i # n
      <4>1. i \in DOMAIN d.added
        BY <3>2, <1>2
      <4> QED  BY <4>1, <1>2 DEF DeltaOK
    <3> QED  BY <3>1, <3>2
  <2>2. DOMAIN e.added_frns = {e.added[i].frn : i \in LiveAdded(e)}
    <3>1. \A i \in LiveAdded(d) : e.added[i] = d.added[i]
      BY <1>2, <1>4
    <3>2. {e.added[i].frn : i \in LiveAdded(e)} = {d.added[i].frn : i \in LiveAdded(d)} \cup {f}
      BY <1>2, <1>3, <3>1
    <3> QED  BY <1>2, <3>2 DEF DeltaOK
  <2>3. \A i \in LiveAdded(e) : e.added_frns[e.added[i].frn] = i
    <3>1. ASSUME NEW i \in LiveAdded(d) PROVE e.added_frns[e.added[i].frn] = i
      <4>1. e.added[i].frn = d.added[i].frn /\ d.added[i].frn # f
        BY <1>1, <1>2, <1>4
      <4>2. d.added[i].frn \in DOMAIN d.added_frns /\ d.added_frns[d.added[i].frn] = i
        BY DEF DeltaOK
      <4> QED  BY <4>1, <4>2, <1>2
    <3> QED  BY <1>2, <1>3, <3>1
  <2> QED  BY <1>2, <2>1, <2>2, <2>3 DEF DeltaOK
<1>6. ASSUME Exact(b), Apart(b, d) PROVE Apart(b, e)
  <2>1. LiveBase(b, e) = LiveBase(b, d)
    BY <1>2 DEF LiveBase
  <2>2. ASSUME NEW j \in LiveBase(b, d), b.recs[j].frn = f PROVE FALSE
    <3>1. j \in DOMAIN b.recs /\ j \notin d.tombstones /\ j # 0
      BY DEF LiveBase, BaseOK
    <3>2. Lookup(b.frns, f) = j
      BY <1>6, <2>2, <3>1 DEF Exact, Lookup
    <3> QED  BY <3>1, <3>2, <1>1
  <2> QED  BY <1>2, <1>3, <1>4, <1>6, <2>1, <2>2 DEF Apart
<1> QED  BY <1>5, <1>6

\* A creation, of a file that may be there already.
LEMMA CreateKeeps ==
  ASSUME NEW b, BaseOK(b), NEW d, DeltaOK(b, d), NEW f \in Files, NEW parentFrn,
         NEW name \in Nat \ {0}, NEW e \in Create(d, b, f, parentFrn, name)
  PROVE  /\ DeltaOK(b, e)
         /\ Exact(b) /\ Apart(b, d) => Apart(b, e)
<1>1. CASE Present(d, b, f)
  BY <1>1 DEF Create
<1>2. CASE ~Present(d, b, f)
  BY <1>2, PushedKeeps DEF Create
<1> QED  BY <1>1, <1>2

\* Whatever an event says, of whatever file and however late, applying it keeps
\* the layers consistent.
LEMMA ApplyKeeps ==
  ASSUME NEW b, BaseOK(b), NEW d, DeltaOK(b, d), NEW event \in Event, Names \subseteq Nat \ {0},
         NEW e \in Apply(d, b, event)
  PROVE  /\ DeltaOK(b, e)
         /\ Exact(b) /\ Apart(b, d) => Apart(b, e)
<1> DEFINE f == event.frn  p == event.parent  name == event.name
<1>1. f \in Files /\ name \in Nat \ {0} /\ event.kind \in {"created", "renamed", "deleted"}
  BY DEF Event
<1>2. CASE event.kind = "created"
  <2>1. e \in Create(d, b, f, p, name)
    BY <1>2 DEF Apply
  <2> QED  BY <1>1, <2>1, CreateKeeps
<1>3. CASE event.kind = "deleted"
  <2>1. e = Delete(d, b, f)
    BY <1>3 DEF Apply
  <2> QED  BY <2>1, DeleteKeeps
<1>4. CASE event.kind = "renamed"
  <2>1. e \in Rename(d, b, f, p, name)
    BY <1>4 DEF Apply
  <2>2. e = d \/ e \in Create(Delete(d, b, f), b, f, p, name)
    BY <2>1 DEF Rename
  <2> QED  BY <1>1, <2>2, DeleteKeeps, CreateKeeps
<1> QED  BY <1>1, <1>2, <1>3, <1>4

-----------------------------------------------------------------------------
(* A batch of events. *)

\* The files a change leaves stranded are files: the root has no parent to lose.
LEMMA StrandedAreFiles ==
  ASSUME NEW b, BaseOK(b), NEW d, DeltaOK(b, d), NEW ref \in Stranded(b, d)
  PROVE  Record(b, d, ref).frn \in Files
<1>1. PICK p \in ParentOf(b, d, ref) : TRUE
  BY DEF Stranded
<1>2. ref \in LiveRecords(b, d)
  BY DEF Stranded
<1>3. CASE \E i \in LiveBase(b, d) : ref = BaseRef(i)
  <2>1. PICK i \in DOMAIN b.recs : ref = BaseRef(i)
    BY <1>3 DEF LiveBase
  <2>2. ref[1] = "base" /\ ref[2] = i
    BY <2>1 DEF BaseRef
  <2>3. b.recs[i].parent # PARENT_NONE /\ Record(b, d, ref) = b.recs[i]
    BY <1>1, <2>2 DEF ParentOf, Record
  <2>4. b.recs[i] \in BaseRecord /\ b.recs[i].frn # Root
    BY <2>1, <2>3 DEF BaseOK
  <2> QED  BY <2>3, <2>4 DEF BaseRecord
<1>4. CASE \E i \in LiveAdded(d) : ref = DeltaRef(i)
  <2>1. PICK i \in DOMAIN d.added : ref = DeltaRef(i)
    BY <1>4 DEF LiveAdded
  <2>2. ref[1] = "delta" /\ ref[2] = i
    BY <2>1 DEF DeltaRef
  <2>3. Record(b, d, ref) = d.added[i]
    BY <2>2 DEF Record
  <2>4. d.added[i] \in Addition
    BY <2>1 DEF DeltaOK, Deltas
  <2> QED  BY <2>3, <2>4 DEF Addition
<1> QED  BY <1>2, <1>3, <1>4 DEF LiveRecords

\* What holds of every outcome of a batch, if it does of the delta it starts from.
Outcome(s, first) ==
  /\ DeltaOK(base, s.delta)
  /\ Exact(base) /\ Apart(base, first) => Apart(base, s.delta)
  /\ s.orphans \subseteq Files

\* An event keeps every outcome of the events before it.
LEMMA ApplyEachKeeps ==
  ASSUME BaseOK(base), NEW first, NEW done, \A s \in done : Outcome(s, first),
         NEW event \in Event, NEW t \in ApplyEach(done, event)
  PROVE  Outcome(t, first)
<1> DEFINE After(s, d) == [ delta   |-> d,
                            orphans |-> (s.orphans \ {d.added[i].frn : i \in AddedBy(s.delta, d)})
                                          \cup StrandedBy(s.delta, d) ]
<1>0. PICK s \in done : t \in {After(s, d) : d \in Apply(s.delta, base, event)}
  BY DEF ApplyEach
<1>1. PICK d \in Apply(s.delta, base, event) : t = After(s, d)
  BY <1>0
<1>2. /\ DeltaOK(base, s.delta)
      /\ Exact(base) /\ Apart(base, first) => Apart(base, s.delta)
      /\ s.orphans \subseteq Files
  BY DEF Outcome
<1>3. DeltaOK(base, d) /\ (Exact(base) /\ Apart(base, s.delta) => Apart(base, d))
  BY <1>1, <1>2, ApplyKeeps, FilesAssumption
<1>4. StrandedBy(s.delta, d) \subseteq Files
  BY <1>3, StrandedAreFiles DEF StrandedBy
<1>5. t.delta = d /\ t.orphans \subseteq s.orphans \cup StrandedBy(s.delta, d)
  BY <1>1
<1> QED  BY <1>2, <1>3, <1>4, <1>5 DEF Outcome

\* The outcomes after each event of a batch, as ApplyAll defines them.
IsRun(g, first, events, n) ==
  g = [k \in 0 .. n |-> IF k = 0 THEN {[delta |-> first, orphans |-> orphans]}
                        ELSE ApplyEach(g[k - 1], events[k])]

\* There is a list of outcomes that meets its recursive definition.
LEMMA RunExists ==
  ASSUME NEW first, NEW events, NEW n \in Nat
  PROVE  \E g : IsRun(g, first, events, n)
<1> DEFINE S == {m \in Nat : \E g : IsRun(g, first, events, m)}
<1>1. 0 \in S
  <2> DEFINE g == [k \in 0 .. 0 |-> {[delta |-> first, orphans |-> orphans]}]
  <2>1. IsRun(g, first, events, 0)
    BY DEF IsRun
  <2> QED  BY <2>1
<1>2. ASSUME NEW m \in Nat, m \in S PROVE m + 1 \in S
  <2>1. PICK g : IsRun(g, first, events, m)
    BY <1>2
  <2> DEFINE h == [k \in 0 .. m + 1 |-> IF k = m + 1 THEN ApplyEach(g[m], events[m + 1]) ELSE g[k]]
             r == [k \in 0 .. m + 1 |-> IF k = 0 THEN {[delta |-> first, orphans |-> orphans]}
                                        ELSE ApplyEach(h[k - 1], events[k])]
  <2>2. ASSUME NEW k \in 0 .. m + 1 PROVE h[k] = r[k]
    <3>1. CASE k = m + 1
      BY <3>1
    <3>2. CASE k # m + 1
      <4>1. k \in 0 .. m /\ (k # 0 => k - 1 \in 0 .. m + 1 /\ k - 1 # m + 1)
        BY <3>2
      <4>2. h[k] = g[k] /\ (k # 0 => h[k - 1] = g[k - 1])
        BY <3>2, <4>1
      <4>3. g[k] = IF k = 0 THEN {[delta |-> first, orphans |-> orphans]}
                   ELSE ApplyEach(g[k - 1], events[k])
        BY <2>1, <4>1 DEF IsRun
      <4> QED  BY <4>2, <4>3
    <3> QED  BY <3>1, <3>2
  <2>3. h = r
    BY <2>2
  <2>4. IsRun(h, first, events, m + 1)
    BY <2>3 DEF IsRun
  <2> QED  BY <2>4
<1> HIDE DEF S
<1>3. Nat \subseteq S
  BY <1>1, <1>2, NatSetInduction
<1> QED  BY <1>3 DEF S

\* A batch of any events keeps the layers consistent.
LEMMA ApplyAllKeeps ==
  ASSUME BaseOK(base), NEW first, DeltaOK(base, first), orphans \subseteq Files,
         NEW events \in Seq(Event), NEW t \in ApplyAll(first, events)
  PROVE  Outcome(t, first)
<1> DEFINE n == Len(events)
<1>1. n \in Nat /\ \A k \in 1 .. n : events[k] \in Event
  OBVIOUS
<1>2. PICK g : IsRun(g, first, events, n) /\ ApplyAll(first, events) = g[n]
  <2> DEFINE g == CHOOSE h : IsRun(h, first, events, n)
  <2>1. IsRun(g, first, events, n)
    BY <1>1, RunExists
  <2>2. ApplyAll(first, events) = g[n]
    BY DEF ApplyAll, IsRun
  <2> QED  BY <2>1, <2>2
<1> DEFINE S == {k \in Nat : k <= n => \A s \in g[k] : Outcome(s, first)}
<1>3. 0 \in S
  <2>1. g[0] = {[delta |-> first, orphans |-> orphans]}
    BY <1>1, <1>2 DEF IsRun
  <2> QED  BY <2>1 DEF Outcome
<1>4. ASSUME NEW k \in Nat, k \in S PROVE k + 1 \in S
  <2> SUFFICES ASSUME k + 1 <= n PROVE \A s \in g[k + 1] : Outcome(s, first)
    OBVIOUS
  <2> DEFINE value(j) == IF j = 0 THEN {[delta |-> first, orphans |-> orphans]}
                         ELSE ApplyEach(g[j - 1], events[j])
  <2>0. k + 1 \in 0 .. n /\ k + 1 \in 1 .. n /\ k + 1 # 0 /\ (k + 1) - 1 = k
    BY <1>1
  <2>1. g[k + 1] = ApplyEach(g[k], events[k + 1]) /\ events[k + 1] \in Event
    <3>1. g = [j \in 0 .. n |-> value(j)]
      BY <1>2 DEF IsRun
    <3> HIDE DEF value
    <3>2. g[k + 1] = value(k + 1)
      BY <3>1, <2>0
    <3> QED  BY <3>2, <2>0, <1>1 DEF value
  <2>2. \A s \in g[k] : Outcome(s, first)
    BY <1>1, <1>4
  <2> QED  BY <2>1, <2>2, ApplyEachKeeps
<1> HIDE DEF S
<1>5. n \in S
  BY <1>1, <1>3, <1>4, NatSetInduction
<1> QED  BY <1>1, <1>2, <1>5 DEF S

-----------------------------------------------------------------------------
(* An enumeration's base. *)

\* A numbering, turned around, lists what it numbers.
LEMMA Numbered ==
  ASSUME NEW S, NEW n \in Nat, NEW f \in Bijection(S, 1 .. n)
  PROVE  /\ DOMAIN AntiFunction(f) = 1 .. n
         /\ \A i \in 1 .. n : AntiFunction(f)[i] \in S /\ f[AntiFunction(f)[i]] = i
         /\ \A x \in S : f[x] \in 1 .. n /\ AntiFunction(f)[f[x]] = x
<1>1. /\ f \in [S -> 1 .. n] /\ DOMAIN f = S
      /\ \A x, y \in S : f[x] = f[y] => x = y
      /\ \A i \in 1 .. n : \E x \in S : f[x] = i
  BY DEF Bijection, Injection, Surjection, IsInjective
<1>2. Range(f) = 1 .. n
  BY <1>1 DEF Range
<1>3. AntiFunction(f) = [i \in 1 .. n |-> CHOOSE x \in S : i \in 1 .. n => f[x] = i]
  BY <1>1, <1>2 DEF AntiFunction, Inverse
<1>4. ASSUME NEW i \in 1 .. n
      PROVE  AntiFunction(f)[i] \in S /\ f[AntiFunction(f)[i]] = i
  <2>1. \E x \in S : i \in 1 .. n => f[x] = i
    BY <1>1
  <2> QED  BY <1>3, <2>1
<1>5. ASSUME NEW x \in S
      PROVE  f[x] \in 1 .. n /\ AntiFunction(f)[f[x]] = x
  BY <1>1, <1>4
<1> QED  BY <1>3, <1>4, <1>5

Enumeration(seen) ==
  /\ DOMAIN seen \subseteq Files \cup {Root} /\ Root \in DOMAIN seen
  /\ \A f \in DOMAIN seen : seen[f].name \in Nat
  /\ seen[Root].name = 0

\* The order of names, ties in the order of the files.
NameOrder(seen) ==
  {p \in (DOMAIN seen) \X (DOMAIN seen) :
     seen[p[1]].name < seen[p[2]].name \/ (seen[p[1]].name = seen[p[2]].name /\ p[1] <= p[2])}

\* A base made from an enumeration is in order, its sidecar is exact, and each
\* file's record has its name and its directory's index, or else the root's.
LEMMA BuiltBase ==
  ASSUME NEW seen, Enumeration(seen), NEW b, b = BuildBase(seen)
  PROVE  /\ BaseOK(b) /\ Exact(b) /\ DOMAIN b.frns = DOMAIN seen
         /\ \A f \in DOMAIN seen :
              /\ b.recs[b.frns[f]].name = seen[f].name
              /\ b.recs[b.frns[f]].parent =
                   IF f = Root THEN PARENT_NONE
                   ELSE b.frns[IF seen[f].parent \in DOMAIN seen THEN seen[f].parent ELSE Root]
<1> DEFINE S == DOMAIN seen
           index == [f \in S |-> Cardinality({g \in S : seen[g].name < seen[f].name
                                                \/ (seen[g].name = seen[f].name /\ g <= f)})]
           order == AntiFunction(index)
           n == Cardinality(S)
           R == NameOrder(seen)
           parent(f) == IF f = Root THEN PARENT_NONE
                        ELSE IF seen[f].parent \in S THEN index[seen[f].parent]
                        ELSE index[Root]
<1>1. b = [recs |-> [i \in DOMAIN order |->
                       [frn |-> order[i], name |-> seen[order[i]].name, parent |-> parent(order[i])]],
           frns |-> index]
  BY DEF BuildBase
<1>2. IsFiniteSet(S) /\ n \in Nat /\ S \subseteq Nat
  <2>1. IsFiniteSet(Files \cup {Root})
    BY FilesAssumption, FS_AddElement
  <2>2. IsFiniteSet(S)
    BY <2>1, FS_Subset DEF Enumeration
  <2> QED  BY <2>2, FilesAssumption, FS_CardinalityType DEF Enumeration, Root
<1>3. \A x, y \in S : <<x, y>> \in R <=>
        seen[x].name < seen[y].name \/ (seen[x].name = seen[y].name /\ x <= y)
  BY DEF NameOrder
<1>4. \A f \in S : seen[f].name \in Nat
  BY DEF Enumeration
<1>5. Orders(R, S)
  <2> HIDE DEF R, S
  <2> QED  BY <1>2, <1>3, <1>4 DEF Orders
<1>6. index = [x \in S |-> Cardinality(UpTo(R, S, x))]
  <2>1. \A x \in S : {g \in S : seen[g].name < seen[x].name
                          \/ (seen[g].name = seen[x].name /\ g <= x)} = UpTo(R, S, x)
    BY <1>3 DEF UpTo
  <2> QED  BY <2>1
<1> HIDE DEF R, index
<1>7. /\ index \in Bijection(S, 1 .. n)
      /\ \A x, y \in S : index[x] <= index[y] => <<x, y>> \in R
  BY <1>2, <1>5, <1>6, RankIsBijection
<1>8. /\ DOMAIN order = 1 .. n
      /\ \A i \in 1 .. n : order[i] \in S /\ index[order[i]] = i
      /\ \A x \in S : index[x] \in 1 .. n /\ order[index[x]] = x
  BY <1>2, <1>7, Numbered
<1>9. DOMAIN index = S
  BY <1>6
<1> HIDE DEF order
<1>10. /\ b.frns = index /\ DOMAIN b.recs = 1 .. n
       /\ \A i \in 1 .. n : b.recs[i] = [frn |-> order[i], name |-> seen[order[i]].name, parent |-> parent(order[i])]
       /\ b.recs = [i \in 1 .. n |-> [frn |-> order[i], name |-> seen[order[i]].name, parent |-> parent(order[i])]]
  BY <1>1, <1>8
<1>11. \A f \in S : parent(f) \in {PARENT_NONE} \cup 1 .. n
  BY <1>8 DEF Enumeration
<1>12. PARENT_NONE \in Nat /\ parent(Root) = PARENT_NONE
  BY DEF PARENT_NONE
<1>13. \A f \in S : parent(f) = IF f = Root THEN PARENT_NONE
                               ELSE index[IF seen[f].parent \in S THEN seen[f].parent ELSE Root]
  OBVIOUS
<1> HIDE DEF parent
<1>14. b.recs \in Seq(BaseRecord)
  <2>1. \A i \in 1 .. n : b.recs[i] \in BaseRecord
    BY <1>4, <1>8, <1>10, <1>11, <1>12 DEF BaseRecord, Enumeration
  <2>2. b.recs \in [1 .. n -> BaseRecord]
    BY <1>10, <2>1
  <2> QED  BY <1>2, <2>2
<1>15. \A i \in 1 .. n : /\ b.recs[i].frn = order[i] /\ b.recs[i].name = seen[order[i]].name
                         /\ b.recs[i].parent = parent(order[i])
  BY <1>10
<1>16. \A i, j \in 1 .. n : i < j => b.recs[i].name <= b.recs[j].name
  <2> SUFFICES ASSUME NEW i \in 1 .. n, NEW j \in 1 .. n, i < j
               PROVE  b.recs[i].name <= b.recs[j].name
    OBVIOUS
  <2>1. <<order[i], order[j]>> \in R /\ order[i] \in S /\ order[j] \in S
    BY <1>2, <1>7, <1>8
  <2> QED  BY <2>1, <1>3, <1>4, <1>15
<1>17. BaseOK(b)
  <2>1. \A i \in 1 .. n : b.recs[i].parent \in {PARENT_NONE} \cup 1 .. n
    BY <1>8, <1>11, <1>15
  <2>2. \A f \in DOMAIN b.frns : b.frns[f] \in 1 .. n
    BY <1>8, <1>9, <1>10
  <2>3. \A i \in 1 .. n : b.recs[i].frn = Root => b.recs[i].name = 0 /\ b.recs[i].parent = PARENT_NONE
    BY <1>12, <1>15 DEF Enumeration
  <2> QED  BY <1>10, <1>14, <1>16, <2>1, <2>2, <2>3 DEF BaseOK
<1>18. Exact(b)
  BY <1>8, <1>9, <1>10, <1>15 DEF Exact
<1>19. \A f \in S : /\ b.recs[b.frns[f]].name = seen[f].name
                    /\ b.recs[b.frns[f]].parent = parent(f)
  BY <1>8, <1>10, <1>15
<1>20. \A f \in S : parent(f) = IF f = Root THEN PARENT_NONE
                                ELSE b.frns[IF seen[f].parent \in S THEN seen[f].parent ELSE Root]
  BY <1>10, <1>13
<1> QED  BY <1>9, <1>10, <1>17, <1>18, <1>19, <1>20

-----------------------------------------------------------------------------
(* Where a compaction puts each record. *)

\* What the live records of two layers have in common.
LEMMA LiveFacts ==
  ASSUME NEW b, BaseOK(b), NEW d, DeltaOK(b, d)
  PROVE  /\ \A i \in LiveBase(b, d) : /\ i \in DOMAIN b.recs /\ i \in Nat \ {0} /\ i \notin d.tombstones
                                      /\ b.recs[i] \in BaseRecord /\ b.recs[i].name \in Nat
         /\ \A i \in LiveAdded(d) : /\ i \in DOMAIN d.added /\ i \in Nat \ {0}
                                    /\ d.added[i] \in Addition /\ d.added[i].name \in Nat \ {0}
                                    /\ d.added[i].frn \in Files
         /\ IsFiniteSet(LiveBase(b, d)) /\ IsFiniteSet(LiveAdded(d))
         /\ \A i, j \in LiveBase(b, d) : i <= j => b.recs[i].name <= b.recs[j].name
<1>1. b.recs \in Seq(BaseRecord) /\ d.added \in Seq(Addition)
  BY DEF BaseOK, DeltaOK, Deltas
<1>2. LiveBase(b, d) \subseteq DOMAIN b.recs /\ LiveAdded(d) \subseteq DOMAIN d.added
  BY DEF LiveBase, LiveAdded
<1>3. /\ DOMAIN b.recs = 1 .. Len(b.recs) /\ Len(b.recs) \in Nat
      /\ DOMAIN d.added = 1 .. Len(d.added) /\ Len(d.added) \in Nat
  BY <1>1
<1>4. IsFiniteSet(LiveBase(b, d)) /\ IsFiniteSet(LiveAdded(d))
  <2>1. IsFiniteSet(DOMAIN b.recs) /\ IsFiniteSet(DOMAIN d.added)
    <3>1. \A n \in Nat : IsFiniteSet(1 .. n)
      BY FS_Interval
    <3> QED  BY <3>1, <1>3
  <2> QED  BY <2>1, <1>2, FS_Subset
<1> DEFINE recs == b.recs  added == d.added
<1>5. \A i \in DOMAIN recs : recs[i] \in BaseRecord /\ recs[i].name \in Nat
  <2>1. \A r \in BaseRecord : r.name \in Nat
    BY DEF BaseRecord
  <2>2. \A i \in DOMAIN recs : recs[i] \in BaseRecord
    BY <1>1
  <2> QED  BY <2>1, <2>2
<1>6. \A i \in DOMAIN added : added[i] \in Addition /\ added[i].name \in Nat \ {0} /\ added[i].frn \in Files
  <2>1. \A r \in Addition : r.name \in Nat \ {0} /\ r.frn \in Files
    BY DEF Addition
  <2>2. \A i \in DOMAIN added : added[i] \in Addition
    BY <1>1
  <2> QED  BY <2>1, <2>2
<1>7. ASSUME NEW i \in LiveBase(b, d)
      PROVE  /\ i \in DOMAIN b.recs /\ i \in Nat \ {0} /\ i \notin d.tombstones
             /\ b.recs[i] \in BaseRecord /\ b.recs[i].name \in Nat
  BY <1>5, <1>2, <1>3 DEF LiveBase
<1>8. ASSUME NEW i \in LiveAdded(d)
      PROVE  /\ i \in DOMAIN d.added /\ i \in Nat \ {0}
             /\ d.added[i] \in Addition /\ d.added[i].name \in Nat \ {0}
             /\ d.added[i].frn \in Files
  BY <1>6, <1>2, <1>3
<1>9. ASSUME NEW i \in LiveBase(b, d), NEW j \in LiveBase(b, d), i <= j
      PROVE  b.recs[i].name <= b.recs[j].name
  <2>1. CASE i = j
    BY <2>1, <1>7
  <2>2. CASE i # j
    <3>1. i < j
      BY <2>2, <1>7, <1>9
    <3> QED  BY <3>1, <1>7 DEF BaseOK
  <2> QED  BY <2>1, <2>2
<1> QED  BY <1>4, <1>7, <1>8, <1>9

\* The merged order: by name, the base first, and within a layer as they are.
MergedBefore(b, d, p, q) ==
  \/ p[1] = "base" /\ q[1] = "base" /\ p[2] <= q[2]
  \/ p[1] = "base" /\ q[1] = "delta" /\ b.recs[p[2]].name <= d.added[q[2]].name
  \/ p[1] = "delta" /\ q[1] = "base" /\ d.added[p[2]].name < b.recs[q[2]].name
  \/ /\ p[1] = "delta" /\ q[1] = "delta"
     /\ \/ d.added[p[2]].name < d.added[q[2]].name
        \/ d.added[p[2]].name = d.added[q[2]].name /\ p[2] <= q[2]

MergedOrder(b, d) ==
  {p \in LiveRecords(b, d) \X LiveRecords(b, d) : MergedBefore(b, d, p[1], p[2])}

\* A live record is one of the base's or one of the delta's.
LEMMA LiveRefs ==
  ASSUME NEW b, BaseOK(b), NEW d, DeltaOK(b, d), NEW p \in LiveRecords(b, d)
  PROVE  \/ p[1] = "base" /\ p[2] \in LiveBase(b, d) /\ p = BaseRef(p[2]) /\ Record(b, d, p) = b.recs[p[2]]
         \/ p[1] = "delta" /\ p[2] \in LiveAdded(d) /\ p = DeltaRef(p[2]) /\ Record(b, d, p) = d.added[p[2]]
<1>1. CASE \E i \in LiveBase(b, d) : p = BaseRef(i)
  BY <1>1 DEF BaseRef, Record
<1>2. CASE \E i \in LiveAdded(d) : p = DeltaRef(i)
  BY <1>2 DEF DeltaRef, Record
<1> QED  BY <1>1, <1>2 DEF LiveRecords

\* The merged order is a total one, because the base is sorted.
LEMMA MergedOrders ==
  ASSUME NEW b, BaseOK(b), NEW d, DeltaOK(b, d)
  PROVE  Orders(MergedOrder(b, d), LiveRecords(b, d))
<1> DEFINE L == LiveRecords(b, d)
           R == MergedOrder(b, d)
           name(p) == IF p[1] = "base" THEN b.recs[p[2]].name ELSE d.added[p[2]].name
<1>1. \A p, q \in L : <<p, q>> \in R <=> MergedBefore(b, d, p, q)
  BY DEF MergedOrder
<1>2. \A p \in L : p[1] \in {"base", "delta"} /\ p[2] \in Nat /\ name(p) \in Nat /\ p = <<p[1], p[2]>>
  BY LiveRefs, LiveFacts DEF BaseRef, DeltaRef
<1>3. \A p, q \in L : p[1] = "base" /\ q[1] = "base" /\ p[2] <= q[2] => name(p) <= name(q)
  BY LiveRefs, LiveFacts
<1>4. \A p, q \in L : MergedBefore(b, d, p, q) <=>
        \/ p[1] = "base" /\ q[1] = "base" /\ p[2] <= q[2]
        \/ p[1] = "base" /\ q[1] = "delta" /\ name(p) <= name(q)
        \/ p[1] = "delta" /\ q[1] = "base" /\ name(p) < name(q)
        \/ /\ p[1] = "delta" /\ q[1] = "delta"
           /\ name(p) < name(q) \/ (name(p) = name(q) /\ p[2] <= q[2])
  BY <1>2 DEF MergedBefore
<1> HIDE DEF L, R, name
<1>5. \A p \in L : <<p, p>> \in R
  BY <1>1, <1>2, <1>4
<1>6. \A p, q \in L : <<p, q>> \in R \/ <<q, p>> \in R
  <2> SUFFICES ASSUME NEW p \in L, NEW q \in L
               PROVE  MergedBefore(b, d, p, q) \/ MergedBefore(b, d, q, p)
    BY <1>1
  <2>1. /\ p[1] \in {"base", "delta"} /\ q[1] \in {"base", "delta"} /\ p[2] \in Nat /\ q[2] \in Nat
        /\ name(p) \in Nat /\ name(q) \in Nat
    BY <1>2
  <2> QED  BY <2>1, <1>4
<1>7. \A p, q \in L : <<p, q>> \in R /\ <<q, p>> \in R => p = q
  <2> SUFFICES ASSUME NEW p \in L, NEW q \in L, MergedBefore(b, d, p, q), MergedBefore(b, d, q, p)
               PROVE  p = q
    BY <1>1
  <2>1. p[1] = q[1] /\ p[2] = q[2]
    BY <1>2, <1>4
  <2> QED  BY <2>1, <1>2
<1>8. \A p, q, r \in L : <<p, q>> \in R /\ <<q, r>> \in R => <<p, r>> \in R
  <2> SUFFICES ASSUME NEW p \in L, NEW q \in L, NEW r \in L,
                      MergedBefore(b, d, p, q), MergedBefore(b, d, q, r)
               PROVE  MergedBefore(b, d, p, r)
    BY <1>1
  <2> QED  BY <1>2, <1>3, <1>4
<1> QED  BY <1>5, <1>6, <1>7, <1>8 DEF Orders, L, R

\* References to different layers are different: they can be counted layer by layer.
LEMMA LayerCount ==
  ASSUME NEW A, NEW B, IsFiniteSet(A), IsFiniteSet(B)
  PROVE  LET refs == {BaseRef(i) : i \in A} \cup {DeltaRef(i) : i \in B}
         IN  IsFiniteSet(refs) /\ Cardinality(refs) = Cardinality(A) + Cardinality(B)
<1> DEFINE X == {BaseRef(i) : i \in A}
           Y == {DeltaRef(i) : i \in B}
           f == [i \in A |-> BaseRef(i)]
           g == [i \in B |-> DeltaRef(i)]
<1>1. f \in Bijection(A, X)
  BY DEF Bijection, Injection, Surjection, IsInjective, BaseRef
<1>2. g \in Bijection(B, Y)
  BY DEF Bijection, Injection, Surjection, IsInjective, DeltaRef
<1>3. IsFiniteSet(X) /\ Cardinality(X) = Cardinality(A) /\ IsFiniteSet(Y) /\ Cardinality(Y) = Cardinality(B)
  BY <1>1, <1>2, FS_Bijection DEF ExistsBijection
<1>4. X \cap Y = {}
  BY DEF BaseRef, DeltaRef
<1>5. Cardinality(A) \in Nat /\ Cardinality(B) \in Nat
  BY FS_CardinalityType
<1> HIDE DEF X, Y
<1>6. IsFiniteSet(X \cup Y) /\ Cardinality(X \cup Y) = Cardinality(X) + Cardinality(Y)
  <2>1. Cardinality(X \cap Y) = 0
    BY <1>4, FS_EmptySet
  <2>2. IsFiniteSet(X \cup Y) /\ Cardinality(X \cup Y) = Cardinality(X) + Cardinality(Y) - Cardinality(X \cap Y)
    BY <1>3, FS_Union
  <2> QED  BY <1>3, <1>5, <2>1, <2>2
<1> QED  BY <1>3, <1>6 DEF X, Y

\* The sets of records that the places count.
BaseUpTo(b, d, i)    == {j \in LiveBase(b, d) : j <= i}
BaseUnder(b, d, i)   == {j \in LiveBase(b, d) : b.recs[j].name < d.added[i].name}
BaseNotOver(b, d, i) == {j \in LiveBase(b, d) : b.recs[j].name <= d.added[i].name}
AddedUnder(b, d, i)  == {j \in LiveAdded(d) : d.added[j].name < b.recs[i].name}
AddedBefore(d, i) ==
  {j \in LiveAdded(d) :
     \/ d.added[j].name < d.added[i].name
     \/ d.added[j].name = d.added[i].name /\ j < i}

\* The counts the places are made of are those of these sets.
LEMMA Counts ==
  ASSUME NEW b, NEW d, NEW i
  PROVE  /\ FinalIndexOfBase(b, d, i) = Cardinality(BaseUpTo(b, d, i)) + Cardinality(AddedUnder(b, d, i))
         /\ DeltaRank(d, i) = Cardinality(AddedBefore(d, i))
         /\ FinalIndexOfDelta(b, d, i) = Cardinality(BaseUnder(b, d, i)) + DeltaRank(d, i) + 1
         /\ PushedAt(b, d, i) = Cardinality(BaseNotOver(b, d, i)) + DeltaRank(d, i) + 1
<1>1. FinalIndexOfBase(b, d, i) = Cardinality(BaseUpTo(b, d, i)) + Cardinality(AddedUnder(b, d, i))
  BY DEF FinalIndexOfBase, Quantify, BaseUpTo, AddedUnder
<1>2. DeltaRank(d, i) = Cardinality(AddedBefore(d, i))
  BY DEF DeltaRank, Quantify, AddedBefore
<1>3. FinalIndexOfDelta(b, d, i) = Cardinality(BaseUnder(b, d, i)) + DeltaRank(d, i) + 1
  BY DEF FinalIndexOfDelta, Quantify, BaseUnder
<1>4. PushedAt(b, d, i) = Cardinality(BaseNotOver(b, d, i)) + DeltaRank(d, i) + 1
  BY DEF PushedAt, Quantify, BaseNotOver
<1> QED  BY <1>1, <1>2, <1>3, <1>4

\* Where Compacted pushes each record.
Places(b, d) ==
  [ref \in LiveRecords(b, d) |-> IF ref[1] = "base" THEN FinalIndexOfBase(b, d, ref[2])
                                                   ELSE PushedAt(b, d, ref[2])]

\* A record is pushed at its rank in the merged order.
LEMMA PlaceIsRank ==
  ASSUME NEW b, BaseOK(b), NEW d, DeltaOK(b, d)
  PROVE  Places(b, d) = [p \in LiveRecords(b, d) |-> Cardinality(UpTo(MergedOrder(b, d), LiveRecords(b, d), p))]
<1> DEFINE L == LiveRecords(b, d)
           LB == LiveBase(b, d)
           LA == LiveAdded(d)
           U(p) == UpTo(MergedOrder(b, d), L, p)
<1>1. IsFiniteSet(LB) /\ IsFiniteSet(LA)
  BY LiveFacts
<1>2. \A p \in L : U(p) = {q \in L : MergedBefore(b, d, q, p)}
  BY DEF UpTo, MergedOrder
<1>3. ASSUME NEW i \in LB
      PROVE  Cardinality(U(BaseRef(i))) = FinalIndexOfBase(b, d, i)
  <2> DEFINE A == BaseUpTo(b, d, i)
             B == AddedUnder(b, d, i)
  <2>1. U(BaseRef(i)) = {BaseRef(j) : j \in A} \cup {DeltaRef(j) : j \in B}
    <3>1. BaseRef(i) \in L
      BY DEF LiveRecords
    <3>2. \A j \in LB : MergedBefore(b, d, BaseRef(j), BaseRef(i)) <=> j \in A
      BY DEF MergedBefore, BaseRef, BaseUpTo
    <3>3. \A j \in LA : MergedBefore(b, d, DeltaRef(j), BaseRef(i)) <=> j \in B
      BY DEF MergedBefore, BaseRef, DeltaRef, AddedUnder
    <3>4. A \subseteq LB /\ B \subseteq LA
      BY DEF BaseUpTo, AddedUnder
    <3> HIDE DEF A, B
    <3> QED  BY <1>2, <3>1, <3>2, <3>3, <3>4 DEF LiveRecords
  <2>2. IsFiniteSet(A) /\ IsFiniteSet(B)
    <3>1. A \subseteq LB /\ B \subseteq LA
      BY DEF BaseUpTo, AddedUnder
    <3> QED  BY <1>1, <3>1, FS_Subset
  <2> HIDE DEF U
  <2>3. Cardinality(U(BaseRef(i))) = Cardinality(A) + Cardinality(B)
    BY <2>1, <2>2, LayerCount
  <2> QED  BY <2>3, Counts
<1>4. ASSUME NEW i \in LA
      PROVE  Cardinality(U(DeltaRef(i))) = PushedAt(b, d, i)
  <2> DEFINE A == BaseNotOver(b, d, i)
             less == AddedBefore(d, i)
             B == less \cup {i}
  <2>1. \A j \in LA : j \in Nat /\ d.added[j].name \in Nat
    BY LiveFacts
  <2>2. U(DeltaRef(i)) = {BaseRef(j) : j \in A} \cup {DeltaRef(j) : j \in B}
    <3>1. DeltaRef(i) \in L
      BY DEF LiveRecords
    <3>2. \A j \in LB : MergedBefore(b, d, BaseRef(j), DeltaRef(i)) <=> j \in A
      BY DEF MergedBefore, BaseRef, DeltaRef, BaseNotOver
    <3>3. \A j \in LA : MergedBefore(b, d, DeltaRef(j), DeltaRef(i)) <=> j \in B
      <4> SUFFICES ASSUME NEW j \in LA PROVE MergedBefore(b, d, DeltaRef(j), DeltaRef(i)) <=> j \in B
        OBVIOUS
      <4>1. MergedBefore(b, d, DeltaRef(j), DeltaRef(i)) <=>
              \/ d.added[j].name < d.added[i].name
              \/ d.added[j].name = d.added[i].name /\ j <= i
        BY DEF MergedBefore, DeltaRef
      <4>2. j <= i <=> (j < i \/ j = i)
        BY <2>1
      <4>3. j \in less <=> \/ d.added[j].name < d.added[i].name
                           \/ d.added[j].name = d.added[i].name /\ j < i
        BY DEF AddedBefore
      <4>4. j \in B <=> j \in less \/ j = i
        OBVIOUS
      <4> QED  BY <4>1, <4>2, <4>3, <4>4
    <3>4. A \subseteq LB /\ B \subseteq LA
      BY DEF BaseNotOver, AddedBefore
    <3> HIDE DEF A, B
    <3> QED  BY <1>2, <3>1, <3>2, <3>3, <3>4 DEF LiveRecords
  <2>3. IsFiniteSet(A) /\ IsFiniteSet(less) /\ IsFiniteSet(B) /\ i \notin less
    <3>0. A \subseteq LB /\ less \subseteq LA
      BY DEF BaseNotOver, AddedBefore
    <3>1. IsFiniteSet(A) /\ IsFiniteSet(less)
      BY <1>1, <3>0, FS_Subset
    <3>2. i \notin less
      BY <2>1 DEF AddedBefore
    <3> QED  BY <3>1, <3>2, FS_AddElement
  <2> HIDE DEF U
  <2>4. Cardinality(B) = Cardinality(less) + 1 /\ Cardinality(less) \in Nat /\ Cardinality(A) \in Nat
    BY <2>3, FS_AddElement, FS_CardinalityType
  <2> HIDE DEF B
  <2>5. Cardinality(U(DeltaRef(i))) = Cardinality(A) + Cardinality(B)
    BY <2>2, <2>3, LayerCount
  <2>6. PushedAt(b, d, i) = Cardinality(A) + Cardinality(less) + 1
    BY Counts
  <2> QED  BY <2>4, <2>5, <2>6
<1> HIDE DEF U
<1>5. ASSUME NEW p \in L
      PROVE  (IF p[1] = "base" THEN FinalIndexOfBase(b, d, p[2]) ELSE PushedAt(b, d, p[2])) = Cardinality(U(p))
  <2>1. CASE p[1] = "base" /\ p[2] \in LB /\ p = BaseRef(p[2])
    BY <2>1, <1>3
  <2>2. CASE p[1] = "delta" /\ p[2] \in LA /\ p = DeltaRef(p[2])
    BY <2>2, <1>4
  <2> QED  BY <2>1, <2>2, LiveRefs
<1> QED  BY <1>5 DEF Places, U

\* The places a compaction computes for records and for their parents are
\* places in the merged arena; without equal names they are where it pushes them.
LEMMA FinalPlaces ==
  ASSUME NEW b, BaseOK(b), NEW d, DeltaOK(b, d)
  PROVE  /\ Cardinality(LiveRecords(b, d)) \in Nat
         /\ Places(b, d) \in Bijection(LiveRecords(b, d), 1 .. Cardinality(LiveRecords(b, d)))
         /\ \A p, q \in LiveRecords(b, d) : Places(b, d)[p] <= Places(b, d)[q] => MergedBefore(b, d, p, q)
         /\ \A i \in LiveBase(b, d) :
              /\ BaseRef(i) \in LiveRecords(b, d)
              /\ Places(b, d)[BaseRef(i)] = FinalIndexOfBase(b, d, i)
              /\ FinalIndexOfBase(b, d, i) \in 1 .. Cardinality(LiveRecords(b, d))
         /\ \A i \in LiveAdded(d) :
              /\ DeltaRef(i) \in LiveRecords(b, d)
              /\ FinalIndexOfDelta(b, d, i) \in 1 .. Cardinality(LiveRecords(b, d))
              /\ ~Ties(b, d) => Places(b, d)[DeltaRef(i)] = FinalIndexOfDelta(b, d, i)
         /\ \A i \in LiveBase(b, d), j \in LiveAdded(d) :
              b.recs[i].name < d.added[j].name => FinalIndexOfBase(b, d, i) < FinalIndexOfDelta(b, d, j)
<1> DEFINE L == LiveRecords(b, d)
           LB == LiveBase(b, d)
           LA == LiveAdded(d)
           n == Cardinality(L)
           R == MergedOrder(b, d)
           P == Places(b, d)
<1>1. /\ \A i \in LB : i \in Nat /\ b.recs[i].name \in Nat
      /\ \A i \in LA : i \in Nat /\ d.added[i].name \in Nat
      /\ IsFiniteSet(LB) /\ IsFiniteSet(LA)
      /\ \A i, j \in LB : i <= j => b.recs[i].name <= b.recs[j].name
  BY LiveFacts
<1>2. IsFiniteSet(L) /\ n \in Nat
  BY <1>1, LayerCount, FS_CardinalityType DEF LiveRecords
<1>3. /\ P \in Bijection(L, 1 .. n)
      /\ \A p, q \in L : P[p] <= P[q] => <<p, q>> \in R
  BY <1>2, MergedOrders, PlaceIsRank, RankIsBijection
<1>4. P \in [L -> 1 .. n]
  BY <1>3 DEF Bijection, Injection
<1>5. \A p, q \in L : P[p] <= P[q] => MergedBefore(b, d, p, q)
  BY <1>3 DEF MergedOrder
<1>6. /\ \A i \in LB : BaseRef(i) \in L /\ P[BaseRef(i)] = FinalIndexOfBase(b, d, i)
      /\ \A i \in LA : DeltaRef(i) \in L /\ P[DeltaRef(i)] = PushedAt(b, d, i)
  BY DEF Places, LiveRecords, BaseRef, DeltaRef
<1>7. \A i \in LB : FinalIndexOfBase(b, d, i) \in 1 .. n
  BY <1>4, <1>6
<1>8. ASSUME NEW i \in LA
      PROVE  /\ FinalIndexOfDelta(b, d, i) \in 1 .. n
             /\ ~Ties(b, d) => PushedAt(b, d, i) = FinalIndexOfDelta(b, d, i)
  <2> DEFINE A == BaseUnder(b, d, i)
             C == BaseNotOver(b, d, i)
             less == AddedBefore(d, i)
  <2>1. A \subseteq C /\ C \subseteq LB /\ less \subseteq LA
    BY <1>1 DEF BaseUnder, BaseNotOver, AddedBefore
  <2>2. ~Ties(b, d) => A = C
    BY <1>1 DEF Ties, BaseUnder, BaseNotOver
  <2>3. DeltaRank(d, i) = Cardinality(less)
    BY Counts
  <2>4. /\ FinalIndexOfDelta(b, d, i) = Cardinality(A) + DeltaRank(d, i) + 1
        /\ PushedAt(b, d, i) = Cardinality(C) + DeltaRank(d, i) + 1
    BY Counts
  <2>5. /\ Cardinality(A) \in Nat /\ Cardinality(C) \in Nat /\ Cardinality(less) \in Nat
        /\ Cardinality(A) <= Cardinality(C)
    BY <1>1, <2>1, FS_Subset, FS_CardinalityType
  <2>6. PushedAt(b, d, i) \in 1 .. n
    BY <1>4, <1>6
  <2> QED  BY <1>2, <2>2, <2>3, <2>4, <2>5, <2>6
<1>9. ASSUME NEW i \in LB, NEW j \in LA, b.recs[i].name < d.added[j].name
      PROVE  FinalIndexOfBase(b, d, i) < FinalIndexOfDelta(b, d, j)
  <2> DEFINE A == BaseUpTo(b, d, i)
             B == AddedUnder(b, d, i)
             C == BaseUnder(b, d, j)
             less == AddedBefore(d, j)
  <2>1. A \subseteq C /\ C \subseteq LB
    <3> SUFFICES ASSUME NEW k \in LB, k <= i PROVE b.recs[k].name < d.added[j].name
      BY DEF BaseUpTo, BaseUnder
    <3>1. b.recs[k].name <= b.recs[i].name
      BY <1>1
    <3> QED  BY <3>1, <1>1, <1>9
  <2>2. B \subseteq less /\ less \subseteq LA
    <3>1. less \subseteq LA
      BY DEF AddedBefore
    <3> SUFFICES ASSUME NEW k \in B PROVE k \in less
      BY <3>1
    <3>0. k \in LA /\ d.added[k].name < b.recs[i].name
      BY DEF AddedUnder
    <3>2. d.added[k].name \in Nat /\ b.recs[i].name \in Nat /\ d.added[j].name \in Nat
      BY <1>1, <3>0
    <3>3. d.added[k].name < d.added[j].name
      BY <1>9, <3>0, <3>2
    <3> QED  BY <3>0, <3>3 DEF AddedBefore
  <2>3. FinalIndexOfBase(b, d, i) = Cardinality(A) + Cardinality(B)
    BY Counts
  <2>4. DeltaRank(d, j) = Cardinality(less)
    BY Counts
  <2>5. FinalIndexOfDelta(b, d, j) = Cardinality(C) + DeltaRank(d, j) + 1
    BY Counts
  <2>6. /\ Cardinality(A) \in Nat /\ Cardinality(C) \in Nat /\ Cardinality(A) <= Cardinality(C)
    <3>1. IsFiniteSet(C) /\ IsFiniteSet(A)
      BY <1>1, <2>1, FS_Subset
    <3> QED  BY <2>1, <3>1, FS_Subset, FS_CardinalityType
  <2>7. /\ Cardinality(B) \in Nat /\ Cardinality(less) \in Nat /\ Cardinality(B) <= Cardinality(less)
    <3>1. IsFiniteSet(less) /\ IsFiniteSet(B)
      BY <1>1, <2>2, FS_Subset
    <3> QED  BY <2>2, <3>1, FS_Subset, FS_CardinalityType
  <2> QED  BY <2>3, <2>4, <2>5, <2>6, <2>7
<1> QED  BY <1>2, <1>3, <1>5, <1>6, <1>7, <1>8, <1>9

-----------------------------------------------------------------------------
(* What a compaction makes. *)

\* The parents it computes are places in the merged arena.
LEMMA FinalParents ==
  ASSUME NEW b, BaseOK(b), NEW d, DeltaOK(b, d), NEW ref
  PROVE  FinalParent(b, d, ref) \subseteq 1 .. Cardinality(LiveRecords(b, d))
<1> DEFINE n == Cardinality(LiveRecords(b, d))
           place(p) == IF p[1] = "base" THEN FinalIndexOfBase(b, d, p[2]) ELSE FinalIndexOfDelta(b, d, p[2])
<1>1. ASSUME NEW p \in LiveRecords(b, d) PROVE place(p) \in 1 .. n
  <2>1. CASE p[1] = "base" /\ p[2] \in LiveBase(b, d)
    BY <2>1, FinalPlaces
  <2>2. CASE p[1] = "delta" /\ p[2] \in LiveAdded(d)
    BY <2>2, FinalPlaces
  <2> QED  BY <2>1, <2>2, LiveRefs
<1> HIDE DEF n
<1>2. FinalParent(b, d, ref) = {place(p) : p \in ParentOf(b, d, ref) \cap LiveRecords(b, d)}
  BY DEF FinalParent
<1> HIDE DEF place
<1> QED  BY <1>1, <1>2 DEF n

\* The second pass gives every record one of them, or none.
LEMMA PatchedParents ==
  ASSUME NEW b, BaseOK(b), NEW d, DeltaOK(b, d), NEW place
  PROVE  PatchedParent(b, d, place) \in {PARENT_NONE} \cup 1 .. Cardinality(LiveRecords(b, d))
<1> DEFINE n == Cardinality(LiveRecords(b, d))
           added == UNION {FinalParent(b, d, DeltaRef(i)) :
                             i \in {j \in LiveAdded(d) : FinalIndexOfDelta(b, d, j) = place}}
           old == UNION {FinalParent(b, d, BaseRef(i)) :
                           i \in {j \in LiveBase(b, d) : FinalIndexOfBase(b, d, j) = place}}
           parents == IF added # {} THEN added ELSE IF old # {} THEN old ELSE {PARENT_NONE}
<1>1. PatchedParent(b, d, place) = CHOOSE p \in parents : TRUE
  BY DEF PatchedParent
<1>2. added \subseteq 1 .. n /\ old \subseteq 1 .. n
  BY FinalParents
<1> HIDE DEF added, old, n
<1>3. parents \subseteq {PARENT_NONE} \cup 1 .. n /\ \E p \in parents : TRUE
  BY <1>2
<1> HIDE DEF parents
<1>4. (CHOOSE p \in parents : TRUE) \in parents
  BY <1>3
<1> QED  BY <1>1, <1>3, <1>4 DEF n

\* The root's record keeps its place to itself: every addition has a name, and
\* so a place after it.
LEMMA PatchedRoot ==
  ASSUME NEW b, BaseOK(b), NEW d, DeltaOK(b, d), NEW i \in LiveBase(b, d), b.recs[i].frn = Root
  PROVE  PatchedParent(b, d, FinalIndexOfBase(b, d, i)) = PARENT_NONE
<1> DEFINE place == FinalIndexOfBase(b, d, i)
           Added == {j \in LiveAdded(d) : FinalIndexOfDelta(b, d, j) = place}
           Old   == {j \in LiveBase(b, d) : FinalIndexOfBase(b, d, j) = place}
           n == Cardinality(LiveRecords(b, d))
<1>1. i \in DOMAIN b.recs /\ b.recs[i].name = 0 /\ b.recs[i].parent = PARENT_NONE
  BY LiveFacts DEF BaseOK
<1>2. Added = {}
  <2> SUFFICES ASSUME NEW j \in LiveAdded(d) PROVE FinalIndexOfDelta(b, d, j) # place
    OBVIOUS
  <2>1. b.recs[i].name < d.added[j].name
    BY <1>1, LiveFacts
  <2>2. place < FinalIndexOfDelta(b, d, j) /\ place \in 1 .. n /\ n \in Nat
    BY <2>1, FinalPlaces
  <2> HIDE DEF place
  <2> QED  BY <2>2
<1>3. \A j \in Old : j = i
  <2> SUFFICES ASSUME NEW j \in LiveBase(b, d), FinalIndexOfBase(b, d, j) = place PROVE j = i
    OBVIOUS
  <2>1. /\ BaseRef(i) \in LiveRecords(b, d) /\ BaseRef(j) \in LiveRecords(b, d)
        /\ Places(b, d)[BaseRef(i)] = Places(b, d)[BaseRef(j)]
    BY FinalPlaces
  <2>2. Places(b, d) \in Bijection(LiveRecords(b, d), 1 .. n)
    BY FinalPlaces
  <2>3. BaseRef(i) = BaseRef(j)
    BY <2>1, <2>2 DEF Bijection, Injection, IsInjective
  <2> QED  BY <2>3 DEF BaseRef
<1>4. FinalParent(b, d, BaseRef(i)) = {}
  BY <1>1 DEF FinalParent, ParentOf, BaseRef
<1> DEFINE added == UNION {FinalParent(b, d, DeltaRef(j)) : j \in Added}
           old   == UNION {FinalParent(b, d, BaseRef(j)) : j \in Old}
<1>5. PatchedParent(b, d, place) =
        CHOOSE p \in IF added # {} THEN added ELSE IF old # {} THEN old ELSE {PARENT_NONE} : TRUE
  BY DEF PatchedParent
<1> HIDE DEF Added, Old
<1>6. added = {} /\ old = {}
  BY <1>2, <1>3, <1>4
<1> HIDE DEF added, old, place
<1>7. PatchedParent(b, d, place) = CHOOSE p \in {PARENT_NONE} : TRUE
  BY <1>5, <1>6
<1> QED  BY <1>7 DEF place

\* The record at each place is the one that was pushed there.
LEMMA MergedRecords ==
  ASSUME NEW b, BaseOK(b), NEW d, DeltaOK(b, d)
  PROVE  LET c  == Compacted(b, d)
             at == AntiFunction(Places(b, d))
             n  == Cardinality(LiveRecords(b, d))
         IN  /\ n \in Nat /\ DOMAIN c.recs = 1 .. n
             /\ c.recs = [place \in 1 .. n |-> [ frn |-> Record(b, d, at[place]).frn,
                                                 name |-> Record(b, d, at[place]).name,
                                                 parent |-> PatchedParent(b, d, place) ]]
             /\ c.frns = MergedSidecar(b, d)
             /\ \A place \in 1 .. n : /\ at[place] \in LiveRecords(b, d)
                                      /\ Places(b, d)[at[place]] = place
             /\ \A ref \in LiveRecords(b, d) : /\ Places(b, d)[ref] \in 1 .. n
                                               /\ at[Places(b, d)[ref]] = ref
<1>1. DOMAIN Places(b, d) = LiveRecords(b, d)
  BY DEF Places
<1>2. Compacted(b, d) =
        [ recs |-> [place \in 1 .. Cardinality(DOMAIN Places(b, d)) |->
                      [ frn    |-> Record(b, d, AntiFunction(Places(b, d))[place]).frn,
                        name   |-> Record(b, d, AntiFunction(Places(b, d))[place]).name,
                        parent |-> PatchedParent(b, d, place) ]],
          frns |-> MergedSidecar(b, d) ]
  BY DEF Compacted, Places
<1>3. /\ Cardinality(LiveRecords(b, d)) \in Nat
      /\ Places(b, d) \in Bijection(LiveRecords(b, d), 1 .. Cardinality(LiveRecords(b, d)))
  BY FinalPlaces
<1> QED  BY <1>1, <1>2, <1>3, Numbered

\* A compacted base is in order, whatever names tie.
LEMMA CompactedOK ==
  ASSUME NEW b, BaseOK(b), NEW d, DeltaOK(b, d)
  PROVE  BaseOK(Compacted(b, d))
<1> DEFINE L  == LiveRecords(b, d)
           P  == Places(b, d)
           c  == Compacted(b, d)
           at == AntiFunction(P)
           n  == Cardinality(L)
           entry(place) == [ frn |-> Record(b, d, at[place]).frn,
                             name |-> Record(b, d, at[place]).name,
                             parent |-> PatchedParent(b, d, place) ]
<1>1. /\ n \in Nat /\ DOMAIN c.recs = 1 .. n
      /\ c.recs = [place \in 1 .. n |-> entry(place)]
      /\ c.frns = MergedSidecar(b, d)
      /\ \A place \in 1 .. n : at[place] \in L /\ P[at[place]] = place
      /\ \A ref \in L : P[ref] \in 1 .. n /\ at[P[ref]] = ref
  BY MergedRecords
<1> HIDE DEF c, at, L, P, n
<1>2. ASSUME NEW p \in L
      PROVE  Record(b, d, p).frn \in Files \cup {Root} /\ Record(b, d, p).name \in Nat
  <2>1. CASE p[2] \in LiveBase(b, d) /\ Record(b, d, p) = b.recs[p[2]]
    <3>1. b.recs[p[2]] \in BaseRecord
      BY <2>1, LiveFacts
    <3> QED  BY <2>1, <3>1 DEF BaseRecord
  <2>2. CASE p[2] \in LiveAdded(d) /\ Record(b, d, p) = d.added[p[2]]
    BY <2>2, LiveFacts
  <2> QED  BY <2>1, <2>2, LiveRefs DEF L
<1>3. \A place \in 1 .. n : PatchedParent(b, d, place) \in {PARENT_NONE} \cup 1 .. n
  BY PatchedParents DEF n, L
<1>4. ASSUME NEW place \in 1 .. n PROVE entry(place) \in BaseRecord
  BY <1>1, <1>2, <1>3 DEF BaseRecord, PARENT_NONE
<1>5. c.recs \in Seq(BaseRecord)
  <2>1. c.recs \in [1 .. n -> BaseRecord]
    BY <1>1, <1>4
  <2> QED  BY <1>1, <2>1
<1>6. \A place \in 1 .. n : /\ c.recs[place].frn = Record(b, d, at[place]).frn
                            /\ c.recs[place].name = Record(b, d, at[place]).name
                            /\ c.recs[place].parent = PatchedParent(b, d, place)
  BY <1>1
<1>7. ASSUME NEW i \in 1 .. n, NEW j \in 1 .. n, i < j
      PROVE  c.recs[i].name <= c.recs[j].name
  <2> DEFINE p == at[i]  q == at[j]
  <2>1. p \in L /\ q \in L /\ P[p] <= P[q]
    BY <1>1, <1>7
  <2>2. MergedBefore(b, d, p, q)
    BY <2>1, FinalPlaces DEF P, L
  <2>3. Record(b, d, p).name <= Record(b, d, q).name
    <3>1. \/ p[1] = "base" /\ p[2] \in LiveBase(b, d) /\ Record(b, d, p) = b.recs[p[2]]
          \/ p[1] = "delta" /\ p[2] \in LiveAdded(d) /\ Record(b, d, p) = d.added[p[2]]
      BY <2>1, LiveRefs DEF L
    <3>2. \/ q[1] = "base" /\ q[2] \in LiveBase(b, d) /\ Record(b, d, q) = b.recs[q[2]]
          \/ q[1] = "delta" /\ q[2] \in LiveAdded(d) /\ Record(b, d, q) = d.added[q[2]]
      BY <2>1, LiveRefs DEF L
    <3>3. Record(b, d, p).name \in Nat /\ Record(b, d, q).name \in Nat
      BY <1>2, <2>1
    <3>4. CASE p[1] = "base" /\ q[1] = "base"
      BY <2>2, <3>1, <3>2, <3>4, LiveFacts DEF MergedBefore
    <3>5. CASE ~(p[1] = "base" /\ q[1] = "base")
      BY <2>2, <3>1, <3>2, <3>3, <3>5 DEF MergedBefore
    <3> QED  BY <3>4, <3>5
  <2> QED  BY <2>3, <1>6
<1>8. ASSUME NEW place \in 1 .. n, c.recs[place].frn = Root
      PROVE  c.recs[place].name = 0 /\ c.recs[place].parent = PARENT_NONE
  <2> DEFINE p == at[place]
  <2>1. p \in L /\ P[p] = place /\ Record(b, d, p).frn = Root
    BY <1>1, <1>6, <1>8
  <2>2. ~(p[2] \in LiveAdded(d) /\ Record(b, d, p) = d.added[p[2]])
    BY <2>1, LiveFacts, FilesAssumption
  <2>3. p[1] = "base" /\ p[2] \in LiveBase(b, d) /\ p = BaseRef(p[2]) /\ Record(b, d, p) = b.recs[p[2]]
    BY <2>1, <2>2, LiveRefs DEF L
  <2>4. place = FinalIndexOfBase(b, d, p[2])
    BY <2>1, <2>3, FinalPlaces DEF P
  <2>5. p[2] \in DOMAIN b.recs /\ b.recs[p[2]].frn = Root
    BY <2>1, <2>3, LiveFacts
  <2>6. b.recs[p[2]].name = 0
    BY <2>5 DEF BaseOK
  <2>7. PatchedParent(b, d, place) = PARENT_NONE
    BY <2>3, <2>4, <2>5, PatchedRoot
  <2> QED  BY <1>6, <2>3, <2>6, <2>7
<1>9. \A f \in DOMAIN c.frns : c.frns[f] \in 1 .. n
  <2> DEFINE kept  == {f \in DOMAIN b.frns : b.frns[f] \notin d.tombstones}
             added == {d.added[i].frn : i \in LiveAdded(d)}
  <2>1. c.frns = [f \in kept \cup added |-> IF f \in kept THEN FinalIndexOfBase(b, d, b.frns[f])
                                           ELSE FinalIndexOfDelta(b, d, d.added_frns[f])]
    BY <1>1 DEF MergedSidecar
  <2>2. \A f \in kept : b.frns[f] \in LiveBase(b, d)
    BY DEF BaseOK, LiveBase
  <2>3. \A f \in added : d.added_frns[f] \in LiveAdded(d)
    BY DEF DeltaOK
  <2>4. /\ \A i \in LiveBase(b, d) : FinalIndexOfBase(b, d, i) \in 1 .. n
        /\ \A i \in LiveAdded(d) : FinalIndexOfDelta(b, d, i) \in 1 .. n
    BY FinalPlaces DEF n, L
  <2> HIDE DEF kept, added
  <2> QED  BY <2>1, <2>2, <2>3, <2>4
<1> QED  BY <1>1, <1>3, <1>5, <1>6, <1>7, <1>8, <1>9 DEF BaseOK, c

\* Without equal names in the two layers, and from an exact sidecar, the new
\* sidecar is exact.
LEMMA CompactedExact ==
  ASSUME NEW b, BaseOK(b), NEW d, DeltaOK(b, d), Exact(b), Apart(b, d), ~Ties(b, d)
  PROVE  Exact(Compacted(b, d))
<1> DEFINE L  == LiveRecords(b, d)
           P  == Places(b, d)
           c  == Compacted(b, d)
           at == AntiFunction(P)
           n  == Cardinality(L)
           kept  == {f \in DOMAIN b.frns : b.frns[f] \notin d.tombstones}
           added == {d.added[i].frn : i \in LiveAdded(d)}
<1>1. /\ n \in Nat /\ DOMAIN c.recs = 1 .. n
      /\ c.recs = [place \in 1 .. n |-> [ frn |-> Record(b, d, at[place]).frn,
                                          name |-> Record(b, d, at[place]).name,
                                          parent |-> PatchedParent(b, d, place) ]]
      /\ c.frns = MergedSidecar(b, d)
      /\ \A place \in 1 .. n : at[place] \in L /\ P[at[place]] = place
      /\ \A ref \in L : P[ref] \in 1 .. n /\ at[P[ref]] = ref
  BY MergedRecords
<1> HIDE DEF c, at, L, P, n
<1>2. \A place \in 1 .. n : c.recs[place].frn = Record(b, d, at[place]).frn
  BY <1>1
<1>3. c.frns = [f \in kept \cup added |-> IF f \in kept THEN FinalIndexOfBase(b, d, b.frns[f])
                                         ELSE FinalIndexOfDelta(b, d, d.added_frns[f])]
  BY <1>1 DEF MergedSidecar
<1>4. \A i \in LiveBase(b, d) : /\ b.recs[i].frn \in kept /\ b.frns[b.recs[i].frn] = i
                                /\ BaseRef(i) \in L /\ P[BaseRef(i)] = FinalIndexOfBase(b, d, i)
                                /\ Record(b, d, BaseRef(i)) = b.recs[i]
  <2> SUFFICES ASSUME NEW i \in LiveBase(b, d)
               PROVE  /\ b.recs[i].frn \in kept /\ b.frns[b.recs[i].frn] = i
                      /\ BaseRef(i) \in L /\ P[BaseRef(i)] = FinalIndexOfBase(b, d, i)
                      /\ Record(b, d, BaseRef(i)) = b.recs[i]
    OBVIOUS
  <2>1. b.recs[i].frn \in kept /\ b.frns[b.recs[i].frn] = i
    BY LiveFacts DEF Exact
  <2>2. BaseRef(i) \in L /\ P[BaseRef(i)] = FinalIndexOfBase(b, d, i)
    BY FinalPlaces DEF L, P
  <2>3. Record(b, d, BaseRef(i)) = b.recs[i]
    BY DEF BaseRef, Record
  <2> QED  BY <2>1, <2>2, <2>3
<1>5. \A f \in kept : b.frns[f] \in LiveBase(b, d) /\ b.recs[b.frns[f]].frn = f
  BY DEF BaseOK, Exact, LiveBase
<1>6. \A i \in LiveAdded(d) : /\ d.added[i].frn \in added \ kept /\ d.added_frns[d.added[i].frn] = i
                              /\ DeltaRef(i) \in L /\ P[DeltaRef(i)] = FinalIndexOfDelta(b, d, i)
                              /\ Record(b, d, DeltaRef(i)) = d.added[i]
  <2> SUFFICES ASSUME NEW i \in LiveAdded(d)
               PROVE  /\ d.added[i].frn \in added \ kept /\ d.added_frns[d.added[i].frn] = i
                      /\ DeltaRef(i) \in L /\ P[DeltaRef(i)] = FinalIndexOfDelta(b, d, i)
                      /\ Record(b, d, DeltaRef(i)) = d.added[i]
    OBVIOUS
  <2>1. d.added[i].frn \in added /\ d.added_frns[d.added[i].frn] = i
    BY DEF DeltaOK
  <2>2. d.added[i].frn \notin kept
    <3> HIDE DEF kept
    <3> QED  BY <1>5 DEF Apart
  <2>3. DeltaRef(i) \in L /\ P[DeltaRef(i)] = FinalIndexOfDelta(b, d, i)
    BY FinalPlaces DEF L, P
  <2>4. Record(b, d, DeltaRef(i)) = d.added[i]
    BY DEF DeltaRef, Record
  <2> QED  BY <2>1, <2>2, <2>3, <2>4
<1>7. \A f \in added : \E i \in LiveAdded(d) : f = d.added[i].frn
  OBVIOUS
<1> HIDE DEF kept, added
\* Each live record is found through its file.
<1>8. ASSUME NEW p \in L
      PROVE  Record(b, d, p).frn \in DOMAIN c.frns /\ c.frns[Record(b, d, p).frn] = P[p]
  <2>1. CASE p[2] \in LiveBase(b, d) /\ p = BaseRef(p[2])
    <3>1. /\ Record(b, d, p) = b.recs[p[2]] /\ b.recs[p[2]].frn \in kept /\ b.frns[b.recs[p[2]].frn] = p[2]
          /\ P[p] = FinalIndexOfBase(b, d, p[2])
      BY <1>4, <2>1
    <3> QED  BY <1>3, <3>1
  <2>2. CASE p[2] \in LiveAdded(d) /\ p = DeltaRef(p[2])
    <3>1. /\ Record(b, d, p) = d.added[p[2]] /\ d.added[p[2]].frn \in added \ kept
          /\ d.added_frns[d.added[p[2]].frn] = p[2] /\ P[p] = FinalIndexOfDelta(b, d, p[2])
      BY <1>6, <2>2
    <3> QED  BY <1>3, <3>1
  <2> QED  BY <2>1, <2>2, LiveRefs DEF L
<1>9. ASSUME NEW place \in 1 .. n
      PROVE  c.recs[place].frn \in DOMAIN c.frns /\ c.frns[c.recs[place].frn] = place
  BY <1>1, <1>2, <1>8
\* Each file the sidecar knows has a live record.
<1>10. ASSUME NEW f \in DOMAIN c.frns
      PROVE  \E p \in L : Record(b, d, p).frn = f
  <2>1. CASE f \in kept
    BY <2>1, <1>4, <1>5
  <2>2. CASE f \in added
    BY <2>2, <1>6, <1>7
  <2> QED  BY <1>3, <2>1, <2>2
<1>11. ASSUME NEW f \in DOMAIN c.frns PROVE c.recs[c.frns[f]].frn = f
  <2>1. PICK p \in L : Record(b, d, p).frn = f
    BY <1>10
  <2>2. c.frns[f] = P[p]
    BY <1>8, <2>1
  <2> QED  BY <1>1, <1>2, <2>1, <2>2
<1> QED  BY <1>1, <1>9, <1>11 DEF Exact, c

-----------------------------------------------------------------------------
(* The inductive invariant. *)

\* A volume's files at some time: the root, its own parent, and named files.
Trees ==
  {t \in UNION {[fs -> [name : Nat, parent : Files \cup {Root}]] : fs \in SUBSET (Files \cup {Root})} :
     /\ Root \in DOMAIN t /\ t[Root] = RootEntry
     /\ \A f \in DOMAIN t \ {Root} : t[f].name \in Names}

Volume ==
  /\ journal \in Seq(Event) /\ Len(journal) <= MaxEvents
  /\ trees \in Seq(Trees) /\ Len(trees) = Len(journal) + 1
  /\ tree = trees[Len(journal) + 1]

Positions ==
  /\ pos \in 0 .. Len(journal) /\ next_usn \in 0 .. Len(journal) /\ saved \in 0 .. Len(journal)
  /\ scan \in 0 .. Len(journal) \cup {NoScan}

View ==
  /\ BaseOK(base) /\ DeltaOK(base, delta)
  /\ "equal names" \notin defects => Exact(base) /\ Apart(base, delta)

History == orphans \subseteq Files /\ defects \subseteq {"equal names", "stale record"}

Inv == Volume /\ Positions /\ View /\ History

\* What it is to be a volume's files, spelled out.
LEMMA TreeFacts ==
  ASSUME NEW t
  PROVE  t \in Trees <=>
           /\ t = [f \in DOMAIN t |-> t[f]]
           /\ DOMAIN t \subseteq Files \cup {Root} /\ Root \in DOMAIN t /\ t[Root] = RootEntry
           /\ \A f \in DOMAIN t : /\ t[f] \in [name : Nat, parent : Files \cup {Root}]
                                  /\ f # Root => t[f].name \in Names
BY DEF Trees

\* A new overlay is consistent with any base.
LEMMA EmptyDelta ==
  ASSUME NEW b
  PROVE  DeltaOK(b, NewDelta) /\ Apart(b, NewDelta)
<1>1. /\ NewDelta.tombstones = {} /\ NewDelta.added = <<>> /\ NewDelta.added_frns = <<>>
      /\ LiveAdded(NewDelta) = {}
  BY DEF NewDelta, LiveAdded
<1>2. <<>> \in [{} -> Nat] /\ DOMAIN <<>> = {}
  OBVIOUS
<1>3. NewDelta \in Deltas(b)
  BY <1>2 DEF NewDelta, Deltas
<1> QED  BY <1>1, <1>2, <1>3 DEF DeltaOK, Apart

\* The first enumeration establishes the invariant.
LEMMA InitInv == Init => Inv
<1> SUFFICES ASSUME Init PROVE Inv
  OBVIOUS
<1>1. PICK files \in FirstTrees : tree = Inserted(files, Root, RootEntry)
  BY DEF Init
<1>2. PICK fs \in SUBSET Files : files \in [fs -> [name : Names, parent : fs \cup {Root}]]
  BY FilesAssumption
<1>3. tree \in Trees
  <2>1. /\ tree = [f \in DOMAIN tree |-> tree[f]] /\ DOMAIN tree = fs \cup {Root}
        /\ tree[Root] = RootEntry /\ \A f \in fs : f # Root => tree[f] = files[f]
    BY <1>1, <1>2 DEF Inserted
  <2>2. \A f \in fs : f # Root => /\ tree[f] \in [name : Nat, parent : Files \cup {Root}]
                                  /\ tree[f].name \in Names
    BY <1>2, <2>1, FilesAssumption
  <2>3. RootEntry \in [name : Nat, parent : Files \cup {Root}]
    BY DEF RootEntry
  <2> QED  BY <2>1, <2>2, <2>3, TreeFacts
<1>4. Volume
  <2>1. journal = <<>> /\ trees = <<tree>>
    BY DEF Init
  <2>2. Len(journal) = 0 /\ Len(trees) = 1 /\ trees[1] = tree /\ trees \in Seq(Trees) /\ journal \in Seq(Event)
    BY <2>1, <1>3
  <2> QED  BY <2>2, FilesAssumption DEF Volume
<1>5. Positions
  BY <1>4 DEF Init, Positions, Volume
<1>6. Enumeration(tree)
  BY <1>3, TreeFacts DEF Enumeration, RootEntry
<1>7. View
  BY <1>6, BuiltBase, EmptyDelta DEF Init, View
<1> QED  BY <1>4, <1>5, <1>7 DEF Inv, Init, History

\* A change to the volume.
LEMMA JournaledStep ==
  ASSUME Inv, NEW event \in Event, NEW after \in Trees, Journaled(event, after)
  PROVE  Inv'
<1>1. /\ journal \in Seq(Event) /\ trees \in Seq(Trees) /\ Len(trees) = Len(journal) + 1
      /\ Len(journal) < MaxEvents
      /\ journal' = Append(journal, event) /\ tree' = after /\ trees' = Append(trees, after)
      /\ UNCHANGED <<pos, base, delta, next_usn, saved, scan, orphans, defects>>
  BY DEF Journaled, Inv, Volume
<1>2. /\ journal' \in Seq(Event) /\ Len(journal') = Len(journal) + 1
      /\ trees' \in Seq(Trees) /\ Len(trees') = Len(trees) + 1 /\ trees'[Len(trees) + 1] = after
      /\ Len(journal) \in Nat
  BY <1>1
<1>3. Volume'
  BY <1>1, <1>2, FilesAssumption DEF Volume
<1>4. Positions'
  BY <1>1, <1>2 DEF Inv, Positions, NoScan
<1>5. View' /\ History'
  BY <1>1 DEF Inv, View, History
<1> QED  BY <1>3, <1>4, <1>5 DEF Inv

\* The volume now, and at any time before.
LEMMA CurrentTree ==
  ASSUME Inv
  PROVE  tree \in Trees /\ \A i \in 1 .. Len(trees) : trees[i] \in Trees
BY DEF Inv, Volume

\* A file put into the tree, or somewhere else in it, makes a tree, and an event.
LEMMA TreeWith ==
  ASSUME Inv, NEW f \in Files, NEW name \in Names, NEW parent \in DOMAIN tree
  PROVE  /\ \A kind \in {"created", "renamed"} :
              [kind |-> kind, frn |-> f, parent |-> parent, name |-> name] \in Event
         /\ Inserted(tree, f, [name |-> name, parent |-> parent]) \in Trees
         /\ [tree EXCEPT ![f] = [name |-> name, parent |-> parent]] \in Trees
<1> DEFINE entry == [name |-> name, parent |-> parent]
           added == Inserted(tree, f, entry)
           moved == [tree EXCEPT ![f] = entry]
<1>1. parent \in Files \cup {Root} /\ f # Root /\ name \in Nat
  BY CurrentTree, TreeFacts, FilesAssumption
<1>2. \A kind \in {"created", "renamed"} :
         [kind |-> kind, frn |-> f, parent |-> parent, name |-> name] \in Event
  BY <1>1 DEF Event
<1>3. entry \in [name : Nat, parent : Files \cup {Root}] /\ entry.name \in Names
  BY <1>1
<1>4. /\ DOMAIN tree \subseteq Files \cup {Root} /\ Root \in DOMAIN tree /\ tree[Root] = RootEntry
      /\ \A g \in DOMAIN tree : /\ tree[g] \in [name : Nat, parent : Files \cup {Root}]
                                /\ g # Root => tree[g].name \in Names
  BY CurrentTree, TreeFacts
<1> HIDE DEF entry
<1>5. /\ added = [g \in DOMAIN added |-> added[g]] /\ DOMAIN added = DOMAIN tree \cup {f}
      /\ added[f] = entry /\ \A g \in DOMAIN tree : g # f => added[g] = tree[g]
  BY DEF Inserted
<1>6. /\ moved = [g \in DOMAIN moved |-> moved[g]] /\ DOMAIN moved = DOMAIN tree
      /\ \A g \in DOMAIN tree : moved[g] = IF g = f THEN entry ELSE tree[g]
  OBVIOUS
<1> HIDE DEF added, moved
<1>7. added \in Trees
  <2>1. \A g \in DOMAIN added : /\ added[g] \in [name : Nat, parent : Files \cup {Root}]
                                /\ g # Root => added[g].name \in Names
    BY <1>3, <1>4, <1>5
  <2>2. DOMAIN added \subseteq Files \cup {Root} /\ Root \in DOMAIN added /\ added[Root] = RootEntry
    BY <1>1, <1>4, <1>5
  <2> QED  BY <1>5, <2>1, <2>2, TreeFacts
<1>8. moved \in Trees
  <2>1. \A g \in DOMAIN moved : /\ moved[g] \in [name : Nat, parent : Files \cup {Root}]
                                /\ g # Root => moved[g].name \in Names
    BY <1>3, <1>4, <1>6
  <2>2. DOMAIN moved \subseteq Files \cup {Root} /\ Root \in DOMAIN moved /\ moved[Root] = RootEntry
    BY <1>1, <1>4, <1>6
  <2> QED  BY <1>6, <2>1, <2>2, TreeFacts
<1> QED  BY <1>2, <1>7, <1>8 DEF entry, added, moved

\* So does one taken out of it.
LEMMA TreeWithout ==
  ASSUME Inv, NEW f \in Files, f \in DOMAIN tree
  PROVE  /\ [kind |-> "deleted", frn |-> f, parent |-> tree[f].parent, name |-> tree[f].name] \in Event
         /\ Restrict(tree, DOMAIN tree \ {f}) \in Trees
<1> DEFINE after == Restrict(tree, DOMAIN tree \ {f})
<1>1. tree \in Trees /\ f # Root
  BY CurrentTree, FilesAssumption
<1>2. /\ DOMAIN tree \subseteq Files \cup {Root} /\ Root \in DOMAIN tree /\ tree[Root] = RootEntry
      /\ \A g \in DOMAIN tree : /\ tree[g] \in [name : Nat, parent : Files \cup {Root}]
                                /\ g # Root => tree[g].name \in Names
  BY <1>1, TreeFacts
<1>3. [kind |-> "deleted", frn |-> f, parent |-> tree[f].parent, name |-> tree[f].name] \in Event
  BY <1>1, <1>2 DEF Event
<1>4. /\ after = [g \in DOMAIN after |-> after[g]] /\ DOMAIN after = DOMAIN tree \ {f}
      /\ \A g \in DOMAIN after : after[g] = tree[g]
  BY DEF Restrict
<1> HIDE DEF after
<1>5. after \in Trees
  BY <1>1, <1>2, <1>4, TreeFacts
<1> QED  BY <1>3, <1>5 DEF after

\* Each action keeps the invariant. A file is created,
LEMMA FsCreateStep ==
  ASSUME Inv, NEW f \in Files, FsCreate(f)
  PROVE  Inv'
<1>1. PICK name \in Names, parent \in DOMAIN tree :
        Journaled([kind |-> "created", frn |-> f, parent |-> parent, name |-> name],
                  Inserted(tree, f, [name |-> name, parent |-> parent]))
  BY DEF FsCreate
<1> QED  BY <1>1, TreeWith, JournaledStep

\* renamed or moved,
LEMMA FsRenameStep ==
  ASSUME Inv, NEW f \in Files, FsRename(f)
  PROVE  Inv'
<1>1. PICK name \in Names, parent \in DOMAIN tree :
        Journaled([kind |-> "renamed", frn |-> f, parent |-> parent, name |-> name],
                  [tree EXCEPT ![f] = [name |-> name, parent |-> parent]])
  BY DEF FsRename
<1> QED  BY <1>1, TreeWith, JournaledStep

\* or deleted.
LEMMA FsDeleteStep ==
  ASSUME Inv, NEW f \in Files, FsDelete(f)
  PROVE  Inv'
BY TreeWithout, JournaledStep DEF FsDelete

\* A batch, applied to the published delta or to the snapshot's base.
LEMMA BatchOutcome ==
  ASSUME Inv, NEW first, DeltaOK(base, first), NEW m \in 1 .. Len(journal) + 1,
         NEW k \in 0 .. Len(journal), NEW s \in ApplyAll(first, SubSeq(journal, m, k))
  PROVE  Outcome(s, first)
<1>1. journal \in Seq(Event) /\ BaseOK(base) /\ orphans \subseteq Files
  BY DEF Inv, Volume, View, History
<1>2. m \in Int /\ k \in Int /\ \A i \in m .. k : journal[i] \in Event
  BY <1>1
<1>3. SubSeq(journal, m, k) \in Seq(Event)
  BY <1>2, SubSeqProperties
<1> QED  BY <1>1, <1>3, ApplyAllKeeps

\* The worker applies a batch,
LEMMA ApplyBatchStep ==
  ASSUME Inv, ApplyBatch
  PROVE  Inv'
<1>1. /\ scan = NoScan /\ pos < Len(journal)
      /\ UNCHANGED <<tree, trees, journal, base, saved, scan, defects>>
  BY DEF ApplyBatch, ntfs
<1>2. PICK last \in pos + 1 .. Len(journal) :
        /\ \E s \in ApplyAll(delta, SubSeq(journal, pos + 1, last)) : delta' = s.delta /\ orphans' = s.orphans
        /\ pos' = last
        /\ next_usn' \in {next_usn, last}
  BY DEF ApplyBatch
<1>3. PICK s \in ApplyAll(delta, SubSeq(journal, pos + 1, last)) : delta' = s.delta /\ orphans' = s.orphans
  BY <1>2
<1>4. pos \in 0 .. Len(journal) /\ Len(journal) \in Nat /\ DeltaOK(base, delta)
  <2>1. DeltaOK(base, delta)
    BY DEF Inv, View
  <2> QED  BY <2>1 DEF Inv, Volume, Positions
<1>5. Outcome(s, delta)
  BY <1>1, <1>3, <1>4, BatchOutcome
<1>6. View' /\ History'
  BY <1>1, <1>3, <1>5 DEF Outcome, Inv, View, History
<1>7. Volume' /\ Positions'
  BY <1>1, <1>2, <1>4 DEF Inv, Volume, Positions
<1> QED  BY <1>6, <1>7 DEF Inv

\* or asks for a rebuild.
LEMMA BuildCursorStep ==
  ASSUME Inv, BuildCursor
  PROVE  Inv'
<1>1. /\ pos' \in pos + 1 .. Len(journal) /\ scan' = Len(journal)
      /\ UNCHANGED <<tree, trees, journal, base, delta, next_usn, saved, orphans, defects>>
  BY DEF BuildCursor, ntfs
<1>2. Len(journal) \in Nat /\ pos \in 0 .. Len(journal)
  BY DEF Inv, Volume, Positions
<1>3. Volume' /\ View' /\ History'
  BY <1>1 DEF Inv, Volume, View, History
<1>4. Positions'
  BY <1>1, <1>2 DEF Inv, Positions
<1> QED  BY <1>3, <1>4 DEF Inv

\* The enumeration is published.
LEMMA BuildPublishStep ==
  ASSUME Inv, BuildPublish
  PROVE  Inv'
<1>1. PICK when \in [Files \cup {Root} -> scan + 1 .. Len(trees)] :
       /\ base' = BuildBase(Seen(when))
       /\ orphans' = {f \in DOMAIN Seen(when) : Seen(when)[f].parent \notin DOMAIN Seen(when)}
  BY DEF BuildPublish
<1>2. /\ scan # NoScan /\ delta' = NewDelta /\ next_usn' = scan /\ saved' = scan
      /\ scan' = NoScan /\ defects' = {} /\ UNCHANGED <<tree, trees, journal, pos>>
  BY DEF BuildPublish, ntfs
<1>3. scan \in 0 .. Len(journal) /\ Len(journal) \in Nat /\ Len(trees) = Len(journal) + 1
  BY <1>2 DEF Inv, Volume, Positions
<1> DEFINE seen == Seen(when)
<1>4. \A f \in Files \cup {Root} : trees[when[f]] \in Trees
  BY <1>1, <1>3, CurrentTree
<1>5. /\ DOMAIN seen = {f \in Files \cup {Root} : f \in DOMAIN trees[when[f]]}
      /\ \A f \in DOMAIN seen : seen[f] = trees[when[f]][f]
  BY DEF Seen
<1>6. /\ Root \in DOMAIN seen /\ seen[Root] = RootEntry
      /\ \A f \in DOMAIN seen : seen[f].name \in Nat
  BY <1>4, <1>5, TreeFacts
<1> HIDE DEF seen
<1>7. Enumeration(seen)
  BY <1>5, <1>6 DEF Enumeration, RootEntry
<1>8. View'
  BY <1>1, <1>2, <1>7, BuiltBase, EmptyDelta DEF View, seen
<1>9. orphans' \subseteq Files
  <2>1. orphans' = {f \in DOMAIN seen : seen[f].parent \notin DOMAIN seen}
    BY <1>1 DEF seen
  <2> QED  BY <2>1, <1>5, <1>6 DEF RootEntry
<1>10. Volume' /\ Positions' /\ History'
  BY <1>2, <1>3, <1>9 DEF Inv, Volume, Positions, History
<1> QED  BY <1>8, <1>10 DEF Inv

\* A compaction is, and
LEMMA CompactStep ==
  ASSUME Inv, Compact
  PROVE  Inv'
<1>1. /\ base' = Compacted(base, delta) /\ delta' = NewDelta /\ saved' = next_usn
      /\ defects' = defects
           \cup {d \in {"equal names"} : Ties(base, delta)}
           \cup {d \in {"stale record"} : next_usn > pos /\ delta # NewDelta}
      /\ UNCHANGED <<tree, trees, journal, pos, next_usn, scan, orphans>>
  BY DEF Compact, ntfs
<1>2. /\ BaseOK(base) /\ DeltaOK(base, delta)
      /\ "equal names" \notin defects => Exact(base) /\ Apart(base, delta)
  BY DEF Inv, View
<1>3. BaseOK(base')
  BY <1>1, <1>2, CompactedOK
<1>4. "equal names" \notin defects' => Exact(base')
  <2>1. "equal names" \notin defects' => "equal names" \notin defects /\ ~Ties(base, delta)
    BY <1>1
  <2> QED  BY <1>1, <1>2, <2>1, CompactedExact
<1>5. View'
  BY <1>1, <1>3, <1>4, EmptyDelta DEF View
<1>6. Volume' /\ Positions' /\ History'
  BY <1>1 DEF Inv, Volume, Positions, History
<1> QED  BY <1>5, <1>6 DEF Inv

\* the daemon is started again.
LEMMA RestartStep ==
  ASSUME Inv, Restart
  PROVE  Inv'
<1>1. /\ pos' = Len(journal)
      /\ UNCHANGED <<tree, trees, journal, base, saved, defects>>
  BY DEF Restart, ntfs
<1>2. Len(journal) \in Nat /\ saved \in 0 .. Len(journal)
  BY DEF Inv, Volume, Positions
<1>3. CASE /\ \E s \in ApplyAll(NewDelta, SubSeq(journal, saved + 1, Len(journal))) :
                delta' = s.delta /\ orphans' = s.orphans
           /\ next_usn' = Len(journal) /\ scan' = NoScan
  <2>1. PICK s \in ApplyAll(NewDelta, SubSeq(journal, saved + 1, Len(journal))) :
          delta' = s.delta /\ orphans' = s.orphans
    BY <1>3
  <2>2. Outcome(s, NewDelta)
    <3>1. DeltaOK(base, NewDelta)
      BY EmptyDelta
    <3>2. saved + 1 \in 1 .. Len(journal) + 1 /\ Len(journal) \in 0 .. Len(journal)
      BY <1>2
    <3> QED  BY <2>1, <3>1, <3>2, BatchOutcome
  <2>3. View' /\ History'
    BY <1>1, <2>1, <2>2, EmptyDelta DEF Outcome, Inv, View, History
  <2>4. Volume' /\ Positions'
    BY <1>1, <1>2, <1>3 DEF Inv, Volume, Positions
  <2> QED  BY <2>3, <2>4 DEF Inv
<1>4. CASE scan' = Len(journal) /\ UNCHANGED <<delta, next_usn, orphans>>
  <2>1. Volume' /\ View' /\ History'
    BY <1>1, <1>4 DEF Inv, Volume, View, History
  <2>2. Positions'
    BY <1>1, <1>2, <1>4 DEF Inv, Positions
  <2> QED  BY <2>1, <2>2 DEF Inv
<1> QED  BY <1>3, <1>4 DEF Restart

\* So does every step.
LEMMA NextKeepsInv == Inv /\ [Next]_vars => Inv'
<1> SUFFICES ASSUME Inv, [Next]_vars PROVE Inv'
  OBVIOUS
<1>1. CASE \E f \in Files : FsCreate(f) \/ FsRename(f) \/ FsDelete(f)
  BY <1>1, FsCreateStep, FsRenameStep, FsDeleteStep
<1>2. CASE ApplyBatch
  BY <1>2, ApplyBatchStep
<1>3. CASE BuildCursor
  BY <1>3, BuildCursorStep
<1>4. CASE BuildPublish
  BY <1>4, BuildPublishStep
<1>5. CASE Compact
  BY <1>5, CompactStep
<1>6. CASE Restart
  BY <1>6, RestartStep
<1>7. CASE UNCHANGED vars
  BY <1>7 DEF vars, Inv, Volume, Positions, View, History
<1> QED  BY <1>1, <1>2, <1>3, <1>4, <1>5, <1>6, <1>7 DEF Next

\* Inductive: the volume, the positions and both layers stay in order.
THEOREM Invariant == Spec => []Inv
<1> QED  BY InitInv, NextKeepsInv, PTL DEF Spec

-----------------------------------------------------------------------------
(* The theorems. *)

\* What the invariant says of types.
LEMMA InvGivesTypes == Inv => TypeOK
<1> SUFFICES ASSUME Inv PROVE TypeOK
  OBVIOUS
<1>1. /\ journal \in Seq(Event) /\ Len(journal) <= MaxEvents /\ Len(journal) \in Nat /\ MaxEvents \in Nat
      /\ trees \in Seq(Trees) /\ tree = trees[Len(journal) + 1]
  BY FilesAssumption DEF Inv, Volume
<1>2. \A i \in DOMAIN trees : DOMAIN trees[i] \subseteq Files \cup {Root}
  <2>1. \A i \in DOMAIN trees : trees[i] \in Trees
    BY <1>1
  <2> QED  BY <2>1, TreeFacts
<1>3. /\ pos \in 0 .. Len(journal) /\ next_usn \in Position /\ saved \in Position
      /\ scan \in Position \cup {NoScan}
  BY <1>1 DEF Inv, Positions, Position
<1>4. /\ \A i \in DOMAIN base.recs : base.recs[i].parent \in {PARENT_NONE} \cup DOMAIN base.recs
      /\ \A f \in DOMAIN base.frns : base.frns[f] \in DOMAIN base.recs
  BY DEF Inv, View, BaseOK
<1>5. /\ delta.tombstones \subseteq DOMAIN base.recs
      /\ \A i \in DOMAIN delta.added :
           delta.added[i].parent \in {BaseRef(j) : j \in DOMAIN base.recs}
                                       \cup {DeltaRef(j) : j \in 1 .. i - 1}
  BY DEF Inv, View, DeltaOK, Deltas
<1> QED  BY <1>1, <1>2, <1>3, <1>4, <1>5 DEF TypeOK, Inv, History

\* Two live records of one file are the same record.
LEMMA OneRecordPerFile ==
  ASSUME NEW b, BaseOK(b), NEW d, DeltaOK(b, d), Exact(b), Apart(b, d)
  PROVE  Consistent(b, d)
<1>1. /\ DOMAIN d.added_frns = {d.added[i].frn : i \in LiveAdded(d)}
      /\ \A i \in LiveAdded(d) : d.added_frns[d.added[i].frn] = i
  BY DEF DeltaOK
<1>2. ASSUME NEW p \in LiveRecords(b, d), NEW q \in LiveRecords(b, d),
             Record(b, d, p).frn = Record(b, d, q).frn
      PROVE  p = q
  <2>1. \/ p[2] \in LiveBase(b, d) /\ p = BaseRef(p[2]) /\ Record(b, d, p) = b.recs[p[2]]
        \/ p[2] \in LiveAdded(d) /\ p = DeltaRef(p[2]) /\ Record(b, d, p) = d.added[p[2]]
    BY LiveRefs
  <2>2. \/ q[2] \in LiveBase(b, d) /\ q = BaseRef(q[2]) /\ Record(b, d, q) = b.recs[q[2]]
        \/ q[2] \in LiveAdded(d) /\ q = DeltaRef(q[2]) /\ Record(b, d, q) = d.added[q[2]]
    BY LiveRefs
  <2>3. \A i, j \in LiveBase(b, d) : b.recs[i].frn = b.recs[j].frn => i = j
    BY LiveFacts DEF Exact
  <2>4. \A i, j \in LiveAdded(d) : d.added[i].frn = d.added[j].frn => i = j
    BY <1>1
  <2>5. \A i \in LiveAdded(d), j \in LiveBase(b, d) : d.added[i].frn # b.recs[j].frn
    BY DEF Apart
  <2> QED  BY <1>2, <2>1, <2>2, <2>3, <2>4, <2>5
<1> QED  BY <1>1, <1>2 DEF Consistent

\* An exact sidecar has as many entries as there are records.
LEMMA SidecarSize ==
  ASSUME NEW b, BaseOK(b), Exact(b)
  PROVE  Cardinality(DOMAIN b.frns) = Len(b.recs)
<1> DEFINE n == Len(b.recs)
           file == [i \in 1 .. n |-> b.recs[i].frn]
<1>1. n \in Nat /\ DOMAIN b.recs = 1 .. n
  BY DEF BaseOK
<1>2. /\ \A i \in 1 .. n : b.recs[i].frn \in DOMAIN b.frns /\ b.frns[b.recs[i].frn] = i
      /\ \A f \in DOMAIN b.frns : b.frns[f] \in 1 .. n /\ b.recs[b.frns[f]].frn = f
  BY <1>1 DEF BaseOK, Exact
<1>3. file \in Bijection(1 .. n, DOMAIN b.frns)
  BY <1>2 DEF Bijection, Injection, Surjection, IsInjective
<1>4. IsFiniteSet(1 .. n) /\ Cardinality(1 .. n) = n
  BY <1>1, FS_Interval
<1> QED  BY <1>3, <1>4, FS_Bijection DEF ExistsBijection

\* And of the two layers.
LEMMA InvGivesOverlay == Inv => OverlayConsistent
<1> SUFFICES ASSUME Inv PROVE OverlayConsistent
  OBVIOUS
<1>1. /\ BaseOK(base) /\ DeltaOK(base, delta)
      /\ defects = {} => Exact(base) /\ Apart(base, delta)
  BY DEF Inv, View
<1>2. Sound => Consistent(base, delta)
  BY <1>1, OneRecordPerFile DEF Sound
<1>3. \A i, j \in DOMAIN base.recs : i < j => base.recs[i].name <= base.recs[j].name
  BY <1>1 DEF BaseOK
<1>4. ASSUME defects = {}
      PROVE  /\ \A i \in DOMAIN base.recs : base.frns[base.recs[i].frn] = i
             /\ Cardinality(DOMAIN base.frns) = Len(base.recs)
  BY <1>1, <1>4, SidecarSize DEF Exact
<1> QED  BY <1>2, <1>3, <1>4 DEF OverlayConsistent

\* The published view and the positions are well formed, in every behaviour of
\* the volume and the worker.
THEOREM TypeCorrect == Spec => []TypeOK
<1> QED  BY Invariant, InvGivesTypes, PTL

\* Delta::apply, resume_view, build_view and compact_to_snapshot keep one live
\* record per file, the base sorted and its sidecar exact, for any volume, any
\* batches and any number of restarts.
THEOREM OverlayKept == Spec => []OverlayConsistent
<1> QED  BY Invariant, InvGivesOverlay, PTL

\* compact_to_snapshot loses no live record and makes none up, equal names and
\* inexact sidecars notwithstanding: the merged records are the live ones.
THEOREM CompactionKeepsRecords ==
  Spec => [][ Compact =>
                \E place \in Bijection(LiveRecords(base, delta), DOMAIN base'.recs) :
                  \A ref \in LiveRecords(base, delta) :
                    /\ base'.recs[place[ref]].frn = Record(base, delta, ref).frn
                    /\ base'.recs[place[ref]].name = Record(base, delta, ref).name ]_vars
<1> DEFINE Kept == \E place \in Bijection(LiveRecords(base, delta), DOMAIN base'.recs) :
                     \A ref \in LiveRecords(base, delta) :
                       /\ base'.recs[place[ref]].frn = Record(base, delta, ref).frn
                       /\ base'.recs[place[ref]].name = Record(base, delta, ref).name
<1>1. ASSUME Inv, Compact PROVE Kept
  <2> DEFINE L == LiveRecords(base, delta)
             P == Places(base, delta)
             at == AntiFunction(P)
             n == Cardinality(L)
  <2>1. BaseOK(base) /\ DeltaOK(base, delta) /\ base' = Compacted(base, delta)
    BY <1>1 DEF Inv, View, Compact
  <2>2. /\ DOMAIN base'.recs = 1 .. n
        /\ base'.recs = [place \in 1 .. n |-> [ frn |-> Record(base, delta, at[place]).frn,
                                               name |-> Record(base, delta, at[place]).name,
                                               parent |-> PatchedParent(base, delta, place) ]]
        /\ \A ref \in L : P[ref] \in 1 .. n /\ at[P[ref]] = ref
    BY <2>1, MergedRecords
  <2>3. P \in Bijection(L, DOMAIN base'.recs)
    BY <2>1, <2>2, FinalPlaces
  <2> HIDE DEF L, P, at, n
  <2>4. \A ref \in L : /\ base'.recs[P[ref]].frn = Record(base, delta, ref).frn
                      /\ base'.recs[P[ref]].name = Record(base, delta, ref).name
    BY <2>2
  <2> QED  BY <2>3, <2>4 DEF L
<1>2. Inv /\ [Next]_vars => [Compact => Kept]_vars
  BY <1>1
<1> QED  BY <1>2, Invariant, PTL DEF Spec


(***************************************************************************)
(* Whatever a view gets wrong about a file, an event about that file is    *)
(* still on its way. The proof looks at what a view shows of each file,    *)
(* its name and its directory, and at how an event, an enumeration and a   *)
(* compaction change that; references between records are gone from there  *)
(* on. The invariant then compares it with the volume's past: each file is *)
(* shown as it was at some time since the events that have been applied.   *)
(***************************************************************************)


-----------------------------------------------------------------------------
(* What a view shows of a file. *)

\* The files its record's parent, if it has one, was made for.
DirsOf(b, d, ref) == {Record(b, d, p).frn : p \in ParentOf(b, d, ref)}

\* The name and the directory of each live record of a file.
Shown(b, d, f) ==
  {[name |-> Record(b, d, ref).name, dirs |-> DirsOf(b, d, ref)] : ref \in RecordsOf(b, d, f)}

\* The two layers are in order and agree.
LayersOK(b, d) == BaseOK(b) /\ DeltaOK(b, d) /\ Exact(b) /\ Apart(b, d)

InDelta(d, f) == f \in DOMAIN d.added_frns
InBase(b, d, f) == f \in DOMAIN b.frns /\ b.frns[f] \notin d.tombstones

\* The live records of a file are the one that a lookup finds, if any.
LEMMA TheRecord ==
  ASSUME NEW b, NEW d, LayersOK(b, d), NEW f
  PROVE  /\ InDelta(d, f) => /\ RecordsOf(b, d, f) = {DeltaRef(d.added_frns[f])}
                             /\ d.added_frns[f] \in LiveAdded(d)
                             /\ d.added[d.added_frns[f]].frn = f
                             /\ ~InBase(b, d, f)
         /\ InBase(b, d, f) => /\ RecordsOf(b, d, f) = {BaseRef(b.frns[f])}
                               /\ b.frns[f] \in LiveBase(b, d)
                               /\ b.recs[b.frns[f]].frn = f
         /\ ~InDelta(d, f) /\ ~InBase(b, d, f) => RecordsOf(b, d, f) = {}
<1>1. /\ \A i \in LiveBase(b, d) : InBase(b, d, b.recs[i].frn) /\ b.frns[b.recs[i].frn] = i
      /\ \A i \in LiveAdded(d) : InDelta(d, d.added[i].frn) /\ d.added_frns[d.added[i].frn] = i
  BY DEF LayersOK, LiveBase, LiveAdded, InBase, InDelta, Exact, DeltaOK
<1>2. InBase(b, d, f) => b.frns[f] \in LiveBase(b, d) /\ b.recs[b.frns[f]].frn = f
  BY DEF LayersOK, LiveBase, InBase, Exact, BaseOK
<1>3. InDelta(d, f) => d.added_frns[f] \in LiveAdded(d) /\ d.added[d.added_frns[f]].frn = f
  BY DEF LayersOK, DeltaOK, InDelta
<1>4. ~(InBase(b, d, f) /\ InDelta(d, f))
  BY <1>2, <1>3 DEF LayersOK, Apart
<1>5. \A ref \in RecordsOf(b, d, f) :
        \/ InBase(b, d, f) /\ ref = BaseRef(b.frns[f])
        \/ InDelta(d, f) /\ ref = DeltaRef(d.added_frns[f])
  <2> SUFFICES ASSUME NEW ref \in LiveRecords(b, d), Record(b, d, ref).frn = f
               PROVE  \/ InBase(b, d, f) /\ ref = BaseRef(b.frns[f])
                      \/ InDelta(d, f) /\ ref = DeltaRef(d.added_frns[f])
    BY DEF RecordsOf
  <2>1. \/ ref[2] \in LiveBase(b, d) /\ ref = BaseRef(ref[2]) /\ Record(b, d, ref) = b.recs[ref[2]]
        \/ ref[2] \in LiveAdded(d) /\ ref = DeltaRef(ref[2]) /\ Record(b, d, ref) = d.added[ref[2]]
    BY LiveRefs DEF LayersOK
  <2> QED  BY <1>1, <2>1
<1>6. InBase(b, d, f) => BaseRef(b.frns[f]) \in RecordsOf(b, d, f)
  BY <1>2 DEF RecordsOf, LiveRecords, Record, BaseRef
<1>7. InDelta(d, f) => DeltaRef(d.added_frns[f]) \in RecordsOf(b, d, f)
  BY <1>3 DEF RecordsOf, LiveRecords, Record, DeltaRef
<1> QED  BY <1>2, <1>3, <1>4, <1>5, <1>6, <1>7

\* What a record of the base, or of the delta, shows.
BaseShows(b, i) ==
  [name |-> b.recs[i].name, dirs |-> {b.recs[p].frn : p \in {b.recs[i].parent} \ {PARENT_NONE}}]
DeltaShows(b, d, i) ==
  [name |-> d.added[i].name, dirs |-> {Record(b, d, d.added[i].parent).frn}]

\* What is shown of a file, by where its record is.
LEMMA ShownIs ==
  ASSUME NEW b, NEW d, LayersOK(b, d), NEW f
  PROVE  /\ InDelta(d, f) => Shown(b, d, f) = {DeltaShows(b, d, d.added_frns[f])}
         /\ InBase(b, d, f) => Shown(b, d, f) = {BaseShows(b, b.frns[f])}
         /\ ~InDelta(d, f) /\ ~InBase(b, d, f) => Shown(b, d, f) = {}
<1>1. CASE InDelta(d, f)
  <2> DEFINE ref == DeltaRef(d.added_frns[f])
  <2>1. RecordsOf(b, d, f) = {ref} /\ ~InBase(b, d, f)
    BY <1>1, TheRecord
  <2>2. Record(b, d, ref) = d.added[d.added_frns[f]] /\ ParentOf(b, d, ref) = {d.added[d.added_frns[f]].parent}
    BY DEF DeltaRef, Record, ParentOf
  <2>3. DirsOf(b, d, ref) = {Record(b, d, d.added[d.added_frns[f]].parent).frn}
    BY <2>2 DEF DirsOf
  <2> HIDE DEF ref
  <2> QED  BY <1>1, <2>1, <2>2, <2>3 DEF Shown, DeltaShows
<1>2. CASE InBase(b, d, f)
  <2> DEFINE ref == BaseRef(b.frns[f])
  <2>1. RecordsOf(b, d, f) = {ref} /\ ~InDelta(d, f)
    BY <1>2, TheRecord
  <2>2. /\ Record(b, d, ref) = b.recs[b.frns[f]]
        /\ ParentOf(b, d, ref) = {BaseRef(p) : p \in {b.recs[b.frns[f]].parent} \ {PARENT_NONE}}
    BY DEF BaseRef, Record, ParentOf
  <2>3. \A p : Record(b, d, BaseRef(p)) = b.recs[p]
    BY DEF BaseRef, Record
  <2>4. DirsOf(b, d, ref) = {b.recs[p].frn : p \in {b.recs[b.frns[f]].parent} \ {PARENT_NONE}}
    BY <2>2, <2>3 DEF DirsOf
  <2> HIDE DEF ref
  <2> QED  BY <1>2, <2>1, <2>2, <2>4 DEF Shown, BaseShows
<1>3. CASE ~InDelta(d, f) /\ ~InBase(b, d, f)
  BY <1>3, TheRecord DEF Shown
<1> QED  BY <1>1, <1>2, <1>3

\* A file is present when it is shown.
LEMMA PresentIsShown ==
  ASSUME NEW b, NEW d, LayersOK(b, d), NEW f
  PROVE  /\ Present(d, b, f) <=> InDelta(d, f) \/ InBase(b, d, f)
         /\ Present(d, b, f) <=> Shown(b, d, f) # {}
<1>1. Lookup(d.added_frns, f) # 0 /\ d.added[Lookup(d.added_frns, f)].live <=> InDelta(d, f)
  <2>1. Lookup(d.added_frns, f) # 0 => f \in DOMAIN d.added_frns
    BY DEF Lookup
  <2> QED  BY <2>1, LookupAdded DEF LayersOK, InDelta
<1>2. Lookup(b.frns, f) # 0 /\ Lookup(b.frns, f) \notin d.tombstones <=> InBase(b, d, f)
  <2>1. \A j \in DOMAIN b.recs : j # 0
    BY DEF LayersOK, BaseOK
  <2> QED  BY <2>1 DEF LayersOK, BaseOK, Lookup, InBase
<1> QED  BY <1>1, <1>2, ShownIs DEF Present

-----------------------------------------------------------------------------
(* How an event changes what is shown. *)

\* A later delta: additions stay, with their files, names and parents.
Grown(d, e) ==
  /\ DOMAIN d.added \subseteq DOMAIN e.added
  /\ \A i \in DOMAIN d.added : /\ e.added[i].frn = d.added[i].frn /\ e.added[i].name = d.added[i].name
                               /\ e.added[i].parent = d.added[i].parent

\* A file whose record stays where it is is shown as before.
LEMMA ShownKept ==
  ASSUME NEW b, NEW d, NEW e, LayersOK(b, d), LayersOK(b, e), Grown(d, e), NEW g,
         InDelta(d, g) <=> InDelta(e, g), InDelta(d, g) => e.added_frns[g] = d.added_frns[g],
         InBase(b, d, g) <=> InBase(b, e, g)
  PROVE  Shown(b, e, g) = Shown(b, d, g)
<1>1. ASSUME InDelta(d, g)
      PROVE  DeltaShows(b, e, d.added_frns[g]) = DeltaShows(b, d, d.added_frns[g])
  <2> DEFINE i == d.added_frns[g]
  <2>1. i \in DOMAIN d.added
    BY <1>1, TheRecord DEF LiveAdded
  <2>2. e.added[i].name = d.added[i].name /\ e.added[i].parent = d.added[i].parent
    BY <2>1 DEF Grown
  <2>3. \A j \in 1 .. i - 1 : j \in DOMAIN d.added
    <3>1. DOMAIN d.added = 1 .. Len(d.added) /\ Len(d.added) \in Nat
      BY DEF LayersOK, DeltaOK, Deltas
    <3> QED  BY <2>1, <3>1
  <2>4. d.added[i].parent \in {BaseRef(j) : j \in DOMAIN b.recs} \cup {DeltaRef(j) : j \in 1 .. i - 1}
    BY <2>1 DEF LayersOK, DeltaOK
  <2>5. Record(b, e, d.added[i].parent).frn = Record(b, d, d.added[i].parent).frn
    <3>1. CASE d.added[i].parent \in {BaseRef(j) : j \in DOMAIN b.recs}
      <4>1. PICK j \in DOMAIN b.recs : d.added[i].parent = BaseRef(j)
        BY <3>1
      <4> QED  BY <4>1 DEF BaseRef, Record
    <3>2. CASE d.added[i].parent \in {DeltaRef(j) : j \in 1 .. i - 1}
      <4>1. PICK j \in DOMAIN d.added : d.added[i].parent = DeltaRef(j)
        BY <3>2, <2>3
      <4>2. e.added[j].frn = d.added[j].frn
        BY DEF Grown
      <4> QED  BY <4>1, <4>2 DEF DeltaRef, Record
    <3> QED  BY <2>4, <3>1, <3>2
  <2> QED  BY <2>2, <2>5 DEF DeltaShows
<1> QED  BY <1>1, ShownIs

\* delete, spelled out: the addition dies, or the base record is tombstoned.
LEMMA DeleteShape ==
  ASSUME NEW b, NEW d, LayersOK(b, d), NEW f, NEW e, e = Delete(d, b, f)
  PROVE  /\ LayersOK(b, e) /\ Grown(d, e) /\ DOMAIN e.added = DOMAIN d.added
         /\ LiveAdded(e) = {i \in LiveAdded(d) : d.added[i].frn # f}
         /\ DOMAIN e.added_frns = DOMAIN d.added_frns \ {f}
         /\ \A g \in DOMAIN e.added_frns : e.added_frns[g] = d.added_frns[g]
         /\ d.tombstones \subseteq e.tombstones
         /\ \A j \in e.tombstones \ d.tombstones : b.recs[j].frn = f
         /\ ~InBase(b, e, f)
<1> DEFINE added == Lookup(d.added_frns, f)
           index == Lookup(b.frns, f)
<1>1. LayersOK(b, e) /\ DOMAIN e.added = DOMAIN d.added
  BY DeleteKeeps DEF LayersOK
<1>2. d \in Deltas(b) /\ d.added \in Seq(Addition)
  BY DEF LayersOK, DeltaOK, Deltas
<1>3. CASE added # 0
  <2>1. /\ added \in LiveAdded(d) /\ added \in DOMAIN d.added /\ d.added[added].frn = f
        /\ \A i \in LiveAdded(d) : d.added[i].frn = f => i = added
    BY <1>3, LookupAdded DEF LayersOK
  <2>2. e = [d EXCEPT !.added[added].live = FALSE,
                      !.added_frns = Restrict(@, DOMAIN @ \ {f})]
    BY <1>3 DEF Delete
  <2> HIDE DEF added
  <2>3. /\ e.tombstones = d.tombstones
        /\ e.added = [d.added EXCEPT ![added].live = FALSE]
        /\ e.added_frns = [g \in DOMAIN d.added_frns \ {f} |-> d.added_frns[g]]
    BY <1>2, <2>2 DEF Deltas, Restrict
  <2>4. \A i \in DOMAIN d.added : /\ d.added[i] \in Addition
                                  /\ e.added[i] = IF i = added THEN [d.added[i] EXCEPT !.live = FALSE] ELSE d.added[i]
    <3>1. \A i \in DOMAIN d.added : d.added[i] \in Addition
      BY <1>2
    <3> DEFINE dead == [d.added[added] EXCEPT !.live = FALSE]
    <3>2. e.added = [d.added EXCEPT ![added] = dead]
      BY <2>3
    <3> HIDE DEF dead
    <3>3. \A i \in DOMAIN d.added : e.added[i] = IF i = added THEN dead ELSE d.added[i]
      BY <1>2, <2>1, <3>2
    <3> QED  BY <3>1, <3>3 DEF dead
  <2>5. \A i \in DOMAIN d.added : /\ e.added[i].frn = d.added[i].frn /\ e.added[i].name = d.added[i].name
                                  /\ e.added[i].parent = d.added[i].parent
                                  /\ e.added[i].live = (i # added /\ d.added[i].live)
    <3> SUFFICES ASSUME NEW i \in DOMAIN d.added
                 PROVE  /\ e.added[i].frn = d.added[i].frn /\ e.added[i].name = d.added[i].name
                        /\ e.added[i].parent = d.added[i].parent
                        /\ e.added[i].live = (i # added /\ d.added[i].live)
      OBVIOUS
    <3>1. CASE i = added
      BY <2>4, <3>1 DEF Addition
    <3>2. CASE i # added
      <4>1. e.added[i] = d.added[i] /\ d.added[i].live \in BOOLEAN
        BY <2>4, <3>2 DEF Addition
      <4> QED  BY <3>2, <4>1
    <3> QED  BY <3>1, <3>2
  <2>6. LiveAdded(e) = {i \in LiveAdded(d) : d.added[i].frn # f}
    BY <1>1, <2>1, <2>5 DEF LiveAdded
  <2>7. ~InBase(b, e, f)
    <3>1. InDelta(d, f)
      BY <2>1 DEF LayersOK, DeltaOK, InDelta
    <3> QED  BY <2>3, <3>1, TheRecord DEF InBase
  <2> QED  BY <1>1, <2>3, <2>5, <2>6, <2>7 DEF Grown
<1>4. CASE added = 0
  <2>1. f \notin DOMAIN d.added_frns /\ \A i \in LiveAdded(d) : d.added[i].frn # f
    BY <1>4, LookupAdded DEF LayersOK
  <2>2. /\ index = 0 => e = d
        /\ index # 0 => e = [d EXCEPT !.tombstones = @ \cup {index}]
    BY <1>4 DEF Delete
  <2>3. /\ index # 0 => f \in DOMAIN b.frns /\ index = b.frns[f] /\ b.recs[index].frn = f
        /\ index = 0 => f \notin DOMAIN b.frns
    <3>1. \A j \in DOMAIN b.recs : j # 0
      BY DEF LayersOK, BaseOK
    <3> QED  BY <3>1 DEF LayersOK, BaseOK, Exact, Lookup
  <2> HIDE DEF added, index
  <2>4. /\ e.added = d.added /\ e.added_frns = d.added_frns
        /\ e.tombstones = IF index = 0 THEN d.tombstones ELSE d.tombstones \cup {index}
    BY <1>2, <2>2 DEF Deltas
  <2>5. LiveAdded(e) = {i \in LiveAdded(d) : d.added[i].frn # f}
    BY <2>1, <2>4 DEF LiveAdded
  <2>6. ~InBase(b, e, f)
    BY <2>3, <2>4 DEF InBase
  <2> QED  BY <1>1, <2>1, <2>3, <2>4, <2>5, <2>6 DEF Grown
<1> QED  BY <1>3, <1>4

\* What is deleted is no longer shown, and nothing else changes.
LEMMA DeleteShows ==
  ASSUME NEW b, NEW d, LayersOK(b, d), NEW f
  PROVE  /\ Shown(b, Delete(d, b, f), f) = {}
         /\ \A g : g # f => Shown(b, Delete(d, b, f), g) = Shown(b, d, g)
<1> DEFINE e == Delete(d, b, f)
<1>1. /\ LayersOK(b, e) /\ Grown(d, e)
      /\ DOMAIN e.added_frns = DOMAIN d.added_frns \ {f}
      /\ \A g \in DOMAIN e.added_frns : e.added_frns[g] = d.added_frns[g]
      /\ d.tombstones \subseteq e.tombstones
      /\ \A j \in e.tombstones \ d.tombstones : b.recs[j].frn = f
      /\ ~InBase(b, e, f)
  BY DeleteShape
<1> HIDE DEF e
<1>2. Shown(b, e, f) = {}
  BY <1>1, ShownIs DEF InDelta
<1>3. ASSUME NEW g, g # f PROVE Shown(b, e, g) = Shown(b, d, g)
  <2>1. /\ InDelta(d, g) <=> InDelta(e, g)
        /\ InDelta(d, g) => e.added_frns[g] = d.added_frns[g]
    BY <1>1, <1>3 DEF InDelta
  <2>2. InBase(b, d, g) <=> InBase(b, e, g)
    <3>1. g \in DOMAIN b.frns => b.recs[b.frns[g]].frn = g
      BY DEF LayersOK, Exact
    <3> QED  BY <1>1, <1>3, <3>1 DEF InBase
  <2> QED  BY <1>1, <2>1, <2>2, ShownKept
<1> QED  BY <1>2, <1>3 DEF e

\* A parent that is resolved is a record of that file. It is a live one, unless
\* the file has a dead record in the base and none in the delta.
LEMMA ResolvedFrn ==
  ASSUME NEW b, NEW d, LayersOK(b, d), NEW f, NEW p \in ResolveParent(d, b, f)
  PROVE  /\ Record(b, d, p).frn = f
         /\ (f \in DOMAIN b.frns /\ b.frns[f] \in d.tombstones => InDelta(d, f)) => p \in LiveRecords(b, d)
<1>1. CASE Lookup(d.added_frns, f) # 0
  <2>1. /\ p = DeltaRef(Lookup(d.added_frns, f)) /\ Lookup(d.added_frns, f) \in LiveAdded(d)
        /\ d.added[Lookup(d.added_frns, f)].frn = f
    BY <1>1, LookupAdded DEF ResolveParent, LayersOK
  <2> QED  BY <2>1 DEF LiveRecords, DeltaRef, Record
<1>2. CASE Lookup(d.added_frns, f) = 0
  <2>1. p = BaseRef(Lookup(b.frns, f)) /\ Lookup(b.frns, f) # 0
    BY <1>2 DEF ResolveParent
  <2>2. f \in DOMAIN b.frns /\ p = BaseRef(b.frns[f])
    BY <2>1 DEF Lookup
  <2>3. b.frns[f] \in DOMAIN b.recs /\ b.recs[b.frns[f]].frn = f /\ ~InDelta(d, f)
    BY <1>2, <2>2, LookupAdded DEF LayersOK, BaseOK, Exact, InDelta
  <2> QED  BY <2>2, <2>3 DEF LiveRecords, LiveBase, BaseRef, Record
<1> QED  BY <1>1, <1>2

\* A new addition is all that is shown of its file, and nothing else changes.
LEMMA PushedShows ==
  ASSUME NEW b, NEW d, LayersOK(b, d), NEW f \in Files, NEW parentFrn,
         NEW name \in Nat \ {0}, ~Present(d, b, f), NEW e \in Pushed(d, b, f, parentFrn, name)
  PROVE  /\ LayersOK(b, e) /\ Grown(d, e)
         /\ Shown(b, e, f) = {[name |-> name, dirs |-> {parentFrn}]}
         /\ \A g : g # f => Shown(b, e, g) = Shown(b, d, g)
<1> DEFINE n == Len(d.added) + 1
<1>1. LayersOK(b, e)
  BY PushedKeeps DEF LayersOK
<1>2. /\ e.tombstones = d.tombstones
      /\ DOMAIN d.added = 1 .. Len(d.added) /\ Len(d.added) \in Nat
      /\ DOMAIN e.added = 1 .. n
      /\ \A i \in DOMAIN d.added : e.added[i] = d.added[i]
      /\ e.added[n].name = name
      /\ e.added[n].parent \in ResolveParent(d, b, parentFrn)
      /\ DOMAIN e.added_frns = {f} \cup DOMAIN d.added_frns
      /\ e.added_frns[f] = n
      /\ \A g \in DOMAIN d.added_frns : g # f => e.added_frns[g] = d.added_frns[g]
  BY PushedShape DEF LayersOK
<1>3. Grown(d, e)
  BY <1>2 DEF Grown
<1>4. Record(b, e, e.added[n].parent).frn = parentFrn
  <2> DEFINE p == e.added[n].parent
  <2>1. Record(b, d, p).frn = parentFrn
    BY <1>2, ResolvedFrn
  <2>2. p \in {BaseRef(j) : j \in DOMAIN b.recs} \cup {DeltaRef(j) : j \in DOMAIN d.added}
    BY <1>2, ResolvedParent DEF LayersOK
  <2> SUFFICES Record(b, e, p).frn = parentFrn
    OBVIOUS
  <2> HIDE DEF p
  <2>3. CASE p \in {BaseRef(j) : j \in DOMAIN b.recs}
    <3>1. PICK j \in DOMAIN b.recs : p = BaseRef(j)
      BY <2>3
    <3> QED  BY <2>1, <3>1 DEF BaseRef, Record
  <2>4. CASE p \in {DeltaRef(j) : j \in DOMAIN d.added}
    <3>1. PICK j \in DOMAIN d.added : p = DeltaRef(j)
      BY <2>4
    <3> QED  BY <1>2, <2>1, <3>1 DEF DeltaRef, Record
  <2> QED  BY <2>2, <2>3, <2>4
<1>5. Shown(b, e, f) = {[name |-> name, dirs |-> {parentFrn}]}
  <2>1. InDelta(e, f) /\ e.added_frns[f] = n
    BY <1>2 DEF InDelta
  <2> QED  BY <1>1, <1>2, <1>4, <2>1, ShownIs DEF DeltaShows
<1>6. ASSUME NEW g, g # f PROVE Shown(b, e, g) = Shown(b, d, g)
  <2>1. /\ InDelta(d, g) <=> InDelta(e, g)
        /\ InDelta(d, g) => e.added_frns[g] = d.added_frns[g]
    BY <1>2, <1>6 DEF InDelta
  <2>2. InBase(b, d, g) <=> InBase(b, e, g)
    BY <1>2 DEF InBase
  <2> QED  BY <1>1, <1>3, <2>1, <2>2, ShownKept
<1> QED  BY <1>1, <1>3, <1>5, <1>6

\* What an event says is what is shown of its file afterwards; but a creation
\* of a file that is shown already changes nothing at all.
LEMMA ApplyShows ==
  ASSUME NEW b, NEW d, LayersOK(b, d), NEW event \in Event, NEW e \in Apply(d, b, event)
  PROVE  /\ LayersOK(b, e)
         /\ \A g : g # event.frn => Shown(b, e, g) = Shown(b, d, g)
         /\ event.kind = "deleted" => Shown(b, e, event.frn) = {}
         /\ event.kind = "renamed" \/ (event.kind = "created" /\ Shown(b, d, event.frn) = {})
              => Shown(b, e, event.frn) = {[name |-> event.name, dirs |-> {event.parent}]}
         /\ event.kind = "created" /\ Shown(b, d, event.frn) # {} => e = d
<1> DEFINE f == event.frn  p == event.parent  name == event.name
<1>1. f \in Files /\ name \in Nat \ {0} /\ event.kind \in {"created", "renamed", "deleted"}
  BY FilesAssumption DEF Event
<1>2. LayersOK(b, e)
  BY ApplyKeeps, FilesAssumption DEF LayersOK
<1>3. CASE event.kind = "created"
  <2>1. e \in Create(d, b, f, p, name)
    BY <1>3 DEF Apply
  <2>2. CASE Present(d, b, f)
    <3>1. e = d /\ Shown(b, d, f) # {}
      BY <2>1, <2>2, PresentIsShown DEF Create
    <3> QED  BY <1>2, <1>3, <3>1
  <2>3. CASE ~Present(d, b, f)
    <3>1. e \in Pushed(d, b, f, p, name) /\ Shown(b, d, f) = {}
      BY <2>1, <2>3, PresentIsShown DEF Create
    <3> QED  BY <1>1, <1>2, <1>3, <2>3, <3>1, PushedShows
  <2> QED  BY <2>2, <2>3
<1>4. CASE event.kind = "deleted"
  <2>1. e = Delete(d, b, f)
    BY <1>4 DEF Apply
  <2> QED  BY <1>2, <1>4, <2>1, DeleteShows
<1>5. CASE event.kind = "renamed"
  <2> DEFINE added == Lookup(d.added_frns, f)
             same == /\ added # 0 /\ d.added[added].live /\ d.added[added].name = name
                     /\ d.added[added].parent \in ResolveParent(d, b, p)
             gone == Delete(d, b, f)
  <2>1. \/ same /\ e = d
        \/ e \in Create(gone, b, f, p, name)
    BY <1>5 DEF Apply, Rename
  <2>2. CASE same /\ e = d
    <3>1. InDelta(d, f) /\ d.added_frns[f] = added
      BY <2>2 DEF Lookup, InDelta
    <3>2. Record(b, d, d.added[added].parent).frn = p
      BY <2>2, ResolvedFrn
    <3>3. Shown(b, d, f) = {DeltaShows(b, d, added)}
      BY <3>1, ShownIs
    <3>4. DeltaShows(b, d, added) = [name |-> name, dirs |-> {p}]
      BY <2>2, <3>2 DEF DeltaShows
    <3> QED  BY <1>2, <1>5, <2>2, <3>3, <3>4
  <2>3. CASE e \in Create(gone, b, f, p, name)
    <3>1. /\ LayersOK(b, gone) /\ Shown(b, gone, f) = {}
          /\ \A g : g # f => Shown(b, gone, g) = Shown(b, d, g)
      BY DeleteShape, DeleteShows
    <3> HIDE DEF gone
    <3>2. ~Present(gone, b, f)
      BY <3>1, PresentIsShown
    <3>3. e \in Pushed(gone, b, f, p, name)
      BY <2>3, <3>2 DEF Create
    <3>4. /\ Shown(b, e, f) = {[name |-> name, dirs |-> {p}]}
          /\ \A g : g # f => Shown(b, e, g) = Shown(b, gone, g)
      BY <1>1, <3>1, <3>2, <3>3, PushedShows
    <3> QED  BY <1>2, <1>5, <3>1, <3>4
  <2> QED  BY <2>1, <2>2, <2>3
<1> QED  BY <1>1, <1>3, <1>4, <1>5

\* The file has a record in the base, a dead one, and none in the delta: a
\* parent resolved to it would be dead.
Dead(b, d, f) == f \in DOMAIN b.frns /\ b.frns[f] \in d.tombstones /\ ~InDelta(d, f)

\* A new addition is under a live record.
LEMMA PushedReaches ==
  ASSUME NEW b, NEW d, LayersOK(b, d), NEW f \in Files, NEW parentFrn, ~Dead(b, d, parentFrn),
         NEW name \in Nat \ {0}, NEW e \in Pushed(d, b, f, parentFrn, name)
  PROVE  /\ e.tombstones = d.tombstones
         /\ DOMAIN e.added_frns = {f} \cup DOMAIN d.added_frns
         /\ \A i \in AddedBy(d, e) : e.added[i].frn = f /\ e.added[i].parent \in LiveRecords(b, e)
<1> DEFINE n == Len(d.added) + 1
<1>1. /\ e.tombstones = d.tombstones
      /\ DOMAIN d.added = 1 .. Len(d.added) /\ Len(d.added) \in Nat
      /\ DOMAIN e.added = 1 .. n
      /\ \A i \in DOMAIN d.added : e.added[i] = d.added[i]
      /\ e.added[n].frn = f
      /\ e.added[n].parent \in ResolveParent(d, b, parentFrn)
      /\ DOMAIN e.added_frns = {f} \cup DOMAIN d.added_frns
  BY PushedShape DEF LayersOK
<1>2. e.added[n].parent \in LiveRecords(b, d)
  BY <1>1, ResolvedFrn DEF Dead
<1>3. LiveBase(b, e) = LiveBase(b, d) /\ LiveAdded(d) \subseteq LiveAdded(e)
  BY <1>1 DEF LiveBase, LiveAdded
<1>4. LiveRecords(b, d) \subseteq LiveRecords(b, e)
  BY <1>3 DEF LiveRecords
<1>5. AddedBy(d, e) = {n}
  BY <1>1 DEF AddedBy
<1> QED  BY <1>1, <1>2, <1>4, <1>5

\* What an event does to the records themselves: it kills those of its file, and
\* the one it adds has a live parent if the parent's file is not dead.
LEMMA ApplyReaches ==
  ASSUME NEW b, NEW d, LayersOK(b, d), NEW event \in Event, NEW e \in Apply(d, b, event),
         event.kind # "deleted" => event.parent # event.frn /\ ~Dead(b, d, event.parent)
  PROVE  /\ \A j \in e.tombstones \ d.tombstones : b.recs[j].frn = event.frn
         /\ \A g : g # event.frn => (InDelta(d, g) <=> InDelta(e, g))
         /\ event.kind # "deleted" => e = d \/ InDelta(e, event.frn)
         /\ \A i \in AddedBy(d, e) : e.added[i].frn = event.frn /\ e.added[i].parent \in LiveRecords(b, e)
<1> DEFINE f == event.frn  p == event.parent  name == event.name
           gone == Delete(d, b, f)
<1>1. f \in Files /\ name \in Nat \ {0} /\ event.kind \in {"created", "renamed", "deleted"}
  BY FilesAssumption DEF Event
<1>2. AddedBy(d, d) = {}
  BY DEF AddedBy
<1>3. /\ LayersOK(b, gone) /\ DOMAIN gone.added = DOMAIN d.added
      /\ DOMAIN gone.added_frns = DOMAIN d.added_frns \ {f}
      /\ \A j \in gone.tombstones \ d.tombstones : b.recs[j].frn = f
  BY DeleteShape
<1>4. AddedBy(d, gone) = {} /\ \A x : AddedBy(gone, x) = AddedBy(d, x)
  BY <1>3 DEF AddedBy
<1> HIDE DEF gone
<1>5. CASE event.kind = "created"
  <2>1. e = d \/ e \in Pushed(d, b, f, p, name)
    BY <1>5 DEF Apply, Create
  <2>2. CASE e = d
    BY <1>2, <2>2
  <2>3. CASE e \in Pushed(d, b, f, p, name)
    BY <1>1, <1>5, <2>3, PushedReaches DEF InDelta
  <2> QED  BY <2>1, <2>2, <2>3
<1>6. CASE event.kind = "deleted"
  <2>1. e = gone
    BY <1>6 DEF Apply, gone
  <2> QED  BY <1>3, <1>4, <1>6, <2>1 DEF InDelta
<1>7. CASE event.kind = "renamed"
  <2>1. e = d \/ e \in Create(gone, b, f, p, name)
    BY <1>7 DEF Apply, Rename, gone
  <2>2. CASE e = d
    BY <1>2, <2>2
  <2>3. CASE e \in Create(gone, b, f, p, name)
    <3>1. ~Present(gone, b, f)
      BY PresentIsShown, DeleteShape, DeleteShows DEF gone
    <3>2. e \in Pushed(gone, b, f, p, name)
      BY <2>3, <3>1 DEF Create
    <3>3. ~Dead(b, gone, p)
      <4>1. p # f /\ ~Dead(b, d, p)
        BY <1>7
      <4>2. p \in DOMAIN b.frns => b.recs[b.frns[p]].frn = p
        BY DEF LayersOK, Exact
      <4> QED  BY <1>3, <4>1, <4>2 DEF Dead, InDelta
    <3>4. /\ e.tombstones = gone.tombstones
          /\ DOMAIN e.added_frns = {f} \cup DOMAIN gone.added_frns
          /\ \A i \in AddedBy(gone, e) : e.added[i].frn = f /\ e.added[i].parent \in LiveRecords(b, e)
      BY <1>1, <1>3, <3>2, <3>3, PushedReaches
    <3> QED  BY <1>3, <1>4, <3>4 DEF InDelta
  <2> QED  BY <2>1, <2>2, <2>3
<1> QED  BY <1>1, <1>5, <1>6, <1>7

-----------------------------------------------------------------------------
(* The volume's past. *)

\* A file is there at both times and the same, or not there at both.
SameAt(f, t, u) ==
  /\ f \in DOMAIN trees[t] <=> f \in DOMAIN trees[u]
  /\ f \in DOMAIN trees[t] => trees[t][f] = trees[u][f]

\* An event reports the change from one tree to the next.
EventOK(i) ==
  LET event == journal[i]
      f     == event.frn
  IN  /\ \A g \in Files \ {f} : SameAt(g, i, i + 1)
      /\ event.kind = "created" => \A k \in 1 .. i : f \notin DOMAIN trees[k]
      /\ event.kind # "created" => f \in DOMAIN trees[i]
      /\ event.kind = "deleted" => f \notin DOMAIN trees[i + 1]
      /\ event.kind # "deleted" =>
           /\ f \in DOMAIN trees[i + 1] /\ event.parent \in DOMAIN trees[i] \ {f}
           /\ trees[i + 1][f] = [name |-> event.name, parent |-> event.parent]

\* A file that has been there and no longer is.
Gone(f, t) == f \notin DOMAIN trees[t] /\ \E k \in 1 .. t : f \in DOMAIN trees[k]

\* The trees and the journal tell the same story; no file comes back; and a
\* directory is there as long as anything is in it.
Past ==
  /\ \A i \in 1 .. Len(journal) : EventOK(i)
  /\ \A t, u \in 1 .. Len(trees) : \A f \in Files : t <= u /\ Gone(f, t) => Gone(f, u)
  /\ \A t \in 1 .. Len(trees) : \A f \in DOMAIN trees[t] : trees[t][f].parent \in DOMAIN trees[t]

\* A file that no event is about stays as it is.
LEMMA Unreported ==
  ASSUME Volume, Past, NEW f \in Files, NEW from \in 0 .. Len(journal),
         \A i \in from + 1 .. Len(journal) : journal[i].frn # f,
         NEW t \in from + 1 .. Len(trees)
  PROVE  SameAt(f, t, Len(trees))
<1> DEFINE n == Len(trees)
           S == {k \in Nat : n - k >= from + 1 => SameAt(f, n - k, n)}
<1>1. Len(journal) \in Nat /\ n = Len(journal) + 1
  BY DEF Volume
<1>2. 0 \in S
  BY <1>1 DEF SameAt
<1>3. ASSUME NEW k \in Nat, k \in S PROVE k + 1 \in S
  <2> SUFFICES ASSUME n - (k + 1) >= from + 1 PROVE SameAt(f, n - (k + 1), n)
    OBVIOUS
  <2> DEFINE i == n - (k + 1)
  <2>1. i \in from + 1 .. Len(journal) /\ i \in 1 .. Len(journal) /\ i + 1 = n - k /\ n - k >= from + 1
    BY <1>1
  <2>2. SameAt(f, n - k, n)
    BY <1>3, <2>1
  <2> HIDE DEF i
  <2>3. journal[i].frn # f /\ EventOK(i)
    BY <2>1 DEF Past
  <2>4. SameAt(f, i, i + 1)
    BY <2>3 DEF EventOK
  <2>5. SameAt(f, i, n)
    BY <2>1, <2>2, <2>4 DEF SameAt
  <2> QED  BY <2>5 DEF i
<1> HIDE DEF S
<1>4. Nat \subseteq S
  BY <1>2, <1>3, NatSetInduction
<1>5. n - t \in Nat /\ n - (n - t) = t /\ t >= from + 1
  BY <1>1
<1> QED  BY <1>4, <1>5 DEF S

-----------------------------------------------------------------------------
(* What a view shows, against the past. *)

\* The file is shown as it is in a tree; its directory does not matter if it is
\* one of those that lost it.
Shows(b, d, exempt, f, files) ==
  IF f \notin DOMAIN files THEN Shown(b, d, f) = {}
  ELSE \E e \in Shown(b, d, f) :
         /\ Shown(b, d, f) = {e} /\ e.name = files[f].name
         /\ f \in exempt \/ e.dirs = {files[f].parent}

\* A later event will correct the file's directory.
Redone(f, from) ==
  \E i \in from + 1 .. Len(journal) : journal[i].frn = f /\ journal[i].kind # "created"

\* Each file is shown as it was at some time since `from`, or will be put right.
Fresh(b, d, exempt, from) ==
  \A f \in Files : \E t \in from + 1 .. Len(trees) :
    \/ Shows(b, d, exempt, f, trees[t])
    \/ Shows(b, d, {f}, f, trees[t]) /\ Redone(f, from)

\* What lost its directory is among the orphans.
StrandedOK(b, d, exempt) == \A ref \in Stranded(b, d) : Record(b, d, ref).frn \in exempt

\* A record of the base is dead because its file has another one, or is gone.
TombsOK(b, d, from) ==
  \A j \in d.tombstones : InDelta(d, b.recs[j].frn) \/ Gone(b.recs[j].frn, from + 1)

\* What is exempt from more is shown as well.
LEMMA ShowsMore ==
  ASSUME NEW b, NEW d, NEW few, NEW many, NEW f, NEW files, f \in few => f \in many,
         Shows(b, d, few, f, files)
  PROVE  Shows(b, d, many, f, files)
BY DEF Shows

\* A file with one record shows as it is in a tree with that name and directory.
LEMMA ShowsRecord ==
  ASSUME NEW b, NEW d, NEW exempt, NEW f, NEW files, NEW dirs, f \in DOMAIN files,
         Shown(b, d, f) = {[name |-> files[f].name, dirs |-> dirs]},
         f \in exempt \/ dirs = {files[f].parent}
  PROVE  Shows(b, d, exempt, f, files)
<1> DEFINE e == [name |-> files[f].name, dirs |-> dirs]
<1>1. e \in Shown(b, d, f) /\ Shown(b, d, f) = {e} /\ e.name = files[f].name /\ e.dirs = dirs
  OBVIOUS
<1> HIDE DEF e
<1> QED  BY <1>1 DEF Shows

\* What happens to the orphans with an event.
OrphansAfter(d, e, before) ==
  (before \ {e.added[i].frn : i \in AddedBy(d, e)}) \cup StrandedBy(d, e)

\* The event's file excepted, orphans stay orphans.
LEMMA OrphansKept ==
  ASSUME NEW d, LayersOK(base, d), NEW event \in Event, NEW e \in Apply(d, base, event),
         event.kind # "deleted" => event.parent # event.frn /\ ~Dead(base, d, event.parent),
         NEW before, NEW f \in before, f # event.frn \/ e = d
  PROVE  f \in OrphansAfter(d, e, before)
<1>1. \A i \in AddedBy(d, e) : e.added[i].frn = event.frn
  BY ApplyReaches
<1>2. e = d => AddedBy(d, e) = {}
  BY DEF AddedBy
<1> QED  BY <1>1, <1>2 DEF OrphansAfter

\* The directory that an event names is not dead in the view: it is in the tree.
LEMMA NamedParent ==
  ASSUME Volume, Past, NEW k \in 1 .. Len(journal), NEW b, NEW d, LayersOK(b, d),
         TombsOK(b, d, k - 1), journal[k].kind # "deleted"
  PROVE  journal[k].parent # journal[k].frn /\ ~Dead(b, d, journal[k].parent)
<1> DEFINE p == journal[k].parent
<1>1. p \in DOMAIN trees[k] /\ p # journal[k].frn
  BY DEF Past, EventOK
<1>2. (k - 1) + 1 = k
  OBVIOUS
<1> HIDE DEF p
<1>3. ASSUME Dead(b, d, p) PROVE FALSE
  <2>1. b.recs[b.frns[p]].frn = p /\ b.frns[p] \in d.tombstones /\ ~InDelta(d, p)
    BY <1>3 DEF Dead, LayersOK, Exact
  <2>2. Gone(p, k)
    BY <2>1, <1>2 DEF TombsOK
  <2> QED  BY <1>1, <2>2 DEF Gone
<1> QED  BY <1>1, <1>3 DEF p

-----------------------------------------------------------------------------
(* One event. *)

\* An event of the journal, and the trees around it.
LEMMA EventFacts ==
  ASSUME Volume, NEW k \in 1 .. Len(journal)
  PROVE  /\ Len(journal) \in Nat /\ Len(trees) = Len(journal) + 1 /\ k \in Nat /\ (k - 1) + 1 = k
         /\ journal[k] \in Event /\ journal[k].frn \in Files
         /\ journal[k].kind \in {"created", "renamed", "deleted"}
         /\ k \in 1 .. Len(trees) /\ k + 1 \in 1 .. Len(trees) /\ k \in 1 .. k + 1
<1>1. Len(journal) \in Nat /\ Len(trees) = Len(journal) + 1 /\ journal[k] \in Event
  BY DEF Volume
<1>2. journal[k].frn \in Files /\ journal[k].kind \in {"created", "renamed", "deleted"}
  BY <1>1 DEF Event
<1> QED  BY <1>1, <1>2

\* An event brings its file up to date and lets no other fall behind.
LEMMA FreshStep ==
  ASSUME Volume, Past, NEW k \in 1 .. Len(journal), NEW d, LayersOK(base, d), TombsOK(base, d, k - 1),
         NEW e \in Apply(d, base, journal[k]), NEW before, Fresh(base, d, before, k - 1)
  PROVE  Fresh(base, e, OrphansAfter(d, e, before), k)
<1> DEFINE event == journal[k]
           after == OrphansAfter(d, e, before)
<1>1. /\ Len(journal) \in Nat /\ Len(trees) = Len(journal) + 1 /\ k \in Nat
      /\ event \in Event /\ event.kind \in {"created", "renamed", "deleted"}
  BY EventFacts
<1>2. EventOK(k)
  BY DEF Past
<1>3. /\ LayersOK(base, e)
      /\ \A g : g # event.frn => Shown(base, e, g) = Shown(base, d, g)
      /\ event.kind = "deleted" => Shown(base, e, event.frn) = {}
      /\ event.kind = "renamed" \/ (event.kind = "created" /\ Shown(base, d, event.frn) = {})
              => Shown(base, e, event.frn) = {[name |-> event.name, dirs |-> {event.parent}]}
      /\ event.kind = "created" /\ Shown(base, d, event.frn) # {} => e = d
  BY <1>1, ApplyShows
<1>4. \A f \in before : f # event.frn \/ e = d => f \in after
  BY <1>1, NamedParent, OrphansKept
<1>5. k + 1 \in k + 1 .. Len(trees) /\ \A t \in (k - 1) + 1 .. Len(trees) : t = k \/ t \in k + 1 .. Len(trees)
  BY <1>1
<1> SUFFICES ASSUME NEW f \in Files
             PROVE  \E t \in k + 1 .. Len(trees) : \/ Shows(base, e, after, f, trees[t])
                                                   \/ Shows(base, e, {f}, f, trees[t]) /\ Redone(f, k)
  BY DEF Fresh
<1>6. PICK t \in (k - 1) + 1 .. Len(trees) :
        \/ Shows(base, d, before, f, trees[t])
        \/ Shows(base, d, {f}, f, trees[t]) /\ Redone(f, k - 1)
  BY DEF Fresh
<1> HIDE DEF after
<1>7. CASE f # event.frn
  <2>1. \A files : /\ Shows(base, d, before, f, files) => Shows(base, e, after, f, files)
                   /\ Shows(base, d, {f}, f, files) => Shows(base, e, {f}, f, files)
    BY <1>3, <1>4, <1>7 DEF Shows
  <2>2. Redone(f, k - 1) => Redone(f, k)
    <3>1. \A i \in (k - 1) + 1 .. Len(journal) : journal[i].frn = f => i \in k + 1 .. Len(journal)
      BY <1>1, <1>7
    <3> QED  BY <3>1 DEF Redone
  <2>3. CASE t \in k + 1 .. Len(trees)
    BY <1>6, <2>1, <2>2, <2>3
  <2>4. CASE t = k
    <3>1. SameAt(f, k, k + 1)
      BY <1>2, <1>7 DEF EventOK
    <3>2. \A few : Shows(base, e, few, f, trees[k]) => Shows(base, e, few, f, trees[k + 1])
      BY <3>1 DEF SameAt, Shows
    <3> QED  BY <1>5, <1>6, <2>1, <2>2, <2>4, <3>2
  <2> QED  BY <1>5, <2>3, <2>4
<1>8. CASE f = event.frn /\ e = d /\ event.kind = "created" /\ Shown(base, d, f) # {}
  <2>1. \A files : Shows(base, d, before, f, files) => Shows(base, e, after, f, files)
    BY <1>4, <1>8 DEF Shows
  <2>2. t # k
    <3>1. f \notin DOMAIN trees[k]
      BY <1>1, <1>2, <1>8 DEF EventOK
    <3> QED  BY <1>6, <1>8, <3>1 DEF Shows
  <2>3. Redone(f, k - 1) => Redone(f, k)
    <3>1. \A i \in (k - 1) + 1 .. Len(journal) : journal[i].kind # "created" => i \in k + 1 .. Len(journal)
      BY <1>1, <1>8
    <3> QED  BY <3>1 DEF Redone
  <2> QED  BY <1>5, <1>6, <1>8, <2>1, <2>2, <2>3
<1>9. CASE f = event.frn /\ event.kind = "deleted"
  <2>1. Shown(base, e, f) = {} /\ f \notin DOMAIN trees[k + 1]
    BY <1>2, <1>3, <1>9 DEF EventOK
  <2> QED  BY <1>5, <2>1 DEF Shows
<1>10. CASE f = event.frn /\ Shown(base, e, f) = {[name |-> event.name, dirs |-> {event.parent}]}
            /\ event.kind # "deleted"
  <2>1. f \in DOMAIN trees[k + 1] /\ trees[k + 1][f] = [name |-> event.name, parent |-> event.parent]
    BY <1>2, <1>10 DEF EventOK
  <2>2. Shows(base, e, after, f, trees[k + 1])
    BY <1>10, <2>1 DEF Shows
  <2> QED  BY <1>5, <2>2
<1> QED  BY <1>1, <1>3, <1>7, <1>8, <1>9, <1>10

\* Records that an event kills belong to a file that has another one, or is gone.
LEMMA TombsStep ==
  ASSUME Volume, Past, NEW k \in 1 .. Len(journal), NEW d, LayersOK(base, d), TombsOK(base, d, k - 1),
         NEW e \in Apply(d, base, journal[k])
  PROVE  TombsOK(base, e, k)
<1> DEFINE event == journal[k]  f == event.frn
<1>1. /\ Len(journal) \in Nat /\ Len(trees) = Len(journal) + 1 /\ k \in Nat /\ (k - 1) + 1 = k
      /\ event \in Event /\ event.kind \in {"created", "renamed", "deleted"} /\ f \in Files
      /\ k \in 1 .. Len(trees) /\ k + 1 \in 1 .. Len(trees) /\ k <= k + 1 /\ k \in 1 .. k + 1
  BY EventFacts
<1>2. EventOK(k)
  BY DEF Past
<1>3. /\ \A j \in e.tombstones \ d.tombstones : base.recs[j].frn = f
      /\ \A g : g # f => (InDelta(d, g) <=> InDelta(e, g))
      /\ event.kind # "deleted" => e = d \/ InDelta(e, f)
  BY <1>1, NamedParent, ApplyReaches
<1> SUFFICES ASSUME NEW j \in e.tombstones
             PROVE  InDelta(e, base.recs[j].frn) \/ Gone(base.recs[j].frn, k + 1)
  BY DEF TombsOK
<1>4. CASE base.recs[j].frn # f
  <2>1. j \in d.tombstones
    BY <1>3, <1>4
  <2>2. InDelta(d, base.recs[j].frn) \/ Gone(base.recs[j].frn, k)
    BY <1>1, <2>1 DEF TombsOK
  <2>3. Gone(base.recs[j].frn, k) => Gone(base.recs[j].frn, k + 1)
    <3>1. base.recs[j].frn \in Files \/ base.recs[j].frn = Root
      <4>1. j \in DOMAIN base.recs
        BY <2>1 DEF LayersOK, DeltaOK, Deltas
      <4>2. base.recs[j] \in BaseRecord
        BY <4>1 DEF LayersOK, BaseOK
      <4> QED  BY <4>2 DEF BaseRecord
    <3>2. Root \in DOMAIN trees[k]
      <4>1. trees[k] \in Trees
        BY <1>1 DEF Volume
      <4> QED  BY <4>1, TreeFacts
    <3>3. \A g \in Files : Gone(g, k) => Gone(g, k + 1)
      BY <1>1 DEF Past
    <3>4. ~Gone(Root, k)
      BY <3>2 DEF Gone
    <3> QED  BY <3>1, <3>3, <3>4
  <2> QED  BY <1>3, <1>4, <2>2, <2>3
<1>5. CASE base.recs[j].frn = f /\ event.kind = "deleted"
  <2>1. f \in DOMAIN trees[k] /\ f \notin DOMAIN trees[k + 1]
    BY <1>2, <1>5 DEF EventOK
  <2> QED  BY <1>1, <1>5, <2>1 DEF Gone
<1>6. CASE base.recs[j].frn = f /\ event.kind # "deleted"
  <2>1. CASE InDelta(e, f)
    BY <1>6, <2>1
  <2>2. CASE e = d /\ ~InDelta(d, f)
    <3>1. Gone(f, k)
      BY <1>1, <1>6, <2>2 DEF TombsOK
    <3>2. event.kind = "created" => FALSE
      BY <1>2, <3>1 DEF EventOK, Gone
    <3>3. event.kind # "created" => FALSE
      BY <1>2, <3>1 DEF EventOK, Gone
    <3> QED  BY <3>2, <3>3
  <2> QED  BY <1>3, <1>6, <2>1, <2>2
<1> QED  BY <1>4, <1>5, <1>6

\* What an event strands becomes an orphan; what it adds is not stranded.
LEMMA StrandedStep ==
  ASSUME Volume, Past, NEW k \in 1 .. Len(journal), NEW d, LayersOK(base, d), TombsOK(base, d, k - 1),
         NEW e \in Apply(d, base, journal[k]), NEW before
  PROVE  StrandedOK(base, e, OrphansAfter(d, e, before))
<1>1. LayersOK(base, e) /\ \A i \in AddedBy(d, e) : e.added[i].parent \in LiveRecords(base, e)
  BY EventFacts, NamedParent, ApplyShows, ApplyReaches
<1> SUFFICES ASSUME NEW ref \in Stranded(base, e)
             PROVE  Record(base, e, ref).frn \in OrphansAfter(d, e, before)
  BY DEF StrandedOK
<1>2. ref \notin {DeltaRef(i) : i \in AddedBy(d, e)}
  <2> SUFFICES ASSUME NEW i \in AddedBy(d, e), ref = DeltaRef(i) PROVE FALSE
    OBVIOUS
  <2>1. ParentOf(base, e, ref) = {e.added[i].parent}
    BY DEF ParentOf, DeltaRef
  <2> QED  BY <1>1, <2>1 DEF Stranded
<1> QED  BY <1>2 DEF StrandedBy, OrphansAfter

\* Until the events before the snapshot have been dealt with again, a file that
\* the snapshot's base has in the wrong directory has a later event.
BaseOrphans ==
  \A f \in Files :
    \/ \E t \in saved + 1 .. Len(trees) : Shows(base, NewDelta, {}, f, trees[t])
    \/ \E i \in saved + 1 .. Len(journal) : journal[i].frn = f

\* The base alone, as a restart would find it, does not fall behind either. A file
\* ceases to be an orphan when it gets a new record, which a restart would undo:
\* then the replay makes that record again.
LEMMA BaseStep ==
  ASSUME Volume, Past, saved \in 0 .. Len(journal),
         NEW k \in 1 .. Len(journal), k <= saved => BaseOrphans,
         NEW d, LayersOK(base, d), TombsOK(base, d, k - 1),
         NEW e \in Apply(d, base, journal[k]), NEW before, Fresh(base, NewDelta, before, saved)
  PROVE  Fresh(base, NewDelta, OrphansAfter(d, e, before), saved)
<1> DEFINE event == journal[k]
           after == OrphansAfter(d, e, before)
<1>1. /\ Len(journal) \in Nat /\ Len(trees) = Len(journal) + 1 /\ k \in Nat /\ (k - 1) + 1 = k
      /\ event \in Event /\ event.kind \in {"created", "renamed", "deleted"} /\ event.frn \in Files
  BY EventFacts
<1>2. EventOK(k)
  BY DEF Past
<1>3. \A f \in before : f # event.frn \/ e = d => f \in after
  BY <1>1, NamedParent, OrphansKept
<1> SUFFICES ASSUME NEW f \in Files
             PROVE  \E t \in saved + 1 .. Len(trees) :
                      \/ Shows(base, NewDelta, after, f, trees[t])
                      \/ Shows(base, NewDelta, {f}, f, trees[t]) /\ Redone(f, saved)
  BY DEF Fresh
<1>4. PICK t \in saved + 1 .. Len(trees) :
        \/ Shows(base, NewDelta, before, f, trees[t])
        \/ Shows(base, NewDelta, {f}, f, trees[t]) /\ Redone(f, saved)
  BY DEF Fresh
<1> HIDE DEF after
<1>5. CASE Redone(f, saved)
  BY <1>4, <1>5, ShowsMore
<1>6. CASE f # event.frn \/ e = d
  BY <1>3, <1>4, <1>6, ShowsMore
<1>7. CASE ~Redone(f, saved) /\ f = event.frn /\ e # d /\ event.kind # "created"
  <2>1. k <= saved
    BY <1>1, <1>7 DEF Redone
  <2>2. ASSUME NEW i \in saved + 1 .. Len(journal), journal[i].frn = f PROVE FALSE
    <3>1. i \in 1 .. Len(journal) /\ journal[i].kind = "created" /\ k \in 1 .. i
      BY <1>1, <1>7, <2>1, <2>2 DEF Redone
    <3>2. f \notin DOMAIN trees[k]
      BY <2>2, <3>1 DEF Past, EventOK
    <3> QED  BY <1>2, <1>7, <3>2 DEF EventOK
  <2>3. \E u \in saved + 1 .. Len(trees) : Shows(base, NewDelta, {}, f, trees[u])
    BY <2>1, <2>2 DEF BaseOrphans
  <2> QED  BY <2>3, ShowsMore
<1>8. CASE ~Redone(f, saved) /\ f = event.frn /\ e # d /\ event.kind = "created"
  <2>1. Shown(base, d, f) = {}
    BY <1>1, <1>8, ApplyShows
  <2>2. ~InDelta(d, f) /\ ~InBase(base, d, f)
    BY <2>1, PresentIsShown
  <2>3. f \notin DOMAIN base.frns
    <3>1. ASSUME f \in DOMAIN base.frns PROVE FALSE
      <4>1. base.frns[f] \in d.tombstones /\ base.recs[base.frns[f]].frn = f
        BY <2>2, <3>1 DEF InBase, LayersOK, Exact
      <4>2. Gone(f, k)
        BY <1>1, <2>2, <4>1 DEF TombsOK
      <4> QED  BY <1>2, <1>8, <4>2 DEF EventOK, Gone
    <3> QED  BY <3>1
  <2>4. Shown(base, NewDelta, f) = {}
    <3>1. LayersOK(base, NewDelta)
      BY EmptyDelta DEF LayersOK
    <3>2. ~InDelta(NewDelta, f) /\ ~InBase(base, NewDelta, f)
      BY <2>3 DEF InDelta, InBase, NewDelta
    <3> QED  BY <3>1, <3>2, ShownIs
  <2> QED  BY <1>4, <1>8, <2>4 DEF Shows
<1> QED  BY <1>5, <1>6, <1>7, <1>8

-----------------------------------------------------------------------------
(* A batch. *)

\* What is true of a view, and of the base alone, when the events up to a
\* position have been applied.
Kept(s, k) ==
  /\ LayersOK(base, s.delta) /\ TombsOK(base, s.delta, k)
  /\ Fresh(base, s.delta, s.orphans, k)
  /\ StrandedOK(base, s.delta, s.orphans)
  /\ Fresh(base, NewDelta, s.orphans, saved)

\* An event keeps it.
LEMMA EventKeeps ==
  ASSUME Volume, Past, saved \in 0 .. Len(journal),
         NEW k \in 1 .. Len(journal), k <= saved => BaseOrphans,
         NEW done, \A s \in done : Kept(s, k - 1), NEW t \in ApplyEach(done, journal[k])
  PROVE  Kept(t, k)
<1> DEFINE After(s, d) == [ delta   |-> d,
                            orphans |-> (s.orphans \ {d.added[i].frn : i \in AddedBy(s.delta, d)})
                                          \cup StrandedBy(s.delta, d) ]
<1>1. PICK s \in done : t \in {After(s, d) : d \in Apply(s.delta, base, journal[k])}
  BY DEF ApplyEach
<1>2. PICK d \in Apply(s.delta, base, journal[k]) : t = After(s, d)
  BY <1>1
<1>3. t.delta = d /\ t.orphans = OrphansAfter(s.delta, d, s.orphans)
  BY <1>2 DEF OrphansAfter
<1>4. Kept(s, k - 1)
  OBVIOUS
<1>5. LayersOK(base, s.delta) /\ TombsOK(base, s.delta, k - 1)
  BY <1>4 DEF Kept
<1>6. LayersOK(base, d)
  BY <1>2, <1>5, EventFacts, ApplyShows
<1>7. TombsOK(base, d, k)
  BY <1>2, <1>5, TombsStep
<1>8. Fresh(base, d, OrphansAfter(s.delta, d, s.orphans), k)
  BY <1>2, <1>4, <1>5, FreshStep DEF Kept
<1>9. StrandedOK(base, d, OrphansAfter(s.delta, d, s.orphans))
  BY <1>2, <1>5, StrandedStep
<1>10. Fresh(base, NewDelta, OrphansAfter(s.delta, d, s.orphans), saved)
  BY <1>2, <1>4, <1>5, BaseStep DEF Kept
<1> QED  BY <1>3, <1>6, <1>7, <1>8, <1>9, <1>10 DEF Kept

\* So does a batch that follows on what has been applied.
LEMMA BatchKeeps ==
  ASSUME Volume, Past, saved \in 0 .. Len(journal),
         NEW m \in 0 .. Len(journal), m < saved => BaseOrphans, NEW last \in m .. Len(journal),
         NEW first, Kept([delta |-> first, orphans |-> orphans], m),
         NEW t \in ApplyAll(first, SubSeq(journal, m + 1, last))
  PROVE  Kept(t, last)
<1> DEFINE events == SubSeq(journal, m + 1, last)
           n == last - m
<1>1. Len(journal) \in Nat /\ journal \in Seq(Event)
  BY DEF Volume
<1>2. n \in Nat /\ Len(events) = n /\ \A k \in 1 .. n : events[k] = journal[m + k]
  <2>1. m + 1 \in 1 .. Len(journal) + 1 /\ last \in 0 .. Len(journal) /\ n \in Nat
    BY <1>1
  <2>2. Len(events) = n /\ \A k \in 1 .. n : events[k] = journal[(m + 1) + k - 1]
    BY <1>1, <2>1
  <2> QED  BY <1>1, <2>1, <2>2
<1> HIDE DEF events, n
<1>3. PICK g : IsRun(g, first, events, n) /\ ApplyAll(first, events) = g[n]
  <2> DEFINE g == CHOOSE h : IsRun(h, first, events, n)
  <2>1. IsRun(g, first, events, n)
    BY <1>2, RunExists
  <2>2. ApplyAll(first, events) = g[n]
    BY <1>2 DEF ApplyAll, IsRun
  <2> QED  BY <2>1, <2>2
<1> DEFINE S == {k \in Nat : k <= n => \A s \in g[k] : Kept(s, m + k)}
<1>4. 0 \in S
  <2>1. g[0] = {[delta |-> first, orphans |-> orphans]}
    BY <1>2, <1>3 DEF IsRun
  <2> QED  BY <2>1
<1>5. ASSUME NEW k \in Nat, k \in S PROVE k + 1 \in S
  <2> SUFFICES ASSUME k + 1 <= n PROVE \A s \in g[k + 1] : Kept(s, m + (k + 1))
    OBVIOUS
  <2> DEFINE value(j) == IF j = 0 THEN {[delta |-> first, orphans |-> orphans]}
                         ELSE ApplyEach(g[j - 1], events[j])
  <2>1. k + 1 \in 0 .. n /\ k + 1 \in 1 .. n /\ k + 1 # 0 /\ (k + 1) - 1 = k
    BY <1>2
  <2>2. g[k + 1] = ApplyEach(g[k], journal[m + (k + 1)])
    <3>1. g = [j \in 0 .. n |-> value(j)]
      BY <1>3 DEF IsRun
    <3> HIDE DEF value
    <3>2. g[k + 1] = value(k + 1)
      BY <3>1, <2>1
    <3> QED  BY <3>2, <2>1, <1>2 DEF value
  <2>3. \A s \in g[k] : Kept(s, (m + (k + 1)) - 1)
    <3>1. (m + (k + 1)) - 1 = m + k
      OBVIOUS
    <3> QED  BY <1>2, <1>5, <3>1
  <2>4. m + (k + 1) \in 1 .. Len(journal) /\ (m + (k + 1) <= saved => BaseOrphans)
    <3>1. m + (k + 1) <= m + n /\ m + n = last /\ m < m + (k + 1)
      BY <1>2 DEF n
    <3> QED  BY <1>1, <3>1
  <2> HIDE DEF value
  <2> QED  BY <2>2, <2>3, <2>4, EventKeeps
<1> HIDE DEF S
<1>6. n \in S
  BY <1>2, <1>4, <1>5, NatSetInduction
<1>7. m + n = last
  BY DEF n
<1>8. t \in g[n]
  BY <1>3 DEF events
<1>9. \A s \in g[n] : Kept(s, m + n)
  BY <1>2, <1>6 DEF S
<1> QED  BY <1>7, <1>8, <1>9

-----------------------------------------------------------------------------
(* What a new base shows. *)

\* A base by itself is in order, and nothing in it is stranded.
LEMMA BaseAlone ==
  ASSUME NEW b, BaseOK(b), Exact(b)
  PROVE  /\ LayersOK(b, NewDelta) /\ Stranded(b, NewDelta) = {}
         /\ \A f : f \in DOMAIN b.frns => Shown(b, NewDelta, f) = {BaseShows(b, b.frns[f])}
         /\ \A f : f \notin DOMAIN b.frns => Shown(b, NewDelta, f) = {}
<1>1. LayersOK(b, NewDelta)
  BY EmptyDelta DEF LayersOK
<1>2. \A f : ~InDelta(NewDelta, f) /\ (InBase(b, NewDelta, f) <=> f \in DOMAIN b.frns)
  BY DEF InDelta, InBase, NewDelta
<1>3. Stranded(b, NewDelta) = {}
  <2> SUFFICES ASSUME NEW ref \in LiveRecords(b, NewDelta), NEW p \in ParentOf(b, NewDelta, ref)
               PROVE  p \in LiveRecords(b, NewDelta)
    BY DEF Stranded
  <2>1. LiveBase(b, NewDelta) = DOMAIN b.recs /\ LiveAdded(NewDelta) = {}
    BY DEF LiveBase, LiveAdded, NewDelta
  <2>2. PICK i \in DOMAIN b.recs : ref = BaseRef(i)
    BY <2>1 DEF LiveRecords
  <2>3. p = BaseRef(b.recs[i].parent) /\ b.recs[i].parent # PARENT_NONE
    BY <2>2 DEF ParentOf, BaseRef
  <2>4. b.recs[i].parent \in DOMAIN b.recs
    BY <2>3 DEF BaseOK
  <2> QED  BY <2>1, <2>3, <2>4 DEF LiveRecords
<1> QED  BY <1>1, <1>2, <1>3, ShownIs

\* An enumeration's base shows each file as it was met, in the root if its
\* directory was not.
LEMMA EnumerationShows ==
  ASSUME NEW seen, Enumeration(seen), NEW b, b = BuildBase(seen), NEW f \in Files
  PROVE  /\ f \notin DOMAIN seen => Shown(b, NewDelta, f) = {}
         /\ f \in DOMAIN seen =>
              Shown(b, NewDelta, f) =
                {[name |-> seen[f].name, dirs |-> {IF seen[f].parent \in DOMAIN seen THEN seen[f].parent ELSE Root}]}
<1>1. /\ BaseOK(b) /\ Exact(b) /\ DOMAIN b.frns = DOMAIN seen
      /\ \A g \in DOMAIN seen :
           /\ b.recs[b.frns[g]].name = seen[g].name
           /\ b.recs[b.frns[g]].parent =
                IF g = Root THEN PARENT_NONE
                ELSE b.frns[IF seen[g].parent \in DOMAIN seen THEN seen[g].parent ELSE Root]
  BY BuiltBase
<1>2. CASE f \notin DOMAIN seen
  BY <1>1, <1>2, BaseAlone
<1>3. CASE f \in DOMAIN seen
  <2> DEFINE p == IF seen[f].parent \in DOMAIN seen THEN seen[f].parent ELSE Root
  <2>1. p \in DOMAIN seen
    BY DEF Enumeration
  <2> HIDE DEF p
  <2>2. f # Root
    BY FilesAssumption
  <2>3. b.recs[b.frns[f]].parent = b.frns[p] /\ b.recs[b.frns[f]].name = seen[f].name
    BY <1>1, <1>3, <2>2 DEF p
  <2>4. b.recs[b.frns[p]].frn = p
    BY <1>1, <2>1 DEF Exact
  <2>5. b.frns[p] # PARENT_NONE
    BY <1>1, <2>1 DEF BaseOK, PARENT_NONE
  <2>6. BaseShows(b, b.frns[f]) = [name |-> seen[f].name, dirs |-> {p}]
    BY <2>3, <2>4, <2>5 DEF BaseShows
  <2>7. Shown(b, NewDelta, f) = {BaseShows(b, b.frns[f])}
    BY <1>1, <1>3, BaseAlone
  <2> QED  BY <1>3, <2>6, <2>7 DEF p
<1> QED  BY <1>2, <1>3

\* A record has one parent or none.
LEMMA OneParent ==
  ASSUME NEW b, NEW d, NEW ref, NEW p \in ParentOf(b, d, ref)
  PROVE  ParentOf(b, d, ref) = {p}
BY DEF ParentOf

\* Without equal names, a record gets the place of its parent if that is live,
\* and none if it is not.
LEMMA PatchedLive ==
  ASSUME NEW b, NEW d, LayersOK(b, d), ~Ties(b, d), NEW ref \in LiveRecords(b, d)
  PROVE  LET parents == ParentOf(b, d, ref) \cap LiveRecords(b, d)
         IN  /\ \A p \in parents : PatchedParent(b, d, Places(b, d)[ref]) = Places(b, d)[p]
             /\ parents = {} => PatchedParent(b, d, Places(b, d)[ref]) = PARENT_NONE
<1> DEFINE P == Places(b, d)
           L == LiveRecords(b, d)
           place == P[ref]
           Added == {j \in LiveAdded(d) : FinalIndexOfDelta(b, d, j) = place}
           Old   == {j \in LiveBase(b, d) : FinalIndexOfBase(b, d, j) = place}
           added == UNION {FinalParent(b, d, DeltaRef(j)) : j \in Added}
           old   == UNION {FinalParent(b, d, BaseRef(j)) : j \in Old}
           parents == ParentOf(b, d, ref) \cap L
<1>1. /\ \A i \in LiveBase(b, d) : BaseRef(i) \in L /\ P[BaseRef(i)] = FinalIndexOfBase(b, d, i)
      /\ \A i \in LiveAdded(d) : DeltaRef(i) \in L /\ P[DeltaRef(i)] = FinalIndexOfDelta(b, d, i)
  BY FinalPlaces DEF LayersOK
<1>2. \A p, q \in L : P[p] = P[q] => p = q
  <2>1. P \in Bijection(L, 1 .. Cardinality(L))
    BY FinalPlaces DEF LayersOK
  <2> QED  BY <2>1 DEF Bijection, Injection, IsInjective
<1>3. PatchedParent(b, d, place) =
        CHOOSE p \in IF added # {} THEN added ELSE IF old # {} THEN old ELSE {PARENT_NONE} : TRUE
  BY DEF PatchedParent
<1>4. FinalParent(b, d, ref) = {P[p] : p \in parents}
  <2>1. ASSUME NEW p \in L
        PROVE  (IF p[1] = "base" THEN FinalIndexOfBase(b, d, p[2]) ELSE FinalIndexOfDelta(b, d, p[2])) = P[p]
    <3>1. \/ p[1] = "base" /\ p[2] \in LiveBase(b, d) /\ p = BaseRef(p[2])
          \/ p[1] = "delta" /\ p[2] \in LiveAdded(d) /\ p = DeltaRef(p[2])
      BY LiveRefs DEF LayersOK
    <3> HIDE DEF P, L
    <3> QED  BY <1>1, <3>1
  <2> HIDE DEF P
  <2> QED  BY <2>1 DEF FinalParent
<1>5. \/ \E i \in LiveBase(b, d) : ref = BaseRef(i)
      \/ \E i \in LiveAdded(d) : ref = DeltaRef(i)
  BY DEF LiveRecords
<1> HIDE DEF P, L
<1>6. added \cup old = FinalParent(b, d, ref) /\ (added = {} \/ old = {})
  <2>1. CASE \E i \in LiveBase(b, d) : ref = BaseRef(i)
    <3>1. PICK i \in LiveBase(b, d) : ref = BaseRef(i)
      BY <2>1
    <3>2. Added = {}
      BY <1>1, <1>2, <3>1 DEF BaseRef, DeltaRef
    <3>3. Old = {i}
      BY <1>1, <1>2, <3>1 DEF BaseRef
    <3> HIDE DEF Added, Old
    <3> QED  BY <3>1, <3>2, <3>3
  <2>2. CASE \E i \in LiveAdded(d) : ref = DeltaRef(i)
    <3>1. PICK i \in LiveAdded(d) : ref = DeltaRef(i)
      BY <2>2
    <3>2. Old = {}
      BY <1>1, <1>2, <3>1 DEF BaseRef, DeltaRef
    <3>3. Added = {i}
      BY <1>1, <1>2, <3>1 DEF DeltaRef
    <3> HIDE DEF Added, Old
    <3> QED  BY <3>1, <3>2, <3>3
  <2> QED  BY <1>5, <2>1, <2>2
<1> HIDE DEF added, old, place
<1>7. ASSUME NEW p \in parents PROVE PatchedParent(b, d, place) = P[p]
  <2>1. parents = {p}
    BY OneParent
  <2>2. FinalParent(b, d, ref) = {P[p]}
    BY <1>4, <2>1
  <2>3. (IF added # {} THEN added ELSE IF old # {} THEN old ELSE {PARENT_NONE}) = {P[p]}
    BY <1>6, <2>2
  <2> QED  BY <1>3, <2>3
<1>8. ASSUME parents = {} PROVE PatchedParent(b, d, place) = PARENT_NONE
  <2>1. FinalParent(b, d, ref) = {}
    BY <1>4, <1>8
  <2>2. (IF added # {} THEN added ELSE IF old # {} THEN old ELSE {PARENT_NONE}) = {PARENT_NONE}
    BY <1>6, <2>1
  <2> QED  BY <1>3, <2>2
<1> QED  BY <1>7, <1>8 DEF place, P, L

\* A compaction shows what the view showed, except for the directories of what
\* was stranded.
LEMMA CompactedShows ==
  ASSUME NEW b, NEW d, LayersOK(b, d), ~Ties(b, d), NEW c, c = Compacted(b, d), NEW f
  PROVE  /\ Shown(b, d, f) = {} => Shown(c, NewDelta, f) = {}
         /\ \A e \in Shown(b, d, f) :
              \E e2 \in Shown(c, NewDelta, f) :
                /\ Shown(c, NewDelta, f) = {e2} /\ e2.name = e.name
                /\ e2.dirs = e.dirs \/ \E ref \in Stranded(b, d) : Record(b, d, ref).frn = f
<1> DEFINE L  == LiveRecords(b, d)
           P  == Places(b, d)
           at == AntiFunction(P)
           n  == Cardinality(L)
<1>1. /\ DOMAIN c.recs = 1 .. n
      /\ c.recs = [place \in 1 .. n |-> [ frn |-> Record(b, d, at[place]).frn,
                                          name |-> Record(b, d, at[place]).name,
                                          parent |-> PatchedParent(b, d, place) ]]
      /\ \A place \in 1 .. n : at[place] \in L
      /\ \A ref \in L : P[ref] \in 1 .. n /\ at[P[ref]] = ref
  BY MergedRecords DEF LayersOK
<1>2. BaseOK(c) /\ Exact(c)
  BY CompactedOK, CompactedExact DEF LayersOK
<1> HIDE DEF L, P, at, n
<1>3. \A ref \in L : /\ P[ref] \in DOMAIN c.recs
                     /\ c.recs[P[ref]].frn = Record(b, d, ref).frn
                     /\ c.recs[P[ref]].name = Record(b, d, ref).name
                     /\ c.recs[P[ref]].parent = PatchedParent(b, d, P[ref])
  BY <1>1
<1>4. \A place \in DOMAIN c.recs : at[place] \in L /\ c.recs[place].frn = Record(b, d, at[place]).frn
  BY <1>1
<1>5. ASSUME Shown(b, d, f) = {} PROVE Shown(c, NewDelta, f) = {}
  <2>1. RecordsOf(b, d, f) = {}
    BY <1>5 DEF Shown
  <2>2. f \notin DOMAIN c.frns
    <3>1. ASSUME f \in DOMAIN c.frns PROVE FALSE
      <4>1. c.frns[f] \in DOMAIN c.recs /\ c.recs[c.frns[f]].frn = f
        BY <1>2, <3>1 DEF BaseOK, Exact
      <4>2. at[c.frns[f]] \in RecordsOf(b, d, f)
        BY <1>4, <4>1 DEF RecordsOf, L
      <4> QED  BY <2>1, <4>2
    <3> QED  BY <3>1
  <2> QED  BY <1>2, <2>2, BaseAlone
<1>6. ASSUME NEW e \in Shown(b, d, f)
      PROVE  \E e2 \in Shown(c, NewDelta, f) :
               /\ Shown(c, NewDelta, f) = {e2} /\ e2.name = e.name
               /\ e2.dirs = e.dirs \/ \E ref \in Stranded(b, d) : Record(b, d, ref).frn = f
  <2>1. PICK ref \in RecordsOf(b, d, f) : e = [name |-> Record(b, d, ref).name, dirs |-> DirsOf(b, d, ref)]
    BY DEF Shown
  <2>2. ref \in L /\ Record(b, d, ref).frn = f
    BY DEF RecordsOf, L
  <2> DEFINE place == P[ref]
             e2 == BaseShows(c, place)
  <2>3. /\ place \in DOMAIN c.recs /\ c.recs[place].frn = f /\ c.recs[place].name = Record(b, d, ref).name
        /\ c.recs[place].parent = PatchedParent(b, d, place)
    BY <1>3, <2>2
  <2> HIDE DEF place
  <2>4. f \in DOMAIN c.frns /\ c.frns[f] = place
    BY <1>2, <2>3 DEF Exact
  <2>5. Shown(c, NewDelta, f) = {e2}
    BY <1>2, <2>4, BaseAlone
  <2>6. e2.name = e.name /\ e2.dirs = {c.recs[p].frn : p \in {PatchedParent(b, d, place)} \ {PARENT_NONE}}
    BY <2>1, <2>3 DEF BaseShows
  <2>7. ASSUME ref \notin Stranded(b, d) PROVE e2.dirs = e.dirs
    <3>1. ParentOf(b, d, ref) \subseteq L
      BY <2>2, <2>7 DEF Stranded, L
    <3>2. CASE \E p : p \in ParentOf(b, d, ref)
      <4>1. PICK p : p \in ParentOf(b, d, ref)
        BY <3>2
      <4>2. ParentOf(b, d, ref) = {p} /\ p \in L
        BY <3>1, <4>1, OneParent
      <4>3. PatchedParent(b, d, place) = P[p]
        BY <2>2, <4>2, PatchedLive DEF place, P, L
      <4>4. c.recs[P[p]].frn = Record(b, d, p).frn /\ P[p] # PARENT_NONE
        <5>1. PARENT_NONE \notin DOMAIN c.recs
          BY <1>2 DEF BaseOK, PARENT_NONE
        <5> QED  BY <1>3, <4>2, <5>1
      <4>5. e2.dirs = {Record(b, d, p).frn}
        BY <2>6, <4>3, <4>4
      <4>6. e.dirs = {Record(b, d, p).frn}
        BY <2>1, <4>2 DEF DirsOf
      <4> QED  BY <4>5, <4>6
    <3>3. CASE ParentOf(b, d, ref) = {}
      <4>1. PatchedParent(b, d, place) = PARENT_NONE
        BY <2>2, <3>3, PatchedLive DEF place, P, L
      <4>2. e2.dirs = {}
        BY <2>6, <4>1
      <4>3. e.dirs = {}
        BY <2>1, <3>3 DEF DirsOf
      <4> QED  BY <4>2, <4>3
    <3> QED  BY <3>2, <3>3
  <2> HIDE DEF e2
  <2> QED  BY <2>2, <2>5, <2>6, <2>7
<1> QED  BY <1>5, <1>6

-----------------------------------------------------------------------------
(* The inductive invariant. *)

\* The view and the base alone have kept up with the positions they claim, and
\* these are in order: only right after a rebuild may the snapshot's be ahead of
\* what has been applied.
Converging ==
  /\ Past
  /\ next_usn = saved \/ next_usn <= pos
  /\ scan # NoScan => pos <= scan
  /\ defects = {} => Fresh(base, NewDelta, orphans, saved) /\ (pos < saved => BaseOrphans)
  /\ Sound => Kept([delta |-> delta, orphans |-> orphans], pos)

\* What it says of a sound view.
LEMMA KeptView ==
  Kept([delta |-> delta, orphans |-> orphans], pos) <=>
    /\ LayersOK(base, delta) /\ TombsOK(base, delta, pos)
    /\ Fresh(base, delta, orphans, pos)
    /\ StrandedOK(base, delta, orphans)
    /\ Fresh(base, NewDelta, orphans, saved)
BY DEF Kept

\* A base alone has kept up with the position it is fresh since.
LEMMA KeptBase ==
  ASSUME BaseOK(base), Exact(base), Fresh(base, NewDelta, orphans, saved)
  PROVE  Kept([delta |-> NewDelta, orphans |-> orphans], saved)
<1>1. LayersOK(base, NewDelta) /\ Stranded(base, NewDelta) = {}
  BY BaseAlone
<1>2. TombsOK(base, NewDelta, saved)
  BY DEF TombsOK, NewDelta
<1> QED  BY <1>1, <1>2 DEF Kept, StrandedOK

\* An event that says what has changed, and of a file that can change that way.
Reports(event, after) ==
  LET f == event.frn
  IN  /\ \A g \in Files \ {f} : /\ g \in DOMAIN tree <=> g \in DOMAIN after
                                /\ g \in DOMAIN tree => after[g] = tree[g]
      /\ event.kind = "created" => \A k \in 1 .. Len(trees) : f \notin DOMAIN trees[k]
      /\ event.kind # "created" => f \in DOMAIN tree
      /\ event.kind = "deleted" => f \notin DOMAIN after
      /\ event.kind # "deleted" =>
           /\ f \in DOMAIN after /\ event.parent \in DOMAIN tree \ {f}
           /\ after[f] = [name |-> event.name, parent |-> event.parent]
      /\ \A g \in DOMAIN after : after[g].parent \in DOMAIN after

\* The past grows by such an event.
LEMMA PastGrows ==
  ASSUME Inv, Past, NEW event \in Event, NEW after \in Trees, Journaled(event, after), Reports(event, after)
  PROVE  /\ Past'
         /\ Len(journal') = Len(journal) + 1 /\ Len(trees') = Len(trees) + 1
         /\ \A i \in 1 .. Len(journal) : journal'[i] = journal[i]
         /\ \A t \in 1 .. Len(trees) : trees'[t] = trees[t]
<1> DEFINE n == Len(trees)
<1>1. /\ journal \in Seq(Event) /\ trees \in Seq(Trees) /\ n = Len(journal) + 1 /\ Len(journal) \in Nat
      /\ tree = trees[n]
  BY DEF Inv, Volume
<1>2. /\ journal' = Append(journal, event) /\ trees' = Append(trees, after)
  BY DEF Journaled
<1>3. /\ Len(journal') = n /\ Len(trees') = n + 1
      /\ \A i \in 1 .. n - 1 : journal'[i] = journal[i]
      /\ journal'[n] = event
      /\ \A t \in 1 .. n : trees'[t] = trees[t]
      /\ trees'[n + 1] = after
  BY <1>1, <1>2
<1> HIDE DEF n
<1>4. n \in Nat \ {0} /\ Len(journal) = n - 1
  BY <1>1
<1>5. \A f \in Files : Gone(f, n) => f \notin DOMAIN after
  <2> SUFFICES ASSUME NEW f \in Files, Gone(f, n), f \in DOMAIN after PROVE FALSE
    OBVIOUS
  <2>1. f \notin DOMAIN tree /\ \E k \in 1 .. n : f \in DOMAIN trees[k]
    BY <1>1 DEF Gone
  <2> QED  BY <2>1 DEF Reports, n
<1>6. ASSUME NEW i \in 1 .. n PROVE EventOK(i)'
  <2>1. CASE i \in 1 .. n - 1
    <3>1. EventOK(i)
      BY <1>4, <2>1 DEF Past
    <3>2. /\ journal'[i] = journal[i] /\ trees'[i] = trees[i] /\ trees'[i + 1] = trees[i + 1]
          /\ \A k \in 1 .. i : trees'[k] = trees[k]
      BY <1>3, <1>4, <2>1
    <3> QED  BY <3>1, <3>2 DEF EventOK, SameAt
  <2>2. CASE i = n
    <3>1. /\ journal'[i] = event /\ trees'[i] = tree /\ trees'[i + 1] = after
          /\ \A k \in 1 .. i : trees'[k] = trees[k]
      BY <1>1, <1>3, <1>4, <2>2
    <3> QED  BY <2>2, <3>1 DEF EventOK, SameAt, Reports, n
  <2> QED  BY <1>4, <2>1, <2>2
<1>7. ASSUME NEW t \in 1 .. n + 1, NEW u \in 1 .. n + 1, NEW f \in Files, t <= u, Gone(f, t)'
      PROVE  Gone(f, u)'
  <2>1. f \notin DOMAIN trees'[t] /\ \E k \in 1 .. t : f \in DOMAIN trees'[k]
    BY <1>7 DEF Gone
  <2>2. CASE t = n + 1
    <3>1. u = t
      BY <1>4, <1>7, <2>2
    <3> QED  BY <1>7, <3>1
  <2>3. CASE t # n + 1
    <3>1. t \in 1 .. n /\ \A k \in 1 .. t : k \in 1 .. n
      BY <1>4, <2>3
    <3>2. Gone(f, t)
      BY <1>3, <2>1, <3>1 DEF Gone
    <3>3. \A v \in 1 .. n : t <= v => Gone(f, v)
      BY <3>1, <3>2 DEF Past, n
    <3>4. f \notin DOMAIN trees'[u]
      <4>1. CASE u = n + 1
        <5>1. n \in 1 .. n /\ t <= n
          BY <1>4, <3>1
        <5> QED  BY <1>3, <1>5, <3>3, <4>1, <5>1
      <4>2. CASE u \in 1 .. n
        BY <1>3, <1>7, <3>3, <4>2 DEF Gone
      <4> QED  BY <1>4, <4>1, <4>2
    <3>5. \A k \in 1 .. t : k \in 1 .. u
      BY <1>4, <1>7
    <3> QED  BY <2>1, <3>4, <3>5 DEF Gone
  <2> QED  BY <2>2, <2>3
<1>8. ASSUME NEW t \in 1 .. n + 1, NEW f \in DOMAIN trees'[t] PROVE trees'[t][f].parent \in DOMAIN trees'[t]
  <2>1. CASE t = n + 1
    BY <1>3, <1>8, <2>1 DEF Reports
  <2>2. CASE t \in 1 .. n
    BY <1>3, <1>8, <2>2 DEF Past, n
  <2> QED  BY <1>4, <2>1, <2>2
<1>9. Past'
  BY <1>3, <1>6, <1>7, <1>8 DEF Past
<1> QED  BY <1>3, <1>4, <1>9 DEF n

\* A change to the volume puts nothing behind that was not.
LEMMA JournaledConverges ==
  ASSUME Inv, Converging, NEW event \in Event, NEW after \in Trees, Journaled(event, after),
         Reports(event, after)
  PROVE  Converging'
<1>1. /\ Past'
      /\ Len(journal') = Len(journal) + 1 /\ Len(trees') = Len(trees) + 1
      /\ \A i \in 1 .. Len(journal) : journal'[i] = journal[i]
      /\ \A t \in 1 .. Len(trees) : trees'[t] = trees[t]
  BY PastGrows DEF Converging
<1>2. UNCHANGED <<pos, base, delta, next_usn, saved, scan, orphans, defects>>
  BY DEF Journaled
<1>3. /\ Len(journal) \in Nat /\ Len(trees) = Len(journal) + 1
      /\ pos \in 0 .. Len(journal) /\ saved \in 0 .. Len(journal)
  BY DEF Inv, Volume, Positions
<1>4. ASSUME NEW from \in 0 .. Len(journal)
      PROVE  /\ \A i \in from + 1 .. Len(journal) : i \in from + 1 .. Len(journal') /\ journal'[i] = journal[i]
             /\ \A t \in from + 1 .. Len(trees) : t \in from + 1 .. Len(trees') /\ trees'[t] = trees[t]
             /\ from + 1 \in 1 .. Len(trees) /\ \A k \in 1 .. from + 1 : trees'[k] = trees[k]
  BY <1>1, <1>3
<1>5. ASSUME Fresh(base, NewDelta, orphans, saved)
      PROVE  Fresh(base, NewDelta, orphans, saved)'
  <2> SUFFICES ASSUME NEW f \in Files
               PROVE  \E t \in saved + 1 .. Len(trees') :
                        \/ Shows(base, NewDelta, orphans, f, trees'[t])
                        \/ /\ Shows(base, NewDelta, {f}, f, trees'[t])
                           /\ \E i \in saved + 1 .. Len(journal') :
                                journal'[i].frn = f /\ journal'[i].kind # "created"
    BY <1>2 DEF Fresh, Redone
  <2>1. PICK t \in saved + 1 .. Len(trees) :
          \/ Shows(base, NewDelta, orphans, f, trees[t])
          \/ Shows(base, NewDelta, {f}, f, trees[t]) /\ Redone(f, saved)
    BY <1>5 DEF Fresh
  <2>2. t \in saved + 1 .. Len(trees') /\ trees'[t] = trees[t]
    BY <1>3, <1>4
  <2>3. Redone(f, saved) => \E i \in saved + 1 .. Len(journal') :
                               journal'[i].frn = f /\ journal'[i].kind # "created"
    BY <1>3, <1>4 DEF Redone
  <2> QED  BY <2>1, <2>2, <2>3
<1>6. ASSUME Fresh(base, delta, orphans, pos)
      PROVE  Fresh(base, delta, orphans, pos)'
  <2> SUFFICES ASSUME NEW f \in Files
               PROVE  \E t \in pos + 1 .. Len(trees') :
                        \/ Shows(base, delta, orphans, f, trees'[t])
                        \/ /\ Shows(base, delta, {f}, f, trees'[t])
                           /\ \E i \in pos + 1 .. Len(journal') :
                                journal'[i].frn = f /\ journal'[i].kind # "created"
    BY <1>2 DEF Fresh, Redone
  <2>1. PICK t \in pos + 1 .. Len(trees) :
          \/ Shows(base, delta, orphans, f, trees[t])
          \/ Shows(base, delta, {f}, f, trees[t]) /\ Redone(f, pos)
    BY <1>6 DEF Fresh
  <2>2. t \in pos + 1 .. Len(trees') /\ trees'[t] = trees[t]
    BY <1>3, <1>4
  <2>3. Redone(f, pos) => \E i \in pos + 1 .. Len(journal') :
                               journal'[i].frn = f /\ journal'[i].kind # "created"
    BY <1>3, <1>4 DEF Redone
  <2> QED  BY <2>1, <2>2, <2>3
<1>7. BaseOrphans => BaseOrphans'
  BY <1>2, <1>3, <1>4 DEF BaseOrphans
<1>8. ASSUME TombsOK(base, delta, pos) PROVE TombsOK(base, delta, pos)'
  <2>1. pos + 1 \in 1 .. pos + 1 /\ \A k \in 1 .. pos + 1 : trees'[k] = trees[k]
    BY <1>3, <1>4
  <2>2. \A g : Gone(g, pos + 1) => g \notin DOMAIN trees'[pos + 1] /\ \E k \in 1 .. pos + 1 : g \in DOMAIN trees'[k]
    BY <2>1 DEF Gone
  <2> QED  BY <1>2, <1>8, <2>2 DEF TombsOK, Gone, InDelta
<1>9. Sound' => Kept([delta |-> delta, orphans |-> orphans], pos)'
  <2> SUFFICES ASSUME Sound' PROVE Kept([delta |-> delta, orphans |-> orphans], pos)'
    OBVIOUS
  <2>1. Sound
    BY <1>2 DEF Sound
  <2>2. /\ LayersOK(base, delta) /\ TombsOK(base, delta, pos)
        /\ Fresh(base, delta, orphans, pos)
        /\ StrandedOK(base, delta, orphans)
        /\ Fresh(base, NewDelta, orphans, saved)
    BY <2>1, KeptView DEF Converging
  <2>3. LayersOK(base, delta)' /\ StrandedOK(base, delta, orphans)'
    BY <1>2, <2>2
  <2> QED  BY <1>5, <1>6, <1>8, <2>2, <2>3 DEF Kept
<1> QED  BY <1>1, <1>2, <1>5, <1>7, <1>9 DEF Converging

\* The walk of Ancestry, up from a file.
IsWalk(up, files, f, n) ==
  up = [k \in 0 .. n |-> IF k = 0 THEN {f} ELSE up[k - 1] \cup {files[g].parent : g \in up[k - 1]}]

\* There is a walk, of any length.
LEMMA WalkExists ==
  ASSUME NEW files, NEW f, NEW n \in Nat
  PROVE  \E up : IsWalk(up, files, f, n)
<1> DEFINE S == {m \in Nat : \E g : IsWalk(g, files, f, m)}
<1>1. 0 \in S
  <2> DEFINE g == [k \in 0 .. 0 |-> {f}]
  <2>1. IsWalk(g, files, f, 0)
    BY DEF IsWalk
  <2> QED  BY <2>1
<1>2. ASSUME NEW m \in Nat, m \in S PROVE m + 1 \in S
  <2>1. PICK g : IsWalk(g, files, f, m)
    BY <1>2
  <2> DEFINE next(up) == up \cup {files[x].parent : x \in up}
             h == [k \in 0 .. m + 1 |-> IF k = m + 1 THEN next(g[m]) ELSE g[k]]
             r == [k \in 0 .. m + 1 |-> IF k = 0 THEN {f} ELSE next(h[k - 1])]
  <2>2. ASSUME NEW k \in 0 .. m + 1 PROVE h[k] = r[k]
    <3>1. CASE k = m + 1
      BY <3>1
    <3>2. CASE k # m + 1
      <4>1. k \in 0 .. m /\ (k # 0 => k - 1 \in 0 .. m + 1 /\ k - 1 # m + 1)
        BY <3>2
      <4>2. h[k] = g[k] /\ (k # 0 => h[k - 1] = g[k - 1])
        BY <3>2, <4>1
      <4>3. g[k] = IF k = 0 THEN {f} ELSE next(g[k - 1])
        BY <2>1, <4>1 DEF IsWalk
      <4> HIDE DEF h, next
      <4>4. r[k] = IF k = 0 THEN {f} ELSE next(h[k - 1])
        OBVIOUS
      <4> QED  BY <4>2, <4>3, <4>4
    <3> QED  BY <3>1, <3>2
  <2>3. h = r
    BY <2>2
  <2>4. IsWalk(h, files, f, m + 1)
    BY <2>3 DEF IsWalk
  <2> QED  BY <2>4
<1> HIDE DEF S
<1>3. Nat \subseteq S
  BY <1>1, <1>2, NatSetInduction
<1> QED  BY <1>3 DEF S

\* A file is in its own ancestry.
LEMMA AncestryOfSelf ==
  ASSUME NEW files, NEW f, Cardinality(DOMAIN files) \in Nat
  PROVE  f \in Ancestry(files, f)
<1> DEFINE n == Cardinality(DOMAIN files)
<1>1. PICK up : IsWalk(up, files, f, n) /\ Ancestry(files, f) = up[n]
  <2> DEFINE up == CHOOSE h : IsWalk(h, files, f, n)
  <2>1. IsWalk(up, files, f, n)
    BY WalkExists
  <2>2. Ancestry(files, f) = up[n]
    BY DEF Ancestry, IsWalk
  <2> QED  BY <2>1, <2>2
<1> HIDE DEF n
<1> DEFINE S == {k \in Nat : k <= n => f \in up[k]}
<1>2. n \in Nat
  BY DEF n
<1>3. 0 \in S
  BY <1>1, <1>2 DEF IsWalk
<1>4. ASSUME NEW k \in Nat, k \in S PROVE k + 1 \in S
  <2> SUFFICES ASSUME k + 1 <= n PROVE f \in up[k + 1]
    OBVIOUS
  <2>1. k + 1 \in 0 .. n /\ k + 1 # 0 /\ (k + 1) - 1 = k /\ f \in up[k]
    BY <1>2, <1>4
  <2>2. up[k + 1] = up[k] \cup {files[g].parent : g \in up[k]}
    BY <1>1, <2>1 DEF IsWalk
  <2> QED  BY <2>1, <2>2
<1> HIDE DEF S
<1>5. n \in S
  BY <1>2, <1>3, <1>4, NatSetInduction
<1> QED  BY <1>1, <1>2, <1>5 DEF S

-----------------------------------------------------------------------------
(* Each action keeps it. *)

\* The volume's changes are reported as they are. A file is created,
LEMMA CreateReports ==
  ASSUME Inv, Past, NEW f \in Files, FsCreate(f)
  PROVE  \E event \in Event, after \in Trees : Journaled(event, after) /\ Reports(event, after)
<1>1. PICK name \in Names, parent \in DOMAIN tree :
        Journaled([kind |-> "created", frn |-> f, parent |-> parent, name |-> name],
                  Inserted(tree, f, [name |-> name, parent |-> parent]))
  BY DEF FsCreate
<1> DEFINE entry == [name |-> name, parent |-> parent]
           event == [kind |-> "created", frn |-> f, parent |-> parent, name |-> name]
           after == Inserted(tree, f, entry)
<1>2. event \in Event /\ after \in Trees
  BY TreeWith
<1>3. \A k \in 1 .. Len(trees) : f \notin DOMAIN trees[k]
  BY DEF FsCreate, Inv, Volume
<1>4. f \notin DOMAIN tree /\ \A g \in DOMAIN tree : tree[g].parent \in DOMAIN tree
  BY <1>3 DEF Past, Inv, Volume
<1>5. /\ DOMAIN after = DOMAIN tree \cup {f} /\ after[f] = entry
      /\ \A g \in DOMAIN tree : after[g] = tree[g]
  BY <1>4 DEF Inserted
<1>6. entry.parent = parent /\ event.kind = "created" /\ event.frn = f
      /\ event.parent = parent /\ event.name = name
  OBVIOUS
<1> HIDE DEF event, after
<1>7. \A g \in DOMAIN after : after[g].parent \in DOMAIN after
  BY <1>4, <1>5, <1>6
<1>8. Reports(event, after)
  BY <1>3, <1>4, <1>5, <1>6, <1>7 DEF Reports
<1> QED  BY <1>1, <1>2, <1>8 DEF event, after

\* renamed or moved, never into itself,
LEMMA RenameReports ==
  ASSUME Inv, Past, NEW f \in Files, FsRename(f)
  PROVE  \E event \in Event, after \in Trees : Journaled(event, after) /\ Reports(event, after)
<1>1. PICK name \in Names, parent \in DOMAIN tree :
        /\ f \notin Ancestry(tree, parent)
        /\ Journaled([kind |-> "renamed", frn |-> f, parent |-> parent, name |-> name],
                     [tree EXCEPT ![f] = [name |-> name, parent |-> parent]])
  BY DEF FsRename
<1> DEFINE entry == [name |-> name, parent |-> parent]
           event == [kind |-> "renamed", frn |-> f, parent |-> parent, name |-> name]
           after == [tree EXCEPT ![f] = entry]
<1>2. event \in Event /\ after \in Trees
  BY TreeWith
<1>3. f \in DOMAIN tree /\ \A g \in DOMAIN tree : tree[g].parent \in DOMAIN tree
  BY DEF Past, Inv, Volume, FsRename
<1>4. parent # f
  <2>1. DOMAIN tree \subseteq Files \cup {Root}
    BY CurrentTree, TreeFacts
  <2>2. IsFiniteSet(Files \cup {Root})
    BY FilesAssumption, FS_AddElement
  <2>3. Cardinality(DOMAIN tree) \in Nat
    BY <2>1, <2>2, FS_Subset, FS_CardinalityType
  <2>4. parent \in Ancestry(tree, parent)
    BY <2>3, AncestryOfSelf
  <2> QED  BY <1>1, <2>4
<1>5. /\ DOMAIN after = DOMAIN tree /\ after[f] = entry
      /\ \A g \in DOMAIN tree : g # f => after[g] = tree[g]
  BY <1>2, <1>3, CurrentTree, TreeFacts
<1>6. entry.parent = parent /\ event.kind = "renamed" /\ event.frn = f
      /\ event.parent = parent /\ event.name = name
  OBVIOUS
<1> HIDE DEF event, after
<1>7. \A g \in DOMAIN after : after[g].parent \in DOMAIN after
  BY <1>3, <1>5, <1>6
<1>8. Reports(event, after)
  BY <1>3, <1>4, <1>5, <1>6, <1>7 DEF Reports
<1> QED  BY <1>1, <1>2, <1>8 DEF event, after

\* or deleted, when nothing is in it.
LEMMA DeleteReports ==
  ASSUME Inv, Past, NEW f \in Files, FsDelete(f)
  PROVE  \E event \in Event, after \in Trees : Journaled(event, after) /\ Reports(event, after)
<1> DEFINE event == [kind |-> "deleted", frn |-> f, parent |-> tree[f].parent, name |-> tree[f].name]
           after == Restrict(tree, DOMAIN tree \ {f})
<1>1. f \in DOMAIN tree /\ (\A g \in DOMAIN tree : tree[g].parent # f) /\ Journaled(event, after)
  BY DEF FsDelete
<1>2. event \in Event /\ after \in Trees
  BY <1>1, TreeWithout
<1>3. \A g \in DOMAIN tree : tree[g].parent \in DOMAIN tree
  BY DEF Past, Inv, Volume
<1>4. DOMAIN after = DOMAIN tree \ {f} /\ \A g \in DOMAIN after : after[g] = tree[g]
  BY DEF Restrict
<1>5. event.kind = "deleted" /\ event.frn = f
  OBVIOUS
<1> HIDE DEF event, after
<1>6. Reports(event, after)
  BY <1>1, <1>3, <1>4, <1>5 DEF Reports
<1> QED  BY <1>1, <1>2, <1>6

\* At first, everything is shown as it is.
LEMMA InitConverges ==
  ASSUME Inv, Init
  PROVE  Converging
<1>1. PICK files \in FirstTrees : tree = Inserted(files, Root, RootEntry)
  BY DEF Init
<1>2. PICK fs \in SUBSET Files : files \in [fs -> [name : Names, parent : fs \cup {Root}]]
  BY FilesAssumption
<1>3. /\ trees = <<tree>> /\ journal = <<>> /\ pos = 0 /\ base = BuildBase(tree) /\ delta = NewDelta
      /\ next_usn = 0 /\ saved = 0 /\ scan = NoScan /\ orphans = {} /\ defects = {}
  BY DEF Init
<1>4. Len(trees) = 1 /\ trees[1] = tree /\ Len(journal) = 0
  BY <1>3
<1>5. \A f \in DOMAIN tree : tree[f].parent \in DOMAIN tree
  <2>1. /\ DOMAIN tree = fs \cup {Root} /\ tree[Root] = RootEntry
        /\ \A f \in fs : f # Root => tree[f] = files[f]
    BY <1>1, <1>2 DEF Inserted
  <2>2. \A f \in fs : f # Root => tree[f].parent \in fs \cup {Root}
    BY <1>2, <2>1
  <2> QED  BY <2>1, <2>2 DEF RootEntry
<1>6. Past
  BY <1>4, <1>5 DEF Past
<1>7. Enumeration(tree)
  BY CurrentTree, TreeFacts DEF Enumeration, RootEntry
<1>8. \A f \in Files : Shows(base, NewDelta, orphans, f, tree)
  <2> SUFFICES ASSUME NEW f \in Files PROVE Shows(base, NewDelta, orphans, f, tree)
    OBVIOUS
  <2>1. f \notin DOMAIN tree => Shown(base, NewDelta, f) = {}
    BY <1>3, <1>7, EnumerationShows
  <2>2. f \in DOMAIN tree =>
          Shown(base, NewDelta, f) = {[name |-> tree[f].name, dirs |-> {tree[f].parent}]}
    BY <1>3, <1>5, <1>7, EnumerationShows
  <2>3. CASE f \notin DOMAIN tree
    BY <2>1, <2>3 DEF Shows
  <2>4. CASE f \in DOMAIN tree
    BY <2>2, <2>4, ShowsRecord
  <2> QED  BY <2>3, <2>4
<1>9. Fresh(base, NewDelta, orphans, 0)
  BY <1>4, <1>8 DEF Fresh
<1>10. Kept([delta |-> delta, orphans |-> orphans], pos)
  <2>1. BaseOK(base) /\ Exact(base)
    BY <1>3 DEF Inv, View
  <2> QED  BY <1>3, <1>9, <2>1, KeptBase
<1> QED  BY <1>3, <1>6, <1>9, <1>10 DEF Converging

\* What happens to the view does not change the past.
LEMMA PastStays ==
  ASSUME Past, UNCHANGED <<trees, journal>>
  PROVE  Past'
<1>1. trees' = trees /\ journal' = journal
  OBVIOUS
<1>2. \A i : EventOK(i)' <=> EventOK(i)
  BY <1>1 DEF EventOK, SameAt
<1>3. \A f, t : Gone(f, t)' <=> Gone(f, t)
  BY <1>1 DEF Gone
<1> QED  BY <1>1, <1>2, <1>3 DEF Past

\* A batch keeps up with what it applies.
LEMMA ApplyBatchConverges ==
  ASSUME Inv, Converging, ApplyBatch
  PROVE  Converging'
<1>1. /\ scan = NoScan /\ pos < Len(journal)
      /\ UNCHANGED <<tree, trees, journal, base, saved, scan, defects>>
  BY DEF ApplyBatch, ntfs
<1>2. PICK last \in pos + 1 .. Len(journal) :
        /\ \E s \in ApplyAll(delta, SubSeq(journal, pos + 1, last)) : delta' = s.delta /\ orphans' = s.orphans
        /\ pos' = last
        /\ next_usn' \in {next_usn, last}
  BY DEF ApplyBatch
<1>3. PICK s \in ApplyAll(delta, SubSeq(journal, pos + 1, last)) : delta' = s.delta /\ orphans' = s.orphans
  BY <1>2
<1>4. /\ Volume /\ Len(journal) \in Nat /\ pos \in 0 .. Len(journal) /\ saved \in 0 .. Len(journal)
      /\ next_usn \in 0 .. Len(journal) /\ last \in pos .. Len(journal) /\ pos < last
  BY <1>2 DEF Inv, Volume, Positions
<1>5. Past /\ Past'
  BY <1>1, PastStays DEF Converging
<1>6. (next_usn = saved \/ next_usn <= pos)' /\ (scan # NoScan => pos <= scan)'
  BY <1>1, <1>2, <1>4 DEF Converging
<1>7. ASSUME defects = {} PROVE Kept(s, last)
  <2>1. Kept([delta |-> delta, orphans |-> orphans], pos) /\ (pos < saved => BaseOrphans)
    BY <1>1, <1>7 DEF Converging, Sound
  <2> QED  BY <1>3, <1>4, <1>5, <2>1, BatchKeeps
<1>8. ASSUME defects' = {}
      PROVE  /\ Fresh(base, NewDelta, orphans, saved)'
             /\ (pos < saved => BaseOrphans)'
             /\ Kept([delta |-> delta, orphans |-> orphans], pos)'
  <2>1. Kept(s, last) /\ defects = {}
    BY <1>1, <1>7, <1>8
  <2>2. LayersOK(base, delta)'
    BY <1>1, <1>3, <2>1 DEF Kept
  <2>3. TombsOK(base, delta, pos)'
    BY <1>1, <1>2, <1>3, <2>1 DEF Kept, TombsOK, Gone, InDelta
  <2>4. Fresh(base, delta, orphans, pos)'
    BY <1>1, <1>2, <1>3, <2>1 DEF Kept, Fresh, Redone
  <2>5. StrandedOK(base, delta, orphans)'
    BY <1>1, <1>3, <2>1 DEF Kept, StrandedOK
  <2>6. Fresh(base, NewDelta, orphans, saved)'
    BY <1>1, <1>3, <2>1 DEF Kept, Fresh, Redone
  <2>7. (pos < saved => BaseOrphans)'
    <3>1. pos' < saved' => BaseOrphans
      BY <1>1, <1>2, <1>4, <2>1 DEF Converging
    <3> QED  BY <1>1, <3>1 DEF BaseOrphans
  <2> QED  BY <2>2, <2>3, <2>4, <2>5, <2>6, <2>7 DEF Kept
<1> QED  BY <1>5, <1>6, <1>8 DEF Converging, Sound

\* While an enumeration runs, nothing is published.
LEMMA BuildCursorConverges ==
  ASSUME Inv, Converging, BuildCursor
  PROVE  Converging'
<1>1. /\ pos' \in pos + 1 .. Len(journal) /\ scan' = Len(journal)
      /\ UNCHANGED <<tree, trees, journal, base, delta, next_usn, saved, orphans, defects>>
  BY DEF BuildCursor, ntfs
<1>2. /\ Len(journal) \in Nat /\ pos \in 0 .. Len(journal) /\ saved \in 0 .. Len(journal)
      /\ next_usn \in 0 .. Len(journal)
  BY DEF Inv, Volume, Positions
<1>3. Past'
  BY <1>1, PastStays DEF Converging
<1>4. (next_usn = saved \/ next_usn <= pos)' /\ (scan # NoScan => pos <= scan)'
  BY <1>1, <1>2 DEF Converging
<1>5. ASSUME defects' = {}
      PROVE  Fresh(base, NewDelta, orphans, saved)' /\ (pos < saved => BaseOrphans)'
  <2>1. Fresh(base, NewDelta, orphans, saved)'
    BY <1>1, <1>5 DEF Converging, Fresh, Redone
  <2>2. pos' < saved' => BaseOrphans
    BY <1>1, <1>2, <1>5 DEF Converging
  <2> QED  BY <1>1, <2>1, <2>2 DEF BaseOrphans
<1>6. ~Sound'
  BY <1>1, <1>2 DEF Sound, NoScan
<1> QED  BY <1>3, <1>4, <1>5, <1>6 DEF Converging

\* An enumeration's base shows each file as it was met. If a file's directory was
\* not met, there is an event about the file: else the directory has been there
\* the whole time.
LEMMA BuildPublishConverges ==
  ASSUME Inv, Converging, BuildPublish
  PROVE  Converging'
<1>1. PICK when \in [Files \cup {Root} -> scan + 1 .. Len(trees)] :
       /\ base' = BuildBase(Seen(when))
       /\ orphans' = {f \in DOMAIN Seen(when) : Seen(when)[f].parent \notin DOMAIN Seen(when)}
  BY DEF BuildPublish
<1>2. /\ scan # NoScan /\ delta' = NewDelta /\ next_usn' = scan /\ saved' = scan
      /\ scan' = NoScan /\ defects' = {} /\ UNCHANGED <<tree, trees, journal, pos>>
  BY DEF BuildPublish, ntfs
<1>3. /\ scan \in 0 .. Len(journal) /\ Len(journal) \in Nat /\ Len(trees) = Len(journal) + 1
      /\ pos \in 0 .. Len(journal) /\ pos <= scan /\ Volume /\ Past
  BY <1>2 DEF Inv, Volume, Positions, Converging
<1> DEFINE seen == Seen(when)
<1>4. \A f \in Files \cup {Root} : when[f] \in scan + 1 .. Len(trees) /\ trees[when[f]] \in Trees
  BY <1>1, <1>3, CurrentTree
<1>5. /\ DOMAIN seen = {f \in Files \cup {Root} : f \in DOMAIN trees[when[f]]}
      /\ \A f \in DOMAIN seen : seen[f] = trees[when[f]][f]
  BY DEF Seen
<1>6. base' = BuildBase(seen) /\ orphans' = {f \in DOMAIN seen : seen[f].parent \notin DOMAIN seen}
  BY <1>1
<1> HIDE DEF seen
<1>7. /\ Root \in DOMAIN seen /\ seen[Root] = RootEntry
      /\ \A f \in DOMAIN seen : seen[f].name \in Nat /\ seen[f].parent \in Files \cup {Root}
  BY <1>4, <1>5, TreeFacts
<1>8. Enumeration(seen)
  BY <1>5, <1>7 DEF Enumeration, RootEntry
<1>9. ASSUME NEW f \in Files
      PROVE  /\ when[f] \in scan + 1 .. Len(trees)
             /\ Shows(base', NewDelta, orphans', f, trees[when[f]])
             /\ f \in orphans' \/ Shows(base', NewDelta, {}, f, trees[when[f]])
  <2> DEFINE p == IF seen[f].parent \in DOMAIN seen THEN seen[f].parent ELSE Root
  <2>1. when[f] \in scan + 1 .. Len(trees) /\ (f \in DOMAIN seen <=> f \in DOMAIN trees[when[f]])
    BY <1>4, <1>5
  <2>2. /\ f \notin DOMAIN seen => Shown(base', NewDelta, f) = {}
        /\ f \in DOMAIN seen => Shown(base', NewDelta, f) = {[name |-> seen[f].name, dirs |-> {p}]}
    BY <1>6, <1>8, EnumerationShows
  <2>3. f \in DOMAIN seen => f \in orphans' \/ p = seen[f].parent
    BY <1>6
  <2> HIDE DEF p
  <2>4. CASE f \notin DOMAIN seen
    BY <2>1, <2>2, <2>4 DEF Shows
  <2>5. CASE f \in DOMAIN seen
    <3>1. /\ f \in DOMAIN trees[when[f]]
          /\ Shown(base', NewDelta, f) = {[name |-> trees[when[f]][f].name, dirs |-> {p}]}
      BY <1>5, <2>1, <2>2, <2>5
    <3>2. f \in orphans' \/ {p} = {trees[when[f]][f].parent}
      BY <1>5, <2>3, <2>5
    <3> QED  BY <2>1, <3>1, <3>2, ShowsRecord
  <2> QED  BY <2>4, <2>5
<1>10. ASSUME NEW f \in orphans', f \in Files, \A i \in scan + 1 .. Len(journal) : journal[i].frn # f
       PROVE  FALSE
  <2> DEFINE p == seen[f].parent
  <2>1. f \in DOMAIN seen /\ p \notin DOMAIN seen /\ p \in Files \cup {Root}
    BY <1>6, <1>7
  <2>2. f \in DOMAIN trees[when[f]] /\ p = trees[when[f]][f].parent
    BY <1>5, <2>1
  <2>3. when[f] \in scan + 1 .. Len(trees) /\ when[p] \in scan + 1 .. Len(trees)
    BY <1>4, <1>10, <2>1
  <2> HIDE DEF p
  <2>4. SameAt(f, when[f], Len(trees)) /\ SameAt(f, when[p], Len(trees))
    BY <1>3, <1>10, <2>3, Unreported
  <2>5. f \in DOMAIN trees[when[p]] /\ trees[when[p]][f].parent = p
    BY <2>2, <2>4 DEF SameAt
  <2>6. when[p] \in 1 .. Len(trees)
    BY <1>3, <2>3
  <2>7. p \in DOMAIN trees[when[p]]
    BY <1>3, <2>5, <2>6 DEF Past
  <2> QED  BY <1>5, <2>1, <2>7
<1>11. BaseOrphans'
  <2> SUFFICES ASSUME NEW f \in Files
               PROVE  \/ \E t \in scan + 1 .. Len(trees) : Shows(base', NewDelta, {}, f, trees[t])
                      \/ \E i \in scan + 1 .. Len(journal) : journal[i].frn = f
    BY <1>2 DEF BaseOrphans
  <2> QED  BY <1>9, <1>10
<1>12. Fresh(base, NewDelta, orphans, saved)'
  <2> SUFFICES ASSUME NEW f \in Files
               PROVE  \E t \in scan + 1 .. Len(trees) : Shows(base', NewDelta, orphans', f, trees[t])
    BY <1>2 DEF Fresh
  <2> QED  BY <1>9
<1>13. Fresh(base, delta, orphans, pos)'
  <2> SUFFICES ASSUME NEW f \in Files
               PROVE  \E t \in pos + 1 .. Len(trees) : Shows(base', NewDelta, orphans', f, trees[t])
    BY <1>2 DEF Fresh
  <2>1. when[f] \in pos + 1 .. Len(trees)
    BY <1>3, <1>9
  <2> QED  BY <1>9, <2>1
<1>14. Kept([delta |-> delta, orphans |-> orphans], pos)'
  <2>1. BaseOK(base') /\ Exact(base')
    BY <1>6, <1>8, BuiltBase
  <2>2. LayersOK(base', NewDelta) /\ Stranded(base', NewDelta) = {}
    BY <2>1, BaseAlone
  <2>3. LayersOK(base, delta)' /\ TombsOK(base, delta, pos)' /\ StrandedOK(base, delta, orphans)'
    BY <1>2, <2>2 DEF TombsOK, StrandedOK, NewDelta
  <2> QED  BY <1>12, <1>13, <2>3 DEF Kept
<1>15. Past' /\ (next_usn = saved \/ next_usn <= pos)' /\ (scan # NoScan => pos <= scan)'
  BY <1>2, <1>3, PastStays
<1> QED  BY <1>11, <1>12, <1>14, <1>15 DEF Converging

\* A compaction that goes well shows the same of every file as before.
LEMMA CompactConverges ==
  ASSUME Inv, Converging, Compact
  PROVE  Converging'
<1>1. /\ scan = NoScan /\ (delta # NewDelta \/ next_usn # saved)
      /\ base' = Compacted(base, delta) /\ delta' = NewDelta /\ saved' = next_usn
      /\ UNCHANGED <<tree, trees, journal, pos, next_usn, scan, orphans>>
  BY DEF Compact, ntfs
<1>2. defects' = {} => defects = {} /\ ~Ties(base, delta) /\ (delta = NewDelta \/ ~(next_usn > pos))
  BY DEF Compact
<1>3. Past'
  BY <1>1, PastStays DEF Converging
<1>4. (next_usn = saved \/ next_usn <= pos)' /\ (scan # NoScan => pos <= scan)'
  BY <1>1
<1>5. ASSUME defects' = {}
      PROVE  /\ Fresh(base, NewDelta, orphans, saved)' /\ (pos < saved => BaseOrphans)'
             /\ Kept([delta |-> delta, orphans |-> orphans], pos)'
  <2>1. defects = {} /\ ~Ties(base, delta) /\ (delta = NewDelta \/ ~(next_usn > pos))
    BY <1>5, <1>2
  <2>2. /\ LayersOK(base, delta) /\ Fresh(base, delta, orphans, pos)
        /\ StrandedOK(base, delta, orphans)
    BY <1>1, <2>1, KeptView DEF Converging, Sound
  <2>3. /\ next_usn \in Nat /\ pos \in Nat /\ next_usn <= pos
        /\ Len(trees) \in Nat /\ Len(journal) \in Nat
    <3>1. next_usn \in Nat /\ pos \in Nat /\ Len(trees) \in Nat /\ Len(journal) \in Nat
      BY DEF Inv, Volume, Positions
    <3>2. next_usn = saved \/ next_usn <= pos
      BY DEF Converging
    <3> QED  BY <1>1, <2>1, <3>1, <3>2
  <2>4. BaseOK(base') /\ Exact(base')
    BY <1>1, <2>1, <2>2, CompactedOK, CompactedExact DEF LayersOK
  <2>5. ASSUME NEW f
         PROVE  /\ Shown(base, delta, f) = {} => Shown(base', NewDelta, f) = {}
                /\ \A e \in Shown(base, delta, f) :
                     \E e2 \in Shown(base', NewDelta, f) :
                       /\ Shown(base', NewDelta, f) = {e2} /\ e2.name = e.name
                       /\ e2.dirs = e.dirs \/ \E ref \in Stranded(base, delta) : Record(base, delta, ref).frn = f
    BY <1>1, <2>1, <2>2, CompactedShows
  <2>6. ASSUME NEW f, NEW files, NEW exempt, Shows(base, delta, exempt, f, files),
               \A ref \in Stranded(base, delta) : Record(base, delta, ref).frn = f => f \in exempt
        PROVE  Shows(base', NewDelta, exempt, f, files)
    <3>1. CASE f \notin DOMAIN files
      BY <2>6, <2>5, <3>1 DEF Shows
    <3>2. CASE f \in DOMAIN files
      <4>1. PICK e \in Shown(base, delta, f) : /\ e.name = files[f].name
                                               /\ f \in exempt \/ e.dirs = {files[f].parent}
        BY <2>6, <3>2 DEF Shows
      <4>2. PICK e2 \in Shown(base', NewDelta, f) :
              /\ Shown(base', NewDelta, f) = {e2} /\ e2.name = e.name
              /\ e2.dirs = e.dirs \/ \E ref \in Stranded(base, delta) : Record(base, delta, ref).frn = f
        BY <2>5, <4>1
      <4> QED  BY <2>6, <3>2, <4>1, <4>2 DEF Shows
    <3> QED  BY <3>1, <3>2
  <2>7. ASSUME NEW f \in Files
        PROVE  \E t \in pos + 1 .. Len(trees) :
                  \/ Shows(base', NewDelta, orphans, f, trees[t])
                  \/ Shows(base', NewDelta, {f}, f, trees[t]) /\ Redone(f, pos)
    <3>1. PICK t \in pos + 1 .. Len(trees) :
            \/ Shows(base, delta, orphans, f, trees[t])
            \/ Shows(base, delta, {f}, f, trees[t]) /\ Redone(f, pos)
      BY <2>2 DEF Fresh
    <3>2. \A ref \in Stranded(base, delta) : Record(base, delta, ref).frn = f => f \in orphans
      BY <2>2 DEF StrandedOK
    <3>3. \A ref \in Stranded(base, delta) : Record(base, delta, ref).frn = f => f \in {f}
      OBVIOUS
    <3> QED  BY <2>6, <3>1, <3>2, <3>3
  <2>8. Fresh(base, delta, orphans, pos)'
    BY <1>1, <2>7 DEF Fresh, Redone
  <2>9. Fresh(base, NewDelta, orphans, saved)'
    <3> SUFFICES ASSUME NEW f \in Files
                 PROVE  \E t \in next_usn + 1 .. Len(trees) :
                          \/ Shows(base', NewDelta, orphans, f, trees[t])
                          \/ Shows(base', NewDelta, {f}, f, trees[t]) /\ Redone(f, next_usn)
      BY <1>1 DEF Fresh, Redone
    <3>1. pos + 1 .. Len(trees) \subseteq next_usn + 1 .. Len(trees)
      BY <2>3
    <3>2. Redone(f, pos) => Redone(f, next_usn)
      BY <2>3 DEF Redone
    <3> QED  BY <2>7, <3>1, <3>2
  <2>10. LayersOK(base', NewDelta) /\ Stranded(base', NewDelta) = {}
    BY <2>4, BaseAlone
  <2>11. LayersOK(base, delta)' /\ TombsOK(base, delta, pos)' /\ StrandedOK(base, delta, orphans)'
    BY <1>1, <2>10 DEF TombsOK, StrandedOK, NewDelta
  <2>12. ~(pos' < saved')
    BY <1>1, <2>3
  <2> QED  BY <2>8, <2>9, <2>11, <2>12 DEF Kept
<1> QED  BY <1>3, <1>4, <1>5 DEF Converging, Sound

\* A restart replays what the snapshot has not seen, or enumerates.
LEMMA RestartConverges ==
  ASSUME Inv, Converging, Restart
  PROVE  Converging'
<1>1. pos' = Len(journal) /\ UNCHANGED <<tree, trees, journal, base, saved, defects>>
  BY DEF Restart, ntfs
<1>2. /\ Volume /\ Len(journal) \in Nat /\ saved \in 0 .. Len(journal) /\ next_usn \in 0 .. Len(journal)
  BY DEF Inv, Volume, Positions
<1>3. Past /\ Past'
  BY <1>1, PastStays DEF Converging
<1>4. ~(pos' < saved')
  BY <1>1, <1>2
<1>5. CASE /\ \E s \in ApplyAll(NewDelta, SubSeq(journal, saved + 1, Len(journal))) :
                delta' = s.delta /\ orphans' = s.orphans
           /\ next_usn' = Len(journal) /\ scan' = NoScan
  <2>1. PICK s \in ApplyAll(NewDelta, SubSeq(journal, saved + 1, Len(journal))) :
          delta' = s.delta /\ orphans' = s.orphans
    BY <1>5
  <2>2. (next_usn = saved \/ next_usn <= pos)' /\ (scan # NoScan => pos <= scan)'
    BY <1>1, <1>2, <1>5
  <2>3. ASSUME defects' = {}
        PROVE  /\ Fresh(base, NewDelta, orphans, saved)'
               /\ Kept([delta |-> delta, orphans |-> orphans], pos)'
    <3>1. BaseOK(base) /\ Exact(base) /\ Fresh(base, NewDelta, orphans, saved)
      BY <1>1, <2>3 DEF Inv, View, Converging
    <3>2. Kept([delta |-> NewDelta, orphans |-> orphans], saved)
      BY <3>1, KeptBase
    <3>3. Len(journal) \in saved .. Len(journal)
      BY <1>2
    <3>4. Kept(s, Len(journal))
      BY <1>2, <1>3, <2>1, <3>2, <3>3, BatchKeeps
    <3>5. LayersOK(base, delta)'
      BY <1>1, <2>1, <3>4 DEF Kept
    <3>6. TombsOK(base, delta, pos)'
      BY <1>1, <2>1, <3>4 DEF Kept, TombsOK, Gone, InDelta
    <3>7. Fresh(base, delta, orphans, pos)'
      BY <1>1, <2>1, <3>4 DEF Kept, Fresh, Redone
    <3>8. StrandedOK(base, delta, orphans)'
      BY <1>1, <2>1, <3>4 DEF Kept, StrandedOK
    <3>9. Fresh(base, NewDelta, orphans, saved)'
      BY <1>1, <2>1, <3>4 DEF Kept, Fresh, Redone
    <3> QED  BY <3>5, <3>6, <3>7, <3>8, <3>9 DEF Kept
  <2> QED  BY <1>3, <1>4, <2>2, <2>3 DEF Converging, Sound
<1>6. CASE scan' = Len(journal) /\ UNCHANGED <<delta, next_usn, orphans>>
  <2>1. (next_usn = saved \/ next_usn <= pos)' /\ (scan # NoScan => pos <= scan)'
    BY <1>1, <1>2, <1>6
  <2>2. defects' = {} => Fresh(base, NewDelta, orphans, saved)'
    BY <1>1, <1>6 DEF Converging, Fresh, Redone
  <2>3. ~Sound'
    BY <1>2, <1>6 DEF Sound, NoScan
  <2> QED  BY <1>3, <1>4, <2>1, <2>2, <2>3 DEF Converging
<1> QED  BY <1>5, <1>6 DEF Restart

\* When nothing changes, neither does that.
LEMMA StutterConverges ==
  ASSUME Converging, UNCHANGED vars
  PROVE  Converging'
<1>1. Past'
  BY PastStays DEF Converging, vars
<1>2. Fresh(base, NewDelta, orphans, saved) => Fresh(base, NewDelta, orphans, saved)'
  BY DEF vars, Fresh, Redone
<1>3. BaseOrphans => BaseOrphans'
  BY DEF vars, BaseOrphans
<1>4. Fresh(base, delta, orphans, pos) => Fresh(base, delta, orphans, pos)'
  BY DEF vars, Fresh, Redone
<1>5. TombsOK(base, delta, pos) => TombsOK(base, delta, pos)'
  BY DEF vars, TombsOK, Gone, InDelta
<1>6. /\ LayersOK(base, delta) => LayersOK(base, delta)'
      /\ StrandedOK(base, delta, orphans) => StrandedOK(base, delta, orphans)'
  BY DEF vars, StrandedOK
<1>7. Kept([delta |-> delta, orphans |-> orphans], pos) => Kept([delta |-> delta, orphans |-> orphans], pos)'
  BY <1>2, <1>4, <1>5, <1>6 DEF Kept
<1> QED  BY <1>1, <1>2, <1>3, <1>7 DEF Converging, Sound, vars

\* So does every step.
LEMMA NextConverges == Inv /\ Converging /\ [Next]_vars => Converging'
<1> SUFFICES ASSUME Inv, Converging, [Next]_vars PROVE Converging'
  OBVIOUS
<1>1. CASE \E f \in Files : FsCreate(f) \/ FsRename(f) \/ FsDelete(f)
  <2>1. Past
    BY DEF Converging
  <2>2. \E event \in Event, after \in Trees : Journaled(event, after) /\ Reports(event, after)
    BY <1>1, <2>1, CreateReports, RenameReports, DeleteReports
  <2> QED  BY <2>2, JournaledConverges
<1>2. CASE ApplyBatch
  BY <1>2, ApplyBatchConverges
<1>3. CASE BuildCursor
  BY <1>3, BuildCursorConverges
<1>4. CASE BuildPublish
  BY <1>4, BuildPublishConverges
<1>5. CASE Compact
  BY <1>5, CompactConverges
<1>6. CASE Restart
  BY <1>6, RestartConverges
<1>7. CASE UNCHANGED vars
  BY <1>7, StutterConverges
<1> QED  BY <1>1, <1>2, <1>3, <1>4, <1>5, <1>6, <1>7 DEF Next

-----------------------------------------------------------------------------
(* The theorems. *)

\* What a view shows is what the volume has, up to what is still to be applied.
LEMMA ConvergingQueued ==
  ASSUME Inv, Converging
  PROVE  DivergenceIsQueued
<1> SUFFICES ASSUME Sound, NEW f \in Files, \A i \in pos + 1 .. Len(journal) : journal[i].frn # f
             PROVE  Agrees(f)
  BY DEF DivergenceIsQueued
<1>1. LayersOK(base, delta) /\ Fresh(base, delta, orphans, pos)
  BY KeptView DEF Converging
<1>2. Volume /\ Past /\ pos \in 0 .. Len(journal) /\ tree = trees[Len(trees)]
  BY DEF Inv, Volume, Positions, Converging
<1>3. PICK t \in pos + 1 .. Len(trees) : Shows(base, delta, orphans, f, trees[t])
  <2>1. ~Redone(f, pos)
    BY DEF Redone
  <2> QED  BY <1>1, <2>1 DEF Fresh
<1>4. SameAt(f, t, Len(trees))
  BY <1>2, Unreported
<1>5. Shows(base, delta, orphans, f, tree)
  BY <1>2, <1>3, <1>4 DEF SameAt, Shows
<1> DEFINE refs == RecordsOf(base, delta, f)
<1>6. CASE f \notin DOMAIN tree
  <2>1. refs = {}
    BY <1>5, <1>6 DEF Shows, Shown
  <2> QED  BY <1>6, <2>1 DEF Agrees
<1>7. CASE f \in DOMAIN tree
  <2>1. PICK e \in Shown(base, delta, f) :
          e.name = tree[f].name /\ (f \in orphans \/ e.dirs = {tree[f].parent})
    BY <1>5, <1>7 DEF Shows
  <2>2. PICK ref \in refs :
          e = [name |-> Record(base, delta, ref).name, dirs |-> DirsOf(base, delta, ref)]
    BY <2>1 DEF Shown
  <2>3. refs = {ref}
    BY <1>1, TheRecord
  <2>4. e.name = Record(base, delta, ref).name
        /\ e.dirs = {Frn(p) : p \in ParentOf(base, delta, ref)}
    BY <2>2 DEF DirsOf, Frn
  <2> HIDE DEF refs
  <2>5. /\ ref \in refs /\ refs = {ref} /\ Record(base, delta, ref).name = tree[f].name
        /\ f \in orphans \/ {Frn(p) : p \in ParentOf(base, delta, ref)} = {tree[f].parent}
    BY <2>1, <2>2, <2>3, <2>4
  <2> QED  BY <1>7, <2>5 DEF Agrees, refs
<1> QED  BY <1>6, <1>7

\* Inductive, with the invariant of the layers: the view and the snapshot are as
\* fresh as the positions they claim.
THEOREM ConvergenceInvariant == Spec => [](Inv /\ Converging)
<1>1. Init => Inv /\ Converging
  BY InitInv, InitConverges
<1>2. Inv /\ Converging /\ [Next]_vars => (Inv /\ Converging)'
  BY NextKeepsInv, NextConverges
<1> QED  BY <1>1, <1>2, PTL DEF Spec

\* Delta::apply, resume_view, build_view and compact_to_snapshot together lose
\* no change to the volume: where the view disagrees with it about a file, an
\* event about that file has yet to be applied. This holds for any volume, any
\* batches, and any order of rebuilds, compactions and restarts.
THEOREM Convergence == Spec => []DivergenceIsQueued
<1>1. Inv /\ Converging => DivergenceIsQueued
  BY ConvergingQueued
<1> QED  BY <1>1, ConvergenceInvariant, PTL


(***************************************************************************)
(* The paths that a view shows. The two walks that spell a path, through   *)
(* the base and through the delta, are followed from a record up to the    *)
(* root; so is the file system's own. When everything has been applied,    *)
(* each step of the one is a step of the other; and a compaction maps the  *)
(* steps of the old view to those of the new.                              *)
(***************************************************************************)


-----------------------------------------------------------------------------
(* Walks up. *)

\* A walk that ends where it has not been before has been nowhere twice.
LEMMA WalkIsInjective ==
  ASSUME NEW m \in Nat, NEW from \in 0 .. m, NEW r,
         \A i, j \in from .. m - 1 : r[i] = r[j] => r[i + 1] = r[j + 1],
         \A i \in from .. m - 1 : r[i] # r[m]
  PROVE  \A i, j \in from .. m : r[i] = r[j] => i = j
<1>1. ASSUME NEW i \in from .. m, NEW j \in from .. m, i < j, r[i] = r[j] PROVE FALSE
  <2> DEFINE S == {k \in Nat : j + k <= m => r[i + k] = r[j + k]}
  <2>1. 0 \in S
    BY <1>1
  <2>2. ASSUME NEW k \in Nat, k \in S PROVE k + 1 \in S
    <3> SUFFICES ASSUME j + (k + 1) <= m PROVE r[i + (k + 1)] = r[j + (k + 1)]
      OBVIOUS
    <3>1. r[i + k] = r[j + k] /\ i + k \in from .. m - 1 /\ j + k \in from .. m - 1
      BY <1>1, <2>2
    <3>2. r[(i + k) + 1] = r[(j + k) + 1]
      BY <3>1
    <3>3. (i + k) + 1 = i + (k + 1) /\ (j + k) + 1 = j + (k + 1)
      OBVIOUS
    <3> QED  BY <3>2, <3>3
  <2> HIDE DEF S
  <2>3. m - j \in Nat /\ j + (m - j) = m /\ i + (m - j) \in from .. m - 1
    BY <1>1
  <2>4. m - j \in S
    BY <2>1, <2>2, <2>3, NatSetInduction
  <2>5. r[i + (m - j)] = r[m]
    BY <2>3, <2>4 DEF S
  <2> QED  BY <2>3, <2>5
<1> SUFFICES ASSUME NEW i \in from .. m, NEW j \in from .. m, r[i] = r[j], i # j PROVE FALSE
  OBVIOUS
<1>2. i < j \/ j < i
  OBVIOUS
<1> QED  BY <1>1, <1>2

\* So it has no more steps than there are places.
LEMMA WalkIsShort ==
  ASSUME NEW m \in Nat, NEW from \in 0 .. m, NEW r,
         \A i, j \in from .. m : r[i] = r[j] => i = j,
         NEW S, IsFiniteSet(S), \A k \in from .. m : r[k] \in S
  PROVE  m - from + 1 <= Cardinality(S)
<1> DEFINE g == [k \in from .. m |-> r[k]]
<1>1. g \in Injection(from .. m, S)
  BY DEF Injection, IsInjective
<1>2. Cardinality(from .. m) <= Cardinality(S)
  BY <1>1, FS_Injection
<1>3. Cardinality(from .. m) = m - from + 1
  <2>1. from \in Int /\ m \in Int /\ ~(from > m)
    OBVIOUS
  <2> QED  BY <2>1, FS_Interval
<1> QED  BY <1>2, <1>3

\* A function can be applied over and over again, which recursive definitions do.
Iterates(w, V, start, step, n) ==
  w \in [0 .. n -> V] /\ w[0] = start /\ \A k \in 1 .. n : w[k] = step[w[k - 1]]

LEMMA Iterated ==
  ASSUME NEW V, NEW start \in V, NEW step \in [V -> V], NEW n \in Nat
  PROVE  \E w : Iterates(w, V, start, step, n)
<1> DEFINE S == {m \in Nat : \E w : Iterates(w, V, start, step, m)}
<1>1. 0 \in S
  <2> DEFINE w == [k \in 0 .. 0 |-> start]
  <2>1. Iterates(w, V, start, step, 0)
    BY DEF Iterates
  <2> HIDE DEF w
  <2> QED  BY <2>1
<1>2. ASSUME NEW m \in Nat, m \in S PROVE m + 1 \in S
  <2>1. PICK w : Iterates(w, V, start, step, m)
    BY <1>2
  <2> DEFINE h == [k \in 0 .. m + 1 |-> IF k = m + 1 THEN step[w[m]] ELSE w[k]]
  <2>2. h \in [0 .. m + 1 -> V] /\ h[0] = start
    BY <2>1 DEF Iterates
  <2>3. ASSUME NEW k \in 1 .. m + 1 PROVE h[k] = step[h[k - 1]]
    <3>1. k - 1 \in 0 .. m + 1 /\ k - 1 # m + 1
      OBVIOUS
    <3>2. h[k - 1] = w[k - 1]
      BY <3>1
    <3>3. h[k] = step[w[k - 1]]
      BY <2>1 DEF Iterates
    <3> QED  BY <3>2, <3>3
  <2> HIDE DEF h
  <2>4. Iterates(h, V, start, step, m + 1)
    BY <2>2, <2>3 DEF Iterates
  <2> QED  BY <2>4
<1> HIDE DEF S
<1>3. n \in S
  BY <1>1, <1>2, NatSetInduction
<1> QED  BY <1>3 DEF S

-----------------------------------------------------------------------------
(* Names along a walk, from its end to its beginning. *)

PathNames(names, m, k) == [j \in 1 .. m - k + 1 |-> names[m - j + 1]]

LEMMA PathNamesStep ==
  ASSUME NEW m \in Nat, NEW names
  PROVE  /\ PathNames(names, m, m) = <<names[m]>>
         /\ \A k \in 0 .. m - 1 : PathNames(names, m, k) = Append(PathNames(names, m, k + 1), names[k])
<1>1. PathNames(names, m, m) = <<names[m]>>
  <2> DEFINE s == PathNames(names, m, m)
  <2>1. s = [j \in 1 .. 1 |-> names[m - j + 1]] /\ s[1] = names[m]
    BY DEF PathNames
  <2> QED  BY <2>1
<1>2. ASSUME NEW k \in 0 .. m - 1
      PROVE  PathNames(names, m, k) = Append(PathNames(names, m, k + 1), names[k])
  <2> DEFINE V == {names[i] : i \in 0 .. m}
             s == PathNames(names, m, k + 1)
             t == PathNames(names, m, k)
             n == m - k
  <2>1. n \in Nat /\ m - (k + 1) + 1 = n /\ m - k + 1 = n + 1 /\ m - (n + 1) + 1 = k
    OBVIOUS
  <2>2. s = [j \in 1 .. n |-> names[m - j + 1]] /\ t = [j \in 1 .. n + 1 |-> names[m - j + 1]]
    BY <2>1 DEF PathNames
  <2>3. \A j \in 1 .. n + 1 : names[m - j + 1] \in V
    <3>1. \A j \in 1 .. n + 1 : m - j + 1 \in 0 .. m
      OBVIOUS
    <3> QED  BY <3>1
  <2>4. names[k] \in V
    OBVIOUS
  <2> HIDE DEF V, s, t, n
  <2>5. s \in Seq(V) /\ Len(s) = n /\ t \in Seq(V) /\ Len(t) = n + 1
    BY <2>1, <2>2, <2>3
  <2>6. /\ Append(s, names[k]) \in Seq(V) /\ Len(Append(s, names[k])) = n + 1
        /\ \A j \in 1 .. n : Append(s, names[k])[j] = s[j]
        /\ Append(s, names[k])[n + 1] = names[k]
    BY <2>4, <2>5, AppendProperties
  <2>7. \A j \in 1 .. n + 1 : t[j] = Append(s, names[k])[j]
    <3> SUFFICES ASSUME NEW j \in 1 .. n + 1 PROVE t[j] = Append(s, names[k])[j]
      OBVIOUS
    <3>1. CASE j = n + 1
      BY <2>1, <2>2, <2>6, <3>1
    <3>2. CASE j # n + 1
      <4>1. j \in 1 .. n
        BY <2>1, <3>2
      <4> QED  BY <2>2, <2>6, <4>1
    <3> QED  BY <3>1, <3>2
  <2>8. t = Append(s, names[k])
    BY <2>5, <2>6, <2>7, SeqEqual
  <2> QED  BY <2>8 DEF s, t
<1> QED  BY <1>1, <1>2

-----------------------------------------------------------------------------
(* full_path of the two layers. *)

\* The paths of a base's records, cut off after so many hops.
BasePaths(b, p) ==
  LET n == Len(b.recs)
  IN  /\ p \in [0 .. n -> [1 .. n -> Seq(Nat)]]
      /\ \A h \in 0 .. n, i \in 1 .. n :
           p[h][i] = IF h = 0 \/ b.recs[i].parent \in {PARENT_NONE, i}
                     THEN <<b.recs[i].name>>
                     ELSE Append(p[h - 1][b.recs[i].parent], b.recs[i].name)
      /\ \A i \in 1 .. n : FullPath(b, i) = p[n][i]

LEMMA BasePathsExist ==
  ASSUME NEW b, BaseOK(b)
  PROVE  \E p : BasePaths(b, p)
<1> DEFINE n == Len(b.recs)
           V == [1 .. n -> Seq(Nat)]
           Ends(i) == b.recs[i].parent \in {PARENT_NONE, i}
           start == [i \in 1 .. n |-> <<b.recs[i].name>>]
           next(row) == [i \in 1 .. n |-> IF Ends(i) THEN <<b.recs[i].name>>
                                          ELSE Append(row[b.recs[i].parent], b.recs[i].name)]
           step == [row \in V |-> next(row)]
           Row(p, h) == [i \in 1 .. n |-> IF h = 0 \/ Ends(i) THEN <<b.recs[i].name>>
                                          ELSE Append(p[h - 1][b.recs[i].parent], b.recs[i].name)]
           Is(p) == p = [h \in 0 .. n |-> Row(p, h)]
<1>1. /\ n \in Nat /\ DOMAIN b.recs = 1 .. n
      /\ \A i \in 1 .. n : b.recs[i].name \in Nat /\ (Ends(i) \/ b.recs[i].parent \in 1 .. n)
  <2>1. n \in Nat /\ DOMAIN b.recs = 1 .. n /\ \A i \in 1 .. n : b.recs[i] \in BaseRecord
    BY DEF BaseOK
  <2>2. \A i \in 1 .. n : b.recs[i].parent \in {PARENT_NONE} \cup 1 .. n
    BY <2>1 DEF BaseOK
  <2> QED  BY <2>1, <2>2 DEF BaseRecord
<1>2. start \in V
  BY <1>1
<1>3. step \in [V -> V]
  <2> SUFFICES ASSUME NEW row \in V PROVE next(row) \in V
    OBVIOUS
  <2> SUFFICES ASSUME NEW i \in 1 .. n
               PROVE  (IF Ends(i) THEN <<b.recs[i].name>> ELSE Append(row[b.recs[i].parent], b.recs[i].name)) \in Seq(Nat)
    OBVIOUS
  <2> QED  BY <1>1
<1> HIDE DEF n, V, start, step
<1>4. PICK w : Iterates(w, V, start, step, n)
  <2>1. n \in Nat
    BY <1>1
  <2> QED  BY <1>2, <1>3, <2>1, Iterated
<1>5. Is(w)
  <2>1. ASSUME NEW h \in 0 .. n PROVE w[h] = Row(w, h)
    <3>1. CASE h = 0
      <4>1. w[h] = start
        BY <1>4, <3>1 DEF Iterates
      <4> QED  BY <3>1, <4>1 DEF start
    <3>2. CASE h # 0
      <4>1. h - 1 \in 0 .. n /\ w[h] = step[w[h - 1]]
        BY <1>1, <1>4, <3>2 DEF Iterates
      <4>2. w[h - 1] \in V
        BY <1>4, <4>1 DEF Iterates
      <4>3. w[h] = next(w[h - 1])
        BY <4>1, <4>2 DEF step
      <4> QED  BY <3>2, <4>3
    <3> QED  BY <3>1, <3>2
  <2> HIDE DEF Row
  <2>2. w = [h \in 0 .. n |-> w[h]]
    BY <1>4 DEF Iterates
  <2> QED  BY <2>1, <2>2
<1> DEFINE p == CHOOSE q : Is(q)
<1>6. Is(p)
  BY <1>5
<1>7. \A i \in 1 .. n : FullPath(b, i) = p[n][i]
  BY DEF FullPath, n
<1> HIDE DEF p
<1>8. p = w
  <2> DEFINE S == {k \in Nat : k <= n => p[k] = w[k]}
  <2> HIDE DEF Row
  <2>1. 0 \in S
    <3>1. 0 \in 0 .. n
      BY <1>1
    <3>2. p[0] = Row(p, 0) /\ w[0] = Row(w, 0)
      BY <1>5, <1>6, <3>1
    <3>3. Row(p, 0) = Row(w, 0)
      BY DEF Row
    <3> QED  BY <3>2, <3>3
  <2>2. ASSUME NEW k \in Nat, k \in S PROVE k + 1 \in S
    <3> SUFFICES ASSUME k + 1 <= n PROVE p[k + 1] = w[k + 1]
      OBVIOUS
    <3>1. k + 1 \in 0 .. n /\ (k + 1) - 1 = k /\ p[k] = w[k]
      BY <1>1, <2>2
    <3>2. p[k + 1] = Row(p, k + 1) /\ w[k + 1] = Row(w, k + 1)
      BY <1>5, <1>6, <3>1
    <3>3. Row(p, k + 1) = Row(w, k + 1)
      BY <3>1 DEF Row
    <3> QED  BY <3>2, <3>3
  <2> HIDE DEF S
  <2>3. Nat \subseteq S
    BY <2>1, <2>2, NatSetInduction
  <2>4. \A k \in 0 .. n : p[k] = w[k]
    BY <1>1, <2>3 DEF S
  <2>5. p = [k \in 0 .. n |-> p[k]] /\ w = [k \in 0 .. n |-> w[k]]
    BY <1>4, <1>6 DEF Iterates
  <2> QED  BY <2>4, <2>5
<1>9. \A h \in 0 .. n, i \in 1 .. n :
        p[h][i] = IF h = 0 \/ Ends(i) THEN <<b.recs[i].name>>
                  ELSE Append(p[h - 1][b.recs[i].parent], b.recs[i].name)
  <2> SUFFICES ASSUME NEW h \in 0 .. n, NEW i \in 1 .. n
               PROVE  p[h][i] = IF h = 0 \/ Ends(i) THEN <<b.recs[i].name>>
                                ELSE Append(p[h - 1][b.recs[i].parent], b.recs[i].name)
    OBVIOUS
  <2>1. p[h] = Row(p, h)
    BY <1>6
  <2>2. p[h][i] = Row(p, h)[i]
    BY <2>1
  <2>3. Row(p, h)[i] = IF h = 0 \/ Ends(i) THEN <<b.recs[i].name>>
                       ELSE Append(p[h - 1][b.recs[i].parent], b.recs[i].name)
    BY Zenon DEF Row
  <2> HIDE DEF Row, Ends
  <2> QED  BY <2>2, <2>3
<1> QED  BY <1>4, <1>7, <1>8, <1>9 DEF BasePaths, Iterates, n, V

\* A walk through a base up to a record without a parent spells its first record's path.
LEMMA FullPathWalk ==
  ASSUME NEW b, BaseOK(b), NEW m \in Nat, NEW from \in 0 .. m, NEW x, NEW names,
         \A k \in from .. m : x[k] \in DOMAIN b.recs /\ names[k] = b.recs[x[k]].name,
         \A k \in from .. m - 1 : b.recs[x[k]].parent = x[k + 1],
         b.recs[x[m]].parent = PARENT_NONE
  PROVE  FullPath(b, x[from]) = PathNames(names, m, from)
<1> DEFINE n == Len(b.recs)
<1>1. n \in Nat /\ DOMAIN b.recs = 1 .. n
  BY DEF BaseOK
<1>2. \A i, j \in from .. m : x[i] = x[j] => i = j
  <2>1. \A i, j \in from .. m - 1 : x[i] = x[j] => x[i + 1] = x[j + 1]
    OBVIOUS
  <2>2. \A i \in from .. m - 1 : x[i] # x[m]
    <3> SUFFICES ASSUME NEW i \in from .. m - 1, x[i] = x[m] PROVE FALSE
      OBVIOUS
    <3>1. x[i + 1] \in 1 .. n /\ b.recs[x[i]].parent = x[i + 1]
      BY <1>1
    <3>2. x[i + 1] = PARENT_NONE
      BY <3>1
    <3> QED  BY <1>1, <3>1, <3>2 DEF PARENT_NONE
  <2> QED  BY <2>1, <2>2, WalkIsInjective
<1>3. m - from + 1 <= n
  <2>1. IsFiniteSet(1 .. n) /\ Cardinality(1 .. n) = n
    BY <1>1, FS_Interval
  <2>2. \A k \in from .. m : x[k] \in 1 .. n
    BY <1>1
  <2>3. m - from + 1 <= Cardinality(1 .. n)
    <3> DEFINE V == 1 .. n
    <3>1. IsFiniteSet(V) /\ \A k \in from .. m : x[k] \in V
      BY <2>1, <2>2
    <3> HIDE DEF V
    <3>2. m - from + 1 <= Cardinality(V)
      BY <1>2, <3>1, WalkIsShort
    <3> QED  BY <3>2 DEF V
  <2> QED  BY <2>1, <2>3
<1>4. PICK p : BasePaths(b, p)
  BY BasePathsExist
<1>5. /\ \A h \in 0 .. n, i \in 1 .. n :
           p[h][i] = IF h = 0 \/ b.recs[i].parent \in {PARENT_NONE, i}
                     THEN <<b.recs[i].name>>
                     ELSE Append(p[h - 1][b.recs[i].parent], b.recs[i].name)
      /\ \A i \in 1 .. n : FullPath(b, i) = p[n][i]
  BY <1>4 DEF BasePaths
<1> HIDE DEF n
<1> DEFINE S == {k \in Nat : m - k >= from => \A h \in k .. n : p[h][x[m - k]] = PathNames(names, m, m - k)}
<1>6. 0 \in S
  <2> SUFFICES ASSUME NEW h \in 0 .. n PROVE p[h][x[m]] = PathNames(names, m, m)
    OBVIOUS
  <2>1. x[m] \in 1 .. n /\ b.recs[x[m]].parent \in {PARENT_NONE, x[m]} /\ names[m] = b.recs[x[m]].name
    BY <1>1
  <2>2. p[h][x[m]] = <<names[m]>>
    <3>1. p[h][x[m]] = IF h = 0 \/ b.recs[x[m]].parent \in {PARENT_NONE, x[m]}
                       THEN <<b.recs[x[m]].name>>
                       ELSE Append(p[h - 1][b.recs[x[m]].parent], b.recs[x[m]].name)
      BY <1>5, <2>1
    <3> QED  BY <2>1, <3>1
  <2> QED  BY <2>2, PathNamesStep
<1>7. ASSUME NEW k \in Nat, k \in S PROVE k + 1 \in S
  <2> DEFINE g == m - (k + 1)
  <2> SUFFICES ASSUME g >= from, NEW h \in k + 1 .. n PROVE p[h][x[g]] = PathNames(names, m, g)
    OBVIOUS
  <2>1. g \in from .. m - 1 /\ g \in from .. m /\ g + 1 = m - k /\ g + 1 \in from .. m /\ g \in 0 .. m - 1 /\ g # g + 1
    OBVIOUS
  <2>2. h \in 0 .. n /\ h # 0 /\ h - 1 \in k .. n
    BY <1>1
  <2>3. p[h - 1][x[g + 1]] = PathNames(names, m, g + 1)
    BY <1>7, <2>1, <2>2
  <2> HIDE DEF g
  <2>4. x[g] \in 1 .. n /\ names[g] = b.recs[x[g]].name /\ b.recs[x[g]].parent = x[g + 1]
    BY <1>1, <2>1
  <2>5. x[g + 1] \notin {PARENT_NONE, x[g]}
    <3>1. x[g + 1] \in 1 .. n
      BY <1>1, <2>1
    <3> QED  BY <1>2, <2>1, <3>1 DEF PARENT_NONE
  <2>6. p[h][x[g]] = Append(p[h - 1][x[g + 1]], names[g])
    <3> DEFINE i == x[g]
               u == x[g + 1]
               v == names[g]
    <3>1. i \in 1 .. n /\ v = b.recs[i].name /\ b.recs[i].parent = u /\ u \notin {PARENT_NONE, i}
      BY <2>4, <2>5
    <3> HIDE DEF i, u, v
    <3>2. p[h][i] = IF h = 0 \/ b.recs[i].parent \in {PARENT_NONE, i}
                    THEN <<b.recs[i].name>>
                    ELSE Append(p[h - 1][b.recs[i].parent], b.recs[i].name)
      BY <1>5, <2>2, <3>1
    <3>3. p[h][i] = Append(p[h - 1][u], v)
      BY <2>2, <3>1, <3>2
    <3> QED  BY <3>3 DEF i, u, v
  <2>7. PathNames(names, m, g) = Append(PathNames(names, m, g + 1), names[g])
    BY <2>1, PathNamesStep
  <2> QED  BY <2>3, <2>6, <2>7
<1> HIDE DEF S
<1>8. m - from \in S
  BY <1>6, <1>7, NatSetInduction
<1>9. m - (m - from) = from /\ n \in m - from .. n
  BY <1>1, <1>3
<1>10. p[n][x[from]] = PathNames(names, m, from)
  BY <1>8, <1>9 DEF S
<1>11. from \in from .. m
  OBVIOUS
<1> QED  BY <1>1, <1>5, <1>10, <1>11

\* The paths of a delta's additions, cut off after so many hops.
DeltaPaths(b, d, q) ==
  LET n == Len(d.added)
  IN  /\ \A h \in 0 .. n, i \in 1 .. n :
           q[h][i] = Append(IF d.added[i].parent[1] = "base" THEN FullPath(b, d.added[i].parent[2])
                            ELSE IF d.added[i].parent[1] = "delta" /\ h > 0 THEN q[h - 1][d.added[i].parent[2]]
                            ELSE <<>>,
                            d.added[i].name)
      /\ \A i \in 1 .. n : DeltaPath(b, d, i) = q[n][i]

LEMMA FullPathType ==
  ASSUME NEW b, BaseOK(b), NEW i \in DOMAIN b.recs
  PROVE  FullPath(b, i) \in Seq(Nat)
<1>1. PICK p : BasePaths(b, p)
  BY BasePathsExist
<1>2. Len(b.recs) \in 0 .. Len(b.recs) /\ i \in 1 .. Len(b.recs)
  BY DEF BaseOK
<1>3. p[Len(b.recs)][i] \in Seq(Nat)
  BY <1>1, <1>2 DEF BasePaths
<1> QED  BY <1>1, <1>2, <1>3 DEF BasePaths

LEMMA DeltaPathsExist ==
  ASSUME NEW b, BaseOK(b), NEW d, DeltaOK(b, d)
  PROVE  \E q : DeltaPaths(b, d, q)
<1> DEFINE n == Len(d.added)
           V == [1 .. n -> Seq(Nat)]
           Up(i) == d.added[i].parent
           start == [i \in 1 .. n |-> Append(IF Up(i)[1] = "base" THEN FullPath(b, Up(i)[2]) ELSE <<>>,
                                             d.added[i].name)]
           next(row) == [i \in 1 .. n |-> Append(IF Up(i)[1] = "base" THEN FullPath(b, Up(i)[2]) ELSE row[Up(i)[2]],
                                                 d.added[i].name)]
           step == [row \in V |-> next(row)]
           Row(q, h) == [i \in 1 .. n |->
                           Append(IF Up(i)[1] = "base" THEN FullPath(b, Up(i)[2])
                                  ELSE IF Up(i)[1] = "delta" /\ h > 0 THEN q[h - 1][Up(i)[2]]
                                  ELSE <<>>,
                                  d.added[i].name)]
           Is(q) == q = [h \in 0 .. n |-> Row(q, h)]
<1>1. n \in Nat /\ DOMAIN d.added = 1 .. n /\ \A i \in 1 .. n : d.added[i].name \in Nat
  <2>1. n \in Nat /\ DOMAIN d.added = 1 .. n /\ \A i \in 1 .. n : d.added[i] \in Addition
    BY DEF DeltaOK, Deltas
  <2> QED  BY <2>1 DEF Addition
<1>2. \A i \in 1 .. n : \/ Up(i)[1] = "base" /\ FullPath(b, Up(i)[2]) \in Seq(Nat)
                        \/ Up(i)[1] = "delta" /\ Up(i)[2] \in 1 .. n
  <2> SUFFICES ASSUME NEW i \in 1 .. n
               PROVE  \/ Up(i)[1] = "base" /\ FullPath(b, Up(i)[2]) \in Seq(Nat)
                      \/ Up(i)[1] = "delta" /\ Up(i)[2] \in 1 .. n
    OBVIOUS
  <2>1. Up(i) \in {BaseRef(j) : j \in DOMAIN b.recs} \cup {DeltaRef(j) : j \in 1 .. i - 1}
    BY <1>1 DEF DeltaOK
  <2>2. CASE Up(i) \in {BaseRef(j) : j \in DOMAIN b.recs}
    BY <2>2, FullPathType DEF BaseRef
  <2>3. CASE Up(i) \in {DeltaRef(j) : j \in 1 .. i - 1}
    BY <1>1, <2>3 DEF DeltaRef
  <2> QED  BY <2>1, <2>2, <2>3
<1> HIDE DEF n, Up
<1>3. start \in V
  <2> SUFFICES ASSUME NEW i \in 1 .. n
               PROVE  Append(IF Up(i)[1] = "base" THEN FullPath(b, Up(i)[2]) ELSE <<>>, d.added[i].name) \in Seq(Nat)
    OBVIOUS
  <2>1. (IF Up(i)[1] = "base" THEN FullPath(b, Up(i)[2]) ELSE <<>>) \in Seq(Nat)
    BY <1>2
  <2> QED  BY <1>1, <2>1, AppendProperties
<1>4. step \in [V -> V]
  <2> SUFFICES ASSUME NEW row \in V, NEW i \in 1 .. n
               PROVE  Append(IF Up(i)[1] = "base" THEN FullPath(b, Up(i)[2]) ELSE row[Up(i)[2]], d.added[i].name) \in Seq(Nat)
    OBVIOUS
  <2>1. (IF Up(i)[1] = "base" THEN FullPath(b, Up(i)[2]) ELSE row[Up(i)[2]]) \in Seq(Nat)
    BY <1>2
  <2> QED  BY <1>1, <2>1, AppendProperties
<1> HIDE DEF V, start, step
<1>5. PICK w : Iterates(w, V, start, step, n)
  <2>1. n \in Nat
    BY <1>1
  <2> QED  BY <1>3, <1>4, <2>1, Iterated
<1>6. ASSUME NEW h \in 0 .. n PROVE w[h] = Row(w, h)
  <2>1. CASE h = 0
    <3>1. w[h] = start
      BY <1>5, <2>1 DEF Iterates
    <3>2. start = Row(w, h)
      <4>1. ASSUME NEW i \in 1 .. n
            PROVE  (IF Up(i)[1] = "base" THEN FullPath(b, Up(i)[2]) ELSE <<>>)
                     = IF Up(i)[1] = "base" THEN FullPath(b, Up(i)[2])
                       ELSE IF Up(i)[1] = "delta" /\ h > 0 THEN w[h - 1][Up(i)[2]]
                       ELSE <<>>
        BY <1>2, <2>1
      <4> QED  BY <4>1 DEF start
    <3> QED  BY <3>1, <3>2
  <2>2. CASE h # 0
    <3>1. h - 1 \in 0 .. n /\ h > 0 /\ w[h] = step[w[h - 1]]
      BY <1>1, <1>5, <2>2 DEF Iterates
    <3>2. w[h - 1] \in V
      BY <1>5, <3>1 DEF Iterates
    <3>3. w[h] = next(w[h - 1])
      BY <3>1, <3>2 DEF step
    <3>4. next(w[h - 1]) = Row(w, h)
      <4>1. ASSUME NEW i \in 1 .. n
            PROVE  (IF Up(i)[1] = "base" THEN FullPath(b, Up(i)[2]) ELSE w[h - 1][Up(i)[2]])
                     = IF Up(i)[1] = "base" THEN FullPath(b, Up(i)[2])
                       ELSE IF Up(i)[1] = "delta" /\ h > 0 THEN w[h - 1][Up(i)[2]]
                       ELSE <<>>
        BY <1>2, <3>1
      <4> QED  BY <4>1
    <3> QED  BY <3>3, <3>4
  <2> QED  BY <2>1, <2>2
<1> HIDE DEF Row
<1>7. Is(w)
  <2>1. w = [h \in 0 .. n |-> w[h]]
    BY <1>5 DEF Iterates
  <2> QED  BY <1>6, <2>1
<1> DEFINE q == CHOOSE p : Is(p)
<1>8. Is(q)
  BY <1>7
<1>9. \A i \in 1 .. n : DeltaPath(b, d, i) = q[n][i]
  BY DEF DeltaPath, Row, Up, n
<1> HIDE DEF q
<1>10. ASSUME NEW h \in 0 .. n, NEW i \in 1 .. n
       PROVE  q[h][i] = Append(IF Up(i)[1] = "base" THEN FullPath(b, Up(i)[2])
                               ELSE IF Up(i)[1] = "delta" /\ h > 0 THEN q[h - 1][Up(i)[2]]
                               ELSE <<>>,
                               d.added[i].name)
  <2>1. q[h] = Row(q, h)
    BY <1>8
  <2> QED  BY <2>1 DEF Row
<1> QED  BY <1>9, <1>10 DEF DeltaPaths, n, Up

\* All that a reference can point to, dead or alive.
Refs(b, d) == {BaseRef(i) : i \in DOMAIN b.recs} \cup {DeltaRef(i) : i \in DOMAIN d.added}

\* A walk up from a record to one without a parent.
Climbs(b, d, r, m) ==
  /\ \A k \in 0 .. m : r[k] \in Refs(b, d)
  /\ \A k \in 0 .. m - 1 : ParentOf(b, d, r[k]) = {r[k + 1]}
  /\ ParentOf(b, d, r[m]) = {}

\* A walk that is in the base stays there.
LEMMA ClimbInBase ==
  ASSUME NEW b, BaseOK(b), NEW d, NEW r, NEW m \in Nat, Climbs(b, d, r, m), NEW from \in 0 .. m,
         r[from] \in {BaseRef(i) : i \in DOMAIN b.recs}
  PROVE  /\ \A k \in from .. m : r[k] = BaseRef(r[k][2]) /\ r[k][2] \in DOMAIN b.recs
         /\ \A k \in from .. m - 1 : b.recs[r[k][2]].parent = r[k + 1][2]
         /\ b.recs[r[m][2]].parent = PARENT_NONE
<1> DEFINE In(k) == r[k] = BaseRef(r[k][2]) /\ r[k][2] \in DOMAIN b.recs
           S == {k \in Nat : from + k <= m => In(from + k)}
<1>1. ASSUME NEW k \in 0 .. m, In(k)
      PROVE  ParentOf(b, d, r[k]) = {BaseRef(p) : p \in {b.recs[r[k][2]].parent} \ {PARENT_NONE}}
  BY <1>1 DEF BaseRef, ParentOf
<1>2. ASSUME NEW k \in from .. m - 1, In(k) PROVE In(k + 1) /\ b.recs[r[k][2]].parent = r[k + 1][2]
  <2>1. r[k + 1] \in {BaseRef(p) : p \in {b.recs[r[k][2]].parent} \ {PARENT_NONE}}
    <3>1. k \in 0 .. m /\ k \in 0 .. m - 1
      OBVIOUS
    <3>2. ParentOf(b, d, r[k]) = {r[k + 1]}
      BY <3>1 DEF Climbs
    <3> HIDE DEF In
    <3> QED  BY <1>1, <1>2, <3>1, <3>2
  <2>2. r[k + 1] = BaseRef(b.recs[r[k][2]].parent) /\ b.recs[r[k][2]].parent # PARENT_NONE
    BY <2>1
  <2>3. b.recs[r[k][2]].parent \in DOMAIN b.recs
    BY <1>2, <2>2 DEF BaseOK
  <2>4. r[k + 1][2] = b.recs[r[k][2]].parent
    BY <2>2 DEF BaseRef
  <2> QED  BY <2>2, <2>3, <2>4
<1>3. 0 \in S
  BY DEF BaseRef
<1>4. ASSUME NEW k \in Nat, k \in S PROVE k + 1 \in S
  <2> SUFFICES ASSUME from + (k + 1) <= m PROVE In(from + (k + 1))
    OBVIOUS
  <2>1. from + k \in from .. m - 1 /\ (from + k) + 1 = from + (k + 1) /\ In(from + k)
    BY <1>4
  <2> HIDE DEF In
  <2> QED  BY <1>2, <2>1
<1> HIDE DEF S
<1>5. Nat \subseteq S
  BY <1>3, <1>4, NatSetInduction
<1>6. ASSUME NEW k \in from .. m PROVE In(k)
  <2>1. k - from \in Nat /\ from + (k - from) = k
    OBVIOUS
  <2>2. k - from \in S
    BY <1>5, <2>1
  <2> HIDE DEF In
  <2> QED  BY <2>1, <2>2 DEF S
<1>7. b.recs[r[m][2]].parent = PARENT_NONE
  <2>1. {BaseRef(p) : p \in {b.recs[r[m][2]].parent} \ {PARENT_NONE}} = {}
    BY <1>1, <1>6 DEF Climbs
  <2> QED  BY <2>1
<1> QED  BY <1>2, <1>6, <1>7

\* The path of a record is the names of what is above it.
LEMMA PathOfClimb ==
  ASSUME NEW b, BaseOK(b), NEW d, DeltaOK(b, d), NEW r, NEW m \in Nat, Climbs(b, d, r, m),
         NEW names, \A k \in 0 .. m : names[k] = Record(b, d, r[k]).name
  PROVE  PathOf(b, d, r[0]) = PathNames(names, m, 0)
<1> DEFINE n == Len(d.added)
           Bases == {BaseRef(i) : i \in DOMAIN b.recs}
           Adds == {DeltaRef(i) : i \in DOMAIN d.added}
<1>1. n \in Nat /\ DOMAIN d.added = 1 .. n
  BY DEF DeltaOK, Deltas
<1>2. PICK q : DeltaPaths(b, d, q)
  BY DeltaPathsExist
<1>3. ASSUME NEW k \in 0 .. m, r[k] \in Bases PROVE FullPath(b, r[k][2]) = PathNames(names, m, k)
  <2> DEFINE x == [j \in 0 .. m |-> r[j][2]]
  <2>1. /\ \A j \in k .. m : r[j] = BaseRef(r[j][2]) /\ r[j][2] \in DOMAIN b.recs
        /\ \A j \in k .. m - 1 : b.recs[r[j][2]].parent = r[j + 1][2]
        /\ b.recs[r[m][2]].parent = PARENT_NONE
    BY <1>3, ClimbInBase
  <2>2. \A j \in k .. m : x[j] \in DOMAIN b.recs /\ names[j] = b.recs[x[j]].name
    <3> SUFFICES ASSUME NEW j \in k .. m PROVE x[j] \in DOMAIN b.recs /\ names[j] = b.recs[x[j]].name
      OBVIOUS
    <3>1. j \in 0 .. m /\ x[j] = r[j][2] /\ r[j] = BaseRef(r[j][2]) /\ r[j][2] \in DOMAIN b.recs
      BY <2>1
    <3>2. Record(b, d, r[j]) = b.recs[r[j][2]]
      BY <3>1 DEF BaseRef, Record
    <3> QED  BY <3>1, <3>2
  <2>3. \A j \in k .. m - 1 : b.recs[x[j]].parent = x[j + 1]
    BY <2>1
  <2>4. b.recs[x[m]].parent = PARENT_NONE /\ x[k] = r[k][2]
    BY <2>1
  <2> HIDE DEF x
  <2> QED  BY <2>2, <2>3, <2>4, FullPathWalk
<1> HIDE DEF n, Bases
<1> DEFINE S == {j \in Nat : m - j >= 0 /\ r[m - j] \in Adds =>
                               \A h \in 0 .. n : h >= r[m - j][2] - 1 =>
                                 q[h][r[m - j][2]] = PathNames(names, m, m - j)}
<1>4. ASSUME NEW k \in 0 .. m, r[k] \in Adds
      PROVE  /\ k < m /\ r[k] = DeltaRef(r[k][2]) /\ r[k][2] \in 1 .. n
             /\ r[k + 1] = d.added[r[k][2]].parent /\ names[k] = d.added[r[k][2]].name
             /\ \/ r[k + 1] \in Bases /\ r[k + 1][1] = "base"
                \/ r[k + 1] \in Adds /\ r[k + 1][1] = "delta" /\ r[k + 1][2] \in 1 .. r[k][2] - 1
  <2>1. PICK i \in 1 .. n : r[k] = DeltaRef(i)
    BY <1>1, <1>4
  <2>2. r[k][2] = i /\ ParentOf(b, d, r[k]) = {d.added[i].parent} /\ Record(b, d, r[k]) = d.added[i]
    BY <2>1 DEF DeltaRef, ParentOf, Record
  <2>3. k < m /\ r[k + 1] = d.added[i].parent
    <3>1. k # m
      BY <2>2 DEF Climbs
    <3>2. k \in 0 .. m - 1
      BY <3>1
    <3> QED  BY <2>2, <3>2 DEF Climbs
  <2>4. d.added[i].parent \in {BaseRef(j) : j \in DOMAIN b.recs} \cup {DeltaRef(j) : j \in 1 .. i - 1}
    BY <1>1 DEF DeltaOK
  <2>5. CASE r[k + 1] \in Bases
    <3>1. r[k + 1][1] = "base"
      BY <2>5 DEF Bases, BaseRef
    <3> QED  BY <2>1, <2>2, <2>3, <2>5, <3>1
  <2>6. CASE r[k + 1] \in {DeltaRef(j) : j \in 1 .. i - 1}
    <3>1. r[k + 1] \in Adds /\ r[k + 1][1] = "delta" /\ r[k + 1][2] \in 1 .. i - 1
      <4>1. PICK j \in 1 .. i - 1 : r[k + 1] = DeltaRef(j)
        BY <2>6
      <4>2. j \in 1 .. n
        BY <1>1
      <4> QED  BY <1>1, <4>1, <4>2 DEF DeltaRef
    <3> QED  BY <2>1, <2>2, <2>3, <3>1
  <2> QED  BY <2>3, <2>4, <2>5, <2>6 DEF Bases
<1>5. /\ \A h \in 0 .. n, i \in 1 .. n :
           q[h][i] = Append(IF d.added[i].parent[1] = "base" THEN FullPath(b, d.added[i].parent[2])
                            ELSE IF d.added[i].parent[1] = "delta" /\ h > 0 THEN q[h - 1][d.added[i].parent[2]]
                            ELSE <<>>,
                            d.added[i].name)
      /\ \A i \in 1 .. n : DeltaPath(b, d, i) = q[n][i]
  BY <1>2 DEF DeltaPaths, n
<1> HIDE DEF Adds
<1>6. ASSUME NEW k \in 0 .. m, r[k] \in Adds, NEW h \in 0 .. n, h >= r[k][2] - 1,
             r[k + 1] \in Adds => h > 0 /\ q[h - 1][r[k + 1][2]] = PathNames(names, m, k + 1)
      PROVE  q[h][r[k][2]] = PathNames(names, m, k)
  <2>1. /\ k < m /\ r[k][2] \in 1 .. n
        /\ r[k + 1] = d.added[r[k][2]].parent /\ names[k] = d.added[r[k][2]].name
        /\ \/ r[k + 1] \in Bases /\ r[k + 1][1] = "base"
           \/ r[k + 1] \in Adds /\ r[k + 1][1] = "delta"
    BY <1>4, <1>6
  <2>2. k + 1 \in 0 .. m /\ k \in 0 .. m - 1
    BY <2>1
  <2>3. q[h][r[k][2]] = Append(IF r[k + 1][1] = "base" THEN FullPath(b, r[k + 1][2])
                               ELSE IF r[k + 1][1] = "delta" /\ h > 0 THEN q[h - 1][r[k + 1][2]]
                               ELSE <<>>, names[k])
    <3> DEFINE i == r[k][2]
    <3>1. i \in 1 .. n /\ d.added[i].parent = r[k + 1] /\ d.added[i].name = names[k]
      BY <2>1
    <3> HIDE DEF i
    <3>2. q[h][i] = Append(IF d.added[i].parent[1] = "base" THEN FullPath(b, d.added[i].parent[2])
                           ELSE IF d.added[i].parent[1] = "delta" /\ h > 0 THEN q[h - 1][d.added[i].parent[2]]
                           ELSE <<>>, d.added[i].name)
      BY <1>5, <3>1
    <3>3. q[h][i] = Append(IF r[k + 1][1] = "base" THEN FullPath(b, r[k + 1][2])
                           ELSE IF r[k + 1][1] = "delta" /\ h > 0 THEN q[h - 1][r[k + 1][2]]
                           ELSE <<>>, names[k])
      BY <3>1, <3>2
    <3> QED  BY <3>3 DEF i
  <2>4. CASE r[k + 1] \in Bases /\ r[k + 1][1] = "base"
    <3>1. FullPath(b, r[k + 1][2]) = PathNames(names, m, k + 1)
      BY <1>3, <2>2, <2>4
    <3>2. q[h][r[k][2]] = Append(FullPath(b, r[k + 1][2]), names[k])
      BY <2>3, <2>4
    <3> QED  BY <2>2, <3>1, <3>2, PathNamesStep
  <2>5. CASE r[k + 1] \in Adds /\ r[k + 1][1] = "delta"
    <3>1. q[h][r[k][2]] = Append(q[h - 1][r[k + 1][2]], names[k])
      BY <1>6, <2>3, <2>5
    <3>2. PathNames(names, m, k) = Append(PathNames(names, m, k + 1), names[k])
      BY <2>2, PathNamesStep
    <3>3. q[h - 1][r[k + 1][2]] = PathNames(names, m, k + 1)
      BY <1>6, <2>5
    <3> QED  BY <3>1, <3>2, <3>3
  <2> QED  BY <2>1, <2>4, <2>5
<1>7. 0 \in S
  <2>1. m \in 0 .. m /\ ~(m < m) /\ m - 0 = m
    OBVIOUS
  <2>2. r[m] \notin Adds
    BY <1>4, <2>1
  <2> QED  BY <2>1, <2>2
<1>8. ASSUME NEW j \in Nat, j \in S PROVE j + 1 \in S
  <2> DEFINE k == m - (j + 1)
  <2> SUFFICES ASSUME k >= 0, r[k] \in Adds, NEW h \in 0 .. n, h >= r[k][2] - 1
               PROVE  q[h][r[k][2]] = PathNames(names, m, k)
    OBVIOUS
  <2>1. k \in 0 .. m /\ k + 1 = m - j /\ m - j >= 0
    OBVIOUS
  <2>a. ASSUME r[k + 1] \in Adds, NEW i \in 0 .. n, i >= r[k + 1][2] - 1
        PROVE  q[i][r[k + 1][2]] = PathNames(names, m, k + 1)
    BY <1>8, <2>a, <2>1
  <2> HIDE DEF k
  <2>2. ASSUME r[k + 1] \in Adds PROVE h > 0 /\ q[h - 1][r[k + 1][2]] = PathNames(names, m, k + 1)
    <3>1. r[k + 1][1] # "base"
      BY <2>2 DEF Adds, DeltaRef
    <3>2. r[k][2] \in 1 .. n /\ r[k + 1][2] \in 1 .. r[k][2] - 1
      BY <1>4, <2>1, <3>1, Zenon
    <3>3. h > 0 /\ h - 1 \in 0 .. n /\ h - 1 >= r[k + 1][2] - 1
      BY <1>1, <3>1, <3>2
    <3>4. q[h - 1][r[k + 1][2]] = PathNames(names, m, k + 1)
      BY <2>a, <2>2, <3>3
    <3> QED  BY <3>3, <3>4
  <2> QED  BY <1>6, <2>1, <2>2
<1> HIDE DEF S
<1>9. m \in S
  BY <1>7, <1>8, NatSetInduction
<1>10. m - m = 0 /\ 0 \in 0 .. m
  OBVIOUS
<1>11. CASE r[0] \in Adds
  <2>1. r[0] = DeltaRef(r[0][2]) /\ r[0][2] \in 1 .. n
    BY <1>4, <1>10, <1>11
  <2>2. n \in 0 .. n /\ n >= r[0][2] - 1
    BY <1>1, <2>1
  <2>3. q[n][r[0][2]] = PathNames(names, m, 0)
    BY <1>9, <1>10, <1>11, <2>2 DEF S
  <2>4. PathOf(b, d, r[0]) = DeltaPath(b, d, r[0][2])
    BY <2>1 DEF DeltaRef, PathOf
  <2> QED  BY <1>5, <2>1, <2>3, <2>4
<1>12. CASE r[0] \in Bases
  <2>1. PathOf(b, d, r[0]) = FullPath(b, r[0][2])
    BY <1>12 DEF Bases, BaseRef, PathOf
  <2> QED  BY <1>3, <1>10, <1>12, <2>1
<1> QED  BY <1>10, <1>11, <1>12 DEF Climbs, Refs, Bases, Adds

-----------------------------------------------------------------------------
(* The file system's own paths. *)

\* What a volume's tree is like, as far as paths go.
TreeLike(files) ==
  /\ IsFiniteSet(DOMAIN files) /\ Root \in DOMAIN files /\ files[Root].parent = Root
  /\ \A f \in DOMAIN files : files[f].name \in Nat /\ files[f].parent \in DOMAIN files
  /\ Acyclic(files)

\* From a file up to the root, which is met at the end only.
Ascent(files, f, c, m) ==
  /\ c \in [0 .. m -> DOMAIN files] /\ c[0] = f
  /\ \A k \in 0 .. m - 1 : c[k + 1] = files[c[k]].parent /\ c[k] # Root

\* Every file is somewhere below the root: the files that an ascent reaches would
\* be in each other otherwise.
LEMMA AscentExists ==
  ASSUME NEW files, TreeLike(files), NEW f \in DOMAIN files
  PROVE  \E m \in Nat : \E c : Ascent(files, f, c, m) /\ c[m] = Root
<1> DEFINE S == {g \in DOMAIN files : \E m \in Nat : \E c : Ascent(files, f, c, m) /\ c[m] = g}
<1>1. f \in S
  <2> DEFINE c == [k \in 0 .. 0 |-> f]
  <2>1. Ascent(files, f, c, 0) /\ c[0] = f
    BY DEF Ascent
  <2> HIDE DEF c
  <2> QED  BY <2>1
<1>2. ASSUME NEW g \in S, g # Root PROVE files[g].parent \in S
  <2>m. PICK m \in Nat : \E c : Ascent(files, f, c, m) /\ c[m] = g
    OBVIOUS
  <2>1. PICK c : Ascent(files, f, c, m) /\ c[m] = g
    BY <2>m
  <2> DEFINE p == files[g].parent
             h == [k \in 0 .. m + 1 |-> IF k = m + 1 THEN p ELSE c[k]]
  <2>2. p \in DOMAIN files
    BY DEF TreeLike
  <2>3. h \in [0 .. m + 1 -> DOMAIN files] /\ h[0] = f /\ h[m + 1] = p
    BY <2>1, <2>2 DEF Ascent
  <2>4. ASSUME NEW k \in 0 .. (m + 1) - 1 PROVE h[k + 1] = files[h[k]].parent /\ h[k] # Root
    <3>1. CASE k = m
      BY <1>2, <2>1, <3>1
    <3>2. CASE k # m
      <4>1. k \in 0 .. m - 1 /\ k # m + 1 /\ k + 1 # m + 1 /\ k \in 0 .. m + 1 /\ k + 1 \in 0 .. m + 1
        BY <3>2
      <4>2. h[k] = c[k] /\ h[k + 1] = c[k + 1]
        BY <4>1
      <4> HIDE DEF h
      <4> QED  BY <2>1, <4>1, <4>2 DEF Ascent
    <3> QED  BY <3>1, <3>2
  <2> HIDE DEF h
  <2>5. Ascent(files, f, h, m + 1)
    BY <2>3, <2>4 DEF Ascent
  <2> QED  BY <2>2, <2>3, <2>5
<1>3. Root \in S
  <2> SUFFICES ASSUME Root \notin S PROVE FALSE
    OBVIOUS
  <2> HIDE DEF S
  <2>1. S \in SUBSET (DOMAIN files \ {Root}) /\ S # {}
    BY <1>1 DEF S
  <2>2. PICK g \in S : files[g].parent \notin S
    BY <2>1 DEF TreeLike, Acyclic
  <2> QED  BY <1>2, <2>2
<1> QED  BY <1>3

\* It is no longer than there are files.
LEMMA AscentIsShort ==
  ASSUME NEW files, TreeLike(files), NEW f, NEW m \in Nat, NEW c, Ascent(files, f, c, m), c[m] = Root
  PROVE  m + 1 <= Cardinality(DOMAIN files)
<1>1. \A i, j \in 0 .. m - 1 : c[i] = c[j] => c[i + 1] = c[j + 1]
  BY DEF Ascent
<1>2. \A i \in 0 .. m - 1 : c[i] # c[m]
  BY DEF Ascent
<1>3. \A k \in 0 .. m : c[k] \in DOMAIN files
  BY DEF Ascent
<1>4. 0 \in 0 .. m
  OBVIOUS
<1>5. \A i, j \in 0 .. m : c[i] = c[j] => i = j
  BY <1>1, <1>2, <1>4, WalkIsInjective
<1>6. m - 0 + 1 <= Cardinality(DOMAIN files)
  BY <1>3, <1>4, <1>5, WalkIsShort DEF TreeLike
<1> QED  BY <1>6

\* Ancestry is all there is on the ascent.
LEMMA AscentInAncestry ==
  ASSUME NEW files, TreeLike(files), NEW f, NEW m \in Nat, NEW c, Ascent(files, f, c, m), c[m] = Root
  PROVE  \A k \in 0 .. m : c[k] \in Ancestry(files, f)
<1> DEFINE n == Cardinality(DOMAIN files)
<1>1. PICK up : IsWalk(up, files, f, n) /\ Ancestry(files, f) = up[n]
  <2> DEFINE up == CHOOSE h : IsWalk(h, files, f, n)
  <2>0. n \in Nat
    BY FS_CardinalityType DEF TreeLike
  <2>1. IsWalk(up, files, f, n)
    BY <2>0, WalkExists
  <2>2. Ancestry(files, f) = up[n]
    BY DEF Ancestry, IsWalk
  <2> QED  BY <2>1, <2>2
<1>2. n \in Nat /\ m <= n
  BY FS_CardinalityType, AscentIsShort DEF TreeLike
<1> HIDE DEF n
<1> DEFINE S == {i \in Nat : i <= n => \A k \in 0 .. m : k <= i => c[k] \in up[i]}
<1>3. 0 \in S
  <2>1. up[0] = {f}
    BY <1>1, <1>2 DEF IsWalk
  <2> QED  BY <2>1 DEF Ascent
<1>4. ASSUME NEW i \in Nat, i \in S PROVE i + 1 \in S
  <2> SUFFICES ASSUME i + 1 <= n, NEW k \in 0 .. m, k <= i + 1 PROVE c[k] \in up[i + 1]
    OBVIOUS
  <2>1. up[i + 1] = up[i] \cup {files[g].parent : g \in up[i]}
    <3>1. i + 1 \in 0 .. n /\ i + 1 # 0 /\ (i + 1) - 1 = i
      BY <1>2
    <3> QED  BY <1>1, <3>1 DEF IsWalk
  <2>2. CASE k <= i
    BY <1>2, <1>4, <2>1, <2>2
  <2>3. CASE k = i + 1
    <3>1. i \in 0 .. m - 1 /\ i \in 0 .. m
      BY <2>3
    <3>2. c[i] \in up[i] /\ c[i + 1] = files[c[i]].parent
      BY <1>2, <1>4, <3>1 DEF Ascent
    <3> QED  BY <2>1, <2>3, <3>2
  <2> QED  BY <2>2, <2>3
<1> HIDE DEF S
<1>5. n \in S
  BY <1>2, <1>3, <1>4, NatSetInduction
<1> QED  BY <1>1, <1>2, <1>5 DEF S

\* The paths of the volume's files, cut off after so many hops.
TreePaths(t) ==
  LET n == Cardinality(DOMAIN tree)
  IN  /\ \A h \in 0 .. n, g \in DOMAIN tree :
           t[h][g] = IF h = 0 \/ g = Root THEN <<tree[g].name>>
                     ELSE Append(t[h - 1][tree[g].parent], tree[g].name)
      /\ \A g \in DOMAIN tree : TruePath(g) = t[n][g]

LEMMA TreePathsExist ==
  ASSUME TreeLike(tree)
  PROVE  \E t : TreePaths(t)
<1> DEFINE n == Cardinality(DOMAIN tree)
           V == [DOMAIN tree -> Seq(Nat)]
           start == [g \in DOMAIN tree |-> <<tree[g].name>>]
           next(row) == [g \in DOMAIN tree |-> IF g = Root THEN <<tree[g].name>>
                                               ELSE Append(row[tree[g].parent], tree[g].name)]
           step == [row \in V |-> next(row)]
           Row(t, h) == [g \in DOMAIN tree |-> IF h = 0 \/ g = Root THEN <<tree[g].name>>
                                               ELSE Append(t[h - 1][tree[g].parent], tree[g].name)]
           Is(t) == t = [h \in 0 .. n |-> Row(t, h)]
<1>1. n \in Nat /\ \A g \in DOMAIN tree : tree[g].name \in Nat /\ tree[g].parent \in DOMAIN tree
  BY FS_CardinalityType DEF TreeLike
<1> HIDE DEF n
<1>2. start \in V
  BY <1>1
<1>3. step \in [V -> V]
  <2> SUFFICES ASSUME NEW row \in V, NEW g \in DOMAIN tree
               PROVE  (IF g = Root THEN <<tree[g].name>> ELSE Append(row[tree[g].parent], tree[g].name)) \in Seq(Nat)
    OBVIOUS
  <2> QED  BY <1>1
<1> HIDE DEF V, start, step
<1>4. PICK w : Iterates(w, V, start, step, n)
  <2>1. n \in Nat
    BY <1>1
  <2> QED  BY <1>2, <1>3, <2>1, Iterated
<1>5. ASSUME NEW h \in 0 .. n PROVE w[h] = Row(w, h)
  <2>1. CASE h = 0
    <3>1. w[h] = start
      BY <1>4, <2>1 DEF Iterates
    <3> QED  BY <2>1, <3>1 DEF start
  <2>2. CASE h # 0
    <3>1. h - 1 \in 0 .. n /\ w[h] = step[w[h - 1]]
      BY <1>1, <1>4, <2>2 DEF Iterates
    <3>2. w[h - 1] \in V
      BY <1>4, <3>1 DEF Iterates
    <3>3. w[h] = next(w[h - 1])
      BY <3>1, <3>2 DEF step
    <3> QED  BY <2>2, <3>3
  <2> QED  BY <2>1, <2>2
<1> HIDE DEF Row
<1>6. Is(w)
  <2>1. w = [h \in 0 .. n |-> w[h]]
    BY <1>4 DEF Iterates
  <2> QED  BY <1>5, <2>1
<1> DEFINE t == CHOOSE p : Is(p)
<1>7. Is(t)
  BY <1>6
<1>8. \A g \in DOMAIN tree : TruePath(g) = t[n][g]
  BY DEF TruePath, Row, n
<1> HIDE DEF t
<1>9. ASSUME NEW h \in 0 .. n, NEW g \in DOMAIN tree
      PROVE  t[h][g] = IF h = 0 \/ g = Root THEN <<tree[g].name>>
                       ELSE Append(t[h - 1][tree[g].parent], tree[g].name)
  <2>1. t[h] = Row(t, h)
    BY <1>7
  <2> QED  BY <2>1 DEF Row
<1> QED  BY <1>8, <1>9 DEF TreePaths, n

\* A file's path is the names along its ascent.
LEMMA TruePathOfAscent ==
  ASSUME TreeLike(tree), NEW f, NEW m \in Nat, NEW c, Ascent(tree, f, c, m), c[m] = Root,
         NEW names, \A k \in 0 .. m : names[k] = tree[c[k]].name
  PROVE  TruePath(f) = PathNames(names, m, 0)
<1> DEFINE n == Cardinality(DOMAIN tree)
<1>1. n \in Nat /\ m <= n
  BY FS_CardinalityType, AscentIsShort DEF TreeLike
<1>2. PICK t : TreePaths(t)
  BY TreePathsExist
<1>3. /\ \A h \in 0 .. n, g \in DOMAIN tree :
           t[h][g] = IF h = 0 \/ g = Root THEN <<tree[g].name>>
                     ELSE Append(t[h - 1][tree[g].parent], tree[g].name)
      /\ \A g \in DOMAIN tree : TruePath(g) = t[n][g]
  BY <1>2 DEF TreePaths
<1>4. /\ \A k \in 0 .. m : c[k] \in DOMAIN tree
      /\ \A k \in 0 .. m - 1 : c[k + 1] = tree[c[k]].parent /\ c[k] # Root
      /\ c[0] = f
  BY DEF Ascent
<1> HIDE DEF n
<1> DEFINE S == {j \in Nat : m - j >= 0 => \A h \in j .. n : t[h][c[m - j]] = PathNames(names, m, m - j)}
<1>5. 0 \in S
  <2> SUFFICES ASSUME NEW h \in 0 .. n PROVE t[h][c[m]] = PathNames(names, m, m)
    OBVIOUS
  <2>1. c[m] \in DOMAIN tree /\ names[m] = tree[c[m]].name
    BY <1>4
  <2>2. t[h][c[m]] = <<names[m]>>
    BY <1>3, <2>1
  <2> QED  BY <2>2, PathNamesStep
<1>6. ASSUME NEW j \in Nat, j \in S PROVE j + 1 \in S
  <2> DEFINE k == m - (j + 1)
  <2> SUFFICES ASSUME k >= 0, NEW h \in j + 1 .. n PROVE t[h][c[k]] = PathNames(names, m, k)
    OBVIOUS
  <2>1. k \in 0 .. m - 1 /\ k \in 0 .. m /\ k + 1 = m - j /\ m - j >= 0
    OBVIOUS
  <2>2. h \in 0 .. n /\ h # 0 /\ h - 1 \in j .. n
    BY <1>1
  <2>3. t[h - 1][c[k + 1]] = PathNames(names, m, k + 1)
    BY <1>6, <2>1, <2>2
  <2> HIDE DEF k
  <2>4. c[k] \in DOMAIN tree /\ c[k] # Root /\ c[k + 1] = tree[c[k]].parent /\ names[k] = tree[c[k]].name
    BY <1>4, <2>1
  <2>5. t[h][c[k]] = Append(t[h - 1][c[k + 1]], names[k])
    BY <1>3, <2>2, <2>4
  <2> QED  BY <2>1, <2>3, <2>5, PathNamesStep
<1> HIDE DEF S
<1>7. m \in S
  BY <1>5, <1>6, NatSetInduction
<1>8. m - m = 0 /\ m - m >= 0 /\ n \in m .. n /\ 0 \in 0 .. m
  BY <1>1
<1>9. t[n][c[0]] = PathNames(names, m, 0)
  BY <1>7, <1>8 DEF S
<1> QED  BY <1>3, <1>4, <1>8, <1>9

-----------------------------------------------------------------------------
(* The tree stays one, and the view keeps the root's record. *)

\* The root is in the base, unless a compaction has mixed up records.
Grounded ==
  /\ Acyclic(tree)
  /\ defects = {} => Root \in DOMAIN base.frns

LEMMA TreeIsTreeLike ==
  ASSUME Inv, Past, Acyclic(tree)
  PROVE  TreeLike(tree)
<1>1. tree \in Trees
  BY CurrentTree
<1>2. IsFiniteSet(DOMAIN tree)
  <2>1. IsFiniteSet(Files \cup {Root})
    BY FilesAssumption, FS_AddElement
  <2> QED  BY <1>1, <2>1, TreeFacts, FS_Subset
<1>3. \A f \in DOMAIN tree : tree[f].parent \in DOMAIN tree
  BY DEF Past, Inv, Volume
<1> QED  BY <1>1, <1>2, <1>3, TreeFacts DEF TreeLike, RootEntry

\* A new file is in one that was there before.
LEMMA CreateGrounds ==
  ASSUME Inv, Past, Acyclic(tree), NEW f \in Files, FsCreate(f)
  PROVE  Acyclic(tree')
<1>1. PICK name \in Names, parent \in DOMAIN tree :
        tree' = Inserted(tree, f, [name |-> name, parent |-> parent])
  BY DEF FsCreate, Journaled
<1>2. f \notin DOMAIN tree /\ \A g \in DOMAIN tree : tree[g].parent \in DOMAIN tree
  <2>1. \A k \in 1 .. Len(trees) : f \notin DOMAIN trees[k]
    BY DEF FsCreate, Inv, Volume
  <2> QED  BY <2>1 DEF Past, Inv, Volume
<1>3. /\ DOMAIN tree' = DOMAIN tree \cup {f} /\ tree'[f].parent = parent
      /\ \A g \in DOMAIN tree : tree'[g] = tree[g]
  BY <1>1, <1>2 DEF Inserted
<1> SUFFICES ASSUME NEW S \in SUBSET (DOMAIN tree' \ {Root}), S # {}
             PROVE  \E g \in S : tree'[g].parent \notin S
  BY DEF Acyclic
<1>4. CASE S = {f}
  BY <1>2, <1>3, <1>4
<1>5. CASE S # {f}
  <2> DEFINE T == S \ {f}
  <2>1. T \in SUBSET (DOMAIN tree \ {Root}) /\ T # {}
    BY <1>3, <1>5
  <2>2. PICK g \in T : tree[g].parent \notin T
    BY <2>1 DEF Acyclic
  <2>3. g \in DOMAIN tree /\ tree'[g].parent = tree[g].parent /\ tree[g].parent # f
    BY <1>2, <1>3, <2>1
  <2> QED  BY <2>2, <2>3
<1> QED  BY <1>4, <1>5

\* A file moves to a directory that it is not an ancestor of: were there a ring
\* of files now, the new directory's ascent would be in it, to the root.
LEMMA RenameGrounds ==
  ASSUME Inv, Past, Acyclic(tree), NEW f \in Files, FsRename(f)
  PROVE  Acyclic(tree')
<1>1. PICK name \in Names, parent \in DOMAIN tree :
        /\ f \notin Ancestry(tree, parent)
        /\ tree' = [tree EXCEPT ![f] = [name |-> name, parent |-> parent]]
  BY DEF FsRename, Journaled
<1>2. f \in DOMAIN tree /\ TreeLike(tree)
  BY TreeIsTreeLike DEF FsRename
<1>3. /\ DOMAIN tree' = DOMAIN tree /\ tree'[f].parent = parent
      /\ \A g \in DOMAIN tree : g # f => tree'[g] = tree[g]
  <2>1. tree = [g \in DOMAIN tree |-> tree[g]]
    BY CurrentTree, TreeFacts
  <2> QED  BY <1>1, <1>2, <2>1
<1> SUFFICES ASSUME NEW S \in SUBSET (DOMAIN tree' \ {Root}), S # {},
                    \A g \in S : tree'[g].parent \in S
             PROVE  FALSE
  BY DEF Acyclic
<1>4. CASE f \notin S
  <2>1. PICK g \in S : tree[g].parent \notin S
    BY <1>3 DEF Acyclic
  <2> QED  BY <1>3, <1>4, <2>1
<1>5. CASE f \in S
  <2>m. PICK m \in Nat : \E c : Ascent(tree, parent, c, m) /\ c[m] = Root
    BY <1>2, AscentExists
  <2>1. PICK c : Ascent(tree, parent, c, m) /\ c[m] = Root
    BY <2>m
  <2>2. \A k \in 0 .. m : c[k] # f
    BY <1>1, <1>2, <2>1, AscentInAncestry
  <2> DEFINE T == {k \in Nat : k <= m => c[k] \in S}
  <2>3. 0 \in T
    BY <1>3, <1>5, <2>1 DEF Ascent
  <2>4. ASSUME NEW k \in Nat, k \in T PROVE k + 1 \in T
    <3> SUFFICES ASSUME k + 1 <= m PROVE c[k + 1] \in S
      OBVIOUS
    <3>1. c[k] \in S /\ k \in 0 .. m - 1 /\ k \in 0 .. m
      BY <2>4
    <3>2. c[k] \in DOMAIN tree /\ c[k + 1] = tree[c[k]].parent /\ c[k] # f
      BY <2>1, <2>2, <3>1 DEF Ascent
    <3> QED  BY <1>3, <3>1, <3>2
  <2> HIDE DEF T
  <2>5. m \in T
    BY <2>3, <2>4, NatSetInduction
  <2> QED  BY <2>1, <2>5 DEF T
<1> QED  BY <1>4, <1>5

\* Nothing changes for what is left.
LEMMA DeleteGrounds ==
  ASSUME Acyclic(tree), NEW f \in Files, FsDelete(f)
  PROVE  Acyclic(tree')
<1>1. tree' = Restrict(tree, DOMAIN tree \ {f})
  BY DEF FsDelete, Journaled
<1>2. DOMAIN tree' = DOMAIN tree \ {f} /\ \A g \in DOMAIN tree' : tree'[g] = tree[g]
  BY <1>1 DEF Restrict
<1> SUFFICES ASSUME NEW S \in SUBSET (DOMAIN tree' \ {Root}), S # {}
             PROVE  \E g \in S : tree'[g].parent \notin S
  BY DEF Acyclic
<1>3. S \in SUBSET (DOMAIN tree \ {Root})
  BY <1>2
<1>4. PICK g \in S : tree[g].parent \notin S
  BY <1>3 DEF Acyclic
<1> QED  BY <1>2, <1>4

\* At first there is a tree, and an enumeration of it.
LEMMA InitGrounds ==
  ASSUME Inv, Init
  PROVE  Grounded
<1>1. PICK files \in FirstTrees : tree = Inserted(files, Root, RootEntry)
  BY DEF Init
<1>2. Acyclic(files) /\ \E fs \in SUBSET Files : files \in [fs -> [name : Names, parent : fs \cup {Root}]]
  BY FilesAssumption
<1>3. /\ DOMAIN tree = DOMAIN files \cup {Root} /\ Root \notin DOMAIN files
      /\ \A g \in DOMAIN files : tree[g] = files[g]
  BY <1>1, <1>2, FilesAssumption DEF Inserted
<1>4. Acyclic(tree)
  <2> SUFFICES ASSUME NEW S \in SUBSET (DOMAIN tree \ {Root}), S # {}
               PROVE  \E g \in S : tree[g].parent \notin S
    BY DEF Acyclic
  <2>1. S \in SUBSET (DOMAIN files \ {Root})
    BY <1>3
  <2>2. PICK g \in S : files[g].parent \notin S
    BY <1>2, <2>1 DEF Acyclic
  <2> QED  BY <1>3, <2>1, <2>2
<1>5. Root \in DOMAIN base.frns
  <2>1. Enumeration(tree)
    BY CurrentTree, TreeFacts DEF Enumeration, RootEntry
  <2>2. base = BuildBase(tree)
    BY DEF Init
  <2> QED  BY <1>3, <2>1, <2>2, BuiltBase
<1> QED  BY <1>4, <1>5 DEF Grounded

\* The root is always met,
LEMMA BuildPublishGrounds ==
  ASSUME Inv, BuildPublish
  PROVE  Root \in DOMAIN base'.frns
<1>1. PICK when \in [Files \cup {Root} -> scan + 1 .. Len(trees)] : base' = BuildBase(Seen(when))
  BY DEF BuildPublish
<1>2. scan \in 0 .. Len(journal) /\ Len(journal) \in Nat /\ Len(trees) = Len(journal) + 1
  BY DEF BuildPublish, Inv, Volume, Positions
<1> DEFINE seen == Seen(when)
<1>3. \A f \in Files \cup {Root} : trees[when[f]] \in Trees
  BY <1>1, <1>2, CurrentTree
<1>4. /\ DOMAIN seen = {f \in Files \cup {Root} : f \in DOMAIN trees[when[f]]}
      /\ \A f \in DOMAIN seen : seen[f] = trees[when[f]][f]
  BY DEF Seen
<1> HIDE DEF seen
<1>5. /\ Root \in DOMAIN seen /\ seen[Root] = RootEntry
      /\ \A f \in DOMAIN seen : seen[f].name \in Nat
  BY <1>3, <1>4, TreeFacts
<1>6. Enumeration(seen)
  BY <1>4, <1>5 DEF Enumeration, RootEntry
<1> QED  BY <1>1, <1>5, <1>6, BuiltBase DEF seen

\* it is never deleted,
LEMMA RootIsLive ==
  ASSUME Inv, Converging, Grounded, Sound
  PROVE  /\ LayersOK(base, delta) /\ RecordsOf(base, delta, Root) = {BaseRef(base.frns[Root])}
         /\ base.frns[Root] \in DOMAIN base.recs
         /\ base.recs[base.frns[Root]].name = 0 /\ base.recs[base.frns[Root]].parent = PARENT_NONE
<1>1. LayersOK(base, delta) /\ TombsOK(base, delta, pos) /\ Root \in DOMAIN base.frns
  BY KeptView DEF Converging, Grounded, Sound
<1>2. ~InDelta(delta, Root)
  <2>1. DOMAIN delta.added_frns \subseteq Files
    BY <1>1 DEF LayersOK, DeltaOK, Deltas
  <2> QED  BY <2>1, FilesAssumption DEF InDelta
<1>3. ~Gone(Root, pos + 1)
  <2>1. trees[pos + 1] \in Trees
    BY DEF Inv, Volume, Positions
  <2> QED  BY <2>1, TreeFacts DEF Gone
<1>4. /\ base.frns[Root] \in DOMAIN base.recs /\ base.recs[base.frns[Root]].frn = Root
  BY <1>1 DEF LayersOK, BaseOK, Exact
<1>5. InBase(base, delta, Root)
  BY <1>1, <1>2, <1>3, <1>4 DEF TombsOK, InBase
<1>6. RecordsOf(base, delta, Root) = {BaseRef(base.frns[Root])}
  BY <1>1, <1>5, TheRecord
<1>7. base.recs[base.frns[Root]].name = 0 /\ base.recs[base.frns[Root]].parent = PARENT_NONE
  BY <1>1, <1>4 DEF LayersOK, BaseOK
<1> QED  BY <1>1, <1>4, <1>6, <1>7

\* and a compaction keeps it.
LEMMA CompactGrounds ==
  ASSUME Inv, Converging, Grounded, Compact, defects' = {}
  PROVE  Root \in DOMAIN base'.frns
<1>1. defects = {} /\ ~Ties(base, delta) /\ scan = NoScan /\ base' = Compacted(base, delta)
  BY DEF Compact
<1>2. LayersOK(base, delta) /\ RecordsOf(base, delta, Root) = {BaseRef(base.frns[Root])}
  BY <1>1, RootIsLive DEF Sound
<1>3. \E e : e \in Shown(base, delta, Root)
  BY <1>2 DEF Shown
<1>4. Shown(base', NewDelta, Root) # {}
  BY <1>1, <1>2, <1>3, CompactedShows
<1>5. BaseOK(base') /\ Exact(base')
  BY <1>1, <1>2, CompactedOK, CompactedExact DEF LayersOK
<1> QED  BY <1>4, <1>5, BaseAlone

\* So does every step.
LEMMA NextGrounds == Inv /\ Converging /\ Grounded /\ [Next]_vars => Grounded'
<1> SUFFICES ASSUME Inv, Converging, Grounded, [Next]_vars PROVE Grounded'
  OBVIOUS
<1>1. Acyclic(tree) /\ Past /\ (defects = {} => Root \in DOMAIN base.frns)
  BY DEF Grounded, Converging
<1>2. CASE \E f \in Files : FsCreate(f) \/ FsRename(f) \/ FsDelete(f)
  <2>1. PICK f \in Files : FsCreate(f) \/ FsRename(f) \/ FsDelete(f)
    BY <1>2
  <2>2. Acyclic(tree')
    BY <1>1, <2>1, CreateGrounds, RenameGrounds, DeleteGrounds
  <2>3. UNCHANGED <<base, defects>>
    BY <2>1 DEF FsCreate, FsRename, FsDelete, Journaled
  <2> QED  BY <1>1, <2>2, <2>3 DEF Grounded, Acyclic
<1>3. CASE BuildPublish
  <2>1. tree' = tree
    BY <1>3 DEF BuildPublish, ntfs
  <2> QED  BY <1>1, <1>3, <2>1, BuildPublishGrounds DEF Grounded, Acyclic
<1>4. CASE Compact
  <2>1. tree' = tree
    BY <1>4 DEF Compact, ntfs
  <2> QED  BY <1>1, <1>4, <2>1, CompactGrounds DEF Grounded, Acyclic
<1>5. CASE ApplyBatch \/ BuildCursor \/ Restart \/ UNCHANGED vars
  <2>1. UNCHANGED <<tree, base, defects>>
    BY <1>5 DEF ApplyBatch, BuildCursor, Restart, ntfs, vars
  <2> QED  BY <1>1, <2>1 DEF Grounded, Acyclic
<1> QED  BY <1>2, <1>3, <1>4, <1>5 DEF Next

-----------------------------------------------------------------------------
(* A compaction takes a climb to a climb. *)

\* The walk of Ancestors, up from a record.
IsRise(up, b, d, ref, n) ==
  up = [k \in 0 .. n |-> IF k = 0 THEN {ref}
                         ELSE up[k - 1] \cup UNION {ParentOf(b, d, x) : x \in up[k - 1]}]

\* What a record's parent can be.
LEMMA ParentIsRef ==
  ASSUME NEW b, BaseOK(b), NEW d, DeltaOK(b, d), NEW ref \in Refs(b, d)
  PROVE  ParentOf(b, d, ref) \subseteq Refs(b, d)
<1>1. CASE ref \in {BaseRef(i) : i \in DOMAIN b.recs}
  <2>1. PICK i \in DOMAIN b.recs : ref = BaseRef(i)
    BY <1>1
  <2>2. ParentOf(b, d, ref) = {BaseRef(p) : p \in {b.recs[i].parent} \ {PARENT_NONE}}
    BY <2>1 DEF ParentOf, BaseRef
  <2>3. b.recs[i].parent \in {PARENT_NONE} \cup DOMAIN b.recs
    BY DEF BaseOK
  <2> QED  BY <2>2, <2>3 DEF Refs
<1>2. CASE ref \in {DeltaRef(i) : i \in DOMAIN d.added}
  <2>1. PICK i \in DOMAIN d.added : ref = DeltaRef(i)
    BY <1>2
  <2>2. ParentOf(b, d, ref) = {d.added[i].parent}
    BY <2>1 DEF ParentOf, DeltaRef
  <2>3. i \in 1 .. Len(d.added) /\ Len(d.added) \in Nat
    BY DEF DeltaOK, Deltas
  <2>4. d.added[i].parent \in {BaseRef(j) : j \in DOMAIN b.recs} \cup {DeltaRef(j) : j \in 1 .. i - 1}
    BY DEF DeltaOK
  <2>5. \A j \in 1 .. i - 1 : j \in DOMAIN d.added
    BY <2>3 DEF DeltaOK, Deltas
  <2> QED  BY <2>2, <2>4, <2>5 DEF Refs
<1> QED  BY <1>1, <1>2 DEF Refs

LEMMA RiseExists ==
  ASSUME NEW b, BaseOK(b), NEW d, DeltaOK(b, d), NEW ref \in Refs(b, d), NEW n \in Nat
  PROVE  \E up : IsRise(up, b, d, ref, n)
<1> DEFINE V == SUBSET Refs(b, d)
           next(u) == u \cup UNION {ParentOf(b, d, x) : x \in u}
           step == [u \in V |-> next(u)]
<1>1. {ref} \in V
  OBVIOUS
<1>2. step \in [V -> V]
  <2> SUFFICES ASSUME NEW u \in V PROVE next(u) \in V
    OBVIOUS
  <2>1. \A x \in u : ParentOf(b, d, x) \subseteq Refs(b, d)
    BY ParentIsRef
  <2>2. UNION {ParentOf(b, d, x) : x \in u} \subseteq Refs(b, d)
    BY <2>1
  <2> QED  BY <2>2
<1> HIDE DEF V, step
<1>3. PICK w : Iterates(w, V, {ref}, step, n)
  BY <1>1, <1>2, Iterated
<1>4. ASSUME NEW k \in 0 .. n PROVE w[k] = IF k = 0 THEN {ref} ELSE next(w[k - 1])
  <2>1. CASE k = 0
    BY <1>3, <2>1 DEF Iterates
  <2>2. CASE k # 0
    <3>1. k - 1 \in 0 .. n /\ w[k] = step[w[k - 1]]
      BY <1>3, <2>2 DEF Iterates
    <3>2. w[k - 1] \in V
      BY <1>3, <3>1 DEF Iterates
    <3> QED  BY <2>2, <3>1, <3>2 DEF step
  <2> QED  BY <2>1, <2>2
<1>5. w = [k \in 0 .. n |-> w[k]]
  BY <1>3 DEF Iterates
<1> HIDE DEF next
<1>6. w = [k \in 0 .. n |-> IF k = 0 THEN {ref} ELSE next(w[k - 1])]
  BY <1>4, <1>5
<1> QED  BY <1>6 DEF IsRise, next

\* A walk up from a record, inside a set of records.
WalksTo(b, d, ref, within, top) ==
  \E m \in Nat : \E r :
    /\ r[0] = ref /\ r[m] = top /\ \A k \in 0 .. m : r[k] \in within
    /\ \A k \in 0 .. m - 1 : ParentOf(b, d, r[k]) = {r[k + 1]}

\* Every ancestor is at the end of a walk through ancestors.
LEMMA AncestorIsReached ==
  ASSUME NEW b, BaseOK(b), NEW d, DeltaOK(b, d), NEW ref \in Refs(b, d), NEW top \in Ancestors(b, d, ref)
  PROVE  WalksTo(b, d, ref, Ancestors(b, d, ref), top)
<1> DEFINE n == Len(b.recs) + Len(d.added)
<1>1. n \in Nat
  <2> DEFINE p == Len(b.recs)
             q == Len(d.added)
  <2>1. p \in Nat /\ q \in Nat
    BY DEF BaseOK, DeltaOK, Deltas
  <2> HIDE DEF p, q
  <2>2. p + q \in Nat
    BY <2>1
  <2> QED  BY <2>2 DEF p, q
<1>2. PICK up : IsRise(up, b, d, ref, n) /\ Ancestors(b, d, ref) = up[n]
  <2> DEFINE up == CHOOSE h : IsRise(h, b, d, ref, n)
  <2>1. IsRise(up, b, d, ref, n)
    BY <1>1, RiseExists
  <2>2. Ancestors(b, d, ref) = up[n]
    BY DEF Ancestors, IsRise
  <2> QED  BY <2>1, <2>2
<1> HIDE DEF n
<1> DEFINE S == {k \in Nat : k <= n => \A t \in up[k] : WalksTo(b, d, ref, up[k], t)}
<1>3. 0 \in S
  <2>1. up[0] = {ref}
    BY <1>1, <1>2 DEF IsRise
  <2> DEFINE r == [k \in 0 .. 0 |-> ref]
  <2>2. r[0] = ref /\ 0 \in Nat /\ \A k \in 0 .. 0 : r[k] \in {ref}
    OBVIOUS
  <2>3. \A k \in 0 .. 0 - 1 : ParentOf(b, d, r[k]) = {r[k + 1]}
    OBVIOUS
  <2> HIDE DEF r
  <2>4. WalksTo(b, d, ref, {ref}, ref)
    <3>1. \E g : /\ g[0] = ref /\ g[0] = ref /\ \A k \in 0 .. 0 : g[k] \in {ref}
                 /\ \A k \in 0 .. 0 - 1 : ParentOf(b, d, g[k]) = {g[k + 1]}
      BY <2>2, <2>3
    <3> QED  BY <3>1 DEF WalksTo
  <2> QED  BY <2>1, <2>4
<1>4. ASSUME NEW k \in Nat, k \in S PROVE k + 1 \in S
  <2> SUFFICES ASSUME k + 1 <= n, NEW t \in up[k + 1] PROVE WalksTo(b, d, ref, up[k + 1], t)
    OBVIOUS
  <2>1. up[k + 1] = up[k] \cup UNION {ParentOf(b, d, x) : x \in up[k]}
    <3>1. k + 1 \in 0 .. n /\ k + 1 # 0 /\ (k + 1) - 1 = k
      BY <1>1
    <3> QED  BY <1>2, <3>1 DEF IsRise
  <2>2. \A u \in up[k] : WalksTo(b, d, ref, up[k], u)
    BY <1>1, <1>4
  <2>3. CASE t \in up[k]
    <3>1. \E m \in Nat : \E r : /\ r[0] = ref /\ r[m] = t /\ \A j \in 0 .. m : r[j] \in up[k]
                                /\ \A j \in 0 .. m - 1 : ParentOf(b, d, r[j]) = {r[j + 1]}
      BY <2>2, <2>3 DEF WalksTo
    <3>2. \A x \in up[k] : x \in up[k + 1]
      BY <2>1
    <3> HIDE DEF S
    <3> QED  BY <3>1, <3>2 DEF WalksTo
  <2>4. CASE t \notin up[k]
    <3>1. PICK u \in up[k] : t \in ParentOf(b, d, u)
      BY <2>1, <2>4
    <3>2. ParentOf(b, d, u) = {t}
      BY <3>1, OneParent
    <3>m. PICK m \in Nat : \E r : /\ r[0] = ref /\ r[m] = u /\ \A j \in 0 .. m : r[j] \in up[k]
                                  /\ \A j \in 0 .. m - 1 : ParentOf(b, d, r[j]) = {r[j + 1]}
      BY <2>2, <3>1 DEF WalksTo
    <3>3. PICK r : /\ r[0] = ref /\ r[m] = u /\ \A j \in 0 .. m : r[j] \in up[k]
                   /\ \A j \in 0 .. m - 1 : ParentOf(b, d, r[j]) = {r[j + 1]}
      BY <3>m
    <3> DEFINE h == [j \in 0 .. m + 1 |-> IF j = m + 1 THEN t ELSE r[j]]
    <3>4. h[0] = ref /\ h[m + 1] = t /\ \A j \in 0 .. m : h[j] = r[j]
      BY <3>3
    <3> HIDE DEF h
    <3>5. \A j \in 0 .. m + 1 : h[j] \in up[k + 1]
      <4>1. \A j \in 0 .. m + 1 : j \in 0 .. m \/ j = m + 1
        OBVIOUS
      <4> QED  BY <2>1, <3>3, <3>4, <4>1
    <3>6. ASSUME NEW j \in 0 .. (m + 1) - 1 PROVE ParentOf(b, d, h[j]) = {h[j + 1]}
      <4>1. CASE j = m
        <5>1. h[j] = u /\ h[j + 1] = t
          BY <3>3, <3>4, <4>1
        <5> QED  BY <3>2, <5>1
      <4>2. CASE j # m
        <5>1. j \in 0 .. m - 1 /\ j \in 0 .. m /\ j + 1 \in 0 .. m
          BY <4>2
        <5> QED  BY <3>3, <3>4, <5>1
      <4> QED  BY <4>1, <4>2
    <3>7. m + 1 \in Nat
      OBVIOUS
    <3> QED  BY <3>4, <3>5, <3>6, <3>7 DEF WalksTo
  <2> QED  BY <2>3, <2>4
<1> HIDE DEF S
<1>5. n \in S
  BY <1>1, <1>3, <1>4, NatSetInduction
<1> QED  BY <1>1, <1>2, <1>5 DEF S

\* A climb through live records is one through their places in the merged base,
\* under the same names.
LEMMA CompactedClimb ==
  ASSUME NEW b, NEW d, LayersOK(b, d), ~Ties(b, d), NEW c, c = Compacted(b, d),
         NEW m \in Nat, NEW r, Climbs(b, d, r, m), \A k \in 0 .. m : r[k] \in LiveRecords(b, d)
  PROVE  {PathOf(c, NewDelta, x) : x \in RecordsOf(c, NewDelta, Record(b, d, r[0]).frn)} = {PathOf(b, d, r[0])}
<1> DEFINE P == Places(b, d)
           s == [k \in 0 .. m |-> BaseRef(P[r[k]])]
           names == [k \in 0 .. m |-> Record(b, d, r[k]).name]
<1>1. BaseOK(c) /\ Exact(c) /\ DeltaOK(c, NewDelta) /\ BaseOK(b) /\ DeltaOK(b, d)
  BY CompactedOK, CompactedExact, EmptyDelta DEF LayersOK
<1>2. \A ref \in LiveRecords(b, d) : /\ P[ref] \in DOMAIN c.recs
                                     /\ c.recs[P[ref]].frn = Record(b, d, ref).frn
                                     /\ c.recs[P[ref]].name = Record(b, d, ref).name
                                     /\ c.recs[P[ref]].parent = PatchedParent(b, d, P[ref])
  <2> DEFINE at == AntiFunction(P)
             n == Cardinality(LiveRecords(b, d))
  <2>1. /\ DOMAIN c.recs = 1 .. n
        /\ c.recs = [place \in 1 .. n |-> [ frn |-> Record(b, d, at[place]).frn,
                                            name |-> Record(b, d, at[place]).name,
                                            parent |-> PatchedParent(b, d, place) ]]
        /\ \A ref \in LiveRecords(b, d) : P[ref] \in 1 .. n /\ at[P[ref]] = ref
    BY <1>1, MergedRecords
  <2> HIDE DEF P, at, n
  <2> QED  BY <2>1
<1>3. PARENT_NONE \notin DOMAIN c.recs
  BY <1>1 DEF BaseOK, PARENT_NONE
<1>4. \A k \in 0 .. m - 1 : k \in 0 .. m /\ k + 1 \in 0 .. m
  OBVIOUS
<1>5. ASSUME NEW k \in 0 .. m - 1 PROVE c.recs[P[r[k]]].parent = P[r[k + 1]]
  <2>1. ParentOf(b, d, r[k]) = {r[k + 1]} /\ r[k] \in LiveRecords(b, d) /\ r[k + 1] \in LiveRecords(b, d)
    BY <1>4 DEF Climbs
  <2>2. PatchedParent(b, d, P[r[k]]) = P[r[k + 1]]
    BY <2>1, PatchedLive
  <2> QED  BY <1>2, <2>1, <2>2
<1>6. c.recs[P[r[m]]].parent = PARENT_NONE
  <2>1. ParentOf(b, d, r[m]) = {} /\ r[m] \in LiveRecords(b, d)
    BY DEF Climbs
  <2>2. PatchedParent(b, d, P[r[m]]) = PARENT_NONE
    BY <2>1, PatchedLive
  <2> QED  BY <1>2, <2>1, <2>2
<1>7. \A k \in 0 .. m : P[r[k]] \in DOMAIN c.recs
  BY <1>2
<1> HIDE DEF P
<1>8. Climbs(c, NewDelta, s, m)
  <2>1. \A k \in 0 .. m : s[k] \in Refs(c, NewDelta)
    BY <1>7 DEF Refs
  <2>2. \A i : ParentOf(c, NewDelta, BaseRef(i)) = {BaseRef(p) : p \in {c.recs[i].parent} \ {PARENT_NONE}}
    BY DEF ParentOf, BaseRef
  <2>3. ASSUME NEW k \in 0 .. m - 1 PROVE ParentOf(c, NewDelta, s[k]) = {s[k + 1]}
    <3>1. s[k] = BaseRef(P[r[k]]) /\ s[k + 1] = BaseRef(P[r[k + 1]])
      BY <1>4
    <3>2. c.recs[P[r[k]]].parent = P[r[k + 1]] /\ P[r[k + 1]] # PARENT_NONE
      BY <1>3, <1>4, <1>5, <1>7
    <3> HIDE DEF s
    <3> QED  BY <2>2, <3>1, <3>2
  <2>4. ParentOf(c, NewDelta, s[m]) = {}
    <3>1. s[m] = BaseRef(P[r[m]])
      OBVIOUS
    <3> HIDE DEF s
    <3> QED  BY <1>6, <2>2, <3>1
  <2> HIDE DEF s
  <2> QED  BY <2>1, <2>3, <2>4 DEF Climbs
<1>9. \A k \in 0 .. m : names[k] = Record(c, NewDelta, s[k]).name
  <2>1. \A i : Record(c, NewDelta, BaseRef(i)) = c.recs[i]
    BY DEF Record, BaseRef
  <2> SUFFICES ASSUME NEW k \in 0 .. m PROVE names[k] = Record(c, NewDelta, s[k]).name
    OBVIOUS
  <2>2. c.recs[P[r[k]]].name = Record(b, d, r[k]).name
    BY <1>2 DEF P
  <2> QED  BY <2>1, <2>2
<1>10. \A k \in 0 .. m : names[k] = Record(b, d, r[k]).name
  OBVIOUS
<1>11. s[0] = BaseRef(P[r[0]]) /\ r[0] \in LiveRecords(b, d)
  OBVIOUS
<1> HIDE DEF s, names
<1>12. PathOf(c, NewDelta, s[0]) = PathNames(names, m, 0)
  BY <1>1, <1>8, <1>9, PathOfClimb
<1>13. PathOf(b, d, r[0]) = PathNames(names, m, 0)
  BY <1>1, <1>10, PathOfClimb
<1>14. RecordsOf(c, NewDelta, Record(b, d, r[0]).frn) = {s[0]}
  <2> DEFINE f == Record(b, d, r[0]).frn
  <2>1. P[r[0]] \in DOMAIN c.recs /\ c.recs[P[r[0]]].frn = f
    BY <1>2, <1>11 DEF P
  <2>2. LiveRecords(c, NewDelta) = {BaseRef(i) : i \in DOMAIN c.recs}
    BY DEF LiveRecords, LiveBase, LiveAdded, NewDelta
  <2>3. \A i : Record(c, NewDelta, BaseRef(i)) = c.recs[i]
    BY DEF Record, BaseRef
  <2> HIDE DEF f
  <2>4. \A i \in DOMAIN c.recs : c.recs[i].frn = f => i = P[r[0]]
    BY <1>1, <2>1 DEF Exact
  <2> SUFFICES RecordsOf(c, NewDelta, f) = {BaseRef(P[r[0]])}
    BY <1>11 DEF f
  <2> QED  BY <2>1, <2>2, <2>3, <2>4 DEF RecordsOf
<1> QED  BY <1>12, <1>13, <1>14

\* The same of a record whose ancestors are live and end somewhere.
LEMMA CompactedPath ==
  ASSUME NEW b, NEW d, LayersOK(b, d), ~Ties(b, d), NEW ref \in LiveRecords(b, d),
         Ancestors(b, d, ref) \subseteq LiveRecords(b, d),
         NEW top \in Ancestors(b, d, ref), ParentOf(b, d, top) = {}
  PROVE  {PathOf(Compacted(b, d), NewDelta, x) : x \in RecordsOf(Compacted(b, d), NewDelta, Record(b, d, ref).frn)}
           = {PathOf(b, d, ref)}
<1>1. LiveRecords(b, d) \subseteq Refs(b, d)
  BY DEF LiveRecords, LiveBase, LiveAdded, Refs
<1>2. WalksTo(b, d, ref, Ancestors(b, d, ref), top)
  BY <1>1, AncestorIsReached DEF LayersOK
<1>m. PICK m \in Nat : \E r : /\ r[0] = ref /\ r[m] = top
                              /\ \A k \in 0 .. m : r[k] \in Ancestors(b, d, ref)
                              /\ \A k \in 0 .. m - 1 : ParentOf(b, d, r[k]) = {r[k + 1]}
  BY <1>2 DEF WalksTo
<1>3. PICK r : /\ r[0] = ref /\ r[m] = top
               /\ \A k \in 0 .. m : r[k] \in Ancestors(b, d, ref)
               /\ \A k \in 0 .. m - 1 : ParentOf(b, d, r[k]) = {r[k + 1]}
  BY <1>m
<1>4. \A k \in 0 .. m : r[k] \in LiveRecords(b, d)
  BY <1>3
<1>5. Climbs(b, d, r, m)
  BY <1>1, <1>3, <1>4 DEF Climbs
<1> DEFINE c == Compacted(b, d)
<1>6. c = Compacted(b, d)
  OBVIOUS
<1> HIDE DEF c
<1>7. {PathOf(c, NewDelta, x) : x \in RecordsOf(c, NewDelta, Record(b, d, r[0]).frn)} = {PathOf(b, d, r[0])}
  BY <1>4, <1>5, <1>6, CompactedClimb
<1> QED  BY <1>3, <1>7 DEF c

\* A merged base has as many records as were live.
LEMMA MergedLength ==
  ASSUME NEW b, BaseOK(b), NEW d, DeltaOK(b, d)
  PROVE  Len(Compacted(b, d).recs) = Cardinality(LiveRecords(b, d))
<1> DEFINE c == Compacted(b, d)
           n == Cardinality(LiveRecords(b, d))
           l == Len(c.recs)
<1>1. DOMAIN c.recs = 1 .. n /\ n \in Nat
  BY MergedRecords
<1>2. BaseOK(c)
  BY CompactedOK
<1> HIDE DEF c, n
<1>3. DOMAIN c.recs = 1 .. l /\ l \in Nat
  BY <1>2 DEF BaseOK
<1> HIDE DEF l
<1>4. 1 .. n = 1 .. l /\ n \in Nat /\ l \in Nat
  BY <1>1, <1>3
<1>5. n <= l /\ l <= n
  <2>1. n = 0 \/ n \in 1 .. n
    BY <1>4
  <2>2. l = 0 \/ l \in 1 .. l
    BY <1>4
  <2>3. (n = 0 \/ n \in 1 .. l) /\ (l = 0 \/ l \in 1 .. n)
    BY <1>4, <2>1, <2>2
  <2>4. n \in Nat /\ l \in Nat
    BY <1>4
  <2> QED  BY <2>3, <2>4
<1>6. n = l
  BY <1>4, <1>5
<1> QED  BY <1>6 DEF c, n, l

-----------------------------------------------------------------------------
(* The theorems. *)

\* Once every event is applied, a view walks up from a file as the tree does.
LEMMA ExactPaths ==
  ASSUME Inv, Converging, Grounded
  PROVE  PathExact
<1> SUFFICES ASSUME Sound, pos = Len(journal), NEW f \in DOMAIN tree, Ancestry(tree, f) \cap orphans = {}
             PROVE  ShownPaths(f) = {TruePath(f)}
  BY DEF PathExact
<1>1. /\ LayersOK(base, delta) /\ StrandedOK(base, delta, orphans)
      /\ RecordsOf(base, delta, Root) = {BaseRef(base.frns[Root])}
      /\ base.frns[Root] \in DOMAIN base.recs
      /\ base.recs[base.frns[Root]].name = 0 /\ base.recs[base.frns[Root]].parent = PARENT_NONE
  BY RootIsLive, KeptView DEF Converging
<1>2. TreeLike(tree)
  BY TreeIsTreeLike DEF Converging, Grounded
<1>3. \A g \in Files : Agrees(g)
  <2>1. Len(journal) \in Nat /\ DivergenceIsQueued
    BY ConvergingQueued DEF Inv, Volume
  <2>2. pos + 1 .. Len(journal) = {}
    BY <2>1
  <2> QED  BY <2>1, <2>2 DEF DivergenceIsQueued
<1>m. PICK m \in Nat : \E c : Ascent(tree, f, c, m) /\ c[m] = Root
  BY <1>2, AscentExists
<1>4. PICK c : Ascent(tree, f, c, m) /\ c[m] = Root
  BY <1>m
<1>5. /\ \A k \in 0 .. m : c[k] \in DOMAIN tree /\ c[k] \notin orphans
      /\ \A k \in 0 .. m - 1 : c[k + 1] = tree[c[k]].parent /\ c[k] # Root /\ c[k] \in Files
      /\ c[0] = f
  <2>1. \A k \in 0 .. m : c[k] \in Ancestry(tree, f)
    BY <1>2, <1>4, AscentInAncestry
  <2>2. DOMAIN tree \subseteq Files \cup {Root}
    BY CurrentTree, TreeFacts
  <2> QED  BY <1>4, <2>1, <2>2 DEF Ascent
<1> DEFINE r == [k \in 0 .. m |-> CHOOSE ref : RecordsOf(base, delta, c[k]) = {ref}]
           names == [k \in 0 .. m |-> tree[c[k]].name]
<1>6. ASSUME NEW k \in 0 .. m, NEW ref, RecordsOf(base, delta, c[k]) = {ref} PROVE r[k] = ref
  BY <1>6
<1> HIDE DEF r
<1>7. ASSUME NEW k \in 0 .. m - 1
      PROVE  /\ RecordsOf(base, delta, c[k]) = {r[k]} /\ Record(base, delta, r[k]).name = tree[c[k]].name
             /\ {Frn(p) : p \in ParentOf(base, delta, r[k])} = {c[k + 1]}
  <2>1. c[k] \in Files /\ c[k] \in DOMAIN tree /\ c[k] \notin orphans /\ k \in 0 .. m /\ c[k + 1] = tree[c[k]].parent
    BY <1>5
  <2>2. PICK ref \in RecordsOf(base, delta, c[k]) :
          /\ RecordsOf(base, delta, c[k]) = {ref} /\ Record(base, delta, ref).name = tree[c[k]].name
          /\ {Frn(p) : p \in ParentOf(base, delta, ref)} = {tree[c[k]].parent}
    BY <1>3, <2>1 DEF Agrees
  <2>3. r[k] = ref
    BY <1>6, <2>1, <2>2
  <2> QED  BY <2>1, <2>2, <2>3
<1>8. RecordsOf(base, delta, Root) = {r[m]} /\ r[m] = BaseRef(base.frns[Root])
  <2>1. m \in 0 .. m
    OBVIOUS
  <2> QED  BY <1>1, <1>4, <1>6, <2>1
<1>9. \A k \in 0 .. m : RecordsOf(base, delta, c[k]) = {r[k]}
  <2>1. \A k \in 0 .. m : k \in 0 .. m - 1 \/ k = m
    OBVIOUS
  <2> QED  BY <1>4, <1>7, <1>8, <2>1
<1>10. ASSUME NEW k \in 0 .. m - 1 PROVE ParentOf(base, delta, r[k]) = {r[k + 1]}
  <2>1. k \in 0 .. m /\ k + 1 \in 0 .. m
    OBVIOUS
  <2>2. PICK p \in ParentOf(base, delta, r[k]) : Frn(p) = c[k + 1]
    <3>1. {Frn(p) : p \in ParentOf(base, delta, r[k])} = {c[k + 1]}
      BY <1>7
    <3>2. c[k + 1] \in {Frn(p) : p \in ParentOf(base, delta, r[k])}
      BY <3>1
    <3> QED  BY <3>2
  <2>3. ParentOf(base, delta, r[k]) = {p}
    BY <2>2, OneParent
  <2>4. r[k] \in LiveRecords(base, delta) /\ Record(base, delta, r[k]).frn = c[k]
    BY <1>9, <2>1 DEF RecordsOf
  <2>5. r[k] \notin Stranded(base, delta)
    BY <1>1, <1>5, <2>1, <2>4 DEF StrandedOK
  <2>6. p \in LiveRecords(base, delta)
    BY <2>2, <2>4, <2>5 DEF Stranded
  <2>7. p \in RecordsOf(base, delta, c[k + 1])
    BY <2>2, <2>6 DEF RecordsOf, Frn
  <2> QED  BY <1>9, <2>1, <2>3, <2>7
<1>11. ParentOf(base, delta, r[m]) = {}
  BY <1>1, <1>8 DEF BaseRef, ParentOf
<1>12. \A k \in 0 .. m : r[k] \in Refs(base, delta)
  <2>1. LiveRecords(base, delta) \subseteq Refs(base, delta)
    BY DEF LiveRecords, LiveBase, LiveAdded, Refs
  <2> QED  BY <1>9, <2>1 DEF RecordsOf
<1>13. Climbs(base, delta, r, m)
  BY <1>10, <1>11, <1>12 DEF Climbs
<1>14. \A k \in 0 .. m : names[k] = Record(base, delta, r[k]).name
  <2>1. \A k \in 0 .. m - 1 : names[k] = Record(base, delta, r[k]).name
    BY <1>7
  <2>2. names[m] = Record(base, delta, r[m]).name
    <3>1. tree[Root].name = 0
      BY CurrentTree, TreeFacts DEF RootEntry
    <3>2. Record(base, delta, r[m]) = base.recs[base.frns[Root]]
      BY <1>8 DEF BaseRef, Record
    <3>3. names[m] = tree[Root].name
      BY <1>4
    <3> QED  BY <1>1, <3>1, <3>2, <3>3
  <2>3. \A k \in 0 .. m : k \in 0 .. m - 1 \/ k = m
    OBVIOUS
  <2> QED  BY <2>1, <2>2, <2>3
<1>15. \A k \in 0 .. m : names[k] = tree[c[k]].name
  OBVIOUS
<1> HIDE DEF names
<1>16. PathOf(base, delta, r[0]) = PathNames(names, m, 0)
  BY <1>1, <1>13, <1>14, PathOfClimb DEF LayersOK
<1>17. TruePath(f) = PathNames(names, m, 0)
  BY <1>2, <1>4, <1>15, TruePathOfAscent
<1>18. RecordsOf(base, delta, f) = {r[0]}
  <2>1. 0 \in 0 .. m /\ c[0] = f
    BY <1>5
  <2> QED  BY <1>9, <2>1
<1> QED  BY <1>16, <1>17, <1>18 DEF ShownPaths

\* Inductive, with the invariants of the layers and of what they show.
THEOREM GroundedInvariant == Spec => [](Inv /\ Converging /\ Grounded)
<1>1. Init => Inv /\ Converging /\ Grounded
  BY InitInv, InitConverges, InitGrounds
<1>2. Inv /\ Converging /\ Grounded /\ [Next]_vars => (Inv /\ Converging /\ Grounded)'
  BY NextKeepsInv, NextConverges, NextGrounds
<1> QED  BY <1>1, <1>2, PTL DEF Spec

\* full_path of a view that has caught up spells where a file is: names from the
\* root down, through base and delta, whatever was renamed, moved or compacted
\* in between, unless the file or a directory above it was stranded.
THEOREM Paths == Spec => []PathExact
<1>1. Inv /\ Converging /\ Grounded => PathExact
  BY ExactPaths
<1> QED  BY <1>1, GroundedInvariant, PTL

\* A compaction without equal names keeps every record that has its directories,
\* up to one without a parent, under its path.
LEMMA CompactKeepsPaths ==
  ASSUME Inv, Compact, "equal names" \notin defects'
  PROVE  KeepsPaths(Rooted) /\ Len(base'.recs) = Cardinality(LiveRecords(base, delta))
<1>1. LayersOK(base, delta) /\ ~Ties(base, delta) /\ base' = Compacted(base, delta) /\ delta' = NewDelta
  BY DEF Inv, View, Compact, LayersOK
<1>2. Len(base'.recs) = Cardinality(LiveRecords(base, delta))
  BY <1>1, MergedLength DEF LayersOK
<1>3. ASSUME NEW ref \in Rooted
      PROVE  {PathOf(base', delta', x) : x \in RecordsOf(base', delta', Frn(ref))} = {PathOf(base, delta, ref)}
  <2>1. PICK top \in Ancestors(base, delta, ref) : ParentOf(base, delta, top) = {}
    BY DEF Rooted
  <2>2. ref \in LiveRecords(base, delta) /\ Ancestors(base, delta, ref) \subseteq LiveRecords(base, delta)
    BY DEF Rooted
  <2>3. {PathOf(Compacted(base, delta), NewDelta, x) :
           x \in RecordsOf(Compacted(base, delta), NewDelta, Record(base, delta, ref).frn)}
          = {PathOf(base, delta, ref)}
    BY <1>1, <2>1, <2>2, CompactedPath
  <2> QED  BY <1>1, <2>3 DEF Frn
<1> QED  BY <1>2, <1>3 DEF KeepsPaths

\* compact_to_snapshot keeps every record's path through all it does to parents,
\* the places it computes for them included, while the names it merges are
\* different and a record's directories have not been renamed under it.
THEOREM CompactedPaths == Spec => CompactionKeepsPaths
<1> DEFINE PathsKept == KeepsPaths(Rooted) /\ Len(base'.recs) = Cardinality(LiveRecords(base, delta))
<1>1. Inv /\ [Next]_vars => [Compact /\ "equal names" \notin defects' => PathsKept]_vars
  BY CompactKeepsPaths
<1> QED  BY <1>1, Invariant, PTL DEF Spec, CompactionKeepsPaths
=============================================================================
