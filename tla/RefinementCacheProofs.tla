------------------------ MODULE RefinementCacheProofs ------------------------
(***************************************************************************)
(* A query that is answered from the candidates of the one before it gets  *)
(* the answer that a search would give, and so does every other: the best  *)
(* of what matches. The proof is about sorting and the bounded heap first, *)
(* then about the tree order, the interval sets and the overlay, then      *)
(* about the searches of a view, and last about the cache.                 *)
(***************************************************************************)
EXTENDS RefinementCache, FiniteSetTheorems, FunctionTheorems, SequenceTheorems, WellFoundedInduction, TLAPS

-----------------------------------------------------------------------------
(* Induction up to a number, and functions defined along it. *)

\* A set that has zero, and with each number the next, has all of them.
LEMMA NatSetInduction ==
  ASSUME NEW S, 0 \in S, \A n \in Nat : n \in S => n + 1 \in S
  PROVE  Nat \subseteq S
<1> SUFFICES ASSUME NEW n \in Nat, n \notin S PROVE FALSE
  OBVIOUS
<1> DEFINE Missing == {0 .. m : m \in Nat \ S}
<1>1. Missing \subseteq FiniteSubsetsOf(Nat) /\ Missing # {}
  <2>1. \A m \in Nat : IsFiniteSet(0 .. m) /\ 0 .. m \in SUBSET Nat
    BY FS_Interval
  <2> QED  BY <2>1 DEF FiniteSubsetsOf
<1>2. PICK x \in Missing : \A y \in Missing : <<y, x>> \notin StrictSubsetOrdering(Nat)
  <2> HIDE DEF Missing
  <2> QED  BY <1>1, FS_StrictSubsetOrderingWellFounded, WFMin
<1>3. PICK m \in Nat \ S : x = 0 .. m
  OBVIOUS
<1>4. m # 0 /\ m - 1 \in Nat /\ m - 1 \notin S
  OBVIOUS
<1>5. 0 .. (m - 1) \in Missing
  BY <1>4
<1>6. 0 .. (m - 1) \subseteq 0 .. m /\ 0 .. (m - 1) # 0 .. m /\ 0 .. m \in SUBSET Nat
  BY <1>4
<1> QED  BY <1>2, <1>3, <1>5, <1>6 DEF StrictSubsetOrdering

\* What holds of zero, and of each number up to n if of the one before it,
\* holds of all of them.
LEMMA UpTo ==
  ASSUME NEW n \in Nat, NEW S, 0 \in S, \A k \in 1 .. n : k - 1 \in S => k \in S
  PROVE  0 .. n \subseteq S
<1> DEFINE T == {k \in Nat : k <= n => k \in S}
<1>1. 0 \in T
  OBVIOUS
<1>2. ASSUME NEW k \in Nat, k \in T PROVE k + 1 \in T
  <2>1. k + 1 <= n => k + 1 \in 1 .. n /\ (k + 1) - 1 = k
    OBVIOUS
  <2> QED  BY <1>2, <2>1
<1> HIDE DEF T
<1>3. Nat \subseteq T
  BY <1>1, <1>2, NatSetInduction
<1> QED  BY <1>3 DEF T

Steps(n, S, first, step) == n \in Nat /\ first \in S /\ step \in [1 .. n -> [S -> S]]

Follows(f, n, S, first, step) ==
  f \in [0 .. n -> S] /\ f[0] = first /\ \A k \in 1 .. n : f[k] = step[k][f[k - 1]]

\* From a first value and a step there is a value for each number.
LEMMA StepsExist ==
  ASSUME NEW n, NEW S, NEW first, NEW step, Steps(n, S, first, step)
  PROVE  \E f : Follows(f, n, S, first, step)
<1> USE DEF Steps, Follows
<1> DEFINE IsPart(f, m) == /\ f \in [0 .. m -> S] /\ f[0] = first
                             /\ \A k \in 1 .. m : f[k] = step[k][f[k - 1]]
           T == {m \in Nat : \E f : IsPart(f, m)}
<1>1. 0 \in T
  <2>1. IsPart([k \in 0 .. 0 |-> first], 0)
    OBVIOUS
  <2> QED  BY <2>1
<1>2. ASSUME NEW m \in 1 .. n, m - 1 \in T PROVE m \in T
  <2>1. PICK f : IsPart(f, m - 1)
    BY <1>2
  <2> DEFINE g == [k \in 0 .. m |-> IF k = m THEN step[m][f[m - 1]] ELSE f[k]]
  <2>2. m \in Nat /\ m - 1 \in 0 .. m - 1 /\ f[m - 1] \in S
    BY <2>1
  <2>3. \A k \in 0 .. m : k # m => k \in 0 .. m - 1
    BY <2>2
  <2>4. step[m][f[m - 1]] \in S
    BY <2>2
  <2>5. g \in [0 .. m -> S] /\ g[0] = first
    BY <2>1, <2>2, <2>3, <2>4
  <2>6. ASSUME NEW k \in 1 .. m PROVE g[k] = step[k][g[k - 1]]
    <3>1. k - 1 \in 0 .. m /\ k - 1 # m /\ g[k - 1] = f[k - 1]
      BY <2>2
    <3>2. CASE k = m
      BY <3>1, <3>2, <2>2
    <3>3. CASE k # m
      <4>1. k \in 1 .. m - 1 /\ k \in 0 .. m
        BY <3>3, <2>2
      <4> QED  BY <4>1, <3>1, <3>3, <2>1
    <3> QED  BY <3>2, <3>3
  <2> HIDE DEF g
  <2>7. IsPart(g, m)
    BY <2>5, <2>6
  <2> QED  BY <2>7, <2>2
<1> HIDE DEF T
<1>3. 0 .. n \subseteq T
  BY <1>1, <1>2, UpTo
<1>4. n \in T
  BY <1>3
<1> QED  BY <1>4 DEF T

LEMMA LeastExists ==
  ASSUME NEW S \in SUBSET Nat, NEW some \in S
  PROVE  \E least \in S : \A x \in S : least <= x
<1> SUFFICES ASSUME \A least \in S : \E x \in S : ~(least <= x) PROVE FALSE
  OBVIOUS
<1> DEFINE T == {k \in Nat : \A x \in S : ~(x <= k)}
<1>1. 0 \in T
  OBVIOUS
<1>2. \A k \in 1 .. some : k - 1 \in T => k \in T
  OBVIOUS
<1> HIDE DEF T
<1>3. 0 .. some \subseteq T
  BY <1>1, <1>2, UpTo
<1>4. some \in T
  BY <1>3
<1> QED  BY <1>4 DEF T

\* The largest of finitely many numbers is one of them.
LEMMA LargestExists ==
  ASSUME NEW S \in SUBSET Int, IsFiniteSet(S), S # {}
  PROVE  Max(S) \in S /\ \A x \in S : x <= Max(S)
<1> DEFINE below(x) == {y \in S : y <= x}
<1>1. \A x \in S : IsFiniteSet(below(x)) /\ Cardinality(below(x)) \in Nat
                     /\ Cardinality(below(x)) <= Cardinality(S)
  <2> TAKE x \in S
  <2>1. below(x) \in SUBSET S
    OBVIOUS
  <2> HIDE DEF below
  <2> QED  BY <2>1, FS_Subset, FS_CardinalityType
<1>2. Cardinality(S) \in Nat
  BY FS_CardinalityType
<1> DEFINE above(x) == Cardinality(S) - Cardinality(below(x))
           D == {above(x) : x \in S}
<1>3. D \in SUBSET Nat /\ D # {}
  <2> HIDE DEF below
  <2>1. \A x \in S : above(x) \in Nat
    BY <1>1, <1>2
  <2> HIDE DEF above
  <2> QED  BY <2>1
<1>4. PICK least \in D : \A d \in D : least <= d
  <2> HIDE DEF D
  <2> QED  BY <1>3, LeastExists
<1>5. PICK x \in S : least = Cardinality(S) - Cardinality(below(x))
  <2> HIDE DEF below
  <2> QED  BY <1>4
<1>6. ASSUME NEW y \in S PROVE y <= x
  <2> SUFFICES ASSUME ~(y <= x) PROVE FALSE
    OBVIOUS
  <2>1. below(x) \in SUBSET below(y) /\ y \in below(y) /\ y \notin below(x)
    <3>1. x \in Int /\ y \in Int /\ x <= y /\ \A z \in S : z \in Int
      BY <1>6
    <3>2. \A z \in S : z <= x => z <= y
      BY <3>1
    <3>3. y <= y
      BY <3>1
    <3> QED  BY <3>2, <3>3
  <2> HIDE DEF below
  <2>2. Cardinality(below(x)) < Cardinality(below(y))
    <3>1. Cardinality(below(x)) <= Cardinality(below(y)) /\ Cardinality(below(x)) # Cardinality(below(y))
      BY <1>1, <1>6, <2>1, FS_Subset
    <3> QED  BY <1>1, <1>5, <1>6, <3>1
  <2>3. Cardinality(S) - Cardinality(below(y)) \in D
    BY <1>6
  <2>4. least <= Cardinality(S) - Cardinality(below(y))
    BY <1>4, <2>3
  <2> QED  BY <1>1, <1>2, <1>5, <1>6, <2>2, <2>4
<1>7. \A y \in S : x >= y
  BY <1>6
<1> DEFINE m == Max(S)
<1>8. m \in S /\ \A y \in S : m >= y
  BY <1>7 DEF Max
<1> HIDE DEF m
<1>9. \A y \in S : y <= m
  BY <1>8
<1> QED  BY <1>8, <1>9 DEF m

LEMMA MaxUpTo ==
  ASSUME NEW k \in Nat \ {0}
  PROVE  Max(1 .. k) = k
<1>1. IsFiniteSet(1 .. k) /\ 1 .. k \in SUBSET Int /\ k \in 1 .. k
  BY FS_Interval
<1>2. Max(1 .. k) \in 1 .. k /\ k <= Max(1 .. k)
  BY <1>1, LargestExists
<1> QED  BY <1>2

-----------------------------------------------------------------------------
(* Folds: one over a set takes its elements in some order, one over a     *)
(* sequence from the first on.                                            *)

Foldable(D, S, first, pick, op) ==
  /\ IsFiniteSet(D) /\ first \in S /\ op \in [D -> [S -> S]]
  /\ \A s \in SUBSET D : s # {} => pick[s] \in s

Folds(f, D, S, first, pick, op) ==
  /\ f \in [SUBSET D -> S] /\ f[{}] = first
  /\ \A s \in SUBSET D : s # {} => f[s] = op[pick[s]][f[s \ {pick[s]}]]

LEMMA FoldExists ==
  ASSUME NEW D, NEW S, NEW first, NEW pick, NEW op, Foldable(D, S, first, pick, op)
  PROVE  \E f : Folds(f, D, S, first, pick, op)
<1> DEFINE N == Cardinality(D)
           F == [SUBSET D -> S]
           Turn(g) == [s \in SUBSET D |-> IF s = {} THEN first ELSE op[pick[s]][g[s \ {pick[s]}]]]
           start == [s \in SUBSET D |-> first]
           step == [k \in 1 .. N + 1 |-> [g \in F |-> Turn(g)]]
<1>1. N \in Nat /\ start \in F /\ IsFiniteSet(D)
  BY FS_CardinalityType DEF Foldable
<1>2. ASSUME NEW g \in F PROVE Turn(g) \in F
  <2>1. ASSUME NEW s \in SUBSET D, s # {} PROVE op[pick[s]][g[s \ {pick[s]}]] \in S
    <3>1. pick[s] \in D /\ s \ {pick[s]} \in SUBSET D
      BY <2>1 DEF Foldable
    <3> QED  BY <3>1 DEF Foldable
  <2> QED  BY <2>1 DEF Foldable
<1> HIDE DEF Turn, N
<1>3. Steps(N + 1, F, start, step)
  <2> HIDE DEF F, start
  <2>1. N + 1 \in Nat
    BY <1>1
  <2>2. step \in [1 .. N + 1 -> [F -> F]]
    BY <1>2
  <2> HIDE DEF step
  <2> QED  BY <1>1, <2>1, <2>2 DEF Steps
<1> HIDE DEF step
<1>4. PICK h : Follows(h, N + 1, F, start, step)
  BY <1>3, StepsExist
<1> HIDE DEF F
<1>5. /\ h \in [0 .. N + 1 -> F] /\ h[0] = start
      /\ \A k \in 1 .. N + 1 : h[k] = step[k][h[k - 1]]
  BY <1>4 DEF Follows
<1>6. ASSUME NEW k \in 1 .. N + 1 PROVE h[k] = Turn(h[k - 1]) /\ h[k - 1] \in F
  <2>1. k - 1 \in 0 .. N + 1
    BY <1>1
  <2> QED  BY <1>5, <2>1 DEF step
<1> DEFINE Small(s, k) == Cardinality(s) <= k
           T == {k \in 0 .. N : \A s \in SUBSET D : Small(s, k) => h[k][s] = h[k + 1][s]}
<1>7. 0 \in T
  <2>1. \A s \in SUBSET D : Cardinality(s) <= 0 => s = {}
    BY <1>1, FS_Subset, FS_EmptySet, FS_CardinalityType
  <2>2. h[1][{}] = first
    <3>1. 1 \in 1 .. N + 1 /\ 1 - 1 = 0
      BY <1>1
    <3>2. h[1] = Turn(h[0])
      BY <1>6, <3>1
    <3> QED  BY <3>2 DEF Turn
  <2>3. h[0][{}] = first
    BY <1>5
  <2>4. \A s \in SUBSET D : Small(s, 0) => h[0][s] = h[0 + 1][s]
    BY <2>1, <2>2, <2>3
  <2> HIDE DEF Small
  <2> QED  BY <1>1, <2>4
<1>8. ASSUME NEW k \in 1 .. N, k - 1 \in T PROVE k \in T
  <2>1. /\ k \in 1 .. N + 1 /\ k + 1 \in 1 .. N + 1 /\ k + 1 - 1 = k /\ k - 1 + 1 = k /\ k \in 0 .. N
    BY <1>1
  <2>2. h[k] = Turn(h[k - 1]) /\ h[k + 1] = Turn(h[k])
    BY <1>6, <2>1
  <2>3. ASSUME NEW s \in SUBSET D, Small(s, k), s # {} PROVE h[k][s] = h[k + 1][s]
    <3> DEFINE rest == s \ {pick[s]}
    <3>1. pick[s] \in s
      BY <2>3 DEF Foldable
    <3>2. Cardinality(rest) = Cardinality(s) - 1 /\ Cardinality(s) \in Nat
      BY <1>1, <3>1, FS_Subset, FS_RemoveElement, FS_CardinalityType
    <3>3. rest \in SUBSET D /\ Small(rest, k - 1)
      BY <2>3, <3>2
    <3>4. h[k - 1][rest] = h[k][rest]
      BY <1>8, <2>1, <3>3
    <3>5. Turn(h[k - 1])[s] = op[pick[s]][h[k - 1][rest]] /\ Turn(h[k])[s] = op[pick[s]][h[k][rest]]
      BY <2>3 DEF Turn
    <3> QED  BY <2>2, <3>4, <3>5
  <2>4. h[k][{}] = h[k + 1][{}]
    BY <2>2 DEF Turn
  <2> QED  BY <2>1, <2>3, <2>4
<1> HIDE DEF T
<1>9. N \in T
  <2>1. 0 .. N \subseteq T
    BY <1>1, <1>7, <1>8, UpTo
  <2> QED  BY <1>1, <2>1
<1>10. \A s \in SUBSET D : h[N][s] = h[N + 1][s]
  <2>1. \A s \in SUBSET D : Small(s, N)
    BY <1>1, FS_Subset DEF N
  <2> QED  BY <1>9, <2>1 DEF T
<1>11. h[N + 1] = Turn(h[N]) /\ h[N] \in F
  <2> DEFINE last == N + 1
  <2>1. last \in 1 .. N + 1 /\ last - 1 = N
    BY <1>1
  <2> HIDE DEF F, last
  <2>2. h[last] = Turn(h[last - 1]) /\ h[last - 1] \in F
    BY <1>6, <2>1
  <2> QED  BY <2>1, <2>2 DEF last
<1>12. \A s \in SUBSET D : h[N][s] = Turn(h[N])[s]
  BY <1>10, <1>11
<1>13. Folds(h[N], D, S, first, pick, op)
  <2>1. {} \in SUBSET D
    OBVIOUS
  <2>2. h[N][{}] = first
    BY <1>12, <2>1 DEF Turn
  <2>3. \A s \in SUBSET D : s # {} => h[N][s] = op[pick[s]][h[N][s \ {pick[s]}]]
    BY <1>12 DEF Turn
  <2> QED  BY <1>11, <2>2, <2>3 DEF Folds, F
<1> QED  BY <1>13

\* What a fold of a sequence goes by: FoldLeft takes the last of the first k
\* for the k-th step.
Folded(f, n, S, first, op) ==
  /\ f \in [SUBSET (1 .. n) -> S] /\ f[{}] = first
  /\ \A s \in SUBSET (1 .. n) : s # {} => f[s] = op[Max(s)][f[s \ {Max(s)}]]

LEMMA FoldLeftExists ==
  ASSUME NEW n, NEW S, NEW first, NEW op, Steps(n, S, first, op)
  PROVE  \E f : Folded(f, n, S, first, op)
<1> DEFINE pick == [s \in SUBSET (1 .. n) |-> Max(s)]
<1>1. n \in Nat /\ IsFiniteSet(1 .. n)
  BY FS_Interval DEF Steps
<1>2. ASSUME NEW s \in SUBSET (1 .. n), s # {} PROVE Max(s) \in s
  <2>1. IsFiniteSet(s)
    BY <1>1, FS_Subset
  <2>2. s \in SUBSET Int
    OBVIOUS
  <2> QED  BY <1>2, <2>1, <2>2, LargestExists
<1>3. Foldable(1 .. n, S, first, pick, op)
  BY <1>1, <1>2 DEF Foldable, Steps
<1>4. PICK f : Folds(f, 1 .. n, S, first, pick, op)
  BY <1>3, FoldExists
<1>5. Folded(f, n, S, first, op)
  BY <1>4 DEF Folds, Folded
<1> QED  BY <1>5

\* The stages of a fold of a sequence.
LEMMA FoldStages ==
  ASSUME NEW n \in Nat, NEW k \in 1 .. n
  PROVE  /\ 1 .. k \in SUBSET (1 .. n) /\ 1 .. k # {} /\ Max(1 .. k) = k
         /\ (1 .. k) \ {k} = 1 .. k - 1
<1>1. Max(1 .. k) = k
  BY MaxUpTo
<1> QED  BY <1>1

LEMMA LastOfSome ==
  ASSUME NEW n \in Nat, NEW s \in SUBSET (1 .. n), s # {}
  PROVE  Max(s) \in s
<1>1. IsFiniteSet(1 .. n)
  BY FS_Interval
<1>2. IsFiniteSet(s)
  BY <1>1, FS_Subset
<1>3. \A k \in 1 .. n : k \in Int
  OBVIOUS
<1>4. s \in SUBSET Int
  BY <1>3
<1> QED  BY <1>2, <1>4, LargestExists

-----------------------------------------------------------------------------
(* Ranking: what the bounded heap retains. *)

KeySet(K) == K \in SUBSET Int /\ IsFiniteSet(K)

\* Those among some keys that a list of limited length has room for.
IsBest(best, keys, limit) ==
  /\ best \subseteq keys
  /\ Cardinality(best) = IF Cardinality(keys) < limit THEN Cardinality(keys) ELSE limit
  /\ \A x \in best, y \in keys \ best : x < y

LEMMA BestFinite ==
  ASSUME NEW keys, KeySet(keys), NEW best, NEW limit \in Nat, IsBest(best, keys, limit)
  PROVE  /\ KeySet(best) /\ Cardinality(best) \in Nat /\ Cardinality(keys) \in Nat
         /\ Cardinality(best) <= limit /\ Cardinality(best) <= Cardinality(keys)
         /\ Cardinality(best) < limit => best = keys
<1>1. KeySet(best) /\ Cardinality(best) \in Nat /\ Cardinality(keys) \in Nat
  BY FS_Subset, FS_CardinalityType DEF IsBest, KeySet
<1>2. Cardinality(best) <= limit /\ Cardinality(best) <= Cardinality(keys)
  BY <1>1 DEF IsBest
<1>3. Cardinality(best) < limit => Cardinality(best) = Cardinality(keys)
  BY <1>1 DEF IsBest
<1>4. Cardinality(best) = Cardinality(keys) => best = keys
  BY FS_Subset DEF IsBest, KeySet
<1> QED  BY <1>1, <1>2, <1>3, <1>4

LEMMA BestUnique ==
  ASSUME NEW keys, KeySet(keys), NEW limit \in Nat,
         NEW a, IsBest(a, keys, limit), NEW b, IsBest(b, keys, limit)
  PROVE  a = b
<1>1. KeySet(a) /\ KeySet(b) /\ Cardinality(a) = Cardinality(b)
  BY BestFinite DEF IsBest
<1>2. a \subseteq b \/ b \subseteq a
  <2> SUFFICES ASSUME NEW x \in a \ b, NEW y \in b \ a PROVE FALSE
    OBVIOUS
  <2>1. x < y /\ y < x /\ x \in Int /\ y \in Int
    BY <1>1 DEF IsBest, KeySet
  <2> QED  BY <2>1
<1>3. CASE a \subseteq b
  BY <1>1, <1>3, FS_Subset DEF KeySet
<1>4. CASE b \subseteq a
  BY <1>1, <1>4, FS_Subset DEF KeySet
<1> QED  BY <1>2, <1>3, <1>4

\* A heap that has the best of some keys has, once it has been offered one
\* more, the best of all of those.
LEMMA RetainHitIsBest ==
  ASSUME NEW keys, KeySet(keys), NEW best, NEW limit \in Nat, IsBest(best, keys, limit),
         NEW key \in Int, key \notin keys
  PROVE  KeySet(keys \cup {key}) /\ IsBest(RetainHit(best, key, limit), keys \cup {key}, limit)
<1> DEFINE all == keys \cup {key}
<1>1. /\ KeySet(best) /\ Cardinality(best) \in Nat /\ Cardinality(keys) \in Nat
      /\ Cardinality(best) <= limit /\ Cardinality(best) <= Cardinality(keys)
      /\ Cardinality(best) < limit => best = keys
  BY BestFinite
<1>2. KeySet(all) /\ Cardinality(all) = Cardinality(keys) + 1
  BY FS_AddElement DEF KeySet
<1>3. best \subseteq keys /\ key \notin best
  BY DEF IsBest
<1>4. CASE Cardinality(best) < limit
  <2>1. RetainHit(best, key, limit) = all /\ best = keys
    BY <1>1, <1>4 DEF RetainHit
  <2>2. Cardinality(all) <= limit
    BY <1>1, <1>2, <1>4, <2>1
  <2> QED  BY <1>1, <1>2, <2>1, <2>2 DEF IsBest
<1>5. CASE Cardinality(best) = limit /\ limit > 0 /\ key < Max(best)
  <2> DEFINE worst == Max(best)
             kept == (best \ {worst}) \cup {key}
  <2>1. best # {}
    BY <1>5, FS_EmptySet
  <2>2. worst \in best /\ \A x \in best : x <= worst
    BY <1>1, <2>1, LargestExists DEF KeySet
  <2> HIDE DEF worst
  <2>3. RetainHit(best, key, limit) = kept
    BY <1>5 DEF RetainHit, worst
  <2>4. Cardinality(best \ {worst}) = limit - 1 /\ IsFiniteSet(best \ {worst})
    BY <1>1, <1>5, <2>2, FS_RemoveElement DEF KeySet
  <2>5. Cardinality(kept) = limit
    <3>1. key \notin best \ {worst}
      BY <1>3
    <3>2. Cardinality(kept) = limit - 1 + 1
      BY <2>4, <3>1, FS_AddElement
    <3> QED  BY <3>2
  <2>6. ASSUME NEW x \in kept, NEW y \in all \ kept PROVE x < y
    <3>1. x \in Int /\ y \in Int /\ worst \in Int
      BY <1>1, <1>2, <1>3, <2>2 DEF KeySet
    <3>2. x < worst
      <4>1. CASE x = key
        BY <4>1, <1>5 DEF worst
      <4>2. CASE x \in best \ {worst}
        BY <2>2, <3>1, <4>2
      <4> QED  BY <4>1, <4>2
    <3>3. CASE y = worst
      BY <3>2, <3>3
    <3>4. CASE y \in keys \ best
      <4>1. worst < y
        BY <2>2, <3>4 DEF IsBest
      <4> QED  BY <3>1, <3>2, <4>1
    <3> QED  BY <3>3, <3>4
  <2>7. kept \subseteq all
    BY <1>3
  <2>8. ~(Cardinality(all) < limit)
    BY <1>1, <1>2, <1>5
  <2> HIDE DEF kept
  <2>9. IsBest(kept, all, limit)
    BY <2>5, <2>6, <2>7, <2>8 DEF IsBest
  <2> QED  BY <1>2, <2>3, <2>9
<1>6. CASE Cardinality(best) = limit /\ ~(limit > 0 /\ key < Max(best))
  <2>1. RetainHit(best, key, limit) = best
    BY <1>6 DEF RetainHit
  <2>2. ~(Cardinality(all) < limit)
    BY <1>1, <1>2, <1>6
  <2>3. \A x \in best : x < key
    <3> SUFFICES ASSUME NEW x \in best PROVE x < key
      OBVIOUS
    <3>1. best # {} /\ limit > 0
      BY <1>1, <1>6, FS_EmptySet DEF KeySet
    <3>2. Max(best) \in best /\ x <= Max(best)
      BY <1>1, <3>1, LargestExists DEF KeySet
    <3>3. x \in Int /\ Max(best) \in Int /\ x # key
      BY <1>1, <1>3, <3>2 DEF KeySet
    <3>4. ~(key < Max(best))
      BY <1>6, <3>1
    <3> QED  BY <3>2, <3>3, <3>4, <1>3
  <2>4. \A x \in best, y \in all \ best : x < y
    BY <2>3 DEF IsBest
  <2>5. IsBest(best, all, limit)
    BY <1>3, <1>6, <2>2, <2>4 DEF IsBest
  <2> QED  BY <1>2, <2>1, <2>5
<1>7. Cardinality(best) < limit \/ Cardinality(best) = limit
  BY <1>1
<1> QED  BY <1>4, <1>5, <1>6, <1>7

\* So has one that has been offered any number of further keys.
LEMMA RetainAllIsBest ==
  ASSUME NEW keys, KeySet(keys), NEW best, NEW limit \in Nat, IsBest(best, keys, limit),
         NEW more, KeySet(more), more \cap keys = {}
  PROVE  IsBest(RetainAll(best, more, limit), keys \cup more, limit)
<1> DEFINE S == SUBSET Int
           next(s) == CHOOSE x \in s : TRUE
           pick == [s \in SUBSET more |-> next(s)]
           op == [x \in more |-> [heap \in S |-> RetainHit(heap, x, limit)]]
           IsFold(f) == f = [s \in SUBSET more |->
                               IF s = {} THEN best ELSE RetainHit(f[s \ {next(s)}], next(s), limit)]
           fold == CHOOSE f : IsFold(f)
<1>1. RetainAll(best, more, limit) = fold[more]
  BY DEF RetainAll, FoldSet, MapThenFoldSet
<1>2. \A s \in SUBSET more : s # {} => next(s) \in s
  OBVIOUS
<1> HIDE DEF next
<1>3. Foldable(more, S, best, pick, op)
  <2>1. \A s \in SUBSET more : s # {} => pick[s] \in s
    BY <1>2
  <2>2. best \in S /\ IsFiniteSet(more)
    BY DEF IsBest, KeySet
  <2>3. \A x \in more, heap \in S : RetainHit(heap, x, limit) \in S
    BY DEF RetainHit, KeySet
  <2>4. op \in [more -> [S -> S]]
    BY <2>3
  <2> HIDE DEF S, pick, op
  <2> QED  BY <2>1, <2>2, <2>4 DEF Foldable
<1>4. PICK f : Folds(f, more, S, best, pick, op)
  <2> HIDE DEF S, pick, op
  <2> QED  BY <1>3, FoldExists
<1>5. IsFold(f)
  <2>1. f \in [SUBSET more -> S] /\ f[{}] = best
    BY <1>4 DEF Folds
  <2>2. ASSUME NEW s \in SUBSET more, s # {} PROVE f[s] = RetainHit(f[s \ {next(s)}], next(s), limit)
    <3>1. next(s) \in more /\ s \ {next(s)} \in SUBSET more /\ pick[s] = next(s)
      BY <1>2, <2>2
    <3>2. f[s] = op[next(s)][f[s \ {next(s)}]] /\ f[s \ {next(s)}] \in S
      <4> HIDE DEF pick, op, S
      <4> QED  BY <1>4, <2>2, <3>1 DEF Folds
    <3> QED  BY <3>1, <3>2
  <2> HIDE DEF S
  <2> QED  BY <2>1, <2>2
<1>6. IsFold(fold)
  <2> HIDE DEF IsFold
  <2> QED  BY <1>5 DEF fold
<1> HIDE DEF fold
<1>7. fold[{}] = best
  BY <1>6
<1>8. ASSUME NEW s \in SUBSET more, s # {}, IsBest(fold[s \ {next(s)}], keys \cup (s \ {next(s)}), limit)
      PROVE  IsBest(fold[s], keys \cup s, limit)
  <2> DEFINE rest == s \ {next(s)}
  <2>1. next(s) \in s /\ rest \in SUBSET more /\ (keys \cup rest) \cup {next(s)} = keys \cup s
    BY <1>2, <1>8
  <2>2. fold[s] = RetainHit(fold[rest], next(s), limit)
    BY <1>6, <1>8
  <2>3. KeySet(keys \cup rest) /\ next(s) \in Int /\ next(s) \notin keys \cup rest
    <3>1. IsFiniteSet(rest)
      BY <2>1, FS_Subset DEF KeySet
    <3>2. IsFiniteSet(keys \cup rest)
      BY <3>1, FS_Union DEF KeySet
    <3>3. keys \cup rest \in SUBSET Int
      BY <2>1 DEF KeySet
    <3> QED  BY <2>1, <3>2, <3>3 DEF KeySet
  <2>4. IsBest(RetainHit(fold[rest], next(s), limit), (keys \cup rest) \cup {next(s)}, limit)
    <3>1. IsBest(fold[rest], keys \cup rest, limit)
      BY <1>8
    <3> HIDE DEF rest
    <3> QED  BY <2>3, <3>1, RetainHitIsBest
  <2> QED  BY <2>1, <2>2, <2>4
<1> DEFINE Done(k) == \A s \in SUBSET more : Cardinality(s) = k => IsBest(fold[s], keys \cup s, limit)
           T == {k \in 0 .. Cardinality(more) : Done(k)}
<1>9. \A s \in SUBSET more : IsFiniteSet(s) /\ Cardinality(s) \in Nat /\ Cardinality(s) <= Cardinality(more)
  BY FS_Subset, FS_CardinalityType DEF KeySet
<1>10. Cardinality(more) \in Nat /\ more \in SUBSET more
  BY FS_CardinalityType DEF KeySet
<1>11. Done(0)
  <2>1. \A s \in SUBSET more : Cardinality(s) = 0 => s = {}
    BY <1>9, FS_EmptySet
  <2>2. keys \cup {} = keys
    OBVIOUS
  <2> QED  BY <1>7, <2>1, <2>2
<1>12. ASSUME NEW k \in 1 .. Cardinality(more), Done(k - 1) PROVE Done(k)
  <2> SUFFICES ASSUME NEW s \in SUBSET more, Cardinality(s) = k PROVE IsBest(fold[s], keys \cup s, limit)
    OBVIOUS
  <2>1. s # {}
    BY FS_EmptySet
  <2>2. next(s) \in s /\ s \ {next(s)} \in SUBSET more
    BY <1>2, <2>1
  <2>3. Cardinality(s \ {next(s)}) = k - 1
    BY <1>9, <2>2, FS_RemoveElement
  <2> QED  BY <1>8, <1>12, <2>1, <2>2, <2>3
<1> HIDE DEF Done
<1>13. 0 \in T /\ \A k \in 1 .. Cardinality(more) : k - 1 \in T => k \in T
  BY <1>10, <1>11, <1>12
<1> HIDE DEF T
<1>14. 0 .. Cardinality(more) \subseteq T
  BY <1>10, <1>13, UpTo
<1>15. Cardinality(more) \in T
  BY <1>10, <1>14
<1>16. IsBest(fold[more], keys \cup more, limit)
  BY <1>10, <1>15 DEF T, Done
<1> QED  BY <1>1, <1>16

\* The best of what is the best of its own shard is the best of all.
LEMMA RetainShardedIsBest ==
  ASSUME NEW shards, NEW limit \in Nat, KeySet(UNION shards), IsFiniteSet(shards)
  PROVE  IsBest(RetainSharded(shards, limit), UNION shards, limit)
<1> DEFINE keys == UNION shards
           top(K) == RetainAll({}, K, limit)
           merged == UNION {top(K) : K \in shards}
           best == RetainAll({}, merged, limit)
<1>1. ASSUME NEW K, KeySet(K) PROVE IsBest(top(K), K, limit)
  <2>1. KeySet({}) /\ IsBest({}, {}, limit)
    <3>1. 0 \in Nat /\ (0 < limit \/ limit = 0)
      OBVIOUS
    <3> QED  BY <3>1, FS_EmptySet DEF KeySet, IsBest
  <2>2. IsBest(RetainAll({}, K, limit), {} \cup K, limit)
    BY <1>1, <2>1, RetainAllIsBest
  <2> QED  BY <2>2
<1>2. \A K \in shards : KeySet(K)
  <2> SUFFICES ASSUME NEW K \in shards PROVE KeySet(K)
    OBVIOUS
  <2>1. K \in SUBSET keys
    OBVIOUS
  <2> QED  BY <2>1, FS_Subset DEF KeySet
<1> HIDE DEF top
<1>3. \A K \in shards : IsBest(top(K), K, limit)
  BY <1>1, <1>2
<1>4. merged \subseteq keys
  BY <1>3 DEF IsBest
<1>5. KeySet(keys) /\ KeySet(merged) /\ Cardinality(keys) \in Nat /\ Cardinality(merged) \in Nat
  BY <1>4, FS_Subset, FS_CardinalityType DEF KeySet
<1>6. IsBest(best, merged, limit)
  <2> HIDE DEF merged
  <2> QED  BY <1>1, <1>5 DEF top
<1>7. RetainSharded(shards, limit) = best
  BY DEF RetainSharded, top
<1> HIDE DEF best, merged
<1>8. best \subseteq merged /\ \A x \in best, y \in merged \ best : x < y
  BY <1>6 DEF IsBest
<1>9. /\ KeySet(best) /\ Cardinality(best) \in Nat /\ Cardinality(best) <= limit
      /\ Cardinality(best) < limit => best = merged
  BY <1>5, <1>6, BestFinite
<1>10. ASSUME NEW y \in keys, y \notin merged
       PROVE  \E K \in shards : /\ top(K) \subseteq merged /\ \A x \in top(K) : x < y
                                /\ Cardinality(top(K)) = limit /\ KeySet(top(K))
  <2>1. PICK K \in shards : y \in K
    OBVIOUS
  <2>2. top(K) \subseteq merged /\ y \notin top(K)
    BY <1>10 DEF merged
  <2>3. \A x \in top(K) : x < y
    BY <1>3, <2>1, <2>2 DEF IsBest
  <2>4. /\ KeySet(top(K)) /\ Cardinality(top(K)) \in Nat /\ Cardinality(top(K)) <= limit
        /\ Cardinality(top(K)) < limit => top(K) = K
    BY <1>2, <1>3, BestFinite
  <2>5. Cardinality(top(K)) = limit
    BY <2>1, <2>2, <2>4
  <2> QED  BY <2>2, <2>3, <2>4, <2>5
<1>11. ASSUME NEW x \in best, NEW y \in keys \ best PROVE x < y
  <2>1. CASE y \in merged
    BY <1>8, <2>1
  <2>2. CASE y \notin merged
    <3>1. PICK K \in shards : /\ top(K) \subseteq merged /\ \A z \in top(K) : z < y
                              /\ Cardinality(top(K)) = limit /\ KeySet(top(K))
      BY <1>10, <2>2
    <3> SUFFICES ASSUME ~(x < y) PROVE FALSE
      OBVIOUS
    <3>2. x \in Int /\ y \in Int
      BY <1>4, <1>5, <1>8 DEF KeySet
    <3>3. x \notin top(K)
      BY <3>1
    <3>4. top(K) \subseteq best
      <4> SUFFICES ASSUME NEW z \in top(K), z \notin best PROVE FALSE
        OBVIOUS
      <4>1. z < y /\ x < z /\ z \in Int
        BY <1>8, <3>1 DEF KeySet
      <4> QED  BY <3>2, <4>1
    <3>5. IsFiniteSet(top(K)) /\ Cardinality(top(K) \cup {x}) = limit + 1
      BY <3>1, <3>3, FS_AddElement DEF KeySet
    <3>6. top(K) \cup {x} \in SUBSET best
      BY <3>4
    <3>7. Cardinality(top(K) \cup {x}) <= Cardinality(best)
      BY <1>9, <3>6, FS_Subset DEF KeySet
    <3> QED  BY <1>9, <3>5, <3>7
  <2> QED  BY <2>1, <2>2
<1>12. Cardinality(best) = IF Cardinality(keys) < limit THEN Cardinality(keys) ELSE limit
  <2>1. CASE Cardinality(best) < limit
    <3>1. best = merged
      BY <1>9, <2>1
    <3>2. keys = merged
      <4> SUFFICES ASSUME NEW y \in keys, y \notin merged PROVE FALSE
        BY <1>4
      <4>1. PICK K \in shards : top(K) \subseteq merged /\ Cardinality(top(K)) = limit
        BY <1>10
      <4>2. limit <= Cardinality(merged)
        BY <1>5, <4>1, FS_Subset DEF KeySet
      <4> QED  BY <1>5, <2>1, <3>1, <4>2
    <3> QED  BY <2>1, <3>1, <3>2
  <2>2. CASE ~(Cardinality(best) < limit)
    <3>1. best \in SUBSET keys
      BY <1>4, <1>8
    <3>2. Cardinality(best) <= Cardinality(keys)
      BY <1>5, <3>1, FS_Subset DEF KeySet
    <3> QED  BY <1>5, <1>9, <2>2, <3>2
  <2> QED  BY <2>1, <2>2
<1>13. IsBest(best, keys, limit)
  BY <1>4, <1>8, <1>11, <1>12 DEF IsBest
<1> QED  BY <1>7, <1>13

\* Bits above, the record below.
LEMMA KeyDecodes ==
  ASSUME NEW bits \in Nat, NEW record \in 0 .. RECORD_SPAN - 1
  PROVE  /\ KeyOf(bits, record) \in Nat
         /\ key_record(KeyOf(bits, record)) = record /\ key_rank_bits(KeyOf(bits, record)) = bits
<1>1. RECORD_SPAN \in Nat \ {0} /\ record \in Nat /\ record < RECORD_SPAN
  BY RankingAssumption
<1> DEFINE high == bits * RECORD_SPAN
<1>2. high \in Nat
  BY <1>1
<1>3. high + record \in Nat
  BY <1>1, <1>2
<1>4. (high + record) % RECORD_SPAN = record /\ (high + record) \div RECORD_SPAN = bits
  BY <1>1, Z3
<1> QED  BY <1>3, <1>4 DEF KeyOf, key_record, key_rank_bits

-----------------------------------------------------------------------------
(* Sorting. *)

\* R orders S.
Orders(R, S) ==
  /\ \A x \in S : <<x, x>> \in R
  /\ \A x, y \in S : <<x, y>> \in R \/ <<y, x>> \in R
  /\ \A x, y \in S : <<x, y>> \in R /\ <<y, x>> \in R => x = y
  /\ \A x, y, z \in S : <<x, y>> \in R /\ <<y, z>> \in R => <<x, z>> \in R

NotAfter(R, S, x) == {y \in S : <<y, x>> \in R}

\* Counting what comes before each element, and itself, numbers the elements in
\* their order.
LEMMA RankIsBijection ==
  ASSUME NEW S, IsFiniteSet(S), NEW R, Orders(R, S),
         NEW rank, rank = [x \in S |-> Cardinality(NotAfter(R, S, x))]
  PROVE  /\ rank \in Bijection(S, 1 .. Cardinality(S))
         /\ \A x, y \in S : rank[x] <= rank[y] => <<x, y>> \in R
<1>1. \A x \in S : IsFiniteSet(NotAfter(R, S, x)) /\ Cardinality(NotAfter(R, S, x)) \in Nat
                   /\ Cardinality(NotAfter(R, S, x)) <= Cardinality(S)
  BY FS_Subset, FS_CardinalityType DEF NotAfter
<1>2. Cardinality(S) \in Nat
  BY FS_CardinalityType
<1>3. ASSUME NEW x \in S, NEW y \in S, <<x, y>> \in R, x # y
      PROVE  rank[x] < rank[y]
  <2>1. NotAfter(R, S, x) \subseteq NotAfter(R, S, y) /\ y \in NotAfter(R, S, y) /\ y \notin NotAfter(R, S, x)
    BY <1>3 DEF Orders, NotAfter
  <2>2. Cardinality(NotAfter(R, S, x)) # Cardinality(NotAfter(R, S, y))
        /\ Cardinality(NotAfter(R, S, x)) <= Cardinality(NotAfter(R, S, y))
    BY <2>1, <1>1, FS_Subset
  <2> QED  BY <2>2, <1>1
<1>4. \A x \in S : 1 <= rank[x]
  <2> SUFFICES ASSUME NEW x \in S PROVE 1 <= rank[x]
    OBVIOUS
  <2>1. x \in NotAfter(R, S, x)
    BY DEF Orders, NotAfter
  <2>2. Cardinality(NotAfter(R, S, x)) # 0
    BY <2>1, <1>1, FS_EmptySet
  <2> QED  BY <2>2, <1>1
<1>5. rank \in [S -> 1 .. Cardinality(S)]
  BY <1>1, <1>2, <1>4
<1>6. \A x \in S : rank[x] \in Nat
  BY <1>1
<1>7. rank \in Injection(S, 1 .. Cardinality(S))
  <2>1. ASSUME NEW x \in S, NEW y \in S, rank[x] = rank[y], x # y PROVE FALSE
    <3>1. rank[x] < rank[y] \/ rank[y] < rank[x]
      BY <2>1, <1>3 DEF Orders
    <3> QED  BY <2>1, <3>1, <1>6
  <2> QED  BY <2>1, <1>5 DEF Injection, IsInjective
<1>8. IsFiniteSet(1 .. Cardinality(S)) /\ Cardinality(1 .. Cardinality(S)) = Cardinality(S)
  BY <1>2, FS_Interval
<1>9. rank \in Surjection(S, 1 .. Cardinality(S))
  BY <1>7, <1>8, FS_Injection
<1>10. ASSUME NEW x \in S, NEW y \in S, rank[x] <= rank[y], <<x, y>> \notin R PROVE FALSE
  <2>1. <<y, x>> \in R /\ x # y
    BY <1>10 DEF Orders
  <2>2. rank[y] < rank[x]
    BY <2>1, <1>3
  <2> QED  BY <2>2, <1>6, <1>10
<1> QED  BY <1>7, <1>9, <1>10 DEF Bijection

Below(R, S, x) == Cardinality(NotAfter(R, S, x))

\* A set in order has each of its elements once, the k-th has k not after it.
LEMMA InOrderSorts ==
  ASSUME NEW S, IsFiniteSet(S), NEW R, Orders(R, S),
         NEW s, s = InOrder(S, R)
  PROVE  /\ s \in Seq(S) /\ Len(s) = Cardinality(S) /\ Cardinality(S) \in Nat
         /\ DOMAIN s = 1 .. Cardinality(S)
         /\ \A k \in 1 .. Cardinality(S) : s[k] \in S /\ Below(R, S, s[k]) = k
         /\ \A x \in S : Below(R, S, x) \in 1 .. Cardinality(S) /\ s[Below(R, S, x)] = x
         /\ \A j, k \in 1 .. Cardinality(S) : j <= k => <<s[j], s[k]>> \in R
<1> DEFINE n == Cardinality(S)
           rank == [x \in S |-> Below(R, S, x)]
<1>1. n \in Nat
  BY FS_CardinalityType
<1>2. /\ rank \in Bijection(S, 1 .. n)
      /\ \A x, y \in S : rank[x] <= rank[y] => <<x, y>> \in R
  BY RankIsBijection DEF Below
<1> HIDE DEF n
<1>3. s = [k \in 1 .. n |-> CHOOSE x \in S : Below(R, S, x) = k]
  BY DEF InOrder, Below, NotAfter, n
<1>4. \A x \in S : Below(R, S, x) \in 1 .. n /\ rank[x] = Below(R, S, x)
  BY <1>2 DEF Bijection, Injection
<1>5. \A x, y \in S : rank[x] = rank[y] => x = y
  BY <1>2 DEF Bijection, Injection, IsInjective
<1>6. \A k \in 1 .. n : \E x \in S : rank[x] = k
  BY <1>2 DEF Bijection, Surjection
<1> HIDE DEF rank
<1>7. \A k \in 1 .. n : s[k] \in S /\ Below(R, S, s[k]) = k
  BY <1>3, <1>4, <1>6
<1>8. \A x \in S : s[Below(R, S, x)] = x
  BY <1>4, <1>5, <1>7
<1>9. s \in Seq(S) /\ Len(s) = n /\ DOMAIN s = 1 .. n
  <2>1. s \in [1 .. n -> S]
    BY <1>3, <1>7
  <2> QED  BY <1>1, <2>1
<1>10. ASSUME NEW j \in 1 .. n, NEW k \in 1 .. n, j <= k PROVE <<s[j], s[k]>> \in R
  BY <1>2, <1>4, <1>7, <1>10
<1> QED  BY <1>1, <1>4, <1>7, <1>8, <1>9, <1>10 DEF n

\* The same, without the numbers.
LEMMA InOrderLists ==
  ASSUME NEW S, IsFiniteSet(S), NEW R, Orders(R, S)
  PROVE  LET s == InOrder(S, R)
             n == Cardinality(S)
         IN  /\ n \in Nat /\ s \in Seq(S) /\ Len(s) = n /\ DOMAIN s = 1 .. n
             /\ \A k \in 1 .. n : s[k] \in S
             /\ \A x \in S : \E k \in 1 .. n : s[k] = x
             /\ \A j, k \in 1 .. n : j <= k => <<s[j], s[k]>> \in R
             /\ \A j, k \in 1 .. n : s[j] = s[k] => j = k
<1> DEFINE s == InOrder(S, R)
           n == Cardinality(S)
<1>1. /\ s \in Seq(S) /\ Len(s) = n /\ n \in Nat /\ DOMAIN s = 1 .. n
      /\ \A k \in 1 .. n : s[k] \in S /\ Below(R, S, s[k]) = k
      /\ \A x \in S : Below(R, S, x) \in 1 .. n /\ s[Below(R, S, x)] = x
      /\ \A j, k \in 1 .. n : j <= k => <<s[j], s[k]>> \in R
  BY InOrderSorts
<1> HIDE DEF s, n
<1>2. \A x \in S : \E k \in 1 .. n : s[k] = x
  BY <1>1
<1>3. \A j, k \in 1 .. n : s[j] = s[k] => j = k
  BY <1>1
<1> QED  BY <1>1, <1>2, <1>3 DEF s, n

Triples == Int \X Int \X Int

LEMMA LexicographicOrders ==
  ASSUME NEW S \in SUBSET Triples
  PROVE  Orders(Lexicographic(S), S)
<1> DEFINE R == Lexicographic(S)
           After(x, y) == \/ x[1] < y[1]
                          \/ x[1] = y[1] /\ x[2] < y[2]
                          \/ x[1] = y[1] /\ x[2] = y[2] /\ x[3] <= y[3]
<1>1. \A x, y \in S : <<x, y>> \in R <=> After(x, y)
  BY DEF Lexicographic
<1>2. \A x \in S : x[1] \in Int /\ x[2] \in Int /\ x[3] \in Int /\ x = <<x[1], x[2], x[3]>>
  BY DEF Triples
<1> HIDE DEF R
<1>3. \A x, y \in S : After(x, y) \/ After(y, x)
  BY <1>2
<1>4. \A x, y \in S : After(x, y) /\ After(y, x) => x = y
  <2> SUFFICES ASSUME NEW x \in S, NEW y \in S, After(x, y), After(y, x) PROVE x = y
    OBVIOUS
  <2>1. x[1] = y[1] /\ x[2] = y[2] /\ x[3] = y[3]
    BY <1>2
  <2> QED  BY <1>2, <2>1
<1>5. \A x, y, z \in S : After(x, y) /\ After(y, z) => After(x, z)
  BY <1>2
<1> HIDE DEF After
<1> QED  BY <1>1, <1>3, <1>4, <1>5 DEF Orders, R

\* A first part of a set in order is a part of it in order: the elements with
\* no more than so many before them. What is left out of it comes after.
LEMMA SamePrefix ==
  ASSUME NEW S, IsFiniteSet(S), NEW R, Orders(R, S),
         NEW T \in SUBSET S, NEW Q, Orders(Q, T), \A x, y \in T : <<x, y>> \in Q <=> <<x, y>> \in R,
         NEW limit \in Nat, \A x \in S \ T : Below(R, S, x) > limit
  PROVE  /\ Cardinality(T) <= Cardinality(S)
         /\ Cardinality(S) > Cardinality(T) => Cardinality(T) >= limit
         /\ \A k \in 1 .. limit : k <= Cardinality(S) =>
              k <= Cardinality(T) /\ InOrder(T, Q)[k] = InOrder(S, R)[k]
<1> DEFINE s == InOrder(S, R)
           t == InOrder(T, Q)
<1>1. IsFiniteSet(T) /\ Cardinality(T) <= Cardinality(S) /\ Cardinality(T) \in Nat /\ Cardinality(S) \in Nat
  BY FS_Subset, FS_CardinalityType
<1>2. /\ Len(s) = Cardinality(S)
      /\ \A k \in 1 .. Cardinality(S) : s[k] \in S /\ Below(R, S, s[k]) = k
      /\ \A x \in S : Below(R, S, x) \in 1 .. Cardinality(S) /\ s[Below(R, S, x)] = x
  BY InOrderSorts
<1>3. /\ Len(t) = Cardinality(T)
      /\ \A k \in 1 .. Cardinality(T) : t[k] \in T /\ Below(Q, T, t[k]) = k
      /\ \A x \in T : Below(Q, T, x) \in 1 .. Cardinality(T) /\ t[Below(Q, T, x)] = x
  BY <1>1, InOrderSorts
<1> HIDE DEF s, t
<1>4. ASSUME NEW k \in 1 .. limit, k <= Cardinality(S) PROVE k <= Cardinality(T) /\ t[k] = s[k]
  <2>0. k \in 1 .. Cardinality(S)
    BY <1>1, <1>4
  <2> DEFINE x == s[k]
  <2>1. x \in S /\ Below(R, S, x) = k
    BY <1>2, <2>0
  <2> HIDE DEF x
  <2>2. x \in T
    BY <2>1
  <2>3. NotAfter(R, S, x) \subseteq T
    <3> SUFFICES ASSUME NEW y \in S, <<y, x>> \in R, y \notin T PROVE FALSE
      BY DEF NotAfter
    <3>1. NotAfter(R, S, y) \in SUBSET NotAfter(R, S, x)
      BY <2>1 DEF NotAfter, Orders
    <3>2. IsFiniteSet(NotAfter(R, S, x))
      BY FS_Subset DEF NotAfter
    <3>3. Below(R, S, y) <= k
      BY <2>1, <3>1, <3>2, FS_Subset DEF Below
    <3>4. Below(R, S, y) > limit /\ Below(R, S, y) \in Int
      BY <1>2
    <3> QED  BY <3>3, <3>4
  <2>4. NotAfter(Q, T, x) = NotAfter(R, S, x)
    BY <2>2, <2>3 DEF NotAfter
  <2>5. Below(Q, T, x) = k
    BY <2>1, <2>4 DEF Below
  <2> QED  BY <1>1, <1>3, <2>2, <2>5 DEF x
<1>5. ASSUME Cardinality(S) > Cardinality(T) PROVE Cardinality(T) >= limit
  <2> SUFFICES ASSUME Cardinality(T) < limit PROVE FALSE
    BY <1>1
  <2>1. Cardinality(T) + 1 \in 1 .. limit /\ Cardinality(T) + 1 <= Cardinality(S)
    BY <1>1, <1>5
  <2>2. Cardinality(T) + 1 <= Cardinality(T)
    BY <1>4, <2>1
  <2> QED  BY <1>1, <2>2
<1> QED  BY <1>1, <1>4, <1>5 DEF s, t

-----------------------------------------------------------------------------
(* The shards of a scan. *)

LEMMA Pair ==
  ASSUME NEW a \in Int, NEW b \in Int
  PROVE  /\ Max({a, b}) = IF a < b THEN b ELSE a
         /\ Min({a, b}) = IF a < b THEN a ELSE b
<1> DEFINE high == IF a < b THEN b ELSE a
           low  == IF a < b THEN a ELSE b
<1>1. high \in {a, b} /\ (\A y \in {a, b} : high >= y) /\ \A x \in {a, b} : (\A y \in {a, b} : x >= y) => x = high
  OBVIOUS
<1>2. low \in {a, b} /\ (\A y \in {a, b} : low <= y) /\ \A x \in {a, b} : (\A y \in {a, b} : x <= y) => x = low
  OBVIOUS
<1> HIDE DEF high, low
<1>3. Max({a, b}) = high
  BY <1>1 DEF Max
<1>4. Min({a, b}) = low
  BY <1>2 DEF Min
<1> QED  BY <1>3, <1>4 DEF high, low

LEMMA Rounded ==
  ASSUME NEW a \in Nat, NEW w \in Nat \ {0}
  PROVE  \E q \in Nat : (q * w) \in 0 .. a /\ a < (q * w) + w /\ ((q * w) % w) = 0 /\ (a \div w) = q
<1> DEFINE q == a \div w
<1>1. q \in Nat /\ (q * w) <= a /\ a < (q * w) + w /\ ((q * w) % w) = 0
  BY Z3
<1>2. q * w \in Nat
  BY <1>1
<1> HIDE DEF q
<1>3. (q * w) \in 0 .. a
  BY <1>1, <1>2
<1> QED  BY <1>1, <1>3 DEF q

LEMMA ShardsCover ==
  ASSUME NEW n \in Nat, NEW threads \in Nat \ {0}
  PROVE  UNION BucketShards(n, threads) = 1 .. n /\ IsFiniteSet(BucketShards(n, threads))
<1> DEFINE buckets == CeilDiv(n, BUCKET_SIZE)
           width == BUCKET_SIZE * Max({CeilDiv(buckets, Max({threads, 1})), 1})
           firsts == {k \in 1 .. n : (k - 1) % width = 0}
           shard(first) == first .. Min({first + width - 1, n})
<1>1. width \in Nat \ {0}
  <2>1. BUCKET_SIZE \in Nat \ {0}
    BY RankingAssumption
  <2>2. buckets \in Int
    BY <2>1 DEF CeilDiv
  <2>3. Max({threads, 1}) \in Nat \ {0}
    BY Pair
  <2> HIDE DEF buckets
  <2>4. CeilDiv(buckets, Max({threads, 1})) \in Int
    BY <2>2, <2>3 DEF CeilDiv
  <2>5. Max({CeilDiv(buckets, Max({threads, 1})), 1}) \in Nat \ {0}
    BY <2>4, Pair
  <2> QED  BY <2>1, <2>5
<1> HIDE DEF width
<1>2. BucketShards(n, threads) = {shard(first) : first \in firsts}
  BY DEF BucketShards, width
<1>3. \A first \in firsts : shard(first) \in SUBSET (1 .. n)
  <2> TAKE first \in firsts
  <2> DEFINE end == first + width - 1
  <2>0. end \in Int /\ n \in Int
    BY <1>1
  <2> HIDE DEF end
  <2>a. Min({end, n}) = IF end < n THEN end ELSE n
    BY <2>0, Pair
  <2>1. Min({end, n}) <= n /\ Min({end, n}) \in Int
    BY <2>0, <2>a
  <2> USE DEF end
  <2> QED  BY <2>1
<1>4. \A k \in 1 .. n : \E first \in firsts : k \in shard(first)
  <2> TAKE k \in 1 .. n
  <2>1. k - 1 \in Nat
    OBVIOUS
  <2>2. PICK q \in Nat : (q * width) \in 0 .. k - 1 /\ k - 1 < (q * width) + width /\ ((q * width) % width) = 0
    BY <1>1, <2>1, Rounded
  <2> DEFINE first == (q * width) + 1
  <2>3. first \in 1 .. n /\ first - 1 = (q * width) /\ first <= k /\ k <= first + width - 1
    BY <1>1, <2>2
  <2>4. first \in firsts
    BY <2>2, <2>3
  <2> HIDE DEF first
  <2>5. k <= Min({first + width - 1, n})
    BY <1>1, <2>3, Pair
  <2>6. Min({first + width - 1, n}) \in Int
    BY <1>1, <2>3, Pair
  <2>7. k \in shard(first)
    BY <2>3, <2>5, <2>6
  <2> QED  BY <2>4, <2>7
<1>5. IsFiniteSet(BucketShards(n, threads))
  <2>1. BucketShards(n, threads) \in SUBSET (SUBSET (1 .. n))
    BY <1>2, <1>3
  <2>2. IsFiniteSet(SUBSET (1 .. n))
    <3>1. IsFiniteSet(1 .. n)
      BY FS_Interval
    <3> QED  BY <3>1, FS_SUBSET
  <2> QED  BY <2>1, <2>2, FS_Subset
<1> HIDE DEF firsts, shard
<1> QED  BY <1>2, <1>3, <1>4, <1>5

-----------------------------------------------------------------------------
(* The tree order. *)

LEMMA LowestIn ==
  ASSUME NEW S \in SUBSET Nat, S # {}
  PROVE  Lowest(S) \in S
<1>1. \E i \in S : \A j \in S : i <= j
  BY LeastExists
<1> QED  BY <1>1 DEF Lowest

WalkOf(X, n) ==
  [ records : Seq(X), positions : [1 .. n -> Nat], ends : [1 .. n -> Nat], stack : Seq(X),
    unvisited : SUBSET (1 .. n) ]

\* A walk may be anything of this kind, a record of no tree included, where no
\* more steps are taken.
Places(n) == 1 .. n \cup {Lowest({})}

LEMMA EnterIs ==
  ASSUME NEW X, NEW n, NEW w \in WalkOf(X, n), NEW i, NEW v, v = Enter(w, i)
  PROVE  v = [records |-> Append(w.records, i), positions |-> [w.positions EXCEPT ![i] = Len(w.records)],
              ends |-> w.ends, stack |-> Append(w.stack, i), unvisited |-> w.unvisited \ {i}]
  BY DEF Enter, WalkOf

LEMMA LeaveIs ==
  ASSUME NEW X, NEW n, NEW w \in WalkOf(X, n), NEW v, v = Leave(w)
  PROVE  v = [records |-> w.records, positions |-> w.positions,
              ends |-> [w.ends EXCEPT ![Last(w.stack)] = Len(w.records)],
              stack |-> Front(w.stack), unvisited |-> w.unvisited]
  BY DEF Leave, WalkOf

LEMMA FrontIs ==
  ASSUME NEW X, NEW s \in Seq(X), s # <<>>
  PROVE  /\ Front(s) \in Seq(X) /\ Len(s) \in Nat \ {0} /\ Len(Front(s)) = Len(s) - 1
         /\ DOMAIN s = 1 .. Len(s) /\ DOMAIN Front(s) = 1 .. Len(s) - 1
         /\ \A k \in 1 .. Len(s) - 1 : Front(s)[k] = s[k]
         /\ Last(s) = s[Len(s)] /\ Last(s) \in X
<1>1. Len(s) \in Nat \ {0} /\ DOMAIN s = 1 .. Len(s) /\ \A k \in 1 .. Len(s) : s[k] \in X
  BY EmptySeq
<1>2. /\ Len(SubSeq(s, 1, Len(s) - 1)) = Len(s) - 1 /\ SubSeq(s, 1, Len(s) - 1) \in Seq(X)
      /\ \A k \in 1 .. Len(s) - 1 : SubSeq(s, 1, Len(s) - 1)[k] = s[k]
  <2>1. Len(s) - 1 \in Nat /\ Len(s) - 1 <= Len(s) /\ \A k \in 1 .. Len(s) - 1 : k \in 1 .. Len(s)
    BY <1>1
  <2> QED  BY <1>1, <2>1
<1> QED  BY <1>1, <1>2 DEF Front, Last

LEMMA AppendIs ==
  ASSUME NEW X, NEW s \in Seq(X), NEW x \in X, NEW t, t = Append(s, x)
  PROVE  /\ t \in Seq(X) /\ Len(s) \in Nat /\ Len(t) = Len(s) + 1
         /\ DOMAIN s = 1 .. Len(s) /\ DOMAIN t = 1 .. Len(s) + 1
         /\ \A k \in 1 .. Len(s) : t[k] = s[k] /\ s[k] \in X
         /\ t[Len(s) + 1] = x
         /\ {t[k] : k \in DOMAIN t} = {s[k] : k \in DOMAIN s} \cup {x}
<1>1. /\ t \in Seq(X) /\ Len(s) \in Nat /\ Len(t) = Len(s) + 1
      /\ \A k \in 1 .. Len(s) : t[k] = s[k] /\ s[k] \in X
      /\ t[Len(s) + 1] = x
  OBVIOUS
<1>2. DOMAIN s = 1 .. Len(s) /\ DOMAIN t = 1 .. Len(s) + 1
  BY <1>1
<1>3. \A k \in 1 .. Len(s) + 1 : k \in 1 .. Len(s) \/ k = Len(s) + 1
  BY <1>1
<1>4. \A k \in 1 .. Len(s) : k \in 1 .. Len(s) + 1
  BY <1>1
<1>5. Len(s) + 1 \in 1 .. Len(s) + 1
  BY <1>1
<1>6. {t[k] : k \in DOMAIN t} = {s[k] : k \in DOMAIN s} \cup {x}
  BY <1>1, <1>2, <1>3, <1>4, <1>5
<1> QED  BY <1>1, <1>2, <1>6

LEMMA WalkTyped ==
  ASSUME NEW n \in Nat, NEW parents, NEW w \in WalkOf(Places(n), n)
  PROVE  WalkStep(parents, w) \in WalkOf(Places(n), n)
<1> DEFINE X == Places(n)
<1>0. /\ w.records \in Seq(X) /\ w.positions \in [1 .. n -> Nat] /\ w.ends \in [1 .. n -> Nat]
      /\ w.stack \in Seq(X) /\ w.unvisited \in SUBSET (1 .. n) /\ w \in WalkOf(X, n)
  BY DEF WalkOf
<1>3. ASSUME NEW S \in SUBSET (1 .. n) PROVE Lowest(S) \in X
  <2>1. CASE S = {}
    BY <2>1 DEF Places
  <2>2. CASE S # {}
    <3>1. S \in SUBSET Nat
      OBVIOUS
    <3>2. Lowest(S) \in S
      BY <2>2, <3>1, LowestIn
    <3> QED  BY <3>2 DEF Places
  <2> QED  BY <2>1, <2>2
<1> HIDE DEF X
<1>1. ASSUME NEW i \in X PROVE Enter(w, i) \in WalkOf(X, n)
  <2>1. /\ Len(w.records) \in Nat /\ Append(w.records, i) \in Seq(X) /\ Append(w.stack, i) \in Seq(X)
    BY <1>0, <1>1
  <2>2. [w.positions EXCEPT ![i] = Len(w.records)] \in [1 .. n -> Nat] /\ w.unvisited \ {i} \in SUBSET (1 .. n)
    BY <1>0, <2>1
  <2> DEFINE v == Enter(w, i)
  <2>3. v = [records |-> Append(w.records, i), positions |-> [w.positions EXCEPT ![i] = Len(w.records)],
             ends |-> w.ends, stack |-> Append(w.stack, i), unvisited |-> w.unvisited \ {i}]
    <3> HIDE DEF v
    <3>1. v = Enter(w, i)
      BY DEF v
    <3> QED  BY <1>0, <3>1, EnterIs
  <2> HIDE DEF v
  <2>4. v \in WalkOf(X, n)
    BY <1>0, <2>1, <2>2, <2>3 DEF WalkOf
  <2> QED  BY <2>4 DEF v
<1>2. ASSUME w.stack # <<>> PROVE Leave(w) \in WalkOf(X, n)
  <2>a. w.stack \in Seq(X) /\ w.stack # <<>>
    BY <1>0, <1>2
  <2>b. Front(w.stack) \in Seq(X)
    BY <2>a, FrontIs
  <2>c. \A s \in Seq(X) : Len(s) \in Nat
    OBVIOUS
  <2>1. Len(w.records) \in Nat /\ Front(w.stack) \in Seq(X)
    BY <1>0, <2>b, <2>c
  <2>2. [w.ends EXCEPT ![Last(w.stack)] = Len(w.records)] \in [1 .. n -> Nat]
    BY <1>0, <2>1
  <2> DEFINE v == Leave(w)
  <2>3. v = [records |-> w.records, positions |-> w.positions,
             ends |-> [w.ends EXCEPT ![Last(w.stack)] = Len(w.records)],
             stack |-> Front(w.stack), unvisited |-> w.unvisited]
    <3> HIDE DEF v
    <3>1. v = Leave(w)
      BY DEF v
    <3> QED  BY <1>0, <3>1, LeaveIs
  <2> HIDE DEF v
  <2>4. v \in WalkOf(X, n)
    BY <1>0, <2>1, <2>2, <2>3 DEF WalkOf
  <2> QED  BY <2>4 DEF v
<1>5. CASE w.stack # <<>>
  <2>1. ChildrenOf(parents, Last(w.stack)) \cap w.unvisited \in SUBSET (1 .. n)
    BY <1>0
  <2> QED  BY <1>1, <1>2, <1>3, <1>5, <2>1 DEF WalkStep, X
<1>6. CASE w.stack = <<>>
  <2>1. {i \in w.unvisited : IsRoot(parents, i)} \in SUBSET (1 .. n)
    BY <1>0
  <2> QED  BY <1>0, <1>1, <1>3, <1>6, <2>1 DEF WalkStep, X
<1> QED  BY <1>5, <1>6

Visited(w, n) == (1 .. n) \ w.unvisited
Open(w) == {w.stack[a] : a \in DOMAIN w.stack}

\* Positions number the records visited.
Numbers(w, n) ==
  /\ w \in WalkOf(1 .. n, n)
  /\ \A j \in Visited(w, n) :
       w.positions[j] \in 0 .. Len(w.records) - 1 /\ w.records[w.positions[j] + 1] = j
  /\ \A p \in 1 .. Len(w.records) :
       w.records[p] \in Visited(w, n) /\ w.positions[w.records[p]] = p - 1
  /\ Cardinality(w.unvisited) + Len(w.records) = n

\* Those on the stack lie each beneath the one before.
Stacked(w, n) ==
  /\ Open(w) \subseteq Visited(w, n)
  /\ \A a, b \in DOMAIN w.stack : a < b => w.positions[w.stack[a]] < w.positions[w.stack[b]]
  /\ \A j \in Visited(w, n) \ Open(w) : w.ends[j] \in w.positions[j] + 1 .. Len(w.records)

\* What has not been left yet extends to where the walk is.
In(w, j, i) == w.positions[i] <= w.positions[j] /\ (i \in Open(w) \/ w.positions[j] < w.ends[i])

Nested(w, n) ==
  \A i \in Visited(w, n) \ Open(w), j \in Visited(w, n) :
    In(w, j, i) => j \notin Open(w) /\ w.ends[j] <= w.ends[i]

\* A record is beneath nothing, or beneath its parent and what that is beneath.
Hung(parents, w, n) ==
  \A j \in Visited(w, n) :
    \/ \A i \in Visited(w, n) \ {j} : ~In(w, j, i)
    \/ /\ parents[j] \in Visited(w, n) \ {j} /\ In(w, j, parents[j])
       /\ \A i \in Visited(w, n) \ {j} : In(w, j, i) => In(w, parents[j], i)

WalkOK(parents, w, n) == Numbers(w, n) /\ Stacked(w, n) /\ Nested(w, n) /\ Hung(parents, w, n)

LEMMA EnterKeeps ==
  ASSUME NEW n \in Nat, NEW parents, NEW w, WalkOK(parents, w, n), NEW i \in w.unvisited,
         w.stack # <<>> => parents[i] = Last(w.stack)
  PROVE  WalkOK(parents, Enter(w, i), n) /\ Len(Enter(w, i).records) = Len(w.records) + 1
           /\ Len(Enter(w, i).stack) = Len(w.stack) + 1
<1> DEFINE v == Enter(w, i)
           m == Len(w.records)
<1>1. /\ w.records \in Seq(1 .. n) /\ w.positions \in [1 .. n -> Nat] /\ w.ends \in [1 .. n -> Nat]
      /\ w.stack \in Seq(1 .. n) /\ w.unvisited \in SUBSET (1 .. n) /\ i \in 1 .. n /\ m \in Nat
      /\ w \in WalkOf(1 .. n, n)
  <2>1. w \in WalkOf(1 .. n, n)
    BY DEF WalkOK, Numbers
  <2>2. w.records \in Seq(1 .. n) /\ w.unvisited \in SUBSET (1 .. n)
    BY <2>1 DEF WalkOf
  <2>3. m \in Nat /\ i \in 1 .. n
    BY <2>2
  <2> QED  BY <2>1, <2>3 DEF WalkOf
<1>2. /\ v.records = Append(w.records, i) /\ v.positions = [w.positions EXCEPT ![i] = m] /\ v.ends = w.ends
      /\ v.stack = Append(w.stack, i) /\ v.unvisited = w.unvisited \ {i}
      /\ v = [records |-> v.records, positions |-> v.positions, ends |-> v.ends, stack |-> v.stack,
              unvisited |-> v.unvisited]
  <2>1. v = [records |-> Append(w.records, i), positions |-> [w.positions EXCEPT ![i] = m],
             ends |-> w.ends, stack |-> Append(w.stack, i), unvisited |-> w.unvisited \ {i}]
    <3> HIDE DEF v
    <3>1. v = Enter(w, i)
      BY DEF v
    <3> QED  BY <1>1, <3>1, EnterIs
  <2> HIDE DEF v
  <2> QED  BY <2>1
<1> HIDE DEF v
<1>a. /\ v.records \in Seq(1 .. n) /\ Len(v.records) = m + 1 /\ v.records[m + 1] = i
      /\ \A p \in 1 .. m : v.records[p] = w.records[p]
  BY <1>1, <1>2, AppendIs
<1>b. /\ v.stack \in Seq(1 .. n) /\ Len(v.stack) = Len(w.stack) + 1 /\ Len(w.stack) \in Nat
      /\ DOMAIN w.stack = 1 .. Len(w.stack) /\ DOMAIN v.stack = 1 .. Len(w.stack) + 1
      /\ v.stack[Len(w.stack) + 1] = i /\ \A a \in 1 .. Len(w.stack) : v.stack[a] = w.stack[a]
      /\ Open(v) = Open(w) \cup {i}
  <2> DEFINE s == w.stack
             t == v.stack
             X == 1 .. n
  <2>1. s \in Seq(X) /\ i \in X /\ t = Append(s, i)
    BY <1>1, <1>2
  <2>2. Open(v) = {t[k] : k \in DOMAIN t} /\ Open(w) = {s[k] : k \in DOMAIN s}
    BY DEF Open
  <2> HIDE DEF s, t, X
  <2>3. /\ t \in Seq(X) /\ Len(s) \in Nat /\ Len(t) = Len(s) + 1
        /\ DOMAIN s = 1 .. Len(s) /\ DOMAIN t = 1 .. Len(s) + 1
        /\ \A k \in 1 .. Len(s) : t[k] = s[k] /\ s[k] \in X
        /\ t[Len(s) + 1] = i
        /\ {t[k] : k \in DOMAIN t} = {s[k] : k \in DOMAIN s} \cup {i}
    BY <2>1, AppendIs
  <2> QED  BY <2>2, <2>3 DEF s, t, X
<1> HIDE DEF m
<1>m. m \in Nat /\ i \in 1 .. n
  BY <1>1
<1>3. Visited(v, n) = Visited(w, n) \cup {i} /\ i \notin Visited(w, n) /\ Open(w) \subseteq Visited(w, n)
  BY <1>1, <1>2 DEF Visited, WalkOK, Stacked
<1>4. Open(v) = Open(w) \cup {i} /\ Len(v.stack) = Len(w.stack) + 1 /\ Len(v.records) = m + 1
  BY <1>a, <1>b
<1>5. /\ v.positions[i] = m /\ v.positions \in [1 .. n -> Nat]
      /\ \A j \in Visited(w, n) : v.positions[j] = w.positions[j] /\ w.positions[j] \in 0 .. m - 1 /\ j \in 1 .. n
  <2>1. v.positions[i] = m /\ v.positions \in [1 .. n -> Nat]
    BY <1>1, <1>2
  <2>2. \A j \in Visited(w, n) : w.positions[j] \in 0 .. m - 1 /\ j \in 1 .. n /\ j # i
    BY <1>3 DEF WalkOK, Numbers, Visited, m
  <2> QED  BY <1>1, <1>2, <2>1, <2>2
<1>6. Numbers(v, n)
  <2>1. v \in WalkOf(1 .. n, n)
    <3>1. v.unvisited \in SUBSET (1 .. n)
      BY <1>1, <1>2
    <3> QED  BY <1>1, <1>2, <1>a, <1>b, <1>5, <3>1 DEF WalkOf
  <2>2. ASSUME NEW j \in Visited(v, n)
        PROVE  v.positions[j] \in 0 .. Len(v.records) - 1 /\ v.records[v.positions[j] + 1] = j
    <3>1. CASE j = i
      <4>1. v.positions[j] = m /\ Len(v.records) = m + 1 /\ v.records[m + 1] = j
        BY <1>a, <1>5, <3>1
      <4>2. m \in 0 .. m + 1 - 1
        BY <1>m
      <4> QED  BY <4>1, <4>2
    <3>2. CASE j \in Visited(w, n)
      <4>1. w.positions[j] \in 0 .. m - 1 /\ w.records[w.positions[j] + 1] = j
        BY <3>2 DEF WalkOK, Numbers, m
      <4> DEFINE p == w.positions[j] + 1
      <4>a. \A k \in 0 .. m - 1 : k + 1 \in 1 .. m
        BY <1>m
      <4>b. v.positions[j] = w.positions[j]
        BY <1>5, <3>2
      <4>2. p \in 1 .. m /\ v.positions[j] + 1 = p /\ w.records[p] = j
        BY <4>1, <4>a, <4>b
      <4>3. v.positions[j] \in 0 .. m
        BY <1>m, <1>5, <3>2
      <4> HIDE DEF p
      <4>4. v.records[p] = j
        BY <1>a, <4>2
      <4> QED  BY <1>m, <1>a, <4>2, <4>3, <4>4
    <3> QED  BY <1>3, <3>1, <3>2
  <2>3. ASSUME NEW p \in 1 .. Len(v.records)
        PROVE  v.records[p] \in Visited(v, n) /\ v.positions[v.records[p]] = p - 1
    <3>1. CASE p = m + 1
      <4>1. v.records[p] = i /\ p - 1 = m
        BY <1>m, <1>a, <3>1
      <4> QED  BY <1>3, <1>5, <4>1
    <3>2. CASE p \in 1 .. m
      <4>1. v.records[p] = w.records[p]
        BY <1>a, <3>2
      <4>2. w.records[p] \in Visited(w, n) /\ w.positions[w.records[p]] = p - 1
        BY <3>2 DEF WalkOK, Numbers, m
      <4> QED  BY <1>3, <1>5, <4>1, <4>2
    <3> QED  BY <1>m, <1>4, <3>1, <3>2
  <2>4. Cardinality(v.unvisited) + Len(v.records) = n
    <3>1. IsFiniteSet(w.unvisited)
      <4>1. IsFiniteSet(1 .. n)
        BY FS_Interval
      <4> QED  BY <1>1, <4>1, FS_Subset
    <3>2. Cardinality(v.unvisited) = Cardinality(w.unvisited) - 1 /\ Cardinality(w.unvisited) \in Nat
      BY <1>2, <3>1, FS_RemoveElement, FS_CardinalityType
    <3>3. Cardinality(w.unvisited) + m = n
      BY DEF WalkOK, Numbers, m
    <3> QED  BY <1>1, <1>4, <3>2, <3>3
  <2> QED  BY <2>1, <2>2, <2>3, <2>4 DEF Numbers
<1>7. Stacked(v, n)
  <2>1. Open(v) \subseteq Visited(v, n)
    BY <1>3, <1>4
  <2>2. ASSUME NEW a \in DOMAIN v.stack, NEW b \in DOMAIN v.stack, a < b
        PROVE  v.positions[v.stack[a]] < v.positions[v.stack[b]]
    <3>a. Len(w.stack) \in Nat /\ a \in 1 .. Len(w.stack) + 1 /\ b \in 1 .. Len(w.stack) + 1
      BY <1>b, <2>2
    <3>b. a \in 1 .. Len(w.stack)
      BY <2>2, <3>a
    <3>c. w.stack[a] \in Open(w)
      BY <1>b, <3>b DEF Open
    <3>1. a \in 1 .. Len(w.stack) /\ v.stack[a] = w.stack[a] /\ w.stack[a] \in Open(w)
      BY <1>b, <3>b, <3>c
    <3>2. v.positions[v.stack[a]] = w.positions[w.stack[a]] /\ w.positions[w.stack[a]] \in 0 .. m - 1
      BY <1>3, <1>5, <3>1
    <3>3. CASE b = Len(w.stack) + 1
      <4>1. v.positions[v.stack[b]] = m
        BY <1>b, <1>5, <3>3
      <4> QED  BY <1>m, <3>2, <4>1
    <3>4. CASE b \in 1 .. Len(w.stack)
      <4>1. v.stack[b] = w.stack[b] /\ w.stack[b] \in Open(w) /\ a \in DOMAIN w.stack /\ b \in DOMAIN w.stack
        BY <1>b, <3>1, <3>4 DEF Open
      <4>2. w.positions[w.stack[a]] < w.positions[w.stack[b]]
        BY <2>2, <4>1 DEF WalkOK, Stacked
      <4> QED  BY <1>3, <1>5, <3>2, <4>1, <4>2
    <3> QED  BY <1>b, <3>3, <3>4
  <2>3. ASSUME NEW j \in Visited(v, n) \ Open(v) PROVE v.ends[j] \in v.positions[j] + 1 .. Len(v.records)
    <3>1. j \in Visited(w, n) \ Open(w)
      BY <1>3, <1>4
    <3>2. w.ends[j] \in w.positions[j] + 1 .. m
      BY <3>1 DEF WalkOK, Stacked, m
    <3>3. w.ends[j] \in Nat /\ w.positions[j] \in Nat /\ v.ends[j] = w.ends[j] /\ v.positions[j] = w.positions[j]
      BY <1>1, <1>2, <1>5, <3>1
    <3>4. \A e, q, l \in Nat : e \in q + 1 .. l => e \in q + 1 .. l + 1
      OBVIOUS
    <3>5. w.ends[j] \in w.positions[j] + 1 .. m + 1
      BY <1>m, <3>2, <3>3, <3>4
    <3> QED  BY <1>4, <3>3, <3>5
  <2> QED  BY <2>1, <2>2, <2>3 DEF Stacked
<1>8. \A j, k \in Visited(w, n) : In(v, j, k) <=> In(w, j, k)
  BY <1>2, <1>3, <1>4, <1>5 DEF In
<1>9. \A j \in Visited(w, n) : ~In(v, j, i)
  BY <1>1, <1>5 DEF In
<1>10. \A k \in Visited(w, n) : In(v, i, k) <=> k \in Open(w)
  <2> SUFFICES ASSUME NEW k \in Visited(w, n) PROVE In(v, i, k) <=> k \in Open(w)
    OBVIOUS
  <2>1. k \notin Open(w) => w.ends[k] \in w.positions[k] + 1 .. m
    BY DEF WalkOK, Stacked, m
  <2>2. k # i /\ w.ends[k] \in Nat /\ w.positions[k] \in 0 .. m - 1
    BY <1>1, <1>3, <1>5
  <2>3. v.positions[k] <= v.positions[i] /\ v.positions[i] = m /\ v.ends[k] = w.ends[k]
    BY <1>1, <1>2, <1>5, <2>2
  <2>4. In(v, i, k) <=> k \in Open(w) \/ m < w.ends[k]
    BY <1>4, <2>2, <2>3 DEF In
  <2> QED  BY <1>1, <2>1, <2>2, <2>4
<1>11. Nested(v, n)
  <2> SUFFICES ASSUME NEW k \in Visited(v, n) \ Open(v), NEW j \in Visited(v, n), In(v, j, k)
               PROVE  j \notin Open(v) /\ v.ends[j] <= v.ends[k]
    BY DEF Nested
  <2>1. k \in Visited(w, n) \ Open(w)
    BY <1>3, <1>4
  <2>2. j \in Visited(w, n)
    BY <1>3, <1>10, <2>1
  <2>3. In(w, j, k)
    BY <1>8, <2>1, <2>2
  <2>4. j \notin Open(w) /\ w.ends[j] <= w.ends[k]
    BY <2>1, <2>2, <2>3 DEF WalkOK, Nested
  <2> QED  BY <1>2, <1>3, <1>4, <2>2, <2>4
<1>12. Hung(parents, v, n)
  <2> SUFFICES ASSUME NEW j \in Visited(v, n)
               PROVE \/ \A k \in Visited(v, n) \ {j} : ~In(v, j, k)
                     \/ /\ parents[j] \in Visited(v, n) \ {j} /\ In(v, j, parents[j])
                        /\ \A k \in Visited(v, n) \ {j} : In(v, j, k) => In(v, parents[j], k)
    BY DEF Hung
  <2>1. CASE j \in Visited(w, n)
    <3>1. CASE \A k \in Visited(w, n) \ {j} : ~In(w, j, k)
      BY <1>3, <1>8, <1>9, <2>1, <3>1
    <3>2. CASE /\ parents[j] \in Visited(w, n) \ {j} /\ In(w, j, parents[j])
               /\ \A k \in Visited(w, n) \ {j} : In(w, j, k) => In(w, parents[j], k)
      BY <1>3, <1>8, <1>9, <2>1, <3>2
    <3> QED  BY <2>1, <3>1, <3>2 DEF WalkOK, Hung
  <2>2. CASE j = i /\ w.stack = <<>>
    <3>1. Open(w) = {}
      BY <2>2 DEF Open
    <3> QED  BY <1>3, <1>10, <2>2, <3>1
  <2>3. CASE j = i /\ w.stack # <<>>
    <3> DEFINE p == Last(w.stack)
    <3>a. p = w.stack[Len(w.stack)]
      BY DEF Last
    <3>b. Len(w.stack) \in DOMAIN w.stack
      BY <1>1, <2>3
    <3>c. p \in Open(w)
      BY <3>a, <3>b DEF Open
    <3>d. parents[j] = p
      BY <1>1, <2>3
    <3>1. p \in Open(w) /\ parents[j] = p /\ p = w.stack[Len(w.stack)] /\ Len(w.stack) \in DOMAIN w.stack
      BY <3>a, <3>b, <3>c, <3>d
    <3>2. p \in Visited(w, n) /\ p # i
      BY <1>3, <3>1
    <3>3. \A k \in Open(w) : In(w, p, k)
      <4> SUFFICES ASSUME NEW a \in DOMAIN w.stack PROVE w.positions[w.stack[a]] <= w.positions[p]
        BY DEF In, Open
      <4>1. a < Len(w.stack) \/ a = Len(w.stack)
        BY <1>1
      <4>2. w.stack[a] \in 1 .. n /\ p \in 1 .. n /\ w.positions[w.stack[a]] \in Nat /\ w.positions[p] \in Nat
        BY <1>b, <1>5, <3>1, <3>2 DEF Open, WalkOK, Stacked
      <4>3. a < Len(w.stack) => w.positions[w.stack[a]] < w.positions[p]
        BY <3>1 DEF WalkOK, Stacked
      <4> QED  BY <3>1, <4>1, <4>2, <4>3
    <3> HIDE DEF p
    <3>4. parents[j] \in Visited(v, n) \ {j} /\ In(v, j, parents[j])
      BY <1>3, <1>10, <2>3, <3>1, <3>2
    <3>5. \A k \in Visited(v, n) \ {j} : In(v, j, k) => In(v, parents[j], k)
      BY <1>3, <1>8, <1>10, <2>3, <3>1, <3>2, <3>3
    <3> QED  BY <3>4, <3>5
  <2> QED  BY <1>3, <2>1, <2>2, <2>3
<1>13. Len(v.records) = m + 1 /\ Len(v.stack) = Len(w.stack) + 1
  BY <1>4
<1> QED  BY <1>6, <1>7, <1>11, <1>12, <1>13 DEF WalkOK, v, m

LEMMA LeaveKeeps ==
  ASSUME NEW n \in Nat, NEW parents, NEW w, WalkOK(parents, w, n), w.stack # <<>>
  PROVE  WalkOK(parents, Leave(w), n) /\ Len(Leave(w).records) = Len(w.records)
           /\ Len(Leave(w).stack) = Len(w.stack) - 1
<1> DEFINE v == Leave(w)
           m == Len(w.records)
           i == Last(w.stack)
           h == Len(w.stack)
<1>1. /\ w.records \in Seq(1 .. n) /\ w.positions \in [1 .. n -> Nat] /\ w.ends \in [1 .. n -> Nat]
      /\ w.stack \in Seq(1 .. n) /\ w.unvisited \in SUBSET (1 .. n) /\ m \in Nat
      /\ h \in Nat \ {0} /\ i = w.stack[h] /\ i \in 1 .. n /\ i \in Open(w)
      /\ w \in WalkOf(1 .. n, n)
  <2>1. w \in WalkOf(1 .. n, n)
    BY DEF WalkOK, Numbers
  <2>2. w.stack \in Seq(1 .. n)
    BY <2>1 DEF WalkOf
  <2>3. h \in Nat \ {0} /\ i = w.stack[h] /\ i \in 1 .. n /\ DOMAIN w.stack = 1 .. h
    BY <2>2, FrontIs
  <2>4. i \in Open(w)
    BY <2>3 DEF Open
  <2>5. w.records \in Seq(1 .. n)
    BY <2>1 DEF WalkOf
  <2>6. m \in Nat
    BY <2>5
  <2> HIDE DEF m, i, h
  <2> QED  BY <2>1, <2>3, <2>4, <2>6 DEF WalkOf
<1>2. /\ v.records = w.records /\ v.positions = w.positions /\ v.ends = [w.ends EXCEPT ![i] = m]
      /\ v.stack = Front(w.stack) /\ v.unvisited = w.unvisited
      /\ v = [records |-> v.records, positions |-> v.positions, ends |-> v.ends, stack |-> v.stack,
              unvisited |-> v.unvisited]
  <2>1. v = [records |-> w.records, positions |-> w.positions, ends |-> [w.ends EXCEPT ![i] = m],
             stack |-> Front(w.stack), unvisited |-> w.unvisited]
    <3> HIDE DEF v
    <3>1. v = Leave(w)
      BY DEF v
    <3> QED  BY <1>1, <3>1, LeaveIs
  <2> HIDE DEF v
  <2> QED  BY <2>1
<1>3. /\ v.stack \in Seq(1 .. n) /\ Len(v.stack) = h - 1 /\ DOMAIN v.stack = 1 .. h - 1
      /\ \A a \in 1 .. h - 1 : v.stack[a] = w.stack[a]
  <2> DEFINE s == w.stack
             X == 1 .. n
  <2>1. s \in Seq(X) /\ s # <<>> /\ v.stack = Front(s) /\ h = Len(s)
    BY <1>1, <1>2
  <2> HIDE DEF s, X
  <2>2. /\ Front(s) \in Seq(X) /\ Len(Front(s)) = Len(s) - 1 /\ DOMAIN Front(s) = 1 .. Len(s) - 1
        /\ \A k \in 1 .. Len(s) - 1 : Front(s)[k] = s[k]
    BY <2>1, FrontIs
  <2> HIDE DEF v, h
  <2> QED  BY <2>1, <2>2 DEF s, X
<1> HIDE DEF v, m, i, h
<1>m. m \in Nat /\ h \in Nat \ {0} /\ i \in 1 .. n
  BY <1>1
<1>4. Visited(v, n) = Visited(w, n) /\ Open(w) \subseteq Visited(w, n) /\ i \in Visited(w, n)
  BY <1>1, <1>2 DEF Visited, WalkOK, Stacked
<1>5. \A j \in Visited(w, n) : w.positions[j] \in 0 .. m - 1 /\ j \in 1 .. n /\ w.ends[j] \in Nat
  BY <1>1 DEF WalkOK, Numbers, Visited, m
<1>6. DOMAIN w.stack = 1 .. h
  BY <1>1 DEF h
<1>7. \A a \in 1 .. h - 1 : w.positions[w.stack[a]] < w.positions[i]
  <2> SUFFICES ASSUME NEW a \in 1 .. h - 1 PROVE w.positions[w.stack[a]] < w.positions[i]
    OBVIOUS
  <2>1. a \in 1 .. h /\ h \in 1 .. h /\ a < h
    BY <1>1
  <2> QED  BY <1>1, <1>6, <2>1 DEF WalkOK, Stacked
<1>8. Open(v) = Open(w) \ {i}
  <2>1. Open(w) = {w.stack[a] : a \in 1 .. h} /\ Open(v) = {w.stack[a] : a \in 1 .. h - 1}
    BY <1>3, <1>6 DEF Open
  <2>2. \A a \in 1 .. h - 1 : w.stack[a] # i
    <3> SUFFICES ASSUME NEW a \in 1 .. h - 1, w.stack[a] = i PROVE FALSE
      OBVIOUS
    <3>1. w.positions[i] < w.positions[i] /\ w.positions[i] \in Nat
      BY <1>1, <1>7
    <3> QED  BY <3>1
  <2>3. \A a \in 1 .. h : a \in 1 .. h - 1 \/ a = h
    BY <1>1
  <2>4. \A a \in 1 .. h - 1 : a \in 1 .. h
    BY <1>1
  <2> QED  BY <1>1, <2>1, <2>2, <2>3, <2>4
<1>9. Numbers(v, n)
  <2>1. v \in WalkOf(1 .. n, n)
    <3>1. v.ends \in [1 .. n -> Nat]
      BY <1>1, <1>2
    <3> QED  BY <1>1, <1>2, <1>3, <3>1 DEF WalkOf
  <2> QED  BY <1>2, <1>3, <1>4, <2>1 DEF WalkOK, Numbers
<1>10. v.ends[i] = m /\ \A j \in Visited(w, n) \ {i} : v.ends[j] = w.ends[j]
  BY <1>1, <1>2, <1>5
<1>11. Stacked(v, n)
  <2>1. Open(v) \subseteq Visited(v, n)
    BY <1>4, <1>8
  <2>2. \A a, b \in DOMAIN v.stack : a < b => v.positions[v.stack[a]] < v.positions[v.stack[b]]
    <3> SUFFICES ASSUME NEW a \in 1 .. h - 1, NEW b \in 1 .. h - 1, a < b
                 PROVE  w.positions[w.stack[a]] < w.positions[w.stack[b]]
      BY <1>2, <1>3
    <3>1. a \in DOMAIN w.stack /\ b \in DOMAIN w.stack
      <4>1. a \in 1 .. h /\ b \in 1 .. h
        BY <1>1
      <4> QED  BY <1>6, <4>1
    <3> QED  BY <3>1 DEF WalkOK, Stacked
  <2>3. ASSUME NEW j \in Visited(v, n) \ Open(v) PROVE v.ends[j] \in v.positions[j] + 1 .. Len(v.records)
    <3>1. CASE j = i
      <4>1. w.positions[i] \in 0 .. m - 1
        BY <1>4, <1>5
      <4>2. v.ends[j] = m /\ v.positions[j] = w.positions[i] /\ Len(v.records) = m
        BY <1>2, <1>10, <3>1 DEF m
      <4>3. m \in w.positions[i] + 1 .. m
        BY <1>m, <4>1
      <4> QED  BY <4>2, <4>3
    <3>2. CASE j # i
      <4>1. j \in Visited(w, n) \ Open(w)
        BY <1>4, <1>8, <3>2
      <4>2. w.ends[j] \in w.positions[j] + 1 .. m
        BY <4>1 DEF WalkOK, Stacked, m
      <4> QED  BY <1>2, <1>10, <3>2, <4>1, <4>2 DEF m
    <3> QED  BY <3>1, <3>2
  <2> QED  BY <2>1, <2>2, <2>3 DEF Stacked
<1>12. \A j, k \in Visited(w, n) : In(v, j, k) <=> In(w, j, k)
  <2> SUFFICES ASSUME NEW j \in Visited(w, n), NEW k \in Visited(w, n) PROVE In(v, j, k) <=> In(w, j, k)
    OBVIOUS
  <2>1. CASE k = i
    <3>1. w.positions[j] < m /\ v.positions[j] = w.positions[j]
      BY <1>m, <1>2, <1>5
    <3>2. i \in Open(w) /\ i \notin Open(v) /\ v.ends[i] = m /\ v.positions[i] = w.positions[i]
      BY <1>1, <1>2, <1>8, <1>10
    <3> QED  BY <2>1, <3>1, <3>2 DEF In
  <2>2. CASE k # i
    BY <1>2, <1>8, <1>10, <2>2 DEF In
  <2> QED  BY <2>1, <2>2
<1>13. Nested(v, n)
  <2> SUFFICES ASSUME NEW k \in Visited(v, n) \ Open(v), NEW j \in Visited(v, n), In(v, j, k)
               PROVE  j \notin Open(v) /\ v.ends[j] <= v.ends[k]
    BY DEF Nested
  <2>1. In(w, j, k) /\ j \in Visited(w, n) /\ k \in Visited(w, n)
    BY <1>4, <1>12
  <2>2. CASE k = i
    <3>1. w.positions[i] <= w.positions[j]
      BY <2>1, <2>2 DEF In
    <3>2. j \notin Open(v)
      <4> SUFFICES ASSUME NEW a \in 1 .. h - 1, j = w.stack[a] PROVE FALSE
        BY <1>3 DEF Open
      <4>1. w.positions[j] < w.positions[i] /\ w.positions[j] \in Nat /\ w.positions[i] \in Nat
        BY <1>4, <1>5, <1>7, <2>1
      <4> QED  BY <3>1, <4>1
    <3>3. v.ends[j] \in v.positions[j] + 1 .. Len(v.records)
      BY <1>11, <3>2 DEF Stacked
    <3>4. v.ends[j] <= m
      BY <1>2, <3>3 DEF m
    <3> QED  BY <1>10, <2>2, <3>2, <3>4
  <2>3. CASE k # i
    <3>1. k \in Visited(w, n) \ Open(w)
      BY <1>4, <1>8, <2>3
    <3>2. j \notin Open(w) /\ w.ends[j] <= w.ends[k]
      BY <2>1, <3>1 DEF WalkOK, Nested
    <3>3. j # i
      BY <1>1, <3>2
    <3> QED  BY <1>8, <1>10, <2>1, <2>3, <3>2, <3>3
  <2> QED  BY <2>2, <2>3
<1>14. Hung(parents, v, n)
  BY <1>4, <1>12 DEF WalkOK, Hung
<1>15. Len(v.records) = m /\ Len(v.stack) = h - 1
  BY <1>2, <1>3 DEF m
<1> QED  BY <1>9, <1>11, <1>13, <1>14, <1>15 DEF WalkOK, v, m, h

\* The layout of n records: each has one position; what is beneath a record
\* follows it, up to its end; and it is beneath its parent and what that is
\* beneath, or beneath nothing.
LayoutOK(n, parents, dfs) ==
  /\ dfs.records \in [1 .. n -> 1 .. n] /\ dfs.positions \in [1 .. n -> 0 .. n - 1] /\ dfs.ends \in [1 .. n -> 1 .. n]
  /\ \A j \in 1 .. n : dfs.records[dfs.positions[j] + 1] = j /\ dfs.positions[j] < dfs.ends[j]
  /\ \A p \in 1 .. n : dfs.positions[dfs.records[p]] = p - 1
  /\ \A i, j \in 1 .. n : dfs.positions[j] \in Subtree(dfs, i) => dfs.ends[j] <= dfs.ends[i]
  /\ \A j \in 1 .. n :
       \/ \A i \in 1 .. n \ {j} : dfs.positions[j] \notin Subtree(dfs, i)
       \/ /\ parents[j] \in 1 .. n \ {j} /\ dfs.positions[j] \in Subtree(dfs, parents[j])
          /\ \A i \in 1 .. n \ {j} :
               dfs.positions[j] \in Subtree(dfs, i) => dfs.positions[parents[j]] \in Subtree(dfs, i)

\* A walk of so many steps.
WalkAt(parents, w, n, k) ==
  WalkOK(parents, w, n) /\ (2 * Len(w.records)) - Len(w.stack) = k

LEMMA WalkSizes ==
  ASSUME NEW n \in Nat, NEW parents, NEW w, WalkOK(parents, w, n)
  PROVE  /\ Len(w.records) \in Nat /\ Len(w.stack) \in Nat /\ w.unvisited \in SUBSET (1 .. n)
         /\ Cardinality(w.unvisited) \in Nat /\ Cardinality(w.unvisited) = n - Len(w.records)
         /\ (Cardinality(w.unvisited) = 0) => w.unvisited = {}
         /\ (Len(w.stack) = 0) <=> w.stack = <<>>
<1>1. w \in WalkOf(1 .. n, n) /\ Cardinality(w.unvisited) + Len(w.records) = n
  BY DEF WalkOK, Numbers
<1>2. w.records \in Seq(1 .. n) /\ w.stack \in Seq(1 .. n) /\ w.unvisited \in SUBSET (1 .. n)
  BY <1>1 DEF WalkOf
<1>3. IsFiniteSet(w.unvisited)
  <2>1. IsFiniteSet(1 .. n)
    BY FS_Interval
  <2> QED  BY <1>2, <2>1, FS_Subset
<1>4. Cardinality(w.unvisited) \in Nat /\ (Cardinality(w.unvisited) = 0 => w.unvisited = {})
  BY <1>3, FS_CardinalityType, FS_EmptySet
<1>5. Len(w.records) \in Nat
  BY <1>2
<1>6. Len(w.stack) \in Nat /\ ((Len(w.stack) = 0) <=> w.stack = <<>>)
  BY <1>2, EmptySeq
<1>7. Cardinality(w.unvisited) = n - Len(w.records)
  <2> DEFINE c == Cardinality(w.unvisited)
             r == Len(w.records)
  <2>1. c \in Nat /\ r \in Nat /\ c + r = n
    BY <1>1, <1>4, <1>5
  <2> HIDE DEF c, r
  <2>2. c = n - r
    BY <2>1
  <2> QED  BY <2>2 DEF c, r
<1> QED  BY <1>2, <1>4, <1>5, <1>6, <1>7

\* A walk that has entered one more, or left one.
LEMMA OneMore ==
  ASSUME NEW r \in Nat, NEW s \in Nat, NEW k \in Int, (2 * r) - s = k
  PROVE  (2 * (r + 1)) - (s + 1) = k + 1 /\ (2 * r) - (s - 1) = k + 1
  OBVIOUS

LEMMA StepKeeps ==
  ASSUME NEW n \in Nat, NEW parents, NEW w, NEW k \in 0 .. (2 * n) - 1, WalkAt(parents, w, n, k)
  PROVE  WalkAt(parents, WalkStep(parents, w), n, k + 1)
<1>0. k \in Int
  OBVIOUS
<1>1. WalkOK(parents, w, n) /\ (2 * Len(w.records)) - Len(w.stack) = k
  BY DEF WalkAt
<1>2. /\ Len(w.records) \in Nat /\ Len(w.stack) \in Nat /\ w.unvisited \in SUBSET (1 .. n)
      /\ Cardinality(w.unvisited) = n - Len(w.records)
      /\ (Len(w.stack) = 0) <=> w.stack = <<>>
  BY <1>1, WalkSizes
<1>3. ASSUME NEW S \in SUBSET w.unvisited, S # {} PROVE Lowest(S) \in S
  <2>1. S \in SUBSET Nat
    BY <1>2
  <2> QED  BY <1>3, <2>1, LowestIn
<1>4. ASSUME NEW i \in w.unvisited, w.stack # <<>> => parents[i] = Last(w.stack)
      PROVE  WalkAt(parents, Enter(w, i), n, k + 1)
  <2>1. WalkOK(parents, Enter(w, i), n) /\ Len(Enter(w, i).records) = Len(w.records) + 1
           /\ Len(Enter(w, i).stack) = Len(w.stack) + 1
    BY <1>1, <1>4, EnterKeeps
  <2>2. (2 * (Len(w.records) + 1)) - (Len(w.stack) + 1) = k + 1
    BY <1>0, <1>1, <1>2, OneMore
  <2> QED  BY <2>1, <2>2 DEF WalkAt
<1>5. ASSUME w.stack # <<>> PROVE WalkAt(parents, Leave(w), n, k + 1)
  <2>1. WalkOK(parents, Leave(w), n) /\ Len(Leave(w).records) = Len(w.records)
           /\ Len(Leave(w).stack) = Len(w.stack) - 1
    BY <1>1, <1>5, LeaveKeeps
  <2>2. (2 * Len(w.records)) - (Len(w.stack) - 1) = k + 1
    BY <1>0, <1>1, <1>2, OneMore
  <2> QED  BY <2>1, <2>2 DEF WalkAt
<1>6. CASE w.stack # <<>>
  <2> DEFINE fresh == ChildrenOf(parents, Last(w.stack)) \cap w.unvisited
  <2>1. CASE fresh = {}
    BY <1>5, <1>6, <2>1 DEF WalkStep
  <2>2. CASE fresh # {}
    <3>1. Lowest(fresh) \in fresh
      BY <1>3, <2>2
    <3>2. parents[Lowest(fresh)] = Last(w.stack) /\ Lowest(fresh) \in w.unvisited
      BY <3>1 DEF ChildrenOf
    <3>3. WalkAt(parents, Enter(w, Lowest(fresh)), n, k + 1)
      BY <1>4, <3>2
    <3> QED  BY <1>6, <2>2, <3>3 DEF WalkStep
  <2> QED  BY <2>1, <2>2
<1>7. CASE w.stack = <<>>
  <2>1. w.unvisited # {}
    <3>1. Len(w.stack) = 0
      BY <1>2, <1>7
    <3> DEFINE r == Len(w.records)
    <3>2. r \in Nat /\ 2 * r = k
      BY <1>1, <1>2, <3>1
    <3> HIDE DEF r
    <3>3. r < n
      BY <3>2
    <3>4. n - r # 0
      BY <3>2, <3>3
    <3>5. Cardinality(w.unvisited) # 0
      BY <1>2, <3>4 DEF r
    <3> QED  BY <3>5, FS_EmptySet
  <2> DEFINE some == IF {i \in w.unvisited : IsRoot(parents, i)} # {}
                     THEN {i \in w.unvisited : IsRoot(parents, i)} ELSE w.unvisited
  <2>2. Lowest(some) \in w.unvisited
    BY <1>3, <2>1
  <2>3. WalkAt(parents, Enter(w, Lowest(some)), n, k + 1)
    BY <1>4, <1>7, <2>2
  <2> QED  BY <1>7, <2>3 DEF WalkStep
<1> QED  BY <1>6, <1>7

LEMMA StartWalk ==
  ASSUME NEW n \in Nat, NEW parents, NEW w,
         w = [ records |-> <<>>, positions |-> [i \in 1 .. n |-> 0], ends |-> [i \in 1 .. n |-> 0],
               stack |-> <<>>, unvisited |-> 1 .. n ]
  PROVE  WalkAt(parents, w, n, 0) /\ w \in WalkOf(Places(n), n)
<1>1. /\ w.records = <<>> /\ w.stack = <<>> /\ w.unvisited = 1 .. n
      /\ w.positions \in [1 .. n -> Nat] /\ w.ends \in [1 .. n -> Nat]
  OBVIOUS
<1>2. Visited(w, n) = {} /\ Open(w) = {} /\ Len(w.records) = 0 /\ Len(w.stack) = 0
  BY <1>1 DEF Visited, Open
<1>3. \A X : <<>> \in Seq(X)
  OBVIOUS
<1>4. w \in WalkOf(1 .. n, n) /\ w \in WalkOf(Places(n), n)
  BY <1>1, <1>3 DEF WalkOf
<1>5. Cardinality(1 .. n) = n
  BY FS_Interval
<1>6. Numbers(w, n)
  <2>1. 1 .. Len(w.records) = {}
    BY <1>2
  <2>2. Cardinality(w.unvisited) + Len(w.records) = n
    BY <1>1, <1>2, <1>5
  <2> QED  BY <1>2, <1>4, <2>1, <2>2 DEF Numbers
<1>7. Stacked(w, n)
  <2>1. DOMAIN w.stack = {}
    BY <1>1
  <2> QED  BY <1>2, <2>1 DEF Stacked
<1>8. Nested(w, n) /\ Hung(parents, w, n)
  BY <1>2 DEF Nested, Hung
<1> QED  BY <1>2, <1>4, <1>6, <1>7, <1>8 DEF WalkAt, WalkOK

\* Each record has been entered and left.
LEMMA EndWalk ==
  ASSUME NEW n \in Nat, NEW parents, NEW w, WalkAt(parents, w, n, 2 * n), NEW dfs,
         dfs = [records |-> w.records, positions |-> w.positions, ends |-> w.ends]
  PROVE  LayoutOK(n, parents, dfs)
<1>1. WalkOK(parents, w, n) /\ (2 * Len(w.records)) - Len(w.stack) = 2 * n
  BY DEF WalkAt
<1>2. /\ Len(w.records) \in Nat /\ Len(w.stack) \in Nat /\ w.unvisited \in SUBSET (1 .. n)
      /\ Cardinality(w.unvisited) \in Nat /\ Cardinality(w.unvisited) = n - Len(w.records)
      /\ (Cardinality(w.unvisited) = 0) => w.unvisited = {}
      /\ (Len(w.stack) = 0) <=> w.stack = <<>>
  BY <1>1, WalkSizes
<1>3. Len(w.records) = n /\ Len(w.stack) = 0 /\ Cardinality(w.unvisited) = 0
  <2> DEFINE r == Len(w.records)
             s == Len(w.stack)
             c == Cardinality(w.unvisited)
  <2>1. r \in Nat /\ s \in Nat /\ c \in Nat /\ c = n - r /\ (2 * r) - s = 2 * n
    BY <1>1, <1>2
  <2> HIDE DEF r, s, c
  <2>2. r = n /\ s = 0 /\ c = 0
    BY <2>1
  <2> QED  BY <2>2 DEF r, s, c
<1>4. w.unvisited = {} /\ w.stack = <<>>
  BY <1>2, <1>3
<1>5. Visited(w, n) = 1 .. n /\ Open(w) = {}
  BY <1>4 DEF Visited, Open
<1>6. Numbers(w, n) /\ Stacked(w, n) /\ Nested(w, n) /\ Hung(parents, w, n)
  BY <1>1 DEF WalkOK
<1>7. w.records \in Seq(1 .. n) /\ w.positions \in [1 .. n -> Nat] /\ w.ends \in [1 .. n -> Nat]
  BY <1>6 DEF Numbers, WalkOf
<1>8. \A j \in 1 .. n : w.positions[j] \in 0 .. n - 1 /\ w.records[w.positions[j] + 1] = j
  BY <1>3, <1>5, <1>6 DEF Numbers
<1>9. \A p \in 1 .. n : w.records[p] \in 1 .. n /\ w.positions[w.records[p]] = p - 1
  BY <1>3, <1>5, <1>6 DEF Numbers
<1>10. \A j \in 1 .. n : w.ends[j] \in w.positions[j] + 1 .. n
  BY <1>3, <1>5, <1>6 DEF Stacked
<1>11. \A i, j \in 1 .. n : In(w, j, i) <=> w.positions[j] \in w.positions[i] .. w.ends[i] - 1
  <2> TAKE i, j \in 1 .. n
  <2>1. w.positions[i] \in Nat /\ w.positions[j] \in Nat /\ w.ends[i] \in Nat
    BY <1>7
  <2>2. In(w, j, i) <=> w.positions[i] <= w.positions[j] /\ w.positions[j] < w.ends[i]
    BY <1>5 DEF In
  <2> QED  BY <2>1, <2>2
<1>12. w.records \in [1 .. n -> 1 .. n]
  <2> DEFINE r == w.records
             X == 1 .. n
  <2>1. r \in Seq(X) /\ Len(r) = n
    BY <1>3, <1>7
  <2> HIDE DEF r, X
  <2>2. r \in [1 .. n -> X]
    BY <2>1
  <2> QED  BY <2>2 DEF r, X
<1>13. w.positions \in [1 .. n -> 0 .. n - 1]
  BY <1>7, <1>8
<1>14. \A j \in 1 .. n : w.ends[j] \in 1 .. n /\ w.positions[j] < w.ends[j]
  BY <1>8, <1>10
<1>15. w.ends \in [1 .. n -> 1 .. n]
  BY <1>7, <1>14
<1>16. \A i, j \in 1 .. n : w.positions[j] \in w.positions[i] .. w.ends[i] - 1 => w.ends[j] <= w.ends[i]
  BY <1>5, <1>6, <1>11 DEF Nested
<1>17. \A j \in 1 .. n :
         \/ \A i \in 1 .. n \ {j} : w.positions[j] \notin w.positions[i] .. w.ends[i] - 1
         \/ /\ parents[j] \in 1 .. n \ {j} /\ w.positions[j] \in w.positions[parents[j]] .. w.ends[parents[j]] - 1
            /\ \A i \in 1 .. n \ {j} :
                 w.positions[j] \in w.positions[i] .. w.ends[i] - 1 =>
                   w.positions[parents[j]] \in w.positions[i] .. w.ends[i] - 1
  <2> TAKE j \in 1 .. n
  <2>1. CASE \A i \in 1 .. n \ {j} : ~In(w, j, i)
    BY <1>11, <2>1
  <2>2. CASE /\ parents[j] \in 1 .. n \ {j} /\ In(w, j, parents[j])
             /\ \A i \in 1 .. n \ {j} : In(w, j, i) => In(w, parents[j], i)
    BY <1>11, <2>2
  <2> QED  BY <1>5, <1>6, <2>1, <2>2 DEF Hung
<1> QED  BY <1>8, <1>9, <1>12, <1>13, <1>14, <1>15, <1>16, <1>17 DEF LayoutOK, Subtree

\* Every column has a layout, a malformed one too.
THEOREM LayoutIsOK ==
  ASSUME NEW n \in Nat, NEW parents, Len(parents) = n
  PROVE  LayoutOK(n, parents, Layout(parents))
<1> DEFINE S == WalkOf(Places(n), n)
           N == 2 * n
           start == [ records |-> <<>>, positions |-> [i \in 1 .. n |-> 0], ends |-> [i \in 1 .. n |-> 0],
                      stack |-> <<>>, unvisited |-> 1 .. n ]
           op == [k \in 1 .. N |-> [w \in S |-> WalkStep(parents, w)]]
           IsFold(f) == f = [s \in SUBSET (1 .. N) |->
                               IF s = {} THEN start ELSE WalkStep(parents, f[s \ {Max(s)}])]
           fold == CHOOSE f : IsFold(f)
           walk == fold[1 .. N]
<1>1. N \in Nat
  OBVIOUS
<1>2. Layout(parents) = [records |-> walk.records, positions |-> walk.positions, ends |-> walk.ends]
  <2>1. DOMAIN [k \in 1 .. N |-> k] = 1 .. N
    OBVIOUS
  <2> QED  BY <2>1 DEF Layout, FoldLeft, MapThenFoldSet
<1> HIDE DEF S, N
<1>3. WalkAt(parents, start, n, 0) /\ start \in S
  <2> HIDE DEF start
  <2> QED  BY StartWalk DEF start, S
<1>4. \A w \in S : WalkStep(parents, w) \in S
  BY WalkTyped DEF S
<1> HIDE DEF start
<1>5. Steps(N, S, start, op)
  BY <1>1, <1>3, <1>4 DEF Steps
<1>6. PICK f : Folded(f, N, S, start, op)
  <2> HIDE DEF op
  <2> QED  BY <1>5, FoldLeftExists
<1>7. IsFold(f)
  <2>1. f \in [SUBSET (1 .. N) -> S] /\ f[{}] = start
    BY <1>6 DEF Folded
  <2>2. ASSUME NEW s \in SUBSET (1 .. N), s # {} PROVE f[s] = WalkStep(parents, f[s \ {Max(s)}])
    <3>1. Max(s) \in s
      <4>1. IsFiniteSet(s)
        <5>1. IsFiniteSet(1 .. N)
          BY <1>1, FS_Interval
        <5> QED  BY <5>1, FS_Subset
      <4>2. s \in SUBSET Int
        BY <1>1
      <4> QED  BY <2>2, <4>1, <4>2, LargestExists
    <3>2. f[s] = op[Max(s)][f[s \ {Max(s)}]] /\ f[s \ {Max(s)}] \in S
      <4> HIDE DEF op
      <4> QED  BY <1>6, <2>2, <3>1 DEF Folded
    <3> QED  BY <3>1, <3>2
  <2> QED  BY <2>1, <2>2
<1>8. IsFold(fold)
  <2> HIDE DEF IsFold
  <2> QED  BY <1>7 DEF fold
<1> HIDE DEF fold
<1> DEFINE T == {k \in 0 .. N : WalkAt(parents, fold[1 .. k], n, k)}
<1>9. 0 \in T
  <2>1. 1 .. 0 = {} /\ fold[{}] = start
    BY <1>8
  <2> QED  BY <1>1, <1>3, <2>1
<1>10. ASSUME NEW k \in 1 .. N, k - 1 \in T PROVE k \in T
  <2>1. 1 .. k \in SUBSET (1 .. N) /\ 1 .. k # {} /\ Max(1 .. k) = k /\ (1 .. k) \ {k} = 1 .. k - 1
    BY <1>1, FoldStages
  <2>2. fold[1 .. k] = WalkStep(parents, fold[1 .. k - 1])
    BY <1>8, <2>1
  <2> DEFINE w == fold[1 .. k - 1]
             j == k - 1
  <2>3. j \in 0 .. (2 * n) - 1 /\ j + 1 = k /\ k \in 0 .. N
    BY <1>1 DEF N
  <2>4. WalkAt(parents, w, n, j)
    BY <1>10
  <2> HIDE DEF w, j
  <2>5. WalkAt(parents, WalkStep(parents, w), n, j + 1)
    BY <2>3, <2>4, StepKeeps
  <2> QED  BY <2>2, <2>3, <2>5 DEF w
<1> HIDE DEF T
<1>11. 0 .. N \subseteq T
  BY <1>1, <1>9, <1>10, UpTo
<1>12. WalkAt(parents, walk, n, 2 * n)
  <2>1. N \in T
    BY <1>1, <1>11
  <2> QED  BY <2>1 DEF T, N
<1> HIDE DEF walk
<1> QED  BY <1>2, <1>12, EndWalk


-----------------------------------------------------------------------------
(* Interval sets. *)

Runs == Seq(Int \X Int)

\* Runs of something, each after the ones before it.
Ascending(s) ==
  \A k \in 1 .. Len(s) : s[k][1] < s[k][2] /\ \A j \in 1 .. k - 1 : s[j][2] <= s[k][1]

IntervalSet(s) == s \in Runs /\ Ascending(s)

Covers(run, p) == run[1] <= p /\ p < run[2]

LEMMA RunTyped ==
  ASSUME NEW s \in Runs
  PROVE  /\ Len(s) \in Nat /\ DOMAIN s = 1 .. Len(s)
         /\ \A k \in 1 .. Len(s) : s[k] \in Int \X Int /\ s[k][1] \in Int /\ s[k][2] \in Int
<1>1. Len(s) \in Nat /\ DOMAIN s = 1 .. Len(s) /\ \A k \in 1 .. Len(s) : s[k] \in Int \X Int
  BY DEF Runs
<1> QED  BY <1>1

LEMMA Covered ==
  ASSUME NEW s \in Runs, NEW p \in Int
  PROVE  p \in Positions(s) <=> \E k \in 1 .. Len(s) : Covers(s[k], p)
<1>1. /\ DOMAIN s = 1 .. Len(s)
      /\ \A k \in 1 .. Len(s) : s[k][1] \in Int /\ s[k][2] \in Int
  BY RunTyped
<1>2. p \in Positions(s) <=> \E k \in 1 .. Len(s) : p \in s[k][1] .. s[k][2] - 1
  BY <1>1 DEF Positions, ToSet
<1>3. \A k \in 1 .. Len(s) : p \in s[k][1] .. s[k][2] - 1 <=> Covers(s[k], p)
  BY <1>1 DEF Covers
<1> QED  BY <1>2, <1>3

LEMMA LastRun ==
  ASSUME NEW s \in Runs, Len(s) # 0 \/ s # <<>>
  PROVE  /\ s # <<>> /\ Len(s) # 0 /\ Last(s) = s[Len(s)] /\ Len(s) \in 1 .. Len(s) /\ Len(s) \in Nat \ {0}
         /\ Last(s) \in Int \X Int
<1> DEFINE X == Int \X Int
<1>1. s \in Seq(X)
  BY DEF Runs
<1> HIDE DEF X
<1>2. s # <<>>
  BY <1>1
<1>3. Len(s) \in Nat \ {0} /\ Last(s) = s[Len(s)] /\ Last(s) \in X
  BY <1>1, <1>2, FrontIs
<1> QED  BY <1>2, <1>3 DEF X

LEMMA PositionsInt ==
  ASSUME NEW s \in Runs
  PROVE  Positions(s) \in SUBSET Int
BY DEF Positions

EndsBy(s, a) == \A k \in 1 .. Len(s) : s[k][2] <= a

Grown(t, s, a, b) == \A p \in Int : p \in Positions(t) <=> p \in Positions(s) \/ (a <= p /\ p < b)

LEMMA EndsByLast ==
  ASSUME NEW s, IntervalSet(s), NEW a \in Int, s = <<>> \/ Last(s)[2] <= a
  PROVE  EndsBy(s, a)
<1> SUFFICES ASSUME NEW k \in 1 .. Len(s) PROVE s[k][2] <= a
  BY DEF EndsBy
<1> DEFINE n == Len(s)
<1>1. s \in Runs /\ Ascending(s) /\ n \in Nat /\ \A l \in 1 .. n : s[l][1] \in Int /\ s[l][2] \in Int
  BY RunTyped DEF IntervalSet
<1>2. s # <<>> /\ Last(s) = s[n] /\ n \in 1 .. n
  <2>1. Len(s) # 0
    BY <1>1
  <2> QED  BY <1>1, <2>1, LastRun
<1>3. s[n][2] <= a /\ s[n][1] < s[n][2]
  BY <1>1, <1>2 DEF Ascending
<1>4. k < n => s[k][2] <= s[n][1]
  <2>1. k < n => k \in 1 .. n - 1
    BY <1>1
  <2> QED  BY <1>1, <1>2, <2>1 DEF Ascending
<1>5. k < n \/ k = n
  BY <1>1
<1> QED  BY <1>1, <1>2, <1>3, <1>4, <1>5

\* A run after the last.
LEMMA Appended ==
  ASSUME NEW s, IntervalSet(s), NEW a \in Int, NEW b \in Int, a < b, EndsBy(s, a)
  PROVE  LET t == Append(s, Run(a, b))
         IN  IntervalSet(t) /\ Len(t) = Len(s) + 1 /\ t[Len(t)] = Run(a, b) /\ Grown(t, s, a, b)
<1> DEFINE t == Append(s, Run(a, b))
           x == Run(a, b)
           n == Len(s)
           X == Int \X Int
<1>0. t = Append(s, x)
  OBVIOUS
<1> HIDE DEF t
<1>1. x \in X /\ x[1] = a /\ x[2] = b
  BY DEF Run
<1>2. s \in Runs /\ Ascending(s) /\ n \in Nat
  BY RunTyped DEF IntervalSet
<1>3. /\ t \in Runs /\ Len(t) = n + 1 /\ t[n + 1] = x /\ \A k \in 1 .. n : t[k] = s[k]
  <2>1. s \in Seq(X) /\ t = Append(s, x)
    BY <1>0, <1>2 DEF Runs
  <2> HIDE DEF x, X
  <2> QED  BY <1>1, <2>1, AppendIs DEF Runs, X
<1> HIDE DEF x, X
<1>4. \A k \in 1 .. n : s[k][1] \in Int /\ s[k][2] \in Int
  BY <1>2, RunTyped
<1>5. Ascending(t)
  <2> SUFFICES ASSUME NEW k \in 1 .. n + 1
               PROVE  t[k][1] < t[k][2] /\ \A j \in 1 .. k - 1 : t[j][2] <= t[k][1]
    BY <1>3 DEF Ascending
  <2>1. CASE k \in 1 .. n
    <3>1. \A j \in 1 .. k - 1 : j \in 1 .. n
      BY <1>2, <2>1
    <3>2. s[k][1] < s[k][2] /\ \A j \in 1 .. k - 1 : s[j][2] <= s[k][1]
      BY <1>2, <2>1 DEF Ascending
    <3> QED  BY <1>3, <2>1, <3>1, <3>2
  <2>2. CASE k = n + 1
    <3>1. t[k] = x /\ 1 .. k - 1 = 1 .. n
      BY <1>2, <1>3, <2>2
    <3> QED  BY <1>1, <1>3, <3>1 DEF EndsBy
  <2> QED  BY <1>2, <2>1, <2>2
<1>6. ASSUME NEW p \in Int PROVE p \in Positions(t) <=> p \in Positions(s) \/ (a <= p /\ p < b)
  <2>1. p \in Positions(t) <=> \E k \in 1 .. n + 1 : Covers(t[k], p)
    BY <1>3, Covered
  <2>2. p \in Positions(s) <=> \E k \in 1 .. n : Covers(s[k], p)
    BY <1>2, Covered
  <2>3. Covers(x, p) <=> a <= p /\ p < b
    BY <1>1 DEF Covers
  <2>4. \A k \in 1 .. n + 1 : k \in 1 .. n \/ k = n + 1
    BY <1>2
  <2>5. n + 1 \in 1 .. n + 1 /\ \A k \in 1 .. n : k \in 1 .. n + 1
    BY <1>2
  <2> QED  BY <1>3, <2>1, <2>2, <2>3, <2>4, <2>5
<1> QED  BY <1>1, <1>2, <1>3, <1>5, <1>6 DEF IntervalSet, x, t, Grown

\* The last run, made longer by what it reaches.
LEMMA Lengthened ==
  ASSUME NEW s, IntervalSet(s), s # <<>>, NEW a \in Int, NEW b \in Int, Last(s)[1] <= a, a <= Last(s)[2],
         Last(s)[2] <= b
  PROVE  LET t == Extended(s, b)
         IN  IntervalSet(t) /\ Len(t) = Len(s) /\ t[Len(t)] = Run(Last(s)[1], b) /\ Grown(t, s, a, b)
<1> DEFINE t == Extended(s, b)
           n == Len(s)
           X == Int \X Int
           x == Last(s)
           f == Front(s)
<1>1. s \in Runs /\ Ascending(s) /\ n \in Nat \ {0} /\ x = s[n]
  BY FrontIs DEF IntervalSet, Runs
<1>2. /\ f \in Runs /\ Len(f) = n - 1 /\ \A k \in 1 .. n - 1 : f[k] = s[k]
  BY <1>1, FrontIs DEF Runs
<1>3. \A k \in 1 .. n : s[k][1] \in Int /\ s[k][2] \in Int
  BY <1>1, RunTyped
<1>4. x[1] \in Int /\ x[2] \in Int /\ x[1] < x[2] /\ n \in 1 .. n /\ \A k \in 1 .. n - 1 : k \in 1 .. n
  <2>1. n \in 1 .. n /\ \A k \in 1 .. n - 1 : k \in 1 .. n
    BY <1>1
  <2> QED  BY <1>1, <1>3, <2>1 DEF Ascending
<1> HIDE DEF x, f
<1>5. t = Append(f, Run(x[1], b))
  BY DEF Extended, x, f
<1> HIDE DEF t
<1>6. Ascending(f)
  <2>1. \A k \in 1 .. n - 1 : \A j \in 1 .. k - 1 : j \in 1 .. n - 1
    BY <1>1
  <2>2. DOMAIN f = 1 .. n - 1 /\ DOMAIN s = 1 .. n
    BY <1>1, <1>2
  <2>3. \A k \in 1 .. n - 1 : k \in 1 .. n /\ f[k] = s[k]
    BY <1>2, <1>4
  <2> QED  BY <1>1, <2>1, <2>2, <2>3 DEF Ascending
<1>7. \A k \in 1 .. n - 1 : f[k][2] <= x[1]
  BY <1>1, <1>2, <1>4 DEF Ascending
<1>8. x[1] < b /\ IntervalSet(f) /\ EndsBy(f, x[1])
  BY <1>2, <1>4, <1>6, <1>7 DEF IntervalSet, x, EndsBy
<1>9. /\ IntervalSet(t) /\ Len(t) = Len(f) + 1 /\ t[Len(t)] = Run(x[1], b)
      /\ \A p \in Int : p \in Positions(t) <=> p \in Positions(f) \/ (x[1] <= p /\ p < b)
  <2> DEFINE c == x[1]
  <2>1. c \in Int /\ c < b /\ IntervalSet(f) /\ EndsBy(f, c) /\ t = Append(f, Run(c, b))
    BY <1>4, <1>5, <1>8
  <2> HIDE DEF c
  <2>2. IntervalSet(t) /\ Len(t) = Len(f) + 1 /\ t[Len(t)] = Run(c, b) /\ Grown(t, f, c, b)
    BY <2>1, Appended
  <2> QED  BY <2>2 DEF c, Grown
<1>10. ASSUME NEW p \in Int PROVE p \in Positions(s) <=> p \in Positions(f) \/ Covers(x, p)
  <2>1. p \in Positions(f) <=> \E k \in 1 .. n - 1 : Covers(f[k], p)
    BY <1>2, Covered
  <2>2. p \in Positions(s) <=> \E k \in 1 .. n : Covers(s[k], p)
    BY <1>1, Covered
  <2>3. \A k \in 1 .. n : k \in 1 .. n - 1 \/ k = n
    BY <1>1
  <2> QED  BY <1>1, <1>2, <1>4, <2>1, <2>2, <2>3
<1>11. \A p \in Int : (x[1] <= p /\ p < b) <=> Covers(x, p) \/ (a <= p /\ p < b)
  BY <1>4 DEF Covers, x
<1> QED  BY <1>1, <1>2, <1>9, <1>10, <1>11 DEF x, t, Grown

\* The runs, and the points from which the last may not go back.
Covering(s, X) == IntervalSet(s) /\ \A p \in Int : p \in Positions(s) <=> p \in X
Reaches(s, start) == s # <<>> => Last(s)[1] <= start

LEMMA EmptyCovering ==
  /\ Covering(<<>>, {}) /\ \A start : Reaches(<<>>, start)
<1>1. <<>> \in Runs /\ Len(<<>>) = 0
  BY DEF Runs
<1>2. 1 .. Len(<<>>) = {}
  BY <1>1
<1>3. IntervalSet(<<>>)
  BY <1>1, <1>2 DEF IntervalSet, Ascending
<1> QED  BY <1>1, <1>2, <1>3, Covered DEF Covering, Reaches

LEMMA MergeSpanCovers ==
  ASSUME NEW X, NEW s, Covering(s, X), NEW span \in Int \X Int, span[1] < span[2], Reaches(s, span[1])
  PROVE  /\ Covering(MergeSpan(s, span), X \cup (span[1] .. span[2] - 1))
         /\ Reaches(MergeSpan(s, span), span[1]) /\ MergeSpan(s, span) # <<>>
<1> DEFINE a == span[1]
           b == span[2]
           t == MergeSpan(s, span)
<1>1. a \in Int /\ b \in Int /\ a < b /\ span = Run(a, b)
  BY DEF Run
<1>2. s \in Runs /\ IntervalSet(s) /\ \A p \in Int : p \in a .. b - 1 <=> a <= p /\ p < b
  BY <1>1 DEF Covering, IntervalSet
<1> HIDE DEF a, b
<1>3. CASE s # <<>> /\ a <= Last(s)[2]
  <2> DEFINE last == Last(s)
             high == IF last[2] > b THEN last[2] ELSE b
  <2>1. last \in Int \X Int
    BY <1>2, <1>3, FrontIs DEF Runs
  <2>2. last[1] \in Int /\ last[2] \in Int /\ high \in Int /\ last[2] <= high /\ last[1] <= a /\ a <= last[2]
    BY <1>1, <1>3, <2>1 DEF Reaches, a
  <2>3. t = Extended(s, high)
    BY <1>3 DEF MergeSpan, a, b
  <2> HIDE DEF t, high
  <2>4. /\ IntervalSet(t) /\ Len(t) = Len(s) /\ t[Len(t)] = Run(Last(s)[1], high)
        /\ Grown(t, s, a, high)
    BY <1>1, <1>2, <1>3, <2>2, <2>3, Lengthened
  <2>5. t # <<>> /\ Last(t) = t[Len(t)]
    <3>1. Len(t) # 0
      BY <1>2, <1>3, <2>4, LastRun
    <3>2. t \in Runs
      BY <2>4 DEF IntervalSet
    <3> QED  BY <3>1, <3>2, LastRun
  <2>6. Last(t)[1] <= a
    BY <2>2, <2>4, <2>5 DEF Run
  <2>7. ASSUME NEW p \in Int PROVE p \in Positions(t) <=> p \in X \/ p \in a .. b - 1
    <3>1. p \in Positions(t) <=> p \in X \/ (a <= p /\ p < high)
      BY <2>4 DEF Covering, Grown
    <3>2. CASE high = b
      BY <1>2, <3>1, <3>2
    <3>3. CASE high # b
      <4>1. high = last[2] /\ b < high
        BY <1>1, <2>2, <3>3 DEF high
      <4>2. a <= p /\ p < high => p \in Positions(s)
        <5> SUFFICES ASSUME a <= p, p < high PROVE p \in Positions(s)
          OBVIOUS
        <5>1. Covers(last, p)
          BY <1>1, <2>2, <4>1 DEF Covers
        <5>2. last = s[Len(s)] /\ Len(s) \in 1 .. Len(s)
          BY <1>2, <1>3, LastRun
        <5> QED  BY <1>2, <5>1, <5>2, Covered
      <4>3. p \in Positions(s) <=> p \in X
        BY DEF Covering
      <4>4. p < b => p < high
        BY <1>1, <2>2, <4>1
      <4> QED  BY <1>2, <3>1, <4>2, <4>3, <4>4
    <3> QED  BY <3>2, <3>3
  <2> QED  BY <2>4, <2>5, <2>6, <2>7 DEF Covering, Reaches, t, a, b
<1>4. CASE ~(s # <<>> /\ a <= Last(s)[2])
  <2>1. t = Append(s, Run(a, b))
    BY <1>1, <1>4 DEF MergeSpan, a
  <2>2. EndsBy(s, a)
    <3>1. s = <<>> \/ Last(s)[2] <= a
      <4>1. s # <<>> => Last(s) \in Int \X Int
        BY <1>2, LastRun
      <4> QED  BY <1>1, <1>4, <4>1
    <3> QED  BY <1>1, <1>2, <3>1, EndsByLast
  <2> HIDE DEF t
  <2>3. IntervalSet(t) /\ Len(t) = Len(s) + 1 /\ t[Len(t)] = Run(a, b) /\ Grown(t, s, a, b)
    <3>1. a \in Int /\ b \in Int /\ a < b /\ IntervalSet(s)
      BY <1>1, <1>2
    <3> QED  BY <2>1, <2>2, <3>1, Appended
  <2>4. t # <<>> /\ Last(t) = t[Len(t)]
    <3>1. Len(t) # 0
      <4>1. Len(s) \in Nat
        BY <1>2, RunTyped
      <4> QED  BY <2>3, <4>1
    <3>2. t \in Runs
      BY <2>3 DEF IntervalSet
    <3> QED  BY <3>1, <3>2, LastRun
  <2>5. Last(t)[1] <= a
    BY <1>1, <2>3, <2>4 DEF Run
  <2> QED  BY <1>2, <2>3, <2>4, <2>5 DEF Covering, Reaches, Grown, t, a, b
<1> QED  BY <1>3, <1>4


LEMMA ExtendedTyped ==
  ASSUME NEW s \in Runs, s # <<>>, NEW b \in Int
  PROVE  Extended(s, b) \in Runs
<1>1. Front(s) \in Seq(Int \X Int) /\ Last(s) \in Int \X Int
  BY FrontIs DEF Runs
<1>2. Run(Last(s)[1], b) \in Int \X Int
  BY <1>1 DEF Run
<1> QED  BY <1>1, <1>2 DEF Extended, Runs

LEMMA AppendTyped ==
  ASSUME NEW s \in Runs, NEW x \in Int \X Int
  PROVE  Append(s, x) \in Runs
BY DEF Runs

LEMMA MergeSpanTyped ==
  ASSUME NEW s \in Runs, NEW span \in Int \X Int
  PROVE  MergeSpan(s, span) \in Runs
<1>1. CASE s # <<>> /\ span[1] <= Last(s)[2]
  <2> DEFINE high == IF Last(s)[2] > span[2] THEN Last(s)[2] ELSE span[2]
  <2>1. high \in Int
    <3>1. Last(s) \in Int \X Int
      BY <1>1, LastRun
    <3> QED  BY <3>1
  <2> HIDE DEF high
  <2>2. Extended(s, high) \in Runs
    BY <1>1, <2>1, ExtendedTyped
  <2> QED  BY <1>1, <2>2 DEF MergeSpan, high
<1>2. CASE ~(s # <<>> /\ span[1] <= Last(s)[2])
  BY <1>2, AppendTyped DEF MergeSpan
<1> QED  BY <1>1, <1>2

\* What is queued is merged into the runs that cover it.
LEMMA CoalesceCovers ==
  ASSUME NEW spans \in SUBSET (Int \X Int), IsFiniteSet(spans)
  PROVE  Covering(Coalesce(spans), UNION {s[1] .. s[2] - 1 : s \in spans})
<1> DEFINE queued == {s \in spans : s[1] < s[2]}
           earlier == {p \in queued \X queued :
                         p[1][1] < p[2][1] \/ (p[1][1] = p[2][1] /\ p[1][2] <= p[2][2])}
           q == InOrder(queued, earlier)
           N == Cardinality(queued)
           Span(x) == x[1] .. x[2] - 1
           UpToSet(k) == UNION {Span(q[j]) : j \in 1 .. k}
           empty == <<>>
<1>1. N \in Nat /\ IsFiniteSet(queued) /\ queued \in SUBSET spans
  BY FS_Subset, FS_CardinalityType
<1>2. Orders(earlier, queued)
  <2> DEFINE After(x, y) == x[1] < y[1] \/ (x[1] = y[1] /\ x[2] <= y[2])
  <2>1. \A x, y \in queued : <<x, y>> \in earlier <=> After(x, y)
    OBVIOUS
  <2>2. \A x \in queued : x = <<x[1], x[2]>> /\ x[1] \in Int /\ x[2] \in Int
    OBVIOUS
  <2> HIDE DEF queued, earlier
  <2>3. \A x \in queued : After(x, x)
    BY <2>2
  <2>4. \A x, y \in queued : After(x, y) \/ After(y, x)
    BY <2>2
  <2>5. \A x, y \in queued : After(x, y) /\ After(y, x) => x = y
    <3> TAKE x, y \in queued
    <3> HAVE After(x, y) /\ After(y, x)
    <3>1. x[1] = y[1] /\ x[2] = y[2]
      BY <2>2
    <3> QED  BY <2>2, <3>1
  <2>6. \A x, y, z \in queued : After(x, y) /\ After(y, z) => After(x, z)
    BY <2>2
  <2> HIDE DEF After
  <2> QED  BY <2>1, <2>3, <2>4, <2>5, <2>6 DEF Orders
<1>3. \A x \in queued : x \in Int \X Int /\ x[1] \in Int /\ x[2] \in Int /\ x[1] < x[2]
  OBVIOUS
<1>4. \A x, y \in queued : <<x, y>> \in earlier => x[1] <= y[1]
  BY <1>3
<1>5. Coalesce(spans) = FoldLeft(MergeSpan, empty, q)
  BY DEF Coalesce
<1>6. UNION {Span(s) : s \in spans} = UNION {Span(s) : s \in queued}
  OBVIOUS
<1> HIDE DEF queued, earlier, N, q
<1>7. /\ q \in Seq(queued) /\ DOMAIN q = 1 .. N
      /\ \A k \in 1 .. N : q[k] \in queued
      /\ \A x \in queued : \E k \in 1 .. N : q[k] = x
      /\ \A j, k \in 1 .. N : j <= k => <<q[j], q[k]>> \in earlier
  BY <1>1, <1>2, InOrderLists DEF q, N
<1>8. empty \in Runs /\ \A k \in 1 .. N : \A w \in Runs : MergeSpan(w, q[k]) \in Runs
  BY <1>3, <1>7, MergeSpanTyped, EmptyCovering DEF Covering, IntervalSet
<1> HIDE DEF empty

<1> DEFINE op == [k \in 1 .. N |-> [w \in Runs |-> MergeSpan(w, q[k])]]
           IsFold(f) == f = [s \in SUBSET (1 .. N) |->
                               IF s = {} THEN empty ELSE MergeSpan(f[s \ {Max(s)}], q[Max(s)])]
           fold == CHOOSE f : IsFold(f)
<1>f1. Steps(N, Runs, empty, op)
  BY <1>1, <1>8 DEF Steps
<1>f2. PICK f : Folded(f, N, Runs, empty, op)
  <2> HIDE DEF op
  <2> QED  BY <1>f1, FoldLeftExists
<1>f3. IsFold(f)
  <2>1. f \in [SUBSET (1 .. N) -> Runs] /\ f[{}] = empty
    BY <1>f2 DEF Folded
  <2>2. ASSUME NEW s \in SUBSET (1 .. N), s # {} PROVE f[s] = MergeSpan(f[s \ {Max(s)}], q[Max(s)])
    <3>1. Max(s) \in s
      BY <1>1, <2>2, LastOfSome
    <3>2. f[s] = op[Max(s)][f[s \ {Max(s)}]] /\ f[s \ {Max(s)}] \in Runs
      <4> HIDE DEF op
      <4> QED  BY <1>f2, <2>2, <3>1 DEF Folded
    <3> QED  BY <3>1, <3>2
  <2> QED  BY <2>1, <2>2
<1>f4. IsFold(fold)
  <2> HIDE DEF IsFold
  <2> QED  BY <1>f3 DEF fold
<1> HIDE DEF fold
<1>f5. fold[{}] = empty /\ 1 .. 0 = {}
  BY <1>f4
<1>f6. ASSUME NEW k \in 1 .. N PROVE fold[1 .. k] = MergeSpan(fold[1 .. k - 1], q[k])
  <2>1. 1 .. k \in SUBSET (1 .. N) /\ 1 .. k # {} /\ Max(1 .. k) = k /\ (1 .. k) \ {k} = 1 .. k - 1
    BY <1>1, FoldStages
  <2> QED  BY <1>f4, <2>1
<1> HIDE DEF op, IsFold

<1>9. FoldLeft(MergeSpan, empty, q) = fold[1 .. N]
  BY <1>7 DEF FoldLeft, MapThenFoldSet, fold, IsFold
<1> DEFINE OK(k) == Covering(fold[1 .. k], UpToSet(k)) /\ \A l \in k + 1 .. N : Reaches(fold[1 .. k], q[l][1])
           T == {k \in 0 .. N : OK(k)}
<1>10. 0 \in T
  <2>1. fold[1 .. 0] = <<>>
    BY <1>f5 DEF empty
  <2>2. UpToSet(0) = {}
    OBVIOUS
  <2> HIDE DEF UpToSet
  <2>3. OK(0)
    BY <2>1, <2>2, EmptyCovering
  <2> HIDE DEF OK
  <2> QED  BY <1>1, <2>3
<1>11. ASSUME NEW k \in 1 .. N, k - 1 \in T PROVE k \in T
  <2> DEFINE s == fold[1 .. k - 1]
             t == fold[1 .. k]
             j == k - 1
  <2>1. t = MergeSpan(s, q[k]) /\ Covering(s, UpToSet(j)) /\ Reaches(s, q[k][1])
    <3>1. k \in j + 1 .. N
      BY <1>1
    <3> QED  BY <1>11, <1>f6, <3>1
  <2>2. q[k] \in Int \X Int /\ q[k][1] < q[k][2]
    BY <1>3, <1>7
  <2> HIDE DEF s, t
  <2>3. Covering(t, UpToSet(j) \cup Span(q[k])) /\ Reaches(t, q[k][1]) /\ t # <<>>
    <3> HIDE DEF UpToSet
    <3> QED  BY <2>1, <2>2, MergeSpanCovers
  <2>4. UpToSet(k) = UpToSet(j) \cup Span(q[k])
    <3>1. 1 .. k = (1 .. j) \cup {k}
      BY <1>1
    <3> HIDE DEF Span, j
    <3> QED  BY <3>1
  <2>5. ASSUME NEW l \in k + 1 .. N PROVE Reaches(t, q[l][1])
    <3>1. l \in 1 .. N /\ k <= l
      BY <1>1
    <3>2. q[k][1] <= q[l][1] /\ q[k][1] \in Int /\ q[l][1] \in Int
      BY <1>3, <1>4, <1>7, <3>1
    <3>3. Last(t) \in Int \X Int
      BY <2>3, LastRun DEF Covering, IntervalSet
    <3> QED  BY <2>3, <3>2, <3>3 DEF Reaches
  <2> HIDE DEF UpToSet
  <2>6. OK(k)
    BY <2>3, <2>4, <2>5 DEF t
  <2>7. k \in 0 .. N
    BY <1>1
  <2> HIDE DEF OK
  <2> QED  BY <2>6, <2>7
<1> HIDE DEF T
<1>12. N \in T
  <2>1. 0 .. N \subseteq T
    BY <1>1, <1>10, <1>11, UpTo
  <2> QED  BY <1>1, <2>1
<1>13. Covering(fold[1 .. N], UpToSet(N))
  BY <1>12 DEF T
<1>14. UpToSet(N) = UNION {Span(s) : s \in queued}
  <2> HIDE DEF Span
  <2> QED  BY <1>7
<1> QED  BY <1>5, <1>6, <1>9, <1>13, <1>14

LEMMA LastOf ==
  ASSUME NEW s \in Runs, NEW n \in Nat, Len(s) = n + 1
  PROVE  s # <<>> /\ Last(s) = s[Len(s)]
<1>1. Len(s) # 0
  OBVIOUS
<1> QED  BY <1>1, LastRun

LEMMA PushPointCovers ==
  ASSUME NEW X, NEW s, Covering(s, X), NEW p \in Int, EndsBy(s, p)
  PROVE  Covering(PushPoint(s, p), X \cup {p}) /\ EndsBy(PushPoint(s, p), p + 1)
<1> DEFINE t == PushPoint(s, p)
           b == p + 1
<1>1. IntervalSet(s) /\ s \in Runs /\ b \in Int /\ p < b /\ Len(s) \in Nat
  BY RunTyped DEF Covering, IntervalSet
<1>2. \A x \in Int : p <= x /\ x < b <=> x = p
  OBVIOUS
<1> HIDE DEF b
<1>3. CASE s # <<>> /\ Last(s)[2] = p
  <2>1. t = Extended(s, b)
    BY <1>3 DEF PushPoint, b
  <2>2. /\ Last(s) \in Int \X Int /\ Last(s) = s[Len(s)] /\ Len(s) \in 1 .. Len(s)
        /\ Len(s) \in Nat \ {0}
    BY <1>1, <1>3, LastRun
  <2>3. Last(s)[1] <= p /\ p <= Last(s)[2] /\ Last(s)[2] <= b
    <3>1. Last(s)[1] < Last(s)[2] /\ Last(s)[1] \in Int
      BY <1>1, <2>2 DEF IntervalSet, Ascending
    <3> QED  BY <1>1, <1>3, <3>1
  <2> HIDE DEF t
  <2>4. IntervalSet(t) /\ Len(t) = Len(s) /\ t[Len(t)] = Run(Last(s)[1], b) /\ Grown(t, s, p, b)
    BY <1>1, <1>3, <2>1, <2>3, Lengthened
  <2>5. t \in Runs /\ Len(t) # 0
    BY <2>2, <2>4 DEF IntervalSet
  <2>6. Last(t)[2] = b
    BY <2>4, <2>5, LastRun DEF Run
  <2>7. EndsBy(t, b)
    BY <1>1, <2>4, <2>6, EndsByLast
  <2> QED  BY <1>2, <2>4, <2>7 DEF Covering, Grown, t, b
<1>4. CASE ~(s # <<>> /\ Last(s)[2] = p)
  <2>1. t = Append(s, Run(p, b))
    BY <1>4 DEF PushPoint, b
  <2> HIDE DEF t
  <2>2. IntervalSet(t) /\ Len(t) = Len(s) + 1 /\ t[Len(t)] = Run(p, b) /\ Grown(t, s, p, b)
    BY <1>1, <2>1, Appended
  <2>3. t \in Runs /\ Len(t) # 0
    BY <1>1, <2>2 DEF IntervalSet
  <2>4. Last(t)[2] = b
    BY <2>2, <2>3, LastRun DEF Run
  <2>5. EndsBy(t, b)
    BY <1>1, <2>2, <2>4, EndsByLast
  <2> QED  BY <1>2, <2>2, <2>5 DEF Covering, Grown, t, b
<1> QED  BY <1>3, <1>4

LEMMA PushPointTyped ==
  ASSUME NEW s \in Runs, NEW p \in Int
  PROVE  PushPoint(s, p) \in Runs
<1>1. Run(p, p + 1) \in Int \X Int
  BY DEF Run
<1> QED  BY <1>1, ExtendedTyped, AppendTyped DEF PushPoint

LEMMA NumbersOrdered ==
  ASSUME NEW points \in SUBSET Int
  PROVE  Orders({p \in points \X points : p[1] <= p[2]}, points)
BY DEF Orders

\* Points taken in order are merged into the runs that cover them.
LEMMA OfPointsCovers ==
  ASSUME NEW points \in SUBSET Int, IsFiniteSet(points)
  PROVE  Covering(OfPoints(points), points)
<1> DEFINE earlier == {p \in points \X points : p[1] <= p[2]}
           q == InOrder(points, earlier)
           N == Cardinality(points)
           UpToSet(k) == {q[j] : j \in 1 .. k}
           empty == <<>>
<1>1. N \in Nat
  BY FS_CardinalityType
<1>2. Orders(earlier, points)
  BY NumbersOrdered
<1>3. \A x, y \in points : <<x, y>> \in earlier => x <= y
  OBVIOUS
<1>4. OfPoints(points) = FoldLeft(PushPoint, empty, q)
  BY DEF OfPoints
<1> HIDE DEF earlier, N, q
<1>5. /\ q \in Seq(points) /\ DOMAIN q = 1 .. N
      /\ \A k \in 1 .. N : q[k] \in points
      /\ \A x \in points : \E k \in 1 .. N : q[k] = x
      /\ \A j, k \in 1 .. N : j <= k => <<q[j], q[k]>> \in earlier
      /\ \A j, k \in 1 .. N : q[j] = q[k] => j = k
  BY <1>1, <1>2, InOrderLists DEF q, N
<1>6. \A k \in 1 .. N : q[k] \in Int
  BY <1>5
<1>7. empty \in Runs /\ \A k \in 1 .. N : \A w \in Runs : PushPoint(w, q[k]) \in Runs
  BY <1>6, PushPointTyped, EmptyCovering DEF Covering, IntervalSet
<1> HIDE DEF empty
<1> DEFINE op == [k \in 1 .. N |-> [w \in Runs |-> PushPoint(w, q[k])]]
           IsFold(f) == f = [s \in SUBSET (1 .. N) |->
                               IF s = {} THEN empty ELSE PushPoint(f[s \ {Max(s)}], q[Max(s)])]
           fold == CHOOSE f : IsFold(f)
<1>f1. Steps(N, Runs, empty, op)
  BY <1>1, <1>7 DEF Steps
<1>f2. PICK f : Folded(f, N, Runs, empty, op)
  <2> HIDE DEF op
  <2> QED  BY <1>f1, FoldLeftExists
<1>f3. IsFold(f)
  <2>1. f \in [SUBSET (1 .. N) -> Runs] /\ f[{}] = empty
    BY <1>f2 DEF Folded
  <2>2. ASSUME NEW s \in SUBSET (1 .. N), s # {} PROVE f[s] = PushPoint(f[s \ {Max(s)}], q[Max(s)])
    <3>1. Max(s) \in s
      BY <1>1, <2>2, LastOfSome
    <3>2. f[s] = op[Max(s)][f[s \ {Max(s)}]] /\ f[s \ {Max(s)}] \in Runs
      <4> HIDE DEF op
      <4> QED  BY <1>f2, <2>2, <3>1 DEF Folded
    <3> QED  BY <3>1, <3>2
  <2> QED  BY <2>1, <2>2
<1>f4. IsFold(fold)
  <2> HIDE DEF IsFold
  <2> QED  BY <1>f3 DEF fold
<1> HIDE DEF fold
<1>f5. fold[{}] = empty /\ 1 .. 0 = {}
  BY <1>f4
<1>f6. ASSUME NEW k \in 1 .. N PROVE fold[1 .. k] = PushPoint(fold[1 .. k - 1], q[k])
  <2>1. 1 .. k \in SUBSET (1 .. N) /\ 1 .. k # {} /\ Max(1 .. k) = k /\ (1 .. k) \ {k} = 1 .. k - 1
    BY <1>1, FoldStages
  <2> QED  BY <1>f4, <2>1
<1> HIDE DEF op, IsFold
<1>8. FoldLeft(PushPoint, empty, q) = fold[1 .. N]
  BY <1>5 DEF FoldLeft, MapThenFoldSet, fold, IsFold
<1> DEFINE OK(k) == Covering(fold[1 .. k], UpToSet(k)) /\ \A l \in k + 1 .. N : EndsBy(fold[1 .. k], q[l])
           T == {k \in 0 .. N : OK(k)}
<1>9. 0 \in T
  <2>1. fold[1 .. 0] = <<>>
    BY <1>f5 DEF empty
  <2>2. UpToSet(0) = {}
    OBVIOUS
  <2>3. \A a : EndsBy(<<>>, a)
    BY DEF EndsBy
  <2> HIDE DEF UpToSet
  <2>4. OK(0)
    BY <2>1, <2>2, <2>3, EmptyCovering
  <2> HIDE DEF OK
  <2> QED  BY <1>1, <2>4
<1>10. ASSUME NEW k \in 1 .. N, k - 1 \in T PROVE k \in T
  <2> DEFINE s == fold[1 .. k - 1]
             t == fold[1 .. k]
             j == k - 1
  <2>1. t = PushPoint(s, q[k]) /\ Covering(s, UpToSet(j)) /\ EndsBy(s, q[k])
    <3>1. k \in j + 1 .. N
      BY <1>1
    <3> QED  BY <1>10, <1>f6, <3>1
  <2> HIDE DEF s, t
  <2>2. Covering(t, UpToSet(j) \cup {q[k]}) /\ EndsBy(t, q[k] + 1)
    <3> HIDE DEF UpToSet
    <3> QED  BY <1>6, <2>1, PushPointCovers
  <2>3. UpToSet(k) = UpToSet(j) \cup {q[k]}
    <3>1. 1 .. k = (1 .. j) \cup {k}
      BY <1>1
    <3> HIDE DEF j
    <3> QED  BY <3>1
  <2>4. ASSUME NEW l \in k + 1 .. N PROVE EndsBy(t, q[l])
    <3>1. l \in 1 .. N /\ k <= l /\ k # l
      BY <1>1
    <3>2. q[k] <= q[l] /\ q[k] # q[l]
      BY <1>3, <1>5, <3>1
    <3>3. q[k] + 1 <= q[l]
      BY <1>6, <3>1, <3>2
    <3>4. \A x \in 1 .. Len(t) : t[x][2] \in Int
      BY <2>2, RunTyped DEF Covering, IntervalSet
    <3> QED  BY <1>6, <2>2, <3>1, <3>3, <3>4 DEF EndsBy
  <2> HIDE DEF UpToSet
  <2>5. OK(k)
    BY <2>2, <2>3, <2>4 DEF t
  <2>6. k \in 0 .. N
    BY <1>1
  <2> HIDE DEF OK
  <2> QED  BY <2>5, <2>6
<1> HIDE DEF T
<1>11. N \in T
  <2>1. 0 .. N \subseteq T
    BY <1>1, <1>9, <1>10, UpTo
  <2> QED  BY <1>1, <2>1
<1>12. Covering(fold[1 .. N], UpToSet(N))
  BY <1>11 DEF T
<1>13. UpToSet(N) = points
  <2>1. \A k \in 1 .. N : q[k] \in points
    BY <1>5
  <2>2. \A x \in points : \E k \in 1 .. N : x = q[k]
    BY <1>5
  <2> QED  BY <2>1, <2>2, Zenon
<1> QED  BY <1>4, <1>8, <1>12, <1>13

\* What a run passed of either set has in common with the other set.
Passed(a, b, i, j, p) ==
  \E x \in 1 .. Len(a), y \in 1 .. Len(b) : (x < i \/ y < j) /\ Covers(a[x], p) /\ Covers(b[y], p)

Greater(x, y) == IF x > y THEN x ELSE y

\* The runs found so far, at the runs looked at.
Meeting(a, b, i, j, s) ==
  /\ IntervalSet(s) /\ \A p \in Int : p \in Positions(s) <=> Passed(a, b, i, j, p)
  /\ i <= Len(a) /\ j <= Len(b) => EndsBy(s, Greater(a[i][1], b[j][1]))

LEMMA MaybeAppended ==
  ASSUME NEW s, IntervalSet(s), NEW a \in Int, NEW b \in Int, EndsBy(s, a)
  PROVE  LET t == IF a < b THEN Append(s, Run(a, b)) ELSE s
         IN  IntervalSet(t) /\ Grown(t, s, a, b) /\ \A c \in Int : a <= c /\ b <= c => EndsBy(t, c)
<1>1. s \in Runs /\ Len(s) \in Nat /\ \A k \in 1 .. Len(s) : s[k][2] \in Int
  BY RunTyped DEF IntervalSet
<1>2. \A c \in Int : a <= c => EndsBy(s, c)
  BY <1>1 DEF EndsBy
<1>3. CASE a < b
  <2> DEFINE t == Append(s, Run(a, b))
  <2>1. IntervalSet(t) /\ Len(t) = Len(s) + 1 /\ t[Len(t)] = Run(a, b) /\ Grown(t, s, a, b)
    BY <1>3, Appended
  <2> HIDE DEF t
  <2>2. t \in Runs /\ Len(t) # 0
    BY <1>1, <2>1 DEF IntervalSet
  <2>3. Last(t)[2] = b
    BY <2>1, <2>2, LastRun DEF Run
  <2>4. \A c \in Int : b <= c => EndsBy(t, c)
    BY <2>1, <2>3, EndsByLast
  <2> QED  BY <1>3, <2>1, <2>4 DEF t
<1>4. CASE ~(a < b)
  <2>1. Grown(s, s, a, b)
    <3>1. \A p \in Int : ~(a <= p /\ p < b)
      BY <1>4
    <3> QED  BY <3>1 DEF Grown
  <2> QED  BY <1>2, <1>4, <2>1
<1> QED  BY <1>3, <1>4

LEMMA RunsApart ==
  ASSUME NEW a, IntervalSet(a), NEW i \in 1 .. Len(a), NEW x \in 1 .. Len(a), i < x
  PROVE  a[i][2] <= a[x][1]
<1>1. a \in Runs /\ Ascending(a) /\ Len(a) \in Nat
  BY RunTyped DEF IntervalSet
<1>2. i \in 1 .. x - 1
  BY <1>1
<1> QED  BY <1>1, <1>2 DEF Ascending

\* The run of a that is looked at ends first, or both do and it is passed.
LEMMA Passing ==
  ASSUME NEW a, IntervalSet(a), NEW b, IntervalSet(b), NEW i \in 1 .. Len(a), NEW j \in 1 .. Len(b),
         NEW s, Meeting(a, b, i, j, s), a[i][2] <= b[j][2]
  PROVE  LET start == Greater(a[i][1], b[j][1])
             t == IF start < a[i][2] THEN Append(s, Run(start, a[i][2])) ELSE s
         IN  Meeting(a, b, i + 1, j, t)
<1> DEFINE start == Greater(a[i][1], b[j][1])
           end == a[i][2]
           t == IF start < end THEN Append(s, Run(start, end)) ELSE s
           m == Len(a)
           n == Len(b)
<1>1. /\ a \in Runs /\ b \in Runs /\ m \in Nat /\ n \in Nat /\ i \in Nat /\ j \in Nat
  BY RunTyped DEF IntervalSet
<1>2. /\ \A x \in 1 .. m : a[x][1] \in Int /\ a[x][2] \in Int
      /\ \A x \in 1 .. n : b[x][1] \in Int /\ b[x][2] \in Int
  BY <1>1, RunTyped
<1>3. start \in Int /\ end \in Int /\ a[i][1] <= start /\ b[j][1] <= start /\ (start = a[i][1] \/ start = b[j][1])
  BY <1>2 DEF Greater
<1>c. /\ a[i][1] \in Int /\ a[i][2] \in Int /\ b[j][1] \in Int /\ b[j][2] \in Int
      /\ a[i][2] <= b[j][2]
  BY <1>2
<1>4. a[i][1] < a[i][2] /\ b[j][1] < b[j][2]
  BY <1>1 DEF IntervalSet, Ascending
<1>5. \A x \in 1 .. m : i < x => end <= a[x][1]
  BY RunsApart
<1>6. \A y \in 1 .. n : j < y => b[j][2] <= b[y][1]
  BY RunsApart
<1>7. EndsBy(s, start) /\ IntervalSet(s)
  BY <1>1 DEF Meeting
<1> HIDE DEF start, end, m, n
<1>8. IntervalSet(t) /\ Grown(t, s, start, end) /\ \A c \in Int : start <= c /\ end <= c => EndsBy(t, c)
  BY <1>3, <1>7, MaybeAppended
<1> HIDE DEF t
<1>9. ASSUME NEW p \in Int PROVE p \in Positions(t) <=> Passed(a, b, i + 1, j, p)
  <2> DEFINE Both(x, y) == Covers(a[x], p) /\ Covers(b[y], p)
  <2>1. Both(i, j) <=> start <= p /\ p < end
    <3>1. p < a[i][2] => p < b[j][2]
      BY <1>c
    <3> QED  BY <1>c, <1>3, <3>1 DEF Covers, end
  <2>2. \A y \in 1 .. n : j < y => ~Both(i, y)
    <3> SUFFICES ASSUME NEW y \in 1 .. n, j < y, Both(i, y) PROVE FALSE
      OBVIOUS
    <3>1. b[j][2] <= b[y][1] /\ b[y][1] <= p /\ p < a[i][2] /\ a[i][2] <= b[j][2]
      BY <1>6 DEF Covers
    <3>2. b[y][1] \in Int
      BY <1>2
    <3> QED  BY <1>c, <3>1, <3>2
  <2> HIDE DEF Both
  <2>3. \A x \in 1 .. m : x < i + 1 <=> x < i \/ x = i
    BY <1>1
  <2>4. \A y \in 1 .. n : y < j \/ y = j \/ j < y
    BY <1>1
  <2>5. Passed(a, b, i + 1, j, p) <=> \E x \in 1 .. m, y \in 1 .. n : (x < i \/ x = i \/ y < j) /\ Both(x, y)
    <3>1. Passed(a, b, i + 1, j, p) <=> \E x \in 1 .. m, y \in 1 .. n : (x < i + 1 \/ y < j) /\ Both(x, y)
      BY DEF Passed, Both, m, n
    <3> QED  BY <2>3, <3>1
  <2>6. Passed(a, b, i, j, p) <=> \E x \in 1 .. m, y \in 1 .. n : (x < i \/ y < j) /\ Both(x, y)
    BY DEF Passed, Both, m, n
  <2>7. p \in Positions(s) <=> Passed(a, b, i, j, p)
    BY DEF Meeting
  <2>8. i \in 1 .. m /\ j \in 1 .. n
    BY DEF m, n
  <2>9. p \in Positions(t) <=> p \in Positions(s) \/ Both(i, j)
    BY <1>8, <2>1 DEF Grown
  <2>10. (\E x \in 1 .. m, y \in 1 .. n : (x < i \/ x = i \/ y < j) /\ Both(x, y))
           <=> (\E x \in 1 .. m, y \in 1 .. n : (x < i \/ y < j) /\ Both(x, y)) \/ Both(i, j)
    BY <2>2, <2>4, <2>8
  <2> QED  BY <2>5, <2>6, <2>7, <2>9, <2>10
<1>10. ASSUME i + 1 <= m, j <= n PROVE EndsBy(t, Greater(a[i + 1][1], b[j][1]))
  <2> DEFINE k == i + 1
             c == Greater(a[k][1], b[j][1])
  <2>1. k \in 1 .. m /\ i < k /\ j \in 1 .. n /\ i \in 1 .. m
    BY <1>1, <1>10 DEF m, n
  <2> HIDE DEF k
  <2>2. end <= a[k][1] /\ a[k][1] \in Int /\ b[j][1] \in Int /\ a[i][1] <= end
    BY <1>2, <1>4, <1>5, <2>1 DEF end
  <2>3. c \in Int /\ a[k][1] <= c /\ b[j][1] <= c
    BY <2>2 DEF Greater
  <2> HIDE DEF c
  <2>4. end <= c
    BY <1>3, <2>2, <2>3
  <2>5. start <= c
    BY <1>2, <1>3, <2>1, <2>2, <2>3, <2>4
  <2> QED  BY <1>8, <2>3, <2>4, <2>5 DEF c, k
<1> QED  BY <1>8, <1>9, <1>10 DEF Meeting, t, start, end, m, n

LEMMA MeetingSymmetric ==
  ASSUME NEW a, IntervalSet(a), NEW b, IntervalSet(b), NEW i \in Nat \ {0}, NEW j \in Nat \ {0},
         NEW s, Meeting(a, b, i, j, s)
  PROVE  Meeting(b, a, j, i, s)
<1>1. \A p \in Int : Passed(a, b, i, j, p) <=> Passed(b, a, j, i, p)
  BY DEF Passed
<1>2. ASSUME i <= Len(a), j <= Len(b)
      PROVE  Greater(a[i][1], b[j][1]) = Greater(b[j][1], a[i][1])
  <2>1. a \in Runs /\ b \in Runs /\ Len(a) \in Nat /\ Len(b) \in Nat
    BY RunTyped DEF IntervalSet
  <2>2. i \in 1 .. Len(a) /\ j \in 1 .. Len(b)
    BY <1>2, <2>1
  <2>3. a[i][1] \in Int /\ b[j][1] \in Int
    BY <2>1, <2>2, RunTyped
  <2> QED  BY <2>3 DEF Greater
<1> QED  BY <1>1, <1>2 DEF Meeting

Passes == [i : Nat \ {0}, j : Nat \ {0}, out : Runs]

Met(a, b, k, s) ==
  /\ s \in Passes /\ s.i <= Len(a) + 1 /\ s.j <= Len(b) + 1
  /\ Meeting(a, b, s.i, s.j, s.out)
  /\ s.i + s.j = k + 2 \/ s.i > Len(a) \/ s.j > Len(b)

PassedFirst(a, b, s) ==
  [i |-> s.i + 1, j |-> s.j,
   out |-> LET start == Greater(a[s.i][1], b[s.j][1])
           IN  IF start < a[s.i][2] THEN Append(s.out, Run(start, a[s.i][2])) ELSE s.out]

PassedSecond(a, b, s) ==
  [i |-> s.i, j |-> s.j + 1,
   out |-> LET start == Greater(b[s.j][1], a[s.i][1])
           IN  IF start < b[s.j][2] THEN Append(s.out, Run(start, b[s.j][2])) ELSE s.out]

\* Either set is passed the same way.
LEMMA PassRunIs ==
  ASSUME NEW a \in Runs, NEW b \in Runs, NEW s \in Passes
  PROVE  /\ s.i > Len(a) \/ s.j > Len(b) => PassRun(a, b, s) = s
         /\ s.i <= Len(a) /\ s.j <= Len(b) /\ a[s.i][2] < b[s.j][2] => PassRun(a, b, s) = PassedFirst(a, b, s)
         /\ s.i <= Len(a) /\ s.j <= Len(b) /\ ~(a[s.i][2] < b[s.j][2]) =>
              PassRun(a, b, s) = PassedSecond(a, b, s) /\ b[s.j][2] <= a[s.i][2]
         /\ s.i <= Len(a) /\ s.j <= Len(b) => s.i \in 1 .. Len(a) /\ s.j \in 1 .. Len(b)
<1> DEFINE i == s.i
           j == s.j
           o == s.out
<1>1. i \in Nat \ {0} /\ j \in Nat \ {0} /\ Len(a) \in Nat /\ Len(b) \in Nat
  BY RunTyped DEF Passes
<1>2. CASE i > Len(a) \/ j > Len(b)
  <2>1. ~(i <= Len(a) /\ j <= Len(b))
    BY <1>1, <1>2
  <2> QED  BY <1>2, <2>1 DEF PassRun
<1>3. CASE ~(i > Len(a) \/ j > Len(b))
  <2>1. i \in 1 .. Len(a) /\ j \in 1 .. Len(b)
    BY <1>1, <1>3
  <2> DEFINE a1 == a[i][1]
             a2 == a[i][2]
             b1 == b[j][1]
             b2 == b[j][2]
  <2>2. a1 \in Int /\ a2 \in Int /\ b1 \in Int /\ b2 \in Int
    BY <2>1, RunTyped
  <2> DEFINE start == IF a1 > b1 THEN a1 ELSE b1
             end == IF a2 < b2 THEN a2 ELSE b2
             new == IF start < end THEN Append(o, Run(start, end)) ELSE o
  <2>3. PassRun(a, b, s) = IF a2 < b2 THEN [i |-> i + 1, j |-> j, out |-> new]
                           ELSE [i |-> i, j |-> j + 1, out |-> new]
    BY <1>3 DEF PassRun
  <2>4. start = Greater(a1, b1) /\ start = Greater(b1, a1)
    BY <2>2 DEF Greater
  <2>5. CASE a2 < b2
    <3>1. end = a2
      BY <2>5
    <3> HIDE DEF a1, a2, b1, b2, start, end
    <3>2. PassRun(a, b, s) = [i |-> i + 1, j |-> j,
                              out |-> IF Greater(a1, b1) < a2 THEN Append(o, Run(Greater(a1, b1), a2)) ELSE o]
      BY <2>3, <2>4, <2>5, <3>1
    <3> QED  BY <1>3, <2>1, <2>5, <3>2 DEF PassedFirst, a1, a2, b1, b2
  <2>6. CASE ~(a2 < b2)
    <3>1. end = b2 /\ b2 <= a2
      BY <2>2, <2>6
    <3> HIDE DEF a1, a2, b1, b2, start, end
    <3>2. PassRun(a, b, s) = [i |-> i, j |-> j + 1,
                              out |-> IF Greater(b1, a1) < b2 THEN Append(o, Run(Greater(b1, a1), b2)) ELSE o]
      BY <2>3, <2>4, <2>6, <3>1
    <3> QED  BY <1>3, <2>1, <2>6, <3>1, <3>2 DEF PassedSecond, a1, a2, b1, b2
  <2> QED  BY <2>5, <2>6
<1> QED  BY <1>2, <1>3

LEMMA PassRunTyped ==
  ASSUME NEW a \in Runs, NEW b \in Runs, NEW s \in Passes
  PROVE  PassRun(a, b, s) \in Passes
<1>1. s.i \in Nat \ {0} /\ s.j \in Nat \ {0} /\ s.out \in Runs
  BY DEF Passes
<1>2. \A x \in Int, y \in Int : Append(s.out, Run(x, y)) \in Runs
  BY <1>1, AppendTyped DEF Run
<1>3. CASE s.i > Len(a) \/ s.j > Len(b)
  BY <1>3, PassRunIs
<1>4. CASE s.i <= Len(a) /\ s.j <= Len(b)
  <2>1. s.i \in 1 .. Len(a) /\ s.j \in 1 .. Len(b)
    BY <1>4, PassRunIs
  <2>2. a[s.i][1] \in Int /\ a[s.i][2] \in Int /\ b[s.j][1] \in Int /\ b[s.j][2] \in Int
    BY <2>1, RunTyped
  <2>3. \A x, y \in Int : Greater(x, y) \in Int
    BY DEF Greater
  <2>4. PassedFirst(a, b, s) \in Passes
    <3> DEFINE start == Greater(a[s.i][1], b[s.j][1])
               new == IF start < a[s.i][2] THEN Append(s.out, Run(start, a[s.i][2])) ELSE s.out
    <3>1. start \in Int
      BY <2>2, <2>3
    <3> HIDE DEF start
    <3>2. new \in Runs
      BY <1>1, <1>2, <2>2, <3>1
    <3>3. PassedFirst(a, b, s) = [i |-> s.i + 1, j |-> s.j, out |-> new]
      BY DEF PassedFirst, start
    <3> HIDE DEF new
    <3> QED  BY <1>1, <3>2, <3>3 DEF Passes
  <2>5. PassedSecond(a, b, s) \in Passes
    <3> DEFINE start == Greater(b[s.j][1], a[s.i][1])
               new == IF start < b[s.j][2] THEN Append(s.out, Run(start, b[s.j][2])) ELSE s.out
    <3>1. start \in Int
      BY <2>2, <2>3
    <3> HIDE DEF start
    <3>2. new \in Runs
      BY <1>1, <1>2, <2>2, <3>1
    <3>3. PassedSecond(a, b, s) = [i |-> s.i, j |-> s.j + 1, out |-> new]
      BY DEF PassedSecond, start
    <3> HIDE DEF new
    <3> QED  BY <1>1, <3>2, <3>3 DEF Passes
  <2> QED  BY <1>4, <2>4, <2>5, PassRunIs
<1> QED  BY <1>1, <1>3, <1>4, RunTyped

LEMMA PassRunMeets ==
  ASSUME NEW a, IntervalSet(a), NEW b, IntervalSet(b), NEW k \in Nat, NEW s, Met(a, b, k, s)
  PROVE  Met(a, b, k + 1, PassRun(a, b, s))
<1> DEFINE i == s.i
           j == s.j
           t == PassRun(a, b, s)
<1>1. /\ a \in Runs /\ b \in Runs /\ s \in Passes
      /\ i \in Nat \ {0} /\ j \in Nat \ {0} /\ Len(a) \in Nat /\ Len(b) \in Nat
  BY RunTyped DEF IntervalSet, Met, Passes
<1>2. /\ Meeting(a, b, i, j, s.out) /\ i <= Len(a) + 1 /\ j <= Len(b) + 1
      /\ i + j = k + 2 \/ i > Len(a) \/ j > Len(b)
  BY DEF Met
<1>3. t \in Passes
  BY <1>1, PassRunTyped
<1>4. CASE i > Len(a) \/ j > Len(b)
  <2>1. t = s
    BY <1>1, <1>4, PassRunIs
  <2> QED  BY <1>4, <2>1 DEF Met
<1>5. CASE i <= Len(a) /\ j <= Len(b)
  <2>1. i \in 1 .. Len(a) /\ j \in 1 .. Len(b)
    BY <1>1, <1>5, PassRunIs
  <2>2. i + j = k + 2
    BY <1>1, <1>2, <1>5
  <2>3. CASE a[i][2] < b[j][2]
    <3>1. t = PassedFirst(a, b, s)
      BY <1>1, <1>5, <2>3, PassRunIs
    <3>2. t.i = i + 1 /\ t.j = j
      BY <3>1 DEF PassedFirst
    <3>3. Meeting(a, b, i + 1, j, t.out)
      <4>1. a[i][2] <= b[j][2]
        <5>1. a[i][2] \in Int /\ b[j][2] \in Int
          BY <1>1, <2>1, RunTyped
        <5> QED  BY <2>3, <5>1
      <4> DEFINE start == Greater(a[i][1], b[j][1])
                 new == IF start < a[i][2] THEN Append(s.out, Run(start, a[i][2])) ELSE s.out
      <4>2. Meeting(a, b, i + 1, j, new)
        BY <1>2, <2>1, <4>1, Passing
      <4>3. t.out = new
        BY <3>1 DEF PassedFirst
      <4> QED  BY <4>2, <4>3
    <3> QED  BY <1>1, <1>2, <1>3, <1>5, <2>2, <3>2, <3>3 DEF Met
  <2>4. CASE ~(a[i][2] < b[j][2])
    <3>1. t = PassedSecond(a, b, s) /\ b[j][2] <= a[i][2]
      BY <1>1, <1>5, <2>4, PassRunIs
    <3>2. t.i = i /\ t.j = j + 1
      BY <3>1 DEF PassedSecond
    <3>3. Meeting(b, a, j + 1, i, t.out)
      <4>1. Meeting(b, a, j, i, s.out)
        BY <1>1, <1>2, MeetingSymmetric
      <4> DEFINE start == Greater(b[j][1], a[i][1])
                 new == IF start < b[j][2] THEN Append(s.out, Run(start, b[j][2])) ELSE s.out
      <4>2. Meeting(b, a, j + 1, i, new)
        BY <2>1, <3>1, <4>1, Passing
      <4>3. t.out = new
        BY <3>1 DEF PassedSecond
      <4> QED  BY <4>2, <4>3
    <3>4. Meeting(a, b, i, j + 1, t.out)
      <4>1. j + 1 \in Nat \ {0}
        BY <1>1
      <4> QED  BY <1>1, <3>3, <4>1, MeetingSymmetric
    <3> QED  BY <1>1, <1>2, <1>3, <1>5, <2>2, <3>2, <3>4 DEF Met
  <2> QED  BY <2>3, <2>4
<1> QED  BY <1>1, <1>4, <1>5

\* The intersection of two interval sets.
LEMMA IntersectCovers ==
  ASSUME NEW a, IntervalSet(a), NEW b, IntervalSet(b)
  PROVE  Covering(Intersect(a, b), Positions(a) \cap Positions(b))
<1> DEFINE N == Len(a) + Len(b)
           first == [i |-> 1, j |-> 1, out |-> <<>>]
           q == [k \in 1 .. N |-> k]
           step(s, k) == PassRun(a, b, s)
<1>1. N \in Nat
  BY RunTyped DEF IntervalSet
<1>2. a \in Runs /\ b \in Runs /\ Len(a) \in Nat /\ Len(b) \in Nat
  BY RunTyped DEF IntervalSet
<1>3. Intersect(a, b) = FoldLeft(step, first, q).out
  BY DEF Intersect
<1>4. DOMAIN q = 1 .. N
  OBVIOUS
<1>5. Met(a, b, 0, first)
  <2> DEFINE empty == <<>>
  <2>1. empty \in Runs /\ IntervalSet(empty) /\ Positions(empty) = {} /\ \A c : EndsBy(empty, c)
    <3>1. empty \in Runs
      BY EmptyCovering DEF Covering, IntervalSet
    <3> QED  BY <3>1, EmptyCovering, PositionsInt DEF Covering, EndsBy
  <2> HIDE DEF empty
  <2>2. first = [i |-> 1, j |-> 1, out |-> empty]
    BY DEF empty
  <2> HIDE DEF first
  <2>3. first \in Passes /\ first.i = 1 /\ first.j = 1 /\ first.out = empty
    BY <2>1, <2>2 DEF Passes
  <2>4. \A p \in Int : ~Passed(a, b, 1, 1, p)
    BY <1>2 DEF Passed
  <2>5. Meeting(a, b, 1, 1, empty)
    BY <2>1, <2>4 DEF Meeting
  <2> QED  BY <1>2, <2>3, <2>5 DEF Met
<1>6. first \in Passes /\ \A k \in 1 .. N : \A w \in Passes : PassRun(a, b, w) \in Passes
  BY <1>2, <1>5, PassRunTyped DEF Met
<1>7. \A k \in 1 .. N : q[k] = k
  OBVIOUS
<1> HIDE DEF N, first, q
<1> DEFINE op == [k \in 1 .. N |-> [w \in Passes |-> PassRun(a, b, w)]]
           IsFold(f) == f = [s \in SUBSET (1 .. N) |->
                               IF s = {} THEN first ELSE PassRun(a, b, f[s \ {Max(s)}])]
           fold == CHOOSE f : IsFold(f)
<1>f1. Steps(N, Passes, first, op)
  BY <1>1, <1>6 DEF Steps
<1>f2. PICK f : Folded(f, N, Passes, first, op)
  <2> HIDE DEF op
  <2> QED  BY <1>f1, FoldLeftExists
<1>f3. IsFold(f)
  <2>1. f \in [SUBSET (1 .. N) -> Passes] /\ f[{}] = first
    BY <1>f2 DEF Folded
  <2>2. ASSUME NEW s \in SUBSET (1 .. N), s # {} PROVE f[s] = PassRun(a, b, f[s \ {Max(s)}])
    <3>1. Max(s) \in s
      BY <1>1, <2>2, LastOfSome
    <3>2. f[s] = op[Max(s)][f[s \ {Max(s)}]] /\ f[s \ {Max(s)}] \in Passes
      <4> HIDE DEF op
      <4> QED  BY <1>f2, <2>2, <3>1 DEF Folded
    <3> QED  BY <3>1, <3>2
  <2> QED  BY <2>1, <2>2
<1>f4. IsFold(fold)
  <2> HIDE DEF IsFold
  <2> QED  BY <1>f3 DEF fold
<1> HIDE DEF fold
<1>f5. fold[{}] = first /\ 1 .. 0 = {}
  BY <1>f4
<1>f6. ASSUME NEW k \in 1 .. N PROVE fold[1 .. k] = PassRun(a, b, fold[1 .. k - 1])
  <2>1. 1 .. k \in SUBSET (1 .. N) /\ 1 .. k # {} /\ Max(1 .. k) = k /\ (1 .. k) \ {k} = 1 .. k - 1
    BY <1>1, FoldStages
  <2> QED  BY <1>f4, <2>1
<1> HIDE DEF op, IsFold
<1>8. FoldLeft(step, first, q) = fold[1 .. N]
  BY <1>4 DEF FoldLeft, MapThenFoldSet, fold, IsFold
<1> HIDE DEF step
<1> DEFINE T == {k \in 0 .. N : Met(a, b, k, fold[1 .. k])}
<1>9. 0 \in T
  BY <1>1, <1>5, <1>f5
<1>10. ASSUME NEW k \in 1 .. N, k - 1 \in T PROVE k \in T
  <2> DEFINE j == k - 1
             s == fold[1 .. j]
  <2>1. j \in Nat /\ j + 1 = k /\ k \in 0 .. N /\ fold[1 .. k] = PassRun(a, b, s) /\ Met(a, b, j, s)
    BY <1>1, <1>10, <1>f6
  <2> HIDE DEF j, s
  <2>2. Met(a, b, j + 1, PassRun(a, b, s))
    BY <2>1, PassRunMeets
  <2> QED  BY <2>1, <2>2
<1> HIDE DEF T
<1>11. N \in T
  <2>1. 0 .. N \subseteq T
    BY <1>1, <1>9, <1>10, UpTo
  <2> QED  BY <1>1, <2>1
<1> DEFINE s == fold[1 .. N]
           i == s.i
           j == s.j
<1>12. Met(a, b, N, s)
  BY <1>11 DEF T
<1> HIDE DEF s
<1>13. i > Len(a) \/ j > Len(b)
  <2>1. i \in Nat /\ j \in Nat /\ i <= Len(a) + 1 /\ j <= Len(b) + 1
    BY <1>12 DEF Met, Passes
  <2>2. i + j = Len(a) + Len(b) + 2 \/ i > Len(a) \/ j > Len(b)
    BY <1>12 DEF Met, N
  <2> QED  BY <1>2, <2>1, <2>2
<1>14. i \in Nat /\ j \in Nat
  BY <1>12 DEF Met, Passes
<1>15. ASSUME NEW p \in Int PROVE p \in Positions(s.out) <=> p \in Positions(a) /\ p \in Positions(b)
  <2>1. p \in Positions(s.out) <=> Passed(a, b, i, j, p)
    BY <1>12 DEF Met, Meeting
  <2>2. \A x \in 1 .. Len(a), y \in 1 .. Len(b) : x < i \/ y < j
    BY <1>2, <1>13, <1>14
  <2>3. p \in Positions(a) <=> \E x \in 1 .. Len(a) : Covers(a[x], p)
    BY <1>2, Covered
  <2>4. p \in Positions(b) <=> \E x \in 1 .. Len(b) : Covers(b[x], p)
    BY <1>2, Covered
  <2>5. Passed(a, b, i, j, p) <=> \E x \in 1 .. Len(a), y \in 1 .. Len(b) : Covers(a[x], p) /\ Covers(b[y], p)
    <3> HIDE DEF i, j
    <3> QED  BY <2>2 DEF Passed
  <2> QED  BY <2>1, <2>3, <2>4, <2>5
<1>16. Intersect(a, b) = s.out /\ IntervalSet(s.out)
  BY <1>3, <1>8, <1>12 DEF Met, Meeting, s
<1> QED  BY <1>15, <1>16 DEF Covering

LEMMA LenPositionsInt ==
  ASSUME NEW s \in Runs
  PROVE  LenPositions(s) \in Int
<1> DEFINE N == Len(s)
           step(sum, run) == sum + run[2] - run[1]
<1>1. N \in Nat /\ DOMAIN s = 1 .. N /\ \A k \in 1 .. N : s[k][1] \in Int /\ s[k][2] \in Int
  BY RunTyped
<1>2. LenPositions(s) = FoldLeft(step, 0, s)
  BY DEF LenPositions
<1> DEFINE first == 0
<1>3. first \in Int /\ \A k \in 1 .. N : \A w \in Int : step(w, s[k]) \in Int
  BY <1>1
<1> HIDE DEF N, first, step
<1> DEFINE op == [k \in 1 .. N |-> [w \in Int |-> step(w, s[k])]]
           IsFold(f) == f = [t \in SUBSET (1 .. N) |->
                               IF t = {} THEN first ELSE step(f[t \ {Max(t)}], s[Max(t)])]
           fold == CHOOSE f : IsFold(f)
<1>f1. Steps(N, Int, first, op)
  BY <1>1, <1>3 DEF Steps
<1>f2. PICK f : Folded(f, N, Int, first, op)
  <2> HIDE DEF op
  <2> QED  BY <1>f1, FoldLeftExists
<1>f3. IsFold(f)
  <2>1. f \in [SUBSET (1 .. N) -> Int] /\ f[{}] = first
    BY <1>f2 DEF Folded
  <2>2. ASSUME NEW t \in SUBSET (1 .. N), t # {} PROVE f[t] = step(f[t \ {Max(t)}], s[Max(t)])
    <3>1. Max(t) \in t
      BY <1>1, <2>2, LastOfSome
    <3>2. f[t] = op[Max(t)][f[t \ {Max(t)}]] /\ f[t \ {Max(t)}] \in Int
      <4> HIDE DEF op
      <4> QED  BY <1>f2, <2>2, <3>1 DEF Folded
    <3> QED  BY <3>1, <3>2
  <2> QED  BY <2>1, <2>2
<1>f4. IsFold(fold)
  <2> HIDE DEF IsFold
  <2> QED  BY <1>f3 DEF fold
<1> HIDE DEF fold
<1>f5. fold[{}] = first /\ 1 .. 0 = {}
  BY <1>f4
<1>f6. ASSUME NEW k \in 1 .. N PROVE fold[1 .. k] = step(fold[1 .. k - 1], s[k])
  <2>1. 1 .. k \in SUBSET (1 .. N) /\ 1 .. k # {} /\ Max(1 .. k) = k /\ (1 .. k) \ {k} = 1 .. k - 1
    BY <1>1, FoldStages
  <2> QED  BY <1>f4, <2>1
<1> HIDE DEF op, IsFold
<1>4. FoldLeft(step, first, s) = fold[1 .. N]
  BY <1>1 DEF FoldLeft, MapThenFoldSet, fold, IsFold
<1> DEFINE T == {k \in 0 .. N : fold[1 .. k] \in Int}
<1>5. 0 \in T
  BY <1>1, <1>3, <1>f5
<1>6. ASSUME NEW k \in 1 .. N, k - 1 \in T PROVE k \in T
  <2> DEFINE w == fold[1 .. k - 1]
  <2>1. w \in Int /\ fold[1 .. k] = step(w, s[k]) /\ k \in 0 .. N
    BY <1>1, <1>6, <1>f6
  <2> HIDE DEF w
  <2>2. step(w, s[k]) \in Int
    BY <1>3, <2>1
  <2> QED  BY <2>1, <2>2
<1> HIDE DEF T
<1>7. N \in T
  <2>1. 0 .. N \subseteq T
    BY <1>1, <1>5, <1>6, UpTo
  <2> QED  BY <1>1, <2>1
<1>8. fold[1 .. N] \in Int
  BY <1>7 DEF T
<1> QED  BY <1>2, <1>4, <1>8 DEF first

IntervalSets == {s \in Runs : Ascending(s)}

LEMMA IntersectTyped ==
  ASSUME NEW a \in IntervalSets, NEW b \in IntervalSets
  PROVE  /\ Intersect(a, b) \in IntervalSets
         /\ \A p \in Int : p \in Positions(Intersect(a, b)) <=> p \in Positions(a) /\ p \in Positions(b)
<1>1. IntervalSet(a) /\ IntervalSet(b)
  BY DEF IntervalSet, IntervalSets
<1>2. Covering(Intersect(a, b), Positions(a) \cap Positions(b))
  BY <1>1, IntersectCovers
<1> QED  BY <1>2 DEF Covering, IntervalSet, IntervalSets

\* The first n numbers that some function gives are finitely many.
LEMMA ValuesFinite ==
  ASSUME NEW n \in Nat, NEW f, DOMAIN f = 1 .. n
  PROVE  IsFiniteSet({f[k] : k \in 1 .. n})
<1> DEFINE D == 1 .. n
           V == {f[k] : k \in D}
           g == [k \in D |-> f[k]]
<1>1. IsFiniteSet(D)
  BY FS_Interval
<1> HIDE DEF D
<1>2. g \in [D -> V]
  OBVIOUS
<1>3. \A v \in V : \E k \in D : g[k] = v
  OBVIOUS
<1> HIDE DEF g, V
<1>4. g \in Surjection(D, V)
  BY <1>2, <1>3, Fun_IsSurj
<1>5. IsFiniteSet(V)
  BY <1>1, <1>4, FS_Surjection
<1> QED  BY <1>5 DEF V, D

LEMMA TailIs ==
  ASSUME NEW S, NEW s \in Seq(S), NEW n \in Nat \ {0}, Len(s) = n
  PROVE  /\ Tail(s) \in Seq(S) /\ Len(Tail(s)) = n - 1 /\ DOMAIN Tail(s) = 1 .. n - 1
         /\ \A k \in 1 .. n - 1 : Tail(s)[k] = s[k + 1] /\ k + 1 \in 1 .. n
<1>1. s # <<>>
  BY EmptySeq
<1>2. Tail(s) \in Seq(S) /\ Len(Tail(s)) = n - 1
  BY <1>1
<1>3. DOMAIN Tail(s) = 1 .. n - 1
  BY <1>2
<1>4. \A k \in 1 .. n - 1 : Tail(s)[k] = s[k + 1] /\ k + 1 \in 1 .. n
  BY <1>1
<1> QED  BY <1>2, <1>3, <1>4

\* In whatever order they are intersected, the terms' sets are all.
LEMMA FoldTermsCovers ==
  ASSUME NEW n \in Nat \ {0}, NEW sets, DOMAIN sets = 1 .. n, \A k \in 1 .. n : sets[k] \in IntervalSets
  PROVE  /\ FoldTerms(sets) \in IntervalSets
         /\ \A p \in Int : p \in Positions(FoldTerms(sets)) <=> \A k \in 1 .. n : p \in Positions(sets[k])
<1> DEFINE size == [k \in 1 .. n |-> <<LenPositions(sets[k]), Len(sets[k]), k>>]
           sizes == {<<LenPositions(sets[k]), Len(sets[k]), k>> : k \in DOMAIN sets}
           order == InOrder(sizes, Lexicographic(sizes))
           M == Cardinality(sizes)
           N == M - 1
           q == Tail(order)
           first == sets[order[1][3]]
           step(acc, s) == Intersect(sets[s[3]], acc)
<1>1. sizes = {size[k] : k \in 1 .. n}
  OBVIOUS
<1>2. \A k \in 1 .. n : size[k] \in Triples /\ size[k][3] = k
  <2> TAKE k \in 1 .. n
  <2>1. sets[k] \in Runs
    BY DEF IntervalSets
  <2>2. LenPositions(sets[k]) \in Int /\ Len(sets[k]) \in Int
    BY <2>1, LenPositionsInt, RunTyped
  <2> QED  BY <2>2 DEF Triples
<1>3. FoldTerms(sets) = FoldLeft(step, first, q)
  BY DEF FoldTerms
<1>4. IsFiniteSet(sizes) /\ sizes \in SUBSET Triples
  <2>1. DOMAIN size = 1 .. n
    OBVIOUS
  <2> HIDE DEF size, sizes
  <2> QED  BY <1>1, <1>2, <2>1, ValuesFinite
<1>5. Orders(Lexicographic(sizes), sizes)
  <2> HIDE DEF sizes
  <2> QED  BY <1>4, LexicographicOrders
<1> HIDE DEF size, sizes
<1>6. /\ M \in Nat /\ order \in Seq(sizes) /\ Len(order) = M /\ DOMAIN order = 1 .. M
      /\ \A k \in 1 .. M : order[k] \in sizes
      /\ \A x \in sizes : \E k \in 1 .. M : order[k] = x
  BY <1>4, <1>5, InOrderLists
<1>7. M # 0
  <2>1. size[1] \in sizes
    BY <1>1
  <2> QED  BY <1>4, <2>1, FS_EmptySet
<1> HIDE DEF order, M
<1>8. N \in Nat /\ M \in Nat \ {0} /\ 1 \in 1 .. M
  BY <1>6, <1>7
<1>9. /\ DOMAIN q = 1 .. N /\ \A k \in 1 .. N : q[k] = order[k + 1] /\ k + 1 \in 1 .. M
  BY <1>6, <1>8, TailIs
<1> DEFINE at(k) == order[k][3]
<1>10. \A k \in 1 .. M : at(k) \in 1 .. n /\ sets[at(k)] \in IntervalSets
  <2> TAKE k \in 1 .. M
  <2>1. order[k] \in sizes
    BY <1>6
  <2>2. PICK l \in 1 .. n : order[k] = size[l]
    BY <1>1, <2>1
  <2>3. at(k) = l
    BY <1>2, <2>2
  <2> QED  BY <2>3
<1>11. \A k \in 1 .. n : \E l \in 1 .. M : at(l) = k
  <2> TAKE k \in 1 .. n
  <2>1. size[k] \in sizes
    BY <1>1
  <2>2. PICK l \in 1 .. M : order[l] = size[k]
    BY <1>6, <2>1
  <2> QED  BY <1>2, <2>2
<1>12. first \in IntervalSets /\ \A k \in 1 .. N : \A w \in IntervalSets : step(w, q[k]) \in IntervalSets
  BY <1>8, <1>9, <1>10, IntersectTyped
<1> HIDE DEF N, first, q, step
<1> DEFINE op == [k \in 1 .. N |-> [w \in IntervalSets |-> step(w, q[k])]]
           IsFold(f) == f = [s \in SUBSET (1 .. N) |->
                               IF s = {} THEN first ELSE step(f[s \ {Max(s)}], q[Max(s)])]
           fold == CHOOSE f : IsFold(f)
<1>f1. Steps(N, IntervalSets, first, op)
  BY <1>8, <1>12 DEF Steps
<1>f2. PICK f : Folded(f, N, IntervalSets, first, op)
  <2> HIDE DEF op
  <2> QED  BY <1>f1, FoldLeftExists
<1>f3. IsFold(f)
  <2>1. f \in [SUBSET (1 .. N) -> IntervalSets] /\ f[{}] = first
    BY <1>f2 DEF Folded
  <2>2. ASSUME NEW s \in SUBSET (1 .. N), s # {} PROVE f[s] = step(f[s \ {Max(s)}], q[Max(s)])
    <3>1. Max(s) \in s
      BY <1>8, <2>2, LastOfSome
    <3>2. f[s] = op[Max(s)][f[s \ {Max(s)}]] /\ f[s \ {Max(s)}] \in IntervalSets
      <4> HIDE DEF op
      <4> QED  BY <1>f2, <2>2, <3>1 DEF Folded
    <3> QED  BY <3>1, <3>2
  <2> QED  BY <2>1, <2>2
<1>f4. IsFold(fold)
  <2> HIDE DEF IsFold
  <2> QED  BY <1>f3 DEF fold
<1> HIDE DEF fold
<1>f5. fold[{}] = first /\ 1 .. 0 = {}
  BY <1>f4
<1>f6. ASSUME NEW k \in 1 .. N PROVE fold[1 .. k] = step(fold[1 .. k - 1], q[k])
  <2>1. 1 .. k \in SUBSET (1 .. N) /\ 1 .. k # {} /\ Max(1 .. k) = k /\ (1 .. k) \ {k} = 1 .. k - 1
    BY <1>8, FoldStages
  <2> QED  BY <1>f4, <2>1
<1> HIDE DEF op, IsFold
<1>13. FoldLeft(step, first, q) = fold[1 .. N]
  BY <1>9 DEF FoldLeft, MapThenFoldSet, fold, IsFold
<1> DEFINE OK(k) == /\ fold[1 .. k] \in IntervalSets
                    /\ \A p \in Int : p \in Positions(fold[1 .. k])
                                        <=> \A l \in 1 .. k + 1 : p \in Positions(sets[at(l)])
           T == {k \in 0 .. N : OK(k)}
<1>14. 0 \in T
  <2>1. fold[1 .. 0] = sets[at(1)]
    BY <1>f5 DEF first
  <2>2. 1 .. 0 + 1 = {1}
    OBVIOUS
  <2> HIDE DEF at
  <2>3. OK(0)
    BY <1>8, <1>10, <2>1, <2>2
  <2> HIDE DEF OK
  <2> QED  BY <1>8, <2>3
<1>15. ASSUME NEW k \in 1 .. N, k - 1 \in T PROVE k \in T
  <2> DEFINE w == fold[1 .. k - 1]
             x == sets[at(k + 1)]
  <2>1. /\ w \in IntervalSets
        /\ \A p \in Int : p \in Positions(w) <=> \A l \in 1 .. k : p \in Positions(sets[at(l)])
    <3>1. k - 1 + 1 = k
      BY <1>8
    <3> QED  BY <1>15, <3>1
  <2>2. fold[1 .. k] = Intersect(x, w) /\ x \in IntervalSets
    BY <1>9, <1>10, <1>f6 DEF step
  <2> HIDE DEF w, x
  <2>3. /\ fold[1 .. k] \in IntervalSets
        /\ \A p \in Int : p \in Positions(fold[1 .. k]) <=> p \in Positions(x) /\ p \in Positions(w)
    BY <2>1, <2>2, IntersectTyped
  <2>4. ASSUME NEW p \in Int
        PROVE  p \in Positions(fold[1 .. k]) <=> \A l \in 1 .. k + 1 : p \in Positions(sets[at(l)])
    <3>1. \A l \in 1 .. k + 1 : l \in 1 .. k \/ l = k + 1
      BY <1>8
    <3>2. k + 1 \in 1 .. k + 1 /\ \A l \in 1 .. k : l \in 1 .. k + 1
      BY <1>8
    <3> HIDE DEF at
    <3> QED  BY <2>1, <2>3, <3>1, <3>2 DEF x
  <2>5. OK(k)
    BY <2>3, <2>4
  <2>6. k \in 0 .. N
    BY <1>8
  <2> HIDE DEF OK
  <2> QED  BY <2>5, <2>6
<1> HIDE DEF T, at
<1>16. N \in T
  <2>1. 0 .. N \subseteq T
    BY <1>8, <1>14, <1>15, UpTo
  <2> QED  BY <1>8, <2>1
<1>17. N + 1 = M
  BY <1>8 DEF N
<1>18. /\ fold[1 .. N] \in IntervalSets
       /\ \A p \in Int : p \in Positions(fold[1 .. N]) <=> \A l \in 1 .. M : p \in Positions(sets[at(l)])
  BY <1>16, <1>17 DEF T
<1>19. \A p \in Int : (\A l \in 1 .. M : p \in Positions(sets[at(l)])) <=> \A k \in 1 .. n : p \in Positions(sets[k])
  BY <1>10, <1>11
<1> QED  BY <1>3, <1>13, <1>18, <1>19

-----------------------------------------------------------------------------
(* What lies above a record: sets that grow by a step at a time until      *)
(* nothing is left to add.                                                 *)

UpFrom(up, N, X, first, on) ==
  /\ up \in [0 .. N -> SUBSET X] /\ up[0] = first
  /\ \A k \in 1 .. N : up[k] = up[k - 1] \cup UNION {on[r] : r \in up[k - 1]}

Climb(N, X, first, on, rank) ==
  /\ N \in Nat /\ first \in SUBSET X /\ on \in [X -> SUBSET X] /\ rank \in [X -> Nat]
  /\ \A x \in X : rank[x] < N /\ \A y \in on[x] : rank[y] < rank[x]

LEMMA UpExists ==
  ASSUME NEW N \in Nat, NEW X, NEW first \in SUBSET X, NEW on \in [X -> SUBSET X]
  PROVE  \E up : UpFrom(up, N, X, first, on)
<1> DEFINE S == SUBSET X
           step == [k \in 1 .. N |-> [s \in S |-> s \cup UNION {on[r] : r \in s}]]
<1>1. \A s \in S : s \cup UNION {on[r] : r \in s} \in S
  OBVIOUS
<1>2. step \in [1 .. N -> [S -> S]]
  <2> HIDE DEF S
  <2> QED  BY <1>1
<1> HIDE DEF step
<1>3. Steps(N, S, first, step)
  BY <1>2 DEF Steps
<1> HIDE DEF S
<1>4. PICK up : Follows(up, N, S, first, step)
  BY <1>3, StepsExist
<1>5. up \in [0 .. N -> S] /\ up[0] = first /\ \A k \in 1 .. N : up[k] = step[k][up[k - 1]]
  BY <1>4 DEF Follows
<1>6. ASSUME NEW k \in 1 .. N PROVE up[k] = up[k - 1] \cup UNION {on[r] : r \in up[k - 1]}
  <2>1. up[k - 1] \in S
    BY <1>5
  <2>2. step[k][up[k - 1]] = up[k - 1] \cup UNION {on[r] : r \in up[k - 1]}
    BY <2>1 DEF step
  <2> QED  BY <1>5, <2>2
<1>7. UpFrom(up, N, X, first, on)
  BY <1>5, <1>6 DEF UpFrom, S
<1> QED  BY <1>7

\* As every step leads to a lower rank, it ends with all that can be reached.
LEMMA UpCloses ==
  ASSUME NEW N, NEW X, NEW first, NEW on, NEW rank, Climb(N, X, first, on, rank),
         NEW up, UpFrom(up, N, X, first, on)
  PROVE  /\ up[N] \in SUBSET X /\ first \subseteq up[N] /\ \A x \in up[N] : on[x] \subseteq up[N]
         /\ \A C : first \subseteq C /\ (\A x \in C \cap X : on[x] \subseteq C) => up[N] \subseteq C
<1> DEFINE Closed(k) == \A x \in up[k] : rank[x] >= N - k => on[x] \subseteq up[k]
           T == {k \in 0 .. N : Closed(k) /\ first \subseteq up[k]}
<1>1. N \in Nat /\ \A k \in 0 .. N : up[k] \in SUBSET X
  BY DEF Climb, UpFrom
<1>2. \A x \in X : rank[x] \in Nat /\ rank[x] < N /\ on[x] \in SUBSET X /\ \A y \in on[x] : rank[y] < rank[x]
  BY DEF Climb
<1>3. \A k \in 1 .. N : up[k] = up[k - 1] \cup UNION {on[r] : r \in up[k - 1]} /\ k - 1 \in 0 .. N /\ k \in 0 .. N
  BY <1>1 DEF UpFrom
<1>4. up[0] = first
  BY DEF UpFrom
<1>5. 0 \in T
  <2>1. \A x \in up[0] : ~(rank[x] >= N - 0)
    BY <1>1, <1>2
  <2> QED  BY <1>1, <1>4, <2>1
<1>6. ASSUME NEW k \in 1 .. N, k - 1 \in T PROVE k \in T
  <2> DEFINE j == k - 1
  <2>1. j \in 0 .. N /\ k \in 0 .. N /\ up[k] = up[j] \cup UNION {on[r] : r \in up[j]}
    BY <1>3
  <2>2. \A x \in up[j] : rank[x] >= N - j => on[x] \subseteq up[j]
    BY <1>6
  <2>3. ASSUME NEW x \in up[k], rank[x] >= N - k PROVE on[x] \subseteq up[k]
    <3>1. CASE x \in up[j]
      BY <2>1, <3>1
    <3>2. CASE x \notin up[j]
      <4>1. PICK r \in up[j] : x \in on[r]
        BY <2>1, <3>2
      <4>2. r \in X /\ x \in X
        BY <1>1, <2>1
      <4>3. rank[r] \in Nat /\ rank[x] \in Nat /\ rank[x] < rank[r]
        BY <1>2, <4>1, <4>2
      <4>4. rank[r] >= N - j
        BY <1>1, <2>3, <4>3
      <4>5. x \in up[j]
        BY <2>2, <4>1, <4>4
      <4> QED  BY <3>2, <4>5
    <3> QED  BY <3>1, <3>2
  <2>4. first \subseteq up[k]
    BY <1>6, <2>1
  <2> QED  BY <2>1, <2>3, <2>4
<1>7. N \in T
  <2> HIDE DEF T
  <2>1. 0 .. N \subseteq T
    BY <1>1, <1>5, <1>6, UpTo
  <2> QED  BY <1>1, <2>1
<1>8. \A x \in up[N] : on[x] \subseteq up[N]
  <2>1. \A x \in up[N] : rank[x] >= N - N
    BY <1>1, <1>2
  <2> QED  BY <1>7, <2>1
<1>9. ASSUME NEW C, first \subseteq C, \A x \in C \cap X : on[x] \subseteq C PROVE up[N] \subseteq C
  <2> DEFINE U == {k \in 0 .. N : up[k] \subseteq C}
  <2>1. 0 \in U
    BY <1>1, <1>4, <1>9
  <2>2. ASSUME NEW k \in 1 .. N, k - 1 \in U PROVE k \in U
    <3>1. \A r \in up[k - 1] : on[r] \subseteq C
      BY <1>1, <1>3, <1>9, <2>2
    <3> QED  BY <1>3, <2>2, <3>1
  <2> HIDE DEF U
  <2>3. 0 .. N \subseteq U
    BY <1>1, <2>1, <2>2, UpTo
  <2> QED  BY <1>1, <2>3 DEF U
<1> QED  BY <1>1, <1>7, <1>8, <1>9

-----------------------------------------------------------------------------
(* A base. *)

\* A base of n records.
BaseOK(base, n) ==
  /\ n \in Nat /\ DOMAIN base.recs = 1 .. n /\ Len(base.recs) = n
  /\ \A i \in 1 .. n : /\ base.recs[i].frn \in DOMAIN FileOf /\ base.recs[i].name \in Names
                       /\ base.recs[i].parent \in 1 .. n => base.recs[base.recs[i].parent].frn \in Directories
  /\ \A i, j \in 1 .. n : i < j => base.recs[i].name <= base.recs[j].name
  /\ LayoutOK(n, Parents(base.recs), base.dfs)
  /\ \A f \in DOMAIN base.frns : base.frns[f] \in 1 .. n /\ base.recs[base.frns[f]].frn = f
  /\ \A p \in 1 .. n + 1 : base.size_prefix[p] \in Int

\* The sizes summed up in the tree's order.
LEMMA SizePrefixTyped ==
  ASSUME NEW n \in Nat, NEW parents, NEW dfs, LayoutOK(n, parents, dfs), NEW sizes \in [1 .. n -> Int]
  PROVE  \A p \in 1 .. n + 1 : SizePrefix(dfs, sizes)[p] \in Int
<1> DEFINE S == {s \in Seq(Int) : Len(s) # 0}
           first == <<0>>
           q == dfs.records
           step(s, i) == Append(s, Last(s) + sizes[i])
<1>1. n \in Nat /\ DOMAIN q = 1 .. n /\ \A k \in 1 .. n : q[k] \in 1 .. n /\ sizes[q[k]] \in Int
  BY DEF LayoutOK
<1>2. SizePrefix(dfs, sizes) = FoldLeft(step, first, q)
  BY DEF SizePrefix
<1>3. first \in S /\ Len(first) = 1
  OBVIOUS
<1>4. ASSUME NEW w \in S, NEW k \in 1 .. n PROVE step(w, q[k]) \in S /\ Len(step(w, q[k])) = Len(w) + 1
  <2>1. w \in Seq(Int) /\ w # <<>>
    OBVIOUS
  <2>2. Last(w) \in Int /\ Len(w) \in Nat
    BY <2>1, FrontIs
  <2>3. Last(w) + sizes[q[k]] \in Int
    BY <1>1, <2>2
  <2> DEFINE x == Last(w) + sizes[q[k]]
             t == Append(w, x)
  <2> HIDE DEF x
  <2>4. x \in Int
    BY <2>3 DEF x
  <2>5. t \in Seq(Int) /\ Len(t) = Len(w) + 1
    BY <2>1, <2>4
  <2>6. step(w, q[k]) = t
    BY DEF x
  <2> HIDE DEF t, step
  <2>7. Len(t) # 0
    BY <2>2, <2>5
  <2> QED  BY <2>5, <2>6, <2>7
<1>5. first \in S /\ \A k \in 1 .. n : \A w \in S : step(w, q[k]) \in S
  BY <1>3, <1>4
<1> HIDE DEF S, first, q, step
<1> DEFINE op == [k \in 1 .. n |-> [w \in S |-> step(w, q[k])]]
           IsFold(f) == f = [s \in SUBSET (1 .. n) |->
                               IF s = {} THEN first ELSE step(f[s \ {Max(s)}], q[Max(s)])]
           fold == CHOOSE f : IsFold(f)
<1>f1. Steps(n, S, first, op)
  BY <1>1, <1>5 DEF Steps
<1>f2. PICK f : Folded(f, n, S, first, op)
  <2> HIDE DEF op
  <2> QED  BY <1>f1, FoldLeftExists
<1>f3. IsFold(f)
  <2>1. f \in [SUBSET (1 .. n) -> S] /\ f[{}] = first
    BY <1>f2 DEF Folded
  <2>2. ASSUME NEW s \in SUBSET (1 .. n), s # {} PROVE f[s] = step(f[s \ {Max(s)}], q[Max(s)])
    <3>1. Max(s) \in s
      BY <1>1, <2>2, LastOfSome
    <3>2. f[s] = op[Max(s)][f[s \ {Max(s)}]] /\ f[s \ {Max(s)}] \in S
      <4> HIDE DEF op
      <4> QED  BY <1>f2, <2>2, <3>1 DEF Folded
    <3> QED  BY <3>1, <3>2
  <2> QED  BY <2>1, <2>2
<1>f4. IsFold(fold)
  <2> HIDE DEF IsFold
  <2> QED  BY <1>f3 DEF fold
<1> HIDE DEF fold
<1>f5. fold[{}] = first /\ 1 .. 0 = {}
  BY <1>f4
<1>f6. ASSUME NEW k \in 1 .. n PROVE fold[1 .. k] = step(fold[1 .. k - 1], q[k])
  <2>1. 1 .. k \in SUBSET (1 .. n) /\ 1 .. k # {} /\ Max(1 .. k) = k /\ (1 .. k) \ {k} = 1 .. k - 1
    BY <1>1, FoldStages
  <2> QED  BY <1>f4, <2>1
<1> HIDE DEF op, IsFold
<1>6. FoldLeft(step, first, q) = fold[1 .. n]
  BY <1>1 DEF FoldLeft, MapThenFoldSet, fold, IsFold
<1> DEFINE OK(k) == fold[1 .. k] \in S /\ Len(fold[1 .. k]) = k + 1
           T == {k \in 0 .. n : OK(k)}
<1>7. 0 \in T
  BY <1>3, <1>f5
<1>8. ASSUME NEW k \in 1 .. n, k - 1 \in T PROVE k \in T
  <2> DEFINE w == fold[1 .. k - 1]
  <2>1. w \in S /\ Len(w) = k /\ fold[1 .. k] = step(w, q[k]) /\ k \in 0 .. n
    BY <1>8, <1>f6
  <2> HIDE DEF w
  <2>2. step(w, q[k]) \in S /\ Len(step(w, q[k])) = Len(w) + 1
    BY <1>4, <2>1
  <2>3. OK(k)
    BY <2>1, <2>2
  <2> HIDE DEF OK
  <2> QED  BY <2>1, <2>3
<1> HIDE DEF T
<1>9. n \in T
  <2>1. 0 .. n \subseteq T
    BY <1>7, <1>8, UpTo
  <2> QED  BY <2>1
<1>10. fold[1 .. n] \in S /\ Len(fold[1 .. n]) = n + 1
  BY <1>9 DEF T
<1> DEFINE total == fold[1 .. n]
<1>11. total \in Seq(Int) /\ Len(total) = n + 1
  BY <1>10 DEF S
<1> HIDE DEF total
<1>12. \A p \in 1 .. n + 1 : total[p] \in Int
  BY <1>11
<1> QED  BY <1>2, <1>6, <1>12 DEF total

LEMMA ArenaOK ==
  ASSUME NEW base, base = Arena(base.recs), BaseRecords(base.recs)
  PROVE  BaseOK(base, Len(base.recs))
<1> DEFINE recs == base.recs
           n == Len(recs)
           Rec == [frn : DOMAIN FileOf, name : Names, parent : Nat]
           parents == Parents(recs)
           sizes == [i \in DOMAIN recs |-> FileOf[recs[i].frn].size]
<1>1. recs \in Seq(Rec)
  BY DEF BaseRecords
<1>2. n \in Nat /\ DOMAIN recs = 1 .. n /\ \A i \in 1 .. n : recs[i] \in Rec
  <2> HIDE DEF Rec
  <2> QED  BY <1>1
<1>3. \A i \in 1 .. n : recs[i].frn \in DOMAIN FileOf /\ recs[i].name \in Names /\ recs[i].parent \in Nat
  BY <1>2
<1>4. /\ \A i, j \in 1 .. n : i < j => recs[i].name <= recs[j].name
      /\ \A i \in 1 .. n : recs[i].parent \in 1 .. n => recs[recs[i].parent].frn \in Directories
  BY <1>2 DEF BaseRecords
<1>5. /\ base.dfs = Layout(parents)
      /\ base.frns = [f \in {recs[i].frn : i \in DOMAIN recs} |-> CHOOSE i \in DOMAIN recs : recs[i].frn = f]
      /\ base.size_prefix = SizePrefix(base.dfs, sizes)
  <2> DEFINE d == Layout(parents)
             x == ExactSizes(d, BaseDirs(recs), {i \in DOMAIN recs : FileOf[recs[i].frn].exact})
             m == [f \in {recs[i].frn : i \in DOMAIN recs} |-> CHOOSE i \in DOMAIN recs : recs[i].frn = f]
             s == SizePrefix(d, sizes)
  <2>1. base = [recs |-> recs, frns |-> m, dfs |-> d, size_prefix |-> s, size_exact |-> x]
    BY DEF Arena
  <2> HIDE DEF d, x, m, s, recs, parents, sizes
  <2>2. base.dfs = d /\ base.frns = m /\ base.size_prefix = s
    BY <2>1
  <2> QED  BY <2>2 DEF d, m, s
<1>6. LayoutOK(n, parents, base.dfs)
  <2>1. parents = [i \in 1 .. n |-> recs[i].parent]
    BY <1>2 DEF Parents
  <2> DEFINE c == [i \in 1 .. n |-> recs[i].parent]
  <2>2. c \in [1 .. n -> Nat]
    BY <1>3
  <2> HIDE DEF c, parents
  <2>3. Len(c) = n
    <3>1. c \in Seq(Nat)
      BY <1>2, <2>2
    <3>2. DOMAIN c = 1 .. n /\ DOMAIN c = 1 .. Len(c) /\ Len(c) \in Nat
      BY <2>2, <3>1
    <3> QED  BY <1>2, <3>2
  <2>4. Len(parents) = n
    BY <2>1, <2>3 DEF c
  <2> QED  BY <1>2, <1>5, <2>4, LayoutIsOK
<1>7. \A f \in DOMAIN base.frns : base.frns[f] \in 1 .. n /\ recs[base.frns[f]].frn = f
  BY <1>2, <1>5
<1>8. sizes \in [1 .. n -> Int]
  <2>1. \A f \in DOMAIN FileOf : FileOf[f].size \in Int
    BY SearchAssumption, RankingAssumption
  <2> QED  BY <1>2, <1>3, <2>1
<1>9. \A p \in 1 .. n + 1 : base.size_prefix[p] \in Int
  <2> HIDE DEF sizes, parents, n
  <2> DEFINE d == base.dfs
  <2>1. n \in Nat /\ LayoutOK(n, parents, d) /\ base.size_prefix = SizePrefix(d, sizes)
    BY <1>2, <1>5, <1>6
  <2> HIDE DEF d
  <2>2. \A p \in 1 .. n + 1 : SizePrefix(d, sizes)[p] \in Int
    BY <1>8, <2>1, SizePrefixTyped
  <2> QED  BY <2>1, <2>2
<1> QED  BY <1>2, <1>3, <1>4, <1>6, <1>7, <1>9 DEF BaseOK

\* The other records whose subtrees a record is in.
Holders(base, n, i) == {j \in (1 .. n) \ {i} : base.dfs.positions[i] \in Subtree(base.dfs, j)}

LEMMA LayoutTyped ==
  ASSUME NEW base, NEW n, BaseOK(base, n)
  PROVE  /\ n \in Nat
         /\ \A i \in 1 .. n : /\ base.dfs.positions[i] \in 0 .. n - 1 /\ base.dfs.ends[i] \in 1 .. n
                              /\ base.dfs.positions[i] \in Nat
                              /\ base.dfs.positions[i] < base.dfs.ends[i]
                              /\ DfsRecord(base.dfs, base.dfs.positions[i]) = i
         /\ \A p \in 0 .. n - 1 : /\ DfsRecord(base.dfs, p) \in 1 .. n
                                  /\ base.dfs.positions[DfsRecord(base.dfs, p)] = p
         /\ \A i, j \in 1 .. n : base.dfs.positions[i] = base.dfs.positions[j] => i = j
         /\ \A i, j \in 1 .. n : base.dfs.positions[j] \in Subtree(base.dfs, i) =>
              base.dfs.positions[i] <= base.dfs.positions[j] /\ base.dfs.ends[j] <= base.dfs.ends[i]
<1> DEFINE pos == base.dfs.positions
           ends == base.dfs.ends
           recs == base.dfs.records
<1>1. /\ n \in Nat /\ recs \in [1 .. n -> 1 .. n] /\ pos \in [1 .. n -> 0 .. n - 1] /\ ends \in [1 .. n -> 1 .. n]
      /\ \A j \in 1 .. n : recs[pos[j] + 1] = j /\ pos[j] < ends[j]
      /\ \A p \in 1 .. n : pos[recs[p]] = p - 1
      /\ \A i, j \in 1 .. n : pos[j] \in Subtree(base.dfs, i) => ends[j] <= ends[i]
  BY DEF BaseOK, LayoutOK
<1>2. \A i, j \in 1 .. n : pos[j] \in Subtree(base.dfs, i) => pos[i] <= pos[j]
  BY <1>1 DEF Subtree
<1>3. \A i, j \in 1 .. n : pos[i] = pos[j] => i = j
  <2> TAKE i, j \in 1 .. n
  <2> HAVE pos[i] = pos[j]
  <2>1. recs[pos[i] + 1] = i /\ recs[pos[j] + 1] = j
    BY <1>1
  <2> QED  BY <2>1
<1>4. \A i \in 1 .. n : pos[i] \in 0 .. n - 1 /\ ends[i] \in 1 .. n /\ pos[i] \in Nat
  <2> TAKE i \in 1 .. n
  <2>1. pos \in [1 .. n -> 0 .. n - 1] /\ ends \in [1 .. n -> 1 .. n]
    BY <1>1
  <2> HIDE DEF pos, ends
  <2>2. pos[i] \in 0 .. n - 1 /\ ends[i] \in 1 .. n
    BY <2>1
  <2> QED  BY <2>2
<1>5. \A p \in 0 .. n - 1 : DfsRecord(base.dfs, p) \in 1 .. n /\ pos[DfsRecord(base.dfs, p)] = p
  <2> TAKE p \in 0 .. n - 1
  <2> DEFINE k == p + 1
  <2>1. k \in 1 .. n /\ k - 1 = p
    BY <1>1
  <2>2. DfsRecord(base.dfs, p) = recs[k]
    BY DEF DfsRecord
  <2> HIDE DEF k, recs, pos
  <2> QED  BY <1>1, <2>1, <2>2
<1>6. \A i \in 1 .. n : DfsRecord(base.dfs, pos[i]) = i
  BY <1>1 DEF DfsRecord
<1> QED  BY <1>1, <1>2, <1>3, <1>4, <1>5, <1>6

\* Whoever holds a record's holder holds the record.
LEMMA HoldersTransitive ==
  ASSUME NEW base, NEW n, BaseOK(base, n), NEW i \in 1 .. n, NEW j \in Holders(base, n, i)
  PROVE  /\ j \in 1 .. n /\ base.dfs.positions[j] < base.dfs.positions[i]
         /\ Holders(base, n, j) \subseteq Holders(base, n, i)
<1> DEFINE pos == base.dfs.positions
           ends == base.dfs.ends
<1>1. /\ \A k \in 1 .. n : pos[k] \in Nat /\ ends[k] \in 1 .. n /\ pos[k] < ends[k]
      /\ \A k, l \in 1 .. n : pos[k] = pos[l] => k = l
      /\ \A k, l \in 1 .. n : pos[l] \in Subtree(base.dfs, k) => pos[k] <= pos[l] /\ ends[l] <= ends[k]
  BY LayoutTyped
<1>2. j \in 1 .. n /\ j # i /\ pos[i] \in Subtree(base.dfs, j)
  BY DEF Holders
<1>3. \A k, l \in 1 .. n : pos[l] \in Subtree(base.dfs, k) <=> pos[k] <= pos[l] /\ pos[l] < ends[k]
  BY <1>1 DEF Subtree
<1> HIDE DEF pos, ends
<1>4. pos[j] < pos[i] /\ pos[i] < ends[j]
  <2>1. pos[j] <= pos[i] /\ pos[j] # pos[i] /\ pos[j] \in Nat /\ pos[i] \in Nat
    BY <1>1, <1>2
  <2> QED  BY <1>2, <1>3, <2>1
<1>5. ASSUME NEW k \in Holders(base, n, j) PROVE k \in Holders(base, n, i)
  <2>1. k \in 1 .. n /\ k # j /\ pos[j] \in Subtree(base.dfs, k)
    BY <1>5 DEF Holders, pos
  <2>2. pos[k] <= pos[j] /\ ends[j] <= ends[k]
    BY <1>1, <1>2, <2>1
  <2>3. /\ pos[k] \in Nat /\ pos[j] \in Nat /\ pos[i] \in Nat /\ ends[j] \in Int /\ ends[k] \in Int
    BY <1>1, <1>2, <2>1
  <2>4. pos[k] <= pos[i] /\ pos[i] < ends[k] /\ k # i
    BY <1>4, <2>2, <2>3
  <2>5. pos[i] \in Subtree(base.dfs, k)
    BY <1>3, <2>1, <2>4
  <2> QED  BY <2>1, <2>4, <2>5 DEF Holders, pos
<1> QED  BY <1>2, <1>4, <1>5 DEF pos

\* A record is held by its parent and by what holds that, or by nothing.
LEMMA TreeParentIs ==
  ASSUME NEW base, NEW n, BaseOK(base, n), NEW i \in 1 .. n
  PROVE  LET p == tree_parent(base, i)
         IN  \/ p = 0 /\ Holders(base, n, i) = {}
             \/ /\ p \in 1 .. n /\ p # 0 /\ p # i /\ base.dfs.positions[p] < base.dfs.positions[i]
                /\ Holders(base, n, i) = {p} \cup Holders(base, n, p)
                /\ base.recs[p].frn \in Directories
<1> DEFINE parents == Parents(base.recs)
           pos == base.dfs.positions
           q == parents[i]
           p == tree_parent(base, i)
<1>1. DOMAIN parents = 1 .. n /\ n \in Nat /\ q = base.recs[i].parent
  BY DEF BaseOK, Parents
<1>2. p = IF q \notin 1 .. n \/ q = i THEN 0
          ELSE IF pos[i] \in Subtree(base.dfs, q) THEN q ELSE 0
  BY <1>1 DEF tree_parent, TreeParent, IsRoot
<1>3. \/ \A j \in 1 .. n \ {i} : pos[i] \notin Subtree(base.dfs, j)
      \/ /\ q \in 1 .. n \ {i} /\ pos[i] \in Subtree(base.dfs, q)
         /\ \A j \in 1 .. n \ {i} : pos[i] \in Subtree(base.dfs, j) => pos[q] \in Subtree(base.dfs, j)
  BY DEF BaseOK, LayoutOK
<1>4. q \in 1 .. n => base.recs[q].frn \in Directories
  BY <1>1 DEF BaseOK
<1> HIDE DEF p, q, parents
<1>5. CASE \A j \in 1 .. n \ {i} : pos[i] \notin Subtree(base.dfs, j)
  <2>1. Holders(base, n, i) = {}
    BY <1>5 DEF Holders
  <2>2. p = 0
    BY <1>2, <1>5
  <2> QED  BY <2>1, <2>2 DEF p
<1>6. CASE /\ q \in 1 .. n \ {i} /\ pos[i] \in Subtree(base.dfs, q)
           /\ \A j \in 1 .. n \ {i} : pos[i] \in Subtree(base.dfs, j) => pos[q] \in Subtree(base.dfs, j)
  <2>1. p = q /\ p \in 1 .. n /\ p # i /\ p # 0
    BY <1>1, <1>2, <1>6
  <2>2. p \in Holders(base, n, i)
    BY <1>6, <2>1 DEF Holders
  <2>3. pos[p] < pos[i] /\ Holders(base, n, p) \subseteq Holders(base, n, i)
    BY <2>2, HoldersTransitive
  <2>4. ASSUME NEW j \in Holders(base, n, i), j # p PROVE j \in Holders(base, n, p)
    BY <1>6, <2>1, <2>4 DEF Holders
  <2>5. Holders(base, n, i) = {p} \cup Holders(base, n, p)
    BY <2>2, <2>3, <2>4
  <2> QED  BY <1>4, <2>1, <2>3, <2>5 DEF p
<1> QED  BY <1>3, <1>5, <1>6

-----------------------------------------------------------------------------
(* The overlay. *)

Addition == [frn : DOMAIN FileOf, name : Names, parent : {"base", "delta"} \X Nat, live : BOOLEAN]
Deltas(n) == [ tombstones : SUBSET (1 .. n), added : Seq(Addition),
               added_frns : UNION {[fs -> Nat] : fs \in SUBSET DOMAIN FileOf} ]

\* What may be the parent of the addition numbered a.
ParentRefs(base, n, added, a) ==
  {BaseRef(j) : j \in {i \in 1 .. n : base.recs[i].frn \in Directories}}
    \cup {DeltaRef(j) : j \in {i \in 1 .. a - 1 : added[i].frn \in Directories}}

\* Additions come after their parents, which are directories, and added_frns finds
\* additions of the file asked for.
DeltaOK(base, n, d) ==
  /\ d \in Deltas(n)
  /\ \A a \in DOMAIN d.added : d.added[a].parent \in ParentRefs(base, n, d.added, a)
  /\ \A f \in DOMAIN d.added_frns : d.added_frns[f] \in DOMAIN d.added /\ d.added[d.added_frns[f]].frn = f

LEMMA AddedTyped ==
  ASSUME NEW n, NEW base, NEW d, DeltaOK(base, n, d)
  PROVE  /\ d.added \in Seq(Addition) /\ Len(d.added) \in Nat /\ DOMAIN d.added = 1 .. Len(d.added)
         /\ d.tombstones \in SUBSET (1 .. n)
         /\ \A a \in 1 .. Len(d.added) :
              /\ d.added[a] \in Addition /\ d.added[a].frn \in DOMAIN FileOf /\ d.added[a].name \in Names
              /\ d.added[a].live \in BOOLEAN
<1>1. d.added \in Seq(Addition) /\ d.tombstones \in SUBSET (1 .. n)
  BY DEF DeltaOK, Deltas
<1>2. Len(d.added) \in Nat /\ DOMAIN d.added = 1 .. Len(d.added) /\ \A a \in 1 .. Len(d.added) : d.added[a] \in Addition
  BY <1>1
<1>3. \A x \in Addition : x.frn \in DOMAIN FileOf /\ x.name \in Names /\ x.live \in BOOLEAN
  BY DEF Addition
<1> QED  BY <1>1, <1>2, <1>3

LEMMA EmptyDeltaOK ==
  ASSUME NEW n \in Nat, NEW base
  PROVE  DeltaOK(base, n, NewDelta) /\ Len(NewDelta.added) = 0
<1> DEFINE empty == <<>>
<1>1. DOMAIN empty = {} /\ empty \in Seq(Addition) /\ Len(empty) = 0
  OBVIOUS
<1>2. empty \in UNION {[fs -> Nat] : fs \in SUBSET DOMAIN FileOf}
  <2>1. empty \in [{} -> Nat]
    OBVIOUS
  <2> QED  BY <2>1
<1>3. NewDelta = [tombstones |-> {}, added |-> empty, added_frns |-> empty]
  BY DEF NewDelta
<1> HIDE DEF empty
<1>4. NewDelta \in Deltas(n) /\ NewDelta.added = empty /\ NewDelta.added_frns = empty
  BY <1>1, <1>2, <1>3 DEF Deltas
<1> QED  BY <1>1, <1>4 DEF DeltaOK

\* A deletion leaves the additions where they are.
LEMMA DeleteKeeps ==
  ASSUME NEW n, NEW base, BaseOK(base, n), NEW d, DeltaOK(base, n, d), NEW f
  PROVE  DeltaOK(base, n, Delete(d, base, f)) /\ Len(Delete(d, base, f).added) = Len(d.added)
<1> DEFINE added == Lookup(d.added_frns, f)
           index == Lookup(base.frns, f)
           e     == Delete(d, base, f)
<1>0. /\ d \in Deltas(n) /\ d.added \in Seq(Addition) /\ Len(d.added) \in Nat /\ DOMAIN d.added = 1 .. Len(d.added)
      /\ \A a \in DOMAIN d.added : d.added[a] \in Addition
  BY AddedTyped DEF DeltaOK
<1>1. CASE added # 0
  <2>1. e = [d EXCEPT !.added[added].live = FALSE,
                      !.added_frns = Restrict(@, DOMAIN @ \ {f})]
    BY <1>1 DEF Delete
  <2>2. added \in DOMAIN d.added
    BY <1>1 DEF DeltaOK, Lookup
  <2> HIDE DEF added, e
  <2>3. /\ e.tombstones = d.tombstones
        /\ e.added = [d.added EXCEPT ![added].live = FALSE]
        /\ e.added_frns = [g \in DOMAIN d.added_frns \ {f} |-> d.added_frns[g]]
        /\ e = [tombstones |-> e.tombstones, added |-> e.added, added_frns |-> e.added_frns]
    BY <1>0, <2>1 DEF Deltas, Restrict
  <2> DEFINE dead == [d.added[added] EXCEPT !.live = FALSE]
  <2>4. dead \in Addition /\ dead.frn = d.added[added].frn /\ dead.parent = d.added[added].parent
    BY <1>0, <2>2 DEF Addition
  <2>5. e.added = [d.added EXCEPT ![added] = dead]
    BY <2>3
  <2> HIDE DEF dead
  <2>6. e.added \in Seq(Addition) /\ DOMAIN e.added = DOMAIN d.added
    BY <1>0, <2>2, <2>4, <2>5, ExceptSeq
  <2>7. \A a \in DOMAIN d.added : e.added[a].frn = d.added[a].frn /\ e.added[a].parent = d.added[a].parent
    <3>1. e.added[added] = dead /\ \A a \in DOMAIN d.added \ {added} : e.added[a] = d.added[a]
      BY <1>0, <2>2, <2>5
    <3> QED  BY <2>4, <3>1
  <2>8. e \in Deltas(n)
    <3>1. PICK fs \in SUBSET DOMAIN FileOf : d.added_frns \in [fs -> Nat]
      BY <1>0 DEF Deltas
    <3>2. e.added_frns \in [fs \ {f} -> Nat]
      BY <2>3, <3>1
    <3>3. d.tombstones \in SUBSET (1 .. n)
      BY <1>0 DEF Deltas
    <3>4. e.added_frns \in UNION {[gs -> Nat] : gs \in SUBSET DOMAIN FileOf}
      BY <3>2
    <3> QED  BY <2>3, <2>6, <3>3, <3>4 DEF Deltas
  <2>9. ASSUME NEW a \in DOMAIN e.added PROVE e.added[a].parent \in ParentRefs(base, n, e.added, a)
    <3>1. a \in DOMAIN d.added /\ d.added[a].parent \in ParentRefs(base, n, d.added, a)
      BY <2>6, <2>9 DEF DeltaOK
    <3>2. \A i \in 1 .. a - 1 : i \in DOMAIN d.added
      BY <1>0, <3>1
    <3> QED  BY <2>7, <3>1, <3>2 DEF ParentRefs
  <2>10. \A g \in DOMAIN e.added_frns : e.added_frns[g] \in DOMAIN e.added /\ e.added[e.added_frns[g]].frn = g
    BY <2>3, <2>6, <2>7 DEF DeltaOK
  <2>11. Len(e.added) = Len(d.added)
    BY <1>0, <2>6
  <2> QED  BY <2>8, <2>9, <2>10, <2>11 DEF DeltaOK, e
<1>2. CASE added = 0 /\ index # 0
  <2>1. e = [d EXCEPT !.tombstones = @ \cup {index}]
    BY <1>2 DEF Delete
  <2>2. index \in 1 .. n
    BY <1>2 DEF BaseOK, Lookup
  <2> HIDE DEF e, index, added
  <2>3. e \in Deltas(n) /\ e.added = d.added /\ e.added_frns = d.added_frns
    BY <1>0, <2>1, <2>2 DEF Deltas
  <2> QED  BY <2>3 DEF DeltaOK, e
<1>3. CASE added = 0 /\ index = 0
  <2>1. e = d
    BY <1>3 DEF Delete
  <2> QED  BY <2>1
<1> QED  BY <1>1, <1>2, <1>3

LEMMA PushedKeeps ==
  ASSUME NEW n, NEW base, BaseOK(base, n), NEW d, DeltaOK(base, n, d), NEW f \in DOMAIN FileOf,
         NEW parentFrn \in Directories, NEW name \in Names, NEW e \in Pushed(d, base, f, parentFrn, name)
  PROVE  DeltaOK(base, n, e) /\ Len(e.added) = Len(d.added) + 1
<1> DEFINE m == Len(d.added)
           k == m + 1
<1>0. /\ d \in Deltas(n) /\ d.added \in Seq(Addition) /\ m \in Nat /\ DOMAIN d.added = 1 .. m
      /\ \A a \in DOMAIN d.added : d.added[a] \in Addition
  BY AddedTyped DEF DeltaOK
<1>1. PICK parent \in ResolveParent(d, base, parentFrn) :
        e = [d EXCEPT !.added = Append(@, [frn |-> f, name |-> name, parent |-> parent, live |-> TRUE]),
                      !.added_frns = Inserted(@, f, Len(d.added) + 1)]
  BY DEF Pushed
<1>2. parent \in ParentRefs(base, n, d.added, k)
  <2> DEFINE a == Lookup(d.added_frns, parentFrn)
             i == Lookup(base.frns, parentFrn)
  <2>1. \/ a # 0 /\ parent = DeltaRef(a)
        \/ a = 0 /\ i # 0 /\ parent = BaseRef(i)
    BY <1>1 DEF ResolveParent
  <2>2. CASE a # 0 /\ parent = DeltaRef(a)
    <3>1. a \in 1 .. m /\ d.added[a].frn = parentFrn
      BY <1>0, <2>2 DEF DeltaOK, Lookup
    <3>2. a \in 1 .. k - 1
      BY <1>0, <3>1
    <3> HIDE DEF a, k
    <3> QED  BY <2>2, <3>1, <3>2 DEF ParentRefs
  <2>3. CASE a = 0 /\ i # 0 /\ parent = BaseRef(i)
    <3>1. i \in 1 .. n /\ base.recs[i].frn = parentFrn
      BY <2>3 DEF BaseOK, Lookup
    <3> HIDE DEF i, k
    <3> QED  BY <2>3, <3>1 DEF ParentRefs
  <2> QED  BY <2>1, <2>2, <2>3
<1>3. parent \in {"base", "delta"} \X Nat
  <2>1. \A j \in 1 .. n : j \in Nat
    BY DEF BaseOK
  <2>2. \A j \in 1 .. k - 1 : j \in Nat
    BY <1>0
  <2> QED  BY <1>2, <2>1, <2>2 DEF ParentRefs, BaseRef, DeltaRef
<1> DEFINE new == [frn |-> f, name |-> name, parent |-> parent, live |-> TRUE]
<1>4. new \in Addition /\ new.frn = f /\ new.parent = parent
  BY <1>3 DEF Addition
<1>5. /\ e.tombstones = d.tombstones
      /\ e.added = Append(d.added, new)
      /\ e.added_frns = Inserted(d.added_frns, f, k)
      /\ e = [tombstones |-> e.tombstones, added |-> e.added, added_frns |-> e.added_frns]
  BY <1>0, <1>1 DEF Deltas
<1> HIDE DEF new
<1>6. /\ e.added \in Seq(Addition) /\ Len(e.added) = k /\ DOMAIN e.added = 1 .. k
      /\ \A i \in 1 .. m : e.added[i] = d.added[i]
      /\ e.added[k] = new /\ k \in 1 .. k
  BY <1>0, <1>4, <1>5, AppendIs
<1>7. /\ DOMAIN e.added_frns = {f} \cup DOMAIN d.added_frns
      /\ e.added_frns[f] = k
      /\ \A g \in DOMAIN d.added_frns : g # f => e.added_frns[g] = d.added_frns[g]
      /\ e.added_frns = [g \in {f} \cup DOMAIN d.added_frns |-> IF g = f THEN k ELSE d.added_frns[g]]
  BY <1>5 DEF Inserted
<1>8. e \in Deltas(n)
  <2>1. PICK fs \in SUBSET DOMAIN FileOf : d.added_frns \in [fs -> Nat]
    BY <1>0 DEF Deltas
  <2>2. e.added_frns \in [fs \cup {f} -> Nat]
    BY <1>0, <1>7, <2>1
  <2>3. e.added_frns \in UNION {[gs -> Nat] : gs \in SUBSET DOMAIN FileOf}
    BY <2>2
  <2>4. d.tombstones \in SUBSET (1 .. n)
    BY <1>0 DEF Deltas
  <2> QED  BY <1>5, <1>6, <2>3, <2>4 DEF Deltas
<1>9. ASSUME NEW a \in DOMAIN e.added PROVE e.added[a].parent \in ParentRefs(base, n, e.added, a)
  <2>1. \A i \in 1 .. a - 1 : i \in 1 .. m /\ e.added[i] = d.added[i]
    BY <1>0, <1>6, <1>9
  <2>2. ParentRefs(base, n, e.added, a) = ParentRefs(base, n, d.added, a)
    BY <2>1 DEF ParentRefs
  <2>3. CASE a \in 1 .. m
    BY <1>0, <1>6, <2>2, <2>3 DEF DeltaOK
  <2>4. CASE a = k
    BY <1>2, <1>4, <1>6, <2>2, <2>4
  <2> QED  BY <1>0, <1>6, <2>3, <2>4
<1>10. ASSUME NEW g \in DOMAIN e.added_frns
       PROVE  e.added_frns[g] \in DOMAIN e.added /\ e.added[e.added_frns[g]].frn = g
  <2>1. CASE g = f
    BY <1>4, <1>6, <1>7, <2>1
  <2>2. CASE g # f
    <3>1. g \in DOMAIN d.added_frns /\ e.added_frns[g] = d.added_frns[g]
      BY <1>7, <2>2
    <3>2. d.added_frns[g] \in 1 .. m /\ d.added[d.added_frns[g]].frn = g
      BY <1>0, <3>1 DEF DeltaOK
    <3>3. d.added_frns[g] \in 1 .. k
      BY <1>0, <3>2
    <3> QED  BY <1>6, <3>1, <3>2, <3>3
  <2> QED  BY <2>1, <2>2
<1> QED  BY <1>6, <1>8, <1>9, <1>10 DEF DeltaOK

\* Whatever an event says, applying it adds one record at most.
LEMMA ApplyKeeps ==
  ASSUME NEW n, NEW base, BaseOK(base, n), NEW d, DeltaOK(base, n, d), NEW event \in JournalEvent,
         NEW e \in Apply(d, base, event)
  PROVE  DeltaOK(base, n, e) /\ Len(e.added) <= Len(d.added) + 1
<1> DEFINE f == event.frn
           p == event.parent
           name == event.name
<1>0. /\ f \in DOMAIN FileOf /\ p \in Directories /\ name \in Names
      /\ event.kind \in {"created", "renamed", "deleted"} /\ Len(d.added) \in Nat
  BY AddedTyped DEF JournalEvent
<1>1. ASSUME NEW x, DeltaOK(base, n, x), Len(x.added) = Len(d.added), e \in Create(x, base, f, p, name)
      PROVE  DeltaOK(base, n, e) /\ Len(e.added) <= Len(d.added) + 1
  <2>1. e = x \/ e \in Pushed(x, base, f, p, name)
    BY <1>1 DEF Create
  <2>2. CASE e = x
    BY <1>0, <1>1, <2>2
  <2>3. CASE e \in Pushed(x, base, f, p, name)
    <3>1. DeltaOK(base, n, e) /\ Len(e.added) = Len(x.added) + 1
      BY <1>0, <1>1, <2>3, PushedKeeps
    <3> QED  BY <1>0, <1>1, <3>1
  <2> QED  BY <2>1, <2>2, <2>3
<1>2. DeltaOK(base, n, Delete(d, base, f)) /\ Len(Delete(d, base, f).added) = Len(d.added)
  BY DeleteKeeps
<1>3. CASE event.kind = "created"
  <2>1. e \in Create(d, base, f, p, name)
    BY <1>3 DEF Apply
  <2> QED  BY <1>1, <2>1
<1>4. CASE event.kind = "deleted"
  <2>1. e = Delete(d, base, f)
    BY <1>4 DEF Apply
  <2> QED  BY <1>0, <1>2, <2>1
<1>5. CASE event.kind = "renamed"
  <2>1. e \in Rename(d, base, f, p, name)
    BY <1>5 DEF Apply
  <2>2. e = d \/ e \in Create(Delete(d, base, f), base, f, p, name)
    BY <2>1 DEF Rename
  <2>3. CASE e = d
    BY <1>0, <2>3
  <2>4. CASE e \in Create(Delete(d, base, f), base, f, p, name)
    BY <1>1, <1>2, <2>4
  <2> QED  BY <2>2, <2>3, <2>4
<1> QED  BY <1>0, <1>3, <1>4, <1>5

\* A batch adds a record for each of its events at most.
LEMMA BatchKeeps ==
  ASSUME NEW n, NEW view, BaseOK(view.base, n), DeltaOK(view.base, n, view.delta),
         NEW batch \in Seq(JournalEvent), NEW e \in AllApplied(view, batch)
  PROVE  DeltaOK(view.base, n, e) /\ Len(e.added) <= Len(view.delta.added) + Len(batch)
<1> DEFINE base == view.base
           m == Len(view.delta.added)
           N == Len(batch)
           D == {d \in Deltas(n) : DeltaOK(base, n, d)}
           S == SUBSET D
           first == {view.delta}
           step(deltas, event) == UNION {Apply(d, base, event) : d \in deltas}
<1>1. N \in Nat /\ DOMAIN batch = 1 .. N /\ \A k \in 1 .. N : batch[k] \in JournalEvent
  OBVIOUS
<1>2. AllApplied(view, batch) = FoldLeft(step, first, batch)
  BY DEF AllApplied
<1>3. m \in Nat
  BY AddedTyped
<1>4. ASSUME NEW w \in S, NEW k \in 1 .. N, NEW x \in step(w, batch[k])
      PROVE  DeltaOK(base, n, x) /\ \E d \in w : Len(x.added) <= Len(d.added) + 1
  <2>1. PICK d \in w : x \in Apply(d, base, batch[k])
    OBVIOUS
  <2>2. DeltaOK(base, n, d) /\ batch[k] \in JournalEvent
    BY <1>1
  <2>3. DeltaOK(base, n, x) /\ Len(x.added) <= Len(d.added) + 1
    <3> HIDE DEF base
    <3> QED  BY <2>1, <2>2, ApplyKeeps DEF base
  <2> QED  BY <2>3
<1>5. first \in S
  BY DEF DeltaOK
<1>6. \A k \in 1 .. N : \A w \in S : step(w, batch[k]) \in S
  <2> TAKE k \in 1 .. N
  <2> TAKE w \in S
  <2>1. ASSUME NEW x \in step(w, batch[k]) PROVE x \in D
    <3>1. DeltaOK(base, n, x)
      BY <1>4
    <3> QED  BY <3>1 DEF DeltaOK
  <2> HIDE DEF step
  <2> QED  BY <2>1
<1>7. first \in S /\ \A k \in 1 .. N : \A w \in S : step(w, batch[k]) \in S
  BY <1>5, <1>6
<1> HIDE DEF N, S, first, step
<1> DEFINE op == [k \in 1 .. N |-> [w \in S |-> step(w, batch[k])]]
           IsFold(f) == f = [s \in SUBSET (1 .. N) |->
                               IF s = {} THEN first ELSE step(f[s \ {Max(s)}], batch[Max(s)])]
           fold == CHOOSE f : IsFold(f)
<1>f1. Steps(N, S, first, op)
  BY <1>1, <1>7 DEF Steps
<1>f2. PICK f : Folded(f, N, S, first, op)
  <2> HIDE DEF op
  <2> QED  BY <1>f1, FoldLeftExists
<1>f3. IsFold(f)
  <2>1. f \in [SUBSET (1 .. N) -> S] /\ f[{}] = first
    BY <1>f2 DEF Folded
  <2>2. ASSUME NEW s \in SUBSET (1 .. N), s # {} PROVE f[s] = step(f[s \ {Max(s)}], batch[Max(s)])
    <3>1. Max(s) \in s
      BY <1>1, <2>2, LastOfSome
    <3>2. f[s] = op[Max(s)][f[s \ {Max(s)}]] /\ f[s \ {Max(s)}] \in S
      <4> HIDE DEF op
      <4> QED  BY <1>f2, <2>2, <3>1 DEF Folded
    <3> QED  BY <3>1, <3>2
  <2> QED  BY <2>1, <2>2
<1>f4. IsFold(fold)
  <2> HIDE DEF IsFold
  <2> QED  BY <1>f3 DEF fold
<1> HIDE DEF fold
<1>f5. fold[{}] = first /\ 1 .. 0 = {}
  BY <1>f4
<1>f6. ASSUME NEW k \in 1 .. N PROVE fold[1 .. k] = step(fold[1 .. k - 1], batch[k])
  <2>1. 1 .. k \in SUBSET (1 .. N) /\ 1 .. k # {} /\ Max(1 .. k) = k /\ (1 .. k) \ {k} = 1 .. k - 1
    BY <1>1, FoldStages
  <2> QED  BY <1>f4, <2>1
<1> HIDE DEF op, IsFold
<1>8. FoldLeft(step, first, batch) = fold[1 .. N]
  BY <1>1 DEF FoldLeft, MapThenFoldSet, fold, IsFold
<1> DEFINE OK(k) == fold[1 .. k] \in S /\ \A d \in fold[1 .. k] : Len(d.added) <= m + k
           T == {k \in 0 .. N : OK(k)}
<1>9. 0 \in T
  <2>1. fold[1 .. 0] = {view.delta} /\ fold[1 .. 0] \in S
    BY <1>7, <1>f5 DEF first
  <2>2. m <= m + 0
    BY <1>3
  <2>3. OK(0)
    BY <2>1, <2>2
  <2> HIDE DEF OK
  <2> QED  BY <1>1, <2>3
<1>10. ASSUME NEW k \in 1 .. N, k - 1 \in T PROVE k \in T
  <2> DEFINE w == fold[1 .. k - 1]
             j == k - 1
  <2>1. w \in S /\ \A d \in w : Len(d.added) <= m + j
    BY <1>10
  <2>2. fold[1 .. k] = step(w, batch[k])
    BY <1>f6
  <2>3. fold[1 .. k] \in S
    BY <1>7, <2>1, <2>2
  <2> HIDE DEF w
  <2>4. ASSUME NEW x \in fold[1 .. k] PROVE Len(x.added) <= m + k
    <3>1. PICK d \in w : DeltaOK(base, n, x) /\ Len(x.added) <= Len(d.added) + 1
      BY <1>4, <2>1, <2>2, <2>4
    <3>2. DeltaOK(base, n, d)
      BY <2>1 DEF S
    <3>3. Len(x.added) \in Nat /\ Len(d.added) \in Nat /\ Len(d.added) <= m + j
      BY <2>1, <3>1, <3>2, AddedTyped
    <3>4. Len(x.added) <= Len(d.added) + 1
      BY <3>1
    <3> DEFINE a == Len(x.added)
               b == Len(d.added)
    <3> HIDE DEF a, b, m
    <3>5. a \in Nat /\ b \in Nat /\ m \in Nat /\ a <= b + 1 /\ b <= m + (k - 1)
      BY <1>3, <3>3, <3>4 DEF a, b
    <3>6. a <= m + k
      BY <1>1, <3>5
    <3> QED  BY <3>6 DEF a
  <2>5. OK(k) /\ k \in 0 .. N
    BY <1>1, <2>3, <2>4
  <2> HIDE DEF OK
  <2> QED  BY <2>5
<1> HIDE DEF T
<1>11. N \in T
  <2>1. 0 .. N \subseteq T
    BY <1>1, <1>9, <1>10, UpTo
  <2> QED  BY <1>1, <2>1
<1>12. fold[1 .. N] \in S /\ \A d \in fold[1 .. N] : Len(d.added) <= m + N
  BY <1>11 DEF T
<1>13. e \in fold[1 .. N]
  BY <1>2, <1>8
<1>14. DeltaOK(base, n, e)
  BY <1>12, <1>13 DEF S
<1> QED  BY <1>12, <1>13, <1>14 DEF N

-----------------------------------------------------------------------------
(* A view. *)

ViewOK(view) ==
  /\ BaseOK(view.base, BaseLen(view)) /\ DeltaOK(view.base, BaseLen(view), view.delta)
  /\ BaseLen(view) + Len(view.delta.added) < RECORD_SPAN

Added(view) == Len(view.delta.added)

Refs(view) == {BaseRef(i) : i \in 1 .. BaseLen(view)} \cup {DeltaRef(a) : a \in 1 .. Added(view)}

IsDir(view, ref) == Record(view.base, view.delta, ref).frn \in Directories

LEMMA ViewSizes ==
  ASSUME NEW view, ViewOK(view)
  PROVE  /\ BaseLen(view) \in Nat /\ Added(view) \in Nat /\ BaseLen(view) + Added(view) < RECORD_SPAN
         /\ BaseLen(view) + Added(view) \in Nat
         /\ DOMAIN view.base.recs = 1 .. BaseLen(view) /\ DOMAIN view.delta.added = 1 .. Added(view)
         /\ view.delta.tombstones \in SUBSET (1 .. BaseLen(view))
BY AddedTyped DEF ViewOK, BaseOK, Added

\* Of a reference: the record it is, where it is numbered.
LEMMA RefIs ==
  /\ \A i : BaseRef(i)[1] = "base" /\ BaseRef(i)[2] = i
  /\ \A a : DeltaRef(a)[1] = "delta" /\ DeltaRef(a)[2] = a
  /\ \A i, j : BaseRef(i) = BaseRef(j) => i = j
  /\ \A i, j : DeltaRef(i) = DeltaRef(j) => i = j
  /\ \A i, a : BaseRef(i) # DeltaRef(a)
BY DEF BaseRef, DeltaRef

LEMMA RecordIs ==
  ASSUME NEW view, ViewOK(view)
  PROVE  /\ \A i \in 1 .. BaseLen(view) : /\ Record(view.base, view.delta, BaseRef(i)) = view.base.recs[i]
                                          /\ Combined(view, BaseRef(i)) = i
                                          /\ BaseRef(i) \in Refs(view)
                                          /\ BaseRef(i) \in Live(view) <=> i \notin view.delta.tombstones
         /\ \A a \in 1 .. Added(view) : /\ Record(view.base, view.delta, DeltaRef(a)) = view.delta.added[a]
                                        /\ Combined(view, DeltaRef(a)) = BaseLen(view) + a
                                        /\ DeltaRef(a) \in Refs(view)
                                        /\ DeltaRef(a) \in Live(view) <=> view.delta.added[a].live
         /\ \A ref \in Refs(view) : /\ Record(view.base, view.delta, ref).frn \in DOMAIN FileOf
                                    /\ NameOf(view, ref) \in Names
                                    /\ IsDir(view, ref) <=> File(view, ref).is_dir
         /\ Live(view) \in SUBSET Refs(view)
<1> DEFINE n == BaseLen(view)
           m == Added(view)
           recs == view.base.recs
           added == view.delta.added
<1>1. /\ DOMAIN recs = 1 .. n /\ DOMAIN added = 1 .. m
  BY ViewSizes
<1>2. /\ \A i \in 1 .. n : recs[i].frn \in DOMAIN FileOf /\ recs[i].name \in Names
      /\ \A a \in 1 .. m : added[a].frn \in DOMAIN FileOf /\ added[a].name \in Names
  BY AddedTyped DEF ViewOK, BaseOK, Added
<1>3. \A i \in 1 .. n : /\ Record(view.base, view.delta, BaseRef(i)) = recs[i]
                        /\ Combined(view, BaseRef(i)) = i
  BY RefIs DEF Record, Combined
<1>4. \A a \in 1 .. m : /\ Record(view.base, view.delta, DeltaRef(a)) = added[a]
                        /\ Combined(view, DeltaRef(a)) = n + a
  BY RefIs DEF Record, Combined
<1>5. (\A i \in 1 .. n : BaseRef(i) \in Refs(view)) /\ (\A a \in 1 .. m : DeltaRef(a) \in Refs(view))
  BY DEF Refs
<1>6. \A i \in 1 .. n : BaseRef(i) \in Live(view) <=> i \notin view.delta.tombstones
  BY <1>1, RefIs DEF Live, LiveRecords, LiveBase, LiveAdded
<1>7. \A a \in 1 .. m : DeltaRef(a) \in Live(view) <=> added[a].live
  BY <1>1, RefIs DEF Live, LiveRecords, LiveBase, LiveAdded
<1>8. Live(view) \in SUBSET Refs(view)
  BY <1>1 DEF Live, LiveRecords, LiveBase, LiveAdded, Refs
<1>9. \A ref \in Refs(view) : /\ Record(view.base, view.delta, ref).frn \in DOMAIN FileOf
                              /\ Record(view.base, view.delta, ref).name \in Names
  BY <1>2, <1>3, <1>4 DEF Refs
<1>10. \A f \in DOMAIN FileOf : f \in Directories <=> FileOf[f].is_dir
  BY DEF Directories
<1> QED  BY <1>3, <1>4, <1>5, <1>6, <1>7, <1>8, <1>9, <1>10 DEF NameOf, File, IsDir

-----------------------------------------------------------------------------
(* What lies above a record. *)

Onward(view, r) == IF r[1] = "delta" /\ r \notin Live(view) THEN {} ELSE ParentWalk(view, r)

\* A record comes after everything it is under.
Depth(view) ==
  [r \in Refs(view) |-> IF r[1] = "base" THEN view.base.dfs.positions[r[2]] ELSE BaseLen(view) + r[2] - 1]

LEMMA RefCases ==
  ASSUME NEW view, NEW r \in Refs(view)
  PROVE  \/ \E i \in 1 .. BaseLen(view) : r = BaseRef(i)
         \/ \E a \in 1 .. Added(view) : r = DeltaRef(a)
BY DEF Refs

LEMMA ParentOfBase ==
  ASSUME NEW view, NEW i
  PROVE  ParentWalk(view, BaseRef(i)) = IF tree_parent(view.base, i) = 0 THEN {} ELSE {BaseRef(tree_parent(view.base, i))}
<1> DEFINE p == tree_parent(view.base, i)
<1>1. ParentWalk(view, BaseRef(i)) = {BaseRef(q) : q \in {p} \ {0}}
  BY RefIs DEF ParentWalk
<1> HIDE DEF p
<1>2. {p} \ {0} = IF p = 0 THEN {} ELSE {p}
  OBVIOUS
<1> QED  BY <1>1, <1>2 DEF p

LEMMA ParentOfAdded ==
  ASSUME NEW view, ViewOK(view), NEW a \in 1 .. Added(view)
  PROVE  LET p == view.delta.added[a].parent
         IN  /\ ParentWalk(view, DeltaRef(a)) = {p}
             /\ \/ \E i \in 1 .. BaseLen(view) : p = BaseRef(i) /\ view.base.recs[i].frn \in Directories
                \/ \E b \in 1 .. a - 1 : p = DeltaRef(b) /\ view.delta.added[b].frn \in Directories
<1> DEFINE p == view.delta.added[a].parent
<1>1. ParentWalk(view, DeltaRef(a)) = {p}
  BY RefIs DEF ParentWalk
<1>2. a \in DOMAIN view.delta.added
  BY ViewSizes
<1>3. p \in ParentRefs(view.base, BaseLen(view), view.delta.added, a)
  BY <1>2 DEF ViewOK, DeltaOK
<1> HIDE DEF p
<1> QED  BY <1>1, <1>3 DEF ParentRefs, p

\* One step up is a directory, and comes before.
LEMMA ParentWalkIs ==
  ASSUME NEW view, ViewOK(view), NEW r \in Refs(view)
  PROVE  /\ ParentWalk(view, r) \in SUBSET Refs(view)
         /\ Depth(view)[r] \in Nat /\ Depth(view)[r] < BaseLen(view) + Added(view)
         /\ \A x \in ParentWalk(view, r) : IsDir(view, x) /\ Depth(view)[x] < Depth(view)[r]
<1> DEFINE n == BaseLen(view)
           m == Added(view)
           pos == view.base.dfs.positions
<1>1. n \in Nat /\ m \in Nat /\ BaseOK(view.base, n)
  BY ViewSizes DEF ViewOK
<1>2. \A i \in 1 .. n : pos[i] \in 0 .. n - 1 /\ pos[i] \in Nat
  BY <1>1, LayoutTyped
<1>3. \A i \in 1 .. n : BaseRef(i) \in Refs(view) /\ Depth(view)[BaseRef(i)] = pos[i]
  BY RefIs DEF Depth, Refs
<1>4. \A a \in 1 .. m : DeltaRef(a) \in Refs(view) /\ Depth(view)[DeltaRef(a)] = n + a - 1
  BY RefIs DEF Depth, Refs
<1>5. \A i \in 1 .. n : IsDir(view, BaseRef(i)) <=> view.base.recs[i].frn \in Directories
  BY RecordIs DEF IsDir
<1>6. \A a \in 1 .. m : IsDir(view, DeltaRef(a)) <=> view.delta.added[a].frn \in Directories
  BY RecordIs DEF IsDir
<1> HIDE DEF n, m
<1>7. CASE \E i \in 1 .. n : r = BaseRef(i)
  <2>1. PICK i \in 1 .. n : r = BaseRef(i)
    BY <1>7
  <2> DEFINE p == tree_parent(view.base, i)
  <2>2. p = 0 \/ (p \in 1 .. n /\ p # 0 /\ pos[p] < pos[i] /\ view.base.recs[p].frn \in Directories)
    BY <1>1, TreeParentIs
  <2>3. ParentWalk(view, r) = IF p = 0 THEN {} ELSE {BaseRef(p)}
    BY <2>1, ParentOfBase
  <2> HIDE DEF p
  <2>4. Depth(view)[r] = pos[i] /\ pos[i] \in Nat /\ pos[i] < n + m
    BY <1>1, <1>2, <1>3, <2>1
  <2>5. CASE p = 0
    BY <2>3, <2>4, <2>5 DEF n, m
  <2>6. CASE p \in 1 .. n /\ p # 0 /\ pos[p] < pos[i] /\ view.base.recs[p].frn \in Directories
    <3>1. BaseRef(p) \in Refs(view) /\ IsDir(view, BaseRef(p)) /\ Depth(view)[BaseRef(p)] < Depth(view)[r]
      BY <1>3, <1>5, <2>4, <2>6
    <3> QED  BY <2>3, <2>4, <2>6, <3>1 DEF n, m
  <2> QED  BY <2>2, <2>5, <2>6
<1>8. CASE \E a \in 1 .. m : r = DeltaRef(a)
  <2>1. PICK a \in 1 .. m : r = DeltaRef(a)
    BY <1>8
  <2> DEFINE p == view.delta.added[a].parent
  <2>2. /\ ParentWalk(view, r) = {p}
        /\ \/ \E i \in 1 .. n : p = BaseRef(i) /\ view.base.recs[i].frn \in Directories
           \/ \E b \in 1 .. a - 1 : p = DeltaRef(b) /\ view.delta.added[b].frn \in Directories
    BY <2>1, ParentOfAdded DEF n, m
  <2> HIDE DEF p
  <2>3. Depth(view)[r] = n + a - 1 /\ n + a - 1 \in Nat /\ n + a - 1 < n + m
    BY <1>1, <1>4, <2>1
  <2>4. p \in Refs(view) /\ IsDir(view, p) /\ Depth(view)[p] < Depth(view)[r]
    <3>1. CASE \E i \in 1 .. n : p = BaseRef(i) /\ view.base.recs[i].frn \in Directories
      <4>1. PICK i \in 1 .. n : p = BaseRef(i) /\ view.base.recs[i].frn \in Directories
        BY <3>1
      <4>2. Depth(view)[p] = pos[i] /\ pos[i] < n + a - 1
        BY <1>1, <1>2, <1>3, <4>1
      <4> QED  BY <1>3, <1>5, <2>3, <4>1, <4>2
    <3>2. CASE \E b \in 1 .. a - 1 : p = DeltaRef(b) /\ view.delta.added[b].frn \in Directories
      <4>1. PICK b \in 1 .. a - 1 : p = DeltaRef(b) /\ view.delta.added[b].frn \in Directories
        BY <3>2
      <4>2. b \in 1 .. m /\ n + b - 1 < n + a - 1
        BY <1>1, <4>1
      <4>3. Depth(view)[p] = n + b - 1
        BY <1>4, <4>1, <4>2
      <4> QED  BY <1>4, <1>6, <2>3, <4>1, <4>2, <4>3
    <3> QED  BY <2>2, <3>1, <3>2
  <2> QED  BY <2>2, <2>3, <2>4 DEF n, m
<1> QED  BY <1>7, <1>8, RefCases DEF n, m

\* The records above one are those its parents lead to.
LEMMA AboveIs ==
  ASSUME NEW view, ViewOK(view), NEW ref \in Refs(view)
  PROVE  LET U == Above(view, ref)
         IN  /\ U \in SUBSET Refs(view) /\ ParentWalk(view, ref) \subseteq U
             /\ \A x \in U : Onward(view, x) \subseteq U
             /\ \A C : ParentWalk(view, ref) \subseteq C /\ (\A x \in C \cap Refs(view) : Onward(view, x) \subseteq C)
                         => U \subseteq C
<1> DEFINE N == BaseLen(view) + Len(view.delta.added)
           X == Refs(view)
           first == ParentWalk(view, ref)
           on == [r \in X |-> Onward(view, r)]
           IsUp(f) == f = [k \in 0 .. N |->
                             IF k = 0 THEN first ELSE f[k - 1] \cup UNION {Onward(view, r) : r \in f[k - 1]}]
           up == CHOOSE f : IsUp(f)
<1>1. Above(view, ref) = up[N]
  BY DEF Above, Onward
<1>2. N \in Nat /\ first \in SUBSET X /\ on \in [X -> SUBSET X]
  BY ViewSizes, ParentWalkIs DEF Onward, Added
<1>3. Climb(N, X, first, on, Depth(view))
  <2>1. Depth(view) \in [X -> Nat]
    <3>1. \A x \in X : Depth(view)[x] \in Nat
      BY ParentWalkIs
    <3> QED  BY <3>1 DEF Depth
  <2>2. \A x \in X : Depth(view)[x] < N
    BY ParentWalkIs DEF Added
  <2>3. \A x \in X : \A y \in on[x] : Depth(view)[y] < Depth(view)[x]
    BY ParentWalkIs DEF Onward
  <2> HIDE DEF N, X, first, on
  <2> QED  BY <1>2, <2>1, <2>2, <2>3 DEF Climb
<1>4. \A r \in X : on[r] = Onward(view, r)
  OBVIOUS
<1> HIDE DEF N, X, first, on
<1>5. PICK f : UpFrom(f, N, X, first, on)
  BY <1>2, UpExists
<1>6. IsUp(f)
  <2>1. f \in [0 .. N -> SUBSET X] /\ f[0] = first
    BY <1>5 DEF UpFrom
  <2>2. ASSUME NEW k \in 1 .. N PROVE f[k] = f[k - 1] \cup UNION {Onward(view, r) : r \in f[k - 1]}
    <3>1. f[k - 1] \in SUBSET X
      BY <1>2, <2>1
    <3> QED  BY <1>4, <1>5, <3>1 DEF UpFrom
  <2>3. \A k \in 0 .. N : k # 0 => k \in 1 .. N
    BY <1>2
  <2> QED  BY <2>1, <2>2, <2>3
<1>7. IsUp(up)
  <2> HIDE DEF IsUp
  <2> QED  BY <1>6 DEF up
<1> HIDE DEF up
<1>8. UpFrom(up, N, X, first, on)
  <2> DEFINE T == {k \in 0 .. N : up[k] \in SUBSET X}
  <2>1. up[0] = first /\ \A k \in 1 .. N : up[k] = up[k - 1] \cup UNION {Onward(view, r) : r \in up[k - 1]}
    BY <1>2, <1>7
  <2>2. 0 \in T
    BY <1>2, <2>1
  <2>3. \A k \in 1 .. N : k - 1 \in T => k \in T
    <3> TAKE k \in 1 .. N
    <3> HAVE k - 1 \in T
    <3>1. up[k - 1] \in SUBSET X /\ k \in 0 .. N
      BY <1>2
    <3>2. \A r \in up[k - 1] : Onward(view, r) \in SUBSET X
      BY <1>2, <1>4, <3>1
    <3> QED  BY <2>1, <3>1, <3>2
  <2> HIDE DEF T
  <2>4. 0 .. N \subseteq T
    BY <1>2, <2>2, <2>3, UpTo
  <2>5. \A k \in 0 .. N : up[k] \in SUBSET X
    BY <2>4 DEF T
  <2>6. up \in [0 .. N -> SUBSET X]
    BY <1>7, <2>5
  <2>7. ASSUME NEW k \in 1 .. N PROVE up[k] = up[k - 1] \cup UNION {on[r] : r \in up[k - 1]}
    <3>1. up[k - 1] \in SUBSET X
      BY <1>2, <2>5
    <3> QED  BY <1>4, <2>1, <3>1
  <2> QED  BY <2>1, <2>6, <2>7 DEF UpFrom
<1>9. /\ up[N] \in SUBSET X /\ first \subseteq up[N] /\ \A x \in up[N] : on[x] \subseteq up[N]
      /\ \A C : first \subseteq C /\ (\A x \in C \cap X : on[x] \subseteq C) => up[N] \subseteq C
  BY <1>3, <1>8, UpCloses
<1> DEFINE U == up[N]
<1> HIDE DEF U
<1>10. /\ U \in SUBSET X /\ first \subseteq U /\ \A x \in U : Onward(view, x) \subseteq U
       /\ \A C : first \subseteq C /\ (\A x \in C \cap X : Onward(view, x) \subseteq C) => U \subseteq C
  BY <1>4, <1>9 DEF U
<1> QED  BY <1>1, <1>10 DEF U, X, first

\* What a refined match looks at: the record and whatever its parents lead to.
ReachedFrom(view, ref, U) ==
  /\ U \in SUBSET Refs(view) /\ ref \in U /\ \A x \in U : ParentWalk(view, x) \subseteq U
  /\ \A C : ref \in C /\ (\A x \in C \cap Refs(view) : ParentWalk(view, x) \subseteq C) => U \subseteq C

LEMMA ReachedIs ==
  ASSUME NEW view, ViewOK(view), NEW ref \in Refs(view), NEW terms
  PROVE  \E U : ReachedFrom(view, ref, U) /\ Reached(view, ref, terms) = UNION {Mask(NameOf(view, r), terms) : r \in U}
<1> DEFINE N == BaseLen(view) + Len(view.delta.added)
           X == Refs(view)
           first == {ref}
           on == [r \in X |-> ParentWalk(view, r)]
           IsUp(f) == f = [k \in 0 .. N |->
                             IF k = 0 THEN first ELSE f[k - 1] \cup UNION {ParentWalk(view, r) : r \in f[k - 1]}]
           up == CHOOSE f : IsUp(f)
<1>1. Reached(view, ref, terms) = UNION {Mask(NameOf(view, r), terms) : r \in up[N]}
  BY DEF Reached
<1>2. N \in Nat /\ first \in SUBSET X /\ on \in [X -> SUBSET X]
  BY ViewSizes, ParentWalkIs DEF Added
<1>3. Climb(N, X, first, on, Depth(view))
  <2>1. Depth(view) \in [X -> Nat]
    <3>1. \A x \in X : Depth(view)[x] \in Nat
      BY ParentWalkIs
    <3> QED  BY <3>1 DEF Depth
  <2>2. \A x \in X : Depth(view)[x] < N
    BY ParentWalkIs DEF Added
  <2>3. \A x \in X : \A y \in on[x] : Depth(view)[y] < Depth(view)[x]
    BY ParentWalkIs
  <2> HIDE DEF N, X, first, on
  <2> QED  BY <1>2, <2>1, <2>2, <2>3 DEF Climb
<1>4. \A r \in X : on[r] = ParentWalk(view, r)
  OBVIOUS
<1>a. ref \in first /\ \A C : first \subseteq C <=> ref \in C
  OBVIOUS
<1> HIDE DEF N, X, first, on
<1>5. PICK f : UpFrom(f, N, X, first, on)
  BY <1>2, UpExists
<1>6. IsUp(f)
  <2>1. f \in [0 .. N -> SUBSET X] /\ f[0] = first
    BY <1>5 DEF UpFrom
  <2>2. ASSUME NEW k \in 1 .. N PROVE f[k] = f[k - 1] \cup UNION {ParentWalk(view, r) : r \in f[k - 1]}
    <3>1. f[k - 1] \in SUBSET X
      BY <1>2, <2>1
    <3> QED  BY <1>4, <1>5, <3>1 DEF UpFrom
  <2>3. \A k \in 0 .. N : k # 0 => k \in 1 .. N
    BY <1>2
  <2> QED  BY <2>1, <2>2, <2>3
<1>7. IsUp(up)
  <2> HIDE DEF IsUp
  <2> QED  BY <1>6 DEF up
<1> HIDE DEF up
<1>8. UpFrom(up, N, X, first, on)
  <2> DEFINE T == {k \in 0 .. N : up[k] \in SUBSET X}
  <2>1. up[0] = first /\ \A k \in 1 .. N : up[k] = up[k - 1] \cup UNION {ParentWalk(view, r) : r \in up[k - 1]}
    BY <1>2, <1>7
  <2>2. 0 \in T
    BY <1>2, <2>1
  <2>3. \A k \in 1 .. N : k - 1 \in T => k \in T
    <3> TAKE k \in 1 .. N
    <3> HAVE k - 1 \in T
    <3>1. up[k - 1] \in SUBSET X /\ k \in 0 .. N
      BY <1>2
    <3>2. \A r \in up[k - 1] : ParentWalk(view, r) \in SUBSET X
      BY <1>2, <1>4, <3>1
    <3> QED  BY <2>1, <3>1, <3>2
  <2> HIDE DEF T
  <2>4. 0 .. N \subseteq T
    BY <1>2, <2>2, <2>3, UpTo
  <2>5. \A k \in 0 .. N : up[k] \in SUBSET X
    BY <2>4 DEF T
  <2>6. up \in [0 .. N -> SUBSET X]
    BY <1>7, <2>5
  <2>7. ASSUME NEW k \in 1 .. N PROVE up[k] = up[k - 1] \cup UNION {on[r] : r \in up[k - 1]}
    <3>1. up[k - 1] \in SUBSET X
      BY <1>2, <2>5
    <3> QED  BY <1>4, <2>1, <3>1
  <2> QED  BY <2>1, <2>6, <2>7 DEF UpFrom
<1>9. /\ up[N] \in SUBSET X /\ first \subseteq up[N] /\ \A x \in up[N] : on[x] \subseteq up[N]
      /\ \A C : first \subseteq C /\ (\A x \in C \cap X : on[x] \subseteq C) => up[N] \subseteq C
  BY <1>3, <1>8, UpCloses
<1> DEFINE U == up[N]
<1> HIDE DEF U
<1>10. /\ U \in SUBSET X /\ ref \in U /\ \A x \in U : ParentWalk(view, x) \subseteq U
       /\ \A C : ref \in C /\ (\A x \in C \cap X : ParentWalk(view, x) \subseteq C) => U \subseteq C
  BY <1>4, <1>9, <1>a DEF U
<1>11. ReachedFrom(view, ref, U)
  BY <1>10 DEF ReachedFrom, X
<1> QED  BY <1>1, <1>11 DEF U

\* What leads up from base records leads to all that hold them.
LEMMA HoldersReached ==
  ASSUME NEW view, ViewOK(view), NEW U,
         \A j \in 1 .. BaseLen(view) : BaseRef(j) \in U => ParentWalk(view, BaseRef(j)) \subseteq U
  PROVE  \A j \in 1 .. BaseLen(view) : ParentWalk(view, BaseRef(j)) \subseteq U =>
           \A h \in Holders(view.base, BaseLen(view), j) : BaseRef(h) \in U
<1> DEFINE n == BaseLen(view)
           pos == view.base.dfs.positions
           Holds(j) == ParentWalk(view, BaseRef(j)) \subseteq U =>
                           \A h \in Holders(view.base, n, j) : BaseRef(h) \in U
           T == {k \in 0 .. n : \A j \in 1 .. n : pos[j] < k => Holds(j)}
<1>1. n \in Nat /\ BaseOK(view.base, n)
  BY ViewSizes DEF ViewOK
<1>2. \A i \in 1 .. n : pos[i] \in Nat /\ pos[i] < n
  BY <1>1, LayoutTyped
<1>3. \A j \in 1 .. n : BaseRef(j) \in U => ParentWalk(view, BaseRef(j)) \subseteq U
  OBVIOUS
<1> HIDE DEF n
<1>4. ASSUME NEW k \in 1 .. n, k - 1 \in T PROVE k \in T
  <2>1. ASSUME NEW j \in 1 .. n, pos[j] < k PROVE Holds(j)
    <3> DEFINE p == tree_parent(view.base, j)
    <3>1. \/ p = 0 /\ Holders(view.base, n, j) = {}
          \/ /\ p \in 1 .. n /\ p # 0 /\ pos[p] < pos[j]
             /\ Holders(view.base, n, j) = {p} \cup Holders(view.base, n, p)
      BY <1>1, TreeParentIs
    <3>2. ParentWalk(view, BaseRef(j)) = IF p = 0 THEN {} ELSE {BaseRef(p)}
      BY ParentOfBase
    <3> HIDE DEF p
    <3>3. CASE p \in 1 .. n /\ p # 0 /\ pos[p] < pos[j] /\ Holders(view.base, n, j) = {p} \cup Holders(view.base, n, p)
      <4>1. pos[p] < k - 1
        BY <1>1, <1>2, <2>1, <3>3
      <4>2. Holds(p)
        BY <1>4, <3>3, <4>1
      <4>3. ASSUME BaseRef(p) \in U PROVE \A h \in Holders(view.base, n, j) : BaseRef(h) \in U
        BY <1>3, <3>3, <4>2, <4>3
      <4> QED  BY <3>2, <3>3, <4>3
    <3> QED  BY <3>1, <3>3
  <2>2. k \in 0 .. n
    BY <1>1
  <2> HIDE DEF Holds
  <2> QED  BY <2>1, <2>2
<1>5. 0 \in T
  <2>1. \A j \in 1 .. n : ~(pos[j] < 0)
    BY <1>2
  <2> QED  BY <1>1, <2>1
<1>6. n \in T
  <2> HIDE DEF T
  <2>1. 0 .. n \subseteq T
    BY <1>1, <1>4, <1>5, UpTo
  <2> QED  BY <1>1, <2>1
<1>7. \A j \in 1 .. n : Holds(j)
  <2> HIDE DEF Holds
  <2> QED  BY <1>2, <1>6
<1> QED  BY <1>7 DEF n

LEMMA AboveBase ==
  ASSUME NEW view, ViewOK(view), NEW i \in 1 .. BaseLen(view)
  PROVE  Above(view, BaseRef(i)) = {BaseRef(j) : j \in Holders(view.base, BaseLen(view), i)}
<1> DEFINE n == BaseLen(view)
           U == Above(view, BaseRef(i))
           C == {BaseRef(j) : j \in Holders(view.base, n, i)}
<1>1. n \in Nat /\ BaseOK(view.base, n)
  BY ViewSizes DEF ViewOK
<1>2. \A j \in 1 .. n : Onward(view, BaseRef(j)) = ParentWalk(view, BaseRef(j)) /\ BaseRef(j) \in Refs(view)
  BY RefIs, RecordIs DEF Onward
<1>3. /\ ParentWalk(view, BaseRef(i)) \subseteq U
      /\ \A x \in U : Onward(view, x) \subseteq U
      /\ (ParentWalk(view, BaseRef(i)) \subseteq C /\ \A x \in C \cap Refs(view) : Onward(view, x) \subseteq C) => U \subseteq C
  <2> HIDE DEF C
  <2> QED  BY <1>2, AboveIs
<1> HIDE DEF U
<1>4. C \subseteq U
  <2>1. \A j \in 1 .. n : BaseRef(j) \in U => ParentWalk(view, BaseRef(j)) \subseteq U
    BY <1>2, <1>3
  <2>2. \A h \in Holders(view.base, n, i) : BaseRef(h) \in U
    BY <1>3, <2>1, HoldersReached
  <2> QED  BY <2>2
<1>5. ASSUME NEW j \in 1 .. n
      PROVE  ParentWalk(view, BaseRef(j)) \subseteq {BaseRef(h) : h \in Holders(view.base, n, j)}
  <2> DEFINE p == tree_parent(view.base, j)
  <2>1. p = 0 \/ p \in Holders(view.base, n, j)
    BY <1>1, TreeParentIs
  <2>2. ParentWalk(view, BaseRef(j)) = IF p = 0 THEN {} ELSE {BaseRef(p)}
    BY ParentOfBase
  <2> HIDE DEF p
  <2> QED  BY <2>1, <2>2
<1>6. ASSUME NEW x \in C PROVE Onward(view, x) \subseteq C
  <2>1. PICK j \in Holders(view.base, n, i) : x = BaseRef(j)
    BY <1>6
  <2>2. j \in 1 .. n /\ Holders(view.base, n, j) \subseteq Holders(view.base, n, i)
    BY <1>1, HoldersTransitive
  <2>3. Onward(view, x) \subseteq {BaseRef(h) : h \in Holders(view.base, n, j)}
    BY <1>2, <1>5, <2>1, <2>2
  <2> QED  BY <2>2, <2>3
<1>7. ParentWalk(view, BaseRef(i)) \subseteq C
  BY <1>5
<1>8. U \subseteq C
  <2> HIDE DEF C
  <2> QED  BY <1>3, <1>6, <1>7
<1> QED  BY <1>4, <1>8 DEF U

LEMMA AboveAdded ==
  ASSUME NEW view, ViewOK(view), NEW a \in 1 .. Added(view)
  PROVE  LET p == view.delta.added[a].parent
         IN  /\ p \in Refs(view)
             /\ Above(view, DeltaRef(a)) = {p} \cup IF p[1] = "delta" /\ p \notin Live(view) THEN {} ELSE Above(view, p)
<1> DEFINE p == view.delta.added[a].parent
           dead == p[1] = "delta" /\ p \notin Live(view)
           U == Above(view, DeltaRef(a))
           V == Above(view, p)
           C == {p} \cup IF dead THEN {} ELSE V
<1>1. DeltaRef(a) \in Refs(view) /\ ParentWalk(view, DeltaRef(a)) = {p}
  BY RecordIs, ParentOfAdded
<1>2. p \in Refs(view)
  BY <1>1, ParentWalkIs
<1>3. /\ {p} \subseteq U /\ \A x \in U : Onward(view, x) \subseteq U
      /\ ({p} \subseteq C /\ \A x \in C \cap Refs(view) : Onward(view, x) \subseteq C) => U \subseteq C
  <2> HIDE DEF C, p
  <2> QED  BY <1>1, AboveIs
<1>4. Onward(view, p) = IF dead THEN {} ELSE ParentWalk(view, p)
  BY DEF Onward
<1> HIDE DEF U
<1>5. /\ ParentWalk(view, p) \subseteq V /\ \A x \in V : Onward(view, x) \subseteq V
      /\ (ParentWalk(view, p) \subseteq U /\ \A x \in U \cap Refs(view) : Onward(view, x) \subseteq U) => V \subseteq U
  <2> HIDE DEF p
  <2> QED  BY <1>2, AboveIs
<1> HIDE DEF V, dead, p
<1>6. C \subseteq U
  BY <1>3, <1>4, <1>5
<1>7. \A x \in C : Onward(view, x) \subseteq C
  BY <1>4, <1>5
<1>8. U \subseteq C
  BY <1>3, <1>7
<1>9. U = C
  <2> HIDE DEF C
  <2> QED  BY <1>6, <1>8
<1> QED  BY <1>2, <1>9 DEF U, V, dead, p

\* Only directories are above anything.
LEMMA AboveTyped ==
  ASSUME NEW view, ViewOK(view), NEW ref \in Refs(view)
  PROVE  \A x \in Above(view, ref) : x \in Refs(view) /\ IsDir(view, x) /\ File(view, x).is_dir
<1> DEFINE U == Above(view, ref)
           C == {x \in Refs(view) : IsDir(view, x)}
<1>1. ParentWalk(view, ref) \subseteq C
  BY ParentWalkIs
<1>2. \A x \in Refs(view) : Onward(view, x) \subseteq C
  BY ParentWalkIs DEF Onward
<1>3. U \subseteq C
  <2> HIDE DEF C
  <2>1. ParentWalk(view, ref) \subseteq C /\ (\A x \in C \cap Refs(view) : Onward(view, x) \subseteq C) => U \subseteq C
    BY AboveIs
  <2> QED  BY <1>1, <1>2, <2>1
<1>4. \A x \in C : x \in Refs(view) /\ IsDir(view, x) /\ File(view, x).is_dir
  BY RecordIs
<1> HIDE DEF U, C
<1> QED  BY <1>3, <1>4 DEF U

\* Where nothing above is dead, a refined match looks at the same records.
LEMMA ReachedUnstranded ==
  ASSUME NEW view, ViewOK(view), NEW ref \in Refs(view), Above(view, ref) \subseteq Live(view), NEW terms
  PROVE  Reached(view, ref, terms) = UNION {Mask(NameOf(view, r), terms) : r \in {ref} \cup Above(view, ref)}
<1> DEFINE A == Above(view, ref)
           C == {ref} \cup A
<1>1. PICK U : ReachedFrom(view, ref, U) /\ Reached(view, ref, terms) = UNION {Mask(NameOf(view, r), terms) : r \in U}
  BY ReachedIs
<1>2. /\ A \in SUBSET Refs(view) /\ ParentWalk(view, ref) \subseteq A /\ \A x \in A : Onward(view, x) \subseteq A
      /\ (ParentWalk(view, ref) \subseteq U /\ \A x \in U \cap Refs(view) : Onward(view, x) \subseteq U) => A \subseteq U
  BY AboveIs
<1>3. \A x : Onward(view, x) \subseteq ParentWalk(view, x)
  BY DEF Onward
<1>4. /\ U \in SUBSET Refs(view) /\ ref \in U /\ \A x \in U : ParentWalk(view, x) \subseteq U
      /\ (ref \in C /\ \A x \in C \cap Refs(view) : ParentWalk(view, x) \subseteq C) => U \subseteq C
  <2> HIDE DEF C
  <2> QED  BY <1>1 DEF ReachedFrom
<1>5. A \subseteq Live(view)
  OBVIOUS
<1> HIDE DEF A
<1>6. \A x \in A : ParentWalk(view, x) = Onward(view, x)
  BY <1>5 DEF Onward
<1>7. U \subseteq C
  BY <1>2, <1>4, <1>6
<1>8. A \subseteq U
  BY <1>2, <1>3, <1>4
<1>9. U = C
  <2>1. C \subseteq U
    BY <1>4, <1>8
  <2> HIDE DEF C
  <2> QED  BY <1>7, <2>1
<1> QED  BY <1>1, <1>9 DEF A

-----------------------------------------------------------------------------
(* The base records that have a term, or are beneath a directory that does. *)

\* The trigram filter leaves out no name that has the term.
LEMMA NamesWithIs ==
  ASSUME NEW base, NEW n, BaseOK(base, n), NEW term \in Terms
  PROVE  NamesWith(base, term) = {i \in 1 .. n : <<base.recs[i].name, term>> \in HasTerm}
<1> DEFINE Has(i) == <<base.recs[i].name, term>> \in HasTerm
           rows(b) == UNION {NameTrigrams[base.recs[i].name] : i \in {j \in DOMAIN base.recs : BlockOf(j) = b}}
<1>1. DOMAIN base.recs = 1 .. n
  BY DEF BaseOK
<1>2. NamesWith(base, term) = {i \in Candidates(base, term) : Has(i)}
  BY DEF NamesWith
<1>3. Candidates(base, term) \subseteq 1 .. n
  BY <1>1 DEF Candidates
<1>4. ASSUME NEW i \in 1 .. n, Has(i) PROVE i \in Candidates(base, term)
  <2>1. CASE Unfiltered(base, term)
    BY <1>1, <2>1 DEF Candidates
  <2>2. CASE ~Unfiltered(base, term)
    <3>1. term \notin ShortTerms
      BY <2>2 DEF Unfiltered
    <3>2. TermTrigrams[term] \subseteq NameTrigrams[base.recs[i].name]
      BY <1>4, <3>1, SearchAssumption DEF TextFacts
    <3>3. NameTrigrams[base.recs[i].name] \subseteq rows(BlockOf(i))
      BY <1>1
    <3>4. BlockOf(i) \in candidate_blocks(base, term)
      <4>1. TermTrigrams[term] \subseteq rows(BlockOf(i))
        BY <3>2, <3>3
      <4>2. BlockOf(i) \in {BlockOf(j) : j \in DOMAIN base.recs}
        BY <1>1
      <4>3. candidate_blocks(base, term) = {b \in {BlockOf(j) : j \in DOMAIN base.recs} : TermTrigrams[term] \subseteq rows(b)}
        BY DEF candidate_blocks
      <4> QED  BY <4>1, <4>2, <4>3
    <3> QED  BY <1>1, <2>2, <3>4 DEF Candidates
  <2> QED  BY <2>1, <2>2
<1> QED  BY <1>2, <1>3, <1>4

LEMMA LiveWithIs ==
  ASSUME NEW view, ViewOK(view), NEW term \in Terms
  PROVE  /\ LiveWith(view, term) \in SUBSET (1 .. BaseLen(view))
         /\ \A i \in 1 .. BaseLen(view) : i \in LiveWith(view, term) <=>
              BaseRef(i) \in Live(view) /\ <<NameOf(view, BaseRef(i)), term>> \in HasTerm
<1> DEFINE n == BaseLen(view)
<1>1. NamesWith(view.base, term) = {i \in 1 .. n : <<view.base.recs[i].name, term>> \in HasTerm}
  BY NamesWithIs DEF ViewOK
<1>2. \A i \in 1 .. n : BaseRef(i) \in Live(view) <=> i \notin view.delta.tombstones
  BY RecordIs
<1>3. \A i \in 1 .. n : NameOf(view, BaseRef(i)) = view.base.recs[i].name
  BY RecordIs DEF NameOf
<1> QED  BY <1>1, <1>2, <1>3 DEF LiveWith

LEMMA HoldersAreDirs ==
  ASSUME NEW view, ViewOK(view), NEW i \in 1 .. BaseLen(view)
  PROVE  \A j \in Holders(view.base, BaseLen(view), i) :
           /\ j \in 1 .. BaseLen(view) /\ j \in BaseDirs(view.base.recs) /\ j # i
           /\ view.base.dfs.positions[i] \in Subtree(view.base.dfs, j)
<1>1. DOMAIN view.base.recs = 1 .. BaseLen(view)
  BY ViewSizes
<1>2. TAKE j \in Holders(view.base, BaseLen(view), i)
<1>3. j \in 1 .. BaseLen(view) /\ j # i /\ view.base.dfs.positions[i] \in Subtree(view.base.dfs, j)
  BY DEF Holders
<1>4. BaseRef(j) \in Above(view, BaseRef(i)) /\ BaseRef(i) \in Refs(view)
  BY AboveBase, RecordIs
<1>5. File(view, BaseRef(j)).is_dir
  BY <1>4, AboveTyped
<1>6. File(view, BaseRef(j)) = FileOf[view.base.recs[j].frn]
  BY <1>3, RecordIs DEF File
<1> QED  BY <1>1, <1>3, <1>5, <1>6 DEF BaseDirs

\* In a term's set: a live record with the term, or one beneath a live directory with it.
Has(view, term) ==
  {i \in 1 .. BaseLen(view) :
     i \in LiveWith(view, term) \/ \E j \in Holders(view.base, BaseLen(view), i) : j \in LiveWith(view, term)}

SetFor(view, term, s) ==
  /\ s \in IntervalSets /\ Positions(s) \in SUBSET (0 .. BaseLen(view) - 1)
  /\ \A i \in 1 .. BaseLen(view) : view.base.dfs.positions[i] \in Positions(s) <=> i \in Has(view, term)

LEMMA IntervalSetBuilt ==
  ASSUME NEW view, ViewOK(view), NEW term \in Terms
  PROVE  SetFor(view, term, build_term_interval_set(view, term))
<1> DEFINE n == BaseLen(view)
           dfs == view.base.dfs
           L == LiveWith(view, term)
           D == BaseDirs(view.base.recs)
           span == [i \in 1 .. n |-> IF i \in D THEN Run(dfs.positions[i], dfs.ends[i])
                                     ELSE Run(dfs.positions[i], dfs.positions[i] + 1)]
           spans == {span[i] : i \in L}
           s == build_term_interval_set(view, term)
<1>1. n \in Nat /\ BaseOK(view.base, n)
  BY ViewSizes DEF ViewOK
<1>2. L \in SUBSET (1 .. n)
  BY LiveWithIs
<1>3. s = Coalesce(spans)
  <2>1. {IF i \in D THEN Run(dfs.positions[i], dfs.ends[i]) ELSE Run(dfs.positions[i], dfs.positions[i] + 1) : i \in L} = spans
    BY <1>2
  <2> QED  BY <2>1 DEF build_term_interval_set
<1>4. \A i \in 1 .. n : /\ dfs.positions[i] \in Nat /\ dfs.positions[i] \in 0 .. n - 1 /\ dfs.ends[i] \in 1 .. n
                        /\ dfs.positions[i] < dfs.ends[i]
  BY <1>1, LayoutTyped
<1>5. \A i \in 1 .. n : /\ span[i] \in Int \X Int /\ span[i][1] = dfs.positions[i]
                        /\ span[i][2] = IF i \in D THEN dfs.ends[i] ELSE dfs.positions[i] + 1
  BY <1>4 DEF Run
<1>6. IsFiniteSet(spans)
  <2>1. spans \subseteq {span[i] : i \in 1 .. n}
    BY <1>2
  <2>2. DOMAIN span = 1 .. n
    OBVIOUS
  <2> HIDE DEF span, spans, n
  <2>3. IsFiniteSet({span[i] : i \in 1 .. n})
    BY <1>1, <2>2, ValuesFinite
  <2> DEFINE G == {span[i] : i \in 1 .. n}
  <2>4. spans \in SUBSET G /\ IsFiniteSet(G)
    BY <2>1, <2>3
  <2> HIDE DEF G
  <2> QED  BY <2>4, FS_Subset
<1>7. Covering(s, UNION {r[1] .. r[2] - 1 : r \in spans})
  <2>1. spans \in SUBSET (Int \X Int)
    BY <1>2, <1>5
  <2> HIDE DEF spans, s
  <2> QED  BY <1>3, <1>6, <2>1, CoalesceCovers
<1>8. \A p \in Int : p \in Positions(s) <=> \E j \in L : span[j][1] <= p /\ p < span[j][2]
  <2>1. \A p \in Int : p \in Positions(s) <=> p \in UNION {r[1] .. r[2] - 1 : r \in spans}
    BY <1>7 DEF Covering
  <2>2. \A p \in Int, j \in 1 .. n : p \in span[j][1] .. span[j][2] - 1 <=> span[j][1] <= p /\ p < span[j][2]
    <3>1. \A j \in 1 .. n : span[j][1] \in Int /\ span[j][2] \in Int
      BY <1>5
    <3> HIDE DEF span
    <3> QED  BY <3>1
  <2> HIDE DEF span, s, L
  <2>3. \A p \in Int : p \in Positions(s) <=> \E j \in L : p \in span[j][1] .. span[j][2] - 1
    BY <2>1
  <2> HIDE DEF spans
  <2>4. ASSUME NEW p \in Int PROVE p \in Positions(s) <=> \E j \in L : span[j][1] <= p /\ p < span[j][2]
    BY <1>2, <2>2, <2>3
  <2> QED  BY <2>4
<1>9. s \in IntervalSets
  BY <1>7 DEF Covering, IntervalSet, IntervalSets
<1> HIDE DEF span, s, L, D
<1>10. Positions(s) \in SUBSET (0 .. n - 1)
  <2>1. Positions(s) \in SUBSET Int
    BY <1>9, PositionsInt DEF IntervalSets
  <2>2. ASSUME NEW p \in Positions(s) PROVE p \in 0 .. n - 1
    <3>1. PICK j \in L : span[j][1] <= p /\ p < span[j][2]
      BY <1>8, <2>1
    <3>2. j \in 1 .. n
      BY <1>2
    <3>3. p \in Int
      BY <2>1
    <3>4. CASE j \in D
      <4>1. dfs.positions[j] <= p /\ p < dfs.ends[j] /\ dfs.ends[j] \in 1 .. n /\ dfs.positions[j] \in Nat
        BY <1>4, <1>5, <3>1, <3>2, <3>4
      <4> QED  BY <1>1, <3>3, <4>1
    <3>5. CASE j \notin D
      <4>1. dfs.positions[j] <= p /\ p < dfs.positions[j] + 1 /\ dfs.positions[j] \in 0 .. n - 1
        BY <1>4, <1>5, <3>1, <3>2, <3>5
      <4> QED  BY <1>1, <3>3, <4>1
    <3> QED  BY <3>4, <3>5
  <2> QED  BY <2>2
<1>11. ASSUME NEW i \in 1 .. n PROVE dfs.positions[i] \in Positions(s) <=> i \in Has(view, term)
  <2>1. ASSUME dfs.positions[i] \in Positions(s) PROVE i \in Has(view, term)
    <3>1. PICK j \in L : span[j][1] <= dfs.positions[i] /\ dfs.positions[i] < span[j][2]
      BY <1>4, <1>8, <2>1
    <3>2. j \in 1 .. n
      BY <1>2
    <3>3. CASE j = i
      BY <3>1, <3>3 DEF Has, L
    <3>4. CASE j # i /\ j \in D
      <4>1. dfs.positions[j] <= dfs.positions[i] /\ dfs.positions[i] < dfs.ends[j]
        BY <1>5, <3>1, <3>2, <3>4
      <4>2. dfs.positions[i] \in Subtree(dfs, j)
        BY <1>4, <3>2, <4>1 DEF Subtree
      <4>3. j \in Holders(view.base, n, i)
        BY <3>2, <3>4, <4>2 DEF Holders
      <4> QED  BY <4>3 DEF Has, L
    <3>5. CASE j # i /\ j \notin D
      <4>1. dfs.positions[j] <= dfs.positions[i] /\ dfs.positions[i] < dfs.positions[j] + 1
        BY <1>5, <3>1, <3>2, <3>5
      <4>2. dfs.positions[j] = dfs.positions[i]
        BY <1>4, <3>2, <4>1
      <4> QED  BY <1>1, <3>2, <3>5, <4>2, LayoutTyped
    <3> QED  BY <3>3, <3>4, <3>5
  <2>2. ASSUME i \in Has(view, term) PROVE dfs.positions[i] \in Positions(s)
    <3>1. CASE i \in L
      <4>1. span[i][1] <= dfs.positions[i] /\ dfs.positions[i] < span[i][2] /\ dfs.positions[i] \in Int
        BY <1>4, <1>5
      <4> QED  BY <1>8, <3>1, <4>1
    <3>2. CASE \E j \in Holders(view.base, n, i) : j \in L
      <4>1. PICK j \in Holders(view.base, n, i) : j \in L
        BY <3>2
      <4>2. j \in 1 .. n /\ j \in D /\ dfs.positions[i] \in Subtree(dfs, j)
        BY HoldersAreDirs DEF D
      <4>3. dfs.positions[j] <= dfs.positions[i] /\ dfs.positions[i] < dfs.ends[j] /\ dfs.positions[i] \in Int
        BY <1>4, <4>2 DEF Subtree
      <4>4. span[j][1] <= dfs.positions[i] /\ dfs.positions[i] < span[j][2]
        BY <1>5, <4>2, <4>3
      <4> QED  BY <1>8, <4>1, <4>3, <4>4
    <3> QED  BY <2>2, <3>1, <3>2 DEF Has, L
  <2> QED  BY <2>1, <2>2
<1> QED  BY <1>9, <1>10, <1>11 DEF SetFor, s

\* The sweep: how far the directories with the term that have begun by p extend.
Sweep(n, dfs, L, D, ends) ==
  /\ ends \in [0 .. n - 1 -> Nat]
  /\ \A p \in 0 .. n - 1, x \in Nat :
       x < ends[p] <=> \E j \in L \cap D : dfs.positions[j] <= p /\ x < dfs.ends[j]

Swept(dfs, L, D, p, before) ==
  LET i == DfsRecord(dfs, p)
  IN  IF p \in {dfs.positions[j] : j \in L} /\ i \in D THEN Max({before, dfs.ends[i]}) ELSE before

Sweeps(n, dfs, L, D, ends) ==
  ends = [p \in 0 .. n - 1 |-> Swept(dfs, L, D, p, IF p = 0 THEN 0 ELSE ends[p - 1])]

SweptTo(dfs, L, D, p, before, s) ==
  s \in Nat /\ \A x \in Nat : x < s <=> x < before \/ \E j \in L \cap D : dfs.positions[j] = p /\ x < dfs.ends[j]

LEMMA SweptIs ==
  ASSUME NEW base, NEW n, BaseOK(base, n), NEW L \in SUBSET (1 .. n), NEW D, NEW p \in 0 .. n - 1, NEW before \in Nat
  PROVE  SweptTo(base.dfs, L, D, p, before, Swept(base.dfs, L, D, p, before))
<1> DEFINE dfs == base.dfs
           i == DfsRecord(dfs, p)
           s == Swept(dfs, L, D, p, before)
<1>1. n \in Nat /\ i \in 1 .. n /\ dfs.positions[i] = p /\ dfs.ends[i] \in Nat
  BY LayoutTyped
<1>2. \A j \in 1 .. n : dfs.positions[j] = p => j = i
  BY <1>1, LayoutTyped
<1>3. p \in {dfs.positions[j] : j \in L} <=> i \in L
  BY <1>1, <1>2
<1>4. s = IF i \in L /\ i \in D THEN Max({before, dfs.ends[i]}) ELSE before
  BY <1>3 DEF Swept
<1>5. Max({before, dfs.ends[i]}) = IF before < dfs.ends[i] THEN dfs.ends[i] ELSE before
  <2> HIDE DEF i
  <2> QED  BY <1>1, Pair
<1> HIDE DEF i, s
<1>6. CASE i \in L /\ i \in D
  <2>1. s = IF before < dfs.ends[i] THEN dfs.ends[i] ELSE before
    BY <1>4, <1>5, <1>6
  <2>2. s \in Nat /\ \A x \in Nat : x < s <=> x < before \/ x < dfs.ends[i]
    BY <1>1, <2>1
  <2>3. \A x \in Nat : x < dfs.ends[i] <=> \E j \in L \cap D : dfs.positions[j] = p /\ x < dfs.ends[j]
    BY <1>1, <1>2, <1>6
  <2> QED  BY <2>2, <2>3 DEF s, SweptTo
<1>7. CASE ~(i \in L /\ i \in D)
  <2>1. s = before
    BY <1>4, <1>7
  <2>2. ~ \E j \in L \cap D : dfs.positions[j] = p
    BY <1>2, <1>7
  <2> QED  BY <2>1, <2>2 DEF s, SweptTo
<1> QED  BY <1>6, <1>7

LEMMA SweepExists ==
  ASSUME NEW base, NEW n, BaseOK(base, n), NEW L \in SUBSET (1 .. n), NEW D
  PROVE  \E ends : Sweeps(n, base.dfs, L, D, ends)
<1> DEFINE S == Nat
           first == 0
           step == [k \in 1 .. n |-> [s \in S |-> Swept(base.dfs, L, D, k - 1, s)]]
<1>1. n \in Nat
  BY LayoutTyped
<1>2. step \in [1 .. n -> [S -> S]]
  <2>1. \A k \in 1 .. n : k - 1 \in 0 .. n - 1
    BY <1>1
  <2>2. \A k \in 1 .. n : \A s \in S : Swept(base.dfs, L, D, k - 1, s) \in S
    BY <2>1, SweptIs DEF SweptTo
  <2> HIDE DEF S
  <2> QED  BY <2>2
<1>3. \A k \in 1 .. n : \A s \in S : step[k][s] = Swept(base.dfs, L, D, k - 1, s)
  OBVIOUS
<1> HIDE DEF step
<1>4. PICK f : Follows(f, n, S, first, step)
  BY <1>1, <1>2, StepsExist DEF Steps
<1>5. /\ f[0] = 0 /\ \A k \in 0 .. n : f[k] \in S
      /\ \A k \in 1 .. n : f[k] = step[k][f[k - 1]] /\ k - 1 \in 0 .. n
  BY <1>1, <1>4 DEF Follows
<1> DEFINE ends == [p \in 0 .. n - 1 |-> f[p + 1]]
<1>6. ASSUME NEW p \in 0 .. n - 1
      PROVE  ends[p] = Swept(base.dfs, L, D, p, IF p = 0 THEN 0 ELSE ends[p - 1])
  <2>1. p + 1 \in 1 .. n /\ (p + 1) - 1 = p /\ p \in 0 .. n
    BY <1>1
  <2>2. ends[p] = f[p + 1] /\ f[p] \in S
    BY <1>5, <2>1
  <2>3. f[p + 1] = Swept(base.dfs, L, D, p, f[p])
    BY <1>3, <1>5, <2>1, <2>2
  <2>4. f[p] = IF p = 0 THEN 0 ELSE ends[p - 1]
    <3>1. CASE p = 0
      BY <1>5, <3>1
    <3>2. CASE p # 0
      <4>1. p - 1 \in 0 .. n - 1 /\ (p - 1) + 1 = p
        BY <1>1, <3>2
      <4> QED  BY <3>2, <4>1
    <3> QED  BY <3>1, <3>2
  <2> HIDE DEF ends
  <2> QED  BY <2>2, <2>3, <2>4
<1>7. ends = [p \in 0 .. n - 1 |-> Swept(base.dfs, L, D, p, IF p = 0 THEN 0 ELSE ends[p - 1])]
  <2>1. ends = [p \in 0 .. n - 1 |-> ends[p]]
    OBVIOUS
  <2> HIDE DEF ends
  <2> QED  BY <1>6, <2>1
<1> HIDE DEF ends
<1> QED  BY <1>7 DEF Sweeps

LEMMA SweepIs ==
  ASSUME NEW base, NEW n, BaseOK(base, n), NEW L \in SUBSET (1 .. n), NEW D, NEW ends,
         Sweeps(n, base.dfs, L, D, ends)
  PROVE  Sweep(n, base.dfs, L, D, ends)
<1> DEFINE pos == base.dfs.positions
           Begun(p, x) == \E j \in L \cap D : pos[j] <= p /\ x < base.dfs.ends[j]
           Good(p) == ends[p] \in Nat /\ \A x \in Nat : x < ends[p] <=> Begun(p, x)
           T == {k \in 0 .. n : \A p \in 0 .. n - 1 : p < k => Good(p)}
<1>1. n \in Nat /\ \A j \in L : pos[j] \in Nat
  BY LayoutTyped
<1>2. ASSUME NEW p \in 0 .. n - 1, p # 0 => Good(p - 1) PROVE Good(p)
  <2> DEFINE before == IF p = 0 THEN 0 ELSE ends[p - 1]
  <2>1. ends[p] = Swept(base.dfs, L, D, p, before)
    BY DEF Sweeps
  <2>2. before \in Nat /\ \A x \in Nat : x < before <=> \E j \in L \cap D : pos[j] < p /\ x < base.dfs.ends[j]
    <3>1. CASE p = 0
      <4>1. \A j \in L : ~(pos[j] < 0)
        BY <1>1
      <4>2. before = 0
        BY <3>1
      <4> HIDE DEF before
      <4> QED  BY <3>1, <4>1, <4>2
    <3>2. CASE p # 0
      <4>1. before = ends[p - 1] /\ before \in Nat /\ \A x \in Nat : x < before <=> Begun(p - 1, x)
        BY <1>2, <3>2
      <4>2. \A j \in L : pos[j] <= p - 1 <=> pos[j] < p
        BY <1>1
      <4> HIDE DEF before
      <4>3. \A x : Begun(p - 1, x) <=> \E j \in L \cap D : pos[j] < p /\ x < base.dfs.ends[j]
        BY <4>2
      <4> HIDE DEF Begun
      <4> QED  BY <4>1, <4>3
    <3> QED  BY <3>1, <3>2
  <2> HIDE DEF before
  <2>3. /\ ends[p] \in Nat
        /\ \A x \in Nat : x < ends[p] <=> x < before \/ \E j \in L \cap D : pos[j] = p /\ x < base.dfs.ends[j]
    <3> DEFINE s == Swept(base.dfs, L, D, p, before)
    <3>1. before \in Nat
      BY <2>2
    <3>2. SweptTo(base.dfs, L, D, p, before, s)
      BY <3>1, SweptIs
    <3> HIDE DEF s
    <3>3. s = ends[p]
      BY <2>1 DEF s
    <3> QED  BY <3>2, <3>3 DEF SweptTo
  <2>4. \A j \in L : pos[j] <= p <=> pos[j] < p \/ pos[j] = p
    BY <1>1
  <2>5. ASSUME NEW x \in Nat PROVE x < ends[p] <=> Begun(p, x)
    BY <2>2, <2>3, <2>4
  <2> HIDE DEF Begun
  <2> QED  BY <2>3, <2>5
<1> HIDE DEF Good
<1>3. ASSUME NEW k \in 1 .. n, k - 1 \in T PROVE k \in T
  <2>1. ASSUME NEW p \in 0 .. n - 1, p < k PROVE Good(p)
    <3>1. CASE p < k - 1
      BY <1>3, <3>1
    <3>2. CASE ~(p < k - 1)
      <4>1. p = k - 1
        BY <1>1, <2>1, <3>2
      <4>2. p # 0 => p - 1 \in 0 .. n - 1 /\ p - 1 < k - 1
        BY <1>1, <4>1
      <4>3. p # 0 => Good(p - 1)
        BY <1>3, <4>2
      <4> QED  BY <1>2, <4>3
    <3> QED  BY <3>1, <3>2
  <2>2. k \in 0 .. n
    BY <1>1
  <2> QED  BY <2>1, <2>2
<1>4. 0 \in T
  BY <1>1
<1>5. \A p \in 0 .. n - 1 : Good(p)
  <2>1. 0 .. n \subseteq T
    <3> HIDE DEF T
    <3> QED  BY <1>1, <1>3, <1>4, UpTo
  <2>2. n \in T
    BY <1>1, <2>1
  <2> QED  BY <1>1, <2>2
<1>6. ends \in [0 .. n - 1 -> Nat]
  <2>1. ends = [p \in 0 .. n - 1 |-> ends[p]]
    BY DEF Sweeps
  <2> QED  BY <1>5, <2>1 DEF Good
<1> QED  BY <1>5, <1>6 DEF Sweep, Good

LEMMA ShortSetBuilt ==
  ASSUME NEW view, ViewOK(view), NEW term \in Terms
  PROVE  SetFor(view, term, build_short_single_term_set(view, term))
<1> DEFINE n == BaseLen(view)
           dfs == view.base.dfs
           L == LiveWith(view, term)
           D == BaseDirs(view.base.recs)
           IsSweep(f) == Sweeps(n, dfs, L, D, f)
           ends == CHOOSE f : IsSweep(f)
           own == {dfs.positions[i] : i \in L}
           points == {p \in 0 .. n - 1 : p \in own \/ p < ends[p]}
           s == build_short_single_term_set(view, term)
<1>1. n \in Nat /\ BaseOK(view.base, n)
  BY ViewSizes DEF ViewOK
<1>2. L \in SUBSET (1 .. n)
  BY LiveWithIs
<1>3. s = OfPoints(points)
  BY DEF build_short_single_term_set, Sweeps, Swept
<1>4. Sweep(n, dfs, L, D, ends)
  <2>1. \E f : IsSweep(f)
    BY <1>1, <1>2, SweepExists
  <2>2. IsSweep(ends)
    <3> HIDE DEF IsSweep
    <3> QED  BY <2>1
  <2> HIDE DEF ends
  <2> QED  BY <1>1, <1>2, <2>2, SweepIs
<1>5. \A i \in 1 .. n : dfs.positions[i] \in Nat /\ dfs.positions[i] \in 0 .. n - 1
  BY <1>1, LayoutTyped
<1> HIDE DEF ends
<1>6. Covering(s, points) /\ points \in SUBSET Int
  <2>1. points \in SUBSET (0 .. n - 1)
    OBVIOUS
  <2> HIDE DEF points, s
  <2>2. points \in SUBSET Int
    BY <2>1
  <2>3. IsFiniteSet(points)
    <3>1. IsFiniteSet(0 .. n - 1)
      BY <1>1, FS_Interval
    <3> QED  BY <2>1, <3>1, FS_Subset
  <2> QED  BY <1>3, <2>2, <2>3, OfPointsCovers
<1>7. s \in IntervalSets
  BY <1>6 DEF Covering, IntervalSet, IntervalSets
<1>8. Positions(s) = points
  <2>1. Positions(s) \in SUBSET Int
    BY <1>7, PositionsInt DEF IntervalSets
  <2>2. \A p \in Int : p \in Positions(s) <=> p \in points
    BY <1>6 DEF Covering
  <2> HIDE DEF s, points
  <2> QED  BY <1>6, <2>1, <2>2
<1>9. ASSUME NEW i \in 1 .. n PROVE dfs.positions[i] \in points <=> i \in Has(view, term)
  <2> DEFINE p == dfs.positions[i]
  <2>1. p \in Nat /\ p \in 0 .. n - 1
    BY <1>5
  <2>2. p \in own <=> i \in L
    BY <1>1, <1>2, LayoutTyped
  <2>3. p < ends[p] <=> \E j \in L \cap D : dfs.positions[j] <= p /\ p < dfs.ends[j]
    <3> HIDE DEF p, D, L
    <3> QED  BY <1>4, <2>1 DEF Sweep
  <2>4. ASSUME NEW j \in L \cap D, dfs.positions[j] <= p, p < dfs.ends[j] PROVE i \in Has(view, term)
    <3>1. CASE j = i
      BY <3>1 DEF Has
    <3>2. CASE j # i
      <4>1. j \in 1 .. n /\ dfs.positions[j] \in Int /\ dfs.ends[j] \in Int
        BY <1>1, <1>2, LayoutTyped
      <4>2. p \in Subtree(dfs, j)
        <5> HIDE DEF p
        <5> QED  BY <2>1, <2>4, <4>1 DEF Subtree
      <4>3. j \in Holders(view.base, n, i)
        BY <3>2, <4>1, <4>2 DEF Holders
      <4> QED  BY <4>3 DEF Has
    <3> QED  BY <3>1, <3>2
  <2>5. ASSUME NEW j \in Holders(view.base, n, i), j \in L PROVE p < ends[p]
    <3>1. j \in 1 .. n /\ j \in D /\ p \in Subtree(dfs, j)
      BY HoldersAreDirs
    <3>2. dfs.positions[j] \in Int /\ dfs.ends[j] \in Int
      BY <1>1, <3>1, LayoutTyped
    <3>3. dfs.positions[j] <= p /\ p < dfs.ends[j]
      <4> HIDE DEF p
      <4> QED  BY <2>1, <3>1, <3>2 DEF Subtree
    <3> QED  BY <2>3, <2>5, <3>1, <3>3
  <2>6. i \in Has(view, term) <=> i \in L \/ \E j \in Holders(view.base, n, i) : j \in L
    BY DEF Has
  <2>7. p \in points <=> i \in L \/ p < ends[p]
    BY <2>1, <2>2
  <2> HIDE DEF p, points, L, D
  <2> QED  BY <2>3, <2>4, <2>5, <2>6, <2>7 DEF p
<1>10. Positions(s) \in SUBSET (0 .. n - 1)
  BY <1>8
<1> HIDE DEF points, s
<1> QED  BY <1>7, <1>8, <1>9, <1>10 DEF SetFor, s

\* The terms of a live record, of a live directory, and of all directories from it up.
Own(view, terms, i) == IF i \in view.delta.tombstones THEN {} ELSE Mask(view.base.recs[i].name, terms)
DirOwn(view, terms, i) == IF i \in BaseDirs(view.base.recs) THEN Own(view, terms, i) ELSE {}
FromUp(view, terms, i) ==
  UNION {DirOwn(view, terms, j) : j \in {i} \cup Holders(view.base, BaseLen(view), i)}

Rows(view, terms, rows) ==
  rows = [hops \in 0 .. BaseLen(view) |->
            [i \in 0 .. BaseLen(view) |->
               IF i = 0 \/ hops = 0 THEN {}
               ELSE DirOwn(view, terms, i) \cup rows[hops - 1][tree_parent(view.base, i)]]]

LEMMA RowsExist ==
  ASSUME NEW view, ViewOK(view), NEW terms
  PROVE  \E rows : Rows(view, terms, rows)
<1> DEFINE n == BaseLen(view)
           S == [0 .. n -> SUBSET DOMAIN terms]
           first == [i \in 0 .. n |-> {}]
           next(row) == [i \in 0 .. n |-> IF i = 0 THEN {}
                                          ELSE DirOwn(view, terms, i) \cup row[tree_parent(view.base, i)]]
           step == [k \in 1 .. n |-> [s \in S |-> next(s)]]
<1>1. n \in Nat /\ BaseOK(view.base, n)
  BY ViewSizes DEF ViewOK
<1>2. \A i \in 0 .. n : i # 0 => tree_parent(view.base, i) \in 0 .. n
  <2>1. \A i \in 1 .. n : tree_parent(view.base, i) \in 0 .. n
    BY <1>1, TreeParentIs
  <2> QED  BY <1>1, <2>1
<1>3. \A i : DirOwn(view, terms, i) \in SUBSET DOMAIN terms
  BY DEF DirOwn, Own, Mask
<1> HIDE DEF n
<1>4. ASSUME NEW s \in S PROVE next(s) \in S
  <2>1. \A i \in 0 .. n : i # 0 => s[tree_parent(view.base, i)] \in SUBSET DOMAIN terms
    BY <1>2
  <2> QED  BY <1>3, <2>1
<1>5. first \in S
  OBVIOUS
<1> HIDE DEF next, S
<1>6. step \in [1 .. n -> [S -> S]]
  BY <1>4
<1>7. \A k \in 1 .. n : \A s \in S : step[k][s] = next(s)
  OBVIOUS
<1> HIDE DEF step, first
<1>8. PICK f : Follows(f, n, S, first, step)
  BY <1>1, <1>5, <1>6, StepsExist DEF Steps
<1>9. /\ f = [k \in 0 .. n |-> f[k]] /\ f[0] = first /\ \A k \in 0 .. n : f[k] \in S
      /\ \A k \in 1 .. n : f[k] = step[k][f[k - 1]] /\ k - 1 \in 0 .. n
  BY <1>1, <1>8 DEF Follows
<1>10. ASSUME NEW k \in 0 .. n
       PROVE  f[k] = [i \in 0 .. n |-> IF i = 0 \/ k = 0 THEN {}
                                       ELSE DirOwn(view, terms, i) \cup f[k - 1][tree_parent(view.base, i)]]
  <2>1. CASE k = 0
    <3>1. f[k] = first
      BY <1>9, <2>1
    <3> QED  BY <2>1, <3>1 DEF first
  <2>2. CASE k # 0
    <3>1. k \in 1 .. n
      BY <1>1, <2>2
    <3>2. f[k] = next(f[k - 1])
      BY <1>7, <1>9, <3>1
    <3> QED  BY <2>2, <3>2 DEF next
  <2> QED  BY <2>1, <2>2
<1>11. Rows(view, terms, f)
  BY <1>9, <1>10 DEF Rows, n
<1> QED  BY <1>11

LEMMA RowsAre ==
  ASSUME NEW view, ViewOK(view), NEW terms, NEW rows, Rows(view, terms, rows)
  PROVE  \A i \in 1 .. BaseLen(view) : rows[BaseLen(view)][i] = FromUp(view, terms, i)
<1> DEFINE n == BaseLen(view)
           pos == view.base.dfs.positions
           T == {k \in 0 .. n : \A i \in 1 .. n : pos[i] < k => rows[k][i] = FromUp(view, terms, i)}
<1>1. n \in Nat /\ BaseOK(view.base, n)
  BY ViewSizes DEF ViewOK
<1>2. \A i \in 1 .. n : pos[i] \in Nat /\ pos[i] < n
  BY <1>1, LayoutTyped
<1>3. ASSUME NEW k \in 0 .. n, NEW i \in 0 .. n
      PROVE  rows[k][i] = IF i = 0 \/ k = 0 THEN {}
                          ELSE DirOwn(view, terms, i) \cup rows[k - 1][tree_parent(view.base, i)]
  <2> DEFINE next(r, h) == [j \in 0 .. n |-> IF j = 0 \/ h = 0 THEN {}
                                             ELSE DirOwn(view, terms, j) \cup r[h - 1][tree_parent(view.base, j)]]
             all(r) == [h \in 0 .. n |-> next(r, h)]
  <2>1. rows = all(rows)
    BY DEF Rows
  <2>2. \A r : next(r, k)[i] = IF i = 0 \/ k = 0 THEN {}
                               ELSE DirOwn(view, terms, i) \cup r[k - 1][tree_parent(view.base, i)]
    OBVIOUS
  <2> HIDE DEF next
  <2>3. \A r : all(r)[k] = next(r, k)
    OBVIOUS
  <2> HIDE DEF all
  <2> QED  BY <2>1, <2>2, <2>3
<1> HIDE DEF n
<1>4. ASSUME NEW k \in 1 .. n, k - 1 \in T PROVE k \in T
  <2>1. k \in 0 .. n /\ k - 1 \in 0 .. n /\ k # 0 /\ 0 \in 0 .. n
    BY <1>1
  <2>2. ASSUME NEW i \in 1 .. n, pos[i] < k PROVE rows[k][i] = FromUp(view, terms, i)
    <3> DEFINE p == tree_parent(view.base, i)
    <3>1. \/ p = 0 /\ Holders(view.base, n, i) = {}
          \/ /\ p \in 1 .. n /\ pos[p] < pos[i]
             /\ Holders(view.base, n, i) = {p} \cup Holders(view.base, n, p)
      BY <1>1, TreeParentIs
    <3>2. rows[k][i] = DirOwn(view, terms, i) \cup rows[k - 1][p]
      <4>1. i \in 0 .. n /\ i # 0
        BY <1>1
      <4> QED  BY <1>3, <2>1, <4>1
    <3> HIDE DEF p
    <3>3. CASE p = 0 /\ Holders(view.base, n, i) = {}
      <4>1. rows[k - 1][p] = {}
        BY <1>3, <2>1, <3>3
      <4> QED  BY <3>2, <3>3, <4>1 DEF FromUp, n
    <3>4. CASE p \in 1 .. n /\ pos[p] < pos[i] /\ Holders(view.base, n, i) = {p} \cup Holders(view.base, n, p)
      <4>1. pos[p] < k - 1
        BY <1>1, <1>2, <2>2, <3>4
      <4>2. rows[k - 1][p] = FromUp(view, terms, p)
        BY <1>4, <3>4, <4>1
      <4> QED  BY <3>2, <3>4, <4>2 DEF FromUp, n
    <3> QED  BY <3>1, <3>3, <3>4
  <2> QED  BY <2>1, <2>2
<1>5. 0 \in T
  <2>1. \A i \in 1 .. n : ~(pos[i] < 0)
    BY <1>2
  <2> QED  BY <1>1, <2>1
<1>6. n \in T
  <2> HIDE DEF T
  <2>1. 0 .. n \subseteq T
    BY <1>1, <1>4, <1>5, UpTo
  <2> QED  BY <1>1, <2>1
<1> QED  BY <1>2, <1>6 DEF n

\* What the base's part of the search finds.
Found(view, terms, s) ==
  /\ s \in IntervalSets /\ Positions(s) \in SUBSET (0 .. BaseLen(view) - 1)
  /\ \A i \in (1 .. BaseLen(view)) \ view.delta.tombstones :
       view.base.dfs.positions[i] \in Positions(s) <=> \A k \in DOMAIN terms : i \in Has(view, terms[k])

\* All terms are met by a live record and its live directories.
LEMMA FromUpIs ==
  ASSUME NEW view, ViewOK(view), NEW terms, \A k \in DOMAIN terms : terms[k] \in Terms,
         NEW i \in (1 .. BaseLen(view)) \ view.delta.tombstones
  PROVE  Own(view, terms, i) \cup FromUp(view, terms, i) = {k \in DOMAIN terms : i \in Has(view, terms[k])}
<1> DEFINE n == BaseLen(view)
           H == Holders(view.base, n, i)
<1>1. \A j \in 1 .. n : \A k \in DOMAIN terms : k \in Own(view, terms, j) <=> j \in LiveWith(view, terms[k])
  <2>1. TAKE j \in 1 .. n
  <2>2. TAKE k \in DOMAIN terms
  <2>3. j \in LiveWith(view, terms[k]) <=> j \notin view.delta.tombstones /\ <<view.base.recs[j].name, terms[k]>> \in HasTerm
    BY LiveWithIs, RecordIs DEF NameOf
  <2> QED  BY <2>3 DEF Own, Mask
<1>2. \A j : Own(view, terms, j) \subseteq DOMAIN terms /\ DirOwn(view, terms, j) \subseteq Own(view, terms, j)
  BY DEF Own, DirOwn, Mask
<1>3. \A j \in H : j \in 1 .. n /\ DirOwn(view, terms, j) = Own(view, terms, j)
  BY HoldersAreDirs DEF DirOwn
<1>4. Own(view, terms, i) \cup FromUp(view, terms, i) = Own(view, terms, i) \cup UNION {Own(view, terms, j) : j \in H}
  <2>1. FromUp(view, terms, i) = DirOwn(view, terms, i) \cup UNION {DirOwn(view, terms, j) : j \in H}
    BY DEF FromUp
  <2> HIDE DEF H
  <2>2. UNION {DirOwn(view, terms, j) : j \in H} = UNION {Own(view, terms, j) : j \in H}
    BY <1>3
  <2> QED  BY <1>2, <2>1, <2>2
<1> DEFINE All == Own(view, terms, i) \cup UNION {Own(view, terms, j) : j \in H}
<1>5. \A k \in DOMAIN terms : k \in All <=> i \in Has(view, terms[k])
  <2>1. TAKE k \in DOMAIN terms
  <2>2. i \in Has(view, terms[k]) <=> i \in LiveWith(view, terms[k]) \/ \E j \in H : j \in LiveWith(view, terms[k])
    BY DEF Has
  <2> HIDE DEF H
  <2>3. k \in All <=> k \in Own(view, terms, i) \/ \E j \in H : k \in Own(view, terms, j)
    OBVIOUS
  <2> QED  BY <1>1, <1>3, <2>2, <2>3
<1>6. All \subseteq DOMAIN terms
  BY <1>2
<1> HIDE DEF All
<1> QED  BY <1>4, <1>5, <1>6 DEF All

LEMMA SeedVerified ==
  ASSUME NEW view, ViewOK(view), NEW terms, \A k \in DOMAIN terms : terms[k] \in Terms,
         NEW first \in DOMAIN terms, NEW seed, SetFor(view, terms[first], seed)
  PROVE  Found(view, terms, verify_path_seed(view, seed, terms))
<1> DEFINE n == BaseLen(view)
           pos == view.base.dfs.positions
           IsRows(f) == Rows(view, terms, f)
           rows == CHOOSE f : IsRows(f)
           Verified(p) ==
             LET i == DfsRecord(view.base.dfs, p)
             IN  i \notin view.delta.tombstones /\ Own(view, terms, i) \cup rows[n][i] = DOMAIN terms
           points == {p \in Positions(seed) : Verified(p)}
           s == verify_path_seed(view, seed, terms)
<1>1. n \in Nat /\ BaseOK(view.base, n)
  BY ViewSizes DEF ViewOK
<1>2. s = OfPoints(points)
  BY DEF verify_path_seed, Rows, DirOwn, Own
<1>3. \A i \in 1 .. n : rows[n][i] = FromUp(view, terms, i)
  <2>1. IsRows(rows)
    <3>1. \E f : IsRows(f)
      BY RowsExist
    <3> HIDE DEF IsRows
    <3> QED  BY <3>1
  <2> HIDE DEF rows
  <2> QED  BY <2>1, RowsAre
<1>4. seed \in IntervalSets /\ Positions(seed) \in SUBSET (0 .. n - 1)
  BY DEF SetFor
<1>5. \A i \in 1 .. n : pos[i] \in 0 .. n - 1 /\ DfsRecord(view.base.dfs, pos[i]) = i
  BY <1>1, LayoutTyped
<1> HIDE DEF rows
<1>6. points \in SUBSET (0 .. n - 1)
  BY <1>4
<1>7. Covering(s, points) /\ points \in SUBSET Int
  <2> HIDE DEF points, s
  <2>1. points \in SUBSET Int
    BY <1>6
  <2>2. IsFiniteSet(points)
    <3>1. IsFiniteSet(0 .. n - 1)
      BY <1>1, FS_Interval
    <3> QED  BY <1>6, <3>1, FS_Subset
  <2> QED  BY <1>2, <2>1, <2>2, OfPointsCovers
<1>8. s \in IntervalSets
  BY <1>7 DEF Covering, IntervalSet, IntervalSets
<1>9. Positions(s) = points
  <2>1. Positions(s) \in SUBSET Int
    BY <1>8, PositionsInt DEF IntervalSets
  <2>2. \A p \in Int : p \in Positions(s) <=> p \in points
    BY <1>7 DEF Covering
  <2> HIDE DEF s, points
  <2> QED  BY <1>7, <2>1, <2>2
<1>10. ASSUME NEW i \in (1 .. n) \ view.delta.tombstones
       PROVE  pos[i] \in points <=> \A k \in DOMAIN terms : i \in Has(view, terms[k])
  <2>1. Verified(pos[i]) <=> Own(view, terms, i) \cup FromUp(view, terms, i) = DOMAIN terms
    <3>1. DfsRecord(view.base.dfs, pos[i]) = i /\ rows[n][i] = FromUp(view, terms, i)
      BY <1>3, <1>5
    <3> QED  BY <3>1
  <2>2. Own(view, terms, i) \cup FromUp(view, terms, i) = {k \in DOMAIN terms : i \in Has(view, terms[k])}
    BY FromUpIs
  <2>3. pos[i] \in Positions(seed) <=> i \in Has(view, terms[first])
    BY DEF SetFor
  <2>4. Verified(pos[i]) <=> \A k \in DOMAIN terms : i \in Has(view, terms[k])
    <3> HIDE DEF Verified
    <3> QED  BY <2>1, <2>2
  <2> HIDE DEF Verified
  <2> QED  BY <2>3, <2>4
<1> HIDE DEF points, s
<1> QED  BY <1>6, <1>8, <1>9, <1>10 DEF Found, s

LEMMA SetsIntersected ==
  ASSUME NEW view, ViewOK(view), NEW m \in Nat \ {0}, NEW terms, DOMAIN terms = 1 .. m,
         NEW sets, DOMAIN sets = 1 .. m, \A k \in 1 .. m : SetFor(view, terms[k], sets[k])
  PROVE  Found(view, terms, FoldTerms(sets))
<1> DEFINE n == BaseLen(view)
           pos == view.base.dfs.positions
           s == FoldTerms(sets)
<1>1. n \in Nat /\ \A i \in 1 .. n : pos[i] \in Int
  <2>1. n \in Nat /\ BaseOK(view.base, n)
    BY ViewSizes DEF ViewOK
  <2> QED  BY <2>1, LayoutTyped
<1>2. \A k \in 1 .. m : sets[k] \in IntervalSets
  BY DEF SetFor
<1>3. s \in IntervalSets /\ \A p \in Int : p \in Positions(s) <=> \A k \in 1 .. m : p \in Positions(sets[k])
  BY <1>2, FoldTermsCovers
<1> HIDE DEF s
<1>4. Positions(s) \in SUBSET (0 .. n - 1)
  <2>1. Positions(s) \in SUBSET Int
    BY <1>3, PositionsInt DEF IntervalSets
  <2>2. 1 \in 1 .. m
    OBVIOUS
  <2>3. \A p \in Positions(s) : p \in Positions(sets[1])
    BY <1>3, <2>1, <2>2
  <2> QED  BY <2>2, <2>3 DEF SetFor
<1>5. \A i \in 1 .. n : pos[i] \in Positions(s) <=> \A k \in 1 .. m : i \in Has(view, terms[k])
  <2>1. TAKE i \in 1 .. n
  <2>2. pos[i] \in Positions(s) <=> \A k \in 1 .. m : pos[i] \in Positions(sets[k])
    BY <1>1, <1>3
  <2>3. \A k \in 1 .. m : pos[i] \in Positions(sets[k]) <=> i \in Has(view, terms[k])
    BY DEF SetFor
  <2> QED  BY <2>2, <2>3
<1> QED  BY <1>3, <1>4, <1>5 DEF Found, s

-----------------------------------------------------------------------------
(* What additions inherit. *)

AboveTerms(view, terms, ref) ==
  {k \in DOMAIN terms : \E r \in Above(view, ref) \cap Live(view) : <<NameOf(view, r), terms[k]>> \in HasTerm}

Inherits(view, terms, sets, p, rest) ==
  IF p[1] = "base"
  THEN {k \in DOMAIN terms : view.base.dfs.positions[p[2]] \in Positions(sets[k])}
  ELSE IF view.delta.added[p[2]].live /\ FileOf[view.delta.added[p[2]].frn].is_dir
  THEN Mask(view.delta.added[p[2]].name, terms) \cup rest
  ELSE {}

Inheritance(view, terms, sets, f) ==
  f = [i \in DOMAIN view.delta.added |->
         Inherits(view, terms, sets, view.delta.added[i].parent, f[view.delta.added[i].parent[2]])]

SetsFor(view, terms, sets) ==
  \A k \in DOMAIN terms : terms[k] \in Terms /\ SetFor(view, terms[k], sets[k])

\* A base record's set says what is in its name and above it.
LEMMA HasIs ==
  ASSUME NEW view, ViewOK(view), NEW term \in Terms, NEW i \in 1 .. BaseLen(view)
  PROVE  i \in Has(view, term) <=>
           \E r \in ({BaseRef(i)} \cup Above(view, BaseRef(i))) \cap Live(view) : <<NameOf(view, r), term>> \in HasTerm
<1> DEFINE n == BaseLen(view)
           H == Holders(view.base, n, i)
           With(r) == r \in Live(view) /\ <<NameOf(view, r), term>> \in HasTerm
<1>1. Above(view, BaseRef(i)) = {BaseRef(j) : j \in H}
  BY AboveBase
<1>2. i \in Has(view, term) <=> i \in LiveWith(view, term) \/ \E j \in H : j \in LiveWith(view, term)
  BY DEF Has
<1>3. \A j \in 1 .. n : j \in LiveWith(view, term) <=> With(BaseRef(j))
  BY LiveWithIs
<1>4. \A j \in H : j \in 1 .. n
  BY DEF Holders
<1> HIDE DEF H, With
<1>5. i \in Has(view, term) <=> \E r \in {BaseRef(i)} \cup Above(view, BaseRef(i)) : With(r)
  BY <1>1, <1>2, <1>3, <1>4
<1> QED  BY <1>5 DEF With

LEMMA InheritsOneStep ==
  ASSUME NEW view, ViewOK(view), NEW terms, NEW sets, SetsFor(view, terms, sets), NEW a \in 1 .. Added(view),
         NEW f, view.delta.added[a].parent[1] = "delta" =>
                  f[view.delta.added[a].parent[2]] = AboveTerms(view, terms, DeltaRef(view.delta.added[a].parent[2]))
  PROVE  Inherits(view, terms, sets, view.delta.added[a].parent, f[view.delta.added[a].parent[2]])
           = AboveTerms(view, terms, DeltaRef(a))
<1> DEFINE p == view.delta.added[a].parent
           With(r, k) == r \in Live(view) /\ <<NameOf(view, r), terms[k]>> \in HasTerm
           rest == f[p[2]]
<1>1. /\ p \in Refs(view)
      /\ Above(view, DeltaRef(a)) = {p} \cup IF p[1] = "delta" /\ p \notin Live(view) THEN {} ELSE Above(view, p)
  BY AboveAdded
<1>2. \/ \E i \in 1 .. BaseLen(view) : p = BaseRef(i)
      \/ \E b \in 1 .. a - 1 : p = DeltaRef(b) /\ view.delta.added[b].frn \in Directories
  BY ParentOfAdded
<1>3. \A ref, k : k \in AboveTerms(view, terms, ref) <=> k \in DOMAIN terms /\ \E r \in Above(view, ref) : With(r, k)
  BY DEF AboveTerms
<1> HIDE DEF p, With
<1>4. CASE \E i \in 1 .. BaseLen(view) : p = BaseRef(i)
  <2>1. PICK i \in 1 .. BaseLen(view) : p = BaseRef(i)
    BY <1>4
  <2>2. p[1] = "base" /\ p[2] = i
    BY <2>1, RefIs
  <2>3. Above(view, DeltaRef(a)) = {BaseRef(i)} \cup Above(view, BaseRef(i))
    BY <1>1, <2>1, <2>2
  <2>4. ASSUME NEW k \in DOMAIN terms
        PROVE  view.base.dfs.positions[i] \in Positions(sets[k]) <=> \E r \in Above(view, DeltaRef(a)) : With(r, k)
    <3>1. terms[k] \in Terms /\ SetFor(view, terms[k], sets[k])
      BY DEF SetsFor
    <3>2. view.base.dfs.positions[i] \in Positions(sets[k]) <=> i \in Has(view, terms[k])
      BY <3>1 DEF SetFor
    <3>3. i \in Has(view, terms[k]) <=> \E r \in Above(view, DeltaRef(a)) : With(r, k)
      BY <2>3, <3>1, HasIs DEF With
    <3> QED  BY <3>2, <3>3
  <2>5. Inherits(view, terms, sets, p, rest) = {k \in DOMAIN terms : view.base.dfs.positions[i] \in Positions(sets[k])}
    BY <2>2 DEF Inherits
  <2> HIDE DEF rest
  <2>6. Inherits(view, terms, sets, p, rest) = AboveTerms(view, terms, DeltaRef(a))
    BY <1>3, <2>4, <2>5
  <2> QED  BY <2>6 DEF p, rest
<1>5. CASE \E b \in 1 .. a - 1 : p = DeltaRef(b) /\ view.delta.added[b].frn \in Directories
  <2>1. PICK b \in 1 .. a - 1 : p = DeltaRef(b) /\ view.delta.added[b].frn \in Directories
    BY <1>5
  <2>2. p[1] = "delta" /\ p[2] = b /\ p[1] # "base"
    BY <2>1, RefIs
  <2>3. b \in 1 .. Added(view)
    BY ViewSizes
  <2>4. FileOf[view.delta.added[b].frn].is_dir
    BY <2>1 DEF Directories
  <2>5. rest = AboveTerms(view, terms, p)
    <3>1. view.delta.added[a].parent[1] = "delta" /\ view.delta.added[a].parent[2] = b
      BY <2>2 DEF p
    <3> QED  BY <2>1, <3>1 DEF rest, p
  <2>6. /\ p \in Live(view) <=> view.delta.added[b].live
        /\ NameOf(view, p) = view.delta.added[b].name
    BY <2>1, <2>3, RecordIs DEF NameOf
  <2>7. Inherits(view, terms, sets, p, rest) = IF p \in Live(view) THEN Mask(NameOf(view, p), terms) \cup rest ELSE {}
    BY <2>2, <2>4, <2>6 DEF Inherits
  <2>8. Above(view, DeltaRef(a)) = {p} \cup IF p \notin Live(view) THEN {} ELSE Above(view, p)
    BY <1>1, <2>2
  <2>9. \A k : k \in Mask(NameOf(view, p), terms) <=> k \in DOMAIN terms /\ <<NameOf(view, p), terms[k]>> \in HasTerm
    BY DEF Mask
  <2> HIDE DEF rest
  <2>10. CASE p \in Live(view)
    <3>1. \A k \in DOMAIN terms : With(p, k) <=> k \in Mask(NameOf(view, p), terms)
      BY <2>9, <2>10 DEF With
    <3>2. \A k : k \in Inherits(view, terms, sets, p, rest) <=> k \in Mask(NameOf(view, p), terms) \/ k \in AboveTerms(view, terms, p)
      BY <2>5, <2>7, <2>10
    <3>3. \A k \in DOMAIN terms : (\E r \in Above(view, DeltaRef(a)) : With(r, k)) <=> With(p, k) \/ \E r \in Above(view, p) : With(r, k)
      BY <2>8, <2>10
    <3>4. \A k : k \in Inherits(view, terms, sets, p, rest) <=> k \in AboveTerms(view, terms, DeltaRef(a))
      BY <1>3, <2>9, <3>1, <3>2, <3>3
    <3>5. Inherits(view, terms, sets, p, rest) \subseteq DOMAIN terms /\ AboveTerms(view, terms, DeltaRef(a)) \subseteq DOMAIN terms
      BY <1>3, <3>4
    <3>6. Inherits(view, terms, sets, p, rest) = AboveTerms(view, terms, DeltaRef(a))
      BY <3>4, <3>5
    <3> QED  BY <3>6 DEF p, rest
  <2>11. CASE p \notin Live(view)
    <3>1. \A k : ~With(p, k)
      BY <2>11 DEF With
    <3>2. AboveTerms(view, terms, DeltaRef(a)) = {}
      BY <1>3, <2>8, <2>11, <3>1
    <3>3. Inherits(view, terms, sets, p, rest) = AboveTerms(view, terms, DeltaRef(a))
      BY <2>7, <2>11, <3>2
    <3> QED  BY <3>3 DEF p, rest
  <2> QED  BY <2>10, <2>11
<1> QED  BY <1>2, <1>4, <1>5

LEMMA InheritanceExists ==
  ASSUME NEW view, ViewOK(view), NEW terms, NEW sets, SetsFor(view, terms, sets)
  PROVE  \E f : Inheritance(view, terms, sets, f)
<1> DEFINE added == view.delta.added
           f == [a \in DOMAIN added |-> AboveTerms(view, terms, DeltaRef(a))]
<1>1. DOMAIN added = 1 .. Added(view) /\ Added(view) \in Nat
  BY ViewSizes
<1>2. ASSUME NEW a \in DOMAIN added PROVE f[a] = Inherits(view, terms, sets, added[a].parent, f[added[a].parent[2]])
  <2>1. a \in 1 .. Added(view)
    BY <1>1
  <2>2. added[a].parent[1] = "delta" => added[a].parent[2] \in DOMAIN added
    BY <1>1, <2>1, ParentOfAdded, RefIs
  <2>3. added[a].parent[1] = "delta" => f[added[a].parent[2]] = AboveTerms(view, terms, DeltaRef(added[a].parent[2]))
    BY <2>2
  <2>4. f[a] = AboveTerms(view, terms, DeltaRef(a))
    OBVIOUS
  <2> HIDE DEF f
  <2> QED  BY <2>1, <2>3, <2>4, InheritsOneStep
<1>3. f = [a \in DOMAIN added |-> f[a]]
  OBVIOUS
<1> HIDE DEF f
<1>4. Inheritance(view, terms, sets, f)
  BY <1>2, <1>3 DEF Inheritance
<1> QED  BY <1>4

LEMMA InheritanceIs ==
  ASSUME NEW view, ViewOK(view), NEW terms, NEW sets, SetsFor(view, terms, sets)
  PROVE  \A a \in 1 .. Added(view) : InheritedByAdded(view, terms, sets)[a] = AboveTerms(view, terms, DeltaRef(a))
<1> DEFINE added == view.delta.added
           m == Added(view)
           Is(g) == Inheritance(view, terms, sets, g)
           f == CHOOSE g : Is(g)
           T == {k \in 0 .. m : \A a \in 1 .. m : a <= k => f[a] = AboveTerms(view, terms, DeltaRef(a))}
<1>1. DOMAIN added = 1 .. m /\ m \in Nat
  BY ViewSizes
<1>2. InheritedByAdded(view, terms, sets) = f
  BY DEF InheritedByAdded, Inheritance, Inherits
<1>3. Inheritance(view, terms, sets, f)
  <2>1. \E g : Is(g)
    BY InheritanceExists
  <2>2. Is(f)
    <3> HIDE DEF Is
    <3> QED  BY <2>1
  <2> QED  BY <2>2
<1> HIDE DEF f
<1>4. ASSUME NEW a \in 1 .. m PROVE f[a] = Inherits(view, terms, sets, added[a].parent, f[added[a].parent[2]])
  <2> DEFINE all(g) == [i \in DOMAIN added |-> Inherits(view, terms, sets, added[i].parent, g[added[i].parent[2]])]
  <2>1. f = all(f)
    BY <1>3 DEF Inheritance
  <2>2. \A g : all(g)[a] = Inherits(view, terms, sets, added[a].parent, g[added[a].parent[2]])
    BY <1>1
  <2> HIDE DEF all
  <2> QED  BY <2>1, <2>2
<1>5. ASSUME NEW k \in 1 .. m, k - 1 \in T PROVE k \in T
  <2>1. ASSUME NEW a \in 1 .. m, a <= k PROVE f[a] = AboveTerms(view, terms, DeltaRef(a))
    <3>1. ASSUME added[a].parent[1] = "delta" PROVE f[added[a].parent[2]] = AboveTerms(view, terms, DeltaRef(added[a].parent[2]))
      <4> DEFINE b == added[a].parent[2]
      <4>1. b \in 1 .. a - 1
        BY <3>1, ParentOfAdded, RefIs
      <4> HIDE DEF b
      <4>2. b \in 1 .. m /\ b <= k - 1
        BY <1>1, <2>1, <4>1
      <4>3. f[b] = AboveTerms(view, terms, DeltaRef(b))
        BY <1>5, <4>2
      <4> QED  BY <4>3 DEF b
    <3>2. Inherits(view, terms, sets, added[a].parent, f[added[a].parent[2]]) = AboveTerms(view, terms, DeltaRef(a))
      BY <3>1, InheritsOneStep
    <3> QED  BY <1>4, <3>2
  <2>2. k \in 0 .. m
    BY <1>1
  <2> QED  BY <2>1, <2>2
<1>6. 0 \in T
  BY <1>1
<1>7. m \in T
  <2> HIDE DEF T
  <2>1. 0 .. m \subseteq T
    BY <1>1, <1>5, <1>6, UpTo
  <2> QED  BY <1>1, <2>1
<1>8. \A a \in 1 .. m : f[a] = AboveTerms(view, terms, DeltaRef(a))
  BY <1>1, <1>7
<1> QED  BY <1>2, <1>8

-----------------------------------------------------------------------------
(* Prefixes. *)

LEMMA LeastIn ==
  ASSUME NEW S \in SUBSET Nat, S # {}
  PROVE  Min(S) \in S /\ \A x \in S : Min(S) <= x
<1>1. PICK some \in S : TRUE
  OBVIOUS
<1>2. PICK least \in S : \A x \in S : least <= x
  BY <1>1, LeastExists
<1> QED  BY <1>2 DEF Min

\* The names that begin with a prefix are together.
LEMMA PrefixRangeIs ==
  ASSUME NEW base, NEW n, BaseOK(base, n), NEW prefix
  PROVE  prefix_range(base, prefix) = {i \in 1 .. n : <<base.recs[i].name, prefix>> \in StartsWith}
<1> DEFINE name(i) == base.recs[i].name
           Begins(i) == <<name(i), prefix>> \in StartsWith
           Earlier(i) == <<name(i), prefix>> \in Before
           M == {i \in 1 .. n : Begins(i)}
           heads == {i \in DOMAIN base.recs : (i - 1) % BUCKET_SIZE = 0 /\ Earlier(i)}
           from == IF heads = {} THEN 1 ELSE Max(heads)
           scanned == from .. Len(base.recs)
           matches == {i \in scanned : Begins(i)}
           after == {i \in scanned \ matches : ~Earlier(i) /\ \E j \in matches : j < i}
<1>1. /\ n \in Nat /\ DOMAIN base.recs = 1 .. n /\ Len(base.recs) = n
      /\ \A i \in 1 .. n : name(i) \in Names
      /\ \A i, j \in 1 .. n : i < j => name(i) <= name(j)
  BY DEF BaseOK
<1>2. \A i \in 1 .. n : ~(Earlier(i) /\ Begins(i))
  BY SearchAssumption DEF TextFacts
<1>3. ASSUME NEW i \in 1 .. n, NEW j \in 1 .. n, i < j
      PROVE  (Earlier(j) => Earlier(i)) /\ (Begins(j) => Earlier(i) \/ Begins(i))
  <2>1. name(i) <= name(j) /\ name(i) \in Names
    BY <1>1, <1>3
  <2> HIDE DEF name
  <2>2. \A p \in Before : name(i) <= p[1] => <<name(i), p[2]>> \in Before
    BY <2>1, SearchAssumption DEF TextFacts
  <2>3. \A p \in StartsWith : name(i) <= p[1] => <<name(i), p[2]>> \in Before \cup StartsWith
    BY <2>1, SearchAssumption DEF TextFacts
  <2>4. <<name(j), prefix>>[1] = name(j) /\ <<name(j), prefix>>[2] = prefix
    OBVIOUS
  <2> QED  BY <2>1, <2>2, <2>3, <2>4
<1>4. prefix = EmptyTerm => \A i \in 1 .. n : Begins(i)
  BY <1>1, SearchAssumption DEF TextFacts
<1>5. prefix_range(base, prefix) =
        IF prefix = EmptyTerm THEN DOMAIN base.recs
        ELSE IF matches = {} THEN {}
        ELSE Min(matches) .. Max({j \in matches : \A i \in after : j < i})
  BY DEF prefix_range
<1> HIDE DEF Begins, Earlier
<1>6. from \in 1 .. n + 1 /\ \A i \in M : from <= i
  <2>1. CASE heads = {}
    BY <1>1, <2>1
  <2>2. CASE heads # {}
    <3>1. heads \in SUBSET (1 .. n) /\ heads \in SUBSET Int
      BY <1>1
    <3>2. IsFiniteSet(heads)
      <4>1. IsFiniteSet(1 .. n)
        BY <1>1, FS_Interval
      <4> HIDE DEF heads
      <4> QED  BY <3>1, <4>1, FS_Subset
    <3>3. Max(heads) \in heads
      <4> HIDE DEF heads
      <4> QED  BY <2>2, <3>1, <3>2, LargestExists
    <3>4. from \in 1 .. n /\ Earlier(from)
      BY <2>2, <3>1, <3>3
    <3> HIDE DEF from
    <3>5. ASSUME NEW i \in M PROVE from <= i
      <4>1. SUFFICES ASSUME i < from PROVE FALSE
        BY <1>1, <3>4
      <4>2. i \in 1 .. n /\ Begins(i)
        OBVIOUS
      <4>3. Earlier(i)
        BY <1>3, <3>4, <4>1, <4>2
      <4> QED  BY <1>2, <4>2, <4>3
    <3> QED  BY <1>1, <3>4, <3>5
  <2> QED  BY <2>1, <2>2
<1> HIDE DEF from
<1>7. matches = M
  BY <1>1, <1>6
<1>8. CASE prefix = EmptyTerm
  <2>1. prefix_range(base, prefix) = 1 .. n
    BY <1>1, <1>5, <1>8
  <2>2. \A i \in 1 .. n : Begins(i)
    BY <1>4, <1>8
  <2>3. M = 1 .. n
    BY <2>2
  <2> QED  BY <2>1, <2>3 DEF M, Begins, name
<1>9. CASE prefix # EmptyTerm /\ M = {}
  <2> HIDE DEF matches, M
  <2>1. prefix_range(base, prefix) = {}
    BY <1>5, <1>7, <1>9
  <2> QED  BY <1>9, <2>1 DEF M, Begins, name
<1>10. CASE prefix # EmptyTerm /\ M # {}
  <2>1. M \in SUBSET Nat /\ M \in SUBSET Int /\ M \in SUBSET (1 .. n)
    BY <1>1
  <2>2. IsFiniteSet(M)
    <3>1. IsFiniteSet(1 .. n)
      BY <1>1, FS_Interval
    <3> HIDE DEF M
    <3> QED  BY <2>1, <3>1, FS_Subset
  <2> DEFINE lo == Min(M)
             hi == Max(M)
  <2>3. lo \in M /\ \A x \in M : lo <= x
    <3> HIDE DEF M
    <3> QED  BY <1>10, <2>1, LeastIn
  <2>4. hi \in M /\ \A x \in M : x <= hi
    <3> HIDE DEF M
    <3> QED  BY <1>10, <2>1, <2>2, LargestExists
  <2>5. ASSUME NEW i \in after, NEW j \in M PROVE j < i
    <3>1. i \in 1 .. n /\ ~Begins(i) /\ ~Earlier(i)
      BY <1>1, <1>6
    <3>2. j \in 1 .. n /\ Begins(j)
      OBVIOUS
    <3>3. ~(i < j)
      BY <1>3, <3>1, <3>2
    <3>4. i # j
      BY <3>1, <3>2
    <3> QED  BY <1>1, <3>1, <3>2, <3>3, <3>4
  <2>6. {j \in matches : \A i \in after : j < i} = M
    <3> HIDE DEF M, after, matches
    <3> QED  BY <1>7, <2>5
  <2>7. prefix_range(base, prefix) = lo .. hi
    <3> HIDE DEF matches, M, after
    <3> QED  BY <1>5, <1>7, <1>10, <2>6
  <2> HIDE DEF lo, hi
  <2>8. ASSUME NEW i \in lo .. hi PROVE i \in M
    <3>1. lo \in 1 .. n /\ hi \in 1 .. n /\ Begins(lo) /\ Begins(hi)
      BY <2>3, <2>4
    <3>2. i \in 1 .. n /\ lo <= i /\ i <= hi
      BY <1>1, <3>1
    <3>3. i = hi \/ Earlier(i) \/ Begins(i)
      BY <1>1, <1>3, <3>1, <3>2
    <3>4. ~Earlier(i)
      <4>1. i = lo \/ (Earlier(i) => Earlier(lo))
        BY <1>1, <1>3, <3>1, <3>2
      <4> QED  BY <1>2, <3>1, <4>1
    <3> QED  BY <3>1, <3>2, <3>3, <3>4
  <2>9. \A i \in M : i \in lo .. hi
    BY <2>1, <2>3, <2>4
  <2>10. lo .. hi = M
    <3> HIDE DEF M
    <3> QED  BY <2>8, <2>9
  <2> QED  BY <2>7, <2>10 DEF M, Begins, name
<1> QED  BY <1>8, <1>9, <1>10

-----------------------------------------------------------------------------
(* Ranks and keys. *)

QueryOK(q) ==
  /\ q.kind \in {"prefix", "substring", "path"} /\ q.terms \in Seq(Terms)
  /\ q.order \in {"relevance", "recent", "largest"} /\ (q.kind # "path" => Len(q.terms) = 1)

LEMMA QueriesOK ==
  ASSUME NEW q \in Queries
  PROVE  QueryOK(q) /\ q.limit \in Nat
BY RefinementAssumption DEF QueryOK

LEMMA TermsTyped ==
  ASSUME NEW q, QueryOK(q)
  PROVE  /\ Len(q.terms) \in Nat /\ DOMAIN q.terms = 1 .. Len(q.terms)
         /\ \A k \in DOMAIN q.terms : q.terms[k] \in Terms
BY DEF QueryOK

LEMMA MaskFinite ==
  ASSUME NEW q, QueryOK(q), NEW name
  PROVE  /\ Mask(name, q.terms) \in SUBSET DOMAIN q.terms /\ Cardinality(Mask(name, q.terms)) \in Nat
         /\ Len(q.terms) - Cardinality(Mask(name, q.terms)) \in Nat
<1> DEFINE m == Len(q.terms)
           M == Mask(name, q.terms)
<1>1. m \in Nat /\ DOMAIN q.terms = 1 .. m
  BY TermsTyped
<1>2. M \in SUBSET (1 .. m)
  BY <1>1 DEF Mask
<1> HIDE DEF M, m
<1>3. IsFiniteSet(1 .. m) /\ Cardinality(1 .. m) = m
  <2>1. IsFiniteSet(1 .. m)
    BY <1>1, FS_Interval
  <2>2. Cardinality(1 .. m) = m
    BY <1>1, FS_Interval
  <2> QED  BY <2>1, <2>2
<1>4. IsFiniteSet(M) /\ Cardinality(M) <= Cardinality(1 .. m)
  BY <1>2, <1>3, FS_Subset
<1>5. Cardinality(M) \in Nat
  BY <1>4, FS_CardinalityType
<1> DEFINE c == Cardinality(M)
<1> HIDE DEF c
<1>6. c \in Nat /\ c <= m
  BY <1>3, <1>4, <1>5 DEF c
<1>7. m - c \in Nat
  BY <1>1, <1>6
<1> QED  BY <1>1, <1>2, <1>6, <1>7 DEF M, m, c

LEMMA QualityNat ==
  ASSUME NEW view, NEW q, QueryOK(q), NEW ref
  PROVE  hit_quality(view, ref, q) \in Nat
<1>1. CASE q.kind = "path"
  BY <1>1, MaskFinite DEF hit_quality
<1>2. CASE q.kind # "path"
  BY <1>2 DEF hit_quality, match_quality
<1> QED  BY <1>1, <1>2

LEMMA BaseOfIs ==
  ASSUME NEW view, ViewOK(view), NEW ref
  PROVE  BaseOf(view, ref) \in 0 .. BaseLen(view)
<1>1. BaseLen(view) \in Nat /\ \A f \in DOMAIN view.base.frns : view.base.frns[f] \in 1 .. BaseLen(view)
  BY DEF ViewOK, BaseOK
<1> QED  BY <1>1 DEF BaseOf, Lookup

LEMMA SizeTyped ==
  ASSUME NEW view, ViewOK(view), NEW ref \in Refs(view)
  PROVE  record_size_kib(view, ref) \in Int /\ record_size_kib(view, ref) <= U32_MAX
<1> DEFINE n == BaseLen(view)
           dfs == view.base.dfs
           prefix == view.base.size_prefix
<1>1. U32_MAX \in Nat
  BY RankingAssumption
<1>2. CASE \E i \in 1 .. n : ref = BaseRef(i)
  <2>1. PICK i \in 1 .. n : ref = BaseRef(i)
    BY <1>2
  <2>2. n \in Nat /\ BaseOK(view.base, n)
    BY ViewSizes DEF ViewOK
  <2>3. dfs.positions[i] + 1 \in 1 .. n + 1 /\ dfs.ends[i] + 1 \in 1 .. n + 1
    <3>1. dfs.positions[i] \in 0 .. n - 1 /\ dfs.ends[i] \in 1 .. n
      BY <2>2, LayoutTyped
    <3> QED  BY <2>2, <3>1
  <2> DEFINE total == prefix[dfs.ends[i] + 1] - prefix[dfs.positions[i] + 1]
  <2>4. total \in Int
    <3>1. \A p \in 1 .. n + 1 : prefix[p] \in Int
      BY <2>2 DEF BaseOK
    <3> QED  BY <2>3, <3>1
  <2>5. record_size_kib(view, ref) = IF total < U32_MAX THEN total ELSE U32_MAX
    BY <2>1, RefIs DEF record_size_kib, RecursiveSize
  <2> HIDE DEF total
  <2> QED  BY <1>1, <2>4, <2>5
<1>3. CASE \E a \in 1 .. Added(view) : ref = DeltaRef(a)
  <2>1. record_size_kib(view, ref) = IF BaseOf(view, ref) # 0 THEN File(view, ref).size ELSE 0
    BY <1>3, RefIs DEF record_size_kib
  <2>2. Record(view.base, view.delta, ref).frn \in DOMAIN FileOf
    BY RecordIs
  <2>3. File(view, ref).size \in 0 .. U32_MAX
    BY <2>2, SearchAssumption DEF File
  <2> QED  BY <1>1, <2>1, <2>3
<1> QED  BY <1>2, <1>3, RefCases

LEMMA BitsNat ==
  ASSUME NEW view, ViewOK(view), NEW ref \in Refs(view), NEW order \in {"relevance", "recent", "largest"},
         NEW quality \in Nat
  PROVE  SortBits(view, order, ref, quality) \in Nat
<1>1. U32_MAX \in Nat /\ NAME_LEN_MAX \in Nat
  BY RankingAssumption
<1>2. CASE order = "relevance"
  <2> DEFINE len == NameLen[NameOf(view, ref)]
             least == IF len < NAME_LEN_MAX THEN len ELSE NAME_LEN_MAX
             width == NAME_LEN_MAX + 1
  <2>1. len \in Nat
    BY RecordIs, SearchAssumption
  <2>2. least \in Nat /\ width \in Nat
    BY <1>1, <2>1
  <2>3. SortBits(view, order, ref, quality) = quality * width + least
    BY <1>2 DEF SortBits, RelevanceBits
  <2> HIDE DEF least, width
  <2>4. (quality * width) \in Nat
    BY <2>2
  <2> QED  BY <2>2, <2>3, <2>4
<1>3. CASE order = "recent"
  <2>1. File(view, ref).mtime \in 0 .. U32_MAX
    BY RecordIs, SearchAssumption DEF File
  <2>2. SortBits(view, order, ref, quality) = U32_MAX - File(view, ref).mtime
    BY <1>3 DEF SortBits, RecentBits
  <2> QED  BY <1>1, <2>1, <2>2
<1>4. CASE order = "largest"
  <2> DEFINE size == IF record_size_exact(view, ref) THEN record_size_kib(view, ref) ELSE 0
  <2>1. size \in Int /\ size <= U32_MAX
    BY <1>1, SizeTyped
  <2>2. SortBits(view, order, ref, quality) = U32_MAX - size
    BY <1>4 DEF SortBits, LargestBits
  <2> HIDE DEF size
  <2> QED  BY <1>1, <2>1, <2>2
<1> QED  BY <1>2, <1>3, <1>4

\* A record's number says which it is.
LEMMA NumberIs ==
  ASSUME NEW view, ViewOK(view), NEW ref \in Refs(view)
  PROVE  /\ Combined(view, ref) \in 1 .. RECORD_SPAN - 1 /\ Combined(view, ref) \in 0 .. RECORD_SPAN - 1
         /\ RefOf(view, Combined(view, ref)) = ref
<1> DEFINE n == BaseLen(view)
           m == Added(view)
<1>1. n \in Nat /\ m \in Nat /\ n + m < RECORD_SPAN /\ RECORD_SPAN \in Nat
  BY ViewSizes, RankingAssumption
<1>2. \A i \in 1 .. n : Combined(view, BaseRef(i)) = i
  BY RecordIs
<1>3. \A a \in 1 .. m : Combined(view, DeltaRef(a)) = n + a
  BY RecordIs
<1>4. \A record : RefOf(view, record) = IF record <= n THEN BaseRef(record) ELSE DeltaRef(record - n)
  BY DEF RefOf
<1>5. (\E i \in 1 .. n : ref = BaseRef(i)) \/ (\E a \in 1 .. m : ref = DeltaRef(a))
  BY RefCases
<1> HIDE DEF n, m
<1>6. CASE \E i \in 1 .. n : ref = BaseRef(i)
  <2>1. PICK i \in 1 .. n : ref = BaseRef(i)
    BY <1>6
  <2>2. Combined(view, ref) = i
    BY <1>2, <2>1
  <2>3. i \in 1 .. RECORD_SPAN - 1 /\ i \in 0 .. RECORD_SPAN - 1 /\ i <= n
    BY <1>1
  <2> QED  BY <1>4, <2>1, <2>2, <2>3
<1>7. CASE \E a \in 1 .. m : ref = DeltaRef(a)
  <2>1. PICK a \in 1 .. m : ref = DeltaRef(a)
    BY <1>7
  <2>2. Combined(view, ref) = n + a
    BY <1>3, <2>1
  <2>3. n + a \in 1 .. RECORD_SPAN - 1 /\ n + a \in 0 .. RECORD_SPAN - 1 /\ ~(n + a <= n) /\ (n + a) - n = a
    BY <1>1
  <2> QED  BY <1>4, <2>1, <2>2, <2>3
<1> QED  BY <1>5, <1>6, <1>7

BitsOf(view, q, ref) == SortBits(view, q.order, ref, hit_quality(view, ref, q))
KeyFor(view, q, ref) == KeyOf(BitsOf(view, q, ref), Combined(view, ref))
KeysFor(view, q, refs) == {KeyFor(view, q, ref) : ref \in refs}

\* A key, as a hit, is its record's.
LEMMA KeyForIs ==
  ASSUME NEW view, ViewOK(view), NEW q, QueryOK(q), NEW ref \in Refs(view)
  PROVE  /\ KeyFor(view, q, ref) \in Nat /\ BitsOf(view, q, ref) \in Nat
         /\ [record |-> key_record(KeyFor(view, q, ref)), rank_bits |-> key_rank_bits(KeyFor(view, q, ref))]
              = RankedHit(view, ref, q)
         /\ RankedHit(view, ref, q).record = Combined(view, ref)
         /\ RankedHit(view, ref, q).rank_bits = BitsOf(view, q, ref)
         /\ RefOf(view, RankedHit(view, ref, q).record) = ref
<1>1. BitsOf(view, q, ref) \in Nat
  <2>1. hit_quality(view, ref, q) \in Nat
    BY QualityNat
  <2> QED  BY <2>1, BitsNat DEF BitsOf, QueryOK
<1>2. Combined(view, ref) \in 0 .. RECORD_SPAN - 1 /\ RefOf(view, Combined(view, ref)) = ref
  BY NumberIs
<1>3. /\ KeyFor(view, q, ref) \in Nat /\ key_record(KeyFor(view, q, ref)) = Combined(view, ref)
      /\ key_rank_bits(KeyFor(view, q, ref)) = BitsOf(view, q, ref)
  BY <1>1, <1>2, KeyDecodes DEF KeyFor
<1> QED  BY <1>1, <1>2, <1>3 DEF RankedHit, BitsOf

\* Of a search for the query, with room for so many: the best of what is wanted.
Matching(view, q) == {r \in Live(view) : Wanted(view, r, q)}

SearchIs(view, q, limit, hits) ==
  \E best : IsBest(best, KeysFor(view, q, Matching(view, q)), limit) /\ hits = Hits(best)

BaseRefs(B) == {BaseRef(i) : i \in B}
DeltaRefs(A) == {DeltaRef(a) : a \in A}

LEMMA RefsFinite ==
  ASSUME NEW view, ViewOK(view)
  PROVE  IsFiniteSet(Refs(view))
<1> DEFINE n == BaseLen(view)
           m == Added(view)
           base == [i \in 1 .. n |-> BaseRef(i)]
           delta == [a \in 1 .. m |-> DeltaRef(a)]
<1>1. n \in Nat /\ m \in Nat
  BY ViewSizes
<1>2. Refs(view) = {base[i] : i \in 1 .. n} \cup {delta[a] : a \in 1 .. m}
  BY DEF Refs
<1>3. DOMAIN base = 1 .. n /\ DOMAIN delta = 1 .. m
  OBVIOUS
<1> HIDE DEF base, delta, n, m
<1>4. IsFiniteSet({base[i] : i \in 1 .. n}) /\ IsFiniteSet({delta[a] : a \in 1 .. m})
  BY <1>1, <1>3, ValuesFinite
<1> QED  BY <1>2, <1>4, FS_Union

LEMMA ImageFinite ==
  ASSUME NEW S, IsFiniteSet(S), NEW f, DOMAIN f = S
  PROVE  IsFiniteSet({f[x] : x \in S})
<1> DEFINE T == {f[x] : x \in S}
<1>1. [x \in S |-> f[x]] \in Surjection(S, T)
  BY DEF Surjection
<1> QED  BY <1>1, FS_Surjection

LEMMA KeySetFor ==
  ASSUME NEW view, ViewOK(view), NEW q, QueryOK(q), NEW refs \in SUBSET Refs(view)
  PROVE  KeySet(KeysFor(view, q, refs))
<1> DEFINE key == [r \in refs |-> KeyFor(view, q, r)]
<1>1. IsFiniteSet(refs)
  BY RefsFinite, FS_Subset
<1>2. KeysFor(view, q, refs) = {key[r] : r \in refs}
  BY DEF KeysFor
<1>3. KeysFor(view, q, refs) \in SUBSET Int
  BY KeyForIs DEF KeysFor
<1>4. DOMAIN key = refs
  OBVIOUS
<1> HIDE DEF key
<1>5. IsFiniteSet({key[r] : r \in refs})
  BY <1>1, <1>4, ImageFinite
<1> QED  BY <1>2, <1>3, <1>5 DEF KeySet

LEMMA KeyForOnce ==
  ASSUME NEW view, ViewOK(view), NEW q, QueryOK(q), NEW r \in Refs(view), NEW s \in Refs(view),
         KeyFor(view, q, r) = KeyFor(view, q, s)
  PROVE  r = s
<1>1. key_record(KeyFor(view, q, r)) = Combined(view, r) /\ RefOf(view, Combined(view, r)) = r
  BY KeyForIs DEF RankedHit
<1>2. key_record(KeyFor(view, q, s)) = Combined(view, s) /\ RefOf(view, Combined(view, s)) = s
  BY KeyForIs DEF RankedHit
<1> QED  BY <1>1, <1>2

LEMMA KeysApart ==
  ASSUME NEW view, ViewOK(view), NEW q, QueryOK(q), NEW R \in SUBSET Refs(view), NEW S \in SUBSET Refs(view)
  PROVE  /\ R \cap S = {} => KeysFor(view, q, R) \cap KeysFor(view, q, S) = {}
         /\ KeysFor(view, q, R \cup S) = KeysFor(view, q, R) \cup KeysFor(view, q, S)
<1>1. ASSUME R \cap S = {}, NEW x \in KeysFor(view, q, R), x \in KeysFor(view, q, S) PROVE FALSE
  <2>1. PICK r \in R : x = KeyFor(view, q, r)
    BY <1>1 DEF KeysFor
  <2>2. PICK s \in S : x = KeyFor(view, q, s)
    BY <1>1 DEF KeysFor
  <2>3. r = s
    BY <2>1, <2>2, KeyForOnce
  <2> QED  BY <1>1, <2>3
<1>2. KeysFor(view, q, R \cup S) = KeysFor(view, q, R) \cup KeysFor(view, q, S)
  BY DEF KeysFor
<1> QED  BY <1>1, <1>2

\* However the base is scanned, the heap ends with the best of all that is found.
HeapOf(view, q, limit, sharded, B, A) ==
  LET heap == IF sharded
              THEN RetainSharded({KeysFor(view, q, BaseRefs(s \cap B)) : s \in BucketShards(BaseLen(view), Threads)}, limit)
              ELSE RetainAll({}, KeysFor(view, q, BaseRefs(B)), limit)
  IN  RetainAll(heap, KeysFor(view, q, DeltaRefs(A)), limit)

LEMMA HeapIsBest ==
  ASSUME NEW view, ViewOK(view), NEW q, QueryOK(q), NEW limit \in Nat, NEW sharded,
         NEW B \in SUBSET (1 .. BaseLen(view)), NEW A \in SUBSET (1 .. Added(view))
  PROVE  IsBest(HeapOf(view, q, limit, sharded, B, A), KeysFor(view, q, BaseRefs(B) \cup DeltaRefs(A)), limit)
<1> DEFINE n == BaseLen(view)
           keys == KeysFor(view, q, BaseRefs(B))
           more == KeysFor(view, q, DeltaRefs(A))
           shards == {KeysFor(view, q, BaseRefs(s \cap B)) : s \in BucketShards(n, Threads)}
           heap == IF sharded THEN RetainSharded(shards, limit) ELSE RetainAll({}, keys, limit)
<1>1. n \in Nat /\ Threads \in Nat \ {0}
  BY ViewSizes, SearchAssumption
<1>2. BaseRefs(B) \in SUBSET Refs(view) /\ DeltaRefs(A) \in SUBSET Refs(view) /\ BaseRefs(B) \cap DeltaRefs(A) = {}
  BY RefIs DEF BaseRefs, DeltaRefs, Refs
<1>3. KeySet(keys) /\ KeySet(more) /\ more \cap keys = {} /\ KeysFor(view, q, BaseRefs(B) \cup DeltaRefs(A)) = keys \cup more
  BY <1>2, KeySetFor, KeysApart
<1>4. UNION shards = keys /\ IsFiniteSet(shards)
  <2>1. UNION BucketShards(n, Threads) = 1 .. n /\ IsFiniteSet(BucketShards(n, Threads))
    BY <1>1, ShardsCover
  <2> DEFINE S == BucketShards(n, Threads)
  <2> HIDE DEF S
  <2>2. \A i \in B : \E s \in S : i \in s
    BY <2>1 DEF S
  <2>3. shards = {KeysFor(view, q, BaseRefs(s \cap B)) : s \in S}
    BY DEF S
  <2>4. \A x : x \in keys <=> \E i \in B : x = KeyFor(view, q, BaseRef(i))
    BY DEF KeysFor, BaseRefs
  <2>5. \A x, s : x \in KeysFor(view, q, BaseRefs(s \cap B)) <=> \E i \in s \cap B : x = KeyFor(view, q, BaseRef(i))
    BY DEF KeysFor, BaseRefs
  <2> DEFINE of == [s \in S |-> KeysFor(view, q, BaseRefs(s \cap B))]
  <2>6. shards = {of[s] : s \in S}
    BY <2>3
  <2>7. IsFiniteSet(shards)
    <3>1. DOMAIN of = S /\ IsFiniteSet(S)
      BY <2>1 DEF S
    <3> HIDE DEF of, shards
    <3> QED  BY <2>6, <3>1, ImageFinite
  <2> HIDE DEF keys, shards
  <2>8. \A x : x \in UNION shards <=> \E s \in S : x \in KeysFor(view, q, BaseRefs(s \cap B))
    BY <2>3
  <2>9. ASSUME NEW x PROVE x \in UNION shards <=> x \in keys
    <3>1. x \in UNION shards <=> \E s \in S : \E i \in s \cap B : x = KeyFor(view, q, BaseRef(i))
      BY <2>5, <2>8
    <3>2. (\E s \in S : \E i \in s \cap B : x = KeyFor(view, q, BaseRef(i))) <=> \E i \in B : x = KeyFor(view, q, BaseRef(i))
      BY <2>2
    <3> QED  BY <2>4, <3>1, <3>2
  <2>10. UNION shards = keys
    BY <2>9
  <2> QED  BY <2>7, <2>10
<1> HIDE DEF keys, more, shards
<1>5. IsBest({}, {}, limit) /\ KeySet({})
  <2>1. IsFiniteSet({}) /\ Cardinality({}) = 0
    BY FS_EmptySet
  <2> QED  BY <2>1 DEF IsBest, KeySet
<1>6. IsBest(heap, keys, limit)
  <2>1. IsBest(RetainAll({}, keys, limit), {} \cup keys, limit)
    BY <1>3, <1>5, RetainAllIsBest
  <2>2. {} \cup keys = keys
    OBVIOUS
  <2>3. IsBest(RetainSharded(shards, limit), keys, limit)
    BY <1>3, <1>4, RetainShardedIsBest
  <2> QED  BY <2>1, <2>2, <2>3
<1> HIDE DEF heap
<1>7. IsBest(RetainAll(heap, more, limit), keys \cup more, limit)
  BY <1>3, <1>6, RetainAllIsBest
<1>8. HeapOf(view, q, limit, sharded, B, A) = RetainAll(heap, more, limit)
  BY DEF HeapOf, heap, more, keys, shards
<1> QED  BY <1>3, <1>7, <1>8

\* What is wanted, in the base and among the additions.
LEMMA MatchingIs ==
  ASSUME NEW view, ViewOK(view), NEW q
  PROVE  /\ Matching(view, q) \in SUBSET Refs(view)
         /\ Matching(view, q) =
              BaseRefs({i \in (1 .. BaseLen(view)) \ view.delta.tombstones : Wanted(view, BaseRef(i), q)})
                \cup DeltaRefs({a \in LiveAdded(view.delta) : Wanted(view, DeltaRef(a), q)})
         /\ LiveAdded(view.delta) \in SUBSET (1 .. Added(view))
<1>1. /\ \A i \in 1 .. BaseLen(view) : BaseRef(i) \in Live(view) <=> i \notin view.delta.tombstones
      /\ \A a \in 1 .. Added(view) : DeltaRef(a) \in Live(view) <=> view.delta.added[a].live
      /\ Live(view) \in SUBSET Refs(view)
  BY RecordIs
<1>2. DOMAIN view.delta.added = 1 .. Added(view)
  BY ViewSizes
<1>3. LiveAdded(view.delta) = {a \in 1 .. Added(view) : DeltaRef(a) \in Live(view)}
  BY <1>1, <1>2 DEF LiveAdded
<1> DEFINE B == {i \in (1 .. BaseLen(view)) \ view.delta.tombstones : Wanted(view, BaseRef(i), q)}
           A == {a \in LiveAdded(view.delta) : Wanted(view, DeltaRef(a), q)}
<1>4. \A r \in Matching(view, q) : r \in BaseRefs(B) \cup DeltaRefs(A)
  <2>1. TAKE r \in Matching(view, q)
  <2>2. r \in Refs(view) /\ r \in Live(view) /\ Wanted(view, r, q)
    BY <1>1 DEF Matching
  <2>3. CASE \E i \in 1 .. BaseLen(view) : r = BaseRef(i)
    BY <1>1, <2>2, <2>3 DEF BaseRefs
  <2>4. CASE \E a \in 1 .. Added(view) : r = DeltaRef(a)
    BY <1>3, <2>2, <2>4 DEF DeltaRefs
  <2> QED  BY <2>2, <2>3, <2>4, RefCases
<1>5. BaseRefs(B) \cup DeltaRefs(A) \subseteq Matching(view, q)
  <2>1. \A i \in B : BaseRef(i) \in Matching(view, q)
    BY <1>1 DEF Matching
  <2>2. \A a \in A : DeltaRef(a) \in Matching(view, q)
    BY <1>3 DEF Matching
  <2> HIDE DEF A, B
  <2> QED  BY <2>1, <2>2 DEF BaseRefs, DeltaRefs
<1>6. Matching(view, q) \in SUBSET Refs(view)
  BY <1>1 DEF Matching
<1>7. Matching(view, q) = BaseRefs(B) \cup DeltaRefs(A)
  <2> HIDE DEF A, B
  <2> QED  BY <1>4, <1>5
<1> QED  BY <1>3, <1>6, <1>7

LEMMA RankedSearchIs ==
  ASSUME NEW view, ViewOK(view), NEW q, QueryOK(q), q.kind \in {"prefix", "substring"}, NEW limit \in Nat
  PROVE  SearchIs(view, q, limit, search_ranked(view, q.kind, q.terms[1], q.order, limit))
<1> DEFINE n == BaseLen(view)
           pattern == q.terms[1]
           tomb == view.delta.tombstones
           X == IF q.kind = "prefix" THEN prefix_range(view.base, pattern) ELSE NamesWith(view.base, pattern)
           Y == IF q.kind = "prefix" THEN StartsWith ELSE HasTerm
           KeysOf(refs) ==
             {sort_key(view, q.order, ref, match_quality(NameOf(view, ref), pattern)) : ref \in refs}
           ShardKeys(s) == KeysOf({BaseRef(i) : i \in (s \cap X) \ tomb})
           sharded == q.kind = "substring" /\ Unfiltered(view.base, pattern)
           added == {DeltaRef(i) : i \in {j \in LiveAdded(view.delta) : <<view.delta.added[j].name, pattern>> \in Y}}
           heap == IF sharded
                   THEN RetainSharded({ShardKeys(s) : s \in BucketShards(Len(view.base.recs), Threads)}, limit)
                   ELSE RetainAll({}, ShardKeys(DOMAIN view.base.recs), limit)
           B == {i \in (1 .. n) \ tomb : Wanted(view, BaseRef(i), q)}
           A == {a \in LiveAdded(view.delta) : Wanted(view, DeltaRef(a), q)}
<1>1. search_ranked(view, q.kind, pattern, q.order, limit) = Hits(RetainAll(heap, KeysOf(added), limit))
  BY DEF search_ranked
<1>2. DOMAIN view.base.recs = 1 .. n /\ Len(view.base.recs) = n /\ BaseOK(view.base, n)
  BY ViewSizes DEF BaseLen, ViewOK
<1>3. pattern \in Terms
  <2>1. 1 \in DOMAIN q.terms
    BY TermsTyped DEF QueryOK
  <2> QED  BY <2>1, TermsTyped
<1>4. \A ref : Wanted(view, ref, q) <=> <<NameOf(view, ref), pattern>> \in Y
  BY DEF Wanted
<1>5. \A refs : KeysOf(refs) = KeysFor(view, q, refs)
  <2>1. \A ref : hit_quality(view, ref, q) = match_quality(NameOf(view, ref), pattern)
    BY DEF hit_quality
  <2>2. \A ref : sort_key(view, q.order, ref, match_quality(NameOf(view, ref), pattern)) = KeyFor(view, q, ref)
    BY <2>1 DEF sort_key, KeyFor, BitsOf
  <2> QED  BY <2>2 DEF KeysFor
<1>6. X = {i \in 1 .. n : <<view.base.recs[i].name, pattern>> \in Y}
  BY <1>2, <1>3, PrefixRangeIs, NamesWithIs
<1>7. \A i \in 1 .. n : NameOf(view, BaseRef(i)) = view.base.recs[i].name
  BY RecordIs DEF NameOf
<1> HIDE DEF X, Y, n, KeysOf
<1>8. X \ tomb = B
  BY <1>4, <1>6, <1>7
<1> HIDE DEF tomb, B
<1>9. \A s : ShardKeys(s) = KeysFor(view, q, BaseRefs(s \cap B))
  <2>1. \A s : (s \cap X) \ tomb = s \cap B
    BY <1>8
  <2> QED  BY <1>5, <2>1 DEF BaseRefs
<1>10. ShardKeys(DOMAIN view.base.recs) = KeysFor(view, q, BaseRefs(B))
  <2>1. (1 .. n) \cap B = B
    BY DEF B
  <2> HIDE DEF ShardKeys
  <2> QED  BY <1>2, <1>9, <2>1
<1>11. KeysOf(added) = KeysFor(view, q, DeltaRefs(A))
  <2>1. \A a \in LiveAdded(view.delta) : NameOf(view, DeltaRef(a)) = view.delta.added[a].name
    <3>1. LiveAdded(view.delta) \in SUBSET (1 .. Added(view))
      BY MatchingIs
    <3> QED  BY <3>1, RecordIs DEF NameOf
  <2>2. added = DeltaRefs(A)
    BY <1>4, <2>1 DEF DeltaRefs
  <2> QED  BY <1>5, <2>2
<1> HIDE DEF ShardKeys, sharded, added, A
<1>12. RetainAll(heap, KeysOf(added), limit) = HeapOf(view, q, limit, sharded, B, A)
  <2>1. {ShardKeys(s) : s \in BucketShards(Len(view.base.recs), Threads)}
          = {KeysFor(view, q, BaseRefs(s \cap B)) : s \in BucketShards(BaseLen(view), Threads)}
    BY <1>2, <1>9 DEF n
  <2> QED  BY <1>10, <1>11, <2>1 DEF HeapOf
<1>13. B \in SUBSET (1 .. BaseLen(view)) /\ A \in SUBSET (1 .. Added(view))
  BY MatchingIs DEF B, A, n
<1>14. Matching(view, q) = BaseRefs(B) \cup DeltaRefs(A)
  BY MatchingIs DEF B, A, n, tomb
<1>15. IsBest(HeapOf(view, q, limit, sharded, B, A), KeysFor(view, q, Matching(view, q)), limit)
  BY <1>13, <1>14, HeapIsBest
<1> QED  BY <1>1, <1>12, <1>15 DEF SearchIs

-----------------------------------------------------------------------------
(* The search by path terms. *)

LEMMA FirstTermIn ==
  ASSUME NEW view, ViewOK(view), NEW q, QueryOK(q), q.terms # <<>>
  PROVE  FirstTerm(view, q.terms) \in DOMAIN q.terms
<1> DEFINE terms == q.terms
           m == Len(terms)
           Blocks(k) == {BlockOf(i) : i \in Candidates(view.base, terms[k])}
           Cost(k) == Cardinality(Blocks(k))
           Cheapest(k) == \A j \in DOMAIN terms : Cost(k) < Cost(j) \/ (Cost(k) = Cost(j) /\ k <= j)
<1>1. m \in Nat /\ DOMAIN terms = 1 .. m /\ 1 \in 1 .. m
  BY TermsTyped DEF QueryOK
<1>2. ASSUME NEW k \in 1 .. m PROVE Cost(k) \in Nat
  <2> DEFINE C == Candidates(view.base, terms[k])
             of == [i \in C |-> BlockOf(i)]
  <2>1. BaseLen(view) \in Nat /\ DOMAIN view.base.recs = 1 .. BaseLen(view)
    BY ViewSizes
  <2>2. C \in SUBSET (1 .. BaseLen(view))
    BY <2>1 DEF Candidates
  <2>3. IsFiniteSet(C)
    <3>1. IsFiniteSet(1 .. BaseLen(view))
      BY <2>1, FS_Interval
    <3> HIDE DEF C
    <3> QED  BY <2>2, <3>1, FS_Subset
  <2> HIDE DEF C
  <2>4. Blocks(k) = {of[i] : i \in C} /\ DOMAIN of = C
    BY DEF C
  <2> HIDE DEF of
  <2>5. IsFiniteSet(Blocks(k))
    <3>1. IsFiniteSet({of[i] : i \in C})
      BY <2>3, <2>4, ImageFinite
    <3> QED  BY <2>4, <3>1
  <2> HIDE DEF Blocks
  <2> QED  BY <2>5, FS_CardinalityType
<1>3. FirstTerm(view, terms) = IF CanPlan(view, terms) THEN CHOOSE k \in DOMAIN terms : Cheapest(k) ELSE 1
  BY DEF FirstTerm
<1> HIDE DEF Cost, m
<1>4. \E k \in 1 .. m : Cheapest(k)
  <2> DEFINE costs == {Cost(k) : k \in 1 .. m}
  <2>1. costs \in SUBSET Nat /\ Cost(1) \in costs
    BY <1>1, <1>2
  <2>2. PICK c \in costs : \A x \in costs : c <= x
    <3> HIDE DEF costs
    <3> QED  BY <2>1, LeastExists
  <2> DEFINE S == {k \in 1 .. m : Cost(k) = c}
  <2>3. S \in SUBSET Nat /\ \E k : k \in S
    BY <1>1, <2>2
  <2>4. PICK k \in S : \A j \in S : k <= j
    <3> HIDE DEF S
    <3> QED  BY <2>3, LeastExists
  <2>5. ASSUME NEW j \in 1 .. m PROVE Cost(k) < Cost(j) \/ (Cost(k) = Cost(j) /\ k <= j)
    <3>1. Cost(k) = c /\ c \in Nat /\ Cost(j) \in Nat /\ c <= Cost(j)
      BY <1>2, <2>1, <2>2
    <3>2. Cost(j) = c => k <= j
      BY <2>4
    <3> QED  BY <3>1, <3>2
  <2>6. k \in 1 .. m
    OBVIOUS
  <2> QED  BY <1>1, <2>5, <2>6
<1> HIDE DEF Cheapest
<1> QED  BY <1>1, <1>3, <1>4

\* Each term in the name, or above.
Meets(view, ref, terms) ==
  \A k \in DOMAIN terms : \E r \in ({ref} \cup Above(view, ref)) \cap Live(view) : <<NameOf(view, r), terms[k]>> \in HasTerm

LEMMA PathWanted ==
  ASSUME NEW view, ViewOK(view), NEW q, q.kind = "path", NEW ref \in Refs(view), ref \in Live(view)
  PROVE  Wanted(view, ref, q) <=>
           Len(q.terms) \in 1 .. MAX_TERMS /\ record_matches_filter(view, ref, q.filter) /\ Meets(view, ref, q.terms)
<1>1. \A x \in Above(view, ref) : File(view, x).is_dir
  BY AboveTyped
<1>2. {ref} \cup {a \in Above(view, ref) \cap Live(view) : File(view, a).is_dir} = ({ref} \cup Above(view, ref)) \cap Live(view)
  BY <1>1
<1>3. Wanted(view, ref, q) <=>
        /\ Len(q.terms) \in 1 .. MAX_TERMS /\ record_matches_filter(view, ref, q.filter)
        /\ \A k \in DOMAIN q.terms :
             \E r \in {ref} \cup {a \in Above(view, ref) \cap Live(view) : File(view, a).is_dir} :
               <<NameOf(view, r), q.terms[k]>> \in HasTerm
  BY DEF Wanted
<1> QED  BY <1>2, <1>3 DEF Meets

LEMMA MeetsBase ==
  ASSUME NEW view, ViewOK(view), NEW q, QueryOK(q), NEW i \in 1 .. BaseLen(view)
  PROVE  Meets(view, BaseRef(i), q.terms) <=> \A k \in DOMAIN q.terms : i \in Has(view, q.terms[k])
<1>1. ASSUME NEW k \in DOMAIN q.terms
      PROVE  i \in Has(view, q.terms[k]) <=>
               \E r \in ({BaseRef(i)} \cup Above(view, BaseRef(i))) \cap Live(view) : <<NameOf(view, r), q.terms[k]>> \in HasTerm
  <2>1. q.terms[k] \in Terms
    BY TermsTyped
  <2> QED  BY <2>1, HasIs
<1> QED  BY <1>1 DEF Meets

LEMMA MeetsAdded ==
  ASSUME NEW view, ViewOK(view), NEW q, QueryOK(q), NEW a \in 1 .. Added(view), DeltaRef(a) \in Live(view)
  PROVE  Meets(view, DeltaRef(a), q.terms) <=>
           Mask(view.delta.added[a].name, q.terms) \cup AboveTerms(view, q.terms, DeltaRef(a)) = DOMAIN q.terms
<1> DEFINE ref == DeltaRef(a)
           With(r, k) == r \in Live(view) /\ <<NameOf(view, r), q.terms[k]>> \in HasTerm
           A == Above(view, ref)
<1>1. NameOf(view, ref) = view.delta.added[a].name
  BY RecordIs DEF NameOf
<1>2. \A k \in DOMAIN q.terms : k \in Mask(view.delta.added[a].name, q.terms) <=> With(ref, k)
  BY <1>1 DEF Mask
<1>3. \A k \in DOMAIN q.terms : k \in AboveTerms(view, q.terms, ref) <=> \E r \in A : With(r, k)
  BY DEF AboveTerms
<1>4. Mask(view.delta.added[a].name, q.terms) \subseteq DOMAIN q.terms /\ AboveTerms(view, q.terms, ref) \subseteq DOMAIN q.terms
  BY DEF Mask, AboveTerms
<1>5. Meets(view, ref, q.terms) <=> \A k \in DOMAIN q.terms : \E r \in {ref} \cup A : With(r, k)
  BY DEF Meets
<1> HIDE DEF With, A, ref
<1>6. Meets(view, ref, q.terms) <=> \A k \in DOMAIN q.terms : With(ref, k) \/ \E r \in A : With(r, k)
  BY <1>5
<1> QED  BY <1>2, <1>3, <1>4, <1>6 DEF ref

\* Where a term's set is empty and no addition has it, nothing is wanted.
LEMMA HopelessIs ==
  ASSUME NEW view, ViewOK(view), NEW q, QueryOK(q), q.kind = "path", NEW k \in DOMAIN q.terms,
         NEW s, SetFor(view, q.terms[k], s), Hopeless(view, q.terms[k], s)
  PROVE  Matching(view, q) = {}
<1>1. SUFFICES ASSUME NEW ref \in Matching(view, q) PROVE FALSE
  OBVIOUS
<1>2. ref \in Refs(view) /\ ref \in Live(view) /\ Wanted(view, ref, q)
  BY MatchingIs DEF Matching
<1>3. PICK r \in ({ref} \cup Above(view, ref)) \cap Live(view) : <<NameOf(view, r), q.terms[k]>> \in HasTerm
  BY <1>2, PathWanted DEF Meets
<1>4. r \in Refs(view) /\ r \in Live(view)
  BY RecordIs
<1>5. s = <<>> /\ \A i \in LiveAdded(view.delta) : <<view.delta.added[i].name, q.terms[k]>> \notin HasTerm
  BY DEF Hopeless
<1>6. CASE \E i \in 1 .. BaseLen(view) : r = BaseRef(i)
  <2>1. PICK i \in 1 .. BaseLen(view) : r = BaseRef(i)
    BY <1>6
  <2>2. i \in LiveWith(view, q.terms[k])
    <3>1. q.terms[k] \in Terms
      BY TermsTyped
    <3> QED  BY <1>3, <1>4, <2>1, <3>1, LiveWithIs
  <2>3. i \in Has(view, q.terms[k])
    BY <2>2 DEF Has
  <2>4. view.base.dfs.positions[i] \in Positions(s)
    BY <2>3 DEF SetFor
  <2>5. Positions(<<>>) = {}
    BY DEF Positions, ToSet
  <2> QED  BY <1>5, <2>4, <2>5
<1>7. CASE \E a \in 1 .. Added(view) : r = DeltaRef(a)
  <2>1. PICK a \in 1 .. Added(view) : r = DeltaRef(a)
    BY <1>7
  <2>2. view.delta.added[a].live /\ NameOf(view, r) = view.delta.added[a].name
    BY <1>4, <2>1, RecordIs DEF NameOf
  <2>3. a \in LiveAdded(view.delta)
    BY <2>2, ViewSizes DEF LiveAdded
  <2> QED  BY <1>3, <1>5, <2>2, <2>3
<1> QED  BY <1>4, <1>6, <1>7, RefCases

LEMMA NothingFound ==
  ASSUME NEW view, NEW q, Matching(view, q) = {}, NEW limit \in Nat
  PROVE  SearchIs(view, q, limit, {})
<1>1. KeysFor(view, q, Matching(view, q)) = {}
  BY DEF KeysFor
<1>2. IsBest({}, {}, limit)
  BY FS_EmptySet DEF IsBest
<1>3. Hits({}) = {}
  BY DEF Hits
<1> QED  BY <1>1, <1>2, <1>3 DEF SearchIs

\* The sets built for the terms.
PathSets(view, terms) ==
  [k \in DOMAIN terms |->
     IF Len(terms) = 1 /\ terms[k] \in ShortTerms
     THEN build_short_single_term_set(view, terms[k])
     ELSE build_term_interval_set(view, terms[k])]

LEMMA PathSetsFor ==
  ASSUME NEW view, ViewOK(view), NEW q, QueryOK(q)
  PROVE  /\ SetsFor(view, q.terms, PathSets(view, q.terms)) /\ DOMAIN PathSets(view, q.terms) = DOMAIN q.terms
         /\ \A k \in DOMAIN q.terms : SetFor(view, q.terms[k], PathSets(view, q.terms)[k])
<1>1. \A k \in DOMAIN q.terms : q.terms[k] \in Terms
  BY TermsTyped
<1>2. ASSUME NEW k \in DOMAIN q.terms PROVE SetFor(view, q.terms[k], PathSets(view, q.terms)[k])
  <2>1. SetFor(view, q.terms[k], build_short_single_term_set(view, q.terms[k]))
    BY <1>1, ShortSetBuilt
  <2>2. SetFor(view, q.terms[k], build_term_interval_set(view, q.terms[k]))
    BY <1>1, IntervalSetBuilt
  <2>3. PathSets(view, q.terms)[k] = IF Len(q.terms) = 1 /\ q.terms[k] \in ShortTerms
                                     THEN build_short_single_term_set(view, q.terms[k])
                                     ELSE build_term_interval_set(view, q.terms[k])
    BY DEF PathSets
  <2> QED  BY <2>1, <2>2, <2>3
<1>3. DOMAIN PathSets(view, q.terms) = DOMAIN q.terms
  BY DEF PathSets
<1> QED  BY <1>1, <1>2, <1>3 DEF SetsFor

\* The records at the positions found that are alive are those that meet all terms.
LEMMA FoundIs ==
  ASSUME NEW view, ViewOK(view), NEW q, QueryOK(q), NEW s, Found(view, q.terms, s)
  PROVE  {DfsRecord(view.base.dfs, p) : p \in Positions(s)} \ view.delta.tombstones
           = {i \in (1 .. BaseLen(view)) \ view.delta.tombstones : Meets(view, BaseRef(i), q.terms)}
<1> DEFINE n == BaseLen(view)
           tomb == view.delta.tombstones
           pos == view.base.dfs.positions
           F == {i \in (1 .. n) \ tomb : Meets(view, BaseRef(i), q.terms)}
           P == Positions(s)
<1>1. n \in Nat /\ BaseOK(view.base, n)
  BY ViewSizes DEF ViewOK
<1>2. /\ \A i \in 1 .. n : DfsRecord(view.base.dfs, pos[i]) = i
      /\ \A p \in 0 .. n - 1 : DfsRecord(view.base.dfs, p) \in 1 .. n /\ pos[DfsRecord(view.base.dfs, p)] = p
  BY <1>1, LayoutTyped
<1>3. P \in SUBSET (0 .. n - 1)
  BY DEF Found
<1>4. \A i \in (1 .. n) \ tomb : pos[i] \in P <=> Meets(view, BaseRef(i), q.terms)
  <2>1. TAKE i \in (1 .. n) \ tomb
  <2>2. pos[i] \in P <=> \A k \in DOMAIN q.terms : i \in Has(view, q.terms[k])
    BY DEF Found
  <2>3. Meets(view, BaseRef(i), q.terms) <=> \A k \in DOMAIN q.terms : i \in Has(view, q.terms[k])
    BY MeetsBase
  <2> QED  BY <2>2, <2>3
<1> HIDE DEF P, tomb, pos, n
<1>5. ASSUME NEW i \in F PROVE \E p \in P : i = DfsRecord(view.base.dfs, p)
  <2>1. pos[i] \in P /\ i \in 1 .. n
    BY <1>4
  <2> QED  BY <1>2, <2>1
<1>6. ASSUME NEW p \in P, DfsRecord(view.base.dfs, p) \notin tomb PROVE DfsRecord(view.base.dfs, p) \in F
  <2> DEFINE i == DfsRecord(view.base.dfs, p)
  <2>1. i \in 1 .. n /\ pos[i] = p
    BY <1>2, <1>3
  <2> HIDE DEF i
  <2>2. i \notin tomb
    BY <1>6 DEF i
  <2>3. i \in F
    BY <1>4, <1>6, <2>1, <2>2
  <2> QED  BY <2>3 DEF i
<1>7. F \cap tomb = {}
  OBVIOUS
<1> HIDE DEF F
<1>8. {DfsRecord(view.base.dfs, p) : p \in P} \ tomb = F
  BY <1>5, <1>6, <1>7
<1> QED  BY <1>8 DEF P, tomb, F, n

LEMMA PathSearchIs ==
  ASSUME NEW view, ViewOK(view), NEW q, QueryOK(q), q.kind = "path", NEW limit \in Nat, NEW fits
  PROVE  SearchIs(view, q, limit, search_path_terms(view, q.terms, q.filter, q.order, limit, fits))
<1> DEFINE n == BaseLen(view)
           terms == q.terms
           tomb == view.delta.tombstones
           sets == PathSets(view, terms)
           first == FirstTerm(view, terms)
           direct == VerifiesSeed(view, terms, sets[first], fits)
           found == IF direct THEN verify_path_seed(view, sets[first], terms) ELSE FoldTerms(sets)
           Unmatched(ref) == Len(terms) - Cardinality(Mask(NameOf(view, ref), terms))
           KeysOf(refs) == {sort_key(view, q.order, ref, Unmatched(ref))
                              : ref \in {r \in refs : record_matches_filter(view, r, q.filter)}}
           F == {DfsRecord(view.base.dfs, p) : p \in Positions(found)} \ tomb
           ShardKeys(s) == KeysOf({BaseRef(i) : i \in s \cap F})
           sharded == DenseParallel(view, q.order, q.filter, found)
           heap == IF sharded
                   THEN RetainSharded({ShardKeys(s) : s \in BucketShards(BaseLen(view), Threads)}, limit)
                   ELSE RetainAll({}, ShardKeys(DOMAIN view.base.recs), limit)
           inherited == InheritedByAdded(view, terms, sets)
           added == {DeltaRef(i) : i \in {j \in LiveAdded(view.delta) :
                                            Mask(view.delta.added[j].name, terms) \cup inherited[j] = DOMAIN terms}}
           found_hits == Hits(RetainAll(heap, KeysOf(added), limit))
           B == {i \in (1 .. n) \ tomb : Wanted(view, BaseRef(i), q)}
           A == {a \in LiveAdded(view.delta) : Wanted(view, DeltaRef(a), q)}
<1>1. search_path_terms(view, terms, q.filter, q.order, limit, fits) =
        IF terms = <<>> \/ Len(terms) > MAX_TERMS THEN {}
        ELSE IF Hopeless(view, terms[first], sets[first]) THEN {}
        ELSE IF ~direct /\ \E k \in DOMAIN terms : Hopeless(view, terms[k], sets[k]) THEN {}
        ELSE found_hits
  BY DEF search_path_terms, PathSets
<1>2. /\ SetsFor(view, terms, sets) /\ DOMAIN sets = DOMAIN terms
      /\ \A k \in DOMAIN terms : SetFor(view, terms[k], sets[k]) /\ terms[k] \in Terms
  BY PathSetsFor, TermsTyped
<1>3. terms # <<>> => first \in DOMAIN terms
  BY FirstTermIn
<1>4. Len(terms) \in Nat /\ DOMAIN terms = 1 .. Len(terms) /\ (terms = <<>> <=> Len(terms) = 0) /\ MAX_TERMS \in Nat
  BY TermsTyped, SearchAssumption DEF QueryOK
<1> HIDE DEF found_hits, direct, sets, first
<1>5. CASE terms = <<>> \/ Len(terms) > MAX_TERMS
  <2>1. Len(terms) \notin 1 .. MAX_TERMS
    BY <1>4, <1>5
  <2>2. Matching(view, q) = {}
    BY <1>5, <2>1 DEF Matching, Wanted
  <2>3. SearchIs(view, q, limit, {})
    BY <2>2, NothingFound
  <2> QED  BY <1>1, <1>5, <2>3
<1>6. ASSUME NEW k \in DOMAIN terms, Hopeless(view, terms[k], sets[k]) PROVE SearchIs(view, q, limit, {})
  <2>1. Matching(view, q) = {}
    BY <1>2, <1>6, HopelessIs
  <2> QED  BY <2>1, NothingFound
<1>7. CASE ~(terms = <<>> \/ Len(terms) > MAX_TERMS)
  <2>1. Len(terms) \in 1 .. MAX_TERMS /\ first \in DOMAIN terms /\ Len(terms) \in Nat \ {0}
    BY <1>3, <1>4, <1>7
  <2>2. Found(view, terms, found)
    <3>1. Found(view, terms, verify_path_seed(view, sets[first], terms))
      BY <1>2, <2>1, SeedVerified
    <3>2. Found(view, terms, FoldTerms(sets))
      BY <1>2, <1>4, <2>1, SetsIntersected
    <3> QED  BY <3>1, <3>2
  <2> HIDE DEF found
  <2>3. F = {i \in (1 .. n) \ tomb : Meets(view, BaseRef(i), terms)}
    BY <2>2, FoundIs
  <2>4. \A i \in (1 .. n) \ tomb :
          Wanted(view, BaseRef(i), q) <=> record_matches_filter(view, BaseRef(i), q.filter) /\ Meets(view, BaseRef(i), terms)
    <3>1. \A i \in (1 .. n) \ tomb : BaseRef(i) \in Refs(view) /\ BaseRef(i) \in Live(view)
      BY RecordIs
    <3> QED  BY <2>1, <3>1, PathWanted
  <2>5. \A refs : KeysOf(refs) = KeysFor(view, q, {r \in refs : record_matches_filter(view, r, q.filter)})
    <3>1. \A ref : hit_quality(view, ref, q) = Unmatched(ref)
      BY DEF hit_quality
    <3>2. \A ref : sort_key(view, q.order, ref, Unmatched(ref)) = KeyFor(view, q, ref)
      BY <3>1 DEF sort_key, KeyFor, BitsOf
    <3> QED  BY <3>2 DEF KeysFor
  <2> HIDE DEF KeysOf, F
  <2>6. \A s : ShardKeys(s) = KeysFor(view, q, BaseRefs(s \cap B))
    <3>1. ASSUME NEW s
          PROVE  {r \in {BaseRef(i) : i \in s \cap F} : record_matches_filter(view, r, q.filter)} = BaseRefs(s \cap B)
      <4>1. \A i : i \in B <=> i \in F /\ record_matches_filter(view, BaseRef(i), q.filter)
        BY <2>3, <2>4
      <4> HIDE DEF B
      <4> QED  BY <4>1 DEF BaseRefs
    <3> QED  BY <2>5, <3>1
  <2>7. DOMAIN view.base.recs = 1 .. n /\ (1 .. n) \cap B = B
    BY ViewSizes
  <2>8. KeysOf(added) = KeysFor(view, q, DeltaRefs(A))
    <3>1. LiveAdded(view.delta) \in SUBSET (1 .. Added(view))
      BY MatchingIs
    <3>2. \A a \in LiveAdded(view.delta) : DeltaRef(a) \in Live(view) /\ DeltaRef(a) \in Refs(view) /\ a \in 1 .. Added(view)
      BY <3>1, RecordIs DEF LiveAdded
    <3>3. \A a \in 1 .. Added(view) : inherited[a] = AboveTerms(view, terms, DeltaRef(a))
      BY <1>2, InheritanceIs
    <3> HIDE DEF inherited
    <3>4. ASSUME NEW a \in LiveAdded(view.delta)
          PROVE  Wanted(view, DeltaRef(a), q) <=>
                   /\ Mask(view.delta.added[a].name, terms) \cup inherited[a] = DOMAIN terms
                   /\ record_matches_filter(view, DeltaRef(a), q.filter)
      <4>1. Wanted(view, DeltaRef(a), q) <=>
              record_matches_filter(view, DeltaRef(a), q.filter) /\ Meets(view, DeltaRef(a), terms)
        BY <2>1, <3>2, PathWanted
      <4>2. Meets(view, DeltaRef(a), terms) <=>
              Mask(view.delta.added[a].name, terms) \cup AboveTerms(view, terms, DeltaRef(a)) = DOMAIN terms
        BY <3>2, MeetsAdded
      <4> QED  BY <3>2, <3>3, <4>1, <4>2
    <3>5. {r \in added : record_matches_filter(view, r, q.filter)} = DeltaRefs(A)
      BY <3>4 DEF DeltaRefs
    <3> HIDE DEF added, A
    <3> QED  BY <2>5, <3>5
  <2> HIDE DEF ShardKeys, sharded, added, A, B, n
  <2>9. RetainAll(heap, KeysOf(added), limit) = HeapOf(view, q, limit, sharded, B, A)
    <3>1. {ShardKeys(s) : s \in BucketShards(BaseLen(view), Threads)}
            = {KeysFor(view, q, BaseRefs(s \cap B)) : s \in BucketShards(BaseLen(view), Threads)}
      BY <2>6
    <3>2. ShardKeys(DOMAIN view.base.recs) = KeysFor(view, q, BaseRefs(B))
      BY <2>6, <2>7
    <3> QED  BY <2>8, <3>1, <3>2 DEF HeapOf
  <2>10. B \in SUBSET (1 .. BaseLen(view)) /\ A \in SUBSET (1 .. Added(view))
    BY MatchingIs DEF B, A, n
  <2>11. Matching(view, q) = BaseRefs(B) \cup DeltaRefs(A)
    BY MatchingIs DEF B, A, n
  <2>12. IsBest(HeapOf(view, q, limit, sharded, B, A), KeysFor(view, q, Matching(view, q)), limit)
    BY <2>10, <2>11, HeapIsBest
  <2>13. SearchIs(view, q, limit, found_hits)
    BY <2>9, <2>12 DEF SearchIs, found_hits
  <2> QED  BY <1>1, <1>6, <1>7, <2>1, <2>13
<1> QED  BY <1>5, <1>7

\* A search finds the best of what is wanted.
THEOREM SearchExact ==
  ASSUME NEW view, ViewOK(view), NEW q, QueryOK(q), NEW limit \in Nat, NEW fits
  PROVE  SearchIs(view, q, limit, search_hits(view, q, limit, fits))
<1>1. CASE q.kind \in {"prefix", "substring"}
  BY <1>1, RankedSearchIs DEF search_hits
<1>2. CASE q.kind = "path"
  BY <1>2, PathSearchIs DEF search_hits
<1> QED  BY <1>1, <1>2 DEF QueryOK

-----------------------------------------------------------------------------
(* Hits. *)

\* What is wanted, and of it those that were found: all if there is room, else the first.
Ahead(x, y) == x.rank_bits < y.rank_bits \/ (x.rank_bits = y.rank_bits /\ x.record < y.record)

FirstOf(hits, all, limit) ==
  /\ hits \subseteq all /\ IsFiniteSet(all)
  /\ Cardinality(hits) = IF Cardinality(all) < limit THEN Cardinality(all) ELSE limit
  /\ \A x \in hits, y \in all \ hits : Ahead(x, y)

HitSet == [record : 1 .. RECORD_SPAN - 1, rank_bits : Nat]

LEMMA RankedHitTyped ==
  ASSUME NEW view, ViewOK(view), NEW q, QueryOK(q), NEW ref \in Refs(view)
  PROVE  RankedHit(view, ref, q) \in HitSet
<1>1. RankedHit(view, ref, q) = [record |-> Combined(view, ref), rank_bits |-> BitsOf(view, q, ref)]
  BY DEF RankedHit, BitsOf
<1> QED  BY <1>1, KeyForIs, NumberIs DEF HitSet

LEMMA ExpectedIs ==
  ASSUME NEW view, ViewOK(view), NEW q, QueryOK(q)
  PROVE  /\ Expected(view, q) = {RankedHit(view, ref, q) : ref \in Matching(view, q)}
         /\ Hits(KeysFor(view, q, Matching(view, q))) = Expected(view, q)
         /\ Expected(view, q) \in SUBSET HitSet /\ IsFiniteSet(Expected(view, q))
         /\ Matching(view, q) \in SUBSET Refs(view)
<1> DEFINE M == Matching(view, q)
           hit(key) == [record |-> key_record(key), rank_bits |-> key_rank_bits(key)]
<1>1. M \in SUBSET Refs(view)
  BY MatchingIs
<1>2. Expected(view, q) = {RankedHit(view, ref, q) : ref \in M}
  BY DEF Expected, Matching
<1>3. Hits(KeysFor(view, q, M)) = {hit(key) : key \in KeysFor(view, q, M)}
  BY DEF Hits
<1> HIDE DEF M
<1>4. \A ref \in M : hit(KeyFor(view, q, ref)) = RankedHit(view, ref, q)
  BY <1>1, KeyForIs
<1> HIDE DEF hit
<1>5. {hit(key) : key \in KeysFor(view, q, M)} = {RankedHit(view, ref, q) : ref \in M}
  BY <1>4 DEF KeysFor
<1>6. Expected(view, q) \in SUBSET HitSet
  BY <1>1, <1>2, RankedHitTyped
<1>7. IsFiniteSet(Expected(view, q))
  <2> DEFINE of == [ref \in M |-> RankedHit(view, ref, q)]
  <2>1. IsFiniteSet(M)
    BY <1>1, RefsFinite, FS_Subset
  <2>2. DOMAIN of = M /\ Expected(view, q) = {of[ref] : ref \in M}
    BY <1>2
  <2> HIDE DEF of
  <2>3. IsFiniteSet({of[ref] : ref \in M})
    BY <2>1, <2>2, ImageFinite
  <2> QED  BY <2>2, <2>3
<1> QED  BY <1>1, <1>2, <1>3, <1>5, <1>6, <1>7 DEF M

LEMMA KeysInOrder ==
  ASSUME NEW a \in Nat, NEW b \in Nat, NEW r \in 0 .. RECORD_SPAN - 1, NEW s \in 0 .. RECORD_SPAN - 1,
         KeyOf(a, r) < KeyOf(b, s)
  PROVE  a < b \/ (a = b /\ r < s)
<1>1. RECORD_SPAN \in Nat \ {0}
  BY RankingAssumption
<1>2. (a * RECORD_SPAN) + r < (b * RECORD_SPAN) + s
  BY DEF KeyOf
<1>3. CASE b < a
  <2>1. PICK c \in Nat : a = b + 1 + c
    <3>1. a - b - 1 \in Nat /\ a = b + 1 + (a - b - 1)
      BY <1>3
    <3> QED  BY <3>1
  <2>2. (a * RECORD_SPAN) = (b * RECORD_SPAN) + RECORD_SPAN + (c * RECORD_SPAN)
    BY <1>1, <2>1
  <2>3. (b * RECORD_SPAN) \in Nat /\ (c * RECORD_SPAN) \in Nat
    BY <1>1
  <2> QED  BY <1>1, <1>2, <2>2, <2>3
<1>4. CASE a = b
  <2>1. (b * RECORD_SPAN) \in Nat
    BY <1>1
  <2> QED  BY <1>1, <1>2, <1>4, <2>1
<1> QED  BY <1>3, <1>4

\* Of the heap's keys: as hits they are the first of those expected.
LEMMA HitsFirst ==
  ASSUME NEW view, ViewOK(view), NEW q, QueryOK(q), NEW limit \in Nat, NEW hits, SearchIs(view, q, limit, hits)
  PROVE  FirstOf(hits, Expected(view, q), limit)
<1> DEFINE M == Matching(view, q)
           keys == KeysFor(view, q, M)
           hit(key) == [record |-> key_record(key), rank_bits |-> key_rank_bits(key)]
           of == [key \in keys |-> hit(key)]
<1>1. PICK best : IsBest(best, keys, limit) /\ hits = Hits(best)
  BY DEF SearchIs
<1>2. best \subseteq keys /\ KeySet(keys)
  <2>1. M \in SUBSET Refs(view)
    BY MatchingIs
  <2> QED  BY <1>1, <2>1, KeySetFor DEF IsBest
<1>3. \A key \in keys : \E ref \in Refs(view) : ref \in M /\ key = KeyFor(view, q, ref)
  BY MatchingIs DEF KeysFor
<1>4. ASSUME NEW key \in keys
      PROVE  \E bits \in Nat, record \in 0 .. RECORD_SPAN - 1 :
               key = KeyOf(bits, record) /\ hit(key) = [record |-> record, rank_bits |-> bits]
  <2>1. PICK ref \in Refs(view) : key = KeyFor(view, q, ref)
    BY <1>3
  <2>2. BitsOf(view, q, ref) \in Nat /\ Combined(view, ref) \in 0 .. RECORD_SPAN - 1
    BY KeyForIs, NumberIs
  <2>3. key = KeyOf(BitsOf(view, q, ref), Combined(view, ref))
    BY <2>1 DEF KeyFor
  <2>4. hit(key) = [record |-> Combined(view, ref), rank_bits |-> BitsOf(view, q, ref)]
    BY <2>2, <2>3, KeyDecodes
  <2> QED  BY <2>2, <2>3, <2>4
<1>5. \A x, y \in keys : hit(x) = hit(y) => x = y
  <2>1. TAKE x, y \in keys
  <2>2. PICK a \in Nat, r \in 0 .. RECORD_SPAN - 1 : x = KeyOf(a, r) /\ hit(x) = [record |-> r, rank_bits |-> a]
    BY <1>4
  <2>3. PICK b \in Nat, s \in 0 .. RECORD_SPAN - 1 : y = KeyOf(b, s) /\ hit(y) = [record |-> s, rank_bits |-> b]
    BY <1>4
  <2> HIDE DEF hit
  <2> QED  BY <2>2, <2>3
<1>6. ASSUME NEW x \in keys, NEW y \in keys, x < y PROVE Ahead(hit(x), hit(y))
  <2>1. PICK a \in Nat, r \in 0 .. RECORD_SPAN - 1 : x = KeyOf(a, r) /\ hit(x) = [record |-> r, rank_bits |-> a]
    BY <1>4
  <2>2. PICK b \in Nat, s \in 0 .. RECORD_SPAN - 1 : y = KeyOf(b, s) /\ hit(y) = [record |-> s, rank_bits |-> b]
    BY <1>4
  <2>3. a < b \/ (a = b /\ r < s)
    BY <1>6, <2>1, <2>2, KeysInOrder
  <2> HIDE DEF hit
  <2> QED  BY <2>1, <2>2, <2>3 DEF Ahead
<1>7. Expected(view, q) = {hit(key) : key \in keys} /\ hits = {hit(key) : key \in best}
  BY <1>1, ExpectedIs DEF Hits
<1> HIDE DEF keys
<1>8. \A key \in keys : of[key] = hit(key)
  OBVIOUS
<1> HIDE DEF hit, of
<1>9. hits \subseteq Expected(view, q)
  BY <1>2, <1>7
<1>10. Cardinality(hits) = Cardinality(best) /\ Cardinality(Expected(view, q)) = Cardinality(keys)
  <2>1. ASSUME NEW K \in SUBSET keys PROVE Cardinality({hit(key) : key \in K}) = Cardinality(K)
    <3> DEFINE V == {hit(key) : key \in K}
               f == [key \in K |-> hit(key)]
    <3>1. IsFiniteSet(K)
      BY <1>2, FS_Subset DEF KeySet
    <3>2. f \in [K -> V] /\ \A v \in V : \E key \in K : f[key] = v
      OBVIOUS
    <3>3. \A x, y \in K : f[x] = f[y] => x = y
      BY <1>5
    <3> HIDE DEF f, V
    <3>a. f \in Surjection(K, V)
      BY <3>2 DEF Surjection
    <3>b. f \in Injection(K, V)
      BY <3>2, <3>3 DEF Injection, IsInjective
    <3>4. f \in Bijection(K, V)
      BY <3>a, <3>b DEF Bijection
    <3>5. Cardinality(K) = Cardinality(V)
      BY <3>1, <3>4, FS_Bijection DEF ExistsBijection
    <3> QED  BY <3>5 DEF V
  <2>2. keys \in SUBSET keys /\ best \in SUBSET keys
    BY <1>2
  <2> QED  BY <1>7, <2>1, <2>2
<1>11. ASSUME NEW x \in hits, NEW y \in Expected(view, q) \ hits PROVE Ahead(x, y)
  <2>1. PICK k \in best : x = hit(k)
    BY <1>7
  <2>2. PICK l \in keys : y = hit(l)
    BY <1>7
  <2>3. l \notin best
    BY <1>7, <1>11, <2>2
  <2>4. k < l
    BY <1>1, <2>3 DEF IsBest
  <2> QED  BY <1>2, <1>6, <2>1, <2>2, <2>4
<1>12. Cardinality(best) = IF Cardinality(keys) < limit THEN Cardinality(keys) ELSE limit
  BY <1>1 DEF IsBest
<1> QED  BY <1>9, <1>10, <1>11, <1>12, ExpectedIs DEF FirstOf

\* A list that is not full is everything.
LEMMA NotFullIsAll ==
  ASSUME NEW hits, NEW all, NEW limit \in Nat, FirstOf(hits, all, limit), Cardinality(hits) < limit
  PROVE  hits = all
<1>1. IsFiniteSet(all) /\ hits \subseteq all /\ Cardinality(all) \in Nat
  BY FS_CardinalityType DEF FirstOf
<1>2. Cardinality(hits) = Cardinality(all)
  BY <1>1 DEF FirstOf
<1> QED  BY <1>1, <1>2, FS_Subset

-----------------------------------------------------------------------------
(* A query that narrows another: filtering what the other wants is enough. *)

Narrows(old, new) ==
  /\ QueryOK(old) /\ QueryOK(new) /\ old.kind = new.kind /\ old.order = new.order
  /\ old.filter = NoFilter /\ new.filter = NoFilter /\ is_refinement(old.terms, new.terms)

LEMMA NoFilterMatches ==
  ASSUME NEW view, ViewOK(view), NEW ref \in Refs(view)
  PROVE  record_matches_filter(view, ref, NoFilter)
<1>1. Record(view.base, view.delta, ref).frn \in DOMAIN FileOf
  BY RecordIs
<1>2. File(view, ref).is_dir \in BOOLEAN /\ File(view, ref).mtime \in 0 .. U32_MAX
  BY <1>1, SearchAssumption DEF File
<1> QED  BY <1>2 DEF record_matches_filter, NoFilter

\* Whatever the longer terms match, the shorter do.
LEMMA NarrowedWanted ==
  ASSUME NEW view, ViewOK(view), NEW old, NEW new, Narrows(old, new), NEW ref \in Refs(view), ref \in Live(view),
         Wanted(view, ref, new)
  PROVE  Wanted(view, ref, old)
<1>1. /\ DOMAIN old.terms = 1 .. Len(old.terms) /\ Len(old.terms) \in Nat
      /\ DOMAIN new.terms = 1 .. Len(new.terms) /\ Len(new.terms) \in Nat
  BY TermsTyped DEF Narrows
<1>2. Len(old.terms) # 0 /\ Len(new.terms) >= Len(old.terms)
  BY DEF Narrows, is_refinement, QueryOK
<1>3. \A k \in DOMAIN old.terms : k \in DOMAIN new.terms /\ <<new.terms[k], old.terms[k]>> \in Extends
  BY <1>1, <1>2 DEF Narrows, is_refinement
<1>4. \A r \in Refs(view) : NameOf(view, r) \in Names
  BY RecordIs
<1>5. \A k \in DOMAIN old.terms : \A name \in Names :
        /\ <<name, new.terms[k]>> \in HasTerm => <<name, old.terms[k]>> \in HasTerm
        /\ <<name, new.terms[k]>> \in StartsWith => <<name, old.terms[k]>> \in StartsWith
  <2>1. TAKE k \in DOMAIN old.terms
  <2>2. TAKE name \in Names
  <2> DEFINE p == <<new.terms[k], old.terms[k]>>
  <2>3. p \in Extends /\ p[1] = new.terms[k] /\ p[2] = old.terms[k]
    BY <1>3
  <2> HIDE DEF p
  <2>4. /\ <<name, p[1]>> \in HasTerm => <<name, p[2]>> \in HasTerm
        /\ <<name, p[1]>> \in StartsWith => <<name, p[2]>> \in StartsWith
    BY <2>3, RefinementAssumption
  <2> QED  BY <2>3, <2>4
<1>6. 1 \in DOMAIN old.terms
  BY <1>1, <1>2
<1>7. CASE old.kind = "prefix" \/ old.kind = "substring"
  BY <1>4, <1>5, <1>6, <1>7 DEF Wanted, Narrows
<1>8. CASE old.kind = "path"
  <2>1. /\ Len(new.terms) \in 1 .. MAX_TERMS /\ Meets(view, ref, new.terms) /\ MAX_TERMS \in Nat
    BY <1>8, PathWanted, SearchAssumption DEF Narrows
  <2>2. Len(old.terms) \in 1 .. MAX_TERMS
    BY <1>1, <1>2, <2>1
  <2>3. Meets(view, ref, old.terms)
    <3>1. ASSUME NEW k \in DOMAIN old.terms
          PROVE  \E r \in ({ref} \cup Above(view, ref)) \cap Live(view) : <<NameOf(view, r), old.terms[k]>> \in HasTerm
      <4>1. PICK r \in ({ref} \cup Above(view, ref)) \cap Live(view) : <<NameOf(view, r), new.terms[k]>> \in HasTerm
        BY <1>3, <2>1 DEF Meets
      <4>2. NameOf(view, r) \in Names
        BY <1>4, RecordIs
      <4> QED  BY <1>5, <4>1, <4>2
    <3> QED  BY <3>1 DEF Meets
  <2>4. record_matches_filter(view, ref, old.filter)
    BY NoFilterMatches DEF Narrows
  <2> QED  BY <1>8, <2>2, <2>3, <2>4, PathWanted
<1> QED  BY <1>7, <1>8 DEF Narrows, QueryOK

\* Of a live record, where its directories are alive: what the filter keeps is wanted.
LEMMA RefinedWanted ==
  ASSUME NEW view, ViewOK(view), NEW old, NEW new, Narrows(old, new), Decided(view, new),
         NEW ref \in Refs(view), ref \in Live(view)
  PROVE  matches_refined(view, ref, new) <=> Wanted(view, ref, new)
<1>1. CASE new.kind = "prefix" \/ new.kind = "substring"
  BY <1>1 DEF matches_refined, Wanted
<1>2. CASE new.kind = "path"
  <2> DEFINE terms == new.terms
             R == {ref} \cup Above(view, ref)
  <2>1. Above(view, ref) \subseteq Live(view)
    BY <1>2 DEF Decided, StrandedIn
  <2>2. Reached(view, ref, terms) = UNION {Mask(NameOf(view, r), terms) : r \in R}
    BY <2>1, ReachedUnstranded
  <2>3. R \cap Live(view) = R
    BY <2>1
  <2> HIDE DEF R
  <2>4. Meets(view, ref, terms) <=> \A k \in DOMAIN terms : \E r \in R : <<NameOf(view, r), terms[k]>> \in HasTerm
    BY <2>3 DEF Meets, R
  <2>5. \A k, r : k \in Mask(NameOf(view, r), terms) <=> k \in DOMAIN terms /\ <<NameOf(view, r), terms[k]>> \in HasTerm
    BY DEF Mask
  <2>6. \A k : k \in Reached(view, ref, terms) <=> \E r \in R : k \in Mask(NameOf(view, r), terms)
    BY <2>2
  <2>7. Reached(view, ref, terms) = DOMAIN terms <=> Meets(view, ref, terms)
    <3>1. \A k : k \in Reached(view, ref, terms) <=> k \in DOMAIN terms /\ \E r \in R : <<NameOf(view, r), terms[k]>> \in HasTerm
      BY <2>5, <2>6
    <3> QED  BY <2>4, <3>1
  <2>8. Len(terms) \in Nat /\ Len(terms) # 0 /\ MAX_TERMS \in Nat
    <3>1. Len(terms) \in Nat /\ Len(old.terms) \in Nat
      BY TermsTyped DEF Narrows
    <3>2. Len(old.terms) # 0 /\ Len(terms) >= Len(old.terms)
      BY DEF Narrows, is_refinement, QueryOK
    <3> QED  BY <3>1, <3>2, SearchAssumption
  <2>9. Wanted(view, ref, new) <=> Len(terms) \in 1 .. MAX_TERMS /\ Meets(view, ref, terms)
    <3>1. record_matches_filter(view, ref, new.filter)
      BY NoFilterMatches DEF Narrows
    <3> QED  BY <1>2, <3>1, PathWanted
  <2>10. matches_refined(view, ref, new) <=> Len(terms) <= MAX_TERMS /\ Reached(view, ref, terms) = DOMAIN terms
    BY <1>2 DEF matches_refined
  <2> QED  BY <2>7, <2>8, <2>9, <2>10
<1> QED  BY <1>1, <1>2 DEF Narrows, QueryOK

\* Ranked for the new terms.
Reranked(view, q, hit) ==
  IF q.order = "relevance"
  THEN [hit EXCEPT !.rank_bits =
          SortBits(view, q.order, RefOf(view, hit.record), hit_quality(view, RefOf(view, hit.record), q))]
  ELSE hit

LEMMA RerankedIs ==
  ASSUME NEW view, ViewOK(view), NEW old, NEW new, Narrows(old, new), NEW ref \in Refs(view)
  PROVE  Reranked(view, new, RankedHit(view, ref, old)) = RankedHit(view, ref, new)
<1> DEFINE hit == RankedHit(view, ref, old)
<1>1. /\ hit.record = Combined(view, ref) /\ RefOf(view, hit.record) = ref
      /\ hit = [record |-> Combined(view, ref), rank_bits |-> BitsOf(view, old, ref)]
  BY KeyForIs DEF Narrows, RankedHit, BitsOf
<1>2. RankedHit(view, ref, new) = [record |-> Combined(view, ref), rank_bits |-> BitsOf(view, new, ref)]
  BY DEF RankedHit, BitsOf
<1> HIDE DEF hit
<1>3. CASE new.order = "relevance"
  <2>1. Reranked(view, new, hit) = [hit EXCEPT !.rank_bits = BitsOf(view, new, ref)]
    BY <1>1, <1>3 DEF Reranked, BitsOf
  <2> QED  BY <1>1, <1>2, <2>1 DEF hit
<1>4. CASE new.order # "relevance"
  <2>1. BitsOf(view, new, ref) = BitsOf(view, old, ref)
    BY <1>4 DEF BitsOf, SortBits, Narrows, QueryOK
  <2>2. Reranked(view, new, hit) = hit
    BY <1>4 DEF Reranked
  <2> QED  BY <1>1, <1>2, <2>1, <2>2 DEF hit
<1> QED  BY <1>3, <1>4

\* Refining does as well as searching again.
THEOREM RefiningExact ==
  ASSUME NEW view, ViewOK(view), NEW old, NEW new, Narrows(old, new), Decided(view, new)
  PROVE  Filtered(view, new, Expected(view, old)) = Expected(view, new)
<1> DEFINE Keeps(ref) == matches_refined(view, ref, new)
<1>1. /\ Expected(view, old) = {RankedHit(view, ref, old) : ref \in Matching(view, old)}
      /\ Expected(view, new) = {RankedHit(view, ref, new) : ref \in Matching(view, new)}
      /\ Matching(view, old) \in SUBSET Refs(view) /\ Matching(view, new) \in SUBSET Refs(view)
  BY ExpectedIs DEF Narrows
<1>2. \A ref \in Refs(view) : RefOf(view, RankedHit(view, ref, old).record) = ref
  BY KeyForIs DEF Narrows
<1>3. \A ref \in Refs(view) : Reranked(view, new, RankedHit(view, ref, old)) = RankedHit(view, ref, new)
  BY RerankedIs
<1>4. \A ref \in Refs(view) : ref \in Matching(view, new) <=> ref \in Matching(view, old) /\ Keeps(ref)
  <2>1. TAKE ref \in Refs(view)
  <2>2. ref \in Live(view) => (Keeps(ref) <=> Wanted(view, ref, new))
    BY RefinedWanted
  <2>3. ref \in Live(view) /\ Wanted(view, ref, new) => Wanted(view, ref, old)
    BY NarrowedWanted
  <2> QED  BY <2>2, <2>3 DEF Matching
<1>5. \A hits : Filtered(view, new, hits) = {Reranked(view, new, h) : h \in {x \in hits : Keeps(RefOf(view, x.record))}}
  BY DEF Filtered, Reranked
<1> HIDE DEF Keeps
<1> DEFINE all == Expected(view, old)
           kept == {x \in all : Keeps(RefOf(view, x.record))}
<1>6. ASSUME NEW h \in kept PROVE Reranked(view, new, h) \in Expected(view, new)
  <2>1. PICK ref \in Matching(view, old) : h = RankedHit(view, ref, old)
    BY <1>1
  <2>2. ref \in Refs(view) /\ Keeps(ref)
    BY <1>1, <1>2, <2>1
  <2> QED  BY <1>1, <1>3, <1>4, <2>1, <2>2
<1>7. ASSUME NEW x \in Expected(view, new) PROVE \E h \in kept : x = Reranked(view, new, h)
  <2>1. PICK ref \in Matching(view, new) : x = RankedHit(view, ref, new)
    BY <1>1
  <2>2. ref \in Refs(view) /\ ref \in Matching(view, old) /\ Keeps(ref)
    BY <1>1, <1>4
  <2>3. RankedHit(view, ref, old) \in kept
    BY <1>1, <1>2, <2>2
  <2> QED  BY <1>3, <2>1, <2>2, <2>3
<1>8. Filtered(view, new, all) = {Reranked(view, new, h) : h \in kept}
  BY <1>5
<1> HIDE DEF kept, all
<1>9. Filtered(view, new, all) = Expected(view, new)
  BY <1>6, <1>7, <1>8
<1> QED  BY <1>9 DEF all

-----------------------------------------------------------------------------
(* What a volume is answered with and what is kept of it. *)

\* Hits that are of a view's records.
HitsOK(view, hits) ==
  /\ hits \in SUBSET HitSet /\ IsFiniteSet(hits)
  /\ \A h \in hits : \E ref \in Refs(view) : h.record = Combined(view, ref)

LEMMA HitsTyped ==
  ASSUME NEW view, NEW hits, HitsOK(view, hits), NEW h \in hits
  PROVE  /\ h.record \in 1 .. RECORD_SPAN - 1 /\ h.rank_bits \in Nat
         /\ h = [record |-> h.record, rank_bits |-> h.rank_bits]
BY DEF HitsOK, HitSet

LEMMA ExpectedOK ==
  ASSUME NEW view, ViewOK(view), NEW q, QueryOK(q), NEW hits \in SUBSET Expected(view, q)
  PROVE  HitsOK(view, hits)
<1>1. /\ Expected(view, q) = {RankedHit(view, ref, q) : ref \in Matching(view, q)}
      /\ Expected(view, q) \in SUBSET HitSet /\ IsFiniteSet(Expected(view, q))
      /\ Matching(view, q) \in SUBSET Refs(view)
  BY ExpectedIs
<1>2. hits \in SUBSET HitSet /\ IsFiniteSet(hits)
  BY <1>1, FS_Subset
<1>3. ASSUME NEW h \in hits PROVE \E ref \in Refs(view) : h.record = Combined(view, ref)
  <2>1. PICK ref \in Refs(view) : h = RankedHit(view, ref, q)
    BY <1>1
  <2> QED  BY <2>1, KeyForIs
<1> QED  BY <1>2, <1>3 DEF HitsOK

LEMMA FilteredOK ==
  ASSUME NEW view, ViewOK(view), NEW q, QueryOK(q), NEW hits, HitsOK(view, hits)
  PROVE  HitsOK(view, Filtered(view, q, hits))
<1> DEFINE kept == {h \in hits : matches_refined(view, RefOf(view, h.record), q)}
           of == [h \in kept |-> Reranked(view, q, h)]
<1>1. Filtered(view, q, hits) = {of[h] : h \in kept} /\ DOMAIN of = kept
  BY DEF Filtered, Reranked
<1>2. ASSUME NEW h \in kept
      PROVE  of[h] \in HitSet /\ \E ref \in Refs(view) : of[h].record = Combined(view, ref)
  <2>1. /\ h.record \in 1 .. RECORD_SPAN - 1 /\ h.rank_bits \in Nat
        /\ h = [record |-> h.record, rank_bits |-> h.rank_bits]
    BY HitsTyped
  <2>2. PICK ref \in Refs(view) : h.record = Combined(view, ref)
    BY DEF HitsOK
  <2>3. RefOf(view, h.record) = ref /\ BitsOf(view, q, ref) \in Nat
    BY <2>2, NumberIs, KeyForIs
  <2>4. of[h] = Reranked(view, q, h)
    OBVIOUS
  <2> HIDE DEF of, kept
  <2>5. Reranked(view, q, h) = IF q.order = "relevance" THEN [h EXCEPT !.rank_bits = BitsOf(view, q, ref)] ELSE h
    BY <2>3 DEF Reranked, BitsOf
  <2>6. /\ Reranked(view, q, h).record = h.record
        /\ Reranked(view, q, h) \in HitSet
    BY <2>1, <2>3, <2>5 DEF HitSet
  <2> QED  BY <2>2, <2>4, <2>6
<1>3. IsFiniteSet(kept)
  BY FS_Subset DEF HitsOK
<1> HIDE DEF of, kept
<1>4. IsFiniteSet({of[h] : h \in kept})
  BY <1>1, <1>3, ImageFinite
<1> QED  BY <1>1, <1>2, <1>4 DEF HitsOK

-----------------------------------------------------------------------------
(* The hits of all volumes together. *)

LEMMA VolumesFinite ==
  IsFiniteSet(Volumes) /\ Volumes \in SUBSET Int /\ Volumes \in SUBSET (Nat \ {0})
<1>1. Volumes = 1 .. Cardinality(Volumes) /\ Cardinality(Volumes) \in Nat
  BY RefinementAssumption
<1>2. IsFiniteSet(1 .. Cardinality(Volumes))
  BY <1>1, FS_Interval
<1>3. \A n \in Nat : (1 .. n) \in SUBSET Int /\ (1 .. n) \in SUBSET (Nat \ {0})
  OBVIOUS
<1> QED  BY <1>1, <1>2, <1>3

Ranked(v, hits) == {<<h.rank_bits, v, h.record>> : h \in hits}
AllRanked(hits) == UNION {Ranked(v, hits[v]) : v \in Volumes}

HitLists(hits) == \A v \in Volumes : hits[v] \in SUBSET HitSet /\ IsFiniteSet(hits[v])

LEMMA HitIs ==
  ASSUME NEW h \in HitSet
  PROVE  /\ h.rank_bits \in Nat /\ h.record \in 1 .. RECORD_SPAN - 1 /\ h.record \in Int
         /\ h = [record |-> h.record, rank_bits |-> h.rank_bits]
<1>1. \A n \in 1 .. RECORD_SPAN - 1 : n \in Int
  OBVIOUS
<1> QED  BY <1>1 DEF HitSet

\* One triple for each hit.
LEMMA RankedCounts ==
  ASSUME NEW v \in Volumes, NEW hits \in SUBSET HitSet, IsFiniteSet(hits)
  PROVE  /\ IsFiniteSet(Ranked(v, hits)) /\ Cardinality(Ranked(v, hits)) = Cardinality(hits)
         /\ Ranked(v, hits) \in SUBSET Triples
<1> DEFINE T == Ranked(v, hits)
           of == [h \in hits |-> <<h.rank_bits, v, h.record>>]
<1>1. of \in [hits -> T] /\ \A t \in T : \E h \in hits : of[h] = t
  BY DEF Ranked
<1>2. \A g, h \in hits : of[g] = of[h] => g = h
  <2> TAKE g \in hits, h \in hits
  <2>1. /\ g = [record |-> g.record, rank_bits |-> g.rank_bits]
        /\ h = [record |-> h.record, rank_bits |-> h.rank_bits]
    BY HitIs
  <2>2. of[g] = of[h] => g.record = h.record /\ g.rank_bits = h.rank_bits
    OBVIOUS
  <2> QED  BY <2>1, <2>2
<1>3. T \in SUBSET Triples
  <2>1. \A h \in hits : h.rank_bits \in Int /\ v \in Int /\ h.record \in Int
    BY HitIs, VolumesFinite
  <2> QED  BY <2>1 DEF Ranked, Triples
<1> HIDE DEF of, T
<1>4. of \in Surjection(hits, T) /\ of \in Injection(hits, T)
  BY <1>1, <1>2 DEF Surjection, Injection, IsInjective
<1>5. of \in Bijection(hits, T)
  BY <1>4 DEF Bijection
<1>6. IsFiniteSet(T) /\ Cardinality(T) = Cardinality(hits)
  <2>1. ExistsBijection(hits, T)
    BY <1>5 DEF ExistsBijection
  <2> QED  BY <2>1, FS_Bijection, FS_Surjection, <1>4
<1> QED  BY <1>3, <1>6 DEF T

LEMMA AllRankedTyped ==
  ASSUME NEW hits, HitLists(hits)
  PROVE  /\ IsFiniteSet(AllRanked(hits)) /\ AllRanked(hits) \in SUBSET Triples
         /\ \A t : t \in AllRanked(hits) <=> \E v \in Volumes : \E h \in hits[v] : t = <<h.rank_bits, v, h.record>>
<1>1. \A v \in Volumes : IsFiniteSet(Ranked(v, hits[v])) /\ Ranked(v, hits[v]) \in SUBSET Triples
  BY RankedCounts DEF HitLists
<1>2. \A t : t \in AllRanked(hits) <=> \E v \in Volumes : t \in Ranked(v, hits[v])
  BY DEF AllRanked
<1>3. AllRanked(hits) \in SUBSET Triples
  BY <1>1, <1>2
<1>4. IsFiniteSet(AllRanked(hits))
  <2> DEFINE of == [v \in Volumes |-> Ranked(v, hits[v])]
             sets == {of[v] : v \in Volumes}
  <2>1. IsFiniteSet(sets)
    BY ImageFinite, VolumesFinite
  <2>2. \A s \in sets : IsFiniteSet(s)
    BY <1>1
  <2>3. AllRanked(hits) = UNION sets
    BY DEF AllRanked
  <2> HIDE DEF sets
  <2> QED  BY <2>1, <2>2, <2>3, FS_UNION
<1>5. \A t : t \in AllRanked(hits) <=> \E v \in Volumes : \E h \in hits[v] : t = <<h.rank_bits, v, h.record>>
  BY <1>2 DEF Ranked
<1> QED  BY <1>3, <1>4, <1>5

LEMMA RankSortedIs ==
  ASSUME NEW hits, HitLists(hits)
  PROVE  LET all == AllRanked(hits)
             sorted == InOrder(all, Lexicographic(all))
         IN  /\ Cardinality(all) \in Nat
             /\ RankSorted(hits) = [k \in 1 .. Cardinality(all) |-> <<sorted[k][2], sorted[k][3]>>]
             /\ RankSorted(hits) \in Seq(Volumes \X Slots) /\ Len(RankSorted(hits)) = Cardinality(all)
<1> DEFINE all == AllRanked(hits)
           sorted == InOrder(all, Lexicographic(all))
           n == Cardinality(all)
<1>1. /\ IsFiniteSet(all) /\ all \in SUBSET Triples
      /\ \A t : t \in all <=> \E v \in Volumes : \E h \in hits[v] : t = <<h.rank_bits, v, h.record>>
  BY AllRankedTyped
<1>2. all = UNION {{<<h.rank_bits, v, h.record>> : h \in hits[v]} : v \in Volumes}
  BY DEF AllRanked, Ranked
<1>3. n \in Nat /\ DOMAIN sorted = 1 .. n /\ \A k \in 1 .. n : sorted[k] \in all
  <2> HIDE DEF all
  <2> QED  BY <1>1, LexicographicOrders, InOrderLists
<1>4. RankSorted(hits) = [k \in DOMAIN sorted |-> <<sorted[k][2], sorted[k][3]>>]
  BY <1>2 DEF RankSorted
<1> HIDE DEF all, sorted, n
<1>5. ASSUME NEW k \in 1 .. n PROVE <<sorted[k][2], sorted[k][3]>> \in Volumes \X Slots
  <2>0. PICK v \in Volumes : \E h \in hits[v] : sorted[k] = <<h.rank_bits, v, h.record>>
    BY <1>1, <1>3
  <2>1. PICK h \in hits[v] : sorted[k] = <<h.rank_bits, v, h.record>>
    BY <2>0
  <2>2. h.record \in Slots
    BY HitIs DEF HitLists, Slots
  <2> QED  BY <2>1, <2>2
<1>6. RankSorted(hits) = [k \in 1 .. n |-> <<sorted[k][2], sorted[k][3]>>]
  BY <1>3, <1>4
<1> DEFINE pairs == [k \in 1 .. n |-> <<sorted[k][2], sorted[k][3]>>]
<1>7. pairs \in Seq(Volumes \X Slots) /\ Len(pairs) = n
  BY <1>3, <1>5
<1> QED  BY <1>3, <1>6, <1>7 DEF all, sorted, n

LEMMA MergedTyped ==
  ASSUME NEW hits, HitLists(hits), NEW limit \in Nat
  PROVE  /\ Merged(hits, limit) \in Seq(Volumes \X Slots) /\ Len(Merged(hits, limit)) <= limit
         /\ LET n == Cardinality(AllRanked(hits))
            IN  Merged(hits, limit) = [k \in 1 .. (IF limit < n THEN limit ELSE n) |-> RankSorted(hits)[k]]
<1> DEFINE s == RankSorted(hits)
           n == Cardinality(AllRanked(hits))
           most == IF limit < n THEN limit ELSE n
<1>1. s \in Seq(Volumes \X Slots) /\ Len(s) = n /\ n \in Nat
  BY RankSortedIs
<1> HIDE DEF s, n
<1>2. Min({limit, n}) = most
  BY <1>1, Pair
<1>3. Merged(hits, limit) = SubSeq(s, 1, Min({limit, Len(s)}))
  BY DEF Merged, s
<1>4. Merged(hits, limit) = SubSeq(s, 1, most)
  BY <1>1, <1>2, <1>3
<1>5. most \in Nat /\ most <= n /\ most <= limit
  BY <1>1
<1> HIDE DEF most
<1>6. SubSeq(s, 1, most) = [k \in 1 .. most |-> s[k]]
  BY <1>1, <1>5
<1>7. [k \in 1 .. most |-> s[k]] \in Seq(Volumes \X Slots) /\ Len([k \in 1 .. most |-> s[k]]) = most
  BY <1>1, <1>5
<1> QED  BY <1>4, <1>5, <1>6, <1>7 DEF s, n, most

\* Of a volume's matches, all or those that go first, the limit at least.
Enough(hits, all, limit) ==
  /\ hits \subseteq all
  /\ \/ hits = all
     \/ Cardinality(hits) >= limit /\ \A x \in hits, y \in all \ hits : Ahead(x, y)

LEMMA FirstIsEnough ==
  ASSUME NEW hits, NEW all, NEW most \in Nat, NEW limit \in Nat, limit <= most, FirstOf(hits, all, most)
  PROVE  Enough(hits, all, limit)
<1>1. IsFiniteSet(all) /\ IsFiniteSet(hits) /\ hits \subseteq all /\ Cardinality(hits) \in Nat
  BY FS_Subset, FS_CardinalityType DEF FirstOf
<1>2. CASE Cardinality(hits) < most
  BY <1>1, <1>2, NotFullIsAll DEF Enough
<1>3. CASE Cardinality(hits) >= most
  BY <1>1, <1>3 DEF Enough, FirstOf
<1> QED  BY <1>1, <1>2, <1>3

\* What a volume leaves out comes after a limit's worth of its own hits.
LEMMA LeftOut ==
  ASSUME NEW hits, NEW all, HitLists(hits), HitLists(all), NEW limit \in Nat,
         \A v \in Volumes : Enough(hits[v], all[v], limit),
         NEW x \in AllRanked(all) \ AllRanked(hits)
  PROVE  Below(Lexicographic(AllRanked(all)), AllRanked(all), x) > limit
<1> DEFINE S == AllRanked(all)
           R == Lexicographic(S)
<1> DEFINE After(y, z) == \/ y[1] < z[1]
                          \/ y[1] = z[1] /\ y[2] < z[2]
                          \/ y[1] = z[1] /\ y[2] = z[2] /\ y[3] <= z[3]
<1>1. IsFiniteSet(S) /\ S \in SUBSET Triples /\ \A y, z : <<y, z>> \in R <=>
        y \in S /\ z \in S /\ After(y, z)
  BY AllRankedTyped DEF Lexicographic
<1>2. PICK v \in Volumes : \E h \in all[v] : x = <<h.rank_bits, v, h.record>>
  BY AllRankedTyped
<1>3. PICK h \in all[v] : x = <<h.rank_bits, v, h.record>>
  BY <1>2
<1>4. h \notin hits[v]
  BY <1>3, AllRankedTyped
<1>5. Cardinality(hits[v]) >= limit /\ hits[v] \subseteq all[v] /\ \A g \in hits[v] : Ahead(g, h)
  BY <1>3, <1>4 DEF Enough
<1> DEFINE T == Ranked(v, hits[v])
<1>6. IsFiniteSet(T) /\ Cardinality(T) = Cardinality(hits[v]) /\ Cardinality(T) \in Nat
  BY RankedCounts, FS_CardinalityType DEF HitLists
<1>7. x \in S /\ x \notin T
  <2>1. T \subseteq AllRanked(hits)
    BY DEF AllRanked
  <2> QED  BY <2>1
<1>8. ASSUME NEW t \in T PROVE t \in S /\ <<t, x>> \in R
  <2>1. PICK g \in hits[v] : t = <<g.rank_bits, v, g.record>>
    BY DEF Ranked
  <2>2. t \in S
    BY <1>5, <2>1, AllRankedTyped
  <2>3. Ahead(g, h) /\ g \in HitSet /\ h \in HitSet
    BY <1>5, <2>1 DEF HitLists
  <2>4. /\ g.rank_bits \in Nat /\ g.record \in Int /\ h.rank_bits \in Nat /\ h.record \in Int
    BY <2>3, HitIs
  <2>5. t[1] = g.rank_bits /\ t[2] = v /\ t[3] = g.record /\ x[1] = h.rank_bits /\ x[2] = v /\ x[3] = h.record
    BY <1>3, <2>1
  <2>6. t[1] < x[1] \/ (t[1] = x[1] /\ t[2] = x[2] /\ t[3] <= x[3])
    BY <2>3, <2>4, <2>5 DEF Ahead
  <2> HIDE DEF R, S
  <2> QED  BY <1>1, <1>7, <2>2, <2>6
<1>9. <<x, x>> \in R
  <2>1. x[1] = x[1] /\ x[2] = x[2] /\ x[3] <= x[3]
    <3>1. x \in Triples
      BY <1>1, <1>7
    <3> QED  BY <3>1 DEF Triples
  <2> HIDE DEF R, S
  <2> QED  BY <1>1, <1>7, <2>1
<1> DEFINE before == NotAfter(R, S, x)
<1>10. T \cup {x} \subseteq before /\ IsFiniteSet(before)
  <2> HIDE DEF R, S, T
  <2>1. before \subseteq S
    BY DEF NotAfter
  <2>2. IsFiniteSet(before)
    BY <1>1, <2>1, FS_Subset
  <2> QED  BY <1>7, <1>8, <1>9, <2>2 DEF NotAfter
<1> HIDE DEF before, T, R, S
<1>11. IsFiniteSet(T \cup {x}) /\ Cardinality(T \cup {x}) = Cardinality(T) + 1
  BY <1>6, <1>7, FS_AddElement
<1>12. Cardinality(T \cup {x}) <= Cardinality(before) /\ Cardinality(before) \in Nat
  BY <1>10, FS_Subset, FS_CardinalityType
<1>13. Cardinality(hits[v]) \in Nat
  BY <1>6
<1>14. Cardinality(before) > limit
  BY <1>5, <1>6, <1>11, <1>12, <1>13
<1> QED  BY <1>14 DEF Below, before, R, S

\* The best of enough are the best of all.
LEMMA MergedSame ==
  ASSUME NEW hits, NEW all, HitLists(all), NEW limit \in Nat,
         \A v \in Volumes : Enough(hits[v], all[v], limit)
  PROVE  HitLists(hits) /\ Merged(hits, limit) = Merged(all, limit)
<1> DEFINE S == AllRanked(all)
           T == AllRanked(hits)
           R == Lexicographic(S)
           Q == Lexicographic(T)
<1>1. HitLists(hits)
  BY FS_Subset DEF HitLists, Enough
<1>2. T \subseteq S /\ IsFiniteSet(S) /\ S \in SUBSET Triples /\ T \in SUBSET Triples
  BY <1>1, AllRankedTyped DEF Enough
<1>3. Orders(R, S) /\ Orders(Q, T)
  BY <1>2, LexicographicOrders
<1>4. \A x, y \in T : <<x, y>> \in Q <=> <<x, y>> \in R
  BY <1>2 DEF Lexicographic
<1>5. \A x \in S \ T : Below(R, S, x) > limit
  BY <1>1, LeftOut
<1>6. /\ Cardinality(S) \in Nat /\ Cardinality(T) \in Nat
      /\ RankSorted(all) = [k \in 1 .. Cardinality(S) |-> <<InOrder(S, R)[k][2], InOrder(S, R)[k][3]>>]
      /\ RankSorted(hits) = [k \in 1 .. Cardinality(T) |-> <<InOrder(T, Q)[k][2], InOrder(T, Q)[k][3]>>]
  BY <1>1, RankSortedIs
<1>7. /\ Merged(all, limit) =
           [k \in 1 .. (IF limit < Cardinality(S) THEN limit ELSE Cardinality(S)) |-> RankSorted(all)[k]]
      /\ Merged(hits, limit) =
           [k \in 1 .. (IF limit < Cardinality(T) THEN limit ELSE Cardinality(T)) |-> RankSorted(hits)[k]]
  BY <1>1, MergedTyped
<1> HIDE DEF S, T, R, Q
<1>8. /\ Cardinality(T) <= Cardinality(S)
      /\ Cardinality(S) > Cardinality(T) => Cardinality(T) >= limit
      /\ \A k \in 1 .. limit : k <= Cardinality(S) =>
           k <= Cardinality(T) /\ InOrder(T, Q)[k] = InOrder(S, R)[k]
  BY <1>2, <1>3, <1>4, <1>5, SamePrefix
<1> DEFINE m == IF limit < Cardinality(S) THEN limit ELSE Cardinality(S)
<1>9. m = IF limit < Cardinality(T) THEN limit ELSE Cardinality(T)
  BY <1>6, <1>8
<1>10. \A k \in 1 .. m : RankSorted(all)[k] = RankSorted(hits)[k]
  <2> TAKE k \in 1 .. m
  <2>1. k \in 1 .. limit /\ k <= Cardinality(S) /\ k \in 1 .. Cardinality(S)
    BY <1>6
  <2>2. k \in 1 .. Cardinality(T) /\ InOrder(T, Q)[k] = InOrder(S, R)[k]
    BY <1>6, <1>8, <2>1
  <2> QED  BY <1>6, <2>1, <2>2
<1> HIDE DEF m
<1> QED  BY <1>1, <1>7, <1>9, <1>10 DEF m

-----------------------------------------------------------------------------
(* The invariant. *)

\* The query whose candidates are kept.
CacheQuery ==
  [kind |-> cache.kind, terms |-> cache.terms, filter |-> NoFilter, order |-> cache.order, limit |-> 0]

AllBases == UNION {FirstBases[v] \cup LaterBases[v] : v \in Volumes}
AllDeltas == UNION {Deltas(n) : n \in Nat}

\* As many are added by each batch at most, and there is room for as often.
RoomFor(v, most) ==
  /\ \A batch \in Batches[v] : Len(batch) <= most
  /\ \A base \in FirstBases[v] \cup LaterBases[v] : Len(base.recs) + (most * MaxGeneration) < RECORD_SPAN

Roomy(v, view) ==
  \E most \in 0 .. RECORD_SPAN : RoomFor(v, most) /\ Len(view.delta.added) <= most * view.generation

ViewOf(v, view, last) ==
  /\ view \in [base : AllBases, delta : AllDeltas, generation : Nat]
  /\ view.base \in FirstBases[v] \cup LaterBases[v]
  /\ DeltaOK(view.base, BaseLen(view), view.delta)
  /\ view.generation \in 1 .. last /\ Roomy(v, view)

Generations == generation \in Cardinality(Volumes) .. MaxGeneration

ViewsOK ==
  /\ views \in [Volumes -> [base : AllBases, delta : AllDeltas, generation : Nat]]
  /\ \A v \in Volumes : ViewOf(v, views[v], generation)

\* What is kept of a view that is still the one it was taken from.
KeptOK(view, kept, q) ==
  kept.generation = view.generation =>
    /\ HitsOK(view, kept.hits)
    /\ Decided(view, q) => kept.hits = Expected(view, q)

CacheOK ==
  /\ cache \in [kind : {"none", "prefix", "substring", "path"}, order : {"relevance", "recent", "largest"},
                terms : Seq(Terms), per_volume : [Volumes -> [generation : Nat, hits : SUBSET HitSet]]]
  /\ \A v \in Volumes : cache.per_volume[v].generation \in 0 .. generation
  /\ cache.kind = "none" => \A v \in Volumes : cache.per_volume[v].generation = 0
  /\ cache.kind # "none" =>
       QueryOK(CacheQuery) /\ \A v \in Volumes : KeptOK(views[v], cache.per_volume[v], CacheQuery)

AnswerTyped ==
  /\ asked \in Queries \cup {NoQuery} /\ Len(answer) <= asked.limit
  /\ answer \in Seq(Volumes \X Slots) /\ reused \subseteq Volumes

IInv == Generations /\ ViewsOK /\ CacheOK /\ AnswerTyped /\ AnswerExact

LEMMA SizesTyped ==
  /\ RECORD_SPAN \in Nat \ {0} /\ REFINEMENT_CACHE_CAP \in Nat \ {0} /\ MaxGeneration \in Nat
  /\ Cardinality(Volumes) \in Nat /\ Volumes = 1 .. Cardinality(Volumes)
BY RankingAssumption, RefinementAssumption

LEMMA BasesOK ==
  ASSUME NEW v \in Volumes, NEW base \in FirstBases[v] \cup LaterBases[v]
  PROVE  BaseOK(base, Len(base.recs)) /\ Len(base.recs) \in Nat
<1>1. base = Arena(base.recs) /\ BaseRecords(base.recs)
  BY RefinementAssumption
<1>2. BaseOK(base, Len(base.recs))
  BY <1>1, ArenaOK
<1> QED  BY <1>2 DEF BaseOK

LEMMA ViewOfOK ==
  ASSUME NEW v \in Volumes, NEW view, NEW last \in Nat, last <= MaxGeneration, ViewOf(v, view, last)
  PROVE  ViewOK(view) /\ view.generation \in 1 .. last
<1>1. PICK most \in 0 .. RECORD_SPAN : RoomFor(v, most) /\ Len(view.delta.added) <= most * view.generation
  BY DEF ViewOf, Roomy
<1>2. /\ BaseOK(view.base, BaseLen(view)) /\ DeltaOK(view.base, BaseLen(view), view.delta)
      /\ BaseLen(view) = Len(view.base.recs) /\ BaseLen(view) \in Nat /\ view.generation \in 1 .. last
  BY BasesOK DEF ViewOf, BaseLen
<1>3. Len(view.delta.added) \in Nat
  BY <1>2, AddedTyped
<1>4. BaseLen(view) + (most * MaxGeneration) < RECORD_SPAN
  BY <1>1, <1>2 DEF RoomFor, ViewOf
<1>5. most \in Nat /\ MaxGeneration \in Nat /\ RECORD_SPAN \in Nat /\ view.generation \in Nat
  BY <1>2, SizesTyped
<1>6. view.generation <= MaxGeneration
  BY <1>2, SizesTyped
<1>7. most * view.generation <= most * MaxGeneration
  <2>1. PICK c \in Nat : MaxGeneration = view.generation + c
    <3>1. MaxGeneration - view.generation \in Nat /\ MaxGeneration = view.generation + (MaxGeneration - view.generation)
      BY <1>5, <1>6
    <3> QED  BY <3>1
  <2>2. most * MaxGeneration = (most * view.generation) + (most * c)
    BY <1>5, <2>1
  <2>3. most * c \in Nat /\ most * view.generation \in Nat
    BY <1>5, <2>1
  <2> QED  BY <2>2, <2>3
<1>8. most * view.generation \in Nat /\ most * MaxGeneration \in Nat
  BY <1>5
<1> DEFINE now == most * view.generation
           ever == most * MaxGeneration
<1>9. BaseLen(view) + Len(view.delta.added) < RECORD_SPAN
  <2>1. /\ Len(view.delta.added) <= now /\ now <= ever /\ BaseLen(view) + ever < RECORD_SPAN
        /\ now \in Nat /\ ever \in Nat
    BY <1>1, <1>4, <1>7, <1>8
  <2> HIDE DEF now, ever
  <2>2. \A n, m, a, b, span \in Nat : m <= a /\ a <= b /\ n + b < span => n + m < span
    OBVIOUS
  <2>3. BaseLen(view) \in Nat /\ RECORD_SPAN \in Nat
    BY <1>2, <1>5
  <2> QED  BY <1>3, <2>1, <2>2, <2>3
<1> QED  BY <1>2, <1>9 DEF ViewOK

LEMMA ViewsAreOK ==
  ASSUME Generations, ViewsOK, NEW v \in Volumes
  PROVE  ViewOK(views[v]) /\ views[v].generation \in 1 .. generation /\ generation \in Nat
<1>1. generation \in Nat /\ generation <= MaxGeneration
  BY SizesTyped DEF Generations
<1>2. ViewOf(v, views[v], generation)
  BY DEF ViewsOK
<1> QED  BY <1>1, <1>2, ViewOfOK

LEMMA CacheTyped ==
  ASSUME CacheOK, NEW v \in Volumes
  PROVE  /\ cache.per_volume[v].generation \in Nat /\ cache.per_volume[v].hits \in SUBSET HitSet
         /\ cache.per_volume[v] \in [generation : Nat, hits : SUBSET HitSet]
         /\ cache = [kind |-> cache.kind, order |-> cache.order, terms |-> cache.terms,
                     per_volume |-> cache.per_volume]
BY DEF CacheOK

\* What is expected is the terms' matter, not the limit's.
LEMMA ExpectedSame ==
  ASSUME NEW view, NEW p, NEW q, p.kind = q.kind, p.terms = q.terms, p.filter = q.filter, p.order = q.order
  PROVE  Expected(view, p) = Expected(view, q) /\ (Decided(view, p) <=> Decided(view, q))
<1>1. \A ref : hit_quality(view, ref, p) = hit_quality(view, ref, q)
  BY DEF hit_quality
<1>2. \A ref : RankedHit(view, ref, p) = RankedHit(view, ref, q)
  BY <1>1 DEF RankedHit
<1>3. \A ref : Wanted(view, ref, p) = Wanted(view, ref, q)
  BY DEF Wanted
<1>4. {ref \in Live(view) : Wanted(view, ref, p)} = {ref \in Live(view) : Wanted(view, ref, q)}
  BY <1>3
<1> QED  BY <1>2, <1>4 DEF Expected, Decided

-----------------------------------------------------------------------------
(* Its steps. *)

LEMMA ReuseNarrows ==
  ASSUME Generations, ViewsOK, CacheOK, NEW q \in Queries, Refinable(q), NEW v \in Reuses(q)
  PROVE  /\ v \in Volumes /\ Narrows(CacheQuery, q) /\ KeptOK(views[v], cache.per_volume[v], CacheQuery)
         /\ cache.per_volume[v].generation = views[v].generation
<1>1. Refines(q) /\ v \in Volumes /\ cache.per_volume[v].generation = views[v].generation
  BY DEF Reuses
<1>2. cache.kind = q.kind /\ cache.order = q.order /\ is_refinement(cache.terms, q.terms)
  BY <1>1 DEF Refines
<1>3. cache.kind # "none" /\ QueryOK(q)
  BY <1>2, QueriesOK DEF QueryOK
<1>4. QueryOK(CacheQuery) /\ KeptOK(views[v], cache.per_volume[v], CacheQuery)
  BY <1>1, <1>3 DEF CacheOK
<1>5. /\ CacheQuery.kind = cache.kind /\ CacheQuery.order = cache.order /\ CacheQuery.terms = cache.terms
      /\ CacheQuery.filter = NoFilter
  BY DEF CacheQuery
<1>6. Narrows(CacheQuery, q)
  BY <1>2, <1>3, <1>4, <1>5 DEF Narrows, Refinable
<1> QED  BY <1>1, <1>4, <1>6

\* Each volume's hits, filtered or found.
LEMMA VolumeHitsAre ==
  ASSUME Generations, ViewsOK, CacheOK, NEW q \in Queries, Refinable(q), NEW fits, NEW v \in Volumes
  PROVE  LET hits == VolumeHits(q, fits)[v]
             all == Expected(views[v], q)
         IN  /\ HitsOK(views[v], hits)
             /\ v \in Reuses(q) /\ Decided(views[v], q) => hits = all
             /\ v \notin Reuses(q) => FirstOf(hits, all, ScanLimit(q))
<1> DEFINE hits == VolumeHits(q, fits)[v]
           all == Expected(views[v], q)
<1>1. ViewOK(views[v]) /\ QueryOK(q) /\ q.limit \in Nat /\ ScanLimit(q) \in Nat
  BY ViewsAreOK, QueriesOK, SizesTyped DEF ScanLimit
<1>2. CASE v \in Reuses(q)
  <2>1. /\ Narrows(CacheQuery, q) /\ KeptOK(views[v], cache.per_volume[v], CacheQuery)
        /\ cache.per_volume[v].generation = views[v].generation
    BY <1>2, ReuseNarrows
  <2>2. hits = Filtered(views[v], q, cache.per_volume[v].hits)
    BY <1>2 DEF VolumeHits
  <2>3. HitsOK(views[v], cache.per_volume[v].hits)
    BY <2>1 DEF KeptOK
  <2>4. HitsOK(views[v], hits)
    BY <1>1, <2>2, <2>3, FilteredOK
  <2>5. ASSUME Decided(views[v], q) PROVE hits = all
    <3>1. Decided(views[v], CacheQuery)
      BY <2>1, <2>5 DEF Narrows, Decided
    <3>2. cache.per_volume[v].hits = Expected(views[v], CacheQuery)
      BY <2>1, <3>1 DEF KeptOK
    <3> QED  BY <1>1, <2>1, <2>2, <2>5, <3>2, RefiningExact
  <2> QED  BY <1>2, <2>4, <2>5
<1>3. CASE v \notin Reuses(q)
  <2>1. hits = search_hits(views[v], q, ScanLimit(q), fits)
    BY <1>3 DEF VolumeHits
  <2>2. FirstOf(hits, all, ScanLimit(q))
    BY <1>1, <2>1, SearchExact, HitsFirst
  <2>3. HitsOK(views[v], hits)
    BY <1>1, <2>2, ExpectedOK DEF FirstOf
  <2> QED  BY <1>3, <2>2, <2>3
<1> QED  BY <1>2, <1>3

LEMMA ExpectedLists ==
  ASSUME Generations, ViewsOK, NEW q \in Queries
  PROVE  HitLists([v \in Volumes |-> Expected(views[v], q)])
<1>1. \A v \in Volumes : Expected(views[v], q) \in SUBSET HitSet /\ IsFiniteSet(Expected(views[v], q))
  BY ViewsAreOK, QueriesOK, ExpectedIs
<1> QED  BY <1>1 DEF HitLists

LEMMA RefinedAnswer ==
  ASSUME Generations, ViewsOK, CacheOK, NEW q \in Queries, Refinable(q), NEW fits
  PROVE  LET best == Merged(VolumeHits(q, fits), q.limit) IN
         /\ best \in Seq(Volumes \X Slots) /\ Len(best) <= q.limit
         /\ \/ q.limit > REFINEMENT_CACHE_CAP
            \/ \E v \in Reuses(q) : ~Decided(views[v], q)
            \/ best = BestMatches(q)
<1> DEFINE hits == VolumeHits(q, fits)
           all == [v \in Volumes |-> Expected(views[v], q)]
<1>1. q.limit \in Nat /\ REFINEMENT_CACHE_CAP \in Nat
  BY QueriesOK, SizesTyped
<1>2. HitLists(hits)
  BY VolumeHitsAre DEF HitLists, HitsOK
<1>3. ASSUME q.limit <= REFINEMENT_CACHE_CAP, \A v \in Reuses(q) : Decided(views[v], q)
      PROVE  Merged(hits, q.limit) = BestMatches(q)
  <2>1. ScanLimit(q) \in Nat /\ q.limit <= ScanLimit(q)
    BY <1>1, <1>3 DEF ScanLimit
  <2>2. ASSUME NEW v \in Volumes PROVE Enough(hits[v], all[v], q.limit)
    <3>1. all[v] = Expected(views[v], q)
      OBVIOUS
    <3>2. /\ v \in Reuses(q) => hits[v] = all[v]
          /\ v \notin Reuses(q) => FirstOf(hits[v], all[v], ScanLimit(q))
      BY <1>3, <3>1, VolumeHitsAre
    <3> HIDE DEF hits, all
    <3>3. CASE v \in Reuses(q)
      BY <3>2, <3>3 DEF Enough
    <3>4. CASE v \notin Reuses(q)
      BY <1>1, <2>1, <3>2, <3>4, FirstIsEnough
    <3> QED  BY <3>3, <3>4
  <2>3. HitLists(all)
    BY ExpectedLists
  <2> HIDE DEF hits, all
  <2>4. Merged(hits, q.limit) = Merged(all, q.limit)
    BY <1>1, <2>2, <2>3, MergedSame
  <2> QED  BY <2>4 DEF BestMatches, all
<1> HIDE DEF hits
<1>4. Merged(hits, q.limit) \in Seq(Volumes \X Slots) /\ Len(Merged(hits, q.limit)) <= q.limit
  BY <1>1, <1>2, MergedTyped
<1> QED  BY <1>1, <1>3, <1>4 DEF hits

LEMMA BypassAnswer ==
  ASSUME Generations, ViewsOK, NEW q \in Queries, NEW fits
  PROVE  LET best == Merged([v \in Volumes |-> search_hits(views[v], q, q.limit, fits)], q.limit) IN
         /\ best \in Seq(Volumes \X Slots) /\ Len(best) <= q.limit /\ best = BestMatches(q)
<1> DEFINE hits == [v \in Volumes |-> search_hits(views[v], q, q.limit, fits)]
           all == [v \in Volumes |-> Expected(views[v], q)]
<1>1. q.limit \in Nat /\ q.limit <= q.limit
  BY QueriesOK
<1>2. ASSUME NEW v \in Volumes PROVE Enough(hits[v], all[v], q.limit)
  <2>1. ViewOK(views[v]) /\ QueryOK(q)
    BY ViewsAreOK, QueriesOK
  <2>2. FirstOf(search_hits(views[v], q, q.limit, fits), Expected(views[v], q), q.limit)
    BY <1>1, <2>1, SearchExact, HitsFirst
  <2>3. hits[v] = search_hits(views[v], q, q.limit, fits) /\ all[v] = Expected(views[v], q)
    OBVIOUS
  <2> HIDE DEF hits, all
  <2> QED  BY <1>1, <2>2, <2>3, FirstIsEnough
<1>3. HitLists(all)
  BY ExpectedLists
<1> HIDE DEF hits, all
<1>4. HitLists(hits) /\ Merged(hits, q.limit) = Merged(all, q.limit)
  BY <1>1, <1>2, <1>3, MergedSame
<1>5. Merged(hits, q.limit) \in Seq(Volumes \X Slots) /\ Len(Merged(hits, q.limit)) <= q.limit
  BY <1>1, <1>4, MergedTyped
<1> QED  BY <1>4, <1>5 DEF BestMatches, all, hits

\* What is kept afterwards is complete.
LEMMA KeptIsOK ==
  ASSUME Generations, ViewsOK, CacheOK, NEW q \in Queries, Refinable(q), NEW fits, NEW v \in Volumes,
         NEW p, p.kind = q.kind, p.terms = q.terms, p.filter = q.filter, p.order = q.order
  PROVE  LET kept == Kept(q, VolumeHits(q, fits))[v] IN
         /\ kept \in [generation : Nat, hits : SUBSET HitSet] /\ kept.generation \in 0 .. generation
         /\ KeptOK(views[v], kept, p)
<1> DEFINE hits == VolumeHits(q, fits)
           kept == Kept(q, hits)[v]
           all == Expected(views[v], q)
           full == ScanLimit(q) = REFINEMENT_CACHE_CAP /\ Cardinality(hits[v]) < REFINEMENT_CACHE_CAP
<1>1. views[v].generation \in 1 .. generation /\ generation \in Nat
  BY ViewsAreOK
<1>2. /\ HitsOK(views[v], hits[v])
      /\ v \in Reuses(q) /\ Decided(views[v], q) => hits[v] = all
      /\ v \notin Reuses(q) => FirstOf(hits[v], all, ScanLimit(q))
  BY VolumeHitsAre
<1>3. kept = IF full THEN [generation |-> views[v].generation, hits |-> hits[v]] ELSE [generation |-> 0, hits |-> {}]
  BY DEF Kept, NoCandidates
<1>4. Expected(views[v], p) = all /\ (Decided(views[v], p) <=> Decided(views[v], q))
  BY ExpectedSame
<1>5. REFINEMENT_CACHE_CAP \in Nat
  BY SizesTyped
<1> HIDE DEF hits, kept, all
<1>6. CASE full
  <2>1. kept.generation = views[v].generation /\ kept.hits = hits[v]
    BY <1>3, <1>6
  <2>2. hits[v] \in SUBSET HitSet
    BY <1>2 DEF HitsOK
  <2>3. kept \in [generation : Nat, hits : SUBSET HitSet] /\ kept.generation \in 0 .. generation
    BY <1>1, <1>3, <1>6, <2>2
  <2>4. Decided(views[v], q) => hits[v] = all
    BY <1>2, <1>5, <1>6, NotFullIsAll
  <2> QED  BY <1>2, <1>4, <2>1, <2>3, <2>4 DEF KeptOK, hits, kept
<1>7. CASE ~full
  <2>1. kept = [generation |-> 0, hits |-> {}]
    BY <1>3, <1>7
  <2>2. kept.generation = 0 /\ kept.generation # views[v].generation /\ kept.generation \in 0 .. generation
    BY <1>1, <2>1
  <2>3. kept \in [generation : Nat, hits : SUBSET HitSet]
    BY <2>1
  <2> QED  BY <2>2, <2>3 DEF KeptOK, kept, hits
<1> QED  BY <1>6, <1>7

LEMMA RoomForAny ==
  ASSUME NEW v \in Volumes
  PROVE  \E most \in 0 .. RECORD_SPAN : RoomFor(v, most)
<1>1. Numbered(v)
  BY RefinementAssumption
<1> QED  BY <1>1 DEF Numbered, RoomFor

LEMMA BaseView ==
  ASSUME NEW v \in Volumes, NEW base \in FirstBases[v] \cup LaterBases[v], NEW last \in Nat, NEW g \in 1 .. last
  PROVE  ViewOf(v, [base |-> base, delta |-> NewDelta, generation |-> g], last)
<1> DEFINE view == [base |-> base, delta |-> NewDelta, generation |-> g]
<1>1. view.base = base /\ view.delta = NewDelta /\ view.generation = g /\ g \in Nat
  OBVIOUS
<1>2. base \in AllBases
  BY DEF AllBases
<1>3. BaseOK(base, BaseLen(view)) /\ BaseLen(view) \in Nat
  BY BasesOK, <1>1 DEF BaseLen
<1>4. DeltaOK(base, BaseLen(view), NewDelta) /\ Len(NewDelta.added) = 0
  BY <1>3, EmptyDeltaOK
<1>5. NewDelta \in AllDeltas
  BY <1>3, <1>4 DEF DeltaOK, AllDeltas
<1>6. view \in [base : AllBases, delta : AllDeltas, generation : Nat]
  BY <1>1, <1>2, <1>5
<1> HIDE DEF view
<1>7. Roomy(v, view)
  <2>1. PICK most \in 0 .. RECORD_SPAN : RoomFor(v, most)
    BY RoomForAny
  <2>2. most \in Nat /\ g \in Nat
    BY SizesTyped
  <2>3. most * g \in Nat
    BY <2>2
  <2>4. Len(view.delta.added) <= most * g
    BY <1>1, <1>4, <2>3
  <2> QED  BY <1>1, <2>1, <2>4 DEF Roomy
<1> QED  BY <1>1, <1>4, <1>6, <1>7 DEF ViewOf, view

LEMMA BatchView ==
  ASSUME NEW v \in Volumes, NEW last \in Nat, NEW view, ViewOf(v, view, last),
         NEW batch \in Batches[v], NEW delta \in AllApplied(view, batch)
  PROVE  ViewOf(v, [base |-> view.base, delta |-> delta, generation |-> last + 1], last + 1)
<1> DEFINE next == [base |-> view.base, delta |-> delta, generation |-> last + 1]
<1>1. view \in [base : AllBases, delta : AllDeltas, generation : Nat] /\ view.generation \in 1 .. last
  BY DEF ViewOf
<1>2. next.base = view.base /\ next.delta = delta /\ next.generation = last + 1 /\ BaseLen(next) = BaseLen(view)
  BY <1>1 DEF BaseLen
<1>3. /\ BaseOK(view.base, BaseLen(view)) /\ BaseLen(view) \in Nat
      /\ view.base \in FirstBases[v] \cup LaterBases[v] /\ DeltaOK(view.base, BaseLen(view), view.delta)
  BY BasesOK DEF ViewOf, BaseLen
<1>4. batch \in Seq(JournalEvent) /\ Len(batch) \in Nat
  BY RefinementAssumption
<1>5. DeltaOK(view.base, BaseLen(view), delta) /\ Len(delta.added) <= Len(view.delta.added) + Len(batch)
  BY <1>3, <1>4, BatchKeeps
<1>6. delta \in AllDeltas
  BY <1>3, <1>5 DEF DeltaOK, AllDeltas
<1>7. next \in [base : AllBases, delta : AllDeltas, generation : Nat]
  BY <1>1, <1>6
<1> HIDE DEF next
<1>8. Roomy(v, next)
  <2>1. PICK most \in 0 .. RECORD_SPAN : RoomFor(v, most) /\ Len(view.delta.added) <= most * view.generation
    BY DEF ViewOf, Roomy
  <2>2. most \in Nat /\ Len(batch) <= most
    BY <2>1, SizesTyped DEF RoomFor
  <2>3. Len(view.delta.added) \in Nat /\ Len(delta.added) \in Nat
    BY <1>3, <1>5, AddedTyped
  <2>4. PICK c \in Nat : last = view.generation + c
    <3>1. last - view.generation \in Nat /\ last = view.generation + (last - view.generation)
      BY <1>1
    <3> QED  BY <3>1
  <2>5. view.generation \in Nat
    BY <1>1
  <2>6. most * (last + 1) = (most * view.generation) + (most * c) + most
    BY <2>2, <2>4, <2>5
  <2>7. most * view.generation \in Nat /\ most * c \in Nat
    BY <2>2, <2>4, <2>5
  <2> DEFINE then == most * (last + 1)
             now == most * view.generation
             more == most * c
  <2>8. then = now + more + most /\ now \in Nat /\ more \in Nat /\ Len(view.delta.added) <= now
    BY <2>1, <2>6, <2>7
  <2> HIDE DEF then, now, more
  <2>9. \A a, d, b, m, n, k \in Nat : a <= d + b /\ b <= m /\ d <= n => a <= n + k + m
    OBVIOUS
  <2>10. Len(delta.added) <= then
    BY <1>4, <1>5, <2>2, <2>3, <2>8, <2>9
  <2> QED  BY <1>2, <2>1, <2>10 DEF Roomy, then
<1> QED  BY <1>2, <1>3, <1>5, <1>7, <1>8 DEF ViewOf, next

LEMMA ViewOfLater ==
  ASSUME NEW v \in Volumes, NEW last \in Nat, NEW view, ViewOf(v, view, last)
  PROVE  ViewOf(v, view, last + 1)
<1>1. view.generation \in 1 .. last + 1
  BY DEF ViewOf
<1> QED  BY <1>1 DEF ViewOf

LEMMA InitOK ==
  Init => IInv
<1> SUFFICES ASSUME Init PROVE IInv
  OBVIOUS
<1>1. Generations
  BY SizesTyped, RefinementAssumption DEF Init, Generations
<1>2. PICK bases \in [Volumes -> UNION {FirstBases[v] : v \in Volumes}] :
        /\ \A v \in Volumes : bases[v] \in FirstBases[v]
        /\ views = [v \in Volumes |-> [base |-> bases[v], delta |-> NewDelta, generation |-> v]]
  BY DEF Init
<1>3. generation = Cardinality(Volumes) /\ generation \in Nat /\ Volumes = 1 .. generation
  BY SizesTyped DEF Init
<1>4. ASSUME NEW v \in Volumes PROVE ViewOf(v, views[v], generation)
  <2>1. views[v] = [base |-> bases[v], delta |-> NewDelta, generation |-> v] /\ v \in 1 .. generation
    BY <1>2, <1>3
  <2> QED  BY <1>2, <1>3, <2>1, BaseView
<1>5. ViewsOK
  <2>1. views = [v \in Volumes |-> views[v]]
    BY <1>2
  <2>2. \A v \in Volumes : views[v] \in [base : AllBases, delta : AllDeltas, generation : Nat]
    BY <1>4 DEF ViewOf
  <2>3. views \in [Volumes -> [base : AllBases, delta : AllDeltas, generation : Nat]]
    BY <2>1, <2>2
  <2> QED  BY <1>4, <2>3 DEF ViewsOK
<1>6. CacheOK
  <2>1. cache = [kind |-> "none", order |-> "relevance", terms |-> <<>>, per_volume |-> Nothing]
    BY DEF Init
  <2>2. \A v \in Volumes : Nothing[v].generation = 0
    BY DEF Nothing, NoCandidates
  <2>3. Nothing \in [Volumes -> [generation : Nat, hits : SUBSET HitSet]]
    BY DEF Nothing, NoCandidates
  <2>4. <<>> \in Seq(Terms)
    OBVIOUS
  <2> QED  BY <1>3, <2>1, <2>2, <2>3, <2>4 DEF CacheOK
<1>7. AnswerTyped /\ AnswerExact
  BY DEF Init, AnswerTyped, AnswerExact, NoQuery
<1> QED  BY <1>1, <1>5, <1>6, <1>7 DEF IInv

LEMMA PublishKeeps ==
  ASSUME IInv, NEW w \in Volumes, Publish(w)
  PROVE  IInv'
<1>1. /\ generation' = generation + 1 /\ generation \in Nat /\ generation < MaxGeneration /\ MaxGeneration \in Nat
      /\ asked = NoQuery /\ UNCHANGED <<cache, asked, answer, reused>>
  BY SizesTyped DEF Publish, IInv, Generations
<1>2. Generations'
  BY <1>1, SizesTyped DEF IInv, Generations
<1>3. PICK view : views' = [views EXCEPT ![w] = view] /\ ViewOf(w, view, generation + 1) /\ view.generation = generation + 1
  <2>1. CASE \E batch \in Batches[w] : \E delta \in AllApplied(views[w], batch) :
               views' = [views EXCEPT ![w] = [base |-> views[w].base, delta |-> delta, generation |-> generation']]
    <3>1. PICK batch \in Batches[w] : \E delta \in AllApplied(views[w], batch) :
               views' = [views EXCEPT ![w] = [base |-> views[w].base, delta |-> delta, generation |-> generation']]
      BY <2>1
    <3>2. PICK delta \in AllApplied(views[w], batch) :
               views' = [views EXCEPT ![w] = [base |-> views[w].base, delta |-> delta, generation |-> generation']]
      BY <3>1
    <3>3. ViewOf(w, views[w], generation)
      BY DEF IInv, ViewsOK
    <3>4. ViewOf(w, [base |-> views[w].base, delta |-> delta, generation |-> generation + 1], generation + 1)
      BY <1>1, <3>3, BatchView
    <3> DEFINE next == [base |-> views[w].base, delta |-> delta, generation |-> generation + 1]
    <3>5. views' = [views EXCEPT ![w] = next] /\ next.generation = generation + 1 /\ ViewOf(w, next, generation + 1)
      BY <1>1, <3>2, <3>4
    <3> HIDE DEF next
    <3> QED  BY <3>5
  <2>2. CASE \E base \in LaterBases[w] :
               views' = [views EXCEPT ![w] = [base |-> base, delta |-> NewDelta, generation |-> generation']]
    <3>1. PICK base \in LaterBases[w] :
               views' = [views EXCEPT ![w] = [base |-> base, delta |-> NewDelta, generation |-> generation']]
      BY <2>2
    <3>2. generation + 1 \in Nat /\ generation + 1 \in 1 .. generation + 1
      BY <1>1
    <3>3. ViewOf(w, [base |-> base, delta |-> NewDelta, generation |-> generation + 1], generation + 1)
      BY <3>2, BaseView
    <3> DEFINE next == [base |-> base, delta |-> NewDelta, generation |-> generation + 1]
    <3>4. views' = [views EXCEPT ![w] = next] /\ next.generation = generation + 1 /\ ViewOf(w, next, generation + 1)
      BY <1>1, <3>1, <3>3
    <3> HIDE DEF next
    <3> QED  BY <3>4
  <2> QED  BY <2>1, <2>2 DEF Publish
<1>4. /\ views \in [Volumes -> [base : AllBases, delta : AllDeltas, generation : Nat]]
      /\ view \in [base : AllBases, delta : AllDeltas, generation : Nat]
  BY <1>3 DEF IInv, ViewsOK, ViewOf
<1>5. views'[w] = view /\ \A v \in Volumes \ {w} : views'[v] = views[v]
  BY <1>3, <1>4
<1>6. ViewsOK'
  <2>1. views' \in [Volumes -> [base : AllBases, delta : AllDeltas, generation : Nat]]
    BY <1>3, <1>4
  <2>2. ASSUME NEW v \in Volumes PROVE ViewOf(v, views'[v], generation')
    <3>1. CASE v = w
      BY <1>1, <1>3, <1>5, <3>1
    <3>2. CASE v # w
      <4>1. ViewOf(v, views[v], generation)
        BY DEF IInv, ViewsOK
      <4> QED  BY <1>1, <1>5, <3>2, <4>1, ViewOfLater
    <3> QED  BY <3>1, <3>2
  <2> QED  BY <2>1, <2>2 DEF ViewsOK
<1>7. CacheOK'
  <2>1. cache' = cache /\ CacheQuery' = CacheQuery
    BY <1>1 DEF CacheQuery
  <2>2. ASSUME NEW v \in Volumes PROVE cache.per_volume[v].generation \in 0 .. generation + 1
    <3>1. cache.per_volume[v].generation \in 0 .. generation
      BY DEF IInv, CacheOK
    <3> QED  BY <1>1, <3>1
  <2>3. ASSUME cache.kind # "none", NEW v \in Volumes PROVE KeptOK(views'[v], cache.per_volume[v], CacheQuery)
    <3>1. KeptOK(views[v], cache.per_volume[v], CacheQuery) /\ cache.per_volume[v].generation \in 0 .. generation
      BY <2>3 DEF IInv, CacheOK
    <3>2. CASE v = w
      <4>1. cache.per_volume[v].generation # views'[v].generation
        BY <1>1, <1>3, <1>5, <3>1, <3>2
      <4> QED  BY <4>1 DEF KeptOK
    <3>3. CASE v # w
      BY <1>5, <3>1, <3>3
    <3> QED  BY <3>2, <3>3
  <2> QED  BY <1>1, <2>1, <2>2, <2>3 DEF IInv, CacheOK
<1>8. AnswerTyped' /\ AnswerExact'
  BY <1>1 DEF IInv, AnswerTyped, AnswerExact
<1> QED  BY <1>2, <1>6, <1>7, <1>8 DEF IInv

LEMMA SearchKeeps ==
  ASSUME IInv, NEW q \in Queries, Search(q)
  PROVE  IInv'
<1>1. /\ Generations /\ ViewsOK /\ CacheOK /\ Refinable(q) /\ QueryOK(q)
      /\ asked' = q /\ reused' = Reuses(q) /\ views' = views /\ generation' = generation
  BY QueriesOK DEF IInv, Search
<1>2. PICK fits \in FitChoices(q) :
        /\ answer' = Merged(VolumeHits(q, fits), q.limit)
        /\ cache' = [kind |-> q.kind, order |-> q.order, terms |-> q.terms, per_volume |-> Kept(q, VolumeHits(q, fits))]
  BY DEF Search
<1>3. /\ answer' \in Seq(Volumes \X Slots) /\ Len(answer') <= q.limit
      /\ \/ q.limit > REFINEMENT_CACHE_CAP
         \/ \E v \in Reuses(q) : ~Decided(views[v], q)
         \/ answer' = BestMatches(q)
  BY <1>1, <1>2, RefinedAnswer
<1>4. Generations' /\ ViewsOK'
  BY <1>1 DEF Generations, ViewsOK
<1>5. AnswerTyped'
  BY <1>1, <1>3 DEF AnswerTyped, Reuses
<1>6. AnswerExact'
  <2>1. BestMatches(q) = Merged([v \in Volumes |-> Expected(views'[v], q)], q.limit)
    BY <1>1 DEF BestMatches
  <2>2. BestMatches(asked)' = Merged([v \in Volumes |-> Expected(views'[v], asked')], asked'.limit)
    BY DEF BestMatches
  <2>3. BestMatches(asked)' = BestMatches(q)
    BY <1>1, <2>1, <2>2
  <2> QED  BY <1>1, <1>3, <2>3 DEF AnswerExact
<1>7. CacheOK'
  <2> DEFINE kept == Kept(q, VolumeHits(q, fits))
  <2>1. /\ CacheQuery'.kind = q.kind /\ CacheQuery'.terms = q.terms /\ CacheQuery'.filter = q.filter
        /\ CacheQuery'.order = q.order
    BY <1>1, <1>2 DEF CacheQuery, Refinable
  <2>2. QueryOK(CacheQuery')
    BY <1>1, <2>1 DEF QueryOK
  <2>3. ASSUME NEW v \in Volumes
        PROVE  /\ kept[v] \in [generation : Nat, hits : SUBSET HitSet] /\ kept[v].generation \in 0 .. generation
               /\ KeptOK(views[v], kept[v], CacheQuery')
    BY <1>1, <2>1, KeptIsOK
  <2>4. kept \in [Volumes -> [generation : Nat, hits : SUBSET HitSet]]
    <3>1. kept = [v \in Volumes |-> kept[v]]
      BY DEF Kept
    <3> QED  BY <2>3, <3>1
  <2> HIDE DEF kept
  <2>5. cache' = [kind |-> q.kind, order |-> q.order, terms |-> q.terms, per_volume |-> kept]
    BY <1>2 DEF kept
  <2>6. /\ q.kind \in {"prefix", "substring", "path"} /\ q.order \in {"relevance", "recent", "largest"}
        /\ q.terms \in Seq(Terms)
    BY <1>1 DEF QueryOK
  <2>7. cache' \in [kind : {"none", "prefix", "substring", "path"}, order : {"relevance", "recent", "largest"},
                    terms : Seq(Terms), per_volume : [Volumes -> [generation : Nat, hits : SUBSET HitSet]]]
    BY <2>4, <2>5, <2>6
  <2>8. cache'.kind # "none" /\ cache'.per_volume = kept
    BY <2>5, <2>6
  <2> QED  BY <1>1, <2>2, <2>3, <2>7, <2>8 DEF CacheOK
<1> QED  BY <1>4, <1>5, <1>6, <1>7 DEF IInv

LEMMA CacheUnchanged ==
  ASSUME CacheOK, cache' = cache, views' = views, generation' = generation
  PROVE  CacheOK'
<1>1. CacheQuery' = CacheQuery
  BY DEF CacheQuery
<1> QED  BY <1>1 DEF CacheOK

LEMMA BypassKeeps ==
  ASSUME IInv, NEW q \in Queries, Bypass(q)
  PROVE  IInv'
<1>1. /\ Generations /\ ViewsOK /\ CacheOK /\ asked' = q /\ reused' = {}
      /\ views' = views /\ generation' = generation /\ cache' = cache
  BY DEF IInv, Bypass
<1>2. PICK fits \in FitChoices(q) :
        answer' = Merged([v \in Volumes |-> search_hits(views[v], q, q.limit, fits)], q.limit)
  BY DEF Bypass
<1>3. answer' \in Seq(Volumes \X Slots) /\ Len(answer') <= q.limit /\ answer' = BestMatches(q)
  BY <1>1, <1>2, BypassAnswer
<1>4. Generations' /\ ViewsOK' /\ CacheOK'
  BY <1>1, CacheUnchanged DEF Generations, ViewsOK
<1>5. AnswerTyped'
  BY <1>1, <1>3 DEF AnswerTyped
<1>6. AnswerExact'
  <2>1. BestMatches(asked)' = BestMatches(q)
    <3>1. BestMatches(q) = Merged([v \in Volumes |-> Expected(views'[v], q)], q.limit)
      BY <1>1 DEF BestMatches
    <3>2. BestMatches(asked)' = Merged([v \in Volumes |-> Expected(views'[v], asked')], asked'.limit)
      BY DEF BestMatches
    <3> QED  BY <1>1, <3>1, <3>2
  <2> QED  BY <1>3, <2>1 DEF AnswerExact
<1> QED  BY <1>4, <1>5, <1>6 DEF IInv

LEMMA SupersededKeeps ==
  ASSUME IInv, NEW q \in Queries, Superseded(q)
  PROVE  IInv'
<1>1. /\ Generations /\ ViewsOK /\ CacheOK /\ asked = NoQuery /\ UNCHANGED <<views, generation, asked, answer, reused>>
      /\ cache' = [cache EXCEPT !.per_volume = IF Refines(q) THEN cache.per_volume ELSE Nothing]
  BY DEF IInv, Superseded
<1>2. Generations' /\ ViewsOK' /\ AnswerTyped' /\ AnswerExact'
  BY <1>1 DEF IInv, Generations, ViewsOK, AnswerTyped, AnswerExact
<1>3. CacheOK'
  <2>1. cache \in [kind : {"none", "prefix", "substring", "path"}, order : {"relevance", "recent", "largest"},
                   terms : Seq(Terms), per_volume : [Volumes -> [generation : Nat, hits : SUBSET HitSet]]]
    BY <1>1 DEF CacheOK
  <2>2. CASE Refines(q)
    <3>1. cache' = cache
      BY <1>1, <2>1, <2>2
    <3> QED  BY <1>1, <3>1, CacheUnchanged
  <2>3. CASE ~Refines(q)
    <3>1. cache' = [cache EXCEPT !.per_volume = Nothing]
      BY <1>1, <2>3
    <3>2. Nothing \in [Volumes -> [generation : Nat, hits : SUBSET HitSet]]
      BY DEF Nothing, NoCandidates
    <3>3. /\ cache' \in [kind : {"none", "prefix", "substring", "path"}, order : {"relevance", "recent", "largest"},
                         terms : Seq(Terms), per_volume : [Volumes -> [generation : Nat, hits : SUBSET HitSet]]]
          /\ cache'.kind = cache.kind /\ cache'.terms = cache.terms /\ cache'.order = cache.order
          /\ cache'.per_volume = Nothing
      BY <2>1, <3>1, <3>2
    <3>4. CacheQuery' = CacheQuery
      BY <3>3 DEF CacheQuery
    <3>5. ASSUME NEW v \in Volumes
          PROVE  /\ Nothing[v].generation = 0 /\ Nothing[v].generation \in 0 .. generation
                 /\ KeptOK(views[v], Nothing[v], CacheQuery)
      <4>1. Nothing[v].generation = 0
        BY DEF Nothing, NoCandidates
      <4>2. views[v].generation \in 1 .. generation /\ generation \in Nat
        BY <1>1, ViewsAreOK
      <4>3. Nothing[v].generation # views[v].generation /\ 0 \in 0 .. generation
        BY <4>1, <4>2
      <4> QED  BY <4>1, <4>3 DEF KeptOK
    <3> QED  BY <1>1, <3>3, <3>4, <3>5 DEF CacheOK
  <2> QED  BY <2>2, <2>3
<1> QED  BY <1>2, <1>3 DEF IInv

LEMMA DeliverKeeps ==
  ASSUME IInv, Deliver
  PROVE  IInv'
<1>1. UNCHANGED <<views, generation, cache>> /\ asked' = NoQuery /\ answer' = <<>> /\ reused' = {}
  BY DEF Deliver
<1>2. Generations' /\ ViewsOK' /\ CacheOK'
  BY <1>1, CacheUnchanged DEF IInv, Generations, ViewsOK
<1>3. AnswerTyped' /\ AnswerExact'
  BY <1>1 DEF AnswerTyped, AnswerExact, NoQuery
<1> QED  BY <1>2, <1>3 DEF IInv

LEMMA StutterKeeps ==
  ASSUME IInv, UNCHANGED vars
  PROVE  IInv'
<1>1. UNCHANGED <<views, generation, cache, asked, answer, reused>>
  BY DEF vars
<1>2. Generations' /\ ViewsOK' /\ CacheOK' /\ AnswerTyped'
  BY <1>1, CacheUnchanged DEF IInv, Generations, ViewsOK, AnswerTyped
<1>3. AnswerExact'
  BY <1>1 DEF IInv, AnswerExact, BestMatches
<1> QED  BY <1>2, <1>3 DEF IInv

\* The invariant is inductive.
THEOREM Inductive ==
  Spec => []IInv
<1>1. IInv /\ [Next]_vars => IInv'
  <2> SUFFICES ASSUME IInv, [Next]_vars PROVE IInv'
    OBVIOUS
  <2>1. CASE UNCHANGED vars
    BY <2>1, StutterKeeps
  <2>2. CASE \E v \in Volumes : Publish(v)
    BY <2>2, PublishKeeps
  <2>3. CASE \E q \in Queries : Search(q) \/ Bypass(q) \/ Superseded(q)
    BY <2>3, SearchKeeps, BypassKeeps, SupersededKeeps
  <2>4. CASE Deliver
    BY <2>4, DeliverKeeps
  <2> QED  BY <2>1, <2>2, <2>3, <2>4 DEF Next
<1> QED  BY <1>1, InitOK, PTL DEF Spec

LEMMA InvTyped ==
  IInv => TypeOK
<1> SUFFICES ASSUME IInv PROVE TypeOK
  OBVIOUS
<1>1. /\ Generations /\ ViewsOK /\ CacheOK /\ AnswerTyped
  BY DEF IInv
<1>2. ASSUME NEW v \in Volumes
      PROVE  /\ views[v].generation \in 1 .. generation
             /\ views[v].delta.tombstones \subseteq DOMAIN views[v].base.recs
             /\ cache.per_volume[v].generation \in 0 .. generation
             /\ cache.per_volume[v].hits \subseteq [record : Slots, rank_bits : Nat]
  <2>1. ViewOK(views[v]) /\ views[v].generation \in 1 .. generation
    BY <1>1, ViewsAreOK
  <2>2. views[v].delta.tombstones \in SUBSET (1 .. BaseLen(views[v])) /\ DOMAIN views[v].base.recs = 1 .. BaseLen(views[v])
    BY <2>1, ViewSizes
  <2>3. cache.per_volume[v].hits \in SUBSET HitSet /\ cache.per_volume[v].generation \in 0 .. generation
    BY <1>1, CacheTyped DEF CacheOK
  <2>4. HitSet = [record : Slots, rank_bits : Nat]
    BY DEF HitSet, Slots
  <2> QED  BY <2>1, <2>2, <2>3, <2>4
<1>3. cache.kind \in {"none", "prefix", "substring", "path"}
  BY <1>1 DEF CacheOK
<1> QED  BY <1>1, <1>2, <1>3 DEF TypeOK, Generations, AnswerTyped

LEMMA InvComplete ==
  IInv => CacheComplete
<1> SUFFICES ASSUME IInv PROVE CacheComplete
  OBVIOUS
<1>1. /\ Generations /\ ViewsOK /\ CacheOK
  BY DEF IInv
<1>2. ASSUME NEW v \in Volumes, cache.per_volume[v].generation = views[v].generation, Decided(views[v], CacheQuery)
      PROVE  cache.per_volume[v].hits = Expected(views[v], CacheQuery)
  <2>1. views[v].generation \in 1 .. generation
    BY <1>1, ViewsAreOK
  <2>2. cache.kind # "none"
    BY <1>1, <1>2, <2>1 DEF CacheOK
  <2>3. KeptOK(views[v], cache.per_volume[v], CacheQuery)
    BY <1>1, <2>2 DEF CacheOK
  <2> QED  BY <1>2, <2>3 DEF KeptOK
<1> QED  BY <1>2 DEF CacheComplete, CacheQuery

\* Every state is of its types: among others, generations and records stay in
\* their ranges and an answer has no more hits than were asked for.
THEOREM TypeCorrect ==
  Spec => []TypeOK
BY Inductive, InvTyped, PTL

\* For any volumes, bases, batches and queries: what a connection keeps of a view
\* that is still the published one is all that its terms match there.
THEOREM CandidatesComplete ==
  Spec => []CacheComplete
BY Inductive, InvComplete, PTL

\* For any volumes, bases, batches, queries, number of threads and sizes of the
\* bounded heap's block: an answer is the best of what matches, from the
\* candidates kept as from a scan.
THEOREM AnswersExact ==
  Spec => []AnswerExact
<1>1. IInv => AnswerExact
  BY DEF IInv
<1> QED  BY <1>1, Inductive, PTL
=============================================================================
