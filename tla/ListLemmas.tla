----------------------------- MODULE ListLemmas -----------------------------
(***************************************************************************)
(* Facts about numbers and linked lists that the proofs about several      *)
(* components use: the buffer of soi4/ and the ready queue of soi2/ are    *)
(* both heads with next pointers, and both models follow the pointers with *)
(* a recursive function.                                                   *)
(***************************************************************************)
EXTENDS Integers, Sequences, FiniteSets, FiniteSetsExt, FiniteSetTheorems, TLAPS

(* A nonempty set of numbers has a least one.                              *)
LEMMA MinNat ==
  ASSUME NEW S, S \subseteq Nat, S # {}
  PROVE  Min(S) \in S /\ \A x \in S : Min(S) <= x
<1>1. PICK z \in S : TRUE
  OBVIOUS
<1> DEFINE below == {0..x : x \in S \cap 0..z}
<1>2. IsWellFoundedOn(StrictSubsetOrdering(0..z), SUBSET (0..z))
  <2>1. IsFiniteSet(0..z)
    BY <1>1, FS_Interval
  <2>2. FiniteSubsetsOf(0..z) = SUBSET (0..z)
    BY <2>1, FS_FiniteSubsetsOfFinite
  <2>3. IsWellFoundedOn(StrictSubsetOrdering(0..z), FiniteSubsetsOf(0..z))
    BY FS_StrictSubsetOrderingWellFounded
  <2> QED
    BY <2>2, <2>3
<1>3. below \subseteq SUBSET (0..z) /\ below # {}
  BY <1>1
<1>4. PICK least \in below : \A d \in below : ~ (<<d, least>> \in StrictSubsetOrdering(0..z))
  BY <1>2, <1>3, WFMin
<1>5. PICK x \in S \cap 0..z : least = 0..x
  OBVIOUS
<1>6. ASSUME NEW y \in S, y < x
      PROVE  FALSE
  <2>1. y \in 0..z /\ 0..y \in below
    BY <1>5, <1>6
  <2>2. 0..y \subseteq 0..x /\ x \in 0..x /\ x \notin 0..y
    BY <1>5, <1>6
  <2>3. <<0..y, least>> \in StrictSubsetOrdering(0..z)
    BY <1>5, <2>1, <2>2 DEF StrictSubsetOrdering
  <2> QED
    BY <1>4, <2>1, <2>3
<1>7. \A y \in S : x <= y
  BY <1>6
<1> QED
  BY <1>7 DEF Min

(* n cells in a row, the first at h, the last with end as its pointer.     *)
Linked(q, n, h, nx, end) ==
  /\ h = IF n = 0 THEN end ELSE q[1]
  /\ \A k \in 1..n : q[k] # end /\ nx[q[k]] = IF k = n THEN end ELSE q[k + 1]

(* Where a walk over N pointers from h is after k steps.                   *)
Walk(N, h, nx, end) ==
  CHOOSE F : F = [k \in 0..N |-> IF k = 0 THEN h
                                 ELSE IF F[k - 1] = end THEN end ELSE nx[F[k - 1]]]

(* A walk over a list visits its cells in their order and stays at the end *)
(* then.                                                                   *)
LEMMA WalkOfList ==
  ASSUME NEW N \in Nat, NEW n \in 0..N, NEW q, NEW h, NEW nx, NEW end, Linked(q, n, h, nx, end)
  PROVE  Walk(N, h, nx, end) = [k \in 0..N |-> IF k < n THEN q[k + 1] ELSE end]
<1> DEFINE G == [k \in 0..N |-> IF k < n THEN q[k + 1] ELSE end]
           Body(F) == [k \in 0..N |-> IF k = 0 THEN h
                                      ELSE IF F[k - 1] = end THEN end ELSE nx[F[k - 1]]]
<1>1. G = Body(G)
  <2>1. ASSUME NEW k \in 0..N
        PROVE  G[k] = IF k = 0 THEN h ELSE IF G[k - 1] = end THEN end ELSE nx[G[k - 1]]
    <3>1. CASE k = 0
      BY <3>1 DEF Linked
    <3>2. CASE k # 0 /\ k < n
      <4>1. k - 1 \in 0..N /\ k - 1 < n /\ (k - 1) + 1 = k /\ k \in 1..n
        BY <3>2
      <4>2. G[k - 1] = q[k] /\ q[k] # end /\ nx[q[k]] = q[k + 1]
        BY <3>2, <4>1 DEF Linked
      <4> QED
        BY <3>2, <4>2
    <3>3. CASE k # 0 /\ k = n
      <4>1. k - 1 \in 0..N /\ k - 1 < n /\ (k - 1) + 1 = k /\ k \in 1..n
        BY <3>3
      <4>2. G[k - 1] = q[k] /\ q[k] # end /\ nx[q[k]] = end
        BY <3>3, <4>1 DEF Linked
      <4> QED
        BY <3>3, <4>2
    <3>4. CASE k > n
      <4>1. k - 1 \in 0..N /\ ~(k - 1 < n) /\ k # 0 /\ ~(k < n)
        BY <3>4
      <4> QED
        BY <4>1
    <3> QED
      BY <3>1, <3>2, <3>3, <3>4
  <2> QED
    BY <2>1
<1>2. PICK F : F = Walk(N, h, nx, end)
  OBVIOUS
<1>3. F = Body(F)
  BY <1>1, <1>2 DEF Walk
<1>4. \A k \in 0..N : F[k] = G[k]
  <2> SUFFICES ASSUME {k \in 0..N : F[k] # G[k]} # {}
               PROVE  FALSE
    OBVIOUS
  <2> DEFINE bad == {k \in 0..N : F[k] # G[k]}
  <2>1. PICK k \in bad : \A j \in bad : k <= j
    <3>1. bad \subseteq Nat /\ bad # {}
      OBVIOUS
    <3> HIDE DEF bad
    <3>2. Min(bad) \in bad /\ \A j \in bad : Min(bad) <= j
      BY <3>1, MinNat, Zenon
    <3> QED
      BY <3>2
  <2>2. k # 0
    BY <1>1, <1>3, <2>1
  <2>3. k - 1 \in 0..N /\ k - 1 \notin bad
    BY <2>1, <2>2
  <2>4. F[k - 1] = G[k - 1]
    BY <2>3
  <2>5. F[k] = IF F[k - 1] = end THEN end ELSE nx[F[k - 1]]
    BY <1>3, <2>2
  <2>6. G[k] = IF G[k - 1] = end THEN end ELSE nx[G[k - 1]]
    BY <1>1, <2>2
  <2> QED
    BY <2>1, <2>4, <2>5, <2>6
<1> QED
  BY <1>2, <1>3, <1>4

(* No cell is twice in the row.                                            *)
Distinct(q, n) == \A j, k \in 1..n : q[j] = q[k] => j = k

(* The row q with c behind its first j cells.                              *)
Inserted(q, n, j, c) ==
  [k \in 1..n + 1 |-> IF k <= j THEN q[k] ELSE IF k = j + 1 THEN c ELSE q[k - 1]]

(* A new cell c is linked behind the first j cells of a list: the pointer  *)
(* of the cell in front of it, or the head, leads to c, and the pointer of *)
(* c to what followed.                                                     *)
LEMMA InsertCell ==
  ASSUME NEW n \in Nat, NEW q, NEW h, NEW nx, NEW end, Linked(q, n, h, nx, end), Distinct(q, n),
         NEW j \in 0..n, NEW c, c # end, \A k \in 1..n : q[k] # c,
         NEW g, g = IF j = 0 THEN c ELSE h,
         NEW nx2, nx2[c] = IF j = n THEN end ELSE q[j + 1],
         j > 0 => nx2[q[j]] = c,
         \A k \in 1..n : k # j => nx2[q[k]] = nx[q[k]]
  PROVE  /\ Linked(Inserted(q, n, j, c), n + 1, g, nx2, end)
         /\ Distinct(Inserted(q, n, j, c), n + 1)
<1> DEFINE r == Inserted(q, n, j, c)
<1>1. \A k \in 1..n + 1 : r[k] = IF k <= j THEN q[k] ELSE IF k = j + 1 THEN c ELSE q[k - 1]
  BY DEF Inserted
<1>2. g = r[1] /\ n + 1 # 0
  BY <1>1 DEF Linked
<1>3. ASSUME NEW k \in 1..n + 1
      PROVE  r[k] # end /\ nx2[r[k]] = IF k = n + 1 THEN end ELSE r[k + 1]
  <2>1. CASE k < j
    BY <1>1, <1>3, <2>1 DEF Linked
  <2>2. CASE k = j
    BY <1>1, <1>3, <2>2 DEF Linked
  <2>3. CASE k = j + 1
    BY <1>1, <1>3, <2>3
  <2>4. CASE k > j + 1
    <3>1. k - 1 \in 1..n /\ k - 1 # j /\ r[k] = q[k - 1]
      BY <1>1, <1>3, <2>4
    <3>2. nx2[r[k]] = IF k - 1 = n THEN end ELSE q[k]
      BY <3>1 DEF Linked
    <3>3. k # n + 1 => r[k + 1] = q[k]
      BY <1>1, <1>3, <2>4
    <3> QED
      BY <3>1, <3>2, <3>3 DEF Linked
  <2> QED
    BY <2>1, <2>2, <2>3, <2>4
<1>4. Distinct(r, n + 1)
  <2> SUFFICES ASSUME NEW i \in 1..n + 1, NEW k \in 1..n + 1, r[i] = r[k] PROVE i = k
    BY DEF Distinct
  <2> DEFINE old(x) == IF x <= j THEN x ELSE x - 1
  <2>1. \A x \in 1..n + 1 : x # j + 1 => old(x) \in 1..n /\ r[x] = q[old(x)]
    BY <1>1
  <2>2. CASE i = j + 1
    BY <1>1, <2>1, <2>2
  <2>3. CASE k = j + 1
    BY <1>1, <2>1, <2>3
  <2>4. CASE i # j + 1 /\ k # j + 1
    <3>1. old(i) = old(k)
      BY <2>1, <2>4 DEF Distinct
    <3> QED
      BY <2>4, <3>1
  <2> QED
    BY <2>2, <2>3, <2>4
<1> QED
  BY <1>2, <1>3, <1>4 DEF Linked

(* The row q up to its j-th cell, and c.                                   *)
CutAt(q, j, c) == [k \in 1..j + 1 |-> IF k <= j THEN q[k] ELSE c]

(* A new cell c is linked behind the j-th cell of a list and ends it: what *)
(* followed is cut off.                                                    *)
LEMMA CutCell ==
  ASSUME NEW n \in Nat, NEW q, NEW h, NEW nx, NEW end, Linked(q, n, h, nx, end), Distinct(q, n),
         NEW j \in 1..n, NEW c, c # end, \A k \in 1..n : q[k] # c,
         NEW nx2, nx2[c] = end, nx2[q[j]] = c,
         \A k \in 1..n : k # j => nx2[q[k]] = nx[q[k]]
  PROVE  /\ Linked(CutAt(q, j, c), j + 1, h, nx2, end)
         /\ Distinct(CutAt(q, j, c), j + 1)
<1> DEFINE r == CutAt(q, j, c)
<1>1. \A k \in 1..j + 1 : r[k] = IF k <= j THEN q[k] ELSE c
  BY DEF CutAt
<1>2. h = r[1] /\ j + 1 # 0
  BY <1>1 DEF Linked
<1>3. ASSUME NEW k \in 1..j + 1
      PROVE  r[k] # end /\ nx2[r[k]] = IF k = j + 1 THEN end ELSE r[k + 1]
  BY <1>1, <1>3 DEF Linked
<1>4. Distinct(r, j + 1)
  BY <1>1 DEF Distinct
<1> QED
  BY <1>2, <1>3, <1>4 DEF Linked

(* The row q without its j-th cell.                                        *)
Removed(q, n, j) == [k \in 1..n - 1 |-> IF k < j THEN q[k] ELSE q[k + 1]]

(* The j-th cell of a list is unlinked: the pointer of the cell in front   *)
(* of it, or the head, leads to what followed.                             *)
LEMMA RemoveCell ==
  ASSUME NEW n \in Nat, NEW q, NEW h, NEW nx, NEW end, Linked(q, n, h, nx, end), Distinct(q, n),
         NEW j \in 1..n,
         NEW g, g = IF j = 1 THEN nx[q[1]] ELSE h,
         NEW nx2, j > 1 => nx2[q[j - 1]] = nx[q[j]],
         \A k \in 1..n : k # j /\ k + 1 # j => nx2[q[k]] = nx[q[k]]
  PROVE  /\ Linked(Removed(q, n, j), n - 1, g, nx2, end)
         /\ Distinct(Removed(q, n, j), n - 1)
<1> DEFINE r == Removed(q, n, j)
<1>1. \A k \in 1..n - 1 : r[k] = IF k < j THEN q[k] ELSE q[k + 1]
  BY DEF Removed
<1>2. g = IF n - 1 = 0 THEN end ELSE r[1]
  BY <1>1 DEF Linked
<1>3. ASSUME NEW k \in 1..n - 1
      PROVE  r[k] # end /\ nx2[r[k]] = IF k = n - 1 THEN end ELSE r[k + 1]
  <2>1. CASE k + 1 < j
    BY <1>1, <1>3, <2>1 DEF Linked
  <2>2. CASE k + 1 = j
    <3>1. r[k] = q[j - 1] /\ j - 1 \in 1..n /\ j > 1
      BY <1>1, <1>3, <2>2
    <3>2. nx2[r[k]] = IF j = n THEN end ELSE q[j + 1]
      BY <3>1 DEF Linked
    <3>3. k # n - 1 => r[k + 1] = q[j + 1]
      BY <1>1, <1>3, <2>2
    <3> QED
      BY <2>2, <3>1, <3>2, <3>3 DEF Linked
  <2>3. CASE k >= j
    <3>1. r[k] = q[k + 1] /\ k + 1 \in 1..n /\ k + 1 # j /\ k + 2 # j
      BY <1>1, <1>3, <2>3
    <3>2. nx2[r[k]] = nx[q[k + 1]]
      BY <3>1
    <3>3. nx[q[k + 1]] = IF k + 1 = n THEN end ELSE q[k + 2]
      BY <3>1 DEF Linked
    <3>4. k # n - 1 => r[k + 1] = q[k + 2]
      BY <1>1, <1>3, <2>3
    <3> QED
      BY <3>1, <3>2, <3>3, <3>4 DEF Linked
  <2> QED
    BY <2>1, <2>2, <2>3
<1>4. Distinct(r, n - 1)
  <2> SUFFICES ASSUME NEW i \in 1..n - 1, NEW k \in 1..n - 1, r[i] = r[k] PROVE i = k
    BY DEF Distinct
  <2> DEFINE old(x) == IF x < j THEN x ELSE x + 1
  <2>1. \A x \in 1..n - 1 : old(x) \in 1..n /\ r[x] = q[old(x)]
    BY <1>1
  <2>2. old(i) = old(k)
    BY <2>1 DEF Distinct
  <2> QED
    BY <2>2
<1> QED
  BY <1>2, <1>3, <1>4 DEF Linked

=============================================================================
