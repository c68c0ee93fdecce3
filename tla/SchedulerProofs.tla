-------------------------- MODULE SchedulerProofs --------------------------
(***************************************************************************)
(* Theorems about module Scheduler, for any number of slots, any divider   *)
(* and any period: every variable keeps its type, and the user ready queue *)
(* of kernel/proc.c, a head, a tail and next pointers that ready, unready, *)
(* do_fork, do_xit and the turns of sched all write, always spells exactly *)
(* the processes that are ready.                                           *)
(***************************************************************************)
EXTENDS Scheduler, ListLemmas

(* User slots are slots and never NIL.                                     *)
LEMMA SlotFacts ==
  /\ UserSlots \subseteq Slots /\ NIL \notin UserSlots /\ INIT \in UserSlots
  /\ IsFiniteSet(UserSlots) /\ Cardinality(UserSlots) <= NR_PROCS /\ NR_PROCS \in Nat
  /\ 0 .. NR_PROCS - 1 \subseteq Slots
<1>1. /\ UserSlots \subseteq Slots /\ NIL \notin UserSlots /\ INIT \in UserSlots
      /\ 0 .. NR_PROCS - 1 \subseteq Slots /\ NR_PROCS \in Nat
  BY SlotAssumption DEF UserSlots, Slots, INIT
<1>2. IsFiniteSet(UserSlots) /\ Cardinality(UserSlots) = NR_PROCS - LOW_USER
  <2>1. PICK a, b : a = NR_TASKS + LOW_USER /\ b = NR_TASKS + NR_PROCS - 1
    OBVIOUS
  <2>2. a \in Int /\ b \in Int /\ a <= b /\ b - a + 1 = NR_PROCS - LOW_USER
    BY <2>1, SlotAssumption
  <2>3. IsFiniteSet(a..b) /\ Cardinality(a..b) = IF a > b THEN 0 ELSE b - a + 1
    BY <2>2, FS_Interval
  <2> QED
    BY <2>1, <2>2, <2>3 DEF UserSlots
<1> QED
  BY <1>1, <1>2, SlotAssumption

(* The slot that the loops of system.c take under the pid of p.            *)
LEMMA HitIsSlot ==
  ASSUME NEW p, Hits(p) # {}
  PROVE  Hit(p) \in Slots
<1>1. Hits(p) \subseteq Nat /\ Hits(p) \subseteq 0 .. NR_PROCS - 1
  BY DEF Hits
<1>2. Hit(p) \in Hits(p)
  BY <1>1, MinNat, Zenon DEF Hit
<1> QED
  BY <1>1, <1>2, SlotFacts

-----------------------------------------------------------------------------
(* The types.                                                              *)

(* The types of everything but the queue.                                  *)
TableTyped ==
  /\ isuser \in [UserSlots -> BOOLEAN]
  /\ p_pid \in [Slots -> Pids \cup {0, 1}]
  /\ pri_group \in [Slots -> Groups]
  /\ blocked \in [UserSlots -> BOOLEAN]
  /\ scheduler_divider \in 1 .. PERCENT - 1
  /\ a_history \in 0 .. PERCENT /\ b_history \in 0 .. PERCENT
  /\ sum \in -INT_MAX - 1 .. INT_MAX
  /\ switching \in BOOLEAN
  /\ reply \in -3 .. 1
  /\ events \in 0 .. MaxEvents
  /\ given \in [Groups -> 0 .. MaxPicks]

QueueTyped ==
  /\ rdy_head \in UserSlots \cup {NIL} /\ rdy_tail \in UserSlots
  /\ p_nextready \in [UserSlots -> UserSlots \cup {NIL}]

(* An event between two calls of sched keeps its own variables typed.      *)
LEMMA EventTyped ==
  ASSUME TableTyped, Event
  PROVE  /\ events' \in 0 .. MaxEvents
         /\ given' \in [Groups -> 0 .. MaxPicks]
         /\ switching' = switching /\ ~switching
BY NumberAssumption DEF TableTyped, Event

(* What a turn of sched makes of the histories and the count of turns.     *)
LEMMA TurnTyped ==
  ASSUME TableTyped
  PROVE  /\ NextSum \in -INT_MAX - 1 .. INT_MAX
         /\ \A g \in Groups : Histories[g] \in 0 .. PERCENT /\ Share(g) \in 1 .. PERCENT - 1
<1>1. NextSum \in -INT_MAX - 1 .. INT_MAX
  BY NumberAssumption DEF TableTyped, NextSum
<1>2. ASSUME NEW g \in Groups
      PROVE  Histories[g] \in 0 .. PERCENT /\ Share(g) \in 1 .. PERCENT - 1
  <2>1. Histories[g] \in {0, a_history, b_history}
    BY DEF Histories
  <2>2. Histories[g] \in 0 .. PERCENT
    BY <2>1, NumberAssumption DEF TableTyped
  <2>3. Share(g) \in 1 .. PERCENT - 1
    BY NumberAssumption DEF TableTyped, Share
  <2> QED
    BY <2>2, <2>3
<1> QED
  BY <1>1, <1>2

-----------------------------------------------------------------------------
(* The queue.                                                              *)

(* The pointers from rdy_head spell the n processes q, which are the ready *)
(* ones, each once, and the tail is the last of them.                      *)
Spells(q, n) ==
  /\ q \in [1..n -> UserSlots]
  /\ Linked(q, n, rdy_head, p_nextready, NIL)
  /\ Distinct(q, n)
  /\ \A p \in UserSlots : Ready(p) <=> \E k \in 1..n : q[k] = p
  /\ n > 0 => rdy_tail = q[n]

(* There is such a row, and sched turns only while it is not empty: no     *)
(* interrupt takes the last process off the queue under the loop.          *)
QueueKept ==
  /\ \E n \in Nat : \E q \in [1..n -> UserSlots] : Spells(q, n)
  /\ switching => rdy_head # NIL

(* A row of different user slots is no longer than the process table.      *)
LEMMA QueueShort ==
  ASSUME NEW n \in Nat, NEW q \in [1..n -> UserSlots], Distinct(q, n)
  PROVE  n <= NR_PROCS
<1>1. q \in Injection(1..n, UserSlots)
  BY DEF Distinct, Injection, IsInjective
<1>2. 1 \in Int /\ n \in Int
  OBVIOUS
<1>3. IsFiniteSet(1..n) /\ Cardinality(1..n) = n
  <2>1. IsFiniteSet(1..n) /\ Cardinality(1..n) = IF 1 > n THEN 0 ELSE n - 1 + 1
    BY <1>2, FS_Interval
  <2> QED
    BY <2>1
<1>4. Cardinality(1..n) <= Cardinality(UserSlots)
  BY <1>1, <1>3, SlotFacts, FS_Injection
<1>5. Cardinality(UserSlots) \in Nat
  BY SlotFacts, FS_CardinalityType
<1> QED
  BY <1>3, <1>4, <1>5, SlotFacts

(* The walk of the model visits the row and is NIL behind it.              *)
LEMMA NthOfQueue ==
  ASSUME NEW n \in Nat, NEW q, Spells(q, n)
  PROVE  n <= NR_PROCS /\ Nth = [k \in 0..NR_PROCS |-> IF k < n THEN q[k + 1] ELSE NIL]
<1>1. n <= NR_PROCS
  BY QueueShort DEF Spells
<1>2. Nth = Walk(NR_PROCS, rdy_head, p_nextready, NIL)
  BY Zenon DEF Nth, Walk
<1>3. n \in 0..NR_PROCS /\ NR_PROCS \in Nat /\ Linked(q, n, rdy_head, p_nextready, NIL)
  BY <1>1, SlotFacts DEF Spells
<1> QED
  BY <1>1, <1>2, <1>3, WalkOfList

(* A process put at the front by ready was not on the queue and now is.    *)
LEMMA ReadyStep ==
  ASSUME QueueTyped, NEW n \in Nat, NEW q, Spells(q, n),
         NEW p \in UserSlots, ~Ready(p), ready(p),
         Ready(p)', \A r \in UserSlots : r # p => (Ready(r)' <=> Ready(r))
  PROVE  QueueTyped' /\ Spells(Inserted(q, n, 0, p), n + 1)'
<1> DEFINE r == Inserted(q, n, 0, p)
<1>1. QueueTyped'
  BY DEF QueueTyped, ready
<1>2. \A k \in 1..n : q[k] # p
  BY DEF Spells
<1>3. p_nextready'[p] = rdy_head /\ \A k \in 1..n : p_nextready'[q[k]] = p_nextready[q[k]]
  BY <1>2 DEF Spells, QueueTyped, ready
<1>4. /\ Linked(r, n + 1, rdy_head', p_nextready', NIL)
      /\ Distinct(r, n + 1)
  <2>1. PICK g, nx : g = rdy_head' /\ nx = p_nextready'
    OBVIOUS
  <2>2. g = p /\ nx[p] = (IF 0 = n THEN NIL ELSE q[0 + 1])
    BY <1>3, <2>1 DEF Spells, Linked, ready
  <2>3. /\ Linked(q, n, rdy_head, p_nextready, NIL) /\ Distinct(q, n)
        /\ p # NIL /\ 0 \in 0..n
    BY SlotFacts DEF Spells
  <2>4. \A k \in 1..n : k # 0 => nx[q[k]] = p_nextready[q[k]]
    BY <1>3, <2>1
  <2>5. Linked(r, n + 1, g, nx, NIL) /\ Distinct(r, n + 1)
    BY <1>2, <2>2, <2>3, <2>4, InsertCell
  <2> QED
    BY <2>1, <2>5
<1>5. \A k \in 1..n + 1 : r[k] = IF k = 1 THEN p ELSE q[k - 1]
  BY DEF Inserted
<1>6. r \in [1..n + 1 -> UserSlots]
  BY <1>5 DEF Inserted, Spells
<1>7. rdy_tail' = r[n + 1]
  BY <1>5 DEF ready, Spells, Linked
<1>8. ASSUME NEW s \in UserSlots
      PROVE  Ready(s)' <=> \E k \in 1..n + 1 : r[k] = s
  <2>1. (\E k \in 1..n + 1 : r[k] = s) <=> s = p \/ \E k \in 1..n : q[k] = s
    <3>1. ASSUME NEW k \in 1..n, q[k] = s PROVE \E i \in 1..n + 1 : r[i] = s
      <4>1. k + 1 \in 1..n + 1 /\ r[k + 1] = s
        BY <1>5, <3>1
      <4> QED
        BY <4>1
    <3>2. 1 \in 1..n + 1 /\ r[1] = p
      BY <1>5
    <3>3. ASSUME NEW k \in 1..n + 1, r[k] = s, s # p PROVE \E i \in 1..n : q[i] = s
      <4>1. k - 1 \in 1..n /\ q[k - 1] = s
        BY <1>5, <3>3
      <4> QED
        BY <4>1
    <3> HIDE DEF r
    <3> QED
      BY <3>1, <3>2, <3>3
  <2> QED
    BY <2>1 DEF Spells
<1> HIDE DEF r
<1>9. Spells(r, n + 1)'
  BY <1>4, <1>6, <1>7, <1>8 DEF Spells
<1> QED
  BY <1>1, <1>9 DEF r

(* A process that unready takes from the queue was on it, at a place j, and*)
(* is not any more; the others keep their order and the last is the tail.  *)
LEMMA UnreadyStep ==
  ASSUME QueueTyped, NEW n \in Nat, NEW q, Spells(q, n),
         NEW p \in UserSlots, Ready(p), unready(p),
         ~Ready(p)', \A r \in UserSlots : r # p => (Ready(r)' <=> Ready(r))
  PROVE  QueueTyped' /\ n > 0 /\ \E j \in 1..n : Spells(Removed(q, n, j), n - 1)'
<1>1. PICK j \in 1..n : q[j] = p
  BY DEF Spells
<1>2. /\ n <= NR_PROCS /\ NR_PROCS \in Nat
      /\ \A k \in 0..NR_PROCS : Nth[k] = IF k < n THEN q[k + 1] ELSE NIL
  BY NthOfQueue, SlotFacts
<1>3. \A k \in 1..n : q[k] = p => k = j
  BY <1>1 DEF Spells, Distinct
<1>4. rdy_head = q[1]
  BY <1>1 DEF Spells, Linked
<1>5. /\ rdy_head' = IF j = 1 THEN p_nextready[q[1]] ELSE rdy_head
      /\ j = 1 => UNCHANGED <<rdy_tail, p_nextready>>
      /\ j # 1 => /\ p_nextready' = [p_nextready EXCEPT ![q[j - 1]] = p_nextready[p]]
                  /\ rdy_tail' = IF rdy_tail = p THEN q[j - 1] ELSE rdy_tail
  <2>1. CASE rdy_head = p /\ rdy_head' = p_nextready[p] /\ UNCHANGED <<rdy_tail, p_nextready>>
    <3>1. 1 \in 1..n /\ q[1] = p
      BY <1>4, <2>1
    <3>2. j = 1
      BY <1>3, <3>1
    <3> QED
      BY <1>1, <2>1, <3>2
  <2>2. ASSUME rdy_head # p, rdy_head' = rdy_head, NEW m \in 0 .. NR_PROCS - 1, Nth[m + 1] = p,
               p_nextready' = [p_nextready EXCEPT ![Nth[m]] = p_nextready[p]],
               rdy_tail' = IF rdy_tail = p THEN Nth[m] ELSE rdy_tail
        PROVE  <1>5!:
    <3>1. m + 1 < n /\ q[m + 2] = p
      BY <1>2, <2>2, SlotFacts
    <3>2. m + 2 = j
      BY <1>3, <3>1
    <3>3. Nth[m] = q[j - 1] /\ j # 1
      BY <1>2, <3>1, <3>2
    <3> QED
      BY <2>2, <3>3
  <2>3. ASSUME \A k \in 0 .. NR_PROCS : Nth[k] # p PROVE FALSE
    <3>1. j - 1 \in 0 .. NR_PROCS /\ j - 1 < n /\ (j - 1) + 1 = j
      BY <1>2
    <3>2. Nth[j - 1] = p
      BY <1>1, <1>2, <3>1
    <3> QED
      BY <2>3, <3>1, <3>2
  <2> QED
    BY <2>1, <2>2, <2>3 DEF unready
<1>6. QueueTyped'
  <2>1. j # 1 => q[j - 1] \in UserSlots
    BY DEF Spells
  <2> QED
    BY <1>1, <1>5, <2>1 DEF QueueTyped, Spells
<1> DEFINE r == Removed(q, n, j)
<1>7. /\ Linked(r, n - 1, rdy_head', p_nextready', NIL)
      /\ Distinct(r, n - 1)
  <2>1. PICK g, nx : g = rdy_head' /\ nx = p_nextready'
    OBVIOUS
  <2>2. g = IF j = 1 THEN p_nextready[q[1]] ELSE rdy_head
    BY <1>5, <2>1
  <2>3. Linked(q, n, rdy_head, p_nextready, NIL) /\ Distinct(q, n)
    BY DEF Spells
  <2>4. j > 1 => nx[q[j - 1]] = p_nextready[q[j]]
    BY <1>1, <1>5, <2>1 DEF QueueTyped, Spells
  <2>5. ASSUME NEW k \in 1..n, k # j, k + 1 # j
        PROVE  nx[q[k]] = p_nextready[q[k]]
    <3>1. j # 1 => q[k] # q[j - 1]
      BY <2>5 DEF Spells, Distinct
    <3> QED
      BY <1>5, <2>1, <3>1 DEF QueueTyped, Spells
  <2>6. Linked(r, n - 1, g, nx, NIL) /\ Distinct(r, n - 1)
    BY <2>2, <2>3, <2>4, <2>5, RemoveCell
  <2> QED
    BY <2>1, <2>6
<1>8. \A k \in 1..n - 1 : r[k] = IF k < j THEN q[k] ELSE q[k + 1]
  BY DEF Removed
<1>9. r \in [1..n - 1 -> UserSlots]
  BY <1>8 DEF Removed, Spells
<1>10. n - 1 > 0 => rdy_tail' = r[n - 1]
  <2> SUFFICES ASSUME n - 1 > 0 PROVE rdy_tail' = r[n - 1]
    OBVIOUS
  <2>1. rdy_tail = q[n] /\ n - 1 \in 1..n - 1
    BY DEF Spells
  <2>2. rdy_tail = p <=> j = n
    BY <1>1, <1>3, <2>1
  <2> QED
    BY <1>5, <1>8, <2>1, <2>2
<1>11. ASSUME NEW s \in UserSlots
       PROVE  Ready(s)' <=> \E k \in 1..n - 1 : r[k] = s
  <2>1. ASSUME NEW k \in 1..n, q[k] = s, s # p PROVE \E i \in 1..n - 1 : r[i] = s
    <3>1. k # j
      BY <1>1, <2>1
    <3>2. CASE k < j
      BY <1>8, <2>1, <3>2
    <3>3. CASE k > j
      <4>1. k - 1 \in 1..n - 1 /\ r[k - 1] = s
        BY <1>8, <2>1, <3>3
      <4> QED
        BY <4>1
    <3> QED
      BY <3>1, <3>2, <3>3
  <2>2. ASSUME NEW k \in 1..n - 1, r[k] = s PROVE s # p /\ \E i \in 1..n : q[i] = s
    <3>1. PICK i \in 1..n : i = IF k < j THEN k ELSE k + 1
      OBVIOUS
    <3>2. q[i] = s /\ i # j
      BY <1>8, <2>2, <3>1
    <3> QED
      BY <1>3, <3>2
  <2> HIDE DEF r
  <2> QED
    BY <2>1, <2>2 DEF Spells
<1> HIDE DEF r
<1>12. Spells(r, n - 1)'
  BY <1>7, <1>9, <1>10, <1>11 DEF Spells
<1> QED
  BY <1>6, <1>12 DEF r

(* The row q with its first process moved to the end.                      *)
Turned(q, n) == [k \in 1..n |-> IF k = n THEN q[1] ELSE q[k + 1]]

(* A turn of sched moves the head of the queue to its end.                 *)
LEMMA TurnStep ==
  ASSUME QueueTyped, NEW n \in Nat \ {0}, NEW q, Spells(q, n), TurnQueue,
         UNCHANGED <<isuser, blocked>>
  PROVE  QueueTyped' /\ Spells(Turned(q, n), n)' /\ rdy_head' \in UserSlots
<1> DEFINE r == Turned(q, n)
<1>1. \A k \in 1..n : r[k] = IF k = n THEN q[1] ELSE q[k + 1]
  BY DEF Turned
<1>2. r \in [1..n -> UserSlots]
  BY <1>1 DEF Turned, Spells
<1>3. /\ rdy_head = q[1] /\ rdy_tail = q[n] /\ q[1] \in UserSlots /\ q[n] \in UserSlots
      /\ p_nextready \in [UserSlots -> UserSlots \cup {NIL}]
  BY DEF Spells, Linked, QueueTyped
<1>4. PICK linked : linked = [p_nextready EXCEPT ![rdy_tail] = rdy_head]
  OBVIOUS
<1>5. /\ rdy_tail' = rdy_head /\ rdy_head' = linked[rdy_head]
      /\ p_nextready' = [linked EXCEPT ![rdy_head] = NIL]
  BY <1>4, Zenon DEF TurnQueue
<1>6. /\ linked \in [UserSlots -> UserSlots \cup {NIL}]
      /\ linked[q[n]] = q[1]
      /\ \A k \in 1..n : k # n => linked[q[k]] = q[k + 1]
  <2>1. \A k \in 1..n : k # n => q[k] # q[n]
    BY DEF Spells, Distinct
  <2>2. \A k \in 1..n : k # n => p_nextready[q[k]] = q[k + 1]
    BY DEF Spells, Linked
  <2> QED
    BY <1>3, <1>4, <2>1, <2>2 DEF Spells
<1>7. rdy_head' = r[1] /\ r[1] \in UserSlots
  BY <1>1, <1>2, <1>3, <1>5, <1>6
<1>8. ASSUME NEW k \in 1..n
      PROVE  r[k] # NIL /\ p_nextready'[r[k]] = IF k = n THEN NIL ELSE r[k + 1]
  <2>1. r[k] \in UserSlots
    BY <1>2
  <2>2. CASE k = n
    BY <1>1, <1>3, <1>5, <1>6, <2>1, <2>2, SlotFacts
  <2>3. CASE k # n
    <3>1. r[k] = q[k + 1] /\ k + 1 \in 1..n /\ k + 1 # 1
      BY <1>1, <2>3
    <3>2. q[k + 1] # q[1]
      BY <3>1 DEF Spells, Distinct
    <3>3. p_nextready'[r[k]] = linked[q[k + 1]]
      BY <1>3, <1>5, <1>6, <2>1, <3>1, <3>2
    <3>4. r[k + 1] = IF k + 1 = n THEN q[1] ELSE q[k + 2]
      BY <1>1, <3>1
    <3> QED
      BY <1>6, <2>1, <2>3, <3>1, <3>3, <3>4, SlotFacts
  <2> QED
    BY <2>2, <2>3
<1>9. Linked(r, n, rdy_head', p_nextready', NIL)
  BY <1>7, <1>8 DEF Linked
<1>10. Distinct(r, n)
  <2> SUFFICES ASSUME NEW i \in 1..n, NEW k \in 1..n, r[i] = r[k] PROVE i = k
    BY DEF Distinct
  <2> DEFINE old(x) == IF x = n THEN 1 ELSE x + 1
  <2>1. \A x \in 1..n : old(x) \in 1..n /\ r[x] = q[old(x)]
    BY <1>1
  <2>2. old(i) = old(k)
    BY <2>1 DEF Spells, Distinct
  <2> QED
    BY <2>2
<1>11. rdy_tail' = r[n]
  BY <1>1, <1>3, <1>5
<1>12. ASSUME NEW s \in UserSlots
       PROVE  Ready(s)' <=> \E k \in 1..n : r[k] = s
  <2>1. ASSUME NEW k \in 1..n, q[k] = s PROVE \E i \in 1..n : r[i] = s
    <3>1. CASE k = 1
      BY <1>1, <2>1, <3>1
    <3>2. CASE k # 1
      <4>1. k - 1 \in 1..n /\ r[k - 1] = s
        BY <1>1, <2>1, <3>2
      <4> QED
        BY <4>1
    <3> QED
      BY <3>1, <3>2
  <2>2. ASSUME NEW k \in 1..n, r[k] = s PROVE \E i \in 1..n : q[i] = s
    <3>1. CASE k = n
      BY <1>1, <2>2, <3>1
    <3>2. CASE k # n
      <4>1. k + 1 \in 1..n /\ q[k + 1] = s
        BY <1>1, <2>2, <3>2
      <4> QED
        BY <4>1
    <3> QED
      BY <3>1, <3>2
  <2> HIDE DEF r
  <2> QED
    BY <2>1, <2>2 DEF Spells, Ready
<1>13. QueueTyped'
  BY <1>3, <1>5, <1>6, <1>7 DEF QueueTyped
<1> HIDE DEF r
<1>14. Spells(r, n)'
  BY <1>2, <1>9, <1>10, <1>11, <1>12 DEF Spells
<1> QED
  BY <1>7, <1>13, <1>14 DEF r

(* Every step keeps the process table, the divider and the histories typed,*)
(* if a turn finds a process to look at.                                   *)
LEMMA TableStep ==
  ASSUME TableTyped, [Next]_vars, Pick => rdy_head' \in UserSlots
  PROVE  TableTyped'
<1> USE DEF TableTyped
<1>1. ASSUME NEW p \in UserSlots, Block(p) \/ Unblock(p) \/ do_xit(p)
      PROVE  TableTyped'
  BY <1>1, EventTyped DEF Block, Unblock, do_xit, stats
<1>2. ASSUME NEW p \in UserSlots, do_getprigroup(p) \/ do_getusagetime(p)
      PROVE  TableTyped'
  <2>1. reply' \in -3 .. 1
    <3>1. Hits(p) # {} => pri_group[Hit(p)] \in {0, 1}
      BY HitIsSlot DEF Groups
    <3> QED
      BY <1>2, <3>1 DEF do_getprigroup, do_getusagetime
  <2> QED
    BY <1>2, <2>1, EventTyped DEF do_getprigroup, do_getusagetime, table, stats
<1>3. ASSUME NEW p \in UserSlots, do_changeprigroup(p) PROVE TableTyped'
  <2>1. CASE Hits(p) = {}
    BY <1>3, <2>1, EventTyped DEF do_changeprigroup, stats
  <2>2. CASE Hits(p) # {}
    <3>1. PICK h \in Slots : h = Hit(p)
      BY <2>2, HitIsSlot
    <3>2. pri_group[h] \in {0, 1}
      BY DEF Groups
    <3>3. reply' = 1 - pri_group[h] /\ pri_group' = [pri_group EXCEPT ![h] = 1 - @]
      BY <1>3, <2>2, <3>1 DEF do_changeprigroup
    <3>4. reply' \in -3 .. 1 /\ pri_group' \in [Slots -> Groups]
      BY <3>2, <3>3 DEF Groups
    <3> QED
      BY <1>3, <3>4, EventTyped DEF do_changeprigroup, stats
  <2> QED
    BY <2>1, <2>2
<1>4. ASSUME NEW p \in UserSlots, NEW arg \in 0 .. PERCENT, do_setscheduler(p, arg)
      PROVE  TableTyped'
  <2>1. reply' \in -3 .. 1 /\ scheduler_divider' \in 1 .. PERCENT - 1
    BY <1>4, NumberAssumption DEF do_setscheduler
  <2> QED
    BY <1>4, <2>1, EventTyped DEF do_setscheduler, table, stats
<1>5. ASSUME NEW p \in UserSlots, NEW child \in UserSlots, NEW pid \in Pids,
             do_fork(p, child, pid)
      PROVE  TableTyped'
  <2>1. pid % 2 \in Groups /\ child \in Slots
    BY SlotAssumption, SlotFacts DEF Groups
  <2> QED
    BY <1>5, <2>1, EventTyped DEF do_fork, stats
<1>6. CASE Sched
  BY <1>6 DEF Sched, table, stats
<1>7. CASE Skip
  <2>1. a_history' \in 0 .. PERCENT /\ b_history' \in 0 .. PERCENT
    BY <1>7, TurnTyped DEF Skip, Groups
  <2> QED
    BY <1>7, <2>1, TurnTyped DEF Skip, table
<1>8. CASE Pick
  <2>1. PICK f \in Groups : f = pri_group[rdy_head']
    BY <1>8, SlotFacts
  <2>2. /\ ~ (Histories[f] > Share(f))
        /\ a_history' = Histories[0] + (1 - f) /\ b_history' = Histories[1] + f
        /\ given' = IF given[0] + given[1] < MaxPicks
                    THEN [given EXCEPT ![f] = @ + 1] ELSE given
    BY <1>8, <2>1 DEF Pick, Front, Exhausted
  <2>3. /\ Histories[0] \in 0 .. PERCENT /\ Histories[1] \in 0 .. PERCENT
        /\ Histories[f] \in 0 .. PERCENT /\ Share(f) \in 1 .. PERCENT - 1
    BY TurnTyped DEF Groups
  <2>4. Histories[f] + 1 \in 0 .. PERCENT
    BY <2>2, <2>3, NumberAssumption
  <2>5. a_history' \in 0 .. PERCENT /\ b_history' \in 0 .. PERCENT
    <3>1. CASE f = 0
      BY <2>2, <2>3, <2>4, <3>1
    <3>2. CASE f = 1
      BY <2>2, <2>3, <2>4, <3>2
    <3> QED
      BY <3>1, <3>2 DEF Groups
  <2>6. given' \in [Groups -> 0 .. MaxPicks]
    <3>1. given[0] \in 0 .. MaxPicks /\ given[1] \in 0 .. MaxPicks
      BY DEF Groups
    <3>2. given[0] + given[1] < MaxPicks => given[f] + 1 \in 0 .. MaxPicks
      BY <3>1, NumberAssumption DEF Groups
    <3> QED
      BY <2>2, <3>2
  <2>7. /\ sum' = NextSum /\ switching' = FALSE
        /\ UNCHANGED <<table, scheduler_divider, reply, events>>
    BY <1>8 DEF Pick
  <2> QED
    BY <2>5, <2>6, <2>7, TurnTyped DEF table
<1>9. CASE UNCHANGED vars
  BY <1>9 DEF vars, table, queue, stats
<1> QED
  BY <1>1, <1>2, <1>3, <1>4, <1>5, <1>6, <1>7, <1>8, <1>9 DEF Next

-----------------------------------------------------------------------------

(* Every step keeps the queue.                                             *)
LEMMA QueueStep ==
  ASSUME TableTyped, QueueTyped, QueueKept, [Next]_vars
  PROVE  QueueTyped' /\ QueueKept' /\ (Pick => rdy_head' \in UserSlots)
<1>1. PICK n \in Nat : \E q \in [1..n -> UserSlots] : Spells(q, n)
  BY DEF QueueKept
<1>2. PICK q \in [1..n -> UserSlots] : Spells(q, n)
  BY <1>1
<1>3. isuser \in [UserSlots -> BOOLEAN] /\ blocked \in [UserSlots -> BOOLEAN]
  BY DEF TableTyped
<1>4. ASSUME NEW m \in Nat, NEW r, Spells(r, m)', QueueTyped',
             ~switching' \/ (switching /\ m = n) \/ (switching' /\ m > 0)
      PROVE  QueueTyped' /\ QueueKept'
  <2>1. r \in [1..m -> UserSlots]
    BY <1>4 DEF Spells
  <2>2. switching' => rdy_head' # NIL
    <3>1. (n > 0 <=> rdy_head # NIL) /\ (m > 0 <=> rdy_head' # NIL)
      <4>1. ASSUME NEW k \in Nat, NEW s \in [1..k -> UserSlots], NEW h, NEW nx,
                   Linked(s, k, h, nx, NIL)
            PROVE  k > 0 <=> h # NIL
        BY <4>1, SlotFacts DEF Linked
      <4>2. Linked(q, n, rdy_head, p_nextready, NIL) /\ Linked(r, m, rdy_head, p_nextready, NIL)'
        BY <1>2, <1>4 DEF Spells
      <4> QED
        BY <2>1, <4>1, <4>2
    <3> QED
      BY <1>4, <3>1 DEF QueueKept
  <2> QED
    BY <1>4, <2>1, <2>2 DEF QueueKept
<1>5. ASSUME UNCHANGED <<isuser, blocked, queue>>, UNCHANGED switching \/ rdy_head # NIL
      PROVE  QueueTyped' /\ QueueKept'
  <2>1. QueueTyped'
    BY <1>5 DEF QueueTyped, queue
  <2>2. Spells(q, n)'
    BY <1>2, <1>5 DEF Spells, Ready, queue
  <2>3. switching' => rdy_head' # NIL
    BY <1>5 DEF QueueKept, queue
  <2> QED
    BY <2>1, <2>2, <2>3 DEF QueueKept
<1>6. ASSUME NEW p \in UserSlots, Block(p) PROVE QueueTyped' /\ QueueKept'
  <2>1. Ready(p) /\ ~Ready(p)' /\ \A r \in UserSlots : r # p => (Ready(r)' <=> Ready(r))
    BY <1>3, <1>6 DEF Block, Ready
  <2>2. unready(p) /\ ~switching'
    BY <1>6 DEF Block, Event
  <2>3. QueueTyped' /\ n > 0 /\ \E j \in 1..n : Spells(Removed(q, n, j), n - 1)'
    BY <1>2, <2>1, <2>2, UnreadyStep
  <2>4. n - 1 \in Nat
    BY <2>3
  <2> QED
    BY <1>4, <2>2, <2>3, <2>4
<1>7. ASSUME NEW p \in UserSlots, Unblock(p) PROVE QueueTyped' /\ QueueKept'
  <2>1. ~Ready(p) /\ Ready(p)' /\ \A r \in UserSlots : r # p => (Ready(r)' <=> Ready(r))
    BY <1>3, <1>7 DEF Unblock, Ready
  <2>2. ready(p) /\ ~switching'
    BY <1>7 DEF Unblock, Event
  <2>3. QueueTyped' /\ Spells(Inserted(q, n, 0, p), n + 1)'
    BY <1>2, <2>1, <2>2, ReadyStep
  <2> QED
    BY <1>4, <2>2, <2>3
<1>8. ASSUME NEW p \in UserSlots, do_xit(p) PROVE QueueTyped' /\ QueueKept'
  <2>1. ~Ready(p)' /\ \A r \in UserSlots : r # p => (Ready(r)' <=> Ready(r))
    BY <1>3, <1>8 DEF do_xit, Ready
  <2>2. Ready(p) <=> ~blocked[p]
    BY <1>8 DEF do_xit, Ready
  <2>3. ~switching'
    BY <1>8 DEF do_xit, Event
  <2>4. CASE blocked[p]
    <3>1. UNCHANGED queue
      BY <1>8, <2>4 DEF do_xit
    <3>2. \A r \in UserSlots : Ready(r)' <=> Ready(r)
      BY <2>1, <2>2, <2>4
    <3>3. QueueTyped' /\ Spells(q, n)'
      BY <1>2, <3>1, <3>2 DEF QueueTyped, Spells, queue
    <3> QED
      BY <1>4, <2>3, <3>3
  <2>5. CASE ~blocked[p]
    <3>1. unready(p)
      BY <1>8, <2>5 DEF do_xit
    <3>2. QueueTyped' /\ n > 0 /\ \E j \in 1..n : Spells(Removed(q, n, j), n - 1)'
      BY <1>2, <2>1, <2>2, <2>5, <3>1, UnreadyStep
    <3>3. n - 1 \in Nat
      BY <3>2
    <3> QED
      BY <1>4, <2>3, <3>2, <3>3
  <2> QED
    BY <2>4, <2>5
<1>9. ASSUME NEW p \in UserSlots, NEW child \in UserSlots, NEW pid \in Pids,
             do_fork(p, child, pid)
      PROVE  QueueTyped' /\ QueueKept'
  <2>1. \A r \in UserSlots : Ready(r)' <=> Ready(r)
    BY <1>3, <1>9 DEF do_fork, Ready
  <2>2. \A k \in 1..n : q[k] # child
    BY <1>2, <1>9 DEF do_fork, Spells, Ready
  <2>3. \A k \in 1..n : p_nextready'[q[k]] = p_nextready[q[k]]
    BY <1>9, <2>2 DEF do_fork, QueueTyped
  <2>4. rdy_head' = rdy_head /\ rdy_tail' = rdy_tail /\ ~switching'
    BY <1>9 DEF do_fork, Event
  <2>5. Linked(q, n, rdy_head, p_nextready, NIL)'
    BY <1>2, <2>3, <2>4 DEF Spells, Linked
  <2>6. QueueTyped'
    BY <1>9, <2>4 DEF do_fork, QueueTyped
  <2>7. Spells(q, n)'
    BY <1>2, <2>1, <2>4, <2>5 DEF Spells
  <2> QED
    BY <1>4, <2>4, <2>6, <2>7
<1>10. ASSUME NEW p \in UserSlots,
              \/ do_getprigroup(p) \/ do_changeprigroup(p) \/ do_getusagetime(p)
              \/ \E arg \in 0 .. PERCENT : do_setscheduler(p, arg)
       PROVE  QueueTyped' /\ QueueKept'
  <2>1. UNCHANGED <<isuser, blocked, queue, switching>>
    BY <1>10 DEF do_getprigroup, do_changeprigroup, do_getusagetime, do_setscheduler, Event, table
  <2> QED
    BY <1>5, <2>1
<1>11. ASSUME Sched PROVE QueueTyped' /\ QueueKept'
  <2>1. UNCHANGED <<isuser, blocked, queue>> /\ rdy_head # NIL
    BY <1>11 DEF Sched, table
  <2> QED
    BY <1>5, <2>1
<1>12. ASSUME Skip \/ Pick PROVE QueueTyped' /\ QueueKept'
  <2>1. TurnQueue /\ switching /\ UNCHANGED <<isuser, blocked>>
    BY <1>12 DEF Skip, Pick, table
  <2>2. n # 0
    BY <1>2, <2>1 DEF QueueKept, Spells, Linked
  <2>3. QueueTyped' /\ Spells(Turned(q, n), n)' /\ rdy_head' \in UserSlots
    BY <1>2, <2>1, <2>2, TurnStep
  <2> QED
    BY <1>4, <2>1, <2>3
<1>13. ASSUME UNCHANGED vars PROVE QueueTyped' /\ QueueKept'
  <2>1. UNCHANGED <<isuser, blocked, queue>> /\ UNCHANGED switching
    BY <1>13 DEF vars, table
  <2> QED
    BY <1>5, <2>1
<1>14. Pick => rdy_head' \in UserSlots
  <2> SUFFICES ASSUME Pick PROVE rdy_head' \in UserSlots
    OBVIOUS
  <2>1. TurnQueue /\ switching /\ UNCHANGED <<isuser, blocked>>
    BY DEF Pick, table
  <2>2. n # 0
    BY <1>2, <2>1 DEF QueueKept, Spells, Linked
  <2> QED
    BY <1>2, <2>1, <2>2, TurnStep
<1>15. QueueTyped' /\ QueueKept'
  BY <1>6, <1>7, <1>8, <1>9, <1>10, <1>11, <1>12, <1>13 DEF Next
<1> QED
  BY <1>14, <1>15

-----------------------------------------------------------------------------
(* The theorems.                                                           *)

(* Initially INIT is the queue.                                            *)
LEMMA SchedulerInit ==
  Init => TableTyped /\ QueueTyped /\ QueueKept
<1> SUFFICES ASSUME Init PROVE TableTyped /\ QueueTyped /\ QueueKept
  OBVIOUS
<1>1. INIT \in UserSlots /\ INIT # NIL
  BY SlotFacts
<1>2. TableTyped
  <2>1. PERCENT \div 2 \in 1 .. PERCENT - 1
    BY NumberAssumption
  <2>2. [p \in UserSlots |-> p = INIT] \in [UserSlots -> BOOLEAN]
    OBVIOUS
  <2>3. isuser \in [UserSlots -> BOOLEAN]
    BY <2>2, Zenon DEF Init
  <2>4. /\ p_pid \in [Slots -> Pids \cup {0, 1}] /\ pri_group \in [Slots -> Groups]
        /\ given \in [Groups -> 0 .. MaxPicks] /\ events \in 0 .. MaxEvents
    BY NumberAssumption DEF Init, Groups
  <2>5. blocked \in [UserSlots -> BOOLEAN] /\ switching \in BOOLEAN
    BY Zenon DEF Init
  <2>6. /\ scheduler_divider \in 1 .. PERCENT - 1 /\ sum \in -INT_MAX - 1 .. INT_MAX
        /\ a_history \in 0 .. PERCENT /\ b_history \in 0 .. PERCENT /\ reply \in -3 .. 1
    BY <2>1, NumberAssumption DEF Init
  <2> QED
    BY <2>3, <2>4, <2>5, <2>6 DEF TableTyped
<1>3. QueueTyped
  BY <1>1 DEF Init, QueueTyped
<1>4. Spells([k \in 1..1 |-> INIT], 1)
  <2> DEFINE q == [k \in 1..1 |-> INIT]
  <2>1. q \in [1..1 -> UserSlots] /\ q[1] = INIT /\ Distinct(q, 1)
    BY <1>1 DEF Distinct
  <2>2. Linked(q, 1, rdy_head, p_nextready, NIL)
    BY <1>1, <2>1 DEF Init, Linked
  <2>3. ASSUME NEW p \in UserSlots PROVE Ready(p) <=> p = INIT
    <3>1. isuser[p] <=> p = INIT
      BY Zenon DEF Init
    <3>2. ~blocked[p]
      BY Zenon DEF Init
    <3> QED
      BY <3>1, <3>2 DEF Ready
  <2>4. rdy_tail = q[1]
    BY <2>1 DEF Init
  <2> HIDE DEF q
  <2>5. \A k \in 1..1 : k = 1
    OBVIOUS
  <2> QED
    BY <2>1, <2>2, <2>3, <2>4, <2>5 DEF Spells
<1>5. QueueKept
  BY <1>4 DEF QueueKept, Spells, Init
<1> QED
  BY <1>2, <1>3, <1>5

(* In every reachable state all variables are typed and the pointers spell *)
(* the ready processes.                                                    *)
THEOREM SchedulerInvariant == Spec => [](TableTyped /\ QueueTyped /\ QueueKept)
<1>1. TableTyped /\ QueueTyped /\ QueueKept /\ [Next]_vars
        => (TableTyped /\ QueueTyped /\ QueueKept)'
  BY TableStep, QueueStep
<1> QED
  BY <1>1, SchedulerInit, PTL DEF Spec

(* TypeOK holds of every reachable state: whatever processes ask for, the  *)
(* divider of do_setscheduler leaves both groups a share, no history of    *)
(* sched passes 100, sum stays an int, and the head, the tail and the      *)
(* pointers of the queue are user processes.                               *)
THEOREM SchedulerTypeCorrect == Spec => []TypeOK
<1>1. TableTyped /\ QueueTyped => TypeOK
  BY DEF TableTyped, QueueTyped, TypeOK
<1> QED
  BY <1>1, SchedulerInvariant, PTL

(* QueueExact holds of every reachable state: however blocking, waking,    *)
(* fork, exit and the rotations of sched follow each other, the pointers   *)
(* from rdy_head visit every ready user process once and end, and rdy_tail *)
(* is the last: no ready process is lost from the queue and none that      *)
(* blocked or exited stays on it.                                          *)
THEOREM SchedulerQueueExact == Spec => []QueueExact
<1>1. QueueTyped /\ QueueKept => QueueExact
  <2> SUFFICES ASSUME QueueTyped, QueueKept PROVE QueueExact
    OBVIOUS
  <2>1. PICK n \in Nat : \E q \in [1..n -> UserSlots] : Spells(q, n)
    BY DEF QueueKept
  <2>2. PICK q \in [1..n -> UserSlots] : Spells(q, n)
    BY <2>1
  <2> DEFINE onQueue == {p \in UserSlots : Ready(p)}
  <2>3. /\ n <= NR_PROCS /\ NR_PROCS \in Nat
        /\ \A k \in 0..NR_PROCS : Nth[k] = IF k < n THEN q[k + 1] ELSE NIL
    BY <2>2, NthOfQueue, SlotFacts
  <2>4. \A p : p \in onQueue <=> \E k \in 1..n : q[k] = p
    BY <2>2 DEF Spells
  <2> HIDE DEF onQueue
  <2>5. Cardinality(onQueue) = n
    <3>1. q \in Bijection(1..n, onQueue)
      <4>1. q \in [1..n -> onQueue]
        BY <2>4
      <4>2. q \in Injection(1..n, onQueue)
        BY <2>2, <4>1 DEF Spells, Distinct, Injection, IsInjective
      <4>3. q \in Surjection(1..n, onQueue)
        BY <2>4, <4>1 DEF Surjection
      <4> QED
        BY <4>2, <4>3 DEF Bijection
    <3>2. ExistsBijection(1..n, onQueue)
      BY <3>1 DEF ExistsBijection
    <3> QED
      BY <3>2, FS_CountingElements
  <2>6. {Nth[k] : k \in 0 .. n - 1} = onQueue
    <3>1. ASSUME NEW k \in 0 .. n - 1 PROVE Nth[k] \in onQueue
      BY <2>3, <2>4
    <3>2. ASSUME NEW p \in onQueue PROVE \E k \in 0 .. n - 1 : Nth[k] = p
      <4>1. PICK k \in 1..n : q[k] = p
        BY <2>4
      <4>2. k - 1 \in 0 .. n - 1 /\ k - 1 \in 0..NR_PROCS /\ (k - 1) + 1 = k /\ k - 1 < n
        BY <2>3
      <4>3. Nth[k - 1] = p
        BY <2>3, <4>1, <4>2
      <4> QED
        BY <4>2, <4>3
    <3> QED
      BY <3>1, <3>2
  <2>7. Nth[n] = NIL
    BY <2>3
  <2>8. onQueue # {} => rdy_tail = Nth[n - 1]
    <3> SUFFICES ASSUME onQueue # {} PROVE rdy_tail = Nth[n - 1]
      OBVIOUS
    <3>1. n > 0
      BY <2>4
    <3>2. n - 1 \in 0..NR_PROCS /\ n - 1 < n /\ (n - 1) + 1 = n
      BY <2>3, <3>1
    <3>3. rdy_tail = q[n]
      BY <2>2, <3>1 DEF Spells
    <3> QED
      BY <2>3, <3>2, <3>3
  <2> QED
    BY <2>5, <2>6, <2>7, <2>8, Zenon DEF QueueExact, onQueue
<1> QED
  BY <1>1, SchedulerInvariant, PTL

=============================================================================
