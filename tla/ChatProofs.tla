----------------------------- MODULE ChatProofs -----------------------------
(* Proofs about Chat, for any set of senders and receivers, any assignment *)
(* of programs to the senders, rings of any size and any number of kills.  *)
EXTENDS Chat, FiniteSetTheorems, SequenceTheorems, TLAPS

(* The index that follows an index of a ring is an index of the ring.      *)
LEMMA NextIndex ==
  ASSUME NEW k \in 0..MAX-1
  PROVE  (k + 1) % MAX \in 0..MAX-1
BY BoundAssumption

(* A program waits on, and writes to, one of the two rings.                *)
LEMMA ProgramTyped ==
  ASSUME NEW s \in Senders
  PROVE  /\ Program[s].ring \in Rings
         /\ Program[s].segment \in Rings
<1>1. Program[s] \in Programs
  BY ProgramAssumption
<1> QED
  BY <1>1 DEF Programs, Tx, SpamTx, BurstTx, Px, SpamPx, BurstPx, Rings

(* Where p's loop begins is not inside the critical section.               *)
LEMMA EntryOutside ==
  ASSUME NEW p
  PROVE  Entry(p) \in {"enter", "reserve"}
BY DEF Entry

(* Every variable of the chat keeps its type; no semaphore goes negative,  *)
(* no index leaves its ring.                                               *)
THEOREM ChatTyped == Spec => []TypeOK
<1> USE DEF Rings, Locations, Procs
<1>1. Init => TypeOK
  <2> SUFFICES ASSUME Init PROVE TypeOK
    OBVIOUS
  <2>1. 0 \in 0..MAX-1
    BY BoundAssumption
  <2>2. console \in Seq(Messages \cup {Zero})
    BY DEF Init
  <2> QED
    BY <2>1, <2>2 DEF Init, TypeOK
<1>2. TypeOK /\ [Next]_vars => TypeOK'
  <2> SUFFICES ASSUME TypeOK, [Next]_vars
               PROVE  TypeOK'
    OBVIOUS
  <2> USE DEF TypeOK, Goto
  <2>1. ASSUME NEW p \in Procs, CreateSemaphores(p) PROVE TypeOK'
    BY <2>1 DEF CreateSemaphores, sems, rings
  <2>2. ASSUME NEW p \in Procs, AttachSemaphores(p) PROVE TypeOK'
    BY <2>2, EntryOutside DEF AttachSemaphores, sems, setup, rings
  <2>3. ASSUME NEW p \in Procs, ClearIndexes(p) PROVE TypeOK'
    <3>1. 0 \in 0..MAX-1
      BY BoundAssumption
    <3> QED
      BY <2>3, <3>1 DEF ClearIndexes, sems
  <2>4. ASSUME NEW p \in Procs, SetSemaphore(p) PROVE TypeOK'
    BY <2>4, BoundAssumption DEF SetSemaphore, rings
  <2>5. ASSUME NEW p \in Procs, SetMutex(p) PROVE TypeOK'
    BY <2>5, EntryOutside DEF SetMutex, rings
  <2>6. ASSUME NEW p \in Procs, Kill(p) PROVE TypeOK'
    BY <2>6 DEF Kill, sems, setup, rings
  <2>7. ASSUME NEW s \in Senders, Reserve(s) PROVE TypeOK'
    <3>1. PICK r \in Rings : r = Program[s].ring
      BY ProgramTyped
    <3>2. free' = [free EXCEPT ![r] = free[r] - 1] /\ free[r] > 0
      BY <2>7, <3>1 DEF Reserve
    <3>3. free[r] - 1 \in Nat
      BY <3>1, <3>2
    <3>4. free' \in [Rings -> Nat]
      BY <3>2, <3>3
    <3> QED
      BY <2>7, <3>4 DEF Reserve, setup, rings
  <2>8. ASSUME NEW s \in Senders, Lock(s) PROVE TypeOK'
    BY <2>8 DEF Lock, setup, rings
  <2>9. ASSUME NEW s \in Senders, WriteCell(s) PROVE TypeOK'
    <3>1. <<s, i[s]>> \in Messages \cup {Zero}
      BY DEF Messages
    <3>2. cell' \in [Rings -> [0..MAX-1 -> Messages \cup {Zero}]]
      BY <2>9, <3>1, ProgramTyped DEF WriteCell
    <3> QED
      BY <2>9, <3>2 DEF WriteCell, sems, setup
  <2>10. ASSUME NEW s \in Senders, AdvanceZ(s) PROVE TypeOK'
    <3>1. indexZ' \in [Rings -> 0..MAX-1]
      BY <2>10, NextIndex, ProgramTyped DEF AdvanceZ
    <3> QED
      BY <2>10, <3>1 DEF AdvanceZ, sems, setup
  <2>11. ASSUME NEW s \in Senders, Publish(s) PROVE TypeOK'
    BY <2>11, ProgramTyped DEF Publish, setup, rings
  <2>12. ASSUME NEW s \in Senders, Unlock(s) PROVE TypeOK'
    BY <2>12 DEF Unlock, setup, rings
  <2>13. ASSUME NEW s \in Senders, Exit(s) PROVE TypeOK'
    BY <2>13 DEF Exit, sems, setup, rings
  <2>14. ASSUME NEW q \in Receivers, Enter(q) PROVE TypeOK'
    BY <2>14 DEF Enter, setup, rings
  <2>15. ASSUME NEW q \in Receivers, PollPriority(q) PROVE TypeOK'
    BY <2>15 DEF PollPriority, sems, setup, rings
  <2>16. ASSUME NEW q \in Receivers, PollNormal(q) PROVE TypeOK'
    BY <2>16 DEF PollNormal, sems, setup, rings
  <2>17. ASSUME NEW q \in Receivers, Take(q) PROVE TypeOK'
    BY <2>17 DEF Take, setup, rings
  <2>18. ASSUME NEW q \in Receivers, Display(q) PROVE TypeOK'
    <3>1. cell[taking[q]][indexO[taking[q]]] \in Messages \cup {Zero}
      OBVIOUS
    <3>2. console' \in Seq(Messages \cup {Zero})
      BY <2>18, <3>1 DEF Display
    <3> QED
      BY <2>18, <3>2 DEF Display, sems, setup, rings
  <2>19. ASSUME NEW q \in Receivers, AdvanceO(q) PROVE TypeOK'
    <3>1. indexO' \in [Rings -> 0..MAX-1]
      BY <2>19, NextIndex DEF AdvanceO
    <3> QED
      BY <2>19, <3>1 DEF AdvanceO, sems, setup
  <2>20. ASSUME NEW q \in Receivers, Release(q) PROVE TypeOK'
    BY <2>20 DEF Release, setup, rings
  <2>21. ASSUME NEW q \in Receivers, Leave(q) PROVE TypeOK'
    BY <2>21 DEF Leave, setup, rings
  <2>22. CASE UNCHANGED vars
    BY <2>22 DEF vars, sems, setup, rings
  <2> QED
    BY <2>1, <2>2, <2>3, <2>4, <2>5, <2>6, <2>7, <2>8, <2>9, <2>10, <2>11,
       <2>12, <2>13, <2>14, <2>15, <2>16, <2>17, <2>18, <2>19, <2>20, <2>21,
       <2>22 DEF Next, Startup, Send, Receive
<1> QED
  BY <1>1, <1>2, PTL DEF Spec

(* The critical section belongs to one process at a time, and a free       *)
(* semaphore 4 means that nobody, alive or dead, is inside.                *)
THEOREM ChatMutex == Spec => []MutexAccounting
<1> USE DEF MutexAccounting, InCritical, Procs
<1>1. Init => MutexAccounting
  BY DEF Init
<1>2. TypeOK /\ MutexAccounting /\ [Next]_vars => MutexAccounting'
  <2> SUFFICES ASSUME TypeOK, MutexAccounting, [Next]_vars
               PROVE  MutexAccounting'
    OBVIOUS
  <2> USE DEF TypeOK, Goto
  <2>1. ASSUME NEW p \in Procs, CreateSemaphores(p) PROVE MutexAccounting'
    BY <2>1 DEF CreateSemaphores, sems
  <2>2. ASSUME NEW p \in Procs, AttachSemaphores(p) PROVE MutexAccounting'
    <3>1. mutex' = mutex /\ stage' = stage
      BY <2>2 DEF AttachSemaphores, sems, setup
    <3>2. \A q \in Procs : InCritical(q)' <=> InCritical(q)
      BY <2>2, EntryOutside DEF AttachSemaphores
    <3> QED
      BY <3>1, <3>2
  <2>3. ASSUME NEW p \in Procs, ClearIndexes(p) PROVE MutexAccounting'
    BY <2>3 DEF ClearIndexes, sems
  <2>4. ASSUME NEW p \in Procs, SetSemaphore(p) PROVE MutexAccounting'
    <3>1. stage < 6 /\ stage' < 6 /\ mutex' = mutex
      BY <2>4 DEF SetSemaphore
    <3>2. \A q \in Procs : pc'[q] = pc[q]
      BY <2>4 DEF SetSemaphore
    <3>3. \A q \in Procs : ~InCritical(q)
      BY <3>1
    <3>4. \A q \in Procs : ~InCritical(q)'
      BY <3>2, <3>3
    <3>5. mutex' = 0
      BY <3>1
    <3>6. stage' # 6
      BY <3>1
    <3> QED
      BY <3>4, <3>5, <3>6
  <2>5. ASSUME NEW p \in Procs, SetMutex(p) PROVE MutexAccounting'
    <3>1. stage = 5 /\ stage' = 6 /\ mutex' = 1
      BY <2>5 DEF SetMutex
    <3>2. \A q \in Procs : ~InCritical(q)
      BY <3>1
    <3>3. \A q \in Procs : pc'[q] = pc[q] \/ pc'[q] \in {"enter", "reserve"}
      BY <2>5, EntryOutside DEF SetMutex
    <3>4. \A q \in Procs : ~InCritical(q)'
      BY <3>2, <3>3
    <3> QED
      BY <3>1, <3>4
  <2>6. ASSUME NEW p \in Procs, Kill(p) PROVE MutexAccounting'
    BY <2>6 DEF Kill, sems, setup
  <2>7. ASSUME NEW s \in Senders, Reserve(s) PROVE MutexAccounting'
    BY <2>7 DEF Reserve, setup
  <2>8. ASSUME NEW s \in Senders, Lock(s) PROVE MutexAccounting'
    BY <2>8 DEF Lock, setup
  <2>9. ASSUME NEW s \in Senders, WriteCell(s) PROVE MutexAccounting'
    BY <2>9 DEF WriteCell, setup, sems
  <2>10. ASSUME NEW s \in Senders, AdvanceZ(s) PROVE MutexAccounting'
    BY <2>10 DEF AdvanceZ, setup, sems
  <2>11. ASSUME NEW s \in Senders, Publish(s) PROVE MutexAccounting'
    BY <2>11 DEF Publish, setup
  <2>12. ASSUME NEW s \in Senders, Unlock(s) PROVE MutexAccounting'
    BY <2>12 DEF Unlock, setup
  <2>13. ASSUME NEW s \in Senders, Exit(s) PROVE MutexAccounting'
    BY <2>13 DEF Exit, setup, sems
  <2>14. ASSUME NEW q \in Receivers, Enter(q) PROVE MutexAccounting'
    BY <2>14 DEF Enter, setup
  <2>15. ASSUME NEW q \in Receivers, PollPriority(q) PROVE MutexAccounting'
    BY <2>15 DEF PollPriority, setup, sems
  <2>16. ASSUME NEW q \in Receivers, PollNormal(q) PROVE MutexAccounting'
    BY <2>16 DEF PollNormal, setup, sems
  <2>17. ASSUME NEW q \in Receivers, Take(q) PROVE MutexAccounting'
    BY <2>17 DEF Take, setup
  <2>18. ASSUME NEW q \in Receivers, Display(q) PROVE MutexAccounting'
    BY <2>18 DEF Display, setup, sems
  <2>19. ASSUME NEW q \in Receivers, AdvanceO(q) PROVE MutexAccounting'
    BY <2>19 DEF AdvanceO, setup, sems
  <2>20. ASSUME NEW q \in Receivers, Release(q) PROVE MutexAccounting'
    BY <2>20 DEF Release, setup
  <2>21. ASSUME NEW q \in Receivers, Leave(q) PROVE MutexAccounting'
    BY <2>21 DEF Leave, setup
  <2>22. CASE UNCHANGED vars
    BY <2>22 DEF vars, sems, setup
  <2> QED
    BY <2>1, <2>2, <2>3, <2>4, <2>5, <2>6, <2>7, <2>8, <2>9, <2>10, <2>11,
       <2>12, <2>13, <2>14, <2>15, <2>16, <2>17, <2>18, <2>19, <2>20, <2>21,
       <2>22
       DEF Next, Startup, Send, Receive
<1> QED
  BY <1>1, <1>2, ChatTyped, PTL DEF Spec

(* A receiver never sleeps on a full-cell semaphore while it holds         *)
(* semaphore 4: the value GETVAL gave it cannot drop before it is used.    *)
THEOREM ChatTakeNeverBlocks == Spec => []TakeNeverBlocks
<1>1. Init => TakeNeverBlocks
  BY DEF Init, TakeNeverBlocks, Procs
<1>2. TypeOK /\ MutexAccounting /\ TakeNeverBlocks /\ [Next]_vars => TakeNeverBlocks'
  <2> SUFFICES ASSUME TypeOK, MutexAccounting, TakeNeverBlocks, [Next]_vars,
                      NEW r \in Receivers, pc'[r] = "take"
               PROVE  full'[taking'[r]] > 0
    BY DEF TakeNeverBlocks
  <2> USE DEF TypeOK, Goto, Procs, Rings
  <2>0. pc[r] = "take" => /\ full[taking[r]] > 0
                          /\ stage = 6
                          /\ \A p \in Procs : InCritical(p) => p = r
    BY DEF TakeNeverBlocks, MutexAccounting, InCritical
  <2>1. ASSUME NEW p \in Procs, Startup(p) PROVE full'[taking'[r]] > 0
    <3>1. pc[r] = "take" /\ taking' = taking
      BY <2>1, EntryOutside DEF Startup, CreateSemaphores, AttachSemaphores,
         ClearIndexes, SetSemaphore, SetMutex
    <3>2. ~SetSemaphore(p)
      BY <2>0, <3>1 DEF SetSemaphore
    <3>3. full' = full
      BY <2>1, <3>2 DEF Startup, CreateSemaphores, AttachSemaphores, ClearIndexes,
         SetMutex, sems
    <3> QED
      BY <2>0, <3>1, <3>3
  <2>2. ASSUME NEW p \in Procs, Kill(p) PROVE full'[taking'[r]] > 0
    BY <2>0, <2>2 DEF Kill, sems
  <2>3. ASSUME NEW s \in Senders, Send(s) PROVE full'[taking'[r]] > 0
    <3>1. s # r
      BY ProgramAssumption
    <3>2. pc[r] = "take" /\ taking' = taking
      BY <2>3, <3>1 DEF Send, Reserve, Lock, WriteCell, AdvanceZ, Publish, Unlock, Exit
    <3>3. full' = full
      BY <2>0, <2>3, <3>1, <3>2 DEF InCritical, Send, Reserve, Lock, WriteCell, AdvanceZ,
         Publish, Unlock, Exit, sems
    <3> QED
      BY <2>0, <3>2, <3>3
  <2>4. ASSUME NEW q \in Receivers, Receive(q) PROVE full'[taking'[r]] > 0
    <3>1. CASE pc[r] = "take"
      <4>1. q # r
        BY <2>4, <3>1 DEF Receive, Enter, PollPriority, PollNormal, Take, Display,
           AdvanceO, Release, Leave
      <4>2. ~InCritical(q)
        BY <2>0, <3>1, <4>1
      <4> QED
        BY <2>0, <2>4, <3>1, <4>2 DEF InCritical, Receive, Enter, PollPriority,
           PollNormal, Take, Display, AdvanceO, Release, Leave
    <3>2. CASE pc[r] # "take"
      BY <2>4, <3>2 DEF Receive, Enter, PollPriority, PollNormal, Take, Display,
         AdvanceO, Release, Leave, sems
    <3> QED
      BY <3>1, <3>2
  <2>5. CASE UNCHANGED vars
    BY <2>0, <2>5 DEF vars, sems
  <2> QED
    BY <2>1, <2>2, <2>3, <2>4, <2>5 DEF Next
<1> QED
  BY <1>1, <1>2, ChatTyped, ChatMutex, PTL DEF Spec

(* The holders of cells are finite sets.                                   *)
LEMMA HoldersFinite ==
  ASSUME NEW r
  PROVE  /\ IsFiniteSet(Reserving(r)) /\ Cardinality(Reserving(r)) \in Nat
         /\ IsFiniteSet(Freeing(r)) /\ Cardinality(Freeing(r)) \in Nat
<1>1. Reserving(r) \in SUBSET Procs /\ Freeing(r) \in SUBSET Procs
  BY DEF Reserving, Freeing, Procs
<1> QED
  BY <1>1, ProgramAssumption, FS_Subset, FS_CardinalityType

(* Nothing is readable before semaphore 4 is set.                          *)
NothingReady == stage < 6 => \A r \in Rings : full[r] = 0

(* Nothing is readable before the creator has set semaphore 4.             *)
LEMMA ChatNothingReady == Spec => []NothingReady
<1>1. Init => NothingReady
  BY DEF Init, NothingReady
<1>2. TypeOK /\ MutexAccounting /\ NothingReady /\ [Next]_vars => NothingReady'
  <2> SUFFICES ASSUME TypeOK, MutexAccounting, NothingReady, [Next]_vars,
                      stage' < 6, NEW r \in Rings
               PROVE  full'[r] = 0
    BY DEF NothingReady
  <2> USE DEF TypeOK, Goto, Procs
  <2>0. stage < 6 => full[r] = 0 /\ \A p \in Procs : ~InCritical(p)
    BY DEF NothingReady, MutexAccounting
  <2>1. ASSUME NEW p \in Procs, Startup(p) PROVE full'[r] = 0
    BY <2>0, <2>1 DEF Startup, CreateSemaphores, AttachSemaphores, ClearIndexes,
       SetSemaphore, SetMutex, sems, setup, Rings
  <2>2. ASSUME NEW p \in Procs, Kill(p) PROVE full'[r] = 0
    BY <2>0, <2>2 DEF Kill, sems, setup
  <2>3. ASSUME NEW s \in Senders, Send(s) PROVE full'[r] = 0
    <3>1. stage' = stage
      BY <2>3 DEF Send, Reserve, Lock, WriteCell, AdvanceZ, Publish, Unlock, Exit, setup
    <3> QED
      BY <2>0, <2>3, <3>1 DEF InCritical, Send, Reserve, Lock, WriteCell, AdvanceZ,
         Publish, Unlock, Exit, sems
  <2>4. ASSUME NEW q \in Receivers, Receive(q) PROVE full'[r] = 0
    <3>1. stage' = stage
      BY <2>4 DEF Receive, Enter, PollPriority, PollNormal, Take, Display,
         AdvanceO, Release, Leave, setup
    <3> QED
      BY <2>0, <2>4, <3>1 DEF InCritical, Receive, Enter, PollPriority, PollNormal,
         Take, Display, AdvanceO, Release, Leave, sems
  <2>5. CASE UNCHANGED vars
    BY <2>0, <2>5 DEF vars, sems, setup
  <2> QED
    BY <2>1, <2>2, <2>3, <2>4, <2>5 DEF Next
<1> QED
  BY <1>1, <1>2, ChatTyped, ChatMutex, PTL DEF Spec

(* The count of one ring.                                                  *)
Cells(r) ==
  free[r] + full[r] + Cardinality(Reserving(r)) + Cardinality(Freeing(r))

(* A step that leaves the semaphores of ring r, its holders and its being  *)
(* set alone leaves its count alone.                                       *)
LEMMA CountKept ==
  ASSUME NEW r, Cells(r) = IF IsSet(r) THEN MAX ELSE 0,
         free'[r] = free[r], full'[r] = full[r],
         Reserving(r)' = Reserving(r), Freeing(r)' = Freeing(r),
         IsSet(r)' = IsSet(r)
  PROVE  (Cells(r) = IF IsSet(r) THEN MAX ELSE 0)'
BY DEF Cells

(* Each cell of each ring is free, full, reserved or being freed, whatever *)
(* the interleaving of senders, receivers, creator and kills.              *)
THEOREM ChatSlots == Spec => []SlotAccounting
<1>1. Init => SlotAccounting
  <2> SUFFICES ASSUME Init PROVE SlotAccounting
    OBVIOUS
  <2>1. \A r \in Rings : Reserving(r) = {} /\ Freeing(r) = {}
    BY DEF Init, Reserving, Freeing, Procs
  <2>2. Cardinality({}) = 0
    BY FS_EmptySet
  <2>3. stage = 0 /\ \A r \in Rings : free[r] = 0 /\ full[r] = 0
    BY DEF Init
  <2>4. \A r \in Rings : ~IsSet(r)
    BY <2>3 DEF IsSet
  <2> SUFFICES ASSUME NEW r \in Rings
               PROVE  Cells(r) = IF IsSet(r) THEN MAX ELSE 0
    BY DEF SlotAccounting, Cells
  <2> QED
    BY <2>1, <2>2, <2>3, <2>4 DEF Cells
<1>2. TypeOK /\ MutexAccounting /\ NothingReady /\ SlotAccounting /\ [Next]_vars => SlotAccounting'
  <2> SUFFICES ASSUME TypeOK, MutexAccounting, NothingReady, SlotAccounting,
                      [Next]_vars, NEW r \in Rings
               PROVE  (Cells(r) = IF IsSet(r) THEN MAX ELSE 0)'
    BY DEF SlotAccounting, Cells
  <2> DEFINE Goal == (Cells(r) = IF IsSet(r) THEN MAX ELSE 0)'
  <2>0. Cells(r) = IF IsSet(r) THEN MAX ELSE 0
    BY DEF SlotAccounting, Cells
  <2>n. /\ Cardinality(Reserving(r)) \in Nat /\ Cardinality(Freeing(r)) \in Nat
        /\ free[r] \in Nat /\ full[r] \in Nat
    BY HoldersFinite DEF TypeOK
  <2> USE DEF Goto, Procs
  <2>1. ASSUME NEW p \in Procs, CreateSemaphores(p) \/ AttachSemaphores(p) \/ Kill(p)
        PROVE  Goal
    <3>1. Reserving(r)' = Reserving(r) /\ Freeing(r)' = Freeing(r)
      BY <2>1, EntryOutside DEF CreateSemaphores, AttachSemaphores, Kill, Reserving,
         Freeing, TypeOK
    <3> QED
      BY <2>0, <2>1, <3>1, CountKept DEF CreateSemaphores, AttachSemaphores, Kill, sems,
         setup, IsSet
  <2>2. ASSUME NEW p \in Procs, ClearIndexes(p) \/ SetMutex(p)
        PROVE  Goal
    <3>1. Reserving(r)' = Reserving(r) /\ Freeing(r)' = Freeing(r)
      BY <2>2, EntryOutside DEF ClearIndexes, SetMutex, Reserving, Freeing, TypeOK
    <3>2. free' = free /\ full' = full
      BY <2>2 DEF ClearIndexes, SetMutex, sems
    <3>3. IsSet(r)' = IsSet(r)
      BY <2>2 DEF ClearIndexes, SetMutex, IsSet
    <3> QED
      BY <2>0, <3>1, <3>2, <3>3, CountKept
  <2>3. ASSUME NEW p \in Procs, SetSemaphore(p) PROVE Goal
    <3>1. Reserving(r)' = Reserving(r) /\ Freeing(r)' = Freeing(r)
      BY <2>3 DEF SetSemaphore, Reserving, Freeing, TypeOK
    <3>2. stage \in 1..4 /\ stage' = stage + 1 /\ full[r] = 0
      BY <2>3 DEF SetSemaphore, NothingReady
    <3>3. full'[r] = full[r]
      BY <2>3, <3>2 DEF SetSemaphore, TypeOK, Rings
    <3>4. CASE IsSet(r)' = IsSet(r)
      <4>1. free'[r] = free[r]
        BY <2>3, <3>2, <3>4 DEF SetSemaphore, TypeOK, Rings, IsSet
      <4> QED
        BY <2>0, <3>1, <3>3, <3>4, <4>1, CountKept
    <3>5. CASE IsSet(r)' # IsSet(r)
      <4>1. ~IsSet(r) /\ IsSet(r)' /\ free'[r] = MAX
        BY <2>3, <3>2, <3>5 DEF SetSemaphore, TypeOK, Rings, IsSet
      <4>2. Cardinality(Reserving(r)) = 0 /\ Cardinality(Freeing(r)) = 0
        BY <2>0, <2>n, <4>1 DEF Cells
      <4> QED
        BY <3>1, <3>2, <3>3, <4>1, <4>2, BoundAssumption DEF Cells
    <3> QED
      BY <3>4, <3>5
  <2>4. ASSUME NEW s \in Senders, Reserve(s) PROVE Goal
    <3>1. Freeing(r)' = Freeing(r)
      BY <2>4, ProgramAssumption DEF Reserve, Freeing, TypeOK
    <3>2. IsSet(r)' = IsSet(r) /\ full' = full
      BY <2>4 DEF Reserve, IsSet, setup
    <3>3. CASE Program[s].ring = r
      <4>1. s \notin Reserving(r) /\ Reserving(r)' = Reserving(r) \cup {s}
        BY <2>4, <3>3 DEF Reserve, Reserving, TypeOK
      <4>2. Cardinality(Reserving(r)') = Cardinality(Reserving(r)) + 1
        BY <4>1, HoldersFinite, FS_AddElement
      <4>3. free'[r] = free[r] - 1
        BY <2>4, <3>3 DEF Reserve, TypeOK
      <4> QED
        BY <2>0, <2>n, <3>1, <3>2, <4>2, <4>3 DEF Cells
    <3>4. CASE Program[s].ring # r
      <4>1. Reserving(r)' = Reserving(r) /\ free'[r] = free[r]
        BY <2>4, <3>4 DEF Reserve, Reserving, TypeOK
      <4> QED
        BY <2>0, <3>1, <3>2, <4>1, CountKept
    <3> QED
      BY <3>3, <3>4
  <2>5. ASSUME NEW s \in Senders, Publish(s) PROVE Goal
    <3>1. Freeing(r)' = Freeing(r)
      BY <2>5, ProgramAssumption DEF Publish, Freeing, TypeOK
    <3>2. IsSet(r)' = IsSet(r) /\ free' = free
      BY <2>5 DEF Publish, IsSet, setup
    <3>3. CASE Program[s].ring = r
      <4>1. s \in Reserving(r) /\ Reserving(r)' = Reserving(r) \ {s}
        BY <2>5, <3>3 DEF Publish, Reserving, TypeOK
      <4>2. Cardinality(Reserving(r)') = Cardinality(Reserving(r)) - 1
        BY <4>1, HoldersFinite, FS_RemoveElement
      <4>3. full'[r] = full[r] + 1
        BY <2>5, <3>3 DEF Publish, TypeOK
      <4> QED
        BY <2>0, <2>n, <3>1, <3>2, <4>2, <4>3 DEF Cells
    <3>4. CASE Program[s].ring # r
      <4>1. Reserving(r)' = Reserving(r) /\ full'[r] = full[r]
        BY <2>5, <3>4 DEF Publish, Reserving, TypeOK
      <4> QED
        BY <2>0, <3>1, <3>2, <4>1, CountKept
    <3> QED
      BY <3>3, <3>4
  <2>6. ASSUME NEW s \in Senders,
               Lock(s) \/ WriteCell(s) \/ AdvanceZ(s) \/ Unlock(s) \/ Exit(s)
        PROVE  Goal
    <3>1. Reserving(r)' = Reserving(r)
      BY <2>6 DEF Lock, WriteCell, AdvanceZ, Unlock, Exit, Reserving, TypeOK
    <3>2. Freeing(r)' = Freeing(r)
      BY <2>6, ProgramAssumption DEF Lock, WriteCell, AdvanceZ, Unlock, Exit, Freeing, TypeOK
    <3>3. free' = free /\ full' = full /\ stage' = stage
      BY <2>6 DEF Lock, WriteCell, AdvanceZ, Unlock, Exit, sems, setup
    <3> QED
      BY <2>0, <3>1, <3>2, <3>3, CountKept DEF IsSet
  <2>7. ASSUME NEW q \in Receivers, Take(q) PROVE Goal
    <3>1. Reserving(r)' = Reserving(r)
      BY <2>7, ProgramAssumption DEF Take, Reserving, TypeOK
    <3>2. IsSet(r)' = IsSet(r) /\ free' = free
      BY <2>7 DEF Take, IsSet, setup
    <3>3. CASE taking[q] = r
      <4>1. q \notin Freeing(r) /\ Freeing(r)' = Freeing(r) \cup {q}
        BY <2>7, <3>3 DEF Take, Freeing, TypeOK
      <4>2. Cardinality(Freeing(r)') = Cardinality(Freeing(r)) + 1
        BY <4>1, HoldersFinite, FS_AddElement
      <4>3. full'[r] = full[r] - 1
        BY <2>7, <3>3 DEF Take, TypeOK
      <4> QED
        BY <2>0, <2>n, <3>1, <3>2, <4>2, <4>3 DEF Cells
    <3>4. CASE taking[q] # r
      <4>1. Freeing(r)' = Freeing(r) /\ full'[r] = full[r]
        BY <2>7, <3>4 DEF Take, Freeing, TypeOK
      <4> QED
        BY <2>0, <3>1, <3>2, <4>1, CountKept
    <3> QED
      BY <3>3, <3>4
  <2>8. ASSUME NEW q \in Receivers, Release(q) PROVE Goal
    <3>1. Reserving(r)' = Reserving(r)
      BY <2>8, ProgramAssumption DEF Release, Reserving, TypeOK
    <3>2. IsSet(r)' = IsSet(r) /\ full' = full
      BY <2>8 DEF Release, IsSet, setup
    <3>3. CASE taking[q] = r
      <4>1. q \in Freeing(r) /\ Freeing(r)' = Freeing(r) \ {q}
        BY <2>8, <3>3 DEF Release, Freeing, TypeOK
      <4>2. Cardinality(Freeing(r)') = Cardinality(Freeing(r)) - 1
        BY <4>1, HoldersFinite, FS_RemoveElement
      <4>3. free'[r] = free[r] + 1
        BY <2>8, <3>3 DEF Release, TypeOK
      <4> QED
        BY <2>0, <2>n, <3>1, <3>2, <4>2, <4>3 DEF Cells
    <3>4. CASE taking[q] # r
      <4>1. Freeing(r)' = Freeing(r) /\ free'[r] = free[r]
        BY <2>8, <3>4 DEF Release, Freeing, TypeOK
      <4> QED
        BY <2>0, <3>1, <3>2, <4>1, CountKept
    <3> QED
      BY <3>3, <3>4
  <2>9. ASSUME NEW q \in Receivers,
               \/ Enter(q) \/ PollPriority(q) \/ PollNormal(q)
               \/ Display(q) \/ AdvanceO(q) \/ Leave(q)
        PROVE  Goal
    <3>1. Reserving(r)' = Reserving(r)
      BY <2>9, ProgramAssumption DEF Enter, PollPriority, PollNormal, Display, AdvanceO,
         Leave, Reserving, TypeOK
    <3>2. Freeing(r)' = Freeing(r)
      BY <2>9 DEF Enter, PollPriority, PollNormal, Display, AdvanceO, Leave, Freeing, TypeOK
    <3>3. free' = free /\ full' = full /\ stage' = stage
      BY <2>9 DEF Enter, PollPriority, PollNormal, Display, AdvanceO, Leave, sems, setup
    <3> QED
      BY <2>0, <3>1, <3>2, <3>3, CountKept DEF IsSet
  <2>10. CASE UNCHANGED vars
    <3>1. Reserving(r)' = Reserving(r) /\ Freeing(r)' = Freeing(r) /\ IsSet(r)' = IsSet(r)
      BY <2>10 DEF vars, setup, Reserving, Freeing, IsSet
    <3> QED
      BY <2>0, <2>10, <3>1, CountKept DEF vars, sems
  <2> QED
    BY <2>1, <2>2, <2>3, <2>4, <2>5, <2>6, <2>7, <2>8, <2>9, <2>10
       DEF Next, Startup, Send, Receive
<1> QED
  BY <1>1, <1>2, ChatTyped, ChatMutex, ChatNothingReady, PTL DEF Spec

(* A death inside the critical section freezes the service: the dead one   *)
(* is the only one inside and semaphore 4 stays 0 (no SEM_UNDO), so that   *)
(* nobody writes a ring, counts a cell as full or prints any more.         *)
THEOREM ChatDeathFreezes == Spec => DeathInsideFreezes
<1> DEFINE Frozen == (\E p \in Procs \ alive : InCritical(p))
                       => UNCHANGED <<rings, full, mutex, console>>
<1>1. TypeOK /\ MutexAccounting /\ [Next]_vars => [Frozen]_vars
  <2> SUFFICES ASSUME TypeOK, MutexAccounting, Next,
                      NEW d \in Procs \ alive, InCritical(d)
               PROVE  UNCHANGED <<rings, full, mutex, console>>
    OBVIOUS
  <2>1. stage = 6 /\ mutex = 0
    BY DEF MutexAccounting, TypeOK
  <2>2. \A p \in alive : ~InCritical(p)
    BY DEF MutexAccounting, TypeOK
  <2>3. ASSUME NEW p \in Procs, Startup(p) PROVE UNCHANGED <<rings, full, mutex, console>>
    BY <2>1, <2>3 DEF Startup, CreateSemaphores, AttachSemaphores, ClearIndexes, SetSemaphore,
       SetMutex, sems, rings
  <2>4. ASSUME NEW p \in Procs, Kill(p) PROVE UNCHANGED <<rings, full, mutex, console>>
    BY <2>4 DEF Kill, sems
  <2>5. ASSUME NEW s \in Senders, Send(s) PROVE UNCHANGED <<rings, full, mutex, console>>
    BY <2>1, <2>2, <2>5 DEF InCritical, Goto, Send, Reserve, Lock, WriteCell, AdvanceZ, Publish,
       Unlock, Exit, sems
  <2>6. ASSUME NEW q \in Receivers, Receive(q) PROVE UNCHANGED <<rings, full, mutex, console>>
    BY <2>1, <2>2, <2>6 DEF InCritical, Goto, Receive, Enter, PollPriority, PollNormal, Take,
       Display, AdvanceO, Release, Leave, sems
  <2> QED
    BY <2>3, <2>4, <2>5, <2>6 DEF Next
<1> QED
  BY <1>1, ChatTyped, ChatMutex, PTL DEF Spec, DeathInsideFreezes

-----------------------------------------------------------------------------
(* The refinement of PriorityChat.                                         *)

(* No sender attaches another segment than that of its semaphores.         *)
NoBurstPx == \A s \in Senders : Program[s] # BurstPx

(* Any other program writes to the segment of its semaphores.              *)
LEMMA OwnSegment ==
  ASSUME NoBurstPx, NEW s \in Senders
  PROVE  Program[s].segment = Program[s].ring
<1>1. Program[s] \in Programs \ {BurstPx}
  BY ProgramAssumption DEF NoBurstPx
<1> QED
  BY <1>1 DEF Programs, Tx, SpamTx, BurstTx, Px, SpamPx, BurstPx

(* A set of processes of which any two are one, as those that hold         *)
(* semaphore 4 are, has one member or none.                                *)
LEMMA AtMostOne ==
  ASSUME NEW S, \A p, q \in S : p = q
  PROVE  Cardinality(S) = IF S = {} THEN 0 ELSE 1
<1>1. CASE S = {}
  BY <1>1, FS_EmptySet
<1>2. CASE S # {}
  <2>1. PICK p \in S : S = {p}
    BY <1>2
  <2> QED
    BY <1>2, <2>1, FS_Singleton
<1> QED
  BY <1>1, <1>2

(* The receiver of ring r that is about to print, or to advance the read   *)
(* index, and the sender that is about to count its cell as full.          *)
Showing(r) == {q \in Freeing(r) : pc[q] = "show"}
Passing(r) == {q \in Freeing(r) : pc[q] = "pass"}
Stored(r) == {s \in Senders : Program[s].ring = r /\ pc[s] = "publish"}

(* These are such sets: what the count of waiting cells is, before ...     *)
LEMMA WaitingIs ==
  ASSUME TypeOK, MutexAccounting, NEW r \in Rings
  PROVE  /\ Showing(r) = {} => Waiting(r) = full[r]
         /\ Showing(r) # {} => Waiting(r) = full[r] + 1
<1>1. \A p, q \in Showing(r) : p = q
  BY DEF Showing, Freeing, MutexAccounting, InCritical, Procs
<1>2. Waiting(r) = full[r] + Cardinality(Showing(r))
  BY DEF Waiting, Showing
<1>3. full[r] \in Nat
  BY DEF TypeOK
<1>4. Cardinality(Showing(r)) = IF Showing(r) = {} THEN 0 ELSE 1
  BY <1>1, AtMostOne
<1> QED
  BY <1>2, <1>3, <1>4

(* ... after the step too.                                                 *)
LEMMA WaitingIsPrimed ==
  ASSUME TypeOK', MutexAccounting', NEW r \in Rings
  PROVE  /\ Showing(r)' = {} => Waiting(r)' = full'[r]
         /\ Showing(r)' # {} => Waiting(r)' = full'[r] + 1
<1>1. \A p, q \in Showing(r)' : p = q
  BY DEF Showing, Freeing, MutexAccounting, InCritical, Procs
<1>2. Waiting(r)' = full'[r] + Cardinality(Showing(r)')
  BY DEF Waiting, Showing
<1>3. full'[r] \in Nat
  BY DEF TypeOK
<1>4. Cardinality(Showing(r)') = IF Showing(r)' = {} THEN 0 ELSE 1
  BY <1>1, AtMostOne
<1> QED
  BY <1>2, <1>3, <1>4

(* Oldest in terms of Passing, before and after a step.                    *)
LEMMA OldestIs ==
  ASSUME NEW r
  PROVE  /\ Oldest(r) = IF Passing(r) = {} THEN indexO[r] ELSE indexO[r] + 1
         /\ Oldest(r)' = IF Passing(r)' = {} THEN indexO'[r] ELSE indexO'[r] + 1
BY DEF Oldest, Passing

(* Where the next cell is written: behind those that wait.                 *)
Aligned ==
  \A r \in Rings :
    indexZ[r] = (Oldest(r) + Waiting(r) + (IF Stored(r) = {} THEN 0 ELSE 1)) % MAX

(* What has been written and is not yet counted.                           *)
Written ==
  \A s \in Senders : pc[s] \in {"advance", "publish"} =>
    cell[Program[s].ring][(Oldest(Program[s].ring) + Waiting(Program[s].ring)) % MAX]
      = <<s, i[s]>>

(* A receiver that has turned to the normal ring saw the other one empty,  *)
(* and it still is.                                                        *)
PriorityFirst ==
  \A q \in Receivers :
    pc[q] = "poll_normal" \/ (pc[q] \in {"take", "show"} /\ taking[q] = "normal")
      => full["priority"] = 0

(* Ring r looks the same after the step.                                   *)
Still(r) ==
  /\ Waiting(r)' = Waiting(r) /\ Oldest(r)' = Oldest(r) /\ Stored(r)' = Stored(r)
  /\ cell'[r] = cell[r] /\ indexZ'[r] = indexZ[r]

(* The steps that change nothing a ring is made of.                        *)
LEMMA StillRing ==
  ASSUME NEW r, full'[r] = full[r], Showing(r)' = Showing(r), Passing(r)' = Passing(r),
         Stored(r)' = Stored(r), cell'[r] = cell[r], indexZ'[r] = indexZ[r],
         indexO'[r] = indexO[r]
  PROVE  Still(r)
<1>1. Waiting(r)' = Waiting(r)
  BY DEF Waiting, Showing
<1>2. Oldest(r)' = Oldest(r)
  BY OldestIs
<1> QED
  BY <1>1, <1>2 DEF Still

(* A start, a kill and the steps outside the rings.                        *)
LEMMA StillStartup ==
  ASSUME TypeOK, NothingReady, NEW r \in Rings, NEW p \in Procs,
         Startup(p) \/ Kill(p), ~ClearIndexes(p)
  PROVE  Still(r)
<1> USE DEF Goto, Procs, TypeOK
<1>1. Showing(r)' = Showing(r) /\ Passing(r)' = Passing(r) /\ Stored(r)' = Stored(r)
  BY EntryOutside DEF Startup, Kill, CreateSemaphores, AttachSemaphores, SetSemaphore, SetMutex,
     Showing, Passing, Stored, Freeing
<1>2. cell' = cell /\ indexZ' = indexZ /\ indexO' = indexO
  BY DEF Startup, Kill, CreateSemaphores, AttachSemaphores, SetSemaphore, SetMutex, rings
<1>3. full'[r] = full[r]
  BY DEF Startup, Kill, CreateSemaphores, AttachSemaphores, SetSemaphore, SetMutex, sems,
     NothingReady, Rings
<1> QED
  BY <1>1, <1>2, <1>3, StillRing

(* The steps of a sender outside the ring, ...                             *)
LEMMA StillSend ==
  ASSUME TypeOK, NEW r \in Rings, NEW s \in Senders, NoBurstPx,
         \/ Reserve(s) \/ Lock(s) \/ Unlock(s) \/ Exit(s)
         \/ (Program[s].ring # r /\ (WriteCell(s) \/ AdvanceZ(s) \/ Publish(s)))
  PROVE  Still(r)
<1> USE DEF Goto, Procs, TypeOK
<1>1. Showing(r)' = Showing(r) /\ Passing(r)' = Passing(r)
  <2>1. taking' = taking /\ \A q \in Receivers : pc'[q] = pc[q]
    BY ProgramAssumption DEF Reserve, Lock, Unlock, Exit, WriteCell, AdvanceZ, Publish
  <2> HIDE DEF Goto, Procs, TypeOK
  <2> QED
    BY <2>1 DEF Showing, Passing, Freeing
<1>2. Stored(r)' = Stored(r)
  BY DEF Reserve, Lock, Unlock, Exit, WriteCell, AdvanceZ, Publish, Stored
<1>3. cell'[r] = cell[r] /\ indexZ'[r] = indexZ[r] /\ indexO'[r] = indexO[r]
  BY OwnSegment DEF Reserve, Lock, Unlock, Exit, WriteCell, AdvanceZ, Publish, rings
<1>4. full'[r] = full[r]
  BY DEF Reserve, Lock, Unlock, Exit, WriteCell, AdvanceZ, Publish, sems
<1> QED
  BY <1>1, <1>2, <1>3, <1>4, StillRing

(* ... and those of a receiver.                                            *)
LEMMA StillReceive ==
  ASSUME TypeOK, NEW r \in Rings, NEW q \in Receivers,
         \/ Enter(q) \/ PollPriority(q) \/ PollNormal(q) \/ Release(q) \/ Leave(q)
         \/ (taking[q] # r /\ (Take(q) \/ Display(q) \/ AdvanceO(q)))
  PROVE  Still(r)
<1> USE DEF Goto, Procs, TypeOK
<1>1. Showing(r)' = Showing(r) /\ Passing(r)' = Passing(r)
  <2>1. \A p \in Receivers : p # q => pc'[p] = pc[p] /\ taking'[p] = taking[p]
    BY DEF Enter, PollPriority, PollNormal, Release, Leave, Take, Display, AdvanceO
  <2>2. \/ taking[q] # r /\ taking'[q] # r
        \/ pc[q] \notin {"show", "pass"} /\ pc'[q] \notin {"show", "pass"}
    BY DEF Enter, PollPriority, PollNormal, Release, Leave, Take, Display, AdvanceO
  <2> HIDE DEF Goto, Procs, TypeOK
  <2> QED
    BY <2>1, <2>2 DEF Showing, Passing, Freeing
<1>2. Stored(r)' = Stored(r)
  BY ProgramAssumption DEF Enter, PollPriority, PollNormal, Release, Leave, Take, Display,
     AdvanceO, Stored
<1>3. cell'[r] = cell[r] /\ indexZ'[r] = indexZ[r] /\ indexO'[r] = indexO[r]
  BY DEF Enter, PollPriority, PollNormal, Release, Leave, Take, Display, AdvanceO, rings
<1>4. full'[r] = full[r]
  BY DEF Enter, PollPriority, PollNormal, Release, Leave, Take, Display, AdvanceO, sems
<1> QED
  BY <1>1, <1>2, <1>3, <1>4, StillRing

(* What a receiver takes still waits until it is shown.                    *)
LEMMA StillTake ==
  ASSUME TypeOK, MutexAccounting, MutexAccounting', NEW q \in Receivers, Take(q),
         TypeOK', NEW r \in Rings, r = taking[q]
  PROVE  Still(r)
<1> USE DEF Goto, Procs, TypeOK
<1>1. r \in Rings
  OBVIOUS
<1>2. Showing(r) = {} /\ Passing(r) = {}
  BY DEF Take, Showing, Passing, Freeing, MutexAccounting, InCritical
<1>3. q \in Showing(r)' /\ Passing(r)' = Passing(r)
  BY DEF Take, Showing, Passing, Freeing
<1>4. full'[r] = full[r] - 1 /\ full[r] \in Nat
  BY <1>1 DEF Take
<1>5. Waiting(r)' = Waiting(r)
  <2>1. Waiting(r) = full[r]
    BY <1>2, WaitingIs
  <2>2. Showing(r)' # {}
    BY <1>3
  <2>3. Waiting(r)' = full'[r] + 1
    BY <2>2, WaitingIsPrimed
  <2> QED
    BY <1>4, <2>1, <2>3
<1>6. cell' = cell /\ indexZ' = indexZ /\ indexO' = indexO
  BY DEF Take, rings
<1>7. Stored(r)' = Stored(r)
  BY ProgramAssumption DEF Take, Stored
<1>8. Oldest(r)' = Oldest(r)
  BY <1>3, <1>6, OldestIs
<1> QED
  BY <1>5, <1>6, <1>7, <1>8 DEF Still

(* A number is wrapped to an index.                                        *)
LEMMA IndexTyped ==
  ASSUME NEW x \in Nat
  PROVE  x % MAX \in 0..MAX-1
BY BoundAssumption

(* Indices of a ring, as far as they occur.                                *)
LEMMA Wrapped ==
  ASSUME NEW x \in 0 .. 2 * MAX
  PROVE  x % MAX = IF x < MAX THEN x ELSE IF x < 2 * MAX THEN x - MAX ELSE 0
<1>1. MAX \in Nat /\ MAX > 0
  BY BoundAssumption
<1>2. CASE x < MAX
  BY <1>1, <1>2
<1>3. CASE MAX <= x /\ x < 2 * MAX
  BY <1>1, <1>3
<1>4. CASE x = 2 * MAX
  BY <1>1, <1>4
<1> QED
  BY <1>1, <1>2, <1>3, <1>4

(* The cell behind those that wait is none of them.                        *)
LEMMA CellBehind ==
  ASSUME NEW o \in 0..MAX, NEW w \in 0..MAX, w < MAX, NEW k \in 1..w
  PROVE  (o + k - 1) % MAX # (o + w) % MAX
<1>1. MAX \in Nat /\ MAX > 0
  BY BoundAssumption
<1>2. PICK x \in Nat : x = o + k - 1
  OBVIOUS
<1>3. PICK y \in Nat : y = o + w
  OBVIOUS
<1>4. x \in 0 .. 2 * MAX /\ y \in 0 .. 2 * MAX /\ x < y /\ y < 2 * MAX /\ y - x < MAX
  BY <1>1, <1>2, <1>3
<1>5. x % MAX = IF x < MAX THEN x ELSE IF x < 2 * MAX THEN x - MAX ELSE 0
  BY <1>4, Wrapped
<1>6. y % MAX = IF y < MAX THEN y ELSE IF y < 2 * MAX THEN y - MAX ELSE 0
  BY <1>4, Wrapped
<1>7. x % MAX # y % MAX
  BY <1>1, <1>4, <1>5, <1>6
<1> QED
  BY <1>2, <1>3, <1>7

(* Wrapping an index before the next step or after it is the same.         *)
LEMMA NextWrapped ==
  ASSUME NEW x \in 0 .. 2 * MAX, x < 2 * MAX
  PROVE  ((x % MAX) + 1) % MAX = (x + 1) % MAX
<1>1. MAX \in Nat /\ MAX > 0
  BY BoundAssumption
<1>2. x % MAX = IF x < MAX THEN x ELSE IF x < 2 * MAX THEN x - MAX ELSE 0
  BY Wrapped
<1>3. PICK y \in Nat : y = x % MAX
  BY <1>1, <1>2
<1>4. PICK y1 \in Nat : y1 = y + 1
  OBVIOUS
<1>5. PICK x1 \in Nat : x1 = x + 1
  OBVIOUS
<1>6. y < MAX /\ y1 \in 0 .. 2 * MAX /\ x1 \in 0 .. 2 * MAX
  BY <1>1, <1>2, <1>3, <1>4, <1>5
<1>8. y1 % MAX = IF y1 < MAX THEN y1 ELSE IF y1 < 2 * MAX THEN y1 - MAX ELSE 0
  BY <1>6, Wrapped
<1>9. x1 % MAX = IF x1 < MAX THEN x1 ELSE IF x1 < 2 * MAX THEN x1 - MAX ELSE 0
  BY <1>6, Wrapped
<1>7. (y + 1) % MAX = (x + 1) % MAX
  BY <1>1, <1>2, <1>3, <1>4, <1>5, <1>6, <1>8, <1>9
<1> QED
  BY <1>3, <1>7

(* The k-th of the cells that wait in ring r, ...                          *)
QueueOf(r) == [k \in 1..Waiting(r) |-> cell[r][(Oldest(r) + k - 1) % MAX]]

(* ... of which there are at most MAX, and fewer when a sender is to write *)
(* one more.                                                               *)
LEMMA RingBounds ==
  ASSUME TypeOK, SlotAccounting, NEW r \in Rings
  PROVE  /\ Waiting(r) \in 0..MAX /\ Oldest(r) \in 0..MAX
         /\ Reserving(r) # {} => Waiting(r) < MAX
<1>1. Showing(r) \subseteq Freeing(r)
  BY DEF Showing
<1>2. Cardinality(Showing(r)) \in Nat /\ Cardinality(Showing(r)) <= Cardinality(Freeing(r))
  BY <1>1, HoldersFinite, FS_Subset, FS_CardinalityType
<1>3. Waiting(r) = full[r] + Cardinality(Showing(r))
  BY DEF Waiting, Showing
<1>4. free[r] + full[r] + Cardinality(Reserving(r)) + Cardinality(Freeing(r)) \in {0, MAX}
  BY DEF SlotAccounting
<1>5. MAX \in Nat /\ free[r] \in Nat /\ full[r] \in Nat /\ indexO[r] \in 0..MAX-1
  BY BoundAssumption DEF TypeOK
<1>6. Cardinality(Reserving(r)) \in Nat /\ Cardinality(Freeing(r)) \in Nat
  BY HoldersFinite
<1>7. Reserving(r) # {} => Cardinality(Reserving(r)) # 0
  BY HoldersFinite, FS_EmptySet
<1>8. Oldest(r) \in 0..MAX
  BY <1>5, OldestIs
<1>9. Waiting(r) \in 0..MAX
  BY <1>2, <1>3, <1>4, <1>5, <1>6
<1>10. Reserving(r) # {} => Waiting(r) < MAX
  BY <1>2, <1>3, <1>4, <1>5, <1>6, <1>7
<1> QED
  BY <1>8, <1>9, <1>10

(* A ring that looks the same is the same queue.                           *)
LEMMA StillQueue ==
  ASSUME NEW r, Still(r)
  PROVE  QueueOf(r)' = QueueOf(r)
BY DEF Still, QueueOf

(* The write index of ring r is where Aligned wants it.                    *)
AlignedAt(r) ==
  indexZ[r] = (Oldest(r) + Waiting(r) + (IF Stored(r) = {} THEN 0 ELSE 1)) % MAX

(* ... and stays aligned.                                                  *)
LEMMA StillAligned ==
  ASSUME NEW r, Still(r), AlignedAt(r)
  PROVE  AlignedAt(r)'
BY DEF Still, AlignedAt

(* buf[indexZ] = arg overwrites no cell that waits, ...                    *)
LEMMA WriteRing ==
  ASSUME TypeOK, MutexAccounting, SlotAccounting, NEW r \in Rings, AlignedAt(r),
         NEW s \in Senders, r = Program[s].ring, NoBurstPx, WriteCell(s)
  PROVE  /\ AlignedAt(r)' /\ QueueOf(r)' = QueueOf(r)
         /\ cell'[r][(Oldest(r)' + Waiting(r)') % MAX] = <<s, i[s]>>
<1> USE DEF Goto, Procs, TypeOK
<1> DEFINE w == Waiting(r)
           o == Oldest(r)
<1>1. Showing(r)' = Showing(r) /\ Passing(r)' = Passing(r)
  BY ProgramAssumption DEF WriteCell, Showing, Passing, Freeing
<1>2. full' = full /\ indexZ' = indexZ /\ indexO' = indexO
  BY DEF WriteCell, sems
<1>3. Waiting(r)' = w
  BY <1>1, <1>2 DEF Waiting, Showing
<1>4. Oldest(r)' = o
  BY <1>1, <1>2, OldestIs
<1>5. Stored(r) = {} /\ Stored(r)' = {}
  BY DEF WriteCell, Stored, MutexAccounting, InCritical
<1>6. Reserving(r) # {}
  BY DEF WriteCell, Reserving
<1>7. w \in 0..MAX /\ w < MAX /\ o \in 0..MAX
  BY <1>6, RingBounds
<1>8. indexZ[r] = (o + w) % MAX
  BY <1>5, <1>7, BoundAssumption DEF AlignedAt
<1>9. cell'[r] = [cell[r] EXCEPT ![indexZ[r]] = <<s, i[s]>>]
  BY OwnSegment DEF WriteCell
<1>10. AlignedAt(r)'
  BY <1>2, <1>3, <1>4, <1>5 DEF AlignedAt
<1>11. \A k \in 1..w : (o + k - 1) % MAX # (o + w) % MAX
  BY <1>7, CellBehind
<1>12. \A k \in 1..w : cell'[r][(o + k - 1) % MAX] = cell[r][(o + k - 1) % MAX]
  BY <1>8, <1>9, <1>11
<1>13. QueueOf(r)' = QueueOf(r)
  BY <1>3, <1>4, <1>12 DEF QueueOf
<1>14. cell'[r][indexZ[r]] = <<s, i[s]>>
  <2>1. indexZ[r] \in 0..MAX-1 /\ DOMAIN cell[r] = 0..MAX-1
    OBVIOUS
  <2> QED
    BY <1>9, <2>1
<1> QED
  BY <1>3, <1>4, <1>8, <1>10, <1>13, <1>14

(* ... the index goes on behind it, ...                                    *)
LEMMA AdvanceRing ==
  ASSUME TypeOK, MutexAccounting, SlotAccounting, NEW r \in Rings, AlignedAt(r),
         NEW s \in Senders, r = Program[s].ring, NoBurstPx, AdvanceZ(s)
  PROVE  /\ AlignedAt(r)' /\ QueueOf(r)' = QueueOf(r)
         /\ Waiting(r)' = Waiting(r) /\ Oldest(r)' = Oldest(r) /\ cell'[r] = cell[r]
<1> USE DEF Goto, Procs, TypeOK
<1> DEFINE w == Waiting(r)
           o == Oldest(r)
<1>1. Showing(r)' = Showing(r) /\ Passing(r)' = Passing(r)
  BY ProgramAssumption DEF AdvanceZ, Showing, Passing, Freeing
<1>2. full' = full /\ cell' = cell /\ indexO' = indexO
  BY DEF AdvanceZ, sems
<1>3. Waiting(r)' = w
  BY <1>1, <1>2 DEF Waiting, Showing
<1>4. Oldest(r)' = o
  BY <1>1, <1>2, OldestIs
<1>5. Stored(r) = {} /\ Stored(r)' # {}
  BY DEF AdvanceZ, Stored, MutexAccounting, InCritical
<1>6. Reserving(r) # {}
  BY DEF AdvanceZ, Reserving
<1>7. w \in 0..MAX /\ w < MAX /\ o \in 0..MAX
  BY <1>6, RingBounds
<1>8. indexZ[r] = (o + w) % MAX
  BY <1>5, <1>7, BoundAssumption DEF AlignedAt
<1>9. indexZ'[r] = (indexZ[r] + 1) % MAX
  BY OwnSegment DEF AdvanceZ
<1>10. (((o + w) % MAX) + 1) % MAX = (o + w + 1) % MAX
  <2>1. PICK x \in Nat : x = o + w
    BY <1>7
  <2>2. x \in 0 .. 2 * MAX /\ x < 2 * MAX
    BY <1>7, <2>1, BoundAssumption
  <2>3. ((x % MAX) + 1) % MAX = (x + 1) % MAX
    BY <2>2, NextWrapped
  <2> QED
    BY <2>1, <2>3
<1>11. AlignedAt(r)'
  BY <1>3, <1>4, <1>5, <1>8, <1>9, <1>10 DEF AlignedAt
<1>12. QueueOf(r)' = QueueOf(r)
  BY <1>2, <1>3, <1>4 DEF QueueOf
<1> QED
  BY <1>2, <1>3, <1>4, <1>11, <1>12

(* ... and the cell is counted: it joins the queue.                        *)
LEMMA PublishRing ==
  ASSUME TypeOK, MutexAccounting, SlotAccounting, NEW r \in Rings, AlignedAt(r), Written,
         NEW s \in Senders, r = Program[s].ring, Publish(s)
  PROVE  /\ AlignedAt(r)' /\ Waiting(r) < MAX
         /\ QueueOf(r)' = Append(QueueOf(r), <<s, i[s]>>)
<1> USE DEF Goto, Procs, TypeOK
<1> DEFINE w == Waiting(r)
           o == Oldest(r)
<1>1. Showing(r)' = Showing(r) /\ Passing(r)' = Passing(r)
  BY ProgramAssumption DEF Publish, Showing, Passing, Freeing
<1>2. cell' = cell /\ indexZ' = indexZ /\ indexO' = indexO /\ full'[r] = full[r] + 1
  BY DEF Publish, rings
<1>5. Stored(r) # {} /\ Stored(r)' = {}
  BY DEF Publish, Stored, MutexAccounting, InCritical
<1>6. Reserving(r) # {}
  BY DEF Publish, Reserving
<1>7. w \in 0..MAX /\ w < MAX /\ o \in 0..MAX
  BY <1>6, RingBounds
<1>3. Waiting(r)' = w + 1
  <2>1. w = full[r] + Cardinality(Showing(r))
    BY DEF Waiting, Showing
  <2>2. Waiting(r)' = full'[r] + Cardinality(Showing(r)')
    BY DEF Waiting, Showing
  <2>3. full[r] \in Nat
    OBVIOUS
  <2>4. Cardinality(Showing(r)) \in Nat
    BY HoldersFinite, FS_Subset, FS_CardinalityType DEF Showing
  <2>5. PICK h \in Nat : h = Cardinality(Showing(r)) /\ h = Cardinality(Showing(r)')
    BY <1>1, <2>4
  <2>6. PICK f \in Nat : f = full[r] /\ f + 1 = full'[r]
    BY <1>2, <2>3
  <2>7. w = f + h /\ Waiting(r)' = f + 1 + h
    BY <2>1, <2>2, <2>5, <2>6
  <2> HIDE DEF w, Goto, Procs, TypeOK
  <2> QED
    BY <2>7
<1>4. Oldest(r)' = o
  BY <1>1, <1>2, OldestIs
<1>8. cell[r][(o + w) % MAX] = <<s, i[s]>>
  BY DEF Publish, Written
<1>9. AlignedAt(r)'
  <2>1. indexZ[r] = (o + w + 1) % MAX
    BY <1>5 DEF AlignedAt
  <2>2. o + w + 1 = o + (w + 1) + 0
    BY <1>7
  <2> HIDE DEF w, o
  <2> QED
    BY <1>2, <1>3, <1>4, <1>5, <2>1, <2>2 DEF AlignedAt
<1>10. QueueOf(r)' = Append(QueueOf(r), <<s, i[s]>>)
  <2> DEFINE old == QueueOf(r)
             new == QueueOf(r)'
             m == <<s, i[s]>>
  <2>1. old \in Seq(Messages \cup {Zero}) /\ Len(old) = w
    <3>1. \A k \in 1..w : o + k - 1 \in Nat
      BY <1>7
    <3>2. cell[r] \in [0..MAX-1 -> Messages \cup {Zero}]
      OBVIOUS
    <3>3. \A k \in 1..w : cell[r][(o + k - 1) % MAX] \in Messages \cup {Zero}
      BY <3>1, <3>2, IndexTyped
    <3>4. w \in Nat
      BY <1>7
    <3>5. old = [k \in 1..w |-> cell[r][(o + k - 1) % MAX]]
      BY DEF QueueOf
    <3> HIDE DEF old, w, o
    <3> QED
      BY <3>3, <3>4, <3>5
  <2>2. new = [k \in 1..w + 1 |-> cell[r][(o + k - 1) % MAX]]
    BY <1>2, <1>3, <1>4 DEF QueueOf
  <2>3. Append(old, m) = [k \in 1..w + 1 |-> IF k <= w THEN old[k] ELSE m]
    BY <1>7, <2>1
  <2>4. \A k \in 1..w + 1 : cell[r][(o + k - 1) % MAX] = IF k <= w THEN old[k] ELSE m
    <3> SUFFICES ASSUME NEW k \in 1..w + 1
                 PROVE  cell[r][(o + k - 1) % MAX] = IF k <= w THEN old[k] ELSE m
      OBVIOUS
    <3>1. CASE k <= w
      BY <1>7, <3>1 DEF QueueOf
    <3>2. CASE k = w + 1
      <4>1. o + k - 1 = o + w /\ ~(k <= w)
        BY <1>7, <3>2
      <4> QED
        BY <1>8, <4>1
    <3> QED
      BY <1>7, <3>1, <3>2
  <2> HIDE DEF old, new, m, w, o
  <2>5. new = Append(old, m)
    BY <2>2, <2>3, <2>4
  <2> QED
    BY <2>5 DEF old, new, m
<1> QED
  BY <1>7, <1>9, <1>10

(* An index that has just passed the end is the same before it is wrapped. *)
LEMMA AlreadyWrapped ==
  ASSUME NEW x \in 0..MAX, NEW y \in 0..MAX
  PROVE  ((x % MAX) + y) % MAX = (x + y) % MAX
<1>1. MAX \in Nat /\ MAX > 0
  BY BoundAssumption
<1>2. x \in 0 .. 2 * MAX /\ y \in 0 .. 2 * MAX
  BY <1>1
<1>3. x % MAX = IF x < MAX THEN x ELSE IF x < 2 * MAX THEN x - MAX ELSE 0
  BY <1>2, Wrapped
<1>4. CASE x < MAX
  BY <1>1, <1>3, <1>4
<1>5. CASE x = MAX
  <2>1. x % MAX = 0
    BY <1>1, <1>3, <1>5
  <2>2. PICK z \in Nat : z = x + y
    OBVIOUS
  <2>3. z \in 0 .. 2 * MAX
    BY <1>1, <2>2
  <2>4. z % MAX = IF z < MAX THEN z ELSE IF z < 2 * MAX THEN z - MAX ELSE 0
    BY <2>3, Wrapped
  <2>5. y % MAX = IF y < MAX THEN y ELSE IF y < 2 * MAX THEN y - MAX ELSE 0
    BY <1>2, Wrapped
  <2>6. z % MAX = y % MAX
    BY <1>1, <1>5, <2>2, <2>4, <2>5
  <2> QED
    BY <2>1, <2>2, <2>6
<1> QED
  BY <1>1, <1>4, <1>5

(* A queue without its first.                                              *)
LEMMA TailOf ==
  ASSUME NEW S, NEW n \in Nat, n > 0, NEW q, q \in [1..n -> S]
  PROVE  /\ q \in Seq(S) /\ q # <<>> /\ Head(q) = q[1]
         /\ Tail(q) = [k \in 1..n - 1 |-> q[k + 1]]
<1>1. q \in Seq(S) /\ Len(q) = n
  OBVIOUS
<1>2. q # <<>>
  BY <1>1
<1>3. Head(q) = q[1]
  BY <1>1, <1>2
<1>4. Tail(q) = [k \in 1..n - 1 |-> q[k + 1]]
  <2> DEFINE t == [k \in 1..n - 1 |-> q[k + 1]]
  <2>1. /\ Tail(q) \in Seq(S) /\ Len(Tail(q)) = n - 1
        /\ \A k \in 1 .. n - 1 : Tail(q)[k] = q[k + 1]
    BY <1>1, <1>2, HeadTailProperties
  <2>2. \A k \in 1..n - 1 : q[k + 1] \in S
    OBVIOUS
  <2>3. t \in Seq(S) /\ Len(t) = n - 1 /\ \A k \in 1..n - 1 : t[k] = q[k + 1]
    BY <2>2
  <2> HIDE DEF t
  <2>4. Tail(q) = t
    BY <2>1, <2>3, SeqEqual
  <2> QED
    BY <2>4 DEF t
<1> QED
  BY <1>1, <1>2, <1>3, <1>4

(* printf shows the oldest message of the ring and takes it from its       *)
(* queue.                                                                  *)
LEMMA DisplayRing ==
  ASSUME TypeOK, TypeOK', MutexAccounting, MutexAccounting', SlotAccounting,
         NEW r \in Rings, AlignedAt(r), NEW q \in Receivers, r = taking[q], Display(q)
  PROVE  /\ AlignedAt(r)' /\ QueueOf(r) # <<>> /\ QueueOf(r)' = Tail(QueueOf(r))
         /\ console' = Append(console, Head(QueueOf(r)))
<1> DEFINE w == Waiting(r)
           o == Oldest(r)
<1>1. /\ cell' = cell /\ indexZ' = indexZ /\ indexO' = indexO /\ full' = full
      /\ console' = Append(console, cell[r][indexO[r]])
  BY DEF Display, rings, sems
<1>2. q \in Showing(r) /\ Passing(r) = {} /\ q \in Passing(r)'
  BY DEF Display, Goto, Procs, TypeOK, Showing, Passing, Freeing, MutexAccounting, InCritical
<1>3. Showing(r)' = {}
  BY DEF Display, Goto, Procs, TypeOK, Showing, Freeing, MutexAccounting, InCritical
<1>4. Stored(r) = {} /\ Stored(r)' = {}
  BY ProgramAssumption
     DEF Display, Goto, Procs, TypeOK, Stored, MutexAccounting, InCritical
<1>5. full[r] \in Nat /\ indexO[r] \in 0..MAX-1 /\ cell[r] \in [0..MAX-1 -> Messages \cup {Zero}]
  BY DEF TypeOK
<1>6. w = full[r] + 1
  BY <1>2, WaitingIs
<1>7. Waiting(r)' = full[r]
  BY <1>1, <1>3, WaitingIsPrimed
<1>8. o = indexO[r]
  BY <1>2, OldestIs
<1>9. Oldest(r)' = indexO[r] + 1
  BY <1>1, <1>2, OldestIs
<1>10. AlignedAt(r)'
  <2>1. indexZ[r] = (o + w) % MAX
    <3>1. o + w + 0 = o + w
      BY <1>5, <1>6, <1>8
    <3> QED
      BY <1>4, <3>1 DEF AlignedAt
  <2>2. o + w = indexO[r] + 1 + full[r] + 0
    BY <1>5, <1>6, <1>8
  <2>3. indexZ'[r] = (indexO[r] + 1 + full[r] + 0) % MAX
    BY <1>1, <2>1, <2>2
  <2> QED
    BY <1>4, <1>7, <1>9, <2>3 DEF AlignedAt
<1>11. PICK n \in Nat : n = w /\ n > 0 /\ n - 1 = full[r]
  BY <1>5, <1>6
<1>12. QueueOf(r) = [k \in 1..n |-> cell[r][(o + k - 1) % MAX]]
  BY <1>11 DEF QueueOf
<1>13. QueueOf(r) \in [1..n -> Messages \cup {Zero}]
  <2>1. \A k \in 1..n : (o + k - 1) % MAX \in 0..MAX-1
    BY <1>5, <1>8, BoundAssumption
  <2>2. \A k \in 1..n : cell[r][(o + k - 1) % MAX] \in Messages \cup {Zero}
    BY <1>5, <2>1
  <2> QED
    BY <1>12, <2>2
<1>14. Head(QueueOf(r)) = cell[r][indexO[r]] /\ QueueOf(r) # <<>>
  <2>1. Head(QueueOf(r)) = QueueOf(r)[1] /\ QueueOf(r) # <<>>
    BY <1>11, <1>13, TailOf
  <2>2. 1 \in 1..n
    BY <1>11
  <2>3. QueueOf(r)[1] = cell[r][(o + 1 - 1) % MAX]
    BY <1>12, <2>2
  <2>4. o + 1 - 1 = indexO[r] /\ indexO[r] % MAX = indexO[r]
    BY <1>5, <1>8, BoundAssumption
  <2> QED
    BY <2>1, <2>3, <2>4
<1>15. QueueOf(r)' = Tail(QueueOf(r))
  <2>1. Tail(QueueOf(r)) = [k \in 1..n - 1 |-> QueueOf(r)[k + 1]]
    BY <1>11, <1>13, TailOf
  <2>2. QueueOf(r)' = [k \in 1..n - 1 |-> cell[r][(indexO[r] + 1 + k - 1) % MAX]]
    BY <1>1, <1>7, <1>9, <1>11 DEF QueueOf
  <2>3. \A k \in 1..n - 1 : QueueOf(r)[k + 1] = cell[r][(indexO[r] + 1 + k - 1) % MAX]
    <3> SUFFICES ASSUME NEW k \in 1..n - 1
                 PROVE  QueueOf(r)[k + 1] = cell[r][(indexO[r] + 1 + k - 1) % MAX]
      OBVIOUS
    <3>1. k + 1 \in 1..n /\ o + (k + 1) - 1 = indexO[r] + 1 + k - 1
      BY <1>5, <1>8
    <3>2. QueueOf(r)[k + 1] = cell[r][(o + (k + 1) - 1) % MAX]
      BY <1>12, <3>1
    <3> QED
      BY <3>1, <3>2
  <2> QED
    BY <2>1, <2>2, <2>3
<1> QED
  BY <1>1, <1>10, <1>14, <1>15

(* Advancing the read index changes how the queue is found, and not the    *)
(* queue.                                                                  *)
LEMMA PassRing ==
  ASSUME TypeOK, TypeOK', MutexAccounting, MutexAccounting', SlotAccounting,
         NEW r \in Rings, AlignedAt(r), NEW q \in Receivers, r = taking[q], AdvanceO(q)
  PROVE  AlignedAt(r)' /\ QueueOf(r)' = QueueOf(r)
<1> DEFINE w == Waiting(r)
           o == Oldest(r)
<1>1. /\ cell' = cell /\ indexZ' = indexZ /\ full' = full
      /\ indexO'[r] = (indexO[r] + 1) % MAX
  BY DEF AdvanceO, sems, TypeOK
<1>2. q \in Passing(r) /\ Passing(r)' = {}
  BY DEF AdvanceO, Goto, Procs, TypeOK, Passing, Freeing, MutexAccounting, InCritical
<1>3. Showing(r)' = Showing(r)
  BY DEF AdvanceO, Goto, Procs, TypeOK, Showing, Freeing
<1>4. Stored(r) = {} /\ Stored(r)' = {}
  BY ProgramAssumption
     DEF AdvanceO, Goto, Procs, TypeOK, Stored, MutexAccounting, InCritical
<1>5. w \in 0..MAX /\ o \in 0..MAX /\ MAX \in Nat
  BY RingBounds, BoundAssumption
<1>6. Waiting(r)' = w
  BY <1>1, <1>3 DEF Waiting, Showing
<1>7. o = indexO[r] + 1
  BY <1>2, OldestIs
<1>8. Oldest(r)' = o % MAX
  <2>1. Oldest(r)' = indexO'[r]
    BY <1>2, OldestIs
  <2> QED
    BY <1>1, <1>7, <2>1
<1>9. PICK x \in 0..MAX : x = o
  BY <1>5
<1>10. PICK n \in 0..MAX : n = w
  BY <1>5
<1>11. \A y \in 0..MAX : ((x % MAX) + y) % MAX = (x + y) % MAX
  BY AlreadyWrapped
<1>12. x % MAX \in Nat
  BY <1>5, BoundAssumption
<1>13. AlignedAt(r)'
  <2>1. indexZ[r] = (x + n) % MAX
    <3>1. x + n + 0 = x + n
      BY <1>5
    <3> QED
      BY <1>4, <1>9, <1>10, <3>1 DEF AlignedAt
  <2>2. indexZ'[r] = ((x % MAX) + n) % MAX
    BY <1>1, <1>11, <2>1
  <2>3. (x % MAX) + n + 0 = (x % MAX) + n
    BY <1>5, <1>12
  <2> QED
    BY <1>4, <1>6, <1>8, <1>9, <1>10, <2>2, <2>3 DEF AlignedAt
<1>14. QueueOf(r)' = QueueOf(r)
  <2>1. QueueOf(r) = [k \in 1..n |-> cell[r][(x + k - 1) % MAX]]
    BY <1>9, <1>10 DEF QueueOf
  <2>2. QueueOf(r)' = [k \in 1..n |-> cell[r][((x % MAX) + k - 1) % MAX]]
    BY <1>1, <1>6, <1>8, <1>9, <1>10 DEF QueueOf
  <2>3. \A k \in 1..n : ((x % MAX) + k - 1) % MAX = (x + k - 1) % MAX
    <3> SUFFICES ASSUME NEW k \in 1..n
                 PROVE  ((x % MAX) + k - 1) % MAX = (x + k - 1) % MAX
      OBVIOUS
    <3>1. PICK y \in 0..MAX : y = k - 1
      BY <1>5
    <3>2. (x % MAX) + k - 1 = (x % MAX) + y /\ x + k - 1 = x + y
      BY <1>5, <1>12, <3>1
    <3> QED
      BY <1>11, <3>2
  <2> QED
    BY <2>1, <2>2, <2>3
<1> QED
  BY <1>13, <1>14

(* The creator clears the indices of rings that nobody has used.           *)
LEMMA ClearRing ==
  ASSUME TypeOK, TypeOK', MutexAccounting, MutexAccounting', NothingReady, NoBurstPx,
         NEW r \in Rings, NEW p \in Procs, ClearIndexes(p)
  PROVE  AlignedAt(r)' /\ QueueOf(r)' = QueueOf(r)
<1>1. stage = 0 /\ stage' = 1 /\ full' = full /\ full[r] = 0
  BY DEF ClearIndexes, sems, NothingReady
<1>2. \A h \in Procs : ~InCritical(h) /\ ~InCritical(h)'
  BY <1>1 DEF MutexAccounting
<1>3. Showing(r) = {} /\ Showing(r)' = {} /\ Passing(r)' = {} /\ Stored(r)' = {}
  BY <1>2 DEF Showing, Passing, Freeing, Stored, InCritical, Procs
<1>4. Waiting(r) = 0 /\ Waiting(r)' = 0
  BY <1>1, <1>3, WaitingIs, WaitingIsPrimed
<1>5. indexZ'[r] = 0 /\ indexO'[r] = 0
  BY DEF ClearIndexes, BufPri, NoBurstPx, Rings, TypeOK
<1>6. Oldest(r)' = 0
  BY <1>3, <1>5, OldestIs
<1>7. AlignedAt(r)'
  <2>1. (0 + 0 + 0) % MAX = 0
    BY BoundAssumption
  <2> QED
    BY <1>3, <1>4, <1>5, <1>6, <2>1 DEF AlignedAt
<1>8. QueueOf(r)' = QueueOf(r)
  BY <1>4 DEF QueueOf
<1> QED
  BY <1>7, <1>8

(* What the theorems above say of every state.                             *)
Accounts == TypeOK /\ MutexAccounting /\ SlotAccounting /\ NothingReady

(* A step keeps every ring aligned, and its queue unless a message is      *)
(* counted or shown.                                                       *)
LEMMA RingStep ==
  ASSUME Accounts, Accounts', NoBurstPx, Aligned, Written, [Next]_vars, NEW r \in Rings
  PROVE  /\ AlignedAt(r)'
         /\ \/ QueueOf(r)' = QueueOf(r)
            \/ \E s \in Senders : Publish(s) /\ r = Program[s].ring
            \/ \E q \in Receivers : Display(q) /\ r = taking[q]
<1> DEFINE Goal == /\ AlignedAt(r)'
                   /\ \/ QueueOf(r)' = QueueOf(r)
                      \/ \E s \in Senders : Publish(s) /\ r = Program[s].ring
                      \/ \E q \in Receivers : Display(q) /\ r = taking[q]
<1>1. AlignedAt(r)
  BY DEF Aligned, AlignedAt
<1>2. Still(r) => Goal
  BY <1>1, StillAligned, StillQueue
<1>3. ASSUME NEW p \in Procs, Startup(p) \/ Kill(p) PROVE Goal
  <2>1. CASE ClearIndexes(p)
    BY <2>1, ClearRing DEF Accounts
  <2>2. CASE ~ClearIndexes(p)
    BY <1>2, <1>3, <2>2, StillStartup DEF Accounts
  <2> QED
    BY <2>1, <2>2
<1>4. ASSUME NEW s \in Senders, Send(s) PROVE Goal
  <2>1. CASE Program[s].ring = r /\ WriteCell(s)
    BY <1>1, <2>1, WriteRing DEF Accounts
  <2>2. CASE Program[s].ring = r /\ AdvanceZ(s)
    BY <1>1, <2>2, AdvanceRing DEF Accounts
  <2>3. CASE Program[s].ring = r /\ Publish(s)
    BY <1>1, <2>3, PublishRing DEF Accounts
  <2>4. CASE \/ Reserve(s) \/ Lock(s) \/ Unlock(s) \/ Exit(s)
             \/ (Program[s].ring # r /\ (WriteCell(s) \/ AdvanceZ(s) \/ Publish(s)))
    BY <1>2, <2>4, StillSend DEF Accounts
  <2> QED
    BY <1>4, <2>1, <2>2, <2>3, <2>4 DEF Send
<1>5. ASSUME NEW q \in Receivers, Receive(q) PROVE Goal
  <2>1. CASE r = taking[q] /\ Take(q)
    BY <1>2, <2>1, StillTake DEF Accounts
  <2>2. CASE r = taking[q] /\ Display(q)
    BY <1>1, <2>2, DisplayRing DEF Accounts
  <2>3. CASE r = taking[q] /\ AdvanceO(q)
    BY <1>1, <2>3, PassRing DEF Accounts
  <2>4. CASE \/ Enter(q) \/ PollPriority(q) \/ PollNormal(q) \/ Release(q) \/ Leave(q)
             \/ (taking[q] # r /\ (Take(q) \/ Display(q) \/ AdvanceO(q)))
    BY <1>2, <2>4, StillReceive DEF Accounts
  <2> QED
    BY <1>5, <2>1, <2>2, <2>3, <2>4 DEF Receive
<1>6. CASE UNCHANGED vars
  <2>1. Still(r)
    BY <1>6 DEF vars, sems, setup, rings, Still, Waiting, Oldest, Stored, Freeing
  <2> QED
    BY <1>2, <2>1
<1> QED
  BY <1>3, <1>4, <1>5, <1>6 DEF Next

(* While a process is in the critical section and does nothing, nothing    *)
(* happens to the rings.                                                   *)
LEMMA Undisturbed ==
  ASSUME Accounts, NoBurstPx, [Next]_vars, NEW p \in Procs, InCritical(p), pc'[p] = pc[p]
  PROVE  /\ \A r \in Rings : Still(r)
         /\ full' = full
         /\ p \in Senders => i'[p] = i[p]
         /\ p \in Receivers => taking'[p] = taking[p]
<1> DEFINE Goal == /\ \A r \in Rings : Still(r)
                   /\ full' = full
                   /\ p \in Senders => i'[p] = i[p]
                   /\ p \in Receivers => taking'[p] = taking[p]
<1>1. /\ mutex = 0 /\ stage = 6
      /\ \A h \in Procs : InCritical(h) => h = p
  BY DEF Accounts, TypeOK, MutexAccounting
<1>2. pc \in [Procs -> Locations] /\ Senders \subseteq Procs /\ Receivers \subseteq Procs
  BY DEF Accounts, TypeOK, Procs
<1>3. ASSUME NEW h \in Procs, Startup(h) \/ Kill(h) PROVE Goal
  <2>1. ~ClearIndexes(h) /\ ~SetSemaphore(h)
    BY <1>1 DEF ClearIndexes, SetSemaphore
  <2>2. \A r \in Rings : Still(r)
    BY <1>3, <2>1, StillStartup DEF Accounts
  <2> QED
    BY <1>3, <2>1, <2>2 DEF Startup, Kill, CreateSemaphores, AttachSemaphores, SetMutex, sems
<1>4. ASSUME NEW s \in Senders, Send(s) PROVE Goal
  <2>1. s # p
    BY <1>2, <1>4 DEF Send, Reserve, Lock, WriteCell, AdvanceZ, Publish, Unlock, Exit, Goto,
       InCritical
  <2>2. ~InCritical(s)
    BY <1>1, <1>2, <2>1
  <2>3. Reserve(s) \/ Exit(s)
    BY <1>1, <1>4, <2>2 DEF Send, Lock, WriteCell, AdvanceZ, Publish, Unlock, Goto, InCritical
  <2>4. \A r \in Rings : Still(r)
    BY <2>3, StillSend DEF Accounts
  <2> QED
    BY <2>3, <2>4 DEF Reserve, Exit, sems
<1>5. ASSUME NEW q \in Receivers, Receive(q) PROVE Goal
  <2>1. q # p
    BY <1>2, <1>5 DEF Receive, Enter, PollPriority, PollNormal, Take, Display, AdvanceO, Release,
       Leave, Goto, InCritical
  <2>2. ~InCritical(q)
    BY <1>1, <1>2, <2>1
  <2> QED
    BY <1>1, <1>5, <2>2 DEF Receive, Enter, PollPriority, PollNormal, Take, Display, AdvanceO,
       Release, Leave, Goto, InCritical
<1>6. CASE UNCHANGED vars
  BY <1>6 DEF vars, sems, setup, rings, Still, Waiting, Oldest, Stored, Freeing
<1> QED
  BY <1>3, <1>4, <1>5, <1>6 DEF Next

(* A written cell stays until it is counted.                               *)
LEMMA WrittenStep ==
  ASSUME Accounts, NoBurstPx, Aligned, Written, [Next]_vars
  PROVE  Written'
<1> SUFFICES ASSUME NEW s \in Senders, pc'[s] \in {"advance", "publish"}, NEW r \in Rings,
                    r = Program[s].ring
             PROVE  cell'[r][(Oldest(r)' + Waiting(r)') % MAX] = <<s, i'[s]>>
  BY ProgramTyped DEF Written
<1>1. AlignedAt(r) /\ s \in Procs
  BY DEF Aligned, AlignedAt, Procs
<1>2. CASE WriteCell(s)
  <2>1. i' = i
    BY <1>2 DEF WriteCell
  <2>2. cell'[r][(Oldest(r)' + Waiting(r)') % MAX] = <<s, i[s]>>
    BY <1>1, <1>2, WriteRing DEF Accounts
  <2> QED
    BY <2>1, <2>2
<1>3. CASE AdvanceZ(s)
  <2>1. i' = i /\ pc[s] = "advance"
    BY <1>3 DEF AdvanceZ, Goto
  <2>2. cell[r][(Oldest(r) + Waiting(r)) % MAX] = <<s, i[s]>>
    BY <2>1 DEF Written
  <2>3. cell'[r] = cell[r] /\ Oldest(r)' = Oldest(r) /\ Waiting(r)' = Waiting(r)
    BY <1>1, <1>3, AdvanceRing DEF Accounts
  <2> QED
    BY <2>1, <2>2, <2>3
<1>4. CASE ~WriteCell(s) /\ ~AdvanceZ(s)
  <2>1. pc'[s] = pc[s]
    <3>0. pc \in [Procs -> Locations]
      BY DEF Accounts, TypeOK
    <3>1. CASE \E p \in Procs : Startup(p) \/ Kill(p)
      BY <1>1, <3>0, <3>1, EntryOutside DEF Startup, Kill, CreateSemaphores, AttachSemaphores,
         ClearIndexes, SetSemaphore, SetMutex, Goto
    <3>2. CASE \E t \in Senders : Send(t)
      BY <1>1, <1>4, <3>0, <3>2 DEF Send, Reserve, Lock, Publish, Unlock, Exit, WriteCell,
         AdvanceZ, Goto
    <3>3. CASE \E q \in Receivers : Receive(q)
      BY <1>1, <3>0, <3>3, ProgramAssumption DEF Receive, Enter, PollPriority, PollNormal, Take,
         Display, AdvanceO, Release, Leave, Goto
    <3>4. CASE UNCHANGED vars
      BY <3>4 DEF vars
    <3> QED
      BY <3>1, <3>2, <3>3, <3>4 DEF Next
  <2>2. InCritical(s)
    BY <2>1 DEF InCritical
  <2>3. Still(r) /\ i'[s] = i[s]
    BY <1>1, <2>1, <2>2, Undisturbed
  <2>4. cell[r][(Oldest(r) + Waiting(r)) % MAX] = <<s, i[s]>>
    BY <2>1 DEF Written
  <2> QED
    BY <2>3, <2>4 DEF Still
<1> QED
  BY <1>2, <1>3, <1>4

(* Nobody counts a privileged cell while a receiver is inside.             *)
LEMMA PriorityFirstStep ==
  ASSUME Accounts, NoBurstPx, PriorityFirst, [Next]_vars
  PROVE  PriorityFirst'
<1> SUFFICES ASSUME NEW q \in Receivers,
                    \/ pc'[q] = "poll_normal"
                    \/ pc'[q] \in {"take", "show"} /\ taking'[q] = "normal"
             PROVE  full'["priority"] = 0
  BY DEF PriorityFirst
<1>1. q \in Procs /\ TypeOK
  BY DEF Accounts, Procs
<1>2. CASE pc'[q] = pc[q]
  <2>1. InCritical(q)
    BY <1>2 DEF InCritical
  <2>2. full' = full /\ taking'[q] = taking[q]
    BY <1>1, <1>2, <2>1, Undisturbed
  <2> QED
    BY <1>2, <2>2 DEF PriorityFirst
<1>3. CASE pc'[q] # pc[q]
  <2>1. PollPriority(q) \/ PollNormal(q) \/ Take(q)
    <3>1. CASE \E p \in Procs : Startup(p) \/ Kill(p)
      BY <1>1, <1>3, <3>1, EntryOutside DEF TypeOK, Startup, Kill, CreateSemaphores,
         AttachSemaphores, ClearIndexes, SetSemaphore, SetMutex, Goto
    <3>2. CASE \E s \in Senders : Send(s)
      BY <1>1, <1>3, <3>2, ProgramAssumption DEF TypeOK, Send, Reserve, Lock, Publish, Unlock,
         Exit, WriteCell, AdvanceZ, Goto
    <3>3. CASE \E p \in Receivers : Receive(p)
      BY <1>1, <1>3, <3>3 DEF TypeOK, Receive, Enter, PollPriority, PollNormal, Take, Display,
         AdvanceO, Release, Leave, Goto
    <3>4. ~UNCHANGED vars
      BY <1>3 DEF vars
    <3> QED
      BY <3>1, <3>2, <3>3, <3>4 DEF Next
  <2>2. CASE PollPriority(q)
    BY <1>1, <2>2 DEF PollPriority, Goto, sems, TypeOK
  <2>3. CASE PollNormal(q)
    BY <1>1, <2>3 DEF PollNormal, Goto, sems, TypeOK, PriorityFirst
  <2>4. CASE Take(q)
    BY <1>1, <2>4 DEF Take, Goto, TypeOK, PriorityFirst
  <2> QED
    BY <2>1, <2>2, <2>3, <2>4
<1> QED
  BY <1>2, <1>3

(* The abstract state, written with the names of this module.              *)
Posted == [s \in Senders |-> PostedOf(s)]
Queues == [r \in Rings |-> QueueOf(r)]

(* A sender that counts its cell hands a message over.                     *)
LEMMA PostStep ==
  ASSUME NEW s \in Senders, NEW c \in Rings, c = Program[s].ring, Waiting(c) < MAX,
         Waiting(c) \in Nat,
         Queues' = [Queues EXCEPT ![c] = Append(@, <<s, Posted[s]>>)],
         Posted' = [Posted EXCEPT ![s] = @ + 1], console' = console
  PROVE  Abstract!Post(s)
<1>1. Len(Queues[c]) = Waiting(c)
  <2>1. PICK n \in Nat : n = Waiting(c)
    OBVIOUS
  <2>2. Queues[c] = [k \in 1..n |-> cell[c][(Oldest(c) + k - 1) % MAX]]
    BY <2>1 DEF Queues, QueueOf
  <2>3. Len([k \in 1..n |-> cell[c][(Oldest(c) + k - 1) % MAX]]) = n
    OBVIOUS
  <2> QED
    BY <2>1, <2>2, <2>3
<1>2. [t \in Senders |-> Program[t].ring][s] = c
  OBVIOUS
<1>3. Abstract!Room(c)
  BY <1>1 DEF Abstract!Room, Queues, QueueOf
<1> QED
  BY <1>2, <1>3 DEF Abstract!Post, Queues, QueueOf, Posted

(* A receiver that prints shows the oldest message of a ring.              *)
LEMMA ShowStep ==
  ASSUME NEW c \in Rings, Queues[c] # <<>>,
         c = "normal" => Queues["priority"] = <<>>,
         Queues' = [Queues EXCEPT ![c] = Tail(@)],
         console' = Append(console, Head(Queues[c])), Posted' = Posted
  PROVE  Abstract!Show(c)
BY DEF Abstract!Show, Queues, QueueOf, Posted

(* Nothing has been posted, waits or has been shown.                       *)
LEMMA AbstractInit ==
  ASSUME Init
  PROVE  Abstract!ChatInit
<1>1. \A r \in Rings : Freeing(r) = {} /\ full[r] = 0
  BY DEF Init, Freeing, Procs
<1>2. \A r \in Rings : {q \in Freeing(r) : pc[q] = "show"} = {}
  BY <1>1
<1>3. \A r \in Rings : Waiting(r) = 0
  BY <1>1, <1>2, FS_EmptySet DEF Waiting
<1>4. \A r \in Rings : QueueOf(r) = <<>>
  BY <1>3 DEF QueueOf
<1>5. Posted = [s \in Senders |-> 0]
  BY DEF Init, Posted, PostedOf, Procs
<1>6. Queues = [r \in {"normal", "priority"} |-> <<>>]
  BY <1>4 DEF Queues, Rings
<1> QED
  BY <1>5, <1>6 DEF Init, Abstract!ChatInit, Posted, Queues, QueueOf, Rings

(* Only counting a cell changes how many messages somebody has posted.     *)
LEMMA PostedKept ==
  ASSUME TypeOK, [Next]_vars, \A s \in Senders : ~Publish(s)
  PROVE  Posted' = Posted
<1> SUFFICES ASSUME NEW t \in Senders PROVE PostedOf(t)' = PostedOf(t)
  BY DEF Posted
<1> USE DEF TypeOK, Goto, Procs, PostedOf
<1>1. ASSUME NEW p \in Procs, Startup(p) \/ Kill(p) PROVE PostedOf(t)' = PostedOf(t)
  BY <1>1, EntryOutside DEF Startup, Kill, CreateSemaphores, AttachSemaphores, ClearIndexes,
     SetSemaphore, SetMutex
<1>2. ASSUME NEW s \in Senders, Send(s) PROVE PostedOf(t)' = PostedOf(t)
  BY <1>2 DEF Send, Reserve, Lock, WriteCell, AdvanceZ, Unlock, Exit
<1>3. ASSUME NEW q \in Receivers, Receive(q) PROVE PostedOf(t)' = PostedOf(t)
  BY <1>3, ProgramAssumption DEF Receive, Enter, PollPriority, PollNormal, Take, Display,
     AdvanceO, Release, Leave
<1>4. CASE UNCHANGED vars
  BY <1>4 DEF vars
<1> QED
  BY <1>1, <1>2, <1>3, <1>4 DEF Next

(* Only a receiver that displays prints.                                   *)
LEMMA ConsoleKept ==
  ASSUME [Next]_vars, \A q \in Receivers : ~Display(q)
  PROVE  console' = console
BY DEF Next, Startup, Kill, Send, Receive, CreateSemaphores, AttachSemaphores, ClearIndexes,
   SetSemaphore, SetMutex, Reserve, Lock, WriteCell, AdvanceZ, Publish, Unlock, Exit, Enter,
   PollPriority, PollNormal, Take, AdvanceO, Release, Leave, vars

(* Every step is one of the abstract queue, or does not touch it.          *)
LEMMA AbstractStep ==
  ASSUME Accounts, Accounts', NoBurstPx, Aligned, Written, PriorityFirst, [Next]_vars
  PROVE  \/ \E s \in Senders : Abstract!Post(s)
         \/ \E c \in Rings : Abstract!Show(c)
         \/ Posted' = Posted /\ Queues' = Queues /\ console' = console
<1>1. TypeOK /\ MutexAccounting /\ SlotAccounting /\ pc \in [Procs -> Locations]
  BY DEF Accounts, TypeOK
<1>2. \A h, p \in Procs : InCritical(h) /\ InCritical(p) => h = p
  BY <1>1 DEF MutexAccounting
<1>3. \A r \in Rings : AlignedAt(r)
  BY DEF Aligned, AlignedAt
<1>4. ASSUME NEW s \in Senders, Publish(s) PROVE Abstract!Post(s)
  <2>1. PICK c \in Rings : c = Program[s].ring
    BY ProgramTyped
  <2>2. \A t \in Senders : Publish(t) => t = s
    BY <1>2, <1>4 DEF Publish, Goto, InCritical, Procs
  <2>3. \A q \in Receivers : ~Display(q)
    BY <1>2, <1>4, ProgramAssumption DEF Publish, Display, Goto, InCritical, Procs
  <2>4. /\ Waiting(c) < MAX /\ QueueOf(c)' = Append(QueueOf(c), <<s, i[s]>>)
        /\ Waiting(c) \in Nat
    BY <1>1, <1>3, <1>4, <2>1, PublishRing, RingBounds
  <2>5. \A r \in Rings : r # c => QueueOf(r)' = QueueOf(r)
    BY <2>1, <2>2, <2>3, RingStep
  <2>6. Posted' = [Posted EXCEPT ![s] = @ + 1] /\ Posted[s] = i[s]
    BY <1>1, <1>4 DEF Publish, Goto, Posted, PostedOf, Procs
  <2>7. Queues' = [Queues EXCEPT ![c] = Append(@, <<s, Posted[s]>>)]
    BY <2>4, <2>5, <2>6 DEF Queues
  <2>8. console' = console
    BY <2>3, ConsoleKept
  <2> QED
    BY <2>1, <2>4, <2>6, <2>7, <2>8, PostStep
<1>5. ASSUME NEW q \in Receivers, Display(q) PROVE \E c \in Rings : Abstract!Show(c)
  <2>1. PICK c \in Rings : c = taking[q]
    BY <1>1 DEF TypeOK
  <2>2. \A p \in Receivers : Display(p) => p = q
    BY <1>2, <1>5 DEF Display, Goto, InCritical, Procs
  <2>3. \A s \in Senders : ~Publish(s)
    BY <1>2, <1>5, ProgramAssumption DEF Publish, Display, Goto, InCritical, Procs
  <2>4. /\ QueueOf(c) # <<>> /\ QueueOf(c)' = Tail(QueueOf(c))
        /\ console' = Append(console, Head(QueueOf(c)))
    BY <1>3, <1>5, <2>1, DisplayRing DEF Accounts
  <2>5. \A r \in Rings : r # c => QueueOf(r)' = QueueOf(r)
    BY <2>1, <2>2, <2>3, RingStep
  <2>6. Queues' = [Queues EXCEPT ![c] = Tail(@)]
    BY <2>4, <2>5 DEF Queues
  <2>7. Queues[c] # <<>> /\ console' = Append(console, Head(Queues[c]))
    BY <2>4 DEF Queues
  <2>8. c = "normal" => Queues["priority"] = <<>>
    <3> SUFFICES ASSUME c = "normal" PROVE QueueOf("priority") = <<>>
      BY DEF Queues, Rings
    <3>1. "priority" \in Rings /\ full["priority"] = 0
      BY <1>5, <2>1 DEF Display, Goto, PriorityFirst, Rings
    <3>2. Showing("priority") = {}
      BY <1>2, <1>5, <2>1 DEF Display, Goto, Showing, Freeing, InCritical, Procs
    <3>3. Waiting("priority") = 0
      BY <1>1, <3>1, <3>2, WaitingIs
    <3> QED
      BY <3>3 DEF QueueOf
  <2>9. Posted' = Posted
    BY <1>1, <2>3, PostedKept
  <2> QED
    BY <2>6, <2>7, <2>8, <2>9, ShowStep
<1>6. CASE (\A s \in Senders : ~Publish(s)) /\ (\A q \in Receivers : ~Display(q))
  <2>1. \A r \in Rings : QueueOf(r)' = QueueOf(r)
    BY <1>6, RingStep
  <2>2. Queues' = Queues
    BY <2>1 DEF Queues
  <2> QED
    BY <1>1, <1>6, <2>2, PostedKept, ConsoleKept
<1> QED
  BY <1>4, <1>5, <1>6

(* The rings, the semaphores and the processes implement two bounded FIFO  *)
(* queues of which the privileged one is served first, for any number of   *)
(* processes and cells and with kills at any point: no message is lost,    *)
(* shown twice, overwritten, shown out of its order or shown before a      *)
(* privileged one that waits.  No sender may run burstpx.                  *)
THEOREM ChatRefinesPriorityChat ==
  ASSUME NoBurstPx
  PROVE  Spec => ImplementsPriorityChat
<1> DEFINE RingInv == Aligned /\ Written /\ PriorityFirst
<1>1. Init => Abstract!ChatInit
  BY AbstractInit
<1>2. Init => RingInv
  <2> SUFFICES ASSUME Init PROVE RingInv
    OBVIOUS
  <2>1. \A p \in Procs : pc[p] = "start"
    BY DEF Init
  <2>2. ASSUME NEW r \in Rings PROVE AlignedAt(r)
    <3>1. Freeing(r) = {} /\ Stored(r) = {} /\ Passing(r) = {}
      BY <2>1 DEF Freeing, Stored, Passing, Procs
    <3>2. {q \in Freeing(r) : pc[q] = "show"} = {}
      BY <3>1
    <3>3. full[r] = 0 /\ indexO[r] = 0 /\ indexZ[r] = 0
      BY DEF Init
    <3>4. Waiting(r) = 0 /\ Oldest(r) = 0
      BY <3>1, <3>2, <3>3, FS_EmptySet, OldestIs DEF Waiting
    <3>5. (0 + 0 + 0) % MAX = 0
      BY BoundAssumption
    <3> QED
      BY <3>1, <3>3, <3>4, <3>5 DEF AlignedAt
  <2>3. Aligned
    BY <2>2 DEF Aligned, AlignedAt
  <2> QED
    BY <2>1, <2>3 DEF Written, PriorityFirst, Procs
<1>3. Accounts /\ Accounts' /\ RingInv /\ [Next]_vars => RingInv'
  <2> SUFFICES ASSUME Accounts, Accounts', RingInv, [Next]_vars PROVE RingInv'
    OBVIOUS
  <2>1. \A r \in Rings : AlignedAt(r)'
    BY RingStep
  <2>2. Aligned'
    BY <2>1 DEF Aligned, AlignedAt
  <2> QED
    BY <2>2, WrittenStep, PriorityFirstStep
<1>4. Accounts /\ Accounts' /\ RingInv /\ [Next]_vars => [Abstract!ChatNext]_(Abstract!chatVars)
  <2> SUFFICES ASSUME Accounts, Accounts', RingInv, [Next]_vars
               PROVE  [Abstract!ChatNext]_(Abstract!chatVars)
    OBVIOUS
  <2>1. CASE \E s \in Senders : Abstract!Post(s)
    BY <2>1 DEF Abstract!ChatNext
  <2>2. CASE \E c \in Rings : Abstract!Show(c)
    BY <2>2 DEF Abstract!ChatNext, Rings
  <2>3. CASE Posted' = Posted /\ Queues' = Queues /\ console' = console
    BY <2>3 DEF Abstract!chatVars, Posted, Queues, QueueOf
  <2> QED
    BY <2>1, <2>2, <2>3, AbstractStep
<1>5. Spec => []Accounts
  BY ChatTyped, ChatMutex, ChatSlots, ChatNothingReady, PTL DEF Accounts
<1> HIDE DEF RingInv
<1> QED
  BY <1>1, <1>2, <1>3, <1>4, <1>5, PTL DEF Spec, ImplementsPriorityChat, Abstract!ChatSpec
=============================================================================
