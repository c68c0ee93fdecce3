-------------------------------- MODULE Chat --------------------------------
(***************************************************************************)
(* The chat service of soi3/: sender programs (tx, spamtx, bursttx, px,    *)
(* spampx, burstpx) and receiver programs (rx) that share two ring buffers *)
(* in System V shared memory and one set of five System V semaphores.      *)
(*                                                                         *)
(* One action is one access to the shared state: one semop, one GETVAL or  *)
(* SETVAL, or one load/store of a ring cell or ring index.  The five       *)
(* semaphores are free["normal"] (0), full["normal"] (1),                  *)
(* free["priority"] (2), full["priority"] (3) and mutex (4).               *)
(*                                                                         *)
(* A process can be killed at any point; the semops are made without       *)
(* SEM_UNDO, so a killed process leaves the semaphores as they were.       *)
(***************************************************************************)
EXTENDS Integers, Sequences, FiniteSets

CONSTANTS
  Senders,      (* the sender processes                                    *)
  Receivers,    (* the receiver processes                                  *)
  Program,      (* Program[s]: the program that sender s runs              *)
  MAX,          (* cells of one ring                                       *)
  MaxSends,     (* bound: messages of one sender                           *)
  MaxKills      (* bound: processes killed                                 *)

Procs == Senders \cup Receivers

Rings == {"normal", "priority"}

-----------------------------------------------------------------------------
(* The sender programs differ in the pair of semaphores they use, the      *)
(* shared-memory segment they attach as the ring they write, and the       *)
(* number of messages they send.                                           *)

Tx      == [ring |-> "normal",   segment |-> "normal",   sends |-> 5]
SpamTx  == [ring |-> "normal",   segment |-> "normal",   sends |-> 5]
BurstTx == [ring |-> "normal",   segment |-> "normal",   sends |-> 500]
Px      == [ring |-> "priority", segment |-> "priority", sends |-> 10]
SpamPx  == [ring |-> "priority", segment |-> "priority", sends |-> 10]
BurstPx == [ring |-> "priority", segment |-> "normal",   sends |-> 500]

Programs == {Tx, SpamTx, BurstTx, Px, SpamPx, BurstPx}

ASSUME ProgramAssumption ==
  /\ Program \in [Senders -> Programs]
  /\ Senders \cap Receivers = {}
  /\ IsFiniteSet(Procs)

ASSUME BoundAssumption ==
  /\ MAX \in Nat \ {0}
  /\ MaxSends \in Nat
  /\ MaxKills \in Nat

(* How many messages the run of sender s sends, cut at the bound.          *)
Sends(s) == IF Program[s].sends < MaxSends THEN Program[s].sends ELSE MaxSends

Messages == Senders \X Nat

(* A fresh shared-memory segment is filled with zeros.                     *)
Zero == <<>>

-----------------------------------------------------------------------------
VARIABLES
  free,       (* semaphores 0 and 2: free cells of each ring               *)
  full,       (* semaphores 1 and 3: cells of each ring ready to be read   *)
  mutex,      (* semaphore 4                                               *)
  creator,    (* the processes whose exclusive semget made the set: {p}    *)
  stage,      (* how far the creator's initialisation has come, 0..6       *)
  cell,       (* cell[r][k]: the word at index k of segment r              *)
  indexZ,     (* indexZ[r]: the write index, stored behind the cells       *)
  indexO,     (* indexO[r]: the read index, stored behind the cells        *)
  pc,         (* where each process is                                     *)
  i,          (* i[s]: the loop counter of sender s                        *)
  taking,     (* taking[q]: the ring whose branch receiver q has entered   *)
  console,    (* what the receivers have printed                           *)
  alive       (* the processes that have not been killed                   *)

sems  == <<free, full, mutex>>
setup == <<creator, stage>>
rings == <<cell, indexZ, indexO>>
vars  == <<sems, setup, rings, pc, i, taking, console, alive>>

Goto(p, from, to) ==
  /\ p \in alive
  /\ pc[p] = from
  /\ pc' = [pc EXCEPT ![p] = to]

(* Where the loop of p begins: the head of its while or for.               *)
Entry(p) == IF p \in Receivers THEN "enter" ELSE "reserve"

Init ==
  /\ free = [r \in Rings |-> 0]
  /\ full = [r \in Rings |-> 0]
  /\ mutex = 0
  /\ creator = {}
  /\ stage = 0
  /\ cell = [r \in Rings |-> [k \in 0..MAX-1 |-> Zero]]
  /\ indexZ = [r \in Rings |-> 0]
  /\ indexO = [r \in Rings |-> 0]
  /\ pc = [p \in Procs |-> "start"]
  /\ i = [s \in Senders |-> 0]
  /\ taking = [q \in Receivers |-> "normal"]
  /\ console = <<>>
  /\ alive = Procs

-----------------------------------------------------------------------------
(* Start of every program.                                                 *)

(* semget(IPC_CREAT|IPC_EXCL) succeeds: p has made the set, all zero.      *)
CreateSemaphores(p) ==
  /\ creator = {}
  /\ Goto(p, "start", "setup")
  /\ creator' = {p}
  /\ UNCHANGED <<sems, stage, rings, i, taking, console, alive>>

(* It fails because the set exists: p goes straight to its loop.           *)
AttachSemaphores(p) ==
  /\ creator # {}
  /\ Goto(p, "start", Entry(p))
  /\ UNCHANGED <<sems, setup, rings, i, taking, console, alive>>

(* The segment p has attached under the name buf_pri.                      *)
BufPri(p) ==
  IF p \in Senders /\ Program[p] = BurstPx THEN "normal" ELSE "priority"

(* The creator clears the four indices.                                    *)
ClearIndexes(p) ==
  /\ stage = 0
  /\ Goto(p, "setup", "setup")
  /\ indexZ' = [r \in Rings |-> IF r \in {"normal", BufPri(p)} THEN 0 ELSE indexZ[r]]
  /\ indexO' = [r \in Rings |-> IF r \in {"normal", BufPri(p)} THEN 0 ELSE indexO[r]]
  /\ stage' = 1
  /\ UNCHANGED <<sems, creator, cell, i, taking, console, alive>>

(* Then it gives the semaphores their values, one SETVAL at a time.        *)
SetSemaphore(p) ==
  /\ stage \in 1..4
  /\ Goto(p, "setup", "setup")
  /\ \/ stage = 1 /\ free' = [free EXCEPT !["normal"] = MAX] /\ UNCHANGED full
     \/ stage = 2 /\ full' = [full EXCEPT !["normal"] = 0] /\ UNCHANGED free
     \/ stage = 3 /\ free' = [free EXCEPT !["priority"] = MAX] /\ UNCHANGED full
     \/ stage = 4 /\ full' = [full EXCEPT !["priority"] = 0] /\ UNCHANGED free
  /\ stage' = stage + 1
  /\ UNCHANGED <<mutex, creator, rings, i, taking, console, alive>>

(* The last SETVAL opens the critical section for everybody.               *)
SetMutex(p) ==
  /\ stage = 5
  /\ Goto(p, "setup", Entry(p))
  /\ mutex' = 1
  /\ stage' = 6
  /\ UNCHANGED <<free, full, creator, rings, i, taking, console, alive>>

-----------------------------------------------------------------------------
(* The loop of a sender.                                                   *)

(* decrease(semid, 0) or decrease(semid, 2): wait for a free cell.         *)
Reserve(s) ==
  LET r == Program[s].ring
  IN  /\ i[s] < Sends(s)
      /\ free[r] > 0
      /\ Goto(s, "reserve", "lock")
      /\ free' = [free EXCEPT ![r] = @ - 1]
      /\ UNCHANGED <<full, mutex, setup, rings, i, taking, console, alive>>

(* decrease(semid, 4)                                                      *)
Lock(s) ==
  /\ mutex > 0
  /\ Goto(s, "lock", "write")
  /\ mutex' = mutex - 1
  /\ UNCHANGED <<free, full, setup, rings, i, taking, console, alive>>

(* buf[indexZ] = arg                                                       *)
WriteCell(s) ==
  LET r == Program[s].segment
  IN  /\ Goto(s, "write", "advance")
      /\ cell' = [cell EXCEPT ![r][indexZ[r]] = <<s, i[s]>>]
      /\ UNCHANGED <<sems, setup, indexZ, indexO, i, taking, console, alive>>

(* Mutation of AdvanceZ: the index is not wrapped.                         *)
AdvanceZ_NoWrap(s) ==
  LET r == Program[s].segment
  IN  /\ Goto(s, "advance", "publish")
      /\ indexZ' = [indexZ EXCEPT ![r] = @ + 1]
      /\ UNCHANGED <<sems, setup, cell, indexO, i, taking, console, alive>>

(* indexZ = (indexZ+1)%MAX                                                 *)
AdvanceZ(s) ==
  LET r == Program[s].segment
  IN  /\ Goto(s, "advance", "publish")
      /\ indexZ' = [indexZ EXCEPT ![r] = (@ + 1) % MAX]
      /\ UNCHANGED <<sems, setup, cell, indexO, i, taking, console, alive>>

(* increase(semid, 1) or increase(semid, 3)                                *)
Publish(s) ==
  LET r == Program[s].ring
  IN  /\ Goto(s, "publish", "unlock")
      /\ full' = [full EXCEPT ![r] = @ + 1]
      /\ UNCHANGED <<free, mutex, setup, rings, i, taking, console, alive>>

(* increase(semid, 4), and the next turn of the loop                       *)
Unlock(s) ==
  /\ Goto(s, "unlock", "reserve")
  /\ mutex' = mutex + 1
  /\ i' = [i EXCEPT ![s] = @ + 1]
  /\ UNCHANGED <<free, full, setup, rings, taking, console, alive>>

(* The loop is over and main returns.                                      *)
Exit(s) ==
  /\ i[s] = Sends(s)
  /\ Goto(s, "reserve", "done")
  /\ UNCHANGED <<sems, setup, rings, i, taking, console, alive>>

-----------------------------------------------------------------------------
(* The loop of a receiver.                                                 *)

(* Mutation of Enter: the receiver does not wait for semaphore 4.          *)
Enter_NoWait(q) ==
  /\ Goto(q, "enter", "poll_priority")
  /\ mutex' = IF mutex > 0 THEN mutex - 1 ELSE 0
  /\ UNCHANGED <<free, full, setup, rings, i, taking, console, alive>>

(* decrease(semid, 4)                                                      *)
Enter(q) ==
  /\ mutex > 0
  /\ Goto(q, "enter", "poll_priority")
  /\ mutex' = mutex - 1
  /\ UNCHANGED <<free, full, setup, rings, i, taking, console, alive>>

(* Mutation of PollPriority: the normal ring is asked first.               *)
PollPriority_NormalFirst(q) ==
  /\ Goto(q, "poll_priority",
          IF full["normal"] # 0 \/ full["priority"] # 0 THEN "take" ELSE "poll_normal")
  /\ taking' = [taking EXCEPT ![q] = IF full["normal"] # 0 THEN "normal" ELSE "priority"]
  /\ UNCHANGED <<sems, setup, rings, i, console, alive>>

(* semctl(semid, 3, GETVAL) != 0                                           *)
PollPriority(q) ==
  /\ Goto(q, "poll_priority", IF full["priority"] # 0 THEN "take" ELSE "poll_normal")
  /\ taking' = [taking EXCEPT ![q] = IF full["priority"] # 0 THEN "priority" ELSE @]
  /\ UNCHANGED <<sems, setup, rings, i, console, alive>>

(* Mutation of PollNormal: no increase(semid, 4) when both rings are empty. *)
PollNormal_NoLeave(q) ==
  /\ Goto(q, "poll_normal", IF full["normal"] # 0 THEN "take" ELSE "enter")
  /\ taking' = [taking EXCEPT ![q] = "normal"]
  /\ UNCHANGED <<sems, setup, rings, i, console, alive>>

(* semctl(semid, 1, GETVAL) != 0; otherwise "Brak wiadomosci"              *)
PollNormal(q) ==
  /\ Goto(q, "poll_normal", IF full["normal"] # 0 THEN "take" ELSE "leave")
  /\ taking' = [taking EXCEPT ![q] = "normal"]
  /\ UNCHANGED <<sems, setup, rings, i, console, alive>>

(* decrease(semid, 3) or decrease(semid, 1), inside the critical section   *)
Take(q) ==
  LET r == taking[q]
  IN  /\ full[r] > 0
      /\ Goto(q, "take", "show")
      /\ full' = [full EXCEPT ![r] = @ - 1]
      /\ UNCHANGED <<free, mutex, setup, rings, i, taking, console, alive>>

(* printf(" %5d\n", buf[indexO])                                           *)
Display(q) ==
  LET r == taking[q]
  IN  /\ Goto(q, "show", "pass")
      /\ console' = Append(console, cell[r][indexO[r]])
      /\ UNCHANGED <<sems, setup, rings, i, taking, alive>>

(* indexO = (indexO+1)%MAX                                                 *)
AdvanceO(q) ==
  LET r == taking[q]
  IN  /\ Goto(q, "pass", "release")
      /\ indexO' = [indexO EXCEPT ![r] = (@ + 1) % MAX]
      /\ UNCHANGED <<sems, setup, cell, indexZ, i, taking, console, alive>>

(* Mutation of Release: the cell is given back to the wrong semaphore.     *)
Release_WrongRing(q) ==
  /\ Goto(q, "release", "leave")
  /\ free' = [free EXCEPT !["normal"] = @ + 1]
  /\ UNCHANGED <<full, mutex, setup, rings, i, taking, console, alive>>

(* increase(semid, 2) or increase(semid, 0)                                *)
Release(q) ==
  LET r == taking[q]
  IN  /\ Goto(q, "release", "leave")
      /\ free' = [free EXCEPT ![r] = @ + 1]
      /\ UNCHANGED <<full, mutex, setup, rings, i, taking, console, alive>>

(* increase(semid, 4), sleep(1) and the next turn of the loop              *)
Leave(q) ==
  /\ Goto(q, "leave", "enter")
  /\ mutex' = mutex + 1
  /\ UNCHANGED <<free, full, setup, rings, i, taking, console, alive>>

-----------------------------------------------------------------------------
(* A process is killed (Ctrl-C, kill, a failed call): nothing is undone.   *)
Kill(p) ==
  /\ p \in alive
  /\ Cardinality(Procs \ alive) < MaxKills
  /\ alive' = alive \ {p}
  /\ UNCHANGED <<sems, setup, rings, pc, i, taking, console>>

Startup(p) ==
  \/ CreateSemaphores(p)
  \/ AttachSemaphores(p)
  \/ ClearIndexes(p)
  \/ SetSemaphore(p)
  \/ SetMutex(p)

Send(s) ==
  \/ Reserve(s)
  \/ Lock(s)
  \/ WriteCell(s)
  \/ AdvanceZ(s)
  \/ Publish(s)
  \/ Unlock(s)
  \/ Exit(s)

Receive(q) ==
  \/ Enter(q)
  \/ PollPriority(q)
  \/ PollNormal(q)
  \/ Take(q)
  \/ Display(q)
  \/ AdvanceO(q)
  \/ Release(q)
  \/ Leave(q)

Next ==
  \/ \E p \in Procs : Startup(p) \/ Kill(p)
  \/ \E s \in Senders : Send(s)
  \/ \E q \in Receivers : Receive(q)

Spec == Init /\ [][Next]_vars

(* A runnable process runs.  A process blocked in semop sleeps in the      *)
(* kernel's FIFO queue of the semaphore set, so one that could decrease a  *)
(* semaphore again and again is served: the blocking steps are strongly    *)
(* fair, the others only need weak fairness, which strong fairness of the  *)
(* whole loop subsumes.                                                    *)
Fairness ==
  /\ \A p \in Procs : WF_vars(Startup(p))
  /\ \A s \in Senders : SF_vars(Send(s))
  /\ \A q \in Receivers : SF_vars(Receive(q))

FairSpec == Spec /\ Fairness

-----------------------------------------------------------------------------
(* Properties.                                                             *)

Locations ==
  {"start", "setup", "reserve", "lock", "write", "advance", "publish", "unlock",
   "done", "enter", "poll_priority", "poll_normal", "take", "show", "pass",
   "release", "leave"}

(* Every variable has its type; the semaphores are never negative.         *)
TypeOK ==
  /\ free \in [Rings -> Nat]
  /\ full \in [Rings -> Nat]
  /\ mutex \in Nat
  /\ creator \in SUBSET Procs
  /\ stage \in 0..6
  /\ cell \in [Rings -> [0..MAX-1 -> Messages \cup {Zero}]]
  /\ indexZ \in [Rings -> 0..MAX-1]
  /\ indexO \in [Rings -> 0..MAX-1]
  /\ pc \in [Procs -> Locations]
  /\ i \in [Senders -> Nat]
  /\ taking \in [Receivers -> Rings]
  /\ console \in Seq(Messages \cup {Zero})
  /\ alive \in SUBSET Procs

(* p has decreased semaphore 4 and not yet increased it again.             *)
InCritical(p) ==
  pc[p] \in {"write", "advance", "publish", "unlock", "poll_priority",
            "poll_normal", "take", "show", "pass", "release", "leave"}

(* "tylko jeden proces moze edytowac dowolny z buforow": the processes     *)
(* between decrease(semid, 4) and increase(semid, 4) number at most one,   *)
(* dead ones included, none before the creator has set semaphore 4, and    *)
(* the semaphore is 1 exactly when it is set and nobody is inside.         *)
MutexAccounting ==
  /\ \A p, q \in Procs : InCritical(p) /\ InCritical(q) => p = q
  /\ stage < 6 => \A p \in Procs : ~InCritical(p)
  /\ mutex = IF stage = 6 /\ \A p \in Procs : ~InCritical(p) THEN 1 ELSE 0

(* Senders that have decreased the free-cell semaphore of r and not yet    *)
(* increased the full-cell semaphore.                                      *)
Reserving(r) ==
  {s \in Senders : Program[s].ring = r /\ pc[s] \in {"lock", "write", "advance", "publish"}}

(* Receivers that have decreased the full-cell semaphore of r and not yet  *)
(* increased the free-cell semaphore.                                      *)
Freeing(r) ==
  {q \in Receivers : taking[q] = r /\ pc[q] \in {"show", "pass", "release"}}

(* The creator has given both semaphores of ring r their first values.     *)
IsSet(r) == IF r = "normal" THEN stage >= 2 ELSE stage >= 4

(* Every cell of a ring is free, full, reserved by one sender or being     *)
(* freed by one receiver: no interleaving of the senders, the receivers    *)
(* and the creator's five SETVALs loses a cell or counts one twice.        *)
SlotAccounting ==
  \A r \in Rings :
    free[r] + full[r] + Cardinality(Reserving(r)) + Cardinality(Freeing(r))
      = IF IsSet(r) THEN MAX ELSE 0

(* The receiver decreases a full-cell semaphore while it holds semaphore   *)
(* 4, relying on the value GETVAL gave it earlier: if it ever slept there, *)
(* no sender could enter to wake it and the whole service would stop.      *)
TakeNeverBlocks ==
  \A q \in Receivers : pc[q] = "take" => full[taking[q]] > 0

-----------------------------------------------------------------------------
(* The refinement of PriorityChat.  A message joins its queue when the     *)
(* sender increases the full-cell semaphore, and leaves it when it is      *)
(* printed.                                                                *)

Waiting(r) ==
  full[r] + Cardinality({q \in Freeing(r) : pc[q] = "show"})

Oldest(r) ==
  IF \E q \in Freeing(r) : pc[q] = "pass" THEN indexO[r] + 1 ELSE indexO[r]

PostedOf(s) == IF pc[s] = "unlock" THEN i[s] + 1 ELSE i[s]

Abstract == INSTANCE PriorityChat WITH
  Class    <- [s \in Senders |-> Program[s].ring],
  Shared   <- FALSE,
  Capacity <- MAX,
  posted   <- [s \in Senders |-> PostedOf(s)],
  queue    <- [r \in Rings |->
                 [k \in 1..Waiting(r) |-> cell[r][(Oldest(r) + k - 1) % MAX]]]

(* The rings, semaphores and processes implement two bounded FIFO queues   *)
(* with a privileged one: nothing is lost, shown twice, overwritten in a   *)
(* full ring or shown out of order, and no normal message is shown while a *)
(* privileged one waits ("system faktycznie obsluguje wiadomosci           *)
(* uwzgledniajac priorytety").  Holds when no sender runs burstpx.         *)
ImplementsPriorityChat == Abstract!ChatSpec

(* "Wysylaja one wyprodukowane wiadomosci do bufora priorytetowego": what  *)
(* a program that waits on the priority semaphores writes lands in the     *)
(* priority segment.                                                       *)
PriorityMessagesInPriorityBuffer ==
  \A k \in 0..MAX-1 :
    cell["normal"][k] # Zero => Program[cell["normal"][k][1]].ring = "normal"

-----------------------------------------------------------------------------
(* Progress and death.                                                     *)

Shown(s) ==
  \A k \in 0..Sends(s)-1 : \E n \in 1..Len(console) : console[n] = <<s, k>>

(* Under FairSpec and without kills, every message of every sender is      *)
(* printed sooner or later: the order "free cell first, then the critical  *)
(* section" leaves no circular wait, even with more senders than cells.    *)
AllShown == <>(\A s \in Senders : Shown(s))

(* A process that dies here holds nothing: no cell and not semaphore 4,    *)
(* and it is not in the middle of creating the set.                        *)
HoldsNothing(p) == pc[p] \in {"start", "reserve", "done", "enter"}

(* A death outside those sections hurts nobody else: as long as a receiver *)
(* lives, the messages of the senders that live are all shown.             *)
SurvivorsServed ==
  [](/\ \A p \in Procs \ alive : HoldsNothing(p)
     /\ Receivers \cap alive # {})
    => <>[](\A s \in Senders \cap alive : Shown(s))

(* A death inside the critical section is never repaired (no SEM_UNDO),    *)
(* but it freezes the service, it does not corrupt it: no cell, index or   *)
(* full-cell count changes and nothing is printed any more.                *)
DeathInsideFreezes ==
  [][(\E p \in Procs \ alive : InCritical(p))
       => UNCHANGED <<rings, full, mutex, console>>]_vars

=============================================================================
