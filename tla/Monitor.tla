------------------------------- MODULE Monitor -------------------------------
(***************************************************************************)
(* The monitor of soi4/monitor.hpp on its own, for any client: a binary    *)
(* semaphore s guards the monitor, every condition has a semaphore w that  *)
(* starts at 0 and a plain counter of waiting threads.  A signaller does   *)
(* not release s: it hands the monitor over through w and queues for s     *)
(* again.  The threads call enter, wait, signal and leave in any order a   *)
(* client that pairs enter with leave can.                                 *)
(***************************************************************************)
EXTENDS Naturals, FiniteSets

CONSTANTS
  Threads,     (* the threads that use the monitor                         *)
  Conditions   (* the condition variables of the monitor                   *)

ASSUME ThreadsFinite == IsFiniteSet(Threads)

VARIABLES
  s,             (* the semaphore of the monitor                           *)
  w,             (* w[c]: the semaphore of condition c                     *)
  waitingCount,  (* waitingCount[c]: the counter of condition c            *)
  at,            (* at[t]: how thread t stands to the monitor              *)
  on             (* on[t]: the condition t waited on last                  *)

monitorVars == <<s, w, waitingCount, at, on>>

MonitorInit ==
  /\ s = 1
  /\ w = [c \in Conditions |-> 0]
  /\ waitingCount = [c \in Conditions |-> 0]
  /\ at = [t \in Threads |-> "outside"]
  /\ on \in [Threads -> Conditions]

Move(t, from, to) ==
  /\ at[t] = from
  /\ at' = [at EXCEPT ![t] = to]

(* enter(): s.p()                                                          *)
Enter(t) ==
  /\ s > 0
  /\ Move(t, "outside", "inside")
  /\ s' = s - 1
  /\ UNCHANGED <<w, waitingCount, on>>

(* leave(): s.v()                                                          *)
Leave(t) ==
  /\ Move(t, "inside", "outside")
  /\ s' = s + 1
  /\ UNCHANGED <<w, waitingCount, on>>

(* wait(c), first line: ++c.waitingCount, still inside                     *)
CountIn(t, c) ==
  /\ Move(t, "inside", "yielding")
  /\ waitingCount' = [waitingCount EXCEPT ![c] = @ + 1]
  /\ on' = [on EXCEPT ![t] = c]
  /\ UNCHANGED <<s, w>>

(* wait(c), second line: leave()                                           *)
Yield(t) ==
  /\ Move(t, "yielding", "blocked")
  /\ s' = s + 1
  /\ UNCHANGED <<w, waitingCount, on>>

(* wait(c), last line: c.w.p() returns and t is inside without having      *)
(* decreased s.                                                            *)
Wake(t) ==
  /\ w[on[t]] > 0
  /\ Move(t, "blocked", "inside")
  /\ w' = [w EXCEPT ![on[t]] = @ - 1]
  /\ UNCHANGED <<s, waitingCount, on>>

(* Mutation of Signal: the signaller stays inside.                         *)
Signal_StaysInside(t, c) ==
  /\ waitingCount[c] > 0
  /\ Move(t, "inside", "inside")
  /\ waitingCount' = [waitingCount EXCEPT ![c] = @ - 1]
  /\ w' = [w EXCEPT ![c] = @ + 1]
  /\ UNCHANGED <<s, on>>

(* Mutation of Signal: the counter is not decreased.                       *)
Signal_KeepsCount(t, c) ==
  /\ waitingCount[c] > 0
  /\ Move(t, "inside", "reentering")
  /\ w' = [w EXCEPT ![c] = @ + 1]
  /\ UNCHANGED <<s, waitingCount, on>>

(* signal(c) with a waiting thread: the counter goes down, w goes up, and  *)
(* the signaller has to enter again.  Without one it does nothing.         *)
Signal(t, c) ==
  /\ waitingCount[c] > 0
  /\ Move(t, "inside", "reentering")
  /\ waitingCount' = [waitingCount EXCEPT ![c] = @ - 1]
  /\ w' = [w EXCEPT ![c] = @ + 1]
  /\ UNCHANGED <<s, on>>

(* The enter() of signal().                                                *)
Reenter(t) ==
  /\ s > 0
  /\ Move(t, "reentering", "inside")
  /\ s' = s - 1
  /\ UNCHANGED <<w, waitingCount, on>>

MonitorNext ==
  \E t \in Threads :
    \/ Enter(t) \/ Leave(t) \/ Yield(t) \/ Wake(t) \/ Reenter(t)
    \/ \E c \in Conditions : CountIn(t, c) \/ Signal(t, c)

MonitorSpec == MonitorInit /\ [][MonitorNext]_monitorVars

-----------------------------------------------------------------------------
Places == {"outside", "inside", "yielding", "blocked", "reentering"}

(* Every variable has its type.                                            *)
MonitorTypeOK ==
  /\ s \in Nat
  /\ w \in [Conditions -> Nat]
  /\ waitingCount \in [Conditions -> Nat]
  /\ at \in [Threads -> Places]
  /\ on \in [Threads -> Conditions]

(* t executes code between enter() and leave().                            *)
Holds(t) == at[t] \in {"inside", "yielding"}

(* The monitor is one token: it is in s, in the w of one condition, or     *)
(* held by one thread, and in exactly one of these places.  Both the       *)
(* mutual exclusion and the absence of a lost hand-over follow.            *)
OneToken ==
  /\ \A t, u \in Threads : Holds(t) /\ Holds(u) => t = u
  /\ s \in {0, 1}
  /\ s = 1 => /\ \A t \in Threads : ~Holds(t)
              /\ \A c \in Conditions : w[c] = 0
  /\ \A c \in Conditions :
       /\ w[c] \in {0, 1}
       /\ w[c] = 1 => /\ \A t \in Threads : ~Holds(t)
                      /\ \A d \in Conditions : w[d] = 1 => d = c
  /\ s = 1 \/ (\E c \in Conditions : w[c] = 1) \/ (\E t \in Threads : Holds(t))

(* The threads inside wait(c), from ++waitingCount to the return of w.p(). *)
Waiters(c) == {t \in Threads : at[t] \in {"yielding", "blocked"} /\ on[t] = c}

(* The counter and the semaphore of a condition together count exactly the *)
(* threads inside wait(c): a hand-over always has a thread to take it, and *)
(* a thread that waits is either counted or about to be woken.             *)
WaitersCounted ==
  \A c \in Conditions : waitingCount[c] + w[c] = Cardinality(Waiters(c))

(* A token in w[c] can be taken: some thread is inside w.p() of c.         *)
HandOverClaimable ==
  \A c \in Conditions :
    w[c] > 0 => \E t \in Threads : at[t] = "blocked" /\ on[t] = c
=============================================================================
