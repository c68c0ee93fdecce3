---------------------------- MODULE BufferProofs ----------------------------
(***************************************************************************)
(* Theorems about module MessageBuffer, for every number of threads,       *)
(* cells and messages: the threads of soi4/main.cpp use the monitor as     *)
(* module Monitor lets a client use it, what a thread waited for holds     *)
(* when it goes on, although the code tests it with an if, no signal that  *)
(* a thread needs is missed, the list behind head is exact, and as long as *)
(* no push_pri goes behind tail all of it implements module PriorityChat.  *)
(***************************************************************************)
EXTENDS MessageBuffer, MonitorProofs, ListLemmas, SequenceTheorems

(* Every step of a thread of the buffer is a step of the monitor or leaves *)
(* the monitor alone.                                                      *)
THEOREM BufferUsesMonitor == Spec => MonitorSpec
<1>1. Init => MonitorInit
  BY ThreadsAssumption DEF Init
<1>2. [Next]_vars => [MonitorNext]_monitorVars
  <2> SUFFICES ASSUME [Next]_vars PROVE MonitorNext \/ UNCHANGED monitorVars
    OBVIOUS
  <2>1. ASSUME NEW t \in Threads, Step(t)
        PROVE  MonitorNext \/ UNCHANGED monitorVars
    <3>1. CASE CallEnter(t) \/ CallLeave(t) \/ WaitYield(t) \/ WaitWake(t) \/ SignalReenter(t)
      BY <3>1 DEF CallEnter, CallLeave, WaitYield, WaitWake, SignalReenter, MonitorNext
    <3>2. CASE CheckWait(t)
      <4>1. WaitsOn(t) \in Conditions
        BY ThreadsAssumption DEF WaitsOn
      <4> QED
        BY <3>2, <4>1 DEF CheckWait, MonitorNext
    <3>3. CASE SignalWaiter(t)
      <4>1. Signals(t) \in Conditions
        BY ThreadsAssumption DEF Signals
      <4> QED
        BY <3>3, <4>1 DEF SignalWaiter, MonitorNext
    <3>4. CASE New(t) \/ CheckPass(t) \/ SignalNobody(t)
      BY <3>4 DEF New, CheckPass, SignalNobody
    <3>5. CASE Pop(t) \/ Push(t) \/ PushPri(t)
      BY <3>5 DEF Pop, Push, PushPri
    <3> QED
      BY <2>1, <3>1, <3>2, <3>3, <3>4, <3>5 DEF Step
  <2>2. CASE UNCHANGED vars
    BY <2>2 DEF vars
  <2> QED
    BY <2>1, <2>2 DEF Next
<1> QED
  BY <1>1, <1>2, PTL DEF Spec, MonitorSpec

(* Hence the token of the monitor is in one place in the buffer, too: no   *)
(* two threads are ever inside push, push_pri or pop together.             *)
THEOREM BufferToken == Spec => []OneToken
BY BufferUsesMonitor, TokenUnique, PTL

(* And its conditions count their waiters exactly.                         *)
THEOREM BufferWaiters == Spec => []WaitersCounted
BY BufferUsesMonitor, AllWaitersCounted, PTL

(* And a hand-over has a thread to take it.                                *)
THEOREM BufferHandOver == Spec => []HandOverClaimable
BY BufferUsesMonitor, HandOverNeverLost, PTL

(* Where pc says a thread is in main.cpp and messagebuffer.cpp, at says    *)
(* where it is in the monitor.                                             *)
Placed ==
  /\ pc \in [Threads -> {"new", "call", "check", "wait", "body", "signal", "reenter", "leave"}]
  /\ \A t \in Threads :
       /\ pc[t] \in {"check", "body", "signal", "leave"} <=> at[t] = "inside"
       /\ pc[t] = "wait" <=> at[t] \in {"yielding", "blocked"}
       /\ pc[t] = "wait" => on[t] = WaitsOn(t)

(* A producer that has allocated its message holds a cell.                 *)
Allocated ==
  /\ new_msg \in [Threads -> Cells \cup {NULL}]
  /\ \A t \in Threads \ Consumers : pc[t] # "new" => new_msg[t] \in Cells

(* What t has made true for the threads it signals.                        *)
Promise(c) == IF c = "cons" THEN head # NULL ELSE buffer_occupancy < CAPACITY

(* The inductive invariant: the occupancy stays at most CAPACITY, and what *)
(* a signaller has made true is true until the signalled thread goes on.   *)
PromiseKept ==
  /\ buffer_occupancy \in Int /\ buffer_occupancy <= CAPACITY
  /\ \A t \in Threads : pc[t] = "signal" => Promise(Signals(t))
  /\ \A c \in Conditions : w[c] > 0 => Promise(c)
  /\ ConditionHolds

(* The places of pc and of the monitor go together.                        *)
THEOREM BufferPlaced == Spec => []Placed
<1>1. Init => Placed
  BY DEF Init, MonitorInit, Placed, Start
<1>2. MonitorTypeOK /\ Placed /\ [Next]_vars => Placed'
  <2> SUFFICES ASSUME MonitorTypeOK, Placed, [Next]_vars PROVE Placed'
    OBVIOUS
  <2> USE DEF Placed, Goto, Move, MonitorTypeOK, WaitsOn
  <2>1. ASSUME NEW t \in Threads, New(t) \/ CheckPass(t) \/ SignalNobody(t)
        PROVE  Placed'
    BY <2>1 DEF New, CheckPass, SignalNobody, monitorVars
  <2>2. ASSUME NEW t \in Threads, Pop(t) \/ Push(t) \/ PushPri(t)
        PROVE  Placed'
    BY <2>2 DEF Pop, Push, PushPri, monitorVars
  <2>3. ASSUME NEW t \in Threads, CallEnter(t) PROVE Placed'
    BY <2>3 DEF CallEnter, Enter
  <2>4. ASSUME NEW t \in Threads, CallLeave(t) PROVE Placed'
    BY <2>4 DEF CallLeave, Leave, Start
  <2>5. ASSUME NEW t \in Threads, CheckWait(t) PROVE Placed'
    BY <2>5, ThreadsAssumption DEF CheckWait, CountIn
  <2>6. ASSUME NEW t \in Threads, WaitYield(t) PROVE Placed'
    BY <2>6 DEF WaitYield, Yield
  <2>7. ASSUME NEW t \in Threads, WaitWake(t) PROVE Placed'
    BY <2>7 DEF WaitWake, Wake
  <2>8. ASSUME NEW t \in Threads, SignalWaiter(t) PROVE Placed'
    BY <2>8 DEF SignalWaiter, Signal
  <2>9. ASSUME NEW t \in Threads, SignalReenter(t) PROVE Placed'
    BY <2>9 DEF SignalReenter, Reenter
  <2>10. CASE UNCHANGED vars
    BY <2>10 DEF vars, monitorVars
  <2> QED
    BY <2>1, <2>2, <2>3, <2>4, <2>5, <2>6, <2>7, <2>8, <2>9, <2>10 DEF Next, Step
<1> QED
  BY <1>1, <1>2, BufferUsesMonitor, MonitorTyped, PTL DEF Spec

(* A producer calls push or push_pri with a message.                       *)
THEOREM BufferAllocated == Spec => []Allocated
<1>1. Init => Allocated
  BY ThreadsAssumption DEF Init, Allocated, Start
<1>2. Placed /\ Allocated /\ [Next]_vars => Allocated'
  <2> SUFFICES ASSUME Placed, Allocated, [Next]_vars PROVE Allocated'
    OBVIOUS
  <2> USE DEF Placed, Allocated, Goto
  <2>1. ASSUME NEW t \in Threads, New(t) PROVE Allocated'
    BY <2>1 DEF New
  <2>2. ASSUME NEW t \in Threads, Step(t), ~New(t) PROVE Allocated'
    <3>1. new_msg' = new_msg
      BY <2>2 DEF Step, CallEnter, CallLeave, CheckWait, CheckPass, WaitYield, WaitWake,
         Pop, Push, PushPri, SignalWaiter, SignalNobody, SignalReenter
    <3>2. \A u \in Threads \ Consumers : pc[u] = "new" => pc'[u] = "new"
      BY <2>2 DEF Step, CallEnter, CallLeave, CheckWait, CheckPass, WaitYield, WaitWake,
         Pop, Push, PushPri, SignalWaiter, SignalNobody, SignalReenter
    <3> QED
      BY <3>1, <3>2
  <2>3. CASE UNCHANGED vars
    BY <2>3 DEF vars
  <2> QED
    BY <2>1, <2>2, <2>3 DEF Next
<1> QED
  BY <1>1, <1>2, BufferPlaced, PTL DEF Spec

(* The buffer is never over its CAPACITY, and what a signaller has made    *)
(* true of the list is true until the signalled thread goes on.            *)
THEOREM BufferPromiseKept == Spec => []PromiseKept
<1>1. Init => PromiseKept
  BY BufferAssumption DEF Init, MonitorInit, PromiseKept, ConditionHolds, Start
<1>2. /\ MonitorTypeOK /\ OneToken /\ Placed /\ Allocated /\ PromiseKept
      /\ [Next]_vars
      => PromiseKept'
  <2> SUFFICES ASSUME MonitorTypeOK, OneToken, Placed, Allocated, PromiseKept,
                      [Next]_vars
               PROVE  PromiseKept'
    OBVIOUS
  <2>a. CAPACITY \in Nat
    BY BufferAssumption
  <2>1. ASSUME NEW t \in Threads, New(t) \/ CallEnter(t) \/ CallLeave(t)
        PROVE  PromiseKept'
    BY <2>1 DEF PromiseKept, Promise, ConditionHolds, MustWait, New, CallEnter, CallLeave,
       Enter, Leave, Goto, Move, monitorVars, list, Placed, Start, Signals
  <2>2. ASSUME NEW t \in Threads,
               CheckWait(t) \/ WaitYield(t) \/ SignalReenter(t) \/ SignalNobody(t)
        PROVE  PromiseKept'
    BY <2>2 DEF PromiseKept, Promise, ConditionHolds, MustWait, CheckWait, WaitYield,
       SignalReenter, SignalNobody, CountIn, Yield, Reenter, Goto, Move, monitorVars, list,
       Placed, Signals
  <2>3. ASSUME NEW t \in Threads, CheckPass(t) PROVE PromiseKept'
    BY <2>3 DEF PromiseKept, Promise, ConditionHolds, MustWait, CheckPass, Goto,
       monitorVars, list, Placed, Signals
  <2>4. ASSUME NEW t \in Threads, SignalWaiter(t) PROVE PromiseKept'
    BY <2>4 DEF PromiseKept, Promise, ConditionHolds, MustWait, SignalWaiter, Signal, Goto,
       Move, list, Placed, Signals, MonitorTypeOK
  <2>5. ASSUME NEW t \in Threads, WaitWake(t) PROVE PromiseKept'
    BY <2>5, <2>a DEF PromiseKept, Promise, ConditionHolds, MustWait, WaitWake, Wake, Goto,
       Move, list, Placed, WaitsOn, Signals, MonitorTypeOK
  <2>6. ASSUME NEW t \in Threads, Pop(t) \/ Push(t) \/ PushPri(t) PROVE PromiseKept'
    <3>1. pc[t] = "body" /\ pc' = [pc EXCEPT ![t] = "signal"] /\ UNCHANGED monitorVars
      BY <2>6 DEF Pop, Push, PushPri, Goto
    <3>2. at[t] = "inside"
      BY <3>1 DEF Placed
    <3>3. \A c \in Conditions : w[c] = 0
      BY <3>2 DEF OneToken, Holds
    <3>4. \A u \in Threads : pc[u] \in {"body", "signal"} => u = t
      BY <3>2 DEF OneToken, Holds, Placed
    <3>5. ~MustWait(t)
      BY <3>1 DEF PromiseKept, ConditionHolds
    <3>6. /\ buffer_occupancy' \in Int /\ buffer_occupancy' <= CAPACITY
          /\ Promise(Signals(t))'
      <4>1. CASE Pop(t)
        BY <2>a, <4>1 DEF Pop, Promise, Signals, PromiseKept
      <4>2. CASE Push(t) \/ PushPri(t)
        <5>1. t \notin Consumers
          BY <4>2, ThreadsAssumption DEF Push, PushPri
        <5>2. new_msg[t] # NULL
          BY <3>1, <5>1, BufferAssumption DEF Allocated
        <5>3. buffer_occupancy' = buffer_occupancy + 1 /\ buffer_occupancy < CAPACITY
          BY <2>a, <3>5, <4>2, <5>1 DEF Push, PushPri, PromiseKept, MustWait
        <5>4. head' # NULL
          BY <4>2, <5>2 DEF Push, PushPri
        <5> QED
          BY <2>a, <5>1, <5>3, <5>4 DEF PromiseKept, Promise, Signals
      <4> QED
        BY <2>6, <4>1, <4>2
    <3>7. \A u \in Threads : pc'[u] # "body" /\ (pc'[u] = "signal" => u = t)
      BY <3>1, <3>4 DEF Placed
    <3> QED
      BY <3>1, <3>3, <3>6, <3>7 DEF PromiseKept, ConditionHolds, monitorVars, Signals
  <2>7. CASE UNCHANGED vars
    BY <2>7 DEF vars, list, monitorVars, PromiseKept, Promise, ConditionHolds, MustWait, Signals
  <2> QED
    BY <2>1, <2>2, <2>3, <2>4, <2>5, <2>6, <2>7 DEF Next, Step
<1> QED
  BY <1>1, <1>2, BufferUsesMonitor, MonitorTyped, TokenUnique, BufferPlaced,
     BufferAllocated, PTL DEF Spec

(* What a thread waited for in push, push_pri or pop holds when it goes on *)
(* to change the list, although the test is an if and not a while: the     *)
(* monitor is handed over, so that nobody runs between the signal and the  *)
(* return from wait.                                                       *)
THEOREM BufferConditionHolds == Spec => []ConditionHolds
<1>1. PromiseKept => ConditionHolds
  BY DEF PromiseKept
<1> QED
  BY <1>1, BufferPromiseKept, PTL

(* The types of the heap, of the list and of the threads' variables.       *)
ListTyped ==
  /\ text \in [Cells -> Messages \cup {<<>>}]
  /\ next \in [Cells -> Cells \cup {NULL}]
  /\ live \in SUBSET Cells
  /\ {head, pri_tail, tail} \subseteq Cells \cup {NULL}
  /\ i \in [Threads -> Nat]
  /\ staleTail \in BOOLEAN

(* The pointers point to cells or to nothing, and a message carries its    *)
(* producer and its number: pop reads the next pointer of a cell only.     *)
THEOREM BufferTyped == Spec => []ListTyped
<1>1. Init => ListTyped
  <2> SUFFICES ASSUME Init PROVE ListTyped
    OBVIOUS
  <2>1. text \in [Cells -> Messages \cup {<<>>}]
    BY Zenon DEF Init
  <2> QED
    BY <2>1 DEF Init, ListTyped
<1>2. /\ Placed /\ Allocated /\ ConditionHolds /\ ListTyped /\ [Next]_vars
      => ListTyped'
  <2> SUFFICES ASSUME Placed, Allocated, ConditionHolds, ListTyped, [Next]_vars
               PROVE  ListTyped'
    OBVIOUS
  <2> USE DEF ListTyped
  <2>1. ASSUME NEW t \in Threads, New(t) PROVE ListTyped'
    <3>1. t \in Senders
      BY <2>1, ThreadsAssumption DEF New, Senders
    <3>2. <<t, i[t]>> \in Messages
      BY <3>1 DEF Messages
    <3> QED
      BY <2>1, <3>2 DEF New, list
  <2>2. ASSUME NEW t \in Threads, Pop(t) PROVE ListTyped'
    <3>1. head \in Cells
      BY <2>2 DEF Pop, Goto, ConditionHolds, MustWait
    <3> QED
      BY <2>2, <3>1 DEF Pop
  <2>3. ASSUME NEW t \in Threads, Push(t) \/ PushPri(t) PROVE ListTyped'
    <3>1. new_msg[t] \in Cells
      BY <2>3, ThreadsAssumption DEF Push, PushPri, Goto, Allocated
    <3>2. CASE Push(t)
      BY <3>1, <3>2 DEF Push
    <3>3. CASE PushPri(t)
      <4>1. next' \in [Cells -> Cells \cup {NULL}]
        BY <3>1, <3>3 DEF PushPri
      <4>2. {head', pri_tail', tail'} \subseteq Cells \cup {NULL}
        BY <3>1, <3>3 DEF PushPri
      <4>3. staleTail' \in BOOLEAN
        BY <3>3 DEF PushPri
      <4> QED
        BY <3>3, <4>1, <4>2, <4>3 DEF PushPri
    <3> QED
      BY <2>3, <3>2, <3>3
  <2>4. ASSUME NEW t \in Threads,
               \/ CallEnter(t) \/ CheckWait(t) \/ CheckPass(t) \/ WaitYield(t) \/ WaitWake(t)
               \/ SignalWaiter(t) \/ SignalNobody(t) \/ SignalReenter(t) \/ CallLeave(t)
        PROVE  ListTyped'
    BY <2>4 DEF CallEnter, CheckWait, CheckPass, WaitYield, WaitWake, SignalWaiter,
       SignalNobody, SignalReenter, CallLeave, heap, list
  <2>5. CASE UNCHANGED vars
    BY <2>5 DEF vars, heap, list
  <2> QED
    BY <2>1, <2>2, <2>3, <2>4, <2>5 DEF Next, Step
<1> QED
  BY <1>1, <1>2, BufferPlaced, BufferAllocated, BufferConditionHolds, PTL DEF Spec

(* A consumer is counted only while the list is empty, or while the one    *)
(* message that is in it is being handed over: it has just been linked, or *)
(* its producer waits to re-enter and the woken consumer has yet to pop.   *)
OneForConsumer ==
  waitingCount["cons"] > 0 /\ head # NULL =>
    /\ next[head] = NULL
    /\ \/ \E t \in Senders : pc[t] = "signal"
       \/ /\ w["cons"] = 1 \/ \E t \in Consumers : pc[t] = "body"
          /\ \E t \in Senders : at[t] = "reentering"

(* The same for the producers and the one free place.                      *)
OneForProducer ==
  waitingCount["prod"] > 0 /\ buffer_occupancy # CAPACITY =>
    /\ buffer_occupancy = CAPACITY - 1
    /\ \/ \E t \in Consumers : pc[t] = "signal"
       \/ /\ w["prod"] = 1 \/ \E t \in Senders : pc[t] = "body"
          /\ \E t \in Consumers : at[t] = "reentering"

(* What the monitor and the places of the threads say when t runs alone.   *)
LEMMA Alone ==
  ASSUME MonitorTypeOK, OneToken, Placed, NEW t \in Threads, at[t] = "inside"
  PROVE  /\ s = 0 /\ w["cons"] = 0 /\ w["prod"] = 0
         /\ \A u \in Threads : pc[u] \in {"check", "body", "signal", "leave"} => u = t
BY ThreadsAssumption DEF MonitorTypeOK, OneToken, Holds, Placed

(* No wake-up of a consumer is missed.                                     *)
LEMMA ConsumersWoken ==
  ASSUME MonitorTypeOK, OneToken, Placed, Allocated, ConditionHolds, ListTyped,
         OneForConsumer, [Next]_vars
  PROVE  OneForConsumer'
<1> USE ThreadsAssumption DEF Senders
<1>1. ASSUME NEW t \in Threads, CallEnter(t) \/ WaitYield(t) \/ CallLeave(t) \/ CheckPass(t)
      PROVE  OneForConsumer'
  <2>1. /\ UNCHANGED <<head, next, w, waitingCount>>
        /\ \A u \in Threads \ {t} : pc'[u] = pc[u] /\ at'[u] = at[u]
        /\ pc[t] \notin {"signal", "body"} /\ at[t] # "reentering"
    BY <1>1 DEF CallEnter, WaitYield, CallLeave, CheckPass, Enter, Yield, Leave, Goto, Move,
       heap, list, Placed, MonitorTypeOK, monitorVars
  <2> QED
    BY <2>1 DEF OneForConsumer
<1>2. ASSUME NEW t \in Threads, New(t) PROVE OneForConsumer'
  <2>1. /\ UNCHANGED <<head, w, waitingCount, at>>
        /\ \A u \in Threads \ {t} : pc'[u] = pc[u]
        /\ pc[t] = "new"
        /\ \E a \in Cells : next' = [next EXCEPT ![a] = NULL]
    BY <1>2 DEF New, Goto, Placed, list, monitorVars
  <2> QED
    BY <2>1 DEF OneForConsumer
<1>3. ASSUME NEW t \in Threads, CheckWait(t) PROVE OneForConsumer'
  <2>1. CASE t \in Consumers
    <3>1. head' = NULL
      BY <1>3, <2>1 DEF CheckWait, MustWait, list
    <3> QED
      BY <3>1 DEF OneForConsumer
  <2>2. CASE t \notin Consumers
    <3>1. /\ UNCHANGED <<head, next, w>> /\ waitingCount'["cons"] = waitingCount["cons"]
          /\ \A u \in Threads \ {t} : pc'[u] = pc[u] /\ at'[u] = at[u]
          /\ pc[t] \notin {"signal", "body"} /\ at[t] # "reentering"
      BY <1>3, <2>2 DEF CheckWait, CountIn, WaitsOn, Goto, Move, heap, list, Placed, MonitorTypeOK
    <3> QED
      BY <3>1 DEF OneForConsumer
  <2> QED
    BY <2>1, <2>2
<1>4. ASSUME NEW t \in Threads, WaitWake(t) PROVE OneForConsumer'
  <2>1. /\ UNCHANGED <<head, next, waitingCount>>
        /\ pc[t] = "wait" /\ pc' = [pc EXCEPT ![t] = "body"]
        /\ at[t] = "blocked" /\ at' = [at EXCEPT ![t] = "inside"]
        /\ w' = [w EXCEPT ![on[t]] = @ - 1] /\ w[on[t]] > 0 /\ on[t] = WaitsOn(t)
    BY <1>4 DEF WaitWake, Wake, Goto, Move, heap, list, Placed
  <2>2. CASE t \in Consumers
    BY <2>1, <2>2 DEF OneForConsumer, Placed, MonitorTypeOK
  <2>3. CASE t \notin Consumers
    <3>1. w'["cons"] = w["cons"]
      BY <2>1, <2>3 DEF WaitsOn, MonitorTypeOK
    <3> QED
      BY <2>1, <2>3, <3>1 DEF OneForConsumer, Placed, MonitorTypeOK
  <2> QED
    BY <2>2, <2>3
<1>5. ASSUME NEW t \in Threads, Pop(t) PROVE OneForConsumer'
  <2>1. /\ pc[t] = "body" /\ at[t] = "inside" /\ head # NULL /\ t \in Consumers
        /\ head' = next[head] /\ UNCHANGED waitingCount
    BY <1>5 DEF Pop, Goto, Placed, ConditionHolds, MustWait, monitorVars
  <2>2. waitingCount["cons"] > 0 => next[head] = NULL
    BY <2>1 DEF OneForConsumer
  <2> QED
    BY <2>1, <2>2 DEF OneForConsumer
<1>6. ASSUME NEW t \in Threads, Push(t) \/ PushPri(t) PROVE OneForConsumer'
  <2>1. /\ pc[t] = "body" /\ at[t] = "inside" /\ t \in Senders /\ new_msg[t] \in Cells
        /\ pc' = [pc EXCEPT ![t] = "signal"] /\ UNCHANGED waitingCount
    BY <1>6 DEF Push, PushPri, Goto, Placed, Allocated, monitorVars
  <2>2. /\ w["cons"] = 0 /\ \A u \in Threads : pc[u] \in {"body", "signal"} => u = t
    BY <2>1, Alone
  <2>3. waitingCount["cons"] > 0 => head = NULL
    BY <2>1, <2>2 DEF OneForConsumer
  <2>4. head = NULL => next' = [next EXCEPT ![new_msg[t]] = NULL] /\ head' = new_msg[t]
    BY <1>6 DEF Push, PushPri
  <2> QED
    BY <2>1, <2>3, <2>4 DEF OneForConsumer, Placed, ListTyped
<1>7. ASSUME NEW t \in Threads, SignalWaiter(t) PROVE OneForConsumer'
  <2>1. /\ pc[t] = "signal" /\ pc' = [pc EXCEPT ![t] = "reenter"]
        /\ at[t] = "inside" /\ at' = [at EXCEPT ![t] = "reentering"]
        /\ waitingCount' = [waitingCount EXCEPT ![Signals(t)] = @ - 1]
        /\ w' = [w EXCEPT ![Signals(t)] = @ + 1]
        /\ UNCHANGED <<head, next>>
    BY <1>7 DEF SignalWaiter, Signal, Goto, Move, heap, list
  <2>2. /\ w["cons"] = 0 /\ \A u \in Threads : pc[u] \in {"body", "signal"} => u = t
    BY <2>1, Alone
  <2>3. CASE t \in Consumers
    <3>1. waitingCount'["cons"] = waitingCount["cons"]
      BY <2>1, <2>3 DEF Signals, MonitorTypeOK
    <3>2. waitingCount["cons"] > 0 => head = NULL
      BY <2>1, <2>2, <2>3 DEF OneForConsumer
    <3> QED
      BY <2>1, <3>1, <3>2 DEF OneForConsumer
  <2>4. CASE t \notin Consumers
    <3>1. w'["cons"] = 1 /\ at'[t] = "reentering" /\ t \in Senders
      BY <2>1, <2>2, <2>4 DEF Signals, MonitorTypeOK
    <3>2. waitingCount'["cons"] > 0 => waitingCount["cons"] > 0
      BY <2>1, <2>4 DEF Signals, MonitorTypeOK
    <3> QED
      BY <2>1, <3>1, <3>2 DEF OneForConsumer
  <2> QED
    BY <2>3, <2>4
<1>8. ASSUME NEW t \in Threads, SignalNobody(t) PROVE OneForConsumer'
  <2>1. /\ pc[t] = "signal" /\ at[t] = "inside" /\ waitingCount[Signals(t)] = 0
        /\ UNCHANGED <<head, next, w, waitingCount>>
    BY <1>8 DEF SignalNobody, Goto, Placed, heap, list, monitorVars
  <2>2. /\ w["cons"] = 0 /\ \A u \in Threads : pc[u] \in {"body", "signal"} => u = t
    BY <2>1, Alone
  <2>3. waitingCount["cons"] > 0 => head = NULL
    BY <2>1, <2>2 DEF OneForConsumer, Signals
  <2> QED
    BY <2>1, <2>3 DEF OneForConsumer
<1>9. ASSUME NEW t \in Threads, SignalReenter(t) PROVE OneForConsumer'
  <2>1. s > 0 /\ UNCHANGED <<head, next, w, waitingCount>>
    BY <1>9 DEF SignalReenter, Reenter, heap, list
  <2>2. w["cons"] = 0 /\ \A u \in Threads : pc[u] \notin {"body", "signal"}
    BY <2>1 DEF OneToken, Holds, Placed, MonitorTypeOK
  <2>3. waitingCount["cons"] > 0 => head = NULL
    BY <2>2 DEF OneForConsumer
  <2> QED
    BY <2>1, <2>3 DEF OneForConsumer
<1>10. CASE UNCHANGED vars
  BY <1>10 DEF vars, heap, list, monitorVars, OneForConsumer
<1> QED
  BY <1>1, <1>2, <1>3, <1>4, <1>5, <1>6, <1>7, <1>8, <1>9, <1>10 DEF Next, Step

(* No wake-up of a producer is missed.                                     *)
LEMMA ProducersWoken ==
  ASSUME MonitorTypeOK, OneToken, Placed, Allocated, PromiseKept,
         OneForProducer, [Next]_vars
  PROVE  OneForProducer'
<1> USE ThreadsAssumption DEF Senders
<1>1. ASSUME NEW t \in Threads, CallEnter(t) \/ WaitYield(t) \/ CallLeave(t) \/ CheckPass(t)
      PROVE  OneForProducer'
  <2>1. /\ UNCHANGED <<buffer_occupancy, w, waitingCount>>
        /\ \A u \in Threads \ {t} : pc'[u] = pc[u] /\ at'[u] = at[u]
        /\ pc[t] \notin {"signal", "body"} /\ at[t] # "reentering"
    BY <1>1 DEF CallEnter, WaitYield, CallLeave, CheckPass, Enter, Yield, Leave, Goto, Move,
       heap, list, Placed, MonitorTypeOK, monitorVars
  <2> QED
    BY <2>1 DEF OneForProducer
<1>2. ASSUME NEW t \in Threads, New(t) PROVE OneForProducer'
  <2>1. /\ UNCHANGED <<buffer_occupancy, w, waitingCount, at>>
        /\ \A u \in Threads \ {t} : pc'[u] = pc[u]
        /\ pc[t] = "new"
    BY <1>2 DEF New, Goto, Placed, list, monitorVars
  <2> QED
    BY <2>1 DEF OneForProducer
<1>3. ASSUME NEW t \in Threads, CheckWait(t) PROVE OneForProducer'
  <2>1. CASE t \notin Consumers
    <3>1. buffer_occupancy' = CAPACITY
      BY <1>3, <2>1 DEF CheckWait, MustWait, list
    <3> QED
      BY <3>1 DEF OneForProducer
  <2>2. CASE t \in Consumers
    <3>1. /\ UNCHANGED <<buffer_occupancy, w>> /\ waitingCount'["prod"] = waitingCount["prod"]
          /\ \A u \in Threads \ {t} : pc'[u] = pc[u] /\ at'[u] = at[u]
          /\ pc[t] \notin {"signal", "body"} /\ at[t] # "reentering"
      BY <1>3, <2>2 DEF CheckWait, CountIn, WaitsOn, Goto, Move, heap, list, Placed, MonitorTypeOK
    <3> QED
      BY <3>1 DEF OneForProducer
  <2> QED
    BY <2>1, <2>2
<1>4. ASSUME NEW t \in Threads, WaitWake(t) PROVE OneForProducer'
  <2>1. /\ UNCHANGED <<buffer_occupancy, waitingCount>>
        /\ pc[t] = "wait" /\ pc' = [pc EXCEPT ![t] = "body"]
        /\ at[t] = "blocked" /\ at' = [at EXCEPT ![t] = "inside"]
        /\ w' = [w EXCEPT ![on[t]] = @ - 1] /\ w[on[t]] > 0 /\ on[t] = WaitsOn(t)
    BY <1>4 DEF WaitWake, Wake, Goto, Move, heap, list, Placed
  <2>2. CASE t \notin Consumers
    BY <2>1, <2>2 DEF OneForProducer, Placed, MonitorTypeOK
  <2>3. CASE t \in Consumers
    <3>1. w'["prod"] = w["prod"]
      BY <2>1, <2>3 DEF WaitsOn, MonitorTypeOK
    <3> QED
      BY <2>1, <2>3, <3>1 DEF OneForProducer, Placed, MonitorTypeOK
  <2> QED
    BY <2>2, <2>3
<1>5. ASSUME NEW t \in Threads, Push(t) \/ PushPri(t) PROVE OneForProducer'
  <2>1. /\ pc[t] = "body" /\ t \in Senders /\ buffer_occupancy # CAPACITY
        /\ buffer_occupancy' = buffer_occupancy + 1 /\ UNCHANGED waitingCount
    BY <1>5 DEF Push, PushPri, Goto, PromiseKept, ConditionHolds, MustWait, monitorVars
  <2>2. waitingCount["prod"] > 0 => buffer_occupancy = CAPACITY - 1
    BY <2>1 DEF OneForProducer
  <2> QED
    BY <2>1, <2>2, BufferAssumption DEF OneForProducer
<1>6. ASSUME NEW t \in Threads, Pop(t) PROVE OneForProducer'
  <2>1. /\ pc[t] = "body" /\ at[t] = "inside" /\ t \in Consumers
        /\ pc' = [pc EXCEPT ![t] = "signal"] /\ UNCHANGED waitingCount
        /\ buffer_occupancy' = buffer_occupancy - 1
    BY <1>6 DEF Pop, Goto, Placed, monitorVars
  <2>2. /\ w["prod"] = 0 /\ \A u \in Threads : pc[u] \in {"body", "signal"} => u = t
    BY <2>1, Alone
  <2>3. waitingCount["prod"] > 0 => buffer_occupancy = CAPACITY
    BY <2>1, <2>2 DEF OneForProducer
  <2> QED
    BY <2>1, <2>3 DEF OneForProducer, Placed
<1>7. ASSUME NEW t \in Threads, SignalWaiter(t) PROVE OneForProducer'
  <2>1. /\ pc[t] = "signal" /\ pc' = [pc EXCEPT ![t] = "reenter"]
        /\ at[t] = "inside" /\ at' = [at EXCEPT ![t] = "reentering"]
        /\ waitingCount' = [waitingCount EXCEPT ![Signals(t)] = @ - 1]
        /\ w' = [w EXCEPT ![Signals(t)] = @ + 1]
        /\ UNCHANGED buffer_occupancy
    BY <1>7 DEF SignalWaiter, Signal, Goto, Move, heap, list
  <2>2. /\ w["prod"] = 0 /\ \A u \in Threads : pc[u] \in {"body", "signal"} => u = t
    BY <2>1, Alone
  <2>3. CASE t \notin Consumers
    <3>1. waitingCount'["prod"] = waitingCount["prod"]
      BY <2>1, <2>3 DEF Signals, MonitorTypeOK
    <3>2. waitingCount["prod"] > 0 => buffer_occupancy = CAPACITY
      BY <2>1, <2>2, <2>3 DEF OneForProducer
    <3> QED
      BY <2>1, <3>1, <3>2 DEF OneForProducer
  <2>4. CASE t \in Consumers
    <3>1. w'["prod"] = 1 /\ at'[t] = "reentering" /\ t \in Consumers
      BY <2>1, <2>2, <2>4 DEF Signals, MonitorTypeOK
    <3>2. waitingCount'["prod"] > 0 => waitingCount["prod"] > 0
      BY <2>1, <2>4 DEF Signals, MonitorTypeOK
    <3> QED
      BY <2>1, <3>1, <3>2 DEF OneForProducer
  <2> QED
    BY <2>3, <2>4
<1>8. ASSUME NEW t \in Threads, SignalNobody(t) PROVE OneForProducer'
  <2>1. /\ pc[t] = "signal" /\ at[t] = "inside" /\ waitingCount[Signals(t)] = 0
        /\ UNCHANGED <<buffer_occupancy, w, waitingCount>>
    BY <1>8 DEF SignalNobody, Goto, Placed, heap, list, monitorVars
  <2>2. /\ w["prod"] = 0 /\ \A u \in Threads : pc[u] \in {"body", "signal"} => u = t
    BY <2>1, Alone
  <2>3. waitingCount["prod"] > 0 => buffer_occupancy = CAPACITY
    BY <2>1, <2>2 DEF OneForProducer, Signals
  <2> QED
    BY <2>1, <2>3 DEF OneForProducer
<1>9. ASSUME NEW t \in Threads, SignalReenter(t) PROVE OneForProducer'
  <2>1. s > 0 /\ UNCHANGED <<buffer_occupancy, w, waitingCount>>
    BY <1>9 DEF SignalReenter, Reenter, heap, list
  <2>2. w["prod"] = 0 /\ \A u \in Threads : pc[u] \notin {"body", "signal"}
    BY <2>1 DEF OneToken, Holds, Placed, MonitorTypeOK
  <2>3. waitingCount["prod"] > 0 => buffer_occupancy = CAPACITY
    BY <2>2 DEF OneForProducer
  <2> QED
    BY <2>1, <2>3 DEF OneForProducer
<1>10. CASE UNCHANGED vars
  BY <1>10 DEF vars, heap, list, monitorVars, OneForProducer
<1> QED
  BY <1>1, <1>2, <1>3, <1>4, <1>5, <1>6, <1>7, <1>8, <1>9, <1>10 DEF Next, Step

(* No wake-up is missed: a consumer sleeps in wait(cons) only while the    *)
(* list is empty, a producer in wait(prod) only while it is full, or the   *)
(* thread that will signal it is inside the monitor already. A message or  *)
(* a place that is handed over is taken before anybody else comes in.      *)
THEOREM BufferNoMissedSignal == Spec => []NoMissedSignal
<1> USE ThreadsAssumption
<1>1. Init => OneForConsumer /\ OneForProducer
  BY DEF Init, MonitorInit, OneForConsumer, OneForProducer
<1>2. /\ MonitorTypeOK /\ OneToken /\ Placed /\ Allocated /\ PromiseKept /\ ConditionHolds
      /\ ListTyped /\ OneForConsumer /\ OneForProducer /\ [Next]_vars
      => OneForConsumer' /\ OneForProducer'
  BY ConsumersWoken, ProducersWoken
<1>3. OneForConsumer /\ OneForProducer => NoMissedSignal
  BY DEF OneForConsumer, OneForProducer, NoMissedSignal
<1> QED
  BY <1>1, <1>2, <1>3, BufferUsesMonitor, MonitorTyped, TokenUnique, BufferPlaced,
     BufferAllocated, BufferPromiseKept, BufferConditionHolds, BufferTyped, PTL DEF Spec

(* What a consumer and a producer test cannot both say wait: the last      *)
(* message that is popped leaves a place, also when the counter has it     *)
(* that there are more than the list holds.                                *)
EmptyHasRoom == head = NULL => buffer_occupancy < CAPACITY

(* Producers and consumers are never asleep together, in a list that a     *)
(* push has cut as little as in one that is whole: whoever goes to sleep   *)
(* is alone inside, so that no wake-up is on its way, and sees the buffer  *)
(* empty or full, which the sleepers of the other kind would not sleep in. *)
THEOREM BufferNeverBothAsleep == Spec => []NeverBothAsleep
<1> USE ThreadsAssumption
<1> DEFINE Inv == EmptyHasRoom /\ OneForConsumer /\ OneForProducer /\ NeverBothAsleep
<1>1. Init => Inv
  BY BufferAssumption DEF Init, MonitorInit, EmptyHasRoom, OneForConsumer, OneForProducer,
     NeverBothAsleep
<1>2. ASSUME PromiseKept, Allocated, EmptyHasRoom, [Next]_vars
      PROVE  EmptyHasRoom'
  <2>1. ASSUME NEW t \in Threads, Pop(t) PROVE EmptyHasRoom'
    BY <2>1, BufferAssumption, <1>2 DEF Pop, PromiseKept, EmptyHasRoom
  <2>2. ASSUME NEW t \in Threads, Push(t) \/ PushPri(t) PROVE EmptyHasRoom'
    <3>1. new_msg[t] # NULL
      BY <1>2, <2>2, BufferAssumption DEF Push, PushPri, Goto, Allocated
    <3> QED
      BY <2>2, <3>1 DEF Push, PushPri, EmptyHasRoom
  <2>3. ASSUME NEW t \in Threads, Step(t), ~Pop(t), ~Push(t), ~PushPri(t)
        PROVE  EmptyHasRoom'
    <3>1. UNCHANGED list
      BY <2>3 DEF Step, New, CallEnter, CheckWait, CheckPass, WaitYield, WaitWake,
         SignalWaiter, SignalNobody, SignalReenter, CallLeave
    <3> QED
      BY <1>2, <3>1 DEF list, EmptyHasRoom
  <2>4. CASE UNCHANGED vars
    BY <1>2, <2>4 DEF vars, list, EmptyHasRoom
  <2> QED
    BY <1>2, <2>1, <2>2, <2>3, <2>4 DEF Next
<1>3. ASSUME MonitorTypeOK, OneToken, Placed, Inv, [Next]_vars
      PROVE  NeverBothAsleep'
  <2>1. ASSUME NEW t \in Threads, CheckWait(t) PROVE NeverBothAsleep'
    <3>1. /\ at[t] = "inside" /\ pc[t] = "check" /\ MustWait(t)
          /\ waitingCount' = [waitingCount EXCEPT ![WaitsOn(t)] = @ + 1]
      BY <1>3, <2>1 DEF CheckWait, CountIn, Goto, Placed
    <3>2. /\ w["cons"] = 0 /\ w["prod"] = 0
          /\ \A u \in Threads : pc[u] \notin {"body", "signal"}
      BY <1>3, <3>1, Alone
    <3>3. CASE t \in Consumers
      <4>1. buffer_occupancy # CAPACITY
        BY <1>3, <3>1, <3>3, BufferAssumption DEF MustWait, EmptyHasRoom
      <4>2. ~(waitingCount["prod"] > 0)
        BY <1>3, <3>2, <4>1 DEF OneForProducer, Senders
      <4> QED
        BY <1>3, <3>1, <3>3, <4>2 DEF WaitsOn, NeverBothAsleep, MonitorTypeOK
    <3>4. CASE t \notin Consumers
      <4>1. head # NULL
        BY <1>3, <3>1, <3>4, BufferAssumption DEF MustWait, EmptyHasRoom
      <4>2. ~(waitingCount["cons"] > 0)
        BY <1>3, <3>2, <4>1 DEF OneForConsumer, Senders
      <4> QED
        BY <1>3, <3>1, <3>4, <4>2 DEF WaitsOn, NeverBothAsleep, MonitorTypeOK
    <3> QED
      BY <3>3, <3>4
  <2>2. ASSUME NEW t \in Threads, SignalWaiter(t) PROVE NeverBothAsleep'
    <3>1. /\ waitingCount[Signals(t)] > 0
          /\ waitingCount' = [waitingCount EXCEPT ![Signals(t)] = @ - 1]
      BY <2>2 DEF SignalWaiter, Signal
    <3> QED
      BY <1>3, <3>1 DEF Signals, NeverBothAsleep, MonitorTypeOK
  <2>3. ASSUME NEW t \in Threads, Step(t), ~CheckWait(t), ~SignalWaiter(t)
        PROVE  NeverBothAsleep'
    <3>1. UNCHANGED waitingCount
      BY <2>3 DEF Step, New, CallEnter, CheckPass, WaitYield, WaitWake, Pop, Push, PushPri,
         SignalNobody, SignalReenter, CallLeave, Enter, Leave, Yield, Wake, Reenter, monitorVars
    <3> QED
      BY <1>3, <3>1 DEF NeverBothAsleep
  <2>4. CASE UNCHANGED vars
    BY <1>3, <2>4 DEF vars, monitorVars, NeverBothAsleep
  <2> QED
    BY <1>3, <2>1, <2>2, <2>3, <2>4 DEF Next
<1>4. /\ MonitorTypeOK /\ OneToken /\ Placed /\ Allocated /\ PromiseKept /\ ConditionHolds
      /\ ListTyped /\ Inv /\ [Next]_vars
      => Inv'
  BY <1>2, <1>3, ConsumersWoken, ProducersWoken
<1> QED
  BY <1>1, <1>4, BufferUsesMonitor, MonitorTyped, TokenUnique, BufferPlaced,
     BufferAllocated, BufferPromiseKept, BufferConditionHolds, BufferTyped, PTL DEF Spec

-----------------------------------------------------------------------------
(* The list.                                                               *)

(* t has allocated a message that it has not linked yet.                   *)
Pending(t) == t \notin Consumers /\ pc[t] \in {"call", "check", "wait", "body"}

(* Every producer has a live message of its own, with its text.            *)
Apart ==
  /\ \A t \in Threads : Pending(t) => new_msg[t] \in live /\ text[new_msg[t]] = <<t, i[t]>>
  /\ \A t, u \in Threads : Pending(t) /\ Pending(u) /\ new_msg[t] = new_msg[u] => t = u
  /\ \A a \in live : text[a] \in Messages

(* The list is the n live cells q, and no message in it is still pending.  *)
Chained(q, n) ==
  /\ q \in [1..n -> live]
  /\ Linked(q, n, head, next, NULL) /\ Distinct(q, n)
  /\ \A t \in Threads : Pending(t) => \A k \in 1..n : q[k] # new_msg[t]

(* Its first p messages are the privileged ones, and the tails are right.  *)
Ordered(q, n, p) ==
  /\ \A k \in 1..n : Ranked(q[k]) <=> k <= p
  /\ pri_tail = IF p = 0 THEN NULL ELSE q[p]
  /\ n > 0 => tail = q[n]

(* The inductive invariant of the list. However wrong the tails are, the   *)
(* list ends, is made of live cells and is no longer than the counter      *)
(* says; as long as no push_pri has gone behind tail, the counter and the  *)
(* tails are right.                                                        *)
ListAt(q, n) ==
  /\ Chained(q, n) /\ n <= buffer_occupancy
  /\ staleTail \/ (n = buffer_occupancy /\ \E p \in 0..n : Ordered(q, n, p))

ListKept == Apart /\ \E n \in Nat : \E q : ListAt(q, n)

(* What pop, push and push_pri make of a row. With the tails right, push   *)
(* links the message of t behind the row and push_pri links it behind the  *)
(* privileged ones.                                                        *)
Popped ==
  \E n \in Nat : \E q, r :
    n > 0 /\ ListAt(q, n) /\ r = Removed(q, n, 1) /\ ListAt(r, n - 1)'

(* Other steps leave the row and its texts as they are.                    *)
Stays ==
  \E n \in Nat : \E q :
    ListAt(q, n) /\ ListAt(q, n)' /\ \A k \in 1..n : text'[q[k]] = text[q[k]]

Pushed(t) ==
  \E n \in Nat : \E q, r, m :
    /\ ListAt(q, n) /\ m = new_msg[t] /\ ~Ranked(m)
    /\ r = Inserted(q, n, n, m) /\ ListAt(r, n + 1)'

PushedPri(t) ==
  \E n \in Nat : \E q, r, m : \E p \in 0..n :
    /\ ListAt(q, n) /\ Ordered(q, n, p) /\ m = new_msg[t] /\ Ranked(m)
    /\ r = Inserted(q, n, p, m) /\ ListAt(r, n + 1)'

(* Steps that change neither the heap nor the list.                        *)
LEMMA QuietStepKeepsList ==
  ASSUME UNCHANGED <<heap, list, new_msg, staleTail>>,
         \A u \in Threads : Pending(u)' => Pending(u) /\ i'[u] = i[u], ListKept
  PROVE  ListKept' /\ Stays
<1>1. Apart'
  BY DEF ListKept, Apart, heap
<1>0. PICK n \in Nat : \E q : ListAt(q, n)
  BY DEF ListKept
<1>2. PICK q : ListAt(q, n)
  BY <1>0
<1>3. Chained(q, n)'
  BY <1>2 DEF ListAt, Chained, Linked, heap, list
<1>4. \A p \in 0..n : Ordered(q, n, p) => Ordered(q, n, p)'
  BY DEF Ordered, Ranked, heap, list
<1>5. ListAt(q, n)'
  BY <1>2, <1>3, <1>4 DEF ListAt, list
<1>6. Stays
  BY <1>2, <1>5 DEF Stays, heap
<1> QED
  BY <1>1, <1>5, <1>6 DEF ListKept

(* new Message.                                                            *)
LEMMA NewKeepsList ==
  ASSUME Placed, Allocated, ListTyped, NEW t \in Threads, New(t), ListKept
  PROVE  ListKept' /\ Stays
<1>1. PICK a \in Cells \ live :
        /\ live' = live \cup {a}
        /\ text' = [text EXCEPT ![a] = <<t, i[t]>>]
        /\ next' = [next EXCEPT ![a] = NULL]
        /\ new_msg' = [new_msg EXCEPT ![t] = a]
  BY DEF New
<1>2. /\ pc[t] = "new" /\ pc' = [pc EXCEPT ![t] = "call"] /\ t \notin Consumers
      /\ UNCHANGED <<head, pri_tail, tail, buffer_occupancy, i, staleTail>>
  BY DEF New, Goto, list
<1>3. <<t, i[t]>> \in Messages
  BY <1>2, ThreadsAssumption DEF Messages, Senders, ListTyped
<1>4. \A u \in Threads : Pending(u)' => u = t \/ (Pending(u) /\ new_msg'[u] = new_msg[u])
  BY <1>1, <1>2 DEF Pending, Placed, Allocated
<1>5. new_msg'[t] = a /\ text'[a] = <<t, i[t]>> /\ \A b \in live : text'[b] = text[b] /\ b # a
  BY <1>1 DEF Allocated, ListTyped
<1>6. Apart'
  <2>1. ASSUME NEW u \in Threads, Pending(u)'
        PROVE  new_msg'[u] \in live' /\ text'[new_msg'[u]] = <<u, i'[u]>>
    <3>1. CASE u = t
      BY <1>1, <1>2, <1>5, <3>1
    <3>2. CASE u # t
      <4>1. new_msg[u] \in live /\ text[new_msg[u]] = <<u, i[u]>> /\ new_msg'[u] = new_msg[u]
        BY <1>4, <2>1, <3>2 DEF ListKept, Apart
      <4> QED
        BY <1>1, <1>2, <1>5, <4>1
    <3> QED
      BY <3>1, <3>2
  <2>2. ASSUME NEW u \in Threads, NEW v \in Threads, Pending(u)', Pending(v)',
               new_msg'[u] = new_msg'[v]
        PROVE  u = v
    BY <1>4, <1>5, <2>2 DEF ListKept, Apart
  <2>3. ASSUME NEW b \in live' PROVE text'[b] \in Messages
    BY <1>1, <1>3, <1>5, <2>3 DEF ListKept, Apart
  <2> QED
    BY <2>1, <2>2, <2>3 DEF Apart
<1>0. PICK n \in Nat : \E q : ListAt(q, n)
  BY DEF ListKept
<1>7. PICK q : ListAt(q, n)
  BY <1>0
<1>8. \A k \in 1..n : q[k] \in live /\ q[k] # a /\ next'[q[k]] = next[q[k]]
  BY <1>1, <1>7 DEF ListAt, Chained, ListTyped
<1>9. Chained(q, n)'
  <2>1. q \in [1..n -> live'] /\ Distinct(q, n)
    BY <1>1, <1>7 DEF ListAt, Chained
  <2>2. Linked(q, n, head', next', NULL)
    BY <1>2, <1>7, <1>8 DEF ListAt, Chained, Linked
  <2>3. \A u \in Threads : Pending(u)' => \A k \in 1..n : q[k] # new_msg'[u]
    BY <1>4, <1>5, <1>7, <1>8 DEF ListAt, Chained
  <2> QED
    BY <2>1, <2>2, <2>3 DEF Chained
<1>10. \A p \in 0..n : Ordered(q, n, p) => Ordered(q, n, p)'
  BY <1>2, <1>5, <1>8 DEF Ordered, Ranked
<1>11. ListAt(q, n)'
  BY <1>2, <1>7, <1>9, <1>10 DEF ListAt
<1>12. Stays
  BY <1>5, <1>7, <1>8, <1>11 DEF Stays
<1> QED
  BY <1>6, <1>11, <1>12 DEF ListKept

(* The middle of pop.                                                      *)
LEMMA PopKeepsList ==
  ASSUME Placed, Allocated, ListTyped, PromiseKept, NEW t \in Threads, Pop(t), ListKept
  PROVE  ListKept' /\ Popped
<1>1. /\ pc[t] = "body" /\ pc' = [pc EXCEPT ![t] = "signal"] /\ t \in Consumers
      /\ pri_tail' = (IF pri_tail = head THEN NULL ELSE pri_tail)
      /\ head' = next[head] /\ live' = live \ {head}
      /\ buffer_occupancy' = buffer_occupancy - 1
      /\ UNCHANGED <<text, next, tail, i, new_msg, staleTail>>
  BY DEF Pop, Goto
<1>2. head # NULL /\ buffer_occupancy \in Int
  BY <1>1 DEF PromiseKept, ConditionHolds, MustWait
<1>0. PICK n \in Nat : \E q : ListAt(q, n)
  BY DEF ListKept
<1>3. PICK q : ListAt(q, n)
  BY <1>0
<1>4. n > 0 /\ q[1] = head /\ 1 \in 1..n
  BY <1>2, <1>3 DEF ListAt, Chained, Linked
<1>5. \A u \in Threads : Pending(u)' => Pending(u)
  BY <1>1 DEF Pending, Placed
<1>6. Apart'
  <2>1. \A u \in Threads : Pending(u) => new_msg[u] # head
    BY <1>3, <1>4 DEF ListAt, Chained
  <2> QED
    BY <1>1, <1>5, <2>1 DEF ListKept, Apart
<1> DEFINE r == Removed(q, n, 1)
<1>7. \A k \in 1..n - 1 : k + 1 \in 1..n /\ r[k] = q[k + 1]
  BY <1>4 DEF Removed
<1>8. Chained(r, n - 1)'
  <2>1. Linked(r, n - 1, head', next', NULL) /\ Distinct(r, n - 1)
    <3>1. Linked(q, n, head, next, NULL) /\ Distinct(q, n)
      BY <1>3 DEF ListAt, Chained
    <3>2. head' = (IF 1 = 1 THEN next[q[1]] ELSE head) /\ next' = next
      BY <1>1, <1>4
    <3> QED
      BY <1>4, <3>1, <3>2, RemoveCell
  <2>2. r \in [1..n - 1 -> live']
    <3>1. \A k \in 1..n - 1 : q[k + 1] \in live /\ q[k + 1] # q[1]
      BY <1>3, <1>4 DEF ListAt, Chained, Distinct
    <3> QED
      BY <1>1, <1>4, <1>7, <3>1 DEF Removed
  <2>3. \A u \in Threads : Pending(u)' => \A k \in 1..n - 1 : r[k] # new_msg'[u]
    BY <1>1, <1>3, <1>5, <1>7 DEF ListAt, Chained
  <2> QED
    BY <2>1, <2>2, <2>3 DEF Chained
<1>9. ASSUME NEW p \in 0..n, Ordered(q, n, p)
      PROVE  \E o \in 0..n - 1 : Ordered(r, n - 1, o)'
  <2>1. CASE p = 0
    <3>1. pri_tail' = NULL
      BY <1>1, <1>9, <2>1 DEF Ordered
    <3>2. Ordered(r, n - 1, 0)'
      BY <1>1, <1>7, <1>9, <2>1, <3>1 DEF Ordered, Ranked
    <3> QED
      BY <1>4, <3>2
  <2>2. CASE p # 0
    <3>1. pri_tail = q[p]
      BY <1>9, <2>2 DEF Ordered
    <3>2. pri_tail = head <=> p = 1
      BY <1>3, <1>4, <2>2, <3>1 DEF ListAt, Chained, Distinct
    <3>3. pri_tail' = IF p - 1 = 0 THEN NULL ELSE r[p - 1]
      BY <1>1, <1>7, <2>2, <3>1, <3>2
    <3>4. \A k \in 1..n - 1 : Ranked(r[k])' <=> k <= p - 1
      BY <1>1, <1>7, <1>9 DEF Ordered, Ranked
    <3>5. n - 1 > 0 => tail' = r[n - 1]
      BY <1>1, <1>7, <1>9 DEF Ordered
    <3>6. Ordered(r, n - 1, p - 1)'
      BY <3>3, <3>4, <3>5 DEF Ordered
    <3> QED
      BY <2>2, <3>6
  <2> QED
    BY <2>1, <2>2
<1>10. ListAt(r, n - 1)'
  BY <1>1, <1>2, <1>3, <1>8, <1>9 DEF ListAt
<1>11. Popped
  <2>1. PICK v : v = r
    OBVIOUS
  <2> HIDE DEF r
  <2>2. ListAt(v, n - 1)'
    BY <1>10, <2>1
  <2>3. v = Removed(q, n, 1)
    BY <2>1 DEF r
  <2> QED
    BY <1>3, <1>4, <2>2, <2>3, Zenon DEF Popped
<1>12. ListKept'
  BY <1>4, <1>6, <1>10 DEF ListKept
<1> QED
  BY <1>11, <1>12

(* What push and push_pri know of their message m before they link it.     *)
LEMMA LinkedMessage ==
  ASSUME Placed, Allocated, ListTyped, ListKept,
         NEW t \in Threads \ Consumers, pc[t] = "body", pc' = [pc EXCEPT ![t] = "signal"],
         UNCHANGED <<text, live, i, new_msg>>
  PROVE  /\ Apart'
         /\ new_msg[t] \in live /\ new_msg[t] \in Cells /\ new_msg[t] # NULL
         /\ Ranked(new_msg[t]) <=> t \in Privileged
         /\ \A u \in Threads : Pending(u)' => Pending(u) /\ new_msg[u] # new_msg[t]
<1>1. \A u \in Threads : Pending(u)' => Pending(u) /\ u # t
  BY DEF Pending, Placed
<1>2. Pending(t)
  BY DEF Pending
<1>3. Apart
  BY DEF ListKept
<1>4. Apart'
  BY <1>1, <1>3 DEF Apart
<1>5. new_msg[t] \in live /\ text[new_msg[t]] = <<t, i[t]>>
  BY <1>2, <1>3 DEF Apart
<1>6. Ranked(new_msg[t]) <=> t \in Privileged
  BY <1>5 DEF Ranked
<1>7. \A u \in Threads : Pending(u)' => new_msg[u] # new_msg[t]
  BY <1>1, <1>2, <1>3 DEF Apart
<1> QED
  BY <1>1, <1>4, <1>5, <1>6, <1>7, BufferAssumption DEF ListTyped

(* The message is linked behind the first j cells of the list.             *)
LEMMA InsertKeepsChain ==
  ASSUME NEW t \in Threads, Pending(t), NEW m \in live, m = new_msg[t], m # NULL,
         UNCHANGED <<live, new_msg>>,
         \A u \in Threads : Pending(u)' => Pending(u) /\ new_msg[u] # m,
         NEW n \in Nat, NEW q, Chained(q, n), NEW j \in 0..n,
         head' = IF j = 0 THEN m ELSE head,
         next'[m] = IF j = n THEN NULL ELSE q[j + 1],
         j > 0 => next'[q[j]] = m,
         \A k \in 1..n : k # j => next'[q[k]] = next[q[k]]
  PROVE  Chained(Inserted(q, n, j, m), n + 1)'
<1> DEFINE r == Inserted(q, n, j, m)
<1>1. /\ q \in [1..n -> live] /\ \A k \in 1..n : q[k] # m
      /\ Linked(q, n, head, next, NULL) /\ Distinct(q, n)
  BY DEF Chained
<1>2. Linked(r, n + 1, head', next', NULL) /\ Distinct(r, n + 1)
  BY <1>1, InsertCell
<1>3. \A k \in 1..n + 1 : r[k] = m \/ \E x \in 1..n : r[k] = q[x]
  <2> SUFFICES ASSUME NEW k \in 1..n + 1, r[k] # m PROVE \E x \in 1..n : r[k] = q[x]
    OBVIOUS
  <2>1. CASE k <= j
    BY <2>1 DEF Inserted
  <2>2. CASE k > j + 1
    <3>1. r[k] = q[k - 1] /\ k - 1 \in 1..n
      BY <2>2 DEF Inserted
    <3> QED
      BY <3>1
  <2>3. k # j + 1
    BY DEF Inserted
  <2> QED
    BY <2>1, <2>2, <2>3
<1>4. r \in [1..n + 1 -> live']
  BY <1>1, <1>3 DEF Inserted
<1>5. \A u \in Threads : Pending(u)' => \A k \in 1..n + 1 : r[k] # new_msg'[u]
  BY <1>3 DEF Chained
<1> QED
  BY <1>2, <1>4, <1>5 DEF Chained

(* The list is out of reach of the pointers that the message is written to.*)
LEMMA ElsewhereKeepsChain ==
  ASSUME NEW n \in Nat, NEW q, Chained(q, n), UNCHANGED <<live, new_msg, head>>,
         \A u \in Threads : Pending(u)' => Pending(u),
         \A k \in 1..n : next'[q[k]] = next[q[k]]
  PROVE  Chained(q, n)'
BY DEF Chained, Linked

(* The middle of push.                                                     *)
LEMMA PushKeepsList ==
  ASSUME Placed, Allocated, ListTyped, PromiseKept, NEW t \in Threads, Push(t), ListKept
  PROVE  ListKept' /\ (~staleTail' => Pushed(t))
<1>a. PICK m : m = new_msg[t]
  OBVIOUS
<1>1. /\ pc[t] = "body" /\ pc' = [pc EXCEPT ![t] = "signal"]
      /\ t \in Threads \ Consumers /\ t \notin Privileged
      /\ buffer_occupancy' = buffer_occupancy + 1 /\ buffer_occupancy \in Int
      /\ tail' = m
      /\ UNCHANGED <<text, live, i, new_msg, staleTail>>
  BY <1>a, ThreadsAssumption DEF Push, Goto, PromiseKept
<1>2. /\ Apart' /\ m \in live /\ m \in Cells /\ m # NULL /\ ~Ranked(m) /\ Pending(t)
      /\ \A u \in Threads : Pending(u)' => Pending(u) /\ new_msg[u] # m
  BY <1>1, <1>a, LinkedMessage DEF Pending
<1>0. PICK n \in Nat : \E q : ListAt(q, n)
  BY DEF ListKept
<1>3. PICK q : ListAt(q, n)
  BY <1>0
<1>4. Chained(q, n) /\ n <= buffer_occupancy /\ \A k \in 1..n : q[k] # m /\ q[k] \in Cells
  BY <1>2, <1>3, <1>a DEF ListAt, Chained, ListTyped
<1>b. PICK r : r = Inserted(q, n, n, m)
  OBVIOUS
<1>5. r[n + 1] = m /\ \A k \in 1..n : r[k] = q[k]
  BY <1>b DEF Inserted
<1>6. ASSUME Chained(r, n + 1)', ~staleTail => \E p \in 0..n : Ordered(r, n + 1, p)'
      PROVE  ListAt(r, n + 1)'
  BY <1>1, <1>3, <1>6 DEF ListAt
<1>c. ASSUME ListAt(r, n + 1)' PROVE Pushed(t)
  BY <1>2, <1>3, <1>a, <1>b, <1>c DEF Pushed
<1>7. CASE head = NULL
  <2>1. next' = [next EXCEPT ![m] = NULL] /\ head' = m /\ pri_tail' = NULL
    BY <1>a, <1>7 DEF Push
  <2>2. n = 0
    BY <1>4, <1>7 DEF Chained, Linked
  <2>3. next'[m] = NULL
    BY <1>2, <2>1 DEF ListTyped
  <2>4. Chained(r, n + 1)'
    BY <1>1, <1>2, <1>4, <2>1, <2>2, <2>3, <1>a, <1>b, InsertKeepsChain
  <2>5. Ordered(r, n + 1, 0)'
    <3>1. tail' = r[n + 1] /\ ~Ranked(r[n + 1])'
      BY <1>1, <1>2, <1>5 DEF Ranked
    <3> QED
      BY <2>1, <2>2, <3>1 DEF Ordered
  <2> QED
    BY <1>2, <1>6, <1>c, <2>2, <2>4, <2>5 DEF ListKept
<1>8. CASE head # NULL
  <2>1. next' = [next EXCEPT ![tail] = m, ![m] = NULL] /\ UNCHANGED <<head, pri_tail>>
    BY <1>a, <1>8 DEF Push
  <2>2. /\ next'[m] = NULL /\ \A k \in 1..n : q[k] # tail => next'[q[k]] = next[q[k]]
        /\ \A k \in 1..n : q[k] = tail => next'[q[k]] = m
    BY <1>2, <1>4, <2>1 DEF ListTyped
  <2>3. n > 0
    BY <1>4, <1>8 DEF Chained, Linked
  <2>4. CASE ~staleTail
    <3>1. PICK p \in 0..n : Ordered(q, n, p)
      BY <1>3, <2>4 DEF ListAt
    <3>2. q[n] = tail /\ \A k \in 1..n : k # n => q[k] # tail
      BY <1>4, <2>3, <3>1 DEF Ordered, Chained, Distinct
    <3>3. /\ head' = (IF n = 0 THEN m ELSE head)
          /\ next'[m] = (IF n = n THEN NULL ELSE q[n + 1])
          /\ n > 0 => next'[q[n]] = m
          /\ \A k \in 1..n : k # n => next'[q[k]] = next[q[k]]
          /\ n \in 0..n
      <4>1. n \in 1..n
        BY <2>3
      <4>2. next'[q[n]] = m
        BY <2>2, <3>2, <4>1
      <4>3. \A k \in 1..n : k # n => next'[q[k]] = next[q[k]]
        BY <2>2, <3>2
      <4>4. head' = (IF n = 0 THEN m ELSE head) /\ next'[m] = (IF n = n THEN NULL ELSE q[n + 1])
        BY <2>1, <2>2, <2>3
      <4> QED
        BY <4>2, <4>3, <4>4
    <3>4. Chained(r, n + 1)'
      BY <1>1, <1>2, <1>4, <3>3, <1>a, <1>b, InsertKeepsChain
    <3>5. \A k \in 1..n + 1 : Ranked(r[k])' <=> k <= p
      <4> SUFFICES ASSUME NEW k \in 1..n + 1 PROVE Ranked(r[k])' <=> k <= p
        OBVIOUS
      <4>1. CASE k = n + 1
        BY <1>1, <1>2, <1>5, <4>1 DEF Ranked
      <4>2. CASE k \in 1..n
        BY <1>1, <1>5, <3>1, <4>2 DEF Ordered, Ranked
      <4> QED
        BY <4>1, <4>2
    <3>6. /\ pri_tail' = (IF p = 0 THEN NULL ELSE r[p]) /\ tail' = r[n + 1]
      BY <1>1, <1>5, <2>1, <3>1 DEF Ordered
    <3>7. Ordered(r, n + 1, p)'
      BY <3>5, <3>6 DEF Ordered
    <3> QED
      BY <1>2, <1>6, <1>c, <3>4, <3>7 DEF ListKept
  <2>5. CASE staleTail /\ \E j \in 1..n : q[j] = tail
    <3>1. PICK j \in 1..n : q[j] = tail
      BY <2>5
    <3>a. PICK v : v = CutAt(q, j, m)
      OBVIOUS
    <3>2. /\ Linked(q, n, head, next, NULL) /\ Distinct(q, n)
      BY <1>4 DEF Chained
    <3>3. next'[q[j]] = m /\ \A k \in 1..n : k # j => next'[q[k]] = next[q[k]]
      BY <2>2, <3>1, <3>2 DEF Distinct
    <3>4. Linked(v, j + 1, head, next', NULL) /\ Distinct(v, j + 1)
      BY <1>2, <1>4, <2>2, <3>2, <3>3, <3>a, CutCell
    <3>5. \A k \in 1..j + 1 : v[k] = m \/ (k \in 1..n /\ v[k] = q[k])
      BY <3>a DEF CutAt
    <3>6. v \in [1..j + 1 -> live']
      BY <1>1, <1>2, <1>4, <3>5, <3>a DEF CutAt, Chained
    <3>7. Chained(v, j + 1)'
      <4>1. \A u \in Threads : Pending(u)' => \A k \in 1..j + 1 : v[k] # new_msg'[u]
        BY <1>1, <1>2, <1>4, <1>a, <3>5 DEF Chained
      <4> QED
        BY <2>1, <3>4, <3>6, <4>1 DEF Chained
    <3>8. ListAt(v, j + 1)'
      BY <1>1, <1>4, <2>5, <3>7 DEF ListAt
    <3> QED
      BY <1>1, <1>2, <2>5, <3>8 DEF ListKept
  <2>6. CASE staleTail /\ \A j \in 1..n : q[j] # tail
    <3>1. Chained(q, n)'
      BY <1>1, <1>2, <1>4, <2>1, <2>2, <2>6, <1>a, ElsewhereKeepsChain
    <3>2. ListAt(q, n)'
      BY <1>1, <1>4, <2>6, <3>1 DEF ListAt
    <3> QED
      BY <1>1, <1>2, <2>6, <3>2 DEF ListKept
  <2> QED
    BY <2>4, <2>5, <2>6 DEF ListTyped
<1> QED
  BY <1>7, <1>8

(* The middle of push_pri.                                                 *)
LEMMA PushPriKeepsList ==
  ASSUME Placed, Allocated, ListTyped, PromiseKept, NEW t \in Threads, PushPri(t), ListKept
  PROVE  ListKept' /\ (~staleTail' => PushedPri(t))
<1>a. PICK m : m = new_msg[t]
  OBVIOUS
<1>1. /\ pc[t] = "body" /\ pc' = [pc EXCEPT ![t] = "signal"]
      /\ t \in Threads \ Consumers /\ t \in Privileged
      /\ buffer_occupancy' = buffer_occupancy + 1 /\ buffer_occupancy \in Int
      /\ pri_tail' = m
      /\ ~staleTail' => ~staleTail /\ (head = NULL \/ pri_tail # tail)
      /\ staleTail' \in BOOLEAN
      /\ UNCHANGED <<text, live, i, new_msg>>
  BY <1>a, ThreadsAssumption DEF PushPri, Goto, PromiseKept
<1>2. /\ Apart' /\ m \in live /\ m \in Cells /\ m # NULL /\ Ranked(m) /\ Pending(t)
      /\ \A u \in Threads : Pending(u)' => Pending(u) /\ new_msg[u] # m
  BY <1>1, <1>a, LinkedMessage DEF Pending
<1>0. PICK n \in Nat : \E q : ListAt(q, n)
  BY DEF ListKept
<1>3. PICK q : ListAt(q, n)
  BY <1>0
<1>4. Chained(q, n) /\ n <= buffer_occupancy /\ \A k \in 1..n : q[k] # m /\ q[k] \in Cells
  BY <1>2, <1>3, <1>a DEF ListAt, Chained, ListTyped
<1>5. head = NULL <=> n = 0
  BY <1>4 DEF Chained, Linked
<1>6. ~staleTail' => n = buffer_occupancy /\ \E p \in 0..n : Ordered(q, n, p)
  BY <1>1, <1>3 DEF ListAt
<1>7. ASSUME NEW j \in 0..n, Chained(Inserted(q, n, j, m), n + 1)',
             ~staleTail' => \A p \in 0..n : Ordered(q, n, p) => p = j,
             tail' = IF n = 0 THEN m ELSE tail,
             ~staleTail' /\ n > 0 => j # n
      PROVE  ListAt(Inserted(q, n, j, m), n + 1)'
  <2>a. PICK r : r = Inserted(q, n, j, m)
    OBVIOUS
  <2>1. \A k \in 1..n + 1 : r[k] = IF k <= j THEN q[k] ELSE IF k = j + 1 THEN m ELSE q[k - 1]
    BY <2>a DEF Inserted
  <2>2. ASSUME ~staleTail' PROVE Ordered(r, n + 1, j + 1)'
    <3>1. Ordered(q, n, j)
      BY <1>6, <1>7, <2>2
    <3>2. \A k \in 1..n + 1 : Ranked(r[k])' <=> k <= j + 1
      <4> SUFFICES ASSUME NEW k \in 1..n + 1 PROVE Ranked(r[k])' <=> k <= j + 1
        OBVIOUS
      <4>1. CASE k <= j
        BY <1>1, <2>1, <3>1, <4>1 DEF Ordered, Ranked
      <4>2. CASE k = j + 1
        BY <1>1, <1>2, <2>1, <4>2 DEF Ranked
      <4>3. CASE k > j + 1
        <5>1. k - 1 \in 1..n /\ ~(k - 1 <= j) /\ r[k] = q[k - 1]
          BY <2>1, <4>3
        <5>2. ~Ranked(q[k - 1])
          BY <3>1, <5>1 DEF Ordered
        <5> QED
          BY <1>1, <4>3, <5>1, <5>2 DEF Ranked
      <4> QED
        BY <4>1, <4>2, <4>3
    <3>3. pri_tail' = r[j + 1] /\ j + 1 # 0
      BY <1>1, <2>1
    <3>4. tail' = r[n + 1]
      <4>1. CASE n = 0
        BY <1>7, <2>1, <4>1
      <4>2. CASE n > 0
        <5>1. r[n + 1] = q[n]
          BY <1>7, <2>1, <2>2, <4>2
        <5> QED
          BY <1>7, <3>1, <4>2, <5>1 DEF Ordered
      <4> QED
        BY <4>1, <4>2
    <3> QED
      BY <3>2, <3>3, <3>4 DEF Ordered
  <2>3. ~staleTail' => n + 1 = buffer_occupancy' /\ \E p \in 0..n + 1 : Ordered(r, n + 1, p)'
    BY <1>1, <1>6, <2>2
  <2> QED
    BY <1>1, <1>4, <1>7, <2>a, <2>3 DEF ListAt
<1>b. ASSUME NEW j \in 0..n, ListAt(Inserted(q, n, j, m), n + 1)',
             \A p \in 0..n : Ordered(q, n, p) => p = j, ~staleTail'
      PROVE  PushedPri(t)
  <2>1. PICK r : r = Inserted(q, n, j, m)
    OBVIOUS
  <2>2. ListAt(r, n + 1)'
    BY <1>b, <2>1
  <2>3. Ordered(q, n, j)
    BY <1>6, <1>b
  <2> QED
    BY <1>2, <1>3, <1>a, <2>1, <2>2, <2>3 DEF PushedPri
<1>8. CASE head = NULL
  <2>1. next' = [next EXCEPT ![m] = NULL] /\ head' = m /\ tail' = m
    BY <1>a, <1>8 DEF PushPri
  <2>2. n = 0
    BY <1>5, <1>8
  <2>3. next'[m] = NULL
    BY <1>2, <2>1 DEF ListTyped
  <2>4. Chained(Inserted(q, n, 0, m), n + 1)'
    BY <1>1, <1>2, <1>4, <2>1, <2>2, <2>3, <1>a, InsertKeepsChain
  <2>5. ListAt(Inserted(q, n, 0, m), n + 1)'
    BY <1>7, <2>1, <2>2, <2>4
  <2> QED
    BY <1>2, <1>b, <2>2, <2>5 DEF ListKept
<1>9. CASE head # NULL /\ pri_tail = NULL
  <2>1. next' = [next EXCEPT ![m] = head] /\ head' = m /\ tail' = tail
    BY <1>a, <1>9 DEF PushPri
  <2>2. n > 0 /\ head = q[1]
    BY <1>4, <1>9 DEF Chained, Linked
  <2>3. next'[m] = q[1] /\ \A k \in 1..n : next'[q[k]] = next[q[k]]
    BY <1>2, <1>4, <2>1, <2>2 DEF ListTyped
  <2>4. Chained(Inserted(q, n, 0, m), n + 1)'
    <3>1. 0 \in 0..n /\ next'[m] = (IF 0 = n THEN NULL ELSE q[0 + 1])
          /\ head' = (IF 0 = 0 THEN m ELSE head)
      BY <2>1, <2>2, <2>3
    <3> QED
      BY <1>1, <1>2, <1>4, <2>3, <3>1, <1>a, InsertKeepsChain
  <2>5. \A p \in 0..n : Ordered(q, n, p) => p = 0
    BY <1>4, <1>9, BufferAssumption DEF Ordered
  <2>6. ListAt(Inserted(q, n, 0, m), n + 1)'
    BY <1>7, <2>1, <2>2, <2>4, <2>5
  <2> QED
    BY <1>2, <1>b, <2>5, <2>6 DEF ListKept
<1>10. CASE head # NULL /\ pri_tail # NULL
  <2>1. /\ next' = [next EXCEPT ![m] = next[pri_tail], ![pri_tail] = m]
        /\ UNCHANGED <<head, tail>>
    BY <1>a, <1>10 DEF PushPri
  <2>2. n > 0
    BY <1>5, <1>10
  <2>3. CASE \E j \in 1..n : q[j] = pri_tail
    <3>1. PICK j \in 1..n : q[j] = pri_tail
      BY <2>3
    <3>2. Linked(q, n, head, next, NULL) /\ Distinct(q, n)
      BY <1>4 DEF Chained
    <3>3. next'[q[j]] = m /\ next'[m] = next[q[j]]
      BY <1>2, <1>4, <2>1, <3>1 DEF ListTyped
    <3>4. \A k \in 1..n : k # j => next'[q[k]] = next[q[k]]
      BY <1>2, <1>4, <2>1, <3>1, <3>2 DEF ListTyped, Distinct
    <3>5. /\ j \in 0..n /\ next'[m] = (IF j = n THEN NULL ELSE q[j + 1])
          /\ head' = (IF j = 0 THEN m ELSE head)
      BY <2>1, <3>1, <3>2, <3>3 DEF Linked
    <3>6. Chained(Inserted(q, n, j, m), n + 1)'
      BY <1>1, <1>2, <1>4, <3>3, <3>4, <3>5, <1>a, InsertKeepsChain
    <3>7. ASSUME NEW p \in 0..n, Ordered(q, n, p) PROVE p = j
      BY <1>10, <3>1, <3>2, <3>7 DEF Ordered, Distinct
    <3>8. ~staleTail' => j # n
      <4> SUFFICES ASSUME ~staleTail', j = n PROVE FALSE
        OBVIOUS
      <4>1. PICK p \in 0..n : Ordered(q, n, p)
        BY <1>6
      <4>2. tail = q[n]
        BY <2>2, <4>1 DEF Ordered
      <4> QED
        BY <1>1, <1>10, <3>1, <4>2
    <3>9. ListAt(Inserted(q, n, j, m), n + 1)'
      BY <1>7, <2>1, <2>2, <3>5, <3>6, <3>7, <3>8
    <3> QED
      BY <1>2, <1>b, <3>5, <3>7, <3>9 DEF ListKept
  <2>4. CASE \A j \in 1..n : q[j] # pri_tail
    <3>1. \A k \in 1..n : next'[q[k]] = next[q[k]]
      BY <1>2, <1>4, <2>1, <2>4 DEF ListTyped
    <3>2. Chained(q, n)'
      BY <1>1, <1>2, <1>4, <2>1, <3>1, ElsewhereKeepsChain
    <3>3. \A p \in 0..n : ~Ordered(q, n, p)
      BY <1>10, <2>4 DEF Ordered
    <3>4. staleTail'
      BY <1>1, <1>6, <3>3
    <3>5. ListAt(q, n)'
      BY <1>1, <1>4, <3>2, <3>4 DEF ListAt
    <3> QED
      BY <1>2, <3>4, <3>5 DEF ListKept
  <2> QED
    BY <2>3, <2>4
<1> QED
  BY <1>8, <1>9, <1>10

(* The steps that move no message, and that of nobody.                     *)
Otherwise(t) ==
  \/ CallEnter(t) \/ CheckWait(t) \/ CheckPass(t) \/ WaitYield(t) \/ WaitWake(t)
  \/ SignalWaiter(t) \/ SignalNobody(t) \/ SignalReenter(t) \/ CallLeave(t)

LEMMA OtherStepKeepsList ==
  ASSUME Placed, ListTyped, ListKept, UNCHANGED vars \/ \E t \in Threads : Otherwise(t)
  PROVE  ListKept' /\ Stays
<1>1. ASSUME NEW t \in Threads, Otherwise(t)
      PROVE  ListKept' /\ Stays
  <2>1. UNCHANGED <<heap, list, new_msg, staleTail>>
    BY <1>1 DEF Otherwise, CallEnter, CheckWait, CheckPass, WaitYield, WaitWake, SignalWaiter,
       SignalNobody, SignalReenter, CallLeave
  <2>2. \A u \in Threads : Pending(u)' => Pending(u) /\ i'[u] = i[u]
    <3>1. CASE ~CallLeave(t)
      BY <1>1, <3>1 DEF Otherwise, Pending, Placed, Goto, CallEnter, CheckWait, CheckPass,
         WaitYield, WaitWake, SignalWaiter, SignalNobody, SignalReenter
    <3>2. CASE CallLeave(t)
      BY <3>2 DEF Pending, Placed, Goto, CallLeave, Start, ListTyped
    <3> QED
      BY <3>1, <3>2
  <2> QED
    BY <2>1, <2>2, QuietStepKeepsList
<1>2. CASE UNCHANGED vars
  <2>1. UNCHANGED <<heap, list, new_msg, staleTail, pc, i>>
    BY <1>2 DEF vars
  <2>2. \A u \in Threads : Pending(u)' => Pending(u) /\ i'[u] = i[u]
    BY <2>1 DEF Pending
  <2> QED
    BY <2>1, <2>2, QuietStepKeepsList
<1> QED
  BY <1>1, <1>2

(* A message that is pushed or popped leaves a list behind that is as long *)
(* as the counter says, or shorter when a push_pri has gone behind tail.   *)
THEOREM BufferListKept == Spec => []ListKept
<1>1. Init => ListKept
  <2> SUFFICES ASSUME Init PROVE ListKept
    OBVIOUS
  <2>1. Apart
    BY DEF Init, Apart, Pending, Start
  <2>2. ASSUME NEW q, q \in [1..0 -> live] PROVE ListAt(q, 0)
    <3>1. Chained(q, 0)
      BY <2>2 DEF Init, Chained, Linked, Distinct
    <3>2. Ordered(q, 0, 0)
      BY DEF Init, Ordered
    <3> QED
      BY <3>1, <3>2 DEF Init, ListAt
  <2>3. [k \in 1..0 |-> NULL] \in [1..0 -> live]
    OBVIOUS
  <2> QED
    BY <2>1, <2>2, <2>3 DEF ListKept
<1>2. /\ Placed /\ Allocated /\ PromiseKept /\ ListTyped /\ ListKept /\ [Next]_vars
      => ListKept'
  <2> SUFFICES ASSUME Placed, Allocated, PromiseKept, ListTyped, ListKept, [Next]_vars
               PROVE  ListKept'
    OBVIOUS
  <2> QED
    BY OtherStepKeepsList, NewKeepsList, PopKeepsList, PushKeepsList, PushPriKeepsList
       DEF Next, Step, Otherwise
<1> QED
  BY <1>1, <1>2, BufferPlaced, BufferAllocated, BufferPromiseKept, BufferTyped, PTL DEF Spec

(* What Chain, Length and Contents are of a list of n cells.               *)
LEMMA ContentsOfList ==
  ASSUME ListTyped, NEW n \in Nat, NEW q, Chained(q, n)
  PROVE  Contents = q /\ Len(Contents) = n
<1> DEFINE N == Cardinality(Cells)
<1>1. N \in Nat
  BY BufferAssumption, FS_CardinalityType
<1>2. /\ q \in [1..n -> Cells] /\ Linked(q, n, head, next, NULL) /\ Distinct(q, n)
  BY DEF Chained, ListTyped
<1>3. n <= N
  <2>1. q \in Injection(1..n, Cells)
    BY <1>2 DEF Injection, IsInjective, Distinct
  <2>2. Cardinality(1..n) <= N
    BY <2>1, BufferAssumption, FS_Injection
  <2>3. Cardinality(1..n) = n
    <3>1. 1 \in Int /\ n \in Int
      OBVIOUS
    <3>2. Cardinality(1..n) = IF 1 > n THEN 0 ELSE n - 1 + 1
      BY <3>1, FS_Interval
    <3> QED
      BY <3>2
  <2> QED
    BY <2>2, <2>3
<1>4. Chain = [k \in 0..N |-> IF k < n THEN q[k + 1] ELSE NULL]
  <2>1. Chain = Walk(N, head, next, NULL)
    BY Zenon DEF Chain, Walk
  <2>2. n \in 0..N
    BY <1>1, <1>3
  <2> QED
    BY <1>1, <1>2, <2>1, <2>2, WalkOfList
<1>5. \A k \in 1..n : k - 1 \in 0..N /\ k - 1 < n /\ q[k] # NULL
  BY <1>1, <1>2, <1>3, BufferAssumption
<1>6. Length = n
  <2>1. {k \in 0..N : Chain[k] # NULL} = 0..n - 1
    <3>1. \A k \in 0..N : Chain[k] = IF k < n THEN q[k + 1] ELSE NULL
      BY <1>4
    <3>2. \A k \in 0..n - 1 : k \in 0..N /\ k < n /\ k + 1 \in 1..n
      BY <1>1, <1>3
    <3> QED
      BY <1>5, <3>1, <3>2
  <2>2. Cardinality(0..n - 1) = n
    <3>1. 0 \in Int /\ n - 1 \in Int
      OBVIOUS
    <3>2. Cardinality(0..n - 1) = IF 0 > n - 1 THEN 0 ELSE n - 1 - 0 + 1
      BY <3>1, FS_Interval
    <3> QED
      BY <3>2
  <2> QED
    BY <2>1, <2>2 DEF Length
<1>7. Contents = [k \in 1..n |-> Chain[k - 1]]
  BY <1>6 DEF Contents
<1>8. Contents = q
  <2>1. \A k \in 1..n : Chain[k - 1] = q[k]
    BY <1>4, <1>5
  <2> QED
    BY <1>2, <1>7, <2>1
<1>9. Len(q) = n
  BY <1>2
<1> QED
  BY <1>8, <1>9

(* As long as no push_pri has gone behind tail, the list is what its three *)
(* pointers and its counter say: privileged messages in front, pri_tail    *)
(* the last of those, tail the last of all, none of them freed or lost.    *)
THEOREM BufferListExact == Spec => []ListExact
<1>1. ListTyped /\ ListKept => ListExact
  <2> SUFFICES ASSUME ListTyped, ListKept, ~staleTail PROVE ListExact
    BY DEF ListExact
  <2>0. PICK n \in Nat : \E q : ListAt(q, n)
    BY DEF ListKept
  <2>1. PICK q : ListAt(q, n)
    BY <2>0
  <2>2. Chained(q, n) /\ n = buffer_occupancy
    BY <2>1 DEF ListAt
  <2>3. PICK p \in 0..n : Ordered(q, n, p)
    BY <2>1 DEF ListAt
  <2>4. Contents = q /\ Len(Contents) = n
    BY <2>2, ContentsOfList
  <2>5. Cardinality({k \in 1..n : Ranked(q[k])}) = p
    <3>1. {k \in 1..n : Ranked(q[k])} = 1..p
      BY <2>3 DEF Ordered
    <3>2. 1 \in Int /\ p \in Int
      OBVIOUS
    <3>3. Cardinality(1..p) = IF 1 > p THEN 0 ELSE p - 1 + 1
      BY <3>2, FS_Interval
    <3>4. Cardinality(1..p) = p
      BY <3>3
    <3> QED
      BY <3>1, <3>4, Zenon
  <2>6. \A k \in 1..n : q[k] \in live /\ (Ranked(q[k]) <=> k <= p)
    BY <2>2, <2>3 DEF Chained, Ordered
  <2>7. /\ pri_tail = IF p = 0 THEN NULL ELSE q[p]
        /\ n > 0 => tail = q[n]
    BY <2>3 DEF Ordered
  <2> QED
    BY <2>2, <2>4, <2>5, <2>6, <2>7, Zenon DEF ListExact
<1> QED
  BY <1>1, BufferTyped, BufferListKept, PTL

(* The texts on the console are those of messages.                         *)
ConsoleTyped == console \in Seq(Messages)

(* Every variable of the buffer has its type: the counter of messages is   *)
(* never below 0 or over CAPACITY, pop never reads through NULL, and what  *)
(* the consumers print are messages, also once the tails are wrong.        *)
THEOREM BufferTypeCorrect == Spec => []TypeOK
<1>1. Init => ConsoleTyped
  BY DEF Init, ConsoleTyped
<1>2. PromiseKept /\ ListTyped /\ ListKept /\ ConsoleTyped /\ [Next]_vars => ConsoleTyped'
  <2> SUFFICES ASSUME PromiseKept, ListTyped, ListKept, ConsoleTyped, [Next]_vars
               PROVE  ConsoleTyped'
    OBVIOUS
  <2>1. ASSUME NEW t \in Threads, Pop(t) PROVE ConsoleTyped'
    <3>1. head # NULL
      BY <2>1 DEF Pop, Goto, PromiseKept, ConditionHolds, MustWait
    <3>2. head \in live
      <4>0. PICK n \in Nat : \E q : ListAt(q, n)
        BY DEF ListKept
      <4>1. PICK q : ListAt(q, n)
        BY <4>0
      <4>2. n # 0 /\ head = q[1] /\ q \in [1..n -> live]
        BY <3>1, <4>1 DEF ListAt, Chained, Linked
      <4> QED
        BY <4>2
    <3>3. text[head] \in Messages
      BY <3>2 DEF ListKept, Apart
    <3>4. console' = Append(console, text[head])
      BY <2>1 DEF Pop
    <3> QED
      BY <3>3, <3>4, AppendProperties DEF ConsoleTyped
  <2>2. ASSUME NEW t \in Threads, Step(t), ~Pop(t) PROVE ConsoleTyped'
    BY <2>2 DEF ConsoleTyped, Step, New, CallEnter, CallLeave, CheckWait, CheckPass, WaitYield,
       WaitWake, Push, PushPri, SignalWaiter, SignalNobody, SignalReenter
  <2>3. CASE UNCHANGED vars
    BY <2>3 DEF vars, ConsoleTyped
  <2> QED
    BY <2>1, <2>2, <2>3 DEF Next
<1>3. /\ MonitorTypeOK /\ Placed /\ Allocated /\ PromiseKept /\ ListTyped /\ ListKept
      /\ ConsoleTyped
      => TypeOK
  <2> SUFFICES ASSUME MonitorTypeOK, Placed, Allocated, PromiseKept, ListTyped, ListKept,
                      ConsoleTyped
               PROVE  TypeOK
    OBVIOUS
  <2>1. buffer_occupancy \in 0..CAPACITY
    <3>0. PICK n \in Nat : \E q : ListAt(q, n)
      BY DEF ListKept
    <3>1. PICK q : ListAt(q, n)
      BY <3>0
    <3>2. n <= buffer_occupancy
      BY <3>1 DEF ListAt
    <3> QED
      BY <3>2, BufferAssumption DEF PromiseKept
  <2>2. new_msg \in [Threads -> Cells \cup {NULL}]
    BY DEF Allocated
  <2>3. pc \in [Threads -> {"new", "call", "check", "wait", "body", "signal", "reenter", "leave"}]
    BY DEF Placed
  <2> QED
    BY <2>1, <2>2, <2>3, Zenon DEF TypeOK, ListTyped, ConsoleTyped
<1> QED
  BY <1>1, <1>2, <1>3, BufferUsesMonitor, MonitorTyped, BufferPlaced, BufferAllocated,
     BufferPromiseKept, BufferTyped, BufferListKept, PTL DEF Spec

-----------------------------------------------------------------------------
(* The refinement of PriorityChat.                                         *)

(* The j-th element of an interval of numbers, counted by cardinality.     *)
LEMMA NthOfInterval ==
  ASSUME NEW p \in Nat, NEW n \in Nat, p <= n
  PROVE  /\ Cardinality(p + 1..n) = n - p
         /\ \A j \in 1..n - p : Nth(p + 1..n, j) = p + j
<1>1. \A k \in p..n : Cardinality(p + 1..k) = k - p
  <2> SUFFICES ASSUME NEW k \in p..n PROVE Cardinality(p + 1..k) = k - p
    OBVIOUS
  <2>1. p + 1 \in Int /\ k \in Int
    OBVIOUS
  <2>2. Cardinality(p + 1..k) = IF p + 1 > k THEN 0 ELSE k - (p + 1) + 1
    BY <2>1, FS_Interval
  <2> QED
    BY <2>2
<1>2. \A k \in p + 1..n : (p + 1..n) \cap 1..k = p + 1..k
  OBVIOUS
<1>3. ASSUME NEW j \in 1..n - p
      PROVE  Nth(p + 1..n, j) = p + j
  <2>1. p + j \in p + 1..n
    OBVIOUS
  <2>2. ASSUME NEW k \in p + 1..n
        PROVE  Cardinality((p + 1..n) \cap 1..k) = j <=> k = p + j
    <3>1. Cardinality((p + 1..n) \cap 1..k) = Cardinality(p + 1..k)
      BY <1>2, Zenon
    <3>2. Cardinality(p + 1..k) = k - p
      BY <1>1
    <3> QED
      BY <3>1, <3>2
  <2> QED
    BY <2>1, <2>2 DEF Nth
<1>4. Cardinality(p + 1..n) = n - p
  BY <1>1
<1> QED
  BY <1>3, <1>4

(* n texts of the row q, from behind the j-th on.                          *)
Segment(f, q, j, n) == [k \in 1..n |-> f[q[j + k]]]

(* The two queues of the abstraction are the two parts of the row.         *)
WaitingExact ==
  \A n \in Nat : \A q : \A p \in 0..n :
    ListAt(q, n) /\ Ordered(q, n, p) =>
      /\ Waiting("priority") = Segment(text, q, 0, p)
      /\ Waiting("normal") = Segment(text, q, p, n - p)

LEMMA WaitingOfList == ListTyped => WaitingExact
<1> SUFFICES ASSUME ListTyped, NEW n \in Nat, NEW q, NEW p \in 0..n, ListAt(q, n), Ordered(q, n, p)
             PROVE  /\ Waiting("priority") = Segment(text, q, 0, p)
                    /\ Waiting("normal") = Segment(text, q, p, n - p)
  BY DEF WaitingExact
<1>1. Contents = q /\ Len(Contents) = n
  BY ContentsOfList DEF ListAt
<1>2. \A k \in 1..n : Ranked(q[k]) <=> k <= p
  BY DEF Ordered
<1>3. OfClass("priority") = 0 + 1..p /\ OfClass("normal") = p + 1..n
  BY <1>1, <1>2 DEF OfClass
<1>4. Waiting("priority") = Segment(text, q, 0, p)
  <2>1. Cardinality(0 + 1..p) = p - 0 /\ \A j \in 1..p - 0 : Nth(0 + 1..p, j) = 0 + j
    <3>1. 0 \in Nat /\ p \in Nat /\ 0 <= p
      OBVIOUS
    <3> QED
      BY <3>1, NthOfInterval
  <2>2. Waiting("priority") = [j \in 1..Cardinality(0 + 1..p) |-> text[q[Nth(0 + 1..p, j)]]]
    BY <1>1, <1>3 DEF Waiting
  <2>3. p - 0 = p
    OBVIOUS
  <2>4. Waiting("priority") = [j \in 1..p |-> text[q[0 + j]]]
    BY <2>1, <2>2, <2>3
  <2> QED
    BY <2>4 DEF Segment
<1>5. Waiting("normal") = Segment(text, q, p, n - p)
  <2>1. Cardinality(p + 1..n) = n - p /\ \A j \in 1..n - p : Nth(p + 1..n, j) = p + j
    <3>1. p \in Nat /\ p <= n
      OBVIOUS
    <3> QED
      BY <3>1, NthOfInterval
  <2>2. Waiting("normal") = [j \in 1..Cardinality(p + 1..n) |-> text[q[Nth(p + 1..n, j)]]]
    BY <1>1, <1>3 DEF Waiting
  <2> QED
    BY <2>1, <2>2 DEF Segment
<1> QED
  BY <1>4, <1>5

(* A segment that has lost its first text, or gained a last one.           *)
Shrinks(f, q, r, j, o, n) ==
  /\ j \in Nat /\ o \in Nat /\ n \in Nat /\ n > 0
  /\ \A k \in 1..n : f[q[j + k]] \in Messages
  /\ \A k \in 1..n - 1 : r[o + k] = q[j + k + 1]

Grows(f, q, r, j, n) ==
  /\ j \in Nat /\ n \in Nat
  /\ \A k \in 1..n : f[q[j + k]] \in Messages /\ r[j + k] = q[j + k]
  /\ f[r[j + n + 1]] \in Messages

LEMMA SegmentShrinks ==
  ASSUME NEW f, NEW q, NEW r, NEW j, NEW o, NEW n, Shrinks(f, q, r, j, o, n)
  PROVE  /\ Segment(f, q, j, n) # <<>>
         /\ Head(Segment(f, q, j, n)) = f[q[j + 1]]
         /\ Segment(f, r, o, n - 1) = Tail(Segment(f, q, j, n))
<1> USE DEF Shrinks
<1> DEFINE old == [k \in 1..n |-> f[q[j + k]]]
<1>1. old \in Seq(Messages) /\ Len(old) = n /\ old # <<>>
  OBVIOUS
<1>2. Head(old) = f[q[j + 1]]
  <2>1. Head(old) = old[1]
    BY <1>1
  <2> QED
    BY <2>1
<1>3. /\ Tail(old) \in Seq(Messages) /\ Len(Tail(old)) = n - 1
      /\ \A k \in 1..n - 1 : Tail(old)[k] = old[k + 1]
  <2> HIDE DEF old
  <2> QED
    BY <1>1, HeadTailProperties
<1>4. Tail(old) = [k \in 1..n - 1 |-> Tail(old)[k]]
  <2> HIDE DEF old
  <2>1. Tail(old) \in [1..n - 1 -> Messages]
    BY <1>3, LenProperties
  <2> QED
    BY <2>1
<1>5. \A k \in 1..n - 1 : old[k + 1] = f[r[o + k]]
  <2> SUFFICES ASSUME NEW k \in 1..n - 1 PROVE old[k + 1] = f[r[o + k]]
    OBVIOUS
  <2>1. k + 1 \in 1..n /\ j + (k + 1) = j + k + 1
    OBVIOUS
  <2> QED
    BY <2>1
<1>6. [k \in 1..n - 1 |-> f[r[o + k]]] = Tail(old)
  <2> HIDE DEF old
  <2> QED
    BY <1>3, <1>4, <1>5
<1> QED
  BY <1>1, <1>2, <1>6 DEF Segment

LEMMA SegmentGrows ==
  ASSUME NEW f, NEW q, NEW r, NEW j, NEW n, Grows(f, q, r, j, n)
  PROVE  Segment(f, r, j, n + 1) = Append(Segment(f, q, j, n), f[r[j + n + 1]])
<1> USE DEF Grows
<1> DEFINE old == [k \in 1..n |-> f[q[j + k]]]
           m == f[r[j + n + 1]]
<1>1. old \in Seq(Messages) /\ Len(old) = n /\ m \in Messages
  <2>1. \A k \in 1..n : f[q[j + k]] \in Messages
    OBVIOUS
  <2> QED
    BY <2>1
<1>2. /\ Append(old, m) \in Seq(Messages) /\ Len(Append(old, m)) = n + 1
      /\ \A k \in 1..n : Append(old, m)[k] = old[k]
      /\ Append(old, m)[n + 1] = m
  <2> HIDE DEF old, m
  <2> QED
    BY <1>1, AppendProperties
<1>3. \A k \in 1..n + 1 : Append(old, m)[k] = f[r[j + k]]
  <2> SUFFICES ASSUME NEW k \in 1..n + 1 PROVE Append(old, m)[k] = f[r[j + k]]
    OBVIOUS
  <2>1. CASE k = n + 1
    <3>1. j + (n + 1) = j + n + 1
      OBVIOUS
    <3> QED
      BY <1>2, <2>1, <3>1
  <2>2. CASE k \in 1..n
    <3>1. old[k] = f[q[j + k]]
      BY <2>2
    <3> QED
      BY <1>2, <2>2, <3>1
  <2> QED
    BY <2>1, <2>2
<1>4. Append(old, m) = [k \in 1..n + 1 |-> f[r[j + k]]]
  <2> HIDE DEF old, m
  <2>1. Append(old, m) \in [1..n + 1 -> Messages]
    BY <1>2, LenProperties
  <2> QED
    BY <1>3, <2>1
<1> QED
  BY <1>4 DEF Segment

(* The abstract state, written with the names of this module.              *)
Posted == [t \in Senders |-> PostedOf(t)]
Queues == [c \in {"normal", "priority"} |-> Waiting(c)]

(* The texts of a row are messages.                                        *)
LEMMA RowTexts ==
  ASSUME Apart, NEW n \in Nat, NEW q, ListAt(q, n)
  PROVE  \A k \in 1..n : q[k] \in live /\ text[q[k]] \in Messages
BY DEF ListAt, Chained, Apart

(* What the row is in the abstraction, before and after a step.            *)
LEMMA RowBefore ==
  ASSUME WaitingExact, NEW n \in Nat, NEW q, ListAt(q, n), NEW p \in 0..n, Ordered(q, n, p)
  PROVE  /\ Waiting("priority") = Segment(text, q, 0, p)
         /\ Waiting("normal") = Segment(text, q, p, n - p)
BY DEF WaitingExact

LEMMA RowAfter ==
  ASSUME WaitingExact', NEW n \in Nat, NEW q, ListAt(q, n)', ~staleTail',
         \A k \in 1..n : text'[q[k]] = text[q[k]],
         NEW p \in 0..n, \A k \in 1..n : Ranked(q[k]) <=> k <= p
  PROVE  /\ n = buffer_occupancy'
         /\ Waiting("priority")' = Segment(text, q, 0, p)
         /\ Waiting("normal")' = Segment(text, q, p, n - p)
<1>1. n = buffer_occupancy'
  BY DEF ListAt
<1>2. PICK o \in 0..n : Ordered(q, n, o)'
  BY DEF ListAt
<1>3. \A k \in 1..n : Ranked(q[k])' <=> k <= o
  BY <1>2 DEF Ordered
<1>4. \A k \in 1..n : k <= p <=> k <= o
  BY <1>3 DEF Ranked
<1>5. o = p
  <2>1. o > 0 => o \in 1..n /\ o <= p
    BY <1>4
  <2>2. p > 0 => p \in 1..n /\ p <= o
    BY <1>4
  <2> QED
    BY <2>1, <2>2
<1>6. /\ Waiting("priority")' = Segment(text', q, 0, o)
      /\ Waiting("normal")' = Segment(text', q, o, n - o)
  BY <1>2 DEF WaitingExact
<1>7. Segment(text', q, 0, p) = Segment(text, q, 0, p)
  <2>1. \A k \in 1..p : text'[q[0 + k]] = text[q[0 + k]]
    OBVIOUS
  <2> QED
    BY <2>1 DEF Segment
<1>8. Segment(text', q, p, n - p) = Segment(text, q, p, n - p)
  <2>1. \A k \in 1..n - p : p + k \in 1..n
    OBVIOUS
  <2>2. \A k \in 1..n - p : text'[q[p + k]] = text[q[p + k]]
    BY <2>1
  <2> QED
    BY <2>2 DEF Segment
<1> QED
  BY <1>1, <1>5, <1>6, <1>7, <1>8

(* push: the message of t waits behind all others.                         *)
LEMMA PushQueues ==
  ASSUME ListTyped, Apart, WaitingExact, WaitingExact', ~staleTail, NEW t \in Threads, Push(t),
         Pushed(t)
  PROVE  /\ Waiting("normal")' = Append(Waiting("normal"), text[new_msg[t]])
         /\ Waiting("priority")' = Waiting("priority")
<1>1. text' = text /\ ~staleTail'
  BY DEF Push
<1>2. PICK n \in Nat : \E q, r, m :
        /\ ListAt(q, n) /\ m = new_msg[t] /\ ~Ranked(m)
        /\ r = Inserted(q, n, n, m) /\ ListAt(r, n + 1)'
  BY DEF Pushed
<1>3. PICK q, r, m :
        /\ ListAt(q, n) /\ m = new_msg[t] /\ ~Ranked(m)
        /\ r = Inserted(q, n, n, m) /\ ListAt(r, n + 1)'
  BY <1>2
<1>4. PICK p \in 0..n : Ordered(q, n, p)
  BY <1>3 DEF ListAt
<1>5. r[n + 1] = m /\ \A k \in 1..n : r[k] = q[k]
  BY <1>3 DEF Inserted
<1>6. \A k \in 1..n + 1 : Ranked(r[k]) <=> k <= p
  <2> SUFFICES ASSUME NEW k \in 1..n + 1 PROVE Ranked(r[k]) <=> k <= p
    OBVIOUS
  <2>1. CASE k = n + 1
    BY <1>3, <1>5, <2>1
  <2>2. CASE k \in 1..n
    BY <1>4, <1>5, <2>2 DEF Ordered
  <2> QED
    BY <2>1, <2>2
<1>7. /\ Waiting("priority")' = Segment(text, r, 0, p)
      /\ Waiting("normal")' = Segment(text, r, p, n + 1 - p)
  <2>1. n + 1 \in Nat /\ p \in 0..n + 1
    OBVIOUS
  <2> QED
    BY <1>1, <1>3, <1>6, <2>1, RowAfter
<1>8. /\ Waiting("priority") = Segment(text, q, 0, p)
      /\ Waiting("normal") = Segment(text, q, p, n - p)
  BY <1>3, <1>4, RowBefore
<1>9. Segment(text, r, 0, p) = Segment(text, q, 0, p)
  <2>1. \A k \in 1..p : r[0 + k] = q[0 + k]
    BY <1>5
  <2> QED
    BY <2>1 DEF Segment
<1>10. Segment(text, r, p, n + 1 - p) = Append(Segment(text, q, p, n - p), text[m])
  <2>1. PICK d \in Nat : d = n - p
    OBVIOUS
  <2>2. n + 1 - p = d + 1 /\ p + d + 1 = n + 1 /\ p \in Nat
    BY <2>1
  <2>3. \A k \in 1..d : text[q[p + k]] \in Messages /\ r[p + k] = q[p + k]
    <3>1. \A k \in 1..d : p + k \in 1..n
      BY <2>1
    <3>2. \A k \in 1..n : text[q[k]] \in Messages
      BY <1>3, RowTexts
    <3> QED
      BY <1>5, <3>1, <3>2
  <2>4. text[r[p + d + 1]] = text[m] /\ text[r[p + d + 1]] \in Messages
    <3>1. \A k \in 1..n + 1 : r[k] \in live'
      BY <1>3 DEF ListAt, Chained
    <3>2. m \in live
      BY <1>5, <3>1 DEF Push
    <3> QED
      BY <1>5, <2>2, <3>2 DEF Apart
  <2>5. Grows(text, q, r, p, d)
    BY <2>2, <2>3, <2>4 DEF Grows
  <2>6. Segment(text, r, p, d + 1) = Append(Segment(text, q, p, d), text[r[p + d + 1]])
    BY <2>5, SegmentGrows
  <2> QED
    BY <2>1, <2>2, <2>4, <2>6, Zenon
<1> QED
  BY <1>3, <1>7, <1>8, <1>9, <1>10

(* push_pri: it waits behind the privileged ones.                          *)
LEMMA PushPriQueues ==
  ASSUME ListTyped, Apart, WaitingExact, WaitingExact', ~staleTail', NEW t \in Threads, PushPri(t),
         PushedPri(t)
  PROVE  /\ Waiting("priority")' = Append(Waiting("priority"), text[new_msg[t]])
         /\ Waiting("normal")' = Waiting("normal")
<1>1. text' = text
  BY DEF PushPri
<1>2. PICK n \in Nat : \E q, r, m : \E p \in 0..n :
        /\ ListAt(q, n) /\ Ordered(q, n, p) /\ m = new_msg[t] /\ Ranked(m)
        /\ r = Inserted(q, n, p, m) /\ ListAt(r, n + 1)'
  BY DEF PushedPri
<1>3. PICK q, r, m : \E p \in 0..n :
        /\ ListAt(q, n) /\ Ordered(q, n, p) /\ m = new_msg[t] /\ Ranked(m)
        /\ r = Inserted(q, n, p, m) /\ ListAt(r, n + 1)'
  BY <1>2
<1>4. PICK p \in 0..n :
        /\ ListAt(q, n) /\ Ordered(q, n, p) /\ m = new_msg[t] /\ Ranked(m)
        /\ r = Inserted(q, n, p, m) /\ ListAt(r, n + 1)'
  BY <1>3
<1>5. \A k \in 1..n + 1 : r[k] = IF k <= p THEN q[k] ELSE IF k = p + 1 THEN m ELSE q[k - 1]
  BY <1>4 DEF Inserted
<1>6. \A k \in 1..n + 1 : Ranked(r[k]) <=> k <= p + 1
  <2> SUFFICES ASSUME NEW k \in 1..n + 1 PROVE Ranked(r[k]) <=> k <= p + 1
    OBVIOUS
  <2>1. CASE k <= p
    BY <1>4, <1>5, <2>1 DEF Ordered
  <2>2. CASE k = p + 1
    BY <1>4, <1>5, <2>2
  <2>3. CASE k > p + 1
    <3>1. k - 1 \in 1..n /\ ~(k - 1 <= p) /\ r[k] = q[k - 1]
      BY <1>5, <2>3
    <3>2. ~Ranked(q[k - 1])
      BY <1>4, <3>1 DEF Ordered
    <3> QED
      BY <2>3, <3>1, <3>2
  <2> QED
    BY <2>1, <2>2, <2>3
<1>7. /\ Waiting("priority")' = Segment(text, r, 0, p + 1)
      /\ Waiting("normal")' = Segment(text, r, p + 1, n - p)
  <2>1. n + 1 \in Nat /\ p + 1 \in 0..n + 1 /\ (n + 1) - (p + 1) = n - p
    OBVIOUS
  <2> QED
    BY <1>1, <1>4, <1>6, <2>1, RowAfter
<1>8. /\ Waiting("priority") = Segment(text, q, 0, p)
      /\ Waiting("normal") = Segment(text, q, p, n - p)
  BY <1>4, RowBefore
<1>9. Segment(text, r, p + 1, n - p) = Segment(text, q, p, n - p)
  <2>1. ASSUME NEW k \in 1..n - p PROVE r[p + 1 + k] = q[p + k]
    <3>1. p + 1 + k \in 1..n + 1 /\ p + 1 + k > p + 1 /\ (p + 1 + k) - 1 = p + k
      OBVIOUS
    <3> QED
      BY <1>5, <3>1
  <2> QED
    BY <2>1 DEF Segment
<1>10. Segment(text, r, 0, p + 1) = Append(Segment(text, q, 0, p), text[m])
  <2>1. 0 + p + 1 = p + 1 /\ 0 \in Nat /\ p \in Nat
    OBVIOUS
  <2>2. \A k \in 1..p : text[q[0 + k]] \in Messages /\ r[0 + k] = q[0 + k]
    <3>1. \A k \in 1..n : text[q[k]] \in Messages
      BY <1>4, RowTexts
    <3> QED
      BY <1>5, <3>1
  <2>3. r[0 + p + 1] = m
    BY <1>5
  <2>4. text[r[0 + p + 1]] \in Messages
    <3>1. \A k \in 1..n + 1 : r[k] \in live'
      BY <1>4 DEF ListAt, Chained
    <3>2. m \in live
      BY <2>1, <2>3, <3>1 DEF PushPri
    <3> QED
      BY <2>3, <3>2 DEF Apart
  <2>5. Grows(text, q, r, 0, p)
    BY <2>1, <2>2, <2>4 DEF Grows
  <2>6. Segment(text, r, 0, p + 1) = Append(Segment(text, q, 0, p), text[r[0 + p + 1]])
    BY <2>5, SegmentGrows
  <2> QED
    BY <2>3, <2>6, Zenon
<1> QED
  BY <1>4, <1>7, <1>8, <1>9, <1>10

(* pop: the first message goes, a privileged one if there is one.          *)
LEMMA PopQueues ==
  ASSUME ListTyped, Apart, WaitingExact, WaitingExact', ~staleTail, NEW t \in Threads, Pop(t),
         Popped
  PROVE  \E c \in {"normal", "priority"} :
           /\ Waiting(c) # <<>> /\ (c = "normal" => Waiting("priority") = <<>>)
           /\ text[head] = Head(Waiting(c)) /\ Waiting(c)' = Tail(Waiting(c))
           /\ \A d \in {"normal", "priority"} \ {c} : Waiting(d)' = Waiting(d)
<1>1. text' = text /\ ~staleTail'
  BY DEF Pop
<1>2. PICK n \in Nat : \E q, r :
        n > 0 /\ ListAt(q, n) /\ r = Removed(q, n, 1) /\ ListAt(r, n - 1)'
  BY DEF Popped
<1>3. PICK q, r : n > 0 /\ ListAt(q, n) /\ r = Removed(q, n, 1) /\ ListAt(r, n - 1)'
  BY <1>2
<1>4. PICK p \in 0..n : Ordered(q, n, p)
  BY <1>3 DEF ListAt
<1>5. \A k \in 1..n - 1 : r[k] = q[k + 1]
  BY <1>3 DEF Removed
<1>6. head = q[1]
  BY <1>3 DEF ListAt, Chained, Linked
<1>7. \A k \in 1..n : text[q[k]] \in Messages
  BY <1>3, RowTexts
<1>8. /\ Waiting("priority") = Segment(text, q, 0, p)
      /\ Waiting("normal") = Segment(text, q, p, n - p)
  BY <1>3, <1>4, RowBefore
<1>9. CASE p = 0
  <2>1. \A k \in 1..n - 1 : Ranked(r[k]) <=> k <= 0
    BY <1>4, <1>5, <1>9 DEF Ordered
  <2>2. /\ Waiting("priority")' = Segment(text, r, 0, 0)
        /\ Waiting("normal")' = Segment(text, r, 0, n - 1)
    <3>1. n - 1 \in Nat /\ 0 \in 0..n - 1 /\ (n - 1) - 0 = n - 1
      BY <1>3
    <3> QED
      BY <1>1, <1>3, <2>1, <3>1, RowAfter
  <2>3. Segment(text, r, 0, 0) = <<>> /\ Segment(text, q, 0, 0) = <<>>
    BY DEF Segment
  <2>4. /\ Segment(text, q, 0, n) # <<>> /\ Head(Segment(text, q, 0, n)) = text[q[0 + 1]]
        /\ Segment(text, r, 0, n - 1) = Tail(Segment(text, q, 0, n))
    <3>1. 0 \in Nat /\ \A k \in 1..n : text[q[0 + k]] \in Messages
      BY <1>7
    <3>2. \A k \in 1..n - 1 : r[0 + k] = q[0 + k + 1]
      BY <1>5
    <3>3. Shrinks(text, q, r, 0, 0, n)
      BY <1>3, <3>1, <3>2 DEF Shrinks
    <3> QED
      BY <3>3, SegmentShrinks
  <2>5. n - 0 = n /\ 0 + 1 = 1
    OBVIOUS
  <2>6. /\ Waiting("normal") # <<>> /\ Waiting("priority") = <<>>
        /\ text[head] = Head(Waiting("normal")) /\ Waiting("normal")' = Tail(Waiting("normal"))
        /\ Waiting("priority")' = Waiting("priority")
    BY <1>6, <1>8, <1>9, <2>2, <2>3, <2>4, <2>5
  <2> QED
    BY <2>6
<1>10. CASE p > 0
  <2>1. \A k \in 1..n - 1 : Ranked(r[k]) <=> k <= p - 1
    BY <1>4, <1>5, <1>10 DEF Ordered
  <2>2. /\ Waiting("priority")' = Segment(text, r, 0, p - 1)
        /\ Waiting("normal")' = Segment(text, r, p - 1, n - p)
    <3>1. n - 1 \in Nat /\ p - 1 \in 0..n - 1 /\ (n - 1) - (p - 1) = n - p
      BY <1>3, <1>10
    <3> QED
      BY <1>1, <1>3, <2>1, <3>1, RowAfter
  <2>3. Segment(text, r, p - 1, n - p) = Segment(text, q, p, n - p)
    <3>1. ASSUME NEW k \in 1..n - p PROVE r[p - 1 + k] = q[p + k]
      <4>1. p - 1 + k \in 1..n - 1 /\ (p - 1 + k) + 1 = p + k
        BY <1>10
      <4> QED
        BY <1>5, <4>1
    <3> QED
      BY <3>1 DEF Segment
  <2>4. /\ Segment(text, q, 0, p) # <<>> /\ Head(Segment(text, q, 0, p)) = text[q[0 + 1]]
        /\ Segment(text, r, 0, p - 1) = Tail(Segment(text, q, 0, p))
    <3>1. 0 \in Nat /\ p \in Nat /\ \A k \in 1..p : text[q[0 + k]] \in Messages
      BY <1>7
    <3>2. \A k \in 1..p - 1 : r[0 + k] = q[0 + k + 1]
      BY <1>5
    <3>3. Shrinks(text, q, r, 0, 0, p)
      BY <1>10, <3>1, <3>2 DEF Shrinks
    <3> QED
      BY <3>3, SegmentShrinks
  <2>5. 0 + 1 = 1
    OBVIOUS
  <2>6. /\ Waiting("priority") # <<>>
        /\ text[head] = Head(Waiting("priority"))
        /\ Waiting("priority")' = Tail(Waiting("priority"))
        /\ Waiting("normal")' = Waiting("normal")
    BY <1>6, <1>8, <2>2, <2>3, <2>4, <2>5
  <2> QED
    BY <2>6
<1> QED
  BY <1>9, <1>10

(* A step that moves no message leaves both queues alone.                  *)
LEMMA QuietQueues ==
  ASSUME WaitingExact, WaitingExact', ~staleTail, ~staleTail', Stays
  PROVE  Queues' = Queues
<1>1. PICK n \in Nat : \E q :
        ListAt(q, n) /\ ListAt(q, n)' /\ \A k \in 1..n : text'[q[k]] = text[q[k]]
  BY DEF Stays
<1>2. PICK q : ListAt(q, n) /\ ListAt(q, n)' /\ \A k \in 1..n : text'[q[k]] = text[q[k]]
  BY <1>1
<1>3. PICK p \in 0..n : Ordered(q, n, p)
  BY <1>2 DEF ListAt
<1>4. \A k \in 1..n : Ranked(q[k]) <=> k <= p
  BY <1>3 DEF Ordered
<1>5. Waiting("priority")' = Waiting("priority") /\ Waiting("normal")' = Waiting("normal")
  BY <1>2, <1>3, <1>4, RowBefore, RowAfter
<1> QED
  BY <1>5 DEF Queues

(* How many messages wait.                                                 *)
LEMMA QueueLengths ==
  ASSUME ListKept, WaitingExact, ~staleTail
  PROVE  Len(Waiting("priority")) + Len(Waiting("normal")) = buffer_occupancy
<1>1. PICK n \in Nat : \E q : ListAt(q, n)
  BY DEF ListKept
<1>2. PICK q : ListAt(q, n)
  BY <1>1
<1>3. n = buffer_occupancy /\ \E p \in 0..n : Ordered(q, n, p)
  BY <1>2 DEF ListAt
<1>4. PICK p \in 0..n : Ordered(q, n, p)
  BY <1>3
<1>5. \A j, k \in Nat : Len(Segment(text, q, j, k)) = k
  BY DEF Segment
<1>6. Len(Segment(text, q, 0, p)) = p /\ Len(Segment(text, q, p, n - p)) = n - p
  <2>1. 0 \in Nat /\ p \in Nat /\ n - p \in Nat
    OBVIOUS
  <2> QED
    BY <1>5, <2>1, Zenon
<1> QED
  BY <1>2, <1>3, <1>4, <1>6, RowBefore

(* A producer that links its message hands it over, ...                    *)
LEMMA PostStep ==
  ASSUME NEW t \in Senders, NEW c \in {"normal", "priority"},
         c = "priority" <=> t \in Privileged,
         Len(Waiting("priority")) + Len(Waiting("normal")) < CAPACITY,
         Queues' = [Queues EXCEPT ![c] = Append(@, <<t, Posted[t]>>)],
         Posted' = [Posted EXCEPT ![t] = @ + 1], console' = console
  PROVE  Abstract!Post(t)
<1>1. [u \in Senders |-> IF u \in Privileged THEN "priority" ELSE "normal"][t] = c
  OBVIOUS
<1>2. Abstract!Room(c)
  <2>1. Queues["normal"] = Waiting("normal") /\ Queues["priority"] = Waiting("priority")
    BY DEF Queues
  <2>2. Len(Waiting("normal")) \in Nat /\ Len(Waiting("priority")) \in Nat
    OBVIOUS
  <2> QED
    BY <2>1, <2>2 DEF Abstract!Room, Queues
<1> QED
  BY <1>1, <1>2 DEF Abstract!Post, Queues, Posted

(* ... and a consumer that unlinks one shows it.                           *)
LEMMA ShowStep ==
  ASSUME NEW c \in {"normal", "priority"}, Queues[c] # <<>>,
         c = "normal" => Queues["priority"] = <<>>,
         Queues' = [Queues EXCEPT ![c] = Tail(@)],
         console' = Append(console, Head(Queues[c])), Posted' = Posted
  PROVE  Abstract!Show(c)
BY DEF Abstract!Show, Queues, Posted

(* Only linking a message changes how many messages a thread has posted.   *)
LEMMA PostedSame ==
  ASSUME Placed, ListTyped, [Next]_vars, \A t \in Threads : ~Push(t) /\ ~PushPri(t)
  PROVE  Posted' = Posted
<1>1. ASSUME NEW u \in Threads \ Consumers PROVE PostedOf(u)' = PostedOf(u)
  <2>1. CASE UNCHANGED vars
    BY <2>1 DEF vars, PostedOf
  <2>2. ASSUME NEW t \in Threads, New(t) PROVE PostedOf(u)' = PostedOf(u)
    BY <2>2 DEF New, Goto, Placed, PostedOf
  <2>3. ASSUME NEW t \in Threads, Pop(t) PROVE PostedOf(u)' = PostedOf(u)
    BY <2>3 DEF Pop, Goto, Placed, PostedOf
  <2>4. ASSUME NEW t \in Threads, Otherwise(t), ~CallLeave(t) PROVE PostedOf(u)' = PostedOf(u)
    BY <2>4 DEF Otherwise, CallEnter, CheckWait, CheckPass, WaitYield, WaitWake, SignalWaiter,
       SignalNobody, SignalReenter, Goto, Placed, PostedOf
  <2>5. ASSUME NEW t \in Threads, CallLeave(t) PROVE PostedOf(u)' = PostedOf(u)
    BY <2>5 DEF CallLeave, Start, Goto, Placed, PostedOf, ListTyped
  <2> QED
    BY <2>1, <2>2, <2>3, <2>4, <2>5 DEF Next, Step, Otherwise
<1>2. Senders \subseteq Threads \ Consumers
  BY ThreadsAssumption DEF Senders
<1> QED
  BY <1>1, <1>2 DEF Posted

(* And linking one posts one message of its thread.                        *)
LEMMA PostedOne ==
  ASSUME Placed, ListTyped, NEW t \in Senders, pc[t] = "body", pc' = [pc EXCEPT ![t] = "signal"],
         i' = i
  PROVE  Posted[t] = i[t] /\ Posted' = [Posted EXCEPT ![t] = @ + 1]
<1>1. \A u \in Senders : u \in Threads
  BY ThreadsAssumption DEF Senders
<1>2. PostedOf(t) = i[t] /\ PostedOf(t)' = i[t] + 1
  BY <1>1 DEF PostedOf, Placed
<1>3. \A u \in Senders : u # t => PostedOf(u)' = PostedOf(u)
  BY <1>1 DEF PostedOf, Placed
<1> QED
  BY <1>2, <1>3 DEF Posted

(* Every step is one of the abstraction, as long as no push_pri goes       *)
(* behind tail.                                                            *)
LEMMA AbstractStep ==
  ASSUME Placed, Allocated, PromiseKept, ListTyped, ListKept, WaitingExact, WaitingExact',
         ~staleTail, ~staleTail', [Next]_vars
  PROVE  \/ \E t \in Senders : Abstract!Post(t)
         \/ \E c \in {"normal", "priority"} : Abstract!Show(c)
         \/ Posted' = Posted /\ Queues' = Queues /\ console' = console
<1>1. Apart
  BY DEF ListKept
<1>2. ASSUME NEW t \in Threads, Push(t) \/ PushPri(t)
      PROVE  \E u \in Senders : Abstract!Post(u)
  <2>1. t \in Senders /\ t \in Threads \ Consumers
    BY <1>2, ThreadsAssumption DEF Push, PushPri, Senders
  <2>2. pc[t] = "body" /\ pc' = [pc EXCEPT ![t] = "signal"] /\ i' = i /\ console' = console
    BY <1>2 DEF Push, PushPri, Goto
  <2>3. text[new_msg[t]] = <<t, i[t]>>
    BY <1>1, <2>1, <2>2 DEF Apart, Pending
  <2>4. Posted[t] = i[t] /\ Posted' = [Posted EXCEPT ![t] = @ + 1]
    BY <2>1, <2>2, PostedOne
  <2>5. Len(Waiting("priority")) + Len(Waiting("normal")) < CAPACITY
    <3>1. buffer_occupancy < CAPACITY
      BY <2>1, <2>2, BufferAssumption DEF PromiseKept, ConditionHolds, MustWait
    <3> QED
      BY <3>1, QueueLengths
  <2>6. CASE Push(t)
    <3>1. Pushed(t)
      BY <2>6, PushKeepsList
    <3>2. /\ Waiting("normal")' = Append(Waiting("normal"), <<t, Posted[t]>>)
          /\ Waiting("priority")' = Waiting("priority")
      BY <1>1, <2>3, <2>4, <2>6, <3>1, PushQueues
    <3>3. Queues' = [Queues EXCEPT !["normal"] = Append(@, <<t, Posted[t]>>)]
      BY <3>2 DEF Queues
    <3>4. t \notin Privileged
      BY <2>6, ThreadsAssumption DEF Push
    <3> QED
      BY <2>1, <2>2, <2>4, <2>5, <3>3, <3>4, PostStep
  <2>7. CASE PushPri(t)
    <3>1. PushedPri(t)
      BY <2>7, PushPriKeepsList
    <3>2. /\ Waiting("priority")' = Append(Waiting("priority"), <<t, Posted[t]>>)
          /\ Waiting("normal")' = Waiting("normal")
      BY <1>1, <2>3, <2>4, <2>7, <3>1, PushPriQueues
    <3>3. Queues' = [Queues EXCEPT !["priority"] = Append(@, <<t, Posted[t]>>)]
      BY <3>2 DEF Queues
    <3>4. t \in Privileged
      BY <2>7 DEF PushPri
    <3> QED
      BY <2>1, <2>2, <2>4, <2>5, <3>3, <3>4, PostStep
  <2> QED
    BY <1>2, <2>6, <2>7
<1>3. ASSUME NEW t \in Threads, Pop(t), \A u \in Threads : ~Push(u) /\ ~PushPri(u)
      PROVE  \E c \in {"normal", "priority"} : Abstract!Show(c)
  <2>1. Posted' = Posted
    BY <1>3, PostedSame
  <2>2. PICK c \in {"normal", "priority"} :
          /\ Waiting(c) # <<>> /\ (c = "normal" => Waiting("priority") = <<>>)
          /\ text[head] = Head(Waiting(c)) /\ Waiting(c)' = Tail(Waiting(c))
          /\ \A d \in {"normal", "priority"} \ {c} : Waiting(d)' = Waiting(d)
    BY <1>1, <1>3, PopKeepsList, PopQueues
  <2>3. console' = Append(console, text[head])
    BY <1>3 DEF Pop
  <2>4. Queues' = [Queues EXCEPT ![c] = Tail(@)]
    BY <2>2 DEF Queues
  <2>5. /\ Queues[c] # <<>> /\ (c = "normal" => Queues["priority"] = <<>>)
        /\ console' = Append(console, Head(Queues[c]))
    BY <2>2, <2>3 DEF Queues
  <2> QED
    BY <2>1, <2>4, <2>5, ShowStep
<1>4. ASSUME \A t \in Threads : ~Push(t) /\ ~PushPri(t) /\ ~Pop(t)
      PROVE  Posted' = Posted /\ Queues' = Queues /\ console' = console
  <2>1. Posted' = Posted
    BY <1>4, PostedSame
  <2>2. Stays
    BY <1>4, OtherStepKeepsList, NewKeepsList DEF Next, Step, Otherwise
  <2>3. console' = console
    BY <1>4 DEF Next, Step, vars, New, CallEnter, CheckWait, CheckPass, WaitYield, WaitWake,
       SignalWaiter, SignalNobody, SignalReenter, CallLeave
  <2> QED
    BY <2>1, <2>2, <2>3, QuietQueues
<1> QED
  BY <1>2, <1>3, <1>4

(* Nothing has been posted, waits or has been shown.                       *)
LEMMA AbstractInit ==
  ASSUME Init
  PROVE  Abstract!ChatInit
<1>1. ListTyped /\ WaitingExact
  <2>1. ListTyped
    <3>1. text \in [Cells -> Messages \cup {<<>>}]
      BY Zenon DEF Init
    <3> QED
      BY <3>1 DEF Init, ListTyped
  <2> QED
    BY <2>1, WaitingOfList
<1>2. PICK q : q \in [1..0 -> live]
  <2>1. [k \in 1..0 |-> NULL] \in [1..0 -> live]
    OBVIOUS
  <2> QED
    BY <2>1
<1>3. ListAt(q, 0) /\ Ordered(q, 0, 0)
  BY <1>2 DEF Init, ListAt, Chained, Linked, Distinct, Ordered, Pending, Start
<1>4. Waiting("priority") = <<>> /\ Waiting("normal") = <<>>
  BY <1>1, <1>3 DEF WaitingExact, Segment
<1>5. Posted = [t \in Senders |-> 0]
  <2>1. \A t \in Senders : t \in Threads
    BY ThreadsAssumption DEF Senders
  <2>2. \A t \in Senders : PostedOf(t) = 0
    BY <2>1 DEF Init, PostedOf, Start
  <2> QED
    BY <2>2 DEF Posted
<1>6. Queues = [c \in {"normal", "priority"} |-> <<>>]
  BY <1>4 DEF Queues
<1> QED
  BY <1>5, <1>6 DEF Init, Abstract!ChatInit, Posted, Queues

(* As long as no push_pri goes behind tail, the list, the monitor and the  *)
(* threads implement the bounded store with two FIFO classes: no message   *)
(* is lost, shown twice or overtaken in its class, and none of the normal  *)
(* class is shown while a privileged one waits.                            *)
THEOREM BufferRefinesPriorityChat == Spec /\ []~staleTail => ImplementsPriorityChat
<1>1. Init => Abstract!ChatInit
  BY AbstractInit
<1>2. /\ Placed /\ Allocated /\ PromiseKept /\ ListTyped /\ ListKept /\ WaitingExact
      /\ WaitingExact' /\ ~staleTail /\ (~staleTail)' /\ [Next]_vars
      => [Abstract!ChatNext]_(Abstract!chatVars)
  <2> SUFFICES ASSUME Placed, Allocated, PromiseKept, ListTyped, ListKept, WaitingExact,
                      WaitingExact', ~staleTail, ~staleTail', [Next]_vars
               PROVE  [Abstract!ChatNext]_(Abstract!chatVars)
    OBVIOUS
  <2>1. CASE \E t \in Senders : Abstract!Post(t)
    BY <2>1 DEF Abstract!ChatNext
  <2>2. CASE \E c \in {"normal", "priority"} : Abstract!Show(c)
    BY <2>2 DEF Abstract!ChatNext
  <2>3. CASE Posted' = Posted /\ Queues' = Queues /\ console' = console
    BY <2>3 DEF Abstract!chatVars, Posted, Queues
  <2> QED
    BY <2>1, <2>2, <2>3, AbstractStep
<1>3. Spec => []WaitingExact
  BY BufferTyped, WaitingOfList, PTL
<1> QED
  BY <1>1, <1>2, <1>3, BufferPlaced, BufferAllocated, BufferPromiseKept, BufferTyped,
     BufferListKept, PTL DEF Spec, ImplementsPriorityChat, Abstract!ChatSpec

(* One privileged thread at most, which pushes one message at most.        *)
OnePrivileged == (\A t, u \in Privileged : t = u) /\ MaxPriPush <= 1

(* A privileged message in the list has been pushed by a thread that       *)
(* pushes no other one.                                                    *)
NeverStale ==
  /\ ~staleTail
  /\ \A t \in Privileged :
       /\ Pending(t) => i[t] = 0
       /\ pri_tail # NULL => pc[t] \in {"signal", "reenter", "leave"} \/ i[t] > 0

LEMMA NeverStaleStep ==
  ASSUME OnePrivileged, Placed, ListTyped, ListKept, NeverStale, [Next]_vars
  PROVE  NeverStale'
<1>1. \A u \in Privileged : u \in Threads /\ u \notin Consumers
  BY ThreadsAssumption
<1>2. ASSUME NEW t \in Threads, New(t) PROVE NeverStale'
  <2>1. t \in Privileged => i[t] = 0 /\ pri_tail = NULL
    <3> SUFFICES ASSUME t \in Privileged PROVE i[t] = 0 /\ pri_tail = NULL
      OBVIOUS
    <3>1. Loops(t) = MaxPriPush /\ i[t] < Loops(t) /\ pc[t] = "new" /\ i[t] \in Nat
      BY <1>1, <1>2 DEF Loops, New, Goto, ListTyped
    <3>2. i[t] = 0
      BY <3>1, BufferAssumption DEF OnePrivileged
    <3> QED
      BY <3>1, <3>2 DEF NeverStale
  <2>2. /\ pc' = [pc EXCEPT ![t] = "call"] /\ i' = i /\ pri_tail' = pri_tail
        /\ staleTail' = staleTail
    BY <1>2 DEF New, Goto, list
  <2> QED
    BY <1>1, <2>1, <2>2 DEF NeverStale, Pending, Placed
<1>3. ASSUME NEW t \in Threads, Pop(t) \/ Push(t) PROVE NeverStale'
  <2>1. /\ pc[t] = "body" /\ pc' = [pc EXCEPT ![t] = "signal"] /\ i' = i
        /\ pri_tail' \in {pri_tail, NULL} /\ staleTail' = staleTail
    BY <1>3 DEF Pop, Push, Goto
  <2> QED
    BY <1>1, <2>1 DEF NeverStale, Pending, Placed
<1>4. ASSUME NEW t \in Threads, PushPri(t) PROVE NeverStale'
  <2>1. /\ t \in Privileged /\ pc[t] = "body" /\ pc' = [pc EXCEPT ![t] = "signal"] /\ i' = i
        /\ staleTail' = (staleTail \/ (head # NULL /\ pri_tail = tail))
    BY <1>4 DEF PushPri, Goto
  <2>2. pri_tail = NULL
    <3>1. i[t] = 0
      BY <1>1, <2>1 DEF NeverStale, Pending
    <3> QED
      BY <2>1, <3>1 DEF NeverStale
  <2>3. head # NULL => tail # NULL
    <3> SUFFICES ASSUME head # NULL PROVE tail # NULL
      OBVIOUS
    <3>1. PICK n \in Nat : \E q : ListAt(q, n)
      BY DEF ListKept
    <3>2. PICK q : ListAt(q, n)
      BY <3>1
    <3>3. n > 0 /\ q \in [1..n -> live]
      BY <3>2 DEF ListAt, Chained, Linked
    <3>4. tail = q[n]
      BY <3>2, <3>3 DEF ListAt, Ordered, NeverStale
    <3> QED
      BY <3>3, <3>4, BufferAssumption DEF ListTyped
  <2>4. \A u \in Privileged : u = t
    BY <2>1 DEF OnePrivileged
  <2>5. pc'[t] = "signal"
    BY <2>1 DEF Placed
  <2> QED
    BY <2>1, <2>2, <2>3, <2>4, <2>5 DEF NeverStale, Pending
<1>5. ASSUME NEW t \in Threads, Otherwise(t), ~CallLeave(t) PROVE NeverStale'
  <2>1. i' = i /\ pri_tail' = pri_tail /\ staleTail' = staleTail
    BY <1>5 DEF Otherwise, CallEnter, CheckWait, CheckPass, WaitYield, WaitWake, SignalWaiter,
       SignalNobody, SignalReenter, list
  <2>2. ASSUME NEW u \in Privileged
        PROVE  /\ Pending(u)' => Pending(u)
               /\ pc[u] \in {"signal", "reenter", "leave"} =>
                    pc'[u] \in {"signal", "reenter", "leave"}
    BY <1>1, <1>5 DEF Otherwise, CallEnter, CheckWait, CheckPass, WaitYield, WaitWake,
       SignalWaiter, SignalNobody, SignalReenter, Goto, Placed, Pending
  <2> QED
    BY <2>1, <2>2 DEF NeverStale
<1>6. ASSUME NEW t \in Threads, CallLeave(t) PROVE NeverStale'
  <2>1. /\ pc[t] = "leave" /\ pc' = [pc EXCEPT ![t] = Start(t)]
        /\ i' = [i EXCEPT ![t] = @ + 1] /\ pri_tail' = pri_tail /\ staleTail' = staleTail
    BY <1>6 DEF CallLeave, Goto, list
  <2>2. ASSUME NEW u \in Privileged, u # t PROVE pc'[u] = pc[u] /\ i'[u] = i[u]
    BY <1>1, <2>1, <2>2 DEF Placed, ListTyped
  <2>3. t \in Privileged => ~Pending(t)' /\ i'[t] > 0
    BY <1>1, <2>1 DEF Pending, Start, Placed, ListTyped
  <2> QED
    BY <2>1, <2>2, <2>3 DEF NeverStale, Pending
<1>7. CASE UNCHANGED vars
  BY <1>7 DEF vars, NeverStale, Pending, list
<1> QED
  BY <1>2, <1>3, <1>4, <1>5, <1>6, <1>7 DEF Next, Step, Otherwise

(* With one privileged message at most no push_pri finds another one, and  *)
(* the buffer keeps the promise without any condition on the run.          *)
THEOREM BufferInOrder ==
  ASSUME OnePrivileged
  PROVE  Spec => ImplementsPriorityChat
<1>1. Init => NeverStale
  BY ThreadsAssumption DEF Init, NeverStale, Pending, Start
<1>2. Placed /\ ListTyped /\ ListKept /\ NeverStale /\ [Next]_vars => NeverStale'
  BY NeverStaleStep
<1>3. NeverStale => ~staleTail
  BY DEF NeverStale
<1> QED
  BY <1>1, <1>2, <1>3, BufferPlaced, BufferTyped, BufferListKept, BufferRefinesPriorityChat,
     PTL DEF Spec

=============================================================================
