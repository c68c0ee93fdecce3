---------------------------- MODULE MessageBuffer ----------------------------
(***************************************************************************)
(* The message buffer of soi4/: a linked list of messages behind the       *)
(* monitor of module Monitor, with the threads of main.cpp as its clients. *)
(* Every monitor call is the action of Monitor; what a thread does between *)
(* two monitor calls is one step, which is sound because OneToken holds.   *)
(*                                                                         *)
(* Messages live in heap cells.  A cell keeps its next pointer when it is  *)
(* freed, and new may hand out any cell that is not live, so a write       *)
(* through a stale pointer lands where it would land in the program.       *)
(***************************************************************************)
EXTENDS Monitor, Integers, Sequences

CONSTANTS
  Producers,    (* threads that run producer                               *)
  Privileged,   (* threads that run privileged_producer                    *)
  Consumers,    (* threads that run consumer                               *)
  Cells,        (* heap cells that new Message can return                  *)
  NULL,
  CAPACITY,
  MaxPush,      (* bound: messages of one producer (100 in the code)       *)
  MaxPriPush,   (* bound: messages of one privileged producer (100)        *)
  MaxPop        (* bound: pops of one consumer (1000 in the code)          *)

ASSUME ThreadsAssumption ==
  /\ Threads = Producers \cup Privileged \cup Consumers
  /\ Producers \cap Consumers = {} /\ Privileged \cap Consumers = {}
  /\ Producers \cap Privileged = {}
  /\ Conditions = {"prod", "cons"}

ASSUME BufferAssumption ==
  /\ NULL \notin Cells /\ IsFiniteSet(Cells)
  /\ {CAPACITY, MaxPush, MaxPriPush, MaxPop} \subseteq Nat
  /\ CAPACITY > 0

VARIABLES
  text,         (* text[a]: the text of the message in cell a              *)
  next,         (* next[a]: its next pointer                               *)
  live,         (* the cells between new and delete                        *)
  head, pri_tail, tail,       (* the three pointers of the buffer          *)
  buffer_occupancy,           (* its message counter                       *)
  pc,           (* pc[t]: where thread t is                                *)
  i,            (* i[t]: its loop counter                                  *)
  new_msg,      (* new_msg[t]: the message a producer has allocated        *)
  console,      (* what the consumers have printed                         *)
  staleTail     (* history, read by no action: a push_pri has linked a     *)
                (* message behind the one tail points to                   *)

heap   == <<text, next, live>>
list   == <<head, pri_tail, tail, buffer_occupancy>>
vars   == <<monitorVars, heap, list, pc, i, new_msg, console, staleTail>>

Goto(t, from, to) ==
  /\ pc[t] = from
  /\ pc' = [pc EXCEPT ![t] = to]

Start(t) == IF t \in Consumers THEN "call" ELSE "new"

Loops(t) ==
  IF t \in Consumers THEN MaxPop
  ELSE IF t \in Privileged THEN MaxPriPush
  ELSE MaxPush

(* new MessageBuffer, and the threads of a scenario of main.               *)
Init ==
  /\ MonitorInit
  /\ on = [t \in Threads |-> IF t \in Consumers THEN "cons" ELSE "prod"]
  /\ text = [a \in Cells |-> <<>>]
  /\ next = [a \in Cells |-> NULL]
  /\ live = {}
  /\ head = NULL /\ pri_tail = NULL /\ tail = NULL
  /\ buffer_occupancy = 0
  /\ pc = [t \in Threads |-> Start(t)]
  /\ i = [t \in Threads |-> 0]
  /\ new_msg = [t \in Threads |-> NULL]
  /\ console = <<>>
  /\ staleTail = FALSE

-----------------------------------------------------------------------------
(* new Message(msg_content), before a producer calls push or push_pri.     *)
New(t) ==
  /\ t \notin Consumers
  /\ i[t] < Loops(t)
  /\ Goto(t, "new", "call")
  /\ \E a \in Cells \ live :
       /\ live' = live \cup {a}
       /\ text' = [text EXCEPT ![a] = <<t, i[t]>>]
       /\ next' = [next EXCEPT ![a] = NULL]
       /\ new_msg' = [new_msg EXCEPT ![t] = a]
  /\ UNCHANGED <<monitorVars, list, i, console, staleTail>>

(* The first line of pop, push and push_pri.                               *)
CallEnter(t) ==
  /\ i[t] < Loops(t)
  /\ Goto(t, "call", "check")
  /\ Enter(t)
  /\ UNCHANGED <<heap, list, i, new_msg, console, staleTail>>

(* The condition a thread waits on.                                        *)
WaitsOn(t) == IF t \in Consumers THEN "cons" ELSE "prod"

(* Mutation of Signals: every thread signals its own kind.                 *)
Signals_OwnKind(t) == IF t \in Consumers THEN "cons" ELSE "prod"

(* The condition a thread signals.                                         *)
Signals(t) == IF t \in Consumers THEN "prod" ELSE "cons"

(* Mutation of MustWait: one message too many.                             *)
MustWait_OneOver(t) ==
  IF t \in Consumers THEN head = NULL ELSE buffer_occupancy = CAPACITY + 1

(* head == NULL in pop, buffer_occupancy == CAPACITY in push and push_pri  *)
MustWait(t) ==
  IF t \in Consumers THEN head = NULL ELSE buffer_occupancy = CAPACITY

(* The test, and the first line of wait.                                   *)
CheckWait(t) ==
  /\ MustWait(t)
  /\ Goto(t, "check", "wait")
  /\ CountIn(t, WaitsOn(t))
  /\ UNCHANGED <<heap, list, i, new_msg, console, staleTail>>

CheckPass(t) ==
  /\ ~MustWait(t)
  /\ Goto(t, "check", "body")
  /\ UNCHANGED <<monitorVars, heap, list, i, new_msg, console, staleTail>>

WaitYield(t) ==
  /\ pc[t] = "wait"
  /\ Yield(t)
  /\ UNCHANGED <<heap, list, pc, i, new_msg, console, staleTail>>

(* wait returns; the test is an if, not a while: it is not made again.     *)
WaitWake(t) ==
  /\ Goto(t, "wait", "body")
  /\ Wake(t)
  /\ UNCHANGED <<heap, list, i, new_msg, console, staleTail>>

(* Mutation of Pop: pri_tail is left behind.                               *)
Pop_KeepsPriTail(t) ==
  /\ t \in Consumers
  /\ Goto(t, "body", "signal")
  /\ head' = next[head]
  /\ buffer_occupancy' = buffer_occupancy - 1
  /\ console' = Append(console, text[head])
  /\ live' = live \ {head}
  /\ UNCHANGED <<monitorVars, text, next, pri_tail, tail, i, new_msg, staleTail>>

(* Mutation of Pop: the message is not counted off.                        *)
Pop_KeepsCount(t) ==
  /\ t \in Consumers
  /\ Goto(t, "body", "signal")
  /\ pri_tail' = IF pri_tail = head THEN NULL ELSE pri_tail
  /\ head' = next[head]
  /\ console' = Append(console, text[head])
  /\ live' = live \ {head}
  /\ UNCHANGED <<monitorVars, text, next, tail, buffer_occupancy, i, new_msg, staleTail>>

(* The middle of pop: unlink, print and delete the first message.          *)
Pop(t) ==
  /\ t \in Consumers
  /\ Goto(t, "body", "signal")
  /\ pri_tail' = IF pri_tail = head THEN NULL ELSE pri_tail
  /\ head' = next[head]
  /\ buffer_occupancy' = buffer_occupancy - 1
  /\ console' = Append(console, text[head])
  /\ live' = live \ {head}
  /\ UNCHANGED <<monitorVars, text, next, tail, i, new_msg, staleTail>>

(* Mutation of Push: the message goes in front.                            *)
Push_InFront(t) ==
  LET m == new_msg[t]
  IN  /\ t \in Producers
      /\ Goto(t, "body", "signal")
      /\ next' = [next EXCEPT ![m] = head]
      /\ head' = m
      /\ tail' = IF head = NULL THEN m ELSE tail
      /\ buffer_occupancy' = buffer_occupancy + 1
      /\ UNCHANGED <<monitorVars, pri_tail, text, live, i, new_msg, console, staleTail>>

(* The middle of push.                                                     *)
Push(t) ==
  LET m == new_msg[t]
  IN  /\ t \in Producers
      /\ Goto(t, "body", "signal")
      /\ \/ /\ head # NULL
            /\ next' = [next EXCEPT ![tail] = m, ![m] = NULL]
            /\ UNCHANGED <<head, pri_tail>>
         \/ /\ head = NULL
            /\ next' = [next EXCEPT ![m] = NULL]
            /\ head' = m
            /\ pri_tail' = NULL
      /\ tail' = m
      /\ buffer_occupancy' = buffer_occupancy + 1
      /\ UNCHANGED <<monitorVars, text, live, i, new_msg, console, staleTail>>

(* The middle of push_pri: behind the last privileged message if there is  *)
(* one, else in front.                                                     *)
PushPri(t) ==
  LET m == new_msg[t]
  IN  /\ t \in Privileged
      /\ Goto(t, "body", "signal")
      /\ \/ /\ head # NULL /\ pri_tail # NULL
            /\ next' = [next EXCEPT ![m] = next[pri_tail], ![pri_tail] = m]
            /\ UNCHANGED <<head, tail>>
         \/ /\ head # NULL /\ pri_tail = NULL
            /\ next' = [next EXCEPT ![m] = head]
            /\ head' = m
            /\ UNCHANGED tail
         \/ /\ head = NULL
            /\ next' = [next EXCEPT ![m] = NULL]
            /\ head' = m
            /\ tail' = m
      /\ pri_tail' = m
      /\ buffer_occupancy' = buffer_occupancy + 1
      /\ staleTail' = (staleTail \/ (head # NULL /\ pri_tail = tail))
      /\ UNCHANGED <<monitorVars, text, live, i, new_msg, console>>

(* signal(prod) or signal(cons) with a thread waiting.                     *)
SignalWaiter(t) ==
  /\ Goto(t, "signal", "reenter")
  /\ Signal(t, Signals(t))
  /\ UNCHANGED <<heap, list, i, new_msg, console, staleTail>>

(* Mutation of SignalNobody: the signal is skipped.                        *)
SignalNobody_Skips(t) ==
  /\ Goto(t, "signal", "leave")
  /\ UNCHANGED <<monitorVars, heap, list, i, new_msg, console, staleTail>>

(* The same without one.                                                   *)
SignalNobody(t) ==
  /\ waitingCount[Signals(t)] = 0
  /\ Goto(t, "signal", "leave")
  /\ UNCHANGED <<monitorVars, heap, list, i, new_msg, console, staleTail>>

SignalReenter(t) ==
  /\ Goto(t, "reenter", "leave")
  /\ Reenter(t)
  /\ UNCHANGED <<heap, list, i, new_msg, console, staleTail>>

(* The last line of the three methods, and the next turn of the loop.      *)
CallLeave(t) ==
  /\ Goto(t, "leave", Start(t))
  /\ Leave(t)
  /\ i' = [i EXCEPT ![t] = @ + 1]
  /\ UNCHANGED <<heap, list, new_msg, console, staleTail>>

Step(t) ==
  \/ New(t) \/ CallEnter(t)
  \/ CheckWait(t) \/ CheckPass(t) \/ WaitYield(t) \/ WaitWake(t)
  \/ Pop(t) \/ Push(t) \/ PushPri(t)
  \/ SignalWaiter(t) \/ SignalNobody(t) \/ SignalReenter(t)
  \/ CallLeave(t)

Next == \E t \in Threads : Step(t)

Spec == Init /\ [][Next]_vars

(* A thread that can run does.  sem_wait gives no order among its waiters, *)
(* but the loops are finite, so that no strong fairness is needed.         *)
FairSpec == Spec /\ \A t \in Threads : WF_vars(Step(t))

-----------------------------------------------------------------------------
(* Properties.                                                             *)

Senders == Producers \cup Privileged
Messages == Senders \X Nat

(* Every variable has its type; the occupancy never leaves 0..CAPACITY.    *)
TypeOK ==
  /\ MonitorTypeOK
  /\ text \in [Cells -> Messages \cup {<<>>}]
  /\ next \in [Cells -> Cells \cup {NULL}]
  /\ live \in SUBSET Cells
  /\ {head, pri_tail, tail} \subseteq Cells \cup {NULL}
  /\ buffer_occupancy \in 0..CAPACITY
  /\ pc \in [Threads -> {"new", "call", "check", "wait", "body", "signal", "reenter", "leave"}]
  /\ i \in [Threads -> Nat]
  /\ new_msg \in [Threads -> Cells \cup {NULL}]
  /\ console \in Seq(Messages)
  /\ staleTail \in BOOLEAN

(* wait(cons) and wait(prod) are called under an if, not a while: when a   *)
(* thread goes on to change the list, what it waited for must still hold,  *)
(* whoever ran between the signal and its return from wait.                *)
ConditionHolds == \A t \in Threads : pc[t] = "body" => ~MustWait(t)

(* A thread sleeps in wait(cons) only while the buffer is empty, in        *)
(* wait(prod) only while it is full, unless somebody inside the monitor is *)
(* about to signal: no wake-up is missed.                                  *)
NoMissedSignal ==
  /\ waitingCount["cons"] > 0 =>
       head = NULL \/ \E t \in Senders : pc[t] = "signal" \/ at[t] = "reentering"
  /\ waitingCount["prod"] > 0 =>
       \/ buffer_occupancy = CAPACITY
       \/ \E t \in Consumers : pc[t] = "signal" \/ at[t] = "reentering"

(* Consumers test head and producers the counter, and the two disagree     *)
(* once a push has cut the list. Even so nobody sleeps in wait(prod) while *)
(* somebody sleeps in wait(cons): never is everybody asleep with messages  *)
(* still to come.                                                          *)
NeverBothAsleep == waitingCount["cons"] = 0 \/ waitingCount["prod"] = 0

(* The cells that next links from head on, NULL from the end on.           *)
Chain[k \in 0..Cardinality(Cells)] ==
  IF k = 0 THEN head
  ELSE IF Chain[k - 1] = NULL THEN NULL ELSE next[Chain[k - 1]]

Length == Cardinality({k \in 0..Cardinality(Cells) : Chain[k] # NULL})

Contents == [k \in 1..Length |-> Chain[k - 1]]

Ranked(a) == text[a][1] \in Privileged

(* As long as no push_pri has gone behind tail, the list is what its       *)
(* three pointers and its counter say: occupancy cells, all of them live,  *)
(* privileged ones first, pri_tail the last of those, tail the last of all *)
(* ("poczatek listy, ostatni element priorytetowy oraz ostatni element     *)
(* listy").                                                                *)
ListExact ==
  LET n == Len(Contents)
      p == Cardinality({k \in 1..n : Ranked(Contents[k])})
  IN  staleTail \/
      /\ n = buffer_occupancy
      /\ \A k \in 1..n : Contents[k] \in live /\ (Ranked(Contents[k]) <=> k <= p)
      /\ pri_tail = IF p = 0 THEN NULL ELSE Contents[p]
      /\ n > 0 => tail = Contents[n]

(* "niezawodne zbieranie od klientow wiadomosci": a message that a push    *)
(* has returned from is in the list or has been printed.                   *)
NothingLost ==
  \A t \in Senders : \A k \in 0..i[t]-1 :
    \/ \E n \in 1..Len(console) : console[n] = <<t, k>>
    \/ \E n \in 1..Len(Contents) : text[Contents[n]] = <<t, k>>

(* The promise: one bounded store with two FIFO classes.                   *)
PostedOf(t) == IF pc[t] \in {"signal", "reenter", "leave"} THEN i[t] + 1 ELSE i[t]

(* The j-th of a set of positive numbers.                                  *)
Nth(S, j) == CHOOSE k \in S : Cardinality(S \cap 1..k) = j

(* Where the messages of class c are in the list, and what they say, in    *)
(* their order.                                                            *)
OfClass(c) == {k \in 1..Len(Contents) : Ranked(Contents[k]) <=> c = "priority"}

Waiting(c) ==
  [j \in 1..Cardinality(OfClass(c)) |-> text[Contents[Nth(OfClass(c), j)]]]

Abstract == INSTANCE PriorityChat WITH
  Class    <- [t \in Senders |-> IF t \in Privileged THEN "priority" ELSE "normal"],
  Shared   <- TRUE,
  Capacity <- CAPACITY,
  posted   <- [t \in Senders |-> PostedOf(t)],
  queue    <- [c \in {"normal", "priority"} |-> Waiting(c)]

(* While at most one privileged message is in play, the list, the monitor  *)
(* and the threads implement the bounded two-class queue.                  *)
ImplementsPriorityChat == Abstract!ChatSpec

(* Every message is printed in the end, and every producer finishes: the   *)
(* hand-overs of the monitor never leave everybody asleep.                 *)
AllCollected ==
  <>(\A t \in Senders :
       /\ i[t] = Loops(t)
       /\ \A k \in 0..Loops(t)-1 : \E n \in 1..Len(console) : console[n] = <<t, k>>)
=============================================================================
