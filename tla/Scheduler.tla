------------------------------ MODULE Scheduler ------------------------------
(***************************************************************************)
(* The two-group user scheduler of soi2/ (kernel/proc.c and system.c): the *)
(* user ready queue with its head, tail and next pointers, the rotation of *)
(* sched() between group A (0) and group B (1), and the system calls by    *)
(* which a process asks for its group or its time, changes its group or    *)
(* sets the divider.                                                       *)
(*                                                                         *)
(* lock_sched() holds interrupts back with the flag switching, so nothing  *)
(* else moves while the while(1) of sched() turns; each turn is one step.  *)
(* The clock task, MM and the processes are modelled by how they use this  *)
(* code: a process blocks, is made ready, forks, exits or calls at will.   *)
(***************************************************************************)
EXTENDS Integers, Sequences, FiniteSets, FiniteSetsExt

CONSTANTS
  NR_TASKS, NR_PROCS,   (* slots of tasks, and of servers and users        *)
  LOW_USER,             (* the number of INIT, the first user process      *)
  Pids,                 (* process identifiers that MM hands out           *)
  PERCENT,              (* what the shares of A and B add up to (100)      *)
  PERIOD,               (* turns of sched before the histories are cleared *)
                        (* (200)                                           *)
  INT_MAX,              (* the largest int, one less than -INT_MIN         *)
  MaxEvents,            (* bound: events other than the calls of sched     *)
  MaxPicks,             (* bound: picks counted in given                   *)
  NIL

Slots == 0 .. NR_TASKS + NR_PROCS - 1
UserSlots == NR_TASKS + LOW_USER .. NR_TASKS + NR_PROCS - 1
INIT == NR_TASKS + LOW_USER
Groups == {0, 1}

ASSUME SlotAssumption ==
  /\ NR_TASKS \in Nat /\ LOW_USER \in Nat /\ NR_PROCS \in Nat
  /\ LOW_USER < NR_PROCS
  /\ NIL \notin Slots
  /\ Pids \subseteq Nat \ {0, 1}

ASSUME NumberAssumption ==
  /\ PERCENT \in Nat \ {0, 1} /\ PERIOD \in Nat \ {0}
  /\ INT_MAX \in Nat /\ PERIOD < INT_MAX
  /\ MaxEvents \in Nat /\ MaxPicks \in Nat

VARIABLES
  isuser,       (* isuser[p]: p_priority of slot p is PPRI_USER            *)
  p_pid,        (* p_pid[p]: the pid last installed in slot p              *)
  pri_group,    (* pri_group[p]                                            *)
  blocked,      (* blocked[p]: p_flags of slot p is not 0                  *)
  rdy_head, rdy_tail, p_nextready,        (* the queue USER_Q              *)
  scheduler_divider,
  a_history, b_history, sum,              (* the statics of sched          *)
  switching,    (* the loop of sched is turning                            *)
  reply,        (* what the last system call returned                      *)
  events,       (* events so far                                           *)
  given         (* history: given[g] counts the picks of group g since the *)
                (* last event                                              *)

table == <<isuser, p_pid, pri_group, blocked>>
queue == <<rdy_head, rdy_tail, p_nextready>>
stats == <<a_history, b_history, sum>>
vars  == <<table, queue, scheduler_divider, stats, switching, reply, events, given>>

(* INIT is the only user process and is ready.                             *)
Init ==
  /\ isuser = [p \in UserSlots |-> p = INIT]
  /\ p_pid = [p \in Slots |-> IF p = INIT THEN 1 ELSE 0]
  /\ pri_group = [p \in Slots |-> 0]
  /\ blocked = [p \in UserSlots |-> FALSE]
  /\ rdy_head = INIT /\ rdy_tail = INIT
  /\ p_nextready = [p \in UserSlots |-> NIL]
  /\ scheduler_divider = PERCENT \div 2
  /\ a_history = 0 /\ b_history = 0 /\ sum = 0
  /\ switching = FALSE
  /\ reply = 0
  /\ events = 0
  /\ given = [g \in Groups |-> 0]

-----------------------------------------------------------------------------
(* The user queue.                                                         *)

(* The n-th process of the queue, NIL behind its end.                      *)
Nth[n \in 0 .. NR_PROCS] ==
  IF n = 0 THEN rdy_head
  ELSE IF Nth[n - 1] = NIL THEN NIL ELSE p_nextready[Nth[n - 1]]

(* Mutation of ready: the tail of an empty queue is not set.               *)
ready_StaleTail(p) ==
  /\ p_nextready' = [p_nextready EXCEPT ![p] = rdy_head]
  /\ rdy_head' = p
  /\ UNCHANGED rdy_tail

(* ready(): a user process goes to the front.                              *)
ready(p) ==
  /\ rdy_tail' = IF rdy_head = NIL THEN p ELSE rdy_tail
  /\ p_nextready' = [p_nextready EXCEPT ![p] = rdy_head]
  /\ rdy_head' = p

(* unready(): the head is dropped without a look at the tail, a process    *)
(* further back is searched for.                                           *)
unready(p) ==
  \/ /\ rdy_head = p
     /\ rdy_head' = p_nextready[p]
     /\ UNCHANGED <<rdy_tail, p_nextready>>
  \/ /\ rdy_head # p
     /\ \E n \in 0 .. NR_PROCS - 1 :
          /\ Nth[n + 1] = p
          /\ p_nextready' = [p_nextready EXCEPT ![Nth[n]] = p_nextready[p]]
          /\ rdy_tail' = IF rdy_tail = p THEN Nth[n] ELSE rdy_tail
     /\ UNCHANGED rdy_head
  \/ /\ \A n \in 0 .. NR_PROCS : Nth[n] # p
     /\ UNCHANGED queue

-----------------------------------------------------------------------------
(* Events between two calls of sched.                                      *)

Event ==
  /\ ~switching
  /\ events < MaxEvents
  /\ events' = events + 1
  /\ given' = [g \in Groups |-> 0]
  /\ UNCHANGED switching

(* A process blocks in a system call, or is stopped by a signal.           *)
Block(p) ==
  /\ isuser[p] /\ ~blocked[p]
  /\ Event
  /\ blocked' = [blocked EXCEPT ![p] = TRUE]
  /\ unready(p)
  /\ UNCHANGED <<isuser, p_pid, pri_group, scheduler_divider, stats, reply>>

(* It gets its reply, its memory map or its signal.                        *)
Unblock(p) ==
  /\ isuser[p] /\ blocked[p]
  /\ Event
  /\ blocked' = [blocked EXCEPT ![p] = FALSE]
  /\ ready(p)
  /\ UNCHANGED <<isuser, p_pid, pri_group, scheduler_divider, stats, reply>>

(* p waits for MM while MM and SYSTASK work for it.                        *)
Calls(p) == isuser[p] /\ blocked[p]

(* MM picks a pid that no live process has; the child is not yet mapped.   *)
do_fork(p, child, pid) ==
  /\ Calls(p)
  /\ ~isuser[child]
  /\ \A q \in UserSlots : isuser[q] => p_pid[q] # pid
  /\ Event
  /\ isuser' = [isuser EXCEPT ![child] = TRUE]
  /\ p_pid' = [p_pid EXCEPT ![child] = pid]
  /\ pri_group' = [pri_group EXCEPT ![child] = pid % 2]
  /\ blocked' = [blocked EXCEPT ![child] = TRUE]
  /\ p_nextready' = [p_nextready EXCEPT ![child] = p_nextready[p]]
  /\ UNCHANGED <<rdy_head, rdy_tail, scheduler_divider, stats, reply>>

(* The slot is emptied; its p_pid stays.                                   *)
do_xit(p) ==
  /\ isuser[p] /\ p # INIT
  /\ Event
  /\ isuser' = [isuser EXCEPT ![p] = FALSE]
  /\ blocked' = [blocked EXCEPT ![p] = FALSE]
  /\ IF blocked[p] THEN UNCHANGED queue ELSE unready(p)
  /\ UNCHANGED <<p_pid, pri_group, scheduler_divider, stats, reply>>

(* The slots that the loops for(i = 0; i < NR_PROCS; i++) of system.c find *)
(* under the pid of the caller p: the first one is taken.                  *)
Hits(p) == {n \in 0 .. NR_PROCS - 1 : p_pid[n] = p_pid[p]}
Hit(p) == Min(Hits(p))

do_getprigroup(p) ==
  /\ Calls(p)
  /\ Event
  /\ reply' = IF Hits(p) = {} THEN -1 ELSE pri_group[Hit(p)]
  /\ UNCHANGED <<table, queue, scheduler_divider, stats>>

do_changeprigroup(p) ==
  /\ Calls(p)
  /\ Event
  /\ \/ /\ Hits(p) = {}
        /\ reply' = -1
        /\ UNCHANGED pri_group
     \/ /\ Hits(p) # {}
        /\ reply' = 1 - pri_group[Hit(p)]
        /\ pri_group' = [pri_group EXCEPT ![Hit(p)] = 1 - @]
  /\ UNCHANGED <<isuser, p_pid, blocked, queue, scheduler_divider, stats>>

(* Only a process of group A may, and only to 1 .. PERCENT - 1.  The       *)
(* histories of sched are left as they are.                                *)
do_setscheduler(p, arg) ==
  LET allowed == Hits(p) # {} /\ pri_group[Hit(p)] = 0 /\ 0 < arg /\ arg < PERCENT
  IN  /\ Calls(p)
      /\ Event
      /\ reply' = IF Hits(p) = {} THEN -1
                  ELSE IF pri_group[Hit(p)] # 0 THEN -2
                  ELSE IF ~allowed THEN -3 ELSE 0
      /\ scheduler_divider' = IF allowed THEN arg ELSE scheduler_divider
      /\ UNCHANGED <<table, queue, stats>>

(* The accounting times are left out: 0 stands for the user_time of the    *)
(* slot that is found.                                                     *)
do_getusagetime(p) ==
  /\ Calls(p)
  /\ Event
  /\ reply' = IF Hits(p) = {} THEN -1 ELSE 0
  /\ UNCHANGED <<table, queue, scheduler_divider, stats>>

-----------------------------------------------------------------------------
(* sched().                                                                *)

(* lock_sched() is called while some user process is ready.                *)
Sched ==
  /\ ~switching
  /\ rdy_head # NIL
  /\ switching' = TRUE
  /\ UNCHANGED <<table, queue, scheduler_divider, stats, reply, events, given>>

(* ++sum: sum is never set back and wraps around at the end of int.        *)
NextSum == IF sum = INT_MAX THEN -INT_MAX - 1 ELSE sum + 1

(* Mutation of Histories: only the history of group A is cleared.          *)
Histories_OnlyA ==
  [g \in Groups |-> IF g = 1 THEN b_history ELSE IF NextSum > PERIOD THEN 0 ELSE a_history]

(* The histories that a turn compares with the shares.                     *)
Histories ==
  [g \in Groups |-> IF NextSum > PERIOD THEN 0 ELSE IF g = 0 THEN a_history ELSE b_history]

(* What the divider leaves to a group: a_pri and b_pri.                    *)
Share(g) == IF g = 0 THEN scheduler_divider ELSE PERCENT - scheduler_divider

(* Mutation of Exhausted: the shares are not looked at.                    *)
Exhausted_Never(g) == FALSE

(* The group has had its picks of this period: the loop continues.         *)
Exhausted(g) == Histories[g] > Share(g)

(* Mutation of TurnQueue: the old head is not made the tail.               *)
TurnQueue_OldTail ==
  LET linked == [p_nextready EXCEPT ![rdy_tail] = rdy_head]
  IN  /\ rdy_head' = linked[rdy_head]
      /\ p_nextready' = [linked EXCEPT ![rdy_head] = NIL]
      /\ UNCHANGED rdy_tail

(* The head becomes the tail.                                              *)
TurnQueue ==
  LET linked == [p_nextready EXCEPT ![rdy_tail] = rdy_head]
  IN  /\ rdy_tail' = rdy_head
      /\ rdy_head' = linked[rdy_head]
      /\ p_nextready' = [linked EXCEPT ![rdy_head] = NIL]

(* The group of the process that this turn brings to the front.            *)
Front == pri_group[rdy_head']

(* A turn that does not find a process to run.                             *)
Skip ==
  /\ switching
  /\ sum' = NextSum
  /\ TurnQueue
  /\ Exhausted(Front)
  /\ a_history' = Histories[0] /\ b_history' = Histories[1]
  /\ UNCHANGED <<table, scheduler_divider, switching, reply, events, given>>

(* The turn that picks the process at the front.                           *)
Pick ==
  /\ switching
  /\ sum' = NextSum
  /\ TurnQueue
  /\ ~Exhausted(Front)
  /\ a_history' = Histories[0] + (1 - Front)
  /\ b_history' = Histories[1] + Front
  /\ switching' = FALSE
  /\ given' = IF given[0] + given[1] < MaxPicks
              THEN [given EXCEPT ![Front] = @ + 1] ELSE given
  /\ UNCHANGED <<table, scheduler_divider, reply, events>>

Next ==
  \/ \E p \in UserSlots :
       \/ Block(p) \/ Unblock(p) \/ do_xit(p)
       \/ do_getprigroup(p) \/ do_changeprigroup(p) \/ do_getusagetime(p)
       \/ \E arg \in 0 .. PERCENT : do_setscheduler(p, arg)
       \/ \E child \in UserSlots, pid \in Pids : do_fork(p, child, pid)
  \/ Sched \/ Skip \/ Pick

Spec == Init /\ [][Next]_vars

(* The clock calls sched again and again, and a loop that has begun turns  *)
(* until it breaks.                                                        *)
FairSpec == Spec /\ WF_vars(Sched) /\ WF_vars(Skip \/ Pick)

-----------------------------------------------------------------------------
(* Properties.                                                             *)

(* The type invariant: the divider leaves both groups a share, and neither *)
(* history passes the share that the other group's minimum leaves.         *)
TypeOK ==
  /\ isuser \in [UserSlots -> BOOLEAN]
  /\ p_pid \in [Slots -> Pids \cup {0, 1}]
  /\ pri_group \in [Slots -> Groups]
  /\ blocked \in [UserSlots -> BOOLEAN]
  /\ rdy_head \in UserSlots \cup {NIL} /\ rdy_tail \in UserSlots
  /\ p_nextready \in [UserSlots -> UserSlots \cup {NIL}]
  /\ scheduler_divider \in 1 .. PERCENT - 1
  /\ a_history \in 0 .. PERCENT /\ b_history \in 0 .. PERCENT
  /\ sum \in -INT_MAX - 1 .. INT_MAX
  /\ switching \in BOOLEAN
  /\ reply \in -3 .. 1
  /\ events \in 0 .. MaxEvents
  /\ given \in [Groups -> 0 .. MaxPicks]

Ready(p) == isuser[p] /\ ~blocked[p]

(* However ready, unready, do_xit and the turns of sched interleave, the   *)
(* pointers from rdy_head visit every ready user process once, end, and    *)
(* rdy_tail is the last of them; no process that blocked, was killed or    *)
(* exited is left on the queue, and none that is ready is lost from it.    *)
QueueExact ==
  LET onQueue == {p \in UserSlots : Ready(p)}
      length  == Cardinality(onQueue)
  IN  /\ {Nth[n] : n \in 0 .. length - 1} = onQueue
      /\ Nth[length] = NIL
      /\ onQueue # {} => rdy_tail = Nth[length - 1]

(* The while(1) of sched, which runs with switching set and so with every  *)
(* interrupt held, always comes to its break: also when all ready          *)
(* processes are of a group that has used up its share.                    *)
SpinEnds == switching ~> ~switching

(* A user process that stays ready is picked again and again, whatever the *)
(* groups, the divider and the histories.                                  *)
Served ==
  \A p \in UserSlots :
    <>[]Ready(p) => []<>(rdy_head = p /\ ~switching)

(* While each group has a ready process and nothing but sched happens, no  *)
(* group is picked more often than its share of the time, up to the one    *)
(* pick by which sched lets a group exceed it and up to one period.        *)
ShareKept ==
  (\A g \in Groups : \E p \in UserSlots : Ready(p) /\ pri_group[p] = g)
    => \A g \in Groups :
         given[g] * (PERCENT + 2)
           <= (Share(g) + 1) * (given[0] + given[1]) + PERCENT * (PERCENT + 2)

(* A process that asks for its priority group is told its own.             *)
OwnGroup == [][\A p \in UserSlots : do_getprigroup(p) => reply' = pri_group[p]]_vars
=============================================================================
