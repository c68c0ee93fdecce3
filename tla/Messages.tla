------------------------------ MODULE Messages ------------------------------
(***************************************************************************)
(* The kernel of soi2/ with its system task and the start and main loop of *)
(* MM: message passing (sys_call, mini_send, mini_rec), interrupts         *)
(* (interrupt, unhold), the three ready queues (ready, unready, pick_proc, *)
(* lock_sched) of kernel/proc.c, signals (cause_sig, inform) and the loop  *)
(* of SYSTASK with the calls of kernel/system.c that change p_flags.       *)
(*                                                                         *)
(* The functions of the kernel are operators on its state K (Kernel), so   *)
(* that they call each other as in the code. A kernel call runs with other *)
(* switching held back, so each is one step; an interrupt that comes in    *)
(* the middle of it touches only the held queue and is put after it        *)
(* (Hold). A ready queue is the sequence that its links spell (Scheduler   *)
(* has the links of the users' queue, and how far a sched turns it).       *)
(*                                                                         *)
(* FS, the drivers and the users are not in the repository: the set Calls  *)
(* says what they may ask for.                                             *)
(***************************************************************************)
EXTENDS Integers, Sequences, FiniteSets, FiniteSetsExt, SequencesExt, Functions

CONSTANTS
  Tasks,        (* numbers of the tasks, HARDWARE and SYSTASK among them   *)
  LastUser,     (* the number of the last user slot                        *)
  Drivers,      (* tasks that are started by interrupts                    *)
  Killers,      (* tasks that call cause_sig and lock_sched (TTY, CLOCK)   *)
  Calls,        (* the system calls <<caller, function, src_dest>>         *)
  Sigs,         (* signal numbers                                          *)
  MaxPendcount, (* bound: signals of a process not finished by MM          *)
  ANY, NIL

HARDWARE == -1
SYSTASK == -2
IDLE == -6
MM_PROC_NR == 0
FS_PROC_NR == 1
INIT_PROC_NR == 2

Servers == {MM_PROC_NR, FS_PROC_NR}
Users == INIT_PROC_NR .. LastUser
Procs == Tasks \union Servers \union Users
Flags == {"NO_MAP", "SENDING", "RECEIVING", "PENDING", "SIG_PENDING", "P_STOP"}
CallKinds == {"SEND", "RECEIVE", "BOTH"}
ASSUME ProcAssumption ==
  /\ Tasks \subseteq {n \in Int : n < 0} \ {IDLE} /\ {HARDWARE, SYSTASK} \subseteq Tasks
  /\ IsFiniteSet(Tasks)
  /\ LastUser \in Int /\ LastUser >= INIT_PROC_NR
  /\ Drivers \subseteq Tasks \ {HARDWARE, SYSTASK}
  /\ Killers \subseteq Tasks \ {HARDWARE, SYSTASK}
  /\ {ANY, NIL} \intersect (Procs \union {IDLE}) = {}

(* Nobody sends to itself or to HARDWARE; only a user, who is refused,     *)
(* would send to ANY. MM and SYSTASK call as their loops say. A server or  *)
(* a task answers a user but asks nothing of it, and SYSTASK is asked by   *)
(* MM and FS (the sys_xxx of system.c:1-6), who wait for the answer.       *)
ASSUME CallAssumption ==
  /\ Calls \subseteq (Procs \ {HARDWARE, SYSTASK}) \X CallKinds \X (Procs \union {ANY})
  /\ \A k \in Calls :
       /\ k[1] # k[3]
       /\ k[2] # "RECEIVE" => k[3] # HARDWARE
       /\ k[2] # "RECEIVE" /\ k[3] = ANY => k[1] \in Users
       /\ k[1] = MM_PROC_NR => k[2] = "BOTH"
       /\ k[2] = "BOTH" /\ k[3] \in Users => k[1] \in Users
       /\ k[2] # "RECEIVE" /\ k[3] = SYSTASK => k[2] = "BOTH" /\ k[1] \in Servers \union Users
  /\ MaxPendcount \in Nat

VARIABLES
  proc,         (* the process table                                       *)
  rdy,          (* the ready queues TASK_Q, SERVER_Q and USER_Q            *)
  proc_ptr,     (* the process that runs                                   *)
  sig_procs,    (* processes with a pending signal, as the kernel counts   *)
  told,         (* told[u]: signals of u that MM knows and has not finished*)
  m,            (* the static message of system.c: of whom, and what is in *)
                (* it; "lost" is a request or a reply overwritten by inform*)
  due,          (* history: interrupts since the last HARD_INT message     *)
  mode,         (* "out": processes run; "kernel": between a call or an    *)
                (* interrupt and the end of restart(); "switching": a task *)
                (* is inside a lock_ operation                             *)
  held,         (* the held queue; p_int_held[t] is: t is in it            *)
  unholding,    (* the task that unhold() has taken from it, or NIL        *)
  mm_at,        (* MM: "mm_init", "sync" (it has heard from FS), "work"    *)
                (* on a message, or "loop": between two                    *)
  replies       (* the users with REPLY set in the table of MM             *)

kernel == <<proc, rdy, proc_ptr, sig_procs, told, m, due>>
interrupts == <<held, unholding>>
mm == <<mm_at, replies>>
vars == <<kernel, mode, interrupts, mm>>

Slot(priority) ==
  [p_priority |-> priority, p_flags |-> {}, p_sendto |-> NIL, p_getfrom |-> NIL,
   p_callerq |-> <<>>, p_int_blocked |-> FALSE, p_pending |-> {}, p_pendcount |-> 0]

(* The state of the kernel that its functions work on.                     *)
Kernel == [proc |-> proc, rdy |-> rdy, proc_ptr |-> proc_ptr, sig_procs |-> sig_procs,
           told |-> told, m |-> m, due |-> due]

Becomes(K) ==
  /\ proc' = K.proc /\ rdy' = K.rdy /\ proc_ptr' = K.proc_ptr
  /\ sig_procs' = K.sig_procs /\ told' = K.told /\ m' = K.m /\ due' = K.due

(* main(): tasks, servers and INIT are made ready, HARDWARE and IDLE never *)
(* are; the other slots are empty.                                         *)
Init ==
  /\ proc = [p \in Procs |-> Slot(IF p \in Tasks THEN "TASK"
                                  ELSE IF p \in Servers THEN "SERVER"
                                  ELSE IF p = INIT_PROC_NR THEN "USER" ELSE "NONE")]
  /\ \E tasks \in [1 .. Cardinality(Tasks \ {HARDWARE}) -> Tasks \ {HARDWARE}] :
       /\ \A i, j \in DOMAIN tasks : i < j => tasks[i] < tasks[j]
       /\ rdy = [TASK |-> tasks, SERVER |-> <<MM_PROC_NR, FS_PROC_NR>>, USER |-> <<INIT_PROC_NR>>]
       /\ proc_ptr = tasks[1]
  /\ sig_procs = 0
  /\ told = [u \in Users |-> 0]
  /\ m = [source |-> NIL, body |-> "free"]
  /\ due = {}
  /\ mode = "out"
  /\ held = <<>> /\ unholding = NIL
  /\ mm_at = "mm_init" /\ replies = {}

isuserp(p) == proc[p].p_priority = "USER"
isemptyp(p) == proc[p].p_priority = "NONE"
isrxhardware(n) == n \in {ANY, HARDWARE}

(* p runs its own code and nobody is inside the kernel.                    *)
Runs(p) == mode = "out" /\ proc_ptr = p

-----------------------------------------------------------------------------
(* The ready queues.                                                       *)

pick_proc(K) ==
  LET first == IF K.rdy.TASK # <<>> THEN K.rdy.TASK
               ELSE IF K.rdy.SERVER # <<>> THEN K.rdy.SERVER ELSE K.rdy.USER
  IN  [K EXCEPT !.proc_ptr = IF first = <<>> THEN IDLE ELSE Head(first)]

(* The queue that ready and unready choose for p.                          *)
Queue(K, p) ==
  IF K.proc[p].p_priority \in {"TASK", "SERVER"} THEN K.proc[p].p_priority ELSE "USER"

(* Mutation of ready: a fresh task has to wait for the next pick_proc.     *)
ready_NoSwitch(K, p) ==
  [K EXCEPT !.rdy[Queue(K, p)] = IF Queue(K, p) = "USER" THEN <<p>> \o @ ELSE Append(@, p)]

(* A task or server goes to the tail, a user to the front of its queue. A  *)
(* task that comes into an empty queue is to run next.                     *)
ready(K, p) ==
  LET q == Queue(K, p)
  IN  [K EXCEPT !.rdy[q] = IF q = "USER" THEN <<p>> \o @ ELSE Append(@, p),
                !.proc_ptr = IF q = "TASK" /\ K.rdy[q] = <<>> THEN p ELSE @]

(* When the head goes, a new process is picked; in the queue of the tasks  *)
(* only if the head was running.                                           *)
unready(K, p) ==
  LET q == Queue(K, p)
      without == [K EXCEPT !.rdy[q] = RemoveFirst(@, p)]
  IN  IF /\ K.rdy[q] # <<>> /\ Head(K.rdy[q]) = p
         /\ q = "TASK" => p = K.proc_ptr
      THEN pick_proc(without)
      ELSE without

(* Flags are set on p, which stops being ready if it was.                  *)
Stopped(K, p, flags) ==
  LET L == IF K.proc[p].p_flags = {} THEN unready(K, p) ELSE K
  IN  [L EXCEPT !.proc[p].p_flags = @ \union flags]

(* Flags are cleared on p, which becomes ready if they were the last ones. *)
Released(K, p, flags) ==
  LET L == [K EXCEPT !.proc[p].p_flags = @ \ flags]
  IN  IF L.proc[p].p_flags = {} THEN ready(L, p) ELSE L

(* A turn of sched brings some process of the users' queue to the front.   *)
sched(K, turns) ==
  pick_proc([K EXCEPT !.rdy.USER = SubSeq(@, turns + 1, Len(@)) \o SubSeq(@, 1, turns)])

-----------------------------------------------------------------------------
(* mini_send and inform.                                                   *)

(* d is blocked waiting for a message of s.                                *)
Accepts(K, d, s) ==
  /\ K.proc[d].p_flags \intersect {"SENDING", "RECEIVING"} = {"RECEIVING"}
  /\ K.proc[d].p_getfrom \in {ANY, s}

(* CopyMess(s, d), for the message of SYSTASK.                             *)
CopyMess(K, s, d) ==
  IF d = SYSTASK THEN [K EXCEPT !.m = [source |-> s, body |-> "request"]]
  ELSE IF s = SYSTASK THEN [K EXCEPT !.m.body = "free"] ELSE K

(* The chain of senders that starts with the one that d sends to.          *)
Chain(d) ==
  LET hop[n \in 0 .. Cardinality(Procs)] ==
        LET p == IF n = 0 THEN d ELSE hop[n - 1] IN
        IF p # NIL /\ "SENDING" \in proc[p].p_flags THEN proc[p].p_sendto ELSE NIL
  IN  {hop[n] : n \in 0 .. Cardinality(Procs)} \ {NIL}

(* Mutation of Locked: the check is forgotten.                             *)
Locked_Never(c, d) == FALSE

(* mini_send refuses: d is already sending to c, over others perhaps.      *)
Locked(c, d) == c \in Chain(d)

(* mini_send(c, d) once its checks are passed: d gets the message, or c    *)
(* is blocked at the end of the queue of d.                                *)
mini_send(K, c, d) ==
  IF Accepts(K, d, c)
  THEN Released(CopyMess(K, c, d), d, {"RECEIVING"})
  ELSE [Stopped(K, c, {"SENDING"}) EXCEPT !.proc[c].p_sendto = d,
                                          !.proc[d].p_callerq = Append(@, c)]

(* inform(): the first process with pending signals is told to MM, in a    *)
(* message that is put together in m.                                      *)
inform(K) ==
  LET pending == {u \in Servers \union Users : "PENDING" \in K.proc[u].p_flags}
      u == Min(pending)
      ksig == [K EXCEPT !.m.body = IF @ \in {"request", "reply"} THEN "lost" ELSE @,
                        !.sig_procs = @ - 1,
                        !.told[u] = @ + Cardinality(K.proc[u].p_pending)]
  IN  IF pending = {} THEN K
      ELSE pick_proc([mini_send(ksig, HARDWARE, MM_PROC_NR) EXCEPT
                        !.proc[u].p_pending = {}, !.proc[u].p_flags = @ \ {"PENDING"}])

-----------------------------------------------------------------------------
(* mini_rec(c, src), on the state K that a send may have left.             *)

(* Mutation of Found: only the first sender of the queue is looked at.     *)
Found_HeadOnly(K, c, src) ==
  {i \in DOMAIN K.proc[c].p_callerq : i = 1 /\ src \in {ANY, K.proc[c].p_callerq[i]}}

(* Places in the queue of c with an acceptable message.                    *)
Found(K, c, src) ==
  {i \in DOMAIN K.proc[c].p_callerq : src \in {ANY, K.proc[c].p_callerq[i]}}

(* Mutation of TellNow: MM is told only when somebody else is signalled.   *)
TellNow_Never(K, c, src) == FALSE

(* MM is about to wait for anything while signals are pending.             *)
TellNow(K, c, src) == K.sig_procs > 0 /\ c = MM_PROC_NR /\ src = ANY

(* Mutation of BlockedInterrupt: a task that accepts anything is forgotten.*)
BlockedInterrupt_HardwareOnly(K, c, src) == K.proc[c].p_int_blocked /\ src = HARDWARE

BlockedInterrupt(K, c, src) == K.proc[c].p_int_blocked /\ isrxhardware(src)

TakeMessage(K, c, i) ==
  LET s == K.proc[c].p_callerq[i]
  IN  Released([CopyMess(K, s, c) EXCEPT !.proc[c].p_callerq = RemoveAt(@, i)],
               s, {"SENDING"})

TakeInterrupt(K, c) == [K EXCEPT !.proc[c].p_int_blocked = FALSE, !.due = @ \ {c}]

BlockReceiver(K, c, src) ==
  LET blocked == [Stopped(K, c, {"RECEIVING"}) EXCEPT !.proc[c].p_getfrom = src]
  IN  IF TellNow(K, c, src) THEN inform(blocked) ELSE blocked

mini_rec(K, c, src) ==
  IF "SENDING" \in K.proc[c].p_flags THEN BlockReceiver(K, c, src)
  ELSE IF Found(K, c, src) # {} THEN TakeMessage(K, c, Min(Found(K, c, src)))
  ELSE IF BlockedInterrupt(K, c, src) THEN TakeInterrupt(K, c)
  ELSE BlockReceiver(K, c, src)

-----------------------------------------------------------------------------
(* sys_call                                                                *)

(* The checks of sys_call and of mini_send, in their order: E_NO_PERM,     *)
(* E_BAD_DEST twice, ELOCKED. A bad message pointer (EFAULT) changes as    *)
(* little and is left out.                                                 *)
Refused(c, function, d) ==
  \/ isuserp(c) /\ function # "BOTH"
  \/ /\ function # "RECEIVE"
     /\ \/ isuserp(c) /\ d \notin Servers
        \/ isemptyp(d)
        \/ Locked(c, d)

SysCallRefused(c, function, d) ==
  /\ Runs(c)
  /\ Refused(c, function, d)
  /\ mode' = "kernel"
  /\ UNCHANGED <<kernel, interrupts>>

SysCall(c, function, d) ==
  /\ Runs(c)
  /\ ~Refused(c, function, d)
  /\ \/ function = "SEND" /\ Becomes(mini_send(Kernel, c, d))
     \/ function = "RECEIVE" /\ Becomes(mini_rec(Kernel, c, d))
     \/ function = "BOTH" /\ Becomes(mini_rec(mini_send(Kernel, c, d), c, d))
  /\ mode' = "kernel"
  /\ UNCHANGED interrupts

(* FS answers a user only while it waits for FS. It tells MM the size of   *)
(* the RAM disk and waits; later it only sends to MM. MM calls while it    *)
(* starts (sys_getmap) and while it works.                                 *)
MayCall(c, function, d) ==
  /\ function = "SEND" /\ d \in Users /\ ~isuserp(c) => Accepts(Kernel, d, c)
  /\ c = FS_PROC_NR /\ d = MM_PROC_NR => (function = "BOTH" <=> mm_at = "mm_init")
  /\ c = MM_PROC_NR => mm_at = "work" \/ (mm_at = "mm_init" /\ d = SYSTASK)

(* A call of FS, a driver or a user, or one of MM but those of its loop.   *)
Call(c, function, d) ==
  /\ MayCall(c, function, d)
  /\ SysCall(c, function, d) \/ SysCallRefused(c, function, d)
  /\ UNCHANGED mm

-----------------------------------------------------------------------------
(* MM's start and main loop. It calls SYSTASK and FS in between (Calls).   *)

(* mm_init: MM waits for FS ...                                            *)
HearFS ==
  /\ mm_at = "mm_init"
  /\ SysCall(MM_PROC_NR, "RECEIVE", FS_PROC_NR)
  /\ mm_at' = "sync"
  /\ UNCHANGED replies

(* ... and tells it to continue, before it opens /dev/ram through it.      *)
TellFS ==
  /\ mm_at = "sync"
  /\ SysCall(MM_PROC_NR, "SEND", FS_PROC_NR)
  /\ mm_at' = "work"
  /\ UNCHANGED replies

get_work ==
  /\ mm_at = "loop" /\ replies = {}
  /\ SysCall(MM_PROC_NR, "RECEIVE", ANY)
  /\ mm_at' = "work"
  /\ UNCHANGED replies

(* The call is done, for one caller, for several (a wait that ends), or    *)
(* for nobody (E_NO_MESSAGE): those who get a reply wait for it.           *)
setreply ==
  /\ Runs(MM_PROC_NR) /\ mm_at = "work"
  /\ mm_at' = "loop"
  /\ replies' \in SUBSET {u \in Users : isuserp(u) /\ Accepts(Kernel, u, MM_PROC_NR)}
  /\ UNCHANGED <<kernel, mode, interrupts>>

SendReply ==
  /\ mm_at = "loop" /\ replies # {}
  /\ SysCall(MM_PROC_NR, "SEND", Min(replies))
  /\ replies' = replies \ {Min(replies)}
  /\ UNCHANGED mm_at

-----------------------------------------------------------------------------
(* interrupt, unhold and the end of a kernel call                          *)

(* Mutation of interrupt: nothing is recorded for a task that is sending.  *)
interrupt_Drops(K, t) ==
  IF Accepts(K, t, HARDWARE)
  THEN ready([K EXCEPT !.proc[t].p_flags = @ \ {"RECEIVING"}, !.proc[t].p_int_blocked = FALSE,
                       !.due = @ \ {t}], t)
  ELSE [K EXCEPT !.proc[t].p_int_blocked = @ \/ "SENDING" \notin K.proc[t].p_flags,
                 !.due = @ \union {t}]

(* interrupt(t) outside the kernel.                                        *)
interrupt(K, t) ==
  IF Accepts(K, t, HARDWARE)
  THEN ready([K EXCEPT !.proc[t].p_flags = @ \ {"RECEIVING"}, !.proc[t].p_int_blocked = FALSE,
                       !.due = @ \ {t}], t)
  ELSE [K EXCEPT !.proc[t].p_int_blocked = TRUE, !.due = @ \union {t}]

Interrupt(t) ==
  /\ mode = "out"
  /\ Becomes(interrupt(Kernel, t))
  /\ mode' = "kernel"
  /\ UNCHANGED <<interrupts, mm>>

(* interrupt(t) in competition with a kernel call or a lock_ operation;    *)
(* one from the task level (k_reenter == -1), whose callers are not in the *)
(* repository, would leave what a Hold before SwitchDone leaves.           *)
Hold(t) ==
  /\ mode # "out"
  /\ held' = IF t \in Range(held) THEN held ELSE Append(held, t)
  /\ Becomes([Kernel EXCEPT !.due = @ \union {t}])
  /\ UNCHANGED <<mode, unholding, mm>>

(* unhold() takes the first and enables interrupts ...                     *)
UnholdTake ==
  /\ mode = "kernel" /\ unholding = NIL /\ held # <<>>
  /\ unholding' = Head(held)
  /\ held' = Tail(held)
  /\ UNCHANGED <<kernel, mode, mm>>

(* ... and calls interrupt() for it.                                       *)
UnholdInterrupt ==
  /\ unholding # NIL
  /\ Becomes(interrupt(Kernel, unholding))
  /\ unholding' = NIL
  /\ UNCHANGED <<mode, held, mm>>

(* restart() with nothing left in the queue.                               *)
Restart ==
  /\ mode = "kernel" /\ unholding = NIL /\ held = <<>>
  /\ mode' = "out"
  /\ UNCHANGED <<kernel, interrupts, mm>>

(* switching = FALSE; what is held waits for the next restart().           *)
SwitchDone ==
  /\ mode = "switching"
  /\ mode' = "out"
  /\ UNCHANGED <<kernel, interrupts, mm>>

-----------------------------------------------------------------------------
(* Signals and the clock.                                                  *)

(* Mutation of MMFree: it waits for a message, whoever it comes from.      *)
MMFree_AnyWait(K) == "RECEIVING" \in K.proc[MM_PROC_NR].p_flags

(* cause_sig's test whether MM can take a message.                         *)
MMFree(K) ==
  /\ "RECEIVING" \in K.proc[MM_PROC_NR].p_flags
  /\ K.proc[MM_PROC_NR].p_getfrom = ANY

(* The signal is noted; when it is the first one that is pending, u is     *)
(* stopped and MM is told if it can be.                                    *)
cause_sig(K, u, sig) ==
  LET counted == [K EXCEPT !.proc[u].p_pending = @ \union {sig}, !.proc[u].p_pendcount = @ + 1]
      marked  == [Stopped(counted, u, {"PENDING", "SIG_PENDING"}) EXCEPT !.sig_procs = @ + 1]
  IN  IF sig \in K.proc[u].p_pending THEN K
      ELSE IF "PENDING" \in K.proc[u].p_flags THEN counted
      ELSE IF MMFree(K) THEN inform(marked) ELSE marked

Signals(u, sig) ==
  /\ isuserp(u)
  /\ sig \notin proc[u].p_pending => proc[u].p_pendcount < MaxPendcount

(* A task has changed the kernel to K: the lock_ operations by which it    *)
(* does so are those that change a ready queue.                            *)
TaskChanges(K) ==
  /\ Becomes(K)
  /\ mode' = IF K.rdy = rdy THEN "out" ELSE "switching"
  /\ UNCHANGED <<interrupts, mm>>

TaskSignals(t, u, sig) ==
  /\ Runs(t)
  /\ Signals(u, sig)
  /\ TaskChanges(cause_sig(Kernel, u, sig))

lock_sched(t) ==
  /\ Runs(t)
  /\ \E turns \in DOMAIN rdy.USER : Becomes(sched(Kernel, turns))
  /\ mode' = "switching"
  /\ UNCHANGED <<interrupts, mm>>

-----------------------------------------------------------------------------
(* The loop of SYSTASK: receive(ANY, &m), one call, m.m_type = r,          *)
(* send(m.m_source, &m). MM makes all requests but those of FS to signal a *)
(* user or to copy.                                                        *)

ReceiveRequest ==
  /\ m.body = "free"
  /\ SysCall(SYSTASK, "RECEIVE", ANY)
  /\ UNCHANGED mm

SendAnswer ==
  /\ m.body = "reply"
  /\ SysCall(SYSTASK, "SEND", m.source)
  /\ UNCHANGED mm

(* SYSTASK works on a request of caller ...                                *)
Serves(caller) == Runs(SYSTASK) /\ m.body = "request" /\ m.source = caller

(* The requests of mm_init only read memory maps (OtherCall).              *)
ServesMM == Serves(MM_PROC_NR) /\ mm_at = "work"

(* ... and has done it, changing the kernel to K.                          *)
Answers(K) == TaskChanges([K EXCEPT !.m.body = IF @ = "lost" THEN @ ELSE "reply"])

(* do_copy, do_umap, do_getmap and the others leave all this as it is.     *)
OtherCall == (\E s \in Servers : Serves(s)) /\ Answers(Kernel)

(* Both fields are read before the call.                                   *)
do_kill(u, sig) ==
  /\ Serves(FS_PROC_NR)
  /\ Signals(u, sig)
  /\ Answers(cause_sig([Kernel EXCEPT !.m.body = "read"], u, sig))

(* MM has finished one of the signals it was told of; the process may be   *)
(* dead by then.                                                           *)
do_endsig(u) ==
  /\ ServesMM
  /\ told[u] > 0
  /\ LET less == [Kernel EXCEPT !.told[u] = @ - 1, !.proc[u].p_pendcount = @ - 1]
     IN  Answers(IF isemptyp(u) \/ proc[u].p_pendcount = 0
                 THEN [Kernel EXCEPT !.told[u] = @ - 1]
                 ELSE IF proc[u].p_pendcount > 1 THEN less
                 ELSE Released(less, u, {"SIG_PENDING"}))

(* The child is a copy of the parent, which waits for MM. MM takes no new  *)
(* call before it has finished the signals of a dead process.              *)
do_fork(parent, child) ==
  /\ ServesMM
  /\ isuserp(parent) /\ Accepts(Kernel, parent, MM_PROC_NR)
  /\ isemptyp(child) /\ told[child] = 0
  /\ Answers([Kernel EXCEPT !.proc[child] = [proc[parent] EXCEPT
       !.p_flags = (@ \union {"NO_MAP"}) \ {"PENDING", "SIG_PENDING", "P_STOP"},
       !.p_pending = {}, !.p_pendcount = 0]])

(* Mutation of do_newmap: it is ready because its flags are empty.         *)
do_newmap_Again(u) ==
  /\ ServesMM
  /\ isuserp(u)
  /\ Answers(Released(Kernel, u, {"NO_MAP"}))

(* A new process, or one that has got more memory.                         *)
do_newmap(u) ==
  /\ ServesMM
  /\ isuserp(u)
  /\ Answers(IF proc[u].p_flags = {} THEN Kernel ELSE Released(Kernel, u, {"NO_MAP"}))

(* MM does not reply to the call: u, which waits for it, goes on. A traced *)
(* process is signalled (SIGTRAP) before the rest of the request is read.  *)
do_exec(u, traced, sig) ==
  /\ ServesMM
  /\ isuserp(u) /\ Accepts(Kernel, u, MM_PROC_NR)
  /\ traced => Signals(u, sig)
  /\ Answers(Released(IF traced THEN cause_sig(Kernel, u, sig) ELSE Kernel, u, {"RECEIVING"}))

(* T_STOP; T_RESUME and T_STEP, which MM makes of a stopped process only.  *)
(* INIT has no parent that could trace it.                                 *)
do_trace(u) ==
  /\ ServesMM
  /\ isuserp(u) /\ u # INIT_PROC_NR
  /\ \/ Answers(Stopped(Kernel, u, {"P_STOP"}))
     \/ "P_STOP" \in proc[u].p_flags /\ Answers(Released(Kernel, u, {"P_STOP"}))

(* Mutation of Dequeued: a process killed while it sends stays queued.     *)
Dequeued_Forgets(u, q) == q

(* The queue q without u, if u is sending.                                 *)
Dequeued(u, q) == IF "SENDING" \in proc[u].p_flags THEN RemoveFirst(q, u) ELSE q

(* Mutations of CountOff: the flag is not looked at; nothing is counted.   *)
CountOff_Always(u) == 1
CountOff_Never(u) == 0

CountOff(u) == IF "PENDING" \in proc[u].p_flags THEN 1 ELSE 0

(* A user has called exit or is killed by MM, whatever it is waiting for.  *)
do_xit(u) ==
  /\ ServesMM
  /\ isuserp(u) /\ u # INIT_PROC_NR
  /\ LET K == IF proc[u].p_flags = {} THEN unready(Kernel, u) ELSE Kernel
     IN  Answers([K EXCEPT
           !.proc = [p \in Procs |->
              IF p = u
              THEN [proc[u] EXCEPT !.p_callerq = Dequeued(u, @), !.p_pending = {},
                                   !.p_pendcount = 0, !.p_flags = {}, !.p_priority = "NONE"]
              ELSE [proc[p] EXCEPT !.p_callerq = Dequeued(u, @)]],
           !.sig_procs = @ - CountOff(u)])

-----------------------------------------------------------------------------
Next ==
  \/ \E k \in Calls : Call(k[1], k[2], k[3])
  \/ HearFS \/ TellFS \/ get_work \/ setreply \/ SendReply
  \/ \E t \in Drivers : Interrupt(t) \/ Hold(t)
  \/ UnholdTake \/ UnholdInterrupt \/ Restart \/ SwitchDone
  \/ \E t \in Killers : lock_sched(t) \/ \E u \in Users, sig \in Sigs : TaskSignals(t, u, sig)
  \/ ReceiveRequest \/ SendAnswer \/ OtherCall
  \/ \E u \in Users :
       \/ do_endsig(u) \/ do_newmap(u) \/ do_xit(u) \/ do_trace(u)
       \/ \E sig \in Sigs : do_kill(u, sig) \/ \E traced \in BOOLEAN : do_exec(u, traced, sig)
       \/ \E child \in Users : do_fork(u, child)

Spec == Init /\ [][Next]_vars

-----------------------------------------------------------------------------
(* Properties                                                              *)

(* Every field keeps its type, and the count of processes with pending     *)
(* signals never leaves 0 ... the number of users (mini_rec tests it       *)
(* with > 0, proc.c:295).                                                  *)
TypeOK ==
  /\ proc \in [Procs ->
       [p_priority : {"NONE", "TASK", "SERVER", "USER"}, p_flags : SUBSET Flags,
        p_sendto : Procs \union {NIL}, p_getfrom : Procs \union {ANY, NIL},
        p_callerq : Seq(Procs), p_int_blocked : BOOLEAN,
        p_pending : SUBSET Sigs, p_pendcount : 0 .. MaxPendcount]]
  /\ rdy \in [{"TASK", "SERVER", "USER"} -> Seq(Procs)] /\ proc_ptr \in Procs \union {IDLE}
  /\ sig_procs \in 0 .. Cardinality(Users)
  /\ told \in [Users -> 0 .. MaxPendcount]
  /\ m \in [source : Procs \union {NIL}, body : {"free", "request", "reply", "lost"}]
  /\ mode \in {"out", "kernel", "switching"}
  /\ held \in Seq(Drivers) /\ unholding \in Drivers \union {NIL}
  /\ due \subseteq Drivers
  /\ mm_at \in {"mm_init", "sync", "work", "loop"} /\ replies \subseteq Users

(* A process with SENDING is exactly once in the queue of the process it   *)
(* sends to, and nobody else is in any queue: not a process that has been  *)
(* killed while it was sending, not the copy of one.                       *)
SendersQueued ==
  \A d \in Procs :
    /\ Range(proc[d].p_callerq) =
         {s \in Procs : "SENDING" \in proc[s].p_flags /\ proc[s].p_sendto = d}
    /\ IsInjective(proc[d].p_callerq)

(* No chain of senders closes: the processes that block in mini_send never *)
(* wait for each other in a circle.                                        *)
NoSenderCycle == \A p \in Procs : "SENDING" \in proc[p].p_flags => p \notin Chain(p)

(* Nobody sleeps beside its message: a process that waits and is not       *)
(* itself sending has no acceptable sender in its queue. mini_rec does not *)
(* look into the queue of a process that is still sending: what it waits   *)
(* for is then the one it sends to, and that one cannot be in its queue    *)
(* when the message is taken.                                              *)
NoMissedMessage ==
  \A p \in Procs : \A s \in Range(proc[p].p_callerq) : ~Accepts(Kernel, p, s)

(* Nor does a task wait for the hardware while an interrupt is recorded    *)
(* for it.                                                                 *)
NoMissedInterrupt ==
  \A t \in Drivers : Accepts(Kernel, t, HARDWARE) => ~proc[t].p_int_blocked

(* An interrupt that has not led to a message is held, on its way out of   *)
(* the held queue, or recorded in p_int_blocked: none is forgotten between *)
(* a kernel call and unhold.                                               *)
InterruptKept ==
  \A t \in due : t \in Range(held) \/ unholding = t \/ proc[t].p_int_blocked

(* sig_procs is the number of processes with pending signals; a process is *)
(* kept from running while, and only while, signals of it are pending or   *)
(* with MM.                                                                *)
SignalsCounted ==
  /\ sig_procs = Cardinality({p \in Procs : "PENDING" \in proc[p].p_flags})
  /\ \A u \in Users :
       /\ proc[u].p_pending # {} <=> "PENDING" \in proc[u].p_flags
       /\ proc[u].p_pendcount > 0 <=> "SIG_PENDING" \in proc[u].p_flags
       /\ isuserp(u) => proc[u].p_pendcount = Cardinality(proc[u].p_pending) + told[u]

(* MM never waits for a message of anybody (ANY, which HARDWARE may send,  *)
(* too) while a signal is pending: it is told by cause_sig or by its own   *)
(* mini_rec. Only for the answer of SYSTASK or FS may it wait beside one.  *)
MMTold == Accepts(Kernel, MM_PROC_NR, HARDWARE) => sig_procs = 0

(* The message of inform is delivered at once: HARDWARE, which no code     *)
(* would ever take from a queue again, does not block.                     *)
HardwareNeverBlocks == proc[HARDWARE].p_flags = {}

(* Whoever blocks, wakes, is stopped, traced, signalled, forked or killed, *)
(* each ready queue holds exactly the processes of its class that may run, *)
(* each of them once: ready never queues a process twice, and no process   *)
(* that is dead or has a flag set is left to be run.                       *)
ReadyQueuesExact ==
  \A q \in DOMAIN rdy :
    /\ Range(rdy[q]) =
         {p \in Procs \ {HARDWARE} : proc[p].p_priority = q /\ proc[p].p_flags = {}}
    /\ IsInjective(rdy[q])

(* Outside the kernel the process that runs is the one that pick_proc      *)
(* would choose: no task waits while a server runs, no server while a user *)
(* does, although ready and interrupt do not call pick_proc.               *)
RunsHighest == mode = "out" => proc_ptr = pick_proc(Kernel).proc_ptr

(* inform never writes over a request that SYSTASK has yet to read or over *)
(* a reply it has yet to send, although both are in m; and while SYSTASK   *)
(* works, the server that asked waits for the answer.                      *)
RequestKept ==
  /\ m.body # "lost"
  /\ m.body \in {"request", "reply"} => Accepts(Kernel, m.source, SYSTASK)
=============================================================================
