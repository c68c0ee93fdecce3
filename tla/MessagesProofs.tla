--------------------------- MODULE MessagesProofs ---------------------------
(***************************************************************************)
(* Theorems about the kernel of module Messages, for any tasks, drivers,   *)
(* users and calls: the queues of senders and the ready queues stay exact, *)
(* nobody waits beside a message, an interrupt or (MM) a signal that is    *)
(* there for it, no processes send to each other in a circle, signals are  *)
(* counted, and no message of SYSTASK is lost.                             *)
(***************************************************************************)
EXTENDS KernelLemmas

-----------------------------------------------------------------------------
(* The calls of SYSTASK, on a kernel K in which it works on a request.     *)

Serving(K) ==
  KernelSound(K) /\ RequestSound(K) /\ K.proc_ptr = SYSTASK /\ K.m.body = "request"

(* X is K after a call, before the answer is put into m.                   *)
Worked(K, X) ==
  /\ KernelSound(X) /\ TasksStay(K, X) /\ X.due = K.due
  /\ X.m.body \in {"request", "read"} /\ X.m.source = K.m.source
  /\ \A t \in Tasks : X.proc[t].p_int_blocked = K.proc[t].p_int_blocked
  /\ SameWait(X.proc[K.m.source], K.proc[K.m.source])
  /\ NobodyStarts(K, X)

(* L is K after a call and its answer.                                     *)
Served(K, L) ==
  KernelSound(L) /\ RequestSound(L) /\ DueKept(K, L) /\ NobodyStarts(K, L)

Answered(X) == [X EXCEPT !.m.body = IF @ = "lost" THEN @ ELSE "reply"]

(* SYSTASK has put its answer together.                                    *)
LEMMA AnswerKept ==
  ASSUME NEW K, Serving(K), NEW X, Worked(K, X)
  PROVE  Served(K, Answered(X))
<1>1. /\ KernelSound(K) /\ RequestSound(K) /\ K.m.body = "request"
      /\ KernelSound(X) /\ KernelKept(X) /\ X \in KernelStates
      /\ MMHears(X) /\ Highest(X) /\ X.due \subseteq Drivers
  BY DEF Serving, Worked, KernelSound, KernelKept, KernelStates
<1>2. /\ LeadsTasks(K, SYSTASK) /\ K.m.source \in Servers
      /\ WaitsFor(K.proc[K.m.source], SYSTASK) /\ K.proc[K.m.source].p_getfrom = SYSTASK
  BY <1>1 DEF RequestSound, LeadsTasks
<1>3. PICK L : L = Answered(X)
  OBVIOUS
<1>4. L = [X EXCEPT !.m = [X.m EXCEPT !.body = "reply"]]
  BY <1>1, <1>3 DEF Answered, Worked
<1>5. [X.m EXCEPT !.body = "reply"] \in
        [source : Procs \union {NIL}, body : {"free", "request", "read", "reply", "lost"}]
  BY <1>1 DEF KernelStates
<1>6. L \in KernelStates
  BY <1>1, <1>4, <1>5 DEF KernelStates
<1>7. /\ SameBut(X, L) /\ L.due = X.due /\ L.m.body = "reply" /\ L.m.source = K.m.source
  BY <1>1, <1>4, <1>6 DEF KernelStates, SameBut, Worked
<1>8. KernelSound(L)
  BY <1>1, <1>7, KeptSame DEF KernelSound
<1>9. RequestSound(L)
  <2>1. LeadsTasks(X, SYSTASK)
    BY <1>2 DEF Worked, TasksStay, LeadsTasks
  <2>2. WaitsFor(X.proc[K.m.source], SYSTASK) /\ X.proc[K.m.source].p_getfrom = SYSTASK
    <3>1. SameWait(X.proc[K.m.source], K.proc[K.m.source])
      BY DEF Worked
    <3> QED
      BY <1>2, <3>1 DEF SameWait, WaitsFor, Sending, Receiving
  <2> QED
    BY <1>2, <1>7, <2>1, <2>2 DEF RequestSound, SameBut, LeadsTasks
<1>10. DueKept(K, L)
  BY <1>1, <1>7, ProcFacts DEF DueKept, SameBut, Worked
<1>11. NobodyStarts(K, L)
  BY <1>7 DEF NobodyStarts, SameBut, Worked
<1> QED
  BY <1>3, <1>8, <1>9, <1>10, <1>11 DEF Served

(* A call that leaves the tasks and the servers waiting as they did.       *)
LEMMA UserWork ==
  ASSUME NEW K, Serving(K), NEW X, KernelSound(X), TasksStay(K, X), X.due = K.due, X.m = K.m,
         \A p \in Tasks \union Servers : SameWait(X.proc[p], K.proc[p]),
         \A u \in Users : SendsAs(X.proc[u], K.proc[u])
  PROVE  Served(K, Answered(X))
<1>1. K.m.source \in Servers /\ K.m.body = "request"
  BY DEF Serving, RequestSound
<1>2. \A t \in Tasks : X.proc[t].p_int_blocked = K.proc[t].p_int_blocked
  BY DEF SameWait
<1>3. NobodyStarts(K, X)
  BY DEF NobodyStarts, SendsAs, SameWait, Procs
<1>4. Worked(K, X)
  BY <1>1, <1>2, <1>3 DEF Worked
<1> QED
  BY <1>4, AnswerKept

(* do_kill has read the request, and signals.                              *)
LEMMA KillKept ==
  ASSUME NEW K, Serving(K), K.m.source # MM_PROC_NR, NEW u \in Users, NEW sig \in Sigs,
         K.proc[u].p_priority = "USER",
         sig \notin K.proc[u].p_pending => K.proc[u].p_pendcount < MaxPendcount
  PROVE  LET L == Answered(cause_sig([K EXCEPT !.m.body = "read"], u, sig))
         IN  Served(K, L) /\ WaitersStay(K, NIL, L)
<1>1. /\ KernelSound(K) /\ K \in KernelStates /\ KernelKept(K) /\ MMHears(K) /\ Highest(K)
      /\ K.m.source \in Servers
  BY DEF Serving, KernelSound, KernelKept, RequestSound
<1>2. PICK W : W = [K EXCEPT !.m.body = "read"]
  OBVIOUS
<1>3. W = [K EXCEPT !.m = [K.m EXCEPT !.body = "read"]]
  BY <1>1, <1>2
<1>4. [K.m EXCEPT !.body = "read"] \in
        [source : Procs \union {NIL}, body : {"free", "request", "read", "reply", "lost"}]
  BY <1>1 DEF KernelStates
<1>5. W \in KernelStates
  BY <1>1, <1>3, <1>4 DEF KernelStates
<1>6. SameBut(K, W) /\ W.due = K.due /\ W.m.body = "read" /\ W.m.source = K.m.source
  BY <1>1, <1>3, <1>5 DEF KernelStates, SameBut
<1>7. KernelSound(W) /\ W.proc = K.proc /\ W.rdy = K.rdy
  BY <1>1, <1>6, KeptSame DEF KernelSound, SameBut
<1>8. PICK X : X = cause_sig(W, u, sig)
  OBVIOUS
<1>9. CausedTo(W, X)
  BY <1>7, <1>8, CauseKept
<1>10. \A x \in Procs \ {MM_PROC_NR} : SameWait(X.proc[x], K.proc[x])
  BY <1>7, <1>9 DEF CausedTo
<1>11. X.m.body = "read" /\ X.m.source = K.m.source /\ X.due = K.due
  BY <1>6, <1>9 DEF CausedTo, Writes
<1>12. Worked(K, X)
  <2>1. \A t \in Tasks : X.proc[t].p_int_blocked = K.proc[t].p_int_blocked
    BY <1>10, ProcFacts DEF SameWait
  <2>2. SameWait(X.proc[K.m.source], K.proc[K.m.source])
    BY <1>1, <1>10, ProcFacts
  <2>3. TasksStay(K, X)
    BY <1>7, <1>9 DEF CausedTo, TasksStay
  <2>4. NobodyStarts(K, X)
    BY <1>7, <1>9 DEF CausedTo, NobodyStarts, SendsAs, SameWait
  <2> QED
    BY <1>9, <1>11, <2>1, <2>2, <2>3, <2>4 DEF Worked, CausedTo
<1>13. Served(K, Answered(X))
  BY <1>12, AnswerKept
<1>14. WaitersStay(K, NIL, Answered(X))
  <2>1. X \in KernelStates
    BY <1>9 DEF CausedTo, KernelSound, KernelKept
  <2>2. Answered(X).proc = X.proc
    BY <2>1 DEF Answered, KernelStates
  <2>3. ASSUME NEW v \in Users, K.proc[v].p_priority = "USER", WaitsFor(K.proc[v], MM_PROC_NR)
        PROVE  X.proc[v].p_priority = "USER" /\ WaitsFor(X.proc[v], MM_PROC_NR)
    <3>1. SameWait(X.proc[v], K.proc[v])
      BY <1>10, ProcFacts
    <3> QED
      BY <2>3, <3>1 DEF SameWait, WaitsFor, Sending, Receiving
  <2> QED
    BY <2>2, <2>3 DEF WaitersStay
<1> QED
  BY <1>2, <1>8, <1>13, <1>14

(* A task that is not SYSTASK signals.                                     *)
LEMMA SignalKept ==
  ASSUME NEW K, KernelSound(K), RequestSound(K), NEW t \in Killers, K.proc_ptr = t,
         NEW u \in Users, NEW sig \in Sigs, K.proc[u].p_priority = "USER",
         sig \notin K.proc[u].p_pending => K.proc[u].p_pendcount < MaxPendcount
  PROVE  LET L == cause_sig(K, u, sig) IN Served(K, L) /\ WaitersStay(K, NIL, L)
<1>1. K.m.body = "free"
  BY RunnerFacts, ProcFacts
<1>2. PICK X : X = cause_sig(K, u, sig)
  OBVIOUS
<1>3. CausedTo(K, X)
  BY <1>2, CauseKept
<1>4. X.m.body = "free"
  BY <1>1, <1>3 DEF CausedTo, Writes
<1>5. \A x \in Procs : X.proc[x].p_int_blocked = K.proc[x].p_int_blocked
  BY <1>3 DEF CausedTo, SameWait
<1>6. DueKept(K, X)
  BY <1>3, <1>5, ProcFacts DEF CausedTo, DueKept, KernelSound, KernelKept, KernelStates
<1>7. WaitersStay(K, NIL, X)
  <2>1. ASSUME NEW v \in Users, K.proc[v].p_priority = "USER", WaitsFor(K.proc[v], MM_PROC_NR)
        PROVE  X.proc[v].p_priority = "USER" /\ WaitsFor(X.proc[v], MM_PROC_NR)
    <3>1. SameWait(X.proc[v], K.proc[v])
      BY <1>3, ProcFacts DEF CausedTo
    <3> QED
      BY <2>1, <3>1 DEF SameWait, WaitsFor, Sending, Receiving
  <2> QED
    BY <2>1 DEF WaitersStay
<1>8. NobodyStarts(K, X)
  BY <1>3 DEF CausedTo, NobodyStarts, SendsAs, SameWait
<1> QED
  BY <1>2, <1>3, <1>4, <1>6, <1>7, <1>8 DEF Served, CausedTo, RequestSound

-----------------------------------------------------------------------------
(* The calls that change the entry of a user.                              *)

(* L is K with the entry r of the user u.                                  *)
EntryChanged(K, u, r, L) ==
  /\ L \in KernelStates /\ QueuesExact(L) /\ L.proc = [K.proc EXCEPT ![u] = r]
  /\ Sound(u, r) /\ SameSender(r, K.proc[u])
  /\ SignalsSound(r, L.told[u]) /\ \A v \in Users \ {u} : L.told[v] = K.told[v]
  /\ L.sig_procs = Cardinality(PendingProcs(L))

(* The entry of a user is replaced by one whose signals are counted.       *)
LEMMA KeptEntry ==
  ASSUME NEW K, KernelKept(K), NEW u \in Users, NEW r \in ProcRecord,
         NEW L, EntryChanged(K, u, r, L)
  PROVE  KernelKept(L)
<1>1. /\ K \in KernelStates /\ EntriesSound(K) /\ SignalsKept(K) /\ SendersExact(K)
      /\ u \in Procs
  BY ProcFacts DEF KernelKept
<1>2. L.proc[u] = r /\ \A x \in Procs \ {u} : L.proc[x] = K.proc[x]
  BY <1>1, EntryTyped DEF EntryChanged
<1>3. EntriesSound(L)
  BY <1>1, <1>2 DEF EntriesSound, EntryChanged
<1>4. SignalsKept(L)
  <2>1. ASSUME NEW v \in Users PROVE SignalsSound(L.proc[v], L.told[v])
    <3>1. CASE v = u
      BY <1>2, <3>1 DEF EntryChanged
    <3>2. CASE v # u
      BY <1>1, <1>2, <3>2, ProcFacts DEF SignalsKept, EntryChanged
    <3> QED
      BY <3>1, <3>2
  <2>2. \A v \in Procs \ Users : L.proc[v].p_pendcount = 0
    BY <1>1, <1>2 DEF SignalsKept
  <2> QED
    BY <2>1, <2>2 DEF SignalsKept, EntryChanged
<1>5. SendersExact(L)
  <2>1. \A x \in Procs : SameSender(L.proc[x], K.proc[x])
    BY <1>2 DEF SameSender, EntryChanged
  <2> QED
    BY <1>1, <2>1, SendersSame
<1> QED
  BY <1>3, <1>4, <1>5 DEF KernelKept, EntryChanged

(* Of all but a user, nothing has changed, and the user does not start to  *)
(* send.                                                                   *)
ButUser(K, u, L) ==
  /\ L.m = K.m /\ L.due = K.due /\ \A x \in Procs \ {u} : L.proc[x] = K.proc[x]
  /\ SendsAs(L.proc[u], K.proc[u])

(* SYSTASK has changed the entry of a user, and perhaps its queue.         *)
LEMMA EntryServed ==
  ASSUME NEW K, Serving(K), NEW u \in Users, NEW X, KernelKept(X), TasksStay(K, X), Highest(X),
         ButUser(K, u, X), K.sig_procs = 0 => X.sig_procs = 0
  PROVE  Served(K, Answered(X))
<1>1. MMHears(X)
  <2>1. MM_PROC_NR \in Procs \ {u}
    BY ProcFacts
  <2> QED
    BY <2>1 DEF Serving, KernelSound, MMHears, ButUser
<1>2. KernelSound(X)
  BY <1>1 DEF KernelSound
<1>3. \A p \in Tasks \union Servers : SameWait(X.proc[p], K.proc[p])
  BY ProcFacts DEF ButUser, SameWait
<1>4. \A v \in Users : SendsAs(X.proc[v], K.proc[v])
  BY ProcFacts DEF ButUser, SendsAs
<1> QED
  BY <1>2, <1>3, <1>4, UserWork DEF ButUser

(* The flags NO_MAP and P_STOP only keep a user from running.              *)
LEMMA FlagKept ==
  ASSUME NEW K, KernelKept(K), NEW u \in Users, K.proc[u].p_priority = "USER",
         NEW F \in SUBSET Flags, NEW G \in SUBSET {"NO_MAP", "P_STOP"},
         F \ G = K.proc[u].p_flags \ G, NEW L \in KernelStates,
         QueuesExact(L), OthersSame(K, L),
         L.proc = [K.proc EXCEPT ![u] = Flagged(K.proc[u], F)]
  PROVE  KernelKept(L)
<1>1. /\ K \in KernelStates /\ EntriesSound(K) /\ SignalsKept(K) /\ u \in Procs
      /\ u \notin Tasks /\ u # HARDWARE /\ u # MM_PROC_NR
  BY ProcFacts DEF KernelKept
<1>2. K.proc[u] \in ProcRecord
  BY <1>1, EntryTyped
<1>3. PICK r : r = Flagged(K.proc[u], F)
  OBVIOUS
<1>4. /\ r \in ProcRecord /\ r.p_flags = F
      /\ r.p_priority = K.proc[u].p_priority
      /\ r.p_callerq = K.proc[u].p_callerq /\ r.p_sendto = K.proc[u].p_sendto
      /\ r.p_getfrom = K.proc[u].p_getfrom /\ r.p_int_blocked = K.proc[u].p_int_blocked
      /\ r.p_pending = K.proc[u].p_pending /\ r.p_pendcount = K.proc[u].p_pendcount
  BY <1>2, <1>3, FlagsTyped
<1>5. \A f \in {"SENDING", "RECEIVING", "PENDING", "SIG_PENDING"} :
        f \in F <=> f \in K.proc[u].p_flags
  <2>1. \A f \in {"SENDING", "RECEIVING", "PENDING", "SIG_PENDING"} : f \notin G
    OBVIOUS
  <2> QED
    BY <2>1
<1>6. /\ Sending(r) <=> Sending(K.proc[u])
      /\ Receiving(r) <=> Receiving(K.proc[u])
  BY <1>4, <1>5 DEF Sending, Receiving
<1>7. \A s : WaitsFor(r, s) <=> WaitsFor(K.proc[u], s)
  BY <1>4, <1>5 DEF WaitsFor
<1>8. Sound(u, K.proc[u])
  BY <1>1 DEF EntriesSound
<1>9. Sound(u, r)
  BY <1>1, <1>4, <1>6, <1>7, <1>8 DEF Sound
<1>10. SameSignals(r, K.proc[u]) /\ SameSender(r, K.proc[u])
  BY <1>4, <1>5, <1>6 DEF SameSignals, SameSender
<1> QED
  BY <1>1, <1>3, <1>4, <1>9, <1>10, KeptBut DEF OthersSame

(* do_newmap: u has its memory map.                                        *)
LEMMA NewmapKept ==
  ASSUME NEW K, Serving(K), NEW u \in Users, K.proc[u].p_priority = "USER"
  PROVE  Served(K, Answered(IF K.proc[u].p_flags = {} THEN K ELSE Released(K, u, {"NO_MAP"})))
<1>1. /\ K \in KernelStates /\ KernelKept(K) /\ QueuesExact(K) /\ Highest(K)
      /\ u \in Procs /\ u # HARDWARE /\ K.rdy["TASK"] # <<>>
  BY ProcFacts DEF Serving, KernelSound, KernelKept, RequestSound
<1>2. CASE K.proc[u].p_flags = {}
  <2>1. ButUser(K, u, K) /\ TasksStay(K, K)
    BY DEF ButUser, TasksStay, SendsAs
  <2> QED
    BY <1>1, <1>2, <2>1, EntryServed
<1>3. CASE K.proc[u].p_flags # {}
  <2>1. PICK X : X = Released(K, u, {"NO_MAP"})
    OBVIOUS
  <2>2. {"NO_MAP"} \in SUBSET Flags
    BY DEF Flags
  <2>3. ReleasedTo(K, u, {"NO_MAP"}, X)
    BY <1>1, <1>3, <2>1, <2>2, ReleasedKeeps
  <2>4. /\ X \in KernelStates /\ OthersSame(K, X) /\ QueuesExact(X) /\ TasksStay(K, X)
        /\ Highest(X)
        /\ X.proc = [K.proc EXCEPT ![u] = Flagged(K.proc[u], K.proc[u].p_flags \ {"NO_MAP"})]
    BY <1>1, <2>3 DEF ReleasedTo
  <2>5. K.proc[u].p_flags \ {"NO_MAP"} \in SUBSET Flags
    BY <1>1, EntryTyped
  <2>6. (K.proc[u].p_flags \ {"NO_MAP"}) \ {"NO_MAP"} = K.proc[u].p_flags \ {"NO_MAP"}
    OBVIOUS
  <2>7. KernelKept(X)
    BY <1>1, <2>4, <2>5, <2>6, FlagKept
  <2>8. ButUser(K, u, X)
    BY <1>1, <2>4, <2>5, EntryTyped, FlagsTyped DEF ButUser, OthersSame, SendsAs, Sending
  <2>9. Served(K, Answered(X))
    BY <2>4, <2>7, <2>8, EntryServed DEF OthersSame
  <2> QED
    BY <1>3, <2>1, <2>9
<1> QED
  BY <1>2, <1>3

(* do_trace: u is stopped ...                                              *)
LEMMA StopKept ==
  ASSUME NEW K, Serving(K), NEW u \in Users, K.proc[u].p_priority = "USER"
  PROVE  Served(K, Answered(Stopped(K, u, {"P_STOP"})))
<1>1. /\ K \in KernelStates /\ KernelKept(K) /\ QueuesExact(K) /\ Highest(K)
      /\ u \in Procs /\ ~LeadsTasks(K, u)
  BY ProcFacts DEF Serving, KernelSound, KernelKept, RequestSound, LeadsTasks
<1>2. PICK X : X = Stopped(K, u, {"P_STOP"})
  OBVIOUS
<1>3. {"P_STOP"} \in SUBSET Flags
  BY DEF Flags
<1>4. StoppedTo(K, u, {"P_STOP"}, X)
  BY <1>1, <1>2, <1>3, StoppedKeeps
<1>5. /\ X \in KernelStates /\ OthersSame(K, X) /\ QueuesExact(X) /\ TasksStay(K, X)
      /\ Highest(X)
      /\ X.proc = [K.proc EXCEPT ![u] = Flagged(K.proc[u], K.proc[u].p_flags \union {"P_STOP"})]
  BY <1>1, <1>4 DEF StoppedTo
<1>6. K.proc[u].p_flags \union {"P_STOP"} \in SUBSET Flags
  BY <1>1, <1>3, EntryTyped
<1>7. (K.proc[u].p_flags \union {"P_STOP"}) \ {"P_STOP"} = K.proc[u].p_flags \ {"P_STOP"}
  OBVIOUS
<1>8. KernelKept(X)
  BY <1>1, <1>5, <1>6, <1>7, FlagKept
<1>9. ButUser(K, u, X)
  BY <1>1, <1>5, <1>6, EntryTyped, FlagsTyped DEF ButUser, OthersSame, SendsAs, Sending
<1> QED
  BY <1>2, <1>5, <1>8, <1>9, EntryServed DEF OthersSame

(* ... or goes on.                                                         *)
LEMMA ResumeKept ==
  ASSUME NEW K, Serving(K), NEW u \in Users, K.proc[u].p_priority = "USER",
         "P_STOP" \in K.proc[u].p_flags
  PROVE  Served(K, Answered(Released(K, u, {"P_STOP"})))
<1>1. /\ K \in KernelStates /\ KernelKept(K) /\ QueuesExact(K) /\ Highest(K)
      /\ u \in Procs /\ u # HARDWARE /\ K.rdy["TASK"] # <<>>
  BY ProcFacts DEF Serving, KernelSound, KernelKept, RequestSound
<1>2. PICK X : X = Released(K, u, {"P_STOP"})
  OBVIOUS
<1>3. {"P_STOP"} \in SUBSET Flags
  BY DEF Flags
<1>4. ReleasedTo(K, u, {"P_STOP"}, X)
  BY <1>1, <1>2, <1>3, ReleasedKeeps
<1>5. /\ X \in KernelStates /\ OthersSame(K, X) /\ QueuesExact(X) /\ TasksStay(K, X)
      /\ Highest(X)
      /\ X.proc = [K.proc EXCEPT ![u] = Flagged(K.proc[u], K.proc[u].p_flags \ {"P_STOP"})]
  BY <1>1, <1>4 DEF ReleasedTo
<1>6. K.proc[u].p_flags \ {"P_STOP"} \in SUBSET Flags
  BY <1>1, EntryTyped
<1>7. (K.proc[u].p_flags \ {"P_STOP"}) \ {"P_STOP"} = K.proc[u].p_flags \ {"P_STOP"}
  OBVIOUS
<1>8. KernelKept(X)
  BY <1>1, <1>5, <1>6, <1>7, FlagKept
<1>9. ButUser(K, u, X)
  BY <1>1, <1>5, <1>6, EntryTyped, FlagsTyped DEF ButUser, OthersSame, SendsAs, Sending
<1> QED
  BY <1>2, <1>5, <1>8, <1>9, EntryServed DEF OthersSame

(* do_endsig: MM is done with one of the signals of u.                     *)
LEMMA EndsigKept ==
  ASSUME NEW K, Serving(K), NEW u \in Users, K.told[u] > 0
  PROVE  LET less == [K EXCEPT !.told[u] = @ - 1, !.proc[u].p_pendcount = @ - 1]
         IN  Served(K, Answered(
               IF K.proc[u].p_priority = "NONE" \/ K.proc[u].p_pendcount = 0
               THEN [K EXCEPT !.told[u] = @ - 1]
               ELSE IF K.proc[u].p_pendcount > 1 THEN less
               ELSE Released(less, u, {"SIG_PENDING"})))
<1>1. /\ K \in KernelStates /\ KernelKept(K) /\ QueuesExact(K) /\ Highest(K)
      /\ EntriesSound(K) /\ SignalsKept(K) /\ SendersExact(K)
      /\ u \in Procs /\ u # HARDWARE /\ u \notin Tasks /\ u \notin Servers /\ u # MM_PROC_NR
      /\ K.rdy["TASK"] # <<>>
  BY ProcFacts DEF Serving, KernelSound, KernelKept, RequestSound
<1>2. /\ K.proc[u] \in ProcRecord /\ K.proc \in [Procs -> ProcRecord]
      /\ K.told \in [Users -> Int] /\ K.told[u] \in Int /\ K.proc[u].p_pendcount \in Int
  BY <1>1, EntryTyped DEF KernelStates, ProcRecord
<1>3. SignalsSound(K.proc[u], K.told[u]) /\ Sound(u, K.proc[u])
  BY <1>1 DEF SignalsKept, EntriesSound
<1>4. PICK n : n = K.told[u] - 1
  OBVIOUS
<1>5. n \in Int /\ n \in 0 .. MaxPendcount
  BY <1>2, <1>3, <1>4, CallAssumption DEF SignalsSound
<1>6. PICK told2 : told2 = [K.told EXCEPT ![u] = n]
  OBVIOUS
<1>7. told2 \in [Users -> Int] /\ told2[u] = n /\ \A v \in Users \ {u} : told2[v] = K.told[v]
  BY <1>2, <1>5, <1>6
<1>8. CASE K.proc[u].p_priority = "NONE" \/ K.proc[u].p_pendcount = 0
  <2>1. K.proc[u].p_priority # "USER"
    <3>1. SUFFICES ASSUME K.proc[u].p_priority = "USER" PROVE FALSE
      OBVIOUS
    <3>2. K.proc[u].p_pendcount = Cardinality(K.proc[u].p_pending) + K.told[u]
      BY <1>3, <3>1 DEF SignalsSound
    <3>3. Cardinality(K.proc[u].p_pending) \in Nat
      BY <1>3, FS_CardinalityType DEF SignalsSound
    <3> QED
      BY <1>2, <1>8, <3>1, <3>2, <3>3
  <2>2. PICK X : X = [K EXCEPT !.told = told2]
    OBVIOUS
  <2>3. X = [K EXCEPT !.told[u] = @ - 1]
    BY <1>4, <1>6, <2>2
  <2>4. /\ X \in KernelStates /\ X.proc = K.proc /\ X.rdy = K.rdy /\ X.proc_ptr = K.proc_ptr
        /\ X.sig_procs = K.sig_procs /\ X.told = told2 /\ X.m = K.m /\ X.due = K.due
    BY <1>1, <1>7, <2>2 DEF KernelStates
  <2>5. QueuesExact(X)
    BY <1>1, <2>4 DEF QueuesExact, ReadyOf
  <2>6. SignalsSound(K.proc[u], n)
    BY <1>3, <1>5, <2>1 DEF SignalsSound
  <2>7. K.proc = [K.proc EXCEPT ![u] = K.proc[u]]
    BY <1>2
  <2>8. PendingProcs(X) = PendingProcs(K)
    BY <2>4 DEF PendingProcs
  <2>9. EntryChanged(K, u, K.proc[u], X)
    BY <1>1, <1>3, <1>7, <2>4, <2>5, <2>6, <2>7, <2>8 DEF EntryChanged, SameSender, SignalsKept
  <2>10. KernelKept(X)
    BY <1>1, <1>2, <2>9, KeptEntry
  <2>11. TasksStay(K, X) /\ ButUser(K, u, X)
    BY <2>4 DEF TasksStay, ButUser, SendsAs
  <2>12. Highest(X)
    BY <1>1, <2>4, PickIs
  <2>13. Served(K, Answered(X))
    BY <2>4, <2>10, <2>11, <2>12, EntryServed
  <2> QED
    BY <1>8, <2>3, <2>13
<1>9. CASE ~(K.proc[u].p_priority = "NONE" \/ K.proc[u].p_pendcount = 0)
  <2>1. PICK k : k = K.proc[u].p_pendcount - 1
    OBVIOUS
  <2>2. /\ K.proc[u].p_priority = "USER" /\ k \in Int /\ k \in 0 .. MaxPendcount
        /\ K.proc[u].p_pendcount > 0 /\ "SIG_PENDING" \in K.proc[u].p_flags
        /\ k = Cardinality(K.proc[u].p_pending) + n
    <3>1. K.proc[u].p_priority = "USER"
      BY <1>1, <1>3, <1>9 DEF Sound
    <3>2. K.proc[u].p_pendcount = Cardinality(K.proc[u].p_pending) + K.told[u]
      BY <1>3, <3>1 DEF SignalsSound
    <3>3. Cardinality(K.proc[u].p_pending) \in Nat
      BY <1>3, FS_CardinalityType DEF SignalsSound
    <3>4. K.proc[u].p_pendcount \in 0 .. MaxPendcount /\ MaxPendcount \in Nat
      BY <1>3, CallAssumption DEF SignalsSound
    <3>5. K.proc[u].p_pendcount > 0
      BY <1>9, <3>4
    <3>6. "SIG_PENDING" \in K.proc[u].p_flags
      BY <1>3, <3>5 DEF SignalsSound
    <3> QED
      BY <1>2, <1>4, <2>1, <3>1, <3>2, <3>3, <3>4, <3>5, <3>6
  <2>3. PICK r : r = [K.proc[u] EXCEPT !.p_pendcount = k]
    OBVIOUS
  <2>4. /\ r \in ProcRecord /\ r.p_flags = K.proc[u].p_flags
        /\ r.p_priority = K.proc[u].p_priority
        /\ r.p_callerq = K.proc[u].p_callerq /\ r.p_sendto = K.proc[u].p_sendto
        /\ r.p_getfrom = K.proc[u].p_getfrom /\ r.p_int_blocked = K.proc[u].p_int_blocked
        /\ r.p_pending = K.proc[u].p_pending /\ r.p_pendcount = k
    BY <1>2, <2>2, <2>3 DEF ProcRecord
  <2>5. PICK W : W = [K EXCEPT !.told = told2, !.proc = [K.proc EXCEPT ![u] = r]]
    OBVIOUS
  <2>6. W = [K EXCEPT !.told[u] = @ - 1, !.proc[u].p_pendcount = @ - 1]
    BY <1>4, <1>6, <2>1, <2>3, <2>5
  <2>7. [K.proc EXCEPT ![u] = r] \in [Procs -> ProcRecord]
    BY <1>2, <2>4
  <2>8. /\ W \in KernelStates /\ W.proc = [K.proc EXCEPT ![u] = r] /\ W.rdy = K.rdy
        /\ W.proc_ptr = K.proc_ptr
        /\ W.sig_procs = K.sig_procs /\ W.told = told2 /\ W.m = K.m /\ W.due = K.due
    BY <1>1, <1>7, <2>5, <2>7 DEF KernelStates
  <2>9. W.proc[u] = r /\ \A x \in Procs \ {u} : W.proc[x] = K.proc[x]
    BY <1>1, <1>2, <2>8
  <2>10. QueuesExact(W)
    <3>1. \A x \in Procs : W.proc[x].p_priority = K.proc[x].p_priority
      BY <2>4, <2>9
    <3>2. \A x \in Procs : W.proc[x].p_flags = {} <=> K.proc[x].p_flags = {}
      BY <2>4, <2>9
    <3> QED
      BY <1>1, <2>8, <3>1, <3>2, QueuesSame
  <2>11. TasksStay(K, W) /\ Highest(W)
    <3>1. TasksStay(K, W)
      BY <2>8 DEF TasksStay
    <3>2. Highest(W)
      BY <1>1, <2>8, PickIs
    <3> QED
      BY <3>1, <3>2
  <2>12. /\ Sending(r) <=> Sending(K.proc[u])
         /\ Receiving(r) <=> Receiving(K.proc[u])
         /\ \A s : WaitsFor(r, s) <=> WaitsFor(K.proc[u], s)
    BY <2>4 DEF Sending, Receiving, WaitsFor
  <2>13. Sound(u, r) /\ SameSender(r, K.proc[u])
    BY <1>3, <2>4, <2>12 DEF Sound, SameSender
  <2>14. CASE K.proc[u].p_pendcount > 1
    <3>1. SignalsSound(r, n)
      <4>1. k > 0
        BY <1>2, <2>1, <2>14
      <4> QED
        BY <1>3, <1>5, <2>2, <2>4, <4>1 DEF SignalsSound
    <3>2. PendingProcs(W) = PendingProcs(K)
      BY <2>4, <2>9 DEF PendingProcs
    <3>3. EntryChanged(K, u, r, W)
      BY <1>1, <1>7, <2>8, <2>10, <2>13, <3>1, <3>2 DEF EntryChanged, SignalsKept
    <3>4. KernelKept(W)
      BY <1>1, <2>4, <3>3, KeptEntry
    <3>5. ButUser(K, u, W)
      BY <2>4, <2>8, <2>9, <2>12 DEF ButUser, SendsAs
    <3>6. Served(K, Answered(W))
      BY <2>8, <2>11, <3>4, <3>5, EntryServed
    <3> QED
      BY <1>9, <2>6, <2>14, <3>6
  <2>15. CASE ~(K.proc[u].p_pendcount > 1)
    <3>1. k = 0 /\ n = 0 /\ K.proc[u].p_pending = {}
      <4>1. k = 0
        BY <1>2, <2>1, <2>2, <2>15
      <4>2. Cardinality(K.proc[u].p_pending) \in Nat
        BY <1>3, FS_CardinalityType DEF SignalsSound
      <4>3. n = 0 /\ Cardinality(K.proc[u].p_pending) = 0
        BY <1>5, <2>2, <4>1, <4>2
      <4> QED
        BY <1>3, <4>1, <4>3, FS_EmptySet DEF SignalsSound
    <3>2. PICK X : X = Released(W, u, {"SIG_PENDING"})
      OBVIOUS
    <3>3. {"SIG_PENDING"} \in SUBSET Flags
      BY DEF Flags
    <3>4. ReleasedTo(W, u, {"SIG_PENDING"}, X)
      <4>1. W.proc[u].p_priority # "NONE" /\ W.proc[u].p_flags # {}
        BY <2>2, <2>4, <2>9
      <4> QED
        BY <1>1, <2>8, <2>10, <3>2, <3>3, <4>1, ReleasedKeeps
    <3>5. PICK F : F = K.proc[u].p_flags \ {"SIG_PENDING"}
      OBVIOUS
    <3>6. PICK e : e = Flagged(r, F)
      OBVIOUS
    <3>7. /\ X \in KernelStates /\ OthersSame(W, X) /\ QueuesExact(X) /\ TasksStay(W, X)
          /\ Highest(X) /\ X.proc = [W.proc EXCEPT ![u] = e]
      BY <1>1, <2>4, <2>8, <2>9, <2>11, <3>4, <3>5, <3>6 DEF ReleasedTo
    <3>8. F \in SUBSET Flags
      BY <1>1, <3>5, EntryTyped
    <3>9. /\ e \in ProcRecord /\ e.p_flags = F
          /\ e.p_priority = r.p_priority
          /\ e.p_callerq = r.p_callerq /\ e.p_sendto = r.p_sendto
          /\ e.p_getfrom = r.p_getfrom /\ e.p_int_blocked = r.p_int_blocked
          /\ e.p_pending = r.p_pending /\ e.p_pendcount = r.p_pendcount
      BY <2>4, <3>6, <3>8, FlagsTyped
    <3>10. X.proc = [K.proc EXCEPT ![u] = e]
      BY <1>2, <2>8, <3>7
    <3>11. \A f \in {"SENDING", "RECEIVING", "PENDING"} : f \in F <=> f \in r.p_flags
      BY <2>4, <3>5
    <3>12. /\ Sending(e) <=> Sending(r)
           /\ Receiving(e) <=> Receiving(r)
           /\ \A s : WaitsFor(e, s) <=> WaitsFor(r, s)
      BY <3>9, <3>11 DEF Sending, Receiving, WaitsFor
    <3>13. Sound(u, e)
      BY <1>1, <2>2, <2>4, <2>13, <3>9, <3>12 DEF Sound
    <3>14. SameSender(e, K.proc[u])
      BY <2>13, <3>9, <3>12 DEF SameSender
    <3>15. SignalsSound(e, n)
      <4>1. "SIG_PENDING" \notin F
        BY <3>5
      <4>2. "PENDING" \in e.p_flags <=> "PENDING" \in K.proc[u].p_flags
        BY <2>4, <3>9, <3>11
      <4>3. e.p_pending = K.proc[u].p_pending /\ e.p_pendcount = 0
        BY <2>4, <3>1, <3>9
      <4> QED
        BY <1>3, <1>5, <2>2, <3>1, <3>9, <4>1, <4>2, <4>3 DEF SignalsSound
    <3>16. X.proc[u] = e /\ \A x \in Procs \ {u} : X.proc[x] = K.proc[x]
      BY <1>1, <1>2, <3>10
    <3>17. PendingProcs(X) = PendingProcs(K)
      BY <2>4, <3>9, <3>11, <3>16 DEF PendingProcs
    <3>18. EntryChanged(K, u, e, X)
      BY <1>1, <1>7, <2>8, <3>7, <3>10, <3>13, <3>14, <3>15, <3>17
         DEF EntryChanged, SignalsKept, OthersSame
    <3>19. KernelKept(X)
      BY <1>1, <3>9, <3>18, KeptEntry
    <3>20. ButUser(K, u, X)
      BY <2>4, <2>8, <2>12, <3>7, <3>9, <3>12, <3>16 DEF ButUser, OthersSame, SendsAs
    <3>21. TasksStay(K, X)
      BY <2>8, <3>7 DEF TasksStay
    <3>22. Served(K, Answered(X))
      BY <2>8, <3>7, <3>19, <3>20, <3>21, EntryServed DEF OthersSame
    <3> QED
      BY <1>9, <2>6, <2>15, <3>2, <3>22
  <2> QED
    BY <2>14, <2>15
<1> QED
  BY <1>8, <1>9

(* do_fork: the child is a copy of its parent, which waits for MM.         *)
LEMMA ForkKept ==
  ASSUME NEW K, Serving(K), NEW parent \in Users, NEW child \in Users,
         K.proc[parent].p_priority = "USER", Accepts(K, parent, MM_PROC_NR),
         K.proc[child].p_priority = "NONE", K.told[child] = 0
  PROVE  Served(K, Answered([K EXCEPT !.proc[child] = [K.proc[parent] EXCEPT
           !.p_flags = (@ \union {"NO_MAP"}) \ {"PENDING", "SIG_PENDING", "P_STOP"},
           !.p_pending = {}, !.p_pendcount = 0]]))
<1>1. /\ K \in KernelStates /\ KernelKept(K) /\ QueuesExact(K) /\ Highest(K)
      /\ EntriesSound(K) /\ SignalsKept(K) /\ SendersExact(K)
      /\ child \in Procs /\ parent \in Procs /\ child # HARDWARE
      /\ child \notin Tasks /\ child \notin Servers /\ child # MM_PROC_NR
  BY ProcFacts DEF Serving, KernelSound, KernelKept
<1>2. K.proc[parent] \in ProcRecord /\ K.proc \in [Procs -> ProcRecord]
  BY <1>1, EntryTyped
<1>3. Sound(parent, K.proc[parent]) /\ Sound(child, K.proc[child])
  BY <1>1 DEF EntriesSound
<1>4. /\ K.proc[child].p_flags = {} /\ K.proc[child].p_callerq = <<>>
      /\ K.proc[parent].p_callerq = <<>>
  BY <1>3 DEF Sound
<1>5. PICK F : F = (K.proc[parent].p_flags \union {"NO_MAP"}) \ {"PENDING", "SIG_PENDING", "P_STOP"}
  OBVIOUS
<1>6. /\ F \in SUBSET Flags /\ F # {} /\ "RECEIVING" \in F /\ "SENDING" \notin F
      /\ "PENDING" \notin F /\ "SIG_PENDING" \notin F
  BY <1>1, <1>5, EntryTyped DEF Accepts, Flags
<1>7. PICK r : r = [K.proc[parent] EXCEPT !.p_flags = F, !.p_pending = {}, !.p_pendcount = 0]
  OBVIOUS
<1>8. /\ r \in ProcRecord /\ r.p_flags = F /\ r.p_priority = "USER" /\ r.p_callerq = <<>>
      /\ r.p_getfrom = K.proc[parent].p_getfrom
      /\ r.p_int_blocked = K.proc[parent].p_int_blocked
      /\ r.p_pending = {} /\ r.p_pendcount = 0
  <2>1. 0 \in Int /\ {} \in SUBSET Sigs
    OBVIOUS
  <2>2. /\ r \in ProcRecord /\ r.p_flags = F /\ r.p_priority = K.proc[parent].p_priority
        /\ r.p_callerq = K.proc[parent].p_callerq /\ r.p_getfrom = K.proc[parent].p_getfrom
        /\ r.p_int_blocked = K.proc[parent].p_int_blocked
        /\ r.p_pending = {} /\ r.p_pendcount = 0
    BY <1>2, <1>6, <1>7, <2>1 DEF ProcRecord
  <2> QED
    BY <1>4, <2>2
<1>9. PICK X : X = [K EXCEPT !.proc = [K.proc EXCEPT ![child] = r]]
  OBVIOUS
<1>10. X = [K EXCEPT !.proc[child] = [K.proc[parent] EXCEPT
              !.p_flags = (@ \union {"NO_MAP"}) \ {"PENDING", "SIG_PENDING", "P_STOP"},
              !.p_pending = {}, !.p_pendcount = 0]]
  BY <1>5, <1>7, <1>9
<1>11. Replaced(K, child, r, X)
  BY <1>1, <1>8, <1>9, NewEntry
<1>12. /\ X \in KernelStates /\ X.proc = [K.proc EXCEPT ![child] = r] /\ X.proc[child] = r
       /\ X.rdy = K.rdy /\ X.proc_ptr = K.proc_ptr
       /\ X.sig_procs = K.sig_procs /\ X.told = K.told /\ X.m = K.m /\ X.due = K.due
  BY <1>11 DEF Replaced, OthersSame
<1>13. \A x \in Procs \ {child} : X.proc[x] = K.proc[x]
  BY <1>11 DEF Replaced
<1>14. QueuesExact(X)
  <2>1. ASSUME NEW q \in QueueNames, NEW x \in Procs
        PROVE  (X.proc[x].p_priority = q /\ X.proc[x].p_flags = {}) <=>
                 (K.proc[x].p_priority = q /\ K.proc[x].p_flags = {})
    <3>1. CASE x = child
      BY <1>6, <1>8, <1>12, <3>1 DEF QueueNames
    <3>2. CASE x # child
      BY <1>13, <3>2
    <3> QED
      BY <3>1, <3>2
  <2>2. \A q \in QueueNames : ReadyOf(X, q) = ReadyOf(K, q)
    BY <2>1 DEF ReadyOf
  <2> QED
    BY <1>1, <1>12, <2>2 DEF QueuesExact
<1>15. ~Sending(r) /\ ~Sending(K.proc[child])
  BY <1>4, <1>6, <1>8 DEF Sending
<1>16. SameSender(r, K.proc[child])
  BY <1>4, <1>8, <1>15 DEF SameSender
<1>17. Sound(child, r)
  <2>1. Receiving(r) /\ r.p_getfrom \in Servers
    <3>1. Receiving(K.proc[parent])
      BY DEF Accepts, Receiving
    <3> QED
      BY <1>3, <1>6, <1>8, <3>1 DEF Sound, Receiving
  <2>2. ~WaitsFor(r, HARDWARE)
    BY <2>1, ProcFacts DEF WaitsFor
  <2>3. Range(r.p_callerq) = {}
    <3>1. r.p_callerq \in Seq(Procs)
      BY <1>8 DEF ProcRecord
    <3> QED
      BY <1>8, <3>1, EmptyRange
  <2> QED
    BY <1>1, <1>8, <1>15, <2>1, <2>2, <2>3 DEF Sound
<1>18. SignalsSound(r, K.told[child])
  <2>1. IsFiniteSet({}) /\ Cardinality({}) = 0
    BY FS_EmptySet
  <2>2. 0 \in 0 .. MaxPendcount
    BY CallAssumption
  <2> QED
    BY <1>6, <1>8, <2>1, <2>2 DEF SignalsSound
<1>19. PendingProcs(X) = PendingProcs(K)
  <2>1. ASSUME NEW x \in Procs
        PROVE  "PENDING" \in X.proc[x].p_flags <=> "PENDING" \in K.proc[x].p_flags
    <3>1. CASE x = child
      BY <1>4, <1>6, <1>8, <1>12, <3>1
    <3>2. CASE x # child
      BY <1>13, <3>2
    <3> QED
      BY <3>1, <3>2
  <2> QED
    BY <2>1 DEF PendingProcs
<1>20. EntryChanged(K, child, r, X)
  BY <1>1, <1>12, <1>14, <1>16, <1>17, <1>18, <1>19 DEF EntryChanged, SignalsKept
<1>21. KernelKept(X)
  BY <1>1, <1>8, <1>20, KeptEntry
<1>22. TasksStay(K, X) /\ ButUser(K, child, X)
  BY <1>12, <1>13, <1>15 DEF TasksStay, ButUser, SendsAs
<1>23. Highest(X)
  BY <1>1, <1>12, PickIs
<1> QED
  BY <1>10, <1>12, <1>21, <1>22, <1>23, EntryServed

(* do_exec wakes u, after it has signalled it if u is traced. MM waits for *)
(* SYSTASK alone, so that inform does not write over the request.          *)
LEMMA ExecKept ==
  ASSUME NEW K, Serving(K), K.m.source = MM_PROC_NR, NEW u \in Users, NEW sig \in Sigs,
         NEW traced \in BOOLEAN, K.proc[u].p_priority = "USER", Accepts(K, u, MM_PROC_NR),
         traced => (sig \notin K.proc[u].p_pending => K.proc[u].p_pendcount < MaxPendcount)
  PROVE  Served(K, Answered(
           Released(IF traced THEN cause_sig(K, u, sig) ELSE K, u, {"RECEIVING"})))
<1>1. /\ K \in KernelStates /\ KernelKept(K) /\ KernelSound(K)
      /\ u \in Procs /\ u # HARDWARE /\ u # MM_PROC_NR /\ u \notin Tasks /\ u \notin Servers
      /\ MM_PROC_NR \in Servers /\ MM_PROC_NR \in Procs
      /\ K.rdy["TASK"] # <<>> /\ K.proc[MM_PROC_NR].p_getfrom = SYSTASK
      /\ K.m.body = "request"
  BY ProcFacts DEF Serving, KernelSound, KernelKept, RequestSound
<1>2. ~WaitsFor(K.proc[MM_PROC_NR], HARDWARE)
  BY <1>1, ProcFacts DEF WaitsFor
<1>3. PICK Y : Y = IF traced THEN cause_sig(K, u, sig) ELSE K
  OBVIOUS
<1>4. /\ KernelSound(Y) /\ TasksStay(K, Y) /\ Y.due = K.due
      /\ Y.m.source = K.m.source /\ Y.m.body = K.m.body
      /\ \A x \in Procs : SameWait(Y.proc[x], K.proc[x])
  <2>1. CASE traced
    <3>1. CausedTo(K, Y)
      BY <1>1, <1>3, <2>1, CauseKept
    <3> QED
      BY <1>2, <3>1 DEF CausedTo
  <2>2. CASE ~traced
    BY <1>1, <1>3, <2>2 DEF TasksStay, SameWait
  <2> QED
    BY <2>1, <2>2
<1>5. /\ Y \in KernelStates /\ KernelKept(Y) /\ MMHears(Y) /\ Highest(Y) /\ Y.rdy["TASK"] # <<>>
  BY <1>1, <1>4 DEF KernelSound, KernelKept, TasksStay
<1>6. Receiving(Y.proc[u]) /\ ~Sending(Y.proc[u])
  BY <1>1, <1>4 DEF Accepts, SameWait, Sending, Receiving
<1>7. PICK X : X = Released(Y, u, {"RECEIVING"})
  OBVIOUS
<1>8. KernelKept(X) /\ ReleasedTo(Y, u, {"RECEIVING"}, X)
  BY <1>1, <1>5, <1>6, <1>7, WakeKept
<1>9. /\ OthersSame(Y, X) /\ TasksStay(Y, X) /\ Highest(X)
      /\ X.proc = [Y.proc EXCEPT ![u] = Flagged(Y.proc[u], Y.proc[u].p_flags \ {"RECEIVING"})]
  BY <1>5, <1>8 DEF ReleasedTo
<1>10. \A x \in Procs \ {u} : X.proc[x] = Y.proc[x]
  BY <1>1, <1>5, <1>9, EntryTyped
<1>11. MMHears(X)
  BY <1>1, <1>5, <1>9, <1>10 DEF MMHears, OthersSame
<1>12. \A p \in Tasks \union Servers : SameWait(X.proc[p], K.proc[p])
  BY <1>1, <1>4, <1>10, ProcFacts
<1>13. Worked(K, X)
  <2>1. \A t \in Tasks : X.proc[t].p_int_blocked = K.proc[t].p_int_blocked
    BY <1>12 DEF SameWait
  <2>2. TasksStay(K, X)
    BY <1>4, <1>9 DEF TasksStay
  <2>3. X.due = K.due /\ X.m.source = K.m.source /\ X.m.body = "request"
    BY <1>1, <1>4, <1>9 DEF OthersSame
  <2>4. NobodyStarts(K, X)
    <3>1. Y.proc[u] \in ProcRecord /\ Y.proc[u].p_flags \ {"RECEIVING"} \in SUBSET Flags
          /\ Y.proc \in [Procs -> ProcRecord]
      BY <1>1, <1>5, EntryTyped
    <3>2. ~Sending(X.proc[u])
      BY <1>1, <1>6, <1>9, <3>1, FlagsTyped DEF Sending
    <3> QED
      BY <1>4, <1>10, <3>2 DEF NobodyStarts, SendsAs, SameWait
  <2> QED
    BY <1>1, <1>8, <1>9, <1>11, <1>12, <2>1, <2>2, <2>3, <2>4 DEF Worked, KernelSound
<1> QED
  BY <1>3, <1>7, <1>13, AnswerKept

(* do_xit: a user is taken from the queue it is ready or sending in, and   *)
(* from the count.                                                         *)
LEMMA XitKept ==
  ASSUME NEW K, Serving(K), K.proc = proc, NEW u \in Users, K.proc[u].p_priority = "USER"
  PROVE  LET V == IF proc[u].p_flags = {} THEN unready(K, u) ELSE K
         IN  Served(K, Answered([V EXCEPT
               !.proc = [p \in Procs |->
                  IF p = u
                  THEN [proc[u] EXCEPT !.p_callerq = Dequeued(u, @), !.p_pending = {},
                                       !.p_pendcount = 0, !.p_flags = {}, !.p_priority = "NONE"]
                  ELSE [proc[p] EXCEPT !.p_callerq = Dequeued(u, @)]],
               !.sig_procs = @ - CountOff(u)]))
<1>1. /\ K \in KernelStates /\ KernelKept(K) /\ QueuesExact(K) /\ Highest(K) /\ MMHears(K)
      /\ EntriesSound(K) /\ SignalsKept(K) /\ SendersExact(K) /\ NoRepeat(K)
      /\ u \in Procs /\ u # HARDWARE /\ u \notin Tasks /\ u \notin Servers /\ u # MM_PROC_NR
      /\ ~LeadsTasks(K, u)
  BY ProcFacts DEF Serving, KernelSound, KernelKept, QueuesExact, NoRepeat, RequestSound, LeadsTasks
<1>2. K.proc \in [Procs -> ProcRecord]
  BY <1>1 DEF KernelStates
<1>3. Sound(u, K.proc[u]) /\ K.proc[u].p_callerq = <<>>
  BY <1>1 DEF EntriesSound, Sound
<1>4. PICK V : V = IF K.proc[u].p_flags = {} THEN unready(K, u) ELSE K
  OBVIOUS
<1>5. /\ V \in KernelStates /\ OthersSame(K, V) /\ TasksStay(K, V) /\ Highest(V)
      /\ \A q \in QueueNames :
           IsInjective(V.rdy[q]) /\ Range(V.rdy[q]) = ReadyOf(K, q) \ {u}
  <2>1. CASE K.proc[u].p_flags = {}
    <3>1. Left(K, u, V)
      BY <1>1, <1>4, <2>1, UnreadyKeeps
    <3>2. ASSUME NEW q \in QueueNames
          PROVE  Range(V.rdy[q]) = ReadyOf(K, q) \ {u}
      <4>1. Range(K.rdy[q]) = ReadyOf(K, q)
        BY <1>1 DEF QueuesExact
      <4>2. q # K.proc[u].p_priority => u \notin ReadyOf(K, q)
        BY DEF ReadyOf
      <4> QED
        BY <3>1, <4>1, <4>2 DEF Left
    <3> QED
      BY <1>1, <3>1, <3>2 DEF Left
  <2>2. CASE K.proc[u].p_flags # {}
    <3>1. \A q : u \notin ReadyOf(K, q)
      BY <2>2 DEF ReadyOf
    <3> QED
      BY <1>1, <1>4, <2>2, <3>1 DEF OthersSame, TasksStay, QueuesExact
  <2> QED
    BY <2>1, <2>2
<1>6. PICK table : table = [p \in Procs |->
        IF p = u
        THEN [K.proc[u] EXCEPT !.p_callerq = Dequeued(u, @), !.p_pending = {},
                               !.p_pendcount = 0, !.p_flags = {}, !.p_priority = "NONE"]
        ELSE [K.proc[p] EXCEPT !.p_callerq = Dequeued(u, @)]]
  OBVIOUS
<1>7. ASSUME NEW p \in Procs
      PROVE  /\ Dequeued(u, K.proc[p].p_callerq) \in Seq(Procs)
             /\ IsInjective(Dequeued(u, K.proc[p].p_callerq))
             /\ Range(Dequeued(u, K.proc[p].p_callerq)) = SendersOf(K, p) \ {u}
  <2>1. K.proc[p].p_callerq \in Seq(Procs)
    BY <1>1, EntryTyped
  <2>2. IsInjective(K.proc[p].p_callerq) /\ Range(K.proc[p].p_callerq) = SendersOf(K, p)
    BY <1>1 DEF SendersExact
  <2>3. CASE Sending(K.proc[u])
    BY <2>1, <2>2, <2>3, RemoveFirstFacts DEF Dequeued, Sending
  <2>4. CASE ~Sending(K.proc[u])
    <3>1. u \notin SendersOf(K, p)
      BY <2>4 DEF SendersOf
    <3> QED
      BY <2>1, <2>2, <2>4, <3>1 DEF Dequeued, Sending
  <2> QED
    BY <2>3, <2>4
<1>8. PICK r : r = table[u]
  OBVIOUS
<1>9. /\ r \in ProcRecord /\ r.p_flags = {} /\ r.p_priority = "NONE" /\ r.p_pending = {}
      /\ r.p_pendcount = 0 /\ r.p_callerq = Dequeued(u, K.proc[u].p_callerq)
  <2>1. K.proc[u] \in ProcRecord /\ Dequeued(u, K.proc[u].p_callerq) \in Seq(Procs)
    BY <1>1, <1>2, <1>7
  <2>2. r = [K.proc[u] EXCEPT !.p_callerq = Dequeued(u, @), !.p_pending = {},
                              !.p_pendcount = 0, !.p_flags = {}, !.p_priority = "NONE"]
    BY <1>1, <1>6, <1>8
  <2>3. {} \in SUBSET Sigs /\ {} \in SUBSET Flags /\ 0 \in Int
    OBVIOUS
  <2> QED
    BY <2>1, <2>2, <2>3 DEF ProcRecord
<1>10. ASSUME NEW p \in Procs \ {u}
       PROVE  /\ table[p] \in ProcRecord
              /\ table[p].p_priority = K.proc[p].p_priority
              /\ table[p].p_flags = K.proc[p].p_flags
              /\ table[p].p_sendto = K.proc[p].p_sendto
              /\ table[p].p_getfrom = K.proc[p].p_getfrom
              /\ table[p].p_int_blocked = K.proc[p].p_int_blocked
              /\ table[p].p_pending = K.proc[p].p_pending
              /\ table[p].p_pendcount = K.proc[p].p_pendcount
              /\ table[p].p_callerq = Dequeued(u, K.proc[p].p_callerq)
  <2>1. K.proc[p] \in ProcRecord /\ Dequeued(u, K.proc[p].p_callerq) \in Seq(Procs)
    BY <1>2, <1>7
  <2>2. table[p] = [K.proc[p] EXCEPT !.p_callerq = Dequeued(u, @)]
    BY <1>6
  <2> QED
    BY <2>1, <2>2 DEF ProcRecord
<1>11. table \in [Procs -> ProcRecord]
  <2>1. \A p \in Procs : table[p] \in ProcRecord
    BY <1>8, <1>9, <1>10
  <2> QED
    BY <1>6, <2>1
<1>12. CountOff(u) = IF "PENDING" \in K.proc[u].p_flags THEN 1 ELSE 0
  BY DEF CountOff
<1>13. PICK n : n = K.sig_procs - CountOff(u)
  OBVIOUS
<1>14. PICK X : X = [V EXCEPT !.proc = table, !.sig_procs = n]
  OBVIOUS
<1>15. n \in Int
  BY <1>1, <1>12, <1>13 DEF KernelStates
<1>16. /\ X \in KernelStates /\ X.proc = table /\ X.rdy = V.rdy /\ X.proc_ptr = V.proc_ptr
       /\ X.sig_procs = n /\ X.told = K.told /\ X.m = K.m /\ X.due = K.due
  BY <1>5, <1>11, <1>14, <1>15 DEF KernelStates, OthersSame
<1>17. ASSUME NEW p \in Procs \ {u}
       PROVE  /\ Sending(table[p]) <=> Sending(K.proc[p])
              /\ Receiving(table[p]) <=> Receiving(K.proc[p])
              /\ \A s : WaitsFor(table[p], s) <=> WaitsFor(K.proc[p], s)
  BY <1>10 DEF Sending, Receiving, WaitsFor
<1>18. \A d : SendersOf(X, d) = SendersOf(K, d) \ {u}
  <2>1. ~Sending(X.proc[u])
    BY <1>8, <1>9, <1>16 DEF Sending
  <2>2. ASSUME NEW d, NEW s \in Procs
        PROVE  s \in SendersOf(X, d) <=> s \in SendersOf(K, d) /\ s # u
    <3>1. CASE s = u
      BY <2>1, <3>1 DEF SendersOf
    <3>2. CASE s # u
      BY <1>10, <1>16, <1>17, <3>2 DEF SendersOf
    <3> QED
      BY <3>1, <3>2
  <2>3. \A d : SendersOf(X, d) \subseteq Procs /\ SendersOf(K, d) \subseteq Procs
    BY DEF SendersOf
  <2> QED
    BY <2>2, <2>3
<1>19. SendersExact(X)
  <2>1. ASSUME NEW d \in Procs PROVE X.proc[d].p_callerq = Dequeued(u, K.proc[d].p_callerq)
    BY <1>8, <1>9, <1>10, <1>16
  <2> QED
    BY <1>7, <1>18, <2>1 DEF SendersExact
<1>20. QueuesExact(X)
  <2>1. ASSUME NEW q \in QueueNames PROVE ReadyOf(X, q) = ReadyOf(K, q) \ {u}
    <3>1. X.proc[u].p_priority # q
      BY <1>8, <1>9, <1>16 DEF QueueNames
    <3>2. ASSUME NEW s \in Procs
          PROVE  s \in ReadyOf(X, q) <=> s \in ReadyOf(K, q) /\ s # u
      <4>1. CASE s = u
        BY <3>1, <4>1 DEF ReadyOf
      <4>2. CASE s # u
        BY <1>10, <1>16, <4>2 DEF ReadyOf
      <4> QED
        BY <4>1, <4>2
    <3>3. ReadyOf(X, q) \subseteq Procs /\ ReadyOf(K, q) \subseteq Procs
      BY DEF ReadyOf
    <3> QED
      BY <3>2, <3>3
  <2> QED
    BY <1>5, <1>16, <2>1 DEF QueuesExact
<1>21. EntriesSound(X)
  <2>1. ASSUME NEW p \in Procs PROVE Sound(p, X.proc[p])
    <3>1. CASE p = u
      <4>1. Range(r.p_callerq) = {}
        <5>1. Range(K.proc[u].p_callerq) = {}
          BY <1>1, <1>3, EntryTyped, EmptyRange
        <5>2. SendersOf(K, u) = {}
          BY <1>1, <5>1 DEF SendersExact
        <5>3. Range(Dequeued(u, K.proc[u].p_callerq)) = {}
          BY <1>1, <1>7, <5>2
        <5> QED
          BY <1>9, <5>3
      <4>2. r.p_callerq = <<>>
        BY <1>1, <1>7, <1>9, <4>1, EmptyRange
      <4>3. ~Sending(r) /\ ~Receiving(r) /\ ~WaitsFor(r, HARDWARE)
        BY <1>9 DEF Sending, Receiving, WaitsFor
      <4> QED
        BY <1>1, <1>8, <1>9, <1>16, <3>1, <4>1, <4>2, <4>3 DEF Sound
    <3>2. CASE p # u
      <4>1. Sound(p, K.proc[p])
        BY <1>1 DEF EntriesSound
      <4>2. p \in Users => X.proc[p].p_callerq = <<>>
        <5>1. SUFFICES ASSUME p \in Users PROVE X.proc[p].p_callerq = <<>>
          OBVIOUS
        <5>2. Range(K.proc[p].p_callerq) = {}
          BY <1>1, <4>1, <5>1, EntryTyped, EmptyRange DEF Sound
        <5>3. Range(X.proc[p].p_callerq) = {} /\ X.proc[p].p_callerq \in Seq(Procs)
          BY <1>1, <1>7, <1>10, <1>16, <3>2, <5>2, ZenonT(40) DEF SendersExact
        <5> QED
          BY <5>3, EmptyRange
      <4>3. Range(X.proc[p].p_callerq) \subseteq Range(K.proc[p].p_callerq)
        BY <1>1, <1>7, <1>10, <1>16, <3>2 DEF SendersExact
      <4>4. /\ Sending(X.proc[p]) <=> Sending(K.proc[p])
            /\ Receiving(X.proc[p]) <=> Receiving(K.proc[p])
            /\ \A s : WaitsFor(X.proc[p], s) <=> WaitsFor(K.proc[p], s)
        BY <1>16, <1>17, <3>2
      <4>5. /\ X.proc[p].p_priority = K.proc[p].p_priority
            /\ X.proc[p].p_flags = K.proc[p].p_flags
            /\ X.proc[p].p_sendto = K.proc[p].p_sendto
            /\ X.proc[p].p_getfrom = K.proc[p].p_getfrom
            /\ X.proc[p].p_int_blocked = K.proc[p].p_int_blocked
        BY <1>10, <1>16, <3>2
      <4> QED
        BY <4>1, <4>2, <4>3, <4>4, <4>5 DEF Sound
    <3> QED
      BY <3>1, <3>2
  <2> QED
    BY <2>1 DEF EntriesSound
<1>22. PendingProcs(X) = PendingProcs(K) \ {u}
  <2>1. ASSUME NEW p \in Procs
        PROVE  p \in PendingProcs(X) <=> p \in PendingProcs(K) /\ p # u
    <3>1. CASE p = u
      BY <1>8, <1>9, <1>16, <3>1 DEF PendingProcs
    <3>2. CASE p # u
      BY <1>10, <1>16, <3>2 DEF PendingProcs
    <3> QED
      BY <3>1, <3>2
  <2>2. PendingProcs(X) \subseteq Procs /\ PendingProcs(K) \subseteq Procs
    BY DEF PendingProcs
  <2> QED
    BY <2>1, <2>2
<1>23. n = Cardinality(PendingProcs(X))
  <2>1. IsFiniteSet(PendingProcs(K)) /\ Cardinality(PendingProcs(K)) \in Nat
    BY <1>1, PendingFacts
  <2>2. K.sig_procs = Cardinality(PendingProcs(K))
    BY <1>1 DEF SignalsKept
  <2>3. CASE u \in PendingProcs(K)
    <3>1. Cardinality(PendingProcs(K) \ {u}) = Cardinality(PendingProcs(K)) - 1
      BY <2>1, <2>3, FS_RemoveElement
    <3>2. CountOff(u) = 1
      BY <1>12, <2>3 DEF PendingProcs
    <3> QED
      BY <1>13, <1>22, <2>2, <3>1, <3>2
  <2>4. CASE u \notin PendingProcs(K)
    <3>1. PendingProcs(K) \ {u} = PendingProcs(K)
      BY <2>4
    <3>2. CountOff(u) = 0
      BY <1>1, <1>12, <2>4 DEF PendingProcs
    <3> QED
      BY <1>13, <1>22, <2>1, <2>2, <3>1, <3>2
  <2> QED
    BY <2>3, <2>4
<1>24. SignalsKept(X)
  <2>1. ASSUME NEW v \in Users PROVE SignalsSound(X.proc[v], X.told[v])
    <3>1. SignalsSound(K.proc[v], K.told[v]) /\ v \in Procs
      BY <1>1, ProcFacts DEF SignalsKept
    <3>2. CASE v = u
      <4>1. IsFiniteSet({}) /\ 0 \in 0 .. MaxPendcount
        BY FS_EmptySet, CallAssumption
      <4>2. X.proc[v] = r /\ X.told[v] = K.told[v]
        BY <1>8, <1>16, <3>2
      <4>3. SignalsSound(r, K.told[v])
        <5>1. K.told[v] \in 0 .. MaxPendcount
          BY <3>1 DEF SignalsSound
        <5>2. ~(0 > 0)
          OBVIOUS
        <5>3. /\ r.p_pending = {} /\ r.p_pendcount = 0 /\ r.p_flags = {}
              /\ r.p_priority # "USER"
          BY <1>9
        <5>4. "PENDING" \notin r.p_flags /\ "SIG_PENDING" \notin r.p_flags
          BY <5>3
        <5> QED
          BY <4>1, <5>1, <5>2, <5>3, <5>4 DEF SignalsSound
      <4> QED
        BY <4>2, <4>3
    <3>3. CASE v # u
      BY <1>10, <1>16, <3>1, <3>3 DEF SignalsSound
    <3> QED
      BY <3>2, <3>3
  <2>2. \A v \in Procs \ Users : X.proc[v].p_pendcount = 0
    BY <1>1, <1>10, <1>16 DEF SignalsKept
  <2> QED
    BY <1>16, <1>23, <2>1, <2>2 DEF SignalsKept
<1>25. KernelKept(X)
  BY <1>16, <1>19, <1>20, <1>21, <1>24 DEF KernelKept
<1>26. Highest(X) /\ TasksStay(K, X)
  BY <1>5, <1>16, PickIs DEF TasksStay
<1>27. \A p \in Procs \ {u} : SameWait(X.proc[p], K.proc[p])
  BY <1>10, <1>16, <1>17 DEF SameWait
<1>28. K.sig_procs = 0 => n = 0
  <2>1. SUFFICES ASSUME K.sig_procs = 0 PROVE n = 0
    OBVIOUS
  <2>2. PendingProcs(K) = {}
    BY <1>1, <2>1, PendingFacts
  <2>3. PendingProcs(X) = {}
    BY <1>22, <2>2
  <2> QED
    BY <1>23, <2>3, FS_EmptySet
<1>29. MMHears(X)
  BY <1>1, <1>16, <1>17, <1>28, ProcFacts DEF MMHears
<1>30. \A p \in Tasks \union Servers : SameWait(X.proc[p], K.proc[p])
  BY <1>1, <1>27, ProcFacts
<1>31. Served(K, Answered(X))
  <2>1. \A v \in Users : SendsAs(X.proc[v], K.proc[v])
    BY <1>8, <1>9, <1>16, <1>27, ProcFacts DEF SendsAs, SameWait, Sending
  <2> QED
    BY <1>16, <1>25, <1>26, <1>29, <1>30, <2>1, UserWork DEF KernelSound
<1>32. V.sig_procs = K.sig_procs
  BY <1>5 DEF OthersSame
<1>33. X = [V EXCEPT
              !.proc = [p \in Procs |->
                 IF p = u
                 THEN [proc[u] EXCEPT !.p_callerq = Dequeued(u, @), !.p_pending = {},
                                      !.p_pendcount = 0, !.p_flags = {}, !.p_priority = "NONE"]
                 ELSE [proc[p] EXCEPT !.p_callerq = Dequeued(u, @)]],
              !.sig_procs = @ - CountOff(u)]
  BY <1>6, <1>13, <1>14, <1>32
<1> QED
  BY <1>4, <1>31, <1>33

-----------------------------------------------------------------------------
(* The inductive invariant, and its two parts: of the kernel with its held *)
(* interrupts, and of MM, which replies in its loop only, to users that    *)
(* wait for it.                                                            *)

KernelInv ==
  /\ KernelSound(Kernel) /\ RequestSound(Kernel) /\ NoCircle(Kernel) /\ InterruptKept
  /\ mode \in {"out", "kernel", "switching"}
  /\ held \in Seq(Drivers) /\ unholding \in Drivers \union {NIL}

MMInv ==
  /\ mm_at \in {"mm_init", "sync", "work", "loop"}
  /\ replies \subseteq Users /\ (replies # {} => mm_at = "loop")
  /\ \A u \in replies : proc[u].p_priority = "USER" /\ WaitsFor(proc[u], MM_PROC_NR)

IInv == KernelInv /\ MMInv

(* The kernel after a step.                                                *)
LEMMA Becoming ==
  ASSUME NEW L \in KernelStates, Becomes(L)
  PROVE  Kernel' = L
BY DEF Becomes, Kernel, KernelStates

(* A step that loses no interrupt and leaves the held queue alone.         *)
LEMMA DueStep ==
  ASSUME KernelInv, NEW L, KernelSound(L), RequestSound(L), NoCircle(L), DueKept(Kernel, L),
         Becomes(L), mode' \in {"out", "kernel", "switching"}, UNCHANGED interrupts
  PROVE  KernelInv'
<1>1. L \in KernelStates
  BY DEF KernelSound, KernelKept
<1>2. Kernel' = L
  BY <1>1, Becoming
<1>3. InterruptKept'
  <2>1. ASSUME NEW t \in L.due
        PROVE  t \in Range(held) \/ unholding = t \/ L.proc[t].p_int_blocked
    <3>1. t \in Kernel.due /\ (Kernel.proc[t].p_int_blocked => L.proc[t].p_int_blocked)
      BY <2>1 DEF DueKept
    <3>2. t \in due /\ (proc[t].p_int_blocked => L.proc[t].p_int_blocked)
      BY <3>1 DEF Kernel
    <3> QED
      BY <3>2 DEF KernelInv, InterruptKept
  <2>2. due' = L.due /\ proc' = L.proc /\ held' = held /\ unholding' = unholding
    BY DEF Becomes, interrupts
  <2> QED
    BY <2>1, <2>2 DEF InterruptKept
<1> QED
  BY <1>2, <1>3 DEF KernelInv, interrupts

(* A step that changes neither the kernel nor the held queue.              *)
LEMMA SameStep ==
  ASSUME KernelInv, UNCHANGED kernel, UNCHANGED interrupts,
         mode' \in {"out", "kernel", "switching"}
  PROVE  KernelInv'
<1>1. Kernel' = Kernel
  BY DEF kernel, Kernel
<1>2. InterruptKept'
  BY DEF KernelInv, InterruptKept, kernel, interrupts
<1> QED
  BY <1>1, <1>2 DEF KernelInv, interrupts

(* Whoever is to get a reply waits on.                                     *)
LEMMA WaitersStep ==
  ASSUME MMInv, NEW L, Becomes(L), WaitersStay(Kernel, NIL, L), UNCHANGED mm
  PROVE  MMInv'
<1>1. \A u \in Users : u # NIL
  BY ProcFacts
<1>2. proc' = L.proc /\ mm_at' = mm_at /\ replies' = replies
  BY DEF Becomes, mm
<1>3. ASSUME NEW u \in replies
      PROVE  L.proc[u].p_priority = "USER" /\ WaitsFor(L.proc[u], MM_PROC_NR)
  BY <1>1 DEF MMInv, WaitersStay, Kernel
<1> QED
  BY <1>2, <1>3 DEF MMInv

(* Nobody is to get a reply.                                               *)
LEMMA NoReplies ==
  ASSUME replies' = {}, mm_at' \in {"mm_init", "sync", "work", "loop"}
  PROVE  MMInv'
BY DEF MMInv

(* Who runs: not HARDWARE, not a dead process.                             *)
LEMMA CallerFacts ==
  ASSUME KernelInv, NEW c \in Procs, Runs(c)
  PROVE  /\ Kernel.proc_ptr = c /\ c # HARDWARE
         /\ isuserp(c) <=> c \in Users
         /\ c # SYSTASK => Kernel.m.body = "free"
<1>1. KernelSound(Kernel) /\ RequestSound(Kernel) /\ Kernel.proc_ptr = c /\ Kernel.proc = proc
  BY DEF KernelInv, Runs, Kernel
<1>2. c # HARDWARE /\ proc[c].p_priority # "NONE" /\ (c # SYSTASK => Kernel.m.body = "free")
  BY <1>1, RunnerFacts
<1>3. Sound(c, proc[c])
  BY <1>1 DEF KernelSound, KernelKept, EntriesSound
<1> QED
  BY <1>1, <1>2, <1>3, ProcFacts DEF Sound, isuserp

(* Nobody comes into a circle by sending to e after the check, or by       *)
(* receiving.                                                              *)
LEMMA CallCircle ==
  ASSUME KernelInv, NEW c \in Procs, NEW e, e = NIL \/ (e \in Procs \ {c} /\ ~Locked(c, e)),
         NEW L, CallDone(Kernel, c, e, L)
  PROVE  NoCircle(L)
<1>1. /\ KernelKept(Kernel) /\ NoCircle(Kernel) /\ SentBy(Kernel, c, e, L)
      /\ Sound(c, L.proc[c])
  BY DEF KernelInv, KernelSound, CallDone, KernelKept, EntriesSound
<1>2. CASE e = NIL
  <2>1. ~Sending(L.proc[c])
    BY <1>1, <1>2, ProcFacts DEF SentBy, Sound
  <2>2. NobodyStarts(Kernel, L)
    BY <1>1, <2>1 DEF SentBy, NobodyStarts, SendsAs
  <2> QED
    BY <1>1, <2>2, CircleSame
<1>3. CASE e # NIL
  BY <1>1, <1>3, CircleRefused
<1> QED
  BY <1>2, <1>3

(* The calls of FS, the drivers and the users, and those that MM makes     *)
(* while it works.                                                         *)
LEMMA CallStep ==
  ASSUME IInv, NEW k \in Calls, Call(k[1], k[2], k[3])
  PROVE  IInv'
<1>1. PICK c, f, d : c = k[1] /\ f = k[2] /\ d = k[3]
  OBVIOUS
<1>2. /\ c \in Procs \ {HARDWARE, SYSTASK} /\ d \in Procs \union {ANY} /\ c # d
      /\ f # "RECEIVE" => d # HARDWARE
      /\ f # "RECEIVE" /\ d = ANY => c \in Users
      /\ c = MM_PROC_NR => f = "BOTH"
      /\ f = "BOTH" /\ d \in Users => c \in Users
      /\ f # "RECEIVE" /\ d = SYSTASK => f = "BOTH" /\ c \in Servers \union Users
  BY <1>1, CallAssumption
<1>3. KernelInv /\ MMInv /\ KernelSound(Kernel) /\ RequestSound(Kernel)
  BY DEF IInv, KernelInv
<1>4. MayCall(c, f, d) /\ (SysCall(c, f, d) \/ SysCallRefused(c, f, d)) /\ UNCHANGED mm
  BY <1>1 DEF Call
<1>5. CASE SysCallRefused(c, f, d)
  <2>1. KernelInv'
    BY <1>3, <1>5, SameStep DEF SysCallRefused
  <2>2. MMInv'
    BY <1>3, <1>4, <1>5 DEF SysCallRefused, MMInv, kernel, mm
  <2> QED
    BY <2>1, <2>2 DEF IInv
<1>6. CASE SysCall(c, f, d)
  <2>1. Runs(c) /\ ~Refused(c, f, d) /\ mode' = "kernel" /\ UNCHANGED interrupts
    BY <1>6 DEF SysCall
  <2>2. /\ Kernel.proc_ptr = c /\ Kernel.m.body = "free"
        /\ isuserp(c) <=> c \in Users
    BY <1>2, <1>3, <2>1, CallerFacts
  <2>3. /\ c \in Users => f = "BOTH" /\ d \in Servers
    BY <1>2, <2>1, <2>2 DEF Refused
  <2>4. \E L, e : /\ Becomes(L) /\ CallDone(Kernel, c, e, L)
                  /\ e = NIL \/ (e \in Procs \ {c} /\ ~Locked(c, e))
    <3>1. CASE f = "SEND"
      <4>1. Becomes(mini_send(Kernel, c, d))
        BY <1>6, <3>1 DEF SysCall
      <4>2. c \notin Users /\ d \in Procs \ {SYSTASK, HARDWARE}
        BY <1>2, <2>3, <3>1
      <4>3. d \in Users => Accepts(Kernel, d, c)
        BY <1>4, <2>2, <3>1, <4>2 DEF MayCall
      <4>4. CallDone(Kernel, c, d, mini_send(Kernel, c, d))
        BY <1>2, <1>3, <2>2, <4>2, <4>3, CallSends
      <4>5. ~Locked(c, d)
        BY <2>1, <3>1 DEF Refused
      <4> QED
        BY <1>2, <4>1, <4>2, <4>4, <4>5
    <3>2. CASE f = "RECEIVE"
      <4>1. Becomes(mini_rec(Kernel, c, d))
        BY <1>6, <3>2 DEF SysCall
      <4>2. c \notin Users /\ c # MM_PROC_NR
        BY <1>2, <2>3, <3>2
      <4>3. CallDone(Kernel, c, NIL, mini_rec(Kernel, c, d))
        BY <1>2, <1>3, <2>2, <4>2, CallReceives
      <4> QED
        BY <4>1, <4>3
    <3>3. CASE f = "BOTH"
      <4>1. Becomes(mini_rec(mini_send(Kernel, c, d), c, d))
        BY <1>6, <3>3 DEF SysCall
      <4>2. d \in (Tasks \union Servers) \ {HARDWARE}
        BY <1>2, <2>3, <3>3, ProcFacts
      <4>3. d = SYSTASK => c \in Servers
        BY <1>2, <2>3, <3>3, ProcFacts
      <4>4. CallDone(Kernel, c, d, mini_rec(mini_send(Kernel, c, d), c, d))
        BY <1>2, <1>3, <2>2, <2>3, <4>2, <4>3, CallAsks
      <4>5. ~Locked(c, d) /\ d \in Procs
        BY <2>1, <3>3, <4>2, ProcFacts DEF Refused
      <4> QED
        BY <1>2, <4>1, <4>4, <4>5
    <3> QED
      BY <1>6, <3>1, <3>2, <3>3 DEF SysCall
  <2>5. PICK L, e : /\ Becomes(L) /\ CallDone(Kernel, c, e, L)
                    /\ e = NIL \/ (e \in Procs \ {c} /\ ~Locked(c, e))
    BY <2>4
  <2>6. KernelInv'
    <3>1. NoCircle(L)
      BY <1>2, <1>3, <2>5, CallCircle
    <3> QED
      BY <1>3, <2>1, <2>5, <3>1, DueStep DEF CallDone
  <2>7. MMInv'
    <3>1. CASE c = MM_PROC_NR
      <4>1. mm_at \in {"mm_init", "work"}
        BY <1>4, <3>1 DEF MayCall
      <4>2. replies' = {} /\ mm_at' \in {"mm_init", "sync", "work", "loop"}
        BY <1>3, <1>4, <4>1 DEF MMInv, mm
      <4> QED
        BY <4>2, NoReplies
    <3>2. CASE c # MM_PROC_NR
      <4>1. WaitersStay(Kernel, NIL, L)
        BY <2>5, <3>2 DEF CallDone
      <4> QED
        BY <1>3, <1>4, <2>5, <4>1, WaitersStep
    <3> QED
      BY <3>1, <3>2
  <2> QED
    BY <2>6, <2>7 DEF IInv
<1> QED
  BY <1>4, <1>5, <1>6

(* A call of MM's start or main loop.                                      *)
LEMMA LoopCall ==
  ASSUME IInv, NEW f, NEW d, SysCall(MM_PROC_NR, f, d),
         \/ f = "RECEIVE" /\ d \in {FS_PROC_NR, ANY}
         \/ f = "SEND" /\ d = FS_PROC_NR
         \/ f = "SEND" /\ d \in Users /\ Accepts(Kernel, d, MM_PROC_NR)
  PROVE  /\ KernelInv'
         /\ \E L : Becomes(L) /\ WaitersStay(Kernel, IF f = "SEND" THEN d ELSE NIL, L)
<1>1. KernelInv /\ KernelSound(Kernel) /\ RequestSound(Kernel)
  BY DEF IInv, KernelInv
<1>2. Runs(MM_PROC_NR) /\ mode' = "kernel" /\ UNCHANGED interrupts
  BY DEF SysCall
<1>3. /\ MM_PROC_NR \in Procs /\ MM_PROC_NR # SYSTASK /\ MM_PROC_NR \notin Users
      /\ FS_PROC_NR \in Procs /\ FS_PROC_NR \notin {SYSTASK, HARDWARE, MM_PROC_NR}
      /\ FS_PROC_NR \notin Users /\ ANY # HARDWARE
      /\ \A u \in Users : u \in Procs /\ u \notin {SYSTASK, HARDWARE, MM_PROC_NR}
  BY ProcFacts
<1>4. Kernel.proc_ptr = MM_PROC_NR /\ Kernel.m.body = "free"
  BY <1>1, <1>2, <1>3, CallerFacts
<1>5. CASE f = "RECEIVE"
  <2>1. d \in {FS_PROC_NR, ANY} /\ Becomes(mini_rec(Kernel, MM_PROC_NR, d))
    BY <1>5 DEF SysCall
  <2>2. CallDone(Kernel, MM_PROC_NR, NIL, mini_rec(Kernel, MM_PROC_NR, d))
    BY <1>1, <1>3, <1>4, <2>1, CallReceives
  <2>3. PICK L : L = mini_rec(Kernel, MM_PROC_NR, d)
    OBVIOUS
  <2>4. /\ KernelSound(L) /\ RequestSound(L) /\ DueKept(Kernel, L)
        /\ WaitersStay(Kernel, NIL, L) /\ Becomes(L) /\ NoCircle(L)
    BY <1>1, <1>3, <2>1, <2>2, <2>3, CallCircle DEF CallDone
  <2> QED
    BY <1>1, <1>2, <1>5, <2>4, DueStep
<1>6. CASE f = "SEND"
  <2>1. /\ Becomes(mini_send(Kernel, MM_PROC_NR, d))
        /\ d \in Procs \ {SYSTASK, HARDWARE} /\ d # MM_PROC_NR
        /\ d \in Users => Accepts(Kernel, d, MM_PROC_NR)
    BY <1>3, <1>6 DEF SysCall
  <2>2. CallDone(Kernel, MM_PROC_NR, d, mini_send(Kernel, MM_PROC_NR, d))
    BY <1>1, <1>3, <1>4, <2>1, CallSends
  <2>3. PICK L : L = mini_send(Kernel, MM_PROC_NR, d)
    OBVIOUS
  <2>4. /\ KernelSound(L) /\ RequestSound(L) /\ DueKept(Kernel, L)
        /\ WaitersStay(Kernel, d, L) /\ Becomes(L) /\ NoCircle(L)
    <3>1. ~Locked(MM_PROC_NR, d)
      BY <1>6 DEF SysCall, Refused
    <3> QED
      BY <1>1, <1>3, <2>1, <2>2, <2>3, <3>1, CallCircle DEF CallDone
  <2> QED
    BY <1>1, <1>2, <1>6, <2>4, DueStep
<1> QED
  BY <1>5, <1>6

(* MM starts and waits for a call.                                         *)
LEMMA LoopStep ==
  ASSUME IInv, HearFS \/ TellFS \/ get_work
  PROVE  IInv'
<1>1. MMInv
  BY DEF IInv
<1>2. KernelInv'
  <2>1. CASE HearFS
    BY <2>1, LoopCall DEF HearFS
  <2>2. CASE TellFS
    BY <2>2, LoopCall DEF TellFS
  <2>3. CASE get_work
    BY <2>3, LoopCall DEF get_work
  <2> QED
    BY <2>1, <2>2, <2>3
<1>3. replies' = {} /\ mm_at' \in {"mm_init", "sync", "work", "loop"}
  BY <1>1 DEF MMInv, HearFS, TellFS, get_work
<1> QED
  BY <1>2, <1>3, NoReplies DEF IInv

(* MM is done with a call, for some users who wait for it.                 *)
LEMMA SetreplyStep ==
  ASSUME IInv, setreply
  PROVE  IInv'
<1>1. KernelInv /\ UNCHANGED kernel /\ UNCHANGED interrupts /\ mode' = mode
  BY DEF IInv, setreply
<1>2. KernelInv'
  BY <1>1, SameStep DEF KernelInv
<1>3. \A u \in replies' : u \in Users /\ proc[u].p_priority = "USER" /\ WaitsFor(proc[u], MM_PROC_NR)
  BY DEF setreply, isuserp, Accepts, WaitsFor, Kernel
<1>4. MMInv'
  BY <1>1, <1>3 DEF MMInv, setreply, kernel
<1> QED
  BY <1>2, <1>4 DEF IInv

(* MM replies to the first of them.                                        *)
LEMMA SendReplyStep ==
  ASSUME IInv, SendReply
  PROVE  IInv'
<1>1. MMInv /\ mm_at = "loop" /\ replies # {} /\ replies \subseteq Users
  BY DEF IInv, MMInv, SendReply
<1>2. PICK u : u = Min(replies)
  OBVIOUS
<1>3. u \in replies /\ u \in Users
  BY <1>1, <1>2, MinNat, ProcFacts
<1>4. Accepts(Kernel, u, MM_PROC_NR)
  BY <1>1, <1>3 DEF MMInv, Accepts, WaitsFor, Kernel
<1>5. /\ SysCall(MM_PROC_NR, "SEND", u) /\ replies' = replies \ {u} /\ mm_at' = mm_at
  BY <1>2 DEF SendReply
<1>6. KernelInv' /\ \E L : Becomes(L) /\ WaitersStay(Kernel, u, L)
  BY <1>3, <1>4, <1>5, LoopCall
<1>7. PICK L : Becomes(L) /\ WaitersStay(Kernel, u, L)
  BY <1>6
<1>8. \A v \in replies \ {u} : L.proc[v].p_priority = "USER" /\ WaitsFor(L.proc[v], MM_PROC_NR)
  BY <1>1, <1>7 DEF MMInv, WaitersStay, Kernel
<1>9. MMInv'
  BY <1>1, <1>5, <1>7, <1>8 DEF MMInv, Becomes
<1> QED
  BY <1>6, <1>9 DEF IInv

(* An interrupt outside the kernel.                                        *)
LEMMA InterruptStep ==
  ASSUME IInv, NEW t \in Drivers, Interrupt(t)
  PROVE  IInv'
<1>1. KernelInv /\ MMInv /\ KernelSound(Kernel) /\ RequestSound(Kernel)
  BY DEF IInv, KernelInv
<1>2. PICK L : L = interrupt(Kernel, t)
  OBVIOUS
<1>3. InterruptedTo(Kernel, t, L)
  BY <1>1, <1>2, InterruptedKept
<1>4. Becomes(L) /\ mode' = "kernel" /\ UNCHANGED interrupts /\ UNCHANGED mm
  BY <1>2 DEF Interrupt
<1>5. L \in KernelStates
  BY <1>3 DEF InterruptedTo, KernelSound, KernelKept
<1>6. Kernel' = L
  BY <1>4, <1>5, Becoming
<1>7. InterruptKept'
  <2>1. ASSUME NEW x \in L.due
        PROVE  x \in Range(held) \/ unholding = x \/ L.proc[x].p_int_blocked
    <3>1. \/ x = t /\ L.proc[t].p_int_blocked
          \/ x \in Kernel.due /\ (Kernel.proc[x].p_int_blocked => L.proc[x].p_int_blocked)
      BY <1>3 DEF InterruptedTo
    <3> QED
      BY <1>1, <3>1 DEF KernelInv, InterruptKept, Kernel
  <2>2. due' = L.due /\ proc' = L.proc /\ held' = held /\ unholding' = unholding
    BY <1>4 DEF Becomes, interrupts
  <2> QED
    BY <2>1, <2>2 DEF InterruptKept
<1>8. KernelInv'
  <2>1. NoCircle(L)
    BY <1>1, <1>3, CircleSame DEF KernelInv, InterruptedTo
  <2> QED
    BY <1>1, <1>3, <1>4, <1>6, <1>7, <2>1 DEF KernelInv, InterruptedTo, interrupts
<1>9. MMInv'
  BY <1>1, <1>3, <1>4, WaitersStep DEF InterruptedTo
<1> QED
  BY <1>8, <1>9 DEF IInv

(* An interrupt while the kernel is busy.                                  *)
LEMMA HoldStep ==
  ASSUME IInv, NEW t \in Drivers, Hold(t)
  PROVE  IInv'
<1>1. /\ KernelInv /\ MMInv /\ KernelSound(Kernel) /\ KernelKept(Kernel) /\ MMHears(Kernel)
      /\ Highest(Kernel) /\ RequestSound(Kernel) /\ Kernel \in KernelStates
      /\ held \in Seq(Drivers)
  BY DEF IInv, KernelInv, KernelSound, KernelKept
<1>2. PICK L : L = [Kernel EXCEPT !.due = @ \union {t}]
  OBVIOUS
<1>3. /\ Becomes(L) /\ UNCHANGED <<mode, unholding>> /\ UNCHANGED mm
      /\ held' = IF t \in Range(held) THEN held ELSE Append(held, t)
  BY <1>2 DEF Hold
<1>4. Kernel.due \union {t} \in SUBSET Drivers
  BY <1>1 DEF KernelStates
<1>5. L \in KernelStates /\ L.due = Kernel.due \union {t}
  BY <1>1, <1>2, <1>4 DEF KernelStates
<1>6. SameBut(Kernel, L) /\ L.m = Kernel.m
  BY <1>1, <1>2, <1>5 DEF KernelStates, SameBut
<1>7. KernelSound(L) /\ RequestSound(L)
  <2>1. KernelSound(L)
    BY <1>1, <1>6, KeptSame DEF KernelSound
  <2>2. RequestSound(L)
    BY <1>1, <1>6 DEF RequestSound, SameBut
  <2> QED
    BY <2>1, <2>2
<1>8. Kernel' = L
  BY <1>3, <1>5, Becoming
<1>9. held' \in Seq(Drivers) /\ Range(held') = Range(held) \union {t}
  <2>1. CASE t \in Range(held)
    BY <1>1, <1>3, <2>1
  <2>2. CASE t \notin Range(held)
    <3>1. held' = Append(held, t)
      BY <1>3, <2>2
    <3>2. Append(held, t) \in Seq(Drivers)
      BY <1>1
    <3>3. Len(Append(held, t)) = Len(held) + 1 /\ Len(held) \in Nat
      BY <1>1
    <3>4. \A i \in 1..Len(held) : Append(held, t)[i] = held[i]
      BY <1>1
    <3>5. Append(held, t)[Len(held) + 1] = t
      BY <1>1
    <3>6. Range(held) = {held[i] : i \in 1..Len(held)}
      BY <1>1 DEF Range
    <3>7. Range(Append(held, t)) = {Append(held, t)[i] : i \in 1..(Len(held) + 1)}
      BY <3>2, <3>3 DEF Range
    <3>8. 1..(Len(held) + 1) = (1..Len(held)) \union {Len(held) + 1}
      BY <3>3
    <3>9. Range(Append(held, t)) = Range(held) \union {t}
      BY <3>4, <3>5, <3>6, <3>7, <3>8
    <3> QED
      BY <3>1, <3>2, <3>9
  <2> QED
    BY <2>1, <2>2
<1>10. InterruptKept'
  <2>1. due' = due \union {t} /\ proc' = proc /\ unholding' = unholding
    BY <1>3, <1>5, <1>6 DEF Becomes, SameBut, Kernel
  <2> QED
    BY <1>1, <1>9, <2>1 DEF KernelInv, InterruptKept
<1>11. KernelInv'
  <2>1. NoCircle(L)
    BY <1>1, <1>6 DEF KernelInv, NoCircle, SameBut
  <2> QED
    BY <1>1, <1>3, <1>7, <1>8, <1>9, <1>10, <2>1 DEF KernelInv
<1>12. MMInv'
  <2>1. WaitersStay(Kernel, NIL, L)
    BY <1>6 DEF WaitersStay, SameBut
  <2> QED
    BY <1>1, <1>3, <2>1, WaitersStep
<1> QED
  BY <1>11, <1>12 DEF IInv

(* The first held interrupt is taken ...                                   *)
LEMMA UnholdTakeStep ==
  ASSUME IInv, UnholdTake
  PROVE  IInv'
<1>1. /\ KernelInv /\ MMInv /\ held \in Seq(Drivers) /\ held # <<>> /\ unholding = NIL
      /\ held' = Tail(held) /\ unholding' = Head(held)
      /\ UNCHANGED kernel /\ mode' = mode /\ UNCHANGED mm
  BY DEF IInv, KernelInv, UnholdTake
<1>2. Kernel' = Kernel
  BY <1>1 DEF kernel, Kernel
<1>3. /\ Head(held) \in Drivers /\ Tail(held) \in Seq(Drivers)
      /\ \A t \in Range(held) : t = Head(held) \/ t \in Range(Tail(held))
  <2>1. Head(held) \in Drivers /\ Tail(held) \in Seq(Drivers)
    BY <1>1
  <2>2. /\ Len(held) \in Nat /\ Len(Tail(held)) = Len(held) - 1 /\ Head(held) = held[1]
        /\ \A i \in 1..Len(Tail(held)) : Tail(held)[i] = held[i + 1]
    BY <1>1
  <2>3. /\ Range(held) = {held[i] : i \in 1..Len(held)}
        /\ Range(Tail(held)) = {Tail(held)[i] : i \in 1..Len(Tail(held))}
    <3>1. Range(held) = {held[i] : i \in 1..Len(held)}
      BY <1>1 DEF Range
    <3>2. ASSUME NEW s \in Seq(Drivers) PROVE Range(s) = {s[i] : i \in 1..Len(s)}
      BY DEF Range
    <3> QED
      BY <2>1, <3>1, <3>2
  <2>4. ASSUME NEW i \in 1..Len(held), i # 1 PROVE held[i] \in Range(Tail(held))
    <3>1. i - 1 \in 1..Len(Tail(held)) /\ (i - 1) + 1 = i
      BY <2>2, <2>4
    <3>2. Tail(held)[i - 1] = held[i]
      BY <2>2, <3>1
    <3> QED
      BY <2>3, <3>1, <3>2
  <2>5. \A t \in Range(held) : t = Head(held) \/ t \in Range(Tail(held))
    BY <2>2, <2>3, <2>4
  <2> QED
    BY <2>1, <2>5
<1>4. InterruptKept'
  <2>1. NIL \notin Drivers
    BY ProcFacts
  <2>2. due' = due /\ proc' = proc /\ \A t \in due : t \in Drivers
    BY <1>1 DEF kernel, KernelInv, KernelSound, KernelKept, KernelStates, Kernel
  <2> QED
    BY <1>1, <1>3, <2>1, <2>2 DEF KernelInv, InterruptKept
<1>5. KernelInv'
  BY <1>1, <1>2, <1>3, <1>4 DEF KernelInv
<1>6. MMInv'
  BY <1>1 DEF MMInv, kernel, mm
<1> QED
  BY <1>5, <1>6 DEF IInv

(* ... and led to the task.                                                *)
LEMMA UnholdInterruptStep ==
  ASSUME IInv, UnholdInterrupt
  PROVE  IInv'
<1>1. /\ KernelInv /\ MMInv /\ KernelSound(Kernel) /\ RequestSound(Kernel)
      /\ unholding \in Drivers
  BY DEF IInv, KernelInv, UnholdInterrupt
<1>2. PICK t \in Drivers : t = unholding
  BY <1>1
<1>3. PICK L : L = interrupt(Kernel, t)
  OBVIOUS
<1>4. InterruptedTo(Kernel, t, L)
  BY <1>1, <1>3, InterruptedKept
<1>5. /\ Becomes(L) /\ unholding' = NIL /\ mode' = mode /\ held' = held /\ UNCHANGED mm
  BY <1>2, <1>3 DEF UnholdInterrupt
<1>6. L \in KernelStates
  BY <1>4 DEF InterruptedTo, KernelSound, KernelKept
<1>7. Kernel' = L
  BY <1>5, <1>6, Becoming
<1>8. InterruptKept'
  <2>1. ASSUME NEW x \in L.due
        PROVE  x \in Range(held) \/ L.proc[x].p_int_blocked
    <3>1. CASE x = t
      BY <1>4, <2>1, <3>1 DEF InterruptedTo
    <3>2. CASE x # t
      <4>1. x \in Kernel.due /\ (Kernel.proc[x].p_int_blocked => L.proc[x].p_int_blocked)
        BY <1>4, <2>1, <3>2 DEF InterruptedTo
      <4> QED
        BY <1>1, <1>2, <3>2, <4>1 DEF KernelInv, InterruptKept, Kernel
    <3> QED
      BY <3>1, <3>2
  <2>2. due' = L.due /\ proc' = L.proc
    BY <1>5 DEF Becomes
  <2> QED
    BY <1>5, <2>1, <2>2 DEF InterruptKept
<1>9. KernelInv'
  <2>1. NoCircle(L)
    BY <1>1, <1>4, CircleSame DEF KernelInv, InterruptedTo
  <2> QED
    BY <1>1, <1>4, <1>5, <1>7, <1>8, <2>1 DEF KernelInv, InterruptedTo
<1>10. MMInv'
  BY <1>1, <1>4, <1>5, WaitersStep DEF InterruptedTo
<1> QED
  BY <1>9, <1>10 DEF IInv

(* The kernel or a lock_ operation is left.                                *)
LEMMA LeaveStep ==
  ASSUME IInv, Restart \/ SwitchDone
  PROVE  IInv'
<1>1. /\ KernelInv /\ MMInv /\ UNCHANGED kernel /\ UNCHANGED interrupts /\ UNCHANGED mm
      /\ mode' = "out"
  BY DEF IInv, Restart, SwitchDone
<1>2. KernelInv'
  BY <1>1, SameStep
<1>3. MMInv'
  BY <1>1 DEF MMInv, kernel, mm
<1> QED
  BY <1>2, <1>3 DEF IInv

(* A task has changed the kernel to L, and no user that waits for MM has   *)
(* to go without its reply.                                                *)
LEMMA TaskStep ==
  ASSUME IInv, NEW L, Served(Kernel, L), TaskChanges(L),
         replies = {} \/ WaitersStay(Kernel, NIL, L)
  PROVE  IInv'
<1>1. /\ KernelInv /\ MMInv /\ KernelSound(L) /\ RequestSound(L) /\ DueKept(Kernel, L)
  BY DEF IInv, Served
<1>2. /\ Becomes(L) /\ UNCHANGED interrupts /\ UNCHANGED mm
      /\ mode' \in {"out", "kernel", "switching"}
  BY DEF TaskChanges
<1>3. KernelInv'
  <2>1. NoCircle(L)
    BY <1>1, CircleSame DEF KernelInv, Served
  <2> QED
    BY <1>1, <1>2, <2>1, DueStep
<1>4. MMInv'
  <2>1. CASE replies = {}
    <3>1. replies' = {} /\ mm_at' \in {"mm_init", "sync", "work", "loop"}
      BY <1>1, <1>2, <2>1 DEF MMInv, mm
    <3> QED
      BY <3>1, NoReplies
  <2>2. CASE WaitersStay(Kernel, NIL, L)
    BY <1>1, <1>2, <2>2, WaitersStep
  <2> QED
    BY <2>1, <2>2
<1> QED
  BY <1>3, <1>4 DEF IInv

(* TTY and CLOCK: a signal, or a turn of the users' queue.                 *)
LEMMA KillerStep ==
  ASSUME IInv, NEW t \in Killers,
         lock_sched(t) \/ \E u \in Users, sig \in Sigs : TaskSignals(t, u, sig)
  PROVE  IInv'
<1>1. KernelInv /\ MMInv /\ KernelSound(Kernel) /\ RequestSound(Kernel)
  BY DEF IInv, KernelInv
<1>2. CASE lock_sched(t)
  <2>1. PICK n \in DOMAIN rdy.USER : Becomes(sched(Kernel, n))
    BY <1>2 DEF lock_sched
  <2>2. n \in DOMAIN Kernel.rdy.USER
    BY DEF Kernel
  <2>3. PICK L : L = sched(Kernel, n)
    OBVIOUS
  <2>4. /\ KernelSound(L) /\ RequestSound(L) /\ L.proc = Kernel.proc /\ L.due = Kernel.due
    BY <1>1, <2>2, <2>3, SchedKept
  <2>5. /\ Becomes(L) /\ mode' = "switching" /\ UNCHANGED interrupts /\ UNCHANGED mm
    BY <1>2, <2>1, <2>3 DEF lock_sched
  <2>6. DueKept(Kernel, L) /\ WaitersStay(Kernel, NIL, L)
    BY <2>4 DEF DueKept, WaitersStay
  <2>7. KernelInv'
    <3>1. NoCircle(L)
      BY <1>1, <2>4 DEF KernelInv, NoCircle
    <3> QED
      BY <1>1, <2>4, <2>5, <2>6, <3>1, DueStep
  <2>8. MMInv'
    BY <1>1, <2>5, <2>6, WaitersStep
  <2> QED
    BY <2>7, <2>8 DEF IInv
<1>3. ASSUME NEW u \in Users, NEW sig \in Sigs, TaskSignals(t, u, sig)
      PROVE  IInv'
  <2>1. /\ Kernel.proc_ptr = t /\ Kernel.proc[u].p_priority = "USER"
        /\ sig \notin Kernel.proc[u].p_pending => Kernel.proc[u].p_pendcount < MaxPendcount
        /\ TaskChanges(cause_sig(Kernel, u, sig))
    BY <1>3 DEF TaskSignals, Signals, Runs, isuserp, Kernel
  <2>2. PICK L : L = cause_sig(Kernel, u, sig)
    OBVIOUS
  <2>3. Served(Kernel, L) /\ WaitersStay(Kernel, NIL, L)
    BY <1>1, <2>1, <2>2, SignalKept
  <2> QED
    BY <2>1, <2>2, <2>3, TaskStep
<1> QED
  BY <1>2, <1>3

(* SYSTASK takes a request or sends its answer.                            *)
LEMMA SystemStep ==
  ASSUME IInv, ReceiveRequest \/ SendAnswer
  PROVE  IInv'
<1>1. /\ KernelInv /\ MMInv /\ KernelSound(Kernel) /\ RequestSound(Kernel) /\ UNCHANGED mm
      /\ SYSTASK \in Procs /\ SYSTASK \notin Users /\ SYSTASK # MM_PROC_NR /\ ANY # HARDWARE
  BY ProcFacts DEF IInv, KernelInv, ReceiveRequest, SendAnswer
<1>2. /\ Runs(SYSTASK) /\ mode' = "kernel" /\ UNCHANGED interrupts
  BY DEF SysCall, ReceiveRequest, SendAnswer
<1>3. Kernel.proc_ptr = SYSTASK /\ Kernel.m = m
  BY <1>2 DEF Runs, Kernel
<1>4. \E L, e : /\ Becomes(L) /\ CallDone(Kernel, SYSTASK, e, L)
                /\ e = NIL \/ (e \in Procs \ {SYSTASK} /\ ~Locked(SYSTASK, e))
  <2>1. CASE ReceiveRequest
    <3>1. Becomes(mini_rec(Kernel, SYSTASK, ANY)) /\ Kernel.m.body = "free"
      BY <1>3, <2>1 DEF ReceiveRequest, SysCall
    <3>2. CallDone(Kernel, SYSTASK, NIL, mini_rec(Kernel, SYSTASK, ANY))
      BY <1>1, <1>3, <3>1, CallReceives
    <3> QED
      BY <3>1, <3>2
  <2>2. CASE SendAnswer
    <3>1. Becomes(mini_send(Kernel, SYSTASK, m.source)) /\ Kernel.m.body = "reply"
      BY <1>3, <2>2 DEF SendAnswer, SysCall
    <3>2. m.source \in Servers /\ WaitsFor(Kernel.proc[m.source], SYSTASK)
      BY <1>1, <1>3, <3>1 DEF RequestSound
    <3>3. m.source \in Procs \ {SYSTASK} /\ Accepts(Kernel, m.source, SYSTASK)
      BY <3>2, ProcFacts DEF Accepts, WaitsFor
    <3>4. CallDone(Kernel, SYSTASK, m.source, mini_send(Kernel, SYSTASK, m.source))
      BY <1>1, <1>3, <3>3, CallWakes
    <3>5. ~Locked(SYSTASK, m.source)
      BY <2>2 DEF SendAnswer, SysCall, Refused
    <3> QED
      BY <3>1, <3>3, <3>4, <3>5
  <2> QED
    BY <2>1, <2>2
<1>5. PICK L, e : /\ Becomes(L) /\ CallDone(Kernel, SYSTASK, e, L)
                  /\ e = NIL \/ (e \in Procs \ {SYSTASK} /\ ~Locked(SYSTASK, e))
  BY <1>4
<1>6. /\ KernelSound(L) /\ RequestSound(L) /\ DueKept(Kernel, L) /\ WaitersStay(Kernel, NIL, L)
  BY <1>1, <1>5 DEF CallDone
<1>7. KernelInv'
  <2>1. NoCircle(L)
    BY <1>1, <1>5, CallCircle
  <2> QED
    BY <1>1, <1>2, <1>5, <1>6, <2>1, DueStep
<1>8. MMInv'
  BY <1>1, <1>5, <1>6, WaitersStep
<1> QED
  BY <1>7, <1>8 DEF IInv

(* SYSTASK runs and works on the request of the server s.                  *)
LEMMA ServesFacts ==
  ASSUME IInv, NEW s, Serves(s)
  PROVE  Serving(Kernel) /\ Kernel.m.source = s
BY DEF IInv, KernelInv, Serves, Serving, Runs, Kernel

(* SYSTASK has done what MM or FS asked for, and writes its answer.        *)
LEMMA ServedStep ==
  ASSUME IInv, NEW X, Served(Kernel, Answered(X)), Answers(X),
         replies = {} \/ WaitersStay(Kernel, NIL, Answered(X))
  PROVE  IInv'
BY TaskStep DEF Answers, Answered

(* The calls that change nothing, and do_kill.                             *)
LEMMA OtherStep ==
  ASSUME IInv, OtherCall \/ \E u \in Users, sig \in Sigs : do_kill(u, sig)
  PROVE  IInv'
<1>1. CASE OtherCall
  <2>1. Serving(Kernel) /\ Answers(Kernel)
    BY <1>1, ServesFacts DEF OtherCall
  <2>2. KernelSound(Kernel) /\ Kernel \in KernelStates
    BY <2>1 DEF Serving, KernelSound, KernelKept
  <2>3. Served(Kernel, Answered(Kernel))
    <3>1. /\ TasksStay(Kernel, Kernel)
          /\ \A p \in Tasks \union Servers : SameWait(Kernel.proc[p], Kernel.proc[p])
          /\ \A u \in Users : SendsAs(Kernel.proc[u], Kernel.proc[u])
      BY DEF TasksStay, SameWait, SendsAs
    <3> QED
      BY <2>1, <2>2, <3>1, UserWork
  <2>4. WaitersStay(Kernel, NIL, Answered(Kernel))
    <3>1. Answered(Kernel).proc = Kernel.proc
      BY <2>2 DEF Answered, KernelStates
    <3> QED
      BY <3>1 DEF WaitersStay
  <2> QED
    BY <2>1, <2>3, <2>4, ServedStep
<1>2. ASSUME NEW u \in Users, NEW sig \in Sigs, do_kill(u, sig)
      PROVE  IInv'
  <2>1. Serving(Kernel) /\ Kernel.m.source # MM_PROC_NR
    BY <1>2, ServesFacts, ProcFacts DEF do_kill
  <2>2. /\ Kernel.proc[u].p_priority = "USER"
        /\ sig \notin Kernel.proc[u].p_pending => Kernel.proc[u].p_pendcount < MaxPendcount
    BY <1>2 DEF do_kill, Signals, isuserp, Kernel
  <2>3. PICK X : X = cause_sig([Kernel EXCEPT !.m.body = "read"], u, sig)
    OBVIOUS
  <2>4. Served(Kernel, Answered(X)) /\ WaitersStay(Kernel, NIL, Answered(X))
    BY <2>1, <2>2, <2>3, KillKept
  <2>5. Answers(X)
    BY <1>2, <2>3 DEF do_kill
  <2> QED
    BY <2>4, <2>5, ServedStep
<1> QED
  BY <1>1, <1>2

(* The calls of MM for a user.                                             *)
LEMMA ServedMMStep ==
  ASSUME IInv, NEW u \in Users,
         \/ do_endsig(u) \/ do_newmap(u) \/ do_xit(u) \/ do_trace(u)
         \/ \E sig \in Sigs : \E traced \in BOOLEAN : do_exec(u, traced, sig)
         \/ \E child \in Users : do_fork(u, child)
  PROVE  IInv'
<1>1. ServesMM
  BY DEF do_endsig, do_newmap, do_xit, do_trace, do_exec, do_fork
<1>2. PICK K : K = Kernel
  OBVIOUS
<1>3. /\ Serving(K) /\ K.m.source = MM_PROC_NR /\ replies = {}
      /\ K.proc = proc /\ K.told = told
  <2>1. Serving(Kernel) /\ Kernel.m.source = MM_PROC_NR
    BY <1>1, ServesFacts DEF ServesMM
  <2>2. replies = {}
    BY <1>1 DEF IInv, MMInv, ServesMM
  <2> QED
    BY <1>2, <2>1, <2>2 DEF Kernel
<1>4. SUFFICES \E X : Served(K, Answered(X)) /\ Answers(X)
  BY <1>2, <1>3, ServedStep
<1>5. CASE do_endsig(u)
  <2>1. PICK less : less = [K EXCEPT !.told[u] = @ - 1, !.proc[u].p_pendcount = @ - 1]
    OBVIOUS
  <2>2. PICK X : X = IF K.proc[u].p_priority = "NONE" \/ K.proc[u].p_pendcount = 0
                     THEN [K EXCEPT !.told[u] = @ - 1]
                     ELSE IF K.proc[u].p_pendcount > 1 THEN less
                     ELSE Released(less, u, {"SIG_PENDING"})
    OBVIOUS
  <2>3. K.told[u] > 0 /\ Answers(X)
    BY <1>2, <1>3, <1>5, <2>1, <2>2 DEF do_endsig, isemptyp
  <2>4. Served(K, Answered(X))
    BY <1>3, <2>1, <2>2, <2>3, EndsigKept
  <2> QED
    BY <2>3, <2>4
<1>6. CASE do_newmap(u)
  <2>1. PICK X : X = IF K.proc[u].p_flags = {} THEN K ELSE Released(K, u, {"NO_MAP"})
    OBVIOUS
  <2>2. K.proc[u].p_priority = "USER" /\ Answers(X)
    BY <1>2, <1>3, <1>6, <2>1 DEF do_newmap, isuserp
  <2>3. Served(K, Answered(X))
    BY <1>3, <2>1, <2>2, NewmapKept
  <2> QED
    BY <2>2, <2>3
<1>7. CASE do_xit(u)
  <2>1. PICK V : V = IF proc[u].p_flags = {} THEN unready(K, u) ELSE K
    OBVIOUS
  <2>2. PICK X : X = [V EXCEPT
               !.proc = [p \in Procs |->
                  IF p = u
                  THEN [proc[u] EXCEPT !.p_callerq = Dequeued(u, @), !.p_pending = {},
                                       !.p_pendcount = 0, !.p_flags = {}, !.p_priority = "NONE"]
                  ELSE [proc[p] EXCEPT !.p_callerq = Dequeued(u, @)]],
               !.sig_procs = @ - CountOff(u)]
    OBVIOUS
  <2>3. K.proc[u].p_priority = "USER" /\ Answers(X)
    BY <1>2, <1>3, <1>7, <2>1, <2>2 DEF do_xit, isuserp
  <2>4. Served(K, Answered(X))
    BY <1>3, <2>1, <2>2, <2>3, XitKept
  <2> QED
    BY <2>3, <2>4
<1>8. CASE do_trace(u)
  <2>1. K.proc[u].p_priority = "USER"
    BY <1>3, <1>8 DEF do_trace, isuserp
  <2>2. CASE Answers(Stopped(Kernel, u, {"P_STOP"}))
    BY <1>2, <1>3, <2>1, <2>2, StopKept
  <2>3. CASE "P_STOP" \in proc[u].p_flags /\ Answers(Released(Kernel, u, {"P_STOP"}))
    BY <1>2, <1>3, <2>1, <2>3, ResumeKept
  <2> QED
    BY <1>8, <2>2, <2>3 DEF do_trace
<1>9. ASSUME NEW sig \in Sigs, NEW traced \in BOOLEAN, do_exec(u, traced, sig)
      PROVE  \E X : Served(K, Answered(X)) /\ Answers(X)
  <2>1. PICK X : X = Released(IF traced THEN cause_sig(K, u, sig) ELSE K, u, {"RECEIVING"})
    OBVIOUS
  <2>2. /\ K.proc[u].p_priority = "USER" /\ Accepts(K, u, MM_PROC_NR) /\ Answers(X)
        /\ traced => Signals(u, sig)
    BY <1>2, <1>3, <1>9, <2>1 DEF do_exec, isuserp
  <2>3. traced => (sig \notin K.proc[u].p_pending => K.proc[u].p_pendcount < MaxPendcount)
    BY <1>3, <2>2 DEF Signals
  <2>4. Served(K, Answered(X))
    BY <1>3, <2>1, <2>2, <2>3, ExecKept
  <2> QED
    BY <2>2, <2>4
<1>10. ASSUME NEW child \in Users, do_fork(u, child)
       PROVE  \E X : Served(K, Answered(X)) /\ Answers(X)
  <2>1. PICK X : X = [K EXCEPT !.proc[child] = [K.proc[u] EXCEPT
                        !.p_flags = (@ \union {"NO_MAP"}) \ {"PENDING", "SIG_PENDING", "P_STOP"},
                        !.p_pending = {}, !.p_pendcount = 0]]
    OBVIOUS
  <2>2. /\ K.proc[u].p_priority = "USER" /\ Accepts(K, u, MM_PROC_NR)
        /\ K.proc[child].p_priority = "NONE" /\ K.told[child] = 0 /\ Answers(X)
    BY <1>2, <1>3, <1>10, <2>1 DEF do_fork, isuserp, isemptyp
  <2>3. Served(K, Answered(X))
    BY <1>3, <2>1, <2>2, ForkKept
  <2> QED
    BY <2>2, <2>3
<1> QED
  BY <1>5, <1>6, <1>7, <1>8, <1>9, <1>10

-----------------------------------------------------------------------------
(* The start.                                                              *)

(* The queue of the tasks holds each of them but HARDWARE, once.           *)
LEMMA TasksQueued ==
  ASSUME NEW tasks \in [1 .. Cardinality(Tasks \ {HARDWARE}) -> Tasks \ {HARDWARE}],
         \A i, j \in DOMAIN tasks : i < j => tasks[i] < tasks[j]
  PROVE  /\ tasks \in Seq(Procs) /\ tasks # <<>> /\ Head(tasks) = tasks[1]
         /\ IsInjective(tasks) /\ Range(tasks) = Tasks \ {HARDWARE}
<1>1. PICK T : T = Tasks \ {HARDWARE}
  OBVIOUS
<1>2. IsFiniteSet(T) /\ T \subseteq Int /\ T \subseteq Procs /\ SYSTASK \in T
  <2>1. IsFiniteSet(T)
    BY <1>1, ProcAssumption, FS_Subset
  <2> QED
    BY <1>1, <2>1, ProcAssumption, ProcFacts
<1>3. PICK n \in Nat : n = Cardinality(T) /\ n >= 1
  <2>1. Cardinality(T) \in Nat
    BY <1>2, FS_CardinalityType
  <2>2. Cardinality(T) # 0
    BY <1>2, FS_EmptySet
  <2> QED
    BY <2>1, <2>2
<1>4. tasks \in [1..n -> T]
  BY <1>1, <1>3
<1>5. IsInjective(tasks)
  <2>1. ASSUME NEW a \in 1..n, NEW b \in 1..n, tasks[a] = tasks[b]
        PROVE  a = b
    <3>1. tasks[a] \in Int /\ ~(tasks[a] < tasks[a])
      <4>1. tasks[a] \in T
        BY <1>4
      <4>2. tasks[a] \in Int
        BY <1>2, <4>1
      <4>3. \A x \in Int : ~(x < x)
        OBVIOUS
      <4> QED
        BY <4>2, <4>3
    <3>2. ~(a < b) /\ ~(b < a)
      BY <1>4, <2>1, <3>1
    <3> QED
      BY <3>2
  <2> QED
    BY <1>4, <2>1 DEF IsInjective
<1>6. tasks \in Injection(1..n, T)
  BY <1>4, <1>5 DEF Injection
<1>7. Cardinality(1..n) = n
  BY <1>3, FS_Interval
<1>8. tasks \in Surjection(1..n, T)
  BY <1>2, <1>3, <1>6, <1>7, FS_Injection
<1>9. Range(tasks) = T
  BY <1>4, <1>8 DEF Surjection, Range
<1>10. tasks \in Seq(Procs) /\ Len(tasks) = n
  <2>1. tasks \in [1..n -> Procs]
    BY <1>2, <1>4
  <2> QED
    BY <2>1
<1>11. tasks # <<>> /\ Head(tasks) = tasks[1]
  BY <1>3, <1>10
<1> QED
  BY <1>1, <1>5, <1>9, <1>10, <1>11

(* The invariant holds when the system starts.                             *)
LEMMA InitInv ==
  ASSUME Init
  PROVE  IInv
<1>1. PICK tasks \in [1 .. Cardinality(Tasks \ {HARDWARE}) -> Tasks \ {HARDWARE}] :
        /\ \A i, j \in DOMAIN tasks : i < j => tasks[i] < tasks[j]
        /\ rdy = [TASK |-> tasks, SERVER |-> <<MM_PROC_NR, FS_PROC_NR>>, USER |-> <<INIT_PROC_NR>>]
        /\ proc_ptr = tasks[1]
  BY DEF Init
<1>2. /\ tasks \in Seq(Procs) /\ tasks # <<>> /\ Head(tasks) = tasks[1]
      /\ IsInjective(tasks) /\ Range(tasks) = Tasks \ {HARDWARE}
  BY <1>1, TasksQueued
<1>3. PICK K : K = Kernel
  OBVIOUS
<1>4. /\ K.proc = proc /\ K.rdy = rdy /\ K.proc_ptr = proc_ptr /\ K.sig_procs = 0
      /\ K.told = [u \in Users |-> 0] /\ K.m = [source |-> NIL, body |-> "free"] /\ K.due = {}
  BY <1>3 DEF Init, Kernel
<1>5. ASSUME NEW p \in Procs
      PROVE  /\ K.proc[p] \in ProcRecord
             /\ K.proc[p].p_flags = {} /\ K.proc[p].p_callerq = <<>>
             /\ K.proc[p].p_pending = {} /\ K.proc[p].p_pendcount = 0
             /\ K.proc[p].p_priority = IF p \in Tasks THEN "TASK"
                                       ELSE IF p \in Servers THEN "SERVER"
                                       ELSE IF p = INIT_PROC_NR THEN "USER" ELSE "NONE"
  <2>1. PICK q \in {"NONE", "TASK", "SERVER", "USER"} :
          q = IF p \in Tasks THEN "TASK" ELSE IF p \in Servers THEN "SERVER"
              ELSE IF p = INIT_PROC_NR THEN "USER" ELSE "NONE"
    OBVIOUS
  <2>2. K.proc[p] = Slot(q)
    BY <1>4, <2>1 DEF Init
  <2>3. /\ Slot(q).p_flags = {} /\ Slot(q).p_callerq = <<>>
        /\ Slot(q).p_pending = {} /\ Slot(q).p_pendcount = 0 /\ Slot(q).p_priority = q
    BY DEF Slot
  <2>4. Slot(q) \in ProcRecord
    <3>1. <<>> \in Seq(Procs)
      OBVIOUS
    <3> QED
      BY <3>1 DEF Slot, ProcRecord
  <2> QED
    BY <2>1, <2>2, <2>3, <2>4
<1>6. PICK servers, users : servers = <<MM_PROC_NR, FS_PROC_NR>> /\ users = <<INIT_PROC_NR>>
  OBVIOUS
<1>7. /\ servers \in Seq(Procs) /\ IsInjective(servers) /\ Range(servers) = Servers
      /\ users \in Seq(Procs) /\ IsInjective(users) /\ Range(users) = {INIT_PROC_NR}
  <2>1. /\ servers \in Seq(Procs) /\ Len(servers) = 2
        /\ servers[1] = MM_PROC_NR /\ servers[2] = FS_PROC_NR
        /\ users \in Seq(Procs) /\ Len(users) = 1 /\ users[1] = INIT_PROC_NR
    BY <1>6, ProcFacts
  <2>2. DOMAIN servers = {1, 2} /\ DOMAIN users = {1}
    BY <2>1
  <2> QED
    BY <2>1, <2>2, ProcFacts DEF IsInjective, Range, Servers
<1>8. /\ K.rdy \in [QueueNames -> Seq(Procs)]
      /\ K.rdy["TASK"] = tasks /\ K.rdy["SERVER"] = servers /\ K.rdy["USER"] = users
  <2>1. K.rdy = [TASK |-> tasks, SERVER |-> servers, USER |-> users]
    BY <1>1, <1>4, <1>6
  <2> QED
    BY <1>2, <1>7, <2>1 DEF QueueNames
<1>9. K \in KernelStates
  <2>1. K.proc \in [Procs -> ProcRecord]
    <3>1. K.proc = [p \in Procs |-> K.proc[p]]
      BY <1>4 DEF Init
    <3> QED
      BY <1>5, <3>1
  <2>2. K.proc_ptr \in Procs \union {IDLE}
    <3>1. Head(tasks) \in Procs
      BY <1>2, HeadTailProperties
    <3> QED
      BY <1>1, <1>2, <1>4, <3>1
  <2>3. K.told \in [Users -> Int] /\ K.sig_procs \in Int /\ K.due \in SUBSET Drivers
    BY <1>4
  <2>4. K.m \in [source : Procs \union {NIL}, body : {"free", "request", "read", "reply", "lost"}]
    BY <1>4
  <2>5. K = [proc |-> K.proc, rdy |-> K.rdy, proc_ptr |-> K.proc_ptr, sig_procs |-> K.sig_procs,
             told |-> K.told, m |-> K.m, due |-> K.due]
    BY <1>3 DEF Kernel
  <2> QED
    BY <1>8, <2>1, <2>2, <2>3, <2>4, <2>5 DEF KernelStates
<1>10. Range(<<>>) = {} /\ IsInjective(<<>>)
  BY DEF Range, IsInjective
<1>11. \A p \in Procs : ~Sending(K.proc[p]) /\ ~Receiving(K.proc[p]) /\ \A s : ~WaitsFor(K.proc[p], s)
  BY <1>5 DEF Sending, Receiving, WaitsFor
<1>12. EntriesSound(K)
  BY <1>5, <1>10, <1>11, ProcFacts DEF EntriesSound, Sound
<1>13. SendersExact(K)
  <2>1. \A d : SendersOf(K, d) = {}
    BY <1>11 DEF SendersOf
  <2> QED
    BY <1>5, <1>10, <2>1 DEF SendersExact
<1>14. SignalsKept(K)
  <2>1. IsFiniteSet({}) /\ Cardinality({}) = 0 /\ 0 \in 0 .. MaxPendcount
    BY FS_EmptySet, CallAssumption
  <2>2. ASSUME NEW u \in Users PROVE SignalsSound(K.proc[u], K.told[u])
    <3>1. /\ K.proc[u].p_flags = {} /\ K.proc[u].p_pending = {} /\ K.proc[u].p_pendcount = 0
          /\ K.told[u] = 0
      BY <1>4, <1>5, ProcFacts
    <3>2. "PENDING" \notin K.proc[u].p_flags /\ "SIG_PENDING" \notin K.proc[u].p_flags
      BY <3>1
    <3> QED
      BY <2>1, <3>1, <3>2 DEF SignalsSound
  <2>3. PendingProcs(K) = {}
    BY <1>5 DEF PendingProcs
  <2> QED
    BY <1>4, <1>5, <2>1, <2>2, <2>3 DEF SignalsKept
<1>15. QueuesExact(K)
  <2>1. ReadyOf(K, "TASK") = Tasks \ {HARDWARE}
    BY <1>5, ProcFacts DEF ReadyOf
  <2>2. ReadyOf(K, "SERVER") = Servers
    BY <1>5, ProcFacts DEF ReadyOf
  <2>3. ReadyOf(K, "USER") = {INIT_PROC_NR}
    BY <1>5, ProcFacts DEF ReadyOf
  <2> QED
    BY <1>2, <1>7, <1>8, <2>1, <2>2, <2>3 DEF QueuesExact, QueueNames
<1>16. Highest(K)
  BY <1>1, <1>2, <1>4, <1>8, <1>9, PickIs DEF First
<1>17. MMHears(K)
  BY <1>4 DEF MMHears
<1>18. KernelSound(K) /\ RequestSound(K)
  BY <1>4, <1>9, <1>12, <1>13, <1>14, <1>15, <1>16, <1>17
     DEF KernelSound, KernelKept, RequestSound
<1>19. KernelInv
  <2>1. InterruptKept
    BY DEF Init, InterruptKept
  <2>2. mode = "out" /\ held = <<>> /\ unholding = NIL
    BY DEF Init
  <2>3. <<>> \in Seq(Drivers)
    OBVIOUS
  <2>4. NoCircle(K)
    <3>1. ASSUME NEW S \in SUBSET Procs, S # {}
          PROVE  \E p \in S : ~(Sending(K.proc[p]) /\ K.proc[p].p_sendto \in S)
      <4>1. PICK p \in S : p \in Procs
        BY <3>1
      <4> QED
        BY <1>11, <4>1
    <3> QED
      BY <3>1 DEF NoCircle
  <2> QED
    BY <1>3, <1>18, <2>1, <2>2, <2>3, <2>4 DEF KernelInv
<1>20. MMInv
  BY DEF Init, MMInv
<1> QED
  BY <1>19, <1>20 DEF IInv

-----------------------------------------------------------------------------
(* Every step keeps the invariant.                                         *)
LEMMA NextInv ==
  ASSUME IInv, [Next]_vars
  PROVE  IInv'
<1>1. CASE \E k \in Calls : Call(k[1], k[2], k[3])
  BY <1>1, CallStep
<1>2. CASE HearFS \/ TellFS \/ get_work
  BY <1>2, LoopStep
<1>3. CASE setreply
  BY <1>3, SetreplyStep
<1>4. CASE SendReply
  BY <1>4, SendReplyStep
<1>5. CASE \E t \in Drivers : Interrupt(t) \/ Hold(t)
  BY <1>5, InterruptStep, HoldStep
<1>6. CASE UnholdTake
  BY <1>6, UnholdTakeStep
<1>7. CASE UnholdInterrupt
  BY <1>7, UnholdInterruptStep
<1>8. CASE Restart \/ SwitchDone
  BY <1>8, LeaveStep
<1>9. CASE \E t \in Killers :
             lock_sched(t) \/ \E u \in Users, sig \in Sigs : TaskSignals(t, u, sig)
  BY <1>9, KillerStep
<1>10. CASE ReceiveRequest \/ SendAnswer
  BY <1>10, SystemStep
<1>11. CASE OtherCall \/ \E u \in Users, sig \in Sigs : do_kill(u, sig)
  BY <1>11, OtherStep
<1>12. CASE \E u \in Users :
              \/ do_endsig(u) \/ do_newmap(u) \/ do_xit(u) \/ do_trace(u)
              \/ \E sig \in Sigs : \E traced \in BOOLEAN : do_exec(u, traced, sig)
              \/ \E child \in Users : do_fork(u, child)
  BY <1>12, ServedMMStep
<1>13. CASE UNCHANGED vars
  <2>1. UNCHANGED kernel /\ UNCHANGED interrupts /\ UNCHANGED mm /\ mode' = mode
    BY <1>13 DEF vars
  <2>2. KernelInv'
    BY <2>1, SameStep DEF IInv, KernelInv
  <2>3. MMInv'
    BY <2>1 DEF IInv, MMInv, kernel, mm
  <2> QED
    BY <2>2, <2>3 DEF IInv
<1> QED
  BY <1>1, <1>2, <1>3, <1>4, <1>5, <1>6, <1>7, <1>8, <1>9, <1>10, <1>11, <1>12, <1>13 DEF Next

(* The queues, the signals and the waits of the kernel are sound in every  *)
(* state, whatever interrupts and calls come (the functions of             *)
(* kernel/proc.c and the loop of kernel/system.c).                         *)
THEOREM KernelInvariant == Spec => []IInv
<1>1. Init => IInv
  BY InitInv
<1>2. IInv /\ [Next]_vars => IInv'
  BY NextInv
<1> QED
  BY <1>1, <1>2, PTL DEF Spec

-----------------------------------------------------------------------------
(* What the invariant says in the words of the properties of Messages.     *)

(* The kernel of a state of which the invariant holds.                     *)
LEMMA InvFacts ==
  ASSUME IInv
  PROVE  /\ Kernel \in KernelStates /\ EntriesSound(Kernel) /\ SignalsKept(Kernel)
         /\ SendersExact(Kernel) /\ QueuesExact(Kernel) /\ MMHears(Kernel) /\ Highest(Kernel)
         /\ RequestSound(Kernel) /\ InterruptKept /\ KernelKept(Kernel) /\ NoCircle(Kernel)
         /\ Kernel.proc = proc /\ Kernel.rdy = rdy /\ Kernel.proc_ptr = proc_ptr
         /\ Kernel.sig_procs = sig_procs /\ Kernel.told = told /\ Kernel.m = m
         /\ Kernel.due = due
  BY DEF IInv, KernelInv, KernelSound, KernelKept, Kernel

(* Every field of the kernel and of MM keeps its type, and the counts of   *)
(* signals their bounds.                                                   *)
THEOREM KernelTypeCorrect == Spec => []TypeOK
<1>1. ASSUME IInv PROVE TypeOK
  <2>1. /\ Kernel \in KernelStates /\ SignalsKept(Kernel) /\ RequestSound(Kernel)
        /\ KernelKept(Kernel)
        /\ Kernel.proc = proc /\ Kernel.rdy = rdy /\ Kernel.proc_ptr = proc_ptr
        /\ Kernel.sig_procs = sig_procs /\ Kernel.told = told /\ Kernel.m = m
        /\ Kernel.due = due
    BY <1>1, InvFacts
  <2>2. /\ proc \in [Procs -> ProcRecord] /\ rdy \in [{"TASK", "SERVER", "USER"} -> Seq(Procs)]
        /\ proc_ptr \in Procs \union {IDLE} /\ told \in [Users -> Int] /\ due \subseteq Drivers
        /\ m \in [source : Procs \union {NIL}, body : {"free", "request", "read", "reply", "lost"}]
    BY <2>1 DEF KernelStates, QueueNames
  <2>3. ASSUME NEW p \in Procs PROVE proc[p].p_pendcount \in 0 .. MaxPendcount
    <3>1. CASE p \in Users
      BY <2>1, <3>1 DEF SignalsKept, SignalsSound
    <3>2. CASE p \notin Users
      BY <2>1, <3>2, CallAssumption DEF SignalsKept
    <3> QED
      BY <3>1, <3>2
  <2>4. PICK R : R = [p_priority : {"NONE", "TASK", "SERVER", "USER"}, p_flags : SUBSET Flags,
                      p_sendto : Procs \union {NIL}, p_getfrom : Procs \union {ANY, NIL},
                      p_callerq : Seq(Procs), p_int_blocked : BOOLEAN,
                      p_pending : SUBSET Sigs, p_pendcount : 0 .. MaxPendcount]
    OBVIOUS
  <2>5. proc \in [Procs -> R]
    <3>1. ASSUME NEW p \in Procs PROVE proc[p] \in R
      <4>1. proc[p] \in ProcRecord
        BY <2>2
      <4> QED
        BY <2>3, <2>4, <4>1 DEF ProcRecord
    <3> QED
      BY <2>2, <3>1
  <2>6. told \in [Users -> 0 .. MaxPendcount]
    <3>1. ASSUME NEW u \in Users PROVE told[u] \in 0 .. MaxPendcount
      BY <2>1 DEF SignalsKept, SignalsSound
    <3> QED
      BY <2>2, <3>1
  <2>7. sig_procs \in 0 .. Cardinality(Users)
    <3>1. PendingProcs(Kernel) \subseteq Users /\ Cardinality(PendingProcs(Kernel)) \in Nat
      BY <2>1, PendingFacts
    <3>2. /\ Cardinality(PendingProcs(Kernel)) <= Cardinality(Users)
          /\ Cardinality(Users) \in Nat
      BY <3>1, FiniteUsers, FS_Subset, FS_CardinalityType
    <3>3. sig_procs = Cardinality(PendingProcs(Kernel))
      BY <2>1 DEF SignalsKept
    <3> QED
      BY <3>1, <3>2, <3>3
  <2>8. m \in [source : Procs \union {NIL}, body : {"free", "request", "reply", "lost"}]
    <3>1. m.body \in {"free", "request", "reply"}
      BY <2>1 DEF RequestSound
    <3> QED
      BY <2>2, <3>1
  <2>9. /\ mode \in {"out", "kernel", "switching"}
        /\ held \in Seq(Drivers) /\ unholding \in Drivers \union {NIL}
        /\ mm_at \in {"mm_init", "sync", "work", "loop"} /\ replies \subseteq Users
    BY <1>1 DEF IInv, KernelInv, MMInv
  <2> QED
    BY <2>2, <2>4, <2>5, <2>6, <2>7, <2>8, <2>9 DEF TypeOK
<1> QED
  BY <1>1, KernelInvariant, PTL

(* A process is in the queue of exactly the one it sends to, and in it     *)
(* once (mini_send, mini_rec and do_xit).                                  *)
THEOREM KernelSendersQueued == Spec => []SendersQueued
<1>1. ASSUME IInv PROVE SendersQueued
  <2>1. SendersExact(Kernel) /\ Kernel.proc = proc
    BY <1>1, InvFacts
  <2>2. ASSUME NEW d \in Procs
        PROVE  SendersOf(Kernel, d) =
                 {s \in Procs : "SENDING" \in proc[s].p_flags /\ proc[s].p_sendto = d}
    BY <2>1 DEF SendersOf, Sending
  <2> QED
    BY <2>1, <2>2 DEF SendersQueued, SendersExact
<1> QED
  BY <1>1, KernelInvariant, PTL

(* No processes wait for each other to receive, in a circle of any length: *)
(* mini_send looks along the senders from the one it is asked to send to   *)
(* and refuses (ELOCKED) when it comes back to the caller.                 *)
THEOREM KernelNoSenderCycle == Spec => []NoSenderCycle
<1>1. IInv => NoSenderCycle
  BY InvFacts, CircleMeans
<1> QED
  BY <1>1, KernelInvariant, PTL

(* Nobody sleeps beside a message of the one it waits for, for any calls   *)
(* (mini_rec looks through the whole queue before it blocks).              *)
THEOREM KernelNoMissedMessage == Spec => []NoMissedMessage
<1>1. ASSUME IInv PROVE NoMissedMessage
  <2>1. EntriesSound(Kernel) /\ Kernel.proc = proc
    BY <1>1, InvFacts
  <2>2. ASSUME NEW p \in Procs, NEW s \in Range(proc[p].p_callerq)
        PROVE  ~Accepts(Kernel, p, s)
    <3>1. Sound(p, proc[p])
      BY <2>1 DEF EntriesSound
    <3>2. ~WaitsFor(proc[p], s)
      BY <3>1 DEF Sound
    <3> QED
      BY <2>1, <3>2 DEF Accepts, WaitsFor
  <2> QED
    BY <2>2 DEF NoMissedMessage
<1> QED
  BY <1>1, KernelInvariant, PTL

(* No task waits for the hardware beside a recorded interrupt (interrupt,  *)
(* mini_rec).                                                              *)
THEOREM KernelNoMissedInterrupt == Spec => []NoMissedInterrupt
<1>1. ASSUME IInv PROVE NoMissedInterrupt
  <2>1. EntriesSound(Kernel) /\ Kernel.proc = proc
    BY <1>1, InvFacts
  <2>2. ASSUME NEW t \in Drivers, Accepts(Kernel, t, HARDWARE)
        PROVE  ~proc[t].p_int_blocked
    <3>1. Sound(t, proc[t])
      BY <2>1, ProcFacts DEF EntriesSound
    <3>2. WaitsFor(proc[t], HARDWARE)
      BY <2>1, <2>2 DEF Accepts, WaitsFor
    <3> QED
      BY <3>1, <3>2 DEF Sound
  <2> QED
    BY <2>2 DEF NoMissedInterrupt
<1> QED
  BY <1>1, KernelInvariant, PTL

(* An interrupt without its message is held, being taken, or recorded      *)
(* (interrupt, unhold).                                                    *)
THEOREM KernelInterruptKept == Spec => []InterruptKept
<1>1. IInv => InterruptKept
  BY InvFacts
<1> QED
  BY <1>1, KernelInvariant, PTL

(* The count of the processes with pending signals and the flags of each   *)
(* user agree with its signals (cause_sig, inform, do_endsig, do_fork and  *)
(* do_xit).                                                                *)
THEOREM KernelSignalsCounted == Spec => []SignalsCounted
<1>1. ASSUME IInv PROVE SignalsCounted
  <2>1. /\ SignalsKept(Kernel) /\ Kernel.proc = proc /\ Kernel.told = told
        /\ Kernel.sig_procs = sig_procs
    BY <1>1, InvFacts
  <2>2. sig_procs = Cardinality({p \in Procs : "PENDING" \in proc[p].p_flags})
    BY <2>1 DEF SignalsKept, PendingProcs
  <2>3. ASSUME NEW u \in Users
        PROVE  /\ proc[u].p_pending # {} <=> "PENDING" \in proc[u].p_flags
               /\ proc[u].p_pendcount > 0 <=> "SIG_PENDING" \in proc[u].p_flags
               /\ isuserp(u) => proc[u].p_pendcount = Cardinality(proc[u].p_pending) + told[u]
    BY <2>1 DEF SignalsKept, SignalsSound, isuserp
  <2> QED
    BY <2>2, <2>3 DEF SignalsCounted
<1> QED
  BY <1>1, KernelInvariant, PTL

(* MM does not wait for ANY, nor for HARDWARE, while a signal is pending   *)
(* (cause_sig, and inform in its own mini_rec).                            *)
THEOREM KernelMMTold == Spec => []MMTold
<1>1. ASSUME IInv PROVE MMTold
  BY <1>1, InvFacts DEF MMTold, MMHears, Accepts, WaitsFor
<1> QED
  BY <1>1, KernelInvariant, PTL

(* HARDWARE, in whose name inform and interrupt send, is never blocked.    *)
THEOREM KernelHardwareNeverBlocks == Spec => []HardwareNeverBlocks
<1>1. ASSUME IInv PROVE HardwareNeverBlocks
  BY <1>1, InvFacts, ProcFacts DEF HardwareNeverBlocks, EntriesSound, Sound
<1> QED
  BY <1>1, KernelInvariant, PTL

(* Each ready queue holds the processes of its class that may run, each    *)
(* once (ready, unready and all who set and clear flags).                  *)
THEOREM KernelReadyQueuesExact == Spec => []ReadyQueuesExact
<1>1. ASSUME IInv PROVE ReadyQueuesExact
  <2>1. QueuesExact(Kernel) /\ Kernel \in KernelStates /\ Kernel.proc = proc /\ Kernel.rdy = rdy
    BY <1>1, InvFacts
  <2>2. DOMAIN rdy = QueueNames
    BY <2>1 DEF KernelStates
  <2> QED
    BY <2>1, <2>2 DEF ReadyQueuesExact, QueuesExact, ReadyOf
<1> QED
  BY <1>1, KernelInvariant, PTL

(* The process that runs is always the one that pick_proc would choose     *)
(* (ready and interrupt do not call it).                                   *)
THEOREM KernelRunsHighest == Spec => []RunsHighest
<1>1. ASSUME IInv PROVE RunsHighest
  BY <1>1, InvFacts DEF RunsHighest, Highest
<1> QED
  BY <1>1, KernelInvariant, PTL

(* No message of SYSTASK is written over by inform, and whoever asked      *)
(* waits (cause_sig is called while SYSTASK works on a request).           *)
THEOREM KernelRequestKept == Spec => []RequestKept
<1>1. ASSUME IInv PROVE RequestKept
  <2>1. RequestSound(Kernel) /\ Kernel.m = m /\ Kernel.proc = proc
    BY <1>1, InvFacts
  <2>2. m.body \in {"free", "request", "reply"}
    BY <2>1 DEF RequestSound
  <2>3. m.body # "free" => Accepts(Kernel, m.source, SYSTASK)
    BY <2>1 DEF RequestSound, Accepts, WaitsFor
  <2> QED
    BY <2>2, <2>3 DEF RequestKept
<1> QED
  BY <1>1, KernelInvariant, PTL
=============================================================================
