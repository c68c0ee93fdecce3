---------------------------- MODULE MonitorProofs ----------------------------
(* Proofs about Monitor, for any set of threads and conditions.            *)
EXTENDS Monitor, FiniteSetTheorems, TLAPS

(* Every variable of the monitor keeps its type.                           *)
THEOREM MonitorTyped == MonitorSpec => []MonitorTypeOK
<1>1. MonitorInit => MonitorTypeOK
  BY DEF MonitorInit, MonitorTypeOK, Places
<1>2. MonitorTypeOK /\ [MonitorNext]_monitorVars => MonitorTypeOK'
  <2> SUFFICES ASSUME MonitorTypeOK, [MonitorNext]_monitorVars
               PROVE  MonitorTypeOK'
    OBVIOUS
  <2> USE DEF MonitorTypeOK, Places, Move
  <2>1. ASSUME NEW t \in Threads, Enter(t) PROVE MonitorTypeOK'
    BY <2>1 DEF Enter
  <2>2. ASSUME NEW t \in Threads, Leave(t) PROVE MonitorTypeOK'
    BY <2>2 DEF Leave
  <2>3. ASSUME NEW t \in Threads, Yield(t) PROVE MonitorTypeOK'
    BY <2>3 DEF Yield
  <2>4. ASSUME NEW t \in Threads, Wake(t) PROVE MonitorTypeOK'
    BY <2>4 DEF Wake
  <2>5. ASSUME NEW t \in Threads, Reenter(t) PROVE MonitorTypeOK'
    BY <2>5 DEF Reenter
  <2>6. ASSUME NEW t \in Threads, NEW c \in Conditions, CountIn(t, c)
        PROVE  MonitorTypeOK'
    BY <2>6 DEF CountIn
  <2>7. ASSUME NEW t \in Threads, NEW c \in Conditions, Signal(t, c)
        PROVE  MonitorTypeOK'
    BY <2>7 DEF Signal
  <2>8. CASE UNCHANGED monitorVars
    BY <2>8 DEF monitorVars
  <2> QED
    BY <2>1, <2>2, <2>3, <2>4, <2>5, <2>6, <2>7, <2>8 DEF MonitorNext
<1> QED
  BY <1>1, <1>2, PTL DEF MonitorSpec

(* The token of the monitor is never duplicated and never lost, whatever   *)
(* the threads do: at most one of them executes inside.                    *)
THEOREM TokenUnique == MonitorSpec => []OneToken
<1>1. MonitorInit => OneToken
  BY DEF MonitorInit, OneToken, Holds
<1>2. MonitorTypeOK /\ OneToken /\ [MonitorNext]_monitorVars => OneToken'
  <2> SUFFICES ASSUME MonitorTypeOK, OneToken, [MonitorNext]_monitorVars
               PROVE  OneToken'
    OBVIOUS
  <2> USE DEF MonitorTypeOK, OneToken, Holds, Places, Move
  <2>1. ASSUME NEW t \in Threads, Enter(t) PROVE OneToken'
    BY <2>1 DEF Enter
  <2>2. ASSUME NEW t \in Threads, Leave(t) PROVE OneToken'
    BY <2>2 DEF Leave
  <2>3. ASSUME NEW t \in Threads, Yield(t) PROVE OneToken'
    BY <2>3 DEF Yield
  <2>4. ASSUME NEW t \in Threads, Wake(t) PROVE OneToken'
    BY <2>4 DEF Wake
  <2>5. ASSUME NEW t \in Threads, Reenter(t) PROVE OneToken'
    BY <2>5 DEF Reenter
  <2>6. ASSUME NEW t \in Threads, NEW c \in Conditions, CountIn(t, c)
        PROVE  OneToken'
    BY <2>6 DEF CountIn
  <2>7. ASSUME NEW t \in Threads, NEW c \in Conditions, Signal(t, c)
        PROVE  OneToken'
    BY <2>7 DEF Signal
  <2>8. CASE UNCHANGED monitorVars
    BY <2>8 DEF monitorVars
  <2> QED
    BY <2>1, <2>2, <2>3, <2>4, <2>5, <2>6, <2>7, <2>8 DEF MonitorNext
<1> QED
  BY <1>1, <1>2, MonitorTyped, PTL DEF MonitorSpec

(* Waiters(c) is finite, so that its cardinality is a natural number.      *)
LEMMA WaitersFinite ==
  ASSUME NEW c
  PROVE  IsFiniteSet(Waiters(c))
BY ThreadsFinite, FS_Subset DEF Waiters

(* The counter and the semaphore of each condition count the threads       *)
(* inside its wait, for any number of threads and conditions.              *)
THEOREM AllWaitersCounted == MonitorSpec => []WaitersCounted
<1>1. MonitorInit => WaitersCounted
  <2> SUFFICES ASSUME MonitorInit, NEW c \in Conditions
               PROVE  waitingCount[c] + w[c] = Cardinality(Waiters(c))
    BY DEF WaitersCounted
  <2>1. Waiters(c) = {}
    BY DEF MonitorInit, Waiters
  <2> QED
    BY <2>1, FS_EmptySet DEF MonitorInit
<1>2. MonitorTypeOK /\ WaitersCounted /\ [MonitorNext]_monitorVars => WaitersCounted'
  <2> SUFFICES ASSUME MonitorTypeOK, WaitersCounted, [MonitorNext]_monitorVars,
                      NEW d \in Conditions
               PROVE  (waitingCount[d] + w[d] = Cardinality(Waiters(d)))'
    BY DEF WaitersCounted
  <2>0. waitingCount[d] + w[d] = Cardinality(Waiters(d))
    BY DEF WaitersCounted
  <2>1. ASSUME NEW t \in Threads, Enter(t) \/ Leave(t) \/ Yield(t) \/ Reenter(t)
        PROVE  (waitingCount[d] + w[d] = Cardinality(Waiters(d)))'
    <3>1. Waiters(d)' = Waiters(d)
      BY <2>1 DEF Waiters, Enter, Leave, Yield, Reenter, Move, MonitorTypeOK
    <3> QED
      BY <2>0, <2>1, <3>1 DEF Enter, Leave, Yield, Reenter
  <2>2. ASSUME NEW t \in Threads, Wake(t)
        PROVE  (waitingCount[d] + w[d] = Cardinality(Waiters(d)))'
    <3>1. CASE on[t] = d
      <4>1. t \in Waiters(d)
        BY <2>2, <3>1 DEF Wake, Move, Waiters
      <4>2. Waiters(d)' = Waiters(d) \ {t}
        BY <2>2, <3>1 DEF Wake, Move, Waiters, MonitorTypeOK
      <4>3. Cardinality(Waiters(d) \ {t}) = Cardinality(Waiters(d)) - 1
        BY <4>1, WaitersFinite, FS_RemoveElement
      <4>4. w'[d] = w[d] - 1 /\ waitingCount' = waitingCount
        BY <2>2, <3>1 DEF Wake, MonitorTypeOK
      <4> QED
        BY <2>0, <4>2, <4>3, <4>4 DEF MonitorTypeOK
    <3>2. CASE on[t] # d
      <4>1. Waiters(d)' = Waiters(d)
        BY <2>2, <3>2 DEF Wake, Move, Waiters, MonitorTypeOK
      <4>2. w'[d] = w[d] /\ waitingCount' = waitingCount
        BY <2>2, <3>2 DEF Wake, MonitorTypeOK
      <4> QED
        BY <2>0, <4>1, <4>2
    <3> QED
      BY <3>1, <3>2
  <2>3. ASSUME NEW t \in Threads, NEW c \in Conditions, CountIn(t, c)
        PROVE  (waitingCount[d] + w[d] = Cardinality(Waiters(d)))'
    <3>1. CASE c = d
      <4>1. t \notin Waiters(d)
        BY <2>3 DEF CountIn, Move, Waiters
      <4>2. Waiters(d)' = Waiters(d) \cup {t}
        BY <2>3, <3>1 DEF CountIn, Move, Waiters, MonitorTypeOK
      <4>3. Cardinality(Waiters(d) \cup {t}) = Cardinality(Waiters(d)) + 1
        BY <4>1, WaitersFinite, FS_AddElement
      <4>4. waitingCount'[d] = waitingCount[d] + 1 /\ w' = w
        BY <2>3, <3>1 DEF CountIn, MonitorTypeOK
      <4> QED
        BY <2>0, <4>2, <4>3, <4>4 DEF MonitorTypeOK
    <3>2. CASE c # d
      <4>1. Waiters(d)' = Waiters(d)
        BY <2>3, <3>2 DEF CountIn, Move, Waiters, MonitorTypeOK
      <4>2. waitingCount'[d] = waitingCount[d] /\ w' = w
        BY <2>3, <3>2 DEF CountIn, MonitorTypeOK
      <4> QED
        BY <2>0, <4>1, <4>2
    <3> QED
      BY <3>1, <3>2
  <2>4. ASSUME NEW t \in Threads, NEW c \in Conditions, Signal(t, c)
        PROVE  (waitingCount[d] + w[d] = Cardinality(Waiters(d)))'
    <3>1. Waiters(d)' = Waiters(d)
      BY <2>4 DEF Signal, Move, Waiters, MonitorTypeOK
    <3>2. waitingCount'[d] + w'[d] = waitingCount[d] + w[d]
      BY <2>4 DEF Signal, MonitorTypeOK
    <3> QED
      BY <2>0, <3>1, <3>2
  <2>5. CASE UNCHANGED monitorVars
    <3>1. Waiters(d)' = Waiters(d)
      BY <2>5 DEF monitorVars, Waiters
    <3> QED
      BY <2>0, <2>5, <3>1 DEF monitorVars
  <2> QED
    BY <2>1, <2>2, <2>3, <2>4, <2>5 DEF MonitorNext
<1> QED
  BY <1>1, <1>2, MonitorTyped, PTL DEF MonitorSpec

(* A signaller that gives its token away always gives it to a thread that  *)
(* is there to take it, so the monitor is never left closed for good.      *)
THEOREM HandOverNeverLost == MonitorSpec => []HandOverClaimable
<1>1. MonitorTypeOK /\ OneToken /\ WaitersCounted => HandOverClaimable
  <2> SUFFICES ASSUME MonitorTypeOK, OneToken, WaitersCounted,
                      NEW c \in Conditions, w[c] > 0
               PROVE  \E t \in Threads : at[t] = "blocked" /\ on[t] = c
    BY DEF HandOverClaimable
  <2>1. w[c] = 1 /\ \A t \in Threads : ~Holds(t)
    BY DEF OneToken
  <2>2. Cardinality(Waiters(c)) # 0
    BY <2>1 DEF WaitersCounted, MonitorTypeOK
  <2>3. PICK t \in Waiters(c) : TRUE
    BY <2>2, FS_EmptySet
  <2> QED
    BY <2>1, <2>3 DEF Waiters, Holds
<1> QED
  BY <1>1, MonitorTyped, TokenUnique, AllWaitersCounted, PTL
=============================================================================
