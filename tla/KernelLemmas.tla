---------------------------- MODULE KernelLemmas ----------------------------
(***************************************************************************)
(* What the functions of the kernel of module Messages keep, each of them  *)
(* on any state K of the kernel: the invariant of the message passing, the *)
(* ready queues and the signals, and one lemma per function that calls of  *)
(* processes, of SYSTASK and of the hardware are made of.                  *)
(***************************************************************************)
EXTENDS Messages, ListLemmas, SequenceTheorems

(* The states of the kernel, by the types of their fields.                 *)
ProcRecord ==
  [p_priority : {"NONE", "TASK", "SERVER", "USER"}, p_flags : SUBSET Flags,
   p_sendto : Procs \union {NIL}, p_getfrom : Procs \union {ANY, NIL},
   p_callerq : Seq(Procs), p_int_blocked : BOOLEAN,
   p_pending : SUBSET Sigs, p_pendcount : Int]

QueueNames == {"TASK", "SERVER", "USER"}

KernelStates ==
  [proc : [Procs -> ProcRecord], rdy : [QueueNames -> Seq(Procs)],
   proc_ptr : Procs \union {IDLE}, sig_procs : Int, told : [Users -> Int],
   m : [source : Procs \union {NIL}, body : {"free", "request", "read", "reply", "lost"}],
   due : SUBSET Drivers]

Sending(r) == "SENDING" \in r.p_flags
Receiving(r) == "RECEIVING" \in r.p_flags

(* Accepts, of one entry r of the process table.                           *)
WaitsFor(r, s) ==
  /\ r.p_flags \intersect {"SENDING", "RECEIVING"} = {"RECEIVING"}
  /\ r.p_getfrom \in {ANY, s}

(* What every entry r of the process table keeps. Tasks and servers only   *)
(* send and receive. A user waits for the server it has called, and nobody *)
(* queues at it. Whoever sends to SYSTASK is a server that waits for the   *)
(* answer. MM never waits for the hardware alone. Nobody waits beside its  *)
(* message or its interrupt.                                               *)
Sound(p, r) ==
  /\ r.p_priority \in (IF p \in Tasks THEN {"TASK"}
                       ELSE IF p \in Servers THEN {"SERVER"} ELSE {"NONE", "USER"})
  /\ p \notin Users => r.p_flags \subseteq {"SENDING", "RECEIVING"}
  /\ p = HARDWARE => r.p_flags = {}
  /\ p \in Users =>
       /\ r.p_callerq = <<>>
       /\ Receiving(r) => r.p_getfrom \in Servers
       /\ Sending(r) => Receiving(r)
       /\ r.p_priority = "NONE" => r.p_flags = {}
  /\ Sending(r) =>
       /\ r.p_sendto \in (Tasks \union Servers) \ {HARDWARE}
       /\ Receiving(r) => r.p_getfrom = r.p_sendto
       /\ r.p_sendto = SYSTASK => p \in Servers /\ Receiving(r)
  /\ p = MM_PROC_NR /\ Receiving(r) => r.p_getfrom # HARDWARE
  /\ \A s \in Range(r.p_callerq) : ~WaitsFor(r, s)
  /\ WaitsFor(r, HARDWARE) => ~r.p_int_blocked

(* What the entry r of a user keeps of its signals, n of which MM has.     *)
SignalsSound(r, n) ==
  /\ IsFiniteSet(r.p_pending)
  /\ r.p_pending # {} <=> "PENDING" \in r.p_flags
  /\ r.p_pendcount > 0 <=> "SIG_PENDING" \in r.p_flags
  /\ r.p_priority = "USER" => r.p_pendcount = Cardinality(r.p_pending) + n
  /\ r.p_pendcount \in 0 .. MaxPendcount /\ n \in 0 .. MaxPendcount

PendingProcs(K) == {p \in Procs : "PENDING" \in K.proc[p].p_flags}

(* SendersQueued, ReadyQueuesExact and RunsHighest, of a state K.          *)
SendersOf(K, d) == {s \in Procs : Sending(K.proc[s]) /\ K.proc[s].p_sendto = d}

SendersExact(K) ==
  \A d \in Procs : /\ Range(K.proc[d].p_callerq) = SendersOf(K, d)
                   /\ IsInjective(K.proc[d].p_callerq)

ReadyOf(K, q) == {p \in Procs \ {HARDWARE} : K.proc[p].p_priority = q /\ K.proc[p].p_flags = {}}

QueuesExact(K) ==
  \A q \in QueueNames : Range(K.rdy[q]) = ReadyOf(K, q) /\ IsInjective(K.rdy[q])

Highest(K) == K.proc_ptr = pick_proc(K).proc_ptr

EntriesSound(K) == \A p \in Procs : Sound(p, K.proc[p])

SignalsKept(K) ==
  /\ \A u \in Users : SignalsSound(K.proc[u], K.told[u])
  /\ \A p \in Procs \ Users : K.proc[p].p_pendcount = 0
  /\ K.sig_procs = Cardinality(PendingProcs(K))

(* The invariant of the kernel; the first part holds inside its functions. *)
KernelKept(K) ==
  K \in KernelStates /\ EntriesSound(K) /\ SignalsKept(K) /\ SendersExact(K) /\ QueuesExact(K)

MMHears(K) == WaitsFor(K.proc[MM_PROC_NR], HARDWARE) => K.sig_procs = 0

KernelSound(K) == KernelKept(K) /\ MMHears(K) /\ Highest(K)

(* SYSTASK, while it works, is the task that runs, and the server that it  *)
(* works for waits for it and for nobody else.                             *)
RequestSound(K) ==
  /\ K.m.body \in {"free", "request", "reply"}
  /\ K.m.body # "free" =>
       /\ K.rdy["TASK"] # <<>> /\ Head(K.rdy["TASK"]) = SYSTASK
       /\ K.m.source \in Servers /\ WaitsFor(K.proc[K.m.source], SYSTASK)
       /\ K.proc[K.m.source].p_getfrom = SYSTASK

-----------------------------------------------------------------------------
(* Sequences without repetition: the queues of senders and of the ready.   *)

(* The i-th element leaves a queue, the others stay in their order.        *)
LEMMA RemoveAtFacts ==
  ASSUME NEW S, NEW s \in Seq(S), IsInjective(s), NEW i \in 1..Len(s)
  PROVE  /\ RemoveAt(s, i) \in Seq(S) /\ IsInjective(RemoveAt(s, i))
         /\ Range(RemoveAt(s, i)) = Range(s) \ {s[i]}
         /\ i # 1 => RemoveAt(s, i) # <<>> /\ Head(RemoveAt(s, i)) = Head(s)
<1> DEFINE r == RemoveAt(s, i)
           a == SubSeq(s, 1, i - 1)
           b == SubSeq(s, i + 1, Len(s))
<1>1. \A k \in 1..Len(s) : s[k] \in S
  BY ElementOfSeq
<1>2. a \in Seq(S) /\ Len(a) = i - 1 /\ \A k \in 1..i - 1 : a[k] = s[k]
  <2>1. 1 \in Int /\ i - 1 \in Int /\ \A k \in 1..i - 1 : s[k] \in S
    BY <1>1
  <2>2. /\ a \in Seq(S) /\ Len(a) = IF 1 <= i - 1 THEN (i - 1) - 1 + 1 ELSE 0
        /\ \A k \in 1..(i - 1) - 1 + 1 : a[k] = s[1 + k - 1]
    BY <2>1, SubSeqProperties
  <2> HIDE DEF a
  <2> QED
    BY <2>2
<1>3. b \in Seq(S) /\ Len(b) = Len(s) - i /\ \A k \in 1..Len(s) - i : b[k] = s[i + k]
  <2>1. i + 1 \in Int /\ Len(s) \in Int /\ \A k \in i + 1..Len(s) : s[k] \in S
    BY <1>1
  <2>2. /\ b \in Seq(S) /\ Len(b) = IF i + 1 <= Len(s) THEN Len(s) - (i + 1) + 1 ELSE 0
        /\ \A k \in 1..Len(s) - (i + 1) + 1 : b[k] = s[(i + 1) + k - 1]
    BY <2>1, SubSeqProperties
  <2> HIDE DEF b
  <2> QED
    BY <2>2
<1>4. r = a \o b
  BY DEF RemoveAt
<1> HIDE DEF a, b, r
<1>5. /\ r \in Seq(S) /\ Len(r) = Len(s) - 1
      /\ \A k \in 1..Len(s) - 1 : r[k] = IF k < i THEN s[k] ELSE s[k + 1]
  <2>1. /\ r \in Seq(S) /\ Len(r) = Len(a) + Len(b)
        /\ \A k \in 1..Len(a) + Len(b) : r[k] = IF k <= Len(a) THEN a[k] ELSE b[k - Len(a)]
    BY <1>2, <1>3, <1>4, ConcatProperties
  <2>2. Len(r) = Len(s) - 1
    BY <1>2, <1>3, <2>1
  <2>3. ASSUME NEW k \in 1..Len(s) - 1
        PROVE  r[k] = IF k < i THEN s[k] ELSE s[k + 1]
    <3>1. r[k] = IF k <= i - 1 THEN a[k] ELSE b[k - (i - 1)]
      BY <1>2, <1>3, <2>1
    <3>2. CASE k < i
      BY <1>2, <3>1, <3>2
    <3>3. CASE k >= i
      <4>1. k - (i - 1) \in 1..Len(s) - i
        BY <3>3
      <4>2. b[k - (i - 1)] = s[i + (k - (i - 1))]
        BY <1>3, <4>1
      <4> QED
        BY <3>1, <3>3, <4>2
    <3> QED
      BY <3>2, <3>3
  <2> QED
    BY <2>1, <2>2, <2>3
<1>6. DOMAIN r = 1..Len(s) - 1 /\ DOMAIN s = 1..Len(s)
  BY <1>5, LenProperties
<1> DEFINE old(k) == IF k < i THEN k ELSE k + 1
<1>7. \A k \in 1..Len(s) - 1 : old(k) \in 1..Len(s) /\ old(k) # i /\ r[k] = s[old(k)]
  BY <1>5
<1>8. IsInjective(r)
  <2> SUFFICES ASSUME NEW x \in 1..Len(s) - 1, NEW y \in 1..Len(s) - 1, r[x] = r[y]
               PROVE  x = y
    BY <1>6 DEF IsInjective
  <2>1. old(x) = old(y)
    BY <1>6, <1>7 DEF IsInjective
  <2> QED
    BY <2>1
<1>9. Range(r) = Range(s) \ {s[i]}
  <2>1. ASSUME NEW k \in 1..Len(s) - 1 PROVE r[k] \in Range(s) \ {s[i]}
    <3>1. s[old(k)] # s[i]
      BY <1>6, <1>7 DEF IsInjective
    <3> QED
      BY <1>6, <1>7, <3>1 DEF Range
  <2>2. ASSUME NEW k \in 1..Len(s), s[k] # s[i] PROVE s[k] \in Range(r)
    <3>1. CASE k < i
      BY <1>5, <1>6, <3>1 DEF Range
    <3>2. CASE k > i
      <4>1. k - 1 \in 1..Len(s) - 1 /\ r[k - 1] = s[k]
        BY <1>5, <3>2
      <4> QED
        BY <1>6, <4>1 DEF Range
    <3> QED
      BY <2>2, <3>1, <3>2
  <2> QED
    BY <1>6, <2>1, <2>2 DEF Range
<1>10. ASSUME i # 1 PROVE r # <<>> /\ Head(r) = Head(s)
  <2>1. Len(r) >= 1 /\ r[1] = s[1]
    BY <1>5, <1>10
  <2> QED
    BY <1>5, <2>1
<1> QED
  BY <1>5, <1>8, <1>9, <1>10 DEF r

(* e leaves a queue, if it is there.                                       *)
LEMMA RemoveFirstFacts ==
  ASSUME NEW S, NEW s \in Seq(S), IsInjective(s), NEW e
  PROVE  /\ RemoveFirst(s, e) \in Seq(S) /\ IsInjective(RemoveFirst(s, e))
         /\ Range(RemoveFirst(s, e)) = Range(s) \ {e}
         /\ s # <<>> /\ Head(s) # e
              => RemoveFirst(s, e) # <<>> /\ Head(RemoveFirst(s, e)) = Head(s)
<1>1. DOMAIN s = 1..Len(s)
  BY LenProperties
<1>2. CASE \E i \in 1..Len(s) : s[i] = e
  <2> DEFINE places == {i \in 1..Len(s) : s[i] = e}
  <2>1. RemoveFirst(s, e) = RemoveAt(s, Min(places))
    BY <1>2 DEF RemoveFirst, SelectInSeq
  <2>2. places \subseteq Nat /\ places # {} /\ places \subseteq 1..Len(s)
    BY <1>2
  <2>3. \A i \in places : s[i] = e
    OBVIOUS
  <2> HIDE DEF places
  <2>4. PICK i \in 1..Len(s) : i = Min(places) /\ s[i] = e
    <3>1. Min(places) \in places
      BY <2>2, MinNat, Zenon
    <3> QED
      BY <2>2, <2>3, <3>1
  <2>5. RemoveFirst(s, e) = RemoveAt(s, i)
    BY <2>1, <2>4
  <2>6. Head(s) # e => i # 1
    BY <2>4
  <2> QED
    BY <2>4, <2>5, <2>6, RemoveAtFacts
<1>3. CASE ~ \E i \in 1..Len(s) : s[i] = e
  <2>1. RemoveFirst(s, e) = s
    BY <1>3 DEF RemoveFirst
  <2>2. e \notin Range(s)
    BY <1>1, <1>3 DEF Range
  <2> QED
    BY <2>1, <2>2
<1> QED
  BY <1>2, <1>3

(* A new e goes to the end of a queue.                                     *)
LEMMA AppendFacts ==
  ASSUME NEW S, NEW s \in Seq(S), IsInjective(s), NEW e \in S, e \notin Range(s)
  PROVE  /\ Append(s, e) \in Seq(S) /\ IsInjective(Append(s, e))
         /\ Range(Append(s, e)) = Range(s) \union {e}
         /\ Append(s, e) # <<>>
         /\ Head(Append(s, e)) = IF s = <<>> THEN e ELSE Head(s)
<1>1. /\ Append(s, e) \in Seq(S) /\ Append(s, e) # <<>>
      /\ Len(Append(s, e)) = Len(s) + 1
      /\ \A i \in 1..Len(s) : Append(s, e)[i] = s[i]
      /\ Append(s, e)[Len(s) + 1] = e
  BY AppendProperties
<1>2. DOMAIN s = 1..Len(s) /\ DOMAIN Append(s, e) = 1..Len(s) + 1
  BY <1>1, LenProperties
<1>3. \A i \in 1..Len(s) : s[i] # e
  BY <1>2 DEF Range
<1>4. PICK r : r = Append(s, e)
  OBVIOUS
<1>5. IsInjective(r)
  <2> SUFFICES ASSUME NEW x \in 1..Len(s) + 1, NEW y \in 1..Len(s) + 1, r[x] = r[y]
               PROVE  x = y
    BY <1>2, <1>4 DEF IsInjective
  <2>1. CASE x = Len(s) + 1
    BY <1>1, <1>3, <1>4, <2>1
  <2>2. CASE y = Len(s) + 1
    BY <1>1, <1>3, <1>4, <2>2
  <2>3. CASE x # Len(s) + 1 /\ y # Len(s) + 1
    <3>1. x \in 1..Len(s) /\ y \in 1..Len(s)
      BY <2>3
    <3> QED
      BY <1>1, <1>2, <1>4, <3>1 DEF IsInjective
  <2> QED
    BY <2>1, <2>2, <2>3
<1>6. Range(r) = Range(s) \union {e}
  <2>1. ASSUME NEW x \in 1..Len(s) + 1 PROVE r[x] \in Range(s) \union {e}
    <3>1. CASE x \in 1..Len(s)
      BY <1>1, <1>2, <1>4, <3>1 DEF Range
    <3>2. CASE x = Len(s) + 1
      BY <1>1, <1>4, <3>2
    <3> QED
      BY <3>1, <3>2
  <2>2. \A x \in 1..Len(s) : x \in 1..Len(s) + 1 /\ r[x] = s[x]
    BY <1>1, <1>4
  <2>3. Len(s) + 1 \in 1..Len(s) + 1 /\ r[Len(s) + 1] = e
    BY <1>1, <1>4
  <2> QED
    BY <1>2, <1>4, <2>1, <2>2, <2>3 DEF Range
<1>7. Head(r) = IF s = <<>> THEN e ELSE Head(s)
  BY <1>4, HeadTailAppend
<1> QED
  BY <1>1, <1>4, <1>5, <1>6, <1>7

(* A new e goes to the front of a queue.                                   *)
LEMMA FrontFacts ==
  ASSUME NEW S, NEW s \in Seq(S), IsInjective(s), NEW e \in S, e \notin Range(s)
  PROVE  /\ <<e>> \o s \in Seq(S) /\ IsInjective(<<e>> \o s)
         /\ Range(<<e>> \o s) = Range(s) \union {e}
<1>1. PICK r : r = <<e>> \o s
  OBVIOUS
<1>2. <<e>> \in Seq(S) /\ Len(<<e>>) = 1 /\ <<e>>[1] = e
  OBVIOUS
<1>3. /\ r \in Seq(S) /\ Len(r) = Len(<<e>>) + Len(s)
      /\ \A k \in 1..Len(<<e>>) + Len(s) :
           r[k] = IF k <= Len(<<e>>) THEN <<e>>[k] ELSE s[k - Len(<<e>>)]
  BY <1>1, <1>2, ConcatProperties
<1>4. /\ Len(r) = 1 + Len(s)
      /\ \A k \in 1..1 + Len(s) : r[k] = IF k = 1 THEN e ELSE s[k - 1]
  BY <1>2, <1>3
<1>5. DOMAIN r = 1..1 + Len(s) /\ DOMAIN s = 1..Len(s)
  BY <1>3, <1>4, LenProperties
<1>6. \A i \in 1..Len(s) : s[i] # e
  BY <1>5 DEF Range
<1>7. IsInjective(r)
  <2> SUFFICES ASSUME NEW x \in 1..1 + Len(s), NEW y \in 1..1 + Len(s), r[x] = r[y]
               PROVE  x = y
    BY <1>5 DEF IsInjective
  <2>1. x # 1 => x - 1 \in 1..Len(s)
    OBVIOUS
  <2>2. y # 1 => y - 1 \in 1..Len(s)
    OBVIOUS
  <2>3. x # 1 /\ y # 1 => x - 1 = y - 1
    BY <1>4, <1>5, <2>1, <2>2 DEF IsInjective
  <2> QED
    BY <1>4, <1>6, <2>1, <2>2, <2>3
<1>8. Range(r) = Range(s) \union {e}
  <2>1. ASSUME NEW k \in 1..Len(s) PROVE k + 1 \in 1..1 + Len(s) /\ r[k + 1] = s[k]
    BY <1>4
  <2>2. ASSUME NEW k \in 1..1 + Len(s), k # 1 PROVE k - 1 \in 1..Len(s) /\ r[k] = s[k - 1]
    BY <1>4, <2>2
  <2>3. 1 \in 1..1 + Len(s) /\ r[1] = e
    BY <1>4
  <2>4. \A x : x \in Range(r) <=> \E k \in 1..1 + Len(s) : r[k] = x
    BY <1>5 DEF Range
  <2>5. \A x : x \in Range(s) <=> \E k \in 1..Len(s) : s[k] = x
    BY <1>5 DEF Range
  <2>6. ASSUME NEW x PROVE x \in Range(r) <=> x \in Range(s) \union {e}
    BY <2>1, <2>2, <2>3, <2>4, <2>5
  <2> QED
    BY <2>6
<1> QED
  BY <1>1, <1>3, <1>7, <1>8

(* A queue turned by some places holds the same.                           *)
LEMMA TurnedFacts ==
  ASSUME NEW S, NEW s \in Seq(S), IsInjective(s), NEW n \in 1..Len(s)
  PROVE  LET r == SubSeq(s, n + 1, Len(s)) \o SubSeq(s, 1, n)
         IN  r \in Seq(S) /\ IsInjective(r) /\ Range(r) = Range(s)
<1> DEFINE a == SubSeq(s, n + 1, Len(s))
           b == SubSeq(s, 1, n)
<1>1. \A k \in 1..Len(s) : s[k] \in S
  BY ElementOfSeq
<1>2. a \in Seq(S) /\ Len(a) = Len(s) - n /\ \A k \in 1..Len(s) - n : a[k] = s[n + k]
  <2>1. n + 1 \in Int /\ Len(s) \in Int /\ \A k \in n + 1..Len(s) : s[k] \in S
    BY <1>1
  <2>2. /\ a \in Seq(S) /\ Len(a) = IF n + 1 <= Len(s) THEN Len(s) - (n + 1) + 1 ELSE 0
        /\ \A k \in 1..Len(s) - (n + 1) + 1 : a[k] = s[(n + 1) + k - 1]
    BY <2>1, SubSeqProperties
  <2> HIDE DEF a
  <2> QED
    BY <2>2
<1>3. b \in Seq(S) /\ Len(b) = n /\ \A k \in 1..n : b[k] = s[k]
  <2>1. 1 \in Int /\ n \in Int /\ \A k \in 1..n : s[k] \in S
    BY <1>1
  <2>2. /\ b \in Seq(S) /\ Len(b) = IF 1 <= n THEN n - 1 + 1 ELSE 0
        /\ \A k \in 1..n - 1 + 1 : b[k] = s[1 + k - 1]
    BY <2>1, SubSeqProperties
  <2> HIDE DEF b
  <2> QED
    BY <2>2
<1>4. PICK r : r = a \o b
  OBVIOUS
<1> HIDE DEF a, b
<1>5. /\ r \in Seq(S) /\ Len(r) = Len(a) + Len(b)
      /\ \A k \in 1..Len(a) + Len(b) : r[k] = IF k <= Len(a) THEN a[k] ELSE b[k - Len(a)]
  BY <1>2, <1>3, <1>4, ConcatProperties
<1>6. Len(r) = Len(s)
  BY <1>2, <1>3, <1>5
<1> DEFINE old(k) == IF k <= Len(s) - n THEN n + k ELSE k - (Len(s) - n)
<1>7. \A k \in 1..Len(s) : old(k) \in 1..Len(s) /\ r[k] = s[old(k)]
  <2> SUFFICES ASSUME NEW k \in 1..Len(s) PROVE old(k) \in 1..Len(s) /\ r[k] = s[old(k)]
    OBVIOUS
  <2>1. r[k] = IF k <= Len(s) - n THEN a[k] ELSE b[k - (Len(s) - n)]
    BY <1>2, <1>3, <1>5
  <2>2. CASE k <= Len(s) - n
    BY <1>2, <2>1, <2>2
  <2>3. CASE ~(k <= Len(s) - n)
    <3>1. k - (Len(s) - n) \in 1..n
      BY <2>3
    <3> QED
      BY <1>3, <2>1, <2>3, <3>1
  <2> QED
    BY <2>2, <2>3
<1>8. DOMAIN r = 1..Len(s) /\ DOMAIN s = 1..Len(s)
  BY <1>5, <1>6, LenProperties
<1>9. IsInjective(r)
  <2> SUFFICES ASSUME NEW x \in 1..Len(s), NEW y \in 1..Len(s), r[x] = r[y] PROVE x = y
    BY <1>8 DEF IsInjective
  <2>1. old(x) = old(y)
    BY <1>7, <1>8 DEF IsInjective
  <2> QED
    BY <2>1
<1>10. Range(r) = Range(s)
  <2>1. ASSUME NEW k \in 1..Len(s) PROVE \E i \in 1..Len(s) : r[i] = s[k]
    <3>1. (IF k > n THEN k - n ELSE k + (Len(s) - n)) \in 1..Len(s)
      OBVIOUS
    <3>2. PICK i \in 1..Len(s) : i = IF k > n THEN k - n ELSE k + (Len(s) - n)
      BY <3>1
    <3>3. old(i) = k
      BY <3>2
    <3>4. r[i] = s[old(i)]
      BY <1>7
    <3> QED
      BY <3>3, <3>4
  <2> HIDE DEF old
  <2>2. ASSUME NEW k \in 1..Len(s) PROVE \E i \in 1..Len(s) : s[i] = r[k]
    BY <1>7
  <2>3. \A x : x \in Range(r) <=> \E k \in 1..Len(s) : r[k] = x
    BY <1>8 DEF Range
  <2>4. \A x : x \in Range(s) <=> \E k \in 1..Len(s) : s[k] = x
    BY <1>8 DEF Range
  <2> QED
    BY <2>1, <2>2, <2>3, <2>4
<1> QED
  BY <1>4, <1>5, <1>9, <1>10 DEF a, b

-----------------------------------------------------------------------------
(* The numbers of processes, and the three queues.                         *)

(* Who is who among the numbers of the processes.                          *)
LEMMA ProcFacts ==
  /\ Tasks \intersect Servers = {} /\ Tasks \intersect Users = {} /\ Servers \intersect Users = {}
  /\ Procs = Tasks \union Servers \union Users
  /\ HARDWARE \in Tasks /\ SYSTASK \in Tasks /\ HARDWARE # SYSTASK
  /\ MM_PROC_NR \in Servers /\ FS_PROC_NR \in Servers /\ MM_PROC_NR # FS_PROC_NR
  /\ INIT_PROC_NR \in Users
  /\ IDLE \notin Procs /\ NIL \notin Procs /\ ANY \notin Procs
  /\ Drivers \subseteq Tasks /\ HARDWARE \notin Drivers /\ SYSTASK \notin Drivers
  /\ Killers \subseteq Tasks /\ HARDWARE \notin Killers /\ SYSTASK \notin Killers
  /\ Users \subseteq Nat /\ Servers \subseteq Nat
<1>1. Servers = {0, 1} /\ \A u \in Users : u \in Nat /\ u >= 2
  BY ProcAssumption DEF Servers, Users, MM_PROC_NR, FS_PROC_NR, INIT_PROC_NR
<1>2. \A t \in Tasks : t \in Int /\ t < 0 /\ t # -6
  BY ProcAssumption DEF IDLE
<1>3. INIT_PROC_NR \in Users
  BY ProcAssumption DEF Users, INIT_PROC_NR
<1> QED
  BY <1>1, <1>2, <1>3, ProcAssumption
     DEF Procs, HARDWARE, SYSTASK, MM_PROC_NR, FS_PROC_NR, INIT_PROC_NR, IDLE

(* The user slots are finitely many.                                       *)
LEMMA FiniteUsers == IsFiniteSet(Users)
<1>1. PICK a, b : a = INIT_PROC_NR /\ b = LastUser
  OBVIOUS
<1>2. a \in Int /\ b \in Int
  BY <1>1, ProcAssumption DEF INIT_PROC_NR
<1>3. IsFiniteSet(a..b)
  BY <1>2, FS_Interval
<1> QED
  BY <1>1, <1>3 DEF Users

(* The process that pick_proc takes from the queues.                       *)
First(queues) ==
  IF queues["TASK"] # <<>> THEN Head(queues["TASK"])
  ELSE IF queues["SERVER"] # <<>> THEN Head(queues["SERVER"])
  ELSE IF queues["USER"] # <<>> THEN Head(queues["USER"]) ELSE IDLE

(* pick_proc picks a process or IDLE.                                      *)
LEMMA FirstTyped ==
  ASSUME NEW queues \in [QueueNames -> Seq(Procs)]
  PROVE  First(queues) \in Procs \union {IDLE}
<1>1. /\ queues["TASK"] \in Seq(Procs) /\ queues["SERVER"] \in Seq(Procs)
      /\ queues["USER"] \in Seq(Procs)
  BY DEF QueueNames
<1>2. \A s \in Seq(Procs) : s # <<>> => Head(s) \in Procs
  BY HeadTailProperties
<1> QED
  BY <1>1, <1>2 DEF First

(* pick_proc lets the first of the first queue run that is not empty.      *)
LEMMA PickIs ==
  ASSUME NEW K \in KernelStates
  PROVE  /\ pick_proc(K) = [K EXCEPT !.proc_ptr = First(K.rdy)]
         /\ pick_proc(K) \in KernelStates
         /\ pick_proc(K).proc_ptr = First(K.rdy)
         /\ Highest(K) <=> K.proc_ptr = First(K.rdy)
<1>1. pick_proc(K) = [K EXCEPT !.proc_ptr = First(K.rdy)]
  BY DEF pick_proc, First
<1>2. First(K.rdy) \in Procs \union {IDLE}
  BY FirstTyped DEF KernelStates
<1>3. [K EXCEPT !.proc_ptr = First(K.rdy)] \in KernelStates
  BY <1>2 DEF KernelStates
<1>4. [K EXCEPT !.proc_ptr = First(K.rdy)].proc_ptr = First(K.rdy)
  BY DEF KernelStates
<1> QED
  BY <1>1, <1>3, <1>4 DEF Highest

(* Nothing but the process table, the ready queues and the process that    *)
(* runs differ.                                                            *)
OthersSame(K, L) ==
  L.sig_procs = K.sig_procs /\ L.told = K.told /\ L.m = K.m /\ L.due = K.due

(* The tasks that were ready are still in front of the others.             *)
TasksStay(K, L) ==
  K.rdy["TASK"] # <<>> => L.rdy["TASK"] # <<>> /\ Head(L.rdy["TASK"]) = Head(K.rdy["TASK"])

(* The types of an entry of the process table.                             *)
LEMMA EntryTyped ==
  ASSUME NEW K \in KernelStates, NEW p \in Procs
  PROVE  /\ K.proc[p] \in ProcRecord
         /\ K.proc[p].p_priority \in {"NONE", "TASK", "SERVER", "USER"}
         /\ K.proc[p].p_flags \subseteq Flags
         /\ K.proc[p].p_callerq \in Seq(Procs)
         /\ K.proc \in [Procs -> ProcRecord]
         /\ K.rdy \in [QueueNames -> Seq(Procs)]
BY DEF KernelStates, ProcRecord

(* The queue of a process that is not dead is that of its priority.        *)
LEMMA QueueIs ==
  ASSUME NEW K \in KernelStates, NEW p \in Procs
  PROVE  /\ Queue(K, p) \in QueueNames
         /\ K.proc[p].p_priority # "NONE" => Queue(K, p) = K.proc[p].p_priority
BY EntryTyped DEF Queue, QueueNames

LeadsTasks(K, p) == K.rdy["TASK"] # <<>> /\ Head(K.rdy["TASK"]) = p

NoRepeat(K) == \A q \in QueueNames : IsInjective(K.rdy[q])

(* L is K with p in its queue. The highest process stays the one that      *)
(* runs, if p is a task, or if a task or a server is ready before.         *)
Entered(K, p, L) ==
  /\ L \in KernelStates /\ L.proc = K.proc /\ OthersSame(K, L) /\ TasksStay(K, L)
  /\ \A q \in QueueNames :
       /\ IsInjective(L.rdy[q])
       /\ Range(L.rdy[q]) = IF q = K.proc[p].p_priority THEN Range(K.rdy[q]) \union {p}
                            ELSE Range(K.rdy[q])
  /\ Highest(K) /\ (\/ K.proc[p].p_priority = "TASK"
                    \/ K.rdy["TASK"] # <<>>
                    \/ K.rdy["SERVER"] # <<>>)
       => Highest(L)
  /\ K.proc[p].p_priority = "TASK" /\ K.rdy["TASK"] = <<>> => LeadsTasks(L, p)
  /\ K.proc[p].p_priority = "SERVER" => L.proc_ptr = K.proc_ptr /\ L.rdy["USER"] = K.rdy["USER"]

(* ready puts p into its queue.                                            *)
LEMMA ReadyKeeps ==
  ASSUME NEW K \in KernelStates, NEW p \in Procs, K.proc[p].p_priority # "NONE",
         NoRepeat(K), \A q \in QueueNames : p \notin Range(K.rdy[q])
  PROVE  Entered(K, p, ready(K, p))
<1> USE DEF NoRepeat
<1> DEFINE L == ready(K, p)
<1>1. PICK q \in QueueNames : q = Queue(K, p) /\ q = K.proc[p].p_priority
  BY QueueIs
<1>2. PICK s : s = IF q = "USER" THEN <<p>> \o K.rdy[q] ELSE Append(K.rdy[q], p)
  OBVIOUS
<1>3. K.rdy[q] \in Seq(Procs)
  BY DEF KernelStates
<1>4. s \in Seq(Procs) /\ IsInjective(s) /\ Range(s) = Range(K.rdy[q]) \union {p}
  <2>1. CASE q = "USER"
    BY <1>2, <1>3, <2>1, FrontFacts
  <2>2. CASE q # "USER"
    BY <1>2, <1>3, <2>2, AppendFacts
  <2> QED
    BY <2>1, <2>2
<1>5. q # "USER" => s # <<>> /\ Head(s) = IF K.rdy[q] = <<>> THEN p ELSE Head(K.rdy[q])
  BY <1>2, <1>3, AppendFacts
<1>6. PICK ptr : ptr = IF q = "TASK" /\ K.rdy[q] = <<>> THEN p ELSE K.proc_ptr
  OBVIOUS
<1>7. L = [K EXCEPT !.rdy = [K.rdy EXCEPT ![q] = s], !.proc_ptr = ptr]
  BY <1>1, <1>2, <1>6 DEF ready, KernelStates
<1>8. L.rdy = [K.rdy EXCEPT ![q] = s] /\ L.proc_ptr = ptr /\ L.proc = K.proc /\ OthersSame(K, L)
  BY <1>7 DEF KernelStates, OthersSame
<1>9. L \in KernelStates
  <2>1. [K.rdy EXCEPT ![q] = s] \in [QueueNames -> Seq(Procs)]
    BY <1>4 DEF KernelStates
  <2>2. ptr \in Procs \union {IDLE}
    BY <1>6 DEF KernelStates
  <2> QED
    BY <1>7, <2>1, <2>2 DEF KernelStates
<1>10. \A r \in QueueNames : L.rdy[r] = IF r = q THEN s ELSE K.rdy[r]
  BY <1>8 DEF KernelStates
<1>11. TasksStay(K, L)
  BY <1>5, <1>10 DEF TasksStay, QueueNames
<1>12. ASSUME Highest(K), q = "TASK" \/ K.rdy["TASK"] # <<>> \/ K.rdy["SERVER"] # <<>>
       PROVE  Highest(L)
  <2>1. /\ L.rdy["TASK"] = (IF q = "TASK" THEN s ELSE K.rdy["TASK"])
        /\ L.rdy["SERVER"] = (IF q = "SERVER" THEN s ELSE K.rdy["SERVER"])
    BY <1>10 DEF QueueNames
  <2>2. K.proc_ptr = First(K.rdy)
    BY <1>12, PickIs
  <2>3. CASE q = "TASK"
    BY <1>5, <1>6, <1>8, <2>1, <2>2, <2>3, <1>9, PickIs DEF First
  <2>4. CASE q # "TASK"
    <3>1. K.rdy["TASK"] # <<>> \/ K.rdy["SERVER"] # <<>>
      BY <1>12, <2>4
    <3>2. L.rdy["TASK"] = K.rdy["TASK"] /\ L.proc_ptr = K.proc_ptr
      BY <1>6, <1>8, <2>1, <2>4
    <3>3. K.rdy["TASK"] = <<>> =>
            L.rdy["SERVER"] # <<>> /\ Head(L.rdy["SERVER"]) = Head(K.rdy["SERVER"])
      BY <1>5, <2>1, <3>1
    <3>4. First(L.rdy) = First(K.rdy)
      BY <3>1, <3>2, <3>3 DEF First
    <3> QED
      BY <1>9, <2>2, <3>2, <3>4, PickIs
  <2> QED
    BY <2>3, <2>4
<1>13. ASSUME q = "TASK", K.rdy["TASK"] = <<>>
       PROVE  L.rdy["TASK"] # <<>> /\ Head(L.rdy["TASK"]) = p
  BY <1>5, <1>10, <1>13
<1>14. ASSUME q = "SERVER"
       PROVE  L.proc_ptr = K.proc_ptr /\ L.rdy["USER"] = K.rdy["USER"]
  BY <1>6, <1>8, <1>10, <1>14 DEF QueueNames
<1> HIDE DEF L
<1>15. Entered(K, p, L)
  BY <1>1, <1>4, <1>8, <1>9, <1>10, <1>11, <1>12, <1>13, <1>14 DEF Entered, LeadsTasks
<1> QED
  BY <1>15 DEF L

(* A queue is empty if nobody is in it.                                    *)
LEMMA EmptyRange ==
  ASSUME NEW S, NEW s \in Seq(S)
  PROVE  s = <<>> <=> Range(s) = {}
<1>1. DOMAIN s = 1..Len(s) /\ Len(s) \in Nat
  BY LenProperties
<1>2. Range(s) = {} <=> Len(s) = 0
  <2>1. Len(s) # 0 => 1 \in DOMAIN s
    BY <1>1
  <2>2. Len(s) = 0 => \A i : i \notin DOMAIN s
    BY <1>1
  <2> QED
    BY <2>1, <2>2 DEF Range
<1> QED
  BY <1>2, EmptySeq

(* L is K without p in its queue; the highest process runs, if it did      *)
(* before or if p ran in front of its queue.                               *)
RunsInFront(K, p) ==
  LET q == K.proc[p].p_priority
  IN  K.proc_ptr = p /\ K.rdy[q] # <<>> /\ Head(K.rdy[q]) = p

Left(K, p, L) ==
  /\ L \in KernelStates /\ L.proc = K.proc /\ OthersSame(K, L)
  /\ \A q \in QueueNames :
       /\ IsInjective(L.rdy[q])
       /\ Range(L.rdy[q]) = IF q = K.proc[p].p_priority THEN Range(K.rdy[q]) \ {p}
                            ELSE Range(K.rdy[q])
  /\ ~LeadsTasks(K, p) => TasksStay(K, L)
  /\ Highest(K) \/ RunsInFront(K, p) => Highest(L)

(* unready takes p from its queue.                                         *)
LEMMA UnreadyKeeps ==
  ASSUME NEW K \in KernelStates, NEW p \in Procs, K.proc[p].p_priority # "NONE", NoRepeat(K)
  PROVE  Left(K, p, unready(K, p))
<1> USE DEF NoRepeat
<1> DEFINE L == unready(K, p)
<1>1. PICK q \in QueueNames : q = Queue(K, p) /\ q = K.proc[p].p_priority
  BY QueueIs
<1>2. PICK s : s = K.rdy[q]
  OBVIOUS
<1>3. s \in Seq(Procs) /\ IsInjective(s)
  BY <1>2 DEF KernelStates
<1>4. PICK t : t = RemoveFirst(s, p)
  OBVIOUS
<1>5. /\ t \in Seq(Procs) /\ IsInjective(t) /\ Range(t) = Range(s) \ {p}
      /\ s # <<>> /\ Head(s) # p => t # <<>> /\ Head(t) = Head(s)
  BY <1>3, <1>4, RemoveFirstFacts
<1>6. PICK W : W = [K EXCEPT !.rdy = [K.rdy EXCEPT ![q] = t]]
  OBVIOUS
<1>7. /\ W.rdy = [K.rdy EXCEPT ![q] = t] /\ W.proc = K.proc /\ OthersSame(K, W)
      /\ W.proc_ptr = K.proc_ptr
  BY <1>6 DEF KernelStates, OthersSame
<1>8. W \in KernelStates
  <2>1. [K.rdy EXCEPT ![q] = t] \in [QueueNames -> Seq(Procs)]
    BY <1>5 DEF KernelStates
  <2> QED
    BY <1>6, <2>1 DEF KernelStates
<1>9. \A r \in QueueNames : W.rdy[r] = IF r = q THEN t ELSE K.rdy[r]
  BY <1>7 DEF KernelStates
<1>10. PICK V : V = pick_proc(W)
  OBVIOUS
<1>11. V \in KernelStates /\ V.proc = W.proc /\ V.rdy = W.rdy /\ OthersSame(W, V) /\ Highest(V)
  <2>1. V = [W EXCEPT !.proc_ptr = First(W.rdy)] /\ V \in KernelStates
    BY <1>8, <1>10, PickIs
  <2>2. V.proc = W.proc /\ V.rdy = W.rdy /\ OthersSame(W, V) /\ V.proc_ptr = First(W.rdy)
    BY <1>8, <2>1 DEF KernelStates, OthersSame
  <2> QED
    BY <2>1, <2>2, PickIs
<1>12. L = IF s # <<>> /\ Head(s) = p /\ (q = "TASK" => p = K.proc_ptr) THEN V ELSE W
  <2>1. [K EXCEPT !.rdy[q] = RemoveFirst(@, p)] = W
    BY <1>2, <1>4, <1>6 DEF KernelStates
  <2> QED
    BY <1>1, <1>2, <1>10, <2>1 DEF unready
<1>13. L \in KernelStates /\ L.proc = K.proc /\ L.rdy = W.rdy /\ OthersSame(K, L)
  BY <1>7, <1>8, <1>11, <1>12 DEF OthersSame
<1>14. TasksStay(K, L) \/ (K.rdy["TASK"] # <<>> /\ Head(K.rdy["TASK"]) = p)
  <2>1. L.rdy["TASK"] = IF q = "TASK" THEN t ELSE K.rdy["TASK"]
    BY <1>9, <1>13 DEF QueueNames
  <2> QED
    BY <1>2, <1>5, <2>1 DEF TasksStay
<1>15. ASSUME Highest(K), ~(s # <<>> /\ Head(s) = p)
       PROVE  Highest(L)
  <2>1. (t = <<>> <=> s = <<>>) /\ (s # <<>> => Head(t) = Head(s))
    BY <1>3, <1>5, <1>15, EmptyRange
  <2>2. First(W.rdy) = First(K.rdy)
    BY <1>2, <1>9, <2>1 DEF First, QueueNames
  <2>3. L = W
    BY <1>12, <1>15
  <2> QED
    BY <1>7, <1>8, <1>15, <2>2, <2>3, PickIs
<1>16. ASSUME Highest(K), s # <<>>, Head(s) = p
       PROVE  q = "TASK" => p = K.proc_ptr
  BY <1>2, <1>16, PickIs DEF First
<1>17. Highest(K) => Highest(L)
  BY <1>11, <1>12, <1>15, <1>16
<1>18. K.proc_ptr = p /\ s # <<>> /\ Head(s) = p => Highest(L)
  BY <1>11, <1>12
<1>19. ASSUME NEW r \in QueueNames
       PROVE  /\ IsInjective(L.rdy[r])
              /\ Range(L.rdy[r]) = IF r = q THEN Range(K.rdy[r]) \ {p} ELSE Range(K.rdy[r])
  <2>1. L.rdy[r] = IF r = q THEN t ELSE K.rdy[r]
    BY <1>9, <1>13
  <2> QED
    BY <1>2, <1>5, <2>1
<1>20. ~LeadsTasks(K, p) => TasksStay(K, L)
  BY <1>14 DEF LeadsTasks
<1>21. RunsInFront(K, p) => Highest(L)
  BY <1>1, <1>2, <1>18 DEF RunsInFront
<1>22. \A r \in QueueNames :
         /\ IsInjective(L.rdy[r])
         /\ Range(L.rdy[r]) = IF r = K.proc[p].p_priority THEN Range(K.rdy[r]) \ {p}
                              ELSE Range(K.rdy[r])
  BY <1>1, <1>19
<1> HIDE DEF L
<1>23. Left(K, p, L)
  BY <1>13, <1>17, <1>20, <1>21, <1>22 DEF Left
<1> QED
  BY <1>23 DEF L

-----------------------------------------------------------------------------
(* Stopped and Released keep the queues exact.                             *)

(* The queues depend on the priorities and the flags only.                 *)
LEMMA QueuesSame ==
  ASSUME NEW K, NEW L, QueuesExact(K), L.rdy = K.rdy,
         \A p \in Procs : L.proc[p].p_priority = K.proc[p].p_priority,
         \A p \in Procs : L.proc[p].p_flags = {} <=> K.proc[p].p_flags = {}
  PROVE  QueuesExact(L)
<1>1. \A q : ReadyOf(L, q) = ReadyOf(K, q)
  BY DEF ReadyOf
<1> QED
  BY <1>1 DEF QueuesExact

(* L is K with a new entry r of p.                                         *)
Replaced(K, p, r, L) ==
  /\ L \in KernelStates /\ L.proc = [K.proc EXCEPT ![p] = r]
  /\ L.proc[p] = r /\ \A x \in Procs \ {p} : L.proc[x] = K.proc[x]
  /\ L.rdy = K.rdy /\ L.proc_ptr = K.proc_ptr /\ OthersSame(K, L)

(* The entry of p is replaced.                                             *)
LEMMA NewEntry ==
  ASSUME NEW K \in KernelStates, NEW p \in Procs, NEW r \in ProcRecord
  PROVE  Replaced(K, p, r, [K EXCEPT !.proc = [K.proc EXCEPT ![p] = r]])
<1> DEFINE L == [K EXCEPT !.proc = [K.proc EXCEPT ![p] = r]]
<1>1. [K.proc EXCEPT ![p] = r] \in [Procs -> ProcRecord]
  BY DEF KernelStates
<1>2. L \in KernelStates
  BY <1>1 DEF KernelStates
<1>3. /\ L.proc = [K.proc EXCEPT ![p] = r] /\ L.rdy = K.rdy /\ L.proc_ptr = K.proc_ptr
      /\ OthersSame(K, L)
  BY DEF KernelStates, OthersSame
<1>4. L.proc[p] = r /\ \A x \in Procs \ {p} : L.proc[x] = K.proc[x]
  BY <1>3 DEF KernelStates
<1> HIDE DEF L
<1>5. Replaced(K, p, r, L)
  BY <1>2, <1>3, <1>4 DEF Replaced
<1> QED
  BY <1>5 DEF L

(* An entry whose flags are set to F.                                      *)
Flagged(r, F) == [r EXCEPT !.p_flags = F]

(* It keeps its types, and its other fields.                               *)
LEMMA FlagsTyped ==
  ASSUME NEW r \in ProcRecord, NEW F \in SUBSET Flags
  PROVE  /\ Flagged(r, F) \in ProcRecord
         /\ Flagged(r, F).p_flags = F
         /\ Flagged(r, F).p_priority = r.p_priority
         /\ Flagged(r, F).p_callerq = r.p_callerq
         /\ Flagged(r, F).p_sendto = r.p_sendto
         /\ Flagged(r, F).p_getfrom = r.p_getfrom
         /\ Flagged(r, F).p_int_blocked = r.p_int_blocked
         /\ Flagged(r, F).p_pending = r.p_pending
         /\ Flagged(r, F).p_pendcount = r.p_pendcount
BY DEF ProcRecord, Flagged

(* What Stopped does: p has the flags F more and is not ready.             *)
StoppedTo(K, p, F, L) ==
  /\ L \in KernelStates /\ OthersSame(K, L)
  /\ L.proc = [K.proc EXCEPT ![p] = Flagged(K.proc[p], K.proc[p].p_flags \union F)]
  /\ QueuesExact(L)
  /\ ~LeadsTasks(K, p) => TasksStay(K, L)
  /\ Highest(K) \/ (K.proc[p].p_flags = {} /\ RunsInFront(K, p)) => Highest(L)

(* Stopped keeps the queues exact.                                         *)
LEMMA StoppedKeeps ==
  ASSUME NEW K \in KernelStates, QueuesExact(K), NEW p \in Procs,
         K.proc[p].p_priority # "NONE", NEW F \in SUBSET Flags, F # {}
  PROVE  StoppedTo(K, p, F, Stopped(K, p, F))
<1>1. PICK W : W = IF K.proc[p].p_flags = {} THEN unready(K, p) ELSE K
  OBVIOUS
<1>2. /\ \A q \in QueueNames : IsInjective(K.rdy[q])
      /\ \A q \in QueueNames : Range(K.rdy[q]) = ReadyOf(K, q)
  BY DEF QueuesExact
<1>3. /\ W \in KernelStates /\ W.proc = K.proc /\ OthersSame(K, W)
      /\ \A q \in QueueNames : IsInjective(W.rdy[q])
      /\ \A q \in QueueNames : Range(W.rdy[q]) = ReadyOf(K, q) \ {p}
      /\ ~LeadsTasks(K, p) => TasksStay(K, W)
      /\ Highest(K) \/ (K.proc[p].p_flags = {} /\ RunsInFront(K, p)) => Highest(W)
  <2>1. CASE K.proc[p].p_flags = {}
    <3>1. \A q \in QueueNames : q # K.proc[p].p_priority => p \notin ReadyOf(K, q)
      BY DEF ReadyOf
    <3>2. W = unready(K, p)
      BY <1>1, <2>1
    <3>3. Left(K, p, W)
      BY <1>2, <3>2, UnreadyKeeps DEF NoRepeat
    <3>4. \A q \in QueueNames : Range(W.rdy[q]) = ReadyOf(K, q) \ {p}
      BY <1>2, <3>1, <3>3 DEF Left
    <3> QED
      BY <2>1, <3>3, <3>4 DEF Left
  <2>2. CASE K.proc[p].p_flags # {}
    <3>1. W = K
      BY <1>1, <2>2
    <3>2. \A q \in QueueNames : p \notin ReadyOf(K, q)
      BY <2>2 DEF ReadyOf
    <3>3. OthersSame(K, K) /\ TasksStay(K, K)
      BY DEF OthersSame, TasksStay
    <3> QED
      BY <1>2, <2>2, <3>1, <3>2, <3>3
  <2> QED
    BY <2>1, <2>2
<1>4. PICK G \in SUBSET Flags : G = K.proc[p].p_flags \union F
  BY EntryTyped
<1>5. PICK r \in ProcRecord : r = Flagged(K.proc[p], G)
  BY EntryTyped, FlagsTyped
<1>6. r.p_flags = G /\ r.p_priority = K.proc[p].p_priority
  BY <1>5, EntryTyped, FlagsTyped
<1>7. PICK L : L = Stopped(K, p, F)
  OBVIOUS
<1>8. L = [W EXCEPT !.proc = [W.proc EXCEPT ![p] = r]]
  BY <1>1, <1>3, <1>4, <1>5, <1>7 DEF Stopped, Flagged, KernelStates
<1>9. Replaced(W, p, r, L)
  BY <1>3, <1>8, NewEntry
<1>10. /\ L \in KernelStates /\ L.proc = [K.proc EXCEPT ![p] = r]
       /\ L.proc[p] = r /\ \A x \in Procs \ {p} : L.proc[x] = K.proc[x]
       /\ L.rdy = W.rdy /\ L.proc_ptr = W.proc_ptr /\ OthersSame(W, L)
  BY <1>3, <1>9 DEF Replaced
<1>11. G # {}
  BY <1>4
<1>12. ASSUME NEW q \in QueueNames PROVE ReadyOf(L, q) = ReadyOf(K, q) \ {p}
  <2>1. ASSUME NEW x PROVE x \in ReadyOf(L, q) <=> x \in ReadyOf(K, q) /\ x # p
    <3>1. CASE x = p
      BY <1>6, <1>10, <1>11, <3>1 DEF ReadyOf
    <3>2. CASE x # p
      BY <1>10, <3>2 DEF ReadyOf
    <3> QED
      BY <3>1, <3>2
  <2> QED
    BY <2>1
<1>13. QueuesExact(L)
  BY <1>3, <1>10, <1>12 DEF QueuesExact
<1>14. TasksStay(K, W) => TasksStay(K, L)
  BY <1>10 DEF TasksStay
<1>15. Highest(W) => Highest(L)
  BY <1>3, <1>10, PickIs
<1>16. OthersSame(K, L)
  BY <1>3, <1>10 DEF OthersSame
<1>17. StoppedTo(K, p, F, L)
  BY <1>3, <1>4, <1>5, <1>10, <1>13, <1>14, <1>15, <1>16 DEF StoppedTo
<1> QED
  BY <1>7, <1>17

(* What Released does: p, that had flags, has those of F no more and is    *)
(* ready if none is left.                                                  *)
ReleasedTo(K, p, F, L) ==
  /\ L \in KernelStates /\ OthersSame(K, L)
  /\ L.proc = [K.proc EXCEPT ![p] = Flagged(K.proc[p], K.proc[p].p_flags \ F)]
  /\ QueuesExact(L) /\ TasksStay(K, L)
  /\ Highest(K) /\ (\/ K.proc[p].p_flags \ F # {}
                    \/ K.proc[p].p_priority = "TASK"
                    \/ K.rdy["TASK"] # <<>>
                    \/ K.rdy["SERVER"] # <<>>)
       => Highest(L)
  /\ K.proc[p].p_flags \ F = {} /\ K.proc[p].p_priority = "TASK" /\ K.rdy["TASK"] = <<>>
       => LeadsTasks(L, p)
  /\ K.proc[p].p_priority = "SERVER" => L.proc_ptr = K.proc_ptr /\ L.rdy["USER"] = K.rdy["USER"]

(* Released keeps the queues exact.                                        *)
LEMMA ReleasedKeeps ==
  ASSUME NEW K \in KernelStates, QueuesExact(K), NEW p \in Procs, p # HARDWARE,
         K.proc[p].p_priority # "NONE", K.proc[p].p_flags # {}, NEW F \in SUBSET Flags
  PROVE  ReleasedTo(K, p, F, Released(K, p, F))
<1>1. PICK G \in SUBSET Flags : G = K.proc[p].p_flags \ F
  BY EntryTyped
<1>2. PICK r \in ProcRecord : r = Flagged(K.proc[p], G)
  BY EntryTyped, FlagsTyped
<1>3. r.p_flags = G /\ r.p_priority = K.proc[p].p_priority
  BY <1>2, EntryTyped, FlagsTyped
<1>4. PICK W : W = [K EXCEPT !.proc = [K.proc EXCEPT ![p] = r]]
  OBVIOUS
<1>5. Replaced(K, p, r, W)
  BY <1>4, NewEntry
<1>6. /\ W \in KernelStates /\ W.proc = [K.proc EXCEPT ![p] = r]
      /\ W.proc[p] = r /\ \A x \in Procs \ {p} : W.proc[x] = K.proc[x]
      /\ W.rdy = K.rdy /\ W.proc_ptr = K.proc_ptr /\ OthersSame(K, W)
  BY <1>5 DEF Replaced
<1>7. PICK L : L = Released(K, p, F)
  OBVIOUS
<1>8. L = IF G = {} THEN ready(W, p) ELSE W
  <2>1. [K EXCEPT !.proc[p].p_flags = @ \ F] = W
    BY <1>1, <1>2, <1>4 DEF KernelStates, Flagged
  <2> QED
    BY <1>3, <1>6, <1>7, <2>1 DEF Released
<1>9. \A q \in QueueNames : IsInjective(K.rdy[q]) /\ Range(K.rdy[q]) = ReadyOf(K, q)
  BY DEF QueuesExact
<1>10. \A q \in QueueNames : p \notin ReadyOf(K, q)
  BY DEF ReadyOf
<1>11. Highest(K) => Highest(W)
  BY <1>6, PickIs
<1>12. TasksStay(K, W)
  BY <1>6 DEF TasksStay
<1>13. CASE G = {}
  <2>1. W.proc[p].p_priority = K.proc[p].p_priority
    BY <1>3, <1>6
  <2>2. NoRepeat(W) /\ \A q \in QueueNames : p \notin Range(W.rdy[q])
    BY <1>6, <1>9, <1>10 DEF NoRepeat
  <2>3. L = ready(W, p)
    BY <1>8, <1>13
  <2>4. Entered(W, p, L)
    BY <1>6, <2>1, <2>2, <2>3, ReadyKeeps
  <2>5. ASSUME NEW q \in QueueNames
        PROVE  ReadyOf(L, q) = IF q = K.proc[p].p_priority THEN ReadyOf(K, q) \union {p}
                               ELSE ReadyOf(K, q)
    <3>1. L.proc = W.proc
      BY <2>4 DEF Entered
    <3>2. ASSUME NEW x
          PROVE  x \in ReadyOf(L, q) <=>
                   x \in ReadyOf(K, q) \/ (x = p /\ q = K.proc[p].p_priority)
      <4>1. CASE x = p
        BY <1>3, <1>6, <1>10, <1>13, <3>1, <4>1 DEF ReadyOf
      <4>2. CASE x # p
        BY <1>6, <3>1, <4>2 DEF ReadyOf
      <4> QED
        BY <4>1, <4>2
    <3> QED
      BY <3>2
  <2>6. \A q \in QueueNames :
           /\ IsInjective(L.rdy[q])
           /\ Range(L.rdy[q]) = IF q = K.proc[p].p_priority THEN Range(K.rdy[q]) \union {p}
                                ELSE Range(K.rdy[q])
    BY <1>6, <2>1, <2>4 DEF Entered
  <2>7. QueuesExact(L)
    BY <1>9, <2>5, <2>6 DEF QueuesExact
  <2>8. OthersSame(K, L) /\ TasksStay(K, L) /\ L.proc = W.proc /\ L \in KernelStates
    BY <1>6, <2>4 DEF OthersSame, TasksStay, Entered
  <2>9. /\ Highest(K) /\ (\/ K.proc[p].p_priority = "TASK"
                          \/ K.rdy["TASK"] # <<>>
                          \/ K.rdy["SERVER"] # <<>>)
              => Highest(L)
        /\ K.proc[p].p_priority = "TASK" /\ K.rdy["TASK"] = <<>> => LeadsTasks(L, p)
        /\ K.proc[p].p_priority = "SERVER" =>
             L.proc_ptr = K.proc_ptr /\ L.rdy["USER"] = K.rdy["USER"]
    BY <1>6, <1>11, <2>1, <2>4 DEF Entered
  <2>10. ReleasedTo(K, p, F, L)
    BY <1>1, <1>2, <1>6, <1>13, <2>7, <2>8, <2>9 DEF ReleasedTo
  <2> QED
    BY <1>7, <2>10
<1>14. CASE G # {}
  <2>1. L = W
    BY <1>8, <1>14
  <2>2. /\ \A x \in Procs : W.proc[x].p_priority = K.proc[x].p_priority
        /\ \A x \in Procs : W.proc[x].p_flags = {} <=> K.proc[x].p_flags = {}
    BY <1>3, <1>6, <1>14
  <2>3. QueuesExact(W)
    BY <1>6, <2>2, QueuesSame
  <2>4. ReleasedTo(K, p, F, W)
    BY <1>1, <1>2, <1>6, <1>11, <1>12, <1>14, <2>3 DEF ReleasedTo
  <2> QED
    BY <1>7, <2>1, <2>4
<1> QED
  BY <1>13, <1>14

-----------------------------------------------------------------------------
(* What does not disturb a part of the invariant.                          *)

(* The counts depend on the marks of the signals only.                     *)
SameSignals(r, s) ==
  /\ r.p_priority = s.p_priority
  /\ r.p_pending = s.p_pending /\ r.p_pendcount = s.p_pendcount
  /\ "PENDING" \in r.p_flags <=> "PENDING" \in s.p_flags
  /\ "SIG_PENDING" \in r.p_flags <=> "SIG_PENDING" \in s.p_flags

(* Signals stay counted where no signal is touched.                        *)
LEMMA SignalsSame ==
  ASSUME NEW K, NEW L, SignalsKept(K), L.told = K.told, L.sig_procs = K.sig_procs,
         \A p \in Procs : SameSignals(L.proc[p], K.proc[p])
  PROVE  SignalsKept(L)
<1>1. PendingProcs(L) = PendingProcs(K)
  BY DEF PendingProcs, SameSignals
<1>2. ASSUME NEW u \in Users PROVE SignalsSound(L.proc[u], L.told[u])
  <2>1. u \in Procs
    BY ProcFacts
  <2> QED
    BY <2>1 DEF SignalsKept, SignalsSound, SameSignals
<1>3. \A p \in Procs \ Users : L.proc[p].p_pendcount = 0
  BY DEF SignalsKept, SameSignals
<1> QED
  BY <1>1, <1>2, <1>3 DEF SignalsKept

(* The queues of senders depend on who sends to whom.                      *)
SameSender(r, s) ==
  /\ r.p_callerq = s.p_callerq
  /\ Sending(r) <=> Sending(s)
  /\ Sending(r) => r.p_sendto = s.p_sendto

(* They stay exact where no sender comes or goes.                          *)
LEMMA SendersSame ==
  ASSUME NEW K, NEW L, SendersExact(K), \A p \in Procs : SameSender(L.proc[p], K.proc[p])
  PROVE  SendersExact(L)
<1>1. \A d \in Procs : SendersOf(L, d) = SendersOf(K, d)
  BY DEF SendersOf, SameSender
<1> QED
  BY <1>1 DEF SendersExact, SameSender

(* Whoever has a flag lives, and HARDWARE has none.                        *)
LEMMA FlaggedLives ==
  ASSUME NEW K, KernelKept(K), NEW p \in Procs, K.proc[p].p_flags # {}
  PROVE  K.proc[p].p_priority # "NONE" /\ p # HARDWARE
<1>1. Sound(p, K.proc[p])
  BY DEF KernelKept, EntriesSound
<1> QED
  BY <1>1, ProcFacts DEF Sound

(* One entry is replaced by one that sends and is signalled as it was.     *)
LEMMA KeptBut ==
  ASSUME NEW K, KernelKept(K), NEW p \in Procs, NEW r \in ProcRecord, NEW L \in KernelStates,
         L.proc = [K.proc EXCEPT ![p] = r], L.told = K.told, L.sig_procs = K.sig_procs,
         QueuesExact(L), Sound(p, r), SameSignals(r, K.proc[p]), SameSender(r, K.proc[p])
  PROVE  KernelKept(L)
<1>1. K.proc \in [Procs -> ProcRecord]
  BY DEF KernelKept, KernelStates
<1>2. L.proc[p] = r /\ \A x \in Procs \ {p} : L.proc[x] = K.proc[x]
  BY <1>1
<1>3. EntriesSound(L)
  BY <1>2 DEF KernelKept, EntriesSound
<1>4. \A x \in Procs : SameSignals(L.proc[x], K.proc[x])
  <2>1. \A x \in Procs : SameSignals(K.proc[x], K.proc[x])
    BY DEF SameSignals
  <2> QED
    BY <1>2, <2>1
<1>5. \A x \in Procs : SameSender(L.proc[x], K.proc[x])
  <2>1. \A x \in Procs : SameSender(K.proc[x], K.proc[x])
    BY DEF SameSender
  <2> QED
    BY <1>2, <2>1
<1>6. SignalsKept(L)
  BY <1>4, SignalsSame DEF KernelKept
<1>7. SendersExact(L)
  BY <1>5, SendersSame DEF KernelKept
<1> QED
  BY <1>3, <1>6, <1>7 DEF KernelKept

(* The table, the queues and the counts are as they were.                  *)
SameBut(K, L) ==
  /\ L \in KernelStates /\ L.proc = K.proc /\ L.rdy = K.rdy /\ L.proc_ptr = K.proc_ptr
  /\ L.sig_procs = K.sig_procs /\ L.told = K.told

(* The message of SYSTASK and the history are in no part of the invariant. *)
LEMMA KeptSame ==
  ASSUME NEW K, NEW L, SameBut(K, L)
  PROVE  /\ KernelKept(K) => KernelKept(L)
         /\ K \in KernelStates /\ Highest(K) => Highest(L)
         /\ MMHears(K) => MMHears(L)
         /\ TasksStay(K, L)
<1>1. PendingProcs(K) = PendingProcs(L)
  BY DEF PendingProcs, SameBut
<1>2. QueuesExact(K) => QueuesExact(L)
  BY DEF QueuesExact, ReadyOf, SameBut
<1>3. SendersExact(K) => SendersExact(L)
  BY DEF SendersExact, SendersOf, SameBut
<1>4. SignalsKept(K) => SignalsKept(L)
  BY <1>1 DEF SignalsKept, SameBut
<1>5. EntriesSound(K) => EntriesSound(L)
  BY DEF EntriesSound, SameBut
<1>6. KernelKept(K) => KernelKept(L)
  BY <1>2, <1>3, <1>4, <1>5 DEF KernelKept, SameBut
<1>7. K \in KernelStates /\ Highest(K) => Highest(L)
  BY PickIs DEF SameBut
<1>8. MMHears(K) => MMHears(L)
  BY DEF MMHears, SameBut
<1>9. TasksStay(K, L)
  BY DEF TasksStay, SameBut
<1> QED
  BY <1>6, <1>7, <1>8, <1>9

(* An entry without RECEIVING waits for nobody and is sound.               *)
LEMMA AwakeSound ==
  ASSUME NEW p \in Procs, NEW r \in ProcRecord, Sound(p, r), ~Sending(r)
  PROVE  Sound(p, Flagged(r, r.p_flags \ {"RECEIVING"}))
<1>1. r.p_flags \ {"RECEIVING"} \in SUBSET Flags
  BY DEF ProcRecord
<1>2. PICK s \in ProcRecord : s = Flagged(r, r.p_flags \ {"RECEIVING"})
  BY <1>1, FlagsTyped
<1>3. /\ s.p_flags = r.p_flags \ {"RECEIVING"} /\ s.p_priority = r.p_priority
      /\ s.p_callerq = r.p_callerq
  BY <1>1, <1>2, FlagsTyped
<1>4. ~Sending(s) /\ ~Receiving(s) /\ \A x : ~WaitsFor(s, x)
  BY <1>3 DEF Sending, Receiving, WaitsFor
<1>5. Sound(p, s)
  BY <1>3, <1>4 DEF Sound
<1> QED
  BY <1>2, <1>5

(* A process that waits is woken.                                          *)
LEMMA WakeKept ==
  ASSUME NEW K, KernelKept(K), NEW p \in Procs,
         Receiving(K.proc[p]), ~Sending(K.proc[p])
  PROVE  /\ KernelKept(Released(K, p, {"RECEIVING"}))
         /\ ReleasedTo(K, p, {"RECEIVING"}, Released(K, p, {"RECEIVING"}))
         /\ ~Receiving(Released(K, p, {"RECEIVING"}).proc[p])
<1>1. PICK L : L = Released(K, p, {"RECEIVING"})
  OBVIOUS
<1>2. K \in KernelStates /\ QueuesExact(K) /\ K.proc[p].p_flags # {}
  BY DEF KernelKept, Receiving
<1>3. K.proc[p].p_priority # "NONE" /\ p # HARDWARE
  BY <1>2, FlaggedLives
<1>4. {"RECEIVING"} \in SUBSET Flags
  BY DEF Flags
<1>5. ReleasedTo(K, p, {"RECEIVING"}, L)
  BY <1>1, <1>2, <1>3, <1>4, ReleasedKeeps
<1>6. K.proc[p] \in ProcRecord /\ K.proc \in [Procs -> ProcRecord]
      /\ K.proc[p].p_flags \ {"RECEIVING"} \in SUBSET Flags
  BY <1>2, EntryTyped
<1>7. PICK r \in ProcRecord : r = Flagged(K.proc[p], K.proc[p].p_flags \ {"RECEIVING"})
  BY <1>6, FlagsTyped
<1>8. /\ r.p_flags = K.proc[p].p_flags \ {"RECEIVING"}
      /\ r.p_priority = K.proc[p].p_priority /\ r.p_callerq = K.proc[p].p_callerq
      /\ r.p_sendto = K.proc[p].p_sendto /\ r.p_pending = K.proc[p].p_pending
      /\ r.p_pendcount = K.proc[p].p_pendcount
  BY <1>6, <1>7, FlagsTyped
<1>9. Sound(p, r)
  BY <1>6, <1>7, AwakeSound DEF KernelKept, EntriesSound
<1>10. SameSignals(r, K.proc[p]) /\ SameSender(r, K.proc[p])
  BY <1>8 DEF SameSignals, SameSender, Sending
<1>11. /\ L \in KernelStates /\ L.told = K.told /\ L.sig_procs = K.sig_procs /\ QueuesExact(L)
       /\ L.proc = [K.proc EXCEPT ![p] = r]
  BY <1>5, <1>7 DEF ReleasedTo, OthersSame
<1>12. KernelKept(L)
  BY <1>9, <1>10, <1>11, KeptBut
<1>13. ~Receiving(L.proc[p])
  BY <1>6, <1>8, <1>11 DEF Receiving
<1> QED
  BY <1>1, <1>5, <1>12, <1>13

-----------------------------------------------------------------------------
(* mini_send.                                                              *)

(* L is K with c at the end of the queue of d, with the flags F.           *)
SameRest(r, s) ==
  /\ r.p_priority = s.p_priority /\ r.p_int_blocked = s.p_int_blocked
  /\ r.p_pending = s.p_pending /\ r.p_pendcount = s.p_pendcount

QueuedTo(K, c, d, F, L) ==
  /\ L \in KernelStates /\ OthersSame(K, L) /\ QueuesExact(L)
  /\ SameRest(L.proc[c], K.proc[c]) /\ L.proc[c].p_callerq = K.proc[c].p_callerq
  /\ L.proc[c].p_flags = F /\ L.proc[c].p_sendto = d
  /\ "RECEIVING" \in F => L.proc[c].p_getfrom = d
  /\ SameRest(L.proc[d], K.proc[d])
  /\ L.proc[d].p_callerq = Append(K.proc[d].p_callerq, c)
  /\ L.proc[d].p_flags = K.proc[d].p_flags /\ L.proc[d].p_sendto = K.proc[d].p_sendto
  /\ L.proc[d].p_getfrom = K.proc[d].p_getfrom
  /\ \A x \in Procs \ {c, d} : L.proc[x] = K.proc[x]
  /\ Highest(K) => Highest(L)
  /\ ~LeadsTasks(K, c) => TasksStay(K, L)

(* c may wait at d: a user until it is answered, as does whoever asks      *)
(* SYSTASK, and d is not waiting for c.                                    *)
MayQueue(K, c, d, F) ==
  /\ c \in Procs \ {HARDWARE} /\ d \in (Tasks \union Servers) \ {HARDWARE} /\ c # d
  /\ F \in {{"SENDING"}, {"SENDING", "RECEIVING"}}
  /\ K.proc[c].p_flags = {} /\ K.proc[c].p_priority # "NONE"
  /\ ~WaitsFor(K.proc[d], c)
  /\ c \in Users => "RECEIVING" \in F /\ d \in Servers
  /\ d = SYSTASK => "RECEIVING" \in F /\ c \in Servers

(* c is blocked in mini_send.                                              *)
LEMMA SendBlocks ==
  ASSUME NEW K \in KernelStates, QueuesExact(K), NEW c \in Procs, NEW d \in Procs, c # d,
         K.proc[c].p_priority # "NONE", K.proc[c].p_flags = {}, ~Accepts(K, d, c)
  PROVE  QueuedTo(K, c, d, {"SENDING"}, mini_send(K, c, d))
<1> DEFINE S == Stopped(K, c, {"SENDING"})
           L == mini_send(K, c, d)
<1>1. {"SENDING"} \in SUBSET Flags
  BY DEF Flags
<1>2. StoppedTo(K, c, {"SENDING"}, S)
  BY <1>1, StoppedKeeps
<1>3. L = [S EXCEPT !.proc[c].p_sendto = d, !.proc[d].p_callerq = Append(@, c)]
  BY DEF mini_send
<1> HIDE DEF S, L
<1>4. /\ S \in KernelStates /\ OthersSame(K, S) /\ QueuesExact(S)
      /\ S.proc = [K.proc EXCEPT ![c] = Flagged(K.proc[c], {"SENDING"})]
      /\ Highest(K) => Highest(S)
      /\ ~LeadsTasks(K, c) => TasksStay(K, S)
  BY <1>2 DEF StoppedTo
<1>5. /\ K.proc[c] \in ProcRecord /\ K.proc[d] \in ProcRecord /\ K.proc \in [Procs -> ProcRecord]
      /\ K.proc[d].p_callerq \in Seq(Procs)
  BY EntryTyped
<1>6. PICK f \in ProcRecord : f = Flagged(K.proc[c], {"SENDING"})
  BY <1>1, <1>5, FlagsTyped
<1>7. /\ f.p_flags = {"SENDING"} /\ SameRest(f, K.proc[c]) /\ f.p_callerq = K.proc[c].p_callerq
  BY <1>1, <1>5, <1>6, FlagsTyped DEF SameRest
<1>8. S.proc[c] = f /\ \A x \in Procs \ {c} : S.proc[x] = K.proc[x]
  BY <1>4, <1>5, <1>6
<1>9. PICK r \in ProcRecord : r = [f EXCEPT !.p_sendto = d]
  BY DEF ProcRecord
<1>10. /\ r.p_flags = {"SENDING"} /\ SameRest(r, K.proc[c]) /\ r.p_callerq = K.proc[c].p_callerq
       /\ r.p_sendto = d
  BY <1>7, <1>9 DEF SameRest, ProcRecord
<1>11. Append(K.proc[d].p_callerq, c) \in Seq(Procs)
  BY <1>5
<1>12. PICK q \in ProcRecord : q = [K.proc[d] EXCEPT !.p_callerq = Append(K.proc[d].p_callerq, c)]
  BY <1>5, <1>11 DEF ProcRecord
<1>13. /\ SameRest(q, K.proc[d]) /\ q.p_callerq = Append(K.proc[d].p_callerq, c)
       /\ q.p_flags = K.proc[d].p_flags /\ q.p_sendto = K.proc[d].p_sendto
       /\ q.p_getfrom = K.proc[d].p_getfrom
  BY <1>5, <1>12 DEF SameRest, ProcRecord
<1>14. PICK W : W = [S EXCEPT !.proc = [S.proc EXCEPT ![c] = r]]
  OBVIOUS
<1>15. Replaced(S, c, r, W)
  BY <1>4, <1>14, NewEntry
<1>16. /\ W \in KernelStates /\ W.proc[c] = r /\ W.rdy = S.rdy /\ W.proc_ptr = S.proc_ptr
       /\ OthersSame(S, W) /\ W.proc = [S.proc EXCEPT ![c] = r]
       /\ \A x \in Procs \ {c} : W.proc[x] = K.proc[x]
  BY <1>8, <1>15 DEF Replaced
<1>17. L = [W EXCEPT !.proc = [W.proc EXCEPT ![d] = q]]
  <2>1. S.proc \in [Procs -> ProcRecord]
    BY <1>4 DEF KernelStates
  <2>2. L = [S EXCEPT !.proc = [[S.proc EXCEPT ![c].p_sendto = d]
                                  EXCEPT ![d].p_callerq = Append(@, c)]]
    BY <1>3, <1>4 DEF KernelStates
  <2>3. [S.proc EXCEPT ![c].p_sendto = d] = W.proc
    BY <1>8, <1>9, <1>16, <2>1
  <2>4. L = [S EXCEPT !.proc = [W.proc EXCEPT ![d].p_callerq = Append(@, c)]]
    BY <2>2, <2>3
  <2>5. [W.proc EXCEPT ![d].p_callerq = Append(@, c)] = [W.proc EXCEPT ![d] = q]
    BY <1>12, <1>16
  <2> QED
    BY <1>4, <1>14, <2>4, <2>5 DEF KernelStates
<1>18. Replaced(W, d, q, L)
  BY <1>16, <1>17, NewEntry
<1>19. /\ L \in KernelStates /\ L.proc[d] = q /\ L.proc[c] = r
       /\ \A x \in Procs \ {c, d} : L.proc[x] = K.proc[x]
       /\ L.rdy = S.rdy /\ L.proc_ptr = S.proc_ptr /\ OthersSame(K, L)
  BY <1>4, <1>16, <1>18 DEF Replaced, OthersSame
<1>20. QueuesExact(L)
  <2>1. \A x \in Procs : L.proc[x].p_priority = S.proc[x].p_priority
    BY <1>7, <1>8, <1>10, <1>13, <1>19 DEF SameRest
  <2>2. \A x \in Procs : L.proc[x].p_flags = S.proc[x].p_flags
    <3>1. L.proc[c].p_flags = S.proc[c].p_flags
      BY <1>7, <1>8, <1>10, <1>19
    <3>2. L.proc[d].p_flags = S.proc[d].p_flags
      BY <1>8, <1>13, <1>19
    <3>3. \A x \in Procs \ {c, d} : L.proc[x] = S.proc[x]
      BY <1>8, <1>19
    <3> QED
      BY <3>1, <3>2, <3>3
  <2> QED
    BY <1>4, <1>19, <2>1, <2>2, QueuesSame
<1>21. Highest(K) => Highest(L)
  BY <1>4, <1>19, PickIs
<1>22. TasksStay(K, S) => TasksStay(K, L)
  BY <1>19 DEF TasksStay
<1>23. QueuedTo(K, c, d, {"SENDING"}, L)
  BY <1>4, <1>10, <1>13, <1>19, <1>20, <1>21, <1>22 DEF QueuedTo
<1> QED
  BY <1>23 DEF L

(* Whoever is queued so waits as it may, and nothing else changes.         *)
LEMMA QueuedKept ==
  ASSUME NEW K, KernelKept(K), NEW c, NEW d, NEW F, MayQueue(K, c, d, F),
         NEW L, QueuedTo(K, c, d, F, L)
  PROVE  KernelKept(L) /\ (MMHears(K) => MMHears(L))
<1>1. /\ c \in Procs /\ d \in Procs /\ c # d /\ c # HARDWARE /\ d # HARDWARE /\ d \notin Users
      /\ K \in KernelStates /\ L \in KernelStates /\ "SENDING" \in F
      /\ F \subseteq {"SENDING", "RECEIVING"}
  BY ProcFacts DEF MayQueue, QueuedTo, KernelKept
<1>2. PICK r \in ProcRecord, q \in ProcRecord : r = L.proc[c] /\ q = L.proc[d]
  BY <1>1, EntryTyped
<1>3. PICK r0 \in ProcRecord, q0 \in ProcRecord : r0 = K.proc[c] /\ q0 = K.proc[d]
  BY <1>1, EntryTyped
<1>4. /\ SameRest(r, r0) /\ r.p_callerq = r0.p_callerq /\ r.p_flags = F /\ r.p_sendto = d
      /\ "RECEIVING" \in F => r.p_getfrom = d
      /\ SameRest(q, q0) /\ q.p_callerq = Append(q0.p_callerq, c)
      /\ q.p_flags = q0.p_flags /\ q.p_sendto = q0.p_sendto /\ q.p_getfrom = q0.p_getfrom
      /\ \A x \in Procs \ {c, d} : L.proc[x] = K.proc[x]
  BY <1>2, <1>3 DEF QueuedTo
<1>5. r0.p_flags = {} /\ r0.p_priority # "NONE" /\ ~WaitsFor(q0, c)
  BY <1>3 DEF MayQueue
<1>6. Sound(c, r0) /\ Sound(d, q0)
  BY <1>1, <1>3 DEF KernelKept, EntriesSound
<1>7. Range(q0.p_callerq) = SendersOf(K, d) /\ IsInjective(q0.p_callerq)
      /\ q0.p_callerq \in Seq(Procs)
  BY <1>1, <1>3, EntryTyped DEF KernelKept, SendersExact
<1>8. c \notin SendersOf(K, d)
  BY <1>3, <1>5 DEF SendersOf, Sending
<1>9. IsInjective(q.p_callerq) /\ Range(q.p_callerq) = SendersOf(K, d) \union {c}
  BY <1>1, <1>4, <1>7, <1>8, AppendFacts
<1>10. Sending(r) /\ (Receiving(r) <=> "RECEIVING" \in F) /\ \A x : ~WaitsFor(r, x)
  BY <1>1, <1>4 DEF Sending, Receiving, WaitsFor
<1>11. Sound(c, r)
  <2>1. /\ r.p_priority \in (IF c \in Tasks THEN {"TASK"}
                             ELSE IF c \in Servers THEN {"SERVER"} ELSE {"NONE", "USER"})
        /\ r.p_flags \subseteq {"SENDING", "RECEIVING"}
    BY <1>1, <1>4, <1>6 DEF Sound, SameRest
  <2>2. ASSUME c \in Users
        PROVE  /\ r.p_callerq = <<>> /\ Receiving(r) /\ r.p_getfrom \in Servers
               /\ r.p_priority # "NONE"
    BY <1>4, <1>5, <1>6, <1>10, <2>2 DEF MayQueue, Sound, SameRest
  <2>3. /\ r.p_sendto \in (Tasks \union Servers) \ {HARDWARE}
        /\ Receiving(r) => r.p_getfrom = r.p_sendto
        /\ r.p_sendto = SYSTASK => c \in Servers /\ Receiving(r)
    BY <1>4, <1>10 DEF MayQueue
  <2>4. Receiving(r) => r.p_getfrom # HARDWARE
    BY <1>1, <1>4, <1>10
  <2> QED
    BY <1>1, <1>10, <2>1, <2>2, <2>3, <2>4 DEF Sound
<1>12. /\ Sending(q) <=> Sending(q0)
       /\ Receiving(q) <=> Receiving(q0)
       /\ \A x : WaitsFor(q, x) <=> WaitsFor(q0, x)
  BY <1>4 DEF Sending, Receiving, WaitsFor
<1>13. Sound(d, q)
  <2>1. \A s \in Range(q.p_callerq) : ~WaitsFor(q, s)
    BY <1>5, <1>6, <1>7, <1>9, <1>12 DEF Sound
  <2> QED
    BY <1>1, <1>4, <1>6, <1>12, <2>1 DEF Sound, SameRest
<1>14. EntriesSound(L)
  BY <1>2, <1>4, <1>11, <1>13 DEF KernelKept, EntriesSound
<1>15. SignalsKept(L)
  <2>1. SameSignals(r, r0)
    BY <1>1, <1>4, <1>5 DEF SameSignals, SameRest
  <2>2. SameSignals(q, q0)
    BY <1>4 DEF SameSignals, SameRest
  <2>3. \A x \in Procs \ {c, d} : SameSignals(L.proc[x], K.proc[x])
    BY <1>4 DEF SameSignals
  <2>4. \A x \in Procs : SameSignals(L.proc[x], K.proc[x])
    BY <1>2, <1>3, <2>1, <2>2, <2>3
  <2> QED
    BY <2>4, SignalsSame DEF KernelKept, QueuedTo, OthersSame
<1>16. SendersExact(L)
  <2>1. ASSUME NEW x \in Procs
        PROVE  SendersOf(L, x) = IF x = d THEN SendersOf(K, d) \union {c} ELSE SendersOf(K, x)
    <3>1. ASSUME NEW s \in Procs
          PROVE  s \in SendersOf(L, x) <=> s \in SendersOf(K, x) \/ (x = d /\ s = c)
      <4>1. CASE s = c
        BY <1>2, <1>3, <1>4, <1>5, <1>10, <4>1 DEF SendersOf, Sending
      <4>2. CASE s = d
        BY <1>1, <1>2, <1>3, <1>4, <1>12, <4>2 DEF SendersOf
      <4>3. CASE s # c /\ s # d
        BY <1>4, <4>3 DEF SendersOf
      <4> QED
        BY <4>1, <4>2, <4>3
    <3>2. SendersOf(L, x) \subseteq Procs /\ SendersOf(K, x) \subseteq Procs
      BY DEF SendersOf
    <3> QED
      BY <1>1, <3>1, <3>2
  <2>2. ASSUME NEW x \in Procs
        PROVE  Range(L.proc[x].p_callerq) = SendersOf(L, x) /\ IsInjective(L.proc[x].p_callerq)
    <3>1. CASE x = d
      BY <1>2, <1>9, <2>1, <3>1
    <3>2. CASE x # d
      <4>1. L.proc[x].p_callerq = K.proc[x].p_callerq
        BY <1>2, <1>3, <1>4, <3>2
      <4> QED
        BY <2>1, <3>2, <4>1 DEF KernelKept, SendersExact
    <3> QED
      BY <3>1, <3>2
  <2> QED
    BY <2>2 DEF SendersExact
<1>17. QueuesExact(L)
  BY DEF QueuedTo
<1>18. MMHears(K) => MMHears(L)
  <2>1. L.sig_procs = K.sig_procs
    BY DEF QueuedTo, OthersSame
  <2>2. MM_PROC_NR \in Procs
    BY ProcFacts
  <2>3. WaitsFor(L.proc[MM_PROC_NR], HARDWARE) => WaitsFor(K.proc[MM_PROC_NR], HARDWARE)
    BY <1>2, <1>3, <1>4, <1>10, <1>12, <2>2
  <2> QED
    BY <2>1, <2>3 DEF MMHears
<1> QED
  BY <1>1, <1>14, <1>15, <1>16, <1>17, <1>18 DEF KernelKept

-----------------------------------------------------------------------------
(* mini_rec.                                                               *)

(* The first of a ready queue is ready.                                    *)
LEMMA HeadReady ==
  ASSUME NEW K \in KernelStates, QueuesExact(K), NEW q \in QueueNames, K.rdy[q] # <<>>
  PROVE  Head(K.rdy[q]) \in ReadyOf(K, q)
<1>1. PICK s \in Seq(Procs) : s = K.rdy[q]
  BY DEF KernelStates
<1>2. s # <<>>
  BY <1>1
<1>3. 1 \in DOMAIN s /\ Head(s) = s[1]
  BY <1>2, EmptySeq, LenProperties, HeadTailProperties
<1>4. Head(s) \in Range(s)
  BY <1>3 DEF Range
<1> QED
  BY <1>1, <1>4 DEF QueuesExact

(* L is K with c waiting for src.                                          *)
PausedTo(K, c, src, L) ==
  /\ L \in KernelStates /\ OthersSame(K, L) /\ QueuesExact(L)
  /\ L.proc = [K.proc EXCEPT ![c] = L.proc[c]]
  /\ SameRest(L.proc[c], K.proc[c])
  /\ L.proc[c].p_callerq = K.proc[c].p_callerq /\ L.proc[c].p_sendto = K.proc[c].p_sendto
  /\ L.proc[c].p_flags = K.proc[c].p_flags \union {"RECEIVING"}
  /\ L.proc[c].p_getfrom = src
  /\ Highest(K) \/ (K.proc[c].p_flags = {} /\ RunsInFront(K, c)) => Highest(L)
  /\ ~LeadsTasks(K, c) => TasksStay(K, L)

Paused(K, c, src) == [Stopped(K, c, {"RECEIVING"}) EXCEPT !.proc[c].p_getfrom = src]

(* c is blocked in mini_rec.                                               *)
LEMMA ReceiveBlocks ==
  ASSUME NEW K \in KernelStates, QueuesExact(K), NEW c \in Procs,
         K.proc[c].p_priority # "NONE", NEW src \in Procs \union {ANY}
  PROVE  PausedTo(K, c, src, Paused(K, c, src))
<1> DEFINE S == Stopped(K, c, {"RECEIVING"})
           L == Paused(K, c, src)
<1>1. {"RECEIVING"} \in SUBSET Flags
  BY DEF Flags
<1>2. StoppedTo(K, c, {"RECEIVING"}, S)
  BY <1>1, StoppedKeeps
<1>3. L = [S EXCEPT !.proc[c].p_getfrom = src]
  BY DEF Paused
<1> HIDE DEF S, L
<1>4. PICK G \in SUBSET Flags : G = K.proc[c].p_flags \union {"RECEIVING"}
  BY <1>1, EntryTyped
<1>5. /\ S \in KernelStates /\ OthersSame(K, S) /\ QueuesExact(S)
      /\ S.proc = [K.proc EXCEPT ![c] = Flagged(K.proc[c], G)]
      /\ Highest(K) \/ (K.proc[c].p_flags = {} /\ RunsInFront(K, c)) => Highest(S)
      /\ ~LeadsTasks(K, c) => TasksStay(K, S)
  BY <1>2, <1>4 DEF StoppedTo
<1>6. K.proc[c] \in ProcRecord /\ K.proc \in [Procs -> ProcRecord]
  BY EntryTyped
<1>7. PICK f \in ProcRecord : f = Flagged(K.proc[c], G)
  BY <1>6, FlagsTyped
<1>8. /\ f.p_flags = G /\ SameRest(f, K.proc[c]) /\ f.p_callerq = K.proc[c].p_callerq
      /\ f.p_sendto = K.proc[c].p_sendto
  BY <1>6, <1>7, FlagsTyped DEF SameRest
<1>9. S.proc[c] = f /\ S.proc = [K.proc EXCEPT ![c] = f]
  BY <1>5, <1>6, <1>7
<1>10. PICK r \in ProcRecord : r = [f EXCEPT !.p_getfrom = src]
  BY DEF ProcRecord
<1>11. /\ r.p_flags = G /\ SameRest(r, K.proc[c]) /\ r.p_callerq = K.proc[c].p_callerq
       /\ r.p_sendto = K.proc[c].p_sendto /\ r.p_getfrom = src
       /\ r.p_priority = f.p_priority
  BY <1>8, <1>10 DEF SameRest, ProcRecord
<1>12. L = [S EXCEPT !.proc = [S.proc EXCEPT ![c] = r]]
  BY <1>3, <1>5, <1>9, <1>10 DEF KernelStates
<1>13. Replaced(S, c, r, L)
  BY <1>5, <1>12, NewEntry
<1>14. /\ L \in KernelStates /\ L.proc = [S.proc EXCEPT ![c] = r] /\ L.proc[c] = r
       /\ L.rdy = S.rdy /\ L.proc_ptr = S.proc_ptr /\ OthersSame(S, L)
       /\ \A x \in Procs \ {c} : L.proc[x] = S.proc[x]
  BY <1>13 DEF Replaced
<1>15. L.proc = [K.proc EXCEPT ![c] = L.proc[c]]
  BY <1>6, <1>9, <1>14
<1>16. QueuesExact(L)
  <2>1. \A x \in Procs : L.proc[x].p_priority = S.proc[x].p_priority
    BY <1>9, <1>11, <1>14
  <2>2. \A x \in Procs : L.proc[x].p_flags = {} <=> S.proc[x].p_flags = {}
    BY <1>8, <1>9, <1>11, <1>14
  <2> QED
    BY <1>5, <1>14, <2>1, <2>2, QueuesSame
<1>17. Highest(S) => Highest(L)
  BY <1>5, <1>14, PickIs
<1>18. TasksStay(K, S) => TasksStay(K, L)
  BY <1>14 DEF TasksStay
<1>19. OthersSame(K, L)
  BY <1>5, <1>14 DEF OthersSame
<1>20. PausedTo(K, c, src, L)
  BY <1>4, <1>5, <1>11, <1>14, <1>15, <1>16, <1>17, <1>18, <1>19 DEF PausedTo
<1> QED
  BY <1>20 DEF L

(* c sends to d and waits for the answer, but is blocked in mini_send.     *)
LEMMA BothBlocks ==
  ASSUME NEW K \in KernelStates, QueuesExact(K), NEW c \in Procs, NEW d \in Procs, c # d,
         K.proc[c].p_priority # "NONE", K.proc[c].p_flags = {}, ~Accepts(K, d, c)
  PROVE  QueuedTo(K, c, d, {"SENDING", "RECEIVING"}, mini_rec(mini_send(K, c, d), c, d))
<1>1. PICK M : M = mini_send(K, c, d)
  OBVIOUS
<1>2. QueuedTo(K, c, d, {"SENDING"}, M)
  BY <1>1, SendBlocks
<1>3. /\ M \in KernelStates /\ OthersSame(K, M) /\ QueuesExact(M)
      /\ SameRest(M.proc[c], K.proc[c]) /\ M.proc[c].p_callerq = K.proc[c].p_callerq
      /\ M.proc[c].p_flags = {"SENDING"} /\ M.proc[c].p_sendto = d
      /\ SameRest(M.proc[d], K.proc[d])
      /\ M.proc[d].p_callerq = Append(K.proc[d].p_callerq, c)
      /\ M.proc[d].p_flags = K.proc[d].p_flags /\ M.proc[d].p_sendto = K.proc[d].p_sendto
      /\ M.proc[d].p_getfrom = K.proc[d].p_getfrom
      /\ \A x \in Procs \ {c, d} : M.proc[x] = K.proc[x]
      /\ Highest(K) => Highest(M)
      /\ ~LeadsTasks(K, c) => TasksStay(K, M)
  BY <1>2 DEF QueuedTo
<1>4. PICK L : L = mini_rec(M, c, d)
  OBVIOUS
<1>5. d # ANY /\ d \in Procs \union {ANY}
  BY ProcFacts
<1>6. L = Paused(M, c, d)
  BY <1>3, <1>4, <1>5 DEF mini_rec, BlockReceiver, TellNow, Paused
<1>7. PausedTo(M, c, d, L)
  BY <1>3, <1>5, <1>6, ReceiveBlocks DEF SameRest
<1>8. /\ L \in KernelStates /\ OthersSame(M, L) /\ QueuesExact(L)
      /\ L.proc = [M.proc EXCEPT ![c] = L.proc[c]]
      /\ SameRest(L.proc[c], M.proc[c])
      /\ L.proc[c].p_callerq = M.proc[c].p_callerq /\ L.proc[c].p_sendto = M.proc[c].p_sendto
      /\ L.proc[c].p_flags = M.proc[c].p_flags \union {"RECEIVING"}
      /\ L.proc[c].p_getfrom = d
      /\ Highest(M) => Highest(L)
      /\ ~LeadsTasks(M, c) => TasksStay(M, L)
  BY <1>7 DEF PausedTo
<1>9. \A x \in Procs \ {c} : L.proc[x] = M.proc[x]
  <2>1. M.proc \in [Procs -> ProcRecord]
    BY <1>3 DEF KernelStates
  <2> QED
    BY <1>8, <2>1
<1>10. ~LeadsTasks(M, c)
  <2>1. \A q : c \notin ReadyOf(M, q)
    BY <1>3 DEF ReadyOf
  <2>2. "TASK" \in QueueNames
    BY DEF QueueNames
  <2> QED
    BY <1>3, <2>1, <2>2, HeadReady DEF LeadsTasks
<1>11. ~LeadsTasks(K, c) => TasksStay(K, L)
  BY <1>3, <1>8, <1>10 DEF TasksStay
<1>12. OthersSame(K, L) /\ SameRest(L.proc[c], K.proc[c])
  BY <1>3, <1>8 DEF OthersSame, SameRest
<1>13. L.proc[d] = M.proc[d] /\ \A x \in Procs \ {c, d} : L.proc[x] = K.proc[x]
  BY <1>3, <1>9
<1>14. L.proc[c].p_flags = {"SENDING", "RECEIVING"}
  BY <1>3, <1>8
<1>15. QueuedTo(K, c, d, {"SENDING", "RECEIVING"}, L)
  BY <1>3, <1>8, <1>11, <1>12, <1>13, <1>14 DEF QueuedTo
<1> QED
  BY <1>1, <1>4, <1>15

(* c may wait for src: there is no message of src and no interrupt for it. *)
MayPause(K, c, src) ==
  /\ c \in Procs \ {HARDWARE} /\ K.proc[c].p_flags = {} /\ K.proc[c].p_priority # "NONE"
  /\ src \in Procs \union {ANY}
  /\ c \in Users => src \in Servers
  /\ c = MM_PROC_NR => src # HARDWARE
  /\ \A s \in Range(K.proc[c].p_callerq) : src \notin {ANY, s}
  /\ src \in {ANY, HARDWARE} => ~K.proc[c].p_int_blocked

(* Whoever waits so waits as it may.                                       *)
LEMMA PausedKept ==
  ASSUME NEW K, KernelKept(K), NEW c, NEW src, MayPause(K, c, src),
         NEW L, PausedTo(K, c, src, L)
  PROVE  /\ KernelKept(L)
         /\ MMHears(K) /\ (c = MM_PROC_NR /\ src = ANY => K.sig_procs = 0) => MMHears(L)
         /\ L.proc[c].p_flags = {"RECEIVING"}
<1>1. /\ c \in Procs /\ c # HARDWARE /\ K \in KernelStates /\ L \in KernelStates
      /\ K.proc[c].p_flags = {} /\ K.proc[c].p_priority # "NONE"
  BY DEF MayPause, PausedTo, KernelKept
<1>2. PICK r \in ProcRecord, r0 \in ProcRecord : r = L.proc[c] /\ r0 = K.proc[c]
  BY <1>1, EntryTyped
<1>3. /\ SameRest(r, r0) /\ r.p_callerq = r0.p_callerq /\ r.p_sendto = r0.p_sendto
      /\ r.p_flags = {"RECEIVING"} /\ r.p_getfrom = src
      /\ L.proc = [K.proc EXCEPT ![c] = r] /\ QueuesExact(L) /\ OthersSame(K, L)
  BY <1>1, <1>2 DEF PausedTo
<1>4. Sound(c, r0)
  BY <1>1, <1>2 DEF KernelKept, EntriesSound
<1>5. ~Sending(r) /\ Receiving(r) /\ \A x : WaitsFor(r, x) <=> src \in {ANY, x}
  BY <1>3 DEF Sending, Receiving, WaitsFor
<1>6. Sound(c, r)
  <2>1. /\ r.p_priority \in (IF c \in Tasks THEN {"TASK"}
                             ELSE IF c \in Servers THEN {"SERVER"} ELSE {"NONE", "USER"})
        /\ r.p_flags \subseteq {"SENDING", "RECEIVING"}
        /\ c \in Users => r.p_callerq = <<>> /\ r.p_getfrom \in Servers /\ r.p_priority # "NONE"
    BY <1>1, <1>2, <1>3, <1>4 DEF Sound, SameRest, MayPause
  <2>2. \A s \in Range(r.p_callerq) : ~WaitsFor(r, s)
    BY <1>2, <1>3, <1>5 DEF MayPause
  <2>3. WaitsFor(r, HARDWARE) => ~r.p_int_blocked
    BY <1>2, <1>3, <1>5 DEF MayPause, SameRest
  <2>4. c = MM_PROC_NR => r.p_getfrom # HARDWARE
    BY <1>3 DEF MayPause
  <2> QED
    BY <1>1, <1>5, <2>1, <2>2, <2>3, <2>4 DEF Sound
<1>7. SameSignals(r, r0) /\ SameSender(r, r0)
  BY <1>1, <1>2, <1>3, <1>5 DEF SameSignals, SameSender, SameRest, Sending
<1>8. KernelKept(L)
  BY <1>1, <1>2, <1>3, <1>6, <1>7, KeptBut DEF OthersSame
<1>9. ASSUME MMHears(K), c = MM_PROC_NR /\ src = ANY => K.sig_procs = 0
      PROVE  MMHears(L)
  <2>1. CASE c = MM_PROC_NR
    <3>1. WaitsFor(L.proc[c], HARDWARE) => src = ANY
      BY <1>2, <1>5, <2>1 DEF MayPause
    <3> QED
      BY <1>3, <1>9, <2>1, <3>1 DEF MMHears, OthersSame
  <2>2. CASE c # MM_PROC_NR
    <3>1. L.proc[MM_PROC_NR] = K.proc[MM_PROC_NR]
      BY <1>1, <1>3, <2>2, EntryTyped, ProcFacts
    <3> QED
      BY <1>3, <1>9, <3>1 DEF MMHears, OthersSame
  <2> QED
    BY <2>1, <2>2
<1> QED
  BY <1>2, <1>3, <1>8, <1>9

-----------------------------------------------------------------------------
(* A message that is awaited, and the answer.                              *)

(* r sends only what s was sending.                                        *)
SendsAs(r, s) == Sending(r) => Sending(s) /\ r.p_sendto = s.p_sendto

(* Nobody starts to send.                                                  *)
NobodyStarts(K, L) == \A p \in Procs : SendsAs(L.proc[p], K.proc[p])

(* The only one that may have started to send is c, to d.                  *)
SentBy(K, c, d, L) ==
  /\ \A p \in Procs \ {c} : SendsAs(L.proc[p], K.proc[p])
  /\ Sending(L.proc[c]) => L.proc[c].p_sendto = d

(* No interrupt that is due loses its mark in the table.                   *)
DueKept(K, L) ==
  \A t \in L.due : t \in K.due /\ (K.proc[t].p_int_blocked => L.proc[t].p_int_blocked)

(* L is K with d woken by a message of c.                                  *)
WokenTo(K, c, d, L) ==
  /\ KernelKept(L) /\ (MMHears(K) => MMHears(L))
  /\ L.proc = [K.proc EXCEPT ![d] = L.proc[d]] /\ SameRest(L.proc[d], K.proc[d])
  /\ ~Sending(L.proc[d]) /\ ~Receiving(L.proc[d])
  /\ L.sig_procs = K.sig_procs /\ L.told = K.told /\ L.due = K.due
  /\ L.m = CopyMess(K, c, d).m
  /\ TasksStay(K, L)
  /\ Highest(K) /\ (K.rdy["TASK"] # <<>> \/ K.rdy["SERVER"] # <<>>) => Highest(L)
  /\ K.rdy["TASK"] = <<>> /\ d = SYSTASK => LeadsTasks(L, d)
  /\ d \in Servers => L.proc_ptr = K.proc_ptr /\ L.rdy["USER"] = K.rdy["USER"]

(* CopyMess leaves all but m alone.                                        *)
LEMMA CopyKeeps ==
  ASSUME NEW K \in KernelStates, NEW c \in Procs, NEW d \in Procs
  PROVE  SameBut(K, CopyMess(K, c, d)) /\ CopyMess(K, c, d).due = K.due
<1>1. K.m \in [source : Procs \union {NIL}, body : {"free", "request", "read", "reply", "lost"}]
  BY DEF KernelStates
<1>2. CASE d = SYSTASK
  <2>1. PICK x : x = [source |-> c, body |-> "request"]
    OBVIOUS
  <2>2. x \in [source : Procs \union {NIL}, body : {"free", "request", "read", "reply", "lost"}]
    BY <2>1
  <2>3. CopyMess(K, c, d) = [K EXCEPT !.m = x]
    BY <1>2, <2>1 DEF CopyMess
  <2> QED
    BY <2>2, <2>3 DEF KernelStates, SameBut
<1>3. CASE d # SYSTASK /\ c = SYSTASK
  <2>1. CopyMess(K, c, d) = [K EXCEPT !.m = [K.m EXCEPT !.body = "free"]]
    BY <1>3 DEF CopyMess
  <2>2. [K.m EXCEPT !.body = "free"]
          \in [source : Procs \union {NIL}, body : {"free", "request", "read", "reply", "lost"}]
    BY <1>1
  <2> QED
    BY <2>1, <2>2 DEF KernelStates, SameBut
<1>4. CASE d # SYSTASK /\ c # SYSTASK
  BY <1>4 DEF CopyMess, SameBut
<1> QED
  BY <1>2, <1>3, <1>4

(* mini_send to a process that waits for the message.                      *)
LEMMA SendWakes ==
  ASSUME NEW K, KernelKept(K), NEW c \in Procs, NEW d \in Procs, Accepts(K, d, c)
  PROVE  WokenTo(K, c, d, mini_send(K, c, d))
<1>1. PICK W : W = CopyMess(K, c, d)
  OBVIOUS
<1>2. K \in KernelStates
  BY DEF KernelKept
<1>3. SameBut(K, W) /\ W.due = K.due
  BY <1>1, <1>2, CopyKeeps
<1>4. /\ W \in KernelStates /\ W.proc = K.proc /\ W.rdy = K.rdy /\ W.proc_ptr = K.proc_ptr
      /\ W.sig_procs = K.sig_procs /\ W.told = K.told
  BY <1>3 DEF SameBut
<1>5. KernelKept(W) /\ (Highest(K) => Highest(W)) /\ (MMHears(K) => MMHears(W))
  BY <1>2, <1>3, KeptSame
<1>6. Receiving(W.proc[d]) /\ ~Sending(W.proc[d])
  BY <1>4 DEF Accepts, Sending, Receiving
<1>7. PICK L : L = Released(W, d, {"RECEIVING"})
  OBVIOUS
<1>8. L = mini_send(K, c, d)
  BY <1>1, <1>7 DEF mini_send
<1>9. KernelKept(L) /\ ReleasedTo(W, d, {"RECEIVING"}, L) /\ ~Receiving(L.proc[d])
  BY <1>5, <1>6, <1>7, WakeKept
<1>10. /\ L \in KernelStates /\ OthersSame(W, L)
       /\ L.proc = [K.proc EXCEPT ![d] = Flagged(K.proc[d], K.proc[d].p_flags \ {"RECEIVING"})]
       /\ QueuesExact(L) /\ TasksStay(W, L)
       /\ Highest(W) /\ (\/ K.rdy["TASK"] # <<>>
                         \/ K.rdy["SERVER"] # <<>>)
            => Highest(L)
       /\ K.proc[d].p_flags \ {"RECEIVING"} = {} /\ K.proc[d].p_priority = "TASK"
            => (K.rdy["TASK"] = <<>> => LeadsTasks(L, d))
       /\ K.proc[d].p_priority = "SERVER" =>
            L.proc_ptr = K.proc_ptr /\ L.rdy["USER"] = K.rdy["USER"]
  BY <1>4, <1>9 DEF ReleasedTo
<1>11. /\ K.proc[d] \in ProcRecord /\ K.proc \in [Procs -> ProcRecord]
       /\ K.proc[d].p_flags \ {"RECEIVING"} \in SUBSET Flags
  BY <1>2, EntryTyped
<1>12. PICK r : r = Flagged(K.proc[d], K.proc[d].p_flags \ {"RECEIVING"})
  OBVIOUS
<1>13. SameRest(r, K.proc[d]) /\ r.p_flags = K.proc[d].p_flags \ {"RECEIVING"}
  BY <1>11, <1>12, FlagsTyped DEF SameRest
<1>14. L.proc[d] = r /\ L.proc = [K.proc EXCEPT ![d] = r]
  BY <1>10, <1>11, <1>12
<1>15. ~Sending(r)
  BY <1>4, <1>6, <1>13 DEF Sending
<1>16. Sound(d, K.proc[d])
  BY DEF KernelKept, EntriesSound
<1>17. K.rdy["TASK"] = <<>> /\ d = SYSTASK => LeadsTasks(L, d)
  <2>1. ASSUME d = SYSTASK
        PROVE  K.proc[d].p_priority = "TASK" /\ K.proc[d].p_flags \ {"RECEIVING"} = {}
    BY <1>4, <1>6, <1>16, <2>1, ProcFacts DEF Sound, Sending
  <2> QED
    BY <1>10, <2>1
<1>18. d \in Servers => L.proc_ptr = K.proc_ptr /\ L.rdy["USER"] = K.rdy["USER"]
  BY <1>10, <1>16, ProcFacts DEF Sound
<1>19. TasksStay(K, L)
  BY <1>4, <1>10 DEF TasksStay
<1>20. MMHears(K) => MMHears(L)
  <2>1. CASE d = MM_PROC_NR
    BY <1>9, <2>1 DEF MMHears, WaitsFor, Receiving
  <2>2. CASE d # MM_PROC_NR
    <3>1. L.proc[MM_PROC_NR] = K.proc[MM_PROC_NR]
      BY <1>11, <1>14, <2>2, ProcFacts
    <3> QED
      BY <1>4, <1>10, <3>1 DEF MMHears, OthersSame
  <2> QED
    BY <2>1, <2>2
<1>21. /\ L.sig_procs = K.sig_procs /\ L.told = K.told /\ L.due = K.due
       /\ L.m = CopyMess(K, c, d).m
  BY <1>1, <1>3, <1>4, <1>10 DEF OthersSame
<1>22. WokenTo(K, c, d, L)
  BY <1>5, <1>9, <1>10, <1>13, <1>14, <1>15, <1>17, <1>18, <1>19, <1>20, <1>21 DEF WokenTo
<1> QED
  BY <1>8, <1>22

-----------------------------------------------------------------------------
(* The caller.                                                             *)

(* Whoever runs leads its queue, and the queues before that are empty.     *)
LEMMA RunnerFacts ==
  ASSUME NEW K, KernelSound(K), NEW c \in Procs, K.proc_ptr = c
  PROVE  /\ c # HARDWARE /\ K.proc[c].p_priority # "NONE" /\ K.proc[c].p_flags = {}
         /\ RunsInFront(K, c)
         /\ LeadsTasks(K, c) <=> c \in Tasks
         /\ c \in Servers => K.rdy["TASK"] = <<>> /\ K.rdy["SERVER"] # <<>>
         /\ c \in Users => K.rdy["TASK"] = <<>> /\ K.rdy["SERVER"] = <<>>
         /\ RequestSound(K) /\ c # SYSTASK => K.m.body = "free"
<1>1. K \in KernelStates /\ QueuesExact(K) /\ Highest(K) /\ EntriesSound(K)
  BY DEF KernelSound, KernelKept
<1>2. First(K.rdy) = c /\ c # IDLE
  BY <1>1, PickIs, ProcFacts
<1>3. PICK q \in QueueNames :
        /\ K.rdy[q] # <<>> /\ Head(K.rdy[q]) = c
        /\ q # "TASK" => K.rdy["TASK"] = <<>>
        /\ q = "USER" => K.rdy["SERVER"] = <<>>
  BY <1>2 DEF First, QueueNames
<1>4. c \in ReadyOf(K, q)
  BY <1>1, <1>3, HeadReady
<1>5. c # HARDWARE /\ K.proc[c].p_priority = q /\ K.proc[c].p_flags = {}
  BY <1>4 DEF ReadyOf
<1>6. q # "NONE"
  BY DEF QueueNames
<1>7. q = IF c \in Tasks THEN "TASK" ELSE IF c \in Servers THEN "SERVER" ELSE "USER"
  BY <1>1, <1>5, <1>6 DEF EntriesSound, Sound
<1>8. RunsInFront(K, c)
  BY <1>3, <1>5 DEF RunsInFront
<1>9. LeadsTasks(K, c) <=> c \in Tasks
  BY <1>3, <1>7 DEF LeadsTasks, QueueNames
<1>10. /\ c \in Servers => K.rdy["TASK"] = <<>> /\ K.rdy["SERVER"] # <<>>
       /\ c \in Users => K.rdy["TASK"] = <<>> /\ K.rdy["SERVER"] = <<>>
  BY <1>3, <1>7, ProcFacts
<1>11. RequestSound(K) /\ c # SYSTASK => K.m.body = "free"
  BY <1>2 DEF RequestSound, First
<1> QED
  BY <1>5, <1>6, <1>8, <1>9, <1>10, <1>11

(* A user that waits for MM, but for d, waits for it still.                *)
WaitersStay(K, d, L) ==
  \A u \in Users \ {d} :
    K.proc[u].p_priority = "USER" /\ WaitsFor(K.proc[u], MM_PROC_NR) =>
      L.proc[u].p_priority = "USER" /\ WaitsFor(L.proc[u], MM_PROC_NR)

(* What every call of the kernel does; MM may have woken d.                *)
CallDone(K, c, d, L) ==
  /\ KernelSound(L) /\ RequestSound(L) /\ DueKept(K, L) /\ SentBy(K, c, d, L)
  /\ WaitersStay(K, IF c = MM_PROC_NR THEN d ELSE NIL, L)

(* Neither the caller nor whoever it wakes is a user that waits for MM.    *)
LEMMA OthersStay ==
  ASSUME NEW K, KernelKept(K), NEW c \in Procs, K.proc[c].p_flags = {},
         NEW d \in Procs, Sending(K.proc[d]) \/ WaitsFor(K.proc[d], c) \/ d \notin Users, NEW L,
         \A x \in Procs \ {c, d} : L.proc[x] = K.proc[x]
  PROVE  WaitersStay(K, IF c = MM_PROC_NR THEN d ELSE NIL, L)
<1> SUFFICES ASSUME NEW u \in Users, u # (IF c = MM_PROC_NR THEN d ELSE NIL),
                    K.proc[u].p_priority = "USER", WaitsFor(K.proc[u], MM_PROC_NR)
             PROVE  u # c /\ u # d
  BY ProcFacts DEF WaitersStay
<1>1. u # c
  BY DEF WaitsFor
<1>2. ASSUME u = d, c # MM_PROC_NR PROVE FALSE
  <2>1. Sound(u, K.proc[u])
    BY ProcFacts DEF KernelKept, EntriesSound
  <2>2. K.proc[u].p_getfrom \in Servers /\ ~Sending(K.proc[u])
    BY <2>1 DEF Sound, WaitsFor, Receiving, Sending
  <2>3. K.proc[u].p_getfrom = MM_PROC_NR /\ K.proc[u].p_getfrom = c
    BY <1>2, <2>2, ProcFacts DEF WaitsFor
  <2> QED
    BY <1>2, <2>3
<1> QED
  BY <1>1, <1>2

(* Sending to one that waits.                                              *)
LEMMA CallWakes ==
  ASSUME NEW K, KernelSound(K), RequestSound(K), NEW c \in Procs, K.proc_ptr = c,
         c \notin Users, NEW d \in Procs \ {SYSTASK}, Accepts(K, d, c)
  PROVE  CallDone(K, c, d, mini_send(K, c, d))
<1>1. PICK L : L = mini_send(K, c, d)
  OBVIOUS
<1>2. KernelKept(K) /\ MMHears(K) /\ Highest(K)
  BY DEF KernelSound
<1>3. WokenTo(K, c, d, L)
  BY <1>1, <1>2, SendWakes
<1>4. K.proc[c].p_flags = {} /\ (K.rdy["TASK"] # <<>> \/ K.rdy["SERVER"] # <<>>)
      /\ (c # SYSTASK => K.m.body = "free")
  BY RunnerFacts, ProcFacts DEF LeadsTasks
<1>5. KernelSound(L)
  BY <1>2, <1>3, <1>4 DEF WokenTo, KernelSound
<1>6. K.proc \in [Procs -> ProcRecord] /\ K.m \in [source : Procs \union {NIL},
        body : {"free", "request", "read", "reply", "lost"}]
  BY <1>2 DEF KernelKept, KernelStates
<1>7. \A x \in Procs \ {d} : L.proc[x] = K.proc[x]
  BY <1>3, <1>6 DEF WokenTo
<1>8. L.m.body = "free"
  <2>1. L.m = IF c = SYSTASK THEN [K.m EXCEPT !.body = "free"] ELSE K.m
    BY <1>2, <1>3 DEF WokenTo, CopyMess, KernelKept, KernelStates
  <2> QED
    BY <1>4, <1>6, <2>1
<1>9. DueKept(K, L)
  BY <1>3, <1>6, <1>7, ProcFacts DEF WokenTo, DueKept, SameRest, KernelKept, KernelStates
<1>10. WaitersStay(K, IF c = MM_PROC_NR THEN d ELSE NIL, L)
  <2>1. WaitsFor(K.proc[d], c)
    BY DEF Accepts, WaitsFor
  <2> QED
    BY <1>2, <1>4, <1>7, <2>1, OthersStay
<1>11. SentBy(K, c, d, L)
  BY <1>3, <1>4, <1>7 DEF SentBy, SendsAs, WokenTo, Sending
<1> QED
  BY <1>1, <1>5, <1>8, <1>9, <1>10, <1>11 DEF CallDone, RequestSound

(* Being queued at one that does not wait.                                 *)
LEMMA CallQueues ==
  ASSUME NEW K, KernelSound(K), RequestSound(K), NEW c \in Procs \ {SYSTASK}, K.proc_ptr = c,
         NEW d, NEW F, MayQueue(K, c, d, F), NEW L, QueuedTo(K, c, d, F, L)
  PROVE  CallDone(K, c, d, L)
<1>1. KernelKept(K) /\ MMHears(K) /\ Highest(K)
  BY DEF KernelSound
<1>2. K.m.body = "free"
  BY RunnerFacts
<1>3. d \in Procs /\ d \notin Users /\ K.proc[c].p_flags = {}
  BY ProcFacts DEF MayQueue
<1>4. /\ OthersSame(K, L) /\ SameRest(L.proc[c], K.proc[c]) /\ SameRest(L.proc[d], K.proc[d])
      /\ \A x \in Procs \ {c, d} : L.proc[x] = K.proc[x]
      /\ Highest(K) => Highest(L)
  BY DEF QueuedTo
<1>5. KernelSound(L)
  BY <1>1, <1>4, QueuedKept DEF KernelSound
<1>6. DueKept(K, L)
  BY <1>3, <1>4, ProcFacts, <1>1 DEF DueKept, OthersSame, SameRest, KernelKept, KernelStates
<1>7. WaitersStay(K, IF c = MM_PROC_NR THEN d ELSE NIL, L)
  BY <1>1, <1>3, <1>4, OthersStay
<1>8. L.proc[c].p_sendto = d /\ L.proc[d].p_flags = K.proc[d].p_flags
      /\ L.proc[d].p_sendto = K.proc[d].p_sendto
  BY DEF QueuedTo
<1>9. SentBy(K, c, d, L)
  BY <1>4, <1>8 DEF SentBy, SendsAs, Sending
<1> QED
  BY <1>2, <1>4, <1>5, <1>6, <1>7, <1>9 DEF CallDone, RequestSound, OthersSame

(* A SEND of a task or a server. A user gets it while it waits for it.     *)
LEMMA CallSends ==
  ASSUME NEW K, KernelSound(K), RequestSound(K), NEW c \in Procs \ {SYSTASK}, K.proc_ptr = c,
         c \notin Users, NEW d \in Procs \ {SYSTASK, HARDWARE}, c # d,
         d \in Users => Accepts(K, d, c)
  PROVE  CallDone(K, c, d, mini_send(K, c, d))
<1>1. CASE Accepts(K, d, c)
  BY <1>1, CallWakes
<1>2. CASE ~Accepts(K, d, c)
  <2>1. K \in KernelStates /\ QueuesExact(K)
    BY DEF KernelSound, KernelKept
  <2>2. c # HARDWARE /\ K.proc[c].p_priority # "NONE" /\ K.proc[c].p_flags = {}
    BY RunnerFacts
  <2>3. QueuedTo(K, c, d, {"SENDING"}, mini_send(K, c, d))
    BY <1>2, <2>1, <2>2, SendBlocks
  <2>4. ~WaitsFor(K.proc[d], c)
    BY <1>2 DEF Accepts, WaitsFor
  <2>5. MayQueue(K, c, d, {"SENDING"})
    BY <1>2, <2>2, <2>4, ProcFacts DEF MayQueue
  <2> QED
    BY <2>3, <2>5, CallQueues
<1> QED
  BY <1>1, <1>2

(* A call, of a server or a task, with SEND and RECEIVE in one. Users call *)
(* servers, and only servers call SYSTASK.                                 *)
LEMMA CallAsks ==
  ASSUME NEW K, KernelSound(K), RequestSound(K), NEW c \in Procs \ {SYSTASK}, K.proc_ptr = c,
         NEW d \in (Tasks \union Servers) \ {HARDWARE}, c # d, c \in Users => d \in Servers,
         d = SYSTASK => c \in Servers
  PROVE  CallDone(K, c, d, mini_rec(mini_send(K, c, d), c, d))
<1>1. /\ K \in KernelStates /\ QueuesExact(K) /\ KernelKept(K) /\ MMHears(K) /\ Highest(K)
      /\ d \in Procs
  BY ProcFacts DEF KernelSound, KernelKept
<1>2. /\ c # HARDWARE /\ K.proc[c].p_priority # "NONE" /\ K.proc[c].p_flags = {}
      /\ RunsInFront(K, c) /\ K.m.body = "free"
      /\ LeadsTasks(K, c) <=> c \in Tasks
      /\ c \in Servers => K.rdy["TASK"] = <<>> /\ K.rdy["SERVER"] # <<>>
      /\ c \in Users => K.rdy["TASK"] = <<>>
  BY RunnerFacts
<1>3. CASE ~Accepts(K, d, c)
  <2>1. QueuedTo(K, c, d, {"SENDING", "RECEIVING"}, mini_rec(mini_send(K, c, d), c, d))
    BY <1>1, <1>2, <1>3, BothBlocks
  <2>2. ~WaitsFor(K.proc[d], c)
    BY <1>3 DEF Accepts, WaitsFor
  <2>3. MayQueue(K, c, d, {"SENDING", "RECEIVING"})
    BY <1>2, <2>2 DEF MayQueue
  <2> QED
    BY <2>1, <2>3, CallQueues
<1>4. CASE Accepts(K, d, c)
  <2>1. PICK W : W = mini_send(K, c, d)
    OBVIOUS
  <2>2. WokenTo(K, c, d, W)
    BY <1>1, <1>4, <2>1, SendWakes
  <2>3. /\ KernelKept(W) /\ MMHears(W)
        /\ W.proc = [K.proc EXCEPT ![d] = W.proc[d]] /\ SameRest(W.proc[d], K.proc[d])
        /\ ~Sending(W.proc[d])
        /\ W.due = K.due
        /\ W.m = CopyMess(K, c, d).m
        /\ c \notin Users => Highest(W)
        /\ K.rdy["TASK"] = <<>> /\ d = SYSTASK => LeadsTasks(W, d)
        /\ d \in Servers => W.proc_ptr = K.proc_ptr /\ W.rdy["USER"] = K.rdy["USER"]
    BY <1>1, <1>2, <2>2, ProcFacts DEF WokenTo, LeadsTasks
  <2>4. W \in KernelStates /\ QueuesExact(W) /\ SendersExact(W)
    BY <2>3 DEF KernelKept
  <2>5. \A x \in Procs \ {d} : W.proc[x] = K.proc[x]
    BY <1>1, <2>3, EntryTyped
  <2>6. d \notin SendersOf(W, c)
    BY <2>3 DEF SendersOf
  <2>7. \A s \in Range(W.proc[c].p_callerq) : d # s
    BY <2>4, <2>6 DEF SendersExact
  <2>8. d # ANY /\ d # HARDWARE
    BY <1>1, ProcFacts
  <2>9. W.proc[c].p_flags = {} /\ W.proc[c].p_priority # "NONE"
    BY <1>2, <2>5
  <2>10. MayPause(W, c, d)
    BY <1>1, <1>2, <2>7, <2>8, <2>9 DEF MayPause
  <2>11. PICK L : L = mini_rec(W, c, d)
    OBVIOUS
  <2>12. L = Paused(W, c, d)
    <3>1. Found(W, c, d) = {}
      BY <2>7, <2>8 DEF Found, Range
    <3>2. ~BlockedInterrupt(W, c, d) /\ ~TellNow(W, c, d)
      BY <2>8 DEF BlockedInterrupt, isrxhardware, TellNow
    <3> QED
      BY <2>9, <2>11, <3>1, <3>2 DEF mini_rec, BlockReceiver, Paused
  <2>13. PausedTo(W, c, d, L)
    BY <1>1, <2>4, <2>9, <2>12, ReceiveBlocks
  <2>14. KernelKept(L) /\ MMHears(L) /\ L.proc[c].p_flags = {"RECEIVING"}
    BY <2>3, <2>8, <2>10, <2>13, PausedKept
  <2>15. /\ OthersSame(W, L)
         /\ L.proc = [W.proc EXCEPT ![c] = L.proc[c]] /\ SameRest(L.proc[c], W.proc[c])
         /\ L.proc[c].p_getfrom = d
         /\ Highest(W) \/ (W.proc[c].p_flags = {} /\ RunsInFront(W, c)) => Highest(L)
         /\ ~LeadsTasks(W, c) => TasksStay(W, L)
    BY <2>13 DEF PausedTo
  <2>16. \A x \in Procs \ {c} : L.proc[x] = W.proc[x]
    BY <2>4, <2>15, EntryTyped
  <2>17. Highest(L)
    <3>1. CASE c \in Users
      <4>1. K.proc[c].p_priority = "USER"
        <5>1. Sound(c, K.proc[c])
          BY <1>1 DEF KernelKept, EntriesSound
        <5> QED
          BY <1>2, <3>1, <5>1, ProcFacts DEF Sound
      <4>2. RunsInFront(W, c)
        BY <1>2, <2>3, <2>5, <3>1, <4>1 DEF RunsInFront
      <4> QED
        BY <2>9, <2>15, <4>2
    <3>2. CASE c \notin Users
      BY <2>3, <2>15, <3>2
    <3> QED
      BY <3>1, <3>2
  <2>18. RequestSound(L)
    <3>1. L.m = IF d = SYSTASK THEN [source |-> c, body |-> "request"] ELSE K.m
      BY <1>1, <2>3, <2>15 DEF OthersSame, CopyMess, KernelStates
    <3>2. CASE d = SYSTASK
      <4>1. L.m.source = c /\ L.m.body = "request" /\ c \in Servers
        BY <3>1, <3>2
      <4>2. LeadsTasks(W, SYSTASK)
        BY <1>2, <2>3, <3>2, <4>1
      <4>3. ~LeadsTasks(W, c)
        BY <4>2 DEF LeadsTasks
      <4>4. LeadsTasks(L, SYSTASK)
        BY <2>15, <4>2, <4>3 DEF TasksStay, LeadsTasks
      <4>5. WaitsFor(L.proc[c], SYSTASK) /\ L.proc[c].p_getfrom = SYSTASK
        BY <2>14, <2>15, <3>2 DEF WaitsFor
      <4> QED
        BY <4>1, <4>4, <4>5 DEF RequestSound, LeadsTasks
    <3>3. CASE d # SYSTASK
      BY <1>2, <3>1, <3>3 DEF RequestSound
    <3> QED
      BY <3>2, <3>3
  <2>19. DueKept(K, L)
    <3>1. L.due = K.due
      BY <2>3, <2>15 DEF OthersSame
    <3>2. ASSUME NEW x \in Procs PROVE L.proc[x].p_int_blocked = K.proc[x].p_int_blocked
      <4>1. L.proc[x].p_int_blocked = W.proc[x].p_int_blocked
        BY <2>15, <2>16 DEF SameRest
      <4>2. W.proc[x].p_int_blocked = K.proc[x].p_int_blocked
        BY <2>3, <2>5 DEF SameRest
      <4> QED
        BY <4>1, <4>2
    <3>3. K.due \subseteq Procs
      BY <1>1, ProcFacts DEF KernelStates
    <3> QED
      BY <3>1, <3>2, <3>3 DEF DueKept
  <2>20. WaitersStay(K, IF c = MM_PROC_NR THEN d ELSE NIL, L)
    <3>1. \A x \in Procs \ {c, d} : L.proc[x] = K.proc[x]
      BY <2>5, <2>16
    <3>2. d \notin Users
      BY ProcFacts
    <3> QED
      BY <1>1, <1>2, <3>1, <3>2, OthersStay
  <2>21. SentBy(K, c, d, L)
    BY <2>3, <2>5, <2>14, <2>16 DEF SentBy, SendsAs, Sending
  <2> QED
    BY <2>1, <2>11, <2>14, <2>17, <2>18, <2>19, <2>20, <2>21 DEF CallDone, KernelSound
<1> QED
  BY <1>3, <1>4

-----------------------------------------------------------------------------
(* A message or an interrupt is there already.                             *)

(* c takes the i-th message of its queue.                                  *)
LEMMA CallTakes ==
  ASSUME NEW K, KernelSound(K), RequestSound(K), NEW c \in Procs, K.proc_ptr = c,
         c \notin Users, K.m.body = "free", NEW i \in DOMAIN K.proc[c].p_callerq
  PROVE  CallDone(K, c, NIL, TakeMessage(K, c, i))
<1>1. /\ K \in KernelStates /\ QueuesExact(K) /\ KernelKept(K) /\ MMHears(K) /\ Highest(K)
      /\ EntriesSound(K) /\ SendersExact(K) /\ SignalsKept(K)
  BY DEF KernelSound, KernelKept
<1>2. /\ c # HARDWARE /\ K.proc[c].p_priority # "NONE" /\ K.proc[c].p_flags = {}
      /\ LeadsTasks(K, c) <=> c \in Tasks
      /\ c \in Servers => K.rdy["TASK"] = <<>> /\ K.rdy["SERVER"] # <<>>
  BY RunnerFacts
<1>3. PICK q \in Seq(Procs) : q = K.proc[c].p_callerq
  BY <1>1, EntryTyped
<1>4. i \in 1..Len(q) /\ IsInjective(q) /\ Range(q) = SendersOf(K, c)
  BY <1>1, <1>3, LenProperties DEF SendersExact
<1>5. PICK s \in Procs : s = q[i]
  BY <1>4, ElementOfSeq
<1>6. s \in SendersOf(K, c)
  BY <1>3, <1>4, <1>5 DEF Range
<1>7. Sending(K.proc[s]) /\ K.proc[s].p_sendto = c /\ s # c
  BY <1>2, <1>6 DEF SendersOf, Sending
<1>8. PICK t : t = RemoveAt(q, i)
  OBVIOUS
<1>9. t \in Seq(Procs) /\ IsInjective(t) /\ Range(t) = SendersOf(K, c) \ {s}
  BY <1>4, <1>5, <1>8, RemoveAtFacts
<1>10. PICK V : V = CopyMess(K, s, c)
  OBVIOUS
<1>11. SameBut(K, V) /\ V.due = K.due
  BY <1>1, <1>10, CopyKeeps
<1>12. KernelKept(V) /\ Highest(V) /\ TasksStay(K, V)
  BY <1>1, <1>11, KeptSame
<1>13. /\ V \in KernelStates /\ V.proc = K.proc /\ V.rdy = K.rdy /\ V.sig_procs = K.sig_procs
       /\ V.told = K.told /\ QueuesExact(V)
  BY <1>11, <1>12 DEF SameBut, KernelKept
<1>14. PICK rc : rc = [K.proc[c] EXCEPT !.p_callerq = t]
  OBVIOUS
<1>15. /\ rc \in ProcRecord /\ rc.p_flags = {} /\ SameRest(rc, K.proc[c]) /\ rc.p_callerq = t
       /\ rc.p_sendto = K.proc[c].p_sendto
  <2>1. K.proc[c] \in ProcRecord
    BY <1>1, EntryTyped
  <2> QED
    BY <1>2, <1>9, <1>14, <2>1 DEF ProcRecord, SameRest
<1>16. PICK W : W = [V EXCEPT !.proc = [V.proc EXCEPT ![c] = rc]]
  OBVIOUS
<1>17. Replaced(V, c, rc, W)
  BY <1>13, <1>15, <1>16, NewEntry
<1>18. /\ W \in KernelStates /\ W.proc = [V.proc EXCEPT ![c] = rc]
       /\ W.proc[c] = rc /\ \A x \in Procs \ {c} : W.proc[x] = K.proc[x]
       /\ W.rdy = V.rdy /\ W.proc_ptr = V.proc_ptr /\ OthersSame(V, W)
  BY <1>13, <1>17 DEF Replaced
<1>19. QueuesExact(W)
  <2>1. \A x \in Procs : W.proc[x].p_priority = V.proc[x].p_priority
    BY <1>13, <1>15, <1>18 DEF SameRest
  <2>2. \A x \in Procs : W.proc[x].p_flags = {} <=> V.proc[x].p_flags = {}
    BY <1>2, <1>13, <1>15, <1>18
  <2> QED
    BY <1>13, <1>18, <2>1, <2>2, QueuesSame
<1>20. Highest(W)
  BY <1>12, <1>13, <1>18, PickIs
<1>21. PICK L : L = Released(W, s, {"SENDING"})
  OBVIOUS
<1>22. L = TakeMessage(K, c, i)
  <2>1. [V EXCEPT !.proc[c].p_callerq = RemoveAt(@, i)] = W
    BY <1>3, <1>8, <1>13, <1>14, <1>16 DEF KernelStates
  <2> QED
    BY <1>3, <1>5, <1>10, <1>21, <2>1 DEF TakeMessage
<1>23. ReleasedTo(W, s, {"SENDING"}, L)
  <2>1. W.proc[s].p_flags # {} /\ W.proc[s] = K.proc[s]
    BY <1>7, <1>18 DEF Sending
  <2>2. K.proc[s].p_priority # "NONE" /\ s # HARDWARE
    BY <1>1, <2>1, FlaggedLives
  <2>3. {"SENDING"} \in SUBSET Flags
    BY DEF Flags
  <2> QED
    BY <1>18, <1>19, <1>21, <2>1, <2>2, <2>3, ReleasedKeeps
<1>24. K.proc[s] \in ProcRecord /\ K.proc[s].p_flags \ {"SENDING"} \in SUBSET Flags
  BY <1>1, EntryTyped
<1>25. PICK rs \in ProcRecord : rs = Flagged(K.proc[s], K.proc[s].p_flags \ {"SENDING"})
  BY <1>24, FlagsTyped
<1>26. /\ rs.p_flags = K.proc[s].p_flags \ {"SENDING"} /\ SameRest(rs, K.proc[s])
       /\ rs.p_callerq = K.proc[s].p_callerq /\ rs.p_getfrom = K.proc[s].p_getfrom
  BY <1>24, <1>25, FlagsTyped DEF SameRest
<1>27. /\ L \in KernelStates /\ OthersSame(W, L) /\ QueuesExact(L) /\ TasksStay(W, L)
       /\ L.proc = [W.proc EXCEPT ![s] = rs]
       /\ K.rdy["TASK"] # <<>> \/ K.rdy["SERVER"] # <<>> => Highest(L)
  BY <1>7, <1>13, <1>18, <1>20, <1>23, <1>25 DEF ReleasedTo
<1>28. L.proc[s] = rs /\ L.proc[c] = rc /\ \A x \in Procs \ {c, s} : L.proc[x] = K.proc[x]
  <2>1. W.proc \in [Procs -> ProcRecord]
    BY <1>18 DEF KernelStates
  <2> QED
    BY <1>7, <1>18, <1>27, <2>1
<1>29. Sound(c, K.proc[c]) /\ Sound(s, K.proc[s])
  BY <1>1 DEF EntriesSound
<1>30. Sound(c, rc)
  <2>1. ~Sending(rc) /\ ~Receiving(rc) /\ \A x : ~WaitsFor(rc, x)
    BY <1>15 DEF Sending, Receiving, WaitsFor
  <2> QED
    BY <1>15, <1>29, <2>1 DEF Sound, SameRest
<1>31. ~Sending(rs) /\ (Receiving(rs) <=> Receiving(K.proc[s]))
  BY <1>26 DEF Sending, Receiving
<1>32. Receiving(rs) => rs.p_getfrom = c
  BY <1>7, <1>26, <1>29, <1>31 DEF Sound
<1>33. WaitsFor(rs, HARDWARE) => FALSE
  BY <1>2, <1>32, ProcFacts DEF WaitsFor, Receiving
<1>34. Sound(s, rs)
  <2>1. ASSUME NEW x \in Range(rs.p_callerq) PROVE ~WaitsFor(rs, x)
    <3>1. x \in SendersOf(K, s)
      BY <1>1, <1>26 DEF SendersExact
    <3>2. x # c
      BY <1>2, <3>1 DEF SendersOf, Sending
    <3> QED
      BY <1>32, <3>2, ProcFacts DEF WaitsFor, Receiving
  <2>2. /\ rs.p_priority = K.proc[s].p_priority
        /\ rs.p_flags \subseteq K.proc[s].p_flags
        /\ K.proc[s].p_flags # {}
    BY <1>7, <1>26 DEF SameRest, Sending
  <2>3. s \in Users /\ Receiving(rs) => rs.p_getfrom \in Servers
    BY <1>26, <1>29, <1>31 DEF Sound
  <2>4. s = MM_PROC_NR /\ Receiving(rs) => rs.p_getfrom # HARDWARE
    BY <1>2, <1>32
  <2> QED
    BY <1>26, <1>29, <1>31, <1>33, <2>1, <2>2, <2>3, <2>4 DEF Sound
<1>35. EntriesSound(L)
  BY <1>1, <1>28, <1>30, <1>34 DEF EntriesSound
<1>36. OthersSame(V, L)
  BY <1>18, <1>27 DEF OthersSame
<1>37. SignalsKept(L)
  <2>1. SameSignals(rc, K.proc[c])
    BY <1>2, <1>15 DEF SameSignals, SameRest
  <2>2. SameSignals(rs, K.proc[s])
    BY <1>26 DEF SameSignals, SameRest
  <2>3. \A x \in Procs \ {c, s} : SameSignals(L.proc[x], K.proc[x])
    BY <1>28 DEF SameSignals
  <2>4. \A x \in Procs : SameSignals(L.proc[x], K.proc[x])
    BY <1>28, <2>1, <2>2, <2>3
  <2> QED
    BY <1>1, <1>13, <1>36, <2>4, SignalsSame DEF OthersSame
<1>38. SendersExact(L)
  <2>1. ASSUME NEW x \in Procs
        PROVE  SendersOf(L, x) = IF x = c THEN SendersOf(K, c) \ {s} ELSE SendersOf(K, x)
    <3>1. ASSUME NEW y \in Procs
          PROVE  y \in SendersOf(L, x) <=> y \in SendersOf(K, x) /\ (x = c => y # s)
      <4>1. CASE y = s
        BY <1>7, <1>28, <1>31, <4>1 DEF SendersOf
      <4>2. CASE y = c
        BY <1>2, <1>15, <1>28, <4>2 DEF SendersOf, Sending
      <4>3. CASE y # c /\ y # s
        BY <1>28, <4>3 DEF SendersOf
      <4> QED
        BY <4>1, <4>2, <4>3
    <3>2. SendersOf(L, x) \subseteq Procs /\ SendersOf(K, x) \subseteq Procs
      BY DEF SendersOf
    <3> QED
      BY <3>1, <3>2
  <2>2. ASSUME NEW x \in Procs
        PROVE  Range(L.proc[x].p_callerq) = SendersOf(L, x) /\ IsInjective(L.proc[x].p_callerq)
    <3>1. CASE x = c
      BY <1>9, <1>15, <1>28, <2>1, <3>1
    <3>2. CASE x # c
      <4>1. L.proc[x].p_callerq = K.proc[x].p_callerq
        BY <1>26, <1>28, <3>2
      <4> QED
        BY <1>1, <2>1, <3>2, <4>1 DEF SendersExact
    <3> QED
      BY <3>1, <3>2
  <2> QED
    BY <2>2 DEF SendersExact
<1>39. MMHears(L)
  <2>1. MM_PROC_NR \in Procs
    BY ProcFacts
  <2>2. CASE MM_PROC_NR = c
    BY <1>15, <1>28, <2>2 DEF MMHears, WaitsFor
  <2>3. CASE MM_PROC_NR = s
    BY <1>28, <1>33, <2>3 DEF MMHears
  <2>4. CASE MM_PROC_NR # c /\ MM_PROC_NR # s
    BY <1>1, <1>13, <1>28, <1>36, <2>1, <2>4 DEF MMHears, OthersSame
  <2> QED
    BY <2>2, <2>3, <2>4
<1>40. KernelSound(L)
  BY <1>2, <1>27, <1>35, <1>37, <1>38, <1>39, ProcFacts DEF KernelSound, KernelKept, LeadsTasks
<1>41. RequestSound(L)
  <2>1. L.m = CopyMess(K, s, c).m
    BY <1>10, <1>36 DEF OthersSame
  <2>2. K.m \in [source : Procs \union {NIL}, body : {"free", "request", "read", "reply", "lost"}]
    BY <1>1 DEF KernelStates
  <2>3. L.m = IF c = SYSTASK THEN [source |-> s, body |-> "request"]
              ELSE IF s = SYSTASK THEN [K.m EXCEPT !.body = "free"] ELSE K.m
    BY <1>1, <2>1 DEF CopyMess, KernelStates
  <2>4. CASE c # SYSTASK
    BY <2>2, <2>3, <2>4 DEF RequestSound
  <2>5. CASE c = SYSTASK
    <3>1. L.m.source = s /\ L.m.body = "request"
      BY <2>3, <2>5
    <3>2. s \in Servers /\ Receiving(rs)
      BY <1>7, <1>29, <1>31, <2>5 DEF Sound
    <3>3. WaitsFor(rs, SYSTASK) /\ rs.p_getfrom = SYSTASK
      BY <1>31, <1>32, <2>5, <3>2 DEF WaitsFor, Receiving, Sending
    <3>4. LeadsTasks(L, SYSTASK)
      BY <1>2, <1>12, <1>18, <1>27, <2>5, ProcFacts DEF LeadsTasks, TasksStay
    <3> QED
      BY <1>28, <3>1, <3>2, <3>3, <3>4 DEF RequestSound, LeadsTasks
  <2> QED
    BY <2>4, <2>5
<1>42. DueKept(K, L)
  <2>1. L.due = K.due
    BY <1>11, <1>36 DEF OthersSame
  <2>2. \A x \in Procs : L.proc[x].p_int_blocked = K.proc[x].p_int_blocked
    BY <1>15, <1>26, <1>28 DEF SameRest
  <2>3. K.due \subseteq Procs
    BY <1>1, ProcFacts DEF KernelStates
  <2> QED
    BY <2>1, <2>2, <2>3 DEF DueKept
<1>43. WaitersStay(K, NIL, L)
  <2>1. ~WaitsFor(K.proc[c], MM_PROC_NR) /\ ~WaitsFor(K.proc[s], MM_PROC_NR)
    BY <1>2, <1>7 DEF WaitsFor, Sending
  <2> QED
    BY <1>28, <2>1, ProcFacts DEF WaitersStay
<1>44. ~Sending(L.proc[c]) /\ ~Sending(L.proc[s]) /\ \A x \in Procs \ {c, s} : L.proc[x] = K.proc[x]
  BY <1>2, <1>15, <1>28, <1>31 DEF Sending
<1>45. SentBy(K, c, NIL, L)
  BY <1>44 DEF SentBy, SendsAs
<1> QED
  BY <1>22, <1>40, <1>41, <1>42, <1>43, <1>45 DEF CallDone

(* c takes an interrupt.                                                   *)
LEMMA CallInterrupted ==
  ASSUME NEW K, KernelSound(K), RequestSound(K), NEW c \in Procs, K.proc_ptr = c
  PROVE  CallDone(K, c, NIL, TakeInterrupt(K, c))
<1>1. /\ K \in KernelStates /\ QueuesExact(K) /\ KernelKept(K) /\ MMHears(K) /\ Highest(K)
      /\ EntriesSound(K) /\ K.proc[c].p_flags = {}
  BY RunnerFacts DEF KernelSound, KernelKept
<1>2. K.proc[c] \in ProcRecord /\ K.proc \in [Procs -> ProcRecord]
  BY <1>1, EntryTyped
<1>3. PICK r : r = [K.proc[c] EXCEPT !.p_int_blocked = FALSE]
  OBVIOUS
<1>4. /\ r \in ProcRecord /\ r.p_flags = {} /\ r.p_priority = K.proc[c].p_priority
      /\ r.p_callerq = K.proc[c].p_callerq /\ r.p_sendto = K.proc[c].p_sendto
      /\ r.p_pending = K.proc[c].p_pending /\ r.p_pendcount = K.proc[c].p_pendcount
  BY <1>1, <1>2, <1>3 DEF ProcRecord
<1>5. PICK L : L = TakeInterrupt(K, c)
  OBVIOUS
<1>6. L = [K EXCEPT !.proc = [K.proc EXCEPT ![c] = r], !.due = K.due \ {c}]
  BY <1>1, <1>3, <1>5 DEF TakeInterrupt, KernelStates
<1>7. /\ L.proc = [K.proc EXCEPT ![c] = r] /\ L.due = K.due \ {c} /\ L.rdy = K.rdy
      /\ L.proc_ptr = K.proc_ptr /\ L.told = K.told /\ L.sig_procs = K.sig_procs /\ L.m = K.m
  BY <1>1, <1>6 DEF KernelStates
<1>8. L \in KernelStates
  <2>1. [K.proc EXCEPT ![c] = r] \in [Procs -> ProcRecord] /\ K.due \ {c} \in SUBSET Drivers
    BY <1>1, <1>4 DEF KernelStates
  <2> QED
    BY <1>1, <1>6, <2>1 DEF KernelStates
<1>9. L.proc[c] = r /\ \A x \in Procs \ {c} : L.proc[x] = K.proc[x]
  BY <1>2, <1>7
<1>10. QueuesExact(L)
  BY <1>1, <1>4, <1>7, <1>9, QueuesSame
<1>11. Sound(c, r)
  <2>1. Sound(c, K.proc[c])
    BY <1>1 DEF EntriesSound
  <2>2. ~Sending(r) /\ ~Receiving(r) /\ \A x : ~WaitsFor(r, x)
    BY <1>4 DEF Sending, Receiving, WaitsFor
  <2> QED
    BY <1>4, <2>1, <2>2 DEF Sound
<1>12. SameSignals(r, K.proc[c]) /\ SameSender(r, K.proc[c])
  BY <1>1, <1>4 DEF SameSignals, SameSender, Sending
<1>13. KernelKept(L)
  BY <1>1, <1>4, <1>7, <1>8, <1>10, <1>11, <1>12, KeptBut
<1>14. Highest(L)
  BY <1>1, <1>7, <1>8, PickIs
<1>15. MMHears(L)
  <2>1. CASE c = MM_PROC_NR
    BY <1>4, <1>9, <2>1 DEF MMHears, WaitsFor
  <2>2. CASE c # MM_PROC_NR
    BY <1>1, <1>7, <1>9, <2>2, ProcFacts DEF MMHears
  <2> QED
    BY <2>1, <2>2
<1>16. RequestSound(L)
  <2>1. L.m = K.m /\ L.rdy = K.rdy
    BY <1>7
  <2>2. \A s \in Servers : WaitsFor(K.proc[s], SYSTASK) =>
          WaitsFor(L.proc[s], SYSTASK) /\ L.proc[s].p_getfrom = K.proc[s].p_getfrom
    BY <1>1, <1>9, ProcFacts DEF WaitsFor
  <2> QED
    BY <2>1, <2>2 DEF RequestSound
<1>17. DueKept(K, L)
  <2>1. K.due \subseteq Procs
    BY <1>1, ProcFacts DEF KernelStates
  <2> QED
    BY <1>7, <1>9, <2>1 DEF DueKept
<1>18. WaitersStay(K, NIL, L)
  BY <1>1, <1>9, ProcFacts DEF WaitersStay, WaitsFor
<1>19. SentBy(K, c, NIL, L)
  BY <1>1, <1>4, <1>9 DEF SentBy, SendsAs, Sending
<1> QED
  BY <1>5, <1>13, <1>14, <1>15, <1>16, <1>17, <1>18, <1>19 DEF CallDone, KernelSound

-----------------------------------------------------------------------------
(* inform and cause_sig.                                                   *)

(* An entry that waits as it did.                                          *)
SameWait(r, s) ==
  /\ r.p_priority = s.p_priority /\ r.p_int_blocked = s.p_int_blocked
  /\ Sending(r) <=> Sending(s)
  /\ Receiving(r) <=> Receiving(s)
  /\ r.p_getfrom = s.p_getfrom /\ r.p_sendto = s.p_sendto

Writes(K) == IF K.m.body \in {"request", "reply"} THEN "lost" ELSE K.m.body

(* L is K after MM has been told of a signal.                              *)
InformedTo(K, L) ==
  /\ KernelSound(L) /\ TasksStay(K, L) /\ L.due = K.due
  /\ L.m.source = K.m.source /\ L.m.body = Writes(K)
  /\ \A x \in Procs \ {MM_PROC_NR} : SameWait(L.proc[x], K.proc[x])
  /\ L.proc[MM_PROC_NR].p_int_blocked = K.proc[MM_PROC_NR].p_int_blocked
  /\ SendsAs(L.proc[MM_PROC_NR], K.proc[MM_PROC_NR])

(* Only users have signals.                                                *)
LEMMA PendingFacts ==
  ASSUME NEW K, KernelKept(K)
  PROVE  /\ PendingProcs(K) \subseteq Users /\ IsFiniteSet(PendingProcs(K))
         /\ PendingProcs(K) = {u \in Servers \union Users : "PENDING" \in K.proc[u].p_flags}
         /\ Cardinality(PendingProcs(K)) \in Nat
         /\ K.sig_procs = 0 <=> PendingProcs(K) = {}
         /\ \A u \in PendingProcs(K) :
              K.proc[u].p_priority = "USER" /\ "SIG_PENDING" \in K.proc[u].p_flags
<1>1. ASSUME NEW p \in Procs, "PENDING" \in K.proc[p].p_flags
      PROVE  p \in Users /\ K.proc[p].p_priority = "USER"
  <2>1. Sound(p, K.proc[p])
    BY DEF KernelKept, EntriesSound
  <2> QED
    BY <1>1, <2>1, ProcFacts DEF Sound
<1>2. PendingProcs(K) \subseteq Users
  BY <1>1 DEF PendingProcs
<1>3. PendingProcs(K) = {u \in Servers \union Users : "PENDING" \in K.proc[u].p_flags}
  BY <1>1, ProcFacts DEF PendingProcs
<1>4. IsFiniteSet(PendingProcs(K))
  BY <1>2, FiniteUsers, FS_Subset
<1>5. Cardinality(PendingProcs(K)) \in Nat /\ (Cardinality(PendingProcs(K)) = 0 <=> PendingProcs(K) = {})
  BY <1>4, FS_CardinalityType, FS_EmptySet
<1>6. K.sig_procs = Cardinality(PendingProcs(K))
  BY DEF KernelKept, SignalsKept
<1>7. ASSUME NEW u \in PendingProcs(K)
      PROVE  K.proc[u].p_priority = "USER" /\ "SIG_PENDING" \in K.proc[u].p_flags
  <2>1. u \in Users /\ u \in Procs /\ "PENDING" \in K.proc[u].p_flags
    BY <1>2 DEF PendingProcs
  <2>2. SignalsSound(K.proc[u], K.told[u]) /\ K.proc[u].p_priority = "USER"
    BY <1>1, <2>1 DEF KernelKept, SignalsKept
  <2>3. Cardinality(K.proc[u].p_pending) \in Nat /\ Cardinality(K.proc[u].p_pending) # 0
    BY <2>1, <2>2, FS_CardinalityType, FS_EmptySet DEF SignalsSound
  <2> QED
    BY <2>1, <2>2, <2>3 DEF SignalsSound
<1> QED
  BY <1>2, <1>3, <1>4, <1>5, <1>6, <1>7

(* MM, which waits for anything, is told of the first process that has a   *)
(* signal.                                                                 *)
LEMMA InformKept ==
  ASSUME NEW K, KernelKept(K), WaitsFor(K.proc[MM_PROC_NR], HARDWARE), K.sig_procs # 0
  PROVE  InformedTo(K, inform(K))
<1> DEFINE MM == MM_PROC_NR
<1>1. /\ K \in KernelStates /\ QueuesExact(K) /\ EntriesSound(K) /\ SendersExact(K)
      /\ SignalsKept(K) /\ MM \in Procs /\ MM \in Servers /\ HARDWARE \in Procs /\ MM # HARDWARE
      /\ HARDWARE # SYSTASK /\ MM # SYSTASK
  BY ProcFacts DEF KernelKept
<1>2. PICK P : P = PendingProcs(K)
  OBVIOUS
<1>3. /\ P \subseteq Users /\ P # {} /\ IsFiniteSet(P)
      /\ P = {u \in Servers \union Users : "PENDING" \in K.proc[u].p_flags}
      /\ \A u \in P : K.proc[u].p_priority = "USER" /\ "SIG_PENDING" \in K.proc[u].p_flags
  BY <1>2, PendingFacts
<1>4. PICK u \in Users : u = Min(P) /\ u \in P
  <2>1. P \subseteq Nat
    BY <1>3, ProcFacts
  <2>2. Min(P) \in P
    BY <1>3, <2>1, MinNat
  <2> QED
    BY <1>3, <2>2
<1>5. /\ u \in Procs /\ u # MM /\ K.proc[u].p_priority = "USER"
      /\ "SIG_PENDING" \in K.proc[u].p_flags /\ "PENDING" \in K.proc[u].p_flags
  BY <1>2, <1>3, <1>4, ProcFacts DEF PendingProcs
<1>6. SignalsSound(K.proc[u], K.told[u])
  BY <1>1, <1>4 DEF SignalsKept
<1>7. PICK n \in Nat : n = Cardinality(K.proc[u].p_pending)
  BY <1>6, FS_CardinalityType DEF SignalsSound
<1>8. PICK x \in [source : Procs \union {NIL}, body : {"free", "request", "read", "reply", "lost"}] :
        x = [K.m EXCEPT !.body = IF @ \in {"request", "reply"} THEN "lost" ELSE @]
  BY <1>1 DEF KernelStates
<1>9. x.source = K.m.source /\ x.body = Writes(K)
  BY <1>1, <1>8 DEF KernelStates, Writes
<1>10. PICK t \in [Users -> Int] : t = [K.told EXCEPT ![u] = @ + n]
  <2>1. K.told \in [Users -> Int]
    BY <1>1 DEF KernelStates
  <2>2. K.told[u] + n \in Int
    BY <2>1
  <2>3. [K.told EXCEPT ![u] = K.told[u] + n] \in [Users -> Int]
    BY <2>1, <2>2
  <2> QED
    BY <2>3
<1>11. PICK S : S = [K EXCEPT !.m = x, !.sig_procs = K.sig_procs - 1, !.told = t]
  OBVIOUS
<1>12. /\ S.proc = K.proc /\ S.rdy = K.rdy /\ S.proc_ptr = K.proc_ptr /\ S.due = K.due
       /\ S.m = x /\ S.sig_procs = K.sig_procs - 1 /\ S.told = t
  BY <1>1, <1>11 DEF KernelStates
<1>13. S \in KernelStates
  <2>1. K.sig_procs - 1 \in Int
    BY <1>1 DEF KernelStates
  <2> QED
    BY <1>1, <1>11, <2>1 DEF KernelStates
<1>14. QueuesExact(S)
  BY <1>1, <1>12, QueuesSame
<1>15. PICK W : W = Released(S, MM, {"RECEIVING"})
  OBVIOUS
<1>16. W = mini_send(S, HARDWARE, MM)
  <2>1. Accepts(S, MM, HARDWARE)
    BY <1>12 DEF Accepts, WaitsFor
  <2>2. CopyMess(S, HARDWARE, MM) = S
    BY <1>1 DEF CopyMess
  <2> QED
    BY <1>15, <2>1, <2>2 DEF mini_send
<1>17. /\ Receiving(K.proc[MM]) /\ ~Sending(K.proc[MM]) /\ K.proc[MM].p_flags # {}
       /\ K.proc[MM].p_priority # "NONE"
  <2>1. Receiving(K.proc[MM]) /\ ~Sending(K.proc[MM]) /\ K.proc[MM].p_flags # {}
    BY DEF WaitsFor, Receiving, Sending
  <2> QED
    BY <1>1, <2>1, FlaggedLives
<1>18. ReleasedTo(S, MM, {"RECEIVING"}, W)
  <2>1. {"RECEIVING"} \in SUBSET Flags
    BY DEF Flags
  <2> QED
    BY <1>1, <1>12, <1>13, <1>14, <1>15, <1>17, <2>1, ReleasedKeeps
<1>19. K.proc[MM] \in ProcRecord /\ K.proc[MM].p_flags \ {"RECEIVING"} \in SUBSET Flags
       /\ K.proc[u] \in ProcRecord /\ K.proc \in [Procs -> ProcRecord]
  BY <1>1, <1>5, EntryTyped
<1>20. PICK rm \in ProcRecord : rm = Flagged(K.proc[MM], K.proc[MM].p_flags \ {"RECEIVING"})
  BY <1>19, FlagsTyped
<1>21. /\ rm.p_flags = K.proc[MM].p_flags \ {"RECEIVING"} /\ SameRest(rm, K.proc[MM])
       /\ rm.p_callerq = K.proc[MM].p_callerq
  BY <1>19, <1>20, FlagsTyped DEF SameRest
<1>22. /\ W \in KernelStates /\ OthersSame(S, W) /\ W.proc = [K.proc EXCEPT ![MM] = rm]
       /\ QueuesExact(W) /\ TasksStay(K, W)
  BY <1>12, <1>18, <1>20 DEF ReleasedTo, TasksStay
<1>23. W.proc[MM] = rm /\ \A y \in Procs \ {MM} : W.proc[y] = K.proc[y]
  BY <1>1, <1>19, <1>22
<1>24. PICK ru : ru = [K.proc[u] EXCEPT !.p_pending = {},
                                        !.p_flags = K.proc[u].p_flags \ {"PENDING"}]
  OBVIOUS
<1>25. /\ ru \in ProcRecord /\ ru.p_flags = K.proc[u].p_flags \ {"PENDING"} /\ ru.p_pending = {}
       /\ ru.p_priority = "USER" /\ ru.p_callerq = K.proc[u].p_callerq
       /\ ru.p_sendto = K.proc[u].p_sendto /\ ru.p_getfrom = K.proc[u].p_getfrom
       /\ ru.p_int_blocked = K.proc[u].p_int_blocked
       /\ ru.p_pendcount = K.proc[u].p_pendcount
  <2>1. K.proc[u].p_flags \ {"PENDING"} \in SUBSET Flags
    BY <1>19 DEF ProcRecord
  <2> QED
    BY <1>5, <1>19, <1>24, <2>1 DEF ProcRecord
<1>26. PICK V : V = [W EXCEPT !.proc = [W.proc EXCEPT ![u] = ru]]
  OBVIOUS
<1>27. Replaced(W, u, ru, V)
  BY <1>5, <1>22, <1>25, <1>26, NewEntry
<1>28. /\ V \in KernelStates /\ V.proc[u] = ru /\ \A y \in Procs \ {u} : V.proc[y] = W.proc[y]
       /\ V.rdy = W.rdy /\ V.proc_ptr = W.proc_ptr /\ OthersSame(W, V)
  BY <1>27 DEF Replaced
<1>29. PICK L : L = pick_proc(V)
  OBVIOUS
<1>30. L = inform(K)
  <2>1. [W EXCEPT !.proc[u].p_pending = {}, !.proc[u].p_flags = @ \ {"PENDING"}] = V
    BY <1>5, <1>22, <1>23, <1>24, <1>26, ZenonT(40) DEF KernelStates
  <2>2. S = [K EXCEPT !.m.body = IF @ \in {"request", "reply"} THEN "lost" ELSE @,
                      !.sig_procs = @ - 1,
                      !.told[u] = @ + Cardinality(K.proc[u].p_pending)]
    BY <1>1, <1>7, <1>8, <1>10, <1>11 DEF KernelStates
  <2>3. inform(K) = pick_proc([mini_send(S, HARDWARE, MM) EXCEPT
                                 !.proc[u].p_pending = {}, !.proc[u].p_flags = @ \ {"PENDING"}])
    BY <1>3, <1>4, <2>2, Zenon DEF inform
  <2> QED
    BY <1>16, <1>29, <2>1, <2>3
<1>31. /\ L \in KernelStates /\ L.proc = V.proc /\ L.rdy = V.rdy /\ Highest(L)
       /\ OthersSame(V, L)
  <2>1. L = [V EXCEPT !.proc_ptr = First(V.rdy)] /\ L \in KernelStates
    BY <1>28, <1>29, PickIs
  <2>2. /\ L.proc = V.proc /\ L.rdy = V.rdy /\ OthersSame(V, L)
        /\ L.proc_ptr = First(V.rdy)
    BY <1>28, <2>1 DEF KernelStates, OthersSame
  <2> QED
    BY <2>1, <2>2, PickIs
<1>32. /\ L.proc[u] = ru /\ L.proc[MM] = rm /\ \A y \in Procs \ {u, MM} : L.proc[y] = K.proc[y]
       /\ L.m = x /\ L.due = K.due /\ L.told = t /\ L.sig_procs = K.sig_procs - 1
  BY <1>1, <1>5, <1>12, <1>22, <1>23, <1>28, <1>31 DEF OthersSame
<1>33. QueuesExact(L)
  <2>1. \A y \in Procs : L.proc[y].p_priority = W.proc[y].p_priority
    BY <1>5, <1>23, <1>25, <1>28, <1>31
  <2>2. L.proc[u].p_flags # {} /\ W.proc[u].p_flags # {}
    BY <1>5, <1>23, <1>25, <1>32
  <2>3. \A y \in Procs : L.proc[y].p_flags = {} <=> W.proc[y].p_flags = {}
    BY <1>28, <1>31, <2>2
  <2> QED
    BY <1>22, <1>28, <1>31, <2>1, <2>3, QueuesSame
<1>34. /\ Sending(ru) <=> Sending(K.proc[u])
       /\ Receiving(ru) <=> Receiving(K.proc[u])
       /\ \A y : WaitsFor(ru, y) <=> WaitsFor(K.proc[u], y)
  <2>1. ru.p_flags \intersect {"SENDING", "RECEIVING"}
          = K.proc[u].p_flags \intersect {"SENDING", "RECEIVING"}
    BY <1>25
  <2> QED
    BY <1>25, <2>1 DEF Sending, Receiving, WaitsFor
<1>35. ~Sending(rm) /\ ~Receiving(rm) /\ \A y : ~WaitsFor(rm, y)
  BY <1>17, <1>21 DEF Sending, Receiving, WaitsFor
<1>36. EntriesSound(L)
  <2>1. Sound(MM, rm)
    BY <1>1, <1>17, <1>19, <1>20, AwakeSound DEF EntriesSound
  <2>2. Sound(u, ru)
    <3>1. Sound(u, K.proc[u])
      BY <1>1, <1>5 DEF EntriesSound
    <3> QED
      BY <1>4, <1>5, <1>25, <1>34, <3>1, ProcFacts DEF Sound
  <2> QED
    BY <1>1, <1>32, <2>1, <2>2 DEF EntriesSound
<1>37. SendersExact(L)
  <2>1. SameSender(rm, K.proc[MM])
    BY <1>17, <1>21, <1>35 DEF SameSender
  <2>2. SameSender(ru, K.proc[u])
    BY <1>25, <1>34 DEF SameSender
  <2>3. \A y \in Procs \ {u, MM} : SameSender(L.proc[y], K.proc[y])
    BY <1>32 DEF SameSender
  <2>4. \A y \in Procs : SameSender(L.proc[y], K.proc[y])
    BY <1>32, <2>1, <2>2, <2>3
  <2> QED
    BY <1>1, <2>4, SendersSame
<1>38. SignalsKept(L)
  <2>1. PendingProcs(L) = P \ {u}
    <3>1. "PENDING" \notin rm.p_flags <=> "PENDING" \notin K.proc[MM].p_flags
      BY <1>21
    <3>2. "PENDING" \notin ru.p_flags
      BY <1>25
    <3> QED
      BY <1>2, <1>32, <3>1, <3>2 DEF PendingProcs
  <2>2. Cardinality(P \ {u}) = Cardinality(P) - 1
    BY <1>3, <1>4, FS_RemoveElement
  <2>3. L.sig_procs = Cardinality(PendingProcs(L))
    BY <1>1, <1>2, <1>32, <2>1, <2>2 DEF SignalsKept
  <2>4. L.told[u] = K.told[u] + n /\ \A v \in Users \ {u} : L.told[v] = K.told[v]
    BY <1>1, <1>10, <1>32 DEF KernelStates
  <2>5. SignalsSound(ru, K.told[u] + n)
    <3>1. IsFiniteSet({}) /\ Cardinality({}) = 0
      BY FS_EmptySet
    <3>2. K.proc[u].p_pendcount = n + K.told[u] /\ K.told[u] \in 0..MaxPendcount
          /\ K.proc[u].p_pendcount \in 0..MaxPendcount
          /\ (K.proc[u].p_pendcount > 0 <=> "SIG_PENDING" \in K.proc[u].p_flags)
      BY <1>5, <1>6, <1>7 DEF SignalsSound
    <3>3. K.told[u] + n = K.proc[u].p_pendcount
      BY <3>2
    <3>4. "SIG_PENDING" \in ru.p_flags /\ "PENDING" \notin ru.p_flags
      BY <1>5, <1>25
    <3>5. ru.p_pendcount = Cardinality(ru.p_pending) + (K.told[u] + n)
      BY <1>25, <3>1, <3>2, <3>3
    <3> QED
      BY <1>5, <1>25, <3>1, <3>2, <3>3, <3>4, <3>5 DEF SignalsSound
  <2>6. ASSUME NEW v \in Users PROVE SignalsSound(L.proc[v], L.told[v])
    <3>1. CASE v = u
      BY <1>32, <2>4, <2>5, <3>1
    <3>2. CASE v # u
      <4>1. v # MM /\ v \in Procs
        BY ProcFacts
      <4> QED
        BY <1>1, <1>32, <2>4, <3>2, <4>1 DEF SignalsKept
    <3> QED
      BY <3>1, <3>2
  <2>7. ASSUME NEW v \in Procs \ Users PROVE L.proc[v].p_pendcount = 0
    <3>1. K.proc[v].p_pendcount = 0
      BY <1>1 DEF SignalsKept
    <3>2. CASE v = MM
      BY <1>21, <1>32, <3>1, <3>2 DEF SameRest
    <3>3. CASE v # MM
      BY <1>4, <1>32, <2>7, <3>1, <3>3
    <3> QED
      BY <3>2, <3>3
  <2> QED
    BY <2>3, <2>6, <2>7 DEF SignalsKept
<1>39. MMHears(L)
  BY <1>32, <1>35 DEF MMHears
<1>40. KernelSound(L)
  BY <1>31, <1>33, <1>36, <1>37, <1>38, <1>39 DEF KernelSound, KernelKept
<1>41. TasksStay(K, L)
  BY <1>22, <1>28, <1>31 DEF TasksStay
<1>42. ASSUME NEW y \in Procs \ {MM} PROVE SameWait(L.proc[y], K.proc[y])
  BY <1>5, <1>25, <1>32, <1>34 DEF SameWait
<1>43. L.proc[MM].p_int_blocked = K.proc[MM].p_int_blocked
  BY <1>21, <1>32 DEF SameRest
<1>44. SendsAs(L.proc[MM], K.proc[MM])
  BY <1>32, <1>35 DEF SendsAs
<1>45. InformedTo(K, L)
  BY <1>9, <1>32, <1>40, <1>41, <1>42, <1>43, <1>44 DEF InformedTo
<1> QED
  BY <1>30, <1>45

(* The signals of a user u change, and nothing else of it.                 *)
SignalsChanged(K, u, r, L) ==
  /\ L \in KernelStates /\ QueuesExact(L) /\ L.proc = [K.proc EXCEPT ![u] = r]
  /\ SameWait(r, K.proc[u]) /\ r.p_priority = "USER"
  /\ r.p_callerq = K.proc[u].p_callerq /\ r.p_sendto = K.proc[u].p_sendto
  /\ SignalsSound(r, L.told[u]) /\ \A v \in Users \ {u} : L.told[v] = K.told[v]
  /\ L.sig_procs = Cardinality(PendingProcs(L))

(* That is sound when they are counted.                                    *)
LEMMA KeptSignal ==
  ASSUME NEW K, KernelKept(K), NEW u \in Users, NEW r \in ProcRecord,
         NEW L, SignalsChanged(K, u, r, L)
  PROVE  KernelKept(L)
<1>1. u \in Procs /\ K.proc \in [Procs -> ProcRecord]
  BY ProcFacts DEF KernelKept, KernelStates
<1>2. L.proc[u] = r /\ \A x \in Procs \ {u} : L.proc[x] = K.proc[x]
  BY <1>1 DEF SignalsChanged
<1>3. \A y : WaitsFor(r, y) <=> WaitsFor(K.proc[u], y)
  BY DEF SignalsChanged, SameWait, WaitsFor, Sending, Receiving
<1>4. Sound(u, r)
  <2>1. Sound(u, K.proc[u])
    BY <1>1 DEF KernelKept, EntriesSound
  <2> QED
    BY <1>1, <1>3, <2>1, ProcFacts DEF Sound, SignalsChanged, SameWait
<1>5. EntriesSound(L)
  BY <1>2, <1>4 DEF KernelKept, EntriesSound
<1>6. SendersExact(L)
  <2>1. SameSender(r, K.proc[u])
    BY DEF SameSender, SignalsChanged, SameWait
  <2>2. \A x \in Procs \ {u} : SameSender(L.proc[x], K.proc[x])
    BY <1>2 DEF SameSender
  <2>3. \A x \in Procs : SameSender(L.proc[x], K.proc[x])
    BY <1>2, <2>1, <2>2
  <2> QED
    BY <2>3, SendersSame DEF KernelKept
<1>7. SignalsKept(L)
  <2>1. ASSUME NEW v \in Users PROVE SignalsSound(L.proc[v], L.told[v])
    <3>1. CASE v = u
      BY <1>2, <3>1 DEF SignalsChanged
    <3>2. CASE v # u
      BY <1>2, <3>2, ProcFacts DEF SignalsChanged, KernelKept, SignalsKept
    <3> QED
      BY <3>1, <3>2
  <2>2. \A v \in Procs \ Users : L.proc[v].p_pendcount = 0
    BY <1>2 DEF KernelKept, SignalsKept
  <2> QED
    BY <2>1, <2>2 DEF SignalsKept, SignalsChanged
<1> QED
  BY <1>5, <1>6, <1>7 DEF KernelKept, SignalsChanged

(* L is K after cause_sig.                                                 *)
CausedTo(K, L) ==
  /\ KernelSound(L) /\ TasksStay(K, L) /\ L.due = K.due
  /\ \A x \in Procs \ {MM_PROC_NR} : SameWait(L.proc[x], K.proc[x])
  /\ L.proc[MM_PROC_NR].p_int_blocked = K.proc[MM_PROC_NR].p_int_blocked
  /\ SendsAs(L.proc[MM_PROC_NR], K.proc[MM_PROC_NR])
  /\ L.m.source = K.m.source
  /\ \/ L.m.body = K.m.body /\ SameWait(L.proc[MM_PROC_NR], K.proc[MM_PROC_NR])
     \/ L.m.body = Writes(K) /\ WaitsFor(K.proc[MM_PROC_NR], HARDWARE)

(* The test of cause_sig says that MM waits for anything.                  *)
LEMMA MMFreeIs ==
  ASSUME NEW K, KernelKept(K)
  PROVE  MMFree(K) <=> WaitsFor(K.proc[MM_PROC_NR], HARDWARE)
<1>1. Sound(MM_PROC_NR, K.proc[MM_PROC_NR])
  BY ProcFacts DEF KernelKept, EntriesSound
<1>2. ASSUME MMFree(K) PROVE WaitsFor(K.proc[MM_PROC_NR], HARDWARE)
  <2>1. Receiving(K.proc[MM_PROC_NR]) /\ K.proc[MM_PROC_NR].p_getfrom = ANY
    BY <1>2 DEF MMFree, Receiving
  <2>2. ~Sending(K.proc[MM_PROC_NR])
    BY <1>1, <2>1, ProcFacts DEF Sound
  <2> QED
    BY <2>1, <2>2 DEF WaitsFor, Receiving, Sending
<1>3. ASSUME WaitsFor(K.proc[MM_PROC_NR], HARDWARE) PROVE MMFree(K)
  BY <1>1, <1>3 DEF MMFree, WaitsFor, Sound, Receiving
<1> QED
  BY <1>2, <1>3

(* A signal of a living user.                                              *)
LEMMA CauseKept ==
  ASSUME NEW K, KernelSound(K), NEW u \in Users, NEW sig \in Sigs,
         K.proc[u].p_priority = "USER",
         sig \notin K.proc[u].p_pending => K.proc[u].p_pendcount < MaxPendcount
  PROVE  CausedTo(K, cause_sig(K, u, sig))
<1> DEFINE MM == MM_PROC_NR
<1>1. /\ K \in KernelStates /\ QueuesExact(K) /\ SignalsKept(K) /\ KernelKept(K)
      /\ Highest(K) /\ MMHears(K) /\ u \in Procs /\ MM \in Procs /\ u # MM
  BY ProcFacts DEF KernelSound, KernelKept
<1>2. K.proc[u] \in ProcRecord /\ K.proc \in [Procs -> ProcRecord]
  BY <1>1, EntryTyped
<1>3. PICK s \in ProcRecord : s = K.proc[u]
  BY <1>2
<1>4. SignalsSound(s, K.told[u]) /\ s.p_priority = "USER"
  BY <1>1, <1>3 DEF SignalsKept
<1>5. PICK n \in Nat : n = Cardinality(s.p_pending)
  BY <1>4, FS_CardinalityType DEF SignalsSound
<1>6. /\ s.p_pendcount = n + K.told[u] /\ s.p_pendcount \in 0..MaxPendcount
      /\ K.told[u] \in 0..MaxPendcount /\ MaxPendcount \in Nat
      /\ s.p_pending # {} <=> "PENDING" \in s.p_flags
      /\ s.p_pendcount > 0 <=> "SIG_PENDING" \in s.p_flags
      /\ IsFiniteSet(s.p_pending)
  BY <1>4, <1>5, CallAssumption DEF SignalsSound
<1>7. \A x : SameWait(K.proc[x], K.proc[x])
  BY DEF SameWait
<1>8. CASE sig \in s.p_pending
  <2>1. cause_sig(K, u, sig) = K
    BY <1>3, <1>8 DEF cause_sig
  <2>2. TasksStay(K, K)
    BY DEF TasksStay
  <2> QED
    BY <1>1, <1>7, <2>1, <2>2 DEF CausedTo, SendsAs
<1>9. CASE sig \notin s.p_pending
  <2>1. PICK r : r = [s EXCEPT !.p_pending = s.p_pending \union {sig},
                               !.p_pendcount = s.p_pendcount + 1]
    OBVIOUS
  <2>2. /\ r \in ProcRecord /\ r.p_pending = s.p_pending \union {sig}
        /\ r.p_pendcount = s.p_pendcount + 1
        /\ r.p_flags = s.p_flags /\ r.p_callerq = s.p_callerq /\ r.p_sendto = s.p_sendto
        /\ r.p_priority = "USER" /\ r.p_int_blocked = s.p_int_blocked
        /\ r.p_getfrom = s.p_getfrom
    <3>1. s.p_pending \union {sig} \in SUBSET Sigs /\ s.p_pendcount + 1 \in Int
      BY <1>6 DEF ProcRecord
    <3> QED
      BY <1>4, <2>1, <3>1 DEF ProcRecord
  <2>3. PICK W : W = [K EXCEPT !.proc = [K.proc EXCEPT ![u] = r]]
    OBVIOUS
  <2>4. Replaced(K, u, r, W)
    BY <1>1, <2>2, <2>3, NewEntry
  <2>5. /\ W \in KernelStates /\ W.proc = [K.proc EXCEPT ![u] = r]
        /\ W.proc[u] = r /\ \A x \in Procs \ {u} : W.proc[x] = K.proc[x]
        /\ W.rdy = K.rdy /\ W.proc_ptr = K.proc_ptr /\ OthersSame(K, W)
    BY <2>4 DEF Replaced
  <2>6. W = [K EXCEPT !.proc[u].p_pending = @ \union {sig}, !.proc[u].p_pendcount = @ + 1]
    BY <1>1, <1>3, <2>1, <2>3 DEF KernelStates
  <2>7. QueuesExact(W)
    BY <1>1, <1>3, <1>4, <2>2, <2>5, QueuesSame, ZenonT(40)
  <2>8. Highest(W) /\ TasksStay(K, W)
    BY <1>1, <2>5, PickIs DEF TasksStay
  <2>9. /\ IsFiniteSet(r.p_pending) /\ r.p_pending # {} /\ Cardinality(r.p_pending) = n + 1
        /\ r.p_pendcount = (n + 1) + K.told[u] /\ r.p_pendcount \in 1..MaxPendcount
    <3>1. s.p_pendcount < MaxPendcount
      BY <1>3, <1>9
    <3>2. IsFiniteSet(r.p_pending) /\ Cardinality(r.p_pending) = n + 1
      <4>1. /\ IsFiniteSet(s.p_pending \union {sig})
            /\ Cardinality(s.p_pending \union {sig}) = Cardinality(s.p_pending) + 1
        BY <1>6, <1>9, FS_AddElement
      <4> QED
        BY <1>5, <2>2, <4>1
    <3> QED
      BY <1>6, <2>2, <3>1, <3>2
  <2>10. CASE "PENDING" \in s.p_flags
    <3>1. "SIG_PENDING" \in r.p_flags /\ "PENDING" \in r.p_flags
      <4>1. n # 0
        BY <1>5, <1>6, <2>10, FS_EmptySet
      <4> QED
        BY <1>6, <2>2, <2>10, <4>1
    <3>2. SignalsSound(r, K.told[u])
      BY <1>6, <2>2, <2>9, <3>1 DEF SignalsSound
    <3>3. PendingProcs(W) = PendingProcs(K)
      BY <1>3, <2>5, <2>10, <3>1 DEF PendingProcs
    <3>4. SameWait(r, K.proc[u])
      BY <1>3, <1>4, <2>2 DEF SameWait, Sending, Receiving
    <3>5. SignalsChanged(K, u, r, W)
      BY <1>1, <1>3, <2>2, <2>5, <2>7, <3>2, <3>3, <3>4
         DEF SignalsChanged, OthersSame, SignalsKept
    <3>6. KernelKept(W)
      BY <1>1, <2>2, <3>5, KeptSignal
    <3>7. MMHears(W)
      BY <1>1, <2>5 DEF MMHears, OthersSame
    <3>8. cause_sig(K, u, sig) = W
      BY <1>3, <1>9, <2>6, <2>10 DEF cause_sig
    <3>9. \A x \in Procs : SameWait(W.proc[x], K.proc[x])
      BY <1>7, <2>5, <3>4
    <3> QED
      BY <1>1, <2>5, <2>8, <3>6, <3>7, <3>8, <3>9
         DEF CausedTo, KernelSound, OthersSame, SameWait, SendsAs
  <2>11. CASE "PENDING" \notin s.p_flags
    <3> DEFINE F == {"PENDING", "SIG_PENDING"}
    <3>1. PICK S : S = Stopped(W, u, F)
      OBVIOUS
    <3>2. StoppedTo(W, u, F, S)
      <4>1. F \in SUBSET Flags /\ F # {}
        BY DEF Flags
      <4> QED
        BY <1>1, <2>2, <2>5, <2>7, <3>1, <4>1, StoppedKeeps
    <3>3. PICK G \in SUBSET Flags : G = s.p_flags \union F
      BY DEF ProcRecord, Flags
    <3>4. PICK q \in ProcRecord : q = Flagged(r, G)
      BY <2>2, FlagsTyped
    <3>5. /\ q.p_flags = G /\ q.p_pending = r.p_pending /\ q.p_pendcount = r.p_pendcount
          /\ q.p_callerq = s.p_callerq /\ q.p_sendto = s.p_sendto
          /\ q.p_priority = "USER" /\ q.p_int_blocked = s.p_int_blocked
          /\ q.p_getfrom = s.p_getfrom
      BY <2>2, <3>4, FlagsTyped
    <3>6. ~LeadsTasks(W, u)
      <4>1. \A p \in ReadyOf(W, "TASK") : p # u
        BY <2>2, <2>5 DEF ReadyOf
      <4> QED
        BY <2>5, <2>7, <4>1, HeadReady DEF LeadsTasks, QueueNames
    <3>7. /\ S \in KernelStates /\ OthersSame(W, S) /\ QueuesExact(S) /\ TasksStay(W, S)
          /\ Highest(S) /\ S.proc = [W.proc EXCEPT ![u] = q]
      BY <2>2, <2>5, <2>8, <3>2, <3>3, <3>4, <3>6 DEF StoppedTo
    <3>8. S.proc = [K.proc EXCEPT ![u] = q]
      BY <1>1, <1>2, <2>5, <3>7
    <3>9. S.sig_procs = K.sig_procs /\ K.sig_procs \in Int /\ S.told = K.told /\ S.m = K.m
          /\ S.due = K.due
      BY <1>1, <2>5, <3>7 DEF OthersSame, KernelStates
    <3>10. PICK V : V = [S EXCEPT !.sig_procs = K.sig_procs + 1]
      OBVIOUS
    <3>11. /\ V \in KernelStates /\ V.proc = S.proc /\ V.rdy = S.rdy /\ V.proc_ptr = S.proc_ptr
           /\ V.told = S.told /\ V.m = S.m /\ V.due = S.due /\ V.sig_procs = K.sig_procs + 1
      <4>1. K.sig_procs + 1 \in Int
        BY <3>9
      <4> QED
        BY <3>7, <3>10, <4>1 DEF KernelStates
    <3>12. V.proc[u] = q /\ \A x \in Procs \ {u} : V.proc[x] = K.proc[x]
      BY <1>1, <1>2, <3>8, <3>11
    <3>13. SameWait(q, K.proc[u])
      <4>1. /\ "SENDING" \in G <=> "SENDING" \in s.p_flags
            /\ "RECEIVING" \in G <=> "RECEIVING" \in s.p_flags
        BY <3>3
      <4> QED
        BY <1>3, <1>4, <3>5, <4>1 DEF SameWait, Sending, Receiving
    <3>14. SignalsSound(q, K.told[u])
      <4>1. "PENDING" \in q.p_flags /\ "SIG_PENDING" \in q.p_flags
        BY <3>3, <3>5
      <4> QED
        BY <1>6, <2>9, <3>5, <4>1 DEF SignalsSound
    <3>15. V.sig_procs = Cardinality(PendingProcs(V))
      <4>1. PendingProcs(V) = PendingProcs(K) \union {u} /\ u \notin PendingProcs(K)
        BY <1>1, <1>3, <2>11, <3>3, <3>5, <3>12 DEF PendingProcs
      <4>2. IsFiniteSet(PendingProcs(K))
        BY <1>1, PendingFacts
      <4>3. Cardinality(PendingProcs(V)) = Cardinality(PendingProcs(K)) + 1
        BY <4>1, <4>2, FS_AddElement
      <4> QED
        BY <1>1, <3>11, <4>3 DEF SignalsKept
    <3>16. QueuesExact(V)
      BY <3>7, <3>11, QueuesSame
    <3>17. SignalsChanged(K, u, q, V)
      BY <1>3, <3>5, <3>8, <3>9, <3>11, <3>13, <3>14, <3>15, <3>16 DEF SignalsChanged
    <3>18. KernelKept(V)
      BY <1>1, <3>17, KeptSignal
    <3>19. Highest(V) /\ TasksStay(K, V)
      BY <2>8, <3>7, <3>11, PickIs DEF TasksStay
    <3>20. V.proc[MM] = K.proc[MM]
      BY <1>1, <3>12
    <3>21. \A x \in Procs : SameWait(V.proc[x], K.proc[x])
      BY <1>7, <3>12, <3>13
    <3>22. cause_sig(K, u, sig) = IF MMFree(K) THEN inform(V) ELSE V
      <4>1. V = [S EXCEPT !.sig_procs = @ + 1]
        BY <3>9, <3>10
      <4> QED
        BY <1>3, <1>9, <2>6, <2>11, <3>1, <4>1 DEF cause_sig
    <3>23. CASE MMFree(K)
      <4>1. WaitsFor(K.proc[MM], HARDWARE)
        BY <1>1, <3>23, MMFreeIs
      <4>2. K.sig_procs = 0
        BY <1>1, <4>1 DEF MMHears
      <4>3. PICK L : L = inform(V)
        OBVIOUS
      <4>4. InformedTo(V, L)
        BY <3>11, <3>18, <3>20, <4>1, <4>2, <4>3, InformKept
      <4>5. /\ KernelSound(L) /\ TasksStay(V, L) /\ L.due = V.due
            /\ L.m.source = V.m.source /\ L.m.body = Writes(K)
            /\ \A x \in Procs \ {MM} : SameWait(L.proc[x], V.proc[x])
            /\ L.proc[MM].p_int_blocked = V.proc[MM].p_int_blocked
            /\ SendsAs(L.proc[MM], V.proc[MM])
        BY <3>9, <3>11, <4>4 DEF InformedTo, Writes
      <4>6. \A x \in Procs \ {MM} : SameWait(L.proc[x], K.proc[x])
        BY <3>21, <4>5 DEF SameWait
      <4>7. TasksStay(K, L)
        BY <3>19, <4>5 DEF TasksStay
      <4> QED
        BY <3>9, <3>11, <3>20, <3>22, <3>23, <4>1, <4>3, <4>5, <4>6, <4>7 DEF CausedTo
    <3>24. CASE ~MMFree(K)
      <4>1. MMHears(V)
        BY <1>1, <3>20, <3>24, MMFreeIs DEF MMHears
      <4>2. KernelSound(V)
        BY <3>18, <3>19, <4>1 DEF KernelSound
      <4> QED
        BY <1>1, <3>9, <3>11, <3>19, <3>20, <3>21, <3>22, <3>24, <4>2
           DEF CausedTo, SendsAs
    <3> QED
      BY <3>23, <3>24
  <2> QED
    BY <2>10, <2>11
<1> QED
  BY <1>8, <1>9

-----------------------------------------------------------------------------
(* RECEIVE, interrupts and the clock.                                      *)

(* A task or a server receives.                                            *)
LEMMA CallReceives ==
  ASSUME NEW K, KernelSound(K), RequestSound(K), NEW c \in Procs, K.proc_ptr = c,
         c \notin Users, K.m.body = "free", NEW src \in Procs \union {ANY},
         c = MM_PROC_NR => src # HARDWARE
  PROVE  CallDone(K, c, NIL, mini_rec(K, c, src))
<1> DEFINE MM == MM_PROC_NR
<1>1. /\ K \in KernelStates /\ QueuesExact(K) /\ KernelKept(K) /\ MMHears(K) /\ Highest(K)
      /\ MM \in Procs /\ K.due \subseteq Procs
  BY ProcFacts DEF KernelSound, KernelKept, KernelStates
<1>2. /\ c # HARDWARE /\ K.proc[c].p_priority # "NONE" /\ K.proc[c].p_flags = {}
  BY RunnerFacts
<1>3. CASE Found(K, c, src) # {}
  <2>1. PICK q \in Seq(Procs) : q = K.proc[c].p_callerq
    BY <1>1, EntryTyped
  <2>2. DOMAIN q \subseteq Nat
    BY <2>1, LenProperties
  <2>3. PICK F : F = Found(K, c, src)
    OBVIOUS
  <2>4. F \subseteq Nat /\ F # {} /\ F \subseteq DOMAIN q
    BY <1>3, <2>1, <2>2, <2>3 DEF Found
  <2>5. Min(F) \in F
    BY <2>4, MinNat
  <2>6. mini_rec(K, c, src) = TakeMessage(K, c, Min(F))
    BY <1>2, <1>3, <2>3 DEF mini_rec
  <2> QED
    BY <2>1, <2>4, <2>5, <2>6, CallTakes
<1>4. CASE Found(K, c, src) = {} /\ BlockedInterrupt(K, c, src)
  <2>1. mini_rec(K, c, src) = TakeInterrupt(K, c)
    BY <1>2, <1>4 DEF mini_rec
  <2> QED
    BY <2>1, CallInterrupted
<1>5. CASE Found(K, c, src) = {} /\ ~BlockedInterrupt(K, c, src)
  <2>1. PICK W : W = Paused(K, c, src)
    OBVIOUS
  <2>2. PICK L : L = mini_rec(K, c, src)
    OBVIOUS
  <2>3. L = IF TellNow(K, c, src) THEN inform(W) ELSE W
    BY <1>2, <1>5, <2>1, <2>2 DEF mini_rec, BlockReceiver, Paused
  <2>4. PausedTo(K, c, src, W)
    BY <1>1, <1>2, <2>1, ReceiveBlocks
  <2>5. MayPause(K, c, src)
    <3>1. \A s \in Range(K.proc[c].p_callerq) : src \notin {ANY, s}
      BY <1>5 DEF Found, Range
    <3>2. src \in {ANY, HARDWARE} => ~K.proc[c].p_int_blocked
      BY <1>5 DEF BlockedInterrupt, isrxhardware
    <3> QED
      BY <1>2, <3>1, <3>2 DEF MayPause
  <2>6. /\ KernelKept(W) /\ W.proc[c].p_flags = {"RECEIVING"}
        /\ (c = MM /\ src = ANY => K.sig_procs = 0) => MMHears(W)
    BY <1>1, <2>4, <2>5, PausedKept
  <2>7. /\ W \in KernelStates /\ OthersSame(K, W) /\ W.proc = [K.proc EXCEPT ![c] = W.proc[c]]
        /\ SameRest(W.proc[c], K.proc[c]) /\ W.proc[c].p_getfrom = src /\ Highest(W)
    BY <1>1, <2>4 DEF PausedTo
  <2>8. \A x \in Procs \ {c} : W.proc[x] = K.proc[x]
    BY <1>1, <2>7, EntryTyped
  <2>9. W.m.body = "free" /\ W.due = K.due /\ W.sig_procs = K.sig_procs
    BY <2>7 DEF OthersSame
  <2>10. \A x \in Procs : W.proc[x].p_int_blocked = K.proc[x].p_int_blocked
    BY <2>7, <2>8 DEF SameRest
  <2>11. CASE TellNow(K, c, src)
    <3>1. c = MM /\ src = ANY /\ K.sig_procs > 0
      BY <2>11 DEF TellNow
    <3>2. WaitsFor(W.proc[MM], HARDWARE)
      BY <2>6, <2>7, <3>1 DEF WaitsFor
    <3>3. W.sig_procs # 0
      BY <2>9, <3>1
    <3>4. L = inform(W)
      BY <2>3, <2>11
    <3>5. InformedTo(W, L)
      BY <2>6, <3>2, <3>3, <3>4, InformKept
    <3>6. /\ KernelSound(L) /\ L.due = W.due /\ L.m.body = "free"
          /\ \A x \in Procs \ {MM} : SameWait(L.proc[x], W.proc[x])
          /\ L.proc[MM].p_int_blocked = W.proc[MM].p_int_blocked
          /\ SendsAs(L.proc[MM], W.proc[MM])
      BY <2>9, <3>5 DEF InformedTo, Writes
    <3>7. DueKept(K, L)
      <4>1. \A x \in Procs : L.proc[x].p_int_blocked = K.proc[x].p_int_blocked
        BY <2>10, <3>6 DEF SameWait
      <4> QED
        BY <1>1, <2>9, <3>6, <4>1 DEF DueKept
    <3>8. WaitersStay(K, NIL, L)
      <4>1. ASSUME NEW u \in Users
            PROVE  u \in Procs \ {MM} /\ W.proc[u] = K.proc[u] /\ SameWait(L.proc[u], K.proc[u])
        BY <2>8, <3>1, <3>6, ProcFacts
      <4>2. \A u \in Users : \A x : WaitsFor(L.proc[u], x) <=> WaitsFor(K.proc[u], x)
        BY <4>1 DEF SameWait, WaitsFor, Sending, Receiving
      <4> QED
        BY <4>1, <4>2 DEF WaitersStay, SameWait
    <3>9. SentBy(K, c, NIL, L)
      BY <2>6, <2>8, <3>1, <3>6 DEF SentBy, SendsAs, SameWait, Sending
    <3> QED
      BY <2>2, <3>6, <3>7, <3>8, <3>9 DEF CallDone, RequestSound
  <2>12. CASE ~TellNow(K, c, src)
    <3>1. L = W
      BY <2>3, <2>12
    <3>2. c = MM /\ src = ANY => K.sig_procs = 0
      <4>1. K.sig_procs \in Nat
        BY <1>1, PendingFacts DEF KernelKept, SignalsKept
      <4> QED
        BY <2>12, <4>1 DEF TellNow
    <3>3. KernelSound(L)
      BY <2>6, <2>7, <3>1, <3>2 DEF KernelSound
    <3>4. DueKept(K, L)
      BY <1>1, <2>9, <2>10, <3>1 DEF DueKept
    <3>5. WaitersStay(K, NIL, L)
      BY <2>8, <3>1, ProcFacts DEF WaitersStay
    <3>6. SentBy(K, c, NIL, L)
      BY <2>6, <2>8, <3>1 DEF SentBy, SendsAs, Sending
    <3> QED
      BY <2>2, <2>9, <3>1, <3>3, <3>4, <3>5, <3>6 DEF CallDone, RequestSound
  <2> QED
    BY <2>11, <2>12
<1> QED
  BY <1>3, <1>4, <1>5

(* K with the mark b at t and the interrupts D due.                        *)
Marked(K, t, b, D) == [K EXCEPT !.proc = [K.proc EXCEPT ![t].p_int_blocked = b], !.due = D]

(* V is K after that.                                                      *)
MarkedTo(K, t, b, D, V) ==
  /\ KernelKept(V) /\ Highest(V) /\ MMHears(V) /\ V.rdy = K.rdy /\ V.m = K.m
  /\ V.due = D /\ V.proc[t].p_int_blocked = b
  /\ V.proc[t].p_flags = K.proc[t].p_flags /\ V.proc[t].p_sendto = K.proc[t].p_sendto
  /\ V.proc[t].p_priority = K.proc[t].p_priority
  /\ \A x \in Procs \ {t} : V.proc[x] = K.proc[x]

(* A task may be marked unless it waits for the hardware.                  *)
LEMMA MarkKept ==
  ASSUME NEW K, KernelSound(K), NEW t \in Drivers, NEW b \in BOOLEAN,
         b => ~WaitsFor(K.proc[t], HARDWARE), NEW D \in SUBSET Drivers
  PROVE  MarkedTo(K, t, b, D, Marked(K, t, b, D))
<1>1. /\ K \in KernelStates /\ QueuesExact(K) /\ KernelKept(K) /\ MMHears(K) /\ Highest(K)
      /\ EntriesSound(K) /\ t \in Tasks /\ t \in Procs
      /\ MM_PROC_NR \in Procs /\ MM_PROC_NR # t
  BY ProcFacts DEF KernelSound, KernelKept
<1>2. K.proc[t] \in ProcRecord /\ K.proc \in [Procs -> ProcRecord]
  BY <1>1, EntryTyped
<1>3. Sound(t, K.proc[t])
  BY <1>1 DEF EntriesSound
<1>4. PICK V : V = Marked(K, t, b, D)
  OBVIOUS
<1>5. PICK r : r = [K.proc[t] EXCEPT !.p_int_blocked = b]
  OBVIOUS
<1>6. /\ r \in ProcRecord /\ r.p_flags = K.proc[t].p_flags
      /\ r.p_priority = K.proc[t].p_priority
      /\ r.p_callerq = K.proc[t].p_callerq /\ r.p_sendto = K.proc[t].p_sendto
      /\ r.p_getfrom = K.proc[t].p_getfrom /\ r.p_int_blocked = b
      /\ r.p_pending = K.proc[t].p_pending /\ r.p_pendcount = K.proc[t].p_pendcount
  BY <1>2, <1>5 DEF ProcRecord
<1>7. V = [K EXCEPT !.proc = [K.proc EXCEPT ![t] = r], !.due = D]
  BY <1>4, <1>5 DEF Marked
<1>8. /\ V.proc = [K.proc EXCEPT ![t] = r] /\ V.due = D /\ V.rdy = K.rdy
      /\ V.proc_ptr = K.proc_ptr /\ V.told = K.told /\ V.sig_procs = K.sig_procs /\ V.m = K.m
  BY <1>1, <1>7 DEF KernelStates
<1>9. V \in KernelStates
  <2>1. [K.proc EXCEPT ![t] = r] \in [Procs -> ProcRecord]
    BY <1>2, <1>6
  <2> QED
    BY <1>1, <1>7, <2>1 DEF KernelStates
<1>10. V.proc[t] = r /\ \A x \in Procs \ {t} : V.proc[x] = K.proc[x]
  BY <1>1, <1>2, <1>8
<1>11. QueuesExact(V)
  <2>1. \A x \in Procs : /\ V.proc[x].p_priority = K.proc[x].p_priority
                         /\ V.proc[x].p_flags = {} <=> K.proc[x].p_flags = {}
    BY <1>6, <1>10
  <2> QED
    BY <1>1, <1>8, <2>1, QueuesSame
<1>12. /\ \A x : WaitsFor(r, x) <=> WaitsFor(K.proc[t], x)
       /\ Sending(r) <=> Sending(K.proc[t])
       /\ Receiving(r) <=> Receiving(K.proc[t])
  BY <1>6 DEF WaitsFor, Sending, Receiving
<1>13. Sound(t, r)
  BY <1>1, <1>3, <1>6, <1>12 DEF Sound
<1>14. SameSignals(r, K.proc[t]) /\ SameSender(r, K.proc[t])
  BY <1>6, <1>12 DEF SameSignals, SameSender
<1>15. KernelKept(V)
  BY <1>1, <1>6, <1>8, <1>9, <1>11, <1>13, <1>14, KeptBut
<1>16. Highest(V)
  BY <1>1, <1>8, <1>9, PickIs
<1>17. MMHears(V)
  BY <1>1, <1>8, <1>10 DEF MMHears
<1>18. MarkedTo(K, t, b, D, V)
  BY <1>6, <1>8, <1>10, <1>15, <1>16, <1>17 DEF MarkedTo
<1> QED
  BY <1>4, <1>18

(* L is K after an interrupt of t: a message, or a mark.                   *)
InterruptedTo(K, t, L) ==
  /\ KernelSound(L) /\ RequestSound(L) /\ WaitersStay(K, NIL, L)
  /\ NobodyStarts(K, L)
  /\ \A x \in L.due :
       \/ x = t /\ L.proc[t].p_int_blocked
       \/ x # t /\ x \in K.due /\ (K.proc[x].p_int_blocked => L.proc[x].p_int_blocked)

(* interrupt on a task.                                                    *)
LEMMA InterruptedKept ==
  ASSUME NEW K, KernelSound(K), RequestSound(K), NEW t \in Drivers
  PROVE  InterruptedTo(K, t, interrupt(K, t))
<1>1. /\ K \in KernelStates /\ QueuesExact(K) /\ KernelKept(K) /\ MMHears(K) /\ Highest(K)
      /\ EntriesSound(K) /\ t \in Tasks /\ t \in Procs /\ K.due \subseteq Procs
      /\ t \notin Servers /\ t \notin Users /\ MM_PROC_NR \in Procs /\ MM_PROC_NR # t
      /\ t # HARDWARE
  BY ProcFacts DEF KernelSound, KernelKept, KernelStates
<1>2. K.proc[t] \in ProcRecord /\ K.proc \in [Procs -> ProcRecord]
  BY <1>1, EntryTyped
<1>3. Sound(t, K.proc[t])
  BY <1>1 DEF EntriesSound
<1>4. PICK L : L = interrupt(K, t)
  OBVIOUS
<1>5. Accepts(K, t, HARDWARE) <=> WaitsFor(K.proc[t], HARDWARE)
  BY DEF Accepts, WaitsFor
<1>6. CASE Accepts(K, t, HARDWARE)
  <2>1. PICK D : D = K.due \ {t}
    OBVIOUS
  <2>2. PICK V : V = Marked(K, t, FALSE, D)
    OBVIOUS
  <2>3. /\ KernelKept(V) /\ Highest(V) /\ MMHears(V) /\ V.rdy = K.rdy /\ V.m = K.m
        /\ V.due = D /\ V.proc[t].p_flags = K.proc[t].p_flags
        /\ V.proc[t].p_priority = K.proc[t].p_priority
        /\ \A x \in Procs \ {t} : V.proc[x] = K.proc[x]
    <3>1. D \in SUBSET Drivers
      BY <1>1, <2>1 DEF KernelStates
    <3>2. MarkedTo(K, t, FALSE, D, V)
      BY <2>2, <3>1, MarkKept
    <3> QED
      BY <3>2 DEF MarkedTo
  <2>4. Receiving(V.proc[t]) /\ ~Sending(V.proc[t])
    BY <1>6, <2>3 DEF Accepts, Receiving, Sending
  <2>5. V.proc[t].p_flags \ {"RECEIVING"} = {}
    BY <1>1, <1>3, <2>3, <2>4 DEF Sound, Sending
  <2>6. L = Released(V, t, {"RECEIVING"})
    <3>1. V \in KernelStates
      BY <2>3 DEF KernelKept
    <3>2. PICK U : U = [V EXCEPT !.proc[t].p_flags = @ \ {"RECEIVING"}]
      OBVIOUS
    <3>3. [K EXCEPT !.proc[t].p_flags = @ \ {"RECEIVING"}, !.proc[t].p_int_blocked = FALSE,
                    !.due = @ \ {t}] = U
      <4>1. K.proc[t] \in ProcRecord
        BY <1>2
      <4>2. [[K.proc[t] EXCEPT !.p_flags = @ \ {"RECEIVING"}] EXCEPT !.p_int_blocked = FALSE]
             = [[K.proc[t] EXCEPT !.p_int_blocked = FALSE] EXCEPT !.p_flags = @ \ {"RECEIVING"}]
        BY <4>1 DEF ProcRecord
      <4>3. [[K.proc EXCEPT ![t].p_flags = @ \ {"RECEIVING"}] EXCEPT ![t].p_int_blocked = FALSE]
             = [[K.proc EXCEPT ![t].p_int_blocked = FALSE] EXCEPT ![t].p_flags = @ \ {"RECEIVING"}]
        BY <1>1, <1>2, <4>2
      <4> QED
        BY <1>1, <2>1, <2>2, <3>2, <4>3 DEF KernelStates, Marked
    <3>4. U.proc[t].p_flags = {}
      <4>1. V.proc \in [Procs -> ProcRecord]
        BY <3>1 DEF KernelStates
      <4>2. U.proc = [V.proc EXCEPT ![t].p_flags = @ \ {"RECEIVING"}]
        BY <3>1, <3>2 DEF KernelStates
      <4>3. U.proc[t] = [V.proc[t] EXCEPT !.p_flags = @ \ {"RECEIVING"}]
        BY <1>1, <4>1, <4>2
      <4> QED
        BY <1>1, <2>5, <4>1, <4>3 DEF ProcRecord
    <3>5. Released(V, t, {"RECEIVING"}) = ready(U, t)
      BY <3>2, <3>4 DEF Released
    <3>6. L = ready(U, t)
      BY <1>4, <1>6, <3>3 DEF interrupt
    <3> QED
      BY <3>5, <3>6
  <2>7. KernelKept(L) /\ ReleasedTo(V, t, {"RECEIVING"}, L)
    BY <1>1, <2>3, <2>4, <2>6, WakeKept
  <2>8. V.proc[t].p_priority = "TASK"
    BY <1>1, <1>3, <2>3 DEF Sound
  <2>9. /\ OthersSame(V, L) /\ TasksStay(V, L) /\ Highest(L)
        /\ L.proc = [V.proc EXCEPT ![t] = Flagged(V.proc[t], V.proc[t].p_flags \ {"RECEIVING"})]
    BY <2>3, <2>7, <2>8 DEF ReleasedTo
  <2>10. \A x \in Procs \ {t} : L.proc[x] = K.proc[x]
    BY <2>3, <2>9, EntryTyped DEF KernelKept
  <2>11. MMHears(L)
    BY <1>1, <2>3, <2>9, <2>10 DEF MMHears, OthersSame
  <2>12. RequestSound(L)
    <3>1. L.m = K.m
      BY <2>3, <2>9 DEF OthersSame
    <3>2. \A s \in Servers : L.proc[s] = K.proc[s]
      BY <1>1, <2>10, ProcFacts
    <3>3. TasksStay(K, L)
      BY <2>3, <2>9 DEF TasksStay
    <3> QED
      BY <3>1, <3>2, <3>3 DEF RequestSound, TasksStay
  <2>13. WaitersStay(K, NIL, L)
    BY <1>1, <2>10, ProcFacts DEF WaitersStay
  <2>14. L.due = K.due \ {t}
    BY <2>1, <2>3, <2>9 DEF OthersSame
  <2>15. ~Sending(L.proc[t])
    <3>1. V.proc \in [Procs -> ProcRecord] /\ V.proc[t].p_flags \ {"RECEIVING"} \in SUBSET Flags
      BY <1>1, <2>3, EntryTyped DEF KernelKept, KernelStates
    <3>2. L.proc[t].p_flags = {}
      BY <1>1, <2>5, <2>9, <3>1, FlagsTyped
    <3> QED
      BY <3>2 DEF Sending
  <2>16. NobodyStarts(K, L)
    BY <2>10, <2>15 DEF NobodyStarts, SendsAs
  <2> QED
    BY <1>1, <1>4, <2>7, <2>9, <2>10, <2>11, <2>12, <2>13, <2>14, <2>16
       DEF InterruptedTo, KernelSound
<1>7. CASE ~Accepts(K, t, HARDWARE)
  <2>1. PICK D : D = K.due \union {t}
    OBVIOUS
  <2>2. L = Marked(K, t, TRUE, D)
    BY <1>1, <1>4, <1>7, <2>1 DEF interrupt, KernelStates, Marked
  <2>3. D \in SUBSET Drivers
    BY <1>1, <2>1 DEF KernelStates
  <2>4. /\ KernelKept(L) /\ Highest(L) /\ MMHears(L) /\ L.rdy = K.rdy /\ L.m = K.m
        /\ L.due = D /\ L.proc[t].p_int_blocked = TRUE
        /\ L.proc[t].p_flags = K.proc[t].p_flags /\ L.proc[t].p_sendto = K.proc[t].p_sendto
        /\ \A x \in Procs \ {t} : L.proc[x] = K.proc[x]
    <3>1. MarkedTo(K, t, TRUE, D, L)
      BY <1>5, <1>7, <2>2, <2>3, MarkKept
    <3> QED
      BY <3>1 DEF MarkedTo
  <2>5. RequestSound(L)
    <3>1. \A s \in Servers : L.proc[s] = K.proc[s]
      BY <1>1, <2>4, ProcFacts
    <3> QED
      BY <2>4, <3>1 DEF RequestSound
  <2>6. WaitersStay(K, NIL, L)
    BY <1>1, <2>4, ProcFacts DEF WaitersStay
  <2>7. NobodyStarts(K, L)
    BY <2>4 DEF NobodyStarts, SendsAs, Sending
  <2> QED
    BY <1>1, <1>4, <2>1, <2>4, <2>5, <2>6, <2>7 DEF InterruptedTo, KernelSound
<1> QED
  BY <1>6, <1>7

(* A turn of the users' queue.                                             *)
LEMMA SchedKept ==
  ASSUME NEW K, KernelSound(K), RequestSound(K), NEW n \in DOMAIN K.rdy.USER
  PROVE  /\ KernelSound(sched(K, n)) /\ RequestSound(sched(K, n))
         /\ sched(K, n).proc = K.proc /\ sched(K, n).due = K.due
<1>1. /\ K \in KernelStates /\ QueuesExact(K) /\ KernelKept(K) /\ MMHears(K) /\ Highest(K)
      /\ EntriesSound(K) /\ SignalsKept(K) /\ SendersExact(K)
  BY DEF KernelSound, KernelKept
<1>2. PICK s \in Seq(Procs) : s = K.rdy["USER"]
  BY <1>1 DEF KernelStates, QueueNames
<1>3. n \in 1..Len(s) /\ IsInjective(s) /\ Range(s) = ReadyOf(K, "USER")
  BY <1>1, <1>2, LenProperties DEF QueuesExact, QueueNames
<1>4. PICK t : t = SubSeq(s, n + 1, Len(s)) \o SubSeq(s, 1, n)
  OBVIOUS
<1>5. t \in Seq(Procs) /\ IsInjective(t) /\ Range(t) = Range(s)
  BY <1>3, <1>4, TurnedFacts
<1>6. PICK W : W = [K EXCEPT !.rdy = [K.rdy EXCEPT !["USER"] = t]]
  OBVIOUS
<1>7. /\ W.rdy = [K.rdy EXCEPT !["USER"] = t] /\ W.proc = K.proc /\ OthersSame(K, W)
  BY <1>1, <1>6 DEF KernelStates, OthersSame
<1>8. W \in KernelStates
  <2>1. [K.rdy EXCEPT !["USER"] = t] \in [QueueNames -> Seq(Procs)]
    BY <1>1, <1>5 DEF KernelStates
  <2> QED
    BY <1>1, <1>6, <2>1 DEF KernelStates
<1>9. PICK L : L = pick_proc(W)
  OBVIOUS
<1>10. /\ L \in KernelStates /\ L.proc = W.proc /\ L.rdy = W.rdy /\ OthersSame(W, L) /\ Highest(L)
  <2>1. L = [W EXCEPT !.proc_ptr = First(W.rdy)] /\ L \in KernelStates
    BY <1>8, <1>9, PickIs
  <2>2. L.proc = W.proc /\ L.rdy = W.rdy /\ OthersSame(W, L) /\ L.proc_ptr = First(W.rdy)
    BY <1>8, <2>1 DEF KernelStates, OthersSame
  <2> QED
    BY <2>1, <2>2, PickIs
<1>11. L = sched(K, n)
  <2>1. [K EXCEPT !.rdy.USER = SubSeq(@, n + 1, Len(@)) \o SubSeq(@, 1, n)] = W
    BY <1>2, <1>4, <1>6
  <2> QED
    BY <1>9, <2>1 DEF sched
<1>12. /\ L.proc = K.proc /\ L.due = K.due /\ L.m = K.m /\ L.told = K.told
       /\ L.sig_procs = K.sig_procs
  BY <1>7, <1>10 DEF OthersSame
<1>13. \A q \in QueueNames : L.rdy[q] = IF q = "USER" THEN t ELSE K.rdy[q]
  BY <1>1, <1>7, <1>10 DEF KernelStates
<1>14. QueuesExact(L)
  <2>1. \A q : ReadyOf(L, q) = ReadyOf(K, q)
    BY <1>12 DEF ReadyOf
  <2> QED
    BY <1>1, <1>3, <1>5, <1>13, <2>1 DEF QueuesExact
<1>15. PendingProcs(L) = PendingProcs(K)
  BY <1>12 DEF PendingProcs
<1>16. /\ EntriesSound(L) /\ SignalsKept(L) /\ MMHears(L)
  BY <1>1, <1>12, <1>15 DEF EntriesSound, SignalsKept, MMHears
<1>17. SendersExact(L)
  BY <1>1, <1>12 DEF SendersExact, SendersOf
<1>18. KernelSound(L)
  BY <1>10, <1>14, <1>16, <1>17 DEF KernelSound, KernelKept
<1>19. RequestSound(L)
  BY <1>12, <1>13 DEF RequestSound, QueueNames
<1> QED
  BY <1>11, <1>12, <1>18, <1>19


-----------------------------------------------------------------------------
(* Circles of senders.                                                     *)

(* Among any processes there is one that sends to none of them.            *)
NoCircle(K) ==
  \A S \in SUBSET Procs :
    S # {} => \E p \in S : ~(Sending(K.proc[p]) /\ K.proc[p].p_sendto \in S)

(* Where mini_send looks after p.                                          *)
Hop(p) == IF p # NIL /\ "SENDING" \in proc[p].p_flags THEN proc[p].p_sendto ELSE NIL

(* The places it looks at for d, n of them after the first.                *)
Hops(d, n) ==
  CHOOSE hop : hop = [k \in 0..n |-> Hop(IF k = 0 THEN d ELSE hop[k - 1])]

(* There is such a row, which leads from one place to the next.            *)
LEMMA HopsAre ==
  ASSUME NEW d, NEW n \in Nat
  PROVE  Hops(d, n) = [k \in 0..n |-> Hop(IF k = 0 THEN d ELSE Hops(d, n)[k - 1])]
<1> DEFINE Row(f, k) == f = [i \in 0..k |-> Hop(IF i = 0 THEN d ELSE f[i - 1])]
           bad == {k \in 0..n : ~ \E f : Row(f, k)}
<1>1. ASSUME bad # {}
      PROVE  FALSE
  <2>1. PICK k \in bad : \A j \in bad : k <= j
    <3>1. bad \subseteq Nat /\ bad # {}
      BY <1>1
    <3> HIDE DEF bad
    <3>2. Min(bad) \in bad /\ \A j \in bad : Min(bad) <= j
      BY <3>1, MinNat, Zenon
    <3> QED
      BY <3>2
  <2>2. CASE k = 0
    <3>1. PICK f : f = [i \in 0..0 |-> Hop(d)]
      OBVIOUS
    <3>2. Row(f, 0)
      BY <3>1
    <3> QED
      BY <2>1, <2>2, <3>2
  <2>3. CASE k # 0
    <3>1. k - 1 \in 0..n /\ k - 1 \notin bad /\ k \in Nat \ {0}
      BY <2>1, <2>3
    <3>2. PICK g : Row(g, k - 1)
      BY <3>1
    <3>3. PICK f : f = [i \in 0..k |-> IF i = k THEN Hop(g[k - 1]) ELSE g[i]]
      OBVIOUS
    <3>4. ASSUME NEW i \in 0..k
          PROVE  f[i] = Hop(IF i = 0 THEN d ELSE f[i - 1])
      <4>1. CASE i = k
        BY <3>1, <3>3, <4>1
      <4>2. CASE i # k
        <5>1. i \in 0..k - 1 /\ f[i] = g[i]
          BY <3>1, <3>3, <4>2
        <5>2. g[i] = Hop(IF i = 0 THEN d ELSE g[i - 1])
          BY <3>2, <5>1
        <5>3. i # 0 => f[i - 1] = g[i - 1]
          BY <3>1, <3>3, <4>2
        <5> QED
          BY <5>1, <5>2, <5>3
      <4> QED
        BY <4>1, <4>2
    <3>5. Row(f, k)
      BY <3>3, <3>4
    <3> QED
      BY <2>1, <3>5
  <2> QED
    BY <2>2, <2>3
<1>2. \E f : Row(f, n)
  BY <1>1
<1> QED
  BY <1>2 DEF Hops

(* The chain of d is where mini_send looks.                                *)
LEMMA ChainIs ==
  ASSUME NEW d
  PROVE  Chain(d) = {Hops(d, Cardinality(Procs))[n] : n \in 0 .. Cardinality(Procs)} \ {NIL}
BY DEF Chain, Hops, Hop

(* There are finitely many processes.                                      *)
LEMMA FiniteProcs == IsFiniteSet(Procs) /\ Cardinality(Procs) \in Nat
<1>1. IsFiniteSet(Servers)
  <2>1. IsFiniteSet({MM_PROC_NR}) /\ IsFiniteSet({FS_PROC_NR})
    BY FS_Singleton
  <2>2. Servers = {MM_PROC_NR} \union {FS_PROC_NR}
    BY DEF Servers
  <2> QED
    BY <2>1, <2>2, FS_Union
<1>2. IsFiniteSet(Tasks)
  BY ProcAssumption
<1>3. IsFiniteSet(Tasks \union Servers)
  BY <1>1, <1>2, FS_Union
<1>4. IsFiniteSet((Tasks \union Servers) \union Users)
  BY <1>3, FiniteUsers, FS_Union
<1> QED
  BY <1>4, FS_CardinalityType DEF Procs

(* When nobody starts to send, no circle comes up.                         *)
LEMMA CircleSame ==
  ASSUME NEW K, NoCircle(K), NEW L, NobodyStarts(K, L)
  PROVE  NoCircle(L)
<1> SUFFICES ASSUME NEW S \in SUBSET Procs, S # {}
             PROVE  \E p \in S : ~(Sending(L.proc[p]) /\ L.proc[p].p_sendto \in S)
  BY DEF NoCircle
<1>1. PICK p \in S : ~(Sending(K.proc[p]) /\ K.proc[p].p_sendto \in S)
  BY DEF NoCircle
<1>2. SendsAs(L.proc[p], K.proc[p])
  BY DEF NobodyStarts
<1> QED
  BY <1>1, <1>2 DEF SendsAs

(* Whoever mini_send finds sending to c sends to a process.                *)
LEMMA HopTyped ==
  ASSUME KernelKept(Kernel), NEW p \in Procs
  PROVE  /\ Sending(proc[p]) => Hop(p) = proc[p].p_sendto /\ Hop(p) \in Procs
         /\ ~Sending(proc[p]) => Hop(p) = NIL
         /\ Hop(NIL) = NIL
<1>1. Sound(p, proc[p]) /\ p # NIL /\ NIL \notin Procs
  BY ProcFacts DEF KernelKept, EntriesSound, Kernel
<1>2. Sending(proc[p]) => proc[p].p_sendto \in Procs
  BY <1>1 DEF Sound, Procs
<1> QED
  BY <1>1, <1>2 DEF Hop, Sending

(* c starts to send to d, and mini_send has not found c behind d: a circle *)
(* would lead from d to c, or there would be one without c already.        *)
LEMMA CircleRefused ==
  ASSUME KernelKept(Kernel), NoCircle(Kernel), NEW c \in Procs, NEW d \in Procs, c # d,
         ~Locked(c, d), NEW L, SentBy(Kernel, c, d, L)
  PROVE  NoCircle(L)
<1> SUFFICES ASSUME NEW S \in SUBSET Procs, S # {},
                    \A p \in S : Sending(L.proc[p]) /\ L.proc[p].p_sendto \in S
             PROVE  FALSE
  BY DEF NoCircle
<1>1. Kernel.proc = proc
  BY DEF Kernel
<1>2. \A p \in S \ {c} : Sending(proc[p]) /\ proc[p].p_sendto \in S
  BY <1>1 DEF SentBy, SendsAs
<1>3. CASE c \notin S
  BY <1>1, <1>2, <1>3 DEF NoCircle
<1>4. CASE c \in S
  <2>1. d \in S \ {c}
    BY <1>4 DEF SentBy
  <2>2. PICK N \in Nat : N = Cardinality(Procs)
    BY FiniteProcs
  <2>3. PICK h : h = Hops(d, N)
    OBVIOUS
  <2>4. h = [k \in 0..N |-> Hop(IF k = 0 THEN d ELSE h[k - 1])]
    BY <2>3, HopsAre
  <2>5. \A k \in 0..N : h[k] # c
    <3>1. c # NIL
      BY ProcFacts
    <3> QED
      BY <2>2, <2>3, <3>1, ChainIs DEF Locked
  <2>6. ASSUME NEW p \in S \ {c} PROVE Hop(p) \in S /\ Hop(p) = proc[p].p_sendto
    BY <1>2, HopTyped
  <2>7. \A k \in 0..N : h[k] \in S \ {c}
    <3> DEFINE bad == {k \in 0..N : h[k] \notin S \ {c}}
    <3>1. SUFFICES ASSUME bad # {} PROVE FALSE
      OBVIOUS
    <3>2. PICK k \in bad : \A j \in bad : k <= j
      <4>1. bad \subseteq Nat /\ bad # {}
        BY <3>1
      <4> HIDE DEF bad
      <4>2. Min(bad) \in bad /\ \A j \in bad : Min(bad) <= j
        BY <4>1, MinNat, Zenon
      <4> QED
        BY <4>2
    <3>3. k \in 0..N /\ h[k] = Hop(IF k = 0 THEN d ELSE h[k - 1]) /\ h[k] # c
      BY <2>4, <2>5, <3>2
    <3>4. CASE k = 0
      BY <2>1, <2>6, <3>2, <3>3, <3>4
    <3>5. CASE k # 0
      <4>1. k - 1 \in 0..N /\ k - 1 \notin bad
        BY <3>2, <3>5
      <4>2. h[k - 1] \in S \ {c}
        BY <4>1
      <4> QED
        BY <2>6, <3>2, <3>3, <3>5, <4>2
    <3> QED
      BY <3>4, <3>5
  <2>8. PICK a, b \in 0..N : a < b /\ h[a] = h[b]
    <3>1. IsFiniteSet(0..N) /\ Cardinality(0..N) = N + 1
      BY FS_Interval
    <3>2. Cardinality(Procs) < Cardinality(0..N)
      BY <2>2, <3>1
    <3>3. h \in [0..N -> Procs]
      BY <2>4, <2>7
    <3>4. \E x, y \in 0..N : x # y /\ h[x] = h[y]
      BY <3>1, <3>2, <3>3, FiniteProcs, FS_PigeonHole
    <3>5. PICK x, y \in 0..N : x # y /\ h[x] = h[y]
      BY <3>4
    <3> QED
      BY <3>5
  <2>9. PICK T : T = {h[k] : k \in a .. b - 1}
    OBVIOUS
  <2>10. T \subseteq Procs /\ T # {}
    <3>1. a \in a .. b - 1 /\ a .. b - 1 \subseteq 0..N
      BY <2>8
    <3> QED
      BY <2>7, <2>9, <3>1
  <2>11. ASSUME NEW p \in T PROVE Sending(proc[p]) /\ proc[p].p_sendto \in T
    <3>1. PICK k \in a .. b - 1 : p = h[k]
      BY <2>9
    <3>2. k \in 0..N /\ k + 1 \in 0..N /\ k + 1 # 0 /\ (k + 1) - 1 = k
      BY <2>8, <3>1
    <3>3. p \in S \ {c} /\ h[k + 1] = Hop(p)
      BY <2>4, <2>7, <3>1, <3>2
    <3>4. Sending(proc[p]) /\ proc[p].p_sendto = h[k + 1]
      BY <1>2, <2>6, <3>3
    <3>5. h[k + 1] \in T
      <4>1. CASE k + 1 = b
        BY <2>8, <2>9, <4>1
      <4>2. CASE k + 1 # b
        <5>1. k + 1 \in a .. b - 1
          BY <2>8, <3>1, <4>2
        <5> QED
          BY <2>9, <5>1
      <4> QED
        BY <4>1, <4>2
    <3> QED
      BY <3>4, <3>5
  <2> QED
    BY <1>1, <2>10, <2>11 DEF NoCircle
<1> QED
  BY <1>3, <1>4

(* Then nobody is found behind itself.                                     *)
LEMMA CircleMeans ==
  ASSUME KernelKept(Kernel), NoCircle(Kernel)
  PROVE  NoSenderCycle
<1> SUFFICES ASSUME NEW p \in Procs, Sending(proc[p]), p \in Chain(p)
             PROVE  FALSE
  BY DEF NoSenderCycle, Sending
<1>1. PICK N \in Nat : N = Cardinality(Procs)
  BY FiniteProcs
<1>2. PICK h : h = Hops(p, N)
  OBVIOUS
<1>3. h = [k \in 0..N |-> Hop(IF k = 0 THEN p ELSE h[k - 1])]
  BY <1>2, HopsAre
<1>4. PICK n \in 0..N : h[n] = p
  BY <1>1, <1>2, ChainIs
<1>5. p # NIL /\ NIL \notin Procs
  BY ProcFacts
<1>6. \A k \in 0..N : h[k] \in Procs \union {NIL}
  <2> DEFINE bad == {k \in 0..N : h[k] \notin Procs \union {NIL}}
  <2>1. SUFFICES ASSUME bad # {} PROVE FALSE
    OBVIOUS
  <2>2. PICK k \in bad : \A j \in bad : k <= j
    <3>1. bad \subseteq Nat /\ bad # {}
      BY <2>1
    <3> HIDE DEF bad
    <3>2. Min(bad) \in bad /\ \A j \in bad : Min(bad) <= j
      BY <3>1, MinNat, Zenon
    <3> QED
      BY <3>2
  <2>3. k \in 0..N /\ h[k] = Hop(IF k = 0 THEN p ELSE h[k - 1])
    BY <1>3, <2>2
  <2>4. \A q \in Procs \union {NIL} : Hop(q) \in Procs \union {NIL}
    BY HopTyped
  <2>5. CASE k = 0
    BY <2>2, <2>3, <2>4, <2>5
  <2>6. CASE k # 0
    <3>1. k - 1 \in 0..N /\ k - 1 \notin bad
      BY <2>2, <2>6
    <3> QED
      BY <2>2, <2>3, <2>4, <2>6, <3>1
  <2> QED
    BY <2>5, <2>6
<1>7. \A k \in 0..n : h[k] # NIL
  <2> DEFINE bad == {j \in 0..n : h[n - j] = NIL}
  <2>1. SUFFICES ASSUME bad # {} PROVE FALSE
    <3> SUFFICES ASSUME NEW k \in 0..n, h[k] = NIL PROVE n - k \in bad
      OBVIOUS
    <3> QED
      OBVIOUS
  <2>2. PICK j \in bad : \A i \in bad : j <= i
    <3>1. bad \subseteq Nat /\ bad # {}
      BY <2>1
    <3> HIDE DEF bad
    <3>2. Min(bad) \in bad /\ \A i \in bad : Min(bad) <= i
      BY <3>1, MinNat, Zenon
    <3> QED
      BY <3>2
  <2>3. j # 0
    BY <1>4, <1>5, <2>2
  <2>4. j - 1 \in 0..n /\ j - 1 \notin bad /\ n - (j - 1) = (n - j) + 1
    BY <2>2, <2>3
  <2>5. (n - j) + 1 \in 0..N /\ (n - j) + 1 # 0 /\ ((n - j) + 1) - 1 = n - j
    BY <2>2, <2>3
  <2>6. h[(n - j) + 1] = Hop(NIL)
    BY <1>3, <2>2, <2>5
  <2> QED
    BY <2>4, <2>6, HopTyped
<1>8. PICK S : S = {h[k] : k \in 0..n}
  OBVIOUS
<1>9. S \subseteq Procs /\ S # {} /\ p \in S
  BY <1>4, <1>6, <1>7, <1>8
<1>10. ASSUME NEW k \in 0..n PROVE Sending(proc[h[k]]) /\ proc[h[k]].p_sendto \in S
  <2>1. h[k] \in Procs
    BY <1>8, <1>9
  <2>2. CASE k = n
    <3>1. h[0] = Hop(p) /\ h[0] \in S
      BY <1>3, <1>8
    <3> QED
      BY <1>4, <2>2, <3>1, HopTyped
  <2>3. CASE k # n
    <3>1. k + 1 \in 0..n /\ k + 1 \in 0..N /\ k + 1 # 0 /\ (k + 1) - 1 = k
      BY <2>3
    <3>2. h[k + 1] = Hop(h[k]) /\ h[k + 1] \in S /\ h[k + 1] # NIL
      BY <1>3, <1>7, <1>8, <3>1
    <3> QED
      BY <2>1, <3>2, HopTyped
  <2> QED
    BY <2>2, <2>3
<1> QED
  BY <1>8, <1>9, <1>10 DEF NoCircle, Kernel
=============================================================================
