----------------------------- MODULE MCMessages -----------------------------
(* A finite instance of Messages: SYSTASK and one driver that signals,      *)
(* calls lock_sched and revives through FS, the servers, INIT and one more  *)
(* user slot.                                                               *)
EXTENDS Messages, TLC

Alike == Permutations(Sigs)

TTY == -4
MCTasks == {HARDWARE, SYSTASK, TTY}
MCDrivers == {TTY}
MCKillers == {TTY}

(* MM calls SYSTASK and FS, FS calls SYSTASK and the driver and, when       *)
(* refused, takes the message the driver has for it; it answers, and the    *)
(* driver revives a caller over FS. A user calls MM, and all but INIT also  *)
(* call FS. The kernel refuses INIT's plain SEND and its call of the        *)
(* driver.                                                                  *)
MCCalls ==
  {<<MM_PROC_NR, "BOTH", SYSTASK>>, <<MM_PROC_NR, "BOTH", FS_PROC_NR>>,
   <<FS_PROC_NR, "RECEIVE", ANY>>, <<FS_PROC_NR, "BOTH", SYSTASK>>,
   <<FS_PROC_NR, "BOTH", TTY>>, <<FS_PROC_NR, "RECEIVE", TTY>>,
   <<FS_PROC_NR, "SEND", MM_PROC_NR>>, <<FS_PROC_NR, "BOTH", MM_PROC_NR>>,
   <<TTY, "RECEIVE", ANY>>, <<TTY, "SEND", FS_PROC_NR>>}
  \union {<<FS_PROC_NR, "SEND", u>> : u \in Users}
  \union {<<u, "BOTH", MM_PROC_NR>> : u \in Users}
  \union {<<u, "BOTH", FS_PROC_NR>> : u \in Users \ {INIT_PROC_NR}}
  \union {<<INIT_PROC_NR, "SEND", MM_PROC_NR>>, <<INIT_PROC_NR, "BOTH", TTY>>}

(* p_sendto is read only together with SENDING, p_getfrom only together     *)
(* with RECEIVING and the source of m only while m is in use: what an       *)
(* earlier call left there does not tell states apart.                      *)
View ==
  <<[p \in Procs |-> [proc[p] EXCEPT
       !.p_sendto = IF "SENDING" \in proc[p].p_flags THEN @ ELSE NIL,
       !.p_getfrom = IF "RECEIVING" \in proc[p].p_flags THEN @ ELSE NIL]],
    rdy, proc_ptr, sig_procs, told, IF m.body = "free" THEN NIL ELSE m,
    due, mode, held, unholding, mm_at, replies>>
=============================================================================
