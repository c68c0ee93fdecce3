------------------------------- MODULE MCChat -------------------------------
(* Small instances of Chat for TLC.                                        *)
EXTENDS Chat, TLC

CONSTANTS t1, t2, p1, r1, r2

(* One normal and one privileged sender.                                   *)
MCPair == (t1 :> Tx) @@ (p1 :> Px)

(* Two normal senders that compete for the ring, and a privileged one.     *)
MCTrio == (t1 :> BurstTx) @@ (t2 :> SpamTx) @@ (p1 :> SpamPx)

(* The privileged sender is burstpx.                                       *)
MCBurst == (t1 :> Tx) @@ (p1 :> BurstPx)
=============================================================================
