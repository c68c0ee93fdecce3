---------------------------- MODULE PriorityChat ----------------------------
(***************************************************************************)
(* What both message services of the repository promise their users: a     *)
(* bounded FIFO queue for each class of sender, and a console that shows a *)
(* message of the normal class only when no privileged message waits.  In  *)
(* soi3/ (module Chat) each class has a ring of its own; in soi4/ (module  *)
(* MessageBuffer) the classes share one list.  Both refine this module.    *)
(***************************************************************************)
EXTENDS Naturals, Sequences

CONSTANTS
  Senders,    (* the producer processes                                    *)
  Class,      (* Class[s]: "normal" or "priority", the class s writes to  *)
  Shared,     (* whether the two classes share one capacity                *)
  Capacity    (* the number of messages a class, or both, can hold         *)

VARIABLES
  posted,     (* posted[s]: how many messages s has handed over            *)
  queue,      (* queue[c]: the messages of class c that wait, oldest first *)
  console     (* the messages shown, in the order they were shown          *)

chatVars == <<posted, queue, console>>

ChatInit ==
  /\ posted = [s \in Senders |-> 0]
  /\ queue = [c \in {"normal", "priority"} |-> <<>>]
  /\ console = <<>>

(* There is room for one more message of class c.                          *)
Room(c) ==
  IF Shared
  THEN Len(queue["normal"]) + Len(queue["priority"]) < Capacity
  ELSE Len(queue[c]) < Capacity

(* Sender s hands over its next message.                                   *)
Post(s) ==
  LET c == Class[s]
  IN  /\ Room(c)
      /\ queue' = [queue EXCEPT ![c] = Append(@, <<s, posted[s]>>)]
      /\ posted' = [posted EXCEPT ![s] = @ + 1]
      /\ UNCHANGED console

(* The oldest message of class c is shown; a privileged one goes first.    *)
Show(c) ==
  /\ queue[c] # <<>>
  /\ c = "normal" => queue["priority"] = <<>>
  /\ console' = Append(console, Head(queue[c]))
  /\ queue' = [queue EXCEPT ![c] = Tail(@)]
  /\ UNCHANGED posted

ChatNext ==
  \/ \E s \in Senders : Post(s)
  \/ \E c \in {"normal", "priority"} : Show(c)

ChatSpec == ChatInit /\ [][ChatNext]_chatVars
=============================================================================
