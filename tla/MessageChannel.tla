--------------------------- MODULE MessageChannel ---------------------------
(***************************************************************************)
(* What the driver promises to the reader of an open descriptor: messages  *)
(* arrive in the order they were accepted, each once, and a read waits     *)
(* only while nothing is pending.  OpenDesc implements it with out_queue,  *)
(* the parked IRP and the direct delivery of os/winnt/kernel/manager.c.    *)
(***************************************************************************)
EXTENDS Naturals, Sequences

CONSTANT Channel
VARIABLES accepted,   (* number of the last message accepted               *)
          delivered,  (* number of the last message the reader got         *)
          pending,    (* numbers of the messages not yet delivered          *)
          waiting     (* a read waits for a message                         *)

chanVars == <<accepted, delivered, pending, waiting>>

Init ==
  /\ accepted = [c \in Channel |-> 0]
  /\ delivered = [c \in Channel |-> 0]
  /\ pending = [c \in Channel |-> <<>>]
  /\ waiting = [c \in Channel |-> FALSE]

(* A message is accepted while no read waits. *)
Accept(c) ==
  /\ ~waiting[c]
  /\ accepted' = [accepted EXCEPT ![c] = @ + 1]
  /\ pending' = [pending EXCEPT ![c] = Append(@, accepted[c] + 1)]
  /\ UNCHANGED <<delivered, waiting>>

(* A message is accepted and ends the read that waits. *)
HandOver(c) ==
  /\ waiting[c] /\ pending[c] = <<>>
  /\ accepted' = [accepted EXCEPT ![c] = @ + 1]
  /\ delivered' = [delivered EXCEPT ![c] = accepted[c] + 1]
  /\ waiting' = [waiting EXCEPT ![c] = FALSE]
  /\ UNCHANGED pending

(* A read gets the n oldest messages. *)
Take(c, n) ==
  /\ delivered' = [delivered EXCEPT ![c] = pending[c][n]]
  /\ pending' = [pending EXCEPT ![c] = SubSeq(@, n + 1, Len(@))]
  /\ UNCHANGED <<accepted, waiting>>

Wait(c) ==
  /\ ~waiting[c] /\ pending[c] = <<>>
  /\ waiting' = [waiting EXCEPT ![c] = TRUE]
  /\ UNCHANGED <<accepted, delivered, pending>>

(* A read ends without a message: cancelled, too small, or end of file. *)
GiveUp(c) ==
  /\ waiting[c]
  /\ waiting' = [waiting EXCEPT ![c] = FALSE]
  /\ UNCHANGED <<accepted, delivered, pending>>

Next == \E c \in Channel :
  \/ Accept(c) \/ HandOver(c) \/ Wait(c) \/ GiveUp(c)
  \/ \E n \in 1..Len(pending[c]) : Take(c, n)

Spec == Init /\ [][Next]_chanVars
=============================================================================
