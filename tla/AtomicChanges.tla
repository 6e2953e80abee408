---------------------------- MODULE AtomicChanges ----------------------------
(***************************************************************************)
(* What the store of the record example promises to those who change the   *)
(* ticket, whatever transactions, kills and lost answers are underneath: a *)
(* change takes effect at one moment, together with its receipt, or never; *)
(* once for an operation, and only on the version its caller expected; and *)
(* nobody is told anything but a receipt.                                  *)
(***************************************************************************)
EXTENDS Naturals

CONSTANTS Callers, Operations, Requests, Nothing

VARIABLES
  ticket,    \* status and version
  receipts,  \* the request and the result of each operation that took effect
  told       \* the operation and the receipt each caller knows of

vars == <<ticket, receipts, told>>

Init ==
  /\ ticket = [status |-> "open", version |-> 1]
  /\ receipts = [o \in Operations |-> Nothing]
  /\ told = [c \in Callers |-> Nothing]

\* An operation takes effect; its caller may learn of it in the same moment.
Change(c, o, request) ==
  /\ receipts[o] = Nothing
  /\ request.expected_version = ticket.version
  /\ ticket' = [status |-> request.status, version |-> ticket.version + 1]
  /\ receipts' = [receipts EXCEPT ![o] = [request |-> request, result |-> ticket']]
  /\ told' \in {told, [told EXCEPT ![c] = <<o, receipts'[o]>>]}

\* A caller learns of a change from its receipt.
Tell(c, o) ==
  /\ receipts[o] # Nothing
  /\ told' = [told EXCEPT ![c] = <<o, receipts[o]>>]
  /\ UNCHANGED <<ticket, receipts>>

\* A caller begins anew and knows nothing.
Forget(c) ==
  /\ told' = [told EXCEPT ![c] = Nothing]
  /\ UNCHANGED <<ticket, receipts>>

Next ==
  \E c \in Callers :
    \/ Forget(c)
    \/ \E o \in Operations : Tell(c, o) \/ \E request \in Requests : Change(c, o, request)

Spec == Init /\ [][Next]_vars
=============================================================================
