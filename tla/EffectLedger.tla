---------------------------- MODULE EffectLedger ----------------------------
(***************************************************************************)
(* What the effect protocol of a durable run promises its callers,         *)
(* whatever the log, keys, approvals and coroutines underneath look like:  *)
(* an effect is recorded before it is executed, it is executed at most     *)
(* once, only when it is first recorded, and a caller is answered only     *)
(* with an outcome that is on record for that effect.                      *)
(***************************************************************************)
EXTENDS Sequences

CONSTANTS Effects, Results

VARIABLES
  recorded,    \* the effects whose intent is durable
  executions,  \* the effects handed to a tool, in order
  outcomes,    \* the <<effect, result>> pairs on record
  answered     \* the <<effect, result>> pairs callers were given

vars == <<recorded, executions, outcomes, answered>>

Init ==
  /\ recorded = {}
  /\ executions = <<>>
  /\ outcomes = {}
  /\ answered = {}

\* The intent becomes durable and the tool is invoked.
Execute(e) ==
  /\ e \notin recorded
  /\ recorded' = recorded \cup {e}
  /\ executions' = Append(executions, e)
  /\ UNCHANGED <<outcomes, answered>>

\* The intent becomes durable and the program stops before the tool runs.
RecordOnly(e) ==
  /\ e \notin recorded
  /\ recorded' = recorded \cup {e}
  /\ UNCHANGED <<executions, outcomes, answered>>

\* An outcome of a recorded effect goes on record; its caller may see it.
Settle(e, r) ==
  /\ e \in recorded
  /\ outcomes' = outcomes \cup {<<e, r>>}
  /\ answered' \in {answered, answered \cup {<<e, r>>}}
  /\ UNCHANGED <<recorded, executions>>

\* A later caller is answered from the record.
Answer(e, r) ==
  /\ <<e, r>> \in outcomes
  /\ answered' = answered \cup {<<e, r>>}
  /\ UNCHANGED <<recorded, executions, outcomes>>

Next ==
  \E e \in Effects :
    \/ Execute(e)
    \/ RecordOnly(e)
    \/ \E r \in Results : Settle(e, r) \/ Answer(e, r)

Spec == Init /\ [][Next]_vars
=============================================================================
