--------------------------- MODULE RemoteDecision ----------------------------
(***************************************************************************)
(* Commands that decide about a run at the cell: approvals decide, runs    *)
(* stop and runs replay of the CLI, and decide of                          *)
(* examples/remote_approved_record.py, repeated by people who did not see  *)
(* the answer.                                                             *)
(*                                                                         *)
(* The example reads the approval and the run, then decides under a key    *)
(* made of approval and decision.  The CLI takes the sequences it expects  *)
(* from its arguments and draws a fresh key for each invocation, replay    *)
(* excepted.  A request that has left can arrive at any later time, or     *)
(* never; its answer can be lost.                                          *)
(***************************************************************************)
EXTENDS Naturals, FiniteSets

CONSTANTS
  Invocations,  \* commands run, one each
  MaxSequence   \* bound: events of the run

ASSUME SequenceAssumption == MaxSequence \in Nat \ {0}

VARIABLES
  order,        \* per invocation: the command and its arguments
  orderPc,
  viewed,       \* the approval's state and the run's sequence as the example read them
  verdict,      \* how the command ended
  wire,         \* requests that have left and not arrived
  approval,     \* cell: state of the approval
  runSequence,  \* cell: sequence of the run
  carriedOut    \* cell: the requests carried out, each with its key

orderVars == <<order, orderPc, viewed, verdict>>
decisionVars == <<orderVars, wire, approval, runSequence, carriedOut>>

Decisions == {"approve", "reject"}
Committed(d) == IF d = "approve" THEN "approved" ELSE "rejected"

\* decide of the example and of the CLI name a decision; the commands of the
\* CLI name the run sequence they were written for.
Orders ==
  [name : {"example"}, decision : Decisions, expected : {0}]
  \cup [name : {"decide"}, decision : Decisions, expected : 1..MaxSequence]
  \cup [name : {"stop", "replay"}, decision : {"none"}, expected : 1..MaxSequence]
NoOrder == [name |-> "none", decision |-> "none", expected |-> 0]

-----------------------------------------------------------------------------
\* decision_id, cancellation_id and fork_key; uuid4 differs for each process.
OrderKey(i) ==
  CASE order[i].name = "example" -> <<"example", order[i].decision>>
    [] order[i].name = "replay"  -> <<"replay", "none">>
    [] OTHER                     -> <<"fresh", i>>

\* Mutant: every command looks up the sequence as it is when it sends.
ExpectedNow(i) == runSequence

\* The run sequence in If-Match.
Expected(i) == IF order[i].name = "example" THEN viewed[i].sequence ELSE order[i].expected

\* Mutant: whoever finds the approval decided takes it for its own decision.
RecoversAny(i) == viewed[i].state # "requested"

\* "Recover a lost decision response by inspecting its committed state."
Recovers(i) == viewed[i].state = Committed(order[i].decision)

-----------------------------------------------------------------------------
DecisionInit ==
  /\ order = [i \in Invocations |-> NoOrder]
  /\ orderPc = [i \in Invocations |-> "idle"]
  /\ viewed = [i \in Invocations |-> [state |-> "none", sequence |-> 0]]
  /\ verdict = [i \in Invocations |-> "none"]
  /\ wire = {} /\ approval = "requested" /\ runSequence = 1 /\ carriedOut = {}

OrderAt(i, where) == orderPc' = [orderPc EXCEPT ![i] = where] /\ UNCHANGED verdict
OrderEnds(i, how) ==
  /\ orderPc' = [orderPc EXCEPT ![i] = "done"]
  /\ verdict' = [verdict EXCEPT ![i] = how]

\* A command of the CLI asks for confirmation first; the sequence it was given
\* is one the person has seen.
GiveOrder(i) ==
  /\ orderPc[i] = "idle"
  /\ \E o \in Orders :
       /\ o.expected <= runSequence
       /\ order' = [order EXCEPT ![i] = o]
       /\ IF o.name = "example" THEN OrderAt(i, "look")
          ELSE OrderAt(i, "send") \/ OrderEnds(i, "unconfirmed")
  /\ UNCHANGED <<viewed, wire, approval, runSequence, carriedOut>>

\* get_approval: is it the exact write, decided already, or still open?
LookAtApproval(i) ==
  /\ orderPc[i] = "look"
  /\ viewed' = [viewed EXCEPT ![i].state = approval]
  /\ OrderAt(i, "judge") \/ OrderEnds(i, "other write")
  /\ UNCHANGED <<order, wire, approval, runSequence, carriedOut>>

JudgeApproval(i) ==
  /\ orderPc[i] = "judge"
  /\ IF Recovers(i) THEN OrderEnds(i, "recovered")
     ELSE IF viewed[i].state # "requested" THEN OrderEnds(i, "different decision")
     ELSE OrderAt(i, "look at run")
  /\ UNCHANGED <<order, viewed, wire, approval, runSequence, carriedOut>>

LookAtRun(i) ==
  /\ orderPc[i] = "look at run"
  /\ viewed' = [viewed EXCEPT ![i].sequence = runSequence]
  /\ OrderAt(i, "send")
  /\ UNCHANGED <<order, wire, approval, runSequence, carriedOut>>

\* The request leaves, or leaves once more: _request retries under one key.
SendOrder(i) ==
  /\ orderPc[i] \in {"send", "sent"}
  /\ wire' = wire \cup {[from |-> i, key |-> OrderKey(i), name |-> order[i].name,
                         decision |-> order[i].decision, expected |-> Expected(i)]}
  /\ OrderAt(i, "sent")
  /\ UNCHANGED <<order, viewed, approval, runSequence, carriedOut>>

\* The command is interrupted, or its client gives up.
LoseAnswer(i) ==
  /\ orderPc[i] \in {"look", "judge", "look at run", "send", "sent"}
  /\ OrderEnds(i, "lost")
  /\ UNCHANGED <<order, viewed, wire, approval, runSequence, carriedOut>>

-----------------------------------------------------------------------------
Decides(m) == m.decision # "none"

\* The sender is told if it still waits; an answer may also be lost on its way.
TellSender(m, how) ==
  \/ orderPc[m.from] = "sent" /\ OrderEnds(m.from, how)
  \/ UNCHANGED <<orderPc, verdict>>

\* The cell handles a request.  A key it knows is answered again, or refused if
\* it was another request's; then the version is compared; a decision needs an
\* open approval.
HandleOrder(m) ==
  /\ m \in wire
  /\ wire' = wire \ {m}
  /\ IF \E d \in carriedOut : d.key = m.key
     THEN /\ \E d \in carriedOut :
               /\ d.key = m.key
               /\ TellSender(m, IF <<d.name, d.decision, d.expected>>
                               = <<m.name, m.decision, m.expected>>
                          THEN "carried out" ELSE "conflict")
          /\ UNCHANGED <<approval, runSequence, carriedOut>>
     ELSE IF m.expected # runSequence \/ (Decides(m) /\ approval # "requested")
     THEN TellSender(m, "conflict") /\ UNCHANGED <<approval, runSequence, carriedOut>>
     ELSE /\ runSequence < MaxSequence
          /\ runSequence' = runSequence + 1
          /\ approval' = IF Decides(m) THEN Committed(m.decision) ELSE approval
          /\ carriedOut' = carriedOut \cup {m}
          /\ TellSender(m, "carried out")
  /\ UNCHANGED <<order, viewed>>

\* The run goes on: the approval may run out while it does.
RunGoesOn ==
  /\ runSequence < MaxSequence
  /\ runSequence' = runSequence + 1
  /\ approval' \in {approval, IF approval = "requested" THEN "expired" ELSE approval}
  /\ UNCHANGED <<orderVars, wire, carriedOut>>

DecisionNext ==
  \/ \E i \in Invocations :
       \/ GiveOrder(i) \/ LookAtApproval(i) \/ JudgeApproval(i) \/ LookAtRun(i)
       \/ SendOrder(i) \/ LoseAnswer(i)
  \/ \E m \in wire : HandleOrder(m)
  \/ RunGoesOn

DecisionSpec == DecisionInit /\ [][DecisionNext]_decisionVars

-----------------------------------------------------------------------------
DecisionTypeOK ==
  /\ order \in [Invocations -> Orders \cup {NoOrder}]
  /\ orderPc \in [Invocations -> {"idle", "look", "judge", "look at run", "send",
                                  "sent", "done"}]
  /\ verdict \in [Invocations -> {"none", "unconfirmed", "other write", "recovered",
                    "different decision", "lost", "carried out", "conflict"}]
  /\ approval \in {"requested", "approved", "rejected", "expired"}
  /\ runSequence \in 1..MaxSequence

\* docs/recipes.md:28, "Repeating the decision command recovers an already
\* recorded matching decision": what a command reports about its decision is
\* what the approval says, from then on, and an approval says one thing: two
\* commands that report success decided the same.
DecisionIsTrue ==
  \A i \in Invocations :
    /\ order[i].decision # "none" /\ verdict[i] \in {"carried out", "recovered"} =>
         approval = Committed(order[i].decision)
    /\ verdict[i] = "different decision" =>
         approval \notin {"requested", Committed(order[i].decision)}

\* An order takes effect at most once, however often a person gives it again
\* after a lost answer, under however many keys, and however late its requests
\* arrive.
OrdersTakeEffectOnce ==
  \A c, d \in carriedOut : order[c.from] = order[d.from] => c = d
=============================================================================
