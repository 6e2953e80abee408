---------------------------- MODULE LocalEmulator ---------------------------
(***************************************************************************)
(* LocalEmulator of sdk/python/src/geyser_sdk/emulator.py: the in-memory   *)
(* log of durable runs, its idempotency keys, approvals, and the model and *)
(* tool calls coroutines make through it.                                  *)
(*                                                                         *)
(* Coroutines interleave only where call_model and call_tool await the     *)
(* registered callback, so each call is two steps: everything up to the    *)
(* invocation, and everything after the callback returned.  A call that    *)
(* raises before it changed anything is a stuttering step and no action.   *)
(* A digest is the value it digests (SHA-256 is taken as injective), so a  *)
(* row stands for its own event_digest.                                    *)
(***************************************************************************)
EXTENDS Naturals, Sequences, FiniteSets

CONSTANTS
  Runs, Tools, Args, Ops, Models, Results,
  ApprovalIds, Callers, Payloads,
  UserEvents,   \* the run.* event types applications append themselves
  UserKeys,     \* the idempotency keys they choose for them
  CrashTypes,   \* the event types crash_after may hold
  MaxRows,      \* bound: rows in the log of one run
  None          \* "no operation_id", "no approval_id", a field not in data

VARIABLES
  events,          \* events[r]: the rows of run r, <<>> while not admitted
  idempotency,     \* the recorded (run, key) identities with their digests
  checkpoints,     \* checkpoints[r]: the last payload, or None
  approvals,       \* approvals[a]: its state and what it binds
  models, tools,   \* the names registered so far
  model_calls, tool_calls,
  modelsInFlight,  \* call_model coroutines awaiting their callback
  toolsInFlight,   \* call_tool coroutines awaiting their callback
  invocations,     \* history: tool callbacks invoked, in order
  answers          \* history: results call_tool returned, with its request

logVars    == <<events, idempotency>>
modelVars  == <<models, model_calls, modelsInFlight>>
effectVars == <<tool_calls, toolsInFlight, invocations, answers>>
vars == <<logVars, checkpoints, approvals, modelVars, tools, effectVars>>

-----------------------------------------------------------------------------
\* What a call_tool names: the run, the tool, its arguments and operation_id.
Invocation == [run : Runs, tool : Tools, args : Args, op : Ops \cup {None}]
Request    == [inv : Invocation, approval : ApprovalIds \cup {None}]

\* effect_id: the operation_id when there is one, else tool and arguments.
EffectOf(inv) ==
  IF inv.op = None THEN inv
  ELSE [inv EXCEPT !.tool = None, !.args = None]

Effect == {EffectOf(inv) : inv \in Invocation}

\* None stands for no value of these kinds; the application's
\* own event types are not those the emulator writes.
ASSUME NoneAssumption ==
  /\ None \notin Effect
  /\ None \notin ApprovalIds
  /\ None \notin Ops
  /\ UserEvents \cap {"run.admitted", "model.requested", "model.output_committed",
                     "tool.started", "tool.completed", "tool.reconciled"} = {}

\* A row of the log without its sequence, which is its position, and its
\* digest, which is the row.  Fields its data does not carry are None.
Fields == [type   : {"run.admitted", "model.requested", "model.output_committed",
                     "tool.started", "tool.completed", "tool.reconciled"}
                    \cup UserEvents,
           effect : Effect \cup {None},
           tool   : Tools \cup {None},
           args   : Args \cup {None},
           model  : Models \cup {None},
           result : Results \cup {None}]

Row == {row \in Fields :
          /\ row.type \in {"tool.completed", "tool.reconciled"} => row.result \in Results
          /\ row.effect # None =>
               row.type \in {"tool.started", "tool.completed", "tool.reconciled"}}

PlainRow(type, model, result) ==
  [type |-> type, effect |-> None, tool |-> None, args |-> None,
   model |-> model, result |-> result]

ToolRow(type, inv, result) ==
  [type |-> type, effect |-> EffectOf(inv), tool |-> inv.tool,
   args |-> inv.args, model |-> None, result |-> result]

ReconciledRow(e, result) ==
  [type |-> "tool.reconciled", effect |-> e, tool |-> None, args |-> None,
   model |-> None, result |-> result]

\* Mutant: reconcile_tool and call_tool share one key for the outcome.
ToolKeySharedOutcome(e, phase) ==
  <<"tool", e, IF phase = "started" THEN phase ELSE "completed">>

ToolKey(e, phase)  == <<"tool", e, phase>>
ModelKey(n, phase) == <<"model", n, phase>>
Key == ({"user"} \X UserKeys)
       \cup ({"tool"} \X Effect \X {"started", "completed", "reconciled"})
       \cup ({"model"} \X Nat \X {"requested", "committed"})

ModelCall == [run : Runs, model : Models, result : Results]
ToolCall  == [inv : Invocation, result : Results]

-----------------------------------------------------------------------------
Admitted(r) == events[r] # <<>>
Sequence(r) == Len(events[r])

KeyUsed(r, key)  == \E d \in idempotency : d.run = r /\ d.key = key
Replayed(r, key, row) == [run |-> r, key |-> key, digest |-> row] \in idempotency

\* Mutant: the key is recorded after the injected crash, so a crash loses it.
AppendRowKeyAfterCrash(r, key, row) ==
  IF KeyUsed(r, key) THEN UNCHANGED logVars
  ELSE /\ Sequence(r) < MaxRows
       /\ events' = [events EXCEPT ![r] = Append(@, row)]
       /\ idempotency' =
            IF row.type \in CrashTypes THEN idempotency
            ELSE idempotency \cup {[run |-> r, key |-> key, digest |-> row]}

\* append, once the run is known: a key already used records nothing.
AppendRow(r, key, row) ==
  IF KeyUsed(r, key) THEN UNCHANGED logVars
  ELSE /\ Sequence(r) < MaxRows
       /\ events' = [events EXCEPT ![r] = Append(@, row)]
       /\ idempotency' =
            idempotency \cup {[run |-> r, key |-> key, digest |-> row]}

\* Mutant: a used key is taken for a retry whatever its content.
AcceptedWithoutDigest(r, key, row) == TRUE

\* The idempotency check of append: the same key with other content raises.
Accepted(r, key, row) == KeyUsed(r, key) => Replayed(r, key, row)

\* Whether append may end by raising the injected crash, after the row.
CrashesAfter(r, key, row) ==
  IF ~KeyUsed(r, key) /\ row.type \in CrashTypes THEN BOOLEAN ELSE {FALSE}

Idle(c) ==
  /\ \A m \in modelsInFlight : m.caller # c
  /\ \A t \in toolsInFlight : t.caller # c

\* The rows of an effect in the log of its run, as positions.
Prior(r, e) == {i \in DOMAIN events[r] : events[r][i].effect = e}

Settled(r, e) ==
  {i \in Prior(r, e) : events[r][i].type \in {"tool.completed", "tool.reconciled"}}

\* Mutant: only the tool of prior[0] is compared.
BoundToTool(inv) ==
  LET prior == Prior(inv.run, EffectOf(inv))
  IN  \A i \in prior : (\A j \in prior : i <= j) =>
        events[inv.run][i].tool = inv.tool

\* prior[0] names this tool and these arguments, or there is no prior row.
BoundTo(inv) ==
  LET prior == Prior(inv.run, EffectOf(inv))
  IN  \A i \in prior : (\A j \in prior : i <= j) =>
        /\ events[inv.run][i].tool = inv.tool
        /\ events[inv.run][i].args = inv.args

\* Mutant: the binding leaves the operation_id out.
ApprovedWithoutOperation(req) ==
  req.approval # None =>
    /\ approvals[req.approval].state = "approved"
    /\ [approvals[req.approval].binding EXCEPT !.op = None] = [req.inv EXCEPT !.op = None]

\* An approval_id must name an approved approval of this very invocation.
Approved(req) ==
  req.approval # None =>
    /\ approvals[req.approval].state = "approved"
    /\ approvals[req.approval].binding = req.inv

-----------------------------------------------------------------------------
Init ==
  /\ events = [r \in Runs |-> <<>>]
  /\ idempotency = {}
  /\ checkpoints = [r \in Runs |-> None]
  /\ approvals = [a \in ApprovalIds |-> [state |-> "absent", binding |-> None]]
  /\ models = {} /\ tools = {}
  /\ model_calls = <<>> /\ tool_calls = <<>>
  /\ modelsInFlight = {} /\ toolsInFlight = {}
  /\ invocations = <<>> /\ answers = {}

Admit(r) ==
  /\ ~Admitted(r)
  /\ events' = [events EXCEPT ![r] = <<PlainRow("run.admitted", None, None)>>]
  /\ UNCHANGED <<idempotency, checkpoints, approvals, modelVars, tools, effectVars>>

\* append called by the application, for the run's own life cycle.
AppendEvent(r, type, key, expected) ==
  LET row == PlainRow(type, None, None) IN
  /\ Admitted(r)
  /\ Accepted(r, key, row)
  /\ KeyUsed(r, key) \/ expected = Sequence(r)
  /\ AppendRow(r, key, row)
  /\ UNCHANGED <<checkpoints, approvals, modelVars, tools, effectVars>>

Checkpoint(r, payload) ==
  /\ Admitted(r)
  /\ checkpoints' = [checkpoints EXCEPT ![r] = payload]
  /\ UNCHANGED <<logVars, approvals, modelVars, tools, effectVars>>

RequestApproval(a, r, binding) ==
  /\ Admitted(r)
  /\ approvals[a].state = "absent"
  /\ approvals' = [approvals EXCEPT ![a] = [state |-> "requested", binding |-> binding]]
  /\ UNCHANGED <<logVars, checkpoints, modelVars, tools, effectVars>>

\* Mutant: a decided approval can be decided again.
DecideApprovalAgain(a, binding, decision) ==
  /\ approvals[a].state # "absent"
  /\ approvals[a].binding = binding
  /\ approvals' = [approvals EXCEPT ![a].state = decision]
  /\ UNCHANGED <<logVars, checkpoints, modelVars, tools, effectVars>>

DecideApproval(a, binding, decision) ==
  /\ approvals[a].state = "requested"
  /\ approvals[a].binding = binding
  /\ approvals' = [approvals EXCEPT ![a].state = decision]
  /\ UNCHANGED <<logVars, checkpoints, modelVars, tools, effectVars>>

RegisterModel(m) ==
  /\ m \notin models
  /\ models' = models \cup {m}
  /\ UNCHANGED <<logVars, checkpoints, approvals, model_calls, modelsInFlight,
                 tools, effectVars>>

RegisterTool(t) ==
  /\ t \notin tools
  /\ tools' = tools \cup {t}
  /\ UNCHANGED <<logVars, checkpoints, approvals, modelVars, effectVars>>

-----------------------------------------------------------------------------
\* call_model up to the invocation.  The request key counts the model calls
\* committed so far, of every run.
CallModel(c, r, m) ==
  LET key == ModelKey(Len(model_calls), "requested")
      row == PlainRow("model.requested", m, None)
  IN
  /\ Idle(c)
  /\ m \in models
  /\ Admitted(r)
  /\ Accepted(r, key, row)
  /\ AppendRow(r, key, row)
  /\ \E crash \in CrashesAfter(r, key, row) :
       modelsInFlight' =
         IF crash THEN modelsInFlight
         ELSE modelsInFlight \cup {[caller |-> c, run |-> r, model |-> m]}
  /\ UNCHANGED <<checkpoints, approvals, models, model_calls, tools, effectVars>>

\* Mutant: commits are numbered by the request rows made durable.
CommitIndexByRequests ==
  Cardinality({d \in idempotency : d.key[1] = "model" /\ d.key[3] = "requested"})

\* len(self.model_calls) - 1, once this call is noted.
CommitIndex == Len(model_calls)

\* The callback returned a result the outcome contract accepts: the call is
\* noted, then committed under the number it got.
ModelReturns(call, result) ==
  LET row == PlainRow("model.output_committed", call.model, result)
      key == ModelKey(CommitIndex, "committed")
  IN
  /\ call \in modelsInFlight
  /\ modelsInFlight' = modelsInFlight \ {call}
  /\ model_calls' = Append(model_calls, [run |-> call.run, model |-> call.model,
                                         result |-> result])
  /\ AppendRow(call.run, key, row)
  /\ UNCHANGED <<checkpoints, approvals, models, tools, effectVars>>

\* The callback raised, the coroutine was cancelled, or validate_result refused.
ModelRaises(call) ==
  /\ call \in modelsInFlight
  /\ modelsInFlight' = modelsInFlight \ {call}
  /\ UNCHANGED <<logVars, checkpoints, approvals, models, model_calls, tools,
                 effectVars>>

-----------------------------------------------------------------------------
\* The checks of call_tool that come before it looks at the log.
MayCallTool(c, req) ==
  /\ Idle(c)
  /\ req.inv.tool \in tools
  /\ Approved(req)
  /\ BoundTo(req.inv)

\* The effect is settled: its latest outcome is returned, nothing is invoked.
AnswerFromLog(c, req) ==
  LET r == req.inv.run
      settled == Settled(r, EffectOf(req.inv))
  IN
  /\ MayCallTool(c, req)
  /\ \E i \in settled :
       /\ \A j \in settled : j <= i
       /\ answers' = answers \cup {[inv |-> req.inv, result |-> events[r][i].result]}
  /\ UNCHANGED <<logVars, checkpoints, approvals, modelVars, tools, tool_calls,
                 toolsInFlight, invocations>>

\* Mutant: an effect whose outcome is unknown is tried again.
UnknownIsRetried(r, e) == FALSE

\* call_tool refuses an effect with any prior row it cannot answer from.
Unknown(r, e) == Prior(r, e) # {}

\* A first call: tool.started becomes durable, then the tool is invoked,
\* unless the injected crash comes between the two.
StartTool(c, req) ==
  LET r   == req.inv.run
      e   == EffectOf(req.inv)
      key == ToolKey(e, "started")
      row == ToolRow("tool.started", req.inv, None)
  IN
  /\ MayCallTool(c, req)
  /\ Settled(r, e) = {}
  /\ ~Unknown(r, e)
  /\ Admitted(r)
  /\ Accepted(r, key, row)
  /\ AppendRow(r, key, row)
  /\ \E crash \in CrashesAfter(r, key, row) :
       IF crash THEN UNCHANGED <<toolsInFlight, invocations>>
       ELSE /\ toolsInFlight' = toolsInFlight \cup {[caller |-> c, req |-> req]}
            /\ invocations' = Append(invocations, req)
  /\ UNCHANGED <<checkpoints, approvals, modelVars, tools, tool_calls, answers>>

\* The tool returned: the call is noted and tool.completed appended.  The
\* caller gets the result unless the crash follows the row.
ToolReturns(call, result) ==
  LET inv == call.req.inv
      key == ToolKey(EffectOf(inv), "completed")
      row == ToolRow("tool.completed", inv, result)
  IN
  /\ call \in toolsInFlight
  /\ toolsInFlight' = toolsInFlight \ {call}
  /\ tool_calls' = Append(tool_calls, [inv |-> inv, result |-> result])
  /\ AppendRow(inv.run, key, row)
  /\ \E crash \in CrashesAfter(inv.run, key, row) :
       answers' = IF crash \/ ~Accepted(inv.run, key, row) THEN answers
                  ELSE answers \cup {[inv |-> inv, result |-> result]}
  /\ UNCHANGED <<checkpoints, approvals, modelVars, tools, invocations>>

\* The tool raised, its coroutine was cancelled, or its result has no digest.
ToolRaises(call) ==
  /\ call \in toolsInFlight
  /\ toolsInFlight' = toolsInFlight \ {call}
  /\ UNCHANGED <<logVars, checkpoints, approvals, modelVars, tools, tool_calls,
                 invocations, answers>>

\* Mutant: an effect that has no outcome, started or not, can be reconciled.
AwaitsAnyOutcome(r, e) == Admitted(r) /\ Settled(r, e) = {}

\* reconcile_tool: the last row of the effect is its tool.started.
AwaitsReconciliation(r, e) ==
  \E i \in Prior(r, e) :
    /\ \A j \in Prior(r, e) : j <= i
    /\ events[r][i].type = "tool.started"

ReconcileTool(r, e, result) ==
  LET key == ToolKey(e, "reconciled")
      row == ReconciledRow(e, result)
  IN
  /\ AwaitsReconciliation(r, e)
  /\ Accepted(r, key, row)
  /\ AppendRow(r, key, row)
  /\ UNCHANGED <<checkpoints, approvals, modelVars, tools, effectVars>>

-----------------------------------------------------------------------------
Application ==
  \/ \E r \in Runs :
       \/ Admit(r)
       \/ \E type \in UserEvents, k \in UserKeys, s \in 1..MaxRows :
            AppendEvent(r, type, <<"user", k>>, s)
       \/ \E p \in Payloads : Checkpoint(r, p)
       \/ \E a \in ApprovalIds, b \in Invocation : RequestApproval(a, r, b)
       \/ \E e \in Effect, x \in Results : ReconcileTool(r, e, x)
  \/ \E a \in ApprovalIds, b \in Invocation, d \in {"approved", "rejected"} :
       DecideApproval(a, b, d)
  \/ \E m \in Models : RegisterModel(m)
  \/ \E t \in Tools : RegisterTool(t)

ModelStep ==
  \/ \E c \in Callers, r \in Runs, m \in Models : CallModel(c, r, m)
  \/ \E call \in modelsInFlight :
       ModelRaises(call) \/ \E x \in Results : ModelReturns(call, x)

ToolStep ==
  \/ \E c \in Callers, req \in Request : AnswerFromLog(c, req) \/ StartTool(c, req)
  \/ \E call \in toolsInFlight :
       ToolRaises(call) \/ \E x \in Results : ToolReturns(call, x)

Next == Application \/ ModelStep \/ ToolStep

Spec == Init /\ [][Next]_vars

-----------------------------------------------------------------------------
TypeOK ==
  /\ events \in [Runs -> Seq(Row)]
  /\ idempotency \subseteq [run : Runs, key : Key, digest : Row]
  /\ checkpoints \in [Runs -> Payloads \cup {None}]
  /\ approvals \in [ApprovalIds ->
                      [state : {"absent", "requested", "approved", "rejected"},
                       binding : Invocation \cup {None}]]
  /\ models \subseteq Models /\ tools \subseteq Tools
  /\ model_calls \in Seq(ModelCall) /\ tool_calls \in Seq(ToolCall)
  /\ modelsInFlight \subseteq [caller : Callers, run : Runs, model : Models]
  /\ toolsInFlight \subseteq [caller : Callers, req : Request]
  /\ invocations \in Seq(Request)
  /\ answers \subseteq ToolCall

\* However calls, crashes, callback failures and reconciliations interleave,
\* the callback of an effect is invoked at most once (call_tool refuses an
\* effect with a prior row it cannot answer from).
AtMostOneInvocation ==
  \A i, j \in DOMAIN invocations :
    EffectOf(invocations[i].inv) = EffectOf(invocations[j].inv) => i = j

\* A decided approval authorises one execution: call_tool checks the binding
\* and the state but never consumes the approval, so only the agreement of the
\* binding with the effect identity keeps a second invocation out.
OneInvocationPerApproval ==
  \A i, j \in DOMAIN invocations :
    /\ invocations[i].approval # None
    /\ invocations[i].approval = invocations[j].approval
    => i = j

\* What authorised a call still holds while its callback runs: the approval it
\* was admitted under is approved and binds exactly this invocation.
InFlightStaysApproved == \A call \in toolsInFlight : Approved(call.req)

\* call_tool answers a request only with an outcome on record for its effect,
\* and that effect was started with this request's tool and arguments.
AnswersAreRecorded ==
  \A a \in answers :
    LET e == EffectOf(a.inv)
        log == events[a.inv.run]
    IN  /\ \E i \in Settled(a.inv.run, e) : log[i].result = a.result
        /\ \E i \in Prior(a.inv.run, e) :
             log[i].type = "tool.started" /\ log[i].tool = a.inv.tool
                                          /\ log[i].args = a.inv.args

\* An effect whose callback is running is started and not completed in the
\* log, and no second coroutine runs it: the log never claims an execution
\* that is still under way.
InFlightIsOpen ==
  \A call \in toolsInFlight :
    LET inv == call.req.inv
        prior == Prior(inv.run, EffectOf(inv))
    IN  /\ \E i \in prior : events[inv.run][i].type = "tool.started"
        /\ \A i \in prior : events[inv.run][i].type # "tool.completed"
        /\ \A other \in toolsInFlight :
             EffectOf(other.req.inv) = EffectOf(inv) => other = call

\* Positions in a log or a list, and how many of them come up to one of them.
Completed(r) == {i \in DOMAIN events[r] : events[r][i].type = "tool.completed"}
Committed(r) == {i \in DOMAIN events[r] : events[r][i].type = "model.output_committed"}
ToolCallsOf(r)  == {n \in DOMAIN tool_calls : tool_calls[n].inv.run = r}
ModelCallsOf(r) == {n \in DOMAIN model_calls : model_calls[n].run = r}
Rank(S, i) == Cardinality({k \in S : k <= i})

\* tool_calls and the tool.completed rows tell the same story, run by run and
\* in the same order, although a crash can follow either.
CompletionsMatchCalls ==
  \A r \in Runs :
    /\ Cardinality(Completed(r)) = Cardinality(ToolCallsOf(r))
    /\ \A i \in Completed(r), n \in ToolCallsOf(r) :
         Rank(Completed(r), i) = Rank(ToolCallsOf(r), n) =>
           /\ events[r][i].effect = EffectOf(tool_calls[n].inv)
           /\ events[r][i].result = tool_calls[n].result

\* model_calls and the model.output_committed rows agree in the same way: the
\* commit keys, numbered after the await, never collide.
CommitsMatchCalls ==
  \A r \in Runs :
    /\ Cardinality(Committed(r)) = Cardinality(ModelCallsOf(r))
    /\ \A i \in Committed(r), n \in ModelCallsOf(r) :
         Rank(Committed(r), i) = Rank(ModelCallsOf(r), n) =>
           /\ events[r][i].model = model_calls[n].model
           /\ events[r][i].result = model_calls[n].result

\* A model.requested row of a model among the first n rows of a run.
Requested(r, m, n) ==
  \E j \in 1..n : events[r][j].type = "model.requested" /\ events[r][j].model = m

\* Every model output in the log, and every model callback running, comes after
\* a durable model.requested of that model in that run, even when concurrent
\* calls share one request row.
ModelWorkIsRequested ==
  /\ \A r \in Runs : \A i \in Committed(r) : Requested(r, events[r][i].model, i - 1)
  /\ \A call \in modelsInFlight : Requested(call.run, call.model, Sequence(call.run))

KeysOf(r) == {d \in idempotency : d.run = r}

\* Every row but run.admitted is durable under exactly one key, whether or not
\* a crash followed it: a retried append finds its key and adds no second row.
OneKeyPerRow ==
  \A r \in Runs :
    /\ Cardinality(KeysOf(r)) = Cardinality({d.key : d \in KeysOf(r)})
    /\ Admitted(r) => Cardinality(KeysOf(r)) + 1 = Sequence(r)
    /\ \A d \in KeysOf(r) : \E i \in DOMAIN events[r] : events[r][i] = d.digest

\* docs/durable-runs.md:25, "Completed/reconciled calls return the recorded
\* result": what reconcile_tool recorded for an effect is what a call of it
\* is answered with from then on.
RecordedResultStands ==
  \A e \in Effect : \A i, j \in Settled(e.run, e) :
    /\ events[e.run][i].type = "tool.reconciled"
    /\ \A k \in Settled(e.run, e) : k <= j
    => events[e.run][j].result = events[e.run][i].result

\* What the log and the history say in terms of effects.
RecordedEffects ==
  {e \in Effect : \E r \in Runs : Prior(r, e) # {}}

RecordedOutcomes ==
  {o \in Effect \X Results :
     \E r \in Runs : \E i \in Settled(r, o[1]) : events[r][i].result = o[2]}

Executions == [i \in DOMAIN invocations |-> EffectOf(invocations[i].inv)]
Answered   == {<<EffectOf(a.inv), a.result>> : a \in answers}

\* The effect protocol promised to callers, read off the log and the history.
Ledger == INSTANCE EffectLedger WITH
  Effects    <- Effect,
  recorded   <- RecordedEffects,
  executions <- Executions,
  outcomes   <- RecordedOutcomes,
  answered   <- Answered

\* Every behaviour of the emulator is one of the ledger's.
KeepsLedger == Ledger!Spec
=============================================================================
