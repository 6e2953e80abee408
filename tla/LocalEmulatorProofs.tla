------------------------ MODULE LocalEmulatorProofs -------------------------
(***************************************************************************)
(* Theorems about LocalEmulator, for every value of its constants.         *)
(*                                                                         *)
(* Every step leaves the log alone or appends one row to one run; Appends  *)
(* states that, AppendRowGrows proves it of append, and the proofs about   *)
(* effects and approvals use nothing else about sequences.                 *)
(*                                                                         *)
(* The second half is about what the log says, row by row: every row has   *)
(* one key; the rows of completed calls and the calls noted agree, in      *)
(* order; model outputs follow their requests; and the log, read as        *)
(* effects, behaves as EffectLedger says.                                  *)
(***************************************************************************)
EXTENDS LocalEmulator, FiniteSetTheorems, FunctionTheorems, TLAPS

\* The log keeps its rows, and any new one is the given row, last of run r.
Appends(r, row) ==
  /\ events' \in [Runs -> Seq(Row)]
  /\ \A q \in Runs : \A i \in DOMAIN events[q] :
       i \in DOMAIN events'[q] /\ events'[q][i] = events[q][i]
  /\ \A q \in Runs : \A i \in DOMAIN events'[q] :
       \/ i \in DOMAIN events[q]
       \/ q = r /\ events'[q][i] = row /\ i = Len(events[q]) + 1

-----------------------------------------------------------------------------
\* The effect of an invocation is an effect of its run.
LEMMA EffectOfInvocation ==
  ASSUME NEW inv \in Invocation
  PROVE  EffectOf(inv) \in Effect /\ EffectOf(inv).run = inv.run
BY DEF Effect, EffectOf, Invocation

\* The rows the emulator writes are rows of the log.
LEMMA RowTypes ==
  /\ \A type \in UserEvents \cup {"run.admitted"} : PlainRow(type, None, None) \in Row
  /\ \A m \in Models : PlainRow("model.requested", m, None) \in Row
  /\ \A m \in Models, x \in Results : PlainRow("model.output_committed", m, x) \in Row
  /\ \A inv \in Invocation : ToolRow("tool.started", inv, None) \in Row
  /\ \A inv \in Invocation, x \in Results : ToolRow("tool.completed", inv, x) \in Row
  /\ \A e \in Effect, x \in Results : ReconciledRow(e, x) \in Row
<1>1. \A inv \in Invocation : /\ EffectOf(inv) \in Effect
                              /\ inv.tool \in Tools /\ inv.args \in Args
  BY EffectOfInvocation DEF Invocation
<1> QED
  BY <1>1, NoneAssumption DEF Row, Fields, PlainRow, ToolRow, ReconciledRow

\* The keys the emulator writes are keys.
LEMMA KeyTypes ==
  /\ \A k \in UserKeys : <<"user", k>> \in Key
  /\ \A e \in Effect, phase \in {"started", "completed", "reconciled"} :
       ToolKey(e, phase) \in Key
  /\ \A n \in Nat, phase \in {"requested", "committed"} : ModelKey(n, phase) \in Key
BY DEF Key, ToolKey, ModelKey

\* A sequence extended by a row keeps its elements and ends in that row.
LEMMA AppendIsLast ==
  ASSUME NEW S, NEW s \in Seq(S), NEW x \in S
  PROVE  /\ Append(s, x) \in Seq(S)
         /\ \A i \in DOMAIN s : i \in DOMAIN Append(s, x) /\ Append(s, x)[i] = s[i]
         /\ \A i \in DOMAIN Append(s, x) :
              i \in DOMAIN s \/ (i = Len(s) + 1 /\ Append(s, x)[i] = x)
         /\ Len(s) + 1 \in DOMAIN Append(s, x)
         /\ Append(s, x)[Len(s) + 1] = x
OBVIOUS

\* append grows the log by at most the given row, and records nothing but the
\* given identity.
LEMMA AppendRowGrows ==
  ASSUME TypeOK, NEW r \in Runs, NEW key \in Key, NEW row \in Row,
         AppendRow(r, key, row)
  PROVE  /\ Appends(r, row)
         /\ idempotency' \subseteq [run : Runs, key : Key, digest : Row]
         /\ idempotency' \subseteq
              idempotency \cup {[run |-> r, key |-> key, digest |-> row]}
         /\ KeyUsed(r, key) \/ \E i \in DOMAIN events'[r] : events'[r][i] = row
         /\ KeyUsed(r, key) => UNCHANGED logVars
<1>1. CASE KeyUsed(r, key)
  BY <1>1 DEF AppendRow, Appends, logVars, TypeOK
<1>2. CASE ~KeyUsed(r, key)
  <2>1. /\ events' = [events EXCEPT ![r] = Append(events[r], row)]
        /\ idempotency' = idempotency \cup {[run |-> r, key |-> key, digest |-> row]}
    BY <1>2 DEF AppendRow
  <2>2. events \in [Runs -> Seq(Row)]
    BY DEF TypeOK
  <2>3. /\ events'[r] = Append(events[r], row)
        /\ \A q \in Runs : q # r => events'[q] = events[q]
    BY <2>1, <2>2
  <2>4. events' \in [Runs -> Seq(Row)]
    BY <2>1, <2>2, AppendIsLast
  <2>5. Appends(r, row)
    <3>1. \A q \in Runs : \A i \in DOMAIN events[q] :
            i \in DOMAIN events'[q] /\ events'[q][i] = events[q][i]
      BY <2>2, <2>3, AppendIsLast
    <3>2. ASSUME NEW q \in Runs, NEW i \in DOMAIN events'[q]
          PROVE  \/ i \in DOMAIN events[q]
                 \/ q = r /\ events'[q][i] = row /\ i = Len(events[q]) + 1
      <4>1. CASE q = r
        BY <2>2, <2>3, <4>1, AppendIsLast
      <4>2. CASE q # r
        BY <2>3, <4>2
      <4> QED
        BY <4>1, <4>2
    <3> QED
      BY <2>4, <3>1, <3>2 DEF Appends
  <2>6. \E i \in DOMAIN events'[r] : events'[r][i] = row
    BY <2>2, <2>3, AppendIsLast
  <2>7. idempotency' \subseteq [run : Runs, key : Key, digest : Row]
    BY <2>1 DEF TypeOK
  <2> QED
    BY <1>2, <2>1, <2>5, <2>6, <2>7
<1> QED
  BY <1>1, <1>2

-----------------------------------------------------------------------------
\* The steps of the application keep every variable in its type.
LEMMA ApplicationTypes == ASSUME TypeOK, Application PROVE TypeOK'
<1>1. ASSUME NEW r \in Runs, Admit(r) PROVE TypeOK'
  <2>1. <<PlainRow("run.admitted", None, None)>> \in Seq(Row)
    BY RowTypes
  <2> QED
    BY <1>1, <2>1 DEF Admit, TypeOK, modelVars, effectVars
<1>2. ASSUME NEW r \in Runs, NEW type \in UserEvents, NEW k \in UserKeys,
             NEW s \in 1..MaxRows, AppendEvent(r, type, <<"user", k>>, s)
      PROVE  TypeOK'
  <2>1. PlainRow(type, None, None) \in Row /\ <<"user", k>> \in Key
    BY RowTypes, KeyTypes
  <2>2. AppendRow(r, <<"user", k>>, PlainRow(type, None, None))
    BY <1>2 DEF AppendEvent
  <2>3. events' \in [Runs -> Seq(Row)]
        /\ idempotency' \subseteq [run : Runs, key : Key, digest : Row]
    BY <2>1, <2>2, AppendRowGrows DEF Appends
  <2> QED
    BY <1>2, <2>3 DEF AppendEvent, TypeOK, modelVars, effectVars
<1>3. ASSUME NEW r \in Runs, NEW p \in Payloads, Checkpoint(r, p) PROVE TypeOK'
  BY <1>3 DEF Checkpoint, TypeOK, logVars, modelVars, effectVars
<1>4. ASSUME NEW r \in Runs, NEW a \in ApprovalIds, NEW b \in Invocation,
             RequestApproval(a, r, b)
      PROVE  TypeOK'
  BY <1>4 DEF RequestApproval, TypeOK, logVars, modelVars, effectVars
<1>5. ASSUME NEW r \in Runs, NEW e \in Effect, NEW x \in Results,
             ReconcileTool(r, e, x)
      PROVE  TypeOK'
  <2>1. ReconciledRow(e, x) \in Row /\ ToolKey(e, "reconciled") \in Key
    BY RowTypes, KeyTypes
  <2>2. AppendRow(r, ToolKey(e, "reconciled"), ReconciledRow(e, x))
    BY <1>5 DEF ReconcileTool
  <2>3. events' \in [Runs -> Seq(Row)]
        /\ idempotency' \subseteq [run : Runs, key : Key, digest : Row]
    BY <2>1, <2>2, AppendRowGrows DEF Appends
  <2> QED
    BY <1>5, <2>3 DEF ReconcileTool, TypeOK, modelVars, effectVars
<1>6. ASSUME NEW a \in ApprovalIds, NEW b \in Invocation,
             NEW d \in {"approved", "rejected"}, DecideApproval(a, b, d)
      PROVE  TypeOK'
  BY <1>6 DEF DecideApproval, TypeOK, logVars, modelVars, effectVars
<1>7. ASSUME NEW m \in Models, RegisterModel(m) PROVE TypeOK'
  BY <1>7 DEF RegisterModel, TypeOK, logVars, effectVars
<1>8. ASSUME NEW t \in Tools, RegisterTool(t) PROVE TypeOK'
  BY <1>8 DEF RegisterTool, TypeOK, logVars, modelVars, effectVars
<1> QED
  BY <1>1, <1>2, <1>3, <1>4, <1>5, <1>6, <1>7, <1>8 DEF Application

\* A tool.started step either invokes the tool or crashes before it does.
LEMMA StartToolOutcome ==
  ASSUME NEW c \in Callers, NEW req \in Request, StartTool(c, req)
  PROVE  \/ UNCHANGED <<toolsInFlight, invocations>>
         \/ /\ toolsInFlight' = toolsInFlight \cup {[caller |-> c, req |-> req]}
            /\ invocations' = Append(invocations, req)
BY Zenon DEF StartTool

\* So do the steps of call_model.
LEMMA ModelStepTypes == ASSUME TypeOK, ModelStep PROVE TypeOK'
<1>0. Len(model_calls) \in Nat
  BY DEF TypeOK
<1>1. ASSUME NEW c \in Callers, NEW r \in Runs, NEW m \in Models, CallModel(c, r, m)
      PROVE  TypeOK'
  <2> DEFINE key == ModelKey(Len(model_calls), "requested")
             row == PlainRow("model.requested", m, None)
  <2>1. row \in Row /\ key \in Key
    BY <1>0, RowTypes, KeyTypes
  <2>2. AppendRow(r, key, row)
    BY <1>1 DEF CallModel
  <2>3. events' \in [Runs -> Seq(Row)]
        /\ idempotency' \subseteq [run : Runs, key : Key, digest : Row]
    BY <2>1, <2>2, AppendRowGrows DEF Appends
  <2>4. modelsInFlight' \subseteq [caller : Callers, run : Runs, model : Models]
    BY <1>1 DEF CallModel, TypeOK
  <2> QED
    BY <1>1, <2>3, <2>4 DEF CallModel, TypeOK, effectVars
<1>2. ASSUME NEW call \in modelsInFlight, ModelRaises(call) PROVE TypeOK'
  BY <1>2 DEF ModelRaises, TypeOK, logVars, effectVars
<1>3. ASSUME NEW call \in modelsInFlight, NEW x \in Results, ModelReturns(call, x)
      PROVE  TypeOK'
  <2> DEFINE key == ModelKey(CommitIndex, "committed")
             row == PlainRow("model.output_committed", call.model, x)
  <2>1. call.run \in Runs /\ call.model \in Models
    BY DEF TypeOK
  <2>2. row \in Row /\ key \in Key
    BY <1>0, <2>1, RowTypes, KeyTypes DEF CommitIndex
  <2>3. AppendRow(call.run, key, row)
    BY <1>3 DEF ModelReturns
  <2>4. events' \in [Runs -> Seq(Row)]
        /\ idempotency' \subseteq [run : Runs, key : Key, digest : Row]
    BY <2>1, <2>2, <2>3, AppendRowGrows DEF Appends
  <2>5. model_calls' \in Seq(ModelCall)
    BY <1>3, <2>1 DEF ModelReturns, TypeOK, ModelCall
  <2> QED
    BY <1>3, <2>4, <2>5 DEF ModelReturns, TypeOK, effectVars
<1> QED
  BY <1>1, <1>2, <1>3 DEF ModelStep

\* And those of call_tool.
LEMMA ToolStepTypes == ASSUME TypeOK, ToolStep PROVE TypeOK'
<1>1. ASSUME NEW c \in Callers, NEW req \in Request, AnswerFromLog(c, req)
      PROVE  TypeOK'
  <2>1. req.inv \in Invocation /\ req.inv.run \in Runs
    BY DEF Request, Invocation
  <2>2. PICK i \in Settled(req.inv.run, EffectOf(req.inv)) :
          answers' = answers \cup {[inv |-> req.inv, result |-> events[req.inv.run][i].result]}
    BY <1>1 DEF AnswerFromLog
  <2>3. /\ i \in DOMAIN events[req.inv.run]
        /\ events[req.inv.run][i].type \in {"tool.completed", "tool.reconciled"}
    BY DEF Settled, Prior
  <2>4. events[req.inv.run][i] \in Row
    BY <2>1, <2>3 DEF TypeOK
  <2>5. events[req.inv.run][i].result \in Results
    BY <2>3, <2>4 DEF Row
  <2>6. answers' \subseteq ToolCall
    BY <2>1, <2>2, <2>5 DEF TypeOK, ToolCall
  <2> QED
    BY <1>1, <2>6 DEF AnswerFromLog, TypeOK, logVars, modelVars
<1>2. ASSUME NEW c \in Callers, NEW req \in Request, StartTool(c, req)
      PROVE  TypeOK'
  <2> DEFINE inv == req.inv
             key == ToolKey(EffectOf(inv), "started")
             row == ToolRow("tool.started", inv, None)
  <2>1. inv \in Invocation /\ inv.run \in Runs /\ EffectOf(inv) \in Effect
    BY EffectOfInvocation DEF Request, Invocation
  <2>2. row \in Row /\ key \in Key
    BY <2>1, RowTypes, KeyTypes
  <2>3. AppendRow(inv.run, key, row)
    BY <1>2 DEF StartTool
  <2>4. events' \in [Runs -> Seq(Row)]
        /\ idempotency' \subseteq [run : Runs, key : Key, digest : Row]
    BY <2>1, <2>2, <2>3, AppendRowGrows DEF Appends
  <2>5. /\ toolsInFlight' \subseteq [caller : Callers, req : Request]
        /\ invocations' \in Seq(Request)
    <3>1. \/ UNCHANGED <<toolsInFlight, invocations>>
          \/ /\ toolsInFlight' = toolsInFlight \cup {[caller |-> c, req |-> req]}
             /\ invocations' = Append(invocations, req)
      BY <1>2, StartToolOutcome
    <3>2. toolsInFlight' \subseteq [caller : Callers, req : Request]
      BY <3>1 DEF TypeOK
    <3>3. Append(invocations, req) \in Seq(Request) /\ invocations \in Seq(Request)
      BY DEF TypeOK
    <3>4. invocations' \in Seq(Request)
      BY <3>1, <3>3
    <3> QED
      BY <3>2, <3>4
  <2> QED
    BY <1>2, <2>4, <2>5 DEF StartTool, TypeOK, modelVars
<1>3. ASSUME NEW call \in toolsInFlight, ToolRaises(call) PROVE TypeOK'
  BY <1>3 DEF ToolRaises, TypeOK, logVars, modelVars
<1>4. ASSUME NEW call \in toolsInFlight, NEW x \in Results, ToolReturns(call, x)
      PROVE  TypeOK'
  <2> DEFINE inv == call.req.inv
             key == ToolKey(EffectOf(inv), "completed")
             row == ToolRow("tool.completed", inv, x)
  <2>1. inv \in Invocation /\ inv.run \in Runs /\ EffectOf(inv) \in Effect
    BY EffectOfInvocation DEF TypeOK, Request, Invocation
  <2>2. row \in Row /\ key \in Key
    BY <2>1, RowTypes, KeyTypes
  <2>3. AppendRow(inv.run, key, row)
    BY <1>4 DEF ToolReturns
  <2>4. events' \in [Runs -> Seq(Row)]
        /\ idempotency' \subseteq [run : Runs, key : Key, digest : Row]
    BY <2>1, <2>2, <2>3, AppendRowGrows DEF Appends
  <2>5. /\ tool_calls' \in Seq(ToolCall)
        /\ answers' \subseteq ToolCall
    BY <1>4, <2>1 DEF ToolReturns, TypeOK, ToolCall
  <2> QED
    BY <1>4, <2>4, <2>5 DEF ToolReturns, TypeOK, modelVars
<1> QED
  BY <1>1, <1>2, <1>3, <1>4 DEF ToolStep

\* Every variable of the emulator keeps its type, whatever the bounds.
THEOREM TypeCorrect == Spec => []TypeOK
<1>1. Init => TypeOK
  BY DEF Init, TypeOK
<1>2. TypeOK /\ [Next]_vars => TypeOK'
  <2>1. CASE UNCHANGED vars
    BY <2>1 DEF vars, logVars, modelVars, effectVars, TypeOK
  <2> QED
    BY <2>1, ApplicationTypes, ModelStepTypes, ToolStepTypes DEF Next
<1> QED
  BY <1>1, <1>2, PTL DEF Spec

-----------------------------------------------------------------------------
(***************************************************************************)
(* The inductive invariant.  LogInv says what the log and the keys mean    *)
(* together: it is what lets "no prior row" conclude "key not used".       *)
(* EffectInv relates the calls made so far to the log.                     *)
(***************************************************************************)
KeysAreDurable ==
  \A d \in idempotency : \E i \in DOMAIN events[d.run] : events[d.run][i] = d.digest

StartKeysNameEffects ==
  \A d \in idempotency : \A e \in Effect :
    d.key = ToolKey(e, "started") => d.digest.effect = e

\* The first row of an effect is its tool.started.
StartedFirst ==
  \A r \in Runs : \A i \in DOMAIN events[r] : events[r][i].effect # None =>
    \E j \in DOMAIN events[r] :
      /\ events[r][j].type = "tool.started"
      /\ events[r][j].effect = events[r][i].effect
      /\ \A k \in DOMAIN events[r] : events[r][k].effect = events[r][i].effect => j <= k

LogInv == KeysAreDurable /\ StartKeysNameEffects /\ StartedFirst

\* The tool.started row of an invocation, with its tool and arguments.
StartedAs(inv) ==
  \E i \in DOMAIN events[inv.run] :
    /\ events[inv.run][i].type = "tool.started"
    /\ events[inv.run][i].effect = EffectOf(inv)
    /\ events[inv.run][i].tool = inv.tool
    /\ events[inv.run][i].args = inv.args

SettledAs(inv, x) ==
  \E i \in DOMAIN events[inv.run] :
    /\ events[inv.run][i].type \in {"tool.completed", "tool.reconciled"}
    /\ events[inv.run][i].effect = EffectOf(inv)
    /\ events[inv.run][i].result = x

NotCompleted(inv) ==
  \A i \in DOMAIN events[inv.run] :
    events[inv.run][i].effect = EffectOf(inv) =>
      events[inv.run][i].type # "tool.completed"

InvocationsStarted == \A n \in DOMAIN invocations : StartedAs(invocations[n].inv)
InFlightStarted ==
  \A call \in toolsInFlight : StartedAs(call.req.inv) /\ NotCompleted(call.req.inv)
InFlightUnique ==
  \A call, other \in toolsInFlight :
    EffectOf(call.req.inv) = EffectOf(other.req.inv) => call = other
AnswersSettled == \A a \in answers : StartedAs(a.inv) /\ SettledAs(a.inv, a.result)

EffectInv ==
  /\ InvocationsStarted
  /\ AtMostOneInvocation
  /\ InFlightStarted
  /\ InFlightUnique
  /\ AnswersSettled

-----------------------------------------------------------------------------
\* What the log says of an invocation it keeps saying.
LEMMA RecordsPersist ==
  ASSUME NEW r \in Runs, NEW row \in Row, Appends(r, row), NEW inv \in Invocation
  PROVE  /\ StartedAs(inv) => StartedAs(inv)'
         /\ \A x : SettledAs(inv, x) => SettledAs(inv, x)'
         /\ /\ row.type # "tool.completed" \/ row.effect # EffectOf(inv)
            /\ NotCompleted(inv)
            => NotCompleted(inv)'
<1>1. inv.run \in Runs
  BY DEF Invocation
<1>2. \A i \in DOMAIN events[inv.run] :
        i \in DOMAIN events'[inv.run] /\ events'[inv.run][i] = events[inv.run][i]
  BY <1>1 DEF Appends
<1>3. StartedAs(inv) => StartedAs(inv)'
  BY <1>2 DEF StartedAs
<1>4. \A x : SettledAs(inv, x) => SettledAs(inv, x)'
  BY <1>2 DEF SettledAs
<1>5. /\ row.type # "tool.completed" \/ row.effect # EffectOf(inv)
      /\ NotCompleted(inv)
      => NotCompleted(inv)'
  <2> SUFFICES ASSUME row.type # "tool.completed" \/ row.effect # EffectOf(inv),
                      NotCompleted(inv),
                      NEW i \in DOMAIN events'[inv.run],
                      events'[inv.run][i].effect = EffectOf(inv)
               PROVE  events'[inv.run][i].type # "tool.completed"
    BY DEF NotCompleted
  <2>1. i \in DOMAIN events[inv.run] \/ events'[inv.run][i] = row
    BY <1>1 DEF Appends
  <2> QED
    BY <1>2, <2>1 DEF NotCompleted
<1> QED
  BY <1>3, <1>4, <1>5

\* An append that starts an effect without rows, or continues one that has
\* some, keeps the log and its keys in order.
LEMMA LogInvStep ==
  ASSUME TypeOK, LogInv,
         NEW r \in Runs, NEW key \in Key, NEW row \in Row, AppendRow(r, key, row),
         \A e \in Effect : key = ToolKey(e, "started") => row.effect = e,
         row.effect # None => \/ row.type = "tool.started" /\ Prior(r, row.effect) = {}
                              \/ Prior(r, row.effect) # {}
  PROVE  LogInv'
<1>1. CASE KeyUsed(r, key)
  <2>1. UNCHANGED logVars
    BY <1>1, AppendRowGrows
  <2> QED
    BY <2>1 DEF LogInv, KeysAreDurable, StartKeysNameEffects, StartedFirst, logVars
<1>2. CASE ~KeyUsed(r, key)
  <2>1. /\ Appends(r, row)
        /\ idempotency' \subseteq
             idempotency \cup {[run |-> r, key |-> key, digest |-> row]}
        /\ \E i \in DOMAIN events'[r] : events'[r][i] = row
    BY <1>2, AppendRowGrows
  <2>2. KeysAreDurable'
    <3> SUFFICES ASSUME NEW d \in idempotency'
                 PROVE  \E i \in DOMAIN events'[d.run] : events'[d.run][i] = d.digest
      BY DEF KeysAreDurable
    <3>1. CASE d \in idempotency
      <4>1. d.run \in Runs
        BY <3>1 DEF TypeOK
      <4>2. \E i \in DOMAIN events[d.run] : events[d.run][i] = d.digest
        BY <3>1 DEF LogInv, KeysAreDurable
      <4> QED
        BY <2>1, <4>1, <4>2 DEF Appends
    <3>2. CASE d = [run |-> r, key |-> key, digest |-> row]
      BY <2>1, <3>2
    <3> QED
      BY <2>1, <3>1, <3>2
  <2>3. StartKeysNameEffects'
    BY <2>1 DEF LogInv, StartKeysNameEffects
  <2>4. StartedFirst'
    <3> SUFFICES ASSUME NEW q \in Runs, NEW i \in DOMAIN events'[q],
                        events'[q][i].effect # None
                 PROVE  \E j \in DOMAIN events'[q] :
                          /\ events'[q][j].type = "tool.started"
                          /\ events'[q][j].effect = events'[q][i].effect
                          /\ \A k \in DOMAIN events'[q] :
                               events'[q][k].effect = events'[q][i].effect => j <= k
      BY DEF StartedFirst
    <3> DEFINE e == events'[q][i].effect
    <3>0. /\ DOMAIN events[q] = 1..Len(events[q]) /\ Len(events[q]) \in Nat
          /\ DOMAIN events'[q] = 1..Len(events'[q]) /\ Len(events'[q]) \in Nat
      BY <2>1 DEF TypeOK, Appends
    <3>1. CASE \E k \in DOMAIN events[q] : events[q][k].effect = e
      <4>1. PICK j \in DOMAIN events[q] :
              /\ events[q][j].type = "tool.started"
              /\ events[q][j].effect = e
              /\ \A k \in DOMAIN events[q] : events[q][k].effect = e => j <= k
        BY <3>1 DEF LogInv, StartedFirst
      <4>2. \A k \in DOMAIN events'[q] : events'[q][k].effect = e => j <= k
        <5> SUFFICES ASSUME NEW k \in DOMAIN events'[q], events'[q][k].effect = e
                     PROVE  j <= k
          OBVIOUS
        <5>1. \/ k \in DOMAIN events[q] /\ events[q][k] = events'[q][k]
              \/ k = Len(events[q]) + 1
          BY <2>1 DEF Appends
        <5> QED
          BY <3>0, <4>1, <5>1
      <4>3. j \in DOMAIN events'[q] /\ events'[q][j] = events[q][j]
        BY <2>1 DEF Appends
      <4> QED
        BY <4>1, <4>2, <4>3
    <3>2. CASE ~ \E k \in DOMAIN events[q] : events[q][k].effect = e
      <4>1. i \notin DOMAIN events[q]
        BY <2>1, <3>2 DEF Appends
      <4>2. q = r /\ events'[q][i] = row
        BY <2>1, <4>1 DEF Appends
      <4>3. Prior(r, row.effect) = {}
        BY <3>2, <4>2 DEF Prior
      <4>4. row.type = "tool.started"
        BY <4>2, <4>3
      <4>5. \A k \in DOMAIN events'[q] : events'[q][k].effect = e => k = i
        BY <2>1, <3>2, <4>1 DEF Appends
      <4> QED
        BY <3>0, <4>2, <4>4, <4>5
    <3> QED
      BY <3>1, <3>2
  <2> QED
    BY <2>2, <2>3, <2>4 DEF LogInv
<1> QED
  BY <1>1, <1>2

\* Whatever the emulator remembers of a call names an invocation.
LEMMA CallsAreTyped ==
  ASSUME TypeOK
  PROVE  /\ \A n \in DOMAIN invocations : invocations[n].inv \in Invocation
         /\ \A call \in toolsInFlight : call.req.inv \in Invocation
         /\ \A a \in answers : a.inv \in Invocation
<1>1. invocations \in Seq(Request)
  BY DEF TypeOK
<1>2. \A n \in DOMAIN invocations : invocations[n] \in Request
  BY <1>1
<1>3. \A call \in toolsInFlight : call.req \in Request
  BY DEF TypeOK
<1>4. \A a \in answers : a.inv \in Invocation
  BY DEF TypeOK, ToolCall
<1> QED
  BY <1>2, <1>3, <1>4 DEF Request

\* A row that completes nothing leaves the calls and their records related.
LEMMA EffectInvKept ==
  ASSUME TypeOK, EffectInv, NEW r \in Runs, NEW row \in Row, Appends(r, row),
         row.type # "tool.completed", UNCHANGED <<toolsInFlight, invocations, answers>>
  PROVE  EffectInv'
<1>1. /\ \A n \in DOMAIN invocations : invocations[n].inv \in Invocation
      /\ \A call \in toolsInFlight : call.req.inv \in Invocation
      /\ \A a \in answers : a.inv \in Invocation
  BY CallsAreTyped
<1>2. InvocationsStarted'
  BY <1>1, RecordsPersist DEF EffectInv, InvocationsStarted
<1>3. InFlightStarted'
  BY <1>1, RecordsPersist DEF EffectInv, InFlightStarted
<1>4. AnswersSettled'
  BY <1>1, RecordsPersist DEF EffectInv, AnswersSettled
<1> QED
  BY <1>2, <1>3, <1>4 DEF EffectInv, AtMostOneInvocation, InFlightUnique

-----------------------------------------------------------------------------
\* Steps of the application and of call_model write no row of a callback's end.
LEMMA OtherStepsKeepInv ==
  ASSUME TypeOK, LogInv, EffectInv, Application \/ ModelStep
  PROVE  LogInv' /\ EffectInv'
<1>0. \A e \in Effect : \A phase : \A k : <<"user", k>> # ToolKey(e, phase)
  BY DEF ToolKey
<1>01. Len(model_calls) \in Nat
  BY DEF TypeOK
<1>1. ASSUME NEW r \in Runs, Admit(r) PROVE LogInv' /\ EffectInv'
  <2> DEFINE row == PlainRow("run.admitted", None, None)
  <2>1. row \in Row /\ row.effect = None /\ row.type # "tool.completed"
    BY RowTypes DEF PlainRow
  <2>2. events[r] = <<>> /\ events' = [events EXCEPT ![r] = <<row>>]
    BY <1>1 DEF Admit, Admitted
  <2>3. events \in [Runs -> Seq(Row)] /\ <<row>> \in Seq(Row)
    BY <2>1 DEF TypeOK
  <2>4. Appends(r, row)
    BY <2>2, <2>3 DEF Appends
  <2>5. KeysAreDurable'
    <3>1. idempotency' = idempotency /\ \A d \in idempotency : d.run \in Runs
      BY <1>1 DEF Admit, TypeOK
    <3> QED
      BY <2>4, <3>1 DEF LogInv, KeysAreDurable, Appends
  <2>6. StartKeysNameEffects'
    BY <1>1 DEF Admit, LogInv, StartKeysNameEffects
  <2>7. StartedFirst'
    <3>1. \A q \in Runs \ {r} : events'[q] = events[q]
      BY <2>2, <2>3
    <3>2. \A i \in DOMAIN events'[r] : events'[r][i].effect = None
      BY <2>1, <2>2, <2>3
    <3> QED
      BY <3>1, <3>2 DEF LogInv, StartedFirst
  <2>8. EffectInv'
    BY <1>1, <2>1, <2>4, EffectInvKept DEF Admit, effectVars
  <2> QED
    BY <2>5, <2>6, <2>7, <2>8 DEF LogInv
<1>2. ASSUME NEW r \in Runs, NEW type \in UserEvents, NEW k \in UserKeys,
             NEW s \in 1..MaxRows, AppendEvent(r, type, <<"user", k>>, s)
      PROVE  LogInv' /\ EffectInv'
  <2> DEFINE row == PlainRow(type, None, None)
  <2>1. row \in Row /\ <<"user", k>> \in Key /\ row.effect = None
    BY RowTypes, KeyTypes DEF PlainRow
  <2>2. row.type # "tool.completed"
    BY NoneAssumption DEF PlainRow
  <2>3. AppendRow(r, <<"user", k>>, row) /\ UNCHANGED effectVars
    BY <1>2 DEF AppendEvent
  <2>4. LogInv'
    BY <1>0, <2>1, <2>3, LogInvStep
  <2>5. Appends(r, row)
    BY <2>1, <2>3, AppendRowGrows
  <2> QED
    BY <2>1, <2>2, <2>3, <2>4, <2>5, EffectInvKept DEF effectVars
<1>3. ASSUME NEW r \in Runs, NEW e \in Effect, NEW x \in Results,
             ReconcileTool(r, e, x)
      PROVE  LogInv' /\ EffectInv'
  <2> DEFINE row == ReconciledRow(e, x)
             key == ToolKey(e, "reconciled")
  <2>1. row \in Row /\ key \in Key /\ row.effect = e /\ row.type # "tool.completed"
    BY RowTypes, KeyTypes DEF ReconciledRow
  <2>2. \A f \in Effect : key # ToolKey(f, "started")
    BY DEF ToolKey
  <2>3. Prior(r, row.effect) # {}
    BY <1>3, <2>1 DEF ReconcileTool, AwaitsReconciliation
  <2>4. AppendRow(r, key, row) /\ UNCHANGED effectVars
    BY <1>3 DEF ReconcileTool
  <2>5. LogInv'
    BY <2>1, <2>2, <2>3, <2>4, LogInvStep
  <2>6. Appends(r, row)
    BY <2>1, <2>4, AppendRowGrows
  <2> QED
    BY <2>1, <2>4, <2>5, <2>6, EffectInvKept DEF effectVars
<1>4. ASSUME NEW c \in Callers, NEW r \in Runs, NEW m \in Models, CallModel(c, r, m)
      PROVE  LogInv' /\ EffectInv'
  <2> DEFINE row == PlainRow("model.requested", m, None)
             key == ModelKey(Len(model_calls), "requested")
  <2>1. row \in Row /\ row.effect = None /\ row.type # "tool.completed"
    BY RowTypes DEF PlainRow
  <2>2. key \in Key /\ \A f \in Effect : key # ToolKey(f, "started")
    <3>1. key \in Key
      BY <1>01, KeyTypes
    <3>2. \A f : key # ToolKey(f, "started")
      BY DEF ToolKey, ModelKey
    <3> QED
      BY <3>1, <3>2
  <2>3. AppendRow(r, key, row) /\ UNCHANGED effectVars
    BY <1>4 DEF CallModel
  <2>4. LogInv'
    BY <2>1, <2>2, <2>3, LogInvStep
  <2>5. Appends(r, row)
    BY <2>1, <2>2, <2>3, AppendRowGrows
  <2> QED
    BY <2>1, <2>3, <2>4, <2>5, EffectInvKept DEF effectVars
<1>5. ASSUME NEW call \in modelsInFlight, NEW x \in Results, ModelReturns(call, x)
      PROVE  LogInv' /\ EffectInv'
  <2> DEFINE row == PlainRow("model.output_committed", call.model, x)
             key == ModelKey(CommitIndex, "committed")
  <2>0. call.run \in Runs /\ call.model \in Models
    BY DEF TypeOK
  <2>1. row \in Row /\ row.effect = None /\ row.type # "tool.completed"
    BY <2>0, RowTypes DEF PlainRow
  <2>2. key \in Key /\ \A f \in Effect : key # ToolKey(f, "started")
    <3>1. key \in Key
      BY <1>01, KeyTypes DEF CommitIndex
    <3>2. \A f : key # ToolKey(f, "started")
      BY DEF ToolKey, ModelKey
    <3> QED
      BY <3>1, <3>2
  <2>3. AppendRow(call.run, key, row) /\ UNCHANGED effectVars
    BY <1>5 DEF ModelReturns
  <2>4. LogInv'
    BY <2>0, <2>1, <2>2, <2>3, LogInvStep
  <2>5. Appends(call.run, row)
    BY <2>0, <2>1, <2>2, <2>3, AppendRowGrows
  <2> QED
    BY <2>0, <2>1, <2>3, <2>4, <2>5, EffectInvKept DEF effectVars
<1>6. ASSUME UNCHANGED <<logVars, effectVars>> PROVE LogInv' /\ EffectInv'
  BY <1>6 DEF LogInv, KeysAreDurable, StartKeysNameEffects, StartedFirst, EffectInv,
              InvocationsStarted, AtMostOneInvocation, InFlightStarted, InFlightUnique,
              AnswersSettled, StartedAs, SettledAs, NotCompleted, logVars, effectVars
<1>7. \/ \E r \in Runs :
           \/ Admit(r)
           \/ \E type \in UserEvents, k \in UserKeys, s \in 1..MaxRows :
                AppendEvent(r, type, <<"user", k>>, s)
           \/ \E e \in Effect, x \in Results : ReconcileTool(r, e, x)
      \/ \E c \in Callers, r \in Runs, m \in Models : CallModel(c, r, m)
      \/ \E call \in modelsInFlight : \E x \in Results : ModelReturns(call, x)
      \/ UNCHANGED <<logVars, effectVars>>
  BY DEF Application, ModelStep, Checkpoint, RequestApproval, DecideApproval,
         RegisterModel, RegisterTool, ModelRaises
<1> QED
  BY <1>1, <1>2, <1>3, <1>4, <1>5, <1>6, <1>7

-----------------------------------------------------------------------------
\* The guard of StartTool is what makes a start the first: no row of the effect
\* means that its start key is free, so the row is really appended, and that
\* nothing was invoked, answered or is running for it.
LEMMA StartKeepsInv ==
  ASSUME TypeOK, LogInv, EffectInv,
         NEW c \in Callers, NEW req \in Request, StartTool(c, req)
  PROVE  LogInv' /\ EffectInv'
<1> DEFINE inv == req.inv
           r   == inv.run
           e   == EffectOf(inv)
           key == ToolKey(e, "started")
           row == ToolRow("tool.started", inv, None)
<1>1. inv \in Invocation /\ r \in Runs /\ e \in Effect
  BY EffectOfInvocation DEF Request, Invocation
<1>2. row \in Row /\ key \in Key
  BY <1>1, RowTypes, KeyTypes
<1>3. /\ row.effect = e /\ row.type = "tool.started"
      /\ row.tool = inv.tool /\ row.args = inv.args
  BY DEF ToolRow
<1>4. /\ AppendRow(r, key, row)
      /\ Prior(r, e) = {}
      /\ answers' = answers
  BY DEF StartTool, Unknown
<1>5. \A f \in Effect : key = ToolKey(f, "started") => f = e
  BY DEF ToolKey
<1>6. LogInv'
  BY <1>1, <1>2, <1>3, <1>4, <1>5, LogInvStep
<1>7. ~KeyUsed(r, key)
  <2> SUFFICES ASSUME NEW d \in idempotency, d.run = r, d.key = key
               PROVE  FALSE
    BY DEF KeyUsed
  <2>1. d.digest.effect = e
    BY <1>1 DEF LogInv, StartKeysNameEffects
  <2>2. \E i \in DOMAIN events[r] : events[r][i] = d.digest
    BY DEF LogInv, KeysAreDurable
  <2> QED
    BY <1>4, <2>1, <2>2 DEF Prior
<1>8. Appends(r, row) /\ \E i \in DOMAIN events'[r] : events'[r][i] = row
  BY <1>1, <1>2, <1>4, <1>7, AppendRowGrows
<1>9. StartedAs(inv)'
  BY <1>3, <1>8 DEF StartedAs
<1>10. NotCompleted(inv)'
  <2>1. NotCompleted(inv)
    BY <1>4 DEF NotCompleted, Prior
  <2> QED
    BY <1>1, <1>2, <1>3, <1>8, <2>1, RecordsPersist
<1>11. ASSUME NEW other \in Invocation, StartedAs(other) PROVE EffectOf(other) # e
  <2>1. SUFFICES ASSUME EffectOf(other) = e PROVE FALSE
    OBVIOUS
  <2>2. other.run = r
    BY <1>1, <2>1, EffectOfInvocation
  <2> QED
    BY <1>4, <1>11, <2>1, <2>2 DEF StartedAs, Prior
<1>12. /\ \A n \in DOMAIN invocations : invocations[n].inv \in Invocation
       /\ \A call \in toolsInFlight : call.req.inv \in Invocation
       /\ \A a \in answers : a.inv \in Invocation
  BY CallsAreTyped
<1>13. row.type # "tool.completed"
  BY <1>3
<1>14. AnswersSettled'
  BY <1>1, <1>2, <1>4, <1>8, <1>12, RecordsPersist DEF EffectInv, AnswersSettled
<1>15. CASE UNCHANGED <<toolsInFlight, invocations>>
  BY <1>1, <1>2, <1>4, <1>6, <1>8, <1>13, <1>15, EffectInvKept
<1>16. CASE /\ toolsInFlight' = toolsInFlight \cup {[caller |-> c, req |-> req]}
            /\ invocations' = Append(invocations, req)
  <2>1. \A n \in DOMAIN invocations : \E o \in Invocation :
          o = invocations[n].inv /\ StartedAs(o) /\ StartedAs(o)'
    BY <1>1, <1>2, <1>8, <1>12, RecordsPersist DEF EffectInv, InvocationsStarted
  <2>2. \A n \in DOMAIN invocations' :
          \/ n \in DOMAIN invocations /\ invocations'[n] = invocations[n]
          \/ n = Len(invocations) + 1 /\ invocations'[n] = req
    <3>1. invocations \in Seq(Request)
      BY DEF TypeOK
    <3> QED
      BY <1>16, <3>1, AppendIsLast
  <2>3. InvocationsStarted'
    <3> SUFFICES ASSUME NEW n \in DOMAIN invocations', NEW o, o = invocations'[n].inv
                 PROVE  StartedAs(o)'
      BY DEF InvocationsStarted
    <3> QED
      BY <1>9, <2>1, <2>2
  <2>4. AtMostOneInvocation'
    <3> SUFFICES ASSUME NEW i \in DOMAIN invocations', NEW j \in DOMAIN invocations',
                        EffectOf(invocations'[i].inv) = EffectOf(invocations'[j].inv)
                 PROVE  i = j
      BY DEF AtMostOneInvocation
    <3>1. \A n \in DOMAIN invocations : EffectOf(invocations[n].inv) # e
      BY <1>11, <1>12, <2>1
    <3> QED
      BY <2>2, <3>1 DEF EffectInv, AtMostOneInvocation
  <2>5. \A call \in toolsInFlight :
          /\ StartedAs(call.req.inv) /\ NotCompleted(call.req.inv)
          /\ StartedAs(call.req.inv)' /\ NotCompleted(call.req.inv)'
    BY <1>1, <1>2, <1>8, <1>12, <1>13, RecordsPersist DEF EffectInv, InFlightStarted
  <2>6. InFlightStarted'
    BY <1>9, <1>10, <1>16, <2>5 DEF InFlightStarted
  <2>7. InFlightUnique'
    <3>1. \A call \in toolsInFlight : EffectOf(call.req.inv) # e
      BY <1>11, <1>12, <2>5
    <3> QED
      BY <1>16, <3>1 DEF EffectInv, InFlightUnique
  <2> QED
    BY <1>6, <1>14, <2>3, <2>4, <2>6, <2>7 DEF EffectInv
<1> QED
  BY <1>15, <1>16, StartToolOutcome

\* A returning tool completes its own effect, which no other coroutine runs.
LEMMA ReturnKeepsInv ==
  ASSUME TypeOK, LogInv, EffectInv,
         NEW call \in toolsInFlight, NEW x \in Results, ToolReturns(call, x)
  PROVE  LogInv' /\ EffectInv'
<1> DEFINE inv == call.req.inv
           r   == inv.run
           e   == EffectOf(inv)
           key == ToolKey(e, "completed")
           row == ToolRow("tool.completed", inv, x)
<1>1. inv \in Invocation /\ r \in Runs /\ e \in Effect
  BY EffectOfInvocation, CallsAreTyped DEF Invocation
<1>2. row \in Row /\ key \in Key
  BY <1>1, RowTypes, KeyTypes
<1>3. row.effect = e /\ row.type = "tool.completed" /\ row.result = x
  BY DEF ToolRow
<1>4. /\ AppendRow(r, key, row)
      /\ toolsInFlight' = toolsInFlight \ {call}
      /\ invocations' = invocations
  BY DEF ToolReturns
<1>5. answers' = answers \/ ( /\ answers' = answers \cup {[inv |-> inv, result |-> x]}
                              /\ Accepted(r, key, row) )
  BY Zenon DEF ToolReturns
<1>6. StartedAs(inv)
  BY DEF EffectInv, InFlightStarted
<1>7. Prior(r, row.effect) # {}
  BY <1>3, <1>6 DEF StartedAs, Prior
<1>8. \A f \in Effect : key # ToolKey(f, "started")
  BY DEF ToolKey
<1>9. LogInv'
  BY <1>1, <1>2, <1>7, <1>8, <1>4, LogInvStep
<1>10. /\ Appends(r, row)
       /\ KeyUsed(r, key) \/ \E i \in DOMAIN events'[r] : events'[r][i] = row
  BY <1>1, <1>2, <1>4, AppendRowGrows
<1>11. /\ \A n \in DOMAIN invocations : invocations[n].inv \in Invocation
       /\ \A other \in toolsInFlight : other.req.inv \in Invocation
       /\ \A a \in answers : a.inv \in Invocation
  BY CallsAreTyped
<1>12. InvocationsStarted'
  BY <1>1, <1>2, <1>4, <1>10, <1>11, RecordsPersist DEF EffectInv, InvocationsStarted
<1>13. InFlightStarted'
  <2> SUFFICES ASSUME NEW other \in toolsInFlight \ {call}
               PROVE  StartedAs(other.req.inv)' /\ NotCompleted(other.req.inv)'
    BY <1>4 DEF InFlightStarted
  <2>1. EffectOf(other.req.inv) # e
    BY DEF EffectInv, InFlightUnique
  <2> QED
    BY <1>1, <1>2, <1>3, <1>10, <1>11, <2>1, RecordsPersist DEF EffectInv, InFlightStarted
<1>14. Accepted(r, key, row) => \E i \in DOMAIN events'[r] : events'[r][i] = row
  <2> SUFFICES ASSUME Accepted(r, key, row), KeyUsed(r, key)
               PROVE  \E i \in DOMAIN events'[r] : events'[r][i] = row
    BY <1>10
  <2>1. [run |-> r, key |-> key, digest |-> row] \in idempotency
    BY DEF Accepted, Replayed
  <2>2. \E i \in DOMAIN events[r] : events[r][i] = row
    BY <2>1 DEF LogInv, KeysAreDurable
  <2> QED
    BY <1>1, <1>10, <2>2 DEF Appends
<1>15. AnswersSettled'
  <2>1. \A a \in answers : StartedAs(a.inv)' /\ SettledAs(a.inv, a.result)'
    BY <1>1, <1>2, <1>10, <1>11, RecordsPersist DEF EffectInv, AnswersSettled
  <2>2. Accepted(r, key, row) => SettledAs(inv, x)'
    BY <1>3, <1>14 DEF SettledAs
  <2>3. StartedAs(inv)'
    BY <1>1, <1>2, <1>6, <1>10, RecordsPersist
  <2> QED
    BY <1>5, <2>1, <2>2, <2>3 DEF AnswersSettled
<1> QED
  BY <1>4, <1>9, <1>12, <1>13, <1>15 DEF EffectInv, AtMostOneInvocation, InFlightUnique

\* A settled effect is answered with its own tool and arguments, because the
\* row BoundTo looks at is its tool.started.
LEMMA AnswerKeepsInv ==
  ASSUME TypeOK, LogInv, EffectInv,
         NEW c \in Callers, NEW req \in Request, AnswerFromLog(c, req)
  PROVE  LogInv' /\ EffectInv'
<1> DEFINE inv == req.inv
           r   == inv.run
           e   == EffectOf(inv)
<1>1. inv \in Invocation /\ r \in Runs /\ e \in Effect
  BY EffectOfInvocation DEF Request, Invocation
<1>2. PICK i \in Settled(r, e) :
        answers' = answers \cup {[inv |-> inv, result |-> events[r][i].result]}
  BY DEF AnswerFromLog
<1>3. /\ i \in DOMAIN events[r]
      /\ events[r][i].effect = e
      /\ events[r][i].type \in {"tool.completed", "tool.reconciled"}
  BY DEF Settled, Prior
<1>4. SettledAs(inv, events[r][i].result)
  BY <1>3 DEF SettledAs
<1>5. StartedAs(inv)
  <2>1. PICK j \in DOMAIN events[r] :
          /\ events[r][j].type = "tool.started"
          /\ events[r][j].effect = e
          /\ \A k \in DOMAIN events[r] : events[r][k].effect = e => j <= k
    BY <1>1, <1>3, NoneAssumption DEF LogInv, StartedFirst
  <2>2. events[r][j].tool = inv.tool /\ events[r][j].args = inv.args
    BY <2>1 DEF AnswerFromLog, MayCallTool, BoundTo, Prior
  <2> QED
    BY <2>1, <2>2 DEF StartedAs
<1>6. UNCHANGED <<events, idempotency, toolsInFlight, invocations>>
  BY DEF AnswerFromLog, logVars
<1>7. LogInv'
  BY <1>6 DEF LogInv, KeysAreDurable, StartKeysNameEffects, StartedFirst
<1>8. \A a \in answers' : StartedAs(a.inv) /\ SettledAs(a.inv, a.result)
  BY <1>2, <1>4, <1>5 DEF EffectInv, AnswersSettled
<1>9. AnswersSettled'
  BY <1>6, <1>8 DEF AnswersSettled, StartedAs, SettledAs
<1> QED
  BY <1>6, <1>7, <1>9 DEF EffectInv, InvocationsStarted, AtMostOneInvocation,
       InFlightStarted, InFlightUnique, StartedAs, NotCompleted

\* LogInv and EffectInv hold in every reachable state.
THEOREM EffectInvariant == Spec => [](LogInv /\ EffectInv)
<1>1. Init => LogInv /\ EffectInv
  BY DEF Init, LogInv, KeysAreDurable, StartKeysNameEffects, StartedFirst, EffectInv,
         InvocationsStarted, AtMostOneInvocation, InFlightStarted, InFlightUnique,
         AnswersSettled
<1>2. TypeOK /\ LogInv /\ EffectInv /\ [Next]_vars => LogInv' /\ EffectInv'
  <2> SUFFICES ASSUME TypeOK, LogInv, EffectInv, [Next]_vars
               PROVE  LogInv' /\ EffectInv'
    OBVIOUS
  <2>1. ASSUME NEW call \in toolsInFlight, ToolRaises(call) PROVE LogInv' /\ EffectInv'
    BY <2>1 DEF ToolRaises, logVars, LogInv, KeysAreDurable, StartKeysNameEffects,
         StartedFirst, EffectInv, InvocationsStarted, AtMostOneInvocation,
         InFlightStarted, InFlightUnique, AnswersSettled, StartedAs, SettledAs,
         NotCompleted
  <2>2. CASE ToolStep
    BY <2>1, <2>2, StartKeepsInv, ReturnKeepsInv, AnswerKeepsInv DEF ToolStep
  <2>3. CASE UNCHANGED vars
    BY <2>3 DEF vars, logVars, effectVars, LogInv, KeysAreDurable, StartKeysNameEffects,
         StartedFirst, EffectInv, InvocationsStarted, AtMostOneInvocation,
         InFlightStarted, InFlightUnique, AnswersSettled, StartedAs, SettledAs,
         NotCompleted
  <2> QED
    BY <2>2, <2>3, OtherStepsKeepInv DEF Next
<1> QED
  BY <1>1, <1>2, TypeCorrect, PTL DEF Spec

\* The callback of an effect is invoked at most once, for any number of runs,
\* coroutines, crashes and reconciliations.
THEOREM AtMostOnce == Spec => []AtMostOneInvocation
<1>1. EffectInv => AtMostOneInvocation
  BY DEF EffectInv
<1> QED
  BY <1>1, EffectInvariant, PTL

\* A running callback's effect is started, not completed, and run only once.
THEOREM RunningIsOpen == Spec => []InFlightIsOpen
<1>1. EffectInv => InFlightIsOpen
  BY DEF EffectInv, InFlightIsOpen, InFlightStarted, InFlightUnique, StartedAs,
         NotCompleted, Prior
<1> QED
  BY <1>1, EffectInvariant, PTL

\* Every answer of call_tool is on record for the request it was given to.
THEOREM AnswersRecorded == Spec => []AnswersAreRecorded
<1>1. EffectInv => AnswersAreRecorded
  BY DEF EffectInv, AnswersSettled, AnswersAreRecorded, StartedAs, SettledAs, Settled,
         Prior
<1> QED
  BY <1>1, EffectInvariant, PTL

-----------------------------------------------------------------------------
\* The second invariant: a call that went out under an approval has it still.
InvocationsApproved == \A n \in DOMAIN invocations : Approved(invocations[n])

ApprovalInv == InFlightStaysApproved /\ InvocationsApproved

\* No step takes back an approval.
LEMMA ApprovalsStand ==
  ASSUME TypeOK, [Next]_vars, NEW req \in Request, Approved(req)
  PROVE  Approved(req)'
<1>1. ASSUME NEW a \in ApprovalIds, approvals[a].state = "approved"
      PROVE  approvals'[a] = approvals[a]
  <2>1. ASSUME NEW b \in ApprovalIds, NEW r \in Runs, NEW binding \in Invocation,
               RequestApproval(b, r, binding)
        PROVE  approvals'[a] = approvals[a]
    BY <1>1, <2>1 DEF RequestApproval, TypeOK
  <2>2. ASSUME NEW b \in ApprovalIds, NEW binding \in Invocation,
               NEW d \in {"approved", "rejected"}, DecideApproval(b, binding, d)
        PROVE  approvals'[a] = approvals[a]
    BY <1>1, <2>2 DEF DecideApproval, TypeOK
  <2>3. CASE UNCHANGED approvals
    BY <2>3
  <2> QED
    BY <2>1, <2>2, <2>3 DEF Next, Application, ModelStep, ToolStep, Admit, AppendEvent,
         Checkpoint, ReconcileTool, RegisterModel, RegisterTool, CallModel, ModelRaises,
         ModelReturns, AnswerFromLog, StartTool, ToolRaises, ToolReturns, vars
<1>2. req.approval # None => req.approval \in ApprovalIds
  BY DEF Request
<1> QED
  BY <1>1, <1>2 DEF Approved

THEOREM ApprovalInvariant == Spec => []ApprovalInv
<1>1. Init => ApprovalInv
  BY DEF Init, ApprovalInv, InFlightStaysApproved, InvocationsApproved
<1>2. TypeOK /\ ApprovalInv /\ [Next]_vars => ApprovalInv'
  <2> SUFFICES ASSUME TypeOK, ApprovalInv, [Next]_vars PROVE ApprovalInv'
    OBVIOUS
  <2>0. /\ invocations \in Seq(Request)
        /\ \A call \in toolsInFlight : call.req \in Request
    BY DEF TypeOK
  <2>1. ASSUME NEW req \in Request, Approved(req) PROVE Approved(req)'
    BY <2>1, ApprovalsStand
  <2>2. ASSUME UNCHANGED <<toolsInFlight, invocations>> PROVE ApprovalInv'
    <3>1. InFlightStaysApproved'
      BY <2>0, <2>1, <2>2 DEF ApprovalInv, InFlightStaysApproved
    <3>2. InvocationsApproved'
      <4> SUFFICES ASSUME NEW n \in DOMAIN invocations, NEW o, o = invocations[n]
                   PROVE  Approved(o)'
        BY <2>2 DEF InvocationsApproved
      <4>1. o \in Request /\ Approved(o)
        BY <2>0 DEF ApprovalInv, InvocationsApproved
      <4> QED
        BY <2>1, <4>1
    <3> QED
      BY <3>1, <3>2 DEF ApprovalInv
  <2>3. ASSUME NEW call \in toolsInFlight, toolsInFlight' = toolsInFlight \ {call},
               UNCHANGED invocations
        PROVE  ApprovalInv'
    <3>1. InFlightStaysApproved'
      BY <2>0, <2>1, <2>3 DEF ApprovalInv, InFlightStaysApproved
    <3>2. InvocationsApproved'
      <4> SUFFICES ASSUME NEW n \in DOMAIN invocations, NEW o, o = invocations[n]
                   PROVE  Approved(o)'
        BY <2>3 DEF InvocationsApproved
      <4>1. o \in Request /\ Approved(o)
        BY <2>0 DEF ApprovalInv, InvocationsApproved
      <4> QED
        BY <2>1, <4>1
    <3> QED
      BY <3>1, <3>2 DEF ApprovalInv
  <2>4. ASSUME NEW c \in Callers, NEW req \in Request, StartTool(c, req),
               toolsInFlight' = toolsInFlight \cup {[caller |-> c, req |-> req]},
               invocations' = Append(invocations, req)
        PROVE  ApprovalInv'
    <3>1. Approved(req)'
      BY <2>1, <2>4 DEF StartTool, MayCallTool
    <3>2. InFlightStaysApproved'
      <4> SUFFICES ASSUME NEW call \in toolsInFlight', NEW o, o = call.req
                   PROVE  Approved(o)'
        BY DEF InFlightStaysApproved
      <4> QED
        BY <2>0, <2>1, <2>4, <3>1 DEF ApprovalInv, InFlightStaysApproved
    <3>3. InvocationsApproved'
      <4> SUFFICES ASSUME NEW n \in DOMAIN invocations', NEW o, o = invocations'[n]
                   PROVE  Approved(o)'
        BY DEF InvocationsApproved
      <4>1. \/ n \in DOMAIN invocations /\ o = invocations[n]
            \/ o = req
        BY <2>0, <2>4, AppendIsLast
      <4>2. n \in DOMAIN invocations /\ o = invocations[n] => o \in Request /\ Approved(o)
        BY <2>0 DEF ApprovalInv, InvocationsApproved
      <4> QED
        BY <2>1, <3>1, <4>1, <4>2
    <3> QED
      BY <3>2, <3>3 DEF ApprovalInv
  <2>5. CASE ToolStep
    <3>1. ASSUME NEW c \in Callers, NEW req \in Request, StartTool(c, req)
          PROVE  ApprovalInv'
      BY <2>2, <2>4, <3>1, StartToolOutcome
    <3>2. ASSUME NEW call \in toolsInFlight, NEW x \in Results, ToolReturns(call, x)
          PROVE  ApprovalInv'
      BY <2>3, <3>2 DEF ToolReturns
    <3>3. ASSUME NEW call \in toolsInFlight, ToolRaises(call) PROVE ApprovalInv'
      BY <2>3, <3>3 DEF ToolRaises
    <3>4. ASSUME NEW c \in Callers, NEW req \in Request, AnswerFromLog(c, req)
          PROVE  ApprovalInv'
      BY <2>2, <3>4 DEF AnswerFromLog
    <3> QED
      BY <2>5, <3>1, <3>2, <3>3, <3>4 DEF ToolStep
  <2>6. CASE Application \/ ModelStep \/ UNCHANGED vars
    BY <2>2, <2>6 DEF Application, ModelStep, Admit, AppendEvent, Checkpoint,
         RequestApproval, DecideApproval, ReconcileTool, RegisterModel, RegisterTool,
         CallModel, ModelRaises, ModelReturns, effectVars, vars
  <2> QED
    BY <2>5, <2>6 DEF Next
<1> QED
  BY <1>1, <1>2, TypeCorrect, PTL DEF Spec

\* What authorised a call still holds while its callback runs.
THEOREM RunningStaysApproved == Spec => []InFlightStaysApproved
<1>1. ApprovalInv => InFlightStaysApproved
  BY DEF ApprovalInv
<1> QED
  BY <1>1, ApprovalInvariant, PTL

\* An approval authorises one invocation: all that go out under it are of the
\* invocation it binds, which is one effect, which is invoked once.
THEOREM OneExecutionPerApproval == Spec => []OneInvocationPerApproval
<1>1. ApprovalInv /\ AtMostOneInvocation => OneInvocationPerApproval
  <2> SUFFICES ASSUME ApprovalInv, AtMostOneInvocation,
                      NEW i \in DOMAIN invocations, NEW j \in DOMAIN invocations,
                      invocations[i].approval # None,
                      invocations[i].approval = invocations[j].approval
               PROVE  i = j
    BY DEF OneInvocationPerApproval
  <2>1. invocations[i].inv = invocations[j].inv
    BY DEF ApprovalInv, InvocationsApproved, Approved
  <2> QED
    BY <2>1 DEF AtMostOneInvocation
<1> QED
  BY <1>1, ApprovalInvariant, AtMostOnce, PTL

-----------------------------------------------------------------------------
(***************************************************************************)
(* The log, row by row                                                     *)
(***************************************************************************)

\* append either finds the key used and changes nothing, or writes one row,
\* last of its run, and one identity.
LEMMA AppendRowWrites ==
  ASSUME TypeOK, NEW r \in Runs, NEW key \in Key, NEW row \in Row,
         AppendRow(r, key, row), ~KeyUsed(r, key)
  PROVE  /\ Appends(r, row)
         /\ \A q \in Runs \ {r} : events'[q] = events[q]
         /\ Len(events[r]) \in Nat /\ Len(events'[r]) = Len(events[r]) + 1
         /\ DOMAIN events[r] = 1..Len(events[r])
         /\ DOMAIN events'[r] = 1..(Len(events[r]) + 1)
         /\ events'[r][Len(events[r]) + 1] = row
         /\ \A i \in DOMAIN events[r] : events'[r][i] = events[r][i]
         /\ idempotency' = idempotency \cup {[run |-> r, key |-> key, digest |-> row]}
<1>1. Appends(r, row)  BY AppendRowGrows
<1>2. /\ events' = [events EXCEPT ![r] = Append(events[r], row)]
      /\ idempotency' = idempotency \cup {[run |-> r, key |-> key, digest |-> row]}
  BY DEF AppendRow
<1>3. events \in [Runs -> Seq(Row)] /\ events[r] \in Seq(Row)  BY DEF TypeOK
<1>4. events'[r] = Append(events[r], row) /\ \A q \in Runs \ {r} : events'[q] = events[q]
  BY <1>2, <1>3
<1>5. /\ Len(events[r]) \in Nat /\ DOMAIN events[r] = 1..Len(events[r])
      /\ Len(Append(events[r], row)) = Len(events[r]) + 1
      /\ DOMAIN Append(events[r], row) = 1..(Len(events[r]) + 1)
      /\ Append(events[r], row)[Len(events[r]) + 1] = row
      /\ \A i \in DOMAIN events[r] : Append(events[r], row)[i] = events[r][i]
  BY <1>3
<1> QED  BY <1>1, <1>2, <1>4, <1>5

\* A list extended by an element.
LEMMA AppendParts ==
  ASSUME NEW S, NEW s \in Seq(S), NEW x \in S
  PROVE  /\ Len(s) \in Nat /\ DOMAIN s = 1..Len(s)
         /\ DOMAIN Append(s, x) = 1..(Len(s) + 1)
         /\ \A i \in 1..Len(s) : Append(s, x)[i] = s[i]
         /\ Append(s, x)[Len(s) + 1] = x
  OBVIOUS

-----------------------------------------------------------------------------
\* One more position, behind all others.
Gains(S, S1, n) ==
  /\ S \subseteq Nat /\ IsFiniteSet(S) /\ n \in Nat /\ \A k \in S : k < n
  /\ S1 = S \cup {n}

\* It comes last and moves none.
LEMMA OneMore ==
  ASSUME NEW S, NEW S1, NEW n, Gains(S, S1, n)
  PROVE  /\ Cardinality(S) \in Nat
         /\ Cardinality(S1) = Cardinality(S) + 1
         /\ Rank(S1, n) = Cardinality(S) + 1
         /\ \A k \in S : Rank(S1, k) = Rank(S, k) /\ Rank(S, k) \in 0..Cardinality(S)
<1> USE DEF Gains
<1>1. n \notin S  OBVIOUS
<1>2. /\ IsFiniteSet(S1) /\ Cardinality(S) \in Nat
      /\ Cardinality(S1) = Cardinality(S) + 1
  BY <1>1, FS_AddElement, FS_CardinalityType
<1>3. {k \in S1 : k <= n} = S1
  <2>1. n <= n  OBVIOUS
  <2>2. \A k \in S : k <= n  OBVIOUS
  <2> QED  BY <2>1, <2>2
<1>4. ASSUME NEW k \in S
      PROVE  Rank(S1, k) = Rank(S, k) /\ Rank(S, k) \in 0..Cardinality(S)
  <2>1. {j \in S1 : j <= k} = {j \in S : j <= k}
    OBVIOUS
  <2>2. {j \in S : j <= k} \subseteq S  OBVIOUS
  <2>3. /\ Cardinality({j \in S : j <= k}) \in Nat
        /\ Cardinality({j \in S : j <= k}) <= Cardinality(S)
    BY <2>2, FS_Subset, FS_CardinalityType
  <2> QED  BY <1>2, <2>1, <2>3 DEF Rank
<1> QED  BY <1>2, <1>3, <1>4 DEF Rank

\* Two lists of the same length that both grow at their end: positions of one
\* rank are old on both sides or new on both.
LEMMA GrowingTogether ==
  ASSUME NEW S, NEW S1, NEW n, Gains(S, S1, n), NEW T, NEW T1, NEW m, Gains(T, T1, m),
         Cardinality(S) = Cardinality(T)
  PROVE  /\ Cardinality(S1) = Cardinality(T1)
         /\ \A i \in S1, j \in T1 :
              Rank(S1, i) = Rank(T1, j) =>
                \/ i \in S /\ j \in T /\ Rank(S, i) = Rank(T, j)
                \/ i = n /\ j = m
<1>1. /\ Cardinality(S) \in Nat
      /\ Cardinality(S1) = Cardinality(S) + 1
      /\ Rank(S1, n) = Cardinality(S) + 1
      /\ \A k \in S : Rank(S1, k) = Rank(S, k) /\ Rank(S, k) \in 0..Cardinality(S)
  BY OneMore
<1>2. /\ Cardinality(T1) = Cardinality(T) + 1
      /\ Rank(T1, m) = Cardinality(T) + 1
      /\ \A k \in T : Rank(T1, k) = Rank(T, k) /\ Rank(T, k) \in 0..Cardinality(T)
  BY OneMore
<1>3. S1 = S \cup {n} /\ T1 = T \cup {m}  BY DEF Gains
<1> QED  BY <1>1, <1>2, <1>3

-----------------------------------------------------------------------------
\* Each row has its own key: what OneKeyPerRow counts.
Keyed ==
  /\ IsFiniteSet(idempotency)
  /\ \A d, o \in idempotency : d.run = o.run /\ d.key = o.key => d = o
  /\ \A r \in Runs : IF Admitted(r) THEN Cardinality(KeysOf(r)) + 1 = Sequence(r)
                     ELSE KeysOf(r) = {}

\* Effects are recorded in the log of their run.
AtHome ==
  \A r \in Runs : \A i \in DOMAIN events[r] :
    events[r][i].effect # None => events[r][i].effect.run = r

\* The keys of outcomes name their effect, those of commits their number.
OutcomeKeys ==
  \A d \in idempotency :
    /\ \A e \in Effect : d.key = ToolKey(e, "completed") =>
         d.digest.type = "tool.completed" /\ d.digest.effect = e
    /\ \A n \in Nat : d.key = ModelKey(n, "committed") => n < Len(model_calls)

\* The two halves of ModelWorkIsRequested.
RowsRequested ==
  \A r \in Runs : \A i \in Committed(r) : Requested(r, events[r][i].model, i - 1)
CallsRequested ==
  \A call \in modelsInFlight : Requested(call.run, call.model, Len(events[call.run]))

BookInv ==
  /\ Keyed /\ AtHome /\ OutcomeKeys
  /\ RowsRequested /\ CallsRequested /\ CompletionsMatchCalls /\ CommitsMatchCalls

\* An append adds a key for the row it adds.
LEMMA KeyedGrows ==
  ASSUME TypeOK, Keyed, NEW r \in Runs, NEW key \in Key, NEW row \in Row,
         AppendRow(r, key, row), Admitted(r)
  PROVE  Keyed'
<1> DEFINE new == [run |-> r, key |-> key, digest |-> row]
<1>1. CASE KeyUsed(r, key)
  <2>1. UNCHANGED <<events, idempotency>>  BY <1>1, AppendRowGrows DEF logVars
  <2> QED  BY <2>1 DEF Keyed, Admitted, Sequence, KeysOf
<1>2. CASE ~KeyUsed(r, key)
  <2>1. /\ \A q \in Runs \ {r} : events'[q] = events[q]
        /\ Len(events[r]) \in Nat /\ Len(events'[r]) = Len(events[r]) + 1
        /\ idempotency' = idempotency \cup {new}
    BY <1>2, AppendRowWrites
  <2>2. \A d \in idempotency : ~(d.run = r /\ d.key = key)  BY <1>2 DEF KeyUsed
  <2>3. new \notin idempotency /\ new.run = r /\ new.key = key  BY <2>2
  <2>4. IsFiniteSet(idempotency')  BY <2>1, FS_AddElement DEF Keyed
  <2>5. \A d, o \in idempotency' : d.run = o.run /\ d.key = o.key => d = o
    BY <2>1, <2>2, <2>3 DEF Keyed
  <2>6. ASSUME NEW q \in Runs
        PROVE  IF Admitted(q)' THEN Cardinality(KeysOf(q)') + 1 = Sequence(q)'
               ELSE KeysOf(q)' = {}
    <3>1. CASE q = r
      <4>1. KeysOf(r)' = KeysOf(r) \cup {new}  BY <2>1, <2>3 DEF KeysOf
      <4>2. new \notin KeysOf(r)  BY <2>3 DEF KeysOf
      <4>3. KeysOf(r) \subseteq idempotency  BY DEF KeysOf
      <4>4. IsFiniteSet(KeysOf(r)) /\ Cardinality(KeysOf(r)) \in Nat
        BY <4>3, FS_Subset, FS_CardinalityType DEF Keyed
      <4>5. Cardinality(KeysOf(r)') = Cardinality(KeysOf(r)) + 1
        BY <4>1, <4>2, <4>4, FS_AddElement
      <4>6. Cardinality(KeysOf(r)) + 1 = Len(events[r])  BY DEF Keyed, Sequence
      <4>7. Admitted(r)'
        <5>1. Len(events'[r]) # 0  BY <2>1
        <5>2. Len(<<>>) = 0  OBVIOUS
        <5> QED  BY <5>1, <5>2 DEF Admitted
      <4> QED  BY <2>1, <3>1, <4>4, <4>5, <4>6, <4>7 DEF Sequence
    <3>2. CASE q # r
      <4>1. events'[q] = events[q]  BY <2>1, <3>2
      <4>2. KeysOf(q)' = KeysOf(q)  BY <2>1, <2>3, <3>2 DEF KeysOf
      <4>3. (Admitted(q)' <=> Admitted(q)) /\ Sequence(q)' = Sequence(q)
        BY <4>1 DEF Admitted, Sequence
      <4> QED  BY <4>2, <4>3 DEF Keyed
    <3> QED  BY <3>1, <3>2
  <2> QED  BY <2>4, <2>5, <2>6 DEF Keyed
<1> QED  BY <1>1, <1>2

\* What the log gains by an append it gains in the right run.
LEMMA HomeGrows ==
  ASSUME AtHome, NEW r \in Runs, NEW row \in Row, Appends(r, row),
         row.effect # None => row.effect.run = r
  PROVE  AtHome'
  BY DEF AtHome, Appends
-----------------------------------------------------------------------------
\* The positions of the rows of a type.
Typed(r, t) == {i \in DOMAIN events[r] : events[r][i].type = t}

LEMMA TypedRows ==
  /\ \A r : Completed(r) = Typed(r, "tool.completed")
  /\ \A r : Committed(r) = Typed(r, "model.output_committed")
  BY DEF Completed, Committed, Typed

LEMMA TypedIsFinite ==
  ASSUME TypeOK, NEW r \in Runs, NEW t
  PROVE  /\ Typed(r, t) \in SUBSET Nat /\ IsFiniteSet(Typed(r, t))
         /\ \A i \in Typed(r, t) : i < Len(events[r]) + 1
<1>1. Len(events[r]) \in Nat /\ DOMAIN events[r] = 1..Len(events[r])  BY DEF TypeOK
<1>2. IsFiniteSet(1..Len(events[r]))  BY <1>1, FS_Interval
<1>3. Typed(r, t) \subseteq 1..Len(events[r])  BY <1>1 DEF Typed
<1> QED  BY <1>1, <1>2, <1>3, FS_Subset

\* A row of another type adds no position.
LEMMA OtherRow ==
  ASSUME NEW r \in Runs, NEW row \in Row, Appends(r, row), NEW t, row.type # t,
         NEW q \in Runs
  PROVE  /\ Typed(q, t)' = Typed(q, t)
         /\ \A i \in Typed(q, t) : events'[q][i] = events[q][i]
<1>1. \A i \in DOMAIN events[q] : i \in DOMAIN events'[q] /\ events'[q][i] = events[q][i]
  BY DEF Appends
<1>2. \A i \in DOMAIN events'[q] : i \in DOMAIN events[q] \/ events'[q][i] = row
  BY DEF Appends
<1> QED  BY <1>1, <1>2 DEF Typed

\* A row of the type adds the last one of its run.
LEMMA ThisRow ==
  ASSUME TypeOK, NEW r \in Runs, NEW key \in Key, NEW row \in Row,
         AppendRow(r, key, row), ~KeyUsed(r, key), NEW q \in Runs
  PROVE  /\ q = r => Typed(q, row.type)' = Typed(q, row.type) \cup {Len(events[q]) + 1}
         /\ q # r => Typed(q, row.type)' = Typed(q, row.type)
         /\ \A i \in Typed(q, row.type) : events'[q][i] = events[q][i]
         /\ q = r => events'[q][Len(events[q]) + 1] = row
<1>1. /\ \A p \in Runs \ {r} : events'[p] = events[p]
      /\ Len(events[r]) \in Nat
      /\ DOMAIN events[r] = 1..Len(events[r])
      /\ DOMAIN events'[r] = 1..(Len(events[r]) + 1)
      /\ events'[r][Len(events[r]) + 1] = row
      /\ \A i \in DOMAIN events[r] : events'[r][i] = events[r][i]
  BY AppendRowWrites
<1>2. CASE q # r  BY <1>1, <1>2 DEF Typed
<1>3. CASE q = r
  <2>1. DOMAIN events'[r] = DOMAIN events[r] \cup {Len(events[r]) + 1}  BY <1>1
  <2>2. Typed(r, row.type)' = Typed(r, row.type) \cup {Len(events[r]) + 1}
    BY <1>1, <2>1 DEF Typed
  <2> QED  BY <1>1, <1>3, <2>2 DEF Typed
<1> QED  BY <1>2, <1>3

-----------------------------------------------------------------------------
\* Neither a row that completes nothing nor one that commits nothing disturbs
\* what is noted of calls.
LEMMA CompletionsStand ==
  ASSUME CompletionsMatchCalls, NEW r \in Runs, NEW row \in Row, Appends(r, row),
         row.type # "tool.completed", UNCHANGED tool_calls
  PROVE  CompletionsMatchCalls'
<1>1. \A q \in Runs : /\ Completed(q)' = Completed(q)
                      /\ \A i \in Completed(q) : events'[q][i] = events[q][i]
  <2> SUFFICES ASSUME NEW q \in Runs
               PROVE  /\ Completed(q)' = Completed(q)
                      /\ \A i \in Completed(q) : events'[q][i] = events[q][i]
    OBVIOUS
  <2>1. /\ Typed(q, "tool.completed")' = Typed(q, "tool.completed")
        /\ \A i \in Typed(q, "tool.completed") : events'[q][i] = events[q][i]
    BY OtherRow
  <2> QED  BY <2>1 DEF Typed, Completed
<1>2. \A q \in Runs : ToolCallsOf(q)' = ToolCallsOf(q)  BY DEF ToolCallsOf
<1> QED  BY <1>1, <1>2 DEF CompletionsMatchCalls, Rank

LEMMA CommitsStand ==
  ASSUME CommitsMatchCalls, NEW r \in Runs, NEW row \in Row, Appends(r, row),
         row.type # "model.output_committed", UNCHANGED model_calls
  PROVE  CommitsMatchCalls'
<1>1. \A q \in Runs : /\ Committed(q)' = Committed(q)
                      /\ \A i \in Committed(q) : events'[q][i] = events[q][i]
  <2> SUFFICES ASSUME NEW q \in Runs
               PROVE  /\ Committed(q)' = Committed(q)
                      /\ \A i \in Committed(q) : events'[q][i] = events[q][i]
    OBVIOUS
  <2>1. /\ Typed(q, "model.output_committed")' = Typed(q, "model.output_committed")
        /\ \A i \in Typed(q, "model.output_committed") : events'[q][i] = events[q][i]
    BY OtherRow
  <2> QED  BY <2>1 DEF Typed, Committed
<1>2. \A q \in Runs : ModelCallsOf(q)' = ModelCallsOf(q)  BY DEF ModelCallsOf
<1> SUFFICES ASSUME NEW q \in Runs
             PROVE  /\ Cardinality(Committed(q)') = Cardinality(ModelCallsOf(q)')
                    /\ \A i \in Committed(q)', n \in ModelCallsOf(q)' :
                         Rank(Committed(q)', i) = Rank(ModelCallsOf(q)', n) =>
                           /\ events'[q][i].model = model_calls'[n].model
                           /\ events'[q][i].result = model_calls'[n].result
  BY DEF CommitsMatchCalls, Rank
<1> QED  BY <1>1, <1>2 DEF CommitsMatchCalls

\* A request stays where it is.
LEMMA RequestsStand ==
  ASSUME TypeOK, NEW r \in Runs, NEW row \in Row, Appends(r, row),
         NEW q \in Runs, NEW m, NEW n \in 0..Len(events[q]), Requested(q, m, n)
  PROVE  /\ Requested(q, m, n)'
         /\ Requested(q, m, Len(events[q]))'
<1>1. PICK j \in 1..n : events[q][j].type = "model.requested" /\ events[q][j].model = m
  BY DEF Requested
<1>2. Len(events[q]) \in Nat /\ DOMAIN events[q] = 1..Len(events[q])  BY DEF TypeOK
<1>3. j \in DOMAIN events[q]  BY <1>1, <1>2
<1>4. j \in DOMAIN events'[q] /\ events'[q][j] = events[q][j]  BY <1>3 DEF Appends
<1>5. DOMAIN events'[q] = 1..Len(events'[q])  BY DEF Appends
<1> QED  BY <1>1, <1>4, <1>5 DEF Requested

LEMMA CallsStayRequested ==
  ASSUME TypeOK, CallsRequested, NEW r \in Runs, NEW row \in Row, Appends(r, row)
  PROVE  \A call \in modelsInFlight : Requested(call.run, call.model, Len(events[call.run]))'
<1> SUFFICES ASSUME NEW call \in modelsInFlight
             PROVE  Requested(call.run, call.model, Len(events[call.run]))'
  OBVIOUS
<1>1. call.run \in Runs /\ Len(events[call.run]) \in Nat  BY DEF TypeOK
<1>2. Requested(call.run, call.model, Len(events[call.run]))  BY DEF CallsRequested
<1> QED  BY <1>1, <1>2, RequestsStand

LEMMA RowsStayRequested ==
  ASSUME TypeOK, RowsRequested, NEW r \in Runs, NEW row \in Row, Appends(r, row),
         NEW q \in Runs, NEW i \in Committed(q)
  PROVE  events'[q][i] = events[q][i] /\ Requested(q, events[q][i].model, i - 1)'
<1>1. i \in DOMAIN events[q] /\ Len(events[q]) \in Nat /\ DOMAIN events[q] = 1..Len(events[q])
  BY DEF TypeOK, Committed
<1>2. i - 1 \in 0..Len(events[q])  BY <1>1
<1>3. events'[q][i] = events[q][i]  BY <1>1 DEF Appends
<1>4. ASSUME NEW m, m = events[q][i].model  PROVE Requested(q, m, i - 1)'
  <2>1. Requested(q, m, i - 1)  BY <1>4 DEF RowsRequested
  <2> QED  BY <1>2, <2>1, RequestsStand
<1>5. Requested(q, events[q][i].model, i - 1)'  
  BY <1>3, <1>4
<1> QED  BY <1>3, <1>5
-----------------------------------------------------------------------------
\* A tool call noted with its row.
LEMMA CompletionsGrow ==
  ASSUME TypeOK, CompletionsMatchCalls,
         NEW r \in Runs, NEW key \in Key, NEW row \in Row, NEW call \in ToolCall,
         row.type = "tool.completed", call.inv.run = r,
         row.effect = EffectOf(call.inv), row.result = call.result,
         AppendRow(r, key, row), ~KeyUsed(r, key), tool_calls' = Append(tool_calls, call)
  PROVE  CompletionsMatchCalls'
<1>2. ASSUME NEW q \in Runs
      PROVE  /\ q = r => Completed(q)' = Completed(q) \cup {Len(events[q]) + 1}
             /\ q # r => Completed(q)' = Completed(q)
             /\ \A i \in Completed(q) : events'[q][i] = events[q][i]
             /\ q = r => events'[q][Len(events[q]) + 1] = row
  <2>1. /\ q = r => Typed(q, row.type)' = Typed(q, row.type) \cup {Len(events[q]) + 1}
        /\ q # r => Typed(q, row.type)' = Typed(q, row.type)
        /\ \A i \in Typed(q, row.type) : events'[q][i] = events[q][i]
        /\ q = r => events'[q][Len(events[q]) + 1] = row
    BY ThisRow, Z3
  <2>2. Typed(q, row.type) = Completed(q) /\ Typed(q, row.type)' = Completed(q)'
    BY DEF Typed, Completed
  <2> QED  BY <2>1, <2>2
<1>3. /\ Len(tool_calls) \in Nat /\ DOMAIN tool_calls = 1..Len(tool_calls)
      /\ DOMAIN tool_calls' = 1..(Len(tool_calls) + 1)
      /\ \A n \in 1..Len(tool_calls) : tool_calls'[n] = tool_calls[n]
      /\ tool_calls'[Len(tool_calls) + 1] = call
  <2>1. tool_calls \in Seq(ToolCall)  BY DEF TypeOK
  <2> QED  BY <2>1, AppendParts
<1>4. \A q \in Runs :
        /\ q = r => ToolCallsOf(q)' = ToolCallsOf(q) \cup {Len(tool_calls) + 1}
        /\ q # r => ToolCallsOf(q)' = ToolCallsOf(q)
        /\ ToolCallsOf(q) \subseteq 1..Len(tool_calls)
        /\ \A n \in ToolCallsOf(q) : tool_calls'[n] = tool_calls[n]
  <2>1. DOMAIN tool_calls' = DOMAIN tool_calls \cup {Len(tool_calls) + 1}  BY <1>3
  <2>2. ~(Len(tool_calls) + 1 \in DOMAIN tool_calls)  BY <1>3
  <2> QED  BY <1>3, <2>1, <2>2 DEF ToolCallsOf
<1> SUFFICES ASSUME NEW q \in Runs
             PROVE  /\ Cardinality(Completed(q)') = Cardinality(ToolCallsOf(q)')
                    /\ \A i \in Completed(q)', n \in ToolCallsOf(q)' :
                         Rank(Completed(q)', i) = Rank(ToolCallsOf(q)', n) =>
                           /\ events'[q][i].effect = EffectOf(tool_calls'[n].inv)
                           /\ events'[q][i].result = tool_calls'[n].result
  BY DEF CompletionsMatchCalls, Rank, EffectOf
<1>5. CASE q # r
  <2>1. /\ Completed(q)' = Completed(q) /\ ToolCallsOf(q)' = ToolCallsOf(q)
        /\ \A i \in Completed(q) : events'[q][i] = events[q][i]
        /\ \A n \in ToolCallsOf(q) : tool_calls'[n] = tool_calls[n]
    BY <1>2, <1>4, <1>5
  <2>2. /\ Cardinality(Completed(q)) = Cardinality(ToolCallsOf(q))
        /\ \A i \in Completed(q), n \in ToolCallsOf(q) :
             Rank(Completed(q), i) = Rank(ToolCallsOf(q), n) =>
               /\ events[q][i].effect = EffectOf(tool_calls[n].inv)
               /\ events[q][i].result = tool_calls[n].result
    BY DEF CompletionsMatchCalls
  <2>3. ASSUME NEW i \in Completed(q)', NEW n \in ToolCallsOf(q)',
               Rank(Completed(q)', i) = Rank(ToolCallsOf(q)', n)
        PROVE  /\ events'[q][i].effect = EffectOf(tool_calls'[n].inv)
               /\ events'[q][i].result = tool_calls'[n].result
    <3>1. i \in Completed(q) /\ n \in ToolCallsOf(q)  BY <2>1, <2>3
    <3>2. Rank(Completed(q), i) = Rank(ToolCallsOf(q), n)  BY <2>1, <2>3
    <3> QED  BY <2>1, <2>2, <3>1, <3>2
  <2>4. Cardinality(Completed(q)') = Cardinality(ToolCallsOf(q)')  BY <2>1, <2>2
  <2> QED  BY <2>3, <2>4
<1>6. CASE q = r
  <2> DEFINE k == Len(events[q]) + 1
             l == Len(tool_calls) + 1
  <2>1. Gains(Completed(q), Completed(q)', k)
    <3>1. /\ Typed(q, "tool.completed") \in SUBSET Nat
          /\ IsFiniteSet(Typed(q, "tool.completed"))
          /\ \A i \in Typed(q, "tool.completed") : i < Len(events[q]) + 1
      BY TypedIsFinite
    <3>2. Len(events[q]) \in Nat  BY DEF TypeOK
    <3> QED  BY <1>2, <1>6, <3>1, <3>2, TypedRows DEF Gains
  <2>2. Gains(ToolCallsOf(q), ToolCallsOf(q)', l)
    <3>0. 1 \in Int /\ Len(tool_calls) \in Int  BY <1>3
    <3>1. IsFiniteSet(1..Len(tool_calls))  BY <3>0, FS_Interval
    <3>2. ToolCallsOf(q) \subseteq 1..Len(tool_calls)  BY <1>4
    <3>3. IsFiniteSet(ToolCallsOf(q))  BY <3>1, <3>2, FS_Subset
    <3> QED  BY <1>3, <1>4, <1>6, <3>2, <3>3 DEF Gains
  <2>3. /\ Cardinality(Completed(q)) = Cardinality(ToolCallsOf(q))
        /\ \A i \in Completed(q), n \in ToolCallsOf(q) :
             Rank(Completed(q), i) = Rank(ToolCallsOf(q), n) =>
               /\ events[q][i].effect = EffectOf(tool_calls[n].inv)
               /\ events[q][i].result = tool_calls[n].result
    BY DEF CompletionsMatchCalls
  <2>4. /\ \A i \in Completed(q) : events'[q][i] = events[q][i]
        /\ \A n \in ToolCallsOf(q) : tool_calls'[n] = tool_calls[n]
        /\ events'[q][k] = row /\ tool_calls'[l] = call
    BY <1>2, <1>3, <1>4, <1>6
  <2> HIDE DEF k, l
  <2>5. /\ Cardinality(Completed(q)') = Cardinality(ToolCallsOf(q)')
        /\ \A i \in Completed(q)', n \in ToolCallsOf(q)' :
             Rank(Completed(q)', i) = Rank(ToolCallsOf(q)', n) =>
               \/ /\ i \in Completed(q) /\ n \in ToolCallsOf(q)
                  /\ Rank(Completed(q), i) = Rank(ToolCallsOf(q), n)
               \/ i = k /\ n = l
    BY <2>1, <2>2, <2>3, GrowingTogether
  <2>6. ASSUME NEW i \in Completed(q)', NEW n \in ToolCallsOf(q)',
               Rank(Completed(q)', i) = Rank(ToolCallsOf(q)', n)
        PROVE  /\ events'[q][i].effect = EffectOf(tool_calls'[n].inv)
               /\ events'[q][i].result = tool_calls'[n].result
    <3>1. CASE /\ i \in Completed(q) /\ n \in ToolCallsOf(q)
               /\ Rank(Completed(q), i) = Rank(ToolCallsOf(q), n)
      BY <2>3, <2>4, <3>1
    <3>2. CASE i = k /\ n = l  BY <2>4, <3>2
    <3> QED  BY <2>5, <2>6, <3>1, <3>2
  <2> QED  BY <2>5, <2>6
<1> QED  BY <1>5, <1>6

\* A model call noted with its row.
LEMMA CommitsGrow ==
  ASSUME TypeOK, CommitsMatchCalls,
         NEW r \in Runs, NEW key \in Key, NEW row \in Row, NEW call \in ModelCall,
         row.type = "model.output_committed", call.run = r,
         row.model = call.model, row.result = call.result,
         AppendRow(r, key, row), ~KeyUsed(r, key), model_calls' = Append(model_calls, call)
  PROVE  CommitsMatchCalls'
<1>2. ASSUME NEW q \in Runs
      PROVE  /\ q = r => Committed(q)' = Committed(q) \cup {Len(events[q]) + 1}
             /\ q # r => Committed(q)' = Committed(q)
             /\ \A i \in Committed(q) : events'[q][i] = events[q][i]
             /\ q = r => events'[q][Len(events[q]) + 1] = row
  <2>1. /\ q = r => Typed(q, row.type)' = Typed(q, row.type) \cup {Len(events[q]) + 1}
        /\ q # r => Typed(q, row.type)' = Typed(q, row.type)
        /\ \A i \in Typed(q, row.type) : events'[q][i] = events[q][i]
        /\ q = r => events'[q][Len(events[q]) + 1] = row
    BY ThisRow
  <2>2. Typed(q, row.type) = Committed(q) /\ Typed(q, row.type)' = Committed(q)'
    BY DEF Typed, Committed
  <2> QED  BY <2>1, <2>2
<1>3. /\ Len(model_calls) \in Nat /\ DOMAIN model_calls = 1..Len(model_calls)
      /\ DOMAIN model_calls' = 1..(Len(model_calls) + 1)
      /\ \A n \in 1..Len(model_calls) : model_calls'[n] = model_calls[n]
      /\ model_calls'[Len(model_calls) + 1] = call
  <2>1. model_calls \in Seq(ModelCall)  BY DEF TypeOK
  <2> QED  BY <2>1, AppendParts
<1>4. \A q \in Runs :
        /\ q = r => ModelCallsOf(q)' = ModelCallsOf(q) \cup {Len(model_calls) + 1}
        /\ q # r => ModelCallsOf(q)' = ModelCallsOf(q)
        /\ ModelCallsOf(q) \subseteq 1..Len(model_calls)
        /\ \A n \in ModelCallsOf(q) : model_calls'[n] = model_calls[n]
  <2>1. DOMAIN model_calls' = DOMAIN model_calls \cup {Len(model_calls) + 1}  BY <1>3
  <2>2. ~(Len(model_calls) + 1 \in DOMAIN model_calls)  BY <1>3
  <2> QED  BY <1>3, <2>1, <2>2 DEF ModelCallsOf
<1> SUFFICES ASSUME NEW q \in Runs
             PROVE  /\ Cardinality(Committed(q)') = Cardinality(ModelCallsOf(q)')
                    /\ \A i \in Committed(q)', n \in ModelCallsOf(q)' :
                         Rank(Committed(q)', i) = Rank(ModelCallsOf(q)', n) =>
                           /\ events'[q][i].model = model_calls'[n].model
                           /\ events'[q][i].result = model_calls'[n].result
  BY DEF CommitsMatchCalls, Rank
<1>5. CASE q # r
  <2>1. /\ Committed(q)' = Committed(q) /\ ModelCallsOf(q)' = ModelCallsOf(q)
        /\ \A i \in Committed(q) : events'[q][i] = events[q][i]
        /\ \A n \in ModelCallsOf(q) : model_calls'[n] = model_calls[n]
    BY <1>2, <1>4, <1>5
  <2>2. /\ Cardinality(Committed(q)) = Cardinality(ModelCallsOf(q))
        /\ \A i \in Committed(q), n \in ModelCallsOf(q) :
             Rank(Committed(q), i) = Rank(ModelCallsOf(q), n) =>
               /\ events[q][i].model = model_calls[n].model
               /\ events[q][i].result = model_calls[n].result
    BY DEF CommitsMatchCalls
  <2>3. ASSUME NEW i \in Committed(q)', NEW n \in ModelCallsOf(q)',
               Rank(Committed(q)', i) = Rank(ModelCallsOf(q)', n)
        PROVE  /\ events'[q][i].model = model_calls'[n].model
               /\ events'[q][i].result = model_calls'[n].result
    <3>1. i \in Committed(q) /\ n \in ModelCallsOf(q)  BY <2>1, <2>3
    <3>2. Rank(Committed(q), i) = Rank(ModelCallsOf(q), n)  BY <2>1, <2>3
    <3> QED  BY <2>1, <2>2, <3>1, <3>2
  <2>4. Cardinality(Committed(q)') = Cardinality(ModelCallsOf(q)')  BY <2>1, <2>2
  <2> QED  BY <2>3, <2>4
<1>6. CASE q = r
  <2> DEFINE k == Len(events[q]) + 1
             l == Len(model_calls) + 1
  <2>1. Gains(Committed(q), Committed(q)', k)
    <3>1. /\ Typed(q, "model.output_committed") \in SUBSET Nat
          /\ IsFiniteSet(Typed(q, "model.output_committed"))
          /\ \A i \in Typed(q, "model.output_committed") : i < Len(events[q]) + 1
      BY TypedIsFinite
    <3>2. Len(events[q]) \in Nat  BY DEF TypeOK
    <3> QED  BY <1>2, <1>6, <3>1, <3>2, TypedRows DEF Gains
  <2>2. Gains(ModelCallsOf(q), ModelCallsOf(q)', l)
    <3>0. 1 \in Int /\ Len(model_calls) \in Int  BY <1>3
    <3>1. IsFiniteSet(1..Len(model_calls))  BY <3>0, FS_Interval
    <3>2. ModelCallsOf(q) \subseteq 1..Len(model_calls)  BY <1>4
    <3>3. IsFiniteSet(ModelCallsOf(q))  BY <3>1, <3>2, FS_Subset
    <3> QED  BY <1>3, <1>4, <1>6, <3>2, <3>3 DEF Gains
  <2>3. /\ Cardinality(Committed(q)) = Cardinality(ModelCallsOf(q))
        /\ \A i \in Committed(q), n \in ModelCallsOf(q) :
             Rank(Committed(q), i) = Rank(ModelCallsOf(q), n) =>
               /\ events[q][i].model = model_calls[n].model
               /\ events[q][i].result = model_calls[n].result
    BY DEF CommitsMatchCalls
  <2>4. /\ \A i \in Committed(q) : events'[q][i] = events[q][i]
        /\ \A n \in ModelCallsOf(q) : model_calls'[n] = model_calls[n]
        /\ events'[q][k] = row /\ model_calls'[l] = call
    BY <1>2, <1>3, <1>4, <1>6
  <2> HIDE DEF k, l
  <2>5. /\ Cardinality(Committed(q)') = Cardinality(ModelCallsOf(q)')
        /\ \A i \in Committed(q)', n \in ModelCallsOf(q)' :
             Rank(Committed(q)', i) = Rank(ModelCallsOf(q)', n) =>
               \/ /\ i \in Committed(q) /\ n \in ModelCallsOf(q)
                  /\ Rank(Committed(q), i) = Rank(ModelCallsOf(q), n)
               \/ i = k /\ n = l
    BY <2>1, <2>2, <2>3, GrowingTogether
  <2>6. ASSUME NEW i \in Committed(q)', NEW n \in ModelCallsOf(q)',
               Rank(Committed(q)', i) = Rank(ModelCallsOf(q)', n)
        PROVE  /\ events'[q][i].model = model_calls'[n].model
               /\ events'[q][i].result = model_calls'[n].result
    <3>1. CASE /\ i \in Committed(q) /\ n \in ModelCallsOf(q)
               /\ Rank(Committed(q), i) = Rank(ModelCallsOf(q), n)
      BY <2>3, <2>4, <3>1
    <3>2. CASE i = k /\ n = l  BY <2>4, <3>2
    <3> QED  BY <2>5, <2>6, <3>1, <3>2
  <2> QED  BY <2>5, <2>6
<1> QED  BY <1>5, <1>6
-----------------------------------------------------------------------------
\* The rows of model outputs stay requested while no output is committed.
LEMMA RowsRequestedStand ==
  ASSUME TypeOK, RowsRequested, NEW r \in Runs, NEW row \in Row, Appends(r, row),
         row.type # "model.output_committed"
  PROVE  RowsRequested'
<1> SUFFICES ASSUME NEW q \in Runs, NEW i \in Committed(q)'
             PROVE  Requested(q, events[q][i].model, i - 1)'
  BY DEF RowsRequested
<1>1. i \in Committed(q)
  <2>1. Typed(q, "model.output_committed")' = Typed(q, "model.output_committed")
    BY OtherRow
  <2> QED  BY <2>1 DEF Typed, Committed
<1>2. events'[q][i] = events[q][i] /\ Requested(q, events[q][i].model, i - 1)'
  BY <1>1, RowsStayRequested
<1> QED  BY <1>2

\* Keys of another kind say nothing of outcomes and commits.
LEMMA OutcomeKeysStand ==
  ASSUME TypeOK, OutcomeKeys, NEW r \in Runs, NEW key \in Key, NEW row \in Row,
         AppendRow(r, key, row), UNCHANGED model_calls,
         \A e \in Effect : key # ToolKey(e, "completed"),
         \A n \in Nat : key # ModelKey(n, "committed")
  PROVE  OutcomeKeys'
<1>1. idempotency' \subseteq idempotency \cup {[run |-> r, key |-> key, digest |-> row]}
  BY AppendRowGrows
<1> QED  BY <1>1 DEF OutcomeKeys

\* What holds of the log holds after any row that ends no call.
LEMMA BookKept ==
  ASSUME TypeOK, BookInv, NEW r \in Runs, NEW key \in Key, NEW row \in Row,
         AppendRow(r, key, row), Admitted(r),
         row.type # "tool.completed", row.type # "model.output_committed",
         row.effect # None => row.effect.run = r,
         \A e \in Effect : key # ToolKey(e, "completed"),
         \A n \in Nat : key # ModelKey(n, "committed"),
         UNCHANGED <<tool_calls, model_calls>>
  PROVE  /\ Keyed' /\ AtHome' /\ OutcomeKeys' /\ RowsRequested'
         /\ CompletionsMatchCalls' /\ CommitsMatchCalls'
         /\ \A call \in modelsInFlight : Requested(call.run, call.model, Len(events[call.run]))'
<1>1. Appends(r, row)  BY AppendRowGrows
<1>2. /\ Keyed /\ AtHome /\ OutcomeKeys /\ RowsRequested /\ CallsRequested
      /\ CompletionsMatchCalls /\ CommitsMatchCalls
  BY DEF BookInv
<1>3. Keyed'  BY <1>2, KeyedGrows
<1>4. AtHome'  BY <1>1, <1>2, HomeGrows
<1>5. OutcomeKeys'  BY <1>2, OutcomeKeysStand
<1>6. RowsRequested'  BY <1>1, <1>2, RowsRequestedStand
<1>7. CompletionsMatchCalls'  BY <1>1, <1>2, CompletionsStand
<1>8. CommitsMatchCalls'  BY <1>1, <1>2, CommitsStand
<1>9. \A call \in modelsInFlight : Requested(call.run, call.model, Len(events[call.run]))'
  BY <1>1, <1>2, CallsStayRequested
<1> QED  BY <1>3, <1>4, <1>5, <1>6, <1>7, <1>8, <1>9
-----------------------------------------------------------------------------
\* The first row of a run has no key; all others have one.
LEMMA AdmitKeepsBook ==
  ASSUME TypeOK, BookInv, NEW r \in Runs, Admit(r)
  PROVE  BookInv'
<1> DEFINE row == PlainRow("run.admitted", None, None)
<1>1. /\ row \in Row /\ row.effect = None
      /\ row.type # "tool.completed" /\ row.type # "model.output_committed"
  BY RowTypes DEF PlainRow
<1>2. /\ events[r] = <<>> /\ events' = [events EXCEPT ![r] = <<row>>]
      /\ UNCHANGED <<idempotency, modelsInFlight, tool_calls, model_calls>>
  BY DEF Admit, Admitted, modelVars, effectVars
<1>3. events \in [Runs -> Seq(Row)] /\ <<row>> \in Seq(Row)
  BY <1>1 DEF TypeOK
<1> HIDE DEF row
<1>4. Appends(r, row)  BY <1>2, <1>3 DEF Appends
<1>5. /\ events'[r] = <<row>> /\ \A q \in Runs \ {r} : events'[q] = events[q]
      /\ \A q \in Runs : KeysOf(q)' = KeysOf(q)
  BY <1>2, <1>3 DEF KeysOf
<1>6. Keyed'
  <2>1. KeysOf(r) = {}  BY <1>2 DEF BookInv, Keyed, Admitted
  <2>2. Cardinality({}) = 0  BY FS_EmptySet
  <2>3. Admitted(r)' /\ Sequence(r)' = 1
    <3>1. Len(<<row>>) = 1 /\ Len(<<>>) = 0  OBVIOUS
    <3>2. <<row>> # <<>>  BY <3>1
    <3> QED  BY <1>5, <3>1, <3>2 DEF Admitted, Sequence
  <2>4. Cardinality(KeysOf(r)') + 1 = Sequence(r)'  BY <1>5, <2>1, <2>2, <2>3
  <2>5. ASSUME NEW q \in Runs
        PROVE  IF Admitted(q)' THEN Cardinality(KeysOf(q)') + 1 = Sequence(q)'
               ELSE KeysOf(q)' = {}
    <3>1. CASE q = r  BY <2>3, <2>4, <3>1
    <3>2. CASE q # r
      <4>1. (Admitted(q)' <=> Admitted(q)) /\ Sequence(q)' = Sequence(q)
        BY <1>5, <3>2 DEF Admitted, Sequence
      <4> QED  BY <1>5, <4>1 DEF BookInv, Keyed
    <3> QED  BY <3>1, <3>2
  <2>6. /\ IsFiniteSet(idempotency')
        /\ \A d, o \in idempotency' : d.run = o.run /\ d.key = o.key => d = o
    BY <1>2 DEF BookInv, Keyed
  <2> QED  BY <2>5, <2>6 DEF Keyed
<1>7. AtHome'  BY <1>1, <1>4, HomeGrows DEF BookInv
<1>8. OutcomeKeys'  BY <1>2 DEF BookInv, OutcomeKeys
<1>9. RowsRequested'  BY <1>1, <1>4, RowsRequestedStand DEF BookInv
<1>10. CompletionsMatchCalls'  BY <1>1, <1>2, <1>4, CompletionsStand DEF BookInv
<1>11. CommitsMatchCalls'  BY <1>1, <1>2, <1>4, CommitsStand DEF BookInv
<1>12. CallsRequested'
  <2>1. \A call \in modelsInFlight : Requested(call.run, call.model, Len(events[call.run]))'
    BY <1>1, <1>4, CallsStayRequested DEF BookInv
  <2> QED  BY <1>2, <2>1 DEF CallsRequested
<1> QED  BY <1>6, <1>7, <1>8, <1>9, <1>10, <1>11, <1>12 DEF BookInv

LEMMA EventKeepsBook ==
  ASSUME TypeOK, BookInv, NEW r \in Runs, NEW type \in UserEvents, NEW k \in UserKeys,
         NEW s \in 1..MaxRows, AppendEvent(r, type, <<"user", k>>, s)
  PROVE  BookInv'
<1> DEFINE row == PlainRow(type, None, None)
           key == <<"user", k>>
<1>1. row \in Row /\ key \in Key /\ row.effect = None
  BY RowTypes, KeyTypes DEF PlainRow
<1>2. row.type # "tool.completed" /\ row.type # "model.output_committed"
  BY NoneAssumption DEF PlainRow
<1>3. /\ \A e \in Effect : key # ToolKey(e, "completed")
      /\ \A n \in Nat : key # ModelKey(n, "committed")
  BY DEF ToolKey, ModelKey
<1>4. /\ AppendRow(r, key, row) /\ Admitted(r)
      /\ UNCHANGED <<modelsInFlight, tool_calls, model_calls>>
  BY DEF AppendEvent, modelVars, effectVars
<1> HIDE DEF row, key
<1>5. /\ Keyed' /\ AtHome' /\ OutcomeKeys' /\ RowsRequested'
      /\ CompletionsMatchCalls' /\ CommitsMatchCalls'
      /\ \A call \in modelsInFlight : Requested(call.run, call.model, Len(events[call.run]))'
  BY <1>1, <1>2, <1>3, <1>4, BookKept
<1> QED  BY <1>4, <1>5 DEF BookInv, CallsRequested

\* An outcome is reconciled only in the log of its effect's run.
LEMMA ReconcileKeepsBook ==
  ASSUME TypeOK, BookInv, NEW r \in Runs, NEW e \in Effect, NEW x \in Results,
         ReconcileTool(r, e, x)
  PROVE  BookInv' /\ e.run = r /\ Prior(r, e) # {}
<1> DEFINE row == ReconciledRow(e, x)
           key == ToolKey(e, "reconciled")
<1>1. /\ row \in Row /\ key \in Key /\ row.effect = e
      /\ row.type # "tool.completed" /\ row.type # "model.output_committed"
  BY RowTypes, KeyTypes DEF ReconciledRow
<1>2. /\ \A f \in Effect : key # ToolKey(f, "completed")
      /\ \A n \in Nat : key # ModelKey(n, "committed")
  BY DEF ToolKey, ModelKey
<1>3. /\ AppendRow(r, key, row)
      /\ UNCHANGED <<modelsInFlight, tool_calls, model_calls>>
  BY DEF ReconcileTool, modelVars, effectVars
<1>4. PICK i \in DOMAIN events[r] : events[r][i].effect = e
  BY DEF ReconcileTool, AwaitsReconciliation, Prior
<1>5. e.run = r  BY <1>4, NoneAssumption DEF BookInv, AtHome
<1>6. Admitted(r) /\ Prior(r, e) # {}  BY <1>4 DEF Admitted, Prior
<1> HIDE DEF row, key
<1>7. /\ Keyed' /\ AtHome' /\ OutcomeKeys' /\ RowsRequested'
      /\ CompletionsMatchCalls' /\ CommitsMatchCalls'
      /\ \A call \in modelsInFlight : Requested(call.run, call.model, Len(events[call.run]))'
  BY <1>1, <1>2, <1>3, <1>5, <1>6, BookKept
<1> QED  BY <1>3, <1>5, <1>6, <1>7 DEF BookInv, CallsRequested
-----------------------------------------------------------------------------
\* A row appended or found under its key is in the log.
LEMMA RowIsThere ==
  ASSUME TypeOK, LogInv, NEW r \in Runs, NEW key \in Key, NEW row \in Row,
         AppendRow(r, key, row), Accepted(r, key, row)
  PROVE  \E i \in 1..Len(events'[r]) : events'[r][i] = row
<1>1. Appends(r, row) /\ (KeyUsed(r, key) \/ \E i \in DOMAIN events'[r] : events'[r][i] = row)
  BY AppendRowGrows
<1>2. DOMAIN events'[r] = 1..Len(events'[r])  BY <1>1 DEF Appends
<1>3. CASE KeyUsed(r, key)
  <2>1. [run |-> r, key |-> key, digest |-> row] \in idempotency
    BY <1>3 DEF Accepted, Replayed
  <2>2. \E i \in DOMAIN events[r] : events[r][i] = row
    BY <2>1 DEF LogInv, KeysAreDurable
  <2> QED  BY <1>1, <1>2, <2>2 DEF Appends
<1> QED  BY <1>1, <1>2, <1>3

\* A call asks for its model before it runs, or shares a request in the log.
LEMMA RequestKeepsBook ==
  ASSUME TypeOK, LogInv, BookInv, NEW c \in Callers, NEW r \in Runs, NEW m \in Models,
         CallModel(c, r, m)
  PROVE  BookInv'
<1> DEFINE row == PlainRow("model.requested", m, None)
           key == ModelKey(Len(model_calls), "requested")
           new == [caller |-> c, run |-> r, model |-> m]
<1>0. Len(model_calls) \in Nat  BY DEF TypeOK
<1>1. /\ row \in Row /\ key \in Key /\ row.effect = None
      /\ row.type = "model.requested" /\ row.model = m
  BY <1>0, RowTypes, KeyTypes DEF PlainRow
<1>2. /\ \A f \in Effect : key # ToolKey(f, "completed")
      /\ \A n \in Nat : key # ModelKey(n, "committed")
  BY DEF ToolKey, ModelKey
<1>3. /\ AppendRow(r, key, row) /\ Accepted(r, key, row) /\ Admitted(r)
      /\ modelsInFlight' \subseteq modelsInFlight \cup {new}
      /\ UNCHANGED <<tool_calls, model_calls>>
  BY DEF CallModel, effectVars
<1>4. new.run = r /\ new.model = m  OBVIOUS
<1> HIDE DEF row, key, new
<1>5. /\ Keyed' /\ AtHome' /\ OutcomeKeys' /\ RowsRequested'
      /\ CompletionsMatchCalls' /\ CommitsMatchCalls'
      /\ \A call \in modelsInFlight : Requested(call.run, call.model, Len(events[call.run]))'
  BY <1>1, <1>2, <1>3, BookKept
<1>6. Requested(r, m, Len(events[r]))'
  <2>1. \E i \in 1..Len(events'[r]) : events'[r][i] = row
    BY <1>1, <1>3, RowIsThere
  <2> QED  BY <1>1, <2>1 DEF Requested
<1>7. CallsRequested'
  <2> SUFFICES ASSUME NEW call \in modelsInFlight'
               PROVE  Requested(call.run, call.model, Len(events[call.run]))'
    BY DEF CallsRequested
  <2>1. CASE call \in modelsInFlight  BY <1>5, <2>1
  <2>2. CASE call = new
    <3>1. call.run = r /\ call.model = m  BY <1>4, <2>2
    <3> QED  BY <1>6, <3>1
  <2> QED  BY <1>3, <2>1, <2>2
<1> QED  BY <1>5, <1>7 DEF BookInv

\* An output committed in a run where its model is requested.
LEMMA RowsRequestedGrow ==
  ASSUME TypeOK, RowsRequested, NEW r \in Runs, NEW key \in Key, NEW row \in Row,
         row.type = "model.output_committed", AppendRow(r, key, row), ~KeyUsed(r, key),
         Requested(r, row.model, Len(events[r]))
  PROVE  RowsRequested'
<1>1. Appends(r, row) /\ Len(events[r]) \in Nat  BY AppendRowWrites
<1> SUFFICES ASSUME NEW q \in Runs, NEW i \in Committed(q)'
             PROVE  Requested(q, events[q][i].model, i - 1)'
  BY DEF RowsRequested
<1>2. /\ q = r => Committed(q)' = Committed(q) \cup {Len(events[q]) + 1}
      /\ q # r => Committed(q)' = Committed(q)
      /\ q = r => events'[q][Len(events[q]) + 1] = row
  <2>1. /\ q = r => Typed(q, row.type)' = Typed(q, row.type) \cup {Len(events[q]) + 1}
        /\ q # r => Typed(q, row.type)' = Typed(q, row.type)
        /\ q = r => events'[q][Len(events[q]) + 1] = row
    BY ThisRow
  <2>2. Typed(q, row.type) = Committed(q) /\ Typed(q, row.type)' = Committed(q)'
    BY DEF Typed, Committed
  <2> QED  BY <2>1, <2>2
<1>3. CASE i \in Committed(q)
  <2>1. events'[q][i] = events[q][i] /\ Requested(q, events[q][i].model, i - 1)'
    BY <1>1, <1>3, RowsStayRequested
  <2> QED  BY <2>1
<1>4. CASE q = r /\ i = Len(events[r]) + 1
  <2>1. Len(events[r]) \in 0..Len(events[r]) /\ i - 1 = Len(events[r])  BY <1>1, <1>4
  <2>2. events'[q][i].model = row.model  BY <1>2, <1>4
  <2>3. ASSUME NEW m, NEW n, m = row.model, n = Len(events[r])
        PROVE  Requested(r, m, n)'
    BY <1>1, <2>1, <2>3, RequestsStand
  <2>4. ASSUME NEW m, NEW n, m = events'[q][i].model, n = i - 1
        PROVE  Requested(q, m, n)'
    BY <1>4, <2>1, <2>2, <2>3, <2>4
  <2> QED  BY <2>4
<1> QED  BY <1>2, <1>3, <1>4
\* A model call is committed under its own number, after its request.
LEMMA ModelReturnKeepsBook ==
  ASSUME TypeOK, BookInv, NEW call \in modelsInFlight, NEW x \in Results,
         ModelReturns(call, x)
  PROVE  BookInv'
<1>1. PICK r, m : r = call.run /\ m = call.model /\ r \in Runs /\ m \in Models
  BY DEF TypeOK
<1>2. PICK row : row = PlainRow("model.output_committed", m, x)  OBVIOUS
<1>3. PICK key : key = ModelKey(Len(model_calls), "committed")  OBVIOUS
<1>4. PICK noted : noted = [run |-> r, model |-> m, result |-> x]  OBVIOUS
<1>5. /\ row \in Row /\ row.type = "model.output_committed" /\ row.effect = None
      /\ row.model = m /\ row.result = x
  BY <1>1, <1>2, RowTypes DEF PlainRow
<1>6. noted \in ModelCall /\ noted.run = r /\ noted.model = m /\ noted.result = x
  BY <1>1, <1>4 DEF ModelCall
<1>7. Len(model_calls) \in Nat /\ Len(model_calls') = Len(model_calls) + 1
  <2>1. model_calls \in Seq(ModelCall) /\ model_calls' = Append(model_calls, noted)
    BY <1>1, <1>4 DEF TypeOK, ModelReturns
  <2> QED  BY <1>6, <2>1
<1>8. /\ key \in Key /\ \A f \in Effect : key # ToolKey(f, "completed")
      /\ \A n \in Nat : key = ModelKey(n, "committed") => n = Len(model_calls)
  <2>1. key \in Key  BY <1>3, <1>7, KeyTypes
  <2> QED  BY <1>3, <2>1 DEF ToolKey, ModelKey
<1>9. /\ AppendRow(r, key, row) /\ model_calls' = Append(model_calls, noted)
      /\ modelsInFlight' = modelsInFlight \ {call} /\ UNCHANGED tool_calls
  BY <1>1, <1>2, <1>3, <1>4 DEF ModelReturns, CommitIndex, effectVars
<1>10. ~KeyUsed(r, key)
  <2> SUFFICES ASSUME NEW d \in idempotency, d.key = key  PROVE FALSE
    BY DEF KeyUsed
  <2>1. Len(model_calls) < Len(model_calls)
    BY <1>3, <1>7 DEF BookInv, OutcomeKeys
  <2> QED  BY <1>7, <2>1
<1>11. Requested(r, m, Len(events[r]))  BY <1>1 DEF BookInv, CallsRequested
<1>12. Admitted(r)
  <2>1. Len(events[r]) # 0  BY <1>11 DEF Requested
  <2>2. Len(<<>>) = 0  OBVIOUS
  <2> QED  BY <2>1, <2>2 DEF Admitted
<1>13. Appends(r, row)  BY <1>1, <1>5, <1>8, <1>9, AppendRowGrows
<1>14. Keyed'  BY <1>1, <1>5, <1>8, <1>9, <1>12, KeyedGrows DEF BookInv
<1>15. AtHome'  BY <1>1, <1>5, <1>13, HomeGrows DEF BookInv
<1>16. OutcomeKeys'
  <2>1. idempotency' \subseteq idempotency \cup {[run |-> r, key |-> key, digest |-> row]}
    BY <1>1, <1>5, <1>8, <1>9, AppendRowGrows
  <2> SUFFICES ASSUME NEW d \in idempotency'
               PROVE  /\ \A e \in Effect : d.key = ToolKey(e, "completed") =>
                           d.digest.type = "tool.completed" /\ d.digest.effect = e
                      /\ \A n \in Nat : d.key = ModelKey(n, "committed") =>
                           n < Len(model_calls')
    BY DEF OutcomeKeys
  <2>2. CASE d \in idempotency
    <3>1. /\ \A e \in Effect : d.key = ToolKey(e, "completed") =>
               d.digest.type = "tool.completed" /\ d.digest.effect = e
          /\ \A n \in Nat : d.key = ModelKey(n, "committed") => n < Len(model_calls)
      BY <2>2 DEF BookInv, OutcomeKeys
    <3>2. \A n \in Nat : n < Len(model_calls) => n < Len(model_calls')  BY <1>7
    <3> QED  BY <3>1, <3>2
  <2>3. CASE d.key = key
    <3>1. Len(model_calls) < Len(model_calls')  BY <1>7
    <3> QED  BY <1>8, <2>3, <3>1
  <2> QED  BY <2>1, <2>2, <2>3
<1>17. RowsRequested'
  BY <1>1, <1>5, <1>8, <1>9, <1>10, <1>11, RowsRequestedGrow DEF BookInv
<1>18. CallsRequested'
  <2>1. \A other \in modelsInFlight : Requested(other.run, other.model, Len(events[other.run]))'
    BY <1>1, <1>5, <1>13, CallsStayRequested DEF BookInv
  <2> QED  BY <1>9, <2>1 DEF CallsRequested
<1>19. CompletionsMatchCalls'
  BY <1>1, <1>5, <1>9, <1>13, CompletionsStand DEF BookInv
<1>20. CommitsMatchCalls'
  BY <1>1, <1>5, <1>6, <1>8, <1>9, <1>10, CommitsGrow DEF BookInv
<1> QED  BY <1>14, <1>15, <1>16, <1>17, <1>18, <1>19, <1>20 DEF BookInv

-----------------------------------------------------------------------------
\* An effect without rows has its start key free.
LEMMA StartIsNew ==
  ASSUME TypeOK, LogInv, NEW r \in Runs, NEW e \in Effect, Prior(r, e) = {}
  PROVE  ~KeyUsed(r, ToolKey(e, "started"))
<1> SUFFICES ASSUME NEW d \in idempotency, d.run = r, d.key = ToolKey(e, "started")
             PROVE  FALSE
  BY DEF KeyUsed
<1>1. d.digest.effect = e  BY DEF LogInv, StartKeysNameEffects
<1>2. \E i \in DOMAIN events[r] : events[r][i] = d.digest  BY DEF LogInv, KeysAreDurable
<1> QED  BY <1>1, <1>2 DEF Prior

LEMMA StartKeepsBook ==
  ASSUME TypeOK, BookInv, NEW c \in Callers, NEW req \in Request, StartTool(c, req)
  PROVE  BookInv'
<1>1. PICK inv \in Invocation : inv = req.inv  BY DEF Request
<1>2. PICK r \in Runs, e \in Effect : r = inv.run /\ e = EffectOf(inv) /\ e.run = r
  BY <1>1, EffectOfInvocation DEF Invocation
<1>3. PICK row : row = ToolRow("tool.started", inv, None)  OBVIOUS
<1>4. PICK key : key = ToolKey(e, "started")  OBVIOUS
<1>5. row \in Row /\ row.type = "tool.started" /\ row.effect = e
  BY <1>1, <1>2, <1>3, RowTypes DEF ToolRow
<1>6. /\ key \in Key /\ \A f \in Effect : key # ToolKey(f, "completed")
      /\ \A n \in Nat : key # ModelKey(n, "committed")
  BY <1>4, KeyTypes DEF ToolKey, ModelKey
<1>7. /\ AppendRow(r, key, row) /\ Admitted(r)
      /\ UNCHANGED <<modelsInFlight, tool_calls, model_calls>>
  BY <1>1, <1>2, <1>3, <1>4 DEF StartTool, modelVars
<1>8. /\ Keyed' /\ AtHome' /\ OutcomeKeys' /\ RowsRequested'
      /\ CompletionsMatchCalls' /\ CommitsMatchCalls'
      /\ \A call \in modelsInFlight : Requested(call.run, call.model, Len(events[call.run]))'
  BY <1>2, <1>5, <1>6, <1>7, BookKept
<1> QED  BY <1>7, <1>8 DEF BookInv, CallsRequested

\* The outcome of a running call is the first of its effect.
LEMMA CompletionIsNew ==
  ASSUME TypeOK, LogInv, EffectInv, OutcomeKeys, NEW call \in toolsInFlight
  PROVE  ~KeyUsed(call.req.inv.run, ToolKey(EffectOf(call.req.inv), "completed"))
<1>1. PICK inv \in Invocation : inv = call.req.inv  BY CallsAreTyped
<1>2. PICK e \in Effect : e = EffectOf(inv)  BY <1>1, EffectOfInvocation
<1> SUFFICES ASSUME NEW d \in idempotency, d.run = inv.run, d.key = ToolKey(e, "completed")
             PROVE  FALSE
  BY <1>1, <1>2 DEF KeyUsed
<1>3. d.digest.type = "tool.completed" /\ d.digest.effect = e  BY DEF OutcomeKeys
<1>4. \E i \in DOMAIN events[inv.run] : events[inv.run][i] = d.digest
  BY DEF LogInv, KeysAreDurable
<1>5. NotCompleted(inv)  BY <1>1 DEF EffectInv, InFlightStarted
<1> QED  BY <1>2, <1>3, <1>4, <1>5 DEF NotCompleted

LEMMA ToolReturnKeepsBook ==
  ASSUME TypeOK, LogInv, EffectInv, BookInv, NEW call \in toolsInFlight, NEW x \in Results,
         ToolReturns(call, x)
  PROVE  BookInv'
<1>1. PICK inv \in Invocation : inv = call.req.inv  BY CallsAreTyped
<1>2. PICK r \in Runs, e \in Effect : r = inv.run /\ e = EffectOf(inv) /\ e.run = r
  BY <1>1, EffectOfInvocation DEF Invocation
<1>3. PICK row : row = ToolRow("tool.completed", inv, x)  OBVIOUS
<1>4. PICK key : key = ToolKey(e, "completed")  OBVIOUS
<1>5. PICK noted : noted = [inv |-> inv, result |-> x]  OBVIOUS
<1>6. /\ row \in Row /\ row.type = "tool.completed" /\ row.effect = e /\ row.result = x
  BY <1>1, <1>2, <1>3, RowTypes DEF ToolRow
<1>7. noted \in ToolCall /\ noted.inv = inv /\ noted.result = x  BY <1>5 DEF ToolCall
<1>8. /\ key \in Key /\ \A f \in Effect : key = ToolKey(f, "completed") => f = e
      /\ \A n \in Nat : key # ModelKey(n, "committed")
  BY <1>4, KeyTypes DEF ToolKey, ModelKey
<1>9. /\ AppendRow(r, key, row) /\ tool_calls' = Append(tool_calls, noted)
      /\ UNCHANGED <<modelsInFlight, model_calls>>
  BY <1>1, <1>2, <1>3, <1>4, <1>5 DEF ToolReturns, modelVars
<1>10. ~KeyUsed(r, key)
  <2>1. OutcomeKeys  BY DEF BookInv
  <2> QED  BY <1>1, <1>2, <1>4, <2>1, CompletionIsNew
<1>11. Admitted(r)
  <2>1. StartedAs(inv)  BY <1>1 DEF EffectInv, InFlightStarted
  <2> QED  BY <1>2, <2>1 DEF StartedAs, Admitted
<1>12. Appends(r, row)  BY <1>6, <1>8, <1>9, AppendRowGrows
<1>13. Keyed'  BY <1>6, <1>8, <1>9, <1>11, KeyedGrows DEF BookInv
<1>14. AtHome'  BY <1>2, <1>6, <1>12, HomeGrows DEF BookInv
<1>15. OutcomeKeys'
  <2>1. idempotency' \subseteq idempotency \cup {[run |-> r, key |-> key, digest |-> row]}
    BY <1>6, <1>8, <1>9, AppendRowGrows
  <2> QED  BY <1>6, <1>8, <1>9, <2>1 DEF BookInv, OutcomeKeys
<1>16. RowsRequested'  BY <1>6, <1>12, RowsRequestedStand DEF BookInv
<1>17. CallsRequested'
  <2>1. \A other \in modelsInFlight : Requested(other.run, other.model, Len(events[other.run]))'
    BY <1>6, <1>12, CallsStayRequested DEF BookInv
  <2> QED  BY <1>9, <2>1 DEF CallsRequested
<1>18. CompletionsMatchCalls'
  BY <1>2, <1>6, <1>7, <1>8, <1>9, <1>10, CompletionsGrow DEF BookInv
<1>19. CommitsMatchCalls'  BY <1>6, <1>9, <1>12, CommitsStand DEF BookInv
<1> QED  BY <1>13, <1>14, <1>15, <1>16, <1>17, <1>18, <1>19 DEF BookInv
-----------------------------------------------------------------------------
\* Steps that touch neither the log nor the calls.
LEMMA BookStands ==
  ASSUME BookInv, UNCHANGED <<events, idempotency, tool_calls, model_calls>>,
         modelsInFlight' \subseteq modelsInFlight
  PROVE  BookInv'
<1>1. Keyed' /\ AtHome' /\ OutcomeKeys'
  BY DEF BookInv, Keyed, AtHome, OutcomeKeys, KeysOf, Admitted, Sequence
<1>2. RowsRequested' /\ CallsRequested'
  BY DEF BookInv, RowsRequested, CallsRequested, Committed, Requested
<1>3. \A r \in Runs : /\ Completed(r)' = Completed(r) /\ Committed(r)' = Committed(r)
                      /\ ToolCallsOf(r)' = ToolCallsOf(r)
                      /\ ModelCallsOf(r)' = ModelCallsOf(r)
  BY DEF Completed, Committed, ToolCallsOf, ModelCallsOf
<1>4. CompletionsMatchCalls'
  BY <1>3 DEF BookInv, CompletionsMatchCalls, Rank
<1>5. CommitsMatchCalls'
  BY <1>3 DEF BookInv, CommitsMatchCalls, Rank
<1> QED  BY <1>1, <1>2, <1>4, <1>5 DEF BookInv

\* The book invariant holds in every reachable state: it needs the effect
\* invariant for the keys of outcomes.
THEOREM BookInvariant == Spec => []BookInv
<1>1. Init => BookInv
  <2> SUFFICES ASSUME Init PROVE BookInv  OBVIOUS
  <2>0. \A r \in Runs : events[r] = <<>>  BY DEF Init
  <2>1. Cardinality({}) = 0 /\ IsFiniteSet({})  BY FS_EmptySet
  <2>2. \A r \in Runs : /\ Completed(r) = {} /\ Committed(r) = {}
                        /\ ToolCallsOf(r) = {} /\ ModelCallsOf(r) = {}
                        /\ KeysOf(r) = {} /\ ~Admitted(r)
    BY <2>0 DEF Init, Completed, Committed, ToolCallsOf, ModelCallsOf, KeysOf, Admitted
  <2>3. idempotency = {} /\ modelsInFlight = {}  BY DEF Init
  <2>4. Keyed  BY <2>1, <2>2, <2>3 DEF Keyed
  <2>5. AtHome  BY <2>0 DEF AtHome
  <2>6. OutcomeKeys  BY <2>3 DEF OutcomeKeys
  <2>7. RowsRequested /\ CallsRequested  BY <2>2, <2>3 DEF RowsRequested, CallsRequested
  <2>8. CompletionsMatchCalls /\ CommitsMatchCalls
    BY <2>2 DEF CompletionsMatchCalls, CommitsMatchCalls
  <2> QED  BY <2>4, <2>5, <2>6, <2>7, <2>8 DEF BookInv
<1>2. TypeOK /\ LogInv /\ EffectInv /\ BookInv /\ [Next]_vars => BookInv'
  <2> SUFFICES ASSUME TypeOK, LogInv, EffectInv, BookInv, [Next]_vars  PROVE BookInv'
    OBVIOUS
  <2>1. ASSUME NEW r \in Runs, Admit(r) PROVE BookInv'  BY <2>1, AdmitKeepsBook
  <2>2. ASSUME NEW r \in Runs, NEW type \in UserEvents, NEW k \in UserKeys,
               NEW s \in 1..MaxRows, AppendEvent(r, type, <<"user", k>>, s)
        PROVE  BookInv'
    BY <2>2, EventKeepsBook
  <2>3. ASSUME NEW r \in Runs, NEW e \in Effect, NEW x \in Results, ReconcileTool(r, e, x)
        PROVE  BookInv'
    BY <2>3, ReconcileKeepsBook
  <2>4. ASSUME NEW c \in Callers, NEW r \in Runs, NEW m \in Models, CallModel(c, r, m)
        PROVE  BookInv'
    BY <2>4, RequestKeepsBook
  <2>5. ASSUME NEW call \in modelsInFlight, NEW x \in Results, ModelReturns(call, x)
        PROVE  BookInv'
    BY <2>5, ModelReturnKeepsBook
  <2>6. ASSUME NEW c \in Callers, NEW req \in Request, StartTool(c, req)
        PROVE  BookInv'
    BY <2>6, StartKeepsBook
  <2>7. ASSUME NEW call \in toolsInFlight, NEW x \in Results, ToolReturns(call, x)
        PROVE  BookInv'
    BY <2>7, ToolReturnKeepsBook
  <2>8. ASSUME UNCHANGED <<events, idempotency, tool_calls, model_calls>>,
               modelsInFlight' \subseteq modelsInFlight
        PROVE  BookInv'
    BY <2>8, BookStands
  <2>9. CASE Application
    BY <2>1, <2>2, <2>3, <2>8, <2>9
       DEF Application, Checkpoint, RequestApproval, DecideApproval, RegisterModel,
           RegisterTool, logVars, modelVars, effectVars
  <2>10. CASE ModelStep
    BY <2>4, <2>5, <2>8, <2>10 DEF ModelStep, ModelRaises, logVars, effectVars
  <2>11. CASE ToolStep
    BY <2>6, <2>7, <2>8, <2>11 DEF ToolStep, ToolRaises, AnswerFromLog, logVars, modelVars
  <2>12. CASE UNCHANGED vars
    BY <2>8, <2>12 DEF vars, logVars, modelVars, effectVars
  <2> QED  BY <2>9, <2>10, <2>11, <2>12 DEF Next
<1> QED  BY <1>1, <1>2, TypeCorrect, EffectInvariant, PTL DEF Spec

\* tool_calls and the tool.completed rows of a run agree, one by one and in order,
\* whatever crashes, raises or is reconciled in between.
THEOREM CompletionsAgree == Spec => []CompletionsMatchCalls
<1>1. BookInv => CompletionsMatchCalls  BY DEF BookInv
<1> QED  BY <1>1, BookInvariant, PTL

\* model_calls and the model.output_committed rows agree in the same way, because
\* no commit key is used twice.
THEOREM CommitsAgree == Spec => []CommitsMatchCalls
<1>1. BookInv => CommitsMatchCalls  BY DEF BookInv
<1> QED  BY <1>1, BookInvariant, PTL

\* No model output and no running model callback lacks its durable request, for
\* any number of runs and callers that share request keys.
THEOREM ModelsAreRequested == Spec => []ModelWorkIsRequested
<1>1. BookInv => ModelWorkIsRequested
  BY DEF BookInv, ModelWorkIsRequested, RowsRequested, CallsRequested, Sequence
<1> QED  BY <1>1, BookInvariant, PTL
\* Distinct keys count as many as the identities they are of.
LEMMA KeysCount ==
  ASSUME NEW S, IsFiniteSet(S), \A d, o \in S : d.key = o.key => d = o
  PROVE  Cardinality(S) = Cardinality({d.key : d \in S})
<1> DEFINE keys == {d.key : d \in S}
           f == [d \in S |-> d.key]
<1>1. f \in [S -> keys] /\ \A d \in S : f[d] = d.key  OBVIOUS
<1>2. \A d, o \in S : f[d] = f[o] => d = o  BY <1>1
<1>3. \A k \in keys : \E d \in S : f[d] = k  BY <1>1
<1> HIDE DEF f, keys
<1>4. f \in Bijection(S, keys)  BY <1>1, <1>2, <1>3, Fun_IsBij
<1>5. ExistsBijection(S, keys)  BY <1>4, Fun_ExistsBij
<1>6. Cardinality(keys) = Cardinality(S)  BY <1>5, FS_Bijection
<1> QED  BY <1>6 DEF keys

\* Every row but run.admitted is durable under exactly one key, and every key
\* names a row that is there: crashes and retries neither lose nor double one.
THEOREM RowsHaveOneKey == Spec => []OneKeyPerRow
<1>1. TypeOK /\ LogInv /\ BookInv => OneKeyPerRow
  <2> SUFFICES ASSUME TypeOK, LogInv, BookInv, NEW r \in Runs
               PROVE  /\ Cardinality(KeysOf(r)) = Cardinality({d.key : d \in KeysOf(r)})
                      /\ Admitted(r) => Cardinality(KeysOf(r)) + 1 = Sequence(r)
                      /\ \A d \in KeysOf(r) : \E i \in DOMAIN events[r] : events[r][i] = d.digest
    BY DEF OneKeyPerRow
  <2>1. KeysOf(r) \subseteq idempotency /\ \A d \in KeysOf(r) : d.run = r  BY DEF KeysOf
  <2>2. IsFiniteSet(KeysOf(r))  BY <2>1, FS_Subset DEF BookInv, Keyed
  <2>3. \A d, o \in KeysOf(r) : d.key = o.key => d = o  BY <2>1 DEF BookInv, Keyed
  <2>4. Cardinality(KeysOf(r)) = Cardinality({d.key : d \in KeysOf(r)})
    BY <2>2, <2>3, KeysCount
  <2>5. Admitted(r) => Cardinality(KeysOf(r)) + 1 = Sequence(r)  BY DEF BookInv, Keyed
  <2>6. \A d \in KeysOf(r) : \E i \in DOMAIN events[r] : events[r][i] = d.digest
    BY <2>1 DEF LogInv, KeysAreDurable
  <2> QED  BY <2>4, <2>5, <2>6
<1> QED  BY <1>1, TypeCorrect, EffectInvariant, BookInvariant, PTL

-----------------------------------------------------------------------------
(***************************************************************************)
(* The emulator implements EffectLedger.  A row with an effect records it, *)
(* one that settles it puts its outcome on record; no other step is seen.  *)
(***************************************************************************)
HasRow(e) == \E r \in Runs : \E i \in DOMAIN events[r] : events[r][i].effect = e

HasOutcome(e, x) ==
  \E r \in Runs : \E i \in DOMAIN events[r] :
    /\ events[r][i].effect = e
    /\ events[r][i].type \in {"tool.completed", "tool.reconciled"}
    /\ events[r][i].result = x

LEMMA LedgerReads ==
  /\ RecordedEffects = {e \in Effect : HasRow(e)}
  /\ RecordedOutcomes = {o \in Effect \X Results : HasOutcome(o[1], o[2])}
<1>1. \A e \in Effect : HasRow(e) <=> \E r \in Runs : Prior(r, e) # {}
  BY DEF HasRow, Prior
<1>2. \A o \in Effect \X Results :
        HasOutcome(o[1], o[2]) <=>
          \E r \in Runs : \E i \in Settled(r, o[1]) : events[r][i].result = o[2]
  BY DEF HasOutcome, Settled, Prior
<1> QED  BY <1>1, <1>2 DEF RecordedEffects, RecordedOutcomes

\* What a row in the log adds.
LEMMA LedgerGrows ==
  ASSUME NEW r \in Runs, NEW row \in Row, Appends(r, row),
         \E i \in DOMAIN events'[r] : events'[r][i] = row, NEW e, NEW x
  PROVE  /\ HasRow(e)' <=> HasRow(e) \/ row.effect = e
         /\ HasOutcome(e, x)' <=>
              \/ HasOutcome(e, x)
              \/ /\ row.effect = e /\ row.result = x
                 /\ row.type \in {"tool.completed", "tool.reconciled"}
<1>1. /\ \A q \in Runs : \A i \in DOMAIN events[q] :
           i \in DOMAIN events'[q] /\ events'[q][i] = events[q][i]
      /\ \A q \in Runs : \A i \in DOMAIN events'[q] :
           i \in DOMAIN events[q] \/ events'[q][i] = row
  BY DEF Appends
<1>2. HasRow(e)' <=> HasRow(e) \/ row.effect = e
  BY <1>1 DEF HasRow
<1>3. HasOutcome(e, x)' <=>
        \/ HasOutcome(e, x)
        \/ /\ row.effect = e /\ row.result = x
           /\ row.type \in {"tool.completed", "tool.reconciled"}
  BY <1>1 DEF HasOutcome
<1> QED  BY <1>2, <1>3
LEMMA LedgerReadsNext ==
  /\ \A e \in Effect : e \in RecordedEffects' <=> HasRow(e)'
  /\ \A e \in Effect, x \in Results : <<e, x>> \in RecordedOutcomes' <=> HasOutcome(e, x)'
<1>1. \A e \in Effect : e \in RecordedEffects' <=> HasRow(e)'
  BY DEF HasRow, Prior, RecordedEffects
<1>2. ASSUME NEW e \in Effect, NEW x \in Results
      PROVE  <<e, x>> \in RecordedOutcomes' <=> HasOutcome(e, x)'
  <2>1. <<e, x>> \in Effect \X Results /\ <<e, x>>[1] = e /\ <<e, x>>[2] = x  OBVIOUS
  <2> QED  BY <2>1 DEF HasOutcome, Settled, Prior, RecordedOutcomes
<1> QED  BY <1>1, <1>2

\* A row without an effect is not seen.
LEMMA LedgerBlind ==
  ASSUME NEW r \in Runs, NEW row \in Row, Appends(r, row), row.effect = None
  PROVE  UNCHANGED <<RecordedEffects, RecordedOutcomes>>
<1>1. /\ \A q \in Runs : \A i \in DOMAIN events[q] :
           i \in DOMAIN events'[q] /\ events'[q][i] = events[q][i]
      /\ \A q \in Runs : \A i \in DOMAIN events'[q] :
           i \in DOMAIN events[q] \/ events'[q][i].effect = None
  BY DEF Appends
<1>2. \A e \in Effect : HasRow(e)' <=> HasRow(e)
  BY <1>1, NoneAssumption DEF HasRow
<1>3. \A e \in Effect, x \in Results : HasOutcome(e, x)' <=> HasOutcome(e, x)
  BY <1>1, NoneAssumption DEF HasOutcome
<1>4. RecordedEffects' = RecordedEffects
  <2>1. \A e \in Effect : e \in RecordedEffects' <=> e \in RecordedEffects
    BY <1>2, LedgerReads, LedgerReadsNext
  <2>2. RecordedEffects \subseteq Effect /\ RecordedEffects' \subseteq Effect
    BY DEF RecordedEffects
  <2> QED  BY <2>1, <2>2
<1>5. RecordedOutcomes' = RecordedOutcomes
  <2>1. ASSUME NEW e \in Effect, NEW x \in Results
        PROVE  <<e, x>> \in RecordedOutcomes' <=> <<e, x>> \in RecordedOutcomes
    <3>1. <<e, x>> \in RecordedOutcomes <=> HasOutcome(e, x)  BY LedgerReads
    <3> QED  BY <1>3, <3>1, LedgerReadsNext
  <2>2. RecordedOutcomes \subseteq Effect \X Results /\ RecordedOutcomes' \subseteq Effect \X Results
    BY DEF RecordedOutcomes
  <2> QED  BY <2>1, <2>2
<1> QED  BY <1>4, <1>5

\* A row that starts e records it; one that settles e with x puts that on record.
LEMMA LedgerRecords ==
  ASSUME NEW r \in Runs, NEW row \in Row, Appends(r, row),
         \E i \in DOMAIN events'[r] : events'[r][i] = row,
         NEW e \in Effect, row.effect = e
  PROVE  /\ RecordedEffects' = RecordedEffects \cup {e}
         /\ row.type = "tool.started" => RecordedOutcomes' = RecordedOutcomes
         /\ \A x \in Results :
              /\ row.type \in {"tool.completed", "tool.reconciled"}
              /\ row.result = x
              => RecordedOutcomes' = RecordedOutcomes \cup {<<e, x>>}
<1>1. RecordedEffects' = RecordedEffects \cup {e}
  <2>1. \A f \in Effect : f \in RecordedEffects' <=> f \in RecordedEffects \cup {e}
    BY LedgerGrows, LedgerReads, LedgerReadsNext
  <2>2. RecordedEffects \subseteq Effect /\ RecordedEffects' \subseteq Effect
    BY DEF RecordedEffects
  <2> QED  BY <2>1, <2>2
<1>2. ASSUME NEW f \in Effect, NEW y \in Results
      PROVE  <<f, y>> \in RecordedOutcomes' <=>
               \/ <<f, y>> \in RecordedOutcomes
               \/ /\ f = e /\ row.result = y
                  /\ row.type \in {"tool.completed", "tool.reconciled"}
  <2>1. <<f, y>> \in RecordedOutcomes <=> HasOutcome(f, y)  BY LedgerReads
  <2> QED  BY <2>1, LedgerGrows, LedgerReadsNext
<1>3. RecordedOutcomes \subseteq Effect \X Results /\ RecordedOutcomes' \subseteq Effect \X Results
  BY DEF RecordedOutcomes
<1>4. row.type = "tool.started" => RecordedOutcomes' = RecordedOutcomes
  BY <1>2, <1>3
<1>5. ASSUME NEW x \in Results, row.result = x,
             row.type \in {"tool.completed", "tool.reconciled"}
      PROVE  RecordedOutcomes' = RecordedOutcomes \cup {<<e, x>>}
  BY <1>2, <1>3, <1>5
<1> QED  BY <1>1, <1>4, <1>5
\* On an effect that has rows, an outcome is all there is new.
LEMMA LedgerSettles ==
  ASSUME NEW r \in Runs, NEW row \in Row, Appends(r, row),
         \E i \in DOMAIN events'[r] : events'[r][i] = row,
         NEW e \in Effect, row.effect = e, NEW x \in Results, row.result = x,
         row.type \in {"tool.completed", "tool.reconciled"}, e \in RecordedEffects
  PROVE  /\ RecordedEffects' = RecordedEffects
         /\ RecordedOutcomes' = RecordedOutcomes \cup {<<e, x>>}
<1>1. RecordedEffects' = RecordedEffects \cup {e}  BY LedgerRecords
<1>2. RecordedOutcomes' = RecordedOutcomes \cup {<<e, x>>}  BY LedgerRecords
<1> QED  BY <1>1, <1>2

-----------------------------------------------------------------------------
\* One more invocation, or one more answer, as the ledger reads it.
LEMMA ExecutionsGrow ==
  ASSUME TypeOK, NEW req \in Request, invocations' = Append(invocations, req)
  PROVE  Executions' = Append(Executions, EffectOf(req.inv))
<1>1. invocations \in Seq(Request) /\ Len(invocations) \in Nat
      /\ DOMAIN invocations = 1..Len(invocations)
  BY DEF TypeOK
<1>2. /\ DOMAIN invocations' = 1..(Len(invocations) + 1)
      /\ \A i \in 1..Len(invocations) : invocations'[i] = invocations[i]
      /\ invocations'[Len(invocations) + 1] = req
  BY <1>1, AppendParts
<1>3. \A i \in 1..Len(invocations) : EffectOf(invocations[i].inv) \in Effect
  BY <1>1, CallsAreTyped, EffectOfInvocation
<1>4. /\ Executions \in Seq(Effect) /\ Len(Executions) = Len(invocations)
      /\ \A i \in 1..Len(invocations) : Executions[i] = EffectOf(invocations[i].inv)
  BY <1>1, <1>3 DEF Executions
<1>5. EffectOf(req.inv) \in Effect  BY EffectOfInvocation DEF Request
<1>6. /\ DOMAIN Append(Executions, EffectOf(req.inv)) = 1..(Len(invocations) + 1)
      /\ \A i \in 1..Len(invocations) :
           Append(Executions, EffectOf(req.inv))[i] = EffectOf(invocations[i].inv)
      /\ Append(Executions, EffectOf(req.inv))[Len(invocations) + 1] = EffectOf(req.inv)
  BY <1>4, <1>5, AppendParts
<1>7. Executions' = [i \in 1..(Len(invocations) + 1) |-> EffectOf(invocations'[i].inv)]
  BY <1>2 DEF Executions, EffectOf
<1>8. \A i \in 1..(Len(invocations) + 1) :
        EffectOf(invocations'[i].inv) = Append(Executions, EffectOf(req.inv))[i]
  BY <1>1, <1>2, <1>6
<1>9. Append(Executions, EffectOf(req.inv)) \in Seq(Effect)  BY <1>4, <1>5
<1>10. Append(Executions, EffectOf(req.inv))
         = [i \in 1..(Len(invocations) + 1) |-> Append(Executions, EffectOf(req.inv))[i]]
  BY <1>6, <1>9
<1> QED  BY <1>7, <1>8, <1>10

LEMMA AnswersGrow ==
  ASSUME NEW inv, NEW x, answers' = answers \cup {[inv |-> inv, result |-> x]}
  PROVE  Answered' = Answered \cup {<<EffectOf(inv), x>>}
<1> DEFINE new == [inv |-> inv, result |-> x]
<1>1. new.inv = inv /\ new.result = x /\ answers' = answers \cup {new}  OBVIOUS
<1> HIDE DEF new
<1>2. Answered' = {<<EffectOf(a.inv), a.result>> : a \in answers'}
  BY DEF Answered, EffectOf
<1> QED  BY <1>1, <1>2 DEF Answered

\* A first call of an effect records it and executes it, unless it crashes.
LEMMA StartIsLedgerStep ==
  ASSUME TypeOK, LogInv, AtHome, NEW c \in Callers, NEW req \in Request, StartTool(c, req)
  PROVE  Ledger!Next
<1>1. PICK inv \in Invocation : inv = req.inv  BY DEF Request
<1>2. PICK r \in Runs, e \in Effect : r = inv.run /\ e = EffectOf(inv) /\ e.run = r
  BY <1>1, EffectOfInvocation DEF Invocation
<1>3. PICK row : row = ToolRow("tool.started", inv, None)  OBVIOUS
<1>4. PICK key : key = ToolKey(e, "started")  OBVIOUS
<1>5. row \in Row /\ row.type = "tool.started" /\ row.effect = e /\ key \in Key
  BY <1>1, <1>2, <1>3, <1>4, RowTypes, KeyTypes DEF ToolRow
<1>6. AppendRow(r, key, row) /\ Prior(r, e) = {} /\ UNCHANGED answers
  BY <1>1, <1>2, <1>3, <1>4 DEF StartTool, Unknown
<1>7. ~KeyUsed(r, key)  BY <1>4, <1>6, StartIsNew
<1>8. Appends(r, row) /\ \E i \in DOMAIN events'[r] : events'[r][i] = row
  BY <1>5, <1>6, <1>7, AppendRowGrows
<1>9. RecordedEffects' = RecordedEffects \cup {e} /\ RecordedOutcomes' = RecordedOutcomes
  BY <1>5, <1>8, LedgerRecords
<1>10. e \notin RecordedEffects
  <2> SUFFICES ASSUME NEW q \in Runs, Prior(q, e) # {}  PROVE FALSE
    BY DEF RecordedEffects
  <2>1. PICK i \in DOMAIN events[q] : events[q][i].effect = e  BY DEF Prior
  <2>2. e.run = q  BY <2>1, NoneAssumption DEF AtHome
  <2> QED  BY <1>2, <1>6, <2>2
<1>11. Answered' = Answered  BY <1>6 DEF Answered, EffectOf
<1>12. CASE UNCHANGED <<toolsInFlight, invocations>>
  <2>1. Executions' = Executions  BY <1>12 DEF Executions, EffectOf
  <2>2. Ledger!RecordOnly(e)  BY <1>9, <1>10, <1>11, <2>1 DEF Ledger!RecordOnly
  <2> QED  BY <2>2 DEF Ledger!Next
<1>13. CASE invocations' = Append(invocations, req)
  <2>1. Executions' = Append(Executions, e)  BY <1>1, <1>2, <1>13, ExecutionsGrow
  <2>2. Ledger!Execute(e)  BY <1>9, <1>10, <1>11, <2>1 DEF Ledger!Execute
  <2> QED  BY <2>2 DEF Ledger!Next
<1> QED  BY <1>12, <1>13, StartToolOutcome

\* A callback that returned settles its effect; its caller may see the outcome.
LEMMA ReturnIsLedgerStep ==
  ASSUME TypeOK, LogInv, EffectInv, OutcomeKeys,
         NEW call \in toolsInFlight, NEW x \in Results, ToolReturns(call, x)
  PROVE  Ledger!Next
<1>1. PICK inv \in Invocation : inv = call.req.inv  BY CallsAreTyped
<1>2. PICK r \in Runs, e \in Effect : r = inv.run /\ e = EffectOf(inv)
  BY <1>1, EffectOfInvocation DEF Invocation
<1>3. PICK row : row = ToolRow("tool.completed", inv, x)  OBVIOUS
<1>4. PICK key : key = ToolKey(e, "completed")  OBVIOUS
<1>5. /\ row \in Row /\ row.type = "tool.completed" /\ row.effect = e /\ row.result = x
      /\ key \in Key
  BY <1>1, <1>2, <1>3, <1>4, RowTypes, KeyTypes DEF ToolRow
<1>6. /\ AppendRow(r, key, row) /\ UNCHANGED invocations
      /\ answers' \in {answers, answers \cup {[inv |-> inv, result |-> x]}}
  BY <1>1, <1>2, <1>3, <1>4 DEF ToolReturns
<1>7. ~KeyUsed(r, key)  BY <1>1, <1>2, <1>4, CompletionIsNew
<1>8. Appends(r, row) /\ \E i \in DOMAIN events'[r] : events'[r][i] = row
  BY <1>5, <1>6, <1>7, AppendRowGrows
<1>9. e \in RecordedEffects
  <2>1. StartedAs(inv)  BY <1>1 DEF EffectInv, InFlightStarted
  <2> QED  BY <1>2, <2>1 DEF StartedAs, RecordedEffects, Prior
<1>10. RecordedEffects' = RecordedEffects /\ RecordedOutcomes' = RecordedOutcomes \cup {<<e, x>>}
  BY <1>5, <1>8, <1>9, LedgerSettles
<1>11. Answered' \in {Answered, Answered \cup {<<e, x>>}}
  <2>1. CASE answers' = answers  BY <2>1 DEF Answered, EffectOf
  <2>2. CASE answers' = answers \cup {[inv |-> inv, result |-> x]}
    BY <1>2, <2>2, AnswersGrow
  <2> QED  BY <1>6, <2>1, <2>2
<1>12. Executions' = Executions  BY <1>6 DEF Executions, EffectOf
<1>13. Ledger!Settle(e, x)  BY <1>9, <1>10, <1>11, <1>12 DEF Ledger!Settle
<1> QED  BY <1>13 DEF Ledger!Next

\* A reconciliation settles a recorded effect, or is a retry and changes nothing.
LEMMA ReconcileIsLedgerStep ==
  ASSUME TypeOK, AtHome, NEW r \in Runs, NEW e \in Effect, NEW x \in Results,
         ReconcileTool(r, e, x)
  PROVE  Ledger!Next \/ UNCHANGED Ledger!vars
<1>1. PICK row : row = ReconciledRow(e, x)  OBVIOUS
<1>2. PICK key : key = ToolKey(e, "reconciled")  OBVIOUS
<1>3. /\ row \in Row /\ row.type = "tool.reconciled" /\ row.effect = e /\ row.result = x
      /\ key \in Key
  BY <1>1, <1>2, RowTypes, KeyTypes DEF ReconciledRow
<1>4. AppendRow(r, key, row) /\ Prior(r, e) # {} /\ UNCHANGED <<invocations, answers>>
  BY <1>1, <1>2 DEF ReconcileTool, AwaitsReconciliation, effectVars
<1>5. Executions' = Executions /\ Answered' = Answered
  BY <1>4 DEF Executions, Answered, EffectOf
<1>6. CASE KeyUsed(r, key)
  <2>1. UNCHANGED events  BY <1>3, <1>4, <1>6, AppendRowGrows DEF logVars
  <2>2. UNCHANGED <<RecordedEffects, RecordedOutcomes>>
    BY <2>1 DEF RecordedEffects, RecordedOutcomes, Prior, Settled
  <2> QED  BY <1>5, <2>2 DEF Ledger!vars
<1>7. CASE ~KeyUsed(r, key)
  <2>1. Appends(r, row) /\ \E i \in DOMAIN events'[r] : events'[r][i] = row
    BY <1>3, <1>4, <1>7, AppendRowGrows
  <2>2. e \in RecordedEffects  BY <1>4 DEF RecordedEffects
  <2>3. RecordedEffects' = RecordedEffects /\ RecordedOutcomes' = RecordedOutcomes \cup {<<e, x>>}
    BY <1>3, <2>1, <2>2, LedgerSettles
  <2>4. Ledger!Settle(e, x)  BY <1>5, <2>2, <2>3 DEF Ledger!Settle
  <2> QED  BY <2>4 DEF Ledger!Next
<1> QED  BY <1>6, <1>7

\* An answer from the log is on record.
LEMMA AnswerIsLedgerStep ==
  ASSUME TypeOK, NEW c \in Callers, NEW req \in Request, AnswerFromLog(c, req)
  PROVE  Ledger!Next
<1>1. PICK inv \in Invocation : inv = req.inv  BY DEF Request
<1>2. PICK r \in Runs, e \in Effect : r = inv.run /\ e = EffectOf(inv)
  BY <1>1, EffectOfInvocation DEF Invocation
<1>3. PICK i \in Settled(r, e) :
        answers' = answers \cup {[inv |-> inv, result |-> events[r][i].result]}
  BY <1>1, <1>2 DEF AnswerFromLog
<1>4. PICK x : x = events[r][i].result  OBVIOUS
<1>5. x \in Results
  <2>1. i \in DOMAIN events[r] /\ events[r][i].type \in {"tool.completed", "tool.reconciled"}
    BY <1>3 DEF Settled, Prior
  <2>2. events[r][i] \in Row  BY <2>1 DEF TypeOK
  <2> QED  BY <1>4, <2>1, <2>2 DEF Row
<1>6. UNCHANGED <<events, invocations>>  BY DEF AnswerFromLog, logVars
<1>7. <<e, x>> \in RecordedOutcomes  BY <1>3, <1>4, <1>5 DEF RecordedOutcomes
<1>8. UNCHANGED <<RecordedEffects, RecordedOutcomes, Executions>>
  BY <1>6 DEF RecordedEffects, RecordedOutcomes, Executions, Prior, Settled, EffectOf
<1>9. Answered' = Answered \cup {<<e, x>>}  BY <1>2, <1>3, <1>4, AnswersGrow
<1>10. Ledger!Answer(e, x)  BY <1>7, <1>8, <1>9 DEF Ledger!Answer
<1> QED  BY <1>5, <1>10 DEF Ledger!Next
\* Each step of the emulator is a step of the ledger or is not seen by it.
LEMMA StepsKeepLedger ==
  ASSUME TypeOK, LogInv, EffectInv, BookInv, [Next]_vars
  PROVE  Ledger!Next \/ UNCHANGED Ledger!vars
<1>0. AtHome /\ OutcomeKeys /\ Len(model_calls) \in Nat  BY DEF BookInv, TypeOK
<1>1. ASSUME NEW r \in Runs, NEW row \in Row, Appends(r, row), row.effect = None,
             UNCHANGED <<invocations, answers>>
      PROVE  UNCHANGED Ledger!vars
  BY <1>1, LedgerBlind DEF Ledger!vars, Executions, Answered, EffectOf
<1>2. ASSUME UNCHANGED <<events, invocations, answers>>
      PROVE  UNCHANGED Ledger!vars
  BY <1>2 DEF Ledger!vars, Executions, Answered, EffectOf, RecordedEffects,
              RecordedOutcomes, Prior, Settled
<1>3. ASSUME NEW r \in Runs, Admit(r) PROVE UNCHANGED Ledger!vars
  <2>1. PICK row : row = PlainRow("run.admitted", None, None)  OBVIOUS
  <2>2. row \in Row /\ row.effect = None  BY <2>1, RowTypes DEF PlainRow
  <2>3. events[r] = <<>> /\ events' = [events EXCEPT ![r] = <<row>>]
    BY <1>3, <2>1 DEF Admit, Admitted
  <2>4. events \in [Runs -> Seq(Row)] /\ <<row>> \in Seq(Row)  BY <2>2 DEF TypeOK
  <2>5. Appends(r, row)  BY <2>3, <2>4 DEF Appends
  <2> QED  BY <1>1, <1>3, <2>2, <2>5 DEF Admit, effectVars
<1>4. ASSUME NEW r \in Runs, NEW type \in UserEvents, NEW k \in UserKeys,
             NEW s \in 1..MaxRows, AppendEvent(r, type, <<"user", k>>, s)
      PROVE  UNCHANGED Ledger!vars
  <2>1. PICK row : row = PlainRow(type, None, None)  OBVIOUS
  <2>2. PICK key : key = <<"user", k>>  OBVIOUS
  <2>3. row \in Row /\ row.effect = None /\ key \in Key
    BY <2>1, <2>2, RowTypes, KeyTypes DEF PlainRow
  <2>4. AppendRow(r, key, row) /\ UNCHANGED <<invocations, answers>>
    BY <1>4, <2>1, <2>2 DEF AppendEvent, effectVars
  <2> QED  BY <1>1, <2>3, <2>4, AppendRowGrows
<1>5. ASSUME NEW c \in Callers, NEW r \in Runs, NEW m \in Models, CallModel(c, r, m)
      PROVE  UNCHANGED Ledger!vars
  <2>1. PICK row : row = PlainRow("model.requested", m, None)  OBVIOUS
  <2>2. PICK key : key = ModelKey(Len(model_calls), "requested")  OBVIOUS
  <2>3. row \in Row /\ row.effect = None /\ key \in Key
    BY <1>0, <2>1, <2>2, RowTypes, KeyTypes DEF PlainRow
  <2>4. AppendRow(r, key, row) /\ UNCHANGED <<invocations, answers>>
    BY <1>5, <2>1, <2>2 DEF CallModel, effectVars
  <2> QED  BY <1>1, <2>3, <2>4, AppendRowGrows
<1>6. ASSUME NEW call \in modelsInFlight, NEW x \in Results, ModelReturns(call, x)
      PROVE  UNCHANGED Ledger!vars
  <2>1. PICK row : row = PlainRow("model.output_committed", call.model, x)  OBVIOUS
  <2>2. PICK key : key = ModelKey(Len(model_calls), "committed")  OBVIOUS
  <2>3. call.run \in Runs /\ call.model \in Models  BY DEF TypeOK
  <2>4. row \in Row /\ row.effect = None /\ key \in Key
    BY <1>0, <2>1, <2>2, <2>3, RowTypes, KeyTypes DEF PlainRow
  <2>5. AppendRow(call.run, key, row) /\ UNCHANGED <<invocations, answers>>
    BY <1>6, <2>1, <2>2 DEF ModelReturns, CommitIndex, effectVars
  <2> QED  BY <1>1, <2>3, <2>4, <2>5, AppendRowGrows
<1>7. CASE Application
  <2>1. ASSUME NEW r \in Runs, NEW e \in Effect, NEW x \in Results, ReconcileTool(r, e, x)
        PROVE  Ledger!Next \/ UNCHANGED Ledger!vars
    BY <1>0, <2>1, ReconcileIsLedgerStep
  <2> QED
    BY <1>2, <1>3, <1>4, <1>7, <2>1
       DEF Application, Checkpoint, RequestApproval, DecideApproval, RegisterModel,
           RegisterTool, logVars, effectVars
<1>8. CASE ModelStep
  BY <1>2, <1>5, <1>6, <1>8 DEF ModelStep, ModelRaises, logVars, effectVars
<1>9. CASE ToolStep
  <2>1. ASSUME NEW c \in Callers, NEW req \in Request, StartTool(c, req)
        PROVE  Ledger!Next
    BY <1>0, <2>1, StartIsLedgerStep
  <2>2. ASSUME NEW call \in toolsInFlight, NEW x \in Results, ToolReturns(call, x)
        PROVE  Ledger!Next
    BY <1>0, <2>2, ReturnIsLedgerStep
  <2>3. ASSUME NEW c \in Callers, NEW req \in Request, AnswerFromLog(c, req)
        PROVE  Ledger!Next
    BY <2>3, AnswerIsLedgerStep
  <2>4. ASSUME NEW call \in toolsInFlight, ToolRaises(call)
        PROVE  UNCHANGED Ledger!vars
    BY <1>2, <2>4 DEF ToolRaises, logVars
  <2> QED  BY <1>9, <2>1, <2>2, <2>3, <2>4 DEF ToolStep
<1>10. CASE UNCHANGED vars
  BY <1>2, <1>10 DEF vars, logVars, effectVars
<1> QED  BY <1>7, <1>8, <1>9, <1>10 DEF Next

\* The emulator implements the effect ledger: an effect is recorded before it is
\* executed, executed at most once and only when first recorded, and answered only
\* with an outcome on record, however calls, crashes and reconciliations interleave.
THEOREM ImplementsLedger == Spec => KeepsLedger
<1>1. Init => Ledger!Init
  <2> SUFFICES ASSUME Init PROVE Ledger!Init  OBVIOUS
  <2>1. \A r \in Runs : events[r] = <<>>  BY DEF Init
  <2>2. RecordedEffects = {} /\ RecordedOutcomes = {}
    BY <2>1 DEF RecordedEffects, RecordedOutcomes, Settled, Prior
  <2>3. Answered = {}  BY DEF Init, Answered
  <2>4. Executions = <<>>
    <3>1. Executions = [i \in {} |-> EffectOf(invocations[i].inv)]
      BY DEF Init, Executions
    <3>2. [i \in {} |-> EffectOf(invocations[i].inv)] = <<>>  OBVIOUS
    <3> QED  BY <3>1, <3>2
  <2> QED  BY <2>2, <2>3, <2>4 DEF Ledger!Init
<1>2. TypeOK /\ LogInv /\ EffectInv /\ BookInv /\ [Next]_vars => [Ledger!Next]_(Ledger!vars)
  BY StepsKeepLedger
<1> QED
  BY <1>1, <1>2, TypeCorrect, EffectInvariant, BookInvariant, PTL
     DEF Spec, KeepsLedger, Ledger!Spec
=============================================================================
