---------------------------- MODULE TaskWorkflow -----------------------------
(***************************************************************************)
(* Workers that hand work to an Agent under an operation name of their     *)
(* own: submit of examples/task_workflow.py, the three stages of           *)
(* examples/support_escalation.py built on it, and tasks create of the     *)
(* CLI.  Any of them may be interrupted, by a lost answer or otherwise,    *)
(* and run again under the same name, in parallel even.                    *)
(*                                                                         *)
(* A stage uploads its input and the outcome contract it wants, creates a  *)
(* task that refers to both, waits for its end and takes its result into   *)
(* the next stage.  What the loop that waits does with its clock is        *)
(* TaskWait's.  tasks create is the one with --contract: without it, the   *)
(* program makes one upload less.                                          *)
(***************************************************************************)
EXTENDS Naturals, Sequences, SequencesExt

CONSTANTS
  Workers,       \* processes, one program run each
  OperationIds,  \* what --operation-id or --idempotency-key may be
  Values,        \* tickets, documents, instructions
  AgentResults,  \* what an Agent may answer
  MaxUploads     \* bound: objects the cell holds

ASSUME UploadsAssumption == MaxUploads \in Nat

VARIABLES
  flow,     \* per program: which one it is, under which operation, on which value
  flowPc,
  stage,    \* the stage it is in
  refs,     \* the uploads of this stage: the input's reference, the contract's
  results,  \* the results of the stages before
  outcome,  \* how the program ended
  uploads,  \* cell: the objects, in order, each with the key it came under
  tasks     \* cell: the tasks, in order, each with its key, body and result

flowVars == <<flow, flowPc, stage, refs, results, outcome>>
cellVars == <<uploads, tasks>>
workVars == <<flowVars, cellVars>>

FlowKinds == {"create", "submit", "investigate"}
Flows  == [kind : FlowKinds, operation : OperationIds, value : Values]
NoFlow == [kind |-> "none"]

-----------------------------------------------------------------------------
Stages(p) == IF flow[p].kind = "investigate" THEN 3 ELSE 1

\* Mutant: a stage is given the value alone.
InputOfValueAlone(p) == <<flow[p].value, <<>>>>

\* What the stage submits: the value, then what the stages before made of it.
Input(p)    == <<flow[p].value, results[p]>>
Contract(p) == <<flow[p].kind, stage[p]>>

\* upload_input is keyed by the digest of what it uploads.
UploadKey(p, content) == content

\* Mutant: the stages of an investigation share one name.
TaskKeyOfOperation(p) == <<flow[p].operation, 0>>

\* operation_id, and operation_id:normalize, :investigate, :review.
TaskKey(p) ==
  <<flow[p].operation, IF flow[p].kind = "investigate" THEN stage[p] ELSE 0>>

Body(p) == [input |-> refs[p][1], contract |-> refs[p][2]]

\* The upload or the task the cell remembers under a key, 0 if there is none.
Remembered(table, key) == SelectInSeq(table, LAMBDA row : row.key = key)

-----------------------------------------------------------------------------
WorkInit ==
  /\ flow = [p \in Workers |-> NoFlow]
  /\ flowPc = [p \in Workers |-> "idle"]
  /\ stage = [p \in Workers |-> 1]
  /\ refs = [p \in Workers |-> <<>>]
  /\ results = [p \in Workers |-> <<>>]
  /\ outcome = [p \in Workers |-> "none"]
  /\ uploads = <<>> /\ tasks = <<>>

FlowAt(p, where) == flowPc' = [flowPc EXCEPT ![p] = where] /\ UNCHANGED outcome
FlowEnds(p, how) ==
  /\ flowPc' = [flowPc EXCEPT ![p] = "done"]
  /\ outcome' = [outcome EXCEPT ![p] = how]

\* The program starts; submit asks the Agent for the execution mode it needs.
StartProgram(p) ==
  /\ flowPc[p] = "idle"
  /\ \E f \in Flows :
       /\ flow' = [flow EXCEPT ![p] = f]
       /\ \/ FlowAt(p, "upload")
          \/ f.kind # "create" /\ FlowEnds(p, "unsupported")
  /\ UNCHANGED <<stage, refs, results, cellVars>>

\* upload_input: the cell answers with the reference it has or makes one.
Upload(p) ==
  LET content == IF refs[p] = <<>> THEN Input(p) ELSE Contract(p)
      key     == UploadKey(p, content)
      known   == Remembered(uploads, key)
  IN
  /\ flowPc[p] = "upload"
  /\ IF known # 0 THEN UNCHANGED uploads
     ELSE /\ Len(uploads) < MaxUploads
          /\ uploads' = Append(uploads, [key |-> key, content |-> content])
  /\ \/ /\ refs' = [refs EXCEPT ![p] = Append(@, IF known # 0 THEN known ELSE Len(uploads'))]
        /\ FlowAt(p, IF refs[p] = <<>> THEN "upload" ELSE "create")
     \/ FlowEnds(p, "lost") /\ UNCHANGED refs
  /\ UNCHANGED <<flow, stage, results, tasks>>

\* create_task: a known key is answered with its task if the body is the same
\* and refused if it is not.
CreateTask(p) ==
  LET known == Remembered(tasks, TaskKey(p)) IN
  /\ flowPc[p] = "create"
  /\ IF known # 0 THEN UNCHANGED tasks
     ELSE tasks' = Append(tasks, [key |-> TaskKey(p), body |-> Body(p),
                                  state |-> "running", result |-> "none"])
  /\ \/ known # 0 /\ tasks[known].body # Body(p) /\ FlowEnds(p, "reused")
     \/ /\ known # 0 => tasks[known].body = Body(p)
        /\ IF flow[p].kind = "create" THEN FlowEnds(p, "created") ELSE FlowAt(p, "wait")
     \/ FlowEnds(p, "lost")
  /\ UNCHANGED <<flow, stage, refs, results, uploads>>

\* The task is read: its result goes into the next stage, or out.
TakeResult(p) ==
  LET t == tasks[Remembered(tasks, TaskKey(p))] IN
  /\ flowPc[p] = "wait"
  /\ IF t.state = "completed"
     THEN /\ results' = [results EXCEPT ![p] = Append(@, t.result)]
          /\ refs' = [refs EXCEPT ![p] = <<>>]
          /\ IF stage[p] < Stages(p)
             THEN stage' = [stage EXCEPT ![p] = @ + 1] /\ FlowAt(p, "upload")
             ELSE UNCHANGED stage /\ FlowEnds(p, "finished")
     ELSE /\ t.state = "failed"
          /\ FlowEnds(p, "ended failed")
          /\ UNCHANGED <<results, refs, stage>>
  /\ UNCHANGED <<flow, cellVars>>

\* The wait times out, a call fails for good, or the program is interrupted.
GiveUp(p) ==
  /\ flowPc[p] \in {"upload", "create", "wait"}
  /\ FlowEnds(p, "lost")
  /\ UNCHANGED <<flow, stage, refs, results, cellVars>>

\* The Agent ends a task: what it answers is its own choice, made once.
AgentEnds ==
  /\ \E t \in DOMAIN tasks, how \in {"completed", "failed"}, r \in AgentResults :
       /\ tasks[t].state = "running"
       /\ tasks' = [tasks EXCEPT ![t].state = how,
                                 ![t].result = IF how = "completed" THEN r ELSE "none"]
  /\ UNCHANGED <<flowVars, uploads>>

WorkNext ==
  \/ \E p \in Workers :
       StartProgram(p) \/ Upload(p) \/ CreateTask(p) \/ TakeResult(p) \/ GiveUp(p)
  \/ AgentEnds

WorkSpec == WorkInit /\ [][WorkNext]_workVars

-----------------------------------------------------------------------------
WorkTypeOK ==
  /\ flow \in [Workers -> Flows \cup {NoFlow}]
  /\ flowPc \in [Workers -> {"idle", "upload", "create", "wait", "done"}]
  /\ stage \in [Workers -> 1..3]
  /\ \A p \in Workers : Len(refs[p]) \in 0..2 /\ Len(results[p]) \in 0..3
  /\ outcome \in [Workers -> {"none", "unsupported", "lost", "reused", "created",
                               "ended failed", "finished"}]
  /\ Len(uploads) \in 0..MaxUploads

\* docs/recipes.md:74, "reconnecting with the same inputs resumes the existing
\* tasks": a program that is refused because its key was used shares the
\* operation with one that ran something else.  Its own uploads, made again,
\* and the answers of its Agent never make it differ from itself.
ResumesTasks ==
  \A p \in Workers :
    outcome[p] = "reused" =>
      \E q \in Workers :
        /\ flow[q].kind # "none"
        /\ flow[q].operation = flow[p].operation
        /\ flow[q] # flow[p]

\* However often an operation is run, one task stands behind each of its
\* stages, and it works on what that stage's own predecessor produced:
\* everything an investigation returns is of one chain of tasks.
OneChain ==
  \A p \in Workers :
    outcome[p] = "finished" /\ flow[p].kind = "investigate" =>
      \A s \in 1..3 :
        \E t \in DOMAIN tasks :
          /\ tasks[t].key = <<flow[p].operation, s>>
          /\ tasks[t].result = results[p][s]
          /\ uploads[tasks[t].body.input].content
               = <<flow[p].value, SubSeq(results[p], 1, s - 1)>>
          /\ \A u \in DOMAIN tasks : tasks[u].key = tasks[t].key => u = t
=============================================================================
