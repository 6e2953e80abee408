# Verification of geyser-open

TLA+ models of the Geyser open-source SDK and CLI, checked with TLC on small
instances and, where marked, proved with TLAPS for every value of the
constants. Line numbers refer to the sources of the repository; `PROJECT.json`
maps each definition to the lines it stands for.

Contents: 1 the system · 2 the modules · 3 the runs and their bounds ·
4 fairness · 5 the proofs · 6 where documentation and code differ ·
7 abstractions · 8 what is not modelled · 9 the plan

## 1. The system: an inventory

geyser-open is client-side software. The Geyser cell (the server), the model
providers and the operating system are outside it and appear in the models
only as far as the code depends on them.

| Component | State it keeps | Operations | What makes it correct |
|---|---|---|---|
| Local emulator (`emulator.py`) | event log and idempotency records per run, checkpoints, approvals, registered callbacks, calls made | `admit`, `append`, `checkpoint`, `request_approval`, `decide_approval`, `register_*`, `call_model`, `call_tool`, `reconcile_tool` | an effect runs at most once; an approval authorises one execution; answers are on record; the log only grows |
| HTTP core of the two clients (`client.py` 75-175, 444-477) | the attempt, key, response and delay of each call | `_request` under every method | keyed work is done once; a refusal and a success can be relied on; Retry-After is honoured; calls end |
| Event watch (`client.py` 557-590, loop of docs/sdk.md) | the cursor `after_sequence`, the page, the saved cursor | `watch_events`, save, handle, stop, reconnect | nothing repeated, skipped, or missing when the watch returns |
| Pagination iterators (`client.py` 205-257, 507-555) | the cursor and the page | `iter_tasks`, `iter_runs` | nothing twice; everything that stays visible is given, over empty pages too |
| Extension execution (`extensions.py` 47-75) and process sandbox (`sandbox.py`) | the child process, the watcher thread, two events, a failure count | validate, snapshot, start, watch, communicate, kill, reap, judge | no child left; a true reason; cancellation and deadline end the call |
| Local credentials (`credentials.py`) | keychain entries and one file of profiles, shared by processes | `save`, `load`, `delete` | one profile's update keeps the others; a command finds the last login |
| Device login (`auth.py`) | polling interval and deadline | `login_device`, `login_service_token` | a grant in time is used; the server's pace is kept; it ends |
| CLI commands (`__main__.py`) | none beyond one command; files and the cell around it | login, logout, tasks, runs, approvals, package, sign, publish, promote, ... | the end of a task is reported, an order takes effect once, the confirmed archive is what the cell accepts |
| Extension validation and packaging (CLI `extensions.py`) | the directory and the archive, which their author edits | validate, test, package, inspect | what is packed passes the inspection and the copy that runs |
| Schema and outcome validation (`validation.py`, `structured_outcomes.py`) | work counters | `validate_instance`, `validate_schema`, contracts | bounded work; refusal never becomes acceptance |
| Approved record example (`approved_record_update.py`) | an SQLite table of one ticket and one of receipts, shared by processes | `read`, `result`, `update`, `demonstrate` | a change and its receipt are one; a lost answer is recovered from the receipt |
| Task examples (`task_workflow.py`, `support_escalation.py`) | uploads and tasks at the cell, under names of the operation | `submit`, `investigate` | an operation run again resumes its own tasks; one chain of tasks behind a result |
| Remote decision (`remote_approved_record.py`) | an approval at the cell | `decide` | what is reported of a decision is what the approval says |
| Conformance qualification (`qualification.py`) | receipts, in files | `validate_receipt`, `capability_matrix` | a qualified row rests on complete, unexpired receipts of its subject |
| Release and recovery (`release.yml`, `recover_release.py`) | the jobs and artifacts of every run, the package index, the GitHub release | trigger, build, reuse, check the index, upload, release | a successful run leaves one build everywhere; builds do not mix; a recovery publishes verified bytes only; a published version is released |
| Models, errors, URLs, bundles, replay, output, scaffolds, generators, wire schemas | none | - | declarations and pure helpers |

How they interact. The CLI loads a credential, builds a `GeyserClient` and
calls its methods; every method is one `_request`. A watch calls `events` and
`get_run` in turn, which are requests again. `geyser dev` and `geyser test`
call `run_extension`, which calls `run_handler`, whose watcher thread and child
process share two events and one process identifier with the calling thread.
Runs of the release workflow meet in the artifacts a recovery takes from an
earlier run, in the package index and in the GitHub release; runs of one ref
wait for each other, runs of different refs do not. Applications of the record
example meet in one SQLite file. Commands that are run again, because an answer
was lost, and programs run twice meet at the cell, under the idempotency keys
they choose; package, sign and publish meet in two files that any of them, or a
build, may replace.
The emulator is a library: the application's coroutines call it, it awaits the
application's callbacks, and every other coroutine may run meanwhile.

Behaviours that are hard to test, and where they are modelled:

- *interleaving at an await*: `call_tool` and `call_model` check the log, await
  a callback, and append (LocalEmulator);
- *crash between two durable steps*: `crash_after` raises after any row
  (LocalEmulator), a process is killed anywhere (CredentialStore), a watch
  stops between yielding, saving and handling (WatchEvents);
- *lost and late messages*: an attempt that timed out reaches the server after
  its successors (ClientRequest);
- *retries*: the same key, If-Match, Retry-After, backoff (ClientRequest);
- *threads*: two threads that kill, reap and judge one child (Sandbox);
- *polling against a clock*: a deadline that passes during an exchange or a
  sleep, a pace that is raised meanwhile (DeviceLogin, TaskWait);
- *a program run again*: under the same name, in parallel, after a lost answer
  (TaskWorkflow, RemoteDecision);
- *files that change between two reads*: of an archive (Publishing), of a
  directory (Packaging, Snapshot); *a listing that changes between two pages*
  (Pagination); *evidence that expires* (Qualification);
- *a file without a lock*: read, change, replace (CredentialStore);
- *one transaction at a time*: a killed transaction, a receipt found later, a
  lost answer (TicketStore);
- *part of several publications done*: jobs that fail, are skipped, canceled or
  run twice at once against an index that keeps what it got first (Release).

`hazards` in `PROJECT.json` lists each at its line, with the properties that
watch over it.

## 2. The modules

| Module | Models | State and actions against the code |
|---|---|---|
| `LocalEmulator` | all of `emulator.py` that changes state | The variables are the attributes of the class. `toolsInFlight` and `modelsInFlight` are coroutines suspended at `await`; `StartTool`/`ToolReturns` and `CallModel`/`ModelReturns` are the code before and after it, `ToolRaises`/`ModelRaises` a callback that raises. `AppendRow`, `Replayed` and `Accepted` are `append` with its key and digest check, `CrashesAfter` the injected crash. `invocations` and `answers` are history. |
| `EffectLedger` | what the effect protocol promises callers | abstract: record, execute once, settle, answer. `LocalEmulator!KeepsLedger` maps the log and the history to it |
| `LocalEmulatorProofs` | theorems about `LocalEmulator` | section 5 |
| `ClientRequest` | `_request` of both clients, and the server and network they face | `Send`, `Answered`, `Broken`, `Wake` are the loop of `_request`; `Request` builds key, If-Match and body, `Decode` is `_decode`, `RetryDelay` is `_retry_delay`, `RetryAllowed` is `_retry_allowed`. `Apply`, `Repeat`, `Refuse`, `TurnAway`, `Advance` are the server, external |
| `ServedOnce` | what a client promises of the calls that change something | abstract: ask, carry out, tell. `ClientRequest!CallsAreServedOnce` maps the attempts, the server's record and the answers to it: lost, late and repeated attempts are stutters |
| `ClientRequestProofs` | theorems about `ClientRequest` | section 5 |
| `WatchEvents` | `watch_events` and the loop of docs/sdk.md 68-77 around it | `FetchPage`, `Yield`, `CheckRun` are the generator; `SaveCursor`, `HandleEvent`, `Stop`, `Reconnect` the application; `RunAppends` the run, external |
| `EventStream` | what a watched run promises its application | abstract: the next event comes and is handled or lost, the stream ends, the run goes on. `WatchEvents!WatchIsStream` maps to it; pages, cursors and reconnections are stutters |
| `Sandbox` | `run_extension` and `run_handler` with its watcher | one action per step of the main thread (`pc`), of the watcher (`watcher`), of the child and of the caller, and `Interrupt`, a KeyboardInterrupt anywhere; `KillGroup` is `os.killpg`, `Reap` a `waitpid` by whichever thread comes first |
| `SandboxProofs` | theorems about `Sandbox` | section 5 |
| `CredentialStore` | `CredentialStore` as concurrent commands use it | one action per access to the keychain or the file: set, get, delete, `path.exists`, `_read_file`, `os.replace`, `unlink`; `Kill` and failed writes anywhere between |
| `CredentialStoreProofs` | theorems about `CredentialStore` | section 5 |
| `Release` | `.github/workflows/release.yml` and `scripts/recover_release.py` | one variable per job (`assemble`, `reuse`, `publish`, `github`), one for the artifacts, one each for the package index and the GitHub release. `Trigger` is `on:` with the concurrency group, `Assemble` the build jobs, `Reuse` is reuse-artifacts with `verify_source` and `verify_assets`, `CheckIndex` is `already_published`, `Upload` one file of the publishing action, `ViewRelease` and `CreateRelease` the two branches of the last job; `Fault`s are failures, cancellation and the end of `retention-days` |
| `ReleaseProofs` | theorems about `Release` | section 5 |
| `TicketStore` | `examples/approved_record_update.py` | `ticket` and `operations` are the committed tables, `draft` what a transaction sees. `Start`, `Deny`, `Invoke`, `InvokeUncertain`, `Reconcile`, `Return` are `demonstrate`; `Begin`, `UpdateRow`, `InsertReceipt`, `Commit` the statements of `update`; `Kill` takes an open transaction back |
| `AtomicChanges` | what the store promises those who change the ticket | abstract: a change with its receipt in one step, told from the receipt, forgotten by who begins anew. `TicketStore!ChangesAreAtomic` maps the committed tables and the answers to it |
| `TicketStoreProofs` | theorems about `TicketStore` | section 5 |
| `Clock`, `DeviceLogin` | `auth.py` | `RequestCode`, `BeginPolling`, `Poll`, `Receive`, `Save` are `login_device` between its waits, `LoginServiceToken` the other login; `now` is `time.monotonic`, `LoginTick` lets it run in an exchange, a sleep and while the browser opens. `HandlePoll` (the token endpoint, with a pace and an expiry of its own, which it may notice late) and `Decide` (the person) are external |
| `TaskWait` | the loops of `tasks wait` (`__main__.py` 326-341) and of `submit` (`task_workflow.py` 43-57) | `Read`, `ReceiveTask`, `ReceiveResult` are one turn; they differ in where they look at their deadline, which `waiter` says; `HandleRead` and `TaskEnds` are the cell |
| `WaitingCommands` | `main` dispatching to the commands that wait | composes `DeviceLogin`, `TaskWait`, `WatchEvents` and `ClientRequest`: `Parse` chooses the command, and a process runs one |
| `WaitingProofs` | theorems about `TaskWait`, `DeviceLogin`, `WatchEvents` and their composition with `ClientRequest` | section 5 |
| `TaskWorkflow` | `submit`, `investigate`, `tasks create` | `StartProgram`, `Upload`, `CreateTask`, `TakeResult` are the statements of `submit`; `TaskKey` the names `investigate` gives its stages, `Input` what a stage is given; `GiveUp` is any interruption. `uploads` and `tasks` are the cell's, with their idempotency keys |
| `RemoteDecision` | `decide` of the example; `approvals decide`, `runs stop`, `runs replay` of the CLI | `LookAtApproval`, `JudgeApproval`, `LookAtRun`, `SendOrder` are the statements of `decide`; the CLI goes from `GiveOrder` to `SendOrder`. `OrderKey` and `Expected` are key and If-Match. Requests wait on `wire`; `HandleOrder` is the cell |
| `Pagination` | `iter_tasks` and `iter_runs` of both clients | `FetchListing`, `YieldListed`, `TurnPage` are the loop; `ListPage`, `EntryCreated`, `PermissionChanges` the cell |
| `PackageDirectory` | the directory of an extension; `validate_extension` | `Edit` is the author; `FilesAreSafe` the walk, `Describes` the manifest, descriptor and cases |
| `Packaging` | `package_extension`, `inspect_archive` | `Validate`, `OpenArchive`, `WriteArchive` with the directory changing between them; `Inspects` the bounds of the inspection |
| `Snapshot` | `_snapshot` of `sandbox.py` | `Look`, `Open`, `Read`: the listing and stat of an entry, its open with O_NOFOLLOW and fstat, its bounded read, with the directory changing between them and an open file under its descriptor |
| `Publishing` | `geyser sign`, `geyser publish` | `Inspect`, `TakeDigest`, `ReadManifest`, `ConfirmUpload`, `ReadBundle`, `SendPackage` are the reads of the two files in their order; `InspectToSign` is the inspection of sign, `Sign` sigstore's own reading of the file after it; `Repack` is a build, `TakePackage` the cell |
| `Qualification` | `conformance/qualification.py` | `IsValid` is `validate_receipt`, `IsCoherent` and `Row` are `capability_matrix`; receipts are issued (`IssueReceipt`), good or flawed, while days pass |
| `WorkingCommands` | the programs that do a piece of work and end | composes the eight modules from `TaskWorkflow` to here and `TicketStore`: `work` is the program a behaviour is about |
| `WorkingProofs` | theorems about those modules but `TicketStore`, and about their composition | section 5 |
| `MC*` | instances for TLC | constants come from the `.cfg` files; `MCLocalEmulator`, `MCCredentialStore` and `MCWorkingCommands` add the symmetry of names no definition tells apart (their properties are about safety, where symmetry is sound) |

A definition headed "Mutant:" is a plausible bug in the definition that follows
it. No specification uses one; substituted for the original, each makes a
property fail, which shows that the property depends on that code.

## 3. The runs

Every run finishes within about three minutes on two workers. Deadlock is checked
for the two passing emulator runs, where some operation is always enabled; the other
systems really do stop (a call is over, a watch has returned, the last command
has answered).

| Run | Asks | Bounds, and why they are enough |
|---|---|---|
| `emulator_tools` | AtMostOneInvocation, OneInvocationPerApproval, InFlightStaysApproved, AnswersAreRecorded, CompletionsMatchCalls, refinement of EffectLedger (KeepsLedger) | two coroutines (one waits while the other runs), one tool, two argument values, one operation_id or none, one approval, two results, five rows: enough to start, complete, reconcile and crash on two effects of one run |
| `emulator_models` | CommitsMatchCalls, ModelWorkIsRequested, OneKeyPerRow | two coroutines, two models, two runs, application life-cycle events under one user key, four rows: two overlapping calls of the same or of different models, in one run or two |
| `emulator_reconcile` | the divergence of section 6 | as `emulator_tools`, without approvals, six rows |
| `client_requests` | KeyedOnce, refinement of ServedOnce (CallsAreServedOnce) | one synchronous and one asynchronous call, one retry, one key and body that the two calls may share, with and without If-Match, a resource that moves twice, a Retry-After of two seconds, after which a 502, 503 or 504 is retried, and one of more than a minute, which ends a call: the first attempt of each call may be under way late together with the last, and be carried out before or after it. Longer chains of retries are in `waiting_commands`, and in the theorems |
| `sandbox` | NoChildLeft, OutcomeIsTrue, CallEnds | one call, with and without a memory reader and a cancel event; nothing is bounded but the three inspection failures the code counts |
| `credentials` | UpdatesStand, LoadsLatest | two processes, two profiles, two tokens, four commands: two updates that race and commands that look before and after them |
| `credentials_logout` | the divergence of section 6 | one process, one profile, three commands |
| `release` | SuccessIsEverywhere, OneBuildPerProject, RecoveryIsVerified, PublishedIsReleased | two runs, the version's tag, one publication tag and main, one fault: a build and its recovery, two builds that publish at once from different refs, each with a job that fails halfway, is canceled, or finds its artifact expired |
| `waiting_commands` | PollsAtPace, GrantIsUsed, WaitIsTruthful, PollingEndsInTime, RetriesAsAsked, CallsAreBounded, CommandsEnd, refinement of EventStream (WatchIsStream) | one command. *login*: intervals of 0 (taken for 1) and 2, a lifetime of 12 seconds, a browser that takes up to 1 and exchanges of up to 2, one slow_down: polls before and after it, an expiry during an exchange and during a sleep. *tasks wait*: timeouts of 0, 7 and 12, exchanges of up to 1: a last sleep that is cut short and one that is not, and for `submit` its own fifteen seconds more. *runs watch*: pages of two events instead of 200, six events, two stops: a full page, a part page, an empty one, and events after the terminal one. *a call*: asynchronous, four retries, Retry-After of nothing, of a minute and of just over one |
| `working_commands` | WorkingTypeOK, AnswersAreReceipts, ResumesTasks, OneChain, DecisionIsTrue, OrdersTakeEffectOnce, ListedOnce, AcceptedIsConfirmed, PackagesPassInspection, SnapshotIsBounded, QualifiedRowsStand, refinement of AtomicChanges (ChangesAreAtomic) | one program, see below |
| `package_limits` | the divergence of section 6 | as in `working_commands` |
| `qualification_rows` | the divergence of section 6 | as in `working_commands`, with two environments |

`working_commands`, program by program: *ticket*: two processes, two operations,
versions up to 2, four starts: two changes that race for one version, an
operation started again after a kill with the same arguments or others. *task*:
two workers, one operation, two values, two results an Agent may give, seven
uploads: two investigations, or one and another program, that run side by side
or one after the other under one name. *decision*: two invocations, a run of up
to three events: a command and its repetition, or two commands that contradict
each other. *listing*: pages of two, five entries, two changes of what is
visible: an empty page in the middle. *publish*: two invocations, three
archives of which one does not pass inspection, three replacements: an archive
replaced before and after each read. *package* and *copy*: three paths, files of
0 to 3 where 2 stands for the limit of a file, 3 for that of the whole and 2 for
that of the entries, three edits: every limit met exactly and passed by one.
*matrix*: a runtime adapter that needs two layers and a developer artifact, two
receipts, two days: rows complete or not, receipts that expire one before the
other.

The two composed runs check their parts side by side and not against each
other: a behaviour is about one command, because a process of the CLI or of an
example runs one. Where commands do meet, in the cell, in a file or in a
directory, they meet inside one module.

Bounds named in the modules: `MaxRows` (rows of all runs), `MaxRetries` and
`RetryAfters`, `MaxVersion` (moves of the resource), `MaxEvents`, `MaxStops`,
`Limit` (page size), `MaxCommands`, `NRuns` and `MaxFaults`, `MaxStarts` (and
TicketStore's `MaxVersion`, the largest version a caller expects),
`MaxSlowDowns`, `MaxUploads`, `MaxSequence`, `MaxEntries`, `MaxHidings`,
`MaxPacks`, `MaxSize`, `MaxEdits`, `MaxReceipts`, `MaxDay`. The clocks of
DeviceLogin and TaskWait need none: each of their waits ends. Times in
ClientRequest are in tenths of a second.

Some invariants are in no run, because more than they say is. The type
invariants are proved (section 5), and `WorkingTypeOK`, the conjunction of those
of the working programs, is checked besides. `AnswersAreTrue` is what ServedOnce
says of answers, `HandledOnce` and `TerminalIsDrained` are what EventStream says
of a stream that has come so far, or is over, and `ReceiptsAreHistory` is what
AtomicChanges leaves behind: each holds wherever the refinement does, and has a
theorem of its own.

What the properties say, beyond their names:

- **At most once.** `AtMostOneInvocation` holds although
  the log is consulted before an await and written after it: the `tool.started`
  row is what a second coroutine finds. `OneInvocationPerApproval` holds
  although an approval is never consumed: the binding it checks determines the
  effect, and the effect runs once.
- **Requests are honest.** `KeyedOnce` depends on one key for all attempts of a
  call. `CallsAreServedOnce` is the view of the callers: each job, which is a
  key and its request or one call without a key, is carried out in one step; a
  success means that it was, and a 409 or 412 that it was not and never will be
  (`AnswersAreTrue`). That depends on not retrying a conditional request
  without a key (`revoke_package`), which could be told 412 because of its own
  first attempt.
- **A caller is told the present.** `RetriesAsAsked` is about two clients of which
  one holds the response of an earlier attempt: whatever is held, the sleep is at
  least what the last answer asked for, and "come back later" is told by the
  last answer, or by one that asked for more than a minute, never by one that a
  transport error has followed since.
- **Calls are bounded.** `CallsAreBounded` counts the steps a call has left
  (`StepsLeft`): no step of the call leaves the number as it is, none raises
  it, and what the server, the network and the other calls do leaves it alone.
- **A watch is complete.** `WatchIsStream` says, step by step, that for its
  application a watch that is stopped and resumed is one stream: nothing comes
  twice or out of order or is left out (`HandledOnce`), and it ends with the
  run (`TerminalIsDrained`). It depends on the cursor following the events
  yielded, on reconnecting from the saved one, and on comparing the cursor with
  the sequence the run's record reports, not on the terminal state alone.
- **A child's end is told truly.** `OutcomeIsTrue` relates the reported outcome
  to who killed the child, and a value to a child that ended by itself and in
  time. The two exceptions in `NoChildLeft` are real ones: `Popen` and
  `watcher.start()` come before the `try` that kills and reaps (`sandbox.py`
  343-391), so that a failed start of the thread (`threadless`) leaves the child
  running, and so does a KeyboardInterrupt there; and an interrupt of the handler
  itself, between its kill and the end of `wait` (394-398), leaves a child that
  was not killed or not reaped (`unguarded`). `CallEnds` says what is left of
  the promise then: a cancellation still ends the watcher, which kills the
  child if it was started; the deadline does not.
- **A release is whole.** `SuccessIsEverywhere` holds although each job decides
  for itself, from the index, whether its work is done, and although runs of
  different refs overlap: the index refuses other bytes under a name it has,
  and a job fails rather than pass over them. `OneBuildPerProject` depends on
  the first upload of both files being of one name: whoever loses the race for
  the wheel stops. `RecoveryIsVerified` is about recoveries only: a dispatch
  from main that rebuilds is not held to the tagged commit by anything, and a
  published version may then be of another commit.
- **A receipt is a change.** `ChangesAreAtomic` says that there is one moment at
  which a change takes effect, with its receipt and on the version its caller
  expected, whoever is killed in a transaction; so versions and receipts
  correspond one to one (`ReceiptsAreHistory`). `AnswersAreReceipts` says that a
  receipt found under an operation name is the answer only if it is of the
  same arguments.
- **A login keeps its pace and its grant.** `PollsAtPace` is about the server's
  clock, which the login does not see: a poll that was answered slowly counts
  from when the server handled it. `GrantIsUsed` says how late an approval may
  come and still be lost: one exchange and one pace before the deadline.
  `PollingEndsInTime` is, for a login, about a server that may go on answering
  "pending" or "slow_down" after the code has expired: the login goes by its own
  deadline, and overruns it by one exchange and one sleep at most.
- **A wait does not lie.** `WaitIsTruthful` allows a task that has ended to be
  called timed out only if it ended while the last read was under way or, for
  `submit`, in the sleep after it, since `submit` compares its deadline before a
  read and `tasks wait` after. `PollingEndsInTime` (docs/cli.md:28, "Poll with a
  bounded deadline") says by how much either may overrun its deadline: the calls
  of the last round, and for `submit` a sleep begun just before it.
- **Names resume, and only themselves.** `ResumesTasks` depends on everything a
  stage sends being the same when it is made again: the upload keyed by its
  digest, the result of the stage before taken from the one task under its
  name. `OneChain` says that a result returned is of one chain of tasks.
- **Orders are given once.** `OrdersTakeEffectOnce` holds although `stop` and
  `approvals decide` draw a fresh key each time: the sequence in the arguments
  is used up by the first effect. It would not hold of a command that looked the
  sequence up when it sends. `DecisionIsTrue` holds although `decide` reads
  approval and run separately, and both may move before its request arrives.
- **What runs is what was there.** `AcceptedIsConfirmed` depends on the digest
  being taken once, before the question, and sent with the bytes, which the cell
  compares. `SnapshotIsBounded` depends on counting what was read and not what
  stat told. `PackagesPassInspection` compares two of the three places where the
  bounds of a package are written; section 6 has the third.
- **A row is as good as its weakest receipt.** `QualifiedRowsStand` is about
  every moment at which the row is still relied on.
- **Profiles keep apart.** `UpdatesStand` is conditional on updates that do not
  overlap, because the file has no lock: two processes that both read before
  either replaces lose one update. `LoadsLatest` is conditional on a keychain
  that stays as it is: when it comes back, its older copy is preferred.

## 4. Fairness

Fairness is assumed of the program's own threads of control and never of the
environment.

- *ClientRequest*: weak fairness of each call's steps. httpx ends every
  exchange by an answer or a timeout, and `sleep` returns; nothing is assumed of
  the server, which may never answer.
- *WatchEvents*: weak fairness of the watching program's steps, which include
  reconnecting after a stop, in the loop of docs/sdk.md; `geyser runs watch` does
  not reconnect, and is over when it stops. The run need not append; it appends finitely often
  in an instance, which is what `CommandsEnd` asks for watches ("once the run appends
  nothing more").
- *DeviceLogin* and *TaskWait*: weak fairness of the program's steps and of the
  clock, which runs in an exchange until the client's timeout and in a sleep
  until its end. Neither the server, the person nor the Agent is assumed to do
  anything: a login ends by its deadline, a wait by its own.
- *WaitingCommands*: the fairness of the four commands, each void while another
  command runs.
- *Sandbox*: weak fairness of the main thread and of the watcher thread. The
  child is assumed nothing: it may ignore everything but SIGKILL, and nobody is
  assumed to interrupt. The caller
  need not cancel; the properties start from a cancellation or a passed deadline.
- *Release*: weak fairness of each run's jobs, which a runner takes up and which
  end, by themselves or by `timeout-minutes`. Triggers and faults are the
  environment's. A run waits for an earlier one of its ref, which ends by the
  same fairness.
- *LocalEmulator*, *CredentialStore* and the programs of *WorkingCommands* have
  safety properties only: whether a callback returns, a command is run again or
  a person confirms is the user's affair.

## 5. What is proved

Every safety invariant that a passing run checks is a theorem, for every value
of the constants; so are the action property `CallsAreBounded` and the
refinements of EffectLedger, ServedOnce, EventStream and AtomicChanges. The
`theorems` of `PROJECT.json` name them. Each rests on an inductive invariant that
TLC checked on the bounds of section 3 before it was proved. The assumptions on constants are
named in the modules that declare them: bounds are natural numbers (a page
holds at least one entry, a run at least one event), and a value that stands
for "none" is none of those it stands beside. TLC evaluates each on every run.

`LocalEmulatorProofs` (assumption `NoneAssumption`: "none" is not an effect,
approval or operation name, and the application appends under its own event
types only). The first half is about effects, and uses of the log only that a
step leaves it alone or appends one given row to one run (`Appends`,
`AppendRowGrows`):

- `TypeCorrect`: `TypeOK`.
- `EffectInvariant`: the inductive invariant `LogInv /\ EffectInv`.
  AtMostOneInvocation alone is not inductive: nothing in it says that an
  invocation left a trace that `call_tool` will find. `LogInv` says that every
  idempotency record has its row, that a key of the `started` kind belongs to
  the effect it names, and that the first row of an effect is its
  `tool.started`; `EffectInv` that every invocation, running callback and
  answer has that row, with the same tool and arguments, and that a running
  effect has no `tool.completed`. So "no prior row" implies "never invoked", and
  the append of a started row that is admitted adds a row rather than
  replaying a key. From it: `AtMostOnce`, `RunningIsOpen`, `AnswersRecorded`.
- `ApprovalInvariant`: invocations under an approval match its binding, which no
  step changes after the decision; with `AtMostOnce` it gives
  `OneExecutionPerApproval`, and by itself `RunningStaysApproved`.

The second half is about the log, row by row:

- `BookInvariant`. The rows of completed calls and the entries of `tool_calls`
  are compared by rank, since the code numbers both by counting. `Gains` says
  that a set of positions grows at its end, and `GrowingTogether` that two such
  sets of equal size keep their ranks when both grow; so an append that adds a
  row and an entry keeps the two lists side by side. What must be ruled out is
  that it adds the entry and finds its key used: `OutcomeKeys` says that a key of
  the `completed` kind is of an effect that completed, which a running one has
  not, and that the number in a `committed` key is below the length of
  `model_calls`, from which the next is drawn after the await. From it:
  `CompletionsAgree`, `CommitsAgree`, `ModelsAreRequested` (`CallsRequested` is
  what a model call under way knows when it returns) and `RowsHaveOneKey`
  (`Keyed`, with cardinalities from FiniteSetTheorems).
- `ImplementsLedger`: the initial log records nothing, and every step is, read
  through the mapping, one of the ledger's or a stutter: `StartTool` is `Execute`, or
  `RecordOnly` if the injected crash follows the row; `ToolReturns` and
  `ReconcileTool` are `Settle`, `AnswerFromLog` is `Answer`. Steps that append rows
  of other kinds, or repeat one, are stutters.

`ClientRequestProofs` (assumptions: at most eight retries, so that the backoff
is a number of its table; Retry-After and versions are natural numbers):

- `TypeCorrect` and `RetriesAlwaysAsAsked`, from `PaceInv`: where a call is says
  what it holds. RetriesAsAsked is about the delay it sleeps, which was computed
  from a response that an asynchronous call may have kept from an earlier attempt,
  and about the answer it gives: what is kept asked for a minute at most (`Short`),
  so a transport error never ends a call with it.
- `KeyedAlwaysOnce`, from `ServerInv`: an attempt is on its way or was handled,
  not both, and none is later than its call; what was carried out under a key is
  what the server remembers.
- `AnswersAlwaysTrue`, from `TruthInv`. That an answer is true when it is given is
  not enough: attempts of the same call are still on their way when it arrives.
  `Untouchable` is what a refusal means for good: no attempt of the call was
  carried out, and the server remembers another request under its key or has
  moved past its If-Match, so none will be.
- `CallsAlwaysBounded`: `StepsLeft` is a measure of the loop of `_request`, three
  steps for each attempt that is left. `Moves` lists what a step can do to a call
  (`CallMoves`), and each of them lowers the measure or leaves the call alone.
  With the fairness of each call it is why calls end.
- `CallsAlwaysServedOnce`, from `OnceInv` and the invariants above. Every step is,
  read through the mapping, one of ServedOnce's or a stutter: `Start` of a call
  that changes something is `Ask`, `Apply` is `CarryOut`, the end of a call is
  `Tell`, and `Repeat`, `Refuse`, losses and late attempts change nothing.
  What must be ruled out is that a job is carried out after one of its callers
  was told of a conflict, which may be through another call with the same
  request: `RefusedInv` says that a request refused to one call is not the one
  the server remembers, and `Untouchable` that it will not be.

`CredentialStoreProofs` (assumptions: `None` is neither a token nor a command;
`MaxCommands` is a natural number):

- `TypeCorrect`: `TypeOK`, with the facts about what `_write_file` and `unlink`
  are called with.
- `UpdatesAlwaysStand`: strengthened by `ViewsAreCurrent`: a process whose view
  of the file is current and that is about to write holds the file as it is with
  one change.
- `LoadsAlwaysLatest`: strengthened by what the two copies mean while the
  keychain stays as it is: `KeychainServes` (the keychain is the latest, the
  file is never written) and `FileServes` (every update is one of the file).

`ReleaseProofs` (assumptions: `NRuns` and `MaxFaults` are natural numbers,
publication tags are neither the version's tag nor main, and `None` is neither a
number nor a record of the module):

- `TypeCorrect`: `TypeOK`, with the fact that a successful `assemble` or `reuse`
  left an artifact.
- `SuccessAlwaysEverywhere`: strengthened by what each job that succeeded has
  seen: the files a job has sent are on the index and of its build, and no step
  changes a file that is there. So the matches of both projects still stand when
  the last job of the run, which they enable, succeeds.
- `NeverTwoBuilds`: from the order of the uploads. A job that uploads an sdist
  has sent its wheel, so the index holds that job's wheel.
- `RecoveryAlwaysVerified`, from `SourceInv`: what is published is of the assets
  of the run that published it, a recovery has taken its assets from a run
  whose build succeeded, and what such a run built no step changes; so what
  `verify_source` and `verify_assets` saw is what is uploaded, even if the
  artifact has expired since.

`TicketStoreProofs` (assumptions: finitely many operations, the bounds are
natural numbers, `None` is none of the values it stands beside):

- `ReceiptsAlwaysHistory` and `AnswersAlwaysReceipts`, from one inductive
  invariant: one process at most is in a transaction (`OneWriter`), and its copy
  is the committed tables with its own change so far (`DraftOf`). So a commit
  puts in place one receipt more and one version more, however long ago the
  transaction began; cardinalities come from FiniteSetTheorems.
- `ChangesAlwaysAtomic`, from the same invariant: `Commit` is `Change`, a lost
  answer included; a receipt found when the operation is started again, or by
  `Reconcile`, is `Tell`, and a new start is `Forget`. `DraftOf` gives the
  one version and the one receipt by which a commit differs from the tables it
  began with; a transaction that is killed is a stutter.

`SandboxProofs` (assumption: `None` is no outcome). The module has no parameter
besides, so TLC's run is already exhaustive and the proof adds the reason:

- `ChildNeverLeft` and `OutcomeAlwaysTrue`, from `CallInv`: a child that has ended
  stays as it ended, so it does not matter which thread reaps it (`ChildOK`);
  whoever kills has left a reason before (`ReasonsOK`); a watcher that `join`
  did not give up on is over when the reasons are judged (`WatcherOK`); and a
  call whose child an interrupt left to itself can only end as interrupted
  (`InterruptOK`), so no value and no other reason comes of it.

`WaitingProofs` (assumptions: times are natural numbers, `Never` is not one):

- `WaitAlwaysTruthful`, from `WaitInv`: the time of the call under way or last
  made bounds both the clock (`NearCall`) and, if the task was found running, the
  end of the task (`EndedSince`).
- `PollsAlwaysAtPace` and `GrantAlwaysUsed`, from `LoginInv`. The pace is the
  server's and the interval the login's; `InStep` says how far they can be apart:
  a slow_down that is still on its way, or a second by which the login rounds up
  an interval of 0. `SincePoll` bounds the time since the last poll in each
  place, from below for the pace and from above for the grant.
- `EventsAlwaysOnce` and `ReturnsAlwaysDrained`, from `WatchInv`: the page in hand
  goes on where the cursor stands without a gap (`PageFollows`), and the saved
  cursor splits the events into those done with and those to come (`DoneWith`).
- `WatchAlwaysStream`, from `WatchInv`: the stream has come as far as the saved
  cursor, less the event saved and not yet handled. Handling that event is
  `Handle`, a stop before it is `Lose`, the return of the generator is `End`;
  fetching, yielding, saving and reconnecting are stutters.
- `WaitAlwaysInTime`, from `InTime`: where in a round a wait is, and whether it
  has compared its deadline before or after the last read, says how far past the
  deadline the clock can be. `LoginAlwaysInTime`, from `PollsBefore`: no poll is
  sent at or after the deadline.
- `CommandsAlwaysTrue`: the seven invariants above for `CliSpec`, and the three
  of a call. Login and wait share a clock, so neither behaviour is one of its
  component; `CliInv` says that each keeps its invariant until another command
  is chosen, and has not begun from then on. `PollingAlwaysEndsInTime`,
  `CommandsAlwaysBounded`, `CommandsAlwaysServedOnce`, `CommandsAlwaysStream` and
  `CommandTypesAlways` follow in the same way.

`WorkingProofs`:

- `OrdersAlwaysOnce` and `DecisionsAlwaysTrue` (RemoteDecision; assumption:
  `MaxSequence` is a positive natural number), from `DecisionInv` (with
  `VerdictsAtEnd`). OrdersTakeEffectOnce alone is not inductive: nothing in it
  says what a late request carries. `OfSender` says that a request is made of
  its sender's order and view, which no longer change; `IsPast` that what was
  carried out used up the sequence it named, and that the approval still says
  what it decided. So a second request of the same order finds its key known
  (example, replay) or its sequence passed (decide, stop). `ViewStands` says
  that a view of a decided approval stays true, which is what recovery rests on.
- `AcceptedAlwaysConfirmed` (Publishing), from `PublishingInv`: an upload speaks
  for its sender - the digest it names was shown, the bundle it holds was read -
  and a sender that has sent reads no more. So the cell compares the archive it
  is sent with what the person confirmed, however often the files are replaced.
- `ListedAlwaysOnce` (Pagination), from `IterInv`: the cursor, and while a page is
  given out the page and its next_cursor, split the listing into what was given
  and what is to come. An entry may be hidden and shown again on either side of
  the split without anything being given twice.
- `TasksAlwaysResumed` and `ChainAlwaysOne` (TaskWorkflow), from `WorkInv`. The cell
  holds one task under a key and one upload under a content (`CellOK`), and every
  task is a stage of a flow made of that flow's own results (`TasksOfFlows`).
  `Produced` says that results are a chain, and two chains of one operation
  agree as far as both go, because each stage has one task (`ProducedSame`). So
  a program run again gives each stage the input it had, the upload of it is
  found, and the task is the same; a refused key is one of a flow of another
  kind or value (`RefusedByAnother`).
- `PackagesAlwaysPass` (Packaging): sizes that `validate_extension` sums are those
  `inspect_archive` sums, file by file.
- `SnapshotAlwaysBounded` (Snapshot), from `SnapInv`: the two counters are those
  of the copy so far, what is copied stood there, and the path the walk is at has
  been counted and not copied. The sum of the sizes is the number of bytes there
  are (`Bytes`, a set), so that copying a file adds its size by the theorem on
  the cardinality of disjoint unions, and no induction is needed.
- `RowsAlwaysStand` (Qualification), from `QualInv`: a row stands on receipts of
  its artifact, which stay where they are, and expires with the first of them.
- `WorksAlwaysTrue`: the eleven invariants for `WorkingSpec`. `WorksAreRuns` shows that a
  behaviour of the composition is one of each component: a step of one leaves
  the others alone, and the one they share, an edit of the directory, is an edit
  for both who read it. `WorksAlwaysAtomic` is the refinement of AtomicChanges,
  carried over by it.
- `WorkingTypesAlways`: `WorkingTypeOK`, in the same way. What the invariants above
  do not bound has a small one of its own: `Lengths` (what a program and the
  cell hold), `PackTypes`, `WalkCounts` (the counters wherever the walk ends; the
  paths of a directory are finitely many, in `LimitsAssumption`), `EvidenceOK`, and
  for the ticket `RestOK` and `VersionCounted` (TicketStoreProofs,
  `TicketTypesAlways`).

Induction is used in one place, for the first receipt to expire, in the form of
a least number (`LeastNatural`, from the well-foundedness of `<` in
WellFoundedInduction), which takes a set and not an operator and is within the
provers' reach.

Three definitions were written so that they can be reasoned about, without
changing what they model: the page of Pagination holds the sets of what it has
and what it has given, in the order of the listing; `Unpacked` counts
bytes rather than folding over paths; and a CASE whose arms overlapped (`Look` of
Snapshot; `CheckIndex`, `CheckVersionOnly` and `ViewRelease` of Release), where
TLC takes the first arm and the logic either, has its first arm in an IF, as in
the code.

Model-checked only: liveness (CommandsEnd, CallEnds, PublishedIsReleased), which
is beyond the prover, as it needs ENABLED. What can be said of it without is
proved for the waiting commands: `PollingEndsInTime` bounds a wait and a login by
the clock and `CallsAreBounded` a call by its own steps, so that fairness has
only to keep the clock and the call going. The divergences of
section 6 are violations, and no theorem speaks about them.

## 6. Where documentation and code differ

- **A reconciled result can be replaced** (`emulator_reconcile`).
  docs/durable-runs.md:25 says "Completed/reconciled calls return the recorded
  result". `reconcile_tool` (`emulator.py` 267) accepts an effect whose callback
  is still running; the callback's return then appends `tool.completed` under
  its own key, and later calls are answered with the last settled row. TLC shows
  a call started, reconciled with one result, and completed with another.
- **Logout can leave a copy** (`credentials_logout`). docs/authentication.md:43
  says "`geyser logout` removes the local copy". `delete` passes over a keychain
  that does not answer and looks at the file only with
  `--allow-file-credentials`: with a copy in each place, it answers
  `removed: true` for one and leaves the other.

- **Packages have no bound on entries until they run** (`package_limits`).
  docs/extensions.md:36 says "Packages are limited to 512 entries, 2 MiB per
  file and 10 MiB unpacked", docs/program.md:17 the same. `validate_extension`
  counts files (54-70) and compares the count with nothing, `inspect_archive`
  has no such bound, and only the copy of the sandbox does (`sandbox.py` 96): a
  directory of 513 entries validates, is packed, signed and published, and no
  handler in it can run.
- **A row can speak for an environment nothing was shown in**
  (`qualification_rows`). conformance/README.md:6-8 says "Receipts bind the exact
  ... provider, model profile, placement, privacy posture,
  Python/OS/architecture tuple", and 11-12 "Missing layers remain visibly
  unqualified". `capability_matrix` groups by kind, name, version and digest
  (219-228) and takes the rest of the subject from the first receipt (248): one
  layer shown under each of two providers make one qualified row that names one.

## 7. Abstractions worth knowing

- Digests, canonical JSON and random keys are taken as injective: two contents
  have the same digest only if they are equal. Keys of the emulator are tuples
  of what their strings are built from.
- Applications append only life-cycle events (`run.*`) by themselves, as
  sdk/python/tests/test_emulator.py does; tool and model rows are the
  emulator's.
- The server looks a key up before it compares If-Match (docs/replay.md:27) and
  carries a request out at most once per key: this is external, and
  `KeyedOnce` and `CallsAreServedOnce` show what the client needs of it.
- The asynchronous client keeps the response of an earlier attempt after a
  transport error and paces by it; the synchronous one resets it. Both are
  modelled.
- The timeout of httpx is per read: a server that drips its answer can hold an
  exchange longer than the bounds `ExchangeTime` (TaskWait) and `Timeout`
  (DeviceLogin) give it, and one that drips for ever is outside the fairness.
- The loop of WatchEvents is the one of docs/sdk.md. `geyser runs watch`
  (`__main__.py` 531-535) is the part of it without a saved cursor and without
  reconnection: it begins at 0 and a failure ends it, so its behaviours end
  where the model has its first `Stop`.
- Checking and killing a process group are steps of their own; a group that is
  gone is no error. Reuse of a process identifier by another process, between
  the reaping and the kill, is not modelled. `join` with
  its second of patience may return with the watcher still running.
- Steps between two accesses to the keychain or to the file are one step: no
  other process can see them. One flag says whether the keychain answers, for
  reads and writes alike; a file of the wrong mode, too large or malformed is
  refused in the code and not in the model. A temporary file left by a killed process is not
  state of the store.
- A build is identified by the run that made it: two builds are taken to differ
  in their bytes, which is the hard case (equal files would be accepted wherever
  these are refused), and a build to be of the tagged commit exactly if its ref
  is the tag. The publishing action uploads
  wheels before sdists, and the index takes a file name once: both are facts
  about the services, external.
- A GitHub release that was being created when its run died is a draft, with or
  without its SHA256SUMS; a later run that finds the checksums equal accepts it.
  The properties therefore claim the checksums of the release and not its
  completeness.
- A project of which the index holds one file only makes `already_published`
  raise: every later run of the version fails there, which no property denies.
  Re-running the failed jobs of one run is not modelled.
- TicketStore takes from LocalEmulator, without repeating it, that a started
  effect is uncertain and that a completed one is answered from its row
  (`InvokeUncertain`, `Return`). `demonstrate` has its operation and arguments
  as constants; the store is modelled for callers with others.
- A transaction of SQLite is atomic and survives the process; a database locked
  for longer than the driver waits raises (`Locked`).

- A directory is flattened to the paths below it, and a file is its size: the
  properties are about bounds, and two files of one size stand for the same
  bytes. `validate_extension` is one step, `package_extension` three; the copy
  of the sandbox is modelled entry by entry, with one step for the read of a
  file: a file torn by a write in the middle of it is none of the sizes. Renamed
  and moved directories are not modelled, nor the descriptors held along a path;
  an open file follows edits under its path. The file-by-file writing of the
  archive is one step, and leaves a torn one when it fails. What the listing of a directory
  shows of entries that come and go meanwhile is open.
- `inspect_archive` opens the archive for its list and reads it again for the
  digest, and publish reads the manifest and the bytes after that: four reads of
  one path, each a step. The digest is therefore that of a file which may not be
  the one inspected; the cell compares it with the bytes it gets.
- The cell's rule for a package under a known digest is that of every key: the
  same body is answered again and another is refused. An archive that is signed
  again and published again is refused so, because the bundle differs.
- `stop`, `replay` and a decision move the run's sequence by one. What a fork or
  replay does to its parent is the server's affair; `runs fork` and `promote`
  are requests like `stop` and are not in the orders; `promote` names no sequence
  at all (`client.py` 348-357), so what keeps its repetition from a second effect
  is the cell's.
- Requests carry more than the models say: a decision its binding digest and the
  approval's sequence, a task its package and timeouts. They are data, the same
  at every repetition.
- A program of TaskWorkflow is one of `tasks create` (with a contract), `submit`
  or `investigate`. What an Agent answers is its own choice, made once per task.
- A receipt is good or has one flaw; which digest, identifier or case it is that
  `validate_receipt` refuses does not matter to a row.

## 8. What is not modelled

`components` in `PROJECT.json` gives the reason for each:

- operating-system configuration (bubblewrap and sandbox-exec profiles, the
  cached probe of availability at `sandbox.py` 174: a system that changes under a
  running process is outside what the code claims);
- declarations without behaviour (models, errors, URLs, bundles, replay records,
  wire schemas);
- the validators of `validation.py` and `structured_outcomes.py`: recursive
  functions of JSON values, where a model would repeat the code;
- formatting and scaffolds; the report of `geyser test`, which adds up calls of
  `run_extension`;
- sequential build tooling and generated documents.

## 9. The plan

What is left: a module for the budget of `validate_instance`, if its bound can be
stated without repeating the traversal.
