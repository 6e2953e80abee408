------------------------------- MODULE Sandbox ------------------------------
(***************************************************************************)
(* One run_extension of sdk/python/src/geyser_sdk/extensions.py and the    *)
(* run_handler of sandbox.py it calls: the thread that validates, starts   *)
(* the child process, talks to it and judges its end; the watcher thread   *)
(* that samples its memory and looks for a cancellation; the child; and    *)
(* the caller, who may cancel at any time.                                 *)
(*                                                                         *)
(* The child is a zombie between its end and the waitpid of one of the two *)
(* threads: poll, communicate and wait set returncode.  Its process group  *)
(* is killed by its pid, whether or not the child is still there.          *)
(***************************************************************************)
EXTENDS Naturals

CONSTANT None

ASSUME NoneAssumption ==
  None \notin {"exited", "failed", "killed", "canceled", "refused", "invalid", "deadline",
               "memory", "interrupted", "threadless", "value"}

VARIABLES
  memory_reader,  \* whether memory can be sampled (macOS), fixed for the call
  cancel_event,   \* whether the caller gave one, fixed for the call
  pc,         \* where run_extension is
  raised,     \* the exception communicate raised, or None
  outcome,    \* how run_extension ended: "value" or what it raised
  watcher,    \* where the watcher thread is, "none" when there is none
  failures,   \* inspection_failures
  stopped, memory_exceeded,  \* the events the two threads share
  child,      \* the process: "none", "running", or how it ended
  returncode, \* process.returncode: how it ended, once a thread reaped it
  canceled,   \* cancel_event is set
  overdue,    \* the deadline has passed
  abandoned,  \* history: join gave up on the watcher after a second
  unguarded   \* history: an interrupt left the child to itself

mainVars   == <<pc, raised, outcome>>
watchVars  == <<watcher, failures>>
flagVars   == <<stopped, memory_exceeded>>
childVars  == <<child, returncode>>
envVars    == <<canceled, overdue, memory_reader, cancel_event>>
histVars   == <<abandoned, unguarded>>
vars == <<mainVars, watchVars, flagVars, childVars, envVars, histVars>>

Ended == {"exited", "failed", "killed"}

-----------------------------------------------------------------------------
Init ==
  /\ memory_reader \in BOOLEAN /\ cancel_event \in BOOLEAN
  /\ pc = "enter" /\ raised = None /\ outcome = None
  /\ watcher = "none" /\ failures = 0
  /\ stopped = FALSE /\ memory_exceeded = FALSE
  /\ child = "none" /\ returncode = None
  /\ canceled = FALSE /\ overdue = FALSE
  /\ abandoned = FALSE /\ unguarded = FALSE

\* run_extension returns or raises.
End(how) ==
  /\ pc' = "done"
  /\ outcome' = how
  /\ UNCHANGED raised

GoTo(where) == pc' = where /\ UNCHANGED <<raised, outcome>>

\* os.killpg(process.pid, SIGKILL); a group that is gone is no error.
KillGroup ==
  /\ child' = IF child = "running" THEN "killed" ELSE child
  /\ UNCHANGED returncode

\* waitpid: returncode is set once, by whichever thread comes first.
Reap ==
  /\ child \in Ended
  /\ returncode' = child
  /\ UNCHANGED child

\* validate_instance: its last check refuses after a cancellation or the
\* deadline; before, the value may be refused for what it is.
MayValidate == ~canceled /\ ~overdue

\* Entry, the package's manifest and descriptor, and the input.
Enter ==
  /\ pc = "enter"
  /\ \/ canceled /\ End("canceled")
     \/ ~canceled /\ End("refused")
     \/ ~canceled /\ GoTo("input")
  /\ UNCHANGED <<watchVars, flagVars, childVars, envVars, histVars>>

CheckInput ==
  /\ pc = "input"
  /\ End("invalid") \/ (MayValidate /\ GoTo("start"))
  /\ UNCHANGED <<watchVars, flagVars, childVars, envVars, histVars>>

\* run_handler up to Popen: no sandbox, a bound, the handler's name, or the
\* snapshot of the package may refuse; then the child runs.
StartChild ==
  /\ pc = "start"
  /\ \/ End("refused") /\ UNCHANGED child
     \/ GoTo(IF memory_reader \/ cancel_event THEN "thread" ELSE "communicate")
        /\ child' = "running"
  /\ UNCHANGED <<watchVars, flagVars, returncode, envVars, histVars>>

\* watcher.start(), outside the try: when no thread can be started, the
\* exception leaves the child behind.
StartWatcher ==
  /\ pc = "thread"
  /\ \/ GoTo("communicate") /\ watcher' = "loop"
     \/ End("threadless") /\ UNCHANGED watcher
  /\ UNCHANGED <<failures, flagVars, childVars, envVars, histVars>>

\* communicate returns: the child has ended, and is reaped unless it was.
ChildAnswers ==
  /\ pc = "communicate"
  /\ Reap
  /\ GoTo("finish")
  /\ UNCHANGED <<watchVars, flagVars, envVars, histVars>>

\* communicate raises: TimeoutExpired, or whatever interrupts the thread.
CommunicateRaises(what) ==
  /\ pc = "communicate"
  /\ what = "deadline" => overdue
  /\ raised' = what
  /\ pc' = "kill"
  /\ UNCHANGED <<outcome, watchVars, flagVars, childVars, envVars, histVars>>

KillChild ==
  /\ pc = "kill"
  /\ KillGroup
  /\ GoTo("wait")
  /\ UNCHANGED <<watchVars, flagVars, envVars, histVars>>

\* Mutant: the killed child is not waited for.
NoWaitForChild ==
  /\ pc = "wait"
  /\ GoTo("finish")
  /\ UNCHANGED <<watchVars, flagVars, childVars, envVars, histVars>>

\* process.wait()
WaitForChild ==
  /\ pc = "wait"
  /\ Reap
  /\ GoTo("finish")
  /\ UNCHANGED <<watchVars, flagVars, envVars, histVars>>

\* The finally clause: stopped.set(), then join.
Finish ==
  /\ pc = "finish"
  /\ stopped' = TRUE
  /\ GoTo("join")
  /\ UNCHANGED <<watchVars, memory_exceeded, childVars, envVars, histVars>>

\* join(timeout=1): the watcher has ended, or takes longer than a second.
Join ==
  /\ pc = "join"
  /\ abandoned' = (watcher \notin {"none", "ended"})
  /\ GoTo("judge")
  /\ UNCHANGED <<watchVars, flagVars, childVars, envVars, unguarded>>

\* What was raised is raised; else the memory flag, the returncode and the
\* output decide.
Judge ==
  /\ pc = "judge"
  /\ IF raised # None THEN End(raised)
     ELSE IF memory_exceeded THEN End("memory")
     ELSE IF returncode # "exited" THEN End("failed")
     ELSE End("refused") \/ GoTo("output")
  /\ UNCHANGED <<watchVars, flagVars, childVars, envVars, histVars>>

\* The output is validated under what is left of the deadline.
CheckOutput ==
  /\ pc = "output"
  /\ End("invalid") \/ (MayValidate /\ End("value"))
  /\ UNCHANGED <<watchVars, flagVars, childVars, envVars, histVars>>

\* An interrupt where communicate's handler does not catch it: before the try,
\* the child goes on and nobody stops the watcher; in the handler, between the
\* kill and the end of wait, only the finally clause still runs; elsewhere there
\* is no child, or it was reaped.
Interrupt ==
  /\ pc # "done"
  /\ IF pc \in {"kill", "wait"}
     THEN pc' = "finish" /\ raised' = "interrupted" /\ UNCHANGED outcome
     ELSE End("interrupted")
  /\ unguarded' = (unguarded \/ pc \in {"thread", "communicate", "kill", "wait"})
  /\ UNCHANGED <<watchVars, flagVars, childVars, envVars, abandoned>>

-----------------------------------------------------------------------------
\* The watcher looks whether there is anything left to watch; poll reaps.
WatchLoop ==
  /\ watcher = "loop"
  /\ IF ~stopped /\ child = "running"
     THEN watcher' = "look" /\ UNCHANGED childVars
     ELSE /\ watcher' = "ended"
          /\ IF ~stopped /\ returncode = None THEN Reap ELSE UNCHANGED childVars
  /\ UNCHANGED <<mainVars, failures, flagVars, envVars, histVars>>

\* Mutant: only the memory is watched.
CancelUnwatched ==
  /\ watcher = "look" /\ canceled
  /\ watcher' = "loop"
  /\ UNCHANGED <<mainVars, failures, flagVars, childVars, envVars, histVars>>

\* A cancellation is served first.
WatchCancel ==
  /\ watcher = "look" /\ canceled
  /\ watcher' = "kill"
  /\ UNCHANGED <<mainVars, failures, flagVars, childVars, envVars, histVars>>

\* The memory is within its bound, or not watched: look again in 10 ms.
WatchMemory ==
  /\ watcher = "look" /\ ~canceled
  /\ watcher' = "loop"
  /\ failures' = 0
  /\ UNCHANGED <<mainVars, flagVars, childVars, envVars, histVars>>

\* The child is above its bound.
MemoryExcess ==
  /\ watcher = "look" /\ ~canceled /\ memory_reader
  /\ watcher' = "flag"
  /\ UNCHANGED <<mainVars, failures, flagVars, childVars, envVars, histVars>>

\* Mutant: a third failed inspection kills without saying so.
InspectionFailsSilently ==
  /\ watcher = "look" /\ ~canceled /\ memory_reader
  /\ IF child # "running"
     THEN /\ watcher' = "ended"
          /\ IF returncode = None THEN Reap ELSE UNCHANGED childVars
          /\ UNCHANGED failures
     ELSE /\ failures' = failures + 1
          /\ watcher' = IF failures' < 3 THEN "loop" ELSE "kill"
          /\ UNCHANGED childVars
  /\ UNCHANGED <<mainVars, flagVars, envVars, histVars>>

\* The memory cannot be read: the child is gone, or this is one failure more,
\* and the third in a row counts as an excess.
InspectionFails ==
  /\ watcher = "look" /\ ~canceled /\ memory_reader
  /\ IF child # "running"
     THEN /\ watcher' = "ended"
          /\ IF returncode = None THEN Reap ELSE UNCHANGED childVars
          /\ UNCHANGED failures
     ELSE /\ failures' = failures + 1
          /\ watcher' = IF failures' < 3 THEN "loop" ELSE "flag"
          /\ UNCHANGED childVars
  /\ UNCHANGED <<mainVars, flagVars, envVars, histVars>>

\* memory_exceeded.set(), before the kill.
FlagMemory ==
  /\ watcher = "flag"
  /\ memory_exceeded' = TRUE
  /\ watcher' = "kill"
  /\ UNCHANGED <<mainVars, failures, stopped, childVars, envVars, histVars>>

WatcherKills ==
  /\ watcher = "kill"
  /\ KillGroup
  /\ watcher' = "ended"
  /\ UNCHANGED <<mainVars, failures, flagVars, envVars, histVars>>

-----------------------------------------------------------------------------
\* The child ends by itself, well or badly: its own limits, a bad handler.
ChildEnds ==
  /\ child = "running"
  /\ child' \in {"exited", "failed"}
  /\ UNCHANGED <<mainVars, watchVars, flagVars, returncode, envVars, histVars>>

Cancel ==
  /\ cancel_event /\ ~canceled
  /\ canceled' = TRUE
  /\ UNCHANGED <<mainVars, watchVars, flagVars, childVars, overdue, memory_reader,
                 cancel_event, histVars>>

DeadlinePasses ==
  /\ ~overdue
  /\ overdue' = TRUE
  /\ UNCHANGED <<mainVars, watchVars, flagVars, childVars, canceled, memory_reader,
                 cancel_event, histVars>>

MainStep ==
  \/ Enter \/ CheckInput \/ StartChild \/ StartWatcher
  \/ ChildAnswers \/ CommunicateRaises("deadline") \/ KillChild \/ WaitForChild
  \/ Finish \/ Join \/ Judge \/ CheckOutput

WatcherStep ==
  \/ WatchLoop \/ WatchCancel \/ WatchMemory \/ MemoryExcess \/ InspectionFails
  \/ FlagMemory \/ WatcherKills

Next ==
  \/ MainStep \/ CommunicateRaises("interrupted") \/ Interrupt \/ WatcherStep
  \/ ChildEnds \/ Cancel \/ DeadlinePasses

\* The scheduler runs both threads.  Nothing is owed by the child, the caller
\* or an interrupt, and the properties say themselves that time has passed.
Fairness == WF_vars(MainStep) /\ WF_vars(WatcherStep)

Spec == Init /\ [][Next]_vars /\ Fairness

-----------------------------------------------------------------------------
TypeOK ==
  /\ pc \in {"enter", "input", "start", "thread", "communicate", "kill", "wait",
             "finish", "join", "judge", "output", "done"}
  /\ raised \in {None, "deadline", "interrupted"}
  /\ outcome \in {None, "canceled", "refused", "invalid", "deadline", "interrupted",
                  "memory", "failed", "threadless", "value"}
  /\ watcher \in {"none", "loop", "look", "flag", "kill", "ended"}
  /\ failures \in 0..3
  /\ child \in Ended \cup {"none", "running"}
  /\ returncode \in Ended \cup {None}
  /\ \A flag \in {stopped, memory_exceeded, canceled, overdue, memory_reader,
                 cancel_event, abandoned, unguarded} : flag \in BOOLEAN

\* When run_extension is over, so is the process it started, and it was
\* reaped, whichever thread killed it, saw it end or waited for it.  The two
\* exceptions are a watcher that could not be started, and an interrupt between
\* Popen and the try or in the handler that kills and waits.
NoChildLeft ==
  pc = "done" /\ outcome # "threadless" /\ ~unguarded /\ child # "none" =>
    returncode = child

\* A result comes from a child that ended well by itself, and not from one
\* the watcher found above its memory bound, unless join gave up on it.
ValueIsEarned ==
  outcome = "value" =>
    /\ returncode = "exited"
    /\ memory_exceeded => abandoned

\* The reason given is the one there was: a child that was killed is reported
\* as the deadline, as its memory, or because the caller canceled.
ReasonIsTrue ==
  /\ outcome = "deadline" => overdue
  /\ outcome = "memory" => memory_reader /\ memory_exceeded
  /\ outcome = "failed" /\ returncode = "killed" => canceled

Over == pc = "done" /\ watcher \in {"none", "ended"}

\* What the caller is told of its handler, value or reason, is what happened.
OutcomeIsTrue == ValueIsEarned /\ ReasonIsTrue

\* A cancellation ends the call and its watcher without waiting for the
\* deadline, whatever the child does (docs/program.md:26), and even after an
\* interrupt left the child to itself.  The deadline ends them too, unless an
\* interrupt did that: then nobody looks at the deadline any more.
CallEnds ==
  /\ canceled ~> Over
  /\ overdue ~> (Over \/ unguarded)
=============================================================================
