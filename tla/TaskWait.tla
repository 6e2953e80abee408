------------------------------ MODULE TaskWait -------------------------------
(***************************************************************************)
(* The two loops that wait for a task: tasks wait of the CLI, in           *)
(* cli/src/geyser_cli/__main__.py, and submit of examples/task_workflow.py.*)
(* Both read the task until it has ended or a deadline of their own has    *)
(* passed.  The CLI compares its deadline after a read and shortens its    *)
(* last sleep to it; submit compares before a read.                        *)
(*                                                                         *)
(* now is a clock in seconds, which runs during exchanges and sleeps.      *)
(***************************************************************************)
EXTENDS Clock

CONSTANTS
  WaitTimeouts,  \* what a waiter may allow for the task
  ExchangeTime   \* how long one call of the client takes, at most

ASSUME WaitAssumption ==
  WaitTimeouts \subseteq Nat /\ ExchangeTime \in Nat

VARIABLES
  waiter,      \* "cli" or "submit"
  waitPc,
  waitDeadline, waitWake,
  callAt,      \* when the call under way was made
  seen,        \* the state the server answered it with, until it is received
  waitAnswer,  \* how the wait ended
  task,        \* server: the state of the task
  endedAt      \* history: when the task ended

waitVars == <<now, waiter, waitPc, waitDeadline, waitWake, callAt, seen, waitAnswer,
              task, endedAt>>

Terminal     == {"completed", "failed", "canceled"}
PollInterval == 5
Grace        == 15  \* what submit adds to the task's own time limit

-----------------------------------------------------------------------------
WaitInit ==
  /\ now = 0 /\ waiter = "none" /\ waitPc = "start"
  /\ waitDeadline = 0 /\ waitWake = 0 /\ callAt = 0
  /\ seen = "none" /\ waitAnswer = "none"
  /\ task = "running" /\ endedAt = Never

WaitEnd(how) == waitPc' = "done" /\ waitAnswer' = how

\* tasks wait refuses a timeout that is not between 0 and an hour.
StartWait ==
  /\ waitPc = "start"
  /\ \E t \in WaitTimeouts, w \in {"cli", "submit"} :
       /\ waiter' = w
       /\ IF w = "cli" /\ ~(0 < t /\ t <= 3600)
          THEN WaitEnd("refused") /\ UNCHANGED waitDeadline
          ELSE /\ waitPc' = "loop"
               /\ waitDeadline' = now + (IF w = "cli" THEN t ELSE t + Grace)
               /\ UNCHANGED waitAnswer
  /\ UNCHANGED <<now, waitWake, callAt, seen, task, endedAt>>

\* Mutant: the deadline is compared before each read, also by the CLI.
ReadBeforeDeadlineOnly ==
  /\ waitPc = "loop"
  /\ IF now >= waitDeadline
     THEN WaitEnd("timeout") /\ UNCHANGED callAt
     ELSE waitPc' = "reading" /\ callAt' = now /\ UNCHANGED waitAnswer
  /\ UNCHANGED <<now, waiter, waitDeadline, waitWake, seen, task, endedAt>>

\* get_task is called; submit first looks at its clock.
Read ==
  /\ waitPc = "loop"
  /\ IF waiter = "submit" /\ now >= waitDeadline
     THEN WaitEnd("timeout") /\ UNCHANGED callAt
     ELSE waitPc' = "reading" /\ callAt' = now /\ UNCHANGED waitAnswer
  /\ UNCHANGED <<now, waiter, waitDeadline, waitWake, seen, task, endedAt>>

WaitSleep(seconds) ==
  /\ waitPc' = "sleeping" /\ waitWake' = now + seconds
  /\ UNCHANGED waitAnswer

\* Mutant: the deadline is not looked at any more, and nothing is slept.
ReceiveTaskUntilItEnds ==
  /\ waitPc = "reading" /\ seen # "none"
  /\ seen' = "none"
  /\ IF seen \in Terminal THEN WaitEnd(seen) /\ UNCHANGED waitWake ELSE WaitSleep(0)
  /\ UNCHANGED <<now, waiter, waitDeadline, callAt, task, endedAt>>

\* Mutant: the CLI's last sleep is not cut at its deadline.
ReceiveTaskSleepsOn ==
  /\ waitPc = "reading" /\ seen # "none"
  /\ seen' = "none"
  /\ IF seen = "completed"
     THEN waitPc' = "fetching" /\ callAt' = now /\ UNCHANGED <<waitWake, waitAnswer>>
     ELSE /\ UNCHANGED callAt
          /\ IF seen \in Terminal THEN WaitEnd(seen) /\ UNCHANGED waitWake
             ELSE IF waiter = "cli" /\ now >= waitDeadline
             THEN WaitEnd("timeout") /\ UNCHANGED waitWake
             ELSE WaitSleep(PollInterval)
  /\ UNCHANGED <<now, waiter, waitDeadline, task, endedAt>>

\* The state is received.  A completed task's result is fetched in one more
\* call; the other two ends are reported at once.
ReceiveTask ==
  /\ waitPc = "reading" /\ seen # "none"
  /\ seen' = "none"
  /\ IF seen = "completed"
     THEN waitPc' = "fetching" /\ callAt' = now /\ UNCHANGED <<waitWake, waitAnswer>>
     ELSE /\ UNCHANGED callAt
          /\ IF seen \in Terminal THEN WaitEnd(seen) /\ UNCHANGED waitWake
             ELSE IF waiter = "submit" THEN WaitSleep(PollInterval)
             ELSE IF now >= waitDeadline THEN WaitEnd("timeout") /\ UNCHANGED waitWake
             ELSE WaitSleep(Smaller(PollInterval, waitDeadline - now))
  /\ UNCHANGED <<now, waiter, waitDeadline, task, endedAt>>

\* client.result answers for a task that has completed.
ReceiveResult ==
  /\ waitPc = "fetching" /\ task = "completed"
  /\ WaitEnd("completed")
  /\ UNCHANGED <<now, waiter, waitDeadline, waitWake, callAt, seen, task, endedAt>>

\* A call of the client raises; its own retries are those of ClientRequest.
CallFails ==
  /\ waitPc \in {"reading", "fetching"}
  /\ WaitEnd("error")
  /\ seen' = "none"
  /\ UNCHANGED <<now, waiter, waitDeadline, waitWake, callAt, task, endedAt>>

WaitWakes ==
  /\ waitPc = "sleeping" /\ now >= waitWake
  /\ waitPc' = "loop"
  /\ UNCHANGED <<now, waiter, waitDeadline, waitWake, callAt, seen, waitAnswer,
                 task, endedAt>>

-----------------------------------------------------------------------------
\* The server reads the task for the call under way.
HandleRead ==
  /\ waitPc = "reading" /\ seen = "none"
  /\ seen' = task
  /\ UNCHANGED <<now, waiter, waitPc, waitDeadline, waitWake, callAt, waitAnswer,
                 task, endedAt>>

\* The Agent ends the task, or someone cancels it.
TaskEnds ==
  /\ waitPc # "done" /\ task \notin Terminal
  /\ task' \in Terminal
  /\ endedAt' = now
  /\ UNCHANGED <<now, waiter, waitPc, waitDeadline, waitWake, callAt, seen, waitAnswer>>

WaitTick ==
  /\ \/ waitPc \in {"reading", "fetching"} /\ now < callAt + ExchangeTime
     \/ waitPc = "sleeping" /\ now < waitWake
  /\ now' = now + 1
  /\ UNCHANGED <<waiter, waitPc, waitDeadline, waitWake, callAt, seen, waitAnswer,
                 task, endedAt>>

-----------------------------------------------------------------------------
WaitStep ==
  StartWait \/ Read \/ ReceiveTask \/ ReceiveResult \/ CallFails \/ WaitWakes

WaitNext == WaitStep \/ HandleRead \/ TaskEnds \/ WaitTick

\* The waiting program goes on and time passes; the task need not end.
WaitFairness == WF_waitVars(WaitStep) /\ WF_waitVars(WaitTick)

WaitSpec == WaitInit /\ [][WaitNext]_waitVars /\ WaitFairness

-----------------------------------------------------------------------------
WaitTypeOK ==
  /\ now \in Nat /\ waitDeadline \in Nat /\ waitWake \in Nat /\ callAt \in Nat
  /\ waiter \in {"none", "cli", "submit"}
  /\ waitPc \in {"start", "loop", "reading", "fetching", "sleeping", "done"}
  /\ seen \in {"none", "running"} \cup Terminal
  /\ waitAnswer \in {"none", "refused", "timeout", "error"} \cup Terminal
  /\ task \in {"running"} \cup Terminal
  /\ endedAt \in Moments

\* How long before its deadline a task may end and still be called timed out:
\* the call that was under way then, and for submit the sleep after it.
Blind == ExchangeTime + (IF waiter = "submit" THEN PollInterval ELSE 0)

\* "wait timed out; task continues remotely" (__main__.py 340): a wait that
\* reports a timeout waited until its deadline, and the task had not ended by
\* the time of the last read the deadline allows; an end that is reported is
\* the end of the task.
WaitIsTruthful ==
  /\ waitAnswer = "timeout" =>
       /\ now >= waitDeadline
       /\ endedAt # Never => endedAt + Blind >= waitDeadline
  /\ waitAnswer \in Terminal => waitAnswer = task

\* How far past its deadline a wait may run: the read made at the deadline and
\* the one call for the result; submit makes no read at its deadline, and sleeps
\* on after one that it made just before.
Overrun ==
  ExchangeTime + (IF waiter = "submit" THEN Larger(ExchangeTime, PollInterval) - 1
                  ELSE ExchangeTime)

\* docs/cli.md:28, "Poll with a bounded deadline": whatever the server answers
\* and when, no wait goes on longer than the calls of its last round take.
WaitEndsInTime == waitPc # "start" => now <= waitDeadline + Overrun

\* Every wait ends, although the task may not.
WaitEnds == waitPc = "loop" ~> waitPc = "done"
=============================================================================
