--------------------------- MODULE WaitingCommands ---------------------------
(***************************************************************************)
(* The commands that wait, as main of cli/src/geyser_cli/__main__.py       *)
(* dispatches them: login, tasks wait, runs watch, and every other command *)
(* that reaches the network, which is one call of a client.                *)
(*                                                                         *)
(* A process of the CLI runs one command and ends; argv is which one.  The *)
(* variables of the others stay as they began.                             *)
(***************************************************************************)
EXTENDS DeviceLogin, TaskWait, WatchEvents, ClientRequest

VARIABLE argv    \* the command, "none" before main has parsed its arguments

loginOnly == <<loginReply, loginClientVars, loginServerVars>>
waitOnly  == <<waiter, waitPc, waitDeadline, waitWake, callAt, seen, waitAnswer,
               task, endedAt>>
cliVars == <<argv, now, loginOnly, waitOnly, watchVars, vars>>

CliInit == argv = "none" /\ LoginInit /\ WaitInit /\ WatchInit /\ Init

Parse ==
  /\ argv = "none"
  /\ argv' \in {"login", "tasks wait", "runs watch", "request"}
  /\ UNCHANGED <<now, loginOnly, waitOnly, watchVars, vars>>

Login == argv = "login" /\ LoginNext /\ UNCHANGED <<argv, waitOnly, watchVars, vars>>
Wait  == argv = "tasks wait" /\ WaitNext /\ UNCHANGED <<argv, loginOnly, watchVars, vars>>
\* The command watches from 0, keeps no cursor and ends when it fails: its
\* behaviours are those of the loop of docs/sdk.md up to the first stop.
Watch == argv = "runs watch" /\ WatchNext
         /\ UNCHANGED <<argv, now, loginOnly, waitOnly, vars>>
OneCall == argv = "request" /\ Next
           /\ UNCHANGED <<argv, now, loginOnly, waitOnly, watchVars>>

CliNext == Parse \/ Login \/ Wait \/ Watch \/ OneCall

\* The fairness of each command, which is void for those that do not run.
CliFairness ==
  /\ WF_cliVars(argv = "login" /\ LoginStep /\ UNCHANGED <<argv, waitOnly, watchVars, vars>>)
  /\ WF_cliVars(argv = "login" /\ LoginTick /\ UNCHANGED <<argv, waitOnly, watchVars, vars>>)
  /\ WF_cliVars(argv = "tasks wait" /\ WaitStep /\ UNCHANGED <<argv, loginOnly, watchVars, vars>>)
  /\ WF_cliVars(argv = "tasks wait" /\ WaitTick /\ UNCHANGED <<argv, loginOnly, watchVars, vars>>)
  /\ WF_cliVars(argv = "runs watch" /\ WatchStep
                /\ UNCHANGED <<argv, now, loginOnly, waitOnly, vars>>)
  /\ \A c \in Calls :
       WF_cliVars(argv = "request" /\ ClientStep(c)
                  /\ UNCHANGED <<argv, now, loginOnly, waitOnly, watchVars>>)

CliSpec == CliInit /\ [][CliNext]_cliVars /\ CliFairness

-----------------------------------------------------------------------------
\* docs/cli.md:28, "Poll with a bounded deadline": no command that polls goes on
\* past its deadline for longer than its last round takes, whatever the server
\* answers and the person does.
PollingEndsInTime == LoginEndsInTime /\ WaitEndsInTime

\* The type invariants of the four modules.
CliTypeOK == LoginTypeOK /\ WaitTypeOK /\ WatchTypeOK /\ TypeOK

\* Every command that has begun to work ends: a login, a wait for a task, and
\* a call of the client, whatever the server answers; and a watch, once the run
\* has ended and appends nothing more.
CommandsEnd ==
  /\ loginPc \in {"opening", "poll"} ~> loginPc = "done"
  /\ waitPc = "loop" ~> waitPc = "done"
  /\ \A c \in Calls : pc[c] = "send" ~> pc[c] = "done"
  /\ WatchReturns
=============================================================================
