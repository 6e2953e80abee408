---------------------------- MODULE WaitingProofs ----------------------------
(***************************************************************************)
(* Theorems about the components of WaitingCommands, one after the other.  *)
(*                                                                         *)
(* TaskWait: a read that found the task running was made at callAt or      *)
(* later, so whatever ended since did so after callAt; and the clock gets  *)
(* no further from callAt than one exchange and one sleep.                 *)
(*                                                                         *)
(* DeviceLogin: the login's interval follows the server's pace, one        *)
(* answer behind it, and every sleep begins at or after the poll it        *)
(* follows, and at most one exchange later.                                *)
(*                                                                         *)
(* WatchEvents: the page in hand goes on where the cursor stands, and the  *)
(* saved cursor splits the events into those done with and those to come.  *)
(* The stream an application sees has come as far as the saved cursor.     *)
(*                                                                         *)
(* Times: a wait reads, and a login polls, before a deadline that nothing  *)
(* moves; what may follow is one round of calls and one sleep.             *)
(*                                                                         *)
(* The end puts them together, with the theorems of ClientRequestProofs:   *)
(* of the four commands one runs, and the others have not begun.           *)
(***************************************************************************)
EXTENDS WaitingCommands, ClientRequestProofs, TLAPS

-----------------------------------------------------------------------------
(***************************************************************************)
(* TaskWait                                                                *)
(***************************************************************************)

\* What the program and the server know of the task's end.
EndKnown ==
  /\ task \in Terminal <=> endedAt # Never
  /\ seen \in Terminal => seen = task
  /\ seen # "none" => waitPc = "reading"
  /\ waitPc = "fetching" => task = "completed"
  /\ waitAnswer # "none" => waitPc = "done"
  /\ waitPc # "start" => waiter # "none"

\* The clock does not run away from the call under way, or from the one that
\* the sleep under way follows.
NearCall ==
  /\ waitPc = "start" => now = 0
  /\ waitPc \in {"reading", "fetching"} => callAt <= now /\ now <= callAt + ExchangeTime
  /\ waitPc = "sleeping" =>
       callAt <= now /\ now <= waitWake /\ waitWake <= callAt + ExchangeTime + PollInterval

\* A task that was found running ended after the call that found it so; at the
\* head of the loop, not longer ago than one exchange and one sleep take.
EndedSince ==
  endedAt # Never =>
    /\ waitPc = "reading" /\ seen = "running" => callAt <= endedAt
    /\ waitPc = "sleeping" => callAt <= endedAt
    /\ waitPc = "loop" => now <= endedAt + ExchangeTime + PollInterval

WaitInv == WaitTypeOK /\ EndKnown /\ NearCall /\ EndedSince /\ WaitIsTruthful

\* A wait begins before its first read.
LEMMA WaitStarts == WaitInit => WaitInv
  BY NeverAssumption
  DEF WaitInit, WaitInv, WaitTypeOK, EndKnown, NearCall, EndedSince, WaitIsTruthful, Moments,
      Terminal

\* Every step keeps the invariant: one case for each action.
LEMMA WaitKeeps ==
  WaitInv /\ [WaitNext]_waitVars => WaitInv'
<1> SUFFICES ASSUME WaitInv, [WaitNext]_waitVars  PROVE WaitInv'
  OBVIOUS
<1> USE NeverAssumption, WaitAssumption
    DEF WaitInv, WaitTypeOK, EndKnown, NearCall, EndedSince, WaitIsTruthful, Moments, Terminal,
        WaitEnd, PollInterval, Grace, Blind
<1>1. CASE StartWait
  <2>1. PICK t \in WaitTimeouts, w \in {"cli", "submit"} :
          /\ waiter' = w
          /\ IF w = "cli" /\ ~(0 < t /\ t <= 3600)
             THEN WaitEnd("refused") /\ UNCHANGED waitDeadline
             ELSE /\ waitPc' = "loop"
                  /\ waitDeadline' = now + (IF w = "cli" THEN t ELSE t + Grace)
                  /\ UNCHANGED waitAnswer
    BY <1>1 DEF StartWait
  <2>2. t \in Nat  BY <2>1
  <2>3. CASE waitPc' = "done"  BY <1>1, <2>1, <2>2, <2>3 DEF StartWait
  <2>4. CASE waitPc' # "done"  BY <1>1, <2>1, <2>2, <2>4 DEF StartWait
  <2> QED  BY <2>3, <2>4
<1>2. CASE Read  BY <1>2 DEF Read
<1>3. CASE ReceiveTask
  <2>1. CASE seen = "completed"  BY <1>3, <2>1 DEF ReceiveTask
  <2>2. CASE seen \in Terminal \ {"completed"}  BY <1>3, <2>2 DEF ReceiveTask
  <2>3. CASE seen = "running" /\ waitPc' = "done"  BY <1>3, <2>3 DEF ReceiveTask, WaitSleep
  <2>4. CASE seen = "running" /\ waitPc' # "done"
    BY <1>3, <2>4 DEF ReceiveTask, WaitSleep, Smaller
  <2> QED  BY <1>3, <2>1, <2>2, <2>3, <2>4 DEF ReceiveTask
<1>4. CASE ReceiveResult  BY <1>4 DEF ReceiveResult
<1>5. CASE CallFails  BY <1>5 DEF CallFails
<1>6. CASE WaitWakes  BY <1>6 DEF WaitWakes
<1>7. CASE HandleRead  BY <1>7 DEF HandleRead
<1>8. CASE TaskEnds  BY <1>8 DEF TaskEnds
<1>9. CASE WaitTick  BY <1>9 DEF WaitTick
<1>10. CASE UNCHANGED waitVars  BY <1>10 DEF waitVars
<1> QED
  BY <1>1, <1>2, <1>3, <1>4, <1>5, <1>6, <1>7, <1>8, <1>9, <1>10 DEF WaitNext, WaitStep

\* The types of TaskWait, for any timeouts and exchange times.
THEOREM WaitTypesAlways == WaitSpec => []WaitTypeOK
<1>1. WaitInv => WaitTypeOK  BY DEF WaitInv
<1> QED  BY <1>1, WaitStarts, WaitKeeps, PTL DEF WaitSpec

\* A wait that reports a timeout has waited until its deadline, and the task had
\* not ended by the last read the deadline allows; the end a wait reports is the
\* end of the task: for any timeouts and exchange times (__main__.py 326-341,
\* submit of examples/task_workflow.py).
THEOREM WaitAlwaysTruthful == WaitSpec => []WaitIsTruthful
<1>1. WaitInv => WaitIsTruthful  BY DEF WaitInv
<1> QED  BY <1>1, WaitStarts, WaitKeeps, PTL DEF WaitSpec

\* How far from the deadline each place of the loop may be: the CLI wakes by its
\* deadline, submit reads only before it.
CommandInTime ==
  waiter # "submit" =>
    /\ waitPc = "loop" => now <= waitDeadline
    /\ waitPc = "reading" => callAt <= waitDeadline
    /\ waitPc = "fetching" => callAt <= waitDeadline + ExchangeTime
    /\ waitPc = "sleeping" => waitWake <= waitDeadline
    /\ waitPc # "start" => now <= waitDeadline + ExchangeTime + ExchangeTime

SubmitInTime ==
  waiter = "submit" =>
    /\ waitPc = "reading" => callAt < waitDeadline
    /\ waitPc = "fetching" => callAt < waitDeadline + ExchangeTime
    /\ waitPc = "sleeping" => waitWake < waitDeadline + ExchangeTime + PollInterval
    /\ waitPc # "start" =>
         \/ now < waitDeadline + ExchangeTime + ExchangeTime
         \/ now < waitDeadline + ExchangeTime + PollInterval

InTime == CommandInTime /\ SubmitInTime

LEMMA InTimeStarts == WaitInit => InTime
  BY DEF WaitInit, InTime, CommandInTime, SubmitInTime

LEMMA InTimeEnds == WaitTypeOK /\ InTime => WaitEndsInTime
  BY WaitAssumption
  DEF WaitTypeOK, InTime, CommandInTime, SubmitInTime, WaitEndsInTime, Overrun, Larger, PollInterval

LEMMA StillBefore ==
  ASSUME NEW t \in Nat, NEW d \in Nat, NEW e \in Nat, t <= d
  PROVE  t <= d + e + e /\ t < d + e + PollInterval
  BY DEF PollInterval

\* Every step keeps it: one case for each action.
LEMMA InTimeKept ==
  WaitInv /\ InTime /\ [WaitNext]_waitVars => InTime'
<1> SUFFICES ASSUME WaitInv, InTime, [WaitNext]_waitVars  PROVE InTime'
  OBVIOUS
<1>0. WaitTypeOK /\ WaitTypeOK'  BY WaitKeeps DEF WaitInv
<1>01. /\ now \in Nat /\ waitDeadline \in Nat /\ waitWake \in Nat /\ callAt \in Nat
       /\ now' \in Nat /\ waitDeadline' \in Nat /\ waitWake' \in Nat /\ callAt' \in Nat
       /\ waiter \in {"none", "cli", "submit"}
       /\ seen \in {"none", "running"} \cup Terminal
  BY <1>0 DEF WaitTypeOK
<1>02. (waitPc # "start" => waiter # "none") /\ NearCall  BY DEF WaitInv, EndKnown
<1> USE <1>01, <1>02, WaitAssumption
    DEF InTime, CommandInTime, SubmitInTime, NearCall, WaitEnd, PollInterval, Grace
<1>1. CASE StartWait
  <2>1. now' = 0 /\ waitPc' \in {"loop", "done"}  BY <1>1 DEF StartWait
  <2>2. now' \in Nat /\ waitDeadline' \in Nat /\ ExchangeTime \in Nat
    OBVIOUS
  <2> HIDE <1>01, <1>02, WaitAssumption DEF NearCall
  <2>3. now' <= waitDeadline'  BY <2>1, <2>2
  <2>4. /\ now' <= waitDeadline' + ExchangeTime + ExchangeTime
        /\ now' < waitDeadline' + ExchangeTime + PollInterval
    BY <2>2, <2>3, StillBefore
  <2>5. waitPc' # "reading" /\ waitPc' # "fetching" /\ waitPc' # "sleeping"
    BY <2>1
  <2>6. CommandInTime'  BY <2>3, <2>4, <2>5
  <2>7. SubmitInTime'  BY <2>4, <2>5
  <2> QED  BY <2>6, <2>7
<1>2. CASE Read  BY <1>2 DEF Read
<1>3. CASE ReceiveTask
  <2>1. CASE seen = "completed"  BY <1>3, <2>1 DEF ReceiveTask
  <2>2. CASE seen \in Terminal \ {"completed"}  BY <1>3, <2>2 DEF ReceiveTask
  <2>3. CASE seen = "running" /\ waitPc' = "done"
    BY <1>3, <2>3 DEF ReceiveTask, WaitSleep
  <2>4. CASE seen = "running" /\ waitPc' # "done"
    BY <1>3, <2>4 DEF ReceiveTask, WaitSleep, Smaller, Terminal
  <2> QED  BY <1>3, <2>1, <2>2, <2>3, <2>4 DEF ReceiveTask
<1>4. CASE ReceiveResult  BY <1>4 DEF ReceiveResult
<1>5. CASE CallFails  BY <1>5 DEF CallFails
<1>6. CASE WaitWakes  BY <1>6 DEF WaitWakes
<1>7. CASE HandleRead  BY <1>7 DEF HandleRead
<1>8. CASE TaskEnds  BY <1>8 DEF TaskEnds
<1>9. CASE WaitTick  BY <1>9 DEF WaitTick
<1>10. CASE UNCHANGED waitVars  BY <1>10 DEF waitVars
<1> QED
  BY <1>1, <1>2, <1>3, <1>4, <1>5, <1>6, <1>7, <1>8, <1>9, <1>10 DEF WaitNext, WaitStep

\* No wait goes on longer than the calls of its last round take after its
\* deadline, whatever the server answers, for any timeouts and exchange times
\* (__main__.py 328-341, submit of examples/task_workflow.py).
THEOREM WaitAlwaysInTime == WaitSpec => []WaitEndsInTime
<1>1. WaitInv /\ InTime => WaitEndsInTime  BY InTimeEnds DEF WaitInv
<1> QED  BY <1>1, WaitStarts, WaitKeeps, InTimeStarts, InTimeKept, PTL DEF WaitSpec

-----------------------------------------------------------------------------
(***************************************************************************)
(* DeviceLogin                                                             *)
(***************************************************************************)

Polling == loginPc \in {"poll", "exchange", "sleeping"}

\* What the state of the grant says of the places the login can be in.
GrantKnown ==
  /\ loginPc = "start" => grant.state = "none"
  /\ loginPc \in {"start", "opening"} => lastPoll = Never
  /\ loginReply # "none" => loginPc = "exchange"
  /\ loginAnswer # "none" => loginPc = "done"
  /\ loginReply = "token" \/ loginPc = "save" => grant.state = "spent"
  /\ grant.state = "spent" /\ loginPc \notin {"save", "done"} =>
       loginReply \in {"token", "elsewhere"}

\* The code's own times.
CodeTimes ==
  /\ grant.state # "none" => grant.expires = device.at + device.lifetime
  /\ device.at <= now
  /\ loginPc = "opening" => grant.pace = device.interval
  /\ approvedAt # Never =>
       grant.state \in {"approved", "spent"} /\ device.lifetime > 0 /\ approvedAt <= now

\* The login is in step with the server's pace, but for a slow_down that has
\* not reached it; it never waits more than a second longer than asked.
Lag == IF loginReply = "slow_down" THEN SlowDownStep ELSE 0
InStep == Polling => grant.pace <= interval + Lag /\ interval + Lag <= grant.pace + 1

\* The time since the last poll.
SincePoll ==
  /\ Polling /\ lastPoll = Never =>
       loginPc # "sleeping" /\ (loginPc = "poll" => now + device.lifetime = deadline)
  /\ lastPoll # Never => lastPoll <= now
  /\ loginPc = "exchange" => sentAt <= now /\ now <= sentAt + Timeout
  /\ loginPc = "exchange" /\ loginReply # "none" => lastPoll # Never /\ sentAt <= lastPoll
  /\ loginPc = "exchange" /\ loginReply = "none" /\ lastPoll # Never =>
       lastPoll + interval <= now
  /\ loginPc = "poll" /\ lastPoll # Never =>
       lastPoll + interval <= now /\ now <= lastPoll + Timeout + interval
  /\ loginPc = "sleeping" =>
       now <= wake /\ lastPoll + interval <= wake /\ wake <= lastPoll + Timeout + interval

\* A person who has approved did so after the poll that was told to wait.
ApprovedSince ==
  approvedAt # Never /\ lastPoll # Never
  /\ (loginPc \in {"poll", "sleeping"} \/ loginReply \in {"pending", "slow_down"}) =>
    lastPoll <= approvedAt

LoginInv ==
  /\ LoginTypeOK /\ GrantKnown /\ CodeTimes /\ InStep /\ SincePoll /\ ApprovedSince
  /\ loginAnswer = "expired" => deadline <= now
  /\ GrantIsUsed

\* A login begins before its first poll.
LEMMA LoginStarts == LoginInit => LoginInv
  BY NeverAssumption, LoginAssumption
  DEF LoginInit, LoginInv, LoginTypeOK, GrantKnown, CodeTimes, InStep, Polling, Lag, SincePoll,
      ApprovedSince, GrantIsUsed, Moments, NoDevice

\* What the device endpoint may have named.
LEMMA DeviceTimes ==
  ASSUME LoginTypeOK
  PROVE  device.at \in Nat /\ device.interval \in Nat /\ device.lifetime \in Nat
<1>1. CASE device = NoDevice  BY <1>1 DEF NoDevice
<1>2. CASE device \in [at : Nat, interval : Intervals, lifetime : Lifetimes]
  BY <1>2, LoginAssumption
<1> QED  BY <1>1, <1>2 DEF LoginTypeOK

\* The parts of the types that are records, by name.
Devices == {NoDevice} \cup [at : Nat, interval : Intervals, lifetime : Lifetimes]
Grants  == [state : {"none", "pending", "approved", "denied", "spent"},
            expires : Nat, pace : Nat]
LoginTimes ==
  /\ now \in Nat /\ deadline \in Nat /\ interval \in Nat /\ wake \in Nat /\ sentAt \in Nat
  /\ lastPoll \in Moments /\ approvedAt \in Moments
  /\ slowDowns \in 0..MaxSlowDowns
LoginPlaces ==
  /\ loginPc \in {"start", "opening", "poll", "exchange", "sleeping", "save",
                  "save-service", "done"}
  /\ loginReply \in {"none", "token", "elsewhere", "pending", "slow_down", "refused", "error"}
  /\ stored \in {"none", "device", "service"}
  /\ loginAnswer \in {"none", "authenticated", "failed", "expired"}

LEMMA LoginTypes ==
  LoginTypeOK <=> device \in Devices /\ grant \in Grants /\ LoginTimes /\ LoginPlaces
  BY DEF LoginTypeOK, Devices, Grants, LoginTimes, LoginPlaces

\* Every step keeps the types.
LEMMA LoginTypesKept ==
  ASSUME LoginInv, [LoginNext]_loginVars
  PROVE  LoginTypeOK' /\ grant' \in Grants /\ LoginTimes' /\ LoginPlaces'
<1>0. /\ device \in Devices /\ grant \in Grants /\ LoginTimes /\ LoginPlaces
      /\ device.at \in Nat /\ device.interval \in Nat /\ device.lifetime \in Nat
  BY DeviceTimes, LoginTypes DEF LoginInv
<1>1. device' \in Devices
  <2>1. CASE UNCHANGED device  BY <1>0, <2>1
  <2>2. CASE RequestCode  BY <1>0, <2>2 DEF RequestCode, Devices, LoginTimes
  <2> QED
    BY <2>1, <2>2
    DEF LoginNext, LoginStep, BeginPolling, Poll, Receive, Break, Save, LoginWakes,
        LoginServiceToken, HandlePoll, Decide, LoginTick, loginVars, loginClientVars
<1>2. grant' \in Grants
  <2>1. CASE UNCHANGED grant  BY <1>0, <2>1
  <2>2. CASE RequestCode
    BY <1>0, <2>2, LoginAssumption DEF RequestCode, Grants, LoginTimes
  <2>3. CASE HandlePoll  BY <1>0, <2>3 DEF HandlePoll, Grants, SlowDownStep
  <2>4. CASE Decide  BY <1>0, <2>4 DEF Decide, Grants
  <2> QED
    BY <2>1, <2>2, <2>3, <2>4
    DEF LoginNext, LoginStep, BeginPolling, Poll, Receive, Break, Save, LoginWakes,
        LoginServiceToken, LoginTick, loginVars, loginServerVars
<1> USE <1>0, NeverAssumption, LoginAssumption
    DEF LoginTimes, LoginPlaces, Moments, LoginEnd, LoginAt, LoginSleep, SlowDownStep,
        loginServerVars, loginClientVars
<1>3. LoginTimes' /\ LoginPlaces'
  <2>1. CASE RequestCode  BY <2>1 DEF RequestCode
  <2>2. CASE BeginPolling  BY <2>2 DEF BeginPolling, Larger
  <2>3. CASE Poll  BY <2>3 DEF Poll
  <2>4. CASE Receive
    <3>1. CASE loginReply = "slow_down"  BY <2>4, <3>1 DEF Receive
    <3>2. CASE loginReply = "pending"  BY <2>4, <3>2 DEF Receive
    <3>3. CASE loginReply = "token"  BY <2>4, <3>3 DEF Receive
    <3>4. CASE loginReply \notin {"token", "pending", "slow_down"}  BY <2>4, <3>4 DEF Receive
    <3> QED  BY <3>1, <3>2, <3>3, <3>4
  <2>5. CASE Break  BY <2>5 DEF Break
  <2>6. CASE Save  BY <2>6 DEF Save
  <2>7. CASE LoginWakes  BY <2>7 DEF LoginWakes
  <2>8. CASE LoginServiceToken  BY <2>8 DEF LoginServiceToken
  <2>9. CASE HandlePoll  BY <2>9 DEF HandlePoll
  <2>10. CASE Decide  BY <2>10 DEF Decide
  <2>11. CASE LoginTick
    <3>1. now' = now + 1 /\ UNCHANGED <<loginReply, loginClientVars, loginServerVars>>
      BY <2>11 DEF LoginTick
    <3>2. LoginTimes'
      <4>1. now' \in Nat  BY <3>1
      <4>2. deadline' \in Nat /\ interval' \in Nat /\ wake' \in Nat /\ sentAt' \in Nat  BY <3>1
      <4>3. lastPoll' \in Moments /\ approvedAt' \in Moments  BY <3>1
      <4>4. slowDowns' \in 0..MaxSlowDowns  BY <3>1
      <4> QED  BY <4>1, <4>2, <4>3, <4>4
    <3>3. LoginPlaces'  BY <3>1
    <3> QED  BY <3>2, <3>3
  <2>12. CASE UNCHANGED loginVars  BY <2>12 DEF loginVars
  <2> QED
    BY <2>1, <2>2, <2>3, <2>4, <2>5, <2>6, <2>7, <2>8, <2>9, <2>10, <2>11, <2>12
    DEF LoginNext, LoginStep
<1>4. LoginTypeOK' <=> device' \in Devices /\ grant' \in Grants /\ LoginTimes' /\ LoginPlaces'
  BY DEF LoginTypeOK, Devices, Grants, LoginTimes, LoginPlaces
<1> QED  BY <1>1, <1>2, <1>3, <1>4

\* Every step keeps the invariant: one case for each action.
LEMMA LoginKeeps ==
  LoginInv /\ [LoginNext]_loginVars => LoginInv'
<1> SUFFICES ASSUME LoginInv, [LoginNext]_loginVars  PROVE LoginInv'
  OBVIOUS
<1>0. /\ device.at \in Nat /\ device.interval \in Nat /\ device.lifetime \in Nat
      /\ LoginTimes /\ LoginPlaces /\ LoginTypeOK' /\ LoginTimes' /\ LoginPlaces'
      /\ grant \in Grants
  <2>1. LoginTypeOK  BY DEF LoginInv
  <2> QED  BY <2>1, DeviceTimes, LoginTypesKept, LoginTypes
<1> USE <1>0, NeverAssumption, LoginAssumption
    DEF LoginInv, LoginTimes, LoginPlaces, Grants, GrantKnown, CodeTimes, InStep, Polling, Lag, SincePoll,
        ApprovedSince, GrantIsUsed, Moments, LoginEnd, LoginAt, LoginSleep, SlowDownStep,
        loginServerVars, loginClientVars
<1>1. CASE RequestCode
  <2>1. CASE loginPc' = "done"  BY <1>1, <2>1 DEF RequestCode
  <2>2. CASE loginPc' # "done"  BY <1>1, <2>2 DEF RequestCode
  <2> QED  BY <2>1, <2>2
<1>2. CASE BeginPolling  BY <1>2 DEF BeginPolling, Larger
<1>3. CASE Poll
  <2>1. CASE now < deadline  BY <1>3, <2>1 DEF Poll
  <2>2. CASE ~(now < deadline)
    <3>1. approvedAt # Never => approvedAt + Timeout + grant.pace + 1 >= deadline
      <4>1. CASE lastPoll = Never  BY <1>3, <2>2, <4>1 DEF Poll
      <4>2. CASE lastPoll # Never  BY <1>3, <2>2, <4>2 DEF Poll
      <4> QED  BY <4>1, <4>2
    <3>2. grant.state # "spent"  BY <1>3 DEF Poll
    <3> QED  BY <1>3, <2>2, <3>1, <3>2 DEF Poll
  <2> QED  BY <2>1, <2>2
<1>4. CASE Receive
  <2>1. CASE loginReply = "token"  BY <1>4, <2>1 DEF Receive
  <2>2. CASE loginReply = "pending"  BY <1>4, <2>2 DEF Receive
  <2>3. CASE loginReply = "slow_down"  BY <1>4, <2>3 DEF Receive
  <2>4. CASE loginReply \notin {"token", "pending", "slow_down"}  BY <1>4, <2>4 DEF Receive
  <2> QED  BY <2>1, <2>2, <2>3, <2>4
<1>5. CASE Break  BY <1>5 DEF Break
<1>6. CASE Save  BY <1>6 DEF Save
<1>7. CASE LoginWakes  BY <1>7 DEF LoginWakes
<1>8. CASE LoginServiceToken  BY <1>8 DEF LoginServiceToken
<1>9. CASE HandlePoll
  <2>1. CASE loginReply' = "refused"  BY <1>9, <2>1 DEF HandlePoll
  <2>2. CASE loginReply' \in {"token", "elsewhere"}  BY <1>9, <2>2 DEF HandlePoll
  <2>3. CASE loginReply' = "pending"  BY <1>9, <2>3 DEF HandlePoll
  <2>4. CASE loginReply' = "slow_down"  BY <1>9, <2>4 DEF HandlePoll
  <2>5. CASE loginReply' = "error"  BY <1>9, <2>5 DEF HandlePoll
  <2> QED  BY <1>9, <2>1, <2>2, <2>3, <2>4, <2>5 DEF HandlePoll
<1>10. CASE Decide  BY <1>10 DEF Decide
<1>11. CASE LoginTick  BY <1>11 DEF LoginTick
<1>12. CASE UNCHANGED loginVars  BY <1>12 DEF loginVars
<1> QED
  BY <1>1, <1>2, <1>3, <1>4, <1>5, <1>6, <1>7, <1>8, <1>9, <1>10, <1>11, <1>12
  DEF LoginNext, LoginStep

\* The types of DeviceLogin, for anything the server may name.
THEOREM LoginTypesAlways == LoginSpec => []LoginTypeOK
<1>1. LoginInv => LoginTypeOK  BY DEF LoginInv
<1> QED  BY <1>1, LoginStarts, LoginKeeps, PTL DEF LoginSpec

\* What the invariant says of the moment a poll reaches the server.
LEMMA LoginPaces == LoginInv => PollsAtPace
  BY NeverAssumption
  DEF LoginInv, LoginTypeOK, InStep, Polling, Lag, SincePoll, PollsAtPace, Moments

\* Whatever interval the server names and however often it says slow_down, a
\* poll that reaches it comes at or after the pace it has set by then
\* (login_device, auth.py 59-106).
THEOREM PollsAlwaysAtPace == LoginSpec => []PollsAtPace
  BY LoginPaces, LoginStarts, LoginKeeps, PTL DEF LoginSpec

\* A login that reports expiry was handed no token, and the person approved too
\* late for one more poll, if at all; a login that reports success has stored
\* what it was handed: for any interval, lifetime, timeout and pace.
THEOREM GrantAlwaysUsed == LoginSpec => []GrantIsUsed
<1>1. LoginInv => GrantIsUsed  BY DEF LoginInv
<1> QED  BY <1>1, LoginStarts, LoginKeeps, PTL DEF LoginSpec

\* A login that is to begin is in time; a poll is begun before the deadline, and
\* a sleep one exchange later at most.
PollsBefore ==
  /\ loginPc = "start" => now < deadline + Timeout + interval
  /\ loginPc = "exchange" => sentAt < deadline
  /\ loginPc = "sleeping" => wake < deadline + Timeout + interval

LoginInTime == PollsBefore /\ LoginEndsInTime

LEMMA LoginInTimeStarts == LoginInit => LoginInTime
  BY LoginAssumption DEF LoginInit, LoginInTime, PollsBefore, LoginEndsInTime

\* Every step keeps it: one case for each action.
LEMMA LoginInTimeKept ==
  LoginInv /\ LoginInTime /\ [LoginNext]_loginVars => LoginInTime'
<1> SUFFICES ASSUME LoginInv, LoginInTime, [LoginNext]_loginVars  PROVE LoginInTime'
  OBVIOUS
<1>0. LoginTypeOK /\ LoginTypeOK'  BY LoginKeeps DEF LoginInv
<1>01. /\ device.at \in Nat /\ device.interval \in Nat /\ device.lifetime \in Nat
       /\ LoginTimes /\ LoginTimes'
  <2>1. LoginTimes /\ LoginTimes'  BY <1>0 DEF LoginTypeOK, LoginTimes
  <2> QED  BY <1>0, <2>1, DeviceTimes
<1>02. loginPc = "exchange" => sentAt <= now /\ now <= sentAt + Timeout
  BY DEF LoginInv, SincePoll
<1>03. loginPc = "sleeping" => now <= wake
  BY DEF LoginInv, SincePoll
<1> USE <1>01, <1>02, <1>03, LoginAssumption
    DEF LoginTimes, LoginInTime, PollsBefore, LoginEndsInTime, LoginEnd, LoginAt, LoginSleep,
        SlowDownStep, loginServerVars, loginClientVars
<1>1. CASE RequestCode  BY <1>1 DEF RequestCode
<1>2. CASE BeginPolling  BY <1>2 DEF BeginPolling, Larger
<1>3. CASE Poll  BY <1>3 DEF Poll
<1>4. CASE Receive
  <2>1. CASE loginReply = "token"  BY <1>4, <2>1 DEF Receive
  <2>2. CASE loginReply = "pending"  BY <1>4, <2>2 DEF Receive
  <2>3. CASE loginReply = "slow_down"  BY <1>4, <2>3 DEF Receive
  <2>4. CASE loginReply \notin {"token", "pending", "slow_down"}  BY <1>4, <2>4 DEF Receive
  <2> QED  BY <2>1, <2>2, <2>3, <2>4
<1>5. CASE Break  BY <1>5 DEF Break
<1>6. CASE Save  BY <1>6 DEF Save
<1>7. CASE LoginWakes  BY <1>7 DEF LoginWakes
<1>8. CASE LoginServiceToken  BY <1>8 DEF LoginServiceToken
<1>9. CASE HandlePoll \/ Decide  BY <1>9 DEF HandlePoll, Decide
<1>10. CASE LoginTick  BY <1>10 DEF LoginTick
<1>11. CASE UNCHANGED loginVars  BY <1>11 DEF loginVars
<1> QED
  BY <1>1, <1>2, <1>3, <1>4, <1>5, <1>6, <1>7, <1>8, <1>9, <1>10, <1>11
  DEF LoginNext, LoginStep

\* Whatever interval and lifetime the server names, and however often it says
\* slow_down or answers for a code that has expired, the login is over one
\* exchange and one sleep after its deadline (login_device, auth.py 59-106).
THEOREM LoginAlwaysInTime == LoginSpec => []LoginEndsInTime
<1>1. LoginInTime => LoginEndsInTime  BY DEF LoginInTime
<1> QED  BY <1>1, LoginStarts, LoginKeeps, LoginInTimeStarts, LoginInTimeKept, PTL DEF LoginSpec

-----------------------------------------------------------------------------
(***************************************************************************)
(* WatchEvents                                                             *)
(***************************************************************************)

\* Where the cursors are.
Cursors ==
  /\ saved <= sequence /\ sequence <= current
  /\ watchPc = "save" => sequence = saved + 1
  /\ watchPc \notin {"save", "stopped"} => sequence = saved
  /\ watchPc \in {"save", "handle"} => event = sequence

\* The page in hand goes on where the cursor stands, without a gap.
PageFollows ==
  /\ watchPc \in {"yield", "save", "handle"} =>
       \A e \in page :
         /\ sequence < e /\ e <= current
         /\ \A f \in Events : sequence < f /\ f < e => f \in page
  /\ watchPc \in {"fetch", "check", "returned"} => page = {}

IsHandled(e) == \E i \in DOMAIN handled : handled[i] = e

\* The saved cursor splits the events.
DoneWith ==
  /\ \A e \in 1..saved : e \in lost \/ IsHandled(e) \/ (watchPc = "handle" /\ e = event)
  /\ \A i \in DOMAIN handled :
       handled[i] <= saved /\ (watchPc = "handle" => handled[i] < event)

\* The run's end is in its past; a watch that returned has counted past it.
EndCounted ==
  /\ finished # NoEvent => finished <= current
  /\ watchPc = "returned" => finished # NoEvent /\ finished <= sequence

WatchInv ==
  WatchTypeOK /\ Cursors /\ PageFollows /\ DoneWith /\ EndCounted /\ HandledInOrder

\* A watch begins with nothing read.
LEMMA WatchStarts == WatchInit => WatchInv
<1> SUFFICES ASSUME WatchInit  PROVE WatchInv
  OBVIOUS
<1> USE NoEventAssumption, WatchBoundsAssumption DEF WatchInit, Events
<1>1. WatchTypeOK  BY DEF WatchTypeOK
<1>2. Cursors /\ PageFollows /\ EndCounted  BY DEF Cursors, PageFollows, EndCounted
<1>3. DoneWith /\ HandledInOrder  BY DEF DoneWith, HandledInOrder
<1> QED  BY <1>1, <1>2, <1>3 DEF WatchInv

\* What one more event makes of those handled.
LEMMA OneMoreHandled ==
  ASSUME handled \in Seq(Events), NEW e \in Events, handled' = Append(handled, e)
  PROVE  /\ handled' \in Seq(Events)
         /\ \E i \in DOMAIN handled' : handled'[i] = e
         /\ \A f : IsHandled(f) => \E i \in DOMAIN handled' : handled'[i] = f
         /\ \A i \in DOMAIN handled' :
              \/ i = Len(handled) + 1 /\ handled'[i] = e
              \/ i \in DOMAIN handled /\ handled'[i] = handled[i]
         /\ DOMAIN handled' = 1..(Len(handled) + 1) /\ DOMAIN handled = 1..Len(handled)
<1>1. /\ handled' \in Seq(Events) /\ Len(handled') = Len(handled) + 1
      /\ handled'[Len(handled) + 1] = e
      /\ \A i \in 1..Len(handled) : handled'[i] = handled[i]
  OBVIOUS
<1>2. DOMAIN handled' = 1..(Len(handled) + 1) /\ DOMAIN handled = 1..Len(handled)
      /\ Len(handled) \in Nat
  BY <1>1
<1> QED  BY <1>1, <1>2 DEF IsHandled

\* A step that neither handles an event nor moves the saved cursor leaves what is
\* done with as it was, if no event in hand is let go.
LEMMA StillDone ==
  ASSUME WatchInv, UNCHANGED <<saved, handled>>, lost \subseteq lost',
         watchPc = "handle" => (watchPc' = "handle" /\ UNCHANGED event) \/ event \in lost',
         watchPc' = "handle" => watchPc = "handle" /\ UNCHANGED event
  PROVE  DoneWith' /\ HandledInOrder'
<1>1. DoneWith'
  BY DEF WatchInv, DoneWith, IsHandled
<1> QED  BY <1>1 DEF WatchInv, HandledInOrder

\* Every step keeps the invariant: one case for each action.
LEMMA WatchKeeps ==
  WatchInv /\ [WatchNext]_watchVars => WatchInv'
<1> SUFFICES ASSUME WatchInv, [WatchNext]_watchVars  PROVE WatchInv'
  OBVIOUS
<1>0. /\ WatchTypeOK /\ Cursors /\ PageFollows /\ DoneWith /\ EndCounted
      /\ current \in Nat /\ sequence \in Nat /\ saved \in Nat
  BY WatchBoundsAssumption DEF WatchInv, WatchTypeOK, Events
<1> USE NoEventAssumption, WatchAssumption, WatchBoundsAssumption DEF Events, runVars, appVars
<1>1. CASE FetchPage
  <2>1. WatchTypeOK'  BY <1>0, <1>1 DEF FetchPage, WatchTypeOK
  <2>2. Cursors' /\ EndCounted'  BY <1>0, <1>1 DEF FetchPage, WatchTypeOK, Cursors, EndCounted
  <2>3. PageFollows'  BY <1>0, <1>1 DEF FetchPage, PageFollows
  <2>4. DoneWith' /\ HandledInOrder'  BY <1>0, <1>1, StillDone DEF FetchPage
  <2> QED  BY <2>1, <2>2, <2>3, <2>4 DEF WatchInv
<1>2. CASE Yield
  <2>1. PICK e \in page :
          /\ \A f \in page : e <= f
          /\ sequence' = IF e > sequence THEN e ELSE sequence
          /\ page' = page \ {e} /\ event' = e
    BY <1>2 DEF Yield
  <2>2. e \in Events /\ e > sequence /\ e <= current /\ page \subseteq Events /\ watchPc = "yield"
    BY <1>0, <1>2 DEF Yield, WatchTypeOK, PageFollows
  <2>3. e = sequence + 1
    <3>1. sequence + 1 < e => sequence + 1 \in page
      BY <1>0, <2>2 DEF PageFollows, WatchTypeOK
    <3> QED  BY <1>0, <2>1, <2>2, <3>1
  <2>4. WatchTypeOK'  BY <1>0, <1>2, <2>1, <2>2 DEF Yield, WatchTypeOK
  <2>5. Cursors' /\ EndCounted'
    BY <1>0, <1>2, <2>1, <2>2, <2>3 DEF Yield, WatchTypeOK, Cursors, EndCounted
  <2>6. PageFollows'
    BY <1>0, <1>2, <2>1, <2>2, <2>3 DEF Yield, PageFollows, WatchTypeOK
  <2>7. DoneWith' /\ HandledInOrder'  BY <1>0, <1>2, StillDone DEF Yield
  <2> QED  BY <2>4, <2>5, <2>6, <2>7 DEF WatchInv
<1>3. CASE SaveCursor
  <2>1. WatchTypeOK'  BY <1>0, <1>3 DEF SaveCursor, WatchTypeOK, Cursors
  <2>2. Cursors' /\ EndCounted'  BY <1>0, <1>3 DEF SaveCursor, WatchTypeOK, Cursors, EndCounted
  <2>3. PageFollows'  BY <1>0, <1>3 DEF SaveCursor, PageFollows
  <2>4. saved' = saved + 1 /\ event = saved + 1 /\ watchPc' = "handle" /\ watchPc = "save"
    BY <1>0, <1>3 DEF SaveCursor, Cursors
  <2>5. UNCHANGED <<event, handled, lost>>  BY <1>3 DEF SaveCursor
  <2>6. DoneWith'
    <3>1. \A f \in 1..saved' : f \in lost \/ IsHandled(f) \/ f = event
      BY <1>0, <2>4 DEF DoneWith
    <3>2. \A i \in DOMAIN handled : handled[i] \in Nat /\ handled[i] <= saved
      BY <1>0 DEF DoneWith, WatchTypeOK
    <3>3. \A i \in DOMAIN handled : handled[i] <= saved' /\ handled[i] < event
      BY <1>0, <2>4, <3>2
    <3> QED  BY <2>4, <2>5, <3>1, <3>3 DEF DoneWith, IsHandled
  <2>7. HandledInOrder'  BY <2>5 DEF WatchInv, HandledInOrder
  <2> QED  BY <2>1, <2>2, <2>3, <2>6, <2>7 DEF WatchInv
<1>4. CASE HandleEvent
  <2>1. /\ event \in Events /\ handled \in Seq(Events) /\ handled' = Append(handled, event)
        /\ watchPc = "handle" /\ watchPc' \in {"check", "yield"} /\ UNCHANGED <<saved, lost, event>>
        /\ event = saved
    BY <1>0, <1>4 DEF HandleEvent, WatchTypeOK, Cursors
  <2>2. WatchTypeOK'  BY <1>0, <1>4, <2>1, OneMoreHandled DEF HandleEvent, WatchTypeOK
  <2>3. Cursors' /\ EndCounted'
    BY <1>0, <1>4 DEF HandleEvent, WatchTypeOK, Cursors, EndCounted
  <2>4. PageFollows'  BY <1>0, <1>4 DEF HandleEvent, PageFollows
  <2>5. DoneWith'
    <3>1. \A f \in 1..saved : f \in lost \/ \E i \in DOMAIN handled' : handled'[i] = f
      BY <1>0, <2>1, OneMoreHandled DEF DoneWith
    <3>2. \A i \in DOMAIN handled' : handled'[i] <= saved
      BY <1>0, <2>1, OneMoreHandled DEF DoneWith
    <3> QED  BY <2>1, <3>1, <3>2 DEF DoneWith, IsHandled
  <2>6. HandledInOrder'
    <3> SUFFICES ASSUME NEW i \in DOMAIN handled', NEW j \in DOMAIN handled', i < j
                 PROVE  handled'[i] < handled'[j]
      BY DEF HandledInOrder
    <3>1. i \in DOMAIN handled /\ handled'[i] = handled[i]
      BY <2>1, OneMoreHandled
    <3>2. CASE j \in DOMAIN handled
      <4>1. handled'[j] = handled[j]  BY <2>1, <3>2, OneMoreHandled
      <4> QED  BY <3>1, <3>2, <4>1 DEF WatchInv, HandledInOrder
    <3>3. CASE j \notin DOMAIN handled
      <4>1. handled'[j] = event  BY <2>1, <3>3, OneMoreHandled
      <4> QED  BY <1>0, <2>1, <3>1, <4>1 DEF DoneWith
    <3> QED  BY <3>2, <3>3
  <2> QED  BY <2>2, <2>3, <2>4, <2>5, <2>6 DEF WatchInv
<1>5. CASE CheckRun
  <2>1. WatchTypeOK'  BY <1>0, <1>5 DEF CheckRun, WatchTypeOK
  <2>2. Cursors' /\ EndCounted'
    BY <1>0, <1>5 DEF CheckRun, WatchTypeOK, Cursors, EndCounted, Drained
  <2>3. PageFollows'  BY <1>0, <1>5 DEF CheckRun, PageFollows
  <2>4. DoneWith' /\ HandledInOrder'  BY <1>0, <1>5, StillDone DEF CheckRun
  <2> QED  BY <2>1, <2>2, <2>3, <2>4 DEF WatchInv
<1>6. CASE Stop
  <2>1. WatchTypeOK'  BY <1>0, <1>6 DEF Stop, WatchTypeOK, Cursors
  <2>2. Cursors' /\ EndCounted'  BY <1>0, <1>6 DEF Stop, WatchTypeOK, Cursors, EndCounted
  <2>3. PageFollows'  BY <1>0, <1>6 DEF Stop, PageFollows
  <2>4. DoneWith' /\ HandledInOrder'  BY <1>0, <1>6, StillDone DEF Stop
  <2> QED  BY <2>1, <2>2, <2>3, <2>4 DEF WatchInv
<1>7. CASE Reconnect
  <2>1. WatchTypeOK'  BY <1>0, <1>7 DEF Reconnect, WatchTypeOK
  <2>2. Cursors' /\ EndCounted'  BY <1>0, <1>7 DEF Reconnect, WatchTypeOK, Cursors, EndCounted
  <2>3. PageFollows'  BY <1>0, <1>7 DEF Reconnect, PageFollows
  <2>4. DoneWith' /\ HandledInOrder'  BY <1>0, <1>7, StillDone DEF Reconnect
  <2> QED  BY <2>1, <2>2, <2>3, <2>4 DEF WatchInv
<1>8. CASE RunAppends
  <2>1. /\ current' = current + 1 /\ UNCHANGED <<watchPc, sequence, page, event, saved, handled, lost, stops>>
        /\ finished' = finished \/ (finished = NoEvent /\ finished' = current')
        /\ current < MaxEvents
    BY <1>8 DEF RunAppends
  <2>2. WatchTypeOK'  BY <1>0, <2>1 DEF WatchTypeOK
  <2>3. Cursors' /\ EndCounted'  BY <1>0, <2>1 DEF WatchTypeOK, Cursors, EndCounted
  <2>4. PageFollows'  BY <1>0, <2>1 DEF PageFollows, WatchTypeOK
  <2>5. DoneWith' /\ HandledInOrder'  BY <1>0, <2>1, StillDone
  <2> QED  BY <2>2, <2>3, <2>4, <2>5 DEF WatchInv
<1>9. CASE UNCHANGED watchVars
  <2>1. WatchTypeOK' /\ Cursors' /\ EndCounted' /\ PageFollows'
    BY <1>0, <1>9 DEF watchVars, WatchTypeOK, Cursors, EndCounted, PageFollows
  <2>2. DoneWith' /\ HandledInOrder'  BY <1>0, <1>9, StillDone DEF watchVars
  <2> QED  BY <2>1, <2>2 DEF WatchInv
<1> QED
  BY <1>1, <1>2, <1>3, <1>4, <1>5, <1>6, <1>7, <1>8, <1>9 DEF WatchNext, WatchStep

\* The types of WatchEvents, for any page limit.
THEOREM WatchTypesAlways == WatchSpec => []WatchTypeOK
<1>1. WatchInv => WatchTypeOK  BY DEF WatchInv
<1> QED  BY <1>1, WatchStarts, WatchKeeps, PTL DEF WatchSpec

\* Between the saved cursor and the generator's own is at most the event in hand.
LEMMA WatchCounts == WatchInv => HandledOnce
<1> SUFFICES ASSUME WatchInv  PROVE NothingSkipped
  BY DEF WatchInv, HandledOnce
<1>1. \A e \in 1..sequence : e > saved \/ e \in 1..saved
  BY DEF WatchInv, WatchTypeOK
<1>2. \A e \in 1..sequence : e > saved => watchPc \in {"save", "stopped"}
  BY DEF WatchInv, WatchTypeOK, Cursors
<1> QED  BY <1>1, <1>2 DEF WatchInv, DoneWith, IsHandled, NothingSkipped

\* A watch that returned has saved a cursor past the end of the run.
LEMMA WatchDrains == WatchInv => TerminalIsDrained
<1> SUFFICES ASSUME WatchInv, watchPc = "returned"
             PROVE  /\ finished # NoEvent
                    /\ \A e \in 1..finished : e \in lost \/ IsHandled(e)
  BY DEF TerminalIsDrained, IsHandled
<1>1. finished # NoEvent /\ finished <= sequence /\ sequence = saved
  BY DEF WatchInv, EndCounted, Cursors
<1>2. finished \in Nat /\ saved \in Nat
  BY <1>1 DEF WatchInv, WatchTypeOK, Events
<1>3. \A e \in 1..finished : e \in 1..saved
  BY <1>1, <1>2
<1> QED  BY <1>1, <1>3 DEF WatchInv, DoneWith

\* Across any number of stops and reconnections, no event is handled twice or
\* out of order, and none is skipped but those a stop let go after their cursor
\* was saved: for any page limit and any length of the run (watch_events,
\* client.py 573-592; the loop of docs/sdk.md:71-74).
THEOREM EventsAlwaysOnce == WatchSpec => []HandledOnce
  BY WatchCounts, WatchStarts, WatchKeeps, PTL DEF WatchSpec

\* A watch that returns has given the application every event up to the one
\* that ended the run, however the run went on meanwhile (client.py 588-591).
THEOREM ReturnsAlwaysDrained == WatchSpec => []TerminalIsDrained
  BY WatchDrains, WatchStarts, WatchKeeps, PTL DEF WatchSpec

\* Every step of a watch is one of the stream it implements, or is not seen.
LEMMA WatchStreams ==
  WatchInv /\ [WatchNext]_watchVars => [Stream!Next]_(Stream!vars)
<1> SUFFICES ASSUME WatchInv, [WatchNext]_watchVars  PROVE Stream!Next \/ UNCHANGED Stream!vars
  BY DEF Stream!vars
<1>1. saved \in Nat /\ sequence \in Nat /\ current \in Nat
  BY DEF WatchInv, WatchTypeOK, Events
<1>2. CASE FetchPage \/ Yield \/ Reconnect \/ UNCHANGED watchVars
  BY <1>2 DEF FetchPage, Yield, Reconnect, watchVars, runVars, appVars, Position, Stream!vars
<1>3. CASE SaveCursor
  <2>1. saved' = saved + 1  BY <1>3 DEF SaveCursor, WatchInv, Cursors
  <2>2. Position' = Position  BY <1>1, <1>3, <2>1 DEF SaveCursor, Position
  <2> QED  BY <1>3, <2>2 DEF SaveCursor, runVars, Stream!vars
<1>4. CASE HandleEvent
  <2>1. event = saved /\ saved <= current  BY <1>4 DEF HandleEvent, WatchInv, Cursors
  <2>2. Position = saved - 1 /\ Position' = saved  BY <1>4 DEF HandleEvent, Position
  <2>3. Stream!Come  BY <1>1, <1>4, <2>1, <2>2 DEF HandleEvent, runVars, Stream!Come
  <2>4. handled' = Append(handled, Position') /\ UNCHANGED lost
    BY <1>4, <2>1, <2>2 DEF HandleEvent
  <2> QED  BY <2>3, <2>4 DEF Stream!Handle, Stream!Next
<1>5. CASE CheckRun
  <2>1. Position = saved /\ Position' = saved /\ sequence = saved
    BY <1>5 DEF CheckRun, appVars, Position, WatchInv, Cursors
  <2>2. CASE Drained
    <3>1. finished <= Position /\ finished # NoEvent
      BY <1>1, <2>1, <2>2 DEF Drained, WatchInv, EndCounted, WatchTypeOK, Events
    <3> QED  BY <1>5, <2>1, <2>2, <3>1 DEF CheckRun, runVars, appVars, Stream!End, Stream!Next
  <2>3. CASE ~Drained
    BY <1>5, <2>1, <2>3 DEF CheckRun, runVars, appVars, Stream!vars
  <2> QED  BY <2>2, <2>3
<1>6. CASE Stop
  <2>1. CASE watchPc = "handle"
    <3>1. event = saved /\ saved <= current  BY <2>1 DEF WatchInv, Cursors
    <3>2. Position = saved - 1 /\ Position' = saved  BY <1>6, <2>1 DEF Stop, Position
    <3>3. Stream!Come  BY <1>1, <1>6, <2>1, <3>1, <3>2 DEF Stop, runVars, Stream!Come
    <3>4. lost' = lost \cup {Position'} /\ UNCHANGED handled
      BY <1>6, <2>1, <3>1, <3>2 DEF Stop
    <3> QED  BY <3>3, <3>4 DEF Stream!Lose, Stream!Next
  <2>2. CASE watchPc # "handle"
    BY <1>6, <2>2 DEF Stop, runVars, Position, Stream!vars
  <2> QED  BY <2>1, <2>2
<1>7. CASE RunAppends
  <2>1. Stream!Happen
    BY <1>7 DEF RunAppends, appVars, Position, Stream!Happen
  <2> QED  BY <2>1 DEF Stream!Next
<1> QED  BY <1>2, <1>3, <1>4, <1>5, <1>6, <1>7 DEF WatchNext, WatchStep

LEMMA StreamStarts == WatchInit => Stream!Init
  BY DEF WatchInit, Stream!Init, Position

\* To its application a watch is one stream of events, each handled or lost in
\* its turn, that ends when the run has ended and its last event has come: for
\* any page limit, length of the run and number of reconnections (watch_events,
\* client.py 573-592; the loop of docs/sdk.md:71-74).
THEOREM WatchAlwaysStream == WatchSpec => WatchIsStream
  BY StreamStarts, WatchStreams, WatchStarts, WatchKeeps, PTL
     DEF WatchSpec, WatchIsStream, Stream!Spec

-----------------------------------------------------------------------------
(***************************************************************************)
(* The CLI                                                                 *)
(***************************************************************************)

\* A process runs one command: the login and the wait share the clock, so that
\* each keeps its invariant until another command is chosen, and has not begun
\* from then on.
CliInv ==
  /\ IF argv \in {"none", "login"} THEN LoginInv /\ LoginInTime
     ELSE loginPc = "start" /\ loginAnswer = "none"
  /\ IF argv \in {"none", "tasks wait"} THEN WaitInv /\ InTime
     ELSE waitPc = "start" /\ waitAnswer = "none"
  /\ argv = "none" => loginPc = "start" /\ waitPc = "start"
  /\ WatchInv
  /\ AllInv

LEMMA CliStarts == CliInit => CliInv
<1> SUFFICES ASSUME CliInit  PROVE CliInv
  OBVIOUS
<1>1. /\ LoginInv /\ LoginInTime /\ WaitInv /\ InTime /\ WatchInv /\ AllInv
      /\ argv = "none"
  BY LoginStarts, LoginInTimeStarts, WaitStarts, InTimeStarts, WatchStarts, AllStarts
  DEF CliInit
<1>2. loginPc = "start" /\ waitPc = "start"
  BY DEF CliInit, LoginInit, WaitInit
<1> QED  BY <1>1, <1>2 DEF CliInv

\* The invariants are about the variables of their own component.
LEMMA LoginUntouched ==
  ASSUME LoginInv, LoginInTime, UNCHANGED loginVars  PROVE LoginInv' /\ LoginInTime'
  BY LoginKeeps, LoginInTimeKept
LEMMA WaitUntouched ==
  ASSUME WaitInv, InTime, UNCHANGED waitVars  PROVE WaitInv' /\ InTime'
  BY WaitKeeps, InTimeKept
LEMMA WatchUntouched == ASSUME WatchInv, UNCHANGED watchVars PROVE WatchInv'
  BY WatchKeeps
LEMMA CallsUntouched == ASSUME AllInv, UNCHANGED vars PROVE AllInv'
  BY AllKept

LEMMA CliKeeps ==
  CliInv /\ [CliNext]_cliVars => CliInv'
<1> SUFFICES ASSUME CliInv, [CliNext]_cliVars  PROVE CliInv'
  OBVIOUS
<1>1. CASE Parse \/ UNCHANGED cliVars
  <2>1. UNCHANGED loginVars /\ UNCHANGED waitVars
       /\ UNCHANGED watchVars /\ UNCHANGED vars
    BY <1>1 DEF Parse, cliVars, loginOnly, waitOnly, loginVars, waitVars
  <2>2. WatchInv' /\ AllInv'  BY <2>1, WatchUntouched, CallsUntouched DEF CliInv
  <2>3. argv = "none" \/ argv' = argv
    BY <1>1 DEF Parse, cliVars
  <2>4. LoginInv /\ LoginInTime => LoginInv' /\ LoginInTime'  BY <2>1, LoginUntouched
  <2>5. WaitInv /\ InTime => WaitInv' /\ InTime'  BY <2>1, WaitUntouched
  <2>6. UNCHANGED <<loginPc, loginAnswer, waitPc, waitAnswer>>
    BY <2>1 DEF loginVars, loginClientVars, waitVars
  <2>7. argv = "none" => loginAnswer = "none" /\ waitAnswer = "none"
    BY DEF CliInv, LoginInv, GrantKnown, WaitInv, EndKnown
  <2> QED  BY <2>2, <2>3, <2>4, <2>5, <2>6, <2>7 DEF CliInv
<1>2. CASE Login
  <2>1. argv = "login" /\ argv' = "login" /\ LoginNext /\ UNCHANGED watchVars /\ UNCHANGED vars
       /\ UNCHANGED <<waitPc, waitAnswer>>
    BY <1>2 DEF Login, waitOnly
  <2> QED  BY <2>1, LoginKeeps, LoginInTimeKept, WatchUntouched, CallsUntouched DEF CliInv
<1>3. CASE Wait
  <2>1. /\ argv = "tasks wait" /\ argv' = "tasks wait" /\ WaitNext
        /\ UNCHANGED watchVars /\ UNCHANGED vars
        /\ UNCHANGED <<loginPc, loginAnswer>>
    BY <1>3 DEF Wait, loginOnly, loginClientVars
  <2> QED  BY <2>1, WaitKeeps, InTimeKept, WatchUntouched, CallsUntouched DEF CliInv
<1>4. CASE Watch
  <2>1. /\ argv = "runs watch" /\ argv' = "runs watch" /\ WatchNext /\ UNCHANGED vars
        /\ UNCHANGED <<loginPc, loginAnswer, waitPc, waitAnswer>>
    BY <1>4 DEF Watch, loginOnly, waitOnly, loginClientVars
  <2> QED  BY <2>1, WatchKeeps, CallsUntouched DEF CliInv
<1>5. CASE OneCall
  <2>1. /\ argv = "request" /\ argv' = "request" /\ Next /\ UNCHANGED watchVars
        /\ UNCHANGED <<loginPc, loginAnswer, waitPc, waitAnswer>>
    BY <1>5 DEF OneCall, loginOnly, waitOnly, loginClientVars
  <2> QED  BY <2>1, WatchUntouched, AllKept DEF CliInv
<1> QED  BY <1>1, <1>2, <1>3, <1>4, <1>5 DEF CliNext

\* Whichever command a process of the CLI runs, its polls keep the server's
\* pace, it loses no grant, reports no wait untruthfully, ends both in time, its
\* watch handles every event once and returns drained, and a call of the client
\* is carried out once, is answered truly and retries as it was asked to: main
\* dispatches one command, and the others have not begun (__main__.py, main).
THEOREM CommandsAlwaysTrue ==
  CliSpec => [](/\ PollsAtPace /\ GrantIsUsed /\ LoginEndsInTime
                /\ WaitIsTruthful /\ WaitEndsInTime
                /\ HandledOnce /\ TerminalIsDrained
                /\ KeyedOnce /\ AnswersAreTrue /\ RetriesAsAsked)
<1>1. LoginInv /\ LoginInTime => PollsAtPace /\ GrantIsUsed /\ LoginEndsInTime
  BY LoginPaces DEF LoginInv, LoginInTime
<1>2. loginPc = "start" /\ loginAnswer = "none" =>
        PollsAtPace /\ GrantIsUsed /\ LoginEndsInTime
  BY DEF PollsAtPace, GrantIsUsed, LoginEndsInTime
<1>3. WaitInv /\ InTime => WaitIsTruthful /\ WaitEndsInTime
  BY InTimeEnds DEF WaitInv
<1>4. waitPc = "start" /\ waitAnswer = "none" => WaitIsTruthful /\ WaitEndsInTime
  BY DEF WaitIsTruthful, WaitEndsInTime, Terminal
<1>5. WatchInv => HandledOnce /\ TerminalIsDrained
  BY WatchCounts, WatchDrains
<1>6. CliInv => /\ PollsAtPace /\ GrantIsUsed /\ LoginEndsInTime
                /\ WaitIsTruthful /\ WaitEndsInTime
                /\ HandledOnce /\ TerminalIsDrained
                /\ KeyedOnce /\ AnswersAreTrue /\ RetriesAsAsked
  BY <1>1, <1>2, <1>3, <1>4, <1>5, CallsAreTrue DEF CliInv
<1> QED  BY <1>6, CliStarts, CliKeeps, PTL DEF CliSpec

\* Whichever command runs, a login and a wait are over when their last round is
\* (auth.py 62, __main__.py 326-341, submit of examples/task_workflow.py).
THEOREM PollingAlwaysEndsInTime == CliSpec => []PollingEndsInTime
<1>1. LoginInv /\ LoginInTime => LoginEndsInTime  BY DEF LoginInTime
<1>2. loginPc = "start" => LoginEndsInTime  BY DEF LoginEndsInTime
<1>3. WaitInv /\ InTime => WaitEndsInTime  BY InTimeEnds DEF WaitInv
<1>4. waitPc = "start" => WaitEndsInTime  BY DEF WaitEndsInTime
<1>5. CliInv => PollingEndsInTime
  BY <1>1, <1>2, <1>3, <1>4 DEF CliInv, PollingEndsInTime
<1> QED  BY <1>5, CliStarts, CliKeeps, PTL DEF CliSpec

\* Whichever command runs, its watch is one stream of events: the steps of the
\* other commands are not seen by it (__main__.py 531-535).
THEOREM CommandsAlwaysStream == CliSpec => WatchIsStream
<1>1. CliInit => Stream!Init  BY StreamStarts DEF CliInit
<1>2. CliInv /\ [CliNext]_cliVars => [Stream!Next]_(Stream!vars)
  <2> SUFFICES ASSUME CliInv, [CliNext]_cliVars  PROVE [Stream!Next]_(Stream!vars)
    OBVIOUS
  <2>1. WatchInv  BY DEF CliInv
  <2>2. [WatchNext]_watchVars
    BY DEF CliNext, Parse, Login, Wait, Watch, OneCall, cliVars
  <2> QED  BY <2>1, <2>2, WatchStreams
<1> QED
  BY <1>1, <1>2, CliStarts, CliKeeps, PTL DEF CliSpec, WatchIsStream, Stream!Spec

\* Whichever command runs, a call of its client comes to its end by the steps it
\* takes (client.py, _request).
THEOREM CommandsAlwaysBounded == CliSpec => CallsAreBounded
<1>1. CliInv /\ [CliNext]_cliVars =>
        [\A c \in Calls : pc[c] # "idle" =>
           /\ StepsLeft(c)' \in 0..StepsLeft(c)
           /\ pc'[c] # pc[c] => StepsLeft(c)' # StepsLeft(c)]_vars
  <2> SUFFICES ASSUME CliInv, [CliNext]_cliVars
               PROVE  [\A c \in Calls : pc[c] # "idle" =>
                         /\ StepsLeft(c)' \in 0..StepsLeft(c)
                         /\ pc'[c] # pc[c] => StepsLeft(c)' # StepsLeft(c)]_vars
    OBVIOUS
  <2>1. AllInv /\ [Next]_vars
    BY DEF CliInv, CliNext, Parse, Login, Wait, Watch, OneCall, cliVars
  <2> QED  BY <2>1, CallsShorten
<1> QED  BY <1>1, CliStarts, CliKeeps, PTL DEF CliSpec, CallsAreBounded

\* Whichever command runs, the call of its client is served as if its job were
\* carried out in one step, at most once (client.py, _request).
THEOREM CommandsAlwaysServedOnce == CliSpec => CallsAreServedOnce
<1>1. CliInit => Once!Init /\ OnceInv  BY OnceBegins, OnceStarts DEF CliInit
<1>2. CliInv /\ [CliNext]_cliVars => AllInv /\ [Next]_vars
  BY DEF CliInv, CliNext, Parse, Login, Wait, Watch, OneCall, cliVars
<1>3. CliInv /\ OnceInv /\ [CliNext]_cliVars => OnceInv'
  BY <1>2, IdleKept, RefusedKept DEF OnceInv
<1>4. CliInv /\ OnceInv /\ [CliNext]_cliVars => [Once!Next]_(Once!vars)
  BY <1>2, OnceSteps
<1> QED
  BY <1>1, <1>3, <1>4, CliStarts, CliKeeps, PTL
  DEF CliSpec, CallsAreServedOnce, Once!Spec

\* The types of a login and of a wait are kept by each other's steps, which
\* move the clock alone.
LEMMA ClockKept ==
  ASSUME CliInv, LoginTypeOK, WaitTypeOK, [CliNext]_cliVars
  PROVE  LoginTypeOK' /\ WaitTypeOK'
<1>1. \/ Login /\ LoginInv
      \/ Wait /\ WaitInv
      \/ UNCHANGED now /\ UNCHANGED loginVars /\ UNCHANGED waitVars
  BY DEF CliNext, CliInv, Parse, Login, Wait, Watch, OneCall, cliVars, loginOnly, waitOnly,
         loginVars, waitVars
<1>2. CASE Login /\ LoginInv
  <2>1. LoginTypeOK'  BY <1>2, LoginKeeps DEF Login, LoginInv
  <2>2. UNCHANGED waitOnly /\ now' \in Nat  BY <1>2, <2>1 DEF Login, LoginTypeOK
  <2> QED  BY <2>1, <2>2 DEF waitOnly, WaitTypeOK
<1>3. CASE Wait /\ WaitInv
  <2>1. WaitTypeOK'  BY <1>3, WaitKeeps DEF Wait, WaitInv
  <2>2. UNCHANGED loginOnly /\ now' \in Nat  BY <1>3, <2>1 DEF Wait, WaitTypeOK
  <2> QED  BY <2>1, <2>2 DEF loginOnly, loginClientVars, loginServerVars, LoginTypeOK
<1>4. CASE UNCHANGED now /\ UNCHANGED loginVars /\ UNCHANGED waitVars
  BY <1>4 DEF loginVars, loginClientVars, loginServerVars, waitVars, LoginTypeOK, WaitTypeOK
<1> QED  BY <1>1, <1>2, <1>3, <1>4

\* Whichever command runs, every variable of the four components has its type:
\* no attempt beyond max_retries, no sleep of a call longer than a minute, no
\* cursor that is not a number, for any times, pages, runs and retries
\* (__main__.py, main; client.py, _request and watch_events).
THEOREM CommandTypesAlways == CliSpec => []CliTypeOK
<1>1. CliInit => LoginTypeOK /\ WaitTypeOK
  BY LoginStarts, WaitStarts DEF CliInit, LoginInv, WaitInv
<1>2. CliInv => WatchTypeOK /\ TypeOK
  BY DEF CliInv, WatchInv, AllInv, PaceInv
<1>3. LoginTypeOK /\ WaitTypeOK /\ WatchTypeOK /\ TypeOK => CliTypeOK
  BY DEF CliTypeOK
<1> QED  BY <1>1, <1>2, <1>3, CliStarts, CliKeeps, ClockKept, PTL DEF CliSpec
=============================================================================
