----------------------------- MODULE DeviceLogin -----------------------------
(***************************************************************************)
(* login_device and login_service_token of cli/src/geyser_cli/auth.py: one *)
(* login polls the token endpoint at the pace it is told, until the person *)
(* at the browser has decided, the code has expired, or something fails.   *)
(*                                                                         *)
(* now is a clock in seconds.  Time passes while the browser opens, while  *)
(* an exchange is under way and while the login sleeps; its own steps take *)
(* none.  The server keeps an expiry and a pace of its own: it starts the  *)
(* clock before the login does, and may slow the login down.               *)
(***************************************************************************)
EXTENDS Clock

CONSTANTS
  Intervals,     \* what the server may name as its polling interval
  Lifetimes,     \* what it may name as expires_in
  OpenTime,      \* how long notify and the browser take, at most
  Timeout,       \* the client's timeout of an exchange
  MaxSlowDowns   \* bound on the times the server says slow_down

ASSUME LoginAssumption ==
  /\ Intervals \subseteq Nat /\ Lifetimes \subseteq Nat
  /\ OpenTime \in Nat /\ Timeout \in Nat /\ MaxSlowDowns \in Nat

VARIABLES
  loginPc,
  device,      \* the answer of the device endpoint: when it came, interval, lifetime
  deadline, interval, wake,
  sentAt,      \* when the exchange under way began
  loginReply,       \* what the token endpoint answered, until it is received
  stored,      \* the token in the credential store: "device", "service" or "none"
  loginAnswer, \* how the command ended
  grant,       \* server: state and expiry of the device code, and its pace
  lastPoll,    \* server: when it handled the last poll
  slowDowns,   \* bound
  approvedAt   \* history: when the person approved

loginServerVars == <<grant, lastPoll, slowDowns, approvedAt>>
loginClientVars == <<loginPc, device, deadline, interval, wake, sentAt, stored, loginAnswer>>
loginVars  == <<now, loginReply, loginClientVars, loginServerVars>>

SlowDownStep == 5
NoDevice == [at |-> 0, interval |-> 0, lifetime |-> 0]

-----------------------------------------------------------------------------
LoginInit ==
  /\ now = 0 /\ loginPc = "start"
  /\ device = NoDevice /\ deadline = 0 /\ interval = 1 /\ wake = 0 /\ sentAt = 0
  /\ loginReply = "none" /\ stored = "none" /\ loginAnswer = "none"
  /\ grant = [state |-> "none", expires |-> 0, pace |-> 0]
  /\ lastPoll = Never /\ slowDowns = 0 /\ approvedAt = Never

LoginAt(where) == loginPc' = where /\ UNCHANGED loginAnswer
LoginEnd(how)    == loginPc' = "done" /\ loginAnswer' = how

\* The device endpoint issues a code, or the request fails.
RequestCode ==
  /\ loginPc = "start"
  /\ \/ \E i \in Intervals, e \in Lifetimes :
          /\ device' = [at |-> now, interval |-> i, lifetime |-> e]
          /\ grant' = [state |-> "pending", expires |-> now + e, pace |-> i]
          /\ LoginAt("opening")
     \/ /\ LoginEnd("failed")
        /\ UNCHANGED <<device, grant>>
  /\ UNCHANGED <<now, loginReply, deadline, interval, wake, sentAt, stored,
                 lastPoll, slowDowns, approvedAt>>

\* The person has been told, the browser is open.
BeginPolling ==
  /\ loginPc = "opening"
  /\ deadline' = now + device.lifetime
  /\ interval' = Larger(1, device.interval)
  /\ LoginAt("poll")
  /\ UNCHANGED <<now, loginReply, device, wake, sentAt, stored, loginServerVars>>

\* Mutant: the code is polled for until after it has expired.
PollAtDeadline ==
  /\ loginPc = "poll"
  /\ IF now <= deadline
     THEN LoginAt("exchange") /\ sentAt' = now
     ELSE LoginEnd("expired") /\ UNCHANGED sentAt
  /\ UNCHANGED <<now, loginReply, device, deadline, interval, wake, stored, loginServerVars>>

Poll ==
  /\ loginPc = "poll"
  /\ IF now < deadline
     THEN LoginAt("exchange") /\ sentAt' = now
     ELSE LoginEnd("expired") /\ UNCHANGED sentAt
  /\ UNCHANGED <<now, loginReply, device, deadline, interval, wake, stored, loginServerVars>>

LoginSleep(seconds) == wake' = now + seconds /\ LoginAt("sleeping")

\* Mutant: slow_down is waited out once and then forgotten.
ReceiveForgetsPace ==
  /\ loginPc = "exchange" /\ loginReply # "none"
  /\ loginReply' = "none"
  /\ CASE loginReply = "token"     -> LoginAt("save") /\ UNCHANGED <<interval, wake>>
       [] loginReply = "pending"   -> LoginSleep(interval) /\ UNCHANGED interval
       [] loginReply = "slow_down" -> LoginSleep(interval + SlowDownStep) /\ UNCHANGED interval
       [] OTHER               -> LoginEnd("failed") /\ UNCHANGED <<interval, wake>>
  /\ UNCHANGED <<now, device, deadline, sentAt, stored, loginServerVars>>

\* Mutant: every pending answer slows the login down.
ReceiveSlowsAlways ==
  /\ loginPc = "exchange" /\ loginReply # "none"
  /\ loginReply' = "none"
  /\ CASE loginReply = "token" -> LoginAt("save") /\ UNCHANGED <<interval, wake>>
       [] loginReply \in {"pending", "slow_down"} ->
            /\ interval' = interval + SlowDownStep
            /\ LoginSleep(interval')
       [] OTHER -> LoginEnd("failed") /\ UNCHANGED <<interval, wake>>
  /\ UNCHANGED <<now, device, deadline, sentAt, stored, loginServerVars>>

\* The answer is received.  A token for another origin than that of the
\* sign-in ends the login, as every error but the two of the protocol does.
Receive ==
  /\ loginPc = "exchange" /\ loginReply # "none"
  /\ loginReply' = "none"
  /\ CASE loginReply = "token"     -> LoginAt("save") /\ UNCHANGED <<interval, wake>>
       [] loginReply = "pending"   -> LoginSleep(interval) /\ UNCHANGED interval
       [] loginReply = "slow_down" -> /\ interval' = interval + SlowDownStep
                                 /\ LoginSleep(interval')
       [] OTHER               -> LoginEnd("failed") /\ UNCHANGED <<interval, wake>>
  /\ UNCHANGED <<now, device, deadline, sentAt, stored, loginServerVars>>

\* The exchange fails or times out: httpx raises, and the login is over.
Break ==
  /\ loginPc = "exchange"
  /\ LoginEnd("failed")
  /\ loginReply' = "none"
  /\ UNCHANGED <<now, device, deadline, interval, wake, sentAt, stored, loginServerVars>>

\* store.save, which raises when neither keychain nor file takes the token.
Save ==
  /\ loginPc \in {"save", "save-service"}
  /\ \/ /\ stored' = IF loginPc = "save" THEN "device" ELSE "service"
        /\ LoginEnd("authenticated")
     \/ LoginEnd("failed") /\ UNCHANGED stored
  /\ UNCHANGED <<now, loginReply, device, deadline, interval, wake, sentAt, loginServerVars>>

LoginWakes ==
  /\ loginPc = "sleeping" /\ now >= wake
  /\ LoginAt("poll")
  /\ UNCHANGED <<now, loginReply, device, deadline, interval, wake, sentAt, stored, loginServerVars>>

\* login --service-token-stdin: blank input is refused, a token is saved.
LoginServiceToken ==
  /\ loginPc = "start"
  /\ LoginAt("save-service") \/ LoginEnd("failed")
  /\ UNCHANGED <<now, loginReply, device, deadline, interval, wake, sentAt, stored, loginServerVars>>

-----------------------------------------------------------------------------
\* The token endpoint handles the poll under way: a code is good for one token.
\* It may be late to notice that a code nobody has decided on has expired.
HandlePoll ==
  /\ loginPc = "exchange" /\ loginReply = "none"
  /\ lastPoll' = now
  /\ \/ /\ now >= grant.expires \/ grant.state \in {"denied", "spent"}
        /\ loginReply' = "refused"
        /\ UNCHANGED <<grant, slowDowns>>
     \/ /\ now < grant.expires /\ grant.state = "approved"
        /\ loginReply' \in {"token", "elsewhere"}
        /\ grant' = [grant EXCEPT !.state = "spent"]
        /\ UNCHANGED slowDowns
     \/ /\ grant.state = "pending"
        /\ loginReply' = "pending"
        /\ UNCHANGED <<grant, slowDowns>>
     \/ /\ grant.state = "pending" /\ slowDowns < MaxSlowDowns
        /\ loginReply' = "slow_down"
        /\ grant' = [grant EXCEPT !.pace = @ + SlowDownStep]
        /\ slowDowns' = slowDowns + 1
     \/ loginReply' = "error" /\ UNCHANGED <<grant, slowDowns>>
  /\ UNCHANGED <<now, loginClientVars, approvedAt>>

\* The person at the browser approves or denies.
Decide ==
  /\ grant.state = "pending" /\ now < grant.expires
  /\ \/ /\ grant' = [grant EXCEPT !.state = "approved"]
        /\ approvedAt' = now
     \/ /\ grant' = [grant EXCEPT !.state = "denied"]
        /\ UNCHANGED approvedAt
  /\ UNCHANGED <<now, loginReply, loginClientVars, lastPoll, slowDowns>>

LoginTick ==
  /\ \/ loginPc = "opening"  /\ now < device.at + OpenTime
     \/ loginPc = "exchange" /\ now < sentAt + Timeout
     \/ loginPc = "sleeping" /\ now < wake
  /\ now' = now + 1
  /\ UNCHANGED <<loginReply, loginClientVars, loginServerVars>>

-----------------------------------------------------------------------------
LoginStep ==
  \/ RequestCode \/ BeginPolling \/ Poll \/ Receive \/ Break \/ Save \/ LoginWakes
  \/ LoginServiceToken

LoginNext == LoginStep \/ HandlePoll \/ Decide \/ LoginTick

\* The login goes on, and time passes: an exchange is answered or times out, a
\* sleep ends.  Nothing is assumed of the server or of the person.
LoginFairness == WF_loginVars(LoginStep) /\ WF_loginVars(LoginTick)

LoginSpec == LoginInit /\ [][LoginNext]_loginVars /\ LoginFairness

-----------------------------------------------------------------------------
LoginTypeOK ==
  /\ now \in Nat /\ deadline \in Nat /\ interval \in Nat /\ wake \in Nat /\ sentAt \in Nat
  /\ loginPc \in {"start", "opening", "poll", "exchange", "sleeping", "save",
                  "save-service", "done"}
  /\ device \in {NoDevice} \cup [at : Nat, interval : Intervals, lifetime : Lifetimes]
  /\ loginReply \in {"none", "token", "elsewhere", "pending", "slow_down", "refused", "error"}
  /\ stored \in {"none", "device", "service"}
  /\ loginAnswer \in {"none", "authenticated", "failed", "expired"}
  /\ grant \in [state : {"none", "pending", "approved", "denied", "spent"},
                expires : Nat, pace : Nat]
  /\ lastPoll \in Moments /\ approvedAt \in Moments
  /\ slowDowns \in 0..MaxSlowDowns

\* RFC 8628, which auth.py follows: whenever a poll reaches the server, its
\* current pace has gone by since the poll before, however the server raised
\* that pace meanwhile and however long the exchanges took.
PollsAtPace ==
  loginPc = "exchange" /\ loginReply = "none" /\ lastPoll # Never =>
    now - lastPoll >= grant.pace

\* A grant is not lost to the login's own pacing.  A login that reports the
\* code expired was not handed a token, and the person had not approved, or
\* only so late that no further poll fitted before the deadline; a login that
\* reports success has stored what it was handed.
GrantIsUsed ==
  /\ loginAnswer = "expired" =>
       /\ grant.state # "spent"
       /\ approvedAt # Never =>
            approvedAt + Timeout + grant.pace + 1 >= deadline
  /\ loginAnswer = "authenticated" =>
       stored = "service" \/ (stored = "device" /\ grant.state = "spent")

\* However often the server slows it down, a login is over one exchange and one
\* sleep after its code has expired: it goes on while time.monotonic() < deadline
\* (auth.py 62), and not on what the server says of the code.
LoginEndsInTime ==
  loginPc \notin {"start", "opening"} => now < deadline + Timeout + interval

\* Every login ends, whatever the server answers and the person does.
LoginEnds == loginPc \in {"opening", "poll"} ~> loginPc = "done"
=============================================================================
