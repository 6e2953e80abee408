---------------------------- MODULE ClientRequest ---------------------------
(***************************************************************************)
(* _request of the two HTTP clients in sdk/python/src/geyser_sdk/client.py *)
(* and the retries, keys and If-Match versions of the operations built on  *)
(* it, against a server and a network that may delay a request past its    *)
(* timeout, lose an answer, or turn a request away.                        *)
(*                                                                         *)
(* Every method of a client is one call of _request, so a call is an       *)
(* element of Calls: a coroutine or a thread of an application.  Two calls *)
(* with one key are an application that repeats an operation.              *)
(* Delays are in tenths of a second.                                       *)
(***************************************************************************)
EXTENDS Naturals, FiniteSets

CONSTANTS
  Calls,
  AsyncCalls,   \* those made through AsyncGeyserClient, others are synchronous
  Keys, Bodies, \* idempotency keys and request bodies
  MaxRetries,   \* max_retries of the client
  RetryAfters,  \* what a Retry-After header may ask for, 0 when there is none
  MaxVersion,   \* bound: versions of the resource the requests are about
  None

ASSUME CallsAssumption == AsyncCalls \subseteq Calls
ASSUME RetriesAssumption == MaxRetries \in 0..8
ASSUME DelaysAssumption == RetryAfters \subseteq Nat
ASSUME VersionsAssumption == MaxVersion \in Nat

VARIABLES
  pc, op, attempt,
  response,  \* the local variable response: the last one received, or None
  delay,     \* how long the call sleeps before the next attempt
  told,      \* what the application was given
  asked,     \* history: the Retry-After of the answer to the current attempt
  reply,     \* the answer travelling back on the open connection, or None
  requests,  \* the attempts sent that the server has not handled
  version,   \* server: version of the resource
  recorded,  \* server: the requests remembered by their key
  applied    \* server: the attempts that changed the resource

callVars   == <<pc, op, attempt, response, delay, told, asked>>
netVars    == <<reply, requests>>
serverVars == <<version, recorded, applied>>
vars == <<callVars, netVars, serverVars>>

-----------------------------------------------------------------------------
Versions == 0..MaxVersion

\* What the methods of the clients ask for: reads; submissions, promotions and
\* uploads, whose key is the digest of the content; decisions, cancellations,
\* evaluations, forks and replays, whose key goes with the run version they
\* expect; revoke_package.
Operation ==
  [method : {"GET"}, key : {None}, body : {None}, match : {None}]
  \cup [method : {"POST"}, key : Keys, body : Bodies, match : {None} \cup Versions]
  \cup [method : {"DELETE"}, key : {None}, body : {None}, match : Versions]

\* An answer: retryable statuses are "busy", 409 and 412 are "conflict", every
\* other error is "denied".  parses says whether the body is what was expected.
Reply == [status : {"ok", "conflict", "denied"}, after : {0}, parses : BOOLEAN]
         \cup [status : {"busy"}, after : RetryAfters, parses : BOOLEAN]

Outcomes == {"ok", "busy", "conflict", "denied", "invalid", "unreachable"}

ASSUME NoneAssumption ==
  None \notin Keys \cup Bodies \cup Nat \cup Operation \cup Reply \cup Outcomes

Attempts == 0..MaxRetries

\* Mutant: a request is retried whatever it does.
RetryAlwaysAllowed(o) == TRUE

RetryAllowed(o) == o.method = "GET" \/ o.key # None

\* Mutant: one attempt too many.
LastAttemptOffByOne(c) == attempt[c] > (IF RetryAllowed(op[c]) THEN MaxRetries ELSE 0)

LastAttempt(c) == attempt[c] >= (IF RetryAllowed(op[c]) THEN MaxRetries ELSE 0)

\* Mutant: each attempt draws a key of its own.
FreshKeyPerAttempt(c, n) ==
  [op[c] EXCEPT !.key = IF @ = None THEN None ELSE <<@, n>>]

\* What attempt n of a call puts on the wire: headers and body are made once,
\* before the loop.
Request(c, n) == op[c]

\* _decode: the model, a ProblemError, or a ResponseValidationError.
Decode(r) == IF r.parses THEN r.status ELSE "invalid"

Backoff(n) == 2 ^ n
Longer(x, y) == IF x > y THEN x ELSE y

\* Mutant: a longer Retry-After is cut to a minute instead of returned.
RetryDelayCapped(r, n) ==
  LET d == Longer(Backoff(n), IF r = None THEN 0 ELSE r.after)
  IN  IF d > 600 THEN 600 ELSE d

RetryDelay(r, n) == Longer(Backoff(n), IF r = None THEN 0 ELSE r.after)

\* A response kept from an earlier attempt may carry its Retry-After as a
\* date, which has come closer by now.
Aged(r) ==
  IF r = None THEN {None}
  ELSE {[r EXCEPT !.after = a] : a \in {x \in RetryAfters : x <= r.after}}

-----------------------------------------------------------------------------
Init ==
  /\ pc = [c \in Calls |-> "idle"]
  /\ op = [c \in Calls |-> None]
  /\ attempt = [c \in Calls |-> 0]
  /\ response = [c \in Calls |-> None]
  /\ delay = [c \in Calls |-> 0]
  /\ told = [c \in Calls |-> None]
  /\ asked = [c \in Calls |-> 0]
  /\ reply = [c \in Calls |-> None]
  /\ requests = {}
  /\ version = 0
  /\ recorded = {}
  /\ applied = {}

\* An application calls a method, naming a version it has read, if any.
Start(c, o) ==
  /\ pc[c] = "idle"
  /\ o.match # None => o.match <= version
  /\ pc' = [pc EXCEPT ![c] = "send"]
  /\ op' = [op EXCEPT ![c] = o]
  /\ UNCHANGED <<attempt, response, delay, told, asked, netVars, serverVars>>

\* The request of this attempt leaves; the call waits for its answer.
Send(c) ==
  /\ pc[c] = "send"
  /\ pc' = [pc EXCEPT ![c] = "wait"]
  /\ asked' = [asked EXCEPT ![c] = 0]
  /\ requests' = requests \cup {[call |-> c, attempt |-> attempt[c]]}
  /\ UNCHANGED <<op, attempt, response, delay, told, reply, serverVars>>

\* The call ends and gives its caller what it decoded, or a TransportError.
Tell(c, outcome) ==
  /\ pc' = [pc EXCEPT ![c] = "done"]
  /\ told' = [told EXCEPT ![c] = outcome]
  /\ UNCHANGED delay

\* After an attempt that was not the last: sleep, or return what is held
\* when the sleep would be longer than a minute.
Pace(c, held) ==
  LET d == RetryDelay(held, attempt[c])
  IN  IF d > 600 /\ held # None THEN Tell(c, Decode(held))
      ELSE /\ pc' = [pc EXCEPT ![c] = "sleep"]
           /\ delay' = [delay EXCEPT ![c] = d]
           /\ UNCHANGED told

\* The answer to this attempt arrives.
Answered(c) ==
  LET r == reply[c] IN
  /\ pc[c] = "wait"
  /\ r # None
  /\ reply' = [reply EXCEPT ![c] = None]
  /\ response' = [response EXCEPT ![c] = r]
  /\ asked' = [asked EXCEPT ![c] = r.after]
  /\ IF r.status # "busy" \/ LastAttempt(c) THEN Tell(c, Decode(r)) ELSE Pace(c, r)
  /\ UNCHANGED <<op, attempt, requests, serverVars>>

\* Mutant: after a transport error the answer still held is returned.
BrokenAnswersHeld(c) ==
  /\ pc[c] = "wait"
  /\ reply' = [reply EXCEPT ![c] = None]
  /\ IF response[c] # None THEN Tell(c, Decode(response[c]))
     ELSE IF LastAttempt(c) THEN Tell(c, "unreachable") ELSE Pace(c, None)
  /\ UNCHANGED <<op, attempt, response, asked, requests, serverVars>>

\* The transport fails or times out; a request already sent may still arrive.
\* The asynchronous client still holds the response of an earlier attempt.
Broken(c) ==
  /\ pc[c] = "wait"
  /\ reply' = [reply EXCEPT ![c] = None]
  /\ IF LastAttempt(c) THEN Tell(c, "unreachable")
     ELSE \E held \in Aged(response[c]) : Pace(c, held)
  /\ UNCHANGED <<op, attempt, response, asked, requests, serverVars>>

\* The sleep is over: the next attempt, in which the synchronous client
\* forgets the response it had.
Wake(c) ==
  /\ pc[c] = "sleep"
  /\ pc' = [pc EXCEPT ![c] = "send"]
  /\ attempt' = [attempt EXCEPT ![c] = @ + 1]
  /\ response' = [response EXCEPT ![c] = IF c \in AsyncCalls THEN @ ELSE None]
  /\ UNCHANGED <<op, delay, told, asked, netVars, serverVars>>

-----------------------------------------------------------------------------
\* The server, which is not in this repository, as its clients rely on it: a
\* key is looked up before the version is compared, a remembered request is
\* answered again, and 409 or 412 is answered only when it has to be.
Remembered(o) == \E q \in recorded : q.key = o.key
Conflicts(o) ==
  IF Remembered(o) THEN o \notin recorded
  ELSE o.match # None /\ o.match # version

\* The server is done with a request; its answer is lost unless the call still
\* waits for this attempt.
Handle(m, statuses) ==
  /\ m \in requests
  /\ requests' = requests \ {m}
  /\ IF pc[m.call] = "wait" /\ attempt[m.call] = m.attempt
     THEN \E r \in Reply :
            r.status \in statuses /\ reply' = [reply EXCEPT ![m.call] = r]
     ELSE UNCHANGED reply
  /\ UNCHANGED callVars

\* A request that changes something is carried out, and remembered under its
\* key.  A gateway may still answer 502 or 504.
Apply(m) ==
  LET o == Request(m.call, m.attempt) IN
  /\ Handle(m, {"ok", "busy"})
  /\ o.method # "GET" /\ ~Remembered(o) /\ ~Conflicts(o)
  /\ o.match # None => version < MaxVersion
  /\ version' = IF o.match = None THEN version ELSE version + 1
  /\ recorded' = IF o.key = None THEN recorded ELSE recorded \cup {o}
  /\ applied' = applied \cup {m}

\* Reading, and repeating a remembered request, change nothing.
Repeat(m) ==
  LET o == Request(m.call, m.attempt) IN
  /\ Handle(m, {"ok", "busy"})
  /\ o.method = "GET" \/ o \in recorded
  /\ UNCHANGED serverVars

Refuse(m) ==
  /\ Handle(m, {"conflict"})
  /\ Conflicts(Request(m.call, m.attempt))
  /\ UNCHANGED serverVars

\* Overload, rate limits, expired credentials: any request may be turned away.
TurnAway(m) ==
  /\ Handle(m, {"busy", "denied"})
  /\ UNCHANGED serverVars

\* The run goes on by itself, or someone else decides.
Advance ==
  /\ version < MaxVersion
  /\ version' = version + 1
  /\ UNCHANGED <<callVars, netVars, recorded, applied>>

-----------------------------------------------------------------------------
ClientStep(c) == Send(c) \/ Answered(c) \/ Broken(c) \/ Wake(c)
ServerStep == \/ \E m \in requests : Apply(m) \/ Repeat(m) \/ Refuse(m) \/ TurnAway(m)
              \/ Advance

Next ==
  \/ \E c \in Calls : ClientStep(c) \/ \E o \in Operation : Start(c, o)
  \/ ServerStep

\* A started call goes on: its transport times out, its sleeps end.  Nothing
\* is assumed of the server.
Fairness == \A c \in Calls : WF_vars(ClientStep(c))

Spec == Init /\ [][Next]_vars /\ Fairness

-----------------------------------------------------------------------------
TypeOK ==
  /\ pc \in [Calls -> {"idle", "send", "wait", "sleep", "done"}]
  /\ op \in [Calls -> Operation \cup {None}]
  /\ attempt \in [Calls -> Attempts]
  /\ response \in [Calls -> Reply \cup {None}]
  /\ delay \in [Calls -> 0..600]
  /\ told \in [Calls -> {None} \cup Outcomes]
  /\ asked \in [Calls -> RetryAfters \cup {0}]
  /\ reply \in [Calls -> Reply \cup {None}]
  /\ requests \subseteq [call : Calls, attempt : Attempts]
  /\ version \in Versions
  /\ recorded \subseteq Operation
  /\ applied \subseteq [call : Calls, attempt : Attempts]

\* However often a request is retried, by _request or by an application that
\* calls again with the same key, and however late an attempt arrives, the
\* operation behind a key is carried out at most once.
KeyedOnce ==
  \A a, b \in applied :
    /\ op[a.call].key # None
    /\ op[a.call].key = op[b.call].key
    => a = b

\* A caller told 409 or 412 can rely on it: none of the attempts of its call
\* was carried out, and none that is still under way ever will be.  This is
\* what keeps revoke_package, which sends no key, to one attempt.
RefusedIsUntouched ==
  \A c \in Calls : told[c] = "conflict" => \A a \in applied : a.call # c

\* Nor is a success made up: a caller told its request succeeded finds the very request carried out:
\* by this call, or by an earlier one under the same key.
SuccessIsCarriedOut ==
  \A c \in Calls :
    told[c] = "ok" /\ op[c].method # "GET" =>
      \E a \in applied :
        op[a.call] = op[c] /\ (op[c].key = None => a.call = c)

\* What _request tells its caller of a mutation is true, however many of its
\* attempts are lost or late.
AnswersAreTrue == RefusedIsUntouched /\ SuccessIsCarriedOut

\* docs/sdk.md:87, "Retries are bounded and honor Retry-After; long retry
\* delays are returned": no attempt follows an answer before the time it asked
\* for; and a caller is told to come back later by the last answer there is, or
\* by one that asked for more than a minute, never by one held from an earlier
\* attempt that a transport error has since followed.
RetriesAsAsked ==
  \A c \in Calls :
    /\ pc[c] = "sleep" => /\ asked[c] <= delay[c]
                          /\ delay[c] \in Backoff(attempt[c])..600
    /\ told[c] = "busy" => LastAttempt(c) \/ asked[c] > 600

\* How many steps a call has left to take, if it takes all the retries it may.
StepsLeft(c) ==
  LET rest == (IF RetryAllowed(op[c]) THEN MaxRetries ELSE 0) - attempt[c]
  IN  CASE pc[c] = "send"  -> 3 * rest + 2
        [] pc[c] = "wait"  -> 3 * rest + 1
        [] pc[c] = "sleep" -> 3 * rest
        [] OTHER           -> 0

\* docs/sdk.md:87, "Retries are bounded": every step a call takes brings its end
\* nearer, and nothing the server, the network or another call does puts it off;
\* an operation without a key takes its one attempt.
CallsAreBounded ==
  [][\A c \in Calls : pc[c] # "idle" =>
       /\ StepsLeft(c)' \in 0..StepsLeft(c)
       /\ pc'[c] # pc[c] => StepsLeft(c)' # StepsLeft(c)]_vars

-----------------------------------------------------------------------------
\* What a call is to change: under a key the request itself, whichever call
\* makes it; without one, the request of this call alone.
Job(c) == [key |-> op[c].key, request |-> op[c],
           by |-> IF op[c].key = None THEN c ELSE None]
AllJobs == [key : Keys \cup {None}, request : Operation, by : Calls \cup {None}]

Changes(c) == op[c] # None /\ op[c].method # "GET"

Verdict(outcome) ==
  IF outcome = None THEN "none" ELSE IF outcome \in {"ok", "conflict"} THEN outcome
  ELSE "unknown"

JobsAsked == [c \in Calls |-> IF Changes(c) THEN Job(c) ELSE None]
JobsDone  == {Job(a.call) : a \in applied}
Verdicts  == [c \in Calls |-> IF Changes(c) THEN Verdict(told[c]) ELSE "none"]

Once == INSTANCE ServedOnce WITH
  Callers <- Calls, Jobs <- AllJobs, NoKey <- None, NoJob <- None,
  work <- JobsAsked, done <- JobsDone, answer <- Verdicts

\* docs/sdk.md:87, "Idempotent creation can be retried; unknown consequential
\* effects require reconciliation, not blind resubmission": through lost, late
\* and repeated attempts, the calls are served as if each job were carried out
\* in one step, once, and never after a caller was told that it was refused.
CallsAreServedOnce == Once!Spec
=============================================================================

