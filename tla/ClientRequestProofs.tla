------------------------- MODULE ClientRequestProofs -------------------------
(***************************************************************************)
(* Theorems about ClientRequest, for any number of calls, keys and         *)
(* versions.  Types and pace come first; then what the server remembers;   *)
(* then that the answers it gives stay true while they travel.  The end    *)
(* counts the steps a call has left, and shows that the calls are served   *)
(* as ServedOnce says.                                                     *)
(***************************************************************************)
EXTENDS ClientRequest, TLAPS

Bound(c) == IF RetryAllowed(op[c]) THEN MaxRetries ELSE 0

\* An answer a call may hold while it goes on: it did not ask for too much.
Short(r) == r # None => r.status = "busy" /\ r.after <= 600

\* Where a call is says what it holds.
CallOK(c) ==
  /\ pc[c] # "idle" => /\ op[c] \in Operation
                       /\ op[c].match # None => op[c].match <= version
                       /\ attempt[c] <= Bound(c)
  /\ pc[c] = "idle" => attempt[c] = 0
  /\ pc[c] = "sleep" => attempt[c] < Bound(c)
  /\ pc[c] # "done" => told[c] = None
  /\ pc[c] # "done" => Short(response[c])
  /\ pc[c] = "wait" => asked[c] = 0
  /\ reply[c] # None => pc[c] = "wait"

\* How long it sleeps, and why it is told to come back later.
Paced(c) ==
  /\ pc[c] = "sleep" => asked[c] <= delay[c] /\ delay[c] \in Backoff(attempt[c])..600
  /\ pc[c] = "done" /\ told[c] = "busy" => LastAttempt(c) \/ asked[c] > 600

CallInv == \A c \in Calls : CallOK(c) /\ Paced(c)

PaceInv == TypeOK /\ CallInv

\* An attempt is sent once, and handled once.
SentInv ==
  /\ requests \cap applied = {}
  /\ \A m \in requests \cup applied :
       /\ pc[m.call] # "idle" /\ m.attempt <= attempt[m.call]
       /\ pc[m.call] = "send" => m.attempt < attempt[m.call]

\* What was carried out under a key is remembered, and nothing else is.
RecordInv ==
  /\ \A a \in applied : /\ op[a.call].method # "GET"
                        /\ op[a.call].key # None => op[a.call] \in recorded
  /\ \A o \in recorded : o.key # None /\ \E a \in applied : op[a.call] = o

ServerInv == SentInv /\ RecordInv /\ KeyedOnce

\* No attempt of a call was carried out or will be.
Untouchable(c) ==
  /\ \A a \in applied : a.call # c
  /\ Remembered(op[c]) \/ (op[c].match # None /\ op[c].match < version)

CarriedOut(c) ==
  \E a \in applied : op[a.call] = op[c] /\ (op[c].key = None => a.call = c)

\* An outcome that says so is true.
IsTrue(outcome, c) ==
  /\ outcome = "conflict" => Untouchable(c)
  /\ outcome = "ok" /\ op[c].method # "GET" => CarriedOut(c)

TruthInv ==
  \A c \in Calls : /\ reply[c] # None => IsTrue(reply[c].status, c)
                   /\ IsTrue(told[c], c)

-----------------------------------------------------------------------------
\* The delays of the retries there are.
LEMMA BackoffBounds == \A n \in 0..7 : Backoff(n) \in 1..128
<1> SUFFICES ASSUME NEW n \in 0..7  PROVE 2^n \in 1..128
  BY DEF Backoff
<1>1. CASE n = 0  BY <1>1
<1>2. CASE n = 1  BY <1>2
<1>3. CASE n = 2  BY <1>3
<1>4. CASE n = 3  BY <1>4
<1>5. CASE n = 4  BY <1>5
<1>6. CASE n = 5  BY <1>6
<1>7. CASE n = 6  BY <1>7
<1>8. CASE n = 7  BY <1>8
<1> QED  BY <1>1, <1>2, <1>3, <1>4, <1>5, <1>6, <1>7, <1>8

\* None is no record and no outcome.
LEMMA NoneIsNothing ==
  /\ None \notin Operation /\ None \notin Reply /\ None \notin Outcomes
  /\ None \notin Keys /\ None \notin Bodies /\ None \notin Nat
  BY NoneAssumption

\* What an answer has.
LEMMA ReplyParts ==
  ASSUME NEW r \in Reply
  PROVE  /\ r.status \in {"ok", "busy", "conflict", "denied"}
         /\ r.after \in RetryAfters \cup {0} /\ r.after \in Nat /\ r.parses \in BOOLEAN
         /\ Decode(r) \in Outcomes /\ Decode(r) \in {r.status, "invalid"}
<1>1. /\ r.status \in {"ok", "busy", "conflict", "denied"}
      /\ r.after \in RetryAfters \cup {0} /\ r.parses \in BOOLEAN
  BY DEF Reply
<1>2. r.after \in Nat
  <2>1. r.after \in RetryAfters \cup {0}  BY <1>1
  <2>2. 0 \in Nat  OBVIOUS
  <2> QED  BY <2>1, <2>2, DelaysAssumption, Zenon
<1>3. Decode(r) \in {r.status, "invalid"}  BY <1>1 DEF Decode
<1> QED  BY <1>1, <1>2, <1>3 DEF Outcomes

\* An older answer is the same answer.
LEMMA AgedParts ==
  ASSUME NEW r \in Reply, r.status = "busy", r.after <= 600, NEW h \in Aged(r)
  PROVE  h \in Reply /\ h.status = "busy" /\ h.after <= 600
<1>1. r # None  BY NoneIsNothing
<1>2. PICK a \in RetryAfters : h = [r EXCEPT !.after = a] /\ a <= r.after
  BY <1>1 DEF Aged
<1>3. h \in Reply /\ h.status = "busy" /\ h.after = a  BY <1>2 DEF Reply
<1>4. a \in Nat /\ r.after \in Nat  BY ReplyParts, DelaysAssumption
<1> QED  BY <1>2, <1>3, <1>4

\* Pausing before the next attempt, or giving up because the server asks for too much.
LEMMA Pausing ==
  ASSUME NEW c \in Calls, NEW held \in Reply \cup {None},
         attempt[c] \in 0..7, held # None => held.status = "busy",
         Pace(c, held)
  PROVE  \/ \E o \in {"busy", "invalid"} :
               /\ pc' = [pc EXCEPT ![c] = "done"] /\ told' = [told EXCEPT ![c] = o]
               /\ UNCHANGED delay
               /\ held # None /\ held.after > 600
         \/ \E d \in 0..600 :
               /\ pc' = [pc EXCEPT ![c] = "sleep"] /\ delay' = [delay EXCEPT ![c] = d]
               /\ UNCHANGED told
               /\ Backoff(attempt[c]) <= d /\ (held # None => held.after <= d)
<1> DEFINE d == RetryDelay(held, attempt[c])
<1>1. Backoff(attempt[c]) \in 1..128  BY BackoffBounds
<1>2. CASE held = None
  <2>1. d = Backoff(attempt[c])  BY <1>1, <1>2 DEF RetryDelay, Longer
  <2>2. /\ pc' = [pc EXCEPT ![c] = "sleep"] /\ delay' = [delay EXCEPT ![c] = d]
        /\ UNCHANGED told
    BY <1>2 DEF Pace
  <2>3. d \in 0..600 /\ Backoff(attempt[c]) <= d  BY <1>1, <2>1
  <2> QED  BY <1>2, <2>2, <2>3
<1>3. CASE held # None
  <2>1. held.after \in Nat /\ Decode(held) \in {"busy", "invalid"}  BY <1>3, ReplyParts
  <2>2. d \in Nat /\ Backoff(attempt[c]) <= d /\ held.after <= d
    BY <1>1, <1>3, <2>1 DEF RetryDelay, Longer
  <2>3. CASE d > 600
    <3>1. held.after > 600  BY <1>1, <1>3, <2>1, <2>3 DEF RetryDelay, Longer
    <3> QED  BY <1>3, <2>1, <2>3, <3>1 DEF Pace, Tell
  <2>4. CASE ~(d > 600)
    <3>1. d \in 0..600  BY <2>2, <2>4
    <3> QED  BY <2>2, <2>4, <3>1 DEF Pace
  <2> QED  BY <2>3, <2>4
<1> QED  BY <1>2, <1>3

-----------------------------------------------------------------------------
LEMMA PaceStarts == Init => PaceInv
  BY NoneIsNothing, RetriesAssumption, VersionsAssumption
  DEF Init, PaceInv, TypeOK, CallInv, CallOK, Short, Paced, Attempts, Versions

\* What the types say of a call.
LEMMA BoundIsNat == \A c \in Calls : Bound(c) \in 0..MaxRetries
  BY RetriesAssumption DEF Bound

LEMMA OperationParts ==
  ASSUME NEW o \in Operation
  PROVE  /\ o.method \in {"GET", "POST", "DELETE"} /\ o.key \in Keys \cup {None}
         /\ o.match = None \/ o.match \in Nat
         /\ o.method = "GET" => o.key = None /\ o.match = None
         /\ o.method = "DELETE" => o.match # None
<1>1. Versions \subseteq Nat  BY VersionsAssumption DEF Versions
<1>2. o.match = None \/ o.match \in Versions  BY DEF Operation
<1>3. o.method = "DELETE" => o.match # None
  <2>1. o.method = "DELETE" => o.match \in Versions  BY DEF Operation
  <2> QED  BY <1>1, <2>1, NoneIsNothing
<1>4. /\ o.method \in {"GET", "POST", "DELETE"} /\ o.key \in Keys \cup {None}
      /\ o.method = "GET" => o.key = None /\ o.match = None
  BY DEF Operation
<1> QED  BY <1>1, <1>2, <1>3, <1>4

\* A step of one call leaves the others as they were; versions only grow.
LEMMA OthersStand ==
  ASSUME PaceInv, TypeOK', NEW c \in Calls, version <= version',
         \A j \in Calls \ {c} :
           /\ op'[j] = op[j] /\ pc'[j] = pc[j] /\ attempt'[j] = attempt[j]
           /\ told'[j] = told[j] /\ response'[j] = response[j] /\ asked'[j] = asked[j]
           /\ reply'[j] = reply[j] /\ delay'[j] = delay[j],
         CallOK(c)', Paced(c)'
  PROVE  PaceInv'
<1>1. ASSUME NEW j \in Calls \ {c}  PROVE CallOK(j)' /\ Paced(j)'
  <2>1. /\ op'[j] = op[j] /\ pc'[j] = pc[j] /\ attempt'[j] = attempt[j]
        /\ told'[j] = told[j] /\ response'[j] = response[j] /\ asked'[j] = asked[j]
        /\ reply'[j] = reply[j] /\ delay'[j] = delay[j]
    OBVIOUS
  <2>2. CallOK(j) /\ Paced(j)  BY DEF PaceInv, CallInv
  <2>3. Bound(j)' = Bound(j)  BY <2>1 DEF Bound
  <2>4. pc[j] # "idle" /\ op[j].match # None => op[j].match <= version'
    <3>1. version \in Nat /\ version' \in Nat
      BY VersionsAssumption DEF PaceInv, TypeOK, Versions
    <3>2. pc[j] # "idle" /\ op[j].match # None => op[j].match \in Nat
      BY <2>2, OperationParts DEF CallOK
    <3> QED  BY <2>2, <3>1, <3>2 DEF CallOK
  <2>5. CallOK(j)'  BY <2>1, <2>2, <2>3, <2>4 DEF CallOK
  <2>6. LastAttempt(j)' <=> LastAttempt(j)  BY <2>1 DEF LastAttempt
  <2>7. Paced(j)'  BY <2>1, <2>2, <2>6 DEF Paced
  <2> QED  BY <2>5, <2>7
<1>2. CallInv'  BY <1>1 DEF CallInv
<1> QED  BY <1>2 DEF PaceInv

LEMMA VersionStays ==
  ASSUME PaceInv, version' = version
  PROVE  version <= version'
<1>1. version \in Nat  BY VersionsAssumption DEF PaceInv, TypeOK, Versions
<1> QED  BY <1>1

\* An application calls a method.
LEMMA StartingPaces ==
  ASSUME PaceInv, NEW c \in Calls, NEW o \in Operation, Start(c, o)
  PROVE  PaceInv'
<1>1. /\ pc[c] = "idle" /\ (o.match # None => o.match <= version)
      /\ pc' = [pc EXCEPT ![c] = "send"] /\ op' = [op EXCEPT ![c] = o]
      /\ UNCHANGED <<attempt, response, delay, told, asked, reply, requests, version,
                     recorded, applied>>
  BY DEF Start, netVars, serverVars
<1>2. TypeOK'  BY <1>1 DEF PaceInv, TypeOK
<1>3. pc'[c] = "send" /\ op'[c] = o  BY <1>1 DEF PaceInv, TypeOK
<1>4. CallOK(c)' /\ Paced(c)'
  <2>1. CallOK(c)  BY DEF PaceInv, CallInv
  <2>2. Bound(c)' >= 0  BY <1>3, RetriesAssumption DEF Bound
  <2>3. reply[c] = None  BY <1>1, <2>1 DEF CallOK
  <2>4. CallOK(c)'  BY <1>1, <1>3, <2>1, <2>2, <2>3 DEF CallOK
  <2> QED  BY <1>3, <2>4 DEF Paced
<1>5. version <= version'  BY <1>1, VersionStays
<1> QED  BY <1>1, <1>2, <1>4, <1>5, OthersStand DEF PaceInv, TypeOK

\* A request leaves.
LEMMA SendingPaces ==
  ASSUME PaceInv, NEW c \in Calls, Send(c)
  PROVE  PaceInv'
<1>1. /\ pc[c] = "send" /\ pc' = [pc EXCEPT ![c] = "wait"]
      /\ asked' = [asked EXCEPT ![c] = 0]
      /\ requests' = requests \cup {[call |-> c, attempt |-> attempt[c]]}
      /\ UNCHANGED <<op, attempt, response, delay, told, reply, version, recorded, applied>>
  BY DEF Send, serverVars
<1>2. TypeOK'  BY <1>1 DEF PaceInv, TypeOK
<1>3. pc'[c] = "wait" /\ asked'[c] = 0  BY <1>1 DEF PaceInv, TypeOK
<1>4. CallOK(c)' /\ Paced(c)'
  <2>1. CallOK(c)  BY DEF PaceInv, CallInv
  <2>2. Bound(c)' = Bound(c)  BY <1>1 DEF Bound
  <2>3. CallOK(c)'  BY <1>1, <1>3, <2>1, <2>2 DEF CallOK
  <2> QED  BY <1>3, <2>3 DEF Paced
<1>5. version <= version'  BY <1>1, VersionStays
<1> QED  BY <1>1, <1>2, <1>4, <1>5, OthersStand DEF PaceInv, TypeOK

\* An attempt has ended, and its call with it.
LEMMA EndingPaces ==
  ASSUME PaceInv, NEW c \in Calls, NEW o \in Outcomes,
         NEW r \in Reply \cup {None}, NEW a \in RetryAfters \cup {0},
         reply' = [reply EXCEPT ![c] = None], response' = [response EXCEPT ![c] = r],
         asked' = [asked EXCEPT ![c] = a],
         pc' = [pc EXCEPT ![c] = "done"], told' = [told EXCEPT ![c] = o],
         pc[c] = "wait", o = "busy" => LastAttempt(c) \/ a > 600,
         UNCHANGED <<op, attempt, delay, requests, version, recorded, applied>>
  PROVE  PaceInv'
<1>1. TypeOK'  BY DEF PaceInv, TypeOK
<1>2. pc'[c] = "done" /\ reply'[c] = None /\ told'[c] = o /\ asked'[c] = a
  BY DEF PaceInv, TypeOK
<1>3. /\ Bound(c)' = Bound(c) /\ (LastAttempt(c)' <=> LastAttempt(c))
      /\ CallOK(c)
  BY DEF Bound, LastAttempt, PaceInv, CallInv
<1>4. CallOK(c)' /\ Paced(c)'  BY <1>2, <1>3 DEF CallOK, Paced
<1>5. version <= version'  BY VersionStays
<1> QED  BY <1>1, <1>4, <1>5, OthersStand DEF PaceInv, TypeOK

\* An attempt has ended, and its call pauses before the next.
LEMMA PausingPaces ==
  ASSUME PaceInv, NEW c \in Calls, NEW d \in 0..600,
         NEW r \in Reply \cup {None}, NEW a \in RetryAfters \cup {0},
         reply' = [reply EXCEPT ![c] = None], response' = [response EXCEPT ![c] = r],
         asked' = [asked EXCEPT ![c] = a],
         pc' = [pc EXCEPT ![c] = "sleep"], delay' = [delay EXCEPT ![c] = d],
         pc[c] = "wait", attempt[c] < Bound(c), Short(r),
         a <= d, d \in Backoff(attempt[c])..600,
         UNCHANGED <<op, attempt, told, requests, version, recorded, applied>>
  PROVE  PaceInv'
<1>1. TypeOK'  BY DEF PaceInv, TypeOK
<1>2. /\ pc'[c] = "sleep" /\ reply'[c] = None /\ response'[c] = r /\ asked'[c] = a
      /\ delay'[c] = d
  BY DEF PaceInv, TypeOK
<1>3. Bound(c)' = Bound(c) /\ CallOK(c)  BY DEF Bound, PaceInv, CallInv
<1>4. CallOK(c)'  BY <1>2, <1>3 DEF CallOK
<1>5. Paced(c)'  BY <1>2 DEF Paced
<1>6. version <= version'  BY VersionStays
<1> QED  BY <1>1, <1>4, <1>5, <1>6, OthersStand DEF PaceInv, TypeOK

LEMMA StaysAsItIs ==
  ASSUME NEW S, NEW T, NEW g \in [S -> T], NEW x \in S
  PROVE  [g EXCEPT ![x] = g[x]] = g
  OBVIOUS

\* Before the last attempt.
LEMMA NotTheLast ==
  ASSUME PaceInv, NEW c \in Calls, ~LastAttempt(c)
  PROVE  attempt[c] < Bound(c) /\ attempt[c] \in 0..7
<1>1. attempt[c] \in 0..MaxRetries /\ Bound(c) \in 0..MaxRetries
  BY BoundIsNat DEF PaceInv, TypeOK, Attempts
<1>2. attempt[c] < Bound(c)  BY <1>1, RetriesAssumption DEF LastAttempt, Bound
<1> QED  BY <1>1, <1>2, RetriesAssumption

\* An answer arrives.
LEMMA AnsweredPaces ==
  ASSUME PaceInv, NEW c \in Calls, Answered(c)
  PROVE  PaceInv'
<1> DEFINE r == reply[c]
<1>1. /\ pc[c] = "wait" /\ r # None
      /\ reply' = [reply EXCEPT ![c] = None] /\ response' = [response EXCEPT ![c] = r]
      /\ asked' = [asked EXCEPT ![c] = r.after]
      /\ UNCHANGED <<op, attempt, requests, version, recorded, applied>>
  BY DEF Answered, serverVars
<1>2. r \in Reply  BY <1>1 DEF PaceInv, TypeOK
<1>3. r.after \in RetryAfters \cup {0} /\ r.after \in Nat /\ Decode(r) \in Outcomes
  BY <1>2, ReplyParts
<1>4. CASE r.status # "busy" \/ LastAttempt(c)
  <2>1. /\ pc' = [pc EXCEPT ![c] = "done"] /\ told' = [told EXCEPT ![c] = Decode(r)]
        /\ UNCHANGED delay
    BY <1>4 DEF Answered, Tell
  <2>2. Decode(r) = "busy" => LastAttempt(c)  BY <1>4 DEF Decode
  <2> QED  BY <1>1, <1>2, <1>3, <2>1, <2>2, EndingPaces
<1>5. CASE r.status = "busy" /\ ~LastAttempt(c)
  <2>1. Pace(c, r)  BY <1>5 DEF Answered
  <2>2. attempt[c] < Bound(c) /\ attempt[c] \in 0..7  BY <1>5, NotTheLast
  <2>3. CASE \E o \in {"busy", "invalid"} :
               /\ pc' = [pc EXCEPT ![c] = "done"] /\ told' = [told EXCEPT ![c] = o]
               /\ UNCHANGED delay
               /\ r # None /\ r.after > 600
    <3>1. {"busy", "invalid"} \subseteq Outcomes  BY DEF Outcomes
    <3> QED  BY <1>1, <1>2, <1>3, <2>3, <3>1, EndingPaces
  <2>4. CASE \E d \in 0..600 :
               /\ pc' = [pc EXCEPT ![c] = "sleep"] /\ delay' = [delay EXCEPT ![c] = d]
               /\ UNCHANGED told
               /\ Backoff(attempt[c]) <= d /\ (r # None => r.after <= d)
    <3>1. PICK d \in 0..600 :
               /\ pc' = [pc EXCEPT ![c] = "sleep"] /\ delay' = [delay EXCEPT ![c] = d]
               /\ UNCHANGED told
               /\ Backoff(attempt[c]) <= d /\ (r # None => r.after <= d)
      BY <2>4
    <3>2. Backoff(attempt[c]) \in Nat  BY <2>2, BackoffBounds
    <3>3. d \in Backoff(attempt[c])..600 /\ r.after <= d /\ Short(r)
      BY <1>1, <1>3, <1>5, <3>1, <3>2 DEF Short
    <3> QED  BY <1>1, <1>2, <1>3, <1>5, <2>2, <3>1, <3>3, PausingPaces
  <2> QED  BY <1>2, <1>5, <2>1, <2>2, <2>3, <2>4, Pausing
<1> QED  BY <1>4, <1>5

\* The transport fails.
LEMMA BreakingPaces ==
  ASSUME PaceInv, NEW c \in Calls, Broken(c)
  PROVE  PaceInv'
<1>1. /\ pc[c] = "wait" /\ reply' = [reply EXCEPT ![c] = None]
      /\ UNCHANGED <<op, attempt, response, asked, requests, version, recorded, applied>>
  BY DEF Broken, serverVars
<1>2. CallOK(c) /\ response[c] \in Reply \cup {None}
  BY DEF PaceInv, TypeOK, CallInv
<1>3. asked[c] = 0 /\ Short(response[c])
  BY <1>1, <1>2 DEF CallOK
<1>4. /\ response' = [response EXCEPT ![c] = response[c]]
      /\ asked' = [asked EXCEPT ![c] = 0]
  BY <1>1, <1>3, StaysAsItIs DEF PaceInv, TypeOK
<1>5. CASE LastAttempt(c)
  <2>1. /\ pc' = [pc EXCEPT ![c] = "done"] /\ told' = [told EXCEPT ![c] = "unreachable"]
        /\ UNCHANGED delay
    BY <1>5 DEF Broken, Tell
  <2>2. "unreachable" \in Outcomes  BY DEF Outcomes
  <2> QED  BY <1>1, <1>2, <1>4, <2>1, <2>2, EndingPaces
<1>6. CASE ~LastAttempt(c)
  <2>1. PICK held \in Aged(response[c]) : Pace(c, held)  BY <1>6 DEF Broken
  <2>2. held \in Reply \cup {None} /\ Short(held)
    <3>1. CASE response[c] = None  BY <2>1, <3>1 DEF Aged, Short
    <3>2. CASE response[c] # None  BY <1>2, <1>3, <2>1, <3>2, AgedParts DEF Short
    <3> QED  BY <3>1, <3>2
  <2>3. attempt[c] < Bound(c) /\ attempt[c] \in 0..7  BY <1>6, NotTheLast
  <2>4. held # None => held.status = "busy"  BY <2>2 DEF Short
  <2>5. held # None => ~(held.after > 600)  BY <2>2, ReplyParts DEF Short
  <2>6. CASE \E d \in 0..600 :
               /\ pc' = [pc EXCEPT ![c] = "sleep"] /\ delay' = [delay EXCEPT ![c] = d]
               /\ UNCHANGED told
               /\ Backoff(attempt[c]) <= d /\ (held # None => held.after <= d)
    <3>1. PICK d \in 0..600 :
               /\ pc' = [pc EXCEPT ![c] = "sleep"] /\ delay' = [delay EXCEPT ![c] = d]
               /\ UNCHANGED told
               /\ Backoff(attempt[c]) <= d /\ (held # None => held.after <= d)
      BY <2>6
    <3>2. Backoff(attempt[c]) \in Nat  BY <2>3, BackoffBounds
    <3>3. d \in Backoff(attempt[c])..600 /\ 0 <= d  BY <3>1, <3>2
    <3> QED  BY <1>1, <1>2, <1>3, <1>4, <2>3, <3>1, <3>3, PausingPaces
  <2>7. CASE \E o \in {"busy", "invalid"} :
               /\ pc' = [pc EXCEPT ![c] = "done"] /\ told' = [told EXCEPT ![c] = o]
               /\ UNCHANGED delay
               /\ held # None /\ held.after > 600
    BY <2>7, <2>5
  <2>8. \/ \E o \in {"busy", "invalid"} :
               /\ pc' = [pc EXCEPT ![c] = "done"] /\ told' = [told EXCEPT ![c] = o]
               /\ UNCHANGED delay
               /\ held # None /\ held.after > 600
        \/ \E d \in 0..600 :
               /\ pc' = [pc EXCEPT ![c] = "sleep"] /\ delay' = [delay EXCEPT ![c] = d]
               /\ UNCHANGED told
               /\ Backoff(attempt[c]) <= d /\ (held # None => held.after <= d)
    BY <2>1, <2>2, <2>3, <2>4, Pausing
  <2> QED  BY <2>6, <2>7, <2>8
<1> QED  BY <1>5, <1>6

\* The next attempt begins.
LEMMA WakingPaces ==
  ASSUME PaceInv, NEW c \in Calls, Wake(c)
  PROVE  PaceInv'
<1>1. /\ pc[c] = "sleep" /\ pc' = [pc EXCEPT ![c] = "send"]
      /\ attempt' = [attempt EXCEPT ![c] = @ + 1]
      /\ response' = [response EXCEPT ![c] = IF c \in AsyncCalls THEN @ ELSE None]
      /\ UNCHANGED <<op, delay, told, asked, reply, requests, version, recorded, applied>>
  BY DEF Wake, netVars, serverVars
<1>2. CallOK(c)  BY DEF PaceInv, CallInv
<1>3. /\ attempt[c] \in Nat /\ Bound(c) \in 0..MaxRetries /\ attempt[c] < Bound(c)
      /\ attempt[c] + 1 \in Attempts
  <2>1. attempt[c] \in 0..MaxRetries /\ Bound(c) \in 0..MaxRetries
    BY BoundIsNat DEF PaceInv, TypeOK, Attempts
  <2>2. attempt[c] < Bound(c)  BY <1>1, <1>2 DEF CallOK
  <2> QED  BY <2>1, <2>2, RetriesAssumption DEF Attempts
<1>4. TypeOK'  BY <1>1, <1>3 DEF PaceInv, TypeOK
<1>5. /\ pc'[c] = "send" /\ attempt'[c] = attempt[c] + 1
      /\ response'[c] \in {response[c], None}
  BY <1>1 DEF PaceInv, TypeOK
<1>6. Bound(c)' = Bound(c)  BY <1>1 DEF Bound
<1>7. attempt'[c] <= Bound(c)'  BY <1>3, <1>5, <1>6
<1>8. CallOK(c)'  BY <1>1, <1>2, <1>5, <1>7 DEF CallOK, Short
<1>9. Paced(c)'  BY <1>5 DEF Paced
<1>10. version <= version'  BY <1>1, VersionStays
<1> QED  BY <1>1, <1>4, <1>8, <1>9, <1>10, OthersStand DEF PaceInv, TypeOK

-----------------------------------------------------------------------------
\* The request behind an attempt that has left.
LEMMA SentParts ==
  ASSUME PaceInv, SentInv, NEW m \in requests \cup applied
  PROVE  /\ m.call \in Calls /\ m.attempt \in Nat /\ attempt[m.call] \in Nat
         /\ m = [call |-> m.call, attempt |-> m.attempt]
         /\ op[m.call] \in Operation /\ pc[m.call] # "idle"
         /\ m.attempt <= attempt[m.call]
         /\ op[m.call].match # None => op[m.call].match <= version
<1>1. m \in [call : Calls, attempt : Attempts]  BY DEF PaceInv, TypeOK
<1>2. m.call \in Calls /\ m.attempt \in Nat /\ m = [call |-> m.call, attempt |-> m.attempt]
  BY <1>1, RetriesAssumption DEF Attempts
<1>3. pc[m.call] # "idle" /\ m.attempt <= attempt[m.call]  BY DEF SentInv
<1>4. attempt[m.call] \in Nat
  BY <1>2, RetriesAssumption DEF PaceInv, TypeOK, Attempts
<1>5. CallOK(m.call)  BY <1>2 DEF PaceInv, CallInv
<1> QED  BY <1>2, <1>3, <1>4, <1>5 DEF CallOK

\* What the server does about an attempt: its answer travels if it is waited for.
LEMMA Handling ==
  ASSUME PaceInv, SentInv, NEW m \in requests, NEW statuses, Handle(m, statuses)
  PROVE  /\ requests' = requests \ {m}
         /\ UNCHANGED <<pc, op, attempt, response, delay, told, asked>>
         /\ \/ UNCHANGED reply
            \/ \E r \in Reply : /\ r.status \in statuses
                               /\ reply' = [reply EXCEPT ![m.call] = r]
                               /\ pc[m.call] = "wait"
  BY DEF Handle, callVars

LEMMA HandlingPaces ==
  ASSUME PaceInv, SentInv, NEW m \in requests, NEW statuses, Handle(m, statuses),
         version' \in Versions, version <= version', recorded' \subseteq Operation,
         applied' \in {applied, applied \cup {m}}
  PROVE  PaceInv'
<1>1. m.call \in Calls  BY SentParts
<1>2. /\ requests' = requests \ {m}
      /\ UNCHANGED <<pc, op, attempt, response, delay, told, asked>>
  BY Handling
<1>3. /\ reply' \in [Calls -> Reply \cup {None}]
      /\ \A j \in Calls : reply'[j] = reply[j] \/ (j = m.call /\ pc[j] = "wait")
  BY <1>1, Handling DEF PaceInv, TypeOK
<1>4. TypeOK'  BY <1>2, <1>3 DEF PaceInv, TypeOK
<1>5. CallOK(m.call)  BY <1>1 DEF PaceInv, CallInv
<1>6. Paced(m.call)  BY <1>1 DEF PaceInv, CallInv
<1>7. Bound(m.call)' = Bound(m.call)  BY <1>2 DEF Bound
<1>8. op[m.call].match # None => op[m.call].match <= version'
  <2>1. version \in Nat /\ version' \in Nat
    BY VersionsAssumption DEF PaceInv, TypeOK, Versions
  <2>2. op[m.call].match = None \/ op[m.call].match \in Nat  BY SentParts, OperationParts
  <2>3. op[m.call].match # None => op[m.call].match <= version  BY SentParts
  <2> QED  BY <2>1, <2>2, <2>3
<1>9. CallOK(m.call)'  BY <1>1, <1>2, <1>3, <1>5, <1>7, <1>8 DEF CallOK
<1>10. Paced(m.call)'  BY <1>2, <1>6 DEF Paced, LastAttempt
<1> QED  BY <1>1, <1>2, <1>3, <1>4, <1>9, <1>10, OthersStand

\* The four things the server may do about an attempt.
LEMMA ServerPaces ==
  ASSUME PaceInv, SentInv, NEW m \in requests,
         Apply(m) \/ Repeat(m) \/ Refuse(m) \/ TurnAway(m)
  PROVE  PaceInv'
<1>1. version \in Nat /\ version \in Versions /\ recorded \subseteq Operation
  BY VersionsAssumption DEF PaceInv, TypeOK, Versions
<1>2. version <= version  BY <1>1
<1>3. CASE Apply(m)
  <2>1. Handle(m, {"ok", "busy"}) /\ applied' = applied \cup {m}  BY <1>3 DEF Apply
  <2>2. op[m.call] \in Operation  BY SentParts
  <2>3. recorded' \subseteq Operation  BY <1>1, <1>3, <2>2 DEF Apply, Request
  <2>4. \/ version' = version
        \/ version < MaxVersion /\ version' = version + 1
    BY <1>3 DEF Apply
  <2>5. version' \in Versions /\ version <= version'
    BY <1>1, <2>4, VersionsAssumption DEF Versions
  <2> QED  BY <2>1, <2>3, <2>5, HandlingPaces
<1>4. CASE Repeat(m)
  BY <1>1, <1>2, <1>4, HandlingPaces DEF Repeat, serverVars
<1>5. CASE Refuse(m)
  BY <1>1, <1>2, <1>5, HandlingPaces DEF Refuse, serverVars
<1>6. CASE TurnAway(m)
  BY <1>1, <1>2, <1>6, HandlingPaces DEF TurnAway, serverVars
<1> QED  BY <1>3, <1>4, <1>5, <1>6

\* Someone else moves the version on.
LEMMA AdvancingPaces ==
  ASSUME PaceInv, Advance
  PROVE  PaceInv'
<1>1. /\ version' = version + 1 /\ version < MaxVersion
      /\ UNCHANGED <<pc, op, attempt, response, delay, told, asked, reply, requests,
                     recorded, applied>>
  BY DEF Advance, callVars, netVars
<1>2. version \in Nat /\ version' \in Versions /\ version <= version'
  BY <1>1, VersionsAssumption DEF PaceInv, TypeOK, Versions
<1>3. TypeOK'  BY <1>1, <1>2 DEF PaceInv, TypeOK
<1>4. ASSUME NEW c \in Calls  PROVE CallOK(c)' /\ Paced(c)'
  <2>1. CallOK(c) /\ Paced(c)  BY DEF PaceInv, CallInv
  <2>2. Bound(c)' = Bound(c)  BY <1>1 DEF Bound
  <2>3. pc[c] # "idle" /\ op[c].match # None => op[c].match <= version'
    <3>1. pc[c] # "idle" /\ op[c].match # None => op[c].match \in Nat
      BY <2>1, OperationParts DEF CallOK
    <3> QED  BY <1>1, <1>2, <2>1, <3>1 DEF CallOK
  <2>4. CallOK(c)'  BY <1>1, <2>1, <2>2, <2>3 DEF CallOK
  <2> QED  BY <1>1, <2>1, <2>4 DEF Paced, LastAttempt
<1> QED  BY <1>3, <1>4 DEF PaceInv, CallInv

-----------------------------------------------------------------------------
\* A step that carries nothing out, sends nothing new, and at most lets calls go on.
LEMMA ServerStands ==
  ASSUME PaceInv, ServerInv, requests' \subseteq requests, UNCHANGED <<recorded, applied>>,
         \A j \in Calls : pc[j] # "idle" =>
           /\ op'[j] = op[j] /\ pc'[j] # "idle"
           /\ \/ attempt'[j] = attempt[j] /\ (pc'[j] = "send" => pc[j] = "send")
              \/ attempt'[j] = attempt[j] + 1
  PROVE  ServerInv'
<1> USE DEF ServerInv
<1>1. ASSUME NEW m \in requests \cup applied
      PROVE  /\ op'[m.call] = op[m.call]
             /\ pc'[m.call] # "idle" /\ m.attempt <= attempt'[m.call]
             /\ pc'[m.call] = "send" => m.attempt < attempt'[m.call]
  <2>1. /\ m.call \in Calls /\ m.attempt \in Nat /\ attempt[m.call] \in Nat
        /\ pc[m.call] # "idle" /\ m.attempt <= attempt[m.call]
    BY SentParts
  <2>2. /\ op'[m.call] = op[m.call] /\ pc'[m.call] # "idle"
        /\ \/ attempt'[m.call] = attempt[m.call] /\ (pc'[m.call] = "send" => pc[m.call] = "send")
           \/ attempt'[m.call] = attempt[m.call] + 1
    BY <2>1
  <2>3. pc[m.call] = "send" => m.attempt < attempt[m.call]  BY DEF SentInv
  <2>4. CASE attempt'[m.call] = attempt[m.call] /\ (pc'[m.call] = "send" => pc[m.call] = "send")
    BY <2>1, <2>2, <2>3, <2>4
  <2>5. CASE attempt'[m.call] = attempt[m.call] + 1  BY <2>1, <2>2, <2>5
  <2> QED  BY <2>2, <2>4, <2>5
<1>2. SentInv'  BY <1>1 DEF SentInv
<1>3. \A a \in applied : op'[a.call] = op[a.call]  BY <1>1
<1>4. RecordInv'  BY <1>3 DEF RecordInv
<1>5. KeyedOnce'  BY <1>3 DEF KeyedOnce
<1> QED  BY <1>2, <1>4, <1>5

\* An attempt leaves: it was neither under way nor carried out.
LEMMA SendingServes ==
  ASSUME PaceInv, ServerInv, NEW c \in Calls, Send(c)
  PROVE  ServerInv'
<1> DEFINE n == [call |-> c, attempt |-> attempt[c]]
<1>1. /\ pc[c] = "send" /\ pc' = [pc EXCEPT ![c] = "wait"]
      /\ requests' = requests \cup {n} /\ UNCHANGED <<op, attempt, recorded, applied>>
  BY DEF Send, serverVars
<1>2. n \notin requests \cup applied
  <2> SUFFICES ASSUME n \in requests \cup applied  PROVE FALSE
    OBVIOUS
  <2>1. n.attempt < attempt[n.call]  BY <1>1 DEF ServerInv, SentInv
  <2>2. attempt[c] \in Nat  BY RetriesAssumption DEF PaceInv, TypeOK, Attempts
  <2> QED  BY <2>1, <2>2
<1>3. requests' \cap applied' = {}  BY <1>1, <1>2 DEF ServerInv, SentInv
<1>4. ASSUME NEW m \in requests' \cup applied'
      PROVE  /\ pc'[m.call] # "idle" /\ m.attempt <= attempt'[m.call]
             /\ pc'[m.call] = "send" => m.attempt < attempt'[m.call]
  <2>1. CASE m = n
    <3>1. pc'[c] = "wait" /\ attempt[c] \in Nat
      BY <1>1, RetriesAssumption DEF PaceInv, TypeOK, Attempts
    <3> QED  BY <1>1, <2>1, <3>1
  <2>2. CASE m # n
    <3>1. m \in requests \cup applied  BY <1>1, <2>2
    <3>2. m.call \in Calls /\ pc[m.call] # "idle"  BY <3>1, SentParts DEF ServerInv
    <3>3. pc'[m.call] # "idle" /\ (pc'[m.call] = "send" => pc[m.call] = "send")
      BY <1>1, <3>2 DEF PaceInv, TypeOK
    <3>4. /\ m.attempt <= attempt[m.call]
          /\ pc[m.call] = "send" => m.attempt < attempt[m.call]
      BY <3>1 DEF ServerInv, SentInv
    <3> QED  BY <1>1, <3>3, <3>4
  <2> QED  BY <2>1, <2>2
<1>5. SentInv'  BY <1>3, <1>4 DEF SentInv
<1>6. RecordInv' /\ KeyedOnce'  BY <1>1 DEF ServerInv, RecordInv, KeyedOnce
<1> QED  BY <1>5, <1>6 DEF ServerInv

\* What it takes for the server to carry a request out.
LEMMA Applying ==
  ASSUME PaceInv, SentInv, NEW m \in requests, Apply(m)
  PROVE  /\ op[m.call] \in Operation /\ op[m.call].method # "GET"
         /\ ~Remembered(op[m.call])
         /\ op[m.call].match # None => op[m.call].match = version
         /\ requests' = requests \ {m} /\ applied' = applied \cup {m}
         /\ recorded' = IF op[m.call].key = None THEN recorded
                        ELSE recorded \cup {op[m.call]}
         /\ UNCHANGED <<pc, op, attempt, told>>
<1>1. Handle(m, {"ok", "busy"})  BY DEF Apply
<1>2. op[m.call] \in Operation  BY SentParts
<1> QED  BY <1>1, <1>2, Handling DEF Apply, Request, Conflicts

\* A request is carried out: nothing under its key was before.
LEMMA ApplyingServes ==
  ASSUME PaceInv, ServerInv, NEW m \in requests, Apply(m)
  PROVE  ServerInv'
<1> DEFINE o == op[m.call]
<1>1. /\ o \in Operation /\ o.method # "GET" /\ ~Remembered(o)
      /\ requests' = requests \ {m} /\ applied' = applied \cup {m}
      /\ recorded' = IF o.key = None THEN recorded ELSE recorded \cup {o}
      /\ UNCHANGED <<pc, op, attempt>>
  BY Applying DEF ServerInv
<1>2. SentInv'  BY <1>1 DEF ServerInv, SentInv
<1>3. RecordInv'
  <2>1. \A a \in applied : /\ op[a.call].method # "GET"
                           /\ op[a.call].key # None => op[a.call] \in recorded
    BY DEF ServerInv, RecordInv
  <2>2. \A q \in recorded : q.key # None /\ \E a \in applied : op[a.call] = q
    BY DEF ServerInv, RecordInv
  <2>3. \A a \in applied' : /\ op'[a.call].method # "GET"
                            /\ op'[a.call].key # None => op'[a.call] \in recorded'
    BY <1>1, <2>1
  <2>4. \A q \in recorded' : q.key # None /\ \E a \in applied' : op'[a.call] = q
    <3>1. m \in applied' /\ op'[m.call] = o  BY <1>1
    <3>2. \A q \in recorded' : q \in recorded \/ (q = o /\ o.key # None)  BY <1>1
    <3> QED  BY <1>1, <2>2, <3>1, <3>2
  <2> QED  BY <2>3, <2>4 DEF RecordInv
<1>4. KeyedOnce'
  <2>1. ASSUME NEW a \in applied, o.key # None  PROVE op[a.call].key # o.key
    <3>1. op[a.call].key = o.key => op[a.call] \in recorded
      BY <2>1 DEF ServerInv, RecordInv
    <3> QED  BY <1>1, <3>1 DEF Remembered
  <2>2. \A a \in applied' : a \in applied \/ a = m  BY <1>1
  <2>3. \A a, b \in applied : op[a.call].key # None /\ op[a.call].key = op[b.call].key => a = b
    BY DEF ServerInv, KeyedOnce
  <2>4. \A a, b \in applied' :
          op[a.call].key # None /\ op[a.call].key = op[b.call].key => a = b
    BY <2>1, <2>2, <2>3
  <2> QED  BY <1>1, <2>4 DEF KeyedOnce
<1> QED  BY <1>2, <1>3, <1>4 DEF ServerInv

-----------------------------------------------------------------------------
\* What is true of a call stays true while the server's memory only grows.
LEMMA TruthLasts ==
  ASSUME PaceInv, SentInv, NEW j \in Calls, pc[j] # "idle",
         \A i \in Calls : pc[i] # "idle" => op'[i] = op[i],
         recorded \subseteq recorded', applied \subseteq applied',
         version <= version', version' \in Nat,
         Untouchable(j) => \A a \in applied' : a.call # j
  PROVE  /\ op'[j] = op[j]
         /\ Untouchable(j) => Untouchable(j)'
         /\ CarriedOut(j) => CarriedOut(j)'
<1>1. op'[j] = op[j] /\ op[j] \in Operation  BY DEF PaceInv, CallInv, CallOK
<1>2. Untouchable(j) => Untouchable(j)'
  <2>1. Remembered(op[j]) => Remembered(op[j])'  BY <1>1 DEF Remembered
  <2>2. op[j].match # None /\ op[j].match < version => op[j].match < version'
    <3>1. op[j].match # None => op[j].match \in Nat  BY <1>1, OperationParts
    <3>2. version \in Nat  BY VersionsAssumption DEF PaceInv, TypeOK, Versions
    <3> QED  BY <3>1, <3>2
  <2> QED  BY <1>1, <2>1, <2>2 DEF Untouchable
<1>3. CarriedOut(j) => CarriedOut(j)'
  <2>1. \A a \in applied : op'[a.call] = op[a.call]
    <3> SUFFICES ASSUME NEW a \in applied  PROVE op'[a.call] = op[a.call]
      OBVIOUS
    <3>1. a.call \in Calls /\ pc[a.call] # "idle"  BY SentParts
    <3> QED  BY <3>1
  <2> QED  BY <1>1, <2>1 DEF CarriedOut
<1> QED  BY <1>1, <1>2, <1>3

\* Nothing is promised to a call that has not been told anything.
LEMMA NonePromisesNothing == None # "ok" /\ None # "conflict"
  BY NoneIsNothing DEF Outcomes

\* What a call holds or was told stays true.
LEMMA PromisesLast ==
  ASSUME PaceInv, SentInv, TruthInv, NEW j \in Calls,
         \A i \in Calls : pc[i] # "idle" => op'[i] = op[i],
         recorded \subseteq recorded', applied \subseteq applied',
         version <= version', version' \in Nat,
         Untouchable(j) => \A a \in applied' : a.call # j
  PROVE  /\ reply[j] # None =>
              /\ reply[j].status = "conflict" => Untouchable(j)'
              /\ reply[j].status = "ok" /\ op'[j].method # "GET" => CarriedOut(j)'
         /\ told[j] = "conflict" => Untouchable(j)'
         /\ told[j] = "ok" /\ op'[j].method # "GET" => CarriedOut(j)'
<1>1. CallOK(j)  BY DEF PaceInv, CallInv
<1>2. CASE pc[j] = "idle"
  <2>1. reply[j] = None /\ told[j] = None  BY <1>1, <1>2 DEF CallOK
  <2> QED  BY <2>1, NonePromisesNothing
<1>3. CASE pc[j] # "idle"
  <2>1. /\ op'[j] = op[j]
        /\ Untouchable(j) => Untouchable(j)'
        /\ CarriedOut(j) => CarriedOut(j)'
    BY <1>3, TruthLasts
  <2> QED  BY <2>1 DEF TruthInv, IsTrue
<1> QED  BY <1>2, <1>3

\* A call moves on: it passes on what the server told it, or something harmless.
LEMMA CallsStayTrue ==
  ASSUME PaceInv, SentInv, TruthInv, UNCHANGED <<recorded, applied, version>>,
         \A j \in Calls : /\ pc[j] # "idle" => op'[j] = op[j]
                          /\ reply'[j] \in {None, reply[j]}
                          /\ \/ told'[j] = told[j]
                             \/ told'[j] # "ok" /\ told'[j] # "conflict"
                             \/ reply[j] # None /\ told'[j] = reply[j].status
  PROVE  TruthInv'
<1> SUFFICES ASSUME NEW j \in Calls
             PROVE  /\ reply'[j] # None =>
                         /\ reply'[j].status = "conflict" => Untouchable(j)'
                         /\ reply'[j].status = "ok" /\ op'[j].method # "GET" => CarriedOut(j)'
                    /\ told'[j] = "conflict" => Untouchable(j)'
                    /\ told'[j] = "ok" /\ op'[j].method # "GET" => CarriedOut(j)'
  BY DEF TruthInv, IsTrue
<1>1. version' \in Nat /\ version <= version'
  BY VersionStays, VersionsAssumption DEF PaceInv, TypeOK, Versions
<1>2. Untouchable(j) => \A a \in applied' : a.call # j  BY DEF Untouchable
<1>3. /\ reply[j] # None =>
           /\ reply[j].status = "conflict" => Untouchable(j)'
           /\ reply[j].status = "ok" /\ op'[j].method # "GET" => CarriedOut(j)'
      /\ told[j] = "conflict" => Untouchable(j)'
      /\ told[j] = "ok" /\ op'[j].method # "GET" => CarriedOut(j)'
  BY <1>1, <1>2, PromisesLast
<1> QED  BY <1>3

\* The server handles an attempt and leaves the rest as true as it was.
LEMMA HandlingStaysTrue ==
  ASSUME PaceInv, SentInv, TruthInv, NEW m \in requests, NEW statuses, Handle(m, statuses),
         recorded \subseteq recorded', applied \subseteq applied',
         version <= version', version' \in Nat,
         \A j \in Calls : Untouchable(j) => \A a \in applied' : a.call # j,
         "conflict" \in statuses => Untouchable(m.call)',
         "ok" \in statuses /\ op[m.call].method # "GET" => CarriedOut(m.call)'
  PROVE  TruthInv'
<1> SUFFICES ASSUME NEW j \in Calls
             PROVE  /\ reply'[j] # None =>
                         /\ reply'[j].status = "conflict" => Untouchable(j)'
                         /\ reply'[j].status = "ok" /\ op'[j].method # "GET" => CarriedOut(j)'
                    /\ told'[j] = "conflict" => Untouchable(j)'
                    /\ told'[j] = "ok" /\ op'[j].method # "GET" => CarriedOut(j)'
  BY DEF TruthInv, IsTrue
<1>1. m.call \in Calls  BY SentParts
<1>2. UNCHANGED <<pc, op, told>>  BY Handling
<1>3. /\ reply[j] # None =>
           /\ reply[j].status = "conflict" => Untouchable(j)'
           /\ reply[j].status = "ok" /\ op'[j].method # "GET" => CarriedOut(j)'
      /\ told[j] = "conflict" => Untouchable(j)'
      /\ told[j] = "ok" /\ op'[j].method # "GET" => CarriedOut(j)'
  BY <1>2, PromisesLast
<1>4. CASE UNCHANGED reply  BY <1>2, <1>3, <1>4
<1>5. CASE \E r \in Reply : /\ r.status \in statuses
                            /\ reply' = [reply EXCEPT ![m.call] = r]
  <2>1. PICK r \in Reply : r.status \in statuses /\ reply' = [reply EXCEPT ![m.call] = r]
    BY <1>5
  <2>2. CASE j = m.call
    <3>1. reply'[j] = r  BY <1>1, <2>1, <2>2 DEF PaceInv, TypeOK
    <3>2. /\ r.status = "conflict" => Untouchable(j)'
          /\ r.status = "ok" /\ op'[j].method # "GET" => CarriedOut(j)'
      BY <1>2, <2>1, <2>2
    <3> QED  BY <1>2, <1>3, <3>1, <3>2
  <2>3. CASE j # m.call
    <3>1. reply'[j] = reply[j]  BY <2>1, <2>3 DEF PaceInv, TypeOK
    <3> QED  BY <1>2, <1>3, <3>1
  <2> QED  BY <2>2, <2>3
<1> QED  BY <1>4, <1>5, Handling

\* 409 and 412 are answered only to a request that cannot have been carried
\* out: under a key it would be the one remembered, without one it has this
\* attempt only.
LEMMA RefusedIsUntouchable ==
  ASSUME PaceInv, ServerInv, NEW m \in requests, Conflicts(op[m.call])
  PROVE  Untouchable(m.call)
<1> DEFINE o == op[m.call]
<1>1. /\ m.call \in Calls /\ m.attempt \in Nat /\ o \in Operation /\ pc[m.call] # "idle"
      /\ m.attempt <= attempt[m.call] /\ attempt[m.call] \in Nat
      /\ m = [call |-> m.call, attempt |-> m.attempt]
      /\ o.match # None => o.match <= version
  BY SentParts DEF ServerInv
<1>2. o.match = None \/ o.match \in Nat  BY <1>1, OperationParts
<1>3. version \in Nat  BY VersionsAssumption DEF PaceInv, TypeOK, Versions
<1>4. Remembered(o) \/ (o.match # None /\ o.match < version)
  BY <1>1, <1>2, <1>3 DEF Conflicts
<1>5. ASSUME NEW a \in applied, a.call = m.call  PROVE FALSE
  <2>1. o.method # "GET" /\ (o.key # None => o \in recorded)
    BY <1>5 DEF ServerInv, RecordInv
  <2>2. CASE o.key # None
    <3>1. Remembered(o) /\ o \in recorded  BY <2>1, <2>2 DEF Remembered
    <3> QED  BY <3>1 DEF Conflicts
  <2>3. CASE o.key = None
    <3>1. attempt[m.call] <= Bound(m.call)  BY <1>1 DEF PaceInv, CallInv, CallOK
    <3>2. Bound(m.call) = 0  BY <2>1, <2>3 DEF Bound, RetryAllowed
    <3>3. /\ a.attempt \in Nat /\ a = [call |-> a.call, attempt |-> a.attempt]
          /\ a.attempt <= attempt[a.call]
      BY SentParts DEF ServerInv
    <3>4. m.attempt = 0 /\ a.attempt = 0  BY <1>1, <1>5, <3>1, <3>2, <3>3
    <3>5. a = m  BY <1>1, <1>5, <3>3, <3>4
    <3> QED  BY <3>5 DEF ServerInv, SentInv
  <2> QED  BY <2>2, <2>3
<1> QED  BY <1>4, <1>5 DEF Untouchable

\* A request that is carried out is of no call that was refused.
LEMMA AppliedIsTouchable ==
  ASSUME PaceInv, SentInv, NEW m \in requests, Apply(m), NEW j \in Calls, Untouchable(j)
  PROVE  \A a \in applied' : a.call # j
<1>1. /\ op[m.call] \in Operation /\ ~Remembered(op[m.call])
      /\ op[m.call].match # None => op[m.call].match = version
      /\ applied' = applied \cup {m}
  BY Applying
<1>2. version \in Nat  BY VersionsAssumption DEF PaceInv, TypeOK, Versions
<1>3. m.call # j  BY <1>1, <1>2 DEF Untouchable
<1> QED  BY <1>1, <1>3 DEF Untouchable

\* The four things the server may do keep its answers true.
LEMMA ServerStaysTrue ==
  ASSUME PaceInv, ServerInv, TruthInv, NEW m \in requests,
         Apply(m) \/ Repeat(m) \/ Refuse(m) \/ TurnAway(m)
  PROVE  TruthInv'
<1>1. version \in Nat /\ SentInv
  BY VersionsAssumption DEF PaceInv, TypeOK, Versions, ServerInv
<1>2. \A j \in Calls : Untouchable(j) => \A a \in applied : a.call # j
  BY DEF Untouchable
<1>3. CASE Apply(m)
  <2>1. /\ op' = op /\ applied' = applied \cup {m}
        /\ recorded' = IF op[m.call].key = None THEN recorded
                       ELSE recorded \cup {op[m.call]}
    BY <1>1, <1>3, Applying
  <2>2. Handle(m, {"ok", "busy"})  BY <1>3 DEF Apply
  <2>3. CarriedOut(m.call)'  BY <2>1 DEF CarriedOut
  <2>4. \A j \in Calls : Untouchable(j) => \A a \in applied' : a.call # j
    BY <1>1, <1>3, AppliedIsTouchable
  <2>5. version' \in Nat /\ version <= version'
    <3>1. version' = version \/ version' = version + 1  BY <1>3 DEF Apply
    <3> QED  BY <1>1, <3>1
  <2> QED  BY <1>1, <2>1, <2>2, <2>3, <2>4, <2>5, HandlingStaysTrue
<1>4. CASE Repeat(m)
  <2>1. /\ Handle(m, {"ok", "busy"}) /\ UNCHANGED <<version, recorded, applied>>
        /\ op[m.call].method = "GET" \/ op[m.call] \in recorded
    BY <1>4 DEF Repeat, Request, serverVars
  <2>2. op' = op  BY <1>1, <2>1, Handling
  <2>3. op[m.call].method # "GET" => CarriedOut(m.call)
    BY <2>1 DEF ServerInv, RecordInv, CarriedOut
  <2>4. op[m.call].method # "GET" => CarriedOut(m.call)'
    BY <2>1, <2>2, <2>3 DEF CarriedOut
  <2> QED  BY <1>1, <1>2, <2>1, <2>4, HandlingStaysTrue
<1>5. CASE Refuse(m)
  <2>1. /\ Handle(m, {"conflict"}) /\ UNCHANGED <<version, recorded, applied>>
        /\ Conflicts(op[m.call])
    BY <1>5 DEF Refuse, Request, serverVars
  <2>2. op' = op  BY <1>1, <2>1, Handling
  <2>3. Untouchable(m.call)  BY <2>1, RefusedIsUntouchable
  <2>4. Untouchable(m.call)'  BY <2>1, <2>2, <2>3 DEF Untouchable, Remembered
  <2> QED  BY <1>1, <1>2, <2>1, <2>4, HandlingStaysTrue
<1>6. CASE TurnAway(m)
  <2>1. Handle(m, {"busy", "denied"}) /\ UNCHANGED <<version, recorded, applied>>
    BY <1>6 DEF TurnAway, serverVars
  <2> QED  BY <1>1, <1>2, <2>1, HandlingStaysTrue
<1> QED  BY <1>3, <1>4, <1>5, <1>6

\* A pause, or giving up, tells the caller nothing it could take for an effect.
LEMMA PausingTells ==
  ASSUME PaceInv, NEW c \in Calls, NEW held \in Reply \cup {None},
         attempt[c] \in 0..7, held # None => held.status = "busy", Pace(c, held)
  PROVE  /\ \A j \in Calls \ {c} : pc'[j] = pc[j] /\ told'[j] = told[j]
         /\ pc'[c] \in {"done", "sleep"}
         /\ told'[c] = told[c] \/ (told'[c] # "ok" /\ told'[c] # "conflict")
<1>1. CASE \E o \in {"busy", "invalid"} :
             /\ pc' = [pc EXCEPT ![c] = "done"] /\ told' = [told EXCEPT ![c] = o]
             /\ UNCHANGED delay
             /\ held # None /\ held.after > 600
  BY <1>1 DEF PaceInv, TypeOK
<1>2. CASE \E d \in 0..600 :
             /\ pc' = [pc EXCEPT ![c] = "sleep"] /\ delay' = [delay EXCEPT ![c] = d]
             /\ UNCHANGED told
             /\ Backoff(attempt[c]) <= d /\ (held # None => held.after <= d)
  BY <1>2 DEF PaceInv, TypeOK
<1> QED  BY <1>1, <1>2, Pausing

\* What a step of a call does to the calls, for the server's part of the invariant.
LEMMA CallSteps ==
  ASSUME PaceInv, NEW c \in Calls,
         Answered(c) \/ Broken(c) \/ Wake(c) \/ \E o \in Operation : Start(c, o)
  PROVE  /\ UNCHANGED <<requests, recorded, applied, version>>
         /\ \A j \in Calls : /\ pc[j] # "idle" =>
                                  /\ op'[j] = op[j] /\ pc'[j] # "idle"
                                  /\ \/ /\ attempt'[j] = attempt[j]
                                        /\ pc'[j] = "send" => pc[j] = "send"
                                     \/ attempt'[j] = attempt[j] + 1
                             /\ reply'[j] \in {None, reply[j]}
                             /\ \/ told'[j] = told[j]
                                \/ told'[j] # "ok" /\ told'[j] # "conflict"
                                \/ reply[j] # None /\ told'[j] = reply[j].status
<1>1. CASE Answered(c)
  <2> DEFINE r == reply[c]
  <2>1. /\ r # None /\ reply' = [reply EXCEPT ![c] = None]
        /\ UNCHANGED <<op, attempt, requests, recorded, applied, version>>
    BY <1>1 DEF Answered, serverVars
  <2>2. r \in Reply  BY <2>1 DEF PaceInv, TypeOK
  <2>3. Decode(r) \in {r.status, "invalid"}  BY <2>2, ReplyParts
  <2>4. CASE r.status # "busy" \/ LastAttempt(c)
    <3>1. pc' = [pc EXCEPT ![c] = "done"] /\ told' = [told EXCEPT ![c] = Decode(r)]
      BY <1>1, <2>4 DEF Answered, Tell
    <3> QED  BY <2>1, <2>3, <3>1 DEF PaceInv, TypeOK
  <2>5. CASE r.status = "busy" /\ ~LastAttempt(c)
    <3>1. Pace(c, r) /\ attempt[c] \in 0..7  BY <1>1, <2>5, NotTheLast DEF Answered
    <3>2. /\ \A j \in Calls \ {c} : pc'[j] = pc[j] /\ told'[j] = told[j]
          /\ pc'[c] \in {"done", "sleep"}
          /\ told'[c] = told[c] \/ (told'[c] # "ok" /\ told'[c] # "conflict")
      BY <2>2, <2>5, <3>1, PausingTells
    <3> QED  BY <2>1, <3>2 DEF PaceInv, TypeOK
  <2> QED  BY <2>4, <2>5
<1>2. CASE Broken(c)
  <2>1. /\ reply' = [reply EXCEPT ![c] = None] /\ pc[c] = "wait"
        /\ UNCHANGED <<op, attempt, requests, recorded, applied, version>>
    BY <1>2 DEF Broken, serverVars
  <2>2. CASE LastAttempt(c)
    <3>1. pc' = [pc EXCEPT ![c] = "done"] /\ told' = [told EXCEPT ![c] = "unreachable"]
      BY <1>2, <2>2 DEF Broken, Tell
    <3> QED  BY <2>1, <3>1 DEF PaceInv, TypeOK
  <2>3. CASE ~LastAttempt(c)
    <3>1. PICK held \in Aged(response[c]) : Pace(c, held)  BY <1>2, <2>3 DEF Broken
    <3>2. held \in Reply \cup {None} /\ (held # None => held.status = "busy")
      <4>1. CallOK(c) /\ response[c] \in Reply \cup {None}
        BY DEF PaceInv, TypeOK, CallInv
      <4>2. CASE response[c] = None  BY <3>1, <4>2 DEF Aged
      <4>3. CASE response[c] # None
        BY <2>1, <3>1, <4>1, <4>3, AgedParts DEF CallOK, Short
      <4> QED  BY <4>2, <4>3
    <3>3. attempt[c] \in 0..7  BY <2>3, NotTheLast
    <3>4. /\ \A j \in Calls \ {c} : pc'[j] = pc[j] /\ told'[j] = told[j]
          /\ pc'[c] \in {"done", "sleep"}
          /\ told'[c] = told[c] \/ (told'[c] # "ok" /\ told'[c] # "conflict")
      BY <3>1, <3>2, <3>3, PausingTells
    <3> QED  BY <2>1, <3>4 DEF PaceInv, TypeOK
  <2> QED  BY <2>2, <2>3
<1>3. CASE Wake(c)
  BY <1>3 DEF Wake, netVars, serverVars, PaceInv, TypeOK
<1>4. CASE \E o \in Operation : Start(c, o)
  BY <1>4 DEF Start, netVars, serverVars, PaceInv, TypeOK
<1> QED  BY <1>1, <1>2, <1>3, <1>4

-----------------------------------------------------------------------------
\* The inductive invariant.
AllInv == PaceInv /\ ServerInv /\ TruthInv

LEMMA AllStarts == Init => AllInv
<1> SUFFICES ASSUME Init  PROVE AllInv
  OBVIOUS
<1>1. ServerInv  BY DEF Init, ServerInv, SentInv, RecordInv, KeyedOnce
<1>2. TruthInv  BY NonePromisesNothing DEF Init, TruthInv, IsTrue
<1> QED  BY <1>1, <1>2, PaceStarts DEF AllInv

LEMMA AllKept == AllInv /\ [Next]_vars => AllInv'
<1> SUFFICES ASSUME AllInv, [Next]_vars  PROVE AllInv'
  OBVIOUS
<1> USE DEF AllInv
<1>1. SentInv  BY DEF ServerInv
<1>2. ASSUME NEW c \in Calls,
             Answered(c) \/ Broken(c) \/ Wake(c) \/ \E o \in Operation : Start(c, o)
      PROVE  AllInv'
  <2>1. PaceInv'
    BY <1>2, AnsweredPaces, BreakingPaces, WakingPaces, StartingPaces
  <2>2. /\ UNCHANGED <<requests, recorded, applied, version>>
        /\ \A j \in Calls : /\ pc[j] # "idle" =>
                                 /\ op'[j] = op[j] /\ pc'[j] # "idle"
                                 /\ \/ /\ attempt'[j] = attempt[j]
                                       /\ pc'[j] = "send" => pc[j] = "send"
                                    \/ attempt'[j] = attempt[j] + 1
                            /\ reply'[j] \in {None, reply[j]}
                            /\ \/ told'[j] = told[j]
                               \/ told'[j] # "ok" /\ told'[j] # "conflict"
                               \/ reply[j] # None /\ told'[j] = reply[j].status
    BY <1>2, CallSteps
  <2>3. ServerInv'  BY <2>2, ServerStands
  <2>4. TruthInv'  BY <1>1, <2>2, CallsStayTrue
  <2> QED  BY <2>1, <2>3, <2>4
<1>3. ASSUME NEW c \in Calls, Send(c)  PROVE AllInv'
  <2>1. PaceInv' /\ ServerInv'  BY <1>3, SendingPaces, SendingServes
  <2>2. UNCHANGED <<op, reply, told, recorded, applied, version>>
    BY <1>3 DEF Send, serverVars
  <2>3. TruthInv'  BY <1>1, <2>2, CallsStayTrue
  <2> QED  BY <2>1, <2>3
<1>4. ASSUME NEW m \in requests, Apply(m) \/ Repeat(m) \/ Refuse(m) \/ TurnAway(m)
      PROVE  AllInv'
  <2>1. PaceInv' /\ TruthInv'  BY <1>1, <1>4, ServerPaces, ServerStaysTrue
  <2>2. ASSUME Repeat(m) \/ Refuse(m) \/ TurnAway(m)  PROVE ServerInv'
    <3>1. \E statuses : Handle(m, statuses)  BY <2>2 DEF Repeat, Refuse, TurnAway
    <3>2. /\ requests' = requests \ {m} /\ UNCHANGED <<pc, op, attempt>>
          /\ UNCHANGED <<recorded, applied>>
      BY <1>1, <2>2, <3>1, Handling DEF Repeat, Refuse, TurnAway, serverVars
    <3> QED  BY <3>2, ServerStands
  <2>3. ServerInv'  BY <1>4, <2>2, ApplyingServes
  <2> QED  BY <2>1, <2>3
<1>5. CASE Advance
  <2>1. PaceInv'  BY <1>5, AdvancingPaces
  <2>2. /\ version' = version + 1
        /\ UNCHANGED <<pc, op, attempt, told, reply, requests, recorded, applied>>
    BY <1>5 DEF Advance, callVars, netVars
  <2>3. ServerInv'  BY <2>2, ServerStands
  <2>4. TruthInv'
    <3> SUFFICES ASSUME NEW j \in Calls
                 PROVE  /\ reply'[j] # None =>
                             /\ reply'[j].status = "conflict" => Untouchable(j)'
                             /\ reply'[j].status = "ok" /\ op'[j].method # "GET"
                                  => CarriedOut(j)'
                        /\ told'[j] = "conflict" => Untouchable(j)'
                        /\ told'[j] = "ok" /\ op'[j].method # "GET" => CarriedOut(j)'
      BY DEF TruthInv, IsTrue
    <3>1. version' \in Nat /\ version <= version'
      BY <2>2, VersionsAssumption DEF PaceInv, TypeOK, Versions
    <3>2. Untouchable(j) => \A a \in applied' : a.call # j  BY <2>2 DEF Untouchable
    <3> QED  BY <1>1, <2>2, <3>1, <3>2, PromisesLast
  <2> QED  BY <2>1, <2>3, <2>4
<1>6. CASE UNCHANGED vars
  <2>1. UNCHANGED <<pc, op, attempt, response, delay, told, asked, reply, requests,
                    version, recorded, applied>>
    BY <1>6 DEF vars, callVars, netVars, serverVars
  <2>2. PaceInv'
    BY <2>1 DEF PaceInv, TypeOK, CallInv, CallOK, Paced, Bound, LastAttempt
  <2>3. ServerInv'  BY <2>1 DEF ServerInv, SentInv, RecordInv, KeyedOnce
  <2>4. TruthInv'
    BY <2>1 DEF TruthInv, IsTrue, Untouchable, CarriedOut, Remembered
  <2> QED  BY <2>2, <2>3, <2>4
<1> QED  BY <1>2, <1>3, <1>4, <1>5, <1>6 DEF Next, ClientStep, ServerStep

LEMMA AllInvariant == Spec => []AllInv
  BY AllStarts, AllKept, PTL DEF Spec

-----------------------------------------------------------------------------
\* Every variable has its type, in particular no sleep is longer than a
\* minute and no call makes more attempts than max_retries and one: _request,
\* client.py.
THEOREM TypeCorrect == Spec => []TypeOK
<1>1. AllInv => TypeOK  BY DEF AllInv, PaceInv
<1> QED  BY <1>1, AllInvariant, PTL

\* What the invariant says of the properties.
LEMMA CallsAreTrue == AllInv => RetriesAsAsked /\ KeyedOnce /\ AnswersAreTrue
<1> SUFFICES ASSUME AllInv  PROVE RetriesAsAsked /\ KeyedOnce /\ AnswersAreTrue
  OBVIOUS
<1>1. RetriesAsAsked
  <2> SUFFICES ASSUME NEW c \in Calls
               PROVE  /\ pc[c] = "sleep" => /\ asked[c] <= delay[c]
                                            /\ delay[c] \in Backoff(attempt[c])..600
                      /\ told[c] = "busy" => LastAttempt(c) \/ asked[c] > 600
    BY DEF RetriesAsAsked
  <2>1. Paced(c) /\ (pc[c] # "done" => told[c] = None)
    BY DEF AllInv, PaceInv, CallInv, CallOK
  <2>2. None # "busy"  BY NoneIsNothing DEF Outcomes
  <2> QED  BY <2>1, <2>2 DEF Paced
<1>2. KeyedOnce  BY DEF AllInv, ServerInv
<1>3. RefusedIsUntouched
  BY DEF AllInv, TruthInv, IsTrue, Untouchable, RefusedIsUntouched
<1>4. SuccessIsCarriedOut
  BY DEF AllInv, TruthInv, IsTrue, CarriedOut, SuccessIsCarriedOut
<1> QED  BY <1>1, <1>2, <1>3, <1>4 DEF AnswersAreTrue

\* No attempt follows an answer before the time it asked for, a call that is
\* asked for more than a minute is over, and no call is told to come back later
\* by an answer an attempt has followed since: the retry loop of _request.
THEOREM RetriesAlwaysAsAsked == Spec => []RetriesAsAsked
  BY CallsAreTrue, AllInvariant, PTL

\* However many calls repeat an operation under one key, and however late
\* their attempts arrive, it is carried out at most once: the Idempotency-Key
\* that _request sends unchanged with every attempt.
THEOREM KeyedAlwaysOnce == Spec => []KeyedOnce
  BY CallsAreTrue, AllInvariant, PTL

\* A caller told 409 or 412 finds that nothing of its call was carried out, a
\* caller told of a success finds its request carried out: what _decode makes
\* of the last answer _request keeps.
THEOREM AnswersAlwaysTrue == Spec => []AnswersAreTrue
  BY CallsAreTrue, AllInvariant, PTL

-----------------------------------------------------------------------------
\* Where a call that has begun can get to in one step, of its own or of others.
Moves(c) ==
  /\ op'[c] = op[c]
  /\ \/ pc'[c] = pc[c] /\ attempt'[c] = attempt[c]
     \/ pc[c] = "send" /\ pc'[c] = "wait" /\ attempt'[c] = attempt[c]
     \/ pc[c] = "wait" /\ pc'[c] \in {"sleep", "done"} /\ attempt'[c] = attempt[c]
     \/ pc[c] = "sleep" /\ pc'[c] = "send" /\ attempt'[c] = attempt[c] + 1

\* An answer or a failure ends the attempt.
LEMMA AttemptEnds ==
  ASSUME PaceInv, NEW c \in Calls, Answered(c) \/ Broken(c), NEW j \in Calls
  PROVE  /\ UNCHANGED <<op, attempt>>
         /\ j # c => pc'[j] = pc[j] /\ told'[j] = told[j]
         /\ pc[c] = "wait" /\ pc'[c] \in {"sleep", "done"}
<1>1. /\ UNCHANGED <<op, attempt>> /\ pc[c] = "wait"  BY DEF Answered, Broken
<1>2. CASE \E outcome : Tell(c, outcome)
  <2>1. pc' = [pc EXCEPT ![c] = "done"] /\ (j # c => told'[j] = told[j])
    BY <1>2 DEF Tell, PaceInv, TypeOK
  <2> QED  BY <1>1, <2>1 DEF PaceInv, TypeOK
<1>3. ASSUME NEW held \in Reply \cup {None}, held # None => held.status = "busy",
             ~LastAttempt(c), Pace(c, held)
      PROVE  /\ j # c => pc'[j] = pc[j] /\ told'[j] = told[j]
             /\ pc'[c] \in {"sleep", "done"}
  <2>1. attempt[c] \in 0..7  BY <1>3, NotTheLast
  <2> QED  BY <1>3, <2>1, PausingTells
<1>4. CASE Answered(c) /\ ~\E outcome : Tell(c, outcome)
  <2>1. /\ reply[c] # None /\ reply[c].status = "busy" /\ ~LastAttempt(c)
        /\ Pace(c, reply[c])
    BY <1>4 DEF Answered
  <2>2. reply[c] \in Reply  BY <2>1 DEF PaceInv, TypeOK
  <2> QED  BY <1>1, <1>3, <2>1, <2>2
<1>5. CASE Broken(c) /\ ~\E outcome : Tell(c, outcome)
  <2>1. ~LastAttempt(c) /\ \E held \in Aged(response[c]) : Pace(c, held)
    BY <1>5 DEF Broken
  <2>2. PICK held \in Aged(response[c]) : Pace(c, held)  BY <2>1
  <2>3. CallOK(c) /\ response[c] \in Reply \cup {None}
    BY DEF PaceInv, TypeOK, CallInv
  <2>4. held \in Reply \cup {None} /\ (held # None => held.status = "busy")
    <3>1. CASE response[c] = None  BY <2>2, <3>1 DEF Aged
    <3>2. CASE response[c] # None
      BY <1>1, <2>2, <2>3, <3>2, AgedParts DEF CallOK, Short
    <3> QED  BY <3>1, <3>2
  <2> QED  BY <1>1, <1>3, <2>1, <2>2, <2>4
<1> QED  BY <1>2, <1>4, <1>5

LEMMA CallMoves ==
  ASSUME AllInv, [Next]_vars, NEW j \in Calls, pc[j] # "idle"
  PROVE  Moves(j)
<1>0. PaceInv /\ SentInv  BY DEF AllInv, ServerInv
<1>1. ASSUME NEW c \in Calls, Answered(c) \/ Broken(c)  PROVE Moves(j)
  BY <1>0, <1>1, AttemptEnds DEF Moves
<1>2. ASSUME NEW c \in Calls, Send(c)  PROVE Moves(j)
  BY <1>0, <1>2 DEF Send, PaceInv, TypeOK, Moves
<1>3. ASSUME NEW c \in Calls, Wake(c)  PROVE Moves(j)
  BY <1>0, <1>3 DEF Wake, PaceInv, TypeOK, Moves
<1>4. ASSUME NEW c \in Calls, NEW o \in Operation, Start(c, o)  PROVE Moves(j)
  BY <1>0, <1>4 DEF Start, PaceInv, TypeOK, Moves
<1>5. CASE ServerStep \/ UNCHANGED vars
  <2>1. UNCHANGED callVars
    BY <1>5 DEF ServerStep, Apply, Repeat, Refuse, TurnAway, Handle, Advance, vars
  <2> QED  BY <2>1 DEF callVars, Moves
<1> QED  BY <1>1, <1>2, <1>3, <1>4, <1>5 DEF Next, ClientStep

\* Fewer retries are left after each of its steps, or the next attempt is nearer.
LEMMA CallsShorten ==
  ASSUME AllInv, [Next]_vars, NEW c \in Calls, pc[c] # "idle"
  PROVE  /\ StepsLeft(c)' \in 0..StepsLeft(c)
         /\ pc'[c] # pc[c] => StepsLeft(c)' # StepsLeft(c)
<1>1. Moves(c)  BY CallMoves
<1>2. AllInv'  BY AllKept
<1>3. Bound(c) \in Nat /\ attempt[c] \in Nat /\ attempt'[c] \in Nat
  <2>1. Bound(c) \in 0..MaxRetries  BY BoundIsNat
  <2>2. attempt[c] \in 0..MaxRetries /\ attempt'[c] \in 0..MaxRetries
    BY <1>2 DEF AllInv, PaceInv, TypeOK, Attempts
  <2> QED  BY <2>1, <2>2, RetriesAssumption
<1>4. Bound(c)' = Bound(c)  BY <1>1 DEF Moves, Bound
<1>5. /\ attempt[c] <= Bound(c) /\ (pc[c] = "sleep" => attempt[c] < Bound(c))
      /\ pc[c] \in {"send", "wait", "sleep", "done"}
  BY DEF AllInv, PaceInv, TypeOK, CallInv, CallOK
<1>6. PICK rest \in Nat : rest = Bound(c) - attempt[c]  BY <1>3, <1>5
<1>7. /\ pc[c] = "send"  => StepsLeft(c) = 3 * rest + 2
      /\ pc[c] = "wait"  => StepsLeft(c) = 3 * rest + 1
      /\ pc[c] = "sleep" => StepsLeft(c) = 3 * rest
      /\ pc[c] = "done"  => StepsLeft(c) = 0
  BY <1>6 DEF StepsLeft, Bound
<1>8. CASE pc'[c] = pc[c] /\ attempt'[c] = attempt[c]
  <2>1. StepsLeft(c)' = StepsLeft(c)  BY <1>1, <1>8 DEF Moves, StepsLeft
  <2>2. StepsLeft(c) \in Nat  BY <1>5, <1>7
  <2> QED  BY <1>8, <2>1, <2>2
<1>9. CASE pc[c] = "send" /\ pc'[c] = "wait" /\ attempt'[c] = attempt[c]
  <2>1. StepsLeft(c)' = 3 * rest + 1
    BY <1>4, <1>6, <1>9 DEF StepsLeft, Bound
  <2> QED  BY <1>7, <1>9, <2>1
<1>10. CASE pc[c] = "wait" /\ pc'[c] = "sleep" /\ attempt'[c] = attempt[c]
  <2>1. StepsLeft(c)' = 3 * rest
    BY <1>4, <1>6, <1>10 DEF StepsLeft, Bound
  <2> QED  BY <1>7, <1>10, <2>1
<1>11. CASE pc[c] = "wait" /\ pc'[c] = "done"
  <2>1. StepsLeft(c)' = 0  BY <1>11 DEF StepsLeft
  <2> QED  BY <1>7, <1>11, <2>1
<1>12. CASE pc[c] = "sleep" /\ pc'[c] = "send" /\ attempt'[c] = attempt[c] + 1
  <2>1. rest >= 1 /\ rest - 1 = Bound(c) - attempt'[c]
    BY <1>3, <1>5, <1>6, <1>12
  <2>2. StepsLeft(c)' = 3 * (rest - 1) + 2
    BY <1>4, <1>12, <2>1 DEF StepsLeft, Bound
  <2> QED  BY <1>7, <1>12, <2>1, <2>2
<1> QED  BY <1>1, <1>8, <1>9, <1>10, <1>11, <1>12 DEF Moves

\* Every step a call takes brings its end nearer, and no step of the server, the
\* network or another call puts it off: for any number of calls and of retries
\* (the loop of _request, client.py).
THEOREM CallsAlwaysBounded == Spec => CallsAreBounded
<1>1. AllInv /\ [Next]_vars =>
        [\A c \in Calls : pc[c] # "idle" =>
           /\ StepsLeft(c)' \in 0..StepsLeft(c)
           /\ pc'[c] # pc[c] => StepsLeft(c)' # StepsLeft(c)]_vars
  BY CallsShorten
<1> QED  BY <1>1, AllInvariant, PTL DEF Spec, CallsAreBounded

-----------------------------------------------------------------------------
\* A call that is told of a conflict, or will be, is of a request that the server
\* does not remember: no other call under its key had it carried out.
Refused(c) == (reply[c] # None /\ reply[c].status = "conflict") \/ told[c] = "conflict"

IdleInv    == \A c \in Calls : pc[c] = "idle" => op[c] = None
RefusedInv == \A c \in Calls : Refused(c) => op[c] \notin recorded
OnceInv    == IdleInv /\ RefusedInv

LEMMA OnceStarts == Init => OnceInv
  BY NonePromisesNothing DEF Init, OnceInv, IdleInv, RefusedInv, Refused

LEMMA RefusedHasBegun ==
  ASSUME PaceInv, NEW c \in Calls, Refused(c)  PROVE pc[c] # "idle"
  BY NonePromisesNothing DEF PaceInv, CallInv, CallOK, Refused

LEMMA IdleKept == ASSUME AllInv, IdleInv, [Next]_vars PROVE IdleInv'
<1>0. PaceInv /\ SentInv  BY DEF AllInv, ServerInv
<1>1. ASSUME NEW c \in Calls, NEW o \in Operation, Start(c, o)  PROVE IdleInv'
  BY <1>0, <1>1 DEF Start, IdleInv, PaceInv, TypeOK
<1>2. CASE ~\E c \in Calls, o \in Operation : Start(c, o)
  <2>1. op' = op
    BY <1>2 DEF Next, ClientStep, ServerStep, Send, Answered, Broken, Wake, Apply, Repeat,
                Refuse, TurnAway, Handle, Advance, vars, callVars
  <2>2. ASSUME NEW j \in Calls, pc'[j] = "idle"  PROVE pc[j] = "idle"
    <3> SUFFICES ASSUME pc[j] # "idle"  PROVE FALSE
      OBVIOUS
    <3> QED  BY <2>2, CallMoves DEF Moves
  <2> QED  BY <2>1, <2>2 DEF IdleInv
<1> QED  BY <1>1, <1>2

\* A request that is carried out has not been refused to anyone.
LEMMA AppliedIsNotRefused ==
  ASSUME AllInv, NEW m \in requests, Apply(m), NEW j \in Calls, Refused(j)
  PROVE  op[j] # op[m.call]
<1>0. PaceInv /\ SentInv  BY DEF AllInv, ServerInv
<1>1. /\ ~Remembered(op[m.call])
      /\ op[m.call].match # None => op[m.call].match = version
  BY <1>0, Applying
<1>2. Untouchable(j)  BY DEF AllInv, TruthInv, IsTrue, Refused
<1>3. version \in Nat  BY <1>0, VersionsAssumption DEF PaceInv, TypeOK, Versions
<1> QED  BY <1>1, <1>2, <1>3 DEF Untouchable

\* Calls pass on what they were told; the server remembers no more than before.
LEMMA RefusedStays ==
  ASSUME PaceInv, RefusedInv, recorded' = recorded,
         \A j \in Calls : /\ pc[j] # "idle" => op'[j] = op[j]
                          /\ Refused(j)' => Refused(j)
  PROVE  RefusedInv'
  BY RefusedHasBegun DEF RefusedInv

LEMMA RefusedKept == ASSUME AllInv, RefusedInv, [Next]_vars PROVE RefusedInv'
<1>0. PaceInv /\ SentInv /\ ServerInv  BY DEF AllInv, ServerInv
<1>1. ASSUME NEW c \in Calls,
             Answered(c) \/ Broken(c) \/ Wake(c) \/ \E o \in Operation : Start(c, o)
      PROVE  RefusedInv'
  <2>1. /\ recorded' = recorded
        /\ \A j \in Calls : /\ pc[j] # "idle" => op'[j] = op[j]
                            /\ reply'[j] \in {None, reply[j]}
                            /\ \/ told'[j] = told[j]
                               \/ told'[j] # "ok" /\ told'[j] # "conflict"
                               \/ reply[j] # None /\ told'[j] = reply[j].status
    BY <1>0, <1>1, CallSteps
  <2>2. \A j \in Calls : Refused(j)' => Refused(j)  BY <2>1 DEF Refused
  <2> QED  BY <1>0, <2>1, <2>2, RefusedStays
<1>2. CASE (\E c \in Calls : Send(c)) \/ Advance \/ UNCHANGED vars
  <2>1. UNCHANGED <<recorded, op, reply, told>>
    BY <1>2 DEF Send, Advance, vars, callVars, netVars, serverVars
  <2>2. \A j \in Calls : Refused(j)' => Refused(j)  BY <2>1 DEF Refused
  <2> QED  BY <1>0, <2>1, <2>2, RefusedStays
<1>3. ASSUME NEW m \in requests, NEW statuses, Handle(m, statuses), NEW j \in Calls, Refused(j)'
      PROVE  Refused(j) \/ (j = m.call /\ "conflict" \in statuses)
  <2>1. told' = told  BY <1>0, <1>3, Handling
  <2>2. CASE UNCHANGED reply  BY <1>3, <2>1, <2>2 DEF Refused
  <2>3. CASE \E r \in Reply : /\ r.status \in statuses
                              /\ reply' = [reply EXCEPT ![m.call] = r]
    <3>1. PICK r \in Reply : r.status \in statuses /\ reply' = [reply EXCEPT ![m.call] = r]
      BY <2>3
    <3>2. reply'[j] = IF j = m.call THEN r ELSE reply[j]
      BY <1>0, <3>1 DEF PaceInv, TypeOK
    <3> QED  BY <1>3, <2>1, <3>1, <3>2 DEF Refused
  <2> QED  BY <1>0, <1>3, <2>2, <2>3, Handling
<1>4. ASSUME NEW m \in requests, Repeat(m) \/ TurnAway(m)  PROVE RefusedInv'
  <2>1. PICK statuses \in {{"ok", "busy"}, {"busy", "denied"}} : Handle(m, statuses)
    BY <1>4 DEF Repeat, TurnAway
  <2>2. UNCHANGED <<op, recorded>>  BY <1>4, <2>1 DEF Repeat, TurnAway, Handle, callVars, serverVars
  <2>3. \A j \in Calls : Refused(j)' => Refused(j)  BY <1>3, <2>1
  <2> QED  BY <1>0, <2>2, <2>3, RefusedStays
<1>5. ASSUME NEW m \in requests, Refuse(m)  PROVE RefusedInv'
  <2>1. Handle(m, {"conflict"}) /\ UNCHANGED <<op, recorded>> /\ Conflicts(op[m.call])
    BY <1>5 DEF Refuse, Handle, callVars, serverVars, Request
  <2>2. op[m.call] \notin recorded  BY <2>1 DEF Conflicts, Remembered
  <2>3. \A j \in Calls : Refused(j)' => Refused(j) \/ j = m.call  BY <1>3, <2>1
  <2> QED  BY <2>1, <2>2, <2>3 DEF RefusedInv
<1>6. ASSUME NEW m \in requests, Apply(m)  PROVE RefusedInv'
  <2>1. Handle(m, {"ok", "busy"}) /\ UNCHANGED op
        /\ recorded' \subseteq recorded \cup {op[m.call]}
    BY <1>0, <1>6, Applying DEF Apply
  <2>2. \A j \in Calls : Refused(j)' => Refused(j)  BY <1>3, <2>1
  <2>3. \A j \in Calls : Refused(j) => op[j] # op[m.call]  BY <1>6, AppliedIsNotRefused
  <2> QED  BY <2>1, <2>2, <2>3 DEF RefusedInv
<1> QED
  BY <1>1, <1>2, <1>4, <1>5, <1>6 DEF Next, ClientStep, ServerStep

-----------------------------------------------------------------------------
(***************************************************************************)
(* The calls implement ServedOnce                                          *)
(***************************************************************************)

LEMMA OnceBegins == Init => Once!Init
<1> SUFFICES ASSUME Init  PROVE Once!Init
  OBVIOUS
<1>1. \A c \in Calls : ~Changes(c)  BY DEF Init, Changes
<1>2. JobsDone = {}  BY DEF Init, JobsDone
<1> QED  BY <1>1, <1>2 DEF Once!Init, JobsAsked, Verdicts

\* What a caller may be told, and what it makes of it.
LEMMA VerdictParts ==
  /\ Verdict(None) = "none"
  /\ \A x : Verdict(x) \in {"none", "ok", "conflict", "unknown"}
  /\ \A x : /\ Verdict(x) = "ok" => x = "ok"
            /\ Verdict(x) = "conflict" => x = "conflict"
            /\ Verdict(x) = "none" => x = None
  BY NonePromisesNothing DEF Verdict

\* Two calls have one job if they have one request and its key, or are the same.
LEMMA JobParts ==
  ASSUME NEW c, NEW d, Job(c) = Job(d)
  PROVE  op[c] = op[d] /\ (op[c].key = None => c = d)
  BY DEF Job

LEMMA JobIsJob ==
  ASSUME NEW c \in Calls, op[c] \in Operation  PROVE Job(c) \in AllJobs
<1>1. op[c].key \in Keys \cup {None}  BY DEF Operation
<1> QED  BY <1>1 DEF Job, AllJobs

\* Requests, what was carried out of them and what was told of them stay.
LEMMA OnceStays ==
  ASSUME UNCHANGED <<op, told, applied>>
  PROVE  UNCHANGED <<JobsAsked, JobsDone, Verdicts>>
<1>1. \A c : Job(c)' = Job(c) /\ (Changes(c)' <=> Changes(c))  BY DEF Job, Changes
<1>2. JobsAsked' = JobsAsked  BY <1>1 DEF JobsAsked
<1>3. JobsDone' = JobsDone  BY <1>1 DEF JobsDone
<1>4. Verdicts' = Verdicts  BY <1>1 DEF Verdicts
<1> QED  BY <1>2, <1>3, <1>4

\* A call that begins asks for its job, if it is to change something.
LEMMA StartAsks ==
  ASSUME AllInv, OnceInv, NEW c \in Calls, NEW o \in Operation, Start(c, o)
  PROVE  Once!Ask(c) \/ UNCHANGED <<JobsAsked, JobsDone, Verdicts>>
<1>0. PaceInv /\ SentInv  BY DEF AllInv, ServerInv
<1>1. /\ pc[c] = "idle" /\ op' = [op EXCEPT ![c] = o] /\ UNCHANGED <<told, applied>>
  BY DEF Start, serverVars
<1>2. op[c] = None /\ told[c] = None /\ op'[c] = o
  BY <1>0, <1>1 DEF OnceInv, IdleInv, PaceInv, TypeOK, CallInv, CallOK
<1>3. \A d \in Calls \ {c} : op'[d] = op[d]  BY <1>0, <1>1 DEF PaceInv, TypeOK
<1>4. \A d \in Calls \ {c} : Job(d)' = Job(d) /\ (Changes(d)' <=> Changes(d))
  BY <1>3 DEF Job, Changes
<1>5. JobsDone' = JobsDone
  <2>1. \A a \in applied : a.call \in Calls \ {c}
    BY <1>0, <1>1, SentParts
  <2>2. \A a \in applied : Job(a.call)' = Job(a.call)  BY <1>4, <2>1
  <2> QED  BY <1>1, <2>2 DEF JobsDone
<1>6. Verdicts' = Verdicts
  <2>1. \A d \in Calls : Verdict(told[d])' = Verdict(told[d])  BY <1>1
  <2>2. ~Changes(c) /\ Verdict(told[c]) = "none"  BY <1>2, VerdictParts DEF Changes
  <2>3. \A d \in Calls : (IF Changes(d) THEN Verdict(told[d]) ELSE "none")'
                         = IF Changes(d) THEN Verdict(told[d]) ELSE "none"
    BY <1>4, <2>1, <2>2
  <2> QED  BY <2>3 DEF Verdicts
<1>7. JobsAsked[c] = None  BY <1>2 DEF JobsAsked, Changes
<1>8. CASE o.method = "GET"
  <2>1. ~Changes(c)'  BY <1>2, <1>8 DEF Changes
  <2>2. JobsAsked' = JobsAsked
    <3>1. \A d \in Calls : (IF Changes(d) THEN Job(d) ELSE None)'
                           = IF Changes(d) THEN Job(d) ELSE None
      BY <1>2, <1>4, <2>1 DEF Changes
    <3> QED  BY <3>1 DEF JobsAsked
  <2> QED  BY <1>5, <1>6, <2>2
<1>9. CASE o.method # "GET"
  <2>1. Changes(c)'  BY <1>2, <1>9, NoneAssumption DEF Changes
  <2>2. Job(c)' \in AllJobs
    <3>1. o.key \in Keys \cup {None}  BY DEF Operation
    <3> QED  BY <1>2, <3>1 DEF Job, AllJobs
  <2>3. JobsAsked'[c] \in AllJobs  BY <2>1, <2>2 DEF JobsAsked
  <2>4. JobsAsked' = [JobsAsked EXCEPT ![c] = JobsAsked'[c]]
    BY <1>4 DEF JobsAsked
  <2> QED  BY <1>5, <1>6, <1>7, <2>3, <2>4 DEF Once!Ask
<1> QED  BY <1>8, <1>9

\* A call that ends tells its caller what holds of its job.
LEMMA EndTells ==
  ASSUME AllInv, AllInv', RefusedInv', NEW c \in Calls, Answered(c) \/ Broken(c)
  PROVE  Once!Tell(c) \/ UNCHANGED <<JobsAsked, JobsDone, Verdicts>>
<1>0. PaceInv /\ SentInv  BY DEF AllInv, ServerInv
<1>1. /\ UNCHANGED <<op, applied>> /\ pc[c] = "wait"
      /\ \A j \in Calls \ {c} : told'[j] = told[j]
  <2>1. UNCHANGED <<op, applied>> /\ pc[c] = "wait"
    BY DEF Answered, Broken, serverVars
  <2> QED  BY <1>0, <2>1, AttemptEnds
<1>2. \A d : Job(d)' = Job(d) /\ (Changes(d)' <=> Changes(d))  BY <1>1 DEF Job, Changes
<1>3. JobsAsked' = JobsAsked  BY <1>2 DEF JobsAsked
<1>4. JobsDone' = JobsDone  BY <1>1, <1>2 DEF JobsDone
<1>5. Verdicts' = [Verdicts EXCEPT ![c] = IF Changes(c) THEN Verdict(told'[c]) ELSE "none"]
  BY <1>1, <1>2 DEF Verdicts
<1>6. told[c] = None /\ op[c] \in Operation  BY <1>0, <1>1 DEF PaceInv, CallInv, CallOK
<1>7. Verdicts[c] = "none"  BY <1>6, VerdictParts DEF Verdicts
<1>8. CASE ~Changes(c) \/ told'[c] = None
  <2>1. Verdicts' = [Verdicts EXCEPT ![c] = "none"]  BY <1>5, <1>8, VerdictParts
  <2>2. Verdicts' = Verdicts  BY <1>7, <2>1 DEF Verdicts
  <2> QED  BY <1>3, <1>4, <2>2
<1>9. CASE Changes(c) /\ told'[c] # None
  <2>1. JobsAsked[c] = Job(c) /\ Job(c) \in AllJobs
    BY <1>6, <1>9, JobIsJob DEF JobsAsked
  <2>2. IsTrue(told[c], c)'  BY DEF AllInv, TruthInv
  <2>3. told'[c] = "ok" => Job(c) \in JobsDone
    <3> SUFFICES ASSUME told'[c] = "ok"  PROVE Job(c) \in JobsDone
      OBVIOUS
    <3>1. CarriedOut(c)'  BY <1>1, <1>9, <2>2 DEF IsTrue, Changes
    <3>2. PICK a \in applied : op[a.call] = op[c] /\ (op[c].key = None => a.call = c)
      BY <1>1, <3>1 DEF CarriedOut
    <3>3. Job(a.call) = Job(c)  BY <3>2 DEF Job
    <3> QED  BY <3>2, <3>3 DEF JobsDone
  <2>4. told'[c] = "conflict" => Job(c) \notin JobsDone
    <3> SUFFICES ASSUME told'[c] = "conflict", NEW a \in applied, Job(a.call) = Job(c)
                 PROVE  FALSE
      BY DEF JobsDone
    <3>1. op[a.call] = op[c] /\ (op[c].key = None => a.call = c)  BY JobParts
    <3>2. op[c] \notin recorded'  BY <1>1 DEF RefusedInv, Refused
    <3>3. op[c].key # None => op[c] \in recorded'
      BY <1>1, <3>1 DEF AllInv, ServerInv, RecordInv
    <3>4. a.call # c  BY <1>1, <2>2 DEF IsTrue, Untouchable
    <3> QED  BY <3>1, <3>2, <3>3, <3>4
  <2>5. Verdict(told'[c]) \in {"ok", "conflict", "unknown"}  BY <1>9, VerdictParts
  <2>6. Verdicts' = [Verdicts EXCEPT ![c] = Verdict(told'[c])]  BY <1>5, <1>9
  <2>7. CASE Verdict(told'[c]) = "ok"
    <3>1. Job(c) \in JobsDone  BY <2>3, <2>7, VerdictParts
    <3> QED  BY <1>3, <1>4, <1>7, <2>1, <2>6, <2>7, <3>1 DEF Once!Tell
  <2>8. CASE Verdict(told'[c]) = "conflict"
    <3>1. Job(c) \notin JobsDone  BY <2>4, <2>8, VerdictParts
    <3> QED  BY <1>3, <1>4, <1>7, <2>1, <2>6, <2>8, <3>1 DEF Once!Tell
  <2>9. CASE Verdict(told'[c]) = "unknown"
    BY <1>3, <1>4, <1>7, <2>1, <2>6, <2>9 DEF Once!Tell
  <2> QED  BY <2>5, <2>7, <2>8, <2>9
<1> QED  BY <1>8, <1>9

\* An attempt is not carried out after another one of a call without a key.
LEMMA KeylessOnce ==
  ASSUME PaceInv, ServerInv, NEW m \in requests, NEW a \in applied,
         op[m.call].method # "GET", op[m.call].key = None
  PROVE  a.call # m.call
<1> SUFFICES ASSUME a.call = m.call  PROVE FALSE
  OBVIOUS
<1>1. /\ m.call \in Calls /\ m.attempt \in Nat /\ pc[m.call] # "idle"
      /\ m.attempt <= attempt[m.call] /\ attempt[m.call] \in Nat
      /\ m = [call |-> m.call, attempt |-> m.attempt]
  BY SentParts DEF ServerInv
<1>2. /\ a.attempt \in Nat /\ a = [call |-> a.call, attempt |-> a.attempt]
      /\ a.attempt <= attempt[a.call]
  BY SentParts DEF ServerInv
<1>3. attempt[m.call] <= Bound(m.call)  BY <1>1 DEF PaceInv, CallInv, CallOK
<1>4. Bound(m.call) = 0  BY DEF Bound, RetryAllowed
<1>5. m.attempt = 0 /\ a.attempt = 0  BY <1>1, <1>2, <1>3, <1>4
<1>6. a = m  BY <1>1, <1>2, <1>5
<1> QED  BY <1>6 DEF ServerInv, SentInv

\* The server carries out a job that was not done, under a key that was not
\* used, and that nobody was told is refused.
LEMMA ApplyCarriesOut ==
  ASSUME AllInv, OnceInv, NEW m \in requests, Apply(m)
  PROVE  Once!CarryOut(m.call)
<1> DEFINE c == m.call
<1>0. PaceInv /\ ServerInv /\ SentInv  BY DEF AllInv, ServerInv
<1>1. /\ op[c] \in Operation /\ op[c].method # "GET" /\ ~Remembered(op[c])
      /\ applied' = applied \cup {m} /\ UNCHANGED <<op, told>>
  BY <1>0, Applying
<1>2. c \in Calls  BY <1>0, SentParts
<1>3. Changes(c) /\ JobsAsked[c] = Job(c) /\ Job(c) \in AllJobs
  <2>1. Changes(c)  BY <1>1, NoneAssumption DEF Changes
  <2>2. Job(c) \in AllJobs  BY <1>1, <1>2, JobIsJob
  <2> QED  BY <1>2, <2>1, <2>2 DEF JobsAsked
<1>4. ASSUME NEW a \in applied
      PROVE  op[a.call].key = None \/ op[a.call].key # op[c].key
  <2>1. op[a.call].key # None => op[a.call] \in recorded
    BY <1>0 DEF ServerInv, RecordInv
  <2> QED  BY <1>1, <2>1 DEF Remembered
<1>5. Job(c) \notin JobsDone
  <2> SUFFICES ASSUME NEW a \in applied, Job(a.call) = Job(c)  PROVE FALSE
    BY DEF JobsDone
  <2>1. op[a.call] = op[c] /\ (op[c].key = None => a.call = c)  BY JobParts
  <2>2. op[c].key = None => a.call # c  BY <1>0, <1>1, KeylessOnce
  <2> QED  BY <1>4, <2>1, <2>2
<1>6. \A j \in JobsDone : j.key = None \/ j.key # Job(c).key
  <2> SUFFICES ASSUME NEW a \in applied
               PROVE  Job(a.call).key = None \/ Job(a.call).key # Job(c).key
    BY DEF JobsDone
  <2>1. Job(a.call).key = op[a.call].key /\ Job(c).key = op[c].key  BY DEF Job
  <2> QED  BY <1>4, <2>1
<1>7. ASSUME NEW d \in Calls, JobsAsked[d] = JobsAsked[c], Verdicts[d] = "conflict"
      PROVE  FALSE
  <2>1. Changes(d) /\ Verdict(told[d]) = "conflict"  BY <1>7 DEF Verdicts
  <2>2. Job(d) = Job(c)  BY <1>3, <1>7, <2>1 DEF JobsAsked
  <2>3. op[d] = op[c]  BY <2>2, JobParts
  <2>4. Refused(d)  BY <2>1, VerdictParts DEF Refused
  <2> QED  BY <2>3, <2>4, AppliedIsNotRefused
<1>8. \A x : Job(x)' = Job(x) /\ (Changes(x)' <=> Changes(x))  BY <1>1 DEF Job, Changes
<1>9. JobsAsked' = JobsAsked /\ Verdicts' = Verdicts
  BY <1>1, <1>8 DEF JobsAsked, Verdicts
<1>10. JobsDone' = JobsDone \cup {Job(c)}  BY <1>1, <1>8 DEF JobsDone
<1> QED  BY <1>3, <1>5, <1>6, <1>7, <1>9, <1>10 DEF Once!CarryOut

LEMMA OnceSteps ==
  ASSUME AllInv, OnceInv, [Next]_vars  PROVE [Once!Next]_(Once!vars)
<1>0. PaceInv /\ SentInv  BY DEF AllInv, ServerInv
<1>1. AllInv' /\ RefusedInv'  BY AllKept, RefusedKept DEF OnceInv
<1>2. ASSUME UNCHANGED <<JobsAsked, JobsDone, Verdicts>>  PROVE [Once!Next]_(Once!vars)
  BY <1>2 DEF Once!vars
<1>3. ASSUME NEW c \in Calls, NEW o \in Operation, Start(c, o)
      PROVE  [Once!Next]_(Once!vars)
  BY <1>2, <1>3, StartAsks DEF Once!Next
<1>4. ASSUME NEW c \in Calls, Answered(c) \/ Broken(c)  PROVE [Once!Next]_(Once!vars)
  BY <1>1, <1>2, <1>4, EndTells DEF Once!Next
<1>5. ASSUME NEW m \in requests, Apply(m)  PROVE [Once!Next]_(Once!vars)
  <2>1. m.call \in Calls  BY <1>0, SentParts
  <2> QED  BY <1>5, <2>1, ApplyCarriesOut DEF Once!Next
<1>6. CASE \/ \E c \in Calls : Send(c) \/ Wake(c)
           \/ \E m \in requests : Repeat(m) \/ Refuse(m) \/ TurnAway(m)
           \/ Advance \/ UNCHANGED vars
  <2>1. UNCHANGED <<op, told, applied>>
    BY <1>6 DEF Send, Wake, Repeat, Refuse, TurnAway, Handle, Advance, vars, callVars,
                serverVars
  <2> QED  BY <1>2, <2>1, OnceStays
<1> QED
  BY <1>3, <1>4, <1>5, <1>6 DEF Next, ClientStep, ServerStep

\* Through lost, late and repeated attempts, whatever the server turns away and
\* whoever shares a key, the calls are served as if each job were carried out in
\* one step, at most once, and never after a caller was told it is refused: for
\* any number of calls, keys, bodies, retries and versions (_request, client.py).
THEOREM CallsAlwaysServedOnce == Spec => CallsAreServedOnce
<1>1. AllInv /\ OnceInv /\ [Next]_vars => OnceInv'
  BY IdleKept, RefusedKept DEF OnceInv
<1>2. AllInv /\ OnceInv /\ [Next]_vars => [Once!Next]_(Once!vars)
  BY OnceSteps
<1> QED
  BY <1>1, <1>2, OnceBegins, OnceStarts, AllInvariant, PTL
  DEF Spec, CallsAreServedOnce, Once!Spec
=============================================================================
