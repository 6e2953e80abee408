----------------------------- MODULE ServedOnce ------------------------------
(***************************************************************************)
(* What a client promises of the calls that change something, whatever the *)
(* network and the server do to their requests: a job is carried out in    *)
(* one step and at most once for its key; a call is answered once; and     *)
(* what it is told of its job holds now and from then on.                  *)
(***************************************************************************)
CONSTANTS
  Callers,
  Jobs,     \* records with a field key
  NoKey, NoJob

VARIABLES
  work,     \* the job of each call, NoJob before it is asked for
  done,     \* the jobs carried out
  answer    \* what each call was told: "none", "ok", "conflict", "unknown"

vars == <<work, done, answer>>

Init ==
  /\ work = [c \in Callers |-> NoJob]
  /\ done = {}
  /\ answer = [c \in Callers |-> "none"]

Ask(c) ==
  /\ work[c] = NoJob
  /\ work'[c] \in Jobs
  /\ work' = [work EXCEPT ![c] = work'[c]]
  /\ UNCHANGED <<done, answer>>

\* No other job has its key, and nobody was told that it is refused.
CarryOut(c) ==
  /\ work[c] \in Jobs /\ work[c] \notin done
  /\ \A j \in done : j.key = NoKey \/ j.key # work[c].key
  /\ \A d \in Callers : work[d] = work[c] => answer[d] # "conflict"
  /\ done' = done \cup {work[c]}
  /\ UNCHANGED <<work, answer>>

Tell(c) ==
  /\ work[c] \in Jobs /\ answer[c] = "none"
  /\ \/ answer' = [answer EXCEPT ![c] = "ok"] /\ work[c] \in done
     \/ answer' = [answer EXCEPT ![c] = "conflict"] /\ work[c] \notin done
     \/ answer' = [answer EXCEPT ![c] = "unknown"]
  /\ UNCHANGED <<work, done>>

Next == \E c \in Callers : Ask(c) \/ CarryOut(c) \/ Tell(c)

Spec == Init /\ [][Next]_vars
=============================================================================
