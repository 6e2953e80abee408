---------------------------- MODULE SandboxProofs ----------------------------
(***************************************************************************)
(* Theorems about Sandbox: what run_extension leaves behind, and what it   *)
(* says.                                                                   *)
(*                                                                         *)
(* The module has no parameter but None, so TLC's run has seen all of its  *)
(* states; the proofs show why.  What two threads do to one process comes  *)
(* down to four facts: a child that has ended stays as it ended, so that   *)
(* it does not matter which thread reaps it; the main thread comes to its  *)
(* finally clause only with a child that was reaped, or by an interrupt,   *)
(* which is then all it reports; whoever kills has left a reason before;   *)
(* and a watcher that join did not give up on has nothing left to say when *)
(* the reasons are judged.                                                 *)
(***************************************************************************)
EXTENDS Sandbox, TLAPS

BeforeChild == {"enter", "input", "start"}
WithChild   == {"thread", "communicate", "kill", "wait"}
AfterChild  == {"finish", "join", "judge", "output"}

Reaped == returncode = child /\ child \in Ended

\* The child, where the main thread is: what was reaped is how it ended.
ChildOK ==
  /\ pc \in BeforeChild => child = "none"
  /\ pc \in WithChild => child # "none"
  /\ child = "none" => returncode = None /\ watcher = "none"
  /\ returncode # None => returncode = child
  /\ pc = "wait" => child \in Ended
  /\ pc \in AfterChild => child # "none" /\ (unguarded \/ Reaped)
  /\ pc = "done" => child = "none" \/ outcome = "threadless" \/ unguarded \/ Reaped

\* A call whose child an interrupt left to itself is on its way out with it.
InterruptOK ==
  unguarded => /\ pc \in {"finish", "join", "judge", "done"}
               /\ IF pc = "done" THEN outcome = "interrupted" ELSE raised = "interrupted"

\* A watcher is there when it was started, and stops before the reasons are
\* judged, unless join gave up on it.
WatcherOK ==
  /\ pc \in {"enter", "input", "start", "thread"} => watcher = "none"
  /\ outcome = "threadless" => watcher = "none"
  /\ watcher \in {"none", "loop", "look"} => failures < 3
  /\ pc \in {"judge", "output", "done"} =>
       abandoned \/ watcher \in {"none", "ended"} \/ outcome = "interrupted"

\* Whoever kills has left a reason.
ReasonsOK ==
  /\ pc \in {"enter", "input", "start", "thread", "communicate"} => raised = None
  /\ pc \in {"kill", "wait"} => raised # None
  /\ raised = "deadline" => overdue
  /\ memory_exceeded \/ watcher = "flag" => memory_reader
  /\ watcher = "kill" => memory_exceeded \/ canceled
  /\ child = "killed" => raised # None \/ memory_exceeded \/ canceled

\* What is judged, once it is.
JudgedOK ==
  /\ pc # "done" => outcome = None
  /\ pc = "output" => returncode = "exited" /\ (memory_exceeded => abandoned)
  /\ outcome = "value" => returncode = "exited" /\ (memory_exceeded => abandoned)
  /\ outcome = "deadline" => overdue
  /\ outcome = "memory" => memory_exceeded
  /\ outcome = "failed" /\ returncode = "killed" => canceled
  /\ outcome # None => pc = "done"

CallInv == TypeOK /\ ChildOK /\ InterruptOK /\ WatcherOK /\ ReasonsOK /\ JudgedOK

LEMMA CallStarts == Init => CallInv
<1> SUFFICES ASSUME Init  PROVE CallInv
  OBVIOUS
<1>1. TypeOK
  <2>1. \A flag \in {stopped, memory_exceeded, canceled, overdue, memory_reader, cancel_event,
                     abandoned, unguarded} : flag \in BOOLEAN
    BY Zenon DEF Init
  <2> QED  BY <2>1 DEF Init, TypeOK
<1>2. ChildOK /\ InterruptOK /\ WatcherOK
  BY DEF Init, ChildOK, InterruptOK, WatcherOK, BeforeChild, WithChild, AfterChild
<1>3. ReasonsOK /\ JudgedOK
  BY NoneAssumption DEF Init, ReasonsOK, JudgedOK
<1> QED  BY <1>1, <1>2, <1>3 DEF CallInv

\* The thread that called run_extension.
LEMMA MainKeeps == CallInv /\ MainStep => CallInv'
<1> SUFFICES ASSUME CallInv, MainStep  PROVE CallInv'
  OBVIOUS
<1> USE NoneAssumption
        DEF CallInv, TypeOK, ChildOK, Reaped, InterruptOK, WatcherOK, ReasonsOK, JudgedOK,
            BeforeChild, WithChild, AfterChild, Ended, mainVars, watchVars, flagVars,
            childVars, envVars, histVars,
            End, GoTo, KillGroup, Reap, MayValidate
<1>1. CASE Enter
  BY <1>1 DEF Enter
<1>2. CASE CheckInput
  BY <1>2 DEF CheckInput
<1>3. CASE StartChild
  BY <1>3 DEF StartChild
<1>4. CASE StartWatcher
  BY <1>4 DEF StartWatcher
<1>5. CASE ChildAnswers
  BY <1>5 DEF ChildAnswers
<1>6. CASE CommunicateRaises("deadline")
  BY <1>6 DEF CommunicateRaises
<1>7. CASE KillChild
  <2>1. TypeOK'  BY <1>7 DEF KillChild
  <2>2. ChildOK' /\ InterruptOK'  BY <1>7 DEF KillChild
  <2>3. WatcherOK'  BY <1>7 DEF KillChild
  <2>4. ReasonsOK'  BY <1>7 DEF KillChild
  <2>5. JudgedOK'  BY <1>7 DEF KillChild
  <2> QED  BY <2>1, <2>2, <2>3, <2>4, <2>5
<1>8. CASE WaitForChild
  BY <1>8 DEF WaitForChild
<1>9. CASE Finish
  BY <1>9 DEF Finish
<1>10. CASE Join
  <2>1. TypeOK'  BY <1>10 DEF Join
  <2>2. ChildOK' /\ InterruptOK'  BY <1>10 DEF Join
  <2>3. WatcherOK'  BY <1>10 DEF Join
  <2>4. ReasonsOK'  BY <1>10 DEF Join
  <2>5. JudgedOK'  BY <1>10 DEF Join
  <2> QED  BY <2>1, <2>2, <2>3, <2>4, <2>5
<1>11. CASE Judge
  BY <1>11 DEF Judge
<1>12. CASE CheckOutput
  BY <1>12 DEF CheckOutput
<1> QED  BY <1>1, <1>2, <1>3, <1>4, <1>5, <1>6, <1>7, <1>8, <1>9, <1>10, <1>11, <1>12 DEF MainStep

\* The watcher thread.
LEMMA WatcherKeeps == CallInv /\ WatcherStep => CallInv'
<1> SUFFICES ASSUME CallInv, WatcherStep  PROVE CallInv'
  OBVIOUS
<1> USE NoneAssumption
        DEF CallInv, TypeOK, ChildOK, Reaped, InterruptOK, WatcherOK, ReasonsOK, JudgedOK,
            BeforeChild, WithChild, AfterChild, Ended, mainVars, watchVars, flagVars,
            childVars, envVars, histVars,
            End, GoTo, KillGroup, Reap, MayValidate
<1>1. CASE WatchLoop
  BY <1>1 DEF WatchLoop
<1>2. CASE WatchCancel
  BY <1>2 DEF WatchCancel
<1>3. CASE WatchMemory
  BY <1>3 DEF WatchMemory
<1>4. CASE MemoryExcess
  BY <1>4 DEF MemoryExcess
<1>5. CASE InspectionFails
  BY <1>5 DEF InspectionFails
<1>6. CASE FlagMemory
  BY <1>6 DEF FlagMemory
<1>7. CASE WatcherKills
  BY <1>7 DEF WatcherKills
<1> QED  BY <1>1, <1>2, <1>3, <1>4, <1>5, <1>6, <1>7 DEF WatcherStep

LEMMA CallKeeps == CallInv /\ [Next]_vars => CallInv'
<1> SUFFICES ASSUME CallInv, [Next]_vars  PROVE CallInv'
  OBVIOUS
<1> USE NoneAssumption
        DEF CallInv, TypeOK, ChildOK, Reaped, InterruptOK, WatcherOK, ReasonsOK, JudgedOK,
            BeforeChild, WithChild, AfterChild, Ended, mainVars, watchVars, flagVars,
            childVars, envVars, histVars
<1>1. CASE MainStep     BY <1>1, MainKeeps
<1>2. CASE WatcherStep  BY <1>2, WatcherKeeps
<1>3. CASE CommunicateRaises("interrupted")
  BY <1>3 DEF CommunicateRaises
<1>4. CASE Interrupt
  <2>1. TypeOK'  BY <1>4 DEF Interrupt, End
  <2>2. ChildOK' /\ InterruptOK'  BY <1>4 DEF Interrupt, End
  <2>3. WatcherOK'  BY <1>4 DEF Interrupt, End
  <2>4. ReasonsOK'  BY <1>4 DEF Interrupt, End
  <2>5. JudgedOK'  BY <1>4 DEF Interrupt, End
  <2> QED  BY <2>1, <2>2, <2>3, <2>4, <2>5
<1>5. CASE ChildEnds
  BY <1>5 DEF ChildEnds
<1>6. CASE Cancel
  BY <1>6 DEF Cancel
<1>7. CASE DeadlinePasses
  BY <1>7 DEF DeadlinePasses
<1>8. CASE UNCHANGED vars
  BY <1>8 DEF vars
<1> QED  BY <1>1, <1>2, <1>3, <1>4, <1>5, <1>6, <1>7, <1>8 DEF Next

LEMMA CallInvariant == Spec => []CallInv
  BY CallStarts, CallKeeps, PTL DEF Spec

\* Every variable has its type: no step of either thread gets one out of it.
THEOREM TypesAlways == Spec => []TypeOK
<1>1. CallInv => TypeOK  BY DEF CallInv
<1> QED  BY <1>1, CallInvariant, PTL

\* When run_extension (sdk/python/src/geyser_sdk/extensions.py) is over, the
\* process it started is over and was reaped, whichever of the two threads of
\* run_handler (sandbox.py) killed it, saw it end or waited for it, unless the
\* watcher could not be started or an interrupt left the child to itself.
THEOREM ChildNeverLeft == Spec => []NoChildLeft
<1>1. CallInv => NoChildLeft  BY DEF CallInv, ChildOK, Reaped, NoChildLeft
<1> QED  BY <1>1, CallInvariant, PTL

\* A value comes of a child that ended well within its memory, and a child that
\* was killed is reported as the deadline, as its memory or as canceled only
\* when it was that (the except and finally clauses of run_handler).
THEOREM OutcomeAlwaysTrue == Spec => []OutcomeIsTrue
<1>1. CallInv => OutcomeIsTrue
  BY DEF CallInv, ReasonsOK, JudgedOK, OutcomeIsTrue, ValueIsEarned, ReasonIsTrue
<1> QED  BY <1>1, CallInvariant, PTL
=============================================================================
