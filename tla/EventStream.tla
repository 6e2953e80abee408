----------------------------- MODULE EventStream -----------------------------
(***************************************************************************)
(* What a watched run promises its application, whatever pages, cursors    *)
(* and reconnections are underneath: the events come one by one in their   *)
(* order, none before it happened; each is handled, or lost by the         *)
(* application itself; and the stream is over when the run is, and the     *)
(* events up to its end have come.                                         *)
(***************************************************************************)
EXTENDS Naturals, Sequences

CONSTANTS MaxEvents, NoEvent

VARIABLES
  current, finished,  \* how many events the run has, and which one ended it
  position,           \* how many events have been handled or lost
  handled, lost,      \* the events handled, in order, and the ones lost
  over                \* whether the stream has ended

vars == <<current, finished, position, handled, lost, over>>

Init ==
  /\ current = 1 /\ finished = NoEvent
  /\ position = 0 /\ handled = <<>> /\ lost = {} /\ over = FALSE

\* The next event comes.
Come ==
  /\ ~over /\ position < current
  /\ position' = position + 1
  /\ UNCHANGED <<current, finished, over>>

Handle == Come /\ handled' = Append(handled, position') /\ UNCHANGED lost
Lose   == Come /\ lost' = lost \cup {position'} /\ UNCHANGED handled

\* Events recorded after the end of the run need not come.
End ==
  /\ ~over /\ over' = TRUE
  /\ finished # NoEvent /\ finished <= position
  /\ UNCHANGED <<current, finished, position, handled, lost>>

Happen ==
  /\ current < MaxEvents
  /\ current' = current + 1
  /\ finished' \in {finished, IF finished = NoEvent THEN current' ELSE finished}
  /\ UNCHANGED <<position, handled, lost, over>>

Next == Handle \/ Lose \/ End \/ Happen

Spec == Init /\ [][Next]_vars
=============================================================================
