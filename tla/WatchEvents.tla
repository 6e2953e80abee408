----------------------------- MODULE WatchEvents ----------------------------
(***************************************************************************)
(* watch_events of the clients in sdk/python/src/geyser_sdk/client.py, and *)
(* the loop docs/sdk.md gives applications around it: save the cursor,     *)
(* then handle the event, and reconnect from the saved cursor.             *)
(*                                                                         *)
(* The generator reads a page, yields its events one by one, reads the run *)
(* and stops when it is terminal and nothing it counts is missing.  The    *)
(* run goes on between any two of these steps, a run that ended included:  *)
(* evaluations are recorded after completion.  Events are the numbers      *)
(* 1..sequence of the run.                                                 *)
(***************************************************************************)
EXTENDS Integers, Sequences

CONSTANTS
  Limit,      \* events in a page
  MaxEvents,  \* bound: events of the run
  MaxStops,   \* bound: failures of the watching application or its requests
  NoEvent

ASSUME WatchAssumption == Limit \in Nat \ {0}
ASSUME WatchBoundsAssumption == MaxEvents \in Nat \ {0} /\ MaxStops \in Nat
ASSUME NoEventAssumption == NoEvent \notin Nat

VARIABLES
  current,   \* server: sequence of the run
  finished,  \* server: sequence at which the run became terminal, or NoEvent
  watchPc,   \* where the application is
  sequence,  \* the generator's local variable
  page,      \* the events of the page not yet yielded
  event,     \* the event the application was given
  saved,     \* the cursor the application saved
  handled,   \* history: events handled, in order
  lost,      \* history: events whose cursor was saved and that were not handled
  stops      \* history: how often the application stopped

runVars == <<current, finished>>
appVars == <<event, saved, handled, lost, stops>>
watchVars == <<runVars, watchPc, sequence, page, appVars>>

Events == 1..MaxEvents

-----------------------------------------------------------------------------
WatchInit ==
  /\ current = 1 /\ finished = NoEvent
  /\ watchPc = "fetch" /\ sequence = 0 /\ page = {}
  /\ event = NoEvent /\ saved = 0
  /\ handled = <<>> /\ lost = {} /\ stops = 0

\* Mutant: the cursor moves on to the page's current_sequence.
FetchPageToCurrent ==
  /\ watchPc = "fetch"
  /\ page' = {e \in Events : sequence < e /\ e <= current /\ e <= sequence + Limit}
  /\ sequence' = current
  /\ watchPc' = IF page' = {} THEN "check" ELSE "yield"
  /\ UNCHANGED <<runVars, appVars>>

\* events(after_sequence=sequence): the first events after the cursor.
FetchPage ==
  /\ watchPc = "fetch"
  /\ page' = {e \in Events : sequence < e /\ e <= current /\ e <= sequence + Limit}
  /\ watchPc' = IF page' = {} THEN "check" ELSE "yield"
  /\ UNCHANGED <<runVars, sequence, appVars>>

\* The next event of the page is counted, then yielded.
Yield ==
  /\ watchPc = "yield"
  /\ \E e \in page :
       /\ \A f \in page : e <= f
       /\ sequence' = IF e > sequence THEN e ELSE sequence
       /\ page' = page \ {e}
       /\ event' = e
  /\ watchPc' = "save"
  /\ UNCHANGED <<runVars, saved, handled, lost, stops>>

\* save_cursor(event.sequence)
SaveCursor ==
  /\ watchPc = "save"
  /\ saved' = event
  /\ watchPc' = "handle"
  /\ UNCHANGED <<runVars, sequence, page, event, handled, lost, stops>>

\* handle_event(event), after which the generator is resumed.
HandleEvent ==
  /\ watchPc = "handle"
  /\ handled' = Append(handled, event)
  /\ watchPc' = IF page = {} THEN "check" ELSE "yield"
  /\ UNCHANGED <<runVars, sequence, page, event, saved, lost, stops>>

\* Mutant: a terminal run ends the watch, whatever was read of it.
DrainedWhenTerminal == finished # NoEvent

\* The run is terminal and has nothing beyond the cursor.
Drained == finished # NoEvent /\ sequence >= current

\* get_run: return, or sleep and read on.
CheckRun ==
  /\ watchPc = "check"
  /\ watchPc' = IF Drained THEN "returned" ELSE "fetch"
  /\ UNCHANGED <<runVars, sequence, page, appVars>>

\* A request fails for good, or the application stops, wherever it is.
Stop ==
  /\ watchPc \in {"fetch", "yield", "save", "handle", "check"}
  /\ stops < MaxStops
  /\ stops' = stops + 1
  /\ lost' = IF watchPc = "handle" THEN lost \cup {event} ELSE lost
  /\ watchPc' = "stopped"
  /\ UNCHANGED <<runVars, sequence, page, event, saved, handled>>

\* Mutant: the cursor of the generator that was given up is taken on.
ReconnectFromSequence ==
  /\ watchPc = "stopped"
  /\ page' = {}
  /\ watchPc' = "fetch"
  /\ UNCHANGED <<runVars, sequence, appVars>>

\* watch_events(run_id, after_sequence=last_sequence)
Reconnect ==
  /\ watchPc = "stopped"
  /\ sequence' = saved
  /\ page' = {}
  /\ watchPc' = "fetch"
  /\ UNCHANGED <<runVars, appVars>>

\* The run appends an event; the one that ends it may be followed by others.
RunAppends ==
  /\ current < MaxEvents
  /\ current' = current + 1
  /\ finished' \in {finished, IF finished = NoEvent THEN current' ELSE finished}
  /\ UNCHANGED <<watchPc, sequence, page, appVars>>

WatchStep == FetchPage \/ Yield \/ SaveCursor \/ HandleEvent \/ CheckRun \/ Reconnect

WatchNext == WatchStep \/ Stop \/ RunAppends

\* The watching application goes on, and reconnects when it stopped.
WatchFairness == WF_watchVars(WatchStep)

WatchSpec == WatchInit /\ [][WatchNext]_watchVars /\ WatchFairness

-----------------------------------------------------------------------------
WatchTypeOK ==
  /\ current \in Events /\ finished \in Events \cup {NoEvent}
  /\ watchPc \in {"fetch", "yield", "save", "handle", "check", "stopped", "returned"}
  /\ sequence \in Nat /\ page \subseteq Events
  /\ event \in Events \cup {NoEvent} /\ saved \in Nat
  /\ handled \in Seq(Events) /\ lost \subseteq Events /\ stops \in 0..MaxStops

\* No event is handled twice or out of order, across any number of
\* reconnections (docs/durable-runs.md:11, "saved cursors support reconnects").
HandledInOrder ==
  \A i, j \in DOMAIN handled : i < j => handled[i] < handled[j]

\* No event is skipped: everything before the one in hand was handled, except
\* what a stop between saving a cursor and handling its event lost.
NothingSkipped ==
  \A e \in 1..sequence :
    \/ watchPc \in {"save", "handle", "stopped"} /\ e > saved
    \/ watchPc = "handle" /\ e = event
    \/ e \in lost
    \/ \E i \in DOMAIN handled : handled[i] = e

\* The saved cursor is neither ahead of the application nor behind it.
HandledOnce == HandledInOrder /\ NothingSkipped

\* docs/sdk.md:77, "drains events observed at completion before returning":
\* when the watch returns, every event up to the one that ended the run has
\* been handled or was lost to a stop.
TerminalIsDrained ==
  watchPc = "returned" =>
    /\ finished # NoEvent
    /\ \A e \in 1..finished : e \in lost \/ \E i \in DOMAIN handled : handled[i] = e

\* How far the application is: the event in hand is neither handled nor lost.
Position == IF watchPc = "handle" THEN saved - 1 ELSE saved

Stream == INSTANCE EventStream WITH
  position <- Position,
  over     <- watchPc = "returned"

\* To its application a watch is one stream of events, in which the pages, the
\* generator's cursor, the saved one and the reconnections cannot be seen.
WatchIsStream == Stream!Spec

\* A watch of a run that ends returns, once the run appends nothing more.
WatchReturns == finished # NoEvent ~> watchPc = "returned"
=============================================================================
