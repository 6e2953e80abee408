----------------------------- MODULE Pagination ------------------------------
(***************************************************************************)
(* iter_tasks and iter_runs of both clients: one loop, written four times, *)
(* that follows next_cursor through a listing the cell filters.            *)
(*                                                                         *)
(* The cell takes PageLimit entries after the cursor and then drops those  *)
(* the caller may not see, so that a page can be empty and the listing     *)
(* still go on (docs/reference.md:25).  Entries are created, and           *)
(* permissions change, while the caller iterates.                          *)
(***************************************************************************)
EXTENDS Naturals, Sequences

CONSTANTS
  PageLimit,   \* the limit argument
  MaxEntries,  \* bound: entries of the listing
  MaxHidings   \* bound: changes of what the caller may see

ASSUME PageAssumption ==
  PageLimit \in Nat \ {0} /\ MaxEntries \in Nat /\ MaxHidings \in Nat

VARIABLES
  iterPc,
  cursor,     \* 0 stands for the empty string
  page,       \* the page held: its data, which of it the caller was given, its next_cursor
  yielded,    \* all the caller was given, in order
  listing,    \* cell: number of entries; the cursor counts through them
  visible,    \* cell: those the caller may see
  throughout, \* history: those visible ever since the iteration began
  hidings

iterVars == <<iterPc, cursor, page, yielded, listing, visible, throughout, hidings>>

NoPage == [data |-> {}, given |-> {}, next |-> 0]

-----------------------------------------------------------------------------
\* The cell's answer to list_tasks or list_runs; entries come in their order.
ListPage(after) ==
  LET last == IF after + PageLimit < listing THEN after + PageLimit ELSE listing IN
  [data  |-> {e \in visible : after < e /\ e <= last},
   given |-> {},
   next  |-> IF last < listing THEN last ELSE 0]

\* Mutant: an empty page is taken for the end.
StopsWhenEmpty(p) == p.next = 0 \/ p.data = {}

\* if not page.next_cursor: return
IsLast(p) == p.next = 0

IterInit ==
  /\ iterPc = "idle" /\ cursor = 0 /\ page = NoPage /\ yielded = <<>>
  /\ listing = 0 /\ visible = {} /\ throughout = {} /\ hidings = 0

BeginIteration ==
  /\ iterPc = "idle"
  /\ iterPc' = "fetch" /\ throughout' = visible
  /\ UNCHANGED <<cursor, page, yielded, listing, visible, hidings>>

\* One page is listed; the request may fail for good.
FetchListing ==
  /\ iterPc = "fetch"
  /\ \/ iterPc' = "yield" /\ page' = ListPage(cursor)
     \/ iterPc' = "failed" /\ UNCHANGED page
  /\ UNCHANGED <<cursor, yielded, listing, visible, throughout, hidings>>

\* The first entry of the page that the caller has not been given.
YieldListed ==
  /\ iterPc = "yield"
  /\ \E e \in page.data \ page.given :
       /\ \A f \in page.data \ page.given : e <= f
       /\ yielded' = Append(yielded, e)
       /\ page' = [page EXCEPT !.given = @ \cup {e}]
  /\ UNCHANGED <<iterPc, cursor, listing, visible, throughout, hidings>>

\* The page is used up: the iterator returns or goes on from its cursor.
TurnPage ==
  /\ iterPc = "yield" /\ page.given = page.data
  /\ IF IsLast(page) THEN iterPc' = "returned" /\ UNCHANGED cursor
                     ELSE iterPc' = "fetch" /\ cursor' = page.next
  /\ UNCHANGED <<page, yielded, listing, visible, throughout, hidings>>

\* The caller breaks out of its loop.
LeaveLoop ==
  /\ iterPc = "yield" /\ page.given # {}
  /\ iterPc' = "left"
  /\ UNCHANGED <<cursor, page, yielded, listing, visible, throughout, hidings>>

\* External: a task or run is created, or what the caller may see changes.
EntryCreated ==
  /\ iterPc \notin {"returned", "failed", "left"} /\ listing < MaxEntries
  /\ listing' = listing + 1
  /\ visible' \in {visible, visible \cup {listing + 1}}
  /\ UNCHANGED <<iterPc, cursor, page, yielded, throughout, hidings>>

PermissionChanges ==
  /\ iterPc \notin {"returned", "failed", "left"} /\ hidings < MaxHidings
  /\ \E e \in 1..listing :
       visible' = IF e \in visible THEN visible \ {e} ELSE visible \cup {e}
  /\ throughout' = throughout \cap visible'
  /\ hidings' = hidings + 1
  /\ UNCHANGED <<iterPc, cursor, page, yielded, listing>>

IterNext ==
  \/ BeginIteration \/ FetchListing \/ YieldListed \/ TurnPage \/ LeaveLoop
  \/ EntryCreated \/ PermissionChanges

IterSpec == IterInit /\ [][IterNext]_iterVars

-----------------------------------------------------------------------------
IterTypeOK ==
  /\ iterPc \in {"idle", "fetch", "yield", "returned", "failed", "left"}
  /\ cursor \in 0..MaxEntries /\ page.next \in 0..MaxEntries
  /\ page.given \subseteq page.data /\ yielded \in Seq(1..MaxEntries)
  /\ listing \in 0..MaxEntries /\ throughout \subseteq visible /\ visible \subseteq 1..listing

\* docs/sdk.md:79, "Follow next_cursor, including on an empty filtered page":
\* nothing is given twice, whatever is created or hidden meanwhile, and an
\* iterator that returns has given everything that was there when it began and
\* that the caller could see all the time.
ListedOnce ==
  /\ \A i, j \in DOMAIN yielded : i < j => yielded[i] < yielded[j]
  /\ iterPc = "returned" => throughout \subseteq {yielded[i] : i \in DOMAIN yielded}
=============================================================================
