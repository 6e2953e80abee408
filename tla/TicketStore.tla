----------------------------- MODULE TicketStore ----------------------------
(***************************************************************************)
(* examples/approved_record_update.py: applications that each change a     *)
(* ticket once, under an approval, through a LocalEmulator of their own;   *)
(* and the SQLite store they share, where a change and its receipt are one *)
(* transaction.  An application is killed at any moment, the answer of a   *)
(* change is lost after its commit, and the application is started again   *)
(* with the same operation or another.                                     *)
(*                                                                         *)
(* A transaction works on a copy of the tables, which replaces them when   *)
(* it commits; BEGIN IMMEDIATE lets one transaction write at a time.       *)
(***************************************************************************)
EXTENDS Naturals, FiniteSets

CONSTANTS
  Processes, Operations,
  MaxVersion,  \* the largest version a caller expects
  MaxStarts,   \* how often demonstrate is started
  None

Statuses  == {"open", "reviewed"}
Arguments == [expected_version : 0..MaxVersion, status : Statuses]
Results   == [status : Statuses, version : Nat]
Receipts  == [request : Arguments, result : Results]
Tables    == [ticket : Results, operations : [Operations -> Receipts \cup {None}]]

ASSUME ConstantsAssumption ==
  /\ IsFiniteSet(Operations) /\ MaxVersion \in Nat /\ MaxStarts \in Nat
  /\ None \notin Processes \cup Operations
  /\ None \notin Arguments /\ None \notin Results /\ None \notin Receipts
  /\ None \notin Tables

VARIABLES
  ticket,      \* the committed row: its status and version
  operations,  \* the committed receipts: request and result of each operation
  writer,      \* the process in a transaction, or None
  pc, operation, arguments,  \* where each process is, and what it was started with
  lose,        \* whether the answer of its change will be lost
  draft,       \* the tables as the transaction of a process sees them
  calls,       \* how often the registered tool ran
  answer,      \* what demonstrate knows of the change: a result, or None
  starts

store   == <<ticket, operations, writer>>
process == <<pc, operation, arguments, lose, draft, calls, answer>>
vars    == <<store, process, starts>>

\* What the application may be told at its end.
Ends == {"idle", "approved", "rejected", "raised", "killed"}

-----------------------------------------------------------------------------
Init ==
  /\ ticket = [status |-> "open", version |-> 1]
  /\ operations = [o \in Operations |-> None]
  /\ writer = None
  /\ pc = [p \in Processes |-> "idle"]
  /\ operation = [p \in Processes |-> None]
  /\ arguments = [p \in Processes |-> None]
  /\ lose = [p \in Processes |-> FALSE]
  /\ draft = [p \in Processes |-> None]
  /\ calls = [p \in Processes |-> 0]
  /\ answer = [p \in Processes |-> None]
  /\ starts = 0

GoTo(p, where) == pc' = [pc EXCEPT ![p] = where]

\* demonstrate: admit, register the tool, request the approval and decide it.
Start(p, o, a, approve, lost) ==
  /\ starts < MaxStarts /\ pc[p] \in Ends
  /\ starts' = starts + 1
  /\ operation' = [operation EXCEPT ![p] = o]
  /\ arguments' = [arguments EXCEPT ![p] = a]
  /\ lose' = [lose EXCEPT ![p] = lost]
  /\ calls' = [calls EXCEPT ![p] = 0]
  /\ answer' = [answer EXCEPT ![p] = None]
  /\ GoTo(p, IF approve THEN "invoke" ELSE "denied")
  /\ UNCHANGED <<store, draft>>

\* call_tool refuses without an approved decision, before the tool runs.
Deny(p) ==
  /\ pc[p] = "denied"
  /\ GoTo(p, "rejected")
  /\ UNCHANGED <<store, operation, arguments, lose, draft, calls, answer, starts>>

\* call_tool records tool.started and runs change, which calls update.
Valid(a) == a.expected_version >= 1

Invoke(p) ==
  /\ pc[p] = "invoke"
  /\ calls' = [calls EXCEPT ![p] = @ + 1]
  /\ GoTo(p, IF Valid(arguments[p]) THEN "begin" ELSE "raised")
  /\ UNCHANGED <<store, operation, arguments, lose, draft, answer, starts>>

-----------------------------------------------------------------------------
(***************************************************************************)
(* TicketStore.update                                                      *)
(***************************************************************************)
\* BEGIN IMMEDIATE, and the receipt of an operation done before: its result,
\* or an error when the operation was another change.
BeginAnswersAny(p) ==  \* mutant: the request of the receipt is not compared
  /\ pc[p] = "begin" /\ writer = None
  /\ IF operations[operation[p]] = None
     THEN /\ writer' = p
          /\ draft' = [draft EXCEPT ![p] = [ticket |-> ticket, operations |-> operations]]
          /\ GoTo(p, "update") /\ UNCHANGED answer
     ELSE /\ answer' = [answer EXCEPT ![p] = operations[operation[p]].result]
          /\ GoTo(p, IF lose[p] THEN "lost" ELSE "answered")
          /\ UNCHANGED <<writer, draft>>
  /\ UNCHANGED <<ticket, operations, operation, arguments, lose, calls, starts>>

Begin(p) ==
  LET old == operations[operation[p]] IN
  /\ pc[p] = "begin" /\ writer = None
  /\ \/ /\ old = None
        /\ writer' = p
        /\ draft' = [draft EXCEPT ![p] = [ticket |-> ticket, operations |-> operations]]
        /\ GoTo(p, "update") /\ UNCHANGED answer
     \/ /\ old # None /\ old.request # arguments[p]
        /\ GoTo(p, "raised") /\ UNCHANGED <<writer, draft, answer>>
     \/ /\ old # None /\ old.request = arguments[p]
        /\ answer' = [answer EXCEPT ![p] = IF lose[p] THEN None ELSE old.result]
        /\ GoTo(p, IF lose[p] THEN "lost" ELSE "answered")
        /\ UNCHANGED <<writer, draft>>
  /\ UNCHANGED <<ticket, operations, operation, arguments, lose, calls, starts>>

\* The database stays locked for longer than SQLite waits.
Locked(p) ==
  /\ pc[p] = "begin" /\ writer # None
  /\ GoTo(p, "raised")
  /\ UNCHANGED <<store, operation, arguments, lose, draft, calls, answer, starts>>

AnyRow(p) == TRUE  \* mutant: the version is not part of the condition

\* UPDATE ... WHERE version=?
RowMatches(p) == draft[p].ticket.version = arguments[p].expected_version

UpdateRow(p) ==
  /\ pc[p] = "update"
  /\ IF RowMatches(p)
     THEN /\ draft' = [draft EXCEPT ![p].ticket = [status |-> arguments[p].status, version |-> @.version + 1]]
          /\ GoTo(p, "receipt") /\ UNCHANGED writer
     ELSE /\ draft' = [draft EXCEPT ![p] = None]
          /\ writer' = None /\ GoTo(p, "raised")
  /\ UNCHANGED <<ticket, operations, operation, arguments, lose, calls, answer, starts>>

\* INSERT INTO operations
ResultOf(p) == [status |-> arguments[p].status, version |-> arguments[p].expected_version + 1]

InsertReceipt(p) ==
  /\ pc[p] = "receipt"
  /\ draft' = [draft EXCEPT ![p].operations[operation[p]] =
                 [request |-> arguments[p], result |-> ResultOf(p)]]
  /\ GoTo(p, "commit")
  /\ UNCHANGED <<store, operation, arguments, lose, calls, answer, starts>>

\* The end of the with block commits; change may then lose the answer.
Commit(p) ==
  /\ pc[p] = "commit"
  /\ ticket' = draft[p].ticket /\ operations' = draft[p].operations
  /\ writer' = None
  /\ draft' = [draft EXCEPT ![p] = None]
  /\ answer' = [answer EXCEPT ![p] = IF lose[p] THEN None ELSE ResultOf(p)]
  /\ GoTo(p, IF lose[p] THEN "lost" ELSE "answered")
  /\ UNCHANGED <<operation, arguments, lose, calls, starts>>

-----------------------------------------------------------------------------
(***************************************************************************)
(* demonstrate, after the tool.                                            *)
(***************************************************************************)
InvokeAnew(p) ==  \* mutant: the emulator runs an effect again that was started
  /\ pc[p] = "lost"
  /\ calls' = [calls EXCEPT ![p] = @ + 1]
  /\ GoTo(p, "begin")
  /\ UNCHANGED <<store, operation, arguments, lose, draft, answer, starts>>

\* ConnectionError: the second invoke is refused, as the effect is uncertain.
InvokeUncertain(p) ==
  /\ pc[p] = "lost"
  /\ GoTo(p, "inspect")
  /\ UNCHANGED <<store, operation, arguments, lose, draft, calls, answer, starts>>

\* store.result and reconcile_tool, or an operator has to look.
Reconcile(p) ==
  LET row == operations[operation[p]] IN
  /\ pc[p] = "inspect"
  /\ IF row # None /\ row.request = arguments[p]
     THEN /\ answer' = [answer EXCEPT ![p] = row.result]
          /\ GoTo(p, "answered")
     ELSE GoTo(p, "raised") /\ UNCHANGED answer
  /\ UNCHANGED <<store, operation, arguments, lose, draft, calls, starts>>

\* The last invoke is answered from tool.completed, without the tool.
Return(p) ==
  /\ pc[p] = "answered"
  /\ GoTo(p, "approved")
  /\ UNCHANGED <<store, operation, arguments, lose, draft, calls, answer, starts>>

KillLeavesRows(p) ==  \* mutant: every statement commits by itself
  /\ pc[p] \notin Ends
  /\ GoTo(p, "killed")
  /\ writer' = IF writer = p THEN None ELSE writer
  /\ ticket' = IF draft[p] = None THEN ticket ELSE draft[p].ticket
  /\ operations' = IF draft[p] = None THEN operations ELSE draft[p].operations
  /\ draft' = [draft EXCEPT ![p] = None]
  /\ UNCHANGED <<operation, arguments, lose, calls, answer, starts>>

\* The process is killed; SQLite takes an open transaction back.
Kill(p) ==
  /\ pc[p] \notin Ends
  /\ GoTo(p, "killed")
  /\ writer' = IF writer = p THEN None ELSE writer
  /\ draft' = [draft EXCEPT ![p] = None]
  /\ UNCHANGED <<ticket, operations, operation, arguments, lose, calls, answer, starts>>

-----------------------------------------------------------------------------
UpdateStep(p) == Begin(p) \/ Locked(p) \/ UpdateRow(p) \/ InsertReceipt(p) \/ Commit(p)
ApplicationStep(p) ==
  Deny(p) \/ Invoke(p) \/ UpdateStep(p) \/ InvokeUncertain(p) \/ Reconcile(p) \/ Return(p)

Next == \E p \in Processes :
  \/ \E o \in Operations, a \in Arguments, approve, lost \in BOOLEAN : Start(p, o, a, approve, lost)
  \/ ApplicationStep(p) \/ Kill(p)

Spec == Init /\ [][Next]_vars

-----------------------------------------------------------------------------
Versions == 1..(Cardinality(Operations) + 1)
Rows     == [status : Statuses, version : Versions]

\* Every variable stays in its type: no version without an operation that made
\* it, and a tool that runs once at most for each approval, as the test of the
\* example asserts.
TypeOK ==
  /\ ticket \in Rows
  /\ operations \in [Operations -> Receipts \cup {None}]
  /\ writer \in Processes \cup {None}
  /\ pc \in [Processes -> Ends \cup {"denied", "invoke", "begin", "update", "receipt", "commit",
                                     "lost", "inspect", "answered"}]
  /\ operation \in [Processes -> Operations \cup {None}]
  /\ arguments \in [Processes -> Arguments \cup {None}]
  /\ lose \in [Processes -> BOOLEAN]
  /\ draft \in [Processes -> Tables \cup {None}]
  /\ calls \in [Processes -> 0..1]
  /\ answer \in [Processes -> Results \cup {None}]
  /\ starts \in 0..MaxStarts

Finished == {o \in Operations : operations[o] # None}

\* The receipts are the history of the ticket: one for each version it had
\* after the first, each naming what the version before was expected to be,
\* and the ticket has the status of the last, whoever was killed in between.
ReceiptsAreHistory ==
  /\ ticket.version = Cardinality(Finished) + 1
  /\ {operations[o].result.version : o \in Finished} = 2..ticket.version
  /\ \A o \in Finished : operations[o].result.version = ticket.version => operations[o].result.status = ticket.status

AnswerIsReceipt(p) ==
  LET row == operations[operation[p]] IN
  /\ answer[p] # None => row # None /\ row.request = arguments[p] /\ row.result = answer[p]
  /\ pc[p] \in {"lost", "inspect"} => row # None /\ row.request = arguments[p]

\* What an application is told of its operation, by the first answer, by a
\* receipt found when it was started again, or by the reconciliation of a lost
\* answer, is the receipt of this operation with these arguments; and while an
\* application looks for a lost answer there is such a receipt to find.
AnswersAreReceipts == \A p \in Processes : AnswerIsReceipt(p)

\* The operation and the receipt each application was told of.
Told ==
  [p \in Processes |->
     IF answer[p] = None THEN None
     ELSE <<operation[p], [request |-> arguments[p], result |-> answer[p]]>>]

Atomic == INSTANCE AtomicChanges WITH
  Callers  <- Processes,
  Requests <- Arguments,
  Nothing  <- None,
  receipts <- operations,
  told     <- Told

\* docs/recipes.md:11, "Repeating the same operation does not write again; a
\* stale record version or changed request under the same operation ID fails":
\* the store implements changes that take effect at one moment.  Neither the
\* statements of update, nor a kill between two of them, nor a lost answer can
\* be told from outside.
ChangesAreAtomic == Atomic!Spec
=============================================================================
