-------------------------- MODULE TicketStoreProofs -------------------------
(***************************************************************************)
(* Proofs about TicketStore for every number of processes, operations,     *)
(* versions and starts: the receipts are the history of the ticket, and    *)
(* what an application is told is the receipt of its operation.            *)
(*                                                                         *)
(* The argument: one process at most is in a transaction, so its copy of   *)
(* the tables differs from the committed ones by its own change alone.     *)
(* The types follow: no version is without its receipt; and last that the  *)
(* store is one of AtomicChanges, in which a change has no parts.          *)
(***************************************************************************)
EXTENDS TicketStore, FiniteSetTheorems, TLAPS

InTransaction == {"update", "receipt", "commit"}
Started       == {"denied", "invoke", "begin", "lost", "inspect", "answered"} \cup InTransaction

StoreOK ==
  /\ ticket \in Results
  /\ operations \in [Operations -> Receipts \cup {None}]

ProcessesOK ==
  /\ pc \in [Processes -> Ends \cup Started]
  /\ operation \in [Processes -> Operations \cup {None}]
  /\ arguments \in [Processes -> Arguments \cup {None}]
  /\ draft \in [Processes -> Tables \cup {None}]
  /\ answer \in [Processes -> Results \cup {None}]

\* A process that runs or has an answer was started with an operation.
StartedOf(p) ==
  pc[p] \in Started \/ answer[p] # None => operation[p] \in Operations /\ arguments[p] \in Arguments

OneWriter == \A p \in Processes : pc[p] \in InTransaction <=> writer = p

\* The copy a transaction works on, at each of its steps.
DraftOf(p) ==
  pc[p] \in InTransaction =>
    /\ operations[operation[p]] = None /\ draft[p] # None
    /\ pc[p] = "update" => draft[p] = [ticket |-> ticket, operations |-> operations]
    /\ pc[p] \in {"receipt", "commit"} =>
         /\ ticket.version = arguments[p].expected_version
         /\ draft[p].ticket = [status |-> arguments[p].status, version |-> ticket.version + 1]
    /\ pc[p] = "receipt" => draft[p].operations = operations
    /\ pc[p] = "commit" =>
         draft[p].operations = [operations EXCEPT ![operation[p]] =
                                  [request |-> arguments[p], result |-> ResultOf(p)]]

ProcessInv(p) == StartedOf(p) /\ DraftOf(p) /\ AnswerIsReceipt(p)

Inv == StoreOK /\ ProcessesOK /\ OneWriter /\ (\A p \in Processes : ProcessInv(p))
       /\ ReceiptsAreHistory

\* A step of process p leaves the variables of the others alone.
OthersStay(p) ==
  \A q \in Processes : q # p =>
    /\ pc'[q] = pc[q] /\ operation'[q] = operation[q] /\ arguments'[q] = arguments[q]
    /\ draft'[q] = draft[q] /\ answer'[q] = answer[q]

\* A step that does not commit keeps the invariant if it does so for p.
LEMMA LocalStep ==
  ASSUME Inv, NEW p \in Processes, ProcessesOK', OthersStay(p), UNCHANGED <<ticket, operations>>,
         OneWriter', ProcessInv(p)'
  PROVE  Inv'
<1>1. StoreOK' /\ ReceiptsAreHistory' BY DEF Inv, StoreOK, ReceiptsAreHistory, Finished
<1>2. ASSUME NEW q \in Processes, q # p PROVE ProcessInv(q)'
  <2>1. ProcessInv(q) BY DEF Inv
  <2>2. /\ pc'[q] = pc[q] /\ operation'[q] = operation[q] /\ arguments'[q] = arguments[q]
        /\ draft'[q] = draft[q] /\ answer'[q] = answer[q]
    BY <1>2 DEF OthersStay
  <2> QED BY <2>1, <2>2 DEF ProcessInv, StartedOf, DraftOf, AnswerIsReceipt, ResultOf
<1> QED BY <1>1, <1>2 DEF Inv

-----------------------------------------------------------------------------
(***************************************************************************)
(* The steps that commit nothing.                                          *)
(***************************************************************************)
LEMMA StartStep ==
  ASSUME Inv, NEW p \in Processes, NEW o \in Operations, NEW a \in Arguments,
         NEW approve \in BOOLEAN, NEW lost \in BOOLEAN, Start(p, o, a, approve, lost)
  PROVE  Inv'
<1> USE DEF Start, GoTo, store
<1>1. ProcessesOK' BY DEF Inv, ProcessesOK, Started
<1>2. OthersStay(p) BY DEF Inv, ProcessesOK, OthersStay
<1>3. pc'[p] \in {"invoke", "denied"} /\ answer'[p] = None /\ operation'[p] = o /\ arguments'[p] = a
  BY DEF Inv, ProcessesOK
<1>4. OneWriter' BY <1>2, <1>3 DEF Inv, OneWriter, InTransaction, OthersStay, Ends
<1>5. ProcessInv(p)'
  BY <1>3 DEF ProcessInv, StartedOf, DraftOf, AnswerIsReceipt, InTransaction
<1> QED BY <1>1, <1>2, <1>4, <1>5, LocalStep

\* Steps that only move pc, outside of a transaction or out of "begin".
LEMMA PlainStep ==
  ASSUME Inv, NEW p \in Processes,
         Deny(p) \/ Invoke(p) \/ Locked(p) \/ InvokeUncertain(p) \/ Return(p)
  PROVE  Inv'
<1>1. UNCHANGED <<store, operation, arguments, draft, answer>>
  BY DEF Deny, Invoke, Locked, InvokeUncertain, Return
<1>2. PICK st \in {"rejected", "begin", "raised", "inspect", "approved"} :
        pc' = [pc EXCEPT ![p] = st]
  BY DEF Deny, Invoke, Locked, InvokeUncertain, Return, GoTo
<1>3. pc[p] \in Started \ InTransaction
  BY DEF Deny, Invoke, Locked, InvokeUncertain, Return, Started, InTransaction
<1>4. st = "inspect" => pc[p] = "lost"
  BY <1>2 DEF Deny, Invoke, Locked, InvokeUncertain, Return, GoTo, Inv, ProcessesOK
<1>5. ProcessesOK' BY <1>1, <1>2 DEF Inv, ProcessesOK, Started, Ends
<1>6. OthersStay(p) BY <1>1, <1>2 DEF Inv, ProcessesOK, OthersStay
<1>7. pc'[p] = st BY <1>2 DEF Inv, ProcessesOK
<1>8. OneWriter' BY <1>1, <1>3, <1>6, <1>7 DEF Inv, OneWriter, InTransaction, OthersStay, store
<1>9. ProcessInv(p)'
  <2>1. ProcessInv(p) BY DEF Inv
  <2>2. StartedOf(p)' BY <1>1, <1>3, <2>1 DEF ProcessInv, StartedOf
  <2>3. DraftOf(p)' BY <1>7 DEF DraftOf, InTransaction
  <2>4. AnswerIsReceipt(p)' BY <1>1, <1>4, <1>7, <2>1 DEF ProcessInv, AnswerIsReceipt, store
  <2> QED BY <2>2, <2>3, <2>4 DEF ProcessInv
<1> QED BY <1>1, <1>5, <1>6, <1>8, <1>9, LocalStep DEF store

LEMMA BeginStep ==
  ASSUME Inv, NEW p \in Processes, Begin(p)
  PROVE  Inv'
<1> USE DEF Begin, GoTo
<1> DEFINE old == operations[operation[p]]
           tables == [ticket |-> ticket, operations |-> operations]
<1>1. ProcessInv(p) /\ StoreOK BY DEF Inv
<1>2. operation[p] \in Operations /\ arguments[p] \in Arguments
  BY <1>1 DEF ProcessInv, StartedOf, Started
<1>3. old \in Receipts \cup {None} /\ None \notin Receipts
  BY <1>1, <1>2, ConstantsAssumption DEF StoreOK
<1>4. UNCHANGED <<ticket, operations, operation, arguments>> OBVIOUS
<1>5. OthersStay(p) BY DEF Inv, ProcessesOK, OthersStay
<1>6. CASE old = None
  <2>1. pc' = [pc EXCEPT ![p] = "update"] /\ writer' = p /\ writer = None
        /\ draft' = [draft EXCEPT ![p] = tables] /\ answer' = answer
    BY <1>6
  <2>2. tables \in Tables
    BY <1>1 DEF StoreOK, Tables
  <2>3. ProcessesOK' BY <1>4, <2>1, <2>2 DEF Inv, ProcessesOK, Started, InTransaction
  <2>4. pc'[p] = "update" /\ draft'[p] = tables BY <2>1 DEF Inv, ProcessesOK
  <2>5. \A q \in Processes : q # None BY ConstantsAssumption
  <2>6. OneWriter' BY <1>5, <2>1, <2>4, <2>5 DEF Inv, OneWriter, InTransaction, OthersStay
  <2>7. ProcessInv(p)'
    BY <1>1, <1>2, <1>4, <1>6, <2>1, <2>2, <2>4, ConstantsAssumption
    DEF ProcessInv, StartedOf, DraftOf, AnswerIsReceipt, InTransaction
  <2> QED BY <1>4, <1>5, <2>3, <2>6, <2>7, LocalStep
<1>7. CASE old # None
  <2>1. /\ UNCHANGED <<writer, draft>>
        /\ \/ pc' = [pc EXCEPT ![p] = "raised"] /\ answer' = answer
           \/ /\ old.request = arguments[p]
              /\ answer' \in {[answer EXCEPT ![p] = None], [answer EXCEPT ![p] = old.result]}
              /\ pc' \in {[pc EXCEPT ![p] = "lost"], [pc EXCEPT ![p] = "answered"]}
    BY <1>7
  <2>2. old.result \in Results BY <1>3, <1>7 DEF Receipts
  <2>3. ProcessesOK' BY <1>4, <2>1, <2>2 DEF Inv, ProcessesOK, Started, Ends
  <2>4. pc'[p] \in {"raised", "lost", "answered"} BY <2>1 DEF Inv, ProcessesOK
  <2>5. pc[p] \notin InTransaction BY DEF InTransaction
  <2>6. OneWriter' BY <1>5, <2>1, <2>4, <2>5 DEF Inv, OneWriter, InTransaction, OthersStay
  <2>7. StartedOf(p)' BY <1>2, <1>4 DEF StartedOf
  <2>8. DraftOf(p)' BY <2>4 DEF DraftOf, InTransaction
  <2>9. AnswerIsReceipt(p)'
    <3>1. CASE pc' = [pc EXCEPT ![p] = "raised"] /\ answer' = answer
      <4>1. pc'[p] = "raised" BY <3>1 DEF Inv, ProcessesOK
      <4> QED BY <1>1, <1>4, <3>1, <4>1 DEF ProcessInv, AnswerIsReceipt
    <3>2. CASE /\ old.request = arguments[p]
               /\ answer' \in {[answer EXCEPT ![p] = None], [answer EXCEPT ![p] = old.result]}
      <4>1. answer'[p] \in {None, old.result} BY <3>2 DEF Inv, ProcessesOK
      <4> QED BY <1>4, <1>7, <3>2, <4>1 DEF AnswerIsReceipt
    <3> QED BY <2>1, <3>1, <3>2
  <2> QED BY <1>4, <1>5, <2>3, <2>6, <2>7, <2>8, <2>9, LocalStep DEF ProcessInv
<1> QED BY <1>6, <1>7

LEMMA UpdateRowStep ==
  ASSUME Inv, NEW p \in Processes, UpdateRow(p)
  PROVE  Inv'
<1> USE DEF UpdateRow, GoTo
<1>1. ProcessInv(p) /\ StoreOK /\ pc[p] = "update" BY DEF Inv
<1>2. operation[p] \in Operations /\ arguments[p] \in Arguments /\ operations[operation[p]] = None
      /\ draft[p] = [ticket |-> ticket, operations |-> operations]
  BY <1>1 DEF ProcessInv, StartedOf, DraftOf, Started, InTransaction
<1>3. UNCHANGED <<ticket, operations, operation, arguments, answer>> OBVIOUS
<1>4. OthersStay(p) BY DEF Inv, ProcessesOK, OthersStay
<1>5. writer = p BY <1>1 DEF Inv, OneWriter, InTransaction
<1>6. StartedOf(p)' BY <1>2, <1>3 DEF StartedOf
<1>7. AnswerIsReceipt(p)'
  <2>1. pc'[p] \notin {"lost", "inspect"} BY DEF Inv, ProcessesOK
  <2> QED BY <1>1, <1>3, <2>1 DEF ProcessInv, AnswerIsReceipt
<1>8. CASE RowMatches(p)
  <2> DEFINE row == [status |-> arguments[p].status, version |-> ticket.version + 1]
             new == [ticket |-> row, operations |-> operations]
  <2>1. ticket.version = arguments[p].expected_version BY <1>2, <1>8 DEF RowMatches
  <2>2. draft' = [draft EXCEPT ![p].ticket = row] /\ writer' = writer
        /\ pc' = [pc EXCEPT ![p] = "receipt"]
    BY <1>2, <1>8
  <2>3. draft'[p] = new /\ pc'[p] = "receipt" BY <1>2, <2>2 DEF Inv, ProcessesOK
  <2>4. new \in Tables
    BY <1>1, <1>2 DEF StoreOK, Arguments, Results, Tables
  <2>5. [draft[p] EXCEPT !.ticket = row] = new BY <1>2
  <2>6. draft' = [draft EXCEPT ![p] = new] BY <2>2, <2>5
  <2> HIDE DEF new
  <2>7. draft' \in [Processes -> Tables \cup {None}]
    BY <2>4, <2>6 DEF Inv, ProcessesOK
  <2>8. pc' \in [Processes -> Ends \cup Started]
    BY <2>2 DEF Inv, ProcessesOK, Started, InTransaction
  <2>9. ProcessesOK' BY <1>3, <2>7, <2>8 DEF Inv, ProcessesOK
  <2> USE DEF new
  <2>10. OneWriter' BY <1>4, <1>5, <2>2, <2>3 DEF Inv, OneWriter, InTransaction, OthersStay
  <2>11. DraftOf(p)' BY <1>2, <1>3, <2>1, <2>3, <2>4, ConstantsAssumption DEF DraftOf
  <2> QED BY <1>3, <1>4, <1>6, <1>7, <2>9, <2>10, <2>11, LocalStep DEF ProcessInv
<1>9. CASE ~RowMatches(p)
  <2>1. draft' = [draft EXCEPT ![p] = None] /\ writer' = None /\ pc' = [pc EXCEPT ![p] = "raised"]
    BY <1>9
  <2>2. pc'[p] = "raised" BY <2>1 DEF Inv, ProcessesOK
  <2>3. ProcessesOK' BY <1>3, <2>1 DEF Inv, ProcessesOK, Ends
  <2>4. \A q \in Processes : q # None BY ConstantsAssumption
  <2>5. OneWriter' BY <1>4, <1>5, <2>1, <2>2, <2>4 DEF Inv, OneWriter, InTransaction, OthersStay
  <2>6. DraftOf(p)' BY <2>2 DEF DraftOf, InTransaction
  <2> QED BY <1>3, <1>4, <1>6, <1>7, <2>3, <2>5, <2>6, LocalStep DEF ProcessInv
<1> QED BY <1>8, <1>9

LEMMA InsertReceiptStep ==
  ASSUME Inv, NEW p \in Processes, InsertReceipt(p)
  PROVE  Inv'
<1> USE DEF InsertReceipt, GoTo, store
<1>1. ProcessInv(p) /\ StoreOK /\ pc[p] = "receipt" BY DEF Inv
<1>2. /\ operation[p] \in Operations /\ arguments[p] \in Arguments
      /\ operations[operation[p]] = None /\ draft[p].operations = operations
      /\ ticket.version = arguments[p].expected_version
      /\ draft[p].ticket = [status |-> arguments[p].status, version |-> ticket.version + 1]
  BY <1>1 DEF ProcessInv, StartedOf, DraftOf, Started, InTransaction
<1> DEFINE receipt == [request |-> arguments[p], result |-> ResultOf(p)]
           table   == [operations EXCEPT ![operation[p]] = receipt]
           new     == [draft[p] EXCEPT !.operations = table]
<1>3. receipt \in Receipts BY <1>2 DEF Receipts, Results, ResultOf, Arguments
<1>4. table \in [Operations -> Receipts \cup {None}] BY <1>1, <1>2, <1>3 DEF StoreOK
<1>5. draft[p] \in Tables
  BY <1>1 DEF Inv, ProcessesOK, ProcessInv, DraftOf, InTransaction
<1>6. /\ new \in Tables
      /\ new.operations = table /\ new.ticket = draft[p].ticket
  BY <1>4, <1>5 DEF Tables
<1>7. draft' = [draft EXCEPT ![p] = new]
  <2>1. draft' = [draft EXCEPT ![p].operations[operation[p]] = receipt] OBVIOUS
  <2>2. [draft EXCEPT ![p].operations[operation[p]] = receipt]
          = [draft EXCEPT ![p] = [draft[p] EXCEPT !.operations =
                                    [draft[p].operations EXCEPT ![operation[p]] = receipt]]]
    OBVIOUS
  <2> QED BY <1>2, <2>1, <2>2
<1>8. pc' = [pc EXCEPT ![p] = "commit"] /\ UNCHANGED <<ticket, operations, writer, operation, arguments, answer>>
  OBVIOUS
<1> HIDE DEF new, table, receipt
<1>9. draft'[p] = new /\ pc'[p] = "commit" BY <1>7, <1>8 DEF Inv, ProcessesOK
<1>10. draft' \in [Processes -> Tables \cup {None}]
  BY <1>6, <1>7 DEF Inv, ProcessesOK
<1>11. pc' \in [Processes -> Ends \cup Started] BY <1>8 DEF Inv, ProcessesOK, Started, InTransaction
<1>12. ProcessesOK' BY <1>8, <1>10, <1>11 DEF Inv, ProcessesOK
<1>13. OthersStay(p) BY <1>7, <1>8 DEF Inv, ProcessesOK, OthersStay
<1>14. OneWriter' BY <1>1, <1>8, <1>9, <1>13 DEF Inv, OneWriter, InTransaction, OthersStay
<1>15. StartedOf(p)' BY <1>2, <1>8 DEF StartedOf
<1>16. DraftOf(p)'
  BY <1>2, <1>6, <1>8, <1>9, ConstantsAssumption DEF DraftOf, table, receipt, ResultOf
<1>17. AnswerIsReceipt(p)' BY <1>1, <1>8, <1>9 DEF ProcessInv, AnswerIsReceipt
<1> QED BY <1>8, <1>12, <1>13, <1>14, <1>15, <1>16, <1>17, LocalStep DEF ProcessInv

LEMMA ReconcileStep ==
  ASSUME Inv, NEW p \in Processes, Reconcile(p)
  PROVE  Inv'
<1> USE DEF Reconcile, GoTo, store
<1> DEFINE row == operations[operation[p]]
<1>1. ProcessInv(p) /\ StoreOK /\ pc[p] = "inspect" BY DEF Inv
<1>2. operation[p] \in Operations /\ arguments[p] \in Arguments
  BY <1>1 DEF ProcessInv, StartedOf, Started
<1>3. row # None /\ row.request = arguments[p] BY <1>1 DEF ProcessInv, AnswerIsReceipt
<1>4. row.result \in Results BY <1>1, <1>2, <1>3 DEF StoreOK, Receipts
<1>5. answer' = [answer EXCEPT ![p] = row.result] /\ pc' = [pc EXCEPT ![p] = "answered"]
  BY <1>3
<1>6. UNCHANGED <<ticket, operations, writer, operation, arguments, draft>> OBVIOUS
<1>7. ProcessesOK' BY <1>4, <1>5, <1>6 DEF Inv, ProcessesOK, Started
<1>8. OthersStay(p) BY <1>5, <1>6 DEF Inv, ProcessesOK, OthersStay
<1>9. pc'[p] = "answered" /\ answer'[p] = row.result BY <1>5 DEF Inv, ProcessesOK
<1>10. OneWriter' BY <1>1, <1>6, <1>8, <1>9 DEF Inv, OneWriter, InTransaction, OthersStay
<1>11. ProcessInv(p)'
  BY <1>2, <1>3, <1>6, <1>9 DEF ProcessInv, StartedOf, DraftOf, AnswerIsReceipt, InTransaction
<1> QED BY <1>6, <1>7, <1>8, <1>10, <1>11, LocalStep

LEMMA KillStep ==
  ASSUME Inv, NEW p \in Processes, Kill(p)
  PROVE  Inv'
<1> USE DEF Kill, GoTo
<1>1. ProcessInv(p) BY DEF Inv
<1>2. pc' = [pc EXCEPT ![p] = "killed"] /\ draft' = [draft EXCEPT ![p] = None]
      /\ writer' = (IF writer = p THEN None ELSE writer)
      /\ UNCHANGED <<ticket, operations, operation, arguments, answer>>
  OBVIOUS
<1>3. ProcessesOK' BY <1>2 DEF Inv, ProcessesOK, Ends
<1>4. OthersStay(p) BY <1>2 DEF Inv, ProcessesOK, OthersStay
<1>5. pc'[p] = "killed" BY <1>2 DEF Inv, ProcessesOK
<1>6. \A q \in Processes : q # None BY ConstantsAssumption
<1>7. OneWriter' BY <1>2, <1>4, <1>5, <1>6 DEF Inv, OneWriter, InTransaction, OthersStay
<1>8. ProcessInv(p)'
  <2>1. StartedOf(p)' BY <1>1, <1>2, <1>5 DEF ProcessInv, StartedOf, Started, InTransaction
  <2>2. DraftOf(p)' BY <1>5 DEF DraftOf, InTransaction
  <2>3. AnswerIsReceipt(p)' BY <1>1, <1>2, <1>5 DEF ProcessInv, AnswerIsReceipt
  <2> QED BY <2>1, <2>2, <2>3 DEF ProcessInv
<1> QED BY <1>2, <1>3, <1>4, <1>7, <1>8, LocalStep

-----------------------------------------------------------------------------
(***************************************************************************)
(* The step that commits.                                                  *)
(***************************************************************************)
LEMMA CommitStep ==
  ASSUME Inv, NEW p \in Processes, Commit(p)
  PROVE  Inv'
<1> USE DEF Commit, GoTo
<1> DEFINE o       == operation[p]
           receipt == [request |-> arguments[p], result |-> ResultOf(p)]
<1>1. ProcessInv(p) /\ StoreOK /\ pc[p] = "commit" /\ ReceiptsAreHistory BY DEF Inv
<1>2. /\ o \in Operations /\ arguments[p] \in Arguments
      /\ operations[o] = None
      /\ ticket.version = arguments[p].expected_version
      /\ draft[p].ticket = [status |-> arguments[p].status, version |-> ticket.version + 1]
      /\ draft[p].operations = [operations EXCEPT ![o] = receipt]
  BY <1>1 DEF ProcessInv, StartedOf, DraftOf, Started, InTransaction
<1>3. /\ ticket' = [status |-> arguments[p].status, version |-> ticket.version + 1]
      /\ operations' = [operations EXCEPT ![o] = receipt]
      /\ UNCHANGED <<operation, arguments>>
  BY <1>2
<1>4. receipt \in Receipts /\ receipt # None /\ ResultOf(p) \in Results
  BY <1>2, ConstantsAssumption DEF Receipts, Results, ResultOf, Arguments
<1>5. ticket.version \in Nat /\ arguments[p].status \in Statuses
  BY <1>1, <1>2 DEF StoreOK, Results, Arguments
<1>6. StoreOK'
  <2> HIDE DEF receipt
  <2>1. operations' \in [Operations -> Receipts \cup {None}] BY <1>1, <1>3, <1>4 DEF StoreOK
  <2>2. ticket' \in Results BY <1>3, <1>5 DEF Results
  <2> QED BY <2>1, <2>2 DEF StoreOK
<1>7. OthersStay(p) BY DEF Inv, ProcessesOK, OthersStay
<1>8. ProcessesOK'
  <2>1. answer' \in [Processes -> Results \cup {None}] BY <1>4 DEF Inv, ProcessesOK
  <2>2. pc' \in [Processes -> Ends \cup Started] BY DEF Inv, ProcessesOK, Started
  <2> QED BY <1>3, <2>1, <2>2 DEF Inv, ProcessesOK
<1>9. pc'[p] \in {"lost", "answered"} /\ answer'[p] \in {None, ResultOf(p)}
  BY DEF Inv, ProcessesOK
<1>10. writer = p BY <1>1 DEF Inv, OneWriter, InTransaction
<1>11. OneWriter'
  <2>1. \A q \in Processes : q # None BY ConstantsAssumption
  <2> QED BY <1>7, <1>9, <1>10, <2>1 DEF Inv, OneWriter, InTransaction, OthersStay
<1>12. operations'[o] = receipt /\ \A x \in Operations : x # o => operations'[x] = operations[x]
  BY <1>1, <1>2, <1>3 DEF StoreOK
<1>13. ASSUME NEW q \in Processes PROVE ProcessInv(q)'
  <2>1. CASE q = p
    <3>1. StartedOf(p)' BY <1>2, <1>3 DEF StartedOf
    <3>2. DraftOf(p)' BY <1>9 DEF DraftOf, InTransaction
    <3>3. AnswerIsReceipt(p)' BY <1>3, <1>4, <1>9, <1>12 DEF AnswerIsReceipt
    <3> QED BY <2>1, <3>1, <3>2, <3>3 DEF ProcessInv
  <2>2. CASE q # p
    <3>1. ProcessInv(q) BY DEF Inv
    <3>2. /\ pc'[q] = pc[q] /\ operation'[q] = operation[q] /\ arguments'[q] = arguments[q]
          /\ draft'[q] = draft[q] /\ answer'[q] = answer[q]
      BY <1>7, <2>2 DEF OthersStay
    <3>3. pc[q] \notin InTransaction BY <1>10, <2>2 DEF Inv, OneWriter
    <3>4. StartedOf(q)' BY <3>1, <3>2 DEF ProcessInv, StartedOf
    <3>5. DraftOf(q)' BY <3>2, <3>3 DEF DraftOf
    <3>6. AnswerIsReceipt(q)'
      <4>1. CASE answer[q] # None \/ pc[q] \in {"lost", "inspect"}
        <5>1. operations[operation[q]] # None BY <3>1, <4>1 DEF ProcessInv, AnswerIsReceipt
        <5>2. operation[q] \in Operations BY <3>1, <4>1 DEF ProcessInv, StartedOf, Started
        <5>3. operations'[operation[q]] = operations[operation[q]] BY <1>2, <1>12, <5>1, <5>2
        <5> QED BY <3>1, <3>2, <5>3 DEF ProcessInv, AnswerIsReceipt
      <4>2. CASE ~(answer[q] # None \/ pc[q] \in {"lost", "inspect"})
        BY <3>2, <4>2 DEF AnswerIsReceipt
      <4> QED BY <4>1, <4>2
    <3> QED BY <3>4, <3>5, <3>6 DEF ProcessInv
  <2> QED BY <2>1, <2>2
<1>14. ReceiptsAreHistory'
  <2>1. Finished' = Finished \cup {o} /\ o \notin Finished BY <1>2, <1>4, <1>12 DEF Finished
  <2>2. IsFiniteSet(Finished) BY ConstantsAssumption, FS_Subset DEF Finished
  <2>3. Cardinality(Finished') = Cardinality(Finished) + 1 BY <2>1, <2>2, FS_AddElement
  <2>4. ticket'.version = ticket.version + 1 /\ ticket'.status = arguments[p].status BY <1>3
  <2>5. operations'[o].result.version = ticket.version + 1
        /\ operations'[o].result.status = arguments[p].status
    BY <1>2, <1>12 DEF ResultOf
  <2>6. \A x \in Finished : operations'[x] = operations[x] BY <1>12, <2>1 DEF Finished
  <2>7. ticket'.version = Cardinality(Finished') + 1
    <3>1. Cardinality(Finished) \in Nat BY <2>2, FS_CardinalityType
    <3> QED BY <1>1, <2>3, <2>4, <3>1 DEF ReceiptsAreHistory
  <2>8. {operations'[x].result.version : x \in Finished'} = 2..ticket'.version
    <3>1. {operations'[x].result.version : x \in Finished'}
            = {operations[x].result.version : x \in Finished} \cup {ticket.version + 1}
      BY <2>1, <2>5, <2>6
    <3>2. {operations[x].result.version : x \in Finished} = 2..ticket.version
      BY <1>1 DEF ReceiptsAreHistory
    <3>3. ticket.version >= 1
      <4>1. Cardinality(Finished) \in Nat BY <2>2, FS_CardinalityType
      <4> QED BY <1>1, <4>1 DEF ReceiptsAreHistory
    <3>4. 2..(ticket.version + 1) = (2..ticket.version) \cup {ticket.version + 1} BY <1>5, <3>3
    <3> QED BY <2>4, <3>1, <3>2, <3>4
  <2>9. ASSUME NEW x \in Finished', operations'[x].result.version = ticket'.version
        PROVE  operations'[x].result.status = ticket'.status
    <3>1. CASE x = o BY <2>4, <2>5, <3>1
    <3>2. CASE x \in Finished
      <4>1. operations[x].result.version \in 2..ticket.version
        BY <1>1, <3>2 DEF ReceiptsAreHistory
      <4>2. operations'[x].result.version # ticket.version + 1 BY <1>5, <2>6, <3>2, <4>1
      <4> QED BY <2>4, <2>9, <4>2
    <3> QED BY <2>1, <3>1, <3>2
  <2> QED BY <2>7, <2>8, <2>9 DEF ReceiptsAreHistory
<1> QED BY <1>6, <1>8, <1>11, <1>13, <1>14 DEF Inv

-----------------------------------------------------------------------------
LEMMA InvInit == Init => Inv
<1> SUFFICES ASSUME Init PROVE Inv OBVIOUS
<1> USE DEF Init
<1>1. StoreOK BY DEF StoreOK, Results, Statuses
<1>2. ProcessesOK BY DEF ProcessesOK, Ends
<1>3. OneWriter BY ConstantsAssumption DEF OneWriter, InTransaction
<1>4. \A p \in Processes : ProcessInv(p)
  BY DEF ProcessInv, StartedOf, DraftOf, AnswerIsReceipt, Started, InTransaction
<1>5. ReceiptsAreHistory
  <2>1. Finished = {} BY DEF Finished
  <2>2. 2..1 = {} OBVIOUS
  <2> QED BY <2>1, <2>2, FS_EmptySet DEF ReceiptsAreHistory
<1> QED BY <1>1, <1>2, <1>3, <1>4, <1>5 DEF Inv

LEMMA InvStep ==
  ASSUME Inv, [Next]_vars
  PROVE  Inv'
<1>1. CASE UNCHANGED vars
  <2> USE <1>1 DEF vars, store, process
  <2>1. StoreOK' /\ ProcessesOK' /\ OneWriter' BY DEF Inv, StoreOK, ProcessesOK, OneWriter
  <2>2. \A p \in Processes : ProcessInv(p)'
    BY DEF Inv, ProcessInv, StartedOf, DraftOf, AnswerIsReceipt, ResultOf
  <2>3. ReceiptsAreHistory' BY DEF Inv, ReceiptsAreHistory, Finished
  <2> QED BY <2>1, <2>2, <2>3 DEF Inv
<1>2. ASSUME NEW p \in Processes, NEW o \in Operations, NEW a \in Arguments,
             NEW approve \in BOOLEAN, NEW lost \in BOOLEAN, Start(p, o, a, approve, lost)
      PROVE  Inv'
  BY <1>2, StartStep
<1>3. ASSUME NEW p \in Processes, ApplicationStep(p) PROVE Inv'
  BY <1>3, PlainStep, BeginStep, UpdateRowStep, InsertReceiptStep, CommitStep, ReconcileStep
  DEF ApplicationStep, UpdateStep
<1>4. ASSUME NEW p \in Processes, Kill(p) PROVE Inv'
  BY <1>4, KillStep
<1> QED BY <1>1, <1>2, <1>3, <1>4 DEF Next

THEOREM InvHolds == Spec => []Inv
BY InvInit, InvStep, PTL DEF Spec

\* The receipts are the history of the ticket in every behaviour, for any
\* number of applications, operations and starts.
THEOREM ReceiptsAlwaysHistory == Spec => []ReceiptsAreHistory
<1>1. Inv => ReceiptsAreHistory BY DEF Inv
<1> QED BY <1>1, InvHolds, PTL

\* An application is told the receipt of its operation, or nothing.
THEOREM AnswersAlwaysReceipts == Spec => []AnswersAreReceipts
<1>1. Inv => AnswersAreReceipts BY DEF Inv, ProcessInv, AnswersAreReceipts
<1> QED BY <1>1, InvHolds, PTL
-----------------------------------------------------------------------------
(***************************************************************************)
(* The types: the rest of what a step leaves behind.                       *)
(***************************************************************************)
RestOK ==
  /\ writer \in Processes \cup {None} /\ starts \in 0..MaxStarts
  /\ lose \in [Processes -> BOOLEAN] /\ calls \in [Processes -> 0..1]
  /\ \A p \in Processes : pc[p] = "invoke" => calls[p] = 0

LEMMA RestKept ==
  ASSUME Inv, RestOK, Next
  PROVE  RestOK'
<1>1. ProcessesOK  BY DEF Inv
<1> USE <1>1 DEF RestOK, ProcessesOK, GoTo, store
<1>2. ASSUME NEW p \in Processes, NEW o \in Operations, NEW a \in Arguments,
             NEW approve \in BOOLEAN, NEW lost \in BOOLEAN, Start(p, o, a, approve, lost)
      PROVE  RestOK'
  <2>1. lose' \in [Processes -> BOOLEAN]
    <3>1. lose' = [lose EXCEPT ![p] = lost]  BY <1>2 DEF Start
    <3> QED  BY <3>1
  <2>2. starts' \in 0..MaxStarts  BY <1>2, ConstantsAssumption DEF Start
  <2>3. calls' \in [Processes -> 0..1] /\ \A q \in Processes : pc'[q] = "invoke" => calls'[q] = 0
    BY <1>2 DEF Start
  <2> QED  BY <1>2, <2>1, <2>2, <2>3 DEF Start
<1>3. ASSUME NEW p \in Processes, ApplicationStep(p) \/ Kill(p)
      PROVE  RestOK'
  <2>1. UNCHANGED <<lose, starts>>
    BY <1>3 DEF ApplicationStep, UpdateStep, Deny, Invoke, InvokeUncertain, Return, Begin, Locked,
                UpdateRow, InsertReceipt, Commit, Reconcile, Kill
  <2>2. writer' \in {writer, p, None}
    BY <1>3 DEF ApplicationStep, UpdateStep, Deny, Invoke, InvokeUncertain, Return, Begin, Locked,
                UpdateRow, InsertReceipt, Commit, Reconcile, Kill
  <2>3. PICK where \in Ends \cup (Started \ {"invoke"}) : pc' = [pc EXCEPT ![p] = where]
    BY <1>3 DEF ApplicationStep, UpdateStep, Deny, Invoke, InvokeUncertain, Return, Begin, Locked,
                UpdateRow, InsertReceipt, Commit, Reconcile, Kill, Ends, Started, InTransaction
  <2>4. \/ UNCHANGED calls
        \/ pc[p] = "invoke" /\ calls' = [calls EXCEPT ![p] = @ + 1]
    BY <1>3 DEF ApplicationStep, UpdateStep, Deny, Invoke, InvokeUncertain, Return, Begin, Locked,
                UpdateRow, InsertReceipt, Commit, Reconcile, Kill
  <2>5. where # "invoke"  BY <2>3 DEF Ends
  <2>6. calls' \in [Processes -> 0..1]  BY <2>4
  <2>7. \A q \in Processes : pc'[q] = "invoke" => calls'[q] = 0
    BY <2>3, <2>4, <2>5
  <2> QED  BY <2>1, <2>2, <2>6, <2>7
<1> QED  BY <1>2, <1>3 DEF Next

\* No version is without an operation that made it.
LEMMA VersionCounted == Inv => ticket \in Rows
<1> SUFFICES ASSUME Inv  PROVE ticket \in Rows
  OBVIOUS
<1>1. ticket.version = Cardinality(Finished) + 1  BY DEF Inv, ReceiptsAreHistory
<1>2. /\ Cardinality(Finished) <= Cardinality(Operations)
      /\ Cardinality(Finished) \in Nat /\ Cardinality(Operations) \in Nat
  <2>1. Finished \subseteq Operations  BY DEF Finished
  <2> QED  BY <2>1, ConstantsAssumption, FS_Subset, FS_CardinalityType
<1>3. ticket.version \in Versions  BY <1>1, <1>2 DEF Versions
<1> QED  BY <1>3 DEF Inv, StoreOK, Results, Rows

\* Every variable has its type, for any number of applications, operations and
\* starts: a tool runs once at most for each approval.
THEOREM TicketTypesAlways == Spec => []TypeOK
<1>1. Init => RestOK  BY ConstantsAssumption DEF Init, RestOK
<1>2. Inv /\ RestOK /\ [Next]_vars => RestOK'
  <2>1. Inv /\ RestOK /\ UNCHANGED vars => RestOK'
    BY DEF RestOK, vars, store, process
  <2> QED  BY <2>1, RestKept
<1>3. Inv /\ RestOK => TypeOK
  BY VersionCounted DEF Inv, StoreOK, ProcessesOK, RestOK, TypeOK, Started, InTransaction
<1> QED  BY <1>1, <1>2, <1>3, InvHolds, PTL DEF Spec

-----------------------------------------------------------------------------
(***************************************************************************)
(* The refinement: only the commit of a transaction is a change, only the  *)
(* receipt found by Begin or Reconcile, or the answer of Commit, tells an  *)
(* application anything, and every other step cannot be seen.              *)
(***************************************************************************)
LEMMA ToldStays == ASSUME UNCHANGED <<operation, arguments, answer>> PROVE Told' = Told
  BY DEF Told

\* A step of p changes what p was told alone.
LEMMA ToldMoves ==
  ASSUME NEW p \in Processes, OthersStay(p)
  PROVE  Told' = [Told EXCEPT ![p] = Told'[p]]
<1>1. \A q \in Processes : q # p => Told'[q] = Told[q]
  BY DEF OthersStay, Told
<1> QED  BY <1>1 DEF Told

\* A receipt is its request and its result.
LEMMA ReceiptParts ==
  ASSUME Inv, NEW o \in Operations, operations[o] # None
  PROVE  /\ operations[o] = [request |-> operations[o].request, result |-> operations[o].result]
         /\ operations[o].result # None
<1>1. operations[o] \in Receipts  BY DEF Inv, StoreOK
<1> QED  BY <1>1, ConstantsAssumption DEF Receipts

\* An application that learns of a receipt is told of it by the abstract store.
LEMMA Telling ==
  ASSUME Inv, NEW p \in Processes, OthersStay(p), operation[p] \in Operations,
         operations[operation[p]] # None,
         operations[operation[p]].request = arguments[p],
         answer'[p] = operations[operation[p]].result,
         UNCHANGED <<ticket, operations, operation, arguments>>
  PROVE  Atomic!Tell(p, operation[p])
<1>1. Told'[p] = <<operation[p], operations[operation[p]]>>
  BY ReceiptParts DEF Told
<1>2. Told' = [Told EXCEPT ![p] = <<operation[p], operations[operation[p]]>>]
  BY <1>1, ToldMoves
<1> QED  BY <1>2 DEF Atomic!Tell

LEMMA StartRefines ==
  ASSUME Inv, NEW p \in Processes, NEW o \in Operations, NEW a \in Arguments,
         NEW approve \in BOOLEAN, NEW lost \in BOOLEAN, Start(p, o, a, approve, lost)
  PROVE  Atomic!Forget(p)
<1>1. OthersStay(p)
  BY DEF Inv, ProcessesOK, OthersStay, Start, GoTo
<1>2. answer'[p] = None  BY DEF Inv, ProcessesOK, Start
<1>3. Told'[p] = None  BY <1>2 DEF Told
<1>4. Told' = [Told EXCEPT ![p] = None]  BY <1>1, <1>3, ToldMoves
<1> QED  BY <1>4 DEF Atomic!Forget, Start, store

\* Steps that neither commit nor answer.
LEMMA QuietRefines ==
  ASSUME NEW p \in Processes,
         \/ Deny(p) \/ Invoke(p) \/ Locked(p) \/ UpdateRow(p) \/ InsertReceipt(p)
         \/ InvokeUncertain(p) \/ Return(p) \/ Kill(p)
  PROVE  UNCHANGED Atomic!vars
<1>1. UNCHANGED <<ticket, operations, operation, arguments, answer>>
  BY DEF Deny, Invoke, Locked, UpdateRow, InsertReceipt, InvokeUncertain, Return, Kill, store
<1> QED  BY <1>1, ToldStays DEF Atomic!vars

LEMMA BeginRefines ==
  ASSUME Inv, NEW p \in Processes, Begin(p)
  PROVE  Atomic!Next \/ UNCHANGED Atomic!vars
<1> DEFINE old == operations[operation[p]]
<1>1. UNCHANGED <<ticket, operations, operation, arguments>> /\ pc[p] = "begin"
  BY DEF Begin
<1>2. operation[p] \in Operations
  BY <1>1 DEF Inv, ProcessInv, StartedOf, Started
<1>3. CASE UNCHANGED answer
  BY <1>1, <1>3, ToldStays DEF Atomic!vars
<1>4. CASE /\ old # None /\ old.request = arguments[p]
           /\ answer' = [answer EXCEPT ![p] = IF lose[p] THEN None ELSE old.result]
           /\ GoTo(p, IF lose[p] THEN "lost" ELSE "answered")
           /\ UNCHANGED <<writer, draft>>
  <2>1. OthersStay(p)
    BY <1>1, <1>4 DEF Inv, ProcessesOK, OthersStay, GoTo
  <2>2. CASE lose[p]
    <3>1. answer'[p] = None  BY <1>4, <2>2 DEF Inv, ProcessesOK
    <3>2. Told'[p] = None  BY <3>1 DEF Told
    <3>3. Told' = [Told EXCEPT ![p] = None]  BY <2>1, <3>2, ToldMoves
    <3> QED  BY <1>1, <3>3 DEF Atomic!Next, Atomic!Forget
  <2>3. CASE ~lose[p]
    <3>1. answer'[p] = old.result  BY <1>4, <2>3 DEF Inv, ProcessesOK
    <3>2. Atomic!Tell(p, operation[p])  BY <1>1, <1>2, <1>4, <2>1, <3>1, Telling
    <3> QED  BY <1>2, <3>2 DEF Atomic!Next
  <2> QED  BY <2>2, <2>3
<1> QED  BY <1>3, <1>4 DEF Begin

LEMMA ReconcileRefines ==
  ASSUME Inv, NEW p \in Processes, Reconcile(p)
  PROVE  Atomic!Next \/ UNCHANGED Atomic!vars
<1> DEFINE row == operations[operation[p]]
<1>1. UNCHANGED <<ticket, operations, operation, arguments, draft>> /\ pc[p] = "inspect"
  BY DEF Reconcile, store
<1>2. operation[p] \in Operations
  BY <1>1 DEF Inv, ProcessInv, StartedOf, Started
<1>3. CASE UNCHANGED answer
  BY <1>1, <1>3, ToldStays DEF Atomic!vars
<1>4. CASE /\ row # None /\ row.request = arguments[p]
           /\ answer' = [answer EXCEPT ![p] = row.result]
           /\ GoTo(p, "answered")
  <2>1. OthersStay(p)
    BY <1>1, <1>4 DEF Inv, ProcessesOK, OthersStay, GoTo
  <2>2. answer'[p] = row.result  BY <1>4 DEF Inv, ProcessesOK
  <2>3. Atomic!Tell(p, operation[p])  BY <1>1, <1>2, <1>4, <2>1, <2>2, Telling
  <2> QED  BY <1>2, <2>3 DEF Atomic!Next
<1> QED  BY <1>3, <1>4 DEF Reconcile

\* The commit is the moment of the change: the transaction began from the
\* committed tables, and no other has committed since.
LEMMA CommitRefines ==
  ASSUME Inv, NEW p \in Processes, Commit(p)
  PROVE  Atomic!Next
<1> DEFINE o       == operation[p]
           receipt == [request |-> arguments[p], result |-> ResultOf(p)]
<1>1. ProcessInv(p) /\ StoreOK /\ pc[p] = "commit"  BY DEF Inv, Commit
<1>2. /\ o \in Operations /\ arguments[p] \in Arguments
      /\ operations[o] = None
      /\ ticket.version = arguments[p].expected_version
      /\ draft[p].ticket = [status |-> arguments[p].status, version |-> ticket.version + 1]
      /\ draft[p].operations = [operations EXCEPT ![o] = receipt]
  BY <1>1 DEF ProcessInv, StartedOf, DraftOf, Started, InTransaction
<1>3. /\ ticket' = [status |-> arguments[p].status, version |-> ticket.version + 1]
      /\ operations' = [operations EXCEPT ![o] = receipt]
      /\ UNCHANGED <<operation, arguments>>
  BY <1>2 DEF Commit
<1>4. ResultOf(p) = ticket'  BY <1>2, <1>3 DEF ResultOf
<1>5. operations'[o] = receipt  BY <1>1, <1>2, <1>3 DEF StoreOK
<1>6. OthersStay(p)  BY DEF Inv, ProcessesOK, OthersStay, Commit, GoTo
<1>7. answer[p] = None
  BY <1>1, <1>2 DEF ProcessInv, AnswerIsReceipt
<1>8. ResultOf(p) # None
  <2>1. ResultOf(p) \in Results  BY <1>2 DEF ResultOf, Results, Arguments
  <2> QED  BY <2>1, ConstantsAssumption
<1>9. Told' \in {Told, [Told EXCEPT ![p] = <<o, operations'[o]>>]}
  <2>1. CASE lose[p]
    <3>1. answer'[p] = answer[p]  BY <1>7, <2>1 DEF Commit, Inv, ProcessesOK
    <3>2. Told'[p] = Told[p]  BY <1>3, <3>1 DEF Told
    <3>3. Told' = [Told EXCEPT ![p] = Told[p]]  BY <1>6, <3>2, ToldMoves
    <3> QED  BY <3>3 DEF Told
  <2>2. CASE ~lose[p]
    <3>1. answer'[p] = ResultOf(p)  BY <2>2 DEF Commit, Inv, ProcessesOK
    <3>2. Told'[p] = <<o, receipt>>  BY <1>3, <1>8, <3>1 DEF Told
    <3> QED  BY <1>5, <1>6, <3>2, ToldMoves
  <2> QED  BY <2>1, <2>2
<1>10. Atomic!Change(p, o, arguments[p])
  BY <1>2, <1>3, <1>4, <1>9 DEF Atomic!Change
<1> QED  BY <1>2, <1>10 DEF Atomic!Next

LEMMA AtomicStarts == Init => Atomic!Init
  BY DEF Init, Atomic!Init, Told

LEMMA AtomicSteps == Inv /\ [Next]_vars => [Atomic!Next]_(Atomic!vars)
<1> SUFFICES ASSUME Inv, [Next]_vars  PROVE Atomic!Next \/ UNCHANGED Atomic!vars
  BY DEF Atomic!vars
<1>1. CASE UNCHANGED vars
  BY <1>1, ToldStays DEF vars, store, process, Atomic!vars
<1>2. ASSUME NEW p \in Processes, NEW o \in Operations, NEW a \in Arguments,
             NEW approve \in BOOLEAN, NEW lost \in BOOLEAN, Start(p, o, a, approve, lost)
      PROVE  Atomic!Next
  BY <1>2, StartRefines DEF Atomic!Next
<1>3. ASSUME NEW p \in Processes, ApplicationStep(p) \/ Kill(p)
      PROVE  Atomic!Next \/ UNCHANGED Atomic!vars
  BY <1>3, QuietRefines, BeginRefines, ReconcileRefines, CommitRefines
     DEF ApplicationStep, UpdateStep
<1> QED  BY <1>1, <1>2, <1>3 DEF Next

\* Every behaviour of the applications and their store is one in which each
\* change takes effect at one moment, with its receipt, once for an operation
\* and on the version it expected, and nobody is told anything but a receipt:
\* for any number of applications, operations, kills and lost answers.
THEOREM ChangesAlwaysAtomic == Spec => ChangesAreAtomic
  BY AtomicStarts, AtomicSteps, InvHolds, PTL DEF Spec, ChangesAreAtomic, Atomic!Spec
=============================================================================
