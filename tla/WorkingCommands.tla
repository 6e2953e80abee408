--------------------------- MODULE WorkingCommands ---------------------------
(***************************************************************************)
(* The programs that do a piece of work and end: the recipes of examples/  *)
(* (a ticket changed, work handed to an Agent, a decision made at a        *)
(* distance), the commands of main and _handle_network that list, package, *)
(* sign and publish, the copy a handler runs in, and the matrix of the     *)
(* conformance tooling.                                                    *)
(*                                                                         *)
(* A behaviour is about one of them, run by as many processes and as often *)
(* as its module says; work is which one.  The variables of the others     *)
(* stay as they began.                                                     *)
(***************************************************************************)
EXTENDS TicketStore, TaskWorkflow, RemoteDecision, Pagination, Publishing, Packaging,
        Snapshot, Qualification

VARIABLE work

Works == {"change ticket", "hand out work", "decide", "list", "package", "publish",
          "copy", "qualify"}

copyVars == <<walkVars, was>>
allVars == <<work, vars, workVars, decisionVars, iterVars, publishingVars, directoryVars,
             packingVars, copyVars, qualificationVars>>

WorkingInit ==
  /\ work \in Works
  /\ Init /\ WorkInit /\ DecisionInit /\ IterInit /\ PublishingInit
  /\ PackagingInit /\ SnapshotInit /\ QualificationInit

ChangeTicket ==
  /\ work = "change ticket" /\ Next
  /\ UNCHANGED <<workVars, decisionVars, iterVars, publishingVars, directoryVars,
                 packingVars, copyVars, qualificationVars>>
HandOutWork ==
  /\ work = "hand out work" /\ WorkNext
  /\ UNCHANGED <<vars, decisionVars, iterVars, publishingVars, directoryVars,
                 packingVars, copyVars, qualificationVars>>
Decide ==
  /\ work = "decide" /\ DecisionNext
  /\ UNCHANGED <<vars, workVars, iterVars, publishingVars, directoryVars,
                 packingVars, copyVars, qualificationVars>>
List ==
  /\ work = "list" /\ IterNext
  /\ UNCHANGED <<vars, workVars, decisionVars, publishingVars, directoryVars,
                 packingVars, copyVars, qualificationVars>>
Publish ==
  /\ work = "publish" /\ PublishingNext
  /\ UNCHANGED <<vars, workVars, decisionVars, iterVars, directoryVars,
                 packingVars, copyVars, qualificationVars>>
Package ==
  /\ work = "package" /\ PackagingNext
  /\ UNCHANGED <<vars, workVars, decisionVars, iterVars, publishingVars,
                 copyVars, qualificationVars>>
Copy ==
  /\ work = "copy" /\ SnapshotNext
  /\ UNCHANGED <<vars, workVars, decisionVars, iterVars, publishingVars,
                 packingVars, qualificationVars>>
Qualify ==
  /\ work = "qualify" /\ QualificationNext
  /\ UNCHANGED <<vars, workVars, decisionVars, iterVars, publishingVars, directoryVars,
                 packingVars, copyVars>>

WorkingNext ==
  /\ \/ ChangeTicket \/ HandOutWork \/ Decide \/ List
     \/ Publish \/ Package \/ Copy \/ Qualify
  /\ UNCHANGED work

WorkingSpec == WorkingInit /\ [][WorkingNext]_allVars

-----------------------------------------------------------------------------
\* The type invariants of the modules.
WorkingTypeOK ==
  /\ TypeOK /\ WorkTypeOK /\ DecisionTypeOK /\ IterTypeOK /\ PublishingTypeOK
  /\ PackagingTypeOK /\ SnapshotTypeOK /\ QualificationTypeOK
=============================================================================
