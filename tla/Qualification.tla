---------------------------- MODULE Qualification ----------------------------
(***************************************************************************)
(* conformance/qualification.py: receipts are issued over time, and a      *)
(* matrix is generated from those there are, row by row of one artifact.   *)
(*                                                                         *)
(* An artifact stands for the kind, name, version and digest of a subject, *)
(* an environment for its other nine fields (provider, placement, ...).    *)
(***************************************************************************)
EXTENDS Naturals, FiniteSets, FiniteSetsExt, Sequences, Functions

CONSTANTS
  Runtimes,     \* artifacts of kind runtime_adapter
  Artifacts,    \* all artifacts; the others are developer artifacts
  Environments,
  CoreLayers,   \* LAYERS - {"developer_artifact"}
  Capabilities,
  MaxReceipts,  \* bound: receipts issued
  MaxDay        \* bound: the clock

ASSUME LayersAssumption ==
  /\ Runtimes \subseteq Artifacts
  /\ CoreLayers # {} /\ "developer_artifact" \notin CoreLayers
  /\ MaxReceipts \in Nat /\ MaxDay \in Nat

VARIABLES
  day,
  evidence,  \* the receipts, in the order they are read
  matrix     \* the rows of the last matrix generated

qualificationVars == <<day, evidence, matrix>>

Layers == CoreLayers \cup {"developer_artifact"}
Modes == {"native", "forbidden"}

\* What can be wrong with a receipt: a required case is missing, failed or
\* repeated, or an assertion cites another; its digest is not of it; it is not
\* of the form, or claims authority.
Flaws == {"case not passed", "not bound", "malformed"}

SoundReceipts ==
  [artifact : Artifacts, environment : Environments, layer : Layers,
   asserts : {{}} \cup {{<<c, m>>} : c \in Capabilities, m \in Modes},
   expires : 1..MaxDay, flaw : {"none"}]
Flawed(r) == {[r EXCEPT !.flaw = f] : f \in Flaws}

-----------------------------------------------------------------------------
\* validate_receipt
IsValid(r) == r.flaw = "none" /\ r.expires > day

RequiredLayers(a) == IF a \in Runtimes THEN CoreLayers ELSE {"developer_artifact"}

Of(a) == {i \in DOMAIN evidence : evidence[i].artifact = a}
Assertions(a) == UNION {evidence[i].asserts : i \in Of(a)}

\* capability_matrix raises, and makes no row, over one receipt that is not valid, two of
\* one layer, or two modes of one capability.
IsCoherent ==
  /\ \A r \in Range(evidence) : IsValid(r)
  /\ \A a \in Artifacts : \A i, j \in Of(a) : evidence[i].layer = evidence[j].layer => i = j
  /\ \A a \in Artifacts : \A x, y \in Assertions(a) : x[1] = y[1] => x = y

\* Mutant: a row lasts as long as any of its evidence.
LastExpiry(a) == Max({evidence[i].expires : i \in Of(a)})

ExpiresAt(a) == Min({evidence[i].expires : i \in Of(a)})

\* The subject of a row is that of the first receipt read.
Row(a) ==
  [artifact     |-> a,
   environment  |-> evidence[Min(Of(a))].environment,
   qualified    |-> {evidence[i].layer : i \in Of(a)} = RequiredLayers(a),
   capabilities |-> Assertions(a),
   expires      |-> ExpiresAt(a)]

QualificationInit == day = 0 /\ evidence = <<>> /\ matrix = {}

\* A qualification run issues a receipt, good or not.
IssueReceipt ==
  /\ Len(evidence) < MaxReceipts
  /\ \E r \in SoundReceipts : \E s \in {r} \cup Flawed(r) : evidence' = Append(evidence, s)
  /\ UNCHANGED <<day, matrix>>

\* capability_matrix
GenerateMatrix ==
  /\ IsCoherent
  /\ matrix' = {Row(a) : a \in {a \in Artifacts : Of(a) # {}}}
  /\ UNCHANGED <<day, evidence>>

DayPasses ==
  /\ day < MaxDay
  /\ day' = day + 1
  /\ UNCHANGED <<evidence, matrix>>

QualificationNext == IssueReceipt \/ GenerateMatrix \/ DayPasses

QualificationSpec == QualificationInit /\ [][QualificationNext]_qualificationVars

-----------------------------------------------------------------------------
QualificationTypeOK ==
  /\ day \in 0..MaxDay
  /\ Len(evidence) \in 0..MaxReceipts
  /\ \A row \in matrix : row.artifact \in Artifacts /\ row.expires \in 1..MaxDay

\* conformance/README.md:10, "accepts only complete, canonically bound,
\* unexpired receipts": who relies on a qualified row until it expires relies,
\* for every layer, on a receipt without a flaw that has not expired, and for
\* every capability on an assertion that no other receipt of the row denied.
QualifiedRowsStand ==
  \A row \in matrix :
    row.qualified /\ day < row.expires =>
      \E held \in SUBSET Range(evidence) :
        /\ \A r \in held : r.artifact = row.artifact /\ r.flaw = "none" /\ day < r.expires
        /\ {r.layer : r \in held} = RequiredLayers(row.artifact)
        /\ row.capabilities = UNION {r.asserts : r \in held}
        /\ \A c \in Capabilities : ~ ({<<c, "native">>, <<c, "forbidden">>} \subseteq row.capabilities)

\* conformance/README.md:6-12, "Receipts bind the exact [...] provider, model
\* profile, placement, privacy posture", "Missing layers remain visibly
\* unqualified": each layer of a qualified row was shown in the environment
\* that the row names.
LayersAreOfTheSubject ==
  \A row \in matrix :
    row.qualified =>
      \A l \in RequiredLayers(row.artifact) :
        \E r \in Range(evidence) :
          r.artifact = row.artifact /\ r.environment = row.environment /\ r.layer = l
=============================================================================
