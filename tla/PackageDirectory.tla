-------------------------- MODULE PackageDirectory ---------------------------
(***************************************************************************)
(* The directory of an extension, which its author goes on editing while   *)
(* the tools read it, and what validate_extension asks of it.              *)
(*                                                                         *)
(* The tree is flattened to the paths below the directory; the parts that  *)
(* every tool ignores (.git, .geyser, .venv, __pycache__) are left out.  A *)
(* file is its size: two files of one size stand for the same bytes.       *)
(***************************************************************************)
EXTENDS Naturals, FiniteSets

CONSTANTS
  Paths,
  MaxSize,     \* bound: largest file
  FileLimit,   \* 2 MiB
  TotalLimit,  \* 10 MiB
  EntryLimit,  \* 512
  MaxEdits     \* bound: edits of the author

ASSUME LimitsAssumption ==
  /\ MaxSize \in Nat /\ FileLimit \in Nat /\ TotalLimit \in Nat /\ EntryLimit \in Nat
  /\ MaxEdits \in Nat /\ IsFiniteSet(Paths)

VARIABLES
  directory,  \* what each path is
  edits

directoryVars == <<directory, edits>>

Entries == [type : {"none", "link", "pipe", "directory"}, size : {0}]
           \cup [type : {"file"}, size : 0..MaxSize]
NoEntry == [type |-> "none", size |-> 0]

Present(d)  == {n \in Paths : d[n].type # "none"}

\* The bytes of what is there, each named by its path and its place, and how
\* many they are: the sum of the sizes.
Bytes(d)    == UNION {{n} \X (1..d[n].size) : n \in Paths}
Unpacked(d) == Cardinality(Bytes(d))

DirectoryInit == directory = [n \in Paths |-> NoEntry] /\ edits = 0

\* A path is created, removed, rewritten or made something else.
Edit ==
  /\ edits < MaxEdits
  /\ \E n \in Paths, e \in Entries :
       e # directory[n] /\ directory' = [directory EXCEPT ![n] = e]
  /\ edits' = edits + 1

-----------------------------------------------------------------------------
\* What the manifest, the descriptor it names and evals/cases.json amount to.
Descriptions == [kind : {"executable", "overlay", "other", "unknown"},
                 coherent : BOOLEAN,
                 cases : {"absent or not frozen", "none critical", "undecided", "sound"}]

\* Overlays need no cases; of an executable, each case has exactly one
\* expectation.
Describes(x) ==
  /\ x.kind # "unknown"
  /\ x.kind \in {"executable", "overlay"} => x.coherent
  /\ x.kind = "executable" => x.cases = "sound"
  /\ x.kind = "other" => x.cases \in {"undecided", "sound"}

\* Mutant: only the total is bounded.
TotalIsSafe(d) ==
  /\ \A n \in Paths : d[n].type \in {"none", "file", "directory"}
  /\ Unpacked(d) <= TotalLimit

\* The walk over the files of validate_extension.
FilesAreSafe(d) ==
  /\ \A n \in Paths : d[n].type \in {"none", "file", "directory"} /\ d[n].size <= FileLimit
  /\ Unpacked(d) <= TotalLimit
=============================================================================
