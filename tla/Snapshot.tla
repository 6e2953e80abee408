------------------------------ MODULE Snapshot -------------------------------
(***************************************************************************)
(* _snapshot of sandbox.py: the copy of an extension that a handler runs   *)
(* in, made entry by entry while the directory may change.                 *)
(*                                                                         *)
(* Between the listing of an entry, its stat, its open and its read, the   *)
(* path may become anything else; the open descriptor stays on the file it *)
(* was opened on, which may be rewritten in place.                         *)
(***************************************************************************)
EXTENDS PackageDirectory

VARIABLES
  snapPc,
  unvisited,  \* paths the walk has not come to
  at,         \* the path it is at
  listed,     \* that path as scandir and stat told
  opened,     \* the file behind the descriptor
  copied,     \* the copy
  entries,    \* the two counters of the walk
  bytes,
  was         \* history: per path, what it has been since the walk began

walkVars == <<snapPc, unvisited, at, listed, opened, copied, entries, bytes>>
snapshotVars == <<directoryVars, walkVars, was>>

SnapshotInit ==
  /\ DirectoryInit
  /\ snapPc = "idle" /\ unvisited = {} /\ at = {} /\ listed = NoEntry /\ opened = NoEntry
  /\ copied = [n \in Paths |-> NoEntry] /\ entries = 0 /\ bytes = 0
  /\ was = [n \in Paths |-> {}]

BeginWalk ==
  /\ snapPc = "idle"
  /\ snapPc' = "walk" /\ unvisited' = Paths
  /\ was' = [n \in Paths |-> {directory[n]}]
  /\ UNCHANGED <<directoryVars, at, listed, opened, copied, entries, bytes>>

\* The next entry is listed and looked at, without following a link.  An entry
\* that is gone by then ends the walk like any error of the system.
Look ==
  /\ snapPc = "walk"
  /\ \E n \in unvisited :
       /\ was[n] # {NoEntry}
       /\ unvisited' = unvisited \ {n}
       /\ entries' = entries + 1
       /\ at' = {n} /\ listed' = directory[n]
       /\ snapPc' = IF entries' > EntryLimit THEN "out of bounds"
                    ELSE CASE directory[n].type = "none" -> "changed"
                           [] directory[n].type \in {"file", "directory"} -> "open"
                           [] OTHER -> "unsafe"
  /\ UNCHANGED <<directoryVars, opened, copied, bytes, was>>

\* O_NOFOLLOW refuses a link, O_DIRECTORY what is not a directory, open what is
\* gone; of a file, fstat looks at what was opened.
Open ==
  /\ snapPc = "open"
  /\ \E n \in at :
       LET same == directory[n].type = listed.type IN
       /\ opened' = directory[n]
       /\ snapPc' = CASE ~same -> "changed"
                      [] same /\ listed.type = "directory" -> "walk"
                      [] same /\ listed.type = "file" -> "read"
       /\ copied' = IF snapPc' = "walk" THEN [copied EXCEPT ![n] = directory[n]] ELSE copied
  /\ UNCHANGED <<directoryVars, unvisited, at, listed, entries, bytes, was>>

\* Mutant: the size that stat told is counted.
CountedAsListed(got) == listed.size

\* len(content)
Counted(got) == got

\* At most one byte more than a file may have is read.
Read ==
  LET got == IF opened.size > FileLimit THEN FileLimit + 1 ELSE opened.size IN
  /\ snapPc = "read"
  /\ bytes' = bytes + Counted(got)
  /\ IF Counted(got) > FileLimit \/ bytes' > TotalLimit
     THEN snapPc' = "out of bounds" /\ UNCHANGED copied
     ELSE /\ snapPc' = "walk"
          /\ copied' = [n \in Paths |-> IF n \in at THEN [type |-> "file", size |-> got]
                                       ELSE copied[n]]
  /\ UNCHANGED <<directoryVars, unvisited, at, listed, opened, entries, was>>

\* The listing is at its end: it shows what is there, and of what came or went
\* meanwhile whatever the system likes.
EndWalk ==
  /\ snapPc = "walk"
  /\ \A n \in unvisited : NoEntry \in was[n]
  /\ snapPc' = "copied"
  /\ UNCHANGED <<directoryVars, unvisited, at, listed, opened, copied, entries, bytes, was>>

\* An open file that is rewritten in place changes behind its descriptor.
EditMeanwhile ==
  /\ Edit
  /\ was' = IF snapPc = "idle" THEN was ELSE [n \in Paths |-> was[n] \cup {directory'[n]}]
  /\ opened' \in {opened} \cup
       IF snapPc # "read" THEN {}
       ELSE {directory'[n] : n \in {n \in at : /\ directory[n].type = "file"
                                               /\ directory'[n].type = "file"
                                               /\ directory'[n] # directory[n]}}
  /\ UNCHANGED <<snapPc, unvisited, at, listed, copied, entries, bytes>>

SnapshotNext == BeginWalk \/ Look \/ Open \/ Read \/ EndWalk \/ EditMeanwhile

SnapshotSpec == SnapshotInit /\ [][SnapshotNext]_snapshotVars

-----------------------------------------------------------------------------
SnapshotTypeOK ==
  /\ directory \in [Paths -> Entries] /\ copied \in [Paths -> Entries]
  /\ snapPc \in {"idle", "walk", "open", "read", "copied", "changed", "unsafe",
                 "out of bounds"}
  /\ at \subseteq Paths /\ Cardinality(at) <= 1
  /\ entries \in 0..Cardinality(Paths) /\ bytes \in 0..(TotalLimit + FileLimit + 1)

\* docs/extensions.md:36: what a handler runs in is within the bounds of a
\* package, however the directory changed while it was copied, and each of its
\* files is one that stood under that path in the meantime: nothing a link
\* leads to, nothing cut short.
SnapshotIsBounded ==
  snapPc = "copied" =>
    /\ Cardinality(Present(copied)) <= EntryLimit
    /\ Unpacked(copied) <= TotalLimit
    /\ \A n \in Present(copied) : copied[n] \in was[n] /\ copied[n].size <= FileLimit
=============================================================================
