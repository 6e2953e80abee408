------------------------------ MODULE Packaging ------------------------------
(***************************************************************************)
(* geyser package: the directory of an extension is validated and packed   *)
(* into an archive, while its author may still edit it, and the bounds     *)
(* that inspect_archive, before sign and publish, puts to the archive.     *)
(***************************************************************************)
EXTENDS PackageDirectory

VARIABLES
  packPc,
  checked,   \* the directory as it was validated
  archive,   \* the archive file: <<>>, <<"torn">> or <<"whole", contents>>
  made       \* history: it was made of the directory as validated

packingVars == <<packPc, checked, archive, made>>
packagingVars == <<directoryVars, packingVars>>

PackagingInit ==
  /\ DirectoryInit
  /\ packPc = "idle" /\ checked = directory /\ archive = <<>> /\ made = FALSE

-----------------------------------------------------------------------------
\* The directory is validated, ...
Validate ==
  /\ packPc = "idle"
  /\ \E x \in Descriptions :
       IF Describes(x) /\ FilesAreSafe(directory)
       THEN packPc' = "open" /\ checked' = directory
       ELSE packPc' = "refused" /\ UNCHANGED checked
  /\ UNCHANGED <<directoryVars, archive, made>>

\* ... the archive opened, which truncates what was there, ...
OpenArchive ==
  /\ packPc = "open"
  /\ packPc' = "write" /\ archive' = <<"torn">> /\ made' = FALSE
  /\ UNCHANGED <<directoryVars, checked>>

\* What is_file says is in the archive: links are followed.
Zipped(d) == [n \in Paths |-> IF d[n].type \in {"file", "link"} THEN d[n] ELSE NoEntry]

\* ... and filled from the directory as it is by then.  The archive itself, with
\* its headers, can be beyond the bound: it is removed again.  A read that fails
\* or a kill leaves it torn.
WriteArchive ==
  /\ packPc = "write"
  /\ \/ /\ packPc' = "packed"
        /\ archive' = <<"whole", Zipped(directory)>>
        /\ made' = (directory = checked)
     \/ packPc' = "refused" /\ archive' = <<>> /\ UNCHANGED made
     \/ packPc' = "refused" /\ UNCHANGED <<archive, made>>
  /\ UNCHANGED <<directoryVars, checked>>

PackAgain ==
  /\ packPc \in {"packed", "refused"}
  /\ packPc' = "idle"
  /\ UNCHANGED <<directoryVars, checked, archive, made>>

EditPackage == Edit /\ UNCHANGED packingVars

PackagingNext == EditPackage \/ Validate \/ OpenArchive \/ WriteArchive \/ PackAgain

PackagingSpec == PackagingInit /\ [][PackagingNext]_packagingVars

-----------------------------------------------------------------------------
\* The bounds of inspect_archive; in an archive of package, no mode is a link's
\* and every path is relative and named once.
Inspects(contents) ==
  /\ \A n \in Paths : contents[n].size <= FileLimit
  /\ Unpacked(contents) <= TotalLimit

PackagingTypeOK ==
  /\ directory \in [Paths -> Entries] /\ checked \in [Paths -> Entries]
  /\ edits \in 0..MaxEdits
  /\ packPc \in {"idle", "open", "write", "packed", "refused"}
  /\ made => archive # <<>> /\ archive[1] = "whole"

\* The bounds are written three times: of a directory that validates and is
\* left alone, package makes no archive that sign and publish then refuse.
PackagesPassInspection == made => Inspects(archive[2])

\* docs/extensions.md:36, "Packages are limited to 512 entries, 2 MiB per file
\* and 10 MiB unpacked": of what validate accepts and package packs.
PackagesAreWithinLimits ==
  made => Inspects(archive[2]) /\ Cardinality(Present(archive[2])) <= EntryLimit
=============================================================================
