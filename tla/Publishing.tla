----------------------------- MODULE Publishing ------------------------------
(***************************************************************************)
(* geyser sign and geyser publish: one archive file and one bundle file,   *)
(* which a build may replace at any time, read again and again by one      *)
(* command, and the cell that takes the upload.                            *)
(***************************************************************************)
EXTENDS Naturals

CONSTANTS
  Publishers,   \* invocations of geyser publish
  Archives,     \* what the archive file may hold
  Inspectable,  \* those that inspect_archive accepts
  Nothing,      \* no such file, not signed, nothing read
  MaxPacks      \* bound: times the archive file is replaced

ASSUME ArchivesAssumption ==
  Inspectable \subseteq Archives /\ Nothing \notin Archives /\ MaxPacks \in Nat

VARIABLES
  archiveFile,
  bundleFile,  \* the archive that the signature bundle is of
  signing,     \* geyser sign has inspected the archive, and sigstore runs
  packs,
  publishPc,
  inspected,   \* the archive whose digest the person is shown
  carried,     \* the bundle as it was read
  posted,      \* uploads that have left and not arrived
  accepted     \* cell: the packages it took

diskVars == <<archiveFile, bundleFile, signing, packs>>
publishVars == <<publishPc, inspected, carried>>
publishingVars == <<diskVars, publishVars, posted, accepted>>

PublishingInit ==
  /\ archiveFile = Nothing /\ bundleFile = Nothing /\ packs = 0
  /\ signing = FALSE
  /\ publishPc = [p \in Publishers |-> "idle"]
  /\ inspected = [p \in Publishers |-> Nothing]
  /\ carried = [p \in Publishers |-> Nothing]
  /\ posted = {} /\ accepted = {}

-----------------------------------------------------------------------------
\* A build packs another archive, or removes the one there is.
Repack ==
  /\ packs < MaxPacks
  /\ archiveFile' \in (Archives \cup {Nothing}) \ {archiveFile}
  /\ packs' = packs + 1
  /\ UNCHANGED <<bundleFile, signing, publishVars, posted, accepted>>

\* geyser sign refuses an archive that does not pass inspection, ...
InspectToSign ==
  /\ ~signing /\ archiveFile \in Inspectable
  /\ signing' = TRUE
  /\ UNCHANGED <<archiveFile, bundleFile, packs, publishVars, posted, accepted>>

\* ... and sigstore, which reads the file again, signs what is there by now, or
\* fails.
Sign ==
  /\ signing
  /\ signing' = FALSE
  /\ bundleFile' \in {bundleFile} \cup ({archiveFile} \ {Nothing})
  /\ UNCHANGED <<archiveFile, packs, publishVars, posted, accepted>>

PublishAt(p, where) == publishPc' = [publishPc EXCEPT ![p] = where]

\* inspect_archive: the names and sizes in the archive, ...
Inspect(p) ==
  /\ publishPc[p] = "idle"
  /\ PublishAt(p, IF archiveFile \in Inspectable THEN "digest" ELSE "failed")
  /\ UNCHANGED <<diskVars, inspected, carried, posted, accepted>>

\* ... and the file read once more for its digest.
TakeDigest(p) ==
  /\ publishPc[p] = "digest"
  /\ inspected' = [inspected EXCEPT ![p] = archiveFile]
  /\ PublishAt(p, IF archiveFile = Nothing THEN "failed" ELSE "manifest")
  /\ UNCHANGED <<diskVars, carried, posted, accepted>>

\* The manifest is read from the file; the person confirms what was shown.
ReadManifest(p) ==
  /\ publishPc[p] = "manifest"
  /\ PublishAt(p, IF archiveFile = Nothing THEN "failed" ELSE "confirm")
  /\ UNCHANGED <<diskVars, inspected, carried, posted, accepted>>

ConfirmUpload(p) ==
  /\ publishPc[p] = "confirm"
  /\ PublishAt(p, "bundle") \/ PublishAt(p, "canceled")
  /\ UNCHANGED <<diskVars, inspected, carried, posted, accepted>>

ReadBundle(p) ==
  /\ publishPc[p] = "bundle"
  /\ carried' = [carried EXCEPT ![p] = bundleFile]
  /\ PublishAt(p, IF bundleFile = Nothing THEN "unsigned" ELSE "send")
  /\ UNCHANGED <<diskVars, inspected, posted, accepted>>

\* Mutant: the digest is computed from the bytes as they are uploaded.
DigestOfUpload(p) == archiveFile

\* The digest sent, and the key of the request: what inspect_archive computed.
UploadDigest(p) == inspected[p]

\* The bytes are read, and leave.
SendPackage(p) ==
  /\ publishPc[p] = "send"
  /\ IF archiveFile = Nothing THEN PublishAt(p, "failed") /\ UNCHANGED posted
     ELSE /\ PublishAt(p, "sent")
          /\ posted' = posted \cup {[from |-> p, digest |-> UploadDigest(p),
                                     bytes |-> archiveFile, bundle |-> carried[p]]}
  /\ UNCHANGED <<diskVars, inspected, carried, accepted>>

\* Interrupted, at the question or while the upload is on its way.
LosePublisher(p) ==
  /\ publishPc[p] \in {"confirm", "sent"}
  /\ PublishAt(p, "lost")
  /\ UNCHANGED <<diskVars, inspected, carried, posted, accepted>>

\* External: the cell takes a package under a new digest if the bytes have that
\* digest and the bundle is of them; under a known one it repeats its answer, or
\* refuses a body that differs.
TakePackage(u) ==
  LET known == {a \in accepted : a.digest = u.digest}
      takes == IF known # {}
               THEN \A a \in known : a.bytes = u.bytes /\ a.bundle = u.bundle
               ELSE u.bytes = u.digest /\ u.bundle = u.bytes
  IN
  /\ u \in posted
  /\ posted' = posted \ {u}
  /\ accepted' = IF known = {} /\ takes THEN accepted \cup {u} ELSE accepted
  /\ IF publishPc[u.from] = "sent"
     THEN PublishAt(u.from, IF takes THEN "published" ELSE "refused")
     ELSE UNCHANGED publishPc
  /\ UNCHANGED <<diskVars, inspected, carried>>

PublishingNext ==
  \/ Repack \/ InspectToSign \/ Sign
  \/ \E p \in Publishers :
       \/ Inspect(p) \/ TakeDigest(p) \/ ReadManifest(p) \/ ConfirmUpload(p)
       \/ ReadBundle(p) \/ SendPackage(p) \/ LosePublisher(p)
  \/ \E u \in posted : TakePackage(u)

PublishingSpec == PublishingInit /\ [][PublishingNext]_publishingVars

-----------------------------------------------------------------------------
PublishingTypeOK ==
  /\ archiveFile \in Archives \cup {Nothing} /\ bundleFile \in Archives \cup {Nothing}
  /\ signing \in BOOLEAN
  /\ publishPc \in [Publishers -> {"idle", "digest", "manifest", "confirm", "canceled",
       "bundle", "unsigned", "send", "sent", "lost", "published", "refused", "failed"}]
  /\ inspected \in [Publishers -> Archives \cup {Nothing}]
  /\ carried \in [Publishers -> Archives \cup {Nothing}]

\* publish shows a digest and asks; the archive can be packed and signed anew
\* at any time before it is read for the upload.  Whatever the cell accepts, and
\* whatever publish reports as published, is the signed archive whose digest
\* the person confirmed.
AcceptedIsConfirmed ==
  /\ \A u \in accepted : u.bytes = inspected[u.from] /\ carried[u.from] = inspected[u.from]
  /\ \A p \in Publishers :
       publishPc[p] = "published" => \E u \in accepted : u.bytes = inspected[p]
=============================================================================
