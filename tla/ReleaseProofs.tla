--------------------------- MODULE ReleaseProofs ----------------------------
(***************************************************************************)
(* Proofs about Release for every number of runs, of publication tags and  *)
(* of faults: its types, that a run whose last job succeeded left one      *)
(* version everywhere, that no project is a mixture of two builds, and     *)
(* that what a recovery publishes was verified.                            *)
(*                                                                         *)
(* The argument: the index and the release never change what they hold,    *)
(* the assets of a run are fixed once its artifacts are ready, so what a   *)
(* job has seen or put there stays what the run is publishing; and what a  *)
(* recovery takes from another run's artifacts is what it verified.        *)
(***************************************************************************)
EXTENDS Release, TLAPS

\* A run either builds or reuses.
OneSource ==
  \A r \in Runs :
    /\ run[r] # None => assemble[r] = "skipped" \/ reuse[r] = "skipped"
    /\ run[r] = None => assemble[r] = "waiting" /\ reuse[r] = "waiting"

\* A run with artifacts, and a kept artifact, has a build; a publish job that
\* got past its conditions belongs to a run with artifacts.
HasAssets == \A r \in Runs : r \in kept \/ ArtifactsReady(r) => assets[r] \in Runs

HasArtifacts ==
  \A r \in Runs, p \in Projects :
    publish[r][p] \in {"uploading", "success"} \/ sent[r][p] # {} => ArtifactsReady(r)

\* What a job has uploaded is there and of its build.
SentIsThere ==
  \A r \in Runs, p \in Projects : \A k \in sent[r][p] :
    pypi[p][k] # None /\ pypi[p][k].build = assets[r]

PublishedMatches ==
  \A r \in Runs, p \in Projects : publish[r][p] = "success" => Matches(r, p)

ReleasedMatches ==
  \A r \in Runs :
    /\ github[r] \in {"creating", "success"} => ReleaseWanted(r)
    /\ github[r] = "success" => release # None /\ release.build = assets[r]

WheelFirst ==
  \A p \in Projects : pypi[p]["sdist"] # None =>
    pypi[p]["wheel"] # None /\ pypi[p]["wheel"].build = pypi[p]["sdist"].build

Inv == OneSource /\ HasAssets /\ HasArtifacts /\ SentIsThere /\ PublishedMatches /\ ReleasedMatches /\ WheelFirst

-----------------------------------------------------------------------------
\* The index keeps what it holds, and holds the uploaded file afterwards.
LEMMA StoredKeeps ==
  ASSUME IndexOK, NEW r \in Runs, NEW p \in Projects, NEW k \in Kinds, Stored(r, p, k),
         assets[r] \in Runs
  PROVE  /\ IndexOK'
         /\ \A pp \in Projects, kk \in Kinds : pypi[pp][kk] # None => pypi'[pp][kk] = pypi[pp][kk]
         /\ \A pp \in Projects, kk \in Kinds : pp # p \/ kk # k => pypi'[pp][kk] = pypi[pp][kk]
         /\ pypi[p][k] = None => pypi'[p][k] = [build |-> assets[r], by |-> r]
<1>1. pypi' = [pypi EXCEPT ![p][k] =
                 IF pypi[p][k] = None THEN [build |-> assets[r], by |-> r] ELSE pypi[p][k]]
  BY DEF Stored
<1>2. (IF pypi[p][k] = None THEN [build |-> assets[r], by |-> r] ELSE pypi[p][k])
        \in Files \cup {None}
  BY DEF IndexOK, Files
<1> QED BY <1>1, <1>2 DEF IndexOK

LEMMA FaultKeepsType ==
  ASSUME FaultsOK, Fault
  PROVE  FaultsOK'
BY ConstantsAssumption DEF FaultsOK, Fault

-----------------------------------------------------------------------------
\* What no step takes back: a run's artifacts and what they are of, the files
\* on the index, the release.
ArtifactsStay == \A r \in Runs : ArtifactsReady(r) => ArtifactsReady(r)' /\ assets'[r] = assets[r]
IndexStays    == \A p \in Projects, k \in Kinds : pypi[p][k] # None => pypi'[p][k] = pypi[p][k]
ReleaseStays  == release # None => release' = release

LEMMA MatchesStays ==
  ASSUME ArtifactsStay, IndexStays, NEW r \in Runs, NEW p \in Projects, ArtifactsReady(r), Matches(r, p)
  PROVE  Matches(r, p)'
BY DEF ArtifactsStay, IndexStays, Matches

LEMMA SentStays ==
  ASSUME JobsOK, Inv, ArtifactsStay, IndexStays, UNCHANGED sent
  PROVE  SentIsThere'
<1> SUFFICES ASSUME NEW r \in Runs, NEW p \in Projects, NEW k \in sent[r][p]
             PROVE  pypi'[p][k] # None /\ pypi'[p][k].build = assets'[r]
  BY DEF SentIsThere
<1>0. k \in Kinds BY DEF JobsOK
<1>1. ArtifactsReady(r) BY DEF Inv, HasArtifacts
<1>2. pypi[p][k] # None /\ pypi[p][k].build = assets[r] BY DEF Inv, SentIsThere
<1> QED BY <1>0, <1>1, <1>2 DEF ArtifactsStay, IndexStays

\* A step that leaves the publishing jobs and the index alone keeps the rest.
LEMMA QuietStep ==
  ASSUME JobsOK, Inv, ArtifactsStay, ReleaseStays, OneSource', HasAssets',
         UNCHANGED <<publish, sent, pypi, github>>
  PROVE  Inv'
<1>1. IndexStays BY DEF IndexStays
<1>2. HasArtifacts' BY DEF Inv, HasArtifacts, ArtifactsStay
<1>3. SentIsThere' BY <1>1, SentStays
<1>4. PublishedMatches'
  <2> SUFFICES ASSUME NEW r \in Runs, NEW p \in Projects, publish[r][p] = "success"
               PROVE  Matches(r, p)'
    BY DEF PublishedMatches
  <2>1. ArtifactsReady(r) /\ Matches(r, p) BY DEF Inv, HasArtifacts, PublishedMatches
  <2> QED BY <1>1, <2>1, MatchesStays
<1>5. ReleasedMatches'
  <2> SUFFICES ASSUME NEW r \in Runs PROVE
         /\ github[r] \in {"creating", "success"} => ReleaseWanted(r)'
         /\ github[r] = "success" => release' # None /\ release'.build = assets'[r]
    BY DEF ReleasedMatches
  <2>1. github[r] \in {"creating", "success"} => ReleaseWanted(r)'
    BY DEF Inv, ReleasedMatches, ReleaseWanted
  <2>2. ASSUME github[r] = "success" PROVE release' # None /\ release'.build = assets'[r]
    <3>1. release # None /\ release.build = assets[r] BY <2>2 DEF Inv, ReleasedMatches
    <3>2. ReleaseWanted(r) BY <2>2 DEF Inv, ReleasedMatches
    <3>3. publish[r]["sdk"] = "success" BY <3>2 DEF ReleaseWanted, Projects
    <3>4. ArtifactsReady(r) BY <3>3 DEF Inv, HasArtifacts, Projects
    <3> QED BY <3>1, <3>4 DEF ArtifactsStay, ReleaseStays
  <2> QED BY <2>1, <2>2
<1>6. WheelFirst' BY DEF Inv, WheelFirst
<1> QED BY <1>2, <1>3, <1>4, <1>5, <1>6 DEF Inv

-----------------------------------------------------------------------------
(***************************************************************************)
(* The steps that trigger, build, fail or end a run quietly.               *)
(***************************************************************************)
LEMMA TriggerStep ==
  ASSUME TypeOK, Inv, NEW r \in Runs, NEW trigger \in {"push", "rebuild", "reuse"},
         NEW ref \in Refs, NEW q \in Runs \cup {None}, Trigger(r, trigger, ref, q)
  PROVE  TypeOK' /\ Inv'
<1> USE DEF Trigger
<1>1. RunsOK'
  <2>1. [trigger |-> trigger, ref |-> ref, reuses |-> q]
          \in RunItems
    BY DEF MaybeRun, RunItems
  <2>2. 1..(r - 1) \subseteq Runs BY ConstantsAssumption DEF Runs
  <2>3. canceled' \subseteq Runs BY <2>2 DEF TypeOK, RunsOK
  <2> QED BY <2>1, <2>3 DEF TypeOK, RunsOK
<1>2. JobsOK' BY DEF TypeOK, JobsOK, JobStates, Terminal
<1>3. TypeOK'
  BY <1>1, <1>2 DEF TypeOK, DataOK, IndexOK, ReleaseOK, FaultsOK, dataVars, siteVars
<1>4. OneSource'
  <2> SUFFICES ASSUME NEW s \in Runs PROVE
         /\ run'[s] # None => assemble'[s] = "skipped" \/ reuse'[s] = "skipped"
         /\ run'[s] = None => assemble'[s] = "waiting" /\ reuse'[s] = "waiting"
    BY DEF OneSource
  <2>1. CASE s = r
    <3>1. run'[s] = [trigger |-> trigger, ref |-> ref, reuses |-> q] BY <2>1 DEF TypeOK, RunsOK
    <3>2. run'[s] # None BY <3>1, NoneAssumption DEF MaybeRun, RunItems
    <3>3. assemble'[s] = "skipped" \/ reuse'[s] = "skipped" BY <2>1 DEF TypeOK, JobsOK
    <3> QED BY <3>2, <3>3
  <2>2. CASE s # r BY <2>2 DEF TypeOK, RunsOK, JobsOK, Inv, OneSource
  <2> QED BY <2>1, <2>2
<1>5. \A s \in Runs : ArtifactsReady(s)' => ArtifactsReady(s)
  BY DEF TypeOK, JobsOK, ArtifactsReady
<1>6. HasAssets' BY <1>5 DEF Inv, HasAssets, dataVars
<1>7. ArtifactsStay BY DEF TypeOK, JobsOK, Inv, OneSource, ArtifactsStay, ArtifactsReady, dataVars
<1> QED BY <1>3, <1>4, <1>6, <1>7, QuietStep DEF TypeOK, ReleaseStays, siteVars

LEMMA AssembleStep ==
  ASSUME TypeOK, Inv, NEW r \in Runs, Assemble(r)
  PROVE  TypeOK' /\ Inv'
<1> USE DEF Assemble
<1>1. run[r] # None /\ assemble[r] = "waiting" BY DEF Running, Active
<1>2. reuse[r] = "skipped" /\ ~ArtifactsReady(r) BY <1>1 DEF Inv, OneSource, ArtifactsReady
<1>3. JobsOK' BY DEF TypeOK, JobsOK, JobStates, Terminal
<1>4. DataOK'
  <2>1. CASE UNCHANGED dataVars BY <2>1 DEF TypeOK, DataOK, dataVars
  <2>2. ASSUME NEW exact \in BOOLEAN,
               built' = [built EXCEPT ![r] = [tagged |-> run[r].ref = "tag", exact |-> exact]],
               assets' = [assets EXCEPT ![r] = r], kept' = kept \cup {r}
        PROVE  DataOK'
    <3>1. [tagged |-> run[r].ref = "tag", exact |-> exact] \in [tagged : BOOLEAN, exact : BOOLEAN]
      <4>1. (run[r].ref = "tag") \in BOOLEAN OBVIOUS
      <4> QED BY <4>1
    <3>2. built' \in [Runs -> [tagged : BOOLEAN, exact : BOOLEAN] \cup {None}]
      BY <2>2, <3>1 DEF TypeOK, DataOK
    <3>3. assets' \in [Runs -> MaybeRun] BY <2>2 DEF TypeOK, DataOK, MaybeRun
    <3> QED BY <2>2, <3>2, <3>3 DEF TypeOK, DataOK
  <2> QED BY <2>1, <2>2
<1>5. TypeOK' BY <1>3, <1>4 DEF TypeOK, RunsOK, IndexOK, ReleaseOK, FaultsOK, siteVars
<1>6. OneSource' BY <1>1, <1>2 DEF TypeOK, JobsOK, Inv, OneSource
<1>7. HasAssets'
  <2> SUFFICES ASSUME NEW s \in Runs, s \in kept' \/ ArtifactsReady(s)' PROVE assets'[s] \in Runs
    BY DEF HasAssets
  <2>1. CASE UNCHANGED dataVars /\ assemble' = [assemble EXCEPT ![r] = "failure"]
    <3>1. ArtifactsReady(s)' => ArtifactsReady(s) BY <2>1 DEF TypeOK, JobsOK, ArtifactsReady
    <3> QED BY <2>1, <3>1 DEF Inv, HasAssets, dataVars
  <2>2. CASE /\ assets' = [assets EXCEPT ![r] = r] /\ kept' = kept \cup {r}
             /\ assemble' = [assemble EXCEPT ![r] = "success"]
    <3>1. s # r => s \in kept \/ ArtifactsReady(s) BY <2>2 DEF TypeOK, JobsOK, ArtifactsReady
    <3> QED BY <2>2, <3>1 DEF TypeOK, DataOK, Inv, HasAssets
  <2> QED BY <2>1, <2>2
<1>8. ArtifactsStay
  <2>1. \A s \in Runs : s # r => assemble'[s] = assemble[s] /\ assets'[s] = assets[s]
    BY DEF TypeOK, JobsOK, DataOK, dataVars
  <2> QED BY <1>2, <2>1 DEF ArtifactsStay, ArtifactsReady
<1> QED BY <1>5, <1>6, <1>7, <1>8, QuietStep DEF TypeOK, ReleaseStays, siteVars

LEMMA ReuseStep ==
  ASSUME TypeOK, Inv, NEW r \in Runs, Reuse(r) \/ ReuseFails(r)
  PROVE  TypeOK' /\ Inv'
<1>1. run[r] # None /\ reuse[r] = "waiting" BY DEF Reuse, ReuseFails, Running, Active
<1>2. assemble[r] = "skipped" /\ ~ArtifactsReady(r) BY <1>1 DEF Inv, OneSource, ArtifactsReady
<1>3. /\ UNCHANGED <<run, assemble, publish, sent, github, built, canceled, siteVars>>
      /\ \/ /\ reuse' = [reuse EXCEPT ![r] = "success"]
            /\ assets' = [assets EXCEPT ![r] = assets[run[r].reuses]]
            /\ run[r].reuses \in kept /\ kept' = kept \cup {r}
         \/ reuse' = [reuse EXCEPT ![r] = "failure"] /\ UNCHANGED <<assets, kept>>
      /\ faults' = faults \/ Fault
  BY DEF Reuse, ReuseFails, dataVars
<1>4. run[r].reuses \in kept => assets[run[r].reuses] \in Runs
  BY DEF TypeOK, DataOK, Inv, HasAssets
<1>5. JobsOK' BY <1>3 DEF TypeOK, JobsOK, JobStates, Terminal
<1>6. DataOK' BY <1>3, <1>4 DEF TypeOK, DataOK, MaybeRun
<1>7. FaultsOK' BY <1>3, FaultKeepsType DEF TypeOK, FaultsOK
<1>8. TypeOK' BY <1>3, <1>5, <1>6, <1>7 DEF TypeOK, RunsOK, IndexOK, ReleaseOK, siteVars
<1>9. OneSource' BY <1>1, <1>2, <1>3 DEF TypeOK, JobsOK, Inv, OneSource
<1>10. HasAssets'
  <2> SUFFICES ASSUME NEW s \in Runs, s \in kept' \/ ArtifactsReady(s)' PROVE assets'[s] \in Runs
    BY DEF HasAssets
  <2>1. CASE s = r
    <3>1. ~(reuse'[r] = "failure" /\ r \notin kept') BY <1>2, <1>3, <2>1 DEF ArtifactsReady
    <3> QED BY <1>3, <1>4, <2>1, <3>1 DEF TypeOK, JobsOK, DataOK, Inv, HasAssets
  <2>2. CASE s # r
    <3>1. s \in kept \/ ArtifactsReady(s) BY <1>3, <2>2 DEF TypeOK, JobsOK, ArtifactsReady
    <3> QED BY <1>3, <2>2, <3>1 DEF TypeOK, DataOK, Inv, HasAssets
  <2> QED BY <2>1, <2>2
<1>11. ArtifactsStay
  <2>1. \A s \in Runs : s # r => reuse'[s] = reuse[s] /\ assets'[s] = assets[s]
    BY <1>3 DEF TypeOK, JobsOK, DataOK
  <2> QED BY <1>2, <1>3, <2>1 DEF ArtifactsStay, ArtifactsReady
<1> QED BY <1>3, <1>8, <1>9, <1>10, <1>11, QuietStep DEF TypeOK, ReleaseStays, siteVars

LEMMA EndStep ==
  ASSUME TypeOK, Inv, NEW r \in Runs, Cancel(r) \/ Expire(r)
  PROVE  TypeOK' /\ Inv'
<1>1. /\ Fault
      /\ UNCHANGED <<run, jobVars, built, assets, pypi>>
      /\ kept' \subseteq kept
      /\ canceled' \in {canceled, canceled \cup {r}}
      /\ \/ UNCHANGED release
         \/ /\ github[r] = "creating" /\ release = None
            /\ \E sums \in BOOLEAN :
                 release' = [build |-> assets[r], by |-> r, complete |-> FALSE, sums |-> sums]
  BY DEF Cancel, Expire, dataVars, siteVars
<1>2. github[r] = "creating" => assets[r] \in Runs
  <2> SUFFICES ASSUME github[r] = "creating" PROVE assets[r] \in Runs OBVIOUS
  <2>1. ReleaseWanted(r) BY DEF Inv, ReleasedMatches
  <2>2. publish[r]["sdk"] = "success" BY <2>1 DEF ReleaseWanted, Projects
  <2>3. ArtifactsReady(r) BY <2>2 DEF Inv, HasArtifacts, Projects
  <2> QED BY <2>3 DEF Inv, HasAssets
<1>3. ReleaseOK'
  <2>1. CASE UNCHANGED release BY <2>1 DEF TypeOK, ReleaseOK
  <2>2. ASSUME github[r] = "creating", NEW sums \in BOOLEAN,
               release' = [build |-> assets[r], by |-> r, complete |-> FALSE, sums |-> sums]
        PROVE  ReleaseOK'
    <3>1. assets[r] \in Runs /\ FALSE \in BOOLEAN BY <1>2, <2>2
    <3>2. [build |-> assets[r], by |-> r, complete |-> FALSE, sums |-> sums] \in ReleaseItems
      BY <3>1 DEF ReleaseItems
    <3> QED BY <2>2, <3>2 DEF ReleaseOK
  <2> QED BY <1>1, <2>1, <2>2
<1>4. FaultsOK' BY <1>1, FaultKeepsType DEF TypeOK, FaultsOK
<1>5. TypeOK' BY <1>1, <1>3, <1>4 DEF TypeOK, RunsOK, JobsOK, DataOK, IndexOK, jobVars
<1>6. OneSource' BY <1>1 DEF Inv, OneSource, jobVars
<1>7. HasAssets' BY <1>1 DEF Inv, HasAssets, ArtifactsReady, jobVars
<1>8. ArtifactsStay BY <1>1 DEF ArtifactsStay, ArtifactsReady, jobVars
<1>9. ReleaseStays BY <1>1 DEF ReleaseStays
<1> QED BY <1>1, <1>5, <1>6, <1>7, <1>8, <1>9, QuietStep DEF TypeOK, jobVars

-----------------------------------------------------------------------------
(***************************************************************************)
(* The steps of the publishing jobs.                                       *)
(***************************************************************************)
\* A step of job p of run r alone, which may have uploaded a file.
PublishFrame(r, p) ==
  /\ UNCHANGED <<run, assemble, reuse, github, dataVars, canceled, release>>
  /\ \E s \in JobStates \cup {"uploading"} : SetPublish(r, p, s)
  /\ publish[r][p] \in {"waiting", "uploading"}
  /\ faults' = faults \/ Fault

LEMMA PublishKeeps ==
  ASSUME TypeOK, Inv, NEW r \in Runs, NEW p \in Projects, PublishFrame(r, p),
         sent' \in [Runs -> [Projects -> SUBSET Kinds]], IndexOK', IndexStays,
         publish'[r][p] \in {"uploading", "success"} => ArtifactsReady(r),
         publish'[r][p] = "success" => Matches(r, p)',
         \A s \in Runs, q \in Projects : sent'[s][q] # {} => ArtifactsReady(s),
         SentIsThere', WheelFirst'
  PROVE  TypeOK' /\ Inv'
<1> USE DEF PublishFrame
<1>1. PICK st \in JobStates \cup {"uploading"} : SetPublish(r, p, st) OBVIOUS
<1>2. publish' \in [Runs -> [Projects -> JobStates \cup {"uploading"}]]
  BY <1>1 DEF SetPublish, TypeOK, JobsOK
<1>3. \A s \in Runs, q \in Projects : s # r \/ q # p => publish'[s][q] = publish[s][q]
  BY <1>1 DEF SetPublish, TypeOK, JobsOK
<1>4. JobsOK' BY <1>2 DEF TypeOK, JobsOK
<1>5. FaultsOK' BY FaultKeepsType DEF TypeOK, FaultsOK
<1>6. TypeOK' BY <1>4, <1>5 DEF TypeOK, RunsOK, DataOK, ReleaseOK, dataVars
<1>7. \A s \in Runs : ArtifactsReady(s)' = ArtifactsReady(s) /\ assets'[s] = assets[s]
  BY DEF ArtifactsReady, dataVars
<1>8. ArtifactsStay BY <1>7 DEF ArtifactsStay
<1>9. OneSource' BY DEF Inv, OneSource
<1>10. HasAssets' BY <1>7 DEF Inv, HasAssets, dataVars
<1>11. HasArtifacts'
  <2> SUFFICES ASSUME NEW s \in Runs, NEW q \in Projects,
                      publish'[s][q] \in {"uploading", "success"} \/ sent'[s][q] # {}
               PROVE  ArtifactsReady(s)'
    BY DEF HasArtifacts
  <2>1. CASE s = r /\ q = p BY <1>7, <2>1
  <2>2. CASE s # r \/ q # p BY <1>3, <1>7, <2>2 DEF Inv, HasArtifacts
  <2> QED BY <2>1, <2>2
<1>12. PublishedMatches'
  <2> SUFFICES ASSUME NEW s \in Runs, NEW q \in Projects, publish'[s][q] = "success"
               PROVE  Matches(s, q)'
    BY DEF PublishedMatches
  <2>1. CASE s = r /\ q = p BY <2>1
  <2>2. CASE s # r \/ q # p
    <3>1. publish[s][q] = "success" BY <1>3, <2>2
    <3>2. ArtifactsReady(s) /\ Matches(s, q) BY <3>1 DEF Inv, HasArtifacts, PublishedMatches
    <3> QED BY <1>8, <3>2, MatchesStays
  <2> QED BY <2>1, <2>2
<1>13. ReleasedMatches'
  <2> SUFFICES ASSUME NEW s \in Runs PROVE
         /\ github[s] \in {"creating", "success"} => ReleaseWanted(s)'
         /\ github[s] = "success" => release # None /\ release.build = assets[s]
    BY DEF ReleasedMatches, dataVars
  <2>1. ReleaseWanted(s) => s # r BY DEF ReleaseWanted
  <2>2. ReleaseWanted(s) => ReleaseWanted(s)' BY <1>3, <2>1 DEF ReleaseWanted
  <2> QED BY <2>2 DEF Inv, ReleasedMatches
<1> QED BY <1>6, <1>9, <1>10, <1>11, <1>12, <1>13 DEF Inv

LEMMA CheckStep ==
  ASSUME TypeOK, Inv, NEW r \in Runs, NEW p \in Projects,
         CheckIndex(r, p) \/ SkipPublish(r, p)
  PROVE  TypeOK' /\ Inv'
<1>1. /\ UNCHANGED <<run, assemble, reuse, sent, github, dataVars, canceled, siteVars, faults>>
      /\ publish[r][p] = "waiting"
  BY DEF CheckIndex, SkipPublish
<1>2. \/ SetPublish(r, p, "success") /\ Matches(r, p) /\ ArtifactsReady(r)
      \/ SetPublish(r, p, "uploading") /\ ArtifactsReady(r)
      \/ SetPublish(r, p, "failure") \/ SetPublish(r, p, "skipped")
  BY DEF CheckIndex, SkipPublish
<1>3. PublishFrame(r, p)
  BY <1>1, <1>2 DEF PublishFrame, JobStates, Terminal, siteVars
<1>4. \A st : SetPublish(r, p, st) => publish'[r][p] = st BY DEF SetPublish, TypeOK, JobsOK
<1>5. IndexStays /\ IndexOK' BY <1>1 DEF IndexStays, IndexOK, TypeOK, siteVars
<1>6. publish'[r][p] \in {"uploading", "success"} => ArtifactsReady(r) BY <1>2, <1>4
<1>7. publish'[r][p] = "success" => Matches(r, p)' BY <1>1, <1>2, <1>4 DEF Matches, dataVars, siteVars
<1>8. \A s \in Runs, q \in Projects : sent'[s][q] # {} => ArtifactsReady(s)
  BY <1>1 DEF Inv, HasArtifacts
<1>9. SentIsThere' BY <1>1 DEF Inv, SentIsThere, dataVars, siteVars
<1>10. WheelFirst' BY <1>1 DEF Inv, WheelFirst, siteVars
<1>11. sent' \in [Runs -> [Projects -> SUBSET Kinds]] BY <1>1 DEF TypeOK, JobsOK
<1> QED BY <1>3, <1>5, <1>6, <1>7, <1>8, <1>9, <1>10, <1>11, PublishKeeps

\* The index after the next file of a project was uploaded: it only grew, and
\* a sdist is there only after the wheel of the same build.
LEMMA NextFileStored ==
  ASSUME TypeOK, Inv, NEW r \in Runs, NEW p \in Projects, ArtifactsReady(r),
         Stored(r, p, NextFile(r, p))
  PROVE  /\ IndexOK' /\ IndexStays /\ WheelFirst'
         /\ pypi[p][NextFile(r, p)] = None \/ pypi[p][NextFile(r, p)].build = assets[r]
              => pypi'[p][NextFile(r, p)] # None /\ pypi'[p][NextFile(r, p)].build = assets[r]
<1> DEFINE k == NextFile(r, p)
           file == [build |-> assets[r], by |-> r]
<1>1. k \in Kinds BY DEF NextFile, Kinds
<1>2. assets[r] \in Runs BY DEF Inv, HasAssets
<1>3. file \in Files /\ file # None /\ file.build = assets[r]
  BY <1>2, NoneAssumption DEF Files
<1>4. /\ IndexOK'
      /\ \A pp \in Projects, kk \in Kinds : pypi[pp][kk] # None => pypi'[pp][kk] = pypi[pp][kk]
      /\ \A pp \in Projects, kk \in Kinds : pp # p \/ kk # k => pypi'[pp][kk] = pypi[pp][kk]
      /\ pypi[p][k] = None => pypi'[p][k] = file
  BY <1>1, <1>2, StoredKeeps DEF TypeOK
<1>5. IndexStays BY <1>4 DEF IndexStays
<1>6. pypi[p][k] = None \/ pypi[p][k].build = assets[r]
        => pypi'[p][k] # None /\ pypi'[p][k].build = assets[r]
  BY <1>1, <1>3, <1>4
<1>7. WheelFirst'
  <2> SUFFICES ASSUME NEW q \in Projects, pypi'[q]["sdist"] # None
               PROVE  pypi'[q]["wheel"] # None /\ pypi'[q]["wheel"].build = pypi'[q]["sdist"].build
    BY DEF WheelFirst
  <2>1. CASE pypi[q]["sdist"] # None
    BY <1>4, <2>1 DEF Inv, WheelFirst, Kinds
  <2>2. CASE pypi[q]["sdist"] = None
    <3>1. q = p /\ k = "sdist" BY <1>4, <2>2 DEF Kinds
    <3>2. pypi'[p]["sdist"].build = assets[r] BY <1>3, <1>4, <2>2, <3>1
    <3>3. "wheel" \in sent[r][p] BY <3>1 DEF NextFile
    <3>4. pypi[p]["wheel"] # None /\ pypi[p]["wheel"].build = assets[r]
      BY <3>3 DEF Inv, SentIsThere
    <3> QED BY <1>4, <3>1, <3>2, <3>4 DEF Kinds
  <2> QED BY <2>1, <2>2
<1> QED BY <1>4, <1>5, <1>6, <1>7

LEMMA PublishFailsStep ==
  ASSUME TypeOK, Inv, NEW r \in Runs, NEW p \in Projects, PublishFails(r, p)
  PROVE  TypeOK' /\ Inv'
<1>1. /\ UNCHANGED <<run, assemble, reuse, sent, github, dataVars, canceled, release>>
      /\ Fault /\ SetPublish(r, p, "failure") /\ publish[r][p] \in {"waiting", "uploading"}
  BY DEF PublishFails
<1>2. UNCHANGED pypi \/ (publish[r][p] = "uploading" /\ Stored(r, p, NextFile(r, p)))
  BY Zenon DEF PublishFails
<1>3. IndexOK' /\ IndexStays /\ WheelFirst'
  <2>1. CASE UNCHANGED pypi BY <2>1 DEF TypeOK, IndexOK, IndexStays, Inv, WheelFirst
  <2>2. CASE publish[r][p] = "uploading" /\ Stored(r, p, NextFile(r, p))
    <3>1. ArtifactsReady(r) BY <2>2 DEF Inv, HasArtifacts
    <3> QED BY <2>2, <3>1, NextFileStored
  <2> QED BY <1>2, <2>1, <2>2
<1>4. PublishFrame(r, p) BY <1>1 DEF PublishFrame, JobStates, Terminal
<1>5. publish'[r][p] = "failure" BY <1>1 DEF SetPublish, TypeOK, JobsOK
<1>6. ArtifactsStay BY <1>1 DEF ArtifactsStay, ArtifactsReady, dataVars
<1>7. SentIsThere' BY <1>1, <1>3, <1>6, SentStays DEF TypeOK
<1>8. \A s \in Runs, q \in Projects : sent'[s][q] # {} => ArtifactsReady(s)
  BY <1>1 DEF Inv, HasArtifacts
<1>9. sent' \in [Runs -> [Projects -> SUBSET Kinds]] BY <1>1 DEF TypeOK, JobsOK
<1> QED BY <1>3, <1>4, <1>5, <1>7, <1>8, <1>9, PublishKeeps

LEMMA UploadStep ==
  ASSUME TypeOK, Inv, NEW r \in Runs, NEW p \in Projects, Upload(r, p)
  PROVE  TypeOK' /\ Inv'
<1> DEFINE k == NextFile(r, p)
<1>1. /\ UNCHANGED <<run, assemble, reuse, github, dataVars, canceled, release, faults>>
      /\ publish[r][p] = "uploading" /\ Stored(r, p, k)
  BY DEF Upload
<1>2. ArtifactsReady(r) BY <1>1 DEF Inv, HasArtifacts
<1>3. /\ IndexOK' /\ IndexStays /\ WheelFirst'
      /\ pypi[p][k] = None \/ pypi[p][k].build = assets[r]
           => pypi'[p][k] # None /\ pypi'[p][k].build = assets[r]
  BY <1>1, <1>2, NextFileStored
<1>4. k \in Kinds BY DEF NextFile, Kinds
<1>5. \/ /\ pypi'[p][k] # None /\ pypi'[p][k].build = assets[r]
         /\ sent' = [sent EXCEPT ![r][p] = @ \cup {k}]
         /\ \/ SetPublish(r, p, "success") /\ Kinds \subseteq sent[r][p] \cup {k}
            \/ SetPublish(r, p, "uploading")
      \/ SetPublish(r, p, "failure") /\ UNCHANGED sent
  BY <1>3 DEF Upload
<1>6. PublishFrame(r, p)
  <2>1. SetPublish(r, p, "success") \/ SetPublish(r, p, "uploading") \/ SetPublish(r, p, "failure")
    BY <1>5
  <2>2. \E s \in JobStates \cup {"uploading"} : SetPublish(r, p, s)
    BY <2>1 DEF JobStates, Terminal
  <2> QED BY <1>1, <2>2 DEF PublishFrame
<1>7. sent' \in [Runs -> [Projects -> SUBSET Kinds]]
  <2>1. sent[r][p] \cup {k} \in SUBSET Kinds BY <1>4 DEF TypeOK, JobsOK
  <2>2. sent' = [sent EXCEPT ![r][p] = sent[r][p] \cup {k}] \/ sent' = sent BY <1>5
  <2>3. sent \in [Runs -> [Projects -> SUBSET Kinds]] BY DEF TypeOK, JobsOK
  <2> DEFINE new == sent[r][p] \cup {k}
  <2>4. sent[r] \in [Projects -> SUBSET Kinds] BY <2>3
  <2>5. new \in SUBSET Kinds BY <2>1
  <2>6. sent' = [sent EXCEPT ![r][p] = new] \/ sent' = sent BY <2>2
  <2> HIDE DEF new
  <2>7. [sent EXCEPT ![r][p] = new] \in [Runs -> [Projects -> SUBSET Kinds]]
    BY <2>3, <2>4, <2>5
  <2> QED BY <2>3, <2>6, <2>7
<1>8. \A s \in Runs, q \in Projects : s # r \/ q # p => sent'[s][q] = sent[s][q]
  BY <1>5 DEF TypeOK, JobsOK
<1>9. \A s \in Runs, q \in Projects : sent'[s][q] # {} => ArtifactsReady(s)
  BY <1>2, <1>8 DEF Inv, HasArtifacts
<1>10. SentIsThere'
  <2> SUFFICES ASSUME NEW s \in Runs, NEW q \in Projects, NEW kk \in sent'[s][q]
               PROVE  pypi'[q][kk] # None /\ pypi'[q][kk].build = assets[s]
    BY <1>1 DEF SentIsThere, dataVars
  <2>1. CASE kk \in sent[s][q]
    <3>1. pypi[q][kk] # None /\ pypi[q][kk].build = assets[s] BY <2>1 DEF Inv, SentIsThere
    <3>2. kk \in Kinds BY <2>1 DEF TypeOK, JobsOK
    <3> QED BY <1>3, <3>1, <3>2 DEF IndexStays
  <2>2. CASE kk \notin sent[s][q]
    <3>1. s = r /\ q = p BY <1>8, <2>2
    <3>2. kk = k BY <1>5, <2>2, <3>1 DEF TypeOK, JobsOK
    <3>3. pypi'[p][k] # None /\ pypi'[p][k].build = assets[r] BY <1>5, <2>2, <3>1
    <3> QED BY <3>1, <3>2, <3>3
  <2> QED BY <2>1, <2>2
<1>11. \A st : SetPublish(r, p, st) => publish'[r][p] = st BY DEF SetPublish, TypeOK, JobsOK
<1>12. publish'[r][p] = "success" => Matches(r, p)'
  <2> SUFFICES ASSUME publish'[r][p] = "success" PROVE Matches(r, p)' OBVIOUS
  <2>1. /\ sent' = [sent EXCEPT ![r][p] = @ \cup {k}] /\ Kinds \subseteq sent[r][p] \cup {k}
    BY <1>5, <1>11
  <2>2. sent'[r][p] = sent[r][p] \cup {k} BY <2>1 DEF TypeOK, JobsOK
  <2>3. Kinds \subseteq sent'[r][p] BY <2>1, <2>2
  <2> QED BY <1>10, <2>3 DEF SentIsThere, Matches
<1> QED BY <1>2, <1>3, <1>6, <1>7, <1>9, <1>10, <1>12, PublishKeeps

-----------------------------------------------------------------------------
\* A step of the release job, which may have made the release.
GithubFrame(r) ==
  /\ UNCHANGED <<run, assemble, reuse, publish, sent, dataVars, canceled, pypi>>
  /\ faults' = faults \/ Fault
  /\ \/ \E s \in {"failure", "skipped"} : SetGithub(r, s) /\ UNCHANGED release
     \/ SetGithub(r, "creating") /\ UNCHANGED release /\ ReleaseWanted(r)
     \/ /\ SetGithub(r, "success") /\ UNCHANGED release
        /\ release # None /\ release.build = assets[r] /\ ReleaseWanted(r)
     \/ /\ SetGithub(r, "success") /\ release = None /\ github[r] = "creating"
        /\ release' = [build |-> assets[r], by |-> r, complete |-> TRUE, sums |-> TRUE]

LEMMA GithubKeeps ==
  ASSUME TypeOK, Inv, NEW r \in Runs, GithubFrame(r)
  PROVE  TypeOK' /\ Inv'
<1> USE DEF GithubFrame
<1>1. \A s : SetGithub(r, s) => /\ github'[r] = s
                                /\ \A q \in Runs : q # r => github'[q] = github[q]
  BY DEF SetGithub, TypeOK, JobsOK
<1>2. github' \in [Runs -> JobStates \cup {"creating"}]
  BY DEF SetGithub, TypeOK, JobsOK, JobStates, Terminal
<1>3. \A q \in Runs : ReleaseWanted(q) => assets[q] \in Runs /\ ReleaseWanted(q)'
  <2> SUFFICES ASSUME NEW q \in Runs, ReleaseWanted(q) PROVE assets[q] \in Runs /\ ReleaseWanted(q)'
    OBVIOUS
  <2>1. publish[q]["sdk"] = "success" BY DEF ReleaseWanted, Projects
  <2>2. ArtifactsReady(q) BY <2>1 DEF Inv, HasArtifacts, Projects
  <2> QED BY <2>2 DEF Inv, HasAssets, ReleaseWanted
<1>4. github[r] = "creating" => ReleaseWanted(r) BY DEF Inv, ReleasedMatches
<1> DEFINE item == [build |-> assets[r], by |-> r, complete |-> TRUE, sums |-> TRUE]
<1>5. ReleaseWanted(r) => item \in ReleaseItems
  <2>1. TRUE \in BOOLEAN OBVIOUS
  <2> QED BY <1>3, <2>1 DEF ReleaseItems
<1>6. ReleaseOK' BY <1>4, <1>5 DEF TypeOK, ReleaseOK
<1>7. JobsOK' BY <1>2 DEF TypeOK, JobsOK
<1>8. FaultsOK' BY FaultKeepsType DEF TypeOK, FaultsOK
<1>9. TypeOK' BY <1>6, <1>7, <1>8 DEF TypeOK, RunsOK, DataOK, IndexOK, dataVars
<1>10. ReleaseStays BY DEF ReleaseStays
<1>11. ReleasedMatches'
  <2> SUFFICES ASSUME NEW q \in Runs PROVE
         /\ github'[q] \in {"creating", "success"} => ReleaseWanted(q)'
         /\ github'[q] = "success" => release' # None /\ release'.build = assets[q]
    BY DEF ReleasedMatches, dataVars
  <2>1. CASE q # r BY <1>1, <1>3, <1>10, <2>1 DEF Inv, ReleasedMatches, ReleaseStays
  <2>2. CASE q = r
    <3>1. (item # None /\ item.build = assets[r]) \/ ~ReleaseWanted(r) BY <1>5, NoneAssumption
    <3> QED BY <1>1, <1>3, <1>4, <2>2, <3>1
  <2> QED BY <2>1, <2>2
<1>12. OneSource' /\ HasAssets' /\ HasArtifacts'
  BY DEF Inv, OneSource, HasAssets, HasArtifacts, ArtifactsReady, dataVars
<1>13. SentIsThere' /\ PublishedMatches' /\ WheelFirst'
  BY DEF Inv, SentIsThere, PublishedMatches, WheelFirst, Matches, dataVars
<1> QED BY <1>9, <1>11, <1>12, <1>13 DEF Inv

LEMMA GithubStepKeeps ==
  ASSUME TypeOK, Inv, NEW r \in Runs, GithubStep(r) \/ ViewFails(r)
  PROVE  TypeOK' /\ Inv'
<1>1. GithubStep(r) => GithubFrame(r)
  BY DEF GithubStep, ViewRelease, CreateRelease, SkipRelease, GithubFrame, siteVars
<1>2. ViewFails(r) => GithubFrame(r) BY DEF ViewFails, GithubFrame, siteVars
<1> QED BY <1>1, <1>2, GithubKeeps

-----------------------------------------------------------------------------
LEMMA InvStep ==
  ASSUME TypeOK, Inv, [Next]_vars
  PROVE  TypeOK' /\ Inv'
<1>1. CASE UNCHANGED vars
  <2> USE <1>1 DEF vars, jobVars, dataVars, siteVars
  <2>1. TypeOK' BY DEF TypeOK, RunsOK, JobsOK, DataOK, IndexOK, ReleaseOK, FaultsOK
  <2>2. OneSource' /\ HasAssets' /\ HasArtifacts'
    BY DEF Inv, OneSource, HasAssets, HasArtifacts, ArtifactsReady
  <2>3. SentIsThere' /\ PublishedMatches' /\ WheelFirst' /\ ReleasedMatches'
    BY DEF Inv, SentIsThere, PublishedMatches, WheelFirst, Matches, ReleasedMatches, ReleaseWanted
  <2> QED BY <2>1, <2>2, <2>3 DEF Inv
<1>2. ASSUME NEW r \in Runs, NEW trigger \in {"push", "rebuild", "reuse"}, NEW ref \in Refs,
             NEW q \in Runs \cup {None}, Trigger(r, trigger, ref, q)
      PROVE  TypeOK' /\ Inv'
  BY <1>2, TriggerStep
<1>3. ASSUME NEW r \in Runs, BuildStep(r) PROVE TypeOK' /\ Inv'
  BY <1>3, AssembleStep, ReuseStep DEF BuildStep
<1>4. ASSUME NEW r \in Runs, PublishStep(r) PROVE TypeOK' /\ Inv'
  BY <1>4, CheckStep, UploadStep DEF PublishStep
<1>5. ASSUME NEW r \in Runs, GithubStep(r) PROVE TypeOK' /\ Inv'
  BY <1>5, GithubStepKeeps
<1>6. ASSUME NEW r \in Runs, FaultStep(r) PROVE TypeOK' /\ Inv'
  BY <1>6, ReuseStep, GithubStepKeeps, EndStep, PublishFailsStep DEF FaultStep
<1> QED BY <1>1, <1>2, <1>3, <1>4, <1>5, <1>6 DEF Next

LEMMA InvInit == Init => TypeOK /\ Inv
<1> SUFFICES ASSUME Init PROVE TypeOK /\ Inv OBVIOUS
<1> USE DEF Init
<1>1. JobsOK BY DEF JobsOK, JobStates
<1>2. TypeOK
  BY <1>1, ConstantsAssumption DEF TypeOK, RunsOK, DataOK, IndexOK, ReleaseOK, FaultsOK, MaybeRun
<1>3. \A r \in Runs : ~ArtifactsReady(r) BY DEF ArtifactsReady
<1>4. OneSource /\ HasAssets /\ HasArtifacts BY <1>3 DEF OneSource, HasAssets, HasArtifacts
<1>5. SentIsThere /\ PublishedMatches BY DEF SentIsThere, PublishedMatches
<1>6. ReleasedMatches /\ WheelFirst BY DEF ReleasedMatches, WheelFirst, Kinds
<1> QED BY <1>2, <1>4, <1>5, <1>6 DEF Inv

THEOREM InvHolds == Spec => [](TypeOK /\ Inv)
<1>1. TypeOK /\ Inv /\ [Next]_vars => (TypeOK /\ Inv)' BY InvStep
<1> QED BY <1>1, InvInit, PTL DEF Spec

\* The variables of the release keep their types in every behaviour: no file
\* and no release is ever made of a run that built nothing.
THEOREM TypeCorrect == Spec => []TypeOK
BY InvHolds, PTL

\* A run whose last job succeeded leaves both projects and the release with
\* the build it published, for any number of runs and faults.
THEOREM SuccessAlwaysEverywhere == Spec => []SuccessIsEverywhere
<1>1. TypeOK /\ Inv => SuccessIsEverywhere
  <2> SUFFICES ASSUME TypeOK, Inv, NEW r \in Runs, github[r] = "success"
               PROVE  /\ \A p \in Projects : Matches(r, p)
                      /\ release # None /\ release.build = assets[r]
    BY DEF SuccessIsEverywhere
  <2>1. ReleaseWanted(r) BY DEF Inv, ReleasedMatches
  <2>2. \A p \in Projects : Matches(r, p) BY <2>1 DEF ReleaseWanted, Inv, PublishedMatches
  <2> QED BY <2>2 DEF Inv, ReleasedMatches
<1> QED BY <1>1, InvHolds, PTL

\* The wheel and the sdist of a project are of one build in every state.
THEOREM NeverTwoBuilds == Spec => []OneBuildPerProject
<1>1. TypeOK /\ Inv => OneBuildPerProject
  BY DEF Inv, WheelFirst, OneBuildPerProject, Kinds
<1> QED BY <1>1, InvHolds, PTL

-----------------------------------------------------------------------------
(***************************************************************************)
(* Where a build comes from.  A run that reuses never assembles, so what   *)
(* it publishes is what verify_source and verify_assets accepted; a file   *)
(* or a release stays bound to the run it is by.                           *)
(***************************************************************************)
SourcesOK ==
  \A r \in Runs :
    /\ run[r] # None /\ run[r].trigger = "reuse" => assemble[r] = "skipped"
    /\ assemble[r] = "success" => assets[r] = r
    /\ ArtifactsReady(r) => assemble[assets[r]] = "success"
    /\ reuse[r] = "success" => built[assets[r]].tagged /\ built[assets[r]].exact

Owned(item) ==
  run[item.by] # None /\ ArtifactsReady(item.by) /\ item.build = assets[item.by]

ItemsOwned ==
  /\ \A p \in Projects, k \in Kinds : pypi[p][k] # None => Owned(pypi[p][k])
  /\ release # None => Owned(release)

SourceInv == SourcesOK /\ ItemsOwned

\* What a step leaves alone unless it triggers, builds or reuses.
sourceVars == <<run, assemble, reuse, assets, built>>

RunStays   == \A r \in Runs : run[r] # None => run'[r] = run[r]
BuiltStays == \A r \in Runs : assemble[r] = "success" =>
                assemble'[r] = "success" /\ built'[r] = built[r]

\* A step that publishes nothing keeps every file and release with its run.
LEMMA ItemsStay ==
  ASSUME TypeOK, ItemsOwned, ArtifactsStay, RunStays, UNCHANGED siteVars
  PROVE  ItemsOwned'
<1>1. ASSUME NEW item, item \in Files \cup ReleaseItems, Owned(item)
      PROVE  Owned(item)'
  <2>1. item.by \in Runs BY <1>1 DEF Files, ReleaseItems
  <2>2. run[item.by] # None /\ ArtifactsReady(item.by) /\ item.build = assets[item.by]
    BY <1>1 DEF Owned
  <2>3. run'[item.by] = run[item.by] BY <2>1, <2>2 DEF RunStays
  <2>4. ArtifactsReady(item.by)' /\ assets'[item.by] = assets[item.by]
    BY <2>1, <2>2 DEF ArtifactsStay
  <2> QED BY <2>2, <2>3, <2>4 DEF Owned
<1>2. ASSUME NEW p \in Projects, NEW k \in Kinds, NEW f, f = pypi[p][k], f # None
      PROVE  Owned(f)'
  <2>1. f \in Files /\ Owned(f) BY <1>2 DEF TypeOK, IndexOK, ItemsOwned
  <2> QED BY <1>1, <2>1
<1>3. ASSUME NEW f, f = release, f # None
      PROVE  Owned(f)'
  <2>1. f \in ReleaseItems /\ Owned(f) BY <1>3 DEF TypeOK, ReleaseOK, ItemsOwned
  <2> QED BY <1>1, <2>1
<1>4. pypi' = pypi /\ release' = release BY DEF siteVars
<1>5. ASSUME NEW p \in Projects, NEW k \in Kinds, pypi'[p][k] # None
      PROVE  Owned(pypi[p][k])'
  BY <1>2, <1>4, <1>5 DEF Owned, ArtifactsReady
<1>6. ASSUME release' # None PROVE Owned(release)'
  BY <1>3, <1>4, <1>6 DEF Owned, ArtifactsReady
<1> QED BY <1>5, <1>6 DEF ItemsOwned

\* A run's reuse is fixed before it starts: what is reused is its own build.
LEMMA TriggerKeepsSource ==
  ASSUME TypeOK, Inv, SourceInv, NEW r \in Runs, NEW trigger \in {"push", "rebuild", "reuse"},
         NEW ref \in Refs, NEW q \in Runs \cup {None}, Trigger(r, trigger, ref, q)
  PROVE  SourceInv'
<1> USE DEF Trigger
<1>1. assemble[r] = "waiting" /\ reuse[r] = "waiting" BY DEF Inv, OneSource
<1>2. /\ \A s \in Runs : s # r => run'[s] = run[s] /\ assemble'[s] = assemble[s] /\ reuse'[s] = reuse[s]
      /\ run'[r].trigger = trigger
      /\ trigger = "reuse" => assemble'[r] = "skipped"
      /\ assemble'[r] \in {"waiting", "skipped"} /\ reuse'[r] \in {"waiting", "skipped"}
      /\ assets' = assets /\ built' = built /\ UNCHANGED siteVars
  BY <1>1 DEF TypeOK, RunsOK, JobsOK, dataVars
<1>3. ArtifactsStay /\ RunStays BY <1>1, <1>2 DEF ArtifactsStay, ArtifactsReady, RunStays
<1>4. ItemsOwned' BY <1>2, <1>3, ItemsStay DEF SourceInv
<1>5. SourcesOK'
  <2> SUFFICES ASSUME NEW s \in Runs PROVE
        /\ run'[s] # None /\ run'[s].trigger = "reuse" => assemble'[s] = "skipped"
        /\ assemble'[s] = "success" => assets[s] = s
        /\ ArtifactsReady(s)' => assemble'[assets[s]] = "success"
        /\ reuse'[s] = "success" => built[assets[s]].tagged /\ built[assets[s]].exact
    BY <1>2 DEF SourcesOK
  <2>1. /\ run[s] # None /\ run[s].trigger = "reuse" => assemble[s] = "skipped"
        /\ assemble[s] = "success" => assets[s] = s
        /\ ArtifactsReady(s) => assemble[assets[s]] = "success"
        /\ reuse[s] = "success" => built[assets[s]].tagged /\ built[assets[s]].exact
    BY DEF SourceInv, SourcesOK
  <2>2. ArtifactsReady(s)' => ArtifactsReady(s) /\ assets[s] \in Runs
    BY <1>2 DEF ArtifactsReady, Inv, HasAssets
  <2> QED BY <1>1, <1>2, <2>1, <2>2
<1> QED BY <1>4, <1>5 DEF SourceInv

LEMMA AssembleKeepsSource ==
  ASSUME TypeOK, Inv, SourceInv, NEW r \in Runs, Assemble(r)
  PROVE  SourceInv'
<1> USE DEF Assemble
<1>1. run[r] # None /\ assemble[r] = "waiting" BY DEF Running, Active
<1>2. reuse[r] = "skipped" /\ ~ArtifactsReady(r) BY <1>1 DEF Inv, OneSource, ArtifactsReady
<1>3. /\ \A s \in Runs : s # r => /\ assemble'[s] = assemble[s] /\ assets'[s] = assets[s]
                                  /\ built'[s] = built[s]
      /\ \/ assemble'[r] = "success" /\ assets'[r] = r
         \/ assemble'[r] = "failure"
      /\ run' = run /\ reuse' = reuse /\ UNCHANGED siteVars
  BY DEF TypeOK, JobsOK, DataOK, dataVars
<1>4. ArtifactsStay /\ RunStays BY <1>2, <1>3 DEF ArtifactsStay, ArtifactsReady, RunStays
<1>5. ItemsOwned' BY <1>3, <1>4, ItemsStay DEF SourceInv
<1>6. run[r].trigger # "reuse" BY <1>1 DEF SourceInv, SourcesOK
<1>7. SourcesOK'
  <2> SUFFICES ASSUME NEW s \in Runs PROVE
        /\ run[s] # None /\ run[s].trigger = "reuse" => assemble'[s] = "skipped"
        /\ assemble'[s] = "success" => assets'[s] = s
        /\ ArtifactsReady(s)' => assemble'[assets'[s]] = "success"
        /\ reuse[s] = "success" => built'[assets'[s]].tagged /\ built'[assets'[s]].exact
    BY <1>3 DEF SourcesOK
  <2>1. CASE s = r BY <1>2, <1>3, <1>6, <2>1 DEF ArtifactsReady
  <2>2. CASE s # r
    <3>1. /\ run[s] # None /\ run[s].trigger = "reuse" => assemble[s] = "skipped"
          /\ assemble[s] = "success" => assets[s] = s
          /\ ArtifactsReady(s) => assemble[assets[s]] = "success" /\ assets[s] \in Runs
          /\ reuse[s] = "success" => built[assets[s]].tagged /\ built[assets[s]].exact
      BY DEF SourceInv, SourcesOK, Inv, HasAssets
    <3>2. ArtifactsReady(s)' => ArtifactsReady(s) BY <1>3, <2>2 DEF ArtifactsReady
    <3>3. ArtifactsReady(s) => assets[s] # r BY <1>1, <3>1
    <3>4. reuse[s] = "success" => ArtifactsReady(s) BY DEF ArtifactsReady
    <3> QED BY <1>3, <2>2, <3>1, <3>2, <3>3, <3>4
  <2> QED BY <2>1, <2>2
<1> QED BY <1>5, <1>7 DEF SourceInv

\* What is reused was built by a run whose build jobs succeeded, from the
\* tagged commit, with the inventory of the version.
LEMMA ReuseKeepsSource ==
  ASSUME TypeOK, Inv, SourceInv, NEW r \in Runs, Reuse(r) \/ ReuseFails(r)
  PROVE  SourceInv'
<1>1. run[r] # None /\ reuse[r] = "waiting" BY DEF Reuse, ReuseFails, Running, Active
<1>2. assemble[r] = "skipped" /\ ~ArtifactsReady(r) BY <1>1 DEF Inv, OneSource, ArtifactsReady
<1>3. PICK q : q = run[r].reuses OBVIOUS
<1>4. /\ UNCHANGED <<run, assemble, built, siteVars>>
      /\ \/ /\ reuse' = [reuse EXCEPT ![r] = "success"]
            /\ assets' = [assets EXCEPT ![r] = assets[q]]
            /\ q \in Runs /\ assemble[q] = "success"
            /\ built[q].tagged /\ built[assets[q]].exact
         \/ reuse' = [reuse EXCEPT ![r] = "failure"] /\ assets' = assets
  BY <1>3 DEF Reuse, ReuseFails, dataVars, VerifiedSource, VerifiedAssets, TypeOK, DataOK
<1>5. /\ \A s \in Runs : s # r => reuse'[s] = reuse[s] /\ assets'[s] = assets[s]
      /\ \/ /\ reuse'[r] = "success" /\ assets'[r] = q /\ assemble[q] = "success"
            /\ built[q].tagged /\ built[q].exact
         \/ reuse'[r] = "failure"
  <2>1. q \in Runs /\ assemble[q] = "success" => assets[q] = q BY DEF SourceInv, SourcesOK
  <2> QED BY <1>4, <2>1 DEF TypeOK, JobsOK, DataOK
<1>6. ArtifactsStay /\ RunStays BY <1>2, <1>4, <1>5 DEF ArtifactsStay, ArtifactsReady, RunStays
<1>7. ItemsOwned' BY <1>4, <1>6, ItemsStay DEF SourceInv
<1>8. SourcesOK'
  <2> SUFFICES ASSUME NEW s \in Runs PROVE
        /\ run[s] # None /\ run[s].trigger = "reuse" => assemble[s] = "skipped"
        /\ assemble[s] = "success" => assets'[s] = s
        /\ ArtifactsReady(s)' => assemble[assets'[s]] = "success"
        /\ reuse'[s] = "success" => built[assets'[s]].tagged /\ built[assets'[s]].exact
    BY <1>4 DEF SourcesOK
  <2>1. /\ run[s] # None /\ run[s].trigger = "reuse" => assemble[s] = "skipped"
        /\ assemble[s] = "success" => assets[s] = s
        /\ ArtifactsReady(s) => assemble[assets[s]] = "success"
        /\ reuse[s] = "success" => built[assets[s]].tagged /\ built[assets[s]].exact
    BY DEF SourceInv, SourcesOK
  <2>2. CASE s = r BY <1>2, <1>4, <1>5, <2>1, <2>2 DEF ArtifactsReady
  <2>3. CASE s # r BY <1>4, <1>5, <2>1, <2>3 DEF ArtifactsReady
  <2> QED BY <2>2, <2>3
<1> QED BY <1>7, <1>8 DEF SourceInv

\* What a run with artifacts publishes is its own.
LEMMA PublishKeepsSource ==
  ASSUME TypeOK, Inv, SourceInv, UNCHANGED sourceVars, NEW r \in Runs,
         run[r] # None, ArtifactsReady(r),
         \A p \in Projects, k \in Kinds :
           pypi'[p][k] \in {pypi[p][k], [build |-> assets[r], by |-> r]},
         release' # None => \/ release' = release
                            \/ release'.by = r /\ release'.build = assets[r]
  PROVE  SourceInv'
<1>1. SourcesOK' BY DEF SourceInv, SourcesOK, ArtifactsReady, sourceVars
<1>2. ASSUME NEW item, Owned(item) PROVE Owned(item)'
  BY <1>2 DEF Owned, ArtifactsReady, sourceVars
<1>3. ASSUME NEW item, item.by = r, item.build = assets[r] PROVE Owned(item)
  BY <1>3 DEF Owned
<1>4. ASSUME NEW p \in Projects, NEW k \in Kinds, NEW f, f = pypi'[p][k], f # None
      PROVE  Owned(f)'
  <2>1. CASE f = pypi[p][k] BY <1>2, <1>4, <2>1 DEF SourceInv, ItemsOwned
  <2>2. CASE f = [build |-> assets[r], by |-> r]
    <3>1. f.by = r /\ f.build = assets[r] BY <2>2
    <3> QED BY <1>2, <1>3, <3>1
  <2> QED BY <1>4, <2>1, <2>2
<1>5. ASSUME NEW f, f = release', f # None PROVE Owned(f)'
  <2>1. Owned(f) BY <1>3, <1>5 DEF SourceInv, ItemsOwned
  <2> QED BY <1>2, <2>1
<1>6. ASSUME NEW p \in Projects, NEW k \in Kinds, pypi'[p][k] # None PROVE Owned(pypi[p][k])'
  BY <1>4, <1>6 DEF Owned, ArtifactsReady
<1>7. ASSUME release' # None PROVE Owned(release)'
  BY <1>5, <1>7 DEF Owned, ArtifactsReady
<1> QED BY <1>1, <1>6, <1>7 DEF SourceInv, ItemsOwned

LEMMA SourceStep ==
  ASSUME TypeOK, Inv, SourceInv, [Next]_vars
  PROVE  SourceInv'
<1>1. ASSUME UNCHANGED <<sourceVars, siteVars>> PROVE SourceInv'
  <2> USE <1>1 DEF sourceVars, siteVars
  <2>1. SourcesOK' BY DEF SourceInv, SourcesOK, ArtifactsReady
  <2>2. ItemsOwned' BY DEF SourceInv, ItemsOwned, Owned, ArtifactsReady
  <2> QED BY <2>1, <2>2 DEF SourceInv
<1>2. ASSUME NEW r \in Runs, NEW p \in Projects, NEW k \in Kinds, Stored(r, p, k)
      PROVE  \A q \in Projects, kk \in Kinds :
               pypi'[q][kk] \in {pypi[q][kk], [build |-> assets[r], by |-> r]}
  <2>1. PICK file : file = [build |-> assets[r], by |-> r] OBVIOUS
  <2>2. PICK new : new = IF pypi[p][k] = None THEN file ELSE pypi[p][k] OBVIOUS
  <2>3. pypi' = [pypi EXCEPT ![p][k] = new] BY <1>2, <2>1, <2>2 DEF Stored
  <2>4. new \in {pypi[p][k], file} BY <2>2
  <2>5. \A q \in Projects, kk \in Kinds : pypi'[q][kk] \in {pypi[q][kk], file}
    BY <2>3, <2>4 DEF TypeOK, IndexOK
  <2> QED BY <2>1, <2>5
<1>3. ASSUME NEW r \in Runs, NEW p \in Projects, Running(r), publish[r][p] = "uploading",
             Stored(r, p, NextFile(r, p)), UNCHANGED <<sourceVars, release>>
      PROVE  SourceInv'
  <2>1. run[r] # None BY <1>3 DEF Running, Active
  <2>2. ArtifactsReady(r) BY <1>3 DEF Inv, HasArtifacts
  <2>3. NextFile(r, p) \in Kinds BY DEF NextFile, Kinds
  <2>4. \A q \in Projects, kk \in Kinds :
          pypi'[q][kk] \in {pypi[q][kk], [build |-> assets[r], by |-> r]}
    BY <1>2, <1>3, <2>3
  <2>5. release' = release /\ UNCHANGED sourceVars BY <1>3
  <2> QED BY <2>1, <2>2, <2>4, <2>5, PublishKeepsSource
<1>4. ASSUME NEW r \in Runs, Active(r), github[r] = "creating", UNCHANGED <<sourceVars, pypi>>,
             release'.build = assets[r], release'.by = r
      PROVE  SourceInv'
  <2>1. run[r] # None BY <1>4 DEF Active
  <2>2. ReleaseWanted(r) BY <1>4 DEF Inv, ReleasedMatches
  <2>3. publish[r]["sdk"] = "success" BY <2>2 DEF ReleaseWanted, Projects
  <2>4. ArtifactsReady(r) BY <2>3 DEF Inv, HasArtifacts, Projects
  <2>5. UNCHANGED sourceVars BY <1>4
  <2>6. \A p \in Projects, k \in Kinds :
          pypi'[p][k] \in {pypi[p][k], [build |-> assets[r], by |-> r]}
    BY <1>4
  <2> QED BY <1>4, <2>1, <2>4, <2>5, <2>6, PublishKeepsSource
<1>5. ASSUME NEW r \in Runs, NEW trigger \in {"push", "rebuild", "reuse"}, NEW ref \in Refs,
             NEW q \in Runs \cup {None}, Trigger(r, trigger, ref, q)
      PROVE  SourceInv'
  BY <1>5, TriggerKeepsSource
<1>6. ASSUME NEW r \in Runs, BuildStep(r) \/ ReuseFails(r) PROVE SourceInv'
  BY <1>6, AssembleKeepsSource, ReuseKeepsSource DEF BuildStep
<1>7. ASSUME NEW r \in Runs, PublishStep(r) PROVE SourceInv'
  <2>1. ASSUME NEW p \in Projects, CheckIndex(r, p) \/ SkipPublish(r, p) PROVE SourceInv'
    BY <1>1, <2>1 DEF CheckIndex, SkipPublish, sourceVars, dataVars
  <2>2. ASSUME NEW p \in Projects, Upload(r, p) PROVE SourceInv'
    BY <1>3, <2>2 DEF Upload, sourceVars, dataVars
  <2> QED BY <1>7, <2>1, <2>2 DEF PublishStep
<1>8. ASSUME NEW r \in Runs, GithubStep(r) \/ ViewFails(r) PROVE SourceInv'
  <2>1. CASE UNCHANGED <<sourceVars, siteVars>> BY <1>1, <2>1
  <2>2. CASE CreateRelease(r) /\ release = None
    <3>1. Active(r) /\ github[r] = "creating" /\ UNCHANGED <<sourceVars, pypi>>
      BY <2>2 DEF CreateRelease, Running, sourceVars, dataVars
    <3>2. release'.build = assets[r] /\ release'.by = r BY <2>2 DEF CreateRelease
    <3> QED BY <1>4, <3>1, <3>2
  <2> QED BY <1>8, <2>1, <2>2 DEF GithubStep, ViewRelease, CreateRelease, SkipRelease, ViewFails,
         sourceVars, siteVars, dataVars
<1>9. ASSUME NEW r \in Runs, Cancel(r) PROVE SourceInv'
  <2>1. UNCHANGED <<sourceVars, pypi>> /\ Active(r)
    BY <1>9 DEF Cancel, sourceVars, jobVars, dataVars
  <2>2. CASE UNCHANGED release BY <1>1, <2>1, <2>2 DEF siteVars
  <2>3. CASE github[r] = "creating" /\ release'.build = assets[r] /\ release'.by = r
    BY <1>4, <2>1, <2>3
  <2> QED BY <1>9, <2>2, <2>3 DEF Cancel
<1>10. ASSUME NEW r \in Runs, Expire(r) PROVE SourceInv'
  BY <1>1, <1>10 DEF Expire, sourceVars, jobVars
<1>11. ASSUME NEW r \in Runs, NEW p \in Projects, PublishFails(r, p) PROVE SourceInv'
  <2>1. /\ UNCHANGED <<sourceVars, release>> /\ Running(r)
        /\ UNCHANGED pypi \/ (publish[r][p] = "uploading" /\ Stored(r, p, NextFile(r, p)))
    BY <1>11, Zenon DEF PublishFails, sourceVars, dataVars
  <2> QED BY <1>1, <1>3, <2>1 DEF siteVars
<1>12. CASE UNCHANGED vars
  BY <1>1, <1>12 DEF vars, sourceVars, jobVars, dataVars
<1> QED BY <1>5, <1>6, <1>7, <1>8, <1>9, <1>10, <1>11, <1>12 DEF Next, FaultStep

\* What a recovery publishes was built from the tagged commit and has the
\* inventory of the version, for any number of runs, builds and faults.
THEOREM RecoveryAlwaysVerified == Spec => []RecoveryIsVerified
<1>1. Init => SourceInv
  BY DEF Init, SourceInv, SourcesOK, ItemsOwned, ArtifactsReady
<1>2. TypeOK /\ Inv /\ SourceInv /\ [Next]_vars => SourceInv' BY SourceStep
<1>3. TypeOK /\ Inv /\ SourceInv => RecoveryIsVerified
  <2> SUFFICES ASSUME TypeOK, SourceInv PROVE RecoveryIsVerified OBVIOUS
  <2>1. ASSUME NEW item \in Files \cup ReleaseItems, Owned(item) PROVE Verified(item)
    <3>1. item.by \in Runs BY DEF Files, ReleaseItems
    <3>2. run[item.by] # None /\ ArtifactsReady(item.by) /\ item.build = assets[item.by]
      BY <2>1 DEF Owned
    <3> QED BY <3>1, <3>2 DEF Verified, SourceInv, SourcesOK, ArtifactsReady
  <2>2. \A p \in Projects, k \in Kinds : pypi[p][k] # None => pypi[p][k] \in Files
    BY DEF TypeOK, IndexOK
  <2>3. release # None => release \in ReleaseItems BY DEF TypeOK, ReleaseOK
  <2> QED BY <2>1, <2>2, <2>3 DEF RecoveryIsVerified, SourceInv, ItemsOwned
<1> QED BY <1>1, <1>2, <1>3, InvHolds, PTL DEF Spec

=============================================================================
