------------------------------ MODULE Release -------------------------------
(***************************************************************************)
(* The release of one version: the runs of .github/workflows/release.yml,  *)
(* which build and publish it or publish again what an earlier run built,  *)
(* the checks of scripts/recover_release.py they make, and the two places  *)
(* they publish to, the package index and the GitHub release.              *)
(*                                                                         *)
(* Runs are numbered in the order they are triggered, and a build has the  *)
(* number of the run that made it: two builds are taken to differ in their *)
(* bytes, since equal ones are accepted where these are refused.  The      *)
(* index keeps what it was given first: a file of another content under    *)
(* the same name is refused.                                               *)
(***************************************************************************)
EXTENDS Naturals

CONSTANTS
  NRuns,            \* how many runs of the workflow there are
  PublicationRefs,  \* the tags v<version>-publish-<number>
  MaxFaults,        \* how often something fails, expires or is canceled
  None

ASSUME ConstantsAssumption ==
  /\ NRuns \in Nat /\ MaxFaults \in Nat
  /\ PublicationRefs \cap {"tag", "main"} = {}
  /\ None \notin Nat

Runs     == 1..NRuns
Projects == {"sdk", "open"}
Kinds    == {"wheel", "sdist"}
Refs     == {"tag", "main"} \cup PublicationRefs
MaybeRun == Runs \cup {None}

RunItems     == [trigger : {"push", "rebuild", "reuse"}, ref : Refs, reuses : MaybeRun]
Files        == [build : Runs, by : Runs]
ReleaseItems == [build : Runs, by : Runs, complete : BOOLEAN, sums : BOOLEAN]

ASSUME NoneAssumption == None \notin RunItems /\ None \notin Files /\ None \notin ReleaseItems

VARIABLES
  run,       \* how each run was triggered, None before
  assemble,  \* the jobs up to assemble, which build
  reuse,     \* the job reuse-artifacts
  publish,   \* the jobs publish-pypi-sdk and publish-pypi-open
  sent,      \* the files each of them has uploaded
  github,    \* the job publish-github-release
  built,     \* what a run's build is made of, None where it made none
  assets,    \* the build in a run's artifact complete-release
  kept,      \* the runs whose artifact is still kept
  canceled,  \* the runs canceled
  pypi,      \* the index: which build a file is of and which run uploaded it
  release,   \* the GitHub release, None while there is none
  faults     \* how many faults there were

jobVars  == <<assemble, reuse, publish, sent, github>>
dataVars == <<built, assets, kept>>
siteVars == <<pypi, release>>
vars == <<run, jobVars, dataVars, canceled, siteVars, faults>>

Terminal == {"success", "failure", "skipped"}

-----------------------------------------------------------------------------
Init ==
  /\ run = [r \in Runs |-> None]
  /\ assemble = [r \in Runs |-> "waiting"]
  /\ reuse = [r \in Runs |-> "waiting"]
  /\ publish = [r \in Runs |-> [p \in Projects |-> "waiting"]]
  /\ sent = [r \in Runs |-> [p \in Projects |-> {}]]
  /\ github = [r \in Runs |-> "waiting"]
  /\ built = [r \in Runs |-> None]
  /\ assets = [r \in Runs |-> None]
  /\ kept = {} /\ canceled = {}
  /\ pypi = [p \in Projects |-> [k \in Kinds |-> None]]
  /\ release = None
  /\ faults = 0

\* A run is active until its last job has ended or it is canceled.
Active(r) == run[r] # None /\ r \notin canceled /\ github[r] \notin Terminal

\* The concurrency group: one run of a ref at a time.
Blocked(r) == \E q \in 1..(r - 1) : Active(q) /\ run[q].ref = run[r].ref

Running(r) == Active(r) /\ ~Blocked(r)

\* A push of the version's tag, or a dispatch at any ref, with or without a
\* run to reuse.  A run that waits for its group is replaced by the new one.
Trigger(r, trigger, ref, q) ==
  /\ run[r] = None
  /\ \A s \in 1..(r - 1) : run[s] # None
  /\ trigger = "push" => ref = "tag" /\ \A s \in Runs : run[s] # None => run[s].trigger # "push"
  /\ IF trigger = "reuse" THEN q \in 1..(r - 1) ELSE q = None
  /\ run' = [run EXCEPT ![r] = [trigger |-> trigger, ref |-> ref, reuses |-> q]]
  /\ assemble' = [assemble EXCEPT ![r] = IF trigger = "reuse" THEN "skipped" ELSE @]
  /\ reuse' = [reuse EXCEPT ![r] = IF trigger = "reuse" THEN @ ELSE "skipped"]
  /\ canceled' = canceled \cup {s \in 1..(r - 1) : Active(s) /\ Blocked(s) /\ run[s].ref = ref}
  /\ UNCHANGED <<publish, sent, github, dataVars, siteVars, faults>>

\* python-distributions, standalone-cli and assemble.  A build is of the commit
\* of its ref, which only for the tag is the tagged one; nothing looks for
\* surplus files.
Assemble(r) ==
  /\ Running(r) /\ assemble[r] = "waiting"
  /\ \/ \E exact \in BOOLEAN :
          /\ built' = [built EXCEPT ![r] = [tagged |-> run[r].ref = "tag", exact |-> exact]]
          /\ assemble' = [assemble EXCEPT ![r] = "success"]
          /\ assets' = [assets EXCEPT ![r] = r]
          /\ kept' = kept \cup {r}
     \/ /\ assemble' = [assemble EXCEPT ![r] = "failure"]
        /\ UNCHANGED dataVars
  /\ UNCHANGED <<run, reuse, publish, sent, github, canceled, siteVars, faults>>

\* verify_source: a publication tag, and a run that built the tagged commit
\* and whose build jobs all succeeded.
AnyBuild(r) ==  \* mutant: the commit of the original run is not compared
  run[r].ref \in PublicationRefs /\ assemble[run[r].reuses] = "success"

VerifiedSource(r) ==
  LET q == run[r].reuses IN
  /\ run[r].ref \in PublicationRefs
  /\ assemble[q] = "success" /\ built[q].tagged

\* verify_assets: the inventory is that of the version.
VerifiedAssets(q) == built[assets[q]].exact

Reuse(r) ==
  LET q == run[r].reuses IN
  /\ Running(r) /\ reuse[r] = "waiting"
  /\ IF VerifiedSource(r) /\ q \in kept /\ VerifiedAssets(q)
     THEN /\ reuse' = [reuse EXCEPT ![r] = "success"]
          /\ assets' = [assets EXCEPT ![r] = assets[q]]
          /\ kept' = kept \cup {r}
     ELSE /\ reuse' = [reuse EXCEPT ![r] = "failure"]
          /\ UNCHANGED <<assets, kept>>
  /\ UNCHANGED <<run, assemble, publish, sent, github, built, canceled, siteVars, faults>>

-----------------------------------------------------------------------------
(***************************************************************************)
(* publish-pypi-sdk and publish-pypi-open.                                 *)
(***************************************************************************)
ArtifactsReady(r) == assemble[r] = "success" \/ reuse[r] = "success"

\* already_published: both files there and the same, or none of them.
Matches(r, p)  == \A k \in Kinds : pypi[p][k] # None /\ pypi[p][k].build = assets[r]
Missing(p)     == \A k \in Kinds : pypi[p][k] = None

SetPublish(r, p, s) == publish' = [publish EXCEPT ![r][p] = s]

CheckVersionOnly(r, p) ==  \* mutant: a version that is there is taken to be this one
  /\ Running(r) /\ publish[r][p] = "waiting" /\ ArtifactsReady(r)
  /\ SetPublish(r, p, IF r \notin kept THEN "failure" ELSE IF Missing(p) THEN "uploading" ELSE "success")
  /\ UNCHANGED <<run, assemble, reuse, sent, github, dataVars, canceled, siteVars, faults>>

CheckIndex(r, p) ==
  /\ Running(r) /\ publish[r][p] = "waiting" /\ ArtifactsReady(r)
  /\ SetPublish(r, p, IF r \notin kept THEN "failure"
                      ELSE CASE Missing(p)    -> "uploading"
                             [] Matches(r, p) -> "success"
                             [] OTHER         -> "failure")
  /\ UNCHANGED <<run, assemble, reuse, sent, github, dataVars, canceled, siteVars, faults>>

SkipPublish(r, p) ==
  /\ Running(r) /\ publish[r][p] = "waiting"
  /\ assemble[r] \in Terminal /\ reuse[r] \in Terminal /\ ~ArtifactsReady(r)
  /\ SetPublish(r, p, "skipped")
  /\ UNCHANGED <<run, assemble, reuse, sent, github, dataVars, canceled, siteVars, faults>>

\* The publishing action uploads wheels first.
NextFile(r, p) == IF "wheel" \in sent[r][p] THEN "sdist" ELSE "wheel"

\* The index takes a file once; the same content again is no error.
Stored(r, p, k) ==
  pypi' = [pypi EXCEPT ![p][k] = IF @ = None THEN [build |-> assets[r], by |-> r] ELSE @]

UploadSkipsExisting(r, p) ==  \* mutant: skip-existing, a file that is there is passed over
  LET k == NextFile(r, p) IN
  /\ Running(r) /\ publish[r][p] = "uploading"
  /\ Stored(r, p, k)
  /\ sent' = [sent EXCEPT ![r][p] = @ \cup {k}]
  /\ SetPublish(r, p, IF Kinds \subseteq sent[r][p] \cup {k} THEN "success" ELSE "uploading")
  /\ UNCHANGED <<run, assemble, reuse, github, dataVars, canceled, release, faults>>

Upload(r, p) ==
  LET k == NextFile(r, p) IN
  /\ Running(r) /\ publish[r][p] = "uploading"
  /\ Stored(r, p, k)
  /\ IF pypi[p][k] = None \/ pypi[p][k].build = assets[r]
     THEN /\ sent' = [sent EXCEPT ![r][p] = @ \cup {k}]
          /\ SetPublish(r, p, IF Kinds \subseteq sent[r][p] \cup {k} THEN "success" ELSE "uploading")
     ELSE SetPublish(r, p, "failure") /\ UNCHANGED sent
  /\ UNCHANGED <<run, assemble, reuse, github, dataVars, canceled, release, faults>>

-----------------------------------------------------------------------------
(***************************************************************************)
(* publish-github-release.                                                 *)
(***************************************************************************)
ReleaseImplicitly(r) ==  \* mutant: no condition of its own, every ancestor must have succeeded
  /\ \A p \in Projects : publish[r][p] = "success"
  /\ assemble[r] = "success" /\ reuse[r] = "success"

\* The job's condition names the two jobs it needs, and only these.
ReleaseWanted(r) == \A p \in Projects : publish[r][p] = "success"

SetGithub(r, s) == github' = [github EXCEPT ![r] = s]

\* gh release view; an existing release must have the same SHA256SUMS.
ViewRelease(r) ==
  /\ Running(r) /\ github[r] = "waiting" /\ ReleaseWanted(r)
  /\ SetGithub(r, IF r \notin kept THEN "failure"
                  ELSE CASE release = None -> "creating"
                         [] release # None /\ release.sums /\ release.build = assets[r] -> "success"
                         [] OTHER          -> "failure")
  /\ UNCHANGED <<run, assemble, reuse, publish, sent, dataVars, canceled, siteVars, faults>>

CreateRelease(r) ==
  /\ Running(r) /\ github[r] = "creating"
  /\ IF release = None
     THEN /\ release' = [build |-> assets[r], by |-> r, complete |-> TRUE, sums |-> TRUE]
          /\ SetGithub(r, "success")
     ELSE /\ SetGithub(r, "failure")
          /\ UNCHANGED release
  /\ UNCHANGED <<run, assemble, reuse, publish, sent, dataVars, canceled, pypi, faults>>

SkipRelease(r) ==
  /\ Running(r) /\ github[r] = "waiting"
  /\ \A p \in Projects : publish[r][p] \in Terminal
  /\ ~ReleaseWanted(r)
  /\ SetGithub(r, "skipped")
  /\ UNCHANGED <<run, assemble, reuse, publish, sent, dataVars, canceled, siteVars, faults>>

-----------------------------------------------------------------------------
(***************************************************************************)
(* What goes wrong around the jobs, MaxFaults times at most.               *)
(***************************************************************************)
Fault == faults < MaxFaults /\ faults' = faults + 1

ReuseFails(r) ==
  /\ Fault /\ Running(r) /\ reuse[r] = "waiting"
  /\ reuse' = [reuse EXCEPT ![r] = "failure"]
  /\ UNCHANGED <<run, assemble, publish, sent, github, dataVars, canceled, siteVars>>

\* A publish job fails; an upload may have been stored all the same.
PublishFails(r, p) ==
  /\ Fault /\ Running(r)
  /\ \/ publish[r][p] = "waiting" /\ ArtifactsReady(r) /\ UNCHANGED pypi
     \/ publish[r][p] = "uploading" /\ UNCHANGED pypi
     \/ publish[r][p] = "uploading" /\ Stored(r, p, NextFile(r, p))
  /\ SetPublish(r, p, "failure")
  /\ UNCHANGED <<run, assemble, reuse, sent, github, dataVars, canceled, release>>

\* gh release view fails for another reason than a missing release.
ViewFails(r) ==
  /\ Fault /\ Running(r) /\ github[r] = "waiting" /\ ReleaseWanted(r) /\ r \in kept
  /\ SetGithub(r, "creating")
  /\ UNCHANGED <<run, assemble, reuse, publish, sent, dataVars, canceled, siteVars>>

\* A run is canceled, or its runner lost; a release that was being created is
\* not there, or a draft with or without its checksums.
Cancel(r) ==
  /\ Fault /\ Active(r)
  /\ canceled' = canceled \cup {r}
  /\ \/ UNCHANGED release
     \/ /\ github[r] = "creating" /\ release = None
        /\ \E sums \in BOOLEAN :
             release' = [build |-> assets[r], by |-> r, complete |-> FALSE, sums |-> sums]
  /\ UNCHANGED <<run, jobVars, dataVars, pypi>>

\* retention-days: 1.
Expire(r) ==
  /\ Fault /\ r \in kept
  /\ kept' = kept \ {r}
  /\ UNCHANGED <<run, jobVars, built, assets, canceled, siteVars>>

-----------------------------------------------------------------------------
BuildStep(r)   == Assemble(r) \/ Reuse(r)
PublishStep(r) == \E p \in Projects : CheckIndex(r, p) \/ SkipPublish(r, p) \/ Upload(r, p)
GithubStep(r)  == ViewRelease(r) \/ CreateRelease(r) \/ SkipRelease(r)
FaultStep(r)   ==
  \/ ReuseFails(r) \/ ViewFails(r) \/ Cancel(r) \/ Expire(r)
  \/ \E p \in Projects : PublishFails(r, p)

Next == \E r \in Runs :
  \/ \E trigger \in {"push", "rebuild", "reuse"}, ref \in Refs, q \in Runs \cup {None} :
       Trigger(r, trigger, ref, q)
  \/ BuildStep(r) \/ PublishStep(r) \/ GithubStep(r) \/ FaultStep(r)

\* Runners take up the jobs of a run that can start and go on with them.
Fairness == \A r \in Runs : WF_vars(BuildStep(r) \/ PublishStep(r) \/ GithubStep(r))

Spec == Init /\ [][Next]_vars /\ Fairness

-----------------------------------------------------------------------------
JobStates == {"waiting"} \cup Terminal

RunsOK ==
  /\ run \in [Runs -> RunItems \cup {None}]
  /\ canceled \subseteq Runs

JobsOK ==
  /\ assemble \in [Runs -> JobStates] /\ reuse \in [Runs -> JobStates]
  /\ publish \in [Runs -> [Projects -> JobStates \cup {"uploading"}]]
  /\ sent \in [Runs -> [Projects -> SUBSET Kinds]]
  /\ github \in [Runs -> JobStates \cup {"creating"}]

DataOK ==
  /\ built \in [Runs -> [tagged : BOOLEAN, exact : BOOLEAN] \cup {None}]
  /\ assets \in [Runs -> MaybeRun]
  /\ kept \subseteq Runs

IndexOK   == pypi \in [Projects -> [Kinds -> Files \cup {None}]]
ReleaseOK == release \in ReleaseItems \cup {None}
FaultsOK  == faults \in 0..MaxFaults

\* Every variable stays in its type: in particular a file on the index and a
\* release are always of a build some run made, never of an empty artifact.
TypeOK == RunsOK /\ JobsOK /\ DataOK /\ IndexOK /\ ReleaseOK /\ FaultsOK

\* A run whose last job succeeded leaves one version everywhere: both files of
\* both projects, and the checksums of the GitHub release, are those of the
\* build the run published, whatever other runs did before or at the same time
\* and whichever of its jobs found its work done already.
SuccessIsEverywhere ==
  \A r \in Runs : github[r] = "success" =>
    /\ \A p \in Projects : Matches(r, p)
    /\ release # None /\ release.build = assets[r]

\* The two files of a project are never of two builds, however the uploads of
\* several runs that all found the version missing mix and fail.
OneBuildPerProject ==
  \A p \in Projects : (\A k \in Kinds : pypi[p][k] # None) =>
    pypi[p]["wheel"].build = pypi[p]["sdist"].build

\* What a recovery puts on the index, or makes the GitHub release of, was built
\* from the tagged commit and has the inventory of the version, although builds
\* from other refs and with surplus files exist beside it.
Verified(item) == run[item.by].trigger = "reuse" => built[item.build].tagged /\ built[item.build].exact

RecoveryIsVerified ==
  /\ \A p \in Projects, k \in Kinds : pypi[p][k] # None => Verified(pypi[p][k])
  /\ release # None => Verified(release)

\* A run that has published both projects goes on to the GitHub release and is
\* not skipped there, whichever of assemble and reuse-artifacts was skipped:
\* the workflow's comment says this happened to v0.3.0.
PublishedIsReleased ==
  \A r \in Runs :
    (\A p \in Projects : publish[r][p] = "success") ~> (github[r] \in {"success", "failure"} \/ r \in canceled)

=============================================================================
