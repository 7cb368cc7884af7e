------------------------------ MODULE Release ------------------------------
(***************************************************************************)
(* The release-gate workflow (.github/workflows/ci.yml) on top of check.sh: *)
(* jobs started by pushes and tags, re-run, racing for one release page;   *)
(* and GitHub's side of it, modelled from the calls the workflow makes.    *)
(***************************************************************************)
EXTENDS Gates

CONSTANTS
  VersionOf,    \* the version in the lakefile of a commit
  Corrupt,      \* an asset that is not what was uploaded
  MaxAttempt    \* bounds re-runs

Asset == {"tarball", "manifest", "summary"}
Attempt == 1..MaxAttempt
StampSet == Job \X Attempt

Manifest ==
  [commit : Commit, dirty : BOOLEAN, local : BOOLEAN, records : [Registry -> {None} \cup Record],
   tarball : {None} \cup Commit, policy : {PolicyOf[t] : t \in Tree}, stamp : StampSet]

ASSUME ReleaseAssumption ==
  /\ MaxAttempt \in Nat \ {0}
  /\ Commit # {}
  /\ VersionOf \in [Commit -> Version]
  /\ None \notin Version
  /\ {None, Corrupt} \cap (Commit \cup StampSet \cup Manifest) = {}

Stage ==
  {"idle", "gates", "report", "archive", "manifest", "verify", "retain", "preflight",
   "create", "upload", "check", "green", "failed"}

JobState ==
  [mode : Mode, hosted : BOOLEAN, ref : {None} \cup Version, attempt : Attempt,
   pc : Stage, head : Commit, tree : Tree, records : [Registry -> {None} \cup Record],
   tarball : {None} \cup Commit, manifest : {None} \cup Manifest]

Page ==
  [creator : StampSet,
   assets : [tarball : {None, Corrupt} \cup Commit, manifest : {None, Corrupt} \cup Manifest,
             summary : {None, Corrupt} \cup StampSet]]

ASSUME PageAssumption == None \notin Page

VARIABLES
  tags,       \* the commit a tag points at
  releases,   \* the release page of a version: who created it, its assets
  retained    \* the evidence kept as workflow artifacts

releaseVars == << job, tags, releases, retained >>
page == << tags, releases, retained >>

Idle == [Checkout("fast", FALSE, None, CHOOSE c \in Commit : TRUE, 1) EXCEPT !.pc = "idle"]

ReleaseInit ==
  /\ job = [j \in Job |-> Idle]
  /\ tags = [v \in Version |-> None]
  /\ releases = [v \in Version |-> None]
  /\ retained = {}

\* A pull request (fast), a push to main (core), a tag or dispatch (validation), or a
\* developer who calls check.sh in any mode.
Start(j, mode, hosted, c) ==
  /\ At(j, "idle")
  /\ job' = [job EXCEPT ![j] = Checkout(mode, hosted, None, c, 1)]
  /\ UNCHANGED page

PushTag(j, v, c) ==
  /\ At(j, "idle")
  /\ tags[v] = None
  /\ tags' = [tags EXCEPT ![v] = c]
  /\ job' = [job EXCEPT ![j] = Checkout("core", TRUE, v, c, 1)]
  /\ UNCHANGED << releases, retained >>

\* A tag without a release can be withdrawn and pushed again elsewhere.
DeleteTag(v) ==
  /\ tags[v] # None
  /\ releases[v] = None
  /\ tags' = [tags EXCEPT ![v] = None]
  /\ UNCHANGED << job, releases, retained >>

\* A re-run is for the commit of the first attempt, in a new checkout.
Rerun(j) ==
  /\ job[j].pc \in {"green", "failed"}
  /\ job[j].hosted
  /\ job[j].attempt < MaxAttempt
  /\ job' = [job EXCEPT ![j] = Checkout(job[j].mode, TRUE, job[j].ref, job[j].head,
                                        job[j].attempt + 1)]
  /\ UNCHANGED page

\* The complete evidence of every push is kept; only tags go further.
Retain(j) ==
  /\ At(j, "retain")
  /\ retained' = retained \cup {[manifest |-> job[j].manifest, tarball |-> job[j].tarball]}
  /\ Goto(j, IF job[j].ref = None THEN "green" ELSE "preflight")
  /\ UNCHANGED << tags, releases >>

\* The tag names the lakefile's version, and GitHub answers 404 for its page.
Preflight(j) ==
  /\ At(j, "preflight")
  /\ Goto(j, IF /\ VersionOf[job[j].head] = job[j].ref
                /\ releases[job[j].ref] = None
             THEN "create" ELSE "failed")
  /\ UNCHANGED page

NewPage(j) ==
  [creator |-> Stamp(j), assets |-> [tarball |-> None, manifest |-> None, summary |-> None]]

\* Fault: a page that is there already is used.
CreateReleaseOrJoin(j) ==
  /\ At(j, "create")
  /\ LET v == job[j].ref IN
       IF tags[v] # None
       THEN /\ releases' = IF releases[v] = None
                           THEN [releases EXCEPT ![v] = NewPage(j)] ELSE releases
            /\ Goto(j, "upload")
       ELSE UNCHANGED releases /\ Goto(j, "failed")
  /\ UNCHANGED << tags, retained >>

\* GitHub creates a page once, --verify-tag asks that the tag is still there.
CreateRelease(j) ==
  /\ At(j, "create")
  /\ LET v == job[j].ref IN
       IF tags[v] # None /\ releases[v] = None
       THEN releases' = [releases EXCEPT ![v] = NewPage(j)] /\ Goto(j, "upload")
       ELSE UNCHANGED releases /\ Goto(j, "failed")
  /\ UNCHANGED << tags, retained >>

Own(j) == [tarball |-> job[j].tarball, manifest |-> job[j].manifest, summary |-> Stamp(j)]

\* Uploads without --clobber, in any order; one may arrive as something else.
Upload(j, a, file) ==
  /\ At(j, "upload")
  /\ LET v == job[j].ref
         assets == [releases[v].assets EXCEPT ![a] = file]
     IN /\ releases[v] # None /\ releases[v].assets[a] = None
        /\ file \in {Own(j)[a], Corrupt}
        /\ releases' = [releases EXCEPT ![v].assets = assets]
        /\ Goto(j, IF \A b \in Asset : assets[b] # None THEN "check" ELSE "upload")
  /\ UNCHANGED << tags, retained >>

\* The last step downloads the assets and verifies what it got.
CheckPublished(j) ==
  /\ At(j, "check")
  /\ LET assets == releases[job[j].ref].assets IN
       Goto(j, IF /\ releases[job[j].ref] # None
                  /\ \A a \in Asset : assets[a] # None
                  /\ assets["manifest"] # Corrupt
                  /\ Accepts(assets["manifest"], assets["tarball"], assets["summary"])
               THEN "green" ELSE "failed")
  /\ UNCHANGED page

CheckStep(j) ==
  /\ \/ \E g \in Registry, s \in {"pass", "fail", "timeout"}, t \in Tree : RunGate(j, g, s, t)
     \/ Report(j)
     \/ BuildArchive(j)
     \/ WriteManifest(j)
     \/ VerifyOwn(j)
     \/ Break(j)
     \/ \E c \in Commit, t \in Tree : Develop(j, c, t)
  /\ UNCHANGED page

PublishStep(j) ==
  \/ Rerun(j)
  \/ Retain(j)
  \/ Preflight(j)
  \/ CreateRelease(j)
  \/ \E a \in Asset : \E file \in {Own(j)[a], Corrupt} : Upload(j, a, file)
  \/ CheckPublished(j)

ReleaseNext ==
  \/ \E j \in Job :
       \/ CheckStep(j)
       \/ PublishStep(j)
       \/ \E mode \in {"fast", "core", "validation"}, hosted \in BOOLEAN, c \in Commit :
            Start(j, mode, hosted, c)
       \/ \E v \in Version, c \in Commit : PushTag(j, v, c)
  \/ \E v \in Version : DeleteTag(v)

ReleaseSpec == ReleaseInit /\ [][ReleaseNext]_releaseVars

\* The job records, tags, pages and kept evidence are what they are meant to be;
\* an archive is always of a commit.
ReleaseTypeOK ==
  /\ job \in [Job -> JobState]
  /\ tags \in [Version -> {None} \cup Commit]
  /\ releases \in [Version -> {None} \cup Page]
  /\ retained \subseteq [manifest : {None} \cup Manifest, tarball : {None} \cup Commit]

\* Every manifest there is: of the jobs, in kept evidence and on release pages.
Manifests ==
  ({job[j].manifest : j \in Job} \cup {e.manifest : e \in retained} \cup
   {releases[v].assets["manifest"] : v \in {w \in Version : releases[w] # None}})
    \ {None, Corrupt}

\* Whoever gets a manifest and a tarball past the verifier has an archive of the
\* commit named, and every gate of the registry passed on exactly that content.
AcceptedIsSound ==
  \A m \in Manifests, t \in Commit :
    Binds(m, t) =>
      /\ m.commit = t
      /\ \A g \in Registry : m.records[g] = [status |-> "pass", on |-> t]

\* The assets of a page are those of the attempt that created it.
AssetsByCreator ==
  \A v \in Version, j \in Job, n \in Attempt :
    (releases[v] # None /\ releases[v].creator = << j, n >>) =>
      LET assets == releases[v].assets IN
      /\ assets["tarball"] \in {None, Corrupt, job[j].head}
      /\ assets["manifest"] \in {None, Corrupt} \/ assets["manifest"].stamp = << j, n >>
      /\ assets["summary"] \in {None, Corrupt, << j, n >>}

\* A tag run that ends green has published, whole and unchanged, its own commit
\* under that commit's version, and stays the one that did.
GreenTagIsPublished ==
  \A j \in Job :
    (At(j, "green") /\ job[j].ref # None) =>
      LET v == job[j].ref
          assets == releases[v].assets
      IN /\ VersionOf[job[j].head] = v
         /\ releases[v] # None /\ releases[v].creator = Stamp(j)
         /\ assets["tarball"] = job[j].head
         /\ assets["manifest"] \in Manifests
         /\ Accepts(assets["manifest"], assets["tarball"], assets["summary"])

\* Against the comment on run_gate in check.sh, which says that a real failure
\* of an advisory gate is surfaced after the run: "all gates green" is not said
\* of a job one of whose gates failed.
GreenHidesNothing ==
  [][\A j \in Job :
       (~ At(j, "green") /\ At(j, "green")') =>
         \A g \in Registry : job[j].records[g] = None \/ job[j].records[g].status # "fail"]_job

=============================================================================
