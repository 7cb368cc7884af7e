-------------------------- MODULE ReleaseTheorems --------------------------
(***************************************************************************)
(* Proofs about a release and what surrounds it, for any number of jobs,   *)
(* commits, versions, gates and attempts, and any tools, workflows and     *)
(* packages: types, what a manifest that is accepted says, who put an      *)
(* asset on a page and what a green tag means (Release); an installer      *)
(* unpacks only reviewed bytes and succeeds over whole archives            *)
(* (Toolchain); a run of an accepted workflow keeps complete evidence and  *)
(* runs what is pinned (Workflow); an accepted stack binds every consumer  *)
(* to the provider it was built against (Stack); an archive that passes    *)
(* its check unpacks to the checkout of its commit (Archive).              *)
(***************************************************************************)
EXTENDS Release, Toolchain, Workflow, Stack, Archive, SequenceTheorems, FiniteSetTheorems, TLAPS

-----------------------------------------------------------------------------
(* Types *)

\* A record of a job that has moved is a record of a job.
LEMMA MovedTyped ==
  ASSUME NEW r \in JobState, NEW pc \in Stage
  PROVE  Moved(r, pc) \in JobState
<1>1. NoRecords \in [Registry -> {None} \cup Record]
  BY DEF NoRecords
<1>2. CASE pc \notin {"green", "failed"}
  BY <1>2 DEF Moved, JobState
<1>3. CASE pc \in {"green", "failed"} /\ r.hosted
  BY <1>1, <1>3 DEF Moved, JobState, Checkout, Tree
<1>4. CASE pc \in {"green", "failed"} /\ ~ r.hosted
  BY <1>1, <1>4 DEF Moved, JobState
<1>5. QED BY <1>2, <1>3, <1>4

\* So is that of a new checkout.
LEMMA CheckoutTyped ==
  ASSUME NEW mode \in Mode, NEW hosted \in BOOLEAN, NEW ref \in {None} \cup Version,
         NEW c \in Commit, NEW n \in Attempt
  PROVE  Checkout(mode, hosted, ref, c, n) \in JobState
BY DEF Checkout, NoRecords, JobState, Stage, Tree

\* The stamp of a job's attempt.
LEMMA StampTyped ==
  ASSUME ReleaseTypeOK, NEW j \in Job
  PROVE  Stamp(j) \in StampSet
BY DEF ReleaseTypeOK, JobState, Stamp, StampSet

\* What release_manifest.py writes is a manifest.
LEMMA ManifestTyped ==
  ASSUME ReleaseTypeOK, NEW j \in Job
  PROVE  ManifestOf(j) \in Manifest
BY StampTyped DEF ReleaseTypeOK, JobState, ManifestOf, Manifest

\* A step that replaces the record of one job by another record.
LEMMA JobTyped ==
  ASSUME ReleaseTypeOK, NEW j \in Job, NEW r \in JobState,
         job' = [job EXCEPT ![j] = r]
  PROVE  job' \in [Job -> JobState]
BY DEF ReleaseTypeOK

\* A step that only moves a job on.
LEMMA GotoTyped ==
  ASSUME ReleaseTypeOK, NEW j \in Job, NEW pc \in Stage, Goto(j, pc)
  PROVE  job' \in [Job -> JobState]
<1>1. job[j] \in JobState
  BY DEF ReleaseTypeOK
<1>2. job' = [job EXCEPT ![j] = Moved(job[j], pc)]
  BY DEF Goto
<1>3. QED BY <1>1, <1>2, MovedTyped, JobTyped

\* run_gate adds a record and may change the tree.
LEMMA RunGateTyped ==
  ASSUME ReleaseTypeOK, NEW j \in Job, NEW g \in Registry, NEW s \in Status,
         NEW t \in Tree, RunGate(j, g, s, t)
  PROVE  job' \in [Job -> JobState]
<1> DEFINE r == [job[j] EXCEPT !.tree = t, !.records[g] = [status |-> s, on |-> job[j].tree]]
           pc == IF s # "pass" /\ ~ Advisory(j) THEN "failed"
                 ELSE IF Todo(j) = {g} THEN AfterGates(r.mode)
                 ELSE "gates"
<1>1. job[j] \in JobState
  BY DEF ReleaseTypeOK
<1>2. [status |-> s, on |-> job[j].tree] \in Record
  BY <1>1 DEF JobState, Record
<1>3. r \in JobState /\ r.mode \in Mode
  BY <1>1, <1>2 DEF JobState
<1>4. pc \in Stage
  BY <1>3 DEF AfterGates, Mode, Stage
<1>5. job' = [job EXCEPT ![j] = Moved(r, pc)]
  BY DEF RunGate
<1>6. QED BY <1>3, <1>4, <1>5, MovedTyped, JobTyped

\* The steps of check.sh.
LEMMA CheckTyped ==
  ASSUME ReleaseTypeOK, NEW j \in Job, CheckStep(j)
  PROVE  ReleaseTypeOK'
<1>1. job[j] \in JobState
  BY DEF ReleaseTypeOK
<1>2. ASSUME NEW r \in JobState, NEW pc \in Stage, job' = [job EXCEPT ![j] = Moved(r, pc)]
      PROVE  job' \in [Job -> JobState]
  BY <1>2, MovedTyped, JobTyped
<1>3. CASE \E g \in Registry, s \in Status, t \in Tree : RunGate(j, g, s, t)
  BY <1>3, RunGateTyped, GatesAssumption DEF CheckStep, page, ReleaseTypeOK
<1>4. CASE Report(j) \/ VerifyOwn(j) \/ Break(j)
  <2>1. PICK pc \in Stage : Goto(j, pc)
    BY <1>4 DEF Report, VerifyOwn, Break, Stage
  <2>2. QED BY <2>1, GotoTyped DEF CheckStep, page, ReleaseTypeOK
<1>5. CASE BuildArchive(j)
  <2>1. [job[j] EXCEPT !.tarball = job[j].head] \in JobState /\ "manifest" \in Stage
    BY <1>1 DEF JobState, Stage
  <2>2. job' \in [Job -> JobState]
    BY <1>2, <1>5, <2>1 DEF BuildArchive
  <2>3. QED BY <2>2 DEF CheckStep, page, ReleaseTypeOK
<1>6. CASE WriteManifest(j)
  <2>1. [job[j] EXCEPT !.manifest = ManifestOf(j)] \in JobState
    BY <1>1, ManifestTyped DEF JobState
  <2>2. (IF ManifestOf(j).dirty THEN "failed" ELSE "verify") \in Stage
    BY DEF Stage
  <2>3. job' \in [Job -> JobState]
    BY <1>2, <1>6, <2>1, <2>2 DEF WriteManifest
  <2>4. QED BY <2>3 DEF CheckStep, page, ReleaseTypeOK
<1>7. CASE \E c \in Commit, t \in Tree : Develop(j, c, t)
  <2>1. PICK c \in Commit, t \in Tree : Develop(j, c, t)
    BY <1>7
  <2>2. [job[j] EXCEPT !.head = c, !.tree = t] \in JobState
    BY <1>1 DEF JobState
  <2>3. job' \in [Job -> JobState]
    BY <2>1, <2>2, JobTyped DEF Develop
  <2>4. QED BY <2>3 DEF CheckStep, page, ReleaseTypeOK
<1>8. QED BY <1>3, <1>4, <1>5, <1>6, <1>7 DEF CheckStep, Status

\* A page with another of the files of a job on it, or a corrupted one.
LEMMA PageTyped ==
  ASSUME ReleaseTypeOK, NEW j \in Job, NEW p \in Page, NEW a \in Asset,
         NEW file \in {Own(j)[a], Corrupt}
  PROVE  [p EXCEPT !.assets = [p.assets EXCEPT ![a] = file]] \in Page
<1>1. job[j] \in JobState /\ Stamp(j) \in StampSet
  BY StampTyped DEF ReleaseTypeOK
<1>2. CASE a = "tarball"
  <2>1. file \in {None, Corrupt} \cup Commit
    BY <1>1, <1>2 DEF Own, JobState
  <2>2. QED BY <1>2, <2>1 DEF Page
<1>3. CASE a = "manifest"
  <2>1. file \in {None, Corrupt} \cup Manifest
    BY <1>1, <1>3 DEF Own, JobState
  <2>2. QED BY <1>3, <2>1 DEF Page
<1>4. CASE a = "summary"
  <2>1. file \in {None, Corrupt} \cup StampSet
    BY <1>1, <1>4 DEF Own
  <2>2. QED BY <1>4, <2>1 DEF Page
<1>5. QED BY <1>2, <1>3, <1>4 DEF Asset

\* An upload keeps the pages typed.
LEMMA UploadTyped ==
  ASSUME ReleaseTypeOK, NEW j \in Job, NEW a \in Asset, NEW file, Upload(j, a, file)
  PROVE  ReleaseTypeOK'
<1> DEFINE v == job[j].ref
           assets == [releases[v].assets EXCEPT ![a] = file]
<1>1. PICK pc \in Stage : Goto(j, pc)
  BY DEF Upload, Stage
<1>2. job' \in [Job -> JobState]
  BY <1>1, GotoTyped
<1>3. releases' \in [Version -> {None} \cup Page]
  <2>1. /\ releases' = [releases EXCEPT ![v].assets = assets]
        /\ file \in {Own(j)[a], Corrupt} /\ releases[v] # None
    BY DEF Upload
  <2>2. CASE v \in Version
    <3>1. releases[v] \in Page
      BY <2>1, <2>2 DEF ReleaseTypeOK
    <3>2. [releases[v] EXCEPT !.assets = assets] \in Page
      BY <2>1, <3>1, PageTyped
    <3>3. QED BY <2>1, <2>2, <3>2 DEF ReleaseTypeOK
  <2>3. CASE v \notin Version
    BY <2>1, <2>3 DEF ReleaseTypeOK
  <2>4. QED BY <2>2, <2>3
<1>4. QED BY <1>2, <1>3 DEF Upload, ReleaseTypeOK

\* The steps of the workflow after check.sh.
LEMMA PublishTyped ==
  ASSUME ReleaseTypeOK, NEW j \in Job, PublishStep(j)
  PROVE  ReleaseTypeOK'
<1>1. job[j] \in JobState
  BY DEF ReleaseTypeOK
<1>2. CASE Rerun(j)
  <2>1. job[j].attempt + 1 \in Attempt
    BY <1>1, <1>2, ReleaseAssumption DEF Rerun, JobState, Attempt
  <2>2. Checkout(job[j].mode, TRUE, job[j].ref, job[j].head, job[j].attempt + 1) \in JobState
    BY <1>1, <2>1, CheckoutTyped DEF JobState
  <2>3. job' \in [Job -> JobState]
    BY <1>2, <2>2, JobTyped DEF Rerun
  <2>4. QED BY <1>2, <2>3 DEF Rerun, page, ReleaseTypeOK
<1>3. CASE Retain(j)
  <2>1. PICK pc \in Stage : Goto(j, pc)
    BY <1>3 DEF Retain, Stage
  <2>2. [manifest |-> job[j].manifest, tarball |-> job[j].tarball]
          \in [manifest : {None} \cup Manifest, tarball : {None} \cup Commit]
    BY <1>1 DEF JobState
  <2>3. QED BY <1>3, <2>1, <2>2, GotoTyped DEF Retain, ReleaseTypeOK
<1>4. CASE Preflight(j) \/ CheckPublished(j)
  <2>1. PICK pc \in Stage : Goto(j, pc)
    BY <1>4 DEF Preflight, CheckPublished, Stage
  <2>2. QED BY <1>4, <2>1, GotoTyped DEF Preflight, CheckPublished, page, ReleaseTypeOK
<1>5. CASE CreateRelease(j)
  <2>1. PICK pc \in Stage : Goto(j, pc)
    BY <1>5 DEF CreateRelease, Stage
  <2>2. NewPage(j) \in Page
    BY StampTyped DEF NewPage, Page
  <2>3. releases' \in [Version -> {None} \cup Page]
    BY <1>5, <2>2 DEF CreateRelease, ReleaseTypeOK
  <2>4. QED BY <1>5, <2>1, <2>3, GotoTyped DEF CreateRelease, ReleaseTypeOK
<1>6. CASE \E a \in Asset : \E file \in {Own(j)[a], Corrupt} : Upload(j, a, file)
  BY <1>6, UploadTyped
<1>7. QED BY <1>2, <1>3, <1>4, <1>5, <1>6 DEF PublishStep

\* A push, a dispatch or a developer starts a job.
LEMMA StartTyped ==
  ASSUME ReleaseTypeOK, NEW j \in Job, NEW mode \in Mode, NEW hosted \in BOOLEAN,
         NEW c \in Commit, Start(j, mode, hosted, c)
  PROVE  ReleaseTypeOK'
<1>1. 1 \in Attempt
  BY ReleaseAssumption DEF Attempt
<1>2. Checkout(mode, hosted, None, c, 1) \in JobState
  BY <1>1, CheckoutTyped
<1>3. job' \in [Job -> JobState]
  BY <1>2, JobTyped DEF Start
<1>4. QED BY <1>3 DEF Start, page, ReleaseTypeOK

\* A tag starts a job.
LEMMA PushTagTyped ==
  ASSUME ReleaseTypeOK, NEW j \in Job, NEW v \in Version, NEW c \in Commit, PushTag(j, v, c)
  PROVE  ReleaseTypeOK'
<1>1. 1 \in Attempt
  BY ReleaseAssumption DEF Attempt
<1>2. Checkout("core", TRUE, v, c, 1) \in JobState
  BY <1>1, CheckoutTyped DEF Mode
<1>3. job' \in [Job -> JobState]
  BY <1>2, JobTyped DEF PushTag
<1>4. tags' \in [Version -> {None} \cup Commit]
  BY DEF PushTag, ReleaseTypeOK
<1>5. QED BY <1>3, <1>4 DEF PushTag, ReleaseTypeOK

\* Every step keeps the types.
LEMMA StepTyped ==
  ASSUME ReleaseTypeOK, [ReleaseNext]_releaseVars
  PROVE  ReleaseTypeOK'
<1>1. ASSUME NEW v \in Version, DeleteTag(v)
      PROVE  ReleaseTypeOK'
  BY <1>1 DEF DeleteTag, ReleaseTypeOK
<1>2. CASE UNCHANGED releaseVars
  BY <1>2 DEF releaseVars, ReleaseTypeOK
<1>3. ASSUME NEW j \in Job, NEW mode \in Mode, NEW hosted \in BOOLEAN, NEW c \in Commit,
             Start(j, mode, hosted, c)
      PROVE  ReleaseTypeOK'
  BY <1>3, StartTyped
<1>4. QED BY <1>1, <1>2, <1>3, CheckTyped, PublishTyped, PushTagTyped DEF ReleaseNext, Mode

\* No job, no tag, no page.
LEMMA InitTyped == ReleaseInit => ReleaseTypeOK
<1> SUFFICES ASSUME ReleaseInit PROVE ReleaseTypeOK
  OBVIOUS
<1>1. (CHOOSE c \in Commit : TRUE) \in Commit
  BY ReleaseAssumption
<1>2. 1 \in Attempt
  BY ReleaseAssumption DEF Attempt
<1>3. Checkout("fast", FALSE, None, CHOOSE c \in Commit : TRUE, 1) \in JobState
  BY <1>1, <1>2, CheckoutTyped DEF Mode
<1>4. Idle \in JobState
  BY <1>3 DEF Idle, JobState, Stage
<1>5. QED BY <1>4 DEF ReleaseInit, ReleaseTypeOK

\* Job records, tags, pages and kept evidence are of their types always; in
\* particular an archive or a published tarball is one of a commit.
THEOREM ReleaseTypes == ReleaseSpec => []ReleaseTypeOK
BY InitTyped, StepTyped, PTL DEF ReleaseSpec

-----------------------------------------------------------------------------
(* What a manifest says: if it is clean and hosted, every record it holds is *)
(* of a gate that ran on the commit named, and so is the archive. The parts  *)
(* of a hosted job's record from which it is made keep to that.              *)

TrueManifest(m) ==
  (~ m.dirty /\ ~ m.local) =>
    /\ m.tarball \in {None, m.commit}
    /\ \A g \in Registry : m.records[g] # None => m.records[g].on = m.commit

\* x is no manifest, or one that is true.
TrueIfManifest(x) == x \notin {None, Corrupt} => TrueManifest(x)

Evidence(r) ==
  /\ r.hosted =>
       /\ r.tree \in {r.head, Edited}
       /\ r.tree = r.head =>
            \A g \in Registry : r.records[g] # None => r.records[g].on = r.head
       /\ r.tarball \in {None, r.head}
  /\ TrueIfManifest(r.manifest)

EvidenceTrue ==
  /\ \A j \in Job : Evidence(job[j])
  /\ \A e \in retained : TrueIfManifest(e.manifest)
  /\ \A v \in Version : releases[v] # None => TrueIfManifest(releases[v].assets["manifest"])

\* A new checkout has no evidence.
LEMMA CheckoutEvidence ==
  ASSUME NEW mode, NEW hosted \in BOOLEAN, NEW ref, NEW c \in Commit, NEW n
  PROVE  Evidence(Checkout(mode, hosted, ref, c, n))
BY DEF Checkout, NoRecords, Evidence, TrueIfManifest

\* A job that moves on keeps its evidence or loses it.
LEMMA MovedEvidence ==
  ASSUME NEW r \in JobState, NEW pc \in Stage, Evidence(r)
  PROVE  Evidence(Moved(r, pc))
<1>1. CASE pc \notin {"green", "failed"}
  BY <1>1 DEF Moved, JobState, Evidence
<1>2. CASE pc \in {"green", "failed"} /\ r.hosted
  BY <1>2 DEF Moved, Checkout, NoRecords, Evidence, TrueIfManifest
<1>3. CASE pc \in {"green", "failed"} /\ ~ r.hosted
  BY <1>3 DEF Moved, JobState, Evidence
<1>4. QED BY <1>1, <1>2, <1>3

\* A step of one job leaves the evidence of the others.
LEMMA JobEvidence ==
  ASSUME ReleaseTypeOK, EvidenceTrue, NEW j \in Job, NEW r, Evidence(r),
         job' = [job EXCEPT ![j] = r]
  PROVE  \A i \in Job : Evidence(job'[i])
<1> SUFFICES ASSUME NEW i \in Job PROVE Evidence(job'[i])
  OBVIOUS
<1>1. CASE i = j
  <2>1. job'[i] = r
    BY <1>1 DEF ReleaseTypeOK
  <2>2. QED BY <2>1
<1>2. CASE i # j
  <2>1. job'[i] = job[i]
    BY <1>2 DEF ReleaseTypeOK
  <2>2. QED BY <2>1 DEF EvidenceTrue
<1>3. QED BY <1>1, <1>2

\* A step that only moves a job on.
LEMMA GotoEvidence ==
  ASSUME ReleaseTypeOK, EvidenceTrue, NEW j \in Job, NEW pc \in Stage, Goto(j, pc)
  PROVE  \A i \in Job : Evidence(job'[i])
<1>1. job[j] \in JobState /\ Evidence(job[j])
  BY DEF ReleaseTypeOK, EvidenceTrue
<1>2. job' = [job EXCEPT ![j] = Moved(job[j], pc)]
  BY DEF Goto
<1>3. QED BY <1>1, <1>2, MovedEvidence, JobEvidence

\* A gate that leaves the tree at the commit found it there: Edited is no commit.
LEMMA RunGateEvidence ==
  ASSUME ReleaseTypeOK, EvidenceTrue, NEW j \in Job, NEW g \in Registry, NEW s \in Status,
         NEW t \in Tree, RunGate(j, g, s, t)
  PROVE  \A i \in Job : Evidence(job'[i])
<1> DEFINE r == [job[j] EXCEPT !.tree = t, !.records[g] = [status |-> s, on |-> job[j].tree]]
           pc == IF s # "pass" /\ ~ Advisory(j) THEN "failed"
                 ELSE IF Todo(j) = {g} THEN AfterGates(r.mode)
                 ELSE "gates"
<1>1. job[j] \in JobState /\ Evidence(job[j]) /\ t \in {job[j].tree, Edited}
  BY DEF ReleaseTypeOK, EvidenceTrue, RunGate
<1>2. [status |-> s, on |-> job[j].tree] \in Record
  BY <1>1 DEF JobState, Record
<1>3. r \in JobState /\ r.mode \in Mode
  BY <1>1, <1>2 DEF JobState
<1>4. pc \in Stage
  BY <1>3 DEF AfterGates, Mode, Stage
<1>5. Evidence(r)
  <2>1. /\ r.hosted = job[j].hosted /\ r.head = job[j].head /\ r.tree = t
        /\ r.tarball = job[j].tarball /\ r.manifest = job[j].manifest
        /\ r.records[g].on = job[j].tree
        /\ \A h \in Registry : h # g => r.records[h] = job[j].records[h]
    BY <1>1 DEF JobState
  <2>2. r.head # Edited
    BY <1>3, GatesAssumption DEF JobState
  <2>3. CASE ~ r.hosted
    BY <1>1, <2>1, <2>3 DEF Evidence
  <2>4. CASE r.hosted /\ r.tree # r.head
    BY <1>1, <2>1, <2>4 DEF Evidence
  <2>5. CASE r.hosted /\ r.tree = r.head
    <3>1. job[j].tree = r.head
      BY <1>1, <2>1, <2>2, <2>5
    <3>2. \A h \in Registry : r.records[h] # None => r.records[h].on = r.head
      BY <1>1, <2>1, <2>5, <3>1 DEF Evidence
    <3>3. QED BY <1>1, <2>1, <2>5, <3>2 DEF Evidence
  <2>6. QED BY <2>3, <2>4, <2>5
<1>6. job' = [job EXCEPT ![j] = Moved(r, pc)]
  BY DEF RunGate
<1>7. QED BY <1>3, <1>4, <1>5, <1>6, MovedEvidence, JobEvidence

\* The steps of check.sh.
LEMMA CheckEvidence ==
  ASSUME ReleaseTypeOK, EvidenceTrue, NEW j \in Job, CheckStep(j)
  PROVE  EvidenceTrue'
<1>1. job[j] \in JobState /\ Evidence(job[j])
  BY DEF ReleaseTypeOK, EvidenceTrue
<1>2. SUFFICES \A i \in Job : Evidence(job'[i])
  BY DEF CheckStep, page, EvidenceTrue
<1>3. ASSUME NEW r \in JobState, NEW pc \in Stage, Evidence(r),
             job' = [job EXCEPT ![j] = Moved(r, pc)]
      PROVE  \A i \in Job : Evidence(job'[i])
  BY <1>3, MovedEvidence, JobEvidence
<1>4. CASE \E g \in Registry, s \in Status, t \in Tree : RunGate(j, g, s, t)
  BY <1>4, RunGateEvidence
<1>5. CASE Report(j) \/ VerifyOwn(j) \/ Break(j)
  <2>1. PICK pc \in Stage : Goto(j, pc)
    BY <1>5 DEF Report, VerifyOwn, Break, Stage
  <2>2. QED BY <2>1, GotoEvidence
<1>6. CASE BuildArchive(j)
  <2>1. [job[j] EXCEPT !.tarball = job[j].head] \in JobState /\ "manifest" \in Stage
    BY <1>1 DEF JobState, Stage
  <2>2. Evidence([job[j] EXCEPT !.tarball = job[j].head])
    BY <1>1 DEF JobState, Evidence
  <2>3. QED BY <1>3, <1>6, <2>1, <2>2 DEF BuildArchive
<1>7. CASE WriteManifest(j)
  <2>1. [job[j] EXCEPT !.manifest = ManifestOf(j)] \in JobState
    BY <1>1, ManifestTyped DEF JobState
  <2>2. (IF ManifestOf(j).dirty THEN "failed" ELSE "verify") \in Stage
    BY DEF Stage
  <2>3. TrueManifest(ManifestOf(j))
    BY <1>1 DEF TrueManifest, ManifestOf, Evidence
  <2>4. Evidence([job[j] EXCEPT !.manifest = ManifestOf(j)])
    BY <1>1, <2>3 DEF JobState, Evidence, TrueIfManifest
  <2>5. QED BY <1>3, <1>7, <2>1, <2>2, <2>4 DEF WriteManifest
<1>8. CASE \E c \in Commit, t \in Tree : Develop(j, c, t)
  <2>1. PICK c \in Commit, t \in Tree : Develop(j, c, t)
    BY <1>8
  <2>2. Evidence([job[j] EXCEPT !.head = c, !.tree = t])
    BY <1>1, <2>1 DEF Develop, JobState, Evidence
  <2>3. QED BY <2>1, <2>2, JobEvidence DEF Develop
<1>9. QED BY <1>4, <1>5, <1>6, <1>7, <1>8 DEF CheckStep, Status

\* The steps of the workflow after check.sh.
LEMMA PublishEvidence ==
  ASSUME ReleaseTypeOK, EvidenceTrue, NEW j \in Job, PublishStep(j)
  PROVE  EvidenceTrue'
<1>1. job[j] \in JobState /\ Evidence(job[j])
  BY DEF ReleaseTypeOK, EvidenceTrue
<1>2. CASE Rerun(j)
  <2>1. Evidence(Checkout(job[j].mode, TRUE, job[j].ref, job[j].head, job[j].attempt + 1))
    BY <1>1, CheckoutEvidence DEF JobState
  <2>2. \A i \in Job : Evidence(job'[i])
    BY <1>2, <2>1, JobEvidence DEF Rerun
  <2>3. QED BY <1>2, <2>2 DEF Rerun, page, EvidenceTrue
<1>3. CASE Retain(j)
  <2>1. PICK pc \in Stage : Goto(j, pc)
    BY <1>3 DEF Retain, Stage
  <2>2. \A i \in Job : Evidence(job'[i])
    BY <2>1, GotoEvidence
  <2>3. \A e \in retained' : TrueIfManifest(e.manifest)
    BY <1>1, <1>3 DEF Retain, EvidenceTrue, Evidence
  <2>4. QED BY <1>3, <2>2, <2>3 DEF Retain, EvidenceTrue
<1>4. CASE Preflight(j) \/ CheckPublished(j)
  <2>1. PICK pc \in Stage : Goto(j, pc)
    BY <1>4 DEF Preflight, CheckPublished, Stage
  <2>2. QED BY <1>4, <2>1, GotoEvidence DEF Preflight, CheckPublished, page, EvidenceTrue
<1>5. CASE CreateRelease(j)
  <2>1. PICK pc \in Stage : Goto(j, pc)
    BY <1>5 DEF CreateRelease, Stage
  <2>2. NewPage(j).assets["manifest"] = None
    BY DEF NewPage
  <2>3. \A v \in Version : releases'[v] \in {releases[v], NewPage(j)}
    BY <1>5 DEF CreateRelease, ReleaseTypeOK
  <2>4. \A v \in Version : releases'[v] # None =>
          TrueIfManifest(releases'[v].assets["manifest"])
    BY <2>2, <2>3, Zenon DEF EvidenceTrue, TrueIfManifest
  <2>5. QED BY <1>5, <2>1, <2>4, GotoEvidence DEF CreateRelease, EvidenceTrue
<1>6. CASE \E a \in Asset : \E file \in {Own(j)[a], Corrupt} : Upload(j, a, file)
  <2>1. PICK a \in Asset : \E file \in {Own(j)[a], Corrupt} : Upload(j, a, file)
    BY <1>6
  <2>2. PICK file \in {Own(j)[a], Corrupt} : Upload(j, a, file)
    BY <2>1
  <2>3. PICK pc \in Stage : Goto(j, pc)
    BY <2>2 DEF Upload, Stage
  <2> DEFINE w == job[j].ref
             new == [releases[w] EXCEPT !.assets = [releases[w].assets EXCEPT ![a] = file]]
  <2>4. releases' = [releases EXCEPT ![w] = new] /\ releases[w] # None
    BY <2>2 DEF Upload
  <2>5. ASSUME NEW v \in Version, releases'[v] # None
        PROVE  TrueIfManifest(releases'[v].assets["manifest"])
    <3>1. CASE v # w
      BY <2>4, <2>5, <3>1 DEF ReleaseTypeOK, EvidenceTrue
    <3>2. CASE v = w
      <4>1. releases[w] \in Page
        BY <2>4, <3>2 DEF ReleaseTypeOK
      <4>2. releases'[v] = new
        BY <2>4, <3>2 DEF ReleaseTypeOK
      <4>3. CASE a = "manifest"
        <5>1. new.assets["manifest"] = file
          BY <4>1, <4>3 DEF Page
        <5>2. Own(j)["manifest"] = job[j].manifest
          BY DEF Own
        <5>3. TrueIfManifest(file)
          BY <1>1, <4>3, <5>2 DEF Evidence, TrueIfManifest
        <5>4. QED BY <4>2, <5>1, <5>3
      <4>4. CASE a # "manifest"
        <5>1. new.assets["manifest"] = releases[w].assets["manifest"]
          BY <4>1, <4>4 DEF Page
        <5>2. QED BY <2>4, <3>2, <4>2, <5>1 DEF EvidenceTrue
      <4>5. QED BY <4>3, <4>4
    <3>3. QED BY <3>1, <3>2
  <2>6. QED BY <2>2, <2>3, <2>5, GotoEvidence DEF Upload, EvidenceTrue
<1>7. QED BY <1>2, <1>3, <1>4, <1>5, <1>6 DEF PublishStep

\* Every step keeps the evidence true.
LEMMA StepEvidence ==
  ASSUME ReleaseTypeOK, EvidenceTrue, [ReleaseNext]_releaseVars
  PROVE  EvidenceTrue'
<1>1. ASSUME NEW v \in Version, DeleteTag(v)
      PROVE  EvidenceTrue'
  BY <1>1 DEF DeleteTag, EvidenceTrue
<1>2. CASE UNCHANGED releaseVars
  BY <1>2 DEF releaseVars, EvidenceTrue
<1>3. ASSUME NEW j \in Job, NEW mode \in Mode, NEW hosted \in BOOLEAN, NEW c \in Commit,
             Start(j, mode, hosted, c)
      PROVE  EvidenceTrue'
  <2>1. \A i \in Job : Evidence(job'[i])
    BY <1>3, CheckoutEvidence, JobEvidence DEF Start
  <2>2. QED BY <1>3, <2>1 DEF Start, page, EvidenceTrue
<1>4. ASSUME NEW j \in Job, NEW v \in Version, NEW c \in Commit, PushTag(j, v, c)
      PROVE  EvidenceTrue'
  <2>1. \A i \in Job : Evidence(job'[i])
    BY <1>4, CheckoutEvidence, JobEvidence DEF PushTag
  <2>2. QED BY <1>4, <2>1 DEF PushTag, EvidenceTrue
<1>5. QED BY <1>1, <1>2, <1>3, <1>4, CheckEvidence, PublishEvidence DEF ReleaseNext, Mode

\* There is no evidence yet.
LEMMA InitEvidence == ReleaseInit => EvidenceTrue
<1> SUFFICES ASSUME ReleaseInit PROVE EvidenceTrue
  OBVIOUS
<1>1. Evidence(Idle)
  BY ReleaseAssumption DEF Idle, Checkout, NoRecords, Evidence, TrueIfManifest
<1>2. QED BY <1>1 DEF ReleaseInit, EvidenceTrue

\* A manifest the verifier accepts claims to be clean and hosted, so it is true.
LEMMA EvidenceIsSound ==
  ASSUME ReleaseTypeOK, EvidenceTrue
  PROVE  AcceptedIsSound
<1> SUFFICES ASSUME NEW m \in Manifests, NEW t \in Commit, Binds(m, t)
             PROVE  /\ m.commit = t
                    /\ \A g \in Registry : m.records[g] = [status |-> "pass", on |-> t]
  BY DEF AcceptedIsSound
<1>1. m \in Manifest
  <2>1. \A j \in Job : job[j].manifest \in {None} \cup Manifest
    BY DEF ReleaseTypeOK, JobState
  <2>2. \A e \in retained : e.manifest \in {None} \cup Manifest
    BY DEF ReleaseTypeOK
  <2>3. \A v \in Version :
          releases[v] # None => releases[v].assets["manifest"] \in {None, Corrupt} \cup Manifest
    BY DEF ReleaseTypeOK, Page
  <2>4. QED BY <2>1, <2>2, <2>3 DEF Manifests
<1>2. TrueManifest(m)
  BY DEF Manifests, EvidenceTrue, Evidence, TrueIfManifest
<1>3. t # None
  BY GatesAssumption DEF Tree
<1>4. m.commit = t
  BY <1>2, <1>3 DEF Binds, GateContract, TrueManifest
<1>5. ASSUME NEW g \in Registry
      PROVE  m.records[g] = [status |-> "pass", on |-> t]
  <2>1. m.records[g] # None /\ m.records[g].status = "pass"
    BY DEF Binds, GateContract, Passed
  <2>2. m.records[g].on = t
    BY <1>2, <1>4, <2>1 DEF Binds, GateContract, TrueManifest
  <2>3. m.records[g] \in Record
    BY <1>1, <2>1 DEF Manifest
  <2>4. QED BY <2>1, <2>2, <2>3 DEF Record
<1>6. QED BY <1>4, <1>5

\* Whatever gates, developers, uploads and re-runs do, a manifest and a tarball
\* that verify_release_manifest.py accepts are of one commit, on the unchanged
\* content of which every gate of the registry passed.
THEOREM AcceptedEvidence == ReleaseSpec => []AcceptedIsSound
<1>1. ReleaseInit => ReleaseTypeOK /\ EvidenceTrue
  BY InitTyped, InitEvidence
<1>2. ReleaseTypeOK /\ EvidenceTrue /\ [ReleaseNext]_releaseVars
        => (ReleaseTypeOK /\ EvidenceTrue)'
  BY StepTyped, StepEvidence
<1>3. ReleaseTypeOK /\ EvidenceTrue => AcceptedIsSound
  BY EvidenceIsSound
<1>4. QED BY <1>1, <1>2, <1>3, PTL DEF ReleaseSpec

-----------------------------------------------------------------------------
(* The release page. Only hosted tag jobs publish; a page is of one attempt  *)
(* of one of them, whose reference and commit never change again; and a job  *)
(* that uploads, or has looked at what it uploaded, is the one the page names. *)

Publishing == {"preflight", "create", "upload", "check"}

\* What the stage pc of a job says about the job.
StageFits(r, pc) ==
  /\ r.ref # None => r.hosted /\ r.mode = "core"
  /\ pc = "idle" => ~ r.hosted
  /\ pc = "report" => r.mode = "validation"
  /\ pc \in {"retain"} \cup Publishing => r.hosted
  /\ pc \in Publishing => r.ref # None
  /\ pc \in Publishing \ {"preflight"} => VersionOf[r.head] = r.ref

\* A hosted job only has the manifest of its own attempt.
OwnManifest(j, r) ==
  r.hosted /\ r.manifest # None => r.manifest.stamp = << j, r.attempt >>

PageBy(j, r) == releases[r.ref] # None /\ releases[r.ref].creator = << j, r.attempt >>

\* The page of a job that ended green, as the last look at it left it.
Published(j, r) ==
  LET assets == releases[r.ref].assets IN
  /\ VersionOf[r.head] = r.ref /\ PageBy(j, r)
  /\ assets["tarball"] = r.head
  /\ assets["manifest"] \notin {None, Corrupt}
  /\ Accepts(assets["manifest"], assets["tarball"], assets["summary"])

JobFits(j, r) ==
  /\ StageFits(r, r.pc) /\ OwnManifest(j, r)
  /\ r.pc \in {"upload", "check"} => PageBy(j, r)
  /\ r.pc = "green" /\ r.ref # None => Published(j, r)

\* What attempt n of a job with record r may have put on its page.
OwnAssets(assets, j, n, r) ==
  /\ assets["tarball"] \in {None, Corrupt, r.head}
  /\ assets["manifest"] \in {None, Corrupt} \/ assets["manifest"].stamp = << j, n >>
  /\ assets["summary"] \in {None, Corrupt, << j, n >>}

PageFits(v, j, n) ==
  releases[v] # None /\ releases[v].creator = << j, n >> =>
    /\ job[j].hosted /\ job[j].ref = v /\ n <= job[j].attempt
    /\ OwnAssets(releases[v].assets, j, n, job[j])

PagesFit ==
  /\ \A j \in Job : JobFits(j, job[j])
  /\ \A v \in Version, j \in Job, n \in Attempt : PageFits(v, j, n)

\* The inductive invariant of the publication.
PublishInv == ReleaseTypeOK /\ EvidenceTrue /\ PagesFit

\* What a move of a record changes: the stage, and for a hosted job that has
\* ended everything that is not its identity (check.sh, cleanup).
LEMMA MovedFields ==
  ASSUME NEW r \in JobState, NEW pc \in Stage
  PROVE  LET m == Moved(r, pc)
         IN  /\ m.pc = pc /\ m.mode = r.mode /\ m.hosted = r.hosted /\ m.ref = r.ref
             /\ m.attempt = r.attempt /\ m.head = r.head
             /\ m.manifest \in {r.manifest, None}
<1>1. CASE pc \notin {"green", "failed"}
  BY <1>1 DEF Moved, JobState
<1>2. CASE pc \in {"green", "failed"} /\ r.hosted
  BY <1>2 DEF Moved, JobState, Checkout
<1>3. CASE pc \in {"green", "failed"} /\ ~ r.hosted
  BY <1>3 DEF Moved, JobState
<1>4. QED BY <1>1, <1>2, <1>3

\* r follows job[j]: a hosted job stays the job it was.
Follows(j, r) ==
  job[j].hosted => /\ r.hosted /\ r.ref = job[j].ref /\ r.head = job[j].head
                   /\ job[j].attempt <= r.attempt

\* The step of a job that leaves the pages alone.
LEMMA JobFitsStep ==
  ASSUME PublishInv, NEW j \in Job, NEW r \in JobState,
         job' = [job EXCEPT ![j] = r], UNCHANGED releases,
         Follows(j, r), JobFits(j, r)
  PROVE  PagesFit'
<1>1. job'[j] = r /\ \A i \in Job \ {j} : job'[i] = job[i]
  BY DEF PublishInv, ReleaseTypeOK
<1>2. \A i \in Job : JobFits(i, job[i])
  BY DEF PublishInv, PagesFit
<1>3. ASSUME NEW i \in Job PROVE JobFits(i, job[i])'
  <2>1. JobFits(i, job'[i])
    BY <1>1, <1>2
  <2>2. QED BY <2>1 DEF JobFits, PageBy, Published
<1>4. ASSUME NEW v \in Version, NEW i \in Job, NEW n \in Attempt PROVE PageFits(v, i, n)'
  <2>1. PageFits(v, i, n)
    BY DEF PublishInv, PagesFit
  <2>2. /\ job[i].attempt \in Nat /\ job'[i].attempt \in Nat /\ n \in Nat
        /\ Follows(i, job'[i])
    BY <1>1 DEF PublishInv, ReleaseTypeOK, JobState, Attempt, Follows
  <2>3. QED BY <2>1, <2>2 DEF PageFits, Follows, OwnAssets
<1>5. QED BY <1>3, <1>4 DEF PagesFit

\* A step of check.sh, or of the workflow where it publishes nothing, to a stage
\* that fits the job and is neither an upload nor the end of a tag job.
LEMMA MovedFits ==
  ASSUME PublishInv, NEW j \in Job, NEW r \in JobState, NEW pc \in Stage,
         job' = [job EXCEPT ![j] = Moved(r, pc)], UNCHANGED releases,
         Follows(j, r), StageFits(r, pc), OwnManifest(j, r),
         pc \in {"upload", "check"} => PageBy(j, r),
         pc = "green" => r.ref = None
  PROVE  PagesFit'
<1> DEFINE m == Moved(r, pc)
<1>1. /\ m.pc = pc /\ m.mode = r.mode /\ m.hosted = r.hosted /\ m.ref = r.ref
      /\ m.attempt = r.attempt /\ m.head = r.head
      /\ m.manifest \in {r.manifest, None}
  BY MovedFields
<1>2. m \in JobState
  BY MovedTyped
<1> HIDE DEF m
<1>3. Follows(j, m)
  BY <1>1 DEF Follows
<1>4. JobFits(j, m)
  BY <1>1 DEF JobFits, StageFits, OwnManifest, PageBy
<1>5. job' = [job EXCEPT ![j] = m]
  BY DEF m
<1>6. QED BY <1>2, <1>3, <1>4, <1>5, JobFitsStep

\* The steps of check.sh publish nothing; they end green for no tag.
LEMMA CheckFits ==
  ASSUME PublishInv, NEW j \in Job, CheckStep(j)
  PROVE  PagesFit'
<1>1. /\ job[j] \in JobState /\ UNCHANGED releases
      /\ StageFits(job[j], job[j].pc) /\ OwnManifest(j, job[j])
  BY DEF PublishInv, ReleaseTypeOK, PagesFit, JobFits, CheckStep, page
<1>2. ASSUME NEW g \in Registry, NEW s \in Status, NEW t \in Tree, RunGate(j, g, s, t)
      PROVE  PagesFit'
  <2> DEFINE r == [job[j] EXCEPT !.tree = t, !.records[g] = [status |-> s, on |-> job[j].tree]]
             pc == IF s # "pass" /\ ~ Advisory(j) THEN "failed"
                   ELSE IF Todo(j) = {g} THEN AfterGates(r.mode)
                   ELSE "gates"
  <2>1. [status |-> s, on |-> job[j].tree] \in Record
    BY <1>1 DEF JobState, Record
  <2>2. /\ r \in JobState /\ r.mode = job[j].mode /\ r.mode \in Mode
        /\ r.hosted = job[j].hosted /\ r.ref = job[j].ref /\ r.head = job[j].head
        /\ r.attempt = job[j].attempt /\ r.manifest = job[j].manifest
    BY <1>1, <2>1 DEF JobState
  <2>3. pc \in {"failed", "gates", AfterGates(r.mode)} /\ pc \in Stage
    BY <2>2 DEF AfterGates, Mode, Stage
  <2>4. job' = [job EXCEPT ![j] = Moved(r, pc)]
    BY <1>2 DEF RunGate
  <2> HIDE DEF r, pc
  <2>5. Follows(j, r) /\ OwnManifest(j, r)
    BY <1>1, <2>2 DEF Follows, OwnManifest, JobState, Attempt
  <2>6. /\ StageFits(r, pc) /\ pc \notin {"upload", "check"}
        /\ pc = "green" => r.ref = None
    BY <1>1, <2>2, <2>3 DEF StageFits, Publishing, AfterGates, Mode
  <2>7. QED BY <1>1, <2>2, <2>3, <2>4, <2>5, <2>6, MovedFits
<1>3. ASSUME NEW pc \in Stage, Goto(j, pc), StageFits(job[j], pc),
             pc \notin {"upload", "check"}, pc = "green" => job[j].ref = None
      PROVE  PagesFit'
  <2>1. Follows(j, job[j])
    BY <1>1 DEF Follows, JobState, Attempt
  <2>2. QED BY <1>1, <1>3, <2>1, MovedFits DEF Goto
<1>4. CASE Report(j)
  BY <1>1, <1>3, <1>4 DEF Report, At, StageFits, Publishing, Stage
<1>5. CASE BuildArchive(j)
  <2> DEFINE r == [job[j] EXCEPT !.tarball = job[j].head]
  <2>1. /\ r \in JobState /\ r.mode = job[j].mode
        /\ r.hosted = job[j].hosted /\ r.ref = job[j].ref /\ r.head = job[j].head
        /\ r.attempt = job[j].attempt /\ r.manifest = job[j].manifest
    BY <1>1 DEF JobState
  <2>2. job' = [job EXCEPT ![j] = Moved(r, "manifest")] /\ "manifest" \in Stage
    BY <1>5 DEF BuildArchive, Stage
  <2> HIDE DEF r
  <2>3. Follows(j, r) /\ OwnManifest(j, r) /\ StageFits(r, "manifest")
    BY <1>1, <2>1 DEF Follows, OwnManifest, StageFits, Publishing, JobState, Attempt
  <2>4. QED BY <1>1, <2>1, <2>2, <2>3, MovedFits
<1>6. CASE WriteManifest(j)
  <2> DEFINE r  == [job[j] EXCEPT !.manifest = ManifestOf(j)]
             pc == IF ManifestOf(j).dirty THEN "failed" ELSE "verify"
  <2>1. ManifestOf(j) \in Manifest /\ ManifestOf(j).stamp = << j, job[j].attempt >>
    BY ManifestTyped DEF PublishInv, ManifestOf, Stamp
  <2>2. /\ r \in JobState /\ r.mode = job[j].mode
        /\ r.hosted = job[j].hosted /\ r.ref = job[j].ref /\ r.head = job[j].head
        /\ r.attempt = job[j].attempt /\ r.manifest = ManifestOf(j)
    BY <1>1, <2>1 DEF JobState
  <2>3. job' = [job EXCEPT ![j] = Moved(r, pc)] /\ pc \in {"failed", "verify"} /\ pc \in Stage
    BY <1>6 DEF WriteManifest, Stage
  <2> HIDE DEF r, pc
  <2>4. Follows(j, r) /\ OwnManifest(j, r) /\ StageFits(r, pc)
    BY <1>1, <2>1, <2>2, <2>3 DEF Follows, OwnManifest, StageFits, Publishing, JobState, Attempt
  <2>5. QED BY <1>1, <2>2, <2>3, <2>4, MovedFits
<1>7. CASE VerifyOwn(j)
  BY <1>1, <1>3, <1>7 DEF VerifyOwn, StageFits, Publishing, Stage
<1>8. CASE Break(j)
  BY <1>1, <1>3, <1>8 DEF Break, StageFits, Publishing, Stage
<1>9. ASSUME NEW c \in Commit, NEW t \in Tree, Develop(j, c, t) PROVE PagesFit'
  <2> DEFINE r == [job[j] EXCEPT !.head = c, !.tree = t]
  <2>1. /\ r \in JobState /\ r.mode = job[j].mode /\ r.pc = job[j].pc
        /\ r.hosted = job[j].hosted /\ r.ref = job[j].ref
        /\ r.attempt = job[j].attempt /\ r.manifest = job[j].manifest
    BY <1>1 DEF JobState
  <2>2. job' = [job EXCEPT ![j] = r] /\ ~ job[j].hosted /\ job[j].pc # "green"
    BY <1>9 DEF Develop, Active
  <2> HIDE DEF r
  <2>3. Follows(j, r) /\ JobFits(j, r)
    BY <1>1, <2>1, <2>2 DEF Follows, JobFits, StageFits, OwnManifest, Publishing
  <2>4. QED BY <1>1, <2>1, <2>2, <2>3, JobFitsStep
<1>10. QED BY <1>2, <1>4, <1>5, <1>6, <1>7, <1>8, <1>9 DEF CheckStep, Status

\* The start of a job, by a push, a tag or a developer, and its re-run.
LEMMA StartFits ==
  ASSUME PublishInv, NEW j \in Job,
         \/ Rerun(j)
         \/ \E mode \in Mode, hosted \in BOOLEAN, c \in Commit : Start(j, mode, hosted, c)
         \/ \E v \in Version, c \in Commit : PushTag(j, v, c)
  PROVE  PagesFit'
<1>1. /\ job[j] \in JobState /\ 1 \in Attempt
      /\ StageFits(job[j], job[j].pc)
  BY ReleaseAssumption DEF PublishInv, ReleaseTypeOK, PagesFit, JobFits, Attempt
<1>2. ASSUME NEW mode \in Mode, NEW hosted \in BOOLEAN, NEW ref \in {None} \cup Version,
             NEW c \in Commit, NEW n \in Attempt,
             job' = [job EXCEPT ![j] = Checkout(mode, hosted, ref, c, n)],
             UNCHANGED releases,
             Follows(j, Checkout(mode, hosted, ref, c, n)),
             ref # None => hosted /\ mode = "core"
      PROVE  PagesFit'
  <2>1. JobFits(j, Checkout(mode, hosted, ref, c, n))
    BY <1>2 DEF JobFits, StageFits, OwnManifest, Checkout, Publishing
  <2>2. QED BY <1>2, <2>1, CheckoutTyped, JobFitsStep
<1>3. CASE Rerun(j)
  <2>1. /\ job[j].attempt + 1 \in Attempt /\ job[j].attempt <= job[j].attempt + 1
        /\ job[j].mode \in Mode /\ job[j].ref \in {None} \cup Version /\ job[j].head \in Commit
    BY <1>1, <1>3, ReleaseAssumption DEF Rerun, JobState, Attempt
  <2>2. Follows(j, Checkout(job[j].mode, TRUE, job[j].ref, job[j].head, job[j].attempt + 1))
    BY <2>1 DEF Follows, Checkout
  <2>3. job[j].ref # None => job[j].mode = "core"
    BY <1>1 DEF StageFits
  <2>4. QED BY <1>2, <1>3, <2>1, <2>2, <2>3 DEF Rerun, page
<1>4. At(j, "idle") => ~ job[j].hosted
  BY <1>1 DEF At, StageFits
<1>5. ASSUME NEW mode \in Mode, NEW hosted \in BOOLEAN, NEW c \in Commit,
             Start(j, mode, hosted, c)
      PROVE  PagesFit'
  BY <1>1, <1>2, <1>4, <1>5 DEF Start, page, Follows
<1>6. ASSUME NEW v \in Version, NEW c \in Commit, PushTag(j, v, c) PROVE PagesFit'
  BY <1>1, <1>2, <1>4, <1>6 DEF PushTag, Follows, Mode
<1>7. QED BY <1>3, <1>5, <1>6

\* retain and preflight look at the page and touch none.
LEMMA PreflightFits ==
  ASSUME PublishInv, NEW j \in Job, Retain(j) \/ Preflight(j)
  PROVE  PagesFit'
<1>1. /\ job[j] \in JobState /\ UNCHANGED releases
      /\ StageFits(job[j], job[j].pc) /\ OwnManifest(j, job[j])
  BY DEF PublishInv, ReleaseTypeOK, PagesFit, JobFits, Retain, Preflight, page
<1>2. Follows(j, job[j])
  BY <1>1 DEF Follows, JobState, Attempt
<1>3. PICK pc \in Stage :
        /\ Goto(j, pc) /\ StageFits(job[j], pc)
        /\ pc \notin {"upload", "check"} /\ (pc = "green" => job[j].ref = None)
  <2>1. CASE Retain(j)
    BY <1>1, <2>1 DEF Retain, At, StageFits, Publishing, Stage
  <2>2. CASE Preflight(j)
    BY <1>1, <2>2 DEF Preflight, At, StageFits, Publishing, Stage
  <2>3. QED BY <2>1, <2>2
<1>4. QED BY <1>1, <1>2, <1>3, MovedFits DEF Goto

\* The step of a publishing job j on the page of v, which becomes p: a new page,
\* or its own one with another asset on it. No other job is at that page.
LEMMA PageFitsStep ==
  ASSUME PublishInv, NEW j \in Job, NEW r \in JobState, NEW p \in Page,
         job' = [job EXCEPT ![j] = r],
         releases' = [releases EXCEPT ![job[j].ref] = p],
         job[j].hosted, Follows(j, r), JobFits(j, r)',
         job[j].ref \in Version, r.attempt = job[j].attempt,
         p # None, p.creator = << j, r.attempt >>,
         OwnAssets(p.assets, j, r.attempt, r),
         releases[job[j].ref] = None \/ PageBy(j, job[j])
  PROVE  PagesFit'
<1> DEFINE w == job[j].ref
<1>1. /\ job'[j] = r /\ \A i \in Job \ {j} : job'[i] = job[i]
      /\ releases'[w] = p /\ \A v \in Version \ {w} : releases'[v] = releases[v]
  BY DEF PublishInv, ReleaseTypeOK
<1>2. ASSUME NEW i \in Job, i # j PROVE JobFits(i, job[i])'
  <2>1. JobFits(i, job[i]) /\ job[i] \in JobState /\ job'[i] = job[i]
    BY <1>1, <1>2 DEF PublishInv, PagesFit, ReleaseTypeOK
  <2>2. releases[w] # None => releases[w].creator # << i, job[i].attempt >>
    BY <1>2 DEF PageBy
  <2>3. PageBy(i, job[i]) => job[i].ref # w
    BY <2>2 DEF PageBy
  <2>4. job[i].ref \in Version \ {w} => releases'[job[i].ref] = releases[job[i].ref]
    BY <1>1
  <2>5. job[i].pc \in {"upload", "check"} => job[i].ref # None
    BY <2>1 DEF JobFits, StageFits, Publishing
  <2>6. job[i].ref \in {None} \cup Version
    BY <2>1 DEF JobState
  <2>7. JobFits(i, job[i]) => (StageFits(job[i], job[i].pc) /\ OwnManifest(i, job[i]))
    BY DEF JobFits
  <2>8. ASSUME job[i].pc \in {"upload", "check"} PROVE PageBy(i, job[i])'
    BY <2>1, <2>3, <2>4, <2>5, <2>6, <2>8, Zenon DEF JobFits, PageBy
  <2>9. ASSUME job[i].pc = "green", job[i].ref # None PROVE Published(i, job[i])'
    <3>1. Published(i, job[i])
      BY <2>1, <2>9 DEF JobFits
    <3>2. releases'[job[i].ref] = releases[job[i].ref]
      BY <2>3, <2>4, <2>6, <2>9, <3>1 DEF Published
    <3>3. QED BY <2>1, <3>1, <3>2 DEF Published, PageBy
  <2>10. QED BY <2>1, <2>7, <2>8, <2>9 DEF JobFits
<1>3. JobFits(j, job[j])'
  BY <1>1 DEF JobFits, PageBy, Published
<1>4. ASSUME NEW v \in Version, NEW i \in Job, NEW n \in Attempt PROVE PageFits(v, i, n)'
  <2>1. CASE v = w
    <3>1. releases'[v] # None /\ releases'[v].creator = << i, n >> => i = j /\ n = r.attempt
      BY <1>1, <2>1
    <3>2. r.attempt <= r.attempt
      BY DEF JobState, Attempt
    <3>3. QED BY <1>1, <2>1, <3>1, <3>2 DEF PageFits, Follows
  <2>2. CASE v # w
    <3>1. PageFits(v, i, n) /\ releases'[v] = releases[v]
      BY <1>1, <2>2 DEF PublishInv, PagesFit
    <3>2. i = j => job[i].ref # v
      BY <2>2
    <3>3. QED BY <1>1, <3>1, <3>2 DEF PageFits, OwnAssets
  <2>3. QED BY <2>1, <2>2
<1>5. QED BY <1>2, <1>3, <1>4 DEF PagesFit

\* gh release create: the page is new, or the job fails.
LEMMA CreateFits ==
  ASSUME PublishInv, NEW j \in Job, CreateRelease(j)
  PROVE  PagesFit'
<1> DEFINE v == job[j].ref
<1>1. /\ job[j] \in JobState /\ None \notin Page
      /\ StageFits(job[j], "create") /\ OwnManifest(j, job[j])
      /\ job[j].hosted /\ v \in Version
  <2>1. job[j] \in JobState /\ StageFits(job[j], "create") /\ OwnManifest(j, job[j])
    BY DEF PublishInv, ReleaseTypeOK, PagesFit, JobFits, CreateRelease, At
  <2>2. QED BY <2>1, PageAssumption DEF StageFits, Publishing, JobState
<1>2. Follows(j, job[j])
  BY <1>1 DEF Follows, JobState, Attempt
<1>3. CASE UNCHANGED releases /\ Goto(j, "failed")
  <2>1. StageFits(job[j], "failed") /\ "failed" \in Stage
    BY <1>1 DEF StageFits, Publishing, Stage
  <2>2. QED BY <1>1, <1>2, <1>3, <2>1, MovedFits DEF Goto
<1>4. CASE /\ releases[v] = None
           /\ releases' = [releases EXCEPT ![v] = NewPage(j)]
           /\ Goto(j, "upload")
  <2>0. PICK r : r = Moved(job[j], "upload")
    OBVIOUS
  <2>1. /\ r \in JobState /\ r.pc = "upload" /\ r.mode = job[j].mode
        /\ r.hosted = job[j].hosted /\ r.ref = v /\ r.head = job[j].head
        /\ r.attempt = job[j].attempt /\ r.manifest \in {job[j].manifest, None}
    BY <1>1, <2>0, MovedFields, MovedTyped DEF Stage
  <2>2. job' = [job EXCEPT ![j] = r]
    BY <1>4, <2>0 DEF Goto
  <2>3. /\ NewPage(j) \in Page /\ NewPage(j) # None
        /\ NewPage(j).creator = << j, r.attempt >>
        /\ OwnAssets(NewPage(j).assets, j, r.attempt, r)
    BY <1>1, <2>1, StampTyped DEF PublishInv, NewPage, Page, Stamp, OwnAssets
  <2>4. releases'[v] = NewPage(j)
    BY <1>1, <1>4 DEF PublishInv, ReleaseTypeOK
  <2>5. Follows(j, r)
    BY <1>2, <2>1 DEF Follows
  <2>6. StageFits(r, r.pc) /\ OwnManifest(j, r)
    BY <1>1, <2>1 DEF StageFits, OwnManifest, Publishing
  <2>7. JobFits(j, r)'
    BY <2>1, <2>3, <2>4, <2>6 DEF JobFits, PageBy
  <2>8. QED BY <1>1, <1>4, <2>1, <2>2, <2>3, <2>5, <2>7, PageFitsStep
<1>5. QED BY <1>3, <1>4 DEF CreateRelease

\* gh release upload: a job puts its own files, or what became of them, on its
\* own page.
LEMMA UploadFits ==
  ASSUME PublishInv, NEW j \in Job, NEW a \in Asset, NEW file, Upload(j, a, file)
  PROVE  PagesFit'
<1> DEFINE v      == job[j].ref
           assets == [releases[v].assets EXCEPT ![a] = file]
           p      == [releases[v] EXCEPT !.assets = assets]
<1>1. /\ job[j] \in JobState /\ JobFits(j, job[j]) /\ At(j, "upload")
      /\ StageFits(job[j], "upload") /\ OwnManifest(j, job[j]) /\ PageBy(j, job[j])
      /\ Evidence(job[j])
  BY DEF PublishInv, ReleaseTypeOK, PagesFit, JobFits, Upload, At, EvidenceTrue
<1>2. job[j].hosted /\ v \in Version /\ job[j].attempt \in Attempt
  BY <1>1 DEF StageFits, Publishing, JobState
<1>3. /\ releases[v] \in Page /\ releases[v].creator = << j, job[j].attempt >>
      /\ OwnAssets(releases[v].assets, j, job[j].attempt, job[j])
  BY <1>1, <1>2 DEF PublishInv, ReleaseTypeOK, PagesFit, PageBy, PageFits
<1>4. releases' = [releases EXCEPT ![v] = p] /\ releases'[v] = p
  BY <1>2 DEF Upload, PublishInv, ReleaseTypeOK
<1>5. p.creator = << j, job[j].attempt >> /\ p.assets = assets /\ p # None /\ p \in Page
  <2>1. p.creator = << j, job[j].attempt >> /\ p.assets = assets
    BY <1>3 DEF Page
  <2>2. file \in {Own(j)[a], Corrupt}
    BY DEF Upload
  <2>3. p \in Page
    BY <1>3, <2>2, PageTyped DEF PublishInv
  <2>4. QED BY <2>1, <2>3, PageAssumption
<1>6. OwnAssets(assets, j, job[j].attempt, job[j])
  <2>1. PICK old : old = releases[v].assets
    OBVIOUS
  <2>2. PICK own : own = Own(j)
    OBVIOUS
  <2>3. file \in {own[a], Corrupt}
    BY <2>2 DEF Upload
  <2>4. \A b \in Asset : assets[b] = IF b = a THEN file ELSE old[b]
    BY <1>3, <2>1 DEF Page, Asset
  <2> HIDE DEF assets
  <2>5. \A b \in Asset : assets[b] \in {old[b], own[b], Corrupt}
    BY <2>3, <2>4
  <2>6. /\ assets["tarball"] \in {old["tarball"], own["tarball"], Corrupt}
        /\ assets["manifest"] \in {old["manifest"], own["manifest"], Corrupt}
        /\ assets["summary"] \in {old["summary"], own["summary"], Corrupt}
    BY <2>5 DEF Asset
  <2>7. PICK h, st : h = job[j].head /\ st = << j, job[j].attempt >>
    OBVIOUS
  <2>8. /\ old["tarball"] \in {None, Corrupt, h}
        /\ old["manifest"] \in {None, Corrupt} \/ old["manifest"].stamp = st
        /\ old["summary"] \in {None, Corrupt, st}
    BY <1>3, <2>1, <2>7, Zenon DEF OwnAssets
  <2>9. /\ own["tarball"] = job[j].tarball /\ own["manifest"] = job[j].manifest
        /\ own["summary"] = << j, job[j].attempt >>
    BY <2>2 DEF Own, Stamp
  <2>10. job[j].tarball \in {None, h}
    BY <1>1, <1>2, <2>7, Zenon DEF Evidence
  <2>11. job[j].manifest = None \/ job[j].manifest.stamp = st
    BY <1>1, <1>2, <2>7, Zenon DEF OwnManifest
  <2>12. assets["tarball"] \in {None, Corrupt, h}
    BY <2>6, <2>8, <2>9, <2>10, Zenon
  <2>13. assets["manifest"] \in {None, Corrupt} \/ assets["manifest"].stamp = st
    BY <2>6, <2>8, <2>9, <2>11, Zenon
  <2>14. assets["summary"] \in {None, Corrupt, st}
    BY <2>6, <2>7, <2>8, <2>9, Zenon
  <2>15. QED BY <2>7, <2>12, <2>13, <2>14, Zenon DEF OwnAssets
<1> HIDE DEF assets, p
<1>7. PICK pc \in {"upload", "check"} : Goto(j, pc)
  BY DEF Upload
<1>8. PICK r : r = Moved(job[j], pc)
  OBVIOUS
<1>9. /\ r \in JobState /\ r.pc = pc /\ r.mode = job[j].mode
      /\ r.hosted = job[j].hosted /\ r.ref = v /\ r.head = job[j].head
      /\ r.attempt = job[j].attempt /\ r.manifest \in {job[j].manifest, None}
  <2>1. pc \in Stage
    BY <1>7 DEF Stage
  <2>2. /\ r \in JobState /\ r.pc = pc /\ r.mode = job[j].mode /\ r.hosted = job[j].hosted
        /\ r.ref = job[j].ref /\ r.head = job[j].head /\ r.attempt = job[j].attempt
        /\ r.manifest \in {job[j].manifest, None}
    BY <1>1, <1>8, <2>1, MovedFields, MovedTyped
  <2>3. QED BY <1>7, <2>2
<1>10. job' = [job EXCEPT ![j] = r]
  BY <1>8, <1>7 DEF Goto
<1>11. Follows(j, r)
  BY <1>1, <1>9 DEF Follows, JobState, Attempt
<1>12. StageFits(r, r.pc) /\ OwnManifest(j, r)
  BY <1>1, <1>9 DEF StageFits, OwnManifest, Publishing
<1>13. JobFits(j, r)'
  BY <1>4, <1>5, <1>9, <1>12 DEF JobFits, PageBy
<1>14. OwnAssets(p.assets, j, r.attempt, r)
  BY <1>5, <1>6, <1>9 DEF OwnAssets
<1>15. QED BY <1>1, <1>2, <1>4, <1>5, <1>9, <1>10, <1>11, <1>13, <1>14, PageFitsStep

\* The last look at the page: green only if all that is there is accepted, and
\* what is accepted on the page of j is of the commit of j.
LEMMA CheckPublishedFits ==
  ASSUME PublishInv, NEW j \in Job, CheckPublished(j)
  PROVE  PagesFit'
<1> DEFINE v      == job[j].ref
           assets == releases[v].assets
<1>1. /\ job[j] \in JobState /\ UNCHANGED releases
      /\ StageFits(job[j], "check") /\ OwnManifest(j, job[j]) /\ PageBy(j, job[j])
  BY DEF PublishInv, ReleaseTypeOK, PagesFit, JobFits, CheckPublished, At, page
<1>2. job[j].hosted /\ v \in Version /\ job[j].attempt \in Attempt
  BY <1>1 DEF StageFits, Publishing, JobState
<1>3. Follows(j, job[j])
  BY <1>1 DEF Follows, JobState, Attempt
<1>4. CASE Goto(j, "failed")
  <2>1. StageFits(job[j], "failed") /\ "failed" \in Stage
    BY <1>1 DEF StageFits, Publishing, Stage
  <2>2. QED BY <1>1, <1>3, <1>4, <2>1, MovedFits DEF Goto
<1>5. CASE /\ Goto(j, "green")
           /\ \A b \in Asset : assets[b] # None
           /\ assets["manifest"] # Corrupt
           /\ Accepts(assets["manifest"], assets["tarball"], assets["summary"])
  <2> DEFINE r == Moved(job[j], "green")
  <2>1. /\ r \in JobState /\ r.pc = "green" /\ r.mode = job[j].mode
        /\ r.hosted = job[j].hosted /\ r.ref = v /\ r.head = job[j].head
        /\ r.attempt = job[j].attempt /\ r.manifest \in {job[j].manifest, None}
    BY <1>1, MovedFields, MovedTyped DEF Stage
  <2>2. job' = [job EXCEPT ![j] = r]
    BY <1>5 DEF Goto
  <2> HIDE DEF r
  <2>3. assets["tarball"] = job[j].head
    <3>1. assets["tarball"] \in Commit
      BY <1>5 DEF Accepts, Binds
    <3>2. OwnAssets(assets, j, job[j].attempt, job[j])
      BY <1>1, <1>2 DEF PublishInv, PagesFit, PageBy, PageFits
    <3>3. None \notin Commit /\ Corrupt \notin Commit
      BY ReleaseAssumption
    <3>4. QED BY <3>1, <3>2, <3>3 DEF OwnAssets
  <2>4. Published(j, r)
    BY <1>1, <1>5, <2>1, <2>3 DEF Published, PageBy, StageFits, Publishing, Asset
  <2>5. StageFits(r, r.pc) /\ OwnManifest(j, r) /\ Follows(j, r)
    BY <1>1, <1>3, <2>1 DEF StageFits, OwnManifest, Publishing, Follows
  <2>6. JobFits(j, r)
    BY <2>1, <2>4, <2>5 DEF JobFits
  <2>7. QED BY <1>1, <2>1, <2>2, <2>5, <2>6, JobFitsStep
<1>6. QED BY <1>4, <1>5 DEF CheckPublished

\* The invariant of the publication is kept.
LEMMA PublishStepFits ==
  ASSUME PublishInv, [ReleaseNext]_releaseVars
  PROVE  PublishInv'
<1>1. ReleaseTypeOK' /\ EvidenceTrue'
  BY StepTyped, StepEvidence DEF PublishInv
<1>2. ASSUME job' = job, releases' = releases PROVE PagesFit'
  <2>1. ASSUME NEW j \in Job PROVE JobFits(j, job[j])'
    <3>1. JobFits(j, job'[j])
      BY <1>2 DEF PublishInv, PagesFit
    <3>2. QED BY <1>2, <3>1 DEF JobFits, PageBy, Published
  <2>2. ASSUME NEW v \in Version, NEW j \in Job, NEW n \in Attempt PROVE PageFits(v, j, n)'
    BY <1>2 DEF PublishInv, PagesFit, PageFits
  <2>3. QED BY <2>1, <2>2 DEF PagesFit
<1>3. ASSUME UNCHANGED releaseVars \/ \E v \in Version : DeleteTag(v)
      PROVE  PagesFit'
  <2>1. job' = job /\ releases' = releases
    BY <1>3 DEF releaseVars, DeleteTag
  <2>2. QED BY <1>2, <2>1
<1>4. ASSUME NEW j \in Job, PublishStep(j) PROVE PagesFit'
  BY <1>4, StartFits, PreflightFits, CreateFits, UploadFits, CheckPublishedFits DEF PublishStep
<1>5. ASSUME NEW j \in Job, NEW mode \in {"fast", "core", "validation"},
             NEW hosted \in BOOLEAN, NEW c \in Commit, Start(j, mode, hosted, c)
      PROVE  PagesFit'
  BY <1>5, StartFits DEF Mode
<1>6. ASSUME NEW j \in Job, NEW v \in Version, NEW c \in Commit, PushTag(j, v, c)
      PROVE  PagesFit'
  BY <1>6, StartFits
<1>7. ASSUME NEW j \in Job, CheckStep(j) PROVE PagesFit'
  BY <1>7, CheckFits
<1>8. PagesFit'
  BY <1>3, <1>4, <1>5, <1>6, <1>7 DEF ReleaseNext
<1>9. QED BY <1>1, <1>8 DEF PublishInv

\* No job has run and there is no page.
LEMMA InitFits == ReleaseInit => PublishInv
<1> SUFFICES ASSUME ReleaseInit PROVE PublishInv
  OBVIOUS
<1>1. ReleaseTypeOK /\ EvidenceTrue
  BY InitTyped, InitEvidence
<1>2. \A j \in Job : JobFits(j, Idle)
  BY DEF Idle, Checkout, JobFits, StageFits, OwnManifest, Publishing
<1>3. QED BY <1>1, <1>2 DEF ReleaseInit, PublishInv, PagesFit, PageFits

\* PublishInv is an invariant of the release workflow.
THEOREM PublicationInductive == ReleaseSpec => []PublishInv
BY InitFits, PublishStepFits, PTL DEF ReleaseSpec

\* A release page only has assets of the attempt that created it, whatever jobs
\* race for it (ci.yml: gh release create --verify-tag, upload without --clobber).
THEOREM AssetsAreByCreator == ReleaseSpec => []AssetsByCreator
<1>1. PublishInv => AssetsByCreator
  BY DEF PublishInv, PagesFit, PageFits, OwnAssets, AssetsByCreator
<1>2. QED BY <1>1, PublicationInductive, PTL

\* A tag run that ends green has published its own commit, whole and unchanged,
\* under its version, and the page stays so (ci.yml: preflight, create, upload,
\* the download and verification of what was published).
THEOREM GreenIsPublished == ReleaseSpec => []GreenTagIsPublished
<1>1. PublishInv => GreenTagIsPublished
  <2> SUFFICES ASSUME PublishInv, NEW j \in Job, At(j, "green"), job[j].ref # None
               PROVE  LET v == job[j].ref
                          assets == releases[v].assets
                      IN /\ VersionOf[job[j].head] = v
                         /\ releases[v] # None /\ releases[v].creator = Stamp(j)
                         /\ assets["tarball"] = job[j].head
                         /\ assets["manifest"] \in Manifests
                         /\ Accepts(assets["manifest"], assets["tarball"], assets["summary"])
    BY DEF GreenTagIsPublished
  <2>1. Published(j, job[j]) /\ job[j].ref \in Version
    BY Zenon DEF PublishInv, PagesFit, JobFits, At, ReleaseTypeOK, JobState
  <2>2. releases[job[j].ref].assets["manifest"] \in Manifests
    BY <2>1 DEF Published, PageBy, Manifests
  <2>3. QED BY <2>1, <2>2 DEF Published, PageBy, Stamp
<1>2. QED BY <1>1, PublicationInductive, PTL

-----------------------------------------------------------------------------
(* Tools, workflows and packages *)

Lists == INSTANCE QueueTheorems

Pin == [tool : Tool, sha256 : ToolArchive, format : Format]

Installing ==
  [pc : {"idle", "download", "verify", "extract", "installed", "failed"},
   pin : Pin \cup {NoArchive}, bytes : ToolArchive \cup {NoArchive}, todo : Seq(Member)]

ToolchainTypes ==
  /\ pins \in [Tool -> Pin]
  /\ reviewed \subseteq ToolArchive
  /\ served \in [Tool -> ToolArchive \cup {NoArchive}]
  /\ installer \in Installing

\* What is pinned, by the policy or by an install that has begun, was reviewed.
PinsReviewed ==
  /\ \A t \in Tool : pins[t].sha256 \in reviewed
  /\ installer.pc \in {"download", "verify"} =>
       installer.pin \in Pin /\ installer.pin.sha256 \in reviewed
  /\ installer.pc = "verify" => installer.bytes \in ToolArchive

\* What is unpacked was reviewed and looked at.
UnpacksReviewed ==
  /\ installer.pc = "extract" =>
       /\ installer.bytes \in reviewed
       /\ Safe(installer.bytes)
       /\ \A n \in DOMAIN installer.todo : installer.todo[n] \in Range(installer.bytes.members)
  /\ installer.pc = "installed" => installer.bytes \in reviewed

\* What is on disk where only members of reviewed archives were unpacked.
DiskReviewed ==
  \A path \in DOMAIN disk :
    /\ Inside(path)
    /\ disk[path].type # "link"
    /\ disk[path].type = "file" => Reviewed(path, disk[path].data)

\* The members that have been unpacked are on disk.
UnpackedOnDisk ==
  installer.pc \in {"extract", "installed"} =>
    \A m \in Range(installer.bytes.members) \ Range(installer.todo) :
      /\ m.name \in DOMAIN disk
      /\ disk[m.name] = [type |-> m.type, data |-> m.data]

\* An install is a success when nothing is left to unpack.
NothingLeft == installer.pc = "installed" => installer.todo = << >>

ToolchainInv ==
  /\ ToolchainTypes
  /\ PinsReviewed
  /\ UnpacksReviewed
  /\ DiskReviewed
  /\ UnpackedOnDisk
  /\ NothingLeft

-----------------------------------------------------------------------------
(* Members *)

\* A failed install is one that the installer can be in.
LEMMA FailedTyped ==
  ASSUME installer \in Installing
  PROVE  /\ Failed \in Installing
         /\ Failed.pc = "failed"
<1>1. << >> \in Seq(Member)
  OBVIOUS
<1>2. [installer EXCEPT !.pc = "failed"] \in Installing
  BY DEF Installing
<1>3. Failed = [[installer EXCEPT !.pc = "failed"] EXCEPT !.todo = << >>]
  BY DEF Failed, Installing
<1>4. Failed \in Installing
  BY <1>1, <1>2, <1>3 DEF Installing
<1>5. QED BY <1>4 DEF Failed, Installing

\* And so is none.
LEMMA NoInstallTyped == NoInstall \in Installing /\ NoInstall.pc = "idle"
BY DEF NoInstall, Installing

\* Members are listed in an archive; what is listed is a member.
LEMMA MembersTyped ==
  ASSUME NEW a \in ToolArchive
  PROVE  a.members \in Seq(Member) /\ Range(a.members) \subseteq Member
<1>1. a.members \in Seq(Range(a.members))
  BY ToolchainAssumption
<1>2. Range(a.members) \subseteq Member
  BY DEF Member
<1>3. QED BY <1>1, <1>2

\* Of a safe archive a member is written where its name says, and is no link.
LEMMA SafeMember ==
  ASSUME NEW a \in ToolArchive, Safe(a), NEW m \in Range(a.members)
  PROVE  /\ m \in Member /\ m.type \in {"file", "dir"}
         /\ m.name \in Seq(STRING) /\ Canonical(m.name) /\ Resolve(m.name) = m.name
<1>1. m \in Member
  BY MembersTyped
<1>2. PICK i \in DOMAIN a.members : m = a.members[i]
  BY DEF Range
<1>3. Canonical(m.name) /\ m.type # "link"
  BY <1>2 DEF Safe
<1>4. m.name \in Seq(STRING) /\ m.type \in {"file", "dir", "link"}
  BY <1>1, ToolchainAssumption
<1>5. QED BY <1>1, <1>3, <1>4 DEF Resolve

\* No two members of a safe archive have one name.
LEMMA SafeNamesDiffer ==
  ASSUME NEW a \in ToolArchive, Safe(a), NEW m \in Range(a.members),
         NEW n \in Range(a.members), m.name = n.name
  PROVE  m = n
<1>1. PICK i \in DOMAIN a.members : m = a.members[i]
  BY DEF Range
<1>2. PICK j \in DOMAIN a.members : n = a.members[j]
  BY DEF Range
<1>3. i = j
  BY <1>1, <1>2 DEF Safe
<1>4. QED BY <1>1, <1>2, <1>3

\* A canonical name leads inside, and so do the directories above it.
LEMMA CanonicalInside ==
  ASSUME NEW path \in Seq(STRING), Canonical(path), NEW n \in 1 .. Len(path)
  PROVE  Inside(path) /\ Inside(SubSeq(path, 1, n))
<1>1. Inside(path)
  BY DEF Canonical, Inside, Dots
<1>2. SubSeq(path, 1, n) # << >>
  BY DEF Canonical
<1>3. Range(SubSeq(path, 1, n)) \subseteq Range(path)
  <2>1. ASSUME NEW k \in DOMAIN SubSeq(path, 1, n)
        PROVE  k \in DOMAIN path /\ SubSeq(path, 1, n)[k] = path[k]
    OBVIOUS
  <2>2. QED BY <2>1 DEF Range
<1>4. QED BY <1>1, <1>2, <1>3 DEF Inside

-----------------------------------------------------------------------------
(* What is written *)

\* A member of a reviewed archive, or a part of it, is written: nothing leaves the
\* destination, and what else there is stays.
LEMMA WriteMember ==
  ASSUME ToolchainTypes, DiskReviewed,
         NEW a \in reviewed, Safe(a), NEW m \in Range(a.members),
         NEW d \in {m.data, NoArchive},
         NEW w, w.name = m.name, w.type = m.type, w.data = d,
         disk' = WithMember(w), reviewed' = reviewed
  PROVE  /\ DiskReviewed'
         /\ DOMAIN disk \subseteq DOMAIN disk'
         /\ m.name \in DOMAIN disk'
         /\ disk'[m.name] = [type |-> m.type, data |-> d]
         /\ \A p \in DOMAIN disk \ {m.name} : disk'[p] = disk[p]
<1> DEFINE path == m.name
           above == {SubSeq(path, 1, n) : n \in 1 .. Len(path) - 1} \ DOMAIN disk
<1>1. a \in ToolArchive
  BY DEF ToolchainTypes
<1>2. /\ m.type \in {"file", "dir"}
      /\ path \in Seq(STRING) /\ Canonical(path) /\ Resolve(path) = path
  BY <1>1, SafeMember
<1>3. disk' = [p \in DOMAIN disk \cup above \cup {path} |->
                 IF p = path THEN [type |-> m.type, data |-> d]
                 ELSE IF p \in above THEN [type |-> "dir", data |-> NoArchive]
                 ELSE disk[p]]
  BY <1>2, Zenon DEF WithMember
<1> HIDE DEF above
<1>4. DOMAIN disk' = DOMAIN disk \cup above \cup {path}
  BY <1>3
<1>5. disk'[path] = [type |-> m.type, data |-> d]
  BY <1>3
<1>6. \A p \in DOMAIN disk \ {path} : disk'[p] = disk[p]
  BY <1>3 DEF above
<1>7. \A p \in above : disk'[p] = [type |-> "dir", data |-> NoArchive] \/ p = path
  BY <1>3
<1>8. ASSUME NEW p \in DOMAIN disk'
      PROVE  /\ Inside(p)
             /\ disk'[p].type # "link"
             /\ disk'[p].type = "file" => Reviewed(p, disk'[p].data)
  <2>1. CASE p = path
    <3>1. Inside(p)
      <4>1. path # << >> /\ Len(path) \in 1 .. Len(path)
        BY <1>2 DEF Canonical
      <4>2. QED BY <1>2, <2>1, <4>1, CanonicalInside
    <3>2. disk'[p].type = m.type /\ disk'[p].data = d
      BY <1>5, <2>1
    <3>3. m.type = "file" => Reviewed(p, d)
      BY <2>1 DEF Reviewed
    <3>4. QED BY <1>2, <3>1, <3>2, <3>3
  <2>2. CASE p \in above /\ p # path
    <3>1. PICK n \in 1 .. Len(path) - 1 : p = SubSeq(path, 1, n)
      BY <2>2 DEF above
    <3>2. n \in 1 .. Len(path)
      BY <1>2, <3>1
    <3>3. Inside(p)
      BY <1>2, <3>1, <3>2, CanonicalInside
    <3>4. disk'[p].type = "dir"
      BY <1>7, <2>2
    <3>5. QED BY <3>3, <3>4
  <2>3. CASE p \in DOMAIN disk \ {path}
    BY <1>6, <2>3 DEF DiskReviewed
  <2>4. QED BY <1>4, <2>1, <2>2, <2>3
<1>9. DiskReviewed'
  BY <1>8 DEF DiskReviewed, Reviewed
<1>10. QED BY <1>4, <1>5, <1>6, <1>9

-----------------------------------------------------------------------------
(* Steps *)

\* An empty destination and pins of one reviewed archive are in order.
LEMMA ToolchainInitInv ==
  ASSUME NEW a \in ToolArchive, ToolchainInit(a)
  PROVE  ToolchainInv
<1>1. a.format \in Format
  BY ToolchainAssumption
<1>2. ToolchainTypes
  BY <1>1, NoInstallTyped DEF ToolchainInit, ToolchainTypes, Pin
<1>3. PinsReviewed /\ UnpacksReviewed /\ UnpackedOnDisk /\ NothingLeft
  BY NoInstallTyped DEF ToolchainInit, PinsReviewed, UnpacksReviewed, UnpackedOnDisk, NothingLeft
<1>4. DiskReviewed
  BY DEF ToolchainInit, DiskReviewed
<1>5. QED BY <1>2, <1>3, <1>4 DEF ToolchainInv

\* A step that leaves the disk alone and ends an install that did not succeed, or
\* starts afresh.
LEMMA QuietStep ==
  ASSUME ToolchainInv, UNCHANGED << pins, reviewed, served, disk >>,
         installer' \in Installing, installer'.pc \in {"idle", "failed"}
  PROVE  ToolchainInv'
<1>1. ToolchainTypes' /\ PinsReviewed'
  BY DEF ToolchainInv, ToolchainTypes, PinsReviewed
<1>2. UnpacksReviewed' /\ UnpackedOnDisk' /\ NothingLeft'
  BY DEF UnpacksReviewed, UnpackedOnDisk, NothingLeft
<1>3. DiskReviewed'
  BY DEF ToolchainInv, DiskReviewed, Reviewed
<1>4. QED BY <1>1, <1>2, <1>3 DEF ToolchainInv

\* An install takes the pin of its tool, which was reviewed.
LEMMA BeginStep ==
  ASSUME ToolchainInv, NEW t \in Tool, BeginInstall(t)
  PROVE  ToolchainInv'
<1>1. /\ installer' = [NoInstall EXCEPT !.pc = "download", !.pin = pins[t]]
      /\ UNCHANGED << pins, reviewed, served, disk >>
  BY DEF BeginInstall, Moves
<1>2. pins[t] \in Pin /\ pins[t].sha256 \in reviewed
  BY DEF ToolchainInv, ToolchainTypes, PinsReviewed
<1>3. installer' \in Installing /\ installer'.pc = "download" /\ installer'.pin = pins[t]
  <2>1. << >> \in Seq(Member)
    OBVIOUS
  <2>2. installer' = [pc |-> "download", pin |-> pins[t], bytes |-> NoArchive, todo |-> << >>]
    BY <1>1 DEF NoInstall
  <2>3. QED BY <1>2, <2>1, <2>2 DEF Installing
<1>4. ToolchainTypes' /\ PinsReviewed'
  BY <1>1, <1>2, <1>3 DEF ToolchainInv, ToolchainTypes, PinsReviewed
<1>5. UnpacksReviewed' /\ UnpackedOnDisk' /\ NothingLeft'
  BY <1>3 DEF UnpacksReviewed, UnpackedOnDisk, NothingLeft
<1>6. DiskReviewed'
  BY <1>1 DEF ToolchainInv, DiskReviewed, Reviewed
<1>7. QED BY <1>4, <1>5, <1>6 DEF ToolchainInv

\* Whatever is served is downloaded; it is looked at before it is unpacked.
LEMMA DownloadStep ==
  ASSUME ToolchainInv, Download
  PROVE  ToolchainInv'
<1> DEFINE bytes == served[installer.pin.tool]
<1>1. installer.pc = "download" /\ UNCHANGED << pins, reviewed, served, disk >>
  BY DEF Download
<1>2. installer \in Installing
  BY DEF ToolchainInv, ToolchainTypes
<1>3. installer.pin \in Pin /\ installer.pin.sha256 \in reviewed
  BY <1>1 DEF ToolchainInv, PinsReviewed
<1>4. bytes \in ToolArchive \cup {NoArchive}
  BY <1>3 DEF ToolchainInv, ToolchainTypes, Pin
<1>5. CASE bytes = NoArchive
  <2>1. installer' = Failed
    BY <1>5 DEF Download, Moves
  <2>2. QED BY <1>1, <1>2, <2>1, FailedTyped, QuietStep
<1>6. CASE bytes # NoArchive
  <2>1. installer' = [installer EXCEPT !.pc = "verify", !.bytes = bytes]
    BY <1>6 DEF Download, Moves
  <2>2. /\ installer' \in Installing /\ installer'.pc = "verify"
        /\ installer'.pin = installer.pin /\ installer'.bytes \in ToolArchive
    BY <1>2, <1>4, <1>6, <2>1 DEF Installing
  <2>3. ToolchainTypes' /\ PinsReviewed'
    BY <1>1, <1>3, <2>2 DEF ToolchainInv, ToolchainTypes, PinsReviewed
  <2>4. UnpacksReviewed' /\ UnpackedOnDisk' /\ NothingLeft'
    BY <2>2 DEF UnpacksReviewed, UnpackedOnDisk, NothingLeft
  <2>5. DiskReviewed'
    BY <1>1 DEF ToolchainInv, DiskReviewed, Reviewed
  <2>6. QED BY <2>3, <2>4, <2>5 DEF ToolchainInv
<1>7. QED BY <1>5, <1>6

\* What is unpacked has the pinned digest, so it was reviewed, and is safe.
LEMMA VerifyStep ==
  ASSUME ToolchainInv, VerifyDigest
  PROVE  ToolchainInv'
<1> DEFINE pin == installer.pin
           bytes == installer.bytes
           fits == bytes = pin.sha256 /\ bytes.format = pin.format /\ Safe(bytes)
<1>1. installer.pc = "verify" /\ UNCHANGED << pins, reviewed, served, disk >>
  BY DEF VerifyDigest
<1>2. installer \in Installing /\ bytes \in ToolArchive /\ pin.sha256 \in reviewed
  BY <1>1 DEF ToolchainInv, ToolchainTypes, PinsReviewed
<1>3. CASE ~ fits
  <2>1. installer' = Failed
    BY <1>3 DEF VerifyDigest, Moves
  <2>2. QED BY <1>1, <1>2, <2>1, FailedTyped, QuietStep
<1>4. CASE fits
  <2>1. installer' = [installer EXCEPT !.pc = "extract", !.todo = bytes.members]
    BY <1>4 DEF VerifyDigest, Moves
  <2>2. bytes.members \in Seq(Member)
    BY <1>2, MembersTyped
  <2>3. /\ installer' \in Installing /\ installer'.pc = "extract"
        /\ installer'.bytes = bytes /\ installer'.todo = bytes.members
    BY <1>2, <2>1, <2>2 DEF Installing
  <2>4. bytes \in reviewed' /\ Safe(bytes)
    BY <1>1, <1>2, <1>4
  <2>5. ToolchainTypes' /\ PinsReviewed'
    BY <1>1, <2>3 DEF ToolchainInv, ToolchainTypes, PinsReviewed
  <2>6. UnpacksReviewed'
    BY <2>3, <2>4 DEF UnpacksReviewed, Range
  <2>7. UnpackedOnDisk' /\ NothingLeft'
    BY <2>3 DEF UnpackedOnDisk, NothingLeft
  <2>8. DiskReviewed'
    BY <1>1 DEF ToolchainInv, DiskReviewed, Reviewed
  <2>9. QED BY <2>5, <2>6, <2>7, <2>8 DEF ToolchainInv
<1>5. QED BY <1>3, <1>4

\* Unpacking a member puts it on disk and does not undo what is there.
LEMMA ExtractStep ==
  ASSUME ToolchainInv, ExtractMember
  PROVE  ToolchainInv'
<1> DEFINE m == Head(installer.todo)
           a == installer.bytes
<1>1. /\ installer.pc = "extract" /\ installer.todo # << >>
      /\ UNCHANGED << pins, reviewed, served >>
  BY DEF ExtractMember
<1>2. installer \in Installing /\ installer.todo \in Seq(Member)
  BY DEF ToolchainInv, ToolchainTypes, Installing
<1>3. a \in reviewed /\ Safe(a) /\ a \in ToolArchive
  BY <1>1 DEF ToolchainInv, ToolchainTypes, UnpacksReviewed
<1>4. \A n \in DOMAIN installer.todo : installer.todo[n] \in Range(a.members)
  BY <1>1 DEF ToolchainInv, UnpacksReviewed
<1>5. m = installer.todo[1] /\ 1 \in DOMAIN installer.todo
  BY <1>1, <1>2
<1>6. m \in Range(a.members)
  BY <1>4, <1>5
<1>7. CASE ~ Writable(Resolve(m.name), m.type)
  <2>1. installer' = Failed /\ disk' = disk
    BY <1>7 DEF ExtractMember, Moves
  <2>2. QED BY <1>1, <1>2, <2>1, FailedTyped, QuietStep
<1>8. CASE Writable(Resolve(m.name), m.type)
  <2>1. installer' = [installer EXCEPT !.todo = Tail(@)] /\ disk' = WithMember(m)
    BY <1>8 DEF ExtractMember, Moves
  <2>2. Tail(installer.todo) \in Seq(Member)
    BY <1>1, <1>2
  <2>3. /\ installer' \in Installing /\ installer'.pc = "extract"
        /\ installer'.bytes = a /\ installer'.todo = Tail(installer.todo)
    BY <1>1, <1>2, <2>1, <2>2 DEF Installing
  <2>4. ToolchainTypes' /\ PinsReviewed'
    BY <1>1, <2>3 DEF ToolchainInv, ToolchainTypes, PinsReviewed
  <2>5. \A n \in DOMAIN Tail(installer.todo) : Tail(installer.todo)[n] \in Range(a.members)
    BY <1>1, <1>2, <1>4
  <2>6. UnpacksReviewed'
    BY <1>1, <1>3, <2>3, <2>5 DEF UnpacksReviewed
  <2>7. /\ DiskReviewed'
        /\ DOMAIN disk \subseteq DOMAIN disk'
        /\ m.name \in DOMAIN disk'
        /\ disk'[m.name] = [type |-> m.type, data |-> m.data]
        /\ \A p \in DOMAIN disk \ {m.name} : disk'[p] = disk[p]
    BY <1>1, <1>3, <1>6, <2>1, WriteMember DEF ToolchainInv
  <2>8. Range(installer.todo) \subseteq Range(Tail(installer.todo)) \cup {m}
    <3>1. ASSUME NEW n \in DOMAIN installer.todo, n # 1
          PROVE  /\ n - 1 \in DOMAIN Tail(installer.todo)
                 /\ Tail(installer.todo)[n - 1] = installer.todo[n]
      <4>1. n \in 1 .. Len(installer.todo) /\ n - 1 \in 1 .. Len(installer.todo) - 1
        BY <1>2, <3>1
      <4>2. Len(Tail(installer.todo)) = Len(installer.todo) - 1
        BY <1>1, <1>2
      <4>3. QED BY <1>1, <1>2, <4>1, <4>2
    <3>2. QED BY <1>5, <3>1 DEF Range
  <2>9. ASSUME NEW k \in Range(a.members) \ Range(Tail(installer.todo))
        PROVE  k.name \in DOMAIN disk' /\ disk'[k.name] = [type |-> k.type, data |-> k.data]
    <3>1. CASE k = m
      BY <2>7, <3>1
    <3>2. CASE k # m
      <4>1. k.name \in DOMAIN disk /\ disk[k.name] = [type |-> k.type, data |-> k.data]
        BY <1>1, <2>8, <3>2 DEF ToolchainInv, UnpackedOnDisk
      <4>2. k.name # m.name
        BY <1>3, <1>6, <3>2, SafeNamesDiffer
      <4>3. QED BY <2>7, <4>1, <4>2
    <3>3. QED BY <3>1, <3>2
  <2>10. UnpackedOnDisk' /\ NothingLeft'
    BY <2>3, <2>9 DEF UnpackedOnDisk, NothingLeft
  <2>11. QED BY <2>4, <2>6, <2>7, <2>10 DEF ToolchainInv
<1>9. QED BY <1>7, <1>8

\* A kill within a file leaves a part of a reviewed file, and no success.
LEMMA CutStep ==
  ASSUME ToolchainInv, CutShort
  PROVE  ToolchainInv'
<1> DEFINE m == Head(installer.todo)
           a == installer.bytes
           w == [m EXCEPT !.data = NoArchive]
<1>1. /\ installer.pc = "extract" /\ installer.todo # << >>
      /\ installer' = Failed /\ disk' = WithMember(w)
      /\ UNCHANGED << pins, reviewed, served >>
  BY DEF CutShort
<1>2. installer \in Installing /\ installer.todo \in Seq(Member)
  BY DEF ToolchainInv, ToolchainTypes, Installing
<1>3. a \in reviewed /\ Safe(a)
  BY <1>1 DEF ToolchainInv, UnpacksReviewed
<1>4. m \in Range(a.members)
  BY <1>1, <1>2 DEF ToolchainInv, UnpacksReviewed
<1>5. w.name = m.name /\ w.type = m.type /\ w.data = NoArchive
  <2>1. m \in Member
    BY <1>1, <1>2
  <2>2. DOMAIN m = {"name", "type", "data"}
    BY <2>1, ToolchainAssumption
  <2>3. QED BY <2>2
<1>6. DiskReviewed'
  BY <1>1, <1>3, <1>4, <1>5, WriteMember DEF ToolchainInv
<1>7. installer' \in Installing /\ installer'.pc = "failed"
  BY <1>1, <1>2, FailedTyped
<1>8. ToolchainTypes' /\ PinsReviewed'
  BY <1>1, <1>7 DEF ToolchainInv, ToolchainTypes, PinsReviewed
<1>9. UnpacksReviewed' /\ UnpackedOnDisk' /\ NothingLeft'
  BY <1>7 DEF UnpacksReviewed, UnpackedOnDisk, NothingLeft
<1>10. QED BY <1>6, <1>8, <1>9 DEF ToolchainInv

\* Success is claimed when nothing is left to unpack.
LEMMA FinishStep ==
  ASSUME ToolchainInv, FinishInstall
  PROVE  ToolchainInv'
<1>1. /\ installer.pc = "extract" /\ installer.todo = << >>
      /\ UNCHANGED << pins, reviewed, served, disk >>
  BY DEF FinishInstall, Moves
<1>2. installer \in Installing
  BY DEF ToolchainInv, ToolchainTypes
<1>3. CASE installer' = Failed
  BY <1>1, <1>2, <1>3, FailedTyped, QuietStep
<1>4. CASE installer' = [installer EXCEPT !.pc = "installed"]
  <2>1. /\ installer' \in Installing /\ installer'.pc = "installed"
        /\ installer'.bytes = installer.bytes /\ installer'.todo = installer.todo
    BY <1>2, <1>4 DEF Installing
  <2>2. ToolchainTypes' /\ PinsReviewed'
    BY <1>1, <2>1 DEF ToolchainInv, ToolchainTypes, PinsReviewed
  <2>3. UnpacksReviewed' /\ NothingLeft'
    BY <1>1, <2>1 DEF ToolchainInv, UnpacksReviewed, NothingLeft
  <2>4. UnpackedOnDisk'
    BY <1>1, <2>1 DEF ToolchainInv, UnpackedOnDisk
  <2>5. DiskReviewed'
    BY <1>1 DEF ToolchainInv, DiskReviewed, Reviewed
  <2>6. QED BY <2>2, <2>3, <2>4, <2>5 DEF ToolchainInv
<1>5. QED BY <1>3, <1>4 DEF FinishInstall, Moves

\* What upstream serves does not touch an install.
LEMMA ServeStep ==
  ASSUME ToolchainInv, NEW t \in Tool, NEW a \in ToolArchive \cup {NoArchive}, Serve(t, a)
  PROVE  ToolchainInv'
<1>1. UNCHANGED << pins, reviewed, disk, installer >> /\ served' = [served EXCEPT ![t] = a]
  BY DEF Serve
<1>2. ToolchainTypes' /\ PinsReviewed'
  BY <1>1 DEF ToolchainInv, ToolchainTypes, PinsReviewed
<1>3. UnpacksReviewed' /\ UnpackedOnDisk' /\ NothingLeft'
  BY <1>1 DEF ToolchainInv, UnpacksReviewed, UnpackedOnDisk, NothingLeft
<1>4. DiskReviewed'
  BY <1>1 DEF ToolchainInv, DiskReviewed, Reviewed
<1>5. QED BY <1>2, <1>3, <1>4 DEF ToolchainInv

\* A new pin is that of an archive reviewed with it.
LEMMA PinStep ==
  ASSUME ToolchainInv, NEW t \in Tool, PinTool(t)
  PROVE  ToolchainInv'
<1> DEFINE pin == [tool |-> t, sha256 |-> served[t], format |-> served[t].format]
<1>1. /\ UNCHANGED << served, disk, installer >>
      /\ pins' = [pins EXCEPT ![t] = pin] /\ reviewed' = reviewed \cup {served[t]}
  BY DEF PinTool
<1>2. served[t] \in ToolArchive
  BY DEF PinTool, ToolchainInv, ToolchainTypes
<1>3. pin \in Pin
  BY <1>2, ToolchainAssumption DEF Pin
<1>4. ToolchainTypes'
  BY <1>1, <1>2, <1>3 DEF ToolchainInv, ToolchainTypes
<1>5. PinsReviewed'
  BY <1>1 DEF ToolchainInv, ToolchainTypes, PinsReviewed
<1>6. UnpacksReviewed' /\ UnpackedOnDisk' /\ NothingLeft'
  BY <1>1 DEF ToolchainInv, UnpacksReviewed, UnpackedOnDisk, NothingLeft
<1>7. DiskReviewed'
  BY <1>1 DEF ToolchainInv, DiskReviewed, Reviewed
<1>8. QED BY <1>4, <1>5, <1>6, <1>7 DEF ToolchainInv

\* The invariant survives every step of an install and around it.
LEMMA ToolchainStep ==
  ASSUME ToolchainInv, [InstallNext \/ UpstreamNext]_toolVars
  PROVE  ToolchainInv'
<1>1. CASE UNCHANGED toolVars
  BY <1>1 DEF toolVars, ToolchainInv, ToolchainTypes, PinsReviewed, UnpacksReviewed,
              DiskReviewed, Reviewed, UnpackedOnDisk, NothingLeft
<1>2. CASE \E t \in Tool : BeginInstall(t)
  BY <1>2, BeginStep
<1>3. CASE Download
  BY <1>3, DownloadStep
<1>4. CASE VerifyDigest
  BY <1>4, VerifyStep
<1>5. CASE ExtractMember
  BY <1>5, ExtractStep
<1>6. CASE FinishInstall
  BY <1>6, FinishStep
<1>7. CASE KillInstall
  <2>1. installer \in Installing
    BY DEF ToolchainInv, ToolchainTypes
  <2>2. QED BY <1>7, <2>1, FailedTyped, QuietStep DEF KillInstall
<1>8. CASE CutShort
  BY <1>8, CutStep
<1>9. CASE AgainInstall
  BY <1>9, NoInstallTyped, QuietStep DEF AgainInstall
<1>10. CASE UpstreamNext
  BY <1>10, ServeStep, PinStep DEF UpstreamNext
<1>11. QED
  BY <1>1, <1>2, <1>3, <1>4, <1>5, <1>6, <1>7, <1>8, <1>9, <1>10 DEF InstallNext

\* Whatever upstream serves, whatever is pinned next and wherever installs are cut
\* short, install_ci_tool.py writes nothing but files of reviewed archives, inside
\* the destination, and reports success only over a whole reviewed archive.
THEOREM VerifiedInstalls == ToolchainSpec => []VerifiedBytesOnly
<1>1. (\E a \in ToolArchive : ToolchainInit(a)) => ToolchainInv
  BY ToolchainInitInv
<1>2. ToolchainInv /\ [InstallNext \/ UpstreamNext]_toolVars => ToolchainInv'
  BY ToolchainStep
<1>3. ToolchainInv => VerifiedBytesOnly
  <2>1. SUFFICES ASSUME ToolchainInv PROVE VerifiedBytesOnly
    OBVIOUS
  <2>2. Range(<< >>) = {}
    BY DEF Range
  <2>3. ASSUME installer.pc = "installed"
        PROVE  /\ installer.bytes \in reviewed
               /\ \A m \in Range(installer.bytes.members) :
                    m.name \in DOMAIN disk /\ disk[m.name] = [type |-> m.type, data |-> m.data]
    <3>1. installer.todo = << >>
      BY <2>1, <2>3 DEF ToolchainInv, NothingLeft
    <3>2. \A m \in Range(installer.bytes.members) :
            m \in Range(installer.bytes.members) \ Range(installer.todo)
      BY <2>2, <3>1
    <3>3. QED BY <2>1, <2>3, <3>2 DEF ToolchainInv, UnpacksReviewed, UnpackedOnDisk
  <2>4. QED BY <2>1, <2>3 DEF ToolchainInv, DiskReviewed, VerifiedBytesOnly
<1>4. QED BY <1>1, <1>2, <1>3, PTL DEF ToolchainSpec

-----------------------------------------------------------------------------
(* Hosted runs *)

WorkflowStep ==
  [does : {"checkout", "install", "gate", "guard", "upload", "run", "fetch"},
   when : {"success", "push", "always", "never"}, tolerant : BOOLEAN, exact : BOOLEAN,
   ref : ActionCommit \cup {Tag, Nothing}]

WorkflowText ==
  [triggers : SUBSET Event, controls : {"none", "disabled", "error-tolerant"},
   gate : Seq(WorkflowStep), side : Seq(WorkflowStep)]

SupplyPolicy ==
  [workflow_sha256 : WorkflowText, actions : [Action -> ActionCommit \cup {Tag}],
   lean : LeanVersion]

HostedJob == [pc : Nat, failed : BOOLEAN]

Portion == {"none", "partial", "complete"}

HostedRun ==
  [event : Event \cup {"none"}, artifact : Portion,
   ran : SUBSET ((Action \cup {"unreviewed"}) \X (ActionCommit \cup {Tag, Nothing})),
   gated : SUBSET LeanVersion, gate : HostedJob, side : HostedJob, evidence : Portion,
   lean : LeanVersion \cup {Nothing}]

WorkflowTypes ==
  /\ workflow \in WorkflowText
  /\ policy \in SupplyPolicy
  /\ selector \in LeanVersion
  /\ upstream \in [Action -> ActionCommit]
  /\ run \in HostedRun

\* What the validator has seen to if the guard is step g of the gate job: which steps
\* guard and upload, that both do, and that no other code is fetched than is pinned.
Audited(g) ==
  /\ g \in Nat /\ g >= 1 /\ g + 1 <= Len(workflow.gate)
  /\ \A n \in {g, g + 1} : /\ workflow.gate[n].when = "push" /\ workflow.gate[n].exact
                           /\ ~ workflow.gate[n].tolerant
  /\ \A j \in WorkflowJob, n \in Nat : n \in DOMAIN workflow[j] =>
       /\ workflow[j][n].does = "guard" <=> j = "gate" /\ n = g
       /\ workflow[j][n].does = "upload" <=> j = "gate" /\ n = g + 1
       /\ workflow[j][n].does # "fetch"
       /\ workflow[j][n].does \in {"checkout", "upload"} =>
            LET a == ActionOf(workflow[j][n].does) IN
            a \in Action /\ workflow[j][n].ref = policy.actions[a] /\ policy.actions[a] # Tag
  /\ workflow.triggers = Event /\ workflow.controls = "none" /\ policy.lean = selector

\* A run of such a workflow on its way: past the guard a push that goes well has all
\* of the evidence, past the upload the artifact has.
OnCourse(g) ==
  LET well == run.event = "push" /\ ~ run.gate.failed IN
  /\ run.gate.pc >= 1
  /\ well /\ run.gate.pc = g + 1 => run.evidence = "complete"
  /\ well /\ run.gate.pc > g + 1 => run.artifact = "complete"
  /\ run.artifact # "none" => run.event = "push" /\ run.artifact = "complete"
  /\ run.ran \subseteq {<< a, policy.actions[a] >> : a \in Action}
  /\ run.gated \subseteq {selector}
  /\ run.lean \in {Nothing, policy.lean}

HostedInv ==
  /\ WorkflowTypes
  /\ run.event = "none" => run = NoRun
  /\ \A g : run.event # "none" /\ Audited(g) => OnCourse(g)

\* Removing a step, inserting one and moving one up leave a list of steps.
LEMMA ListEdits ==
  ASSUME NEW S, NEW q \in Seq(S), NEW i \in DOMAIN q, NEW e \in S
  PROVE  /\ RemoveAt(q, i) \in Seq(S)
         /\ InsertAt(q, i, e) \in Seq(S)
         /\ i > 1 => InsertAt(RemoveAt(q, i), i - 1, e) \in Seq(S)
         /\ Append(q, e) \in Seq(S)
         /\ [q EXCEPT ![i] = e] \in Seq(S)
<1>1. i \in Nat /\ i >= 1 /\ i <= Len(q) /\ Len(q) \in Nat
  OBVIOUS
<1>2. ASSUME NEW p \in Seq(S), NEW a \in 1 .. Len(p) + 1, NEW b \in 0 .. Len(p)
      PROVE  SubSeq(p, a, b) \in Seq(S) /\ Len(SubSeq(p, a, b)) = IF a <= b THEN b - a + 1 ELSE 0
  BY SubSeqProperties
<1>3. << e >> \in Seq(S) /\ Append(q, e) \in Seq(S) /\ [q EXCEPT ![i] = e] \in Seq(S)
  OBVIOUS
<1>4. ASSUME NEW p \in Seq(S), NEW k \in Nat, 1 <= k, k <= Len(p) + 1
      PROVE  InsertAt(p, k, e) \in Seq(S)
  <2>1. SubSeq(p, 1, k - 1) \in Seq(S) /\ SubSeq(p, k, Len(p)) \in Seq(S)
    BY <1>2, <1>4
  <2>2. QED BY <1>3, <2>1 DEF InsertAt
<1>5. RemoveAt(q, i) \in Seq(S) /\ Len(RemoveAt(q, i)) = Len(q) - 1
  <2>1. /\ SubSeq(q, 1, i - 1) \in Seq(S) /\ Len(SubSeq(q, 1, i - 1)) = i - 1
        /\ SubSeq(q, i + 1, Len(q)) \in Seq(S) /\ Len(SubSeq(q, i + 1, Len(q))) = Len(q) - i
    BY <1>1, <1>2
  <2>2. PICK a, b : a = SubSeq(q, 1, i - 1) /\ b = SubSeq(q, i + 1, Len(q))
    OBVIOUS
  <2>3. a \o b \in Seq(S) /\ Len(a \o b) = Len(a) + Len(b)
    BY <2>1, <2>2
  <2>4. RemoveAt(q, i) = a \o b
    BY <2>2 DEF RemoveAt
  <2>5. PICK k, l \in Nat : k = i /\ l = Len(q) /\ k <= l
    BY <1>1
  <2>6. PICK x, y : x = Len(a) /\ y = Len(b) /\ x = k - 1 /\ y = l - k
    BY <2>1, <2>2, <2>5
  <2>7. k \in Nat /\ l \in Nat
    OBVIOUS
  <2>8. x + y = l - 1
    BY ONLY <2>6, <2>7
  <2>9. QED BY <2>3, <2>4, <2>5, <2>6, <2>8
<1>6. InsertAt(q, i, e) \in Seq(S)
  BY <1>1, <1>4
<1>7. i > 1 => InsertAt(RemoveAt(q, i), i - 1, e) \in Seq(S)
  BY <1>1, <1>4, <1>5
<1>8. QED BY <1>3, <1>5, <1>6, <1>7

\* A new list for one job, and then for the other, leaves a workflow.
LEMMA JobEdit ==
  ASSUME NEW w \in WorkflowText, NEW j \in WorkflowJob, NEW q \in Seq(WorkflowStep)
  PROVE  [w EXCEPT ![j] = q] \in WorkflowText
<1>1. CASE j = "gate"
  BY <1>1 DEF WorkflowText
<1>2. CASE j = "side"
  BY <1>2 DEF WorkflowText
<1>3. QED BY <1>1, <1>2 DEF WorkflowJob

\* The steps of a workflow are steps.
LEMMA JobStepTyped ==
  ASSUME workflow \in WorkflowText, NEW s \in Steps
  PROVE  /\ s[1] \in WorkflowJob /\ workflow[s[1]] \in Seq(WorkflowStep)
         /\ s[2] \in DOMAIN workflow[s[1]] /\ StepAt(s) = workflow[s[1]][s[2]]
         /\ StepAt(s) \in WorkflowStep
<1>1. s[1] \in WorkflowJob /\ s[2] \in DOMAIN workflow[s[1]]
  BY DEF Steps
<1>2. workflow[s[1]] \in Seq(WorkflowStep)
  <2>1. workflow["gate"] \in Seq(WorkflowStep) /\ workflow["side"] \in Seq(WorkflowStep)
    BY DEF WorkflowText
  <2>2. QED BY <1>1, <2>1 DEF WorkflowJob
<1>3. QED BY <1>1, <1>2 DEF StepAt

\* Whatever is edited in a workflow, it stays one.
LEMMA EditTyped ==
  ASSUME workflow \in WorkflowText, NEW s \in Steps, EditStep(s)
  PROVE  workflow' \in WorkflowText
<1> DEFINE q == workflow[s[1]]
           e == StepAt(s)
<1>1. /\ s[1] \in WorkflowJob /\ q \in Seq(WorkflowStep) /\ s[2] \in DOMAIN q
      /\ e \in WorkflowStep
  BY JobStepTyped
<1>2. \A p \in Seq(WorkflowStep) : [workflow EXCEPT ![s[1]] = p] \in WorkflowText
  BY <1>1, JobEdit
<1>3. CASE \E step \in WorkflowStep : workflow' = [workflow EXCEPT ![s[1]][s[2]] = step]
  <2>1. PICK step \in WorkflowStep : workflow' = [workflow EXCEPT ![s[1]] = [q EXCEPT ![s[2]] = step]]
    BY <1>3
  <2>2. [q EXCEPT ![s[2]] = step] \in Seq(WorkflowStep)
    BY <1>1, ListEdits
  <2>3. QED BY <1>2, <2>1, <2>2
<1>4. CASE workflow' = [workflow EXCEPT ![s[1]] = RemoveAt(@, s[2])]
  <2>1. RemoveAt(q, s[2]) \in Seq(WorkflowStep)
    BY <1>1, ListEdits
  <2>2. QED BY <1>2, <1>4, <2>1
<1>5. CASE workflow' = [workflow EXCEPT ![s[1]] = InsertAt(@, s[2], StepAt(s))]
  <2>1. InsertAt(q, s[2], e) \in Seq(WorkflowStep)
    BY <1>1, ListEdits
  <2>2. QED BY <1>2, <1>5, <2>1
<1>6. CASE /\ s[2] > 1
           /\ workflow' = [workflow EXCEPT ![s[1]] = InsertAt(RemoveAt(@, s[2]), s[2] - 1, StepAt(s))]
  <2>1. InsertAt(RemoveAt(q, s[2]), s[2] - 1, e) \in Seq(WorkflowStep)
    BY <1>1, <1>6, ListEdits
  <2>2. QED BY <1>2, <1>6, <2>1
<1>7. CASE /\ s[1] = "gate"
           /\ workflow' = [workflow EXCEPT !.gate = RemoveAt(@, s[2]), !.side = Append(@, StepAt(s))]
  <2>1. RemoveAt(workflow.gate, s[2]) \in Seq(WorkflowStep)
    BY <1>1, <1>7, ListEdits
  <2>2. Append(workflow.side, e) \in Seq(WorkflowStep)
    BY <1>1 DEF WorkflowText
  <2>3. QED BY <1>7, <2>1, <2>2 DEF WorkflowText
<1>8. ASSUME NEW step, step \in
               {[StepAt(s) EXCEPT !.when = w] : w \in {"success", "push", "always", "never"}} \cup
               {[StepAt(s) EXCEPT !.tolerant = TRUE], [StepAt(s) EXCEPT !.exact = FALSE],
                [StepAt(s) EXCEPT !.does = "fetch"]} \cup
               {[StepAt(s) EXCEPT !.ref = r] :
                  r \in IF StepAt(s).ref = Nothing THEN {} ELSE ActionCommit \cup {Tag}}
      PROVE  step \in WorkflowStep
  <2> DEFINE d == e
  <2>1. ASSUME NEW w \in {"success", "push", "always", "never"}
        PROVE  [e EXCEPT !.when = w] \in WorkflowStep
    BY <1>1 DEF WorkflowStep
  <2>2. [e EXCEPT !.tolerant = TRUE] \in WorkflowStep /\ [e EXCEPT !.exact = FALSE] \in WorkflowStep
    BY <1>1 DEF WorkflowStep
  <2>3. [e EXCEPT !.does = "fetch"] \in WorkflowStep
    BY <1>1 DEF WorkflowStep
  <2>4. ASSUME NEW r \in ActionCommit \cup {Tag}
        PROVE  [e EXCEPT !.ref = r] \in WorkflowStep
    BY <1>1 DEF WorkflowStep
  <2>5. QED BY <1>8, <2>1, <2>2, <2>3, <2>4
<1>9. QED BY <1>3, <1>4, <1>5, <1>6, <1>7, <1>8 DEF EditStep

\* Edits of the repository and upstream keep the types, and do not touch a run.
LEMMA RepositoryTyped ==
  ASSUME WorkflowTypes,
         \/ EditRepository
         \/ ApproveWorkflow
         \/ \E a \in Action, c \in ActionCommit : MoveTag(a, c)
  PROVE  WorkflowTypes' /\ run' = run
<1>1. ASSUME NEW s \in Steps, EditStep(s) PROVE WorkflowTypes' /\ run' = run
  BY <1>1, EditTyped DEF WorkflowTypes, EditStep
<1>2. CASE EditJob
  <2>1. workflow' \in WorkflowText
    BY <1>2 DEF EditJob, WorkflowTypes, WorkflowText
  <2>2. QED BY <1>2, <2>1 DEF EditJob, WorkflowTypes
<1>3. CASE ApproveWorkflow
  <2>1. policy' = [policy EXCEPT !.workflow_sha256 = workflow]
    BY <1>3 DEF ApproveWorkflow
  <2>2. policy' \in SupplyPolicy
    BY <2>1 DEF WorkflowTypes, SupplyPolicy
  <2>3. QED BY <1>3, <2>2 DEF ApproveWorkflow, WorkflowTypes
<1>4. ASSUME NEW a \in Action, ReviewUpdate(a) PROVE WorkflowTypes' /\ run' = run
  <2>1. PICK ref \in {upstream[a], Tag} : policy' = [policy EXCEPT !.actions[a] = ref]
    BY <1>4 DEF ReviewUpdate
  <2>2. ref \in ActionCommit \cup {Tag}
    BY <2>1 DEF WorkflowTypes
  <2>3. PICK f : f = [policy.actions EXCEPT ![a] = ref]
    OBVIOUS
  <2>4. f \in [Action -> ActionCommit \cup {Tag}]
    BY <2>2, <2>3 DEF WorkflowTypes, SupplyPolicy
  <2>5. policy' = [policy EXCEPT !.actions = f]
    BY <2>1, <2>3
  <2>6. policy' \in SupplyPolicy
    BY <2>4, <2>5 DEF WorkflowTypes, SupplyPolicy
  <2>7. QED BY <1>4, <2>6 DEF ReviewUpdate, WorkflowTypes
<1>5. ASSUME NEW v \in LeanVersion, BumpLean(v) PROVE WorkflowTypes' /\ run' = run
  BY <1>5 DEF BumpLean, WorkflowTypes, SupplyPolicy
<1>6. ASSUME NEW a \in Action, NEW c \in ActionCommit, MoveTag(a, c)
      PROVE  WorkflowTypes' /\ run' = run
  BY <1>6 DEF MoveTag, WorkflowTypes
<1>7. QED BY <1>1, <1>2, <1>3, <1>4, <1>5, <1>6 DEF EditRepository

-----------------------------------------------------------------------------
(* A step of a run *)

\* Both fields of a job's state are set.
LEMMA JobSet ==
  ASSUME NEW x \in HostedJob, NEW p \in Nat, NEW f \in BOOLEAN
  PROVE  [[x EXCEPT !.pc = p] EXCEPT !.failed = f] = [pc |-> p, failed |-> f]
<1>1. PICK y : y = [x EXCEPT !.pc = p]
  OBVIOUS
<1>2. DOMAIN x = {"pc", "failed"}
  BY DEF HostedJob
<1>3. DOMAIN y = {"pc", "failed"} /\ y.pc = p
  BY <1>1, <1>2
<1>4. PICK z : z = [y EXCEPT !.failed = f]
  OBVIOUS
<1>5. DOMAIN z = {"pc", "failed"} /\ z.pc = p /\ z.failed = f
  BY <1>3, <1>4
<1>6. z = [n \in {"pc", "failed"} |-> IF n = "pc" THEN p ELSE f]
  <2>1. z = [n \in DOMAIN z |-> z[n]]
    BY <1>4
  <2>2. QED BY <1>5, <2>1
<1>7. [pc |-> p, failed |-> f] = [n \in {"pc", "failed"} |-> IF n = "pc" THEN p ELSE f]
  OBVIOUS
<1>8. QED BY <1>1, <1>4, <1>6, <1>7

\* What Stepped makes of a run: the job it is a step of is one step further, and has
\* failed if it had or if the step fails and is not tolerated.
LEMMA SteppedRun ==
  ASSUME WorkflowTypes, NEW j \in WorkflowJob, NEW r \in HostedRun, NEW fails \in BOOLEAN,
         Running(j), Stepped(j, r, fails)
  PROVE  /\ run' \in HostedRun
         /\ run'.event = r.event /\ run'.artifact = r.artifact /\ run'.ran = r.ran
         /\ run'.gated = r.gated /\ run'.evidence = r.evidence /\ run'.lean = r.lean
         /\ run'.gate = IF j = "gate"
                        THEN [pc |-> r.gate.pc + 1,
                              failed |-> r.gate.failed \/ (fails /\ ~ NextStep("gate").tolerant)]
                        ELSE r.gate
         /\ UNCHANGED << workflow, policy, selector, upstream >>
<1>1. NextStep(j) \in WorkflowStep
  <2>1. run[j].pc \in DOMAIN workflow[j] /\ workflow[j] \in Seq(WorkflowStep)
    BY DEF Running, WorkflowTypes, WorkflowText, WorkflowJob
  <2>2. QED BY <2>1 DEF NextStep
<1>2. PICK b \in BOOLEAN : b = (fails /\ ~ NextStep(j).tolerant)
  OBVIOUS
<1>3. r[j] \in HostedJob
  BY DEF HostedRun, WorkflowJob
<1>4. PICK p \in Nat, f \in BOOLEAN : p = r[j].pc + 1 /\ f = (r[j].failed \/ b)
  BY <1>3 DEF HostedJob
<1>5. run' = [[r EXCEPT ![j].pc = p] EXCEPT ![j].failed = f]
  BY <1>2, <1>4 DEF Stepped
<1>6. PICK c \in HostedJob : c = [pc |-> p, failed |-> f]
  BY DEF HostedJob
<1>7. UNCHANGED << workflow, policy, selector, upstream >>
  BY DEF Stepped
<1>8. CASE j = "gate"
  <2>1. run' = [r EXCEPT !.gate = c]
    <3>1. r.gate \in HostedJob
      BY DEF HostedRun
    <3>2. [[r.gate EXCEPT !.pc = p] EXCEPT !.failed = f] = c
      BY <1>6, <3>1, JobSet
    <3>3. run' = [r EXCEPT !.gate = [[r.gate EXCEPT !.pc = p] EXCEPT !.failed = f]]
      BY <1>5, <1>8 DEF HostedRun
    <3>4. QED BY <3>2, <3>3
  <2>2. /\ run' \in HostedRun /\ run'.gate = c
        /\ run'.event = r.event /\ run'.artifact = r.artifact /\ run'.ran = r.ran
        /\ run'.gated = r.gated /\ run'.evidence = r.evidence /\ run'.lean = r.lean
    BY <1>6, <2>1 DEF HostedRun
  <2>3. c = [pc |-> r.gate.pc + 1,
             failed |-> r.gate.failed \/ (fails /\ ~ NextStep("gate").tolerant)]
    BY <1>2, <1>4, <1>6, <1>8
  <2>4. QED BY <1>7, <1>8, <2>2, <2>3
<1>9. CASE j = "side"
  <2>1. run' = [r EXCEPT !.side = c]
    <3>1. r.side \in HostedJob
      BY DEF HostedRun
    <3>2. [[r.side EXCEPT !.pc = p] EXCEPT !.failed = f] = c
      BY <1>6, <3>1, JobSet
    <3>3. run' = [r EXCEPT !.side = [[r.side EXCEPT !.pc = p] EXCEPT !.failed = f]]
      BY <1>5, <1>9 DEF HostedRun
    <3>4. QED BY <3>2, <3>3
  <2>2. /\ run' \in HostedRun /\ run'.gate = r.gate
        /\ run'.event = r.event /\ run'.artifact = r.artifact /\ run'.ran = r.ran
        /\ run'.gated = r.gated /\ run'.evidence = r.evidence /\ run'.lean = r.lean
    BY <1>6, <2>1 DEF HostedRun
  <2>3. QED BY <1>7, <1>9, <2>2
<1>10. QED BY <1>8, <1>9 DEF WorkflowJob

\* What one step of job j can do to a run, before it is counted: it fetches what it
\* names, installs the pinned Lean, gates under the Lean installed, guards and uploads.
Effect(j, r, fails) ==
  LET n == NextStep(j) IN
  /\ r.gate = run.gate /\ r.event = run.event
  /\ r.lean \in {run.lean, policy.lean}
  /\ \/ r.gated = run.gated
     \/ run.lean # Nothing /\ r.gated = run.gated \cup {run.lean}
  /\ \/ r.ran = run.ran
     \/ n.does = "fetch"
     \/ /\ n.does \in {"checkout", "upload"}
        /\ n.ref # Tag => r.ran = run.ran \cup {<< ActionOf(n.does), n.ref >>}
  /\ \/ r.artifact = run.artifact
     \/ /\ j = "gate" /\ n.does = "upload" /\ Selected(j)
        /\ n.exact => r.artifact = run.evidence
  /\ j = "gate" /\ n.does = "upload" /\ n.exact /\ Selected(j) /\ run.evidence # "none" =>
       r.artifact = run.evidence
  /\ (j # "gate" \/ n.does = "guard") => r.evidence = run.evidence
  /\ j = "gate" /\ n.does = "guard" /\ n.exact /\ Selected(j) =>
       fails \/ run.evidence = "complete"

\* Every step of a run is one of these, on a run with its types.
StepsWith(j) ==
  /\ Running(j)
  /\ \E r \in HostedRun, fails \in BOOLEAN : Stepped(j, r, fails) /\ Effect(j, r, fails)

\* What a step looks at is a step of the workflow.
LEMMA NextStepTyped ==
  ASSUME WorkflowTypes, NEW j \in WorkflowJob, Running(j)
  PROVE  NextStep(j) \in WorkflowStep
<1>1. run[j].pc \in DOMAIN workflow[j] /\ workflow[j] \in Seq(WorkflowStep)
  BY DEF Running, WorkflowTypes, WorkflowText, WorkflowJob
<1>2. QED BY <1>1 DEF NextStep

\* A step that leaves the run as it is, but may fail, where it is no guard or upload.
LEMMA PlainStep ==
  ASSUME WorkflowTypes, NEW j \in WorkflowJob, Running(j), NEW fails \in BOOLEAN,
         Stepped(j, run, fails),
         ~ Selected(j) \/ NextStep(j).does \notin {"guard", "upload"}
  PROVE  StepsWith(j)
<1>1. run \in HostedRun
  BY DEF WorkflowTypes
<1>2. Effect(j, run, fails)
  BY DEF Effect
<1>3. QED BY <1>1, <1>2 DEF StepsWith

\* Checking out and uploading run the code of an action at the commit it is named by,
\* or, if it is named by a tag, the commit the tag has now.
LEMMA FetchedRun ==
  ASSUME WorkflowTypes, NEW j \in WorkflowJob, Running(j),
         NextStep(j).does \in {"checkout", "upload"}
  PROVE  /\ Fetched(j) \in HostedRun
         /\ Fetched(j).gate = run.gate /\ Fetched(j).event = run.event
         /\ Fetched(j).lean = run.lean /\ Fetched(j).gated = run.gated
         /\ Fetched(j).artifact = run.artifact /\ Fetched(j).evidence = run.evidence
         /\ NextStep(j).ref # Tag =>
              Fetched(j).ran = run.ran \cup {<< ActionOf(NextStep(j).does), NextStep(j).ref >>}
<1>1. PICK a, ref : a = ActionOf(NextStep(j).does) /\ ref = NextStep(j).ref
  OBVIOUS
<1>2. PICK c : c = IF ref = Tag THEN upstream[a] ELSE ref
  OBVIOUS
<1>3. a \in Action
  BY <1>1 DEF ActionOf, Action
<1>4. c \in ActionCommit \cup {Tag, Nothing}
  BY <1>1, <1>2, <1>3, NextStepTyped DEF WorkflowTypes, WorkflowStep
<1>5. << a, c >> \in (Action \cup {"unreviewed"}) \X (ActionCommit \cup {Tag, Nothing})
  BY <1>3, <1>4
<1>6. Fetched(j) = [run EXCEPT !.ran = run.ran \cup {<< a, c >>}]
  BY <1>1, <1>2 DEF Fetched
<1>7. PICK R : R = run.ran \cup {<< a, c >>}
  OBVIOUS
<1>8. R \in SUBSET ((Action \cup {"unreviewed"}) \X (ActionCommit \cup {Tag, Nothing}))
  BY <1>5, <1>7 DEF WorkflowTypes, HostedRun
<1>9. /\ Fetched(j) \in HostedRun /\ Fetched(j).ran = R
      /\ Fetched(j).gate = run.gate /\ Fetched(j).event = run.event
      /\ Fetched(j).lean = run.lean /\ Fetched(j).gated = run.gated
      /\ Fetched(j).artifact = run.artifact /\ Fetched(j).evidence = run.evidence
  <2>1. run \in HostedRun /\ Fetched(j) = [run EXCEPT !.ran = R]
    BY <1>6, <1>7 DEF WorkflowTypes
  <2>2. QED BY ONLY <1>8, <2>1 DEF HostedRun
<1>10. QED BY <1>1, <1>2, <1>7, <1>9

\* A checkout runs the code of its action.
LEMMA CheckOutEffect ==
  ASSUME WorkflowTypes, NEW j \in WorkflowJob, CheckOutTree(j)
  PROVE  StepsWith(j)
<1>1. Running(j) /\ NextStep(j).does = "checkout" /\ Stepped(j, Fetched(j), FALSE)
  BY DEF CheckOutTree, Taking
<1>2. Effect(j, Fetched(j), FALSE) /\ Fetched(j) \in HostedRun
  BY <1>1, FetchedRun DEF Effect
<1>3. QED BY <1>1, <1>2 DEF StepsWith

\* A download past the installer runs bytes that nobody reviewed.
LEMMA FetchEffect ==
  ASSUME WorkflowTypes, NEW j \in WorkflowJob, FetchUnreviewed(j)
  PROVE  StepsWith(j)
<1>1. PICK r : r = [run EXCEPT !.ran = @ \cup {<< "unreviewed", Nothing >>}]
  OBVIOUS
<1>2. Running(j) /\ NextStep(j).does = "fetch" /\ Stepped(j, r, FALSE)
  BY <1>1 DEF FetchUnreviewed, Taking
<1>3. PICK R : R = run.ran \cup {<< "unreviewed", Nothing >>}
  OBVIOUS
<1>4. R \in SUBSET ((Action \cup {"unreviewed"}) \X (ActionCommit \cup {Tag, Nothing}))
  BY <1>3 DEF WorkflowTypes, HostedRun
<1>5. /\ r \in HostedRun /\ r.gate = run.gate /\ r.event = run.event /\ r.lean = run.lean
      /\ r.gated = run.gated /\ r.artifact = run.artifact /\ r.evidence = run.evidence
  <2>1. run \in HostedRun /\ r = [run EXCEPT !.ran = R]
    BY <1>1, <1>3 DEF WorkflowTypes
  <2>2. QED BY ONLY <1>4, <2>1 DEF HostedRun
<1>6. Effect(j, r, FALSE)
  BY <1>2, <1>5 DEF Effect
<1>7. QED BY <1>2, <1>5, <1>6 DEF StepsWith

\* The installer sets the Lean of the gate job, to the pinned one.
LEMMA InstallEffect ==
  ASSUME WorkflowTypes, NEW j \in WorkflowJob, Install(j)
  PROVE  StepsWith(j)
<1>1. Running(j) /\ NextStep(j).does = "install"
  BY DEF Install, Taking
<1>2. CASE j # "gate"
  BY <1>1, <1>2, PlainStep DEF Install
<1>3. CASE j = "gate"
  <2>1. PICK r : r = [run EXCEPT !.lean = policy.lean]
    OBVIOUS
  <2>2. Stepped(j, r, FALSE)
    BY <1>3, <2>1 DEF Install
  <2>3. PICK v \in LeanVersion : v = policy.lean
    BY DEF WorkflowTypes, SupplyPolicy
  <2>4. /\ r \in HostedRun /\ r.lean = v /\ r.gate = run.gate /\ r.event = run.event
        /\ r.ran = run.ran /\ r.gated = run.gated /\ r.artifact = run.artifact
        /\ r.evidence = run.evidence
    <3>1. run \in HostedRun /\ r = [run EXCEPT !.lean = v] /\ v \in LeanVersion
      BY <2>1, <2>3 DEF WorkflowTypes
    <3>2. QED BY ONLY <3>1 DEF HostedRun
  <2>5. Effect(j, r, FALSE)
    BY <1>1, <2>3, <2>4 DEF Effect
  <2>6. QED BY <1>1, <2>2, <2>4, <2>5 DEF StepsWith
<1>4. QED BY <1>2, <1>3

\* The gates write evidence, and pass under the installed Lean.
LEMMA GatesEffect ==
  ASSUME WorkflowTypes, NEW j \in WorkflowJob, RunGates(j)
  PROVE  StepsWith(j)
<1>1. Running(j) /\ NextStep(j).does = "gate"
  BY DEF RunGates, Taking
<1>2. CASE Stepped(j, run, TRUE)
  BY <1>1, <1>2, PlainStep
<1>3. CASE /\ j = "gate" /\ run.lean # Nothing
           /\ Stepped(j, [run EXCEPT !.evidence = "complete", !.gated = @ \cup {run.lean}], FALSE)
  <2>1. PICK G : G = run.gated \cup {run.lean}
    OBVIOUS
  <2>2. PICK r : r = [run EXCEPT !.evidence = "complete", !.gated = G]
    OBVIOUS
  <2>3. Stepped(j, r, FALSE)
    BY <1>3, <2>1, <2>2
  <2>4. G \in SUBSET LeanVersion
    BY <1>3, <2>1 DEF WorkflowTypes, HostedRun
  <2>5. /\ r \in HostedRun /\ r.lean = run.lean /\ r.gate = run.gate /\ r.event = run.event
        /\ r.ran = run.ran /\ r.gated = G /\ r.artifact = run.artifact
    <3>1. run \in HostedRun
      BY DEF WorkflowTypes
    <3>2. QED BY ONLY <2>2, <2>4, <3>1 DEF HostedRun, Portion
  <2>6. Effect(j, r, FALSE)
    BY <1>1, <1>3, <2>1, <2>5 DEF Effect
  <2>7. QED BY <1>1, <2>3, <2>5, <2>6 DEF StepsWith
<1>4. CASE /\ j = "gate"
           /\ \E e \in {"partial", "complete"} : Stepped(j, [run EXCEPT !.evidence = e], TRUE)
  <2>1. PICK e \in {"partial", "complete"} : Stepped(j, [run EXCEPT !.evidence = e], TRUE)
    BY <1>4
  <2>2. PICK r : r = [run EXCEPT !.evidence = e]
    OBVIOUS
  <2>3. /\ r \in HostedRun /\ r.lean = run.lean /\ r.gate = run.gate /\ r.event = run.event
        /\ r.ran = run.ran /\ r.gated = run.gated /\ r.artifact = run.artifact
    <3>1. run \in HostedRun /\ e \in {"partial", "complete"}
      BY DEF WorkflowTypes
    <3>2. QED BY ONLY <2>2, <3>1 DEF HostedRun, Portion
  <2>4. Effect(j, r, TRUE)
    BY <1>1, <1>4, <2>3 DEF Effect
  <2>5. QED BY <1>1, <2>1, <2>2, <2>3, <2>4 DEF StepsWith
<1>5. QED BY <1>2, <1>3, <1>4 DEF RunGates

\* A command may spoil the evidence of the gate job.
LEMMA CommandEffect ==
  ASSUME WorkflowTypes, NEW j \in WorkflowJob, RunCommand(j)
  PROVE  StepsWith(j)
<1>1. Running(j) /\ NextStep(j).does = "run"
  BY DEF RunCommand, Taking
<1>2. CASE \E fails \in BOOLEAN : Stepped(j, run, fails)
  BY <1>1, <1>2, PlainStep
<1>3. CASE j = "gate" /\ Stepped(j, [run EXCEPT !.evidence = "partial"], FALSE)
  <2>1. PICK r : r = [run EXCEPT !.evidence = "partial"]
    OBVIOUS
  <2>2. /\ r \in HostedRun /\ r.lean = run.lean /\ r.gate = run.gate /\ r.event = run.event
        /\ r.ran = run.ran /\ r.gated = run.gated /\ r.artifact = run.artifact
    <3>1. run \in HostedRun
      BY DEF WorkflowTypes
    <3>2. QED BY ONLY <2>1, <3>1 DEF HostedRun, Portion
  <2>3. Effect(j, r, FALSE)
    BY <1>1, <1>3, <2>2 DEF Effect
  <2>4. QED BY <1>1, <1>3, <2>1, <2>2, <2>3 DEF StepsWith
<1>4. QED BY <1>2, <1>3 DEF RunCommand

\* An untouched guard fails if the evidence is not complete.
LEMMA GuardEffect ==
  ASSUME WorkflowTypes, NEW j \in WorkflowJob, GuardEvidence(j)
  PROVE  StepsWith(j)
<1>1. Running(j) /\ NextStep(j).does = "guard" /\ Selected(j)
  BY DEF GuardEvidence, Taking
<1>2. PICK fails \in BOOLEAN :
        fails = (NextStep(j).exact /\ (j # "gate" \/ run.evidence # "complete"))
  OBVIOUS
<1>3. Stepped(j, run, fails) /\ run \in HostedRun
  BY <1>2 DEF GuardEvidence, WorkflowTypes
<1>4. Effect(j, run, fails)
  BY <1>1, <1>2 DEF Effect
<1>5. QED BY <1>1, <1>3, <1>4 DEF StepsWith

\* An upload takes the evidence that it finds, and runs the code of its action.
LEMMA UploadEffect ==
  ASSUME WorkflowTypes, NEW j \in WorkflowJob, UploadEvidence(j)
  PROVE  StepsWith(j)
<1>1. Running(j) /\ NextStep(j).does = "upload" /\ Selected(j)
  BY DEF UploadEvidence, Taking
<1>2. PICK found : found = IF j # "gate" THEN "none" ELSE run.evidence
  OBVIOUS
<1>3. PICK fails \in BOOLEAN : fails = (found = "none" /\ NextStep(j).exact)
  OBVIOUS
<1>4. PICK f : f = Fetched(j)
  OBVIOUS
<1>5. /\ f \in HostedRun /\ f.gate = run.gate /\ f.event = run.event /\ f.lean = run.lean
      /\ f.gated = run.gated /\ f.artifact = run.artifact /\ f.evidence = run.evidence
      /\ NextStep(j).ref # Tag =>
           f.ran = run.ran \cup {<< ActionOf(NextStep(j).does), NextStep(j).ref >>}
  BY <1>1, <1>4, FetchedRun
<1>6. PICK x : x = IF found = "none" THEN run.artifact
                   ELSE IF NextStep(j).exact THEN found ELSE "partial"
  OBVIOUS
<1>7. x \in Portion
  BY <1>2, <1>6 DEF WorkflowTypes, HostedRun, Portion
<1>8. PICK r : r = [f EXCEPT !.artifact = x]
  OBVIOUS
<1>9. Stepped(j, r, fails)
  <2>1. Stepped(j, [f EXCEPT !.artifact = IF found = "none" THEN @
                             ELSE IF NextStep(j).exact THEN found ELSE "partial"],
                found = "none" /\ NextStep(j).exact)
    BY <1>2, <1>4 DEF UploadEvidence
  <2>2. QED BY <1>3, <1>5, <1>6, <1>8, <2>1
<1>10. /\ r \in HostedRun /\ r.artifact = x /\ r.gate = f.gate /\ r.event = f.event
       /\ r.lean = f.lean /\ r.gated = f.gated /\ r.ran = f.ran /\ r.evidence = f.evidence
  BY ONLY <1>5, <1>7, <1>8 DEF HostedRun
<1>11. Effect(j, r, fails)
  BY <1>1, <1>2, <1>5, <1>6, <1>10 DEF Effect
<1>12. QED BY <1>1, <1>9, <1>10, <1>11 DEF StepsWith

\* There are no other steps in ci.yml.
LEMMA EveryStep ==
  ASSUME WorkflowTypes, NEW j \in WorkflowJob, RunStep(j)
  PROVE  StepsWith(j)
<1>1. CASE SkipStep(j)
  BY <1>1, PlainStep DEF SkipStep
<1>2. QED
  BY <1>1, CheckOutEffect, FetchEffect, InstallEffect, GatesEffect, CommandEffect,
     GuardEffect, UploadEffect DEF RunStep

\* Where the validator accepts, there is a guard for it to have audited.
LEMMA AcceptedAudited ==
  ASSUME WorkflowTypes, Accepted
  PROVE  \E g \in Nat : Audited(g)
<1>1. workflow \in WorkflowText
  BY DEF WorkflowTypes
<1>2. ASSUME NEW j \in WorkflowJob, NEW n \in DOMAIN workflow[j]
      PROVE  << j, n >> \in Steps /\ StepAt(<< j, n >>) = workflow[j][n]
  BY DEF Steps, StepAt
<1>3. ASSUME NEW s \in Steps PROVE s = << s[1], s[2] >>
  BY DEF Steps
<1>4. PICK guard, upload \in Steps :
        /\ Doing("guard") = {guard} /\ Doing("upload") = {upload}
        /\ guard[1] = "gate" /\ upload[1] = "gate"
        /\ Untouched(guard) /\ Untouched(upload) /\ GuardPrecedes(guard, upload)
  BY DEF Accepted, EvidenceRetained
<1>5. PICK g : g = guard[2]
  OBVIOUS
<1>6. guard = << "gate", g >> /\ g \in DOMAIN workflow.gate
  BY <1>1, <1>3, <1>4, <1>5, JobStepTyped
<1>7. upload = << "gate", upload[2] >> /\ upload[2] \in DOMAIN workflow.gate
  BY <1>1, <1>3, <1>4, JobStepTyped
<1>8. workflow.gate \in Seq(WorkflowStep)
  BY <1>1 DEF WorkflowText
<1>9. g \in Nat /\ g >= 1
  BY <1>6, <1>8
<1>10. upload[2] = g + 1
  BY <1>4, <1>5 DEF GuardPrecedes
<1>11. upload = << "gate", g + 1 >> /\ g + 1 <= Len(workflow.gate)
  BY <1>7, <1>8, <1>9, <1>10
<1>12. ASSUME NEW n \in {g, g + 1}
       PROVE  /\ workflow.gate[n].when = "push" /\ workflow.gate[n].exact
              /\ ~ workflow.gate[n].tolerant
  <2>1. Untouched(<< "gate", n >>)
    BY <1>4, <1>6, <1>11
  <2>2. StepAt(<< "gate", n >>) = workflow.gate[n]
    BY DEF StepAt
  <2>3. QED BY <2>1, <2>2 DEF Untouched
<1>13. ASSUME NEW j \in WorkflowJob, NEW n \in Nat, n \in DOMAIN workflow[j]
       PROVE  /\ workflow[j][n].does = "guard" <=> j = "gate" /\ n = g
              /\ workflow[j][n].does = "upload" <=> j = "gate" /\ n = g + 1
              /\ workflow[j][n].does # "fetch"
  <2>1. << j, n >> \in Steps /\ StepAt(<< j, n >>) = workflow[j][n]
    BY <1>2, <1>13
  <2>2. workflow[j][n].does = "guard" <=> << j, n >> = << "gate", g >>
    BY <1>4, <1>6, <2>1 DEF Doing
  <2>3. workflow[j][n].does = "upload" <=> << j, n >> = << "gate", g + 1 >>
    BY <1>4, <1>11, <2>1 DEF Doing
  <2>4. workflow[j][n].does # "fetch"
    BY <2>1 DEF Accepted, RoutesReviewed, Doing
  <2>5. QED BY <2>2, <2>3, <2>4
<1>14. ASSUME NEW j \in WorkflowJob, NEW n \in Nat, n \in DOMAIN workflow[j],
              workflow[j][n].does \in {"checkout", "upload"},
              NEW a, a = ActionOf(workflow[j][n].does)
       PROVE  a \in Action /\ workflow[j][n].ref = policy.actions[a] /\ policy.actions[a] # Tag
  <2>1. << j, n >> \in Steps /\ StepAt(<< j, n >>) = workflow[j][n]
    BY <1>2, <1>14
  <2>2. << j, n >> \in Doing("checkout") \cup Doing("upload")
    BY <1>14, <2>1 DEF Doing
  <2>3. << a, workflow[j][n].ref >> \in Uses
    BY <1>14, <2>1, <2>2 DEF Uses
  <2>4. PICK b \in Action : << a, workflow[j][n].ref >> = << b, policy.actions[b] >>
    BY <2>3 DEF Accepted
  <2>5. QED BY <2>4 DEF Accepted, PolicyShape
<1>15. workflow.triggers = Event /\ workflow.controls = "none" /\ policy.lean = selector
  BY DEF Accepted, EvidenceRetained, AuthoritativeJob
<1>16. Audited(g)
  BY <1>9, <1>11, <1>12, <1>13, <1>14, <1>15 DEF Audited
<1>17. QED BY <1>9, <1>16

\* In a run of an audited workflow a step of any job stays on course. That a step past
\* the upload does not matter is in OnCourse: the artifact is what was uploaded.
LEMMA CourseKept ==
  ASSUME WorkflowTypes, NEW j \in WorkflowJob, NEW g, Audited(g), OnCourse(g), StepsWith(j)
  PROVE  OnCourse(g)'
<1>1. PICK r \in HostedRun, fails \in BOOLEAN :
        Running(j) /\ Stepped(j, r, fails) /\ Effect(j, r, fails)
  BY DEF StepsWith
<1>2. PICK n, i : n = NextStep(j) /\ i = run[j].pc
  OBVIOUS
<1>3. i \in Nat /\ i \in DOMAIN workflow[j] /\ n = workflow[j][i] /\ n \in WorkflowStep
  BY <1>1, <1>2, NextStepTyped DEF Running, NextStep, WorkflowTypes, HostedRun, HostedJob,
     WorkflowJob
<1>4. /\ n.does = "guard" <=> j = "gate" /\ i = g
      /\ n.does = "upload" <=> j = "gate" /\ i = g + 1
      /\ n.does # "fetch"
  BY <1>3 DEF Audited
<1>5. PICK d, e : d = run.gate.failed /\ e = run.event
  OBVIOUS
<1>6. /\ run'.event = e /\ run'.artifact = r.artifact /\ run'.ran = r.ran
      /\ run'.gated = r.gated /\ run'.evidence = r.evidence /\ run'.lean = r.lean
      /\ UNCHANGED << workflow, policy, selector >>
      /\ r.gate = run.gate
  BY <1>1, <1>5, SteppedRun DEF Effect
<1>7. run.gate.pc \in Nat /\ run.gate.failed \in BOOLEAN
  BY DEF WorkflowTypes, HostedRun, HostedJob
<1>8. run'.ran \subseteq {<< a, policy.actions[a] >> : a \in Action}
  <2>1. run.ran \subseteq {<< a, policy.actions[a] >> : a \in Action}
    BY DEF OnCourse
  <2>2. CASE r.ran = run.ran
    BY <1>6, <2>1, <2>2
  <2>3. CASE n.does \in {"checkout", "upload"}
    <3>1. PICK a : a = ActionOf(n.does)
      OBVIOUS
    <3>2. a \in Action /\ n.ref = policy.actions[a] /\ n.ref # Tag
      BY <1>3, <2>3, <3>1 DEF Audited
    <3>3. r.ran = run.ran \cup {<< a, policy.actions[a] >>} \/ r.ran = run.ran
      BY <1>1, <1>2, <1>4, <3>1, <3>2 DEF Effect
    <3>4. QED BY <1>6, <2>1, <3>2, <3>3
  <2>4. QED BY <1>1, <1>2, <1>4, <2>2, <2>3 DEF Effect
<1>9. run'.lean \in {Nothing, policy.lean} /\ run'.gated \subseteq {selector}
  <2>1. run.lean \in {Nothing, policy.lean} /\ run.gated \subseteq {selector}
        /\ policy.lean = selector
    BY DEF OnCourse, Audited
  <2>2. r.lean \in {run.lean, policy.lean}
        /\ (r.gated = run.gated \/ (run.lean # Nothing /\ r.gated = run.gated \cup {run.lean}))
    BY <1>1 DEF Effect
  <2>3. QED BY <1>6, <2>1, <2>2
<1>10. CASE j = "side"
  <2>1. run'.gate = run.gate /\ r.artifact = run.artifact /\ r.evidence = run.evidence
    BY <1>1, <1>6, <1>10, SteppedRun DEF Effect
  <2>2. QED BY <1>5, <1>6, <1>8, <1>9, <2>1 DEF OnCourse
<1>11. CASE j = "gate"
  <2>0. run'.gate = [pc |-> run.gate.pc + 1,
                     failed |-> run.gate.failed \/ (fails /\ ~ NextStep("gate").tolerant)]
    BY <1>1, <1>6, <1>11, SteppedRun
  <2>1. run'.gate.pc = i + 1 /\ run.gate.pc = i
    BY <1>2, <1>11, <2>0
  <2>2. run'.gate.failed <=> d \/ (fails /\ ~ n.tolerant)
    <3>1. PICK x \in BOOLEAN : x = (run.gate.failed \/ (fails /\ ~ NextStep("gate").tolerant))
      OBVIOUS
    <3>2. run'.gate.failed = x
      BY <2>0, <3>1
    <3>3. x <=> d \/ (fails /\ ~ n.tolerant)
      BY <1>2, <1>5, <1>11, <3>1
    <3>4. QED BY <3>2, <3>3
  <2>3. i >= 1 /\ g \in Nat
    BY <2>1 DEF OnCourse, Audited
  <2>4. i \in {g, g + 1} => n.when = "push" /\ n.exact /\ ~ n.tolerant
    BY <1>3, <1>11 DEF Audited
  <2>5. i \in {g, g + 1} => (Selected(j) <=> ~ d /\ e = "push")
    BY <1>2, <1>5, <1>11, <2>4 DEF Selected
  <2>6. i = g + 1 /\ Selected(j) => e = "push" /\ r.artifact = "complete"
    <3>1. SUFFICES ASSUME i = g + 1, Selected(j) PROVE e = "push" /\ r.artifact = "complete"
      OBVIOUS
    <3>2. ~ d /\ e = "push"
      BY <2>5, <3>1
    <3>3. run.evidence = "complete"
      BY <1>5, <2>1, <3>1, <3>2 DEF OnCourse
    <3>4. n.does = "upload" /\ n.exact
      BY <1>4, <1>11, <2>4, <3>1
    <3>5. QED BY <1>1, <1>2, <1>11, <3>1, <3>2, <3>3, <3>4 DEF Effect
  <2>7. r.artifact = run.artifact \/ (i = g + 1 /\ Selected(j))
    BY <1>1, <1>2, <1>4, <1>11 DEF Effect
  <2>8. r.artifact # "none" => e = "push" /\ r.artifact = "complete"
    BY <1>5, <2>6, <2>7 DEF OnCourse
  <2>9. ASSUME e = "push", ~ run'.gate.failed, i + 1 = g + 1
        PROVE  run'.evidence = "complete"
    <3>1. i = g /\ n.does = "guard"
      BY <1>3, <1>4, <1>11, <2>3, <2>9
    <3>2. Selected(j) /\ n.exact /\ ~ fails
      BY <2>2, <2>4, <2>5, <2>9, <3>1
    <3>3. QED BY <1>1, <1>2, <1>6, <1>11, <3>1, <3>2 DEF Effect
  <2>10. ASSUME e = "push", ~ run'.gate.failed, i + 1 > g + 1
         PROVE  r.artifact = "complete"
    <3>1. ~ d
      BY <2>2, <2>10
    <3>2. CASE i = g + 1
      BY <2>5, <2>6, <2>10, <3>1, <3>2
    <3>3. CASE i # g + 1
      <4>1. i > g + 1
        BY <1>3, <2>3, <2>10, <3>3
      <4>2. QED BY <1>5, <2>1, <2>7, <2>10, <3>1, <3>3, <4>1 DEF OnCourse
    <3>4. QED BY <3>2, <3>3
  <2>11. i + 1 >= 1
    BY <1>3
  <2>12. QED BY <1>6, <1>8, <1>9, <2>1, <2>8, <2>9, <2>10, <2>11 DEF OnCourse
<1>12. QED BY <1>10, <1>11 DEF WorkflowJob

\* A run that starts is on course, if it is one of an audited workflow.
LEMMA StartInv ==
  ASSUME HostedInv, NEW e \in Event, StartRun(e)
  PROVE  HostedInv'
<1>1. run = NoRun /\ UNCHANGED << workflow, policy, selector, upstream >>
  BY DEF HostedInv, StartRun
<1>2. /\ workflow \in WorkflowText /\ workflow.gate \in Seq(WorkflowStep)
      /\ workflow.side \in Seq(WorkflowStep)
  BY DEF HostedInv, WorkflowTypes, WorkflowText
<1>3. PICK p, q \in Nat :
        /\ p = IF e \in workflow.triggers /\ workflow.controls # "disabled"
               THEN 1 ELSE Len(workflow.gate) + 1
        /\ q = IF e \in workflow.triggers THEN 1 ELSE Len(workflow.side) + 1
  BY <1>2
<1>4. run' = [event |-> e, artifact |-> "none", ran |-> {}, gated |-> {},
              gate |-> [pc |-> p, failed |-> FALSE], side |-> [pc |-> q, failed |-> FALSE],
              evidence |-> "none", lean |-> Nothing]
  BY <1>3 DEF StartRun, NoRun
<1>5. run' \in HostedRun
  BY <1>4 DEF HostedRun, HostedJob, Portion
<1>6. WorkflowTypes'
  BY <1>1, <1>5 DEF HostedInv, WorkflowTypes
<1>7. run'.event # "none"
  BY <1>4 DEF Event
<1>8. ASSUME NEW g, Audited(g)' PROVE OnCourse(g)'
  <2>1. workflow.triggers = Event /\ workflow.controls = "none" /\ g \in Nat /\ g >= 1
    BY <1>1, <1>8 DEF Audited
  <2>2. p = 1
    BY <1>3, <2>1
  <2>3. QED BY <1>4, <2>1, <2>2 DEF OnCourse
<1>9. QED BY <1>6, <1>7, <1>8 DEF HostedInv

\* The whole invariant survives every step, of a run and around it.
LEMMA HostedStep ==
  ASSUME HostedInv, [WorkflowNext]_workflowVars
  PROVE  HostedInv'
<1>1. WorkflowTypes
  BY DEF HostedInv
<1>2. CASE UNCHANGED workflowVars
  BY <1>2 DEF workflowVars, HostedInv, WorkflowTypes, Audited, OnCourse
<1>3. CASE EditRepository \/ (run.event = "none" /\ ApproveWorkflow)
  <2>1. run.event = "none"
    BY <1>3 DEF EditRepository
  <2>2. WorkflowTypes' /\ run' = run
    BY <1>1, <1>3, RepositoryTyped
  <2>3. QED BY <2>1, <2>2 DEF HostedInv, NoRun
<1>4. CASE \E a \in Action, c \in ActionCommit : MoveTag(a, c)
  <2>1. WorkflowTypes' /\ run' = run
    BY <1>1, <1>4, RepositoryTyped
  <2>2. UNCHANGED << workflow, policy, selector, run >>
    BY <1>4 DEF MoveTag
  <2>3. QED BY <2>1, <2>2 DEF HostedInv, NoRun, Audited, OnCourse
<1>5. ASSUME NEW e \in Event, StartRun(e) PROVE HostedInv'
  BY <1>5, StartInv
<1>6. ASSUME NEW j \in WorkflowJob, RunStep(j) PROVE HostedInv'
  <2>1. StepsWith(j)
    BY <1>1, <1>6, EveryStep
  <2>2. PICK r \in HostedRun, fails \in BOOLEAN :
          Running(j) /\ Stepped(j, r, fails) /\ Effect(j, r, fails)
    BY <2>1 DEF StepsWith
  <2>3. /\ run' \in HostedRun /\ run'.event = run.event
        /\ UNCHANGED << workflow, policy, selector, upstream >>
    BY <1>1, <2>2, SteppedRun DEF Effect
  <2>4. WorkflowTypes'
    BY <1>1, <2>3 DEF WorkflowTypes
  <2>5. run.event # "none"
    <3>1. SUFFICES ASSUME run = NoRun PROVE FALSE
      BY DEF HostedInv
    <3>2. run[j].pc = 0
      BY <3>1 DEF NoRun, WorkflowJob
    <3>3. workflow[j] \in Seq(WorkflowStep)
      BY <1>1 DEF WorkflowTypes, WorkflowText, WorkflowJob
    <3>4. QED BY <2>2, <3>2, <3>3 DEF Running
  <2>6. ASSUME NEW g, Audited(g)' PROVE OnCourse(g)'
    <3>1. Audited(g)
      BY <2>3, <2>6 DEF Audited
    <3>2. OnCourse(g)
      BY <2>5, <3>1 DEF HostedInv
    <3>3. QED BY <1>1, <2>1, <3>1, <3>2, CourseKept
  <2>7. QED BY <2>3, <2>4, <2>5, <2>6 DEF HostedInv
<1>7. QED BY <1>2, <1>3, <1>4, <1>5, <1>6 DEF WorkflowNext

\* What a run on course means for its artifact, its code and its conclusion.
LEMMA CourseMeansEvidence ==
  ASSUME HostedInv
  PROVE  AcceptedRunKeepsEvidence
<1>1. SUFFICES ASSUME run.event # "none", Accepted
               PROVE  /\ run.artifact # "none" => run.event = "push" /\ run.artifact = "complete"
                      /\ Succeeded /\ run.event = "push" => run.artifact = "complete"
                      /\ run.ran \subseteq {<< a, policy.actions[a] >> : a \in Action}
                      /\ run.gated \subseteq {selector}
  BY DEF AcceptedRunKeepsEvidence
<1>2. PICK g \in Nat : Audited(g)
  BY <1>1, AcceptedAudited DEF HostedInv
<1>3. OnCourse(g)
  BY <1>1, <1>2 DEF HostedInv
<1>4. ASSUME Succeeded, run.event = "push" PROVE run.artifact = "complete"
  <2>1. ~ run.gate.failed
    BY <1>2, <1>4 DEF Succeeded, Audited
  <2>2. run.gate.pc \notin DOMAIN workflow.gate
    BY <1>4 DEF Succeeded, Over, Running, WorkflowJob
  <2>3. /\ workflow.gate \in Seq(WorkflowStep) /\ run.gate.pc \in Nat
        /\ run.gate.pc >= 1 /\ g + 1 <= Len(workflow.gate)
    BY <1>2, <1>3 DEF HostedInv, WorkflowTypes, WorkflowText, HostedRun, HostedJob, OnCourse,
       Audited
  <2>4. run.gate.pc > g + 1
    <3>1. PICK l \in Nat : l = Len(workflow.gate) /\ DOMAIN workflow.gate = 1 .. l
      BY <2>3
    <3>2. QED BY <2>2, <2>3, <3>1
  <2>5. QED BY <1>3, <1>4, <2>1, <2>4 DEF OnCourse
<1>5. QED BY <1>3, <1>4 DEF OnCourse

\* The workflow of the repository has the types.
LEMMA WorkflowInitInv ==
  ASSUME WorkflowInit
  PROVE  HostedInv
<1>1. run = NoRun /\ run \in HostedRun /\ run.event = "none"
  BY DEF WorkflowInit, NoRun, HostedRun, HostedJob, Portion
<1>2. PICK c \in ActionCommit, v \in LeanVersion :
        /\ workflow =
             [triggers |-> Event, controls |-> "none", side |-> << >>,
              gate |-> << [does |-> "checkout", when |-> "success", tolerant |-> FALSE,
                           exact |-> TRUE, ref |-> c],
                          [does |-> "install", when |-> "success", tolerant |-> FALSE,
                           exact |-> TRUE, ref |-> Nothing],
                          [does |-> "gate", when |-> "push", tolerant |-> FALSE,
                           exact |-> TRUE, ref |-> Nothing],
                          [does |-> "guard", when |-> "push", tolerant |-> FALSE,
                           exact |-> TRUE, ref |-> Nothing],
                          [does |-> "upload", when |-> "push", tolerant |-> FALSE,
                           exact |-> TRUE, ref |-> c],
                          [does |-> "run", when |-> "push", tolerant |-> FALSE,
                           exact |-> TRUE, ref |-> Nothing] >>]
        /\ policy = [workflow_sha256 |-> workflow, actions |-> [a \in Action |-> c], lean |-> v]
        /\ selector = v
        /\ upstream \in {[a \in Action |-> IF a = "checkout" THEN c ELSE d] : d \in ActionCommit}
  BY DEF WorkflowInit
<1>3. ASSUME NEW d \in {"checkout", "install", "gate", "guard", "upload", "run"},
             NEW w \in {"success", "push"}, NEW ref \in ActionCommit \cup {Nothing}
      PROVE  [does |-> d, when |-> w, tolerant |-> FALSE, exact |-> TRUE, ref |-> ref]
               \in WorkflowStep
  BY DEF WorkflowStep
<1>4. PICK s1, s2, s3, s4, s5, s6 \in WorkflowStep :
        workflow = [triggers |-> Event, controls |-> "none", side |-> << >>,
                    gate |-> << s1, s2, s3, s4, s5, s6 >>]
  BY <1>2, <1>3
<1>5. << s1, s2, s3, s4, s5, s6 >> \in Seq(WorkflowStep) /\ << >> \in Seq(WorkflowStep)
  OBVIOUS
<1>6. workflow \in WorkflowText
  BY <1>4, <1>5 DEF WorkflowText
<1>7. policy \in SupplyPolicy
  BY <1>2, <1>6 DEF SupplyPolicy
<1>8. selector \in LeanVersion /\ upstream \in [Action -> ActionCommit]
  BY <1>2
<1>9. QED BY <1>1, <1>6, <1>7, <1>8 DEF HostedInv, WorkflowTypes

\* Whatever is edited in ci.yml and approved, and wherever upstream moves its tags: if
\* ci_supply_chain.py accepts the workflow, a run of it keeps evidence for a push only
\* and complete, a push succeeds only with it, no action runs but at its pin, and the
\* gates pass under the selected Lean only.
THEOREM AcceptedRuns == WorkflowSpec => []AcceptedRunKeepsEvidence
<1>1. WorkflowInit => HostedInv
  BY WorkflowInitInv
<1>2. HostedInv /\ [WorkflowNext]_workflowVars => HostedInv'
  BY HostedStep
<1>3. HostedInv => AcceptedRunKeepsEvidence
  BY CourseMeansEvidence
<1>4. QED BY <1>1, <1>2, <1>3, PTL DEF WorkflowSpec

-----------------------------------------------------------------------------
(* Stacks *)

StackManifest ==
  [package : Package, version : PackageVersion,
   dependencies : SUBSET [package : Package, version : PackageVersion, manifest : Nat]]

StackEntry == [package : Package, version : PackageVersion, manifest : Nat, tarball : Tarball]

StackTypes == manifests \in Seq(StackManifest) /\ entries \in Seq(StackEntry)

\* A manifest names only manifests that were published before it.
BuiltAgainstOlder ==
  \A h \in DOMAIN manifests : \A d \in manifests[h].dependencies : d.manifest \in 1 .. h - 1

\* What the verifier has at hand was published.
AtHandPublished == manifestDir \subseteq DOMAIN manifests

StackInv == StackTypes /\ BuiltAgainstOlder /\ AtHandPublished

\* by_name finds an entry of a package that is listed.
LEMMA EntryFound ==
  ASSUME StackTypes, NEW p \in Listed
  PROVE  \E i \in DOMAIN entries : entries[i].package = p /\ EntryOf(p) = entries[i]
<1> DEFINE I == {i \in 1 .. Len(entries) : entries[i].package = p}
<1>1. DOMAIN entries = 1 .. Len(entries) /\ Len(entries) \in Nat
  BY DEF StackTypes
<1>2. I # {} /\ I \subseteq Nat
  BY <1>1 DEF Listed
<1>3. PICK k \in I : \A j \in I : k <= j
  <2>1. PICK S : S = I
    OBVIOUS
  <2>2. S \subseteq Nat /\ S # {}
    BY <1>2, <2>1
  <2>3. \E k \in S : \A j \in S : k <= j
    BY <2>2, Lists!LeastNat
  <2>4. QED BY <2>1, <2>3
<1>4. PICK m : m = (CHOOSE x \in I : \A y \in I : x <= y)
  OBVIOUS
<1>5. m \in I
  BY <1>3, <1>4
<1>6. EntryOf(p) = entries[m]
  BY <1>2, <1>4 DEF EntryOf, SelectInSeq, Min
<1>7. QED BY <1>1, <1>5, <1>6

\* A new release is built against manifests that exist, so all of them are older.
LEMMA PublishManifestStep ==
  ASSUME StackInv, NEW p \in Package, NEW v \in PackageVersion,
         NEW ds \in SUBSET Dependency, PublishManifest(p, v, ds)
  PROVE  StackInv'
<1> DEFINE m == [package |-> p, version |-> v, dependencies |-> ds]
<1>1. /\ manifests \in Seq(StackManifest) /\ entries \in Seq(StackEntry)
      /\ manifests' = Append(manifests, m) /\ entries' = entries
      /\ manifestDir' = manifestDir \cup {Len(manifests) + 1}
  BY DEF PublishManifest, StackInv, StackTypes
<1>2. PICK n \in Nat : n = Len(manifests) /\ DOMAIN manifests = 1 .. n
  BY <1>1
<1>3. m \in StackManifest
  <2>1. ds \subseteq [package : Package, version : PackageVersion, manifest : Nat]
    BY <1>2 DEF Dependency
  <2>2. QED BY <2>1 DEF StackManifest
<1>4. manifests' \in Seq(StackManifest) /\ DOMAIN manifests' = 1 .. n + 1
      /\ manifests'[n + 1] = m /\ \A h \in 1 .. n : manifests'[h] = manifests[h]
  <2>1. Append(manifests, m) \in Seq(StackManifest) /\ Len(Append(manifests, m)) = n + 1
    BY <1>1, <1>2, <1>3
  <2>2. QED BY <1>1, <1>2, <2>1
<1>5. BuiltAgainstOlder'
  <2>1. SUFFICES ASSUME NEW h \in 1 .. n + 1, NEW d \in manifests'[h].dependencies
                 PROVE  d.manifest \in 1 .. h - 1
    BY <1>4 DEF BuiltAgainstOlder
  <2>2. CASE h = n + 1
    <3>1. d \in Dependency
      BY <1>4, <2>2
    <3>2. d.manifest \in 1 .. n
      BY <1>2, <3>1 DEF Dependency
    <3>3. QED BY <2>2, <3>2
  <2>3. CASE h # n + 1
    <3>1. h \in 1 .. n
      BY <2>3
    <3>2. d \in manifests[h].dependencies
      BY <1>4, <3>1
    <3>3. QED BY <1>2, <3>1, <3>2 DEF StackInv, BuiltAgainstOlder
  <2>4. QED BY <2>2, <2>3
<1>6. AtHandPublished'
  <2>1. manifestDir \subseteq 1 .. n
    BY <1>2 DEF StackInv, AtHandPublished
  <2>2. manifestDir' \subseteq 1 .. n + 1
    <3>1. n + 1 \in 1 .. n + 1 /\ 1 .. n \subseteq 1 .. n + 1
      BY <1>2
    <3>2. manifestDir' = manifestDir \cup {n + 1}
      BY <1>1, <1>2
    <3>3. QED BY <2>1, <3>1, <3>2, Zenon
  <2>3. QED BY <1>4, <2>2 DEF AtHandPublished
<1>7. QED BY <1>1, <1>4, <1>5, <1>6 DEF StackInv, StackTypes

\* What the verifier relies on outlives every edit of a stack.
LEMMA StackStep ==
  ASSUME StackInv, [StackNext]_stackVars
  PROVE  StackInv'
<1>1. CASE UNCHANGED << manifests, entries, manifestDir >>
  BY <1>1 DEF StackInv, StackTypes, BuiltAgainstOlder, AtHandPublished
<1>2. ASSUME NEW p \in Package, NEW v \in PackageVersion, NEW ds \in SUBSET Dependency,
             PublishManifest(p, v, ds)
      PROVE  StackInv'
  BY <1>2, PublishManifestStep
<1>3. ASSUME NEW p \in Package, NEW h \in DOMAIN manifests, NEW t \in Tarball,
             EnterPackage(p, h, t)
      PROVE  StackInv'
  <2>1. h \in Nat /\ manifests[h] \in StackManifest
    BY DEF StackInv, StackTypes
  <2>2. [package |-> p, version |-> manifests[h].version, manifest |-> h, tarball |-> t]
          \in StackEntry
    BY <2>1 DEF StackManifest, StackEntry
  <2>3. entries' \in Seq(StackEntry)
    BY <1>3, <2>2 DEF EnterPackage, StackInv, StackTypes
  <2>4. QED
    BY <1>3, <2>3 DEF EnterPackage, StackInv, StackTypes, BuiltAgainstOlder, AtHandPublished
<1>4. ASSUME NEW i \in DOMAIN entries, NEW h \in DOMAIN manifests, UpdateEntry(i, h)
      PROVE  StackInv'
  <2>1. h \in Nat /\ manifests[h] \in StackManifest /\ entries \in Seq(StackEntry)
    BY DEF StackInv, StackTypes
  <2>2. PICK e : e = [entries[i] EXCEPT !.manifest = h, !.version = manifests[h].version]
    OBVIOUS
  <2>3. e \in StackEntry
    <3>1. PICK f, v : f = entries[i] /\ v = manifests[h].version
      OBVIOUS
    <3>2. f \in StackEntry /\ v \in PackageVersion
      BY <2>1, <3>1 DEF StackManifest
    <3>3. e = [f EXCEPT !.manifest = h, !.version = v]
      BY <2>2, <3>1
    <3>4. QED BY ONLY <2>1, <3>2, <3>3 DEF StackEntry
  <2>4. entries' = [entries EXCEPT ![i] = e]
    BY <1>4, <2>1, <2>2 DEF UpdateEntry
  <2>5. entries' \in Seq(StackEntry)
    BY <2>1, <2>3, <2>4
  <2>6. QED
    BY <1>4, <2>5 DEF UpdateEntry, StackInv, StackTypes, BuiltAgainstOlder, AtHandPublished
<1>5. ASSUME NEW h \in DOMAIN manifests, FetchManifest(h)
      PROVE  StackInv'
  BY <1>5 DEF FetchManifest, StackInv, StackTypes, BuiltAgainstOlder, AtHandPublished
<1>6. QED
  BY <1>1, <1>2, <1>3, <1>4, <1>5 DEF StackNext, stackVars, EnterEdge, ChooseTarballs

\* However packages were released again while a stack was put together, in a stack
\* that verify_stack_release.py accepts every package is entered once, and the
\* consumer of every edge was built against the very manifest the stack has for the
\* provider, which is at hand, is the provider's, and is older than the consumer.
THEOREM AcceptedStacks == StackSpec => []AcceptedStackIsBound
<1>1. StackInit => StackInv
  <2>1. << >> \in Seq(StackManifest) /\ << >> \in Seq(StackEntry) /\ DOMAIN << >> = {}
    OBVIOUS
  <2>2. QED
    BY <2>1 DEF StackInit, StackInv, StackTypes, BuiltAgainstOlder, AtHandPublished
<1>2. StackInv /\ [StackNext]_stackVars => StackInv'
  BY StackStep
<1>3. StackInv => AcceptedStackIsBound
  <2> SUFFICES ASSUME StackInv, Verified PROVE AcceptedStackIsBound!2
    BY DEF AcceptedStackIsBound
  <2>1. StackTypes
    BY DEF StackInv
  <2>2. ASSUME NEW p \in Listed
        PROVE  Cardinality({i \in DOMAIN entries : entries[i].package = p}) = 1
    <3>1. PICK k \in DOMAIN entries : entries[k].package = p
      BY <2>1, EntryFound
    <3>2. {i \in DOMAIN entries : entries[i].package = p} = {k}
      BY <3>1 DEF Verified
    <3>3. QED BY <3>2, FS_Singleton
  <2>3. ASSUME NEW edge \in edges,
               NEW c, c = EntryOf(edge.consumer).manifest,
               NEW p, p = EntryOf(edge.provider).manifest
        PROVE  /\ p \in {d.manifest : d \in manifests[c].dependencies}
               /\ p \in manifestDir /\ manifests[p].package = edge.provider
               /\ p < c
    <3>1. EdgeResolves(edge)
      BY DEF Verified
    <3>2. PICK i \in DOMAIN entries :
            entries[i].package = edge.consumer /\ EntryOf(edge.consumer) = entries[i]
      BY <2>1, <3>1, EntryFound DEF EdgeResolves
    <3>3. PICK j \in DOMAIN entries :
            entries[j].package = edge.provider /\ EntryOf(edge.provider) = entries[j]
      BY <2>1, <3>1, EntryFound DEF EdgeResolves
    <3>4. c \in manifestDir /\ p \in manifestDir /\ manifests[p].package = edge.provider
      BY <2>3, <3>2, <3>3 DEF Verified, EntryResolves
    <3>5. PICK d \in manifests[c].dependencies : d.manifest = p
      BY <2>3, <3>1 DEF EdgeResolves, DeclaredByConsumer
    <3>6. c \in DOMAIN manifests
      BY <3>4 DEF StackInv, AtHandPublished
    <3>7. c \in Nat /\ p \in 1 .. c - 1
      BY <2>1, <3>5, <3>6 DEF StackInv, StackTypes, BuiltAgainstOlder
    <3>8. QED BY <3>4, <3>5, <3>7
  <2>4. QED BY <2>2, <2>3
<1>4. QED BY <1>1, <1>2, <1>3, PTL DEF StackSpec

-----------------------------------------------------------------------------
(* The order of the members *)

\* In a finite set whose members have ranks of their own, the number of members
\* before one is below the size of the set.
LEMMA BeforeBound ==
  ASSUME NEW S, IsFiniteSet(S), NEW rank, \A a \in S : rank[a] \in Nat, NEW a \in S
  PROVE  Cardinality({b \in S : rank[b] < rank[a]}) \in 0 .. Cardinality(S) - 1
<1> DEFINE T == {b \in S : rank[b] < rank[a]}
<1>1. T \in SUBSET S /\ a \notin T
  OBVIOUS
<1>2. IsFiniteSet(T) /\ Cardinality(T) <= Cardinality(S) /\ Cardinality(T) # Cardinality(S)
  BY <1>1, FS_Subset
<1>3. Cardinality(T) \in Nat /\ Cardinality(S) \in Nat
  BY <1>2, FS_CardinalityType
<1>4. QED BY <1>2, <1>3

\* Fewer members are before the one that ranks lower.
LEMMA BeforeMonotone ==
  ASSUME NEW S, IsFiniteSet(S), NEW rank, \A a \in S : rank[a] \in Nat,
         NEW a \in S, NEW c \in S, rank[a] < rank[c]
  PROVE  Cardinality({b \in S : rank[b] < rank[a]}) # Cardinality({b \in S : rank[b] < rank[c]})
<1> DEFINE T == {b \in S : rank[b] < rank[a]}
           U == {b \in S : rank[b] < rank[c]}
<1>1. T \in SUBSET U /\ a \in U /\ a \notin T /\ U \in SUBSET S
  OBVIOUS
<1>2. IsFiniteSet(U)
  BY <1>1, FS_Subset
<1>3. Cardinality(U) = Cardinality(T) => U = T
  BY <1>1, <1>2, FS_Subset
<1>4. QED BY <1>1, <1>3

\* The sorted order of the archive paths of a listing: each place holds one of them,
\* no two places the same, and every path has a place.
LEMMA OrderEnumerates ==
  ASSUME NEW listing, IsFiniteSet(ArchivePaths(listing)),
         ArchivePaths(listing) \subseteq ArchivePath
  PROVE  /\ \A i \in 1 .. Cardinality(ArchivePaths(listing)) :
              ExpectedOrder(listing)[i] \in ArchivePaths(listing)
         /\ \A i, j \in 1 .. Cardinality(ArchivePaths(listing)) :
              ExpectedOrder(listing)[i] = ExpectedOrder(listing)[j] => i = j
         /\ \A a \in ArchivePaths(listing) :
              \E i \in 1 .. Cardinality(ArchivePaths(listing)) : ExpectedOrder(listing)[i] = a
<1> DEFINE S == ArchivePaths(listing)
           n == Cardinality(S)
           before(a) == Cardinality({b \in S : Rank[b] < Rank[a]})
           f == [a \in S |-> before(a)]
<1>1. /\ \A a \in S : Rank[a] \in Nat
      /\ \A a, c \in S : Rank[a] = Rank[c] => a = c
  BY ArchiveAssumption
<1>2. n \in Nat
  BY FS_CardinalityType
<1>3. ASSUME NEW a \in S PROVE before(a) \in 0 .. n - 1
  BY <1>1, BeforeBound
<1>4. ASSUME NEW a \in S, NEW c \in S, a # c PROVE before(a) # before(c)
  <2>1. Rank[a] < Rank[c] \/ Rank[c] < Rank[a]
    BY <1>1, <1>4
  <2>2. CASE Rank[a] < Rank[c]
    BY <1>1, <2>2, BeforeMonotone
  <2>3. CASE Rank[c] < Rank[a]
    BY <1>1, <2>3, BeforeMonotone
  <2>4. QED BY <2>1, <2>2, <2>3
<1> HIDE DEF before
<1>5. f \in Injection(S, 0 .. n - 1)
  BY <1>3, <1>4 DEF Injection, IsInjective
<1>6. IsFiniteSet(0 .. n - 1) /\ Cardinality(0 .. n - 1) = n
  BY <1>2, FS_Interval
<1>7. f \in Surjection(S, 0 .. n - 1)
  <2> HIDE DEF S, f, n
  <2>1. Cardinality(S) = Cardinality(0 .. n - 1)
    BY <1>6 DEF n
  <2>2. QED BY <1>5, <1>6, <2>1, FS_Injection
<1>8. ASSUME NEW i \in 1 .. n
      PROVE  \E a \in S : before(a) = i - 1
  <2>1. i - 1 \in 0 .. n - 1
    BY <1>2
  <2>2. QED BY <1>7, <2>1 DEF Surjection
<1>9. ASSUME NEW i \in 1 .. n
      PROVE  ExpectedOrder(listing)[i] \in S /\ before(ExpectedOrder(listing)[i]) = i - 1
  <2>1. ExpectedOrder(listing)[i] = CHOOSE a \in S : before(a) = i - 1
    BY <1>2 DEF ExpectedOrder, before
  <2>2. QED BY <1>8, <2>1
<1>10. ASSUME NEW a \in S
       PROVE  \E i \in 1 .. n : ExpectedOrder(listing)[i] = a
  <2> DEFINE i == before(a) + 1
  <2>1. i \in 1 .. n /\ i - 1 = before(a)
    BY <1>2, <1>3
  <2>2. before(ExpectedOrder(listing)[i]) = before(a) /\ ExpectedOrder(listing)[i] \in S
    BY <1>9, <2>1
  <2>3. ExpectedOrder(listing)[i] = a
    BY <1>4, <2>2
  <2>4. QED BY <2>1, <2>3
<1>11. ASSUME NEW i \in 1 .. n, NEW j \in 1 .. n,
              ExpectedOrder(listing)[i] = ExpectedOrder(listing)[j]
       PROVE  i = j
  BY <1>2, <1>9, <1>11
<1>12. QED BY <1>9, <1>10, <1>11

\* The directories above finitely many paths are finitely many.
LEMMA TrackedDirsFinite ==
  ASSUME NEW paths, IsFiniteSet(paths), NEW E, paths \subseteq Seq(E)
  PROVE  IsFiniteSet(TrackedDirs(paths))
<1> DEFINE above(p) == {SubSeq(p, 1, i) : i \in 1 .. Len(p) - 1}
<1>1. ASSUME NEW p \in paths PROVE IsFiniteSet(above(p))
  <2> DEFINE T == 1 .. Len(p) - 1
             f == [i \in T |-> SubSeq(p, 1, i)]
  <2>1. Len(p) \in Nat
    BY LenProperties
  <2>2. IsFiniteSet(T)
    BY <2>1, FS_Interval
  <2>3. f \in Surjection(T, above(p))
    BY DEF Surjection
  <2> HIDE DEF T, f
  <2>4. QED BY <2>2, <2>3, FS_Surjection
<1> DEFINE S == {above(p) : p \in paths}
           g == [p \in paths |-> above(p)]
<1> HIDE DEF above
<1>2. g \in Surjection(paths, S)
  BY DEF Surjection
<1>3. IsFiniteSet(S)
  <2> HIDE DEF S, g
  <2>1. QED BY <1>2, FS_Surjection
<1>4. IsFiniteSet(UNION S)
  BY <1>1, <1>3, FS_UNION
<1>5. TrackedDirs(paths) = UNION S
  BY DEF TrackedDirs, above
<1>6. QED BY <1>4, <1>5

\* The archive paths of a commit are finitely many, and all are ranked.
LEMMA ArchivePathsFinite ==
  ASSUME NEW c \in Trees
  PROVE  /\ IsFiniteSet(ArchivePaths(Tracked(c)))
         /\ ArchivePaths(Tracked(c)) \subseteq ArchivePath
<1> DEFINE files == FilesOf(c)
           dirs  == TrackedDirs(files)
<1>1. DOMAIN Tracked(c) = files
  BY DEF Tracked
<1>2. IsFiniteSet(files) /\ files \subseteq Path /\ files \subseteq Seq(DOMAIN Width)
  BY ArchiveAssumption DEF FilesOf
<1>3. IsFiniteSet(dirs)
  BY <1>2, TrackedDirsFinite
<1>4. dirs \subseteq TrackedDirs(Path)
  BY <1>2 DEF TrackedDirs
<1> HIDE DEF files, dirs
<1>5. ArchivePaths(Tracked(c)) = (files \X {FALSE}) \cup (dirs \X {TRUE})
  BY <1>1 DEF ArchivePaths, dirs
<1>6. IsFiniteSet({FALSE}) /\ IsFiniteSet({TRUE})
  BY FS_Singleton
<1>7. IsFiniteSet(files \X {FALSE}) /\ IsFiniteSet(dirs \X {TRUE})
  BY <1>2, <1>3, <1>6, FS_Product
<1>8. IsFiniteSet((files \X {FALSE}) \cup (dirs \X {TRUE}))
  <2>1. PICK A, B : A = files \X {FALSE} /\ B = dirs \X {TRUE}
    OBVIOUS
  <2>2. IsFiniteSet(A) /\ IsFiniteSet(B)
    BY <1>7, <2>1
  <2>3. IsFiniteSet(A \cup B)
    BY <2>2, FS_Union
  <2>4. QED BY <2>1, <2>3
<1>9. IsFiniteSet(ArchivePaths(Tracked(c)))
  BY <1>5, <1>8
<1>10. ArchivePaths(Tracked(c)) \subseteq ArchivePath
  BY <1>2, <1>4, <1>5 DEF ArchivePath
<1>11. QED BY <1>9, <1>10

-----------------------------------------------------------------------------
(* Concatenation of parts, and the blocks of gzip *)

\* The concatenations of the first parts, each from the one before it.
FlattenBody(seqs, n, f) ==
  [i \in 1 .. n |-> IF i = 1 THEN seqs[i] ELSE f[i - 1] \o seqs[i]]

\* The recursive definition of a concatenation has a solution.
LEMMA FlattenExists ==
  ASSUME NEW seqs, NEW n \in Nat
  PROVE  \E f : f = FlattenBody(seqs, n, f)
<1> DEFINE Bad == {m \in Nat : ~ \E f : f = FlattenBody(seqs, m, f)}
<1>1. SUFFICES ASSUME Bad # {} PROVE FALSE
  OBVIOUS
<1>2. PICK m \in Bad : \A k \in Bad : m <= k
  BY <1>1, Lists!LeastNat
<1>3. m # 0
  <2> DEFINE g == [i \in 1 .. 0 |-> << >>]
  <2>1. g = FlattenBody(seqs, 0, g)
    BY DEF FlattenBody
  <2>2. QED BY <2>1
<1>4. m - 1 \in Nat /\ ~ (m <= m - 1)
  BY <1>3
<1>5. PICK f : f = FlattenBody(seqs, m - 1, f)
  BY <1>2, <1>4
<1> DEFINE last == IF m = 1 THEN seqs[m] ELSE f[m - 1] \o seqs[m]
           g    == [i \in 1 .. m |-> IF i = m THEN last ELSE f[i]]
<1>6. ASSUME NEW i \in 1 .. m
      PROVE  g[i] = IF i = 1 THEN seqs[i] ELSE g[i - 1] \o seqs[i]
  <2>1. CASE i = m
    <3>1. CASE m = 1
      BY <2>1, <3>1
    <3>2. CASE m # 1
      <4>1. m - 1 \in 1 .. m /\ m - 1 # m
        BY <1>3, <3>2
      <4>2. g[m - 1] = f[m - 1]
        BY <4>1
      <4>3. QED BY <2>1, <3>2, <4>2
    <3>3. QED BY <3>1, <3>2
  <2>2. CASE i # m
    <3>1. i \in 1 .. m - 1
      BY <2>2
    <3>2. f[i] = IF i = 1 THEN seqs[i] ELSE f[i - 1] \o seqs[i]
      BY <1>5, <3>1 DEF FlattenBody
    <3>3. i # 1 => i - 1 \in 1 .. m /\ i - 1 # m
      BY <3>1
    <3>4. QED BY <2>2, <3>2, <3>3
  <2>3. QED BY <2>1, <2>2
<1>7. g = FlattenBody(seqs, m, g)
  BY <1>6 DEF FlattenBody
<1>8. QED BY <1>2, <1>7

\* A concatenation grows part by part.
LEMMA FlattenParts ==
  ASSUME NEW X, NEW seqs \in Seq(Seq(X))
  PROVE  \E g \in [0 .. Len(seqs) -> Seq(X)] :
           /\ g[0] = << >>
           /\ \A i \in 1 .. Len(seqs) : g[i] = g[i - 1] \o seqs[i]
           /\ FlattenSeq(seqs) = g[Len(seqs)]
<1>1. Len(seqs) \in Nat /\ \A i \in 1 .. Len(seqs) : seqs[i] \in Seq(X)
  BY LenProperties
<1> DEFINE n == Len(seqs)
<1>2. CASE n = 0
  <2> DEFINE g == [i \in 0 .. 0 |-> << >>]
  <2>1. seqs = << >>
    BY <1>2
  <2>2. FlattenSeq(seqs) = << >>
    BY <1>2, <2>1 DEF FlattenSeq
  <2>3. << >> \in Seq(X)
    OBVIOUS
  <2>4. g \in [0 .. 0 -> Seq(X)] /\ g[0] = << >>
    BY <2>3
  <2> HIDE DEF g
  <2>5. QED BY <1>2, <2>2, <2>4
<1>3. CASE n # 0
  <2>1. PICK f : f = FlattenBody(seqs, n, f)
    BY <1>1, FlattenExists
  <2> DEFINE fl == CHOOSE f0 : f0 = FlattenBody(seqs, n, f0)
  <2>2. fl = FlattenBody(seqs, n, fl)
    BY <2>1
  <2>3. FlattenSeq(seqs) = fl[n]
    BY <1>3, Zenon DEF FlattenSeq, FlattenBody
  <2> HIDE DEF fl
  <2>4. ASSUME NEW i \in 1 .. n
        PROVE  fl[i] = IF i = 1 THEN seqs[i] ELSE fl[i - 1] \o seqs[i]
    BY <2>2 DEF FlattenBody
  <2>5. ASSUME NEW i \in 1 .. n PROVE fl[i] \in Seq(X)
    <3> DEFINE Bad == {j \in 1 .. n : fl[j] \notin Seq(X)}
    <3>1. SUFFICES ASSUME Bad # {} PROVE FALSE
      OBVIOUS
    <3>2. PICK j \in Bad : \A k \in Bad : j <= k
      <4>1. Bad \in SUBSET Nat
        BY <1>1
      <4>2. QED BY <3>1, <4>1, Lists!LeastNat
    <3>3. j # 1
      BY <1>1, <2>4, <3>2
    <3>4. j - 1 \in 1 .. n /\ ~ (j <= j - 1)
      BY <1>1, <3>3
    <3>5. fl[j - 1] \in Seq(X)
      BY <3>2, <3>4
    <3>6. fl[j] = fl[j - 1] \o seqs[j] /\ seqs[j] \in Seq(X)
      BY <1>1, <2>4, <3>2, <3>3
    <3>7. fl[j] \in Seq(X)
      BY <3>5, <3>6, ConcatProperties
    <3>8. QED BY <3>2, <3>7
  <2> DEFINE g == [i \in 0 .. n |-> IF i = 0 THEN << >> ELSE fl[i]]
  <2>6. g \in [0 .. n -> Seq(X)] /\ g[0] = << >> /\ g[n] = fl[n]
    BY <1>1, <1>3, <2>5
  <2>7. ASSUME NEW i \in 1 .. n PROVE g[i] = g[i - 1] \o seqs[i]
    <3>1. CASE i = 1
      <4>1. g[i] = seqs[i] /\ g[i - 1] = << >>
        BY <1>1, <2>4, <3>1
      <4>2. << >> \o seqs[i] = seqs[i]
        BY <1>1, ConcatEmptySeq
      <4>3. QED BY <4>1, <4>2
    <3>2. CASE i # 1
      <4>1. i - 1 \in 0 .. n /\ i - 1 # 0 /\ i \in 0 .. n /\ i # 0
        BY <1>1, <3>2
      <4>2. g[i] = fl[i] /\ g[i - 1] = fl[i - 1]
        BY <4>1
      <4>3. QED BY <2>4, <3>2, <4>2
    <3>3. QED BY <3>1, <3>2
  <2> HIDE DEF g
  <2>8. QED BY <2>3, <2>6, <2>7
<1>4. QED BY <1>2, <1>3

\* A sequence has an element at a place.
Holds(s, at, x) == at \in 1 .. Len(s) /\ s[at] = x

\* Where a part is found in the concatenation: after all the parts before it.
LEMMA PartAt ==
  ASSUME NEW X, NEW seqs \in Seq(Seq(X)),
         NEW g \in [0 .. Len(seqs) -> Seq(X)],
         \A i \in 1 .. Len(seqs) : g[i] = g[i - 1] \o seqs[i],
         NEW i \in 1 .. Len(seqs), NEW k \in 1 .. Len(seqs[i])
  PROVE  Holds(g[Len(seqs)], Len(g[i - 1]) + k, seqs[i][k])
<1> DEFINE n == Len(seqs)
           at == Len(g[i - 1]) + k
           holds(j) == Holds(g[j], at, seqs[i][k])
<1>1. n \in Nat /\ \A j \in 1 .. n : seqs[j] \in Seq(X)
  BY LenProperties
<1>2. ASSUME NEW j \in 1 .. n
      PROVE  /\ g[j - 1] \in Seq(X) /\ g[j] \in Seq(X)
             /\ Len(g[j - 1]) \in Nat /\ Len(seqs[j]) \in Nat
             /\ Len(g[j]) = Len(g[j - 1]) + Len(seqs[j])
             /\ \A m \in 1 .. Len(g[j]) :
                  g[j][m] = IF m <= Len(g[j - 1]) THEN g[j - 1][m] ELSE seqs[j][m - Len(g[j - 1])]
  <2>1. j - 1 \in 0 .. n /\ j \in 0 .. n
    BY <1>1
  <2>2. PICK s, t : s = g[j - 1] /\ t = seqs[j]
    OBVIOUS
  <2>3. s \in Seq(X) /\ t \in Seq(X)
    BY <1>1, <2>1, <2>2
  <2>4. g[j] = s \o t
    BY <2>2
  <2>5. Len(s) \in Nat /\ Len(t) \in Nat
    BY <2>3, LenProperties
  <2>6. /\ s \o t \in Seq(X) /\ Len(s \o t) = Len(s) + Len(t)
        /\ \A m \in 1 .. Len(s) + Len(t) : (s \o t)[m] = IF m <= Len(s) THEN s[m] ELSE t[m - Len(s)]
    BY <2>3, ConcatProperties
  <2>7. PICK u : u = s \o t
    OBVIOUS
  <2>8. /\ u \in Seq(X) /\ Len(u) = Len(s) + Len(t)
        /\ \A m \in 1 .. Len(u) : u[m] = IF m <= Len(s) THEN s[m] ELSE t[m - Len(s)]
    BY <2>6, <2>7
  <2>9. g[j] = u
    BY <2>4, <2>7
  <2>10. QED BY <2>2, <2>3, <2>5, <2>8, <2>9, Zenon
<1>3. holds(i)
  <2>0. PICK a, b, c : a = Len(g[i - 1]) /\ b = Len(seqs[i]) /\ c = Len(g[i])
    OBVIOUS
  <2>1a. a \in Nat /\ b \in Nat /\ c = a + b /\ k \in 1 .. b
    BY <1>2, <2>0
  <2>1b. k \in Nat /\ a + k \in 1 .. c /\ ~ (a + k <= a) /\ a + k - a = k
    BY <2>1a
  <2>1c. at = a + k
    BY <2>0
  <2> HIDE DEF at
  <2>1. at \in 1 .. Len(g[i]) /\ ~ (at <= Len(g[i - 1])) /\ at - Len(g[i - 1]) = k
    <3>1. at \in 1 .. c /\ ~ (at <= a) /\ at - a = k
      BY <2>1a, <2>1b, <2>1c
    <3>2. QED BY <2>0, <3>1
  <2>2. \A m \in 1 .. Len(g[i]) :
          g[i][m] = IF m <= Len(g[i - 1]) THEN g[i - 1][m] ELSE seqs[i][m - Len(g[i - 1])]
    BY <1>2
  <2>3. g[i][at] = seqs[i][k]
    BY <2>1, <2>2
  <2>4. QED BY <2>1, <2>3 DEF Holds
<1>4. ASSUME NEW j \in i .. n PROVE holds(j)
  <2> DEFINE Bad == {m \in i .. n : ~ holds(m)}
  <2>1. SUFFICES ASSUME Bad # {} PROVE FALSE
    OBVIOUS
  <2>2. PICK m \in Bad : \A q \in Bad : m <= q
    <3>1. Bad \in SUBSET Nat
      BY <1>1
    <3>2. QED BY <2>1, <3>1, Lists!LeastNat
  <2>3. m # i
    BY <1>3, <2>2
  <2>4. m - 1 \in i .. n /\ ~ (m <= m - 1) /\ m \in 1 .. n
    <3>1. m \in i .. n /\ i \in 1 .. n
      BY <2>2
    <3> HIDE DEF holds
    <3>2. QED BY <1>1, <2>3, <3>1
  <2>5. holds(m - 1)
    BY <2>2, <2>4
  <2> HIDE DEF at
  <2>6. /\ Len(g[m - 1]) \in Nat /\ Len(seqs[m]) \in Nat
        /\ Len(g[m]) = Len(g[m - 1]) + Len(seqs[m])
        /\ \A q \in 1 .. Len(g[m]) :
             g[m][q] = IF q <= Len(g[m - 1]) THEN g[m - 1][q] ELSE seqs[m][q - Len(g[m - 1])]
    BY <1>2, <2>4
  <2>7. at \in 1 .. Len(g[m]) /\ at <= Len(g[m - 1])
    <3>1. PICK a, b, c, d : a = Len(g[m - 1]) /\ b = Len(seqs[m]) /\ c = Len(g[m]) /\ d = at
      OBVIOUS
    <3>2. a \in Nat /\ b \in Nat /\ c = a + b /\ d \in 1 .. a
      BY <2>5, <2>6, <3>1 DEF Holds
    <3>3. d \in 1 .. c /\ d <= a
      BY <3>2
    <3>4. QED BY <3>1, <3>3
  <2>8. g[m][at] = g[m - 1][at]
    BY <2>6, <2>7
  <2>9. holds(m)
    BY <2>5, <2>7, <2>8 DEF Holds
  <2>10. QED BY <2>2, <2>9
<1>5. n \in i .. n
  BY <1>1
<1>6. holds(n)
  BY <1>4, <1>5
<1>7. QED BY <1>6

\* Rounding up to whole blocks.
LEMMA RoundUp ==
  ASSUME NEW l \in Nat \ {0}, NEW b \in Nat \ {0}, NEW n, n = (l + b - 1) \div b
  PROVE  n \in Nat \ {0} /\ (n - 1) * b < l /\ l <= n * b
<1>1. n \in Int /\ l + b - 1 = b * n + ((l + b - 1) % b) /\ (l + b - 1) % b \in 0 .. b - 1
  OBVIOUS
<1>2. QED BY <1>1

\* Multiples of a natural number grow.
LEMMA Multiples ==
  ASSUME NEW n \in Nat, NEW b \in Nat, NEW i \in 1 .. n
  PROVE  (i - 1) * b \in Nat /\ (i - 1) * b <= (n - 1) * b /\ i * b = (i - 1) * b + b
<1>1. (n - i) * b >= 0 /\ (i - 1) * b >= 0
  OBVIOUS
<1>2. QED BY <1>1

\* A block holds what is between two multiples of its size, or what is left.
LEMMA BlockBounds ==
  ASSUME NEW X, NEW s \in Seq(X), s # << >>, NEW i \in 1 .. BlockCount(s)
  PROVE  /\ BlockCount(s) \in Nat \ {0}
         /\ \E k, m \in 0 .. Len(s) :
              /\ k = (i - 1) * DEFLATE_BLOCK
              /\ m = IF i < BlockCount(s) THEN i * DEFLATE_BLOCK ELSE Len(s)
              /\ k <= m
              /\ BlockAt(s, i) = SubSeq(s, k + 1, m)
<1> DEFINE l == Len(s)
           b == DEFLATE_BLOCK
           n == BlockCount(s)
           k == (i - 1) * b
           m == IF i < n THEN i * b ELSE l
<1>1. l \in Nat \ {0} /\ b \in Nat \ {0} /\ n = (l + b - 1) \div b
  BY EmptySeq, ArchiveAssumption DEF BlockCount
<1> HIDE DEF l, b, n
<1>2. n \in Nat \ {0} /\ (n - 1) * b < l /\ l <= n * b
  BY <1>1, RoundUp
<1>3. i \in 1 .. n
  BY DEF n
<1>4. k \in Nat /\ k <= (n - 1) * b /\ i * b = k + b
  BY <1>1, <1>2, <1>3, Multiples
<1>5. (n - 1) * b \in Int
  BY <1>1, <1>2
<1>6. k \in 0 .. l
  BY <1>1, <1>2, <1>4, <1>5
<1>7. CASE i < n
  <2>1. i + 1 \in 1 .. n
    BY <1>2, <1>3, <1>7
  <2>2. (i + 1 - 1) * b <= (n - 1) * b
    BY <1>1, <1>2, <2>1, Multiples
  <2>3. i * b <= (n - 1) * b
    BY <1>2, <1>3, <2>2
  <2>4. i * b < l
    BY <1>1, <1>2, <1>4, <1>5, <2>3
  <2>5. m = i * b /\ m \in 0 .. l /\ k <= m
    BY <1>1, <1>4, <1>7, <2>4
  <2>6. BlockAt(s, i) = SubSeq(s, k + 1, m)
    BY <2>4, <2>5 DEF BlockAt, b, l
  <2> HIDE DEF m, k
  <2>7. QED BY <1>2, <1>6, <2>5, <2>6 DEF l, n, b, k, m
<1>8. CASE ~ (i < n)
  <2>1. i = n
    BY <1>2, <1>3, <1>8
  <2>2. i * b >= l /\ i * b \in Int
    BY <1>1, <1>2, <2>1
  <2>3. m = l /\ m \in 0 .. l /\ k <= m
    BY <1>1, <1>6, <1>8
  <2>4. ~ (i * b < l)
    BY <1>1, <2>2
  <2> HIDE DEF m, k
  <2>5. BlockAt(s, i) = SubSeq(s, k + 1, m)
    BY <2>3, <2>4 DEF BlockAt, b, l, k
  <2>6. QED BY <1>2, <1>6, <2>3, <2>5 DEF l, n, b, k, m
<1>9. QED BY <1>7, <1>8, Zenon

\* What was stored is what decompression returns, also where the last block is full.
LEMMA StoredRoundTrip ==
  ASSUME NEW X, NEW s \in Seq(X), s # << >>
  PROVE  Inflate(Gzip(s)) = s
<1> DEFINE n == BlockCount(s)
           b == DEFLATE_BLOCK
           parts == [i \in 1 .. n |-> BlockAt(s, i)]
           upto(i) == IF i = 0 THEN 0 ELSE IF i < n THEN i * b ELSE Len(s)
<1>1. Len(s) \in Nat \ {0} /\ b \in Nat \ {0} /\ n \in Nat \ {0}
  <2>1. PICK l, m : l = Len(s) /\ m = n
    OBVIOUS
  <2>2. l \in Nat \ {0} /\ b \in Nat \ {0} /\ m = (l + b - 1) \div b
    BY <2>1, EmptySeq, ArchiveAssumption DEF BlockCount
  <2>3. m \in Nat \ {0}
    BY <2>2, RoundUp
  <2>4. QED BY <2>1, <2>2, <2>3
<1>2. ASSUME NEW i \in 1 .. n
      PROVE  /\ upto(i - 1) \in 0 .. Len(s) /\ upto(i) \in upto(i - 1) .. Len(s)
             /\ BlockAt(s, i) = SubSeq(s, upto(i - 1) + 1, upto(i))
  <2>1. PICK k, m \in 0 .. Len(s) :
          /\ k = (i - 1) * b
          /\ m = IF i < n THEN i * b ELSE Len(s)
          /\ k <= m
          /\ BlockAt(s, i) = SubSeq(s, k + 1, m)
    BY BlockBounds
  <2>2. m = upto(i)
    BY <1>1, <2>1
  <2>3. k = upto(i - 1)
    <3>1. CASE i = 1
      BY <1>1, <2>1, <3>1
    <3>2. CASE i # 1
      BY <1>1, <2>1, <3>2
    <3>3. QED BY <3>1, <3>2
  <2> HIDE DEF upto
  <2>4. k \in 0 .. Len(s) /\ m \in k .. Len(s) /\ BlockAt(s, i) = SubSeq(s, k + 1, m)
    BY <1>1, <2>1
  <2>5. QED BY <2>2, <2>3, <2>4, Zenon
<1>3. upto(0) = 0 /\ upto(n) = Len(s)
  BY <1>1
<1> HIDE DEF upto
<1>4. ASSUME NEW i \in 1 .. n PROVE BlockAt(s, i) \in Seq(X)
  <2>1. PICK k, m : k = upto(i - 1) /\ m = upto(i)
    OBVIOUS
  <2>2. k + 1 \in Int /\ m \in Int /\ \A j \in k + 1 .. m : j \in 1 .. Len(s)
    BY <1>1, <1>2, <2>1
  <2>3. \A j \in k + 1 .. m : s[j] \in X
    BY <2>2, ElementOfSeq
  <2>4. SubSeq(s, k + 1, m) \in Seq(X)
    BY <2>2, <2>3, SubSeqProperties
  <2>5. QED BY <1>2, <2>1, <2>4
<1> HIDE DEF n
<1>5. parts \in Seq(Seq(X)) /\ Len(parts) = n
  BY <1>1, <1>4
<1>6. PICK g \in [0 .. n -> Seq(X)] :
        /\ g[0] = << >>
        /\ \A i \in 1 .. n : g[i] = g[i - 1] \o parts[i]
        /\ FlattenSeq(parts) = g[n]
  <2> HIDE DEF parts
  <2>1. QED BY <1>5, FlattenParts
<1>7. ASSUME NEW i \in 0 .. n PROVE g[i] = SubSeq(s, 1, upto(i))
  <2> DEFINE Bad == {j \in 0 .. n : g[j] # SubSeq(s, 1, upto(j))}
  <2>1. SUFFICES ASSUME Bad # {} PROVE FALSE
    OBVIOUS
  <2>2. PICK j \in Bad : \A q \in Bad : j <= q
    <3>1. Bad \in SUBSET Nat
      BY <1>1
    <3>2. QED BY <2>1, <3>1, Lists!LeastNat
  <2>3. j # 0
    <3>1. SubSeq(s, 1, 0) = << >>
      BY SubSeqEmpty
    <3>2. QED BY <1>3, <1>6, <2>2, <3>1
  <2>4. j \in 1 .. n /\ j - 1 \in 0 .. n /\ ~ (j <= j - 1)
    BY <1>1, <2>2, <2>3
  <2>5. g[j - 1] = SubSeq(s, 1, upto(j - 1))
    BY <2>2, <2>4
  <2>6. g[j] = SubSeq(s, 1, upto(j - 1)) \o SubSeq(s, upto(j - 1) + 1, upto(j))
    BY <1>2, <1>6, <2>4, <2>5
  <2>7. PICK k, m : k = upto(j - 1) /\ m = upto(j)
    OBVIOUS
  <2>8. k \in 1 - 1 .. Len(s) /\ m \in k .. Len(s) /\ 1 \in 1 .. Len(s) + 1
    BY <1>1, <1>2, <2>4, <2>7
  <2>9. SubSeq(s, 1, k) \o SubSeq(s, k + 1, m) = SubSeq(s, 1, m)
    BY <2>8, ConcatAdjacentSubSeq
  <2>10. QED BY <2>2, <2>6, <2>7, <2>9
<1>8. FlattenSeq(parts) = s
  <2>1. n \in 0 .. n
    BY <1>1
  <2>2. g[n] = SubSeq(s, 1, Len(s))
    BY <1>3, <1>7, <2>1
  <2>3. QED BY <1>6, <2>2, SubSeqFull
<1> DEFINE gz == Gzip(s)
           finals == {i \in DOMAIN gz.blocks : gz.blocks[i].final}
<1>9. /\ DOMAIN gz.blocks = 1 .. n
      /\ \A i \in 1 .. n : gz.blocks[i].data = BlockAt(s, i)
      /\ \A i \in 1 .. n : gz.blocks[i].final <=> i = n
  BY DEF Gzip, StoredDeflate, n
<1> HIDE DEF gz
<1>10. n \in 1 .. n
  BY <1>1
<1>11. finals = {n}
  BY <1>9, <1>10
<1>12. (CHOOSE k \in finals : \A j \in finals : k <= j) = n
  <2>1. n <= n
    BY <1>1
  <2> HIDE DEF finals
  <2>2. QED BY <1>11, <2>1
<1>13. Inflate(gz) = FlattenSeq([i \in 1 .. n |-> gz.blocks[i].data])
  <2>1. finals # {}
    BY <1>11
  <2> DEFINE last == CHOOSE k \in finals : \A j \in finals : k <= j
  <2>2. Inflate(gz) = FlattenSeq([i \in 1 .. last |-> gz.blocks[i].data])
    BY <2>1, Zenon DEF Inflate
  <2> HIDE DEF last, finals
  <2>3. last = n
    BY <1>12, Zenon DEF last
  <2>4. QED BY <2>2, <2>3
<1>14. [i \in 1 .. n |-> gz.blocks[i].data] = parts
  BY <1>9
<1>15. QED BY <1>8, <1>13, <1>14 DEF gz

-----------------------------------------------------------------------------
(* The members of a stream *)

\* The member whose header is at a place of a stream.
MemberAt(stream, i) ==
  [path |-> stream[i].field.prefix \o stream[i].field.name, header |-> stream[i],
   data |-> IF stream[i].size = 0 THEN NoFile ELSE stream[i + 1].data]

\* What the reader returns from each place on, by what it returns from later ones.
ReadBody(stream, low, f) ==
  [i \in low .. Len(stream) + 1 |->
     IF i > Len(stream) \/ ~ IsHeader(stream[i]) THEN << >>
     ELSE LET h == stream[i] IN
          IF i + h.size > Len(stream) THEN << >>
          ELSE << [path |-> h.field.prefix \o h.field.name, header |-> h,
                   data |-> IF h.size = 0 THEN NoFile ELSE stream[i + 1].data] >>
               \o f[i + h.size + 1]]

\* The recursive definition of the reader has a solution, from its end backwards.
LEMMA ReaderExists ==
  ASSUME NEW stream, Len(stream) \in Nat,
         \A i \in 1 .. Len(stream) : IsHeader(stream[i]) => stream[i].size \in Nat
  PROVE  \E f : f = ReadBody(stream, 1, f)
<1> DEFINE l == Len(stream)
           low(m) == l + 1 - m
           Bad == {m \in 0 .. l : ~ \E f : f = ReadBody(stream, low(m), f)}
<1>1. ASSUME Bad # {} PROVE FALSE
  <2>1. Bad \in SUBSET Nat
    OBVIOUS
  <2>2. PICK m \in Bad : \A k \in Bad : m <= k
    BY <1>1, <2>1, Lists!LeastNat
  <2>3. m # 0
    <3> DEFINE g == [i \in l + 1 .. l + 1 |-> << >>]
    <3>1. g = ReadBody(stream, l + 1, g)
      BY DEF ReadBody
    <3>2. low(0) = l + 1
      OBVIOUS
    <3>3. \E f : f = ReadBody(stream, low(0), f)
      BY <3>1, <3>2
    <3>4. QED BY <2>2, <3>3
  <2>4. m - 1 \in 0 .. l /\ ~ (m <= m - 1)
    BY <2>2, <2>3
  <2> DEFINE k == low(m)
  <2>5. k \in 1 .. l /\ low(m - 1) = k + 1 /\ m \in 1 .. l
    BY <2>2, <2>3
  <2>6. PICK f : f = ReadBody(stream, k + 1, f)
    BY <2>2, <2>4, <2>5
  <2> HIDE DEF l
  <2>7. l \in Nat
    BY DEF l
  <2> DEFINE value(i) ==
        IF i > l \/ ~ IsHeader(stream[i]) THEN << >>
        ELSE IF i + stream[i].size > l THEN << >>
        ELSE << MemberAt(stream, i) >> \o f[i + stream[i].size + 1]
      g == [i \in k .. l + 1 |-> IF i = k THEN value(k) ELSE f[i]]
  <2>8. ASSUME NEW i \in k + 1 .. l + 1 PROVE f[i] = value(i)
    BY <2>6, <2>8 DEF ReadBody, MemberAt, l
  <2>9. ASSUME NEW i \in k .. l + 1 PROVE g[i] = value(i)
    <3>1. CASE i = k
      BY <3>1
    <3>2. CASE i # k
      <4>1. i \in k + 1 .. l + 1
        BY <2>5, <2>7, <3>2
      <4> HIDE DEF value
      <4>2. QED BY <2>8, <3>2, <4>1
    <3>3. QED BY <3>1, <3>2
  <2>10. ASSUME NEW i \in k .. l + 1, ~ (i > l), IsHeader(stream[i]), ~ (i + stream[i].size > l)
         PROVE  f[i + stream[i].size + 1] = g[i + stream[i].size + 1]
    <3>1. i \in 1 .. l /\ stream[i].size \in Nat
      BY <2>5, <2>7, <2>10 DEF l
    <3>2. i + stream[i].size + 1 \in k .. l + 1 /\ i + stream[i].size + 1 # k
      BY SMTT(30), <2>5, <2>7, <2>10, <3>1
    <3> HIDE DEF value
    <3>3. QED BY <3>2
  <2> DEFINE after(i) ==
        IF i > l \/ ~ IsHeader(stream[i]) THEN << >>
        ELSE IF i + stream[i].size > l THEN << >>
        ELSE << MemberAt(stream, i) >> \o g[i + stream[i].size + 1]
  <2> HIDE DEF g
  <2>11. ASSUME NEW i \in k .. l + 1 PROVE g[i] = after(i)
    BY <2>9, <2>10
  <2>12. g = [i \in k .. l + 1 |-> after(i)]
    <3>1. g = [i \in k .. l + 1 |-> g[i]]
      BY DEF g
    <3> HIDE DEF after
    <3>2. QED BY <2>11, <3>1
  <2>13. g = ReadBody(stream, k, g)
    BY <2>12 DEF ReadBody, MemberAt, l
  <2>14. QED BY <2>2, <2>13
<1>2. l \in 0 .. l /\ low(l) = 1
  OBVIOUS
<1>3. QED BY <1>1, <1>2

\* A stream whose headers have sizes.
IsStream(stream) ==
  /\ Len(stream) \in Nat
  /\ \A i \in 1 .. Len(stream) : IsHeader(stream[i]) => stream[i].size \in Nat

\* What the reader returns, one place at a time.
Reads(stream, f) ==
  \A i \in 1 .. Len(stream) + 1 :
    f[i] = IF i > Len(stream) \/ ~ IsHeader(stream[i]) THEN << >>
           ELSE IF i + stream[i].size > Len(stream) THEN << >>
           ELSE << MemberAt(stream, i) >> \o f[i + stream[i].size + 1]

\* What the reader returns from a place on is fixed by the stream from there on.
LEMMA Reader ==
  ASSUME NEW gz, NEW stream, stream = Inflate(gz), IsStream(stream)
  PROVE  \E f : Members(gz) = f[1] /\ Reads(stream, f)
<1> DEFINE f == CHOOSE f0 : f0 = ReadBody(stream, 1, f0)
<1>1. f = ReadBody(stream, 1, f)
  BY ReaderExists DEF IsStream
<1>2. Members(gz) = f[1]
  BY Zenon DEF Members, ReadBody
<1> HIDE DEF f
<1>3. Reads(stream, f)
  BY <1>1 DEF ReadBody, MemberAt, Reads
<1>4. QED BY <1>2, <1>3

\* A function on 1 .. n into a set is a sequence over it.
LEMMA SequenceOf ==
  ASSUME NEW M, NEW n \in Nat, NEW f \in [1 .. n -> M]
  PROVE  f \in Seq(M) /\ Len(f) = n
OBVIOUS

\* What is in the second of two sequences, one after the other.
LEMMA ConcatRight ==
  ASSUME NEW X, NEW s \in Seq(X), NEW t \in Seq(X), NEW m \in Nat, Len(s) = m, NEW k \in 1 .. Len(t)
  PROVE  (s \o t)[m + k] = t[k]
<1>1. PICK n : n = Len(t)
  OBVIOUS
<1>2. n \in Nat
  BY <1>1, LenProperties
<1>3. m + k \in 1 .. m + n /\ ~ (m + k <= m) /\ m + k - m = k
  BY <1>1, <1>2
<1>4. \A j \in 1 .. m + n : (s \o t)[j] = IF j <= m THEN s[j] ELSE t[j - m]
  BY <1>1, ConcatProperties
<1>5. QED BY <1>3, <1>4


\* What a sequence with one more at its head has where.
LEMMA Consed ==
  ASSUME NEW X, NEW x \in X, NEW t \in Seq(X)
  PROVE  /\ << x >> \o t \in Seq(X) /\ Len(<< x >> \o t) = 1 + Len(t)
         /\ (<< x >> \o t)[1] = x
         /\ \A j \in 1 .. Len(t) : (<< x >> \o t)[1 + j] = t[j]
<1>1. PICK s : s = << x >>
  OBVIOUS
<1>2. s \in Seq(X) /\ Len(s) = 1 /\ s[1] = x /\ 1 \in Nat
  BY <1>1
<1>3. s \o t \in Seq(X) /\ Len(s \o t) = 1 + Len(t)
  BY <1>2, ConcatProperties
<1>4. (s \o t)[1] = x
  BY <1>2, ConcatProperties, LenProperties
<1>5. ASSUME NEW j \in 1 .. Len(t) PROVE (s \o t)[1 + j] = t[j]
  <2>1. PICK m \in Nat : Len(s) = m
    BY <1>2
  <2>2. (s \o t)[m + j] = t[j]
    BY <1>2, <2>1, ConcatRight
  <2>3. QED BY <1>2, <2>1, <2>2
<1>6. QED BY <1>1, <1>3, <1>4, <1>5

\* What a sequence with a pair at its end has where.
LEMMA TwoAtEnd ==
  ASSUME NEW X, NEW x \in X, NEW s \in Seq(X)
  PROVE  /\ s \o << x, x >> \in Seq(X) /\ Len(s \o << x, x >>) = Len(s) + 2 /\ Len(s) \in Nat
         /\ \A k \in 1 .. Len(s) : (s \o << x, x >>)[k] = s[k]
         /\ (s \o << x, x >>)[Len(s) + 1] = x
<1>1. PICK t : t = << x, x >>
  OBVIOUS
<1>2. t \in Seq(X) /\ Len(t) = 2 /\ t[1] = x /\ 1 \in 1 .. Len(t)
  BY <1>1
<1>3. s \o t \in Seq(X) /\ Len(s \o t) = Len(s) + 2
  <2>1. s \o t \in Seq(X) /\ Len(s \o t) = Len(s) + Len(t)
    BY <1>2, ConcatProperties
  <2>2. QED BY <1>2, <2>1
<1>4. PICK m \in Nat : Len(s) = m
  BY LenProperties
<1>5. (s \o t)[m + 1] = t[1]
  <2>1. PICK k \in 1 .. Len(t) : k = 1
    BY <1>2
  <2>2. t \in Seq(X)
    BY <1>2
  <2>3. (s \o t)[m + k] = t[k]
    BY <1>4, <2>2, ConcatRight
  <2>4. QED BY <2>1, <2>3
<1>6. \A k \in 1 .. Len(s) : (s \o t)[k] = s[k]
  BY <1>2, ConcatProperties, LenProperties
<1>7. QED BY <1>1, <1>2, <1>3, <1>4, <1>5, <1>6

\* A part of a stream that is one member: a header and as many blocks as it says.
IsMemberPart(part) ==
  /\ IsHeader(part[1]) /\ part[1].size \in Nat
  /\ Len(part) = part[1].size + 1

\* The member that is read of such a part.
PartMember(part) ==
  [path |-> part[1].field.prefix \o part[1].field.name, header |-> part[1],
   data |-> IF part[1].size = 0 THEN NoFile ELSE part[2].data]

\* A stream of parts and two end blocks is read as one member for each part.
LEMMA PartsRead ==
  ASSUME NEW X, \A b \in X : IsHeader(b) => b.size \in Nat, EndBlock \in X,
         NEW parts \in Seq(Seq(X)), \A i \in 1 .. Len(parts) : IsMemberPart(parts[i]),
         NEW gz, Inflate(gz) = FlattenSeq(parts) \o << EndBlock, EndBlock >>
  PROVE  Members(gz) = [i \in 1 .. Len(parts) |-> PartMember(parts[i])]
<1> DEFINE n == Len(parts)
<1>1. n \in Nat /\ \A i \in 1 .. n : parts[i] \in Seq(X)
  BY LenProperties
<1>2. PICK g \in [0 .. n -> Seq(X)] :
        /\ g[0] = << >>
        /\ \A i \in 1 .. n : g[i] = g[i - 1] \o parts[i]
        /\ FlattenSeq(parts) = g[n]
  BY FlattenParts
<1> DEFINE end == Len(g[n])
           start(i) == Len(g[i - 1]) + 1
           tail == << EndBlock, EndBlock >>
<1>3. PICK stream : stream = g[n] \o tail
  OBVIOUS
<1>4. \A i \in 0 .. n : g[i] \in Seq(X) /\ Len(g[i]) \in Nat
  BY LenProperties
<1>5. /\ stream \in Seq(X) /\ Len(stream) = end + 2 /\ end \in Nat
      /\ \A k \in 1 .. end : stream[k] = g[n][k]
      /\ stream[end + 1] = EndBlock
  <2>1. PICK s : s = g[n]
    OBVIOUS
  <2>2. n \in 0 .. n
    BY <1>1
  <2>3. s \in Seq(X) /\ Len(s) \in Nat
    BY <1>4, <2>1, <2>2
  <2>4. /\ s \o tail \in Seq(X) /\ Len(s \o tail) = Len(s) + 2
        /\ \A k \in 1 .. Len(s) : (s \o tail)[k] = s[k]
        /\ (s \o tail)[Len(s) + 1] = EndBlock
    BY <2>3, TwoAtEnd
  <2> HIDE DEF tail
  <2>5. stream = s \o tail
    BY <1>3, <2>1
  <2>6. QED BY <2>1, <2>3, <2>4, <2>5
<1>6. IsStream(stream)
  BY <1>5, ElementOfSeq DEF IsStream
<1>7. stream = Inflate(gz)
  BY <1>2, <1>3
<1>8. PICK f : Members(gz) = f[1] /\ Reads(stream, f)
  BY <1>6, <1>7, Reader
<1>9. \A i \in 1 .. Len(stream) + 1 :
        f[i] = IF i > Len(stream) \/ ~ IsHeader(stream[i]) THEN << >>
               ELSE IF i + stream[i].size > Len(stream) THEN << >>
               ELSE << MemberAt(stream, i) >> \o f[i + stream[i].size + 1]
  BY <1>8 DEF Reads
<1>10. ASSUME NEW i \in 1 .. n
       PROVE  /\ start(i) \in 1 .. end
              /\ stream[start(i)] = parts[i][1]
              /\ start(i + 1) = start(i) + parts[i][1].size + 1
              /\ start(i) + parts[i][1].size \in 1 .. end
              /\ MemberAt(stream, start(i)) = PartMember(parts[i])
  <2>1. IsHeader(parts[i][1]) /\ parts[i][1].size \in Nat /\ Len(parts[i]) = parts[i][1].size + 1
    BY DEF IsMemberPart
  <2>2. i - 1 \in 0 .. n /\ i \in 0 .. n /\ i + 1 - 1 = i
    BY <1>1
  <2>3. PICK size, at : size = parts[i][1].size /\ at = Len(g[i - 1])
    OBVIOUS
  <2>4. size \in Nat /\ at \in Nat
    BY <1>4, <2>1, <2>2, <2>3
  <2>5. ASSUME NEW k \in 1 .. size + 1
        PROVE  at + k \in 1 .. end /\ stream[at + k] = parts[i][k]
    <3>1. k \in 1 .. Len(parts[i])
      BY <2>1, <2>3
    <3>2. Len(g[i - 1]) + k \in 1 .. Len(g[n]) /\ g[n][Len(g[i - 1]) + k] = parts[i][k]
      <4>1. PICK l : l = Len(parts)
        OBVIOUS
      <4>2. /\ g \in [0 .. Len(parts) -> Seq(X)] /\ i \in 1 .. Len(parts)
            /\ \A j \in 1 .. Len(parts) : g[j] = g[j - 1] \o parts[j]
        BY <1>2
      <4>3. Holds(g[Len(parts)], Len(g[i - 1]) + k, parts[i][k])
        BY <3>1, <4>2, PartAt
      <4>4. QED BY <4>3 DEF Holds
    <3>3. QED BY <1>5, <2>3, <3>2
  <2>6. Len(g[i]) = at + (size + 1)
    <3>1. PICK s, t : s = g[i - 1] /\ t = parts[i]
      OBVIOUS
    <3>2. s \in Seq(X) /\ t \in Seq(X) /\ g[i] = s \o t
      BY <1>1, <1>2, <2>2, <3>1
    <3>3. Len(g[i]) = Len(s) + Len(t)
      BY <3>2, ConcatProperties
    <3>4. QED BY <2>1, <2>3, <3>1, <3>3
  <2>7. 1 \in 1 .. size + 1 /\ size + 1 \in 1 .. size + 1
    BY <2>4
  <2>8. at + 1 \in 1 .. end /\ stream[at + 1] = parts[i][1]
    BY <2>5, <2>7
  <2>9. start(i) = at + 1 /\ start(i + 1) = at + (size + 1) + 1
    BY <2>2, <2>3, <2>6
  <2>10. start(i + 1) = start(i) + size + 1
    BY <2>4, <2>9
  <2>11. at + (size + 1) \in 1 .. end
    BY <2>5, <2>7
  <2>12. start(i) + size \in 1 .. end
    BY <2>4, <2>9, <2>11
  <2>13. size # 0 => stream[at + 1 + 1] = parts[i][2]
    <3>1. SUFFICES ASSUME size # 0 PROVE stream[at + 1 + 1] = parts[i][2]
      OBVIOUS
    <3>2. 2 \in 1 .. size + 1 /\ at + 1 + 1 = at + 2
      BY <2>4, <3>1
    <3>3. QED BY <2>5, <3>2
  <2>14. MemberAt(stream, at + 1) = PartMember(parts[i])
    <3>1. PICK h : h = parts[i][1]
      OBVIOUS
    <3>2. stream[at + 1] = h /\ h.size = size
      BY <2>3, <2>8, <3>1
    <3>3. MemberAt(stream, at + 1) =
            [path |-> h.field.prefix \o h.field.name, header |-> h,
             data |-> IF size = 0 THEN NoFile ELSE stream[at + 1 + 1].data]
      BY <3>2 DEF MemberAt
    <3>4. PartMember(parts[i]) =
            [path |-> h.field.prefix \o h.field.name, header |-> h,
             data |-> IF size = 0 THEN NoFile ELSE parts[i][2].data]
      BY <3>1, <3>2 DEF PartMember
    <3>5. (IF size = 0 THEN NoFile ELSE stream[at + 1 + 1].data) =
            (IF size = 0 THEN NoFile ELSE parts[i][2].data)
      BY <2>13
    <3>6. QED BY <3>3, <3>4, <3>5
  <2> HIDE DEF start
  <2>15. QED BY <2>3, <2>8, <2>9, <2>10, <2>12, <2>14
<1> DEFINE rest(i) == [j \in 1 .. n + 1 - i |-> PartMember(parts[i + j - 1])]
<1>11. ASSUME NEW m \in 0 .. n PROVE f[start(n + 1 - m)] = rest(n + 1 - m)
  <2> DEFINE Bad == {q \in 0 .. n : f[start(n + 1 - q)] # rest(n + 1 - q)}
  <2>1. SUFFICES ASSUME Bad # {} PROVE FALSE
    OBVIOUS
  <2>2. PICK q \in Bad : \A r \in Bad : q <= r
    <3>1. Bad \in SUBSET Nat
      BY <1>1
    <3>2. QED BY <2>1, <3>1, Lists!LeastNat
  <2>3. q # 0
    <3>1. start(n + 1 - 0) = end + 1
      BY <1>1
    <3>2. ~ IsHeader(EndBlock)
      BY DEF IsHeader, EndBlock
    <3>3. end + 1 \in 1 .. Len(stream) + 1 /\ ~ IsHeader(stream[end + 1])
      BY <1>5, <3>2
    <3>4. f[end + 1] = << >>
      BY <1>9, <3>3
    <3>5. rest(n + 1 - 0) = << >>
      BY <1>1
    <3> HIDE DEF rest, start
    <3>6. QED BY <2>2, <3>1, <3>4, <3>5
  <2> DEFINE i == n + 1 - q
  <2>4. i \in 1 .. n /\ q - 1 \in 0 .. n /\ ~ (q <= q - 1) /\ n + 1 - (q - 1) = i + 1
    BY <1>1, <2>2, <2>3
  <2>5. f[start(i + 1)] = rest(i + 1)
    <3> HIDE DEF start, rest
    <3>1. f[start(n + 1 - (q - 1))] = rest(n + 1 - (q - 1))
      BY <2>2, <2>4
    <3>2. QED BY <2>4, <3>1
  <2> HIDE DEF i
  <2>6. PICK at, h : at = start(i) /\ h = parts[i][1]
    OBVIOUS
  <2>7. /\ at \in 1 .. end /\ stream[at] = h /\ start(i + 1) = at + h.size + 1
        /\ at + h.size \in 1 .. end /\ MemberAt(stream, at) = PartMember(parts[i])
    <3> HIDE DEF start
    <3>1. QED BY <1>10, <2>4, <2>6
  <2>8. IsHeader(h) /\ h.size \in Nat
    BY <2>4, <2>6 DEF IsMemberPart
  <2>9. at \in 1 .. Len(stream) + 1 /\ ~ (at > Len(stream)) /\ ~ (at + h.size > Len(stream))
    <3>1. PICK e, l, z : e = end /\ l = Len(stream) /\ z = h.size
      OBVIOUS
    <3>2. e \in Nat /\ l = e + 2 /\ z \in Nat /\ at \in 1 .. e /\ at + z \in 1 .. e
      BY <1>5, <2>7, <2>8, <3>1
    <3>3. at \in 1 .. l + 1 /\ ~ (at > l) /\ ~ (at + z > l)
      BY <3>2
    <3>4. QED BY <3>1, <3>3
  <2>10. f[at] = << MemberAt(stream, at) >> \o f[at + h.size + 1]
    BY <1>9, <2>7, <2>8, <2>9
  <2>11. f[at] = << PartMember(parts[i]) >> \o rest(i + 1)
    <3> HIDE DEF rest, start
    <3>1. QED BY <2>5, <2>7, <2>10
  <2>12. << PartMember(parts[i]) >> \o rest(i + 1) = rest(i)
    <3> DEFINE M == {PartMember(parts[j]) : j \in 1 .. n}
               s == << PartMember(parts[i]) >>
               t == rest(i + 1)
               u == rest(i)
    <3>1. \A j \in 1 .. n : PartMember(parts[j]) \in M
      OBVIOUS
    <3>2. /\ t = [j \in 1 .. n + 1 - (i + 1) |-> PartMember(parts[i + 1 + j - 1])]
          /\ u = [j \in 1 .. n + 1 - i |-> PartMember(parts[i + j - 1])]
      OBVIOUS
    <3>3. PICK l : l = n
      OBVIOUS
    <3>4. l \in Nat /\ i \in 1 .. l
      BY <1>1, <2>4, <3>3
    <3>5. /\ l - i \in Nat /\ l + 1 - (i + 1) = l - i /\ l + 1 - i = 1 + (l - i)
          /\ \A j \in 1 .. l - i : i + 1 + j - 1 = i + j /\ i + j \in 1 .. l
          /\ \A j \in 1 .. 1 + (l - i) : i + j - 1 \in 1 .. l
      BY <3>4
    <3> HIDE DEF M, s, t, u, rest
    <3>6. t = [j \in 1 .. l - i |-> PartMember(parts[i + j])]
      BY <3>2, <3>3, <3>5
    <3>7. u = [j \in 1 .. 1 + (l - i) |-> PartMember(parts[i + j - 1])]
      BY <3>2, <3>3, <3>5
    <3>8. \A j \in 1 .. l - i : PartMember(parts[i + j]) \in M
      BY <3>1, <3>3, <3>5
    <3>9. \A j \in 1 .. 1 + (l - i) : PartMember(parts[i + j - 1]) \in M
      BY <3>1, <3>3, <3>5
    <3>10. t \in Seq(M) /\ Len(t) = l - i
      <4>1. PICK b : b = l - i
        OBVIOUS
      <4>2. b \in Nat /\ t = [j \in 1 .. b |-> PartMember(parts[i + j])]
        BY <3>5, <3>6, <4>1
      <4>3. t \in [1 .. b -> M]
        BY <3>8, <4>1, <4>2
      <4>4. QED BY <4>1, <4>2, <4>3, SequenceOf
    <3>11. u \in Seq(M) /\ Len(u) = 1 + (l - i)
      <4>1. PICK b : b = 1 + (l - i)
        OBVIOUS
      <4>2. b \in Nat /\ u = [j \in 1 .. b |-> PartMember(parts[i + j - 1])]
        BY <3>5, <3>7, <4>1
      <4>3. u \in [1 .. b -> M]
        BY <3>9, <4>1, <4>2
      <4>4. u \in Seq(M) /\ Len(u) = b
        BY <4>2, <4>3, SequenceOf
      <4>5. QED BY <4>1, <4>4
    <3>12. s \in Seq(M) /\ Len(s) = 1 /\ s[1] = PartMember(parts[i])
      <4>1. PartMember(parts[i]) \in M
        BY <2>4, <3>1
      <4>2. QED BY <4>1 DEF s
    <3>13. PICK v : v = s \o t
      OBVIOUS
    <3>14. /\ v \in Seq(M) /\ Len(v) = 1 + (l - i)
           /\ v[1] = s[1]
           /\ \A j \in 1 .. l - i : v[1 + j] = t[j]
      <4>1. PICK x : x = PartMember(parts[i])
        OBVIOUS
      <4>2. x \in M /\ s = << x >>
        BY <2>4, <3>1, <4>1 DEF s
      <4>3. /\ << x >> \o t \in Seq(M) /\ Len(<< x >> \o t) = 1 + Len(t)
            /\ (<< x >> \o t)[1] = x
            /\ \A j \in 1 .. Len(t) : (<< x >> \o t)[1 + j] = t[j]
        BY <3>10, <4>2, Consed
      <4>4. v = << x >> \o t
        BY <3>13, <4>2
      <4>5. QED BY <3>10, <3>12, <4>1, <4>3, <4>4
    <3>15. ASSUME NEW j \in 1 .. 1 + (l - i) PROVE v[j] = u[j]
      <4>1. u[j] = PartMember(parts[i + j - 1])
        BY <3>7
      <4>2. CASE j = 1
        <5>1. i + j - 1 = i
          BY <3>4, <4>2
        <5>2. QED BY <3>12, <3>14, <4>1, <4>2, <5>1
      <4>3. CASE j # 1
        <5>1. j - 1 \in 1 .. l - i /\ 1 + (j - 1) = j /\ i + (j - 1) = i + j - 1
          BY <3>4, <3>5, <4>3
        <5>2. v[j] = t[j - 1]
          BY <3>14, <5>1
        <5>3. t[j - 1] = PartMember(parts[i + (j - 1)])
          BY <3>6, <5>1
        <5>4. QED BY <4>1, <5>1, <5>2, <5>3
      <4>4. QED BY <4>2, <4>3
    <3>16. v = u
      BY <3>11, <3>14, <3>15, SeqEqual
    <3>17. QED BY <3>13, <3>16 DEF s, t, u
  <2>13. f[start(i)] = rest(i)
    <3> HIDE DEF rest, start
    <3>1. QED BY <2>6, <2>11, <2>12
  <2> HIDE DEF rest, start
  <2>14. QED BY <2>2, <2>13 DEF i
<1>12. f[1] = rest(1)
  <2>1. n \in 0 .. n /\ n + 1 - n = 1
    BY <1>1
  <2>2. start(1) = 1
    BY <1>2
  <2> HIDE DEF start, rest
  <2>3. f[start(1)] = rest(1)
    BY <1>11, <2>1
  <2>4. QED BY <2>2, <2>3
<1>13. rest(1) = [i \in 1 .. n |-> PartMember(parts[i])]
  <2>1. n + 1 - 1 = n /\ \A j \in 1 .. n : 1 + j - 1 = j
    BY <1>1
  <2>2. QED BY <2>1
<1>14. QED BY <1>8, <1>12, <1>13

-----------------------------------------------------------------------------
(* The members of an archive *)

\* A path that fits is what its two fields put together are.
LEMMA UstarJoins ==
  ASSUME NEW E, NEW path \in Seq(E), NEW dir, Fits(path, dir)
  PROVE  UstarName(path, dir).prefix \o UstarName(path, dir).name = path
<1>1. CASE WidthOf(path, dir) <= NameField
  <2>1. UstarName(path, dir).prefix = << >> /\ UstarName(path, dir).name = path
    BY <1>1 DEF UstarName
  <2>2. << >> \o path = path
    BY ConcatEmptySeq
  <2>3. QED BY <2>1, <2>2
<1>2. CASE ~ (WidthOf(path, dir) <= NameField)
  <2> DEFINE S == Splits(path, dir)
             k == CHOOSE k \in S : \A j \in S : j <= k
             l == Len(path)
  <2>1. l \in Nat
    BY LenProperties
  <2>2. S # {} /\ S \subseteq 1 .. l - 1
    BY <1>2 DEF Fits, Splits
  <2>3. \E m \in S : \A j \in S : j <= m
    <3> DEFINE D == {l - j : j \in S}
    <3> HIDE DEF S, l
    <3>1. D \in SUBSET Nat /\ D # {}
      <4>1. ASSUME NEW j \in S PROVE l - j \in Nat
        BY <2>1, <2>2
      <4>2. QED BY <2>2, <4>1
    <3>2. PICK d \in D : \A e \in D : d <= e
      BY <3>1, Lists!LeastNat
    <3>3. PICK m \in S : d = l - m
      BY <3>2
    <3>4. ASSUME NEW j \in S PROVE j <= m
      <4>1. l - j \in D
        OBVIOUS
      <4>2. l - m <= l - j
        BY <3>2, <3>3, <4>1
      <4>3. QED BY <2>1, <2>2, <4>2
    <3>5. QED BY <3>4
  <2>4. k \in S
    <3> HIDE DEF S
    <3>1. QED BY <2>3
  <2>5. /\ UstarName(path, dir).prefix = SubSeq(path, 1, k)
        /\ UstarName(path, dir).name = SubSeq(path, k + 1, l)
    BY <1>2 DEF UstarName
  <2> HIDE DEF k, S
  <2>6. 1 \in 1 .. l + 1 /\ k \in 1 - 1 .. l /\ l \in k .. l
    BY <2>1, <2>2, <2>4
  <2>7. SubSeq(path, 1, k) \o SubSeq(path, k + 1, l) = SubSeq(path, 1, l)
    BY <2>6, ConcatAdjacentSubSeq
  <2>8. SubSeq(path, 1, l) = path
    BY SubSeqFull
  <2>9. QED BY <2>5, <2>7, <2>8
<1>3. QED BY <1>1, <1>2

\* The blocks that may be in a member.
BlocksOf(header, data) == {header} \cup {[data |-> data, part |-> i] : i \in 1 .. header.size}

\* A member is its header and as many blocks of its contents as the header says.
LEMMA MemberBlocksAre ==
  ASSUME NEW header, NEW data, header.size \in Nat
  PROVE  /\ MemberBlocks(header, data) \in Seq(BlocksOf(header, data))
         /\ Len(MemberBlocks(header, data)) = header.size + 1
         /\ MemberBlocks(header, data)[1] = header
         /\ header.size # 0 => MemberBlocks(header, data)[2] = [data |-> data, part |-> 1]
<1> DEFINE X == BlocksOf(header, data)
<1>1. PICK size \in Nat : size = header.size
  OBVIOUS
<1> DEFINE t == [i \in 1 .. size |-> [data |-> data, part |-> i]]
<1>2. header \in X /\ t \in [1 .. size -> X]
  BY <1>1 DEF BlocksOf
<1>3. size # 0 => t[1] = [data |-> data, part |-> 1]
  OBVIOUS
<1>4. MemberBlocks(header, data) = << header >> \o t
  BY <1>1 DEF MemberBlocks
<1> HIDE DEF t, X
<1>5. t \in Seq(X) /\ Len(t) = size
  BY <1>2, SequenceOf
<1>6. PICK v : v = << header >> \o t
  OBVIOUS
<1>7. /\ v \in Seq(X) /\ Len(v) = 1 + Len(t) /\ v[1] = header
      /\ \A j \in 1 .. Len(t) : v[1 + j] = t[j]
  BY <1>2, <1>5, <1>6, Consed
<1>8. size # 0 => v[2] = t[1]
  <2>1. SUFFICES ASSUME size # 0 PROVE v[2] = t[1]
    OBVIOUS
  <2>2. 1 \in 1 .. Len(t) /\ 1 + 1 = 2
    BY <1>1, <1>5, <2>1
  <2>3. v[1 + 1] = t[1]
    BY <1>7, <2>2
  <2>4. QED BY <2>2, <2>3
<1>9. Len(v) = size + 1
  BY <1>1, <1>5, <1>7
<1>10. QED BY <1>1, <1>3, <1>4, <1>6, <1>7, <1>8, <1>9 DEF X

\* A header has a size, and a member is read back from its blocks.
LEMMA MemberReadBack ==
  ASSUME NEW header, NEW data, header.size \in Nat, IsHeader(header)
  PROVE  /\ IsMemberPart(MemberBlocks(header, data))
         /\ PartMember(MemberBlocks(header, data)) =
              [path |-> header.field.prefix \o header.field.name, header |-> header,
               data |-> IF header.size = 0 THEN NoFile ELSE data]
         /\ \A b \in BlocksOf(header, data) : IsHeader(b) => b.size \in Nat
<1> DEFINE part == MemberBlocks(header, data)
<1>1. /\ Len(part) = header.size + 1 /\ part[1] = header
      /\ header.size # 0 => part[2] = [data |-> data, part |-> 1]
  BY MemberBlocksAre
<1> HIDE DEF part
<1>2. IsMemberPart(part)
  BY <1>1 DEF IsMemberPart
<1>3. (IF header.size = 0 THEN NoFile ELSE part[2].data) = (IF header.size = 0 THEN NoFile ELSE data)
  BY <1>1
<1>4. PartMember(part) = [path |-> header.field.prefix \o header.field.name, header |-> header,
                          data |-> IF header.size = 0 THEN NoFile ELSE part[2].data]
  BY <1>1 DEF PartMember
<1>5. ASSUME NEW b \in BlocksOf(header, data), IsHeader(b) PROVE b.size \in Nat
  <2>1. ~ \E i \in 1 .. header.size : b = [data |-> data, part |-> i]
    BY <1>5 DEF IsHeader
  <2>2. b = header
    BY <2>1 DEF BlocksOf
  <2>3. QED BY <2>2
<1>6. QED BY <1>2, <1>3, <1>4, <1>5 DEF part

\* Contents for the files of a commit: its own, or what is read in their place.
Fills(contents, c) == \A p \in FilesOf(c) : contents[p] \in DOMAIN Blocks

\* The header of a path of a listing of a commit.
LEMMA HeaderTyped ==
  ASSUME NEW c \in Trees, NEW contents, Fills(contents, c), NEW time,
         NEW a \in ArchivePaths(Tracked(c))
  PROVE  /\ MemberHeader(a, Tracked(c), contents, time).size \in Nat
         /\ IsHeader(MemberHeader(a, Tracked(c), contents, time))
<1> DEFINE listing == Tracked(c)
<1>1. DOMAIN listing = FilesOf(c)
  BY DEF Tracked
<1>2. ASSUME NEW p \in FilesOf(c)
      PROVE  contents[p] \in DOMAIN Blocks /\ Blocks[contents[p]] \in Nat
  BY ArchiveAssumption DEF Fills
<1>3. ~ a[2] => a[1] \in FilesOf(c)
  BY <1>1 DEF ArchivePaths
<1> HIDE DEF listing
<1>4. CASE a[2]
  BY <1>4 DEF MemberHeader, Header, IsHeader
<1>5. CASE ~ a[2] /\ listing[a[1]] = "120000"
  BY <1>5 DEF MemberHeader, Header, IsHeader, listing
<1>6. CASE ~ a[2] /\ listing[a[1]] # "120000"
  BY <1>2, <1>3, <1>6 DEF MemberHeader, Header, IsHeader, listing
<1>7. QED BY <1>4, <1>5, <1>6

\* The member that is read back of a path that was written.
StoredMember(a, listing, contents, time) ==
  [path |-> a[1], header |-> MemberHeader(a, listing, contents, time),
   data |-> IF MemberHeader(a, listing, contents, time).size = 0 THEN NoFile ELSE contents[a[1]]]

\* The path in a header of an archive that may be built.
LEMMA HeaderPath ==
  ASSUME NEW c \in Trees, NEW contents, NEW time, Archivable(Tracked(c), contents),
         NEW a \in ArchivePaths(Tracked(c))
  PROVE  MemberHeader(a, Tracked(c), contents, time).field.prefix
           \o MemberHeader(a, Tracked(c), contents, time).field.name = a[1]
<1> DEFINE listing == Tracked(c)
           h == MemberHeader(a, listing, contents, time)
<1>1. DOMAIN listing = FilesOf(c) /\ FilesOf(c) \subseteq Path /\ Path \subseteq Seq(DOMAIN Width)
  BY ArchiveAssumption DEF Tracked, FilesOf
<1>2. CASE a[2]
  <2>1. a[1] \in TrackedDirs(FilesOf(c))
    BY <1>1, <1>2 DEF ArchivePaths
  <2>2. PICK p \in FilesOf(c) : \E i \in 1 .. Len(p) - 1 : a[1] = SubSeq(p, 1, i)
    BY <2>1 DEF TrackedDirs
  <2>3. a[1] \in Seq(DOMAIN Width)
    <3>1. p \in Seq(DOMAIN Width) /\ Len(p) \in Nat
      BY <1>1, LenProperties
    <3>2. PICK i \in 1 .. Len(p) - 1 : a[1] = SubSeq(p, 1, i)
      BY <2>2
    <3>3. i \in Int /\ \A j \in 1 .. i : j \in 1 .. Len(p)
      BY <3>1
    <3>4. \A j \in 1 .. i : p[j] \in DOMAIN Width
      BY <3>1, <3>3, ElementOfSeq
    <3>5. SubSeq(p, 1, i) \in Seq(DOMAIN Width)
      BY <3>3, <3>4, SubSeqProperties
    <3>6. QED BY <3>2, <3>5
  <2>4. Fits(a[1], TRUE)
    BY <1>1, <2>1 DEF Archivable
  <2>5. h.field = UstarName(a[1], TRUE)
    BY <1>2 DEF MemberHeader, Header
  <2>6. QED BY <2>3, <2>4, <2>5, UstarJoins
<1>3. CASE ~ a[2]
  <2>1. a[1] \in FilesOf(c)
    BY <1>1, <1>3 DEF ArchivePaths
  <2>2. a[1] \in Seq(DOMAIN Width)
    BY <1>1, <2>1
  <2>3. Fits(a[1], FALSE)
    BY <1>1, <2>1 DEF Archivable
  <2>4. h.field = UstarName(a[1], FALSE)
    BY <1>3 DEF MemberHeader, Header
  <2>5. QED BY <2>2, <2>3, <2>4, UstarJoins
<1>4. QED BY <1>2, <1>3

\* Reading an archive gives back what was written: one member for each path of the
\* commit, in their order, whatever the blocks it was cut into.
THEOREM ArchiveRoundTrip ==
  ASSUME NEW c \in Trees, NEW contents, Fills(contents, c), NEW time,
         Archivable(Tracked(c), contents)
  PROVE  Members(ArchiveBytes(Tracked(c), contents, time)) =
           [i \in 1 .. Cardinality(ArchivePaths(Tracked(c))) |->
              StoredMember(ExpectedOrder(Tracked(c))[i], Tracked(c), contents, time)]
<1> DEFINE listing == Tracked(c)
           paths == ArchivePaths(listing)
           n == Cardinality(paths)
           order == ExpectedOrder(listing)
           header(i) == MemberHeader(order[i], listing, contents, time)
           data(i) == contents[order[i][1]]
           parts == [i \in 1 .. n |-> MemberBlocks(header(i), data(i))]
           X == (UNION {BlocksOf(header(i), data(i)) : i \in 1 .. n}) \cup {EndBlock}
<1>1. IsFiniteSet(paths) /\ paths \subseteq ArchivePath /\ n \in Nat
  BY ArchivePathsFinite, FS_CardinalityType
<1>2. \A i \in 1 .. n : order[i] \in paths
  BY <1>1, OrderEnumerates
<1>3. DOMAIN order = 1 .. n
  BY DEF ExpectedOrder
<1>4. ASSUME NEW i \in 1 .. n PROVE header(i).size \in Nat /\ IsHeader(header(i))
  BY <1>2, HeaderTyped
<1>5. ASSUME NEW i \in 1 .. n
      PROVE  header(i).field.prefix \o header(i).field.name = order[i][1]
  BY <1>2, HeaderPath
<1>6. TarStream(listing, contents, time) = FlattenSeq(parts) \o << EndBlock, EndBlock >>
  BY <1>3 DEF TarStream
<1> HIDE DEF listing, paths, n, order, header, data
<1>7. ASSUME NEW i \in 1 .. n
      PROVE  /\ parts[i] \in Seq(X) /\ IsMemberPart(parts[i])
             /\ PartMember(parts[i]) = StoredMember(order[i], listing, contents, time)
             /\ \A b \in BlocksOf(header(i), data(i)) : IsHeader(b) => b.size \in Nat
  <2>1. parts[i] = MemberBlocks(header(i), data(i))
    OBVIOUS
  <2>2. PICK h, d : h = header(i) /\ d = data(i)
    OBVIOUS
  <2>3. h.size \in Nat /\ IsHeader(h) /\ h.field.prefix \o h.field.name = order[i][1]
    BY <1>4, <1>5, <2>2
  <2>4. MemberBlocks(h, d) \in Seq(BlocksOf(h, d))
    BY <2>3, MemberBlocksAre
  <2>5. BlocksOf(h, d) \subseteq X
    BY <2>2
  <2> HIDE DEF X, parts
  <2>6. MemberBlocks(h, d) \in Seq(X)
    BY <2>4, <2>5, SeqMonotonic
  <2>7. /\ IsMemberPart(MemberBlocks(h, d))
        /\ PartMember(MemberBlocks(h, d)) =
             [path |-> h.field.prefix \o h.field.name, header |-> h,
              data |-> IF h.size = 0 THEN NoFile ELSE d]
        /\ \A b \in BlocksOf(h, d) : IsHeader(b) => b.size \in Nat
    BY <2>3, MemberReadBack
  <2>8. StoredMember(order[i], listing, contents, time) =
          [path |-> order[i][1], header |-> h, data |-> IF h.size = 0 THEN NoFile ELSE d]
    BY <2>2 DEF StoredMember, header, data
  <2>9. QED BY <2>1, <2>2, <2>3, <2>6, <2>7, <2>8
<1>8. parts \in Seq(Seq(X)) /\ Len(parts) = n
  <2>1. parts \in [1 .. n -> Seq(X)]
    <3> HIDE DEF X
    <3>1. parts = [i \in 1 .. n |-> parts[i]]
      OBVIOUS
    <3> HIDE DEF parts
    <3>2. QED BY <1>7, <3>1
  <2> HIDE DEF X, parts
  <2>2. QED BY <1>1, <2>1, SequenceOf DEF n
<1>9. EndBlock \in X /\ \A b \in X : IsHeader(b) => b.size \in Nat
  <2>1. ~ IsHeader(EndBlock)
    BY DEF IsHeader, EndBlock
  <2>2. ASSUME NEW b \in X, IsHeader(b) PROVE b.size \in Nat
    <3>1. b # EndBlock
      BY <2>1, <2>2
    <3>2. PICK i \in 1 .. n : b \in BlocksOf(header(i), data(i))
      <4>1. b \in UNION {BlocksOf(header(i), data(i)) : i \in 1 .. n}
        BY <3>1
      <4> HIDE DEF X, parts
      <4>2. PICK B \in {BlocksOf(header(i), data(i)) : i \in 1 .. n} : b \in B
        BY <4>1
      <4>3. QED BY <4>2
    <3> HIDE DEF parts, X
    <3>3. \A e \in BlocksOf(header(i), data(i)) : IsHeader(e) => e.size \in Nat
      BY <1>7
    <3>4. QED BY <2>2, <3>2, <3>3, Zenon
  <2>3. QED BY <2>2
<1> DEFINE stream == TarStream(listing, contents, time)
           gz == ArchiveBytes(listing, contents, time)
<1>10. Inflate(gz) = FlattenSeq(parts) \o << EndBlock, EndBlock >>
  <2> HIDE DEF parts, X
  <2>1. FlattenSeq(parts) \in Seq(X)
    <3>1. PICK g \in [0 .. Len(parts) -> Seq(X)] :
            /\ g[0] = << >>
            /\ \A i \in 1 .. Len(parts) : g[i] = g[i - 1] \o parts[i]
            /\ FlattenSeq(parts) = g[Len(parts)]
      BY <1>8, FlattenParts
    <3>2. Len(parts) \in 0 .. Len(parts)
      BY <1>1, <1>8 DEF n
    <3>3. QED BY <3>1, <3>2
  <2>2. PICK s : s = FlattenSeq(parts) \o << EndBlock, EndBlock >>
    OBVIOUS
  <2>3. s \in Seq(X) /\ Len(s) = Len(FlattenSeq(parts)) + 2 /\ Len(FlattenSeq(parts)) \in Nat
    BY <1>9, <2>1, <2>2, TwoAtEnd
  <2>4. s # << >>
    BY <2>3
  <2>5. Inflate(Gzip(s)) = s
    BY <2>3, <2>4, StoredRoundTrip
  <2>6. gz = Gzip(s)
    BY <1>6, <2>2 DEF ArchiveBytes
  <2>7. QED BY <2>2, <2>5, <2>6
<1>11. Members(gz) = [i \in 1 .. Len(parts) |-> PartMember(parts[i])]
  <2>1. \A i \in 1 .. Len(parts) : IsMemberPart(parts[i])
    <3> HIDE DEF parts, X
    <3>1. QED BY <1>7, <1>8
  <2> HIDE DEF parts, X, gz
  <2>2. QED BY <1>8, <1>9, <1>10, <2>1, PartsRead
<1>12. [i \in 1 .. Len(parts) |-> PartMember(parts[i])] =
         [i \in 1 .. n |-> StoredMember(order[i], listing, contents, time)]
  <2> HIDE DEF parts, X
  <2>1. QED BY <1>7, <1>8
<1>13. QED BY <1>11, <1>12 DEF listing, n, paths, order

-----------------------------------------------------------------------------
(* Validation, and what unpacking leaves *)

\* What a pair with a fixed second part is.
LEMMA PairWith ==
  ASSUME NEW A, NEW x, NEW a \in A \X {x}
  PROVE  \E p \in A : a = << p, x >>
OBVIOUS

\* The archive paths of a commit are files and directories, and a path is not both.
LEMMA PathsOfCommit ==
  ASSUME NEW c \in Trees, NEW a \in ArchivePaths(Tracked(c))
  PROVE  /\ a[2] => a[1] \in TrackedDirs(FilesOf(c)) /\ a[1] \notin FilesOf(c)
         /\ ~ a[2] => a[1] \in FilesOf(c)
         /\ a = << a[1], a[2] >> /\ a[2] \in BOOLEAN
<1>1. FilesOf(c) \cap TrackedDirs(FilesOf(c)) = {} /\ DOMAIN Tracked(c) = FilesOf(c)
  BY ArchiveAssumption DEF Tracked
<1>2. a \in (FilesOf(c) \X {FALSE}) \cup (TrackedDirs(FilesOf(c)) \X {TRUE})
  BY <1>1 DEF ArchivePaths
<1>3. CASE a \in FilesOf(c) \X {FALSE}
  <2>1. PICK x : x = FALSE
    OBVIOUS
  <2>2. a \in FilesOf(c) \X {x}
    BY <1>3, <2>1, Zenon
  <2>3. PICK p \in FilesOf(c) : a = << p, x >>
    BY <2>2, PairWith
  <2>4. QED BY <2>1, <2>3
<1>4. CASE a \in TrackedDirs(FilesOf(c)) \X {TRUE}
  <2>1. PICK x : x = TRUE
    OBVIOUS
  <2>2. a \in TrackedDirs(FilesOf(c)) \X {x}
    BY <1>4, <2>1, Zenon
  <2>3. PICK p \in TrackedDirs(FilesOf(c)) : a = << p, x >>
    BY <2>2, PairWith
  <2>4. QED BY <1>1, <2>1, <2>3
<1>5. QED BY <1>2, <1>3, <1>4

\* No two members of an archive have one path.
LEMMA PathsDistinct ==
  ASSUME NEW c \in Trees, NEW a \in ArchivePaths(Tracked(c)), NEW b \in ArchivePaths(Tracked(c)),
         a[1] = b[1]
  PROVE  a = b
<1>1. a[2] <=> b[2]
  BY PathsOfCommit
<1>2. a[2] = b[2] /\ a = << a[1], a[2] >> /\ b = << b[1], b[2] >>
  BY <1>1, PathsOfCommit
<1>3. QED BY <1>2

\* What git has of a file that is listed.
LEMMA FileOfCommit ==
  ASSUME NEW c \in Trees, NEW p \in FilesOf(c)
  PROVE  /\ p \in DOMAIN Tracked(c) /\ Tracked(c)[p] = c.files[p].mode
         /\ Contents(c)[p] = c.files[p].data /\ Contents(c)[p] \in DOMAIN Blocks
         /\ Blocks[Contents(c)[p]] \in Nat
         /\ Blocks[Contents(c)[p]] = 0 => Contents(c)[p] = "empty"
<1>1. p \in Path /\ c.files[p] # NoFile
  BY DEF FilesOf
<1>2. QED BY <1>1, ArchiveAssumption DEF Contents, Tracked

\* A commit's own contents are contents for its files.
LEMMA OwnContents ==
  ASSUME NEW c \in Trees
  PROVE  Fills(Contents(c), c)
BY FileOfCommit DEF Fills

\* The members of an archive are in the order of the paths it was written for.
LEMMA MembersInOrder ==
  ASSUME NEW c \in Trees, NEW contents, Fills(contents, c), NEW time,
         Archivable(Tracked(c), contents),
         NEW members, members = Members(ArchiveBytes(Tracked(c), contents, time))
  PROVE  [i \in DOMAIN members |-> << members[i].path, members[i].header.kind = "dir" >>]
           = ExpectedOrder(Tracked(c))
<1> DEFINE listing == Tracked(c)
           n == Cardinality(ArchivePaths(listing))
           order == ExpectedOrder(listing)
<1>1. members = [i \in 1 .. n |-> StoredMember(order[i], listing, contents, time)]
  BY ArchiveRoundTrip
<1>2. \A i \in 1 .. n : order[i] \in ArchivePaths(listing)
  BY ArchivePathsFinite, OrderEnumerates
<1>3. order = [i \in 1 .. n |-> order[i]]
  <2> DEFINE S == ArchivePaths(listing)
             at(i) == CHOOSE a \in S : Cardinality({b \in S : Rank[b] < Rank[a]}) = i - 1
  <2>1. order = [i \in 1 .. n |-> at(i)]
    BY Zenon DEF ExpectedOrder
  <2> HIDE DEF order, n, at
  <2>2. QED BY <2>1
<1>4. ASSUME NEW i \in 1 .. n
      PROVE  members[i].path = order[i][1] /\ (members[i].header.kind = "dir" <=> order[i][2])
  <2>1. members[i] = StoredMember(order[i], listing, contents, time)
    BY <1>1
  <2>2. PICK a \in ArchivePaths(listing) : a = order[i]
    BY <1>2
  <2>3. CASE a[2]
    BY <2>1, <2>2, <2>3 DEF StoredMember, MemberHeader, Header
  <2>4. CASE ~ a[2] /\ listing[a[1]] = "120000"
    BY <2>1, <2>2, <2>4 DEF StoredMember, MemberHeader, Header
  <2>5. CASE ~ a[2] /\ listing[a[1]] # "120000"
    BY <2>1, <2>2, <2>5 DEF StoredMember, MemberHeader, Header
  <2>6. QED BY <2>3, <2>4, <2>5
<1>5. ASSUME NEW i \in 1 .. n
      PROVE  << members[i].path, members[i].header.kind = "dir" >> = order[i]
  <2>1. PICK a \in ArchivePaths(listing) : a = order[i]
    BY <1>2
  <2>2. a = << a[1], a[2] >> /\ a[2] \in BOOLEAN
    BY PathsOfCommit
  <2>3. (members[i].header.kind = "dir") = a[2]
    BY <1>4, <2>1, <2>2
  <2>4. QED BY <1>4, <2>1, <2>2, <2>3
<1>6. DOMAIN members = 1 .. n
  BY <1>1
<1> HIDE DEF order, n
<1>7. QED BY <1>3, <1>5, <1>6 DEF order

\* Every member that the encoder writes passes the validator.
LEMMA StoredMemberValid ==
  ASSUME NEW c \in Trees, NEW time, Archivable(Tracked(c), Contents(c)),
         NEW a \in ArchivePaths(Tracked(c))
  PROVE  MemberValid(StoredMember(a, Tracked(c), Contents(c), time), Tracked(c), Contents(c), time)
<1> DEFINE m == StoredMember(a, Tracked(c), Contents(c), time)
<1>1. DOMAIN Tracked(c) = FilesOf(c)
  BY DEF Tracked
<1>2. CASE a[2]
  <2>1. a[1] \in TrackedDirs(FilesOf(c))
    BY <1>2, PathsOfCommit
  <2>2. ~ Forbidden(a[1])
    BY <1>1, <2>1 DEF Archivable
  <2>3. /\ m.path = a[1] /\ m.header.kind = "dir" /\ m.header.mode = "0755"
        /\ m.header.owner = "root" /\ m.header.time = time
    BY <1>2 DEF StoredMember, MemberHeader, Header
  <2> HIDE DEF m
  <2>4. MemberValid(m, Tracked(c), Contents(c), time)
    BY <1>1, <2>1, <2>2, <2>3 DEF MemberValid
  <2>5. QED BY <2>4 DEF m
<1>3. CASE ~ a[2]
  <2>1. PICK p : p = a[1]
    OBVIOUS
  <2>2. p \in FilesOf(c)
    BY <1>3, <2>1, PathsOfCommit
  <2>3. ~ Forbidden(p)
    BY <1>1, <2>2 DEF Archivable
  <2>4. CASE Tracked(c)[p] = "120000"
    <3>1. /\ m.path = p /\ m.header.kind = "link" /\ m.header.mode = "0777"
          /\ m.header.link = Contents(c)[p]
          /\ m.header.owner = "root" /\ m.header.time = time
      BY <1>3, <2>1, <2>4 DEF StoredMember, MemberHeader, Header
    <3>2. FileKind(Tracked(c)[p]) = "link" /\ ModeBits(Tracked(c)[p]) = "0777"
      BY <2>4 DEF FileKind, ModeBits
    <3> HIDE DEF m
    <3>3. MemberValid(m, Tracked(c), Contents(c), time)
      BY <1>1, <2>2, <2>3, <3>1, <3>2 DEF MemberValid
    <3>4. QED BY <3>3 DEF m
  <2>5. CASE Tracked(c)[p] # "120000"
    <3>1. /\ m.path = p /\ m.header.kind = "file" /\ m.header.mode = ModeBits(Tracked(c)[p])
          /\ m.header.size = Blocks[Contents(c)[p]]
          /\ m.header.owner = "root" /\ m.header.time = time
          /\ m.data = IF m.header.size = 0 THEN NoFile ELSE Contents(c)[p]
      BY <1>3, <2>1, <2>5 DEF StoredMember, MemberHeader, Header
    <3>2. FileKind(Tracked(c)[p]) = "file"
      BY <2>5 DEF FileKind
    <3>3. m.header.size > 0 => m.data = Contents(c)[p]
      BY <3>1
    <3> HIDE DEF m
    <3>4. MemberValid(m, Tracked(c), Contents(c), time)
      BY <1>1, <2>2, <2>3, <3>1, <3>2, <3>3 DEF MemberValid
    <3>5. QED BY <3>4 DEF m
  <2>6. QED BY <2>4, <2>5
<1>4. QED BY <1>2, <1>3

\* Encoder and validator agree on every commit that can be archived.
LEMMA CanonicalIsValid ==
  ASSUME NEW c \in Trees, NEW time, Archivable(Tracked(c), Contents(c))
  PROVE  Valid(ArchiveBytes(Tracked(c), Contents(c), time), Tracked(c), Contents(c), time)
<1> DEFINE listing == Tracked(c)
           contents == Contents(c)
           gz == ArchiveBytes(listing, contents, time)
           n == Cardinality(ArchivePaths(listing))
           order == ExpectedOrder(listing)
           members == Members(gz)
<1>1. members = [i \in 1 .. n |-> StoredMember(order[i], listing, contents, time)]
  BY OwnContents, ArchiveRoundTrip
<1>2. /\ \A i \in 1 .. n : order[i] \in ArchivePaths(listing)
      /\ \A i, j \in 1 .. n : order[i] = order[j] => i = j
  BY ArchivePathsFinite, OrderEnumerates
<1>3. \A p \in DOMAIN listing : listing[p] # "160000" /\ ~ Forbidden(p)
  BY DEF Archivable
<1>4. ASSUME NEW i \in 1 .. n PROVE MemberValid(members[i], listing, contents, time)
  BY <1>1, <1>2, StoredMemberValid
<1>5. ASSUME NEW i \in 1 .. n, NEW j \in 1 .. n, members[i].path = members[j].path
      PROVE  i = j
  <2>1. order[i][1] = order[j][1]
    BY <1>1, <1>5 DEF StoredMember
  <2>2. order[i] = order[j]
    BY <1>2, <2>1, PathsDistinct
  <2>3. QED BY <1>2, <2>2
<1>6. DOMAIN members = 1 .. n
  BY <1>1
<1>7. [i \in DOMAIN members |-> << members[i].path, members[i].header.kind = "dir" >>] = order
  BY OwnContents, MembersInOrder
<1> HIDE DEF n, listing, contents, gz, order
<1>8. /\ \A i \in DOMAIN members : MemberValid(members[i], listing, contents, time)
      /\ \A i, j \in DOMAIN members : members[i].path = members[j].path => i = j
  BY <1>4, <1>5, <1>6
<1>9. Valid(gz, listing, contents, time)
  BY <1>3, <1>7, <1>8 DEF Valid, order
<1>10. QED BY <1>9 DEF gz, listing, contents

\* The checked-out form of a member.
LEMMA StoredMemberOnDisk ==
  ASSUME NEW c \in Trees, NEW time, NEW a \in ArchivePaths(Tracked(c)),
         NEW m, m = StoredMember(a, Tracked(c), Contents(c), time)
  PROVE  /\ a[1] \in DOMAIN CheckedOut(c)
         /\ [kind |-> m.header.kind, mode |-> m.header.mode,
             data |-> CASE m.header.kind = "link" -> m.header.link
                        [] m.header.kind = "file" /\ m.header.size = 0 -> "empty"
                        [] OTHER -> m.data] = CheckedOut(c)[a[1]]
<1>1. DOMAIN Tracked(c) = FilesOf(c)
  BY DEF Tracked
<1>2. DOMAIN CheckedOut(c) = FilesOf(c) \cup TrackedDirs(FilesOf(c))
  BY <1>1 DEF CheckedOut
<1>3. a[1] \in DOMAIN CheckedOut(c)
  BY <1>2, PathsOfCommit
<1>4. CASE a[2]
  <2>1. m.header.kind = "dir" /\ m.header.mode = "0755" /\ m.data = NoFile
    BY <1>4 DEF StoredMember, MemberHeader, Header
  <2>2. a[1] \notin FilesOf(c)
    BY <1>4, PathsOfCommit
  <2>3. CheckedOut(c)[a[1]] = [kind |-> "dir", mode |-> "0755", data |-> NoFile]
    BY <1>1, <1>2, <1>3, <2>2 DEF CheckedOut
  <2>4. QED BY <1>3, <2>1, <2>3
<1>5. CASE ~ a[2]
  <2>1. PICK p \in FilesOf(c) : p = a[1]
    BY <1>5, PathsOfCommit
  <2>2. CheckedOut(c)[p] = [kind |-> FileKind(c.files[p].mode), mode |-> ModeBits(c.files[p].mode),
                            data |-> c.files[p].data]
    BY <1>1, <1>2, <1>3, <2>1 DEF CheckedOut
  <2>3. /\ Tracked(c)[p] = c.files[p].mode /\ Contents(c)[p] = c.files[p].data
        /\ Blocks[Contents(c)[p]] = 0 => Contents(c)[p] = "empty"
    BY FileOfCommit
  <2>4. CASE Tracked(c)[p] = "120000"
    <3>1. m.header.kind = "link" /\ m.header.mode = "0777" /\ m.header.link = Contents(c)[p]
      BY <1>5, <2>1, <2>4 DEF StoredMember, MemberHeader, Header
    <3>2. FileKind(c.files[p].mode) = "link" /\ ModeBits(c.files[p].mode) = "0777"
      BY <2>3, <2>4 DEF FileKind, ModeBits
    <3>3. QED BY <1>3, <2>1, <2>2, <2>3, <3>1, <3>2
  <2>5. CASE Tracked(c)[p] # "120000"
    <3>1. /\ m.header.kind = "file" /\ m.header.mode = ModeBits(Tracked(c)[p])
          /\ m.header.size = Blocks[Contents(c)[p]]
          /\ m.data = IF m.header.size = 0 THEN NoFile ELSE Contents(c)[p]
      BY <1>5, <2>1, <2>5 DEF StoredMember, MemberHeader, Header
    <3>2. FileKind(c.files[p].mode) = "file"
      BY <2>3, <2>5 DEF FileKind
    <3>3. QED BY <1>3, <2>1, <2>2, <2>3, <3>1, <3>2
  <2>6. QED BY <2>4, <2>5
<1>6. QED BY <1>4, <1>5

\* Unpacking the archive of a commit leaves what a checkout of the commit has.
LEMMA CanonicalUnpacks ==
  ASSUME NEW c \in Trees, NEW time, Archivable(Tracked(c), Contents(c))
  PROVE  Unpacked(ArchiveBytes(Tracked(c), Contents(c), time)) = CheckedOut(c)
<1> DEFINE listing == Tracked(c)
           contents == Contents(c)
           gz == ArchiveBytes(listing, contents, time)
           n == Cardinality(ArchivePaths(listing))
           order == ExpectedOrder(listing)
           members == Members(gz)
           last(p) ==
             CHOOSE i \in DOMAIN members :
               members[i].path = p /\ \A j \in DOMAIN members : members[j].path = p => j <= i
           onDisk(m) == [kind |-> m.header.kind, mode |-> m.header.mode,
                         data |-> CASE m.header.kind = "link" -> m.header.link
                                    [] m.header.kind = "file" /\ m.header.size = 0 -> "empty"
                                    [] OTHER -> m.data]
           names == {members[i].path : i \in DOMAIN members}
<1>1. members = [i \in 1 .. n |-> StoredMember(order[i], listing, contents, time)]
  BY OwnContents, ArchiveRoundTrip
<1>2. /\ \A i \in 1 .. n : order[i] \in ArchivePaths(listing)
      /\ \A i, j \in 1 .. n : order[i] = order[j] => i = j
      /\ \A a \in ArchivePaths(listing) : \E i \in 1 .. n : order[i] = a
      /\ n \in Nat
  BY ArchivePathsFinite, OrderEnumerates, FS_CardinalityType
<1>3. DOMAIN members = 1 .. n
  BY <1>1
<1>4. ASSUME NEW i \in 1 .. n
      PROVE  /\ members[i] = StoredMember(order[i], listing, contents, time)
             /\ members[i].path = order[i][1]
  BY <1>1 DEF StoredMember
<1>5. ASSUME NEW i \in 1 .. n PROVE last(order[i][1]) = i
  <2>1. ASSUME NEW j \in 1 .. n, members[j].path = order[i][1] PROVE j = i
    <3>1. order[j][1] = order[i][1]
      BY <1>4, <2>1
    <3>2. order[j] = order[i]
      BY <1>2, <3>1, PathsDistinct
    <3>3. QED BY <1>2, <3>2
  <2>2. i <= i
    BY <1>2
  <2> HIDE DEF members, order, n
  <2>3. QED BY <1>3, <1>4, <2>1, <2>2
<1>6. Unpacked(gz) = [p \in names |-> onDisk(members[last(p)])]
  BY Zenon DEF Unpacked
<1>7. names = DOMAIN CheckedOut(c)
  <2>1. DOMAIN CheckedOut(c) = FilesOf(c) \cup TrackedDirs(FilesOf(c))
    BY DEF CheckedOut, Tracked
  <2>2. DOMAIN listing = FilesOf(c)
    BY DEF Tracked
  <2>3. ASSUME NEW p \in names PROVE p \in DOMAIN CheckedOut(c)
    <3> HIDE DEF members
    <3>1. PICK i \in 1 .. n : p = members[i].path
      BY <1>3
    <3>2. QED BY <1>2, <1>4, <2>1, <3>1, PathsOfCommit
  <2>4. ASSUME NEW p \in DOMAIN CheckedOut(c) PROVE p \in names
    <3>1. PICK a \in ArchivePaths(listing) : a[1] = p
      <4>1. CASE p \in FilesOf(c)
        <5>1. << p, FALSE >> \in ArchivePaths(listing)
          BY <2>2, <4>1 DEF ArchivePaths
        <5>2. QED BY <5>1
      <4>2. CASE p \in TrackedDirs(FilesOf(c))
        <5>1. << p, TRUE >> \in ArchivePaths(listing)
          BY <2>2, <4>2 DEF ArchivePaths
        <5>2. QED BY <5>1
      <4>3. QED BY <2>1, <4>1, <4>2
    <3>2. PICK i \in 1 .. n : order[i] = a
      BY <1>2
    <3> HIDE DEF members
    <3>3. p = members[i].path
      BY <1>4, <3>1, <3>2
    <3>4. QED BY <1>3, <3>3
  <2> HIDE DEF names
  <2>5. QED BY <2>3, <2>4
<1>8. ASSUME NEW p \in names PROVE onDisk(members[last(p)]) = CheckedOut(c)[p]
  <2> HIDE DEF members, last, onDisk
  <2>1. PICK i \in 1 .. n : p = members[i].path
    BY <1>3
  <2>2. p = order[i][1] /\ last(p) = i
    BY <1>4, <1>5, <2>1
  <2>3. PICK a \in ArchivePaths(listing) : a = order[i]
    BY <1>2
  <2>4. members[i] = StoredMember(a, listing, contents, time)
    BY <1>4, <2>3
  <2>5. PICK m : m = members[i]
    OBVIOUS
  <2>6. onDisk(m) = CheckedOut(c)[a[1]]
    BY <2>4, <2>5, StoredMemberOnDisk DEF onDisk
  <2>7. QED BY <2>2, <2>3, <2>5, <2>6
<1>9. CheckedOut(c) = [p \in DOMAIN CheckedOut(c) |-> CheckedOut(c)[p]]
  BY DEF CheckedOut
<1> HIDE DEF members, last, onDisk, names, gz, listing, contents
<1>10. Unpacked(gz) = CheckedOut(c)
  BY <1>6, <1>7, <1>8, <1>9
<1>11. QED BY <1>10 DEF gz, listing, contents

\* The member that is written for a path tells which mode and contents the path had,
\* and when: if it is valid for another commit, that one has the same.
LEMMA MemberTells ==
  ASSUME NEW c \in Trees, NEW contents, Fills(contents, c), NEW time,
         Archivable(Tracked(c), contents),
         NEW b \in Trees, FilesOf(b) = FilesOf(c),
         \A p \in FilesOf(b) : Tracked(b)[p] # "160000",
         NEW a \in ArchivePaths(Tracked(c)),
         MemberValid(StoredMember(a, Tracked(c), contents, time),
                     Tracked(b), Contents(b), b.time)
  PROVE  /\ time = b.time
         /\ ~ a[2] => Tracked(b)[a[1]] = Tracked(c)[a[1]] /\ Contents(b)[a[1]] = contents[a[1]]
<1> DEFINE listing == Tracked(c)
           m == StoredMember(a, listing, contents, time)
<1>1. m.path = a[1] /\ m.header.time = time
  BY DEF StoredMember, MemberHeader, Header
<1>2. MemberValid(m, Tracked(b), Contents(b), b.time)
  OBVIOUS
<1>3. time = b.time
  <2> HIDE DEF m
  <2>1. QED BY <1>1, <1>2 DEF MemberValid
<1>4. CASE ~ a[2]
  <2>1. PICK p \in FilesOf(c) : p = a[1]
    BY <1>4, PathsOfCommit
  <2>2. /\ listing[p] \in GitMode /\ listing[p] # "160000"
        /\ contents[p] \in DOMAIN Blocks
    <3>1. listing[p] = c.files[p].mode /\ p \in DOMAIN listing
      BY FileOfCommit
    <3>2. QED BY <3>1, ArchiveAssumption DEF Archivable, Fills
  <2>3. /\ Tracked(b)[p] \in GitMode /\ Tracked(b)[p] # "160000"
        /\ Contents(b)[p] \in DOMAIN Blocks
    <3>1. p \in FilesOf(b)
      BY <2>1
    <3>2. Tracked(b)[p] = b.files[p].mode /\ Contents(b)[p] \in DOMAIN Blocks
      BY <3>1, FileOfCommit
    <3>3. QED BY <3>1, <3>2, ArchiveAssumption
  <2>4. CASE listing[p] = "120000"
    <3>1. m.header.kind = "link" /\ m.header.link = contents[p]
      BY <1>4, <2>1, <2>4 DEF StoredMember, MemberHeader, Header
    <3> HIDE DEF m
    <3>2. FileKind(Tracked(b)[p]) = "link" /\ Contents(b)[p] = contents[p]
      BY <1>1, <1>2, <2>1, <3>1 DEF MemberValid
    <3>3. Tracked(b)[p] = "120000"
      BY <3>2 DEF FileKind
    <3>4. QED BY <1>3, <2>1, <2>4, <3>2, <3>3
  <2>5. CASE listing[p] # "120000"
    <3>1. /\ m.header.kind = "file" /\ m.header.mode = ModeBits(listing[p])
          /\ m.header.size = Blocks[contents[p]]
          /\ m.data = IF m.header.size = 0 THEN NoFile ELSE contents[p]
      BY <1>4, <2>1, <2>5 DEF StoredMember, MemberHeader, Header
    <3> HIDE DEF m
    <3>2. /\ FileKind(Tracked(b)[p]) = "file" /\ ModeBits(Tracked(b)[p]) = ModeBits(listing[p])
          /\ Blocks[contents[p]] = Blocks[Contents(b)[p]]
          /\ Blocks[contents[p]] > 0 => m.data = Contents(b)[p]
      BY <1>1, <1>2, <2>1, <3>1 DEF MemberValid
    <3>3. Tracked(b)[p] = listing[p]
      BY <2>2, <2>3, <2>5, <3>2 DEF FileKind, ModeBits, GitMode
    <3>4. Contents(b)[p] = contents[p]
      <4>1. CASE Blocks[contents[p]] = 0
        BY <2>2, <2>3, <3>2, <4>1, ArchiveAssumption
      <4>2. CASE Blocks[contents[p]] # 0
        <5>1. Blocks[contents[p]] \in Nat
          BY <2>2, ArchiveAssumption
        <5>2. QED BY <3>1, <3>2, <4>2, <5>1
      <4>3. QED BY <4>1, <4>2
    <3>5. QED BY <1>3, <2>1, <3>3, <3>4
  <2>6. QED BY <2>4, <2>5
<1>5. QED BY <1>3, <1>4

\* Of a header without contents after it only the header is written.
LEMMA BlocksOfHeader ==
  ASSUME NEW h, h.size = 0, NEW d, NEW e
  PROVE  MemberBlocks(h, d) = MemberBlocks(h, e)
<1>1. [i \in 1 .. h.size |-> [data |-> d, part |-> i]]
        = [i \in 1 .. h.size |-> [data |-> e, part |-> i]]
  OBVIOUS
<1>2. QED BY <1>1 DEF MemberBlocks

\* An archive that was written while commits came in is valid for a commit only if it is
\* the archive of that commit: whoever validates need not know how it was written.
THEOREM ValidIsCanonical ==
  ASSUME NEW c \in Trees, NEW contents, Fills(contents, c), NEW time,
         Archivable(Tracked(c), contents),
         NEW b \in Trees,
         Valid(ArchiveBytes(Tracked(c), contents, time), Tracked(b), Contents(b), b.time)
  PROVE  CanonicalFor(ArchiveBytes(Tracked(c), contents, time), Tracked(b), Contents(b), b.time)
<1> DEFINE listing == Tracked(c)
           own == Tracked(b)
           gz == ArchiveBytes(listing, contents, time)
           members == Members(gz)
           n == Cardinality(ArchivePaths(listing))
           order == ExpectedOrder(listing)
<1>1. members = [i \in 1 .. n |-> StoredMember(order[i], listing, contents, time)]
  BY ArchiveRoundTrip
<1>2. /\ \A i \in 1 .. n : order[i] \in ArchivePaths(listing)
      /\ \A a \in ArchivePaths(listing) : \E i \in 1 .. n : order[i] = a
  BY ArchivePathsFinite, OrderEnumerates
<1>3. /\ \A p \in DOMAIN own : own[p] # "160000"
      /\ \A i \in DOMAIN members : MemberValid(members[i], own, Contents(b), b.time)
      /\ [i \in DOMAIN members |-> << members[i].path, members[i].header.kind = "dir" >>]
           = ExpectedOrder(own)
  <2> HIDE DEF members
  <2>1. members = Members(gz)
    BY DEF members
  <2>2. QED BY <2>1 DEF Valid
<1>4. order = ExpectedOrder(own)
  BY <1>3, MembersInOrder
<1>5. DOMAIN order = 1 .. n /\ DOMAIN ExpectedOrder(own) = 1 .. Cardinality(ArchivePaths(own))
  BY DEF ExpectedOrder
<1>6. ArchivePaths(own) = ArchivePaths(listing)
  <2>1. /\ \A i \in DOMAIN ExpectedOrder(own) : ExpectedOrder(own)[i] \in ArchivePaths(own)
        /\ \A a \in ArchivePaths(own) : \E i \in DOMAIN ExpectedOrder(own) : ExpectedOrder(own)[i] = a
    BY <1>5, ArchivePathsFinite, OrderEnumerates
  <2> HIDE DEF order, n
  <2>2. QED BY <1>2, <1>4, <1>5, <2>1
<1>7. FilesOf(b) = FilesOf(c) /\ DOMAIN own = FilesOf(b) /\ DOMAIN listing = FilesOf(c)
  <2>1. DOMAIN own = FilesOf(b) /\ DOMAIN listing = FilesOf(c)
    BY DEF Tracked
  <2>2. ASSUME NEW d \in Trees, NEW p
        PROVE  p \in FilesOf(d) <=> << p, FALSE >> \in ArchivePaths(Tracked(d))
    <3>1. DOMAIN Tracked(d) = FilesOf(d)
      BY DEF Tracked
    <3>2. CASE p \in FilesOf(d)
      BY <3>1, <3>2 DEF ArchivePaths
    <3>3. CASE << p, FALSE >> \in ArchivePaths(Tracked(d))
      <4>1. PICK a \in ArchivePaths(Tracked(d)) : a = << p, FALSE >>
        BY <3>3
      <4>2. ~ a[2] /\ a[1] = p
        BY <4>1
      <4>3. QED BY <4>2, PathsOfCommit
    <3>4. QED BY <3>2, <3>3
  <2>3. \A p : p \in FilesOf(b) <=> p \in FilesOf(c)
    BY <1>6, <2>2
  <2>4. QED BY <2>1, <2>3
<1>8. ASSUME NEW i \in 1 .. n
      PROVE  /\ time = b.time
             /\ ~ order[i][2] => /\ own[order[i][1]] = listing[order[i][1]]
                                 /\ Contents(b)[order[i][1]] = contents[order[i][1]]
  <2>1. MemberValid(StoredMember(order[i], listing, contents, time), own, Contents(b), b.time)
    BY <1>1, <1>3
  <2>2. PICK a \in ArchivePaths(listing) : a = order[i]
    BY <1>2
  <2>3. MemberValid(StoredMember(a, Tracked(c), contents, time), Tracked(b), Contents(b), b.time)
    BY <2>1, <2>2
  <2>4. FilesOf(b) = FilesOf(c) /\ \A p \in FilesOf(b) : Tracked(b)[p] # "160000"
    BY <1>3, <1>7
  <2>5. /\ time = b.time
        /\ ~ a[2] => Tracked(b)[a[1]] = Tracked(c)[a[1]] /\ Contents(b)[a[1]] = contents[a[1]]
    BY <2>3, <2>4, MemberTells
  <2>6. QED BY <2>2, <2>5
<1>9. ASSUME NEW p \in FilesOf(c)
      PROVE  own[p] = listing[p] /\ Contents(b)[p] = contents[p]
  <2>1. PICK a \in ArchivePaths(listing) : a = << p, FALSE >>
    BY <1>7 DEF ArchivePaths
  <2>2. ~ a[2] /\ a[1] = p
    BY <2>1
  <2>3. PICK i \in 1 .. n : order[i] = a
    BY <1>2
  <2> HIDE DEF order, n, listing, own
  <2>4. QED BY <1>8, <2>2, <2>3
<1>10. own = listing
  <2>1. own = [p \in FilesOf(b) |-> own[p]] /\ listing = [p \in FilesOf(c) |-> listing[p]]
    BY DEF Tracked
  <2> HIDE DEF own, listing
  <2>2. QED BY <1>7, <1>9, <2>1
<1>11. Archivable(own, Contents(b))
  BY <1>7, <1>9, <1>10 DEF Archivable
<1>12. ASSUME NEW i \in 1 .. n
       PROVE  MemberBlocks(MemberHeader(order[i], listing, contents, time), contents[order[i][1]])
                = MemberBlocks(MemberHeader(order[i], listing, Contents(b), b.time),
                               Contents(b)[order[i][1]])
  <2>1. PICK a \in ArchivePaths(listing) : a = order[i]
    BY <1>2
  <2>2. time = b.time /\ (~ a[2] => Contents(b)[a[1]] = contents[a[1]])
    BY <1>8, <2>1
  <2>3. MemberHeader(a, listing, contents, time) = MemberHeader(a, listing, Contents(b), b.time)
    BY <2>2 DEF MemberHeader
  <2>4. CASE a[2]
    <3>1. MemberHeader(a, listing, contents, time).size = 0
      BY <2>4 DEF MemberHeader, Header
    <3>2. QED BY <2>1, <2>3, <3>1, BlocksOfHeader
  <2>5. CASE ~ a[2]
    BY <2>1, <2>2, <2>3, <2>5
  <2>6. QED BY <2>4, <2>5
<1>13. TarStream(listing, contents, time) = TarStream(listing, Contents(b), b.time)
  <2> DEFINE blocks(data, t) ==
               [i \in DOMAIN order |->
                  MemberBlocks(MemberHeader(order[i], listing, data, t), data[order[i][1]])]
  <2>1. blocks(contents, time) = blocks(Contents(b), b.time)
    BY <1>5, <1>12
  <2>2. /\ TarStream(listing, contents, time)
             = FlattenSeq(blocks(contents, time)) \o << EndBlock, EndBlock >>
        /\ TarStream(listing, Contents(b), b.time)
             = FlattenSeq(blocks(Contents(b), b.time)) \o << EndBlock, EndBlock >>
    BY DEF TarStream
  <2> HIDE DEF blocks
  <2>3. QED BY <2>1, <2>2
<1>14. gz = ArchiveBytes(own, Contents(b), b.time)
  BY <1>10, <1>13 DEF ArchiveBytes
<1>15. QED BY <1>11, <1>14 DEF CanonicalFor

-----------------------------------------------------------------------------
(* Builds, and the commits that come during them *)

\* The archive of a commit, if it has one, and that a file is the archive of one.
Encoding(c) == ArchiveBytes(Tracked(c), Contents(c), c.time)

CanEncode(c) == Archivable(Tracked(c), Contents(c))

FromOne(gz, commits) == \E c \in commits : CanEncode(c) /\ gz = Encoding(c)

\* A file that was written for the listing of one commit with the contents of another.
Mixture(gz, commits) ==
  \E c, d \in commits :
    /\ Fills(Contents(d), c)
    /\ Archivable(Tracked(c), Contents(d))
    /\ gz = ArchiveBytes(Tracked(c), Contents(d), d.time)

\* HEAD is a commit there has been, and a build that does not run lists nothing.
BuildTyped ==
  /\ past \subseteq Trees /\ head \in past
  /\ build = [pass |-> build.pass, listing |-> build.listing, first |-> build.first,
              errors |-> build.errors, outcome |-> build.outcome, still |-> build.still,
              torn |-> build.torn]
  /\ build.pass \in 0 .. 4
  /\ build.pass = 0 => build.listing = NoFile
  /\ build.pass # 0 => build.outcome = "building"

\* Whatever came in between, listings are of commits, encodings of two at most, and what
\* is on disk is what was encoded first.
MixesTwo ==
  /\ build.listing # NoFile => \E c \in past : build.listing = Tracked(c)
  /\ build.pass > 1 => Mixture(build.first, past)
  /\ build.pass > 2 => archive = build.first

\* An encoding that no commit came in the middle of is the archive of one commit; so is
\* what was compared with it, or was valid for one commit.
UntornIsOne ==
  /\ build.listing # NoFile /\ build.pass \notin build.torn => build.listing = Tracked(head)
  /\ build.pass > 1 /\ 1 \notin build.torn => FromOne(build.first, past)
  /\ build.pass > 2 /\ ~ ({1, 2} \subseteq build.torn) => FromOne(archive, past)
  /\ build.pass = 4 /\ ~ build.errors /\ ~ (1 .. 3 \subseteq build.torn)
       => FromOne(archive, past)
  /\ build.outcome = "built" /\ ~ (1 .. 4 \subseteq build.torn) => FromOne(archive, past)

\* A build during which no commit came has encoded HEAD in each pass so far, and found
\* no error in it.
StillIsHead ==
  /\ build.still /\ build.listing # NoFile => build.listing = Tracked(head)
  /\ build.still /\ build.pass > 1 => CanEncode(head) /\ build.first = Encoding(head)
  /\ build.still /\ build.pass = 4 => ~ build.errors
  /\ build.outcome = "refused" /\ build.still => ~ CanEncode(head)

ArchiveInv == BuildTyped /\ MixesTwo /\ UntornIsOne /\ StillIsHead

\* What is listed of a commit can be read of it.
LEMMA TrackedIsReadable ==
  ASSUME NEW p \in DOMAIN Tracked(head)
  PROVE  head.files[p] # NoFile
BY DEF Tracked, FilesOf

\* A file written for two commits stays one when there are more commits.
LEMMA MixtureStays ==
  ASSUME NEW gz, NEW S, NEW T, S \subseteq T, Mixture(gz, S)
  PROVE  Mixture(gz, T)
BY DEF Mixture

\* The archive of some commit stays one when there are more commits.
LEMMA FromOneStays ==
  ASSUME NEW gz, NEW S, NEW T, S \subseteq T, FromOne(gz, S)
  PROVE  FromOne(gz, T)
BY DEF FromOne

\* At the start there is one commit and no build.
LEMMA ArchiveInvInit == ArchiveInit => ArchiveInv
BY DEF ArchiveInit, ArchiveInv, BuildTyped, UntornIsOne, StillIsHead, MixesTwo, NoBuild

\* Starting a build forgets the last one.
LEMMA StartBuildKeeps == ArchiveInv /\ StartBuild => ArchiveInv'
<1> SUFFICES ASSUME ArchiveInv, StartBuild PROVE ArchiveInv'
  OBVIOUS
<1>1. build' = [pass |-> 1, listing |-> NoFile, first |-> NoFile, errors |-> FALSE,
                outcome |-> "building", still |-> TRUE, torn |-> {}]
  BY DEF StartBuild, NoBuild
<1>2. UNCHANGED << head, past, archive >>
  BY DEF StartBuild
<1>3. BuildTyped'
  BY <1>1, <1>2 DEF ArchiveInv, BuildTyped
<1>4. UntornIsOne'
  BY <1>1, <1>2 DEF UntornIsOne
<1>5. StillIsHead'
  BY <1>1, <1>2 DEF StillIsHead
<1>6. MixesTwo'
  BY <1>1, <1>2 DEF MixesTwo
<1>7. QED BY <1>3, <1>4, <1>5, <1>6 DEF ArchiveInv

\* A listing is that of HEAD when it is made.
LEMMA ListTreeKeeps == ArchiveInv /\ ListTree => ArchiveInv'
<1> SUFFICES ASSUME ArchiveInv, ListTree PROVE ArchiveInv'
  OBVIOUS
<1>1. build' = [pass |-> build.pass, listing |-> Tracked(head), first |-> build.first,
                errors |-> build.errors, outcome |-> build.outcome, still |-> build.still,
                torn |-> build.torn]
  BY DEF ListTree, ArchiveInv, BuildTyped
<1>2. UNCHANGED << head, past, archive >>
  BY DEF ListTree
<1>3. BuildTyped'
  BY <1>1, <1>2 DEF ArchiveInv, BuildTyped, ListTree
<1>4. UntornIsOne'
  BY <1>1, <1>2 DEF ArchiveInv, UntornIsOne
<1>5. StillIsHead'
  BY <1>1, <1>2 DEF ArchiveInv, StillIsHead
<1>6. MixesTwo'
  BY <1>1, <1>2 DEF ArchiveInv, BuildTyped, MixesTwo
<1>7. QED BY <1>3, <1>4, <1>5, <1>6 DEF ArchiveInv

\* A build that ends leaves a file and an outcome.
LEMMA EndedKeeps ==
  ASSUME ArchiveInv, NEW outcome \in {"none", "built", "refused"},
         build' = Ended(outcome), UNCHANGED << head, past >>,
         outcome = "built" /\ ~ (1 .. 4 \subseteq build.torn) => FromOne(archive', past),
         outcome = "refused" /\ build.still => ~ CanEncode(head)
  PROVE  ArchiveInv'
<1>1. build' = [pass |-> 0, listing |-> NoFile, first |-> NoFile, errors |-> FALSE,
                outcome |-> outcome, still |-> build.still, torn |-> build.torn]
  BY DEF Ended, NoBuild
<1>2. BuildTyped'
  BY <1>1 DEF ArchiveInv, BuildTyped
<1>3. UntornIsOne'
  BY <1>1 DEF UntornIsOne
<1>4. StillIsHead'
  BY <1>1 DEF StillIsHead
<1>5. MixesTwo'
  BY <1>1 DEF MixesTwo
<1>6. QED BY <1>2, <1>3, <1>4, <1>5 DEF ArchiveInv

\* A build that is killed ends with no outcome.
LEMMA KillBuildKeeps == ArchiveInv /\ KillBuild => ArchiveInv'
BY EndedKeeps DEF KillBuild

\* Nothing is known of a file that another tool wrote.
LEMMA TamperKeeps == ArchiveInv /\ Tamper => ArchiveInv'
<1> SUFFICES ASSUME ArchiveInv, Tamper PROVE ArchiveInv'
  OBVIOUS
<1>1. build' = [pass |-> build.pass, listing |-> build.listing, first |-> build.first,
                errors |-> build.errors, outcome |-> "tampered", still |-> build.still,
                torn |-> build.torn]
  BY DEF Tamper, ArchiveInv, BuildTyped
<1>2. UNCHANGED << head, past >> /\ build.pass = 0
  BY DEF Tamper
<1>3. build.listing = NoFile
  BY <1>2 DEF ArchiveInv, BuildTyped
<1>4. BuildTyped'
  BY <1>1, <1>2 DEF ArchiveInv, BuildTyped
<1>5. UntornIsOne'
  BY <1>1, <1>2, <1>3 DEF UntornIsOne
<1>6. StillIsHead'
  BY <1>1, <1>2, <1>3 DEF StillIsHead
<1>7. MixesTwo'
  BY <1>1, <1>2, <1>3 DEF MixesTwo
<1>8. QED BY <1>4, <1>5, <1>6, <1>7 DEF ArchiveInv

\* A commit tears the pass that has listed HEAD and not read it, and no other.
LEMMA MoveHeadKeeps ==
  ASSUME ArchiveInv, NEW c \in Trees, MoveHead(c)
  PROVE  ArchiveInv'
<1> DEFINE torn == IF build.listing = NoFile THEN build.torn ELSE build.torn \cup {build.pass}
<1>1. build' = [pass |-> build.pass, listing |-> build.listing, first |-> build.first,
                errors |-> build.errors, outcome |-> build.outcome, still |-> FALSE,
                torn |-> torn]
  BY DEF MoveHead, ArchiveInv, BuildTyped
<1>2. head' = c /\ past' = past \cup {c} /\ archive' = archive
  BY DEF MoveHead
<1>3. BuildTyped'
  BY <1>1, <1>2 DEF ArchiveInv, BuildTyped
<1>4. /\ build.torn \subseteq torn
      /\ build.listing # NoFile => build.pass \in torn
  OBVIOUS
<1> HIDE DEF torn
<1>5. UntornIsOne'
  <2>1. ASSUME build.pass > 1, 1 \notin torn PROVE FromOne(build.first, past')
    <3>1. FromOne(build.first, past)
      BY <1>4, <2>1 DEF ArchiveInv, UntornIsOne
    <3>2. QED BY <1>2, <3>1, FromOneStays
  <2>2. ASSUME build.pass > 2, ~ ({1, 2} \subseteq torn) PROVE FromOne(archive, past')
    <3>1. ~ ({1, 2} \subseteq build.torn)
      BY <1>4, <2>2
    <3>2. FromOne(archive, past)
      BY <2>2, <3>1 DEF ArchiveInv, UntornIsOne
    <3>3. QED BY <1>2, <3>2, FromOneStays
  <2>3. ASSUME build.pass = 4, ~ build.errors, ~ (1 .. 3 \subseteq torn)
        PROVE  FromOne(archive, past')
    <3>1. ~ (1 .. 3 \subseteq build.torn)
      BY <1>4, <2>3
    <3>2. FromOne(archive, past)
      BY <2>3, <3>1 DEF ArchiveInv, UntornIsOne
    <3>3. QED BY <1>2, <3>2, FromOneStays
  <2>4. ASSUME build.outcome = "built", ~ (1 .. 4 \subseteq torn)
        PROVE  FromOne(archive, past')
    <3>1. ~ (1 .. 4 \subseteq build.torn)
      BY <1>4, <2>4
    <3>2. FromOne(archive, past)
      BY <2>4, <3>1 DEF ArchiveInv, UntornIsOne
    <3>3. QED BY <1>2, <3>2, FromOneStays
  <2>5. QED BY <1>1, <1>2, <1>4, <2>1, <2>2, <2>3, <2>4 DEF UntornIsOne
<1>6. StillIsHead'
  BY <1>1 DEF StillIsHead
<1>7. MixesTwo'
  <2>1. build.pass > 1 => Mixture(build.first, past')
    BY <1>2, MixtureStays DEF ArchiveInv, MixesTwo
  <2>2. QED BY <1>1, <1>2, <2>1 DEF ArchiveInv, MixesTwo
<1>8. QED BY <1>3, <1>5, <1>6, <1>7 DEF ArchiveInv

\* A build after a pass that ended well.
AfterPass(bytes, errors) ==
  [build EXCEPT !.pass = @ + 1, !.listing = NoFile, !.first = bytes, !.errors = errors]

\* A pass that ends well makes one encoding, or one verdict, of what it listed.
LEMMA NextPassKeeps ==
  ASSUME ArchiveInv, build.pass \in 1 .. 3, UNCHANGED << head, past >>,
         NEW bytes, NEW errors,
         build' = AfterPass(bytes, errors),
         Mixture(bytes, past),
         build.pass > 1 => archive' = bytes,
         1 \notin build.torn => FromOne(bytes, past),
         build.pass > 1 /\ ~ ({1, 2} \subseteq build.torn) => FromOne(bytes, past),
         build.pass = 3 /\ ~ errors /\ ~ (1 .. 3 \subseteq build.torn) => FromOne(bytes, past),
         build.still => CanEncode(head) /\ bytes = Encoding(head),
         build.still /\ build.pass = 3 => ~ errors
  PROVE  ArchiveInv'
<1>1. build' = [pass |-> build.pass + 1, listing |-> NoFile, first |-> bytes, errors |-> errors,
                outcome |-> "building", still |-> build.still, torn |-> build.torn]
  <2>1. build.outcome = "building"
    BY DEF ArchiveInv, BuildTyped
  <2>2. QED BY <2>1 DEF AfterPass, ArchiveInv, BuildTyped
<1>2. BuildTyped'
  BY <1>1 DEF ArchiveInv, BuildTyped
<1>3. MixesTwo'
  BY <1>1 DEF MixesTwo
<1>4. UntornIsOne'
  BY <1>1 DEF UntornIsOne
<1>5. StillIsHead'
  BY <1>1 DEF StillIsHead
<1>6. QED BY <1>2, <1>3, <1>4, <1>5 DEF ArchiveInv

\* A pass reads a listing of HEAD, or a torn one, and encodes or validates it.
LEMMA ReadTreeKeeps == ArchiveInv /\ ReadTree => ArchiveInv'
<1> SUFFICES ASSUME ArchiveInv, ReadTree PROVE ArchiveInv'
  OBVIOUS
<1> DEFINE listing == build.listing
           encodes == Readable(listing) /\ Archivable(listing, Contents(head))
           bytes == ArchiveBytes(listing, Contents(head), head.time)
           valid == Valid(archive, listing, Contents(head), head.time)
<1>1. build.listing # NoFile /\ UNCHANGED << head, past >>
  BY DEF ReadTree
<1>2. head \in past /\ past \subseteq Trees
  BY DEF ArchiveInv, BuildTyped
<1>3. listing = Tracked(head) => /\ bytes = Encoding(head)
                                 /\ encodes <=> CanEncode(head)
                                 /\ Readable(listing)
  BY TrackedIsReadable DEF Encoding, CanEncode, Readable
<1>4. build.still \/ build.pass \notin build.torn => listing = Tracked(head)
  BY <1>1 DEF ArchiveInv, UntornIsOne, StillIsHead
<1>5. encodes /\ build.pass \notin build.torn => FromOne(bytes, past)
  BY <1>2, <1>3, <1>4 DEF FromOne
<1>6. ASSUME encodes PROVE Mixture(bytes, past)
  <2>1. PICK c \in past : listing = Tracked(c)
    BY <1>1 DEF ArchiveInv, MixesTwo
  <2>2. Fills(Contents(head), c)
    <3>1. ASSUME NEW p \in FilesOf(c) PROVE p \in FilesOf(head)
      <4>1. p \in DOMAIN listing /\ p \in Path
        BY <2>1 DEF Tracked, FilesOf
      <4>2. head.files[p] # NoFile
        BY <1>6, <4>1 DEF Readable
      <4>3. QED BY <4>1, <4>2 DEF FilesOf
    <3>2. QED BY <1>2, <3>1, FileOfCommit DEF Fills
  <2>3. QED BY <1>2, <1>6, <2>1, <2>2 DEF Mixture
<1>7. build.pass > 1 => /\ Mixture(build.first, past)
                        /\ 1 \notin build.torn => FromOne(build.first, past)
                        /\ build.still => CanEncode(head) /\ build.first = Encoding(head)
  BY DEF ArchiveInv, MixesTwo, UntornIsOne, StillIsHead
<1>8. build.pass > 2 => /\ archive = build.first
                        /\ ~ ({1, 2} \subseteq build.torn) => FromOne(archive, past)
  BY DEF ArchiveInv, MixesTwo, UntornIsOne
<1>9. CASE build.pass = 1
  <2>1. build' = IF encodes THEN [NextPass EXCEPT !.first = bytes] ELSE Ended("refused")
    BY <1>9 DEF ReadTree
  <2>2. CASE encodes
    <3>1. build' = AfterPass(bytes, build.errors)
      BY <2>1, <2>2 DEF AfterPass, NextPass, ArchiveInv, BuildTyped
    <3> HIDE DEF bytes
    <3>2. QED BY <1>1, <1>3, <1>4, <1>5, <1>6, <1>9, <2>2, <3>1, NextPassKeeps
  <2>3. CASE ~ encodes
    <3>1. build' = Ended("refused")
      BY <2>1, <2>3
    <3>2. QED BY <1>1, <1>3, <1>4, <2>3, <3>1, EndedKeeps
  <2>4. QED BY <2>2, <2>3
<1>10. CASE build.pass = 2
  <2>1. IF encodes /\ bytes = build.first
        THEN archive' = bytes /\ build' = NextPass
        ELSE UNCHANGED archive /\ build' = Ended("refused")
    BY <1>10 DEF ReadTree
  <2>2. CASE encodes /\ bytes = build.first
    <3>1. build' = AfterPass(bytes, build.errors)
      BY <2>1, <2>2 DEF AfterPass, NextPass, ArchiveInv, BuildTyped
    <3>2. archive' = bytes
      BY <2>1, <2>2
    <3>3. ~ ({1, 2} \subseteq build.torn) => FromOne(bytes, past)
      <4>1. CASE 1 \notin build.torn
        BY <1>7, <1>10, <2>2, <4>1
      <4>2. CASE 2 \notin build.torn
        BY <1>5, <1>10, <2>2, <4>2
      <4>3. QED BY <4>1, <4>2
    <3> HIDE DEF bytes
    <3>4. QED BY <1>1, <1>6, <1>7, <1>10, <2>2, <3>1, <3>2, <3>3, NextPassKeeps
  <2>3. CASE ~ (encodes /\ bytes = build.first)
    <3>1. build' = Ended("refused")
      BY <2>1, <2>3
    <3>2. ~ build.still
      BY <1>3, <1>4, <1>7, <1>10, <2>3
    <3>3. QED BY <1>1, <3>1, <3>2, EndedKeeps
  <2>4. QED BY <2>2, <2>3
<1>11. CASE build.pass = 3
  <2>1. /\ build' = IF Readable(listing) THEN [NextPass EXCEPT !.errors = ~ valid]
                    ELSE Ended("refused")
        /\ UNCHANGED archive
    BY <1>11 DEF ReadTree
  <2>2. CASE Readable(listing)
    <3>1. build' = AfterPass(build.first, ~ valid)
      BY <2>1, <2>2 DEF AfterPass, NextPass, ArchiveInv, BuildTyped
    <3>2. build.still => valid
      <4>1. SUFFICES ASSUME build.still PROVE valid
        OBVIOUS
      <4>2. archive = Encoding(head) /\ CanEncode(head) /\ listing = Tracked(head)
        BY <1>4, <1>7, <1>8, <1>11, <4>1
      <4>3. Valid(Encoding(head), Tracked(head), Contents(head), head.time)
        BY <1>2, <4>2, CanonicalIsValid DEF Encoding, CanEncode
      <4>4. QED BY <4>2, <4>3
    <3>3. valid /\ 3 \notin build.torn => FromOne(archive, past)
      <4>1. SUFFICES ASSUME valid, 3 \notin build.torn PROVE FromOne(archive, past)
        OBVIOUS
      <4>2. PICK c \in past, d \in past :
              /\ Fills(Contents(d), c) /\ Archivable(Tracked(c), Contents(d))
              /\ archive = ArchiveBytes(Tracked(c), Contents(d), d.time)
        BY <1>7, <1>8, <1>11 DEF Mixture
      <4>3. Valid(archive, Tracked(head), Contents(head), head.time)
        BY <1>4, <1>11, <4>1
      <4>4. CanonicalFor(archive, Tracked(head), Contents(head), head.time)
        BY <1>2, <4>2, <4>3, ValidIsCanonical
      <4>5. QED BY <1>2, <4>4 DEF CanonicalFor, FromOne, CanEncode, Encoding
    <3>4. valid /\ ~ (1 .. 3 \subseteq build.torn) => FromOne(archive, past)
      <4>1. ~ (1 .. 3 \subseteq build.torn) => ~ ({1, 2} \subseteq build.torn) \/ 3 \notin build.torn
        OBVIOUS
      <4>2. QED BY <1>8, <1>11, <3>3, <4>1
    <3>5. PICK errors : errors = ~ valid
      OBVIOUS
    <3>6. /\ build' = AfterPass(build.first, errors)
          /\ build.still => ~ errors
          /\ ~ errors /\ ~ (1 .. 3 \subseteq build.torn) => FromOne(archive, past)
      BY <3>1, <3>2, <3>4, <3>5, Zenon
    <3> HIDE DEF valid
    <3>7. QED BY <1>1, <1>7, <1>8, <1>11, <2>1, <3>6, NextPassKeeps
  <2>3. CASE ~ Readable(listing)
    <3>1. build' = Ended("refused")
      BY <2>1, <2>3
    <3>2. ~ build.still
      BY <1>3, <1>4, <2>3
    <3>3. QED BY <1>1, <3>1, <3>2, EndedKeeps
  <2>4. QED BY <2>2, <2>3
<1>12. CASE build.pass = 4
  <2>1. IF ~ build.errors /\ encodes /\ bytes = archive
        THEN UNCHANGED archive /\ build' = Ended("built")
        ELSE archive' = NoFile /\ build' = Ended("refused")
    BY <1>12 DEF ReadTree
  <2>2. /\ ~ build.errors /\ ~ (1 .. 3 \subseteq build.torn) => FromOne(archive, past)
        /\ build.still => ~ build.errors
    BY <1>12 DEF ArchiveInv, UntornIsOne, StillIsHead
  <2>3. CASE ~ build.errors /\ encodes /\ bytes = archive
    <3>1. UNCHANGED archive /\ build' = Ended("built")
      BY <2>1, <2>3
    <3>2. ~ (1 .. 4 \subseteq build.torn) => FromOne(archive', past)
      <4>1. CASE ~ (1 .. 3 \subseteq build.torn)
        BY <2>2, <2>3, <3>1, <4>1
      <4>2. CASE 4 \notin build.torn
        BY <1>5, <1>12, <2>3, <3>1, <4>2
      <4>3. QED BY <4>1, <4>2
    <3>3. QED BY <1>1, <3>1, <3>2, EndedKeeps
  <2>4. CASE ~ (~ build.errors /\ encodes /\ bytes = archive)
    <3>1. build' = Ended("refused")
      BY <2>1, <2>4
    <3>2. ~ build.still
      BY <1>3, <1>4, <1>7, <1>8, <1>12, <2>2, <2>4
    <3>3. QED BY <1>1, <3>1, <3>2, EndedKeeps
  <2>5. QED BY <2>3, <2>4
<1>13. QED BY <1>9, <1>10, <1>11, <1>12 DEF ReadTree

\* What is known of builds holds throughout.
LEMMA ArchiveInvariant == ArchiveSpec => []ArchiveInv
<1>1. ArchiveInit => ArchiveInv
  BY ArchiveInvInit
<1>2. ArchiveInv /\ [ArchiveNext]_archiveVars => ArchiveInv'
  <2>1. SUFFICES ASSUME ArchiveInv, [ArchiveNext]_archiveVars PROVE ArchiveInv'
    OBVIOUS
  <2>2. CASE \E c \in Trees : MoveHead(c)
    BY <2>1, <2>2, MoveHeadKeeps
  <2>3. CASE UNCHANGED archiveVars
    BY <2>1, <2>3 DEF archiveVars, ArchiveInv, BuildTyped, MixesTwo, UntornIsOne, StillIsHead
  <2>4. QED BY <2>1, <2>2, <2>3, StartBuildKeeps, ListTreeKeeps, ReadTreeKeeps, KillBuildKeeps,
               TamperKeeps DEF ArchiveNext
<1>3. QED BY <1>1, <1>2, PTL DEF ArchiveSpec

\* An archive that passes --check unpacks to the checkout of its commit, whatever was
\* done to the file; what a build leaves passes --check for one commit, unless a commit
\* came in the middle of each pass; and a build of a commit that stays is refused
\* for what the policy names only. This holds of every tree, every width of a name and
\* every size of a block: encoder, reader and validator agree on all of them.
THEOREM ArchivesUnpack == ArchiveSpec => []AcceptedArchiveUnpacks
<1>1. ArchiveInv => AcceptedArchiveUnpacks
  <2>1. SUFFICES ASSUME ArchiveInv PROVE AcceptedArchiveUnpacks
    OBVIOUS
  <2>2. past \subseteq Trees
    BY <2>1 DEF ArchiveInv, BuildTyped
  <2>3. ASSUME NEW c \in past, Checked(archive, c)
        PROVE  Unpacked(archive) = CheckedOut(c)
    <3>1. CanEncode(c) /\ archive = Encoding(c)
      BY <2>3 DEF Checked, CanonicalFor, CanEncode, Encoding
    <3>2. QED BY <2>2, <3>1, CanonicalUnpacks DEF CanEncode, Encoding
  <2>4. ASSUME FromOne(archive, past) PROVE \E c \in past : Checked(archive, c)
    <3>1. PICK c \in past : CanEncode(c) /\ archive = Encoding(c)
      BY <2>4 DEF FromOne
    <3>2. Valid(archive, Tracked(c), Contents(c), c.time)
      BY <2>2, <3>1, CanonicalIsValid DEF CanEncode, Encoding
    <3>3. QED BY <3>1, <3>2 DEF Checked, CanonicalFor, CanEncode, Encoding
  <2>5. QED BY <2>1, <2>3, <2>4
            DEF AcceptedArchiveUnpacks, ArchiveInv, UntornIsOne, StillIsHead, CanEncode
<1>2. QED BY <1>1, ArchiveInvariant, PTL

=============================================================================
