------------------------------- MODULE Gates -------------------------------
(***************************************************************************)
(* scripts/check.sh: a job runs the gates of its mode on a checkout, and   *)
(* in --release-core mode packs the commit, writes a manifest of what it   *)
(* did and verifies it. The content of a working tree is a commit or, with *)
(* uncommitted changes, Edited. Archives are canonical                     *)
(* (scripts/source_archive.py), so the commit stands for their bytes and   *)
(* their hash.                                                             *)
(***************************************************************************)
EXTENDS Naturals

CONSTANTS
  Job,          \* runs of the workflow, and local calls of check.sh
  Commit,
  Version,
  Registry,     \* the gates of --release-core
  Setup,        \* self-test and build, run in every mode
  Executable,   \* demo and conformance
  Packaging,    \* the gates of --release-core only
  PolicyOf,     \* supply-chain policy and checkers of a working tree
  Edited,
  None

Tree == Commit \cup {Edited}
Mode == {"fast", "core", "validation"}
Status == {"pass", "fail", "timeout"}
Record == [status : Status, on : Tree]

ASSUME GatesAssumption ==
  /\ Registry \subseteq Nat
  /\ Setup \subseteq Registry /\ Executable \subseteq Registry /\ Packaging \subseteq Registry
  /\ Edited \notin Commit
  /\ None \notin Tree /\ None \notin Record

VARIABLE job

GatesOf(mode) ==
  CASE mode = "fast" -> Registry \ (Executable \cup Packaging)
    [] mode = "core" -> Registry
    [] mode = "validation" -> Setup \cup Executable

NoRecords == [g \in Registry |-> None]

\* A new checkout of c, for attempt n.
Checkout(mode, hosted, ref, c, n) ==
  [mode |-> mode, hosted |-> hosted, ref |-> ref, attempt |-> n, pc |-> "gates",
   head |-> c, tree |-> c, records |-> NoRecords, tarball |-> None, manifest |-> None]

\* Record r moved to pc. check.sh removes its records when it ends; of a hosted
\* job nothing stays, of a local one the working tree with the files in release/.
Moved(r, pc) ==
  CASE pc \notin {"green", "failed"} -> [r EXCEPT !.pc = pc]
    [] pc \in {"green", "failed"} /\ r.hosted ->
         [Checkout(r.mode, TRUE, r.ref, r.head, r.attempt) EXCEPT !.pc = pc]
    [] OTHER -> [r EXCEPT !.pc = pc, !.records = NoRecords]

At(j, pc) == job[j].pc = pc

Goto(j, pc) == job' = [job EXCEPT ![j] = Moved(@, pc)]

Active(j) == job[j].pc \notin {"idle", "green", "failed"}

\* What tells the evidence of one attempt from that of another: run id and
\* attempt, and the time in the summary.
Stamp(j) == << j, job[j].attempt >>

Todo(j) == {g \in GatesOf(job[j].mode) : job[j].records[g] = None}

Advisory(j) == job[j].mode = "validation"

AfterGates(mode) ==
  CASE mode = "fast" -> "green"
    [] mode = "core" -> "archive"
    [] mode = "validation" -> "report"

\* The next gate ends with status s and leaves the tree as t. A record keeps,
\* as history, the tree the gate ran on.
RunGate(j, g, s, t) ==
  /\ At(j, "gates")
  /\ g \in Todo(j)
  /\ \A h \in Todo(j) : g <= h
  /\ t \in {job[j].tree, Edited}
  /\ LET r == [job[j] EXCEPT !.tree = t, !.records[g] = [status |-> s, on |-> job[j].tree]]
     IN job' = [job EXCEPT ![j] =
          Moved(r, IF s # "pass" /\ ~ Advisory(j) THEN "failed"
                   ELSE IF Todo(j) = {g} THEN AfterGates(r.mode)
                   ELSE "gates")]

\* --release-validation ends here. Demo and conformance may time out.
Report(j) ==
  /\ At(j, "report")
  /\ Goto(j, IF \E g \in Executable : job[j].records[g].status = "fail"
             THEN "failed" ELSE "green")

\* Fault: the archive is made from the working tree.
BuildArchiveOfTree(j) ==
  /\ At(j, "archive")
  /\ job' = [job EXCEPT ![j] = Moved([@ EXCEPT !.tarball = job[j].tree], "manifest")]

\* The archive is made from HEAD, whatever the tree looks like.
BuildArchive(j) ==
  /\ At(j, "archive")
  /\ job' = [job EXCEPT ![j] = Moved([@ EXCEPT !.tarball = job[j].head], "manifest")]

Passed(records) ==
  \A g \in Registry : records[g] # None /\ records[g].status = "pass"

ManifestOf(j) ==
  [commit |-> job[j].head,
   dirty |-> job[j].tree # job[j].head,
   local |-> ~ job[j].hosted,
   records |-> job[j].records,
   tarball |-> job[j].tarball,
   policy |-> PolicyOf[job[j].tree],
   stamp |-> Stamp(j)]

\* Refused, which ends the job, unless the records are those of the registry and
\* all pass. A dirty tree ends it too, with the manifest written.
WriteManifest(j) ==
  /\ At(j, "manifest")
  /\ Passed(job[j].records)
  /\ job' = [job EXCEPT ![j] =
       Moved([@ EXCEPT !.manifest = ManifestOf(j)],
             IF ManifestOf(j).dirty THEN "failed" ELSE "verify")]

\* Fault: evidence made outside hosted CI has authority too.
GateContractAnywhere(m) == ~ m.dirty /\ Passed(m.records)

\* What verify_release_manifest.py --require-current asks of a manifest m, ...
GateContract(m) == ~ m.dirty /\ ~ m.local /\ Passed(m.records)

\* ... of m with a tarball t, ...
Binds(m, t) ==
  /\ GateContract(m)
  /\ t \in Commit
  /\ m.policy = PolicyOf[t]
  /\ m.tarball = t

\* Fault: the tarball is not compared.
AcceptsAnyTarball(m, t, s) == GateContract(m) /\ s = m.stamp

\* ... and of both with a summary s.
Accepts(m, t, s) == Binds(m, t) /\ s = m.stamp

\* The last step of --release-core: the verifier on the files just written.
VerifyOwn(j) ==
  /\ At(j, "verify")
  /\ Goto(j, IF ~ Accepts(job[j].manifest, job[j].tarball, Stamp(j)) THEN "failed"
             ELSE IF job[j].hosted THEN "retain" ELSE "green")

\* Any command may fail, and a job may be cancelled or run out of time.
Break(j) == Active(j) /\ Goto(j, "failed")

\* A developer edits, reverts, commits or checks out while a local job runs.
Develop(j, c, t) ==
  /\ Active(j)
  /\ ~ job[j].hosted
  /\ job' = [job EXCEPT ![j] = [@ EXCEPT !.head = c, !.tree = t]]

=============================================================================
