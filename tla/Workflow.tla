------------------------------ MODULE Workflow ------------------------------
(***************************************************************************)
(* The hosted release gate (.github/workflows/ci.yml), the policy that     *)
(* pins what it may run (ci/supply-chain.json), and their validator        *)
(* (scripts/ci_supply_chain.py), which gate 0 runs inside the very         *)
(* workflow it judges. Actions are fetched from upstream, where a tag may  *)
(* come to name another commit while runs are under way.                   *)
(***************************************************************************)
EXTENDS Naturals, Sequences, SequencesExt, FiniteSets

CONSTANTS
  ActionCommit,       \* commits of the actions' repositories
  Tag,          \* a reference by version, "v4", which upstream may move
  LeanVersion,      \* versions of Lean
  Nothing       \* no reference, no version

Action == {"checkout", "upload-artifact"}
WorkflowJob == {"gate", "side"}
Event == {"push", "pull_request"}

ASSUME WorkflowAssumption ==
  Tag \notin ActionCommit /\ Nothing \notin ActionCommit \cup LeanVersion \cup {Tag}

\* A step is what it does, its if:, whether it has continue-on-error, whether its
\* command or with-map is the one that the validator spells out, and its action's ref.
VARIABLES
  workflow,     \* the triggers, the gate job's own keys, and the steps of each job
  policy,       \* the approved text of the workflow, the actions' pins, Lean's version
  selector,     \* lean-toolchain
  upstream,     \* the commit that an action's tag names
  run           \* a hosted run: its event, and how far each job is

workflowVars == << workflow, policy, selector, upstream, run >>

-----------------------------------------------------------------------------
(* Reading a workflow *)

\* workflow_step_blocks, over the file and over the gate job.
Steps == UNION {{j} \X DOMAIN workflow[j] : j \in WorkflowJob}

StepAt(s) == workflow[s[1]][s[2]]

Doing(what) == {s \in Steps : StepAt(s).does = what}

ActionOf(does) == IF does = "upload" THEN "upload-artifact" ELSE "checkout"

\* action_uses.
Uses == {<< ActionOf(StepAt(s).does), StepAt(s).ref >> : s \in Doing("checkout") \cup Doing("upload")}

-----------------------------------------------------------------------------
(* The validator *)

\* validate_policy_shape: no pin is a tag.
PolicyShape == \A a \in Action : policy.actions[a] # Tag

\* authoritative_trigger_errors and authoritative_job.
AuthoritativeJob == workflow.triggers = Event /\ workflow.controls = "none"

\* A guard or an upload with the keys, the condition and the command it must have.
Untouched(s) == StepAt(s).when = "push" /\ ~ StepAt(s).tolerant /\ StepAt(s).exact

\* Fault: the guard may stand anywhere before the upload.
GuardBefore(guard, upload) == guard[2] < upload[2]

GuardPrecedes(guard, upload) == guard[2] + 1 = upload[2]

\* retained_tarball_errors: one guard and one upload in the whole file, both in the
\* gate job, both untouched, and nothing between them.
EvidenceRetained ==
  /\ AuthoritativeJob
  /\ \E guard, upload \in Steps :
       /\ Doing("guard") = {guard} /\ Doing("upload") = {upload}
       /\ guard[1] = "gate" /\ upload[1] = "gate"
       /\ Untouched(guard) /\ Untouched(upload)
       /\ GuardPrecedes(guard, upload)

\* acquisition_route_errors, and one installer call for each tool.
RoutesReviewed == Doing("fetch") = {} /\ Cardinality(Doing("install")) = 1

\* validate.
Accepted ==
  /\ PolicyShape
  /\ policy.workflow_sha256 = workflow
  /\ EvidenceRetained
  /\ RoutesReviewed
  /\ Uses = {<< a, policy.actions[a] >> : a \in Action}
  /\ policy.lean = selector

\* update_audit: an action's tag has moved away from the pin.
UpdateReported(a) == upstream[a] # policy.actions[a]

-----------------------------------------------------------------------------
(* Changes to the repository, one at a time, and upstream *)

EditStep(s) ==
  /\ s \in Steps
  /\ \/ \E step \in {[StepAt(s) EXCEPT !.when = w] : w \in {"success", "push", "always", "never"}} \cup
                    {[StepAt(s) EXCEPT !.tolerant = TRUE], [StepAt(s) EXCEPT !.exact = FALSE],
                     [StepAt(s) EXCEPT !.does = "fetch"]} \cup
                    {[StepAt(s) EXCEPT !.ref = r] : r \in IF StepAt(s).ref = Nothing THEN {} ELSE ActionCommit \cup {Tag}} :
          workflow' = [workflow EXCEPT ![s[1]][s[2]] = step]
     \/ workflow' = [workflow EXCEPT ![s[1]] = RemoveAt(@, s[2])]
     \/ workflow' = [workflow EXCEPT ![s[1]] = InsertAt(@, s[2], StepAt(s))]
     \/ s[2] > 1 /\ workflow' = [workflow EXCEPT
                                   ![s[1]] = InsertAt(RemoveAt(@, s[2]), s[2] - 1, StepAt(s))]
     \/ /\ s[1] = "gate"
        /\ workflow' = [workflow EXCEPT !.gate = RemoveAt(@, s[2]), !.side = Append(@, StepAt(s))]
  /\ UNCHANGED << policy, selector, upstream, run >>

EditJob ==
  /\ \/ \E events \in SUBSET Event : workflow' = [workflow EXCEPT !.triggers = events]
     \/ \E controls \in {"disabled", "error-tolerant"} :
          workflow' = [workflow EXCEPT !.controls = controls]
  /\ UNCHANGED << policy, selector, upstream, run >>

\* A reviewer approves the text as it stands.
ApproveWorkflow ==
  /\ policy.workflow_sha256 # workflow
  /\ policy' = [policy EXCEPT !.workflow_sha256 = workflow]
  /\ UNCHANGED << workflow, selector, upstream, run >>

\* The refresh reports a move, and the pin follows it, or is made to name the tag.
ReviewUpdate(a) ==
  /\ UpdateReported(a)
  /\ \E ref \in {upstream[a], Tag} : policy' = [policy EXCEPT !.actions[a] = ref]
  /\ UNCHANGED << workflow, selector, upstream, run >>

BumpLean(v) ==
  /\ \/ selector' = v /\ UNCHANGED policy
     \/ policy' = [policy EXCEPT !.lean = v] /\ UNCHANGED selector
  /\ UNCHANGED << workflow, upstream, run >>

MoveTag(a, c) ==
  /\ upstream[a] # c
  /\ upstream' = [upstream EXCEPT ![a] = c]
  /\ UNCHANGED << workflow, policy, selector, run >>

-----------------------------------------------------------------------------
(* A run. Each job has a machine of its own. *)

NoRun ==
  [event |-> "none", artifact |-> "none", ran |-> {}, gated |-> {},
   gate |-> [pc |-> 0, failed |-> FALSE], side |-> [pc |-> 0, failed |-> FALSE],
   evidence |-> "none", lean |-> Nothing]

\* The jobs start, or are skipped: one that is skipped counts as a success.
StartRun(event) ==
  /\ run.event = "none"
  /\ run' = [NoRun EXCEPT
       !.event = event,
       !.gate.pc = IF event \in workflow.triggers /\ workflow.controls # "disabled"
                   THEN 1 ELSE Len(workflow.gate) + 1,
       !.side.pc = IF event \in workflow.triggers THEN 1 ELSE Len(workflow.side) + 1]
  /\ UNCHANGED << workflow, policy, selector, upstream >>

Running(j) == run[j].pc \in DOMAIN workflow[j]

NextStep(j) == workflow[j][run[j].pc]

Selected(j) ==
  CASE NextStep(j).when = "always" -> TRUE
    [] NextStep(j).when = "never" -> FALSE
    [] NextStep(j).when = "success" -> ~ run[j].failed
    [] OTHER -> ~ run[j].failed /\ NextStep(j).when = run.event

\* The run after a step of job j that changed it to r.
Stepped(j, r, fails) ==
  /\ run' = [r EXCEPT ![j].pc = @ + 1, ![j].failed = @ \/ (fails /\ ~ NextStep(j).tolerant)]
  /\ UNCHANGED << workflow, policy, selector, upstream >>

SkipStep(j) == Running(j) /\ ~ Selected(j) /\ Stepped(j, run, FALSE)

Taking(j, what) == Running(j) /\ Selected(j) /\ NextStep(j).does = what

\* A tag is resolved when the step runs.
Fetched(j) ==
  LET ref == NextStep(j).ref
      action == ActionOf(NextStep(j).does)
  IN [run EXCEPT !.ran = @ \cup {<< action, IF ref = Tag THEN upstream[action] ELSE ref >>}]

CheckOutTree(j) == Taking(j, "checkout") /\ Stepped(j, Fetched(j), FALSE)

\* Bytes that no digest covers.
FetchUnreviewed(j) ==
  Taking(j, "fetch") /\ Stepped(j, [run EXCEPT !.ran = @ \cup {<< "unreviewed", Nothing >>}], FALSE)

Install(j) ==
  /\ Taking(j, "install")
  /\ Stepped(j, IF j = "gate" THEN [run EXCEPT !.lean = policy.lean] ELSE run, FALSE)

\* The gates, on the machine of the gate job: gate 0 validates, a later one may fail,
\* with any part of the evidence on disk.
RunGates(j) ==
  /\ Taking(j, "gate")
  /\ IF j = "gate" /\ Accepted /\ run.lean # Nothing
     THEN \/ Stepped(j, [run EXCEPT !.evidence = "complete", !.gated = @ \cup {run.lean}], FALSE)
          \/ \E e \in {"partial", "complete"} : Stepped(j, [run EXCEPT !.evidence = e], TRUE)
     ELSE Stepped(j, run, TRUE)

\* Any other command, which may write to release/.
RunCommand(j) ==
  /\ Taking(j, "run")
  /\ \/ \E fails \in BOOLEAN : Stepped(j, run, fails)
     \/ j = "gate" /\ run.evidence = "complete"
          /\ Stepped(j, [run EXCEPT !.evidence = "partial"], FALSE)

\* --check-release-evidence; another command in its place finds nothing amiss.
GuardEvidence(j) ==
  /\ Taking(j, "guard")
  /\ Stepped(j, run, NextStep(j).exact /\ (j # "gate" \/ run.evidence # "complete"))

\* The upload takes what is there; with no files it fails, if told to.
UploadEvidence(j) ==
  /\ Taking(j, "upload")
  /\ LET found == IF j # "gate" THEN "none" ELSE run.evidence IN
     Stepped(j, [Fetched(j) EXCEPT
                   !.artifact = IF found = "none" THEN @
                                ELSE IF NextStep(j).exact THEN found ELSE "partial"],
             found = "none" /\ NextStep(j).exact)

RunStep(j) ==
  \/ SkipStep(j) \/ CheckOutTree(j) \/ FetchUnreviewed(j) \/ Install(j)
  \/ RunGates(j) \/ RunCommand(j) \/ GuardEvidence(j) \/ UploadEvidence(j)

\* The workflow of the repository, approved; one tag may have moved since.
WorkflowInit ==
  /\ \E c \in ActionCommit, v \in LeanVersion :
       LET step(does, when, ref) ==
             [does |-> does, when |-> when, tolerant |-> FALSE, exact |-> TRUE, ref |-> ref]
       IN /\ workflow =
               [triggers |-> Event, controls |-> "none", side |-> << >>,
                gate |-> << step("checkout", "success", c), step("install", "success", Nothing),
                            step("gate", "push", Nothing), step("guard", "push", Nothing),
                            step("upload", "push", c), step("run", "push", Nothing) >>]
          /\ policy = [workflow_sha256 |-> workflow, actions |-> [a \in Action |-> c], lean |-> v]
          /\ selector = v
          /\ upstream \in {[a \in Action |-> IF a = "checkout" THEN c ELSE d] : d \in ActionCommit}
  /\ run = NoRun

\* The checkout of a run is a commit: it is edited before.
EditRepository ==
  /\ run.event = "none"
  /\ \/ \E s \in Steps : EditStep(s)
     \/ EditJob
     \/ \E a \in Action : ReviewUpdate(a)
     \/ \E v \in LeanVersion : BumpLean(v)

WorkflowNext ==
  \/ EditRepository
  \/ run.event = "none" /\ ApproveWorkflow
  \/ \E a \in Action, c \in ActionCommit : MoveTag(a, c)
  \/ \E e \in Event : StartRun(e)
  \/ \E j \in WorkflowJob : RunStep(j)

WorkflowSpec == WorkflowInit /\ [][WorkflowNext]_workflowVars

-----------------------------------------------------------------------------

Over == run.event # "none" /\ \A j \in WorkflowJob : ~ Running(j)

\* The conclusion of the run, for a job that tolerates errors a success.
Succeeded ==
  /\ Over
  /\ run.gate.failed => workflow.controls = "error-tolerant"
  /\ ~ run.side.failed

\* Whatever was edited and approved, and wherever upstream moved its tags: if the
\* validator accepts the workflow, a run of it uploads evidence only for a push and
\* only complete, a push succeeds only with the evidence uploaded, no action's code
\* ran but what the policy pins, and the gates passed under the selected Lean. The
\* validator reads texts; that they mean this for a run is what it is for.
AcceptedRunKeepsEvidence ==
  run.event # "none" /\ Accepted =>
    /\ run.artifact # "none" => run.event = "push" /\ run.artifact = "complete"
    /\ Succeeded /\ run.event = "push" => run.artifact = "complete"
    /\ run.ran \subseteq {<< a, policy.actions[a] >> : a \in Action}
    /\ run.gated \subseteq {selector}

=============================================================================
