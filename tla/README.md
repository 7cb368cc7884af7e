# Henret in TLA+

Henret is an executable model, in Lean 4, of an actor and task runtime: a pure
function `step : RuntimeState -> RuntimeOp -> RuntimeState x StepResult`
(`Henret/Scheduler/Model.lean`) with layers above it (drivers, scheduling
policies, traces, a bridge to worker queues), a library of Lean proofs about it,
and a release gate that decides what may be published. This directory is a
second, independent account of the same runtime as TLA+ modules: model-checked
by TLC on small instances, proved about with TLAPS for every instance, and aimed
at what single-step theorems and scenario tests of the repository do not reach:
long interleavings, liveness under a driver, the client's side of the wakeup
contract, the layers that bypass `step`, releases that race, and what a release
is made of: its archive, its tools, its workflow, its documents.

Paths below are relative to the repository root.

## 1. Inventory

| Component | Source | State it keeps | Operations |
|---|---|---|---|
| Scheduler | `Henret/Scheduler/Model.lean`, `Op.lean`, `Henret/Actor/Task.lean` | `taskState`, `taskOwner`, `taskParent`, `restartOf`, `nextId`, `readyQ`, `running` | spawn, spawnChild, schedule, yield, complete, cancel, cancelTree, fail, restartOne |
| Timers, clock | `Henret/Scheduler/Timer.lean`, `Model.lean` | `timers` (sorted), `waitDeadline`, `now` | sleep, tick, wake; receiveUntil inserts, deliveries and terminations remove |
| Messaging | `Henret/Actor/Mailbox.lean`, `Model.lean` | `mailboxes`, `mailboxWaiters`, `timedMailboxWaiters`, `nextMsgId`, capacity | send, inject, receive, receiveUntil, receiveByOccurrence, receiveFrom |
| Admission | `Model.lean` | `actorStatus`, `runtimeStatus` | closeActor, shutdown, stopWhenIdle, stopWhenDrained |
| Resource ledger | `Henret/Resource/Ledger.lean`, `Model.lean` | `resources`, `nextResourceId` | acquire, acquireActor, release, releaseActor, finalize |
| Metadata | `Henret/Actor/Meta.lean`, `Model.lean` | `taskMeta` | setPriority, setDeadline |
| Policies | `Henret/Scheduler/Policy.lean`, `MetaPolicy.lean` | none (reads the runtime's) | reorder, policyStep; five policies |
| Drivers | `Henret/Scheduler/Driver.lean` | fuel | drain, driveOps |
| Progress layer | `Henret/Progress/` | none (properties of operation lists) | none |
| Bridge | `Henret/Bridge/` | worker queues | toQOps, applyQOp, applyMQOp (with steals) |
| Native deque | `Henret/Native/` | a deque | push, pop, steal, driveStackB |
| Trace ledger | `Henret/Trace/` | event lists | traceEvents, stepTrace, runTraceLedger |
| Explorer | `Henret/Explore/` | none | genPrograms, explore, shrinkProgram |
| Backend contract | `Henret/Refinement/` | none | laws on mailbox backends |
| Conformance, rendering, profiles, diagnostics | `Henret/Conformance/`, `Render/`, `Profile.lean`, `Diagnostics/` | none | tests, formatting, constant tables |
| Proof library | `Henret/Proofs/` | none | theorems |
| Release gate | `scripts/check.sh`, `source_archive.py`, `release_manifest.py`, `verify_release_manifest.py` | gate records, the tarball, the manifest, the working tree | run_gate, pack, write the manifest, verify |
| Publication | `.github/workflows/ci.yml`, `scripts/release_publish_preflight.py`, `ci_supply_chain.py` | tags, release pages, kept evidence | preflight, create, upload, check what was published |
| Source archive | `scripts/source_archive.py` | the file written | list, encode, compare, validate, check |
| Workflow audit | `scripts/ci_supply_chain.py`, `ci/supply-chain.json` | the approved text, pins | validate, update audit |
| Tool installer | `scripts/install_ci_tool.py` | a destination directory | download, verify, extract |
| Stack verifier | `scripts/verify_stack_release.py` | a stack manifest | verify |
| Documents | `scripts/extract_*.py`, `public_theorem_index.py`, `proof_dependency_budget.py`, `axiom_audit.py` | generated pages | generate, check |
| Claims | `docs/evidence-ledger.yaml`, `scripts/forbidden_claim_check.py`, `gate_registry.py`, `check_selftest.py` | the ledger, the registry, a page | validate, generate |
| RFCs | `scripts/rfc_metadata_check.py`, `extract_rfc_index.py`, `migrate_rfc_frontmatter.py` | RFC files, two indexes | check, index, migrate |
| Text checks | the other `scripts/*_check.py` | none | scans of text |

**How they interact.** Every layer acts on the runtime through `step`, with two
exceptions that turn out to matter: `drain` writes `taskState` and `readyQ`
directly, and a policy rewrites `readyQ` before it calls `step`. Inside the
runtime the components share one state and every operation updates several of
them at once; that is where the invariants are:

* ending a task (`complete`, `cancel`, `fail`, `cancelTree`) has to take it out
  of the ready queue, the running slot, the timers and the waiter queues, and
  turn its resources over to the finalizer;
* a delivery writes a mailbox and wakes a waiter: a task state, the ready queue,
  one of two waiter queues, the timer queue and a deadline;
* a tick does the reverse for every expired timer;
* `shutdown` and `closeActor` act through guards in other operations only.

**What is hard.** `step` is sequential and total, so nothing races inside an
operation. What is hard is the *order* of operations, which the environment
chooses: a delivery and a tick competing for the same waiter, two deliveries
before the first woken task retries, a termination between wakeup and retry, a
stop decided between two injections, a restart long after a failure. There are
no crashes and no lost messages; time is a number the caller passes to `tick`,
and it need not pass at all. Liveness is explicitly the driver's business
(`Henret/Progress/Policy.lean`).

The release gate is another matter. There jobs run at the same time, fail at
any command, are re-run, and share release pages and tags with each other; gates
may change the tree they check; a developer works on the tree while a local run
packs it; an upload may go wrong. What surrounds the gate has the same character.
The archive is built by git calls that each ask for `HEAD` again. The validator of
the workflow runs inside the workflow and reads its text only. The installer
unpacks into a directory that may be in use already. Generators read what other
generators have committed. The migration of RFC files rewrites one file at a
time and may be run twice.

**What correctness means per component.**

* Scheduler: a task is in exactly the places its state says, once; it ends once;
  whoever is queued gets its turn; a cancelled subtree is the whole subtree.
* Timers: one timer for each timed task and none for others; nobody is woken
  early, nobody is forgotten.
* Messaging: a message is delivered once, to one mailbox, in order, within
  capacity; one delivery wakes one receiver; no wakeup is lost while workers
  follow the contract.
* Admission: once it is over and work has run out, it has run out for good.
* Ledger: a resource never outlives the owner that may release it unnoticed.
* Policies and drivers: they choose order, and nothing else.
* Native deque: what a budget covers is completed, and nothing else.
* Release: whatever the verifier accepts is an archive of the commit named, all
  gates passed on that content, and a page holds the assets of one attempt.
* Archive: what is accepted unpacks to the checkout of one commit.
* Workflow: a run of an accepted workflow keeps complete evidence and runs no
  code but what is pinned.
* Tools: a destination holds reviewed bytes, whoever was killed in it.
* Stacks: each consumer was built against the very provider the stack has.
* Documents, claims, RFCs: green gates mean that the pages are true; running
  generators ends.

## 2. Modules

| Module | Models | Correspondence |
|---|---|---|
| `Queues` | list operations, the timer queue | `Without` = `List.filter` by exclusion; `InsertSorted`, `Expired`, `Remaining` = the functions of `Timer.lean`; `RemoveFirst` = `Mailbox.listDequeueFirst`. Recursion is by recursive functions only. |
| `Ledger` | resource records and their updates | `MarkClosing(owners)` is `markClosingIfOwner`; task and actor cases differ in the set passed |
| `RuntimeState` | the fields of `RuntimeState`, `init`, shared guards | one variable per field; `None` is Lean's `none`. `mailboxPolicy`, which no operation changes, is the constant `Capacity` |
| `Lifecycle` | creation, dispatch, termination, supervision, time | one action per operation |
| `Messaging` | mailbox operations | one action per operation; the code repeated between `send` and `inject` is `Deliver`, between the three untimed receives `ReceiveWanted` |
| `Admission` | closing, shutdown, resources, metadata | one action per operation |
| `Runtime` | `run` on any list of operations | `Next` offers every operation with every argument; invariants and action properties |
| `Progress` | drivers that keep going | fairness and liveness |
| `WorkerPool` | clients that follow the Mesa contract | composes the runtime with worker loops |
| `Policies` | `policyStep` for five policies | `Dispatch` on the reordered queue |
| `Driver` | `drain`, `driveOps` | one action per operation `driveOps` issues; its `LayersSpec` lets policies and the driver take turns on one runtime |
| `Operations` | `RuntimeOp` as data, `step` | records with a `kind`; `Step(op)` is the action of `Runtime` that `op` stands for, `Accepted(op)` is the table of the guards `step` looks at first, `Refused` its negation; `TasksToWake`, `WaiterToWake`, `TasksToEnd` are what the layers below compute beside `step` |
| `Native` | the deque of a native worker and `driveStackB` | `PushBottom`, `StealTop`, `PopBottom` are `qStepRef`; `CallStack` reverses the deque to the owner's view, and `CompleteFirst`, `RunFirst`, `ReturnStack` are the equations of `driveStackB` |
| `Bridge` | worker queues beside the runtime, one worker or several | `toQOps`, `applyQOp`, `applyMQOp` (`ApplyMQOp`, and `Transfer` for a list of queue operations) are evaluated on the state an operation finds; `BridgesExact` joins the predicates `BridgeState` and `MultiBridgeState` |
| `Trace` | the trace ledger | `TraceEvents` is `traceEvents` with its own guards; `replay` is what a reader of the ledger reconstructs |
| `Observers` | the runtime with both of them | one step: an operation, its translation and its events |
| `Explorer` | counterexample shrinking | `ShrinkPass` is `shrinkPass`, `Shrink` one round of `shrinkProgram`, for any property of programs |
| `Gates` | a run of `check.sh` | a record per job: the checkout, the gates' records, the tarball, the manifest. `RunGate` is `run_gate`, `BuildArchive` is `source_archive.py`, `ManifestOf` is `release_manifest.py`, and `GateContract`, `Binds`, `Accepts` are what `verify_release_manifest.py --require-current` asks of one, two and three files |
| `Release` | the workflow on top, and GitHub | `Start`, `PushTag`: the triggers; `Retain` to `CheckPublished`: the steps of `ci.yml` in order; `DeleteTag`, `Rerun` and the creation of a page are GitHub's, as the workflow uses them |
| `Archive` | `source_archive.py`: what is inside a tarball, its build, its check | tar members in one order, names split between two fields, contents in tar blocks, the stream in stored blocks; `ListTree` and `ReadTree` are the passes of `build`, each on `HEAD` as it is then; `Checked` is `--check`, `Tamper` another tool. `still` and `torn` are history: whether a commit came since the build began, and in the middle of which passes |
| `Workflow` | `ci.yml` as text, `ci_supply_chain.py`, a run of it | a step is a record of what the validator looks at; `Accepted` is `validate`; `EditStep` to `MoveTag` change workflow, policy and upstream; `StartRun` and `RunStep` are the hosted runner's, as the workflow uses it |
| `Toolchain` | `install_ci_tool.py` | `BeginInstall` to `FinishInstall` in order, member by member; `KillInstall` between files, `CutShort` within one, `Serve` and `PinTool` around it |
| `Stack` | `verify_stack_release.py` | `Verified`; packages are released and entries updated meanwhile |
| `Surface` | theorems, the axiom audit, metadata of the model and the pages generated from them | `Fresh(doc)` is what a generator would write now, or `Refused` |
| `Claims` | the evidence ledger, the gate registry, their checks | `EntryValid` is one entry's part of `forbidden_claim_check.py`, `RegistryExact` is `check_selftest.py`'s |
| `Rfcs` | front matter, its gate, the indexes, the migration | a file per folder and number; `MigrateFile` rewrites the first that is still to go |
| `Documents` | the three together | `GreenGates`; developers edit a source at a time and run generators in any order |
| `TaskLife`, `Leases` | abstract specifications | what the scheduler and the ledger promise, without queues |
| `Refinements` | the two refinement mappings | `PROPERTY` of the runs `tasks` and `ledger` |
| `QueueTheorems` | facts about `Queues`, and when a list continues another | proofs |
| `RuntimeInvariants` | type correctness and the scheduling invariants | proofs |
| `RuntimeHistory` | family, mailboxes, the ledger; what a step may never do to them | proofs |
| `RuntimePromises` | FIFO, how a runtime ends, the two refinements, the Mesa contract of `WorkerPool` | proofs |
| `LayerTheorems` | `Policies`, `Driver`, `Native` | proofs |
| `ObserverTheorems` | `Trace` and `Bridge`, side by side in `Observers` | proofs |
| `ReleaseTheorems` | `Gates` and `Release`: types, accepted evidence, pages, tags; `Toolchain`, `Workflow`, `Stack`, `Archive` | proofs |
| `DocumentTheorems` | `Surface`, `Claims`, `Rfcs`, `Documents` | proofs |
| `MC*` | instances for TLC | `MCRuntime` for the runtime with resources and with a driver; `MCPrograms` for tasks and mailboxes; `MCLayers` for `Driver`, `Policies` and `Native`; `MCObservers` for `Observers`; `MCWorkerPool` for the pool; `MCRelease` for `Release`, which `MCSupply` extends by the archive, the workflow, the tools and the stacks; `MCDocuments` for `Documents` |

**Conventions.** An operation whose guard fails returns `.invalid` and the same
state: a stuttering step, so it is no action. The same holds for a delivery to a
full mailbox (`.backpressured`) and a `receiveUntil` whose deadline has passed
(`.timedOut`). Message bodies are left out: no operation reads them, and the
occurrence id that delivery stamps on an envelope tells messages apart. Results
are not state; the action taken determines them. Definitions whose comment
starts with `Fault:` are deliberate bugs, one per property, each a variant of
the definition that follows it; no specification uses them. They show that the
property next to them can fail.

Components that share no state are checked in one run: a behaviour chooses a
*focus* at its start and works on that component, while the variables of the
others rest.

## 3. Runs

All bounds are constants: `MaxTask`, `MaxMsg` and `MaxResource` stop the
corresponding counter, `MaxTime` bounds the deadlines asked for and the clock.

| Run | Instance | Shows |
|---|---|---|
| `tasks` | two focuses. Tasks: task, time and message operations; 3 tasks, 1 actor, 1 message, times 0..1. Mail: 2 tasks, 2 actors, one with 2 mailbox slots, 3 messages. 141 000 states | type invariant; `QueueExact`, `WaitersExact`, `TimersExact`; mailboxes in order, within capacity, no id twice; one delivery wakes one receiver; timed wakes are justified; queues are FIFO; a message is consumed at most once and never moves; refinement of `TaskLife` |
| `ledger` | all operations but metadata; 2 tasks, 1 actor, 2 resources, 1 message; and up to 4 tasks that are created, scheduled and ended only. 134 000 states | ids, parents, restarts; `cancelTree`'s walk against the closure it stands for, for every root; terminal states are final; resources against the life of their owners; refinement of `Leases`; a stop is quiescent; quiescence without admission is final, and so is a drained stop |
| `progress` | all operations but resources and metadata; 2 tasks, 1 message, times 0..1, fairness; 7 300 states | no starvation, no stranded timed task |
| `pool` | 3 workers, 3 messages, times 0..1, fairness; 48 000 states | no lost wakeup, every message is received |
| `layers` | two focuses. Policies and the driver in turns: 3 tasks, one priority, deadlines none, 0 and 1, fuel up to 2, `drain` at any time, fairness of the driver. The native deque: 4 pushes, fuel 0..2, budgets 0..8. 303 000 states | a policy's choice is the oldest of the best, also after other policies have permuted the queue; a step that starts a task takes only that task out of the queue, a refused policy step at most brings one task to its front, and every other step is FIFO (with a task running two others are queued, so that the rest keeps its order there is left to the proof); `driveOps` does to the head of the queue what `drain` does; `driveStackB` completes exactly what its budget covers, latest first; both end |
| `observers` | every operation offered in every state, carried out or refused; 2 tasks, 1 actor with one mailbox slot, 1 resource, 2 messages, times 0..1; one worker or two (interchangeable, hence a symmetry set), with steals; 74 000 states | a single worker's queue is the ready queue; the queues of several hold each ready task once; the events of the operations carried out tell phases, queue and mailboxes; on the way, that `Accepted` is when an action is enabled (`GuardsAgree`) |
| `release` | five focuses, 1 040 000 states. Release: 2 jobs (interchangeable) of 2 attempts each, 2 commits of one version and of different policies, 3 gates, one of each kind. Archive: 9 commits, up to two of them committed during builds, an archive altered once. Workflow: 2 edits, approvals, moving tags. Tools: 6 archives, 5 changes of servers and pins. Stacks: 2 packages, 3 releases, 2 entries, 6 steps | types; accepted evidence is sound; a page is its creator's; a green tag run has published; an accepted archive unpacks to a checkout; a run of an accepted workflow keeps its evidence; only reviewed bytes are installed, and a success is whole; stacks are bound |
| `documents` | four focuses: 2 theorems and 2 edits, a claim, 2 gates, 2 profiles and 3 edits, 2 RFCs and 2 edits, a migration of 2 RFCs; fairness of the generators; 78 000 states | green gates mean true pages; a migration, however often interrupted, is accepted; running generators ends with gate 7 green |
| `events`, `shrink`, `validation`, `surface` | minimal; `shrink`: any property of the programs of up to 3 operations out of 2; `validation`: one job, one attempt, one commit; `surface`: the theorems of `documents` | section 6 |

*Why the bounds are enough.* Three tasks are the least that has a running task,
a waiter and a bystander, or a queue whose middle can be filtered; a fourth
gives chains of depth three with a sibling, which the subtree walk needs, and a
restart of a child that has children. Two instants give a timer that is due, one
that is not, and a deadline already passed (`sleep` with a deadline of 0 at
time 1). With two slots and three messages a mailbox fills, rejects, is drained
from the middle and fills again. Two resources give one owner two of them and
two owners one each. In `pool`, three messages and three workers let a second
delivery come between a wakeup and its retry while another worker is parked. In
`observers` the one slot makes deliveries fail, two tasks are queued on two
workers in every way, and a stale entry would show when its task runs or ends; a
state constraint, `LeaseOrMail`, lets programs that acquire the resource do without
a second worker and a second message, neither of which resources depend on.
In the native deque four pushes leave three tasks beside a stolen or popped one,
and budgets from 0 to 8 end before, within and after every one of the three.
The runs divide the operations among them: resource operations change the ledger
only, metadata operations `taskMeta` only, and admission acts through guards, so
the runs without them allow more than the runtime, never less. In `ledger` a
state constraint, `FamilyOrLease`, lets programs of more than two tasks do without
messages, timers, resources and admission. The proofs below have no bounds.

In `release` two jobs with two attempts are what a race for a page takes: one
creates it, another has passed its preflight; an attempt leaves a page behind and
the next finds it. Two commits with the same version let a tag be withdrawn and
pushed again elsewhere, and with different policies let a manifest be compared
with the wrong tarball. Gates of a kind differ only in order, so one of each is
enough. Jobs meet only at a release page, which only tag jobs reach; so
`TagJobsMeet` lets two jobs be under way together only if both are tag jobs, and
a job of any other kind has the run to itself.

Sizes in the archive are small numbers that keep the relations between the real
ones: names that fit a field, that fit with a prefix, that fit but for the slash
of a directory, and that do not fit; streams that end within a deflate block and
at its end; empty files. `HEAD` moves forward only, and what a commit contains is
read together with its time: git calls of one pass that meet different commits
are those before and after the listing. `MaxHeads` lets two commits follow the first, so
that two passes can each meet one; an archive is altered after one at most. A workflow takes one edit to break, one to
compensate and an approval, which is not counted. Five changes upstream serve and
pin two archives after the first and withdraw one, while installs are cut short
over what is left of earlier ones.
In a stack the interesting case is a provider released again after its consumer:
two manifests, the consumer's entry, and the provider's before and after. Of the
RFCs one waits for the other, so that a migration that stops between them has
written half of a relation.

*Deadlock* is checked everywhere but in `shrink`, where `shrinkProgram` returns,
in `release` and `validation`, where the jobs there are have been used up, and in
`documents` and `surface`, where edits end and everything is current.
`shutdown` is always possible, so the runtime never stops; the pool can always
be shut down again and the driver, when done, stutters explicitly.

*Choices that the code leaves to its hypotheses.* With several workers a
dispatch names a worker and takes the head of its queue, as `PopAt` does; the
theorems of `Henret/Bridge/` assume that a filter is sent to the worker that
holds the task (`multi_bridge_filter`) and that a steal is between different
workers (`multi_bridge_steal`), and so does `Bridge`.

## 4. Fairness

The runtime promises no progress and neither does `Spec`. `Progress!Fairness`
is weak fairness of three actions: `Schedule`, giving back the processor
(`Yield` or `Complete` of the running task) and `Tick(MaxTime)`. The first is
the driver obligation that `BoundedReadyFair` in `Henret/Progress/Policy.lean`
states with an explicit window. It need only be weak: while somebody is queued
and nothing runs, `Schedule` stays enabled until it is taken. The second is what
the documentation asks of task bodies, which the runtime does not preempt. The
third is what `docs/src/progress-policy.md` leaves to the embedding: the clock
moves when the caller ticks. Without the third, `TimedIsResumed` is false;
without the second, so are all of them.

`PoolFairness` asks less: the driver schedules and the running worker takes its
next step, whatever that is. No fairness of `Tick`, `Inject` or `Shutdown` is
assumed, so `MessageIsReceived` does not rely on timeouts to make up for lost
wakeups. `DriverFairness` and `NativeFairness` are those of a function that is
called and returns. `GeneratorFairness` is weak fairness of each generator: a check
that fails names the generator to run, and the developer runs it. It says nothing
of the order, and the edits before it are bounded but not fair.

## 5. Proofs

Everything about the runtime is proved from the assumptions on its constants
only: `BoundsAssumption` and `FuelAssumption` (bounds are natural numbers),
`NoneAssumption`, `AbsentAssumption` and `NoRecordAssumption` (`None` is no number,
actor, task state, list of envelopes or record: Lean's `none` is different from
every `some`) and `StateAssumption` (the other constants have the obvious types).
The theorems on what surrounds the runtime rest on the assumptions of their
modules, which keep markers such as `None`, `Edited`, `Missing` or `Refused` apart
from data and say what shape archives, registries and tables have. TLC evaluates
all of them. No proof bounds the number of tasks, actors, messages, resources,
instants, jobs, commits, gates, theorems, claims, RFCs or packages.

The proofs build on each other in one direction: `QueueTheorems`, then
`RuntimeInvariants`, on which `RuntimeHistory` and `LayerTheorems` rest, then
`RuntimePromises` and `ObserverTheorems`. The other modules stand alone.

*The lists* (`QueueTheorems`). Every invariant speaks of queues that operations
filter, split, append to and insert into. The module proves once, for lists of
any length, what these operators return: `WithoutProperties` (filtering keeps
exactly the other members, no duplicates, and the order by deadline),
`InsertSortedProperties`, `RemoveFirstProperties`. `Without` is a recursive
function; its theorem goes by the least counterexample, and through a witness
that says at which place of the old list each kept member was.

*Types* (`RuntimeInvariants`). `TypeCorrect`: `Spec => []TypeOK`.

*The scheduling invariants* (`RuntimeInvariants`). `QueueIsExact`,
`WaitersAreExact` and `TimersAreExact` follow from the inductive invariant

    IInv == TypeOK /\ QueueExact /\ WaitersExact /\ TimersExact

None of its parts is inductive by itself, which is also why the code may do what
it does:

* a delivery queues the head of a waiter queue. That keeps the ready queue free
  of duplicates only because waiter queues hold parked tasks, once each
  (`WaitersExact`), and it keeps the timer queue exact only because the waiter's
  timer goes with it (`TimersExact`);
* a tick queues the tasks of expired timers, sleepers before timed receivers,
  without asking what else they are doing. `TimersExact` says that they are
  sleeping or waiting, and once each, so the two lists are disjoint, nobody is
  queued twice and no timer that is dropped belonged to anyone else;
* `cancel` and `fail` filter the plain waiter queue of the task's own actor and
  no other. `WaitersExact` says that it can be in no other.

One lemma per operation shows that `IInv` survives it. The lemmas share the
argument rather than the text: `EndExact` serves `cancel`, `fail` and
`cancelTree`; `ReadiedQueue` and `ParkedQueue` say what a task that becomes
runnable or parks does to the ready queue; `WaitersRemoved`, `WaitersKept`,
`TimersRemoved` and `TimersKept` say on how much of the state an invariant
depends, so that an operation that touches none of it costs a line.

*What a runtime remembers* (`RuntimeHistory`). Three lemmas sort the thirty
actions by what they do to the tasks, to the mailboxes and to the ledger
(`TaskSteps`, `MailSteps`, `LedgerSteps`), so that what follows is proved of a few
shapes of a step and not of every operation.

* `FamilyIsExact` and `TerminalIsForever`: ids, owners, parents and restarts fit
  each other after any history, and an ended task never changes again. The
  invariant is `FamilyInv == IInv /\ FamilyExact`.
* `SubtreesAreClosed`: the walk of `cancelTree` by increasing id, for every root,
  is the whole subtree. It needs `FamilyExact`, which puts a parent's id below
  its child's: in the order of ids, a parent is reached before its children.
* `MailboxesAreExact`, `MessagesOnce`, `OneIsWoken`, `TimedWakesAreJustified`: a
  mailbox holds messages in the order of their ids, within capacity; a message is
  consumed once and never moves; a delivery wakes one receiver; a timed receiver
  wakes for a message or for its deadline.
* `LedgerIsExact` and `ReleaseIsForever`. A resource of an owner that ends is
  marked in the same step, which is worth something only if nobody who is not
  there owns one; so the invariant is `LedgerInv == IInv /\ LedgerExact /\
  OwnersKnown`.

*What it promises* (`RuntimePromises`).

* `QueuesAreFifo`. Each queue goes on from what it was: what is left of it, in
  order, and newcomers at the tail (`Continues`, which names the old place of each
  member). No operation needs more than three facts about continuations.
* `QuiescenceIsFinal`: once admission is over and nothing runs, is queued or has a
  timer, that is so forever. The one operation that might bring a task back is
  `wake`, which asks only that the task sleeps; a sleeper would have a timer
  (`TimersExact`), and there is none. `DrainIsFinal`: a ledger drained by then
  stays drained, since what is released is not marked again and acquiring needs
  open admission or a running task. `StopIsQuiescent`: a runtime that says it has
  stopped is quiescent, in every later state too.
* `ImplementsTaskLife` and `ImplementsLeases`: under the mappings of `Refinements`
  every step of the runtime is a step of the abstract specification or a stutter.
  The second needs that a closed actor had a mailbox (`ClosedKnown`): the lease of
  one that never existed cannot be ended.
* `WakeupsAreKept`, for any number of workers and messages: while workers sleep on
  a mailbox, it holds no more messages than there are workers about to look into
  it. A delivery wakes one worker and gives it nothing, so there is no worker to
  point at for a given message, only a balance (`Balanced`) that every step of
  every worker keeps: what a worker takes, what it puts back by parking, what a
  timeout turns into a retry. The invariant is
  `PoolInv == FamilyInv /\ ServingRuns /\ NoLostWakeup`.

*The layers that choose* (`LayerTheorems`). `LayersInductive`: policies in turns
with `drain`, which bypasses the operations, keep `IInv`. `ChoiceIsTheOldestBest`:
the one pass of `PickBy`, a recursive function, finds for every policy the first
of the best in a queue of any length; that takes an order (`BetterIsAnOrder`), and
priorities that are absent must fit into it. `QueueIsKept` is about every step of
a policy or a driver, the refused one included: a step that starts a task takes
that task out of the queue and leaves the others in their order; a `policyStep`
that is refused because a task is running changes nobody's state and yet may bring
one task to the front (`BroughtForward`), the others staying as they were; every
other step that changes a task or the processor is FIFO. With no task running a
refusal changes nothing: by `QueueExact` whoever is queued is runnable, so the
queue was empty. `GoalsAreMet`: from any state and with any fuel `driveOps`, one
operation at a time, does to the head of the queue what `drain` does at once. The invariant `DriveInv` says it of every state in between,
within a round too: the goal is what `drain` would still do within `Reach` of the
fuel that is left. The native driver is part of `GoalsAreMet`: what a budget
completes is a prefix of the owner's view, and `StackInv` keeps the account: the
budget left, the cost of what is done and what the first task on the stack has
used up add to the budget given.

*What the trace tells* (`ObserverTheorems`). `LedgerTellsAll`: from the events of
the operations carried out, a reader knows every task's phase, the ready queue in
its order and every mailbox. What there is to know is `Told`, a function of the
state, and the invariant is `ReaderInv == IInv /\ MailboxesExact /\ replay = Told`:
for each operation, reading its events from `Told` gives `Told'`. The two scheduling
invariants are needed where events are coarser than the step. A tick reports the
woken one by one, which gives the new ready queue because each is woken once
(`TimersExact`). `cancelTree` reports every task of the subtree, and a reader takes
out one at a time what the runtime filters at once (`CancelledOneMore`). `received`
names an occurrence, and to take that out of a mailbox is to take out one
message, since no id is there twice (`MailboxesExact`).

*What the native workers hold* (`ObserverTheorems`). `BridgesAreExact`: whatever is
offered, dispatched and stolen, the workers' queues hold the ready tasks, each
once. The invariant adds `Matches(workers, workerQ, readyQ)` to `ReaderInv`. Every
operation does one of three things to the ready queue: it appends `Pushed(op)`
(`StepPushes`), it filters out `TasksToEnd(op)` (`StepDiscards`), or it takes the
head. The guards that `toQOps` repeats are weak enough (`StepTranslated`: what is
carried out is translated) and strong enough (`RefusedTranslated`: what is refused
translates to nothing). `Matches` survives one queue operation at a time
(`PushMatches`, `DiscardMatches`, `PopMatches`), and a list of them by the least
counterexample. That the tasks pushed are new to the queues is `QueueExact` of the
state after the step. A steal is a pop followed by a push to another worker.

*What an accepted manifest says* (`ReleaseTheorems`). `AcceptedEvidence`: a
manifest and a tarball that pass the verifier are of one commit, and every gate
passed on its unchanged content. The verifier sees neither the tree nor the
order of events, only a manifest that claims to be clean and hosted. The proof is
that such a claim is enough (`TrueManifest`), by induction on what the job knows
(`Evidence`): as long as a hosted tree is at its commit, all gates so far found
it there, because a tree that was edited is never the commit again; so clean at
the end is clean throughout. A local tree can be edited and reverted under the
gates, or moved to another commit after the archive was packed, which is why
the contract has to refuse local manifests; the mutant that accepts them breaks
the property. That two archives of different commits differ is in the model: an
archive is named by its commit, as its canonical form permits.

*Who publishes* (`ReleaseTheorems`). `AssetsAreByCreator`: whatever jobs race for a
page, its assets are those of the attempt that created it. `GreenIsPublished`: a
tag run that is green has published what it verified. The invariant is
`PublishInv == ReleaseTypeOK /\ EvidenceTrue /\ PagesFit`. `PagesFit` says
of each stage which jobs get there and that one which uploads is the creator of its
page, and of each page which assets its creator may have put there, by attempt:
a job that is run again is not the creator of what it created before.

*What an installer leaves on disk* (`ReleaseTheorems`). `VerifiedInstalls`:
whatever servers send, whenever pins change and wherever installs were cut short,
every file is one that a reviewed archive has at its path, inside the destination,
and an install that reports success has every member of such an archive whole on
disk. The invariant (`ToolchainInv`) says that pins, and what is being unpacked,
were reviewed (`PinsReviewed`, `UnpacksReviewed`), and that of the archive being
unpacked the members that are no longer to do are on disk (`UnpackedOnDisk`). The scan
matters twice: canonical names lead where they say (`SafeMember`) and the
directories above them are inside as well (`CanonicalInside`), and since no two
members have one name a later one does not undo an earlier one
(`SafeNamesDiffer`). A part of a file is not mistaken for a whole one, because
the next install writes over it. Of names that are not canonical `Resolve` is a
fold, about which nothing needs to be proved: they are refused.

*What an accepted workflow does* (`ReleaseTheorems`). `AcceptedRuns`: however a
workflow was edited and its policy approved, a run of it, if the audit within the
run passes, has kept complete evidence and run nothing but what is pinned. The
validator reads text. `Audited(g)` is what it has seen to of the text, if the guard
is step `g`, and `OnCourse(g)` what that means for a run at any step before, at and
after it; the invariant `HostedInv` joins the two. It holds along runs that fail as
well: a guard that fails fails the job, since it tolerates no failure, and then the
upload behind it does not run; so there is a whole artifact or none.

*What an accepted stack binds* (`ReleaseTheorems`). `AcceptedStacks`: each consumer
in an accepted stack was built against the very provider the stack has. The
invariant is that a manifest names only manifests that were published before it
and that what the verifier has at hand was published (`BuiltAgainstOlder`,
`AtHandPublished`); that no package rests on itself follows from the first.

*What an archive unpacks to* (`ReleaseTheorems`). `ArchivesUnpack`: an archive that
passes `--check` unpacks to the checkout of its commit; what a build leaves behind
passes for one commit, unless another came in the middle of each of its four passes;
and a build of a commit that stays is refused only for what the policy names. The
first and the last are about an encoder and a decoder. They are proved one layer at a
time, from the inside out:

* the members are enumerated, each path once (`OrderEnumerates`): ranks are distinct
  and finitely many, so counting those before a path is one to one;
* cutting a stream into stored blocks and putting the blocks together again gives the
  stream (`StoredRoundTrip`), because exactly the last block is marked as final, full
  or not (`BlockBounds`). This is where the mutant fails;
* the two fields of a name put together are the path (`UstarJoins`), and the reader,
  started at a header, returns that member and goes on behind it (`MemberReadBack`,
  `PartsRead`); so reading gives back what was written (`ArchiveRoundTrip`);
* the validator accepts each member that the encoder writes (`CanonicalIsValid`), and
  unpacking them leaves the checkout (`CanonicalUnpacks`). Since no path of a tree is
  a file and a directory, no member undoes another (`PathsDistinct`).

The second is about commits that come during a build, and its invariant is
`ArchiveInv`. Whatever came in between, an encoding is of the listing of one commit
with the contents of one (`MixesTwo`); a pass that none came in the middle of has
encoded one commit, or compared with one (`UntornIsOne`). The validating pass counts
like the others, which is not obvious, because it looks at members and not at bytes:
an archive written for one listing and other contents that is valid for a commit is
the archive of that commit, byte for byte (`ValidIsCanonical`). If nothing came in
between at all, all passes encoded `HEAD` (`StillIsHead`). The exception is real: four
passes that each meet another commit between listing and reading can agree on a
mixture of two, if the later commits take back what the earlier ones did. It takes
eight commits, more than the bound of the run, so there only the proof distinguishes
the property from one without the exception.

*What green gates say* (`DocumentTheorems`). `GreenDocuments`: if the gates are
green, the pages are true of the theorems, the claims and the RFCs, after any
edits. Each gate compares two texts. The proof chains them: the audit ties the
allowlist to Lean, a snapshot is compared with Lean and another page with the
snapshot, a claim's gate is registered for one profile and has a capability, and
so runs under the profile in force. Of the state it needs types and that no
generator commits a refusal (`GreenInv`).

*What a migration leaves* (`DocumentTheorems`). `MigrationIsAccepted`: a migration
of legible files, interrupted and restarted in any way, ends with files that the
gate accepts. Migrating a file twice changes nothing (`CanonicalIsSettled`),
migrating one leaves all as legible as before (`FileMigrated`), and so the files a
run has passed are settled (`MigrationInv`); relations that are written one file
at a time mirror each other in the end because those of the wave do.

*Only model-checked.*

* That an operation which `Accepted` lets through can be carried out: the prover
  knows nothing of `ENABLED`. The converse is proved (`StepIsAccepted`), and
  `observers` compares the two in every state.
* The liveness properties (`RunnableIsDispatched`, `TimedIsResumed`,
  `MessageIsReceived`, `DriversEnd`, `RegenerationConverges`): the prover has no
  rules for fairness.
* The four violations of section 6, which are counterexamples.

## 6. Where code and documentation disagree

Four have a run that expects a violation (modules `Trace`, `Explorer`, `Release`,
`Documents`).

* `events`. The comment on `traceEvents` (`Henret/Trace/Run.lean`), and claim C9
  of `docs/src/assurance-case.md`, say that its guards match `step` exactly, so
  that a refused operation is reported as `invalid` or `noEffect`. `traceEvents`
  has guards of its own, and they leave out the runtime's status for `spawn` and
  `inject`, the actor's status and a full mailbox for `send` and `inject`, and
  undrained resources for `stopWhenDrained`. A spawn refused after a shutdown is
  in the ledger as a spawn. Operations that are carried out are reported right
  (`LedgerReplays`), with one trap for a reader: `cancelTree` reports `cancelled`
  for every task of the subtree, those that had ended before included.
* `shrink`. A deletion pass is to keep a removal if the property still fails on
  the shortened program. `shrinkPass` asks about the operations *after* the one
  it tries, without those it has kept, so `[a, b]`, where the property fails on
  `[a, b]` and on `[]` but not on `[a]` or `[b]`, shrinks to `[a]`, which is no
  counterexample. `findAndShrink` never shows this: `explore` returns a shortest
  counterexample, on whose suffixes the property holds, and nothing is dropped.
* `validation`. `scripts/check.sh` lists gates 2 and 4 as the advisory ones and
  says that an advisory gate's real failure is surfaced after the validation run.
  With `--release-validation` every gate is advisory, the self-test (0) and the
  build (1) included, and the look at the records after the run is at 2 and 4
  only. If 0 fails and the others pass, the run reports failure nowhere and ends
  with "all gates green". No publication depends on this mode.
* `surface`. `scripts/public_theorem_index.py` says that a public theorem name
  cannot disappear without an edit of the snapshot, and
  `docs/src/proof-api-stability.md` says the same of every top-level theorem with a
  stable prefix. The script finds a theorem where a line begins with `theorem`.
  `@[simp] theorem step_preserves_mailboxPolicy` (`Henret/Proofs/StepProjections.lean`)
  is public by its name and not in the snapshot: it can be removed between two
  green states without a trace.

Two follow from a definition alone and have no run:

* `Henret/Core/Result.lean` guarantees an unchanged state for `.invalid`.
  `policyStep` while a task runs answers `.invalid` and has moved the chosen
  task to the head of the queue (`Policies!PolicyStep`). `PolicyKeepsQueue` says
  what is left of the guarantee: this task alone is moved, nobody is lost.
* `docs/src/resource-lifetime.md` says that every terminal transition
  reclaims and that a terminal task never owns an allocated resource. `drain`
  completes tasks without `step` (`Driver!Drain`): a task that acquired a
  resource, yielded and was drained keeps it allocated. It can no longer be
  released (its owner cannot run) nor finalized (it is not closing), and
  `stopWhenDrained` is refused from then on. The Lean theorems are about states
  reached by `step` and do not cover the driver.

Others are matters of wording. The theorem table in
`docs/src/integration-contract.md` says a task is in `readyQ` iff it is
`.ready`; a new or yielded task is queued too, as the Lean theorem and
`QueueExact` say. `Henret/Core/Result.lean` says `.blocked` comes only from
`receive` on an empty mailbox; a selective receive blocks on a mailbox that
holds other messages. The same file says `tick` wakes tasks in timer order: with
a timed receive due at 1 and a sleeper due at 2, `tick 2` queues the sleeper
first, since the code concatenates sleepers and timed waiters. Whoever wants
deadline order gets it within each kind only. `docs/src/release-manifest-schema.md`
has the stack verifier check tarball hashes against the provider's manifest;
`scripts/verify_stack_release.py` looks only whether a file with that hash is in
the directory of tarballs.

Of the tooling: `scripts/axiom_audit.py` announces that a theorem depends on
exactly the axioms of its tier, and checks a lower and an upper bound, so a
theorem of tier `STD_C` may do without choice. `migrate_rfc_frontmatter.py` is
idempotent on what it migrates, as it says, but not on files edited after: it
resets `supersedes` and `superseded_by` and rewrites `depends_on` and `blocks` from
its own table. RFC 000 wants a superseded RFC to name its successor; the gate
accepts an empty list. The stack verifier compares neither the version an edge
states with the provider's entry, nor anything with the provider's tarball hash.

Not disagreements but worth knowing. Nothing checks that a tag still points at
the commit published under it: a tag moved between its run's checkout and
`gh release create` gets a page with the old commit's archive. And re-running a
tag run that was green turns it red, since the preflight finds the page it
created itself; the page is not touched. `WorkerPool` excludes one thing the runtime
permits, ending a worker between its wakeup and its retry. With it a message can
stay in the mailbox while other workers of the actor sleep: the wakeup died with
the worker. The contract promises no delivery guarantee, so a supervisor has to
wake the pool again by delivering something. Claims are bound to gates through
`active_evidence_ids`, which spells out the gates of version 4 whatever
`ACTIVE_PROFILE` says (`Claims!Bindable`); the ledger of a new profile is refused
until that is edited, too. A claim about another package may cite any gate, and
one that does lets the pages say that the runtime is verified here. The installer
means to report success only if the archive contained the tool, but asks if a
file is at the tool's place: if the archive has the tool elsewhere, what an older
install left there will do, even half a file. `VerifiedBytesOnly` therefore
promises the members of the archive, and no more. The workflows install into a
directory of the runner's, which is empty. The
step that runs the gates is protected by the approval of the workflow's text only;
guard and upload by their keys as well.

## 7. Not modelled

* The explorer's enumeration of programs, which is what TLC does here; the
  metadata on traces; the mailbox backend contract, a record of laws and two lists
  that satisfy them.
* Conformance scenarios, rendering, profiles and diagnostics: tests, formatting
  and tables without state.
* The Lean proof library, which is about the model and not behaviour of it.
* The native deque under concurrent access, which is assumed by axioms and is not
  in the repository.
* The checks of symbols, counts, links, summaries, warnings and helper usage in
  `scripts/`: each looks for patterns in text, once, and nothing depends on an
  order. For the release they are gates that pass or fail.
* Syntax: JSON, YAML, Markdown and tar headers beyond the fields named, the
  layout of pages. A document is what it says of each name.
* Manifests of older profiles, the build cache of pull requests, the workflows
  that publish the book.
* The bounded window `k` of `BoundedReadyFair`; weak fairness stands for it.

## 8. Plan

The order is that of importance for the runtime.

1. Done: the core (`Queues` to `Runtime`), its runs, the client layers
   (`Progress`, `WorkerPool`), the layers that touch the queue (`Policies`,
   `Driver`), the abstract specifications, and the proofs of section 5.
2. Done: the layers that watch the runtime (`Operations`, `Bridge`, `Trace`,
   `Observers`) and shrinking (`Explorer`).
3. Done: the release gate and publication (`Gates`, `Release`), and the proof of
   what accepted evidence says.
4. Done: what surrounds a release (`Archive`, `Workflow`, `Toolchain`, `Stack`),
   the documents (`Surface`, `Claims`, `Rfcs`, `Documents`), the native deque
   (`Native`), and the proof of what an installer leaves on disk.
5. Done: the proofs of section 5, which state every safety invariant and action
   property of the passing runs.
6. Lemmas on lists for the mailbox backend contract; documents that are scanned
   for symbols and links.
