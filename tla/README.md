# SHUD-Harness: TLA+ models of its durable runs, its reports and its source changes

SHUD-Harness is a set of plugins for a TypeScript agent host. Its core promise is
invariant 13 of `CONTEXT.md`: a simulation run that was handed to its submitter survives
its host. Whoever restarts the host, however the old one ended, finds the run in an index,
settles it by the evidence on disk, collects it once and wakes the session that asked for
it. On top of that lies a workspace of task cards, evidence reports and governed source
changes, which tool calls of several sessions move at the same time.

Around both stand guards, which decide what a tool may touch and what a person is asked,
and acceptance gates, programs that drive whole hosts and say whether they kept the promise.

This directory models all of it: the state directory, the life of one run, its collection
and its notification; the reports of a task; a source change from its creation to the
evidence about it; the files that several processes share; the guards of tools and
sessions; and the acceptance gates. TLC checks the modules on small instances, and the
TLA+ proof system proves the properties listed below for every value of the constants.

## 1. Inventory

| component | state | operations | hard because |
|---|---|---|---|
| state lock and indexes (`state-lock.ts`, `state-indexes.ts`) | the files `lock` and `.lock-guard` (a flock), `active.json`, `completed.json`, copies of both, a FIFO of writes | open, add, remove, complete, close | two hosts, stale owners, failing writes, a crash between two files |
| detached execution (`detached-shud.ts`, `process-identity.ts`) | a process group: wrapper shell and solver; `wrapper.pid`, `exit_code` | spawn, publish pid, publish exit, signals | lives on its own, outlives the host, its pid may be reused |
| submission (`shud-submissions.ts`, `shud-registration.ts`) | run directory, `run-job.json`, index entry, registration, in-flight set, receipt | copy input, four record writes, register and spawn, activate, roll back | every step may fail or be the last one before a crash |
| cancellation (`shud-cancellation.ts`, `process-group.ts`) | managed and recovered controls | request, advance (TERM, then KILL), release, teardown callback | kill races with settlement; ownership of the group has to be proven |
| poll and settlement (`shud-poll.ts`, `shud-exit.ts`, `shud-run-file.ts`) | one queue per run, `startupPending`, receipts | step, settle, complete | reads before awaits and acts after them |
| reconciliation (`shud-poll.ts`, `shud-reconcile.ts`) | what the last host left | R1-R12, takeover | evidence of a dead host against a living execution |
| collection (`shud-collect.ts`) | `run-record.json`, `collect-error.json`, observations | automatic and direct collection | immutable record, retry budget, replaced files |
| notification (`shud-poll.ts`) | `notify` in `run-job.json`, receipts per live session, pending accounting | resolve, append, flush, account, move to `completed.json` | services revoked while waited for, ambiguous publications |
| registry service (`registry.ts`) | readiness, closing | start-up order, kill routing, ordered teardown | drains work that may itself wait |
| process birth (`process-birth.ts`) | none | latest birth time of a pid | clock arithmetic |
| input copies, `shud-end.ts`, stdout cursor (`file-output.ts`) | files | copies, one parameter rewrite, incremental reads | path safety, UTF-8 boundaries |
| task cards and reports (`task-*.ts`, `report-*.ts`, tools of the same names) | `task.json`, `reports/<id>.json`, `<id>.md`, one lane per report | create, link, reconcile, generate, validate, decide, repair | three files for one fact; calls overlap at every await; a crash between any two writes |
| source changes (`change-create.ts`, `change-submit.ts`, `verification-run.ts`, `observe-source-changes.ts`) | change records, patches, verification cases, the checkout in `repos/SHUD` | create, submit, verify | the checkout belongs to nobody; files are replaced between two awaits |
| builds (`shud-build.ts` of tools and jobs, `produce.ts`, `archive.ts`, `workspace-records.ts`) | `builds/.tmp-<id>`, `builds/<id>`, `bin/` of a run | admit, produce, publish, verify, copy, roll back | equal ids, replaced directories and binaries, recursive removal |
| policy gate and approvals (`policy-gate.ts`, `change-approval.ts`, `report-approval.ts`, `evaluate.ts`) | the approvals in the session log | pass, deny or ask before a tool executes | what was asked about may change before the answer |
| role presets (`role-restrict.ts`, `coder-approval.ts`) | one mask per agent | bind, replace, drop | `restrict` calls observers that call back |
| closure (`task-closure*.ts`, `code-change-closure.ts`) | none | may a report be generated | relates six kinds of records |
| workspace records (`workspace-records.ts`, `state-files.ts`) | the files of reports, provenance, changes, verifications, patches | create under a drawn id, read, remove what failed | hosts share the directories; every system call may fail |
| provenance, stack lock (`generate-provenance.ts`, `capture-stack-lock.ts`, `repository-revision.ts`) | records | walk and hash; find or create the lock of an environment | a changing tree, concurrent captures, cut output |
| raw guard (`decide.ts`) | none | decide on a tool call from its places | names that do not exist, case folding, entries that change |
| web driver (`shud-web-driver.ts`, `shud-session-log.ts`) | the hosts and runs a gate owns, the readings of a log | start, interrupt, stop, read, clean up | a pid is not a process; a log grows while it is read |
| approval connection (`shud-approval-transport.ts`) | one socket, the frames being decided, the answers under way | decide, answer, cancel, drain | frames and cancellations come while a decision awaits |
| restart gate, first-task gate, replay gate (`shud-restart*.ts`, `shud-first-task*.ts`, `shud-replay*.ts`) | a ledger of readings, a verdict | drive a host, gather evidence, judge, clean up | a verdict about programs that may do anything |
| semantic floor, schemas, other `scripts/` | none | pure tables, generators | |

How they interact. `shud_run` calls `submitShud` of the registry, which writes the record
and the index entry, registers a job with the parent registry of the host and spawns the
wrapper. A timer and direct calls put steps into the one queue of the run; a step reads
`run-job.json`, probes the process and replaces `run-job.json` atomically. `kill` comes in
synchronously between two awaits of such a step. The parent calls back into the
cancellation state when it kills a job and when it goes down. The notification goes through
session services that the host mounts and revokes. The execution communicates through
`wrapper.pid`, `exit_code` and the process table only. The workspace tools read the
registry and publish cards, reports, changes and builds; `shud_run` copies the binary of a
build into the directory of its run, and `verification_run` reads the records of two runs.
The policy gate stands before every tool, the raw guard before the policy gate
(`cordis.patch.yml`), and the role presets decide which tools an agent sees. The gates of
`scripts/runtime` start hosts as child processes, talk to them over HTTP and one WebSocket,
read their logs and state files, and own the runs these hosts submit.

What makes each part correct:

* lock and indexes: one owner, named by the metadata; copies equal to files; no run lost;
* submission: whoever is in the index has a record, and nothing is deleted under a group
  that can still write;
* cancellation: no signal without a durable request, none to a process that inherited the
  pid, and a requested cancellation settles;
* settlement: published exit evidence wins, nothing is called lost that is alive, nobody
  who asked to cancel is told "lost";
* collection: one immutable record that agrees with the settlement, a budget that ends;
* notification: delivered means persisted, one message per live session, every failure
  counted once, every run leaves the active index;
* reports: one decision for each, a card that is closed by such a decision only, a draft
  that covers the card it was written about, a Markdown that follows;
* source changes: a patch within the files the person was asked about, approval before
  use, builds of exactly what was approved, reports only on evidence that isolates one
  change;
* builds: complete when visible, the recorded bytes are what runs, nobody else's files are
  removed;
* role presets: the mask of the selected role and no other, without a gap; a policy is
  taken back by the one who wrote it only;
* guards: what runs was let through by both, and what they found out about the file system
  was true of it;
* records, locks, provenance, input: what was told stands, what failed leaves nothing, what
  is recorded is what was there;
* gates: a PASS means what the gate is for, a clean verdict leaves nothing behind, nobody
  else's process is signalled, and every gate ends.

The hazards behind these are listed line by line under `hazards` in `PROJECT.json`.

## 2. Modules

| module | models | notes |
|---|---|---|
| `RunIndex` | nothing; the abstract index | add, remove and complete, one step each |
| `StateIndexes` | `state-lock.ts`, `state-indexes.ts` | several hosts on one directory; one action per synchronous stretch |
| `StateIndexesProofs` | | proofs about `StateIndexes` |
| `ProcessGroup` | the shell wrapper of `detached-shud.ts`, external solver, signals, pids | actions without a host |
| `RunLifecycle` | nothing; the abstract life of a record | stage and request |
| `ShudRun` | submission, cancellation, poll step, R1-R8, takeover, settlement, registry | extends `ProcessGroup`; implements `RunLifecycle` |
| `ShudRunProofs` | | proofs about `ShudRun` |
| `ShudCollect` | `shud-collect.ts`, R9 and R10, `collectShud` | one settled run |
| `ShudNotify` | `deliverNotification`, `completeNotified`, R11 and R12 | one collected run |
| `TaskOutcome` | nothing; what a card and its decisions promise | |
| `ReportWorkflow`, `MCReportWorkflow` | the four report tools, `shud_run` as a writer of the card, `task-transition.ts`, `task-reconcile.ts` | implements `TaskOutcome` |
| `ChangeLife` | nothing; what the governance of changes promises | |
| `CodeChange`, `MCCodeChange` | `change_create`, `change_submit` behind its approval, `shud_build`, `verification_run`, closure | implements `ChangeLife` |
| `BuildFiles` | `publishBuildDirectory`, `buildProducer`, `verifyBuildBinary`, `copyBinary` and its rollback guard | directories by their identity |
| `WorkspaceRecords` | `workspace-records.ts` without builds, the exclusive write of `state-files.ts` | one action per system call |
| `RunInput` | `prepareInput`, `copyInput` | one action per entry |
| `RunJobFile` | `readRunFile`, `updateRunJob`, and the callers that change status, exit code, request or delivery | two actors, exchanged directories |
| `CollectDiagnostics` | the ledger's text, `normalizeCollectFailureReason`, the throws of `shud-collect.ts` | |
| `StdoutCursor` | `file-output.ts` | bytes by their place in a sequence |
| `StackLock`, `StatusPaths` | `capture-stack-lock.ts`; the changed paths of `repository-revision.ts` | |
| `Provenance` | `generate-provenance.ts` | chunks and changing files |
| `ProcessBirth` | `process-birth.ts` | three clocks |
| `RoleRestrict` | `role-restrict.ts` | a stack of calls that have not returned |
| `CoderApproval` | `coder-approval.ts` | the same, for one session |
| `ToolGuards` | `decideRawAccess` of the raw guard, `evaluate.ts`, the role surface, `policy-gate.ts`, `report-approval.ts` | one call |
| `NamespaceCase`, `RawPaths` | `namespaceCase`; `canonical`, `containsRawPath` of `decide.ts` | one action per system call; every small tree |
| `WebDriver` | `WebHost`, `ownRunGroup`, `cleanupOwnedRuns` of `shud-web-driver.ts` | extended by the gates |
| `RestartGate` | `shud-restart.ts`, `shud-restart-evidence.ts` | one case |
| `OwnedApprovals` | `shud-approval-transport.ts` | the predicate is a parameter |
| `FirstTask` | `shud-first-task.ts` and its approval and evidence | extends both of the above |
| `SessionReads` | the paged and the file reading of a log, `extendPrefix` | |
| `ReplayGate` | `shud-replay.ts`, its flow, evidence, approval and snapshot | one trace of all logs |
| `MCOutcome`, `MCGuards`, `MCFiles`, `MCGates` | | composites, see below |
| `OutcomeProofs`, `GuardsProofs`, `FilesProofs`, `GatesProofs` | | proofs about `MCOutcome`, `MCGuards`, `MCFiles`, `MCGates` and their parts; in `GuardsProofs` also those about `FirstTask` |
| `ReportWorkflowProofs`, `CodeChangeProofs` | | proofs about `ReportWorkflow`, `CodeChange` |

The four composites put modules side by side that share no state: the first state chooses
the part a behaviour is about and the others rest, so that the composite has the sum of the
parts' states and not their product. Each of their properties is a conjunction of the
properties of the parts, which are defined in the modules of the parts.

How state corresponds to code.

*StateIndexes.* `guard` is the flock on `.lock-guard`, `meta` the owner's metadata in the
file `lock`, `active` and `completed` the two index files, `mem` the copies, `pending` the
counter that `close` waits for, `op` the operation between the start of its callback and
the assignment after its write, `pc` where the constructor or `release` is. `WriteFails`
ends the operation before its assignment; a crash forgets `mem` and `op` and leaves `meta`
behind as a stale owner.

*ShudRun.* `rec` is `run-job.json` with the fields the decisions read: status, the identity
(`own` for the wrapper, `alien` for a stranger R3 may adopt), `cancel_requested_at`,
`exit_code`, and the host that `dsh_job_id` belongs to. `sub` is the position in
`execute()`, `ctl` the entry in the cancellation maps, `receipt` the completion receipt,
`step` the queued operation with what it has read, `startup` the membership in
`startupPending`. One action is one stretch between awaits: `Settle` is the whole callback
of `updateRunJob`, with the fresh read, the repeated `advance()` and what follows the
publication. `ProcessGroup` keeps the wrapper's position in `leader`: booting, solving,
a code in hand, ending, gone, and what happens to its pid afterwards.

*ShudCollect.* `op[c]` is the queued operation of a caller with the record it has routed,
the ledger it has read and its candidate. `observed` stands for the entry in
`observations`. `ExitReplaced` is anybody with access to the run directory.

*ShudNotify.* `confirmed` is the entry of the live session in `confirmedAppends`, `pending`
the entry in `pendingNotificationFailures`, `delivery` the mounted epoch, `op.epoch` the
one the operation has captured. `appends` and `throws` describe the live session object,
`durable` its persisted log; `tries` and `crashed` are history variables of the properties.

*ReportWorkflow.* `card`, `report` and `markdown` are the three files, `lane` is
`reportOperations`, `call` the position of each tool call and what it has listed. `Enter`
is `repairReportEntry`, which every call on a report runs first. `Decide` writes the
decision and moves the card in one stretch; `DecideFails` is the same stretch broken off
after the decision. The report's fifteen content checks are one choice, `ChecksFail`.
`decisions` counts the decisions written into one report.

*CodeChange.* A patch is a set of hunks, one per file, and a digest is what it digests.
Every git command (`ReadHead`, `ReadStatus`, `ReadDiff`) sees a HEAD and a tree of its own:
`openspec/specs/change-requests/spec.md` disclaims a snapshot across the commands, so the
properties may not rest on one. `change[c].bytes` is what `patches/<id>.patch` holds:
nothing, the patch, or another one. `BeginSubmit` is the policy gate, `Answer` the person,
`Submit` the whole synchronous execution of `change_submit`. A `ref` is a callId, which the
host never gives twice. `allowed` is a history variable: the allowed-once answers of the
session log.
`GenerateReport` and `DecideReport` are the steps of `ReportWorkflow`, each in one piece.

*BuildFiles.* A directory is named after the call that made it, so device and inode become
`tmp[i] = b`; whatever somebody else puts there is `foreign`. `Collide` is a drawn id that
is taken, four times at most. `bin` is `bin/`, `bin/.shud.tmp` and `bin/shud` of one run.

*WorkspaceRecords.* A path is `<<kind, id>>`, and a file remembers in `origin` which call made
it. `Link` is the exclusive publication: the link may be made and reported as failed, and
the temporary file may not go away. Flat records (reports, provenance) look for a free id
and rename; two hosts that draw one id may write one over the other, which
the code calls "not a cross-process transaction or lock".

*RunInput, RunJobFile.* `items` is what the preflight has listed, `present` and `copied` what is
in the run directory. `root` and `dir` are the identities of the two directories a read has
routed through; `UpdateFromRead` shows what would happen if the update did not read again.
`Transitions` is what the callers of `updateRunJob` ask for: `Promote` (R3), `Settle` (`settle`),
`ProjectCollected` (`projectCollected`), `Demote` (`failedAttempt`, which turns a succeeded or
cancelled run into a failed one when a collection finds its exit evidence unusable), `Cancel`
(`request`) and `Tell` (`publishNotification`). Left out of it are the callers that change other
fields or nothing: `dsh_job_id` at a takeover (`ShudRun` has it), attempts and details of a
notification (`ShudNotify`), and the updates that only check (`verifyOwner`, `recover`). A run
that is settled therefore changes its status only by being demoted or collected, and a
settlement without an exit code is a cancellation if and only if one was requested by the time
of the update, whatever the step had read: `SettleAsRead` is the mutant.
What somebody exchanges within the synchronous update is left out: no check could see it.

*CollectDiagnostics.* A message is its stage, the parts of its code and whether a path follows;
`CollectDiagnosticRules` is the table of `shud-run-file.ts`, `ReasonsTold` says that every
reason an attempt of `shud-collect.ts` throws comes back from the ledger as it was told.

*StackLock.* A lock that was linked and could not be flushed is taken back by its writer;
another capture may have found it meanwhile. `withdrawn` names these, and `LocksStand`, a part
of `RunFilesTrue`, is stated about the others.

*ProcessBirth.* Time runs in parts of a millisecond; `SecondMs`, `CentisecondMs` and `Hz` are
small because only their ratios matter for what is cut off.

*ToolGuards.* `where` is what the guard finds each place of a call to be. A question of the
raw guard ends the waterfall: the policy gate is then not asked, its rules and the role
surface included. `LetThrough` says so by `asker`.

*NamespaceCase, RawPaths.* Inodes carry the time of their last change; `clock` counts changes,
no two of which share a nanosecond. The tree of `RawPaths` is one of directories with two
names that differ in case only.

*WebDriver.* A host is a pid with a birth; `ownRunGroup` finds the run of an owner only by a
proven leader. *RestartGate* adds the hosts as the gate sees them: they do what `ShudRun`
describes, and one fault may let one of them start a second solver, record a wrong code or
claim a message it did not send.

*OwnedApprovals, FirstTask.* A frame is decided between two awaits; `aborted` stands for
`requests.abort()`. `FirstTask` supplies the predicate and judges by what it has read, live
or from the logs of the stopped host.

*SessionReads.* An event is its seq. `request` is the stream of one page, `body` what has
arrived of it, `cut` the seq a reading ends at, `promised` what a flush has said, `reached` what
the last accepted reading covered. One answer or one line may be wrong.

*ReplayGate.* `trace` is all session logs in the order of events, each entry with its session;
`cuts` is where the reading of each log ended, so that the driver sees a prefix of each. Agents
may leave the order, double a step or touch a source, one such deviation for each replay.

*RoleRestrict.* `masks` is what the tools service carries for an agent, `held` the
restriction in its binding, `revision` the counter that tells a returning `restrict` whether
it is still the latest. `stack` holds the calls that have not returned: `Restricted` and
`Released` return the topmost one, and any event may come first.

## 3. Runs

| run | question | bounds and why they suffice |
|---|---|---|
| `indexes` | one owner, copies equal to files, refinement of `RunIndex`, `close` finishes | three hosts (owner, contender, successor of a crash), three runs, queues of two: a second run distinguishes lost updates, a third host the takeover of a takeover |
| `run` | safety and liveness of one run, and its refinement of `RunLifecycle` | three hosts in a row (submitter, the one that recovers, the one that recovers the recovery) and two failing calls (one to break, one to break the clean-up); the solver may ignore SIGTERM and never end |
| `outcome` | the record, the ledger and the end of collection; the wake-up and that every run leaves the active index | one automatic step and two direct requests, three attempts as in the code, a fourth by request, three failing calls or replaced files, two restarts; two failing publications, three epochs, three changes (unmount, reload, released or deleted session, crash) |
| `reports` | drafts, decisions, repair, refinement of `TaskOutcome`, and that every call ends | two overlapping calls, one failed write or crash at any point, and two reports of a task with one run (an older report decided late) or one report of a task with two (one listed, one linked meanwhile): `MaxMade` |
| `failed_submission` | does a failed submission leave no link (violated, see below) | one report, one job, no failure |
| `changes` | patches, approvals, builds | two files of which one is guarded, two commits, two overlapping calls, one change, one build, one failure or replaced file |
| `closure` | evidence behind a report, refinement of `ChangeLife` | one file, one call at a time, one change, two builds, two runs, one case, any two failures or replaced files: base and candidate are the two of everything that a case compares |
| `build_binary` | is a case published on intact builds only (violated, see below) | the same, with one replaced file |
| `guards` | masks at rest and without a gap; whose policy is taken back; what is let through; is the guard's evidence true | three agents of two sessions, two roles, five events nested up to five deep (a selection inside the replacement made by a selection, and a disposal inside that); four choices of others inside the initialization of a coder; every tool with every finding about its places and up to one rule more; three changes in a directory of two names; paths of up to three names (a missing parent below a missing parent) |
| `files` | builds complete and intact; records as told; stdout in whole characters; locks found again; manifests as written; births never too early; `run-job.json` without lost updates; input as looked at; reasons told | two builders over two ids and one run with two interferences; two hosts over two ids, reports with pages and changes with patches, and three calls, failures, deaths or strangers together; five bytes (a sequence of four and one more); two captures, two environments, two faults; manifests of eight symbols with two stations and one change; one exchange of directories between two actors; an input of a file, a directory and a file in it with three changes; two attempts |
| `gates` | what the verdicts of the restart and the replay gate mean, whom they signal, that they end; readings complete or refused | two hosts as in the code, one fault, two polls; six children (one for each group of stages), at most one deviation, one event logged between two reads, two calls of one stage in a session; three events in pages of two, two readings, one wrong answer |
| `first_task` | what a PASS and a clean verdict mean, answers in time, a finished close, the end of the gate | one host, one approval event, one report, one deviation of an agent or fault of a host: an approval, the stop of the gate and a break of the connection already overlap in every order |

The parts of `files` about texts are exhaustive over their inputs rather than interleavings:
every manifest, every cut, every message of the ledger, every birth.

In `gates`, `Hasty` names the stages after which a coordinator may go on at once instead of
ending its turn, and `MaxBetween` is what may be logged between two reads of the driver; both
keep the number of interleavings of six logs within reach. `Dispatch`, the catalog entry and
the result of a delegation are one event.

`CHECK_DEADLOCK FALSE` is set where the system may really stop: a run that was withdrawn
or whose record was never indexed, a collected or notified run, a closed task, calls that
are not made.

`TypeOK` is proved for `StateIndexes`, `ShudRun`, `ShudCollect`, `ReportWorkflow` and
`CodeChange`, for every value of the constants; in the other modules that have one it documents
the types, and no run spends a property on it.

Each property has a mutant in `PROJECT.json`: an operator, marked "a mistake" in the
module, that replaces a definition the way a plausible bug would; TLC then finds the
property violated.

### Where the code and its documents differ

* `failed_submission`. A job is listed from the moment it is in the index, also while its
  submission is in flight (`registry.ts:79`, pinned by a test). `reconcileTaskCard` of an
  overlapping `report_generate` links what is listed, and when the submission is then rolled
  back the card keeps a link to a job that no longer exists, although the specification says
  that a failed submission adds no link. Closure refuses the task from then on.
* `build_binary`. `openspec/specs/shud-build/spec.md` asks every consumer of a build to check the file
  before it relies on it. `verification_run` compares the two recorded digests only, and its
  own specification lists no more than that. A case can thus be published about a build
  whose binary was replaced after its runs. The runs themselves are safe: their bytes were
  checked when they were copied (`BuildsIntact`).

### Deliberate behaviour the models keep

* An older reviewed report can be decided after the card has left reporting: the decision
  stands, the card does not move, and the answer names the card error.
* `report_generate` repairs no older report; the calls on that report do.
* A patch taken from a tree whose HEAD has moved is published, and does not apply later.
* The birth bound of a process excludes older ones only: a process that was given the pid
  after the submission may be adopted by R3 (`pid = "alien"`). `SignalsJustified`
  and `ExitEvidenceWins` are stated about the other runs, `AdoptionSound` about the clocks.
* `copyBinary` publishes with an asynchronous rename that is not exclusive; what somebody
  plants at the target after the last look at it is replaced (a comment in the source
  accepts this), and the model plants before that look.
* Two hosts that draw the same id for a report or a provenance record may write one over the
  other; changes, verifications, builds and locks are exclusive.
* A gate that could not prove a process to be its own leaves it and reports a clean-up error.

## 4. Fairness

* The event loop of a live host runs its timers, its queued steps, its submission and its
  tool calls: weak fairness of the steps, of `Dispatch`, `Begin`, `Mount`, `Reload`, of the
  queues, and of each call of `ReportWorkflow`.
* Somebody starts a host again (`Start`), as long as `MaxEpoch` allows; the promise of
  invariant 13 is about hosts that are restarted.
* Time passes: `GraceElapses`, `IntervalElapses`.
* The kernel delivers signals, the shell does its next step, and a process that inherited
  the pid ends some day. Without the last one a reused pid keeps the cancellation of its
  predecessor waiting, since ownership of the group cannot be proven.
* A solver ends by itself only where `SolverEndsItself` is named: it is the hypothesis of the
  part of `RunsEnd` about uncancelled runs; its part about cancellations and `CloseFinishes`
  do without.
* `Mount`: services are mounted in the end. A profile without them keeps its runs pending by
  design, and the wait uses up none of its attempts.
* Every wait of a gate has a deadline (`GiveUp`), and its driver takes its next step; nothing
  is assumed of hosts, agents and runs. In `ReplayGate` the fairness of the finally block is
  stated as `Continues`, a step that moves the driver on. In `FirstTask` a request that was
  sent ends at the latest when `requests.abort()` is called.

Failing calls, interference and crashes are bounded (`MaxFaults`, `MaxMeddling`, `MaxEpoch`,
`MaxRestarts`, `MaxChanges`, `MaxEvents`, `MaxHappens`, `MaxSwaps`, `MaxMishaps`, `MaxNoise`) and
never fair. The parts of `guards` and `files`, `CodeChange` and `SessionReads` have no fairness:
their properties are safety properties.

## 5. Proofs

`StateIndexesProofs`, for any set of hosts, any set of runs and any queue bound: types, the
named owner, mutual exclusion, copies equal to files, only stale owners replaced, no run
lost, and the refinement of `RunIndex`. The invariants are not inductive by themselves:
`LockInv` ties the position of a host to guard and metadata before and after it owns the
store, `OpInv` keeps what the operation in flight found in the copies when it started.
`IInv` is their conjunction with the types and `MirrorsDisk`; the refinement uses it to
show that every write is the abstract step and everything else a stutter.

`ShudRunProofs`, for any number of hosts and failing calls: every safety property of
`ShudRun` that the run `run` checks (`RunWithinReach` and `SignalsJustified` are conjunctions of
two each, proved separately first). `IInv` adds to the types and to the invariants of the module that a submission in flight has its run to
itself (`SubmissionInv`: no step, no receipt, no request, everything written so far still
there, and a quiet group before anything is taken back), that a host starts without
receipts and that start-up steps take over what is alive before anything else does
(`HostInv`), and that what a host believes about a request is on disk (`RequestInv`). Frame
lemmas name the few actions that touch the record, the control, the step and the signals;
the action properties follow from them and from `IInv`. A second invariant, `EInv`,
follows one step from its first read to the settlement: the status it has seen is still the
record's (`SnapshotInv`), what it has read and probed is still true (`EvidenceInv`, because
a code is published once and a wrapper found dead does not publish). That gives
`ExitEvidenceWins`, and with it the refinement of `RunLifecycle`.

`OutcomeProofs`, for any number of callers, attempts, epochs, restarts and failing calls:
`RecordTrue`, `RecordFinal`, `NotificationTrue`. `CollectInv` follows what a queued operation
has read and drafted (`Carries`): one operation holds the run at a time, so that the
settlement it has routed, the ledger it has read and the missing record are still so when it
writes; only `exit_code` moves under it, and the code it has accepted is the settled one.
`NotifyInv` ties the file to the session: while a failure waits for its publication, the file
is at its count or at the one before (`Accounting`), and what a step has read of the file
stands until it publishes (`Reads`).

`ReportWorkflowProofs`, for any set of calls, reports and runs: `ReportsStand`, that one call
at a time is inside the lane of a report, and the refinement of `TaskOutcome`. `IInv` adds to
the types that a call in progress is the head of its lane and its report is on the card
(`Turns`, `OnCard`), that it holds the watermark of its report and the Markdown has it once the
call has entered (`AsSeen`), and that the runs it counts as evidence are collected
(`RunsAsSeen`).

`CodeChangeProofs`, for any number of changes, builds, runs, cases and calls:
`PatchWithinFiles`, `ApprovalsHold`, `ReportedOnEvidence` and the refinement of `ChangeLife`.
`IInv` states what each record says of the others (`Described`, `BuiltTrue`, `Isolates`: an
approved change has its answer, a build is its commit with the patch of an approved change,
a case two builds of one commit of which one has the change) and what each call holds across
its awaits (`CallAsSeen`). A step extends the lists or moves one record on; `Kept` says so,
and carries what is known of the other records along.

`GuardsProofs`. `MasksInForce`, for any agents, sessions and roles and any depth of nested
calls: `MasksInv` accounts for every mask an agent carries, the one its binding holds and those
of the `restrict` calls under way (`Carries`), and says that the mask the role asks for is in
force, is being installed, or will be when the walk over the agents reaches this one (`Due`).
`OwnPoliciesOnly`, for any number of events and choices of others: `PoliciesInv` says where in the log an entry of
the plugin can stand, and that the last switch after a failure is not its own.
`LetThrough`: `ToolsInv` keeps at each stage of a call what has allowed it so far and who was
asked instead. `CasesInv`, for any number of changes: as long as the directory has the stamp the
scan began with, the entry it looks at is there under its inode (`EntryInv`), so in a folding
directory the other spelling cannot lead elsewhere; an alias once seen proves that it folds.

`FirstTask`, in the same module, for any reports, approval requests and faults (`VerdictTrue`,
`AnswersOrderly`): `TaskInv` says that a code in the worker's log is the published one, a word of
the coordinator's log that answers a call has the call before it, and a report whose decision stands between call
and result was accepted upon it (`WorkerInv`, `RootInv`, `ApprovedInv`), so that a log the
driver has read speaks of what happened (`EvidenceHolds`). `PeerInv` reduces every step of the
connection to six (`PeerStep`): an answered invocation is at the head of the chain until it is
dropped, and while nothing has failed nothing else is under way. `ClosedInv` has for each phase
of the clean-up what a verdict without errors rests on: a dead host starts nothing again.

`FilesProofs` has one invariant for each part of `MCFiles`, which the steps of the others
leave alone:

* `JobsInv`: jobs and steps are typed, a run that is not settled has no exit code, and a step
  that read a settled run holds no exit code as evidence, at most that it was unusable. What
  each transition makes of a job, the demotion included, and that the fresh read inside the
  update recognises an exchanged directory, is then a matter of one step (`Advanced`,
  `UpdatesKept`).
* `StoresInv` and `CopiesInv`: a call of `shud_build` owns the directory it has drawn until it
  renames it away, while nobody interferes its binary is the one it made, and a run that is
  ready has in its copy the bytes it expected; `Spared` is the action property about clean-up.
* `BirthsInv`: the three readings of a sample bracket the true clock. The rest is arithmetic of
  ceilings and products, stated as lemmas, which holds for every frequency and unit.
* `StdoutInv`: the cursor is inside no sequence that is, or may still become, a whole
  character. Where `CompletePrefix` cuts is the least of a set of places; the
  well-foundedness of `<` stands in for the induction.
* `RecordsInv`: calls are numbered, and a file, a temporary file and what was told each
  lead back to one call. What is put in place under a free name is not replaced
  (`Frozen`), so that it is enough to follow a call from its begin to its answer. `CallMoves` is the
  frame of every step of a call.
* `TreeInv`: the items before the next one are in the copy under the kind they were listed
  with, and whatever else is there was planted; a directory is listed before its entries.
* `LocksInv`: a lock is of the environment of the capture that wrote it and stays whole once
  it is, until its writer withdraws it; whom a capture has selected was whole then.
* `ToldInv`: every message an attempt can fail with has a row in the table and known
  parts, stage by stage, and what was normalised once is stable.

`GatesProofs`, for any number of children of the worker, pages, lines of noise and mishaps,
has one invariant for each part of `MCGates` (`VerdictsTrue`, `ReadingsTrue`, `SignalsOwnRun`):

* `RestartInv` follows the run through the restart of its host: who held the lock when the run
  ended, was settled, was collected and was announced (`HostsInv`, `RunInv`), that each file the
  driver reads says what was then so (`FilesInv`), that a case the driver takes for one where
  the run outlived its host is one (`SurvivalInv`), and that what it has accepted was true
  when it was read and cannot become false (`AcceptedInv`, `JudgedInv`). The run of the owner
  is found through a leader whose birth was read, so that a pid that is used again is
  never signalled.
* `ReadsInv`: what was read is dense up to its end while the log grows, a file that is not
  torn holds what a flush has promised, and a request is open only while a page is awaited.
* `ReplayInv`: the sessions' logs are one trace in the order the roles follow (`Ordered`,
  `TraceInv`), a cut is a place in it, and a gate that passes has seen no deviation
  (`CleanInv`, `PassInv`). The first event of a kind is the least of a set of places; the
  well-foundedness of `<` stands in for the induction.

The assumptions are those the modules declare: bounds are natural numbers, `NoHost` is no
host, automatic steps and requests are different callers (`CallersAssumption`), a tree has
contents for its files (`TreeAssumption`), every agent has a session (`SessionAssumption`),
the first-task gate starts one host (`OneHost`),
frequencies and units are positive (`ClockAssumption`), no builder or id is the name of
nothing, and records of changes exist for patches to belong to (`FilesAssumption`). TLC
evaluates each of them.

Only model-checked:

* liveness (`RunsEnd`, `CloseFinishes`, `GatesEnd` and the others), which is out of the reach
  of the prover;
* `TextsRead`: what a fold over a text or a recursive reading of it computes for every input
  needs induction over data, which the installed provers cannot instantiate;
* `RawVerdictsTrue`: `RawPaths` compares the guard with a reference that is recursive in the
  length of a path, over every tree of a bounded depth, which needs induction over data too.

## 6. Not modelled, and why

* Symbolic links and the roots above a record, schema validation of fields: checks of one
  call without state; their failure is one of the failing calls.
* The tree of `RawPaths` does not change while a path is judged (`RawVerdictsTrue`); entries that
  change between the calls of the guard are in `NamespaceCase`, under `LetThrough`.
* A clean verdict of the restart or the replay gate speaks of what was left behind, not of a second execution
  beside a group the driver owns; "cancelled" in the first-task gate is a cancellation the gate
  has received. `Events` of the run `first_task` is one event, so that two invocations in the
  queue are covered by the theorem `AnswersAreOrderly` only.
* `TypeOK` aside, the text of anything: reports, questions, logs of make, diagnostics of a
  clean-up (`cleanup-diagnostics.ts`), the rewrite of one parameter (`shud-end.ts`).
* A wake-up appended with a failure text and confirmed after a direct collection succeeded:
  neither text is promised.
* The semantic floor of paths, the parsing of git output beyond its cut, the byte comparison
  of `rivqdown`: tables and formats without behaviour.
* The patterns of the raw guard on the text of shell commands: they are findings in
  `ToolGuards`. A model of a shell's grammar would restate the regular expressions.
* The clauses of closure about stack locks and data provenance, and the joins of single
  fields in the evidence of a replay (`shud-replay-records.ts`), which compare fields.
* The roster of jobs a replay waits for (`jobsTerminal`) is the state of its two runs.
* A replaced `builds/` directory and stray entries in `bin/`: further refusals of the
  kind `BuildFiles` has for the directories below.
* Masks of other plugins; `restrict` either installs a mask or throws and installs none.
* The schema and version generators, the installation of profiles, documentation and
  guardrail checks in `scripts/`: sequential tools without state.

## 7. Plan

Done, in this order: lock and indexes with proofs; the life of a run with proofs of its
safety; collection; notification; the report workflow; source changes with their approval;
build files; role masks; the guards; records, locks, provenance and the files of a run; the
acceptance gates.

Proved, in this order: the state directory; the life of a run; collection and notification;
reports; source changes; the guards but for `RawVerdictsTrue`; the files but for `TextsRead`;
the acceptance gates, the first-task gate included.

Left, models: one run through `ShudRun`, `ShudCollect` and `ShudNotify` with the two index
files, against the assertions of the recoverability requirement.
