------------------------------- MODULE ShudRun -------------------------------
(***************************************************************************)
(* The durable life of one SHUD run, from its submission to its terminal   *)
(* record: the submission and its rollback (shud-submissions.ts), the poll *)
(* step and the start-up reconciliation R1-R8 (shud-poll.ts,               *)
(* shud-reconcile.ts), cancellation (shud-cancellation.ts, process-group.  *)
(* ts) and the registry that owns them (registry.ts), over the detached    *)
(* execution of ProcessGroup and a host that may crash or close, and be    *)
(* started again, at any point.                                            *)
(*                                                                         *)
(* One action is what the host does between two of its awaits.  The record *)
(* is replaced atomically (shud-run-file.ts, state-files.ts), so an action *)
(* that writes it is also atomic against a crash.  Entries of other runs   *)
(* are independent: steps exclude each other per run, and StateIndexes     *)
(* covers the shared index files and the lock.                             *)
(***************************************************************************)
EXTENDS Naturals, ProcessGroup

CONSTANTS MaxEpoch,  \* bound on the number of hosts started, one after the other
          MaxFaults  \* bound on failing calls: I/O, ps, registration

ASSUME MaxEpochAssumption == MaxEpoch \in Nat
ASSUME MaxFaultsAssumption == MaxFaults \in Nat

VARIABLES
  dir,      \* the run directory exists
  rec,      \* run-job.json, what the properties tell apart of it
  indexed,  \* the run has an entry in active.json
  host,     \* the registry instance
  epoch,    \* how many hosts have been started
  faults,   \* how many more calls may fail
  misread,  \* exit_code could not be read once
  sub,      \* where ShudSubmissions.execute is
  ctl,      \* the run's entry in ShudCancellation
  receipt,  \* the run has a completion receipt
  detached, \* the registration of ctl has been detached
  grace,    \* KILL_GRACE_PERIOD_MS have passed since cancel_requested_at
  step,     \* the poll step of the run
  startup   \* the run is in startupPending

diskVars == <<dir, rec, indexed>>
hostVars == <<host, epoch>>
faultVars == <<faults, misread>>
ctlVars == <<ctl, receipt, detached, grace>>
stepVars == <<step, startup>>
vars == <<groupVars, diskVars, hostVars, faultVars, sub, ctlVars, stepVars>>

Terminal == {"succeeded", "failed", "cancelled"}
Status == {"absent", "created", "submitted", "running"} \cup Terminal

(* pid is "own" when pid and pid_started_at name the wrapper, "alien" when *)
(* they name another process; job is the host whose registration           *)
(* dsh_job_id names, 0 for null.                                           *)
Record == [status : Status, pid : {"none", "own", "alien"}, cancel : BOOLEAN,
           code : Code \cup {"none"}, job : 0..MaxEpoch]
NoRecord == [status |-> "absent", pid |-> "none", cancel |-> FALSE, code |-> "none", job |-> 0]

Writing == {"prepared", "created", "indexed", "submitted", "spawned", "named", "written"}
Undoing == {"failed", "aborting", "unindexing", "removing"}
SubState == {"idle", "over", "stuck"} \cup Writing \cup Undoing

(* "local" and "adopted" are registrations, "recovered" is the group taken *)
(* over by reconciliation to finish a cancellation.                        *)
Control == [kind : {"none", "local", "adopted", "recovered"},
            want : BOOLEAN, term : BOOLEAN, kill : BOOLEAN]
NewControl(kind) == [kind |-> kind, want |-> FALSE, term |-> FALSE, kill |-> FALSE]
NoControl == NewControl("none")

StepState == {"idle", "queued", "gate", "exit1", "probe", "takeover", "cancel", "exit2",
              "settle", "complete"}
Step == [pc : StepState, seen : Status, asked : BOOLEAN, exit : Code \cup {"none", "unreadable"}]
IdleStep == [pc |-> "idle", seen |-> "absent", asked |-> FALSE, exit |-> "none"]

TypeOK ==
  /\ GroupTypeOK
  /\ dir \in BOOLEAN
  /\ rec \in Record
  /\ indexed \in BOOLEAN
  /\ host \in {"down", "starting", "ready", "closing"}
  /\ epoch \in 0..MaxEpoch
  /\ faults \in 0..MaxFaults
  /\ misread \in BOOLEAN
  /\ sub \in SubState
  /\ ctl \in Control
  /\ receipt \in BOOLEAN
  /\ detached \in BOOLEAN
  /\ grace \in BOOLEAN
  /\ step \in Step
  /\ startup \in BOOLEAN

Init ==
  /\ GroupInit
  /\ dir = FALSE
  /\ rec = NoRecord
  /\ indexed = FALSE
  /\ host = "down"
  /\ epoch = 0
  /\ faults = MaxFaults
  /\ misread = FALSE
  /\ sub = "idle"
  /\ ctl = NoControl
  /\ receipt = FALSE
  /\ detached = FALSE
  /\ grace = FALSE
  /\ step = IdleStep
  /\ startup = FALSE

Up == host # "down"
InFlight == sub \notin {"idle", "over"}
Fault == faults > 0 /\ faults' = faults - 1

-----------------------------------------------------------------------------
(* Cancellation state.                                                     *)

Requested == ctl.want

(* isGroupActive throws: a process that is not the recorded one stands     *)
(* behind the pid, so the ownership of the group cannot be proven.         *)
UnprovenIgnored == FALSE   \* a mistake: only the pid is compared, not its start
Unproven == leader = "alien" /\ rec.pid # "alien"

(* ShudCancellation.advance returned false: the group is still active.     *)
Blocked == Requested /\ GroupActive /\ ~Unproven
Stopped == Requested /\ Unproven

Stronger(sig) == IF signal = "kill" THEN "kill" ELSE sig

(* advance: TERM once, KILL once after the grace period.                   *)
AdvanceTermOnly ==         \* a mistake: no escalation
  /\ signal' = IF ~ctl.term THEN Stronger("term") ELSE signal
  /\ ctl' = [ctl EXCEPT !.term = TRUE]
  /\ UNCHANGED <<leader, solver, wrapperPid, exitFile, receipt, detached, grace>>

Advance ==
  /\ signal' = IF grace /\ ~ctl.kill THEN "kill"
               ELSE IF ~ctl.term THEN Stronger("term") ELSE signal
  /\ ctl' = [ctl EXCEPT !.term = TRUE, !.kill = @ \/ grace]
  /\ UNCHANGED <<leader, solver, wrapperPid, exitFile, receipt, detached, grace>>

(* The recorded identity is executing: ps shows the pid, not a zombie,     *)
(* with the recorded start.                                                *)
LeaderMatches == \/ rec.pid = "own" /\ leader \in Living
                 \/ rec.pid = "alien" /\ leader = "alien"

-----------------------------------------------------------------------------
(* ShudSubmissions.execute.                                                *)

Submitting(at, next) == Up /\ sub = at /\ sub' = next

(* The run directory and everything copied into it.                        *)
Prepare ==
  /\ host = "ready"
  /\ Submitting("idle", "prepared")
  /\ dir' = TRUE
  /\ UNCHANGED <<groupVars, rec, indexed, hostVars, faultVars, ctlVars, stepVars>>

(* Each of these replaces the whole file by the record kept in memory.     *)
WriteRecord(at, next, record) ==
  /\ Submitting(at, next)
  /\ rec' = record
  /\ UNCHANGED <<groupVars, dir, indexed, hostVars, faultVars, ctlVars, stepVars>>

Drafted(status) == [NoRecord EXCEPT !.status = status]

WriteCreated == WriteRecord("prepared", "created", Drafted("created"))

AddActive ==
  /\ Submitting("created", "indexed")
  /\ indexed' = TRUE
  /\ UNCHANGED <<groupVars, dir, rec, hostVars, faultVars, ctlVars, stepVars>>

WriteSubmitted == WriteRecord("indexed", "submitted", Drafted("submitted"))

(* The registration and the spawn are one synchronous call; a spawn that   *)
(* failed is only noticed after the record has been named, and the whole   *)
(* is rolled back.                                                         *)
Register ==
  /\ Up
  /\ sub = "submitted"
  /\ ctl' = NewControl("local")
  /\ \/ Spawn /\ sub' = "spawned" /\ UNCHANGED faults
     \/ Fault /\ sub' = "failed" /\ UNCHANGED groupVars
  /\ UNCHANGED <<diskVars, hostVars, misread, receipt, detached, grace, stepVars>>

WriteNamed ==
  WriteRecord("spawned", "named", [Drafted("submitted") EXCEPT !.job = epoch])

WriteRunning ==
  WriteRecord("named", "written", [Drafted("running") EXCEPT !.job = epoch, !.pid = "own"])

(* The continuation of the last write: the registration can be killed, the *)
(* receipt is kept, and the caller gets its answer.                        *)
Activate ==
  /\ Submitting("written", "over")
  /\ receipt' = TRUE
  /\ UNCHANGED <<groupVars, diskVars, hostVars, faultVars, ctl, detached, grace, stepVars>>

SubmissionFails ==
  /\ Up
  /\ sub \in Writing \ {"written"}
  /\ Fault
  /\ sub' = "failed"
  /\ UNCHANGED <<groupVars, diskVars, hostVars, misread, ctlVars, stepVars>>

(* The rollback: kill the group, wait until it is proven quiet, then take  *)
(* back the index entry and the directory, in this order.                  *)
Abort ==
  /\ Submitting("failed", "aborting")
  /\ ~Unproven
  /\ signal' = IF GroupActive THEN "kill" ELSE signal
  /\ UNCHANGED <<leader, solver, wrapperPid, exitFile, diskVars, hostVars, faultVars,
                 ctlVars, stepVars>>

AbortUnawaited ==          \* a mistake: the quiescence of the group is not awaited
  /\ Submitting("aborting", "unindexing")
  /\ UNCHANGED <<groupVars, diskVars, hostVars, faultVars, ctlVars, stepVars>>

Quiet ==
  /\ Submitting("aborting", "unindexing")
  /\ ~GroupActive
  /\ UNCHANGED <<groupVars, diskVars, hostVars, faultVars, ctlVars, stepVars>>

Unindex ==
  /\ Submitting("unindexing", "removing")
  /\ indexed' = FALSE
  /\ UNCHANGED <<groupVars, dir, rec, hostVars, faultVars, ctlVars, stepVars>>

Remove ==
  /\ Submitting("removing", "over")
  /\ dir' = FALSE
  /\ rec' = NoRecord
  /\ ctl' = NoControl
  /\ UNCHANGED <<groupVars, indexed, hostVars, faultVars, receipt, detached, grace, stepVars>>

(* Incomplete cleanup keeps the run in flight until this host ends.        *)
RollbackFails ==
  /\ Up
  /\ sub \in Undoing
  /\ \/ Fault
     \/ sub \in {"failed", "aborting"} /\ Unproven /\ UNCHANGED faults
  /\ sub' = "stuck"
  /\ UNCHANGED <<groupVars, diskVars, hostVars, misread, ctlVars, stepVars>>

Submission == \/ WriteCreated \/ AddActive \/ WriteSubmitted \/ Register \/ WriteNamed
              \/ WriteRunning \/ Activate
              \/ Abort \/ Quiet \/ Unindex \/ Remove \/ RollbackFails

-----------------------------------------------------------------------------
(* ShudJobRegistry.kill on a registration of this host.                    *)

(* The request is durable before the parent is called; the parent calls    *)
(* back to send TERM, or throws before that.                               *)
Requesting ==
  /\ rec' = [rec EXCEPT !.cancel = TRUE]
  /\ \/ /\ signal' = IF GroupActive /\ ~ctl.term THEN Stronger("term") ELSE signal
        /\ ctl' = [ctl EXCEPT !.want = TRUE, !.term = TRUE]
     \/ /\ ctl' = [ctl EXCEPT !.want = TRUE]
        /\ UNCHANGED signal
  /\ UNCHANGED <<leader, solver, wrapperPid, exitFile, dir, indexed, hostVars, faultVars, sub,
                 receipt, detached, grace, stepVars>>

Kill ==
  /\ host \in {"starting", "ready"}
  /\ ctl.kind \in {"local", "adopted"} /\ ~detached
  /\ ~InFlight
  /\ rec.job = epoch /\ rec.status = "running"
  /\ ~Unproven
  /\ Requesting

GraceElapses ==
  /\ rec.cancel /\ ~grace
  /\ grace' = TRUE
  /\ UNCHANGED <<groupVars, diskVars, hostVars, faultVars, sub, ctl, receipt, detached, stepVars>>

-----------------------------------------------------------------------------
(* ShudPoll: one step of the run.  A step that throws ends, and a start-up *)
(* step that throws is repeated as a start-up step.                        *)

Goto(pc) == step' = [step EXCEPT !.pc = pc]
EndStep == step' = IdleStep
Reconciled == EndStep /\ startup' = FALSE

DispatchInFlight ==        \* a mistake: runs in submission are not skipped
  /\ host = "ready"
  /\ indexed
  /\ step.pc = "idle"
  /\ Goto("queued")
  /\ UNCHANGED <<groupVars, diskVars, hostVars, faultVars, sub, ctlVars, startup>>

Dispatch ==
  /\ host = "ready"
  /\ indexed
  /\ ~InFlight
  /\ step.pc = "idle"
  /\ Goto("queued")
  /\ UNCHANGED <<groupVars, diskVars, hostVars, faultVars, sub, ctlVars, startup>>

(* readRunFile: the snapshot the step goes on with.                        *)
Begin ==
  /\ Up
  /\ step.pc = "queued"
  /\ step' = [step EXCEPT !.pc = "gate", !.seen = rec.status, !.asked = rec.cancel]
  /\ UNCHANGED <<groupVars, diskVars, hostVars, faultVars, sub, ctlVars, startup>>

(* An ordinary step: advance() comes first, and the step ends while the    *)
(* group of a requested cancellation is active or unproven.                *)
Gate ==
  /\ Up
  /\ step.pc = "gate" /\ ~startup
  /\ \/ /\ step.seen \in {"created", "submitted"} \/ Stopped
        /\ EndStep
        /\ UNCHANGED <<groupVars, ctlVars>>
     \/ /\ step.seen = "running" /\ Blocked
        /\ Advance
        /\ EndStep
     \/ /\ step.seen = "running" /\ ~Blocked /\ ~Stopped
        /\ Goto("exit1")
        /\ UNCHANGED <<groupVars, ctlVars>>
     \/ /\ step.seen \in Terminal /\ ~Blocked /\ ~Stopped
        /\ IF receipt
             THEN Goto("complete") /\ UNCHANGED ctl
             ELSE EndStep /\ ctl' = NoControl
        /\ UNCHANGED <<groupVars, receipt, detached, grace>>
  /\ UNCHANGED <<diskVars, hostVars, faultVars, sub, startup>>

(* A start-up step: R1, or the evidence R2-R8 need; a terminal record goes *)
(* on to its collection.                                                   *)
Classify ==
  /\ Up
  /\ step.pc = "gate" /\ startup
  /\ \/ step.seen \in Terminal /\ Reconciled
     \/ step.seen = "created" /\ Goto("settle") /\ UNCHANGED startup
     \/ step.seen \in {"submitted", "running"} /\ Goto("exit1") /\ UNCHANGED startup
  /\ UNCHANGED <<groupVars, diskVars, hostVars, faultVars, sub, ctlVars>>

(* readExit: only a missing file is absence, any other failure is evidence *)
(* of its own kind.                                                        *)
ReadExit(found, absent) ==
  /\ \/ /\ step' = [step EXCEPT !.exit = exitFile,
                                !.pc = IF exitFile = "none" THEN absent ELSE found]
        /\ UNCHANGED faultVars
     \/ /\ Fault
        /\ misread' = TRUE
        /\ step' = [step EXCEPT !.exit = "unreadable", !.pc = found]
  /\ UNCHANGED <<groupVars, diskVars, hostVars, sub, ctlVars, startup>>

FirstRead == Up /\ step.pc = "exit1" /\ ReadExit("settle", "probe")

(* No evidence: is the recorded identity still executing?                  *)
Probe ==
  /\ Up
  /\ step.pc = "probe" /\ step.seen = "running"
  /\ \/ ~LeaderMatches /\ Goto("exit2") /\ UNCHANGED <<ctl, startup>>
     \/ LeaderMatches /\ ~startup /\ EndStep /\ UNCHANGED <<ctl, startup>>
     \/ LeaderMatches /\ startup /\ ~step.asked /\ Goto("takeover") /\ UNCHANGED <<ctl, startup>>
     \/ /\ LeaderMatches /\ startup /\ step.asked           \* R8
        /\ ctl' = IF ctl.kind = "recovered" THEN ctl
                  ELSE [NewControl("recovered") EXCEPT !.want = TRUE]
        /\ Goto("cancel")
        /\ UNCHANGED startup
  /\ UNCHANGED <<groupVars, diskVars, hostVars, faultVars, sub, receipt, detached, grace>>

(* R3: some process born after the submission stands behind wrapper.pid.   *)
Promote ==
  /\ Up
  /\ step.pc = "probe" /\ step.seen = "submitted"
  /\ IF wrapperPid /\ leader \in Living \cup {"alien"}
       THEN /\ rec' = [rec EXCEPT !.status = "running",
                                  !.pid = IF leader = "alien" THEN "alien" ELSE "own"]
            /\ Goto("takeover")
       ELSE Goto("exit2") /\ UNCHANGED rec
  /\ UNCHANGED <<groupVars, dir, indexed, hostVars, faultVars, sub, ctlVars, startup>>

(* takeoverRunning: forget the old job id, recover the group, register,    *)
(* publish the new job id and keep a receipt, without an await.  Failing   *)
(* after the registration it detaches and removes it, and the run is       *)
(* watched by its files only; a removal that fails leaves the dead         *)
(* registration in place.  The identity check that throws is repeated.     *)
TakeOver ==
  /\ Up
  /\ step.pc = "takeover"
  /\ \/ /\ ~LeaderMatches
        /\ EndStep
        /\ UNCHANGED <<rec, ctl, receipt, detached, startup, faults>>
     \/ /\ LeaderMatches
        /\ rec' = [rec EXCEPT !.job = epoch]
        /\ ctl' = NewControl("adopted")
        /\ receipt' = TRUE
        /\ Reconciled
        /\ UNCHANGED <<detached, faults>>
     \/ /\ LeaderMatches
        /\ Fault
        /\ rec' = [rec EXCEPT !.job = 0]
        /\ \/ ctl' = NoControl /\ UNCHANGED detached
           \/ ctl' = NewControl("adopted") /\ detached' = TRUE
        /\ Reconciled
        /\ UNCHANGED receipt
  /\ UNCHANGED <<groupVars, dir, indexed, hostVars, misread, sub, grace>>

(* R8: repeat advance() until the group is quiet, then look for the exit   *)
(* the leader may have published meanwhile.                                *)
AwaitQuiet ==
  /\ Up
  /\ step.pc = "cancel"
  /\ \/ Blocked /\ Advance /\ UNCHANGED step
     \/ Stopped /\ EndStep /\ UNCHANGED <<groupVars, ctlVars>>
     \/ ~Blocked /\ ~Stopped /\ Goto("exit2") /\ UNCHANGED <<groupVars, ctlVars>>
  /\ UNCHANGED <<diskVars, hostVars, faultVars, sub, startup>>

SkipSecondRead ==          \* a mistake: the exit is not read again after the probe
  /\ Up
  /\ step.pc = "exit2"
  /\ Goto("settle")
  /\ UNCHANGED <<groupVars, diskVars, hostVars, faultVars, sub, ctlVars, startup>>

SecondRead == Up /\ step.pc = "exit2" /\ ReadExit("settle", "settle")

(* settle: what the fresh record becomes.                                  *)
SettledRecord(asked) ==
  [rec EXCEPT !.status = CASE step.exit = "zero" -> "succeeded"
                           [] step.exit \in {"nonzero", "unreadable"} -> "failed"
                           [] step.exit = "none" -> IF asked THEN "cancelled" ELSE "failed",
              !.code = IF step.exit \in Code THEN step.exit ELSE "none"]

(* What follows the publication: a receipt is completed, otherwise the     *)
(* control is released and the run left to its collection.                 *)
AfterSettle ==
  /\ IF receipt THEN Goto("complete") /\ UNCHANGED <<ctl, startup>>
                ELSE Reconciled /\ ctl' = NoControl
  /\ UNCHANGED <<groupVars, receipt, detached, grace>>

SettleUnchecked ==         \* a mistake: advance() is not asked again
  /\ Up
  /\ step.pc = "settle"
  /\ rec' = SettledRecord(rec.cancel)
  /\ AfterSettle
  /\ UNCHANGED <<dir, indexed, hostVars, faultVars, sub>>

SettleSnapshot ==          \* a mistake: the request is looked up in the snapshot
  /\ Up
  /\ step.pc = "settle"
  /\ \/ ~Blocked /\ ~Stopped /\ rec' = SettledRecord(step.asked) /\ AfterSettle
     \/ Blocked /\ Advance /\ Reconciled /\ UNCHANGED rec
     \/ Stopped /\ EndStep /\ UNCHANGED <<rec, groupVars, ctlVars, startup>>
  /\ UNCHANGED <<dir, indexed, hostVars, faultVars, sub>>

Settle ==
  /\ Up
  /\ step.pc = "settle"
  /\ \/ ~Blocked /\ ~Stopped /\ rec' = SettledRecord(rec.cancel) /\ AfterSettle
     \/ Blocked /\ Advance /\ Reconciled /\ UNCHANGED rec
     \/ Stopped /\ EndStep /\ UNCHANGED <<rec, groupVars, ctlVars, startup>>
  /\ UNCHANGED <<dir, indexed, hostVars, faultVars, sub>>

(* complete: the group is quiet by now, so a requested local child only    *)
(* has to be reaped.                                                       *)
Complete ==
  /\ Up
  /\ step.pc = "complete"
  /\ receipt' = FALSE
  /\ ctl' = NoControl
  /\ detached' = FALSE
  /\ Reconciled
  /\ UNCHANGED <<groupVars, diskVars, hostVars, faultVars, sub, grace>>

StepFails ==
  /\ Up
  /\ step.pc \notin {"idle", "exit1", "exit2"}
  /\ Fault
  /\ EndStep
  /\ UNCHANGED <<groupVars, diskVars, hostVars, misread, sub, ctlVars, startup>>

StepProgress == \/ Begin \/ Gate \/ Classify \/ FirstRead \/ Probe \/ Promote \/ TakeOver
                \/ AwaitQuiet \/ SecondRead \/ Settle \/ Complete

-----------------------------------------------------------------------------
(* The host.                                                               *)

(* reconcileAtStartup queues a start-up step for every active entry.       *)
StartUnreconciled ==       \* a mistake: active entries wait for the ordinary steps
  /\ host = "down"
  /\ epoch < MaxEpoch
  /\ host' = "starting"
  /\ epoch' = epoch + 1
  /\ UNCHANGED <<groupVars, diskVars, faultVars, sub, ctlVars, stepVars>>

Start ==
  /\ host = "down"
  /\ epoch < MaxEpoch
  /\ host' = "starting"
  /\ epoch' = epoch + 1
  /\ startup' = indexed
  /\ step' = IF indexed THEN [IdleStep EXCEPT !.pc = "queued"] ELSE IdleStep
  /\ UNCHANGED <<groupVars, diskVars, faultVars, sub, ctlVars>>

Ready ==
  /\ host = "starting"
  /\ step.pc = "idle"
  /\ host' = "ready"
  /\ UNCHANGED <<groupVars, diskVars, epoch, faultVars, sub, ctlVars, stepVars>>

(* The teardown effect ends admission; work that was accepted is awaited.  *)
Dispose ==
  /\ host \in {"starting", "ready"}
  /\ epoch < MaxEpoch
  /\ host' = "closing"
  /\ UNCHANGED <<groupVars, diskVars, epoch, faultVars, sub, ctlVars, stepVars>>

(* The parent registry cancels every registration on its own way down: the *)
(* run is left alone unless its cancellation was already requested.        *)
TeardownKills ==           \* a mistake: teardown terminates whatever is registered
  /\ host = "closing"
  /\ ctl.kind \in {"local", "adopted"} /\ ~detached
  /\ detached' = TRUE
  /\ signal' = IF GroupActive /\ ~Unproven THEN Stronger("term") ELSE signal
  /\ UNCHANGED <<leader, solver, wrapperPid, exitFile, diskVars, hostVars, faultVars, sub,
                 ctl, receipt, grace, stepVars>>

TeardownCancel ==
  /\ host = "closing"
  /\ ctl.kind \in {"local", "adopted"} /\ ~detached
  /\ detached' = TRUE
  /\ signal' = IF ctl.want /\ GroupActive /\ ~Unproven THEN Stronger("term") ELSE signal
  /\ UNCHANGED <<leader, solver, wrapperPid, exitFile, diskVars, hostVars, faultVars, sub,
                 ctl, receipt, grace, stepVars>>

HostGone ==
  /\ host' = "down"
  /\ sub' = IF sub = "idle" THEN "idle" ELSE "over"
  /\ ctl' = NoControl
  /\ receipt' = FALSE
  /\ detached' = FALSE
  /\ step' = IdleStep
  /\ startup' = FALSE
  /\ UNCHANGED <<groupVars, diskVars, epoch, faultVars, grace>>

CloseStore ==
  /\ host = "closing"
  /\ step.pc = "idle"
  /\ sub \in {"idle", "over", "stuck"}
  /\ HostGone

Crash ==
  /\ Up
  /\ epoch < MaxEpoch
  /\ HostGone

Execution == /\ GroupStep
             /\ UNCHANGED <<diskVars, hostVars, faultVars, sub, ctlVars, stepVars>>

-----------------------------------------------------------------------------
Next == \/ Prepare \/ Submission \/ SubmissionFails \/ Kill \/ GraceElapses
        \/ Dispatch \/ StepProgress \/ StepFails
        \/ Start \/ Ready \/ Dispose \/ TeardownCancel \/ CloseStore \/ Crash
        \/ Execution

Spec == Init /\ [][Next]_vars

-----------------------------------------------------------------------------
(* Whoever finds the run in the index finds its record: the entry is added *)
(* after the record and taken back before it (a start-up that found an     *)
(* entry without record could neither settle nor forget the run).          *)
IndexedHasRecord == indexed => dir /\ rec.status # "absent"

(* A running group has its run directory: the rollback deletes nothing     *)
(* under a wrapper or a solver that can still write.                       *)
ExecutingHasDir == Executing => dir

(* The exit code the wrapper published is what the record says, and a run  *)
(* that was promised to its submitter is called lost or cancelled only     *)
(* when its wrapper is dead without having published one ("exit evidence   *)
(* wins", Park_Resume_Design section 8), unless the file was unreadable.   *)
ExitEvidenceWins ==
  rec.status \in Terminal /\ rec.pid = "own" /\ ~misread =>
    /\ rec.code = exitFile
    /\ rec.code = "none" => leader \notin Living

(* A run that holds a receipt can be killed: the record names the          *)
(* registration of this very host, and the cancellation state has it.      *)
ReceiptIsKillable ==
  receipt /\ Up => rec.job = epoch /\ ctl.kind \in {"local", "adopted"}

(* No terminal record while the group of a cancellation this host controls *)
(* can still perform I/O.                                                  *)
SettledQuiet ==
  [][rec.status # rec'.status /\ rec'.status \in Terminal /\ Requested => ~GroupActive]_vars

(* No signal without a durable request to cancel, except to the execution  *)
(* of a submission that is being rolled back: closing or reloading a host  *)
(* leaves its runs alone.                                                  *)
SignalsNeedRequest ==
  [][signal' \notin {signal, "none"} => rec'.cancel \/ sub = "failed"]_vars

(* A signal meant for the run never reaches a process that was given its   *)
(* pid later, as long as the record identifies the wrapper.                *)
NoForeignSignal ==
  [][signal' \notin {signal, "none"} /\ rec.pid # "alien" => leader # "alien"]_vars

(* While a run executes its directory is there, and while somebody holds a *)
(* receipt of it, it can be killed.                                        *)
RunWithinReach == ExecutingHasDir /\ ReceiptIsKillable

(* A signal is sent upon a durable request, or by a rollback, and reaches  *)
(* the run or nobody.                                                      *)
SignalsJustified == SignalsNeedRequest /\ NoForeignSignal

(* Every host that comes and goes serves the one promised life of the run. *)
LifecycleStage ==
  CASE rec.status = "absent" -> "none"
    [] rec.status \in {"created", "submitted"} -> "pending"
    [] rec.status = "failed" /\ rec.code = "none" -> IF misread THEN "unreadable" ELSE "lost"
    [] OTHER -> rec.status
Lifecycle == INSTANCE RunLifecycle WITH stage <- LifecycleStage, asked <- rec.cancel
ImplementsLifecycle == Lifecycle!LifecycleSpec

-----------------------------------------------------------------------------
(* The event loop of a live host runs its timers, its steps and its        *)
(* submission; somebody starts a host again; signals arrive; a wrapper     *)
(* does its next step; a pid in the hands of another process becomes free. *)
(* That a solver ends by itself is assumed only where it is named.         *)
Fairness ==
  /\ WF_vars(StepProgress)
  /\ WF_vars(Dispatch)
  /\ WF_vars(Submission)
  /\ WF_vars(Start)
  /\ WF_vars(Ready)
  /\ WF_vars(TeardownCancel)
  /\ WF_vars(CloseStore)
  /\ WF_vars(GraceElapses)
  /\ WF_vars(PublishPid /\ Execution)
  /\ WF_vars(PublishExit /\ Execution)
  /\ WF_vars(Deliver /\ Execution)
  /\ WF_vars(AlienExits /\ Execution)
SolverEndsItself == WF_vars((\E code \in Code : SolverEnds(code)) /\ Execution)

FairSpec == Spec /\ Fairness

(* Every indexed run whose solver ends is settled or withdrawn by some     *)
(* host, unless a rollback that could not finish keeps it for the next one *)
(* (invariant 13 of CONTEXT.md: a run survives its host).  A record that a *)
(* crash left without its index entry belongs to nobody.                   *)
RunSettles ==
  SolverEndsItself => (indexed ~> rec.status \in Terminal \/ ~indexed \/ sub = "stuck")

(* A requested cancellation settles the run even when the solver ignores   *)
(* SIGTERM and would never end, across restarts of the host.               *)
CancelSettles == rec.cancel ~> rec.status \in Terminal

(* A run comes to its end, by itself or because it is asked to.            *)
RunsEnd == RunSettles /\ CancelSettles

(* A closing host always finishes, whatever step or rollback it waits for. *)
CloseFinishes == host = "closing" ~> host = "down"
=============================================================================
