----------------------------- MODULE ShudCollect -----------------------------
(***************************************************************************)
(* The collection of one settled run (shud-collect.ts): its immutable      *)
(* run-record.json, the collect-error.json ledger of failed attempts, and  *)
(* the projection of both on run-job.json.  Automatic steps of the poll    *)
(* and direct collectShud requests share one queue per run (shud-poll.ts); *)
(* any call may fail, the host may die between two awaits, and whoever has *)
(* access to the run directory may replace exit_code.                      *)
(*                                                                         *)
(* Receipts and cancellation precede the collection and belong to ShudRun. *)
(***************************************************************************)
EXTENDS Naturals

CONSTANTS Steps,       \* queue members that are automatic poll steps
          Requests,    \* queue members that are direct requests
          MaxAttempts, \* MAX_COLLECT_ATTEMPTS
          MaxLedger,   \* bound on the ledger: direct requests are not limited
          MaxFaults,   \* bound on failing calls and replaced exit_code files
          MaxRestarts  \* bound on the deaths of the host

ASSUME CallersAssumption == Steps \cap Requests = {}
ASSUME BoundsAssumption ==
  /\ MaxAttempts \in Nat \ {0}
  /\ MaxLedger \in Nat /\ MaxLedger >= MaxAttempts
  /\ MaxFaults \in Nat /\ MaxRestarts \in Nat

VARIABLES
  job,      \* run-job.json: status, exit_code as settled, cancel_requested_at
  exitFile, \* the file exit_code
  record,   \* run-record.json
  attempts, \* of the ledger, 0 when there is none
  due,      \* COLLECT_RETRY_INTERVAL_MS have passed since the last attempt
  observed, \* this host keeps the RunTerminalObservation of the run
  op,       \* the queued operation of each caller
  faults,   \* how many more calls may fail
  restarts  \* how often the host has been replaced

diskVars == <<job, exitFile, record, attempts>>
budget == <<faults, restarts>>
vars == <<diskVars, due, observed, op, budget>>

Callers == Steps \cup Requests
Settled == {"succeeded", "failed", "cancelled"}
Code == {"zero", "nonzero"}
Class == {"ok", "error", "cancelled", "lost"}

Job == [status : Settled \cup {"collected"}, code : Code \cup {"none"}, cancel : BOOLEAN]
NoRecord == [class |-> "none", wall |-> FALSE, by |-> "none"]
Record == [class : Class, wall : BOOLEAN, by : Callers]

(* What the operation carries across its awaits: the job it read, the      *)
(* ledger it read, whether the failure it accounts for is one of the exit  *)
(* evidence, and the candidate record.                                     *)
Pc == {"idle", "checkpoint", "exit", "absent", "write", "project", "ledger", "demote"}
NoJob == [status |-> "none", code |-> "none", cancel |-> FALSE]
Op == [pc : Pc, seen : Job \cup {NoJob}, attempts : 0..MaxLedger, evidence : BOOLEAN,
       code : Code \cup {"none"}, draft : Record \cup {NoRecord}]
IdleOp == [pc |-> "idle", seen |-> NoJob, attempts |-> 0, evidence |-> FALSE,
           code |-> "none", draft |-> NoRecord]

TypeOK ==
  /\ job \in Job
  /\ exitFile \in Code \cup {"none", "invalid"}
  /\ record \in Record \cup {NoRecord}
  /\ attempts \in 0..MaxLedger
  /\ due \in BOOLEAN
  /\ observed \in BOOLEAN
  /\ op \in [Callers -> Op]
  /\ faults \in 0..MaxFaults
  /\ restarts \in 0..MaxRestarts

(* What ShudPoll.settle leaves behind; a run called cancelled has its      *)
(* request, a code is settled from the file, and only the host that saw    *)
(* the run end keeps an observation, and only with a code or a request.    *)
SettledJob ==
  {j \in Job : /\ j.status # "collected"
               /\ j.code = "zero" <=> j.status = "succeeded"
               /\ j.code = "nonzero" => j.status = "failed"
               /\ j.status = "cancelled" => j.cancel}

Init ==
  /\ job \in SettledJob
  /\ exitFile \in IF job.code = "none" /\ job.status = "failed"
                   THEN IF job.cancel THEN {"invalid"} ELSE {"none", "invalid"}
                   ELSE {job.code}
  /\ record = NoRecord
  /\ attempts = 0
  /\ due = TRUE
  /\ observed \in {FALSE, job.code # "none" \/ job.status = "cancelled"}
  /\ op = [c \in Callers |-> IdleOp]
  /\ faults = MaxFaults
  /\ restarts = 0

-----------------------------------------------------------------------------
At(c, pc) == op[c].pc = pc
Goto(c, pc) == op' = [op EXCEPT ![c].pc = pc]
Fault == faults > 0 /\ faults' = faults - 1 /\ UNCHANGED restarts
EndOp(c) == op' = [op EXCEPT ![c] = IdleOp]

(* A failure of the generation is accounted for by failedAttempt.          *)
Failed(c, evidence) == op' = [op EXCEPT ![c].pc = "ledger", ![c].evidence = evidence]

(* classifyRunExit *)
ClassByStatus(seen, code) ==  \* a mistake: only the status tells a cancelled run
  CASE code = "zero" -> "ok"
    [] code = "nonzero" -> "error"
    [] code = "none" -> IF seen.status = "cancelled" THEN "cancelled" ELSE "lost"

ExitClass(seen, code) ==
  CASE code = "zero" -> "ok"
    [] code = "nonzero" -> "error"
    [] code = "none" -> IF seen.status = "cancelled" \/ seen.cancel THEN "cancelled" ELSE "lost"

-----------------------------------------------------------------------------
(* The queue of the run holds one operation at a time, which begins with   *)
(* the file it routes.  An automatic step of a collected run goes on with  *)
(* its notification.  Requests end where the bound on the ledger is.       *)
BeginUnqueued(c) ==           \* a mistake: direct requests bypass the queue
  /\ At(c, "idle")
  /\ c \in Steps => job.status # "collected" /\ \A d \in Callers : At(d, "idle")
  /\ c \in Requests => attempts < MaxLedger
  /\ op' = [op EXCEPT ![c] = [IdleOp EXCEPT !.pc = "checkpoint", !.seen = job]]
  /\ UNCHANGED <<diskVars, due, observed, budget>>

Begin(c) ==
  /\ \A d \in Callers : At(d, "idle")
  /\ c \in Steps => job.status # "collected"
  /\ c \in Requests => attempts < MaxLedger
  /\ op' = [op EXCEPT ![c] = [IdleOp EXCEPT !.pc = "checkpoint", !.seen = job]]
  /\ UNCHANGED <<diskVars, due, observed, budget>>

(* An automatic step waits for the interval and stops at the limit.        *)
Gated(c) == c \in Steps /\ attempts > 0 /\ (attempts >= MaxAttempts \/ ~due)

(* readCollectCheckpoint and the gate of collectRun.  A record that cannot *)
(* be read is not taken for an absent one.                                 *)
ReadCheckpoint(c) ==
  /\ At(c, "checkpoint")
  /\ \/ /\ record # NoRecord
        /\ observed' = FALSE
        /\ Goto(c, "project")
        /\ UNCHANGED budget
     \/ /\ record = NoRecord
        /\ IF Gated(c) THEN EndOp(c)
           ELSE op' = [op EXCEPT ![c].pc = "exit", ![c].attempts = attempts]
        /\ UNCHANGED <<observed, budget>>
     \/ /\ Fault                                   \* the record
        /\ IF Gated(c) THEN EndOp(c)
           ELSE op' = [op EXCEPT ![c].pc = "ledger", ![c].attempts = attempts]
        /\ UNCHANGED observed
     \/ /\ Fault                                   \* the ledger
        /\ record = NoRecord
        /\ EndOp(c)
        /\ UNCHANGED observed
  /\ UNCHANGED <<diskVars, due>>

(* exitCode: the file must still say what was settled; a run settled       *)
(* without a code takes the one that is there now.                         *)
ExitUnmatched(c) ==           \* a mistake: the settled code is not compared
  /\ At(c, "exit")
  /\ \/ /\ exitFile # "invalid"
        /\ op' = [op EXCEPT ![c].pc = "absent", ![c].code = exitFile]
        /\ UNCHANGED budget
     \/ exitFile = "invalid" /\ Failed(c, TRUE) /\ UNCHANGED budget
     \/ Fault /\ Failed(c, TRUE)
  /\ UNCHANGED <<diskVars, due, observed>>

ReadExitCode(c) ==
  LET agrees == exitFile # "invalid" /\ op[c].seen.code \in {"none", exitFile}
  IN /\ At(c, "exit")
     /\ \/ /\ agrees
           /\ op' = [op EXCEPT ![c].pc = "absent", ![c].code = exitFile]
           /\ UNCHANGED budget
        \/ ~agrees /\ Failed(c, TRUE) /\ UNCHANGED budget
        \/ Fault /\ Failed(c, TRUE)
     /\ UNCHANGED <<diskVars, due, observed>>

(* The scan of the output, the candidate, and the check that nothing has   *)
(* been published; only an observation of this host authorizes a duration. *)
DraftUnwitnessed(c) ==        \* a mistake: the timestamps on disk are enough
  /\ At(c, "absent")
  /\ \/ /\ op' = [op EXCEPT ![c].pc = IF record = NoRecord THEN "write" ELSE "ledger",
                            ![c].draft = [class |-> ExitClass(op[c].seen, op[c].code),
                                          wall |-> TRUE, by |-> c]]
        /\ UNCHANGED budget
     \/ Fault /\ Failed(c, FALSE)
  /\ UNCHANGED <<diskVars, due, observed>>

Draft(c) ==
  /\ At(c, "absent")
  /\ \/ /\ op' = [op EXCEPT ![c].pc = IF record = NoRecord THEN "write" ELSE "ledger",
                            ![c].draft = [class |-> ExitClass(op[c].seen, op[c].code),
                                          wall |-> observed, by |-> c]]
        /\ UNCHANGED budget
     \/ Fault /\ Failed(c, FALSE)
  /\ UNCHANGED <<diskVars, due, observed>>

(* The commit: an atomic rename.                                           *)
WriteRecord(c) ==
  /\ At(c, "write")
  /\ \/ record' = op[c].draft /\ Goto(c, "project") /\ UNCHANGED budget
     \/ Fault /\ Failed(c, FALSE) /\ UNCHANGED record
  /\ UNCHANGED <<job, exitFile, attempts, due, observed>>

(* projectCollected: its failure ends the operation without an attempt.    *)
Project(c) ==
  /\ At(c, "project")
  /\ \/ job' = [job EXCEPT !.status = "collected"] /\ observed' = FALSE /\ UNCHANGED budget
     \/ Fault /\ UNCHANGED <<job, observed>>
  /\ EndOp(c)
  /\ UNCHANGED <<exitFile, record, attempts, due>>

(* failedAttempt: the ledger, then the status of a run whose exit evidence *)
(* is unusable, whether or not the ledger could be written.                *)
AfterLedger(c) ==
  IF op[c].evidence /\ op[c].seen.status # "failed" THEN Goto(c, "demote") ELSE EndOp(c)

WriteLedgerAnew(c) ==         \* a mistake: every failure starts a new ledger
  /\ At(c, "ledger")
  /\ \/ attempts' = 1 /\ due' = FALSE /\ UNCHANGED budget
     \/ Fault /\ UNCHANGED <<attempts, due>>
  /\ AfterLedger(c)
  /\ UNCHANGED <<job, exitFile, record, observed>>

WriteLedger(c) ==
  /\ At(c, "ledger")
  /\ \/ attempts' = op[c].attempts + 1 /\ due' = FALSE /\ UNCHANGED budget
     \/ Fault /\ UNCHANGED <<attempts, due>>
  /\ AfterLedger(c)
  /\ UNCHANGED <<job, exitFile, record, observed>>

Demote(c) ==
  /\ At(c, "demote")
  /\ \/ /\ job' = [job EXCEPT !.status = IF @ = "collected" THEN @ ELSE "failed"]
        /\ UNCHANGED budget
     \/ Fault /\ UNCHANGED job
  /\ EndOp(c)
  /\ UNCHANGED <<exitFile, record, attempts, due, observed>>

Step(c) == \/ ReadCheckpoint(c) \/ ReadExitCode(c) \/ Draft(c) \/ WriteRecord(c) \/ Project(c)
           \/ WriteLedger(c) \/ Demote(c)

-----------------------------------------------------------------------------
IntervalElapses ==
  /\ ~due
  /\ due' = TRUE
  /\ UNCHANGED <<diskVars, observed, op, budget>>

(* Nobody locks the run directory: exit_code may be removed, repaired or   *)
(* replaced by hand.                                                       *)
ExitReplaced ==
  /\ Fault
  /\ exitFile' \in (Code \cup {"none", "invalid"}) \ {exitFile}
  /\ UNCHANGED <<job, record, attempts, due, observed, op>>

(* The memory of the host is gone; a closing host also clears it.          *)
Restart ==
  /\ restarts < MaxRestarts
  /\ restarts' = restarts + 1
  /\ observed' = FALSE
  /\ op' = [c \in Callers |-> IdleOp]
  /\ UNCHANGED <<diskVars, due, faults>>

Next == \/ \E c \in Callers : Begin(c) \/ Step(c)
        \/ IntervalElapses \/ ExitReplaced \/ Restart

Spec == Init /\ [][Next]_vars

(* The queue runs what it holds, the timer adds a step, time passes.       *)
Fairness == /\ \A c \in Callers : WF_vars(Step(c))
            /\ \A c \in Steps : WF_vars(Begin(c))
            /\ WF_vars(IntervalElapses)
FairSpec == Spec /\ Fairness

-----------------------------------------------------------------------------
(* The record is immutable: neither a retry, nor a direct request, nor the *)
(* host that finds it after a crash, nor a replaced exit_code rewrites it. *)
RecordImmutable == [][record # NoRecord => record' = record]_vars

(* A settled exit code and its record never disagree, whatever happened to *)
(* the file between the settlement and the attempt that succeeded; and     *)
(* collected is only said of a run that has its record (R10).              *)
RecordHonoursSettlement ==
  /\ record # NoRecord /\ job.code # "none" => record.class = ExitClass(job, job.code)
  /\ job.status = "collected" => record # NoRecord

(* Without an exit code, cancelled is told from lost by the durable        *)
(* request, also after unusable evidence demoted the status to failed.     *)
CancelledIffRequested ==
  /\ record.class = "cancelled" => job.cancel
  /\ record.class = "lost" => ~job.cancel

(* Only the host that saw the run end publishes a duration.                *)
DurationIsWitnessed ==
  [][record' # record /\ record'.wall => restarts = 0]_vars

(* Automatic collection ends: with the record, or with its attempts used   *)
(* up and a failure to report.                                             *)
CollectionEnds == <>(job.status = "collected" \/ attempts >= MaxAttempts)
=============================================================================
