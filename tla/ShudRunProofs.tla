---------------------------- MODULE ShudRunProofs ----------------------------
(***************************************************************************)
(* Proofs about ShudRun, for any number of hosts and of failing calls: the *)
(* types, the record behind an index entry, the directory under a group,   *)
(* receipts, what signals and settlements may do, and the outcome of a run *)
(* as RunLifecycle tells it.                                               *)
(*                                                                         *)
(* The invariants of the module are not inductive.  What makes them so is  *)
(* that a submission in flight has its run to itself (SubmissionInv), that *)
(* a host starts without receipts and controls and that the start-up steps *)
(* take living runs over before anybody else (HostInv), and that a request *)
(* is on disk before the host acts upon it (RequestInv).                   *)
(***************************************************************************)
EXTENDS ShudRun, TLAPS

(* A submission in flight has its run to itself: no step, no registration  *)
(* that could be killed, and everything it has written is still there.     *)
SubmissionInv ==
  /\ ~Up => sub \in {"idle", "over"}
  /\ InFlight => ~receipt /\ ~startup /\ step = IdleStep /\ ~ctl.want
  /\ sub = "idle" => /\ ~indexed /\ ~receipt /\ ~startup
                     /\ step = IdleStep /\ ctl = NoControl
  /\ sub \in {"idle", "prepared", "created", "indexed", "submitted"} => leader = "none"
  /\ sub \in Writing => dir
  /\ sub \in Writing \ {"prepared"} => rec.status # "absent"
  /\ sub \in {"spawned", "named", "written"} => ctl.kind = "local"
  /\ sub \in {"named", "written"} => rec.job = epoch
  /\ sub \in {"unindexing", "removing"} => ~Executing
  /\ sub = "removing" => ~indexed
  /\ leader = "none" => ~solver

(* A new host starts with no receipt and no control.                       *)
HostInv ==
  /\ ~Up => ~receipt /\ ctl = NoControl /\ step = IdleStep /\ ~startup
  /\ startup => ~receipt
  /\ step.pc \in {"takeover", "cancel"} => startup
  /\ step.pc \in {"exit1", "probe"} /\ step.seen # "running" => startup

(* What a host believes about a request is on disk.                        *)
RequestInv ==
  /\ ctl.want => rec.cancel
  /\ step.asked => rec.cancel

IInv == /\ TypeOK /\ SubmissionInv /\ HostInv /\ RequestInv
        /\ IndexedHasRecord /\ ExecutingHasDir /\ ReceiptIsKillable

-----------------------------------------------------------------------------
(* The actions that replace run-job.json.                                  *)
LEMMA RecordFrame ==
  ASSUME Next, rec' # rec
  PROVE  \/ WriteCreated \/ WriteSubmitted \/ WriteNamed \/ WriteRunning \/ Remove
         \/ Kill \/ Promote \/ TakeOver \/ Settle
  BY DEF Next, Submission, StepProgress, diskVars, Prepare, AddActive, Register, Activate,
         SubmissionFails, Abort, Quiet, Unindex, RollbackFails, GraceElapses, Dispatch, Begin,
         Gate, Classify, FirstRead, ReadExit, Probe, AwaitQuiet, SecondRead, Complete, StepFails,
         Start, Ready, Dispose, TeardownCancel, CloseStore, Crash, HostGone, Execution

(* The actions that change the run's entry in the cancellation maps.       *)
LEMMA ControlFrame ==
  ASSUME Next, ctl' # ctl
  PROVE  \/ Register \/ Remove \/ Kill \/ Gate \/ Probe \/ TakeOver \/ AwaitQuiet \/ Settle
         \/ Complete \/ CloseStore \/ Crash
  BY DEF Next, Submission, StepProgress, ctlVars, Prepare, WriteCreated, WriteSubmitted,
         WriteNamed, WriteRunning, WriteRecord, AddActive, Activate,
         SubmissionFails, Abort, Quiet, Unindex, RollbackFails, GraceElapses, Dispatch, Begin,
         Classify, FirstRead, ReadExit, SecondRead, Promote, StepFails,
         Start, Ready, Dispose, TeardownCancel, Execution

(* The actions that move the queued step of the run.                       *)
LEMMA StepFrame ==
  ASSUME Next, step' # step
  PROVE  Dispatch \/ StepProgress \/ StepFails \/ Start \/ CloseStore \/ Crash
  BY DEF Next, Submission, stepVars, Prepare, WriteCreated, WriteSubmitted,
         WriteNamed, WriteRunning, WriteRecord, AddActive, Activate, Register, Remove, Kill,
         Requesting, SubmissionFails, Abort, Quiet, Unindex, RollbackFails, GraceElapses,
         Ready, Dispose, TeardownCancel, Execution

-----------------------------------------------------------------------------
(* Types.                                                                  *)

(* Every record that is written is a record.                               *)
LEMMA RecordType ==
  ASSUME TypeOK, Next
  PROVE  rec' \in Record
<1> USE MaxEpochAssumption
<1>1. rec \in Record /\ epoch \in 0..MaxEpoch
  BY DEF TypeOK
<1>2. /\ "created" \in Status /\ "submitted" \in Status /\ "running" \in Status
      /\ Terminal \subseteq Status
  BY DEF Status
<1>3. NoRecord \in Record
  BY DEF Record, NoRecord, Status
<1>4. \A status \in Status : Drafted(status) \in Record
  BY <1>3 DEF Record, Drafted
<1>5. CASE WriteCreated \/ WriteSubmitted
  BY <1>2, <1>4, <1>5 DEF WriteCreated, WriteSubmitted, WriteRecord
<1>6. CASE WriteNamed
  BY <1>1, <1>2, <1>4, <1>6 DEF WriteNamed, WriteRecord, Record
<1>7. CASE WriteRunning
  BY <1>1, <1>2, <1>4, <1>7 DEF WriteRunning, WriteRecord, Record
<1>8. CASE Remove
  BY <1>3, <1>8 DEF Remove
<1>9. CASE Kill
  BY <1>1, <1>9 DEF Kill, Requesting, Record
<1>10. CASE Promote
  BY <1>1, <1>2, <1>10 DEF Promote, Record
<1>11. CASE TakeOver
  BY <1>1, <1>11 DEF TakeOver, Record
<1>12. CASE Settle
  <2> DEFINE status == CASE step.exit = "zero" -> "succeeded"
                         [] step.exit \in {"nonzero", "unreadable"} -> "failed"
                         [] step.exit = "none" -> IF rec.cancel THEN "cancelled" ELSE "failed"
             code == IF step.exit \in Code THEN step.exit ELSE "none"
  <2>1. step.exit \in {"zero", "nonzero", "none", "unreadable"}
    BY DEF TypeOK, Step, Code
  <2>2. status \in Status
    BY <2>1 DEF Status, Terminal
  <2>3. code \in Code \cup {"none"}
    OBVIOUS
  <2>4. [rec EXCEPT !.status = status, !.code = code] \in Record
    BY <1>1, <2>2, <2>3 DEF Record
  <2>5. SettledRecord(rec.cancel) = [rec EXCEPT !.status = status, !.code = code]
    BY DEF SettledRecord
  <2> QED
    BY <1>1, <1>12, <2>4, <2>5 DEF Settle
<1> QED
  BY <1>1, <1>5, <1>6, <1>7, <1>8, <1>9, <1>10, <1>11, <1>12, RecordFrame

(* Cancellation entries keep their shape.                                  *)
LEMMA ControlType ==
  ASSUME TypeOK, Next
  PROVE  ctl' \in Control
<1>1. ctl \in Control
  BY DEF TypeOK
<1>2. /\ NoControl \in Control
      /\ NewControl("local") \in Control /\ NewControl("adopted") \in Control
      /\ [NewControl("recovered") EXCEPT !.want = TRUE] \in Control
  BY DEF Control, NoControl, NewControl
<1>3. Advance => ctl' \in Control
  BY <1>1 DEF Advance, Control, TypeOK
<1>4. CASE Register
  BY <1>2, <1>4 DEF Register
<1>5. CASE Remove \/ Complete \/ CloseStore \/ Crash
  BY <1>2, <1>5 DEF Remove, Complete, CloseStore, Crash, HostGone
<1>6. CASE Kill
  BY <1>1, <1>6 DEF Kill, Requesting, Control
<1>7. CASE Gate
  BY <1>1, <1>2, <1>3, <1>7 DEF Gate, ctlVars
<1>8. CASE Probe
  BY <1>1, <1>2, <1>8 DEF Probe
<1>9. CASE TakeOver
  BY <1>1, <1>2, <1>9 DEF TakeOver
<1>10. CASE AwaitQuiet
  BY <1>1, <1>3, <1>10 DEF AwaitQuiet, ctlVars
<1>11. CASE Settle
  BY <1>1, <1>2, <1>3, <1>11 DEF Settle, AfterSettle, ctlVars
<1> QED
  BY <1>1, <1>4, <1>5, <1>6, <1>7, <1>8, <1>9, <1>10, <1>11, ControlFrame

(* A step keeps its shape: it only goes to places the step has.            *)
LEMMA StepType ==
  ASSUME TypeOK, Next
  PROVE  step' \in Step
<1>1. step \in Step /\ IdleStep \in Step
  BY DEF TypeOK, IdleStep, Step, StepState, Status
<1>2. \A pc \in StepState : [step EXCEPT !.pc = pc] \in Step
  BY <1>1 DEF Step
<1>3. \A pc \in StepState : Goto(pc) => step' \in Step
  BY <1>2 DEF Goto
<1>4. EndStep \/ Reconciled => step' \in Step
  BY <1>1 DEF EndStep, Reconciled
<1>5. {"idle", "queued", "gate", "exit1", "probe", "takeover", "cancel", "exit2",
       "settle", "complete"} \subseteq StepState
  BY DEF StepState
<1>6. \A found, absent \in StepState : ReadExit(found, absent) => step' \in Step
  BY <1>1, ZenonT(60) DEF ReadExit, Step, TypeOK, GroupTypeOK
<1>7. CASE Dispatch
  BY <1>3, <1>5, <1>7 DEF Dispatch
<1>8. CASE Begin
  <2>1. rec.status \in Status /\ rec.cancel \in BOOLEAN
    BY DEF TypeOK, Record
  <2> QED
    BY <1>1, <1>5, <1>8, <2>1 DEF Begin, Step
<1>9. CASE Gate
  BY <1>3, <1>4, <1>5, <1>9 DEF Gate
<1>10. CASE Classify
  BY <1>3, <1>4, <1>5, <1>10 DEF Classify
<1>11. CASE FirstRead \/ SecondRead
  BY <1>5, <1>6, <1>11 DEF FirstRead, SecondRead
<1>12. CASE Probe
  BY <1>3, <1>4, <1>5, <1>12 DEF Probe
<1>13. CASE Promote
  BY <1>3, <1>4, <1>5, <1>13 DEF Promote
<1>14. CASE TakeOver
  BY <1>4, <1>14 DEF TakeOver
<1>15. CASE AwaitQuiet
  BY <1>1, <1>3, <1>4, <1>5, <1>15 DEF AwaitQuiet
<1>16. CASE Settle
  BY <1>3, <1>4, <1>5, <1>16 DEF Settle, AfterSettle
<1>17. CASE Complete \/ StepFails
  BY <1>4, <1>17 DEF Complete, StepFails
<1>18. CASE Start
  <2>1. [IdleStep EXCEPT !.pc = "queued"] \in Step
    BY <1>1, <1>5 DEF Step
  <2> QED
    BY <1>1, <1>18, <2>1 DEF Start
<1>19. CASE CloseStore \/ Crash
  BY <1>1, <1>19 DEF CloseStore, Crash, HostGone
<1> QED
  BY <1>1, <1>7, <1>8, <1>9, <1>10, <1>11, <1>12, <1>13, <1>14, <1>15, <1>16, <1>17, <1>18,
     <1>19, StepFrame DEF StepProgress

(* Hosts touch the execution by signals only, once it has been spawned.    *)
LEMMA GroupFrame ==
  ASSUME Next
  PROVE  \/ UNCHANGED <<leader, solver, signal, wrapperPid, exitFile>>
         \/ UNCHANGED <<leader, solver, wrapperPid, exitFile>> /\ signal' \in {"term", "kill", signal}
         \/ Register /\ Spawn
         \/ GroupStep
  BY DEF Next, Submission, StepProgress, groupVars, Prepare, WriteCreated, WriteSubmitted,
         WriteNamed, WriteRunning, WriteRecord, AddActive, Activate, Register, Remove, Kill,
         Requesting, Stronger, SubmissionFails, Abort, Quiet, Unindex, RollbackFails,
         GraceElapses, Dispatch, Begin, Gate, Classify, FirstRead, SecondRead, ReadExit, Probe,
         Promote, TakeOver, AwaitQuiet, Settle, AfterSettle, Advance, Complete, StepFails,
         Start, Ready, Dispose, TeardownCancel, CloseStore, Crash, HostGone, Execution

(* The execution keeps its types.                                          *)
LEMMA GroupType ==
  ASSUME TypeOK, Next
  PROVE  GroupTypeOK'
<1> USE DEF GroupTypeOK, LeaderState, Living, Code
<1>1. GroupTypeOK
  BY DEF TypeOK
<1>2. CASE UNCHANGED <<leader, solver, wrapperPid, exitFile>> /\ signal' \in {"term", "kill", signal}
  BY <1>1, <1>2
<1>3. CASE Spawn
  BY <1>1, <1>3 DEF Spawn
<1>4. CASE GroupStep
  BY <1>1, <1>4 DEF GroupStep, PublishPid, PublishExit, WrapperExits, Deliver, PidReused, AlienExits,
       SolverEnds, Pending
<1> QED
  BY <1>1, <1>2, <1>3, <1>4, GroupFrame

(* The flags keep their types.                                             *)
LEMMA OtherType ==
  ASSUME TypeOK, Next
  PROVE  /\ dir' \in BOOLEAN /\ indexed' \in BOOLEAN
         /\ misread' \in BOOLEAN /\ receipt' \in BOOLEAN /\ detached' \in BOOLEAN
         /\ grace' \in BOOLEAN /\ startup' \in BOOLEAN
  BY ZenonT(90) DEF TypeOK, Next, Submission, StepProgress, diskVars, faultVars, ctlVars, stepVars,
         Prepare, WriteCreated, WriteSubmitted,
         WriteNamed, WriteRunning, WriteRecord, AddActive, Activate, Register, Remove, Kill,
         Requesting, SubmissionFails, Abort, Quiet, Unindex, RollbackFails,
         GraceElapses, Dispatch, Begin, Gate, Classify, FirstRead, SecondRead, ReadExit, Probe,
         Promote, TakeOver, AwaitQuiet, Settle, AfterSettle, Advance, Complete, StepFails,
         Reconciled, Start, Ready, Dispose, TeardownCancel, CloseStore, Crash, HostGone, Execution

(* The program counters and the bounded counters keep their ranges.        *)
LEMMA CounterType ==
  ASSUME TypeOK, Next
  PROVE  /\ host' \in {"down", "starting", "ready", "closing"}
         /\ sub' \in SubState
         /\ epoch' \in 0..MaxEpoch
         /\ faults' \in 0..MaxFaults
<1> USE DEF TypeOK, Next, Submission, StepProgress, Submitting, hostVars, faultVars, stepVars,
         Prepare, WriteCreated, WriteSubmitted,
         WriteNamed, WriteRunning, WriteRecord, AddActive, Activate, Register, Remove, Kill,
         Requesting, SubmissionFails, Abort, Quiet, Unindex, RollbackFails,
         GraceElapses, Dispatch, Begin, Gate, Classify, FirstRead, SecondRead, ReadExit, Probe,
         Promote, TakeOver, AwaitQuiet, Settle, Complete, StepFails,
         Start, Ready, Dispose, TeardownCancel, CloseStore, Crash, HostGone, Execution
<1>1. host' \in {"down", "starting", "ready", "closing"}
  OBVIOUS
<1>2. sub' \in SubState
  BY DEF SubState, Writing, Undoing
<1>3. epoch' = epoch \/ (epoch < MaxEpoch /\ epoch' = epoch + 1)
  OBVIOUS
<1>4. faults' = faults \/ (faults > 0 /\ faults' = faults - 1)
  BY DEF Fault
<1> HIDE DEF Next
<1>5. epoch' \in 0..MaxEpoch
  BY <1>3, MaxEpochAssumption
<1>6. faults' \in 0..MaxFaults
  BY <1>4, MaxFaultsAssumption
<1> QED
  BY <1>1, <1>2, <1>5, <1>6

(* Every step keeps the types.                                             *)
LEMMA NextType == TypeOK /\ [Next]_vars => TypeOK'
<1> SUFFICES ASSUME TypeOK, [Next]_vars PROVE TypeOK'
  OBVIOUS
<1>1. CASE Next
  BY <1>1, RecordType, ControlType, StepType, GroupType, OtherType, CounterType DEF TypeOK
<1>2. CASE UNCHANGED vars
  BY <1>2 DEF vars, groupVars, diskVars, hostVars, faultVars, ctlVars, stepVars, TypeOK,
              GroupTypeOK
<1> QED
  BY <1>1, <1>2

-----------------------------------------------------------------------------
(* The inductive invariant.                                                *)

(* Before the first host there is no run.                                  *)
LEMMA InitIInv == Init => IInv
<1> SUFFICES ASSUME Init PROVE IInv
  OBVIOUS
<1> USE DEF Init, GroupInit
<1>1. rec \in Record /\ ctl \in Control /\ step \in Step
  BY MaxEpochAssumption
  DEF Record, NoRecord, Status, Control, NoControl, NewControl, Step, StepState, IdleStep
<1>2. TypeOK
  <2>1. epoch \in 0..MaxEpoch /\ faults \in 0..MaxFaults
    BY MaxEpochAssumption, MaxFaultsAssumption
  <2>2. GroupTypeOK
    BY DEF GroupTypeOK, LeaderState
  <2>3. sub \in SubState
    BY DEF SubState
  <2> QED
    BY <1>1, <2>1, <2>2, <2>3 DEF TypeOK
<1>3. SubmissionInv
  BY DEF SubmissionInv, Up, InFlight, Writing, NoControl, NewControl
<1>4. HostInv /\ RequestInv
  BY DEF HostInv, RequestInv, NoControl, NewControl, IdleStep
<1>5. IndexedHasRecord /\ ExecutingHasDir /\ ReceiptIsKillable
  BY DEF IndexedHasRecord, ExecutingHasDir, ReceiptIsKillable, Executing, Living, Code
<1> QED
  BY <1>2, <1>3, <1>4, <1>5 DEF IInv


(* The submission and its rollback.                                        *)
LEMMA SubmissionIInv ==
  ASSUME IInv, TypeOK', Prepare \/ Submission \/ SubmissionFails
  PROVE  IInv'
<1> USE DEF IInv, TypeOK, SubmissionInv, HostInv, RequestInv, IndexedHasRecord, ExecutingHasDir,
        ReceiptIsKillable, Up, InFlight, Writing, Undoing, GroupActive, Executing, Terminal,
        groupVars, diskVars, hostVars, faultVars, ctlVars, stepVars, NoControl, NewControl,
        IdleStep, Record, Control, Step
<1>1. CASE Prepare
  BY <1>1 DEF Prepare, Submitting
<1>2. CASE WriteCreated
  BY <1>2 DEF WriteCreated, WriteRecord, Submitting, Drafted
<1>3. CASE AddActive
  BY <1>3 DEF AddActive, Submitting
<1>4. CASE WriteSubmitted
  BY <1>4 DEF WriteSubmitted, WriteRecord, Submitting, Drafted
<1>5. CASE Register
  BY <1>5 DEF Register, Spawn, Fault, NewControl
<1>6. CASE WriteNamed
  BY <1>6 DEF WriteNamed, WriteRecord, Submitting, Drafted
<1>7. CASE WriteRunning
  BY <1>7 DEF WriteRunning, WriteRecord, Submitting, Drafted
<1>8. CASE Activate
  BY <1>8 DEF Activate, Submitting
<1>9. CASE SubmissionFails
  BY <1>9 DEF SubmissionFails, Fault
<1>10. CASE Abort
  BY <1>10 DEF Abort, Submitting
<1>11. CASE Quiet
  BY <1>11 DEF Quiet, Submitting
<1>12. CASE Unindex
  BY <1>12 DEF Unindex, Submitting
<1>13. CASE Remove
  BY <1>13 DEF Remove, Submitting
<1>14. CASE RollbackFails
  BY <1>14 DEF RollbackFails, Fault
<1> QED
  BY <1>1, <1>2, <1>3, <1>4, <1>5, <1>6, <1>7, <1>8, <1>9, <1>10, <1>11, <1>12, <1>13, <1>14 DEF Submission

(* The host comes and goes; time passes.                                   *)
LEMMA HostIInv ==
  ASSUME IInv, TypeOK', Start \/ Ready \/ Dispose \/ TeardownCancel
                         \/ CloseStore \/ Crash \/ GraceElapses
  PROVE  IInv'
<1> USE DEF IInv, TypeOK, SubmissionInv, HostInv, RequestInv, IndexedHasRecord, ExecutingHasDir,
        ReceiptIsKillable, Up, InFlight, Writing, Undoing, GroupActive, Executing, Terminal,
        groupVars, diskVars, hostVars, faultVars, ctlVars, stepVars, NoControl, NewControl,
        IdleStep, Record, Control, Step
<1>1. CASE Start
  BY <1>1 DEF Start
<1>2. CASE Ready
  BY <1>2 DEF Ready
<1>3. CASE Dispose
  BY <1>3 DEF Dispose
<1>4. CASE TeardownCancel
  BY <1>4 DEF TeardownCancel, Stronger
<1>5. CASE CloseStore
  BY <1>5 DEF CloseStore, HostGone
<1>6. CASE Crash
  BY <1>6 DEF Crash, HostGone
<1>7. CASE GraceElapses
  BY <1>7 DEF GraceElapses
<1> QED
  BY <1>1, <1>2, <1>3, <1>4, <1>5, <1>6, <1>7

(* The steps of the poll that change little at a time.                     *)
LEMMA SimpleStepIInv ==
  ASSUME IInv, TypeOK', Dispatch \/ Begin \/ Probe \/ Promote \/ Complete \/ StepFails
  PROVE  IInv'
<1> USE DEF IInv, TypeOK, SubmissionInv, HostInv, RequestInv, IndexedHasRecord, ExecutingHasDir,
        ReceiptIsKillable, Up, InFlight, Writing, Undoing, GroupActive, Executing, Terminal,
        groupVars, diskVars, hostVars, faultVars, ctlVars, stepVars, NoControl, NewControl,
        IdleStep, Record, Control, Step
<1>1. CASE Dispatch
  BY <1>1 DEF Dispatch, Goto
<1>2. CASE Begin
  BY <1>2 DEF Begin
<1>3. CASE Probe
  BY <1>3 DEF Probe, Goto, EndStep, NewControl
<1>4. CASE Promote
  BY <1>4, ZenonT(90) DEF Promote, Goto
<1>5. CASE Complete
  BY <1>5 DEF Complete, Reconciled, EndStep
<1>6. CASE StepFails
  BY <1>6 DEF StepFails, EndStep, Fault
<1> QED
  BY <1>1, <1>2, <1>3, <1>4, <1>5, <1>6

(* While a step is under way the submission is over, so the step disturbs  *)
(* its invariant only through the execution, which it leaves alone.        *)
LEMMA StepKeepsSubmission ==
  ASSUME IInv, step.pc # "idle", sub' = sub, leader' = leader, solver' = solver, Up'
  PROVE  sub = "over" /\ SubmissionInv'
<1>1. sub = "over" /\ (leader = "none" => ~solver)
  BY DEF IInv, SubmissionInv, InFlight, IdleStep
<1> QED
  BY <1>1 DEF SubmissionInv, InFlight, Writing, Undoing

(* Repeating the signals of a cancellation.                                *)
LEMMA AdvanceFacts ==
  ASSUME TypeOK, Advance
  PROVE  /\ ctl'.kind = ctl.kind /\ ctl'.want = ctl.want
         /\ UNCHANGED <<leader, solver, receipt>>
  BY DEF TypeOK, Control, Advance

(* What follows a step that leaves files and execution alone.              *)
LEMMA QuietStepIInv ==
  ASSUME IInv, TypeOK', step.pc # "idle", Up,
         UNCHANGED <<leader, solver, dir, rec, indexed, host, epoch, sub, receipt>>,
         step'.asked => step.asked,
         ctl' = NoControl \/ (ctl'.kind = ctl.kind /\ ctl'.want = ctl.want),
         receipt => ctl'.kind = ctl.kind,
         startup' => startup,
         step'.pc \in {"takeover", "cancel"} => startup',
         step'.pc \in {"exit1", "probe"} /\ step'.seen # "running" => startup'
  PROVE  IInv'
<1>1. Up'
  BY DEF Up
<1>2. SubmissionInv'
  BY <1>1, StepKeepsSubmission
<1>3. HostInv'
  BY <1>1 DEF IInv, HostInv
<1>4. RequestInv'
  BY DEF IInv, RequestInv, NoControl, NewControl
<1>5. IndexedHasRecord' /\ ExecutingHasDir'
  BY DEF IInv, IndexedHasRecord, ExecutingHasDir, Executing
<1>6. ReceiptIsKillable'
  BY DEF IInv, ReceiptIsKillable, Up
<1> QED
  BY <1>2, <1>3, <1>4, <1>5, <1>6 DEF IInv

(* The ordinary step's gate releases a control or repeats its signals.     *)
LEMMA GateIInv ==
  ASSUME IInv, TypeOK', Gate
  PROVE  IInv'
<1> USE DEF Gate, groupVars, diskVars, hostVars, ctlVars
<1>1. step.pc = "gate" /\ step \in Step /\ ~startup /\ startup' = startup
  BY DEF IInv, TypeOK
<1>2. step' = IdleStep \/ (step' = [step EXCEPT !.pc = "exit1"] /\ step.seen = "running")
                       \/ (step' = [step EXCEPT !.pc = "complete"])
  BY DEF EndStep, Goto
<1>3. /\ step'.asked => step.asked
      /\ step'.pc \notin {"takeover", "cancel", "probe"}
      /\ step'.pc = "exit1" => step'.seen = "running"
  BY <1>1, <1>2 DEF Step, IdleStep
<1>4. /\ UNCHANGED <<leader, solver, receipt>>
      /\ ctl' = NoControl \/ (ctl'.kind = ctl.kind /\ ctl'.want = ctl.want)
      /\ receipt => ctl'.kind = ctl.kind
  BY AdvanceFacts DEF IInv
<1> QED
  BY <1>1, <1>3, <1>4, QuietStepIInv

(* The start-up step's gate chooses the rule.                              *)
LEMMA ClassifyIInv ==
  ASSUME IInv, TypeOK', Classify
  PROVE  IInv'
<1> USE DEF Classify, groupVars, diskVars, hostVars, ctlVars
<1>1. step.pc = "gate" /\ step \in Step /\ startup
  BY DEF IInv, TypeOK
<1>2. step' = IdleStep \/ (step' = [step EXCEPT !.pc = "settle"])
                       \/ (step' = [step EXCEPT !.pc = "exit1"] /\ startup')
  BY DEF Reconciled, EndStep, Goto
<1>3. /\ step'.asked => step.asked
      /\ step'.pc \notin {"takeover", "cancel", "probe"}
      /\ step'.pc = "exit1" => startup'
  BY <1>1, <1>2 DEF Step, IdleStep
<1> QED
  BY <1>1, <1>3, QuietStepIInv

(* The first reading of exit_code; a submitted record only gets here at    *)
(* start-up.                                                               *)
LEMMA FirstReadIInv ==
  ASSUME IInv, TypeOK', FirstRead
  PROVE  IInv'
<1> USE DEF FirstRead, ReadExit, groupVars, diskVars, hostVars, ctlVars
<1>1. step.pc = "exit1" /\ step \in Step /\ startup' = startup
  BY DEF IInv, TypeOK
<1>2. /\ step'.asked = step.asked /\ step'.seen = step.seen
      /\ step'.pc \in {"settle", "probe"}
  BY <1>1 DEF Step
<1>3. step.seen # "running" => startup
  BY <1>1 DEF IInv, HostInv
<1> QED
  BY <1>1, <1>2, <1>3, QuietStepIInv

(* The second reading.                                                     *)
LEMMA SecondReadIInv ==
  ASSUME IInv, TypeOK', SecondRead
  PROVE  IInv'
<1> USE DEF SecondRead, ReadExit, groupVars, diskVars, hostVars, ctlVars
<1>1. step.pc = "exit2" /\ step \in Step /\ startup' = startup
  BY DEF IInv, TypeOK
<1>2. step'.asked = step.asked /\ step'.pc = "settle"
  BY <1>1 DEF Step
<1> QED
  BY <1>1, <1>2, QuietStepIInv

(* Waiting for the group of a recovered cancellation.                      *)
LEMMA AwaitQuietIInv ==
  ASSUME IInv, TypeOK', AwaitQuiet
  PROVE  IInv'
<1> USE DEF AwaitQuiet, groupVars, diskVars, hostVars, ctlVars
<1>1. step.pc = "cancel" /\ step \in Step /\ startup /\ startup' = startup
  BY DEF IInv, TypeOK, HostInv
<1>2. step' = step \/ step' = IdleStep \/ (step' = [step EXCEPT !.pc = "exit2"])
  BY DEF EndStep, Goto
<1>3. step'.asked => step.asked
  BY <1>1, <1>2 DEF Step, IdleStep
<1>4. /\ UNCHANGED <<leader, solver, receipt>>
      /\ ctl'.kind = ctl.kind /\ ctl'.want = ctl.want
  BY AdvanceFacts DEF IInv
<1> QED
  BY <1>1, <1>3, <1>4, QuietStepIInv

(* Taking a living run over.                                               *)
LEMMA TakeOverIInv ==
  ASSUME IInv, TypeOK', TakeOver
  PROVE  IInv'
<1> USE DEF TakeOver, groupVars, diskVars, hostVars
<1>1. step.pc = "takeover" /\ step \in Step /\ rec \in Record /\ startup /\ ~receipt /\ Up
  BY DEF IInv, TypeOK, HostInv
<1>2. Up'
  BY <1>1 DEF Up
<1>3. step' = IdleStep
  BY DEF EndStep, Reconciled
<1>4. rec'.status = rec.status /\ rec'.cancel = rec.cancel
  BY <1>1 DEF Record
<1>5. SubmissionInv'
  BY <1>1, <1>2, StepKeepsSubmission
<1>6. receipt' => startup' = FALSE /\ ctl' = NewControl("adopted") /\ rec'.job = epoch
  BY <1>1 DEF Reconciled, Record
<1>7. HostInv'
  BY <1>2, <1>3, <1>6 DEF HostInv, IdleStep
<1>8. ctl' = ctl \/ ctl' = NoControl \/ ctl' = NewControl("adopted")
  OBVIOUS
<1>9. RequestInv'
  BY <1>3, <1>4, <1>8 DEF IInv, RequestInv, NoControl, NewControl, IdleStep
<1>10. IndexedHasRecord' /\ ExecutingHasDir'
  BY <1>4 DEF IInv, IndexedHasRecord, ExecutingHasDir, Executing
<1>11. ReceiptIsKillable'
  BY <1>6 DEF ReceiptIsKillable, NewControl
<1> QED
  BY <1>5, <1>7, <1>9, <1>10, <1>11 DEF IInv

(* The publication of the terminal record.                                 *)
LEMMA SettleIInv ==
  ASSUME IInv, TypeOK', Settle
  PROVE  IInv'
<1> USE DEF Settle, groupVars, hostVars, ctlVars
<1>1. step.pc = "settle" /\ step \in Step /\ rec \in Record /\ Up
  BY DEF IInv, TypeOK
<1>2. Up'
  BY <1>1 DEF Up
<1>3. step' = IdleStep \/ (step' = [step EXCEPT !.pc = "complete"])
  BY DEF AfterSettle, EndStep, Reconciled, Goto
<1>4. /\ step'.asked => step.asked
      /\ step'.pc \notin {"exit1", "takeover", "cancel", "probe"}
  BY <1>1, <1>3 DEF Step, IdleStep
<1>5. rec'.cancel = rec.cancel /\ rec'.job = rec.job
  BY <1>1 DEF SettledRecord, Record
<1>6. rec' = rec \/ rec'.status \in Terminal
  <2>1. step.exit \in {"zero", "nonzero", "none", "unreadable"}
    BY <1>1 DEF Step, Code
  <2>2. SettledRecord(rec.cancel).status \in Terminal
    BY <1>1, <2>1 DEF SettledRecord, Record, Terminal
  <2> QED
    BY <2>2
<1>7. /\ UNCHANGED <<leader, solver, receipt>>
      /\ ctl' = NoControl \/ (ctl'.kind = ctl.kind /\ ctl'.want = ctl.want)
      /\ receipt => ctl'.kind = ctl.kind
  BY AdvanceFacts DEF AfterSettle, IInv
<1>8. startup' => startup
  BY DEF AfterSettle, Reconciled
<1>9. SubmissionInv'
  BY <1>1, <1>2, <1>7, StepKeepsSubmission
<1>10. HostInv'
  BY <1>2, <1>4, <1>7, <1>8 DEF IInv, HostInv
<1>11. RequestInv'
  BY <1>4, <1>5, <1>7 DEF IInv, RequestInv, NoControl, NewControl
<1>12. IndexedHasRecord' /\ ExecutingHasDir'
  BY <1>6, <1>7 DEF IInv, IndexedHasRecord, ExecutingHasDir, Executing, Terminal
<1>13. ReceiptIsKillable'
  BY <1>5, <1>7 DEF IInv, ReceiptIsKillable, Up
<1> QED
  BY <1>9, <1>10, <1>11, <1>12, <1>13 DEF IInv

(* The request is on disk before the control knows of it.                  *)
LEMMA KillIInv ==
  ASSUME IInv, TypeOK', Kill
  PROVE  IInv'
<1> USE DEF Kill, Requesting, hostVars, stepVars
<1>1. /\ rec \in Record /\ ctl \in Control
      /\ ~InFlight /\ rec.status = "running"
      /\ ctl.kind \in {"local", "adopted"}
  BY DEF IInv, TypeOK
<1>2. /\ rec'.cancel /\ rec'.status = rec.status /\ rec'.job = rec.job
      /\ ctl'.kind = ctl.kind
  BY <1>1 DEF Record, Control
<1>3. sub = "over"
  BY <1>1 DEF InFlight, IInv, SubmissionInv, NoControl, NewControl
<1>4. SubmissionInv'
  BY <1>3 DEF IInv, SubmissionInv, InFlight, Writing, Undoing
<1>5. HostInv'
  BY DEF IInv, HostInv, Up
<1>6. RequestInv'
  BY <1>2 DEF RequestInv
<1>7. IndexedHasRecord' /\ ExecutingHasDir' /\ ReceiptIsKillable'
  BY <1>2 DEF IInv, IndexedHasRecord, ExecutingHasDir, Executing, ReceiptIsKillable, Up
<1> QED
  BY <1>4, <1>5, <1>6, <1>7 DEF IInv

(* The execution goes on by itself: it starts nothing new once it is quiet *)
(* and it comes to life only by a submission.                              *)
LEMMA ExecutionIInv ==
  ASSUME IInv, TypeOK', Execution
  PROVE  IInv'
<1> USE DEF Execution, diskVars, hostVars, faultVars, ctlVars, stepVars
<1>1. /\ leader' # "none" \/ ~solver'
      /\ Executing' => Executing
      /\ leader = "none" => leader' = "none"
  <2> USE DEF Executing, Living, Code
  <2>1. leader = "none" => ~solver
    BY DEF IInv, SubmissionInv
  <2>2. CASE PublishPid \/ PublishExit \/ WrapperExits
    BY <2>1, <2>2 DEF PublishPid, PublishExit, WrapperExits
  <2>3. CASE Deliver
    BY <2>1, <2>3 DEF Deliver
  <2>4. CASE PidReused \/ AlienExits
    BY <2>1, <2>4 DEF PidReused, AlienExits
  <2>5. ASSUME NEW code \in Code, SolverEnds(code)
        PROVE  /\ leader' # "none" \/ ~solver'
               /\ Executing' => Executing
               /\ leader = "none" => leader' = "none"
    BY <2>1, <2>5 DEF SolverEnds
  <2> QED
    BY <2>2, <2>3, <2>4, <2>5 DEF GroupStep
<1>2. SubmissionInv'
  BY <1>1 DEF IInv, SubmissionInv, Up, InFlight
<1>3. HostInv' /\ RequestInv' /\ IndexedHasRecord' /\ ReceiptIsKillable'
  BY DEF IInv, HostInv, RequestInv, IndexedHasRecord, ReceiptIsKillable, Up
<1>4. ExecutingHasDir'
  BY <1>1 DEF IInv, ExecutingHasDir
<1> QED
  BY <1>2, <1>3, <1>4 DEF IInv

(* Every step preserves the inductive invariant.                           *)
LEMMA NextIInv == IInv /\ [Next]_vars => IInv'
<1> SUFFICES ASSUME IInv, [Next]_vars PROVE IInv'
  OBVIOUS
<1>1. TypeOK'
  BY NextType DEF IInv
<1>2. CASE UNCHANGED vars
  BY <1>1, <1>2
  DEF vars, groupVars, diskVars, hostVars, faultVars, ctlVars, stepVars, IInv, SubmissionInv,
      HostInv, RequestInv, IndexedHasRecord, ExecutingHasDir, ReceiptIsKillable, Up, InFlight,
      Executing
<1>3. CASE Next
  BY <1>1, <1>3, SubmissionIInv, HostIInv, SimpleStepIInv, GateIInv, ClassifyIInv,
     FirstReadIInv, SecondReadIInv, AwaitQuietIInv, TakeOverIInv, SettleIInv, KillIInv,
     ExecutionIInv
  DEF Next, StepProgress
<1> QED
  BY <1>2, <1>3

(* The inductive invariant holds in every behaviour.                       *)
THEOREM Invariance == Spec => []IInv
  BY InitIInv, NextIInv, PTL DEF Spec

(* Type correctness of the run, for any number of hosts and of failures.   *)
THEOREM TypeCorrect == Spec => []TypeOK
  BY Invariance, PTL DEF IInv

(* Whoever finds the run in the index finds its record: neither a crash    *)
(* anywhere in the submission nor a rollback that breaks off leaves an     *)
(* entry without one (shud-submissions.ts).                                *)
THEOREM IndexNamesRecord == Spec => []IndexedHasRecord
  BY Invariance, PTL DEF IInv

(* The rollback takes no directory from a group that can still write.      *)
THEOREM DirectoryOutlivesGroup == Spec => []ExecutingHasDir
  BY Invariance, PTL DEF IInv

(* Whoever holds a receipt can kill the run (registry.ts,                  *)
(* shud-submissions.ts, the takeover of shud-poll.ts).                     *)
THEOREM ReceiptKillable == Spec => []ReceiptIsKillable
  BY Invariance, PTL DEF IInv

-----------------------------------------------------------------------------
(* What a step may do.                                                     *)

(* Who can make a signal stronger: the rollback, a kill, a repetition by a *)
(* step that found the requested group active, and the parent's teardown.  *)
LEMMA SignalFrame ==
  ASSUME Next, signal' \notin {signal, "none"}
  PROVE  \/ Abort \/ Kill \/ TeardownCancel
         \/ Blocked /\ (Gate \/ AwaitQuiet \/ Settle)
<1>1. ~Execution
  BY DEF Execution, GroupStep, PublishPid, PublishExit, WrapperExits, Deliver, PidReused,
         AlienExits, SolverEnds, Pending
<1>2. Abort \/ Kill \/ TeardownCancel \/ Gate \/ AwaitQuiet \/ Settle
  BY <1>1
  DEF Next, Submission, StepProgress, groupVars, Prepare, WriteCreated, WriteSubmitted,
      WriteNamed, WriteRunning, WriteRecord, AddActive, Activate, Register, Spawn, Remove,
      SubmissionFails, Quiet, Unindex, RollbackFails, GraceElapses, Dispatch, Begin, Classify,
      FirstRead, SecondRead, ReadExit, Probe, Promote, TakeOver, Complete, StepFails, Start,
      Ready, Dispose, CloseStore, Crash, HostGone
<1>3. Gate \/ AwaitQuiet \/ Settle => Blocked
  BY DEF Gate, AwaitQuiet, Settle, AfterSettle, groupVars
<1> QED
  BY <1>2, <1>3

(* Only Settle makes a record terminal.                                    *)
LEMMA TerminalFrame ==
  ASSUME TypeOK, Next, rec'.status # rec.status, rec'.status \in Terminal
  PROVE  Settle
<1>1. rec \in Record
  BY DEF TypeOK
<1>2. ~(WriteCreated \/ WriteSubmitted \/ WriteNamed \/ WriteRunning)
  BY DEF WriteCreated, WriteSubmitted, WriteNamed, WriteRunning, WriteRecord, Drafted,
         NoRecord, Terminal
<1>3. ~Remove
  BY DEF Remove, NoRecord, Terminal
<1>4. ~Kill /\ ~TakeOver /\ ~Promote
  BY <1>1 DEF Kill, Requesting, TakeOver, Promote, Record, Terminal
<1> QED
  BY <1>2, <1>3, <1>4, RecordFrame

(* No terminal record while the group of a cancellation this host controls *)
(* can still perform I/O (the repeated advance() of settle, shud-poll.ts). *)
THEOREM SettledIsQuiet == Spec => SettledQuiet
<1>1. IInv /\ [Next]_vars =>
        [rec.status # rec'.status /\ rec'.status \in Terminal /\ Requested => ~GroupActive]_vars
  <2> SUFFICES ASSUME IInv, Next, rec.status # rec'.status, rec'.status \in Terminal, Requested
               PROVE  ~GroupActive
    OBVIOUS
  <2>1. Settle
    BY TerminalFrame DEF IInv
  <2>2. ~Blocked /\ ~Stopped
    BY <2>1 DEF Settle
  <2> QED
    BY <2>2 DEF Blocked, Stopped
<1> QED
  BY <1>1, Invariance, PTL DEF Spec, SettledQuiet

(* No signal without a durable request, except by the rollback: closing or *)
(* reloading a host leaves its runs alone (CONTEXT.md, invariant 13).      *)
THEOREM SignalsRequested == Spec => SignalsNeedRequest
<1>1. IInv /\ [Next]_vars =>
        [signal' \notin {signal, "none"} => rec'.cancel \/ sub = "failed"]_vars
  <2> SUFFICES ASSUME IInv, Next, signal' \notin {signal, "none"}
               PROVE  rec'.cancel \/ sub = "failed"
    OBVIOUS
  <2>1. rec \in Record /\ (ctl.want => rec.cancel)
    BY DEF IInv, TypeOK, RequestInv
  <2>2. CASE Abort
    BY <2>2 DEF Abort, Submitting
  <2>3. CASE Kill
    BY <2>1, <2>3 DEF Kill, Requesting, Record
  <2>4. CASE TeardownCancel
    BY <2>1, <2>4 DEF TeardownCancel, diskVars
  <2>5. CASE Blocked /\ (Gate \/ AwaitQuiet \/ Settle)
    BY <2>1, <2>5 DEF Blocked, Requested, Gate, AwaitQuiet, Settle, diskVars
  <2> QED
    BY <2>2, <2>3, <2>4, <2>5, SignalFrame
<1> QED
  BY <1>1, Invariance, PTL DEF Spec, SignalsNeedRequest

(* A process that was given the wrapper's pid later is never signalled, as *)
(* long as the record identifies the wrapper (process-group.ts).           *)
THEOREM ForeignersSpared == Spec => NoForeignSignal
<1>1. [Next]_vars =>
        [signal' \notin {signal, "none"} /\ rec.pid # "alien" => leader # "alien"]_vars
  <2> SUFFICES ASSUME Next, signal' \notin {signal, "none"}, rec.pid # "alien"
               PROVE  leader # "alien"
    OBVIOUS
  <2>1. ~Unproven
    BY SignalFrame DEF Abort, Kill, TeardownCancel, Blocked
  <2> QED
    BY <2>1 DEF Unproven
<1> QED
  BY <1>1, PTL DEF Spec, NoForeignSignal

(* What the two invariants, and the two rules for signals, say together of  *)
(* a run that executes or was promised (registry.ts, process-group.ts).     *)
THEOREM StaysWithinReach == Spec => []RunWithinReach
  BY DirectoryOutlivesGroup, ReceiptKillable, PTL DEF RunWithinReach

THEOREM SignalsAreJustified == Spec => SignalsJustified
  BY SignalsRequested, ForeignersSpared, PTL DEF SignalsJustified

-----------------------------------------------------------------------------
(* The outcome of a run: exit evidence wins, and the durable record lives  *)
(* the life of RunLifecycle whatever hosts come and go.  The argument      *)
(* follows one step from its first read to the settlement: the status it   *)
(* has seen is still the record's (SnapshotInv), and what it has read and  *)
(* probed is still true when it settles (EvidenceInv).                     *)

(* What the record says while a submission or a step is busy with it.      *)
Early == {"absent", "created", "submitted"}
RecordInv ==
  /\ rec.pid # "none" \/ rec.cancel => rec.status \notin Early
  /\ sub \in {"idle", "prepared"} => rec.status = "absent"
  /\ InFlight => ~rec.cancel /\ rec.status \in Early \cup {"running"}
  /\ InFlight /\ sub # "written" => rec.status \in Early

(* A step decides on the status it has seen: nobody else moves it.         *)
SnapshotInv ==
  /\ step.pc \in {"gate", "exit1", "probe", "cancel", "exit2", "settle"} => step.seen = rec.status
  /\ step.pc \in {"exit1", "probe", "exit2", "settle"} =>
       rec.status \in {"created", "submitted", "running"}
  /\ step.pc \in {"takeover", "cancel"} => rec.status = "running"

(* What a step has found out about the execution stays true until it       *)
(* settles: a code is published once, by a wrapper that then only ends,    *)
(* and a wrapper found dead does not publish.                              *)
EvidenceInv ==
  /\ exitFile # "none" => leader \in {"ending", "gone", "alien", "vacated"}
  /\ ctl.kind = "recovered" \/ step.pc = "cancel" => ctl.want
  /\ step.exit = "unreadable" => misread
  /\ step.exit \in Code => exitFile = step.exit
  /\ (step.pc = "exit2" \/ (step.pc = "settle" /\ step.exit = "none")) /\ rec.pid = "own" =>
       leader \notin Living
  /\ step.pc = "settle" /\ step.exit = "none" /\ rec.pid = "own" => exitFile = "none"

EInv == IInv /\ RecordInv /\ SnapshotInv /\ EvidenceInv /\ ExitEvidenceWins

-----------------------------------------------------------------------------
(* The submission has no step and no terminal record beside it.            *)
LEMMA SubmissionEvidence ==
  ASSUME EInv, IInv', Prepare \/ Submission \/ SubmissionFails
  PROVE  (RecordInv /\ SnapshotInv /\ EvidenceInv /\ ExitEvidenceWins)'
<1> USE DEF EInv, RecordInv, SnapshotInv, EvidenceInv, ExitEvidenceWins, IInv, TypeOK,
        SubmissionInv, HostInv, Up, InFlight, Writing, Undoing, Early, GroupActive, Executing,
        Living, Terminal, Code, groupVars, diskVars, hostVars, faultVars, ctlVars, stepVars,
        NoRecord, NoControl, NewControl, IdleStep, Record, Control, Step
<1>1. CASE Prepare
  BY <1>1 DEF Prepare, Submitting
<1>2. CASE WriteCreated
  BY <1>2 DEF WriteCreated, WriteRecord, Submitting, Drafted
<1>3. CASE AddActive
  BY <1>3 DEF AddActive, Submitting
<1>4. CASE WriteSubmitted
  BY <1>4 DEF WriteSubmitted, WriteRecord, Submitting, Drafted
<1>5. CASE Register
  BY <1>5 DEF Register, Spawn, Fault, NewControl
<1>6. CASE WriteNamed
  BY <1>6 DEF WriteNamed, WriteRecord, Submitting, Drafted
<1>7. CASE WriteRunning
  BY <1>7 DEF WriteRunning, WriteRecord, Submitting, Drafted
<1>8. CASE Activate
  BY <1>8 DEF Activate, Submitting
<1>9. CASE SubmissionFails
  BY <1>9 DEF SubmissionFails, Fault
<1>10. CASE Abort
  BY <1>10 DEF Abort, Submitting
<1>11. CASE Quiet
  BY <1>11 DEF Quiet, Submitting
<1>12. CASE Unindex
  BY <1>12 DEF Unindex, Submitting
<1>13. CASE Remove
  BY <1>13 DEF Remove, Submitting
<1>14. CASE RollbackFails
  BY <1>14 DEF RollbackFails, Fault
<1> QED
  BY <1>1, <1>2, <1>3, <1>4, <1>5, <1>6, <1>7, <1>8, <1>9, <1>10, <1>11, <1>12, <1>13, <1>14 DEF Submission

(* Requests, hosts and time.                                              *)
LEMMA HostEvidence ==
  ASSUME EInv, IInv', Kill \/ Start \/ Ready \/ Dispose
                       \/ TeardownCancel \/ CloseStore \/ Crash \/ GraceElapses
  PROVE  (RecordInv /\ SnapshotInv /\ EvidenceInv /\ ExitEvidenceWins)'
<1> USE DEF EInv, RecordInv, SnapshotInv, EvidenceInv, ExitEvidenceWins, IInv, TypeOK,
        SubmissionInv, HostInv, Up, InFlight, Writing, Undoing, Early, GroupActive, Executing,
        Living, Terminal, Code, groupVars, diskVars, hostVars, faultVars, ctlVars, stepVars,
        NoRecord, NoControl, NewControl, IdleStep, Record, Control, Step
<1>1. CASE Kill
  BY <1>1, ZenonT(60) DEF Kill, Requesting, Stronger
<1>2. CASE Start
  BY <1>2 DEF Start
<1>3. CASE Ready
  BY <1>3 DEF Ready
<1>4. CASE Dispose
  BY <1>4 DEF Dispose
<1>5. CASE TeardownCancel
  BY <1>5 DEF TeardownCancel, Stronger
<1>6. CASE CloseStore
  BY <1>6 DEF CloseStore, HostGone
<1>7. CASE Crash
  BY <1>7 DEF Crash, HostGone
<1>8. CASE GraceElapses
  BY <1>8 DEF GraceElapses
<1> QED
  BY <1>1, <1>2, <1>3, <1>4, <1>5, <1>6, <1>7, <1>8

(* The steps of the poll that find nothing out.                            *)
LEMMA SimpleStepEvidence ==
  ASSUME EInv, IInv', Dispatch \/ Begin \/ Promote \/ Complete \/ StepFails
  PROVE  (RecordInv /\ SnapshotInv /\ EvidenceInv /\ ExitEvidenceWins)'
<1> USE DEF EInv, RecordInv, SnapshotInv, EvidenceInv, ExitEvidenceWins, IInv, TypeOK,
        SubmissionInv, HostInv, Up, InFlight, Writing, Undoing, Early, GroupActive, Executing,
        Living, Terminal, Code, groupVars, diskVars, hostVars, faultVars, ctlVars, stepVars,
        NoRecord, NoControl, NewControl, IdleStep, Record, Control, Step
<1>1. CASE Dispatch
  BY <1>1 DEF Dispatch, Goto
<1>2. CASE Begin
  BY <1>2 DEF Begin
<1>3. CASE Promote
  <2>1. step \in Step /\ step.pc = "probe" /\ rec \in Record /\ rec.status = step.seen
        /\ step.seen = "submitted"
    BY <1>3 DEF Promote
  <2>2. \/ /\ rec' = [rec EXCEPT !.status = "running",
                                  !.pid = IF leader = "alien" THEN "alien" ELSE "own"]
           /\ step' = [step EXCEPT !.pc = "takeover"]
        \/ ~(wrapperPid /\ leader \in Living) /\ rec' = rec /\ step' = [step EXCEPT !.pc = "exit2"]
    BY <1>3 DEF Promote, Goto
  <2>3. \/ /\ rec'.status = "running" /\ rec'.cancel = rec.cancel
           /\ step'.pc = "takeover"
        \/ ~(wrapperPid /\ leader \in Living) /\ rec' = rec /\ step'.pc = "exit2"
    BY <2>1, <2>2, ZenonT(90)
  <2>4. step'.seen = step.seen /\ step'.exit = step.exit
    BY <2>1, <2>2
  <2>5. UNCHANGED <<leader, exitFile, misread, ctl, sub>>
    BY <1>3 DEF Promote
  <2>6. RecordInv'
    BY <2>1, <2>3, <2>5
  <2>7. SnapshotInv'
    BY <2>1, <2>3, <2>4
  <2>8. rec.pid = "none"
    BY <2>1
  <2>9. EvidenceInv'
    BY <2>1, <2>3, <2>4, <2>5, <2>8
  <2>10. ExitEvidenceWins'
    BY <2>1, <2>3, <2>5
  <2> QED
    BY <2>6, <2>7, <2>9, <2>10
<1>4. CASE Complete
  BY <1>4 DEF Complete, Reconciled, EndStep
<1>5. CASE StepFails
  BY <1>5 DEF StepFails, EndStep, Fault
<1> QED
  BY <1>1, <1>2, <1>3, <1>4, <1>5

(* What a step passes on when it looks at nothing new: a step that goes on *)
(* to settle without evidence does so only for a record without a pid.     *)
LEMMA SameEvidence ==
  ASSUME EInv, UNCHANGED <<leader, exitFile, rec, misread>>,
         ctl' = NoControl \/ (ctl'.kind = ctl.kind /\ ctl'.want = ctl.want),
         step'.exit \in {step.exit, "none"},
         step'.pc # "cancel",
         step'.pc \in {"exit2", "settle"} => rec.pid # "own"
  PROVE  EvidenceInv' /\ ExitEvidenceWins'
<1>1. EvidenceInv'
  BY DEF EInv, EvidenceInv, NoControl, NewControl, Code
<1>2. ExitEvidenceWins'
  BY DEF EInv, ExitEvidenceWins
<1> QED
  BY <1>1, <1>2

(* The gates.                                                              *)
LEMMA GateEvidence ==
  ASSUME EInv, IInv', Gate
  PROVE  (RecordInv /\ SnapshotInv /\ EvidenceInv /\ ExitEvidenceWins)'
<1> USE DEF Gate, groupVars, diskVars, hostVars, faultVars, ctlVars
<1>1. step \in Step /\ step.pc = "gate"
  BY DEF EInv, IInv, TypeOK
<1>2. \/ step' = IdleStep
      \/ step' = [step EXCEPT !.pc = "exit1"] /\ step.seen = "running"
      \/ step' = [step EXCEPT !.pc = "complete"]
  BY DEF EndStep, Goto
<1>3. /\ step'.exit \in {step.exit, "none"}
      /\ step'.pc \in {"idle", "exit1", "complete"}
      /\ step'.pc = "exit1" => step'.seen = step.seen /\ step.seen = "running"
  BY <1>1, <1>2 DEF Step, IdleStep
<1>4. /\ UNCHANGED <<leader, exitFile>>
      /\ ctl' = NoControl \/ (ctl'.kind = ctl.kind /\ ctl'.want = ctl.want)
  BY AdvanceFacts DEF EInv, IInv, Advance
<1>5. RecordInv'
  BY DEF EInv, RecordInv, InFlight
<1>6. SnapshotInv'
  BY <1>1, <1>3 DEF EInv, SnapshotInv
<1>7. EvidenceInv' /\ ExitEvidenceWins'
  BY <1>3, <1>4, SameEvidence
<1> QED
  BY <1>5, <1>6, <1>7

(* A start-up step chooses its rule.                                       *)
LEMMA ClassifyEvidence ==
  ASSUME EInv, IInv', Classify
  PROVE  (RecordInv /\ SnapshotInv /\ EvidenceInv /\ ExitEvidenceWins)'
<1> USE DEF Classify, groupVars, diskVars, hostVars, faultVars, ctlVars
<1>1. step \in Step /\ step.pc = "gate" /\ step.seen = rec.status
  BY DEF EInv, IInv, TypeOK, SnapshotInv
<1>2. \/ step' = IdleStep
      \/ step' = [step EXCEPT !.pc = "settle"] /\ step.seen = "created"
      \/ step' = [step EXCEPT !.pc = "exit1"] /\ step.seen \in {"submitted", "running"}
  BY DEF Reconciled, EndStep, Goto
<1>3. /\ step'.exit \in {step.exit, "none"}
      /\ step'.pc \in {"idle", "exit1", "settle"}
      /\ step'.pc # "idle" => step'.seen = step.seen
      /\ step'.pc = "exit1" => step.seen \in {"submitted", "running"}
      /\ step'.pc = "settle" => step.seen = "created"
  BY <1>1, <1>2 DEF Step, IdleStep
<1>4. step'.pc = "settle" => rec.pid # "own"
  BY <1>1, <1>3 DEF EInv, RecordInv, Early
<1>5. RecordInv'
  BY DEF EInv, RecordInv, InFlight
<1>6. SnapshotInv'
  BY <1>1, <1>3 DEF SnapshotInv
<1>7. EvidenceInv' /\ ExitEvidenceWins'
  BY <1>3, <1>4, SameEvidence
<1> QED
  BY <1>5, <1>6, <1>7

(* Reading exit_code.                                                      *)
LEMMA ReadEvidence ==
  ASSUME EInv, IInv', FirstRead \/ SecondRead
  PROVE  (RecordInv /\ SnapshotInv /\ EvidenceInv /\ ExitEvidenceWins)'
<1> USE DEF FirstRead, SecondRead, ReadExit, groupVars, diskVars, hostVars, ctlVars
<1>1. step \in Step /\ step.pc \in {"exit1", "exit2"} /\ exitFile \in Code \cup {"none"}
  BY DEF EInv, IInv, TypeOK, GroupTypeOK
<1>2. /\ step'.seen = step.seen
      /\ \/ /\ step'.exit = exitFile /\ misread' = misread
            /\ \/ step'.pc = "settle" /\ (step.pc = "exit2" \/ exitFile # "none")
               \/ step'.pc = "probe"
         \/ step'.exit = "unreadable" /\ misread' /\ step'.pc = "settle"
  BY <1>1 DEF Step, faultVars
<1>3. step.seen = rec.status /\ rec.status \in {"created", "submitted", "running"}
  BY <1>1 DEF EInv, SnapshotInv
<1>4. RecordInv'
  BY DEF EInv, RecordInv, InFlight
<1>5. SnapshotInv'
  BY <1>2, <1>3 DEF SnapshotInv
<1>6. EvidenceInv'
  BY <1>1, <1>2 DEF EInv, EvidenceInv, Code
<1>7. ExitEvidenceWins'
  BY <1>3 DEF ExitEvidenceWins, Terminal
<1> QED
  BY <1>4, <1>5, <1>6, <1>7

(* Looking at the process: a dead leader, and only a dead one, leads to    *)
(* the second reading.                                                     *)
LEMMA ProbeEvidence ==
  ASSUME EInv, IInv', Probe
  PROVE  (RecordInv /\ SnapshotInv /\ EvidenceInv /\ ExitEvidenceWins)'
<1> USE DEF Probe, groupVars, diskVars, hostVars, faultVars
<1>1. /\ step \in Step /\ step.pc = "probe" /\ step.seen = "running" /\ rec.status = "running"
      /\ step.exit = "unreadable" => misread
      /\ step.exit \in Code => exitFile = step.exit
  BY DEF EInv, IInv, TypeOK, SnapshotInv, EvidenceInv
<1>2. \/ step' = IdleStep
      \/ step' = [step EXCEPT !.pc = "exit2"] /\ ~LeaderMatches
      \/ step' = [step EXCEPT !.pc = "takeover"]
      \/ step' = [step EXCEPT !.pc = "cancel"] /\ ctl'.want
  BY DEF EndStep, Goto, EInv, EvidenceInv, NewControl
<1>3. /\ step'.pc \in {"idle", "exit2", "takeover", "cancel"}
      /\ step'.exit \in {step.exit, "none"}
      /\ step'.pc # "idle" => step'.seen = step.seen
      /\ step'.pc = "exit2" => ~LeaderMatches
      /\ step'.pc = "cancel" => ctl'.want
  BY <1>1, <1>2 DEF Step, IdleStep
<1>4. ctl'.kind = "recovered" => ctl'.want
  BY DEF EInv, EvidenceInv, NewControl
<1>5. RecordInv'
  BY DEF EInv, RecordInv, InFlight
<1>6. SnapshotInv'
  BY <1>1, <1>3 DEF SnapshotInv
<1>7. EvidenceInv'
  BY <1>1, <1>3, <1>4 DEF EInv, EvidenceInv, LeaderMatches, Code
<1>8. ExitEvidenceWins'
  BY <1>1 DEF ExitEvidenceWins, Terminal
<1> QED
  BY <1>5, <1>6, <1>7, <1>8

(* Waiting for the group: once it is quiet its leader is dead.             *)
LEMMA AwaitQuietEvidence ==
  ASSUME EInv, IInv', AwaitQuiet
  PROVE  (RecordInv /\ SnapshotInv /\ EvidenceInv /\ ExitEvidenceWins)'
<1> USE DEF AwaitQuiet, groupVars, diskVars, hostVars, faultVars, ctlVars
<1>1. /\ step \in Step /\ step.pc = "cancel" /\ step.seen = rec.status /\ rec.status = "running"
      /\ ctl.want
      /\ step.exit = "unreadable" => misread
      /\ step.exit \in Code => exitFile = step.exit
  BY DEF EInv, IInv, TypeOK, SnapshotInv, EvidenceInv
<1>2. \/ step' = step
      \/ step' = IdleStep
      \/ step' = [step EXCEPT !.pc = "exit2"] /\ ~Blocked /\ ~Stopped
  BY DEF EndStep, Goto
<1>3. /\ step'.pc \in {"idle", "cancel", "exit2"}
      /\ step'.exit \in {step.exit, "none"}
      /\ step'.pc # "idle" => step'.seen = step.seen
      /\ step'.pc = "exit2" => ~Blocked /\ ~Stopped
  BY <1>1, <1>2 DEF Step, IdleStep
<1>4. ctl'.want /\ UNCHANGED <<leader, exitFile>>
  BY <1>1, AdvanceFacts DEF EInv, IInv, Advance
<1>5. step'.pc = "exit2" => leader \notin Living
  BY <1>1, <1>3 DEF Blocked, Stopped, Requested, GroupActive, Executing
<1>6. RecordInv'
  BY DEF EInv, RecordInv, InFlight
<1>7. SnapshotInv'
  BY <1>1, <1>3 DEF SnapshotInv
<1>8. EvidenceInv'
  BY <1>1, <1>3, <1>4, <1>5 DEF EInv, EvidenceInv, Code
<1>9. ExitEvidenceWins'
  BY <1>1 DEF ExitEvidenceWins, Terminal
<1> QED
  BY <1>6, <1>7, <1>8, <1>9

(* A takeover changes nobody's evidence.                                   *)
LEMMA TakeOverEvidence ==
  ASSUME EInv, IInv', TakeOver
  PROVE  (RecordInv /\ SnapshotInv /\ EvidenceInv /\ ExitEvidenceWins)'
<1> USE DEF TakeOver, groupVars, diskVars, hostVars
<1>1. step.pc = "takeover" /\ rec \in Record /\ rec.status = "running"
  BY DEF EInv, IInv, TypeOK, SnapshotInv
<1>2. /\ rec'.status = rec.status /\ rec'.pid = rec.pid /\ rec'.cancel = rec.cancel
      /\ rec'.code = rec.code
  BY <1>1 DEF Record
<1>3. step' = IdleStep
  BY DEF EndStep, Reconciled
<1>4. ctl' = ctl \/ ctl' = NoControl \/ ctl' = NewControl("adopted")
  OBVIOUS
<1>5. RecordInv'
  BY <1>2 DEF EInv, RecordInv, InFlight
<1>6. SnapshotInv'
  BY <1>3 DEF SnapshotInv, IdleStep
<1>7. EvidenceInv'
  BY <1>3, <1>4 DEF EInv, EvidenceInv, NoControl, NewControl, IdleStep, Code
<1>8. ExitEvidenceWins'
  BY <1>1, <1>2 DEF ExitEvidenceWins, Terminal
<1> QED
  BY <1>5, <1>6, <1>7, <1>8

(* The settlement uses what the step has found out.                        *)
LEMMA SettleEvidence ==
  ASSUME EInv, IInv', Settle
  PROVE  (RecordInv /\ SnapshotInv /\ EvidenceInv /\ ExitEvidenceWins)'
<1> USE DEF Settle, groupVars, hostVars, faultVars, ctlVars
<1>1. /\ step \in Step /\ step.pc = "settle" /\ rec \in Record /\ sub = "over"
      /\ rec.status \in {"created", "submitted", "running"}
  BY StepKeepsSubmission DEF EInv, IInv, TypeOK, SnapshotInv, SubmissionInv, InFlight, IdleStep
<1>2. step.exit \in Code \cup {"none", "unreadable"}
  BY <1>1 DEF Step
<1>3. \/ rec' = rec
      \/ /\ rec'.status \in Terminal /\ rec'.pid = rec.pid
         /\ rec'.code = IF step.exit \in Code THEN step.exit ELSE "none"
  BY <1>1, <1>2 DEF SettledRecord, Record, Terminal, Code
<1>4. rec'.cancel = rec.cancel /\ rec'.pid = rec.pid
  BY <1>1 DEF SettledRecord, Record
<1>5. step' = IdleStep \/ step' = [step EXCEPT !.pc = "complete"]
  BY DEF AfterSettle, EndStep, Reconciled, Goto
<1>6. step'.pc \in {"idle", "complete"} /\ step'.exit \in {step.exit, "none"}
  BY <1>1, <1>5 DEF Step, IdleStep
<1>7. /\ UNCHANGED <<leader, exitFile>>
      /\ ctl' = NoControl \/ (ctl'.kind = ctl.kind /\ ctl'.want = ctl.want)
  BY AdvanceFacts DEF EInv, IInv, AfterSettle, Advance
<1>8. RecordInv'
  BY <1>1, <1>3, <1>4 DEF EInv, RecordInv, InFlight, Early, Terminal
<1>9. SnapshotInv'
  BY <1>6 DEF SnapshotInv
<1>10. EvidenceInv'
  BY <1>6, <1>7 DEF EInv, EvidenceInv, NoControl, NewControl, Code
<1>11. ExitEvidenceWins'
  BY <1>1, <1>2, <1>3, <1>7 DEF EInv, EvidenceInv, ExitEvidenceWins, Terminal, Code
<1> QED
  BY <1>8, <1>9, <1>10, <1>11

(* The execution publishes its code once, and a dead leader stays dead.    *)
LEMMA ExecutionEvidence ==
  ASSUME EInv, IInv', Execution
  PROVE  (RecordInv /\ SnapshotInv /\ EvidenceInv /\ ExitEvidenceWins)'
<1> USE DEF Execution, diskVars, hostVars, faultVars, ctlVars, stepVars
<1>1. /\ leader \notin Living => leader' \notin Living /\ exitFile' = exitFile
      /\ exitFile # "none" => exitFile' = exitFile
      /\ exitFile' # "none" => leader' \in {"ending", "gone", "alien", "vacated"}
  <2> USE DEF EInv, EvidenceInv, Living, Code
  <2>1. CASE PublishPid \/ PublishExit \/ WrapperExits
    BY <2>1 DEF PublishPid, PublishExit, WrapperExits
  <2>2. CASE Deliver
    BY <2>2 DEF Deliver
  <2>3. CASE PidReused \/ AlienExits
    BY <2>3 DEF PidReused, AlienExits
  <2>4. ASSUME NEW code \in Code, SolverEnds(code)
        PROVE  /\ leader \notin Living => leader' \notin Living /\ exitFile' = exitFile
               /\ exitFile # "none" => exitFile' = exitFile
               /\ exitFile' # "none" => leader' \in {"ending", "gone", "alien", "vacated"}
    BY <2>4 DEF SolverEnds
  <2> QED
    BY <2>1, <2>2, <2>3, <2>4 DEF GroupStep
<1>2. RecordInv' /\ SnapshotInv'
  BY DEF EInv, RecordInv, SnapshotInv, InFlight
<1>3. EvidenceInv'
  BY <1>1 DEF EInv, EvidenceInv, Code
<1>4. rec.code \in Code \cup {"none"}
  BY DEF EInv, IInv, TypeOK, Record
<1>5. ExitEvidenceWins'
  BY <1>1, <1>4 DEF EInv, ExitEvidenceWins, Code
<1> QED
  BY <1>2, <1>3, <1>5

(* Every step preserves what steps and records know of the execution.      *)
LEMMA NextEInv == EInv /\ [Next]_vars => EInv'
<1> SUFFICES ASSUME EInv, [Next]_vars PROVE EInv'
  OBVIOUS
<1>1. IInv'
  BY NextIInv DEF EInv
<1>2. CASE UNCHANGED vars
  BY <1>1, <1>2
  DEF vars, groupVars, diskVars, hostVars, faultVars, ctlVars, stepVars, EInv, RecordInv,
      SnapshotInv, EvidenceInv, ExitEvidenceWins, InFlight
<1>3. CASE Next
  BY <1>1, <1>3, SubmissionEvidence, HostEvidence, SimpleStepEvidence, GateEvidence,
     ClassifyEvidence, ReadEvidence, ProbeEvidence, AwaitQuietEvidence, TakeOverEvidence,
     SettleEvidence, ExecutionEvidence
  DEF EInv, Next, StepProgress
<1> QED
  BY <1>2, <1>3

(* Before the first host nothing is known of the execution.                *)
LEMMA InitEInv == Init => EInv
<1> SUFFICES ASSUME Init PROVE EInv
  OBVIOUS
<1>1. IInv
  BY InitIInv
<1>2. RecordInv /\ SnapshotInv
  BY DEF Init, RecordInv, SnapshotInv, InFlight, Early, NoRecord, IdleStep
<1>3. EvidenceInv
  BY DEF Init, GroupInit, EvidenceInv, NoControl, NewControl, IdleStep, Code
<1>4. ExitEvidenceWins
  BY DEF Init, ExitEvidenceWins, NoRecord, Terminal
<1> QED
  BY <1>1, <1>2, <1>3, <1>4 DEF EInv

(* What steps and records know of the execution holds in every behaviour.  *)
THEOREM EvidenceInvariance == Spec => []EInv
  BY InitEInv, NextEInv, PTL DEF Spec

(* Exit evidence wins: the record of a promised run says what its wrapper  *)
(* published, and calls it lost or cancelled only if the wrapper died      *)
(* without publishing (settle in shud-poll.ts, Park_Resume_Design 8).      *)
THEOREM EvidenceWins == Spec => []ExitEvidenceWins
  BY EvidenceInvariance, PTL DEF EInv

-----------------------------------------------------------------------------
(* The run implements the life its record promises.                        *)

(* The stage tells the statuses before the outcome apart.                  *)
LEMMA StageFacts ==
  ASSUME EInv
  PROVE  /\ rec.status = "absent" <=> LifecycleStage = "none"
         /\ rec.status \in {"created", "submitted"} <=> LifecycleStage = "pending"
         /\ rec.status = "running" <=> LifecycleStage = "running"
<1>1. rec.status \in Status
  BY DEF EInv, IInv, TypeOK, Record
<1> QED
  BY <1>1 DEF LifecycleStage, Status, Terminal

(* A step that keeps status, code and request of the record is a stutter,  *)
(* because no step misreads the code of a settled run.                     *)
LEMMA QuietLifecycle ==
  ASSUME EInv, Next, rec'.status = rec.status, rec'.code = rec.code, rec'.cancel = rec.cancel
  PROVE  UNCHANGED <<LifecycleStage, rec.cancel>>
<1>1. misread' # misread => rec.status \notin Terminal
  <2>1. misread' # misread => FirstRead \/ SecondRead
    BY DEF Next, Submission, StepProgress, faultVars, Prepare, WriteCreated, WriteSubmitted,
           WriteNamed, WriteRunning, WriteRecord, AddActive, Activate, Register, Remove, Kill,
           Requesting, SubmissionFails, Abort, Quiet, Unindex, RollbackFails, GraceElapses,
           Dispatch, Begin, Gate, Classify, Probe, Promote, TakeOver, AwaitQuiet, Settle,
           Complete, StepFails, Start, Ready, Dispose, TeardownCancel, CloseStore, Crash,
           HostGone, Execution
  <2>2. FirstRead \/ SecondRead => step.pc \in {"exit1", "exit2"}
    BY DEF FirstRead, SecondRead
  <2> QED
    BY <2>1, <2>2 DEF EInv, SnapshotInv, Terminal
<1> QED
  BY <1>1 DEF LifecycleStage, Terminal

(* Every step is a step of the life, or none.                              *)
LEMMA LifecycleStep ==
  ASSUME EInv, EInv', Next
  PROVE  [Lifecycle!LifecycleNext]_(Lifecycle!lvars)
<1> USE DEF Lifecycle!LifecycleNext, Lifecycle!lvars, Lifecycle!Accept, Lifecycle!Withdraw,
        Lifecycle!Run, Lifecycle!Ask, Lifecycle!End, Lifecycle!Outcome
<1>1. rec \in Record /\ rec' \in Record
  BY DEF EInv, IInv, TypeOK
<1>2. CASE rec'.status = rec.status /\ rec'.code = rec.code /\ rec'.cancel = rec.cancel
  BY <1>2, QuietLifecycle
<1>3. CASE WriteCreated \/ WriteSubmitted \/ WriteNamed
  <2>1. /\ rec'.status \in {"created", "submitted"} /\ ~rec'.cancel
        /\ rec.status \in Early /\ ~rec.cancel
    BY <1>3 DEF WriteCreated, WriteSubmitted, WriteNamed, WriteRecord, Submitting, Drafted,
           NoRecord, EInv, RecordInv, InFlight
  <2>2. LifecycleStage' = "pending" /\ LifecycleStage \in {"none", "pending"}
    BY <2>1, StageFacts DEF LifecycleStage, Early, Terminal
  <2> QED
    BY <1>1, <2>1, <2>2 DEF Record
<1>4. CASE WriteRunning
  <2>1. /\ rec'.status = "running" /\ ~rec'.cancel
        /\ rec.status \in {"created", "submitted"} /\ ~rec.cancel
    BY <1>4 DEF WriteRunning, WriteRecord, Submitting, Drafted, NoRecord, EInv, RecordInv,
           InFlight, IInv, SubmissionInv, Writing, Early
  <2>2. LifecycleStage' = "running" /\ LifecycleStage = "pending"
    BY <2>1, StageFacts DEF LifecycleStage, Terminal
  <2> QED
    BY <1>1, <2>1, <2>2 DEF Record
<1>5. CASE Remove
  <2>1. /\ rec'.status = "absent" /\ ~rec'.cancel
        /\ rec.status \in Early /\ ~rec.cancel
    BY <1>5 DEF Remove, Submitting, NoRecord, EInv, RecordInv, InFlight
  <2>2. LifecycleStage' = "none" /\ LifecycleStage \in {"none", "pending"}
    BY <2>1, StageFacts DEF LifecycleStage, Early, Terminal
  <2> QED
    BY <1>1, <2>1, <2>2 DEF Record
<1>6. CASE Kill
  <2>1. rec.status = "running" /\ rec'.status = "running" /\ rec'.cancel = TRUE
    BY <1>1, <1>6 DEF Kill, Requesting, Record
  <2>2. LifecycleStage' = "running" /\ LifecycleStage = "running"
    BY <2>1, StageFacts DEF LifecycleStage, Terminal
  <2> QED
    BY <2>1, <2>2
<1>7. CASE Promote
  <2>1. CASE rec' = rec
    BY <1>2, <2>1
  <2>2. CASE rec' # rec
    <3>1. rec'.status = "running" /\ rec.status = "submitted" /\ rec'.cancel = rec.cancel
      BY <1>1, <1>7, <2>2 DEF Promote, Record, EInv, SnapshotInv
    <3>2. LifecycleStage' = "running" /\ LifecycleStage = "pending"
      BY <3>1, StageFacts DEF LifecycleStage, Terminal
    <3> QED
      BY <3>1, <3>2
  <2> QED
    BY <2>1, <2>2
<1>8. CASE TakeOver
  <2>1. rec'.status = rec.status /\ rec'.code = rec.code /\ rec'.cancel = rec.cancel
    BY <1>1, <1>8 DEF TakeOver, Record
  <2> QED
    BY <1>2, <2>1
<1>9. CASE Settle
  <2>1. CASE rec' = rec
    BY <1>2, <2>1
  <2>2. CASE rec' # rec
    <3>1. /\ rec' = SettledRecord(rec.cancel) /\ misread' = misread
          /\ step \in Step /\ step.pc = "settle"
      BY <1>9, <2>2 DEF Settle, faultVars, EInv, IInv, TypeOK
    <3>2. /\ rec.status \in {"created", "submitted", "running"}
          /\ step.exit = "unreadable" => misread
      BY <3>1 DEF EInv, SnapshotInv, EvidenceInv
    <3>3. step.exit \in {"zero", "nonzero", "none", "unreadable"}
      BY <3>1 DEF Step, Code
    <3>4. /\ rec'.cancel = rec.cancel
          /\ rec'.status = CASE step.exit = "zero" -> "succeeded"
                             [] step.exit \in {"nonzero", "unreadable"} -> "failed"
                             [] step.exit = "none" -> IF rec.cancel THEN "cancelled" ELSE "failed"
          /\ rec'.code = IF step.exit \in Code THEN step.exit ELSE "none"
      BY <1>1, <3>1 DEF SettledRecord, Record
    <3>5. LifecycleStage \in {"pending", "running"}
      BY <3>2, StageFacts
    <3>6. /\ LifecycleStage' \in Lifecycle!Outcome
          /\ LifecycleStage' = "cancelled" => rec.cancel
          /\ LifecycleStage' = "lost" => ~rec.cancel
      <4>1. CASE step.exit = "zero"
        BY <3>4, <4>1 DEF LifecycleStage
      <4>2. CASE step.exit = "nonzero"
        BY <3>4, <4>2 DEF LifecycleStage, Code
      <4>3. CASE step.exit = "unreadable"
        BY <3>1, <3>2, <3>4, <4>3 DEF LifecycleStage, Code
      <4>4. CASE step.exit = "none"
        BY <3>4, <4>4 DEF LifecycleStage, Code
      <4> QED
        BY <3>3, <4>1, <4>2, <4>3, <4>4
    <3> QED
      BY <3>4, <3>5, <3>6
  <2> QED
    BY <2>1, <2>2
<1> QED
  BY <1>2, <1>3, <1>4, <1>5, <1>6, <1>7, <1>8, <1>9, RecordFrame

(* The durable run implements the life its record promises: one outcome,   *)
(* reached once, called cancelled only upon request and lost only without. *)
THEOREM Refinement == Spec => ImplementsLifecycle
<1>1. Init => Lifecycle!LifecycleInit
  BY DEF Init, Lifecycle!LifecycleInit, LifecycleStage, NoRecord
<1>2. EInv /\ EInv' /\ [Next]_vars => [Lifecycle!LifecycleNext]_(Lifecycle!lvars)
  <2>1. ASSUME EInv, EInv', Next
        PROVE  [Lifecycle!LifecycleNext]_(Lifecycle!lvars)
    BY <2>1, LifecycleStep
  <2>2. CASE UNCHANGED vars
    BY <2>2 DEF vars, diskVars, faultVars, LifecycleStage, Lifecycle!lvars
  <2> QED
    BY <2>1, <2>2
<1> QED
  BY <1>1, <1>2, EvidenceInvariance, PTL DEF Spec, ImplementsLifecycle, Lifecycle!LifecycleSpec
=============================================================================
