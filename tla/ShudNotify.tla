------------------------------ MODULE ShudNotify ------------------------------
(***************************************************************************)
(* The wake-up of the session that owns a run, once the run is collected   *)
(* or its collection has been given up (ShudPoll.deliverNotification): a   *)
(* message is appended to the live Session, flushed, and only then the     *)
(* notification is marked delivered and the run moved to the completed     *)
(* index.  Session services come and go while the operation waits, the     *)
(* registry is reloaded inside the same process, the host may release the  *)
(* Session or die, and every publication may fail before or after its      *)
(* rename.                                                                 *)
(*                                                                         *)
(* notify.at is not a variable: each counted failure has its own, so       *)
(* attempts tells them apart as well.                                      *)
(***************************************************************************)
EXTENDS Naturals

CONSTANTS MaxAttempts, \* MAX_NOTIFY_ATTEMPTS
          MaxFaults,   \* bound on failing publications
          MaxMounts,   \* bound on how often the session services are mounted
          MaxChanges   \* bound on unmounts, reloads, released sessions and crashes

VARIABLES
  notify,    \* run-job.json: notify
  indexed,   \* the run is in active.json, otherwise in completed.json
  owner,     \* the owner session: null, deleted, or present
  durable,   \* the persisted session log holds a message of this run
  appends,   \* messages of this run in the live Session object
  throws,    \* calls of followup that threw after appending, same object
  confirmed, \* confirmedAppends of the live Session, survives a reload
  pending,   \* pendingNotificationFailures, survives a reload
  accepting, \* the poll of the current registry admits work
  delivery,  \* the mounted service epoch, 0 when there is none
  mounts,    \* how many epochs there have been
  due,       \* NOTIFY_RETRY_INTERVAL_MS have passed since notify.at
  op,        \* the step in the queue of the run
  tries,     \* attempts that failed
  crashed,   \* the host process has died
  faults,    \* how many more publications may fail
  changes    \* how many more changes there may be

sessionVars == <<durable, appends, throws, confirmed>>
serviceVars == <<accepting, delivery, mounts>>
ghosts == <<tries, crashed>>
vars == <<notify, indexed, owner, sessionVars, pending, serviceVars, due, op, ghosts, faults,
          changes>>

Status == {"pending", "delivered", "unreachable"}
Notify == [status : Status, attempts : 0..MaxAttempts, detail : {"none", "failed", "waiting"}]
Failure == [before : 0..MaxAttempts, notify : Notify]
NoFailure == [before |-> 0, notify |-> [status |-> "delivered", attempts |-> 0, detail |-> "none"]]
Op == [pc : {"idle", "deliver", "resolve", "flush", "index"},
       epoch : 0..MaxMounts, seen : 0..MaxAttempts]
IdleOp == [pc |-> "idle", epoch |-> 0, seen |-> 0]

TypeOK ==
  /\ notify \in Notify
  /\ indexed \in BOOLEAN
  /\ owner \in {"null", "deleted", "present"}
  /\ durable \in BOOLEAN
  /\ appends \in 0..MaxAttempts + MaxChanges
  /\ throws \in 0..MaxAttempts + MaxChanges
  /\ confirmed \in {"none", "appended", "flushed"}
  /\ pending \in Failure
  /\ accepting \in BOOLEAN
  /\ delivery \in 0..MaxMounts
  /\ mounts \in 0..MaxMounts
  /\ due \in BOOLEAN
  /\ op \in Op
  /\ tries \in 0..MaxAttempts + MaxChanges
  /\ crashed \in BOOLEAN
  /\ faults \in 0..MaxFaults
  /\ changes \in 0..MaxChanges

Init ==
  /\ notify = [status |-> "pending", attempts |-> 0, detail |-> "none"]
  /\ indexed = TRUE
  /\ owner \in {"null", "present"}
  /\ durable = FALSE
  /\ appends = 0 /\ throws = 0
  /\ confirmed = "none"
  /\ pending = NoFailure
  /\ accepting = TRUE
  /\ delivery = 0 /\ mounts = 0
  /\ due = TRUE
  /\ op = IdleOp
  /\ tries = 0
  /\ crashed = FALSE
  /\ faults = MaxFaults
  /\ changes = MaxChanges

-----------------------------------------------------------------------------
At(pc) == op.pc = pc
Goto(pc) == op' = [op EXCEPT !.pc = pc]
EndOp == op' = IdleOp
Fault == faults > 0 /\ faults' = faults - 1

(* The epoch of the operation is still mounted and its poll still open.    *)
Live == delivery = op.epoch /\ accepting

-----------------------------------------------------------------------------
(* Publications.  updateRunJob renames a whole record into place; it may   *)
(* fail before the rename, or report a failure after it.                   *)
After(status) == IF status = "pending" THEN EndOp ELSE Goto("index")

Finish(status) ==
  LET finished == [notify EXCEPT !.status = status, !.detail = "none"]
  IN /\ \/ notify' = finished /\ Goto("index") /\ UNCHANGED faults
        \/ Fault /\ EndOp /\ notify' \in {notify, finished}
     /\ UNCHANGED <<indexed, owner, serviceVars, pending, due, ghosts, changes>>

(* publishFailure: an accounting that is on disk already, with the detail  *)
(* of a later wait or not, is not written again.                           *)
CommittedExactly(failure) ==     \* a mistake: a changed detail is no commit
  notify = failure.notify

Committed(failure) ==
  /\ notify.status = failure.notify.status
  /\ notify.attempts = failure.notify.attempts
  /\ notify.detail \in {failure.notify.detail, "waiting"}

CountAgain(failure) ==           \* a mistake: the count is taken from the file
  LET counted == [failure.notify EXCEPT !.attempts = IF notify.attempts < MaxAttempts
                                                       THEN notify.attempts + 1 ELSE @]
  IN /\ \/ /\ notify' = counted
           /\ pending' = NoFailure
           /\ After(notify'.status)
           /\ UNCHANGED faults
        \/ Fault /\ EndOp /\ pending' = failure /\ notify' \in {notify, counted}
     /\ due' = (due /\ notify' = notify)
     /\ UNCHANGED <<indexed, owner, serviceVars, changes>>

PublishFailure(failure) ==
  LET counted == IF Committed(failure) THEN notify ELSE failure.notify
  IN /\ Committed(failure) \/ notify.attempts = failure.before
     /\ \/ /\ notify' = counted
           /\ pending' = NoFailure
           /\ After(notify'.status)
           /\ UNCHANGED faults
        \/ Fault /\ EndOp /\ pending' = failure /\ notify' \in {notify, counted}
     /\ due' = (due /\ notify' = notify)
     /\ UNCHANGED <<indexed, owner, serviceVars, changes>>

(* failAttempt: the count goes on from the record the operation has read.  *)
FailAttempt ==
  /\ PublishFailure(
       [before |-> op.seen,
        notify |-> [status |-> IF op.seen + 1 >= MaxAttempts THEN "unreachable" ELSE "pending",
                    attempts |-> op.seen + 1, detail |-> "failed"]])
  /\ tries' = tries + 1
  /\ UNCHANGED crashed

-----------------------------------------------------------------------------
(* A step of a run that has nothing else left to do; a finished one only   *)
(* has to leave the active index.                                          *)
Begin ==
  /\ accepting /\ indexed
  /\ At("idle")
  /\ op' = IF notify.status = "pending"
             THEN [pc |-> "deliver", epoch |-> delivery, seen |-> notify.attempts]
             ELSE [IdleOp EXCEPT !.pc = "index"]
  /\ UNCHANGED <<notify, indexed, owner, sessionVars, pending, serviceVars, due, ghosts, faults,
                 changes>>

(* Without services the run waits, which costs no attempt.                 *)
Wait ==
  LET waiting == [notify EXCEPT !.detail = "waiting"]
  IN /\ At("deliver") /\ op.epoch = 0
     /\ \/ notify' = waiting /\ UNCHANGED faults
        \/ Fault /\ notify' \in {notify, waiting}
     /\ EndOp
     /\ UNCHANGED <<indexed, owner, sessionVars, pending, serviceVars, due, ghosts, changes>>

(* What is left to do before a session is needed.                          *)
Revoked ==
  /\ At("deliver") /\ op.epoch # 0 /\ ~Live
  /\ EndOp
  /\ UNCHANGED <<notify, indexed, owner, sessionVars, pending, serviceVars, due, ghosts, faults,
                 changes>>

Republish ==
  /\ At("deliver") /\ op.epoch # 0 /\ Live
  /\ pending # NoFailure
  /\ PublishFailure(pending)
  /\ UNCHANGED <<sessionVars, ghosts>>

Deliverable == At("deliver") /\ op.epoch # 0 /\ Live /\ pending = NoFailure

TooEarly ==
  /\ Deliverable
  /\ op.seen > 0 /\ ~due
  /\ EndOp
  /\ UNCHANGED <<notify, indexed, owner, sessionVars, pending, serviceVars, due, ghosts, faults,
                 changes>>

Resolve ==
  /\ Deliverable
  /\ op.seen > 0 => due
  /\ \/ /\ owner = "null"
        /\ Finish("unreachable")
     \/ /\ owner # "null"
        /\ Goto("resolve")
        /\ UNCHANGED <<notify, indexed, owner, pending, serviceVars, due, ghosts, faults, changes>>
  /\ UNCHANGED sessionVars

-----------------------------------------------------------------------------
(* resolveAgent has answered.  The Session is told once; followup may      *)
(* throw before or after it has appended the message.                      *)
Tell ==
  \/ /\ confirmed = "none"
     /\ appends' = appends + 1
     /\ confirmed' = "appended"
     /\ Goto("flush")
     /\ UNCHANGED <<notify, indexed, owner, durable, throws, pending, serviceVars, due, ghosts,
                    faults, changes>>
  \/ /\ confirmed = "none"
     /\ \/ appends' = appends + 1 /\ throws' = throws + 1
        \/ UNCHANGED <<appends, throws>>
     /\ FailAttempt
     /\ UNCHANGED <<durable, confirmed>>
  \/ /\ confirmed = "appended"
     /\ Goto("flush")
     /\ UNCHANGED <<notify, indexed, owner, sessionVars, pending, serviceVars, due, ghosts, faults,
                    changes>>
  \/ /\ confirmed = "flushed"
     /\ Finish("delivered")
     /\ UNCHANGED sessionVars

AnsweredUnchecked ==             \* a mistake: the epoch is not looked at again
  /\ At("resolve")
  /\ \/ owner = "deleted" /\ Finish("unreachable") /\ UNCHANGED sessionVars
     \/ FailAttempt /\ UNCHANGED sessionVars
     \/ owner = "present" /\ Tell

Answered ==
  /\ At("resolve")
  /\ \/ /\ ~Live
        /\ EndOp
        /\ UNCHANGED <<notify, indexed, owner, sessionVars, pending, serviceVars, due, ghosts,
                       faults, changes>>
     \/ Live /\ owner = "deleted" /\ Finish("unreachable") /\ UNCHANGED sessionVars
     \/ Live /\ FailAttempt /\ UNCHANGED sessionVars
     \/ Live /\ owner = "present" /\ Tell

(* flush has answered, truly or not; its failure may also have come after  *)
(* the log was written.                                                    *)
FlushedUnacknowledged ==         \* a mistake: the answer of flush is not looked at
  /\ At("flush")
  /\ durable' \in {durable, TRUE}
  /\ confirmed' = "flushed"
  /\ Finish("delivered")
  /\ UNCHANGED <<appends, throws>>

Flushed ==
  /\ At("flush")
  /\ \/ durable' = TRUE /\ confirmed' = "flushed" /\ Finish("delivered")
     \/ durable' \in {durable, TRUE} /\ FailAttempt /\ UNCHANGED confirmed
  /\ UNCHANGED <<appends, throws>>

(* completeNotified: nothing is left to account for; the move to the       *)
(* completed index may fail and be repeated.                               *)
LeaveIndex ==
  /\ At("index")
  /\ pending' = NoFailure
  /\ \/ indexed' = FALSE /\ UNCHANGED faults
     \/ Fault /\ UNCHANGED indexed
  /\ EndOp
  /\ UNCHANGED <<notify, owner, sessionVars, serviceVars, due, ghosts, changes>>

Step == \/ Wait \/ Revoked \/ Republish \/ TooEarly \/ Resolve \/ Answered \/ Flushed
        \/ LeaveIndex

-----------------------------------------------------------------------------
(* The rest of the host.                                                   *)

IntervalElapses ==
  /\ ~due
  /\ due' = TRUE
  /\ UNCHANGED <<notify, indexed, owner, sessionVars, pending, serviceVars, op, ghosts, faults,
                 changes>>

(* enableDelivery and the effect it returns.                               *)
Mount ==
  /\ accepting /\ delivery = 0
  /\ mounts < MaxMounts
  /\ mounts' = mounts + 1
  /\ delivery' = mounts + 1
  /\ UNCHANGED <<notify, indexed, owner, sessionVars, pending, accepting, due, op, ghosts, faults,
                 changes>>

Change == changes > 0 /\ changes' = changes - 1

(* Services that go away may come back.                                    *)
Unmount ==
  /\ delivery # 0 /\ mounts < MaxMounts
  /\ Change
  /\ delivery' = 0
  /\ UNCHANGED <<notify, indexed, owner, sessionVars, pending, accepting, mounts, due, op, ghosts,
                 faults>>

(* A reload: admission ends, the accepted step is drained, and a new       *)
(* registry takes over in the same process.                                *)
StopAdmission ==
  /\ accepting /\ mounts < MaxMounts
  /\ Change
  /\ accepting' = FALSE
  /\ UNCHANGED <<notify, indexed, owner, sessionVars, pending, delivery, mounts, due, op, ghosts,
                 faults>>

ReloadForgets ==                 \* a mistake: the receipts belong to the registry
  /\ ~accepting
  /\ At("idle")
  /\ accepting' = TRUE
  /\ delivery' = 0
  /\ confirmed' = "none"
  /\ UNCHANGED <<notify, indexed, owner, durable, appends, throws, pending, mounts, due, op, ghosts,
                 faults, changes>>

Reload ==
  /\ ~accepting
  /\ At("idle")
  /\ accepting' = TRUE
  /\ delivery' = 0
  /\ UNCHANGED <<notify, indexed, owner, sessionVars, pending, mounts, due, op, ghosts, faults,
                 changes>>

(* The host releases a Session nobody uses; the next one is restored from  *)
(* its log, and has no receipts.                                           *)
NewSession == appends' = 0 /\ throws' = 0 /\ confirmed' = "none" /\ UNCHANGED durable

ReleaseSession ==
  /\ appends > 0
  /\ op.pc \in {"idle", "deliver", "resolve", "index"}
  /\ Change
  /\ NewSession
  /\ UNCHANGED <<notify, indexed, owner, pending, serviceVars, due, op, ghosts, faults>>

DeleteSession ==
  /\ owner = "present"
  /\ op.pc # "flush"
  /\ Change
  /\ owner' = "deleted"
  /\ UNCHANGED <<notify, indexed, sessionVars, pending, serviceVars, due, op, ghosts, faults>>

Crash ==
  /\ mounts < MaxMounts
  /\ Change
  /\ NewSession
  /\ pending' = NoFailure
  /\ accepting' = TRUE
  /\ delivery' = 0
  /\ EndOp
  /\ crashed' = TRUE
  /\ UNCHANGED <<notify, indexed, owner, mounts, due, tries, faults>>

Next == \/ Begin \/ Step \/ IntervalElapses \/ Mount \/ Unmount \/ StopAdmission \/ Reload
        \/ ReleaseSession \/ DeleteSession \/ Crash

Spec == Init /\ [][Next]_vars

(* The timer adds steps and the queue runs them, services are mounted in   *)
(* the end (a profile without them waits for ever), a reload is finished.  *)
Fairness == WF_vars(Begin) /\ WF_vars(Step) /\ WF_vars(IntervalElapses) /\ WF_vars(Mount)
            /\ WF_vars(Reload)
FairSpec == Spec /\ Fairness

-----------------------------------------------------------------------------
(* A notification is called delivered only when the persisted log of the   *)
(* session has the message, whichever step appended it.                    *)
DeliveredIsDurable == notify.status = "delivered" => durable

(* The same live Session is told once, over retries, failing publications  *)
(* and reloads; only a followup that threw may have told it in vain.       *)
ToldOnce == appends <= throws + 1

(* Every failed attempt is counted once: never twice, although its         *)
(* publication is repeated, and not forgotten, unless the process died     *)
(* with an accounting it could not publish.  A session is given up only    *)
(* because it does not exist or because the attempts failed.               *)
FailuresCountOnce ==
  /\ notify.attempts <= tries
  /\ ~crashed => tries <= notify.attempts + 1
  /\ ~crashed /\ pending = NoFailure => tries = notify.attempts
  /\ notify.status = "unreachable" => owner # "present" \/ tries >= MaxAttempts

(* Nothing is appended through services that were revoked, or for a        *)
(* registry that is closing, while resolveAgent was waited for.            *)
NoAppendWhenRevoked == [][appends' > appends => Live]_vars

(* Where services are mounted in the end, every run leaves the active      *)
(* index, with its session woken or given up.                              *)
NotificationEnds == <>(~indexed)
=============================================================================
