------------------------------ MODULE MCOutcome ------------------------------
(***************************************************************************)
(* What becomes of a run that was settled: its record (ShudCollect), where    *)
(* one automatic step and two direct requests share the queue of the run, and  *)
(* the wake-up of its owner session (ShudNotify).  The step of a run goes on   *)
(* from one to the other and never does both, and neither reads what the      *)
(* other writes: the first state chooses the one this behaviour is about.    *)
(***************************************************************************)
EXTENDS ShudCollect

CONSTANTS MaxPublicationFaults, MaxMounts, MaxChanges

VARIABLES
  part,
  notify, indexed, owner, durable, appends, throws, confirmed, pending, accepting, delivery, mounts,
  retryDue, delivering, tries, crashed, publicationFaults, changes

notifyVars == <<notify, indexed, owner, durable, appends, throws, confirmed, pending, accepting,
                delivery, mounts, retryDue, delivering, tries, crashed, publicationFaults, changes>>
partVars == <<part, vars, notifyVars>>

Notify == INSTANCE ShudNotify
  WITH due <- retryDue, op <- delivering, faults <- publicationFaults, MaxFaults <- MaxPublicationFaults

MCSteps == {"step"}
MCRequests == {"first", "second"}

(* The part that rests is in one of its first states.                      *)
Resting == [status |-> "failed", code |-> "none", cancel |-> FALSE]
PartInit ==
  /\ part \in {"collect", "notify"}
  /\ Init /\ (part = "notify" => job = Resting /\ exitFile = "none" /\ ~observed)
  /\ Notify!Init /\ (part = "collect" => owner = "null")

Collects(A) == part = "collect" /\ A /\ UNCHANGED <<part, notifyVars>>
Notifies(A) == part = "notify" /\ A /\ UNCHANGED <<part, vars>>
PartNext == Collects(Next) \/ Notifies(Notify!Next)

(* The fairness of ShudCollect and of ShudNotify, in the part it is about.   *)
PartSpec ==
  /\ PartInit /\ [][PartNext]_partVars
  /\ \A c \in Callers : WF_partVars(Collects(Step(c)))
  /\ \A c \in Steps : WF_partVars(Collects(Begin(c)))
  /\ WF_partVars(Collects(IntervalElapses))
  /\ WF_partVars(Notifies(Notify!Begin)) /\ WF_partVars(Notifies(Notify!Step))
  /\ WF_partVars(Notifies(Notify!IntervalElapses)) /\ WF_partVars(Notifies(Notify!Mount))
  /\ WF_partVars(Notifies(Notify!Reload))

-----------------------------------------------------------------------------
(* The record agrees with the settlement and tells cancelled from lost by    *)
(* the durable request (shud-collect.ts).                                   *)
RecordTrue == RecordHonoursSettlement /\ CancelledIffRequested

(* The record is written once, and with a duration by its witness alone      *)
(* (shud-collect.ts).                                                      *)
RecordFinal == RecordImmutable /\ DurationIsWitnessed

(* A notification called delivered is in the persisted log, the session is   *)
(* told once and each failure counted once; revoked services and closing      *)
(* registries append nothing (shud-poll.ts).                                *)
NotificationTrue ==
  /\ [](Notify!DeliveredIsDurable /\ Notify!ToldOnce /\ Notify!FailuresCountOnce)
  /\ Notify!NoAppendWhenRevoked

(* Automatic collection ends, and every owner is woken or given up           *)
(* (shud-poll.ts).                                                         *)
OutcomeEnds == /\ part = "collect" => CollectionEnds
               /\ part = "notify" => Notify!NotificationEnds
=============================================================================
