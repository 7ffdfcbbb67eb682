------------------------------ MODULE RunIndex ------------------------------
(***************************************************************************)
(* What the two index files of a state directory promise together, seen    *)
(* as one object: every run is absent, active or completed.  A completed   *)
(* run stays completed, an active run leaves only by completing or because *)
(* a withdrawal (the rollback of a failed submission) was asked for.       *)
(*                                                                         *)
(* The files themselves, written one after the other by a host that may    *)
(* crash or close at any point, are in StateIndexes, which implements this *)
(* specification.                                                          *)
(***************************************************************************)
CONSTANT Run

VARIABLES entry,      \* entry[r]: what the directory durably says of run r
          withdrawing \* the runs whose withdrawal is in progress

ivars == <<entry, withdrawing>>

EntryState == {"absent", "active", "completed"}

IndexTypeOK == /\ entry \in [Run -> EntryState]
               /\ withdrawing \in SUBSET Run

IndexInit == /\ entry = [r \in Run |-> "absent"]
             /\ withdrawing = {}

(* One run moves along absent -> active -> completed, or back to absent.   *)
Add(r) == /\ entry[r] = "absent"
          /\ entry' = [entry EXCEPT ![r] = "active"]
          /\ UNCHANGED withdrawing

Complete(r) == /\ entry[r] = "active"
               /\ entry' = [entry EXCEPT ![r] = "completed"]
               /\ UNCHANGED withdrawing

Withdraw(r) == /\ r \in withdrawing
               /\ entry[r] = "active"
               /\ entry' = [entry EXCEPT ![r] = "absent"]
               /\ UNCHANGED withdrawing

(* Withdrawals are asked for, answered, or forgotten by a crashing host.   *)
ChangeWithdrawals == /\ withdrawing' \in SUBSET Run
                     /\ UNCHANGED entry

IndexNext == \/ \E r \in Run : Add(r) \/ Complete(r) \/ Withdraw(r)
             \/ ChangeWithdrawals

IndexSpec == IndexInit /\ [][IndexNext]_ivars
=============================================================================
