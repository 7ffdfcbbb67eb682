------------------------------ MODULE RunJobFile ------------------------------
(***************************************************************************)
(* run-job.json of one run, which two actors of one host change: the step of  *)
(* the run, of which there is one at a time and which settles, collects or      *)
(* notifies, and whoever cancels the run.  An actor reads the file, and then       *)
(* awaits other evidence; when it comes back it reads the file again and       *)
(* changes it in one go, provided the directory is the one it read from        *)
(* (readRunFile and updateRunJob, shud-run-file.ts).  Between the two, other   *)
(* steps change the file, and a stranger may exchange the directories.  What   *)
(* a stranger does within the synchronous update is left out: no check of the  *)
(* code could see it.  Updates of other fields (takeover's dsh_job_id, the     *)
(* attempts of a notification) and those that only look are left out.          *)
(***************************************************************************)
EXTENDS Naturals

CONSTANT MaxSwaps               \* bounds the exchanges

VARIABLES
  root, dir,         \* what is at the paths: an inode, or a link
  jobs,              \* what run-job.json holds, per directory inode
  step,              \* where each step is, what it read
  swaps

vars == <<root, dir, jobs, step, swaps>>

Steps == {"poll", "cancel"}
Directories == {1, 2}
Link == 0
Broken == [id |-> "broken"]
Idle == [pc |-> "idle", root |-> Link, dir |-> Link, read |-> Broken, evidence |-> "none"]

Job(status, cancel) ==      \* code is exit_code as settled, not the file of that name
  [id |-> "ours", status |-> status, code |-> "none", cancel |-> cancel, notified |-> FALSE]
IsTerminal(status) == status \in {"succeeded", "failed", "cancelled", "collected"}

(* A run as its submission or an earlier host left it.  The other directory    *)
(* may be a copy of the run, another run, or no run.                          *)
Init ==
  /\ root = 1 /\ dir = 1
  /\ \E j \in {Job("created", FALSE), Job("submitted", FALSE), Job("running", FALSE), Job("running", TRUE)} :
     \E c \in {j, [j EXCEPT !.id = "other"], Broken} : jobs = [d \in Directories |-> IF d = 1 THEN j ELSE c]
  /\ step = [s \in Steps |-> Idle] /\ swaps = 0

-----------------------------------------------------------------------------
(* readRunFile, which awaits between the directories and the file.           *)
Locate(s) ==
  /\ step[s].pc = "idle"
  /\ step' = [step EXCEPT ![s] = IF Link \in {root, dir} THEN Idle
                                 ELSE [Idle EXCEPT !.pc = "located", !.root = root, !.dir = dir]]
  /\ UNCHANGED <<root, dir, jobs, swaps>>

(* routeRun: the file must be of this run.                                  *)
Routes(file) == file.id = "ours"

Read(s) ==
  /\ step[s].pc = "located"
  /\ step' = [step EXCEPT ![s] =
                IF Link \in {root, dir} \/ ~Routes(jobs[dir]) THEN Idle
                ELSE [@ EXCEPT !.pc = "read", !.read = jobs[dir]]]
  /\ UNCHANGED <<root, dir, jobs, swaps>>

(* Other evidence is awaited: an exit code or an unusable one by a settlement, *)
(* the same code again by a collection, which may find it unusable or changed  *)
(* (exitCode), a checkpoint, an answer.                                       *)
Evidence(s, read) ==
  IF s = "cancel" \/ read.status = "created" THEN {"none"}
  ELSE IF IsTerminal(read.status) THEN {"none", "bad"} ELSE {"none", "zero", "nonzero", "bad"}

Await(s) ==
  /\ step[s].pc = "read"
  /\ \E e \in Evidence(s, step[s].read) :
       step' = [step EXCEPT ![s].pc = "update", ![s].evidence = e]
  /\ UNCHANGED <<root, dir, jobs, swaps>>

(* The transitions, of the file as it is now.                               *)
Promote(current) ==
  IF current.status = "submitted" THEN [current EXCEPT !.status = "running"] ELSE current
Settled(cancel, evidence) ==
  CASE evidence = "zero" -> "succeeded"
    [] evidence \in {"nonzero", "bad"} -> "failed"
    [] OTHER -> IF cancel THEN "cancelled" ELSE "failed"
SettleAs(current, k, cancel) ==
  IF current.status # k.read.status THEN current
  ELSE [current EXCEPT !.status = Settled(cancel, k.evidence),
                       !.code = IF k.evidence = "bad" THEN "none" ELSE k.evidence]
SettleAsRead(current, k) == SettleAs(current, k, k.read.cancel)   \* mutant of Settle: as it was requested then
Settle(current, k) == SettleAs(current, k, current.cancel)
Cancel(current) == IF current.status # "running" THEN current ELSE [current EXCEPT !.cancel = TRUE]
ProjectCollected(current) ==
  IF IsTerminal(current.status) THEN [current EXCEPT !.status = "collected"] ELSE current
DemoteAny(current) ==        \* mutant of Demote: a collected run as well
  IF IsTerminal(current.status) THEN [current EXCEPT !.status = "failed"] ELSE current
Demote(current) ==           \* failedAttempt
  IF current.status \in {"succeeded", "cancelled"} THEN [current EXCEPT !.status = "failed"] ELSE current
Tell(current, k) ==
  IF current.status = k.read.status /\ IsTerminal(current.status)
  THEN [current EXCEPT !.notified = TRUE] ELSE current

Transitions(s, current, k) ==
  IF s = "cancel" THEN {Cancel(current)}
  ELSE IF IsTerminal(k.read.status)
  THEN IF k.evidence # "bad" THEN {ProjectCollected(current), Tell(current, k)}
       ELSE IF k.read.status = "failed" THEN {current} ELSE {Demote(current)}
  ELSE IF k.read.status = "submitted" /\ k.evidence = "none"
  THEN {Promote(current), Settle(current, k)} ELSE {Settle(current, k)}

(* verifyRunFile: the directories are those the step read from.              *)
VerifiedRoot(k) == root = k.root /\ dir # Link       \* mutant of Verified: only the parent
Verified(k) == root = k.root /\ dir = k.dir

UpdateFromRead(s) ==     \* mutant of Update: the file is not read again
  LET k == step[s]
  IN /\ k.pc = "update"
     /\ IF Verified(k) /\ Routes(jobs[dir])
        THEN \E new \in Transitions(s, k.read, k) : jobs' = [jobs EXCEPT ![dir] = new]
        ELSE UNCHANGED jobs
     /\ step' = [step EXCEPT ![s] = Idle]
     /\ UNCHANGED <<root, dir, swaps>>

Update(s) ==
  LET k == step[s]
  IN /\ k.pc = "update"
     /\ \/ /\ Verified(k) /\ Routes(jobs[dir])
           /\ \E new \in Transitions(s, jobs[dir], k) : jobs' = [jobs EXCEPT ![dir] = new]
        \/ UNCHANGED jobs     \* another directory, the group not quiescent (advance), or a check,
                              \* the collection itself or writeJsonSync fails
     /\ step' = [step EXCEPT ![s] = Idle]
     /\ UNCHANGED <<root, dir, swaps>>

(* The directory of the run, or its parent with it, becomes another.         *)
Swap ==
  /\ swaps < MaxSwaps /\ swaps' = swaps + 1
  /\ root' \in {Link, 1, 2} /\ dir' \in {Link, 1, 2}
  /\ UNCHANGED <<jobs, step>>

Next == Swap \/ \E s \in Steps : Locate(s) \/ Read(s) \/ Await(s) \/ Update(s)

Spec == Init /\ [][Next]_vars

-----------------------------------------------------------------------------
(* What a step k may make of the run it finds as j.  Its status moves on, and    *)
(* once settled it changes in two ways only: it is collected, for good, or a      *)
(* collection that found the exit evidence unusable demotes it to failed.  A       *)
(* settlement without evidence is a cancellation exactly if it was requested, by   *)
(* then and not when the step read the file, and the exit code it settles on       *)
(* stays.  A request to cancel and a notification stay too; the first comes         *)
(* before the settlement, the second tells the owner a status that still holds.     *)
Advances(j, new, k) ==
  /\ new.id = j.id
  /\ \/ new.status = j.status
     \/ j.status = "submitted" /\ new.status = "running" /\ k.evidence = "none"
     \/ ~IsTerminal(j.status) /\ new.status \in {"succeeded", "failed", "cancelled"}
     \/ j.status \in {"succeeded", "cancelled"} /\ new.status = "failed" /\ k.evidence = "bad"
     \/ IsTerminal(j.status) /\ new.status = "collected" /\ k.evidence = "none"
  /\ ~IsTerminal(j.status) /\ IsTerminal(new.status) =>
       /\ new.status = "cancelled" <=> (j.cancel /\ k.evidence = "none")
       /\ new.status = "succeeded" <=> k.evidence = "zero"
  /\ new.code # j.code => ~IsTerminal(j.status) /\ new.code = k.evidence
  /\ new.cancel # j.cancel => new.cancel /\ ~IsTerminal(j.status)
  /\ new.notified # j.notified => new.notified /\ j.status = k.read.status /\ IsTerminal(j.status)

(* An update changes the directory the step read the run from, no other, and   *)
(* only as the evidence of that step allows.                               *)
UpdatesKept ==
  [][\A d \in Directories : jobs'[d] # jobs[d] =>
       /\ jobs[d].id = "ours"
       /\ \E s \in Steps :
            /\ step[s].pc = "update" /\ step[s].dir = d /\ step'[s] = Idle
            /\ Advances(jobs[d], jobs'[d], step[s])]_vars
=============================================================================
