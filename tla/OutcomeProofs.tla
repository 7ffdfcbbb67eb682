---------------------------- MODULE OutcomeProofs ----------------------------
(***************************************************************************)
(* Proofs about what becomes of a settled run, in the composition MCOutcome: *)
(* its record agrees with the settlement and is written once, and a          *)
(* notification called delivered is in the log of the session, with every    *)
(* failure counted once.                                                   *)
(*                                                                         *)
(* Collection: the queue of the run holds one operation at a time, so what   *)
(* it has read of the job and of the record is still so when it writes       *)
(* (Carries); only exit_code moves under it, and the code it has accepted    *)
(* is the settled one.  Notification: a failure that could not be published  *)
(* keeps its count, and the file is at that count or one before it          *)
(* (Accounting).                                                           *)
(***************************************************************************)
EXTENDS MCOutcome, TLAPS

(* The queue: one operation of the run at a time.                           *)
Alone == \A c, d \in Callers : ~At(c, "idle") /\ ~At(d, "idle") => c = d

(* What the operation has read and drafted stands until it ends.            *)
Carries(c) ==
  /\ ~At(c, "idle") => op[c].seen = job
  /\ At(c, "checkpoint") /\ c \in Requests => attempts < MaxLedger
  /\ op[c].pc \in {"exit", "absent", "write"} => record = NoRecord
  /\ op[c].pc \in {"exit", "absent", "write", "ledger"} =>
       op[c].attempts = attempts /\ attempts < MaxLedger
  /\ op[c].pc \in {"absent", "write"} => job.code \in {"none", op[c].code}
  /\ At(c, "write") => /\ op[c].draft \in Record
                       /\ op[c].draft.class = ExitClass(job, op[c].code)
                       /\ op[c].draft.wall => restarts = 0
  /\ At(c, "project") => record # NoRecord

(* Only the request makes a run cancelled; who observed its end has lived    *)
(* since.                                                                  *)
SettledTrue == (job.status = "cancelled" => job.cancel) /\ (observed => restarts = 0)

CollectInv == TypeOK /\ Alone /\ (\A c \in Callers : Carries(c)) /\ SettledTrue /\ RecordTrue

-----------------------------------------------------------------------------
(* Collection                                                              *)
LEMMA ClassType ==
  ASSUME NEW j \in Job, NEW code \in Code \cup {"none"}
  PROVE  ExitClass(j, code) \in Class
BY DEF ExitClass, Class, Code

LEMMA NotARecord == \A r \in Record : r # NoRecord
BY DEF Record, NoRecord, Class

LEMMA IdleIsOp == IdleOp \in Op
BY BoundsAssumption DEF IdleOp, Op, Pc, NoJob, NoRecord

(* A step is a move of one operation, while the others wait.                *)
LEMMA OneMoves ==
  ASSUME CollectInv, NEW c \in Callers, ~At(c, "idle"), NEW x \in Op,
         op' = [op EXCEPT ![c] = x]
  PROVE  /\ op' \in [Callers -> Op] /\ op'[c] = x
         /\ \A d \in Callers : d # c => op'[d] = op[d] /\ op[d].pc = "idle"
         /\ Alone'
         /\ Carries(c)' => \A d \in Callers : Carries(d)'
<1>1. op \in [Callers -> Op]
  BY DEF CollectInv, TypeOK
<1>2. \A d \in Callers : d # c => op'[d] = op[d] /\ op[d].pc = "idle"
  BY <1>1 DEF CollectInv, Alone, At
<1>3. op' \in [Callers -> Op] /\ op'[c] = x
  BY <1>1
<1>4. Alone'
  BY <1>2 DEF Alone, At
<1>5. ASSUME NEW d \in Callers, d # c
      PROVE  Carries(d)'
  BY <1>2, <1>5 DEF Carries, At
<1> QED
  BY <1>2, <1>3, <1>4, <1>5

(* The parts of a step that writes neither the job nor the record.          *)
LEMMA QuietMove ==
  ASSUME CollectInv, UNCHANGED <<job, record, restarts>>, observed' => observed
  PROVE  SettledTrue' /\ RecordTrue'
<1>1. SettledTrue'
  BY DEF CollectInv, SettledTrue
<1>2. RecordHonoursSettlement'
  BY DEF CollectInv, RecordTrue, RecordHonoursSettlement
<1>3. CancelledIffRequested'
  BY DEF CollectInv, RecordTrue, CancelledIffRequested
<1> QED
  BY <1>1, <1>2, <1>3 DEF RecordTrue

LEMMA CheckpointKeeps ==
  ASSUME CollectInv, NEW c \in Callers, ReadCheckpoint(c)
  PROVE  CollectInv'
<1>t. /\ TypeOK /\ op \in [Callers -> Op] /\ op[c] \in Op /\ Carries(c) /\ At(c, "checkpoint")
      /\ UNCHANGED diskVars /\ UNCHANGED due /\ job \in Job
      /\ attempts \in 0..MaxLedger
  BY DEF CollectInv, TypeOK, ReadCheckpoint
<1>b. MaxAttempts \in Nat /\ MaxLedger \in Nat /\ MaxAttempts <= MaxLedger /\ MaxAttempts > 0
  BY BoundsAssumption
<1>o. /\ observed' \in {FALSE, observed} /\ restarts' = restarts /\ faults' \in 0..MaxFaults
  <2>1. Fault \/ UNCHANGED budget
    BY DEF ReadCheckpoint
  <2>2. restarts' = restarts /\ faults' \in 0..MaxFaults
    BY <1>t, <2>1, BoundsAssumption DEF Fault, budget, TypeOK
  <2> QED
    BY <1>t, <2>2 DEF ReadCheckpoint, TypeOK
<1>g. ~Gated(c) => attempts < MaxLedger
  BY <1>t, <1>b DEF Gated, Carries, At, Callers
<1> DEFINE To(x) ==
      /\ op' = [op EXCEPT ![c] = x]
      /\ \/ x = IdleOp
         \/ /\ x.seen = op[c].seen /\ x.pc = "project" /\ record # NoRecord
         \/ /\ x.seen = op[c].seen /\ x.pc \in {"exit", "ledger"} /\ x.attempts = attempts
            /\ ~Gated(c) /\ (x.pc = "exit" => record = NoRecord)
<1>1. PICK x \in Op : To(x)
  <2>1. CASE op' = [op EXCEPT ![c] = IdleOp]
    BY <2>1, IdleIsOp
  <2>2. CASE op' = [op EXCEPT ![c].pc = "project"] /\ record # NoRecord
    <3> DEFINE x == [op[c] EXCEPT !.pc = "project"]
    <3>1. x \in Op /\ x.seen = op[c].seen /\ x.pc = "project"
      BY <1>t DEF Op, Pc
    <3>2. op' = [op EXCEPT ![c] = x]
      BY <1>t, <2>2
    <3> QED
      BY <3>1, <3>2, <2>2
  <2>3. ASSUME NEW pc \in {"exit", "ledger"},
               op' = [op EXCEPT ![c].pc = pc, ![c].attempts = attempts],
               ~Gated(c), pc = "exit" => record = NoRecord
        PROVE  \E x \in Op : To(x)
    <3> DEFINE x == [op[c] EXCEPT !.pc = pc, !.attempts = attempts]
    <3>1. x \in Op /\ x.seen = op[c].seen /\ x.pc = pc /\ x.attempts = attempts
      BY <1>t DEF Op, Pc
    <3>2. op' = [op EXCEPT ![c] = x]
      BY <1>t, <2>3
    <3> QED
      BY <3>1, <3>2, <2>3
  <2> QED
    BY <2>1, <2>2, <2>3 DEF ReadCheckpoint, EndOp, Goto
<1>2. ~At(c, "idle")
  BY <1>t DEF At
<1>3. /\ op' \in [Callers -> Op] /\ op'[c] = x /\ Alone'
      /\ Carries(c)' => \A d \in Callers : Carries(d)'
  BY <1>1, <1>2, OneMoves
<1>4. Carries(c)'
  BY <1>t, <1>1, <1>3, <1>g DEF Carries, At, IdleOp, diskVars
<1>5. TypeOK'
  BY <1>t, <1>3, <1>o DEF TypeOK, diskVars
<1>6. observed' => observed
  BY <1>o
<1>7. SettledTrue' /\ RecordTrue'
  BY <1>t, <1>o, <1>6, QuietMove DEF diskVars
<1> QED
  BY <1>3, <1>4, <1>5, <1>7 DEF CollectInv

(* A step that moves one operation on, within what it has read.             *)
LEMMA MoveKeeps ==
  ASSUME CollectInv, NEW c \in Callers, ~At(c, "idle"), NEW x \in Op,
         op' = [op EXCEPT ![c] = x], Carries(c)', SettledTrue', RecordTrue',
         job' \in Job, exitFile' = exitFile, record' \in Record \cup {NoRecord},
         attempts' \in 0..MaxLedger, due' \in BOOLEAN, observed' \in BOOLEAN,
         Fault \/ UNCHANGED budget
  PROVE  CollectInv'
<1>1. restarts' = restarts /\ faults' \in 0..MaxFaults
  BY BoundsAssumption DEF Fault, budget, CollectInv, TypeOK
<1>2. /\ op' \in [Callers -> Op] /\ Alone' /\ \A d \in Callers : Carries(d)'
  BY OneMoves
<1> QED
  BY <1>1, <1>2 DEF CollectInv, TypeOK

LEMMA ReadExitKeeps ==
  ASSUME CollectInv, NEW c \in Callers, ReadExitCode(c)
  PROVE  CollectInv'
<1>t. /\ TypeOK /\ op \in [Callers -> Op] /\ op[c] \in Op /\ Carries(c) /\ At(c, "exit")
      /\ UNCHANGED <<diskVars, due, observed>> /\ ~At(c, "idle")
      /\ Fault \/ UNCHANGED budget
      /\ restarts' = restarts
  BY DEF CollectInv, TypeOK, ReadExitCode, At, Fault, budget
<1>1. SettledTrue' /\ RecordTrue'
  BY <1>t, QuietMove DEF diskVars
<1>2. CASE op' = [op EXCEPT ![c].pc = "absent", ![c].code = exitFile]
           /\ exitFile # "invalid" /\ op[c].seen.code \in {"none", exitFile}
  <2> DEFINE x == [op[c] EXCEPT !.pc = "absent", !.code = exitFile]
  <2>1. x \in Op /\ x.seen = op[c].seen /\ x.pc = "absent" /\ x.code = exitFile
        /\ x.attempts = op[c].attempts
    BY <1>t, <1>2 DEF Op, Pc, TypeOK
  <2>2. op' = [op EXCEPT ![c] = x]
    BY <1>t, <1>2
  <2> HIDE DEF x
  <2>3. Carries(c)'
    BY <1>t, <1>2, <2>1, <2>2 DEF Carries, At, diskVars
  <2> QED
    BY <1>t, <1>1, <2>1, <2>2, <2>3, MoveKeeps DEF TypeOK, diskVars
<1>3. CASE Failed(c, TRUE)
  <2> DEFINE x == [op[c] EXCEPT !.pc = "ledger", !.evidence = TRUE]
  <2>1. x \in Op /\ x.seen = op[c].seen /\ x.pc = "ledger" /\ x.attempts = op[c].attempts
    BY <1>t, <1>3 DEF Op, Pc
  <2>2. op' = [op EXCEPT ![c] = x]
    BY <1>t, <1>3 DEF Failed
  <2> HIDE DEF x
  <2>3. Carries(c)'
    BY <1>t, <2>1, <2>2 DEF Carries, At, diskVars
  <2> QED
    BY <1>t, <1>1, <2>1, <2>2, <2>3, MoveKeeps DEF TypeOK, diskVars
<1> QED
  BY <1>2, <1>3 DEF ReadExitCode

LEMMA DraftKeeps ==
  ASSUME CollectInv, NEW c \in Callers, Draft(c)
  PROVE  CollectInv'
<1>t. /\ TypeOK /\ op \in [Callers -> Op] /\ op[c] \in Op /\ Carries(c) /\ At(c, "absent")
      /\ UNCHANGED <<diskVars, due, observed>> /\ ~At(c, "idle")
      /\ Fault \/ UNCHANGED budget
      /\ restarts' = restarts /\ job \in Job
  BY DEF CollectInv, TypeOK, Draft, At, Fault, budget
<1>o. observed \in BOOLEAN
  BY DEF CollectInv, TypeOK
<1>s. observed => restarts = 0
  BY DEF CollectInv, SettledTrue
<1>q. observed' => observed
  BY <1>t
<1>1. SettledTrue' /\ RecordTrue'
  BY <1>t, <1>q, QuietMove DEF diskVars
<1>2. CASE op' = [op EXCEPT ![c].pc = IF record = NoRecord THEN "write" ELSE "ledger",
                            ![c].draft = [class |-> ExitClass(op[c].seen, op[c].code),
                                          wall |-> observed, by |-> c]]
  <2> DEFINE draft == [class |-> ExitClass(job, op[c].code), wall |-> observed, by |-> c]
             x == [op[c] EXCEPT !.pc = "write", !.draft = draft]
  <2>c. op[c].code \in Code \cup {"none"}
    BY <1>t DEF Op
  <2>a. ExitClass(job, op[c].code) \in Class
    BY <1>t, <2>c, ClassType
  <2>d. /\ draft \in Record /\ draft.class = ExitClass(job, op[c].code)
        /\ draft.wall => restarts = 0
    <3>1. draft \in Record
      BY <1>o, <2>a DEF Record
    <3>2. draft.class = ExitClass(job, op[c].code)
      OBVIOUS
    <3>3. draft.wall = observed
      OBVIOUS
    <3>4. draft.wall => restarts = 0
      BY <1>s, <3>3
    <3> QED
      BY <3>1, <3>2, <3>4
  <2>e. op[c].seen = job /\ record = NoRecord
    BY <1>t DEF Carries, At
  <2>2. op' = [op EXCEPT ![c] = x]
    BY <1>t, <1>2, <2>e
  <2> HIDE DEF draft
  <2>1. x \in Op /\ x.seen = op[c].seen /\ x.pc = "write" /\ x.code = op[c].code /\ x.draft = draft
        /\ x.attempts = op[c].attempts
    BY <1>t, <2>d DEF Op, Pc
  <2> HIDE DEF x
  <2>f. op'[c] = x /\ job' = job /\ record' = record /\ attempts' = attempts
    BY <1>t, <2>2 DEF diskVars
  <2>g. op'[c].draft.class = ExitClass(job', op'[c].code)
    BY <2>f, <2>1, <2>d
  <2>3. Carries(c)'
    <3>1. x.draft.wall => restarts' = 0
      BY <1>t, <2>1, <2>d
    <3> QED
      BY <1>t, <2>1, <2>f, <2>d, <2>g, <3>1 DEF Carries, At
  <2> QED
    BY <1>t, <1>1, <2>1, <2>2, <2>3, MoveKeeps DEF TypeOK, diskVars
<1>3. CASE Failed(c, FALSE)
  <2> DEFINE x == [op[c] EXCEPT !.pc = "ledger", !.evidence = FALSE]
  <2>1. x \in Op /\ x.seen = op[c].seen /\ x.pc = "ledger" /\ x.attempts = op[c].attempts
    BY <1>t, <1>3 DEF Op, Pc
  <2>2. op' = [op EXCEPT ![c] = x]
    BY <1>t, <1>3 DEF Failed
  <2> HIDE DEF x
  <2>3. Carries(c)'
    BY <1>t, <2>1, <2>2 DEF Carries, At, diskVars
  <2> QED
    BY <1>t, <1>1, <2>1, <2>2, <2>3, MoveKeeps DEF TypeOK, diskVars
<1> QED
  BY <1>2, <1>3 DEF Draft

(* A record that is written is the one drafted, and it agrees with the job. *)
LEMMA WriteKeeps ==
  ASSUME CollectInv, NEW c \in Callers, WriteRecord(c)
  PROVE  CollectInv'
<1>t. /\ TypeOK /\ op \in [Callers -> Op] /\ op[c] \in Op /\ Carries(c) /\ At(c, "write")
      /\ UNCHANGED <<job, exitFile, attempts, due, observed>> /\ ~At(c, "idle")
      /\ Fault \/ UNCHANGED budget
      /\ restarts' = restarts /\ job \in Job
  BY DEF CollectInv, TypeOK, WriteRecord, At, Fault, budget
<1>q. observed' => observed
  BY <1>t
<1>1. CASE record' = op[c].draft /\ Goto(c, "project")
  <2> DEFINE x == [op[c] EXCEPT !.pc = "project"]
  <2>1. x \in Op /\ x.seen = op[c].seen /\ x.pc = "project"
    BY <1>t DEF Op, Pc
  <2>2. op' = [op EXCEPT ![c] = x]
    BY <1>t, <1>1 DEF Goto
  <2> HIDE DEF x
  <2>3. /\ record' \in Record /\ record' # NoRecord
        /\ record'.class = ExitClass(job, op[c].code)
        /\ job.code \in {"none", op[c].code}
        /\ record = NoRecord
    BY <1>t, <1>1, NotARecord DEF Carries, At
  <2>4. Carries(c)'
    BY <1>t, <2>1, <2>2, <2>3 DEF Carries, At
  <2>5. RecordHonoursSettlement'
    BY <1>t, <2>3 DEF RecordHonoursSettlement
  <2>6. CancelledIffRequested'
    <3>1. job.status = "cancelled" => job.cancel
      BY DEF CollectInv, SettledTrue
    <3>2. op[c].code \in {"zero", "nonzero", "none"}
      BY <1>t DEF Op, Code
    <3>3. /\ ExitClass(job, op[c].code) = "cancelled" => job.cancel
          /\ ExitClass(job, op[c].code) = "lost" => ~job.cancel
      BY <3>1, <3>2 DEF ExitClass
    <3> QED
      BY <1>t, <2>3, <3>3 DEF CancelledIffRequested
  <2>7. SettledTrue'
    BY <1>t, <1>q DEF CollectInv, SettledTrue
  <2> QED
    BY <1>t, <2>1, <2>2, <2>3, <2>4, <2>5, <2>6, <2>7, MoveKeeps DEF TypeOK, RecordTrue
<1>2. CASE Failed(c, FALSE) /\ UNCHANGED record
  <2> DEFINE x == [op[c] EXCEPT !.pc = "ledger", !.evidence = FALSE]
  <2>1. x \in Op /\ x.seen = op[c].seen /\ x.pc = "ledger" /\ x.attempts = op[c].attempts
    BY <1>t DEF Op, Pc
  <2>2. op' = [op EXCEPT ![c] = x]
    BY <1>t, <1>2 DEF Failed
  <2> HIDE DEF x
  <2>3. Carries(c)'
    BY <1>t, <1>2, <2>1, <2>2 DEF Carries, At
  <2>4. SettledTrue' /\ RecordTrue'
    BY <1>t, <1>2, <1>q, QuietMove
  <2> QED
    BY <1>t, <1>2, <2>1, <2>2, <2>3, <2>4, MoveKeeps DEF TypeOK
<1> QED
  BY <1>1, <1>2 DEF WriteRecord

(* The end of an operation needs nothing of what it carried.                *)
LEMMA EndCarries ==
  ASSUME CollectInv, NEW c \in Callers, EndOp(c)
  PROVE  IdleOp \in Op /\ op' = [op EXCEPT ![c] = IdleOp] /\ Carries(c)'
<1>1. op'[c] = IdleOp
  BY DEF CollectInv, TypeOK, EndOp
<1> QED
  BY <1>1, IdleIsOp DEF EndOp, Carries, At, IdleOp

LEMMA ProjectKeeps ==
  ASSUME CollectInv, NEW c \in Callers, Project(c)
  PROVE  CollectInv'
<1>t. /\ TypeOK /\ Carries(c) /\ At(c, "project") /\ ~At(c, "idle") /\ EndOp(c)
      /\ UNCHANGED <<exitFile, record, attempts, due, restarts>> /\ record # NoRecord
      /\ Fault \/ UNCHANGED budget
      /\ job \in Job /\ job' \in {job, [job EXCEPT !.status = "collected"]}
  BY DEF CollectInv, TypeOK, Project, At, Carries, Fault, budget
<1>o. observed' \in BOOLEAN
  BY <1>t DEF Project, TypeOK
<1>q. observed' => observed
  BY DEF Project
<1>1. /\ job' \in Job /\ job'.code = job.code /\ job'.cancel = job.cancel
      /\ job'.status = "cancelled" => job.status = "cancelled"
  BY <1>t DEF Job
<1>2. SettledTrue'
  BY <1>t, <1>q, <1>1 DEF CollectInv, SettledTrue
<1>c. job.code \in {"zero", "nonzero"} => ExitClass(job', job'.code) = ExitClass(job, job.code)
  BY <1>1 DEF ExitClass
<1>3. RecordHonoursSettlement'
  <2>1. job.code \in {"zero", "nonzero", "none"}
    BY <1>t DEF Job, Code
  <2> QED
    BY <1>t, <1>1, <1>c, <2>1 DEF CollectInv, RecordTrue, RecordHonoursSettlement
<1>4. CancelledIffRequested'
  BY <1>t, <1>1 DEF CollectInv, RecordTrue, CancelledIffRequested
<1> QED
  BY <1>t, <1>o, <1>1, <1>2, <1>3, <1>4, EndCarries, MoveKeeps DEF TypeOK, RecordTrue

LEMMA LedgerKeeps ==
  ASSUME CollectInv, NEW c \in Callers, WriteLedger(c)
  PROVE  CollectInv'
<1>t. /\ TypeOK /\ op \in [Callers -> Op] /\ op[c] \in Op /\ Carries(c) /\ At(c, "ledger")
      /\ UNCHANGED <<job, exitFile, record, observed, restarts>> /\ ~At(c, "idle")
      /\ Fault \/ UNCHANGED budget
  BY DEF CollectInv, TypeOK, WriteLedger, At, Fault, budget
<1>q. observed' => observed
  BY <1>t
<1>1. attempts' \in 0..MaxLedger /\ due' \in BOOLEAN
  <2>1. attempts \in Nat /\ attempts + 1 \in 0..MaxLedger /\ op[c].attempts = attempts
    BY <1>t, BoundsAssumption DEF Carries, TypeOK, At
  <2> QED
    BY <1>t, <2>1 DEF WriteLedger, TypeOK
<1>2. SettledTrue' /\ RecordTrue'
  BY <1>t, <1>q, QuietMove
<1>3. CASE EndOp(c)
  BY <1>t, <1>1, <1>2, <1>3, EndCarries, MoveKeeps DEF TypeOK
<1>4. CASE Goto(c, "demote")
  <2> DEFINE x == [op[c] EXCEPT !.pc = "demote"]
  <2>1. x \in Op /\ x.seen = op[c].seen /\ x.pc = "demote"
    BY <1>t DEF Op, Pc
  <2>2. op' = [op EXCEPT ![c] = x]
    BY <1>t, <1>4 DEF Goto
  <2> HIDE DEF x
  <2>3. Carries(c)'
    BY <1>t, <2>1, <2>2 DEF Carries, At
  <2> QED
    BY <1>t, <1>1, <1>2, <2>1, <2>2, <2>3, MoveKeeps DEF TypeOK
<1> QED
  BY <1>3, <1>4 DEF WriteLedger, AfterLedger

(* A demotion leaves the code and the request, and a collected run alone.   *)
LEMMA DemoteKeeps ==
  ASSUME CollectInv, NEW c \in Callers, Demote(c)
  PROVE  CollectInv'
<1>t. /\ TypeOK /\ Carries(c) /\ At(c, "demote") /\ ~At(c, "idle") /\ EndOp(c)
      /\ UNCHANGED <<exitFile, record, attempts, due, observed, restarts>>
      /\ Fault \/ UNCHANGED budget
      /\ job \in Job
      /\ \/ job' = job
         \/ job' = [job EXCEPT !.status = IF @ = "collected" THEN @ ELSE "failed"]
  BY DEF CollectInv, TypeOK, Demote, At, Fault, budget
<1>q. observed' => observed
  BY <1>t
<1>1. /\ job' \in Job /\ job'.code = job.code /\ job'.cancel = job.cancel
      /\ job'.status = "cancelled" => job.status = "cancelled"
      /\ job'.status = "collected" => job.status = "collected"
  BY <1>t DEF Job, Settled
<1>2. SettledTrue'
  BY <1>t, <1>q, <1>1 DEF CollectInv, SettledTrue
<1>c. job.code \in {"zero", "nonzero"} => ExitClass(job', job'.code) = ExitClass(job, job.code)
  BY <1>1 DEF ExitClass
<1>3. RecordHonoursSettlement'
  <2>1. job.code \in {"zero", "nonzero", "none"}
    BY <1>t DEF Job, Code
  <2> QED
    BY <1>t, <1>1, <1>c, <2>1 DEF CollectInv, RecordTrue, RecordHonoursSettlement
<1>4. CancelledIffRequested'
  BY <1>t, <1>1 DEF CollectInv, RecordTrue, CancelledIffRequested
<1> QED
  BY <1>t, <1>1, <1>2, <1>3, <1>4, EndCarries, MoveKeeps DEF TypeOK, RecordTrue

(* The queue takes the next operation, which reads the job.                 *)
LEMMA BeginKeeps ==
  ASSUME CollectInv, NEW c \in Callers, Begin(c)
  PROVE  CollectInv'
<1> DEFINE x == [IdleOp EXCEPT !.pc = "checkpoint", !.seen = job]
<1>t. /\ TypeOK /\ op \in [Callers -> Op] /\ UNCHANGED <<diskVars, due, observed, budget>>
      /\ \A d \in Callers : At(d, "idle")
      /\ c \in Requests => attempts < MaxLedger
      /\ op' = [op EXCEPT ![c] = x]
  BY DEF CollectInv, TypeOK, Begin
<1>1. x \in Op /\ x.seen = job /\ x.pc = "checkpoint"
  BY <1>t, IdleIsOp DEF Op, Pc, IdleOp, TypeOK
<1> HIDE DEF x
<1>2. /\ op' \in [Callers -> Op] /\ op'[c] = x
      /\ \A d \in Callers : d # c => op'[d] = op[d] /\ op[d].pc = "idle"
  BY <1>t, <1>1 DEF At
<1>3. Alone'
  BY <1>2 DEF Alone, At
<1>4. ASSUME NEW d \in Callers
      PROVE  Carries(d)'
  BY <1>t, <1>1, <1>2 DEF Carries, At, diskVars
<1>q. observed' => observed
  BY <1>t
<1>5. SettledTrue' /\ RecordTrue'
  BY <1>t, <1>q, QuietMove DEF diskVars, budget
<1>6. TypeOK'
  BY <1>t, <1>2 DEF TypeOK, diskVars, budget
<1> QED
  BY <1>3, <1>4, <1>5, <1>6 DEF CollectInv

(* Time, the file exit_code and the host move under the operation.          *)
LEMMA AroundKeeps ==
  ASSUME CollectInv, IntervalElapses \/ ExitReplaced \/ UNCHANGED vars
  PROVE  CollectInv'
<1>t. /\ TypeOK /\ UNCHANGED <<job, record, attempts, observed, op, restarts>>
      /\ exitFile' \in Code \cup {"none", "invalid"} /\ due' \in BOOLEAN
      /\ faults' \in 0..MaxFaults
  <2>t. TypeOK
    BY DEF CollectInv
  <2>1. CASE IntervalElapses
    BY <2>t, <2>1 DEF TypeOK, IntervalElapses, diskVars, budget
  <2>2. CASE ExitReplaced
    <3>1. faults' \in 0..MaxFaults /\ restarts' = restarts
      BY <2>t, <2>2, BoundsAssumption DEF TypeOK, ExitReplaced, Fault
    <3> QED
      BY <2>t, <2>2, <3>1 DEF TypeOK, ExitReplaced
  <2>3. CASE UNCHANGED vars
    BY <2>t, <2>3 DEF TypeOK, vars, diskVars, budget
  <2> QED
    BY <2>1, <2>2, <2>3
<1>q. observed' => observed
  BY <1>t
<1>1. SettledTrue' /\ RecordTrue'
  BY <1>t, <1>q, QuietMove
<1>2. Alone'
  BY <1>t DEF CollectInv, Alone, At
<1>3. ASSUME NEW c \in Callers
      PROVE  Carries(c)'
  <2>1. Carries(c)
    BY DEF CollectInv
  <2> QED
    BY <1>t, <2>1 DEF Carries, At
<1> QED
  BY <1>t, <1>1, <1>2, <1>3 DEF CollectInv, TypeOK

LEMMA RestartKeeps ==
  ASSUME CollectInv, Restart
  PROVE  CollectInv'
<1>t. /\ TypeOK /\ UNCHANGED <<diskVars, due, faults>> /\ observed' = FALSE
      /\ op' = [c \in Callers |-> IdleOp]
  BY DEF CollectInv, Restart
<1>r. restarts' \in 0..MaxRestarts
  BY <1>t, BoundsAssumption DEF Restart, TypeOK
<1>1. op' \in [Callers -> Op] /\ \A c \in Callers : op'[c].pc = "idle"
  BY <1>t, IdleIsOp DEF IdleOp
<1>2. Alone' /\ \A c \in Callers : Carries(c)'
  BY <1>1 DEF Alone, Carries, At
<1>3. SettledTrue'
  BY <1>t DEF CollectInv, SettledTrue, diskVars
<1>4. RecordTrue'
  <2>1. job' = job /\ record' = record
    BY <1>t DEF diskVars
  <2> QED
    BY <2>1 DEF CollectInv, RecordTrue, RecordHonoursSettlement, CancelledIffRequested
<1>5. TypeOK'
  BY <1>t, <1>r, <1>1 DEF TypeOK, diskVars
<1> QED
  BY <1>2, <1>3, <1>4, <1>5 DEF CollectInv

LEMMA CollectInitial == Init => CollectInv
<1> SUFFICES ASSUME Init
             PROVE  CollectInv
  OBVIOUS
<1>1. /\ job \in Job /\ job.status # "collected" /\ (job.status = "cancelled" => job.cancel)
      /\ job.code \in Code \cup {"none"}
      /\ record = NoRecord /\ attempts = 0 /\ due = TRUE /\ restarts = 0 /\ faults = MaxFaults
      /\ op = [c \in Callers |-> IdleOp]
  BY DEF Init, SettledJob, Job
<1>o. observed \in BOOLEAN
  BY DEF Init
<1>2. /\ op \in [Callers -> Op] /\ \A c \in Callers : op[c].pc = "idle"
  BY <1>1, IdleIsOp DEF IdleOp
<1>3. exitFile \in Code \cup {"none", "invalid"}
  BY <1>1 DEF Init
<1>4. TypeOK
  BY <1>1, <1>o, <1>2, <1>3, BoundsAssumption DEF TypeOK
<1>5. Alone /\ \A c \in Callers : Carries(c)
  BY <1>2 DEF Alone, Carries, At
<1>6. SettledTrue
  BY <1>1 DEF SettledTrue
<1>7. RecordTrue
  BY <1>1 DEF RecordTrue, RecordHonoursSettlement, CancelledIffRequested, NoRecord
<1> QED
  BY <1>4, <1>5, <1>6, <1>7 DEF CollectInv

LEMMA CollectNext == CollectInv /\ [Next]_vars => CollectInv'
BY BeginKeeps, CheckpointKeeps, ReadExitKeeps, DraftKeeps, WriteKeeps, ProjectKeeps, LedgerKeeps,
   DemoteKeeps, AroundKeeps, RestartKeeps DEF Next, Step

(* The record of a run is written once, by the step that drafted it.        *)
LEMMA RecordFinalStep ==
  ASSUME CollectInv, [Next]_vars
  PROVE  /\ record # NoRecord => record' = record
         /\ record' # record /\ record'.wall => restarts = 0
<1>1. record' = record \/ \E c \in Callers : At(c, "write") /\ record' = op[c].draft
  BY DEF Next, Step, Begin, ReadCheckpoint, ReadExitCode, Draft, WriteRecord, Project, WriteLedger,
     Demote, IntervalElapses, ExitReplaced, Restart, vars, diskVars
<1> QED
  BY <1>1 DEF CollectInv, Carries, At

-----------------------------------------------------------------------------
(* Notification                                                            *)
Pcs == {"idle", "deliver", "resolve", "flush", "index"}
NotifyTypes ==
  /\ notify \in Notify!Notify
  /\ owner \in {"null", "deleted", "present"}
  /\ appends \in Nat /\ throws \in Nat /\ tries \in Nat
  /\ confirmed \in {"none", "appended", "flushed"}
  /\ pending \in Notify!Failure
  /\ delivery \in Nat /\ mounts \in Nat
  /\ delivering \in [pc : Pcs, epoch : Nat, seen : 0..MaxAttempts]

(* What is in the Session and its log.                                      *)
SessionTold ==
  /\ Notify!DeliveredIsDurable /\ Notify!ToldOnce
  /\ confirmed = "flushed" => durable
  /\ confirmed = "none" => appends <= throws

(* A failure that waits for its publication: the file is at its count, or    *)
(* one before it.                                                          *)
Counts(failure) ==
  /\ failure.notify.attempts = failure.before + 1
  /\ failure.notify.status = IF failure.notify.attempts >= MaxAttempts THEN "unreachable" ELSE "pending"
Half(failure) ==
  \/ notify.attempts = failure.before /\ notify.status = "pending"
  \/ notify.attempts = failure.notify.attempts /\ notify.status = failure.notify.status
Accounting ==
  /\ notify.attempts <= tries
  /\ notify.status = "pending" => notify.attempts < MaxAttempts
  /\ notify.status = "unreachable" => owner # "present" \/ tries >= MaxAttempts
  /\ pending = Notify!NoFailure => (~crashed => tries = notify.attempts)
  /\ pending # Notify!NoFailure =>
       /\ Counts(pending) /\ Half(pending)
       /\ pending.notify.attempts <= tries
       /\ ~crashed => tries = pending.notify.attempts

(* What the step has read of the file stands until it publishes.            *)
Reads ==
  /\ delivering.pc \in {"deliver", "resolve", "flush"} =>
       notify.status = "pending" /\ delivering.seen = notify.attempts
  /\ delivering.pc \in {"resolve", "flush"} => pending = Notify!NoFailure
  /\ delivering.pc = "index" => notify.status # "pending"

NotifyInv == NotifyTypes /\ SessionTold /\ Accounting /\ Reads

-----------------------------------------------------------------------------
LEMMA NotifyIdle == Notify!IdleOp \in [pc : Pcs, epoch : Nat, seen : 0..MaxAttempts]
BY BoundsAssumption DEF Notify!IdleOp, Pcs

(* Publishing a failure counts it once, whichever rename went wrong.        *)
LEMMA PublishCounts ==
  ASSUME NotifyInv, NEW f \in Notify!Failure, Notify!PublishFailure(f),
         Counts(f), f.notify.attempts <= tries', tries <= tries', tries' \in Nat,
         crashed' = crashed, ~crashed => tries' = f.notify.attempts,
         notify.status = "pending", Half(f), owner' = owner
  PROVE  /\ Accounting' /\ Reads' /\ notify' \in Notify!Notify
         /\ pending' \in Notify!Failure /\ notify'.status \in {"pending", "unreachable"}
         /\ delivering' \in [pc : Pcs, epoch : Nat, seen : 0..MaxAttempts]
         /\ UNCHANGED <<delivery, mounts>>
<1>t. /\ notify \in Notify!Notify /\ MaxAttempts \in Nat \ {0}
      /\ delivering \in [pc : Pcs, epoch : Nat, seen : 0..MaxAttempts]
      /\ f.notify \in Notify!Notify /\ f.before \in 0..MaxAttempts
  BY BoundsAssumption DEF NotifyInv, NotifyTypes, Notify!Failure
<1>f. f # Notify!NoFailure
  BY <1>t DEF Counts, Notify!NoFailure
<1> DEFINE counted == IF Notify!Committed(f) THEN notify ELSE f.notify
<1>c. /\ counted \in Notify!Notify /\ counted.attempts = f.notify.attempts
      /\ counted.status = f.notify.status
  BY <1>t DEF Notify!Committed
<1>p. \/ notify' = counted /\ pending' = Notify!NoFailure /\ Notify!After(notify'.status)
      \/ Notify!EndOp /\ pending' = f /\ notify' \in {notify, counted}
  BY DEF Notify!PublishFailure
<1>s. UNCHANGED <<delivery, mounts>>
  BY DEF Notify!PublishFailure, Notify!serviceVars
<1>n. Notify!NoFailure \in Notify!Failure
  BY BoundsAssumption DEF Notify!NoFailure, Notify!Failure, Notify!Notify, Notify!Status
<1> HIDE DEF counted
<1>a. f.notify.status = "unreachable" => tries' >= MaxAttempts
  BY <1>t DEF Counts, Notify!Notify
<1>b. f.notify.status = "pending" => f.notify.attempts < MaxAttempts
  BY <1>t DEF Counts, Notify!Notify
<1>d. f.notify.status \in {"pending", "unreachable"}
  BY DEF Counts
<1>1. CASE notify' = counted /\ pending' = Notify!NoFailure /\ Notify!After(notify'.status)
  <2>1. Accounting'
    BY <1>1, <1>c, <1>a, <1>b DEF Accounting
  <2>2. \/ notify'.status = "pending" /\ delivering' = Notify!IdleOp
        \/ notify'.status # "pending" /\ delivering' = [delivering EXCEPT !.pc = "index"]
    BY <1>1 DEF Notify!After, Notify!EndOp, Notify!Goto
  <2>3. Reads' /\ delivering' \in [pc : Pcs, epoch : Nat, seen : 0..MaxAttempts]
    BY <1>t, <2>2, NotifyIdle DEF Reads, Notify!IdleOp, Pcs
  <2> QED
    BY <1>1, <1>c, <1>d, <1>n, <1>s, <2>1, <2>3
<1>2. CASE Notify!EndOp /\ pending' = f /\ notify' \in {notify, counted}
  <2>1. Half(f)'
    BY <1>2, <1>c DEF Half
  <2>2. notify'.attempts <= tries'
    BY <1>2, <1>t, <1>c DEF NotifyInv, Accounting, Half, NotifyTypes, Notify!Notify
  <2>3. Accounting'
    BY <1>2, <1>c, <1>a, <1>b, <1>f, <2>1, <2>2 DEF Accounting, NotifyInv, Counts
  <2>4. Reads' /\ delivering' \in [pc : Pcs, epoch : Nat, seen : 0..MaxAttempts]
    BY <1>2, NotifyIdle DEF Reads, Notify!EndOp, Notify!IdleOp
  <2> QED
    BY <1>2, <1>t, <1>c, <1>d, <1>s, <2>3, <2>4
<1> QED
  BY <1>p, <1>1, <1>2

LEMMA FailAttemptKeeps ==
  ASSUME NotifyInv, Notify!FailAttempt, delivering.pc \in {"resolve", "flush"}, owner' = owner
  PROVE  /\ Accounting' /\ Reads' /\ notify' \in Notify!Notify /\ tries' \in Nat
         /\ pending' \in Notify!Failure /\ notify'.status \in {"pending", "unreachable"}
         /\ delivering' \in [pc : Pcs, epoch : Nat, seen : 0..MaxAttempts]
         /\ UNCHANGED <<delivery, mounts>>
<1> DEFINE f == [before |-> delivering.seen,
                 notify |-> [status |-> IF delivering.seen + 1 >= MaxAttempts THEN "unreachable"
                                        ELSE "pending",
                             attempts |-> delivering.seen + 1, detail |-> "failed"]]
<1>t. /\ notify.status = "pending" /\ delivering.seen = notify.attempts
      /\ pending = Notify!NoFailure /\ notify.attempts < MaxAttempts
      /\ tries \in Nat /\ notify.attempts <= tries /\ (~crashed => tries = notify.attempts)
      /\ MaxAttempts \in Nat /\ notify.attempts \in 0..MaxAttempts
  BY BoundsAssumption
  DEF NotifyInv, NotifyTypes, Accounting, Reads, Notify!Notify
<1>1. f \in Notify!Failure
  BY <1>t DEF Notify!Failure, Notify!Notify, Notify!Status
<1>2. /\ f.before = notify.attempts /\ f.notify.attempts = notify.attempts + 1
      /\ Counts(f)
  BY <1>t DEF Counts
<1>3. Notify!PublishFailure(f) /\ tries' = tries + 1 /\ crashed' = crashed
  BY DEF Notify!FailAttempt
<1> HIDE DEF f
<1>4. Half(f) /\ f.notify.attempts <= tries' /\ tries <= tries' /\ tries' \in Nat
  BY <1>t, <1>2, <1>3 DEF Half
<1>5. ~crashed => tries' = f.notify.attempts
  BY <1>t, <1>2, <1>3
<1> QED
  BY <1>t, <1>1, <1>2, <1>3, <1>4, <1>5, PublishCounts

LEMMA RepublishKeeps ==
  ASSUME NotifyInv, Notify!Republish
  PROVE  NotifyInv'
<1>t. /\ notify.status = "pending" /\ pending \in Notify!Failure /\ pending # Notify!NoFailure
      /\ Counts(pending) /\ Half(pending) /\ pending.notify.attempts <= tries
      /\ (~crashed => tries = pending.notify.attempts) /\ tries \in Nat
      /\ Notify!PublishFailure(pending)
  BY DEF NotifyInv, NotifyTypes, Accounting, Reads, Notify!Republish, Notify!At
<1>1. UNCHANGED <<durable, appends, throws, confirmed, tries, crashed, owner>>
  BY DEF Notify!Republish, Notify!PublishFailure, Notify!sessionVars, Notify!ghosts
<1>2. /\ Accounting' /\ Reads' /\ notify' \in Notify!Notify
      /\ pending' \in Notify!Failure /\ notify'.status \in {"pending", "unreachable"}
      /\ delivering' \in [pc : Pcs, epoch : Nat, seen : 0..MaxAttempts]
      /\ UNCHANGED <<delivery, mounts>>
  <2>1. /\ tries' = tries /\ crashed' = crashed /\ owner' = owner
    BY <1>1
  <2> QED
    BY <1>t, <2>1, PublishCounts
<1> QED
  BY <1>1, <1>2
  DEF NotifyInv, NotifyTypes, SessionTold, Notify!DeliveredIsDurable, Notify!ToldOnce

(* The end of a delivery: called delivered only when the log has the message, *)
(* unreachable only when there is no session.                               *)
LEMMA FinishKeeps ==
  ASSUME NotifyInv, NEW status \in {"delivered", "unreachable"}, Notify!Finish(status),
         delivering.pc \in {"deliver", "resolve", "flush"}, pending = Notify!NoFailure,
         status = "unreachable" => owner # "present"
  PROVE  /\ Accounting' /\ Reads' /\ notify' \in Notify!Notify
         /\ notify'.status \in {notify.status, status}
         /\ delivering' \in [pc : Pcs, epoch : Nat, seen : 0..MaxAttempts]
         /\ UNCHANGED <<delivery, mounts, owner, pending, tries, crashed>>
<1> DEFINE finished == [notify EXCEPT !.status = status, !.detail = "none"]
<1>t. /\ notify \in Notify!Notify /\ notify.status = "pending"
      /\ delivering \in [pc : Pcs, epoch : Nat, seen : 0..MaxAttempts]
  BY DEF NotifyInv, NotifyTypes, Reads
<1>f. /\ finished \in Notify!Notify /\ finished.attempts = notify.attempts
      /\ finished.status = status
  BY <1>t DEF Notify!Notify, Notify!Status
<1>u. UNCHANGED <<delivery, mounts, owner, pending, tries, crashed>>
  BY DEF Notify!Finish, Notify!serviceVars, Notify!ghosts
<1>p. \/ notify' = finished /\ Notify!Goto("index")
      \/ notify' \in {notify, finished} /\ Notify!EndOp
  BY DEF Notify!Finish
<1> HIDE DEF finished
<1>1. /\ notify'.attempts = notify.attempts /\ notify' \in Notify!Notify
      /\ notify'.status \in {notify.status, status}
  BY <1>t, <1>f, <1>p
<1>2. Accounting'
  BY <1>t, <1>u, <1>1 DEF NotifyInv, Accounting
<1>3. delivering' \in [pc : Pcs, epoch : Nat, seen : 0..MaxAttempts] /\ Reads'
  <2>1. CASE notify' = finished /\ Notify!Goto("index")
    BY <1>t, <1>f, <2>1 DEF Notify!Goto, Reads, Pcs
  <2>2. CASE Notify!EndOp
    BY <2>2, NotifyIdle DEF Notify!EndOp, Notify!IdleOp, Reads
  <2> QED
    BY <1>p, <2>1, <2>2
<1> QED
  BY <1>u, <1>1, <1>2, <1>3

LEMMA ResolveKeeps ==
  ASSUME NotifyInv, Notify!Resolve
  PROVE  NotifyInv'
<1>t. /\ delivering.pc = "deliver" /\ pending = Notify!NoFailure
      /\ UNCHANGED <<durable, appends, throws, confirmed>>
      /\ delivering \in [pc : Pcs, epoch : Nat, seen : 0..MaxAttempts]
  BY DEF Notify!Resolve, Notify!Deliverable, Notify!At, Notify!sessionVars, NotifyInv, NotifyTypes
<1>1. CASE owner = "null" /\ Notify!Finish("unreachable")
  <2>1. /\ Accounting' /\ Reads' /\ notify' \in Notify!Notify
        /\ notify'.status \in {notify.status, "unreachable"}
        /\ delivering' \in [pc : Pcs, epoch : Nat, seen : 0..MaxAttempts]
        /\ UNCHANGED <<delivery, mounts, owner, pending, tries, crashed>>
    BY <1>t, <1>1, FinishKeeps
  <2> QED
    BY <1>t, <2>1
    DEF NotifyInv, NotifyTypes, SessionTold, Notify!DeliveredIsDurable, Notify!ToldOnce
<1>2. CASE /\ Notify!Goto("resolve")
           /\ UNCHANGED <<notify, indexed, owner, pending, Notify!serviceVars, retryDue,
                          Notify!ghosts, publicationFaults, changes>>
  <2>1. /\ UNCHANGED <<notify, owner, pending, delivery, mounts, tries, crashed>>
        /\ delivering' = [delivering EXCEPT !.pc = "resolve"]
    BY <1>2 DEF Notify!serviceVars, Notify!ghosts, Notify!Goto
  <2>2. Reads' /\ delivering' \in [pc : Pcs, epoch : Nat, seen : 0..MaxAttempts]
    BY <1>t, <2>1 DEF NotifyInv, Reads, Pcs
  <2>3. Accounting'
    BY <2>1 DEF NotifyInv, Accounting, Half
  <2> QED
    BY <1>t, <2>1, <2>2, <2>3
    DEF NotifyInv, NotifyTypes, SessionTold, Notify!DeliveredIsDurable, Notify!ToldOnce
<1> QED
  BY <1>1, <1>2 DEF Notify!Resolve

(* A Session that is told has one message more and its receipt, or one throw. *)
LEMMA TellKeeps ==
  ASSUME NotifyInv, Notify!Tell, delivering.pc = "resolve", owner = "present"
  PROVE  NotifyInv'
<1>t. /\ pending = Notify!NoFailure /\ appends \in Nat /\ throws \in Nat
      /\ delivering \in [pc : Pcs, epoch : Nat, seen : 0..MaxAttempts]
      /\ notify.status = "pending"
  BY DEF NotifyInv, NotifyTypes, Reads
<1>1. CASE /\ Notify!Goto("flush") /\ confirmed \in {"none", "appended"}
           /\ confirmed' = "appended"
           /\ \/ confirmed = "none" /\ appends' = appends + 1
              \/ confirmed = "appended" /\ appends' = appends
           /\ UNCHANGED <<notify, owner, durable, throws, pending, delivery, mounts, tries, crashed>>
  <2>1. Reads' /\ delivering' \in [pc : Pcs, epoch : Nat, seen : 0..MaxAttempts]
    BY <1>t, <1>1 DEF NotifyInv, Reads, Notify!Goto, Pcs
  <2>2. Accounting'
    BY <1>1 DEF NotifyInv, Accounting, Half
  <2>3. SessionTold'
    BY <1>t, <1>1 DEF NotifyInv, SessionTold, Notify!DeliveredIsDurable, Notify!ToldOnce
  <2> QED
    BY <1>t, <1>1, <2>1, <2>2, <2>3 DEF NotifyInv, NotifyTypes
<1>2. CASE /\ confirmed = "none" /\ Notify!FailAttempt
           /\ \/ appends' = appends + 1 /\ throws' = throws + 1
              \/ UNCHANGED <<appends, throws>>
           /\ UNCHANGED <<durable, confirmed>>
  <2>1. owner' = owner
    BY <1>2 DEF Notify!FailAttempt, Notify!PublishFailure
  <2>2. /\ Accounting' /\ Reads' /\ notify' \in Notify!Notify /\ tries' \in Nat
        /\ pending' \in Notify!Failure /\ notify'.status \in {"pending", "unreachable"}
        /\ delivering' \in [pc : Pcs, epoch : Nat, seen : 0..MaxAttempts]
        /\ UNCHANGED <<delivery, mounts>>
    BY <2>1, <1>2, FailAttemptKeeps
  <2>3. SessionTold'
    BY <1>t, <1>2, <2>2 DEF NotifyInv, SessionTold, Notify!DeliveredIsDurable, Notify!ToldOnce
  <2> QED
    BY <1>t, <1>2, <2>1, <2>2, <2>3 DEF NotifyInv, NotifyTypes
<1>3. CASE /\ confirmed = "flushed" /\ Notify!Finish("delivered")
           /\ UNCHANGED <<durable, appends, throws, confirmed>>
  <2>1. /\ Accounting' /\ Reads' /\ notify' \in Notify!Notify
        /\ notify'.status \in {notify.status, "delivered"}
        /\ delivering' \in [pc : Pcs, epoch : Nat, seen : 0..MaxAttempts]
        /\ UNCHANGED <<delivery, mounts, owner, pending, tries, crashed>>
    BY <1>t, <1>3, FinishKeeps
  <2>2. SessionTold'
    BY <1>3, <2>1 DEF NotifyInv, SessionTold, Notify!DeliveredIsDurable, Notify!ToldOnce
  <2> QED
    BY <1>t, <1>3, <2>1, <2>2 DEF NotifyInv, NotifyTypes
<1> QED
  BY <1>1, <1>2, <1>3 DEF Notify!Tell, Notify!sessionVars, Notify!serviceVars, Notify!ghosts

(* Neither the Session nor its log is touched.                              *)
LEMMA AnsweredKeeps ==
  ASSUME NotifyInv, Notify!Answered
  PROVE  NotifyInv'
<1>t. /\ delivering.pc = "resolve" /\ pending = Notify!NoFailure
  BY DEF Notify!Answered, Notify!At, NotifyInv, Reads
<1>1. CASE owner = "deleted" /\ Notify!Finish("unreachable") /\ UNCHANGED Notify!sessionVars
  <2>1. /\ Accounting' /\ Reads' /\ notify' \in Notify!Notify
        /\ notify'.status \in {notify.status, "unreachable"}
        /\ delivering' \in [pc : Pcs, epoch : Nat, seen : 0..MaxAttempts]
        /\ UNCHANGED <<delivery, mounts, owner, pending, tries, crashed>>
    BY <1>t, <1>1, FinishKeeps
  <2> QED
    BY <1>1, <2>1 DEF NotifyInv, NotifyTypes, SessionTold, Notify!DeliveredIsDurable,
       Notify!ToldOnce, Notify!sessionVars
<1>2. CASE Notify!FailAttempt /\ UNCHANGED Notify!sessionVars
  <2>1. owner' = owner
    BY <1>2 DEF Notify!FailAttempt, Notify!PublishFailure
  <2>2. /\ Accounting' /\ Reads' /\ notify' \in Notify!Notify /\ tries' \in Nat
        /\ pending' \in Notify!Failure /\ notify'.status \in {"pending", "unreachable"}
        /\ delivering' \in [pc : Pcs, epoch : Nat, seen : 0..MaxAttempts]
        /\ UNCHANGED <<delivery, mounts>>
    BY <1>t, <2>1, <1>2, FailAttemptKeeps
  <2> QED
    BY <1>2, <2>1, <2>2 DEF NotifyInv, NotifyTypes, SessionTold, Notify!DeliveredIsDurable,
       Notify!ToldOnce, Notify!sessionVars
<1>3. CASE Notify!EndOp /\ UNCHANGED <<notify, owner, Notify!sessionVars, pending,
                                       Notify!serviceVars, Notify!ghosts>>
  <2>1. Reads' /\ delivering' \in [pc : Pcs, epoch : Nat, seen : 0..MaxAttempts]
    BY <1>3, NotifyIdle DEF Reads, Notify!EndOp, Notify!IdleOp
  <2>2. UNCHANGED <<notify, owner, durable, appends, throws, confirmed, pending, delivery, mounts,
                    tries, crashed>>
    BY <1>3 DEF Notify!sessionVars, Notify!serviceVars, Notify!ghosts
  <2>3. Accounting'
    BY <2>2 DEF NotifyInv, Accounting, Half
  <2> QED
    BY <2>1, <2>2, <2>3 DEF NotifyInv, NotifyTypes, SessionTold, Notify!DeliveredIsDurable,
       Notify!ToldOnce
<1> QED
  BY <1>t, <1>1, <1>2, <1>3, TellKeeps DEF Notify!Answered

LEMMA FlushedKeeps ==
  ASSUME NotifyInv, Notify!Flushed
  PROVE  NotifyInv'
<1>t. /\ delivering.pc = "flush" /\ pending = Notify!NoFailure /\ UNCHANGED <<appends, throws>>
      /\ notify.status = "pending"
  BY DEF Notify!Flushed, Notify!At, NotifyInv, Reads
<1>1. CASE durable' = TRUE /\ confirmed' = "flushed" /\ Notify!Finish("delivered")
  <2>1. /\ Accounting' /\ Reads' /\ notify' \in Notify!Notify
        /\ notify'.status \in {notify.status, "delivered"}
        /\ delivering' \in [pc : Pcs, epoch : Nat, seen : 0..MaxAttempts]
        /\ UNCHANGED <<delivery, mounts, owner, pending, tries, crashed>>
    BY <1>t, <1>1, FinishKeeps
  <2> QED
    BY <1>t, <1>1, <2>1 DEF NotifyInv, NotifyTypes, SessionTold, Notify!DeliveredIsDurable,
       Notify!ToldOnce
<1>2. CASE durable' \in {durable, TRUE} /\ Notify!FailAttempt /\ UNCHANGED confirmed
  <2>1. owner' = owner
    BY <1>2 DEF Notify!FailAttempt, Notify!PublishFailure
  <2>2. /\ Accounting' /\ Reads' /\ notify' \in Notify!Notify /\ tries' \in Nat
        /\ pending' \in Notify!Failure /\ notify'.status \in {"pending", "unreachable"}
        /\ delivering' \in [pc : Pcs, epoch : Nat, seen : 0..MaxAttempts]
        /\ UNCHANGED <<delivery, mounts>>
    BY <1>t, <2>1, <1>2, FailAttemptKeeps
  <2>3. durable => durable'
    BY <1>2
  <2>4. SessionTold'
    BY <1>t, <1>2, <2>2, <2>3
    DEF NotifyInv, SessionTold, Notify!DeliveredIsDurable, Notify!ToldOnce
  <2> QED
    BY <1>t, <1>2, <2>1, <2>2, <2>4 DEF NotifyInv, NotifyTypes
<1> QED
  BY <1>1, <1>2 DEF Notify!Flushed

(* A run that leaves the index has no failure left to count.                *)
LEMMA LeaveIndexKeeps ==
  ASSUME NotifyInv, Notify!LeaveIndex
  PROVE  NotifyInv'
<1>t. /\ notify.status # "pending" /\ pending' = Notify!NoFailure
      /\ UNCHANGED <<notify, owner, durable, appends, throws, confirmed, delivery, mounts, tries,
                     crashed>>
      /\ delivering' = Notify!IdleOp
  BY DEF Notify!LeaveIndex, Notify!At, NotifyInv, Reads, Notify!sessionVars, Notify!serviceVars,
     Notify!ghosts, Notify!EndOp
<1>1. Accounting'
  BY <1>t DEF NotifyInv, Accounting, Half
<1>2. Reads' /\ delivering' \in [pc : Pcs, epoch : Nat, seen : 0..MaxAttempts]
  BY <1>t, NotifyIdle DEF Reads, Notify!IdleOp
<1>3. Notify!NoFailure \in Notify!Failure
  BY BoundsAssumption DEF Notify!NoFailure, Notify!Failure, Notify!Notify, Notify!Status
<1> QED
  BY <1>t, <1>1, <1>2, <1>3
  DEF NotifyInv, NotifyTypes, SessionTold, Notify!DeliveredIsDurable, Notify!ToldOnce

LEMMA WaitKeeps ==
  ASSUME NotifyInv, Notify!Wait
  PROVE  NotifyInv'
<1>t. /\ delivering' = Notify!IdleOp
      /\ UNCHANGED <<owner, durable, appends, throws, confirmed, pending, delivery, mounts, tries,
                     crashed>>
      /\ notify' \in {notify, [notify EXCEPT !.detail = "waiting"]}
      /\ notify \in Notify!Notify
  BY DEF Notify!Wait, Notify!EndOp, Notify!sessionVars, Notify!serviceVars, Notify!ghosts,
     NotifyInv, NotifyTypes
<1>1. notify' \in Notify!Notify /\ notify'.attempts = notify.attempts /\ notify'.status = notify.status
  BY <1>t DEF Notify!Notify
<1>2. Accounting'
  BY <1>t, <1>1 DEF NotifyInv, Accounting, Half
<1>3. Reads' /\ delivering' \in [pc : Pcs, epoch : Nat, seen : 0..MaxAttempts]
  BY <1>t, NotifyIdle DEF Reads, Notify!IdleOp
<1> QED
  BY <1>t, <1>1, <1>2, <1>3
  DEF NotifyInv, NotifyTypes, SessionTold, Notify!DeliveredIsDurable, Notify!ToldOnce

(* What does not touch the file, the Session or the accounting.             *)
LEMMA ServicesKeep ==
  ASSUME NotifyInv,
         UNCHANGED <<notify, owner, durable, appends, throws, confirmed, pending, tries, crashed>>,
         delivery' \in Nat, mounts' \in Nat,
         \/ delivering' \in {delivering, Notify!IdleOp}
         \/ /\ delivering' \in [pc : Pcs, epoch : Nat, seen : 0..MaxAttempts]
            /\ delivering'.pc \in {"deliver", "index"}
            /\ delivering'.pc = "deliver" =>
                 notify.status = "pending" /\ delivering'.seen = notify.attempts
            /\ delivering'.pc = "index" => notify.status # "pending"
  PROVE  NotifyInv'
<1>1. Reads' /\ delivering' \in [pc : Pcs, epoch : Nat, seen : 0..MaxAttempts]
  BY NotifyIdle DEF NotifyInv, NotifyTypes, Reads, Notify!IdleOp
<1>2. Accounting'
  BY DEF NotifyInv, Accounting, Half
<1> QED
  BY <1>1, <1>2
  DEF NotifyInv, NotifyTypes, SessionTold, Notify!DeliveredIsDurable, Notify!ToldOnce

LEMMA NotifyBeginKeeps ==
  ASSUME NotifyInv, Notify!Begin
  PROVE  NotifyInv'
<1>t. /\ UNCHANGED <<notify, owner, durable, appends, throws, confirmed, pending, tries, crashed,
                     delivery, mounts>>
      /\ notify.attempts \in 0..MaxAttempts /\ delivery \in Nat /\ mounts \in Nat
  BY DEF Notify!Begin, Notify!sessionVars, Notify!serviceVars, Notify!ghosts, NotifyInv, NotifyTypes,
     Notify!Notify
<1>1. CASE notify.status = "pending"
  <2>1. delivering' = [pc |-> "deliver", epoch |-> delivery, seen |-> notify.attempts]
    BY <1>1 DEF Notify!Begin
  <2>2. /\ delivering' \in [pc : Pcs, epoch : Nat, seen : 0..MaxAttempts]
        /\ delivering'.pc = "deliver" /\ delivering'.seen = notify.attempts
    BY <1>t, <2>1 DEF Pcs
  <2> QED
    BY <1>t, <1>1, <2>2, ServicesKeep
<1>2. CASE notify.status # "pending"
  <2>1. delivering' = [Notify!IdleOp EXCEPT !.pc = "index"]
    BY <1>2 DEF Notify!Begin
  <2>2. /\ delivering' \in [pc : Pcs, epoch : Nat, seen : 0..MaxAttempts]
        /\ delivering'.pc = "index"
    BY <2>1, BoundsAssumption DEF Notify!IdleOp, Pcs
  <2> QED
    BY <1>t, <1>2, <2>2, ServicesKeep
<1> QED
  BY <1>1, <1>2

LEMMA NotifyHostKeeps ==
  ASSUME NotifyInv,
         \/ Notify!Revoked \/ Notify!TooEarly \/ Notify!IntervalElapses \/ Notify!Mount
         \/ Notify!Unmount \/ Notify!StopAdmission \/ Notify!Reload \/ UNCHANGED Notify!vars
  PROVE  NotifyInv'
<1>1. /\ UNCHANGED <<notify, owner, durable, appends, throws, confirmed, pending, tries, crashed>>
      /\ delivering' \in {delivering, Notify!IdleOp}
  BY DEF Notify!Revoked, Notify!TooEarly, Notify!IntervalElapses, Notify!Mount, Notify!Unmount,
     Notify!StopAdmission, Notify!Reload, Notify!sessionVars, Notify!serviceVars, Notify!ghosts,
     Notify!EndOp, Notify!vars
<1>2. delivery' \in Nat /\ mounts' \in Nat
  <2>1. delivery \in Nat /\ mounts \in Nat
    BY DEF NotifyInv, NotifyTypes
  <2> QED
    BY <2>1 DEF Notify!Revoked, Notify!TooEarly, Notify!IntervalElapses, Notify!Mount,
       Notify!Unmount, Notify!StopAdmission, Notify!Reload, Notify!serviceVars, Notify!vars
<1> QED
  BY <1>1, <1>2, ServicesKeep

(* A new Session has no receipts; its log is the old one.                   *)
LEMMA NewSessionKeeps ==
  ASSUME NotifyInv, Notify!NewSession, notify' = notify
  PROVE  SessionTold' /\ appends' \in Nat /\ throws' \in Nat
         /\ confirmed' \in {"none", "appended", "flushed"}
BY DEF Notify!NewSession, NotifyInv, SessionTold, Notify!DeliveredIsDurable, Notify!ToldOnce

LEMMA ReleaseKeeps ==
  ASSUME NotifyInv, Notify!ReleaseSession
  PROVE  NotifyInv'
<1>1. UNCHANGED <<notify, owner, pending, delivery, mounts, delivering, tries, crashed>>
  BY DEF Notify!ReleaseSession, Notify!serviceVars, Notify!ghosts
<1>2. SessionTold' /\ appends' \in Nat /\ throws' \in Nat
      /\ confirmed' \in {"none", "appended", "flushed"}
  BY <1>1, NewSessionKeeps DEF Notify!ReleaseSession
<1> QED
  BY <1>1, <1>2 DEF NotifyInv, NotifyTypes, Accounting, Half, Reads

LEMMA DeleteKeeps ==
  ASSUME NotifyInv, Notify!DeleteSession
  PROVE  NotifyInv'
<1>1. /\ UNCHANGED <<notify, pending, delivery, mounts, delivering, tries, crashed, durable, appends,
                     throws, confirmed>>
      /\ owner' = "deleted"
  BY DEF Notify!DeleteSession, Notify!serviceVars, Notify!ghosts, Notify!sessionVars
<1>2. Accounting'
  BY <1>1 DEF NotifyInv, Accounting, Half
<1>3. Reads'
  BY <1>1 DEF NotifyInv, Reads
<1> QED
  BY <1>1, <1>2, <1>3
  DEF NotifyInv, NotifyTypes, SessionTold, Notify!DeliveredIsDurable, Notify!ToldOnce

(* A crash forgets the accounting it could not publish, and nothing else.   *)
LEMMA CrashKeeps ==
  ASSUME NotifyInv, Notify!Crash
  PROVE  NotifyInv'
<1>1. /\ UNCHANGED <<notify, owner, mounts, tries>> /\ crashed' = TRUE /\ delivery' = 0
      /\ pending' = Notify!NoFailure /\ delivering' = Notify!IdleOp /\ Notify!NewSession
  BY DEF Notify!Crash, Notify!EndOp
<1>2. SessionTold' /\ appends' \in Nat /\ throws' \in Nat
      /\ confirmed' \in {"none", "appended", "flushed"}
  BY <1>1, NewSessionKeeps
<1>3. Accounting'
  BY <1>1 DEF NotifyInv, Accounting
<1>4. Reads' /\ delivering' \in [pc : Pcs, epoch : Nat, seen : 0..MaxAttempts]
  BY <1>1, NotifyIdle DEF Reads, Notify!IdleOp
<1>5. Notify!NoFailure \in Notify!Failure
  BY BoundsAssumption DEF Notify!NoFailure, Notify!Failure, Notify!Notify, Notify!Status
<1> QED
  BY <1>1, <1>2, <1>3, <1>4, <1>5 DEF NotifyInv, NotifyTypes

LEMMA NotifyInitial == Notify!Init => NotifyInv
<1> SUFFICES ASSUME Notify!Init
             PROVE  NotifyInv
  OBVIOUS
<1>1. /\ notify = [status |-> "pending", attempts |-> 0, detail |-> "none"]
      /\ owner \in {"null", "present"} /\ appends = 0 /\ throws = 0 /\ confirmed = "none"
      /\ pending = Notify!NoFailure /\ delivery = 0 /\ mounts = 0 /\ tries = 0
      /\ delivering = Notify!IdleOp
  BY DEF Notify!Init
<1>2. Notify!NoFailure \in Notify!Failure /\ notify \in Notify!Notify
  BY <1>1, BoundsAssumption DEF Notify!NoFailure, Notify!Failure, Notify!Notify, Notify!Status
<1>3. NotifyTypes
  BY <1>1, <1>2, NotifyIdle DEF NotifyTypes
<1>4. SessionTold
  BY <1>1 DEF SessionTold, Notify!DeliveredIsDurable, Notify!ToldOnce
<1>5. Accounting
  BY <1>1, BoundsAssumption DEF Accounting
<1>6. Reads
  BY <1>1 DEF Reads, Notify!IdleOp
<1> QED
  BY <1>3, <1>4, <1>5, <1>6 DEF NotifyInv

LEMMA NotifyNext == NotifyInv /\ [Notify!Next]_Notify!vars => NotifyInv'
BY NotifyBeginKeeps, NotifyHostKeeps, WaitKeeps, RepublishKeeps, ResolveKeeps, AnsweredKeeps,
   FlushedKeeps, LeaveIndexKeeps, ReleaseKeeps, DeleteKeeps, CrashKeeps
DEF Notify!Next, Notify!Step

(* A message is appended through services that are mounted and admitting.   *)
LEMMA AppendsWhenLive ==
  ASSUME NotifyInv, [Notify!Next]_Notify!vars, appends' > appends
  PROVE  Notify!Live
<1>1. appends \in Nat
  BY DEF NotifyInv, NotifyTypes
<1>2. appends' # appends /\ appends' # 0
  BY <1>1
<1>3. CASE Notify!Answered
  BY <1>2, <1>3 DEF Notify!Answered, Notify!sessionVars
<1>4. CASE Notify!ReleaseSession \/ Notify!Crash
  BY <1>2, <1>4 DEF Notify!ReleaseSession, Notify!Crash, Notify!NewSession
<1>5. CASE \/ Notify!Begin \/ Notify!Wait \/ Notify!Revoked \/ Notify!Republish \/ Notify!TooEarly
           \/ Notify!Resolve \/ Notify!Flushed \/ Notify!LeaveIndex \/ Notify!IntervalElapses
           \/ Notify!Mount \/ Notify!Unmount \/ Notify!StopAdmission \/ Notify!Reload
           \/ Notify!DeleteSession \/ UNCHANGED Notify!vars
  BY <1>2, <1>5 DEF Notify!Begin, Notify!Wait, Notify!Revoked, Notify!Republish, Notify!TooEarly,
     Notify!Resolve, Notify!Flushed, Notify!LeaveIndex, Notify!IntervalElapses, Notify!Mount,
     Notify!Unmount, Notify!StopAdmission, Notify!Reload, Notify!DeleteSession, Notify!vars,
     Notify!sessionVars
<1> QED
  BY <1>3, <1>4, <1>5 DEF Notify!Next, Notify!Step

-----------------------------------------------------------------------------
(* The composition: a step of one part leaves the other as it is.           *)
LEMMA PartSafety == PartSpec => PartInit /\ [][PartNext]_partVars
BY PTL DEF PartSpec

LEMMA PartSteps ==
  ASSUME [PartNext]_partVars
  PROVE  [Next]_vars /\ [Notify!Next]_Notify!vars
BY DEF PartNext, Collects, Notifies, partVars, notifyVars, vars, Notify!vars, Notify!sessionVars,
   Notify!serviceVars, Notify!ghosts

(* Both inductive invariants hold in every reachable state.                 *)
THEOREM Invariance == PartSpec => [](CollectInv /\ NotifyInv)
<1>1. PartInit => CollectInv /\ NotifyInv
  BY CollectInitial, NotifyInitial DEF PartInit
<1>2. CollectInv /\ NotifyInv /\ [PartNext]_partVars => (CollectInv /\ NotifyInv)'
  BY PartSteps, CollectNext, NotifyNext
<1> QED
  BY <1>1, <1>2, PartSafety, PTL

(* Every record and every operation of a collection has its type, so that    *)
(* the ledger stays within its bound.                                      *)
THEOREM TypeCorrect == PartSpec => []TypeOK
<1>1. CollectInv => TypeOK
  BY DEF CollectInv
<1> QED
  BY <1>1, Invariance, PTL

(* Whatever happens to exit_code and however often collection is tried, the *)
(* record agrees with the settlement and tells cancelled from lost.         *)
THEOREM RecordsAreTrue == PartSpec => []RecordTrue
<1>1. CollectInv => RecordTrue
  BY DEF CollectInv
<1> QED
  BY <1>1, Invariance, PTL

(* Nobody rewrites a record, over retries, requests and restarts, and only   *)
(* the host that saw the run end gives it a duration.                       *)
THEOREM RecordsAreFinal == PartSpec => RecordFinal
<1>1. CollectInv /\ [PartNext]_partVars =>
        /\ [record # NoRecord => record' = record]_vars
        /\ [record' # record /\ record'.wall => restarts = 0]_vars
  BY PartSteps, RecordFinalStep
<1> QED
  BY <1>1, Invariance, PartSafety, PTL DEF RecordFinal, RecordImmutable, DurationIsWitnessed

(* Delivered means durable, the session is told once, each failure counts    *)
(* once, and nothing is appended for a registry that is closing.            *)
THEOREM NotificationsAreTrue == PartSpec => NotificationTrue
<1>1. NotifyInv => Notify!DeliveredIsDurable /\ Notify!ToldOnce
  BY DEF NotifyInv, SessionTold
<1>2. NotifyInv => Notify!FailuresCountOnce
  <2> SUFFICES ASSUME NotifyInv
               PROVE  Notify!FailuresCountOnce
    OBVIOUS
  <2>1. /\ tries \in Nat /\ notify \in Notify!Notify /\ pending \in Notify!Failure
        /\ notify.attempts \in Nat /\ pending.before \in Nat
    BY DEF NotifyInv, NotifyTypes, Notify!Notify, Notify!Failure
  <2> QED
    BY <2>1 DEF NotifyInv, Accounting, Counts, Half, Notify!FailuresCountOnce
<1>3. NotifyInv /\ [PartNext]_partVars => [appends' > appends => Notify!Live]_Notify!vars
  BY PartSteps, AppendsWhenLive
<1> QED
  BY <1>1, <1>2, <1>3, Invariance, PartSafety, PTL DEF NotificationTrue, Notify!NoAppendWhenRevoked
=============================================================================
