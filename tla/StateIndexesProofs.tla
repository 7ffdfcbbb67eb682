------------------------- MODULE StateIndexesProofs -------------------------
(***************************************************************************)
(* Proofs about StateIndexes, for any set of hosts, any set of runs and    *)
(* any bound on the queue.                                                 *)
(*                                                                         *)
(* The invariants of the module are not inductive: that the owner is named *)
(* by guard and metadata needs the same of the steps before and after      *)
(* ownership (LockInv), and that the copies mirror the files needs what    *)
(* the operation in flight found when it started (OpInv).                  *)
(***************************************************************************)
EXTENDS StateIndexes, TLAPS

(* Whoever is past the flock holds the guard, until it closes the          *)
(* descriptor; what it has found of the last owner stays true; whoever has *)
(* published is named until it unlinks.                                    *)
LockInv ==
  \A h \in Host :
    /\ pc[h] # "none" => guard = h
    /\ pc[h] = "inspected" => meta = NoHost \/ meta \notin alive
    /\ pc[h] \in {"locked", "open", "draining", "unlinking"} => meta = h

(* An operation in flight is accepted work of a store in use, and its run  *)
(* still stands in the copies where the start of the operation saw it.     *)
OpInv ==
  \A h \in Host : op[h] # NoOp =>
    /\ pc[h] \in {"open", "draining"}
    /\ pending[h] > 0
    /\ op[h].stage \in {"add", "added"} =>
         op[h].run \notin mem[h].active \cup mem[h].completed
    /\ op[h].stage \in {"complete", "completed"} =>
         op[h].run \in mem[h].active \ mem[h].completed
    /\ op[h].stage \in {"retire", "retired"} => op[h].run \in mem[h].completed

IInv == TypeOK /\ LockInv /\ OpInv /\ MirrorsDisk

(* The initial state satisfies the inductive invariant.                    *)
LEMMA InitIInv == Init => IInv
  BY NoHostAssumption, MaxPendingAssumption
  DEF Init, IInv, TypeOK, LockInv, OpInv, MirrorsDisk, NoOp, Op, OpStage,
      StoreState, Empty

(* Taking, checking, publishing and giving back the lock touches neither   *)
(* the files nor the copies of a store in use.                             *)
LEMMA LockStepIInv ==
  ASSUME IInv, NEW h \in Host, LockStep(h)
  PROVE  IInv'
<1> USE NoHostAssumption, MaxPendingAssumption
<1> USE DEF IInv, TypeOK, LockInv, OpInv, MirrorsDisk, StoreState, At, Goto, OwnerLives
<1>1. CASE TakeGuard(h)
  BY <1>1 DEF TakeGuard
<1>2. CASE Refuse(h)
  BY <1>2 DEF Refuse
<1>3. CASE Publish(h)
  BY <1>3 DEF Publish
<1>4. CASE Load(h)
  <2> USE <1>4 DEF Load
  <2>1. op[h] = NoOp
    OBVIOUS
  <2>2. (TypeOK /\ LockInv /\ OpInv)'
    BY <2>1
  <2>3. ASSUME NEW g \in Host, pc'[g] \in {"open", "draining"}
        PROVE  /\ g = h
               /\ mem'[g] = [active |-> active, completed |-> completed]
    BY <2>3
  <2>4. MirrorsDisk'
    BY <2>1, <2>3 DEF NoOp
  <2> QED
    BY <2>2, <2>4
<1>5. CASE Unlink(h)
  BY <1>5 DEF Unlink
<1>6. CASE CloseGuard(h)
  BY <1>6 DEF CloseGuard, Empty
<1>7. CASE Inspect(h)
  BY <1>7 DEF Inspect
<1> QED
  BY <1>1, <1>2, <1>3, <1>4, <1>5, <1>6, <1>7 DEF LockStep

(* The owner of an operation in flight is the only store in use, so what   *)
(* it writes disturbs nobody else's copies.                                *)
LEMMA OnlyUser ==
  ASSUME IInv, NEW h \in Host, Running(h)
  PROVE  \A g \in Host : pc[g] \in {"open", "draining"} => g = h
  BY DEF IInv, LockInv, Running

(* Starting an operation reads the copies and changes neither them nor the *)
(* files.                                                                  *)
LEMMA StartIInv ==
  ASSUME IInv, NEW h \in Host, Start(h)
  PROVE  IInv'
<1> USE MaxPendingAssumption
<1> USE DEF IInv, TypeOK, LockInv, OpInv, MirrorsDisk, Start, Running, Settle, SetOp
<1>1. PICK r \in Run : StartAdd(h, r) \/ StartRemove(h, r) \/ StartComplete(h, r)
  OBVIOUS
<1>2. \/ op' = [op EXCEPT ![h] = NoOp] /\ pending' = [pending EXCEPT ![h] = @ - 1]
      \/ \E s \in {"add", "remove", "complete", "retire"} :
           /\ op' = [op EXCEPT ![h] = [stage |-> s, run |-> r]]
           /\ pending' = pending
           /\ s = "add" => r \notin mem[h].active \cup mem[h].completed
           /\ s = "complete" => r \in mem[h].active \ mem[h].completed
           /\ s = "retire" => r \in mem[h].completed
  BY <1>1 DEF StartAdd, StartRemove, StartComplete
<1>3. CASE op' = [op EXCEPT ![h] = NoOp] /\ pending' = [pending EXCEPT ![h] = @ - 1]
  <2>1. pending[h] - 1 \in 0..MaxPending
    OBVIOUS
  <2> QED
    BY <1>3, <2>1 DEF NoOp
<1>4. ASSUME NEW s \in {"add", "remove", "complete", "retire"},
             op' = [op EXCEPT ![h] = [stage |-> s, run |-> r]],
             pending' = pending,
             s = "add" => r \notin mem[h].active \cup mem[h].completed,
             s = "complete" => r \in mem[h].active \ mem[h].completed,
             s = "retire" => r \in mem[h].completed
      PROVE  IInv'
  <2>1. [stage |-> s, run |-> r] \in Op
    BY <1>4 DEF Op, OpStage
  <2>2. TypeOK' /\ LockInv'
    BY <1>4, <2>1
  <2>3. OpInv'
    BY <1>4
  <2>4. MirrorsDisk'
    BY <1>4 DEF NoOp
  <2> QED
    BY <2>2, <2>3, <2>4
<1> QED
  BY <1>2, <1>3, <1>4

(* A write puts into one file what the copies and the operation say.       *)
LEMMA WriteIInv ==
  ASSUME IInv, NEW h \in Host, Write(h)
  PROVE  IInv'
<1> USE DEF IInv, TypeOK, LockInv, OpInv, Write, Running, SetOp, WriteActive
<1>1. op[h] # NoOp /\ op[h] \in Op
  BY DEF NoOp, AddWritten, RemoveWritten, CompleteWritten, RetireWritten
<1>2. \A g \in Host : pc[g] \in {"open", "draining"} => g = h
  BY OnlyUser
<1>3. /\ active = mem[h].active
      /\ completed = mem[h].completed
  BY DEF MirrorsDisk, AddWritten, RemoveWritten, CompleteWritten, RetireWritten
<1>4. PICK s \in {"added", "removed", "completed", "retired"} :
        op' = [op EXCEPT ![h] = [op[h] EXCEPT !.stage = s]]
  BY DEF AddWritten, RemoveWritten, CompleteWritten, RetireWritten
<1>5. [op[h] EXCEPT !.stage = s] \in Op
  BY <1>1 DEF Op, OpStage
<1>6. TypeOK' /\ LockInv'
  BY <1>1, <1>4, <1>5 DEF AddWritten, RemoveWritten, CompleteWritten, RetireWritten, Op
<1>7. OpInv'
  BY <1>1, <1>4 DEF AddWritten, RemoveWritten, CompleteWritten, RetireWritten, Op
<1>8. MirrorsDisk'
  BY <1>1, <1>2, <1>3, <1>4
  DEF MirrorsDisk, AddWritten, RemoveWritten, CompleteWritten, RetireWritten, Op
<1> QED
  BY <1>6, <1>7, <1>8

(* A failed write only settles its operation.                              *)
LEMMA WriteFailsIInv ==
  ASSUME IInv, NEW h \in Host, WriteFails(h)
  PROVE  IInv'
<1> USE MaxPendingAssumption
<1> USE DEF IInv, TypeOK, LockInv, OpInv, WriteFails, Running, Settle, SetOp
<1>1. op[h] # NoOp /\ pending[h] > 0
  BY DEF NoOp
<1>2. pending[h] - 1 \in 0..MaxPending
  BY <1>1
<1>3. (TypeOK /\ LockInv /\ OpInv)'
  BY <1>2
<1>4. MirrorsDisk'
  BY DEF MirrorsDisk, NoOp
<1> QED
  BY <1>3, <1>4

(* The continuation of a write catches the copies up with the file.        *)
LEMMA AssignIInv ==
  ASSUME IInv, NEW h \in Host, Assign(h)
  PROVE  IInv'
<1> USE MaxPendingAssumption
<1> DEFINE r == op[h].run
<1>1. /\ op[h] # NoOp /\ pending[h] > 0 /\ op[h] \in Op
      /\ pc[h] \in {"open", "draining"}
      /\ UNCHANGED <<alive, guard, meta, active, completed, pc>>
  BY DEF Assign, Running, NoOp, IInv, TypeOK, OpInv
<1>2. /\ r \in Run
      /\ pending[h] - 1 \in 0..MaxPending
  BY <1>1 DEF Op, IInv, TypeOK
<1>3. \A g \in Host : pc[g] \in {"open", "draining"} => g = h
  BY OnlyUser DEF Assign
<1>4. LockInv'
  BY <1>1 DEF IInv, LockInv
<1>5. CASE op[h].stage \in {"added", "removed", "retired"}
  <2>1. /\ op' = [op EXCEPT ![h] = NoOp]
        /\ pending' = [pending EXCEPT ![h] = @ - 1]
    BY <1>5 DEF Assign, Settle, SetOp
  <2> DEFINE S == IF op[h].stage = "added" THEN mem[h].active \cup {r}
                                           ELSE mem[h].active \ {r}
  <2>2. S \in SUBSET Run /\ mem' = [mem EXCEPT ![h].active = S]
    <3>1. S \in SUBSET Run
      BY <1>2 DEF IInv, TypeOK
    <3>2. mem' = [mem EXCEPT ![h].active = S]
      BY <1>5 DEF Assign
    <3> QED
      BY <3>1, <3>2
  <2>3. /\ mem' \in [Host -> [active : SUBSET Run, completed : SUBSET Run]]
        /\ mem'[h].active = S
        /\ mem'[h].completed = mem[h].completed
    BY <2>2 DEF IInv, TypeOK
  <2>4. TypeOK'
    BY <1>1, <1>2, <2>1, <2>3 DEF IInv, TypeOK
  <2>5. OpInv'
    BY <1>1, <1>3, <2>1, <2>4 DEF IInv, TypeOK, OpInv, NoOp
  <2>6. MirrorsDisk'
    BY <1>1, <1>3, <1>5, <2>1, <2>2, <2>3 DEF IInv, TypeOK, MirrorsDisk, NoOp
  <2> QED
    BY <1>4, <2>4, <2>5, <2>6 DEF IInv
<1>6. CASE op[h].stage = "completed"
  <2>1. /\ op' = [op EXCEPT ![h] = [op[h] EXCEPT !.stage = "retire"]]
        /\ pending' = pending
        /\ mem' = [mem EXCEPT ![h].completed = @ \cup {r}]
    BY <1>6 DEF Assign, SetOp
  <2>2. [op[h] EXCEPT !.stage = "retire"] \in Op
    BY <1>1 DEF Op, OpStage
  <2>3. /\ mem' \in [Host -> [active : SUBSET Run, completed : SUBSET Run]]
        /\ mem'[h].active = mem[h].active
        /\ mem'[h].completed = mem[h].completed \cup {r}
    BY <1>2, <2>1 DEF IInv, TypeOK
  <2>4. /\ op'[h].stage = "retire"
        /\ op'[h].run = r
    BY <1>1, <2>1 DEF Op, IInv, TypeOK
  <2>5. TypeOK'
    BY <1>1, <2>1, <2>2, <2>3 DEF IInv, TypeOK
  <2>6. OpInv'
    BY <1>1, <1>3, <2>1, <2>3, <2>4, <2>5 DEF IInv, TypeOK, OpInv
  <2>7. MirrorsDisk'
    BY <1>1, <1>3, <1>6, <2>3, <2>4 DEF IInv, TypeOK, MirrorsDisk
  <2> QED
    BY <1>4, <2>5, <2>6, <2>7 DEF IInv
<1> QED
  BY <1>5, <1>6 DEF Assign

(* Asking, closing and dying leave files and the other stores alone.       *)
LEMMA OtherStepIInv ==
  ASSUME IInv, NEW h \in Host, Enqueue(h) \/ Close(h) \/ Drained(h) \/ Crash(h)
  PROVE  IInv'
<1> USE NoHostAssumption, MaxPendingAssumption
<1> USE DEF IInv, TypeOK, LockInv, OpInv, At, Goto
<1>1. CASE Enqueue(h)
  BY <1>1 DEF Enqueue, MirrorsDisk
<1>2. CASE Close(h)
  BY <1>2 DEF Close, MirrorsDisk, StoreState
<1>3. CASE Drained(h)
  <2>1. op[h] = NoOp
    BY <1>3 DEF Drained
  <2> QED
    BY <1>3, <2>1 DEF Drained, MirrorsDisk, StoreState
<1>4. CASE Crash(h)
  <2>1. TypeOK' /\ LockInv' /\ OpInv'
    BY <1>4 DEF Crash, SetOp, Empty, StoreState, NoOp
  <2>2. MirrorsDisk'
    BY <1>4 DEF Crash, SetOp, MirrorsDisk, Empty
  <2> QED
    BY <2>1, <2>2
<1> QED
  BY <1>1, <1>2, <1>3, <1>4

(* Every step preserves the inductive invariant.                           *)
LEMMA NextIInv == IInv /\ [Next]_vars => IInv'
<1> SUFFICES ASSUME IInv, [Next]_vars PROVE IInv'
  OBVIOUS
<1>1. CASE UNCHANGED vars
  BY <1>1 DEF vars, IInv, TypeOK, LockInv, OpInv, MirrorsDisk
<1>2. ASSUME NEW h \in Host,
             LockStep(h) \/ Enqueue(h) \/ QueueStep(h) \/ Close(h) \/ Drained(h) \/ Crash(h)
      PROVE  IInv'
  BY <1>2, LockStepIInv, StartIInv, WriteIInv, WriteFailsIInv, AssignIInv, OtherStepIInv
  DEF QueueStep
<1> QED
  BY <1>1, <1>2 DEF Next

(* The inductive invariant holds in every behaviour.                       *)
THEOREM Invariance == Spec => []IInv
  BY InitIInv, NextIInv, PTL DEF Spec

(* Type correctness of the state directory.                                *)
THEOREM TypeCorrect == Spec => []TypeOK
  BY Invariance, PTL DEF IInv

(* Whoever uses the directory is the process the guard and the metadata    *)
(* name.                                                                   *)
THEOREM OwnerNamed == Spec => []OwnerIsNamed
<1>1. IInv => OwnerIsNamed
  BY DEF IInv, LockInv, OwnerIsNamed, Owns
<1> QED
  BY <1>1, Invariance, PTL

(* At most one process uses the directory.                                 *)
THEOREM MutualExclusion == Spec => []OneOwner
<1>1. IInv => OneOwner
  BY DEF IInv, LockInv, OneOwner, Owns
<1> QED
  BY <1>1, Invariance, PTL

(* The owner's copies are the files.                                       *)
THEOREM CopiesMirror == Spec => []MirrorsDisk
  BY Invariance, PTL DEF IInv

-----------------------------------------------------------------------------
(* What a step may do.                                                     *)

(* The metadata changes by a publication over a stale owner or by the      *)
(* owner's own release, and by nothing else.                               *)
LEMMA MetaStep ==
  ASSUME IInv, [Next]_vars, meta # NoHost, meta' # meta
  PROVE  meta \notin alive \/ pc[meta] = "unlinking"
<1>1. PICK h \in Host : Publish(h) \/ Unlink(h)
  BY DEF Next, vars, LockStep, TakeGuard, Inspect, Refuse, Load, CloseGuard, Enqueue, QueueStep,
         Start, Write, WriteFails, Assign, Close, Drained, Crash
<1>2. CASE Publish(h)
  BY <1>2 DEF Publish, At, IInv, LockInv
<1>3. CASE Unlink(h)
  BY <1>3 DEF Unlink, At, IInv, LockInv
<1> QED
  BY <1>1, <1>2, <1>3

(* Only a stale owner is taken over.                                       *)
THEOREM StaleOwner == Spec => OnlyStaleOwnerReplaced
<1>1. IInv /\ [Next]_vars =>
        [meta # NoHost /\ meta' # meta => meta \notin alive \/ pc[meta] = "unlinking"]_vars
  BY MetaStep
<1> QED
  BY <1>1, Invariance, PTL DEF Spec, OnlyStaleOwnerReplaced

(* What each of the four writes does to the files, computed from copies    *)
(* that are the files.                                                     *)
LEMMA WriteEffect ==
  ASSUME IInv, NEW h \in Host, Write(h), NEW r, r = op[h].run
  PROVE  /\ r \in Run
         /\ \/ /\ op[h].stage = "add"
               /\ active' = active \cup {r} /\ completed' = completed
               /\ r \notin active \cup completed
               /\ op' = [op EXCEPT ![h].stage = "added"]
            \/ /\ op[h].stage = "remove"
               /\ active' = active \ {r} /\ completed' = completed
               /\ op' = [op EXCEPT ![h].stage = "removed"]
            \/ /\ op[h].stage = "complete"
               /\ active' = active /\ completed' = completed \cup {r}
               /\ r \in active \ completed
               /\ op' = [op EXCEPT ![h].stage = "completed"]
            \/ /\ op[h].stage = "retire"
               /\ active' = active \ {r} /\ completed' = completed
               /\ r \in completed
               /\ op' = [op EXCEPT ![h].stage = "retired"]
<1>1. op[h] # NoOp /\ op[h] \in Op /\ pc[h] \in {"open", "draining"}
  BY DEF Write, Running, NoOp, AddWritten, RemoveWritten, CompleteWritten, RetireWritten,
         IInv, TypeOK
<1>2. active = mem[h].active /\ completed = mem[h].completed
  BY <1>1 DEF IInv, MirrorsDisk, Write, AddWritten, RemoveWritten, CompleteWritten, RetireWritten
<1>3. r \in Run
  BY <1>1 DEF Op
<1> QED
  BY <1>1, <1>2, <1>3
  DEF Write, AddWritten, RemoveWritten, CompleteWritten, RetireWritten, WriteActive, SetOp,
      IInv, OpInv

(* Steps other than a write leave both files alone.                        *)
LEMMA FilesUnchanged ==
  ASSUME [Next]_vars, \A h \in Host : ~Write(h)
  PROVE  UNCHANGED diskVars
  BY DEF Next, vars, diskVars, LockStep, TakeGuard, Inspect, Refuse, Publish, Load, Unlink, CloseGuard,
         Enqueue, QueueStep, Start, WriteFails, Assign, Close, Drained, Crash

(* A run disappears from both files only by a withdrawal in progress.      *)
THEOREM RunsKept == Spec => NoRunLost
<1>1. ASSUME IInv, [Next]_vars, NEW r \in active \cup completed
      PROVE  r \in active' \cup completed' \/ r \in Withdrawals
  <2>1. CASE \A h \in Host : ~Write(h)
    BY <1>1, <2>1, FilesUnchanged DEF diskVars
  <2>2. ASSUME NEW h \in Host, Write(h)
        PROVE  r \in active' \cup completed' \/ r \in Withdrawals
    <3>1. op[h] \in Op
      BY <1>1, <2>2 DEF Write, NoOp, AddWritten, RemoveWritten, CompleteWritten, RetireWritten,
                        IInv, TypeOK
    <3>2. CASE op[h].stage = "remove" /\ op[h].run = r
      <4>1. op[h] = [stage |-> "remove", run |-> r]
        BY <3>1, <3>2 DEF Op
      <4> QED
        BY <1>1, <4>1, WriteEffect, <2>2, <3>2 DEF Withdrawals
    <3>3. CASE ~(op[h].stage = "remove" /\ op[h].run = r)
      BY <1>1, <2>2, <3>3, WriteEffect
    <3> QED
      BY <3>2, <3>3
  <2> QED
    BY <2>1, <2>2
<1>2. IInv /\ [Next]_vars =>
        [\A r \in active \cup completed : r \in active' \cup completed' \/ r \in Withdrawals]_vars
  BY <1>1
<1> QED
  BY <1>2, Invariance, PTL DEF Spec, NoRunLost

-----------------------------------------------------------------------------
(* The two files implement the one index of RunIndex.                      *)

(* A write moves its run along the index, or repeats what it already says. *)
LEMMA WriteRefines ==
  ASSUME IInv, NEW h \in Host, Write(h)
  PROVE  [Index!IndexNext]_(Index!ivars)
<1>1. PICK r : r = op[h].run
  OBVIOUS
<1> DEFINE entry == [q \in Run |-> EntryOf(q)]
<1>2. /\ r \in Run
      /\ \/ /\ op[h].stage = "add"
            /\ active' = active \cup {r} /\ completed' = completed
            /\ r \notin active \cup completed
            /\ op' = [op EXCEPT ![h].stage = "added"]
         \/ /\ op[h].stage = "remove"
            /\ active' = active \ {r} /\ completed' = completed
            /\ op' = [op EXCEPT ![h].stage = "removed"]
         \/ /\ op[h].stage = "complete"
            /\ active' = active /\ completed' = completed \cup {r}
            /\ r \in active \ completed
            /\ op' = [op EXCEPT ![h].stage = "completed"]
         \/ /\ op[h].stage = "retire"
            /\ active' = active \ {r} /\ completed' = completed
            /\ r \in completed
            /\ op' = [op EXCEPT ![h].stage = "retired"]
  BY <1>1, WriteEffect
<1>3. op[h] \in Op /\ op \in [Host -> Op \cup {NoOp}]
  BY DEF IInv, TypeOK, Write, NoOp, AddWritten, RemoveWritten, CompleteWritten, RetireWritten
<1>4. op[h] = [stage |-> op[h].stage, run |-> r]
  BY <1>1, <1>3 DEF Op
<1>5. Withdrawals' = Withdrawals
  <2>1. PICK next \in OpStage :
             /\ op' = [op EXCEPT ![h].stage = next]
             /\ next \in {"remove", "removed"} <=> op[h].stage \in {"remove", "removed"}
    BY <1>2 DEF OpStage
  <2>2. op'[h] = [stage |-> next, run |-> r]
    BY <1>3, <1>4, <2>1
  <2>3. ASSUME NEW g \in Host, g # h
        PROVE  op'[g] = op[g]
    BY <1>3, <2>1, <2>3
  <2>4. ASSUME NEW q \in Run
        PROVE  (\E g \in Host : \E s \in {"remove", "removed"} : op[g] = [stage |-> s, run |-> q])
               <=> (\E g \in Host : \E s \in {"remove", "removed"} : op'[g] = [stage |-> s, run |-> q])
    <3>1. ASSUME NEW g \in Host
          PROVE  (\E s \in {"remove", "removed"} : op[g] = [stage |-> s, run |-> q])
                 <=> (\E s \in {"remove", "removed"} : op'[g] = [stage |-> s, run |-> q])
      <4>1. CASE g # h
        BY <2>3, <4>1
      <4>2. CASE g = h
        <5>1. ASSUME NEW s \in {"remove", "removed"}, op[h] = [stage |-> s, run |-> q]
              PROVE  op[h].stage \in {"remove", "removed"} /\ q = r
          BY <1>4, <5>1
        <5>2. ASSUME NEW s \in {"remove", "removed"}, op'[h] = [stage |-> s, run |-> q]
              PROVE  next \in {"remove", "removed"} /\ q = r
          BY <2>2, <5>2
        <5> QED
          BY <1>4, <2>1, <2>2, <4>2, <5>1, <5>2
      <4> QED
        BY <4>1, <4>2
    <3> QED
      BY <3>1
  <2> QED
    BY <2>4 DEF Withdrawals
<1>6. ASSUME NEW q \in Run, q # r
      PROVE  EntryOf(q)' = EntryOf(q)
  BY <1>2, <1>6 DEF EntryOf
<1>7. ASSUME NEW e, EntryOf(r)' = e
      PROVE  entry' = [entry EXCEPT ![r] = e]
  BY <1>2, <1>6, <1>7
<1>8. CASE op[h].stage = "add"
  <2>1. EntryOf(r) = "absent" /\ EntryOf(r)' = "active"
    BY <1>2, <1>8 DEF EntryOf
  <2>2. Index!Add(r)
    BY <1>2, <1>5, <1>7, <2>1 DEF Index!Add
  <2> QED
    BY <1>2, <2>2 DEF Index!IndexNext
<1>9. CASE op[h].stage = "complete"
  <2>1. EntryOf(r) = "active" /\ EntryOf(r)' = "completed"
    BY <1>2, <1>9 DEF EntryOf
  <2>2. Index!Complete(r)
    BY <1>2, <1>5, <1>7, <2>1 DEF Index!Complete
  <2> QED
    BY <1>2, <2>2 DEF Index!IndexNext
<1>10. CASE op[h].stage = "remove"
  <2>1. r \in Withdrawals
    BY <1>2, <1>4, <1>10 DEF Withdrawals
  <2>2. CASE r \in active \ completed
    <3>1. EntryOf(r) = "active" /\ EntryOf(r)' = "absent"
      BY <1>2, <1>10, <2>2 DEF EntryOf
    <3>2. Index!Withdraw(r)
      BY <1>2, <1>5, <1>7, <2>1, <3>1 DEF Index!Withdraw
    <3> QED
      BY <1>2, <3>2 DEF Index!IndexNext
  <2>3. CASE r \notin active \ completed
    <3>1. EntryOf(r)' = EntryOf(r)
      BY <1>2, <1>10, <2>3 DEF EntryOf
    <3>2. entry' = entry
      BY <1>6, <3>1
    <3> QED
      BY <1>5, <3>2 DEF Index!ivars
  <2> QED
    BY <2>2, <2>3
<1>11. CASE op[h].stage = "retire"
  <2>1. EntryOf(r)' = EntryOf(r)
    BY <1>2, <1>11 DEF EntryOf
  <2>2. entry' = entry
    BY <1>6, <2>1
  <2> QED
    BY <1>5, <2>2 DEF Index!ivars
<1> QED
  BY <1>2, <1>8, <1>9, <1>10, <1>11

(* The files read together implement the index: what the interrupted,      *)
(* failing or crashing sequence of two writes does is what one atomic      *)
(* object could have done.                                                 *)
THEOREM Refinement == Spec => ImplementsIndex
<1>1. Init => Index!IndexInit
  BY DEF Init, Index!IndexInit, EntryOf, Withdrawals, NoOp
<1>2. ASSUME IInv, [Next]_vars
      PROVE  [Index!IndexNext]_(Index!ivars)
  <2>1. CASE \A h \in Host : ~Write(h)
    <3>1. UNCHANGED <<active, completed>>
      BY <1>2, <2>1, FilesUnchanged DEF diskVars
    <3>2. [q \in Run |-> EntryOf(q)]' = [q \in Run |-> EntryOf(q)]
      BY <3>1 DEF EntryOf
    <3>3. Withdrawals' \in SUBSET Run
      BY DEF Withdrawals
    <3> QED
      BY <3>2, <3>3 DEF Index!IndexNext, Index!ChangeWithdrawals
  <2> QED
    BY <1>2, <2>1, WriteRefines
<1> QED
  BY <1>1, <1>2, Invariance, PTL DEF Spec, ImplementsIndex, Index!IndexSpec
=============================================================================
