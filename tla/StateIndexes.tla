---------------------------- MODULE StateIndexes ----------------------------
(***************************************************************************)
(* The state directory of the durable SHUD job registry: the lifetime lock *)
(* (state-lock.ts) and the two index files active.json and completed.json  *)
(* (state-indexes.ts), used by several host processes that start, crash,   *)
(* reload and close in any order.                                          *)
(*                                                                         *)
(* A host process is identified by its pid together with its start stamp,  *)
(* so a host that died never comes back and a reused pid is another host.  *)
(* One process may open and close the directory many times (a registry     *)
(* reload).  A missing index file is the empty index: the constructor      *)
(* writes "[]" for it.                                                     *)
(***************************************************************************)
EXTENDS Naturals

CONSTANTS Host,       \* host processes
          Run,        \* runs; an index entry is determined by its run
          NoHost,     \* nobody: a free guard, absent lock metadata
          MaxPending  \* bound on the operations waiting in one store's queue

ASSUME NoHostAssumption == NoHost \notin Host
ASSUME MaxPendingAssumption == MaxPending \in Nat

VARIABLES
  alive,      \* host processes that have not died
  guard,      \* holder of the kernel lock on .lock-guard
  meta,       \* owner recorded in the file "lock"
  active,     \* runs in active.json
  completed,  \* runs in completed.json
  pc,         \* pc[h]: where h is in the life of its store
  mem,        \* mem[h]: the store's copies of the two indexes
  pending,    \* pending[h]: accepted operations that have not settled
  op          \* op[h]: the operation at the head of h's queue

osVars == <<alive, guard, meta>>
diskVars == <<active, completed>>
vars == <<alive, guard, meta, active, completed, pc, mem, pending, op>>

(* "guarded" holds the kernel lock and has not checked the metadata;       *)
(* "inspected" has found nobody alive behind it and is about to publish;   *)
(* "locked" has published its metadata and has not read the indexes;       *)
(* "draining" refuses new operations; "unlinking" and "closing" are the    *)
(* two halves of StateLock.release.                                        *)
StoreState == {"none", "guarded", "inspected", "locked", "open", "draining", "unlinking", "closing"}

(* What an operation is about to do: write the file, or, the file being    *)
(* written, assign the store's copy.                                       *)
OpStage == {"add", "added", "remove", "removed",
            "complete", "completed", "retire", "retired"}
NoOp == [stage |-> "none"]
Op == [stage : OpStage, run : Run]

Empty == [active |-> {}, completed |-> {}]

TypeOK ==
  /\ alive \in SUBSET Host
  /\ guard \in Host \cup {NoHost}
  /\ meta \in Host \cup {NoHost}
  /\ active \in SUBSET Run
  /\ completed \in SUBSET Run
  /\ pc \in [Host -> StoreState]
  /\ mem \in [Host -> [active : SUBSET Run, completed : SUBSET Run]]
  /\ pending \in [Host -> 0..MaxPending]
  /\ op \in [Host -> Op \cup {NoOp}]

Init ==
  /\ alive = Host
  /\ guard = NoHost
  /\ meta = NoHost
  /\ active = {}
  /\ completed = {}
  /\ pc = [h \in Host |-> "none"]
  /\ mem = [h \in Host |-> Empty]
  /\ pending = [h \in Host |-> 0]
  /\ op = [h \in Host |-> NoOp]

At(h, state) == h \in alive /\ pc[h] = state
Goto(h, state) == pc' = [pc EXCEPT ![h] = state]
SetOp(h, o) == op' = [op EXCEPT ![h] = o]

(* h holds the directory: its constructor returned and it has not started  *)
(* to release the lock.                                                    *)
Owns(h) == pc[h] \in {"locked", "open", "draining"}

-----------------------------------------------------------------------------
(* StateLock: acquisition and release.                                     *)

(* The non-blocking flock succeeds only on a free guard; the refusals that *)
(* change nothing are not steps.                                           *)
TakeGuardUnchecked(h) ==   \* a mistake: the exit status of flock is ignored
  /\ At(h, "none")
  /\ guard' = h
  /\ Goto(h, "guarded")
  /\ UNCHANGED <<alive, meta, active, completed, mem, pending, op>>

TakeGuard(h) ==
  /\ At(h, "none")
  /\ guard = NoHost
  /\ guard' = h
  /\ Goto(h, "guarded")
  /\ UNCHANGED <<alive, meta, active, completed, mem, pending, op>>

(* A recorded owner whose process still lives is respected, this very      *)
(* process included (the residue of a release that could not unlink).      *)
OwnerLives == meta # NoHost /\ meta \in alive

(* The constructor gives the guard back: the owner lives, or inspecting    *)
(* this process or writing the metadata failed.                            *)
Refuse(h) ==
  /\ At(h, "guarded") \/ At(h, "inspected")
  /\ guard' = NoHost
  /\ Goto(h, "none")
  /\ UNCHANGED <<alive, meta, active, completed, mem, pending, op>>

(* The owner is looked up with ps, so the check and the publication of the *)
(* new owner are two steps as far as other processes are concerned.        *)
Inspect(h) ==
  /\ At(h, "guarded")
  /\ ~OwnerLives
  /\ Goto(h, "inspected")
  /\ UNCHANGED <<alive, guard, meta, active, completed, mem, pending, op>>

Publish(h) ==
  /\ At(h, "inspected")
  /\ meta' = h
  /\ Goto(h, "locked")
  /\ UNCHANGED <<alive, guard, active, completed, mem, pending, op>>

(* The store reads both indexes, or fails to and releases the lock.        *)
LoadOrEmpty(h) ==          \* a mistake: an unreadable index counts as empty
  /\ At(h, "locked")
  /\ mem' \in {[mem EXCEPT ![h] = [active |-> active, completed |-> completed]],
              [mem EXCEPT ![h] = Empty]}
  /\ Goto(h, "open")
  /\ UNCHANGED <<alive, guard, meta, active, completed, pending, op>>

Load(h) ==
  /\ At(h, "locked")
  /\ \/ /\ mem' = [mem EXCEPT ![h] = [active |-> active, completed |-> completed]]
        /\ Goto(h, "open")
     \/ /\ Goto(h, "unlinking")
        /\ UNCHANGED mem
  /\ UNCHANGED <<alive, guard, meta, active, completed, pending, op>>

(* release(): the metadata goes first, while the guard still excludes      *)
(* everybody; the descriptor is closed whether or not the unlink worked,   *)
(* and a failing close leaves the guard free or still held.                *)
Unlink(h) ==
  /\ At(h, "unlinking")
  /\ meta' \in {NoHost, meta}
  /\ Goto(h, "closing")
  /\ UNCHANGED <<alive, guard, active, completed, mem, pending, op>>

CloseGuard(h) ==
  /\ At(h, "closing")
  /\ guard' \in {guard, IF guard = h THEN NoHost ELSE guard}
  /\ Goto(h, "none")
  /\ mem' = [mem EXCEPT ![h] = Empty]
  /\ UNCHANGED <<alive, meta, active, completed, pending, op>>

-----------------------------------------------------------------------------
(* StateIndexStore: one queue of operations.  The order of the queue does  *)
(* not matter to what follows: what was asked for is chosen when its turn  *)
(* comes, from every request that could have been made.                    *)

Enqueue(h) ==
  /\ At(h, "open")
  /\ pending[h] < MaxPending
  /\ pending' = [pending EXCEPT ![h] = @ + 1]
  /\ UNCHANGED <<alive, guard, meta, active, completed, pc, mem, op>>

(* The head of the queue settles: fulfilled or rejected, it leaves.        *)
Settle(h) ==
  /\ SetOp(h, NoOp)
  /\ pending' = [pending EXCEPT ![h] = @ - 1]

Running(h) == h \in alive /\ pc[h] \in {"open", "draining"}

(* An operation starts, on the copies of the moment its turn comes; one    *)
(* that has nothing to do or names a wrong run settles at once.            *)
StartAdd(h, r) ==
  IF r \in mem[h].active \cup mem[h].completed
    THEN Settle(h)
    ELSE SetOp(h, [stage |-> "add", run |-> r]) /\ UNCHANGED pending

StartRemove(h, r) ==
  IF r \notin mem[h].active
    THEN Settle(h)
    ELSE SetOp(h, [stage |-> "remove", run |-> r]) /\ UNCHANGED pending

StartComplete(h, r) ==
  IF r \notin mem[h].active
    THEN Settle(h)
    ELSE /\ SetOp(h, [stage |-> IF r \in mem[h].completed THEN "retire" ELSE "complete",
                      run |-> r])
         /\ UNCHANGED pending

Start(h) ==
  /\ Running(h)
  /\ pending[h] > 0
  /\ op[h] = NoOp
  /\ \E r \in Run : StartAdd(h, r) \/ StartRemove(h, r) \/ StartComplete(h, r)
  /\ UNCHANGED <<alive, guard, meta, active, completed, pc, mem>>

(* The atomic replacement of one file by what the store wants in it.       *)
WriteActive(h, set, next) ==
  /\ active' = set
  /\ SetOp(h, [op[h] EXCEPT !.stage = next])
  /\ UNCHANGED <<completed, mem, pending>>

AddWritten(h) ==
  /\ op[h].stage = "add"
  /\ WriteActive(h, mem[h].active \cup {op[h].run}, "added")

RemoveWritten(h) ==
  /\ op[h].stage = "remove"
  /\ WriteActive(h, mem[h].active \ {op[h].run}, "removed")

(* completeActive publishes completed.json first ...                       *)
CompleteWritten(h) ==
  /\ op[h].stage = "complete"
  /\ completed' = mem[h].completed \cup {op[h].run}
  /\ SetOp(h, [op[h] EXCEPT !.stage = "completed"])
  /\ UNCHANGED <<active, mem, pending>>

(* ... and only then takes the run out of active.json.                     *)
RetireWritten(h) ==
  /\ op[h].stage = "retire"
  /\ WriteActive(h, mem[h].active \ {op[h].run}, "retired")

Write(h) ==
  /\ Running(h)
  /\ AddWritten(h) \/ RemoveWritten(h) \/ CompleteWritten(h) \/ RetireWritten(h)
  /\ UNCHANGED <<alive, guard, meta, pc>>

(* A failing write rejects the operation and leaves file and copy alone.   *)
WriteFailsKept(h) ==       \* a mistake: the copy is assigned all the same
  /\ Running(h)
  /\ op[h].stage \in {"add", "remove", "complete", "retire"}
  /\ mem' = [mem EXCEPT ![h].active = @ \cup {op[h].run}]
  /\ Settle(h)
  /\ UNCHANGED <<alive, guard, meta, active, completed, pc>>

WriteFailsUncounted(h) ==  \* a mistake: a rejection does not count as settled
  /\ Running(h)
  /\ op[h].stage \in {"add", "remove", "complete", "retire"}
  /\ SetOp(h, NoOp)
  /\ UNCHANGED <<alive, guard, meta, active, completed, pc, mem, pending>>

WriteFails(h) ==
  /\ Running(h)
  /\ op[h].stage \in {"add", "remove", "complete", "retire"}
  /\ Settle(h)
  /\ UNCHANGED <<alive, guard, meta, active, completed, pc, mem>>

(* The continuation of a successful write assigns the copy.                *)
Assign(h) ==
  /\ Running(h)
  /\ \/ /\ op[h].stage = "added"
        /\ mem' = [mem EXCEPT ![h].active = @ \cup {op[h].run}]
        /\ Settle(h)
     \/ /\ op[h].stage \in {"removed", "retired"}
        /\ mem' = [mem EXCEPT ![h].active = @ \ {op[h].run}]
        /\ Settle(h)
     \/ /\ op[h].stage = "completed"
        /\ mem' = [mem EXCEPT ![h].completed = @ \cup {op[h].run}]
        /\ SetOp(h, [op[h] EXCEPT !.stage = "retire"])
        /\ UNCHANGED pending
  /\ UNCHANGED <<alive, guard, meta, active, completed, pc>>

(* close(): admission ends at once; the lock is released when no accepted  *)
(* operation is left.                                                      *)
Close(h) ==
  /\ At(h, "open")
  /\ Goto(h, "draining")
  /\ UNCHANGED <<alive, guard, meta, active, completed, mem, pending, op>>

Drained(h) ==
  /\ At(h, "draining")
  /\ pending[h] = 0
  /\ Goto(h, "unlinking")
  /\ UNCHANGED <<alive, guard, meta, active, completed, mem, pending, op>>

(* The process dies: the kernel drops its lock, its memory is gone, the    *)
(* files stay as they are.                                                 *)
Crash(h) ==
  /\ h \in alive
  /\ alive' = alive \ {h}
  /\ guard' = IF guard = h THEN NoHost ELSE guard
  /\ Goto(h, "none")
  /\ mem' = [mem EXCEPT ![h] = Empty]
  /\ pending' = [pending EXCEPT ![h] = 0]
  /\ SetOp(h, NoOp)
  /\ UNCHANGED <<meta, active, completed>>

-----------------------------------------------------------------------------
LockStep(h) == \/ TakeGuard(h) \/ Inspect(h) \/ Refuse(h) \/ Publish(h)
               \/ Load(h) \/ Unlink(h) \/ CloseGuard(h)
QueueStep(h) == Start(h) \/ Write(h) \/ WriteFails(h) \/ Assign(h)

Next == \E h \in Host :
          LockStep(h) \/ Enqueue(h) \/ QueueStep(h) \/ Close(h) \/ Drained(h) \/ Crash(h)

Spec == Init /\ [][Next]_vars

(* The event loop runs the accepted work and the release of a process that *)
(* lives; nothing obliges anybody to open, to ask or to close.             *)
Fairness == \A h \in Host : /\ WF_vars(QueueStep(h))
                            /\ WF_vars(Drained(h) \/ Unlink(h) \/ CloseGuard(h))
FairSpec == Spec /\ Fairness

-----------------------------------------------------------------------------
(* The host that uses the directory is the one the kernel lock and the     *)
(* lock metadata name: the metadata of an owner is never removed or        *)
(* replaced under it, so a contender is always told the right holder.      *)
OwnerIsNamed == \A h \in Host : Owns(h) => guard = h /\ meta = h

(* Two processes never both use the directory (state-lock.ts, "exclusive   *)
(* lifetime ownership"): two writers of the same index files would lose    *)
(* each other's entries.                                                   *)
OneOwner == \A g, h \in Host : Owns(g) /\ Owns(h) => g = h

(* Only a stale owner is taken over: the metadata of a process that lives  *)
(* disappears by that process's own release and in no other way, the       *)
(* residue of its failed unlink included (Park_Resume_Design section 8,    *)
(* "release failures").                                                    *)
OnlyStaleOwnerReplaced ==
  [][meta # NoHost /\ meta' # meta => meta \notin alive \/ pc[meta] = "unlinking"]_vars

(* Between two operations the copies an owner answers lookups from are the *)
(* files; the only difference while one is in flight is the run of that    *)
(* operation.  The next write is computed from the copies, so a copy that  *)
(* diverged would erase another run's entry.                               *)
MirrorsDisk ==
  \A h \in Host : pc[h] \in {"open", "draining"} =>
    LET r == op[h].run IN
      /\ active = CASE op[h].stage = "added" -> mem[h].active \cup {r}
                    [] op[h].stage \in {"removed", "retired"} -> mem[h].active \ {r}
                    [] OTHER -> mem[h].active
      /\ completed = IF op[h].stage = "completed" THEN mem[h].completed \cup {r}
                                                  ELSE mem[h].completed

(* Only a withdrawal in progress makes a run disappear from both files: in *)
(* particular not the move from active.json to completed.json, whatever    *)
(* crash or failed write interrupts it.                                    *)
Withdrawals == {r \in Run : \E h \in Host : \E s \in {"remove", "removed"} :
                               op[h] = [stage |-> s, run |-> r]}
NoRunLost ==
  [][\A r \in active \cup completed :
        r \in active' \cup completed' \/ r \in Withdrawals]_vars

(* A closing store always finishes: every accepted operation settles, also *)
(* when its write fails, and the lock is given back unless the process     *)
(* dies first.                                                             *)
CloseFinishes == \A h \in Host : pc[h] = "draining" ~> pc[h] = "none"

(* The two files, read together, implement the one index of RunIndex.      *)
EntryOf(r) == IF r \in completed THEN "completed"
              ELSE IF r \in active THEN "active" ELSE "absent"
Index == INSTANCE RunIndex WITH entry <- [r \in Run |-> EntryOf(r)],
                                withdrawing <- Withdrawals
ImplementsIndex == Index!IndexSpec
=============================================================================
