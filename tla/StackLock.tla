------------------------------ MODULE StackLock ------------------------------
(***************************************************************************)
(* captureStackLock: the environment of a run, repositories, libraries and   *)
(* model, is written once to stacks/<id>.json and found again by every later  *)
(* capture of the same environment.  Several captures run at once, those of   *)
(* other processes too, and every call on the directory is a step of its own. *)
(*                                                                         *)
(* An environment is a value, and the fingerprint of a lock is its            *)
(* environment.  The ids are ordered.  StatusPaths is about the changed paths  *)
(* in a repository's part of it.                                            *)
(***************************************************************************)
EXTENDS Naturals, FiniteSets

CONSTANTS Captures, MaxLock,      \* the captures, and the largest id
          Environments,
          MaxFaults               \* bound on the calls that fail

VARIABLES
  lock,           \* what stacks/<id>.json holds
  cpc, environment, unread, selected, lockId, attempt,     \* the captures
  withdrawn,      \* locks removed after they could already be read (history)
  faults

captureVars == <<cpc, environment, unread, selected, lockId, attempt>>
vars == <<lock, captureVars, withdrawn, faults>>

Locks == 1..MaxLock
NoLock == [by |-> "none"]
Lock(e, whole, c) == [env |-> e, whole |-> whole, by |-> c]
Ended == {"done", "failed"}

Init ==
  /\ lock = [n \in Locks |-> NoLock]
  /\ cpc = [c \in Captures |-> "idle"] /\ environment \in [Captures -> Environments]
  /\ unread = [c \in Captures |-> {}] /\ selected = [c \in Captures |-> 0]
  /\ lockId = [c \in Captures |-> 0] /\ attempt = [c \in Captures |-> 0]
  /\ withdrawn = {} /\ faults = MaxFaults

Set(f, c, v) == [f EXCEPT ![c] = v]
Goes(c, pc) == cpc' = Set(cpc, c, pc)
Fault == faults > 0 /\ faults' = faults - 1

-----------------------------------------------------------------------------
(* matchingLock: every lock is read and must be in order.                   *)
Enumerate(c) ==
  /\ cpc[c] = "idle" /\ Goes(c, "match")
  /\ unread' = Set(unread, c, {n \in Locks : lock[n] # NoLock})
  /\ UNCHANGED <<lock, environment, selected, lockId, attempt, withdrawn, faults>>

Match(c) ==
  /\ cpc[c] = "match"
  /\ \E n \in unread[c] :
       IF lock[n] = NoLock \/ ~lock[n].whole
         THEN Goes(c, "failed") /\ UNCHANGED <<unread, selected>>
         ELSE /\ unread' = Set(unread, c, unread[c] \ {n})
              /\ selected' = IF lock[n].env = environment[c] /\ (selected[c] = 0 \/ n < selected[c])
                               THEN Set(selected, c, n) ELSE selected
              /\ UNCHANGED cpc
  /\ UNCHANGED <<lock, environment, lockId, attempt, withdrawn, faults>>

Matched(c) ==
  /\ cpc[c] = "match" /\ unread[c] = {}
  /\ IF selected[c] # 0
       THEN Goes(c, "done") /\ UNCHANGED <<lockId, attempt>>
       ELSE /\ Goes(c, "create") /\ attempt' = Set(attempt, c, 1)
            /\ \E n \in Locks : lockId' = Set(lockId, c, n)
  /\ UNCHANGED <<lock, environment, unread, selected, withdrawn, faults>>

(* createLock: exclusive, and a collision draws another id, twice.          *)
CreateOver(c) ==            \* a mistake: a file in the way is replaced
  /\ cpc[c] = "create" /\ Goes(c, "write")
  /\ lock' = Set(lock, lockId[c], Lock(environment[c], FALSE, c))
  /\ UNCHANGED <<environment, unread, selected, lockId, attempt, withdrawn, faults>>

Create(c) ==
  /\ cpc[c] = "create"
  /\ IF lock[lockId[c]] = NoLock
       THEN /\ lock' = Set(lock, lockId[c], Lock(environment[c], FALSE, c)) /\ Goes(c, "write")
            /\ UNCHANGED <<lockId, attempt>>
       ELSE /\ UNCHANGED lock
            /\ IF attempt[c] = 3 THEN Goes(c, "failed") /\ UNCHANGED <<lockId, attempt>>
               ELSE /\ attempt' = Set(attempt, c, attempt[c] + 1)
                    /\ \E n \in Locks : lockId' = Set(lockId, c, n)
                    /\ UNCHANGED cpc
  /\ UNCHANGED <<environment, unread, selected, withdrawn, faults>>

Write(c) ==
  /\ cpc[c] = "write"
  /\ \/ /\ lock' = Set(lock, lockId[c], Lock(environment[c], TRUE, c)) /\ Goes(c, "flush")
        /\ UNCHANGED faults
     \/ Fault /\ Goes(c, "cleanup") /\ UNCHANGED lock
  /\ UNCHANGED <<environment, unread, selected, lockId, attempt, withdrawn>>

Flush(c) ==                 \* and close
  /\ cpc[c] = "flush"
  /\ \/ selected' = Set(selected, c, lockId[c]) /\ Goes(c, "done") /\ UNCHANGED faults
     \/ Fault /\ Goes(c, "cleanup") /\ UNCHANGED selected
  /\ UNCHANGED <<lock, environment, unread, lockId, attempt, withdrawn>>

(* The output of this call is removed, or stays when that fails too.        *)
Cleanup(c) ==
  /\ cpc[c] = "cleanup" /\ Goes(c, "failed")
  /\ \/ /\ lock' = Set(lock, lockId[c], NoLock) /\ UNCHANGED faults
        /\ withdrawn' = IF lock[lockId[c]].whole THEN withdrawn \cup {lockId[c]} ELSE withdrawn
     \/ Fault /\ UNCHANGED <<lock, withdrawn>>
  /\ UNCHANGED <<environment, unread, selected, lockId, attempt>>

Next == \E c \in Captures :
  Enumerate(c) \/ Match(c) \/ Matched(c) \/ Create(c) \/ Write(c) \/ Flush(c) \/ Cleanup(c)
Spec == Init /\ [][Next]_vars

-----------------------------------------------------------------------------
(* The lock a capture returned is there, whole, and of its environment, and   *)
(* no other capture takes its place, whatever ids collide; the exception is a *)
(* lock whose writer failed to flush it and took it back.                    *)
LocksStand ==
  \A c \in Captures : cpc[c] = "done" /\ selected[c] \notin withdrawn =>
    /\ lock[selected[c]] # NoLock /\ lock[selected[c]].whole
    /\ lock[selected[c]].env = environment[c]
=============================================================================
