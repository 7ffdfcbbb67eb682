------------------------------ MODULE WebDriver ------------------------------
(***************************************************************************)
(* What every acceptance gate does to the Web hosts it starts and to the    *)
(* run they submit (scripts/runtime/shud-web-driver.ts): a host is a child  *)
(* process named by its pid and birth, it is stopped by TERM and then KILL, *)
(* and the group of the run is signalled only through a control recovered   *)
(* from a live, proven leader, after every host is gone that could submit   *)
(* another.                                                                *)
(***************************************************************************)
EXTENDS ProcessGroup, Naturals

CONSTANT Generation   \* the hosts a gate starts, one after the other

VARIABLES
  pc,       \* where the driver is
  host,     \* per generation: its process and what the driver knows of it
  owned,    \* the driver holds the recovered group of the run
  outcome   \* failure, number of clean-up errors, verdict

driverVars == <<pc, host, owned, outcome>>

HostState == {"none", "booting", "serving", "dead"}

DriverTypeOK ==
  /\ host \in [Generation -> [state : HostState, stamp : BOOLEAN, exited : BOOLEAN,
                              signal : {"none", "SIGTERM", "SIGKILL"},
                              end : {"none", "clean", "killed", "crashed"}]]
  /\ owned \in BOOLEAN
  /\ outcome \in [failed : BOOLEAN, unsafe : BOOLEAN, errors : Nat,
                  verdict : {"none", "PASS", "FAIL"}]

DriverInit(start) ==
  /\ pc = start
  /\ host = [g \in Generation |-> [state |-> "none", stamp |-> FALSE, exited |-> FALSE,
                                   signal |-> "none", end |-> "none"]]
  /\ owned = FALSE
  /\ outcome = [failed |-> FALSE, unsafe |-> FALSE, errors |-> 0, verdict |-> "none"]

Started(g) == host[g].state # "none"
Alive(g) == host[g].state \in {"booting", "serving"}
Move(from, to) == pc = from /\ pc' = to

-----------------------------------------------------------------------------
(* The host process.                                                       *)

Ends(g, end) ==
  /\ Alive(g)
  /\ host' = [host EXCEPT ![g].state = "dead", ![g].end = end]

Obeys(g) ==
  /\ host[g].signal # "none"
  /\ Ends(g, IF host[g].signal = "SIGTERM" THEN "clean" ELSE "killed")

ChildEvent(g) ==
  /\ host[g].state = "dead" /\ ~host[g].exited
  /\ host' = [host EXCEPT ![g].exited = TRUE]

(* The constructor may fail to read the birth of the child it started.     *)
SpawnHost(g, from, to) ==
  /\ Move(from, to)
  /\ \E stamp \in BOOLEAN :
       host' = [host EXCEPT ![g].state = "booting", ![g].stamp = stamp]
  /\ UNCHANGED <<owned, outcome>>

Healthy(g) == host[g].stamp /\ ~host[g].exited
-----------------------------------------------------------------------------
(* stop: TERM, then KILL, to the child whose birth was captured.            *)

Stopped(g, to) ==
  /\ host[g].exited \/ ~Started(g)
  /\ pc' = to
  /\ UNCHANGED <<host, owned, outcome>>

StopSignal(g) ==
  /\ Started(g) /\ ~host[g].exited /\ host[g].stamp
  /\ host[g].signal # "SIGKILL"
  /\ host' = [host EXCEPT ![g].signal = IF @ = "none" THEN "SIGTERM" ELSE "SIGKILL"]
  /\ UNCHANGED <<pc, owned, outcome>>

StopWaits(g, to) == FALSE             \* as if stop had no deadline
StopFails(g, to) ==
  /\ Started(g) /\ ~host[g].exited
  /\ ~host[g].stamp \/ host[g].signal = "SIGKILL"
  /\ pc' = to
  /\ outcome' = [outcome EXCEPT !.errors = @ + 1]
  /\ UNCHANGED <<host, owned>>

StopHost(g, to) == Stopped(g, to) \/ StopSignal(g) \/ StopFails(g, to)

AllSignalled ==                       \* as if a killed host were a dead one
  \A g \in Generation : Started(g) => host[g].exited \/ host[g].signal = "SIGKILL"
AllExited == \A g \in Generation : Started(g) => host[g].exited
-----------------------------------------------------------------------------
(* ownRunGroup: a live leader in the run directory that its own wrapper.pid *)
(* names becomes ours, whatever the ledger says of its pid.                 *)
LiveOwn == leader \in Living /\ wrapperPid

(* stopGroup: nothing is sent to a group whose leader is another process.   *)
GroupProved == leader # "alien"
StopGroup(from, sig, to) ==
  /\ pc = from
  /\ GroupActive /\ GroupProved
  /\ pc' = to
  /\ signal' = sig
  /\ UNCHANGED <<leader, solver, wrapperPid, exitFile, host, owned, outcome>>

GroupQuiet ==
  /\ pc \in {"term", "kill", "killed"}
  /\ ~GroupActive
  /\ pc' = "verdict"
  /\ UNCHANGED <<groupVars, host, owned, outcome>>

GroupUnproved ==
  /\ pc \in {"term", "kill", "killed"}
  /\ GroupActive
  /\ ~GroupProved \/ pc = "killed"
  /\ pc' = "verdict"
  /\ outcome' = [outcome EXCEPT !.errors = @ + 1]
  /\ UNCHANGED <<groupVars, host, owned>>

StopRun == \/ StopGroup("term", "term", "kill") \/ StopGroup("kill", "kill", "killed")
           \/ GroupQuiet \/ GroupUnproved

Verdict ==
  /\ Move("verdict", "done")
  /\ outcome' = [outcome EXCEPT !.verdict = IF outcome.failed \/ outcome.errors > 0
                                            THEN "FAIL" ELSE "PASS"]
  /\ UNCHANGED <<host, owned>>
-----------------------------------------------------------------------------
(* Whatever happens to the pids, the driver signals a group only while the  *)
(* run it recovered is in it, and no sooner than every host is gone that    *)
(* could still submit one.                                                 *)
SignalsOwnRun ==
  [][signal' # signal /\ signal' # "none" =>
       Executing /\ \A g \in Generation : ~Alive(g)]_<<groupVars, driverVars>>
=============================================================================
