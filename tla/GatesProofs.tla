------------------------------ MODULE GatesProofs ------------------------------
(***************************************************************************)
(* Proofs about the acceptance gates (MCGates): what a PASS says is so, what   *)
(* a driver takes for a session's log is the log, and a driver signals no run  *)
(* but one that executes while no host is left to tend it.                   *)
(*                                                                         *)
(* The parts share no variable, so each has an invariant of its own.           *)
(* RestartInv follows a run through the restart: who held the lock when it     *)
(* ended, was settled, collected and reported, and what the driver had read    *)
(* by then; without it the evidence says nothing of what came before it.       *)
(* ReadsInv keeps the pages of a reading dense while the log grows under it.   *)
(* ReplayInv is about the order of the sessions' logs: what the evidence       *)
(* finds in them is so only because nothing is logged out of its order.        *)
(***************************************************************************)
EXTENDS MCGates, FiniteSetTheorems, SequenceTheorems, WellFoundedInduction, TLAPS


------------------------------------------------------------------------------
(* The restart gate (RestartGate).                                         *)

(* What the driver gathers, by its types.                                  *)
JobRecord == [status : JobStatus, pid : BOOLEAN, exit : Code \cup {"none"}, dsh : 0..2,
              notify : {"pending", "early", "late"}]
EvTyped ==
  /\ DOMAIN ev = {"jobs", "samples", "files", "cut", "locks"}
  /\ ev.jobs \in Seq(JobRecord) /\ ev.files \in Seq({"original", "second"})
  /\ ev.cut \in Nat /\ ev.cut <= Len(log)

(* Where the hosts are, by where the driver is.                            *)
HostsInv ==
  /\ \A g \in Generation : host[g].exited => host[g].state = "dead"
  /\ pc \in {"install", "spawn1"} => host[1].state = "none"
  /\ pc \in Trying \ {"ready2", "restarted", "complete"} => host[2].state = "none"
  /\ pc \in Trying => host[2].signal = "none"
  /\ pc \in {"offline", "spawn2", "ready2", "restarted", "complete"} => host[1].state = "dead"
  /\ pc \in {"restarted", "complete"} => lock = 2
  /\ pc \in {"term", "kill", "killed"} => \A g \in Generation : ~Alive(g)

(* What the record of a run says of its execution.                         *)
Ended == {"succeeded", "failed", "collected"}
RunInv ==
  /\ leader \in {"none", "boot"} => ~solver
  /\ leader = "none" => by.ended = 0
  /\ leader # "none" => job.status # "absent"
  /\ job.status # "absent" => log # <<>>
  /\ job.status \in {"absent", "created"} => ~job.pid
  /\ job.status = "running" => leader # "none"
  /\ job.status \in Ended =>
       exitFile # "none" /\ ~Executing /\ leader # "none" /\ job.exit = exitFile
  /\ job.status # "collected" => job.notify = "pending" /\ \A i \in DOMAIN log : log[i] # "wake"
  /\ Executing => by.ended = 0

(* How often wrapper.pid has been read, and a second execution since when.  *)
FilesInv ==
  /\ pc \in {"spawn2", "ready2", "restarted"} => Len(ev.files) = 2 /\ dup.start # "late"
  /\ pc \in {"interrupt", "signalled", "offline"} => Len(ev.files) = 1
  /\ pc \in {"install", "spawn1", "ready1", "session", "posted", "await", "before"} =>
       Len(ev.files) = 0
  /\ host[2].state = "none" => dup.start = "none"

(* A run that was seen alive after the restart is the second host's.        *)
Later(word) == \E i \in DOMAIN log : i > ev.cut /\ log[i] = word
SurvivalInv ==
  pc = "complete" =>
    /\ Len(ev.files) = 3
    /\ dup.start = "early" => \E i \in DOMAIN ev.files : ev.files[i] = "second"
    /\ leader # "none"
    /\ ~Executing => by.ended = 2
    /\ job.status \in Ended => by.settled = 2
    /\ job.status = "collected" => by.collected = 2 \/ Later("tool")
    /\ \A i \in DOMAIN log : log[i] = "wake" => by.woken = 2

(* Once the evidence was accepted, nothing it is about changes.            *)
Accepting == pc \in Finishing /\ ~outcome.failed
AcceptedInv ==
  Accepting =>
    /\ by.settled = 2 /\ by.collected = 2 /\ by.woken = 2 /\ by.ended = 2
    /\ record = exitFile /\ dup.start # "early" /\ Len(ev.files) = 3
    /\ job.status = "collected" /\ job.notify # "pending"

JudgedInv ==
  /\ outcome.verdict # "none" => pc = "done"
  /\ outcome.verdict = "PASS" => ~outcome.failed
  /\ pc \in {"verdict", "done"} /\ outcome.errors = 0 =>
       ~Executing /\ \A g \in Generation : ~Alive(g)

RestartInv == /\ TypeOK /\ EvTyped /\ HostsInv /\ RunInv /\ FilesInv /\ SurvivalInv
              /\ AcceptedInv /\ JudgedInv

HostRecord == [state : HostState, stamp : BOOLEAN, exited : BOOLEAN,
               signal : {"none", "SIGTERM", "SIGKILL"},
               end : {"none", "clean", "killed", "crashed"}]

(* The types of RestartGate, by what a step may change.                     *)
OutcomeRecord == [failed : BOOLEAN, unsafe : BOOLEAN, errors : Nat, verdict : {"none", "PASS", "FAIL"}]
ByRecord == [settled : 0..2, collected : 0..2, woken : 0..2, ended : 0..2]
DupRecord == [start : {"none", "early", "late"}, live : BOOLEAN]
HostTyped == host \in [Generation -> HostRecord]
DriverTyped == owned \in BOOLEAN /\ outcome \in OutcomeRecord /\ pc \in Trying \cup Finishing
LedgerTyped == lock \in 0..2 /\ job \in JobRecord /\ record \in Code \cup {"none"} /\ by \in ByRecord
RestTyped ==
  /\ log \in Seq({"call", "result", "wake", "tool"}) /\ restartSignal \in {"SIGTERM", "SIGKILL"}
  /\ index \in {"none", "active", "completed"} /\ dup \in DupRecord /\ faults \in 0..MaxFaults

(* The type invariant of RestartGate, cut by what its steps change.        *)
LEMMA Typed == TypeOK <=> GroupTypeOK /\ HostTyped /\ DriverTyped /\ LedgerTyped /\ RestTyped
BY DEF TypeOK, DriverTypeOK, HostTyped, DriverTyped, LedgerTyped, RestTyped, HostRecord, OutcomeRecord,
       ByRecord, DupRecord, JobRecord

(* A host is spawned, signalled and ended, and stays a host.               *)
LEMMA HostTypes == GroupTypeOK /\ HostTyped /\ RestTyped /\ Next => HostTyped'
<1> SUFFICES ASSUME GroupTypeOK /\ HostTyped /\ RestTyped, Next PROVE HostTyped'
  OBVIOUS
<1> USE BoundsAssumption DEF HostTyped, HostRecord, HostState
<1>1. CASE Install
  BY <1>1 DEF Install, Move, driverUnchanged, groupVars, hostVars
<1>2. CASE Prompt
  BY <1>2 DEF Prompt, Move, driverUnchanged, groupVars, hostVars
<1>3. CASE Accepted
  BY <1>3 DEF Accepted, Move, driverUnchanged, groupVars, hostVars
<1>4. CASE Submitted
  BY <1>4 DEF Submitted, Move, Healthy, driverUnchanged, groupVars, hostVars
<1>5. CASE Before
  BY <1>5 DEF Before, Move, Observe, driverUnchanged, groupVars, hostVars
<1>6. CASE Interrupt
  BY <1>6 DEF Interrupt, Move, driverUnchanged, groupVars, hostVars, RestTyped
<1>7. CASE Signalled
  BY <1>7 DEF Signalled, Move, driverUnchanged, groupVars, hostVars
<1>8. CASE StartHost(1, "spawn1", "ready1")
  <2>1. PICK stamp \in BOOLEAN : host' = [host EXCEPT ![1].state = "booting", ![1].stamp = stamp]
    BY <1>8 DEF StartHost, SpawnHost
  <2>2. [host[1] EXCEPT !.state = "booting", !.stamp = stamp] \in HostRecord
    OBVIOUS
  <2>3. host' = [host EXCEPT ![1] = [host[1] EXCEPT !.state = "booting", !.stamp = stamp]]
    BY <2>1
  <2>4. QED BY <2>2, <2>3
<1>9. CASE Ready(1, "ready1", "session")
  BY <1>9 DEF Ready, Move, Owner, driverUnchanged, groupVars, hostVars
<1>10. CASE Offline
  BY <1>10 DEF Offline, Move, Observe, driverUnchanged, groupVars, hostVars
<1>11. CASE StartHost(2, "spawn2", "ready2")
  <2>1. PICK stamp \in BOOLEAN : host' = [host EXCEPT ![2].state = "booting", ![2].stamp = stamp]
    BY <1>11 DEF StartHost, SpawnHost
  <2>2. [host[2] EXCEPT !.state = "booting", !.stamp = stamp] \in HostRecord
    OBVIOUS
  <2>3. host' = [host EXCEPT ![2] = [host[2] EXCEPT !.state = "booting", !.stamp = stamp]]
    BY <2>1
  <2>4. QED BY <2>2, <2>3
<1>12. CASE Ready(2, "ready2", "restarted")
  BY <1>12 DEF Ready, Move, Owner, driverUnchanged, groupVars, hostVars
<1>13. CASE Restarted
  BY <1>13 DEF Restarted, Move, Observe, driverUnchanged, groupVars, hostVars
<1>14. CASE Complete
  BY <1>14 DEF Complete, Observe, driverUnchanged, groupVars, hostVars
<1>15. CASE StopStep(1, "stop1", "stop2")
  BY <1>15 DEF StopStep, StopHost, Stopped, StopSignal, StopFails, driverUnchanged, groupVars,
      hostVars
<1>16. CASE StopStep(2, "stop2", "runs")
  BY <1>16 DEF StopStep, StopHost, Stopped, StopSignal, StopFails, driverUnchanged, groupVars,
      hostVars
<1>17. CASE CleanUpRuns
  BY <1>17 DEF CleanUpRuns, AllExited, Started, driverUnchanged, groupVars, hostVars
<1>18. CASE RunStopped
  BY <1>18 DEF RunStopped, StopRun, StopGroup, GroupQuiet, GroupUnproved, groupVars, hostVars
<1>19. CASE Judge
  BY <1>19 DEF Judge, Verdict, Move, driverUnchanged, groupVars, hostVars
<1>20. CASE GiveUp
  BY <1>20 DEF GiveUp, driverUnchanged, groupVars, hostVars
<1>21. CASE Admit
  BY <1>21 DEF Admit, NoJob, hostUnchanged, groupVars
<1>22. CASE Launch
  BY <1>22 DEF Launch, Spawn, hostVars
<1>23. CASE Persist
  BY <1>23 DEF Persist, hostUnchanged, groupVars
<1>24. CASE Answer
  BY <1>24 DEF Answer, hostUnchanged, groupVars
<1>25. CASE Takeover
  BY <1>25 DEF Takeover, hostUnchanged, groupVars
<1>26. CASE Respawn
  BY <1>26 DEF Respawn, hostUnchanged, groupVars
<1>27. CASE DupEnds
  BY <1>27 DEF DupEnds, groupVars
<1>28. ASSUME NEW g \in Generation, HostServes(g) PROVE HostTyped'
  BY <1>28 DEF HostServes, groupVars
<1>29. ASSUME NEW g \in Generation, HostObeys(g) PROVE HostTyped'
  BY <1>29 DEF HostObeys, HostEnds, Ends, groupVars
<1>30. ASSUME NEW g \in Generation, HostCrashes(g) PROVE HostTyped'
  BY <1>30 DEF HostCrashes, HostEnds, Ends, groupVars
<1>31. ASSUME NEW g \in Generation, HostExits(g) PROVE HostTyped'
  BY ZenonT(20), <1>31 DEF HostExits, ChildEvent, groupVars, hostVars
<1>32. ASSUME NEW g \in Generation, SettleRun(g) PROVE HostTyped'
  BY <1>32 DEF SettleRun, hostUnchanged, groupVars
<1>33. ASSUME NEW g \in Generation, CollectRun(g) PROVE HostTyped'
  BY <1>33 DEF CollectRun, hostUnchanged, groupVars
<1>34. ASSUME NEW g \in Generation, CollectByHand(g) PROVE HostTyped'
  BY <1>34 DEF CollectByHand, hostUnchanged, groupVars
<1>35. ASSUME NEW g \in Generation, Wake(g) PROVE HostTyped'
  BY <1>35 DEF Wake, hostUnchanged, groupVars
<1>36. CASE RunStep
  BY <1>36 DEF RunStep, GroupStep, PublishPid, PublishExit, WrapperExits, Deliver, PidReused,
      AlienExits, SolverEnds
<1>37. QED BY <1>1, <1>2, <1>3, <1>4, <1>5, <1>6, <1>7, <1>8, <1>9, <1>10, <1>11, <1>12, <1>13,
    <1>14, <1>15, <1>16, <1>17, <1>18, <1>19, <1>20, <1>21, <1>22, <1>23, <1>24, <1>25, <1>26,
    <1>27, <1>28, <1>29, <1>30, <1>31, <1>32, <1>33, <1>34, <1>35, <1>36 DEF Next, Driver, Host

(* The driver counts its errors and goes from one of its places to another.*)
LEMMA DriverTypes == TypeOK /\ DriverTyped /\ Next => DriverTyped'
<1> SUFFICES ASSUME TypeOK /\ DriverTyped, Next PROVE DriverTyped'
  OBVIOUS
<1> USE BoundsAssumption DEF DriverTyped, OutcomeRecord, Trying, Finishing
<1>1. CASE Install
  BY <1>1 DEF Install, Move, driverUnchanged, groupVars, hostVars
<1>2. CASE Prompt
  BY <1>2 DEF Prompt, Move, driverUnchanged, groupVars, hostVars
<1>3. CASE Accepted
  BY <1>3 DEF Accepted, Move, driverUnchanged, groupVars, hostVars
<1>4. CASE Submitted
  BY <1>4 DEF Submitted, Move, Healthy, driverUnchanged, groupVars, hostVars
<1>5. CASE Before
  BY <1>5 DEF Before, Move, Observe, driverUnchanged, groupVars, hostVars
<1>6. CASE Interrupt
  BY <1>6 DEF Interrupt, Move, driverUnchanged, groupVars, hostVars
<1>7. CASE Signalled
  BY <1>7 DEF Signalled, Move, driverUnchanged, groupVars, hostVars
<1>8. CASE StartHost(1, "spawn1", "ready1")
  BY <1>8 DEF StartHost, SpawnHost, Move, driverUnchanged, groupVars, hostVars
<1>9. CASE Ready(1, "ready1", "session")
  BY <1>9 DEF Ready, Move, Owner, driverUnchanged, groupVars, hostVars
<1>10. CASE Offline
  BY <1>10 DEF Offline, Move, Observe, driverUnchanged, groupVars, hostVars
<1>11. CASE StartHost(2, "spawn2", "ready2")
  BY <1>11 DEF StartHost, SpawnHost, Move, driverUnchanged, groupVars, hostVars
<1>12. CASE Ready(2, "ready2", "restarted")
  BY <1>12 DEF Ready, Move, Owner, driverUnchanged, groupVars, hostVars
<1>13. CASE Restarted
  BY <1>13 DEF Restarted, Move, Observe, driverUnchanged, groupVars, hostVars
<1>14. CASE Complete
  BY <1>14 DEF Complete, Observe, driverUnchanged, groupVars, hostVars
<1>15. CASE StopStep(1, "stop1", "stop2")
  BY <1>15 DEF StopStep, StopHost, Stopped, StopSignal, StopFails, driverUnchanged, groupVars,
      hostVars
<1>16. CASE StopStep(2, "stop2", "runs")
  BY <1>16 DEF StopStep, StopHost, Stopped, StopSignal, StopFails, driverUnchanged, groupVars,
      hostVars
<1>17. CASE CleanUpRuns
  <2>1. /\ owned' \in BOOLEAN /\ pc' \in {"term", "verdict"}
        /\ outcome' \in {outcome, [outcome EXCEPT !.errors = @ + 1]}
    BY <1>17 DEF CleanUpRuns
  <2>2. [outcome EXCEPT !.errors = @ + 1] \in OutcomeRecord
    OBVIOUS
  <2>3. QED BY <2>1, <2>2
<1>18. CASE RunStopped
  BY <1>18 DEF RunStopped, StopRun, StopGroup, GroupQuiet, GroupUnproved, groupVars, hostVars
<1>19. CASE Judge
  BY <1>19 DEF Judge, Verdict, Move, driverUnchanged, groupVars, hostVars
<1>20. CASE GiveUp
  BY <1>20 DEF GiveUp, driverUnchanged, groupVars, hostVars
<1>21. CASE Admit
  BY <1>21 DEF Admit, NoJob, hostUnchanged, groupVars
<1>22. CASE Launch
  BY <1>22 DEF Launch, Spawn, hostVars
<1>23. CASE Persist
  BY <1>23 DEF Persist, hostUnchanged, groupVars
<1>24. CASE Answer
  BY <1>24 DEF Answer, hostUnchanged, groupVars
<1>25. CASE Takeover
  BY <1>25 DEF Takeover, hostUnchanged, groupVars
<1>26. CASE Respawn
  BY <1>26 DEF Respawn, hostUnchanged, groupVars
<1>27. CASE DupEnds
  BY <1>27 DEF DupEnds, groupVars
<1>28. ASSUME NEW g \in Generation, HostServes(g) PROVE DriverTyped'
  BY <1>28 DEF HostServes, groupVars
<1>29. ASSUME NEW g \in Generation, HostObeys(g) PROVE DriverTyped'
  BY <1>29 DEF HostObeys, HostEnds, Ends, groupVars
<1>30. ASSUME NEW g \in Generation, HostCrashes(g) PROVE DriverTyped'
  BY <1>30 DEF HostCrashes, HostEnds, Ends, groupVars
<1>31. ASSUME NEW g \in Generation, HostExits(g) PROVE DriverTyped'
  BY <1>31 DEF HostExits, ChildEvent, groupVars, hostVars
<1>32. ASSUME NEW g \in Generation, SettleRun(g) PROVE DriverTyped'
  BY <1>32 DEF SettleRun, hostUnchanged, groupVars
<1>33. ASSUME NEW g \in Generation, CollectRun(g) PROVE DriverTyped'
  BY <1>33 DEF CollectRun, hostUnchanged, groupVars
<1>34. ASSUME NEW g \in Generation, CollectByHand(g) PROVE DriverTyped'
  BY <1>34 DEF CollectByHand, hostUnchanged, groupVars
<1>35. ASSUME NEW g \in Generation, Wake(g) PROVE DriverTyped'
  BY <1>35 DEF Wake, hostUnchanged, groupVars
<1>36. CASE RunStep
  BY <1>36 DEF RunStep, GroupStep, PublishPid, PublishExit, WrapperExits, Deliver, PidReused,
      AlienExits, SolverEnds
<1>37. QED BY <1>1, <1>2, <1>3, <1>4, <1>5, <1>6, <1>7, <1>8, <1>9, <1>10, <1>11, <1>12, <1>13,
    <1>14, <1>15, <1>16, <1>17, <1>18, <1>19, <1>20, <1>21, <1>22, <1>23, <1>24, <1>25, <1>26,
    <1>27, <1>28, <1>29, <1>30, <1>31, <1>32, <1>33, <1>34, <1>35, <1>36 DEF Next, Driver, Host

(* Whoever writes the record of the run writes a record.                   *)
LEMMA LedgerTypes == GroupTypeOK /\ LedgerTyped /\ Next => LedgerTyped'
<1> SUFFICES ASSUME GroupTypeOK /\ LedgerTyped, Next PROVE LedgerTyped'
  OBVIOUS
<1> USE BoundsAssumption DEF GroupTypeOK, LedgerTyped, JobRecord, JobStatus, ByRecord, Serving,
        Code
<1>1. CASE Install
  BY <1>1 DEF Install, Move, driverUnchanged, groupVars, hostVars
<1>2. CASE Prompt
  BY <1>2 DEF Prompt, Move, driverUnchanged, groupVars, hostVars
<1>3. CASE Accepted
  BY <1>3 DEF Accepted, Move, driverUnchanged, groupVars, hostVars
<1>4. CASE Submitted
  BY <1>4 DEF Submitted, Move, Healthy, driverUnchanged, groupVars, hostVars
<1>5. CASE Before
  BY <1>5 DEF Before, Move, Observe, driverUnchanged, groupVars, hostVars
<1>6. CASE Interrupt
  BY <1>6 DEF Interrupt, Move, driverUnchanged, groupVars, hostVars
<1>7. CASE Signalled
  BY <1>7 DEF Signalled, Move, driverUnchanged, groupVars, hostVars
<1>8. CASE StartHost(1, "spawn1", "ready1")
  BY <1>8 DEF StartHost, SpawnHost, Move, driverUnchanged, groupVars, hostVars
<1>9. CASE Ready(1, "ready1", "session")
  BY <1>9 DEF Ready, Move, Owner, driverUnchanged, groupVars, hostVars
<1>10. CASE Offline
  BY <1>10 DEF Offline, Move, Observe, driverUnchanged, groupVars, hostVars
<1>11. CASE StartHost(2, "spawn2", "ready2")
  BY <1>11 DEF StartHost, SpawnHost, Move, driverUnchanged, groupVars, hostVars
<1>12. CASE Ready(2, "ready2", "restarted")
  BY <1>12 DEF Ready, Move, Owner, driverUnchanged, groupVars, hostVars
<1>13. CASE Restarted
  BY <1>13 DEF Restarted, Move, Observe, driverUnchanged, groupVars, hostVars
<1>14. CASE Complete
  BY <1>14 DEF Complete, Observe, driverUnchanged, groupVars, hostVars
<1>15. CASE StopStep(1, "stop1", "stop2")
  BY <1>15 DEF StopStep, StopHost, Stopped, StopSignal, StopFails, driverUnchanged, groupVars,
      hostVars
<1>16. CASE StopStep(2, "stop2", "runs")
  BY <1>16 DEF StopStep, StopHost, Stopped, StopSignal, StopFails, driverUnchanged, groupVars,
      hostVars
<1>17. CASE CleanUpRuns
  BY <1>17 DEF CleanUpRuns, AllExited, Started, driverUnchanged, groupVars, hostVars
<1>18. CASE RunStopped
  BY <1>18 DEF RunStopped, StopRun, StopGroup, GroupQuiet, GroupUnproved, groupVars, hostVars
<1>19. CASE Judge
  BY <1>19 DEF Judge, Verdict, Move, driverUnchanged, groupVars, hostVars
<1>20. CASE GiveUp
  BY <1>20 DEF GiveUp, driverUnchanged, groupVars, hostVars
<1>21. CASE Admit
  <2>1. job' = [NoJob EXCEPT !.status = "created"] /\ UNCHANGED <<lock, record, by>>
    BY <1>21 DEF Admit, hostUnchanged
  <2>2. NoJob \in JobRecord
    BY DEF NoJob
  <2>3. QED BY <2>1, <2>2
<1>22. CASE Launch
  BY <1>22 DEF Launch, Spawn, hostVars
<1>23. CASE Persist
  BY <1>23 DEF Persist, hostUnchanged, groupVars
<1>24. CASE Answer
  BY <1>24 DEF Answer, hostUnchanged, groupVars
<1>25. CASE Takeover
  BY <1>25 DEF Takeover, hostUnchanged, groupVars
<1>26. CASE Respawn
  BY <1>26 DEF Respawn, hostUnchanged, groupVars
<1>27. CASE DupEnds
  BY <1>27 DEF DupEnds, groupVars
<1>28. ASSUME NEW g \in Generation, HostServes(g) PROVE LedgerTyped'
  BY <1>28 DEF HostServes, groupVars
<1>29. ASSUME NEW g \in Generation, HostObeys(g) PROVE LedgerTyped'
  BY <1>29 DEF HostObeys, HostEnds, Ends, groupVars
<1>30. ASSUME NEW g \in Generation, HostCrashes(g) PROVE LedgerTyped'
  BY <1>30 DEF HostCrashes, HostEnds, Ends, groupVars
<1>31. ASSUME NEW g \in Generation, HostExits(g) PROVE LedgerTyped'
  BY <1>31 DEF HostExits, ChildEvent, groupVars, hostVars
<1>32. ASSUME NEW g \in Generation, SettleRun(g) PROVE LedgerTyped'
  BY <1>32 DEF SettleRun, hostUnchanged, groupVars
<1>33. ASSUME NEW g \in Generation, CollectRun(g) PROVE LedgerTyped'
  BY <1>33 DEF CollectRun, hostUnchanged, groupVars
<1>34. ASSUME NEW g \in Generation, CollectByHand(g) PROVE LedgerTyped'
  BY <1>34 DEF CollectByHand, hostUnchanged, groupVars
<1>35. ASSUME NEW g \in Generation, Wake(g) PROVE LedgerTyped'
  BY <1>35 DEF Wake, hostUnchanged, groupVars
<1>36. CASE RunStep
  BY <1>36 DEF RunStep, GroupStep, PublishPid, PublishExit, WrapperExits, Deliver, PidReused,
      AlienExits, SolverEnds
<1>37. QED BY <1>1, <1>2, <1>3, <1>4, <1>5, <1>6, <1>7, <1>8, <1>9, <1>10, <1>11, <1>12, <1>13,
    <1>14, <1>15, <1>16, <1>17, <1>18, <1>19, <1>20, <1>21, <1>22, <1>23, <1>24, <1>25, <1>26,
    <1>27, <1>28, <1>29, <1>30, <1>31, <1>32, <1>33, <1>34, <1>35, <1>36 DEF Next, Driver, Host

(* The log of the session, the index and the second execution keep their types.*)
LEMMA RestTypes == HostTyped /\ RestTyped /\ Next => RestTyped'
<1> SUFFICES ASSUME HostTyped /\ RestTyped, Next PROVE RestTyped'
  OBVIOUS
<1> USE BoundsAssumption DEF RestTyped, DupRecord
<1>1. CASE Install
  BY <1>1 DEF Install, Move, driverUnchanged, groupVars, hostVars
<1>2. CASE Prompt
  BY <1>2 DEF Prompt, Move, driverUnchanged, groupVars, hostVars
<1>3. CASE Accepted
  BY <1>3 DEF Accepted, Move, driverUnchanged, groupVars, hostVars
<1>4. CASE Submitted
  BY <1>4 DEF Submitted, Move, Healthy, driverUnchanged, groupVars, hostVars
<1>5. CASE Before
  BY <1>5 DEF Before, Move, Observe, driverUnchanged, groupVars, hostVars
<1>6. CASE Interrupt
  BY <1>6 DEF Interrupt, Move, driverUnchanged, groupVars, hostVars
<1>7. CASE Signalled
  BY <1>7 DEF Signalled, Move, driverUnchanged, groupVars, hostVars
<1>8. CASE StartHost(1, "spawn1", "ready1")
  BY <1>8 DEF StartHost, SpawnHost, Move, driverUnchanged, groupVars, hostVars
<1>9. CASE Ready(1, "ready1", "session")
  BY <1>9 DEF Ready, Move, Owner, driverUnchanged, groupVars, hostVars
<1>10. CASE Offline
  BY <1>10 DEF Offline, Move, Observe, driverUnchanged, groupVars, hostVars
<1>11. CASE StartHost(2, "spawn2", "ready2")
  BY <1>11 DEF StartHost, SpawnHost, Move, driverUnchanged, groupVars, hostVars
<1>12. CASE Ready(2, "ready2", "restarted")
  BY <1>12 DEF Ready, Move, Owner, driverUnchanged, groupVars, hostVars
<1>13. CASE Restarted
  BY <1>13 DEF Restarted, Move, Observe, driverUnchanged, groupVars, hostVars
<1>14. CASE Complete
  BY <1>14 DEF Complete, Observe, driverUnchanged, groupVars, hostVars
<1>15. CASE StopStep(1, "stop1", "stop2")
  BY <1>15 DEF StopStep, StopHost, Stopped, StopSignal, StopFails, driverUnchanged, groupVars,
      hostVars
<1>16. CASE StopStep(2, "stop2", "runs")
  BY <1>16 DEF StopStep, StopHost, Stopped, StopSignal, StopFails, driverUnchanged, groupVars,
      hostVars
<1>17. CASE CleanUpRuns
  BY <1>17 DEF CleanUpRuns, AllExited, Started, driverUnchanged, groupVars, hostVars
<1>18. CASE RunStopped
  BY <1>18 DEF RunStopped, StopRun, StopGroup, GroupQuiet, GroupUnproved, groupVars, hostVars
<1>19. CASE Judge
  BY <1>19 DEF Judge, Verdict, Move, driverUnchanged, groupVars, hostVars
<1>20. CASE GiveUp
  BY <1>20 DEF GiveUp, driverUnchanged, groupVars, hostVars
<1>21. CASE Admit
  BY <1>21 DEF Admit, NoJob, hostUnchanged, groupVars
<1>22. CASE Launch
  BY <1>22 DEF Launch, Spawn, hostVars
<1>23. CASE Persist
  BY <1>23 DEF Persist, hostUnchanged, groupVars
<1>24. CASE Answer
  BY <1>24 DEF Answer, hostUnchanged, groupVars
<1>25. CASE Takeover
  BY <1>25 DEF Takeover, hostUnchanged, groupVars
<1>26. CASE Respawn
  BY <1>26 DEF Respawn, hostUnchanged, groupVars
<1>27. CASE DupEnds
  BY <1>27 DEF DupEnds, groupVars
<1>28. ASSUME NEW g \in Generation, HostServes(g) PROVE RestTyped'
  BY <1>28 DEF HostServes, groupVars
<1>29. ASSUME NEW g \in Generation, HostObeys(g) PROVE RestTyped'
  BY <1>29 DEF HostObeys, HostEnds, Ends, groupVars
<1>30. ASSUME NEW g \in Generation, HostCrashes(g) PROVE RestTyped'
  BY <1>30 DEF HostCrashes, HostEnds, Ends, groupVars
<1>31. ASSUME NEW g \in Generation, HostExits(g) PROVE RestTyped'
  BY <1>31 DEF HostExits, ChildEvent, groupVars, hostVars
<1>32. ASSUME NEW g \in Generation, SettleRun(g) PROVE RestTyped'
  BY <1>32 DEF SettleRun, hostUnchanged, groupVars
<1>33. ASSUME NEW g \in Generation, CollectRun(g) PROVE RestTyped'
  BY <1>33 DEF CollectRun, hostUnchanged, groupVars
<1>34. ASSUME NEW g \in Generation, CollectByHand(g) PROVE RestTyped'
  BY <1>34 DEF CollectByHand, hostUnchanged, groupVars
<1>35. ASSUME NEW g \in Generation, Wake(g) PROVE RestTyped'
  BY <1>35 DEF Wake, hostUnchanged, groupVars
<1>36. CASE RunStep
  BY <1>36 DEF RunStep, GroupStep, PublishPid, PublishExit, WrapperExits, Deliver, PidReused,
      AlienExits, SolverEnds
<1>37. QED BY <1>1, <1>2, <1>3, <1>4, <1>5, <1>6, <1>7, <1>8, <1>9, <1>10, <1>11, <1>12, <1>13,
    <1>14, <1>15, <1>16, <1>17, <1>18, <1>19, <1>20, <1>21, <1>22, <1>23, <1>24, <1>25, <1>26,
    <1>27, <1>28, <1>29, <1>30, <1>31, <1>32, <1>33, <1>34, <1>35, <1>36 DEF Next, Driver, Host

(* The process group of the run keeps its types.                           *)
LEMMA GroupTypes == GroupTypeOK /\ Next => GroupTypeOK'
<1> SUFFICES ASSUME GroupTypeOK, Next PROVE GroupTypeOK'
  OBVIOUS
<1> USE BoundsAssumption DEF GroupTypeOK, LeaderState, Living, Code
<1>1. CASE Install
  BY <1>1 DEF Install, Move, driverUnchanged, groupVars, hostVars
<1>2. CASE Prompt
  BY <1>2 DEF Prompt, Move, driverUnchanged, groupVars, hostVars
<1>3. CASE Accepted
  BY <1>3 DEF Accepted, Move, driverUnchanged, groupVars, hostVars
<1>4. CASE Submitted
  BY <1>4 DEF Submitted, Move, Healthy, driverUnchanged, groupVars, hostVars
<1>5. CASE Before
  BY <1>5 DEF Before, Move, Observe, driverUnchanged, groupVars, hostVars
<1>6. CASE Interrupt
  BY <1>6 DEF Interrupt, Move, driverUnchanged, groupVars, hostVars
<1>7. CASE Signalled
  BY <1>7 DEF Signalled, Move, driverUnchanged, groupVars, hostVars
<1>8. CASE StartHost(1, "spawn1", "ready1")
  BY <1>8 DEF StartHost, SpawnHost, Move, driverUnchanged, groupVars, hostVars
<1>9. CASE Ready(1, "ready1", "session")
  BY <1>9 DEF Ready, Move, Owner, driverUnchanged, groupVars, hostVars
<1>10. CASE Offline
  BY <1>10 DEF Offline, Move, Observe, driverUnchanged, groupVars, hostVars
<1>11. CASE StartHost(2, "spawn2", "ready2")
  BY <1>11 DEF StartHost, SpawnHost, Move, driverUnchanged, groupVars, hostVars
<1>12. CASE Ready(2, "ready2", "restarted")
  BY <1>12 DEF Ready, Move, Owner, driverUnchanged, groupVars, hostVars
<1>13. CASE Restarted
  BY <1>13 DEF Restarted, Move, Observe, driverUnchanged, groupVars, hostVars
<1>14. CASE Complete
  BY <1>14 DEF Complete, Observe, driverUnchanged, groupVars, hostVars
<1>15. CASE StopStep(1, "stop1", "stop2")
  BY <1>15 DEF StopStep, StopHost, Stopped, StopSignal, StopFails, driverUnchanged, groupVars,
      hostVars
<1>16. CASE StopStep(2, "stop2", "runs")
  BY <1>16 DEF StopStep, StopHost, Stopped, StopSignal, StopFails, driverUnchanged, groupVars,
      hostVars
<1>17. CASE CleanUpRuns
  BY <1>17 DEF CleanUpRuns, AllExited, Started, driverUnchanged, groupVars, hostVars
<1>18. CASE RunStopped
  BY <1>18 DEF RunStopped, StopRun, StopGroup, GroupQuiet, GroupUnproved, groupVars, hostVars
<1>19. CASE Judge
  BY <1>19 DEF Judge, Verdict, Move, driverUnchanged, groupVars, hostVars
<1>20. CASE GiveUp
  BY <1>20 DEF GiveUp, driverUnchanged, groupVars, hostVars
<1>21. CASE Admit
  BY <1>21 DEF Admit, NoJob, hostUnchanged, groupVars
<1>22. CASE Launch
  BY <1>22 DEF Launch, Spawn, hostVars
<1>23. CASE Persist
  BY <1>23 DEF Persist, hostUnchanged, groupVars
<1>24. CASE Answer
  BY <1>24 DEF Answer, hostUnchanged, groupVars
<1>25. CASE Takeover
  BY <1>25 DEF Takeover, hostUnchanged, groupVars
<1>26. CASE Respawn
  BY <1>26 DEF Respawn, hostUnchanged, groupVars
<1>27. CASE DupEnds
  BY <1>27 DEF DupEnds, groupVars
<1>28. ASSUME NEW g \in Generation, HostServes(g) PROVE GroupTypeOK'
  BY <1>28 DEF HostServes, groupVars
<1>29. ASSUME NEW g \in Generation, HostObeys(g) PROVE GroupTypeOK'
  BY <1>29 DEF HostObeys, HostEnds, Ends, groupVars
<1>30. ASSUME NEW g \in Generation, HostCrashes(g) PROVE GroupTypeOK'
  BY <1>30 DEF HostCrashes, HostEnds, Ends, groupVars
<1>31. ASSUME NEW g \in Generation, HostExits(g) PROVE GroupTypeOK'
  BY <1>31 DEF HostExits, ChildEvent, groupVars, hostVars
<1>32. ASSUME NEW g \in Generation, SettleRun(g) PROVE GroupTypeOK'
  BY <1>32 DEF SettleRun, hostUnchanged, groupVars
<1>33. ASSUME NEW g \in Generation, CollectRun(g) PROVE GroupTypeOK'
  BY <1>33 DEF CollectRun, hostUnchanged, groupVars
<1>34. ASSUME NEW g \in Generation, CollectByHand(g) PROVE GroupTypeOK'
  BY <1>34 DEF CollectByHand, hostUnchanged, groupVars
<1>35. ASSUME NEW g \in Generation, Wake(g) PROVE GroupTypeOK'
  BY <1>35 DEF Wake, hostUnchanged, groupVars
<1>36. CASE RunStep
  <2>1. ASSUME PublishPid \/ PublishExit \/ WrapperExits \/ PidReused \/ AlienExits PROVE GroupTypeOK'
    BY <2>1 DEF PublishPid, PublishExit, WrapperExits, PidReused, AlienExits, Pending
  <2>2. ASSUME Deliver PROVE GroupTypeOK'
    <3>1. leader' \in {"gone", "vacated", leader}
      BY <2>2 DEF Deliver
    <3>2. QED BY <2>2, <3>1 DEF Deliver
  <2>3. ASSUME NEW code \in Code, SolverEnds(code) PROVE GroupTypeOK'
    BY <2>3 DEF SolverEnds, Pending
  <2>4. QED BY <1>36, <2>1, <2>2, <2>3 DEF RunStep, GroupStep
<1>37. QED BY <1>1, <1>2, <1>3, <1>4, <1>5, <1>6, <1>7, <1>8, <1>9, <1>10, <1>11, <1>12, <1>13,
    <1>14, <1>15, <1>16, <1>17, <1>18, <1>19, <1>20, <1>21, <1>22, <1>23, <1>24, <1>25, <1>26,
    <1>27, <1>28, <1>29, <1>30, <1>31, <1>32, <1>33, <1>34, <1>35, <1>36 DEF Next, Driver, Host

(* A step of the restart gate keeps every type.                            *)
LEMMA TypesStep == TypeOK /\ Next => TypeOK'
BY Typed, HostTypes, DriverTypes, LedgerTypes, RestTypes, GroupTypes
   DEF TypeOK, DriverTypeOK, HostTyped, DriverTyped, LedgerTyped, RestTyped, HostRecord, OutcomeRecord,
       ByRecord, DupRecord, JobRecord

(* What a stop leaves of a host.                                           *)
LEMMA StopLeaves ==
  ASSUME TypeOK, StopStep(1, "stop1", "stop2") \/ StopStep(2, "stop2", "runs")
  PROVE  /\ pc' \in {"stop1", "stop2", "runs"}
         /\ \A g \in Generation : host'[g].state = host[g].state /\ host'[g].exited = host[g].exited
<1> USE BoundsAssumption DEF TypeOK, DriverTypeOK
<1>1. pc' \in {"stop1", "stop2", "runs"}
  BY DEF StopStep, StopHost, Stopped, StopSignal, StopFails
<1>2. ASSUME NEW g \in Generation, NEW s, host' = [host EXCEPT ![g].signal = s]
      PROVE  \A h \in Generation : host'[h].state = host[h].state /\ host'[h].exited = host[h].exited
  BY <1>2
<1>3. host' = host \/ (\E s : host' = [host EXCEPT ![1].signal = s]) \/ (\E s : host' = [host EXCEPT ![2].signal = s])
  BY DEF StopStep, StopHost, Stopped, StopSignal, StopFails
<1>4. QED BY <1>1, <1>2, <1>3

(* Words are only ever added to the log of the owner session.               *)
LEMMA LogGrows ==
  ASSUME NEW S, NEW l \in Seq(S), NEW w \in S
  PROVE  /\ Append(l, w) \in Seq(S) /\ Len(Append(l, w)) = Len(l) + 1 /\ Len(l) \in Nat
         /\ DOMAIN l = 1..Len(l) /\ DOMAIN Append(l, w) = 1..Len(l) + 1
         /\ \A i \in 1..Len(l) : Append(l, w)[i] = l[i]
         /\ Append(l, w)[Len(l) + 1] = w
OBVIOUS

(* The end of a host.                                                      *)
LEMMA EndLeaves ==
  ASSUME TypeOK, NEW g \in Generation, NEW last, Ends(g, last)
  PROVE  /\ Alive(g) /\ \A h \in Generation : host'[h].state = IF h = g THEN "dead" ELSE host[h].state
         /\ host'[2].state = "none" => host[2].state = "none"
BY BoundsAssumption DEF TypeOK, DriverTypeOK, Ends, Alive

(* No host is left where the driver has gone past it.                      *)
LEMMA HostsStep == TypeOK /\ HostsInv /\ Next => HostsInv'
<1> SUFFICES ASSUME TypeOK /\ HostsInv, Next PROVE HostsInv'
  OBVIOUS
<1> USE BoundsAssumption DEF TypeOK, DriverTypeOK, HostsInv, Alive, Serving, Trying, Finishing
<1>1. CASE Install
  BY <1>1 DEF Install, Move, driverUnchanged, groupVars, hostVars
<1>2. CASE Prompt
  BY <1>2 DEF Prompt, Move, driverUnchanged, groupVars, hostVars
<1>3. CASE Accepted
  BY <1>3 DEF Accepted, Move, driverUnchanged, groupVars, hostVars
<1>4. CASE Submitted
  BY <1>4 DEF Submitted, Move, Healthy, driverUnchanged, groupVars, hostVars
<1>5. CASE Before
  BY <1>5 DEF Before, Move, Observe, driverUnchanged, groupVars, hostVars
<1>6. CASE Interrupt
  BY <1>6 DEF Interrupt, Move, driverUnchanged, groupVars, hostVars
<1>7. CASE Signalled
  BY <1>7 DEF Signalled, Move, driverUnchanged, groupVars, hostVars
<1>8. CASE StartHost(1, "spawn1", "ready1")
  BY <1>8 DEF StartHost, SpawnHost, Move, driverUnchanged, groupVars, hostVars
<1>9. CASE Ready(1, "ready1", "session")
  BY <1>9 DEF Ready, Move, Owner, driverUnchanged, groupVars, hostVars
<1>10. CASE Offline
  BY <1>10 DEF Offline, Move, Observe, driverUnchanged, groupVars, hostVars
<1>11. CASE StartHost(2, "spawn2", "ready2")
  BY <1>11 DEF StartHost, SpawnHost, Move, driverUnchanged, groupVars, hostVars
<1>12. CASE Ready(2, "ready2", "restarted")
  BY <1>12 DEF Ready, Move, Owner, driverUnchanged, groupVars, hostVars
<1>13. CASE Restarted
  BY <1>13 DEF Restarted, Move, Observe, driverUnchanged, groupVars, hostVars
<1>14. CASE Complete
  BY <1>14 DEF Complete, Observe, driverUnchanged, groupVars, hostVars
<1>15. CASE StopStep(1, "stop1", "stop2")
  BY <1>15, StopLeaves DEF Started
<1>16. CASE StopStep(2, "stop2", "runs")
  BY <1>16, StopLeaves DEF Started
<1>17. CASE CleanUpRuns
  BY <1>17 DEF CleanUpRuns, AllExited, Started, driverUnchanged, groupVars, hostVars
<1>18. CASE RunStopped
  BY <1>18 DEF RunStopped, StopRun, StopGroup, GroupQuiet, GroupUnproved, groupVars, hostVars
<1>19. CASE Judge
  BY <1>19 DEF Judge, Verdict, Move, driverUnchanged, groupVars, hostVars
<1>20. CASE GiveUp
  BY <1>20 DEF GiveUp, driverUnchanged, groupVars, hostVars
<1>21. CASE Admit
  BY <1>21 DEF Admit, NoJob, hostUnchanged, groupVars
<1>22. CASE Launch
  BY <1>22 DEF Launch, Spawn, hostVars
<1>23. CASE Persist
  BY <1>23 DEF Persist, hostUnchanged, groupVars
<1>24. CASE Answer
  BY <1>24 DEF Answer, hostUnchanged, groupVars
<1>25. CASE Takeover
  BY <1>25 DEF Takeover, hostUnchanged, groupVars
<1>26. CASE Respawn
  BY <1>26 DEF Respawn, hostUnchanged, groupVars
<1>27. CASE DupEnds
  BY <1>27 DEF DupEnds, groupVars
<1>28. ASSUME NEW g \in Generation, HostServes(g) PROVE HostsInv'
  BY <1>28 DEF HostServes, groupVars
<1>29. ASSUME NEW g \in Generation, HostObeys(g) PROVE HostsInv'
  BY <1>29 DEF HostObeys, HostEnds, Ends, groupVars
<1>30. ASSUME NEW g \in Generation, HostCrashes(g) PROVE HostsInv'
  BY <1>30 DEF HostCrashes, HostEnds, Ends, groupVars
<1>31. ASSUME NEW g \in Generation, HostExits(g) PROVE HostsInv'
  BY <1>31 DEF HostExits, ChildEvent, groupVars, hostVars
<1>32. ASSUME NEW g \in Generation, SettleRun(g) PROVE HostsInv'
  BY <1>32 DEF SettleRun, hostUnchanged, groupVars
<1>33. ASSUME NEW g \in Generation, CollectRun(g) PROVE HostsInv'
  BY <1>33 DEF CollectRun, hostUnchanged, groupVars
<1>34. ASSUME NEW g \in Generation, CollectByHand(g) PROVE HostsInv'
  BY <1>34 DEF CollectByHand, hostUnchanged, groupVars
<1>35. ASSUME NEW g \in Generation, Wake(g) PROVE HostsInv'
  BY <1>35 DEF Wake, hostUnchanged, groupVars
<1>36. CASE RunStep
  BY <1>36 DEF RunStep, GroupStep, PublishPid, PublishExit, WrapperExits, Deliver, PidReused,
      AlienExits, SolverEnds
<1>37. QED BY <1>1, <1>2, <1>3, <1>4, <1>5, <1>6, <1>7, <1>8, <1>9, <1>10, <1>11, <1>12, <1>13,
    <1>14, <1>15, <1>16, <1>17, <1>18, <1>19, <1>20, <1>21, <1>22, <1>23, <1>24, <1>25, <1>26,
    <1>27, <1>28, <1>29, <1>30, <1>31, <1>32, <1>33, <1>34, <1>35, <1>36 DEF Next, Driver, Host

(* What an observation adds to what was gathered.                          *)
LEMMA Observed ==
  ASSUME TypeOK, EvTyped, NEW phase, Observe(phase)
  PROVE  /\ DOMAIN ev' = {"jobs", "samples", "files", "cut", "locks"} /\ ev'.cut = ev.cut
         /\ ev'.jobs = Append(ev.jobs, job) /\ ev'.jobs \in Seq(JobRecord)
         /\ ev'.jobs[Len(ev'.jobs)] = job
         /\ ev'.files \in Seq({"original", "second"})
         /\ phase = "completion" => ev'.files = ev.files
         /\ phase # "completion" =>
              /\ Len(ev'.files) = Len(ev.files) + 1
              /\ ev'.files[Len(ev'.files)] = IF dup.start = "none" THEN "original" ELSE "second"
<1> DEFINE file == IF dup.start = "none" THEN "original" ELSE "second"
           all == IF phase = "completion" THEN ev.files ELSE Append(ev.files, file)
           jobs == Append(ev.jobs, job)
<1>1. ev' = [ev EXCEPT !.jobs = jobs, !.samples = Append(@, Sample(phase)), !.files = all]
  BY DEF Observe
<1>2. ev.files \in Seq({"original", "second"}) /\ file \in {"original", "second"}
  BY DEF EvTyped
<1>3. /\ all \in Seq({"original", "second"})
      /\ phase = "completion" => all = ev.files
      /\ phase # "completion" => Len(all) = Len(ev.files) + 1 /\ all[Len(all)] = file
  BY <1>2
<1>4. /\ jobs \in Seq(JobRecord) /\ jobs[Len(jobs)] = job
  BY DEF EvTyped, TypeOK, JobRecord
<1>5. DOMAIN ev = {"jobs", "samples", "files", "cut", "locks"}
  BY DEF EvTyped
<1> HIDE DEF file, all, jobs
<1>6. DOMAIN ev' = DOMAIN ev /\ ev'.cut = ev.cut /\ ev'.jobs = jobs /\ ev'.files = all
  BY <1>1, <1>5
<1>7. QED BY <1>3, <1>4, <1>5, <1>6 DEF file, all, jobs

(* What the driver has gathered only grows, and the cut stays inside the log.*)
LEMMA GatheredStep == TypeOK /\ EvTyped /\ Next => EvTyped'
<1> SUFFICES ASSUME TypeOK /\ EvTyped, Next PROVE EvTyped'
  OBVIOUS
<1> USE DEF EvTyped
<1>1. CASE Install
  BY <1>1 DEF Install, Move, driverUnchanged, groupVars, hostVars
<1>2. CASE Prompt
  BY <1>2 DEF Prompt, Move, driverUnchanged, groupVars, hostVars
<1>3. CASE Accepted
  BY <1>3 DEF Accepted, Move, driverUnchanged, groupVars, hostVars
<1>4. CASE Submitted
  <2>1. ev' = [ev EXCEPT !.cut = Len(log), !.jobs = <<job>>] /\ UNCHANGED log
    BY <1>4 DEF Submitted, driverUnchanged, hostVars
  <2>2. Len(log) \in Nat /\ <<job>> \in Seq(JobRecord)
    BY DEF TypeOK, JobRecord
  <2>3. QED BY <2>1, <2>2
<1>5. CASE Before
  <2>1. Observe("before") /\ UNCHANGED log
    BY <1>5 DEF Before, driverUnchanged, hostVars
  <2>2. QED BY <2>1, Observed DEF EvTyped
<1>6. CASE Interrupt
  BY <1>6 DEF Interrupt, Move, driverUnchanged, groupVars, hostVars
<1>7. CASE Signalled
  BY <1>7 DEF Signalled, Move, driverUnchanged, groupVars, hostVars
<1>8. CASE StartHost(1, "spawn1", "ready1")
  BY <1>8 DEF StartHost, SpawnHost, Move, driverUnchanged, groupVars, hostVars
<1>9. CASE Ready(1, "ready1", "session")
  BY <1>9 DEF Ready, Move, Owner, driverUnchanged, groupVars, hostVars
<1>10. CASE Offline
  <2>1. Observe("offline") /\ UNCHANGED log
    BY <1>10 DEF Offline, driverUnchanged, hostVars
  <2>2. QED BY <2>1, Observed DEF EvTyped
<1>11. CASE StartHost(2, "spawn2", "ready2")
  BY <1>11 DEF StartHost, SpawnHost, Move, driverUnchanged, groupVars, hostVars
<1>12. CASE Ready(2, "ready2", "restarted")
  BY <1>12 DEF Ready, Move, Owner, driverUnchanged, groupVars, hostVars
<1>13. CASE Restarted
  <2>1. Observe("restarted") /\ UNCHANGED log
    BY <1>13 DEF Restarted, driverUnchanged, hostVars
  <2>2. QED BY <2>1, Observed DEF EvTyped
<1>14. CASE Complete
  <2>1. Observe("completion") /\ UNCHANGED log
    BY <1>14 DEF Complete, driverUnchanged, hostVars
  <2>2. QED BY <2>1, Observed DEF EvTyped
<1>15. CASE StopStep(1, "stop1", "stop2")
  BY <1>15 DEF StopStep, StopHost, Stopped, StopSignal, StopFails, driverUnchanged, groupVars,
      hostVars
<1>16. CASE StopStep(2, "stop2", "runs")
  BY <1>16 DEF StopStep, StopHost, Stopped, StopSignal, StopFails, driverUnchanged, groupVars,
      hostVars
<1>17. CASE CleanUpRuns
  BY <1>17 DEF CleanUpRuns, AllExited, Started, driverUnchanged, groupVars, hostVars
<1>18. CASE RunStopped
  BY <1>18 DEF RunStopped, StopRun, StopGroup, GroupQuiet, GroupUnproved, groupVars, hostVars
<1>19. CASE Judge
  BY <1>19 DEF Judge, Verdict, Move, driverUnchanged, groupVars, hostVars
<1>20. CASE GiveUp
  BY <1>20 DEF GiveUp, driverUnchanged, groupVars, hostVars
<1>21. CASE Admit
  BY <1>21 DEF Admit, NoJob, hostUnchanged, groupVars, TypeOK
<1>22. CASE Launch
  BY <1>22 DEF Launch, Spawn, hostVars
<1>23. CASE Persist
  BY <1>23 DEF Persist, hostUnchanged, groupVars
<1>24. CASE Answer
  BY <1>24 DEF Answer, hostUnchanged, groupVars, TypeOK
<1>25. CASE Takeover
  BY <1>25 DEF Takeover, hostUnchanged, groupVars
<1>26. CASE Respawn
  BY <1>26 DEF Respawn, hostUnchanged, groupVars
<1>27. CASE DupEnds
  BY <1>27 DEF DupEnds, groupVars
<1>28. ASSUME NEW g \in Generation, HostServes(g) PROVE EvTyped'
  BY <1>28 DEF HostServes, groupVars
<1>29. ASSUME NEW g \in Generation, HostObeys(g) PROVE EvTyped'
  BY <1>29 DEF HostObeys, HostEnds, Ends, groupVars
<1>30. ASSUME NEW g \in Generation, HostCrashes(g) PROVE EvTyped'
  BY <1>30 DEF HostCrashes, HostEnds, Ends, groupVars
<1>31. ASSUME NEW g \in Generation, HostExits(g) PROVE EvTyped'
  BY <1>31 DEF HostExits, ChildEvent, groupVars, hostVars
<1>32. ASSUME NEW g \in Generation, SettleRun(g) PROVE EvTyped'
  BY <1>32 DEF SettleRun, hostUnchanged, groupVars
<1>33. ASSUME NEW g \in Generation, CollectRun(g) PROVE EvTyped'
  BY <1>33 DEF CollectRun, hostUnchanged, groupVars
<1>34. ASSUME NEW g \in Generation, CollectByHand(g) PROVE EvTyped'
  BY <1>34 DEF CollectByHand, hostUnchanged, groupVars, TypeOK
<1>35. ASSUME NEW g \in Generation, Wake(g) PROVE EvTyped'
  BY <1>35 DEF Wake, hostUnchanged, groupVars, TypeOK
<1>36. CASE RunStep
  BY <1>36 DEF RunStep, GroupStep, PublishPid, PublishExit, WrapperExits, Deliver, PidReused,
      AlienExits, SolverEnds
<1>37. QED BY <1>1, <1>2, <1>3, <1>4, <1>5, <1>6, <1>7, <1>8, <1>9, <1>10, <1>11, <1>12, <1>13,
    <1>14, <1>15, <1>16, <1>17, <1>18, <1>19, <1>20, <1>21, <1>22, <1>23, <1>24, <1>25, <1>26,
    <1>27, <1>28, <1>29, <1>30, <1>31, <1>32, <1>33, <1>34, <1>35, <1>36 DEF Next, Driver, Host

(* The record never says more of the execution than has happened.          *)
LEMMA RunsStep == TypeOK /\ HostsInv /\ RunInv /\ Next => RunInv'
<1> SUFFICES ASSUME TypeOK /\ HostsInv /\ RunInv, Next PROVE RunInv'
  OBVIOUS
<1> USE BoundsAssumption DEF TypeOK, RunInv, Serving, Executing, Ended, Living, Code
<1>1. CASE Install
  BY <1>1 DEF Install, Move, driverUnchanged, groupVars, hostVars
<1>2. CASE Prompt
  BY <1>2 DEF Prompt, Move, driverUnchanged, groupVars, hostVars
<1>3. CASE Accepted
  BY <1>3 DEF Accepted, Move, driverUnchanged, groupVars, hostVars
<1>4. CASE Submitted
  BY <1>4 DEF Submitted, Move, Healthy, driverUnchanged, groupVars, hostVars
<1>5. CASE Before
  BY <1>5 DEF Before, Move, Observe, driverUnchanged, groupVars, hostVars
<1>6. CASE Interrupt
  BY <1>6 DEF Interrupt, Move, driverUnchanged, groupVars, hostVars
<1>7. CASE Signalled
  BY <1>7 DEF Signalled, Move, driverUnchanged, groupVars, hostVars
<1>8. CASE StartHost(1, "spawn1", "ready1")
  BY <1>8 DEF StartHost, SpawnHost, Move, driverUnchanged, groupVars, hostVars
<1>9. CASE Ready(1, "ready1", "session")
  BY <1>9 DEF Ready, Move, Owner, driverUnchanged, groupVars, hostVars
<1>10. CASE Offline
  BY <1>10 DEF Offline, Move, Observe, driverUnchanged, groupVars, hostVars
<1>11. CASE StartHost(2, "spawn2", "ready2")
  BY <1>11 DEF StartHost, SpawnHost, Move, driverUnchanged, groupVars, hostVars
<1>12. CASE Ready(2, "ready2", "restarted")
  BY <1>12 DEF Ready, Move, Owner, driverUnchanged, groupVars, hostVars
<1>13. CASE Restarted
  BY <1>13 DEF Restarted, Move, Observe, driverUnchanged, groupVars, hostVars
<1>14. CASE Complete
  BY <1>14 DEF Complete, Observe, driverUnchanged, groupVars, hostVars
<1>15. CASE StopStep(1, "stop1", "stop2")
  BY <1>15 DEF StopStep, StopHost, Stopped, StopSignal, StopFails, driverUnchanged, groupVars,
      hostVars
<1>16. CASE StopStep(2, "stop2", "runs")
  BY <1>16 DEF StopStep, StopHost, Stopped, StopSignal, StopFails, driverUnchanged, groupVars,
      hostVars
<1>17. CASE CleanUpRuns
  BY <1>17 DEF CleanUpRuns, AllExited, Started, driverUnchanged, groupVars, hostVars
<1>18. CASE RunStopped
  BY <1>18 DEF RunStopped, StopRun, StopGroup, GroupQuiet, GroupUnproved, groupVars, hostVars
<1>19. CASE Judge
  BY <1>19 DEF Judge, Verdict, Move, driverUnchanged, groupVars, hostVars
<1>20. CASE GiveUp
  BY <1>20 DEF GiveUp, driverUnchanged, groupVars, hostVars
<1>21. CASE Admit
  BY <1>21 DEF Admit, NoJob, hostUnchanged, groupVars
<1>22. CASE Launch
  BY <1>22 DEF Launch, Spawn, hostVars
<1>23. CASE Persist
  BY <1>23 DEF Persist, hostUnchanged, groupVars
<1>24. CASE Answer
  BY <1>24 DEF Answer, hostUnchanged, groupVars
<1>25. CASE Takeover
  BY <1>25 DEF Takeover, hostUnchanged, groupVars
<1>26. CASE Respawn
  BY <1>26 DEF Respawn, hostUnchanged, groupVars
<1>27. CASE DupEnds
  BY <1>27 DEF DupEnds, groupVars
<1>28. ASSUME NEW g \in Generation, HostServes(g) PROVE RunInv'
  BY <1>28 DEF HostServes, groupVars
<1>29. ASSUME NEW g \in Generation, HostObeys(g) PROVE RunInv'
  BY <1>29 DEF HostObeys, HostEnds, Ends, groupVars
<1>30. ASSUME NEW g \in Generation, HostCrashes(g) PROVE RunInv'
  BY <1>30 DEF HostCrashes, HostEnds, Ends, groupVars
<1>31. ASSUME NEW g \in Generation, HostExits(g) PROVE RunInv'
  BY <1>31 DEF HostExits, ChildEvent, groupVars, hostVars
<1>32. ASSUME NEW g \in Generation, SettleRun(g) PROVE RunInv'
  BY <1>32 DEF SettleRun, hostUnchanged, groupVars
<1>33. ASSUME NEW g \in Generation, CollectRun(g) PROVE RunInv'
  BY <1>33 DEF CollectRun, hostUnchanged, groupVars
<1>34. ASSUME NEW g \in Generation, CollectByHand(g) PROVE RunInv'
  BY <1>34 DEF CollectByHand, hostUnchanged, groupVars
<1>35. ASSUME NEW g \in Generation, Wake(g) PROVE RunInv'
  BY <1>35 DEF Wake, hostUnchanged, groupVars
<1>36. CASE RunStep
  BY <1>36 DEF RunStep, GroupStep, PublishPid, PublishExit, WrapperExits, Deliver, PidReused,
      AlienExits, SolverEnds
<1>37. QED BY <1>1, <1>2, <1>3, <1>4, <1>5, <1>6, <1>7, <1>8, <1>9, <1>10, <1>11, <1>12, <1>13,
    <1>14, <1>15, <1>16, <1>17, <1>18, <1>19, <1>20, <1>21, <1>22, <1>23, <1>24, <1>25, <1>26,
    <1>27, <1>28, <1>29, <1>30, <1>31, <1>32, <1>33, <1>34, <1>35, <1>36 DEF Next, Driver, Host

(* A run that has ended stays so, with the code it left.                   *)
LEMMA GroupMoves ==
  TypeOK /\ RunInv /\ RunStep =>
    /\ ~Executing => ~Executing' /\ exitFile' = exitFile
    /\ (leader' = "none") <=> (leader = "none")
    /\ UNCHANGED <<lock, log, job, record, index, dup, restartSignal, pc, host, owned, ev, outcome, faults>>
    /\ by' = IF Executing /\ ~Executing' THEN [by EXCEPT !.ended = lock] ELSE by
<1> SUFFICES ASSUME TypeOK, RunInv, RunStep
             PROVE  /\ ~Executing => ~Executing' /\ exitFile' = exitFile
                    /\ (leader' = "none") <=> (leader = "none")
  BY DEF RunStep
<1> USE DEF TypeOK, GroupTypeOK, RunInv, Executing, Living, Code
<1>1. CASE PublishPid \/ PublishExit \/ WrapperExits \/ PidReused \/ AlienExits
  BY <1>1 DEF PublishPid, PublishExit, WrapperExits, PidReused, AlienExits
<1>2. CASE Deliver
  BY <1>2 DEF Deliver
<1>3. ASSUME NEW code \in Code, SolverEnds(code)
      PROVE  /\ ~Executing => ~Executing' /\ exitFile' = exitFile
             /\ (leader' = "none") <=> (leader = "none")
  BY <1>3 DEF SolverEnds
<1>4. QED BY <1>1, <1>2, <1>3 DEF RunStep, GroupStep

(* The driver reads wrapper.pid once on each side of the restart.          *)
LEMMA FilesStep == TypeOK /\ EvTyped /\ HostsInv /\ FilesInv /\ Next => FilesInv'
<1> SUFFICES ASSUME TypeOK /\ EvTyped /\ HostsInv /\ FilesInv, Next PROVE FilesInv'
  OBVIOUS
<1> USE BoundsAssumption DEF HostsInv, FilesInv, Serving, Alive, Trying, Finishing
<1>0. HostTyped /\ ev.files \in Seq({"original", "second"})
  BY Typed DEF EvTyped
<1>1. CASE Install
  BY <1>1 DEF Install, Move, driverUnchanged, groupVars, hostVars
<1>2. CASE Prompt
  BY <1>2 DEF Prompt, Move, driverUnchanged, groupVars, hostVars
<1>3. CASE Accepted
  BY <1>3 DEF Accepted, Move, driverUnchanged, groupVars, hostVars
<1>4. CASE Submitted
  BY <1>4 DEF Submitted, Move, Healthy, driverUnchanged, groupVars, hostVars
<1>5. CASE Before
  BY <1>5 DEF Before, Move, Observe, driverUnchanged, groupVars, hostVars
<1>6. CASE Interrupt
  BY <1>6 DEF Interrupt, Move, driverUnchanged, groupVars, hostVars
<1>7. CASE Signalled
  BY <1>7 DEF Signalled, Move, driverUnchanged, groupVars, hostVars
<1>8. CASE StartHost(1, "spawn1", "ready1")
  BY <1>8 DEF StartHost, SpawnHost, Move, driverUnchanged, groupVars, hostVars
<1>9. CASE Ready(1, "ready1", "session")
  BY <1>9 DEF Ready, Move, Owner, driverUnchanged, groupVars, hostVars
<1>10. CASE Offline
  <2>1. Observe("offline") /\ UNCHANGED <<log, host, dup>> /\ pc = "offline"
    BY <1>10 DEF Offline, Move, driverUnchanged, hostVars
  <2>2. pc' \in {"spawn2", "interrupt", "complete"}
    BY <1>10 DEF Offline, Move
  <2>3. Len(ev'.files) = Len(ev.files) + 1
    BY <2>1, Observed
  <2>4. host[2].state = "none" /\ Len(ev.files) = 1
    BY <2>1
  <2>5. pc' = "spawn2" /\ Len(ev'.files) = 2
    BY <2>3, <2>4, <1>10 DEF Offline, Move
  <2>6. dup' = dup /\ dup.start = "none" /\ host' = host
    BY <2>1, <2>4
  <2>7. QED BY <2>5, <2>6
<1>11. CASE StartHost(2, "spawn2", "ready2")
  BY <1>11 DEF StartHost, SpawnHost, Move, driverUnchanged, groupVars, hostVars
<1>12. CASE Ready(2, "ready2", "restarted")
  BY <1>12 DEF Ready, Move, Owner, driverUnchanged, groupVars, hostVars
<1>13. CASE Restarted
  BY <1>13 DEF Restarted, Move, Observe, driverUnchanged, groupVars, hostVars
<1>14. CASE Complete
  BY <1>14 DEF Complete, Observe, driverUnchanged, groupVars, hostVars
<1>15. CASE StopStep(1, "stop1", "stop2")
  <2>1. pc' \in {"stop1", "stop2", "runs"} /\ UNCHANGED <<ev, dup>> /\ host'[2].state = host[2].state
    BY <1>15, StopLeaves, BoundsAssumption DEF StopStep, driverUnchanged, hostVars
  <2>2. QED BY <2>1
<1>16. CASE StopStep(2, "stop2", "runs")
  <2>1. pc' \in {"stop1", "stop2", "runs"} /\ UNCHANGED <<ev, dup>> /\ host'[2].state = host[2].state
    BY <1>16, StopLeaves, BoundsAssumption DEF StopStep, driverUnchanged, hostVars
  <2>2. QED BY <2>1
<1>17. CASE CleanUpRuns
  BY <1>17 DEF CleanUpRuns, AllExited, Started, driverUnchanged, groupVars, hostVars
<1>18. CASE RunStopped
  BY <1>18 DEF RunStopped, StopRun, StopGroup, GroupQuiet, GroupUnproved, groupVars, hostVars
<1>19. CASE Judge
  BY <1>19 DEF Judge, Verdict, Move, driverUnchanged, groupVars, hostVars
<1>20. CASE GiveUp
  BY <1>20 DEF GiveUp, driverUnchanged, groupVars, hostVars
<1>21. CASE Admit
  BY <1>21 DEF Admit, NoJob, hostUnchanged, groupVars
<1>22. CASE Launch
  BY <1>22 DEF Launch, Spawn, hostVars
<1>23. CASE Persist
  BY <1>23 DEF Persist, hostUnchanged, groupVars
<1>24. CASE Answer
  BY <1>24 DEF Answer, hostUnchanged, groupVars
<1>25. CASE Takeover
  BY <1>25 DEF Takeover, hostUnchanged, groupVars
<1>26. CASE Respawn
  <2>1. pc' = pc /\ ev' = ev /\ host' = host /\ host[2].state = "serving"
    BY <1>26 DEF Respawn, hostUnchanged
  <2>2. ASSUME Len(ev.files) = 2 PROVE dup'.start # "late"
    BY <1>26, <2>2 DEF Respawn
  <2>3. QED BY <2>1, <2>2
<1>27. CASE DupEnds
  BY <1>27 DEF DupEnds, groupVars
<1>28. ASSUME NEW g \in Generation, HostServes(g) PROVE FilesInv'
  BY <1>28 DEF HostServes, groupVars
<1>29. ASSUME NEW g \in Generation, HostObeys(g) PROVE FilesInv'
  <2>1. UNCHANGED <<pc, ev, dup>> /\ (host'[2].state = "none" => host[2].state = "none")
    BY <1>29, EndLeaves DEF HostObeys, HostEnds
  <2>2. QED BY <2>1
<1>30. ASSUME NEW g \in Generation, HostCrashes(g) PROVE FilesInv'
  <2>1. UNCHANGED <<pc, ev, dup>> /\ (host'[2].state = "none" => host[2].state = "none")
    BY <1>30, EndLeaves DEF HostCrashes, HostEnds
  <2>2. QED BY <2>1
<1>31. ASSUME NEW g \in Generation, HostExits(g) PROVE FilesInv'
  BY <1>31 DEF HostExits, ChildEvent, groupVars, hostVars
<1>32. ASSUME NEW g \in Generation, SettleRun(g) PROVE FilesInv'
  BY <1>32 DEF SettleRun, hostUnchanged, groupVars
<1>33. ASSUME NEW g \in Generation, CollectRun(g) PROVE FilesInv'
  BY <1>33 DEF CollectRun, hostUnchanged, groupVars
<1>34. ASSUME NEW g \in Generation, CollectByHand(g) PROVE FilesInv'
  BY <1>34 DEF CollectByHand, hostUnchanged, groupVars
<1>35. ASSUME NEW g \in Generation, Wake(g) PROVE FilesInv'
  BY <1>35 DEF Wake, hostUnchanged, groupVars
<1>36. CASE RunStep
  BY <1>36 DEF RunStep, GroupStep, PublishPid, PublishExit, WrapperExits, Deliver, PidReused,
      AlienExits, SolverEnds
<1>37. QED BY <1>1, <1>2, <1>3, <1>4, <1>5, <1>6, <1>7, <1>8, <1>9, <1>10, <1>11, <1>12, <1>13,
    <1>14, <1>15, <1>16, <1>17, <1>18, <1>19, <1>20, <1>21, <1>22, <1>23, <1>24, <1>25, <1>26,
    <1>27, <1>28, <1>29, <1>30, <1>31, <1>32, <1>33, <1>34, <1>35, <1>36 DEF Next, Driver, Host

(* What ends after the second host took over ends under it.                *)
LEMMA SurvivalStep == RestartInv /\ Next => SurvivalInv'
<1> SUFFICES ASSUME RestartInv, Next PROVE SurvivalInv'
  OBVIOUS
<1> USE BoundsAssumption DEF RestartInv, TypeOK, DriverTypeOK, EvTyped, HostsInv, SurvivalInv,
        Serving, Alive, Trying, Finishing, Later, Ended, Executing
<1>1. CASE Install
  BY <1>1 DEF Install, Move, driverUnchanged, groupVars, hostVars
<1>2. CASE Prompt
  BY <1>2 DEF Prompt, Move, driverUnchanged, groupVars, hostVars
<1>3. CASE Accepted
  BY <1>3 DEF Accepted, Move, driverUnchanged, groupVars, hostVars
<1>4. CASE Submitted
  BY <1>4 DEF Submitted, Move, Healthy, driverUnchanged, groupVars, hostVars
<1>5. CASE Before
  BY <1>5 DEF Before, Move, Observe, driverUnchanged, groupVars, hostVars
<1>6. CASE Interrupt
  BY <1>6 DEF Interrupt, Move, driverUnchanged, groupVars, hostVars
<1>7. CASE Signalled
  BY <1>7 DEF Signalled, Move, driverUnchanged, groupVars, hostVars
<1>8. CASE StartHost(1, "spawn1", "ready1")
  BY <1>8 DEF StartHost, SpawnHost, Move, driverUnchanged, groupVars, hostVars
<1>9. CASE Ready(1, "ready1", "session")
  BY <1>9 DEF Ready, Move, Owner, driverUnchanged, groupVars, hostVars
<1>10. CASE Offline
  BY <1>10 DEF Offline, Move, Observe, driverUnchanged, groupVars, hostVars
<1>11. CASE StartHost(2, "spawn2", "ready2")
  BY <1>11 DEF StartHost, SpawnHost, Move, driverUnchanged, groupVars, hostVars
<1>12. CASE Ready(2, "ready2", "restarted")
  BY <1>12 DEF Ready, Move, Owner, driverUnchanged, groupVars, hostVars
<1>13. CASE Restarted
  <2>1. /\ Observe("restarted") /\ UNCHANGED <<log, job, by, dup>> /\ pc = "restarted"
        /\ UNCHANGED <<leader, solver, exitFile>>
    BY <1>13 DEF Restarted, Move, driverUnchanged, hostVars, groupVars
  <2>2. Len(ev.files) = 2 /\ dup.start # "late"
    BY <2>1 DEF FilesInv
  <2>3. Len(ev'.files) = 3 /\ ev'.files[3] = IF dup.start = "none" THEN "original" ELSE "second"
    <3>1. /\ Len(ev'.files) = Len(ev.files) + 1
          /\ ev'.files[Len(ev'.files)] = IF dup.start = "none" THEN "original" ELSE "second"
      BY <2>1, Observed
    <3>2. Len(ev'.files) = 3
      BY <3>1, <2>2
    <3>3. QED BY <3>1, <3>2
  <2>4. ev'.files \in Seq({"original", "second"})
    BY <2>1, Observed
  <2>5. 3 \in DOMAIN ev'.files
    BY <2>3, <2>4
  <2>6. LiveRun(Sample("restarted"))
    BY <2>1 DEF Observe, Observable, Sample
  <2>7. leader \in Living /\ exitFile = "none"
    BY <2>6 DEF LiveRun, Sample
  <2>8. leader # "none"
    BY <2>7 DEF Living, Code
  <2>9. job.status \notin Ended /\ \A i \in DOMAIN log : log[i] # "wake"
    BY <2>7 DEF RunInv
  <2>10. QED BY <2>1, <2>3, <2>5, <2>7, <2>8, <2>9
<1>14. CASE Complete
  <2>1. /\ Observe("completion") /\ UNCHANGED <<log, job, by, dup>> /\ pc = "complete"
        /\ UNCHANGED <<leader, solver>>
    BY <1>14 DEF Complete, driverUnchanged, hostVars, groupVars
  <2>2. ev'.files = ev.files /\ ev'.cut = ev.cut
    BY <2>1, Observed
  <2>3. QED BY <2>1, <2>2
<1>15. CASE StopStep(1, "stop1", "stop2")
  BY <1>15 DEF StopStep, StopHost, Stopped, StopSignal, StopFails, driverUnchanged, groupVars,
      hostVars
<1>16. CASE StopStep(2, "stop2", "runs")
  BY <1>16 DEF StopStep, StopHost, Stopped, StopSignal, StopFails, driverUnchanged, groupVars,
      hostVars
<1>17. CASE CleanUpRuns
  BY <1>17 DEF CleanUpRuns, AllExited, Started, driverUnchanged, groupVars, hostVars
<1>18. CASE RunStopped
  BY <1>18 DEF RunStopped, StopRun, StopGroup, GroupQuiet, GroupUnproved, groupVars, hostVars
<1>19. CASE Judge
  BY <1>19 DEF Judge, Verdict, Move, driverUnchanged, groupVars, hostVars
<1>20. CASE GiveUp
  BY <1>20 DEF GiveUp, driverUnchanged, groupVars, hostVars
<1>21. CASE Admit
  BY <1>21 DEF Admit, NoJob, hostUnchanged, groupVars
<1>22. CASE Launch
  BY <1>22 DEF Launch, Spawn, hostVars
<1>23. CASE Persist
  BY <1>23 DEF Persist, hostUnchanged, groupVars
<1>24. CASE Answer
  BY <1>24 DEF Answer, hostUnchanged, groupVars
<1>25. CASE Takeover
  BY <1>25 DEF Takeover, hostUnchanged, groupVars
<1>26. CASE Respawn
  <2>1. UNCHANGED <<pc, ev, log, job, by, leader, solver>>
    BY <1>26 DEF Respawn, hostUnchanged, groupVars
  <2>2. ASSUME pc = "complete" PROVE Len(ev.files) = 3 /\ dup'.start = "late"
    <3>1. Len(ev.files) = 3
      BY <2>2
    <3>2. QED BY <1>26, <3>1 DEF Respawn
  <2>3. QED BY <2>1, <2>2
<1>27. CASE DupEnds
  BY <1>27 DEF DupEnds, groupVars
<1>28. ASSUME NEW g \in Generation, HostServes(g) PROVE SurvivalInv'
  BY <1>28 DEF HostServes, groupVars
<1>29. ASSUME NEW g \in Generation, HostObeys(g) PROVE SurvivalInv'
  BY <1>29 DEF HostObeys, HostEnds, Ends, groupVars
<1>30. ASSUME NEW g \in Generation, HostCrashes(g) PROVE SurvivalInv'
  BY <1>30 DEF HostCrashes, HostEnds, Ends, groupVars
<1>31. ASSUME NEW g \in Generation, HostExits(g) PROVE SurvivalInv'
  BY <1>31 DEF HostExits, ChildEvent, groupVars, hostVars
<1>32. ASSUME NEW g \in Generation, SettleRun(g) PROVE SurvivalInv'
  BY <1>32 DEF SettleRun, hostUnchanged, groupVars
<1>33. ASSUME NEW g \in Generation, CollectRun(g) PROVE SurvivalInv'
  BY <1>33 DEF CollectRun, hostUnchanged, groupVars
<1>34. ASSUME NEW g \in Generation, CollectByHand(g) PROVE SurvivalInv'
  <2> SUFFICES ASSUME pc' = "complete" PROVE SurvivalInv'
    OBVIOUS
  <2>1. /\ pc = "complete" /\ UNCHANGED <<ev, by, dup, leader, solver>> /\ log' = Append(log, "tool")
        /\ job.status \in Ended /\ job'.status = "collected"
    BY <1>34 DEF CollectByHand, hostUnchanged, groupVars
  <2>2. /\ Len(log) \in Nat /\ DOMAIN log = 1..Len(log) /\ DOMAIN log' = 1..Len(log) + 1
        /\ (\A i \in 1..Len(log) : log'[i] = log[i]) /\ log'[Len(log) + 1] = "tool"
    BY <2>1, LogGrows
  <2>3. Later("tool")'
    <3>1. Len(log) + 1 \in DOMAIN log' /\ Len(log) + 1 > ev.cut
      BY <2>2
    <3>2. QED BY <2>1, <2>2, <3>1
  <2>4. \A i \in DOMAIN log' : log'[i] = "wake" => by.woken = 2
    BY <2>1, <2>2
  <2>5. QED BY <2>1, <2>3, <2>4
<1>35. ASSUME NEW g \in Generation, Wake(g) PROVE SurvivalInv'
  <2> SUFFICES ASSUME pc' = "complete" PROVE SurvivalInv'
    OBVIOUS
  <2>1. /\ pc = "complete" /\ g = 2 /\ UNCHANGED <<ev, dup, leader, solver>>
        /\ job.status = "collected" /\ job'.status = "collected"
    BY <1>35 DEF Wake, hostUnchanged, groupVars
  <2>2. CASE UNCHANGED <<log, by>>
    BY <2>1, <2>2
  <2>3. CASE log' = Append(log, "wake") /\ by' = [by EXCEPT !.woken = g]
    <3>1. /\ Len(log) \in Nat /\ DOMAIN log = 1..Len(log) /\ DOMAIN log' = 1..Len(log) + 1
          /\ \A i \in 1..Len(log) : log'[i] = log[i]
      BY <2>3, LogGrows
    <3>2. by'.woken = 2 /\ by'.settled = by.settled /\ by'.collected = by.collected /\ by'.ended = by.ended
      BY <2>1, <2>3
    <3>3. Later("tool") => Later("tool")'
      BY <2>1, <3>1
    <3>4. QED BY <2>1, <3>2, <3>3
  <2>4. QED BY <1>35, <2>2, <2>3 DEF Wake
<1>36. CASE RunStep
  <2>1. /\ ~Executing => ~Executing'
        /\ leader # "none" => leader' # "none"
        /\ UNCHANGED <<lock, log, job, record, index, dup, restartSignal, pc, host, owned, ev, outcome, faults>>
        /\ by' = IF Executing /\ ~Executing' THEN [by EXCEPT !.ended = lock] ELSE by
    BY <1>36, GroupMoves
  <2>2. QED BY <2>1
<1>37. QED BY <1>1, <1>2, <1>3, <1>4, <1>5, <1>6, <1>7, <1>8, <1>9, <1>10, <1>11, <1>12, <1>13,
    <1>14, <1>15, <1>16, <1>17, <1>18, <1>19, <1>20, <1>21, <1>22, <1>23, <1>24, <1>25, <1>26,
    <1>27, <1>28, <1>29, <1>30, <1>31, <1>32, <1>33, <1>34, <1>35, <1>36 DEF Next, Driver, Host

(* What was logged after a cut.                                            *)
LEMMA AfterTheCut ==
  ASSUME NEW S, NEW l \in Seq(S), NEW n \in Nat, n <= Len(l), NEW w
  PROVE  w \in ToSet(SubSeq(l, n + 1, Len(l))) <=> \E i \in DOMAIN l : i > n /\ l[i] = w
<1> DEFINE later == SubSeq(l, n + 1, Len(l))
<1>1. /\ DOMAIN later = 1..Len(l) - n
      /\ \A i \in 1..Len(l) - n : later[i] = l[n + i]
  OBVIOUS
<1>2. ASSUME w \in ToSet(later) PROVE \E i \in DOMAIN l : i > n /\ l[i] = w
  <2>1. PICK k \in DOMAIN later : later[k] = w
    BY <1>2 DEF ToSet
  <2>2. n + k \in DOMAIN l /\ n + k > n /\ l[n + k] = w
    BY <1>1, <2>1
  <2>3. QED BY <2>2
<1>3. ASSUME NEW i \in DOMAIN l, i > n, l[i] = w PROVE w \in ToSet(later)
  <2>1. i - n \in DOMAIN later /\ later[i - n] = w
    BY <1>1, <1>3
  <2>2. QED BY <2>1 DEF ToSet
<1>4. QED BY <1>2, <1>3

(* Nothing the evidence is about moves after it was accepted.              *)
LEMMA AcceptedStep == RestartInv /\ Next => AcceptedInv'
<1> SUFFICES ASSUME RestartInv, Next PROVE AcceptedInv'
  OBVIOUS
<1> USE BoundsAssumption DEF RestartInv, TypeOK, DriverTypeOK, RunInv, AcceptedInv, Accepting,
        Serving, Trying, Finishing, Ended
<1>1. CASE Install
  BY <1>1 DEF Install, Move, driverUnchanged, groupVars, hostVars
<1>2. CASE Prompt
  BY <1>2 DEF Prompt, Move, driverUnchanged, groupVars, hostVars
<1>3. CASE Accepted
  BY <1>3 DEF Accepted, Move, driverUnchanged, groupVars, hostVars
<1>4. CASE Submitted
  BY <1>4 DEF Submitted, Move, Healthy, driverUnchanged, groupVars, hostVars
<1>5. CASE Before
  BY <1>5 DEF Before, Move, Observe, driverUnchanged, groupVars, hostVars
<1>6. CASE Interrupt
  BY <1>6 DEF Interrupt, Move, driverUnchanged, groupVars, hostVars
<1>7. CASE Signalled
  BY <1>7 DEF Signalled, Move, driverUnchanged, groupVars, hostVars
<1>8. CASE StartHost(1, "spawn1", "ready1")
  BY <1>8 DEF StartHost, SpawnHost, Move, driverUnchanged, groupVars, hostVars
<1>9. CASE Ready(1, "ready1", "session")
  BY <1>9 DEF Ready, Move, Owner, driverUnchanged, groupVars, hostVars
<1>10. CASE Offline
  BY <1>10 DEF Offline, Move, Observe, driverUnchanged, groupVars, hostVars
<1>11. CASE StartHost(2, "spawn2", "ready2")
  BY <1>11 DEF StartHost, SpawnHost, Move, driverUnchanged, groupVars, hostVars
<1>12. CASE Ready(2, "ready2", "restarted")
  BY <1>12 DEF Ready, Move, Owner, driverUnchanged, groupVars, hostVars
<1>13. CASE Restarted
  BY <1>13 DEF Restarted, Move, Observe, driverUnchanged, groupVars, hostVars
<1>14. CASE Complete
  <2> SUFFICES ASSUME pc' \in Finishing, ~outcome'.failed PROVE AcceptedInv'
    OBVIOUS
  <2>1. /\ pc = "complete" /\ Observe("completion")
        /\ UNCHANGED <<log, job, by, dup, record, leader, solver, exitFile>>
    BY <1>14 DEF Complete, driverUnchanged, hostVars, groupVars
  <2>2. /\ job.status = "collected" /\ job.notify # "pending"
        /\ outcome' = [outcome EXCEPT !.failed = ~RestartEvidence(ev', record)]
    BY <1>14, <2>1 DEF Complete
  <2>3. RestartEvidence(ev', record)
    BY <2>2
  <2>4. /\ ev'.files = ev.files /\ ev'.cut = ev.cut /\ ev'.jobs[Len(ev'.jobs)] = job
    BY <2>1, Observed
  <2>5. record = exitFile /\ Len(ev.files) >= 3 /\ (\A i \in DOMAIN ev.files : ev.files[i] = "original")
        /\ Told(Last(ev'.jobs).notify, SubSeq(log, ev.cut + 1, Len(log)))
    BY <2>3, <2>4 DEF RestartEvidence, Survived
  <2>6. Later("wake") /\ ~Later("tool")
    BY <2>5, AfterTheCut DEF Told, Later, EvTyped
  <2>7. by.woken = 2 /\ by.collected = 2 /\ by.settled = 2 /\ by.ended = 2 /\ dup.start # "early" /\ Len(ev.files) = 3
    BY <2>1, <2>2, <2>5, <2>6 DEF SurvivalInv, Later
  <2>8. QED BY <2>1, <2>2, <2>4, <2>5, <2>7
<1>15. CASE StopStep(1, "stop1", "stop2")
  BY <1>15 DEF StopStep, StopHost, Stopped, StopSignal, StopFails, driverUnchanged, groupVars,
      hostVars
<1>16. CASE StopStep(2, "stop2", "runs")
  BY <1>16 DEF StopStep, StopHost, Stopped, StopSignal, StopFails, driverUnchanged, groupVars,
      hostVars
<1>17. CASE CleanUpRuns
  BY <1>17 DEF CleanUpRuns, AllExited, Started, driverUnchanged, groupVars, hostVars
<1>18. CASE RunStopped
  BY <1>18 DEF RunStopped, StopRun, StopGroup, GroupQuiet, GroupUnproved, groupVars, hostVars
<1>19. CASE Judge
  BY <1>19 DEF Judge, Verdict, Move, driverUnchanged, groupVars, hostVars
<1>20. CASE GiveUp
  BY <1>20 DEF GiveUp, driverUnchanged, groupVars, hostVars
<1>21. CASE Admit
  BY <1>21 DEF Admit, NoJob, hostUnchanged, groupVars
<1>22. CASE Launch
  BY <1>22 DEF Launch, Spawn, hostVars
<1>23. CASE Persist
  BY <1>23 DEF Persist, hostUnchanged, groupVars
<1>24. CASE Answer
  BY <1>24 DEF Answer, hostUnchanged, groupVars
<1>25. CASE Takeover
  BY <1>25 DEF Takeover, hostUnchanged, groupVars
<1>26. CASE Respawn
  <2>1. /\ UNCHANGED <<pc, ev, job, by, outcome, record, exitFile>> /\ dup.start = "none"
        /\ dup'.start = IF Len(ev.files) < 3 THEN "early" ELSE "late"
    BY <1>26 DEF Respawn, hostUnchanged, groupVars
  <2>2. Accepting => Len(ev.files) = 3 /\ dup'.start = "late"
    BY <2>1
  <2>3. QED BY <2>1, <2>2
<1>27. CASE DupEnds
  BY <1>27 DEF DupEnds, groupVars
<1>28. ASSUME NEW g \in Generation, HostServes(g) PROVE AcceptedInv'
  BY <1>28 DEF HostServes, groupVars
<1>29. ASSUME NEW g \in Generation, HostObeys(g) PROVE AcceptedInv'
  BY <1>29 DEF HostObeys, HostEnds, Ends, groupVars
<1>30. ASSUME NEW g \in Generation, HostCrashes(g) PROVE AcceptedInv'
  BY <1>30 DEF HostCrashes, HostEnds, Ends, groupVars
<1>31. ASSUME NEW g \in Generation, HostExits(g) PROVE AcceptedInv'
  BY <1>31 DEF HostExits, ChildEvent, groupVars, hostVars
<1>32. ASSUME NEW g \in Generation, SettleRun(g) PROVE AcceptedInv'
  BY <1>32 DEF SettleRun, hostUnchanged, groupVars
<1>33. ASSUME NEW g \in Generation, CollectRun(g) PROVE AcceptedInv'
  BY <1>33 DEF CollectRun, hostUnchanged, groupVars
<1>34. ASSUME NEW g \in Generation, CollectByHand(g) PROVE AcceptedInv'
  BY <1>34 DEF CollectByHand, hostUnchanged, groupVars
<1>35. ASSUME NEW g \in Generation, Wake(g) PROVE AcceptedInv'
  BY <1>35 DEF Wake, hostUnchanged, groupVars
<1>36. CASE RunStep
  <2>1. /\ ~Executing => ~Executing' /\ exitFile' = exitFile
        /\ UNCHANGED <<lock, log, job, record, index, dup, restartSignal, pc, host, owned, ev, outcome, faults>>
        /\ by' = IF Executing /\ ~Executing' THEN [by EXCEPT !.ended = lock] ELSE by
    BY <1>36, GroupMoves
  <2>2. QED BY <2>1
<1>37. QED BY <1>1, <1>2, <1>3, <1>4, <1>5, <1>6, <1>7, <1>8, <1>9, <1>10, <1>11, <1>12, <1>13,
    <1>14, <1>15, <1>16, <1>17, <1>18, <1>19, <1>20, <1>21, <1>22, <1>23, <1>24, <1>25, <1>26,
    <1>27, <1>28, <1>29, <1>30, <1>31, <1>32, <1>33, <1>34, <1>35, <1>36 DEF Next, Driver, Host

(* A PASS is given once, by a driver that has not failed.                  *)
LEMMA JudgedStep == RestartInv /\ Next => JudgedInv'
<1> SUFFICES ASSUME RestartInv, Next PROVE JudgedInv'
  OBVIOUS
<1> USE BoundsAssumption DEF RestartInv, TypeOK, DriverTypeOK, HostsInv, RunInv, JudgedInv,
        Serving, Alive, Trying, Finishing, Executing, Living, Code
<1>1. CASE Install
  BY <1>1 DEF Install, Move, driverUnchanged, groupVars, hostVars
<1>2. CASE Prompt
  BY <1>2 DEF Prompt, Move, driverUnchanged, groupVars, hostVars
<1>3. CASE Accepted
  BY <1>3 DEF Accepted, Move, driverUnchanged, groupVars, hostVars
<1>4. CASE Submitted
  BY <1>4 DEF Submitted, Move, Healthy, driverUnchanged, groupVars, hostVars
<1>5. CASE Before
  BY <1>5 DEF Before, Move, Observe, driverUnchanged, groupVars, hostVars
<1>6. CASE Interrupt
  BY <1>6 DEF Interrupt, Move, driverUnchanged, groupVars, hostVars
<1>7. CASE Signalled
  BY <1>7 DEF Signalled, Move, driverUnchanged, groupVars, hostVars
<1>8. CASE StartHost(1, "spawn1", "ready1")
  BY <1>8 DEF StartHost, SpawnHost, Move, driverUnchanged, groupVars, hostVars
<1>9. CASE Ready(1, "ready1", "session")
  BY <1>9 DEF Ready, Move, Owner, driverUnchanged, groupVars, hostVars
<1>10. CASE Offline
  BY <1>10 DEF Offline, Move, Observe, driverUnchanged, groupVars, hostVars
<1>11. CASE StartHost(2, "spawn2", "ready2")
  BY <1>11 DEF StartHost, SpawnHost, Move, driverUnchanged, groupVars, hostVars
<1>12. CASE Ready(2, "ready2", "restarted")
  BY <1>12 DEF Ready, Move, Owner, driverUnchanged, groupVars, hostVars
<1>13. CASE Restarted
  BY <1>13 DEF Restarted, Move, Observe, driverUnchanged, groupVars, hostVars
<1>14. CASE Complete
  BY <1>14 DEF Complete, Observe, driverUnchanged, groupVars, hostVars
<1>15. CASE StopStep(1, "stop1", "stop2")
  BY <1>15 DEF StopStep, StopHost, Stopped, StopSignal, StopFails, driverUnchanged, groupVars,
      hostVars
<1>16. CASE StopStep(2, "stop2", "runs")
  BY <1>16 DEF StopStep, StopHost, Stopped, StopSignal, StopFails, driverUnchanged, groupVars,
      hostVars
<1>17. CASE CleanUpRuns
  <2>1. /\ UNCHANGED <<leader, solver, host, dup, job>> /\ outcome'.verdict = outcome.verdict
        /\ outcome'.failed = outcome.failed /\ pc = "runs" /\ pc' \in {"term", "verdict"}
    BY <1>17 DEF CleanUpRuns, driverUnchanged, groupVars, hostVars
  <2>2. ASSUME pc' = "verdict", outcome'.errors = 0
        PROVE  AllExited /\ (job.status = "absent" \/ LeftNothing)
    BY <1>17, <2>2 DEF CleanUpRuns
  <2>3. ASSUME AllExited PROVE \A g \in Generation : ~Alive(g)
    BY <2>3 DEF AllExited, Started
  <2>4. ASSUME job.status = "absent" \/ LeftNothing PROVE ~Executing
    BY <2>4 DEF LeftNothing, Sample
  <2>5. QED BY <2>1, <2>2, <2>3, <2>4
<1>18. CASE RunStopped
  <2>1. CASE StopGroup("term", "term", "kill") \/ StopGroup("kill", "kill", "killed")
    BY <2>1 DEF StopGroup
  <2>2. CASE GroupQuiet
    BY <2>2 DEF GroupQuiet, GroupActive, groupVars
  <2>3. CASE GroupUnproved
    BY <2>3 DEF GroupUnproved, groupVars
  <2>4. QED BY <1>18, <2>1, <2>2, <2>3 DEF RunStopped, StopRun
<1>19. CASE Judge
  BY <1>19 DEF Judge, Verdict, Move, driverUnchanged, groupVars, hostVars
<1>20. CASE GiveUp
  BY <1>20 DEF GiveUp, driverUnchanged, groupVars, hostVars
<1>21. CASE Admit
  BY <1>21 DEF Admit, NoJob, hostUnchanged, groupVars
<1>22. CASE Launch
  BY <1>22 DEF Launch, Spawn, hostVars
<1>23. CASE Persist
  BY <1>23 DEF Persist, hostUnchanged, groupVars
<1>24. CASE Answer
  BY <1>24 DEF Answer, hostUnchanged, groupVars
<1>25. CASE Takeover
  BY <1>25 DEF Takeover, hostUnchanged, groupVars
<1>26. CASE Respawn
  BY <1>26 DEF Respawn, hostUnchanged, groupVars
<1>27. CASE DupEnds
  BY <1>27 DEF DupEnds, groupVars
<1>28. ASSUME NEW g \in Generation, HostServes(g) PROVE JudgedInv'
  BY <1>28 DEF HostServes, groupVars
<1>29. ASSUME NEW g \in Generation, HostObeys(g) PROVE JudgedInv'
  BY <1>29 DEF HostObeys, HostEnds, Ends, groupVars
<1>30. ASSUME NEW g \in Generation, HostCrashes(g) PROVE JudgedInv'
  BY <1>30 DEF HostCrashes, HostEnds, Ends, groupVars
<1>31. ASSUME NEW g \in Generation, HostExits(g) PROVE JudgedInv'
  BY <1>31 DEF HostExits, ChildEvent, groupVars, hostVars
<1>32. ASSUME NEW g \in Generation, SettleRun(g) PROVE JudgedInv'
  BY <1>32 DEF SettleRun, hostUnchanged, groupVars
<1>33. ASSUME NEW g \in Generation, CollectRun(g) PROVE JudgedInv'
  BY <1>33 DEF CollectRun, hostUnchanged, groupVars
<1>34. ASSUME NEW g \in Generation, CollectByHand(g) PROVE JudgedInv'
  BY <1>34 DEF CollectByHand, hostUnchanged, groupVars
<1>35. ASSUME NEW g \in Generation, Wake(g) PROVE JudgedInv'
  BY <1>35 DEF Wake, hostUnchanged, groupVars
<1>36. CASE RunStep
  <2>1. /\ ~Executing => ~Executing'
        /\ UNCHANGED <<lock, log, job, record, index, dup, restartSignal, pc, host, owned, ev, outcome, faults>>
    BY <1>36, GroupMoves
  <2>2. QED BY <2>1
<1>37. QED BY <1>1, <1>2, <1>3, <1>4, <1>5, <1>6, <1>7, <1>8, <1>9, <1>10, <1>11, <1>12, <1>13,
    <1>14, <1>15, <1>16, <1>17, <1>18, <1>19, <1>20, <1>21, <1>22, <1>23, <1>24, <1>25, <1>26,
    <1>27, <1>28, <1>29, <1>30, <1>31, <1>32, <1>33, <1>34, <1>35, <1>36 DEF Next, Driver, Host

(* The first state of the restart gate has the invariant.                  *)
LEMMA RestartInit == Init => RestartInv
<1> SUFFICES ASSUME Init PROVE RestartInv
  OBVIOUS
<1>1. /\ pc = "install" /\ leader = "none" /\ ~solver /\ job.status = "absent" /\ log = <<>>
      /\ job.notify = "pending" /\ ~job.pid /\ by.ended = 0 /\ dup.start = "none"
      /\ \A g \in Generation : host[g].state = "none" /\ ~host[g].exited /\ host[g].signal = "none"
      /\ outcome.verdict = "none" /\ ev.files = <<>>
  BY DEF Init, GroupInit, DriverInit, NoJob
<1>2. TypeOK
  <2>1. GroupTypeOK
    BY DEF Init, GroupInit, GroupTypeOK, LeaderState
  <2>2. HostTyped
    BY DEF Init, DriverInit, HostTyped, HostRecord, HostState
  <2>3. DriverTyped
    BY DEF Init, DriverInit, DriverTyped, OutcomeRecord, Trying
  <2>4. LedgerTyped
    BY DEF Init, NoJob, LedgerTyped, JobRecord, JobStatus, ByRecord
  <2>5. RestTyped
    BY BoundsAssumption DEF Init, RestTyped, DupRecord
  <2>6. QED BY <2>1, <2>2, <2>3, <2>4, <2>5, Typed
<1>3. EvTyped
  BY DEF Init, EvTyped
<1>4. 1 \in Generation /\ 2 \in Generation
  BY BoundsAssumption
<1>5. HostsInv /\ RunInv
  BY <1>1, <1>4 DEF HostsInv, RunInv, Executing, Living, Code, Ended
<1>6. FilesInv /\ SurvivalInv /\ AcceptedInv /\ JudgedInv
  BY <1>1, <1>4 DEF FilesInv, SurvivalInv, AcceptedInv, Accepting, JudgedInv, Finishing
<1>7. QED BY <1>2, <1>3, <1>5, <1>6 DEF RestartInv

(* Every step of the restart gate keeps it.                                *)
LEMMA RestartStep == RestartInv /\ [Next]_vars => RestartInv'
<1> SUFFICES ASSUME RestartInv, [Next]_vars PROVE RestartInv'
  OBVIOUS
<1>1. CASE Next
  <2>1. TypeOK /\ EvTyped /\ HostsInv /\ RunInv /\ FilesInv
    BY DEF RestartInv
  <2>2. QED
    BY <1>1, <2>1, TypesStep, GatheredStep, HostsStep, RunsStep, FilesStep, SurvivalStep, AcceptedStep,
       JudgedStep DEF RestartInv
<1>2. CASE UNCHANGED vars
  <2>1. TypeOK' /\ EvTyped' /\ HostsInv' /\ RunInv' /\ FilesInv'
    <3>1. TypeOK' /\ EvTyped'
      BY <1>2 DEF vars, groupVars, hostVars, RestartInv, TypeOK, GroupTypeOK, DriverTypeOK, EvTyped
    <3>2. HostsInv' /\ RunInv' /\ FilesInv'
      BY <1>2 DEF vars, groupVars, hostVars, RestartInv, HostsInv, RunInv, FilesInv, Alive, Executing
    <3>3. QED BY <3>1, <3>2
  <2>2. SurvivalInv' /\ AcceptedInv' /\ JudgedInv'
    BY <1>2 DEF vars, groupVars, hostVars, RestartInv, SurvivalInv, AcceptedInv, JudgedInv, Accepting,
                Alive, Executing, Later
  <2>3. QED BY <2>1, <2>2 DEF RestartInv
<1>3. QED BY <1>1, <1>2

(* So it holds of the restart gate, whichever gate this behaviour is about.*)
LEMMA RestartPart == PartSpec => []RestartInv
<1>1. PartInit => RestartInv
  BY RestartInit DEF PartInit
<1>2. RestartInv /\ [PartNext]_partVars => RestartInv'
  BY RestartStep DEF PartNext, Restarts, Replays, ReadsLog, partVars
<1>3. QED BY <1>1, <1>2, PTL DEF PartSpec

(* A PASS of the restart gate means that the run survived, and is clean.   *)
LEMMA RestartVerdict == RestartInv => VerdictTrue
<1> SUFFICES ASSUME RestartInv PROVE PassMeansSurvived /\ CleanVerdict
  BY DEF VerdictTrue
<1>1. ASSUME outcome.verdict = "PASS"
      PROVE  /\ by = [settled |-> 2, collected |-> 2, woken |-> 2, ended |-> 2]
             /\ record = exitFile /\ dup.start # "early"
  <2>1. Accepting
    BY <1>1 DEF RestartInv, JudgedInv, Accepting, Finishing
  <2>2. /\ by.settled = 2 /\ by.collected = 2 /\ by.woken = 2 /\ by.ended = 2
        /\ record = exitFile /\ dup.start # "early"
    BY <2>1 DEF RestartInv, AcceptedInv
  <2>3. by \in ByRecord
    BY DEF RestartInv, TypeOK, ByRecord
  <2>4. QED BY <2>2, <2>3 DEF ByRecord
<1>2. CleanVerdict
  BY DEF RestartInv, JudgedInv, CleanVerdict
<1>3. QED BY <1>1, <1>2 DEF PassMeansSurvived

(* The driver signals a group only while its own run is in it, and after     *)
(* every host is gone that could submit another (stopGroup and              *)
(* cleanupOwnedRuns in shud-web-driver.ts).                                *)
THEOREM OwnRunSignalled == PartSpec => SignalsOwnRun
<1> DEFINE Justified == signal' # signal /\ signal' # "none" =>
                          Executing /\ \A g \in Generation : ~Alive(g)
<1>1. RestartInv /\ [PartNext]_partVars => [Justified]_<<groupVars, driverVars>>
  <2> SUFFICES ASSUME RestartInv, [PartNext]_partVars, signal' # signal, signal' # "none"
               PROVE  Executing /\ \A g \in Generation : ~Alive(g)
    OBVIOUS
  <2>1. Next
    BY DEF PartNext, Restarts, Replays, ReadsLog, partVars, vars, groupVars
  <2>2. StopGroup("term", "term", "kill") \/ StopGroup("kill", "kill", "killed")
    <3>1. CASE Driver \/ GiveUp
      BY <3>1 DEF Driver, GiveUp, Install, Prompt, Accepted, Submitted, Before, Interrupt, Signalled,
           StartHost, Ready, Offline, Restarted, Complete, StopStep, CleanUpRuns, RunStopped, StopRun,
           GroupQuiet, GroupUnproved, Judge, driverUnchanged, groupVars
    <3>2. CASE Host
      BY <3>2 DEF Host, Admit, Launch, Spawn, Persist, Answer, Takeover, Respawn, DupEnds, HostServes,
           HostObeys, HostCrashes, HostEnds, HostExits, SettleRun, CollectRun, CollectByHand,
           Wake, groupVars
    <3>3. CASE RunStep
      BY <3>3 DEF RunStep, GroupStep, PublishPid, PublishExit, WrapperExits, Deliver, PidReused,
           AlienExits, SolverEnds, Pending
    <3>4. QED BY <2>1, <3>1, <3>2, <3>3 DEF Next
  <2>3. pc \in {"term", "kill"} /\ GroupActive /\ GroupProved
    BY <2>2 DEF StopGroup
  <2>4. Executing
    BY <2>3 DEF GroupActive, GroupProved
  <2>5. QED BY <2>3, <2>4 DEF RestartInv, HostsInv
<1>2. QED BY <1>1, RestartPart, PTL DEF PartSpec, SignalsOwnRun

------------------------------------------------------------------------------
(* The reading of a session's log (SessionReads).                          *)

Readers == {"idle", "projecting", "paging", "prefix", "flushed", "sized", "log", "accepted", "failed"}
RequestRecord == [state : {"none", "fetching", "streaming", "read"}, left : 0..2, bad : BOOLEAN,
                  unclean : BOOLEAN]
BodyRecord == [own : BOOLEAN, whole : BOOLEAN, records : Seq(Nat), more : BOOLEAN, count : Nat]
CountersTyped ==
  /\ history \in Nat /\ stored \in Nat /\ reader \in Readers /\ cut \in Nat /\ below \in Nat
  /\ promised \in Nat /\ size \in Nat /\ noise \in 0..MaxNoise
ReadTyped ==
  /\ CountersTyped /\ request \in RequestRecord /\ stopped \in BOOLEAN /\ body \in BodyRecord

(* No answer has an event in it that was not logged.                       *)
Uninvented == \A i \in DOMAIN body.records : body.records[i] < history

(* The pages read so far are dense and end at the cut.                     *)
PagesInv ==
  /\ reader = "paging" =>
       below <= cut /\ pages = Reads!Seqs(below, cut) /\ (below < cut => cut <= history)
  /\ reader \in {"prefix", "log"} => pages = Reads!Seqs(0, cut) /\ cut <= history

(* A file nobody tore has what the flush promised, and no more than was logged. *)
FileInv ==
  /\ stored <= 2 * (history + 1) /\ promised <= history
  /\ noise = MaxNoise =>
       /\ reader \in {"flushed", "sized"} => stored >= 2 * (promised + 1)
       /\ reader = "sized" => size >= 2 * (promised + 1)
       /\ reader = "log" => cut >= promised

(* A request is under way only while a prefix is read.                     *)
RequestInv == reader \notin {"projecting", "paging"} => request = Reads!Idle

ReadsInv == ReadTyped /\ Uninvented /\ PagesInv /\ FileInv /\ RequestInv

(* A page is a sequence of the numbers below its end.                      *)
LEMMA SeqsTyped ==
  ASSUME NEW from \in Nat, NEW to \in Nat
  PROVE  /\ Reads!Seqs(from, to) \in Seq(Nat)
         /\ \A i \in DOMAIN Reads!Seqs(from, to) : Reads!Seqs(from, to)[i] < to
         /\ from <= to => Len(Reads!Seqs(from, to)) = to - from
<1>1. CASE from <= to
  <2> DEFINE s == [i \in 1..(to - from) |-> from + i - 1]
  <2>1. to - from \in Nat /\ DOMAIN s = 1..(to - from)
    BY <1>1
  <2>2. \A i \in 1..(to - from) : s[i] \in Nat /\ s[i] < to
    BY <1>1
  <2>3. s \in Seq(Nat)
    BY <2>1, <2>2, SeqDef
  <2>4. Len(s) = to - from
    BY <2>1, <2>3, LenProperties
  <2>5. QED BY <2>1, <2>2, <2>3, <2>4 DEF Reads!Seqs
<1>2. CASE from > to
  <2> DEFINE s == [i \in 1..(to - from) |-> from + i - 1]
  <2>1. 1..(to - from) = 1..0
    BY <1>2
  <2>2. s = << >>
    BY <2>1
  <2>3. QED BY <1>2, <2>2 DEF Reads!Seqs
<1>3. QED BY <1>1, <1>2

(* An honest answer holds only what was logged.                            *)
LEMMA HonestBody ==
  ASSUME history \in Nat, below \in Nat
  PROVE  /\ Reads!Honest \in BodyRecord
         /\ \A i \in DOMAIN Reads!Honest.records : Reads!Honest.records[i] < history
<1>1. CASE reader = "projecting"
  <2>1. Reads!Honest = [own |-> TRUE, whole |-> TRUE, records |-> << >>, more |-> FALSE, count |-> history]
    BY <1>1 DEF Reads!Honest, Reads!Nothing
  <2>2. << >> \in Seq(Nat) /\ \A i \in DOMAIN << >> : (<< >>)[i] < history
    OBVIOUS
  <2>3. QED BY <2>1, <2>2 DEF BodyRecord
<1>2. CASE reader # "projecting"
  <2> DEFINE to == IF below > history THEN history ELSE below
             from == IF to > PageSize THEN to - PageSize ELSE 0
             s == Reads!Seqs(from, to)
  <2>1. from \in Nat /\ to \in Nat /\ to <= history
    BY GatesAssumption
  <2>2. s \in Seq(Nat) /\ \A i \in DOMAIN s : s[i] < history
    <3> HIDE DEF from, to
    <3>1. s \in Seq(Nat) /\ \A i \in DOMAIN s : s[i] < to
      BY <2>1, SeqsTyped
    <3> HIDE DEF s
    <3>2. \A i \in DOMAIN s : s[i] \in Nat
      BY <3>1, ElementOfSeq, LenProperties
    <3>3. QED BY <2>1, <3>1, <3>2
  <2>3. Reads!Honest = [Reads!Nothing EXCEPT !.records = s, !.more = from > 0]
    BY <1>2 DEF Reads!Honest, Reads!Page
  <2>4. QED
    <3> HIDE DEF s, from, to
    <3>1. Reads!Honest = [own |-> TRUE, whole |-> TRUE, records |-> s, more |-> from > 0, count |-> 0]
      BY <2>3 DEF Reads!Nothing
    <3>2. QED BY <2>2, <3>1 DEF BodyRecord
<1>3. QED BY <1>1, <1>2

(* So does a wrong one: it is torn, cut or miscounted, never invented.     *)
LEMMA WrongBody ==
  ASSUME history \in Nat, below \in Nat, NEW b \in Reads!Wrong
  PROVE  b \in BodyRecord /\ \A i \in DOMAIN b.records : b.records[i] < history
<1> DEFINE h == Reads!Honest
<1>1. h \in BodyRecord /\ \A i \in DOMAIN h.records : h.records[i] < history
  BY HonestBody
<1>2. b \in {[h EXCEPT !.own = FALSE], [h EXCEPT !.more = ~h.more], [h EXCEPT !.count = @ + 1]}
      \/ (h.count > 0 /\ b = [h EXCEPT !.count = @ - 1])
      \/ (h.records # << >> /\ b \in {[h EXCEPT !.records = << >>], [h EXCEPT !.records = Tail(h.records)],
            [h EXCEPT !.records = SubSeq(h.records, 1, Len(h.records) - 1)]})
  BY DEF Reads!Wrong
<1> HIDE DEF h
<1>3. CASE b.records = h.records
  <2>1. h.records \in Seq(Nat) /\ h.count \in Nat /\ h.more \in BOOLEAN
    BY <1>1 DEF BodyRecord
  <2>2. b \in {[h EXCEPT !.own = FALSE], [h EXCEPT !.more = ~h.more], [h EXCEPT !.count = h.count + 1]}
        \/ (h.count > 0 /\ b = [h EXCEPT !.count = h.count - 1]) \/ b = h
    <3>1. \A s \in {<< >>, Tail(h.records), SubSeq(h.records, 1, Len(h.records) - 1)} :
            b = [h EXCEPT !.records = s] => b.records = s
      BY <1>1 DEF BodyRecord
    <3>2. \A s : b = [h EXCEPT !.records = s] /\ s = h.records => b = h
      BY <1>1 DEF BodyRecord
    <3>3. QED BY <1>2, <1>3, <3>1, <3>2
  <2>3. b \in BodyRecord
    <3>1. h.count > 0 => h.count - 1 \in Nat
      BY <2>1
    <3>2. h.count + 1 \in Nat
      BY <2>1
    <3>3. \A n \in Nat : [h EXCEPT !.count = n] \in BodyRecord
      BY <1>1 DEF BodyRecord
    <3>4. [h EXCEPT !.own = FALSE] \in BodyRecord /\ [h EXCEPT !.more = ~h.more] \in BodyRecord
      BY <1>1 DEF BodyRecord
    <3>5. QED BY <1>1, <2>2, <3>1, <3>2, <3>3, <3>4
  <2>4. QED BY <1>1, <1>3, <2>3
<1>4. ASSUME NEW s \in Seq(Nat), b = [h EXCEPT !.records = s], \A i \in DOMAIN s : s[i] < history
      PROVE  b \in BodyRecord /\ \A i \in DOMAIN b.records : b.records[i] < history
  BY <1>1, <1>4 DEF BodyRecord
<1>5. CASE h.records # << >>
  <2>1. h.records \in Seq(Nat) /\ Len(h.records) \in Nat /\ Len(h.records) > 0
    BY <1>1, <1>5, EmptySeq, LenProperties DEF BodyRecord
  <2>2. /\ Tail(h.records) \in Seq(Nat)
        /\ \A i \in DOMAIN Tail(h.records) : Tail(h.records)[i] < history
    BY <1>1, <1>5, <2>1, HeadTailProperties
  <2>3. /\ SubSeq(h.records, 1, Len(h.records) - 1) \in Seq(Nat)
        /\ \A i \in DOMAIN SubSeq(h.records, 1, Len(h.records) - 1) :
             SubSeq(h.records, 1, Len(h.records) - 1)[i] < history
    BY <1>1, <2>1, SubSeqProperties
  <2>4. << >> \in Seq(Nat) /\ \A i \in DOMAIN << >> : (<< >>)[i] < history
    OBVIOUS
  <2>5. b.records = h.records \/ b = [h EXCEPT !.records = << >>]
        \/ b = [h EXCEPT !.records = Tail(h.records)]
        \/ b = [h EXCEPT !.records = SubSeq(h.records, 1, Len(h.records) - 1)]
    BY <1>1, <1>2 DEF BodyRecord
  <2>6. QED BY <1>3, <1>4, <2>2, <2>3, <2>4, <2>5
<1>6. QED BY <1>1, <1>2, <1>3, <1>5 DEF BodyRecord

(* No request, and one that was just sent.                                 *)
LEMMA IdleTyped ==
  Reads!Idle \in RequestRecord /\ [Reads!Idle EXCEPT !.state = "fetching"] \in RequestRecord
<1>1. Reads!Idle \in RequestRecord
  BY DEF Reads!Idle, RequestRecord
<1>2. \A r \in RequestRecord : [r EXCEPT !.state = "fetching"] \in RequestRecord
  BY DEF RequestRecord
<1>3. QED BY <1>1, <1>2

(* The counters of a reading keep their types.                             *)
LEMMA CounterTypes == CountersTyped /\ body \in BodyRecord /\ Reads!Next => CountersTyped'
<1> SUFFICES ASSUME CountersTyped /\ body \in BodyRecord, Reads!Next PROVE CountersTyped'
  OBVIOUS
<1> USE GatesAssumption DEF CountersTyped, Readers, Reads!Lines, BodyRecord
<1>1. CASE Reads!Logs
  BY <1>1 DEF Reads!Logs, Reads!worldVars, Reads!pageVars, Reads!fileVars
<1>2. CASE Reads!Writes
  BY <1>2 DEF Reads!Writes, Reads!worldVars, Reads!pageVars, Reads!fileVars
<1>3. CASE Reads!Truncates
  BY <1>3 DEF Reads!Truncates, Reads!Noisy, Reads!worldVars, Reads!pageVars, Reads!fileVars
<1>4. CASE Reads!Aborts
  BY <1>4 DEF Reads!Aborts, Reads!worldVars, Reads!pageVars, Reads!fileVars
<1>5. CASE Reads!Responds
  BY <1>5 DEF Reads!Responds, Reads!Noisy, Reads!worldVars, Reads!pageVars, Reads!fileVars
<1>6. CASE Reads!FetchFails
  BY <1>6 DEF Reads!FetchFails, Reads!Noisy, Reads!Fails, Reads!Idle, Reads!worldVars,
      Reads!pageVars, Reads!fileVars
<1>7. CASE Reads!Chunk
  BY <1>7 DEF Reads!Chunk, Reads!worldVars, Reads!pageVars, Reads!fileVars
<1>8. CASE Reads!EndsEarly
  BY <1>8 DEF Reads!EndsEarly, Reads!Noisy, Reads!worldVars, Reads!pageVars, Reads!fileVars
<1>9. CASE Reads!Releases
  BY <1>9 DEF Reads!Releases, Reads!Noisy, Reads!worldVars, Reads!pageVars, Reads!fileVars
<1>10. CASE Reads!AnswerFails
  BY <1>10 DEF Reads!AnswerFails, Reads!Fails, Reads!Idle, Reads!worldVars, Reads!pageVars,
      Reads!fileVars
<1>11. CASE Reads!Project
  BY <1>11 DEF Reads!Project, Reads!Begins, Reads!Send, Reads!Idle, Reads!worldVars,
      Reads!pageVars, Reads!fileVars
<1>12. CASE Reads!Projected
  BY <1>12 DEF Reads!Projected, Reads!Answered, Reads!Send, Reads!Idle, Reads!worldVars,
      Reads!pageVars, Reads!fileVars
<1>13. CASE Reads!Paged
  <2>1. /\ reader = "paging" /\ reader' \in {"paging", "prefix"} /\ cut' = cut
        /\ below' = IF body.records = << >> THEN below ELSE body.records[1]
        /\ history' = history /\ stored' = stored /\ promised' = promised /\ size' = size /\ noise' = noise
    BY <1>13 DEF Reads!Paged, Reads!worldVars, Reads!fileVars
  <2>2. body.records # << >> => body.records[1] \in Nat
    <3>1. body.records \in Seq(Nat)
      OBVIOUS
    <3>2. QED BY <3>1, EmptySeq, LenProperties, ElementOfSeq
  <2>3. below' \in Nat
    BY <2>1, <2>2
  <2>4. QED BY <2>1, <2>3
<1>14. CASE Reads!PageFails
  BY <1>14 DEF Reads!PageFails, Reads!Answered, Reads!Fails, Reads!Idle, Reads!worldVars,
      Reads!pageVars, Reads!fileVars
<1>15. CASE Reads!Flush
  BY <1>15 DEF Reads!Flush, Reads!Begins, Reads!worldVars, Reads!pageVars, Reads!fileVars
<1>16. CASE Reads!Opens
  BY <1>16 DEF Reads!Opens, Reads!Fails, Reads!worldVars, Reads!pageVars, Reads!fileVars
<1>17. CASE Reads!Reads
  BY <1>17 DEF Reads!Reads, Reads!Fails, Reads!ReadsWhole, Reads!worldVars, Reads!pageVars,
      Reads!fileVars
<1>18. CASE Reads!Accepts
  BY <1>18 DEF Reads!Accepts, Reads!Fails, Reads!Extends, Reads!worldVars, Reads!pageVars,
      Reads!fileVars
<1>19. QED BY <1>1, <1>2, <1>3, <1>4, <1>5, <1>6, <1>7, <1>8, <1>9, <1>10, <1>11, <1>12, <1>13,
    <1>14, <1>15, <1>16, <1>17, <1>18 DEF Reads!Next

(* The request keeps its type.                                             *)
LEMMA RequestTypes ==
  request \in RequestRecord /\ stopped \in BOOLEAN /\ Reads!Next =>
    (request \in RequestRecord /\ stopped \in BOOLEAN)'
<1> SUFFICES ASSUME request \in RequestRecord /\ stopped \in BOOLEAN, Reads!Next
             PROVE  (request \in RequestRecord /\ stopped \in BOOLEAN)'
  OBVIOUS
<1>1. CASE Reads!Logs
  BY <1>1 DEF Reads!Logs, Reads!worldVars, Reads!pageVars, Reads!fileVars
<1>2. CASE Reads!Writes
  BY <1>2 DEF Reads!Writes, Reads!worldVars, Reads!pageVars, Reads!fileVars
<1>3. CASE Reads!Truncates
  BY <1>3 DEF Reads!Truncates, Reads!Noisy, Reads!worldVars, Reads!pageVars, Reads!fileVars
<1>4. CASE Reads!Aborts
  BY <1>4 DEF Reads!Aborts, Reads!worldVars, Reads!pageVars, Reads!fileVars
<1>5. CASE Reads!Responds
  <2>1. request' = [state |-> "streaming", left |-> 2, bad |-> request.bad, unclean |-> request.unclean]
        /\ stopped' = stopped
    BY <1>5 DEF Reads!Responds, RequestRecord
  <2>2. QED BY <2>1 DEF RequestRecord
<1>6. CASE Reads!FetchFails
  BY <1>6 DEF Reads!FetchFails, Reads!Noisy, Reads!Fails, Reads!Idle, Reads!worldVars,
      Reads!pageVars, Reads!fileVars, RequestRecord
<1>7. CASE Reads!Chunk
  BY <1>7 DEF Reads!Chunk, Reads!worldVars, Reads!pageVars, Reads!fileVars, RequestRecord
<1>8. CASE Reads!EndsEarly
  <2>1. stopped' = stopped /\ (request' = [request EXCEPT !.left = 0]
                               \/ request' = [request EXCEPT !.left = 0, !.bad = TRUE])
    BY <1>8 DEF Reads!EndsEarly
  <2>2. [request EXCEPT !.left = 0] \in RequestRecord
    BY DEF RequestRecord
  <2>3. [request EXCEPT !.left = 0, !.bad = TRUE] \in RequestRecord
    <3> DEFINE r == [request EXCEPT !.left = 0]
    <3>1. r \in RequestRecord
      BY <2>2
    <3>2. [request EXCEPT !.left = 0, !.bad = TRUE] = [r EXCEPT !.bad = TRUE]
      OBVIOUS
    <3> HIDE DEF r
    <3>3. [r EXCEPT !.bad = TRUE] \in RequestRecord
      BY <3>1 DEF RequestRecord
    <3>4. QED BY <3>2, <3>3
  <2>4. QED BY <2>1, <2>2, <2>3
<1>9. CASE Reads!Releases
  BY <1>9 DEF Reads!Releases, Reads!Noisy, Reads!worldVars, Reads!pageVars, Reads!fileVars,
      RequestRecord
<1>10. CASE Reads!AnswerFails
  BY <1>10 DEF Reads!AnswerFails, Reads!Fails, Reads!Idle, Reads!worldVars, Reads!pageVars,
      Reads!fileVars, RequestRecord
<1>11. CASE Reads!Project
  <2>1. stopped' = stopped /\ (request' = [Reads!Idle EXCEPT !.state = "fetching"])
    BY <1>11 DEF Reads!Project, Reads!Send
  <2>2. QED BY <2>1, IdleTyped
<1>12. CASE Reads!Projected
  <2>1. stopped' = stopped /\ (request' = [Reads!Idle EXCEPT !.state = "fetching"])
    BY <1>12 DEF Reads!Projected, Reads!Send
  <2>2. QED BY <2>1, IdleTyped
<1>13. CASE Reads!Paged
  <2>1. stopped' = stopped /\ (request' = [Reads!Idle EXCEPT !.state = "fetching"] \/ request' = Reads!Idle)
    BY <1>13 DEF Reads!Paged, Reads!Send
  <2>2. QED BY <2>1, IdleTyped
<1>14. CASE Reads!PageFails
  BY <1>14 DEF Reads!PageFails, Reads!Answered, Reads!Fails, Reads!Idle, Reads!worldVars,
      Reads!pageVars, Reads!fileVars, RequestRecord
<1>15. CASE Reads!Flush
  BY <1>15 DEF Reads!Flush, Reads!Begins, Reads!worldVars, Reads!pageVars, Reads!fileVars
<1>16. CASE Reads!Opens
  BY <1>16 DEF Reads!Opens, Reads!Fails, Reads!worldVars, Reads!pageVars, Reads!fileVars
<1>17. CASE Reads!Reads
  BY <1>17 DEF Reads!Reads, Reads!Fails, Reads!ReadsWhole, Reads!worldVars, Reads!pageVars,
      Reads!fileVars
<1>18. CASE Reads!Accepts
  BY <1>18 DEF Reads!Accepts, Reads!Fails, Reads!Extends, Reads!worldVars, Reads!pageVars,
      Reads!fileVars
<1>19. QED BY <1>1, <1>2, <1>3, <1>4, <1>5, <1>6, <1>7, <1>8, <1>9, <1>10, <1>11, <1>12, <1>13,
    <1>14, <1>15, <1>16, <1>17, <1>18 DEF Reads!Next

(* The answer keeps its type.                                              *)
LEMMA BodyTypes == CountersTyped /\ body \in BodyRecord /\ Reads!Next => (body \in BodyRecord)'
<1> SUFFICES ASSUME CountersTyped /\ body \in BodyRecord, Reads!Next PROVE (body \in BodyRecord)'
  OBVIOUS
<1>1. CASE Reads!Logs
  BY <1>1 DEF Reads!Logs, Reads!worldVars, Reads!pageVars, Reads!fileVars
<1>2. CASE Reads!Writes
  BY <1>2 DEF Reads!Writes, Reads!worldVars, Reads!pageVars, Reads!fileVars
<1>3. CASE Reads!Truncates
  BY <1>3 DEF Reads!Truncates, Reads!Noisy, Reads!worldVars, Reads!pageVars, Reads!fileVars
<1>4. CASE Reads!Aborts
  BY <1>4 DEF Reads!Aborts, Reads!worldVars, Reads!pageVars, Reads!fileVars
<1>5. CASE Reads!Responds
  <2>1. PICK b \in {Reads!Honest} \cup Reads!Wrong : body' = b
    BY <1>5 DEF Reads!Responds
  <2>2. b \in BodyRecord
    BY HonestBody, WrongBody DEF CountersTyped
  <2>3. QED BY <2>1, <2>2
<1>6. CASE Reads!FetchFails
  BY <1>6 DEF Reads!FetchFails, Reads!Noisy, Reads!Fails, Reads!Idle, Reads!worldVars,
      Reads!pageVars, Reads!fileVars
<1>7. CASE Reads!Chunk
  BY <1>7 DEF Reads!Chunk, Reads!worldVars, Reads!pageVars, Reads!fileVars
<1>8. CASE Reads!EndsEarly
  BY <1>8 DEF Reads!EndsEarly, Reads!Noisy, Reads!worldVars, Reads!pageVars, Reads!fileVars,
      Reads!Nothing, BodyRecord
<1>9. CASE Reads!Releases
  BY <1>9 DEF Reads!Releases, Reads!Noisy, Reads!worldVars, Reads!pageVars, Reads!fileVars
<1>10. CASE Reads!AnswerFails
  BY <1>10 DEF Reads!AnswerFails, Reads!Fails, Reads!Idle, Reads!worldVars, Reads!pageVars,
      Reads!fileVars, Reads!Nothing, BodyRecord
<1>11. CASE Reads!Project
  BY <1>11 DEF Reads!Project, Reads!Begins, Reads!Send, Reads!Idle, Reads!worldVars,
      Reads!pageVars, Reads!fileVars
<1>12. CASE Reads!Projected
  BY <1>12 DEF Reads!Projected, Reads!Answered, Reads!Send, Reads!Idle, Reads!worldVars,
      Reads!pageVars, Reads!fileVars, Reads!Nothing, BodyRecord
<1>13. CASE Reads!Paged
  BY <1>13 DEF Reads!Paged, Reads!Answered, Reads!Dense, Reads!Send, Reads!Idle,
      Reads!worldVars, Reads!pageVars, Reads!fileVars, Reads!Nothing, BodyRecord
<1>14. CASE Reads!PageFails
  BY <1>14 DEF Reads!PageFails, Reads!Answered, Reads!Fails, Reads!Idle, Reads!worldVars,
      Reads!pageVars, Reads!fileVars, Reads!Nothing, BodyRecord
<1>15. CASE Reads!Flush
  BY <1>15 DEF Reads!Flush, Reads!Begins, Reads!worldVars, Reads!pageVars, Reads!fileVars
<1>16. CASE Reads!Opens
  BY <1>16 DEF Reads!Opens, Reads!Fails, Reads!worldVars, Reads!pageVars, Reads!fileVars
<1>17. CASE Reads!Reads
  BY <1>17 DEF Reads!Reads, Reads!Fails, Reads!ReadsWhole, Reads!worldVars, Reads!pageVars,
      Reads!fileVars
<1>18. CASE Reads!Accepts
  BY <1>18 DEF Reads!Accepts, Reads!Fails, Reads!Extends, Reads!worldVars, Reads!pageVars,
      Reads!fileVars
<1>19. QED BY <1>1, <1>2, <1>3, <1>4, <1>5, <1>6, <1>7, <1>8, <1>9, <1>10, <1>11, <1>12, <1>13,
    <1>14, <1>15, <1>16, <1>17, <1>18 DEF Reads!Next

(* The log only grows, so what an answer holds stays logged.               *)
LEMMA UninventedStep == ReadTyped /\ Uninvented /\ Reads!Next => Uninvented'
<1> SUFFICES ASSUME ReadTyped /\ Uninvented, Reads!Next PROVE Uninvented'
  OBVIOUS
<1> USE DEF Uninvented, ReadTyped, CountersTyped
<1>1. CASE Reads!Logs
  BY <1>1 DEF Reads!Logs, Reads!worldVars, Reads!pageVars, Reads!fileVars, BodyRecord
<1>2. CASE Reads!Writes
  BY <1>2 DEF Reads!Writes, Reads!worldVars, Reads!pageVars, Reads!fileVars
<1>3. CASE Reads!Truncates
  BY <1>3 DEF Reads!Truncates, Reads!Noisy, Reads!worldVars, Reads!pageVars, Reads!fileVars
<1>4. CASE Reads!Aborts
  BY <1>4 DEF Reads!Aborts, Reads!worldVars, Reads!pageVars, Reads!fileVars
<1>5. CASE Reads!Responds
  <2>1. PICK b \in {Reads!Honest} \cup Reads!Wrong : body' = b
    BY <1>5 DEF Reads!Responds
  <2>2. b \in BodyRecord /\ \A i \in DOMAIN b.records : b.records[i] < history
    BY HonestBody, WrongBody DEF ReadTyped, CountersTyped
  <2>3. QED
    BY <1>5, <2>1, <2>2 DEF Reads!Responds, Reads!Noisy, Reads!worldVars, Reads!pageVars, Reads!fileVars
<1>6. CASE Reads!FetchFails
  BY <1>6 DEF Reads!FetchFails, Reads!Noisy, Reads!Fails, Reads!Idle, Reads!worldVars,
      Reads!pageVars, Reads!fileVars
<1>7. CASE Reads!Chunk
  BY <1>7 DEF Reads!Chunk, Reads!worldVars, Reads!pageVars, Reads!fileVars
<1>8. CASE Reads!EndsEarly
  BY <1>8 DEF Reads!EndsEarly, Reads!Noisy, Reads!worldVars, Reads!pageVars, Reads!fileVars,
      BodyRecord
<1>9. CASE Reads!Releases
  BY <1>9 DEF Reads!Releases, Reads!Noisy, Reads!worldVars, Reads!pageVars, Reads!fileVars
<1>10. CASE Reads!AnswerFails
  BY <1>10 DEF Reads!AnswerFails, Reads!Fails, Reads!Idle, Reads!worldVars, Reads!pageVars,
      Reads!fileVars, Reads!Nothing
<1>11. CASE Reads!Project
  BY <1>11 DEF Reads!Project, Reads!Begins, Reads!Send, Reads!Idle, Reads!worldVars,
      Reads!pageVars, Reads!fileVars
<1>12. CASE Reads!Projected
  BY <1>12 DEF Reads!Projected, Reads!Answered, Reads!Send, Reads!Idle, Reads!worldVars,
      Reads!pageVars, Reads!fileVars, Reads!Nothing
<1>13. CASE Reads!Paged
  BY <1>13 DEF Reads!Paged, Reads!Answered, Reads!Dense, Reads!Send, Reads!Idle,
      Reads!worldVars, Reads!pageVars, Reads!fileVars, Reads!Nothing
<1>14. CASE Reads!PageFails
  BY <1>14 DEF Reads!PageFails, Reads!Answered, Reads!Fails, Reads!Idle, Reads!worldVars,
      Reads!pageVars, Reads!fileVars, Reads!Nothing
<1>15. CASE Reads!Flush
  BY <1>15 DEF Reads!Flush, Reads!Begins, Reads!worldVars, Reads!pageVars, Reads!fileVars
<1>16. CASE Reads!Opens
  BY <1>16 DEF Reads!Opens, Reads!Fails, Reads!worldVars, Reads!pageVars, Reads!fileVars
<1>17. CASE Reads!Reads
  BY <1>17 DEF Reads!Reads, Reads!Fails, Reads!ReadsWhole, Reads!worldVars, Reads!pageVars,
      Reads!fileVars
<1>18. CASE Reads!Accepts
  BY <1>18 DEF Reads!Accepts, Reads!Fails, Reads!Extends, Reads!worldVars, Reads!pageVars,
      Reads!fileVars
<1>19. QED BY <1>1, <1>2, <1>3, <1>4, <1>5, <1>6, <1>7, <1>8, <1>9, <1>10, <1>11, <1>12, <1>13,
    <1>14, <1>15, <1>16, <1>17, <1>18 DEF Reads!Next

(* A request is over before the file is read.                              *)
LEMMA RequestStep == RequestInv /\ Reads!Next => RequestInv'
<1> SUFFICES ASSUME RequestInv, Reads!Next PROVE RequestInv'
  OBVIOUS
<1> USE DEF RequestInv, Reads!Idle
<1>1. CASE Reads!Logs
  BY <1>1 DEF Reads!Logs, Reads!worldVars, Reads!pageVars, Reads!fileVars
<1>2. CASE Reads!Writes
  BY <1>2 DEF Reads!Writes, Reads!worldVars, Reads!pageVars, Reads!fileVars
<1>3. CASE Reads!Truncates
  BY <1>3 DEF Reads!Truncates, Reads!Noisy, Reads!worldVars, Reads!pageVars, Reads!fileVars
<1>4. CASE Reads!Aborts
  BY <1>4 DEF Reads!Aborts, Reads!worldVars, Reads!pageVars, Reads!fileVars
<1>5. CASE Reads!Responds
  BY <1>5 DEF Reads!Responds, Reads!Noisy, Reads!worldVars, Reads!pageVars, Reads!fileVars
<1>6. CASE Reads!FetchFails
  BY <1>6 DEF Reads!FetchFails, Reads!Noisy, Reads!Fails, Reads!Idle, Reads!worldVars,
      Reads!pageVars, Reads!fileVars
<1>7. CASE Reads!Chunk
  BY <1>7 DEF Reads!Chunk, Reads!worldVars, Reads!pageVars, Reads!fileVars
<1>8. CASE Reads!EndsEarly
  BY <1>8 DEF Reads!EndsEarly, Reads!Noisy, Reads!worldVars, Reads!pageVars, Reads!fileVars
<1>9. CASE Reads!Releases
  BY <1>9 DEF Reads!Releases, Reads!Noisy, Reads!worldVars, Reads!pageVars, Reads!fileVars
<1>10. CASE Reads!AnswerFails
  BY <1>10 DEF Reads!AnswerFails, Reads!Fails, Reads!Idle, Reads!worldVars, Reads!pageVars,
      Reads!fileVars
<1>11. CASE Reads!Project
  BY <1>11 DEF Reads!Project, Reads!Begins, Reads!Send, Reads!Idle, Reads!worldVars,
      Reads!pageVars, Reads!fileVars
<1>12. CASE Reads!Projected
  BY <1>12 DEF Reads!Projected, Reads!Answered, Reads!Send, Reads!Idle, Reads!worldVars,
      Reads!pageVars, Reads!fileVars
<1>13. CASE Reads!Paged
  BY <1>13 DEF Reads!Paged, Reads!Answered, Reads!Dense, Reads!Send, Reads!Idle,
      Reads!worldVars, Reads!pageVars, Reads!fileVars
<1>14. CASE Reads!PageFails
  BY <1>14 DEF Reads!PageFails, Reads!Answered, Reads!Fails, Reads!Idle, Reads!worldVars,
      Reads!pageVars, Reads!fileVars
<1>15. CASE Reads!Flush
  BY <1>15 DEF Reads!Flush, Reads!Begins, Reads!worldVars, Reads!pageVars, Reads!fileVars
<1>16. CASE Reads!Opens
  BY <1>16 DEF Reads!Opens, Reads!Fails, Reads!worldVars, Reads!pageVars, Reads!fileVars
<1>17. CASE Reads!Reads
  BY <1>17 DEF Reads!Reads, Reads!Fails, Reads!ReadsWhole, Reads!worldVars, Reads!pageVars,
      Reads!fileVars
<1>18. CASE Reads!Accepts
  BY <1>18 DEF Reads!Accepts, Reads!Fails, Reads!Extends, Reads!worldVars, Reads!pageVars,
      Reads!fileVars
<1>19. QED BY <1>1, <1>2, <1>3, <1>4, <1>5, <1>6, <1>7, <1>8, <1>9, <1>10, <1>11, <1>12, <1>13,
    <1>14, <1>15, <1>16, <1>17, <1>18 DEF Reads!Next

(* A file nobody tears only grows, past what was promised of it.           *)
LEMMA FileStep == ReadTyped /\ FileInv /\ Reads!Next => FileInv'
<1> SUFFICES ASSUME ReadTyped /\ FileInv, Reads!Next PROVE FileInv'
  OBVIOUS
<1> USE GatesAssumption DEF FileInv, ReadTyped, CountersTyped, Readers, Reads!Lines
<1>1. CASE Reads!Logs
  BY <1>1 DEF Reads!Logs, Reads!worldVars, Reads!pageVars, Reads!fileVars
<1>2. CASE Reads!Writes
  BY <1>2 DEF Reads!Writes, Reads!worldVars, Reads!pageVars, Reads!fileVars
<1>3. CASE Reads!Truncates
  BY <1>3 DEF Reads!Truncates, Reads!Noisy, Reads!worldVars, Reads!pageVars, Reads!fileVars
<1>4. CASE Reads!Aborts
  BY <1>4 DEF Reads!Aborts, Reads!worldVars, Reads!pageVars, Reads!fileVars
<1>5. CASE Reads!Responds
  BY <1>5 DEF Reads!Responds, Reads!Noisy, Reads!worldVars, Reads!pageVars, Reads!fileVars
<1>6. CASE Reads!FetchFails
  BY <1>6 DEF Reads!FetchFails, Reads!Noisy, Reads!Fails, Reads!Idle, Reads!worldVars,
      Reads!pageVars, Reads!fileVars
<1>7. CASE Reads!Chunk
  BY <1>7 DEF Reads!Chunk, Reads!worldVars, Reads!pageVars, Reads!fileVars
<1>8. CASE Reads!EndsEarly
  BY <1>8 DEF Reads!EndsEarly, Reads!Noisy, Reads!worldVars, Reads!pageVars, Reads!fileVars
<1>9. CASE Reads!Releases
  BY <1>9 DEF Reads!Releases, Reads!Noisy, Reads!worldVars, Reads!pageVars, Reads!fileVars
<1>10. CASE Reads!AnswerFails
  BY <1>10 DEF Reads!AnswerFails, Reads!Fails, Reads!Idle, Reads!worldVars, Reads!pageVars,
      Reads!fileVars
<1>11. CASE Reads!Project
  BY <1>11 DEF Reads!Project, Reads!Begins, Reads!Send, Reads!Idle, Reads!worldVars,
      Reads!pageVars, Reads!fileVars
<1>12. CASE Reads!Projected
  BY <1>12 DEF Reads!Projected, Reads!Answered, Reads!Send, Reads!Idle, Reads!worldVars,
      Reads!pageVars, Reads!fileVars
<1>13. CASE Reads!Paged
  BY <1>13 DEF Reads!Paged, Reads!Answered, Reads!Dense, Reads!Send, Reads!Idle,
      Reads!worldVars, Reads!pageVars, Reads!fileVars
<1>14. CASE Reads!PageFails
  BY <1>14 DEF Reads!PageFails, Reads!Answered, Reads!Fails, Reads!Idle, Reads!worldVars,
      Reads!pageVars, Reads!fileVars
<1>15. CASE Reads!Flush
  BY <1>15 DEF Reads!Flush, Reads!Begins, Reads!worldVars, Reads!pageVars, Reads!fileVars
<1>16. CASE Reads!Opens
  BY <1>16 DEF Reads!Opens, Reads!Fails, Reads!worldVars, Reads!pageVars, Reads!fileVars
<1>17. CASE Reads!Reads
  BY <1>17 DEF Reads!Reads, Reads!Fails, Reads!ReadsWhole, Reads!worldVars, Reads!pageVars,
      Reads!fileVars
<1>18. CASE Reads!Accepts
  BY <1>18 DEF Reads!Accepts, Reads!Fails, Reads!Extends, Reads!worldVars, Reads!pageVars,
      Reads!fileVars
<1>19. QED BY <1>1, <1>2, <1>3, <1>4, <1>5, <1>6, <1>7, <1>8, <1>9, <1>10, <1>11, <1>12, <1>13,
    <1>14, <1>15, <1>16, <1>17, <1>18 DEF Reads!Next

(* A page that ends where the next begins joins it without a gap.          *)
LEMMA PagesJoin ==
  ASSUME NEW r \in Seq(Nat), NEW first \in Nat, NEW b \in Nat, NEW c \in Nat, r # << >>,
         first < b, b <= c, r[Len(r)] = b - 1, \A i \in DOMAIN r : r[i] = first + i - 1
  PROVE  r \o Reads!Seqs(b, c) = Reads!Seqs(first, c)
<1> DEFINE s == Reads!Seqs(b, c)
           t == Reads!Seqs(first, c)
<1>1. Len(r) \in Nat /\ Len(r) > 0 /\ DOMAIN r = 1..Len(r)
  BY EmptySeq, LenProperties
<1>2. Len(r) = b - first
  BY <1>1
<1>3. s \in Seq(Nat) /\ Len(s) = c - b /\ t \in Seq(Nat) /\ Len(t) = c - first
  <2>1. first <= c
    OBVIOUS
  <2>2. s \in Seq(Nat) /\ Len(s) = c - b
    BY SeqsTyped
  <2>3. t \in Seq(Nat) /\ Len(t) = c - first
    BY <2>1, SeqsTyped
  <2>4. QED BY <2>2, <2>3
<1>4. \A i \in 1..Len(s) : s[i] = b + i - 1
  BY <1>3 DEF Reads!Seqs
<1>5. \A i \in 1..Len(t) : t[i] = first + i - 1
  BY <1>3 DEF Reads!Seqs
<1> HIDE DEF s, t
<1>6. r \o s \in Seq(Nat) /\ Len(r \o s) = Len(t)
  <2>1. r \o s \in Seq(Nat) /\ Len(r \o s) = Len(r) + Len(s)
    BY <1>3, ConcatProperties
  <2>2. QED BY <1>2, <1>3, <2>1
<1>7. \A i \in 1..Len(t) : (r \o s)[i] = t[i]
  <2> SUFFICES ASSUME NEW i \in 1..Len(t) PROVE (r \o s)[i] = t[i]
    OBVIOUS
  <2>1. (r \o s)[i] = IF i <= Len(r) THEN r[i] ELSE s[i - Len(r)]
    BY <1>3, <1>6, ConcatProperties
  <2>2. CASE i <= Len(r)
    <3>1. i \in 1..Len(r)
      BY <1>1, <1>3, <2>2
    <3>2. QED BY <1>1, <1>5, <2>1, <2>2, <3>1
  <2>3. CASE i > Len(r)
    <3>1. i - Len(r) \in 1..Len(s)
      BY <1>1, <1>2, <1>3, <2>3
    <3>2. QED BY <1>1, <1>2, <1>4, <1>5, <2>1, <2>3, <3>1
  <2>4. QED
    <3>1. i <= Len(r) \/ i > Len(r)
      BY <1>1, <1>3
    <3>2. QED BY <2>2, <2>3, <3>1
<1>8. r \o s = t
  BY <1>3, <1>6, <1>7, SeqEqual
<1>9. QED BY <1>8 DEF s, t

(* Each page that is taken joins the ones read before.                     *)
LEMMA PagesStep == ReadTyped /\ Uninvented /\ FileInv /\ PagesInv /\ Reads!Next => PagesInv'
<1> SUFFICES ASSUME ReadTyped /\ Uninvented /\ FileInv /\ PagesInv, Reads!Next PROVE PagesInv'
  OBVIOUS
<1> USE DEF PagesInv, ReadTyped, CountersTyped, Readers
<1>1. CASE Reads!Logs
  BY <1>1 DEF Reads!Logs, Reads!worldVars, Reads!pageVars, Reads!fileVars
<1>2. CASE Reads!Writes
  BY <1>2 DEF Reads!Writes, Reads!worldVars, Reads!pageVars, Reads!fileVars
<1>3. CASE Reads!Truncates
  BY <1>3 DEF Reads!Truncates, Reads!Noisy, Reads!worldVars, Reads!pageVars, Reads!fileVars
<1>4. CASE Reads!Aborts
  BY <1>4 DEF Reads!Aborts, Reads!worldVars, Reads!pageVars, Reads!fileVars
<1>5. CASE Reads!Responds
  BY <1>5 DEF Reads!Responds, Reads!Noisy, Reads!worldVars, Reads!pageVars, Reads!fileVars
<1>6. CASE Reads!FetchFails
  BY <1>6 DEF Reads!FetchFails, Reads!Noisy, Reads!Fails, Reads!Idle, Reads!worldVars,
      Reads!pageVars, Reads!fileVars
<1>7. CASE Reads!Chunk
  BY <1>7 DEF Reads!Chunk, Reads!worldVars, Reads!pageVars, Reads!fileVars
<1>8. CASE Reads!EndsEarly
  BY <1>8 DEF Reads!EndsEarly, Reads!Noisy, Reads!worldVars, Reads!pageVars, Reads!fileVars
<1>9. CASE Reads!Releases
  BY <1>9 DEF Reads!Releases, Reads!Noisy, Reads!worldVars, Reads!pageVars, Reads!fileVars
<1>10. CASE Reads!AnswerFails
  BY <1>10 DEF Reads!AnswerFails, Reads!Fails, Reads!Idle, Reads!worldVars, Reads!pageVars,
      Reads!fileVars
<1>11. CASE Reads!Project
  BY <1>11 DEF Reads!Project, Reads!Begins, Reads!Send, Reads!Idle, Reads!worldVars,
      Reads!pageVars, Reads!fileVars
<1>12. CASE Reads!Projected
  <2>1. Reads!Seqs(body.count, body.count) = << >>
    <3>1. body.count \in Nat
      BY DEF BodyRecord
    <3>2. 1..(body.count - body.count) = 1..0
      BY <3>1
    <3>3. QED BY <3>2 DEF Reads!Seqs
  <2>2. reader' = "paging" /\ cut' = body.count /\ below' = body.count /\ pages' = << >>
    BY <1>12 DEF Reads!Projected
  <2>3. QED BY <2>1, <2>2 DEF BodyRecord
<1>13. CASE Reads!Paged
  <2>1. /\ reader = "paging" /\ Reads!Dense(body) /\ pages' = body.records \o pages
        /\ below' = IF body.records = << >> THEN below ELSE body.records[1]
        /\ cut' = cut /\ history' = history
        /\ reader' = IF body.more THEN reader ELSE "prefix"
    BY <1>13 DEF Reads!Paged, Reads!worldVars
  <2>2. body.records \in Seq(Nat) /\ body.more \in BOOLEAN
    BY DEF BodyRecord
  <2>3. below <= cut /\ pages = Reads!Seqs(below, cut) /\ (below < cut => cut <= history)
    BY <2>1
  <2>4. CASE body.records = << >>
    <3>1. Reads!Seqs(below, cut) \in Seq(Nat)
      <4>1. cut \in Nat /\ below \in Nat
        OBVIOUS
      <4>2. QED BY <4>1, SeqsTyped
    <3>2. pages' = pages
      BY <2>1, <2>3, <2>4, <3>1, ConcatEmptySeq
    <3>3. below = 0 /\ ~body.more
      BY <2>1, <2>4 DEF Reads!Dense
    <3>4. reader' = "prefix"
      BY <2>1, <3>3
    <3>5. cut <= history
      BY <2>3, <3>3
    <3>6. QED BY <2>1, <2>3, <3>2, <3>3, <3>4, <3>5
  <2>5. CASE body.records # << >>
    <3> DEFINE first == body.records[1]
    <3>1. Len(body.records) \in Nat /\ Len(body.records) > 0
      BY <2>2, <2>5, EmptySeq, LenProperties
    <3>2. first \in Nat
      BY <2>2, <3>1, ElementOfSeq
    <3>3. /\ first < below /\ body.records[Len(body.records)] = below - 1
          /\ \A i \in DOMAIN body.records : body.records[i] = first + i - 1
      BY <2>1, <2>5 DEF Reads!Dense
    <3>m. body.more <=> first > 0
      BY <2>1, <2>2, <2>5 DEF Reads!Dense
    <3> HIDE DEF first
    <3>4. pages' = Reads!Seqs(first, cut)
      <4>1. below \in Nat /\ cut \in Nat
        OBVIOUS
      <4>2. body.records \o Reads!Seqs(below, cut) = Reads!Seqs(first, cut)
        <5> DEFINE r == body.records
        <5>1. /\ r \in Seq(Nat) /\ r # << >> /\ first < below /\ below <= cut
              /\ r[Len(r)] = below - 1 /\ \A i \in DOMAIN r : r[i] = first + i - 1
          BY <2>2, <2>3, <2>5, <3>3
        <5> HIDE DEF r
        <5>2. r \o Reads!Seqs(below, cut) = Reads!Seqs(first, cut)
          BY ZenonT(20), <3>2, <4>1, <5>1, PagesJoin
        <5>3. QED BY <5>2 DEF r
      <4>3. QED BY <2>1, <2>3, <4>2
    <3>5. below - 1 < history
      BY <2>2, <3>1, <3>3, LenProperties DEF Uninvented
    <3>6. below' = first
      BY <2>1, <2>5 DEF first
    <3>7. first < cut /\ cut <= history
      BY <2>3, <3>2, <3>3, <3>5
    <3>8. reader' = "paging" \/ (reader' = "prefix" /\ first = 0)
      BY <2>1, <2>2, <3>2, <3>m
    <3>9. QED BY <2>1, <3>2, <3>4, <3>6, <3>7, <3>8
  <2>6. QED BY <2>4, <2>5
<1>14. CASE Reads!PageFails
  BY <1>14 DEF Reads!PageFails, Reads!Answered, Reads!Fails, Reads!Idle, Reads!worldVars,
      Reads!pageVars, Reads!fileVars
<1>15. CASE Reads!Flush
  BY <1>15 DEF Reads!Flush, Reads!Begins, Reads!worldVars, Reads!pageVars, Reads!fileVars
<1>16. CASE Reads!Opens
  BY <1>16 DEF Reads!Opens, Reads!Fails, Reads!worldVars, Reads!pageVars, Reads!fileVars
<1>17. CASE Reads!Reads
  <2>1. CASE Reads!ReadsWhole /\ size >= 2 /\ size % 2 = 0
    <3>1. /\ cut' = size \div 2 - 1 /\ pages' = Reads!Seqs(0, cut') /\ reader' = "log" /\ history' = history
      BY <1>17, <2>1 DEF Reads!Reads, Reads!worldVars
    <3>2. size <= 2 * (history + 1)
      BY <2>1 DEF Reads!ReadsWhole, FileInv
    <3>3. size \div 2 - 1 <= history
      BY <3>2
    <3>4. QED BY <3>1, <3>3
  <2>2. CASE ~(Reads!ReadsWhole /\ size >= 2 /\ size % 2 = 0)
    BY <1>17, <2>2 DEF Reads!Reads, Reads!Fails, Reads!worldVars
  <2>3. QED BY <2>1, <2>2
<1>18. CASE Reads!Accepts
  BY <1>18 DEF Reads!Accepts, Reads!Fails, Reads!Extends, Reads!worldVars, Reads!pageVars,
      Reads!fileVars
<1>19. QED BY <1>1, <1>2, <1>3, <1>4, <1>5, <1>6, <1>7, <1>8, <1>9, <1>10, <1>11, <1>12, <1>13,
    <1>14, <1>15, <1>16, <1>17, <1>18 DEF Reads!Next

(* The first state of the reading has the invariant.                       *)
LEMMA ReadsStart == PartInit => ReadsInv
<1>1. Reads!Init => ReadTyped
  <2>1. Reads!Init => CountersTyped
    BY GatesAssumption DEF Reads!Init, CountersTyped, Readers
  <2>2. Reads!Idle \in RequestRecord /\ Reads!Nothing \in BodyRecord
    BY DEF RequestRecord, BodyRecord, Reads!Idle, Reads!Nothing
  <2>3. QED BY <2>1, <2>2 DEF Reads!Init, ReadTyped
<1>2. Reads!Init => Uninvented /\ PagesInv /\ FileInv /\ RequestInv
  BY DEF Reads!Init, Uninvented, PagesInv, FileInv, RequestInv, Reads!Nothing
<1>3. QED BY <1>1, <1>2 DEF PartInit, ReadsInv

(* So it holds of the reading, whichever gate this behaviour is about.     *)
LEMMA ReadsPart == PartSpec => []ReadsInv
<1>1. ReadsInv /\ [PartNext]_partVars => ReadsInv'
  <2>1. CASE Reads!Next
    BY <2>1, CounterTypes, RequestTypes, BodyTypes, UninventedStep, PagesStep, FileStep,
          RequestStep DEF ReadsInv, ReadTyped
  <2>2. ReadsInv /\ UNCHANGED readVars => ReadsInv'
    BY DEF ReadsInv, readVars, ReadTyped, CountersTyped, Uninvented, PagesInv, FileInv, RequestInv
  <2>3. QED BY <2>1, <2>2 DEF PartNext, Restarts, Replays, ReadsLog, partVars
<1>2. QED BY <1>1, ReadsStart, PTL DEF PartSpec

(* ReadingsTrue: a reading of a session that is complete, over HTTP page by page*)
(* or from the file the host flushed, has every event up to its cut, once and none*)
(* invented, whatever one wrong answer says; and no request keeps its stream once*)
(* its reading has ended (shud-web-driver.ts, shud-session-log.ts).        *)
THEOREM ReadingsAreTrue == PartSpec => []ReadingsTrue
<1>1. ReadsInv => ReadingsTrue
  BY DEF ReadsInv, PagesInv, FileInv, RequestInv, ReadingsTrue, Reads!ReadingTrue
<1>2. QED BY <1>1, ReadsPart, PTL

------------------------------------------------------------------------------
(* The replay gate (ReplayGate).                                           *)

(* What the sessions log, and what the driver keeps.                       *)
Deed == {"dispatch", "start", "end", "settled", "call", "done", "failed", "asked", "allowed"}
Entry == Replay!Session \X Deed \X (Replay!Stage \cup Replay!Session)
Preset == {"none", "coder", "worker", "reviewer"}
RunState == {"none", "live", "zero", "nonzero", "stopped"}
DriverState == {"capture", "prepare", "prompt", "chain", "rest", "final", "final-rest", "stop",
                "discover", "after", "judge", "done"}
EndRecord == [failed : BOOLEAN, completed : BOOLEAN, errors : Nat, verdict : {"none", "PASS", "FAIL"}]
GateTyped ==
  /\ server \in {"none", "up", "dead"} /\ driver \in DriverState /\ end \in EndRecord
  /\ taken \in SUBSET {1, 2} /\ touched \in BOOLEAN
TeamTyped == role \in [Replay!Child -> Preset] /\ runs \in [{1, 2} -> RunState]

(* The order of a trace, R being the children that were started: a child is  *)
(* started before anything it does, and once; it does nothing after its end   *)
(* but be allowed what it had asked; and each approval is given once, to the    *)
(* session that has what it is about.                                      *)
Material(x) == IF x = "change" THEN "create" ELSE "validate"
Ordered(t, R) ==
  /\ \A i \in DOMAIN t : t[i][1] \in R \cup {0} /\ (t[i][2] = "end" => t[i][3] = t[i][1])
  /\ \A i, j \in DOMAIN t : t[i][2] = "dispatch" /\ t[j][1] = t[i][3] => i < j
  /\ \A i, j \in DOMAIN t : t[i][2] = "start" /\ t[i][1] # 0 /\ t[j][1] = t[i][1] => i <= j
  /\ \A i, j \in DOMAIN t :
       t[i][2] = "end" /\ t[i][1] # 0 /\ t[j][1] = t[i][1] /\ t[j][2] # "allowed" => j <= i
  /\ \A i, j \in DOMAIN t : t[i][2] = "allowed" /\ t[j][2] = "allowed" /\ t[i][3] = t[j][3] => i = j
  /\ \A i \in DOMAIN t : t[i][2] = "allowed" =>
       /\ t[i][3] \in Replay!Approval
       /\ \E k \in DOMAIN t : t[k] = <<t[i][1], "done", Material(t[i][3])>>
Team == {c \in Replay!Child : role[c] # "none"}
TraceInv == trace \in Seq(Entry) /\ Ordered(trace, Team) /\ (server = "none" => trace = << >>)

(* From when on a gate without a clean-up error has nothing left behind.     *)
CleanInv ==
  /\ driver \in {"discover", "after", "judge", "done"} /\ end.errors = 0 => server # "up"
  /\ driver \in {"after", "judge", "done"} /\ end.errors = 0 => \A r \in {1, 2} : runs[r] # "live"
  /\ driver \in {"judge", "done"} /\ end.errors = 0 => ~touched
  /\ end.verdict # "none" => driver = "done"

(* The order of the natural numbers as a relation.                         *)
Less == {ss \in Nat \X Nat : ss[1] < ss[2]}

(* Every set of numbers that is not empty has a least one.                 *)
LEMMA Least ==
  ASSUME NEW T \in SUBSET Nat, T # {}
  PROVE  \E n \in T : \A m \in T : n <= m
<1>1. IsWellFoundedOn(Less, Nat)
  BY NatLessThanWellFounded DEF OpToRel, Less
<1>2. PICK n \in T : \A m \in T : ~(<<m, n>> \in Less)
  <2> HIDE DEF Less
  <2> QED BY <1>1, WFMin
<1>3. ASSUME NEW m \in T PROVE n <= m
  <2>1. <<m, n>> \in Nat \X Nat /\ ~(<<m, n>> \in Less)
    BY <1>2
  <2>2. ~(m < n)
    BY <2>1 DEF Less
  <2>3. QED BY <2>2
<1>4. QED BY <1>3

(* The first and the latest place of a log in a set of them.                *)
LEMMA FirstOf ==
  ASSUME NEW n \in Nat, NEW S \in SUBSET (1..n), S # {}
  PROVE  Replay!First(S) \in S /\ \A j \in S : Replay!First(S) <= j
<1>1. \E i \in S : \A j \in S : i <= j
  <2>1. S \in SUBSET Nat
    OBVIOUS
  <2>2. QED BY <2>1, Least
<1>2. QED BY <1>1 DEF Replay!First

(* So is the latest one, which is 0 when there is none.                    *)
LEMMA LatestOf ==
  ASSUME NEW n \in Nat, NEW S \in SUBSET (1..n)
  PROVE  /\ Replay!Latest(S) \in 0..n /\ \A j \in S : j <= Replay!Latest(S)
         /\ Replay!Latest(S) > 0 => Replay!Latest(S) \in S
<1>1. CASE S = {}
  BY <1>1 DEF Replay!Latest
<1>2. CASE S # {}
  <2> DEFINE T == {k \in Nat : n - k \in S}
  <2>1. T # {}
    <3>1. PICK m \in S : TRUE
      BY <1>2
    <3>2. n - m \in Nat /\ n - (n - m) = m
      BY <3>1
    <3>3. QED BY <3>1, <3>2
  <2>2. PICK k \in T : \A j \in T : k <= j
    <3> HIDE DEF T
    <3>1. T \in SUBSET Nat
      BY DEF T
    <3>2. QED BY <2>1, <3>1, Least
  <2>3. n - k \in S
    BY <2>2
  <2>4. ASSUME NEW m \in S PROVE m <= n - k
    <3>1. n - m \in Nat /\ n - (n - m) = m
      OBVIOUS
    <3>2. n - m \in T
      BY <3>1
    <3>3. k <= n - m
      BY <2>2, <3>2
    <3>4. QED BY <2>2, <3>3
  <2>5. Replay!Last(S) \in S /\ \A j \in S : j <= Replay!Last(S)
    BY <2>3, <2>4 DEF Replay!Last
  <2>6. Replay!Latest(S) = Replay!Last(S)
    BY <1>2 DEF Replay!Latest
  <2>7. Replay!Last(S) \in 1..n
    BY <2>5
  <2>8. QED BY <2>5, <2>6, <2>7
<1>3. QED BY <1>1, <1>2

(* A log with one more entry.                                              *)
LEMMA NewEntry ==
  ASSUME NEW t \in Seq(Entry), NEW e \in Entry
  PROVE  /\ Append(t, e) \in Seq(Entry) /\ Len(t) \in Nat /\ DOMAIN t = 1..Len(t)
         /\ Len(t) + 1 \in DOMAIN Append(t, e) /\ Append(t, e)[Len(t) + 1] = e
         /\ \A i \in DOMAIN t : i \in DOMAIN Append(t, e) /\ Append(t, e)[i] = t[i] /\ i < Len(t) + 1
         /\ \A i \in DOMAIN Append(t, e) : i \in DOMAIN t \/ i = Len(t) + 1
<1>1. Len(t) \in Nat /\ DOMAIN t = 1..Len(t)
  BY LenProperties
<1>2. /\ Append(t, e) \in Seq(Entry) /\ Len(Append(t, e)) = Len(t) + 1
      /\ \A i \in 1..(Len(t) + 1) : Append(t, e)[i] = IF i <= Len(t) THEN t[i] ELSE e
  BY AppendProperties
<1>3. DOMAIN Append(t, e) = 1..(Len(t) + 1)
  BY <1>2, LenProperties
<1> HIDE DEF Entry
<1>4. QED BY <1>1, <1>2, <1>3

(* An entry that comes in its order keeps the order of the log.            *)
LEMMA OrderedAppend ==
  ASSUME NEW t \in Seq(Entry), NEW R \in SUBSET Replay!Child, Ordered(t, R), NEW e \in Entry,
         e[1] \in R \cup {0}, e[2] = "end" => e[3] = e[1],
         e[2] = "dispatch" => \A j \in DOMAIN t : t[j][1] # e[3],
         e[2] = "dispatch" => e[1] # e[3],
         e[2] = "start" /\ e[1] # 0 => \A j \in DOMAIN t : t[j][1] # e[1],
         e[1] # 0 /\ e[2] # "allowed" => \A j \in DOMAIN t : t[j][1] = e[1] => t[j][2] # "end",
         e[2] = "allowed" =>
           /\ e[3] \in Replay!Approval
           /\ \A j \in DOMAIN t : ~(t[j][2] = "allowed" /\ t[j][3] = e[3])
           /\ \E k \in DOMAIN t : t[k] = <<e[1], "done", Material(e[3])>>
  PROVE  Append(t, e) \in Seq(Entry) /\ Ordered(Append(t, e), R)
<1> DEFINE u == Append(t, e)
           n == Len(t) + 1
<1>1. /\ u \in Seq(Entry) /\ n \in DOMAIN u /\ u[n] = e
      /\ \A i \in DOMAIN t : i \in DOMAIN u /\ u[i] = t[i] /\ i < n
      /\ \A i \in DOMAIN u : i \in DOMAIN t \/ i = n
      /\ n \in Nat
  BY NewEntry
<1> HIDE DEF u, n
<1>2. \A i \in DOMAIN u : u[i][1] \in R \cup {0} /\ (u[i][2] = "end" => u[i][3] = u[i][1])
  BY <1>1 DEF Ordered
<1>3. ASSUME NEW i \in DOMAIN u, NEW j \in DOMAIN u, u[i][2] = "dispatch", u[j][1] = u[i][3]
      PROVE  i < j
  BY <1>1, <1>3 DEF Ordered
<1>4. ASSUME NEW i \in DOMAIN u, NEW j \in DOMAIN u, u[i][2] = "start", u[i][1] # 0, u[j][1] = u[i][1]
      PROVE  i <= j
  BY <1>1, <1>4 DEF Ordered
<1>5. ASSUME NEW i \in DOMAIN u, NEW j \in DOMAIN u, u[i][2] = "end", u[i][1] # 0, u[j][1] = u[i][1],
             u[j][2] # "allowed"
      PROVE  j <= i
  BY <1>1, <1>5 DEF Ordered
<1>6. ASSUME NEW i \in DOMAIN u, NEW j \in DOMAIN u, u[i][2] = "allowed", u[j][2] = "allowed",
             u[i][3] = u[j][3]
      PROVE  i = j
  BY <1>1, <1>6 DEF Ordered
<1>7. ASSUME NEW i \in DOMAIN u, u[i][2] = "allowed"
      PROVE  /\ u[i][3] \in Replay!Approval
             /\ \E k \in DOMAIN u : u[k] = <<u[i][1], "done", Material(u[i][3])>>
  <2>1. CASE i = n
    <3>1. PICK k \in DOMAIN t : t[k] = <<e[1], "done", Material(e[3])>>
      BY <1>1, <1>7, <2>1
    <3>2. k \in DOMAIN u /\ u[k] = <<u[i][1], "done", Material(u[i][3])>>
      BY <1>1, <2>1, <3>1
    <3>3. u[i][3] \in Replay!Approval
      BY <1>1, <1>7, <2>1
    <3>4. QED BY <3>2, <3>3
  <2>2. CASE i \in DOMAIN t
    <3>1. t[i][3] \in Replay!Approval
          /\ \E k \in DOMAIN t : t[k] = <<t[i][1], "done", Material(t[i][3])>>
      BY <1>1, <1>7, <2>2 DEF Ordered
    <3>2. PICK k \in DOMAIN t : t[k] = <<t[i][1], "done", Material(t[i][3])>>
      BY <3>1
    <3>3. k \in DOMAIN u /\ u[k] = <<u[i][1], "done", Material(u[i][3])>> /\ u[i] = t[i]
      BY <1>1, <2>2, <3>2
    <3>4. QED BY <3>1, <3>3
  <2>3. QED BY <1>1, <2>1, <2>2
<1>8. Ordered(u, R)
  BY <1>2, <1>3, <1>4, <1>5, <1>6, <1>7 DEF Ordered
<1>9. QED BY <1>1, <1>8 DEF u

(* Where a session has logged something, and that it has.                   *)
LEMMA AtOf ==
  ASSUME trace \in Seq(Entry), NEW s, NEW k, NEW x
  PROVE  /\ Len(trace) \in Nat /\ DOMAIN trace = 1..Len(trace)
         /\ Replay!At(s, k, x) \in SUBSET (1..Len(trace))
         /\ \A i \in DOMAIN trace : i \in Replay!At(s, k, x) <=> trace[i] = <<s, k, x>>
<1>1. Len(trace) \in Nat /\ DOMAIN trace = 1..Len(trace)
  BY LenProperties
<1>2. QED BY <1>1 DEF Replay!At

(* The latest place where a session has logged something.                  *)
LEMMA LatestAt ==
  ASSUME trace \in Seq(Entry), NEW s, NEW k, NEW x
  PROVE  LET l == Replay!Latest(Replay!At(s, k, x)) IN
           /\ l \in 0..Len(trace) /\ Len(trace) \in Nat
           /\ l > 0 => l \in DOMAIN trace /\ trace[l] = <<s, k, x>>
           /\ \A i \in DOMAIN trace : trace[i] = <<s, k, x>> => i <= l
<1> DEFINE S == Replay!At(s, k, x)
<1>1. /\ Len(trace) \in Nat /\ DOMAIN trace = 1..Len(trace) /\ S \in SUBSET (1..Len(trace))
      /\ \A i \in DOMAIN trace : i \in S <=> trace[i] = <<s, k, x>>
  BY AtOf
<1> HIDE DEF S
<1>2. /\ Replay!Latest(S) \in 0..Len(trace) /\ \A j \in S : j <= Replay!Latest(S)
      /\ Replay!Latest(S) > 0 => Replay!Latest(S) \in S
  BY <1>1, LatestOf
<1>3. QED BY <1>1, <1>2 DEF S

(* The places of a trace hold entries.                                     *)
LEMMA EntryOf ==
  ASSUME trace \in Seq(Entry), NEW i \in DOMAIN trace
  PROVE  /\ trace[i] = <<trace[i][1], trace[i][2], trace[i][3]>>
         /\ trace[i][1] \in Replay!Session /\ trace[i][2] \in Deed
         /\ trace[i][3] \in Replay!Stage \cup Replay!Session
<1>1. trace[i] \in Entry
  BY LenProperties, ElementOfSeq
<1>2. QED BY <1>1 DEF Entry

(* A child that works has not ended its turn.                              *)
LEMMA WorksOn ==
  ASSUME trace \in Seq(Entry), NEW R, Ordered(trace, R), NEW c \in Replay!Child, Replay!Working(c),
         NEW i \in DOMAIN trace, trace[i][1] = c
  PROVE  trace[i][2] # "end"
<1> SUFFICES ASSUME trace[i][2] = "end" PROVE FALSE
  OBVIOUS
<1> DEFINE a == Replay!Latest(Replay!At(c, "start", c))
           z == Replay!Latest(Replay!At(c, "end", c))
<1>1. a > z
  BY DEF Replay!Working
<1>2. z \in Nat /\ a \in Nat
  BY LatestAt
<1>3. a \in DOMAIN trace /\ trace[a] = <<c, "start", c>>
  BY <1>1, <1>2, LatestAt
<1>4. c # 0
  BY DEF Replay!Child
<1> HIDE DEF a
<1>5. a <= i
  BY <1>3, <1>4 DEF Ordered
<1>6. z >= i
  <2>1. trace[i] = <<c, "end", c>>
    BY EntryOf DEF Ordered
  <2>2. QED BY <2>1, LatestAt
<1>7. QED BY <1>1, <1>2, <1>5, <1>6

(* A session that works logs a word that starts nobody and allows nothing.   *)
LEMMA WordLogged ==
  ASSUME TraceInv, NEW s \in Team \cup {0}, s # 0 => Replay!Working(s),
         NEW k \in {"call", "done", "failed", "asked", "end", "settled", "start"},
         k = "start" => s = 0, NEW x \in Replay!Stage \cup Replay!Session, k = "end" => x = s,
         trace' = Append(trace, <<s, k, x>>), server = "up", server' = server, role' = role
  PROVE  TraceInv'
<1> DEFINE e == <<s, k, x>>
<1>1. s \in Replay!Session /\ e \in Entry
  BY GatesAssumption DEF Team, Replay!Child, Replay!Session, Entry, Deed
<1>2. e[1] = s /\ e[2] = k /\ e[3] = x
  OBVIOUS
<1>3. Team' = Team /\ Team \in SUBSET Replay!Child
  BY DEF Team, Replay!Child
<1>4. ASSUME s # 0, NEW j \in DOMAIN trace, trace[j][1] = s PROVE trace[j][2] # "end"
  BY <1>4, WorksOn DEF TraceInv, Team
<1> HIDE DEF e
<1>5. Append(trace, e) \in Seq(Entry) /\ Ordered(Append(trace, e), Team)
  BY <1>1, <1>2, <1>3, <1>4, OrderedAppend DEF TraceInv
<1>6. QED BY <1>3, <1>5 DEF TraceInv, e

(* A child that is started has done nothing.                               *)
LEMMA DispatchLogged ==
  ASSUME TraceInv, TeamTyped, NEW c \in Replay!Child, role[c] = "none", NEW k \in Preset \ {"none"},
         NEW w \in BOOLEAN, server = "up", server' = server, role' = [role EXCEPT ![c] = k],
         trace' = trace \o <<<<0, "dispatch", c>>, <<c, "start", c>>>>
                        \o (IF w THEN <<<<0, "end", 0>>>> ELSE <<>>)
  PROVE  TraceInv'
<1> DEFINE R == Team \cup {c}
           d == <<0, "dispatch", c>>
           b == <<c, "start", c>>
           z == <<0, "end", 0>>
           t1 == Append(trace, d)
           t2 == Append(t1, b)
           t3 == Append(t2, z)
<1>1. Team' = R /\ R \in SUBSET Replay!Child /\ c # 0 /\ c \notin Team
  BY DEF Team, TeamTyped, Replay!Child
<1>2. d \in Entry /\ b \in Entry /\ z \in Entry
  BY GatesAssumption DEF Entry, Deed, Replay!Child, Replay!Session
<1>3. \A j \in DOMAIN trace : trace[j][1] # c
  BY <1>1 DEF TraceInv, Ordered
<1>4. Ordered(trace, R) /\ trace \in Seq(Entry)
  BY DEF TraceInv, Ordered
<1>5. t1 \in Seq(Entry) /\ Ordered(t1, R)
  BY <1>1, <1>2, <1>3, <1>4, OrderedAppend
<1>6. \A j \in DOMAIN t1 : t1[j][1] # c
  BY <1>1, <1>2, <1>3, <1>4, NewEntry
<1>7. t2 \in Seq(Entry) /\ Ordered(t2, R)
  <2> HIDE DEF t1
  <2>1. b[1] = c /\ b[2] = "start" /\ b[3] = c
    OBVIOUS
  <2> HIDE DEF b
  <2>2. QED BY <1>1, <1>2, <1>5, <1>6, <2>1, OrderedAppend
<1>8. t3 \in Seq(Entry) /\ Ordered(t3, R)
  <2> HIDE DEF t2
  <2>1. z[1] = 0 /\ z[2] = "end" /\ z[3] = 0
    OBVIOUS
  <2> HIDE DEF z
  <2>2. QED BY <1>1, <1>2, <1>7, <2>1, OrderedAppend
<1>9. trace' = t2 \/ trace' = t3
  <2>1. trace \o <<d, b>> = t2
    <3> HIDE DEF d, b
    <3>1. trace \o <<d, b>> = Append(Append(trace, d), b)
      BY <1>2, <1>4 DEF TraceInv
    <3>2. QED BY <3>1
  <2>2. t2 \o <<z>> = t3 /\ t2 \o <<>> = t2
    <3> HIDE DEF t2, z
    <3>1. QED BY <1>2, <1>7
  <2>3. CASE w
    BY <2>1, <2>2, <2>3
  <2>4. CASE ~w
    BY <2>1, <2>2, <2>4
  <2>5. QED BY <2>3, <2>4
<1> HIDE DEF t2, t3
<1>10. QED BY <1>1, <1>7, <1>8, <1>9 DEF TraceInv

(* The stages of the work are fifteen words.                               *)
LEMMA StageSet ==
  Replay!Stage = {"task", "base", "create", "change", "run1", "wait1", "collect1", "candidate", "run2",
                  "wait2", "collect2", "verify", "generate", "validate", "submit"}
<1> DEFINE S == {"task", "base", "create", "change", "run1", "wait1", "collect1", "candidate", "run2",
                  "wait2", "collect2", "verify", "generate", "validate", "submit"}
<1>1. DOMAIN Replay!Work = 1..15
  BY DEF Replay!Work
<1>2. \A i \in 1..15 : Replay!Work[i] \in S
  BY DEF Replay!Work
<1>3. \A x \in S : \E i \in 1..15 : Replay!Work[i] = x
  <2>1. /\ Replay!Work[1] = "task" /\ Replay!Work[2] = "base" /\ Replay!Work[3] = "create"
        /\ Replay!Work[4] = "change" /\ Replay!Work[5] = "run1" /\ Replay!Work[6] = "wait1"
        /\ Replay!Work[7] = "collect1" /\ Replay!Work[8] = "candidate" /\ Replay!Work[9] = "run2"
        /\ Replay!Work[10] = "wait2" /\ Replay!Work[11] = "collect2" /\ Replay!Work[12] = "verify"
        /\ Replay!Work[13] = "generate" /\ Replay!Work[14] = "validate" /\ Replay!Work[15] = "submit"
    BY DEF Replay!Work
  <2>2. QED BY <2>1
<1>4. QED BY <1>1, <1>2, <1>3 DEF Replay!Stage

(* Every step of the sessions keeps the order of their logs.               *)
LEMMA TraceStep == TeamTyped /\ TraceInv /\ Replay!Next => TraceInv'
<1> SUFFICES ASSUME TeamTyped /\ TraceInv, Replay!Next PROVE TraceInv'
  OBVIOUS
<1>1. ASSUME Replay!Prompted, driver # "done", Replay!RootEnds(Replay!NextStage)
      PROVE  TraceInv'
  <2>1. trace' = Append(trace, <<0, "end", 0>>) /\ server' = server /\ role' = role /\ server = "up"
    BY <1>1 DEF Replay!RootEnds, Replay!Log, Replay!Prompted, Replay!agentVars, Replay!gateVars,
          Replay!Moves, Replay!driverUnchanged
  <2>2. 0 \in Team \cup {0} /\ 0 \in Replay!Stage \cup Replay!Session
    BY <1>1, GatesAssumption DEF Replay!RootEnds, Team, TeamTyped, Replay!Started, Replay!Role,
          Replay!RoleFor, Replay!Session, Replay!Child, Replay!Approval
  <2>3. 0 # 0 => Replay!Working(0)
    BY <1>1 DEF Replay!RootEnds
  <2>4. QED BY <2>1, <2>2, <2>3, WordLogged
<1>2. ASSUME Replay!Prompted, driver # "done", Replay!RootStarts
      PROVE  TraceInv'
  <2>1. trace' = Append(trace, <<0, "start", 0>>) /\ server' = server /\ role' = role /\ server = "up"
    BY <1>2 DEF Replay!RootStarts, Replay!Log, Replay!Prompted, Replay!agentVars, Replay!gateVars,
          Replay!Moves, Replay!driverUnchanged
  <2>2. 0 \in Team \cup {0} /\ 0 \in Replay!Stage \cup Replay!Session
    BY <1>2, GatesAssumption DEF Replay!RootStarts, Team, TeamTyped, Replay!Started, Replay!Role,
          Replay!RoleFor, Replay!Session, Replay!Child, Replay!Approval
  <2>3. 0 # 0 => Replay!Working(0)
    BY <1>2 DEF Replay!RootStarts
  <2>4. QED BY <2>1, <2>2, <2>3, WordLogged
<1>3. ASSUME NEW c \in Replay!Child, Replay!Prompted, driver # "done", Replay!EndTurn(c)
      PROVE  TraceInv'
  <2>1. trace' = Append(trace, <<c, "end", c>>) /\ server' = server /\ role' = role /\ server = "up"
    BY <1>3 DEF Replay!EndTurn, Replay!Log, Replay!Prompted, Replay!agentVars, Replay!gateVars,
          Replay!Moves, Replay!driverUnchanged
  <2>2. c \in Team \cup {0} /\ c \in Replay!Stage \cup Replay!Session
    BY <1>3, GatesAssumption DEF Replay!EndTurn, Team, TeamTyped, Replay!Started, Replay!Role,
          Replay!RoleFor, Replay!Session, Replay!Child, Replay!Approval
  <2>3. c # 0 => Replay!Working(c)
    BY <1>3 DEF Replay!EndTurn
  <2>4. QED BY <2>1, <2>2, <2>3, WordLogged
<1>4. ASSUME NEW c \in Replay!Child, Replay!Prompted, driver # "done", Replay!Settled(c)
      PROVE  TraceInv'
  <2>1. trace' = Append(trace, <<0, "settled", c>>) /\ server' = server /\ role' = role /\ server = "up"
    BY <1>4 DEF Replay!Settled, Replay!Log, Replay!Prompted, Replay!agentVars, Replay!gateVars,
          Replay!Moves, Replay!driverUnchanged
  <2>2. 0 \in Team \cup {0} /\ c \in Replay!Stage \cup Replay!Session
    BY <1>4, GatesAssumption DEF Replay!Settled, Team, TeamTyped, Replay!Started, Replay!Role,
          Replay!RoleFor, Replay!Session, Replay!Child, Replay!Approval
  <2>3. 0 # 0 => Replay!Working(0)
    BY <1>4 DEF Replay!Settled
  <2>4. QED BY <2>1, <2>2, <2>3, WordLogged
<1>5. ASSUME NEW c \in Replay!Child, NEW k \in {"coder", "worker", "reviewer"}, NEW w \in
             BOOLEAN, Replay!Prompted, driver # "done", Replay!Dispatch(c, k, w, Replay!NextStage)
      PROVE  TraceInv'
  <2>1. role[c] = "none" /\ k \in Preset \ {"none"} /\ server = "up" /\ server' = server
        /\ role' = [role EXCEPT ![c] = k]
    BY <1>5 DEF Replay!Dispatch, Replay!Started, Replay!Prompted, Preset
  <2>2. trace' = trace \o <<<<0, "dispatch", c>>, <<c, "start", c>>>>
                       \o (IF w THEN <<<<0, "end", 0>>>> ELSE <<>>)
    BY <1>5 DEF Replay!Dispatch
  <2>3. QED BY <2>1, <2>2, DispatchLogged
<1>6. ASSUME NEW s \in Replay!Session, Replay!Working(s), NEW x \in Replay!Stage,
             Replay!RoleFor(x) = Replay!Role(s), Replay!Prompted, driver # "done", Replay!Call(s, x,
             Replay!NextStage)
      PROVE  TraceInv'
  <2>1. trace' = Append(trace, <<s, "call", x>>) /\ server' = server /\ role' = role /\ server = "up"
    BY <1>6 DEF Replay!Call, Replay!Log, Replay!Prompted, Replay!agentVars, Replay!gateVars,
          Replay!Moves, Replay!driverUnchanged
  <2>2. s \in Team \cup {0} /\ x \in Replay!Stage \cup Replay!Session
    BY <1>6, GatesAssumption DEF Replay!Call, Team, TeamTyped, Replay!Started, Replay!Role,
          Replay!RoleFor, Replay!Session, Replay!Child, Replay!Approval
  <2>3. s # 0 => Replay!Working(s)
    BY <1>6 DEF Replay!Call
  <2>4. QED BY <2>1, <2>2, <2>3, WordLogged
<1>7. ASSUME NEW s \in Replay!Session, Replay!Working(s), NEW x \in Replay!Stage,
             Replay!RoleFor(x) = Replay!Role(s), Replay!Prompted, driver # "done", Replay!Ask(s, x)
      PROVE  TraceInv'
  <2>1. trace' = Append(trace, <<s, "asked", x>>) /\ server' = server /\ role' = role /\ server = "up"
    BY <1>7 DEF Replay!Ask, Replay!Log, Replay!Prompted, Replay!agentVars, Replay!gateVars,
          Replay!Moves, Replay!driverUnchanged
  <2>2. s \in Team \cup {0} /\ x \in Replay!Stage \cup Replay!Session
    BY <1>7, GatesAssumption DEF Replay!Ask, Team, TeamTyped, Replay!Started, Replay!Role,
          Replay!RoleFor, Replay!Session, Replay!Child, Replay!Approval
  <2>3. s # 0 => Replay!Working(s)
    BY <1>7 DEF Replay!Ask
  <2>4. QED BY <2>1, <2>2, <2>3, WordLogged
<1>8. ASSUME NEW s \in Replay!Session, Replay!Working(s), NEW x \in Replay!Stage,
             Replay!RoleFor(x) = Replay!Role(s), Replay!Prompted, driver # "done", Replay!Return(s, x)
      PROVE  TraceInv'
  <2>1. PICK k \in {"done", "failed"} : trace' = Append(trace, <<s, k, x>>)
    BY <1>8 DEF Replay!Return, Replay!Log
  <2>2. server' = server /\ role' = role /\ server = "up"
    BY <1>8 DEF Replay!Return, Replay!Prompted
  <2>3. s \in Team \cup {0} /\ x \in Replay!Stage \cup Replay!Session
    BY <1>8 DEF Team, Replay!Role, Replay!RoleFor, Replay!Session, Replay!Child
  <2>4. QED BY <1>8, <2>1, <2>2, <2>3, WordLogged
<1>9. ASSUME driver # "done", NEW r \in {1, 2}, Replay!RunEnds(r)
      PROVE  TraceInv'
  BY <1>9 DEF Replay!RunEnds, Replay!Mishap, Replay!agentVars, Replay!gateVars,
      Replay!driverUnchanged, TraceInv, Team
<1>10. ASSUME driver # "done", Replay!ServerDies
      PROVE  TraceInv'
  BY <1>10 DEF Replay!ServerDies, Replay!Mishap, Replay!agentVars, Replay!gateVars,
      Replay!driverUnchanged, TraceInv, Team
<1>11. ASSUME driver # "done", Replay!Touch
      PROVE  TraceInv'
  BY <1>11 DEF Replay!Touch, Replay!Mishap, Replay!agentVars, Replay!gateVars,
      Replay!driverUnchanged, TraceInv, Team
<1>12. ASSUME NEW x \in Replay!Approval, NEW s \in Replay!Session, Replay!Role(s) =
             Replay!RoleFor(x), Replay!Authorize(s, x)
      PROVE  TraceInv'
  <2>1. server = "up" /\ server' = server /\ role' = role
    BY <1>12 DEF Replay!Authorize
  <2>2. CASE trace' = trace
    BY <2>1, <2>2 DEF TraceInv, Team
  <2>3. CASE Replay!Authorized(s, x) /\ trace' = Append(trace, <<s, "allowed", x>>)
    <3> DEFINE e == <<s, "allowed", x>>
    <3>1. x \in Replay!Stage
      BY StageSet DEF Replay!Approval
    <3>2. e \in Entry /\ e[1] = s /\ e[2] = "allowed" /\ e[3] = x
      BY <3>1 DEF Entry, Deed
    <3>3. s \in Team \cup {0} /\ Team \in SUBSET Replay!Child /\ Team' = Team
      BY <1>12, <2>1 DEF Team, Replay!Role, Replay!RoleFor, Replay!Session, Replay!Child
    <3>4. \A j \in DOMAIN trace : ~(trace[j][2] = "allowed" /\ trace[j][3] = x)
      BY <2>3 DEF Replay!Authorized, Replay!Ever
    <3>5. \E k \in DOMAIN trace : trace[k] = <<s, "done", Material(x)>>
      BY <2>3 DEF Replay!Authorized, Replay!Produced, Replay!Logged, Material
    <3> HIDE DEF e
    <3>6. Append(trace, e) \in Seq(Entry) /\ Ordered(Append(trace, e), Team)
      BY <3>2, <3>3, <3>4, <3>5, OrderedAppend DEF TraceInv
    <3>7. QED BY <2>1, <2>3, <3>3, <3>6 DEF TraceInv, e
  <2>4. QED BY <1>12, <2>2, <2>3 DEF Replay!Authorize, Replay!Log
<1>13. CASE Replay!Capture
  BY <1>13 DEF Replay!Capture, Replay!Moves, Replay!agentVars, Replay!gateVars,
      Replay!driverUnchanged, TraceInv, Team
<1>14. CASE Replay!Prepare
  BY <1>14 DEF Replay!Prepare, Replay!Moves, Replay!agentVars, Replay!gateVars,
      Replay!driverUnchanged, TraceInv, Team
<1>15. CASE Replay!Prompt
  <2>1. trace' = Append(trace, <<0, "start", 0>>) /\ server' = server /\ role' = role /\ server = "up"
    BY <1>15 DEF Replay!Prompt, Replay!Log, Replay!Prompted, Replay!agentVars, Replay!gateVars,
          Replay!Moves, Replay!driverUnchanged
  <2>2. 0 \in Team \cup {0} /\ 0 \in Replay!Stage \cup Replay!Session
    BY <1>15, GatesAssumption DEF Replay!Prompt, Team, TeamTyped, Replay!Started, Replay!Role,
          Replay!RoleFor, Replay!Session, Replay!Child, Replay!Approval
  <2>3. 0 # 0 => Replay!Working(0)
    BY <1>15 DEF Replay!Prompt
  <2>4. QED BY <2>1, <2>2, <2>3, WordLogged
<1>16. CASE Replay!ReadRoot("chain", "rest")
  BY <1>16 DEF Replay!ReadRoot, Replay!Moves, Replay!agentVars, Replay!gateVars,
      Replay!driverUnchanged, TraceInv, Team
<1>17. CASE Replay!ReadRoot("final", "final-rest")
  BY <1>17 DEF Replay!ReadRoot, Replay!Moves, Replay!agentVars, Replay!gateVars,
      Replay!driverUnchanged, TraceInv, Team
<1>18. CASE Replay!ReadRest
  BY <1>18 DEF Replay!ReadRest, Replay!agentVars, Replay!gateVars, Replay!driverUnchanged,
      TraceInv, Team
<1>19. CASE Replay!GivesUp
  BY <1>19 DEF Replay!GivesUp, Replay!agentVars, Replay!gateVars, Replay!driverUnchanged,
      TraceInv, Team
<1>20. CASE Replay!StopServer
  BY <1>20 DEF Replay!StopServer, Replay!Moves, Replay!Mishap, Replay!agentVars,
      Replay!gateVars, Replay!driverUnchanged, TraceInv, Team
<1>21. CASE Replay!CleanUpRuns
  BY <1>21 DEF Replay!CleanUpRuns, Replay!Moves, Replay!agentVars, Replay!gateVars,
      Replay!driverUnchanged, TraceInv, Team
<1>22. CASE Replay!Compare
  BY <1>22 DEF Replay!Compare, Replay!Moves, Replay!agentVars, Replay!gateVars,
      Replay!driverUnchanged, TraceInv, Team
<1>23. CASE Replay!Judges
  BY <1>23 DEF Replay!Judges, Replay!Moves, Replay!agentVars, Replay!gateVars,
      Replay!driverUnchanged, TraceInv, Team
<1>24. CASE driver # "done" /\ Replay!Agents
  BY <1>24, <1>1, <1>2, <1>3, <1>4, <1>5, <1>6, <1>7, <1>8 DEF Replay!Agents
<1>25. QED BY <1>24, <1>9, <1>10, <1>11, <1>12, <1>13, <1>14, <1>15, <1>16, <1>17, <1>18, <1>19,
    <1>20, <1>21, <1>22, <1>23 DEF Replay!Next, Replay!Driver, Replay!World

(* The sessions and the runs keep their types.                             *)
LEMMA TeamTypes == TeamTyped /\ Replay!Next => TeamTyped'
<1> SUFFICES ASSUME TeamTyped, Replay!Next PROVE TeamTyped'
  OBVIOUS
<1> USE DEF TeamTyped, Preset, RunState
<1>1. ASSUME Replay!Prompted, driver # "done", Replay!RootEnds(Replay!NextStage)
      PROVE  TeamTyped'
  BY <1>1 DEF Replay!RootEnds, Replay!Deviates, Replay!Mishap, Replay!agentVars,
      Replay!gateVars, Replay!driverUnchanged, Replay!Prompted, Replay!Log
<1>2. ASSUME Replay!Prompted, driver # "done", Replay!RootStarts
      PROVE  TeamTyped'
  BY <1>2 DEF Replay!RootStarts, Replay!agentVars, Replay!gateVars, Replay!driverUnchanged,
      Replay!Prompted, Replay!Log
<1>3. ASSUME NEW c \in Replay!Child, Replay!Prompted, driver # "done", Replay!EndTurn(c)
      PROVE  TeamTyped'
  BY <1>3 DEF Replay!EndTurn, Replay!Deviates, Replay!Mishap, Replay!agentVars, Replay!gateVars,
      Replay!driverUnchanged, Replay!Prompted, Replay!Log
<1>4. ASSUME NEW c \in Replay!Child, Replay!Prompted, driver # "done", Replay!Settled(c)
      PROVE  TeamTyped'
  BY <1>4 DEF Replay!Settled, Replay!agentVars, Replay!gateVars, Replay!driverUnchanged,
      Replay!Prompted, Replay!Log
<1>5. ASSUME NEW c \in Replay!Child, NEW k \in {"coder", "worker", "reviewer"}, NEW w \in
             BOOLEAN, Replay!Prompted, driver # "done", Replay!Dispatch(c, k, w, Replay!NextStage)
      PROVE  TeamTyped'
  BY <1>5 DEF Replay!Dispatch, Replay!agentVars, Replay!gateVars, Replay!driverUnchanged,
      Replay!Prompted
<1>6. ASSUME NEW s \in Replay!Session, Replay!Working(s), NEW x \in Replay!Stage,
             Replay!RoleFor(x) = Replay!Role(s), Replay!Prompted, driver # "done", Replay!Call(s, x,
             Replay!NextStage)
      PROVE  TeamTyped'
  BY <1>6 DEF Replay!Call, Replay!agentVars, Replay!gateVars, Replay!driverUnchanged,
      Replay!Prompted, Replay!Log
<1>7. ASSUME NEW s \in Replay!Session, Replay!Working(s), NEW x \in Replay!Stage,
             Replay!RoleFor(x) = Replay!Role(s), Replay!Prompted, driver # "done", Replay!Ask(s, x)
      PROVE  TeamTyped'
  BY <1>7 DEF Replay!Ask, Replay!agentVars, Replay!gateVars, Replay!driverUnchanged,
      Replay!Prompted, Replay!Log
<1>8. ASSUME NEW s \in Replay!Session, Replay!Working(s), NEW x \in Replay!Stage,
             Replay!RoleFor(x) = Replay!Role(s), Replay!Prompted, driver # "done", Replay!Return(s, x)
      PROVE  TeamTyped'
  BY <1>8 DEF Replay!Return, Replay!agentVars, Replay!gateVars, Replay!driverUnchanged,
      Replay!Prompted, Replay!Log
<1>9. ASSUME driver # "done", NEW r \in {1, 2}, Replay!RunEnds(r)
      PROVE  TeamTyped'
  BY <1>9 DEF Replay!RunEnds, Replay!Mishap, Replay!agentVars, Replay!gateVars,
      Replay!driverUnchanged
<1>10. ASSUME driver # "done", Replay!ServerDies
      PROVE  TeamTyped'
  BY <1>10 DEF Replay!ServerDies, Replay!Mishap, Replay!agentVars, Replay!gateVars,
      Replay!driverUnchanged
<1>11. ASSUME driver # "done", Replay!Touch
      PROVE  TeamTyped'
  BY <1>11 DEF Replay!Touch, Replay!Mishap, Replay!agentVars, Replay!gateVars,
      Replay!driverUnchanged
<1>12. ASSUME NEW x \in Replay!Approval, NEW s \in Replay!Session, Replay!Role(s) =
             Replay!RoleFor(x), Replay!Authorize(s, x)
      PROVE  TeamTyped'
  BY <1>12 DEF Replay!Authorize, Replay!agentVars, Replay!gateVars, Replay!driverUnchanged,
      Replay!Log
<1>13. CASE Replay!Capture
  BY <1>13 DEF Replay!Capture, Replay!Moves, Replay!agentVars, Replay!gateVars,
      Replay!driverUnchanged
<1>14. CASE Replay!Prepare
  BY <1>14 DEF Replay!Prepare, Replay!Moves, Replay!agentVars, Replay!gateVars,
      Replay!driverUnchanged
<1>15. CASE Replay!Prompt
  BY <1>15 DEF Replay!Prompt, Replay!Moves, Replay!agentVars, Replay!gateVars,
      Replay!driverUnchanged, Replay!Log
<1>16. CASE Replay!ReadRoot("chain", "rest")
  BY <1>16 DEF Replay!ReadRoot, Replay!Moves, Replay!agentVars, Replay!gateVars,
      Replay!driverUnchanged
<1>17. CASE Replay!ReadRoot("final", "final-rest")
  BY <1>17 DEF Replay!ReadRoot, Replay!Moves, Replay!agentVars, Replay!gateVars,
      Replay!driverUnchanged
<1>18. CASE Replay!ReadRest
  BY <1>18 DEF Replay!ReadRest, Replay!agentVars, Replay!gateVars, Replay!driverUnchanged
<1>19. CASE Replay!GivesUp
  BY <1>19 DEF Replay!GivesUp, Replay!agentVars, Replay!gateVars, Replay!driverUnchanged
<1>20. CASE Replay!StopServer
  BY <1>20 DEF Replay!StopServer, Replay!Moves, Replay!Mishap, Replay!agentVars,
      Replay!gateVars, Replay!driverUnchanged
<1>21. CASE Replay!CleanUpRuns
  BY <1>21 DEF Replay!CleanUpRuns, Replay!Moves, Replay!agentVars, Replay!gateVars,
      Replay!driverUnchanged
<1>22. CASE Replay!Compare
  BY <1>22 DEF Replay!Compare, Replay!Moves, Replay!agentVars, Replay!gateVars,
      Replay!driverUnchanged
<1>23. CASE Replay!Judges
  BY <1>23 DEF Replay!Judges, Replay!Moves, Replay!agentVars, Replay!gateVars,
      Replay!driverUnchanged
<1>24. CASE driver # "done" /\ Replay!Agents
  BY <1>24, <1>1, <1>2, <1>3, <1>4, <1>5, <1>6, <1>7, <1>8 DEF Replay!Agents
<1>25. QED BY <1>24, <1>9, <1>10, <1>11, <1>12, <1>13, <1>14, <1>15, <1>16, <1>17, <1>18, <1>19,
    <1>20, <1>21, <1>22, <1>23 DEF Replay!Next, Replay!Driver, Replay!World

(* The replay counts with the same Cardinality as the library.             *)
LEMMA Counted == ASSUME NEW S PROVE Replay!Cardinality(S) = Cardinality(S)
BY DEF Replay!Cardinality, Cardinality

(* Counting errors leaves the rest of the end as it was.                   *)
LEMMA ErrorsAdded ==
  ASSUME NEW e \in EndRecord, NEW n \in Nat
  PROVE  /\ e.errors \in Nat /\ [e EXCEPT !.errors = e.errors + n] \in EndRecord
         /\ [e EXCEPT !.errors = e.errors + n].errors = e.errors + n
         /\ [e EXCEPT !.errors = e.errors + n].verdict = e.verdict
BY DEF EndRecord

CleansUp(fails, known) ==
  LET stops == {r \in {1, 2} : Replay!Exited /\ Replay!CleanUp(r, known)}
      left == {r \in {1, 2} : /\ runs[r] # "none" /\ r \notin taken
                              /\ ~(r \in known /\ Replay!Provable(r))}
      unproved == (IF fails THEN 1 ELSE 0) + (IF Replay!Exited THEN Replay!Cardinality(left) ELSE 1)
  IN /\ runs' = [r \in {1, 2} |-> IF r \in stops /\ runs[r] = "live" THEN "stopped" ELSE runs[r]]
     /\ end' = [end EXCEPT !.errors = @ + unproved]

(* What the clean-up does not prove quiet it counts as an error.             *)
LEMMA CleanedUp ==
  ASSUME GateTyped, TeamTyped, Replay!CleanUpRuns
  PROVE  \E n \in Nat : /\ end' = [end EXCEPT !.errors = end.errors + n]
                        /\ n = 0 => server # "up" /\ \A r \in {1, 2} : runs'[r] # "live"
<1>1. PICK fails \in BOOLEAN : \E known \in IF fails THEN SUBSET {1, 2} ELSE {{1, 2}} : CleansUp(fails, known)
  <2>1. \E fails \in IF Replay!Exited /\ trace # <<>>
                     THEN {~Replay!BuiltOnce, ~Replay!BuiltOnce \/ mishaps > 0}
                     ELSE {FALSE} :
        \E known \in IF fails THEN SUBSET {1, 2} ELSE {{1, 2}} : CleansUp(fails, known)
    BY ZenonT(30) DEF Replay!CleanUpRuns, CleansUp
  <2>2. QED BY <2>1
<1>2. PICK known \in IF fails THEN SUBSET {1, 2} ELSE {{1, 2}} : CleansUp(fails, known)
  BY <1>1
<1> DEFINE stops == {r \in {1, 2} : Replay!Exited /\ Replay!CleanUp(r, known)}
           left == {r \in {1, 2} : /\ runs[r] # "none" /\ r \notin taken
                                   /\ ~(r \in known /\ Replay!Provable(r))}
           n == (IF fails THEN 1 ELSE 0) + (IF Replay!Exited THEN Replay!Cardinality(left) ELSE 1)
<1>3. /\ runs' = [r \in {1, 2} |-> IF r \in stops /\ runs[r] = "live" THEN "stopped" ELSE runs[r]]
      /\ end' = [end EXCEPT !.errors = end.errors + n] /\ (~fails => known = {1, 2})
  BY <1>2 DEF CleansUp
<1>4. IsFiniteSet(left) /\ Replay!Cardinality(left) = Cardinality(left) /\ Cardinality(left) \in Nat
  <2>1. IsFiniteSet({1, 2})
    <3>1. IsFiniteSet({1})
      BY FS_Singleton
    <3>2. IsFiniteSet({1} \cup {2})
      BY <3>1, FS_AddElement
    <3>3. {1, 2} = {1} \cup {2}
      OBVIOUS
    <3>4. QED BY <3>2, <3>3
  <2>2. left \in SUBSET {1, 2}
    OBVIOUS
  <2> HIDE DEF left
  <2>3. QED BY <2>1, <2>2, FS_Subset, FS_CardinalityType, Counted
<1>5. n \in Nat
  <2> HIDE DEF left
  <2>1. QED BY <1>4
<1>6. ASSUME n = 0 PROVE server # "up" /\ \A r \in {1, 2} : runs'[r] # "live"
  <2>1. ~fails /\ Replay!Exited /\ Replay!Cardinality(left) = 0
    <3> HIDE DEF left
    <3>1. QED BY <1>4, <1>6
  <2>2. left = {}
    <3> HIDE DEF left
    <3>1. QED BY <1>4, <2>1, FS_EmptySet
  <2>3. known = {1, 2} /\ server # "up"
    BY <1>3, <2>1 DEF Replay!Exited
  <2>4. ASSUME NEW r \in {1, 2}, runs[r] = "live" PROVE r \in stops
    <3>1. r \in taken \/ (r \in known /\ Replay!Provable(r))
      BY <2>2, <2>4
    <3>2. QED BY <2>1, <3>1 DEF Replay!CleanUp
  <2> HIDE DEF stops
  <2>5. QED BY <1>3, <2>3, <2>4
<1> HIDE DEF n
<1>7. QED BY <1>3, <1>5, <1>6

(* The driver of the replay keeps its types.                               *)
LEMMA GateTypes == GateTyped /\ TeamTyped /\ Replay!Next => GateTyped'
<1> SUFFICES ASSUME GateTyped /\ TeamTyped, Replay!Next PROVE GateTyped'
  OBVIOUS
<1> USE DEF GateTyped, DriverState
<1>1. ASSUME Replay!Prompted, driver # "done", Replay!RootEnds(Replay!NextStage)
      PROVE  GateTyped'
  BY <1>1 DEF Replay!RootEnds, Replay!Deviates, Replay!Mishap, Replay!agentVars,
      Replay!gateVars, Replay!driverUnchanged, Replay!Prompted, Replay!Log
<1>2. ASSUME Replay!Prompted, driver # "done", Replay!RootStarts
      PROVE  GateTyped'
  BY <1>2 DEF Replay!RootStarts, Replay!agentVars, Replay!gateVars, Replay!driverUnchanged,
      Replay!Prompted, Replay!Log
<1>3. ASSUME NEW c \in Replay!Child, Replay!Prompted, driver # "done", Replay!EndTurn(c)
      PROVE  GateTyped'
  BY <1>3 DEF Replay!EndTurn, Replay!Deviates, Replay!Mishap, Replay!agentVars, Replay!gateVars,
      Replay!driverUnchanged, Replay!Prompted, Replay!Log
<1>4. ASSUME NEW c \in Replay!Child, Replay!Prompted, driver # "done", Replay!Settled(c)
      PROVE  GateTyped'
  BY <1>4 DEF Replay!Settled, Replay!agentVars, Replay!gateVars, Replay!driverUnchanged,
      Replay!Prompted, Replay!Log
<1>5. ASSUME NEW c \in Replay!Child, NEW k \in {"coder", "worker", "reviewer"}, NEW w \in
             BOOLEAN, Replay!Prompted, driver # "done", Replay!Dispatch(c, k, w, Replay!NextStage)
      PROVE  GateTyped'
  BY <1>5 DEF Replay!Dispatch, Replay!agentVars, Replay!gateVars, Replay!driverUnchanged,
      Replay!Prompted
<1>6. ASSUME NEW s \in Replay!Session, Replay!Working(s), NEW x \in Replay!Stage,
             Replay!RoleFor(x) = Replay!Role(s), Replay!Prompted, driver # "done", Replay!Call(s, x,
             Replay!NextStage)
      PROVE  GateTyped'
  BY <1>6 DEF Replay!Call, Replay!agentVars, Replay!gateVars, Replay!driverUnchanged,
      Replay!Prompted, Replay!Log
<1>7. ASSUME NEW s \in Replay!Session, Replay!Working(s), NEW x \in Replay!Stage,
             Replay!RoleFor(x) = Replay!Role(s), Replay!Prompted, driver # "done", Replay!Ask(s, x)
      PROVE  GateTyped'
  BY <1>7 DEF Replay!Ask, Replay!agentVars, Replay!gateVars, Replay!driverUnchanged,
      Replay!Prompted, Replay!Log
<1>8. ASSUME NEW s \in Replay!Session, Replay!Working(s), NEW x \in Replay!Stage,
             Replay!RoleFor(x) = Replay!Role(s), Replay!Prompted, driver # "done", Replay!Return(s, x)
      PROVE  GateTyped'
  BY <1>8 DEF Replay!Return, Replay!agentVars, Replay!gateVars, Replay!driverUnchanged,
      Replay!Prompted, Replay!Log
<1>9. ASSUME driver # "done", NEW r \in {1, 2}, Replay!RunEnds(r)
      PROVE  GateTyped'
  BY <1>9 DEF Replay!RunEnds, Replay!Mishap, Replay!agentVars, Replay!gateVars,
      Replay!driverUnchanged
<1>10. ASSUME driver # "done", Replay!ServerDies
      PROVE  GateTyped'
  BY <1>10 DEF Replay!ServerDies, Replay!Mishap, Replay!agentVars, Replay!gateVars,
      Replay!driverUnchanged
<1>11. ASSUME driver # "done", Replay!Touch
      PROVE  GateTyped'
  BY <1>11 DEF Replay!Touch, Replay!Mishap, Replay!agentVars, Replay!gateVars,
      Replay!driverUnchanged
<1>12. ASSUME NEW x \in Replay!Approval, NEW s \in Replay!Session, Replay!Role(s) =
             Replay!RoleFor(x), Replay!Authorize(s, x)
      PROVE  GateTyped'
  BY <1>12 DEF Replay!Authorize, Replay!agentVars, Replay!gateVars, Replay!driverUnchanged,
      Replay!Log
<1>13. CASE Replay!Capture
  BY <1>13 DEF Replay!Capture, Replay!Moves, Replay!agentVars, Replay!gateVars,
      Replay!driverUnchanged
<1>14. CASE Replay!Prepare
  BY <1>14 DEF Replay!Prepare, Replay!Moves, Replay!agentVars, Replay!gateVars,
      Replay!driverUnchanged
<1>15. CASE Replay!Prompt
  BY <1>15 DEF Replay!Prompt, Replay!Moves, Replay!agentVars, Replay!gateVars,
      Replay!driverUnchanged, Replay!Log
<1>16. CASE Replay!ReadRoot("chain", "rest")
  BY <1>16 DEF Replay!ReadRoot, Replay!Moves, Replay!agentVars, Replay!gateVars,
      Replay!driverUnchanged
<1>17. CASE Replay!ReadRoot("final", "final-rest")
  BY <1>17 DEF Replay!ReadRoot, Replay!Moves, Replay!agentVars, Replay!gateVars,
      Replay!driverUnchanged
<1>18. CASE Replay!ReadRest
  BY <1>18 DEF Replay!ReadRest, Replay!agentVars, Replay!gateVars, Replay!driverUnchanged,
      EndRecord
<1>19. CASE Replay!GivesUp
  BY <1>19 DEF Replay!GivesUp, Replay!agentVars, Replay!gateVars, Replay!driverUnchanged,
      EndRecord
<1>20. CASE Replay!StopServer
  BY <1>20 DEF Replay!StopServer, Replay!Moves, Replay!Mishap, Replay!agentVars,
      Replay!gateVars, Replay!driverUnchanged, EndRecord
<1>21. CASE Replay!CleanUpRuns
  <2>1. PICK n \in Nat : end' = [end EXCEPT !.errors = end.errors + n]
    BY <1>21, CleanedUp
  <2>2. end' \in EndRecord
    BY <2>1 DEF EndRecord
  <2>3. QED BY <1>21, <2>2 DEF Replay!CleanUpRuns, Replay!Moves
<1>22. CASE Replay!Compare
  BY <1>22 DEF Replay!Compare, Replay!Moves, Replay!agentVars, Replay!gateVars,
      Replay!driverUnchanged, EndRecord
<1>23. CASE Replay!Judges
  BY <1>23 DEF Replay!Judges, Replay!Moves, Replay!agentVars, Replay!gateVars,
      Replay!driverUnchanged, EndRecord
<1>24. CASE driver # "done" /\ Replay!Agents
  BY <1>24, <1>1, <1>2, <1>3, <1>4, <1>5, <1>6, <1>7, <1>8 DEF Replay!Agents
<1>25. QED BY <1>24, <1>9, <1>10, <1>11, <1>12, <1>13, <1>14, <1>15, <1>16, <1>17, <1>18, <1>19,
    <1>20, <1>21, <1>22, <1>23 DEF Replay!Next, Replay!Driver, Replay!World

(* Once a gate has no clean-up error, nothing it left behind comes back.   *)
LEMMA CleanStep == GateTyped /\ TeamTyped /\ CleanInv /\ Replay!Next => CleanInv'
<1> SUFFICES ASSUME GateTyped /\ TeamTyped /\ CleanInv, Replay!Next PROVE CleanInv'
  OBVIOUS
<1> USE DEF CleanInv, GateTyped
<1>1. ASSUME Replay!Prompted, driver # "done", Replay!RootEnds(Replay!NextStage)
      PROVE  CleanInv'
  BY <1>1 DEF Replay!RootEnds, Replay!Deviates, Replay!Mishap, Replay!agentVars,
      Replay!gateVars, Replay!driverUnchanged, Replay!Prompted, Replay!Log
<1>2. ASSUME Replay!Prompted, driver # "done", Replay!RootStarts
      PROVE  CleanInv'
  BY <1>2 DEF Replay!RootStarts, Replay!agentVars, Replay!gateVars, Replay!driverUnchanged,
      Replay!Prompted, Replay!Log
<1>3. ASSUME NEW c \in Replay!Child, Replay!Prompted, driver # "done", Replay!EndTurn(c)
      PROVE  CleanInv'
  BY <1>3 DEF Replay!EndTurn, Replay!Deviates, Replay!Mishap, Replay!agentVars, Replay!gateVars,
      Replay!driverUnchanged, Replay!Prompted, Replay!Log
<1>4. ASSUME NEW c \in Replay!Child, Replay!Prompted, driver # "done", Replay!Settled(c)
      PROVE  CleanInv'
  BY <1>4 DEF Replay!Settled, Replay!agentVars, Replay!gateVars, Replay!driverUnchanged,
      Replay!Prompted, Replay!Log
<1>5. ASSUME NEW c \in Replay!Child, NEW k \in {"coder", "worker", "reviewer"}, NEW w \in
             BOOLEAN, Replay!Prompted, driver # "done", Replay!Dispatch(c, k, w, Replay!NextStage)
      PROVE  CleanInv'
  BY <1>5 DEF Replay!Dispatch, Replay!agentVars, Replay!gateVars, Replay!driverUnchanged,
      Replay!Prompted
<1>6. ASSUME NEW s \in Replay!Session, Replay!Working(s), NEW x \in Replay!Stage,
             Replay!RoleFor(x) = Replay!Role(s), Replay!Prompted, driver # "done", Replay!Call(s, x,
             Replay!NextStage)
      PROVE  CleanInv'
  BY <1>6 DEF Replay!Call, Replay!agentVars, Replay!gateVars, Replay!driverUnchanged,
      Replay!Prompted, Replay!Log
<1>7. ASSUME NEW s \in Replay!Session, Replay!Working(s), NEW x \in Replay!Stage,
             Replay!RoleFor(x) = Replay!Role(s), Replay!Prompted, driver # "done", Replay!Ask(s, x)
      PROVE  CleanInv'
  BY <1>7 DEF Replay!Ask, Replay!agentVars, Replay!gateVars, Replay!driverUnchanged,
      Replay!Prompted, Replay!Log
<1>8. ASSUME NEW s \in Replay!Session, Replay!Working(s), NEW x \in Replay!Stage,
             Replay!RoleFor(x) = Replay!Role(s), Replay!Prompted, driver # "done", Replay!Return(s, x)
      PROVE  CleanInv'
  BY <1>8 DEF Replay!Return, Replay!agentVars, Replay!gateVars, Replay!driverUnchanged,
      Replay!Prompted, Replay!Log
<1>9. ASSUME driver # "done", NEW r \in {1, 2}, Replay!RunEnds(r)
      PROVE  CleanInv'
  BY <1>9 DEF Replay!RunEnds, Replay!Mishap, Replay!agentVars, Replay!gateVars,
      Replay!driverUnchanged
<1>10. ASSUME driver # "done", Replay!ServerDies
      PROVE  CleanInv'
  BY <1>10 DEF Replay!ServerDies, Replay!Mishap, Replay!agentVars, Replay!gateVars,
      Replay!driverUnchanged
<1>11. ASSUME driver # "done", Replay!Touch
      PROVE  CleanInv'
  BY <1>11 DEF Replay!Touch, Replay!Mishap, Replay!agentVars, Replay!gateVars,
      Replay!driverUnchanged
<1>12. ASSUME NEW x \in Replay!Approval, NEW s \in Replay!Session, Replay!Role(s) =
             Replay!RoleFor(x), Replay!Authorize(s, x)
      PROVE  CleanInv'
  BY <1>12 DEF Replay!Authorize, Replay!agentVars, Replay!gateVars, Replay!driverUnchanged,
      Replay!Log
<1>13. CASE Replay!Capture
  BY <1>13 DEF Replay!Capture, Replay!Moves, Replay!agentVars, Replay!gateVars,
      Replay!driverUnchanged
<1>14. CASE Replay!Prepare
  BY <1>14 DEF Replay!Prepare, Replay!Moves, Replay!agentVars, Replay!gateVars,
      Replay!driverUnchanged
<1>15. CASE Replay!Prompt
  BY <1>15 DEF Replay!Prompt, Replay!Moves, Replay!agentVars, Replay!gateVars,
      Replay!driverUnchanged, Replay!Log
<1>16. CASE Replay!ReadRoot("chain", "rest")
  BY <1>16 DEF Replay!ReadRoot, Replay!Moves, Replay!agentVars, Replay!gateVars,
      Replay!driverUnchanged
<1>17. CASE Replay!ReadRoot("final", "final-rest")
  BY <1>17 DEF Replay!ReadRoot, Replay!Moves, Replay!agentVars, Replay!gateVars,
      Replay!driverUnchanged
<1>18. CASE Replay!ReadRest
  BY <1>18 DEF Replay!ReadRest, Replay!agentVars, Replay!gateVars, Replay!driverUnchanged,
      EndRecord
<1>19. CASE Replay!GivesUp
  BY <1>19 DEF Replay!GivesUp, Replay!agentVars, Replay!gateVars, Replay!driverUnchanged,
      EndRecord
<1>20. CASE Replay!StopServer
  BY <1>20 DEF Replay!StopServer, Replay!Moves, Replay!Mishap, Replay!agentVars,
      Replay!gateVars, Replay!driverUnchanged, EndRecord
<1>21. CASE Replay!CleanUpRuns
  <2>1. PICK n \in Nat : /\ end' = [end EXCEPT !.errors = end.errors + n]
                         /\ n = 0 => server # "up" /\ \A r \in {1, 2} : runs'[r] # "live"
    BY <1>21, CleanedUp
  <2>2. driver' = "after" /\ server' = server /\ driver = "discover"
    BY <1>21 DEF Replay!CleanUpRuns, Replay!Moves
  <2>3. end.errors \in Nat /\ end'.errors = end.errors + n /\ end'.verdict = end.verdict
    <3>1. end \in EndRecord
      OBVIOUS
    <3>2. [end EXCEPT !.errors = end.errors + n].errors = end.errors + n
          /\ [end EXCEPT !.errors = end.errors + n].verdict = end.verdict /\ end.errors \in Nat
      BY <3>1, ErrorsAdded
    <3>3. end' = [end EXCEPT !.errors = end.errors + n]
      BY <2>1
    <3>4. QED BY <3>2, <3>3
  <2>4. end'.errors = 0 => n = 0
    BY <2>3
  <2>5. ASSUME end'.errors = 0 PROVE server' # "up" /\ \A r \in {1, 2} : (runs[r] # "live")'
    <3>1. server # "up" /\ \A r \in {1, 2} : runs'[r] # "live"
      BY <2>1, <2>4, <2>5
    <3>2. QED BY <2>2, <3>1
  <2>6. end'.verdict = "none"
    BY <2>2, <2>3
  <2>7. QED BY <2>2, <2>5, <2>6
<1>22. CASE Replay!Compare
  <2>1. /\ driver = "after" /\ driver' = "judge" /\ server' = server /\ runs' = runs /\ touched' = touched
        /\ end' = IF Replay!Preserved THEN end ELSE [end EXCEPT !.errors = end.errors + 1]
    BY <1>22 DEF Replay!Compare, Replay!Moves, Replay!driverUnchanged
  <2>2. CASE Replay!Preserved
    BY <2>1, <2>2 DEF Replay!Preserved, Replay!Exited
  <2>3. CASE ~Replay!Preserved
    <3>1. end'.errors = end.errors + 1 /\ end'.verdict = end.verdict /\ end.errors \in Nat
      BY <2>1, <2>3 DEF EndRecord
    <3>2. QED BY <2>1, <3>1
  <2>4. QED BY <2>2, <2>3
<1>23. CASE Replay!Judges
  BY <1>23 DEF Replay!Judges, Replay!Moves, Replay!agentVars, Replay!gateVars,
      Replay!driverUnchanged, EndRecord
<1>24. CASE driver # "done" /\ Replay!Agents
  BY <1>24, <1>1, <1>2, <1>3, <1>4, <1>5, <1>6, <1>7, <1>8 DEF Replay!Agents
<1>25. QED BY <1>24, <1>9, <1>10, <1>11, <1>12, <1>13, <1>14, <1>15, <1>16, <1>17, <1>18, <1>19,
    <1>20, <1>21, <1>22, <1>23 DEF Replay!Next, Replay!Driver, Replay!World

(* A result is in the log of the session it is looked for in.               *)
LEMMA HomeOf ==
  ASSUME trace \in Seq(Entry), NEW x, Replay!Done(x)
  PROVE  /\ Replay!Home(x) \in Replay!Session
         /\ \E i \in DOMAIN trace : trace[i] = <<Replay!Home(x), "done", x>>
<1>1. PICK i \in DOMAIN trace : trace[i][2] = "done" /\ trace[i][3] = x
  BY DEF Replay!Done, Replay!Ever
<1>2. trace[i][1] \in Replay!Session /\ trace[i] = <<trace[i][1], "done", x>>
  BY <1>1, EntryOf
<1>3. \E s \in Replay!Session : Replay!Logged(s, "done", x)
  BY <1>2 DEF Replay!Logged
<1>4. Replay!Home(x) \in Replay!Session /\ Replay!Logged(Replay!Home(x), "done", x)
  BY <1>3 DEF Replay!Home
<1>5. QED BY <1>4 DEF Replay!Logged

(* A stage that is done has its result in one place.                       *)
LEMMA ResultAt ==
  ASSUME trace \in Seq(Entry), NEW x, Replay!Done(x)
  PROVE  /\ Replay!ResultOf(x) \in DOMAIN trace
         /\ trace[Replay!ResultOf(x)] = <<Replay!Home(x), "done", x>>
         /\ Replay!DoneAt(x) \in Nat /\ Replay!DoneAt(x) <= Replay!ResultOf(x)
<1> DEFINE h == Replay!Home(x)
           l == Replay!Latest(Replay!At(h, "done", x))
           S == Replay!All("done", x)
<1>1. PICK i \in DOMAIN trace : trace[i] = <<h, "done", x>>
  BY HomeOf
<1>2. /\ l \in 0..Len(trace) /\ Len(trace) \in Nat /\ (l > 0 => l \in DOMAIN trace /\ trace[l] = <<h, "done", x>>)
      /\ \A j \in DOMAIN trace : trace[j] = <<h, "done", x>> => j <= l
  <2> HIDE DEF h
  <2>1. QED BY LatestAt
<1> HIDE DEF h, l
<1>3. DOMAIN trace = 1..Len(trace)
  BY LenProperties
<1>4. l \in DOMAIN trace /\ trace[l] = <<h, "done", x>>
  BY <1>1, <1>2, <1>3
<1>5. l \in S /\ S \in SUBSET (1..Len(trace))
  BY <1>3, <1>4 DEF Replay!All
<1>6. Replay!First(S) \in S /\ \A j \in S : Replay!First(S) <= j
  <2> HIDE DEF S
  <2>1. S # {}
    BY <1>5
  <2>2. QED BY <1>2, <1>5, <2>1, FirstOf
<1>7. Replay!ResultOf(x) = l /\ Replay!DoneAt(x) = Replay!First(S)
  BY DEF Replay!ResultOf, Replay!DoneAt, l, h
<1>8. Replay!First(S) \in Nat
  BY <1>5, <1>6
<1>9. QED BY <1>4, <1>5, <1>6, <1>7, <1>8 DEF h

(* A decision that was approved is given before the result it is for.        *)
LEMMA AllowedBefore ==
  ASSUME trace \in Seq(Entry), NEW R, Ordered(trace, R), NEW x, Replay!Approved(x), Replay!Done(x),
         NEW j \in DOMAIN trace, trace[j][2] = "allowed", trace[j][3] = x
  PROVE  /\ trace[j][1] = Replay!Home(x) /\ j < Replay!ResultOf(x)
         /\ Replay!All("allowed", x) = {j}
<1> DEFINE h == Replay!Home(x)
           S == Replay!At(h, "allowed", x)
<1>1. Replay!Cardinality(S) = 1 /\ Replay!Latest(S) < Replay!ResultOf(x)
  BY DEF Replay!Approved
<1>2. /\ Len(trace) \in Nat /\ DOMAIN trace = 1..Len(trace) /\ S \in SUBSET (1..Len(trace))
      /\ \A i \in DOMAIN trace : i \in S <=> trace[i] = <<h, "allowed", x>>
  <2> HIDE DEF h
  <2>1. QED BY AtOf
<1> HIDE DEF S, h
<1>3. PICK k \in S : TRUE
  <2>1. CASE S = {}
    <3>1. Cardinality(S) = 0
      BY <2>1, FS_EmptySet
    <3>2. QED BY <1>1, <3>1, Counted
  <2>2. QED BY <2>1
<1>4. k \in DOMAIN trace /\ trace[k] = <<h, "allowed", x>>
  BY <1>2, <1>3
<1>5. k = j
  BY <1>4 DEF Ordered
<1>6. j <= Replay!Latest(S) /\ Replay!Latest(S) \in Nat
  BY <1>2, <1>3, <1>5, LatestOf
<1>7. Replay!ResultOf(x) \in Nat
  BY <1>2, ResultAt
<1>8. Replay!All("allowed", x) = {j}
  BY DEF Ordered, Replay!All
<1>9. QED BY <1>1, <1>2, <1>4, <1>5, <1>6, <1>7, <1>8 DEF h

(* What the evidence says of every child: it did nothing after the notice of   *)
(* its end, and nothing before it was started.                             *)
LEMMA NoticeLast ==
  ASSUME trace \in Seq(Entry), NEW R, Ordered(trace, R), NEW c \in Replay!Child,
         Replay!Notice(c) > 0, Replay!Complete(c, Len(trace)),
         \A x \in Replay!Approval : Replay!Approved(x) /\ Replay!Done(x),
         NEW j \in DOMAIN trace, trace[j][1] = c
  PROVE  Replay!Notice(c) \in Nat /\ j < Replay!Notice(c)
<1> DEFINE z == Replay!Latest(Replay!At(c, "end", c))
           S == {i \in Replay!At(0, "settled", c) : i > z}
<1>0. Len(trace) \in Nat /\ DOMAIN trace = 1..Len(trace) /\ c # 0
  BY LenProperties DEF Replay!Child
<1>1. /\ z \in 0..Len(trace) /\ (z > 0 => z \in DOMAIN trace /\ trace[z] = <<c, "end", c>>)
      /\ \A i \in DOMAIN trace : trace[i] = <<c, "end", c>> => i <= z
  BY LatestAt
<1>2. Replay!At(0, "settled", c) \in SUBSET (1..Len(trace))
  BY AtOf
<1>3. Replay!Notice(c) = Replay!Latest(S)
  BY DEF Replay!Notice
<1> HIDE DEF z
<1>4. Replay!Latest(S) \in 0..Len(trace) /\ (Replay!Latest(S) > 0 => Replay!Latest(S) \in S)
  <2>1. S \in SUBSET (1..Len(trace))
    BY <1>2
  <2> HIDE DEF S
  <2>2. QED BY <1>0, <2>1, LatestOf
<1>5. Replay!Notice(c) \in Nat /\ Replay!Notice(c) > z
  <2>1. Replay!Latest(S) \in S
    BY <1>3, <1>4
  <2>2. QED BY <1>3, <1>4, <2>1
<1>6. z > 0
  <2> DEFINE U == Replay!Until(Replay!At(c, "end", c), Len(trace))
             V == Replay!Until(Replay!At(c, "start", c), Len(trace))
  <2>1. U \in SUBSET (1..Len(trace)) /\ V \in SUBSET (1..Len(trace))
    BY AtOf DEF Replay!Until
  <2>2. Replay!Latest(U) > Replay!Latest(V)
    BY DEF Replay!Complete
  <2>3. \A i \in U : i \in DOMAIN trace /\ trace[i] = <<c, "end", c>>
    BY <1>0, AtOf DEF Replay!Until
  <2> HIDE DEF U, V
  <2>4. Replay!Latest(V) \in Nat /\ Replay!Latest(U) \in Nat /\ (Replay!Latest(U) > 0 => Replay!Latest(U) \in U)
    BY <1>0, <2>1, LatestOf
  <2>5. Replay!Latest(U) \in U
    BY <2>2, <2>4
  <2>6. QED BY <1>0, <1>1, <2>3, <2>5
<1>7. z \in DOMAIN trace /\ trace[z] = <<c, "end", c>>
  BY <1>1, <1>6
<1>8. \A k \in DOMAIN trace : trace[k][1] = c /\ trace[k][2] # "allowed" => k <= z
  BY <1>0, <1>7 DEF Ordered
<1>9. CASE trace[j][2] # "allowed"
  BY <1>0, <1>1, <1>5, <1>8, <1>9
<1>10. CASE trace[j][2] = "allowed"
  <2>1. trace[j][3] \in Replay!Approval
    BY <1>10 DEF Ordered
  <2>2. PICK x \in Replay!Approval : trace[j][3] = x
    BY <2>1
  <2>3. Replay!Approved(x) /\ Replay!Done(x)
    BY <2>2
  <2>4. trace[j][1] = Replay!Home(x) /\ j < Replay!ResultOf(x)
    BY <1>10, <2>2, <2>3, AllowedBefore
  <2>5. Replay!ResultOf(x) \in DOMAIN trace /\ trace[Replay!ResultOf(x)] = <<c, "done", x>>
    BY <2>3, <2>4, ResultAt
  <2>6. Replay!ResultOf(x) <= z
    BY <1>8, <2>5
  <2>7. QED BY <1>0, <1>1, <1>5, <2>4, <2>5, <2>6
<1>11. QED BY <1>9, <1>10

(* What a child has done it has done after it was started.                 *)
LEMMA DispatchFirst ==
  ASSUME trace \in Seq(Entry), NEW R, Ordered(trace, R), NEW d \in Replay!Child,
         NEW n \in Nat, n < Replay!DispatchOf(d), NEW i \in DOMAIN trace, trace[i][1] = d
  PROVE  Replay!First(Replay!Deeds(d)) \in Nat /\ n < Replay!First(Replay!Deeds(d))
<1> DEFINE l == Replay!DispatchOf(d)
           S == Replay!Deeds(d)
<1>1. l \in Nat /\ (l > 0 => l \in DOMAIN trace /\ trace[l] = <<0, "dispatch", d>>)
  <2>1. l = Replay!Latest(Replay!At(0, "dispatch", d))
    BY DEF Replay!DispatchOf
  <2>2. QED BY <2>1, LatestAt
<1>2. S \in SUBSET (1..Len(trace)) /\ Len(trace) \in Nat /\ S # {} /\ \A k \in S : k \in DOMAIN trace /\ trace[k][1] = d
  BY LenProperties DEF Replay!Deeds
<1> HIDE DEF S, l
<1>3. Replay!First(S) \in S
  BY <1>2, FirstOf
<1>4. l \in DOMAIN trace /\ trace[l] = <<0, "dispatch", d>>
  BY <1>1 DEF l
<1>5. Replay!First(S) \in Nat /\ Replay!First(S) \in DOMAIN trace /\ trace[Replay!First(S)][1] = d
  <2> DEFINE f == Replay!First(S)
  <2>1. f \in S
    BY <1>3
  <2> HIDE DEF f
  <2>2. f \in 1..Len(trace) /\ f \in DOMAIN trace /\ trace[f][1] = d
    BY <1>2, <2>1
  <2>3. QED BY <1>2, <2>2 DEF f
<1>6. l < Replay!First(S)
  BY <1>4, <1>5 DEF Ordered
<1>7. n < l
  BY DEF l
<1>8. QED BY <1>1, <1>5, <1>6, <1>7 DEF S

(* One stage after another, as the evidence compares them.                  *)
LEMMA PairInOrder ==
  ASSUME trace \in Seq(Entry), Ordered(trace, Team), Replay!Whole, Replay!Bound,
         \A x \in Replay!Approval : Replay!Approved(x) /\ Replay!Done(x),
         NEW x \in Replay!Stage, NEW y \in Replay!Stage, Replay!Done(x), Replay!Done(y), Replay!Before(x, y)
  PROVE  /\ Replay!DoneAt(x) < Replay!CallOf(y)
         /\ Replay!Home(x) \notin {0, Replay!Home(y)} =>
              \A j \in Replay!Deeds(Replay!Home(x)) :
                j < IF Replay!Home(y) = 0 THEN Replay!CallOf(y)
                    ELSE Replay!First(Replay!Deeds(Replay!Home(y)))
<1> DEFINE c == Replay!Home(x)
           d == Replay!Home(y)
<1>1. Replay!ResultOf(x) < Replay!CallOf(y)
  BY DEF Replay!Before
<1>2. Replay!CallOf(y) \in Nat
  <2> DEFINE S == {i \in Replay!At(d, "call", y) : i < Replay!Latest(Replay!At(d, "done", y))}
  <2>1. Len(trace) \in Nat /\ S \in SUBSET (1..Len(trace))
    BY AtOf
  <2>2. Replay!CallOf(y) = Replay!Latest(S)
    BY DEF Replay!CallOf
  <2> HIDE DEF S
  <2>3. QED BY <2>1, <2>2, LatestOf
<1>3. /\ Replay!ResultOf(x) \in DOMAIN trace /\ trace[Replay!ResultOf(x)] = <<c, "done", x>>
      /\ Replay!DoneAt(x) \in Nat /\ Replay!DoneAt(x) <= Replay!ResultOf(x)
  BY ResultAt
<1>4. Replay!ResultOf(y) \in DOMAIN trace /\ trace[Replay!ResultOf(y)] = <<d, "done", y>>
  BY ResultAt
<1>5. DOMAIN trace = 1..Len(trace) /\ Len(trace) \in Nat
  BY LenProperties
<1>6. Replay!DoneAt(x) < Replay!CallOf(y)
  BY <1>1, <1>2, <1>3, <1>5
<1>7. c \in Team \cup {0} /\ d \in Team \cup {0}
  BY <1>3, <1>4 DEF Ordered
<1>8. ASSUME c # 0, c # d, NEW j \in Replay!Deeds(c)
      PROVE  j < IF d = 0 THEN Replay!CallOf(y) ELSE Replay!First(Replay!Deeds(d))
  <2>1. c \in Replay!Child /\ Replay!Started(c)
    BY <1>7, <1>8 DEF Team, Replay!Started
  <2>2. Replay!Notice(c) > 0 /\ Replay!Complete(c, Len(trace))
    BY <2>1 DEF Replay!Bound, Replay!Whole, Replay!Session, Replay!Child
  <2>3. j \in DOMAIN trace /\ trace[j][1] = c
    BY <1>8 DEF Replay!Deeds
  <2> HIDE DEF c, d
  <2>4. Replay!Notice(c) \in Nat /\ j < Replay!Notice(c)
    BY <2>1, <2>2, <2>3, NoticeLast
  <2>5. CASE d = 0
    <3>1. Replay!Notice(c) < Replay!CallOf(y)
      BY <1>8, <2>5 DEF Replay!Before, c, d
    <3>2. j \in Nat
      BY <1>5, <2>3
    <3>3. QED BY <1>2, <2>4, <2>5, <3>1, <3>2
  <2>6. CASE d # 0
    <3>1. Replay!Notice(c) < Replay!DispatchOf(d)
      BY <1>8, <2>6 DEF Replay!Before, c, d
    <3>2. d \in Replay!Child
      BY <1>7, <2>6 DEF Team
    <3>3. trace[Replay!ResultOf(y)][1] = d
      BY <1>4
    <3>4. /\ Replay!First(Replay!Deeds(d)) \in Nat
          /\ Replay!Notice(c) < Replay!First(Replay!Deeds(d))
      BY <1>4, <2>4, <3>1, <3>2, <3>3, DispatchFirst
    <3>5. j \in Nat
      BY <1>5, <2>3
    <3>6. QED BY <2>4, <2>6, <3>4, <3>5
  <2>7. QED BY <2>5, <2>6
<1>9. QED BY <1>6, <1>8

(* The chain is thirteen of the stages.                                    *)
LEMMA ChainSet ==
  /\ DOMAIN Replay!Chain = 1..13 /\ Len(Replay!Chain) = 13
  /\ {Replay!Chain[i] : i \in 1..13}
       = {"task", "base", "create", "change", "run1", "collect1", "candidate", "run2", "collect2",
          "verify", "generate", "validate", "submit"}
<1> DEFINE S == {"task", "base", "create", "change", "run1", "collect1", "candidate", "run2", "collect2",
                 "verify", "generate", "validate", "submit"}
<1>1. DOMAIN Replay!Chain = 1..13 /\ Len(Replay!Chain) = 13
  BY DEF Replay!Chain
<1>2. \A i \in 1..13 : Replay!Chain[i] \in S
  BY DEF Replay!Chain
<1>3. \A x \in S : \E i \in 1..13 : Replay!Chain[i] = x
  <2>1. /\ Replay!Chain[1] = "task" /\ Replay!Chain[2] = "base" /\ Replay!Chain[3] = "create"
        /\ Replay!Chain[4] = "change" /\ Replay!Chain[5] = "run1" /\ Replay!Chain[6] = "collect1"
        /\ Replay!Chain[7] = "candidate" /\ Replay!Chain[8] = "run2" /\ Replay!Chain[9] = "collect2"
        /\ Replay!Chain[10] = "verify" /\ Replay!Chain[11] = "generate" /\ Replay!Chain[12] = "validate"
        /\ Replay!Chain[13] = "submit"
    BY DEF Replay!Chain
  <2>2. QED BY <2>1
<1>4. QED BY <1>1, <1>2, <1>3

(* What the logs have to show is what a PASS says.                          *)
LEMMA EvidenceMeans ==
  ASSUME trace \in Seq(Entry), Ordered(trace, Team), Replay!ReplayEvidence
  PROVE  /\ \A x \in Replay!Stage : Replay!Done(x)
         /\ \A i \in 1..(Len(Replay!Chain) - 1) :
              LET x == Replay!Chain[i]
                  y == Replay!Chain[i + 1]
                  begun == IF Replay!Home(y) = 0 THEN Replay!CallOf(y)
                           ELSE Replay!First(Replay!Deeds(Replay!Home(y)))
              IN /\ Replay!DoneAt(x) < Replay!CallOf(y)
                 /\ Replay!Home(x) \notin {0, Replay!Home(y)} =>
                      \A j \in Replay!Deeds(Replay!Home(x)) : j < begun
         /\ \A r \in {1, 2} : runs[r] = "zero"
         /\ \A x \in Replay!Approval : \E i \in DOMAIN trace :
              /\ Replay!All("allowed", x) = {i}
              /\ Replay!Logged(trace[i][1], "done", IF x = "change" THEN "create" ELSE "validate")
<1>1. /\ Replay!Whole /\ Replay!Bound /\ Replay!Producers /\ Replay!Waited(1) /\ Replay!Waited(2)
      /\ \A i \in 1..(Len(Replay!Chain) - 1) : Replay!Before(Replay!Chain[i], Replay!Chain[i + 1])
      /\ \A x \in Replay!Approval : Replay!Approved(x)
  BY DEF Replay!ReplayEvidence
<1>2. \A i \in 1..13 : Replay!Chain[i] \in Replay!Stage /\ Replay!Done(Replay!Chain[i])
  BY <1>1, ChainSet, StageSet DEF Replay!Producers
<1>3. Replay!Done("wait1") /\ Replay!Done("wait2")
  <2>1. \A s, w : Replay!Logged(s, "done", w) => Replay!Done(w)
    BY DEF Replay!Logged, Replay!Done, Replay!Ever
  <2>2. QED BY <1>1, <2>1 DEF Replay!Waited
<1>4. \A x \in Replay!Stage : Replay!Done(x)
  <2>1. \A x \in {Replay!Chain[i] : i \in 1..13} : Replay!Done(x)
    BY <1>2
  <2>2. QED BY <1>3, <2>1, ChainSet, StageSet
<1>5. \A x \in Replay!Approval : Replay!Approved(x) /\ Replay!Done(x) /\ x \in Replay!Stage
  BY <1>1, <1>4, StageSet DEF Replay!Approval
<1>6. ASSUME NEW i \in 1..(Len(Replay!Chain) - 1)
      PROVE  /\ Replay!DoneAt(Replay!Chain[i]) < Replay!CallOf(Replay!Chain[i + 1])
             /\ Replay!Home(Replay!Chain[i]) \notin {0, Replay!Home(Replay!Chain[i + 1])} =>
                  \A j \in Replay!Deeds(Replay!Home(Replay!Chain[i])) :
                    j < IF Replay!Home(Replay!Chain[i + 1]) = 0 THEN Replay!CallOf(Replay!Chain[i + 1])
                        ELSE Replay!First(Replay!Deeds(Replay!Home(Replay!Chain[i + 1])))
  <2> DEFINE x == Replay!Chain[i]
             y == Replay!Chain[i + 1]
  <2>1. i \in 1..13 /\ i + 1 \in 1..13
    BY ChainSet
  <2>2. x \in Replay!Stage /\ y \in Replay!Stage /\ Replay!Done(x) /\ Replay!Done(y) /\ Replay!Before(x, y)
    BY <1>1, <1>2, <2>1
  <2> HIDE DEF x, y
  <2>3. /\ Replay!DoneAt(x) < Replay!CallOf(y)
        /\ Replay!Home(x) \notin {0, Replay!Home(y)} =>
              \A j \in Replay!Deeds(Replay!Home(x)) :
                j < IF Replay!Home(y) = 0 THEN Replay!CallOf(y)
                    ELSE Replay!First(Replay!Deeds(Replay!Home(y)))
    BY <1>1, <1>5, <2>2, PairInOrder
  <2>4. QED BY <2>3 DEF x, y
<1>7. \A r \in {1, 2} : runs[r] = "zero"
  BY <1>1 DEF Replay!Waited
<1>8. ASSUME NEW x \in Replay!Approval
      PROVE  \E i \in DOMAIN trace :
               /\ Replay!All("allowed", x) = {i}
               /\ Replay!Logged(trace[i][1], "done", IF x = "change" THEN "create" ELSE "validate")
  <2> DEFINE h == Replay!Home(x)
             S == Replay!At(h, "allowed", x)
  <2>1. Replay!Cardinality(S) = 1
    BY <1>5 DEF Replay!Approved
  <2>2. DOMAIN trace = 1..Len(trace) /\ \A i \in S : i \in DOMAIN trace /\ trace[i] = <<h, "allowed", x>>
    BY AtOf DEF Replay!At
  <2> HIDE DEF S, h
  <2>3. PICK k \in S : TRUE
    <3>1. CASE S = {}
      <4>1. Cardinality(S) = 0
        BY <3>1, FS_EmptySet
      <4>2. QED BY <2>1, <4>1, Counted
    <3>2. QED BY <3>1
  <2>4. k \in DOMAIN trace /\ trace[k][2] = "allowed" /\ trace[k][3] = x
    BY <2>2, <2>3
  <2>5. Replay!All("allowed", x) = {k}
    BY <1>5, <2>4, AllowedBefore
  <2>6. \E i \in DOMAIN trace : trace[i] = <<trace[k][1], "done", Material(x)>>
    BY <2>4 DEF Ordered
  <2>7. Replay!Logged(trace[k][1], "done", IF x = "change" THEN "create" ELSE "validate")
    BY <2>6 DEF Replay!Logged, Material
  <2>8. QED BY <2>4, <2>5, <2>7
<1>9. QED BY <1>4, <1>6, <1>7, <1>8

(* A replay that is judged takes no step any more.                         *)
LEMMA DoneRests == Replay!Next => driver # "done"
<1> SUFFICES ASSUME Replay!Next PROVE driver # "done"
  OBVIOUS
<1>1. ASSUME Replay!Prompted, driver # "done", Replay!RootEnds(Replay!NextStage)
      PROVE  driver # "done"
  BY <1>1 DEF Replay!RootEnds, Replay!Deviates, Replay!Mishap, Replay!agentVars,
      Replay!gateVars, Replay!driverUnchanged, Replay!Prompted, Replay!Log
<1>2. ASSUME Replay!Prompted, driver # "done", Replay!RootStarts
      PROVE  driver # "done"
  BY <1>2 DEF Replay!RootStarts, Replay!agentVars, Replay!gateVars, Replay!driverUnchanged,
      Replay!Prompted, Replay!Log
<1>3. ASSUME NEW c \in Replay!Child, Replay!Prompted, driver # "done", Replay!EndTurn(c)
      PROVE  driver # "done"
  BY <1>3 DEF Replay!EndTurn, Replay!Deviates, Replay!Mishap, Replay!agentVars, Replay!gateVars,
      Replay!driverUnchanged, Replay!Prompted, Replay!Log
<1>4. ASSUME NEW c \in Replay!Child, Replay!Prompted, driver # "done", Replay!Settled(c)
      PROVE  driver # "done"
  BY <1>4 DEF Replay!Settled, Replay!agentVars, Replay!gateVars, Replay!driverUnchanged,
      Replay!Prompted, Replay!Log
<1>5. ASSUME NEW c \in Replay!Child, NEW k \in {"coder", "worker", "reviewer"}, NEW w \in
             BOOLEAN, Replay!Prompted, driver # "done", Replay!Dispatch(c, k, w, Replay!NextStage)
      PROVE  driver # "done"
  BY <1>5 DEF Replay!Dispatch, Replay!agentVars, Replay!gateVars, Replay!driverUnchanged,
      Replay!Prompted
<1>6. ASSUME NEW s \in Replay!Session, Replay!Working(s), NEW x \in Replay!Stage,
             Replay!RoleFor(x) = Replay!Role(s), Replay!Prompted, driver # "done", Replay!Call(s, x,
             Replay!NextStage)
      PROVE  driver # "done"
  BY <1>6 DEF Replay!Call, Replay!agentVars, Replay!gateVars, Replay!driverUnchanged,
      Replay!Prompted, Replay!Log
<1>7. ASSUME NEW s \in Replay!Session, Replay!Working(s), NEW x \in Replay!Stage,
             Replay!RoleFor(x) = Replay!Role(s), Replay!Prompted, driver # "done", Replay!Ask(s, x)
      PROVE  driver # "done"
  BY <1>7 DEF Replay!Ask, Replay!agentVars, Replay!gateVars, Replay!driverUnchanged,
      Replay!Prompted, Replay!Log
<1>8. ASSUME NEW s \in Replay!Session, Replay!Working(s), NEW x \in Replay!Stage,
             Replay!RoleFor(x) = Replay!Role(s), Replay!Prompted, driver # "done", Replay!Return(s, x)
      PROVE  driver # "done"
  BY <1>8 DEF Replay!Return, Replay!agentVars, Replay!gateVars, Replay!driverUnchanged,
      Replay!Prompted, Replay!Log
<1>9. ASSUME driver # "done", NEW r \in {1, 2}, Replay!RunEnds(r)
      PROVE  driver # "done"
  BY <1>9 DEF Replay!RunEnds, Replay!Mishap, Replay!agentVars, Replay!gateVars,
      Replay!driverUnchanged
<1>10. ASSUME driver # "done", Replay!ServerDies
      PROVE  driver # "done"
  BY <1>10 DEF Replay!ServerDies, Replay!Mishap, Replay!agentVars, Replay!gateVars,
      Replay!driverUnchanged
<1>11. ASSUME driver # "done", Replay!Touch
      PROVE  driver # "done"
  BY <1>11 DEF Replay!Touch, Replay!Mishap, Replay!agentVars, Replay!gateVars,
      Replay!driverUnchanged
<1>12. ASSUME NEW x \in Replay!Approval, NEW s \in Replay!Session, Replay!Role(s) =
             Replay!RoleFor(x), Replay!Authorize(s, x)
      PROVE  driver # "done"
  BY <1>12 DEF Replay!Authorize, Replay!agentVars, Replay!gateVars, Replay!driverUnchanged,
      Replay!Log
<1>13. CASE Replay!Capture
  BY <1>13 DEF Replay!Capture, Replay!Moves, Replay!agentVars, Replay!gateVars,
      Replay!driverUnchanged
<1>14. CASE Replay!Prepare
  BY <1>14 DEF Replay!Prepare, Replay!Moves, Replay!agentVars, Replay!gateVars,
      Replay!driverUnchanged
<1>15. CASE Replay!Prompt
  BY <1>15 DEF Replay!Prompt, Replay!Moves, Replay!agentVars, Replay!gateVars,
      Replay!driverUnchanged, Replay!Log
<1>16. CASE Replay!ReadRoot("chain", "rest")
  BY <1>16 DEF Replay!ReadRoot, Replay!Moves, Replay!agentVars, Replay!gateVars,
      Replay!driverUnchanged
<1>17. CASE Replay!ReadRoot("final", "final-rest")
  BY <1>17 DEF Replay!ReadRoot, Replay!Moves, Replay!agentVars, Replay!gateVars,
      Replay!driverUnchanged
<1>18. CASE Replay!ReadRest
  BY <1>18 DEF Replay!ReadRest, Replay!agentVars, Replay!gateVars, Replay!driverUnchanged
<1>19. CASE Replay!GivesUp
  BY <1>19 DEF Replay!GivesUp, Replay!agentVars, Replay!gateVars, Replay!driverUnchanged
<1>20. CASE Replay!StopServer
  BY <1>20 DEF Replay!StopServer, Replay!Moves, Replay!Mishap, Replay!agentVars,
      Replay!gateVars, Replay!driverUnchanged
<1>21. CASE Replay!CleanUpRuns
  BY <1>21 DEF Replay!CleanUpRuns, Replay!Moves, Replay!agentVars, Replay!gateVars,
      Replay!driverUnchanged
<1>22. CASE Replay!Compare
  BY <1>22 DEF Replay!Compare, Replay!Moves, Replay!agentVars, Replay!gateVars,
      Replay!driverUnchanged
<1>23. CASE Replay!Judges
  BY <1>23 DEF Replay!Judges, Replay!Moves, Replay!agentVars, Replay!gateVars,
      Replay!driverUnchanged
<1>24. CASE driver # "done" /\ Replay!Agents
  BY <1>24, <1>1, <1>2, <1>3, <1>4, <1>5, <1>6, <1>7, <1>8 DEF Replay!Agents
<1>25. QED BY <1>24, <1>9, <1>10, <1>11, <1>12, <1>13, <1>14, <1>15, <1>16, <1>17, <1>18, <1>19,
    <1>20, <1>21, <1>22, <1>23 DEF Replay!Next, Replay!Driver, Replay!World

(* Only the judge gives a verdict.                                         *)
LEMMA VerdictGiven ==
  GateTyped /\ CleanInv /\ driver # "done" /\ TeamTyped /\ Replay!Next =>
    end'.verdict = "none" \/ Replay!Judges
<1> SUFFICES ASSUME GateTyped /\ CleanInv /\ driver # "done", TeamTyped, Replay!Next
             PROVE  end'.verdict = "none" \/ Replay!Judges
  OBVIOUS
<1> USE DEF GateTyped, CleanInv
<1>1. ASSUME Replay!Prompted, driver # "done", Replay!RootEnds(Replay!NextStage)
      PROVE  end'.verdict = "none" \/ Replay!Judges
  BY <1>1 DEF Replay!RootEnds, Replay!Deviates, Replay!Mishap, Replay!agentVars,
      Replay!gateVars, Replay!driverUnchanged, Replay!Prompted, Replay!Log
<1>2. ASSUME Replay!Prompted, driver # "done", Replay!RootStarts
      PROVE  end'.verdict = "none" \/ Replay!Judges
  BY <1>2 DEF Replay!RootStarts, Replay!agentVars, Replay!gateVars, Replay!driverUnchanged,
      Replay!Prompted, Replay!Log
<1>3. ASSUME NEW c \in Replay!Child, Replay!Prompted, driver # "done", Replay!EndTurn(c)
      PROVE  end'.verdict = "none" \/ Replay!Judges
  BY <1>3 DEF Replay!EndTurn, Replay!Deviates, Replay!Mishap, Replay!agentVars, Replay!gateVars,
      Replay!driverUnchanged, Replay!Prompted, Replay!Log
<1>4. ASSUME NEW c \in Replay!Child, Replay!Prompted, driver # "done", Replay!Settled(c)
      PROVE  end'.verdict = "none" \/ Replay!Judges
  BY <1>4 DEF Replay!Settled, Replay!agentVars, Replay!gateVars, Replay!driverUnchanged,
      Replay!Prompted, Replay!Log
<1>5. ASSUME NEW c \in Replay!Child, NEW k \in {"coder", "worker", "reviewer"}, NEW w \in
             BOOLEAN, Replay!Prompted, driver # "done", Replay!Dispatch(c, k, w, Replay!NextStage)
      PROVE  end'.verdict = "none" \/ Replay!Judges
  BY <1>5 DEF Replay!Dispatch, Replay!agentVars, Replay!gateVars, Replay!driverUnchanged,
      Replay!Prompted
<1>6. ASSUME NEW s \in Replay!Session, Replay!Working(s), NEW x \in Replay!Stage,
             Replay!RoleFor(x) = Replay!Role(s), Replay!Prompted, driver # "done", Replay!Call(s, x,
             Replay!NextStage)
      PROVE  end'.verdict = "none" \/ Replay!Judges
  BY <1>6 DEF Replay!Call, Replay!agentVars, Replay!gateVars, Replay!driverUnchanged,
      Replay!Prompted, Replay!Log
<1>7. ASSUME NEW s \in Replay!Session, Replay!Working(s), NEW x \in Replay!Stage,
             Replay!RoleFor(x) = Replay!Role(s), Replay!Prompted, driver # "done", Replay!Ask(s, x)
      PROVE  end'.verdict = "none" \/ Replay!Judges
  BY <1>7 DEF Replay!Ask, Replay!agentVars, Replay!gateVars, Replay!driverUnchanged,
      Replay!Prompted, Replay!Log
<1>8. ASSUME NEW s \in Replay!Session, Replay!Working(s), NEW x \in Replay!Stage,
             Replay!RoleFor(x) = Replay!Role(s), Replay!Prompted, driver # "done", Replay!Return(s, x)
      PROVE  end'.verdict = "none" \/ Replay!Judges
  BY <1>8 DEF Replay!Return, Replay!agentVars, Replay!gateVars, Replay!driverUnchanged,
      Replay!Prompted, Replay!Log
<1>9. ASSUME driver # "done", NEW r \in {1, 2}, Replay!RunEnds(r)
      PROVE  end'.verdict = "none" \/ Replay!Judges
  BY <1>9 DEF Replay!RunEnds, Replay!Mishap, Replay!agentVars, Replay!gateVars,
      Replay!driverUnchanged
<1>10. ASSUME driver # "done", Replay!ServerDies
      PROVE  end'.verdict = "none" \/ Replay!Judges
  BY <1>10 DEF Replay!ServerDies, Replay!Mishap, Replay!agentVars, Replay!gateVars,
      Replay!driverUnchanged
<1>11. ASSUME driver # "done", Replay!Touch
      PROVE  end'.verdict = "none" \/ Replay!Judges
  BY <1>11 DEF Replay!Touch, Replay!Mishap, Replay!agentVars, Replay!gateVars,
      Replay!driverUnchanged
<1>12. ASSUME NEW x \in Replay!Approval, NEW s \in Replay!Session, Replay!Role(s) =
             Replay!RoleFor(x), Replay!Authorize(s, x)
      PROVE  end'.verdict = "none" \/ Replay!Judges
  BY <1>12 DEF Replay!Authorize, Replay!agentVars, Replay!gateVars, Replay!driverUnchanged,
      Replay!Log
<1>13. CASE Replay!Capture
  BY <1>13 DEF Replay!Capture, Replay!Moves, Replay!agentVars, Replay!gateVars,
      Replay!driverUnchanged
<1>14. CASE Replay!Prepare
  BY <1>14 DEF Replay!Prepare, Replay!Moves, Replay!agentVars, Replay!gateVars,
      Replay!driverUnchanged
<1>15. CASE Replay!Prompt
  BY <1>15 DEF Replay!Prompt, Replay!Moves, Replay!agentVars, Replay!gateVars,
      Replay!driverUnchanged, Replay!Log
<1>16. CASE Replay!ReadRoot("chain", "rest")
  BY <1>16 DEF Replay!ReadRoot, Replay!Moves, Replay!agentVars, Replay!gateVars,
      Replay!driverUnchanged
<1>17. CASE Replay!ReadRoot("final", "final-rest")
  BY <1>17 DEF Replay!ReadRoot, Replay!Moves, Replay!agentVars, Replay!gateVars,
      Replay!driverUnchanged
<1>18. CASE Replay!ReadRest
  BY <1>18 DEF Replay!ReadRest, Replay!agentVars, Replay!gateVars, Replay!driverUnchanged,
      EndRecord
<1>19. CASE Replay!GivesUp
  BY <1>19 DEF Replay!GivesUp, Replay!agentVars, Replay!gateVars, Replay!driverUnchanged,
      EndRecord
<1>20. CASE Replay!StopServer
  BY <1>20 DEF Replay!StopServer, Replay!Moves, Replay!Mishap, Replay!agentVars,
      Replay!gateVars, Replay!driverUnchanged, EndRecord
<1>21. CASE Replay!CleanUpRuns
  <2>1. PICK n \in Nat : end' = [end EXCEPT !.errors = end.errors + n]
    BY <1>21, CleanedUp
  <2>2. QED BY <2>1, ErrorsAdded
<1>22. CASE Replay!Compare
  BY <1>22 DEF Replay!Compare, Replay!Moves, Replay!agentVars, Replay!gateVars,
      Replay!driverUnchanged, EndRecord
<1>23. CASE Replay!Judges
  BY <1>23
<1>24. CASE driver # "done" /\ Replay!Agents
  BY <1>24, <1>1, <1>2, <1>3, <1>4, <1>5, <1>6, <1>7, <1>8 DEF Replay!Agents
<1>25. QED BY <1>24, <1>9, <1>10, <1>11, <1>12, <1>13, <1>14, <1>15, <1>16, <1>17, <1>18, <1>19,
    <1>20, <1>21, <1>22, <1>23 DEF Replay!Next, Replay!Driver, Replay!World

(* What a log says is the same of the same log.                             *)
HomeIn(t, x) == CHOOSE s \in Replay!Session : \E i \in DOMAIN t : t[i] = <<s, "done", x>>

(* What is read from a log that has not changed has not changed.           *)
LEMMA SameLog ==
  ASSUME trace' = trace, NEW x, NEW s
  PROVE  /\ Replay!Home(x)' = Replay!Home(x) /\ Replay!DoneAt(x)' = Replay!DoneAt(x)
         /\ Replay!CallOf(x)' = Replay!CallOf(x) /\ Replay!Deeds(s)' = Replay!Deeds(s)
<1>1. Replay!Home(x) = HomeIn(trace, x)
  BY DEF Replay!Home, Replay!Logged, HomeIn
<1>2. Replay!Home(x)' = HomeIn(trace', x)
  BY DEF Replay!Home, Replay!Logged, HomeIn
<1>3. Replay!Home(x)' = Replay!Home(x)
  BY <1>1, <1>2
<1>4. Replay!All("done", x)' = Replay!All("done", x) /\ Replay!Deeds(s)' = Replay!Deeds(s)
  BY DEF Replay!All, Replay!Deeds
<1>5. Replay!DoneAt(x)' = Replay!DoneAt(x)
  BY <1>4 DEF Replay!DoneAt
<1>6. Replay!CallOf(x)' = Replay!CallOf(x)
  <2> DEFINE C == {i \in DOMAIN trace : trace[i] = <<Replay!Home(x), "call", x>>}
             E == {i \in DOMAIN trace : trace[i] = <<Replay!Home(x), "done", x>>}
             S == {i \in C : i < Replay!Latest(E)}
  <2>1. Replay!CallOf(x) = Replay!Latest(S)
    BY DEF Replay!CallOf, Replay!At
  <2>2. Replay!CallOf(x)' = Replay!Latest(S)'
    BY DEF Replay!CallOf, Replay!At
  <2>3. C' = C /\ E' = E
    BY <1>3
  <2> HIDE DEF C, E
  <2>4. S' = S
    BY <2>3
  <2> HIDE DEF S
  <2>5. QED BY <2>1, <2>2, <2>4
<1>7. QED BY <1>3, <1>4, <1>5, <1>6

(* What a PASS says of the order of the stages, and of the decisions.        *)
StagesInOrder ==
  \A i \in 1..(Len(Replay!Chain) - 1) :
    LET x == Replay!Chain[i]
        y == Replay!Chain[i + 1]
        begun == IF Replay!Home(y) = 0 THEN Replay!CallOf(y)
                 ELSE Replay!First(Replay!Deeds(Replay!Home(y)))
    IN /\ Replay!DoneAt(x) < Replay!CallOf(y)
       /\ Replay!Home(x) \notin {0, Replay!Home(y)} =>
            \A j \in Replay!Deeds(Replay!Home(x)) : j < begun
DecidedOnce ==
  \A x \in Replay!Approval : \E i \in DOMAIN trace :
    /\ Replay!All("allowed", x) = {i}
    /\ Replay!Logged(trace[i][1], "done", IF x = "change" THEN "create" ELSE "validate")
Passed == /\ \A x \in Replay!Stage : Replay!Done(x)
          /\ StagesInOrder /\ (\A r \in {1, 2} : runs[r] = "zero") /\ DecidedOnce

PassInv == end.verdict = "PASS" => Passed /\ server = "dead" /\ ~touched
ReplayInv == GateTyped /\ TeamTyped /\ TraceInv /\ CleanInv /\ PassInv

(* It stays so while nothing is logged and no run moves.                    *)
LEMMA PassedStays == ASSUME Passed, trace' = trace, runs' = runs PROVE Passed'
<1>1. (\A x \in Replay!Stage : Replay!Done(x))'
  BY DEF Passed, Replay!Done, Replay!Ever
<1>2. StagesInOrder'
  <2> SUFFICES ASSUME NEW i \in 1..(Len(Replay!Chain) - 1)
               PROVE  /\ (Replay!DoneAt(Replay!Chain[i]) < Replay!CallOf(Replay!Chain[i + 1]))'
                      /\ (Replay!Home(Replay!Chain[i]) \notin {0, Replay!Home(Replay!Chain[i + 1])} =>
                           \A j \in Replay!Deeds(Replay!Home(Replay!Chain[i])) :
                             j < IF Replay!Home(Replay!Chain[i + 1]) = 0
                                 THEN Replay!CallOf(Replay!Chain[i + 1])
                                 ELSE Replay!First(Replay!Deeds(Replay!Home(Replay!Chain[i + 1]))))'
    BY DEF StagesInOrder
  <2> DEFINE x == Replay!Chain[i]
             y == Replay!Chain[i + 1]
  <2>1. /\ Replay!DoneAt(x) < Replay!CallOf(y)
        /\ Replay!Home(x) \notin {0, Replay!Home(y)} =>
             \A j \in Replay!Deeds(Replay!Home(x)) :
               j < IF Replay!Home(y) = 0 THEN Replay!CallOf(y)
                   ELSE Replay!First(Replay!Deeds(Replay!Home(y)))
    BY DEF Passed, StagesInOrder
  <2> HIDE DEF x, y
  <2>2. /\ Replay!Home(x)' = Replay!Home(x) /\ Replay!DoneAt(x)' = Replay!DoneAt(x)
        /\ Replay!CallOf(y)' = Replay!CallOf(y) /\ Replay!Home(y)' = Replay!Home(y)
    BY SameLog
  <2>3. /\ Replay!Deeds(Replay!Home(x))' = Replay!Deeds(Replay!Home(x))
        /\ Replay!Deeds(Replay!Home(y))' = Replay!Deeds(Replay!Home(y))
    BY <2>2 DEF Replay!Deeds
  <2>4. Replay!First(Replay!Deeds(Replay!Home(y)))' = Replay!First(Replay!Deeds(Replay!Home(y)))
    BY <2>3
  <2>5. /\ (Replay!DoneAt(x) < Replay!CallOf(y))'
        /\ (Replay!Home(x) \notin {0, Replay!Home(y)} =>
             \A j \in Replay!Deeds(Replay!Home(x)) :
               j < IF Replay!Home(y) = 0 THEN Replay!CallOf(y)
                   ELSE Replay!First(Replay!Deeds(Replay!Home(y))))'
    BY <2>1, <2>2, <2>3, <2>4
  <2>6. QED BY <2>5 DEF x, y
<1>3. DecidedOnce'
  BY DEF Passed, DecidedOnce, Replay!All, Replay!Logged
<1>4. QED BY <1>1, <1>2, <1>3 DEF Passed

(* What is kept of a PASS is what it promises.                             *)
LEMMA PassMeans == PassInv => Replay!PassMeansReplay
BY DEF PassInv, Replay!PassMeansReplay, Passed, StagesInOrder, DecidedOnce

(* Once the verdict is given the replay rests, so that what a PASS says stays so. *)
LEMMA PassStep ==
  GateTyped /\ TeamTyped /\ TraceInv /\ CleanInv /\ PassInv /\ Replay!Next => PassInv'
<1> SUFFICES ASSUME GateTyped, TeamTyped, TraceInv, CleanInv, Replay!Next, end'.verdict = "PASS"
             PROVE  (Passed /\ server = "dead" /\ ~touched)'
  BY DEF PassInv
<1>1. Replay!Judges
  BY DoneRests, VerdictGiven
<1>2. /\ driver = "judge" /\ trace' = trace /\ role' = role /\ runs' = runs /\ server' = server
      /\ touched' = touched
  BY <1>1 DEF Replay!Judges, Replay!Moves, Replay!driverUnchanged
<1>3. end.errors = 0 /\ Replay!Exited /\ trace # <<>> /\ Replay!ReplayEvidence
  <2> DEFINE passes == ~end.failed /\ end.errors = 0 /\ Replay!Exited /\ trace # <<>> /\ Replay!ReplayEvidence
  <2>1. end' = [end EXCEPT !.verdict = IF passes THEN "PASS" ELSE "FAIL"]
    BY <1>1 DEF Replay!Judges
  <2> HIDE DEF passes
  <2>2. passes
    BY <2>1 DEF GateTyped, EndRecord
  <2>3. QED BY <2>2 DEF passes
<1>4. server = "dead" /\ ~touched
  BY <1>2, <1>3 DEF CleanInv, TraceInv, GateTyped, Replay!Exited
<1>5. Passed
  BY <1>3, EvidenceMeans DEF TraceInv, Passed, StagesInOrder, DecidedOnce
<1>6. Passed'
  BY <1>2, <1>5, PassedStays
<1>7. QED BY <1>2, <1>4, <1>6

(* The first state of the replay gate has the invariant.                   *)
LEMMA ReplayStart == PartInit => ReplayInv
<1> SUFFICES ASSUME Replay!Init PROVE ReplayInv
  BY DEF PartInit
<1>1. GateTyped
  BY DEF Replay!Init, GateTyped, DriverState, EndRecord
<1>2. TeamTyped
  BY DEF Replay!Init, TeamTyped, Preset, RunState
<1>3. TraceInv
  BY DEF Replay!Init, TraceInv, Ordered
<1>4. CleanInv
  BY DEF Replay!Init, CleanInv
<1>5. PassInv
  BY DEF Replay!Init, PassInv
<1>6. QED BY <1>1, <1>2, <1>3, <1>4, <1>5 DEF ReplayInv

(* Every step of any gate keeps it.                                        *)
LEMMA ReplayStep == ReplayInv /\ [PartNext]_partVars => ReplayInv'
<1>1. CASE Replay!Next
  BY <1>1, GateTypes, TeamTypes, TraceStep, CleanStep, PassStep DEF ReplayInv
<1>2. ASSUME ReplayInv, UNCHANGED replayVars PROVE ReplayInv'
  <2>1. /\ trace' = trace /\ role' = role /\ runs' = runs /\ server' = server /\ touched' = touched
        /\ driver' = driver /\ taken' = taken /\ end' = end
    BY <1>2 DEF replayVars
  <2>2. GateTyped' /\ TeamTyped' /\ TraceInv' /\ CleanInv'
    BY <1>2, <2>1 DEF ReplayInv, GateTyped, TeamTyped, TraceInv, Team, CleanInv
  <2>3. PassInv'
    BY <1>2, <2>1, PassedStays DEF ReplayInv, PassInv
  <2>4. QED BY <2>2, <2>3 DEF ReplayInv
<1>3. QED BY <1>1, <1>2 DEF PartNext, Restarts, Replays, ReadsLog, partVars

(* So it holds of the replay gate, whichever gate this behaviour is about. *)
LEMMA ReplayPart == PartSpec => []ReplayInv
BY ReplayStart, ReplayStep, PTL DEF PartSpec

(* A replay that is judged is judged by what its logs show.                *)
LEMMA ReplayVerdict == ReplayInv => Replay!ReplayTrue
BY PassMeans DEF ReplayInv, CleanInv, Replay!ReplayTrue, Replay!CleanEnd

------------------------------------------------------------------------------

(* VerdictsTrue: a PASS of the restart gate means that the run outlived the first  *)
(* host and ended under the second, which settled and collected it and woke its    *)
(* owner; a PASS of the replay gate that every stage was done after the one before  *)
(* it, by children that did nothing more, and each decision taken once where it    *)
(* belongs; and a verdict without a clean-up error leaves nothing alive              *)
(* (shud-restart.ts, shud-replay.ts).                                      *)
THEOREM VerdictsAreTrue == PartSpec => []VerdictsTrue
<1>1. RestartInv /\ ReplayInv => VerdictsTrue
  BY RestartVerdict, ReplayVerdict DEF VerdictsTrue
<1>2. QED BY <1>1, RestartPart, ReplayPart, PTL
=============================================================================
