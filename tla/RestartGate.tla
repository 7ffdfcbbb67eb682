----------------------------- MODULE RestartGate -----------------------------
(***************************************************************************)
(* One case of the restart acceptance gate (scripts/runtime/shud-restart.ts *)
(* with shud-web-driver.ts and shud-restart-evidence.ts): a driver starts a *)
(* Web host, has it submit one run, ends the host by SIGTERM or SIGKILL,    *)
(* starts a second host on the same state directory, waits until the run is *)
(* collected and its owner told, and judges the evidence it gathered.       *)
(* Whatever happened, it then stops the hosts and the run it can prove to   *)
(* be its own, and writes a verdict.  The hosts are what the gate examines: *)
(* they do what ShudRun describes, they may die, and a fault lets one start *)
(* a second solver, record a wrong exit code or claim a message it never    *)
(* sent.                                                                    *)
(***************************************************************************)
EXTENDS WebDriver, Sequences, SequencesExt

CONSTANTS MaxPolls,     \* bound on the observations of the completion loop
          MaxFaults     \* bound on deaths and faults of the hosts

ASSUME BoundsAssumption == MaxPolls \in Nat \ {0} /\ MaxFaults \in Nat /\ Generation = {1, 2}

VARIABLES
  restartSignal,  \* the signal of this case
  lock,           \* the generation named in the lock file, 0 for none
  log,            \* the canonical log of the owner session
  job,            \* run-job.json
  record,         \* exit code in run-record.json
  index,          \* the state index that lists the run
  dup,            \* the second execution a faulty host started
  by,             \* history: who settled, collected and woke, and when the run ended
  ev,             \* the evidence gathered so far
  faults

hostVars == <<lock, log, job, record, index, dup, by>>
vars == <<groupVars, hostVars, restartSignal, pc, host, owned, ev, outcome, faults>>

JobStatus == {"absent", "created", "running", "succeeded", "failed", "collected"}
Rank(status) == CASE status = "created" -> 0 [] status = "running" -> 2
                  [] status \in {"succeeded", "failed"} -> 3 [] status = "collected" -> 4
                  [] OTHER -> 0

NoJob == [status |-> "absent", pid |-> FALSE, exit |-> "none", dsh |-> 0, notify |-> "pending"]

Trying == {"install", "spawn1", "ready1", "session", "posted", "await", "before", "interrupt",
           "signalled", "offline", "spawn2", "ready2", "restarted", "complete"}
Finishing == {"stop1", "stop2", "runs", "term", "kill", "killed", "verdict", "done"}

TypeOK ==
  /\ GroupTypeOK /\ DriverTypeOK
  /\ restartSignal \in {"SIGTERM", "SIGKILL"}
  /\ pc \in Trying \cup Finishing
  /\ lock \in 0..2
  /\ log \in Seq({"call", "result", "wake", "tool"})
  /\ job \in [status : JobStatus, pid : BOOLEAN, exit : Code \cup {"none"}, dsh : 0..2,
              notify : {"pending", "early", "late"}]
  /\ record \in Code \cup {"none"}
  /\ index \in {"none", "active", "completed"}
  /\ dup \in [start : {"none", "early", "late"}, live : BOOLEAN]
  /\ by \in [settled : 0..2, collected : 0..2, woken : 0..2, ended : 0..2]
  /\ faults \in 0..MaxFaults

Init ==
  /\ GroupInit
  /\ restartSignal \in {"SIGTERM", "SIGKILL"}
  /\ DriverInit("install")
  /\ lock = 0 /\ log = <<>> /\ job = NoJob /\ record = "none" /\ index = "none"
  /\ dup = [start |-> "none", live |-> FALSE]
  /\ by = [settled |-> 0, collected |-> 0, woken |-> 0, ended |-> 0]
  /\ ev = [jobs |-> <<>>, samples |-> <<>>, files |-> <<>>, cut |-> 0, locks |-> <<>>]
  /\ faults = MaxFaults

Serving(g) == host[g].state = "serving" /\ lock = g
-----------------------------------------------------------------------------
(* The hosts under examination.                                            *)

(* StateLock: a booting host waits for nobody; it takes over from the dead. *)
HostServes(g) ==
  /\ host[g].state = "booting"
  /\ \A o \in Generation : lock = o => ~Alive(o)
  /\ lock' = g
  /\ host' = [host EXCEPT ![g].state = "serving"]
  /\ UNCHANGED <<groupVars, log, job, record, index, dup, by, restartSignal, pc, owned, ev, outcome, faults>>

HostEnds(g, end) ==
  /\ Ends(g, end)
  /\ lock' = IF end = "clean" /\ lock = g THEN 0 ELSE lock
  /\ UNCHANGED <<groupVars, log, job, record, index, dup, by, restartSignal, pc, owned, ev, outcome>>

HostObeys(g) ==
  /\ host[g].signal # "none"
  /\ HostEnds(g, IF host[g].signal = "SIGTERM" THEN "clean" ELSE "killed")
  /\ UNCHANGED faults

HostCrashes(g) ==
  /\ faults > 0
  /\ HostEnds(g, "crashed")
  /\ faults' = faults - 1

HostExits(g) ==
  /\ ChildEvent(g)
  /\ UNCHANGED <<groupVars, hostVars, restartSignal, pc, owned, ev, outcome, faults>>

hostUnchanged == <<restartSignal, pc, host, lock, owned, ev, outcome>>
prompted == pc \notin {"install", "spawn1", "ready1", "session"}

(* submitShud, the four durable stages the gate can tell apart.            *)
Admit ==
  /\ Serving(1) /\ prompted /\ log = <<>>
  /\ log' = <<"call">> /\ index' = "active"
  /\ job' = [NoJob EXCEPT !.status = "created"]
  /\ UNCHANGED <<groupVars, record, dup, by, hostUnchanged, faults>>

Launch ==
  /\ Serving(1) /\ job.status = "created"
  /\ Spawn
  /\ UNCHANGED <<hostVars, restartSignal, pc, host, owned, ev, outcome, faults>>

Persist ==
  /\ Serving(1) /\ job.status = "created" /\ leader # "none"
  /\ job' = [job EXCEPT !.status = "running", !.pid = TRUE, !.dsh = 1]
  /\ UNCHANGED <<groupVars, log, record, index, dup, by, hostUnchanged, faults>>

Answer ==
  /\ Serving(1) /\ job.pid /\ log = <<"call">>
  /\ log' = Append(log, "result")
  /\ UNCHANGED <<groupVars, job, record, index, dup, by, hostUnchanged, faults>>

(* R6: the new host registers a running run again.                         *)
Takeover ==
  /\ Serving(2) /\ job.pid /\ job.dsh = 1 /\ job.status # "collected"
  /\ job' = [job EXCEPT !.dsh = 2]
  /\ UNCHANGED <<groupVars, log, record, index, dup, by, hostUnchanged, faults>>

SettleRun(g) ==
  /\ Serving(g) /\ job.status = "running" /\ job.dsh = g /\ exitFile # "none" /\ ~Executing
  /\ job' = [job EXCEPT !.status = IF exitFile = "zero" THEN "succeeded" ELSE "failed",
                        !.exit = exitFile]
  /\ by' = [by EXCEPT !.settled = g]
  /\ UNCHANGED <<groupVars, log, record, index, dup, hostUnchanged, faults>>

CollectRun(g) ==
  /\ Serving(g) /\ job.status \in {"succeeded", "failed"} /\ job.dsh = g
  /\ job' = [job EXCEPT !.status = "collected"]
  /\ by' = [by EXCEPT !.collected = g]
  /\ \/ record' = job.exit /\ UNCHANGED faults
     \/ /\ faults > 0 /\ faults' = faults - 1      \* a fault: another exit code
        /\ record' \in Code \ {job.exit}
  /\ UNCHANGED <<groupVars, log, index, dup, hostUnchanged>>

afterRestart == pc \in {"spawn2", "ready2", "restarted", "complete"} \cup Finishing
Wake(g) ==
  /\ Serving(g) /\ job.status = "collected" /\ job.notify = "pending"
  /\ job' = [job EXCEPT !.notify = IF afterRestart THEN "late" ELSE "early"]
  /\ index' = "completed"
  /\ \/ /\ log' = Append(log, "wake") /\ UNCHANGED faults
        /\ by' = [by EXCEPT !.woken = g]
     \/ faults > 0 /\ faults' = faults - 1 /\ UNCHANGED <<log, by>>  \* a fault: no message
  /\ UNCHANGED <<groupVars, record, dup, hostUnchanged>>

(* The agent disobeys and collects by hand.                                 *)
CollectByHand(g) ==
  /\ Serving(g) /\ job.status \in {"succeeded", "failed"} /\ "result" \in ToSet(log)
  /\ log' = Append(log, "tool")
  /\ job' = [job EXCEPT !.status = "collected"]
  /\ record' = job.exit
  /\ UNCHANGED <<groupVars, index, dup, by, hostUnchanged, faults>>

(* A fault: the restarted host executes the run a second time.             *)
Respawn ==
  /\ Serving(2) /\ dup.start = "none" /\ job.pid /\ faults > 0
  /\ dup' = [start |-> IF Len(ev.files) < 3 THEN "early" ELSE "late", live |-> TRUE]
  /\ faults' = faults - 1
  /\ UNCHANGED <<groupVars, log, job, record, index, by, hostUnchanged>>

DupEnds ==
  /\ dup.live
  /\ dup' = [dup EXCEPT !.live = FALSE]
  /\ UNCHANGED <<groupVars, lock, log, job, record, index, by, restartSignal, pc, host, owned, ev, outcome, faults>>

(* The run goes on by itself; the first lock holder it outlives is noted.   *)
RunStep ==
  /\ GroupStep
  /\ by' = IF Executing /\ ~Executing' THEN [by EXCEPT !.ended = lock] ELSE by
  /\ UNCHANGED <<lock, log, job, record, index, dup, restartSignal, pc, host, owned, ev, outcome, faults>>
-----------------------------------------------------------------------------
(* The driver.  Each step is a stretch of runCase between two awaits.       *)

driverUnchanged == <<groupVars, hostVars, restartSignal, faults>>

Install == /\ Move("install", "spawn1")
           /\ UNCHANGED <<driverUnchanged, host, owned, ev, outcome>>

StartHost(g, from, to) ==
  /\ SpawnHost(g, from, to)
  /\ UNCHANGED <<driverUnchanged, ev>>

(* assertOwner.                                                            *)
Owner(g) == lock = g /\ host[g].stamp /\ Started(g)

Ready(g, from, to) ==
  /\ Move(from, to)
  /\ Healthy(g) /\ host[g].state = "serving" /\ Owner(g)
  /\ ev' = [ev EXCEPT !.locks = Append(@, lock)]
  /\ UNCHANGED <<driverUnchanged, host, owned, outcome>>

Prompt ==
  /\ Move("session", "posted")
  /\ Healthy(1)
  /\ UNCHANGED <<driverUnchanged, host, owned, ev, outcome>>

Accepted ==
  /\ Move("posted", "await")
  /\ Healthy(1)
  /\ UNCHANGED <<driverUnchanged, host, owned, ev, outcome>>

(* submission and recoverProcessGroup: the answer, the ledger and the live  *)
(* leader agree.                                                           *)
Submitted ==
  /\ Move("await", "before")
  /\ Healthy(1)
  /\ "result" \in ToSet(log) /\ job.status = "running" /\ leader \in Living
  /\ owned' = TRUE
  /\ ev' = [ev EXCEPT !.cut = Len(log), !.jobs = <<job>>]
  /\ UNCHANGED <<driverUnchanged, host, outcome>>

(* sampleProcesses: the wrapper if it lives, and the solvers in the run     *)
(* directory, each named by its birth.                                     *)
Sample(phase) == [phase |-> phase, wrapper |-> leader \in Living,
                  solvers |-> (IF solver THEN {"original"} ELSE {})
                              \cup (IF dup.live THEN {"second"} ELSE {})]
OneOriginal(s) == s.solvers \subseteq {"original"}
LiveRun(s) == s.wrapper /\ s.solvers = {"original"} /\ exitFile = "none"
Observable(s) == leader # "alien" /\ OneOriginal(s)
                 /\ (s.phase # "completion" => LiveRun(s))

Observe(phase) ==
  /\ Observable(Sample(phase))
  /\ ev' = [ev EXCEPT !.jobs = Append(@, job), !.samples = Append(@, Sample(phase)),
                      !.files = IF phase = "completion" THEN @
                                ELSE Append(@, IF dup.start = "none" THEN "original" ELSE "second")]

Before == /\ Move("before", "interrupt")
          /\ Observe("before")
          /\ UNCHANGED <<driverUnchanged, host, owned, outcome>>

Interrupt ==
  /\ Move("interrupt", "signalled")
  /\ Healthy(1) /\ Owner(1)
  /\ host' = [host EXCEPT ![1].signal = restartSignal]
  /\ UNCHANGED <<driverUnchanged, owned, ev, outcome>>

Signalled ==
  /\ Move("signalled", "offline")
  /\ host[1].exited
  /\ host[1].end = IF restartSignal = "SIGTERM" THEN "clean" ELSE "killed"
  /\ UNCHANGED <<driverUnchanged, host, owned, ev, outcome>>

Offline == /\ Move("offline", "spawn2")
           /\ Observe("offline")
           /\ UNCHANGED <<driverUnchanged, host, owned, outcome>>

Restarted == /\ Move("restarted", "complete")
             /\ Healthy(2)
             /\ Observe("restarted")
             /\ UNCHANGED <<driverUnchanged, host, owned, outcome>>

(* assertRestartEvidence over what was gathered.                           *)
Progression(jobs) ==
  /\ Len(jobs) >= 3
  /\ \A i \in 1..Len(jobs) - 1 :
       /\ Rank(jobs[i].status) <= Rank(jobs[i+1].status)
       /\ jobs[i].exit # "none" => jobs[i+1].exit = jobs[i].exit
  /\ Last(jobs).status = "collected" /\ Last(jobs).dsh # jobs[1].dsh
SurvivedUnread(samples, files) ==     \* as if wrapper.pid were not compared
  /\ \A i \in DOMAIN samples : OneOriginal(samples[i])
  /\ \A i \in DOMAIN samples :
       samples[i].phase # "completion" => samples[i].wrapper /\ samples[i].solvers # {}
Survived(samples, files) ==
  /\ \A i \in DOMAIN samples : OneOriginal(samples[i])
  /\ \A i \in DOMAIN samples :
       samples[i].phase # "completion" => samples[i].wrapper /\ samples[i].solvers # {}
  /\ \A phase \in {"before", "offline", "restarted", "completion"} :
       \E i \in DOMAIN samples : samples[i].phase = phase
  /\ Len(files) >= 3 /\ \A i \in DOMAIN files : files[i] = "original"
Told(notify, later) ==
  notify = "late" /\ "wake" \in ToSet(later) /\ "tool" \notin ToSet(later)
RestartEvidence(e, exit) ==
  /\ Progression(e.jobs)
  /\ exit # "none" /\ exit = exitFile /\ Last(e.jobs).exit = exit
  /\ e.locks = <<1, 2>>
  /\ Survived(e.samples, e.files)
  /\ Told(Last(e.jobs).notify, SubSeq(log, e.cut + 1, Len(log)))

(* One round of the completion loop; the last one holds what is judged.     *)
Complete ==
  /\ pc = "complete"
  /\ Healthy(2) /\ Len(ev.samples) < 3 + MaxPolls
  /\ Observe("completion")
  /\ IF job.status = "collected" /\ job.notify # "pending" /\ index = "completed"
     THEN /\ pc' = "stop1"
          /\ outcome' = [outcome EXCEPT !.failed = ~RestartEvidence(ev', record)]
     ELSE UNCHANGED <<pc, outcome>>
  /\ UNCHANGED <<driverUnchanged, host, owned>>

(* A deadline, the abort signal, or a fact that does not hold.  A build or  *)
(* installer the driver cannot prove stopped is part of the failure.        *)
GiveUp ==
  /\ pc \in Trying
  /\ pc' = "stop1"
  /\ \E unsafe \in IF pc = "install" THEN BOOLEAN ELSE {FALSE} :
       outcome' = [outcome EXCEPT !.failed = TRUE, !.unsafe = unsafe]
  /\ UNCHANGED <<driverUnchanged, host, owned, ev>>
-----------------------------------------------------------------------------
(* The finally block.                                                      *)

StopStep(g, from, to) ==
  /\ pc = from
  /\ StopHost(g, to)
  /\ UNCHANGED <<driverUnchanged, ev>>

(* ownRunGroup; a dead leader must have left no solver.                     *)
Ownable == job.pid /\ LiveOwn
LeftNothingSeen == job.pid /\ leader \in {"gone", "vacated"}  \* as if only the leader counted
LeftNothing == job.pid /\ leader \in {"gone", "vacated"} /\ Sample("completion").solvers = {}

CleanUpRuns ==
  /\ pc = "runs"
  /\ IF AllExited /\ (owned \/ Ownable)
     THEN pc' = "term" /\ owned' = TRUE /\ UNCHANGED outcome
     ELSE /\ pc' = "verdict"
          /\ UNCHANGED owned
          /\ outcome' = IF AllExited /\ (job.status = "absent" \/ LeftNothing)
                        THEN outcome ELSE [outcome EXCEPT !.errors = @ + 1]
  /\ UNCHANGED <<driverUnchanged, host, ev>>

RunStopped ==
  /\ StopRun
  /\ UNCHANGED <<hostVars, restartSignal, faults, ev>>

Judge ==
  /\ Verdict
  /\ UNCHANGED <<driverUnchanged, ev>>

Driver ==
  \/ Install \/ Prompt \/ Accepted \/ Submitted \/ Before \/ Interrupt \/ Signalled
  \/ StartHost(1, "spawn1", "ready1") \/ Ready(1, "ready1", "session")
  \/ Offline \/ StartHost(2, "spawn2", "ready2") \/ Ready(2, "ready2", "restarted")
  \/ Restarted \/ Complete
  \/ StopStep(1, "stop1", "stop2") \/ StopStep(2, "stop2", "runs")
  \/ CleanUpRuns \/ RunStopped \/ Judge

Host == \/ Admit \/ Launch \/ Persist \/ Answer \/ Takeover \/ Respawn \/ DupEnds
        \/ \E g \in Generation : \/ HostServes(g) \/ HostObeys(g) \/ HostCrashes(g) \/ HostExits(g)
                                 \/ SettleRun(g) \/ CollectRun(g) \/ CollectByHand(g) \/ Wake(g)

Next == Driver \/ GiveUp \/ Host \/ RunStep
Spec == Init /\ [][Next]_vars
-----------------------------------------------------------------------------
(* Properties.                                                             *)

(* A case that passes was a restart: the run outlived the first host and    *)
(* ended under the second, which settled and collected it with the exit     *)
(* code the run left and told the owner, and nothing had replaced the       *)
(* execution when wrapper.pid was read for the last time.                   *)
PassMeansSurvived ==
  outcome.verdict = "PASS" =>
    /\ by = [settled |-> 2, collected |-> 2, woken |-> 2, ended |-> 2]
    /\ record = exitFile
    /\ dup.start # "early"

(* A verdict that reports no clean-up error leaves nothing behind: no host, *)
(* and no execution of a run the ledger names, however the case went wrong  *)
(* (an answer lost after the admission, a host that died in a submission,   *)
(* a wrapper that left its solver, a pid that was given away).              *)
CleanVerdict ==
  pc = "done" /\ outcome.errors = 0 =>
    \A g \in Generation : ~Alive(g) /\ ~Executing

(* What the verdict of a case says is so.                                   *)
VerdictTrue == PassMeansSurvived /\ CleanVerdict
=============================================================================
