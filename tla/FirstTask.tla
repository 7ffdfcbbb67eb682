------------------------------ MODULE FirstTask ------------------------------
(***************************************************************************)
(* The first-task gate (scripts/runtime/shud-first-task.ts and its evidence *)
(* oracle): the driver starts a Web host, asks a coordinator for one task,  *)
(* answers the one approval it owns while the agents work, follows the logs *)
(* until report_submit has a result, and judges logs and records.  The      *)
(* agents may do things out of order and the harness may take a report      *)
(* without its approval: the gate has to notice.  Whatever happened, the    *)
(* finally block closes the connection, stops the host, reads the logs of   *)
(* the stopped host again and stops the run it can prove to be its own.     *)
(***************************************************************************)
EXTENDS OwnedApprovals, FiniteSets

CONSTANTS Reports,     \* reports the coordinator may generate
          MaxFaults    \* bound on deviations of the agents and faults of the host

ASSUME BoundsAssumption == MaxFaults \in Nat /\ IsFiniteSet(Reports) /\ IsFiniteSet(Events)

(* The gate starts one host.                                               *)
ASSUME OneHost == Generation = {1}

VARIABLES
  root, worker,  \* the canonical logs of the coordinator and of its worker
  child,         \* the worker session: its directory, and a second one
  job,           \* run-job.json
  extra,         \* a second run somebody started
  report,        \* per report: status, runs linked, decisions taken
  card,          \* the task card is done
  drawn,         \* history: state of the run when the report was generated
  taken,         \* history: how the report was decided
  known,         \* what the driver knows: the root session, the worker, its run
  ev,            \* the final root and worker logs as the driver read them
  faults

worldVars == <<root, worker, child, job, extra, report, card, drawn, taken>>
vars == <<groupVars, driverVars, peerVars, worldVars, known, ev, faults>>

Stage == {"prepare", "spawn", "ready", "session", "approvals", "prompt", "chain",
          "final-root", "final-worker", "verify"}
Finishing == {"close", "closing", "stop", "discover", "runs", "term", "kill", "killed",
              "verdict", "done"}
Unread == [root |-> <<>>, worker |-> <<>>]
NoReport == [status |-> "none", runs |-> {}, decided |-> FALSE]

TypeOK ==
  /\ GroupTypeOK /\ DriverTypeOK /\ PeerTypeOK
  /\ pc \in Stage \cup Finishing
  /\ child \in {"none", "started", "known", "two"}
  /\ job \in {"absent", "created", "running", "collected"}
  /\ extra \in {"none", "live"}
  /\ report \in [Reports -> [status : {"none", "draft", "reviewed", "accepted"},
                             runs : SUBSET {"run"}, decided : BOOLEAN]]
  /\ card \in BOOLEAN
  /\ drawn \in [Reports -> {"none", "early", "collected"}]
  /\ taken \in [Reports -> {"none", "approved", "unasked"}]
  /\ known \in [root : BOOLEAN, worker : BOOLEAN]
  /\ faults \in 0..MaxFaults

Init ==
  /\ GroupInit /\ DriverInit("prepare") /\ PeerInit
  /\ root = <<>> /\ worker = <<>> /\ child = "none" /\ job = "absent" /\ extra = "none"
  /\ report = [r \in Reports |-> NoReport] /\ card = FALSE
  /\ drawn = [r \in Reports |-> "none"] /\ taken = [r \in Reports |-> "none"]
  /\ known = [root |-> FALSE, worker |-> FALSE]
  /\ ev = Unread
  /\ faults = MaxFaults

Logged(log, x) == x \in ToSet(log)
At(log, x) == CHOOSE i \in DOMAIN log : log[i] = x     \* the first one of its kind
Kinds(log, kind) == {i \in DOMAIN log : log[i][1] = kind}
Serving == host[1].state = "serving"
-----------------------------------------------------------------------------
(* The agents.  What the prompt asks for is free, anything else a fault.    *)
(* While their host is being stopped they finish what they began: whatever  *)
(* they could begin then, they could have begun just before.                *)

Prompted == pc \in {"chain", "final-root", "final-worker", "verify", "close", "closing"}
AgentStep(asked) ==
  /\ Serving /\ Prompted
  /\ asked \/ faults > 0
  /\ faults' = IF asked THEN faults ELSE faults - 1
agentUnchanged == <<driverVars, known, ev>>

CreateTask ==
  /\ AgentStep(root = <<>>)
  /\ Kinds(root, "task") = {} \/ Len(root) < 2
  /\ root' = Append(root, <<"task">>)
  /\ UNCHANGED <<groupVars, peerVars, worker, child, job, extra, report, card, drawn, taken, agentUnchanged>>

(* The session of the child exists before the catalog names it.            *)
Delegate ==
  /\ AgentStep(root = <<<<"task">>>>)
  /\ child \in {"none", "known"}
  /\ child' = IF child = "none" THEN "started" ELSE "two"
  /\ root' = Append(root, <<"subagent">>)
  /\ UNCHANGED <<groupVars, peerVars, worker, job, extra, report, card, drawn, taken, agentUnchanged>>
Catalog ==
  /\ Serving
  /\ child = "started" \/ (child = "two" /\ Cardinality(Kinds(root, "catalog")) < 2)
  /\ child' = IF child = "started" THEN "known" ELSE child
  /\ root' = Append(root, <<"catalog">>)
  /\ UNCHANGED <<groupVars, peerVars, worker, job, extra, report, card, drawn, taken, agentUnchanged, faults>>

(* shud_run by the worker, with the stages the driver can tell apart.       *)
Admit ==
  /\ AgentStep(Kinds(worker, "run") = {}) /\ child # "none" /\ job = "absent"
  /\ job' = "created"
  /\ UNCHANGED <<groupVars, peerVars, root, worker, child, extra, report, card, drawn, taken, agentUnchanged>>
Launch ==
  /\ Serving /\ job = "created" /\ Spawn
  /\ UNCHANGED <<peerVars, worldVars, driverVars, known, ev, faults>>
RunAnswers ==
  /\ Serving /\ job = "created" /\ leader # "none"
  /\ job' = "running" /\ worker' = Append(worker, <<"run">>)
  /\ UNCHANGED <<groupVars, peerVars, root, child, extra, report, card, drawn, taken, agentUnchanged, faults>>
RunAgain ==
  /\ AgentStep(FALSE) /\ extra = "none" /\ job # "absent"
  /\ extra' = "live"
  /\ UNCHANGED <<groupVars, peerVars, root, worker, child, job, report, card, drawn, taken, agentUnchanged>>

Ended == job # "absent" /\ exitFile # "none" /\ ~Executing
Wait ==
  /\ Serving /\ job = "running" /\ Ended /\ Last(worker)[1] = "run"
  /\ worker' = Append(worker, <<"wait", exitFile>>)
  /\ UNCHANGED <<groupVars, peerVars, root, child, job, extra, report, card, drawn, taken, agentUnchanged, faults>>
Collect ==
  /\ AgentStep(Kinds(worker, "wait") # {}) /\ job = "running" /\ Ended
  /\ job' = "collected" /\ worker' = Append(worker, <<"collect", exitFile>>)
  /\ UNCHANGED <<groupVars, peerVars, root, child, extra, report, card, drawn, taken, agentUnchanged>>

(* A turn of the worker ends and the coordinator is told.                   *)
EndTurn ==
  /\ child # "none" /\ AgentStep(job = "collected")
  /\ worker # <<>> => Last(worker)[1] # "end"
  /\ worker' = Append(worker, <<"end">>)
  /\ UNCHANGED <<groupVars, peerVars, root, child, job, extra, report, card, drawn, taken, agentUnchanged>>
Settled ==
  /\ Serving /\ child = "known"
  /\ Cardinality(Kinds(root, "settled")) < Cardinality(Kinds(worker, "end"))
  /\ root' = Append(root, <<"settled">>)
  /\ UNCHANGED <<groupVars, peerVars, worker, child, job, extra, report, card, drawn, taken, agentUnchanged, faults>>

(* report_generate takes a card whose runs are collected.                   *)
Generate(r) ==
  /\ AgentStep(Kinds(root, "settled") # {} /\ \A q \in Reports : report[q].status \notin {"reviewed", "accepted"})
  /\ Logged(root, <<"task">>) /\ report[r] = NoReport
  /\ job \in {"absent", "collected"}
  /\ report' = [report EXCEPT ![r] = [status |-> "draft", decided |-> FALSE,
                                      runs |-> IF job = "collected" THEN {"run"} ELSE {}]]
  /\ drawn' = [drawn EXCEPT ![r] = IF job = "collected" THEN "collected" ELSE "early"]
  /\ root' = Append(root, <<"generate", r>>)
  /\ UNCHANGED <<groupVars, peerVars, worker, child, job, extra, card, taken, agentUnchanged>>

(* report_validate; the draft may fail its checks.                          *)
Validate(r) ==
  /\ report[r].status = "draft"
  /\ AgentStep(Last(root) = <<"generate", r>>)
  /\ \E ok \in BOOLEAN :
       /\ report' = IF ok THEN [report EXCEPT ![r].status = "reviewed"] ELSE report
       /\ root' = Append(root, <<"validate", r, ok>>)
  /\ UNCHANGED <<groupVars, peerVars, worker, child, job, extra, card, drawn, taken, agentUnchanged>>

(* report_submit: the call, the question to whoever answers, its decision   *)
(* and the result.                                                         *)
Submit(e, r) ==
  /\ report[r].status # "none"
  /\ AgentStep(Last(root) = <<"validate", r, TRUE>>)
  /\ Kinds(root, "submit") = {} \/ \E i \in Kinds(root, "result") : TRUE
  /\ \A i \in Kinds(root, "submit") : root[i][2] # e
  /\ root' = Append(root, <<"submit", e, r>>)
  /\ UNCHANGED <<groupVars, peerVars, worker, child, job, extra, report, card, drawn, taken, agentUnchanged>>
Ask(e) ==
  /\ Serving /\ \E r \in Reports : Logged(root, <<"submit", e, r>>)
  /\ ~Logged(root, <<"asked", e>>) /\ \A v \in BOOLEAN : ~Logged(root, <<"result", e, v>>)
  /\ root' = Append(root, <<"asked", e>>)
  /\ frames' = IF socket \in {"open", "closing"} THEN Append(frames, <<"waterfall", e>>) ELSE frames
  /\ UNCHANGED <<groupVars, peer, socket, clientId, failure, timedOut, aborted, seen, cancelled, chain,
                 link, wire, answer, posts, worker, child, job, extra, report, card, drawn, taken,
                 agentUnchanged, faults>>
Decided(e) == \E v \in Value : Logged(root, <<"decided", e, v>>)
Resolve(e) ==
  /\ Serving /\ Logged(root, <<"asked", e>>) /\ ~Decided(e) /\ answer[e] # "none"
  /\ root' = Append(root, <<"decided", e, answer[e]>>)
  /\ UNCHANGED <<groupVars, peerVars, worker, child, job, extra, report, card, drawn, taken, agentUnchanged, faults>>

(* The turn is cancelled while the question is open.                        *)
Cancel(e) ==
  /\ Logged(root, <<"asked", e>>) /\ ~Decided(e) /\ answer[e] = "none"
  /\ AgentStep(FALSE)
  /\ answer' = [answer EXCEPT ![e] = "next"]
  /\ frames' = IF socket \in {"open", "closing"} THEN Append(frames, <<"cancel", e>>) ELSE frames
  /\ UNCHANGED <<groupVars, peer, socket, clientId, failure, timedOut, aborted, seen, cancelled, chain,
                 link, wire, posts, worldVars, agentUnchanged>>

(* executeDecision, or a host that takes the report unasked.                *)
Accept(e, r, how) ==
  /\ Serving /\ Logged(root, <<"submit", e, r>>)
  /\ \A v \in BOOLEAN : ~Logged(root, <<"result", e, v>>)
  /\ \/ how = "approved" /\ Logged(root, <<"decided", e, "allowed-once">>) /\ UNCHANGED faults
     \/ how = "unasked" /\ ~Decided(e) /\ faults > 0 /\ faults' = faults - 1
  /\ IF report[r].status = "reviewed"
     THEN /\ report' = [report EXCEPT ![r].status = "accepted", ![r].decided = TRUE]
          /\ card' = TRUE /\ taken' = [taken EXCEPT ![r] = how]
     ELSE UNCHANGED <<report, card, taken>>
  /\ root' = Append(root, <<"result", e, report[r].status = "reviewed">>)
  /\ UNCHANGED <<groupVars, peerVars, worker, child, job, extra, drawn, agentUnchanged>>
Denied(e) ==
  /\ Serving /\ Logged(root, <<"decided", e, "next">>)
  /\ \A v \in BOOLEAN : ~Logged(root, <<"result", e, v>>)
  /\ root' = Append(root, <<"result", e, FALSE>>)
  /\ UNCHANGED <<groupVars, peerVars, worker, child, job, extra, report, card, drawn, taken, agentUnchanged, faults>>
-----------------------------------------------------------------------------
(* The host process and the run.                                           *)

HostServes ==
  /\ host[1].state = "booting"
  /\ host' = [host EXCEPT ![1].state = "serving"]
  /\ UNCHANGED <<groupVars, pc, owned, outcome, peerVars, worldVars, known, ev, faults>>
HostObeys == Obeys(1) /\ UNCHANGED <<groupVars, pc, owned, outcome, peerVars, worldVars, known, ev, faults>>
HostCrashes ==
  /\ faults > 0 /\ faults' = faults - 1 /\ Ends(1, "crashed")
  /\ UNCHANGED <<groupVars, pc, owned, outcome, peerVars, worldVars, known, ev>>
HostExits == ChildEvent(1) /\ UNCHANGED <<groupVars, pc, owned, outcome, peerVars, worldVars, known, ev, faults>>
(* A run that fails, or a wrapper that dies of itself, is a fault too.  The *)
(* reuse of its pid makes no difference before the driver holds the group.  *)
RunFault == /\ signal = "none" /\ leader \in Living \ {"ending"}
            /\ leader' \in {"nonzero", "gone"} /\ leader # leader'
RunStep ==
  /\ GroupStep
  /\ leader' = "alien" => owned
  /\ \/ ~RunFault /\ UNCHANGED faults
     \/ RunFault /\ faults > 0 /\ faults' = faults - 1
  /\ UNCHANGED <<driverVars, peerVars, worldVars, known, ev>>
-----------------------------------------------------------------------------
(* openReportApprovals: the report the only report_submit of the root names, *)
(* validated before the call, on disk reviewed and not decided.             *)
ApprovalReport(log, e) ==
  {r \in Reports : /\ Cardinality(Kinds(log, "submit")) = 1 /\ Logged(log, <<"submit", e, r>>)
                   /\ \E i \in DOMAIN log : log[i] = <<"validate", r, TRUE>> /\ i < At(log, <<"submit", e, r>>)}
Allowed(e) ==
  \E r \in ApprovalReport(root, e) : report[r].status = "reviewed" /\ ~report[r].decided
DecideReport ==
  /\ Decide(Allowed(Head(chain)))
  /\ UNCHANGED <<groupVars, driverVars, worldVars, known, ev, faults>>

peerUnchanged == <<groupVars, driverVars, worldVars, known, ev, faults>>
PeerWorks == \/ StartLink /\ UNCHANGED peerUnchanged
             \/ link = "deciding" /\ DecideReport
             \/ Answered /\ UNCHANGED peerUnchanged

(* A request or the socket breaks because of an abort or a dead host, or by *)
(* a fault of its own.                                                     *)
Free(cause) == \/ cause /\ UNCHANGED faults
               \/ ~cause /\ faults > 0 /\ faults' = faults - 1
PeerBreaks == /\ LinkFails /\ Free(aborted \/ ~HostUp)
              /\ UNCHANGED <<groupVars, driverVars, worldVars, known, ev>>
PeerMoves == \/ (Connect \/ Receive \/ TakeAnswer) /\ UNCHANGED peerUnchanged
             \/ /\ SocketCloses /\ Free(socket = "closing" \/ ~HostUp)
                /\ UNCHANGED <<groupVars, driverVars, worldVars, known, ev>>
-----------------------------------------------------------------------------
(* The driver: run.                                                        *)

driverUnchanged == <<groupVars, worldVars, faults>>

(* Input copy, build, installation and the effective configuration.         *)
Prepare ==
  /\ Move("prepare", "spawn")
  /\ UNCHANGED <<driverUnchanged, host, owned, outcome, peerVars, known, ev>>
StartHost ==
  /\ SpawnHost(1, "spawn", "ready")
  /\ UNCHANGED <<driverUnchanged, peerVars, known, ev>>
Ready ==
  /\ Move("ready", "session")
  /\ Healthy(1) /\ Serving
  /\ UNCHANGED <<driverUnchanged, host, owned, outcome, peerVars, known, ev>>
CreateSession ==
  /\ Move("session", "approvals")
  /\ Healthy(1)
  /\ known' = [known EXCEPT !.root = TRUE]
  /\ OpenPeer
  /\ UNCHANGED <<driverUnchanged, host, owned, outcome, ev>>
ApprovalsOpen ==
  /\ Move("approvals", "prompt")
  /\ Opened
  /\ UNCHANGED <<driverUnchanged, host, owned, outcome, known, ev>>

(* The start of the connection fails: it closes itself and throws.          *)
ApprovalsFail ==
  /\ pc = "approvals" /\ peer = "opening"
  /\ BeginClose
  /\ UNCHANGED <<driverUnchanged, driverVars, known, ev>>
ApprovalsThrow ==
  /\ Move("approvals", "stop")
  /\ peer \in {"returned", "threw"}
  /\ outcome' = [outcome EXCEPT !.failed = TRUE]
  /\ UNCHANGED <<driverUnchanged, host, owned, peerVars, known, ev>>
Prompt ==
  /\ Move("prompt", "chain")
  /\ Healthy(1)
  /\ UNCHANGED <<driverUnchanged, host, owned, outcome, peerVars, known, ev>>

(* childIds and singleRun: more than one of either is thrown.               *)
OneWorker(log) == Cardinality(Kinds(log, "catalog")) <= 1
OneRun == extra = "none"
Named(log) == Kinds(log, "catalog") # {}

(* One round of the chain loop, with discoverRun.                          *)
Round ==
  /\ pc = "chain" /\ PeerHealthy
  /\ OneWorker(root) /\ OneRun
  /\ known' = [known EXCEPT !.worker = @ \/ Named(root)]
  /\ LET sought == known'.worker /\ job \in {"running", "collected"} /\ ~owned IN
       /\ sought /\ leader \in Living => wrapperPid
       /\ owned' = (owned \/ (sought /\ LiveOwn))
  /\ pc' = IF \E i \in Kinds(root, "result") : TRUE THEN "final-root" ELSE pc
  /\ UNCHANGED <<driverUnchanged, host, outcome, peerVars, ev>>

FinalRoot ==
  /\ Move("final-root", "final-worker")
  /\ PeerHealthy
  /\ Cardinality(Kinds(root, "catalog")) = 1 /\ OneRun
  /\ ev' = [ev EXCEPT !.root = root]
  /\ UNCHANGED <<driverUnchanged, host, owned, outcome, peerVars, known>>
FinalWorker ==
  /\ Move("final-worker", "verify")
  /\ PeerHealthy
  /\ ev' = [ev EXCEPT !.worker = worker]
  /\ known' = [known EXCEPT !.worker = TRUE]
  /\ UNCHANGED <<driverUnchanged, host, owned, outcome, peerVars>>

(* assertSnapshot, over the logs read and the records on disk now.          *)
Before(log, x, y) == Logged(log, x) /\ Logged(log, y) /\ At(log, x) < At(log, y)
Delegation(log) ==
  /\ Cardinality(Kinds(log, "task")) = 1 /\ Cardinality(Kinds(log, "subagent")) = 1
  /\ Before(log, <<"task">>, <<"subagent">>) /\ Before(log, <<"subagent">>, <<"catalog">>)
WorkerChain(log) ==
  /\ Cardinality(Kinds(log, "collect")) = 1
  /\ Before(log, <<"run">>, <<"wait", "zero">>) /\ Before(log, <<"wait", "zero">>, <<"collect", "zero">>)
  /\ Kinds(log, "end") # {} /\ \E i \in Kinds(log, "end") : At(log, <<"collect", "zero">>) < i
Reported(log, e, r) ==
  /\ \A i \in Kinds(log, "generate") : Before(log, <<"catalog">>, <<"settled">>) /\ At(log, <<"settled">>) < i
  /\ Before(log, <<"generate", r>>, <<"validate", r, TRUE>>)
  /\ Before(log, <<"validate", r, TRUE>>, <<"submit", e, r>>)
Approved(log, e, r) ==
  /\ Before(log, <<"submit", e, r>>, <<"asked", e>>)
  /\ Before(log, <<"asked", e>>, <<"decided", e, "allowed-once">>)
  /\ Before(log, <<"decided", e, "allowed-once">>, <<"result", e, TRUE>>)
JoinedUnlinked(r) ==                   \* as if the runs of the report were not compared
  /\ card /\ job = "collected"
  /\ report[r].status = "accepted" /\ report[r].decided
JoinedRecords(r) ==
  /\ card /\ job = "collected"
  /\ report[r].status = "accepted" /\ report[r].decided
  /\ report[r].runs = {"run"}
FirstTaskEvidence ==
  /\ Delegation(ev.root) /\ WorkerChain(ev.worker)
  /\ Cardinality(Kinds(ev.root, "submit")) = 1
  /\ \E e \in Events, r \in Reports :
       /\ Logged(ev.root, <<"submit", e, r>>)
       /\ Reported(ev.root, e, r) /\ Approved(ev.root, e, r) /\ JoinedRecords(r)

Verify ==
  /\ Move("verify", "close")
  /\ outcome' = [outcome EXCEPT !.failed = ~FirstTaskEvidence]
  /\ ev' = Unread
  /\ UNCHANGED <<driverUnchanged, host, owned, peerVars, known>>

(* A deadline, the abort signal, or a fact that does not hold.              *)
GiveUp ==
  /\ pc \in Stage \ {"approvals"}
  /\ pc' = "close"
  /\ outcome' = [outcome EXCEPT !.failed = TRUE]
  /\ ev' = Unread
  /\ UNCHANGED <<driverUnchanged, host, owned, peerVars, known>>
-----------------------------------------------------------------------------
(* The finally block.                                                      *)

Close ==
  /\ pc = "close"
  /\ IF peer = "serving" THEN BeginClose /\ pc' = "closing"
                         ELSE UNCHANGED peerVars /\ pc' = "stop"
  /\ UNCHANGED <<driverUnchanged, host, owned, outcome, known, ev>>
ClosePeer == PeerClose /\ UNCHANGED <<driverUnchanged, driverVars, known, ev>>
Closed ==
  /\ Move("closing", "stop")
  /\ peer \in {"returned", "threw"}
  /\ outcome' = IF peer = "threw" THEN [outcome EXCEPT !.errors = @ + 1] ELSE outcome
  /\ UNCHANGED <<driverUnchanged, host, owned, peerVars, known, ev>>

Stop ==
  /\ pc = "stop"
  /\ StopHost(1, "discover")
  /\ UNCHANGED <<driverUnchanged, peerVars, known, ev>>

(* The logs of the stopped host, and the session directories: a child whose *)
(* catalog entry was lost is an owner too, a second one cannot be.          *)
Discover ==
  /\ Move("discover", "runs")
  /\ \E fails \in {FALSE, known.root} :
       LET unproved == fails \/ (known.root /\ child = "two") IN
         /\ known' = [known EXCEPT !.worker = @ \/ (known.root /\ ~unproved /\ child # "none")]
         /\ outcome' = IF unproved THEN [outcome EXCEPT !.errors = @ + 1] ELSE outcome
  /\ UNCHANGED <<driverUnchanged, host, owned, peerVars, ev>>

(* cleanupOwnedRuns with one run allowed and no sampler of dead groups; of  *)
(* two runs it takes the one it lists first.                               *)
CleanUpOwnerless(found) ==             \* as if runs without an owner were nobody's concern
  [own |-> owned, errors |-> IF job = "absent" \/ ~known.worker THEN 0 ELSE 1]
CleanUp(found) ==
  LET ours == found = "ours" /\ known.worker /\ job \in {"running", "collected"} /\ (owned \/ LiveOwn)
  IN [own    |-> owned \/ ours,
      errors |-> IF extra = "none" /\ (job = "absent" \/ ours) THEN 0 ELSE 1]
CleanUpRuns ==
  /\ pc = "runs"
  /\ IF AllExited
     THEN \E found \in {"ours"} \cup (IF extra = "none" THEN {} ELSE {"extra"}) :
            /\ owned' = CleanUp(found).own
            /\ outcome' = [outcome EXCEPT !.errors = @ + CleanUp(found).errors]
            /\ pc' = IF owned' THEN "term" ELSE "verdict"
     ELSE /\ outcome' = [outcome EXCEPT !.errors = @ + 1]
          /\ pc' = "verdict" /\ UNCHANGED owned
  /\ UNCHANGED <<driverUnchanged, host, peerVars, known, ev>>

RunStopped == StopRun /\ UNCHANGED <<worldVars, faults, peerVars, known, ev>>
Judge == Verdict /\ UNCHANGED <<driverUnchanged, peerVars, known, ev>>

Driver ==
  \/ Prepare \/ StartHost \/ Ready \/ CreateSession \/ ApprovalsOpen \/ ApprovalsFail
  \/ ApprovalsThrow \/ Prompt \/ Round \/ FinalRoot \/ FinalWorker \/ Verify
  \/ Close \/ ClosePeer \/ Closed \/ Stop \/ Discover \/ CleanUpRuns \/ RunStopped \/ Judge

AgentsAct ==
  \/ CreateTask \/ Delegate \/ Catalog \/ Admit \/ Launch \/ RunAnswers \/ RunAgain
  \/ Wait \/ Collect \/ EndTurn \/ Settled
  \/ \E r \in Reports : Generate(r) \/ Validate(r)
  \/ \E e \in Events : Ask(e) \/ Resolve(e) \/ Cancel(e) \/ Denied(e)
  \/ \E e \in Events, r \in Reports : Submit(e, r) \/ Accept(e, r, "approved") \/ Accept(e, r, "unasked")

World == \/ PeerMoves \/ AgentsAct \/ HostServes \/ HostObeys \/ HostCrashes \/ HostExits \/ RunStep
Next == \/ Driver \/ GiveUp \/ PeerWorks \/ PeerBreaks
        \/ pc # "done" /\ World
Spec == Init /\ [][Next]_vars

(* Every wait of the driver has a deadline, GiveUp; a round of its loop     *)
(* that finds nothing is not progress.  A request that was sent ends, at    *)
(* the latest when requests.abort() is called.                             *)
FairSpec == /\ Spec
            /\ WF_vars(Driver \/ GiveUp)
            /\ WF_vars(PeerWorks \/ (aborted /\ PeerBreaks))
-----------------------------------------------------------------------------
(* Properties.                                                             *)

(* A PASS means what the gate is for: the one run ended well and was        *)
(* collected before the accepted report was drawn, the report passed its    *)
(* validation and was accepted upon an approval, nobody started a second    *)
(* run or worker, and nothing of it is executing.                          *)
PassMeansChain ==
  outcome.verdict = "PASS" =>
    /\ \E r \in Reports : taken[r] = "approved" /\ drawn[r] = "collected"
    /\ exitFile = "zero" /\ ~Executing /\ extra = "none" /\ child = "known"

(* A verdict without clean-up errors leaves nothing behind, although the    *)
(* driver may never have heard of the worker or of its run.                 *)
CleanVerdict ==
  pc = "done" /\ outcome.errors = 0 => ~Alive(1) /\ ~Executing /\ extra = "none"

(* What the verdict of the gate says is so.                                 *)
VerdictTrue == PassMeansChain /\ CleanVerdict

(* The gate ends with a verdict whatever the agents, the host, the          *)
(* connection and the run do.                                              *)
GateEnds == <>(pc = "done")
=============================================================================
