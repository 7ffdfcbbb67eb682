--------------------------- MODULE ReportWorkflow ---------------------------
(***************************************************************************)
(* The evidence reports of one task and the task card they move: the tools  *)
(* report_generate, report_validate, report_submit, report_decide, and      *)
(* shud_run as the other writer of the card.  A tool call is a sequence of  *)
(* synchronous stretches; any other call may run between two of them.  The   *)
(* calls on one report take turns in its lane.  A report is three files:     *)
(* its JSON, which is the commit point, its link and status on the card, and *)
(* its Markdown with a watermark on the second line.                        *)
(***************************************************************************)
EXTENDS Naturals, Sequences, FiniteSets, SequencesExt

CONSTANTS Reports, Jobs, Calls,
          MaxMade,       \* bound on reports drafted and runs submitted, together
          MaxFaults      \* bound on failed writes and crashes

ASSUME MaxFaultsAssumption == MaxFaults \in Nat /\ MaxMade \in Nat

VARIABLES
  card,        \* task.json: status, linked_reports, linked_jobs
  report,      \* reports/<id>.json: status, number of decisions, linked runs
  markdown,    \* the watermark of reports/<id>.md
  job,         \* the durable run jobs of the task: "collected" has a record of success,
               \* "failed" is every end that closure refuses, "rolledback" has left no trace
  call,        \* the tool calls of the host process
  lane,        \* reportOperations: the calls on a report, the running one first
  faults       \* failures still allowed

vars == <<card, report, markdown, job, call, lane, faults>>

Outcome == {"accepted", "rejected", "revision_requested"}
ReportStatus == {"absent", "draft", "reviewed"} \cup Outcome
CardStatus == {"planned", "running", "reporting", "done", "cancelled"}
Watermark == {"missing", "DRAFT"} \cup Outcome
JobStatus == {"unsubmitted", "live", "collected", "failed", "rolledback"}
LaneTool == {"validate"} \cup Outcome      \* an outcome stands for the tool deciding it
LanePC == {"queued", "repairing", "entered", "publishing"}

Snapshot == [known : SUBSET Jobs, live : SUBSET Jobs, good : SUBSET Jobs]
NoSnapshot == [known |-> {}, live |-> {}, good |-> {}]
Idle == [pc |-> "idle", tool |-> "none", on |-> "none", text |-> "missing", seen |-> NoSnapshot]
Call == [pc : {"idle", "listing", "listed", "reading", "submitting", "starting", "submitted"} \cup LanePC,
         tool : {"none", "generate", "run"} \cup LaneTool,
         on : Reports \cup Jobs \cup {"none"},
         text : Watermark,
         seen : Snapshot]

TypeOK ==
  /\ card \in [status : CardStatus, reports : Seq(Reports), jobs : SUBSET Jobs]
  /\ report \in [Reports -> [status : ReportStatus, decisions : Nat, runs : SUBSET Jobs]]
  /\ markdown \in [Reports -> Watermark]
  /\ job \in [Jobs -> JobStatus]
  /\ call \in [Calls -> Call]
  /\ lane \in [Reports -> Seq(Calls)]
  /\ faults \in 0..MaxFaults

Init ==
  /\ card = [status |-> "planned", reports |-> <<>>, jobs |-> {}]
  /\ report = [r \in Reports |-> [status |-> "absent", decisions |-> 0, runs |-> {}]]
  /\ markdown = [r \in Reports |-> "missing"]
  /\ job = [j \in Jobs |-> "unsubmitted"]
  /\ call = [c \in Calls |-> Idle]
  /\ lane = [r \in Reports |-> <<>>]
  /\ faults = MaxFaults

-----------------------------------------------------------------------------
(* transitionTask: the status an event leads to, or "illegal".             *)
Transition(status, event) ==
  CASE event = "shud_run" /\ status \in {"planned", "running"} -> "running"
    [] event = "reconcile" /\ status = "planned" -> "running"
    [] event = "generate" /\ status \in {"planned", "running", "reporting"} -> "reporting"
    [] event = "accepted" /\ status = "reporting" -> "done"
    [] event = "revision_requested" /\ status = "reporting" -> "planned"
    [] event = "rejected" /\ status = "reporting" -> "cancelled"
    [] OTHER -> "illegal"

Generatable == card.status \in {"planned", "running", "reporting"}
Runnable == card.status \in {"planned", "running"}

(* reportTaskStatus, and the event that leads there.                       *)
Projection(status) ==
  CASE status \in {"draft", "reviewed"} -> "reporting"
    [] status = "accepted" -> "done"
    [] status = "revision_requested" -> "planned"
    [] status = "rejected" -> "cancelled"
ProjectionEvent(status) == IF status \in Outcome THEN status ELSE "generate"

(* reportWatermark.                                                        *)
WatermarkOf(status) == IF status \in Outcome THEN status ELSE "DRAFT"

Linked(r) == r \in ToSet(card.reports)
LastLinked(r) == card.reports # <<>> /\ card.reports[Len(card.reports)] = r

(* needsReportTaskRepair and repairReportTask: a missing link, or the       *)
(* status of the last report that the card does not show.  The status is    *)
(* reached by legal transitions only, in one publication.                  *)
NeedsRepair(r) ==
  ~Linked(r) \/ (LastLinked(r) /\ card.status # Projection(report[r].status))
RepairedStatus(r) ==
  LET linked == IF Linked(r) THEN card.status ELSE Transition(card.status, "generate")
  IN  IF linked = Projection(report[r].status) THEN linked
      ELSE Transition(linked, ProjectionEvent(report[r].status))
RepairedCard(r) ==
  [card EXCEPT !.status = RepairedStatus(r),
               !.reports = IF Linked(r) THEN @ ELSE Append(@, r)]

(* The bound of the instance; a generation or a submission may fail instead. *)
Room == Cardinality({r \in Reports : report[r].status # "absent"})
          + Cardinality({j \in Jobs : job[j] # "unsubmitted"}) < MaxMade

Fault == faults > 0 /\ faults' = faults - 1

(* withReportOperation: a call joins the lane of its report at once and    *)
(* starts when it is first; however it ends, it makes room for the next.    *)
RunningUnordered(c, pc) ==       \* a mistake: the calls on a report do not take turns
  call[c].pc = pc /\ call[c].on \in Reports

Running(c, pc) ==
  /\ call[c].pc = pc
  /\ call[c].on \in Reports
  /\ lane[call[c].on] # <<>> /\ Head(lane[call[c].on]) = c

GoOn(c, pc, text) == call' = [call EXCEPT ![c].pc = pc, ![c].text = text]
End(c) == call' = [call EXCEPT ![c] = Idle]
LeaveLane(c) == lane' = [lane EXCEPT ![call[c].on] = Tail(@)]
Leave(c) == End(c) /\ LeaveLane(c)

-----------------------------------------------------------------------------
(* report_validate, report_submit and report_decide, from the moment the    *)
(* host lets them execute.                                                 *)
BeginReportCall(c) ==
  /\ call[c] = Idle
  /\ \E tool \in LaneTool, r \in Reports :
       /\ report[r].status # "absent"
       /\ call' = [call EXCEPT ![c] = [Idle EXCEPT !.pc = "queued", !.tool = tool, !.on = r]]
       /\ lane' = [lane EXCEPT ![r] = Append(@, c)]
  /\ UNCHANGED <<card, report, markdown, job, faults>>

EnterMissingOnly(c) ==           \* a mistake: only a Markdown that is absent is repaired
  /\ Running(c, "queued") /\ call[c].tool \in LaneTool
  /\ LET r == call[c].on  text == WatermarkOf(report[r].status)
     IN  /\ IF NeedsRepair(r) THEN RepairedStatus(r) # "illegal" /\ card' = RepairedCard(r)
            ELSE UNCHANGED card
         /\ GoOn(c, IF markdown[r] = "missing" THEN "repairing" ELSE "entered", text)
  /\ UNCHANGED <<report, markdown, job, lane, faults>>

(* repairReportEntry: the card is repaired before the Markdown.            *)
Enter(c) ==
  /\ Running(c, "queued") /\ call[c].tool \in LaneTool
  /\ LET r == call[c].on  text == WatermarkOf(report[r].status)
     IN  /\ IF NeedsRepair(r) THEN RepairedStatus(r) # "illegal" /\ card' = RepairedCard(r)
            ELSE UNCHANGED card
         /\ GoOn(c, IF markdown[r] # text THEN "repairing" ELSE "entered", text)
  /\ UNCHANGED <<report, markdown, job, lane, faults>>

(* A card that cannot be repaired, or a write that fails, ends the call.   *)
EnterFails(c) ==
  /\ Running(c, "queued") /\ call[c].tool \in LaneTool
  /\ NeedsRepair(call[c].on)
  /\ (RepairedStatus(call[c].on) = "illegal" /\ UNCHANGED faults) \/ Fault
  /\ Leave(c)
  /\ UNCHANGED <<card, report, markdown, job>>

RepairMarkdown(c) ==
  /\ Running(c, "repairing")
  /\ markdown' = [markdown EXCEPT ![call[c].on] = call[c].text]
  /\ GoOn(c, "entered", call[c].text)
  /\ UNCHANGED <<card, report, job, lane, faults>>

(* Rendering or writing the Markdown fails.                                *)
MarkdownFails(c) ==
  /\ Running(c, "repairing") \/ Running(c, "publishing")
  /\ Fault
  /\ Leave(c)
  /\ UNCHANGED <<card, report, markdown, job>>

PreconditionDropped(c) ==        \* a mistake: the fresh report is not looked at again
  report[call[c].on].status # "absent"

Precondition(c) ==
  /\ report[call[c].on].status = (IF call[c].tool = "validate" THEN "draft" ELSE "reviewed")
  /\ report[call[c].on].decisions = 0

(* The report is read again and is not in the state the tool wants.        *)
Refuse(c) ==
  /\ Running(c, "entered")
  /\ ~Precondition(c)
  /\ Leave(c)
  /\ UNCHANGED <<card, report, markdown, job, faults>>

(* validateReport: one of the fifteen checks of the report, its references  *)
(* and its rendering fails, and the report stays a draft.                  *)
ChecksFail(c) ==
  /\ Running(c, "entered") /\ call[c].tool = "validate"
  /\ Precondition(c)
  /\ Leave(c)
  /\ UNCHANGED <<card, report, markdown, job, faults>>

Validate(c) ==
  /\ Running(c, "entered") /\ call[c].tool = "validate"
  /\ Precondition(c)
  /\ report' = [report EXCEPT ![call[c].on].status = "reviewed"]
  /\ GoOn(c, "publishing", "DRAFT")
  /\ UNCHANGED <<card, markdown, job, lane, faults>>

(* executeDecision: the JSON, the card and the rendering in one stretch.    *)
(* The card of an older report moves too.                                  *)
Decided(c) ==
  report' = [report EXCEPT ![call[c].on].status = call[c].tool,
                           ![call[c].on].decisions = @ + 1]

Decide(c) ==
  /\ Running(c, "entered") /\ call[c].tool \in Outcome
  /\ Precondition(c)
  /\ Decided(c)
  /\ Transition(card.status, call[c].tool) # "illegal"
  /\ card' = [card EXCEPT !.status = Transition(@, call[c].tool)]
  /\ GoOn(c, "publishing", call[c].tool)
  /\ UNCHANGED <<markdown, job, lane, faults>>

(* The decision is committed and the card is not: it may not make that      *)
(* move, or the write fails.                                               *)
DecideFails(c) ==
  /\ Running(c, "entered") /\ call[c].tool \in Outcome
  /\ Precondition(c)
  /\ Decided(c)
  /\ (Transition(card.status, call[c].tool) = "illegal" /\ UNCHANGED faults) \/ Fault
  /\ Leave(c)
  /\ UNCHANGED <<card, markdown, job>>

(* The report itself cannot be written.                                    *)
CommitFails(c) ==
  /\ Running(c, "entered") /\ Precondition(c)
  /\ Fault
  /\ Leave(c)
  /\ UNCHANGED <<card, report, markdown, job>>

Publish(c) ==
  /\ Running(c, "publishing")
  /\ markdown' = [markdown EXCEPT ![call[c].on] = call[c].text]
  /\ Leave(c)
  /\ UNCHANGED <<card, report, job, faults>>

-----------------------------------------------------------------------------
(* report_generate and shud_run.  Both ask the registry for the jobs of     *)
(* the task first, and reconcile the card with what it answered.            *)
BeginGenerate(c) ==
  /\ call[c] = Idle /\ Generatable
  /\ call' = [call EXCEPT ![c] = [Idle EXCEPT !.pc = "listing", !.tool = "generate"]]
  /\ UNCHANGED <<card, report, markdown, job, lane, faults>>

BeginRun(c) ==
  /\ call[c] = Idle
  /\ call' = [call EXCEPT ![c] = [Idle EXCEPT !.pc = "listing", !.tool = "run"]]
  /\ UNCHANGED <<card, report, markdown, job, lane, faults>>

List(c) ==
  /\ call[c].pc = "listing"
  /\ LET seen == [known |-> {j \in Jobs : job[j] \notin {"unsubmitted", "rolledback"}},
                  live  |-> {j \in Jobs : job[j] = "live"},
                  good  |-> {j \in Jobs : job[j] = "collected"}]
     IN  call' = [call EXCEPT ![c].pc = "listed", ![c].seen = seen]
  /\ UNCHANGED <<card, report, markdown, job, lane, faults>>

(* reconcileTaskCard                                                       *)
ReconciledCard(seen) ==
  [card EXCEPT !.jobs = @ \cup seen.known,
               !.status = IF @ = "planned" /\ seen.live # {} THEN Transition(@, "reconcile") ELSE @]

Admitted(c) == IF call[c].tool = "generate" THEN Generatable ELSE Runnable

Reconcile(c) ==
  /\ call[c].pc = "listed"
  /\ Admitted(c)
  /\ card' = ReconciledCard(call[c].seen)
  /\ call' = [call EXCEPT ![c].pc = IF call[c].tool = "generate" THEN "reading" ELSE "submitting"]
  /\ UNCHANGED <<report, markdown, job, lane, faults>>

(* The card has moved on, the submission is refused, or a read or write     *)
(* fails.  Nothing is undone.                                              *)
OutsideFails(c) ==
  /\ \/ call[c].pc = "listed" /\ ~Admitted(c) /\ UNCHANGED faults
     \/ call[c].pc = "reading" /\ ~Generatable /\ UNCHANGED faults
     \/ call[c].pc = "submitting" /\ UNCHANGED faults
     \/ call[c].pc \in {"listing", "listed", "reading"} /\ Fault
  /\ End(c)
  /\ UNCHANGED <<card, report, markdown, job, lane>>

(* evaluateClosure on the fresh card and the evidence of the snapshot: a    *)
(* job linked since then is not among it.                                  *)
Closed(c) == card.jobs # {} /\ card.jobs \subseteq call[c].seen.good

(* The authored clauses may be missing too.                                *)
ClosureFails(c) ==
  /\ call[c].pc = "reading" /\ Generatable
  /\ End(c)
  /\ UNCHANGED <<card, report, markdown, job, lane, faults>>

CommitDraftStale(c) ==           \* a mistake: the closure of the card before the evidence reads
  /\ call[c].pc = "reading" /\ Generatable /\ Room
  /\ LET runs == call[c].seen.known
     IN  /\ runs # {} /\ runs \subseteq call[c].seen.good
         /\ \E r \in Reports :
              /\ report[r].status = "absent"
              /\ report' = [report EXCEPT ![r] = [status |-> "draft", decisions |-> 0, runs |-> runs]]
              /\ call' = [call EXCEPT ![c].pc = "queued", ![c].on = r, ![c].seen = NoSnapshot]
              /\ lane' = [lane EXCEPT ![r] = Append(@, c)]
  /\ UNCHANGED <<card, markdown, job, faults>>

CommitDraft(c) ==
  /\ call[c].pc = "reading" /\ Generatable /\ Room
  /\ Closed(c)
  /\ \E r \in Reports :
       /\ report[r].status = "absent"
       /\ report' = [report EXCEPT ![r] = [status |-> "draft", decisions |-> 0, runs |-> card.jobs]]
       /\ call' = [call EXCEPT ![c].pc = "queued", ![c].on = r, ![c].seen = NoSnapshot]
       /\ lane' = [lane EXCEPT ![r] = Append(@, c)]
  /\ UNCHANGED <<card, markdown, job, faults>>

LinkDraft(c) ==
  /\ Running(c, "queued") /\ call[c].tool = "generate"
  /\ Generatable
  /\ card' = [card EXCEPT !.status = Transition(@, "generate"),
                          !.reports = Append(@, call[c].on)]
  /\ GoOn(c, "publishing", WatermarkOf(report[call[c].on].status))
  /\ UNCHANGED <<report, markdown, job, lane, faults>>

LinkFailsInPlace(c) ==           \* a mistake: a failed call keeps its place in the lane
  /\ Running(c, "queued") /\ call[c].tool = "generate"
  /\ (~Generatable /\ UNCHANGED faults) \/ Fault
  /\ End(c)
  /\ UNCHANGED <<card, report, markdown, job, lane>>

LinkFails(c) ==
  /\ Running(c, "queued") /\ call[c].tool = "generate"
  /\ (~Generatable /\ UNCHANGED faults) \/ Fault
  /\ Leave(c)
  /\ UNCHANGED <<card, report, markdown, job>>

(* submitShud: the run is in the index some time before the submission      *)
(* succeeds or is rolled back, and a query sees it there.                   *)
Submit(c) ==
  /\ call[c].pc = "submitting" /\ Room
  /\ \E j \in Jobs :
       /\ job[j] = "unsubmitted"
       /\ job' = [job EXCEPT ![j] = "live"]
       /\ call' = [call EXCEPT ![c].pc = "starting", ![c].on = j, ![c].seen = NoSnapshot]
  /\ UNCHANGED <<card, report, markdown, lane, faults>>

Started(c) ==
  /\ call[c].pc = "starting"
  /\ call' = [call EXCEPT ![c].pc = "submitted"]
  /\ UNCHANGED <<card, report, markdown, job, lane, faults>>

RollBack(c) ==
  /\ call[c].pc = "starting"
  /\ job' = [job EXCEPT ![call[c].on] = "rolledback"]
  /\ End(c)
  /\ UNCHANGED <<card, report, markdown, lane, faults>>

LinkRun(c) ==
  /\ call[c].pc = "submitted" /\ Runnable
  /\ card' = [card EXCEPT !.status = Transition(@, "shud_run"), !.jobs = @ \cup {call[c].on}]
  /\ End(c)
  /\ UNCHANGED <<report, markdown, job, lane, faults>>

(* The run stays; a later call reconciles the link.                        *)
LinkRunFails(c) ==
  /\ call[c].pc = "submitted"
  /\ (~Runnable /\ UNCHANGED faults) \/ Fault
  /\ End(c)
  /\ UNCHANGED <<card, report, markdown, job, lane>>

-----------------------------------------------------------------------------
(* The registry ends a job that is not being submitted; see ShudRun and     *)
(* ShudCollect.                                                            *)
JobEnds ==
  /\ \E j \in Jobs, end \in {"collected", "failed"} :
       /\ job[j] = "live" /\ \A c \in Calls : call[c].pc = "starting" => call[c].on # j
       /\ job' = [job EXCEPT ![j] = end]
  /\ UNCHANGED <<card, report, markdown, call, lane, faults>>

(* The host dies with its calls and lanes and comes back with none.         *)
Crash ==
  /\ Fault
  /\ call' = [c \in Calls |-> Idle]
  /\ lane' = [r \in Reports |-> <<>>]
  /\ UNCHANGED <<card, report, markdown, job>>

InLane(c) == \/ Enter(c) \/ EnterFails(c) \/ RepairMarkdown(c) \/ MarkdownFails(c)
             \/ Refuse(c) \/ ChecksFail(c) \/ Validate(c) \/ Decide(c) \/ DecideFails(c) \/ CommitFails(c)
             \/ LinkDraft(c) \/ LinkFails(c) \/ Publish(c)
Outside(c) == \/ List(c) \/ Reconcile(c) \/ OutsideFails(c) \/ ClosureFails(c) \/ CommitDraft(c)
              \/ Submit(c) \/ Started(c) \/ RollBack(c) \/ LinkRun(c) \/ LinkRunFails(c)
Work(c) == InLane(c) \/ Outside(c)
Begin(c) == BeginReportCall(c) \/ BeginGenerate(c) \/ BeginRun(c)

Next == (\E c \in Calls : Begin(c) \/ Work(c)) \/ JobEnds \/ Crash
Spec == Init /\ [][Next]_vars

(* A call that the event loop can continue is continued.                   *)
Fairness == \A c \in Calls : WF_vars(Work(c))
FairSpec == Spec /\ Fairness

-----------------------------------------------------------------------------
(* A submission that fails adds no link to the card.  The specification     *)
(* asks it; the reconciliation of an overlapping call breaks it, and no      *)
(* report can then be generated: closure misses the job for ever.           *)
FailedSubmissionAddsNoLink == \A j \in card.jobs : job[j] # "rolledback"

(* A draft is written about exactly the runs on the card at that moment,    *)
(* all collected, although the evidence was read while others moved it.     *)
DraftCoversCard ==
  [][\A r \in Reports : report[r].status = "absent" /\ report'[r].status # "absent" =>
       report'[r].runs = card.jobs /\ \A j \in card.jobs : job[j] = "collected"]_vars

(* A Markdown that shows a decision is never covered by an older rendering. *)
NoLateDraft ==
  [][\A r \in Reports : markdown[r] \in Outcome => markdown'[r] = markdown[r]]_vars

(* A call that answers, with success or with a refusal, leaves its report   *)
(* linked and its Markdown up to date, whatever broke off before it.        *)
Answered(c, r) ==
  /\ call[c].pc \in {"entered", "publishing"} /\ call[c].on = r /\ call'[c] = Idle
  /\ UNCHANGED <<faults, report>>
Repaired(r) == Linked(r) /\ markdown[r] = WatermarkOf(report[r].status)
AnswerIsRepaired ==
  [][\A c \in Calls, r \in Reports : Answered(c, r) => Repaired(r)']_vars

(* A report says what the task was when it was drafted, what is said of its *)
(* decision stays, and whoever is answered finds its three files in accord. *)
ReportsStand == DraftCoversCard /\ NoLateDraft /\ AnswerIsRepaired

(* The promise to the PI: one decision for a report, none reopened or       *)
(* overwritten, and the card follows.                                      *)
Outcomes == INSTANCE TaskOutcome WITH
  status <- card.status,
  decision <- [r \in Reports |-> IF report[r].status \in Outcome THEN report[r].status ELSE "none"]
ImplementsOutcome == Outcomes!Spec

(* Every call comes to its end: nobody waits in a lane for ever.            *)
CallsEnd == \A c \in Calls : call[c] # Idle ~> call[c] = Idle
=============================================================================
