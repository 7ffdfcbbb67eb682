------------------------ MODULE ReportWorkflowProofs ------------------------
(***************************************************************************)
(* Proofs about ReportWorkflow: what is said of a report stands, and the    *)
(* card and its reports keep the promise of TaskOutcome.                    *)
(*                                                                         *)
(* A call that has started is first in the lane of its report (Turns), so   *)
(* nobody else moves the report while it runs: what it has seen of it is     *)
(* still so when it writes (AsSeen).  A report is on the card before        *)
(* anybody can review or decide it (OnCard), and a run that was collected    *)
(* when the evidence was read stays collected (RunsAsSeen).                 *)
(***************************************************************************)
EXTENDS ReportWorkflow, SequenceTheorems, TLAPS

InProgress == {"repairing", "entered", "publishing"}

(* A started call is first in its lane; a call in a lane is on a report     *)
(* that has been drafted.                                                  *)
Turns ==
  \A c \in Calls :
    /\ call[c].pc \in LanePC =>
         call[c].on \in Reports /\ report[call[c].on].status # "absent"
    /\ call[c].pc \in InProgress =>
         lane[call[c].on] # <<>> /\ Head(lane[call[c].on]) = c

(* Nobody reviews or decides a report that is not on the card.              *)
OnCard ==
  /\ \A c \in Calls : call[c].pc \in InProgress => Linked(call[c].on)
  /\ \A r \in Reports : report[r].status \in {"reviewed"} \cup Outcome => Linked(r)

(* A started call holds the watermark of its report, the Markdown has it    *)
(* once the call has entered, and a decision shown is the decision taken.   *)
AsSeen ==
  /\ \A c \in Calls :
       /\ call[c].pc \in {"repairing", "publishing"} =>
            call[c].text = WatermarkOf(report[call[c].on].status)
       /\ call[c].pc = "entered" =>
            markdown[call[c].on] = WatermarkOf(report[call[c].on].status)
  /\ \A r \in Reports : markdown[r] \in Outcome => markdown[r] = report[r].status

(* The runs a call counts as evidence are collected; a run that is being    *)
(* submitted is live and of one call only.                                 *)
RunsAsSeen ==
  /\ \A c \in Calls : \A j \in call[c].seen.good : job[j] = "collected"
  /\ \A c \in Calls :
       /\ call[c].pc \in {"starting", "submitted"} => call[c].on \in Jobs
       /\ call[c].pc = "starting" => job[call[c].on] = "live"
  /\ \A c, d \in Calls :
       call[c].pc = "starting" /\ call[d].pc = "starting" /\ call[c].on = call[d].on => c = d

IInv == TypeOK /\ Turns /\ OnCard /\ AsSeen /\ RunsAsSeen

-----------------------------------------------------------------------------
LEMMA IdleCall == Idle \in Call
BY DEF Idle, Call, NoSnapshot, Snapshot, Watermark

LEMMA Linking ==
  ASSUME NEW s \in Seq(Reports), NEW r \in Reports
  PROVE  Append(s, r) \in Seq(Reports) /\ ToSet(Append(s, r)) = ToSet(s) \cup {r}
<1>1. Append(s, r) \in Seq(Reports) /\ Len(Append(s, r)) = Len(s) + 1
  OBVIOUS
<1>2. /\ \A i \in 1..Len(s) : Append(s, r)[i] = s[i]
      /\ Append(s, r)[Len(s) + 1] = r
  OBVIOUS
<1>3. \A i : i \in DOMAIN Append(s, r) <=> i \in DOMAIN s \/ i = Len(s) + 1
  BY <1>1
<1> QED
  BY <1>1, <1>2, <1>3 DEF ToSet

(* What the moves of a card lead to.                                        *)
LEMMA TransitionType ==
  ASSUME NEW status, NEW event, Transition(status, event) # "illegal"
  PROVE  Transition(status, event) \in CardStatus
BY DEF Transition, CardStatus

LEMMA WatermarkType == \A status : WatermarkOf(status) \in Watermark
BY DEF WatermarkOf, Watermark

LEMMA RepairedCardType ==
  ASSUME TypeOK, NEW r \in Reports, RepairedStatus(r) # "illegal"
  PROVE  /\ RepairedCard(r).status \in CardStatus
         /\ RepairedCard(r).reports \in Seq(Reports)
         /\ RepairedCard(r).jobs = card.jobs
         /\ ToSet(RepairedCard(r).reports) = ToSet(card.reports) \cup {r}
<1>1. RepairedStatus(r) \in CardStatus
  BY TransitionType DEF RepairedStatus, TypeOK
<1>2. Linked(r) => r \in ToSet(card.reports)
  BY DEF Linked
<1> QED
  BY <1>1, <1>2, Linking DEF RepairedCard, TypeOK

ReportType == [Reports -> [status : ReportStatus, decisions : Nat, runs : SUBSET Jobs]]

(* A call that leaves its lane, and one that goes on in it, keep the types.  *)
LEMMA Leaving ==
  ASSUME TypeOK, NEW c \in Calls, call[c].on \in Reports, lane[call[c].on] # <<>>,
         Leave(c), card' = card, job' = job, Fault \/ UNCHANGED faults,
         report' \in ReportType, markdown' \in [Reports -> Watermark]
  PROVE  TypeOK'
<1>1. Tail(lane[call[c].on]) \in Seq(Calls)
  BY DEF TypeOK
<1>2. lane' \in [Reports -> Seq(Calls)]
  BY <1>1 DEF TypeOK, Leave, LeaveLane
<1>3. call' \in [Calls -> Call]
  BY IdleCall DEF TypeOK, Leave, End
<1>4. faults' \in 0..MaxFaults
  BY MaxFaultsAssumption DEF TypeOK, Fault
<1> QED
  BY <1>2, <1>3, <1>4 DEF TypeOK, ReportType

LEMMA GoingOn ==
  ASSUME TypeOK, NEW c \in Calls, NEW pc \in LanePC, NEW text \in Watermark,
         GoOn(c, pc, text), job' = job, lane' = lane, faults' = faults,
         card' \in [status : CardStatus, reports : Seq(Reports), jobs : SUBSET Jobs],
         report' \in ReportType, markdown' \in [Reports -> Watermark]
  PROVE  TypeOK'
<1>1. call' \in [Calls -> Call]
  BY ZenonT(60) DEF TypeOK, GoOn, Call
<1> QED
  BY <1>1 DEF TypeOK, ReportType

LEMMA TypeInLane ==
  ASSUME TypeOK, NEW c \in Calls, InLane(c)
  PROVE  TypeOK'
<1> DEFINE r == call[c].on
<1>a. /\ r \in Reports
      /\ lane[r] # <<>>
  BY DEF InLane, Running, Enter, EnterFails, RepairMarkdown, MarkdownFails, Refuse, ChecksFail,
         Validate, Decide, DecideFails, CommitFails, LinkDraft, LinkFails, Publish
<1>b. /\ card \in [status : CardStatus, reports : Seq(Reports), jobs : SUBSET Jobs]
      /\ report \in ReportType
      /\ markdown \in [Reports -> Watermark]
      /\ call[c].text \in Watermark
  BY DEF TypeOK, Call, ReportType
<1>c. {"repairing", "entered", "publishing"} \subseteq LanePC
  BY DEF LanePC
<1>d. Outcome \cup {"DRAFT"} \subseteq Watermark
  BY DEF Watermark
<1>e. report' = [report EXCEPT ![r].status = "reviewed"] => report' \in ReportType
  BY <1>a, <1>b, ZenonT(60) DEF ReportType, ReportStatus
<1>g. call[c].tool \in Outcome /\ Decided(c) => report' \in ReportType
  <2>1. Outcome \subseteq ReportStatus
    BY DEF ReportStatus
  <2> QED
    BY <1>a, <1>b, <2>1 DEF ReportType, Decided
<1>f. [markdown EXCEPT ![r] = call[c].text] \in [Reports -> Watermark]
  BY <1>b
<1>1. CASE Enter(c)
  <2>1. card' \in [status : CardStatus, reports : Seq(Reports), jobs : SUBSET Jobs]
    <3>1. CASE NeedsRepair(r)
      <4>1. RepairedStatus(r) # "illegal" /\ card' = RepairedCard(r)
        BY <1>1, <3>1 DEF Enter
      <4> QED
        BY <4>1, <1>a, <1>b, RepairedCardType DEF RepairedCard
    <3> QED
      BY <1>1, <1>b, <3>1 DEF Enter
  <2>2. PICK pc \in LanePC : GoOn(c, pc, WatermarkOf(report[r].status))
    BY <1>1, <1>c DEF Enter
  <2> QED
    BY <1>1, <1>b, <2>1, <2>2, GoingOn, WatermarkType DEF Enter
<1>2. CASE EnterFails(c) \/ MarkdownFails(c) \/ Refuse(c) \/ ChecksFail(c) \/ CommitFails(c) \/ LinkFails(c)
  <2>1. /\ Leave(c)
        /\ UNCHANGED <<card, report, markdown, job>>
        /\ Fault \/ UNCHANGED faults
    BY <1>2 DEF EnterFails, MarkdownFails, Refuse, ChecksFail, CommitFails, LinkFails
  <2> QED
    BY <2>1, <1>a, <1>b, Leaving
<1>3. CASE RepairMarkdown(c)
  BY <1>3, <1>b, <1>c, <1>f, GoingOn DEF RepairMarkdown
<1>4. CASE Validate(c)
  BY <1>4, <1>b, <1>c, <1>d, <1>e, GoingOn DEF Validate
<1>5. CASE Decide(c)
  <2>1. card' \in [status : CardStatus, reports : Seq(Reports), jobs : SUBSET Jobs]
    BY <1>5, <1>b, TransitionType DEF Decide
  <2> QED
    BY <1>5, <2>1, <1>b, <1>c, <1>d, <1>g, GoingOn DEF Decide
<1>6. CASE DecideFails(c)
  BY <1>6, <1>a, <1>b, <1>g, Leaving DEF DecideFails
<1>7. CASE LinkDraft(c)
  <2>1. Transition(card.status, "generate") = "reporting"
    BY <1>7 DEF LinkDraft, Generatable, Transition
  <2>2. Append(card.reports, r) \in Seq(Reports)
    BY <1>a, <1>b, Linking
  <2>3. card' \in [status : CardStatus, reports : Seq(Reports), jobs : SUBSET Jobs]
    BY <1>7, <1>b, <2>1, <2>2 DEF LinkDraft, CardStatus
  <2> QED
    BY <1>7, <2>3, <1>b, <1>c, GoingOn, WatermarkType DEF LinkDraft
<1>8. CASE Publish(c)
  BY <1>8, <1>a, <1>b, <1>f, Leaving DEF Publish
<1> QED
  BY <1>1, <1>2, <1>3, <1>4, <1>5, <1>6, <1>7, <1>8 DEF InLane

(* A call that turns to a report or to a run, and forgets its snapshot.     *)
LEMMA Renamed ==
  ASSUME NEW c \in Calls, call \in [Calls -> Call], NEW on \in Reports \cup Jobs,
         NEW pc \in {"starting", "queued"}
  PROVE  [call EXCEPT ![c].pc = pc, ![c].on = on, ![c].seen = NoSnapshot] \in [Calls -> Call]
<1>1. NoSnapshot \in Snapshot
  BY DEF NoSnapshot, Snapshot
<1>2. [call[c] EXCEPT !.pc = pc, !.on = on, !.seen = NoSnapshot] \in Call
  BY <1>1 DEF Call, LanePC
<1>3. [call EXCEPT ![c].pc = pc, ![c].on = on, ![c].seen = NoSnapshot]
        = [call EXCEPT ![c] = [call[c] EXCEPT !.pc = pc, !.on = on, !.seen = NoSnapshot]]
  OBVIOUS
<1> QED
  BY <1>2, <1>3

(* A call that is about to start or to link a run names it.                 *)
LEMMA TypeOutside ==
  ASSUME TypeOK, RunsAsSeen, NEW c \in Calls, Outside(c)
  PROVE  TypeOK'
<1>0. /\ call[c].pc \in {"starting", "submitted"} => call[c].on \in Jobs
      /\ call[c].seen.known \in SUBSET Jobs
      /\ call \in [Calls -> Call] /\ job \in [Jobs -> JobStatus]
      /\ NoSnapshot \in Snapshot
      /\ Fault \/ UNCHANGED faults => faults' \in 0..MaxFaults
  BY MaxFaultsAssumption DEF RunsAsSeen, TypeOK, Call, Snapshot, NoSnapshot, Fault
<1>e. End(c) => call' \in [Calls -> Call]
  BY IdleCall DEF End, TypeOK
<1>1. CASE List(c)
  <2>1. PICK seen \in Snapshot : call' = [call EXCEPT ![c].pc = "listed", ![c].seen = seen]
    BY <1>1 DEF List, Snapshot
  <2>2. call' \in [Calls -> Call]
    BY <1>0, <2>1 DEF Call
  <2> QED
    BY <1>1, <2>2 DEF List, TypeOK
<1>2. CASE Reconcile(c)
  <2>1. card.status = "planned" => Transition(card.status, "reconcile") = "running"
    BY DEF Transition
  <2>2. card' \in [status : CardStatus, reports : Seq(Reports), jobs : SUBSET Jobs]
    BY <1>0, <1>2, <2>1 DEF Reconcile, ReconciledCard, TypeOK, CardStatus
  <2>3. call' \in [Calls -> Call]
    BY <1>0, <1>2 DEF Reconcile, Call
  <2> QED
    BY <1>2, <2>2, <2>3 DEF Reconcile, TypeOK
<1>3. CASE OutsideFails(c) \/ ClosureFails(c) \/ LinkRunFails(c)
  <2>1. /\ End(c) /\ UNCHANGED <<card, report, markdown, job, lane>>
        /\ Fault \/ UNCHANGED faults
    BY <1>3 DEF OutsideFails, ClosureFails, LinkRunFails
  <2> QED
    BY <1>0, <1>e, <2>1 DEF TypeOK
<1>4. CASE CommitDraft(c)
  <2>1. PICK r \in Reports :
          /\ report' = [report EXCEPT ![r] = [status |-> "draft", decisions |-> 0, runs |-> card.jobs]]
          /\ call' = [call EXCEPT ![c].pc = "queued", ![c].on = r, ![c].seen = NoSnapshot]
          /\ lane' = [lane EXCEPT ![r] = Append(@, c)]
    BY <1>4 DEF CommitDraft
  <2>2. call' \in [Calls -> Call]
    BY <1>0, <2>1, Renamed DEF LanePC
  <2>3. report' \in ReportType
    BY <2>1 DEF TypeOK, ReportStatus, ReportType
  <2>4. lane' \in [Reports -> Seq(Calls)]
    <3>1. Append(lane[r], c) \in Seq(Calls)
      BY DEF TypeOK
    <3> QED
      BY <2>1, <3>1 DEF TypeOK
  <2> QED
    BY <1>4, <2>2, <2>3, <2>4 DEF CommitDraft, TypeOK, ReportType
<1>5. CASE Submit(c)
  <2>1. PICK j \in Jobs :
          /\ job' = [job EXCEPT ![j] = "live"]
          /\ call' = [call EXCEPT ![c].pc = "starting", ![c].on = j, ![c].seen = NoSnapshot]
    BY <1>5 DEF Submit
  <2>2. call' \in [Calls -> Call] /\ job' \in [Jobs -> JobStatus]
    BY <1>0, <2>1, Renamed DEF JobStatus
  <2> QED
    BY <1>5, <2>2 DEF Submit, TypeOK
<1>6. CASE Started(c)
  <2>1. call' \in [Calls -> Call]
    BY <1>0, <1>6 DEF Started, Call
  <2> QED
    BY <1>6, <2>1 DEF Started, TypeOK
<1>7. CASE RollBack(c)
  BY <1>0, <1>e, <1>7 DEF RollBack, TypeOK, JobStatus
<1>8. CASE LinkRun(c)
  <2>1. Transition(card.status, "shud_run") = "running"
    BY <1>8 DEF LinkRun, Runnable, Transition
  <2>2. card' \in [status : CardStatus, reports : Seq(Reports), jobs : SUBSET Jobs]
    BY <1>0, <1>8, <2>1 DEF LinkRun, TypeOK, CardStatus
  <2> QED
    BY <1>e, <1>8, <2>2 DEF LinkRun, TypeOK
<1> QED
  BY <1>1, <1>2, <1>3, <1>4, <1>5, <1>6, <1>7, <1>8 DEF Outside

LEMMA TypeStep ==
  ASSUME TypeOK, RunsAsSeen, [Next]_vars
  PROVE  TypeOK'
<1>1. ASSUME NEW c \in Calls, BeginReportCall(c)
      PROVE  TypeOK'
  <2>1. PICK tool \in LaneTool, r \in Reports :
          /\ call' = [call EXCEPT ![c] = [Idle EXCEPT !.pc = "queued", !.tool = tool, !.on = r]]
          /\ lane' = [lane EXCEPT ![r] = Append(@, c)]
    BY <1>1 DEF BeginReportCall
  <2>2. [Idle EXCEPT !.pc = "queued", !.tool = tool, !.on = r] \in Call
    BY IdleCall DEF Call, LanePC
  <2>3. call' \in [Calls -> Call]
    BY <2>1, <2>2 DEF TypeOK
  <2>4. Append(lane[r], c) \in Seq(Calls)
    BY DEF TypeOK
  <2>5. lane' \in [Reports -> Seq(Calls)]
    BY <2>1, <2>4 DEF TypeOK
  <2> QED
    BY <1>1, <2>3, <2>5 DEF BeginReportCall, TypeOK
<1>2. ASSUME NEW c \in Calls, BeginGenerate(c) \/ BeginRun(c)
      PROVE  TypeOK'
  <2>1. /\ [Idle EXCEPT !.pc = "listing", !.tool = "generate"] \in Call
        /\ [Idle EXCEPT !.pc = "listing", !.tool = "run"] \in Call
    BY IdleCall DEF Call
  <2> QED
    BY <1>2, <2>1 DEF BeginGenerate, BeginRun, TypeOK
<1>3. CASE JobEnds
  BY <1>3 DEF JobEnds, TypeOK, JobStatus
<1>4. CASE Crash
  <2>1. /\ call' \in [Calls -> Call]
        /\ lane' \in [Reports -> Seq(Calls)]
        /\ faults' \in 0..MaxFaults
    BY <1>4, IdleCall, MaxFaultsAssumption DEF Crash, Fault, TypeOK
  <2> QED
    BY <1>4, <2>1 DEF Crash, TypeOK
<1>5. CASE UNCHANGED vars
  BY <1>5 DEF vars, TypeOK
<1> QED
  BY <1>1, <1>2, <1>3, <1>4, <1>5, TypeInLane, TypeOutside DEF Next, Begin, Work

-----------------------------------------------------------------------------
(* Only the started call of a report moves it, its Markdown and its turn.   *)
Mine(c, r) ==
  /\ call[c].pc \in LanePC /\ call[c].on = r
  /\ lane[r] # <<>> /\ Head(lane[r]) = c
OthersStay(r) ==
  \A q \in Reports \ {r} : report'[q] = report[q] /\ markdown'[q] = markdown[q]
MineInOrder(r) ==
  /\ report[r].status # "absent"
  /\ report[r].status \in {"reviewed"} \cup Outcome => Linked(r)
  /\ markdown[r] \in Outcome => markdown[r] = report[r].status

LEMMA LeaveKeeps ==
  ASSUME IInv, TypeOK', NEW c \in Calls, NEW r \in Reports, Mine(c, r), Leave(c),
         card' = card, job' = job, OthersStay(r), MineInOrder(r)'
  PROVE  (Turns /\ OnCard /\ AsSeen /\ RunsAsSeen)'
<1>1. /\ call'[c] = Idle
      /\ \A d \in Calls \ {c} : call'[d] = call[d]
      /\ \A q \in Reports \ {r} : lane'[q] = lane[q]
  BY DEF IInv, TypeOK, Leave, End, LeaveLane, Mine
<1>2. \A d \in Calls \ {c} : call[d].pc \in InProgress => call[d].on \in Reports \ {r}
  BY DEF IInv, Turns, InProgress, LanePC, Mine
<1>3. Idle.pc = "idle" /\ Idle.seen.good = {}
  BY DEF Idle, NoSnapshot
<1>4. \A q \in Reports : Linked(q)' <=> Linked(q)
  BY DEF Linked
<1>5. Turns'
  BY <1>1, <1>2, <1>3 DEF IInv, Turns, OthersStay, MineInOrder, InProgress, LanePC
<1>6. OnCard'
  BY <1>1, <1>2, <1>3, <1>4 DEF IInv, Turns, OnCard, OthersStay, MineInOrder, InProgress, LanePC
<1>7. AsSeen'
  BY <1>1, <1>2, <1>3 DEF IInv, AsSeen, OthersStay, MineInOrder, InProgress
<1>8. RunsAsSeen'
  BY <1>1, <1>3 DEF IInv, RunsAsSeen
<1> QED
  BY <1>5, <1>6, <1>7, <1>8

LEMMA GoOnKeeps ==
  ASSUME IInv, TypeOK', NEW c \in Calls, NEW r \in Reports, Mine(c, r),
         NEW pc \in InProgress, NEW text, GoOn(c, pc, text),
         lane' = lane, job' = job, OthersStay(r), MineInOrder(r)',
         ToSet(card.reports) \subseteq ToSet(card'.reports), Linked(r)',
         pc # "entered" => text = WatermarkOf(report'[r].status),
         pc = "entered" => markdown'[r] = WatermarkOf(report'[r].status)
  PROVE  (Turns /\ OnCard /\ AsSeen /\ RunsAsSeen)'
<1>1. /\ call'[c] = [call[c] EXCEPT !.pc = pc, !.text = text]
      /\ \A d \in Calls \ {c} : call'[d] = call[d]
  BY DEF IInv, TypeOK, GoOn
<1>2. /\ call'[c].pc = pc /\ call'[c].text = text
      /\ call'[c].on = r /\ call'[c].seen = call[c].seen
  BY <1>1 DEF IInv, TypeOK, Call, Mine
<1>3. \A d \in Calls \ {c} : call[d].pc \in InProgress => call[d].on \in Reports \ {r}
  BY DEF IInv, Turns, InProgress, LanePC, Mine
<1>4. \A q \in Reports : Linked(q) => Linked(q)'
  BY DEF Linked
<1>5. Turns'
  <2> SUFFICES ASSUME NEW d \in Calls
               PROVE  /\ call'[d].pc \in LanePC =>
                           call'[d].on \in Reports /\ report'[call'[d].on].status # "absent"
                      /\ call'[d].pc \in InProgress =>
                           lane'[call'[d].on] # <<>> /\ Head(lane'[call'[d].on]) = d
    BY DEF Turns
  <2>1. CASE d = c
    BY <1>2, <2>1 DEF MineInOrder, Mine
  <2>2. CASE d # c
    BY <1>1, <1>3, <2>2 DEF IInv, Turns, OthersStay, MineInOrder
  <2> QED
    BY <2>1, <2>2
<1>6. OnCard'
  BY <1>1, <1>2, <1>3, <1>4 DEF IInv, OnCard, OthersStay, MineInOrder, InProgress
<1>7. AsSeen'
  <2>1. \A q \in Reports : markdown'[q] \in Outcome => markdown'[q] = report'[q].status
    BY DEF IInv, AsSeen, OthersStay, MineInOrder
  <2> SUFFICES ASSUME NEW d \in Calls
               PROVE  /\ call'[d].pc \in {"repairing", "publishing"} =>
                           call'[d].text = WatermarkOf(report'[call'[d].on].status)
                      /\ call'[d].pc = "entered" =>
                           markdown'[call'[d].on] = WatermarkOf(report'[call'[d].on].status)
    BY <2>1 DEF AsSeen, WatermarkOf
  <2>2. CASE d = c
    BY <1>2, <2>2
  <2>3. CASE d # c
    BY <1>1, <1>3, <2>3 DEF IInv, AsSeen, OthersStay, InProgress
  <2> QED
    BY <2>2, <2>3
<1>8. RunsAsSeen'
  <2>1. \A d \in Calls : call'[d].seen = call[d].seen
    BY <1>1, <1>2
  <2>2. \A d \in Calls : call'[d].pc \in {"starting", "submitted"} => call'[d] = call[d]
    BY <1>1, <1>2 DEF InProgress
  <2> QED
    BY <2>1, <2>2 DEF IInv, RunsAsSeen
<1> QED
  BY <1>5, <1>6, <1>7, <1>8

LEMMA OutsideKeeps ==
  ASSUME IInv, TypeOK', NEW c \in Calls, call'[c].pc \notin LanePC,
         \A d \in Calls \ {c} : call'[d] = call[d],
         lane' = lane, report' = report, markdown' = markdown,
         ToSet(card.reports) \subseteq ToSet(card'.reports)
  PROVE  (Turns /\ OnCard /\ AsSeen)'
<1>1. \A q \in Reports : Linked(q) => Linked(q)'
  BY DEF Linked
<1>2. Turns'
  BY DEF IInv, Turns, InProgress, LanePC
<1>3. OnCard'
  BY <1>1 DEF IInv, Turns, OnCard, InProgress, LanePC
<1>4. AsSeen'
  BY DEF IInv, AsSeen, LanePC
<1> QED
  BY <1>2, <1>3, <1>4

-----------------------------------------------------------------------------
LEMMA InLaneKeeps ==
  ASSUME IInv, TypeOK', NEW c \in Calls, InLane(c)
  PROVE  (Turns /\ OnCard /\ AsSeen /\ RunsAsSeen)'
<1>r. PICK r \in Reports : call[c].on = r /\ Mine(c, r)
  BY DEF InLane, Running, Enter, EnterFails, RepairMarkdown, MarkdownFails, Refuse, ChecksFail,
         Validate, Decide, DecideFails, CommitFails, LinkDraft, LinkFails, Publish, Mine, LanePC
<1>a. /\ MineInOrder(r)
      /\ call[c].pc \in InProgress => Linked(r)
      /\ call[c].pc \in {"repairing", "publishing"} => call[c].text = WatermarkOf(report[r].status)
      /\ call[c].pc = "entered" => markdown[r] = WatermarkOf(report[r].status)
  BY <1>r DEF IInv, MineInOrder, Turns, OnCard, AsSeen, Mine
<1>b. /\ card \in [status : CardStatus, reports : Seq(Reports), jobs : SUBSET Jobs]
      /\ report \in ReportType
      /\ markdown \in [Reports -> Watermark]
  BY DEF IInv, TypeOK, ReportType
<1>c. report' = report /\ markdown' = markdown => OthersStay(r)
  BY DEF OthersStay
<1>d. report' = report /\ markdown' = markdown /\ card' = card => MineInOrder(r)'
  BY <1>a DEF MineInOrder, Linked
<1>e. InProgress = {"repairing", "entered", "publishing"}
  BY DEF InProgress
<1>f. card' = card => ToSet(card.reports) \subseteq ToSet(card'.reports) /\ (Linked(r) => Linked(r)')
  BY DEF Linked
(* The Markdown of the report is replaced by the text of the call.          *)
<1>g. ASSUME markdown' = [markdown EXCEPT ![r] = call[c].text], report' = report, card' = card,
             call[c].pc \in {"repairing", "publishing"}
      PROVE  OthersStay(r) /\ MineInOrder(r)' /\ markdown'[r] = WatermarkOf(report'[r].status)
  <2>1. markdown'[r] = WatermarkOf(report'[r].status)
    BY <1>a, <1>b, <1>g
  <2>2. WatermarkOf(report[r].status) \in Outcome => WatermarkOf(report[r].status) = report[r].status
    BY DEF WatermarkOf, Outcome
  <2> QED
    BY <1>a, <1>b, <1>g, <2>1, <2>2 DEF OthersStay, MineInOrder, Linked
(* A decision is committed to a report that a call has entered.             *)
<1>h. ASSUME call[c].pc = "entered", call[c].tool \in Outcome, Precondition(c), Decided(c),
             markdown' = markdown, ToSet(card'.reports) = ToSet(card.reports)
      PROVE  /\ OthersStay(r) /\ MineInOrder(r)' /\ Linked(r)'
             /\ WatermarkOf(report'[r].status) = call[c].tool
  <2>1. report[r].status \in {"draft", "reviewed"} /\ markdown[r] = "DRAFT"
    BY <1>r, <1>a, <1>h DEF Precondition, WatermarkOf, Outcome
  <2>2. report' = [report EXCEPT ![r].status = call[c].tool, ![r].decisions = @ + 1]
    BY <1>h, <1>r DEF Decided
  <2>3. report'[r].status = call[c].tool /\ \A q \in Reports \ {r} : report'[q] = report[q]
    BY <2>2, <1>b DEF ReportType
  <2> QED
    BY <1>a, <1>e, <1>h, <2>1, <2>3 DEF OthersStay, MineInOrder, Linked, WatermarkOf, Outcome
<1>1. CASE Enter(c)
  <2> DEFINE text == WatermarkOf(report[r].status)
  <2>1. /\ ToSet(card.reports) \subseteq ToSet(card'.reports)
        /\ Linked(r)'
    <3>1. CASE NeedsRepair(r)
      <4>1. RepairedStatus(r) # "illegal" /\ card' = RepairedCard(r)
        BY <1>1, <1>r, <3>1 DEF Enter
      <4> QED
        BY <4>1, RepairedCardType DEF Linked, IInv
    <3>2. CASE ~NeedsRepair(r)
      BY <1>1, <1>r, <1>f, <3>2 DEF Enter, NeedsRepair
    <3> QED
      BY <3>1, <3>2
  <2>2. /\ GoOn(c, IF markdown[r] # text THEN "repairing" ELSE "entered", text)
        /\ UNCHANGED <<report, markdown, job, lane>>
    BY <1>1, <1>r DEF Enter
  <2>3. MineInOrder(r)'
    BY <1>a, <2>1, <2>2 DEF MineInOrder
  <2>4. CASE markdown[r] # text
    BY <1>r, <1>c, <1>e, <2>1, <2>2, <2>3, <2>4, GoOnKeeps
  <2>5. CASE markdown[r] = text
    BY <1>r, <1>c, <1>e, <2>1, <2>2, <2>3, <2>5, GoOnKeeps
  <2> QED
    BY <2>4, <2>5
<1>2. CASE EnterFails(c) \/ MarkdownFails(c) \/ Refuse(c) \/ ChecksFail(c) \/ CommitFails(c) \/ LinkFails(c)
  <2>1. Leave(c) /\ UNCHANGED <<card, report, markdown, job>>
    BY <1>2 DEF EnterFails, MarkdownFails, Refuse, ChecksFail, CommitFails, LinkFails
  <2> QED
    BY <2>1, <1>r, <1>c, <1>d, LeaveKeeps
<1>3. CASE RepairMarkdown(c)
  <2>1. /\ call[c].pc = "repairing"
        /\ markdown' = [markdown EXCEPT ![r] = call[c].text]
        /\ GoOn(c, "entered", call[c].text)
        /\ UNCHANGED <<card, report, job, lane>>
    BY <1>3, <1>r DEF RepairMarkdown, Running
  <2> QED
    BY <2>1, <1>r, <1>a, <1>e, <1>f, <1>g, GoOnKeeps
<1>4. CASE Validate(c)
  <2>1. /\ call[c].pc = "entered"
        /\ report[r].status = "draft"
        /\ report' = [report EXCEPT ![r].status = "reviewed"]
        /\ GoOn(c, "publishing", "DRAFT")
        /\ UNCHANGED <<card, markdown, job, lane>>
    BY <1>4, <1>r DEF Validate, Running, Precondition
  <2>2. report'[r].status = "reviewed" /\ \A q \in Reports \ {r} : report'[q] = report[q]
    BY <2>1, <1>b DEF ReportType
  <2>3. markdown[r] = "DRAFT" /\ WatermarkOf(report'[r].status) = "DRAFT"
    BY <2>1, <2>2, <1>a DEF WatermarkOf, Outcome
  <2>4. OthersStay(r) /\ MineInOrder(r)'
    BY <2>1, <2>2, <2>3, <1>a, <1>e DEF OthersStay, MineInOrder, Linked, Outcome
  <2> QED
    BY <2>1, <2>3, <2>4, <1>r, <1>a, <1>e, <1>f, GoOnKeeps
<1>5. CASE Decide(c)
  <2>1. /\ call[c].pc = "entered" /\ call[c].tool \in Outcome /\ Precondition(c) /\ Decided(c)
        /\ ToSet(card'.reports) = ToSet(card.reports)
        /\ GoOn(c, "publishing", call[c].tool)
        /\ UNCHANGED <<markdown, job, lane>>
    BY <1>5, <1>r, <1>b DEF Decide, Running
  <2> QED
    BY <2>1, <1>r, <1>e, <1>h, GoOnKeeps
<1>6. CASE DecideFails(c)
  <2>1. /\ call[c].pc = "entered" /\ call[c].tool \in Outcome /\ Precondition(c) /\ Decided(c)
        /\ Leave(c)
        /\ UNCHANGED <<card, markdown, job>>
    BY <1>6, <1>r DEF DecideFails, Running
  <2> QED
    BY <2>1, <1>r, <1>h, LeaveKeeps
<1>7. CASE LinkDraft(c)
  <2>1. /\ card' = [card EXCEPT !.status = Transition(@, "generate"), !.reports = Append(@, r)]
        /\ GoOn(c, "publishing", WatermarkOf(report[r].status))
        /\ UNCHANGED <<report, markdown, job, lane>>
    BY <1>7, <1>r DEF LinkDraft
  <2>2. ToSet(card'.reports) = ToSet(card.reports) \cup {r}
    BY <2>1, <1>b, Linking
  <2>3. Linked(r)'
    BY <2>2 DEF Linked
  <2>4. MineInOrder(r)'
    BY <2>1, <2>3, <1>a DEF MineInOrder
  <2> QED
    BY <2>1, <2>2, <2>3, <2>4, <1>r, <1>c, <1>e, GoOnKeeps
<1>8. CASE Publish(c)
  <2>1. /\ call[c].pc = "publishing"
        /\ markdown' = [markdown EXCEPT ![r] = call[c].text]
        /\ Leave(c)
        /\ UNCHANGED <<card, report, job>>
    BY <1>8, <1>r DEF Publish, Running
  <2> QED
    BY <2>1, <1>r, <1>g, LeaveKeeps
<1> QED
  BY <1>1, <1>2, <1>3, <1>4, <1>5, <1>6, <1>7, <1>8 DEF InLane

LEMMA OutsideStep ==
  ASSUME IInv, TypeOK', NEW c \in Calls, Outside(c)
  PROVE  (Turns /\ OnCard /\ AsSeen /\ RunsAsSeen)'
<1>a. /\ card \in [status : CardStatus, reports : Seq(Reports), jobs : SUBSET Jobs]
      /\ job \in [Jobs -> JobStatus]
      /\ call \in [Calls -> Call]
      /\ \A d \in Calls : call[d] \in Call
  BY DEF IInv, TypeOK
<1>b. End(c) => /\ call'[c].pc = "idle" /\ call'[c].seen.good = {}
                /\ \A d \in Calls \ {c} : call'[d] = call[d]
  BY <1>a DEF End, Idle, NoSnapshot
<1>c. card' = card => ToSet(card.reports) \subseteq ToSet(card'.reports)
  OBVIOUS
<1>d. /\ "idle" \notin LanePC /\ "listed" \notin LanePC /\ "reading" \notin LanePC
      /\ "submitting" \notin LanePC /\ "starting" \notin LanePC /\ "submitted" \notin LanePC
  BY DEF LanePC
<1>1. CASE List(c)
  <2> DEFINE known == {j \in Jobs : job[j] \notin {"unsubmitted", "rolledback"}}
             live == {j \in Jobs : job[j] = "live"}
             good == {j \in Jobs : job[j] = "collected"}
             seen == [known |-> known, live |-> live, good |-> good]
  <2>0. seen.good = good
    OBVIOUS
  <2>1. call' = [call EXCEPT ![c].pc = "listed", ![c].seen = seen]
    BY <1>1 DEF List
  <2> HIDE DEF seen
  <2>2. /\ call'[c].pc = "listed" /\ call'[c].seen = seen
        /\ \A d \in Calls \ {c} : call'[d] = call[d]
    BY <1>a, <2>1 DEF Call
  <2>3. (Turns /\ OnCard /\ AsSeen)'
    BY <1>1, <1>c, <1>d, <2>2, OutsideKeeps DEF List
  <2>4. RunsAsSeen'
    <3>1. \A i \in call'[c].seen.good : job[i] = "collected"
      BY <2>0, <2>2
    <3>2. job' = job
      BY <1>1 DEF List
    <3>3. \A d \in Calls : \A i \in call'[d].seen.good : job'[i] = "collected"
      BY <2>2, <3>1, <3>2 DEF IInv, RunsAsSeen
    <3> QED
      BY <2>2, <3>2, <3>3 DEF IInv, RunsAsSeen
  <2> QED
    BY <2>3, <2>4
<1>2. CASE Reconcile(c)
  <2>1. PICK pc \in {"reading", "submitting"} : call' = [call EXCEPT ![c].pc = pc]
    BY <1>2 DEF Reconcile
  <2>2. /\ call'[c].pc = pc /\ call'[c].seen = call[c].seen
        /\ \A d \in Calls \ {c} : call'[d] = call[d]
    BY <1>a, <2>1 DEF Call
  <2>3. card'.reports = card.reports
    BY <1>2, <1>a DEF Reconcile, ReconciledCard
  <2>4. (Turns /\ OnCard /\ AsSeen)'
    BY <1>2, <1>d, <2>2, <2>3, OutsideKeeps DEF Reconcile
  <2>5. RunsAsSeen'
    BY <1>2, <2>2 DEF Reconcile, IInv, RunsAsSeen
  <2> QED
    BY <2>4, <2>5
<1>3. CASE OutsideFails(c) \/ ClosureFails(c) \/ LinkRunFails(c)
  <2>1. End(c) /\ UNCHANGED <<card, report, markdown, job, lane>>
    BY <1>3 DEF OutsideFails, ClosureFails, LinkRunFails
  <2>2. (Turns /\ OnCard /\ AsSeen)'
    BY <1>b, <1>c, <1>d, <2>1, OutsideKeeps
  <2>3. RunsAsSeen'
    BY <1>b, <2>1 DEF IInv, RunsAsSeen
  <2> QED
    BY <2>2, <2>3
<1>4. CASE CommitDraft(c)
  <2>1. PICK r \in Reports :
          /\ report[r].status = "absent"
          /\ report' = [report EXCEPT ![r] = [status |-> "draft", decisions |-> 0, runs |-> card.jobs]]
          /\ call' = [call EXCEPT ![c].pc = "queued", ![c].on = r, ![c].seen = NoSnapshot]
          /\ lane' = [lane EXCEPT ![r] = Append(@, c)]
    BY <1>4 DEF CommitDraft
  <2>2. /\ call'[c].pc = "queued" /\ call'[c].on = r /\ call'[c].seen.good = {}
        /\ \A d \in Calls \ {c} : call'[d] = call[d]
    BY <1>a, <2>1 DEF Call, NoSnapshot
  <2>3. /\ report'[r].status = "draft"
        /\ \A q \in Reports \ {r} : report'[q] = report[q] /\ lane'[q] = lane[q]
    BY <2>1 DEF IInv, TypeOK
  <2>4. /\ card' = card /\ markdown' = markdown /\ job' = job
        /\ \A q \in Reports : Linked(q)' <=> Linked(q)
    BY <1>4 DEF CommitDraft, Linked
  <2>5. \A d \in Calls \ {c} : call[d].pc \in LanePC => call[d].on \in Reports \ {r}
    BY <2>1 DEF IInv, Turns
  <2>6. Turns'
    BY <2>2, <2>3, <2>5 DEF IInv, Turns, InProgress, LanePC
  <2>7. OnCard'
    BY <2>2, <2>3, <2>4, <2>5 DEF IInv, OnCard, InProgress, LanePC, Outcome
  <2>8. AsSeen'
    <3>1. markdown[r] \notin Outcome
      BY <2>1 DEF IInv, AsSeen, Outcome
    <3> QED
      BY <2>2, <2>3, <2>4, <2>5, <3>1 DEF IInv, AsSeen, LanePC
  <2>9. RunsAsSeen'
    BY <2>2, <2>4 DEF IInv, RunsAsSeen
  <2> QED
    BY <2>6, <2>7, <2>8, <2>9
<1>5. CASE Submit(c)
  <2>1. PICK j \in Jobs :
          /\ job[j] = "unsubmitted"
          /\ job' = [job EXCEPT ![j] = "live"]
          /\ call' = [call EXCEPT ![c].pc = "starting", ![c].on = j, ![c].seen = NoSnapshot]
    BY <1>5 DEF Submit
  <2>2. /\ call'[c].pc = "starting" /\ call'[c].on = j /\ call'[c].seen.good = {}
        /\ \A d \in Calls \ {c} : call'[d] = call[d]
    BY <1>a, <2>1 DEF Call, NoSnapshot
  <2>3. /\ job'[j] = "live" /\ \A i \in Jobs \ {j} : job'[i] = job[i]
    BY <1>a, <2>1
  <2>4. \A d \in Calls : call[d].seen.good \subseteq Jobs
    BY <1>a DEF Call, Snapshot
  <2>5. (Turns /\ OnCard /\ AsSeen)'
    BY <1>5, <1>c, <1>d, <2>2, OutsideKeeps DEF Submit
  <2>6. \A d \in Calls : \A i \in call'[d].seen.good : job'[i] = "collected"
    <3> SUFFICES ASSUME NEW d \in Calls \ {c}, NEW i \in call[d].seen.good
                 PROVE  job'[i] = "collected"
      BY <2>2
    <3>1. job[i] = "collected" /\ i \in Jobs
      BY <2>4 DEF IInv, RunsAsSeen
    <3> QED
      BY <2>1, <2>3, <3>1
  <2>7. \A d \in Calls \ {c} : call[d].pc = "starting" => call[d].on # j
    BY <2>1 DEF IInv, RunsAsSeen
  <2>8. RunsAsSeen'
    BY <2>2, <2>3, <2>6, <2>7 DEF IInv, RunsAsSeen
  <2> QED
    BY <2>5, <2>8
<1>6. CASE Started(c)
  <2>1. /\ call'[c].pc = "submitted" /\ call'[c].on = call[c].on /\ call'[c].seen = call[c].seen
        /\ \A d \in Calls \ {c} : call'[d] = call[d]
    BY <1>a, <1>6 DEF Started, Call
  <2>2. (Turns /\ OnCard /\ AsSeen)'
    BY <1>6, <1>c, <1>d, <2>1, OutsideKeeps DEF Started
  <2>3. RunsAsSeen'
    BY <1>6, <2>1 DEF Started, IInv, RunsAsSeen
  <2> QED
    BY <2>2, <2>3
<1>7. CASE RollBack(c)
  <2>1. call[c].on \in Jobs /\ job[call[c].on] = "live"
    BY <1>7 DEF RollBack, IInv, RunsAsSeen
  <2>2. \A i \in Jobs \ {call[c].on} : job'[i] = job[i]
    BY <1>7, <1>a DEF RollBack
  <2>3. \A d \in Calls : call[d].seen.good \subseteq Jobs
    BY <1>a DEF Call, Snapshot
  <2>4. (Turns /\ OnCard /\ AsSeen)'
    BY <1>7, <1>b, <1>c, <1>d, OutsideKeeps DEF RollBack
  <2>5. RunsAsSeen'
    BY <1>7, <1>b, <2>1, <2>2, <2>3 DEF RollBack, IInv, RunsAsSeen
  <2> QED
    BY <2>4, <2>5
<1>8. CASE LinkRun(c)
  <2>1. card'.reports = card.reports
    BY <1>8, <1>a DEF LinkRun
  <2>2. (Turns /\ OnCard /\ AsSeen)'
    BY <1>8, <1>b, <1>d, <2>1, OutsideKeeps DEF LinkRun
  <2>3. RunsAsSeen'
    BY <1>8, <1>b DEF LinkRun, IInv, RunsAsSeen
  <2> QED
    BY <2>2, <2>3
<1> QED
  BY <1>1, <1>2, <1>3, <1>4, <1>5, <1>6, <1>7, <1>8 DEF Outside

-----------------------------------------------------------------------------
LEMMA Initial == Init => IInv
<1> SUFFICES ASSUME Init
             PROVE  IInv
  OBVIOUS
<1>1. \A c \in Calls : call[c].pc = "idle" /\ call[c].seen.good = {}
  BY DEF Init, Idle, NoSnapshot
<1>2. TypeOK
  <2>1. card \in [status : CardStatus, reports : Seq(Reports), jobs : SUBSET Jobs]
    BY DEF Init, CardStatus
  <2>2. report \in [Reports -> [status : ReportStatus, decisions : Nat, runs : SUBSET Jobs]]
    BY DEF Init, ReportStatus
  <2>3. markdown \in [Reports -> Watermark] /\ job \in [Jobs -> JobStatus]
    BY DEF Init, Watermark, JobStatus
  <2> QED
    BY <2>1, <2>2, <2>3, IdleCall, MaxFaultsAssumption DEF Init, TypeOK
<1>3. OnCard /\ AsSeen
  BY <1>1 DEF Init, OnCard, AsSeen, InProgress, Outcome
<1> QED
  BY <1>1, <1>2, <1>3 DEF IInv, Turns, RunsAsSeen, InProgress, LanePC

LEMMA Inductive == IInv /\ [Next]_vars => IInv'
<1> SUFFICES ASSUME IInv, [Next]_vars
             PROVE  IInv'
  OBVIOUS
<1>t. TypeOK'
  BY TypeStep DEF IInv
<1>a. call \in [Calls -> Call] /\ lane \in [Reports -> Seq(Calls)] /\ job \in [Jobs -> JobStatus]
  BY DEF IInv, TypeOK
<1>1. ASSUME NEW c \in Calls, BeginReportCall(c)
      PROVE  IInv'
  <2>1. PICK tool \in LaneTool, r \in Reports :
          /\ report[r].status # "absent"
          /\ call' = [call EXCEPT ![c] = [Idle EXCEPT !.pc = "queued", !.tool = tool, !.on = r]]
          /\ lane' = [lane EXCEPT ![r] = Append(@, c)]
    BY <1>1 DEF BeginReportCall
  <2>2. /\ call'[c].pc = "queued" /\ call'[c].on = r /\ call'[c].seen.good = {}
        /\ \A d \in Calls \ {c} : call'[d] = call[d]
    BY <1>a, <2>1 DEF Idle, NoSnapshot
  <2>3. /\ \A q \in Reports \ {r} : lane'[q] = lane[q]
        /\ lane'[r] # <<>>
        /\ lane[r] # <<>> => Head(lane'[r]) = Head(lane[r])
    <3>1. /\ Append(lane[r], c) # <<>>
          /\ lane[r] # <<>> => Head(Append(lane[r], c)) = Head(lane[r])
      BY <1>a, HeadTailAppend, AppendProperties
    <3> QED
      BY <1>a, <2>1, <3>1
  <2>4. /\ card' = card /\ report' = report /\ markdown' = markdown /\ job' = job
        /\ \A q \in Reports : Linked(q)' <=> Linked(q)
    BY <1>1 DEF BeginReportCall, Linked
  <2>5. Turns'
    BY <2>1, <2>2, <2>3, <2>4 DEF IInv, Turns, InProgress, LanePC
  <2>6. OnCard' /\ AsSeen'
    BY <2>2, <2>4 DEF IInv, Turns, OnCard, AsSeen, InProgress, LanePC
  <2>7. RunsAsSeen'
    BY <2>2, <2>4 DEF IInv, RunsAsSeen
  <2> QED
    BY <1>t, <2>5, <2>6, <2>7 DEF IInv
<1>2. ASSUME NEW c \in Calls, BeginGenerate(c) \/ BeginRun(c)
      PROVE  IInv'
  <2>1. /\ call'[c].pc = "listing" /\ call'[c].seen.good = {}
        /\ \A d \in Calls \ {c} : call'[d] = call[d]
        /\ UNCHANGED <<card, report, markdown, job, lane>>
    <3>1. PICK tool \in {"generate", "run"} :
            call' = [call EXCEPT ![c] = [Idle EXCEPT !.pc = "listing", !.tool = tool]]
      BY <1>2 DEF BeginGenerate, BeginRun
    <3>2. /\ [Idle EXCEPT !.pc = "listing", !.tool = tool].pc = "listing"
          /\ [Idle EXCEPT !.pc = "listing", !.tool = tool].seen.good = {}
      BY DEF Idle, NoSnapshot
    <3> QED
      BY <1>a, <1>2, <3>1, <3>2 DEF BeginGenerate, BeginRun
  <2>2. (Turns /\ OnCard /\ AsSeen)'
    BY <1>t, <2>1, OutsideKeeps DEF LanePC
  <2>3. RunsAsSeen'
    BY <2>1 DEF IInv, RunsAsSeen
  <2> QED
    BY <1>t, <2>2, <2>3 DEF IInv
<1>3. CASE JobEnds
  <2>1. PICK j \in Jobs, end \in {"collected", "failed"} :
          /\ job[j] = "live" /\ \A c \in Calls : call[c].pc = "starting" => call[c].on # j
          /\ job' = [job EXCEPT ![j] = end]
    BY <1>3 DEF JobEnds
  <2>2. UNCHANGED <<card, report, markdown, call, lane>>
    BY <1>3 DEF JobEnds
  <2>3. \A c \in Calls : call[c].seen.good \subseteq Jobs
    BY <1>a DEF Call, Snapshot
  <2>4. RunsAsSeen'
    BY <1>a, <2>1, <2>2, <2>3 DEF IInv, RunsAsSeen
  <2>5. (Turns /\ OnCard /\ AsSeen)'
    BY <2>2 DEF IInv, Turns, OnCard, AsSeen, Linked
  <2> QED
    BY <1>t, <2>4, <2>5 DEF IInv
<1>4. CASE Crash
  <2>1. /\ \A c \in Calls : call'[c].pc = "idle" /\ call'[c].seen.good = {}
        /\ UNCHANGED <<card, report, markdown, job>>
    BY <1>4 DEF Crash, Idle, NoSnapshot
  <2>2. (Turns /\ OnCard /\ AsSeen)'
    BY <2>1 DEF IInv, Turns, OnCard, AsSeen, Linked, InProgress, LanePC
  <2>3. RunsAsSeen'
    BY <2>1 DEF RunsAsSeen
  <2> QED
    BY <1>t, <2>2, <2>3 DEF IInv
<1>5. CASE UNCHANGED vars
  BY <1>t, <1>5 DEF vars, IInv, Turns, OnCard, AsSeen, RunsAsSeen, Linked
<1> QED
  BY <1>t, <1>1, <1>2, <1>3, <1>4, <1>5, InLaneKeeps, OutsideStep DEF IInv, Next, Begin, Work

(* The inductive invariant holds in every reachable state.                  *)
THEOREM Invariance == Spec => []IInv
<1> QED
  BY Initial, Inductive, PTL DEF Spec

(* Every record has its type.                                               *)
THEOREM TypeCorrect == Spec => []TypeOK
<1>1. IInv => TypeOK
  BY DEF IInv
<1> QED
  BY <1>1, Invariance, PTL

(* withReportOperation: of the calls on a report one at a time has started, *)
(* whoever failed, was refused or was lost before it.                       *)
OneAtATime ==
  \A c, d \in Calls :
    call[c].pc \in InProgress /\ call[d].pc \in InProgress /\ call[c].on = call[d].on => c = d

(* Calls on a report take turns.                                            *)
THEOREM TurnsAreTaken == Spec => []OneAtATime
<1>1. IInv => OneAtATime
  BY DEF IInv, Turns, OneAtATime
<1> QED
  BY <1>1, Invariance, PTL

-----------------------------------------------------------------------------
(* What a step may do to a report, to its Markdown and to a call.           *)
LEMMA MarkdownFrame ==
  ASSUME IInv, [Next]_vars, NEW r \in Reports, markdown'[r] # markdown[r]
  PROVE  \E c \in Calls :
           /\ call[c].pc \in {"repairing", "publishing"} /\ call[c].on = r
           /\ markdown'[r] = call[c].text
<1> USE DEF IInv, TypeOK
<1>1. ASSUME NEW c \in Calls, RepairMarkdown(c) \/ Publish(c)
      PROVE  \E d \in Calls :
               /\ call[d].pc \in {"repairing", "publishing"} /\ call[d].on = r
               /\ markdown'[r] = call[d].text
  BY <1>1 DEF RepairMarkdown, Publish, Running
<1>2. ASSUME NEW c \in Calls, InLane(c), ~RepairMarkdown(c), ~Publish(c)
      PROVE  FALSE
  BY <1>2 DEF InLane, Enter, EnterFails, MarkdownFails, Refuse, ChecksFail,
              Validate, Decide, DecideFails, CommitFails, LinkDraft, LinkFails
<1>3. ASSUME NEW c \in Calls, Outside(c) \/ Begin(c)
      PROVE  FALSE
  BY <1>3 DEF Outside, List, Reconcile, OutsideFails, ClosureFails, CommitDraft, Submit, Started,
              RollBack, LinkRun, LinkRunFails, Begin, BeginReportCall, BeginGenerate, BeginRun
<1> QED
  BY <1>1, <1>2, <1>3 DEF Next, Work, JobEnds, Crash, vars

LEMMA DraftFrame ==
  ASSUME IInv, [Next]_vars, NEW r \in Reports,
         report[r].status = "absent", report'[r].status # "absent"
  PROVE  \E c \in Calls : Closed(c) /\ report'[r].runs = card.jobs
<1> USE DEF IInv, TypeOK
<1>1. ASSUME NEW c \in Calls, Validate(c) \/ Decide(c) \/ DecideFails(c)
      PROVE  FALSE
  <2>1. call[c].on \in Reports /\ report[call[c].on].status # "absent"
    BY <1>1 DEF Validate, Decide, DecideFails, Running, Turns, LanePC
  <2>2. report'[r] = report[r]
    BY <1>1, <2>1 DEF Validate, Decide, DecideFails, Decided
  <2> QED
    BY <2>2
<1>2. ASSUME NEW c \in Calls, InLane(c), ~Validate(c), ~Decide(c), ~DecideFails(c)
      PROVE  FALSE
  BY <1>2 DEF InLane, Enter, EnterFails, RepairMarkdown, MarkdownFails, Refuse, ChecksFail,
              CommitFails, LinkDraft, LinkFails, Publish
<1>3. ASSUME NEW c \in Calls, CommitDraft(c)
      PROVE  Closed(c) /\ report'[r].runs = card.jobs
  BY <1>3 DEF CommitDraft
<1>4. ASSUME NEW c \in Calls, Outside(c) \/ Begin(c), ~CommitDraft(c)
      PROVE  FALSE
  BY <1>4 DEF Outside, List, Reconcile, OutsideFails, ClosureFails, Submit, Started,
              RollBack, LinkRun, LinkRunFails, Begin, BeginReportCall, BeginGenerate, BeginRun
<1> QED
  BY <1>1, <1>2, <1>3, <1>4 DEF Next, Work, JobEnds, Crash, vars

LEMMA AnswerFrame ==
  ASSUME IInv, [Next]_vars, NEW c \in Calls, NEW r \in Reports, Answered(c, r)
  PROVE  Refuse(c) \/ ChecksFail(c) \/ Publish(c)
<1>1. /\ call[c].pc \in {"entered", "publishing"} /\ call[c].on = r
      /\ call'[c].pc = "idle" /\ faults' = faults /\ report' = report
  BY DEF Answered, Idle
<1>2. ~Fault
  <2>1. faults \in Nat
    BY MaxFaultsAssumption DEF IInv, TypeOK
  <2> QED
    BY <1>1, <2>1 DEF Fault
<1>3. ASSUME NEW d \in Calls, d # c, Work(d) \/ Begin(d)
      PROVE  call'[c] = call[c]
  BY <1>3 DEF IInv, TypeOK, Work, InLane, Enter, EnterFails, RepairMarkdown, MarkdownFails, Refuse,
              ChecksFail, Validate, Decide, DecideFails, CommitFails, LinkDraft, LinkFails, Publish,
              Outside, List, Reconcile, OutsideFails, ClosureFails, CommitDraft, Submit, Started,
              RollBack, LinkRun, LinkRunFails, Begin, BeginReportCall, BeginGenerate, BeginRun,
              GoOn, End, Leave
<1>4. ~Outside(c) /\ ~Begin(c)
  <2>1. Outside(c) => call[c].pc \in {"listing", "listed", "reading", "submitting", "starting", "submitted"}
    BY DEF Outside, List, Reconcile, OutsideFails, ClosureFails, CommitDraft, Submit, Started,
           RollBack, LinkRun, LinkRunFails
  <2>2. Begin(c) => call[c].pc = "idle"
    <3>1. Begin(c) => call[c] = Idle
      BY DEF Begin, BeginReportCall, BeginGenerate, BeginRun
    <3> QED
      BY <3>1 DEF Idle
  <2> QED
    BY <1>1, <2>1, <2>2
<1>5. ~EnterFails(c) /\ ~MarkdownFails(c) /\ ~CommitFails(c) /\ ~LinkFails(c)
  BY <1>1, <1>2 DEF EnterFails, MarkdownFails, CommitFails, LinkFails, Running
<1>6. ~Enter(c) /\ ~RepairMarkdown(c) /\ ~LinkDraft(c)
  BY <1>1 DEF Enter, RepairMarkdown, LinkDraft, Running
<1>7. ~Validate(c) /\ ~Decide(c)
  <2>1. ASSUME NEW text, GoOn(c, "publishing", text)
        PROVE  call'[c].pc = "publishing"
    BY <2>1 DEF GoOn, IInv, TypeOK, Call
  <2> QED
    BY <1>1, <2>1 DEF Validate, Decide
<1>8. ~DecideFails(c)
  <2>1. report[r].decisions \in Nat /\ report[r].decisions + 1 # report[r].decisions
    BY DEF IInv, TypeOK
  <2>2. Decided(c) => report'[r].decisions = report[r].decisions + 1
    BY <1>1 DEF Decided, IInv, TypeOK
  <2> QED
    BY <1>1, <2>1, <2>2 DEF DecideFails
<1> QED
  BY <1>1, <1>2, <1>3, <1>4, <1>5, <1>6, <1>7, <1>8 DEF Next, Work, InLane, JobEnds, Crash, vars

(* Two calls may answer about one report, and others move the card while    *)
(* evidence is read: what is drafted, shown and answered is still true.     *)
THEOREM WhatIsSaidStands == Spec => ReportsStand
<1>1. IInv /\ [Next]_vars =>
        [\A r \in Reports : report[r].status = "absent" /\ report'[r].status # "absent" =>
           report'[r].runs = card.jobs /\ \A j \in card.jobs : job[j] = "collected"]_vars
  <2> SUFFICES ASSUME IInv, [Next]_vars, NEW r \in Reports,
                      report[r].status = "absent", report'[r].status # "absent"
               PROVE  report'[r].runs = card.jobs /\ \A j \in card.jobs : job[j] = "collected"
    OBVIOUS
  <2> QED
    BY DraftFrame DEF IInv, RunsAsSeen, Closed
<1>2. IInv /\ [Next]_vars =>
        [\A r \in Reports : markdown[r] \in Outcome => markdown'[r] = markdown[r]]_vars
  <2> SUFFICES ASSUME IInv, [Next]_vars, NEW r \in Reports, markdown[r] \in Outcome,
                      markdown'[r] # markdown[r]
               PROVE  FALSE
    OBVIOUS
  <2>1. PICK c \in Calls : markdown'[r] = WatermarkOf(report[r].status)
    BY MarkdownFrame DEF IInv, AsSeen
  <2> QED
    BY <2>1 DEF IInv, AsSeen, WatermarkOf
<1>3. IInv /\ [Next]_vars =>
        [\A c \in Calls, r \in Reports : Answered(c, r) => Repaired(r)']_vars
  <2> SUFFICES ASSUME IInv, [Next]_vars, NEW c \in Calls, NEW r \in Reports, Answered(c, r)
               PROVE  Repaired(r)'
    OBVIOUS
  <2>1. /\ call[c].pc \in {"entered", "publishing"} /\ call[c].on = r
        /\ report' = report
    BY DEF Answered
  <2>2. Linked(r)
    BY <2>1 DEF IInv, OnCard, InProgress
  <2>3. card' = card /\ markdown'[r] = WatermarkOf(report[r].status)
    <3>1. CASE Refuse(c) \/ ChecksFail(c)
      BY <2>1, <3>1 DEF Refuse, ChecksFail, Running, IInv, AsSeen
    <3>2. CASE Publish(c)
      BY <2>1, <3>2 DEF Publish, Running, IInv, AsSeen, TypeOK
    <3> QED
      BY <3>1, <3>2, AnswerFrame
  <2> QED
    BY <2>1, <2>2, <2>3 DEF Repaired, Linked
<1> QED
  BY <1>1, <1>2, <1>3, Invariance, PTL
     DEF Spec, ReportsStand, DraftCoversCard, NoLateDraft, AnswerIsRepaired

-----------------------------------------------------------------------------
(* The refinement.  The decision of a report is its status once decided.    *)
DecisionOf(r) == IF report[r].status \in Outcome THEN report[r].status ELSE "none"

LEMMA DecisionFrame ==
  ASSUME IInv, [Next]_vars, NEW r \in Reports, report'[r].status # report[r].status,
         report'[r].status \in Outcome \/ report[r].status \in Outcome
  PROVE  \E c \in Calls : /\ call[c].on = r /\ (Decide(c) \/ DecideFails(c))
<1> USE DEF IInv, TypeOK
<1>1. ASSUME NEW c \in Calls, Validate(c)
      PROVE  FALSE
  BY <1>1 DEF Validate, Precondition, Running, Outcome
<1>2. ASSUME NEW c \in Calls, Decide(c) \/ DecideFails(c)
      PROVE  call[c].on = r
  BY <1>2 DEF Decide, DecideFails, Decided
<1>3. ASSUME NEW c \in Calls, InLane(c), ~Validate(c), ~Decide(c), ~DecideFails(c)
      PROVE  FALSE
  BY <1>3 DEF InLane, Enter, EnterFails, RepairMarkdown, MarkdownFails, Refuse, ChecksFail,
              CommitFails, LinkDraft, LinkFails, Publish
<1>4. ASSUME NEW c \in Calls, CommitDraft(c)
      PROVE  FALSE
  BY <1>4 DEF CommitDraft, Outcome
<1>5. ASSUME NEW c \in Calls, Outside(c) \/ Begin(c), ~CommitDraft(c)
      PROVE  FALSE
  BY <1>5 DEF Outside, List, Reconcile, OutsideFails, ClosureFails, Submit, Started,
              RollBack, LinkRun, LinkRunFails, Begin, BeginReportCall, BeginGenerate, BeginRun
<1> QED
  BY <1>1, <1>2, <1>3, <1>4, <1>5 DEF Next, Work, JobEnds, Crash, vars

(* A step that does not decide leaves every decision.                       *)
LEMMA DecisionsStay ==
  ASSUME IInv, [Next]_vars, \A c \in Calls : ~Decide(c) /\ ~DecideFails(c)
  PROVE  [r \in Reports |-> DecisionOf(r)]' = [r \in Reports |-> DecisionOf(r)]
<1>1. ASSUME NEW r \in Reports
      PROVE  DecisionOf(r)' = DecisionOf(r)
  <2>1. \/ report'[r].status = report[r].status
        \/ report'[r].status \notin Outcome /\ report[r].status \notin Outcome
    BY DecisionFrame
  <2> QED
    BY <2>1 DEF DecisionOf
<1> QED
  BY <1>1

(* The decision of a started call is the first of its report.               *)
LEMMA OneDecision ==
  ASSUME IInv, NEW c \in Calls, Decide(c) \/ DecideFails(c)
  PROVE  /\ call[c].tool \in Outcome
         /\ \E r \in Reports :
              /\ DecisionOf(r) = "none" /\ DecisionOf(r)' = call[c].tool
              /\ [q \in Reports |-> DecisionOf(q)]'
                   = [[q \in Reports |-> DecisionOf(q)] EXCEPT ![r] = call[c].tool]
<1>1. PICK r \in Reports :
        /\ call[c].on = r /\ call[c].tool \in Outcome
        /\ report[r].status \in {"draft", "reviewed"}
        /\ Decided(c)
  BY DEF Decide, DecideFails, Running, Precondition
<1>2. report' = [report EXCEPT ![r].status = call[c].tool, ![r].decisions = @ + 1]
  BY <1>1 DEF Decided
<1>3. report'[r].status = call[c].tool /\ \A q \in Reports \ {r} : report'[q] = report[q]
  BY <1>2 DEF IInv, TypeOK
<1>4. DecisionOf(r) = "none" /\ DecisionOf(r)' = call[c].tool
  BY <1>1, <1>3 DEF DecisionOf, Outcome
<1>5. \A q \in Reports \ {r} : DecisionOf(q)' = DecisionOf(q)
  BY <1>3 DEF DecisionOf
<1>6. [q \in Reports |-> DecisionOf(q)]'
        = [[q \in Reports |-> DecisionOf(q)] EXCEPT ![r] = call[c].tool]
  BY <1>4, <1>5
<1> QED
  BY <1>1, <1>4, <1>6

(* How a step moves the card.                                               *)
CardStays == card'.status = card.status
Reporting == card.status \in {"planned", "running", "reporting"} /\ card'.status = "reporting"
Closes(outcome, status) ==
  card.status = "reporting" /\ card'.status = status
  /\ \E r \in Reports : DecisionOf(r)' = outcome
Moves ==
  \/ CardStays
  \/ card.status = "planned" /\ card'.status = "running"
  \/ Reporting
  \/ Closes("accepted", "done")
  \/ Closes("rejected", "cancelled")
  \/ Closes("revision_requested", "planned")

(* A decision moves a card that is reporting to its own status.             *)
LEMMA OutcomeMoves ==
  ASSUME NEW status, NEW event \in Outcome, Transition(status, event) # "illegal"
  PROVE  /\ status = "reporting"
         /\ event = "accepted" => Transition(status, event) = "done"
         /\ event = "rejected" => Transition(status, event) = "cancelled"
         /\ event = "revision_requested" => Transition(status, event) = "planned"
BY DEF Transition, Outcome

LEMMA GenerateMoves ==
  ASSUME NEW status, Transition(status, "generate") # "illegal"
  PROVE  status \in {"planned", "running", "reporting"} /\ Transition(status, "generate") = "reporting"
BY DEF Transition

(* The repair of a report on the card closes it as the report was decided;   *)
(* that of a draft not yet on it only reports.                             *)
LEMMA RepairMoves ==
  ASSUME IInv, NEW r \in Reports, report[r].status # "absent",
         RepairedStatus(r) # "illegal", card'.status = RepairedStatus(r), report' = report
  PROVE  Moves
<1>1. report[r].status \in {"draft", "reviewed"} \cup Outcome
  BY DEF IInv, TypeOK, ReportStatus
<1>2. CASE ~Linked(r)
  <2>1. report[r].status = "draft"
    BY <1>1, <1>2 DEF IInv, OnCard
  <2>2. Projection(report[r].status) = "reporting"
    BY <2>1 DEF Projection
  <2>3. ProjectionEvent(report[r].status) = "generate"
    BY <2>1 DEF ProjectionEvent, Outcome
  <2>4. Transition(card.status, "generate") # "illegal"
    BY <1>2, <2>2, <2>3 DEF RepairedStatus, Transition
  <2> QED
    BY <1>2, <2>2, <2>4, GenerateMoves DEF RepairedStatus, Moves, Reporting
<1>3. CASE Linked(r) /\ card.status # Projection(report[r].status)
  <2>1. card'.status = Transition(card.status, ProjectionEvent(report[r].status))
    BY <1>3 DEF RepairedStatus
  <2>2. CASE report[r].status \in Outcome
    <3>1. DecisionOf(r)' = report[r].status
      BY <2>2 DEF DecisionOf
    <3> QED
      BY <2>1, <2>2, <3>1, OutcomeMoves DEF ProjectionEvent, Moves, Closes, Outcome
  <2>3. CASE report[r].status \notin Outcome
    BY <2>1, <2>3, GenerateMoves DEF ProjectionEvent, Moves, Reporting
  <2> QED
    BY <2>2, <2>3
<1>4. CASE Linked(r) /\ card.status = Projection(report[r].status)
  BY <1>4 DEF RepairedStatus, Moves, CardStays
<1> QED
  BY <1>2, <1>3, <1>4

LEMMA CardFrame ==
  ASSUME IInv, [Next]_vars
  PROVE  Moves
<1> USE DEF IInv, TypeOK
<1>1. ASSUME NEW c \in Calls, Enter(c)
      PROVE  Moves
  <2>1. PICK r \in Reports : call[c].on = r /\ report[r].status # "absent"
    BY <1>1 DEF Enter, Running, Turns, LanePC
  <2>2. CASE NeedsRepair(r)
    <3>1. RepairedStatus(r) # "illegal" /\ card' = RepairedCard(r) /\ report' = report
      BY <1>1, <2>1, <2>2 DEF Enter
    <3>2. card'.status = RepairedStatus(r)
      BY <3>1 DEF RepairedCard
    <3> QED
      BY <2>1, <3>1, <3>2, RepairMoves
  <2>3. CASE ~NeedsRepair(r)
    BY <1>1, <2>1, <2>3 DEF Enter, Moves, CardStays
  <2> QED
    BY <2>2, <2>3
<1>2. ASSUME NEW c \in Calls, Decide(c)
      PROVE  Moves
  <2>1. /\ call[c].tool \in Outcome
        /\ \E r \in Reports : DecisionOf(r)' = call[c].tool
    BY <1>2, OneDecision
  <2>2. /\ Transition(card.status, call[c].tool) # "illegal"
        /\ card'.status = Transition(card.status, call[c].tool)
    BY <1>2 DEF Decide
  <2> QED
    BY <2>1, <2>2, OutcomeMoves DEF Moves, Closes, Outcome
<1>3. ASSUME NEW c \in Calls, LinkDraft(c)
      PROVE  Moves
  <2>1. /\ Generatable
        /\ card'.status = Transition(card.status, "generate")
    BY <1>3 DEF LinkDraft
  <2> QED
    BY <2>1 DEF Generatable, Transition, Moves, Reporting
<1>4. ASSUME NEW c \in Calls, Reconcile(c)
      PROVE  Moves
  <2>1. card'.status = card.status \/
        (card.status = "planned" /\ card'.status = Transition("planned", "reconcile"))
    BY <1>4 DEF Reconcile, ReconciledCard
  <2>2. Transition("planned", "reconcile") = "running"
    BY DEF Transition
  <2> QED
    BY <2>1, <2>2 DEF Moves, CardStays
<1>5. ASSUME NEW c \in Calls, LinkRun(c)
      PROVE  Moves
  <2>1. Runnable /\ card'.status = Transition(card.status, "shud_run")
    BY <1>5 DEF LinkRun
  <2> QED
    BY <2>1 DEF Runnable, Transition, Moves, CardStays
<1>6. ASSUME NEW c \in Calls, InLane(c), ~Enter(c), ~Decide(c), ~LinkDraft(c)
      PROVE  card' = card
  BY <1>6 DEF InLane, EnterFails, RepairMarkdown, MarkdownFails, Refuse, ChecksFail, Validate,
              DecideFails, CommitFails, LinkFails, Publish
<1>7. ASSUME NEW c \in Calls, Outside(c) \/ Begin(c), ~Reconcile(c), ~LinkRun(c)
      PROVE  card' = card
  BY <1>7 DEF Outside, List, OutsideFails, ClosureFails, CommitDraft, Submit, Started,
              RollBack, LinkRunFails, Begin, BeginReportCall, BeginGenerate, BeginRun
<1>8. card' = card => Moves
  BY DEF Moves, CardStays
<1> QED
  BY <1>1, <1>2, <1>3, <1>4, <1>5, <1>6, <1>7, <1>8 DEF Next, Work, JobEnds, Crash, vars

(* However calls overlap, fail and are lost with their host, a report is    *)
(* decided once, only a decision closes the card, and nothing reopens it.   *)
THEOREM Refinement == Spec => ImplementsOutcome
<1>1. Init => Outcomes!Init
  BY DEF Init, Outcomes!Init, Outcome
<1>2. IInv /\ [Next]_vars =>
        [Outcomes!Next]_<<card.status,
                          [r \in Reports |-> IF report[r].status \in Outcome THEN report[r].status
                                             ELSE "none"]>>
  <2> SUFFICES ASSUME IInv, [Next]_vars
               PROVE  \/ Outcomes!Next
                      \/ CardStays /\ [r \in Reports |-> DecisionOf(r)]' = [r \in Reports |-> DecisionOf(r)]
    BY DEF CardStays, DecisionOf
  <2>1. Outcomes!CardMoves \/ CardStays
    <3>1. \A outcome : (\E r \in Reports : DecisionOf(r)' = outcome) => Outcomes!Decided(outcome)'
      BY DEF DecisionOf, Outcomes!Decided
    <3> QED
      BY <3>1, CardFrame DEF Moves, Reporting, Closes, Outcomes!CardMoves, Outcomes!Work,
         Outcomes!Report, Outcomes!Accept, Outcomes!Reject, Outcomes!Revise
  <2>2. CASE \A c \in Calls : ~Decide(c) /\ ~DecideFails(c)
    <3>1. [r \in Reports |-> DecisionOf(r)]' = [r \in Reports |-> DecisionOf(r)]
      BY <2>2, DecisionsStay
    <3> QED
      BY <2>1, <3>1 DEF DecisionOf, Outcomes!Next
  <2>3. ASSUME NEW c \in Calls, Decide(c) \/ DecideFails(c)
        PROVE  Outcomes!Next
    <3>1. Outcomes!Decide
      BY <2>3, OneDecision DEF DecisionOf, Outcomes!Decide
    <3> QED
      BY <2>1, <3>1 DEF CardStays, Outcomes!Next
  <2> QED
    BY <2>2, <2>3
<1> QED
  BY <1>1, <1>2, Invariance, PTL DEF Spec, ImplementsOutcome, Outcomes!Spec
=============================================================================
