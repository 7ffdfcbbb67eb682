----------------------------- MODULE CodeChange -----------------------------
(***************************************************************************)
(* One code_change task: the source checkout it edits, its change requests  *)
(* and their patches, the builds made of them, the runs of those builds and  *)
(* the verification cases that compare two runs, up to the closure of the    *)
(* task.  change_create, shud_build and verification_run await git, make or  *)
(* the job registry; between two awaits somebody may replace a file or call   *)
(* another tool.  change_submit waits for the approval of a person where the policy  *)
(* gate asks for one; its own execution awaits nothing.                    *)
(*                                                                         *)
(* People and other programs work in repos/SHUD and nothing orders them with  *)
(* the harness: every git command sees a HEAD and a working tree of its own.  *)
(*                                                                         *)
(* A digest is the value it digests.  The objects of other tasks, the flag   *)
(* rhs_openmp, thread counts and inputs are left out: they only add refusals. *)
(***************************************************************************)
EXTENDS Naturals, Sequences, SequencesExt, FiniteSets

CONSTANTS Files, Commits,
          Tree,            \* the contents of the files at each commit
          Contents,
          Pin,             \* source_base_commit of the new task
          Guarded,         \* the files whose semantic floor is above io_format
          Calls,           \* tool calls that overlap
          Approvals,       \* callIds of change_submit, as many as reach its execution
          MaxChanges, MaxBuilds, MaxRuns, MaxCases,
          MaxFaults        \* bound on failures and on interference from outside

ASSUME TreeAssumption == Tree \in [Commits -> [Files -> Contents]] /\ Pin \in Commits
                          /\ Guarded \subseteq Files
ASSUME BoundAssumption == {MaxChanges, MaxBuilds, MaxRuns, MaxCases, MaxFaults} \subseteq Nat

VARIABLES
  card,             \* task.json: status, pinned commit, linked changes, jobs and verifications
  change,           \* changes/<id>.json in order of creation, with the bytes of patches/<id>.patch
  build,            \* builds/<id>/build-record.json and the sources it was made of
  run,              \* run jobs and their records
  case,             \* verifications/<id>.json
  call,             \* the calls of the host process
  allowed,          \* the allowed-once answers in the session log: callId and change
  faults            \* failures and interference still allowed

evidenceVars == <<build, run, case>>
vars == <<card, change, build, run, case, call, allowed, faults>>

(* One hunk per file: what the file was and what it becomes.               *)
Hunk == [file : Files, from : Contents, to : Contents]
Patch == SUBSET Hunk
NoPatch == {}
Missing == {}                     \* what patches/<id>.patch holds: nothing, or one patch

Status == {"planned", "running", "reporting", "done"}    \* done, or cancelled
Id(bound) == 1..bound
None == 0

Idle == [pc |-> "idle", tool |-> "none", pin |-> Pin, on |-> None, other |-> None,
         files |-> {}, patch |-> NoPatch, ref |-> "none"]
Call == [pc : {"idle", "head", "status", "diff", "publish", "produce", "evidence", "asked", "granted"},
         tool : {"none", "change_create", "change_submit", "shud_build", "verification_run"},
         pin : Commits, on : Nat, other : Nat, files : SUBSET Files, patch : Patch,
         ref : Approvals \cup {"none"}]

TypeOK ==
  /\ card \in [status : Status, pin : Commits, changes : SUBSET DOMAIN change,
               jobs : SUBSET DOMAIN run, cases : SUBSET DOMAIN case]
  /\ change \in Seq([status : {"proposed", "approved"}, base : Commits, files : SUBSET Files,
                     asks : BOOLEAN, patch : Patch, bytes : SUBSET Patch, ref : Approvals \cup {"none"}])
  /\ build \in Seq([change : {None} \cup DOMAIN change, commit : Commits,
                    source : [Files -> Contents], intact : BOOLEAN])
  /\ run \in Seq([build : DOMAIN build, status : {"live", "succeeded", "failed"}])
  /\ case \in Seq([change : DOMAIN change, base : DOMAIN run, candidate : DOMAIN run])
  /\ call \in [Calls -> Call]
  /\ allowed \subseteq [ref : Approvals, change : DOMAIN change]
  /\ faults \in 0..MaxFaults

Init ==
  /\ card = [status |-> "planned", pin |-> Pin, changes |-> {}, jobs |-> {}, cases |-> {}]
  /\ change = <<>> /\ build = <<>> /\ run = <<>> /\ case = <<>>
  /\ call = [k \in Calls |-> Idle]
  /\ allowed = {} /\ faults = MaxFaults

-----------------------------------------------------------------------------
(* git status, and git diff HEAD restricted to the given paths.            *)
Modified(tree, work) == {f \in Files : tree[f] # work[f]}
DiffHead(tree, work, files) ==
  {[file |-> f, from |-> tree[f], to |-> work[f]] : f \in Modified(tree, work) \cap files}

Applies(patch, tree) == \A h \in patch : tree[h.file] = h.from
Applied(patch, tree) ==
  [f \in Files |-> IF \E h \in patch : h.file = f
                     THEN (CHOOSE h \in patch : h.file = f).to ELSE tree[f]]
PathsOf(patch) == {h.file : h \in patch}

Fault == faults > 0 /\ faults' = faults - 1

At(k, tool, pc) == call[k].tool = tool /\ call[k].pc = pc
Goto(k, pc) == call' = [call EXCEPT ![k].pc = pc]
Return(k) == call' = [call EXCEPT ![k] = Idle]
Open == card.status \in {"planned", "running"}

-----------------------------------------------------------------------------
(* readSourceCheckout and observeSourceChanges, of change_create and of    *)
(* shud_build: three git commands with an await after each.                *)
Observing(k, pc) == call[k].tool \in {"change_create", "shud_build"} /\ call[k].pc = pc

ReadHead(k) ==
  /\ Observing(k, "head")
  /\ \E head \in Commits :
       IF head = call[k].pin THEN Goto(k, "status") ELSE Return(k)
  /\ UNCHANGED <<card, change, evidenceVars, faults, allowed>>

ReadStatus(k) ==
  /\ Observing(k, "status")
  /\ \E head \in Commits, work \in [Files -> Contents] :
       LET files == Modified(Tree[head], work)
       IN call' = [call EXCEPT ![k].files = files,
                               ![k].pc = IF files = {} THEN "publish" ELSE "diff"]
  /\ UNCHANGED <<card, change, evidenceVars, faults, allowed>>

ReadDiffOfTree(k) ==              \* a mistake: the diff is not restricted to the listed paths
  /\ Observing(k, "diff")
  /\ \E head \in Commits, work \in [Files -> Contents] :
       call' = [call EXCEPT ![k].patch = DiffHead(Tree[head], work, Files), ![k].pc = "publish"]
  /\ UNCHANGED <<card, change, evidenceVars, faults, allowed>>

ReadDiff(k) ==
  /\ Observing(k, "diff")
  /\ \E head \in Commits, work \in [Files -> Contents] :
       call' = [call EXCEPT ![k].patch = DiffHead(Tree[head], work, call[k].files),
                            ![k].pc = "publish"]
  /\ UNCHANGED <<card, change, evidenceVars, faults, allowed>>

-----------------------------------------------------------------------------
(* change_create                                                           *)
BeginCreate(k) ==
  /\ call[k] = Idle /\ Open
  /\ call' = [call EXCEPT ![k] = [Idle EXCEPT !.pc = "head", !.tool = "change_create",
                                              !.pin = card.pin]]
  /\ UNCHANGED <<card, change, evidenceVars, faults, allowed>>

Eligible(k) == Open /\ card.pin = call[k].pin

(* deriveChangeRequest: a declaration may raise the semantic floor, and with *)
(* it the change is one a person is asked about.                           *)
NewChange(k, bytes) ==
  \E raised \in BOOLEAN :
    change' = Append(change, [status |-> "proposed", base |-> call[k].pin, files |-> call[k].files,
                              asks |-> raised \/ call[k].files \cap Guarded # {},
                              patch |-> call[k].patch, bytes |-> bytes, ref |-> "none"])

(* The publication stretch: the record, its patch, its link on the card.   *)
(* What was written before a failure or a crash stays.                     *)
PublishChange(k) ==
  /\ At(k, "change_create", "publish") /\ call[k].files # {} /\ Eligible(k)
  /\ Len(change) < MaxChanges
  /\ \/ /\ NewChange(k, {call[k].patch})
        /\ card' = [card EXCEPT !.status = "running", !.changes = @ \cup {Len(change) + 1}]
        /\ UNCHANGED faults
     \/ /\ Fault
        /\ NewChange(k, Missing) \/ NewChange(k, {call[k].patch})
        /\ UNCHANGED card
  /\ Return(k)
  /\ UNCHANGED <<evidenceVars, allowed>>

CreateRefused(k) ==
  /\ At(k, "change_create", "publish")
  /\ call[k].files = {} \/ ~Eligible(k)
  /\ Return(k)
  /\ UNCHANGED <<card, change, evidenceVars, faults, allowed>>

-----------------------------------------------------------------------------
(* change_submit.  The policy gate lets the call pass, denies it or has the  *)
(* host ask; it asks also about a change or a patch it cannot read.         *)
GatePassingUnread(c, readable) ==    \* a mistake: what cannot be read is left to the tool
  IF ~readable \/ change[c].bytes = Missing THEN "granted"
  ELSE IF change[c].bytes # {change[c].patch} THEN "idle"
  ELSE IF change[c].asks THEN "asked" ELSE "granted"

Gate(c, readable) ==
  IF ~readable \/ change[c].bytes = Missing THEN "asked"
  ELSE IF change[c].bytes # {change[c].patch} THEN "idle"
  ELSE IF change[c].asks THEN "asked" ELSE "granted"

Fresh(ref) == /\ \A c \in DOMAIN change : change[c].ref # ref
              /\ \A k \in Calls : call[k].ref # ref
              /\ \A answer \in allowed : answer.ref # ref

BeginSubmit(k) ==
  /\ call[k] = Idle
  /\ \E c \in DOMAIN change, ref \in Approvals, readable \in BOOLEAN :
       /\ Fresh(ref) /\ Gate(c, readable) # "idle"
       /\ IF readable THEN UNCHANGED faults ELSE Fault
       /\ call' = [call EXCEPT ![k] = [Idle EXCEPT !.pc = Gate(c, readable), !.tool = "change_submit",
                                                   !.on = c, !.ref = ref]]
  /\ UNCHANGED <<card, change, evidenceVars, allowed>>

(* Only allowed-once lets the tool execute.                                *)
Answer(k) ==
  /\ At(k, "change_submit", "asked")
  /\ \/ allowed' = allowed \cup {[ref |-> call[k].ref, change |-> call[k].on]} /\ Goto(k, "granted")
     \/ Return(k) /\ UNCHANGED allowed
  /\ UNCHANGED <<card, change, evidenceVars, faults>>

Approve(k) ==
  /\ change' = [change EXCEPT ![call[k].on].status = "approved", ![call[k].on].ref = call[k].ref]
  /\ Return(k)
  /\ UNCHANGED <<card, evidenceVars, allowed, faults>>

Submittable(k) ==
  LET c == change[call[k].on]
  IN c.status = "proposed" /\ card.status = "running" /\ c.bytes = {c.patch}

SubmitAgain(k) ==                 \* a mistake: an approved change may be submitted again
  /\ At(k, "change_submit", "granted")
  /\ card.status = "running" /\ change[call[k].on].bytes = {change[call[k].on].patch}
  /\ Approve(k)

Submit(k) == At(k, "change_submit", "granted") /\ Submittable(k) /\ Approve(k)

SubmitRefused(k) ==
  /\ At(k, "change_submit", "granted")
  /\ \/ ~Submittable(k) /\ UNCHANGED faults
     \/ Fault
  /\ Return(k)
  /\ UNCHANGED <<card, change, evidenceVars, allowed>>

-----------------------------------------------------------------------------
(* shud_build: of the pinned commit, or of an approved change.             *)
BeginBuild(k) ==
  /\ call[k] = Idle /\ Open
  /\ \E c \in {None} \cup DOMAIN change :
       call' = [call EXCEPT ![k] = [Idle EXCEPT !.pc = "head", !.tool = "shud_build",
                                                !.pin = card.pin, !.on = c]]
  /\ UNCHANGED <<card, change, evidenceVars, faults, allowed>>

ApprovedChange(k) ==
  LET c == change[call[k].on]
  IN /\ c.status = "approved"
     /\ c.base = call[k].pin
     /\ c.files = call[k].files
     /\ call[k].patch = c.patch /\ c.bytes = {c.patch}

Admissible(k) ==
  /\ IF call[k].on = None THEN call[k].files = {} ELSE ApprovedChange(k)
  /\ Eligible(k)

Admit(k) ==
  /\ At(k, "shud_build", "publish")
  /\ IF Admissible(k) THEN Goto(k, "produce") ELSE Return(k)
  /\ UNCHANGED <<card, change, evidenceVars, faults, allowed>>

(* The archive of the pinned commit with the patch bytes that were         *)
(* admitted; a patch that does not apply, or leaves a path as it was, ends *)
(* the build.                                                              *)
Takes(patch, files, tree) ==
  /\ Applies(patch, tree)
  /\ \A f \in files : Applied(patch, tree)[f] # tree[f]

NewBuild(k, patch) ==
  Append(build, [change |-> call[k].on, commit |-> call[k].pin,
                 source |-> Applied(patch, Tree[call[k].pin]), intact |-> TRUE])

ProduceReread(k) ==               \* a mistake: the patch is read again after the admission
  /\ At(k, "shud_build", "produce") /\ Len(build) < MaxBuilds
  /\ \E patch \in IF call[k].on = None THEN {NoPatch} ELSE change[call[k].on].bytes :
       build' = NewBuild(k, patch)
  /\ Return(k)
  /\ UNCHANGED <<card, change, run, case, faults, allowed>>

Produce(k) ==
  /\ At(k, "shud_build", "produce") /\ Len(build) < MaxBuilds
  /\ Takes(call[k].patch, call[k].files, Tree[call[k].pin])
  /\ build' = NewBuild(k, call[k].patch)
  /\ Return(k)
  /\ UNCHANGED <<card, change, run, case, faults, allowed>>

ProduceFails(k) ==
  /\ At(k, "shud_build", "produce")
  /\ \/ ~Takes(call[k].patch, call[k].files, Tree[call[k].pin]) /\ UNCHANGED faults
     \/ Fault
  /\ Return(k)
  /\ UNCHANGED <<card, change, evidenceVars, allowed>>

-----------------------------------------------------------------------------
(* shud_run of a build, with the interleavings ReportWorkflow looks at     *)
(* taken as one step: the run may be left without its link.                *)
RunBuild ==
  \E b \in DOMAIN build :
    /\ Open /\ build[b].intact
    /\ Len(run) < MaxRuns
    /\ run' = Append(run, [build |-> b, status |-> "live"])
    /\ \/ /\ card' = [card EXCEPT !.status = "running", !.jobs = @ \cup {Len(run) + 1}]
          /\ UNCHANGED faults
       \/ Fault /\ UNCHANGED card
    /\ UNCHANGED <<change, build, case, call, allowed>>

RunEnds ==
  \E r \in DOMAIN run, status \in {"succeeded", "failed"} :
    /\ run[r].status = "live"
    /\ run' = [run EXCEPT ![r].status = status]
    /\ UNCHANGED <<card, change, build, case, call, faults, allowed>>

-----------------------------------------------------------------------------
(* verification_run: the job list and two collected records are awaited,   *)
(* everything else is read when the case is published.                     *)
BeginVerify(k) ==
  /\ call[k] = Idle /\ card.status = "running"
  /\ \E r, s \in DOMAIN run :
       /\ "live" \notin {run[r].status, run[s].status}
       /\ call' = [call EXCEPT ![k] = [Idle EXCEPT !.pc = "evidence", !.tool = "verification_run",
                                                   !.on = r, !.other = s]]
  /\ UNCHANGED <<card, change, evidenceVars, faults, allowed>>

RunEvidence(r) == run[r].status = "succeeded" /\ r \in card.jobs

SameCommit(r, s) ==
  /\ build[run[r].build].commit = build[run[s].build].commit
  /\ build[run[r].build].commit = card.pin

EvidenceOfCandidateOnly(k) ==     \* a mistake: the base run may be of any build
  LET candidate == build[run[call[k].other].build]
  IN /\ card.status = "running"
     /\ RunEvidence(call[k].on) /\ RunEvidence(call[k].other)
     /\ SameCommit(call[k].on, call[k].other)
     /\ candidate.change # None /\ change[candidate.change].status = "approved"

Evidence(k) ==
  LET candidate == build[run[call[k].other].build]
  IN /\ card.status = "running"
     /\ RunEvidence(call[k].on) /\ RunEvidence(call[k].other)
     /\ SameCommit(call[k].on, call[k].other)
     /\ build[run[call[k].on].build].change = None
     /\ candidate.change # None /\ change[candidate.change].status = "approved"

PublishCase(k) ==
  /\ At(k, "verification_run", "evidence") /\ Evidence(k)
  /\ Len(case) < MaxCases
  /\ case' = Append(case, [change |-> build[run[call[k].other].build].change,
                           base |-> call[k].on, candidate |-> call[k].other])
  /\ \/ card' = [card EXCEPT !.cases = @ \cup {Len(case) + 1}] /\ UNCHANGED faults
     \/ Fault /\ UNCHANGED card
  /\ Return(k)
  /\ UNCHANGED <<change, build, run, allowed>>

VerifyRefused(k) ==
  /\ At(k, "verification_run", "evidence")
  /\ \/ ~Evidence(k) /\ UNCHANGED faults
     \/ Fault
  /\ Return(k)
  /\ UNCHANGED <<card, change, evidenceVars, allowed>>

-----------------------------------------------------------------------------
(* report_generate: the card is reconciled with the jobs of the task, then *)
(* codeChangeClosure decides; and the decision about the report.           *)
Qualified == {c \in card.changes : change[c].status = "approved" /\ change[c].bytes = {change[c].patch}}

Closed ==
  /\ \A c \in card.changes : change[c].status = "approved" => change[c].bytes = {change[c].patch}
  /\ \A r \in DOMAIN run : run[r].status = "succeeded"
  /\ \E v \in card.cases : case[v].change \in Qualified

GenerateReport ==
  /\ Open \/ card.status = "reporting"
  /\ LET reconciled == IF DOMAIN run \subseteq card.jobs THEN card.status
                       ELSE IF card.status = "planned" THEN "running" ELSE card.status
     IN card' = [card EXCEPT !.jobs = DOMAIN run,
                             !.status = IF Closed THEN "reporting" ELSE reconciled]
  /\ UNCHANGED <<change, evidenceVars, call, faults, allowed>>

DecideReport ==
  /\ card.status = "reporting"
  /\ \E status \in {"planned", "done"} : card' = [card EXCEPT !.status = status]
  /\ UNCHANGED <<change, evidenceVars, call, faults, allowed>>

-----------------------------------------------------------------------------
(* Whoever can write into the workspace.                                   *)
MovePin ==
  /\ Fault
  /\ \E commit \in Commits \ {card.pin} : card' = [card EXCEPT !.pin = commit]
  /\ UNCHANGED <<change, evidenceVars, call, allowed>>

ReplacePatch ==
  /\ Fault
  /\ \E c \in DOMAIN change, bytes \in {Missing, {NoPatch}} :
       change' = [change EXCEPT ![c].bytes = bytes]
  /\ UNCHANGED <<card, evidenceVars, call, allowed>>

ReplaceBinary ==
  /\ Fault
  /\ \E b \in DOMAIN build : build' = [build EXCEPT ![b].intact = FALSE]
  /\ UNCHANGED <<card, change, run, case, call, allowed>>

Crash ==
  /\ Fault
  /\ call' = [k \in Calls |-> Idle]
  /\ UNCHANGED <<card, change, evidenceVars, allowed>>

-----------------------------------------------------------------------------
Next ==
  \/ \E k \in Calls : \/ BeginCreate(k) \/ BeginBuild(k) \/ BeginVerify(k)
                      \/ ReadHead(k) \/ ReadStatus(k) \/ ReadDiff(k)
                      \/ PublishChange(k) \/ CreateRefused(k)
                      \/ BeginSubmit(k) \/ Answer(k) \/ Submit(k) \/ SubmitRefused(k)
                      \/ Admit(k) \/ Produce(k) \/ ProduceFails(k)
                      \/ PublishCase(k) \/ VerifyRefused(k)
  \/ RunBuild \/ RunEnds \/ GenerateReport \/ DecideReport
  \/ MovePin \/ ReplacePatch \/ ReplaceBinary \/ Crash

Spec == Init /\ [][Next]_vars

-----------------------------------------------------------------------------
(* The patch of a change touches only the files its semantic floor, and    *)
(* with it the risk a human is asked about, was derived from: what is  *)
(* edited between git status and git diff does not slip in.                *)
PatchWithinFiles == \A c \in DOMAIN change : PathsOf(change[c].patch) \subseteq change[c].files

(* What touches a guarded file is approved only by a call a person allowed,  *)
(* though the tree was edited while it was described, the record or the     *)
(* patch could not be read when the gate looked, or another call was asked  *)
(* about.                                                                  *)
GuardedAreAllowed ==
  \A c \in DOMAIN change :
    change[c].status = "approved" /\ PathsOf(change[c].patch) \cap Guarded # {} =>
      [ref |-> change[c].ref, change |-> c] \in allowed

(* A build that names a change was made of its base commit and of the very  *)
(* patch that was approved, one that names none of the commit alone,       *)
(* whatever became of the patch file and of the checkout meanwhile.        *)
BuiltAsApproved ==
  \A b \in DOMAIN build :
    IF build[b].change = None
      THEN build[b].source = Tree[build[b].commit]
      ELSE LET c == change[build[b].change]
           IN /\ c.status = "approved" /\ build[b].commit = c.base
              /\ build[b].source = Applied(c.patch, Tree[c.base])

(* What was approved is what was allowed, and what was built is what was    *)
(* approved.                                                               *)
ApprovalsHold == GuardedAreAllowed /\ BuiltAsApproved

(* A task is reported only on evidence that isolates one approved change:  *)
(* a linked case whose two runs succeeded, one of the pinned sources and   *)
(* one of the same sources with exactly this change, its patch still there. *)
ReportedOnEvidence ==
  [][card.status # "reporting" /\ card'.status = "reporting" =>
       \E v \in card.cases, c \in card.changes :
         LET base == build[run[case[v].base].build]
             candidate == build[run[case[v].candidate].build]
         IN /\ change[c].status = "approved" /\ change[c].bytes = {change[c].patch}
            /\ {run[case[v].base].status, run[case[v].candidate].status} = {"succeeded"}
            /\ candidate.change = c /\ candidate.commit = base.commit
            /\ base.source = Tree[base.commit]
            /\ candidate.source = Applied(change[c].patch, base.source)]_vars

(* Every overlapping call, crash and replaced file leaves changes, their   *)
(* approvals and their evidence the life ChangeLife promises.              *)
Life == INSTANCE ChangeLife
          WITH Change <- Id(MaxChanges), Approval <- Approvals,
               proposed <- [c \in DOMAIN change |-> change[c].patch],
               approval <- [c \in {d \in DOMAIN change : change[d].status = "approved"}
                              |-> change[c].ref],
               verified <- {case[v].change : v \in DOMAIN case}
ImplementsLife == Life!LifeSpec

(* What the specification of shud_build asks of its consumers: no case is  *)
(* published about a build whose binary is no longer the recorded one.     *)
CasesOnIntactBuilds ==
  [][\A v \in DOMAIN case' \ DOMAIN case :
       \A r \in {case'[v].base, case'[v].candidate} : build[run[r].build].intact]_vars
=============================================================================
