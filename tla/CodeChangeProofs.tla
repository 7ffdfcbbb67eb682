-------------------------- MODULE CodeChangeProofs --------------------------
(***************************************************************************)
(* Proofs about CodeChange: what is approved is what was asked about, what   *)
(* is built is what was approved, and a report rests on a case that          *)
(* isolates one approved change.                                           *)
(*                                                                         *)
(* Records are only added, and what others rely on in them never changes     *)
(* (Kept): the patch and the base of a change, the sources of a build, the   *)
(* build of a run.  So what a call has read stays true through all its       *)
(* awaits (CallAsSeen), and what a record says of another record stays true  *)
(* (Described, BuiltTrue, Isolates).                                        *)
(***************************************************************************)
EXTENDS CodeChange, SequenceTheorems, TLAPS

ChangeRecord == [status : {"proposed", "approved"}, base : Commits, files : SUBSET Files,
                 asks : BOOLEAN, patch : Patch, bytes : SUBSET Patch, ref : Approvals \cup {"none"}]
BuildRecord == [change : Nat, commit : Commits, source : [Files -> Contents], intact : BOOLEAN]
RunRecord == [build : Nat, status : {"live", "succeeded", "failed"}]
CaseRecord == [change : Nat, base : Nat, candidate : Nat]
Card == [status : Status, pin : Commits, changes : SUBSET Nat, jobs : SUBSET Nat, cases : SUBSET Nat]

(* The types, without what a record says of the others.                     *)
Types ==
  /\ card \in Card
  /\ change \in Seq(ChangeRecord) /\ build \in Seq(BuildRecord)
  /\ run \in Seq(RunRecord) /\ case \in Seq(CaseRecord)
  /\ call \in [Calls -> Call]
  /\ allowed \subseteq [ref : Approvals, change : Nat]
  /\ faults \in 0..MaxFaults

CardLinks ==
  /\ card.changes \subseteq DOMAIN change /\ card.jobs \subseteq DOMAIN run
  /\ card.cases \subseteq DOMAIN case

(* What a call holds, wherever it awaits.                                   *)
CallAsSeen(k) ==
  /\ call[k].pc \in {"head", "status", "diff"} => call[k].patch = NoPatch
  /\ PathsOf(call[k].patch) \subseteq call[k].files
  /\ call[k].tool = "change_submit" =>
       /\ call[k].on \in DOMAIN change /\ call[k].ref \in Approvals
       /\ call[k].pc = "granted" /\ change[call[k].on].asks =>
            [ref |-> call[k].ref, change |-> call[k].on] \in allowed
  /\ call[k].tool = "shud_build" =>
       /\ call[k].on \in {None} \cup DOMAIN change
       /\ call[k].pc = "produce" /\ call[k].on = None => call[k].patch = NoPatch
       /\ call[k].pc = "produce" /\ call[k].on # None =>
            /\ change[call[k].on].status = "approved"
            /\ change[call[k].on].base = call[k].pin
            /\ change[call[k].on].patch = call[k].patch
  /\ call[k].tool = "verification_run" => call[k].on \in DOMAIN run /\ call[k].other \in DOMAIN run

(* A change is described by its patch, and asked about where it must be.    *)
Described(c) ==
  /\ PathsOf(change[c].patch) \subseteq change[c].files
  /\ change[c].files \cap Guarded # {} => change[c].asks
  /\ change[c].status = "approved" =>
       /\ change[c].ref \in Approvals
       /\ change[c].asks => [ref |-> change[c].ref, change |-> c] \in allowed

BuiltTrue(b) ==
  /\ build[b].change \in {None} \cup DOMAIN change
  /\ build[b].change = None => build[b].source = Tree[build[b].commit]
  /\ build[b].change # None =>
       /\ change[build[b].change].status = "approved"
       /\ build[b].commit = change[build[b].change].base
       /\ build[b].source = Applied(change[build[b].change].patch, Tree[build[b].commit])

(* The two runs of a case differ by its change and by nothing else.         *)
Isolates(v) ==
  /\ case[v].base \in DOMAIN run /\ case[v].candidate \in DOMAIN run
  /\ case[v].change \in DOMAIN change
  /\ build[run[case[v].base].build].change = None
  /\ build[run[case[v].candidate].build].change = case[v].change
  /\ build[run[case[v].base].build].commit = build[run[case[v].candidate].build].commit

CallsAsSeen == \A k \in Calls : CallAsSeen(k)
AllDescribed == \A c \in DOMAIN change : Described(c)
AllBuiltTrue == \A b \in DOMAIN build : BuiltTrue(b)
RunsOfBuilds == \A r \in DOMAIN run : run[r].build \in DOMAIN build
AllIsolate == \A v \in DOMAIN case : Isolates(v)
AnswersAsked == \A answer \in allowed : answer.change \in DOMAIN change

IInv == /\ Types /\ CardLinks /\ CallsAsSeen /\ AllDescribed /\ AllBuiltTrue
        /\ RunsOfBuilds /\ AllIsolate /\ AnswersAsked

-----------------------------------------------------------------------------
(* What a step keeps of the records.                                        *)
ChangesKept ==
  \A c \in DOMAIN change :
    /\ c \in DOMAIN change'
    /\ change'[c].patch = change[c].patch /\ change'[c].base = change[c].base
    /\ change'[c].files = change[c].files /\ change'[c].asks = change[c].asks
    /\ change[c].status = "approved" =>
         change'[c].status = "approved" /\ change'[c].ref = change[c].ref
BuildsKept ==
  \A b \in DOMAIN build :
    /\ b \in DOMAIN build'
    /\ build'[b].change = build[b].change /\ build'[b].commit = build[b].commit
    /\ build'[b].source = build[b].source
RunsKept == \A r \in DOMAIN run : r \in DOMAIN run' /\ run'[r].build = run[r].build
CasesKept == \A v \in DOMAIN case : v \in DOMAIN case' /\ case'[v] = case[v]
Kept == ChangesKept /\ BuildsKept /\ RunsKept /\ CasesKept /\ allowed \subseteq allowed'

(* What is old, and is not approved in this step, stays as described.       *)
Old(c) == c \in DOMAIN change /\ (change'[c].status = "approved" => change[c].status = "approved")

LEMMA Domains ==
  ASSUME Types
  PROVE  /\ DOMAIN change = 1..Len(change) /\ Len(change) \in Nat
         /\ DOMAIN build = 1..Len(build) /\ Len(build) \in Nat
         /\ DOMAIN run = 1..Len(run) /\ Len(run) \in Nat
         /\ DOMAIN case = 1..Len(case) /\ Len(case) \in Nat
         /\ \A c \in DOMAIN change : change[c] \in ChangeRecord /\ c # None
         /\ \A b \in DOMAIN build : build[b] \in BuildRecord
         /\ \A r \in DOMAIN run : run[r] \in RunRecord
         /\ \A v \in DOMAIN case : case[v] \in CaseRecord
<1>1. /\ change \in Seq(ChangeRecord) /\ build \in Seq(BuildRecord)
      /\ run \in Seq(RunRecord) /\ case \in Seq(CaseRecord)
  BY DEF Types
<1>2. /\ DOMAIN change = 1..Len(change) /\ Len(change) \in Nat
      /\ DOMAIN build = 1..Len(build) /\ Len(build) \in Nat
      /\ DOMAIN run = 1..Len(run) /\ Len(run) \in Nat
      /\ DOMAIN case = 1..Len(case) /\ Len(case) \in Nat
  BY <1>1, LenProperties
<1> QED
  BY <1>1, <1>2, ElementOfSeq DEF None

LEMMA CallKept ==
  ASSUME IInv, Kept, NEW k \in Calls, call'[k] = call[k]
  PROVE  CallAsSeen(k)'
<1>1. CallAsSeen(k)
  BY DEF IInv, CallsAsSeen
<1> QED
  BY <1>1 DEF CallAsSeen, Kept, ChangesKept, RunsKept

LEMMA DescribedKept ==
  ASSUME IInv, Kept, NEW c, Old(c)
  PROVE  Described(c)'
<1>1. c \in DOMAIN change /\ Described(c)
  BY DEF IInv, AllDescribed, Old
<1> QED
  BY <1>1 DEF Described, Old, Kept, ChangesKept

LEMMA BuiltKept ==
  ASSUME IInv, Kept, NEW b \in DOMAIN build
  PROVE  BuiltTrue(b)'
<1>1. BuiltTrue(b)
  BY DEF IInv, AllBuiltTrue
<1>2. build'[b].change = build[b].change /\ build'[b].commit = build[b].commit
      /\ build'[b].source = build[b].source
  BY DEF Kept, BuildsKept
<1>3. \A c \in DOMAIN change : /\ c \in DOMAIN change'
                               /\ change'[c].patch = change[c].patch /\ change'[c].base = change[c].base
                               /\ change[c].status = "approved" => change'[c].status = "approved"
  BY DEF Kept, ChangesKept
<1> QED
  BY <1>1, <1>2, <1>3 DEF BuiltTrue

LEMMA IsolatesKept ==
  ASSUME IInv, Kept, NEW v \in DOMAIN case
  PROVE  Isolates(v)'
<1>1. Isolates(v) /\ case'[v] = case[v]
  BY DEF IInv, AllIsolate, Kept, CasesKept
<1>2. /\ run[case[v].base].build \in DOMAIN build
      /\ run[case[v].candidate].build \in DOMAIN build
  BY <1>1 DEF IInv, RunsOfBuilds, Isolates
<1> QED
  BY <1>1, <1>2 DEF Isolates, Kept, ChangesKept, BuildsKept, RunsKept

(* A step that keeps the records has to look at what it adds or moves only. *)
LEMMA Assemble ==
  ASSUME IInv, Types', CardLinks', Kept, AnswersAsked',
         \A k \in Calls : call'[k] = call[k] \/ CallAsSeen(k)',
         \A c \in DOMAIN change' : Old(c) \/ Described(c)',
         \A b \in DOMAIN build' : b \in DOMAIN build \/ BuiltTrue(b)',
         \A r \in DOMAIN run' : r \in DOMAIN run \/ run'[r].build \in DOMAIN build',
         \A v \in DOMAIN case' : v \in DOMAIN case \/ Isolates(v)'
  PROVE  IInv'
<1>1. CallsAsSeen'
  BY CallKept DEF CallsAsSeen
<1>2. AllDescribed'
  BY DescribedKept DEF AllDescribed
<1>3. AllBuiltTrue'
  BY BuiltKept DEF AllBuiltTrue
<1>4. RunsOfBuilds'
  BY DEF IInv, RunsOfBuilds, Kept, RunsKept, BuildsKept
<1>5. AllIsolate'
  BY IsolatesKept DEF AllIsolate
<1> QED
  BY <1>1, <1>2, <1>3, <1>4, <1>5 DEF IInv

(* A step that moves one call and nothing else.                             *)
LEMMA CallStep ==
  ASSUME IInv, UNCHANGED <<card, change, evidenceVars, allowed>>,
         call' \in [Calls -> Call], faults' \in 0..MaxFaults,
         \A k \in Calls : call'[k] = call[k] \/ CallAsSeen(k)'
  PROVE  IInv'
<1> USE DEF evidenceVars
<1>1. Types' /\ CardLinks' /\ AnswersAsked'
  BY DEF IInv, Types, CardLinks, AnswersAsked
<1>2. Kept
  BY DEF Kept, ChangesKept, BuildsKept, RunsKept, CasesKept
<1>3. \A c \in DOMAIN change' : Old(c)
  BY DEF Old
<1> QED
  BY <1>1, <1>2, <1>3, Assemble

LEMMA IdleCall == Idle \in Call
<1>1. /\ NoPatch \in Patch /\ Pin \in Commits
  BY TreeAssumption DEF NoPatch, Patch
<1> QED
  BY <1>1 DEF Idle, Call, None

LEMMA Returned ==
  ASSUME Types, NEW k \in Calls, Return(k)
  PROVE  /\ call' \in [Calls -> Call]
         /\ CallAsSeen(k)'
         /\ \A d \in Calls : call'[d] = call[d] \/ CallAsSeen(d)'
<1>1. call' = [call EXCEPT ![k] = Idle] /\ call \in [Calls -> Call]
  BY DEF Return, Types
<1>2. call'[k] = Idle /\ \A d \in Calls \ {k} : call'[d] = call[d]
  BY <1>1
<1>3. CallAsSeen(k)'
  BY <1>2 DEF CallAsSeen, Idle, PathsOf, NoPatch
<1> QED
  BY <1>1, <1>2, <1>3, IdleCall

LEMMA FaultType == Types /\ (Fault \/ UNCHANGED faults) => faults' \in 0..MaxFaults
<1>1. MaxFaults \in Nat
  BY BoundAssumption
<1> QED
  BY <1>1 DEF Types, Fault

(* A step that gives one call the state x.                                  *)
LEMMA Moved ==
  ASSUME IInv, NEW k \in Calls, NEW x \in Call, call' = [call EXCEPT ![k] = x],
         UNCHANGED <<card, change, evidenceVars, allowed>>, faults' \in 0..MaxFaults,
         call'[k] = x => CallAsSeen(k)'
  PROVE  IInv'
<1>1. call' \in [Calls -> Call] /\ call'[k] = x /\ \A d \in Calls \ {k} : call'[d] = call[d]
  BY DEF IInv, Types
<1> QED
  BY <1>1, CallStep

(* The calls that await git or the registry, and those that give up.        *)
LEMMA QuietSteps ==
  ASSUME IInv, NEW k \in Calls,
         \/ BeginCreate(k) \/ BeginBuild(k) \/ BeginVerify(k)
         \/ ReadHead(k) \/ ReadStatus(k) \/ ReadDiff(k) \/ CreateRefused(k)
         \/ BeginSubmit(k) \/ SubmitRefused(k) \/ Admit(k) \/ ProduceFails(k) \/ VerifyRefused(k)
  PROVE  IInv'
<1>t. Types /\ card.pin \in Commits /\ call[k] \in Call /\ CallAsSeen(k) /\ Idle \in Call
      /\ call \in [Calls -> Call]
  BY IdleCall DEF IInv, Types, Card, CallsAsSeen
<1>f. Fault \/ UNCHANGED faults => faults' \in 0..MaxFaults
  BY <1>t, FaultType
<1>n. None = 0 /\ \A c \in DOMAIN change : c \in Nat /\ c # None
  BY <1>t, Domains DEF None
<1>r. ASSUME Return(k), UNCHANGED <<card, change, evidenceVars, allowed>>, Fault \/ UNCHANGED faults
      PROVE  IInv'
  BY <1>t, <1>f, <1>r, Returned, CallStep
<1>1. CASE BeginCreate(k)
  <2> DEFINE x == [Idle EXCEPT !.pc = "head", !.tool = "change_create", !.pin = card.pin]
  <2>1. x \in Call
    BY <1>t DEF Call
  <2>2. call'[k] = x => CallAsSeen(k)'
    BY DEF CallAsSeen, Idle, PathsOf, NoPatch
  <2>3. call' = [call EXCEPT ![k] = x]
    BY <1>1 DEF BeginCreate
  <2> QED
    BY <1>1, <1>f, <2>1, <2>2, <2>3, Moved DEF BeginCreate
<1>2. CASE BeginBuild(k)
  <2>1. PICK c \in {None} \cup DOMAIN change :
          call' = [call EXCEPT ![k] = [Idle EXCEPT !.pc = "head", !.tool = "shud_build",
                                                   !.pin = card.pin, !.on = c]]
    BY <1>2 DEF BeginBuild
  <2> DEFINE x == [Idle EXCEPT !.pc = "head", !.tool = "shud_build", !.pin = card.pin, !.on = c]
  <2>2. x \in Call
    <3>1. c \in Nat
      BY <1>n
    <3> QED
      BY <1>t, <3>1 DEF Call
  <2>3. call'[k] = x => CallAsSeen(k)'
    BY <1>2 DEF BeginBuild, CallAsSeen, Idle, PathsOf, NoPatch
  <2> QED
    BY <1>2, <1>f, <2>1, <2>2, <2>3, Moved DEF BeginBuild
<1>3. CASE BeginVerify(k)
  <2>1. PICK r \in DOMAIN run, s \in DOMAIN run :
          call' = [call EXCEPT ![k] = [Idle EXCEPT !.pc = "evidence", !.tool = "verification_run",
                                                   !.on = r, !.other = s]]
    BY <1>3 DEF BeginVerify
  <2> DEFINE x == [Idle EXCEPT !.pc = "evidence", !.tool = "verification_run", !.on = r, !.other = s]
  <2>2. x \in Call
    <3>1. r \in Nat /\ s \in Nat
      BY <1>t, Domains
    <3> QED
      BY <1>t, <3>1 DEF Call
  <2>3. call'[k] = x => CallAsSeen(k)'
    BY <1>3 DEF BeginVerify, evidenceVars, CallAsSeen, Idle, PathsOf, NoPatch
  <2> QED
    BY <1>3, <1>f, <2>1, <2>2, <2>3, Moved DEF BeginVerify
<1>4. CASE ReadHead(k)
  <2>1. CASE Goto(k, "status")
    <3> DEFINE x == [call[k] EXCEPT !.pc = "status"]
    <3>1. x \in Call /\ call' = [call EXCEPT ![k] = x]
      BY <1>t, <2>1 DEF Call, Goto
    <3>2. call'[k] = x => CallAsSeen(k)'
      BY <1>t, <1>4 DEF ReadHead, Observing, CallAsSeen, Call
    <3> QED
      BY <1>4, <1>f, <3>1, <3>2, Moved DEF ReadHead
  <2> QED
    BY <1>4, <1>r, <2>1 DEF ReadHead
<1>5. CASE ReadStatus(k)
  <2>1. PICK head \in Commits, work \in [Files -> Contents] :
          call' = [call EXCEPT ![k].files = Modified(Tree[head], work),
                               ![k].pc = IF Modified(Tree[head], work) = {} THEN "publish" ELSE "diff"]
    BY <1>5 DEF ReadStatus
  <2> DEFINE files == Modified(Tree[head], work)
             x == [call[k] EXCEPT !.files = files, !.pc = IF files = {} THEN "publish" ELSE "diff"]
  <2>2. files \subseteq Files
    BY DEF Modified
  <2>3. x \in Call /\ call' = [call EXCEPT ![k] = x]
    BY <1>t, <2>1, <2>2 DEF Call
  <2>4. call'[k] = x => CallAsSeen(k)'
    BY <1>t, <1>5 DEF ReadStatus, Observing, CallAsSeen, Call, PathsOf, NoPatch
  <2> QED
    BY <1>5, <1>f, <2>3, <2>4, Moved DEF ReadStatus
<1>6. CASE ReadDiff(k)
  <2>1. PICK head \in Commits, work \in [Files -> Contents] :
          call' = [call EXCEPT ![k].patch = DiffHead(Tree[head], work, call[k].files),
                               ![k].pc = "publish"]
    BY <1>6 DEF ReadDiff
  <2> DEFINE patch == DiffHead(Tree[head], work, call[k].files)
             x == [call[k] EXCEPT !.patch = patch, !.pc = "publish"]
  <2>2. Tree[head] \in [Files -> Contents]
    BY TreeAssumption
  <2>3. patch \in Patch /\ PathsOf(patch) \subseteq call[k].files
    BY <2>2 DEF DiffHead, Modified, Patch, Hunk, PathsOf
  <2> HIDE DEF patch
  <2>4. x \in Call /\ call' = [call EXCEPT ![k] = x]
    BY <1>t, <2>1, <2>3 DEF Call, patch
  <2>5. call'[k] = x => CallAsSeen(k)'
    BY <1>t, <1>6, <2>3 DEF ReadDiff, Observing, CallAsSeen, Call
  <2> QED
    BY <1>6, <1>f, <2>4, <2>5, Moved DEF ReadDiff
<1>7. CASE BeginSubmit(k)
  <2>1. PICK c \in DOMAIN change, ref \in Approvals, readable \in BOOLEAN :
          /\ Fresh(ref) /\ Gate(c, readable) # "idle"
          /\ IF readable THEN UNCHANGED faults ELSE Fault
          /\ call' = [call EXCEPT ![k] = [Idle EXCEPT !.pc = Gate(c, readable), !.tool = "change_submit",
                                                      !.on = c, !.ref = ref]]
    BY <1>7, Zenon DEF BeginSubmit
  <2>2. PICK pc \in {"asked", "granted"} :
          /\ pc = Gate(c, readable)
          /\ pc = "granted" => ~change[c].asks
    BY <2>1 DEF Gate
  <2> DEFINE x == [Idle EXCEPT !.pc = pc, !.tool = "change_submit", !.on = c, !.ref = ref]
  <2>3. x \in Call
    <3>1. c \in Nat
      BY <1>n
    <3> QED
      BY <1>t, <3>1 DEF Call
  <2>4. call'[k] = x => CallAsSeen(k)'
    <3>1. change' = change /\ allowed' = allowed
      BY <1>7 DEF BeginSubmit
    <3>2. x.pc = pc /\ x.tool = "change_submit" /\ x.on = c /\ x.ref = ref /\ x.patch = {}
      BY DEF Idle, NoPatch
    <3> QED
      BY <2>2, <3>1, <3>2 DEF CallAsSeen, PathsOf, NoPatch
  <2>5. (Fault \/ UNCHANGED faults) /\ call' = [call EXCEPT ![k] = x]
    BY <2>1, <2>2
  <2> QED
    BY <1>7, <1>f, <2>3, <2>4, <2>5, Moved DEF BeginSubmit
<1>8. CASE Admit(k)
  <2>1. CASE Admissible(k)
    <3> DEFINE x == [call[k] EXCEPT !.pc = "produce"]
    <3>1. x \in Call /\ call' = [call EXCEPT ![k] = x]
      BY <1>t, <1>8, <2>1 DEF Call, Admit, Goto
    <3>2. call[k].tool = "shud_build" /\ UNCHANGED <<card, change, evidenceVars, faults, allowed>>
      BY <1>8 DEF Admit, At
    <3>3. call[k].on = None => call[k].patch = NoPatch
      BY <1>t, <2>1 DEF Admissible, CallAsSeen, PathsOf, NoPatch
    <3>4. call[k].on # None =>
            /\ change[call[k].on].status = "approved"
            /\ change[call[k].on].base = call[k].pin
            /\ change[call[k].on].patch = call[k].patch
      BY <2>1 DEF Admissible, ApprovedChange
    <3>5. call'[k] = x => CallAsSeen(k)'
      BY <1>t, <3>2, <3>3, <3>4 DEF CallAsSeen, Call
    <3> QED
      BY <1>8, <1>f, <3>1, <3>5, Moved DEF Admit
  <2>2. CASE ~Admissible(k)
    BY <1>8, <1>r, <2>2 DEF Admit
  <2> QED
    BY <2>1, <2>2
<1>9. CASE CreateRefused(k) \/ SubmitRefused(k) \/ ProduceFails(k) \/ VerifyRefused(k)
  BY <1>9, <1>r DEF CreateRefused, SubmitRefused, ProduceFails, VerifyRefused
<1> QED
  BY <1>1, <1>2, <1>3, <1>4, <1>5, <1>6, <1>7, <1>8, <1>9

-----------------------------------------------------------------------------
(* The steps that write a record or the card.                               *)
LEMMA AddedChange ==
  ASSUME IInv, NEW k \in Calls, PublishChange(k)
  PROVE  \E n \in 1..MaxChanges :
           /\ n = Len(change) + 1 /\ n \notin DOMAIN change
           /\ change' \in Seq(ChangeRecord) /\ DOMAIN change' = DOMAIN change \cup {n}
           /\ \A c \in DOMAIN change : change'[c] = change[c]
           /\ change'[n].status = "proposed" /\ change'[n].patch \in Patch
           /\ Described(n)'
<1>t. /\ Types /\ call[k] \in Call /\ CallAsSeen(k)
      /\ change \in Seq(ChangeRecord)
      /\ DOMAIN change = 1..Len(change) /\ Len(change) \in Nat
  BY Domains DEF IInv, Types, CallsAsSeen
<1>1. PICK bytes \in SUBSET Patch, raised \in BOOLEAN :
        change' = Append(change, [status |-> "proposed", base |-> call[k].pin, files |-> call[k].files,
                                  asks |-> raised \/ call[k].files \cap Guarded # {},
                                  patch |-> call[k].patch, bytes |-> bytes, ref |-> "none"])
  <2>1. Missing \in SUBSET Patch /\ {call[k].patch} \in SUBSET Patch
    BY <1>t DEF Missing, Call
  <2> QED
    BY <2>1 DEF PublishChange, NewChange
<1>2. PICK n \in 1..MaxChanges : n = Len(change) + 1
  <2>1. MaxChanges \in Nat
    BY BoundAssumption
  <2> QED
    BY <1>t, <2>1 DEF PublishChange
<1> DEFINE new == [status |-> "proposed", base |-> call[k].pin, files |-> call[k].files,
                   asks |-> raised \/ call[k].files \cap Guarded # {},
                   patch |-> call[k].patch, bytes |-> bytes, ref |-> "none"]
<1>3. new \in ChangeRecord
  BY <1>t DEF ChangeRecord, Call
<1>4. /\ change' \in Seq(ChangeRecord) /\ DOMAIN change' = 1..n
      /\ \A c \in DOMAIN change : change'[c] = change[c]
      /\ change'[n] = new
  BY <1>t, <1>1, <1>2, <1>3, AppendProperties, LenProperties
<1>5. DOMAIN change' = DOMAIN change \cup {n} /\ n \notin DOMAIN change
  BY <1>t, <1>2, <1>4
<1>n. /\ new.patch = call[k].patch /\ new.files = call[k].files /\ new.status = "proposed"
      /\ call[k].files \cap Guarded # {} => new.asks
  OBVIOUS
<1>6. /\ change'[n].patch = call[k].patch /\ change'[n].files = call[k].files
      /\ change'[n].status = "proposed"
      /\ call[k].files \cap Guarded # {} => change'[n].asks
  <2> HIDE DEF new
  <2> QED
    BY <1>4, <1>n
<1>7. Described(n)'
  BY <1>t, <1>6 DEF Described, CallAsSeen
<1>8. call[k].patch \in Patch
  BY <1>t DEF Call
<1> QED
  BY <1>2, <1>4, <1>5, <1>6, <1>7, <1>8

LEMMA PublishKeeps ==
  ASSUME IInv, NEW k \in Calls, PublishChange(k)
  PROVE  IInv'
<1>t. Types /\ card \in Card
  BY DEF IInv, Types
<1>1. PICK n \in 1..MaxChanges :
        /\ n = Len(change) + 1
        /\ change' \in Seq(ChangeRecord) /\ DOMAIN change' = DOMAIN change \cup {n}
        /\ \A c \in DOMAIN change : change'[c] = change[c]
        /\ Described(n)'
  BY AddedChange
<1>n. n \in Nat
  OBVIOUS
<1>2. /\ UNCHANGED <<build, run, case, allowed>> /\ Return(k)
      /\ Fault \/ UNCHANGED faults
      /\ \/ card' = card
         \/ card' = [card EXCEPT !.status = "running", !.changes = @ \cup {n}]
  BY <1>1 DEF PublishChange, evidenceVars
<1>3. card' \in Card /\ CardLinks'
  <2>1. CASE card' = card
    BY <1>t, <1>1, <1>2, <2>1 DEF IInv, CardLinks
  <2>2. CASE card' = [card EXCEPT !.status = "running", !.changes = @ \cup {n}]
    <3>1. /\ card'.changes = card.changes \cup {n}
          /\ card'.jobs = card.jobs /\ card'.cases = card.cases
          /\ card' \in Card
      BY <1>t, <1>n, <2>2 DEF Card, Status
    <3> QED
      BY <1>1, <1>2, <3>1 DEF IInv, CardLinks
  <2> QED
    BY <1>2, <2>1, <2>2
<1>4. Types'
  BY <1>t, <1>1, <1>2, <1>3, Returned, FaultType DEF Types
<1>5. Kept
  BY <1>1, <1>2 DEF Kept, ChangesKept, BuildsKept, RunsKept, CasesKept
<1>6. AnswersAsked'
  BY <1>1, <1>2 DEF IInv, AnswersAsked
<1>7. \A c \in DOMAIN change' : Old(c) \/ Described(c)'
  BY <1>1 DEF Old
<1> QED
  BY <1>t, <1>2, <1>3, <1>4, <1>5, <1>6, <1>7, Returned, Assemble

LEMMA AnswerKeeps ==
  ASSUME IInv, NEW k \in Calls, Answer(k)
  PROVE  IInv'
<1>t. /\ Types /\ call \in [Calls -> Call] /\ call[k] \in Call /\ CallAsSeen(k)
      /\ call[k].tool = "change_submit" /\ call[k].pc = "asked"
      /\ UNCHANGED <<card, change, evidenceVars, faults>>
      /\ \A c \in DOMAIN change : c \in Nat
  BY Domains DEF IInv, Types, CallsAsSeen, Answer, At
<1>1. CASE Return(k) /\ UNCHANGED allowed
  BY <1>t, <1>1, Returned, FaultType, CallStep
<1>2. CASE allowed' = allowed \cup {[ref |-> call[k].ref, change |-> call[k].on]} /\ Goto(k, "granted")
  <2> DEFINE x == [call[k] EXCEPT !.pc = "granted"]
  <2>1. x \in Call /\ call' = [call EXCEPT ![k] = x]
    BY <1>t, <1>2 DEF Goto, Call
  <2>2. call' \in [Calls -> Call] /\ call'[k] = x /\ \A d \in Calls \ {k} : call'[d] = call[d]
    BY <1>t, <2>1
  <2>3. call[k].on \in DOMAIN change /\ call[k].ref \in Approvals
    BY <1>t DEF CallAsSeen
  <2>4. Types' /\ CardLinks' /\ AnswersAsked'
    BY <1>t, <1>2, <2>2, <2>3 DEF IInv, Types, CardLinks, AnswersAsked, evidenceVars
  <2>5. Kept
    BY <1>t, <1>2 DEF Kept, ChangesKept, BuildsKept, RunsKept, CasesKept, evidenceVars
  <2>6. \A c \in DOMAIN change' : Old(c)
    BY <1>t DEF Old
  <2>7. CallAsSeen(k)'
    <3>1. /\ x.patch = call[k].patch /\ x.files = call[k].files /\ x.on = call[k].on
          /\ x.ref = call[k].ref /\ x.tool = "change_submit" /\ x.pc = "granted"
      BY <1>t DEF Call
    <3> QED
      BY <1>t, <1>2, <2>2, <2>3, <3>1 DEF CallAsSeen
  <2> QED
    BY <1>t, <2>2, <2>4, <2>5, <2>6, <2>7, Assemble DEF evidenceVars
<1> QED
  BY <1>1, <1>2 DEF Answer

(* A change is approved once, by the call that a person allowed where the   *)
(* change asks for one.                                                    *)
LEMMA ApprovedChangeRecord ==
  ASSUME IInv, NEW k \in Calls, Submit(k)
  PROVE  \E d \in DOMAIN change :
           /\ change' \in Seq(ChangeRecord) /\ DOMAIN change' = DOMAIN change
           /\ \A e \in DOMAIN change \ {d} : change'[e] = change[e]
           /\ change[d].status = "proposed" /\ change'[d].status = "approved"
           /\ change'[d].patch = change[d].patch /\ change'[d].base = change[d].base
           /\ change'[d].files = change[d].files /\ change'[d].asks = change[d].asks
           /\ change'[d].ref \in Approvals
           /\ change[d].asks => [ref |-> change'[d].ref, change |-> d] \in allowed
<1>t. /\ Types /\ CallAsSeen(k)
      /\ change \in Seq(ChangeRecord)
      /\ call[k].tool = "change_submit" /\ call[k].pc = "granted"
  BY DEF IInv, Types, CallsAsSeen, Submit, At
<1>1. PICK d \in DOMAIN change, ref \in Approvals :
        /\ d = call[k].on /\ ref = call[k].ref
        /\ change[d].asks => [ref |-> ref, change |-> d] \in allowed
  BY <1>t DEF CallAsSeen
<1>2. /\ change[d].status = "proposed"
      /\ change' = [change EXCEPT ![d].status = "approved", ![d].ref = ref]
  BY <1>1 DEF Submit, Submittable, Approve
<1> DEFINE new == [change[d] EXCEPT !.status = "approved", !.ref = ref]
<1>3. /\ change[d] \in ChangeRecord
      /\ change' = [change EXCEPT ![d] = new]
  BY <1>t, <1>2, Domains
<1>4. /\ new \in ChangeRecord
      /\ new.patch = change[d].patch /\ new.base = change[d].base /\ new.files = change[d].files
      /\ new.asks = change[d].asks /\ new.status = "approved" /\ new.ref = ref
  BY <1>3 DEF ChangeRecord
<1> HIDE DEF new
<1>5. /\ change' \in Seq(ChangeRecord) /\ DOMAIN change' = DOMAIN change
      /\ change'[d] = new /\ \A e \in DOMAIN change \ {d} : change'[e] = change[e]
  BY <1>t, <1>3, <1>4, ExceptSeq, LenProperties
<1>6. /\ change'[d].status = "approved" /\ change'[d].ref = ref
      /\ change'[d].patch = change[d].patch /\ change'[d].base = change[d].base
      /\ change'[d].files = change[d].files /\ change'[d].asks = change[d].asks
  BY <1>4, <1>5
<1>7. change'[d].ref \in Approvals /\ (change[d].asks => [ref |-> change'[d].ref, change |-> d] \in allowed)
  BY <1>1, <1>6
<1>8. WITNESS d \in DOMAIN change
<1> QED
  BY <1>2, <1>5, <1>6, <1>7

LEMMA SubmitKeeps ==
  ASSUME IInv, NEW k \in Calls, Submit(k)
  PROVE  IInv'
<1>1. PICK d \in DOMAIN change :
        /\ change' \in Seq(ChangeRecord) /\ DOMAIN change' = DOMAIN change
        /\ \A e \in DOMAIN change \ {d} : change'[e] = change[e]
        /\ change[d].status = "proposed" /\ change'[d].status = "approved"
        /\ change'[d].patch = change[d].patch /\ change'[d].base = change[d].base
        /\ change'[d].files = change[d].files /\ change'[d].asks = change[d].asks
        /\ change'[d].ref \in Approvals
        /\ change[d].asks => [ref |-> change'[d].ref, change |-> d] \in allowed
  BY ApprovedChangeRecord
<1>2. Types /\ Return(k) /\ UNCHANGED <<card, build, run, case, allowed, faults>>
  BY DEF IInv, Submit, Approve, evidenceVars
<1>3. Types' /\ CardLinks' /\ AnswersAsked'
  <2>1. call' \in [Calls -> Call]
    BY <1>2, Returned
  <2> QED
    BY <1>1, <1>2, <2>1 DEF IInv, Types, CardLinks, AnswersAsked
<1>4. Kept
  <2>1. ChangesKept
    BY <1>1 DEF ChangesKept
  <2> QED
    BY <1>2, <2>1 DEF Kept, BuildsKept, RunsKept, CasesKept
<1>5. \A e \in DOMAIN change' \ {d} : Old(e)
  BY <1>1 DEF Old
<1>6. Described(d)'
  <2>1. Described(d)
    BY DEF IInv, AllDescribed
  <2> QED
    BY <1>1, <1>2, <2>1 DEF Described
<1> QED
  BY <1>2, <1>3, <1>4, <1>5, <1>6, Returned, Assemble

(* No hunk leaves a tree as it is.                                          *)
LEMMA NothingApplied ==
  ASSUME NEW commit \in Commits
  PROVE  Applied(NoPatch, Tree[commit]) = Tree[commit]
<1>1. Tree[commit] \in [Files -> Contents]
  BY TreeAssumption
<1> QED
  BY <1>1 DEF Applied, NoPatch

LEMMA AppliedType ==
  ASSUME NEW patch \in Patch, NEW commit \in Commits
  PROVE  Applied(patch, Tree[commit]) \in [Files -> Contents]
<1>1. Tree[commit] \in [Files -> Contents]
  BY TreeAssumption
<1>2. ASSUME NEW f \in Files, NEW h \in patch, h.file = f
      PROVE  (CHOOSE g \in patch : g.file = f).to \in Contents
  <2>1. (CHOOSE g \in patch : g.file = f) \in patch
    BY <1>2
  <2> QED
    BY <2>1 DEF Patch, Hunk
<1> QED
  BY <1>1, <1>2 DEF Applied

(* What is built is the admitted patch, whatever became of the file since.  *)
LEMMA ProduceKeeps ==
  ASSUME IInv, NEW k \in Calls, Produce(k)
  PROVE  IInv'
<1>t. /\ Types /\ CallAsSeen(k) /\ call[k] \in Call
      /\ build \in Seq(BuildRecord)
      /\ DOMAIN build = 1..Len(build) /\ Len(build) \in Nat
      /\ call[k].tool = "shud_build" /\ call[k].pc = "produce"
      /\ UNCHANGED <<card, change, run, case, faults, allowed>> /\ Return(k)
  BY Domains DEF IInv, Types, CallsAsSeen, Produce, At
<1> DEFINE new == [change |-> call[k].on, commit |-> call[k].pin,
                   source |-> Applied(call[k].patch, Tree[call[k].pin]), intact |-> TRUE]
<1>1. build' = Append(build, new)
  BY DEF Produce, NewBuild
<1>2. new \in BuildRecord
  BY <1>t, AppliedType DEF BuildRecord, Call
<1>3. /\ new.change = call[k].on /\ new.commit = call[k].pin /\ call[k].pin \in Commits
      /\ new.source = Applied(call[k].patch, Tree[call[k].pin])
  BY <1>t DEF Call
<1> HIDE DEF new
<1>4. /\ build' \in Seq(BuildRecord) /\ DOMAIN build' = 1..Len(build) + 1
      /\ \A b \in DOMAIN build : build'[b] = build[b]
      /\ build'[Len(build) + 1] = new
  BY <1>t, <1>1, <1>2, AppendProperties, LenProperties
<1>5. Types' /\ CardLinks' /\ AnswersAsked'
  <2>1. call' \in [Calls -> Call]
    BY <1>t, Returned
  <2> QED
    BY <1>t, <1>4, <2>1 DEF IInv, Types, CardLinks, AnswersAsked
<1>6. Kept
  BY <1>t, <1>4 DEF Kept, ChangesKept, BuildsKept, RunsKept, CasesKept
<1>7. \A c \in DOMAIN change' : Old(c)
  BY <1>t DEF Old
<1>8. ASSUME NEW b \in DOMAIN build', b \notin DOMAIN build
      PROVE  BuiltTrue(b)'
  <2>1. build'[b] = new
    BY <1>t, <1>4, <1>8
  <2>2. call[k].on \in {None} \cup DOMAIN change
    BY <1>t DEF CallAsSeen
  <2>3. CASE call[k].on = None
    <3>1. new.source = Tree[new.commit]
      BY <1>t, <1>3, <2>3, NothingApplied DEF CallAsSeen
    <3> QED
      BY <1>3, <2>1, <2>3, <3>1 DEF BuiltTrue
  <2>4. CASE call[k].on # None
    BY <1>t, <1>3, <2>1, <2>2, <2>4 DEF CallAsSeen, BuiltTrue
  <2> QED
    BY <2>3, <2>4
<1> QED
  BY <1>t, <1>5, <1>6, <1>7, <1>8, Returned, Assemble

LEMMA RunKeeps ==
  ASSUME IInv, RunBuild \/ RunEnds
  PROVE  IInv'
<1>t. /\ Types /\ card \in Card /\ run \in Seq(RunRecord)
      /\ DOMAIN run = 1..Len(run) /\ Len(run) \in Nat
      /\ DOMAIN build = 1..Len(build) /\ Len(build) \in Nat
      /\ UNCHANGED <<change, build, case, call, allowed>>
  BY Domains DEF IInv, Types, RunBuild, RunEnds
<1>1. CASE RunBuild
  <2>1. PICK b \in DOMAIN build :
          /\ run' = Append(run, [build |-> b, status |-> "live"])
          /\ \/ /\ card' = [card EXCEPT !.status = "running", !.jobs = @ \cup {Len(run) + 1}]
                /\ UNCHANGED faults
             \/ Fault /\ UNCHANGED card
    BY <1>1 DEF RunBuild
  <2> DEFINE new == [build |-> b, status |-> "live"]
  <2>2. new \in RunRecord /\ new.build = b
    BY <1>t DEF RunRecord
  <2> HIDE DEF new
  <2>3. /\ run' \in Seq(RunRecord) /\ DOMAIN run' = 1..Len(run) + 1
        /\ \A r \in DOMAIN run : run'[r] = run[r]
        /\ run'[Len(run) + 1] = new
    BY <1>t, <2>1, <2>2, AppendProperties, LenProperties DEF new
  <2>4. card' \in Card /\ CardLinks'
    <3>1. \A r \in DOMAIN run : r \in DOMAIN run'
      BY <1>t, <2>3
    <3>2. CASE card' = card
      BY <1>t, <3>1, <3>2 DEF IInv, CardLinks
    <3>3. CASE card' = [card EXCEPT !.status = "running", !.jobs = @ \cup {Len(run) + 1}]
      <4>1. card.jobs \cup {Len(run) + 1} \in SUBSET Nat /\ "running" \in Status
        BY <1>t DEF Card, Status
      <4>2. /\ card' \in Card
            /\ card'.jobs = card.jobs \cup {Len(run) + 1}
            /\ card'.changes = card.changes /\ card'.cases = card.cases
        BY <1>t, <3>3, <4>1 DEF Card
      <4> QED
        BY <1>t, <2>3, <3>1, <4>2 DEF IInv, CardLinks
    <3> QED
      BY <2>1, <3>2, <3>3
  <2>5. Types' /\ AnswersAsked'
    BY <1>t, <2>1, <2>3, <2>4, FaultType DEF IInv, Types, AnswersAsked
  <2>6. Kept
    BY <1>t, <2>3 DEF Kept, ChangesKept, BuildsKept, RunsKept, CasesKept
  <2>7. \A c \in DOMAIN change' : Old(c)
    BY <1>t DEF Old
  <2>8. \A r \in DOMAIN run' : r \in DOMAIN run \/ run'[r].build \in DOMAIN build'
    BY <1>t, <2>2, <2>3
  <2> QED
    BY <1>t, <2>4, <2>5, <2>6, <2>7, <2>8, Assemble
<1>2. CASE RunEnds
  <2>1. PICK r \in DOMAIN run, status \in {"succeeded", "failed"} :
          run' = [run EXCEPT ![r].status = status]
    BY <1>2 DEF RunEnds
  <2> DEFINE new == [run[r] EXCEPT !.status = status]
  <2>2. run[r] \in RunRecord /\ run' = [run EXCEPT ![r] = new]
    BY <1>t, <2>1, Domains
  <2>3. new \in RunRecord /\ new.build = run[r].build
    BY <2>2 DEF RunRecord
  <2> HIDE DEF new
  <2>4. /\ run' \in Seq(RunRecord) /\ DOMAIN run' = DOMAIN run
        /\ run'[r] = new /\ \A s \in DOMAIN run \ {r} : run'[s] = run[s]
    BY <1>t, <2>2, <2>3, ExceptSeq, LenProperties
  <2>5. card' = card /\ faults' = faults
    BY <1>2 DEF RunEnds
  <2>6. Types' /\ CardLinks' /\ AnswersAsked'
    BY <1>t, <2>4, <2>5 DEF IInv, Types, CardLinks, AnswersAsked
  <2>7. Kept
    BY <1>t, <2>3, <2>4 DEF Kept, ChangesKept, BuildsKept, RunsKept, CasesKept
  <2>8. \A c \in DOMAIN change' : Old(c)
    BY <1>t DEF Old
  <2> QED
    BY <1>t, <2>4, <2>6, <2>7, <2>8, Assemble
<1> QED
  BY <1>1, <1>2

(* A case is about one approved change: its base run is of a build that      *)
(* names none, its candidate of one that names it.                          *)
LEMMA AddedCase ==
  ASSUME IInv, NEW k \in Calls, PublishCase(k)
  PROVE  \E n \in Nat :
           /\ n = Len(case) + 1 /\ Isolates(n)'
           /\ case' \in Seq(CaseRecord) /\ DOMAIN case' = DOMAIN case \cup {n}
           /\ \A v \in DOMAIN case : case'[v] = case[v]
           /\ case'[n].change \in DOMAIN change
           /\ change[case'[n].change].status = "approved"
<1>t. /\ Types /\ case \in Seq(CaseRecord)
      /\ DOMAIN case = 1..Len(case) /\ Len(case) \in Nat
      /\ \A c \in DOMAIN change : c \in Nat
      /\ \A r \in DOMAIN run : r \in Nat
      /\ UNCHANGED <<change, build, run>>
      /\ Evidence(k)
  BY Domains DEF IInv, Types, PublishCase
<1>1. PICK r \in DOMAIN run, s \in DOMAIN run : r = call[k].on /\ s = call[k].other
  BY DEF IInv, CallsAsSeen, CallAsSeen, PublishCase, At
<1>2. PICK c \in DOMAIN change :
        /\ c = build[run[s].build].change /\ change[c].status = "approved"
        /\ build[run[r].build].change = None
        /\ build[run[r].build].commit = build[run[s].build].commit
  <2>1. run[s].build \in DOMAIN build
    BY DEF IInv, RunsOfBuilds
  <2>2. build[run[s].build].change \in {None} \cup DOMAIN change
    BY <2>1 DEF IInv, AllBuiltTrue, BuiltTrue
  <2> QED
    BY <1>t, <1>1, <2>2 DEF Evidence, SameCommit
<1>3. PICK n \in Nat : n = Len(case) + 1
  BY <1>t
<1> DEFINE new == [change |-> c, base |-> r, candidate |-> s]
<1>4. case' = Append(case, new)
  BY <1>1, <1>2 DEF PublishCase
<1>5. new \in CaseRecord /\ new.change = c /\ new.base = r /\ new.candidate = s
  BY <1>t DEF CaseRecord
<1> HIDE DEF new
<1>6. /\ case' \in Seq(CaseRecord) /\ DOMAIN case' = 1..n
      /\ \A v \in DOMAIN case : case'[v] = case[v]
      /\ case'[n] = new
  BY <1>t, <1>3, <1>4, <1>5, AppendProperties, LenProperties
<1>7. DOMAIN case' = DOMAIN case \cup {n}
  BY <1>t, <1>3, <1>6
<1>8. Isolates(n)'
  BY <1>t, <1>2, <1>5, <1>6 DEF Isolates
<1> QED
  BY <1>2, <1>3, <1>5, <1>6, <1>7, <1>8

LEMMA CaseKeeps ==
  ASSUME IInv, NEW k \in Calls, PublishCase(k)
  PROVE  IInv'
<1>t. Types /\ card \in Card /\ UNCHANGED <<change, build, run, allowed>> /\ Return(k)
  BY DEF IInv, Types, PublishCase
<1>1. PICK n \in Nat :
        /\ n = Len(case) + 1 /\ Isolates(n)'
        /\ case' \in Seq(CaseRecord) /\ DOMAIN case' = DOMAIN case \cup {n}
        /\ \A v \in DOMAIN case : case'[v] = case[v]
  BY AddedCase
<1>2. \/ card' = [card EXCEPT !.cases = @ \cup {n}] /\ UNCHANGED faults
      \/ Fault /\ UNCHANGED card
  BY <1>1 DEF PublishCase
<1>3. card' \in Card /\ CardLinks'
  <2>1. CASE card' = card
    BY <1>t, <1>1, <2>1 DEF IInv, CardLinks
  <2>2. CASE card' = [card EXCEPT !.cases = @ \cup {n}]
    <3>1. /\ card' \in Card
          /\ card'.cases = card.cases \cup {n}
          /\ card'.changes = card.changes /\ card'.jobs = card.jobs
      BY <1>t, <2>2 DEF Card
    <3> QED
      BY <1>t, <1>1, <3>1 DEF IInv, CardLinks
  <2> QED
    BY <1>2, <2>1, <2>2
<1>4. Types' /\ AnswersAsked'
  <2>1. call' \in [Calls -> Call] /\ faults' \in 0..MaxFaults
    BY <1>t, <1>2, Returned, FaultType
  <2> QED
    BY <1>t, <1>1, <1>3, <2>1 DEF IInv, Types, AnswersAsked
<1>5. Kept
  BY <1>t, <1>1 DEF Kept, ChangesKept, BuildsKept, RunsKept, CasesKept
<1>6. \A d \in DOMAIN change' : Old(d)
  BY <1>t DEF Old
<1>7. \A v \in DOMAIN case' : v \in DOMAIN case \/ Isolates(v)'
  BY <1>1
<1> QED
  BY <1>t, <1>3, <1>4, <1>5, <1>6, <1>7, Returned, Assemble

(* The card, the patch files and the binaries; and the end of the host.     *)
LEMMA OtherSteps ==
  ASSUME IInv, GenerateReport \/ DecideReport \/ MovePin \/ ReplacePatch \/ ReplaceBinary \/ Crash
  PROVE  IInv'
<1>t. Types /\ card \in Card /\ change \in Seq(ChangeRecord) /\ build \in Seq(BuildRecord)
  BY DEF IInv, Types
<1>1. CASE GenerateReport \/ DecideReport \/ MovePin
  <2>1. UNCHANGED <<change, build, run, case, call, allowed>> /\ (Fault \/ UNCHANGED faults)
    BY <1>1 DEF GenerateReport, DecideReport, MovePin, evidenceVars
  <2>2. card' \in Card /\ CardLinks'
    <3>1. CASE GenerateReport
      <4>1. PICK status \in Status : card' = [card EXCEPT !.jobs = DOMAIN run, !.status = status]
        BY <1>t, <3>1 DEF GenerateReport, Card, Status
      <4>2. DOMAIN run \subseteq Nat
        BY <1>t, Domains
      <4> QED
        BY <1>t, <2>1, <4>1, <4>2 DEF Card, IInv, CardLinks
    <3>2. CASE DecideReport
      BY <1>t, <2>1, <3>2 DEF DecideReport, Card, Status, IInv, CardLinks
    <3>3. CASE MovePin
      BY <1>t, <2>1, <3>3 DEF MovePin, Card, IInv, CardLinks
    <3> QED
      BY <1>1, <3>1, <3>2, <3>3
  <2>3. Types' /\ AnswersAsked'
    BY <1>t, <2>1, <2>2, FaultType DEF IInv, Types, AnswersAsked
  <2>4. Kept
    BY <2>1 DEF Kept, ChangesKept, BuildsKept, RunsKept, CasesKept
  <2>5. \A c \in DOMAIN change' : Old(c)
    BY <2>1 DEF Old
  <2> QED
    BY <2>1, <2>2, <2>3, <2>4, <2>5, Assemble
<1>2. CASE ReplacePatch
  <2>1. PICK c \in DOMAIN change, bytes \in {Missing, {NoPatch}} :
          change' = [change EXCEPT ![c].bytes = bytes]
    BY <1>2 DEF ReplacePatch
  <2>2. UNCHANGED <<card, build, run, case, call, allowed>> /\ Fault
    BY <1>2 DEF ReplacePatch, evidenceVars
  <2> DEFINE new == [change[c] EXCEPT !.bytes = bytes]
  <2>3. change[c] \in ChangeRecord /\ change' = [change EXCEPT ![c] = new]
    BY <1>t, <2>1, Domains
  <2>4. bytes \in SUBSET Patch
    BY DEF Missing, NoPatch, Patch
  <2>5. /\ new \in ChangeRecord
        /\ new.patch = change[c].patch /\ new.base = change[c].base /\ new.files = change[c].files
        /\ new.asks = change[c].asks /\ new.status = change[c].status /\ new.ref = change[c].ref
    BY <2>3, <2>4 DEF ChangeRecord
  <2> HIDE DEF new
  <2>6. /\ change' \in Seq(ChangeRecord) /\ DOMAIN change' = DOMAIN change
        /\ change'[c] = new /\ \A d \in DOMAIN change \ {c} : change'[d] = change[d]
    BY <1>t, <2>3, <2>5, ExceptSeq, LenProperties
  <2>7. Types' /\ CardLinks' /\ AnswersAsked'
    BY <1>t, <2>2, <2>6, FaultType DEF IInv, Types, CardLinks, AnswersAsked
  <2>8. Kept /\ \A d \in DOMAIN change' : Old(d)
    BY <2>2, <2>5, <2>6 DEF Kept, ChangesKept, BuildsKept, RunsKept, CasesKept, Old
  <2> QED
    BY <2>2, <2>7, <2>8, Assemble
<1>3. CASE ReplaceBinary
  <2>1. PICK b \in DOMAIN build : build' = [build EXCEPT ![b].intact = FALSE]
    BY <1>3 DEF ReplaceBinary
  <2>2. UNCHANGED <<card, change, run, case, call, allowed>> /\ Fault
    BY <1>3 DEF ReplaceBinary
  <2> DEFINE new == [build[b] EXCEPT !.intact = FALSE]
  <2>3. build[b] \in BuildRecord /\ build' = [build EXCEPT ![b] = new]
    BY <1>t, <2>1, Domains
  <2>4. /\ new \in BuildRecord
        /\ new.change = build[b].change /\ new.commit = build[b].commit /\ new.source = build[b].source
    BY <2>3 DEF BuildRecord
  <2> HIDE DEF new
  <2>5. /\ build' \in Seq(BuildRecord) /\ DOMAIN build' = DOMAIN build
        /\ build'[b] = new /\ \A d \in DOMAIN build \ {b} : build'[d] = build[d]
    BY <1>t, <2>3, <2>4, ExceptSeq, LenProperties
  <2>6. Types' /\ CardLinks' /\ AnswersAsked'
    BY <1>t, <2>2, <2>5, FaultType DEF IInv, Types, CardLinks, AnswersAsked
  <2>7. Kept /\ \A d \in DOMAIN change' : Old(d)
    BY <2>2, <2>4, <2>5 DEF Kept, ChangesKept, BuildsKept, RunsKept, CasesKept, Old
  <2> QED
    BY <2>2, <2>5, <2>6, <2>7, Assemble
<1>4. CASE Crash
  <2>1. \A k \in Calls : CallAsSeen(k)'
    BY <1>4 DEF Crash, CallAsSeen, Idle, PathsOf, NoPatch
  <2>2. call' \in [Calls -> Call] /\ faults' \in 0..MaxFaults
    BY <1>t, <1>4, IdleCall, FaultType DEF Crash
  <2> QED
    BY <1>4, <2>1, <2>2, CallStep DEF Crash
<1> QED
  BY <1>1, <1>2, <1>3, <1>4

-----------------------------------------------------------------------------
LEMMA Initial == Init => IInv
<1> SUFFICES ASSUME Init
             PROVE  IInv
  OBVIOUS
<1>1. \A S : <<>> \in Seq(S)
  BY EmptySeq
<1>2. MaxFaults \in Nat /\ MaxFaults \in 0..MaxFaults /\ Pin \in Commits /\ "planned" \in Status
  BY BoundAssumption, TreeAssumption DEF Status
<1>3. DOMAIN change = {} /\ DOMAIN build = {} /\ DOMAIN run = {} /\ DOMAIN case = {}
  BY DEF Init
<1>4. Types
  BY <1>1, <1>2, IdleCall DEF Init, Types, Card
<1>5. CallsAsSeen
  BY DEF Init, CallsAsSeen, CallAsSeen, Idle, PathsOf, NoPatch
<1> QED
  BY <1>3, <1>4, <1>5 DEF Init, IInv, CardLinks, AllDescribed, AllBuiltTrue, RunsOfBuilds, AllIsolate,
     AnswersAsked

LEMMA Inductive == IInv /\ [Next]_vars => IInv'
<1> SUFFICES ASSUME IInv, [Next]_vars
             PROVE  IInv'
  OBVIOUS
<1>1. CASE UNCHANGED vars
  <2>1. call' \in [Calls -> Call] /\ faults' \in 0..MaxFaults
    BY <1>1 DEF vars, IInv, Types
  <2>2. UNCHANGED <<card, change, evidenceVars, allowed>> /\ call' = call
    BY <1>1 DEF vars, evidenceVars
  <2> QED
    BY <2>1, <2>2, CallStep
<1> QED
  BY <1>1, QuietSteps, PublishKeeps, AnswerKeeps, SubmitKeeps, ProduceKeeps, RunKeeps, CaseKeeps,
     OtherSteps DEF Next

(* The inductive invariant holds in every reachable state.                   *)
THEOREM Invariance == Spec => []IInv
<1> QED
  BY Initial, Inductive, PTL DEF Spec

(* Every record has its type, and the card names only records there are.    *)
THEOREM TypeCorrect == Spec => []TypeOK
<1>1. IInv => TypeOK
  <2> SUFFICES ASSUME IInv
               PROVE  TypeOK
    OBVIOUS
  <2>t. Types /\ CardLinks
    BY DEF IInv
  <2> USE DEF Types
  <2> DEFINE B == [change : {None} \cup DOMAIN change, commit : Commits,
                   source : [Files -> Contents], intact : BOOLEAN]
             R == [build : DOMAIN build, status : {"live", "succeeded", "failed"}]
             V == [change : DOMAIN change, base : DOMAIN run, candidate : DOMAIN run]
  <2>1. ASSUME NEW S, NEW T, NEW s \in Seq(S), \A i \in DOMAIN s : s[i] \in T
        PROVE  s \in Seq(T)
    <3>1. /\ Len(s) \in Nat /\ s \in [1..Len(s) -> S] /\ DOMAIN s = 1..Len(s)
      BY <2>1, LenProperties
    <3>2. s \in [1..Len(s) -> T]
      BY <2>1, <3>1
    <3> QED
      BY <3>1, <3>2, SeqDef
  <2>2. build \in Seq(B)
    <3>1. \A b \in DOMAIN build : build[b] \in B
      BY <2>t, Domains DEF IInv, AllBuiltTrue, BuiltTrue, BuildRecord
    <3> QED
      BY <2>t, <2>1, <3>1
  <2>3. run \in Seq(R)
    <3>1. \A r \in DOMAIN run : run[r] \in R
      BY <2>t, Domains DEF IInv, RunsOfBuilds, RunRecord
    <3> QED
      BY <2>t, <2>1, <3>1
  <2>4. case \in Seq(V)
    <3>1. \A v \in DOMAIN case : case[v] \in V
      BY <2>t, Domains DEF IInv, AllIsolate, Isolates, CaseRecord
    <3> QED
      BY <2>t, <2>1, <3>1
  <2>5. allowed \subseteq [ref : Approvals, change : DOMAIN change]
    BY <2>t DEF IInv, AnswersAsked
  <2>6. card \in [status : Status, pin : Commits, changes : SUBSET DOMAIN change,
                  jobs : SUBSET DOMAIN run, cases : SUBSET DOMAIN case]
    BY <2>t DEF CardLinks, Card
  <2> QED
    BY <2>t, <2>2, <2>3, <2>4, <2>5, <2>6 DEF TypeOK, ChangeRecord
<1> QED
  BY <1>1, Invariance, PTL

(* Whoever edits the checkout between two git commands, nothing outside the *)
(* files a change was described by gets into its patch.                     *)
THEOREM PatchesStayWithinFiles == Spec => []PatchWithinFiles
<1>1. IInv => PatchWithinFiles
  BY DEF IInv, AllDescribed, Described, PatchWithinFiles
<1> QED
  BY <1>1, Invariance, PTL

(* What is approved was allowed where it must be, and what is built is what *)
(* was approved.                                                           *)
THEOREM ApprovalsAreKept == Spec => []ApprovalsHold
<1>1. IInv => GuardedAreAllowed
  BY DEF IInv, AllDescribed, Described, GuardedAreAllowed
<1>2. IInv => BuiltAsApproved
  <2> SUFFICES ASSUME IInv, NEW b \in DOMAIN build
               PROVE  IF build[b].change = None
                        THEN build[b].source = Tree[build[b].commit]
                        ELSE LET c == change[build[b].change]
                             IN /\ c.status = "approved" /\ build[b].commit = c.base
                                /\ build[b].source = Applied(c.patch, Tree[c.base])
    BY DEF BuiltAsApproved
  <2>1. BuiltTrue(b)
    BY DEF IInv, AllBuiltTrue
  <2> QED
    BY <2>1 DEF BuiltTrue
<1> QED
  BY <1>1, <1>2, Invariance, PTL DEF ApprovalsHold

(* A task is reported only on a case that isolates one approved change.     *)
THEOREM ReportsRestOnEvidence == Spec => ReportedOnEvidence
<1> DEFINE Isolated(v, c) ==
      LET base == build[run[case[v].base].build]
          candidate == build[run[case[v].candidate].build]
      IN /\ change[c].status = "approved" /\ change[c].bytes = {change[c].patch}
         /\ {run[case[v].base].status, run[case[v].candidate].status} = {"succeeded"}
         /\ candidate.change = c /\ candidate.commit = base.commit
         /\ base.source = Tree[base.commit]
         /\ candidate.source = Applied(change[c].patch, base.source)
<1>1. IInv /\ [Next]_vars =>
        [card.status # "reporting" /\ card'.status = "reporting" =>
           \E v \in card.cases, c \in card.changes : Isolated(v, c)]_vars
  <2> SUFFICES ASSUME IInv, [Next]_vars, card.status # "reporting", card'.status = "reporting"
               PROVE  \E v \in card.cases, c \in card.changes : Isolated(v, c)
    OBVIOUS
  <2>c. card \in Card
    BY DEF IInv, Types
  <2>1. Closed
    <3>1. ~\E k \in Calls : PublishChange(k) \/ PublishCase(k)
      BY <2>c DEF PublishChange, PublishCase, Card
    <3>2. ~RunBuild /\ ~DecideReport /\ ~MovePin
      <4>1. ~RunBuild
        <5> SUFFICES ASSUME RunBuild PROVE FALSE
          OBVIOUS
        <5>1. card' = [card EXCEPT !.status = "running", !.jobs = @ \cup {Len(run) + 1}]
              \/ UNCHANGED card
          BY DEF RunBuild
        <5>2. card'.status \in {"running", card.status}
          BY <2>c, <5>1 DEF Card
        <5>3. QED BY <5>2
      <4>2. ~DecideReport
        BY DEF DecideReport
      <4>3. ~MovePin
        BY <2>c DEF MovePin, Card
      <4>4. QED BY <4>1, <4>2, <4>3
    <3>3. ASSUME NEW k \in Calls,
                 \/ BeginCreate(k) \/ BeginBuild(k) \/ BeginVerify(k)
                 \/ ReadHead(k) \/ ReadStatus(k) \/ ReadDiff(k) \/ CreateRefused(k)
                 \/ BeginSubmit(k) \/ Answer(k) \/ Submit(k) \/ SubmitRefused(k)
                 \/ Admit(k) \/ Produce(k) \/ ProduceFails(k) \/ VerifyRefused(k)
          PROVE  card' = card
      BY <3>3 DEF BeginCreate, BeginBuild, BeginVerify, ReadHead, ReadStatus, ReadDiff, CreateRefused,
         BeginSubmit, Answer, Submit, Approve, SubmitRefused, Admit, Produce, ProduceFails, VerifyRefused
    <3>4. RunEnds \/ ReplacePatch \/ ReplaceBinary \/ Crash \/ UNCHANGED vars => card' = card
      BY DEF RunEnds, ReplacePatch, ReplaceBinary, Crash, vars
    <3>5. GenerateReport
      BY <3>1, <3>2, <3>3, <3>4 DEF Next
    <3> QED
      BY <2>c, <3>5 DEF GenerateReport, Card
  <2>2. PICK v \in card.cases : case[v].change \in Qualified
    BY <2>1 DEF Closed
  <2>3. v \in DOMAIN case /\ Isolates(v)
    BY DEF IInv, CardLinks, AllIsolate
  <2> DEFINE c == case[v].change
             base == run[case[v].base].build
             candidate == run[case[v].candidate].build
  <2>4. c \in card.changes /\ change[c].status = "approved" /\ change[c].bytes = {change[c].patch}
    BY <2>2 DEF Qualified
  <2>5. run[case[v].base].status = "succeeded" /\ run[case[v].candidate].status = "succeeded"
    BY <2>1, <2>3 DEF Closed, Isolates
  <2>6. base \in DOMAIN build /\ candidate \in DOMAIN build
    BY <2>3 DEF IInv, RunsOfBuilds, Isolates
  <2>7. BuiltTrue(base) /\ BuiltTrue(candidate)
    BY <2>6 DEF IInv, AllBuiltTrue
  <2>8. c # None
    <3>1. c \in DOMAIN change
      BY <2>3 DEF Isolates
    <3> QED
      BY <3>1, Domains DEF IInv
  <2>9. Isolated(v, c)
    BY <2>3, <2>4, <2>5, <2>7, <2>8 DEF Isolates, BuiltTrue
  <2> QED
    BY <2>4, <2>9
<1> QED
  BY <1>1, Invariance, PTL DEF Spec, ReportedOnEvidence

-----------------------------------------------------------------------------
(* The refinement of ChangeLife.                                            *)
Proposed == [c \in DOMAIN change |-> change[c].patch]
ApprovedIds == {d \in DOMAIN change : change[d].status = "approved"}
Approved == [c \in ApprovedIds |-> change[c].ref]
Verified == {case[v].change : v \in DOMAIN case}

LEMMA LifeStays ==
  ASSUME DOMAIN change' = DOMAIN change,
         \A c \in DOMAIN change : /\ change'[c].patch = change[c].patch
                                  /\ change'[c].status = change[c].status
                                  /\ change'[c].ref = change[c].ref
  PROVE  Proposed' = Proposed /\ Approved' = Approved
<1>1. Proposed' = Proposed
  BY DEF Proposed
<1>2. ApprovedIds' = ApprovedIds
  BY DEF ApprovedIds
<1>3. Approved' = Approved
  BY <1>2 DEF Approved, ApprovedIds
<1> QED
  BY <1>1, <1>3

LEMMA LifeProposes ==
  ASSUME IInv, NEW k \in Calls, PublishChange(k)
  PROVE  Life!Propose
<1>1. PICK n \in 1..MaxChanges :
        /\ n \notin DOMAIN change /\ DOMAIN change' = DOMAIN change \cup {n}
        /\ \A c \in DOMAIN change : change'[c] = change[c]
        /\ change'[n].status = "proposed" /\ change'[n].patch \in Patch
  BY AddedChange
<1>2. Life!Extends(Proposed, Proposed', n, Patch)
  BY <1>1 DEF Proposed, Life!Extends
<1>3. ApprovedIds' = ApprovedIds
  BY <1>1 DEF ApprovedIds
<1>4. Approved' = Approved
  BY <1>1, <1>3 DEF Approved, ApprovedIds
<1>5. Verified' = Verified
  BY DEF PublishChange, evidenceVars, Verified
<1> QED
  BY <1>1, <1>2, <1>4, <1>5 DEF Life!Propose, Id, Proposed, Approved, ApprovedIds, Verified

LEMMA LifeApproves ==
  ASSUME IInv, NEW k \in Calls, Submit(k)
  PROVE  Life!Approve
<1>1. PICK d \in DOMAIN change :
        /\ DOMAIN change' = DOMAIN change
        /\ \A e \in DOMAIN change \ {d} : change'[e] = change[e]
        /\ change[d].status = "proposed" /\ change'[d].status = "approved"
        /\ change'[d].patch = change[d].patch
        /\ change'[d].ref \in Approvals
  BY ApprovedChangeRecord
<1>2. ApprovedIds' = ApprovedIds \cup {d} /\ d \notin ApprovedIds
  BY <1>1 DEF ApprovedIds
<1>3. Life!Extends(Approved, Approved', d, Approvals)
  BY <1>1, <1>2 DEF Approved, ApprovedIds, Life!Extends
<1>4. Proposed' = Proposed /\ d \in DOMAIN Proposed
  BY <1>1 DEF Proposed
<1>5. Verified' = Verified
  BY DEF Submit, Approve, evidenceVars, Verified
<1> QED
  BY <1>3, <1>4, <1>5 DEF Life!Approve, Proposed, Approved, ApprovedIds, Verified

LEMMA LifeVerifies ==
  ASSUME IInv, NEW k \in Calls, PublishCase(k)
  PROVE  Life!Verify
<1>1. PICK n \in Nat :
        /\ DOMAIN case' = DOMAIN case \cup {n} /\ n = Len(case) + 1
        /\ \A v \in DOMAIN case : case'[v] = case[v]
        /\ case'[n].change \in DOMAIN change
        /\ change[case'[n].change].status = "approved"
  BY AddedCase
<1>2. PICK c : c = case'[n].change
  OBVIOUS
<1>3. c \in DOMAIN Approved
  BY <1>1, <1>2 DEF Approved, ApprovedIds
<1>4. Verified' = Verified \cup {c}
  BY <1>1, <1>2 DEF Verified
<1>5. change' = change
  BY DEF PublishCase
<1>6. Proposed' = Proposed /\ Approved' = Approved
  BY <1>5, LifeStays
<1> QED
  BY <1>3, <1>4, <1>6 DEF Life!Verify, Proposed, Approved, ApprovedIds, Verified

(* Whatever overlaps, is replaced or is lost, a change says once what it     *)
(* changes, is approved once, and is verified only when approved.           *)
THEOREM Refinement == Spec => ImplementsLife
<1>1. Init => Life!LifeInit
  BY DEF Init, Life!LifeInit
<1>2. IInv /\ [Next]_vars => [Life!LifeNext]_(Life!lifeVars)
  <2> SUFFICES ASSUME IInv, [Next]_vars
               PROVE  Life!LifeNext \/ (Proposed' = Proposed /\ Approved' = Approved /\ Verified' = Verified)
    BY DEF Life!lifeVars, Proposed, Approved, ApprovedIds, Verified
  <2>1. ASSUME NEW k \in Calls, PublishChange(k) \/ Submit(k) \/ PublishCase(k)
        PROVE  Life!LifeNext
    BY <2>1, LifeProposes, LifeApproves, LifeVerifies DEF Life!LifeNext
  <2>2. ASSUME change' = change, case' = case
        PROVE  Proposed' = Proposed /\ Approved' = Approved /\ Verified' = Verified
    BY <2>2, LifeStays DEF Verified
  <2>3. ASSUME NEW k \in Calls,
               \/ BeginCreate(k) \/ BeginBuild(k) \/ BeginVerify(k)
               \/ ReadHead(k) \/ ReadStatus(k) \/ ReadDiff(k) \/ CreateRefused(k)
               \/ BeginSubmit(k) \/ Answer(k) \/ SubmitRefused(k)
               \/ Admit(k) \/ Produce(k) \/ ProduceFails(k) \/ VerifyRefused(k)
        PROVE  change' = change /\ case' = case
    BY <2>3 DEF BeginCreate, BeginBuild, BeginVerify, ReadHead, ReadStatus, ReadDiff, CreateRefused,
       BeginSubmit, Answer, SubmitRefused, Admit, Produce, ProduceFails, VerifyRefused, evidenceVars
  <2>4. RunBuild \/ RunEnds \/ GenerateReport \/ DecideReport \/ MovePin \/ ReplaceBinary \/ Crash
        \/ UNCHANGED vars => change' = change /\ case' = case
    BY DEF RunBuild, RunEnds, GenerateReport, DecideReport, MovePin, ReplaceBinary, Crash, vars,
       evidenceVars
  <2>5. CASE ReplacePatch
    <3>1. PICK c \in DOMAIN change, bytes \in {Missing, {NoPatch}} :
            change' = [change EXCEPT ![c].bytes = bytes]
      BY <2>5 DEF ReplacePatch
    <3>2. /\ DOMAIN change' = DOMAIN change
          /\ \A d \in DOMAIN change : change[d] \in ChangeRecord
      BY <3>1, Domains DEF IInv
    <3>3. \A d \in DOMAIN change : /\ change'[d].patch = change[d].patch
                                   /\ change'[d].status = change[d].status
                                   /\ change'[d].ref = change[d].ref
      BY <3>1, <3>2 DEF ChangeRecord
    <3>4. Verified' = Verified
      BY <2>5 DEF ReplacePatch, evidenceVars, Verified
    <3> QED
      BY <3>2, <3>3, <3>4, LifeStays
  <2> QED
    BY <2>1, <2>2, <2>3, <2>4, <2>5 DEF Next
<1> QED
  BY <1>1, <1>2, Invariance, PTL DEF Spec, ImplementsLife, Life!LifeSpec
=============================================================================
