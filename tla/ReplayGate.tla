----------------------------- MODULE ReplayGate -----------------------------
(***************************************************************************)
(* The replay gate (scripts/runtime/shud-replay.ts with its approvals,       *)
(* snapshot and oracle): a coordinator delegates the stages of a code change *)
(* to children, the driver follows the logs of all of them, answers the two  *)
(* approvals, owns the two runs, and, whatever happened, stops the host,     *)
(* reads the logs of the stopped host again, stops the runs and compares the *)
(* sources.  The agents may work out of order, at once or twice; the tools   *)
(* refuse what their own guards refuse, and the oracle has to notice the rest *)
(* in logs that are read one after the other while they grow.                *)
(***************************************************************************)
EXTENDS Naturals, Sequences, FiniteSets

CONSTANTS MaxChildren,  \* bound on the sessions the coordinator starts
          MaxBetween,   \* bound on what is logged between the reads of one collection
          MaxCalls,     \* bound on the calls of one stage in a session
          Hasty,        \* bound: the stages at which the coordinator may go on at once
          MaxMishaps    \* bound on deviations of the agents and faults of the host

VARIABLES
  trace,    \* what the sessions logged, in the order of their times
  role,     \* per child: its preset
  runs,     \* the run of the base build and of the candidate
  server,   \* the Web host
  touched,  \* somebody changed a source of the replay
  driver,   \* where the driver is
  taken,    \* the runs the driver saw alive and took
  cuts,     \* how far the trace goes that the last logs read show: root, the others
  trusted,  \* the approvals were in order so far
  end,      \* failure, number of clean-up errors, verdict
  mishaps

agentVars == <<trace, role, runs, server, touched>>
gateVars == <<driver, taken, cuts, trusted, end>>
replayVars == <<agentVars, gateVars, mishaps>>

Child == 1..MaxChildren
Session == 0..MaxChildren                 \* the coordinator is 0
Chain == <<"task", "base", "create", "change", "run1", "collect1", "candidate", "run2",
           "collect2", "verify", "generate", "validate", "submit">>
Work == <<"task", "base", "create", "change", "run1", "wait1", "collect1", "candidate", "run2",
          "wait2", "collect2", "verify", "generate", "validate", "submit">>
Stage == {Work[i] : i \in DOMAIN Work}
Approval == {"change", "submit"}
RoleFor(x) == IF x \in {"base", "create", "change", "candidate"} THEN "coder"
              ELSE IF x \in {"run1", "wait1", "collect1", "run2", "wait2", "collect2"} THEN "worker"
              ELSE IF x = "verify" THEN "reviewer" ELSE "coordinator"
RunOf(x) == IF x \in {"run1", "wait1", "collect1"} THEN 1 ELSE 2

Init ==
  /\ trace = <<>> /\ role = [c \in Child |-> "none"] /\ runs = [r \in {1, 2} |-> "none"]
  /\ server = "none" /\ touched = FALSE
  /\ driver = "capture" /\ taken = {}
  /\ cuts = [root |-> 0, rest |-> 0] /\ trusted = TRUE
  /\ end = [failed |-> FALSE, completed |-> FALSE, errors |-> 0, verdict |-> "none"]
  /\ mishaps = MaxMishaps

At(s, k, x) == LET entry == <<s, k, x>> IN {i \in DOMAIN trace : trace[i] = entry}
Logged(s, k, x) == LET entry == <<s, k, x>> IN \E i \in DOMAIN trace : trace[i] = entry
All(k, x) == {i \in DOMAIN trace : trace[i][2] = k /\ trace[i][3] = x}
Ever(k, x) == \E i \in DOMAIN trace : trace[i][2] = k /\ trace[i][3] = x
Done(x) == Ever("done", x)
Last(S) == CHOOSE i \in S : \A j \in S : j <= i
Latest(S) == IF S = {} THEN 0 ELSE Last(S)
Log(entry) == trace' = Append(trace, entry)

(* A call is open until its result; a session works between the start and    *)
(* the end of a turn.                                                      *)
Calls(s, x) == Cardinality(At(s, "call", x))
Results(s, x) == Cardinality(At(s, "done", x)) + Cardinality(At(s, "failed", x))
Open(s, x) == Calls(s, x) > Results(s, x)
Deeds(s) == {i \in DOMAIN trace : trace[i][1] = s}
Calling(s) == Cardinality({i \in Deeds(s) : trace[i][2] = "call"})
              > Cardinality({i \in Deeds(s) : trace[i][2] \in {"done", "failed"}})
Working(s) == Latest(At(s, "start", s)) > Latest(At(s, "end", s))
Role(s) == IF s = 0 THEN "coordinator" ELSE role[s]
Started(c) == role[c] # "none"
-----------------------------------------------------------------------------
(* The agents.                                                             *)

Prompted ==
  /\ server = "up"
  /\ driver \in {"chain", "rest", "final", "final-rest", "stop"}
  /\ driver \in {"rest", "final-rest"} => Len(trace) < cuts.root + MaxBetween
  /\ driver = "stop" => end.completed /\ Len(trace) < cuts.rest + MaxBetween
Mishap == mishaps > 0 /\ mishaps' = mishaps - 1
Deviates(asked) == IF asked THEN UNCHANGED mishaps ELSE Mishap

Earliest(stages) ==
  LET left == {i \in DOMAIN Work : Work[i] \in stages} IN
  IF left = {} THEN "none" ELSE Work[CHOOSE i \in left : \A j \in left : i <= j]
Left == LET over == {trace[i][3] : i \in {i \in DOMAIN trace : trace[i][2] = "done"}} IN
        Stage \ over
NextStage == Earliest(Left)
Busy == \E c \in Child : Started(c) /\ ~Logged(0, "settled", c)
(* One delegation is for one of these groups of stages.                     *)
Group(x) == CASE x = "base" -> {"base"} [] x \in {"create", "change"} -> {"create", "change"}
              [] x \in {"run1", "wait1", "collect1"} -> {"run1", "wait1", "collect1"}
              [] x = "candidate" -> {"candidate"}
              [] x \in {"run2", "wait2", "collect2"} -> {"run2", "wait2", "collect2"}
              [] OTHER -> {"verify"}
Served(c) == {x \in Stage : Logged(c, "done", x)}
Finished(c) == Served(c) # {} /\ \A x \in Served(c) : \A y \in Group(x) : Done(y)

LastDeed == trace[Latest(Deeds(0))][2]
NextButOne == LET later == Earliest(Left \ Group(NextStage)) IN
              IF later = "none" THEN later ELSE RoleFor(later)
(* The coordinator ends its turn to wait for the child it started, or goes on *)
(* at once, and then what it delegates next is anybody's.                   *)
Dispatch(c, kind, waits, next) ==
  /\ ~Started(c) /\ \A d \in Child : d < c => Started(d)
  /\ Deviates(waits /\ next # "none" /\ kind = IF Busy THEN NextButOne ELSE RoleFor(next))
  /\ (Busy => LastDeed = "dispatch") /\ (waits \/ next \in Hasty)
  /\ Working(0) /\ ~Calling(0)
  /\ role' = [role EXCEPT ![c] = kind]
  /\ trace' = trace \o <<<<0, "dispatch", c>>, <<c, "start", c>>>>
                    \o (IF waits THEN <<<<0, "end", 0>>>> ELSE <<>>)
  /\ UNCHANGED <<runs, server, touched, gateVars>>

(* What the tools refuse, in order of the stages (the other modules).       *)
Admits(x) ==
  CASE x = "task" -> TRUE
    [] x \in {"base", "create", "generate"} -> Done("task")
    [] x = "change" -> Done("create")
    [] x = "candidate" -> Done("change")
    [] x = "run1" -> Done("base") [] x = "run2" -> Done("candidate")
    [] x \in {"wait1", "wait2"} -> runs[RunOf(x)] \in {"zero", "nonzero"}
    [] x \in {"collect1", "collect2"} -> runs[RunOf(x)] \in {"zero", "nonzero"}
    [] x = "verify" -> Done("collect1") /\ Done("collect2") /\ \A r \in {1, 2} : runs[r] = "zero"
    [] x = "validate" -> Done("generate")
    [] x = "submit" -> Done("validate")

Call(s, x, next) ==
  /\ x = next \/ mishaps > 0
  /\ ~Done(x) /\ ~Open(s, x) /\ Calls(s, x) < MaxCalls
  /\ Deviates(x = next /\ ~Calling(s) /\ \A d \in Session : ~Open(d, x))
  /\ Log(<<s, "call", x>>)
  /\ UNCHANGED <<role, runs, server, touched, gateVars>>
Ask(s, x) ==
  /\ x \in Approval /\ Open(s, x) /\ Admits(x)
  /\ Cardinality(At(s, "asked", x)) < Calls(s, x)
  /\ Log(<<s, "asked", x>>)
  /\ UNCHANGED <<role, runs, server, touched, gateVars, mishaps>>
Return(s, x) ==
  /\ Open(s, x)
  /\ x \in Approval /\ Admits(x) => Cardinality(At(s, "allowed", x)) = Calls(s, x)
  /\ x \in {"wait1", "wait2"} => runs[RunOf(x)] # "live"
  /\ IF Admits(x)
     THEN \/ Log(<<s, "done", x>>) /\ UNCHANGED mishaps
          \/ Log(<<s, "failed", x>>) /\ Mishap
     ELSE Log(<<s, "failed", x>>) /\ UNCHANGED mishaps
  /\ runs' = IF x \in {"run1", "run2"} /\ <<s, "done", x>> = trace'[Len(trace')]
             THEN [runs EXCEPT ![RunOf(x)] = "live"] ELSE runs
  /\ UNCHANGED <<role, server, touched, gateVars>>

EndTurn(c) ==
  /\ Started(c) /\ Working(c) /\ ~Calling(c)
  /\ Deviates(Finished(c))
  /\ Log(<<c, "end", c>>)
  /\ UNCHANGED <<role, runs, server, touched, gateVars>>
Settled(c) ==
  /\ Started(c) /\ ~Working(c) /\ ~Logged(0, "settled", c)
  /\ Log(<<0, "settled", c>>)
  /\ UNCHANGED <<role, runs, server, touched, gateVars, mishaps>>

(* The coordinator's turn ends while it waits, and a notice starts another.  *)
RootEnds(next) ==
  /\ Working(0) /\ ~Calling(0)
  /\ Deviates(next = "none" \/ (Busy /\ LastDeed = "start"))
  /\ Log(<<0, "end", 0>>)
  /\ UNCHANGED <<role, runs, server, touched, gateVars>>
RootStarts ==
  /\ ~Working(0)
  /\ \E c \in Child : Latest(At(0, "settled", c)) > Latest(At(0, "end", 0))
  /\ Log(<<0, "start", 0>>)
  /\ UNCHANGED <<role, runs, server, touched, gateVars, mishaps>>

Agents ==
  /\ Prompted
  /\ LET next == NextStage IN
       \/ RootEnds(next) \/ RootStarts
       \/ \E c \in Child : \/ EndTurn(c) \/ Settled(c)
                           \/ \E k \in {"coder", "worker", "reviewer"}, waits \in BOOLEAN :
                                Dispatch(c, k, waits, next)
       \/ \E s \in {s \in Session : Working(s)} : \E x \in {x \in Stage : RoleFor(x) = Role(s)} :
            Call(s, x, next) \/ Ask(s, x) \/ Return(s, x)

RunEnds(r) ==
  /\ runs[r] = "live"
  /\ \/ runs' = [runs EXCEPT ![r] = "zero"] /\ UNCHANGED mishaps
     \/ Mishap /\ runs' = [runs EXCEPT ![r] = "nonzero"]
  /\ UNCHANGED <<trace, role, server, touched, gateVars>>
ServerDies ==
  /\ server = "up" /\ Mishap /\ server' = "dead"
  /\ UNCHANGED <<trace, role, runs, touched, gateVars>>

(* A tool of a living host, or a living run, writes to a source.            *)
Touch ==
  /\ ~touched /\ driver # "capture" /\ Mishap
  /\ server = "up" \/ \E r \in {1, 2} : runs[r] = "live"
  /\ touched' = TRUE
  /\ UNCHANGED <<trace, role, runs, server, gateVars>>

World == \/ Agents \/ ServerDies \/ Touch
         \/ \E r \in {1, 2} : RunEnds(r)
-----------------------------------------------------------------------------
(* The approvals: replayAsks over the logs read, and the predicate.         *)

Asks(n) == {i \in 1..n : trace[i][2] = "asked"}
ReplayAsks(n) ==
  /\ Cardinality(Asks(n)) <= 2
  /\ \A i, j \in Asks(n) : trace[i][3] = trace[j][3] => i = j

Produced(s, x) == Logged(s, "done", IF x = "change" THEN "create" ELSE "validate")
Authorized(s, x) ==
  /\ ReplayAsks(Len(trace))
  /\ \E i \in At(0, "done", "task") : TRUE
  /\ Cardinality(At(0, "call", "task")) = 1
  /\ Produced(s, x) /\ ~Done(x)
  /\ ~Ever("allowed", x)

Authorize(s, x) ==
  /\ driver \in {"chain", "rest", "final", "final-rest"} /\ server = "up" /\ trusted
  /\ Cardinality(At(s, "asked", x)) > Cardinality(At(s, "allowed", x))
  /\ IF Authorized(s, x) THEN Log(<<s, "allowed", x>>) /\ UNCHANGED trusted
                         ELSE trusted' = FALSE /\ UNCHANGED trace
  /\ UNCHANGED <<role, runs, server, touched, driver, taken, cuts, end, mishaps>>
-----------------------------------------------------------------------------
(* The driver: run.                                                        *)

Moves(from, to) == driver = from /\ driver' = to
driverUnchanged == <<role, runs, touched, mishaps>>

Capture ==
  /\ Moves("capture", "prepare")
  /\ UNCHANGED <<trace, server, driverUnchanged, taken, cuts, trusted, end>>
(* Preparation, build and installation write beside the sources.            *)
Prepare ==
  /\ Moves("prepare", "prompt") /\ server' = "up"
  /\ UNCHANGED <<trace, driverUnchanged, taken, cuts, trusted, end>>
Prompt ==
  /\ Moves("prompt", "chain") /\ server = "up"
  /\ Log(<<0, "start", 0>>)
  /\ UNCHANGED <<server, driverUnchanged, taken, cuts, trusted, end>>

(* collectReplayLogs: the root, and later the children its catalog names.    *)
ReadRoot(from, to) ==
  /\ Moves(from, to) /\ server = "up" /\ trusted
  /\ cuts' = [cuts EXCEPT !.root = Len(trace)]
  /\ UNCHANGED <<trace, server, driverUnchanged, taken, trusted, end>>

Until(S, n) == {i \in S : i <= n}
Catalog(n) == {trace[i][3] : i \in {i \in 1..n : trace[i][2] = "dispatch"}}
Complete(s, n) == Latest(Until(At(s, "end", s), n)) > Latest(Until(At(s, "start", s), n))
Ready(r, n) ==
  /\ Complete(0, r) /\ \A c \in Catalog(r) : Complete(c, n)
  /\ LET last == Latest(Until(At(0, "end", 0), r)) IN
       /\ \A c \in Child : \A i \in Until(At(0, "settled", c), r) : i < last
       /\ \A c \in Catalog(r) : Until(At(0, "settled", c), r) # {}

(* rememberReplayBuilds, the owners, and ownRunGroup for a run that lives.   *)
BuildOf(r) == IF r = 1 THEN "base" ELSE "candidate"
Submitter(r) == CHOOSE c \in Child : Logged(c, "done", IF r = 1 THEN "run1" ELSE "run2")
Workers(n) == {c \in Catalog(n) : role[c] = "worker"}
Builds(n) == {b \in {"base", "candidate"} : \E c \in Catalog(n) : Logged(c, "done", b)}
BuiltOnce == \A b \in {"base", "candidate"} : Cardinality(All("done", b)) <= 1
Ours(r, n) == runs[r] # "none" /\ Submitter(r) \in Workers(n)
ReadRest ==
  /\ driver \in {"rest", "final-rest"} /\ server = "up" /\ trusted
  /\ ReplayAsks(Len(trace)) /\ BuiltOnce
  /\ IF driver = "final-rest"
     THEN /\ driver' = "stop" /\ cuts' = [cuts EXCEPT !.rest = Len(trace)]
          /\ UNCHANGED <<taken, end>>
     ELSE
     /\ cuts' = [cuts EXCEPT !.root = 0]
     /\ LET ours == {r \in {1, 2} : Ours(r, cuts.root)} IN
          /\ \A r \in ours : BuildOf(r) \in Builds(cuts.root)
          /\ taken' = taken \cup {r \in ours : runs[r] = "live"}
     /\ LET idle == Ready(cuts.root, Len(trace))
            all == \A r \in {1, 2} : runs[r] # "none"
            collected == Done("collect1") /\ Done("collect2")
        IN /\ idle => all
           /\ IF idle /\ collected
              THEN driver' = "final" /\ end' = [end EXCEPT !.completed = TRUE]
              ELSE driver' = "chain" /\ UNCHANGED end
  /\ UNCHANGED <<trace, server, driverUnchanged, trusted>>

(* A deadline, an abort, a fact that does not hold, a host that is gone.     *)
GivesUp ==
  /\ driver \in {"capture", "prepare", "prompt", "chain", "rest", "final", "final-rest"}
  /\ driver' = "stop" /\ end' = [end EXCEPT !.failed = TRUE]
  /\ cuts' = [root |-> 0, rest |-> 0]
  /\ UNCHANGED <<trace, server, driverUnchanged, taken, trusted>>

(* The finally block.                                                      *)
StopServer ==
  /\ Moves("stop", "discover")
  /\ \/ server' = (IF server = "up" THEN "dead" ELSE server) /\ UNCHANGED <<end, mishaps>>
     \/ /\ server = "up" /\ Mishap
        /\ end' = [end EXCEPT !.errors = @ + 1] /\ UNCHANGED server
  /\ UNCHANGED <<trace, role, runs, touched, taken, cuts, trusted>>

(* discoverOwnedSessions and the logs of the stopped host: every worker and   *)
(* build is known then.  cleanupOwnedRuns: a run of a known worker and build   *)
(* that lives is taken and stopped; one that ended unseen cannot be proved      *)
(* quiet.  If the discovery failed, what is known is what some round read.    *)
Exited == server # "up"
Provable(r) == Ours(r, Len(trace)) /\ BuildOf(r) \in Builds(Len(trace)) /\ runs[r] = "live"
CleanUpTaken(r, known) == r \in taken      \* as if only the runs seen alive were stopped
CleanUp(r, known) == r \in taken \/ (r \in known /\ Provable(r))
CleanUpRuns ==
  /\ Moves("discover", "after")
  /\ \E fails \in IF Exited /\ trace # <<>> THEN {~BuiltOnce, ~BuiltOnce \/ mishaps > 0}
                  ELSE {FALSE} :
       \E known \in IF fails THEN SUBSET {1, 2} ELSE {{1, 2}} :
         LET stops == {r \in {1, 2} : Exited /\ CleanUp(r, known)}
             left == {r \in {1, 2} : /\ runs[r] # "none" /\ r \notin taken
                                     /\ ~(r \in known /\ Provable(r))}
             unproved == (IF fails THEN 1 ELSE 0) + (IF Exited THEN Cardinality(left) ELSE 1)
         IN /\ runs' = [r \in {1, 2} |->
                        IF r \in stops /\ runs[r] = "live" THEN "stopped" ELSE runs[r]]
            /\ end' = [end EXCEPT !.errors = @ + unproved]
            /\ mishaps' = IF fails /\ BuiltOnce THEN mishaps - 1 ELSE mishaps
  /\ UNCHANGED <<trace, role, server, touched, taken, cuts, trusted>>

(* capturePreservation and assertReplayPreservation, of a stopped host only.  *)
PreservedUnread == Exited                \* as if the sources were not compared
Preserved == Exited /\ ~touched
Compare ==
  /\ Moves("after", "judge")
  /\ end' = IF Preserved THEN end ELSE [end EXCEPT !.errors = @ + 1]
  /\ UNCHANGED <<trace, server, driverUnchanged, taken, cuts, trusted>>
-----------------------------------------------------------------------------
(* assertReplayEvidence over the logs of the stopped host.                   *)

One(x) == Cardinality(All("call", x)) = 1
Home(x) == CHOOSE s \in Session : Logged(s, "done", x)
CallOf(x) == Latest({i \in At(Home(x), "call", x) : i < Latest(At(Home(x), "done", x))})
ResultOf(x) == Latest(At(Home(x), "done", x))

(* Every session is complete, every call has its result, and every log was    *)
(* flushed as far as it goes.                                              *)
Whole == /\ \A s \in Session : (s = 0 \/ Started(s)) => Complete(s, Len(trace)) /\ ~Calling(s)
         /\ \A i \in DOMAIN trace : i <= (IF trace[i][1] = 0 THEN cuts.root ELSE cuts.rest)
Notice(c) == Latest({i \in At(0, "settled", c) : i > Latest(At(c, "end", c))})
Bound == /\ \A c \in Child : Started(c) => Notice(c) > 0
         /\ \A k \in {"coder", "worker", "reviewer"} : \E c \in Child : role[c] = k
         /\ \A c \in Child : \A i \in At(0, "settled", c) : i < Latest(At(0, "end", 0))
Producers ==
  /\ \A x \in {Chain[i] : i \in DOMAIN Chain} : Done(x)
  /\ \A x \in {"task", "create", "change", "verify", "submit"} : One(x)
  /\ BuiltOnce
  /\ \A x \in {"generate", "validate"} : ~Ever("failed", x)
Waited(r) == LET w == IF r = 1 THEN "wait1" ELSE "wait2"
                 run == IF r = 1 THEN "run1" ELSE "run2"
                 c == IF r = 1 THEN "collect1" ELSE "collect2" IN
  /\ runs[r] = "zero" /\ Home(run) = Home(c) /\ Logged(Home(c), "done", w)
  /\ \E i \in At(Home(c), "call", w) : ResultOf(run) < i
  /\ Latest(At(Home(c), "done", w)) < CallOf(c)
DispatchOf(c) == Latest(At(0, "dispatch", c))
Before(x, y) ==
  /\ ResultOf(x) < CallOf(y)
  /\ Home(x) # Home(y) =>
       IF Home(x) = 0 THEN ResultOf(x) < DispatchOf(Home(y))
       ELSE IF Home(y) = 0 THEN Notice(Home(x)) < CallOf(y)
       ELSE Notice(Home(x)) < DispatchOf(Home(y))
Approved(x) ==
  LET s == Home(x) IN
  /\ Cardinality(At(s, "asked", x)) = 1 /\ Cardinality(At(s, "allowed", x)) = 1
  /\ CallOf(x) < Latest(At(s, "asked", x))
  /\ Latest(At(s, "asked", x)) < Latest(At(s, "allowed", x))
  /\ Latest(At(s, "allowed", x)) < ResultOf(x)
ReplayEvidence ==
  /\ Cardinality(Asks(Len(trace))) = 2 /\ ReplayAsks(Len(trace))
  /\ Whole /\ Bound /\ Producers /\ Waited(1) /\ Waited(2)
  /\ \A i \in 1..(Len(Chain) - 1) : Before(Chain[i], Chain[i + 1])
  /\ \A x \in Approval : Approved(x)

Judges ==
  /\ Moves("judge", "done")
  /\ LET passes == ~end.failed /\ end.errors = 0 /\ Exited /\ trace # <<>> /\ ReplayEvidence IN
       end' = [end EXCEPT !.verdict = IF passes THEN "PASS" ELSE "FAIL"]
  /\ UNCHANGED <<trace, server, driverUnchanged, taken, cuts, trusted>>

Driver ==
  \/ Capture \/ Prepare \/ Prompt \/ ReadRoot("chain", "rest") \/ ReadRoot("final", "final-rest")
  \/ ReadRest \/ StopServer \/ CleanUpRuns \/ Compare \/ Judges
Next ==
  \/ Driver \/ GivesUp
  \/ driver # "done" /\ World
  \/ \E x \in Approval : \E s \in {s \in Session : Role(s) = RoleFor(x)} : Authorize(s, x)
-----------------------------------------------------------------------------
(* A PASS is a replay as it was asked for: every stage was done, once the one *)
(* before it had its result, by children none of which did anything after a   *)
(* later one was started; both runs ended well; each of the two decisions     *)
(* was taken once, in the session that produced what it is about; the sources *)
(* are what they were, and nothing of it is alive.                         *)
First(S) == CHOOSE i \in S : \A j \in S : i <= j
DoneAt(x) == First(All("done", x))
PassMeansReplay ==
  end.verdict = "PASS" =>
    /\ \A x \in Stage : Done(x)
    /\ \A i \in 1..(Len(Chain) - 1) :
         LET x == Chain[i]
             y == Chain[i + 1]
             begun == IF Home(y) = 0 THEN CallOf(y) ELSE First(Deeds(Home(y)))
         IN /\ DoneAt(x) < CallOf(y)
            /\ Home(x) \notin {0, Home(y)} => \A j \in Deeds(Home(x)) : j < begun
    /\ \A r \in {1, 2} : runs[r] = "zero"
    /\ \A x \in Approval : \E i \in DOMAIN trace :
         /\ All("allowed", x) = {i}
         /\ Logged(trace[i][1], "done", IF x = "change" THEN "create" ELSE "validate")
    /\ server = "dead" /\ ~touched

(* Without a clean-up error nothing is left running, however early the gate    *)
(* gave up and whatever it had not heard of.                               *)
CleanEnd == driver = "done" /\ end.errors = 0 =>
              /\ server # "up"
              /\ \A r \in {1, 2} : runs[r] # "live"
              /\ ~touched

ReplayTrue == PassMeansReplay /\ CleanEnd

(* The finally block waits for nobody: whatever its step does, it moves on.  *)
Continues == /\ driver \in {"stop", "discover", "after", "judge"}
             /\ driver' \in {"discover", "after", "judge", "done"} \ {driver}
=============================================================================
