------------------------------ MODULE ToolGuards ------------------------------
(***************************************************************************)
(* tools/pre-execute: what stands between a tool call and its execution.     *)
(* The raw guard looks first where the call would write or read; only when   *)
(* it has nothing to say does the policy gate evaluate its rules, and then    *)
(* ask for reports and for guarded changes.  A question goes to the host,     *)
(* which lets the call through or not.                                      *)
(*                                                                         *)
(* A place is a path a tool is about to write or read; `where' is what the   *)
(* guard finds it to be: inside a raw directory, inside a governance root,   *)
(* outside of both, of an unknown identity (PathUnavailable) or broken (the  *)
(* path cannot be resolved).  Of a shell command remain the findings of the  *)
(* patterns on its text.  The policy gate is given the rule of the role       *)
(* surface and up to one rule more, of any form, before or after it.         *)
(***************************************************************************)
EXTENDS Naturals, Sequences, FiniteSets, SequencesExt

VARIABLES
  gpc,        \* idle, called, permitted (the raw guard is through), asked, end
  call, where, rules,
  asker, outcome

vars == <<gpc, call, where, rules, asker, outcome>>

-----------------------------------------------------------------------------
(* ROLE_TOOL_MAP, and isRoleToolIdAllowed.                                 *)
RoleTools ==
  [coordinator |-> {"task_create", "report_generate", "report_validate", "report_submit",
                    "report_decide", "shud_collect", "job_output", "job_list", "job_kill",
                    "subagent", "subagent_coder", "subagent_reviewer"},
   worker |-> {"shud_run", "shud_collect", "job_output", "job_list", "job_kill"},
   coder |-> {"bash", "read", "edit", "change_create", "change_submit", "shud_build"},
   reviewer |-> {"read", "verification_run", "shud_collect", "job_output", "job_list"}]

Roles4 == DOMAIN RoleTools
Surface(c) == c.role \notin Roles4 \/ c.tool \in RoleTools[c.role]

ReportTools == {"report_validate", "report_submit", "report_decide"}
FileTools == {"write", "edit", "str_replace_editor"}
ShellTools == {"bash", "pwsh"}

(* The places a tool's call is checked at, in the order of the code; a bad  *)
(* id leaves the directory in place of the file.                           *)
Card(c) == IF c.id THEN "card" ELSE "tasks"
Checked(c) ==
  CASE c.tool = "task_create" -> <<"tasks">>
    [] c.tool = "change_submit" -> <<IF c.id THEN "change" ELSE "changes">>
    [] c.tool = "change_create" -> <<"changes", "patches", Card(c), "repos">>
    [] c.tool = "shud_build" -> <<"builds", "repos">>
    [] c.tool = "verification_run" -> <<"verifications", Card(c)>>
    [] c.tool = "report_generate" -> <<"reports">> \o (IF c.id THEN <<"card">> ELSE <<>>)
    [] c.tool \in ReportTools -> IF c.id THEN <<"report", "page", "card">> ELSE <<>>
    [] c.tool = "shud_run" -> <<"runs", "stacks", "provenance">> \o (IF c.id THEN <<"card">> ELSE <<>>)
    [] c.tool \in FileTools /\ c.writes -> <<"file">>      \* not a view
    [] OTHER -> <<>>

(* What the tool itself writes when the call goes ahead.                   *)
Writes(c) ==
  CASE c.tool = "task_create" -> {"tasks"}
    [] c.tool = "change_submit" /\ c.id -> {"change"}
    [] c.tool = "change_create" /\ c.id -> {"changes", "patches", "card"}
    [] c.tool = "shud_build" -> {"builds"}
    [] c.tool = "verification_run" /\ c.id -> {"verifications", "card"}
    [] c.tool = "report_generate" /\ c.id -> {"reports", "card"}
    [] c.tool \in ReportTools /\ c.id -> {"report", "page", "card"}
    [] c.tool = "shud_run" -> {"runs", "stacks", "provenance"} \cup (IF c.id THEN {"card"} ELSE {})
    [] c.tool \in FileTools /\ c.writes -> {"file"}
    [] OTHER -> {}

Looked(c) ==
  ToSet(Checked(c)) \cup (IF c.tool = "shud_run" THEN {"input"} ELSE {})
                    \cup (IF c.tool \in ShellTools THEN {"workdir", "archive"} ELSE {})
Places == {"tasks", "card", "changes", "change", "patches", "repos", "builds", "verifications",
           "reports", "report", "page", "runs", "stacks", "provenance", "file", "input",
           "workdir", "archive"}
Found(c) == {"outside", "raw", "unknown", "broken"}
            \cup (IF c.tool \in FileTools \cup ShellTools THEN {"governance"} ELSE {})

-----------------------------------------------------------------------------
(* decideRawAccess: a decision names its code.                             *)
Pass == [kind |-> "next", code |-> "unrelated"]
Deny(code) == [kind |-> "deny", code |-> code]
Ask(code) == [kind |-> "ask", code |-> code]
Throw == [kind |-> "throw", code |-> "error"]

(* canonical fails: some tools turn that into a denial, the others throw.  *)
Unresolved(c) ==
  IF c.tool \in {"change_submit", "change_create", "shud_build", "verification_run",
                 "report_generate"} \cup ReportTools
    THEN Deny("raw-target-unavailable") ELSE Throw

At(c, p, answer, otherwise) ==
  CASE where[p] = "unknown" -> Deny("raw-path-unavailable")
    [] where[p] = "broken" -> Unresolved(c)
    [] where[p] = "raw" -> answer
    [] OTHER -> otherwise

(* The first place that is not outside decides.                            *)
Targets(c) ==
  LET bad == {i \in DOMAIN Checked(c) : where[Checked(c)[i]] \notin {"outside", "governance"}}
  IN IF bad = {} THEN Pass ELSE At(c, Checked(c)[Min(bad)], Deny("raw-immutable"), Pass)

(* A report that cannot be read has no task whose card could be looked at. *)
DecideReportAccess(c) ==
  IF c.tool \in ReportTools /\ c.id /\ ~c.readable
     /\ \A p \in {"report", "page"} : where[p] = "outside"
    THEN Unresolved(c) ELSE Targets(c)

(* shud_run reads its input: a question.                                   *)
DecideRun(c) ==
  IF Targets(c) # Pass THEN Targets(c)
  ELSE At(c, "input", Ask("raw-read-provenance"), Pass)

(* A shell command against the raw directories: it touches one by naming   *)
(* it or by running in it; an archive it writes is a target of its own.    *)
DecideRawShell(c) ==
  LET touched == IF c.names = "raw" THEN Deny("touched") ELSE At(c, "workdir", Deny("touched"), Pass)
      writing == IF c.writes THEN Deny("raw-immutable") ELSE Ask("raw-read-provenance")
  IN IF where["workdir"] = "broken" THEN Throw
     ELSE IF touched # Deny("touched")
       THEN IF touched = Pass /\ c.destroys /\ c.names = "ancestor"
              THEN Deny("raw-ancestor-write") ELSE touched
     ELSE IF c.archives THEN At(c, "archive", Deny("raw-immutable"), writing) ELSE writing

(* The same classifiers against the governance roots, without a question.  *)
DecideGovernance(c) ==
  CASE c.tool \in FileTools -> IF c.writes /\ where["file"] = "governance" THEN Deny("governance-immutable") ELSE Pass
    [] c.tool \in ShellTools ->
         IF /\ c.writes \/ c.archives
            /\ c.names = "governance" \/ where["workdir"] = "governance"
            /\ c.writes \/ where["archive"] = "governance"
           THEN Deny("governance-immutable") ELSE Pass
    [] OTHER -> Pass

DecideKnownRawAccess(c) ==
  CASE c.tool \in ReportTools \cup {"report_generate"} -> DecideReportAccess(c)
    [] c.tool = "shud_run" -> DecideRun(c)
    [] c.tool \in ShellTools -> DecideRawShell(c)
    [] OTHER -> Targets(c)

DecideRawAccess(c) ==
  LET raw == DecideKnownRawAccess(c) IN IF raw.kind = "next" THEN DecideGovernance(c) ELSE raw

-----------------------------------------------------------------------------
(* evaluatePolicyGate.  A rule carries its class under two names, and so may *)
(* the result of its evaluation; an exotic result is no plain object with a  *)
(* decision, a reason and a remediation of its own that parse.               *)
Classes == {"authority", "capability"}
Alias(camel, snake) == [camel |-> camel, snake |-> snake]
Unnamed == Alias("missing", "missing")
Aliases == {Unnamed, Alias("authority", "missing"), Alias("missing", "capability"),
            Alias("authority", "capability"), Alias("capability", "capability"),
            Alias("invalid", "authority")}
Result(decision, alias) == [decision |-> decision, alias |-> alias]
Results == {Result(d, Unnamed) : d \in {"allow", "exotic", "other", "throws"}}
           \cup {Result("deny", a) : a \in Aliases}

ReservedIds == {"raw-data-write", "tool-parameter-schema-validation", "role-tool-surface"}
Prefixed == "role-tool-surface:x"      \* an error_id, not the id of a rule
Rules == [id : {"", "other", Prefixed, "role-tool-surface", "raw-data-write"},
          alias : Aliases, result : Results]

SurfaceRule(c) ==
  [id |-> "role-tool-surface", alias |-> Alias("authority", "missing"),
   result |-> Result(IF Surface(c) THEN "allow" ELSE "deny", Unnamed)]

(* readPolicyGuardClassAliases                                             *)
ClassOf(alias) ==
  LET named == {alias.camel, alias.snake} \ {"missing"}
  IN IF "invalid" \in named THEN "invalid"
     ELSE IF named = {} THEN "missing"
     ELSE IF Cardinality(named) = 2 THEN "conflicting"
     ELSE CHOOSE class \in named : TRUE

(* validatePolicyGateContextMetadata: all rules, before any is evaluated.  *)
Clean(context) ==
  /\ \A i \in DOMAIN context : context[i].id \notin {"", Prefixed}
  /\ \A i, j \in DOMAIN context : context[i].id = context[j].id => i = j
  /\ \A i \in DOMAIN context :
       /\ ClassOf(context[i].alias) \in Classes
       /\ context[i].id \in ReservedIds => ClassOf(context[i].alias) = "authority"

(* The decision of the first rule that does not allow the call.  A denial   *)
(* whose own class is not that of its rule is an error, as is a result that *)
(* is neither allow nor deny.                                              *)
Verdict(rule) ==
  IF rule.result.decision = "deny" /\ ClassOf(rule.result.alias) \in {"missing", ClassOf(rule.alias)}
    THEN Deny(rule.id) ELSE Throw

EvaluateTrusting(context) ==      \* a mistake: only a denial stops the call
  LET stops == {i \in DOMAIN context : context[i].result.decision = "deny"}
  IN IF ~Clean(context) THEN Throw ELSE IF stops = {} THEN Pass ELSE Verdict(context[Min(stops)])

EvaluatePolicyGate(context) ==
  LET stops == {i \in DOMAIN context : context[i].result.decision # "allow"}
  IN IF ~Clean(context) THEN Throw ELSE IF stops = {} THEN Pass ELSE Verdict(context[Min(stops)])

(* reportApproval: nothing that can be read lets the call through unasked.   *)
ReportApproval == Ask("report-approval")

(* The listener: an error denies; a change is asked about as its level and  *)
(* its patch have it, a report always.                                     *)
GateDecision(c) ==
  LET gate == EvaluatePolicyGate(rules)
  IN IF gate.kind = "throw" THEN Deny("policy-evaluation-failed")
     ELSE IF gate.kind = "deny" THEN gate
     ELSE IF c.tool = "change_submit" THEN c.change
     ELSE IF c.tool \in {"report_submit", "report_decide"} THEN ReportApproval ELSE Pass

-----------------------------------------------------------------------------
Tools == UNION {RoleTools[r] : r \in Roles4} \cup FileTools \cup ShellTools
NoCall == [tool |-> "none"]

(* The arguments, as far as a guard of this tool looks at them.            *)
Arguments(tool) ==
  LET text == tool \in ShellTools
  IN [tool : {tool}, role : Roles4 \cup {"unknown"},
      id : IF text \/ tool \in FileTools THEN {TRUE} ELSE BOOLEAN,
      readable : IF tool \in ReportTools THEN BOOLEAN ELSE {TRUE},
      change : IF tool = "change_submit"
                 THEN {Pass, Ask("change-approval"), Deny("change-patch-mismatch")} ELSE {Pass},
      writes : IF text \/ tool \in FileTools THEN BOOLEAN ELSE {FALSE},
      archives : IF text THEN BOOLEAN ELSE {FALSE},
      destroys : IF text THEN BOOLEAN ELSE {FALSE},
      names : IF text THEN {"nothing", "raw", "governance", "ancestor"} ELSE {"nothing"}]

Outside == [p \in Places |-> "outside"]

Init ==
  /\ gpc = "idle" /\ call = NoCall /\ where = Outside /\ rules = <<>>
  /\ asker = "none" /\ outcome = "none"

Called(tool) ==
  /\ gpc = "idle" /\ gpc' = "called"
  /\ call' \in Arguments(tool)
  /\ \E found \in [Looked(call') -> Found(call')] :
       where' = [p \in Places |-> IF p \in Looked(call') THEN found[p] ELSE "outside"]
  /\ UNCHANGED <<rules, asker, outcome>>

(* A decision ends the waterfall; next goes on to `through'.               *)
Decide(decision, by, through) ==
  CASE decision.kind = "next" -> /\ gpc' = through
                                 /\ outcome' = IF through = "end" THEN "runs" ELSE "none"
                                 /\ UNCHANGED asker
    [] decision.kind = "ask" -> gpc' = "asked" /\ asker' = by /\ UNCHANGED outcome
    [] OTHER -> gpc' = "end" /\ outcome' = "refused" /\ UNCHANGED asker

RawGuard ==
  /\ gpc = "called" /\ Decide(DecideRawAccess(call), "raw", "permitted")
  /\ UNCHANGED <<call, where, rules>>

(* One rule more is tried where the places of the call do not matter.      *)
Contexts(c) ==
  {<<SurfaceRule(c)>>}
    \cup IF where # Outside \/ c.tool \in ShellTools THEN {}
         ELSE {<<SurfaceRule(c), r>> : r \in Rules} \cup {<<r, SurfaceRule(c)>> : r \in Rules}

PolicyContext ==
  /\ gpc = "permitted" /\ rules = <<>> /\ rules' \in Contexts(call)
  /\ UNCHANGED <<gpc, call, where, asker, outcome>>

PolicyGate ==
  /\ gpc = "permitted" /\ rules # <<>> /\ Decide(GateDecision(call), "gate", "end")
  /\ UNCHANGED <<call, where, rules>>

(* The host: allowed once, or anything else.                               *)
Answered ==
  /\ gpc = "asked" /\ gpc' = "end" /\ outcome' \in {"runs", "refused"}
  /\ UNCHANGED <<call, where, rules, asker>>

Next == (\E tool \in Tools : Called(tool)) \/ RawGuard \/ PolicyContext \/ PolicyGate \/ Answered
Spec == Init /\ [][Next]_vars

-----------------------------------------------------------------------------
(* A call that runs writes into no raw directory, whatever was answered, and *)
(* a file tool into no governance root; raw input is not read unasked; and   *)
(* unless the question was the raw guard's own, every rule was in order and   *)
(* allowed the call, the one of the role's surface among them.               *)
LetThrough ==
  outcome = "runs" =>
    /\ \A p \in Writes(call) : where[p] = "outside"
    /\ call.tool = "shud_run" /\ where["input"] # "outside" => asker = "raw"
    /\ call.tool \in {"report_submit", "report_decide"} => asker = "gate"
    /\ asker # "raw" => /\ \A i \in DOMAIN rules : rules[i].result.decision = "allow"
                        /\ Surface(call) /\ SurfaceRule(call) \in ToSet(rules)
=============================================================================
