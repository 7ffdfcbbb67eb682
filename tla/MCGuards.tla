------------------------------- MODULE MCGuards -------------------------------
(***************************************************************************)
(* The guards of the tools and of the sessions: the masks of the roles        *)
(* (RoleRestrict), the approval policy of a coder (CoderApproval), the raw    *)
(* guard with the policy gate (ToolGuards) and what the raw guard looks at     *)
(* (NamespaceCase, RawPaths).  They share no state; the first state chooses    *)
(* the one this behaviour is about, and the others rest.                    *)
(***************************************************************************)
EXTENDS Naturals

CONSTANTS agentA, agentB, agentC, sessionA, sessionC, Agents, Sessions, Roles, MaxEvents,
          MaxDepth, MaxChoices, MaxChanges, MaxLength

VARIABLES
  part,
  preset, life, masks, active, tracked, revision, held, stack, outdated, events,
  policyLog, inherited, lineage, parentPolicy, loaded, seenAgent, stopped, apc, policySeq, choices,
  gpc, call, where, rules, asker, ruling,
  folds, keepsCase, entries, inodes, dirChanged, clock, npc, visited, entryName, dirSeen,
  original, other, spelled, namespace,
  tree, folding, retains, rawDir, target

(* Two agents of one session and one of another.                           *)
SessionOf == [a \in {agentA, agentB, agentC} |-> IF a = agentC THEN sessionC ELSE sessionA]
ASSUME SessionAssumption == SessionOf \in [Agents -> Sessions]

maskVars == <<preset, life, masks, active, tracked, revision, held, stack, outdated, events>>
policyVars == <<policyLog, inherited, lineage, parentPolicy, loaded, seenAgent, stopped, apc,
                policySeq, choices>>
toolVars == <<gpc, call, where, rules, asker, ruling>>
caseVars == <<folds, keepsCase, entries, inodes, dirChanged, clock, npc, visited, entryName,
              dirSeen, original, other, spelled, namespace>>
pathVars == <<tree, folding, retains, rawDir, target>>
guardVars == <<part, maskVars, policyVars, toolVars, caseVars, pathVars>>

Masks == INSTANCE RoleRestrict
Policies == INSTANCE CoderApproval WITH aborted <- stopped
Tools == INSTANCE ToolGuards WITH outcome <- ruling
Cases == INSTANCE NamespaceCase
Paths == INSTANCE RawPaths

GuardsInit ==
  /\ part \in {"masks", "policies", "tools", "cases", "paths"}
  /\ Masks!Init /\ (part # "masks" => preset = [n \in Sessions |-> "unknown"])
  /\ Policies!Init /\ (part # "policies" => policyLog = <<>> /\ ~lineage /\ parentPolicy = "ask")
  /\ Tools!Init
  /\ Cases!Init /\ (part # "cases" => /\ ~folds /\ ~keepsCase /\ entries = [n \in {"a", "A"} |-> 0]
                                      /\ \A i \in DOMAIN inodes : inodes[i].kind = "file" /\ inodes[i].links = 0)
  /\ Paths!Init

GuardsNext ==
  \/ /\ part = "masks" /\ Masks!Next
     /\ UNCHANGED <<part, policyVars, toolVars, caseVars, pathVars>>
  \/ /\ part = "policies" /\ Policies!Next
     /\ UNCHANGED <<part, maskVars, toolVars, caseVars, pathVars>>
  \/ /\ part = "tools" /\ Tools!Next
     /\ UNCHANGED <<part, maskVars, policyVars, caseVars, pathVars>>
  \/ /\ part = "cases" /\ Cases!Next
     /\ UNCHANGED <<part, maskVars, policyVars, toolVars, pathVars>>
  \/ /\ part = "paths" /\ Paths!Next
     /\ UNCHANGED <<part, maskVars, policyVars, toolVars, caseVars>>

GuardsSpec == GuardsInit /\ [][GuardsNext]_guardVars

-----------------------------------------------------------------------------
(* The masks of the roles are in force, whichever order the host calls back  *)
(* in (role-restrict.ts).                                                  *)
MasksInForce == Masks!AtRest /\ Masks!InForce

(* The coder's plugin writes policies only where they are its own to write   *)
(* (coder-approval.ts).                                                    *)
OwnPoliciesOnly == Policies!OwnPoliciesOnly

(* What the two gates let through is what both were asked for, and what the  *)
(* raw guard has found out of a namespace, while others changed it, was true  *)
(* of it (decide.ts, evaluate.ts, policy-gate.ts).                          *)
LetThrough == Tools!LetThrough /\ Cases!NamespaceTrue

(* The raw guard's verdict on two paths is that of the file system           *)
(* (decide.ts).                                                            *)
RawVerdictsTrue == Paths!ContainmentTrue
=============================================================================
