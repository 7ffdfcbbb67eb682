---------------------------- MODULE CoderApproval ----------------------------
(***************************************************************************)
(* shud-coder-approval: a fresh delegated coder starts with the approval     *)
(* policy `never' of its delegation; while its parent resolves to `ask' the  *)
(* plugin sets `ask' once, and takes it back when the initialization fails.  *)
(* Writing the policy and injecting the message run observers before they    *)
(* return, and those may set a policy, start the turn, switch the parent or   *)
(* unload the plugin.                                                       *)
(*                                                                         *)
(* One session is modelled, with the agent created for it.  Its log holds    *)
(* turn/start and approval/policy events; the seq of an event is its place   *)
(* in the log, counted from 0.  `lineage' stands for all that is asked of    *)
(* the agent, its parent, their headers and the registry before the policies *)
(* are looked at.                                                           *)
(***************************************************************************)
EXTENDS Naturals, Sequences, FiniteSets, FiniteSetsExt

CONSTANT MaxChoices      \* bound on what others do

VARIABLES
  policyLog,       \* the events of the session
  inherited,       \* how many of them came with the seed of the session
  lineage, parentPolicy,
  loaded, seenAgent, aborted,     \* the plugin, its `seen' set, the signal of the creation
  apc,             \* how far the handler of agent/created is
  policySeq,
  choices          \* what others may still do

vars == <<policyLog, inherited, lineage, parentPolicy, loaded, seenAgent, aborted,
          apc, policySeq, choices>>

Policies == {"ask", "never"}
Event(policy, by) == [policy |-> policy, by |-> by]
Turn == Event("none", "turn")
Delegated == Event("never", "delegation")
Histories == {<<>>, <<Delegated>>, <<Event("never", "other")>>, <<Delegated, Turn>>,
              <<Delegated, Event("never", "other")>>}

Init ==
  /\ policyLog \in Histories /\ inherited \in 0..Len(policyLog)
  /\ lineage \in BOOLEAN /\ parentPolicy \in Policies
  /\ loaded = TRUE /\ seenAgent = FALSE /\ aborted = FALSE
  /\ apc = "idle" /\ policySeq = 0 /\ choices = MaxChoices

-----------------------------------------------------------------------------
(* The projection shudCoderApproval, and the policy in force.              *)
Switches(from) == {i \in from + 1..Len(policyLog) : policyLog[i] # Turn}
Started == \E i \in inherited + 1..Len(policyLog) : policyLog[i] = Turn
PolicyCount == Min({2, Cardinality(Switches(inherited))})
Latest == policyLog[Max(Switches(inherited))]
LatestSeq == Max(Switches(inherited)) - 1

(* overrideOf(session), or else the configured policy, which is ask.       *)
CurrentPolicy == IF Switches(0) = {} THEN "ask" ELSE policyLog[Max(Switches(0))].policy

Fresh == /\ inherited = 0 /\ ~Started /\ PolicyCount = 1
         /\ Latest = Delegated /\ CurrentPolicy = "never"

(* The handler of agent/created up to the return of setApprovalPolicy,     *)
(* which appends the event or throws; there is no await before it.         *)
Initialize ==
  /\ policySeq' = Len(policyLog)
  /\ \/ policyLog' = Append(policyLog, Event("ask", "plugin")) /\ apc' = "written"
     \/ apc' = "failing" /\ UNCHANGED policyLog

Created ==
  /\ apc \in {"idle", "done", "failed", "stranded"} /\ loaded /\ ~seenAgent
  /\ seenAgent' = TRUE
  /\ IF lineage /\ Fresh /\ ~aborted /\ parentPolicy = "ask"
       THEN Initialize
       ELSE UNCHANGED <<policyLog, apc, policySeq>>
  /\ UNCHANGED <<inherited, lineage, parentPolicy, loaded, aborted, choices>>

(* The rest of setApprovalPolicy and inject: either may throw.             *)
Injected ==
  /\ apc = "written" /\ apc' \in {"done", "failing"}
  /\ UNCHANGED <<policyLog, inherited, lineage, parentPolicy, loaded, seenAgent, aborted,
                 policySeq, choices>>

OwnsPolicyByValue ==     \* a mistake: the policies are compared, not the seq
  Switches(inherited) # {} /\ Latest.policy = "ask" /\ CurrentPolicy = "ask"

OwnsPolicy ==
  /\ Switches(inherited) # {} /\ LatestSeq = policySeq
  /\ Latest.policy = "ask" /\ Latest.by # "delegation" /\ CurrentPolicy = "ask"

RollBack ==
  /\ apc = "failing"
  /\ IF OwnsPolicy
       THEN \/ policyLog' = Append(policyLog, Event("never", "plugin")) /\ apc' = "failed"
            \/ apc' = "stranded" /\ UNCHANGED policyLog
       ELSE apc' = "failed" /\ UNCHANGED policyLog
  /\ UNCHANGED <<inherited, lineage, parentPolicy, loaded, seenAgent, aborted, policySeq, choices>>

(* Whatever the others do, also as observers of the event or the message    *)
(* before setApprovalPolicy or inject returns; nothing runs between a throw *)
(* and its catch.                                                          *)
Others ==
  /\ apc # "failing" /\ choices > 0 /\ choices' = choices - 1
  /\ \/ /\ \E e \in [policy : Policies, by : {"other"}] \cup {Turn} : policyLog' = Append(policyLog, e)
        /\ UNCHANGED <<parentPolicy, loaded, seenAgent, aborted>>
     \/ /\ \E p \in Policies : parentPolicy' = p
        /\ UNCHANGED <<policyLog, loaded, seenAgent, aborted>>
     \/ /\ loaded' = ~loaded /\ seenAgent' = (seenAgent /\ loaded)    \* unloaded, or loaded anew
        /\ UNCHANGED <<policyLog, parentPolicy, aborted>>
     \/ aborted' = TRUE /\ UNCHANGED <<policyLog, parentPolicy, loaded, seenAgent>>
  /\ UNCHANGED <<inherited, lineage, apc, policySeq>>

Next == Created \/ Injected \/ RollBack \/ Others
Spec == Init /\ [][Next]_vars

-----------------------------------------------------------------------------
(* The plugin writes policies that are its own to write: ask as the first   *)
(* word after the delegation's never, never only to take that ask back, and  *)
(* nothing once somebody else has chosen, whatever was chosen.  An           *)
(* initialization that failed leaves no ask of the plugin in force.          *)
OwnPoliciesOnly ==
  /\ \A i \in 1..Len(policyLog) : policyLog[i].by = "plugin" =>
       /\ policyLog[1] = Delegated /\ (policyLog[i].policy = "ask" => i = 2)
       /\ \A j \in 1..i - 1 : policyLog[j].by # "other"
  /\ apc = "failed" /\ Switches(0) # {} =>
       policyLog[Max(Switches(0))] # Event("ask", "plugin")
=============================================================================
