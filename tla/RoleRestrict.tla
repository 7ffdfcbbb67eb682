---------------------------- MODULE RoleRestrict ----------------------------
(***************************************************************************)
(* shud-role-restrict: which of its masks an agent carries.  The plugin       *)
(* installs a mask for the role of the agent's session when the agent is     *)
(* created and when a preset is selected, and takes it away when the agent   *)
(* or the plugin is disposed.  Installing and releasing a mask emits         *)
(* tools/change, whose observers run before restrict and release return:     *)
(* they may select a preset, create or dispose an agent, or unload the       *)
(* plugin, and enter the plugin once more.  `stack' holds the calls of the   *)
(* plugin that have not returned; nothing else runs concurrently.           *)
(*                                                                         *)
(* The masks of other plugins, and the lists of tools, are left out.  As the  *)
(* host has it, restrict installs the mask or throws and installs none.      *)
(***************************************************************************)
EXTENDS Naturals, Sequences, SequencesExt, FiniteSets

CONSTANTS Agents, Sessions,
          SessionOf,     \* the session of each agent
          Roles,         \* the roles that have an inherited tool list
          MaxEvents,     \* bound on the events that reach the plugin
          MaxDepth       \* bound on the calls that have not returned

VARIABLES
  preset,        \* the role of the selected preset of each session, or "unknown"
  life,          \* of each agent: new, live or gone
  masks,         \* the masks of this plugin each agent carries
  active,        \* the plugin is loaded
  tracked,       \* the agents in its map
  revision, held,    \* their binding: how often it was bound or dropped, and its restriction
  stack,
  outdated,      \* the agents whose last binding was refused or not reached (history)
  events         \* events still to come

bindingVars == <<tracked, revision, held>>
vars == <<preset, life, masks, active, bindingVars, stack, outdated, events>>

None == [role |-> "none", by |-> 0]
Mask == [role : Roles, by : Nat]

(* A call that waits for restrict or release, or walks the agents of a     *)
(* session.                                                                *)
Binding(a, mask, prior) == [op |-> "restrict", agent |-> a, mask |-> mask, prior |-> prior]
Releasing == [op |-> "release"]
Selecting(s) == [op |-> "select", session |-> s, seen |-> {}]

Top == stack[Len(stack)]
Below == Front(stack)

TypeOK ==
  /\ preset \in [Sessions -> Roles \cup {"unknown"}]
  /\ life \in [Agents -> {"new", "live", "gone"}]
  /\ \A a \in Agents : masks[a] \subseteq Mask /\ held[a] \in Mask \cup {None}
  /\ active \in BOOLEAN /\ tracked \subseteq Agents /\ outdated \subseteq Agents
  /\ revision \in [Agents -> Nat] /\ events \in 0..MaxEvents
  /\ Len(stack) \in 0..MaxDepth + 1   \* a selection and its restrict

Init ==
  /\ preset \in [Sessions -> Roles \cup {"unknown"}]
  /\ life = [a \in Agents |-> "new"] /\ masks = [a \in Agents |-> {}]
  /\ active = TRUE /\ tracked = {}
  /\ revision = [a \in Agents |-> 0] /\ held = [a \in Agents |-> None]
  /\ stack = <<>> /\ outdated = {} /\ events = MaxEvents

RoleOf(a) == preset[SessionOf[a]]

(* Without a call in progress, or from an observer of tools/change.        *)
Event == /\ events > 0 /\ events' = events - 1
         /\ stack # <<>> => Top.op \in {"restrict", "release"} /\ Len(stack) < MaxDepth

-----------------------------------------------------------------------------
(* bind, up to the return of restrict, or to the end where there is none.  *)
(* `rest' are the calls that remain below.                                 *)
Drop(a, mask, rest) ==           \* mask?.release()
  /\ masks' = [masks EXCEPT ![a] = @ \ {mask}]
  /\ stack' = IF mask = None THEN rest ELSE Append(rest, Releasing)

Unbind(a, rest) ==
  /\ RoleOf(a) = "unknown"
  /\ held' = [held EXCEPT ![a] = None] /\ outdated' = outdated \ {a}
  /\ Drop(a, held[a], rest)

Keep(a, rest) ==
  /\ RoleOf(a) = held[a].role
  /\ outdated' = outdated \ {a} /\ stack' = rest /\ UNCHANGED <<masks, held>>

ReplaceReleasingFirst(a, rest) ==    \* a mistake: the prior mask is released before the new one
  /\ RoleOf(a) \notin {"unknown", held[a].role}
  /\ LET mask == [role |-> RoleOf(a), by |-> revision'[a]]
     IN /\ masks' = [masks EXCEPT ![a] = (@ \ {held[a]}) \cup {mask}]
        /\ stack' = Append(rest, Binding(a, mask, None))
  /\ outdated' = outdated \ {a} /\ UNCHANGED held

Replace(a, rest) ==
  /\ RoleOf(a) \notin {"unknown", held[a].role}
  /\ LET mask == [role |-> RoleOf(a), by |-> revision'[a]]
     IN /\ masks' = [masks EXCEPT ![a] = @ \cup {mask}]
        /\ stack' = Append(rest, Binding(a, mask, held[a]))
  /\ outdated' = outdated \ {a} /\ UNCHANGED held

(* restrict throws: bind throws, and with it the walk that called it.      *)
Refused(a, rest) ==
  /\ RoleOf(a) \notin {"unknown", held[a].role}
  /\ IF rest # <<>> /\ Last(rest).op = "select"
       THEN /\ stack' = Front(rest)
            /\ outdated' = outdated \cup ({b \in tracked : SessionOf[b] = SessionOf[a]}
                                         \ (Last(rest).seen \ {a}))
       ELSE stack' = rest /\ outdated' = outdated \cup {a}
  /\ UNCHANGED <<masks, held>>

Bind(a, rest) ==
  /\ revision' = [revision EXCEPT ![a] = @ + 1]
  /\ Unbind(a, rest) \/ Keep(a, rest) \/ Replace(a, rest) \/ Refused(a, rest)

(* restrict returns.  A selection or disposal that came in between owns    *)
(* the latest state, and this mask goes.                                   *)
Latest(a, mask) == active /\ a \in tracked /\ revision[a] = mask.by

RestrictedUnchecked ==            \* a mistake: the revision is not compared
  /\ stack # <<>> /\ Top.op = "restrict"
  /\ LET a == Top.agent
     IN IF active /\ a \in tracked
          THEN held' = [held EXCEPT ![a] = Top.mask] /\ Drop(a, Top.prior, Below)
          ELSE Drop(a, Top.mask, Below) /\ UNCHANGED held
  /\ UNCHANGED <<preset, life, active, tracked, revision, outdated, events>>

Restricted ==
  /\ stack # <<>> /\ Top.op = "restrict"
  /\ LET a == Top.agent
     IN IF Latest(a, Top.mask)
          THEN held' = [held EXCEPT ![a] = Top.mask] /\ Drop(a, Top.prior, Below)
          ELSE Drop(a, Top.mask, Below) /\ UNCHANGED held
  /\ UNCHANGED <<preset, life, active, tracked, revision, outdated, events>>

Released ==
  /\ stack # <<>> /\ Top.op = "release" /\ stack' = Below
  /\ UNCHANGED <<preset, life, masks, active, bindingVars, outdated, events>>

-----------------------------------------------------------------------------
(* agent/created, of a new agent or once more of a live one.               *)
Created(a) ==
  /\ Event /\ life[a] # "gone" /\ life' = [life EXCEPT ![a] = "live"]
  /\ IF active
       THEN tracked' = tracked \cup {a} /\ Bind(a, stack)
       ELSE UNCHANGED <<masks, bindingVars, stack, outdated>>
  /\ UNCHANGED <<preset, active>>

(* agent-preset/selected, after the selection is committed.                *)
Selected(s) ==
  /\ Event
  /\ \E role \in Roles \cup {"unknown"} : preset' = [preset EXCEPT ![s] = role]
  /\ stack' = IF active THEN Append(stack, Selecting(s)) ELSE stack
  /\ UNCHANGED <<life, masks, active, bindingVars, outdated>>

(* The walk sees agents that are added while it lasts.                     *)
WalkOn ==
  /\ stack # <<>> /\ Top.op = "select"
  /\ UNCHANGED <<preset, life, active, tracked, events>>
  /\ LET left == {a \in tracked : SessionOf[a] = Top.session} \ Top.seen
     IN IF left = {} THEN stack' = Below /\ UNCHANGED <<masks, revision, held, outdated>>
        ELSE \E a \in left :
               Bind(a, Append(Below, [Top EXCEPT !.seen = @ \cup {a}]))

Disposed(a) ==
  /\ Event /\ life[a] = "live" /\ life' = [life EXCEPT ![a] = "gone"]
  /\ IF a \in tracked
       THEN /\ tracked' = tracked \ {a} /\ revision' = [revision EXCEPT ![a] = @ + 1]
            /\ held' = [held EXCEPT ![a] = None]
            /\ Drop(a, held[a], stack)
       ELSE UNCHANGED <<masks, bindingVars, stack>>
  /\ UNCHANGED <<preset, active, outdated>>

(* The plugin is disposed: its listeners first, then every restriction.    *)
Unloaded ==
  /\ Event /\ active /\ active' = FALSE
  /\ masks' = [a \in Agents |-> masks[a] \ {held[a]}]
  /\ tracked' = {} /\ held' = [a \in Agents |-> None]
  /\ revision' = [a \in Agents |-> IF a \in tracked THEN revision[a] + 1 ELSE revision[a]]
  /\ UNCHANGED <<preset, life, stack, outdated>>

-----------------------------------------------------------------------------
Next == \/ \E a \in Agents : Created(a) \/ Disposed(a)
        \/ \E s \in Sessions : Selected(s)
        \/ WalkOn \/ Restricted \/ Released \/ Unloaded

Spec == Init /\ [][Next]_vars

-----------------------------------------------------------------------------
(* While no call is in progress an agent carries the one mask its binding   *)
(* holds and no other, of the role its session has now unless restrict       *)
(* refused it; an agent or a plugin that was disposed leaves none behind.    *)
AtRest ==
  stack = <<>> => \A a \in Agents :
    /\ masks[a] = {held[a]} \ {None}
    /\ a \notin tracked => masks[a] = {}
    /\ a \in tracked \ outdated => held[a].role = IF RoleOf(a) = "unknown" THEN "none" ELSE RoleOf(a)

(* Between two masks there is no moment without one: what the binding       *)
(* holds is installed, also while an observer of the replacement runs.       *)
InForce == \A a \in tracked : held[a] # None => held[a] \in masks[a]
=============================================================================
