----------------------------- MODULE ChangeLife -----------------------------
(***************************************************************************)
(* What the governance of source changes promises: a change says once and  *)
(* for all what it changes, it is approved once, and evidence is gathered  *)
(* only for approved changes.  CodeChange implements it.                   *)
(***************************************************************************)
CONSTANTS Change, Patch, Approval

VARIABLES proposed,      \* the patch of each change that exists
          approval,      \* who approved it, of each approved change
          verified       \* the changes a verification case is about

lifeVars == <<proposed, approval, verified>>

(* g gives one new element x a value in S and is f elsewhere.              *)
Extends(f, g, x, S) == /\ x \notin DOMAIN f
                       /\ DOMAIN g = DOMAIN f \cup {x}
                       /\ g[x] \in S
                       /\ \A y \in DOMAIN f : g[y] = f[y]

LifeInit == /\ DOMAIN proposed = {}
            /\ DOMAIN approval = {}
            /\ verified = {}

Propose == \E c \in Change : /\ Extends(proposed, proposed', c, Patch)
                             /\ UNCHANGED <<approval, verified>>

Approve == \E c \in DOMAIN proposed : /\ Extends(approval, approval', c, Approval)
                                      /\ UNCHANGED <<proposed, verified>>

Verify == \E c \in DOMAIN approval : /\ verified' = verified \cup {c}
                                     /\ UNCHANGED <<proposed, approval>>

LifeNext == Propose \/ Approve \/ Verify

LifeSpec == LifeInit /\ [][LifeNext]_lifeVars
=============================================================================
