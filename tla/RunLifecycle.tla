---------------------------- MODULE RunLifecycle ----------------------------
(***************************************************************************)
(* What the durable record of one SHUD run promises to everybody who reads *)
(* it, whatever hosts crash, reload or close meanwhile: a submission that  *)
(* was not promised may be withdrawn, a promised run reaches exactly one   *)
(* final outcome, a request to cancel it is never forgotten, and a run is  *)
(* called lost only when nobody asked to cancel it.                        *)
(***************************************************************************)
VARIABLES stage, \* none, pending, running, or the outcome
          asked  \* cancellation has been requested

lvars == <<stage, asked>>

(* "lost" is a failure without exit code, "unreadable" a failure because   *)
(* the exit code could not be read.                                        *)
Outcome == {"succeeded", "failed", "cancelled", "lost", "unreadable"}
Stage == Outcome \cup {"none", "pending", "running"}

LifecycleInit == stage = "none" /\ asked = FALSE

Accept   == stage = "none" /\ stage' = "pending" /\ UNCHANGED asked
Withdraw == stage = "pending" /\ stage' = "none" /\ UNCHANGED asked
Run      == stage = "pending" /\ stage' = "running" /\ UNCHANGED asked
Ask      == stage = "running" /\ asked' = TRUE /\ UNCHANGED stage

(* Cancelled needs a request, lost needs its absence; the other outcomes   *)
(* are what the execution itself reported.                                 *)
End(outcome) ==
  /\ stage \in {"pending", "running"}
  /\ outcome = "cancelled" => asked
  /\ outcome = "lost" => ~asked
  /\ stage' = outcome
  /\ UNCHANGED asked

LifecycleNext == Accept \/ Withdraw \/ Run \/ Ask \/ \E outcome \in Outcome : End(outcome)

LifecycleSpec == LifecycleInit /\ [][LifecycleNext]_lvars
=============================================================================
