---------------------------- MODULE TaskOutcome ----------------------------
(***************************************************************************)
(* What a task card and its reports promise the PI: a report is decided    *)
(* once, a card is closed only by a decision of that kind, and a closed     *)
(* card is never opened again.  ReportWorkflow implements it.               *)
(***************************************************************************)
CONSTANTS Reports, Outcome

VARIABLES status,      \* of the task card
          decision     \* [Reports -> Outcome \cup {"none"}]

Decided(outcome) == \E r \in Reports : decision[r] = outcome

Init == status = "planned" /\ decision = [r \in Reports |-> "none"]

Decide == \E r \in Reports, outcome \in Outcome :
            /\ decision[r] = "none"
            /\ decision' = [decision EXCEPT ![r] = outcome]

Work   == status = "planned" /\ status' = "running"
Report == status \in {"planned", "running", "reporting"} /\ status' = "reporting"
Accept == status = "reporting" /\ Decided("accepted")' /\ status' = "done"
Reject == status = "reporting" /\ Decided("rejected")' /\ status' = "cancelled"
Revise == status = "reporting" /\ Decided("revision_requested")' /\ status' = "planned"

(* A decision and the move of the card it justifies may be one step, or    *)
(* the move may come later.  A report is on the card before it is decided,  *)
(* so no repair reports and closes in one step.                            *)
CardMoves == Work \/ Report \/ Accept \/ Reject \/ Revise
Next == \/ Decide /\ (CardMoves \/ UNCHANGED status)
        \/ CardMoves /\ UNCHANGED decision

Spec == Init /\ [][Next]_<<status, decision>>
=============================================================================
