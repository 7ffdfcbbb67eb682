---------------------------- MODULE ProcessGroup ----------------------------
(***************************************************************************)
(* One detached SHUD execution as the operating system sees it: the        *)
(* wrapper shell that leads the process group, the solver it runs, the two *)
(* files the wrapper publishes (detached-shud.ts, WRAPPER), the signals    *)
(* sent to the group, and the reuse of the wrapper's pid after the group   *)
(* is gone.  Nothing here depends on a host being alive: the wrapper is    *)
(* started detached and outlives it.                                       *)
(***************************************************************************)

VARIABLES
  leader,      \* what stands behind the wrapper's pid
  solver,      \* some descendant of the wrapper can still perform I/O
  signal,      \* the strongest signal sent to the group and not delivered
  wrapperPid,  \* wrapper.pid has been published
  exitFile     \* exit_code as published by the wrapper

groupVars == <<leader, solver, signal, wrapperPid, exitFile>>

Code == {"zero", "nonzero"}

(* "boot" has not published wrapper.pid, "solving" runs the solver, a code *)
(* has been returned and is not published yet, "ending" has published it.  *)
(* "gone" is dead (a zombie included); "alien" is a later process that was *)
(* given the same pid, as the leader of a group of its own; "vacated" is   *)
(* the pid after that process.                                             *)
Living == {"boot", "solving", "ending"} \cup Code
LeaderState == Living \cup {"none", "gone", "alien", "vacated"}

GroupTypeOK ==
  /\ leader \in LeaderState
  /\ solver \in BOOLEAN
  /\ signal \in {"none", "term", "kill"}
  /\ wrapperPid \in BOOLEAN
  /\ exitFile \in Code \cup {"none"}

GroupInit ==
  /\ leader = "none"
  /\ solver = FALSE
  /\ signal = "none"
  /\ wrapperPid = FALSE
  /\ exitFile = "none"

(* The run itself is executing, whoever owns the pid by now.               *)
Executing == leader \in Living \/ solver

(* groupCanPerformIo: some member of the process group is not a zombie.    *)
GroupActive == Executing \/ leader = "alien"

(* A signal that finds nobody, neither leader l nor solver s, is lost.     *)
Pending(l, s) == IF l \in Living \cup {"alien"} \/ s THEN signal ELSE "none"

-----------------------------------------------------------------------------
Spawn ==
  /\ leader = "none"
  /\ leader' = "boot"
  /\ UNCHANGED <<solver, signal, wrapperPid, exitFile>>

(* The rename of wrapper.pid.tmp comes before the solver is started.       *)
PublishPid ==
  /\ leader = "boot"
  /\ leader' = "solving"
  /\ solver' = TRUE
  /\ wrapperPid' = TRUE
  /\ UNCHANGED <<signal, exitFile>>

(* The solver ends; a living wrapper takes its code.                       *)
SolverEnds(code) ==
  /\ solver
  /\ solver' = FALSE
  /\ leader' = IF leader = "solving" THEN code ELSE leader
  /\ signal' = Pending(leader, FALSE)
  /\ UNCHANGED <<wrapperPid, exitFile>>

PublishExit ==
  /\ leader \in Code
  /\ exitFile' = leader
  /\ leader' = "ending"
  /\ UNCHANGED <<solver, signal, wrapperPid>>

(* The wrapper ends by itself, gives up publishing ("|| exit 1") or dies   *)
(* for a reason of its own; a solver that still runs is left behind.       *)
WrapperExits ==
  /\ leader \in Living
  /\ leader' = "gone"
  /\ signal' = Pending("gone", solver)
  /\ UNCHANGED <<solver, wrapperPid, exitFile>>

(* SIGKILL ends the whole group; SIGTERM ends the shell, and the solver    *)
(* may ignore it.                                                          *)
Deliver ==
  /\ signal # "none"
  /\ leader' = CASE leader \in Living -> "gone"
                 [] leader = "alien" -> "vacated"
                 [] OTHER -> leader
  /\ solver' \in IF signal = "kill" THEN {FALSE} ELSE {FALSE, solver}
  /\ signal' = "none"
  /\ UNCHANGED <<wrapperPid, exitFile>>

(* A pid is not given away while its group has a member.                   *)
PidReused ==
  /\ leader = "gone"
  /\ ~solver
  /\ leader' = "alien"
  /\ UNCHANGED <<solver, signal, wrapperPid, exitFile>>

AlienExits ==
  /\ leader = "alien"
  /\ leader' = "vacated"
  /\ signal' = "none"
  /\ UNCHANGED <<solver, wrapperPid, exitFile>>

GroupStep == \/ PublishPid \/ PublishExit \/ WrapperExits \/ Deliver
             \/ PidReused \/ AlienExits
             \/ \E code \in Code : SolverEnds(code)
=============================================================================
