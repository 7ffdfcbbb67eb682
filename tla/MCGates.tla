------------------------------- MODULE MCGates -------------------------------
(***************************************************************************)
(* The acceptance gates of scripts/runtime that watch one run or many: the    *)
(* restart gate (RestartGate), the replay gate (ReplayGate) and the reading of *)
(* a session's log both of them rely on (SessionReads).  Each of them is a    *)
(* program of its own; the first state chooses the one this behaviour is about. *)
(***************************************************************************)
EXTENDS RestartGate

CONSTANTS MaxChildren, MaxBetween, MaxCalls, Hasty, MaxMishaps,
          MaxEvents, PageSize, MaxReadings, MaxNoise

ASSUME GatesAssumption == {MaxChildren, MaxMishaps, PageSize, MaxNoise} \subseteq Nat

VARIABLES
  part,
  trace, role, runs, server, touched, driver, taken, cuts, trusted, end, mishaps,
  history, stored, gens, reader, stopped, request, body, cut, below, pages, promised, size,
  reached, readings, noise

replayVars == <<trace, role, runs, server, touched, driver, taken, cuts, trusted, end, mishaps>>
readVars == <<history, stored, gens, reader, stopped, request, body, cut, below, pages, promised,
              size, reached, readings, noise>>
partVars == <<part, vars, replayVars, readVars>>

Replay == INSTANCE ReplayGate
Reads == INSTANCE SessionReads

(* The parts that rest are in one of their first states.                    *)
PartInit ==
  /\ part \in {"restart", "replay", "reads"}
  /\ Init /\ (part # "restart" => restartSignal = "SIGTERM")
  /\ Replay!Init
  /\ Reads!Init /\ (part # "reads" => stored = 0 /\ gens = {})

Restarts(A) == part = "restart" /\ A /\ UNCHANGED <<part, replayVars, readVars>>
Replays(A) == part = "replay" /\ A /\ UNCHANGED <<part, vars, readVars>>
ReadsLog(A) == part = "reads" /\ A /\ UNCHANGED <<part, vars, replayVars>>
PartNext == Restarts(Next) \/ Replays(Replay!Next) \/ ReadsLog(Reads!Next)

(* Every wait of a driver has a deadline, and no step of its finally block    *)
(* waits for a host, an agent or a run.                                    *)
PartSpec ==
  /\ PartInit /\ [][PartNext]_partVars
  /\ WF_partVars(Restarts(Driver)) /\ WF_partVars(Restarts(GiveUp))
  /\ WF_partVars(Replays(Replay!GivesUp)) /\ WF_driver(part = "replay" /\ Replay!Continues)
-----------------------------------------------------------------------------
(* What a gate says in its verdict is so: a PASS, and that nothing of it is   *)
(* left behind (shud-restart.ts, shud-replay.ts).                           *)
VerdictsTrue == VerdictTrue /\ Replay!ReplayTrue

(* A reading of a log that grows, is cut off or answered wrongly is complete  *)
(* or refused (shud-web-driver.ts, shud-session-log.ts).                     *)
ReadingsTrue == Reads!ReadingTrue

(* A case and a replay end with a verdict whatever happens (shud-restart.ts,  *)
(* shud-replay.ts).                                                        *)
Judged == IF part = "restart" THEN pc = "done" ELSE part = "replay" => driver = "done"
GatesEnd == <>Judged
=============================================================================
