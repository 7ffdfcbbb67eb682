----------------------------- MODULE ProcessBirth -----------------------------
(***************************************************************************)
(* process-birth.ts: when the process of a pid was born at the latest, as a   *)
(* wall-clock time, so that the start-up reconciliation can tell a wrapper    *)
(* of its run (R3, adopted) from an older process with the same pid (R4).     *)
(*                                                                         *)
(* The kernel counts the birth in ticks since boot, /proc/uptime in           *)
(* centiseconds, Date.now in milliseconds, and each of them cuts the rest     *)
(* off.  Time runs in parts of a millisecond here, Parts of them; how long a  *)
(* second, a centisecond and a tick last are constants.  The wall clock is    *)
(* not set while it is looked at.  Numbers stay in the safe range.            *)
(***************************************************************************)
EXTENDS Integers

CONSTANTS Parts,          \* parts of a millisecond
          SecondMs, CentisecondMs,
          Hz,             \* ticks of a second
          MaxBoot, MaxBirth, MaxDelay    \* bounds on the times that are tried, in parts

ASSUME ClockAssumption ==
  {Parts, SecondMs, CentisecondMs, Hz} \subseteq Nat \ {0}

VARIABLES
  boot, birth,        \* wall time of the boot; birth of the process after the boot
  submission,         \* the second of the submission, in milliseconds
  sample,
  verdict             \* none, adopt, older or refused

vars == <<boot, birth, submission, sample, verdict>>

NoSample == [ticks |-> 0, uptimeBefore |-> 0, uptimeAfter |-> 0, wallBefore |-> 0, wallAfter |-> 0]

Init ==
  /\ boot = 0 /\ birth = 0 /\ submission = 0 /\ sample = NoSample /\ verdict = "none"

Ceiling(n, d) == -((-n) \div d)

-----------------------------------------------------------------------------
(* linuxBirthBounds: the bounds vary only with the sampling bracket.        *)
LowerTick(s) == s.ticks * SecondMs           \* mutant of UpperTick: the tick is not over
UpperTick(s) == (s.ticks + 1) * SecondMs     \* in parts of 1/Hz
LatestAtBegin(s) == ((s.wallBefore - s.uptimeAfter * CentisecondMs) * Hz + UpperTick(s)) \div Hz
LatestAtEnd(s) ==
  Ceiling((s.wallAfter + 1 - s.uptimeBefore * CentisecondMs) * Hz + UpperTick(s), Hz)

Bounded(s) ==
  /\ s.uptimeBefore <= s.uptimeAfter /\ s.wallBefore <= s.wallAfter
  /\ s.ticks * SecondMs < (s.uptimeAfter + 1) * CentisecondMs * Hz     \* older than the boot
  /\ LatestAtBegin(s) >= 0
  /\ LatestAtEnd(s) - LatestAtBegin(s) \in 0..SecondMs - 1

(* selectBirthLatest, and what reconcileEntry makes of it.                 *)
Straddles(s) == LatestAtBegin(s) < submission /\ LatestAtEnd(s) >= submission
Select(s) ==
  IF ~Bounded(s) \/ Straddles(s) THEN "refused"
  ELSE IF LatestAtEnd(s) >= submission THEN "adopt" ELSE "older"

(* linuxProcessBirth: Date.now, stat, uptime, stat, uptime, Date.now.       *)
Sample(wallBefore, uptimeBefore, uptimeAfter, wallAfter) ==
  [ticks |-> (birth' * Hz) \div (SecondMs * Parts),
   uptimeBefore |-> uptimeBefore \div (CentisecondMs * Parts),
   uptimeAfter |-> uptimeAfter \div (CentisecondMs * Parts),
   wallBefore |-> (boot' + wallBefore) \div Parts,
   wallAfter |-> (boot' + wallAfter) \div Parts]

Observe ==
  /\ verdict = "none"
  /\ boot' \in 0..MaxBoot /\ birth' \in 0..MaxBirth
  /\ submission' \in {n * SecondMs : n \in 0..((boot' + birth') \div (SecondMs * Parts)) + 1}
  /\ \E a, b, c, d \in 0..MaxDelay :
       LET t == birth' + a
       IN sample' = Sample(t, t + b, t + b + c, t + b + c + d)
  /\ verdict' = "sampled"

Judge ==
  /\ verdict = "sampled" /\ verdict' = Select(sample)
  /\ UNCHANGED <<boot, birth, submission, sample>>

Next == Observe \/ Judge
Spec == Init /\ [][Next]_vars

-----------------------------------------------------------------------------
(* A process that is taken for older than the submission is: the wrapper of  *)
(* the run itself is never one.  One that is adopted was not born longer      *)
(* before the second of the submission than the tick and the centisecond      *)
(* that the counters cut off.                                               *)
Born == boot + birth
AdoptionSound ==
  /\ verdict = "older" => Born < submission * Parts
  /\ verdict = "adopt" =>
       Born * Hz > (submission - CentisecondMs) * Parts * Hz - SecondMs * Parts
=============================================================================
