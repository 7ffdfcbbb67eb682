--------------------------- MODULE WorkspaceRecords ---------------------------
(***************************************************************************)
(* The files of a workspace's records: reports and provenance (flat: an id   *)
(* that is free is looked for and the file renamed into place), changes and   *)
(* verifications (exclusive: the file is linked into place), the page beside   *)
(* a report, the patch beside a change.  Several hosts share the directories; *)
(* every file system call is a step, any may fail, a host may die, and a       *)
(* stranger may put something that is no regular file under a free name.     *)
(*                                                                         *)
(* A path is <<kind, id>>.  The origin of a file is the number of the call     *)
(* that made it, which is also the digest of the patch a change asks for.    *)
(***************************************************************************)
EXTENDS Naturals

CONSTANTS Callers, Names, Kinds,
          MaxHappens      \* bounds the calls and the faults of the environment together

Mutable == {"task", "data", "report"}
BindIdentity == {"change", "verification", "build"}
Flat == {"data", "report"}
Exclusive == {"change", "verification"}

Paths == (Kinds \cup {"page", "patch"}) \X Names

Absent == [is |-> "absent"]
Special == [is |-> "special"]                        \* a link, a directory, ...
File(id, origin, digest) ==
  [is |-> "whole", id |-> id, patch |-> id, origin |-> origin, digest |-> digest]
Broken == [is |-> "broken"]                          \* not yet written, or no record

VARIABLES
  files,               \* what is at each path
  temps,               \* the temporary files: whose, of which call, what is in them
  call,                \* the call each host is in, or how its last one ended
  calls, told,         \* how many calls began; how those that create ended
  littered,            \* the hosts a temporary file of which may have been left behind
  trouble

vars == <<files, temps, call, calls, told, littered, trouble>>

Rest == [pc |-> "end", op |-> "none", kind |-> "none", id |-> "none", n |-> 0, readonly |-> FALSE,
         bind |-> FALSE, draws |-> 0, seen |-> FALSE, collided |-> FALSE, digest |-> 0,
         value |-> Absent, how |-> "none"]

(* At the start a file may be there that nobody of these wrote: one that is  *)
(* no record, or a report that carries another id than its name.            *)
First == CHOOSE i \in Names : TRUE
Found ==
  {[p \in Paths |-> Absent]}
  \cup {[p \in Paths |-> IF p = <<k, First>> THEN Broken ELSE Absent] : k \in Kinds}
  \cup {[p \in Paths |-> IF p = <<"report", First>> THEN File(i, 0, 0) ELSE Absent] : i \in Names}
Init ==
  /\ files \in Found
  /\ temps = {} /\ call = [c \in Callers |-> Rest]
  /\ calls = 0 /\ told = {} /\ littered = {} /\ trouble = 0

-----------------------------------------------------------------------------
Creates(k) == k.op \in {"flat", "exclusive", "patch"}
RenamesRecords(k) == k.op = "patch"           \* mutant of Linked: a record is renamed into place
Linked(k) == k.op \in {"exclusive", "patch"}
Reads(k) == k.bind \/ k.op = "read"

(* The file this call is at: the change a patch or a rewrite belongs to       *)
(* comes first.                                                            *)
Target(k) == IF k.bind THEN <<"change", k.id>> ELSE <<k.kind, k.id>>
Readonly(k) == k.readonly \/ k.bind

Goes(c, k, pc) == call' = [call EXCEPT ![c] = [k EXCEPT !.pc = pc]] /\ UNCHANGED told
Ends(c, k, how) ==
  /\ call' = [call EXCEPT ![c] = IF k.op = "read" THEN [k EXCEPT !.pc = "end", !.how = how] ELSE Rest]
  /\ told' = IF Creates(k) THEN told \cup {[n |-> k.n, how |-> how, path |-> <<k.kind, k.id>>]}
             ELSE told

At(c, pc) == call[c].pc = pc
Fault == calls + trouble < MaxHappens /\ trouble' = trouble + 1
NoFault == UNCHANGED trouble

(* The calls.  A patch and a rewrite are of a change the caller has read;     *)
(* the bytes of a patch may be other ones than the change asks for.          *)
New(op, kind, id, n) == [Rest EXCEPT !.pc = "look", !.op = op, !.kind = kind, !.id = id, !.n = n]
DigestAt(id) == IF files[<<"change", id>>].is = "whole" THEN files[<<"change", id>>].digest ELSE 0

FlatCalls(n) == {New("flat", k, i, n) : k \in Kinds \cap Flat, i \in Names}
ExclusiveCalls(n) ==
  {[New("exclusive", k, i, n) EXCEPT !.draws = 1] : k \in Kinds \cap Exclusive, i \in Names}
PatchCalls(n) ==
  UNION {{[New("patch", "patch", i, n) EXCEPT !.bind = TRUE, !.digest = d] : d \in {DigestAt(i), 0}} :
           i \in Names}
RewriteCalls(n) ==
  {[New("rewrite", "change", i, n) EXCEPT !.bind = TRUE, !.value = files[<<"change", i>>]] :
     i \in {j \in Names : files[<<"change", j>>].is = "whole"}}
WriteCalls(n) == {New("write", k, i, n) : k \in (Kinds \cap Mutable) \cup {"page"}, i \in Names}
ReadCalls(n) ==
  {[New("read", p[1], p[2], n) EXCEPT !.readonly = r] : p \in Paths, r \in BOOLEAN}
Calls(n) == FlatCalls(n) \cup ExclusiveCalls(n) \cup PatchCalls(n) \cup RewriteCalls(n)
              \cup WriteCalls(n) \cup ReadCalls(n)

Begin(c) ==
  /\ At(c, "end") /\ calls + trouble < MaxHappens
  /\ calls' = calls + 1
  /\ \E k \in Calls(calls') :
       /\ k.op = "read" /\ k.kind \notin Mutable => k.readonly
       /\ call' = [call EXCEPT ![c] = k]
  /\ UNCHANGED <<files, temps, told, littered, trouble>>

(* A draw the id of which is taken is repeated, without end for a flat record, *)
(* up to four in all for an exclusive one, never for a patch.               *)
Draw(c, k) ==
  IF k.op = "patch" \/ k.draws = 4 THEN Ends(c, k, "collision")
  ELSE \E i \in Names :
         Goes(c, [k EXCEPT !.id = i, !.draws = IF Linked(k) THEN @ + 1 ELSE @, !.collided = FALSE,
                           !.seen = FALSE], "look")

(* workspacePath, changePatchPath and checkedTarget: only a regular file      *)
(* counts as one.  A directory a reader may not make is a file that is not     *)
(* there; one that cannot be had ends the call.  A report takes its id when   *)
(* neither the record nor the page is there.                               *)
Look(c) ==
  LET k == call[c]
      there == files[Target(k)]
  IN /\ At(c, "look")
     /\ \/ Fault /\ Ends(c, k, "directory")
        \/ /\ NoFault
           /\ IF there.is = "special" THEN Ends(c, k, "target")
              ELSE IF Reads(k)
                   THEN IF there = Absent THEN Ends(c, k, "missing") ELSE Goes(c, k, "load")
              ELSE IF k.op = "rewrite" /\ there = Absent THEN Ends(c, k, "missing")
              ELSE IF k.op = "flat" /\ k.kind = "report"
                   THEN Goes(c, [k EXCEPT !.seen = there # Absent], "page")
              ELSE IF Creates(k) /\ there # Absent THEN Draw(c, k)
              ELSE Goes(c, k, "prepare")
     /\ UNCHANGED <<files, temps, calls, littered>>

LookAtPage(c) ==
  LET k == call[c]
      there == files[<<"page", k.id>>]
  IN /\ At(c, "page")
     /\ IF there.is = "special" THEN Ends(c, k, "target")
        ELSE IF k.seen \/ there # Absent THEN Draw(c, k)
        ELSE Goes(c, k, "prepare")
     /\ NoFault /\ UNCHANGED <<files, temps, calls, littered>>

(* readWorkspaceRecord from the open on.                                   *)
Bound(k) == Target(k)[1] \in BindIdentity \/ (Readonly(k) /\ Target(k)[1] \in Kinds)
Load(c) ==
  LET k == call[c]
      there == files[Target(k)]
  IN /\ At(c, "load")
     /\ \/ Fault /\ Ends(c, k, "read")
        \/ /\ NoFault
           /\ IF there.is \in {"absent", "special"} THEN Ends(c, k, "missing")
              ELSE IF there = Broken /\ Target(k)[1] \in Kinds THEN Ends(c, k, "parse")
              ELSE IF Bound(k) /\ there.id # k.id THEN Ends(c, k, "identity")
              ELSE IF ~k.bind THEN Ends(c, [k EXCEPT !.value = there], "ok")
              ELSE IF k.op = "patch" /\ k.digest # there.digest THEN Ends(c, k, "write")
              ELSE Goes(c, [k EXCEPT !.bind = FALSE, !.readonly = k.op = "rewrite"], "look")
     /\ UNCHANGED <<files, temps, calls, littered>>

-----------------------------------------------------------------------------
(* writeJsonSync, writeBytes, writeExclusiveBytesSync.  An open that fails    *)
(* owns nothing.                                                           *)
Value(k) == IF k.op = "rewrite" THEN k.value
            ELSE File(k.id, k.n, IF k.op = "patch" THEN k.digest ELSE k.n)
Temporary(c, k, content) == [owner |-> c, n |-> k.n, path |-> <<k.kind, k.id>>, content |-> content]
Mine(c) == {t \in temps : t.owner = c /\ t.n = call[c].n}

Prepare(c) ==
  LET k == call[c]
  IN /\ At(c, "prepare")
     /\ \/ Fault /\ Ends(c, k, "write") /\ UNCHANGED temps
        \/ Fault /\ Goes(c, k, "clean") /\ temps' = temps \cup {Temporary(c, k, Broken)}
        \/ NoFault /\ Goes(c, k, "commit") /\ temps' = temps \cup {Temporary(c, k, Value(k))}
     /\ UNCHANGED <<files, calls, littered>>

(* The commit: a rename replaces what is there, a link does not.             *)
Rename(c) ==
  LET k == call[c]
  IN /\ At(c, "commit") /\ ~Linked(k)
     /\ \/ Fault /\ Goes(c, k, "clean") /\ UNCHANGED <<files, temps>>
        \/ \E t \in Mine(c) :
             /\ NoFault /\ Ends(c, k, "ok")
             /\ files' = [files EXCEPT ![t.path] = t.content] /\ temps' = temps \ {t}
     /\ UNCHANGED <<calls, littered>>

Link(c) ==
  LET k == call[c]
  IN /\ At(c, "commit") /\ Linked(k)
     /\ \/ Fault /\ Goes(c, k, "clean") /\ UNCHANGED files
        \/ \E t \in Mine(c) :
             /\ NoFault
             /\ IF files[t.path] = Absent
                THEN Goes(c, k, "unlink") /\ files' = [files EXCEPT ![t.path] = t.content]
                ELSE Goes(c, [k EXCEPT !.collided = TRUE], "clean") /\ UNCHANGED files
     /\ UNCHANGED <<temps, calls, littered>>

(* After the link the file stands, whatever becomes of the temporary one.    *)
Unlink(c) ==
  LET k == call[c]
  IN /\ At(c, "unlink")
     /\ \/ NoFault /\ Ends(c, k, "ok") /\ temps' = temps \ Mine(c) /\ UNCHANGED littered
        \/ Fault /\ Ends(c, k, "committed") /\ littered' = littered \cup {c} /\ UNCHANGED temps
     /\ UNCHANGED <<files, calls>>

Clean(c) ==
  LET k == call[c]
  IN /\ At(c, "clean")
     /\ \/ /\ NoFault /\ temps' = temps \ Mine(c) /\ UNCHANGED littered
           /\ IF k.collided THEN Goes(c, k, "recheck") ELSE Ends(c, k, "write")
        \/ Fault /\ Ends(c, k, "write") /\ littered' = littered \cup {c} /\ UNCHANGED temps
     /\ UNCHANGED <<files, calls>>

(* publishExclusive after a collision: a contender's file means another id,   *)
(* anything else in its place a failure.                                    *)
Recheck(c) ==
  LET k == call[c]
      there == files[Target(k)]
  IN /\ At(c, "recheck")
     /\ IF there.is = "special" THEN Ends(c, k, "target")
        ELSE IF there = Absent THEN Ends(c, k, "write")
        ELSE Draw(c, k)
     /\ NoFault /\ UNCHANGED <<files, temps, calls, littered>>

-----------------------------------------------------------------------------
Crash(c) ==
  /\ ~At(c, "end") /\ Fault
  /\ call' = [call EXCEPT ![c] = Rest]
  /\ littered' = IF Mine(c) # {} THEN littered \cup {c} ELSE littered
  /\ UNCHANGED <<files, temps, calls, told>>

(* A stranger takes a free name, or gives one back.                         *)
Stranger ==
  /\ Fault
  /\ \E p \in {q \in Paths : files[q].is \in {"absent", "special"}} :
       files' = [files EXCEPT ![p] = IF @ = Absent THEN Special ELSE Absent]
  /\ UNCHANGED <<temps, call, calls, told, littered>>

Next ==
  \/ \E c \in Callers :
       \/ Begin(c) \/ Look(c) \/ LookAtPage(c) \/ Load(c) \/ Prepare(c) \/ Rename(c)
       \/ Link(c) \/ Unlink(c) \/ Clean(c) \/ Recheck(c) \/ Crash(c)
  \/ Stranger

Spec == Init /\ [][Next]_vars

-----------------------------------------------------------------------------
(* A change or a verification whose creation was told is the one that is      *)
(* there, under its own id, however many hosts drew that id; a report or a     *)
(* provenance whose creation was told has a whole record under its id (two     *)
(* hosts that drew one id may have written it one after the other).          *)
CreatedStands ==
  \A t \in told : t.how \in {"ok", "committed"} =>
    LET there == files[t.path]
    IN /\ there.is = "whole" /\ there.id = t.path[2]
       /\ t.path[1] \in Exclusive => there.origin = t.n /\ there.patch = t.path[2]

(* A creation that failed left nothing of itself under any name, unless it    *)
(* said that only its clean-up failed.                                      *)
FailedLeftNothing ==
  \A t \in told : t.how \notin {"ok", "committed"} =>
    \A p \in Paths : files[p].is = "whole" => files[p].origin # t.n

(* A patch is the one its change asks for.                                  *)
PatchMatches ==
  \A i \in Names : files[<<"patch", i>>].is = "whole" =>
    LET change == files[<<"change", i>>]
    IN change.is = "whole" /\ change.digest = files[<<"patch", i>>].digest

(* A read that succeeded returned a whole file, and the asked record where     *)
(* the kind or the caller binds it to its id.                               *)
ReadsBound ==
  \A c \in Callers :
    LET k == call[c]
    IN k.pc = "end" /\ k.op = "read" /\ k.how = "ok" /\ k.kind \in Kinds =>
         k.value.is = "whole" /\ (Bound(k) => k.value.id = k.id)

(* A host at rest has no temporary file left, unless a clean-up of it failed   *)
(* or it died.                                                             *)
TempsGone ==
  \A c \in Callers : At(c, "end") /\ c \notin littered => \A t \in temps : t.owner # c

RecordsStand == CreatedStands /\ FailedLeftNothing /\ PatchMatches /\ ReadsBound /\ TempsGone
=============================================================================
