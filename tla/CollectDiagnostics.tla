-------------------------- MODULE CollectDiagnostics --------------------------
(***************************************************************************)
(* What the owner of a run is told when its results cannot be collected.     *)
(* A failed attempt leaves its message, a stage and a code, in the ledger     *)
(* collect-error.json; the host that gives up, perhaps a later one, reads it    *)
(* back as text and lets through only what the table of stages and codes       *)
(* knows (shud-run-file.ts).  Anything that throws on the way of an attempt     *)
(* (shud-collect.ts) must therefore be in that table.                       *)
(*                                                                         *)
(* A message is [stage, parts, path]: the parts of its code, which "+" joins, *)
(* and whether the path of a schema issue follows.                          *)
(***************************************************************************)
EXTENDS Naturals, Sequences

CONSTANT MaxAttempts            \* MAX_COLLECT_ATTEMPTS

VARIABLES
  dpc,          \* idle, job, exit, output, draft, publish, failed, collected
  failure,      \* what this attempt fails with, and whether exit_code is to blame
  reason,       \* last_error of the ledger
  attempts, status, edited,
  heard         \* what the owner was told

vars == <<dpc, failure, reason, attempts, status, edited, heard>>

None == [stage |-> "none", parts |-> <<>>, path |-> FALSE]
Message(stage, parts) == [stage |-> stage, parts |-> parts, path |-> FALSE]

-----------------------------------------------------------------------------
(* The stages an attempt can record, and for each the codes it has beyond the *)
(* codes of the file system.                                              *)
FilesystemCodes == {"EACCES", "EIO"}               \* of seventeen
Rule(filesystem, codes) == [filesystem |-> filesystem, codes |-> codes, validation |-> FALSE]
Validation == [filesystem |-> FALSE, codes |-> {}, validation |-> TRUE]
Links == {"SYMLINK", "NOT_REGULAR"}

CollectDiagnosticRules ==
  [ledger       |-> Rule(TRUE, Links \cup {"INVALID_FIELDS"}),
   record       |-> Rule(TRUE, Links),
   recordJson   |-> Rule(TRUE, {}),
   recordId     |-> Rule(FALSE, {"MISMATCH"}),
   RunJob       |-> Validation,
   RunRecord    |-> Validation,
   collected    |-> Rule(TRUE, Links \cup {"NOT_TERMINAL"}),
   exit         |-> Rule(TRUE, Links \cup {"INVALID_INTEGER", "MISSING", "MISMATCH"}),
   output       |-> Rule(TRUE, {"SYMLINK", "NOT_DIRECTORY"}),
   scan         |-> Rule(TRUE, Links),
   errorWrite   |-> Rule(TRUE, Links \cup {"ATTEMPT_OVERFLOW"}),
   failed       |-> Rule(TRUE, Links \cup {"NOT_TERMINAL"}),
   project      |-> Rule(FALSE, {"INVALID_COMPONENT"}),
   publication  |-> Rule(TRUE, Links \cup {"ALREADY_EXISTS"}),
   generation   |-> Rule(TRUE, {}),
   runPath      |-> Rule(TRUE, {}),
   metadata     |-> Rule(TRUE, Links),
   metadataJson |-> Rule(TRUE, {}),
   identity     |-> Rule(FALSE, {"MISMATCH"}),
   runStatus    |-> Rule(FALSE, {"INVALID_STATUS"}),
   runJob       |-> Rule(TRUE, {})]

Unrecognized == Message("diagnostic", <<"UNRECOGNIZED">>)
KnownButIo(rule, part) ==      \* mutant of Known: what is no errno is not expected
  part \in rule.codes \/ (rule.filesystem /\ part \in FilesystemCodes \cup {"INVALID_JSON"})
Known(rule, part) ==
  part \in rule.codes \/ (rule.filesystem /\ part \in FilesystemCodes \cup {"INVALID_JSON", "IO_ERROR"})

(* normalizeCollectFailureReason: the path of a schema issue is dropped.     *)
NormalizeCollectFailureReason(m) ==
  IF m.stage \notin DOMAIN CollectDiagnosticRules THEN Unrecognized
  ELSE LET rule == CollectDiagnosticRules[m.stage]
       IN IF rule.validation
          THEN IF m.parts = <<"VALIDATION">> THEN Message(m.stage, m.parts) ELSE Unrecognized
          ELSE IF ~m.path /\ \A i \in DOMAIN m.parts : Known(rule, m.parts[i]) THEN m
          ELSE Unrecognized

-----------------------------------------------------------------------------
(* What a call throws: an errno (of the table or not), a parse error, any     *)
(* other error, or several of them when a clean-up fails too.              *)
Errors == {[is |-> "errno", code |-> e] : e \in FilesystemCodes \cup {"EUNKNOWN"}}
          \cup {[is |-> "syntax", code |-> "none"], [is |-> "error", code |-> "none"]}

SafeCode(e) ==
  IF e.is = "errno" /\ e.code \in FilesystemCodes THEN e.code
  ELSE IF e.is = "syntax" THEN "INVALID_JSON" ELSE "IO_ERROR"

CollectFailure(stage) ==
  {Message(stage, <<SafeCode(e)>>) : e \in Errors}
  \cup {Message(stage, <<SafeCode(e), SafeCode(f)>>) : e, f \in Errors}
ValidationFailure(stage) == {[stage |-> stage, parts |-> <<"VALIDATION">>, path |-> TRUE]}
Controlled(stage, codes) == {Message(stage, <<c>>) : c \in codes}
RegularFile(stage) == Controlled(stage, Links) \cup CollectFailure(stage)

(* Where the calls of an attempt may fail, in their order.                  *)
ExistingRecord ==
  RegularFile("record") \cup CollectFailure("recordJson") \cup ValidationFailure("RunRecord")
    \cup Controlled("recordId", {"MISMATCH"})
FullJob == ValidationFailure("RunJob") \cup Controlled("project", {"INVALID_COMPONENT"})
ExitCode ==
  RegularFile("exit") \cup Controlled("exit", {"INVALID_INTEGER", "MISSING", "MISMATCH"})
OutputFiles ==
  CollectFailure("output") \cup Controlled("output", {"SYMLINK", "NOT_DIRECTORY"})
    \cup CollectFailure("scan") \cup Controlled("scan", Links)
Candidate == ValidationFailure("RunRecord") \cup CollectFailure("generation")
VerifyRunFile == CollectFailure("runPath")
Publication == RegularFile("publication") \cup Controlled("publication", {"ALREADY_EXISTS"})

-----------------------------------------------------------------------------
Init ==
  /\ dpc = "idle" /\ failure = None /\ reason = None /\ attempts = 0
  /\ status \in {"succeeded", "failed", "cancelled"} /\ edited = FALSE /\ heard = None

Fails(messages) == failure' \in messages /\ dpc' = "failed"
Step(from, to, messages) ==
  /\ dpc = from
  /\ \/ Fails(messages)
     \/ dpc' = to /\ UNCHANGED failure
  /\ UNCHANGED <<reason, attempts, status, edited, heard>>

ReadRecord == attempts < MaxAttempts /\ Step("idle", "job", ExistingRecord)
CheckJob == Step("job", "exit", FullJob)
ReadExitCode == Step("exit", "output", ExitCode)
ScanOutput == Step("output", "draft", OutputFiles)
Draft == Step("draft", "publish", Candidate)

(* The record is written, and the run collected.                            *)
Publish == Step("publish", "collected", VerifyRunFile \cup Publication)

(* failedAttempt: the ledger is written unless the directory changed or a call *)
(* fails; then a run whose exit_code is to blame becomes failed.            *)
FailedAttempt ==
  /\ dpc = "failed"
  /\ \/ reason' = failure /\ attempts' = attempts + 1 /\ edited' = FALSE
     \/ UNCHANGED <<reason, attempts, edited>>
  /\ \/ status' = IF failure.stage = "exit" THEN "failed" ELSE status
     \/ UNCHANGED status
  /\ dpc' = "idle" /\ failure' = None
  /\ UNCHANGED heard

(* The notification of a run whose attempts are used up.                    *)
Tell ==
  /\ dpc = "idle" /\ attempts = MaxAttempts /\ heard = None
  /\ heard' = NormalizeCollectFailureReason(reason)
  /\ UNCHANGED <<dpc, failure, reason, attempts, status, edited>>

(* Somebody writes another message into the ledger.                         *)
Edit ==
  /\ ~edited /\ attempts > 0 /\ edited' = TRUE
  /\ reason' \in {Message("elsewhere", <<"EIO">>), Message("exit", <<"EIO", "/home">>),
                  [Message("RunJob", <<"VALIDATION">>) EXCEPT !.path = TRUE]}
  /\ UNCHANGED <<dpc, failure, attempts, status, heard>>

Next == ReadRecord \/ CheckJob \/ ReadExitCode \/ ScanOutput \/ Draft \/ Publish \/ FailedAttempt
          \/ Tell \/ Edit

Spec == Init /\ [][Next]_vars

-----------------------------------------------------------------------------
(* Every message an attempt leaves is recognised when it is read back, so the *)
(* owner is told of it; what is told, whoever wrote the ledger, is a stage      *)
(* and codes of the table, and reading it once more changes nothing.        *)
ReasonsTold ==
  /\ attempts > 0 /\ ~edited => NormalizeCollectFailureReason(reason) # Unrecognized
  /\ heard \notin {None, Unrecognized} =>
       /\ ~heard.path /\ heard.stage \in DOMAIN CollectDiagnosticRules
       /\ NormalizeCollectFailureReason(heard) = heard
=============================================================================
