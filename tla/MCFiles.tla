-------------------------------- MODULE MCFiles --------------------------------
(***************************************************************************)
(* Files that several processes or several steps share: the builds and the    *)
(* copies of their binaries (BuildFiles), the records with their pages and     *)
(* patches (WorkspaceRecords), the copy of an input (RunInput), run-job.json     *)
(* (RunJobFile), the ledger of failed collections (CollectDiagnostics), the      *)
(* stdout a poller reads while the solver writes it (StdoutCursor), the stack    *)
(* locks (StackLock, StatusPaths), the provenance of an input (Provenance);      *)
(* and the clocks that say when a process was born (ProcessBirth).  They share   *)
(* no state; the first state chooses the one this behaviour is about, and the    *)
(* others rest.                                                            *)
(***************************************************************************)
EXTENDS ProcessBirth

CONSTANTS Builders, Runs, Ids, MaxMeddling, MaxBytes, Captures, MaxLock, Environments, MaxFaults,
          MaxRecords, InputFiles, MaxText, MaxStations, MaxMeddles, Callers, Names, RecordKinds,
          MaxHappens, MaxSwaps, MaxAttempts, MaxChanges

(* What the harness did not create is not named after a call, and no id is     *)
(* the absence of one; there are records of changes for patches to belong to.   *)
ASSUME FilesAssumption ==
  /\ MaxMeddling \in Nat
  /\ Builders \cap {"none", "foreign"} = {} /\ "none" \notin Ids
  /\ "change" \in RecordKinds /\ RecordKinds \cap {"page", "patch"} = {}

VARIABLES
  part,
  tmp, final, binary, record, bpc, drawn, id, digest, bin, rpc, from, expected, source, copy, meddling,
  bytes, cursor, read,
  lock, cpc, environment, unread, selected, lockId, attempt, withdrawn, faults,
  records, shown,
  text, kinds, content, ppc, walked, offset, fragment, lines, hashing, external, opened, meddles,
  files, temps, call, calls, told, littered, trouble,
  root, dir, jobs, step, swaps,
  tree, within, linked, ipc, items, next, present, copied, planted, changes,
  dpc, failure, reason, attempts, status, edited, heard

buildVars == <<tmp, final, binary, record, bpc, drawn, id, digest, bin, rpc, from, expected,
               source, copy, meddling>>
stdoutVars == <<bytes, cursor, read>>
lockVars == <<lock, cpc, environment, unread, selected, lockId, attempt, withdrawn, faults>>
statusVars == <<records, shown>>
inputVars == <<text, kinds, content, ppc, walked, offset, fragment, lines, hashing, external,
               opened, meddles>>
recordVars == <<files, temps, call, calls, told, littered, trouble>>
jobVars == <<root, dir, jobs, step, swaps>>
treeVars == <<tree, within, linked, ipc, items, next, present, copied, planted, changes>>
ledgerVars == <<dpc, failure, reason, attempts, status, edited, heard>>
runVars == <<jobVars, treeVars, ledgerVars>>
partVars == <<part, vars, buildVars, stdoutVars, lockVars, statusVars, inputVars, recordVars, runVars>>

Builds == INSTANCE BuildFiles
Stdout == INSTANCE StdoutCursor
Stacks == INSTANCE StackLock
Status == INSTANCE StatusPaths
Inputs == INSTANCE Provenance
Records == INSTANCE WorkspaceRecords WITH Kinds <- RecordKinds
JobFile == INSTANCE RunJobFile
Tree == INSTANCE RunInput
Diagnostics == INSTANCE CollectDiagnostics

PartInit ==
  /\ part \in {"births", "builds", "stdout", "locks", "status", "inputs", "records",
              "jobs", "trees", "ledgers"}
  /\ Init /\ Builds!Init /\ Stdout!Init /\ Status!Init
  /\ Stacks!Init /\ (part # "locks" => environment = [c \in Captures |-> CHOOSE e \in Environments : TRUE])
  /\ Records!Init /\ (part # "records" => \A p \in Records!Paths : files[p] = Records!Absent)
  /\ JobFile!Init /\ (part # "jobs" => \A d \in JobFile!Directories : jobs[d] = JobFile!Job("running", FALSE))
  /\ Diagnostics!Init /\ (part # "ledgers" => status = "failed")
  /\ Tree!Init /\ (part # "trees" => within = {} /\ linked = {} /\ \A p \in Tree!Entries : tree[p] = "none")
  /\ IF part = "inputs" THEN Inputs!Init
     ELSE /\ text = <<>> /\ kinds = <<>> /\ content = <<>> /\ ppc = "failed" /\ walked = {}
          /\ offset = 0 /\ fragment = <<>> /\ lines = <<>> /\ hashing = {} /\ external = {}
          /\ opened = {} /\ meddles = 0

PartNext ==
  \/ /\ part = "births" /\ Next
     /\ UNCHANGED <<part, buildVars, stdoutVars, lockVars, statusVars, inputVars, recordVars, runVars>>
  \/ /\ part = "builds" /\ Builds!Next
     /\ UNCHANGED <<part, vars, stdoutVars, lockVars, statusVars, inputVars, recordVars, runVars>>
  \/ /\ part = "stdout" /\ Stdout!Next
     /\ UNCHANGED <<part, vars, buildVars, lockVars, statusVars, inputVars, recordVars, runVars>>
  \/ /\ part = "locks" /\ Stacks!Next
     /\ UNCHANGED <<part, vars, buildVars, stdoutVars, statusVars, inputVars, recordVars, runVars>>
  \/ /\ part = "status" /\ Status!Next
     /\ UNCHANGED <<part, vars, buildVars, stdoutVars, lockVars, inputVars, recordVars, runVars>>
  \/ /\ part = "inputs" /\ Inputs!Next
     /\ UNCHANGED <<part, vars, buildVars, stdoutVars, lockVars, statusVars, recordVars, runVars>>
  \/ /\ part = "records" /\ Records!Next
     /\ UNCHANGED <<part, vars, buildVars, stdoutVars, lockVars, statusVars, inputVars, runVars>>
  \/ /\ UNCHANGED <<part, vars, buildVars, stdoutVars, lockVars, statusVars, inputVars, recordVars>>
     /\ \/ part = "jobs" /\ JobFile!Next /\ UNCHANGED <<treeVars, ledgerVars>>
        \/ part = "trees" /\ Tree!Next /\ UNCHANGED <<jobVars, ledgerVars>>
        \/ part = "ledgers" /\ Diagnostics!Next /\ UNCHANGED <<jobVars, treeVars>>

PartSpec == PartInit /\ [][PartNext]_partVars

-----------------------------------------------------------------------------
(* A build that appears is complete, a run starts the bytes its record        *)
(* names, and no clean-up of either removes what somebody else put in place   *)
(* of its files (shud-build.ts, workspace-records.ts).                       *)
BuildsIntact == [](Builds!FinalIsComplete /\ Builds!RunsRecordedBinary) /\ Builds!SparesForeign

(* What the reads of stdout return, one after the other, is what the solver  *)
(* wrote, in whole characters (file-output.ts).                             *)
ReadsJoin == Stdout!ReadsJoin

(* Whatever ids hosts draw and whichever call fails, a change stands as its   *)
(* creation told it, a patch is the one its change asks for, a failed creation *)
(* left nothing and a read returned what was asked (workspace-records.ts,      *)
(* state-files.ts).                                                        *)
RecordsStand == Records!RecordsStand

(* A step changes run-job.json of the run it read, without undoing what        *)
(* another did meanwhile: a settled run is collected, or demoted by a collection *)
(* that finds its exit evidence unusable, and otherwise stays                    *)
(* (shud-run-file.ts, shud-collect.ts).                                     *)
UpdatesKept == JobFile!UpdatesKept

(* What a run rests on and leaves behind stays true: the copy of its input is  *)
(* the tree that was looked at (shud-input.ts), the stack lock a capture        *)
(* returned stands whatever other captures do (capture-stack-lock.ts), and the  *)
(* reason of a failed collection is known when it is read back                  *)
(* (shud-run-file.ts).                                                     *)
RunFilesTrue == Tree!CopyFaithful /\ Stacks!LocksStand /\ Diagnostics!ReasonsTold

(* Texts are read as they were written, wherever a chunk ends or the text is    *)
(* cut: of git's output the paths of the whole records                          *)
(* (repository-revision.ts), of a manifest all that it says                     *)
(* (generate-provenance.ts).                                               *)
TextsRead == Status!CutPathsTrue /\ Inputs!RecordsManifest
=============================================================================
