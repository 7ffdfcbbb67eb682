----------------------------- MODULE BuildFiles -----------------------------
(***************************************************************************)
(* The directories of builds/ and the binaries copied out of them.  Several  *)
(* calls of shud_build publish at once: each reserves builds/.tmp-<id>,      *)
(* fills it with what make makes and renames it to builds/<id>.  Runs verify *)
(* a published binary and copy it to their own bin/.  Every await lets       *)
(* another call in, and at any time somebody else may replace a directory    *)
(* or a file; only then does the code have to tell its own from a foreign    *)
(* one, by device and inode.                                                *)
(*                                                                         *)
(* A call reserves one directory and the directory is named after the call;  *)
(* "foreign" is every object the harness did not create.  A digest is the    *)
(* content it digests.                                                      *)
(***************************************************************************)
EXTENDS Naturals, FiniteSets

CONSTANTS Builders,      \* calls of shud_build
          Runs,          \* calls of shud_run with a build_id
          Ids,           \* build ids
          MaxMeddling    \* bound on the interference of others

VARIABLES
  tmp, final,        \* what builds/.tmp-<id> and builds/<id> are
  binary, record,    \* shud, and the digest in build-record.json, in the directory of a builder
  bpc, drawn, id, digest,     \* the calls of shud_build
  bin,               \* bin/, bin/.shud.tmp and bin/shud of a run directory
  rpc, from, expected, source, copy,    \* the calls of shud_run
  meddling           \* interference still allowed

builderVars == <<bpc, drawn, id, digest>>
storeVars == <<tmp, final, binary, record>>
runVars == <<bin, rpc, from, expected, source, copy>>
vars == <<storeVars, builderVars, runVars, meddling>>

Content == {"none", "made", "other"}
Object == Builders \cup {"none", "foreign"}
Entry == {"none", "ours", "foreign"}
NoId == "none"
Empty == [dir |-> "none", pending |-> "none", shud |-> "none"]

TypeOK ==
  /\ tmp \in [Ids -> Object] /\ final \in [Ids -> Object]
  /\ binary \in [Builders -> Content] /\ record \in [Builders -> Content]
  /\ bpc \in [Builders -> {"idle", "make", "hash", "probe", "recheck", "commit", "done", "failed"}]
  /\ drawn \in [Builders -> 0..4] /\ id \in [Builders -> Ids \cup {NoId}] /\ digest \in [Builders -> Content]
  /\ bin \in [Runs -> [dir : Entry, pending : Entry, shud : Entry]]
  /\ rpc \in [Runs -> {"idle", "mkdir", "source", "create", "copy", "hash", "publish",
                       "ready", "started", "failed"}]
  /\ from \in [Runs -> Ids \cup {NoId}] /\ source \in [Runs -> Object]
  /\ expected \in [Runs -> Content] /\ copy \in [Runs -> Content]
  /\ meddling \in 0..MaxMeddling

Init ==
  /\ tmp = [i \in Ids |-> "none"] /\ final = [i \in Ids |-> "none"]
  /\ binary = [b \in Builders |-> "none"] /\ record = [b \in Builders |-> "none"]
  /\ bpc = [b \in Builders |-> "idle"] /\ drawn = [b \in Builders |-> 0]
  /\ id = [b \in Builders |-> NoId] /\ digest = [b \in Builders |-> "none"]
  /\ bin = [r \in Runs |-> Empty] /\ rpc = [r \in Runs |-> "idle"]
  /\ from = [r \in Runs |-> NoId] /\ expected = [r \in Runs |-> "none"]
  /\ source = [r \in Runs |-> "none"] /\ copy = [r \in Runs |-> "none"]
  /\ meddling = MaxMeddling

Put(f, x, v) == [f EXCEPT ![x] = v]

(* What a file of the given directory holds.                               *)
ContentOf(object) == IF object \in Builders THEN binary[object] ELSE "other"

-----------------------------------------------------------------------------
(* publishBuildDirectory and its producer                                  *)
Absent(i) == tmp[i] = "none" /\ final[i] = "none"
Owned(b) == tmp[id[b]] = b

Reserve(b) ==
  /\ bpc[b] = "idle"
  /\ \E i \in Ids :
       /\ Absent(i)
       /\ tmp' = Put(tmp, i, b) /\ id' = Put(id, b, i) /\ bpc' = Put(bpc, b, "make")
  /\ UNCHANGED <<final, binary, record, drawn, digest, runVars, meddling>>

(* Four draws that collide are the end of it.                              *)
Collide(b) ==
  /\ bpc[b] = "idle" /\ \E i \in Ids : ~Absent(i)
  /\ drawn' = Put(drawn, b, drawn[b] + 1)
  /\ bpc' = IF drawn'[b] = 4 THEN Put(bpc, b, "failed") ELSE bpc
  /\ UNCHANGED <<storeVars, id, digest, runVars, meddling>>

Make(b) ==
  /\ bpc[b] = "make" /\ Owned(b)
  /\ binary' = Put(binary, b, "made") /\ bpc' = Put(bpc, b, "hash")
  /\ UNCHANGED <<tmp, final, record, drawn, id, digest, runVars, meddling>>

HashBinary(b) ==                  \* of whatever is in place of the reservation meanwhile
  /\ bpc[b] = "hash" /\ tmp[id[b]] # "none"
  /\ digest' = Put(digest, b, ContentOf(tmp[id[b]])) /\ bpc' = Put(bpc, b, "probe")
  /\ UNCHANGED <<storeVars, drawn, id, runVars, meddling>>

(* make is asked for its compiler: code of the Makefile runs once more      *)
(* beside the binary that was hashed.                                      *)
Probe(b) ==
  /\ bpc[b] = "probe" /\ Owned(b)
  /\ \E content \in {binary[b], "other"} : binary' = Put(binary, b, content)
  /\ bpc' = Put(bpc, b, "recheck")
  /\ UNCHANGED <<tmp, final, record, drawn, id, digest, runVars, meddling>>

Recheck(b) ==
  /\ bpc[b] = "recheck" /\ Owned(b)
  /\ ContentOf(tmp[id[b]]) = digest[b]
  /\ bpc' = Put(bpc, b, "commit")
  /\ UNCHANGED <<storeVars, drawn, id, digest, runVars, meddling>>

CommitRenameFirst(b) ==           \* a mistake: build-record.json is written after the rename
  \/ /\ bpc[b] = "commit" /\ Owned(b) /\ final[id[b]] = "none"
     /\ final' = Put(final, id[b], b) /\ tmp' = Put(tmp, id[b], "none")
     /\ bpc' = Put(bpc, b, "done")
     /\ UNCHANGED <<binary, record, drawn, id, digest, runVars, meddling>>
  \/ /\ bpc[b] = "done" /\ record[b] = "none"
     /\ record' = Put(record, b, digest[b])
     /\ UNCHANGED <<tmp, final, binary, builderVars, runVars, meddling>>

(* The record is written into the reservation, and the rename commits.     *)
Commit(b) ==
  /\ bpc[b] = "commit" /\ Owned(b) /\ final[id[b]] = "none"
  /\ record' = Put(record, b, digest[b])
  /\ final' = Put(final, id[b], b) /\ tmp' = Put(tmp, id[b], "none")
  /\ bpc' = Put(bpc, b, "done")
  /\ UNCHANGED <<binary, drawn, id, digest, runVars, meddling>>

Building(b) == bpc[b] \in {"make", "hash", "probe", "recheck", "commit"}

BuildFailsRemoving(b) ==          \* a mistake: the reservation is removed by its name
  /\ Building(b)
  /\ tmp' = Put(tmp, id[b], "none") /\ bpc' = Put(bpc, b, "failed")
  /\ UNCHANGED <<final, binary, record, drawn, id, digest, runVars, meddling>>

(* Any stage may fail; a reservation that is no longer ours is left alone. *)
BuildFails(b) ==
  /\ Building(b)
  /\ tmp' = IF Owned(b) THEN Put(tmp, id[b], "none") ELSE tmp
  /\ bpc' = Put(bpc, b, "failed")
  /\ UNCHANGED <<final, binary, record, drawn, id, digest, runVars, meddling>>

-----------------------------------------------------------------------------
(* prepareBuild and copyBinary                                             *)
Go(r, pc) == rpc' = Put(rpc, r, pc)
Place(r, field, entry) == bin' = [bin EXCEPT ![r][field] = entry]

VerifyBinary(r) ==
  /\ rpc[r] = "idle"
  /\ \E i \in Ids : LET b == final[i] IN
       /\ b \in Builders /\ record[b] # "none" /\ binary[b] = record[b]
       /\ from' = Put(from, r, i) /\ expected' = Put(expected, r, record[b])
  /\ Go(r, "mkdir")
  /\ UNCHANGED <<storeVars, builderVars, bin, source, copy, meddling>>

MakeBin(r) ==
  /\ rpc[r] = "mkdir" /\ bin[r].dir = "none"
  /\ Place(r, "dir", "ours") /\ Go(r, "source")
  /\ UNCHANGED <<storeVars, builderVars, from, expected, source, copy, meddling>>

OpenSource(r) ==                  \* whatever directory bears the name now
  /\ rpc[r] = "source" /\ bin[r].dir = "ours" /\ final[from[r]] # "none"
  /\ source' = Put(source, r, final[from[r]]) /\ Go(r, "create")
  /\ UNCHANGED <<storeVars, builderVars, bin, from, expected, copy, meddling>>

CreateCopy(r) ==
  /\ rpc[r] = "create" /\ bin[r].dir = "ours" /\ bin[r].pending = "none"
  /\ Place(r, "pending", "ours") /\ Go(r, "copy")
  /\ UNCHANGED <<storeVars, builderVars, from, expected, source, copy, meddling>>

CopyBytes(r) ==
  /\ rpc[r] = "copy" /\ bin[r].dir = "ours"
  /\ copy' = Put(copy, r, ContentOf(source[r])) /\ Go(r, "hash")
  /\ UNCHANGED <<storeVars, builderVars, bin, from, expected, source, meddling>>

HashSource(r) ==                  \* a mistake: the source is hashed once more, not the copy
  /\ rpc[r] = "hash" /\ bin[r].dir = "ours" /\ ContentOf(source[r]) = expected[r]
  /\ Go(r, "publish")
  /\ UNCHANGED <<storeVars, builderVars, bin, from, expected, source, copy, meddling>>

HashCopy(r) ==
  /\ rpc[r] = "hash" /\ bin[r].dir = "ours" /\ copy[r] = expected[r]
  /\ Go(r, "publish")
  /\ UNCHANGED <<storeVars, builderVars, bin, from, expected, source, copy, meddling>>

PublishCopy(r) ==
  /\ rpc[r] = "publish"
  /\ bin[r] = [dir |-> "ours", pending |-> "ours", shud |-> "none"]
  /\ bin' = Put(bin, r, [dir |-> "ours", pending |-> "none", shud |-> "ours"]) /\ Go(r, "ready")
  /\ UNCHANGED <<storeVars, builderVars, from, expected, source, copy, meddling>>

Start(r) ==
  /\ rpc[r] = "ready" /\ Go(r, "started")
  /\ UNCHANGED <<storeVars, builderVars, bin, from, expected, source, copy, meddling>>

(* assertRollbackSafe: bin/ holds nothing but what this call put there.    *)
RollbackSafe(r) ==
  LET present == {field \in {"pending", "shud"} : bin[r][field] # "none"}
  IN IF rpc[r] = "mkdir" THEN bin[r].dir = "none"
     ELSE /\ bin[r].dir = "ours"
          /\ IF rpc[r] \in {"source", "create"} THEN present = {}
             ELSE Cardinality(present) = 1 /\ \A field \in present : bin[r][field] = "ours"

(* A failure here or later in the submission; a run directory that is not  *)
(* safe to remove is kept.                                                 *)
RunFails(r) ==
  /\ rpc[r] \in {"mkdir", "source", "create", "copy", "hash", "publish", "ready"}
  /\ bin' = IF RollbackSafe(r) THEN Put(bin, r, Empty) ELSE bin
  /\ Go(r, "failed")
  /\ UNCHANGED <<storeVars, builderVars, from, expected, source, copy, meddling>>

-----------------------------------------------------------------------------
(* Others: a directory is replaced, removed or put back, a binary edited,  *)
(* something is planted in bin/.                                           *)
Meddle == meddling > 0 /\ meddling' = meddling - 1

ReplaceTmp ==
  /\ Meddle
  /\ \E i \in Ids :
       \E object \in {"none", "foreign"} \cup {b \in Builders : Building(b) /\ id[b] = i} :
         tmp' = Put(tmp, i, object)
  /\ UNCHANGED <<final, binary, record, builderVars, runVars>>

ReplaceFinal ==
  /\ Meddle
  /\ \E i \in Ids, object \in {"none", "foreign"} : final' = Put(final, i, object)
  /\ UNCHANGED <<tmp, binary, record, builderVars, runVars>>

EditBinary ==
  /\ Meddle
  /\ \E b \in Builders, content \in {"made", "other"} :
       binary[b] \notin {"none", content} /\ binary' = Put(binary, b, content)
  /\ UNCHANGED <<tmp, final, record, builderVars, runVars>>

Plant ==
  /\ Meddle
  /\ \E r \in Runs, field \in {"dir", "pending", "shud"} :
       /\ field # "dir" => bin[r].dir # "none"
       /\ Place(r, field, "foreign")
  /\ UNCHANGED <<storeVars, builderVars, rpc, from, expected, source, copy>>

(* The host dies: its calls end where they are, its files stay.            *)
Crash ==
  /\ Meddle
  /\ bpc' = [b \in Builders |-> IF Building(b) THEN "failed" ELSE bpc[b]]
  /\ rpc' = [r \in Runs |-> IF rpc[r] \in {"idle", "started"} THEN rpc[r] ELSE "failed"]
  /\ UNCHANGED <<storeVars, drawn, id, digest, bin, from, expected, source, copy>>

-----------------------------------------------------------------------------
Next ==
  \/ \E b \in Builders : \/ Reserve(b) \/ Collide(b) \/ Make(b) \/ HashBinary(b) \/ Probe(b)
                         \/ Recheck(b) \/ Commit(b) \/ BuildFails(b)
  \/ \E r \in Runs : \/ VerifyBinary(r) \/ MakeBin(r) \/ OpenSource(r) \/ CreateCopy(r)
                     \/ CopyBytes(r) \/ HashCopy(r) \/ PublishCopy(r) \/ Start(r) \/ RunFails(r)
  \/ ReplaceTmp \/ ReplaceFinal \/ EditBinary \/ Plant \/ Crash

Spec == Init /\ [][Next]_vars

-----------------------------------------------------------------------------
(* A build that appears under its id is complete: crashes and failures      *)
(* never leave one without its record, and the record was of the bytes that *)
(* were in the directory when it appeared unless somebody edited them.      *)
FinalIsComplete ==
  \A i \in Ids : final[i] \in Builders =>
    LET b == final[i]
    IN record[b] # "none" /\ (meddling = MaxMeddling => record[b] = "made" /\ binary[b] = "made")

(* No clean-up and no rollback, of whatever stage, removes or replaces what *)
(* somebody else put in place of the directories and files of the call.     *)
SparesForeign ==
  [][meddling' = meddling =>
       /\ \A i \in Ids : /\ tmp[i] = "foreign" => tmp'[i] = "foreign"
                         /\ final[i] = "foreign" => final'[i] = "foreign"
       /\ \A r \in Runs, field \in {"dir", "pending", "shud"} :
            bin[r][field] = "foreign" => bin'[r][field] = "foreign"]_vars

(* A run starts the very bytes its build record names, although the build   *)
(* was verified some awaits before it was copied.                           *)
RunsRecordedBinary ==
  \A r \in Runs : rpc[r] = "started" => copy[r] = expected[r] /\ expected[r] # "none"
=============================================================================
