------------------------------ MODULE FilesProofs ------------------------------
(****************************************************************************)
(* Proofs about the files that several processes share (MCFiles): each part   *)
(* has an invariant of its own, which the steps of the other parts leave       *)
(* alone.                                                                     *)
(****************************************************************************)
EXTENDS MCFiles, Sequences, FiniteSets, SequenceTheorems, FiniteSetTheorems,
        WellFoundedInduction, TLAPS

-----------------------------------------------------------------------------
(* run-job.json (RunJobFile).                                               *)

(* A run-job.json that can be parsed, and what a step keeps of it.          *)
JobFields == [id : {"ours", "other"},
              status : {"created", "submitted", "running", "succeeded", "failed", "cancelled", "collected"},
              code : {"none", "zero", "nonzero"}, cancel : BOOLEAN, notified : BOOLEAN]
JobPlaces == {JobFile!Link, 1, 2}
StepFields == [pc : {"idle", "located", "read", "update"}, root : JobPlaces, dir : JobPlaces,
               read : JobFields \cup {JobFile!Broken}, evidence : {"none", "zero", "nonzero", "bad"}]

(* The types; a run that is not settled has no exit code yet; and what evidence *)
(* a step can hold: none of an exit code once the run it read was settled.      *)
JobsInv ==
  /\ jobs \in [JobFile!Directories -> JobFields \cup {JobFile!Broken}]
  /\ root \in JobPlaces /\ dir \in JobPlaces
  /\ step \in [JobFile!Steps -> StepFields]
  /\ \A d \in JobFile!Directories :
       jobs[d].id = "ours" => JobFile!IsTerminal(jobs[d].status) \/ jobs[d].code = "none"
  /\ \A s \in JobFile!Steps :
       step[s].pc = "update" => step[s].evidence \in JobFile!Evidence(s, step[s].read)

(* The invariant holds at the start.                                        *)
LEMMA JobsInit == JobFile!Init => JobsInv
<1> SUFFICES ASSUME JobFile!Init PROVE JobsInv
  OBVIOUS
<1>1. PICK j \in {JobFile!Job("created", FALSE), JobFile!Job("submitted", FALSE),
                  JobFile!Job("running", FALSE), JobFile!Job("running", TRUE)} :
        \E c \in {j, [j EXCEPT !.id = "other"], JobFile!Broken} :
          jobs = [d \in JobFile!Directories |-> IF d = 1 THEN j ELSE c]
  BY DEF JobFile!Init
<1>2. j \in JobFields /\ ~JobFile!IsTerminal(j.status) /\ j.code = "none"
  <2>1. ASSUME NEW st \in {"created", "submitted", "running"}, NEW c \in BOOLEAN
        PROVE  LET i == JobFile!Job(st, c)
               IN i \in JobFields /\ ~JobFile!IsTerminal(i.status) /\ i.code = "none"
    BY DEF JobFile!Job, JobFile!IsTerminal, JobFields
  <2>2. \E st \in {"created", "submitted", "running"}, c \in BOOLEAN : j = JobFile!Job(st, c)
    BY <1>1
  <2>3. QED BY <2>1, <2>2
<1>3. /\ jobs \in [JobFile!Directories -> JobFields \cup {JobFile!Broken}]
      /\ \A d \in JobFile!Directories : jobs[d] = j \/ jobs[d].id # "ours"
  <2> DEFINE o == [j EXCEPT !.id = "other"]
  <2>1. o \in JobFields /\ o.id = "other" BY <1>2 DEF JobFields
  <2>2. JobFile!Broken.id = "broken" BY DEF JobFile!Broken
  <2>3. PICK c \in {j, o, JobFile!Broken} : jobs = [d \in JobFile!Directories |-> IF d = 1 THEN j ELSE c]
    BY <1>1
  <2> HIDE DEF o
  <2>4. QED BY <1>2, <2>1, <2>2, <2>3
<1>4. JobFile!Idle \in StepFields /\ JobFile!Idle.pc = "idle"
  BY DEF JobFile!Idle, StepFields, JobPlaces
<1>5. step = [s \in JobFile!Steps |-> JobFile!Idle] /\ root \in JobPlaces /\ dir \in JobPlaces
  BY DEF JobFile!Init, JobPlaces
<1>6. QED BY <1>2, <1>3, <1>4, <1>5 DEF JobsInv

(* What a step makes of a job it read: the same run, further on.            *)
LEMMA Advanced ==
  ASSUME NEW j \in JobFields, NEW k \in StepFields, NEW s \in JobFile!Steps,
         JobFile!IsTerminal(j.status) \/ j.code = "none", k.evidence \in JobFile!Evidence(s, k.read),
         NEW new \in JobFile!Transitions(s, j, k)
  PROVE  /\ new \in JobFields /\ JobFile!Advances(j, new, k)
         /\ JobFile!IsTerminal(new.status) \/ new.code = "none"
<1> USE DEF JobFile!IsTerminal, JobFile!Advances
<1>1. CASE new = j
  BY <1>1
<1>2. CASE new = JobFile!Cancel(j) /\ new # j
  <2>1. new = [j EXCEPT !.cancel = TRUE] /\ j.status = "running"
    BY <1>2 DEF JobFile!Cancel
  <2>2. QED BY <2>1 DEF JobFields
<1>3. CASE new = JobFile!Promote(j) /\ new # j /\ k.evidence = "none"
  <2>1. new = [j EXCEPT !.status = "running"] /\ j.status = "submitted"
    BY <1>3 DEF JobFile!Promote
  <2>2. QED BY <1>3, <2>1 DEF JobFields
<1>4. CASE new = JobFile!Settle(j, k) /\ new # j /\ ~JobFile!IsTerminal(k.read.status)
  <2> DEFINE st == JobFile!Settled(j.cancel, k.evidence)
             co == IF k.evidence = "bad" THEN "none" ELSE k.evidence
  <2>1. new = [j EXCEPT !.status = st, !.code = co] /\ ~JobFile!IsTerminal(j.status)
    BY <1>4 DEF JobFile!Settle, JobFile!SettleAs
  <2>2. k.evidence \in {"none", "zero", "nonzero", "bad"} /\ j.cancel \in BOOLEAN
        /\ j.code = "none"
    BY <2>1 DEF StepFields, JobFields
  <2>3. /\ st \in {"succeeded", "failed", "cancelled"}
        /\ st = "cancelled" <=> (j.cancel /\ k.evidence = "none")
        /\ st = "succeeded" <=> k.evidence = "zero"
    BY <2>2 DEF JobFile!Settled
  <2>4. co \in {"none", "zero", "nonzero"} /\ (co # "none" => co = k.evidence)
    BY <2>2
  <2> HIDE DEF st, co
  <2>5. /\ new \in JobFields /\ new.status = st /\ new.code = co
        /\ new.id = j.id /\ new.cancel = j.cancel /\ new.notified = j.notified
    BY <2>1, <2>3, <2>4 DEF JobFields
  <2>6. QED BY <2>1, <2>2, <2>3, <2>4, <2>5
<1>5. CASE new = JobFile!ProjectCollected(j) /\ new # j /\ k.evidence = "none"
  <2>1. new = [j EXCEPT !.status = "collected"] /\ JobFile!IsTerminal(j.status)
    BY <1>5 DEF JobFile!ProjectCollected
  <2>2. QED BY <1>5, <2>1 DEF JobFields
<1>6. CASE new = JobFile!Demote(j) /\ new # j /\ k.evidence = "bad"
  <2>1. new = [j EXCEPT !.status = "failed"] /\ j.status \in {"succeeded", "cancelled"}
    BY <1>6 DEF JobFile!Demote
  <2>2. QED BY <1>6, <2>1 DEF JobFields
<1>7. CASE new = JobFile!Tell(j, k) /\ new # j
  <2>1. new = [j EXCEPT !.notified = TRUE] /\ j.status = k.read.status /\ JobFile!IsTerminal(j.status)
    BY <1>7 DEF JobFile!Tell
  <2>2. QED BY <2>1 DEF JobFields
<1>8. JobFile!IsTerminal(k.read.status) => k.evidence \in {"none", "bad"}
  BY DEF JobFile!Evidence
<1>9. \/ new = j \/ new = JobFile!Cancel(j)
      \/ new = JobFile!Promote(j) /\ k.evidence = "none"
      \/ new = JobFile!Settle(j, k) /\ ~JobFile!IsTerminal(k.read.status)
      \/ new = JobFile!ProjectCollected(j) /\ k.evidence = "none"
      \/ new = JobFile!Demote(j) /\ k.evidence = "bad"
      \/ new = JobFile!Tell(j, k)
  <2> HIDE DEF JobFile!IsTerminal
  <2>1. QED BY <1>8 DEF JobFile!Transitions
<1>10. QED
  BY <1>1, <1>2, <1>3, <1>4, <1>5, <1>6, <1>7, <1>9

(* What a step may do to the job that is in place, as an action.            *)
UpdateKept ==
  \A d \in JobFile!Directories : jobs'[d] # jobs[d] =>
    /\ jobs[d].id = "ours"
    /\ \E s \in JobFile!Steps :
         /\ step[s].pc = "update" /\ step[s].dir = d /\ step'[s] = JobFile!Idle
         /\ JobFile!Advances(jobs[d], jobs'[d], step[s])

(* A read keeps what it found, and the evidence is one that can be awaited.    *)
LEMMA StepsTyped ==
  ASSUME JobsInv, NEW s \in JobFile!Steps, JobFile!Locate(s) \/ JobFile!Read(s) \/ JobFile!Await(s)
  PROVE  JobsInv'
<1>1. step[s] \in StepFields /\ JobFile!Idle \in StepFields /\ JobFile!Idle.pc = "idle"
  BY DEF JobsInv, JobFile!Idle, StepFields, JobPlaces
<1>2. UNCHANGED <<root, dir, jobs>>
  BY DEF JobFile!Locate, JobFile!Read, JobFile!Await
<1>3. ASSUME NEW k \in StepFields, step' = [step EXCEPT ![s] = k],
             k.pc = "update" => k.evidence \in JobFile!Evidence(s, k.read)
      PROVE  JobsInv'
  BY <1>2, <1>3 DEF JobsInv
<1>4. CASE JobFile!Locate(s)
  <2> DEFINE new == [JobFile!Idle EXCEPT !.pc = "located", !.root = root, !.dir = dir]
  <2>1. new \in StepFields /\ new.pc = "located"
    BY DEF JobsInv, JobFile!Idle, StepFields, JobPlaces
  <2>2. step' = [step EXCEPT ![s] = JobFile!Idle] \/ step' = [step EXCEPT ![s] = new]
    BY <1>4 DEF JobFile!Locate
  <2> HIDE DEF new
  <2>3. QED BY <1>1, <1>3, <2>1, <2>2
<1>5. CASE JobFile!Read(s)
  <2> DEFINE new == [step[s] EXCEPT !.pc = "read", !.read = jobs[dir]]
  <2>1. CASE JobFile!Link \in {root, dir} \/ ~JobFile!Routes(jobs[dir])
    BY <1>1, <1>3, <1>5, <2>1 DEF JobFile!Read
  <2>2. CASE ~(JobFile!Link \in {root, dir} \/ ~JobFile!Routes(jobs[dir]))
    <3>1. dir \in JobFile!Directories /\ jobs[dir] \in JobFields \cup {JobFile!Broken}
      BY <2>2 DEF JobsInv, JobPlaces, JobFile!Directories, JobFile!Link
    <3>2. new \in StepFields /\ new.pc = "read"
      BY <1>1, <3>1 DEF StepFields
    <3>3. step' = [step EXCEPT ![s] = new]
      BY <1>5, <2>2 DEF JobFile!Read, JobsInv
    <3> HIDE DEF new
    <3>4. QED BY <1>3, <3>2, <3>3
  <2>3. QED BY <2>1, <2>2
<1>6. CASE JobFile!Await(s)
  <2>1. PICK e \in JobFile!Evidence(s, step[s].read) :
          step' = [step EXCEPT ![s].pc = "update", ![s].evidence = e]
    BY <1>6 DEF JobFile!Await
  <2> DEFINE new == [step[s] EXCEPT !.pc = "update", !.evidence = e]
  <2>2. step' = [step EXCEPT ![s] = new]
    BY <2>1 DEF JobsInv
  <2>3. e \in {"none", "zero", "nonzero", "bad"}
    BY <2>1 DEF JobFile!Evidence
  <2>4. new \in StepFields /\ new.read = step[s].read /\ new.evidence = e
    BY <1>1, <2>3 DEF StepFields
  <2> HIDE DEF new
  <2>5. QED BY <1>3, <2>1, <2>2, <2>4
<1>7. QED BY <1>4, <1>5, <1>6

(* Every step keeps the invariant and what another did meanwhile.           *)
LEMMA JobsStep ==
  ASSUME JobsInv, JobFile!Next \/ UNCHANGED jobVars
  PROVE  JobsInv' /\ UpdateKept
<1>1. CASE UNCHANGED jobVars
  BY <1>1 DEF jobVars, JobsInv, UpdateKept
<1>2. CASE JobFile!Swap
  BY <1>2 DEF JobFile!Swap, JobsInv, JobPlaces, UpdateKept
<1>3. ASSUME NEW s \in JobFile!Steps, JobFile!Locate(s) \/ JobFile!Read(s) \/ JobFile!Await(s)
      PROVE  JobsInv' /\ UpdateKept
  <2>1. UNCHANGED jobs BY <1>3 DEF JobFile!Locate, JobFile!Read, JobFile!Await
  <2>2. QED BY <1>3, <2>1, StepsTyped DEF UpdateKept
<1>4. ASSUME NEW s \in JobFile!Steps, JobFile!Update(s)
      PROVE  JobsInv' /\ UpdateKept
  <2>1. /\ step' = [step EXCEPT ![s] = JobFile!Idle] /\ step[s].pc = "update"
        /\ UNCHANGED <<root, dir>>
    BY <1>4 DEF JobFile!Update
  <2>2. JobFile!Idle \in StepFields /\ JobFile!Idle.pc = "idle"
    BY DEF JobFile!Idle, StepFields, JobPlaces
  <2>3. /\ step' \in [JobFile!Steps -> StepFields] /\ step'[s] = JobFile!Idle
        /\ \A t \in JobFile!Steps : step'[t] = JobFile!Idle \/ step'[t] = step[t]
    BY <2>1, <2>2 DEF JobsInv
  <2>4. JobsInv' <=>
          /\ jobs' \in [JobFile!Directories -> JobFields \cup {JobFile!Broken}]
          /\ \A d \in JobFile!Directories :
               jobs'[d].id = "ours" => JobFile!IsTerminal(jobs'[d].status) \/ jobs'[d].code = "none"
    BY <2>1, <2>2, <2>3 DEF JobsInv
  <2>5. CASE UNCHANGED jobs
    BY <2>4, <2>5 DEF JobsInv, UpdateKept
  <2>6. CASE /\ JobFile!Verified(step[s]) /\ JobFile!Routes(jobs[dir])
             /\ \E new \in JobFile!Transitions(s, jobs[dir], step[s]) : jobs' = [jobs EXCEPT ![dir] = new]
    <3>1. PICK new \in JobFile!Transitions(s, jobs[dir], step[s]) : jobs' = [jobs EXCEPT ![dir] = new]
      BY <2>6
    <3>2. CASE dir \notin JobFile!Directories
      <4>1. jobs' = jobs BY <3>1, <3>2 DEF JobsInv
      <4>2. QED BY <2>5, <4>1
    <3>3. CASE dir \in JobFile!Directories
      <4> DEFINE j == jobs[dir]
                 k == step[s]
      <4>1. j \in JobFields /\ j.id = "ours" /\ k.dir = dir
        BY <2>6, <3>3 DEF JobsInv, JobFile!Routes, JobFile!Broken, JobFile!Verified
      <4>2. /\ JobFile!IsTerminal(j.status) \/ j.code = "none"
            /\ k \in StepFields /\ k.evidence \in JobFile!Evidence(s, k.read)
        BY <2>1, <3>3, <4>1 DEF JobsInv
      <4>3. new \in JobFile!Transitions(s, j, k) BY <3>1
      <4>4. \A d \in JobFile!Directories : jobs'[d] = IF d = dir THEN new ELSE jobs[d]
        BY <3>1, <3>3 DEF JobsInv
      <4>5. new \in JobFields => jobs' \in [JobFile!Directories -> JobFields \cup {JobFile!Broken}]
        BY <3>1 DEF JobsInv
      <4>6. /\ new \in JobFields /\ JobFile!Advances(j, new, k)
            /\ JobFile!IsTerminal(new.status) \/ new.code = "none"
        <5> HIDE DEF j, k
        <5>1. QED BY <4>1, <4>2, <4>3, Advanced
      <4>7. UpdateKept BY <2>1, <2>3, <3>3, <4>1, <4>4, <4>6 DEF UpdateKept
      <4>8. JobsInv' BY <2>4, <4>4, <4>5, <4>6 DEF JobsInv
      <4>9. QED BY <4>7, <4>8
    <3>4. QED BY <3>2, <3>3
  <2>7. QED BY <1>4, <2>5, <2>6 DEF JobFile!Update
<1>5. QED BY <1>1, <1>2, <1>3, <1>4 DEF JobFile!Next

(* UpdatesKept (shud-run-file.ts: updateRunJob, and its callers): a step         *)
(* changes the run-job.json of the run it read, and none undoes what another did   *)
(* meanwhile: a settled run is collected, or demoted by a collection that found      *)
(* its exit evidence unusable, and otherwise stays as it was settled.             *)
THEOREM UpdatesAreKept == PartSpec => UpdatesKept
<1>1. PartInit => JobsInv BY JobsInit DEF PartInit
<1>2. [PartNext]_partVars => JobFile!Next \/ UNCHANGED jobVars
  BY DEF PartNext, partVars, runVars
<1>3. JobsInv /\ [PartNext]_partVars => JobsInv' BY <1>2, JobsStep
<1>4. JobsInv /\ [PartNext]_partVars => [UpdateKept]_JobFile!vars BY <1>2, JobsStep
<1>5. QED BY <1>1, <1>3, <1>4, PTL DEF PartSpec, UpdatesKept, JobFile!UpdatesKept, UpdateKept

-----------------------------------------------------------------------------
(* Builds and the copies of their binaries (BuildFiles).                    *)

(* Where a call of shud_build has no directory of its own.                  *)
Unbuilt == {"idle", "failed"}
(* And where it has made a binary there.                                    *)
Stored == {"hash", "probe", "recheck", "commit", "done"}

(* The types of what the builds keep.                                       *)
StoresTyped ==
  /\ tmp \in [Ids -> Builds!Object] /\ final \in [Ids -> Builds!Object]
  /\ binary \in [Builders -> Builds!Content] /\ record \in [Builders -> Builds!Content]
  /\ digest \in [Builders -> Builds!Content] /\ id \in [Builders -> Ids \cup {Builds!NoId}]
  /\ bpc \in [Builders -> Stored \cup {"make"} \cup Unbuilt]

(* What a call of shud_build has got done.                                  *)
BuilderAt(b) ==
  /\ Builds!Building(b) => id[b] \in Ids
  /\ bpc[b] \in Stored => binary[b] # "none"
  /\ bpc[b] \in {"commit", "done"} => digest[b] # "none"
  /\ bpc[b] = "done" => record[b] = digest[b]

(* And what it has as long as nobody else touched its files.                *)
Untouched(b) ==
  /\ Builds!Building(b) => tmp[id[b]] = b
  /\ bpc[b] \in {"hash", "probe", "commit", "done"} => binary[b] = "made"
  /\ bpc[b] \in {"probe", "recheck", "commit", "done"} => digest[b] = "made"

(* A call has its own directory until it renames it away; while nobody else may *)
(* touch a file any more, its binary is the one it made.                    *)
StoresInv ==
  /\ StoresTyped
  /\ meddling \in Nat /\ meddling =< MaxMeddling
  /\ \A b \in Builders : BuilderAt(b)
  /\ meddling = MaxMeddling => \A b \in Builders : Untouched(b)
  /\ \A i \in Ids : final[i] \in Builders => bpc[final[i]] = "done"

(* A run that is ready has in its copy the bytes that were expected.        *)
CopiesInv ==
  /\ bin \in [Runs -> [dir : Builds!Entry, pending : Builds!Entry, shud : Builds!Entry]]
  /\ rpc = [r \in Runs |-> rpc[r]] /\ expected = [r \in Runs |-> expected[r]]
  /\ copy = [r \in Runs |-> copy[r]]
  /\ \A r \in Runs :
       /\ bin[r].dir = "none" => bin[r].pending = "none" /\ bin[r].shud = "none"
       /\ rpc[r] \notin {"idle", "failed"} => expected[r] # "none"
       /\ rpc[r] \in {"publish", "ready", "started"} => copy[r] = expected[r]

(* Both hold at the start.                                                  *)
LEMMA StoresInit == Builds!Init => StoresInv
BY FilesAssumption
   DEF Builds!Init, StoresInv, StoresTyped, BuilderAt, Untouched, Builds!Object, Builds!Content,
       Builds!Building, Stored, Unbuilt

(* Nothing has been copied at the start.                                    *)
LEMMA CopiesInit == Builds!Init => CopiesInv
BY DEF Builds!Init, CopiesInv, Builds!Entry, Builds!Empty

(* The first is enough for the builds that are in place.                    *)
LEMMA StoresKeep == StoresInv => Builds!FinalIsComplete
BY DEF StoresInv, BuilderAt, Untouched, Builds!FinalIsComplete, Stored

(* And the second for the runs that started.                                *)
LEMMA CopiesKeep == CopiesInv => Builds!RunsRecordedBinary
BY DEF CopiesInv, Builds!RunsRecordedBinary

(* A step of one call of shud_build, of which the others' files are no part.  *)
LEMMA BuilderStep ==
  ASSUME StoresInv, NEW b \in Builders, StoresTyped', UNCHANGED meddling,
         BuilderAt(b)', meddling = MaxMeddling => Untouched(b)',
         \A c \in Builders \ {b} :
           /\ bpc'[c] = bpc[c] /\ id'[c] = id[c] /\ digest'[c] = digest[c]
           /\ binary'[c] = binary[c] /\ record'[c] = record[c]
           /\ tmp[id[c]] = c => tmp'[id[c]] = c,
         \A i \in Ids : final'[i] = final[i] \/ (final'[i] = b /\ bpc'[b] = "done"),
         bpc[b] = "done" => bpc'[b] = "done"
  PROVE  StoresInv'
<1>1. ASSUME NEW c \in Builders PROVE BuilderAt(c)'
  <2>1. CASE c = b BY <2>1
  <2>2. CASE c # b BY <2>2 DEF StoresInv, BuilderAt, Builds!Building
  <2>3. QED BY <2>1, <2>2
<1>2. ASSUME meddling' = MaxMeddling, NEW c \in Builders PROVE Untouched(c)'
  <2>1. CASE c = b BY <1>2, <2>1
  <2>2. CASE c # b BY <1>2, <2>2 DEF StoresInv, Untouched, Builds!Building
  <2>3. QED BY <2>1, <2>2
<1>3. ASSUME NEW i \in Ids, final'[i] \in Builders PROVE bpc'[final'[i]] = "done"
  BY <1>3 DEF StoresInv
<1>4. QED BY <1>1, <1>2, <1>3 DEF StoresInv

(* Every step of a build, of a run or of a stranger keeps the first.        *)
LEMMA StoresStep ==
  ASSUME StoresInv, Builds!Next \/ UNCHANGED buildVars
  PROVE  StoresInv'
<1> USE DEF Builds!Put, Builds!Owned
<1>0. StoresTyped BY DEF StoresInv
<1>1. CASE UNCHANGED <<tmp, final, binary, record, bpc, id, digest, meddling>>
  BY <1>1 DEF StoresInv, StoresTyped, BuilderAt, Untouched, Builds!Building
<1>2. ASSUME NEW b \in Builders, Builds!Reserve(b) PROVE StoresInv'
  <2>1. PICK i \in Ids :
          /\ Builds!Absent(i) /\ bpc[b] = "idle"
          /\ tmp' = [tmp EXCEPT ![i] = b] /\ id' = [id EXCEPT ![b] = i]
          /\ bpc' = [bpc EXCEPT ![b] = "make"]
          /\ UNCHANGED <<final, binary, record, digest, meddling>>
    BY <1>2 DEF Builds!Reserve, Builds!runVars
  <2>2. StoresTyped' BY <1>0, <2>1 DEF StoresTyped, Stored, Builds!Object
  <2>3. BuilderAt(b)' /\ Untouched(b)'
    BY <1>0, <2>1 DEF BuilderAt, Untouched, StoresTyped, Stored
  <2>4. tmp[i] # b /\ \A c \in Builders : tmp[i] # c
    BY <2>1, FilesAssumption DEF Builds!Absent
  <2>5. \A c \in Builders \ {b} :
          /\ bpc'[c] = bpc[c] /\ id'[c] = id[c] /\ (tmp[id[c]] = c => tmp'[id[c]] = c)
    BY <1>0, <2>1, <2>4 DEF StoresTyped
  <2>6. QED BY <2>1, <2>2, <2>3, <2>5, BuilderStep
<1>3. ASSUME NEW b \in Builders, Builds!Collide(b) PROVE StoresInv'
  <2>1. CASE bpc' = bpc BY <1>1, <1>3, <2>1 DEF Builds!Collide, Builds!storeVars, Builds!runVars
  <2>2. CASE bpc' = [bpc EXCEPT ![b] = "failed"] /\ bpc[b] = "idle"
    <3>1. UNCHANGED <<tmp, final, binary, record, id, digest, meddling>>
      BY <1>3 DEF Builds!Collide, Builds!storeVars, Builds!runVars
    <3>2. StoresTyped' BY <1>0, <2>2, <3>1 DEF StoresTyped, Unbuilt
    <3>3. BuilderAt(b)' /\ Untouched(b)'
      BY <1>0, <2>2, <3>1 DEF BuilderAt, Untouched, StoresTyped, Stored, Builds!Building
    <3>4. QED BY <1>0, <2>2, <3>1, <3>2, <3>3, BuilderStep DEF StoresTyped
  <2>3. QED BY <1>3, <2>1, <2>2 DEF Builds!Collide
<1>4. ASSUME NEW b \in Builders, Builds!Make(b) PROVE StoresInv'
  <2>1. /\ bpc[b] = "make" /\ tmp[id[b]] = b
        /\ binary' = [binary EXCEPT ![b] = "made"] /\ bpc' = [bpc EXCEPT ![b] = "hash"]
        /\ UNCHANGED <<tmp, final, record, id, digest, meddling>>
    BY <1>4 DEF Builds!Make, Builds!runVars
  <2>2. StoresTyped' BY <1>0, <2>1 DEF StoresTyped, Stored, Builds!Content
  <2>3. BuilderAt(b)' /\ Untouched(b)'
    BY <1>0, <2>1 DEF StoresInv, BuilderAt, Untouched, StoresTyped, Stored, Builds!Building
  <2>4. QED BY <1>0, <2>1, <2>2, <2>3, BuilderStep DEF StoresTyped
<1>5. ASSUME NEW b \in Builders, Builds!HashBinary(b) PROVE StoresInv'
  <2>1. /\ bpc[b] = "hash"
        /\ digest' = [digest EXCEPT ![b] = Builds!ContentOf(tmp[id[b]])]
        /\ bpc' = [bpc EXCEPT ![b] = "probe"]
        /\ UNCHANGED <<tmp, final, binary, record, id, meddling>>
    BY <1>5 DEF Builds!HashBinary, Builds!runVars, Builds!storeVars
  <2>2. Builds!ContentOf(tmp[id[b]]) \in Builds!Content
    BY <1>0 DEF StoresTyped, Builds!ContentOf, Builds!Content
  <2>3. StoresTyped' BY <1>0, <2>1, <2>2 DEF StoresTyped, Stored
  <2>4. BuilderAt(b)'
    BY <1>0, <2>1 DEF StoresInv, BuilderAt, StoresTyped, Stored, Builds!Building
  <2>5. meddling = MaxMeddling => Untouched(b)'
    BY <1>0, <2>1 DEF StoresInv, Untouched, StoresTyped, Stored, Builds!Building, Builds!ContentOf
  <2>6. QED BY <1>0, <2>1, <2>3, <2>4, <2>5, BuilderStep DEF StoresTyped
<1>6. ASSUME NEW b \in Builders, Builds!Probe(b) PROVE StoresInv'
  <2>1. PICK what \in {binary[b], "other"} :
          /\ bpc[b] = "probe" /\ tmp[id[b]] = b
          /\ binary' = [binary EXCEPT ![b] = what] /\ bpc' = [bpc EXCEPT ![b] = "recheck"]
          /\ UNCHANGED <<tmp, final, record, id, digest, meddling>>
    BY <1>6 DEF Builds!Probe, Builds!runVars
  <2>2. StoresTyped' BY <1>0, <2>1 DEF StoresTyped, Stored, Builds!Content
  <2>3. BuilderAt(b)'
    BY <1>0, <2>1 DEF StoresInv, BuilderAt, StoresTyped, Stored, Builds!Building
  <2>4. meddling = MaxMeddling => Untouched(b)'
    BY <1>0, <2>1 DEF StoresInv, Untouched, StoresTyped, Stored, Builds!Building
  <2>5. QED BY <1>0, <2>1, <2>2, <2>3, <2>4, BuilderStep DEF StoresTyped
<1>7. ASSUME NEW b \in Builders, Builds!Recheck(b) PROVE StoresInv'
  <2>1. /\ bpc[b] = "recheck" /\ tmp[id[b]] = b /\ digest[b] = binary[b]
        /\ bpc' = [bpc EXCEPT ![b] = "commit"]
        /\ UNCHANGED <<tmp, final, binary, record, id, digest, meddling>>
    BY <1>7 DEF Builds!Recheck, Builds!runVars, Builds!storeVars, Builds!ContentOf
  <2>2. StoresTyped' BY <1>0, <2>1 DEF StoresTyped, Stored
  <2>3. BuilderAt(b)'
    BY <1>0, <2>1 DEF StoresInv, BuilderAt, StoresTyped, Stored, Builds!Building
  <2>4. meddling = MaxMeddling => Untouched(b)'
    BY <1>0, <2>1 DEF StoresInv, Untouched, StoresTyped, Stored, Builds!Building
  <2>5. QED BY <1>0, <2>1, <2>2, <2>3, <2>4, BuilderStep DEF StoresTyped
<1>8. ASSUME NEW b \in Builders, Builds!Commit(b) PROVE StoresInv'
  <2>1. /\ bpc[b] = "commit" /\ tmp[id[b]] = b /\ id[b] \in Ids
        /\ record' = [record EXCEPT ![b] = digest[b]] /\ bpc' = [bpc EXCEPT ![b] = "done"]
        /\ final' = [final EXCEPT ![id[b]] = b] /\ tmp' = [tmp EXCEPT ![id[b]] = "none"]
        /\ UNCHANGED <<binary, id, digest, meddling>>
    BY <1>8 DEF Builds!Commit, Builds!runVars, StoresInv, BuilderAt, Builds!Building
  <2>2. StoresTyped' BY <1>0, <2>1 DEF StoresTyped, Stored, Builds!Object
  <2>3. BuilderAt(b)'
    BY <1>0, <2>1 DEF StoresInv, BuilderAt, StoresTyped, Stored, Builds!Building
  <2>4. meddling = MaxMeddling => Untouched(b)'
    BY <1>0, <2>1 DEF StoresInv, Untouched, StoresTyped, Stored, Builds!Building
  <2>5. \A i \in Ids : final'[i] = final[i] \/ (final'[i] = b /\ bpc'[b] = "done")
    BY <1>0, <2>1 DEF StoresTyped
  <2>6. \A c \in Builders \ {b} : tmp[id[c]] = c => tmp'[id[c]] = c
    BY <1>0, <2>1 DEF StoresTyped
  <2>7. \A c \in Builders \ {b} : bpc'[c] = bpc[c] /\ record'[c] = record[c]
    BY <1>0, <2>1 DEF StoresTyped
  <2>8. QED BY <2>1, <2>2, <2>3, <2>4, <2>5, <2>6, <2>7, BuilderStep
<1>9. ASSUME NEW b \in Builders, Builds!BuildFails(b) PROVE StoresInv'
  <2>1. /\ bpc[b] \notin {"idle", "done", "failed"} /\ bpc' = [bpc EXCEPT ![b] = "failed"]
        /\ tmp' = IF tmp[id[b]] = b THEN [tmp EXCEPT ![id[b]] = "none"] ELSE tmp
        /\ UNCHANGED <<final, binary, record, id, digest, meddling>>
    BY <1>9 DEF Builds!BuildFails, Builds!Building, Builds!runVars
  <2>2. StoresTyped' BY <1>0, <2>1 DEF StoresTyped, Unbuilt, Builds!Object
  <2>3. BuilderAt(b)' /\ Untouched(b)'
    BY <1>0, <2>1 DEF BuilderAt, Untouched, StoresTyped, Stored, Builds!Building
  <2>4. \A c \in Builders \ {b} : bpc'[c] = bpc[c] /\ (tmp[id[c]] = c => tmp'[id[c]] = c)
    BY <1>0, <2>1 DEF StoresTyped
  <2>5. QED BY <2>1, <2>2, <2>3, <2>4, BuilderStep
<1>10. ASSUME Builds!ReplaceTmp \/ Builds!ReplaceFinal \/ Builds!Plant PROVE StoresInv'
  <2>0. Builds!Meddle /\ UNCHANGED <<binary, record, bpc, id, digest>>
    BY <1>10 DEF Builds!ReplaceTmp, Builds!ReplaceFinal, Builds!Plant, Builds!builderVars,
                 Builds!storeVars, Builds!runVars
  <2>1. ASSUME StoresTyped', \A i \in Ids : final'[i] \in Builders => final'[i] = final[i]
        PROVE  StoresInv'
    <3>1. meddling' \in Nat /\ meddling' =< MaxMeddling /\ meddling' # MaxMeddling
      BY <2>0, FilesAssumption DEF Builds!Meddle, StoresInv
    <3>2. \A b \in Builders : BuilderAt(b)'
      BY <2>0 DEF StoresInv, BuilderAt, Builds!Building
    <3>3. QED BY <2>0, <2>1, <3>1, <3>2 DEF StoresInv
  <2>2. CASE Builds!ReplaceTmp
    <3>1. StoresTyped' /\ UNCHANGED final
      BY <1>0, <2>0, <2>2 DEF Builds!ReplaceTmp, Builds!builderVars, Builds!runVars, StoresTyped,
                              Builds!Object
    <3>2. QED BY <2>1, <3>1
  <2>3. CASE Builds!ReplaceFinal
    <3>1. PICK i \in Ids, object \in {"none", "foreign"} :
            final' = [final EXCEPT ![i] = object] /\ UNCHANGED tmp
      BY <2>3 DEF Builds!ReplaceFinal
    <3>2. StoresTyped' BY <1>0, <2>0, <3>1 DEF StoresTyped, Builds!Object
    <3>3. QED BY <1>0, <2>1, <3>1, <3>2, FilesAssumption DEF StoresTyped
  <2>4. CASE Builds!Plant
    <3>1. UNCHANGED <<tmp, final>> BY <2>4 DEF Builds!Plant, Builds!storeVars
    <3>2. StoresTyped' BY <1>0, <2>0, <3>1 DEF StoresTyped
    <3>3. QED BY <2>1, <3>1, <3>2
  <2>5. QED BY <1>10, <2>2, <2>3, <2>4
<1>11. CASE Builds!EditBinary
  <2>1. PICK b \in Builders, what \in {"made", "other"} :
          /\ binary[b] # "none" /\ binary' = [binary EXCEPT ![b] = what]
          /\ Builds!Meddle /\ UNCHANGED <<tmp, final, record, bpc, id, digest>>
    BY <1>11 DEF Builds!EditBinary, Builds!builderVars, Builds!runVars
  <2>2. meddling' \in Nat /\ meddling' =< MaxMeddling /\ meddling' # MaxMeddling
    BY <2>1, FilesAssumption DEF Builds!Meddle, StoresInv
  <2>3. StoresTyped' BY <1>0, <2>1 DEF StoresTyped, Builds!Content
  <2>4. \A c \in Builders : BuilderAt(c)'
    BY <1>0, <2>1 DEF StoresInv, StoresTyped, BuilderAt, Builds!Building
  <2>5. QED BY <2>1, <2>2, <2>3, <2>4 DEF StoresInv
<1>12. CASE Builds!Crash
  <2>1. /\ bpc' = [b \in Builders |-> IF Builds!Building(b) THEN "failed" ELSE bpc[b]]
        /\ Builds!Meddle /\ UNCHANGED <<tmp, final, binary, record, id, digest>>
    BY <1>12 DEF Builds!Crash, Builds!storeVars
  <2>2. meddling' \in Nat /\ meddling' =< MaxMeddling /\ meddling' # MaxMeddling
    BY <2>1, FilesAssumption DEF Builds!Meddle, StoresInv
  <2>3. StoresTyped' BY <1>0, <2>1 DEF StoresTyped, Unbuilt
  <2>4. ASSUME NEW c \in Builders PROVE BuilderAt(c)' /\ (bpc[c] = "done" => bpc'[c] = "done")
    <3>1. bpc'[c] = IF Builds!Building(c) THEN "failed" ELSE bpc[c] BY <2>1
    <3>2. BuilderAt(c) BY DEF StoresInv
    <3>3. QED BY <2>1, <3>1, <3>2 DEF BuilderAt, Builds!Building, Stored
  <2>5. \A i \in Ids : final'[i] \in Builders => bpc'[final'[i]] = "done"
    BY <2>1, <2>4 DEF StoresInv
  <2>6. QED BY <2>1, <2>2, <2>3, <2>4, <2>5 DEF StoresInv
<1>13. ASSUME NEW r \in Runs,
              \/ Builds!VerifyBinary(r) \/ Builds!MakeBin(r) \/ Builds!OpenSource(r)
              \/ Builds!CreateCopy(r) \/ Builds!CopyBytes(r) \/ Builds!HashCopy(r)
              \/ Builds!PublishCopy(r) \/ Builds!Start(r) \/ Builds!RunFails(r)
       PROVE  UNCHANGED <<tmp, final, binary, record, bpc, id, digest, meddling>>
  BY <1>13 DEF Builds!VerifyBinary, Builds!MakeBin, Builds!OpenSource, Builds!CreateCopy,
     Builds!CopyBytes, Builds!HashCopy, Builds!PublishCopy, Builds!Start, Builds!RunFails,
     Builds!storeVars, Builds!builderVars
<1>14. CASE UNCHANGED buildVars
  BY <1>1, <1>14 DEF buildVars
<1>15. QED
  BY <1>1, <1>2, <1>3, <1>4, <1>5, <1>6, <1>7, <1>8, <1>9, <1>10, <1>11, <1>12, <1>13, <1>14
     DEF Builds!Next

(* The copy of a binary, with its directory and its pending file.           *)
EntryOf == [dir : Builds!Entry, pending : Builds!Entry, shud : Builds!Entry]

(* A step of one call of shud_run.                                         *)
LEMMA CopyStep ==
  ASSUME CopiesInv, NEW r \in Runs, NEW at, NEW e \in EntryOf, NEW wanted, NEW got,
         rpc' = [rpc EXCEPT ![r] = at], bin' = [bin EXCEPT ![r] = e],
         expected' = [expected EXCEPT ![r] = wanted], copy' = [copy EXCEPT ![r] = got],
         e.dir = "none" => e.pending = "none" /\ e.shud = "none",
         at \notin {"idle", "failed"} => wanted # "none",
         at \in {"publish", "ready", "started"} => got = wanted
  PROVE  CopiesInv'
<1>1. /\ bin' \in [Runs -> EntryOf]
      /\ rpc' = [q \in Runs |-> rpc'[q]] /\ expected' = [q \in Runs |-> expected'[q]]
      /\ copy' = [q \in Runs |-> copy'[q]]
  BY DEF CopiesInv, EntryOf
<1>2. ASSUME NEW q \in Runs
      PROVE  /\ bin'[q].dir = "none" => bin'[q].pending = "none" /\ bin'[q].shud = "none"
             /\ rpc'[q] \notin {"idle", "failed"} => expected'[q] # "none"
             /\ rpc'[q] \in {"publish", "ready", "started"} => copy'[q] = expected'[q]
  <2>1. CASE q = r
    <3>1. bin'[q] = e /\ rpc'[q] = at /\ expected'[q] = wanted /\ copy'[q] = got
      BY <2>1 DEF CopiesInv
    <3>2. QED BY <3>1
  <2>2. CASE q # r
    <3>1. bin'[q] = bin[q] /\ rpc'[q] = rpc[q] /\ expected'[q] = expected[q] /\ copy'[q] = copy[q]
      BY <2>2 DEF CopiesInv
    <3>2. QED BY <3>1 DEF CopiesInv
  <2>3. QED BY <2>1, <2>2
<1>3. QED BY <1>1, <1>2 DEF CopiesInv, EntryOf

(* RollbackSafe says what is in bin/.                                       *)
LEMMA OnlyOwn ==
  ASSUME NEW r \in Runs, CopiesInv, Builds!RollbackSafe(r), NEW field \in {"dir", "pending", "shud"}
  PROVE  bin[r][field] # "foreign"
<1> DEFINE found == {f \in {"pending", "shud"} : bin[r][f] # "none"}
<1>1. CASE rpc[r] = "mkdir"
  <2>1. bin[r].dir = "none" /\ bin[r].pending = "none" /\ bin[r].shud = "none"
    BY <1>1 DEF Builds!RollbackSafe, CopiesInv
  <2>2. QED BY <2>1
<1>2. CASE rpc[r] # "mkdir"
  <2>1. bin[r].dir = "ours" /\ (found = {} \/ \A f \in found : bin[r][f] = "ours")
    BY <1>2 DEF Builds!RollbackSafe
  <2>2. QED BY <2>1
<1>3. QED BY <1>1, <1>2

(* The steps of one run.                                                    *)
RunStep(r) ==
  \/ Builds!VerifyBinary(r) \/ Builds!MakeBin(r) \/ Builds!OpenSource(r) \/ Builds!CreateCopy(r)
  \/ Builds!CopyBytes(r) \/ Builds!HashCopy(r) \/ Builds!PublishCopy(r) \/ Builds!Start(r)
  \/ Builds!RunFails(r)

(* Each stage of a call puts only in a free place, and removes only its own. *)
LEMMA RunStages ==
  ASSUME CopiesInv, NEW r \in Runs, RunStep(r)
  PROVE  /\ CopiesInv'
         /\ \A q \in Runs, field \in {"dir", "pending", "shud"} :
              bin[q][field] = "foreign" => bin'[q][field] = "foreign"
<1> DEFINE was == bin[r]
<1>0. /\ was \in EntryOf
      /\ was.dir = "none" => was.pending = "none" /\ was.shud = "none"
      /\ rpc[r] \notin {"idle", "failed"} => expected[r] # "none"
      /\ rpc[r] \in {"publish", "ready", "started"} => copy[r] = expected[r]
  BY DEF CopiesInv, EntryOf
<1>k. /\ bin = [bin EXCEPT ![r] = was] /\ expected = [expected EXCEPT ![r] = expected[r]]
      /\ copy = [copy EXCEPT ![r] = copy[r]]
  BY DEF CopiesInv
<1>1. ASSUME NEW at, NEW e \in EntryOf, NEW wanted, NEW got,
             rpc' = [rpc EXCEPT ![r] = at], bin' = [bin EXCEPT ![r] = e],
             expected' = [expected EXCEPT ![r] = wanted], copy' = [copy EXCEPT ![r] = got],
             e.dir = "none" => e.pending = "none" /\ e.shud = "none",
             at \notin {"idle", "failed"} => wanted # "none",
             at \in {"publish", "ready", "started"} => got = wanted,
             \A field \in {"dir", "pending", "shud"} : was[field] = "foreign" => e[field] = "foreign"
      PROVE  /\ CopiesInv'
             /\ \A q \in Runs, field \in {"dir", "pending", "shud"} :
                  bin[q][field] = "foreign" => bin'[q][field] = "foreign"
  <2>1. CopiesInv' BY <1>1, CopyStep
  <2>2. \A q \in Runs : bin'[q] = IF q = r THEN e ELSE bin[q] BY <1>1 DEF CopiesInv
  <2>3. QED BY <1>1, <2>1, <2>2
<1> HIDE DEF was
<1>2. CASE Builds!VerifyBinary(r)
  <2>1. PICK b \in Builders :
          /\ record[b] # "none" /\ expected' = [expected EXCEPT ![r] = record[b]]
          /\ rpc' = [rpc EXCEPT ![r] = "mkdir"] /\ bin' = [bin EXCEPT ![r] = was]
          /\ copy' = [copy EXCEPT ![r] = copy[r]]
    BY <1>k, <1>2 DEF Builds!VerifyBinary, Builds!Go, Builds!Put
  <2>2. QED BY <1>0, <1>1, <2>1
<1>3. CASE Builds!MakeBin(r)
  <2> DEFINE e == [was EXCEPT !.dir = "ours"]
  <2>1. /\ was.dir = "none" /\ rpc[r] = "mkdir" /\ bin' = [bin EXCEPT ![r] = e]
        /\ rpc' = [rpc EXCEPT ![r] = "source"]
        /\ expected' = [expected EXCEPT ![r] = expected[r]]
        /\ copy' = [copy EXCEPT ![r] = copy[r]]
    BY <1>k, <1>0, <1>3 DEF Builds!MakeBin, Builds!Go, Builds!Put, Builds!Place, was
  <2>2. e \in EntryOf /\ e.dir = "ours"
        /\ \A field \in {"dir", "pending", "shud"} : was[field] = "foreign" => e[field] = "foreign"
    BY <1>0, <2>1 DEF EntryOf, Builds!Entry
  <2> HIDE DEF e
  <2>3. QED BY <1>0, <1>1, <2>1, <2>2
<1>4. CASE Builds!OpenSource(r)
  <2>1. /\ rpc[r] = "source" /\ rpc' = [rpc EXCEPT ![r] = "create"]
        /\ bin' = [bin EXCEPT ![r] = was]
        /\ expected' = [expected EXCEPT ![r] = expected[r]] /\ copy' = [copy EXCEPT ![r] = copy[r]]
    BY <1>k, <1>4 DEF Builds!OpenSource, Builds!Go, Builds!Put
  <2>2. QED BY <1>0, <1>1, <2>1
<1>5. CASE Builds!CreateCopy(r)
  <2> DEFINE e == [was EXCEPT !.pending = "ours"]
  <2>1. /\ was.dir = "ours" /\ was.pending = "none" /\ rpc[r] = "create"
        /\ bin' = [bin EXCEPT ![r] = e]
        /\ rpc' = [rpc EXCEPT ![r] = "copy"] /\ expected' = [expected EXCEPT ![r] = expected[r]]
        /\ copy' = [copy EXCEPT ![r] = copy[r]]
    BY <1>k, <1>0, <1>5 DEF Builds!CreateCopy, Builds!Go, Builds!Put, Builds!Place, was
  <2>2. e \in EntryOf /\ e.dir = "ours"
        /\ \A field \in {"dir", "pending", "shud"} : was[field] = "foreign" => e[field] = "foreign"
    BY <1>0, <2>1 DEF EntryOf, Builds!Entry
  <2> HIDE DEF e
  <2>3. QED BY <1>0, <1>1, <2>1, <2>2
<1>6. CASE Builds!CopyBytes(r)
  <2>1. /\ rpc[r] = "copy" /\ rpc' = [rpc EXCEPT ![r] = "hash"]
        /\ copy' = [copy EXCEPT ![r] = Builds!ContentOf(source[r])]
        /\ bin' = [bin EXCEPT ![r] = was]
        /\ expected' = [expected EXCEPT ![r] = expected[r]]
    BY <1>k, <1>6 DEF Builds!CopyBytes, Builds!Go, Builds!Put
  <2>2. QED BY <1>0, <1>1, <2>1
<1>7. CASE Builds!HashCopy(r)
  <2>1. /\ rpc[r] = "hash" /\ copy[r] = expected[r] /\ rpc' = [rpc EXCEPT ![r] = "publish"]
        /\ bin' = [bin EXCEPT ![r] = was]
        /\ expected' = [expected EXCEPT ![r] = expected[r]] /\ copy' = [copy EXCEPT ![r] = copy[r]]
    BY <1>k, <1>7 DEF Builds!HashCopy, Builds!Go, Builds!Put
  <2>2. QED BY <1>0, <1>1, <2>1
<1>8. CASE Builds!PublishCopy(r)
  <2> DEFINE e == [dir |-> "ours", pending |-> "none", shud |-> "ours"]
  <2>1. /\ was = [dir |-> "ours", pending |-> "ours", shud |-> "none"] /\ rpc[r] = "publish"
        /\ bin' = [bin EXCEPT ![r] = e]
        /\ rpc' = [rpc EXCEPT ![r] = "ready"]
        /\ expected' = [expected EXCEPT ![r] = expected[r]]
        /\ copy' = [copy EXCEPT ![r] = copy[r]]
    BY <1>k, <1>8 DEF Builds!PublishCopy, Builds!Go, Builds!Put, was
  <2>2. e \in EntryOf /\ e.dir = "ours"
        /\ \A field \in {"dir", "pending", "shud"} : was[field] = "foreign" => e[field] = "foreign"
    BY <2>1 DEF EntryOf, Builds!Entry
  <2> HIDE DEF e
  <2>3. QED BY <1>0, <1>1, <2>1, <2>2
<1>9. CASE Builds!Start(r)
  <2>1. /\ rpc[r] = "ready" /\ rpc' = [rpc EXCEPT ![r] = "started"]
        /\ bin' = [bin EXCEPT ![r] = was]
        /\ expected' = [expected EXCEPT ![r] = expected[r]] /\ copy' = [copy EXCEPT ![r] = copy[r]]
    BY <1>k, <1>9 DEF Builds!Start, Builds!Go, Builds!Put
  <2>2. QED BY <1>0, <1>1, <2>1
<1>10. CASE Builds!RunFails(r)
  <2> DEFINE e == IF Builds!RollbackSafe(r) THEN Builds!Empty ELSE was
  <2>1. /\ rpc' = [rpc EXCEPT ![r] = "failed"] /\ bin' = [bin EXCEPT ![r] = e]
        /\ expected' = [expected EXCEPT ![r] = expected[r]] /\ copy' = [copy EXCEPT ![r] = copy[r]]
    BY <1>k, <1>0, <1>10 DEF Builds!RunFails, Builds!Go, Builds!Put
  <2>2. \A field \in {"dir", "pending", "shud"} : was[field] = "foreign" => e[field] = "foreign"
    BY OnlyOwn DEF was
  <2>3. e \in EntryOf /\ (e.dir = "none" => e.pending = "none" /\ e.shud = "none")
    BY <1>k, <1>0 DEF EntryOf, Builds!Entry, Builds!Empty
  <2> HIDE DEF e
  <2>4. QED BY <1>0, <1>1, <2>1, <2>2, <2>3
<1>11. QED BY <1>2, <1>3, <1>4, <1>5, <1>6, <1>7, <1>8, <1>9, <1>10 DEF RunStep

(* Every step keeps the second.                                             *)
LEMMA CopiesStep ==
  ASSUME CopiesInv, Builds!Next \/ UNCHANGED buildVars
  PROVE  CopiesInv'
<1>1. CASE UNCHANGED <<bin, rpc, expected, copy>>
  BY <1>1 DEF CopiesInv
<1>2. ASSUME NEW r \in Runs, RunStep(r) PROVE CopiesInv'
  BY <1>2, RunStages
<1>3. CASE Builds!Plant
  <2>1. PICK r \in Runs, field \in {"dir", "pending", "shud"} :
          /\ field # "dir" => bin[r].dir # "none"
          /\ bin' = [bin EXCEPT ![r][field] = "foreign"]
    BY <1>3 DEF Builds!Plant, Builds!Place
  <2>2. UNCHANGED <<rpc, expected, copy>> BY <1>3 DEF Builds!Plant
  <2> DEFINE was == bin[r]
             e == [was EXCEPT ![field] = "foreign"]
  <2>3. /\ bin' = [bin EXCEPT ![r] = e]
        /\ rpc' = [rpc EXCEPT ![r] = rpc[r]] /\ expected' = [expected EXCEPT ![r] = expected[r]]
        /\ copy' = [copy EXCEPT ![r] = copy[r]]
    <3>1. bin' = [bin EXCEPT ![r] = e] BY <2>1
    <3>2. QED BY <2>2, <3>1 DEF CopiesInv
  <2>4. was \in EntryOf /\ (was.dir = "none" => was.pending = "none" /\ was.shud = "none")
    BY DEF CopiesInv, EntryOf
  <2>5. e \in EntryOf /\ (e.dir = "none" => e.pending = "none" /\ e.shud = "none")
    BY <2>1, <2>4 DEF EntryOf, Builds!Entry
  <2>6. /\ rpc[r] \notin {"idle", "failed"} => expected[r] # "none"
        /\ rpc[r] \in {"publish", "ready", "started"} => copy[r] = expected[r]
    BY DEF CopiesInv
  <2> HIDE DEF e
  <2>7. QED BY <2>3, <2>5, <2>6, CopyStep
<1>4. CASE Builds!Crash
  <2>1. /\ bin' = bin /\ expected' = expected /\ copy' = copy
        /\ rpc' = [r \in Runs |-> IF rpc[r] \in {"idle", "started"} THEN rpc[r] ELSE "failed"]
    BY <1>4 DEF Builds!Crash
  <2>2. QED BY <2>1 DEF CopiesInv
<1>5. CASE \E b \in Builders : \/ Builds!Reserve(b) \/ Builds!Collide(b) \/ Builds!Make(b)
                              \/ Builds!HashBinary(b) \/ Builds!Probe(b) \/ Builds!Recheck(b)
                              \/ Builds!Commit(b) \/ Builds!BuildFails(b)
  BY <1>1, <1>5 DEF Builds!Reserve, Builds!Collide, Builds!Make, Builds!HashBinary, Builds!Probe,
     Builds!Recheck, Builds!Commit, Builds!BuildFails, Builds!runVars
<1>6. CASE Builds!ReplaceTmp \/ Builds!ReplaceFinal \/ Builds!EditBinary
  BY <1>1, <1>6 DEF Builds!ReplaceTmp, Builds!ReplaceFinal, Builds!EditBinary, Builds!runVars
<1>7. CASE UNCHANGED buildVars
  BY <1>1, <1>7 DEF buildVars
<1>8. QED
  BY <1>2, <1>3, <1>4, <1>5, <1>6, <1>7 DEF Builds!Next, RunStep

(* No clean-up takes away a file that somebody else put in place, as an action. *)
Spared ==
  meddling' = meddling =>
    /\ \A i \in Ids : /\ tmp[i] = "foreign" => tmp'[i] = "foreign"
                      /\ final[i] = "foreign" => final'[i] = "foreign"
    /\ \A r \in Runs, field \in {"dir", "pending", "shud"} :
         bin[r][field] = "foreign" => bin'[r][field] = "foreign"

(* Every step spares them.                                                  *)
LEMMA SparesStep ==
  ASSUME StoresInv, CopiesInv, Builds!Next \/ UNCHANGED buildVars
  PROVE  Spared
<1>1. CASE UNCHANGED <<tmp, final, bin>>
  BY <1>1 DEF Spared
<1>2. ASSUME NEW r \in Runs, RunStep(r) PROVE Spared
  <2>1. UNCHANGED <<tmp, final>>
    BY <1>2 DEF RunStep, Builds!VerifyBinary, Builds!MakeBin, Builds!OpenSource, Builds!CreateCopy,
       Builds!CopyBytes, Builds!HashCopy, Builds!PublishCopy, Builds!Start, Builds!RunFails,
       Builds!storeVars
  <2>2. QED BY <1>2, <2>1, RunStages DEF Spared
<1>3. CASE Builds!Meddle
  BY <1>3 DEF Builds!Meddle, StoresInv, Spared
<1>4. ASSUME NEW i, tmp[i] # "foreign", NEW o, tmp' = [tmp EXCEPT ![i] = o],
             NEW p, final' = final \/ (final[i] # "foreign" /\ final' = [final EXCEPT ![i] = p]),
             UNCHANGED bin
      PROVE  Spared
  BY <1>4 DEF Spared, StoresInv, StoresTyped
<1>5. ASSUME NEW b \in Builders, Builds!Reserve(b) PROVE Spared
  <2>1. PICK i \in Ids : tmp[i] = "none" /\ tmp' = [tmp EXCEPT ![i] = b]
    BY <1>5 DEF Builds!Reserve, Builds!Absent, Builds!Put
  <2>2. UNCHANGED <<final, bin>> BY <1>5 DEF Builds!Reserve, Builds!runVars
  <2>3. QED BY <1>4, <2>1, <2>2
<1>6. ASSUME NEW b \in Builders, Builds!Commit(b) PROVE Spared
  <2>1. /\ tmp[id[b]] = b /\ tmp' = [tmp EXCEPT ![id[b]] = "none"]
        /\ final[id[b]] = "none" /\ final' = [final EXCEPT ![id[b]] = b] /\ UNCHANGED bin
    BY <1>6 DEF Builds!Commit, Builds!Owned, Builds!Put, Builds!runVars
  <2>2. b # "foreign" BY FilesAssumption
  <2>3. QED BY <1>4, <2>1, <2>2
<1>7. ASSUME NEW b \in Builders, Builds!BuildFails(b) PROVE Spared
  <2>1. UNCHANGED <<final, bin>> BY <1>7 DEF Builds!BuildFails, Builds!runVars
  <2>2. CASE tmp[id[b]] = b
    <3>1. b # "foreign" /\ tmp' = [tmp EXCEPT ![id[b]] = "none"]
      BY <1>7, <2>2, FilesAssumption DEF Builds!BuildFails, Builds!Owned, Builds!Put
    <3>2. QED BY <1>4, <2>1, <2>2, <3>1
  <2>3. CASE tmp[id[b]] # b
    <3>1. tmp' = tmp BY <1>7, <2>3 DEF Builds!BuildFails, Builds!Owned
    <3>2. QED BY <1>1, <2>1, <3>1
  <2>4. QED BY <2>2, <2>3
<1>8. ASSUME NEW b \in Builders,
             \/ Builds!Collide(b) \/ Builds!Make(b) \/ Builds!HashBinary(b) \/ Builds!Probe(b)
             \/ Builds!Recheck(b)
      PROVE  Spared
  BY <1>1, <1>8 DEF Builds!Collide, Builds!Make, Builds!HashBinary, Builds!Probe, Builds!Recheck,
     Builds!storeVars, Builds!runVars
<1>9. CASE Builds!ReplaceTmp \/ Builds!ReplaceFinal \/ Builds!EditBinary \/ Builds!Plant \/ Builds!Crash
  BY <1>3, <1>9 DEF Builds!ReplaceTmp, Builds!ReplaceFinal, Builds!EditBinary, Builds!Plant,
                    Builds!Crash
<1>10. CASE UNCHANGED buildVars
  BY <1>1, <1>10 DEF buildVars
<1>11. QED
  BY <1>2, <1>5, <1>6, <1>7, <1>8, <1>9, <1>10 DEF Builds!Next, RunStep

(* A build that appears is complete, a run starts the bytes its record names,   *)
(* and no clean-up of either removes what somebody else put in place of its    *)
(* files (shud-build.ts, workspace-records.ts).                              *)
THEOREM BuildsStayIntact == PartSpec => BuildsIntact
<1>1. PartInit => StoresInv /\ CopiesInv BY StoresInit, CopiesInit DEF PartInit
<1>2. [PartNext]_partVars => Builds!Next \/ UNCHANGED buildVars
  BY DEF PartNext, partVars
<1>3. StoresInv /\ CopiesInv /\ [PartNext]_partVars => StoresInv' /\ CopiesInv'
  BY <1>2, StoresStep, CopiesStep
<1>4. StoresInv /\ CopiesInv => Builds!FinalIsComplete /\ Builds!RunsRecordedBinary
  BY StoresKeep, CopiesKeep
<1>5. StoresInv /\ CopiesInv /\ [PartNext]_partVars => [Spared]_Builds!vars
  BY <1>2, SparesStep
<1>6. QED BY <1>1, <1>3, <1>4, <1>5, PTL DEF PartSpec, BuildsIntact, Builds!SparesForeign, Spared

-----------------------------------------------------------------------------
(* The birth of a process (ProcessBirth).                                   *)

(* Integer division, and the products the provers do not find.              *)
LEMMA Division ==
  ASSUME NEW n \in Int, NEW d \in Nat \ {0}
  PROVE  /\ n \div d \in Int
         /\ (n \div d) * d =< n /\ n < (n \div d) * d + d
OBVIOUS

(* Products keep the order and distribute, as far as the provers need it.   *)
LEMMA Times ==
  ASSUME NEW x \in Int, NEW y \in Int, NEW d \in Nat \ {0}
  PROVE  /\ x * d \in Int
         /\ x < y => x * d < y * d
         /\ x =< y => x * d =< y * d
         /\ x * d < y * d => x < y
         /\ (x + y) * d = x * d + y * d
         /\ (x - y) * d = x * d - y * d
OBVIOUS

(* The factors of a product can change places.                              *)
LEMMA Swapped ==
  ASSUME NEW x \in Int, NEW y \in Int, NEW z \in Int
  PROVE  (x * y) * z = (x * z) * y
OBVIOUS

(* What a ceiling is not below.                                             *)
LEMMA CeilingBounds ==
  ASSUME NEW n \in Int, NEW d \in Nat \ {0}
  PROVE  /\ Ceiling(n, d) \in Int
         /\ n =< Ceiling(n, d) * d
<1> DEFINE q == (-n) \div d
<1>1. q \in Int /\ q * d =< -n BY Division
<1>2. Ceiling(n, d) = -q BY DEF Ceiling
<1> HIDE DEF q
<1>3. (-q) * d = -(q * d) BY <1>1
<1>4. QED BY <1>1, <1>2, <1>3

(* The bound taken at the end of the bracket is not before the birth.        *)
LEMMA EndBounds ==
  ASSUME NEW P \in Nat \ {0}, NEW H \in Nat \ {0}, NEW w \in Int, NEW y \in Int,
         NEW b \in Int, NEW e \in Int, b < w * P, e * H < y * P
  PROVE  (b + e) * H < (Ceiling(w * H + y, H) * P) * H
<1> DEFINE L == Ceiling(w * H + y, H)
<1>1. w * H \in Int /\ w * H + y \in Int BY Times
<1>2. L \in Int /\ w * H + y =< L * H BY <1>1, CeilingBounds
<1> HIDE DEF L
<1>3. L * H \in Int /\ L * P \in Int /\ w * P \in Int /\ y * P \in Int BY <1>2, Times
<1>4. (w * H + y) * P =< (L * H) * P BY <1>1, <1>2, <1>3, Times
<1>5. (w * H + y) * P = (w * H) * P + y * P BY <1>1, Times
<1>6. (L * H) * P = (L * P) * H /\ (w * H) * P = (w * P) * H BY <1>2, Swapped
<1>7. b * H < (w * P) * H BY <1>3, Times
<1>8. (b + e) * H = b * H + e * H BY Times
<1>9. b * H \in Int /\ e * H \in Int /\ (w * P) * H \in Int /\ (L * P) * H \in Int BY <1>3, Times
<1>10. QED BY <1>3, <1>4, <1>5, <1>6, <1>7, <1>8, <1>9 DEF L

(* The bound taken at its beginning is not later than the birth by more than   *)
(* what the counters cut off.                                              *)
LEMMA BeginBounds ==
  ASSUME NEW P \in Nat \ {0}, NEW H \in Nat \ {0}, NEW C \in Nat, NEW S \in Nat,
         NEW w \in Int, NEW y \in Int,
         NEW b \in Int, NEW e \in Int, w * P < b + C * P, y * P =< e * H + S * P
  PROVE  ((((w * H + y) \div H) - C) * P) * H - S * P < (b + e) * H
<1> DEFINE L == (w * H + y) \div H
<1>1. w * H \in Int /\ w * H + y \in Int BY Times
<1>2. L \in Int /\ L * H =< w * H + y BY <1>1, Division
<1> HIDE DEF L
<1>3. /\ L * H \in Int /\ L * P \in Int /\ w * P \in Int /\ y * P \in Int
      /\ C * P \in Int /\ S * P \in Int
  BY <1>2, Times
<1>4. (L * H) * P =< (w * H + y) * P BY <1>1, <1>2, <1>3, Times
<1>5. (w * H + y) * P = (w * H) * P + y * P BY <1>1, Times
<1>6. (L * H) * P = (L * P) * H /\ (w * H) * P = (w * P) * H BY <1>2, Swapped
<1>7. (w * P) * H < (b + C * P) * H BY <1>3, Times
<1>8. (b + C * P) * H = b * H + (C * P) * H /\ (b + e) * H = b * H + e * H BY <1>3, Times
<1>9. /\ b * H \in Int /\ e * H \in Int /\ (w * P) * H \in Int /\ (L * P) * H \in Int
      /\ (C * P) * H \in Int
  BY <1>3, Times
<1>10. ((L - C) * P) * H = (L * P) * H - (C * P) * H
  <2>1. (L - C) * P = L * P - C * P BY <1>2, Times
  <2>2. QED BY <1>3, <2>1, Times
<1>11. QED BY <1>3, <1>4, <1>5, <1>6, <1>7, <1>8, <1>9, <1>10 DEF L

(* The readings of a sample that is valid bracket the true clock.           *)
Sampled ==
  /\ boot \in Int /\ birth \in Int /\ submission \in Int
  /\ sample \in [ticks : Int, uptimeBefore : Int, uptimeAfter : Int, wallBefore : Int, wallAfter : Int]
  /\ birth * Hz < UpperTick(sample) * Parts
  /\ UpperTick(sample) * Parts =< birth * Hz + SecondMs * Parts
  /\ boot < (sample.wallAfter + 1 - sample.uptimeBefore * CentisecondMs) * Parts
  /\ (sample.wallBefore - sample.uptimeAfter * CentisecondMs) * Parts < boot + CentisecondMs * Parts

(* A verdict rests on a sample that was taken as the code takes it.         *)
BirthsInv == (verdict # "none" => Sampled) /\ AdoptionSound

(* No verdict has been reached at the start.                                *)
LEMMA BirthsInit == Init => BirthsInv
BY DEF Init, BirthsInv, AdoptionSound

(* A new sample brackets the clock.                                         *)
LEMMA Observed == Observe => BirthsInv'
<1> SUFFICES ASSUME Observe PROVE BirthsInv'
  OBVIOUS
<1> DEFINE P == Parts
           S == SecondMs
           C == CentisecondMs
           H == Hz
           bo == boot'
           bi == birth'
           s == sample'
<1>1. P \in Nat \ {0} /\ S \in Nat \ {0} /\ C \in Nat \ {0} /\ H \in Nat \ {0}
  BY ClockAssumption
<1>2. PICK a \in 0..MaxDelay, b \in 0..MaxDelay, c \in 0..MaxDelay, d \in 0..MaxDelay :
        sample' = Sample(birth' + a, birth' + a + b, birth' + a + b + c, birth' + a + b + c + d)
  BY DEF Observe
<1>3. bo \in Int /\ bi \in Int /\ a \in Nat /\ b \in Nat /\ c \in Nat /\ d \in Nat
      /\ verdict' = "sampled"
  BY <1>2 DEF Observe
<1>4. submission' \in Int
  <2>1. PICK n \in Int : submission' = n * S BY DEF Observe
  <2>2. QED BY <1>1, <2>1
<1> DEFINE t == bi + a
           ticks == (bi * H) \div (S * P)
           ub == (t + b) \div (C * P)
           ua == (t + b + c) \div (C * P)
           wb == (bo + t) \div P
           wa == (bo + (t + b + c + d)) \div P
<1>5. s = [ticks |-> ticks, uptimeBefore |-> ub, uptimeAfter |-> ua, wallBefore |-> wb, wallAfter |-> wa]
  BY <1>2 DEF Sample
<1> HIDE DEF P, S, C, H, bo, bi, s
<1>6. S * P \in Nat \ {0} /\ C * P \in Nat \ {0} /\ bi * H \in Int BY <1>1, <1>3
<1>7. /\ t \in Int /\ t + b \in Int /\ t + b + c \in Int /\ bo + t \in Int
      /\ bo + (t + b + c + d) \in Int
  BY <1>3
<1>8. ticks \in Int /\ ticks * (S * P) =< bi * H /\ bi * H < ticks * (S * P) + S * P
  BY <1>6, Division
<1>9. ub \in Int /\ ub * (C * P) =< t + b
  BY <1>6, <1>7, Division
<1>10. ua \in Int /\ t + b + c < ua * (C * P) + C * P
  BY <1>6, <1>7, Division
<1>11. wb \in Int /\ wb * P =< bo + t
  BY <1>1, <1>7, Division
<1>12. wa \in Int /\ bo + (t + b + c + d) < wa * P + P
  BY <1>1, <1>7, Division
<1> HIDE DEF t, ticks, ub, ua, wb, wa
<1>13. /\ ((ticks + 1) * S) * P = ticks * (S * P) + S * P
       /\ (wa + 1 - ub * C) * P = wa * P + P - ub * (C * P)
       /\ (wb - ua * C) * P = wb * P - ua * (C * P)
  <2>1. \A x, y, z \in Int : (x * y) * z = x * (y * z) OBVIOUS
  <2>2. ((ticks + 1) * S) * P = ticks * (S * P) + S * P
    <3>1. (ticks + 1) * S = ticks * S + S BY <1>1, <1>8
    <3>2. (ticks * S + S) * P = (ticks * S) * P + S * P BY <1>1, <1>8
    <3>3. QED BY <1>1, <1>8, <2>1, <3>1, <3>2
  <2>3. (wa + 1 - ub * C) * P = wa * P + P - (ub * C) * P
    BY <1>1, <1>9, <1>12
  <2>4. (wb - ua * C) * P = wb * P - (ua * C) * P
    BY <1>1, <1>10, <1>11
  <2>5. (ub * C) * P = ub * (C * P) /\ (ua * C) * P = ua * (C * P)
    BY <1>1, <1>9, <1>10, <2>1
  <2>6. QED BY <2>2, <2>3, <2>4, <2>5
<1>14. /\ ticks * (S * P) \in Int /\ S * P \in Int /\ ub * (C * P) \in Int /\ ua * (C * P) \in Int
       /\ wa * P \in Int /\ wb * P \in Int /\ C * P \in Int
  BY <1>1, <1>6, <1>8, <1>9, <1>10, <1>11, <1>12
<1>15. /\ bi * H < ((ticks + 1) * S) * P
       /\ ((ticks + 1) * S) * P =< bi * H + S * P
  BY <1>6, <1>8, <1>13, <1>14
<1>16. bo < (wa + 1 - ub * C) * P
  BY <1>1, <1>3, <1>7, <1>9, <1>12, <1>13, <1>14
<1>17. (wb - ua * C) * P < bo + C * P
  BY <1>3, <1>7, <1>10, <1>11, <1>13, <1>14 DEF t
<1>18. Sampled'
  BY <1>3, <1>4, <1>5, <1>8, <1>9, <1>10, <1>11, <1>12, <1>15, <1>16, <1>17
     DEF Sampled, UpperTick, P, S, C, H, bo, bi, s
<1>19. QED BY <1>3, <1>18 DEF BirthsInv, AdoptionSound

(* A verdict on a sample is sound.                                          *)
LEMMA Judged == BirthsInv /\ Judge => BirthsInv'
<1> SUFFICES ASSUME BirthsInv, Judge PROVE BirthsInv'
  OBVIOUS
<1>1. /\ verdict = "sampled" /\ verdict' = Select(sample)
      /\ UNCHANGED <<boot, birth, submission, sample>>
  BY DEF Judge
<1>2. Sampled /\ Sampled' BY <1>1 DEF BirthsInv, Sampled, UpperTick
<1> DEFINE P == Parts
           S == SecondMs
           C == CentisecondMs
           H == Hz
           y == UpperTick(sample)
           wa == sample.wallAfter + 1 - sample.uptimeBefore * CentisecondMs
           wb == sample.wallBefore - sample.uptimeAfter * CentisecondMs
           Last == Ceiling(wa * H + y, H)
           First == (wb * H + y) \div H
<1>3. P \in Nat \ {0} /\ S \in Nat \ {0} /\ C \in Nat \ {0} /\ H \in Nat \ {0}
  BY ClockAssumption
<1>4. y \in Int /\ wa \in Int /\ wb \in Int BY <1>2, <1>3 DEF Sampled, UpperTick
<1>5. /\ birth * H < y * P /\ y * P =< birth * H + S * P /\ boot < wa * P /\ wb * P < boot + C * P
      /\ boot \in Int /\ birth \in Int /\ submission \in Int
  BY <1>2 DEF Sampled
<1>6. LatestAtEnd(sample) = Last /\ LatestAtBegin(sample) = First
  BY DEF LatestAtEnd, LatestAtBegin
<1>7. Last \in Int /\ First \in Int
  <2> HIDE DEF P, S, C, H, y, wa, wb
  <2>1. wa * H + y \in Int /\ wb * H + y \in Int BY <1>3, <1>4
  <2>2. QED BY <1>3, <2>1, CeilingBounds, Division
<1>8. (boot + birth) * H < (Last * P) * H
  <2> HIDE DEF P, S, C, H, y, wa, wb
  <2>1. QED BY <1>3, <1>4, <1>5, EndBounds
<1>9. ((First - C) * P) * H - S * P < (boot + birth) * H
  <2> HIDE DEF P, S, C, H, y, wa, wb
  <2>1. QED BY <1>3, <1>4, <1>5, BeginBounds
<1> HIDE DEF P, S, C, H, y, wa, wb, Last, First
<1>10. ASSUME verdict' = "older" PROVE boot + birth < submission * P
  <2>1. Last < submission
    BY <1>1, <1>5, <1>6, <1>7, <1>10 DEF Select
  <2>2. Last * P < submission * P /\ Last * P \in Int /\ submission * P \in Int
    BY <1>3, <1>5, <1>7, <2>1, Times
  <2>3. boot + birth < Last * P
    BY <1>3, <1>5, <1>8, <2>2, Times
  <2>4. QED BY <1>5, <2>2, <2>3
<1>11. ASSUME verdict' = "adopt"
       PROVE  (boot + birth) * H > ((submission - C) * P) * H - S * P
  <2>1. submission =< First
    BY <1>1, <1>5, <1>6, <1>7, <1>11 DEF Select, Straddles
  <2>2. submission - C =< First - C /\ submission - C \in Int /\ First - C \in Int
    BY <1>3, <1>5, <1>7, <2>1
  <2>3. /\ (submission - C) * P =< (First - C) * P /\ (submission - C) * P \in Int
        /\ (First - C) * P \in Int
    BY <1>3, <2>2, Times
  <2>4. /\ ((submission - C) * P) * H =< ((First - C) * P) * H
        /\ ((submission - C) * P) * H \in Int /\ ((First - C) * P) * H \in Int
    BY <1>3, <2>3, Times
  <2>5. S * P \in Int /\ (boot + birth) * H \in Int BY <1>3, <1>5
  <2>6. QED BY <1>9, <2>4, <2>5
<1>12. AdoptionSound'
  BY <1>1, <1>10, <1>11 DEF AdoptionSound, Born, P, S, C, H
<1>13. QED BY <1>2, <1>12 DEF BirthsInv

(* Every step keeps the invariant.                                          *)
LEMMA BirthsStep ==
  ASSUME BirthsInv, Next \/ UNCHANGED vars
  PROVE  BirthsInv'
<1>1. CASE UNCHANGED vars
  BY <1>1 DEF vars, BirthsInv, Sampled, AdoptionSound, UpperTick, Born
<1>2. QED BY <1>1, Observed, Judged DEF Next

(* A process that is taken for older than the submission is, and one that is   *)
(* adopted was not born longer before it than the counters cut off, for every   *)
(* length of a tick, a centisecond and a second and every delay between the     *)
(* samples (process-birth.ts).                                             *)
THEOREM AdoptionIsSound == PartSpec => []AdoptionSound
<1>1. PartInit => BirthsInv BY BirthsInit DEF PartInit
<1>2. [PartNext]_partVars => Next \/ UNCHANGED vars BY DEF PartNext, partVars
<1>3. BirthsInv /\ [PartNext]_partVars => BirthsInv' BY <1>2, BirthsStep
<1>4. BirthsInv => AdoptionSound BY DEF BirthsInv
<1>5. QED BY <1>1, <1>3, <1>4, PTL DEF PartSpec

-----------------------------------------------------------------------------
(* The stdout cursor (StdoutCursor).                                        *)

(* The order of the natural numbers.                                        *)
Less == {ss \in Nat \X Nat : ss[1] < ss[2]}

(* Every set of them that is not empty has a least one: the order is well   *)
(* founded.                                                                 *)
LEMMA Least ==
  ASSUME NEW T \in SUBSET Nat, T # {}
  PROVE  \E n \in T : \A m \in T : n =< m
<1>1. IsWellFoundedOn(Less, Nat)
  BY NatLessThanWellFounded DEF OpToRel, Less
<1>2. PICK n \in T : \A m \in T : ~(<<m, n>> \in Less)
  <2> HIDE DEF Less
  <2> QED BY <1>1, WFMin
<1>3. ASSUME NEW m \in T PROVE n =< m
  <2>1. <<m, n>> \in Nat \X Nat /\ ~(<<m, n>> \in Less) BY <1>2
  <2>2. ~(m < n) BY <2>1 DEF Less
  <2>3. QED BY <2>2
<1>4. QED BY <1>3

(* A byte, by the length of the sequence it begins; 0 continues one.        *)
Bytes == 0..4

(* The elements of a part of a sequence.                                    *)
LEMMA Part ==
  ASSUME NEW q \in Seq(Bytes), NEW m \in Nat, NEW n \in Nat, m =< n, n =< Len(q)
  PROVE  LET s == SubSeq(q, m + 1, n)
         IN /\ s \in Seq(Bytes) /\ Len(s) = n - m
            /\ \A i \in 1..n - m : s[i] = q[m + i]
<1> DEFINE s == SubSeq(q, m + 1, n)
<1>1. \A i \in m + 1..n : q[i] \in Bytes BY ElementOfSeq
<1>2. /\ s \in Seq(Bytes)
      /\ Len(s) = IF m + 1 =< n THEN n - (m + 1) + 1 ELSE 0
      /\ \A i \in 1..n - (m + 1) + 1 : s[i] = q[m + 1 + i - 1]
  BY <1>1, SubSeqProperties
<1> HIDE DEF s
<1>3. Len(s) = n - m BY <1>2
<1>4. ASSUME NEW i \in 1..n - m PROVE s[i] = q[m + i]
  <2>1. i \in 1..n - (m + 1) + 1 /\ m + 1 + i - 1 = m + i OBVIOUS
  <2>2. s[i] = q[m + 1 + i - 1] BY <1>2, <2>1
  <2>3. QED BY <2>1, <2>2
<1>5. QED BY <1>2, <1>3, <1>4 DEF s

(* There is a first byte of the last sequence, three bytes before the end at   *)
(* most.                                                                   *)
LEMMA LeadIsThere ==
  ASSUME NEW s \in Seq(Bytes)
  PROVE  /\ Stdout!Lead(s) \in 0..Len(s)
         /\ Stdout!Lead(s) > 0 => s[Stdout!Lead(s)] # 0 \/ Len(s) - Stdout!Lead(s) = 3
         /\ \A j \in Stdout!Lead(s) + 1..Len(s) : s[j] = 0 /\ Len(s) - j < 3
<1> DEFINE n == Len(s)
           T == {i \in 0..n : \A j \in i + 1..n : s[j] = 0 /\ n - j < 3}
<1>1. n \in Nat BY LenProperties
<1> HIDE DEF n
<1>2. n \in T /\ T \in SUBSET Nat BY <1>1
<1>3. PICK i \in T : \A m \in T : i =< m
  <2> HIDE DEF T
  <2> QED BY <1>2, Least
<1>4. i \in 0..n /\ \A j \in i + 1..n : s[j] = 0 /\ n - j < 3 BY <1>3
<1>5. ASSUME i > 0 PROVE s[i] # 0 \/ n - i = 3
  <2>1. i - 1 \in 0..n /\ i - 1 \notin T
    <3>1. ~(i =< i - 1) /\ i - 1 \in 0..n BY <1>1, <1>4, <1>5
    <3> HIDE DEF T
    <3>2. QED BY <1>3, <3>1
  <2>2. PICK j \in i - 1 + 1..n : ~(s[j] = 0 /\ n - j < 3) BY <2>1
  <2>3. j = i BY <1>1, <1>4, <2>2
  <2>4. CASE i = n BY <1>1, <2>2, <2>3, <2>4
  <2>5. CASE i # n
    <3>1. i + 1 \in i + 1..n BY <1>1, <1>4, <2>5
    <3>2. n - (i + 1) < 3 BY <1>4, <3>1
    <3>3. QED BY <1>1, <1>4, <2>2, <2>3, <3>2
  <2>6. QED BY <2>4, <2>5
<1>6. \E l \in 0..Len(s) : /\ l > 0 => s[l] # 0 \/ Len(s) - l = 3
                           /\ \A j \in l + 1..Len(s) : s[j] = 0 /\ Len(s) - j < 3
  BY <1>4, <1>5 DEF n
<1>7. QED BY <1>6 DEF Stdout!Lead

(* It is the first byte of a sequence that is still short.                   *)
LEMMA LeadOfLast ==
  ASSUME NEW s \in Seq(Bytes), NEW i \in 1..Len(s), s[i] # 0, Len(s) - i =< 2,
         \A j \in i + 1..Len(s) : s[j] = 0
  PROVE  Stdout!Lead(s) = i
<1> DEFINE l == Stdout!Lead(s)
           n == Len(s)
<1>1. n \in Nat BY LenProperties
<1>2. /\ l \in 0..n
      /\ l > 0 => s[l] # 0 \/ n - l = 3
      /\ \A j \in l + 1..n : s[j] = 0 /\ n - j < 3
  BY LeadIsThere
<1> HIDE DEF l
<1>3. CASE l > i
  <2>1. s[l] = 0 BY <1>1, <1>2, <1>3
  <2>2. QED BY <1>1, <1>2, <1>3, <2>1
<1>4. CASE l < i
  <2>1. i \in l + 1..n BY <1>1, <1>2, <1>4
  <2>2. QED BY <1>2, <2>1
<1>5. QED BY <1>1, <1>2, <1>3, <1>4 DEF l

(* What a read holds back: three bytes at most, and only the start of a         *)
(* sequence that is not there to its end.                                  *)
LEMMA HeldBack ==
  ASSUME NEW s \in Seq(Bytes)
  PROVE  /\ Stdout!CompletePrefix(s) \in 0..Len(s)
         /\ Stdout!CompletePrefix(s) + 3 >= Len(s)
         /\ Stdout!CompletePrefix(s) # Len(s) => s[Stdout!CompletePrefix(s) + 1] # 0
         /\ Stdout!CompletePrefix(s) = Len(s) =>
              \A i \in 1..Len(s) : s[i] > 1 /\ (\A j \in i + 1..Len(s) : s[j] = 0) => Len(s) - i + 1 >= s[i]
<1> DEFINE l == Stdout!Lead(s)
           n == Len(s)
           p == Stdout!CompletePrefix(s)
<1>1. n \in Nat /\ \A i \in 1..n : s[i] \in 0..4 BY LenProperties, ElementOfSeq DEF Bytes
<1>2. /\ l \in 0..n
      /\ l > 0 => s[l] # 0 \/ n - l = 3
      /\ \A j \in l + 1..n : s[j] = 0 /\ n - j < 3
  BY LeadIsThere
<1>3. p = IF s = <<>> \/ l = 0 THEN n ELSE IF n - l + 1 < s[l] THEN l - 1 ELSE n
  BY DEF Stdout!CompletePrefix
<1> HIDE DEF p
<1>4. s = <<>> <=> n = 0 BY EmptySeq
<1>5. CASE n = 0
  BY <1>1, <1>3, <1>4, <1>5 DEF p
<1>6. CASE n # 0 /\ p = n
  <2>1. ASSUME NEW i \in 1..n, s[i] > 1, \A j \in i + 1..n : s[j] = 0, n - i + 1 < s[i] PROVE FALSE
    <3>1. n - i =< 2 /\ s[i] # 0 BY <1>1, <2>1
    <3>2. l = i BY <2>1, <3>1, LeadOfLast
    <3> HIDE DEF l
    <3>3. QED BY <1>1, <1>3, <1>4, <1>6, <2>1, <3>2
  <2>2. QED BY <1>1, <1>6, <2>1 DEF p
<1>7. CASE n # 0 /\ p # n
  <2> HIDE DEF l
  <2>1. l \in 1..n /\ n - l + 1 < s[l] /\ p = l - 1 /\ s[l] \in 0..4
    BY <1>1, <1>2, <1>3, <1>4, <1>7
  <2>2. p \in 0..n /\ p + 3 >= n /\ s[p + 1] # 0 BY <1>1, <2>1
  <2>3. QED BY <1>7, <2>2 DEF p
<1>8. QED BY <1>5, <1>6, <1>7

-----------------------------------------------------------------------------
(* The sequence that begins at i may yet turn out to be whole.               *)
MayBeWhole(q, i) == q[i] > 1 /\ \A j \in i + 1..i + q[i] - 1 : j =< Len(q) => q[j] = 0

(* A cursor is inside no such sequence.                                     *)
Outside(q, c) == \A i \in 1..Len(q) : MayBeWhole(q, i) => ~(c \in i..i + q[i] - 2)

(* The types of what is written and read.                                   *)
StdoutTyped ==
  /\ bytes \in Seq(Bytes) /\ cursor \in 0..Len(bytes)
  /\ read \in [size : Nat, got : Nat]
  /\ read # Stdout!Idle => cursor =< read.got /\ read.got =< read.size /\ read.size =< Len(bytes)

(* The cursor always stands between two characters.                         *)
StdoutInv == StdoutTyped /\ Outside(bytes, cursor)

(* It does at the start.                                                    *)
LEMMA StdoutInit == Stdout!Init => StdoutInv
BY EmptySeq DEF Stdout!Init, Stdout!Idle, StdoutInv, StdoutTyped, Outside

(* The invariant is enough: the next read starts where a character does.    *)
LEMMA StdoutKeep == StdoutInv => ReadsJoin
<1> SUFFICES ASSUME StdoutInv PROVE ReadsJoin
  OBVIOUS
<1>1. \A i \in 1..Len(bytes) : bytes[i] \in 0..4 BY ElementOfSeq DEF StdoutInv, StdoutTyped, Bytes
<1>2. ASSUME NEW i \in DOMAIN bytes, Stdout!Whole(i) PROVE ~(cursor \in i..i + bytes[i] - 2)
  <2>1. i \in 1..Len(bytes) BY LenProperties DEF StdoutInv, StdoutTyped
  <2>2. MayBeWhole(bytes, i) BY <1>2 DEF Stdout!Whole, MayBeWhole
  <2>3. QED BY <2>1, <2>2 DEF StdoutInv, Outside
<1>3. ASSUME read # Stdout!Idle, read.got = read.size
      PROVE  Stdout!CompletePrefix(SubSeq(bytes, cursor + 1, read.got)) + 3 >= read.got - cursor
  <2> DEFINE g == read.got
             s == SubSeq(bytes, cursor + 1, g)
  <2>1. cursor \in Nat /\ g \in Nat /\ cursor =< g /\ g =< Len(bytes) /\ bytes \in Seq(Bytes)
    BY <1>3, LenProperties DEF StdoutInv, StdoutTyped
  <2> HIDE DEF g
  <2>2. s \in Seq(Bytes) /\ Len(s) = g - cursor BY <2>1, Part
  <2> HIDE DEF s
  <2>3. QED BY <2>2, HeldBack DEF s, g
<1>4. QED BY <1>2, <1>3 DEF ReadsJoin, Stdout!ReadsJoin

(* A byte more makes no sequence whole that could not be before.            *)
LEMMA WrittenKeeps ==
  ASSUME NEW q \in Seq(Bytes), NEW b \in Bytes, NEW c \in 0..Len(q), Outside(q, c)
  PROVE  Append(q, b) \in Seq(Bytes) /\ Len(Append(q, b)) = Len(q) + 1 /\ Outside(Append(q, b), c)
<1> DEFINE r == Append(q, b)
<1>1. /\ r \in Seq(Bytes) /\ Len(q) \in Nat /\ Len(r) = Len(q) + 1
      /\ \A i \in 1..Len(q) : r[i] = q[i]
  BY AppendProperties, LenProperties
<1>2. \A i \in 1..Len(r) : r[i] \in 0..4 BY <1>1, ElementOfSeq DEF Bytes
<1> HIDE DEF r
<1>3. ASSUME NEW i \in 1..Len(r), MayBeWhole(r, i) PROVE ~(c \in i..i + r[i] - 2)
  <2>1. CASE i = Len(r) BY <1>1, <2>1
  <2>2. CASE i \in 1..Len(q)
    <3>1. r[i] = q[i] /\ r[i] \in 0..4 BY <1>1, <1>2, <2>2
    <3>2. ASSUME NEW j \in i + 1..i + q[i] - 1, j =< Len(q) PROVE q[j] = 0
      <4>1. j \in 1..Len(q) BY <1>1, <2>2, <3>1, <3>2
      <4>2. r[j] = 0 BY <1>1, <1>3, <3>1, <3>2, <4>1 DEF MayBeWhole
      <4>3. QED BY <1>1, <4>1, <4>2
    <3>3. MayBeWhole(q, i) BY <1>3, <3>1, <3>2 DEF MayBeWhole
    <3>4. QED BY <2>2, <3>1, <3>3 DEF Outside
  <2>3. QED BY <1>1, <2>1, <2>2
<1>4. QED BY <1>1, <1>3 DEF Outside, r

(* A read that returns leaves the cursor outside of every such sequence.      *)
LEMMA ReturnedKeeps ==
  ASSUME NEW q \in Seq(Bytes), NEW c \in Nat, NEW g \in Nat, c =< g, g =< Len(q), Outside(q, c)
  PROVE  LET n == c + Stdout!CompletePrefix(SubSeq(q, c + 1, g))
         IN n \in 0..Len(q) /\ Outside(q, n)
<1> DEFINE s == SubSeq(q, c + 1, g)
           p == Stdout!CompletePrefix(s)
<1>1. s \in Seq(Bytes) /\ Len(s) = g - c /\ \A i \in 1..g - c : s[i] = q[c + i]
  BY Part
<1>2. Len(q) \in Nat /\ \A i \in 1..Len(q) : q[i] \in 0..4 BY LenProperties, ElementOfSeq DEF Bytes
<1> HIDE DEF s
<1>3. /\ p \in 0..g - c
      /\ p # g - c => s[p + 1] # 0
      /\ p = g - c => \A i \in 1..g - c : s[i] > 1 /\ (\A j \in i + 1..g - c : s[j] = 0) => g - c - i + 1 >= s[i]
  BY <1>1, HeldBack
<1> HIDE DEF p
<1>4. ASSUME NEW i \in 1..Len(q), MayBeWhole(q, i), c + p \in i..i + q[i] - 2 PROVE FALSE
  <2>1. q[i] \in 2..4 BY <1>2, <1>4 DEF MayBeWhole
  <2>2. CASE p # g - c
    <3>1. c + p + 1 \in i + 1..i + q[i] - 1 /\ c + p + 1 =< Len(q) BY <1>2, <1>3, <1>4, <2>1, <2>2
    <3>2. q[c + p + 1] = 0 BY <1>4, <3>1 DEF MayBeWhole
    <3>3. p + 1 \in 1..g - c /\ c + (p + 1) = c + p + 1 BY <1>3, <2>2
    <3>4. QED BY <1>1, <1>3, <2>2, <3>2, <3>3
  <2>3. CASE p = g - c /\ i =< c
    <3>1. c \in i..i + q[i] - 2 BY <1>3, <1>4, <2>1, <2>3
    <3>2. QED BY <1>4, <3>1 DEF Outside
  <2>4. CASE p = g - c /\ i > c
    <3>1. i - c \in 1..g - c /\ c + (i - c) = i BY <1>3, <1>4, <2>1, <2>4
    <3>2. s[i - c] = q[i] BY <1>1, <3>1
    <3>3. ASSUME NEW j \in i - c + 1..g - c PROVE s[j] = 0
      <4>1. j \in 1..g - c /\ c + j \in i + 1..i + q[i] - 1 /\ c + j =< Len(q)
        BY <1>2, <1>3, <1>4, <2>1, <2>4, <3>1
      <4>2. QED BY <1>1, <1>4, <4>1 DEF MayBeWhole
    <3>4. g - c - (i - c) + 1 >= q[i] BY <1>3, <2>1, <2>4, <3>1, <3>2, <3>3
    <3>5. QED BY <1>3, <1>4, <2>1, <2>4, <3>4
  <2>5. QED BY <2>2, <2>3, <2>4
<1>5. QED BY <1>2, <1>3, <1>4 DEF Outside, s, p

(* Every step keeps the invariant.                                          *)
LEMMA StdoutStep ==
  ASSUME StdoutInv, Stdout!Next \/ UNCHANGED stdoutVars
  PROVE  StdoutInv'
<1>1. CASE UNCHANGED stdoutVars
  BY <1>1 DEF stdoutVars, StdoutInv, StdoutTyped
<1>2. CASE Stdout!Written
  <2>1. PICK b \in 0..4 : bytes' = Append(bytes, b) BY <1>2 DEF Stdout!Written
  <2>2. UNCHANGED <<cursor, read>> BY <1>2 DEF Stdout!Written
  <2>3. /\ bytes' \in Seq(Bytes) /\ Len(bytes') = Len(bytes) + 1 /\ Outside(bytes', cursor)
        /\ Len(bytes) \in Nat
    BY <2>1, WrittenKeeps, LenProperties DEF StdoutInv, StdoutTyped, Bytes
  <2>4. QED BY <2>2, <2>3 DEF StdoutInv, StdoutTyped
<1>3. CASE Stdout!Opened
  <2>1. /\ read' = [size |-> Len(bytes), got |-> cursor] /\ UNCHANGED <<bytes, cursor>>
        /\ Len(bytes) \in Nat /\ cursor \in 0..Len(bytes)
    BY <1>3, LenProperties DEF Stdout!Opened, StdoutInv, StdoutTyped
  <2>2. QED BY <2>1 DEF StdoutInv, StdoutTyped
<1>4. CASE Stdout!ReadSome
  <2>1. PICK n \in read.got + 1..read.size : read' = [read EXCEPT !.got = n]
    BY <1>4 DEF Stdout!ReadSome
  <2>2. read # Stdout!Idle /\ UNCHANGED <<bytes, cursor>> BY <1>4 DEF Stdout!ReadSome
  <2>3. read'.got = n /\ read'.size = read.size /\ n \in Nat /\ read' \in [size : Nat, got : Nat]
    BY <2>1 DEF StdoutInv, StdoutTyped
  <2>4. cursor =< n /\ n =< read.size /\ read.size =< Len(bytes)
    BY <2>1, <2>2, LenProperties DEF StdoutInv, StdoutTyped
  <2>5. QED BY <2>2, <2>3, <2>4 DEF StdoutInv, StdoutTyped
<1>5. CASE Stdout!Returned
  <2> DEFINE g == read.got
  <2>1. /\ cursor' = cursor + Stdout!CompletePrefix(SubSeq(bytes, cursor + 1, g))
        /\ read' = Stdout!Idle /\ bytes' = bytes
        /\ bytes \in Seq(Bytes) /\ cursor \in Nat /\ g \in Nat /\ cursor =< g /\ g =< Len(bytes)
    BY <1>5, LenProperties DEF Stdout!Returned, StdoutInv, StdoutTyped
  <2> HIDE DEF g
  <2>2. cursor' \in 0..Len(bytes) /\ Outside(bytes, cursor')
    BY <2>1, ReturnedKeeps DEF StdoutInv
  <2>3. QED BY <2>1, <2>2 DEF StdoutInv, StdoutTyped, Stdout!Idle
<1>6. QED BY <1>1, <1>2, <1>3, <1>4, <1>5 DEF Stdout!Next

(* What the reads of stdout return, one after the other, is what the solver  *)
(* wrote, in whole characters, and a read holds back three bytes at most       *)
(* (file-output.ts).                                                      *)
THEOREM ReadsJoinUp == PartSpec => []ReadsJoin
<1>1. PartInit => StdoutInv BY StdoutInit DEF PartInit
<1>2. [PartNext]_partVars => Stdout!Next \/ UNCHANGED stdoutVars BY DEF PartNext, partVars
<1>3. StdoutInv /\ [PartNext]_partVars => StdoutInv' BY <1>2, StdoutStep
<1>4. QED BY <1>1, <1>3, StdoutKeep, PTL DEF PartSpec

-----------------------------------------------------------------------------
(* The records of a workspace (WorkspaceRecords).                           *)

(* How a creation ends that left its file in place.                         *)
Good == {"ok", "committed"}
(* The fields of a call.                                                    *)
Fields == {"pc", "op", "kind", "id", "n", "readonly", "bind", "draws", "seen", "collided", "digest",
           "value", "how"}
(* A file that was written to its end.                                      *)
Whole == [is : {"whole"}, id : Names, patch : Names, origin : Nat, digest : Nat]
(* What may be at a path.                                                   *)
Contents == Whole \cup {Records!Absent, Records!Special, Records!Broken}

(* The records that are linked into place: nothing replaces one.            *)
Kept == Records!Exclusive \cup {"patch"}

(* And they stay what they were.                                            *)
Frozen(fs, fs2) ==
  \A p \in Records!Paths : p[1] \in Kept /\ fs[p].is = "whole" => fs2[p] = fs[p]

(* A file carries the id it is named after (a report need not), comes from a call *)
(* that began, and a patch is the one its change asks for.                  *)
FilesTrue(fs, n) ==
  /\ fs \in [Records!Paths -> Contents]
  /\ \A p \in Records!Paths : fs[p].is = "whole" =>
       /\ fs[p].origin =< n
       /\ p[1] # "report" => fs[p].id = p[2] /\ fs[p].patch = p[2]
  /\ \A i \in Names : fs[<<"patch", i>>].is = "whole" =>
       /\ fs[<<"change", i>>].is = "whole"
       /\ fs[<<"change", i>>].digest = fs[<<"patch", i>>].digest

(* No call that made this file has failed, and none can any more.            *)
Standing(m, tl, cl) ==
  /\ \A t \in tl : t.n = m => t.how \in Good
  /\ \A c \in Callers :
       cl[c].pc # "end" /\ Records!Creates(cl[c]) /\ cl[c].n = m => cl[c].pc = "unlink"

(* The file a creation told is there.                                       *)
Stands(t, fs) ==
  /\ fs[t.path].is = "whole" /\ fs[t.path].id = t.path[2]
  /\ t.path[1] \in Records!Exclusive => fs[t.path].origin = t.n /\ fs[t.path].patch = t.path[2]

(* What was told of a call holds.                                           *)
Truthful(t, fs, n) ==
  /\ t.n \in 1..n /\ t.path \in Records!Paths
  /\ t.how \in Good => t.path[1] \in Records!Flat \cup Kept /\ Stands(t, fs)

(* What a call has made sure of where it stands.                            *)
Late == {"page", "prepare", "commit", "clean", "unlink", "recheck"}
(* Each operation is of the kinds of record it serves.                      *)
OfKind(k) ==
  /\ k.op \in {"flat", "exclusive", "patch", "write", "rewrite", "read"}
  /\ k.op = "flat" => k.kind \in RecordKinds \cap Records!Flat
  /\ k.op = "exclusive" => k.kind \in RecordKinds \cap Records!Exclusive
  /\ k.op = "patch" => k.kind = "patch"
  /\ k.op = "rewrite" => k.kind = "change"
  /\ k.op = "write" => k.kind \in (RecordKinds \cap Records!Mutable) \cup {"page"}
  /\ k.op = "read" => k.kind \in RecordKinds \cup {"page", "patch"}
(* What a call that has not ended has made sure of.                         *)
UnderWay(k, fs) ==
  /\ OfKind(k) /\ k.id \in Names /\ k.digest \in Nat
  /\ k.pc \in {"look", "load"} \cup Late
  /\ k.op = "rewrite" => k.value.is = "whole" /\ fs[<<"change", k.id>>] = k.value
  /\ k.op = "patch" /\ ~k.bind =>
       fs[<<"change", k.id>>].is = "whole" /\ fs[<<"change", k.id>>].digest = k.digest
  /\ k.op = "read" => ~k.bind
  /\ k.bind => k.op \in {"patch", "rewrite"}
  /\ k.pc \in Late => k.op # "read" /\ ~k.bind
  /\ k.pc = "load" => Records!Reads(k)
  /\ k.pc = "page" => k.op = "flat"
  /\ k.pc = "recheck" \/ k.collided => k.op \in {"exclusive", "patch"}
  /\ k.pc = "unlink" => /\ k.op \in {"exclusive", "patch"}
                        /\ fs[<<k.kind, k.id>>] = Records!Value(k)
                        /\ fs[<<k.kind, k.id>>].is = "whole"
(* What a read that succeeded returned.                                     *)
Ended(k) ==
  k.op = "read" /\ k.how = "ok" /\ k.kind \in RecordKinds =>
    k.value.is = "whole" /\ (Records!Bound(k) => k.value.id = k.id)
(* Every call is in order, under way or ended.                              *)
InOrder(k, fs) == IF k.pc = "end" THEN Ended(k) ELSE UnderWay(k, fs)

(* The temporary files of a host are those of its call, unless one was left *)
(* behind.                                                                  *)
KeepsTemps(c, k, ts, litter) ==
  /\ k.pc \in {"look", "load", "page", "prepare", "recheck"} => \A t \in ts : t.owner = c => t.n # k.n
  /\ k.pc = "commit" => \A t \in ts : t.owner = c /\ t.n = k.n =>
                          t = Records!Temporary(c, k, Records!Value(k))
  /\ c \notin litter => \A t \in ts : t.owner = c => k.pc # "end" /\ t.n = k.n

(* Files, calls, temporary files and what was told agree.                   *)
RecordsInv ==
  /\ calls \in Nat /\ FilesTrue(files, calls)
  /\ \A p \in Records!Paths : files[p].is = "whole" => Standing(files[p].origin, told, call)
  /\ call = [c \in Callers |-> call[c]]
  /\ \A c \in Callers : DOMAIN call[c] = Fields /\ InOrder(call[c], files)
  /\ \A c \in Callers : call[c].pc # "end" =>
       /\ call[c].n \in 1..calls /\ \A t \in told : t.n # call[c].n
       /\ \A d \in Callers \ {c} : call[d].pc # "end" => call[d].n # call[c].n
  /\ \A t \in told : Truthful(t, files, calls)
  /\ \A t \in temps : t.n \in Nat /\ t.n =< calls
  /\ \A c \in Callers : KeepsTemps(c, call[c], temps, littered)

(* A whole file has all the fields of one.                                  *)
LEMMA IsWhole == ASSUME NEW x \in Contents, x.is = "whole" PROVE x \in Whole
BY DEF Contents, Records!Absent, Records!Special, Records!Broken

(* Every record has a path, and so have pages and patches.                  *)
LEMMA PathsOfRecords ==
  ASSUME NEW i \in Names
  PROVE  /\ <<"change", i>> \in Records!Paths /\ <<"patch", i>> \in Records!Paths
         /\ <<"page", i>> \in Records!Paths
         /\ \A k \in RecordKinds : <<k, i>> \in Records!Paths
BY FilesAssumption DEF Records!Paths

(* The invariant is enough.                                                 *)
LEMMA RecordsKeep == RecordsInv => RecordsStand
<1> SUFFICES ASSUME RecordsInv PROVE RecordsStand
  OBVIOUS
<1>1. Records!CreatedStands
  BY DEF RecordsInv, Truthful, Stands, Good, Records!CreatedStands
<1>2. Records!FailedLeftNothing
  BY DEF RecordsInv, Standing, Good, Records!FailedLeftNothing
<1>3. Records!PatchMatches
  BY DEF RecordsInv, FilesTrue, Records!PatchMatches
<1>4. Records!ReadsBound
  BY DEF RecordsInv, InOrder, Ended, Records!ReadsBound
<1>5. Records!TempsGone
  BY DEF RecordsInv, KeepsTemps, Records!TempsGone, Records!At
<1>6. QED BY <1>1, <1>2, <1>3, <1>4, <1>5 DEF RecordsStand, Records!RecordsStand

(* It holds of everything a host may find at the start.                     *)
LEMMA RecordsInit == Records!Init => RecordsInv
<1> SUFFICES ASSUME Records!Init PROVE RecordsInv
  OBVIOUS
<1>1. /\ files \in Records!Found /\ temps = {} /\ told = {} /\ littered = {} /\ calls = 0
      /\ call = [c \in Callers |-> Records!Rest]
  BY DEF Records!Init
<1>2. /\ Records!Rest.pc = "end" /\ Records!Rest.op = "none" /\ DOMAIN Records!Rest = Fields
  BY DEF Records!Rest, Fields
<1>3. FilesTrue(files, 0)
  <2> DEFINE first == Records!First
  <2>0. /\ \A i \in Names : Records!File(i, 0, 0) \in Whole /\ Records!File(i, 0, 0).origin = 0
        /\ \A i \in Names : Records!File(i, 0, 0).is = "whole"
        /\ Records!Absent.is = "absent" /\ Records!Broken.is = "broken"
    BY DEF Whole, Records!File, Records!Absent, Records!Broken
  <2>1. CASE files = [p \in Records!Paths |-> Records!Absent]
    BY <2>0, <2>1, PathsOfRecords DEF FilesTrue, Contents
  <2>2. ASSUME NEW k \in RecordKinds,
               files = [p \in Records!Paths |-> IF p = <<k, first>> THEN Records!Broken ELSE Records!Absent]
        PROVE  FilesTrue(files, 0)
    BY <2>0, <2>2, PathsOfRecords DEF FilesTrue, Contents
  <2>3. ASSUME NEW i \in Names,
               files = [p \in Records!Paths |-> IF p = <<"report", first>> THEN Records!File(i, 0, 0)
                                                ELSE Records!Absent]
        PROVE  FilesTrue(files, 0)
    <3>1. files \in [Records!Paths -> Contents] BY <2>0, <2>3 DEF Contents
    <3>2. \A p \in Records!Paths : files[p].is = "whole" => p[1] = "report" /\ files[p].origin = 0
      BY <2>0, <2>3
    <3>3. \A j \in Names : files[<<"patch", j>>].is # "whole" BY <3>2, PathsOfRecords
    <3>4. QED BY <3>1, <3>2, <3>3 DEF FilesTrue
  <2>4. QED BY <1>1, <2>1, <2>2, <2>3 DEF Records!Found
<1>4. QED BY <1>1, <1>2, <1>3 DEF RecordsInv, Standing, InOrder, Ended, KeepsTemps

(* What stays in place keeps every call in order.                            *)
LEMMA CallStays ==
  ASSUME NEW fs \in [Records!Paths -> Contents], NEW fs2, Frozen(fs, fs2),
         NEW k, InOrder(k, fs)
  PROVE  InOrder(k, fs2)
<1>1. CASE k.pc = "end"
  BY <1>1 DEF InOrder
<1>2. CASE k.pc # "end"
  <2>1. UnderWay(k, fs) /\ k.id \in Names
    BY <1>2 DEF InOrder, UnderWay
  <2>2. /\ <<"change", k.id>> \in Records!Paths /\ <<"change", k.id>>[1] \in Kept
    BY <2>1, PathsOfRecords DEF Kept, Records!Exclusive
  <2>3. fs[<<"change", k.id>>].is = "whole" => fs2[<<"change", k.id>>] = fs[<<"change", k.id>>]
    BY <2>2 DEF Frozen
  <2>4. ASSUME k.pc = "unlink"
        PROVE  /\ fs2[<<k.kind, k.id>>] = Records!Value(k)
               /\ fs2[<<k.kind, k.id>>].is = "whole"
    <3>1. /\ fs[<<k.kind, k.id>>] = Records!Value(k) /\ fs[<<k.kind, k.id>>].is = "whole"
          /\ k.op \in {"exclusive", "patch"} /\ OfKind(k)
      BY <2>1, <2>4 DEF UnderWay
    <3>2. <<k.kind, k.id>> \in Records!Paths /\ k.kind \in Kept
      BY <3>1, <2>1 DEF OfKind, Kept, Records!Paths
    <3>3. <<k.kind, k.id>>[1] = k.kind
      OBVIOUS
    <3>4. QED BY <3>1, <3>2, <3>3 DEF Frozen
  <2>5. UnderWay(k, fs2)
    BY <2>1, <2>3, <2>4 DEF UnderWay
  <2>6. QED BY <1>2, <2>5 DEF InOrder
<1>3. QED BY <1>1, <1>2

(* A call goes on or ends.                                                  *)
LEMMA CallMoves ==
  ASSUME RecordsInv, NEW c \in Callers, call[c].pc # "end", NEW k,
         call' = [call EXCEPT ![c] = k], calls' = calls,
         DOMAIN k = Fields, InOrder(k, files'),
         FilesTrue(files', calls), Frozen(files, files'),
         k.pc # "end" => k.n = call[c].n /\ k.op = call[c].op,
         call[c].pc = "unlink" => k.pc \in {"unlink", "end"},
         KeepsTemps(c, k, temps', littered'),
         \A d \in Callers \ {c} : d \in littered => d \in littered',
         \A d \in Callers \ {c} : d \in littered' => d \in littered,
         \A t \in temps' : t \in temps \/ (t.owner = c /\ t.n = call[c].n),
         \A t \in told' : t \in told \/
            /\ t.n = call[c].n /\ k.pc = "end" /\ Truthful(t, files', calls)
            /\ t.how \notin Good => Records!Creates(call[c]) /\ call[c].pc # "unlink",
         \A t \in told : t.how \in Good => Stands(t, files'),
         \A p \in Records!Paths : files'[p].is = "whole" =>
            \/ files[p].is = "whole" /\ files'[p] = files[p]
            \/ /\ files'[p].origin = call[c].n /\ k.pc \in {"unlink", "end"}
               /\ \A t \in told' : t.n = call[c].n => t.how \in Good
  PROVE  RecordsInv'
<1>1. calls' \in Nat /\ FilesTrue(files', calls')
  BY DEF RecordsInv
<1>2. /\ call = [d \in Callers |-> call[d]] /\ call' = [d \in Callers |-> call'[d]]
      /\ call'[c] = k /\ \A d \in Callers \ {c} : call'[d] = call[d]
  BY DEF RecordsInv
<1>3. ASSUME NEW p \in Records!Paths, files'[p].is = "whole"
      PROVE  Standing(files'[p].origin, told', call')
  <2>1. CASE files[p].is = "whole" /\ files'[p] = files[p]
    <3> DEFINE m == files[p].origin
    <3>1. Standing(m, told, call)
      BY <2>1 DEF RecordsInv
    <3>2. ASSUME NEW t \in told', t.n = m PROVE t.how \in Good
      <4>1. CASE t \in told
        BY <3>1, <3>2, <4>1 DEF Standing
      <4>2. CASE t \notin told
        BY <3>1, <3>2, <4>2 DEF Standing
      <4>3. QED BY <4>1, <4>2
    <3>3. ASSUME NEW d \in Callers, call'[d].pc # "end", Records!Creates(call'[d]), call'[d].n = m
          PROVE  call'[d].pc = "unlink"
      <4>1. CASE d # c
        BY <1>2, <3>1, <3>3, <4>1 DEF Standing
      <4>2. CASE d = c
        BY <1>2, <3>1, <3>3, <4>2 DEF Standing, Records!Creates
      <4>3. QED BY <4>1, <4>2
    <3>4. QED BY <2>1, <3>2, <3>3 DEF Standing
  <2>2. CASE /\ files'[p].origin = call[c].n /\ k.pc \in {"unlink", "end"}
             /\ \A t \in told' : t.n = call[c].n => t.how \in Good
    <3>1. \A d \in Callers \ {c} : call'[d].pc # "end" => call'[d].n # call[c].n
      BY <1>2 DEF RecordsInv
    <3>2. QED BY <1>2, <2>2, <3>1 DEF Standing
  <2>3. QED BY <1>3, <2>1, <2>2
<1>4. ASSUME NEW d \in Callers PROVE DOMAIN call'[d] = Fields /\ InOrder(call'[d], files')
  <2>1. CASE d = c
    BY <1>2, <2>1
  <2>2. CASE d # c
    <3>1. /\ DOMAIN call[d] = Fields /\ InOrder(call[d], files)
          /\ files \in [Records!Paths -> Contents]
      BY DEF RecordsInv, FilesTrue
    <3>2. InOrder(call[d], files')
      BY <3>1, CallStays
    <3>3. QED BY <1>2, <2>2, <3>1, <3>2
  <2>3. QED BY <2>1, <2>2
<1>5. ASSUME NEW d \in Callers, call'[d].pc # "end"
      PROVE  /\ call'[d].n \in 1..calls' /\ \A t \in told' : t.n # call'[d].n
             /\ \A e \in Callers \ {d} : call'[e].pc # "end" => call'[e].n # call'[d].n
  <2>1. call'[d].n = call[d].n /\ call[d].pc # "end"
    BY <1>2, <1>5
  <2>2. /\ call[d].n \in 1..calls /\ \A t \in told : t.n # call[d].n
        /\ \A e \in Callers \ {d} : call[e].pc # "end" => call[e].n # call[d].n
    BY <2>1 DEF RecordsInv
  <2>3. ASSUME NEW t \in told' PROVE t.n # call[d].n
    BY <1>2, <1>5, <2>1, <2>2, <2>3
  <2>4. ASSUME NEW e \in Callers \ {d}, call'[e].pc # "end" PROVE call'[e].n # call[d].n
    BY <1>2, <2>2, <2>4
  <2>5. QED BY <2>1, <2>2, <2>3, <2>4
<1>6. ASSUME NEW t \in told' PROVE Truthful(t, files', calls')
  BY <1>6 DEF RecordsInv, Truthful
<1>7. \A t \in temps' : t.n \in Nat /\ t.n =< calls'
  <2>1. call[c].n \in Nat /\ call[c].n =< calls
    BY DEF RecordsInv
  <2>2. QED BY <2>1 DEF RecordsInv
<1>8. ASSUME NEW d \in Callers PROVE KeepsTemps(d, call'[d], temps', littered')
  <2>1. CASE d = c
    BY <1>2, <2>1
  <2>2. CASE d # c
    <3>1. KeepsTemps(d, call[d], temps, littered)
      BY DEF RecordsInv
    <3>2. \A t \in temps' : t.owner = d => t \in temps
      BY <2>2
    <3>3. QED BY <1>2, <2>2, <3>1, <3>2 DEF KeepsTemps
  <2>3. QED BY <2>1, <2>2
<1>9. QED BY <1>1, <1>2, <1>3, <1>4, <1>5, <1>6, <1>7, <1>8 DEF RecordsInv

(* Moving on changes only where a call stands.                              *)
LEMMA FieldsOf ==
  ASSUME NEW k, DOMAIN k = Fields, NEW p
  PROVE  LET m == [k EXCEPT !.pc = p]
         IN /\ DOMAIN m = Fields /\ m.pc = p
            /\ m.op = k.op /\ m.kind = k.kind /\ m.id = k.id /\ m.n = k.n /\ m.readonly = k.readonly
            /\ m.bind = k.bind /\ m.draws = k.draws /\ m.seen = k.seen
            /\ m.collided = k.collided /\ m.digest = k.digest /\ m.value = k.value /\ m.how = k.how
BY DEF Fields

(* A call goes on, and the files stay as they are.                          *)
LEMMA CallGoes ==
  ASSUME RecordsInv, NEW c \in Callers, call[c].pc \notin {"end", "unlink"}, NEW k, NEW p, p # "end",
         Records!Goes(c, k, p), DOMAIN k = Fields, k.n = call[c].n, k.op = call[c].op,
         UnderWay([k EXCEPT !.pc = p], files), UNCHANGED <<files, calls, littered>>,
         KeepsTemps(c, [k EXCEPT !.pc = p], temps', littered),
         \A t \in temps' : t \in temps \/ (t.owner = c /\ t.n = call[c].n)
  PROVE  RecordsInv'
<1> DEFINE m == [k EXCEPT !.pc = p]
<1>1. DOMAIN m = Fields /\ m.pc = p /\ m.op = k.op /\ m.n = k.n
  BY FieldsOf
<1>2. UnderWay(m, files) /\ KeepsTemps(c, m, temps', littered)
  OBVIOUS
<1>3. call' = [call EXCEPT ![c] = m] /\ told' = told
  BY DEF Records!Goes
<1> HIDE DEF m
<1>4. InOrder(m, files') /\ Frozen(files, files') /\ FilesTrue(files', calls)
  BY <1>1, <1>2 DEF InOrder, Frozen, RecordsInv
<1>5. \A t \in told : t.how \in Good => Stands(t, files')
  BY DEF RecordsInv, Truthful
<1>6. QED BY <1>1, <1>2, <1>3, <1>4, <1>5, CallMoves

(* A call ends before it has linked or renamed its file into place.         *)
LEMMA CallEnds ==
  ASSUME RecordsInv, NEW c \in Callers, call[c].pc \notin {"end", "unlink"}, NEW k, NEW how,
         Records!Ends(c, k, how), DOMAIN k = Fields,
         k.n = call[c].n, k.op = call[c].op, k.kind = call[c].kind, k.id = call[c].id,
         k.op = "read" => Ended([k EXCEPT !.pc = "end", !.how = how]),
         k.op = "read" \/ how \notin Good,
         UNCHANGED <<files, calls>>, \A t \in temps' : t \in temps,
         c \in littered' \/ \A t \in temps' : t.owner # c,
         \A d \in Callers \ {c} : d \in littered => d \in littered',
         \A d \in Callers \ {c} : d \in littered' => d \in littered
  PROVE  RecordsInv'
<1> DEFINE m == IF k.op = "read" THEN [k EXCEPT !.pc = "end", !.how = how] ELSE Records!Rest
           new == [n |-> k.n, how |-> how, path |-> <<k.kind, k.id>>]
<1>1. DOMAIN m = Fields /\ m.pc = "end"
  BY DEF Fields, Records!Rest
<1>2. Ended(m)
  BY DEF Ended, Records!Rest
<1>3. call' = [call EXCEPT ![c] = m]
  BY DEF Records!Ends
<1>4. \A t \in told' : t \in told \/ (Records!Creates(k) /\ t = new)
  BY DEF Records!Ends
<1>5. UnderWay(call[c], files) /\ call[c].n \in 1..calls
  BY DEF RecordsInv, InOrder
<1>6. ASSUME Records!Creates(k)
      PROVE  Truthful(new, files, calls) /\ new.how \notin Good /\ Records!Creates(call[c])
  <2>1. <<k.kind, k.id>> \in Records!Paths
    BY <1>5, <1>6 DEF UnderWay, OfKind, Records!Creates, Records!Paths
  <2>2. QED BY <1>5, <1>6, <2>1 DEF Truthful, Records!Creates
<1>7. new.n = call[c].n
  OBVIOUS
<1> HIDE DEF m, new
<1>8. InOrder(m, files') /\ Frozen(files, files') /\ FilesTrue(files', calls)
  BY <1>1, <1>2 DEF InOrder, Frozen, RecordsInv
<1>9. \A t \in told : t.how \in Good => Stands(t, files')
  BY DEF RecordsInv, Truthful
<1>10. KeepsTemps(c, m, temps', littered')
  BY <1>1 DEF KeepsTemps
<1>11. \A t \in told' : t \in told \/
         /\ t.n = call[c].n /\ m.pc = "end" /\ Truthful(t, files', calls)
         /\ t.how \notin Good => Records!Creates(call[c]) /\ call[c].pc # "unlink"
  BY <1>1, <1>4, <1>6, <1>7
<1>12. QED BY <1>1, <1>3, <1>8, <1>9, <1>10, <1>11, CallMoves

(* A call of a host that has left nothing has no temporary file before it     *)
(* writes one.                                                              *)
LEMMA NoTemps ==
  ASSUME RecordsInv, NEW c \in Callers, call[c].pc \in {"look", "load", "page", "prepare", "recheck"}
  PROVE  /\ \A t \in temps : t.owner = c => t.n # call[c].n
         /\ c \in littered \/ \A t \in temps : t.owner # c
BY DEF RecordsInv, KeepsTemps

(* A call looks for something else, and touches nothing.                    *)
LEMMA LooksOn ==
  ASSUME RecordsInv, NEW c \in Callers, call[c].pc \in {"look", "load", "page", "prepare", "recheck"},
         NEW k, NEW p, p \in {"look", "load", "page", "prepare"},
         Records!Goes(c, k, p), DOMAIN k = Fields, k.n = call[c].n, k.op = call[c].op,
         UnderWay([k EXCEPT !.pc = p], files), UNCHANGED <<files, temps, calls, littered>>
  PROVE  RecordsInv'
<1> DEFINE m == [k EXCEPT !.pc = p]
<1>1. m.pc = p /\ m.n = k.n
  BY FieldsOf
<1>2. KeepsTemps(c, m, temps, littered)
  BY <1>1, NoTemps DEF KeepsTemps
<1>3. QED BY <1>2, CallGoes

(* It gives up while it has touched nothing.                                *)
LEMMA LooksEnd ==
  ASSUME RecordsInv, NEW c \in Callers, call[c].pc \in {"look", "load", "page", "prepare", "recheck"},
         NEW how, how \notin Good, Records!Ends(c, call[c], how),
         UNCHANGED <<files, temps, calls, littered>>
  PROVE  RecordsInv'
<1>1. DOMAIN call[c] = Fields
  BY DEF RecordsInv
<1>2. Ended([call[c] EXCEPT !.pc = "end", !.how = how])
  BY <1>1 DEF Ended, Good, Fields
<1>3. QED BY <1>1, <1>2, NoTemps, CallEnds

(* It draws another id, or gives up.                                        *)
LEMMA DrawsAgain ==
  ASSUME RecordsInv, NEW c \in Callers, call[c].pc \in {"look", "page", "recheck"},
         Records!Creates(call[c]), ~call[c].bind, Records!Draw(c, call[c]),
         UNCHANGED <<files, temps, calls, littered>>
  PROVE  RecordsInv'
<1> DEFINE k == call[c]
<1>1. UnderWay(k, files) /\ DOMAIN k = Fields
  BY DEF RecordsInv, InOrder
<1>2. CASE k.op = "patch" \/ k.draws = 4
  BY <1>2, LooksEnd DEF Records!Draw, Good
<1>3. CASE ~(k.op = "patch" \/ k.draws = 4)
  <2>1. PICK i \in Names :
          Records!Goes(c, [k EXCEPT !.id = i, !.draws = IF Records!Linked(k) THEN @ + 1 ELSE @,
                                    !.collided = FALSE, !.seen = FALSE], "look")
    BY <1>3 DEF Records!Draw
  <2> DEFINE d == [k EXCEPT !.id = i, !.draws = IF Records!Linked(k) THEN @ + 1 ELSE @,
                            !.collided = FALSE, !.seen = FALSE]
             m == [d EXCEPT !.pc = "look"]
  <2>2. /\ DOMAIN d = Fields /\ d.op = k.op /\ d.kind = k.kind /\ d.id = i /\ d.n = k.n
        /\ d.bind = k.bind /\ d.collided = FALSE /\ d.digest = k.digest
    BY <1>1 DEF Fields
  <2>3. Records!Goes(c, d, "look")
    BY <2>1
  <2> HIDE DEF d
  <2>4. /\ m.pc = "look" /\ m.op = k.op /\ m.kind = k.kind /\ m.id = i
        /\ m.bind = k.bind /\ m.collided = FALSE /\ m.digest = k.digest
    BY <2>2, FieldsOf
  <2>5. k.op \in {"flat", "exclusive"}
    BY <1>3 DEF Records!Creates
  <2> HIDE DEF m
  <2>6. UnderWay(m, files)
    BY <1>1, <2>4, <2>5 DEF UnderWay, OfKind, Late
  <2>7. QED BY <2>2, <2>3, <2>6, LooksOn DEF m
<1>4. QED BY <1>2, <1>3

(* What is known of a call that has not ended.                              *)
LEMMA CallIs ==
  ASSUME RecordsInv, NEW c \in Callers, call[c].pc # "end"
  PROVE  /\ DOMAIN call[c] = Fields /\ UnderWay(call[c], files) /\ call[c].n \in 1..calls
         /\ call[c].id \in Names
         /\ <<call[c].kind, call[c].id>> \in Records!Paths
         /\ Records!Target(call[c]) \in Records!Paths
         /\ files \in [Records!Paths -> Contents]
<1> DEFINE k == call[c]
<1>1. DOMAIN k = Fields /\ UnderWay(k, files) /\ k.n \in 1..calls
  BY DEF RecordsInv, InOrder
<1>2. k.id \in Names /\ k.kind \in RecordKinds \cup {"page", "patch"}
  BY <1>1, FilesAssumption DEF UnderWay, OfKind
<1>3. <<k.kind, k.id>> \in Records!Paths /\ <<"change", k.id>> \in Records!Paths
  BY <1>2, FilesAssumption DEF Records!Paths
<1>4. files \in [Records!Paths -> Contents]
  BY DEF RecordsInv, FilesTrue
<1>5. QED BY <1>1, <1>2, <1>3, <1>4 DEF Records!Target

(* A call that only moves on stays in order.                                *)
LEMMA StaysSo ==
  ASSUME RecordsInv, NEW c \in Callers, call[c].pc \notin {"end", "unlink"}, NEW p,
         p \in {"load", "page", "prepare", "commit", "clean", "recheck"},
         p \in Late => call[c].op # "read" /\ ~call[c].bind,
         p = "page" => call[c].op = "flat", p = "load" => Records!Reads(call[c]),
         p = "recheck" => call[c].op \in {"exclusive", "patch"}
  PROVE  UnderWay([call[c] EXCEPT !.pc = p], files)
<1> DEFINE o == call[c]
<1>1. UnderWay(o, files) /\ DOMAIN o = Fields
  BY CallIs
<1> DEFINE m == [o EXCEPT !.pc = p]
<1>2. /\ m.op = o.op /\ m.kind = o.kind /\ m.id = o.id /\ m.bind = o.bind /\ m.digest = o.digest
      /\ m.value = o.value /\ m.collided = o.collided /\ m.pc = p
  BY <1>1, FieldsOf
<1> HIDE DEF m
<1>3. UnderWay(m, files)
  BY <1>1, <1>2 DEF UnderWay, OfKind, Late, Records!Reads
<1>4. QED BY <1>3 DEF m

(* checkedTarget keeps the invariant.                                       *)
LEMMA LookStep ==
  ASSUME RecordsInv, NEW c \in Callers, Records!Look(c)
  PROVE  RecordsInv'
<1> DEFINE k == call[c]
           there == files[Records!Target(k)]
<1>1. k.pc = "look" /\ UNCHANGED <<files, temps, calls, littered>>
  BY DEF Records!Look, Records!At
<1>2. UnderWay(k, files) /\ DOMAIN k = Fields
  BY <1>1, CallIs
<1>3. \/ Records!Ends(c, k, "directory") \/ Records!Ends(c, k, "target") \/ Records!Ends(c, k, "missing")
      \/ Records!Reads(k) /\ Records!Goes(c, k, "load")
      \/ /\ ~Records!Reads(k) /\ k.op = "flat"
         /\ Records!Goes(c, [k EXCEPT !.seen = there # Records!Absent], "page")
      \/ ~Records!Reads(k) /\ Records!Creates(k) /\ Records!Draw(c, k)
      \/ ~Records!Reads(k) /\ Records!Goes(c, k, "prepare")
  BY DEF Records!Look
<1>4. CASE Records!Ends(c, k, "directory") \/ Records!Ends(c, k, "target") \/ Records!Ends(c, k, "missing")
  BY <1>1, <1>4, LooksEnd DEF Good
<1>5. CASE Records!Reads(k) /\ Records!Goes(c, k, "load")
  <2>1. UnderWay([k EXCEPT !.pc = "load"], files)
    BY <1>1, <1>5, StaysSo DEF Late
  <2>2. QED BY <1>1, <1>2, <1>5, <2>1, LooksOn
<1>6. ASSUME ~Records!Reads(k), k.op = "flat",
             Records!Goes(c, [k EXCEPT !.seen = there # Records!Absent], "page")
      PROVE  RecordsInv'
  <2> DEFINE s == [k EXCEPT !.seen = there # Records!Absent]
             m == [s EXCEPT !.pc = "page"]
  <2>1. /\ DOMAIN s = Fields /\ s.n = k.n /\ s.op = k.op /\ s.kind = k.kind /\ s.id = k.id
        /\ s.bind = k.bind /\ s.collided = k.collided /\ s.digest = k.digest
    BY <1>2 DEF Fields
  <2>2. Records!Goes(c, s, "page")
    BY <1>6
  <2> HIDE DEF s
  <2>3. /\ m.pc = "page" /\ m.op = k.op /\ m.kind = k.kind /\ m.id = k.id
        /\ m.bind = k.bind /\ m.collided = k.collided /\ m.digest = k.digest
    BY <2>1, FieldsOf
  <2>4. ~k.bind /\ k.op = "flat"
    BY <1>6 DEF Records!Reads
  <2> HIDE DEF m
  <2>5. UnderWay(m, files)
    BY <1>2, <2>3, <2>4 DEF UnderWay, OfKind, Late
  <2>6. QED BY <1>1, <2>1, <2>2, <2>5, LooksOn DEF m
<1>7. CASE ~Records!Reads(k) /\ Records!Creates(k) /\ Records!Draw(c, k)
  BY <1>1, <1>7, DrawsAgain DEF Records!Reads
<1>8. CASE ~Records!Reads(k) /\ Records!Goes(c, k, "prepare")
  <2>1. UnderWay([k EXCEPT !.pc = "prepare"], files)
    BY <1>1, <1>8, StaysSo DEF Late, Records!Reads
  <2>2. QED BY <1>1, <1>2, <1>8, <2>1, LooksOn
<1>9. QED BY <1>3, <1>4, <1>5, <1>6, <1>7, <1>8

(* So does the look for the page of a report.                               *)
LEMMA LookAtPageStep ==
  ASSUME RecordsInv, NEW c \in Callers, Records!LookAtPage(c)
  PROVE  RecordsInv'
<1> DEFINE k == call[c]
<1>1. k.pc = "page" /\ UNCHANGED <<files, temps, calls, littered>>
  BY DEF Records!LookAtPage, Records!At
<1>2. UnderWay(k, files) /\ DOMAIN k = Fields
  BY <1>1, CallIs
<1>3. k.op = "flat" /\ ~k.bind
  BY <1>1, <1>2 DEF UnderWay, Late
<1>4. CASE Records!Ends(c, k, "target")
  BY <1>1, <1>4, LooksEnd DEF Good
<1>5. CASE Records!Draw(c, k)
  BY <1>1, <1>3, <1>5, DrawsAgain DEF Records!Creates
<1>6. CASE Records!Goes(c, k, "prepare")
  <2>1. UnderWay([k EXCEPT !.pc = "prepare"], files)
    BY <1>1, <1>3, StaysSo
  <2>2. QED BY <1>1, <1>2, <1>6, <2>1, LooksOn
<1>7. QED BY <1>4, <1>5, <1>6 DEF Records!LookAtPage

(* So does the look after a collision.                                      *)
LEMMA RecheckStep ==
  ASSUME RecordsInv, NEW c \in Callers, Records!Recheck(c)
  PROVE  RecordsInv'
<1> DEFINE k == call[c]
<1>1. k.pc = "recheck" /\ UNCHANGED <<files, temps, calls, littered>>
  BY DEF Records!Recheck, Records!At
<1>2. UnderWay(k, files)
  BY <1>1, CallIs
<1>3. k.op \in {"exclusive", "patch"} /\ ~k.bind
  BY <1>1, <1>2 DEF UnderWay, Late
<1>4. CASE Records!Ends(c, k, "target") \/ Records!Ends(c, k, "write")
  BY <1>1, <1>4, LooksEnd DEF Good
<1>5. CASE Records!Draw(c, k)
  BY <1>1, <1>3, <1>5, DrawsAgain DEF Records!Creates
<1>6. QED BY <1>4, <1>5 DEF Records!Recheck

(* So does the read of a record.                                            *)
LEMMA LoadStep ==
  ASSUME RecordsInv, NEW c \in Callers, Records!Load(c)
  PROVE  RecordsInv'
<1> DEFINE k == call[c]
           there == files[Records!Target(k)]
<1>1. k.pc = "load" /\ UNCHANGED <<files, temps, calls, littered>>
  BY DEF Records!Load, Records!At
<1>2. UnderWay(k, files) /\ DOMAIN k = Fields /\ there \in Contents /\ k.id \in Names
  BY <1>1, CallIs
<1>3. /\ there.is \notin {"absent", "special"} /\ there # Records!Broken => there.is = "whole"
      /\ "change" \in RecordKinds
  BY <1>2, FilesAssumption DEF Contents, Whole, Records!Absent, Records!Special
<1>4. \/ \E how \in {"read", "missing", "parse", "identity", "write"} : Records!Ends(c, k, how)
      \/ /\ there.is \notin {"absent", "special"}
         /\ Records!Bound(k) => there.id = k.id
         /\ ~(there = Records!Broken /\ Records!Target(k)[1] \in RecordKinds)
         /\ \/ ~k.bind /\ Records!Ends(c, [k EXCEPT !.value = there], "ok")
            \/ /\ k.bind /\ ~(k.op = "patch" /\ k.digest # there.digest)
               /\ Records!Goes(c, [k EXCEPT !.bind = FALSE, !.readonly = k.op = "rewrite"], "look")
  BY DEF Records!Load
<1>5. ASSUME NEW how \in {"read", "missing", "parse", "identity", "write"}, Records!Ends(c, k, how)
      PROVE  RecordsInv'
  BY <1>1, <1>5, LooksEnd DEF Good
<1>6. ASSUME there.is \notin {"absent", "special"}, Records!Bound(k) => there.id = k.id,
             ~(there = Records!Broken /\ Records!Target(k)[1] \in RecordKinds), ~k.bind,
             Records!Ends(c, [k EXCEPT !.value = there], "ok")
      PROVE  RecordsInv'
  <2> DEFINE v == [k EXCEPT !.value = there]
             m == [v EXCEPT !.pc = "end", !.how = "ok"]
  <2>1. /\ DOMAIN v = Fields /\ v.n = k.n /\ v.op = k.op /\ v.kind = k.kind /\ v.id = k.id
        /\ v.bind = k.bind /\ v.readonly = k.readonly /\ v.value = there
    BY <1>2 DEF Fields
  <2>2. Records!Ends(c, v, "ok")
    BY <1>6
  <2> HIDE DEF v
  <2>3. /\ m.kind = k.kind /\ m.id = k.id /\ m.bind = k.bind /\ m.readonly = k.readonly
        /\ m.value = there
    BY <2>1 DEF Fields
  <2>4. k.kind \in RecordKinds => there.is = "whole"
    BY <1>3, <1>6 DEF Records!Target
  <2>5. Records!Bound(m) => there.id = k.id
    BY <1>6, <2>3 DEF Records!Bound, Records!Target, Records!Readonly
  <2> HIDE DEF m
  <2>6. Ended(m)
    BY <2>3, <2>4, <2>5 DEF Ended
  <2>7. k.op = "read"
    BY <1>1, <1>2, <1>6 DEF UnderWay, Records!Reads
  <2>8. c \in littered' \/ \A t \in temps' : t.owner # c
    BY <1>1, NoTemps
  <2>9. QED BY <1>1, <2>1, <2>2, <2>6, <2>7, <2>8, CallEnds DEF m
<1>7. ASSUME there.is \notin {"absent", "special"}, Records!Bound(k) => there.id = k.id,
             ~(there = Records!Broken /\ Records!Target(k)[1] \in RecordKinds), k.bind,
             ~(k.op = "patch" /\ k.digest # there.digest),
             Records!Goes(c, [k EXCEPT !.bind = FALSE, !.readonly = k.op = "rewrite"], "look")
      PROVE  RecordsInv'
  <2> DEFINE v == [k EXCEPT !.bind = FALSE, !.readonly = k.op = "rewrite"]
             m == [v EXCEPT !.pc = "look"]
  <2>1. /\ DOMAIN v = Fields /\ v.n = k.n /\ v.op = k.op /\ v.kind = k.kind /\ v.id = k.id
        /\ v.bind = FALSE /\ v.collided = k.collided /\ v.digest = k.digest /\ v.value = k.value
    BY <1>2 DEF Fields
  <2>2. Records!Goes(c, v, "look")
    BY <1>7
  <2> HIDE DEF v
  <2>3. /\ m.pc = "look" /\ m.op = k.op /\ m.kind = k.kind /\ m.id = k.id /\ m.bind = FALSE
        /\ m.collided = k.collided /\ m.digest = k.digest /\ m.value = k.value
    BY <2>1, FieldsOf
  <2>4. there = files[<<"change", k.id>>]
    BY <1>7 DEF Records!Target
  <2>5. there.is = "whole"
    BY <1>3, <1>7 DEF Records!Target
  <2> HIDE DEF m
  <2>6. UnderWay(m, files)
    BY <1>2, <1>7, <2>3, <2>4, <2>5 DEF UnderWay, OfKind, Late
  <2>7. QED BY <1>1, <2>1, <2>2, <2>6, LooksOn DEF m
<1>8. QED BY <1>4, <1>5, <1>6, <1>7

(* So does the write of the temporary file.                                 *)
LEMMA PrepareStep ==
  ASSUME RecordsInv, NEW c \in Callers, Records!Prepare(c)
  PROVE  RecordsInv'
<1> DEFINE k == call[c]
<1>1. k.pc = "prepare" /\ UNCHANGED <<files, calls, littered>>
  BY DEF Records!Prepare, Records!At
<1>2. UnderWay(k, files) /\ DOMAIN k = Fields
  BY <1>1, CallIs
<1>3. k.op # "read" /\ ~k.bind
  BY <1>1, <1>2 DEF UnderWay, Late
<1>4. CASE Records!Ends(c, k, "write") /\ UNCHANGED temps
  BY <1>1, <1>4, LooksEnd DEF Good
<1>5. ASSUME NEW what, NEW p \in {"commit", "clean"}, p = "commit" => what = Records!Value(k),
             Records!Goes(c, k, p), temps' = temps \cup {Records!Temporary(c, k, what)}
      PROVE  RecordsInv'
  <2> DEFINE m == [k EXCEPT !.pc = p]
             new == Records!Temporary(c, k, what)
  <2>1. UnderWay(m, files)
    BY <1>1, <1>3, StaysSo
  <2>2. new.owner = c /\ new.n = k.n
    BY DEF Records!Temporary
  <2>3. /\ m.pc = p /\ m.op = k.op /\ m.kind = k.kind /\ m.id = k.id /\ m.n = k.n
        /\ m.digest = k.digest /\ m.value = k.value
    BY <1>2, FieldsOf
  <2>4. /\ Records!Value(m) = Records!Value(k)
        /\ Records!Temporary(c, m, what) = Records!Temporary(c, k, what)
    BY <2>3 DEF Records!Value, Records!Temporary
  <2>5. temps' = temps \cup {new}
    BY <1>5
  <2>6. p = "commit" => new = Records!Temporary(c, m, Records!Value(m))
    BY <1>5, <2>4
  <2> HIDE DEF m, new
  <2>7. /\ \A t \in temps : t.owner = c => t.n # k.n
        /\ c \in littered \/ \A t \in temps : t.owner # c
    BY <1>1, NoTemps
  <2>8. KeepsTemps(c, m, temps', littered')
    BY <1>1, <2>2, <2>3, <2>5, <2>6, <2>7 DEF KeepsTemps
  <2>9. \A t \in temps' : t \in temps \/ (t.owner = c /\ t.n = k.n)
    BY <2>2, <2>5
  <2>10. QED BY <1>1, <1>2, <1>5, <2>1, <2>8, <2>9, CallGoes DEF m
<1>6. QED BY <1>4, <1>5 DEF Records!Prepare

(* The temporary file a commit finds is the one its own call wrote.          *)
LEMMA OwnTemporary ==
  ASSUME RecordsInv, NEW c \in Callers, call[c].pc = "commit", NEW t \in Records!Mine(c)
  PROVE  /\ t = Records!Temporary(c, call[c], Records!Value(call[c]))
         /\ t.path = <<call[c].kind, call[c].id>> /\ t.content = Records!Value(call[c])
         /\ \A u \in temps : u.owner = c /\ u.n = call[c].n => u = t
<1>1. /\ t \in temps /\ t.owner = c /\ t.n = call[c].n
      /\ KeepsTemps(c, call[c], temps, littered)
  BY DEF Records!Mine, RecordsInv
<1>2. QED BY <1>1 DEF KeepsTemps, Records!Temporary

(* A commit that failed leaves the temporary file to the clean-up.          *)
LEMMA CommitFails ==
  ASSUME RecordsInv, NEW c \in Callers, call[c].pc = "commit",
         Records!Goes(c, call[c], "clean"), UNCHANGED <<files, temps, calls, littered>>
  PROVE  RecordsInv'
<1> DEFINE k == call[c]  m == [k EXCEPT !.pc = "clean"]
<1>1. UnderWay(k, files) /\ DOMAIN k = Fields
  BY CallIs
<1>2. UnderWay(m, files)
  BY <1>1, StaysSo DEF UnderWay, Late
<1>3. m.pc = "clean" /\ m.n = k.n
  BY <1>1, FieldsOf
<1>4. KeepsTemps(c, k, temps, littered)
  BY DEF RecordsInv
<1> HIDE DEF m
<1>5. KeepsTemps(c, m, temps, littered)
  BY <1>3, <1>4 DEF KeepsTemps
<1>6. QED BY <1>1, <1>2, <1>5, CallGoes DEF m

(* So does the clean-up.                                                    *)
LEMMA CleanStep ==
  ASSUME RecordsInv, NEW c \in Callers, Records!Clean(c)
  PROVE  RecordsInv'
<1> DEFINE k == call[c]
<1>1. k.pc = "clean" /\ UNCHANGED <<files, calls>>
  BY DEF Records!Clean, Records!At
<1>2. UnderWay(k, files) /\ DOMAIN k = Fields
  BY <1>1, CallIs
<1>3. k.op # "read" /\ ~k.bind /\ (k.collided => k.op \in {"exclusive", "patch"})
  BY <1>1, <1>2 DEF UnderWay, Late
<1>4. c \in littered \/ \A t \in temps : t.owner = c => t.n = k.n
  BY DEF RecordsInv, KeepsTemps
<1>5. ASSUME temps' = temps \ Records!Mine(c), littered' = littered, k.collided,
             Records!Goes(c, k, "recheck")
      PROVE  RecordsInv'
  <2> DEFINE m == [k EXCEPT !.pc = "recheck"]
  <2>1. UnderWay(m, files)
    BY <1>1, <1>3, <1>5, StaysSo
  <2>2. m.pc = "recheck" /\ m.n = k.n
    BY <1>2, FieldsOf
  <2> HIDE DEF m
  <2>3. KeepsTemps(c, m, temps', littered')
    BY <1>4, <1>5, <2>2 DEF KeepsTemps, Records!Mine
  <2>4. \A t \in temps' : t \in temps
    BY <1>5
  <2>5. QED BY <1>1, <1>2, <1>5, <2>1, <2>3, <2>4, CallGoes DEF m
<1>6. ASSUME \/ temps' = temps \ Records!Mine(c) /\ littered' = littered
             \/ temps' = temps /\ littered' = littered \cup {c},
             Records!Ends(c, k, "write")
      PROVE  RecordsInv'
  <2>1. \A t \in temps' : t \in temps
    BY <1>6
  <2>2. c \in littered' \/ \A t \in temps' : t.owner # c
    BY <1>4, <1>6 DEF Records!Mine
  <2>3. /\ \A d \in Callers \ {c} : d \in littered => d \in littered'
        /\ \A d \in Callers \ {c} : d \in littered' => d \in littered
    BY <1>6
  <2>4. "write" \notin Good
    BY DEF Good
  <2>5. QED BY <1>1, <1>2, <1>3, <1>6, <2>1, <2>2, <2>3, <2>4, CallEnds
<1>7. QED BY <1>5, <1>6 DEF Records!Clean

(* So does the death of a host.                                             *)
LEMMA CrashStep ==
  ASSUME RecordsInv, NEW c \in Callers, Records!Crash(c)
  PROVE  RecordsInv'
<1> DEFINE k == call[c]  m == Records!Rest
<1>1. /\ k.pc # "end" /\ call' = [call EXCEPT ![c] = m]
      /\ littered' = IF Records!Mine(c) # {} THEN littered \cup {c} ELSE littered
      /\ UNCHANGED <<files, temps, calls, told>>
  BY DEF Records!Crash, Records!At
<1>2. DOMAIN m = Fields /\ m.pc = "end" /\ m.op = "none"
  BY DEF Fields, Records!Rest
<1>3. c \in littered \/ \A t \in temps : t.owner = c => t.n = k.n
  BY DEF RecordsInv, KeepsTemps
<1> HIDE DEF m
<1>4. KeepsTemps(c, m, temps', littered')
  BY <1>1, <1>2, <1>3 DEF KeepsTemps, Records!Mine
<1>5. InOrder(m, files') /\ Frozen(files, files') /\ FilesTrue(files', calls)
  BY <1>1, <1>2 DEF InOrder, Ended, Frozen, RecordsInv
<1>6. \A t \in told : t.how \in Good => Stands(t, files')
  BY <1>1 DEF RecordsInv, Truthful
<1>7. QED BY <1>1, <1>2, <1>4, <1>5, <1>6, CallMoves

(* So does a rename: what it replaces is no file that is kept, or the same. *)
LEMMA RenameStep ==
  ASSUME RecordsInv, NEW c \in Callers, Records!Rename(c)
  PROVE  RecordsInv'
<1> DEFINE k == call[c]  v == Records!Value(k)  path == <<k.kind, k.id>>
<1>1. k.pc = "commit" /\ ~Records!Linked(k) /\ UNCHANGED <<calls, littered>>
  BY DEF Records!Rename, Records!At
<1>2. /\ UnderWay(k, files) /\ DOMAIN k = Fields /\ k.n \in 1..calls /\ calls \in Nat
      /\ path \in Records!Paths /\ path[1] = k.kind /\ path[2] = k.id /\ k.id \in Names
      /\ files \in [Records!Paths -> Contents]
  BY <1>1, CallIs DEF RecordsInv
<1>3. k.op \in {"flat", "write", "rewrite"} /\ OfKind(k)
  BY <1>1, <1>2 DEF UnderWay, OfKind, Late, Records!Linked
<1>4. CASE Records!Goes(c, k, "clean") /\ UNCHANGED <<files, temps>>
  BY <1>1, <1>4, CommitFails
<1>5. ASSUME NEW t \in Records!Mine(c), Records!Ends(c, k, "ok"),
             files' = [files EXCEPT ![t.path] = t.content], temps' = temps \ {t}
      PROVE  RecordsInv'
  <2>1. /\ t.path = path /\ t.content = v
        /\ \A u \in temps : u.owner = c /\ u.n = k.n => u = t
    BY <1>1, OwnTemporary
  <2>2. files' = [files EXCEPT ![path] = v]
    BY <1>5, <2>1
  <2> DEFINE m == Records!Rest
             new == [n |-> k.n, how |-> "ok", path |-> path]
  <2>3. call' = [call EXCEPT ![c] = m]
    BY <1>3, <1>5 DEF Records!Ends
  <2>4. DOMAIN m = Fields /\ m.pc = "end" /\ m.op = "none"
    BY DEF Fields, Records!Rest
  <2>5. told' = IF Records!Creates(k) THEN told \cup {new} ELSE told
    BY <1>5 DEF Records!Ends
  <2>6. c \in littered \/ \A u \in temps : u.owner = c => u.n = k.n
    BY DEF RecordsInv, KeepsTemps
  <2>7. new.n = k.n /\ new.how = "ok" /\ new.path = path
    OBVIOUS
  <2> HIDE DEF m, new
  <2>8. KeepsTemps(c, m, temps', littered')
    BY <1>1, <1>5, <2>1, <2>4, <2>6 DEF KeepsTemps
  <2>9. \A u \in temps' : u \in temps
    BY <1>5
  <2>10. InOrder(m, files')
    BY <2>4 DEF InOrder, Ended
  <2>11. /\ \A u \in told : u.n # k.n
         /\ \A u \in told : Truthful(u, files, calls)
         /\ FilesTrue(files, calls)
    BY <1>1 DEF RecordsInv
  <2>12. CASE k.op = "rewrite"
    <3>1. path = <<"change", k.id>> /\ v = k.value /\ files[path] = k.value
      BY <1>2, <1>3, <2>12 DEF UnderWay, OfKind, Records!Value
    <3>2. files' = files
      BY <1>2, <2>2, <3>1
    <3>3. told' = told
      BY <2>5, <2>12 DEF Records!Creates
    <3>4. Frozen(files, files') /\ FilesTrue(files', calls)
      BY <2>11, <3>2 DEF Frozen
    <3>5. \A u \in told : u.how \in Good => Stands(u, files')
      BY <2>11, <3>2 DEF Truthful
    <3>6. QED BY <1>1, <2>3, <2>4, <2>8, <2>9, <2>10, <3>2, <3>3, <3>4, <3>5, CallMoves
  <2>13. CASE k.op \in {"flat", "write"}
    <3> HIDE DEF path
    <3>1. /\ v.is = "whole" /\ v.id = k.id /\ v.patch = k.id /\ v.origin = k.n /\ v \in Whole
      BY <1>2, <2>13 DEF Records!Value, Records!File, Whole
    <3>2. path[1] \in {"task", "data", "report", "page"} /\ path[1] \notin Kept
      BY <1>2, <1>3, <2>13, FilesAssumption
         DEF OfKind, Records!Flat, Records!Mutable, Kept, Records!Exclusive
    <3> HIDE DEF v
    <3>3. /\ files'[path] = v
          /\ \A p \in Records!Paths : p # path => files'[p] = files[p]
          /\ files' \in [Records!Paths -> Contents]
      BY <1>2, <2>2, <3>1 DEF Contents
    <3>4. Frozen(files, files')
      BY <3>2, <3>3 DEF Frozen
    <3>5. FilesTrue(files', calls)
      <4>1. ASSUME NEW p \in Records!Paths, files'[p].is = "whole"
            PROVE  /\ files'[p].origin =< calls
                   /\ p[1] # "report" => files'[p].id = p[2] /\ files'[p].patch = p[2]
        BY <1>2, <2>11, <3>1, <3>3, <4>1 DEF FilesTrue
      <4>2. ASSUME NEW i \in Names, files'[<<"patch", i>>].is = "whole"
            PROVE  /\ files'[<<"change", i>>].is = "whole"
                   /\ files'[<<"change", i>>].digest = files'[<<"patch", i>>].digest
        <5>1. <<"change", i>> # path /\ <<"patch", i>> # path
          BY <3>2
        <5>2. /\ files'[<<"change", i>>] = files[<<"change", i>>]
              /\ files'[<<"patch", i>>] = files[<<"patch", i>>]
          BY <3>3, <5>1, PathsOfRecords
        <5>3. QED BY <2>11, <4>2, <5>2 DEF FilesTrue
      <4>3. QED BY <3>3, <4>1, <4>2 DEF FilesTrue
    <3>6. ASSUME NEW u \in told, u.how \in Good PROVE Stands(u, files')
      <4>1. u.path \in Records!Paths /\ Stands(u, files)
        BY <2>11, <3>6 DEF Truthful
      <4>2. CASE u.path = path
        BY <1>2, <3>1, <3>2, <3>3, <4>2 DEF Stands, Kept
      <4>3. CASE u.path # path
        BY <3>3, <4>1, <4>3 DEF Stands
      <4>4. QED BY <4>2, <4>3
    <3>7. Records!Creates(k) => Truthful(new, files', calls)
      BY <1>2, <1>3, <2>7, <2>13, <3>1, <3>2, <3>3
         DEF Truthful, Stands, Kept, Records!Creates, OfKind
    <3>8. \A u \in told' : u \in told \/
            /\ u.n = k.n /\ m.pc = "end" /\ Truthful(u, files', calls)
            /\ u.how \notin Good => Records!Creates(k) /\ k.pc # "unlink"
      BY <1>1, <2>4, <2>5, <2>7, <3>7
    <3>9. \A u \in told' : u.n = k.n => u.how \in Good
      BY <2>5, <2>7, <2>11 DEF Good
    <3>10. \A p \in Records!Paths : files'[p].is = "whole" =>
             \/ files[p].is = "whole" /\ files'[p] = files[p]
             \/ /\ files'[p].origin = k.n /\ m.pc \in {"unlink", "end"}
                /\ \A u \in told' : u.n = k.n => u.how \in Good
      BY <2>4, <3>1, <3>3, <3>9
    <3>11. QED BY <1>1, <2>3, <2>4, <2>8, <2>9, <2>10, <3>4, <3>5, <3>6, <3>8, <3>10, CallMoves
  <2>14. QED BY <1>3, <2>12, <2>13
<1>6. QED BY <1>4, <1>5 DEF Records!Rename

(* So does a link, to a name that is free.                                  *)
LEMMA LinkStep ==
  ASSUME RecordsInv, NEW c \in Callers, Records!Link(c)
  PROVE  RecordsInv'
<1> DEFINE k == call[c]  v == Records!Value(k)  path == <<k.kind, k.id>>
<1>1. k.pc = "commit" /\ Records!Linked(k) /\ UNCHANGED <<temps, calls, littered>>
  BY DEF Records!Link, Records!At
<1>2. /\ UnderWay(k, files) /\ DOMAIN k = Fields /\ k.n \in 1..calls /\ calls \in Nat
      /\ path \in Records!Paths /\ path[1] = k.kind /\ path[2] = k.id /\ k.id \in Names
      /\ files \in [Records!Paths -> Contents]
  BY <1>1, CallIs DEF RecordsInv
<1>3. k.op \in {"exclusive", "patch"} /\ OfKind(k) /\ ~k.bind /\ k.digest \in Nat
  BY <1>1, <1>2 DEF UnderWay, Late, Records!Linked
<1>4. KeepsTemps(c, k, temps, littered)
  BY DEF RecordsInv
<1>5. CASE Records!Goes(c, k, "clean") /\ UNCHANGED files
  BY <1>1, <1>5, CommitFails
<1>6. ASSUME Records!Goes(c, [k EXCEPT !.collided = TRUE], "clean"), UNCHANGED files
      PROVE  RecordsInv'
  <2> DEFINE d == [k EXCEPT !.collided = TRUE]
             m == [d EXCEPT !.pc = "clean"]
  <2>1. /\ DOMAIN d = Fields /\ d.n = k.n /\ d.op = k.op /\ d.kind = k.kind /\ d.id = k.id
        /\ d.bind = k.bind /\ d.digest = k.digest
    BY <1>2 DEF Fields
  <2>2. Records!Goes(c, d, "clean")
    BY <1>6
  <2> HIDE DEF d
  <2>3. /\ m.pc = "clean" /\ m.op = k.op /\ m.kind = k.kind /\ m.id = k.id
        /\ m.bind = k.bind /\ m.digest = k.digest /\ m.n = k.n
    BY <2>1, FieldsOf
  <2> HIDE DEF m
  <2>4. UnderWay(m, files)
    BY <1>2, <1>3, <2>3 DEF UnderWay, OfKind, Late
  <2>5. KeepsTemps(c, m, temps', littered')
    BY <1>1, <1>4, <2>3 DEF KeepsTemps
  <2>6. QED BY <1>1, <1>6, <2>1, <2>2, <2>4, <2>5, CallGoes DEF m
<1>7. ASSUME NEW t \in Records!Mine(c), files[t.path] = Records!Absent, Records!Goes(c, k, "unlink"),
             files' = [files EXCEPT ![t.path] = t.content]
      PROVE  RecordsInv'
  <2>1. t.path = path /\ t.content = v
    BY <1>1, OwnTemporary
  <2>2. files' = [files EXCEPT ![path] = v] /\ files[path].is = "absent"
    BY <1>7, <2>1 DEF Records!Absent
  <2> DEFINE m == [k EXCEPT !.pc = "unlink"]
  <2>3. call' = [call EXCEPT ![c] = m] /\ told' = told
    BY <1>7 DEF Records!Goes
  <2>4. /\ DOMAIN m = Fields /\ m.pc = "unlink" /\ m.op = k.op /\ m.kind = k.kind /\ m.id = k.id
        /\ m.bind = k.bind /\ m.digest = k.digest /\ m.n = k.n /\ m.value = k.value
    BY <1>2, FieldsOf
  <2>5. Records!Value(m) = v
    BY <2>4 DEF Records!Value
  <2> HIDE DEF m
  <2>6. KeepsTemps(c, m, temps', littered')
    BY <1>1, <1>4, <2>4 DEF KeepsTemps
  <2>7. /\ \A u \in told : u.n # k.n
        /\ \A u \in told : Truthful(u, files, calls)
        /\ FilesTrue(files, calls)
    BY <1>1 DEF RecordsInv
  <2>8. /\ v.is = "whole" /\ v.id = k.id /\ v.patch = k.id /\ v.origin = k.n /\ v \in Whole
        /\ k.op = "patch" => v.digest = k.digest
    BY <1>2, <1>3 DEF Records!Value, Records!File, Whole
  <2>9. path = <<k.kind, k.id>>
    OBVIOUS
  <2> HIDE DEF path, v
  <2>10. /\ files'[path] = v
         /\ \A p \in Records!Paths : p # path => files'[p] = files[p]
         /\ files' \in [Records!Paths -> Contents]
    BY <1>2, <2>2, <2>8 DEF Contents
  <2>11. \A p \in Records!Paths : files[p].is = "whole" => files'[p] = files[p]
    BY <2>2, <2>10
  <2>12. Frozen(files, files')
    BY <2>11 DEF Frozen
  <2>13. FilesTrue(files', calls)
    <3>1. ASSUME NEW p \in Records!Paths, files'[p].is = "whole"
          PROVE  /\ files'[p].origin =< calls
                 /\ p[1] # "report" => files'[p].id = p[2] /\ files'[p].patch = p[2]
      BY <1>2, <2>7, <2>8, <2>10, <3>1 DEF FilesTrue
    <3>2. ASSUME NEW i \in Names, files'[<<"patch", i>>].is = "whole"
          PROVE  /\ files'[<<"change", i>>].is = "whole"
                 /\ files'[<<"change", i>>].digest = files'[<<"patch", i>>].digest
      <4>1. CASE <<"patch", i>> = path
        <5>1. k.kind = "patch" /\ k.id = i
          BY <2>9, <4>1
        <5>2. k.op = "patch"
          BY <1>3, <5>1, FilesAssumption DEF OfKind
        <5>3. files[<<"change", i>>].is = "whole" /\ files[<<"change", i>>].digest = k.digest
          BY <1>2, <1>3, <5>1, <5>2 DEF UnderWay
        <5>4. files'[<<"change", i>>] = files[<<"change", i>>]
          BY <2>11, <5>3, PathsOfRecords
        <5>5. QED BY <2>8, <2>10, <4>1, <5>2, <5>3, <5>4
      <4>2. CASE <<"patch", i>> # path
        <5>1. files'[<<"patch", i>>] = files[<<"patch", i>>]
          BY <2>10, <4>2, PathsOfRecords
        <5>2. /\ files[<<"change", i>>].is = "whole"
              /\ files[<<"change", i>>].digest = files[<<"patch", i>>].digest
          BY <2>7, <3>2, <5>1 DEF FilesTrue
        <5>3. QED BY <2>11, <5>1, <5>2, PathsOfRecords
      <4>3. QED BY <4>1, <4>2
    <3>3. QED BY <2>10, <3>1, <3>2 DEF FilesTrue
  <2>14. ASSUME NEW u \in told, u.how \in Good PROVE Stands(u, files')
    BY <2>7, <2>11, <2>14 DEF Truthful, Stands
  <2>15. UnderWay(m, files')
    <3>1. k.op = "patch" => /\ files[<<"change", k.id>>].is = "whole"
                            /\ files[<<"change", k.id>>].digest = k.digest
      BY <1>2, <1>3 DEF UnderWay
    <3>2. k.op = "patch" => /\ files'[<<"change", k.id>>].is = "whole"
                            /\ files'[<<"change", k.id>>].digest = k.digest
      BY <1>2, <2>11, <3>1, PathsOfRecords
    <3>3. files'[<<k.kind, k.id>>] = Records!Value(m) /\ files'[<<k.kind, k.id>>].is = "whole"
      BY <2>5, <2>8, <2>9, <2>10
    <3>4. QED BY <1>2, <1>3, <2>4, <3>2, <3>3 DEF UnderWay, OfKind, Late
  <2>16. InOrder(m, files')
    BY <2>4, <2>15 DEF InOrder
  <2>17. \A p \in Records!Paths : files'[p].is = "whole" =>
           \/ files[p].is = "whole" /\ files'[p] = files[p]
           \/ /\ files'[p].origin = k.n /\ m.pc \in {"unlink", "end"}
              /\ \A u \in told' : u.n = k.n => u.how \in Good
    BY <2>3, <2>4, <2>7, <2>8, <2>10
  <2>18. QED BY <1>1, <2>3, <2>4, <2>6, <2>12, <2>13, <2>14, <2>16, <2>17, CallMoves
<1>8. QED BY <1>5, <1>6, <1>7 DEF Records!Link

(* So does the end of an exclusive write.                                   *)
LEMMA UnlinkStep ==
  ASSUME RecordsInv, NEW c \in Callers, Records!Unlink(c)
  PROVE  RecordsInv'
<1> DEFINE k == call[c]  m == Records!Rest  path == <<k.kind, k.id>>
<1>1. k.pc = "unlink" /\ UNCHANGED <<files, calls>>
  BY DEF Records!Unlink, Records!At
<1>2. /\ UnderWay(k, files) /\ k.n \in 1..calls
      /\ path \in Records!Paths /\ path[1] = k.kind /\ path[2] = k.id
  BY <1>1, CallIs
<1>3. /\ k.op \in {"exclusive", "patch"} /\ OfKind(k)
      /\ files[path] = Records!Value(k) /\ files[path].is = "whole"
  BY <1>1, <1>2 DEF UnderWay
<1>4. PICK how \in Good :
        /\ Records!Ends(c, k, how)
        /\ \/ temps' = temps \ Records!Mine(c) /\ littered' = littered
           \/ temps' = temps /\ littered' = littered \cup {c}
  BY DEF Records!Unlink, Good
<1> DEFINE new == [n |-> k.n, how |-> how, path |-> path]
<1>5. call' = [call EXCEPT ![c] = m] /\ told' = told \cup {new}
  BY <1>3, <1>4 DEF Records!Ends, Records!Creates
<1>6. DOMAIN m = Fields /\ m.pc = "end" /\ m.op = "none"
  BY DEF Fields, Records!Rest
<1>7. new.n = k.n /\ new.how = how /\ new.path = path
  OBVIOUS
<1> HIDE DEF m, new
<1>8. c \in littered \/ \A t \in temps : t.owner = c => t.n = k.n
  BY DEF RecordsInv, KeepsTemps
<1>9. KeepsTemps(c, m, temps', littered')
  BY <1>4, <1>6, <1>8 DEF KeepsTemps, Records!Mine
<1>10. InOrder(m, files') /\ Frozen(files, files') /\ FilesTrue(files', calls)
  BY <1>1, <1>6 DEF InOrder, Ended, Frozen, RecordsInv
<1>11. /\ \A t \in told : t.how \in Good => Stands(t, files')
       /\ calls \in Nat
  BY <1>1 DEF RecordsInv, Truthful
<1>12. path[1] \in Kept
  BY <1>2, <1>3 DEF OfKind, Kept
<1> HIDE DEF path
<1>13. /\ files[path].id = k.id /\ files[path].patch = k.id /\ files[path].origin = k.n
  BY <1>3 DEF Records!Value, Records!File
<1>14. Truthful(new, files', calls)
  BY <1>1, <1>2, <1>3, <1>7, <1>11, <1>12, <1>13 DEF Truthful, Stands
<1>15. /\ \A t \in temps' : t \in temps
       /\ \A d \in Callers \ {c} : d \in littered => d \in littered'
       /\ \A d \in Callers \ {c} : d \in littered' => d \in littered
  BY <1>4
<1>16. \A t \in told' : t \in told \/
         /\ t.n = k.n /\ m.pc = "end" /\ Truthful(t, files', calls)
         /\ t.how \notin Good => Records!Creates(k) /\ k.pc # "unlink"
  BY <1>5, <1>6, <1>7, <1>14
<1>17. QED BY <1>1, <1>5, <1>6, <1>9, <1>10, <1>11, <1>15, <1>16, CallMoves

(* Every call begins in order.                                              *)
LEMMA BegunCalls ==
  ASSUME RecordsInv, NEW n \in Nat, NEW k \in Records!Calls(n)
  PROVE  DOMAIN k = Fields /\ k.n = n /\ k.pc = "look" /\ UnderWay(k, files)
<1>1. CASE k \in Records!FlatCalls(n)
  <2>1. PICK kind \in RecordKinds \cap Records!Flat, i \in Names : k = Records!New("flat", kind, i, n)
    BY <1>1 DEF Records!FlatCalls
  <2>2. /\ DOMAIN k = Fields /\ k.pc = "look" /\ k.op = "flat" /\ k.kind = kind /\ k.id = i
        /\ k.n = n /\ k.bind = FALSE /\ k.collided = FALSE /\ k.digest = 0
    BY <2>1 DEF Records!New, Records!Rest, Fields
  <2>3. QED BY <2>2 DEF UnderWay, OfKind, Late
<1>2. CASE k \in Records!ExclusiveCalls(n)
  <2>1. PICK kind \in RecordKinds \cap Records!Exclusive, i \in Names :
          k = [Records!New("exclusive", kind, i, n) EXCEPT !.draws = 1]
    BY <1>2 DEF Records!ExclusiveCalls
  <2> DEFINE new == Records!New("exclusive", kind, i, n)
  <2>2. /\ DOMAIN new = Fields /\ new.pc = "look" /\ new.op = "exclusive" /\ new.kind = kind
        /\ new.id = i /\ new.n = n /\ new.bind = FALSE /\ new.collided = FALSE /\ new.digest = 0
    BY DEF Records!New, Records!Rest, Fields
  <2> HIDE DEF new
  <2>3. /\ DOMAIN k = Fields /\ k.pc = "look" /\ k.op = "exclusive" /\ k.kind = kind
        /\ k.id = i /\ k.n = n /\ k.bind = FALSE /\ k.collided = FALSE /\ k.digest = 0
    BY <2>1, <2>2 DEF Fields, new
  <2>4. QED BY <2>3 DEF UnderWay, OfKind, Late
<1>3. CASE k \in Records!PatchCalls(n)
  <2>1. PICK i \in Names : \E asked \in {Records!DigestAt(i), 0} :
          k = [Records!New("patch", "patch", i, n) EXCEPT !.bind = TRUE, !.digest = asked]
    BY <1>3 DEF Records!PatchCalls
  <2>0. PICK asked \in {Records!DigestAt(i), 0} :
          k = [Records!New("patch", "patch", i, n) EXCEPT !.bind = TRUE, !.digest = asked]
    BY <2>1
  <2> DEFINE new == Records!New("patch", "patch", i, n)
  <2>2. /\ DOMAIN new = Fields /\ new.pc = "look" /\ new.op = "patch" /\ new.kind = "patch"
        /\ new.id = i /\ new.n = n /\ new.collided = FALSE
    BY DEF Records!New, Records!Rest, Fields
  <2>3. k = [new EXCEPT !.bind = TRUE, !.digest = asked]
    BY <2>0
  <2>4. files[<<"change", i>>] \in Contents
    BY PathsOfRecords DEF RecordsInv, FilesTrue
  <2>5. asked \in Nat
    BY <2>4, IsWhole DEF Records!DigestAt, Whole
  <2> HIDE DEF new
  <2>6. /\ DOMAIN k = Fields /\ k.pc = "look" /\ k.op = "patch" /\ k.kind = "patch"
        /\ k.id = i /\ k.n = n /\ k.bind = TRUE /\ k.collided = FALSE /\ k.digest = asked
    BY <2>2, <2>3 DEF Fields
  <2>7. QED BY <2>5, <2>6 DEF UnderWay, OfKind, Late
<1>4. CASE k \in Records!RewriteCalls(n)
  <2>1. PICK i \in Names :
          /\ files[<<"change", i>>].is = "whole"
          /\ k = [Records!New("rewrite", "change", i, n) EXCEPT
                    !.bind = TRUE, !.value = files[<<"change", i>>]]
    BY <1>4 DEF Records!RewriteCalls
  <2> DEFINE new == Records!New("rewrite", "change", i, n)
             old == files[<<"change", i>>]
  <2>2. /\ DOMAIN new = Fields /\ new.pc = "look" /\ new.op = "rewrite" /\ new.kind = "change"
        /\ new.id = i /\ new.n = n /\ new.collided = FALSE /\ new.digest = 0
    BY DEF Records!New, Records!Rest, Fields
  <2>3. k = [new EXCEPT !.bind = TRUE, !.value = old] /\ old.is = "whole"
        /\ files[<<"change", i>>] = old
    BY <2>1
  <2> HIDE DEF new, old
  <2>4. /\ DOMAIN k = Fields /\ k.pc = "look" /\ k.op = "rewrite" /\ k.kind = "change"
        /\ k.id = i /\ k.n = n /\ k.bind = TRUE /\ k.collided = FALSE /\ k.digest = 0
        /\ k.value = old
    BY <2>2, <2>3 DEF Fields
  <2>5. QED BY <2>3, <2>4 DEF UnderWay, OfKind, Late
<1>5. CASE k \in Records!WriteCalls(n)
  <2>1. PICK kind \in (RecordKinds \cap Records!Mutable) \cup {"page"}, i \in Names :
          k = Records!New("write", kind, i, n)
    BY <1>5 DEF Records!WriteCalls
  <2>2. /\ DOMAIN k = Fields /\ k.pc = "look" /\ k.op = "write" /\ k.kind = kind /\ k.id = i
        /\ k.n = n /\ k.bind = FALSE /\ k.collided = FALSE /\ k.digest = 0
    BY <2>1 DEF Records!New, Records!Rest, Fields
  <2>3. QED BY <2>2 DEF UnderWay, OfKind, Late
<1>6. CASE k \in Records!ReadCalls(n)
  <2>1. PICK p \in Records!Paths, r \in BOOLEAN :
          k = [Records!New("read", p[1], p[2], n) EXCEPT !.readonly = r]
    BY <1>6 DEF Records!ReadCalls
  <2>2. p[1] \in RecordKinds \cup {"page", "patch"} /\ p[2] \in Names
    BY DEF Records!Paths
  <2> DEFINE new == Records!New("read", p[1], p[2], n)
  <2>3. /\ DOMAIN new = Fields /\ new.pc = "look" /\ new.op = "read" /\ new.kind = p[1]
        /\ new.id = p[2] /\ new.n = n /\ new.bind = FALSE /\ new.collided = FALSE /\ new.digest = 0
    BY DEF Records!New, Records!Rest, Fields
  <2>4. k = [new EXCEPT !.readonly = r]
    BY <2>1
  <2> HIDE DEF new
  <2>5. /\ DOMAIN k = Fields /\ k.pc = "look" /\ k.op = "read" /\ k.kind = p[1]
        /\ k.id = p[2] /\ k.n = n /\ k.bind = FALSE /\ k.collided = FALSE /\ k.digest = 0
    BY <2>3, <2>4 DEF Fields
  <2>6. QED BY <2>2, <2>5 DEF UnderWay, OfKind, Late
<1>7. QED BY <1>1, <1>2, <1>3, <1>4, <1>5, <1>6 DEF Records!Calls

(* A call that begins has a number of its own.                              *)
LEMMA BeginStep ==
  ASSUME RecordsInv, NEW c \in Callers, Records!Begin(c)
  PROVE  RecordsInv'
<1>1. /\ call[c].pc = "end" /\ calls' = calls + 1 /\ calls \in Nat
      /\ UNCHANGED <<files, temps, told, littered, trouble>>
  BY DEF Records!Begin, Records!At, RecordsInv
<1> DEFINE n == calls + 1
<1>2. PICK k \in Records!Calls(n) : call' = [call EXCEPT ![c] = k]
  BY <1>1 DEF Records!Begin
<1>3. DOMAIN k = Fields /\ k.n = n /\ k.pc = "look" /\ UnderWay(k, files) /\ n \in Nat
  BY <1>1, BegunCalls
<1>4. /\ call = [d \in Callers |-> call[d]] /\ call' = [d \in Callers |-> call'[d]]
      /\ call'[c] = k /\ \A d \in Callers \ {c} : call'[d] = call[d]
  BY <1>2 DEF RecordsInv
<1>5. FilesTrue(files', calls')
  <2>1. /\ FilesTrue(files, calls)
        /\ \A p \in Records!Paths : files[p].is = "whole" => files[p].origin \in Nat
    BY IsWhole DEF RecordsInv, FilesTrue, Whole
  <2>2. QED BY <1>1, <2>1 DEF FilesTrue
<1>6. ASSUME NEW p \in Records!Paths, files'[p].is = "whole"
      PROVE  Standing(files'[p].origin, told', call')
  <2>1. Standing(files[p].origin, told, call) /\ files[p].origin =< calls
    BY <1>1, <1>6 DEF RecordsInv, FilesTrue
  <2>2. k.n # files[p].origin
    BY <1>1, <1>3, <2>1
  <2>3. QED BY <1>1, <1>4, <2>1, <2>2 DEF Standing
<1>7. ASSUME NEW d \in Callers PROVE DOMAIN call'[d] = Fields /\ InOrder(call'[d], files')
  <2>1. CASE d = c
    BY <1>1, <1>3, <1>4, <2>1 DEF InOrder
  <2>2. CASE d # c
    BY <1>1, <1>4, <2>2 DEF RecordsInv
  <2>3. QED BY <2>1, <2>2
<1>8. ASSUME NEW d \in Callers, call'[d].pc # "end"
      PROVE  /\ call'[d].n \in 1..calls' /\ \A t \in told' : t.n # call'[d].n
             /\ \A e \in Callers \ {d} : call'[e].pc # "end" => call'[e].n # call'[d].n
  <2>1. \A t \in told : t.n \in 1..calls
    BY DEF RecordsInv, Truthful
  <2>2. \A e \in Callers : call[e].pc # "end" => call[e].n \in 1..calls
    BY DEF RecordsInv
  <2>3. CASE d = c
    BY <1>1, <1>3, <1>4, <2>1, <2>2, <2>3
  <2>4. CASE d # c
    <3>1. /\ call[d].pc # "end" /\ call[d].n \in 1..calls /\ \A t \in told : t.n # call[d].n
          /\ \A e \in Callers \ {d} : call[e].pc # "end" => call[e].n # call[d].n
      BY <1>4, <1>8, <2>4 DEF RecordsInv
    <3>2. QED BY <1>1, <1>3, <1>4, <2>4, <3>1
  <2>5. QED BY <2>3, <2>4
<1>9. \A t \in told' : Truthful(t, files', calls')
  BY <1>1 DEF RecordsInv, Truthful
<1>10. \A t \in temps' : t.n \in Nat /\ t.n =< calls'
  BY <1>1 DEF RecordsInv
<1>11. ASSUME NEW d \in Callers PROVE KeepsTemps(d, call'[d], temps', littered')
  <2>1. KeepsTemps(d, call[d], temps, littered) /\ \A t \in temps : t.n \in Nat /\ t.n =< calls
    BY DEF RecordsInv
  <2>2. CASE d = c
    BY <1>1, <1>3, <1>4, <2>1, <2>2 DEF KeepsTemps
  <2>3. CASE d # c
    BY <1>1, <1>4, <2>1, <2>3
  <2>4. QED BY <2>2, <2>3
<1>12. calls' \in Nat
  BY <1>1
<1>13. QED BY <1>4, <1>5, <1>6, <1>7, <1>8, <1>9, <1>10, <1>11, <1>12 DEF RecordsInv

(* A stranger takes no name that is in use.                                 *)
LEMMA StrangerStep ==
  ASSUME RecordsInv, Records!Stranger
  PROVE  RecordsInv'
<1>1. UNCHANGED <<temps, call, calls, told, littered>>
  BY DEF Records!Stranger
<1>2. PICK p \in Records!Paths :
        /\ files[p].is \in {"absent", "special"}
        /\ files' = [files EXCEPT ![p] = IF @ = Records!Absent THEN Records!Special ELSE Records!Absent]
  BY DEF Records!Stranger
<1>3. files \in [Records!Paths -> Contents] /\ FilesTrue(files, calls)
  BY DEF RecordsInv, FilesTrue
<1>4. /\ files'[p].is \in {"absent", "special"}
      /\ \A q \in Records!Paths : q # p => files'[q] = files[q]
      /\ files' \in [Records!Paths -> Contents]
  BY <1>2, <1>3 DEF Contents, Records!Absent, Records!Special
<1>5. \A q \in Records!Paths : files[q].is = "whole" => files'[q] = files[q]
  BY <1>2, <1>4
<1>6. \A q \in Records!Paths : files'[q].is = "whole" => files'[q] = files[q]
  BY <1>4
<1>7. FilesTrue(files', calls')
  <2>1. \A q \in Records!Paths : files'[q].is = "whole" =>
          /\ files'[q].origin =< calls
          /\ q[1] # "report" => files'[q].id = q[2] /\ files'[q].patch = q[2]
    BY <1>3, <1>6 DEF FilesTrue
  <2>2. ASSUME NEW i \in Names, files'[<<"patch", i>>].is = "whole"
        PROVE  /\ files'[<<"change", i>>].is = "whole"
               /\ files'[<<"change", i>>].digest = files'[<<"patch", i>>].digest
    <3>1. files'[<<"patch", i>>] = files[<<"patch", i>>]
      BY <1>6, <2>2, PathsOfRecords
    <3>2. /\ files[<<"change", i>>].is = "whole"
          /\ files[<<"change", i>>].digest = files[<<"patch", i>>].digest
      BY <1>3, <2>2, <3>1 DEF FilesTrue
    <3>3. QED BY <1>5, <3>1, <3>2, PathsOfRecords
  <2>3. QED BY <1>1, <1>4, <2>1, <2>2 DEF FilesTrue
<1>8. Frozen(files, files')
  BY <1>5 DEF Frozen
<1>9. \A q \in Records!Paths : files'[q].is = "whole" => Standing(files'[q].origin, told', call')
  BY <1>1, <1>6 DEF RecordsInv
<1>10. ASSUME NEW d \in Callers PROVE DOMAIN call'[d] = Fields /\ InOrder(call'[d], files')
  <2>1. DOMAIN call[d] = Fields /\ InOrder(call[d], files)
    BY DEF RecordsInv
  <2>2. InOrder(call[d], files')
    BY <1>3, <1>8, <2>1, CallStays
  <2>3. QED BY <1>1, <2>1, <2>2
<1>11. ASSUME NEW t \in told PROVE Truthful(t, files', calls)
  <2>1. Truthful(t, files, calls)
    BY DEF RecordsInv
  <2>2. QED BY <1>5, <2>1 DEF Truthful, Stands
<1>12. QED BY <1>1, <1>7, <1>9, <1>10, <1>11 DEF RecordsInv

(* Every step keeps the invariant.                                          *)
LEMMA RecordsStep == RecordsInv /\ Records!Next => RecordsInv'
<1> SUFFICES ASSUME RecordsInv, Records!Next PROVE RecordsInv'
  OBVIOUS
<1>1. ASSUME NEW c \in Callers,
             \/ Records!Begin(c) \/ Records!Look(c) \/ Records!LookAtPage(c) \/ Records!Load(c)
             \/ Records!Prepare(c) \/ Records!Rename(c) \/ Records!Link(c) \/ Records!Unlink(c)
             \/ Records!Clean(c) \/ Records!Recheck(c) \/ Records!Crash(c)
      PROVE  RecordsInv'
  BY <1>1, BeginStep, LookStep, LookAtPageStep, LoadStep, PrepareStep, RenameStep, LinkStep,
     UnlinkStep, CleanStep, RecheckStep, CrashStep
<1>2. QED BY <1>1, StrangerStep DEF Records!Next

(* So does a step of another part.                                          *)
LEMMA RecordsRest == RecordsInv /\ UNCHANGED recordVars => RecordsInv'
BY DEF recordVars, RecordsInv, FilesTrue, Standing, InOrder, UnderWay, Ended, Truthful, Stands,
       KeepsTemps, Records!Value

(* RecordsStand (workspace-records.ts, state-files.ts): for every number of hosts *)
(* and of ids, whatever ids are drawn and whichever call fails or host dies, what a *)
(* creation told stands, what failed left nothing, a patch is the one its change *)
(* asks for, a read returned what was asked and no temporary file is left behind. *)
THEOREM RecordsAreKept == PartSpec => []RecordsStand
<1>1. PartInit => RecordsInv
  BY RecordsInit DEF PartInit
<1>2. RecordsInv /\ [PartNext]_partVars => RecordsInv'
  BY RecordsStep, RecordsRest DEF PartNext, partVars
<1>3. QED BY <1>1, <1>2, RecordsKeep, PTL DEF PartSpec

-----------------------------------------------------------------------------
(* The copy of an input (RunInput).                                         *)

(* A visit lists a directory before what is in it.                          *)
Before(visit) == \A i \in DOMAIN visit : visit[i] = "inner" =>
                   \E j \in DOMAIN visit : j < i /\ visit[j] = "dir"

(* The entry of a copy that was made of an item.                            *)
Item(i) == [kind |-> items[i].kind, by |-> "source"]

(* The items before the next are in the copy, under the kind they were listed *)
(* with; what else is there was planted.                                    *)
Listed ==
  /\ within = {}
  /\ items \in Seq([path : Tree!Entries, kind : {"file", "dir"}])
  /\ \A i \in DOMAIN items : items[i].path = "inner" =>
       \E j \in DOMAIN items : j < i /\ items[j].path = "dir" /\ items[j].kind = "dir"
  /\ next \in Nat \ {0} /\ next <= Len(items) + 1
  /\ \A i \in DOMAIN items : i < next => copied[items[i].path] = Item(i)
  /\ \A p \in Tree!Entries : copied[p] = Tree!None \/ p \in planted
                               \/ \E i \in DOMAIN items : i < next /\ items[i].path = p
  /\ ipc = "put" => next <= Len(items) /\ present = items[next].kind
  /\ ipc = "copied" => next > Len(items)

(* Nothing is copied before the preflight; after it, the copy follows the list. *)
TreeInv ==
  /\ tree \in [Tree!Entries -> Tree!Kinds \cup {"none"}]
  /\ copied = [p \in Tree!Entries |-> copied[p]]
  /\ planted \subseteq Tree!Entries
  /\ \A p \in planted : copied[p].by = "other"
  /\ ipc \in {"prepare", "refused", "look", "put", "failed", "copied"}
  /\ ipc = "prepare" => /\ tree["dir"] # "dir" => tree["inner"] = "none"
                        /\ next = 1 /\ copied = [p \in Tree!Entries |-> Tree!None]
  /\ ipc \notin {"prepare", "refused"} => Listed

(* The types of the list, and that an item is something.                    *)
LEMMA ItemsOfThis ==
  ASSUME Listed
  PROVE  /\ Len(items) \in Nat /\ DOMAIN items = 1..Len(items)
         /\ \A i \in DOMAIN items : /\ items[i].path \in Tree!Entries
                                   /\ items[i].kind \in {"file", "dir"} /\ Item(i) # Tree!None
<1> DEFINE S == [path : Tree!Entries, kind : {"file", "dir"}]
<1>1. items \in Seq(S)
  BY DEF Listed
<1>2. \A s \in S : s.path \in Tree!Entries /\ s.kind \in {"file", "dir"}
  OBVIOUS
<1> HIDE DEF S
<1>3. Len(items) \in Nat /\ DOMAIN items = 1..Len(items) /\ \A i \in DOMAIN items : items[i] \in S
  BY <1>1
<1>4. \A i \in DOMAIN items : items[i].path \in Tree!Entries /\ items[i].kind \in {"file", "dir"}
  BY <1>2, <1>3
<1>5. \A i \in DOMAIN items : Item(i).kind = items[i].kind
  BY DEF Item
<1>6. Tree!None.kind = "none"
  BY DEF Tree!None
<1>7. QED BY <1>3, <1>4, <1>5, <1>6

(* The invariant holds at the start.                                        *)
LEMMA TreeInit == Tree!Init => TreeInv
<1> SUFFICES ASSUME Tree!Init PROVE TreeInv
  OBVIOUS
<1>1. planted = {} /\ ipc = "prepare" /\ next = 1 /\ copied = [p \in Tree!Entries |-> Tree!None]
  BY DEF Tree!Init
<1>2. tree \in [Tree!Entries -> Tree!Kinds \cup {"none"}]
      /\ (tree["dir"] # "dir" => tree["inner"] = "none")
  BY DEF Tree!Init
<1>3. QED BY <1>1, <1>2 DEF TreeInv

(* It is enough: in the end every item is in the copy.                      *)
LEMMA TreeKeep == TreeInv => Tree!CopyFaithful
<1> SUFFICES ASSUME TreeInv PROVE Tree!CopyFaithful
  OBVIOUS
<1>1. \A p \in planted : copied[p].by = "other"
  BY DEF TreeInv
<1>2. ASSUME ipc = "copied"
      PROVE  /\ within = {}
             /\ \A p \in Tree!Entries :
                  IF \E i \in DOMAIN items : items[i].path = p
                  THEN copied[p] =
                         [kind |-> (CHOOSE i \in {items[j] : j \in DOMAIN items} : i.path = p).kind,
                          by |-> "source"]
                  ELSE copied[p] = Tree!None \/ p \in planted
             /\ copied["inner"].by = "source" /\ copied["inner"] # Tree!None =>
                  copied["dir"].kind = "dir"
  <2>1. Listed /\ next > Len(items)
    BY <1>2 DEF TreeInv, Listed
  <2>2. \A i \in DOMAIN items : i < next /\ copied[items[i].path] = Item(i)
    BY <2>1 DEF Listed
  <2>3. ASSUME NEW p \in Tree!Entries, NEW i \in DOMAIN items, items[i].path = p
        PROVE  copied[p] = [kind |-> (CHOOSE x \in {items[j] : j \in DOMAIN items} : x.path = p).kind,
                            by |-> "source"]
    <3> DEFINE All == {items[j] : j \in DOMAIN items}
               x == CHOOSE x \in All : x.path = p
    <3>1. \E y \in All : y.path = p
      BY <2>3
    <3>2. x \in All /\ x.path = p
      BY <3>1
    <3>3. PICK j \in DOMAIN items : x = items[j]
      BY <3>2
    <3> HIDE DEF x, All
    <3>4. copied[p] = [kind |-> x.kind, by |-> "source"]
      BY <2>2, <3>2, <3>3 DEF Item
    <3>5. QED BY <3>4 DEF x, All
  <2>4. \A p \in Tree!Entries : (~ \E i \in DOMAIN items : items[i].path = p) =>
          copied[p] = Tree!None \/ p \in planted
    BY <2>1 DEF Listed
  <2>5. copied["inner"].by = "source" /\ copied["inner"] # Tree!None => copied["dir"].kind = "dir"
    <3> SUFFICES ASSUME copied["inner"].by = "source", copied["inner"] # Tree!None
                 PROVE  copied["dir"].kind = "dir"
      OBVIOUS
    <3>1. "inner" \in Tree!Entries /\ "inner" \notin planted
      BY <1>1 DEF Tree!Entries
    <3>2. PICK i \in DOMAIN items : items[i].path = "inner"
      BY <2>4, <3>1
    <3>3. PICK j \in DOMAIN items : items[j].path = "dir" /\ items[j].kind = "dir"
      BY <2>1, <3>2 DEF Listed
    <3>4. copied["dir"] = Item(j) /\ Item(j).kind = "dir"
      BY <2>2, <3>3 DEF Item
    <3>5. QED BY <3>4
  <2>6. within = {}
    BY <2>1 DEF Listed
  <2>7. QED BY <2>3, <2>4, <2>5, <2>6
<1>3. QED BY <1>1, <1>2 DEF Tree!CopyFaithful

(* The orders in which a tree is visited.                                   *)
LEMMA VisitsInOrder == \A visit \in Tree!Visits : visit \in Seq(Tree!Entries) /\ Before(visit)
<1> USE DEF Tree!Entries, Tree!Para, Before
<1>1. <<"para">> \in Seq(Tree!Entries) /\ Before(<<"para">>)
  OBVIOUS
<1>2. <<"para", "dir">> \in Seq(Tree!Entries) /\ Before(<<"para", "dir">>)
  OBVIOUS
<1>3. <<"dir", "para">> \in Seq(Tree!Entries) /\ Before(<<"dir", "para">>)
  OBVIOUS
<1>4. <<"para", "dir", "inner">> \in Seq(Tree!Entries) /\ Before(<<"para", "dir", "inner">>)
  OBVIOUS
<1>5. <<"dir", "inner", "para">> \in Seq(Tree!Entries) /\ Before(<<"dir", "inner", "para">>)
  OBVIOUS
<1>6. QED BY <1>1, <1>2, <1>3, <1>4, <1>5 DEF Tree!Visits

(* Every step keeps the invariant.                                          *)
LEMMA TreeStep == TreeInv /\ (Tree!Next \/ UNCHANGED treeVars) => TreeInv'
<1> SUFFICES ASSUME TreeInv, Tree!Next \/ UNCHANGED treeVars PROVE TreeInv'
  OBVIOUS
<1>1. CASE UNCHANGED treeVars
  BY <1>1, ZenonT(60) DEF treeVars, TreeInv, Listed, Item
<1>2. CASE Tree!PrepareInput
  <2>1. ipc = "prepare" /\ UNCHANGED <<tree, within, next, copied, planted>>
    BY <1>2 DEF Tree!PrepareInput
  <2>2. CASE ipc' = "refused"
    BY <2>1, <2>2 DEF TreeInv
  <2>3. CASE ipc' # "refused"
    <3>1. ~Tree!Contained /\ Tree!Safe /\ ipc' = "look"
      BY <1>2, <2>3 DEF Tree!PrepareInput
    <3>2. PICK visit \in Tree!Visits :
            /\ Tree!Found(visit)
            /\ items' = [i \in DOMAIN visit |-> [path |-> visit[i], kind |-> tree[visit[i]]]]
      BY <1>2, <2>3 DEF Tree!PrepareInput
    <3>3. visit \in Seq(Tree!Entries) /\ Before(visit)
      BY VisitsInOrder
    <3>4. \A i \in DOMAIN visit : visit[i] \in Tree!Entries /\ tree[visit[i]] \in {"file", "dir"}
      <4>1. \A i \in DOMAIN visit : visit[i] \in Tree!Entries /\ tree[visit[i]] # "none"
        BY <3>2, <3>3 DEF Tree!Found, Tree!ToSet
      <4>2. QED BY <3>1, <4>1 DEF Tree!Safe
    <3>5. tree["inner"] # "none" => tree["dir"] = "dir"
      BY <2>1 DEF TreeInv
    <3>6. /\ DOMAIN items' = DOMAIN visit
          /\ \A i \in DOMAIN visit : items'[i] = [path |-> visit[i], kind |-> tree[visit[i]]]
      BY <3>2
    <3>7. items' \in Seq([path : Tree!Entries, kind : {"file", "dir"}]) /\ Len(items') \in Nat
      <4> DEFINE S == [path : Tree!Entries, kind : {"file", "dir"}]
                 n == Len(visit)
      <4>1. n \in Nat /\ DOMAIN visit = 1..n
        BY <3>3
      <4>2. \A i \in 1..n : [path |-> visit[i], kind |-> tree[visit[i]]] \in S
        BY <3>4, <4>1
      <4> HIDE DEF S
      <4>3. items' \in [1..n -> S]
        BY <3>2, <4>1, <4>2
      <4> HIDE DEF n
      <4>4. items' \in Seq(S) /\ Len(items') = n
        BY <4>1, <4>3
      <4>5. QED BY <4>1, <4>4 DEF S
    <3>8. \A i \in DOMAIN items' : items'[i].path = "inner" =>
            \E j \in DOMAIN items' : j < i /\ items'[j].path = "dir" /\ items'[j].kind = "dir"
      BY <3>3, <3>4, <3>5, <3>6 DEF Before
    <3>9. within = {} /\ next = 1 /\ copied = [p \in Tree!Entries |-> Tree!None]
      BY <2>1, <3>1 DEF Tree!Contained, TreeInv
    <3>10. \A i \in DOMAIN items' : ~(i < 1)
      BY <3>3, <3>6
    <3>11. Listed'
      BY <2>1, <3>1, <3>7, <3>8, <3>9, <3>10 DEF Listed
    <3>12. QED BY <2>1, <3>1, <3>11 DEF TreeInv
  <2>4. QED BY <2>2, <2>3
<1>3. CASE Tree!Look
  <2>1. ipc = "look" /\ Listed /\ UNCHANGED <<tree, within, items, next, copied, planted>>
    BY <1>3 DEF Tree!Look, TreeInv
  <2>2. /\ ipc' \in {"copied", "failed", "put"} /\ (ipc' = "copied" => next > Len(items))
        /\ ipc' = "put" => next <= Len(items) /\ present' = items[next].kind
    BY <1>3, <2>1 DEF Tree!Look, Listed
  <2>3. Listed'
    BY <2>1, <2>2 DEF Listed, Item
  <2>4. QED BY <2>1, <2>2, <2>3 DEF TreeInv
<1>4. CASE Tree!Put
  <2> DEFINE p == items[next].path
  <2>1. ipc = "put" /\ Listed /\ UNCHANGED <<tree, within, items, present, planted>>
    BY <1>4 DEF Tree!Put, Tree!Place, TreeInv
  <2>2. CASE ipc' = "failed" /\ UNCHANGED <<copied, next>>
    <3>1. Listed'
      BY <2>1, <2>2 DEF Listed, Item
    <3>2. QED BY <2>1, <2>2, <3>1 DEF TreeInv
  <2>3. CASE /\ copied[p] = Tree!None /\ next' = next + 1 /\ ipc' = "look"
             /\ copied' = [copied EXCEPT ![p] = [kind |-> present, by |-> "source"]]
    <3>1. next \in DOMAIN items /\ present = items[next].kind /\ p \in Tree!Entries
      BY <2>1, ItemsOfThis DEF Listed
    <3>2. p \notin planted
      BY <2>3 DEF TreeInv, Tree!None
    <3>3. /\ copied' = [q \in Tree!Entries |-> copied'[q]] /\ copied'[p] = Item(next)
          /\ \A q \in Tree!Entries : q # p => copied'[q] = copied[q]
      BY <2>3, <3>1 DEF TreeInv, Item
    <3>4. \A i \in DOMAIN items : i < next => items[i].path # p
      <4>1. \A i \in DOMAIN items : Item(i) # Tree!None
        BY <2>1, ItemsOfThis
      <4>2. QED BY <2>1, <2>3, <4>1 DEF Listed
    <3>5. \A i \in DOMAIN items : i < next + 1 => copied'[items[i].path] = Item(i)
      <4> SUFFICES ASSUME NEW i \in DOMAIN items, i < next + 1
                   PROVE  copied'[items[i].path] = Item(i)
        OBVIOUS
      <4>1. i = next \/ i < next
        BY <2>1, ItemsOfThis DEF Listed
      <4>2. CASE i = next
        BY <3>3, <4>2
      <4>3. CASE i < next
        BY <2>1, <3>3, <3>4, <4>3, ItemsOfThis DEF Listed
      <4>4. QED BY <4>1, <4>2, <4>3
    <3>6. \A q \in Tree!Entries : copied'[q] = Tree!None \/ q \in planted
                                    \/ \E i \in DOMAIN items : i < next + 1 /\ items[i].path = q
      BY <2>1, <3>1, <3>3 DEF Listed
    <3>7. Listed'
      BY <2>1, <2>3, <3>1, <3>5, <3>6 DEF Listed, Item
    <3>8. \A q \in planted : copied'[q].by = "other"
      BY <3>2, <3>3 DEF TreeInv
    <3>9. QED BY <2>1, <2>3, <3>3, <3>7, <3>8 DEF TreeInv
  <2>4. QED BY <1>4, <2>2, <2>3 DEF Tree!Put, Tree!Place
<1>5. ASSUME NEW p \in Tree!Entries, Tree!Change(p) PROVE TreeInv'
  <2>1. ipc \in {"look", "put"} /\ Listed /\ UNCHANGED <<within, ipc, items, next, present>>
    BY <1>5 DEF Tree!Change, TreeInv
  <2>2. tree' \in [Tree!Entries -> Tree!Kinds \cup {"none"}]
    BY <1>5 DEF Tree!Change, TreeInv, Tree!KindsAt, Tree!Kinds
  <2>3. CASE UNCHANGED <<copied, planted>>
    <3>1. Listed'
      BY <2>1, <2>3 DEF Listed, Item
    <3>2. QED BY <2>1, <2>2, <2>3, <3>1 DEF TreeInv
  <2>4. CASE /\ copied[p] = Tree!None /\ planted' = planted \cup {p}
             /\ copied' = [copied EXCEPT ![p] = [kind |-> "file", by |-> "other"]]
    <3>1. /\ copied' = [q \in Tree!Entries |-> copied'[q]] /\ copied'[p].by = "other"
          /\ \A q \in Tree!Entries : q # p => copied'[q] = copied[q]
      BY <2>4 DEF TreeInv
    <3>2. \A i \in DOMAIN items : i < next => items[i].path # p
      <4>1. \A i \in DOMAIN items : Item(i) # Tree!None
        BY <2>1, ItemsOfThis
      <4>2. QED BY <2>1, <2>4, <4>1 DEF Listed
    <3>3. \A i \in DOMAIN items : i < next => copied'[items[i].path] = Item(i)
      BY <2>1, <3>1, <3>2, ItemsOfThis DEF Listed
    <3>4. \A q \in Tree!Entries : copied'[q] = Tree!None \/ q \in planted'
                                    \/ \E i \in DOMAIN items : i < next /\ items[i].path = q
      BY <2>1, <2>4, <3>1 DEF Listed
    <3>5. Listed'
      BY <2>1, <3>3, <3>4 DEF Listed, Item
    <3>6. planted' \subseteq Tree!Entries /\ \A q \in planted' : copied'[q].by = "other"
      BY <2>4, <3>1 DEF TreeInv
    <3>7. QED BY <2>1, <2>2, <3>1, <3>5, <3>6 DEF TreeInv
  <2>5. QED BY <1>5, <2>3, <2>4 DEF Tree!Change
<1>6. QED BY <1>1, <1>2, <1>3, <1>4, <1>5 DEF Tree!Next

-----------------------------------------------------------------------------
(* Stack locks (StackLock).                                                 *)

(* Where a capture has a lock of its own in place.                          *)
Holding == {"write", "flush", "cleanup"}
(* What a lock can be.                                                      *)
LockFiles == [env : Environments, whole : BOOLEAN, by : Captures]

(* That lock is of its environment, and whole once it is to be flushed.     *)
Own(c) ==
  /\ lockId[c] \in Stacks!Locks /\ lock[lockId[c]] # Stacks!NoLock
  /\ lock[lockId[c]].by = c /\ lock[lockId[c]].env = environment[c]
  /\ cpc[c] = "flush" => lock[lockId[c]].whole

(* The lock a capture has selected is whole and of its environment, unless its *)
(* writer took it back.                                                     *)
Chosen(c) ==
  /\ selected[c] \in Stacks!Locks
  /\ \/ selected[c] \in withdrawn
     \/ /\ lock[selected[c]] # Stacks!NoLock /\ lock[selected[c]].whole
        /\ lock[selected[c]].env = environment[c]

(* Locks are owned by who writes them and chosen as they stand.             *)
LocksInv ==
  /\ lock \in [Stacks!Locks -> {Stacks!NoLock} \cup LockFiles]
  /\ environment \in [Captures -> Environments]
  /\ cpc = [c \in Captures |-> cpc[c]] /\ selected = [c \in Captures |-> selected[c]]
  /\ lockId = [c \in Captures |-> lockId[c]] /\ unread = [c \in Captures |-> unread[c]]
  /\ \A c \in Captures : unread[c] \subseteq Stacks!Locks
  /\ \A c \in Captures : cpc[c] = "create" => lockId[c] \in Stacks!Locks
  /\ \A c \in Captures : cpc[c] \in Holding => Own(c)
  /\ \A c \in Captures : selected[c] # 0 => Chosen(c)
  /\ \A c \in Captures : cpc[c] = "done" => selected[c] # 0

(* So it is at the start.                                                   *)
LEMMA LocksInit == Stacks!Init => LocksInv
BY DEF Stacks!Init, LocksInv, Holding

(* The invariant is enough.                                                 *)
LEMMA LocksKeep == LocksInv => Stacks!LocksStand
BY DEF LocksInv, Chosen, Stacks!LocksStand

(* No lock is the absence of one.                                           *)
LEMMA NoLockIsNone ==
  ASSUME NEW e \in Environments, NEW c \in Captures
  PROVE  /\ Stacks!Lock(e, FALSE, c) # Stacks!NoLock /\ Stacks!Lock(e, TRUE, c) # Stacks!NoLock
         /\ Stacks!Lock(e, FALSE, c).env = e /\ Stacks!Lock(e, TRUE, c).env = e
         /\ Stacks!Lock(e, FALSE, c).by = c /\ Stacks!Lock(e, TRUE, c).by = c
         /\ Stacks!Lock(e, TRUE, c).whole
<1>1. /\ "env" \in DOMAIN Stacks!Lock(e, FALSE, c) /\ "env" \in DOMAIN Stacks!Lock(e, TRUE, c)
      /\ "env" \notin DOMAIN Stacks!NoLock
  BY DEF Stacks!Lock, Stacks!NoLock
<1>2. /\ Stacks!Lock(e, FALSE, c).env = e /\ Stacks!Lock(e, TRUE, c).env = e
      /\ Stacks!Lock(e, FALSE, c).by = c /\ Stacks!Lock(e, TRUE, c).by = c
      /\ Stacks!Lock(e, TRUE, c).whole
  BY DEF Stacks!Lock
<1>3. Stacks!Lock(e, FALSE, c) # Stacks!NoLock /\ Stacks!Lock(e, TRUE, c) # Stacks!NoLock
  BY <1>1
<1>4. QED BY <1>2, <1>3

(* A capture that writes or takes back its own lock disturbs nobody: a lock keeps *)
(* its environment, and once whole it stays so or is withdrawn.             *)
LEMMA LockChanges ==
  ASSUME LocksInv, NEW c \in Captures, NEW n \in Stacks!Locks, NEW new,
         lock' = [lock EXCEPT ![n] = new], new \in {Stacks!NoLock} \cup LockFiles,
         lock[n] = Stacks!NoLock \/ (lock[n].by = c /\ lock[n].env = environment[c]),
         lock[n] # Stacks!NoLock /\ new # Stacks!NoLock => new.env = environment[c],
         lock[n] # Stacks!NoLock /\ new # Stacks!NoLock /\ lock[n].whole => new.whole,
         lock[n] # Stacks!NoLock /\ new = Stacks!NoLock /\ lock[n].whole => n \in withdrawn',
         withdrawn \subseteq withdrawn', UNCHANGED <<environment, selected, unread>>,
         cpc' = [cpc EXCEPT ![c] = cpc'[c]], lockId' = [lockId EXCEPT ![c] = lockId'[c]],
         cpc'[c] \in Holding => Own(c)', cpc'[c] # "create",
         cpc'[c] = "done" => selected[c] # 0
  PROVE  LocksInv'
<1>1. /\ lock' \in [Stacks!Locks -> {Stacks!NoLock} \cup LockFiles]
      /\ lock'[n] = new /\ \A m \in Stacks!Locks : m # n => lock'[m] = lock[m]
  BY DEF LocksInv
<1>2. ASSUME NEW d \in Captures, cpc'[d] \in Holding PROVE Own(d)'
  <2>1. CASE d = c
    BY <1>2, <2>1
  <2>2. CASE d # c
    <3>1. Own(d) /\ cpc'[d] = cpc[d] /\ lockId'[d] = lockId[d]
      BY <1>2, <2>2 DEF LocksInv
    <3>2. lockId[d] # n
      BY <2>2, <3>1 DEF Own
    <3>3. QED BY <1>1, <3>1, <3>2 DEF Own
  <2>3. QED BY <2>1, <2>2
<1>3. ASSUME NEW d \in Captures, selected[d] # 0 PROVE Chosen(d)'
  <2>1. Chosen(d)
    BY <1>3 DEF LocksInv
  <2>2. CASE selected[d] # n
    BY <1>1, <2>1, <2>2 DEF Chosen
  <2>3. CASE selected[d] = n
    BY <1>1, <2>1, <2>3 DEF Chosen
  <2>4. QED BY <2>2, <2>3
<1>4. \A d \in Captures : /\ cpc'[d] = "create" => lockId'[d] \in Stacks!Locks
                          /\ cpc'[d] = "done" => selected'[d] # 0
  BY DEF LocksInv
<1>5. QED BY <1>1, <1>2, <1>3, <1>4 DEF LocksInv

(* Every step keeps the invariant.                                          *)
LEMMA LocksStep == LocksInv /\ (Stacks!Next \/ UNCHANGED lockVars) => LocksInv'
<1> SUFFICES ASSUME LocksInv, Stacks!Next \/ UNCHANGED lockVars PROVE LocksInv'
  OBVIOUS
<1> USE DEF Stacks!Set, Stacks!Goes
<1>1. CASE UNCHANGED lockVars
  BY <1>1 DEF lockVars, LocksInv, Own, Chosen
<1>2. ASSUME NEW c \in Captures, Stacks!Enumerate(c) PROVE LocksInv'
  BY <1>2 DEF Stacks!Enumerate, LocksInv, Own, Chosen, Holding
<1>3. ASSUME NEW c \in Captures, Stacks!Match(c) PROVE LocksInv'
  BY <1>3 DEF Stacks!Match, LocksInv, Own, Chosen, Holding
<1>4. ASSUME NEW c \in Captures, Stacks!Matched(c) PROVE LocksInv'
  BY <1>4 DEF Stacks!Matched, LocksInv, Own, Chosen, Holding
<1>5. ASSUME NEW c \in Captures, Stacks!Create(c) PROVE LocksInv'
  <2>1. CASE lock[lockId[c]] = Stacks!NoLock
    <3> DEFINE n == lockId[c]  new == Stacks!Lock(environment[c], FALSE, c)
    <3>1. /\ n \in Stacks!Locks /\ lock' = [lock EXCEPT ![n] = new] /\ lock[n] = Stacks!NoLock
          /\ cpc' = [cpc EXCEPT ![c] = "write"]
          /\ UNCHANGED <<environment, unread, selected, lockId, withdrawn>>
      BY <1>5, <2>1 DEF Stacks!Create, LocksInv
    <3>2. new \in LockFiles
      BY DEF Stacks!Lock, LockFiles, LocksInv
    <3> HIDE DEF new
    <3>3. new # Stacks!NoLock /\ new.env = environment[c] /\ new.by = c
      BY NoLockIsNone, ZenonT(60) DEF new, LocksInv
    <3>4. cpc'[c] = "write" /\ lock'[n] = new
      BY <3>1 DEF LocksInv
    <3>5. Own(c)'
      BY <3>1, <3>3, <3>4 DEF Own
    <3> HIDE DEF n
    <3>6. cpc' = [cpc EXCEPT ![c] = cpc'[c]] /\ lockId' = [lockId EXCEPT ![c] = lockId'[c]]
      BY <3>1 DEF LocksInv
    <3>7. QED BY <3>1, <3>2, <3>3, <3>4, <3>5, <3>6, LockChanges
  <2>2. CASE lock[lockId[c]] # Stacks!NoLock
    BY <1>5, <2>2 DEF Stacks!Create, LocksInv, Own, Chosen, Holding
  <2>3. QED BY <2>1, <2>2
<1>6. ASSUME NEW c \in Captures, Stacks!Write(c) PROVE LocksInv'
  <2> DEFINE n == lockId[c]  new == Stacks!Lock(environment[c], TRUE, c)
  <2>1. cpc[c] = "write" /\ Own(c)
    BY <1>6 DEF Stacks!Write, LocksInv, Holding
  <2>2. CASE lock' = [lock EXCEPT ![n] = new] /\ cpc' = [cpc EXCEPT ![c] = "flush"]
    <3>1. /\ n \in Stacks!Locks
          /\ lock[n] # Stacks!NoLock /\ lock[n].by = c /\ lock[n].env = environment[c]
          /\ lock' = [lock EXCEPT ![n] = new]
          /\ UNCHANGED <<environment, unread, selected, lockId, withdrawn>>
      BY <1>6, <2>1, <2>2 DEF Own, Stacks!Write
    <3>2. new \in LockFiles
      BY DEF Stacks!Lock, LockFiles, LocksInv
    <3> HIDE DEF new
    <3>3. new # Stacks!NoLock /\ new.env = environment[c] /\ new.by = c /\ new.whole
      BY NoLockIsNone, ZenonT(60) DEF new, LocksInv
    <3>4. cpc'[c] = "flush" /\ lock'[n] = new
      BY <2>2, <3>1 DEF LocksInv
    <3>5. Own(c)'
      BY <3>1, <3>3, <3>4 DEF Own
    <3> HIDE DEF n
    <3>6. cpc' = [cpc EXCEPT ![c] = cpc'[c]] /\ lockId' = [lockId EXCEPT ![c] = lockId'[c]]
      BY <2>2, <3>1 DEF LocksInv
    <3>7. QED BY <3>1, <3>2, <3>3, <3>4, <3>5, <3>6, LockChanges
  <2>3. CASE UNCHANGED lock /\ cpc' = [cpc EXCEPT ![c] = "cleanup"]
    BY <1>6, <2>1, <2>3 DEF Stacks!Write, LocksInv, Own, Chosen, Holding
  <2>4. QED BY <1>6, <2>2, <2>3 DEF Stacks!Write
<1>7. ASSUME NEW c \in Captures, Stacks!Flush(c) PROVE LocksInv'
  <2>1. Own(c) /\ lock[lockId[c]].whole
    BY <1>7 DEF Stacks!Flush, LocksInv, Own, Holding
  <2>2. CASE selected' = [selected EXCEPT ![c] = lockId[c]] /\ cpc' = [cpc EXCEPT ![c] = "done"]
    <3>1. UNCHANGED <<lock, environment, unread, lockId, withdrawn>>
      BY <1>7 DEF Stacks!Flush
    <3>2. Chosen(c)'
      BY <2>1, <2>2, <3>1 DEF LocksInv, Own, Chosen
    <3>3. selected'[c] # 0
      BY <2>1, <2>2 DEF LocksInv, Own, Stacks!Locks
    <3>4. \A d \in Captures : d # c => /\ Chosen(d)' = Chosen(d) /\ Own(d)' = Own(d)
                                    /\ selected'[d] = selected[d] /\ cpc'[d] = cpc[d]
      BY <2>2, <3>1 DEF LocksInv, Own, Chosen
    <3>5. cpc'[c] = "done"
      BY <2>2 DEF LocksInv
    <3>6. QED BY <2>2, <3>1, <3>2, <3>3, <3>4, <3>5 DEF LocksInv, Holding
  <2>3. CASE UNCHANGED selected /\ cpc' = [cpc EXCEPT ![c] = "cleanup"]
    BY <1>7, <2>1, <2>3 DEF Stacks!Flush, LocksInv, Own, Chosen, Holding
  <2>4. QED BY <1>7, <2>2, <2>3 DEF Stacks!Flush
<1>8. ASSUME NEW c \in Captures, Stacks!Cleanup(c) PROVE LocksInv'
  <2> DEFINE n == lockId[c]  new == Stacks!NoLock
  <2>1. cpc[c] = "cleanup" /\ Own(c) /\ cpc' = [cpc EXCEPT ![c] = "failed"]
    BY <1>8 DEF Stacks!Cleanup, LocksInv, Holding
  <2>2. CASE /\ lock' = [lock EXCEPT ![n] = new]
             /\ withdrawn' = IF lock[n].whole THEN withdrawn \cup {n} ELSE withdrawn
    <3>1. /\ n \in Stacks!Locks
          /\ lock[n] # Stacks!NoLock /\ lock[n].by = c /\ lock[n].env = environment[c]
          /\ UNCHANGED <<environment, unread, selected, lockId>>
      BY <1>8, <2>1, <2>2 DEF Own, Stacks!Cleanup
    <3>2. cpc'[c] = "failed"
      BY <2>1 DEF LocksInv
    <3> HIDE DEF n
    <3>3. cpc' = [cpc EXCEPT ![c] = cpc'[c]] /\ lockId' = [lockId EXCEPT ![c] = lockId'[c]]
      BY <2>1, <3>1 DEF LocksInv
    <3>4. QED BY <2>2, <3>1, <3>2, <3>3, LockChanges DEF Holding
  <2>3. CASE UNCHANGED <<lock, withdrawn>>
    BY <1>8, <2>1, <2>3 DEF Stacks!Cleanup, LocksInv, Own, Chosen, Holding
  <2>4. QED BY <1>8, <2>2, <2>3 DEF Stacks!Cleanup
<1>9. QED
  BY <1>1, <1>2, <1>3, <1>4, <1>5, <1>6, <1>7, <1>8 DEF Stacks!Next

-----------------------------------------------------------------------------
(* The ledger of failed collections (CollectDiagnostics).                   *)

(* The table of stages and codes.                                           *)
Rules == Diagnostics!CollectDiagnosticRules
(* Messages that are known when they are read back.                         *)
Recognised(messages) ==
  \A m \in messages : Diagnostics!NormalizeCollectFailureReason(m) # Diagnostics!Unrecognized

(* What the calls of an attempt fail with, call by call.                    *)
Thrown ==
  {Diagnostics!ExistingRecord, Diagnostics!FullJob, Diagnostics!ExitCode, Diagnostics!OutputFiles,
   Diagnostics!Candidate, Diagnostics!VerifyRunFile \cup Diagnostics!Publication}

(* What fails, what the ledger holds and what was told is recognised.       *)
ToldInv ==
  /\ attempts \in Nat
  /\ dpc = "failed" => Recognised({failure})
  /\ attempts > 0 /\ ~edited => Recognised({reason})
  /\ heard \notin {Diagnostics!None, Diagnostics!Unrecognized} =>
       /\ ~heard.path /\ heard.stage \in DOMAIN Rules
       /\ Diagnostics!NormalizeCollectFailureReason(heard) = heard

(* The rows of the table that an attempt can reach.                         *)
LEMMA TableOfRules ==
  /\ DOMAIN Rules = {"ledger", "record", "recordJson", "recordId", "RunJob", "RunRecord", "collected",
                     "exit", "output", "scan", "errorWrite", "failed", "project", "publication",
                     "generation", "runPath", "metadata", "metadataJson", "identity", "runStatus",
                     "runJob"}
  /\ Rules["record"] = Diagnostics!Rule(TRUE, Diagnostics!Links)
  /\ Rules["recordJson"] = Diagnostics!Rule(TRUE, {})
  /\ Rules["recordId"] = Diagnostics!Rule(FALSE, {"MISMATCH"})
  /\ Rules["RunJob"] = Diagnostics!Validation /\ Rules["RunRecord"] = Diagnostics!Validation
  /\ Rules["exit"] =
       Diagnostics!Rule(TRUE, Diagnostics!Links \cup {"INVALID_INTEGER", "MISSING", "MISMATCH"})
  /\ Rules["output"] = Diagnostics!Rule(TRUE, {"SYMLINK", "NOT_DIRECTORY"})
  /\ Rules["scan"] = Diagnostics!Rule(TRUE, Diagnostics!Links)
  /\ Rules["project"] = Diagnostics!Rule(FALSE, {"INVALID_COMPONENT"})
  /\ Rules["publication"] = Diagnostics!Rule(TRUE, Diagnostics!Links \cup {"ALREADY_EXISTS"})
  /\ Rules["generation"] = Diagnostics!Rule(TRUE, {}) /\ Rules["runPath"] = Diagnostics!Rule(TRUE, {})
BY DEF Rules, Diagnostics!CollectDiagnosticRules

(* A message is recognised when each of its parts is known.                 *)
LEMMA PartsAreKnown ==
  ASSUME NEW stage \in DOMAIN Rules, ~Rules[stage].validation, NEW parts,
         \A i \in DOMAIN parts : Diagnostics!Known(Rules[stage], parts[i])
  PROVE  Recognised({Diagnostics!Message(stage, parts)})
<1> DEFINE m == Diagnostics!Message(stage, parts)
<1>1. m.stage = stage /\ m.parts = parts /\ ~m.path
  BY DEF Diagnostics!Message
<1>2. stage # "diagnostic"
  BY TableOfRules
<1>3. Diagnostics!Unrecognized.stage = "diagnostic"
  BY DEF Diagnostics!Unrecognized, Diagnostics!Message
<1> HIDE DEF m
<1>4. Diagnostics!NormalizeCollectFailureReason(m) = m
  BY <1>1 DEF Diagnostics!NormalizeCollectFailureReason, Rules
<1>5. QED BY <1>1, <1>2, <1>3, <1>4 DEF Recognised, m

(* Whatever the file system throws, once or twice, is recognised at a stage *)
(* that expects it.                                                         *)
LEMMA FileSystemIsKnown ==
  ASSUME NEW stage \in DOMAIN Rules, ~Rules[stage].validation, Rules[stage].filesystem
  PROVE  Recognised(Diagnostics!CollectFailure(stage))
<1>1. \A e \in Diagnostics!Errors : Diagnostics!Known(Rules[stage], Diagnostics!SafeCode(e))
  BY DEF Diagnostics!Known, Diagnostics!SafeCode
<1>2. ASSUME NEW e \in Diagnostics!Errors
      PROVE  Recognised({Diagnostics!Message(stage, <<Diagnostics!SafeCode(e)>>)})
  <2> DEFINE parts == <<Diagnostics!SafeCode(e)>>
  <2>1. \A i \in DOMAIN parts : Diagnostics!Known(Rules[stage], parts[i])
    BY <1>1
  <2>2. QED BY <2>1, PartsAreKnown
<1>3. ASSUME NEW e \in Diagnostics!Errors, NEW f \in Diagnostics!Errors
      PROVE  Recognised({Diagnostics!Message(stage, <<Diagnostics!SafeCode(e), Diagnostics!SafeCode(f)>>)})
  <2> DEFINE parts == <<Diagnostics!SafeCode(e), Diagnostics!SafeCode(f)>>
  <2>1. \A i \in DOMAIN parts : Diagnostics!Known(Rules[stage], parts[i])
    BY <1>1
  <2>2. QED BY <2>1, PartsAreKnown
<1>4. ASSUME NEW m \in Diagnostics!CollectFailure(stage) PROVE Recognised({m})
  <2>1. CASE \E e \in Diagnostics!Errors :
               m = Diagnostics!Message(stage, <<Diagnostics!SafeCode(e)>>)
    BY <1>2, <2>1
  <2>2. CASE \E e, f \in Diagnostics!Errors :
               m = Diagnostics!Message(stage, <<Diagnostics!SafeCode(e), Diagnostics!SafeCode(f)>>)
    BY <1>3, <2>2
  <2>3. QED BY <2>1, <2>2 DEF Diagnostics!CollectFailure
<1>5. QED BY <1>4 DEF Recognised

(* A code the row names is recognised.                                      *)
LEMMA ControlledIsKnown ==
  ASSUME NEW stage \in DOMAIN Rules, ~Rules[stage].validation, NEW codes,
         codes \subseteq Rules[stage].codes
  PROVE  Recognised(Diagnostics!Controlled(stage, codes))
<1>1. ASSUME NEW c \in codes PROVE Recognised({Diagnostics!Message(stage, <<c>>)})
  <2> DEFINE parts == <<c>>
  <2>1. \A i \in DOMAIN parts : Diagnostics!Known(Rules[stage], parts[i])
    BY DEF Diagnostics!Known
  <2>2. QED BY <2>1, PartsAreKnown
<1>2. QED BY <1>1 DEF Diagnostics!Controlled, Recognised

(* The path of a schema issue is dropped, its stage is recognised.          *)
LEMMA ValidationIsKnown ==
  ASSUME NEW stage \in DOMAIN Rules, Rules[stage].validation
  PROVE  Recognised(Diagnostics!ValidationFailure(stage))
<1> DEFINE m == [stage |-> stage, parts |-> <<"VALIDATION">>, path |-> TRUE]
<1>1. Diagnostics!NormalizeCollectFailureReason(m) = Diagnostics!Message(stage, <<"VALIDATION">>)
  BY DEF Diagnostics!NormalizeCollectFailureReason, Rules
<1>2. stage # "diagnostic"
  BY TableOfRules
<1>3. Diagnostics!Message(stage, <<"VALIDATION">>) # Diagnostics!Unrecognized
  BY <1>2 DEF Diagnostics!Message, Diagnostics!Unrecognized
<1>4. QED BY <1>1, <1>3 DEF Diagnostics!ValidationFailure, Recognised

(* So is the refusal of a path that is no regular file.                     *)
LEMMA RegularFileIsKnown ==
  ASSUME NEW stage \in DOMAIN Rules, ~Rules[stage].validation, Rules[stage].filesystem,
         Diagnostics!Links \subseteq Rules[stage].codes
  PROVE  Recognised(Diagnostics!RegularFile(stage))
<1>1. Recognised(Diagnostics!CollectFailure(stage))
      /\ Recognised(Diagnostics!Controlled(stage, Diagnostics!Links))
  BY FileSystemIsKnown, ControlledIsKnown
<1>2. QED BY <1>1 DEF Diagnostics!RegularFile, Recognised

(* Everything an attempt throws is in the table.                            *)
LEMMA ThrownIsKnown == \A messages \in Thrown : Recognised(messages)
<1>0. /\ \A stage \in {"record", "recordJson", "exit", "output", "scan", "publication", "generation",
                        "runPath"} :
            stage \in DOMAIN Rules /\ Rules[stage].filesystem /\ ~Rules[stage].validation
      /\ \A stage \in {"record", "exit", "scan", "publication"} :
            Diagnostics!Links \subseteq Rules[stage].codes
      /\ "recordId" \in DOMAIN Rules /\ ~Rules["recordId"].validation
      /\ "project" \in DOMAIN Rules /\ ~Rules["project"].validation
      /\ {"MISMATCH"} \subseteq Rules["recordId"].codes
      /\ {"INVALID_COMPONENT"} \subseteq Rules["project"].codes
      /\ {"INVALID_INTEGER", "MISSING", "MISMATCH"} \subseteq Rules["exit"].codes
      /\ {"SYMLINK", "NOT_DIRECTORY"} \subseteq Rules["output"].codes
      /\ {"ALREADY_EXISTS"} \subseteq Rules["publication"].codes
      /\ "RunJob" \in DOMAIN Rules /\ Rules["RunJob"].validation
      /\ "RunRecord" \in DOMAIN Rules /\ Rules["RunRecord"].validation
  BY TableOfRules DEF Diagnostics!Rule, Diagnostics!Validation
<1> USE <1>0
<1>1. Recognised(Diagnostics!ExistingRecord)
  <2>1. Recognised(Diagnostics!RegularFile("record"))
    BY RegularFileIsKnown
  <2>2. Recognised(Diagnostics!CollectFailure("recordJson"))
    BY FileSystemIsKnown
  <2>3. Recognised(Diagnostics!ValidationFailure("RunRecord"))
    BY ValidationIsKnown
  <2>4. Recognised(Diagnostics!Controlled("recordId", {"MISMATCH"}))
    BY ControlledIsKnown
  <2>5. QED BY <2>1, <2>2, <2>3, <2>4 DEF Recognised, Diagnostics!ExistingRecord
<1>2. Recognised(Diagnostics!FullJob)
  <2>1. Recognised(Diagnostics!ValidationFailure("RunJob"))
    BY ValidationIsKnown
  <2>2. Recognised(Diagnostics!Controlled("project", {"INVALID_COMPONENT"}))
    BY ControlledIsKnown
  <2>3. QED BY <2>1, <2>2 DEF Recognised, Diagnostics!FullJob
<1>3. Recognised(Diagnostics!ExitCode)
  <2>1. Recognised(Diagnostics!RegularFile("exit"))
    BY RegularFileIsKnown
  <2>2. Recognised(Diagnostics!Controlled("exit", {"INVALID_INTEGER", "MISSING", "MISMATCH"}))
    BY ControlledIsKnown
  <2>3. QED BY <2>1, <2>2 DEF Recognised, Diagnostics!ExitCode
<1>4. Recognised(Diagnostics!OutputFiles)
  <2>1. Recognised(Diagnostics!CollectFailure("output")) /\ Recognised(Diagnostics!CollectFailure("scan"))
    BY FileSystemIsKnown
  <2>2. Recognised(Diagnostics!Controlled("output", {"SYMLINK", "NOT_DIRECTORY"}))
    BY ControlledIsKnown
  <2>3. Recognised(Diagnostics!Controlled("scan", Diagnostics!Links))
    BY ControlledIsKnown
  <2>4. QED BY <2>1, <2>2, <2>3 DEF Recognised, Diagnostics!OutputFiles
<1>5. Recognised(Diagnostics!Candidate)
  <2>1. Recognised(Diagnostics!ValidationFailure("RunRecord"))
    BY ValidationIsKnown
  <2>2. Recognised(Diagnostics!CollectFailure("generation"))
    BY FileSystemIsKnown
  <2>3. QED BY <2>1, <2>2 DEF Recognised, Diagnostics!Candidate
<1>6. Recognised(Diagnostics!VerifyRunFile \cup Diagnostics!Publication)
  <2>1. Recognised(Diagnostics!CollectFailure("runPath"))
    BY FileSystemIsKnown
  <2>2. Recognised(Diagnostics!RegularFile("publication"))
    BY RegularFileIsKnown
  <2>3. Recognised(Diagnostics!Controlled("publication", {"ALREADY_EXISTS"}))
    BY ControlledIsKnown
  <2>4. QED
    BY <2>1, <2>2, <2>3 DEF Recognised, Diagnostics!VerifyRunFile, Diagnostics!Publication
<1>7. QED BY <1>1, <1>2, <1>3, <1>4, <1>5, <1>6 DEF Thrown

(* What was let through once is let through again, unchanged.               *)
LEMMA NormalIsStable ==
  ASSUME NEW m, NEW n, n = Diagnostics!NormalizeCollectFailureReason(m), n # Diagnostics!Unrecognized
  PROVE  ~n.path /\ n.stage \in DOMAIN Rules /\ Diagnostics!NormalizeCollectFailureReason(n) = n
<1>1. m.stage \in DOMAIN Rules
  BY DEF Diagnostics!NormalizeCollectFailureReason, Rules
<1>2. CASE Rules[m.stage].validation
  <2>1. m.parts = <<"VALIDATION">> /\ n = Diagnostics!Message(m.stage, m.parts)
    BY <1>1, <1>2 DEF Diagnostics!NormalizeCollectFailureReason, Rules
  <2>2. n.stage = m.stage /\ n.parts = m.parts /\ ~n.path
    BY <2>1 DEF Diagnostics!Message
  <2>3. Diagnostics!NormalizeCollectFailureReason(n) = Diagnostics!Message(n.stage, n.parts)
    BY <1>1, <1>2, <2>1, <2>2 DEF Diagnostics!NormalizeCollectFailureReason, Rules
  <2>4. QED BY <1>1, <2>1, <2>2, <2>3
<1>3. CASE ~Rules[m.stage].validation
  BY <1>1, <1>3 DEF Diagnostics!NormalizeCollectFailureReason, Rules
<1>4. QED BY <1>2, <1>3

(* Every step keeps the invariant.                                          *)
LEMMA ToldStep == ToldInv /\ (Diagnostics!Next \/ UNCHANGED ledgerVars) => ToldInv'
<1> SUFFICES ASSUME ToldInv, Diagnostics!Next \/ UNCHANGED ledgerVars PROVE ToldInv'
  OBVIOUS
<1>1. CASE UNCHANGED ledgerVars
  BY <1>1 DEF ledgerVars, ToldInv, Recognised
<1>2. ASSUME NEW here, NEW there, NEW messages \in Thrown, there # "failed",
             Diagnostics!Step(here, there, messages)
      PROVE  ToldInv'
  <2>1. UNCHANGED <<reason, attempts, edited, heard>>
    BY <1>2 DEF Diagnostics!Step
  <2>2. dpc' = "failed" => failure' \in messages
    BY <1>2 DEF Diagnostics!Step, Diagnostics!Fails
  <2>3. QED BY <2>1, <2>2, ThrownIsKnown DEF ToldInv, Recognised
<1>3. CASE Diagnostics!ReadRecord
  BY <1>2, <1>3 DEF Diagnostics!ReadRecord, Thrown
<1>4. CASE Diagnostics!CheckJob
  BY <1>2, <1>4 DEF Diagnostics!CheckJob, Thrown
<1>5. CASE Diagnostics!ReadExitCode
  BY <1>2, <1>5 DEF Diagnostics!ReadExitCode, Thrown
<1>6. CASE Diagnostics!ScanOutput
  BY <1>2, <1>6 DEF Diagnostics!ScanOutput, Thrown
<1>7. CASE Diagnostics!Draft
  BY <1>2, <1>7 DEF Diagnostics!Draft, Thrown
<1>8. CASE Diagnostics!Publish
  BY <1>2, <1>8 DEF Diagnostics!Publish, Thrown
<1>9. CASE Diagnostics!FailedAttempt
  <2>1. dpc = "failed" /\ dpc' = "idle" /\ UNCHANGED heard
        /\ \/ reason' = failure /\ attempts' = attempts + 1 /\ edited' = FALSE
           \/ UNCHANGED <<reason, attempts, edited>>
    BY <1>9 DEF Diagnostics!FailedAttempt
  <2>2. CASE reason' = failure /\ attempts' = attempts + 1 /\ edited' = FALSE
    <3>1. attempts' \in Nat
      BY <2>2 DEF ToldInv
    <3>2. Recognised({reason'})
      BY <2>1, <2>2 DEF ToldInv
    <3>3. QED BY <2>1, <3>1, <3>2 DEF ToldInv, Recognised
  <2>3. CASE UNCHANGED <<reason, attempts, edited>>
    BY <2>1, <2>3 DEF ToldInv, Recognised
  <2>4. QED BY <2>1, <2>2, <2>3
<1>10. CASE Diagnostics!Tell
  <2>1. heard' = Diagnostics!NormalizeCollectFailureReason(reason)
        /\ UNCHANGED <<dpc, failure, reason, attempts, edited>>
    BY <1>10 DEF Diagnostics!Tell
  <2>2. heard' # Diagnostics!Unrecognized =>
          /\ ~heard'.path /\ heard'.stage \in DOMAIN Rules
          /\ Diagnostics!NormalizeCollectFailureReason(heard') = heard'
    BY <2>1, NormalIsStable
  <2>3. QED BY <2>1, <2>2 DEF ToldInv, Recognised
<1>11. CASE Diagnostics!Edit
  BY <1>11 DEF Diagnostics!Edit, ToldInv, Recognised
<1>12. QED
  BY <1>1, <1>3, <1>4, <1>5, <1>6, <1>7, <1>8, <1>9, <1>10, <1>11 DEF Diagnostics!Next

(* There is nothing to tell at the start.                                   *)
LEMMA ToldInit == Diagnostics!Init => ToldInv
BY DEF Diagnostics!Init, ToldInv

(* The invariant is enough.                                                 *)
LEMMA ToldKeep == ToldInv => Diagnostics!ReasonsTold
BY DEF ToldInv, Diagnostics!ReasonsTold, Recognised, Rules

-----------------------------------------------------------------------------
(* What a run rests on.                                                     *)

(* RunFilesTrue (shud-input.ts, capture-stack-lock.ts, shud-run-file.ts): for every *)
(* number of captures, environments and failing calls, the copy of an input is *)
(* the tree that was looked at, the lock a capture returned stands, and the reason *)
(* of a failed collection is known when it is read back.                    *)
THEOREM RunFilesAreTrue == PartSpec => []RunFilesTrue
<1>1. PartInit => TreeInv /\ LocksInv /\ ToldInv
  BY TreeInit, LocksInit, ToldInit DEF PartInit
<1>2. ASSUME [PartNext]_partVars
      PROVE  /\ Tree!Next \/ UNCHANGED treeVars
             /\ Stacks!Next \/ UNCHANGED lockVars
             /\ Diagnostics!Next \/ UNCHANGED ledgerVars
  BY <1>2 DEF PartNext, partVars, runVars
<1>3. TreeInv /\ LocksInv /\ ToldInv /\ [PartNext]_partVars => (TreeInv /\ LocksInv /\ ToldInv)'
  BY <1>2, TreeStep, LocksStep, ToldStep
<1>4. TreeInv /\ LocksInv /\ ToldInv => RunFilesTrue
  BY TreeKeep, LocksKeep, ToldKeep DEF RunFilesTrue
<1>5. QED BY <1>1, <1>3, <1>4, PTL DEF PartSpec
=============================================================================
