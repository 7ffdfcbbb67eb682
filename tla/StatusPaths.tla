----------------------------- MODULE StatusPaths -----------------------------
(***************************************************************************)
(* The changed paths of a repository, as they are read from the output of git *)
(* status, which may have been cut short.  The output is the sequence of its  *)
(* fields and the zero bytes that end them.                                 *)
(***************************************************************************)
EXTENDS Naturals, Sequences, SequencesExt, FiniteSets, FiniteSetsExt

CONSTANT MaxRecords
VARIABLES records, shown      \* what changed, and what could be read of it

StatusRecords == [status : {"M", "R"}, path : {"p", "q"}, source : {"o"}]

(* collectDirtyPaths.  A record of the output is a status, its path and a    *)
(* zero byte, and for a rename the old path and another one.                 *)
Zero == "0"
Encode(r) == <<r.status, r.path, Zero>> \o IF r.status = "R" THEN <<r.source, Zero>> ELSE <<>>
Output(rs) == FlattenSeq([i \in DOMAIN rs |-> Encode(rs[i])])
End(output, from) == Min({i \in from..Len(output) : output[i] = Zero} \cup {Len(output) + 1})
RecordEnd(output, offset) ==
  IF output[offset] = "R" THEN End(output, End(output, offset) + 1) ELSE End(output, offset)

(* The paths of the records from an offset on; one without an end is left.  *)
PathsFrom(output) ==
  LET paths[offset \in 1..Len(output) + 1] ==
        IF offset > Len(output) THEN {}
        ELSE IF RecordEnd(output, offset) > Len(output) THEN {}
        ELSE {output[offset + 1]} \cup paths[RecordEnd(output, offset) + 1]
  IN paths[1]

-----------------------------------------------------------------------------
Init == records = <<>> /\ shown = <<>>

(* The output has a limit, and git may be stopped while it writes.          *)
Observe ==
  /\ records = <<>>
  /\ \E n \in 1..MaxRecords : records' \in [1..n -> StatusRecords]
  /\ \E cut \in 0..Len(Output(records')) : shown' = SubSeq(Output(records'), 1, cut)

Next == Observe
Spec == Init /\ [][Next]_<<records, shown>>

(* What a cut leaves: the paths of the records that are whole, never a part  *)
(* of a record or the old name of a file.                                   *)
CutPathsTrue ==
  PathsFrom(shown) =
    {records[i].path : i \in {k \in DOMAIN records : Len(Output(SubSeq(records, 1, k))) <= Len(shown)}}
=============================================================================
