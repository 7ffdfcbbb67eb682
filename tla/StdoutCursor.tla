----------------------------- MODULE StdoutCursor -----------------------------
(***************************************************************************)
(* file-output.ts: reading the stdout of a run while it is still written.     *)
(* Each read takes what is there from its cursor on and holds back the start  *)
(* of a UTF-8 sequence at the end; the next read begins there.                *)
(*                                                                         *)
(* A byte is what completePrefix tells apart: 1 for a byte that stands for    *)
(* itself, 2, 3 or 4 for the first byte of a sequence of that length, 0 for   *)
(* a byte that continues one.  What is written need not be UTF-8.             *)
(***************************************************************************)
EXTENDS Naturals, Sequences

CONSTANT MaxBytes       \* bound on the bytes of the file

VARIABLES bytes, cursor,
          read        \* bytes got by the read in progress, up to the size seen at its start
vars == <<bytes, cursor, read>>

Idle == [size |-> 0, got |-> 0]
Init == bytes = <<>> /\ cursor = 0 /\ read = Idle

Written ==
  /\ Len(bytes) < MaxBytes
  /\ \E b \in 0..4 : bytes' = Append(bytes, b)
  /\ UNCHANGED <<cursor, read>>

(* The first byte of the last sequence, at most three bytes before the end.  *)
Lead(s) ==
  CHOOSE i \in 0..Len(s) :
    /\ i > 0 => s[i] # 0 \/ Len(s) - i = 3
    /\ \A j \in i + 1..Len(s) : s[j] = 0 /\ Len(s) - j < 3

CompletePrefixShort(s) ==     \* a mistake: every sequence is taken for one of two bytes
  IF s = <<>> \/ Lead(s) = 0 THEN Len(s)
  ELSE IF s[Lead(s)] > 1 /\ Len(s) = Lead(s) THEN Lead(s) - 1 ELSE Len(s)

CompletePrefix(s) ==
  IF s = <<>> \/ Lead(s) = 0 THEN Len(s)
  ELSE IF Len(s) - Lead(s) + 1 < s[Lead(s)] THEN Lead(s) - 1 ELSE Len(s)

(* openSync and fstatSync; readSync, which may return less than was asked    *)
(* for; and the cut.                                                       *)
Opened ==
  /\ read = Idle /\ Len(bytes) > cursor
  /\ read' = [size |-> Len(bytes), got |-> cursor] /\ UNCHANGED <<bytes, cursor>>

ReadSome ==
  /\ read # Idle /\ read.got < read.size
  /\ \E n \in read.got + 1..read.size : read' = [read EXCEPT !.got = n]
  /\ UNCHANGED <<bytes, cursor>>

Returned ==
  /\ read # Idle /\ read.got = read.size
  /\ cursor' = cursor + CompletePrefix(SubSeq(bytes, cursor + 1, read.got))
  /\ read' = Idle /\ UNCHANGED bytes

Next == Written \/ Opened \/ ReadSome \/ Returned
Spec == Init /\ [][Next]_vars

-----------------------------------------------------------------------------
(* No cursor ever falls inside a sequence that is whole in the file, so that  *)
(* the texts of the reads join to the text of the file; and a read holds      *)
(* back three bytes at most, so that output which is not UTF-8 does not stop  *)
(* the stream.                                                             *)
Whole(i) == /\ bytes[i] > 1 /\ i + bytes[i] - 1 <= Len(bytes)
            /\ \A j \in i + 1..i + bytes[i] - 1 : bytes[j] = 0
ReadsJoin ==
  /\ \A i \in DOMAIN bytes : Whole(i) => ~(cursor \in i..i + bytes[i] - 2)
  /\ read # Idle /\ read.got = read.size => CompletePrefix(SubSeq(bytes, cursor + 1, read.got)) + 3 >= read.got - cursor
=============================================================================
