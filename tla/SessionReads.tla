---------------------------- MODULE SessionReads ----------------------------
(***************************************************************************)
(* How a gate reads the log of a session that is being written              *)
(* (scripts/runtime/shud-web-driver.ts, shud-session-log.ts): through the   *)
(* host, as a prefix of pages below a cut, each page the answer to a         *)
(* request that may be aborted, cut off or answered wrongly; or from the     *)
(* file, of which a flush promises a length and one descriptor a size.       *)
(* Each reading has to extend the one before (extendPrefix).                 *)
(***************************************************************************)
EXTENDS Naturals, Sequences

CONSTANTS MaxEvents,   \* bound on the events of the session
          PageSize,    \* maxMessages of a page
          MaxReadings, \* bound on the readings of the gate
          MaxNoise     \* bound on wrong answers, broken requests and torn files

VARIABLES
  history,   \* the events logged so far: those of seq 0 .. history - 1
  stored,    \* half lines in the log file; the first line is the header
  gens,      \* generations of the log in the session's directory
  reader,    \* where the reading is
  stopped,   \* the abort signal of the gate
  request,   \* the RPC under way
  body,      \* its answer: what is asked, and what the host says
  cut, below, pages,   \* prefix: asOfSeq + 1, beforeSeq, and the pages read
  promised,  \* the events there were when the host flushed
  size,      \* what fstat said of the file
  reached,   \* the events of the last reading that was accepted
  readings, noise

readVars == <<history, stored, gens, reader, stopped, request, body, cut, below, pages, promised,
              size, reached, readings, noise>>
worldVars == <<history, stored, gens>>

Idle == [state |-> "none", left |-> 0, bad |-> FALSE, unclean |-> FALSE]
Nothing == [own |-> TRUE, whole |-> TRUE, records |-> <<>>, more |-> FALSE, count |-> 0]

Init ==
  /\ history = 0 /\ stored \in 0..2
  /\ gens \in {{}, {"v3"}, {"v4"}, {"v3", "v4"}, {"v4", "v4.zstd"}}
  /\ reader = "idle" /\ stopped = FALSE /\ request = Idle /\ body = Nothing
  /\ cut = 0 /\ below = 0 /\ pages = <<>> /\ promised = 0 /\ size = 0
  /\ reached = 0 /\ readings = MaxReadings /\ noise = MaxNoise

Lines == 2 * (history + 1)
Noisy == noise > 0 /\ noise' = noise - 1
Fails == reader' = "failed"
pageVars == <<cut, below, pages>>
fileVars == <<promised, size>>
-----------------------------------------------------------------------------
(* The host and the disk.                                                  *)

Logs ==
  /\ history < MaxEvents /\ history' = history + 1
  /\ UNCHANGED <<stored, gens, reader, stopped, request, body, pageVars, fileVars, reached,
                 readings, noise>>
Writes ==
  /\ stored < Lines /\ stored' = stored + 1
  /\ UNCHANGED <<history, gens, reader, stopped, request, body, pageVars, fileVars, reached,
                 readings, noise>>
Truncates ==
  /\ stored > 0 /\ \E n \in {0, stored - 1} : stored' = n
  /\ Noisy
  /\ UNCHANGED <<history, gens, reader, stopped, request, body, pageVars, fileVars, reached,
                 readings>>
Aborts ==
  /\ ~stopped /\ reader \notin {"idle", "failed"} /\ stopped' = TRUE
  /\ UNCHANGED <<worldVars, reader, request, body, pageVars, fileVars, reached, readings, noise>>

(* What the host says: the number of events, or the page of at most PageSize *)
(* events below beforeSeq.                                                 *)
Seqs(from, to) == [i \in 1..(to - from) |-> from + i - 1]
Page(from, to) == [Nothing EXCEPT !.records = Seqs(from, to), !.more = from > 0]
Honest ==
  IF reader = "projecting" THEN [Nothing EXCEPT !.count = history]
  ELSE LET to == IF below > history THEN history ELSE below IN
         Page(IF to > PageSize THEN to - PageSize ELSE 0, to)
Wrong ==
  LET b == Honest IN
  {[b EXCEPT !.own = FALSE], [b EXCEPT !.more = ~b.more], [b EXCEPT !.count = @ + 1]} \cup
  (IF b.count > 0 THEN {[b EXCEPT !.count = @ - 1]} ELSE {}) \cup
  (IF b.records = <<>> THEN {}
   ELSE {[b EXCEPT !.records = <<>>], [b EXCEPT !.records = Tail(b.records)],
         [b EXCEPT !.records = SubSeq(b.records, 1, Len(b.records) - 1)]})
-----------------------------------------------------------------------------
(* rpc: fetch, the stream of the answer, its release, and the answer.       *)

Send == request' = [Idle EXCEPT !.state = "fetching"]

Responds ==
  /\ request.state = "fetching"
  /\ \/ ~stopped /\ body' = Honest /\ UNCHANGED noise
     \/ ~stopped /\ Noisy /\ body' \in Wrong
  /\ request' = [request EXCEPT !.state = "streaming", !.left = 2]
  /\ UNCHANGED <<worldVars, reader, stopped, pageVars, fileVars, reached, readings>>

(* An abort, a status other than 200 or a broken connection before the body. *)
FetchFails ==
  /\ request.state = "fetching"
  /\ \/ stopped /\ UNCHANGED noise
     \/ ~stopped /\ Noisy
  /\ request' = Idle /\ Fails
  /\ UNCHANGED <<worldVars, stopped, body, pageVars, fileVars, reached, readings>>

Chunk ==
  /\ request.state = "streaming" /\ request.left > 0 /\ ~stopped
  /\ request' = [request EXCEPT !.left = @ - 1]
  /\ UNCHANGED <<worldVars, reader, stopped, body, pageVars, fileVars, reached, readings, noise>>
EndsEarly ==
  /\ request.state = "streaming" /\ request.left > 0 /\ ~stopped /\ Noisy
  /\ \/ request' = [request EXCEPT !.left = 0] /\ body' = [body EXCEPT !.whole = FALSE]
     \/ request' = [request EXCEPT !.left = 0, !.bad = TRUE] /\ UNCHANGED body
  /\ UNCHANGED <<worldVars, reader, stopped, pageVars, fileVars, reached, readings>>

(* The finally block: the listener goes, the reader is cancelled, once, and  *)
(* the lock is given back; either may throw.                               *)
Releases ==
  /\ request.state = "streaming" /\ (request.left = 0 \/ stopped)
  /\ \/ request' = [request EXCEPT !.state = "read", !.bad = @ \/ stopped] /\ UNCHANGED noise
     \/ Noisy /\ request' = [request EXCEPT !.state = "read", !.bad = @ \/ stopped,
                                            !.unclean = TRUE]
  /\ UNCHANGED <<worldVars, reader, stopped, body, pageVars, fileVars, reached, readings>>

Answered ==
  /\ request.state = "read"
  /\ ~request.bad /\ ~request.unclean /\ ~stopped
  /\ body.whole /\ body.own

AnswerFails ==
  /\ request.state = "read" /\ ~Answered
  /\ request' = Idle /\ Fails /\ body' = Nothing
  /\ UNCHANGED <<worldVars, stopped, pageVars, fileVars, reached, readings, noise>>
-----------------------------------------------------------------------------
(* prefix.                                                                 *)

Begins(to) == reader \in {"idle", "accepted"} /\ readings > 0 /\ reader' = to /\ readings' = readings - 1

Project ==
  /\ Begins("projecting") /\ Send
  /\ UNCHANGED <<worldVars, stopped, body, pageVars, fileVars, reached, noise>>
Projected ==
  /\ reader = "projecting" /\ Answered
  /\ cut' = body.count /\ below' = body.count /\ pages' = <<>>
  /\ reader' = "paging" /\ Send /\ body' = Nothing
  /\ UNCHANGED <<worldVars, stopped, fileVars, reached, readings, noise>>

(* A page is dense, ends at the cut asked for, and tells whether it is the   *)
(* last one.                                                               *)
DenseAnyEnd(page) ==                      \* as if the end of a page were not compared
  /\ page.records = <<>> => below = 0 /\ ~page.more
  /\ page.records # <<>> =>
       LET first == page.records[1] IN
         first < below /\ \A i \in DOMAIN page.records : page.records[i] = first + i - 1
  /\ page.more = (page.records # <<>> /\ page.records[1] > 0)
Dense(page) ==
  /\ page.records = <<>> => below = 0 /\ ~page.more
  /\ page.records # <<>> =>
       LET first == page.records[1] IN
         /\ first < below /\ page.records[Len(page.records)] = below - 1
         /\ \A i \in DOMAIN page.records : page.records[i] = first + i - 1
  /\ page.more = (page.records # <<>> /\ page.records[1] > 0)

Paged ==
  /\ reader = "paging" /\ Answered /\ Dense(body)
  /\ pages' = body.records \o pages
  /\ below' = IF body.records = <<>> THEN below ELSE body.records[1]
  /\ IF body.more THEN Send /\ UNCHANGED reader ELSE request' = Idle /\ reader' = "prefix"
  /\ body' = Nothing
  /\ UNCHANGED <<worldVars, stopped, cut, fileVars, reached, readings, noise>>
PageFails ==
  /\ reader = "paging" /\ Answered /\ ~Dense(body)
  /\ request' = Idle /\ Fails /\ body' = Nothing
  /\ UNCHANGED <<worldVars, stopped, pageVars, fileVars, reached, readings, noise>>
-----------------------------------------------------------------------------
(* storedLog: flush, canonicalLog, readFileBounded, readLog.                *)

Flush ==
  /\ Begins("flushed") /\ ~stopped
  /\ promised' = history /\ stored' = Lines
  /\ UNCHANGED <<history, gens, stopped, request, body, pageVars, size, reached, noise>>

(* The newest generation, and only one of it; the header has to be of v4.    *)
Newest == IF gens \cap {"v4", "v4.zstd"} # {} THEN gens \ {"v3"} ELSE gens
Located == \E g \in gens : Newest = {g} /\ g # "v3"
Opens ==
  /\ reader = "flushed"
  /\ IF Located THEN reader' = "sized" /\ size' = stored ELSE Fails /\ UNCHANGED size
  /\ UNCHANGED <<worldVars, stopped, request, body, pageVars, promised, reached, readings, noise>>

(* The bytes fstat saw are all there, and whole lines: header and events.    *)
ReadsWhole == stored >= size
Reads ==
  /\ reader = "sized"
  /\ IF ReadsWhole /\ size >= 2 /\ size % 2 = 0
     THEN cut' = size \div 2 - 1 /\ pages' = Seqs(0, cut') /\ reader' = "log"
     ELSE Fails /\ UNCHANGED <<cut, pages>>
  /\ UNCHANGED <<worldVars, stopped, request, body, below, fileVars, reached, readings, noise>>

(* extendPrefix: a reading that fell behind an earlier one is refused.       *)
Extends(n) == n >= reached
Accepts ==
  /\ reader \in {"prefix", "log"}
  /\ IF Extends(cut) THEN reader' = "accepted" /\ reached' = cut ELSE Fails /\ UNCHANGED reached
  /\ UNCHANGED <<worldVars, stopped, request, body, pageVars, fileVars, readings, noise>>

Next ==
  \/ Logs \/ Writes \/ Truncates \/ Aborts
  \/ Responds \/ FetchFails \/ Chunk \/ EndsEarly \/ Releases \/ AnswerFails
  \/ Project \/ Projected \/ Paged \/ PageFails \/ Flush \/ Opens \/ Reads \/ Accepts
-----------------------------------------------------------------------------
(* A reading that is complete has every event from the first one to its cut, *)
(* once, none of them invented, whatever one wrong answer says; read from a   *)
(* file nobody tore, it has what the flush promised; and no request keeps its *)
(* stream once its reading has ended.                                      *)
ReadingTrue ==
  /\ reader \in {"prefix", "log"} => pages = Seqs(0, cut) /\ cut <= history
  /\ reader = "log" /\ noise = MaxNoise => cut >= promised
  /\ reader \in {"prefix", "log", "accepted", "failed"} => request = Idle
=============================================================================
