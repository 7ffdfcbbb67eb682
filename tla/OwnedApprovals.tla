--------------------------- MODULE OwnedApprovals ---------------------------
(***************************************************************************)
(* The connection on which a gate answers the approvals it owns             *)
(* (scripts/runtime/shud-approval-transport.ts): frames arrive on one       *)
(* socket while earlier ones are still being decided, each decision awaits  *)
(* reads of the host, an answer is an HTTP request whose response may never *)
(* come, and the connection may break or be closed at any moment of it.     *)
(* What is allowed is the gate's own predicate, a parameter of Decide.      *)
(***************************************************************************)
EXTENDS WebDriver, Sequences, SequencesExt

CONSTANT Events      \* the approval requests the host may send, by eventId

VARIABLES
  peer,       \* where openOwnedApprovals or close is
  socket,     \* the WebSocket
  frames,     \* sent by the host and not received yet, in order
  clientId,   \* the host has named this client
  failure,    \* the connection is no longer to be trusted
  timedOut,   \* close gave up draining
  aborted,    \* requests.abort() was called
  seen, cancelled,   \* eventIds received, and cancelled by the host
  chain,      \* invocations in the order of their frames, the first one being processed
  link,       \* where the first one is: its decision awaited, or its answer
  wire,       \* answers posted that the host has not taken yet
  answer,     \* history: what the host took, per event
  posts       \* history: what was posted, in order

peerVars == <<peer, socket, frames, clientId, failure, timedOut, aborted,
              seen, cancelled, chain, link, wire, answer, posts>>

Peer == {"closed", "opening", "serving", "draining", "shutting", "joining", "returned", "threw"}
Closing == peer \in {"draining", "shutting", "joining", "returned", "threw"}
Frame == {<<"ready">>} \cup ({"waterfall", "cancel"} \X Events)
Value == {"allowed-once", "next"}

PeerTypeOK ==
  /\ peer \in Peer
  /\ socket \in {"none", "connecting", "open", "closing", "closed"}
  /\ frames \in Seq(Frame)
  /\ {clientId, failure, timedOut, aborted} \subseteq BOOLEAN
  /\ seen \subseteq Events /\ cancelled \subseteq Events
  /\ chain \in Seq(Events)
  /\ link \in {"idle", "deciding", "posting", "posted"}
  /\ wire \subseteq Events \X Value
  /\ answer \in [Events -> Value \cup {"none"}]
  /\ posts \in Seq(Events \X Value)

PeerInit ==
  /\ peer = "closed" /\ socket = "none" /\ frames = <<>>
  /\ clientId = FALSE /\ failure = FALSE /\ timedOut = FALSE /\ aborted = FALSE
  /\ seen = {} /\ cancelled = {} /\ chain = <<>> /\ link = "idle"
  /\ wire = {} /\ answer = [e \in Events |-> "none"] /\ posts = <<>>

HostUp == \A g \in Generation : Alive(g)
HostHealthy == \A g \in Generation : Healthy(g)
-----------------------------------------------------------------------------
(* The socket.                                                             *)

OpenPeer ==
  /\ peer = "closed"
  /\ peer' = "opening" /\ socket' = "connecting"
  /\ UNCHANGED <<frames, clientId, failure, timedOut, aborted, seen, cancelled,
                 chain, link, wire, answer, posts>>

(* The host accepts the stream and names its client.                       *)
Connect ==
  /\ socket = "connecting" /\ HostUp
  /\ socket' = "open" /\ frames' = Append(frames, <<"ready">>)
  /\ UNCHANGED <<peer, clientId, failure, timedOut, aborted, seen, cancelled,
                 chain, link, wire, answer, posts>>

(* The close event, asked for or not: the frames under way are lost.        *)
SocketCloses ==
  /\ socket \in {"connecting", "open", "closing"}
  /\ socket' = "closed" /\ frames' = <<>>
  /\ aborted' = TRUE
  /\ failure' = (failure \/ ~Closing)
  /\ UNCHANGED <<peer, clientId, timedOut, seen, cancelled, chain, link, wire, answer, posts>>

(* The message handler.                                                    *)
Receive ==
  /\ socket \in {"open", "closing"} /\ frames # <<>>
  /\ frames' = Tail(frames)
  /\ LET frame == Head(frames) IN
       CASE frame[1] = "ready" ->
              /\ clientId' = TRUE /\ failure' = (failure \/ clientId)
              /\ UNCHANGED <<seen, cancelled, chain>>
         [] frame[1] = "cancel" ->
              /\ cancelled' = cancelled \cup {frame[2]}
              /\ UNCHANGED <<clientId, failure, seen, chain>>
         [] frame[1] = "waterfall" /\ clientId /\ frame[2] \notin seen ->
              /\ seen' = seen \cup {frame[2]} /\ chain' = Append(chain, frame[2])
              /\ UNCHANGED <<clientId, failure, cancelled>>
         [] OTHER -> failure' = TRUE /\ UNCHANGED <<clientId, seen, cancelled, chain>>
  /\ UNCHANGED <<peer, socket, timedOut, aborted, link, wire, answer, posts>>
-----------------------------------------------------------------------------
(* One invocation after the other.                                         *)

Withdrawn == Head(chain) \in cancelled \/ Closing \/ failure
Drop == chain' = Tail(chain) /\ link' = "idle"

StartLink ==
  /\ link = "idle" /\ chain # <<>>
  /\ IF Withdrawn THEN Drop ELSE link' = "deciding" /\ UNCHANGED chain
  /\ UNCHANGED <<peer, socket, frames, clientId, failure, timedOut, aborted, seen, cancelled,
                 wire, answer, posts>>

(* The decision has arrived; what happened while it was awaited counts.     *)
DecideUnchecked(allowed) ==             \* as if nothing could happen meanwhile
  /\ link = "deciding"
  /\ LET value == IF allowed THEN "allowed-once" ELSE "next" IN
       /\ wire' = wire \cup {<<Head(chain), value>>}
       /\ posts' = Append(posts, <<Head(chain), value>>)
  /\ link' = "posting"
  /\ UNCHANGED <<chain, peer, socket, frames, clientId, failure, timedOut, aborted, seen, cancelled, answer>>
Decide(allowed) ==
  /\ link = "deciding"
  /\ Withdrawn \/ HostHealthy
  /\ IF Withdrawn THEN Drop /\ UNCHANGED <<wire, posts>>
     ELSE LET value == IF allowed THEN "allowed-once" ELSE "next" IN
            /\ wire' = wire \cup {<<Head(chain), value>>}
            /\ posts' = Append(posts, <<Head(chain), value>>)
            /\ link' = "posting" /\ UNCHANGED chain
  /\ UNCHANGED <<peer, socket, frames, clientId, failure, timedOut, aborted, seen, cancelled, answer>>

(* The read of the decision or the request throws: a broken connection, a   *)
(* deadline, requests.abort(), an unhealthy host.  A request sent stays on  *)
(* its way.                                                                *)
LinkFails ==
  /\ link # "idle"
  /\ failure' = TRUE
  /\ Drop
  /\ UNCHANGED <<peer, socket, frames, clientId, timedOut, aborted, seen, cancelled, wire, answer, posts>>

(* The host takes an answer while its request is open, and ignores it then. *)
TakeAnswer ==
  /\ HostUp
  /\ \E w \in wire :
       /\ wire' = wire \ {w}
       /\ answer' = IF answer[w[1]] = "none" THEN [answer EXCEPT ![w[1]] = w[2]] ELSE answer
       /\ link' = IF link = "posting" /\ Head(chain) = w[1] THEN "posted" ELSE link
  /\ UNCHANGED <<peer, socket, frames, clientId, failure, timedOut, aborted, seen, cancelled, chain, posts>>

(* Its response arrives.                                                   *)
Answered ==
  /\ link = "posted"
  /\ Drop
  /\ UNCHANGED <<peer, socket, frames, clientId, failure, timedOut, aborted, seen, cancelled,
                 wire, answer, posts>>
-----------------------------------------------------------------------------
(* openOwnedApprovals and close.                                           *)

PeerHealthy == HostHealthy /\ ~failure /\ socket # "closed"

Opened ==
  /\ peer = "opening" /\ clientId /\ PeerHealthy
  /\ peer' = "serving"
  /\ UNCHANGED <<socket, frames, clientId, failure, timedOut, aborted, seen, cancelled,
                 chain, link, wire, answer, posts>>

(* close, by the gate or after a start that failed: no more answers; those  *)
(* already posted are waited for.                                          *)
BeginClose ==
  /\ peer' = "draining"
  /\ UNCHANGED <<socket, frames, clientId, failure, timedOut, aborted, seen, cancelled,
                 chain, link, wire, answer, posts>>

DrainWaits == FALSE                      \* as if the chain were awaited without a deadline
DrainTimesOut ==
  /\ peer = "draining" /\ chain # <<>>
  /\ timedOut' = TRUE /\ aborted' = TRUE
  /\ peer' = "shutting"
  /\ socket' = IF socket = "closed" THEN socket ELSE "closing"
  /\ UNCHANGED <<frames, clientId, failure, seen, cancelled, chain, link, wire, answer, posts>>

Drained ==
  /\ peer = "draining" /\ chain = <<>>
  /\ peer' = "shutting"
  /\ socket' = IF socket = "closed" THEN socket ELSE "closing"
  /\ UNCHANGED <<frames, clientId, failure, timedOut, aborted, seen, cancelled,
                 chain, link, wire, answer, posts>>

(* The socket is closed or, terminated twice, still is not.                *)
Shut ==
  /\ peer = "shutting"
  /\ IF socket = "closed" THEN peer' = "joining" /\ aborted' = TRUE
                          ELSE peer' = "threw" /\ UNCHANGED aborted
  /\ UNCHANGED <<socket, frames, clientId, failure, timedOut, seen, cancelled,
                 chain, link, wire, answer, posts>>

JoinedAnyway ==                         \* as if what went wrong before were forgotten
  /\ peer = "joining" /\ chain = <<>>
  /\ peer' = "returned"
  /\ UNCHANGED <<socket, frames, clientId, failure, timedOut, aborted, seen, cancelled,
                 chain, link, wire, answer, posts>>
Joined ==
  /\ peer = "joining" /\ chain = <<>>
  /\ peer' = IF timedOut \/ failure THEN "threw" ELSE "returned"
  /\ UNCHANGED <<socket, frames, clientId, failure, timedOut, aborted, seen, cancelled,
                 chain, link, wire, answer, posts>>

PeerClose == DrainTimesOut \/ Drained \/ Shut \/ Joined
-----------------------------------------------------------------------------
(* No answer is posted to a request the host has cancelled, on a connection *)
(* that failed, or once the gate is closing, whatever happened while the    *)
(* decision was awaited; and no request is answered twice.                 *)
AnswersInTime ==
  [][posts' # posts =>
       LET e == Last(posts')[1] IN
         /\ e \notin cancelled /\ ~Closing /\ ~failure
         /\ \A i \in DOMAIN posts : posts[i][1] # e]_<<peerVars, driverVars>>

(* A close that returns leaves nothing under way: no decision is awaited    *)
(* and no answer can still reach the host.                                 *)
CloseIsFinal == peer = "returned" => chain = <<>> /\ link = "idle" /\ wire = {}

(* Answers are posted while they are wanted, and never after the close.      *)
AnswersOrderly == AnswersInTime /\ []CloseIsFinal
=============================================================================
