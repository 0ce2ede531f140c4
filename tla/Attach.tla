------------------------------- MODULE Attach -------------------------------
(***************************************************************************)
(* One attached dashboard: the event ring and its filler                   *)
(* (src/src/admin/ring.rs), the accept branch of serve and handle_client   *)
(* (src/src/admin/server.rs), the frames (src/src/admin/mod.rs), the       *)
(* client's decode loop (src/src/admin/client.rs) and the loop of the      *)
(* dashboard it feeds (run of src/src/tui/mod.rs).                         *)
(*                                                                         *)
(* An event is its number on the bus.  The bus keeps the last ChanCap of   *)
(* them; a receiver that falls behind skips to the oldest one kept.  The   *)
(* bus, the filler, the accept loop, the handler, the decode loop and the  *)
(* dashboard run on different threads.  The decode loop puts what it       *)
(* decodes on a bus of its own; the dashboard drains that bus at each of   *)
(* its ticks, and not when it leaves.                                      *)
(***************************************************************************)
EXTENDS Integers, Sequences, SequencesExt

CONSTANTS
  ChanCap,    \* capacity of the broadcast channel
  RingCap,    \* ADMIN_EVENT_RING_CAPACITY
  PipeCap,    \* frames the socket holds before a write waits
  MaxEvents   \* bound: events sent in a behaviour

ASSUME AttachAssumption ==
  /\ {ChanCap, RingCap, PipeCap} \subseteq Nat \ {0}
  /\ MaxEvents \in Nat

VARIABLES
  sent,      \* events sent on the bus so far
  filler,    \* the last event the ring's filler has received or skipped
  ring,      \* the retained events, oldest first
  handler,   \* waiting, subscribed, hello, replay, live (its select), stats and
             \* event (a frame to write), ended
  cursor,    \* the last event the handler has received or skipped
  replay,    \* events still to be replayed
  shutdown,  \* the server's watch channel
  pipe,      \* frames in the socket
  client,    \* connecting; running (the dashboard's loop); leaving (out of the
             \* loop, the decode loop still runs); gone
  lost,      \* the decode loop ended: "connection lost", and the client's own
             \* shutdown channel is set
  log,       \* history: the events put on the client's bus, in order
  drawn,     \* how many of them the dashboard has drained
  seam       \* history: how the two event sources were joined

busVars == <<sent, filler, ring>>
handlerVars == <<handler, cursor, replay>>
clientVars == <<client, lost, log, drawn>>
vars == <<busVars, handlerVars, shutdown, pipe, clientVars, seam>>

Init ==
  /\ sent = 0
  /\ filler = 0
  /\ ring = <<>>
  /\ handler = "waiting"
  /\ cursor = 0
  /\ replay = <<>>
  /\ shutdown = FALSE
  /\ pipe = <<>>
  /\ client = "connecting"
  /\ lost = FALSE
  /\ log = <<>>
  /\ drawn = 0
  /\ seam = [caught_up |-> FALSE, from |-> 0, skipped |-> FALSE, killed |-> FALSE]

-----------------------------------------------------------------------------
(* The bus and the ring.                                                   *)

Send ==
  /\ sent < MaxEvents
  /\ sent' = sent + 1
  /\ UNCHANGED <<filler, ring, handlerVars, shutdown, pipe, clientVars, seam>>

\* The oldest event a receiver can still get is sent - ChanCap + 1.
Lags(position) == position < sent - ChanCap

\* Variant: the ring is filled from the wrong end.
FillerPushesFront ==
  /\ filler < sent
  /\ ~ Lags(filler)
  /\ filler' = filler + 1
  /\ ring' = <<filler + 1>> \o (IF Len(ring) = RingCap THEN Front(ring) ELSE ring)
  /\ UNCHANGED <<sent, handlerVars, shutdown, pipe, clientVars, seam>>

\* EventRing::push, on what recv() returned.
FillerPushes ==
  /\ filler < sent
  /\ ~ Lags(filler)
  /\ filler' = filler + 1
  /\ ring' = Append(IF Len(ring) = RingCap THEN Tail(ring) ELSE ring, filler + 1)
  /\ UNCHANGED <<sent, handlerVars, shutdown, pipe, clientVars, seam>>

FillerLags ==
  /\ Lags(filler)
  /\ filler' = sent - ChanCap
  /\ seam' = [seam EXCEPT !.skipped = TRUE]
  /\ UNCHANGED <<sent, ring, handlerVars, shutdown, pipe, clientVars>>

-----------------------------------------------------------------------------
(* The server: accept, then handle_client.                                 *)

\* events.subscribe(): only what is sent from now on.  The select may take the accept
\* branch after shutdown was sent; the handler's receiver has not seen that either.
Subscribe ==
  /\ handler = "waiting"
  /\ handler' = "subscribed"
  /\ cursor' = sent
  /\ seam' = [seam EXCEPT !.caught_up = (filler = sent), !.from = sent]
  /\ UNCHANGED <<busVars, replay, shutdown, pipe, clientVars>>

\* Variant: the subscription is made after the ring was copied.
SnapshotThenSubscribe ==
  /\ handler = "subscribed"
  /\ handler' = "hello"
  /\ replay' = ring
  /\ cursor' = sent
  /\ UNCHANGED <<busVars, shutdown, pipe, clientVars, seam>>

\* ring.snapshot(), and the handler is spawned.
Snapshot ==
  /\ handler = "subscribed"
  /\ handler' = "hello"
  /\ replay' = ring
  /\ seam' = [seam EXCEPT !.skipped = @ \/ filler - seam.from > RingCap]
  /\ UNCHANGED <<busVars, cursor, shutdown, pipe, clientVars>>

\* The Frame enum; the contents of Hello and Stats do not matter here.
Hello == [kind |-> "hello"]
Stats == [kind |-> "stats"]
Event(e) == [kind |-> "event", event |-> e]

\* write_frame to a client that is still there, with room in the socket.
Write(frame) ==
  /\ client # "gone"
  /\ Len(pipe) < PipeCap
  /\ pipe' = Append(pipe, frame)

WriteHello ==
  /\ handler = "hello"
  /\ Write(Hello)
  /\ handler' = "replay"
  /\ UNCHANGED <<busVars, cursor, replay, shutdown, clientVars, seam>>

WriteReplay ==
  /\ handler = "replay"
  /\ replay # <<>>
  /\ Write(Event(Head(replay)))
  /\ replay' = Tail(replay)
  /\ UNCHANGED <<busVars, handler, cursor, shutdown, clientVars, seam>>

ReplayDone ==
  /\ handler = "replay"
  /\ replay = <<>>
  /\ handler' = "live"
  /\ UNCHANGED <<busVars, cursor, replay, shutdown, pipe, clientVars, seam>>

\* The ticker fires, every PUSH_INTERVAL: a Stats frame is next.
TickerFires ==
  /\ handler = "live"
  /\ handler' = "stats"
  /\ UNCHANGED <<busVars, cursor, replay, shutdown, pipe, clientVars, seam>>

WriteStats ==
  /\ handler = "stats"
  /\ Write(Stats)
  /\ handler' = "live"
  /\ UNCHANGED <<busVars, cursor, replay, shutdown, clientVars, seam>>

\* The connection table makes the frame longer than MAX_FRAME_LEN: write_frame fails.
FrameTooLarge ==
  /\ handler = "stats"
  /\ handler' = "ended"
  /\ UNCHANGED <<busVars, cursor, replay, shutdown, pipe, clientVars, seam>>

\* events.recv() yields the next event, which is off the bus from here on.
ReceiveEvent ==
  /\ handler = "live"
  /\ cursor < sent
  /\ ~ Lags(cursor)
  /\ handler' = "event"
  /\ cursor' = cursor + 1
  /\ UNCHANGED <<busVars, replay, shutdown, pipe, clientVars, seam>>

WriteEvent ==
  /\ handler = "event"
  /\ Write(Event(cursor))
  /\ handler' = "live"
  /\ UNCHANGED <<busVars, cursor, replay, shutdown, clientVars, seam>>

HandlerLags ==
  /\ handler = "live"
  /\ Lags(cursor)
  /\ cursor' = sent - ChanCap
  /\ seam' = [seam EXCEPT !.skipped = TRUE]
  /\ UNCHANGED <<busVars, handler, replay, shutdown, pipe, clientVars>>

\* Variant: a failed write does not end the live loop.
WriteFailsIgnored ==
  /\ handler \in {"hello", "replay", "stats", "event"}
  /\ client = "gone"
  /\ handler' = IF handler \in {"stats", "event"} THEN "live" ELSE "ended"
  /\ UNCHANGED <<busVars, cursor, replay, shutdown, pipe, clientVars, seam>>

\* The client is gone: the write fails, also one that was waiting for room.
WriteFails ==
  /\ handler \in {"hello", "replay", "stats", "event"}
  /\ client = "gone"
  /\ handler' = "ended"
  /\ UNCHANGED <<busVars, cursor, replay, shutdown, pipe, clientVars, seam>>

\* The shutdown branch, of handle_client or of serve before the client is accepted.
HandlerStops ==
  /\ handler \in {"waiting", "live"}
  /\ shutdown
  /\ handler' = "ended"
  /\ UNCHANGED <<busVars, cursor, replay, shutdown, pipe, clientVars, seam>>

Shutdown ==
  /\ ~ shutdown
  /\ shutdown' = TRUE
  /\ UNCHANGED <<busVars, handlerVars, pipe, clientVars, seam>>

\* The process is killed, or main returns while the handler still runs; what is in
\* the socket can still be read.
ServerDies ==
  /\ handler # "ended"
  /\ handler' = "ended"
  /\ shutdown' = TRUE
  /\ seam' = [seam EXCEPT !.killed = TRUE]
  /\ UNCHANGED <<busVars, cursor, replay, pipe, clientVars>>

-----------------------------------------------------------------------------
(* The client.                                                             *)

\* The first frame is Hello; the dashboard starts.
ReadHello ==
  /\ client = "connecting"
  /\ pipe # <<>>
  /\ Head(pipe) = Hello
  /\ pipe' = Tail(pipe)
  /\ client' = "running"
  /\ UNCHANGED <<busVars, handlerVars, shutdown, lost, log, drawn, seam>>

\* The server speaks another PROTO_VERSION: the client exits.
HelloMismatch ==
  /\ client = "connecting"
  /\ pipe # <<>>
  /\ client' = "gone"
  /\ UNCHANGED <<busVars, handlerVars, shutdown, pipe, lost, log, drawn, seam>>

Decoding == client \in {"running", "leaving"} /\ ~ lost

\* decode_loop: Stats replaces the remote state, Event goes to the client's bus.
ReadFrame ==
  /\ Decoding
  /\ pipe # <<>>
  /\ pipe' = Tail(pipe)
  /\ log' = IF Head(pipe).kind = "event" THEN Append(log, Head(pipe).event) ELSE log
  /\ UNCHANGED <<busVars, handlerVars, shutdown, client, lost, drawn, seam>>

\* Variant: the decode loop gives up although frames are still in the socket.
ReadEofEarly ==
  /\ client = "connecting" \/ Decoding
  /\ handler = "ended"
  /\ lost' = (client # "connecting")
  /\ client' = IF client = "connecting" THEN "gone" ELSE client
  /\ UNCHANGED <<busVars, handlerVars, shutdown, pipe, log, drawn, seam>>

\* Variant: only the handshake notices the end of the stream.
ReadEofMissed ==
  /\ client = "connecting"
  /\ handler = "ended"
  /\ pipe = <<>>
  /\ client' = "gone"
  /\ UNCHANGED <<busVars, handlerVars, shutdown, pipe, lost, log, drawn, seam>>

\* End of stream: a failed handshake exits; decode_loop sets lost, then the client's
\* shutdown channel, and ends.
ReadEof ==
  /\ client = "connecting" \/ Decoding
  /\ handler = "ended"
  /\ pipe = <<>>
  /\ lost' = (client # "connecting")
  /\ client' = IF client = "connecting" THEN "gone" ELSE client
  /\ UNCHANGED <<busVars, handlerVars, shutdown, pipe, log, drawn, seam>>

\* A tick of the dashboard: drain_events takes all that is on the client's bus.  Its
\* 1024 places are not exceeded here; what a tick does when they are is in Dashboard.
TuiTick ==
  /\ client = "running"
  /\ drawn' = Len(log)
  /\ UNCHANGED <<busVars, handlerVars, shutdown, pipe, client, lost, log, seam>>

\* The shutdown branch of the dashboard's loop: it breaks, and drains no more.
TuiBreaks ==
  /\ client = "running"
  /\ lost
  /\ client' = "leaving"
  /\ UNCHANGED <<busVars, handlerVars, shutdown, pipe, lost, log, drawn, seam>>

\* The user detaches, or the key reader ended: the loop breaks too.
Quit ==
  /\ client = "running"
  /\ client' = "leaving"
  /\ UNCHANGED <<busVars, handlerVars, shutdown, pipe, lost, log, drawn, seam>>

\* The key reader is joined, run returns, attach aborts the decode loop and returns.
TuiReturns ==
  /\ client = "leaving"
  /\ client' = "gone"
  /\ UNCHANGED <<busVars, handlerVars, shutdown, pipe, lost, log, drawn, seam>>

-----------------------------------------------------------------------------
ServeClient ==
  \/ Snapshot \/ WriteHello \/ WriteReplay \/ ReplayDone
  \/ WriteStats \/ WriteEvent \/ WriteFails

Decode == ReadHello \/ ReadFrame \/ ReadEof

Next ==
  \/ Send \/ FillerPushes \/ FillerLags
  \/ Subscribe \/ ServeClient \/ TickerFires \/ ReceiveEvent \/ HandlerLags
  \/ FrameTooLarge
  \/ HandlerStops \/ Shutdown \/ ServerDies
  \/ Decode \/ HelloMismatch \/ TuiTick \/ TuiBreaks \/ Quit \/ TuiReturns

Spec == Init /\ [][Next]_vars

\* The accept loop, the handler, the decode loop and the dashboard are polled; the select
\* of the handler ignores neither its ticker nor shutdown for ever, and the dashboard's
\* neither its ticker nor its shutdown channel.  Nobody has to send events, shut down or
\* detach.
FairSpec ==
  /\ Spec
  /\ WF_vars(Subscribe) /\ WF_vars(ServeClient)
  /\ SF_vars(TickerFires) /\ SF_vars(HandlerStops)
  /\ WF_vars(Decode) /\ WF_vars(TuiTick) /\ WF_vars(TuiBreaks) /\ WF_vars(TuiReturns)

-----------------------------------------------------------------------------
(* Properties.                                                             *)

\* Every variable stays in its domain, and the ring within its capacity.
TypeOK ==
  /\ sent \in 0 .. MaxEvents
  /\ filler \in 0 .. sent
  /\ ring \in Seq(1 .. MaxEvents) /\ Len(ring) <= RingCap
  /\ handler \in {"waiting", "subscribed", "hello", "replay", "live", "stats",
                  "event", "ended"}
  /\ cursor \in 0 .. sent
  /\ replay \in Seq(1 .. MaxEvents)
  /\ shutdown \in BOOLEAN
  /\ pipe \in Seq({Hello, Stats} \cup {Event(e) : e \in 1 .. MaxEvents})
  /\ Len(pipe) <= PipeCap
  /\ client \in {"connecting", "running", "leaving", "gone"}
  /\ lost \in BOOLEAN
  /\ log \in Seq(1 .. MaxEvents)
  /\ drawn \in 0 .. Len(log)

\* The replayed history and the live stream join without a hole, although the ring is
\* read only after the subscription and the filler, the senders and the accept loop
\* run concurrently: if the filler had caught up when the client was accepted and
\* nobody fell behind, the client has decoded every event from the oldest one it decoded
\* to the newest.
NoGapAtSeam ==
  (seam.caught_up /\ ~ seam.skipped) =>
    \A i, j \in DOMAIN log : \A e \in log[i] .. log[j] : e \in ToSet(log)

\* Nothing comes out of order: an event that is decoded after a newer one is a repetition
\* of one the client decoded before.
NewEventsAreNewer ==
  ~ seam.skipped =>
    \A j \in DOMAIN log :
      (\E i \in 1 .. j - 1 : log[i] > log[j]) => \E i \in 1 .. j - 1 : log[i] = log[j]

\* Ring and pipe keep their capacities, and NewEventsAreNewer: the client decodes events
\* in order, up to repetitions at the seam.
AttachInv == TypeOK /\ NewEventsAreNewer

\* When decode_loop ends with "connection lost" after an orderly stop it has put every
\* event the handler took from the server's bus on the client's: neither the one the
\* handler was writing when shutdown came nor what was in the socket when it was closed
\* is dropped.  It need not be drawn: the dashboard leaves without a last drain.
NothingInFlightIsDropped ==
  (lost /\ cursor > seam.from /\ ~ seam.skipped /\ ~ seam.killed) =>
    log # <<>> /\ Last(log) = cursor

\* A client that detached does not pin its handler: the handler notices, whatever it
\* was writing.
HandlerReclaimed == client = "gone" ~> handler = "ended"

\* README.md: when the server stops, the dashboard exits.  The client ends after the
\* server shuts down or dies, even if it was never accepted or was accepted after
\* shutdown was sent; and until it leaves its loop, the dashboard draws what was decoded.
DashboardExits ==
  /\ shutdown ~> client = "gone"
  /\ drawn < Len(log) ~> (drawn = Len(log) \/ client \in {"leaving", "gone"})
=============================================================================
