---------------------------- MODULE AttachProofs ----------------------------
(***************************************************************************)
(* Proofs about Attach, for every capacity of the bus, the ring and the    *)
(* socket, and any number of events.                                       *)
(***************************************************************************)
EXTENDS Attach, SequenceTheorems, TLAPS

(* Types.                                                                  *)

Frames == {Hello, Stats} \cup {Event(e) : e \in 1 .. MaxEvents}

SeamOK ==
  /\ seam \in [caught_up : BOOLEAN, from : Nat, skipped : BOOLEAN, killed : BOOLEAN]
  /\ seam.from <= cursor
  /\ handler \in {"waiting", "subscribed", "hello", "replay"} => cursor = seam.from
  /\ handler = "event" => seam.from < cursor

LEMMA TypeInitially == Init => TypeOK /\ SeamOK
<1> SUFFICES ASSUME Init PROVE TypeOK /\ SeamOK
  OBVIOUS
<1>1. /\ sent = 0 /\ filler = 0 /\ cursor = 0 /\ ring = <<>> /\ replay = <<>> /\ pipe = <<>>
      /\ log = <<>> /\ handler = "waiting" /\ client = "connecting"
      /\ shutdown \in BOOLEAN /\ lost \in BOOLEAN
  BY DEF Init
<1>2. /\ sent \in 0 .. MaxEvents /\ filler \in 0 .. sent /\ cursor \in 0 .. sent
      /\ Len(ring) <= RingCap /\ Len(pipe) <= PipeCap /\ drawn \in 0 .. Len(log)
  BY <1>1, AttachAssumption DEF Init
<1>3. /\ ring \in Seq(1 .. MaxEvents) /\ replay \in Seq(1 .. MaxEvents) /\ log \in Seq(1 .. MaxEvents)
      /\ pipe \in Seq(Frames)
  BY <1>1
<1>4. TypeOK
  BY <1>1, <1>2, <1>3, Zenon DEF TypeOK, Frames
<1>5. SeamOK
  BY DEF Init, SeamOK
<1> QED
  BY <1>4, <1>5

LEMMA FramesDiffer ==
  /\ Hello.kind = "hello" /\ Stats.kind = "stats"
  /\ \A e : Event(e).kind = "event" /\ Event(e).event = e
  /\ \A e : Event(e) # Hello /\ Event(e) # Stats
  /\ \A e, f : Event(e) = Event(f) => e = f
<1>1. Hello.kind = "hello" /\ Stats.kind = "stats"
  BY DEF Hello, Stats
<1>2. \A e : Event(e).kind = "event" /\ Event(e).event = e
  BY DEF Event
<1> QED
  BY <1>1, <1>2

LEMMA WriteType ==
  ASSUME TypeOK, NEW frame \in Frames, Write(frame)
  PROVE  /\ pipe' \in Seq(Frames) /\ Len(pipe') = Len(pipe) + 1 /\ Len(pipe') <= PipeCap
         /\ \A i \in 1 .. Len(pipe) : pipe'[i] = pipe[i]
         /\ pipe'[Len(pipe) + 1] = frame
<1>1. pipe \in Seq(Frames) /\ Len(pipe) \in Nat /\ PipeCap \in Nat
  BY AttachAssumption DEF TypeOK, Frames
<1>2. pipe' = Append(pipe, frame) /\ Len(pipe) < PipeCap
  BY DEF Write
<1> QED
  BY <1>1, <1>2, AppendProperties

LEMMA ReadType ==
  ASSUME TypeOK, pipe # <<>>, pipe' = Tail(pipe)
  PROVE  /\ pipe' \in Seq(Frames) /\ Len(pipe') = Len(pipe) - 1 /\ Len(pipe') <= PipeCap
         /\ Head(pipe) = pipe[1] /\ Head(pipe) \in Frames
         /\ \A i \in 1 .. Len(pipe') : pipe'[i] = pipe[i + 1]
<1>1. pipe \in Seq(Frames) /\ Len(pipe) \in Nat /\ PipeCap \in Nat /\ Len(pipe) <= PipeCap
  BY AttachAssumption DEF TypeOK, Frames
<1> QED
  BY <1>1, HeadTailProperties

LEMMA TypePreserved == TypeOK /\ SeamOK /\ [Next]_vars => TypeOK'
<1> SUFFICES ASSUME TypeOK, SeamOK, [Next]_vars PROVE TypeOK'
  OBVIOUS
<1>0. /\ MaxEvents \in Nat /\ ChanCap \in Nat \ {0} /\ RingCap \in Nat \ {0} /\ PipeCap \in Nat \ {0}
      /\ sent \in Nat /\ filler \in Nat /\ cursor \in Nat
  BY AttachAssumption DEF TypeOK
<1>1. CASE Send
  BY <1>0, <1>1 DEF Send, TypeOK, handlerVars, clientVars
<1>2. CASE FillerPushes
  <2> DEFINE base == IF Len(ring) = RingCap THEN Tail(ring) ELSE ring
  <2>1. base \in Seq(1 .. MaxEvents) /\ Len(base) < RingCap
    <3>1. CASE Len(ring) = RingCap
      <4>1. ring # <<>> /\ ring \in Seq(1 .. MaxEvents)
        BY <1>0, <3>1 DEF TypeOK
      <4> QED
        BY <1>0, <3>1, <4>1, HeadTailProperties
    <3>2. CASE Len(ring) # RingCap
      BY <1>0, <3>2 DEF TypeOK
    <3> QED
      BY <3>1, <3>2
  <2>2. filler + 1 \in 1 .. MaxEvents /\ filler + 1 \in 0 .. sent
    BY <1>0, <1>2 DEF FillerPushes, TypeOK
  <2>3. ring' = Append(base, filler + 1)
    BY <1>2 DEF FillerPushes
  <2>4. ring' \in Seq(1 .. MaxEvents) /\ Len(ring') <= RingCap
    <3> HIDE DEF base
    <3>1. Len(base) \in Nat
      BY <2>1
    <3> QED
      BY <1>0, <2>1, <2>2, <2>3, <3>1, AppendProperties
  <2> QED
    BY <1>2, <2>2, <2>4 DEF FillerPushes, TypeOK, handlerVars, clientVars
<1>3. CASE FillerLags \/ HandlerLags
  BY <1>0, <1>3, SMTT(20) DEF FillerLags, HandlerLags, Lags, TypeOK, handlerVars, clientVars, busVars
<1>4. CASE Subscribe \/ Snapshot
  BY <1>0, <1>4 DEF Subscribe, Snapshot, TypeOK, clientVars, busVars
<1>5. ASSUME NEW frame \in Frames, Write(frame), UNCHANGED <<busVars, cursor, shutdown, clientVars>>,
             replay' \in Seq(1 .. MaxEvents),
             handler' \in {"replay", "live"}
      PROVE  TypeOK'
  <2>1. pipe' \in Seq(Frames) /\ Len(pipe') <= PipeCap
    BY <1>5, WriteType
  <2> QED
    BY <1>5, <2>1 DEF TypeOK, busVars, clientVars, Frames
<1>6. CASE WriteHello \/ WriteStats
  <2>1. Hello \in Frames /\ Stats \in Frames
    BY DEF Frames
  <2> QED
    BY <1>5, <1>6, <2>1 DEF WriteHello, WriteStats, TypeOK
<1>7. CASE WriteReplay
  <2>1. Head(replay) \in 1 .. MaxEvents /\ Tail(replay) \in Seq(1 .. MaxEvents)
    BY <1>7, HeadTailProperties DEF WriteReplay, TypeOK
  <2>2. Event(Head(replay)) \in Frames
    BY <2>1 DEF Frames
  <2> QED
    BY <1>5, <1>7, <2>1, <2>2 DEF WriteReplay
<1>8. CASE WriteEvent
  <2>1. cursor \in 1 .. MaxEvents
    BY <1>0, <1>8 DEF WriteEvent, SeamOK, TypeOK
  <2>2. Event(cursor) \in Frames
    BY <2>1 DEF Frames
  <2> QED
    BY <1>5, <1>8, <2>2 DEF WriteEvent, TypeOK
<1>9. CASE ReplayDone \/ TickerFires \/ FrameTooLarge \/ ReceiveEvent
  BY <1>0, <1>9, SMTT(20) DEF ReplayDone, TickerFires, FrameTooLarge, ReceiveEvent, TypeOK, clientVars, busVars
<1>10. CASE WriteFails \/ HandlerStops \/ Shutdown \/ ServerDies
  BY <1>10 DEF WriteFails, HandlerStops, Shutdown, ServerDies, TypeOK, clientVars, busVars, handlerVars
<1>11. CASE HelloMismatch \/ ReadEof \/ Quit
  BY <1>11 DEF HelloMismatch, ReadEof, Quit, TypeOK, clientVars, busVars, handlerVars
<1>12. CASE ReadHello
  BY <1>12, ReadType DEF ReadHello, TypeOK, busVars, handlerVars, Frames
<1>13. CASE ReadFrame
  <2>1. pipe' \in Seq(Frames) /\ Len(pipe') <= PipeCap /\ Head(pipe) \in Frames
    BY <1>13, ReadType DEF ReadFrame
  <2>2. Head(pipe).kind = "event" => Head(pipe).event \in 1 .. MaxEvents
    BY <2>1, FramesDiffer DEF Frames
  <2>3. log' \in Seq(1 .. MaxEvents)
    BY <1>13, <2>2, AppendProperties DEF ReadFrame, TypeOK
  <2>4. drawn' \in 0 .. Len(log')
    <3>1. drawn' = drawn /\ drawn \in 0 .. Len(log) /\ Len(log) \in Nat /\ log \in Seq(1 .. MaxEvents)
      BY <1>13 DEF ReadFrame, TypeOK
    <3>2. Len(log') = Len(log) \/ Len(log') = Len(log) + 1
      BY <1>13, <2>2, <3>1, AppendProperties DEF ReadFrame
    <3> QED
      BY <3>1, <3>2
  <2> QED
    BY <1>13, <2>1, <2>3, <2>4 DEF ReadFrame, TypeOK, busVars, handlerVars, Frames
<1>15. CASE TuiTick
  <2>1. Len(log) \in Nat
    BY DEF TypeOK
  <2> QED
    BY <1>15, <2>1 DEF TuiTick, TypeOK, busVars, handlerVars
<1>16. CASE TuiBreaks \/ TuiReturns
  BY <1>16 DEF TuiBreaks, TuiReturns, TypeOK, busVars, handlerVars
<1>14. CASE UNCHANGED vars
  BY <1>14 DEF vars, TypeOK, clientVars, busVars, handlerVars
<1> QED
  BY <1>1, <1>2, <1>3, <1>4, <1>6, <1>7, <1>8, <1>9, <1>10, <1>11, <1>12, <1>13, <1>14, <1>15, <1>16
     DEF Next, ServeClient, Decode

LEMMA SeamPreserved == TypeOK /\ SeamOK /\ [Next]_vars => SeamOK'
<1> SUFFICES ASSUME TypeOK, SeamOK, [Next]_vars PROVE SeamOK'
  OBVIOUS
<1>0. /\ ChanCap \in Nat /\ RingCap \in Nat /\ sent \in Nat /\ filler \in Nat /\ cursor \in Nat
      /\ filler <= sent /\ cursor <= sent
  BY AttachAssumption DEF TypeOK
<1>1. CASE Subscribe
  <2>1. (filler = sent) \in BOOLEAN
    OBVIOUS
  <2>2. seam' \in [caught_up : BOOLEAN, from : Nat, skipped : BOOLEAN, killed : BOOLEAN]
        /\ seam'.from = sent
    BY <1>0, <1>1, <2>1 DEF Subscribe, SeamOK
  <2> QED
    BY <1>0, <1>1, <2>2 DEF Subscribe, SeamOK
<1>2. CASE FillerLags \/ HandlerLags
  <2>1. seam' \in [caught_up : BOOLEAN, from : Nat, skipped : BOOLEAN, killed : BOOLEAN]
        /\ seam'.from = seam.from
    BY <1>2 DEF FillerLags, HandlerLags, SeamOK
  <2> QED
    BY <1>0, <1>2, <2>1 DEF FillerLags, HandlerLags, SeamOK, Lags, handlerVars
<1>3. CASE Snapshot
  <2>1. (seam.skipped \/ filler - seam.from > RingCap) \in BOOLEAN
    OBVIOUS
  <2>2. seam' \in [caught_up : BOOLEAN, from : Nat, skipped : BOOLEAN, killed : BOOLEAN]
        /\ seam'.from = seam.from
    BY <1>3, <2>1 DEF Snapshot, SeamOK
  <2> QED
    BY <1>3, <2>2 DEF Snapshot, SeamOK
<1>4. CASE ServerDies
  BY <1>4 DEF ServerDies, SeamOK
<1>5. CASE ReceiveEvent
  BY <1>0, <1>5 DEF ReceiveEvent, SeamOK
<1>6. ASSUME UNCHANGED <<seam, cursor>>,
             \/ handler' = handler \/ handler' \in {"live", "stats", "ended"}
             \/ handler = "hello" /\ handler' = "replay"
      PROVE  SeamOK'
  BY <1>6 DEF SeamOK
<1> QED
  BY <1>1, <1>2, <1>4, <1>5, <1>6, <1>3 DEF Next, ServeClient, Decode, Send, FillerPushes, WriteHello,
     WriteReplay, ReplayDone, WriteStats, WriteEvent, WriteFails, TickerFires, FrameTooLarge,
     HandlerStops, Shutdown, ReadHello, ReadFrame, ReadEof, HelloMismatch, Quit, TuiTick, TuiBreaks,
     TuiReturns, vars, handlerVars

-----------------------------------------------------------------------------
(* What was sent to the client.                                            *)

\* The client has decoded e, or e is among the first i - 1 frames of the socket.
SentBefore(e, i) == e \in ToSet(log) \/ \E k \in 1 .. i - 1 : pipe[k] = Event(e)

Written(e) == SentBefore(e, Len(pipe) + 1)

\* What comes before frame i makes e a repetition, or the next event.
Fits(e, i) ==
  \/ SentBefore(e, i)
  \/ /\ \A x \in 1 .. MaxEvents : SentBefore(x, i) => x < e
     /\ seam.caught_up => SentBefore(e - 1, i) \/ \A x \in 1 .. MaxEvents : ~ SentBefore(x, i)

PipeFits == \A i \in 1 .. Len(pipe), e \in 1 .. MaxEvents : pipe[i] = Event(e) => Fits(e, i)

LogConvex == \A x, y \in ToSet(log) : \A e \in x .. y : e \in ToSet(log)

LogNewer ==
  \A j \in 1 .. Len(log) :
    (\E i \in 1 .. j - 1 : log[i] > log[j]) => \E i \in 1 .. j - 1 : log[i] = log[j]

LEMMA SeqElements ==
  ASSUME NEW T, NEW s \in Seq(T)
  PROVE  ToSet(s) \subseteq T
  BY DEF ToSet

LEMMA SeqHead ==
  ASSUME NEW T, NEW s \in Seq(T), s # <<>>
  PROVE  /\ Head(s) = s[1] /\ Head(s) \in T /\ Len(s) \in Nat \ {0}
         /\ Tail(s) \in Seq(T) /\ Len(Tail(s)) = Len(s) - 1
         /\ \A i \in 1 .. Len(s) - 1 : Tail(s)[i] = s[i + 1]
  BY HeadTailProperties

LEMMA AppendToLog ==
  ASSUME TypeOK, NEW h \in 1 .. MaxEvents, log' = Append(log, h)
  PROVE  /\ log' # <<>> /\ Len(log') = Len(log) + 1 /\ Last(log') = h
         /\ ToSet(log') = ToSet(log) \cup {h} /\ Len(log) \in Nat
         /\ \A i \in 1 .. Len(log) : log'[i] = log[i]
         /\ log'[Len(log) + 1] = h
<1>1. /\ log \in Seq(1 .. MaxEvents) /\ log' \in Seq(1 .. MaxEvents)
      /\ Len(log') = Len(log) + 1 /\ Len(log) \in Nat
      /\ \A i \in 1 .. Len(log) : log'[i] = log[i]
      /\ log'[Len(log) + 1] = h
  BY AppendProperties DEF TypeOK
<1>2. DOMAIN log = 1 .. Len(log) /\ DOMAIN log' = 1 .. Len(log) + 1
  BY <1>1
<1>3. ToSet(log') = ToSet(log) \cup {h}
  BY <1>1, <1>2 DEF ToSet
<1>4. Last(log') = h
  BY <1>1 DEF Last
<1> QED
  BY <1>1, <1>3, <1>4

LEMMA SentWrite ==
  ASSUME TypeOK, NEW frame \in Frames, Write(frame), log' = log
  PROVE  /\ \A e \in Nat, i \in 1 .. Len(pipe) + 1 : SentBefore(e, i)' <=> SentBefore(e, i)
         /\ \A e \in Nat : Written(e)' <=> Written(e) \/ frame = Event(e)
<1>1. /\ Len(pipe) \in Nat /\ Len(pipe') = Len(pipe) + 1
      /\ \A i \in 1 .. Len(pipe) : pipe'[i] = pipe[i]
      /\ pipe'[Len(pipe) + 1] = frame
  BY WriteType DEF TypeOK
<1>2. ASSUME NEW e \in Nat, NEW i \in 1 .. Len(pipe) + 1
      PROVE  SentBefore(e, i)' <=> SentBefore(e, i)
  BY <1>1 DEF SentBefore
<1>3. ASSUME NEW e \in Nat PROVE Written(e)' <=> Written(e) \/ frame = Event(e)
  <2>1. (\E k \in 1 .. Len(pipe) + 1 : pipe'[k] = Event(e))
          <=> (\E k \in 1 .. Len(pipe) : pipe[k] = Event(e)) \/ frame = Event(e)
    BY <1>1
  <2>2. Len(pipe') + 1 - 1 = Len(pipe) + 1 /\ Len(pipe) + 1 - 1 = Len(pipe)
    BY <1>1
  <2> QED
    BY <2>1, <2>2 DEF Written, SentBefore
<1> QED
  BY <1>2, <1>3

\* A frame that is read goes from the socket to the log, or is no event.
ReadsHead ==
  /\ pipe # <<>>
  /\ pipe' = Tail(pipe)
  /\ \/ (\A e \in Nat : Head(pipe) # Event(e)) /\ log' = log
     \/ \E h \in 1 .. MaxEvents : Head(pipe) = Event(h) /\ log' = Append(log, h)

LEMMA ReadsHeadFrame == TypeOK /\ (ReadHello \/ ReadFrame) => ReadsHead
<1>1. ASSUME TypeOK, ReadHello PROVE ReadsHead
  BY <1>1, FramesDiffer DEF ReadHello, ReadsHead
<1>2. ASSUME TypeOK, ReadFrame PROVE ReadsHead
  <2>1. pipe # <<>> /\ pipe' = Tail(pipe) /\ Head(pipe) \in Frames
    BY <1>2, ReadType DEF ReadFrame
  <2>2. CASE \E h \in 1 .. MaxEvents : Head(pipe) = Event(h)
    BY <1>2, <2>1, <2>2, FramesDiffer DEF ReadFrame, ReadsHead
  <2>3. CASE Head(pipe) \in {Hello, Stats}
    BY <1>2, <2>1, <2>3, FramesDiffer DEF ReadFrame, ReadsHead
  <2> QED
    BY <2>1, <2>2, <2>3 DEF Frames
<1> QED
  BY <1>1, <1>2

LEMMA SentRead ==
  ASSUME TypeOK, ReadsHead
  PROVE  /\ \A e \in Nat, i \in 1 .. Len(pipe) : SentBefore(e, i)' <=> SentBefore(e, i + 1)
         /\ \A e \in Nat : Written(e)' <=> Written(e)
<1>1. /\ Len(pipe) \in Nat \ {0} /\ Len(pipe') = Len(pipe) - 1 /\ Head(pipe) = pipe[1]
      /\ \A i \in 1 .. Len(pipe') : pipe'[i] = pipe[i + 1]
  BY ReadType DEF ReadsHead, TypeOK
<1>2. \A e \in Nat : e \in ToSet(log') <=> e \in ToSet(log) \/ pipe[1] = Event(e)
  <2>1. CASE (\A e \in Nat : Head(pipe) # Event(e)) /\ log' = log
    BY <1>1, <2>1
  <2>2. ASSUME NEW h \in 1 .. MaxEvents, Head(pipe) = Event(h), log' = Append(log, h)
        PROVE  \A e \in Nat : e \in ToSet(log') <=> e \in ToSet(log) \/ pipe[1] = Event(e)
    <3>1. ToSet(log') = ToSet(log) \cup {h}
      BY <2>2, AppendToLog
    <3>2. \A e : Event(h) = Event(e) <=> e = h
      BY FramesDiffer
    <3> QED
      BY <1>1, <2>2, <3>1, <3>2
  <2> QED
    BY <2>1, <2>2 DEF ReadsHead
<1>3. ASSUME NEW e \in Nat, NEW i \in 1 .. Len(pipe)
      PROVE  SentBefore(e, i)' <=> SentBefore(e, i + 1)
  <2>1. ASSUME NEW k \in 1 .. i - 1, pipe'[k] = Event(e)
        PROVE  \E j \in 1 .. i : pipe[j] = Event(e)
    <3>1. k + 1 \in 1 .. i /\ pipe[k + 1] = Event(e)
      BY <1>1, <2>1
    <3> QED
      BY <3>1
  <2>2. ASSUME NEW j \in 2 .. i, pipe[j] = Event(e)
        PROVE  \E k \in 1 .. i - 1 : pipe'[k] = Event(e)
    <3>1. j - 1 \in 1 .. i - 1 /\ pipe'[j - 1] = Event(e)
      BY <1>1, <2>2
    <3> QED
      BY <3>1
  <2>3. (i + 1) - 1 = i /\ 1 .. i = {1} \cup 2 .. i
    OBVIOUS
  <2>4. (\E j \in 1 .. i : pipe[j] = Event(e))
          <=> pipe[1] = Event(e) \/ \E k \in 1 .. i - 1 : pipe'[k] = Event(e)
    BY <2>1, <2>2, <2>3
  <2> QED
    BY <1>2, <2>3, <2>4 DEF SentBefore
<1>4. Len(pipe') + 1 = Len(pipe)
  BY <1>1
<1> QED
  BY <1>1, <1>3, <1>4 DEF Written

LEMMA WriteFitsIn ==
  ASSUME TypeOK, PipeFits, NEW frame \in Frames, Write(frame), log' = log, seam' = seam,
         \A e \in 1 .. MaxEvents : frame = Event(e) => Fits(e, Len(pipe) + 1)
  PROVE  PipeFits'
<1>1. /\ Len(pipe) \in Nat /\ Len(pipe') = Len(pipe) + 1
      /\ \A i \in 1 .. Len(pipe) : pipe'[i] = pipe[i]
      /\ pipe'[Len(pipe) + 1] = frame
  BY WriteType DEF TypeOK
<1>2. \A e \in Nat, i \in 1 .. Len(pipe) + 1 : SentBefore(e, i)' <=> SentBefore(e, i)
  BY SentWrite
<1>3. ASSUME NEW i \in 1 .. Len(pipe) + 1, NEW e \in 1 .. MaxEvents, Fits(e, i) PROVE Fits(e, i)'
  <2>1. /\ e \in Nat /\ e - 1 \in Nat /\ seam'.caught_up = seam.caught_up
        /\ \A x \in 1 .. MaxEvents : x \in Nat
    BY AttachAssumption
  <2>2. /\ SentBefore(e, i)' <=> SentBefore(e, i)
        /\ SentBefore(e - 1, i)' <=> SentBefore(e - 1, i)
        /\ \A x \in 1 .. MaxEvents : SentBefore(x, i)' <=> SentBefore(x, i)
    BY <1>2, <2>1
  <2> QED
    BY <1>3, <2>1, <2>2, Zenon DEF Fits
<1>4. ASSUME NEW i \in 1 .. Len(pipe'), NEW e \in 1 .. MaxEvents, pipe'[i] = Event(e)
      PROVE  Fits(e, i)'
  <2>1. CASE i \in 1 .. Len(pipe)
    <3>1. pipe[i] = Event(e) /\ i \in 1 .. Len(pipe) + 1
      BY <1>1, <1>4, <2>1
    <3>2. Fits(e, i)
      BY <2>1, <3>1 DEF PipeFits
    <3> QED
      BY <1>3, <3>1, <3>2
  <2>2. CASE i = Len(pipe) + 1
    <3>1. Fits(e, i)
      BY <1>1, <1>4, <2>2
    <3>2. i \in 1 .. Len(pipe) + 1
      BY <1>1
    <3> QED
      BY <1>3, <3>1, <3>2
  <2> QED
    BY <1>1, <2>1, <2>2
<1> QED
  BY <1>4 DEF PipeFits

LEMMA ReadFitsIn ==
  ASSUME TypeOK, PipeFits, LogNewer, seam.caught_up => LogConvex, ReadsHead, seam' = seam
  PROVE  PipeFits' /\ LogNewer' /\ (seam'.caught_up => LogConvex')
<1>0. /\ Len(pipe) \in Nat \ {0} /\ Len(pipe') = Len(pipe) - 1 /\ Head(pipe) = pipe[1]
      /\ \A i \in 1 .. Len(pipe') : pipe'[i] = pipe[i + 1]
  BY ReadType DEF ReadsHead, TypeOK
<1>1. PipeFits'
  <2> SUFFICES ASSUME NEW i \in 1 .. Len(pipe'), NEW e \in 1 .. MaxEvents, pipe'[i] = Event(e)
               PROVE  Fits(e, i)'
    BY DEF PipeFits
  <2>1. i \in 1 .. Len(pipe) /\ i + 1 \in 1 .. Len(pipe) /\ pipe[i + 1] = Event(e)
    BY <1>0
  <2>2. Fits(e, i + 1)
    BY <2>1 DEF PipeFits
  <2>3. /\ e \in Nat /\ e - 1 \in Nat /\ seam'.caught_up = seam.caught_up
        /\ \A x \in 1 .. MaxEvents : x \in Nat
    BY AttachAssumption
  <2>4. /\ SentBefore(e, i)' <=> SentBefore(e, i + 1)
        /\ SentBefore(e - 1, i)' <=> SentBefore(e - 1, i + 1)
        /\ \A x \in 1 .. MaxEvents : SentBefore(x, i)' <=> SentBefore(x, i + 1)
    BY <2>1, <2>3, SentRead
  <2> QED
    BY <2>2, <2>3, <2>4, Zenon DEF Fits
<1>2. CASE log' = log
  BY <1>1, <1>2 DEF LogNewer, LogConvex
<1>3. ASSUME NEW h \in 1 .. MaxEvents, Head(pipe) = Event(h), log' = Append(log, h)
      PROVE  LogNewer' /\ (seam'.caught_up => LogConvex')
  <2>1. /\ Len(log') = Len(log) + 1 /\ Len(log) \in Nat
        /\ ToSet(log') = ToSet(log) \cup {h}
        /\ \A i \in 1 .. Len(log) : log'[i] = log[i]
        /\ log'[Len(log) + 1] = h
    BY <1>3, AppendToLog
  <2>2. log \in Seq(1 .. MaxEvents) /\ DOMAIN log = 1 .. Len(log) /\ ToSet(log) \subseteq 1 .. MaxEvents
    <3>1. log \in Seq(1 .. MaxEvents)
      BY DEF TypeOK
    <3>2. DOMAIN log = 1 .. Len(log)
      BY <3>1
    <3> QED
      BY <3>1, <3>2, SeqElements
  <2>3. Fits(h, 1)
    <3>1. 1 \in 1 .. Len(pipe) /\ pipe[1] = Event(h)
      BY <1>0, <1>3
    <3> QED
      BY <3>1 DEF PipeFits
  <2>4. \A x : SentBefore(x, 1) <=> x \in ToSet(log)
    BY DEF SentBefore
  <2>5. \/ h \in ToSet(log)
        \/ /\ \A x \in ToSet(log) : x < h
           /\ seam.caught_up => h - 1 \in ToSet(log) \/ ToSet(log) = {}
    BY <2>2, <2>3, <2>4 DEF Fits
  <2>6. LogNewer'
    <3> SUFFICES ASSUME NEW j \in 1 .. Len(log'), NEW i \in 1 .. j - 1, log'[i] > log'[j]
                 PROVE  \E k \in 1 .. j - 1 : log'[k] = log'[j]
      BY DEF LogNewer
    <3>1. CASE j \in 1 .. Len(log)
      <4>1. \A k \in 1 .. j : log'[k] = log[k]
        BY <2>1, <3>1
      <4>2. log[i] > log[j]
        BY <3>1, <4>1
      <4>3. \E k \in 1 .. j - 1 : log[k] = log[j]
        BY <3>1, <4>2 DEF LogNewer
      <4> QED
        BY <3>1, <4>1, <4>3
    <3>2. CASE j = Len(log) + 1
      <4>1. i \in 1 .. Len(log) /\ log[i] \in ToSet(log) /\ log[i] > h
        BY <2>1, <2>2, <3>2 DEF ToSet
      <4>2. h \in ToSet(log)
        BY <2>2, <2>5, <4>1
      <4>3. PICK k \in 1 .. Len(log) : log[k] = h
        BY <2>2, <4>2 DEF ToSet
      <4>4. k \in 1 .. j - 1 /\ log'[k] = log'[j]
        BY <2>1, <3>2, <4>3
      <4> QED
        BY <4>4
    <3> QED
      BY <2>1, <3>1, <3>2
  <2>7. ASSUME seam'.caught_up PROVE LogConvex'
    <3>0. seam.caught_up /\ LogConvex
      BY <2>7
    <3> SUFFICES ASSUME NEW x \in ToSet(log) \cup {h}, NEW y \in ToSet(log) \cup {h}, NEW e \in x .. y
                 PROVE  e \in ToSet(log) \cup {h}
      BY <2>1 DEF LogConvex
    <3>1. CASE h \in ToSet(log)
      BY <3>0, <3>1 DEF LogConvex
    <3>2. CASE h \notin ToSet(log)
      <4>1. \A z \in ToSet(log) : z < h /\ z \in Nat
        BY <2>2, <2>5, <3>2
      <4>2. CASE x = h
        BY <2>2, <4>1, <4>2
      <4>3. CASE x \in ToSet(log) /\ y \in ToSet(log)
        BY <3>0, <4>3 DEF LogConvex
      <4>4. CASE x \in ToSet(log) /\ y = h
        <5>1. h - 1 \in ToSet(log)
          BY <2>5, <3>0, <3>2, <4>4
        <5>2. e = h \/ e \in x .. h - 1
          BY <4>1, <4>4
        <5> QED
          BY <3>0, <4>4, <5>1, <5>2 DEF LogConvex
      <4> QED
        BY <4>2, <4>3, <4>4
    <3> QED
      BY <3>1, <3>2
  <2> QED
    BY <2>6, <2>7
<1> QED
  BY <1>1, <1>2, <1>3 DEF ReadsHead

-----------------------------------------------------------------------------
(* How ring and bus are joined.                                            *)

\* Before the handler writes nothing was written, and a filler that had caught up at the
\* subscription is not behind it when the ring is copied.
Early ==
  /\ handler \in {"waiting", "subscribed", "hello"} => log = <<>> /\ pipe = <<>>
  /\ (handler = "subscribed" /\ seam.caught_up) => seam.from <= filler

\* The ring is the last events the filler received, as many as it holds.
RingIsRecent ==
  /\ \A i \in 1 .. Len(ring) : ring[i] = (filler - Len(ring)) + i
  /\ Len(ring) = RingCap \/ Len(ring) = filler

\* The events lo .. to are replayed, then come those after the subscription; the replay
\* reaches back to the subscription if it reaches beyond it.
Joined(lo, to) ==
  /\ 1 <= lo /\ lo <= to + 1
  /\ seam.from < to => lo <= seam.from + 1
  /\ seam.caught_up => seam.from <= to
  /\ handler \in {"hello", "replay"} =>
       /\ \A i \in 1 .. Len(replay) : replay[i] = (to - Len(replay)) + i
       /\ Len(replay) <= (to - lo) + 1
       /\ \A e \in Nat : Written(e) <=> e \in lo .. to - Len(replay)
  /\ handler \in {"live", "stats"} =>
       \A e \in Nat : Written(e) <=> e \in lo .. to \/ e \in seam.from + 1 .. cursor
  /\ handler = "event" =>
       \A e \in Nat : Written(e) <=> e \in lo .. to \/ e \in seam.from + 1 .. cursor - 1

Replaying == handler \in {"hello", "replay", "live", "stats", "event"}

StreamInv ==
  ~ seam.skipped =>
    /\ RingIsRecent
    /\ PipeFits
    /\ LogNewer
    /\ seam.caught_up => LogConvex
    /\ Replaying => \E lo, to \in Nat : Joined(lo, to)

LEMMA EarlyPreserved == TypeOK /\ SeamOK /\ Early /\ [Next]_vars => Early'
<1> SUFFICES ASSUME TypeOK, SeamOK, Early, [Next]_vars PROVE Early'
  OBVIOUS
<1>0. ChanCap \in Nat /\ sent \in Nat /\ filler \in Nat /\ filler <= sent
  BY AttachAssumption DEF TypeOK
<1>1. CASE Subscribe
  BY <1>0, <1>1 DEF Subscribe, Early, clientVars, SeamOK, busVars
<1>2. CASE FillerPushes \/ FillerLags
  <2>1. filler' >= filler /\ filler' \in Nat /\ seam'.from = seam.from /\ seam'.caught_up = seam.caught_up
        /\ UNCHANGED <<handler, log, pipe>>
    BY <1>0, <1>2 DEF FillerPushes, FillerLags, Lags, SeamOK, handlerVars, clientVars
  <2>2. seam.from \in Nat
    BY DEF SeamOK
  <2> QED
    BY <1>0, <2>1, <2>2 DEF Early
<1>3. CASE Snapshot
  BY <1>3 DEF Snapshot, Early, clientVars
<1>4. ASSUME handler' \notin {"waiting", "subscribed", "hello"} PROVE Early'
  BY <1>4 DEF Early
<1>5. ASSUME UNCHANGED <<handler, log, pipe, seam, filler>> PROVE Early'
  BY <1>5 DEF Early
<1>6. CASE ReadHello \/ ReadFrame
  BY <1>4, <1>6 DEF ReadHello, ReadFrame, Early, handlerVars
<1> QED
  BY <1>1, <1>2, <1>3, <1>4, <1>5, <1>6 DEF Next, ServeClient, Decode, Send, WriteHello,
     WriteReplay, ReplayDone, WriteStats, WriteEvent, WriteFails, TickerFires, FrameTooLarge,
     ReceiveEvent, HandlerLags, ServerDies,
     HandlerStops, Shutdown, ReadEof, HelloMismatch, Quit, TuiTick, TuiBreaks,
     TuiReturns, vars, handlerVars, busVars, clientVars

LEMMA RingPreserved ==
  ASSUME TypeOK, SeamOK, [Next]_vars, ~ seam.skipped => RingIsRecent, ~ seam'.skipped
  PROVE  ~ seam.skipped /\ RingIsRecent'
<1>0. /\ RingCap \in Nat \ {0} /\ filler \in Nat /\ ring \in Seq(1 .. MaxEvents)
      /\ Len(ring) \in Nat /\ Len(ring) <= RingCap
  BY AttachAssumption DEF TypeOK
<1>1. CASE FillerPushes
  <2>1. ~ seam.skipped /\ RingIsRecent
    BY <1>1 DEF FillerPushes
  <2>2. filler' = filler + 1
    BY <1>1 DEF FillerPushes
  <2>3. ring' = Append(IF Len(ring) = RingCap THEN Tail(ring) ELSE ring, filler + 1)
    BY <1>1 DEF FillerPushes
  <2>4. filler + 1 \in 1 .. MaxEvents
    BY <1>0, <1>1, AttachAssumption DEF FillerPushes, TypeOK
  <2>5. CASE Len(ring) = RingCap
    <3>1. /\ Tail(ring) \in Seq(1 .. MaxEvents) /\ Len(Tail(ring)) = RingCap - 1
          /\ \A i \in 1 .. RingCap - 1 : Tail(ring)[i] = ring[i + 1]
      <4>1. ring # <<>>
        BY <1>0, <2>5
      <4> QED
        BY <1>0, <2>5, <4>1, HeadTailProperties
    <3>2. /\ Len(ring') = RingCap
          /\ \A i \in 1 .. RingCap - 1 : ring'[i] = ring[i + 1]
          /\ ring'[RingCap] = filler + 1
      BY <1>0, <2>3, <2>4, <2>5, <3>1, AppendProperties
    <3>3. \A i \in 1 .. RingCap - 1 : ring[i + 1] = (filler - RingCap) + (i + 1)
      BY <1>0, <2>1, <2>5 DEF RingIsRecent
    <3>4. ASSUME NEW i \in 1 .. Len(ring') PROVE ring'[i] = (filler' - Len(ring')) + i
      <4>1. CASE i = RingCap
        BY <1>0, <2>2, <3>2, <4>1
      <4>2. CASE i \in 1 .. RingCap - 1
        <5>1. ring'[i] = (filler - RingCap) + (i + 1)
          BY <3>2, <3>3, <4>2
        <5> QED
          BY <1>0, <2>2, <3>2, <4>2, <5>1
      <4> QED
        BY <1>0, <3>2, <4>1, <4>2
    <3> QED
      BY <2>1, <3>2, <3>4 DEF RingIsRecent
  <2>6. CASE Len(ring) # RingCap
    <3>1. Len(ring) = filler /\ \A i \in 1 .. Len(ring) : ring[i] = (filler - Len(ring)) + i
      BY <2>1, <2>6 DEF RingIsRecent
    <3>2. /\ Len(ring') = Len(ring) + 1
          /\ \A i \in 1 .. Len(ring) : ring'[i] = ring[i]
          /\ ring'[Len(ring) + 1] = filler + 1
      BY <1>0, <2>3, <2>4, <2>6, AppendProperties
    <3>3. ASSUME NEW i \in 1 .. Len(ring') PROVE ring'[i] = (filler' - Len(ring')) + i
      <4>1. CASE i = Len(ring) + 1
        BY <1>0, <2>2, <3>1, <3>2, <4>1
      <4>2. CASE i \in 1 .. Len(ring)
        <5>1. ring'[i] = (filler - Len(ring)) + i
          BY <3>1, <3>2, <4>2
        <5> QED
          BY <1>0, <2>2, <3>2, <4>2, <5>1
      <4> QED
        BY <1>0, <3>2, <4>1, <4>2
    <3> QED
      BY <2>1, <2>2, <3>1, <3>2, <3>3 DEF RingIsRecent
  <2> QED
    BY <2>5, <2>6
<1>2. CASE FillerLags \/ HandlerLags
  BY <1>2 DEF FillerLags, HandlerLags, SeamOK
<1>3. CASE Subscribe \/ Snapshot \/ ServerDies
  <2>1. ~ seam.skipped
    BY <1>3 DEF Subscribe, Snapshot, ServerDies, SeamOK
  <2> QED
    BY <1>3, <2>1 DEF Subscribe, Snapshot, ServerDies, RingIsRecent, busVars
<1>4. ASSUME UNCHANGED <<ring, filler, seam>> PROVE ~ seam.skipped /\ RingIsRecent'
  BY <1>4 DEF RingIsRecent
<1> QED
  BY <1>1, <1>2, <1>3, <1>4 DEF Next, ServeClient, Decode, Send, WriteHello,
     WriteReplay, ReplayDone, WriteStats, WriteEvent, WriteFails, TickerFires, FrameTooLarge,
     ReceiveEvent, ReadHello, ReadFrame,
     HandlerStops, Shutdown, ReadEof, HelloMismatch, Quit, TuiTick, TuiBreaks,
     TuiReturns, vars, handlerVars, busVars, clientVars

LEMMA NothingMoved ==
  ASSUME UNCHANGED <<log, pipe>>, seam'.caught_up = seam.caught_up
  PROVE  /\ PipeFits => PipeFits'
         /\ LogNewer => LogNewer'
         /\ LogConvex => LogConvex'
         /\ \A e \in Nat : Written(e)' <=> Written(e)
  BY DEF PipeFits, Fits, SentBefore, LogNewer, LogConvex, Written

LEMMA NothingYet ==
  ASSUME log = <<>>, pipe = <<>>
  PROVE  PipeFits /\ LogNewer /\ LogConvex /\ \A e \in Nat : ~ Written(e)
<1>1. ToSet(log) = {} /\ Len(log) = 0 /\ Len(pipe) = 0
  BY DEF ToSet
<1>2. PipeFits /\ LogNewer
  BY <1>1 DEF PipeFits, LogNewer
<1>3. LogConvex
  BY <1>1 DEF LogConvex
<1>4. \A e \in Nat : ~ Written(e)
  BY <1>1 DEF Written, SentBefore
<1> QED
  BY <1>2, <1>3, <1>4

\* The next event of the replay, and the next one of the bus, fit in.
LEMMA ReplayFitsIn ==
  ASSUME TypeOK, NEW lo \in Nat, NEW to \in Nat, Joined(lo, to), handler = "replay", replay # <<>>
  PROVE  /\ Head(replay) = (to - Len(replay)) + 1 /\ Head(replay) \in 1 .. MaxEvents
         /\ Fits(Head(replay), Len(pipe) + 1)
<1> DEFINE h == Head(replay)
<1>1. h = replay[1] /\ h \in 1 .. MaxEvents /\ Len(replay) \in Nat \ {0}
  <2>1. replay \in Seq(1 .. MaxEvents)
    BY DEF TypeOK
  <2> QED
    BY <2>1, SeqHead, Zenon
<1>2. h = (to - Len(replay)) + 1
  BY <1>1 DEF Joined
<1>3. \A e \in Nat : Written(e) <=> e \in lo .. to - Len(replay)
  BY DEF Joined
<1>4. lo <= h /\ h \in Nat /\ MaxEvents \in Nat
  BY <1>1, <1>2, AttachAssumption DEF Joined
<1> HIDE DEF h
<1>5. \A x \in 1 .. MaxEvents : Written(x) => x < h
  BY <1>1, <1>2, <1>3, <1>4
<1>6. Written(h - 1) \/ \A x \in 1 .. MaxEvents : ~ Written(x)
  <2>1. h - 1 \in Nat /\ to - Len(replay) = h - 1
    BY <1>1, <1>2, <1>4
  <2>2. CASE lo <= h - 1
    BY <1>3, <2>1, <2>2
  <2>3. CASE lo > h - 1
    BY <1>3, <1>4, <2>1, <2>3
  <2> QED
    BY <1>4, <2>2, <2>3
<1>7. Fits(h, Len(pipe) + 1)
  BY <1>5, <1>6 DEF Fits, Written
<1> QED
  BY <1>1, <1>2, <1>7 DEF h

LEMMA LiveFitsIn ==
  ASSUME TypeOK, SeamOK, NEW lo \in Nat, NEW to \in Nat, Joined(lo, to), handler = "event"
  PROVE  cursor \in 1 .. MaxEvents /\ Fits(cursor, Len(pipe) + 1)
<1> DEFINE from == seam.from
<1>1. /\ cursor \in 1 .. MaxEvents /\ from \in Nat /\ from < cursor /\ cursor \in Nat
      /\ MaxEvents \in Nat
  BY AttachAssumption DEF TypeOK, SeamOK
<1>2. \A e \in Nat : Written(e) <=> e \in lo .. to \/ e \in from + 1 .. cursor - 1
  BY DEF Joined
<1>3. 1 <= lo /\ lo <= to + 1 /\ (from < to => lo <= from + 1) /\ (seam.caught_up => from <= to)
  BY DEF Joined
<1> HIDE DEF from
<1>4. CASE cursor <= to
  <2>1. Written(cursor)
    BY <1>1, <1>2, <1>3, <1>4
  <2> QED
    BY <1>1, <2>1 DEF Fits, Written
<1>5. CASE cursor > to
  <2>1. \A x \in 1 .. MaxEvents : Written(x) => x < cursor
    BY <1>1, <1>2, <1>5
  <2>2. ASSUME seam.caught_up
        PROVE  Written(cursor - 1) \/ \A x \in 1 .. MaxEvents : ~ Written(x)
    <3>1. cursor - 1 \in Nat /\ from <= to
      BY <1>1, <1>3, <2>2
    <3>2. CASE cursor - 1 > from
      BY <1>1, <1>2, <3>1, <3>2
    <3>3. CASE cursor - 1 = from /\ lo <= to
      BY <1>1, <1>2, <1>5, <3>1, <3>3
    <3>4. CASE cursor - 1 = from /\ lo > to
      BY <1>1, <1>2, <3>1, <3>4
    <3> QED
      BY <1>1, <3>2, <3>3, <3>4
  <2> QED
    BY <1>1, <2>1, <2>2 DEF Fits, Written
<1> QED
  BY <1>1, <1>4, <1>5

\* The ring, when it is copied, joins what is sent after the subscription.
LEMMA SnapshotJoins ==
  ASSUME TypeOK, SeamOK, Early, RingIsRecent, Snapshot, ~ seam'.skipped
  PROVE  \E lo, to \in Nat : Joined(lo, to)'
<1> DEFINE lo == (filler - Len(ring)) + 1
<1>1. /\ filler \in Nat /\ Len(ring) \in Nat /\ Len(ring) <= RingCap /\ RingCap \in Nat
      /\ seam.from \in Nat
  BY AttachAssumption DEF TypeOK, SeamOK
<1>2. Len(ring) <= filler
  <2>1. CASE Len(ring) = filler
    BY <1>1, <2>1
  <2>2. CASE Len(ring) # 0
    <3>1. ring[1] = (filler - Len(ring)) + 1
      BY <1>1, <2>2 DEF RingIsRecent
    <3>2. ring[1] \in 1 .. MaxEvents
      <4>1. ring \in Seq(1 .. MaxEvents) /\ ring # <<>>
        BY <2>2 DEF TypeOK
      <4> QED
        BY <4>1, SeqHead
    <3> QED
      BY <1>1, <3>1, <3>2, AttachAssumption
  <2> QED
    BY <1>1, <2>1, <2>2
<1>3. lo \in Nat /\ 1 <= lo /\ lo <= filler + 1 /\ Len(ring) <= (filler - lo) + 1 /\ filler - Len(ring) < lo
  BY <1>1, <1>2
<1>4. /\ seam'.from = seam.from /\ seam'.caught_up = seam.caught_up
      /\ seam'.skipped = (seam.skipped \/ filler - seam.from > RingCap)
  BY DEF Snapshot, SeamOK
<1>5. seam.from < filler => lo <= seam.from + 1
  <2>1. ~ (filler - seam.from > RingCap)
    BY <1>4
  <2> QED
    BY <1>1, <2>1 DEF RingIsRecent
<1>6. seam.caught_up => seam.from <= filler
  BY DEF Snapshot, Early
<1>7. handler' = "hello" /\ replay' = ring /\ log' = log /\ pipe' = pipe /\ log = <<>> /\ pipe = <<>>
  BY DEF Snapshot, Early, clientVars
<1>8. \A e \in Nat : ~ Written(e)'
  BY <1>4, <1>7, NothingYet, NothingMoved
<1>9. \A i \in 1 .. Len(ring) : ring[i] = (filler - Len(ring)) + i
  BY DEF RingIsRecent
<1>10. \A e \in Nat : e \notin lo .. filler - Len(ring)
  BY <1>1, <1>3
<1>11. PICK first \in Nat, last \in Nat : first = lo /\ last = filler
  BY <1>1, <1>3
<1> HIDE DEF lo
<1>12. Joined(first, last)'
  BY <1>3, <1>4, <1>5, <1>6, <1>7, <1>8, <1>9, <1>10, <1>11 DEF Joined
<1> QED
  BY <1>12

LEMMA ReplayJoins ==
  ASSUME TypeOK, SeamOK, PipeFits, NEW lo \in Nat, NEW to \in Nat, Joined(lo, to), WriteReplay
  PROVE  PipeFits' /\ Joined(lo, to)'
<1> DEFINE h == Head(replay)
<1>1. h = (to - Len(replay)) + 1 /\ h \in 1 .. MaxEvents /\ Fits(h, Len(pipe) + 1)
  BY ReplayFitsIn DEF WriteReplay
<1>2. /\ Write(Event(h)) /\ log' = log /\ seam' = seam /\ handler = "replay" /\ handler' = "replay"
      /\ replay' = Tail(replay) /\ replay # <<>> /\ cursor' = cursor
  BY DEF WriteReplay, clientVars
<1>3. Event(h) \in Frames /\ (\A e : Event(h) = Event(e) <=> e = h) /\ h \in Nat
  BY <1>1, FramesDiffer, AttachAssumption DEF Frames
<1>4. Len(replay) \in Nat \ {0} /\ Len(replay') = Len(replay) - 1
      /\ \A i \in 1 .. Len(replay') : replay'[i] = replay[i + 1]
  <2>1. replay \in Seq(1 .. MaxEvents) /\ replay # <<>>
    BY <1>2 DEF TypeOK
  <2>2. /\ Len(replay) \in Nat \ {0} /\ Len(Tail(replay)) = Len(replay) - 1
        /\ \A i \in 1 .. Len(replay) - 1 : Tail(replay)[i] = replay[i + 1]
    BY <2>1, SeqHead
  <2> QED
    BY <1>2, <2>2
<1> HIDE DEF h
<1>5. PipeFits'
  <2>1. \A e \in 1 .. MaxEvents : Event(h) = Event(e) => Fits(e, Len(pipe) + 1)
    BY <1>1, <1>3
  <2> QED
    BY <1>2, <1>3, <2>1, WriteFitsIn
<1>6. \A e \in Nat : Written(e)' <=> Written(e) \/ e = h
  BY <1>2, <1>3, SentWrite
<1>7. /\ \A i \in 1 .. Len(replay) : replay[i] = (to - Len(replay)) + i
      /\ Len(replay) <= (to - lo) + 1
      /\ \A e \in Nat : Written(e) <=> e \in lo .. to - Len(replay)
  BY <1>2 DEF Joined
<1>8. ASSUME NEW e \in Nat PROVE Written(e)' <=> e \in lo .. to - Len(replay')
  <2>1. e \in lo .. to - Len(replay') <=> e \in lo .. to - Len(replay) \/ e = h
    <3>1. PICK n \in Nat \ {0} : n = Len(replay) /\ Len(replay') = n - 1
      BY <1>4
    <3>2. h = (to - n) + 1 /\ n <= (to - lo) + 1
      BY <1>1, <1>7, <3>1
    <3>3. e \in lo .. to - (n - 1) <=> e \in lo .. to - n \/ e = h
      BY <3>2
    <3> QED
      BY <3>1, <3>3
  <2> QED
    BY <1>6, <1>7, <2>1
<1>9. ASSUME NEW i \in 1 .. Len(replay') PROVE replay'[i] = (to - Len(replay')) + i
  <2>1. i + 1 \in 1 .. Len(replay) /\ replay'[i] = replay[i + 1]
    BY <1>4
  <2>2. replay'[i] = (to - Len(replay)) + (i + 1)
    BY <1>7, <2>1
  <2> QED
    BY <1>4, <2>2
<1>10. Len(replay') <= (to - lo) + 1
  BY <1>4, <1>7
<1> QED
  BY <1>2, <1>5, <1>8, <1>9, <1>10 DEF Joined

LEMMA LiveJoins ==
  ASSUME TypeOK, SeamOK, PipeFits, NEW lo \in Nat, NEW to \in Nat, Joined(lo, to), WriteEvent
  PROVE  PipeFits' /\ Joined(lo, to)'
<1>1. cursor \in 1 .. MaxEvents /\ Fits(cursor, Len(pipe) + 1)
  BY LiveFitsIn DEF WriteEvent
<1>2. /\ Write(Event(cursor)) /\ log' = log /\ seam' = seam /\ handler = "event" /\ handler' = "live"
      /\ cursor' = cursor
  BY DEF WriteEvent, clientVars
<1>3. Event(cursor) \in Frames /\ (\A e : Event(cursor) = Event(e) <=> e = cursor)
  BY <1>1, FramesDiffer DEF Frames
<1>4. PipeFits'
  <2>1. \A e \in 1 .. MaxEvents : Event(cursor) = Event(e) => Fits(e, Len(pipe) + 1)
    BY <1>1, <1>3
  <2> QED
    BY <1>2, <1>3, <2>1, WriteFitsIn
<1>5. \A e \in Nat : Written(e)' <=> Written(e) \/ e = cursor
  BY <1>2, <1>3, SentWrite
<1>6. \A e \in Nat : Written(e) <=> e \in lo .. to \/ e \in seam.from + 1 .. cursor - 1
  BY <1>2 DEF Joined
<1>7. cursor \in Nat /\ seam.from \in Nat /\ seam.from < cursor
  BY <1>2 DEF TypeOK, SeamOK
<1>8. \A e \in Nat : Written(e)' <=> e \in lo .. to \/ e \in seam.from + 1 .. cursor
  BY <1>5, <1>6, <1>7
<1> QED
  BY <1>2, <1>4, <1>8 DEF Joined

LEMMA OtherJoins ==
  ASSUME TypeOK, PipeFits, NEW lo \in Nat, NEW to \in Nat, Joined(lo, to), WriteHello \/ WriteStats
  PROVE  PipeFits' /\ Joined(lo, to)'
<1>1. PICK frame \in {Hello, Stats} :
        /\ Write(frame) /\ log' = log /\ seam' = seam /\ cursor' = cursor /\ replay' = replay
        /\ \/ handler = "hello" /\ handler' = "replay"
           \/ handler = "stats" /\ handler' = "live"
  BY DEF WriteHello, WriteStats, clientVars
<1>2. frame \in Frames /\ \A e : frame # Event(e)
  BY FramesDiffer DEF Frames
<1>3. PipeFits'
  BY <1>1, <1>2, WriteFitsIn
<1>4. \A e \in Nat : Written(e)' <=> Written(e)
  BY <1>1, <1>2, SentWrite
<1> QED
  BY <1>1, <1>3, <1>4 DEF Joined

\* Steps of the handler that write nothing.
LEMMA SilentJoins ==
  ASSUME TypeOK, SeamOK, NEW lo \in Nat, NEW to \in Nat, Joined(lo, to),
         ReplayDone \/ TickerFires \/ ReceiveEvent
  PROVE  Joined(lo, to)'
<1>1. log' = log /\ pipe' = pipe /\ seam' = seam /\ replay' = replay
  BY DEF ReplayDone, TickerFires, ReceiveEvent, clientVars
<1>2. \A e \in Nat : Written(e)' <=> Written(e)
  BY <1>1, NothingMoved
<1>3. cursor \in Nat /\ seam.from \in Nat
  BY DEF TypeOK, SeamOK
<1>4. CASE ReplayDone
  <2>1. handler = "replay" /\ handler' = "live" /\ cursor' = cursor /\ Len(replay) = 0
        /\ cursor = seam.from
    BY <1>4 DEF ReplayDone, SeamOK
  <2>2. \A e \in Nat : Written(e) <=> e \in lo .. to
    BY <2>1 DEF Joined
  <2>3. \A e \in Nat : e \notin seam.from + 1 .. cursor
    BY <1>3, <2>1
  <2> QED
    BY <1>1, <1>2, <2>1, <2>2, <2>3 DEF Joined
<1>5. CASE TickerFires
  BY <1>1, <1>2, <1>5 DEF TickerFires, Joined
<1>6. CASE ReceiveEvent
  <2>1. handler = "live" /\ handler' = "event" /\ cursor' = cursor + 1 /\ cursor' - 1 = cursor
    BY <1>3, <1>6 DEF ReceiveEvent
  <2> QED
    BY <1>1, <1>2, <2>1 DEF Joined
<1> QED
  BY <1>4, <1>5, <1>6

LEMMA StreamPreserved ==
  TypeOK /\ SeamOK /\ Early /\ StreamInv /\ [Next]_vars => StreamInv'
<1> SUFFICES ASSUME TypeOK, SeamOK, Early, StreamInv, [Next]_vars, ~ seam'.skipped
             PROVE  /\ PipeFits' /\ LogNewer' /\ (seam'.caught_up => LogConvex')
                    /\ Replaying' => \E lo, to \in Nat : Joined(lo, to)'
  <2>1. ASSUME TypeOK, SeamOK, StreamInv, [Next]_vars, ~ seam'.skipped PROVE RingIsRecent'
    BY <2>1, RingPreserved DEF StreamInv
  <2> QED
    BY <2>1 DEF StreamInv
<1>0. /\ ~ seam.skipped /\ RingIsRecent /\ PipeFits /\ LogNewer
      /\ (seam.caught_up => LogConvex)
      /\ (Replaying => \E lo, to \in Nat : Joined(lo, to))
  BY RingPreserved DEF StreamInv
<1>1. CASE Subscribe \/ Snapshot
  <2>1. log' = <<>> /\ pipe' = <<>>
    BY <1>1 DEF Subscribe, Snapshot, Early, clientVars
  <2>2. ToSet(log') = {} /\ Len(log') = 0 /\ Len(pipe') = 0
    BY <2>1 DEF ToSet
  <2>3. PipeFits' /\ LogNewer' /\ LogConvex'
    BY <2>2 DEF PipeFits, LogNewer, LogConvex
  <2>4. Replaying' => \E lo, to \in Nat : Joined(lo, to)'
    <3>1. CASE Subscribe
      BY <3>1 DEF Subscribe, Replaying
    <3>2. CASE Snapshot
      BY <1>0, <3>2, SnapshotJoins
    <3> QED
      BY <1>1, <3>1, <3>2
  <2> QED
    BY <2>3, <2>4
<1>2. CASE WriteReplay \/ WriteEvent \/ WriteHello \/ WriteStats
  <2>1. PICK lo \in Nat, to \in Nat : Joined(lo, to)
    BY <1>0, <1>2 DEF Replaying, WriteReplay, WriteEvent, WriteHello, WriteStats
  <2>2. PipeFits' /\ Joined(lo, to)'
    BY <1>0, <1>2, <2>1, ReplayJoins, LiveJoins, OtherJoins
  <2>3. log' = log /\ seam' = seam
    BY <1>2 DEF WriteReplay, WriteEvent, WriteHello, WriteStats, clientVars
  <2>4. LogNewer' /\ (seam'.caught_up => LogConvex')
    BY <1>0, <2>3 DEF LogNewer, LogConvex
  <2> QED
    BY <2>2, <2>4
<1>3. CASE ReplayDone \/ TickerFires \/ ReceiveEvent
  <2>1. PICK lo \in Nat, to \in Nat : Joined(lo, to)
    BY <1>0, <1>3 DEF Replaying, ReplayDone, TickerFires, ReceiveEvent
  <2>2. Joined(lo, to)'
    BY <1>3, <2>1, SilentJoins
  <2>3. log' = log /\ pipe' = pipe /\ seam' = seam
    BY <1>3 DEF ReplayDone, TickerFires, ReceiveEvent, clientVars
  <2>4. PipeFits' /\ LogNewer' /\ (seam'.caught_up => LogConvex')
    BY <1>0, <2>3, NothingMoved
  <2> QED
    BY <2>2, <2>4
<1>4. CASE ReadHello \/ ReadFrame
  <2>1. ReadsHead /\ seam' = seam /\ UNCHANGED handlerVars
    BY <1>4, ReadsHeadFrame DEF ReadHello, ReadFrame
  <2>2. PipeFits' /\ LogNewer' /\ (seam'.caught_up => LogConvex')
    BY <1>0, <2>1, ReadFitsIn
  <2>3. \A e \in Nat : Written(e)' <=> Written(e)
    BY <2>1, SentRead
  <2>4. ASSUME NEW lo \in Nat, NEW to \in Nat, Joined(lo, to) PROVE Joined(lo, to)'
    BY <2>1, <2>3, <2>4 DEF Joined, handlerVars
  <2>5. Replaying' <=> Replaying
    BY <2>1 DEF Replaying, handlerVars
  <2> QED
    BY <1>0, <2>2, <2>4, <2>5
<1>5. CASE FillerLags \/ HandlerLags
  BY <1>5 DEF FillerLags, HandlerLags, SeamOK
<1>6. ASSUME UNCHANGED <<log, pipe>>, seam'.caught_up = seam.caught_up, handler' = "ended"
      PROVE  /\ PipeFits' /\ LogNewer' /\ (seam'.caught_up => LogConvex')
             /\ ~ Replaying'
  BY <1>0, <1>6, NothingMoved DEF Replaying
<1>7. CASE FrameTooLarge \/ WriteFails \/ HandlerStops \/ ServerDies
  <2>1. UNCHANGED <<log, pipe>> /\ seam'.caught_up = seam.caught_up /\ handler' = "ended"
    BY <1>7 DEF FrameTooLarge, WriteFails, HandlerStops, ServerDies, clientVars, SeamOK
  <2> QED
    BY <1>6, <2>1
<1>8. ASSUME UNCHANGED <<log, pipe, seam, handler, cursor, replay>>
      PROVE  /\ PipeFits' /\ LogNewer' /\ (seam'.caught_up => LogConvex')
             /\ Replaying' => \E lo, to \in Nat : Joined(lo, to)'
  <2>1. /\ PipeFits' /\ LogNewer' /\ (seam'.caught_up => LogConvex')
        /\ \A e \in Nat : Written(e)' <=> Written(e)
    BY <1>0, <1>8, NothingMoved
  <2>2. ASSUME NEW lo \in Nat, NEW to \in Nat, Joined(lo, to) PROVE Joined(lo, to)'
    BY <1>8, <2>1, <2>2 DEF Joined
  <2>3. Replaying' <=> Replaying
    BY <1>8 DEF Replaying
  <2> QED
    BY <1>0, <2>1, <2>2, <2>3
<1>9. CASE \/ Send \/ FillerPushes \/ Shutdown \/ ReadEof \/ HelloMismatch \/ Quit
            \/ TuiTick \/ TuiBreaks \/ TuiReturns \/ UNCHANGED vars
  <2>1. UNCHANGED <<log, pipe, seam, handler, cursor, replay>>
    BY <1>9 DEF Send, FillerPushes, Shutdown, ReadEof, HelloMismatch, Quit, TuiTick, TuiBreaks,
     TuiReturns, vars, handlerVars,
       clientVars
  <2> QED
    BY <1>8, <2>1
<1> QED
  BY <1>1, <1>2, <1>3, <1>4, <1>5, <1>7, <1>9 DEF Next, ServeClient, Decode

-----------------------------------------------------------------------------
(* The last event written.                                                 *)

NoEvents(i, j) == \A k \in i .. j, e \in Nat : pipe[k] # Event(e)

\* e is the last event of the socket, or there is none and it is the last one decoded.
LastWritten(e) ==
  \/ \E i \in 1 .. Len(pipe) : pipe[i] = Event(e) /\ NoEvents(i + 1, Len(pipe))
  \/ NoEvents(1, Len(pipe)) /\ log # <<>> /\ Last(log) = e

\* The handler has written what it took from the bus unless it is about to, and ends in
\* between only if the client is gone or the process is killed.
FlightInv ==
  /\ (/\ seam.from < cursor
      /\ \/ handler \in {"live", "stats"}
         \/ handler = "ended" /\ ~ seam.killed /\ client # "gone"
      /\ ~ seam.skipped)
     => LastWritten(cursor)
  /\ lost => handler = "ended" /\ client # "connecting" /\ NothingInFlightIsDropped

LEMMA LastKept ==
  ASSUME UNCHANGED <<log, pipe>>
  PROVE  \A e \in Nat : LastWritten(e)' <=> LastWritten(e)
  BY DEF LastWritten, NoEvents

LEMMA LastKeptAt ==
  ASSUME TypeOK, UNCHANGED <<log, pipe, cursor>>, LastWritten(cursor)
  PROVE  LastWritten(cursor)'
<1>1. PICK c \in Nat : c = cursor
  BY DEF TypeOK
<1>2. LastWritten(c)'
  BY <1>1, LastKept
<1> QED
  BY <1>1, <1>2

LEMMA LastAfterWrite ==
  ASSUME TypeOK, NEW frame \in Frames, Write(frame), log' = log, NEW e \in Nat,
         \/ frame = Event(e)
         \/ LastWritten(e) /\ \A x \in Nat : frame # Event(x)
  PROVE  LastWritten(e)'
<1> DEFINE n == Len(pipe)
<1>1. /\ n \in Nat /\ Len(pipe') = n + 1
      /\ \A i \in 1 .. n : pipe'[i] = pipe[i]
      /\ pipe'[n + 1] = frame
  <2>1. Len(pipe) \in Nat
    BY DEF TypeOK
  <2> QED
    BY <2>1, WriteType
<1> HIDE DEF n
<1>2. CASE frame = Event(e)
  <2>1. n + 1 \in 1 .. Len(pipe') /\ pipe'[n + 1] = Event(e)
    BY <1>1, <1>2
  <2>2. \A k \in (n + 1) + 1 .. Len(pipe'), x \in Nat : pipe'[k] # Event(x)
    BY <1>1
  <2> QED
    BY <2>1, <2>2 DEF LastWritten, NoEvents
<1>3. CASE LastWritten(e) /\ \A x \in Nat : frame # Event(x)
  <2>1. ASSUME NEW i \in 1 .. n + 1, \A k \in i .. n, x \in Nat : pipe[k] # Event(x)
        PROVE  \A k \in i .. n + 1, x \in Nat : pipe'[k] # Event(x)
    <3> SUFFICES ASSUME NEW k \in i .. n + 1, NEW x \in Nat PROVE pipe'[k] # Event(x)
      OBVIOUS
    <3>1. CASE k = n + 1
      BY <1>1, <1>3, <3>1
    <3>2. CASE k \in i .. n
      BY <1>1, <2>1, <3>2
    <3> QED
      BY <1>1, <3>1, <3>2
  <2>2. ASSUME NEW i \in 1 .. n, pipe[i] = Event(e), \A k \in i + 1 .. n, x \in Nat : pipe[k] # Event(x)
        PROVE  LastWritten(e)'
    <3>1. i + 1 \in 1 .. n + 1
      BY <1>1
    <3>2. \A k \in i + 1 .. n + 1, x \in Nat : pipe'[k] # Event(x)
      BY <2>1, <2>2, <3>1
    <3>3. i \in 1 .. Len(pipe') /\ pipe'[i] = Event(e)
      BY <1>1, <2>2
    <3> QED
      BY <1>1, <3>2, <3>3 DEF LastWritten, NoEvents
  <2>3. ASSUME \A k \in 1 .. n, x \in Nat : pipe[k] # Event(x), log # <<>>, Last(log) = e
        PROVE  LastWritten(e)'
    <3>1. \A k \in 1 .. n + 1, x \in Nat : pipe'[k] # Event(x)
      BY <1>1, <2>1, <2>3
    <3> QED
      BY <1>1, <2>3, <3>1 DEF LastWritten, NoEvents
  <2> QED
    BY <1>3, <2>2, <2>3 DEF LastWritten, NoEvents, n
<1> QED
  BY <1>2, <1>3

LEMMA LastAfterRead ==
  ASSUME TypeOK, ReadsHead, NEW e \in Nat, LastWritten(e)
  PROVE  LastWritten(e)'
<1> DEFINE n == Len(pipe)
<1>1. /\ n \in Nat \ {0} /\ Len(pipe') = n - 1 /\ Head(pipe) = pipe[1]
      /\ \A i \in 1 .. n - 1 : pipe'[i] = pipe[i + 1]
  BY ReadType DEF ReadsHead, TypeOK
<1>2. \/ (\A x \in Nat : pipe[1] # Event(x)) /\ log' = log
      \/ \E h \in 1 .. MaxEvents : pipe[1] = Event(h) /\ log' = Append(log, h)
  BY <1>1 DEF ReadsHead
<1>3. \/ \E i \in 1 .. n : pipe[i] = Event(e) /\ \A k \in i + 1 .. n, x \in Nat : pipe[k] # Event(x)
      \/ (\A k \in 1 .. n, x \in Nat : pipe[k] # Event(x)) /\ log # <<>> /\ Last(log) = e
  BY DEF LastWritten, NoEvents
<1> HIDE DEF n
<1>4. ASSUME NEW i \in 1 .. n, \A k \in i + 1 .. n, x \in Nat : pipe[k] # Event(x)
      PROVE  \A k \in i .. n - 1, x \in Nat : pipe'[k] # Event(x)
  <2> SUFFICES ASSUME NEW k \in i .. n - 1, NEW x \in Nat PROVE pipe'[k] # Event(x)
    OBVIOUS
  <2>1. k + 1 \in i + 1 .. n /\ pipe'[k] = pipe[k + 1]
    BY <1>1
  <2> QED
    BY <1>4, <2>1
<1>5. ASSUME NEW i \in 1 .. n, pipe[i] = Event(e), \A k \in i + 1 .. n, x \in Nat : pipe[k] # Event(x)
      PROVE  LastWritten(e)'
  <2>1. \A k \in i .. n - 1, x \in Nat : pipe'[k] # Event(x)
    BY <1>4, <1>5
  <2>2. CASE i = 1
    <3>1. PICK h \in 1 .. MaxEvents : pipe[1] = Event(h) /\ log' = Append(log, h)
      BY <1>2, <1>5, <2>2
    <3>2. h = e
      BY <1>5, <2>2, <3>1, FramesDiffer
    <3>3. log' # <<>> /\ Last(log') = e
      BY <3>1, <3>2, AppendToLog
    <3> QED
      BY <1>1, <2>1, <2>2, <3>3 DEF LastWritten, NoEvents
  <2>3. CASE i # 1
    <3>1. i - 1 \in 1 .. Len(pipe') /\ (i - 1) + 1 = i /\ pipe'[i - 1] = Event(e)
      BY <1>1, <1>5, <2>3
    <3> QED
      BY <1>1, <2>1, <3>1 DEF LastWritten, NoEvents
  <2> QED
    BY <2>2, <2>3
<1>6. ASSUME \A k \in 1 .. n, x \in Nat : pipe[k] # Event(x), log # <<>>, Last(log) = e
      PROVE  LastWritten(e)'
  <2>1. 1 \in 1 .. n /\ \A h \in 1 .. MaxEvents : h \in Nat
    BY <1>1, AttachAssumption
  <2>2. log' = log
    BY <1>2, <1>6, <2>1
  <2>3. \A k \in 1 .. n - 1, x \in Nat : pipe'[k] # Event(x)
    <3>1. \A k \in 1 + 1 .. n, x \in Nat : pipe[k] # Event(x)
      BY <1>1, <1>6
    <3> QED
      BY <1>4, <2>1, <3>1
  <2> QED
    BY <1>1, <1>6, <2>2, <2>3 DEF LastWritten, NoEvents
<1> QED
  BY <1>3, <1>5, <1>6

LEMMA FlightPreserved == TypeOK /\ SeamOK /\ FlightInv /\ [Next]_vars => FlightInv'
<1> SUFFICES ASSUME TypeOK, SeamOK, FlightInv, [Next]_vars PROVE FlightInv'
  OBVIOUS
<1>0. cursor \in Nat /\ seam.from \in Nat
  BY DEF TypeOK, SeamOK
<1>1. ASSUME lost' = lost, lost => UNCHANGED <<handler, cursor, log>> /\ client' # "connecting",
             seam'.from = seam.from, seam.skipped => seam'.skipped, seam.killed => seam'.killed
      PROVE  lost' => /\ handler' = "ended" /\ client' # "connecting"
                      /\ NothingInFlightIsDropped'
  BY <1>1 DEF FlightInv, NothingInFlightIsDropped
<1> DEFINE Due == /\ seam.from < cursor
                  /\ \/ handler \in {"live", "stats"}
                     \/ handler = "ended" /\ ~ seam.killed /\ client # "gone"
                  /\ ~ seam.skipped
<1>2. Due => LastWritten(cursor)
  BY DEF FlightInv
<1>3. CASE WriteEvent
  <2>1. /\ Write(Event(cursor)) /\ UNCHANGED <<log, seam, cursor, lost, client>>
        /\ handler = "event"
    BY <1>3 DEF WriteEvent, clientVars
  <2>2. Event(cursor) \in Frames
    <3>1. cursor \in 1 .. MaxEvents
      BY <1>0, <2>1, AttachAssumption DEF TypeOK, SeamOK
    <3> QED
      BY <3>1 DEF Frames
  <2>3. LastWritten(cursor)'
    <3>1. PICK c \in Nat : c = cursor
      BY <1>0
    <3>2. LastWritten(c)'
      BY <2>1, <2>2, <3>1, LastAfterWrite
    <3> QED
      BY <2>1, <3>1, <3>2
  <2>4. ~ lost
    BY <2>1 DEF FlightInv
  <2> QED
    BY <2>1, <2>3, <2>4 DEF FlightInv
<1>4. CASE WriteStats \/ WriteHello \/ WriteReplay
  <2>1. /\ UNCHANGED <<log, seam, cursor, lost, client>> /\ handler # "ended"
        /\ handler' # "ended" /\ (handler' \in {"live", "stats"} => WriteStats)
    BY <1>4 DEF WriteStats, WriteHello, WriteReplay, clientVars
  <2>2. ~ lost
    BY <2>1 DEF FlightInv
  <2>3. ASSUME WriteStats, seam.from < cursor, ~ seam.skipped PROVE LastWritten(cursor)'
    <3>1. Write(Stats) /\ handler = "stats" /\ Stats \in Frames /\ \A x : Stats # Event(x)
      BY <2>3, FramesDiffer DEF WriteStats, Frames
    <3>2. PICK c \in Nat : c = cursor
      BY <1>0
    <3>3. LastWritten(c)
      BY <1>2, <2>3, <3>1, <3>2
    <3>4. LastWritten(c)'
      BY <2>1, <3>1, <3>3, LastAfterWrite
    <3> QED
      BY <2>1, <3>2, <3>4
  <2> QED
    BY <2>1, <2>2, <2>3 DEF FlightInv
<1>5. CASE ReadHello \/ ReadFrame
  <2>1. /\ ReadsHead /\ UNCHANGED <<handler, cursor, seam, lost>> /\ client # "gone" /\ client' # "gone"
    BY <1>5, ReadsHeadFrame DEF ReadHello, ReadFrame, Decoding, handlerVars
  <2>2. ~ lost
    BY <1>5 DEF FlightInv, ReadHello, ReadFrame, Decoding
  <2>3. ASSUME Due PROVE LastWritten(cursor)'
    <3>1. PICK c \in Nat : c = cursor
      BY <1>0
    <3>2. LastWritten(c)'
      BY <1>2, <2>1, <2>3, <3>1, LastAfterRead
    <3> QED
      BY <2>1, <3>1, <3>2
  <2> QED
    BY <2>1, <2>2, <2>3 DEF FlightInv
<1>6. CASE ReadEof
  <2>1. /\ UNCHANGED <<handler, cursor, seam, log, pipe>> /\ client # "gone"
        /\ handler = "ended" /\ pipe = <<>>
        /\ lost' => client' # "connecting"
        /\ client' # "gone" => client' = client
    BY <1>6 DEF ReadEof, Decoding, handlerVars
  <2>2. Len(pipe) = 0
    BY <2>1
  <2>3. ASSUME seam.from < cursor, ~ seam.skipped, ~ seam.killed
        PROVE  LastWritten(cursor) /\ log # <<>> /\ Last(log) = cursor
    BY <1>2, <2>1, <2>2, <2>3 DEF LastWritten
  <2>4. NothingInFlightIsDropped'
    BY <1>0, <2>1, <2>3 DEF NothingInFlightIsDropped
  <2>5. Due' => Due /\ cursor' = cursor
    BY <2>1
  <2>6. Due' => LastWritten(cursor)'
    BY <2>1, <2>5, <1>2, LastKeptAt
  <2> QED
    BY <2>1, <2>4, <2>6 DEF FlightInv
<1>7. ASSUME UNCHANGED <<log, pipe>>, Due' => Due /\ cursor' = cursor PROVE Due' => LastWritten(cursor)'
  <2>1. PICK c \in Nat : c = cursor
    BY <1>0
  <2>2. LastWritten(c)' <=> LastWritten(c)
    BY <1>7, LastKept
  <2>3. ASSUME Due' PROVE LastWritten(cursor)'
    <3>1. LastWritten(c)' /\ cursor' = c
      BY <1>2, <1>7, <2>1, <2>2, <2>3
    <3> QED
      BY <3>1
  <2> QED
    BY <2>3
<1>8. CASE Subscribe \/ Snapshot \/ ReplayDone \/ ReceiveEvent \/ FillerLags \/ HandlerLags
  <2>1. UNCHANGED <<log, pipe, lost, client>>
    BY <1>8 DEF Subscribe, Snapshot, ReplayDone, ReceiveEvent, FillerLags, HandlerLags, clientVars
  <2>2. seam' \in [caught_up : BOOLEAN, from : Nat, skipped : BOOLEAN, killed : BOOLEAN]
    BY <1>8, SeamPreserved DEF SeamOK
  <2>3. Due' => Due /\ cursor' = cursor
    BY <1>0, <1>8 DEF Subscribe, Snapshot, ReplayDone, ReceiveEvent, FillerLags, HandlerLags, SeamOK,
       handlerVars, clientVars
  <2>4. handler # "ended" => ~ lost
    BY DEF FlightInv
  <2>5. CASE FillerLags
    <3>1. lost' => handler' = "ended" /\ client' # "connecting" /\ NothingInFlightIsDropped'
      BY <1>1, <2>1, <2>5 DEF FillerLags, SeamOK, FlightInv, handlerVars
    <3> QED
      BY <1>7, <2>1, <2>3, <3>1 DEF FlightInv
  <2>6. CASE ~ FillerLags
    <3>1. ~ lost'
      BY <1>8, <2>1, <2>4, <2>6 DEF Subscribe, Snapshot, ReplayDone, ReceiveEvent, HandlerLags
    <3> QED
      BY <1>7, <2>1, <2>3, <3>1 DEF FlightInv
  <2> QED
    BY <2>5, <2>6
<1>9. CASE TickerFires \/ FrameTooLarge \/ WriteFails \/ HandlerStops \/ ServerDies
  <2>1. UNCHANGED <<log, pipe, lost, client, cursor>> /\ handler # "ended"
    BY <1>9 DEF TickerFires, FrameTooLarge, WriteFails, HandlerStops, ServerDies, clientVars
  <2>2. ~ lost'
    BY <2>1 DEF FlightInv
  <2>3. Due' => Due /\ cursor' = cursor
    BY <1>0, <1>9, <2>1 DEF TickerFires, FrameTooLarge, WriteFails, HandlerStops, ServerDies, SeamOK
  <2> QED
    BY <1>7, <2>1, <2>2, <2>3 DEF FlightInv
<1>10. CASE \/ Send \/ FillerPushes \/ Shutdown \/ HelloMismatch \/ Quit
             \/ TuiTick \/ TuiBreaks \/ TuiReturns \/ UNCHANGED vars
  <2>1. /\ UNCHANGED <<log, pipe, lost, handler, cursor, seam>>
        /\ client' = client \/ (client' \in {"leaving", "gone"} /\ client # "gone")
    BY <1>10 DEF Send, FillerPushes, Shutdown, HelloMismatch, Quit, TuiTick, TuiBreaks,
       TuiReturns, vars, clientVars, handlerVars
  <2>2. lost' => handler' = "ended" /\ client' # "connecting" /\ NothingInFlightIsDropped'
    BY <1>1, <2>1 DEF FlightInv
  <2>3. Due' => Due /\ cursor' = cursor
    BY <2>1
  <2> QED
    BY <1>7, <2>1, <2>2, <2>3 DEF FlightInv
<1> QED
  BY <1>3, <1>4, <1>5, <1>6, <1>8, <1>9, <1>10 DEF Next, ServeClient, Decode

-----------------------------------------------------------------------------
(* The theorems.                                                           *)

IInv == TypeOK /\ SeamOK /\ Early /\ StreamInv /\ FlightInv

LEMMA Inductive == Spec => []IInv
<1>1. Init => IInv
  <2> SUFFICES ASSUME Init PROVE Early /\ StreamInv /\ FlightInv
    BY TypeInitially DEF IInv
  <2>1. /\ log = <<>> /\ pipe = <<>> /\ handler = "waiting" /\ ring = <<>> /\ filler = 0 /\ ~ lost
        /\ Len(ring) = 0
    BY DEF Init
  <2>2. RingIsRecent
    BY <2>1 DEF RingIsRecent
  <2>3. PipeFits /\ LogNewer /\ LogConvex
    BY <2>1, NothingYet
  <2>4. StreamInv
    BY <2>1, <2>2, <2>3 DEF StreamInv, Replaying
  <2> QED
    BY <2>1, <2>4 DEF Early, FlightInv
<1>2. IInv /\ [Next]_vars => IInv'
  BY TypePreserved, SeamPreserved, EarlyPreserved, StreamPreserved, FlightPreserved DEF IInv
<1> QED
  BY <1>1, <1>2, PTL DEF Spec

\* The ring keeps to its capacity and the socket to its own, and what the client decodes is
\* in order up to repetitions, wherever the replay meets the live stream.
THEOREM AttachInvariant == Spec => []AttachInv
<1>1. IInv => AttachInv
  <2> SUFFICES ASSUME IInv PROVE AttachInv
    OBVIOUS
  <2>1. log \in Seq(1 .. MaxEvents)
    BY DEF IInv, TypeOK
  <2>2. DOMAIN log = 1 .. Len(log)
    BY <2>1
  <2> QED
    BY <2>2 DEF IInv, StreamInv, LogNewer, AttachInv, NewEventsAreNewer
<1> QED
  BY <1>1, Inductive, PTL

\* Subscribing before the ring is copied leaves no hole: what the client decoded is an
\* unbroken run of events, for every interleaving of senders, filler, accept loop, handler
\* and client in which nobody falls behind.
THEOREM SeamHasNoGap == Spec => []NoGapAtSeam
<1>1. IInv => NoGapAtSeam
  BY DEF IInv, StreamInv, LogConvex, NoGapAtSeam, ToSet
<1> QED
  BY <1>1, Inductive, PTL

\* After an orderly stop the last event the handler took from the bus is the last one that
\* decode_loop has put on the client's own bus when it reports the connection lost.
THEOREM NothingDropped == Spec => []NothingInFlightIsDropped
<1>1. IInv => NothingInFlightIsDropped
  BY DEF IInv, FlightInv, NothingInFlightIsDropped
<1> QED
  BY <1>1, Inductive, PTL
=============================================================================
