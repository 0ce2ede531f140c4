--------------------------- MODULE DashboardProofs ---------------------------
(***************************************************************************)
(* Proofs about Dashboard, for any number of connections and events, every *)
(* capacity of the channel and of the log, every page and every terminal.  *)
(***************************************************************************)
EXTENDS Dashboard, FiniteSetTheorems, SequenceTheorems, TLAPS

(* What the proofs add to DashboardInv.                                    *)

Spoken == {"announced", "removed", "closed"}

\* An event in the channel speaks of something that has happened.
EventsAreTrue ==
  \A e \in 1 .. Len(bus) :
    /\ bus[e].type = "Closed" => life[bus[e].id] = "closed"
    /\ bus[e].type = "Connect" => life[bus[e].id] \in Spoken

LinesAreTrue ==
  \A i \in 1 .. Len(log) : log[i].id # 0 => life[log[i].id] \in Spoken

\* A connection has one line at most, in the log or still to come.
OneLineEach ==
  /\ \A i, j \in 1 .. Len(log) : log[i].id # 0 /\ log[i].id = log[j].id => i = j
  /\ \A e, f \in 1 .. Len(bus) : bus[e].type = "Connect" /\ bus[e] = bus[f] => e = f
  /\ \A i \in 1 .. Len(log), e \in 1 .. Len(bus) :
       bus[e].type = "Connect" => bus[e].id # log[i].id

\* Unless events were lost, the Closed event of a connection that is over is behind its
\* Connect event.
CloseFollows ==
  ~ lagged =>
    \A e \in 1 .. Len(bus) :
      bus[e].type = "Connect" /\ life[bus[e].id] = "closed" =>
        \E f \in e + 1 .. Len(bus) : bus[f] = [type |-> "Closed", id |-> bus[e].id]

\* The log's offset is within the log that a tick has seen.
OffsetIsClamped == fresh => log_scroll <= Monus(Len(log), LogAvail)

\* The number of the line at the top of the screen when the tick began, had the log no
\* beginning: log_scroll counts from the newest line of that time.
AnchorLine == pushed - added + 1 - AtLeast(LogAvail, 1) - log_scroll

AnchorHolds ==
  draining /\ anchor > 0 => AnchorLine <= anchor /\ (anchor = AnchorLine \/ anchor <= OldestLine)

ViewInv == Len(log) <= pushed /\ OffsetIsClamped /\ AnchorHolds

StoryInv == EventsAreTrue /\ LinesAreTrue /\ OneLineEach /\ CloseFollows

IInv == DashboardInv /\ StoryInv /\ ViewInv

-----------------------------------------------------------------------------
(* Rings and lines.                                                        *)

\* What an append to a full or not yet full ring does.
LEMMA RingAppend ==
  ASSUME NEW T, NEW s \in Seq(T), NEW x \in T, NEW cap \in Nat \ {0}, Len(s) <= cap
  PROVE  LET full == Len(s) = cap
             r == Append(IF full THEN Tail(s) ELSE s, x)
             d == IF full THEN 1 ELSE 0
         IN  /\ r \in Seq(T)
             /\ Len(r) = Len(s) + 1 - d
             /\ \A i \in 1 .. Len(s) - d : r[i] = s[i + d]
             /\ r[Len(s) + 1 - d] = x
<1>1. CASE Len(s) = cap
  <2>1. s # <<>> /\ Len(s) \in Nat
    BY <1>1
  <2>2. /\ Tail(s) \in Seq(T) /\ Len(Tail(s)) = Len(s) - 1
        /\ \A i \in 1 .. Len(s) - 1 : Tail(s)[i] = s[i + 1]
    BY <2>1, HeadTailProperties
  <2>3. /\ Append(Tail(s), x) \in Seq(T) /\ Len(Append(Tail(s), x)) = Len(s)
        /\ \A i \in 1 .. Len(s) - 1 : Append(Tail(s), x)[i] = Tail(s)[i]
        /\ Append(Tail(s), x)[Len(s)] = x
    BY <2>1, <2>2, AppendProperties
  <2> QED
    BY <1>1, <2>1, <2>2, <2>3
<1>2. CASE Len(s) # cap
  BY <1>2, AppendProperties
<1> QED
  BY <1>1, <1>2

\* mark_closed on a log in which a connection has one line at most.
LEMMA MarkClosedLine ==
  ASSUME NEW lines \in Seq(Lines), NEW c \in Conns,
         \A i, j \in 1 .. Len(lines) : lines[i].id # 0 /\ lines[i].id = lines[j].id => i = j
  PROVE  LET r == MarkClosed(lines, c)
         IN  /\ r \in Seq(Lines) /\ Len(r) = Len(lines)
             /\ \A i \in 1 .. Len(lines) :
                  /\ r[i].id = lines[i].id
                  /\ r[i].dim = (lines[i].dim \/ lines[i].id = c)
<1> DEFINE own == {i \in DOMAIN lines : lines[i].id = c /\ ~ lines[i].dim}
           last == CHOOSE i \in own : \A j \in own : j <= i
<1>1. /\ DOMAIN lines = 1 .. Len(lines) /\ Len(lines) \in Nat
      /\ \A i \in 1 .. Len(lines) : lines[i] \in Lines
      /\ c # 0
  BY LenProperties, DashboardAssumption DEF Conns
<1>2. \A i \in 1 .. Len(lines) : lines[i].dim \in BOOLEAN
  BY <1>1 DEF Lines
<1>3. CASE own = {}
  <2>1. MarkClosed(lines, c) = lines
    BY <1>3 DEF MarkClosed
  <2>2. \A i \in 1 .. Len(lines) : lines[i].id = c => lines[i].dim
    BY <1>1, <1>3
  <2> QED
    BY <1>2, <2>1, <2>2
<1>4. CASE own # {}
  <2>1. PICK k \in own : TRUE
    BY <1>4
  <2>2. k \in 1 .. Len(lines) /\ lines[k].id = c /\ own = {k}
    BY <1>1, <2>1
  <2>3. last = k
    BY <1>1, <2>2
  <2>4. MarkClosed(lines, c) = [lines EXCEPT ![k].dim = TRUE]
    BY <1>4, <2>3 DEF MarkClosed
  <2> DEFINE line == [lines[k] EXCEPT !.dim = TRUE]
  <2>5. line \in Lines /\ line.id = lines[k].id /\ line.dim = TRUE
    BY <1>1, <2>2 DEF Lines
  <2>6. MarkClosed(lines, c) = [lines EXCEPT ![k] = line]
    BY <2>4
  <2> HIDE DEF line
  <2>7. /\ MarkClosed(lines, c) \in Seq(Lines) /\ Len(MarkClosed(lines, c)) = Len(lines)
        /\ \A i \in 1 .. Len(lines) : MarkClosed(lines, c)[i] = IF i = k THEN line ELSE lines[i]
    BY <2>2, <2>5, <2>6, ExceptSeq
  <2>8. \A i \in 1 .. Len(lines) : lines[i].id = c => i = k
    BY <1>1, <2>2
  <2> QED
    BY <1>2, <2>2, <2>5, <2>7, <2>8
<1> QED
  BY <1>3, <1>4

-----------------------------------------------------------------------------
(* Types.                                                                  *)

\* What a send leaves in the channel: e stands at e + d before it, but the last.
SentAs(event, d) ==
  /\ d \in {0, 1}
  /\ bus' \in Seq(Events) /\ Len(bus') = Len(bus) + 1 - d /\ Len(bus') <= ChanCap
  /\ \A e \in 1 .. Len(bus) - d : bus'[e] = bus[e + d]
  /\ bus'[Len(bus) + 1 - d] = event
  /\ missed' \in BOOLEAN /\ lagged' \in BOOLEAN
  /\ ~ lagged' => ~ lagged /\ d = 0

LEMMA SendStep ==
  ASSUME TypeOK, NEW event \in Events, Send(event)
  PROVE  \E d \in {0, 1} : SentAs(event, d)
<1> DEFINE d == IF Len(bus) = ChanCap THEN 1 ELSE 0
<1>1. /\ bus \in Seq(Events) /\ Len(bus) \in Nat /\ Len(bus) <= ChanCap /\ ChanCap \in Nat \ {0}
      /\ missed \in BOOLEAN /\ lagged \in BOOLEAN
  BY LenProperties, DashboardAssumption DEF TypeOK
<1>2. /\ bus' \in Seq(Events) /\ Len(bus') = Len(bus) + 1 - d
      /\ \A e \in 1 .. Len(bus) - d : bus'[e] = bus[e + d]
      /\ bus'[Len(bus) + 1 - d] = event
  BY <1>1, RingAppend DEF Send
<1>3. Len(bus') <= ChanCap
  BY <1>1, <1>2
<1>4. missed' \in BOOLEAN /\ lagged' \in BOOLEAN
  BY <1>1 DEF Send
<1>5. ~ lagged' => ~ lagged /\ d = 0
  BY <1>1 DEF Send
<1> QED
  BY <1>2, <1>3, <1>4, <1>5 DEF SentAs

\* What a new line leaves in the log: i stands at i + d before it, but the last.
AddedAs(id, d) ==
  /\ d \in {0, 1}
  /\ log' \in Seq(Lines) /\ Len(log') = Len(log) + 1 - d /\ Len(log') <= LogCap
  /\ \A i \in 1 .. Len(log) - d : log'[i] = log[i + d]
  /\ log'[Len(log) + 1 - d] = [id |-> id, dim |-> FALSE]
  /\ added' = added + 1 /\ pushed' = pushed + 1

LEMMA AddLineStep ==
  ASSUME TypeOK, NEW id \in Conns \cup {0}, AddLine(id)
  PROVE  \E d \in {0, 1} : AddedAs(id, d)
<1> DEFINE d == IF Len(log) = LogCap THEN 1 ELSE 0
           line == [id |-> id, dim |-> FALSE]
<1>1. /\ log \in Seq(Lines) /\ Len(log) \in Nat /\ Len(log) <= LogCap /\ LogCap \in Nat \ {0}
      /\ line \in Lines
  BY LenProperties, DashboardAssumption DEF TypeOK, Lines
<1>2. log' = Append(IF Len(log) = LogCap THEN Tail(log) ELSE log, line)
  BY DEF AddLine, Push
<1> HIDE DEF line
<1>3. /\ log' \in Seq(Lines) /\ Len(log') = Len(log) + 1 - d
      /\ \A i \in 1 .. Len(log) - d : log'[i] = log[i + d]
      /\ log'[Len(log) + 1 - d] = line
  BY <1>1, <1>2, RingAppend
<1>4. Len(log') <= LogCap
  BY <1>1, <1>3
<1> QED
  BY <1>3, <1>4 DEF AddedAs, AddLine, line

\* The event a tick takes off the channel.
LEMMA HeadOfBus ==
  ASSUME TypeOK, bus # <<>>, bus' = Tail(bus)
  PROVE  /\ Head(bus) = bus[1] /\ Head(bus) \in Events
         /\ Head(bus).id \in Conns \cup {0}
         /\ Head(bus).type # "Other" => Head(bus).id \in Conns
         /\ Head(bus).type # "Closed" /\ Head(bus).type # "Connect" => Head(bus).id = 0
         /\ Len(bus) \in Nat \ {0} /\ Len(bus') = Len(bus) - 1 /\ Len(bus') <= ChanCap
         /\ bus' \in Seq(Events)
         /\ \A e \in 1 .. Len(bus) - 1 : bus'[e] = bus[e + 1]
<1>1. /\ Head(bus) \in Events /\ Tail(bus) \in Seq(Events) /\ Len(Tail(bus)) = Len(bus) - 1
      /\ \A e \in 1 .. Len(bus) - 1 : Tail(bus)[e] = bus[e + 1]
      /\ Len(bus) \in Nat \ {0} /\ Len(bus) <= ChanCap /\ ChanCap \in Nat
  BY HeadTailProperties, EmptySeq, DashboardAssumption DEF TypeOK
<1>2. Head(bus) = bus[1]
  OBVIOUS
<1>3. \A event \in Events :
        /\ event.id \in Conns \cup {0}
        /\ event.type # "Other" => event.id \in Conns
        /\ event.type # "Closed" /\ event.type # "Connect" => event.id = 0
  BY DEF Events
<1> QED
  BY <1>1, <1>2, <1>3

\* What the channel and the log are made of.
LEMMA Elements ==
  ASSUME TypeOK
  PROVE  /\ Len(bus) \in Nat /\ Len(log) \in Nat
         /\ \A e \in 1 .. Len(bus) : bus[e] \in Events
         /\ \A e \in 1 .. Len(bus) : bus[e].type # "Other" => bus[e].id \in Conns
         /\ \A i \in 1 .. Len(log) : log[i] \in Lines
         /\ \A i \in 1 .. Len(log) : log[i].id \in Conns \cup {0} /\ log[i].dim \in BOOLEAN
         /\ DOMAIN bus = 1 .. Len(bus) /\ DOMAIN log = 1 .. Len(log)
<1>1. /\ Len(bus) \in Nat /\ Len(log) \in Nat
      /\ \A e \in 1 .. Len(bus) : bus[e] \in Events
      /\ \A i \in 1 .. Len(log) : log[i] \in Lines
      /\ DOMAIN bus = 1 .. Len(bus) /\ DOMAIN log = 1 .. Len(log)
  BY LenProperties, ElementOfSeq DEF TypeOK
<1>2. \A event \in Events : event.type # "Other" => event.id \in Conns
  BY DEF Events
<1>3. \A line \in Lines : line.id \in Conns \cup {0} /\ line.dim \in BOOLEAN
  BY DEF Lines
<1> QED
  BY <1>1, <1>2, <1>3

LEMMA Numbers ==
  ASSUME TypeOK
  PROVE  /\ {main, conn_scroll, log_scroll, added, pushed, anchor, Page} \subseteq Nat
         /\ LogAvail \in Nat /\ ConnAvail \in Nat /\ Page # 0
         /\ LogTop = Monus(Monus(Len(log), AtLeast(LogAvail, 1)), log_scroll)
         /\ LogTop \in Nat
<1>1. /\ {main, conn_scroll, log_scroll, added, pushed, anchor} \subseteq Nat
      /\ Page \in Nat \ {0} /\ Len(log) \in Nat
  BY Elements, DashboardAssumption DEF TypeOK
<1>2. LogAvail \in Nat /\ ConnAvail \in Nat
  BY <1>1 DEF LogAvail, ConnAvail, Monus
<1>3. LogTop = Monus(Monus(Len(log), AtLeast(LogAvail, 1)), log_scroll)
  BY <1>1, <1>2 DEF LogTop, WindowStart, Monus, AtMost, AtLeast
<1> QED
  BY <1>1, <1>2, <1>3, SMTT(20) DEF Monus, AtLeast

LEMMA InitInv == Init => IInv
<1> SUFFICES ASSUME Init PROVE IInv
  OBVIOUS
<1>1. TypeOK
  <2>1. bus \in Seq(Events) /\ log \in Seq(Lines) /\ Len(bus) = 0 /\ Len(log) = 0
    BY EmptySeq DEF Init
  <2>2. life \in [Conns -> {"none", "registered", "announced", "removed", "closed"}]
    BY DEF Init
  <2>3. missed \in BOOLEAN /\ lagged \in BOOLEAN /\ draining \in BOOLEAN /\ fresh \in BOOLEAN
    BY DEF Init
  <2> QED
    BY <2>1, <2>2, <2>3, DashboardAssumption DEF Init, TypeOK
<1>2. Len(bus) = 0 /\ Len(log) = 0 /\ DOMAIN log = {} /\ ~ draining /\ ~ fresh /\ pushed = 0
  BY DEF Init
<1> QED
  BY <1>1, <1>2 DEF IInv, DashboardInv, LogIsTruthful, StoryInv, EventsAreTrue, LinesAreTrue,
     OneLineEach, CloseFollows, ViewInv, OffsetIsClamped, AnchorHolds

-----------------------------------------------------------------------------
(* The view: lengths, offsets and the anchor.                              *)

LEMMA SourceView ==
  ASSUME IInv, UNCHANGED <<log, log_scroll, draining, added, pushed, main, anchor, fresh>>
  PROVE  ViewInv'
BY DEF IInv, ViewInv, OffsetIsClamped, AnchorHolds, AnchorLine, OldestLine, LogAvail

LEMMA StartTickView ==
  ASSUME IInv, StartTick
  PROVE  ViewInv' /\ anchor' \in Nat
<1>1. TypeOK /\ ViewInv
  BY DEF IInv, DashboardInv
<1>2. /\ {log_scroll, pushed} \subseteq Nat /\ LogAvail \in Nat /\ Len(log) \in Nat
      /\ LogTop = Monus(Monus(Len(log), AtLeast(LogAvail, 1)), log_scroll)
      /\ LogTop \in Nat /\ Len(log) <= pushed
  BY <1>1, Numbers, Elements DEF ViewInv
<1>3. /\ UNCHANGED <<log, log_scroll, pushed, main, fresh>> /\ added' = 0
      /\ anchor' = OldestLine + LogTop
  BY DEF StartTick, FirstShown
<1>4. LogAvail' = LogAvail /\ OldestLine' = OldestLine
  BY <1>3 DEF LogAvail, OldestLine
<1>5. AnchorLine' = pushed + 1 - AtLeast(LogAvail, 1) - log_scroll
  BY <1>2, <1>3, <1>4 DEF AnchorLine
<1>6. anchor' \in Nat
  BY <1>2, <1>3 DEF OldestLine
<1>7. AnchorLine' <= anchor' /\ (anchor' = AnchorLine' \/ anchor' <= OldestLine')
  <2>1. OldestLine = pushed - Len(log) + 1
    BY DEF OldestLine
  <2>2. \/ /\ AtLeast(LogAvail, 1) + log_scroll <= Len(log)
           /\ LogTop = Len(log) - AtLeast(LogAvail, 1) - log_scroll
        \/ AtLeast(LogAvail, 1) + log_scroll > Len(log) /\ LogTop = 0
    BY <1>2 DEF Monus, AtLeast
  <2>3. AtLeast(LogAvail, 1) \in Nat
    BY <1>2 DEF AtLeast
  <2> DEFINE a == AtLeast(LogAvail, 1)
             n == Len(log)
  <2> HIDE DEF a, n
  <2>4. /\ a \in Nat /\ n \in Nat /\ log_scroll \in Nat /\ pushed \in Nat
        /\ AnchorLine' = pushed + 1 - a - log_scroll
        /\ anchor' = pushed - n + 1 + LogTop
        /\ OldestLine' = pushed - n + 1
        /\ \/ a + log_scroll <= n /\ LogTop = n - a - log_scroll
           \/ a + log_scroll > n /\ LogTop = 0
    BY <1>2, <1>3, <1>4, <1>5, <2>1, <2>2, <2>3 DEF a, n
  <2> QED
    BY <2>4
<1> QED
  BY <1>1, <1>3, <1>4, <1>6, <1>7 DEF ViewInv, OffsetIsClamped, AnchorHolds

LEMMA AddLineView ==
  ASSUME IInv, NEW id \in Conns \cup {0}, AddLine(id),
         UNCHANGED <<log_scroll, draining, main, anchor, fresh>>
  PROVE  ViewInv'
<1>1. TypeOK /\ ViewInv
  BY DEF IInv, DashboardInv
<1>2. PICK d \in {0, 1} : AddedAs(id, d)
  BY <1>1, AddLineStep
<1>3. /\ {log_scroll, added, pushed, anchor} \subseteq Nat /\ LogAvail \in Nat /\ Len(log) \in Nat
      /\ Len(log) <= pushed
  BY <1>1, Numbers, Elements DEF ViewInv
<1>4. Len(log') = Len(log) + 1 - d /\ added' = added + 1 /\ pushed' = pushed + 1
  BY <1>2 DEF AddedAs
<1>5. LogAvail' = LogAvail
  BY DEF LogAvail
<1>6. AnchorLine' = AnchorLine
  BY <1>3, <1>4, <1>5 DEF AnchorLine, AtLeast
<1>7. OldestLine <= OldestLine' /\ OldestLine \in Int /\ OldestLine' \in Int /\ Len(log') <= pushed'
  BY <1>3, <1>4, SMTT(20) DEF OldestLine
<1>8. Monus(Len(log), LogAvail) <= Monus(Len(log'), LogAvail')
  BY <1>3, <1>4, <1>5 DEF Monus
<1>9. OffsetIsClamped'
  BY <1>1, <1>3, <1>4, <1>5, <1>8 DEF ViewInv, OffsetIsClamped, Monus
<1>10. AnchorHolds'
  BY <1>1, <1>3, <1>6, <1>7 DEF ViewInv, AnchorHolds
<1> QED
  BY <1>7, <1>9, <1>10 DEF ViewInv

LEMMA DimView ==
  ASSUME IInv, Len(log') = Len(log),
         UNCHANGED <<log_scroll, draining, added, pushed, main, anchor, fresh>>
  PROVE  ViewInv'
BY DEF IInv, ViewInv, OffsetIsClamped, AnchorHolds, AnchorLine, OldestLine, LogAvail

LEMMA EndTickView ==
  ASSUME IInv, EndTick
  PROVE  ViewInv' /\ log_scroll' \in Nat
<1>1. TypeOK /\ ViewInv
  BY DEF IInv, DashboardInv
<1>2. /\ {log_scroll, added, pushed} \subseteq Nat /\ LogAvail \in Nat /\ Len(log) \in Nat
  BY <1>1, Numbers, Elements
<1>3. /\ UNCHANGED <<log, pushed, main>> /\ draining' = FALSE
      /\ log_scroll' = IF log_scroll = 0 THEN 0
                       ELSE AtMost(log_scroll + added, Monus(Len(log), LogAvail))
  BY DEF EndTick
<1>4. LogAvail' = LogAvail
  BY <1>3 DEF LogAvail
<1>5. log_scroll' \in Nat /\ log_scroll' <= Monus(Len(log'), LogAvail')
  BY <1>2, <1>3, <1>4 DEF AtMost, Monus
<1> QED
  BY <1>1, <1>3, <1>5 DEF ViewInv, OffsetIsClamped, AnchorHolds

LEMMA ResizeView ==
  ASSUME IInv, NEW height \in Mains, Resize(height)
  PROVE  ViewInv'
<1>1. UNCHANGED <<log, pushed>> /\ anchor' = 0 /\ fresh' = FALSE
  BY DEF Resize, viewVars
<1> QED
  BY <1>1 DEF IInv, ViewInv, OffsetIsClamped, AnchorHolds

LEMMA TableSize ==
  ASSUME TypeOK
  PROVE  ConnMax \in Nat
<1>1. IsFiniteSet(Conns)
  BY FS_Interval, DashboardAssumption DEF Conns
<1>2. IsFiniteSet(table)
  BY <1>1, FS_Subset DEF TypeOK
<1>3. Cardinality(table) \in Nat
  BY <1>2, FS_CardinalityType
<1> QED
  BY <1>3, Numbers DEF ConnMax, Monus, AtLeast

LEMMA HandleKeyView ==
  ASSUME IInv, NEW key \in KeyActions, HandleKey(key)
  PROVE  ViewInv' /\ conn_scroll' \in Nat /\ log_scroll' \in Nat
<1>1. TypeOK /\ ViewInv
  BY DEF IInv, DashboardInv
<1>2. /\ {conn_scroll, log_scroll, pushed} \subseteq Nat /\ LogAvail \in Nat /\ Len(log) \in Nat
  BY <1>1, Numbers, Elements
<1>3. key.n \in Nat
  BY <1>1, Numbers DEF KeyActions, Up, Down, CycleSort, SwitchFocus
<1>4. ConnMax \in Nat
  BY <1>1, TableSize
<1>5. /\ UNCHANGED <<log, pushed, main, fresh>> /\ ~ draining /\ draining' = draining
      /\ ApplyAction(key)
  BY DEF HandleKey
<1>6. LogAvail' = LogAvail
  BY <1>5 DEF LogAvail
<1>7. conn_scroll' \in Nat
  BY <1>2, <1>3, <1>4, <1>5 DEF ApplyAction, Monus, AtMost
<1>8. log_scroll' \in Nat /\ (log_scroll' <= log_scroll \/ log_scroll' <= Monus(Len(log), LogAvail))
  BY <1>2, <1>3, <1>5 DEF ApplyAction, Monus, AtMost, AtLeast
<1>9. OffsetIsClamped'
  BY <1>1, <1>2, <1>5, <1>6, <1>8 DEF ViewInv, OffsetIsClamped, Monus
<1> QED
  BY <1>1, <1>5, <1>7, <1>8, <1>9 DEF ViewInv, AnchorHolds

-----------------------------------------------------------------------------
(* The story the events and the log tell.                                  *)

\* A connection moves on from one stage of its life to the next.
Moves(c, from, to) == life[c] = from /\ life' = [life EXCEPT ![c] = to]

LEMMA LifeStep ==
  ASSUME TypeOK, NEW c \in Conns, NEW from \in {"none", "registered", "announced", "removed"},
         NEW to \in {"registered", "announced", "removed", "closed"}, Moves(c, from, to)
  PROVE  /\ life' \in [Conns -> {"none", "registered", "announced", "removed", "closed"}]
         /\ \A b \in Conns : life'[b] = IF b = c THEN to ELSE life[b]
BY DEF TypeOK, Moves

\* Registering and unregistering send nothing; the life of c is not over with it.
LEMMA QuietStep ==
  ASSUME IInv, NEW c \in Conns, UNCHANGED <<bus, log, lagged>>,
         Moves(c, "none", "registered") \/ Moves(c, "announced", "removed")
  PROVE  StoryInv' /\ LogIsTruthful'
<1>1. TypeOK /\ StoryInv /\ LogIsTruthful
  BY DEF IInv, DashboardInv
<1>2. PICK from \in {"none", "announced"}, to \in {"registered", "removed"} :
        /\ life[c] = from /\ \A b \in Conns : life'[b] = IF b = c THEN to ELSE life[b]
        /\ to = "registered" <=> from = "none"
  BY <1>1, LifeStep DEF Moves
<1>3. \A b \in Conns : /\ life[b] \in Spoken => life'[b] \in Spoken
                       /\ life[b] = "closed" <=> life'[b] = "closed"
  BY <1>2 DEF Spoken
<1>4. EventsAreTrue'
  BY <1>1, <1>3, Elements DEF StoryInv, EventsAreTrue
<1>5. LinesAreTrue'
  BY <1>1, <1>3, Elements DEF StoryInv, LinesAreTrue
<1>6. OneLineEach'
  BY <1>1 DEF StoryInv, OneLineEach
<1>7. CloseFollows'
  BY <1>1, <1>3, Elements DEF StoryInv, CloseFollows
<1>8. LogIsTruthful'
  BY <1>1, <1>3, Elements DEF LogIsTruthful
<1> QED
  BY <1>4, <1>5, <1>6, <1>7, <1>8 DEF StoryInv

\* A send of an event that is true, and that is not a second Connect event.
LEMMA SpeakStep ==
  ASSUME IInv, NEW event \in Events, Send(event), log' = log,
         \A b \in Conns : /\ life[b] \in Spoken => life'[b] \in Spoken
                          /\ life[b] = "closed" => life'[b] = "closed"
                          /\ life'[b] = "closed" =>
                               life[b] = "closed" \/ event = [type |-> "Closed", id |-> b],
         event.type = "Closed" => life'[event.id] = "closed",
         event.type = "Connect" => life[event.id] = "registered" /\ life'[event.id] = "announced"
  PROVE  StoryInv' /\ LogIsTruthful'
<1>1. TypeOK /\ StoryInv /\ LogIsTruthful
  BY DEF IInv, DashboardInv
<1>2. PICK d \in {0, 1} : SentAs(event, d)
  BY <1>1, SendStep
<1> DEFINE n == Len(bus) - d
<1>3. /\ n \in Int /\ Len(bus') = n + 1 /\ Len(bus) = n + d
      /\ \A e \in 1 .. n : bus'[e] = bus[e + d] /\ e + d \in 1 .. Len(bus)
      /\ bus'[n + 1] = event
  BY <1>1, <1>2, Elements DEF SentAs
<1>4. /\ \A e \in 1 .. Len(bus) : bus[e].type # "Other" => bus[e].id \in Conns
      /\ \A i \in 1 .. Len(log) : log[i].id \in Conns \cup {0}
      /\ event.type # "Other" => event.id \in Conns
      /\ Len(log) \in Nat /\ DOMAIN log = 1 .. Len(log)
  BY <1>1, Elements DEF Events
<1>5. \A e \in 1 .. n + 1 : e \in 1 .. n \/ e = n + 1
  BY <1>3
<1>6. ~ lagged' => ~ lagged /\ d = 0
  BY <1>2 DEF SentAs
<1>7. DOMAIN bus' = 1 .. n + 1
  BY <1>2, <1>3, LenProperties DEF SentAs
<1> HIDE DEF n
<1>8. EventsAreTrue'
  <2>1. ASSUME NEW e \in 1 .. n
        PROVE  /\ bus'[e].type = "Closed" => life'[bus'[e].id] = "closed"
               /\ bus'[e].type = "Connect" => life'[bus'[e].id] \in Spoken
    <3>1. PICK p \in 1 .. Len(bus) : bus'[e] = bus[p]
      BY <1>3
    <3>2. /\ bus[p].type = "Closed" => bus[p].id \in Conns /\ life[bus[p].id] = "closed"
          /\ bus[p].type = "Connect" => bus[p].id \in Conns /\ life[bus[p].id] \in Spoken
      BY <1>1, <1>4 DEF StoryInv, EventsAreTrue
    <3> QED
      BY <3>1, <3>2
  <2>2. /\ event.type = "Closed" => life'[event.id] = "closed"
        /\ event.type = "Connect" => life'[event.id] \in Spoken
    BY DEF Spoken
  <2> QED
    BY <1>3, <1>5, <2>1, <2>2 DEF EventsAreTrue
<1>9. LinesAreTrue'
  BY <1>1, <1>4 DEF StoryInv, LinesAreTrue
<1>10. OneLineEach'
  <2>1. "registered" \notin Spoken
    BY DEF Spoken
  <2>2. ASSUME NEW e \in 1 .. n, event.type = "Connect" PROVE bus'[e] # event
    BY <1>1, <1>3, <2>1, <2>2 DEF StoryInv, EventsAreTrue
  <2>3. ASSUME NEW e \in 1 .. n, NEW f \in 1 .. n, bus'[e].type = "Connect", bus'[e] = bus'[f]
        PROVE  e = f
    <3>1. PICK p \in 1 .. Len(bus) : p = e + d /\ bus'[e] = bus[p]
      BY <1>3
    <3>2. PICK q \in 1 .. Len(bus) : q = f + d /\ bus'[f] = bus[q]
      BY <1>3
    <3>3. p = q
      BY <1>1, <2>3, <3>1, <3>2 DEF StoryInv, OneLineEach
    <3> QED
      BY <1>3, <3>1, <3>2, <3>3
  <2>4. \A e, f \in 1 .. n + 1 : bus'[e].type = "Connect" /\ bus'[e] = bus'[f] => e = f
    BY <1>3, <1>5, <2>2, <2>3
  <2>5. ASSUME NEW i \in 1 .. Len(log), event.type = "Connect" PROVE event.id # log[i].id
    <3>1. event.id # 0
      BY <1>4, <2>5 DEF Conns
    <3> QED
      BY <1>1, <2>1, <2>5, <3>1 DEF StoryInv, LinesAreTrue
  <2>6. \A i \in 1 .. Len(log), e \in 1 .. n + 1 : bus'[e].type = "Connect" => bus'[e].id # log[i].id
    BY <1>1, <1>3, <1>5, <2>5 DEF StoryInv, OneLineEach
  <2> QED
    BY <1>1, <1>3, <2>4, <2>6 DEF StoryInv, OneLineEach
<1>11. CloseFollows'
  <2> SUFFICES ASSUME ~ lagged', NEW e \in 1 .. n + 1, bus'[e].type = "Connect",
                      life'[bus'[e].id] = "closed"
               PROVE  \E f \in e + 1 .. n + 1 : bus'[f] = [type |-> "Closed", id |-> bus'[e].id]
    BY <1>3 DEF CloseFollows
  <2>1. ~ lagged /\ d = 0
    BY <1>6
  <2>2. e \in 1 .. n /\ bus'[e] = bus[e] /\ bus[e].id \in Conns /\ e \in 1 .. Len(bus)
    BY <1>3, <1>4, <1>5, <2>1
  <2>3. CASE life[bus[e].id] = "closed"
    <3>1. PICK f \in e + 1 .. Len(bus) : bus[f] = [type |-> "Closed", id |-> bus[e].id]
      BY <1>1, <2>1, <2>2, <2>3 DEF StoryInv, CloseFollows
    <3>2. f \in 1 .. n /\ f \in e + 1 .. n + 1 /\ bus'[f] = bus[f]
      BY <1>3, <2>1, <2>2, <3>1
    <3> QED
      BY <2>2, <3>1, <3>2
  <2>4. CASE event = [type |-> "Closed", id |-> bus[e].id]
    <3>1. n + 1 \in e + 1 .. n + 1
      BY <1>3, <2>2
    <3> QED
      BY <1>3, <2>2, <2>4, <3>1
  <2> QED
    BY <2>2, <2>3, <2>4
<1>12. LogIsTruthful'
  <2> SUFFICES ASSUME NEW i \in 1 .. Len(log), log[i].id # 0
               PROVE  IF log[i].dim
                        THEN life'[log[i].id] = "closed"
                        ELSE \/ lagged'
                             \/ life'[log[i].id] # "closed"
                             \/ \E e \in 1 .. n + 1 : bus'[e] = [type |-> "Closed", id |-> log[i].id]
    BY <1>4, <1>7 DEF LogIsTruthful
  <2>1. log[i].id \in Conns
    BY <1>4
  <2>2. CASE log[i].dim
    BY <1>1, <1>4, <2>1, <2>2 DEF LogIsTruthful
  <2>3. CASE ~ log[i].dim /\ ~ lagged' /\ life'[log[i].id] = "closed"
    <3>1. ~ lagged /\ d = 0
      BY <1>6, <2>3
    <3>2. CASE life[log[i].id] = "closed"
      <4>1. PICK e \in DOMAIN bus : bus[e] = [type |-> "Closed", id |-> log[i].id]
        BY <1>1, <1>4, <2>3, <3>1, <3>2 DEF LogIsTruthful
      <4>2. e \in 1 .. n
        BY <1>1, <1>3, <3>1, <4>1, Elements
      <4>3. e \in 1 .. n + 1 /\ bus'[e] = bus[e]
        BY <1>3, <3>1, <4>2
      <4> QED
        BY <2>3, <4>1, <4>3
    <3>3. CASE event = [type |-> "Closed", id |-> log[i].id]
      <4>1. n + 1 \in 1 .. n + 1
        BY <1>1, <1>3, Elements, <3>1
      <4> QED
        BY <1>3, <2>3, <3>3, <4>1
    <3> QED
      BY <2>1, <2>3, <3>2, <3>3
  <2> QED
    BY <2>2, <2>3
<1> QED
  BY <1>8, <1>9, <1>10, <1>11, <1>12 DEF StoryInv

\* What a tick takes off the channel: nothing (k = 0) or its first event.
Taken(k) ==
  /\ k \in {0, 1} /\ k <= Len(bus)
  /\ bus' \in Seq(Events) /\ Len(bus') = Len(bus) - k
  /\ \A e \in 1 .. Len(bus) - k : bus'[e] = bus[e + k]

\* Taking events off leaves true what is said of those that stay.
LEMMA TakenStory ==
  ASSUME IInv, NEW k \in {0, 1}, Taken(k), UNCHANGED <<life, lagged>>
  PROVE  /\ EventsAreTrue'
         /\ \A e, f \in 1 .. Len(bus') : bus'[e].type = "Connect" /\ bus'[e] = bus'[f] => e = f
         /\ CloseFollows'
         /\ \A e \in 1 .. Len(bus') : \E p \in 1 .. Len(bus) : p = e + k /\ bus'[e] = bus[p]
         /\ \A p \in 1 .. Len(bus) : p > k => \E e \in 1 .. Len(bus') : p = e + k /\ bus'[e] = bus[p]
<1>1. StoryInv /\ Len(bus) \in Nat
  BY Elements DEF IInv, DashboardInv
<1>2. /\ Len(bus') = Len(bus) - k /\ k <= Len(bus)
      /\ \A e \in 1 .. Len(bus) - k : bus'[e] = bus[e + k]
  BY DEF Taken
<1>3. \A e \in 1 .. Len(bus') : \E p \in 1 .. Len(bus) : p = e + k /\ bus'[e] = bus[p]
  BY <1>1, <1>2
<1>4. ASSUME NEW p \in 1 .. Len(bus), p > k
      PROVE  \E e \in 1 .. Len(bus') : p = e + k /\ bus'[e] = bus[p]
  <2>1. p - k \in 1 .. Len(bus') /\ p = (p - k) + k /\ bus'[p - k] = bus[p]
    BY <1>1, <1>2, <1>4
  <2> QED
    BY <2>1
<1>5. EventsAreTrue'
  BY <1>1, <1>3 DEF StoryInv, EventsAreTrue
<1>6. ASSUME NEW e \in 1 .. Len(bus'), NEW f \in 1 .. Len(bus'),
             bus'[e].type = "Connect", bus'[e] = bus'[f]
      PROVE  e = f
  <2>1. PICK p \in 1 .. Len(bus) : p = e + k /\ bus'[e] = bus[p]
    BY <1>3
  <2>2. PICK q \in 1 .. Len(bus) : q = f + k /\ bus'[f] = bus[q]
    BY <1>3
  <2>3. p = q
    BY <1>1, <1>6, <2>1, <2>2 DEF StoryInv, OneLineEach
  <2> QED
    BY <1>1, <2>1, <2>2, <2>3
<1>7. CloseFollows'
  <2> SUFFICES ASSUME ~ lagged, NEW e \in 1 .. Len(bus'), bus'[e].type = "Connect",
                      life[bus'[e].id] = "closed"
               PROVE  \E f \in e + 1 .. Len(bus') : bus'[f] = [type |-> "Closed", id |-> bus'[e].id]
    BY DEF CloseFollows
  <2>1. PICK p \in 1 .. Len(bus) : p = e + k /\ bus'[e] = bus[p]
    BY <1>3
  <2>2. PICK q \in p + 1 .. Len(bus) : bus[q] = [type |-> "Closed", id |-> bus[p].id]
    BY <1>1, <2>1 DEF StoryInv, CloseFollows
  <2>3. q \in 1 .. Len(bus) /\ q > k
    BY <1>1, <2>1, <2>2
  <2>4. PICK f \in 1 .. Len(bus') : q = f + k /\ bus'[f] = bus[q]
    BY <1>4, <2>3
  <2>5. f \in e + 1 .. Len(bus')
    BY <1>1, <1>2, <2>1, <2>2, <2>4
  <2> QED
    BY <2>1, <2>2, <2>4, <2>5
<1> QED
  BY <1>3, <1>4, <1>5, <1>6, <1>7

\* A line about lost events, about something else, or about the connection whose
\* Connect event has just been taken off the channel.
LEMMA AddLineStory ==
  ASSUME IInv, NEW id \in Conns \cup {0}, AddLine(id), NEW k \in {0, 1}, Taken(k),
         UNCHANGED <<life, lagged>>,
         k = 1 => bus[1].type # "Closed",
         id # 0 => k = 1 /\ bus[1].type = "Connect" /\ bus[1].id = id
  PROVE  StoryInv' /\ LogIsTruthful'
<1>1. TypeOK /\ StoryInv /\ LogIsTruthful
  BY DEF IInv, DashboardInv
<1>2. PICK d \in {0, 1} : AddedAs(id, d)
  BY <1>1, AddLineStep
<1> DEFINE n == Len(log) - d
<1>3. /\ n \in Int /\ Len(log') = n + 1 /\ Len(bus) \in Nat /\ DOMAIN log' = 1 .. n + 1
      /\ \A i \in 1 .. n : \E j \in 1 .. Len(log) : j = i + d /\ log'[i] = log[j]
      /\ log'[n + 1] = [id |-> id, dim |-> FALSE]
      /\ DOMAIN log = 1 .. Len(log) /\ DOMAIN bus = 1 .. Len(bus) /\ DOMAIN bus' = 1 .. Len(bus')
  BY <1>1, <1>2, Elements, LenProperties DEF AddedAs, Taken
<1> HIDE DEF n
<1>4. \A i \in 1 .. n + 1 : i \in 1 .. n \/ i = n + 1
  BY <1>3
<1>5. /\ EventsAreTrue' /\ CloseFollows'
      /\ \A e, f \in 1 .. Len(bus') : bus'[e].type = "Connect" /\ bus'[e] = bus'[f] => e = f
      /\ \A e \in 1 .. Len(bus') : \E p \in 1 .. Len(bus) : p = e + k /\ bus'[e] = bus[p]
      /\ \A p \in 1 .. Len(bus) : p > k => \E e \in 1 .. Len(bus') : p = e + k /\ bus'[e] = bus[p]
  BY TakenStory
<1>6. id # 0 => /\ 1 \in 1 .. Len(bus) /\ bus[1].type = "Connect" /\ bus[1].id = id
                /\ life[id] \in Spoken
  BY <1>1, <1>3 DEF StoryInv, EventsAreTrue, Taken
<1>7. LinesAreTrue'
  <2>1. ASSUME NEW i \in 1 .. n, log'[i].id # 0 PROVE life[log'[i].id] \in Spoken
    BY <1>1, <1>3, <2>1 DEF StoryInv, LinesAreTrue
  <2> QED
    BY <1>3, <1>4, <1>6, <2>1 DEF LinesAreTrue
<1>8. OneLineEach'
  <2>1. ASSUME NEW i \in 1 .. n, id # 0 PROVE log'[i].id # id
    BY <1>1, <1>3, <1>6, <2>1 DEF StoryInv, OneLineEach
  <2>2. ASSUME NEW i \in 1 .. n, NEW j \in 1 .. n, log'[i].id # 0, log'[i].id = log'[j].id
        PROVE  i = j
    <3>1. PICK p \in 1 .. Len(log) : p = i + d /\ log'[i] = log[p]
      BY <1>3
    <3>2. PICK q \in 1 .. Len(log) : q = j + d /\ log'[j] = log[q]
      BY <1>3
    <3>3. p = q
      BY <1>1, <2>2, <3>1, <3>2 DEF StoryInv, OneLineEach
    <3> QED
      BY <1>3, <3>1, <3>2, <3>3
  <2>3. \A i, j \in 1 .. n + 1 : log'[i].id # 0 /\ log'[i].id = log'[j].id => i = j
    BY <1>3, <1>4, <2>1, <2>2
  <2>4. ASSUME NEW i \in 1 .. n, NEW e \in 1 .. Len(bus'), bus'[e].type = "Connect"
        PROVE  bus'[e].id # log'[i].id
    <3>1. PICK p \in 1 .. Len(log) : log'[i] = log[p]
      BY <1>3
    <3>2. PICK q \in 1 .. Len(bus) : bus'[e] = bus[q]
      BY <1>5
    <3> QED
      BY <1>1, <2>4, <3>1, <3>2 DEF StoryInv, OneLineEach
  <2>5. ASSUME NEW e \in 1 .. Len(bus'), bus'[e].type = "Connect" PROVE bus'[e].id # id
    <3>1. PICK q \in 1 .. Len(bus) : q = e + k /\ bus'[e] = bus[q]
      BY <1>5
    <3>2. bus[q].id # 0 /\ bus[q] \in Events
      BY <1>1, <2>5, <3>1, Elements DEF Conns
    <3>3. ASSUME id # 0, bus[q].id = id PROVE FALSE
      <4>1. k = 1 /\ 1 \in 1 .. Len(bus) /\ bus[1] \in Events
        BY <1>1, <1>6, <3>3, Elements
      <4>2. bus[q] = bus[1]
        BY <1>6, <2>5, <3>1, <3>2, <3>3, <4>1 DEF Events
      <4>3. q = 1
        BY <1>1, <2>5, <3>1, <4>1, <4>2 DEF StoryInv, OneLineEach
      <4> QED
        BY <3>1, <4>1, <4>3
    <3> QED
      BY <3>1, <3>2, <3>3
  <2>6. \A i \in 1 .. n + 1, e \in 1 .. Len(bus') :
          bus'[e].type = "Connect" => bus'[e].id # log'[i].id
    BY <1>3, <1>4, <2>4, <2>5
  <2> QED
    BY <1>3, <1>5, <2>3, <2>6 DEF OneLineEach
<1>9. LogIsTruthful'
  <2> SUFFICES ASSUME NEW i \in 1 .. n + 1, log'[i].id # 0
               PROVE  IF log'[i].dim
                        THEN life[log'[i].id] = "closed"
                        ELSE \/ lagged
                             \/ life[log'[i].id] # "closed"
                             \/ \E e \in 1 .. Len(bus') :
                                  bus'[e] = [type |-> "Closed", id |-> log'[i].id]
    BY <1>3 DEF LogIsTruthful
  <2>1. CASE i \in 1 .. n
    <3>1. PICK j \in 1 .. Len(log) : log'[i] = log[j]
      BY <1>3, <2>1
    <3>2. CASE log[j].dim
      BY <1>1, <1>3, <3>1, <3>2 DEF LogIsTruthful
    <3>3. CASE ~ log[j].dim /\ ~ lagged /\ life[log[j].id] = "closed"
      <4>1. PICK p \in 1 .. Len(bus) : bus[p] = [type |-> "Closed", id |-> log[j].id]
        BY <1>1, <1>3, <3>1, <3>3 DEF LogIsTruthful
      <4>2. p > k
        BY <4>1
      <4> QED
        BY <1>5, <3>1, <3>3, <4>1, <4>2
    <3> QED
      BY <3>1, <3>2, <3>3
  <2>2. CASE i = n + 1
    <3>1. log'[i].id = id /\ log'[i].dim = FALSE /\ id # 0
      BY <1>3, <2>2
    <3>2. CASE ~ lagged /\ life[id] = "closed"
      <4>1. PICK f \in 1 + 1 .. Len(bus) : bus[f] = [type |-> "Closed", id |-> id]
        BY <1>1, <1>6, <3>1, <3>2 DEF StoryInv, CloseFollows
      <4>2. f \in 1 .. Len(bus) /\ f > k
        BY <1>3, <4>1
      <4> QED
        BY <1>5, <3>1, <4>1, <4>2
    <3> QED
      BY <3>1, <3>2
  <2> QED
    BY <1>4, <2>1, <2>2
<1> QED
  BY <1>5, <1>7, <1>8, <1>9 DEF StoryInv

\* A Closed event has been taken off the channel and its line is dimmed.
LEMMA DimStory ==
  ASSUME IInv, Taken(1), UNCHANGED <<life, lagged>>,
         bus[1].type = "Closed", log' = MarkClosed(log, bus[1].id)
  PROVE  /\ StoryInv' /\ LogIsTruthful'
         /\ log' \in Seq(Lines) /\ Len(log') = Len(log)
<1>1. TypeOK /\ StoryInv /\ LogIsTruthful
  BY DEF IInv, DashboardInv
<1>2. /\ 1 \in 1 .. Len(bus) /\ bus[1].id \in Conns /\ life[bus[1].id] = "closed"
      /\ bus[1] \in Events
  BY <1>1, Elements DEF Taken, StoryInv, EventsAreTrue
<1>3. /\ log' \in Seq(Lines) /\ Len(log') = Len(log)
      /\ \A i \in 1 .. Len(log) : /\ log'[i].id = log[i].id
                                  /\ log'[i].dim = (log[i].dim \/ log[i].id = bus[1].id)
  BY <1>1, <1>2, MarkClosedLine DEF TypeOK, StoryInv, OneLineEach
<1>4. /\ EventsAreTrue' /\ CloseFollows'
      /\ \A e, f \in 1 .. Len(bus') : bus'[e].type = "Connect" /\ bus'[e] = bus'[f] => e = f
      /\ \A e \in 1 .. Len(bus') : \E p \in 1 .. Len(bus) : p = e + 1 /\ bus'[e] = bus[p]
      /\ \A p \in 1 .. Len(bus) : p > 1 => \E e \in 1 .. Len(bus') : p = e + 1 /\ bus'[e] = bus[p]
  BY TakenStory
<1>5. /\ DOMAIN log = 1 .. Len(log) /\ DOMAIN bus = 1 .. Len(bus) /\ Len(bus) \in Nat
      /\ DOMAIN log' = 1 .. Len(log) /\ DOMAIN bus' = 1 .. Len(bus')
      /\ \A i \in 1 .. Len(log) : log[i].dim \in BOOLEAN
  BY <1>1, <1>3, Elements, LenProperties DEF Taken
<1>6. LinesAreTrue'
  BY <1>1, <1>3 DEF StoryInv, LinesAreTrue
<1>7. OneLineEach'
  <2>1. \A i, j \in 1 .. Len(log') : log'[i].id # 0 /\ log'[i].id = log'[j].id => i = j
    BY <1>1, <1>3 DEF StoryInv, OneLineEach
  <2>2. ASSUME NEW i \in 1 .. Len(log'), NEW e \in 1 .. Len(bus'), bus'[e].type = "Connect"
        PROVE  bus'[e].id # log'[i].id
    BY <1>1, <1>3, <1>4, <2>2 DEF StoryInv, OneLineEach
  <2> QED
    BY <1>4, <2>1, <2>2 DEF OneLineEach
<1>8. LogIsTruthful'
  <2> SUFFICES ASSUME NEW i \in 1 .. Len(log), log'[i].id # 0
               PROVE  IF log'[i].dim
                        THEN life[log'[i].id] = "closed"
                        ELSE \/ lagged
                             \/ life[log'[i].id] # "closed"
                             \/ \E e \in 1 .. Len(bus') :
                                  bus'[e] = [type |-> "Closed", id |-> log'[i].id]
    BY <1>5 DEF LogIsTruthful
  <2>1. CASE log[i].dim
    <3>1. life[log[i].id] = "closed"
      BY <1>1, <1>3, <1>5, <2>1 DEF LogIsTruthful
    <3> QED
      BY <1>3, <1>5, <2>1, <3>1
  <2>2. CASE ~ log[i].dim /\ log[i].id = bus[1].id
    BY <1>2, <1>3, <2>2
  <2>3. CASE ~ log[i].dim /\ log[i].id # bus[1].id
    <3>1. ~ log'[i].dim /\ log'[i].id = log[i].id
      BY <1>3, <2>3
    <3>2. CASE ~ lagged /\ life[log[i].id] = "closed"
      <4>1. PICK p \in 1 .. Len(bus) : bus[p] = [type |-> "Closed", id |-> log[i].id]
        BY <1>1, <1>5, <2>3, <3>1, <3>2 DEF LogIsTruthful
      <4>2. bus[p].id = log[i].id
        BY <4>1
      <4>3. p > 1
        BY <1>5, <2>3, <4>1, <4>2
      <4> QED
        BY <1>4, <3>1, <4>1, <4>3
    <3> QED
      BY <3>1, <3>2
  <2> QED
    BY <1>5, <2>1, <2>2, <2>3
<1> QED
  BY <1>3, <1>4, <1>6, <1>7, <1>8 DEF StoryInv

-----------------------------------------------------------------------------
(* Every step preserves the invariant.                                     *)

\* What a step on the server's side leaves alone.
LEMMA SourceType ==
  ASSUME IInv, UNCHANGED <<viewVars, main, anchor, fresh>>,
         life' \in [Conns -> {"none", "registered", "announced", "removed", "closed"}],
         others' \in 0 .. MaxOthers,
         bus' \in Seq(Events), Len(bus') <= ChanCap, missed' \in BOOLEAN, lagged' \in BOOLEAN,
         StoryInv', LogIsTruthful'
  PROVE  IInv'
<1>1. UNCHANGED <<table, log, focus, conn_scroll, log_scroll, draining, added, pushed,
                  main, anchor, fresh>>
  BY DEF viewVars
<1>2. TypeOK'
  BY <1>1 DEF IInv, DashboardInv, TypeOK
<1>3. ViewInv'
  BY <1>1, SourceView
<1> QED
  BY <1>2, <1>3 DEF IInv, DashboardInv

LEMMA SourceStep ==
  ASSUME IInv, Source
  PROVE  IInv'
<1>1. TypeOK
  BY DEF IInv, DashboardInv
<1>2. ASSUME NEW c \in Conns, ConnRegistered(c) PROVE IInv'
  <2>1. Moves(c, "none", "registered") /\ UNCHANGED <<others, bus, missed, lagged, log>>
    BY <1>2 DEF ConnRegistered, Moves, viewVars
  <2>2. StoryInv' /\ LogIsTruthful'
    BY <2>1, QuietStep
  <2>3. life' \in [Conns -> {"none", "registered", "announced", "removed", "closed"}]
    BY <1>1, <2>1, LifeStep
  <2> QED
    BY <1>1, <1>2, <2>1, <2>2, <2>3, SourceType DEF ConnRegistered, TypeOK
<1>3. ASSUME NEW c \in Conns, ConnUnregistered(c) PROVE IInv'
  <2>1. Moves(c, "announced", "removed") /\ UNCHANGED <<others, bus, missed, lagged, log>>
    BY <1>3 DEF ConnUnregistered, Moves, viewVars
  <2>2. StoryInv' /\ LogIsTruthful'
    BY <2>1, QuietStep
  <2>3. life' \in [Conns -> {"none", "registered", "announced", "removed", "closed"}]
    BY <1>1, <2>1, LifeStep
  <2> QED
    BY <1>1, <1>3, <2>1, <2>2, <2>3, SourceType DEF ConnUnregistered, TypeOK
<1>4. ASSUME NEW c \in Conns, ConnAnnounced(c) PROVE IInv'
  <2> DEFINE event == [type |-> "Connect", id |-> c]
  <2>1. /\ Moves(c, "registered", "announced") /\ Send(event) /\ event \in Events
        /\ UNCHANGED <<others, log>>
    BY <1>4 DEF ConnAnnounced, Moves, viewVars, Events
  <2>2. /\ life[c] = "registered" /\ life'[c] = "announced"
        /\ \A b \in Conns : b # c => life'[b] = life[b]
        /\ life' \in [Conns -> {"none", "registered", "announced", "removed", "closed"}]
    BY <1>1, <2>1, LifeStep DEF Moves
  <2>3. event.type = "Connect" /\ event.id = c
    OBVIOUS
  <2> HIDE DEF event
  <2>4. \A b \in Conns : /\ life[b] \in Spoken => life'[b] \in Spoken
                         /\ life[b] = "closed" => life'[b] = "closed"
                         /\ life'[b] = "closed" => life[b] = "closed"
    BY <2>2 DEF Spoken
  <2>5. StoryInv' /\ LogIsTruthful'
    BY <2>1, <2>2, <2>3, <2>4, SpeakStep
  <2>6. PICK d \in {0, 1} : SentAs(event, d)
    BY <1>1, <2>1, SendStep
  <2> QED
    BY <1>1, <1>4, <2>1, <2>2, <2>5, <2>6, SourceType DEF ConnAnnounced, TypeOK, SentAs
<1>5. ASSUME NEW c \in Conns, ConnClosed(c) PROVE IInv'
  <2> DEFINE event == [type |-> "Closed", id |-> c]
  <2>1. /\ Moves(c, "removed", "closed") /\ Send(event) /\ event \in Events
        /\ UNCHANGED <<others, log>>
    BY <1>5 DEF ConnClosed, Moves, viewVars, Events
  <2>2. /\ life[c] = "removed" /\ life'[c] = "closed"
        /\ \A b \in Conns : b # c => life'[b] = life[b]
        /\ life' \in [Conns -> {"none", "registered", "announced", "removed", "closed"}]
    BY <1>1, <2>1, LifeStep DEF Moves
  <2>3. event.type = "Closed" /\ event.id = c
    OBVIOUS
  <2>4. \A b \in Conns : /\ life[b] \in Spoken => life'[b] \in Spoken
                         /\ life[b] = "closed" => life'[b] = "closed"
                         /\ life'[b] = "closed" =>
                              life[b] = "closed" \/ event = [type |-> "Closed", id |-> b]
    BY <2>2 DEF Spoken
  <2> HIDE DEF event
  <2>5. StoryInv' /\ LogIsTruthful'
    BY <2>1, <2>2, <2>3, <2>4, SpeakStep
  <2>6. PICK d \in {0, 1} : SentAs(event, d)
    BY <1>1, <2>1, SendStep
  <2> QED
    BY <1>1, <1>5, <2>1, <2>2, <2>5, <2>6, SourceType DEF ConnClosed, TypeOK, SentAs
<1>6. ASSUME OtherEvent PROVE IInv'
  <2> DEFINE event == [type |-> "Other", id |-> 0]
  <2>1. /\ Send(event) /\ event \in Events /\ UNCHANGED <<life, log>>
        /\ others < MaxOthers /\ others' = others + 1
    BY <1>6 DEF OtherEvent, viewVars, Events
  <2>2. event.type = "Other"
    OBVIOUS
  <2> HIDE DEF event
  <2>3. StoryInv' /\ LogIsTruthful'
    BY <2>1, <2>2, SpeakStep
  <2>4. PICK d \in {0, 1} : SentAs(event, d)
    BY <1>1, <2>1, SendStep
  <2>5. others' \in 0 .. MaxOthers
    BY <1>1, <2>1, DashboardAssumption DEF TypeOK
  <2> QED
    BY <1>1, <1>6, <2>1, <2>3, <2>4, <2>5, SourceType DEF OtherEvent, TypeOK, SentAs
<1> QED
  BY <1>2, <1>3, <1>4, <1>5, <1>6 DEF Source

\* Story and lines do not depend on what a tick begins or ends with, keys or the size.
LEMMA StorySame ==
  ASSUME IInv, UNCHANGED <<life, bus, lagged, log>>
  PROVE  StoryInv' /\ LogIsTruthful'
BY DEF IInv, DashboardInv, StoryInv, EventsAreTrue, LinesAreTrue, OneLineEach, CloseFollows,
   LogIsTruthful

LEMMA TickStep ==
  ASSUME IInv, StartTick \/ DrainLagged \/ DrainEvent \/ EndTick
  PROVE  IInv'
<1>1. TypeOK
  BY DEF IInv, DashboardInv
<1>2. CASE StartTick
  <2>1. UNCHANGED <<life, others, bus, missed, lagged, table, log, focus, conn_scroll,
                    log_scroll, pushed, main, fresh>>
    BY <1>2 DEF StartTick, sourceVars
  <2>2. ViewInv' /\ anchor' \in Nat
    BY <1>2, StartTickView
  <2>3. draining' = TRUE /\ added' = 0
    BY <1>2 DEF StartTick
  <2>4. TypeOK'
    BY <1>1, <2>1, <2>2, <2>3 DEF TypeOK
  <2> QED
    BY <2>1, <2>2, <2>4, StorySame DEF IInv, DashboardInv
<1>3. CASE DrainLagged
  <2>1. /\ AddLine(0) /\ missed' = FALSE
        /\ UNCHANGED <<life, others, bus, lagged, table, focus, conn_scroll, log_scroll,
                       draining, main, anchor, fresh>>
    BY <1>3 DEF DrainLagged
  <2>2. Taken(0)
    BY <1>1, <2>1, Elements DEF Taken, TypeOK
  <2>3. StoryInv' /\ LogIsTruthful'
    BY <2>1, <2>2, AddLineStory
  <2>4. ViewInv'
    BY <2>1, AddLineView
  <2>5. PICK d \in {0, 1} : AddedAs(0, d)
    BY <1>1, <2>1, AddLineStep
  <2>6. added' \in Nat /\ pushed' \in Nat
    <3>1. added \in Nat /\ pushed \in Nat
      BY <1>1 DEF TypeOK
    <3> QED
      BY <2>5, <3>1 DEF AddedAs
  <2>7. log' \in Seq(Lines) /\ Len(log') <= LogCap
    BY <2>5 DEF AddedAs
  <2>8. TypeOK'
    BY <1>1, <2>1, <2>6, <2>7 DEF TypeOK
  <2> QED
    BY <2>3, <2>4, <2>8 DEF IInv, DashboardInv
<1>4. CASE DrainEvent
  <2>1. /\ bus # <<>> /\ bus' = Tail(bus)
        /\ UNCHANGED <<life, others, missed, lagged, table, focus, conn_scroll, log_scroll,
                       draining, main, anchor, fresh>>
    BY <1>4 DEF DrainEvent
  <2>2. /\ Head(bus) = bus[1] /\ Head(bus) \in Events
        /\ Head(bus).id \in Conns \cup {0}
        /\ Head(bus).type # "Closed" /\ Head(bus).type # "Connect" => Head(bus).id = 0
        /\ Len(bus) \in Nat \ {0} /\ Len(bus') = Len(bus) - 1 /\ Len(bus') <= ChanCap
        /\ bus' \in Seq(Events)
        /\ \A e \in 1 .. Len(bus) - 1 : bus'[e] = bus[e + 1]
    BY <1>1, <2>1, HeadOfBus
  <2>3. Taken(1)
    BY <2>2 DEF Taken
  <2>4. CASE bus[1].type = "Closed"
    <3>1. log' = MarkClosed(log, bus[1].id) /\ UNCHANGED <<added, pushed>>
      BY <1>4, <2>2, <2>4 DEF DrainEvent
    <3>2. StoryInv' /\ LogIsTruthful' /\ log' \in Seq(Lines) /\ Len(log') = Len(log)
      BY <2>1, <2>3, <2>4, <3>1, DimStory
    <3>3. ViewInv'
      BY <2>1, <3>1, <3>2, DimView
    <3>4. TypeOK'
      BY <1>1, <2>1, <2>2, <3>1, <3>2 DEF TypeOK
    <3> QED
      BY <3>2, <3>3, <3>4 DEF IInv, DashboardInv
  <2>5. CASE bus[1].type # "Closed"
    <3> DEFINE id == bus[1].id
    <3>1. AddLine(id) /\ id \in Conns \cup {0} /\ (id # 0 => bus[1].type = "Connect")
      BY <1>4, <2>2, <2>5 DEF DrainEvent
    <3>2. StoryInv' /\ LogIsTruthful'
      BY <2>1, <2>3, <2>5, <3>1, AddLineStory
    <3>3. ViewInv'
      BY <2>1, <3>1, AddLineView
    <3>4. PICK d \in {0, 1} : AddedAs(id, d)
      BY <1>1, <3>1, AddLineStep
    <3>5. added' \in Nat /\ pushed' \in Nat
      <4>1. added \in Nat /\ pushed \in Nat
        BY <1>1 DEF TypeOK
      <4> QED
        BY <3>4, <4>1 DEF AddedAs
    <3>6. log' \in Seq(Lines) /\ Len(log') <= LogCap
      BY <3>4 DEF AddedAs
    <3>7. bus' \in Seq(Events) /\ Len(bus') <= ChanCap
      BY <2>2
    <3>8. TypeOK'
      BY <1>1, <2>1, <3>5, <3>6, <3>7 DEF TypeOK
    <3> QED
      BY <3>2, <3>3, <3>8 DEF IInv, DashboardInv
  <2> QED
    BY <2>4, <2>5
<1>5. CASE EndTick
  <2>1. UNCHANGED <<life, others, bus, missed, lagged, log, focus, conn_scroll, pushed, main>>
    BY <1>5 DEF EndTick, sourceVars
  <2>2. ViewInv' /\ log_scroll' \in Nat
    BY <1>5, EndTickView
  <2>3. /\ draining' \in BOOLEAN /\ fresh' \in BOOLEAN /\ added' \in Nat /\ anchor' \in Nat
        /\ table' \in SUBSET Conns
    BY <1>5 DEF EndTick, Active
  <2>4. TypeOK'
    BY <1>1, <2>1, <2>2, <2>3 DEF TypeOK
  <2> QED
    BY <2>1, <2>2, <2>4, StorySame DEF IInv, DashboardInv
<1> QED
  BY <1>2, <1>3, <1>4, <1>5

LEMMA UserStep ==
  ASSUME IInv, \/ \E key \in KeyActions : HandleKey(key)
               \/ \E height \in Mains : Resize(height)
               \/ UNCHANGED vars
  PROVE  IInv'
<1>1. TypeOK
  BY DEF IInv, DashboardInv
<1>2. ASSUME NEW key \in KeyActions, HandleKey(key) PROVE IInv'
  <2>1. /\ UNCHANGED <<life, others, bus, missed, lagged, table, log, draining, added, pushed,
                       main, anchor, fresh>>
        /\ ApplyAction(key)
    BY <1>2 DEF HandleKey, sourceVars
  <2>2. ViewInv' /\ conn_scroll' \in Nat /\ log_scroll' \in Nat
    BY <1>2, HandleKeyView
  <2>3. focus' \in {"connections", "log"}
    BY <1>1, <2>1 DEF ApplyAction, TypeOK
  <2>4. TypeOK'
    BY <1>1, <2>1, <2>2, <2>3 DEF TypeOK
  <2> QED
    BY <2>1, <2>2, <2>4, StorySame DEF IInv, DashboardInv
<1>3. ASSUME NEW height \in Mains, Resize(height) PROVE IInv'
  <2>1. /\ UNCHANGED <<life, others, bus, missed, lagged, table, log, focus, conn_scroll,
                       log_scroll, draining, added, pushed>>
        /\ main' = height /\ anchor' = 0 /\ fresh' = FALSE
    BY <1>3 DEF Resize, sourceVars, viewVars
  <2>2. ViewInv'
    BY <1>3, ResizeView
  <2>3. main' \in Mains /\ anchor' \in Nat /\ fresh' \in BOOLEAN
    BY <2>1
  <2>4. TypeOK'
    BY <1>1, <2>1, <2>3 DEF TypeOK
  <2> QED
    BY <2>1, <2>2, <2>4, StorySame DEF IInv, DashboardInv
<1>4. CASE UNCHANGED vars
  <2>1. UNCHANGED <<life, others, bus, missed, lagged, table, log, focus, conn_scroll,
                    log_scroll, draining, added, pushed, main, anchor, fresh>>
    BY <1>4 DEF vars, sourceVars, viewVars
  <2>2. TypeOK'
    BY <1>1, <2>1 DEF TypeOK
  <2>3. ViewInv'
    BY <2>1, SourceView
  <2> QED
    BY <2>1, <2>2, <2>3, StorySame DEF IInv, DashboardInv
<1> QED
  BY <1>2, <1>3, <1>4

LEMMA Inductive == IInv /\ [Next]_vars => IInv'
BY SourceStep, TickStep, UserStep DEF Next

LEMMA Always == Spec => []IInv
BY InitInv, Inductive, PTL DEF Spec

\* The log keeps its capacity and tells the truth about connections: a dimmed line is
\* that of one that is over, and, unless the channel lost events, drain_events dims the
\* line of every one that is over, whatever is sent while it runs.
THEOREM DashboardInvariant == Spec => []DashboardInv
<1>1. IInv => DashboardInv
  BY DEF IInv
<1> QED
  BY <1>1, Always, PTL

-----------------------------------------------------------------------------
(* What a step does to the screen.                                         *)

\* "keep their view anchored on the same lines": the arithmetic of tui::run on added,
\* log_scroll and the length of a ring that drops lines leaves the first line on the
\* screen where it was when the tick began.
THEOREM ViewAnchored == Spec => ViewIsAnchored
<1>1. ASSUME IInv, EndTick, log_scroll > 0, anchor > 0
      PROVE  FirstShown' = AtLeast(anchor, OldestLine')
  <2>1. TypeOK /\ ViewInv /\ TypeOK'
    BY <1>1, TickStep DEF IInv, DashboardInv
  <2> DEFINE a == AtLeast(LogAvail, 1)
             n == Len(log)
             o == pushed - n + 1
             line == pushed - added + 1 - a - log_scroll
  <2>2. /\ {log_scroll, added, pushed, anchor} \subseteq Nat /\ LogAvail \in Nat /\ n \in Nat
    BY <2>1, Numbers, Elements
  <2>3. a \in Nat \ {0} /\ LogAvail <= a /\ (LogAvail # a => LogAvail = 0 /\ a = 1)
    BY <2>2 DEF AtLeast
  <2>4. /\ UNCHANGED <<log, pushed, main>>
        /\ log_scroll' = AtMost(log_scroll + added, Monus(n, LogAvail))
    BY <1>1, <2>2 DEF EndTick
  <2>5. LogAvail' = LogAvail /\ OldestLine' = o
    BY <2>4 DEF LogAvail, OldestLine
  <2>6. LogTop' = Monus(Monus(n, a), log_scroll')
    <3>1. LogTop' = Monus(Monus(Len(log'), AtLeast(LogAvail', 1)), log_scroll')
      <4>1. log_scroll' \in Nat
        BY <2>1 DEF TypeOK
      <4>2. LogTop' = WindowStart(n, LogAvail, Monus(Monus(n, a), log_scroll'))
        BY <2>4, <2>5 DEF LogTop
      <4> QED
        BY <2>2, <2>4, <2>5, <4>1, <4>2, SMTT(20) DEF WindowStart, Monus, AtMost, AtLeast
    <3> QED
      BY <2>4, <2>5, <3>1
  <2>7. FirstShown' = o + LogTop'
    BY <2>5 DEF FirstShown
  <2>8. line <= anchor /\ (anchor = line \/ anchor <= o)
    BY <1>1, <2>1 DEF ViewInv, AnchorHolds, AnchorLine, OldestLine, EndTick
  <2>9. \/ a + log_scroll + added <= n /\ LogTop' = n - a - log_scroll - added
        \/ a + log_scroll + added > n /\ LogTop' = 0
    <3> HIDE DEF n, a
    <3> QED
      BY <2>2, <2>3, <2>4, <2>6 DEF Monus, AtMost
  <2> HIDE DEF a, n
  <2>10. FirstShown' = IF o <= line THEN line ELSE o
    BY <2>2, <2>3, <2>7, <2>9
  <2> QED
    BY <2>2, <2>3, <2>5, <2>8, <2>10 DEF AtLeast
<1>2. IInv /\ [Next]_vars =>
        [(EndTick /\ log_scroll > 0 /\ anchor > 0) => FirstShown' = AtLeast(anchor, OldestLine')]_vars
  BY <1>1
<1> QED
  BY <1>2, Always, PTL DEF Spec, ViewIsAnchored

\* The offsets after a key, as apply_action computes them.
LEMMA KeyOffsets ==
  ASSUME IInv, NEW n \in {1, Page}
  PROVE  /\ HandleKey(Up(n)) /\ focus = "log" =>
              log_scroll' = AtMost(log_scroll + n, Monus(Len(log), AtLeast(LogAvail, 1)))
         /\ HandleKey(Down(n)) /\ focus = "log" => log_scroll' = Monus(log_scroll, n)
         /\ HandleKey(Up(n)) /\ focus = "connections" => conn_scroll' = Monus(conn_scroll, n)
         /\ HandleKey(Down(n)) /\ focus = "connections" =>
              conn_scroll' = AtMost(conn_scroll + n, ConnMax)
         /\ HandleKey(Up(n)) \/ HandleKey(Down(n)) => UNCHANGED <<log, table, main>>
<1>1. Up(n).op = "up" /\ Up(n).n = n /\ Down(n).op = "down" /\ Down(n).n = n
  BY DEF Up, Down
<1>2. ASSUME NEW key, HandleKey(key) PROVE ApplyAction(key) /\ UNCHANGED <<log, table, main>>
  BY <1>2 DEF HandleKey
<1>3. ASSUME HandleKey(Up(n)), focus = "log"
      PROVE  log_scroll' = AtMost(log_scroll + n, Monus(Len(log), AtLeast(LogAvail, 1)))
  BY <1>1, <1>2, <1>3 DEF ApplyAction
<1>4. ASSUME HandleKey(Down(n)), focus = "log" PROVE log_scroll' = Monus(log_scroll, n)
  BY <1>1, <1>2, <1>4 DEF ApplyAction
<1>5. ASSUME HandleKey(Up(n)), focus = "connections" PROVE conn_scroll' = Monus(conn_scroll, n)
  BY <1>1, <1>2, <1>5 DEF ApplyAction
<1>6. ASSUME HandleKey(Down(n)), focus = "connections"
      PROVE  conn_scroll' = AtMost(conn_scroll + n, ConnMax)
  BY <1>1, <1>2, <1>6 DEF ApplyAction
<1> QED
  BY <1>2, <1>3, <1>4, <1>5, <1>6

\* "over-scrolling settles at the edge": a key moves what is on the screen by as many
\* rows as it says, or to the edge, after any history of ticks, keys and resizes; only
\* an offset of the table that connections have ended below can swallow a key upwards.
THEOREM KeysMove == Spec => ScrollKeysMove
<1>1. ASSUME IInv, NEW n \in {1, Page}, fresh, LogAvail > 0, focus = "log"
      PROVE  /\ HandleKey(Up(n)) => LogTop' = Monus(LogTop, n)
             /\ HandleKey(Down(n)) => LogTop' = AtMost(LogTop + n, Monus(Len(log), LogAvail))
  <2>1. TypeOK /\ ViewInv
    BY <1>1 DEF IInv, DashboardInv
  <2> DEFINE m == Monus(Len(log), LogAvail)
  <2>2. /\ log_scroll \in Nat /\ LogAvail \in Nat /\ Len(log) \in Nat /\ n \in Nat \ {0}
        /\ AtLeast(LogAvail, 1) = LogAvail
    BY <1>1, <2>1, Numbers, Elements DEF AtLeast
  <2>3. m \in Nat /\ log_scroll <= m /\ LogTop = Monus(m, log_scroll)
    BY <1>1, <2>1, <2>2, Numbers DEF ViewInv, OffsetIsClamped, Monus
  <2>4. ASSUME HandleKey(Up(n)) \/ HandleKey(Down(n)), log_scroll' \in Nat
        PROVE  LogTop' = Monus(m, log_scroll')
    <3>1. UNCHANGED <<log, main>>
      BY <1>1, <2>4, KeyOffsets
    <3>2. LogTop' = WindowStart(Len(log), LogAvail, Monus(m, log_scroll'))
      BY <2>2, <3>1 DEF LogTop, LogAvail
    <3>3. Monus(Len(log), AtLeast(LogAvail, 1)) = m
      BY <2>2
    <3> HIDE DEF m
    <3> QED
      BY <2>3, <2>4, <3>2, <3>3 DEF WindowStart, AtMost, Monus
  <2>5. ASSUME HandleKey(Up(n)) PROVE LogTop' = Monus(LogTop, n)
    <3>1. log_scroll' = AtMost(log_scroll + n, m)
      BY <1>1, <2>2, <2>5, KeyOffsets
    <3> HIDE DEF m
    <3>2. log_scroll' \in Nat
      BY <2>2, <2>3, <3>1 DEF AtMost
    <3> QED
      BY <2>2, <2>3, <2>4, <2>5, <3>1, <3>2 DEF AtMost, Monus
  <2>6. ASSUME HandleKey(Down(n)) PROVE LogTop' = AtMost(LogTop + n, m)
    <3>1. log_scroll' = Monus(log_scroll, n)
      BY <1>1, <2>6, KeyOffsets
    <3> HIDE DEF m
    <3>2. log_scroll' \in Nat
      BY <2>2, <2>3, <3>1 DEF Monus
    <3> QED
      BY <2>2, <2>3, <2>4, <2>6, <3>1, <3>2 DEF AtMost, Monus
  <2> QED
    BY <2>5, <2>6
<1>2. ASSUME IInv, NEW n \in {1, Page}, ConnAvail > 0, focus = "connections"
      PROVE  /\ HandleKey(Down(n)) => ConnTop' = AtMost(ConnTop + n, ConnMax)
             /\ HandleKey(Up(n)) => /\ ConnTop' \in Monus(ConnTop, n) .. ConnTop
                                    /\ conn_scroll <= ConnMax => ConnTop' = Monus(ConnTop, n)
  <2>1. TypeOK
    BY <1>2 DEF IInv, DashboardInv
  <2>2. conn_scroll \in Nat /\ ConnAvail \in Nat /\ n \in Nat \ {0}
    BY <1>2, <2>1, Numbers
  <2>3. ConnMax \in Nat
    BY <2>1, TableSize
  <2>4. ConnTop = AtMost(conn_scroll, ConnMax)
    BY DEF ConnTop, ConnMax, WindowStart
  <2>5. ASSUME HandleKey(Up(n)) \/ HandleKey(Down(n))
        PROVE  ConnTop' = AtMost(conn_scroll', ConnMax)
    <3>1. UNCHANGED <<table, main>>
      BY <1>2, <2>5, KeyOffsets
    <3> QED
      BY <3>1 DEF ConnTop, ConnMax, WindowStart, ConnAvail
  <2>6. ASSUME HandleKey(Down(n)) PROVE ConnTop' = AtMost(ConnTop + n, ConnMax)
    <3>1. conn_scroll' = AtMost(conn_scroll + n, ConnMax)
      BY <1>2, <2>6, KeyOffsets
    <3> QED
      BY <2>2, <2>3, <2>4, <2>5, <2>6, <3>1 DEF AtMost
  <2>7. ASSUME HandleKey(Up(n))
        PROVE  /\ ConnTop' \in Monus(ConnTop, n) .. ConnTop
               /\ conn_scroll <= ConnMax => ConnTop' = Monus(ConnTop, n)
    <3>1. conn_scroll' = Monus(conn_scroll, n)
      BY <1>2, <2>7, KeyOffsets
    <3> QED
      BY <2>2, <2>3, <2>4, <2>5, <2>7, <3>1 DEF AtMost, Monus
  <2> QED
    BY <2>6, <2>7
<1> DEFINE Moved == \A n \in {1, Page} :
       /\ (fresh /\ LogAvail > 0 /\ focus = "log") =>
            /\ HandleKey(Up(n)) => LogTop' = Monus(LogTop, n)
            /\ HandleKey(Down(n)) => LogTop' = AtMost(LogTop + n, Monus(Len(log), LogAvail))
       /\ (ConnAvail > 0 /\ focus = "connections") =>
            /\ HandleKey(Down(n)) => ConnTop' = AtMost(ConnTop + n, ConnMax)
            /\ HandleKey(Up(n)) => /\ ConnTop' \in Monus(ConnTop, n) .. ConnTop
                                   /\ conn_scroll <= ConnMax => ConnTop' = Monus(ConnTop, n)
<1>3. IInv => Moved
  <2> SUFFICES ASSUME IInv, NEW n \in {1, Page}
               PROVE  /\ (fresh /\ LogAvail > 0 /\ focus = "log") =>
                           /\ HandleKey(Up(n)) => LogTop' = Monus(LogTop, n)
                           /\ HandleKey(Down(n)) =>
                                LogTop' = AtMost(LogTop + n, Monus(Len(log), LogAvail))
                      /\ (ConnAvail > 0 /\ focus = "connections") =>
                           /\ HandleKey(Down(n)) => ConnTop' = AtMost(ConnTop + n, ConnMax)
                           /\ HandleKey(Up(n)) =>
                                /\ ConnTop' \in Monus(ConnTop, n) .. ConnTop
                                /\ conn_scroll <= ConnMax => ConnTop' = Monus(ConnTop, n)
    OBVIOUS
  <2> QED
    BY <1>1, <1>2, Zenon
<1>4. IInv /\ [Next]_vars => [Moved]_vars
  BY <1>3
<1> QED
  BY <1>4, Always, PTL DEF Spec, ScrollKeysMove
=============================================================================
