----------------------------- MODULE Dashboard -----------------------------
(***************************************************************************)
(* The dashboard of src/src/tui/mod.rs while it runs, and the state its    *)
(* panels are drawn from (src/src/tui/widgets.rs): the log ring, the two   *)
(* scroll offsets, and the connections and events behind them.  How it     *)
(* reads keys and ends is part of Process.                                 *)
(*                                                                         *)
(* A tick takes the events off the channel one by one, and tasks on other  *)
(* threads may send more, or the terminal change, between any two of them. *)
(* Rows are drawn from state at the end of a tick or a key, so what the    *)
(* user sees is a function of it between them.  Texts, colours, rates,     *)
(* ages and the order of the table's rows are left out; a log line is the  *)
(* connection it speaks of, or 0, and whether it is dimmed.                *)
(***************************************************************************)
EXTENDS Integers, FiniteSets, Sequences

CONSTANTS
  MaxConns,    \* bound: connections are 1 .. MaxConns
  MaxOthers,   \* bound: how many events without a connection are sent
  ChanCap,     \* capacity of the event channel
  LogCap,      \* LOG_CAPACITY
  Page,        \* PAGE
  Mains        \* possible heights of the row that holds table and log

ASSUME DashboardAssumption ==
  /\ {MaxConns, MaxOthers} \subseteq Nat
  /\ {ChanCap, LogCap, Page} \subseteq Nat \ {0}
  /\ Mains \subseteq Nat

VARIABLES
  life,         \* each connection: none, registered, announced, removed, closed
  others,       \* events without a connection sent so far
  bus, missed,  \* the events retained for the receiver, and whether it lost others
  table,        \* state.connections
  log,          \* state.log
  focus,        \* state.focus
  conn_scroll, log_scroll,
  draining,     \* a tick is under way
  added,        \* drain_events: the lines this tick has appended so far
  main,         \* the current height of the main row
  pushed,       \* history: lines ever pushed to the log
  lagged,       \* history: events were lost
  anchor,       \* history: the first line shown when the tick began; 0 if none did, or
                \* the terminal has changed since
  fresh         \* history: the last tick saw the current terminal size

sourceVars == <<life, others, bus, missed, lagged>>
viewVars == <<table, log, focus, conn_scroll, log_scroll, draining, added, pushed>>
vars == <<sourceVars, viewVars, main, anchor, fresh>>

Conns == 1 .. MaxConns

Up(n) == [op |-> "up", n |-> n]
Down(n) == [op |-> "down", n |-> n]
CycleSort == [op |-> "sort", n |-> 0]
SwitchFocus == [op |-> "focus", n |-> 0]

\* map_key: what the keys the dashboard knows are turned into.
KeyActions == {Up(1), Up(Page), Down(1), Down(Page), CycleSort, SwitchFocus}

Monus(m, n) == IF m < n THEN 0 ELSE m - n
AtMost(m, n) == IF m < n THEN m ELSE n
AtLeast(m, n) == IF m < n THEN n ELSE m

\* DashboardState::new.
Init ==
  /\ life = [c \in Conns |-> "none"]
  /\ others = 0
  /\ bus = <<>>
  /\ missed = FALSE
  /\ lagged = FALSE
  /\ table = {}
  /\ log = <<>>
  /\ focus = "connections"
  /\ conn_scroll = 0
  /\ log_scroll = 0
  /\ draining = FALSE
  /\ added = 0
  /\ pushed = 0
  /\ main \in Mains
  /\ anchor = 0
  /\ fresh = FALSE

-----------------------------------------------------------------------------
(* What the dashboard shows.                                               *)

\* panel_avail: the table loses two borders and a header, the log two borders.
ConnAvail == Monus(main, 3)
LogAvail == Monus(main, 2)

\* scroll_window: the first row shown, counted from zero.
WindowStart(total, avail, offset) == AtMost(offset, Monus(total, AtLeast(avail, 1)))

\* render_connections: the table's offset counts from its first row.
ConnMax == Monus(Cardinality(table), AtLeast(ConnAvail, 1))
ConnTop == WindowStart(Cardinality(table), ConnAvail, conn_scroll)

\* render_log: the log's offset counts from the newest line.
LogTop ==
  LET max_off == Monus(Len(log), AtLeast(LogAvail, 1))
  IN  WindowStart(Len(log), LogAvail, Monus(max_off, log_scroll))

\* The numbers of the oldest line in the log and of the first line shown, counting
\* every line ever pushed.
OldestLine == pushed - Len(log) + 1
FirstShown == OldestLine + LogTop

-----------------------------------------------------------------------------
(* The server's side: the registry and the event channel.                  *)

\* events.send: over the capacity, the receiver loses the oldest event.
Send(event) ==
  LET full == Len(bus) = ChanCap IN
  /\ bus' = Append(IF full THEN Tail(bus) ELSE bus, event)
  /\ missed' = (missed \/ full)
  /\ lagged' = (lagged \/ full)

\* register, the Connect event, unregister and the Closed event are four steps
\* of the connection's task, and a tick may fall between any two of them.
ConnRegistered(c) ==
  /\ life[c] = "none"
  /\ life' = [life EXCEPT ![c] = "registered"]
  /\ UNCHANGED <<others, bus, missed, lagged, viewVars, main, anchor, fresh>>

ConnAnnounced(c) ==
  /\ life[c] = "registered"
  /\ life' = [life EXCEPT ![c] = "announced"]
  /\ Send([type |-> "Connect", id |-> c])
  /\ UNCHANGED <<others, viewVars, main, anchor, fresh>>

ConnUnregistered(c) ==
  /\ life[c] = "announced"
  /\ life' = [life EXCEPT ![c] = "removed"]
  /\ UNCHANGED <<others, bus, missed, lagged, viewVars, main, anchor, fresh>>

ConnClosed(c) ==
  /\ life[c] = "removed"
  /\ life' = [life EXCEPT ![c] = "closed"]
  /\ Send([type |-> "Closed", id |-> c])
  /\ UNCHANGED <<others, viewVars, main, anchor, fresh>>

\* Error, Auth and Log events.
OtherEvent ==
  /\ others < MaxOthers
  /\ others' = others + 1
  /\ Send([type |-> "Other", id |-> 0])
  /\ UNCHANGED <<life, viewVars, main, anchor, fresh>>

Active == {c \in Conns : life[c] \in {"registered", "announced"}}

-----------------------------------------------------------------------------
(* The log ring.                                                           *)

\* LogRing::push drops the oldest line at capacity.
Push(lines, line) ==
  Append(IF Len(lines) = LogCap THEN Tail(lines) ELSE lines, line)

\* Variant: the newest line that is not dimmed yet is taken, whoever it is of.
MarkClosedNewest(lines, c) ==
  LET own == {i \in DOMAIN lines : lines[i].id # 0 /\ ~ lines[i].dim}
  IN  IF own = {} THEN lines
      ELSE LET last == CHOOSE i \in own : \A j \in own : j <= i
           IN  [lines EXCEPT ![last].dim = TRUE]

\* LogRing::mark_closed dims the newest line of c that is not dimmed yet.
MarkClosed(lines, c) ==
  LET own == {i \in DOMAIN lines : lines[i].id = c /\ ~ lines[i].dim}
  IN  IF own = {} THEN lines
      ELSE LET last == CHOOSE i \in own : \A j \in own : j <= i
           IN  [lines EXCEPT ![last].dim = TRUE]

-----------------------------------------------------------------------------
(* The loop of tui::run.                                                   *)

\* A tick begins.
StartTick ==
  /\ ~ draining
  /\ draining' = TRUE
  /\ added' = 0
  /\ anchor' = FirstShown
  /\ UNCHANGED <<sourceVars, table, log, focus, conn_scroll, log_scroll, pushed, main, fresh>>

\* A line that drain_events counts.
AddLine(id) ==
  /\ log' = Push(log, [id |-> id, dim |-> FALSE])
  /\ added' = added + 1
  /\ pushed' = pushed + 1

\* drain_events, try_recv returns Lagged: a line tells how many events were lost.
DrainLagged ==
  /\ draining /\ missed
  /\ missed' = FALSE
  /\ AddLine(0)
  /\ UNCHANGED <<life, others, bus, lagged, table, focus, conn_scroll, log_scroll,
                 draining, main, anchor, fresh>>

\* Variant: a close counts as a line although it only dims one.
DrainEventCountingCloses ==
  /\ draining /\ ~ missed /\ bus # <<>>
  /\ bus' = Tail(bus)
  /\ IF Head(bus).type = "Closed"
       THEN /\ log' = MarkClosed(log, Head(bus).id)
            /\ added' = added + 1
            /\ UNCHANGED pushed
       ELSE AddLine(Head(bus).id)
  /\ UNCHANGED <<life, others, missed, lagged, table, focus, conn_scroll, log_scroll,
                 draining, main, anchor, fresh>>

\* drain_events, try_recv returns an event: a close dims a line, another adds one.
DrainEvent ==
  /\ draining /\ ~ missed /\ bus # <<>>
  /\ bus' = Tail(bus)
  /\ IF Head(bus).type = "Closed"
       THEN log' = MarkClosed(log, Head(bus).id) /\ UNCHANGED <<added, pushed>>
       ELSE AddLine(Head(bus).id)
  /\ UNCHANGED <<life, others, missed, lagged, table, focus, conn_scroll, log_scroll,
                 draining, main, anchor, fresh>>

\* drain_events found the channel empty: keep a scrolled-up log where it is, take the
\* rows of the table anew, draw.  conn_scroll is left as it is.
EndTick ==
  /\ draining /\ ~ missed /\ bus = <<>>
  /\ log_scroll' = IF log_scroll = 0
                     THEN 0
                     ELSE AtMost(log_scroll + added, Monus(Len(log), LogAvail))
  /\ table' = Active
  /\ draining' = FALSE
  /\ added' = 0
  /\ anchor' = 0
  /\ fresh' = TRUE
  /\ UNCHANGED <<sourceVars, log, focus, conn_scroll, pushed, main>>

\* Variant: the log's offset is not clamped.
ApplyActionUnclamped(key) ==
  /\ focus' = IF key.op # "focus" THEN focus
              ELSE IF focus = "connections" THEN "log" ELSE "connections"
  /\ conn_scroll' = CASE key.op = "sort" -> 0
                      [] key.op = "up" /\ focus = "connections" ->
                           Monus(conn_scroll, key.n)
                      [] key.op = "down" /\ focus = "connections" ->
                           AtMost(conn_scroll + key.n, ConnMax)
                      [] OTHER -> conn_scroll
  /\ log_scroll' = CASE key.op = "up" /\ focus = "log" -> log_scroll + key.n
                     [] key.op = "down" /\ focus = "log" ->
                          Monus(log_scroll, key.n)
                     [] OTHER -> log_scroll

\* apply_action.
ApplyAction(key) ==
  LET log_max == Monus(Len(log), AtLeast(LogAvail, 1)) IN
  /\ focus' = IF key.op # "focus" THEN focus
              ELSE IF focus = "connections" THEN "log" ELSE "connections"
  /\ conn_scroll' = CASE key.op = "sort" -> 0
                      [] key.op = "up" /\ focus = "connections" ->
                           Monus(conn_scroll, key.n)
                      [] key.op = "down" /\ focus = "connections" ->
                           AtMost(conn_scroll + key.n, ConnMax)
                      [] OTHER -> conn_scroll
  /\ log_scroll' = CASE key.op = "up" /\ focus = "log" ->
                          AtMost(log_scroll + key.n, log_max)
                     [] key.op = "down" /\ focus = "log" ->
                          Monus(log_scroll, key.n)
                     [] OTHER -> log_scroll

\* A key other than quit arrives from the reader thread, and is handled between ticks.
HandleKey(key) ==
  /\ ~ draining
  /\ ApplyAction(key)
  /\ UNCHANGED <<sourceVars, table, log, draining, added, pushed, main, anchor, fresh>>

\* The terminal changes its size; the loop learns of it when it next asks.
Resize(height) ==
  /\ height # main
  /\ main' = height
  /\ anchor' = 0
  /\ fresh' = FALSE
  /\ UNCHANGED <<sourceVars, viewVars>>

Source ==
  \/ OtherEvent
  \/ \E c \in Conns :
       ConnRegistered(c) \/ ConnAnnounced(c) \/ ConnUnregistered(c) \/ ConnClosed(c)

Next ==
  \/ Source
  \/ StartTick \/ DrainLagged \/ DrainEvent \/ EndTick
  \/ \E key \in KeyActions : HandleKey(key)
  \/ \E height \in Mains : Resize(height)

Spec == Init /\ [][Next]_vars

-----------------------------------------------------------------------------
(* Properties.                                                             *)

Events == [type : {"Connect", "Closed"}, id : Conns] \cup [type : {"Other"}, id : {0}]
Lines == [id : Conns \cup {0}, dim : BOOLEAN]

\* Every variable stays in its domain; the log never outgrows LOG_CAPACITY.
TypeOK ==
  /\ life \in [Conns -> {"none", "registered", "announced", "removed", "closed"}]
  /\ others \in 0 .. MaxOthers
  /\ bus \in Seq(Events) /\ Len(bus) <= ChanCap
  /\ table \in SUBSET Conns
  /\ log \in Seq(Lines) /\ Len(log) <= LogCap
  /\ focus \in {"connections", "log"}
  /\ {conn_scroll, log_scroll, added, pushed, anchor} \subseteq Nat
  /\ main \in Mains
  /\ {missed, lagged, draining, fresh} \subseteq BOOLEAN

\* The log tells the truth about connections: a dimmed line is that of a connection
\* that is over, and as long as no event was lost, a line that is not dimmed belongs
\* to a connection that is not over or whose Closed event is still to be drained.
LogIsTruthful ==
  \A i \in DOMAIN log :
    log[i].id # 0 =>
      IF log[i].dim
        THEN life[log[i].id] = "closed"
        ELSE \/ lagged
             \/ life[log[i].id] # "closed"
             \/ \E e \in DOMAIN bus : bus[e] = [type |-> "Closed", id |-> log[i].id]

\* Log and channel keep their capacities, and LogIsTruthful: dimmed lines are those of
\* connections that are over.
DashboardInv == TypeOK /\ LogIsTruthful

\* "keep their view anchored on the same lines": new lines do not move the view of
\* a user who has scrolled up, whatever mix of new lines, closes and lost events a
\* tick brings and whatever is sent while it drains them, until the line at its top
\* falls out of the ring.
ViewIsAnchored ==
  [][(EndTick /\ log_scroll > 0 /\ anchor > 0) =>
        FirstShown' = AtLeast(anchor, OldestLine')]_vars

\* "over-scrolling settles at the edge".  A key moves the panel in focus by as many
\* rows as it says, or to the edge, once a tick has seen the terminal's size: the log in
\* both directions, and the table downwards.  conn_scroll is not clamped when connections
\* end, so a key upwards may be swallowed by an offset the table has shrunk below; it
\* never moves the wrong way or too far, and without such an offset moves exactly.
ScrollKeysMove ==
  [][\A n \in {1, Page} :
       /\ (fresh /\ LogAvail > 0 /\ focus = "log") =>
            /\ HandleKey(Up(n)) => LogTop' = Monus(LogTop, n)
            /\ HandleKey(Down(n)) => LogTop' = AtMost(LogTop + n, Monus(Len(log), LogAvail))
       /\ (ConnAvail > 0 /\ focus = "connections") =>
            /\ HandleKey(Down(n)) => ConnTop' = AtMost(ConnTop + n, ConnMax)
            /\ HandleKey(Up(n)) => /\ ConnTop' \in Monus(ConnTop, n) .. ConnTop
                                   /\ conn_scroll <= ConnMax => ConnTop' = Monus(ConnTop, n)]_vars
=============================================================================
