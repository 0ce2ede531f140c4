------------------------------- MODULE Process -------------------------------
(***************************************************************************)
(* The life of a server process: main and run_headless of src/src/main.rs, *)
(* from the moment everything is spawned until the process exits.          *)
(*                                                                         *)
(* The question is who waits for whom at shutdown.  The front end (the     *)
(* dashboard, or headless mode) ends first; the dashboard waits for the    *)
(* thread that reads its keys (src/src/tui/mod.rs), headless mode for the  *)
(* task that prints events, which ends when the event bus is closed, that  *)
(* is when nobody holds a sender; main finally waits for the server for a  *)
(* bounded time.  The server, its connections and the admin and mock       *)
(* tasks are reduced to whether they run, and so hold a sender.            *)
(***************************************************************************)
EXTENDS Naturals

CONSTANT Conns   \* connection tasks

VARIABLES
  main,      \* front, join_reader, await_drain, grace, exited
  shutdown,  \* the value of the watch channel
  server,    \* the accept loop: serving, draining, returned
  inflight,  \* the connection tasks that are alive
  admin,     \* the admin endpoint's task is running
  mock,      \* the synthetic data generator's task is running
  drain,     \* the event printer of headless mode: none, running, ended
  timer,     \* SHUTDOWN_GRACE has elapsed
  reader,    \* the dashboard's key reader thread: none, running, gone
  stop,      \* reader_stop
  quit       \* KeyAction::Quit is in the channel from the reader

tuiVars == <<reader, stop, quit>>
lifeVars == <<main, shutdown, server, inflight, admin, mock, drain, timer, tuiVars>>

\* Everything is spawned; headless mode has started its printer as well.
Spawned ==
  /\ main = "front"
  /\ shutdown = FALSE
  /\ server = "serving"
  /\ inflight = {}
  /\ admin \in BOOLEAN
  /\ mock \in BOOLEAN
  /\ timer = FALSE
  /\ stop = FALSE
  /\ quit = FALSE

InitTui == Spawned /\ drain = "none" /\ reader = "running"
InitHeadless == Spawned /\ drain = "running" /\ reader = "none"

\* Who holds a broadcast::Sender<Event>: main's own events_tx lives until main
\* returns; the accept loop, each connection, the admin endpoint and the mock
\* generator own a clone for as long as they run.
Senders ==
  (IF main = "exited" THEN {} ELSE {"main"})
    \cup (IF server = "returned" THEN {} ELSE {"server"})
    \cup (IF admin THEN {"admin"} ELSE {})
    \cup (IF mock THEN {"mock"} ELSE {})
    \cup inflight

-----------------------------------------------------------------------------
(* The tasks.  All of them are gone once the process has exited.           *)

ConnStarts(c) ==
  /\ main # "exited"
  /\ server = "serving"
  /\ c \notin inflight
  /\ inflight' = inflight \cup {c}
  /\ UNCHANGED <<main, shutdown, server, admin, mock, drain, timer, tuiVars>>

ConnEnds(c) ==
  /\ main # "exited"
  /\ c \in inflight
  /\ inflight' = inflight \ {c}
  /\ UNCHANGED <<main, shutdown, server, admin, mock, drain, timer, tuiVars>>

ServerObservesShutdown ==
  /\ main # "exited"
  /\ shutdown
  /\ server = "serving"
  /\ server' = "draining"
  /\ UNCHANGED <<main, shutdown, inflight, admin, mock, drain, timer, tuiVars>>

ServerReturns ==
  /\ main # "exited"
  /\ server = "draining"
  /\ inflight = {}
  /\ server' = "returned"
  /\ UNCHANGED <<main, shutdown, inflight, admin, mock, drain, timer, tuiVars>>

\* admin::serve ends at shutdown, or at once when the socket cannot be claimed.
AdminEnds ==
  /\ main # "exited"
  /\ admin
  /\ admin' = FALSE
  /\ UNCHANGED <<main, shutdown, server, inflight, mock, drain, timer, tuiVars>>

MockEnds ==
  /\ main # "exited"
  /\ shutdown
  /\ mock
  /\ mock' = FALSE
  /\ UNCHANGED <<main, shutdown, server, inflight, admin, drain, timer, tuiVars>>

\* The printer receives Closed: no sender is left.
DrainEnds ==
  /\ main # "exited"
  /\ drain = "running"
  /\ Senders = {}
  /\ drain' = "ended"
  /\ UNCHANGED <<main, shutdown, server, inflight, admin, mock, timer, tuiVars>>

-----------------------------------------------------------------------------
(* main.                                                                   *)

\* Headless: Ctrl-C arrived, shutdown is sent, and the printer is awaited.
CtrlC ==
  /\ main = "front"
  /\ shutdown' = TRUE
  /\ main' = "await_drain"
  /\ UNCHANGED <<server, inflight, admin, mock, drain, timer, tuiVars>>

HeadlessReturns ==
  /\ main = "await_drain"
  /\ drain = "ended"
  /\ shutdown' = TRUE
  /\ main' = "grace"
  /\ UNCHANGED <<server, inflight, admin, mock, drain, timer, tuiVars>>

-----------------------------------------------------------------------------
(* The end of the dashboard: tui::run and its reader thread.  Nobody else  *)
(* sends shutdown in this process while the dashboard runs, so the loop's  *)
(* shutdown branch is not taken; in an attached dashboard it is (Attach).  *)

taskVars == <<server, inflight, admin, mock, drain, timer>>

\* The user presses q or Ctrl-C; the key waits in an unbounded channel.
ReaderForwardsQuit ==
  /\ main \in {"front", "join_reader"}
  /\ reader = "running"
  /\ quit' = TRUE
  /\ UNCHANGED <<main, shutdown, taskVars, reader, stop>>

\* A poll without a key ends, and the flag is set.
ReaderStops ==
  /\ main # "exited"
  /\ reader = "running"
  /\ stop
  /\ reader' = "gone"
  /\ UNCHANGED <<main, shutdown, taskVars, stop, quit>>

\* poll fails, or a key cannot be sent because run has returned.
ReaderFails ==
  /\ main # "exited"
  /\ reader = "running"
  /\ reader' = "gone"
  /\ UNCHANGED <<main, shutdown, taskVars, stop, quit>>

\* The loop takes the quit key: it sends shutdown and leaves.
TuiQuit ==
  /\ main = "front"
  /\ quit
  /\ quit' = FALSE
  /\ shutdown' = TRUE
  /\ main' = "join_reader"
  /\ stop' = TRUE
  /\ UNCHANGED <<taskVars, reader>>

\* The key channel is closed and empty: the loop leaves and sends nothing.
TuiReaderLost ==
  /\ main = "front"
  /\ reader = "gone"
  /\ ~ quit
  /\ main' = "join_reader"
  /\ stop' = TRUE
  /\ UNCHANGED <<shutdown, taskVars, reader, quit>>

\* Setting the terminal up, reading its size or drawing fails: run returns at
\* once, past the join, and leaves the reader to itself.
TuiFails ==
  /\ main = "front"
  /\ shutdown' = TRUE
  /\ main' = "grace"
  /\ UNCHANGED <<taskVars, tuiVars>>

\* The reader was joined and run returns; main sends shutdown itself, whether or
\* not the dashboard did.
TuiReturns ==
  /\ main = "join_reader"
  /\ reader = "gone"
  /\ shutdown' = TRUE
  /\ main' = "grace"
  /\ UNCHANGED <<taskVars, tuiVars>>

-----------------------------------------------------------------------------
(* The grace period.                                                       *)

GraceElapses ==
  /\ main = "grace"
  /\ ~ timer
  /\ timer' = TRUE
  /\ UNCHANGED <<main, shutdown, server, inflight, admin, mock, drain, tuiVars>>

\* Variant: main does not wait for the server.
ExitAtOnce ==
  /\ main = "grace"
  /\ main' = "exited"
  /\ UNCHANGED <<shutdown, server, inflight, admin, mock, drain, timer, tuiVars>>

\* Variant: main waits for the server without a time limit.
ExitUnbounded ==
  /\ main = "grace"
  /\ server = "returned"
  /\ main' = "exited"
  /\ UNCHANGED <<shutdown, server, inflight, admin, mock, drain, timer, tuiVars>>

\* timeout(SHUTDOWN_GRACE, server_handle) is over.
MainExits ==
  /\ main = "grace"
  /\ server = "returned" \/ timer
  /\ main' = "exited"
  /\ UNCHANGED <<shutdown, server, inflight, admin, mock, drain, timer, tuiVars>>

Tasks ==
  \/ \E c \in Conns : ConnStarts(c) \/ ConnEnds(c)
  \/ ServerObservesShutdown \/ ServerReturns \/ AdminEnds \/ MockEnds

Tui ==
  \/ ReaderForwardsQuit \/ ReaderStops \/ ReaderFails
  \/ TuiQuit \/ TuiReaderLost \/ TuiFails \/ TuiReturns

NextTui == Tasks \/ Tui \/ GraceElapses \/ MainExits
NextHeadless == Tasks \/ CtrlC \/ DrainEnds \/ HeadlessReturns \/ GraceElapses \/ MainExits

\* Tasks and main make progress, the timer fires, and a poll for keys ends after
\* INPUT_POLL.  Connections are not
\* assumed to end by themselves: the grace period is there for those that do not.
Fairness ==
  /\ WF_lifeVars(ServerObservesShutdown) /\ WF_lifeVars(ServerReturns)
  /\ WF_lifeVars(AdminEnds /\ shutdown) /\ WF_lifeVars(MockEnds) /\ WF_lifeVars(DrainEnds)
  /\ WF_lifeVars(HeadlessReturns) /\ WF_lifeVars(GraceElapses) /\ WF_lifeVars(MainExits)
  /\ WF_lifeVars(ReaderStops)
  /\ WF_lifeVars(TuiQuit) /\ WF_lifeVars(TuiReaderLost) /\ WF_lifeVars(TuiReturns)

SpecTui == InitTui /\ [][NextTui]_lifeVars /\ Fairness
SpecHeadless == InitHeadless /\ [][NextHeadless]_lifeVars /\ Fairness

-----------------------------------------------------------------------------
(* Properties.                                                             *)

\* Every variable stays in its domain.
LifeTypeOK ==
  /\ main \in {"front", "join_reader", "await_drain", "grace", "exited"}
  /\ shutdown \in BOOLEAN /\ admin \in BOOLEAN /\ mock \in BOOLEAN /\ timer \in BOOLEAN
  /\ server \in {"serving", "draining", "returned"}
  /\ inflight \in SUBSET Conns
  /\ drain \in {"none", "running", "ended"}
  /\ reader \in {"none", "running", "gone"}
  /\ stop \in BOOLEAN /\ quit \in BOOLEAN

\* "bounded by the grace period so we never hang forever": once a quit key was read
\* or the front end is over the process exits, even if some connection never ends
\* and although the dashboard waits for a thread that sits in a poll.
ShutdownCompletes == quit \/ main # "front" ~> main = "exited"

\* The process never exits under connections that could still have been drained:
\* either all of them are over, or they were given the whole grace period.
OrderlyExit ==
  main = "exited" => shutdown /\ (timer \/ (server = "returned" /\ inflight = {}))

\* The process state is well-formed, and OrderlyExit: main leaves no connection behind
\* that did not have its grace period.
ProcessInv == LifeTypeOK /\ OrderlyExit

\* "The drain task will exit once the server drops its event senders."
DrainTaskExits ==
  (server = "returned" /\ inflight = {}) ~> drain # "running"
=============================================================================
