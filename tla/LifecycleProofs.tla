--------------------------- MODULE LifecycleProofs ---------------------------
(***************************************************************************)
(* Proofs about how a server process comes and goes.  First AdminSocket,   *)
(* for any set of processes, any leftover at the path and any number of    *)
(* deaths: SocketInv is inductive together with the type invariant, and    *)
(* the other results follow from it.  Then Process, for any set of         *)
(* connections.                                                            *)
(***************************************************************************)
EXTENDS AdminSocket, Process, TLAPS

Inv == TypeOK /\ SocketInv

\* The invariant holds at the start, whatever an earlier run left at the path.
LEMMA InitInv == Init => Inv
  BY SocketAssumption DEF Init, Inv, TypeOK, SocketInv, States, Holding, NotAProcess

\* One step of one process preserves the invariant.
LEMMA StepInv ==
  ASSUME Inv, NEW p \in Procs,
         Start(p) \/ Claim(p) \/ IoError(p) \/ Stop(p) \/ WindDown(p)
           \/ Exit(p) \/ Die(p)
  PROVE  Inv'
<1> USE SocketAssumption DEF Inv, TypeOK, SocketInv, States, Holding, NotAProcess, Goto
<1>1. CASE Start(p)
  BY <1>1 DEF Start
<1>2. CASE Probe1(p)
  BY <1>2 DEF Probe1, IsLive
<1>3. CASE TakeLock(p)
  BY <1>3 DEF TakeLock
<1>4. CASE LockRefused(p)
  BY <1>4 DEF LockRefused
<1>5. CASE Probe2(p)
  BY <1>5 DEF Probe2, IsLive
<1>6. CASE Unlink(p)
  BY <1>6 DEF Unlink
<1>7. CASE Bind(p)
  BY <1>7 DEF Bind
<1>8. CASE SetPermissions(p)
  BY <1>8 DEF SetPermissions
<1>9. CASE IoError(p)
  BY <1>9 DEF IoError
<1>10. CASE Stop(p)
  BY <1>10 DEF Stop
<1>11. CASE FailClose(p)
  BY <1>11 DEF FailClose, CloseListener
<1>12. CASE FailUnlock(p)
  BY <1>12 DEF FailUnlock
<1>13. CASE RemoveFile(p)
  BY <1>13 DEF RemoveFile
<1>21. CASE RemoveFails(p)
  BY <1>21 DEF RemoveFails
<1>14. CASE DropLock(p)
  BY <1>14 DEF DropLock
<1>15. CASE DropListener(p)
  BY <1>15 DEF DropListener, CloseListener
<1>16. CASE Exit(p)
  BY <1>16 DEF Exit
<1>17. CASE Die(p)
  BY <1>17 DEF Die
<1>18. CASE KernelUnlocks(p)
  BY <1>18 DEF KernelUnlocks
<1>19. CASE KernelCloses(p)
  BY <1>19 DEF KernelCloses, CloseListener
<1>20. CASE Gone(p)
  BY <1>20 DEF Gone
<1> QED
  BY <1>1, <1>2, <1>3, <1>4, <1>5, <1>6, <1>7, <1>8, <1>9, <1>10, <1>11, <1>12,
     <1>13, <1>14, <1>15, <1>16, <1>17, <1>18, <1>19, <1>20, <1>21 DEF Claim, WindDown

\* Every step of the system preserves the invariant.
LEMMA NextInv == Inv /\ [Next]_vars => Inv'
<1> SUFFICES ASSUME Inv, [Next]_vars PROVE Inv'
  OBVIOUS
<1>1. CASE UNCHANGED vars
  BY <1>1 DEF vars, Inv, TypeOK, SocketInv
<1>2. CASE Next
  BY <1>2, StepInv DEF Next
<1> QED
  BY <1>1, <1>2

\* The types and the inductive invariant hold in every state of every behaviour.
THEOREM AdminSocketInvariant == Spec => [](TypeOK /\ SocketInv)
<1>1. Spec => []Inv
  BY InitInv, NextInv, PTL DEF Spec
<1> QED
  BY <1>1, PTL DEF Inv

\* The process that serves is the one reachable at the socket path, for any number
\* of competing processes and any number of deaths and restarts.
THEOREM ServingReachable == Spec => []ServingIsReachable
<1>1. Inv => ServingIsReachable
  BY DEF Inv, SocketInv, ServingIsReachable
<1> QED
  BY <1>1, InitInv, NextInv, PTL DEF Spec

\* No process ever takes the socket of another away: claim_socket's unlink and
\* serve's final remove_file hit only a stale socket or the process's own.
THEOREM LivePeerUndisturbed == Spec => NeverDisturbsLivePeer
<1> DEFINE Undisturbed ==
      \A p \in Procs : (path = p /\ path' # p)
        => pc[p] \in {"stopping", "unlocked", "failing", "dying"}
<1>1. ASSUME Inv, [Next]_vars PROVE [Undisturbed]_vars
  <2>1. CASE UNCHANGED vars
    BY <2>1 DEF vars
  <2>2. CASE Next
    <3>1. PICK q \in Procs : Start(q) \/ Claim(q) \/ IoError(q) \/ Stop(q)
                                \/ WindDown(q) \/ Exit(q) \/ Die(q)
      BY <2>2 DEF Next
    <3> USE <1>1, SocketAssumption DEF Inv, TypeOK, SocketInv, Holding, NotAProcess, Goto
    <3>2. CASE Unlink(q)
      BY <3>2 DEF Unlink
    <3>3. CASE Bind(q)
      BY <3>3 DEF Bind
    <3>4. CASE RemoveFile(q)
      BY <3>4 DEF RemoveFile
    <3>5. CASE FailClose(q) \/ KernelCloses(q)
      BY <3>5 DEF FailClose, KernelCloses, CloseListener
    <3>6. CASE DropListener(q)
      BY <3>6 DEF DropListener, CloseListener
    <3>7. CASE UNCHANGED path
      BY <3>7
    <3> QED
      BY <3>1, <3>2, <3>3, <3>4, <3>5, <3>6, <3>7
      DEF Start, Claim, IoError, Stop, WindDown, Exit, Die, Probe1, TakeLock,
          LockRefused, Probe2, SetPermissions, FailUnlock, RemoveFails,
          DropLock, KernelUnlocks, Gone
  <2> QED
    BY <1>1, <2>1, <2>2
<1>2. Inv /\ [Next]_vars => [Undisturbed]_vars
  BY <1>1
<1> QED
  BY <1>2, InitInv, NextInv, PTL DEF Spec, NeverDisturbsLivePeer

\* AdminSocket implements AdminEndpoint: a start of the endpoint, its retirement and
\* its vacation are the only things an observer of the path can see.
THEOREM RefinesEndpoint == Spec => ImplementsEndpoint
<1> USE SocketAssumption DEF NotAProcess
<1>1. Init => Endpoint!Init
  BY DEF Init, Endpoint!Init
<1>2. ASSUME Inv, [Next]_vars PROVE [Endpoint!Next]_(Endpoint!endpointVars)
  <2> USE DEF Endpoint!endpointVars
  <2>1. CASE UNCHANGED vars
    BY <2>1 DEF vars
  <2>2. CASE Next
    <3>1. PICK p \in Procs : Start(p) \/ Claim(p) \/ IoError(p) \/ Stop(p)
                                \/ WindDown(p) \/ Exit(p) \/ Die(p)
      BY <2>2 DEF Next
    <3> SUFFICES \/ Endpoint!Open(p) \/ Endpoint!Retire(p) \/ Endpoint!Vacate(p)
                 \/ UNCHANGED Endpoint!endpointVars
      BY DEF Endpoint!Next
    <3> USE <1>2 DEF Inv, TypeOK, SocketInv, Holding, States, Goto,
                     Endpoint!Open, Endpoint!Retire, Endpoint!Vacate
    <3>2. CASE Bind(p)
      BY <3>2 DEF Bind
    <3>3. CASE IoError(p) \/ Die(p) \/ Stop(p)
      BY <3>3 DEF IoError, Die, Stop
    <3>4. CASE RemoveFile(p) \/ FailClose(p) \/ KernelCloses(p)
      BY <3>4 DEF RemoveFile, FailClose, KernelCloses, CloseListener
    <3>5. CASE DropListener(p)
      BY <3>5 DEF DropListener, CloseListener
    <3>6. CASE Unlink(p)
      BY <3>6 DEF Unlink
    <3>7. CASE \/ Start(p) \/ Probe1(p) \/ TakeLock(p) \/ LockRefused(p) \/ Probe2(p)
               \/ SetPermissions(p) \/ FailUnlock(p) \/ DropLock(p) \/ Exit(p)
               \/ KernelUnlocks(p) \/ Gone(p) \/ RemoveFails(p)
      BY <3>7 DEF Start, Probe1, TakeLock, LockRefused, Probe2, SetPermissions,
                  FailUnlock, DropLock, Exit, KernelUnlocks, Gone, RemoveFails
    <3> QED
      BY <3>1, <3>2, <3>3, <3>4, <3>5, <3>6, <3>7 DEF Claim, WindDown
  <2> QED
    BY <1>2, <2>1, <2>2
<1>3. Inv /\ [Next]_vars => [Endpoint!Next]_(Endpoint!endpointVars)
  BY <1>2
<1> QED
  BY <1>1, <1>3, InitInv, NextInv, PTL
  DEF Spec, ImplementsEndpoint, Endpoint!Spec

-----------------------------------------------------------------------------
(* The process.                                                            *)

\* The grace period begins after shutdown was sent, whichever way the dashboard ended, and
\* the accept loop returns only when it has joined its connections.
LifeInv ==
  /\ ProcessInv
  /\ main \in {"grace", "exited"} => shutdown
  /\ server = "returned" => inflight = {}

\* Every step of the tasks, the dashboard and main preserves this.
LEMMA LifeStep == LifeInv /\ [NextTui]_lifeVars => LifeInv'
<1> SUFFICES ASSUME LifeInv, [NextTui]_lifeVars PROVE LifeInv'
  OBVIOUS
<1> USE DEF LifeInv, ProcessInv, LifeTypeOK, OrderlyExit, tuiVars, taskVars
<1>1. CASE Tasks
  <2>1. ASSUME NEW c \in Conns, ConnStarts(c) PROVE LifeInv'
    BY <2>1 DEF ConnStarts
  <2>2. ASSUME NEW c \in Conns, ConnEnds(c) PROVE LifeInv'
    BY <2>2 DEF ConnEnds
  <2>3. CASE ServerObservesShutdown \/ ServerReturns
    BY <2>3 DEF ServerObservesShutdown, ServerReturns
  <2>4. CASE AdminEnds
    BY <2>4, ZenonT(60) DEF AdminEnds
  <2>5. CASE MockEnds
    BY <2>5, ZenonT(20) DEF MockEnds
  <2> QED
    BY <1>1, <2>1, <2>2, <2>3, <2>4, <2>5 DEF Tasks
<1>2. CASE Tui
  <2>1. CASE ReaderForwardsQuit \/ ReaderStops \/ ReaderFails
    BY <2>1, ZenonT(60) DEF ReaderForwardsQuit, ReaderStops, ReaderFails
  <2>2. CASE TuiQuit
    BY <2>2 DEF TuiQuit
  <2>3. CASE TuiReaderLost
    BY <2>3 DEF TuiReaderLost
  <2>4. CASE TuiFails \/ TuiReturns
    BY <2>4, ZenonT(20) DEF TuiFails, TuiReturns
  <2> QED
    BY <1>2, <2>1, <2>2, <2>3, <2>4 DEF Tui
<1>3. CASE GraceElapses \/ MainExits
  BY <1>3 DEF GraceElapses, MainExits
<1>4. CASE UNCHANGED lifeVars
  BY <1>4 DEF lifeVars
<1> QED
  BY <1>1, <1>2, <1>3, <1>4 DEF NextTui

\* With the dashboard as front end the process exits only after shutdown was sent, and only
\* when no connection is left or the grace period is over.
THEOREM ProcessInvariant == SpecTui => []ProcessInv
<1>1. InitTui => LifeInv
  BY DEF InitTui, Spawned, LifeInv, ProcessInv, LifeTypeOK, OrderlyExit
<1>2. LifeInv => ProcessInv
  BY DEF LifeInv
<1> QED
  BY <1>1, <1>2, LifeStep, PTL DEF SpecTui

\* In headless mode main is before or in its wait for the printer, which runs: main's own
\* events_tx is among the senders the printer waits for.
HeadlessInv ==
  /\ main \in {"front", "await_drain"}
  /\ drain = "running"

\* Nothing the tasks do ends that wait.
LEMMA HeadlessStep == HeadlessInv /\ [NextHeadless]_lifeVars => HeadlessInv'
<1> SUFFICES ASSUME HeadlessInv, [NextHeadless]_lifeVars PROVE HeadlessInv'
  OBVIOUS
<1> USE DEF HeadlessInv, tuiVars, taskVars
<1>1. CASE Tasks
  BY <1>1 DEF Tasks, ConnStarts, ConnEnds, ServerObservesShutdown,
     ServerReturns, AdminEnds, MockEnds
<1>2. CASE DrainEnds
  <2>1. "main" \in Senders
    BY DEF Senders
  <2> QED
    BY <1>2, <2>1 DEF DrainEnds
<1>3. CASE CtrlC \/ HeadlessReturns \/ GraceElapses \/ MainExits
  BY <1>3 DEF CtrlC, HeadlessReturns, GraceElapses, MainExits
<1>4. CASE UNCHANGED lifeVars
  BY <1>4 DEF lifeVars
<1> QED
  BY <1>1, <1>2, <1>3, <1>4 DEF NextHeadless

\* main.rs waits for the drain task while it holds a sender itself: run_headless never
\* returns after Ctrl-C, whatever the server and its connections do.
THEOREM HeadlessNeverReturns == SpecHeadless => []HeadlessInv
<1>1. InitHeadless => HeadlessInv
  BY DEF InitHeadless, Spawned, HeadlessInv
<1> QED
  BY <1>1, HeadlessStep, PTL DEF SpecHeadless
=============================================================================
