------------------------------- MODULE Server -------------------------------
(***************************************************************************)
(* The accept loop of src/src/server/mod.rs and the life of the tasks it   *)
(* spawns (connection.rs, connect.rs, udp.rs), at the granularity of the   *)
(* steps that other tasks can observe: permits, the metrics counters and   *)
(* registry, the events a task sends, the SOCKS reply its client sees and  *)
(* the watch channel that carries shutdown.                                *)
(*                                                                         *)
(* A connection is one of Conns.  Its phase is where its task stands:      *)
(*                                                                         *)
(*   absent     no client yet                                              *)
(*   backlog    connected, waiting in the kernel's accept queue            *)
(*   rejected   accepted over the limit: the stream was dropped            *)
(*   handshake  in negotiate(), under the handshake deadline               *)
(*   dialing    CONNECT: in establish(), under the connect deadline        *)
(*   binding    UDP ASSOCIATE: before the success reply                    *)
(*   initial    CONNECT: registered, writing the pipelined payload         *)
(*   relaying   CONNECT: in the select of relay and shutdown               *)
(*   assoc      UDP ASSOCIATE: in the relay loop                           *)
(*   ending     the handler returned, its permit is not dropped yet        *)
(*   finished   the task is over, waiting to be joined or already joined   *)
(***************************************************************************)
EXTENDS Admission, Sequences

CONSTANTS
  Conns,      \* client connections, each used once
  IpOf,       \* the source address of each connection
  MaxSends,   \* bound: how often true is sent on the shutdown channel
  MaxErrors   \* bound: failed lookups one association reports

ASSUME ServerAssumption ==
  /\ IsFiniteSet(Conns)
  /\ IpOf \in [Conns -> IPs]
  /\ MaxSends \in Nat
  /\ MaxErrors \in Nat

VARIABLES
  loop,         \* the accept loop: select, backoff, drain, returned
  loop_seen,    \* version of the watch channel the loop's receiver has seen
  watch,        \* the shutdown channel: value, version, senders still alive
  tasks,        \* the JoinSet: spawned and not yet joined
  phase,        \* where each connection stands
  seen,         \* the version each task's cloned receiver has seen
  reply,        \* the SOCKS reply the client got: none, succeeded, 0x02, failed
  trace,        \* the Connect / Closed / Error events a task sent, in order
  registry,     \* Metrics::registry
  active_conns, \* Metrics::active_conns
  total_conns,  \* Metrics::total_conns
  successes,    \* Metrics::successes
  failures      \* Metrics::failures

metricsVars == <<registry, active_conns, total_conns, successes, failures>>
loopVars == <<loop, loop_seen, watch, tasks>>
taskVars == <<phase, seen, reply, trace>>
vars == <<admissionVars, metricsVars, loopVars, taskVars>>

Phases == {"absent", "backlog", "rejected", "handshake", "dialing", "binding",
           "initial", "relaying", "assoc", "ending", "finished"}

\* The phases in which the task owns a Permit, and those in which the
\* connection is in the metrics registry.
PermitPhases == {"handshake", "dialing", "binding", "initial", "relaying",
                 "assoc", "ending"}
RegisteredPhases == {"initial", "relaying", "assoc"}

Live == {c \in Conns : phase[c] \in PermitPhases}
LiveFrom(ip) == {c \in Live : IpOf[c] = ip}

Init ==
  /\ AdmissionInit
  /\ loop = "select"
  /\ loop_seen = 0
  /\ watch = [value |-> FALSE, version |-> 0, open |-> TRUE]
  /\ tasks = {}
  /\ phase = [c \in Conns |-> "absent"]
  /\ seen = [c \in Conns |-> 0]
  /\ reply = [c \in Conns |-> "none"]
  /\ trace = [c \in Conns |-> <<>>]
  /\ registry = {}
  /\ active_conns = 0
  /\ total_conns = 0
  /\ successes = 0
  /\ failures = 0

-----------------------------------------------------------------------------
(* The watch channel.                                                      *)

\* shutdown.changed() completes: an unseen version, or no sender is left.
Changed(version_seen) == watch.version > version_seen \/ ~ watch.open

\* shutdown_tx.send(true), by the front end and once more by main.
SendShutdown ==
  /\ watch.open
  /\ watch.version < MaxSends
  /\ watch' = [watch EXCEPT !.value = TRUE, !.version = @ + 1]
  /\ UNCHANGED <<admissionVars, metricsVars, loop, loop_seen, tasks, taskVars>>

\* The last sender goes away; every receiver's changed() then fails.
DropSender ==
  /\ watch.open
  /\ watch' = [watch EXCEPT !.open = FALSE]
  /\ UNCHANGED <<admissionVars, metricsVars, loop, loop_seen, tasks, taskVars>>

-----------------------------------------------------------------------------
(* The accept loop.                                                        *)

\* A client completes the TCP handshake with the listening socket, which the
\* kernel does on its own until the loop's function returns and drops it.
ClientConnects(c) ==
  /\ phase[c] = "absent"
  /\ loop # "returned"
  /\ phase' = [phase EXCEPT ![c] = "backlog"]
  /\ UNCHANGED <<admissionVars, metricsVars, loopVars, seen, reply, trace>>

\* Variant: the task gets a fresh subscription instead of a clone of the loop's
\* receiver, and so counts a pending shutdown as seen.
AcceptSubscribing(c) ==
  /\ loop = "select"
  /\ phase[c] = "backlog"
  /\ Admit(IpOf[c])
  /\ phase' = [phase EXCEPT ![c] = "handshake"]
  /\ seen' = [seen EXCEPT ![c] = watch.version]
  /\ tasks' = tasks \cup {c}
  /\ UNCHANGED <<metricsVars, loop, loop_seen, watch, reply, trace>>

\* accept() yields c and try_admit grants a permit: the task is spawned with
\* a clone of the loop's receiver, which starts at the loop's seen version.
AcceptAdmitted(c) ==
  /\ loop = "select"
  /\ phase[c] = "backlog"
  /\ Admit(IpOf[c])
  /\ phase' = [phase EXCEPT ![c] = "handshake"]
  /\ seen' = [seen EXCEPT ![c] = loop_seen]
  /\ tasks' = tasks \cup {c}
  /\ UNCHANGED <<metricsVars, loop, loop_seen, watch, reply, trace>>

\* accept() yields c and try_admit refuses: a log event, and the stream is
\* dropped with nothing written to it.
AcceptRejected(c) ==
  /\ loop = "select"
  /\ phase[c] = "backlog"
  /\ Refuse(IpOf[c])
  /\ phase' = [phase EXCEPT ![c] = "rejected"]
  /\ UNCHANGED <<metricsVars, loopVars, seen, reply, trace>>

\* accept() fails (fd exhaustion, say): the loop sleeps before it selects again.
AcceptError ==
  /\ loop = "select"
  /\ loop' = "backoff"
  /\ UNCHANGED <<admissionVars, metricsVars, loop_seen, watch, tasks, taskVars>>

BackoffElapsed ==
  /\ loop = "backoff"
  /\ loop' = "select"
  /\ UNCHANGED <<admissionVars, metricsVars, loop_seen, watch, tasks, taskVars>>

\* tasks.join_next() yields c, in the select or in the final drain.
Reap(c) ==
  /\ loop \in {"select", "drain"}
  /\ c \in tasks
  /\ phase[c] = "finished"
  /\ tasks' = tasks \ {c}
  /\ UNCHANGED <<admissionVars, metricsVars, loop, loop_seen, watch, taskVars>>

\* The shutdown branch of the select: stop accepting.
LoopObservesShutdown ==
  /\ loop = "select"
  /\ Changed(loop_seen)
  /\ loop_seen' = watch.version
  /\ loop' = IF ~ watch.open \/ watch.value THEN "drain" ELSE "select"
  /\ UNCHANGED <<admissionVars, metricsVars, watch, tasks, taskVars>>

\* Variant: run returns without joining its tasks.
DrainAbandons ==
  /\ loop = "drain"
  /\ loop' = "returned"
  /\ UNCHANGED <<admissionVars, metricsVars, loop_seen, watch, tasks, taskVars>>

\* join_next() returns None: every task was joined, and run returns.
DrainComplete ==
  /\ loop = "drain"
  /\ tasks = {}
  /\ loop' = "returned"
  /\ UNCHANGED <<admissionVars, metricsVars, loop_seen, watch, tasks, taskVars>>

-----------------------------------------------------------------------------
(* Negotiation and dispatch: connection::handle.                           *)

\* The parts of the state that the steps of one task never touch.
OutsideTask == <<admissionVars, loopVars, seen>>

Goto(c, from, to) ==
  /\ phase[c] = from
  /\ phase' = [phase EXCEPT ![c] = to]

Emit(c, event) == trace' = [trace EXCEPT ![c] = Append(@, event)]

Answer(c, code) == reply' = [reply EXCEPT ![c] = code]

\* The handshake deadline elapses, or negotiate gives up without a SOCKS reply
\* (EOF, no acceptable method, wrong credentials, bad version).
HandshakeAborted(c) ==
  /\ Goto(c, "handshake", "ending")
  /\ UNCHANGED <<OutsideTask, metricsVars, reply, trace>>

\* reply_request_error, or BIND: a failure reply and an Error event; the
\* failure counter is not touched on this path.
RequestRefused(c) ==
  /\ Goto(c, "handshake", "ending")
  /\ Answer(c, "failed")
  /\ Emit(c, "Error")
  /\ UNCHANGED <<OutsideTask, metricsVars>>

RequestConnect(c) ==
  /\ Goto(c, "handshake", "dialing")
  /\ UNCHANGED <<OutsideTask, metricsVars, reply, trace>>

RequestUdpAssociate(c) ==
  /\ Goto(c, "handshake", "binding")
  /\ UNCHANGED <<OutsideTask, metricsVars, reply, trace>>

-----------------------------------------------------------------------------
(* Metrics: register, unregister, record_error, record_success.            *)

Register(c) ==
  /\ registry' = registry \cup {c}
  /\ active_conns' = active_conns + 1
  /\ total_conns' = total_conns + 1
  /\ UNCHANGED <<successes, failures>>

\* record_success and unregister, which both relays call back to back.
RecordAndUnregister(c) ==
  /\ successes' = successes + 1
  /\ active_conns' = active_conns - 1
  /\ registry' = registry \ {c}
  /\ UNCHANGED <<total_conns, failures>>

RecordError ==
  /\ failures' = failures + 1
  /\ UNCHANGED <<registry, active_conns, total_conns, successes>>

-----------------------------------------------------------------------------
(* CONNECT: connect::run.                                                  *)

\* establish() fails, at the latest at its deadline: reply, count, report.
EstablishFails(c) ==
  /\ Goto(c, "dialing", "ending")
  /\ \E code \in {"0x02", "failed"} : Answer(c, code)
  /\ RecordError
  /\ Emit(c, "Error")
  /\ UNCHANGED OutsideTask

\* The upstream is connected but the success reply cannot be written.
ConnectReplyLost(c) ==
  /\ Goto(c, "dialing", "ending")
  /\ UNCHANGED <<OutsideTask, metricsVars, reply, trace>>

\* The success reply went out: register and report, in this order.
ConnectEstablished(c) ==
  /\ Goto(c, "dialing", "initial")
  /\ Answer(c, "succeeded")
  /\ Register(c)
  /\ Emit(c, "Connect")
  /\ UNCHANGED OutsideTask

\* The pipelined payload, if any, went upstream.
InitialWritten(c) ==
  /\ Goto(c, "initial", "relaying")
  /\ UNCHANGED <<OutsideTask, metricsVars, reply, trace>>

\* The teardown both relays share: counters, registry, Closed event.
Teardown(c, from) ==
  /\ Goto(c, from, "ending")
  /\ RecordAndUnregister(c)
  /\ Emit(c, "Closed")
  /\ UNCHANGED <<OutsideTask, reply>>

\* Variant: a failed payload write returns without its Closed event.
InitialFailsSilently(c) ==
  /\ Goto(c, "initial", "ending")
  /\ RecordAndUnregister(c)
  /\ UNCHANGED <<OutsideTask, reply, trace>>

\* Writing the payload failed: the relay is skipped, the teardown is not.
InitialFails(c) == Teardown(c, "initial")

\* copy_bidirectional_counted returned.
RelayEnds(c) == Teardown(c, "relaying")

\* wait_for_shutdown won: it looks at the value before it waits for a change.
RelayShutdown(c) ==
  /\ watch.value \/ ~ watch.open
  /\ Teardown(c, "relaying")

-----------------------------------------------------------------------------
(* UDP ASSOCIATE: udp::run.                                                *)

\* No relay port could be bound: a failure reply and an event, not counted.
UdpBindFails(c) ==
  /\ Goto(c, "binding", "ending")
  /\ Answer(c, "failed")
  /\ Emit(c, "Error")
  /\ UNCHANGED <<OutsideTask, metricsVars>>

\* The advertise host could not be resolved: reply, count, report.
UdpAdvertiseFails(c) ==
  /\ Goto(c, "binding", "ending")
  /\ Answer(c, "failed")
  /\ RecordError
  /\ Emit(c, "Error")
  /\ UNCHANGED OutsideTask

\* A local address cannot be read, or the success reply cannot be written.
UdpReplyLost(c) ==
  /\ Goto(c, "binding", "ending")
  /\ UNCHANGED <<OutsideTask, metricsVars, reply, trace>>

UdpAssociated(c) ==
  /\ Goto(c, "binding", "assoc")
  /\ Answer(c, "succeeded")
  /\ Register(c)
  /\ Emit(c, "Connect")
  /\ UNCHANGED OutsideTask

\* The name of a datagram's target cannot be resolved: an Error event, at most one a
\* second, and the association goes on.
AssocLookupFails(c) ==
  /\ phase[c] = "assoc"
  /\ Len(trace[c]) <= MaxErrors
  /\ Emit(c, "Error")
  /\ UNCHANGED <<OutsideTask, metricsVars, phase, reply>>

\* Idle timeout, a socket error, or the control connection closed.
AssocEnds(c) == Teardown(c, "assoc")

\* Branch C of the relay loop: it only waits for a change, and does not look
\* at the value first.
AssocShutdown(c) ==
  /\ Changed(seen[c])
  /\ ~ watch.open \/ watch.value
  /\ Teardown(c, "assoc")

-----------------------------------------------------------------------------
\* Variant: permits are only returned once the server drains.
DropPermitLate(c) ==
  /\ loop = "drain"
  /\ Goto(c, "ending", "finished")
  /\ Release(IpOf[c])
  /\ UNCHANGED <<metricsVars, loopVars, seen, reply, trace>>

\* handle returned: its _permit is dropped and the task completes.
DropPermit(c) ==
  /\ Goto(c, "ending", "finished")
  /\ Release(IpOf[c])
  /\ UNCHANGED <<metricsVars, loopVars, seen, reply, trace>>

DialEnds(c) == EstablishFails(c) \/ ConnectReplyLost(c) \/ ConnectEstablished(c)
InitialEnds(c) == InitialWritten(c) \/ InitialFails(c)
BindEnds(c) ==
  UdpBindFails(c) \/ UdpAdvertiseFails(c) \/ UdpReplyLost(c) \/ UdpAssociated(c)

TaskStep(c) ==
  \/ HandshakeAborted(c) \/ RequestRefused(c)
  \/ RequestConnect(c) \/ RequestUdpAssociate(c)
  \/ DialEnds(c) \/ InitialEnds(c) \/ RelayEnds(c) \/ RelayShutdown(c)
  \/ BindEnds(c) \/ AssocLookupFails(c) \/ AssocEnds(c) \/ AssocShutdown(c)
  \/ DropPermit(c)

LoopStep ==
  \/ \E c \in Conns : AcceptAdmitted(c) \/ AcceptRejected(c) \/ Reap(c)
  \/ AcceptError \/ BackoffElapsed \/ LoopObservesShutdown \/ DrainComplete

Environment == SendShutdown \/ DropSender \/ \E c \in Conns : ClientConnects(c)

Next == LoopStep \/ Environment \/ \E c \in Conns : TaskStep(c)

Spec == Init /\ [][Next]_vars

\* What a task does on its own in the end: its deadlines fire, short writes and
\* local calls finish, and a shutdown it can see is acted upon.
TaskProgress(c) ==
  \/ HandshakeAborted(c) \/ DialEnds(c) \/ InitialEnds(c) \/ BindEnds(c)
  \/ RelayShutdown(c) \/ AssocShutdown(c) \/ DropPermit(c)

\* Timers fire, tasks that can run are polled, and the loop's select, which
\* starts at a random branch, does not ignore a ready branch for ever.  Nothing
\* is assumed of clients, of relays that are busy, or of who sends shutdown.
Fairness ==
  /\ SF_vars(LoopObservesShutdown)
  /\ WF_vars(BackoffElapsed)
  /\ WF_vars(DrainComplete)
  /\ SF_vars(\E c \in Conns : Reap(c))
  /\ \A c \in Conns : WF_vars(TaskProgress(c))

FairSpec == Spec /\ Fairness

-----------------------------------------------------------------------------
(* Properties.                                                             *)

\* Every variable stays in its domain; in particular the unsigned counters of
\* Metrics and Admission never go below zero.
TypeOK ==
  /\ total \in Nat
  /\ DOMAIN per_ip \in SUBSET IPs
  /\ per_ip \in [DOMAIN per_ip -> Nat]
  /\ loop \in {"select", "backoff", "drain", "returned"}
  /\ loop_seen \in Nat
  /\ watch \in [value : BOOLEAN, version : Nat, open : BOOLEAN]
  /\ tasks \in SUBSET Conns
  /\ phase \in [Conns -> Phases]
  /\ seen \in [Conns -> Nat]
  /\ reply \in [Conns -> {"none", "succeeded", "0x02", "failed"}]
  /\ trace \in [Conns -> Seq({"Connect", "Closed", "Error"})]
  /\ registry \in SUBSET Conns
  /\ active_conns \in Nat
  /\ total_conns \in Nat
  /\ successes \in Nat
  /\ failures \in Nat

\* The controller's counters are exactly the tasks that are alive, half-open ones
\* included: no permit is lost on any return path of connection::handle, none is
\* released twice, and an address without connections leaves no map entry behind.
PermitAccounting ==
  /\ total = Cardinality(Live)
  /\ DOMAIN per_ip = {IpOf[c] : c \in Live}
  /\ \A ip \in DOMAIN per_ip : per_ip[ip] = Cardinality(LiveFrom(ip))

\* limits.max_connections and limits.max_per_ip bound the tasks that exist, not
\* only the connections that reached the registry.
CapsRespected ==
  /\ \A max \in MaxTotal : Cardinality(Live) <= max
  /\ \A max \in MaxPerIp : \A ip \in IPs : Cardinality(LiveFrom(ip)) <= max

\* A client is turned away only when a cap is really used up by tasks that are
\* alive at that moment: stale counts never refuse anybody.
RefusalIsExact ==
  [][\A c \in Conns :
       (phase[c] # "rejected" /\ phase'[c] = "rejected") =>
         \/ \E max \in MaxTotal : Cardinality(Live) >= max
         \/ \E max \in MaxPerIp : Cardinality(LiveFrom(IpOf[c])) >= max]_vars

\* The dashboard's numbers agree with each other and with the tasks: what is
\* registered is what is relaying, active_conns counts it, every connection ever
\* registered is either active or counted as a success, and whatever is registered
\* still holds its permit.
MetricsBalance ==
  /\ registry = {c \in Conns : phase[c] \in RegisteredPhases}
  /\ registry \subseteq Live
  /\ active_conns = Cardinality(registry)
  /\ total_conns = active_conns + successes

\* Permits, caps and metrics: what admission counts is what is alive, the caps bound it,
\* and the dashboard's numbers agree with it, on every path through connection::handle.
ServerInv == TypeOK /\ PermitAccounting /\ CapsRespected /\ MetricsBalance

\* What a task that is registered has sent, and what one that was registered has sent
\* in all: failed lookups are reported in between.
Opened(t) ==
  /\ Len(t) >= 1 /\ t[1] = "Connect"
  /\ \A i \in 2 .. Len(t) : t[i] = "Error"
Paired(t) ==
  /\ Len(t) >= 2 /\ t[1] = "Connect" /\ t[Len(t)] = "Closed"
  /\ \A i \in 2 .. Len(t) - 1 : t[i] = "Error"

\* A log built from the event bus pairs up: one task sends nothing, one Error, or
\* Connect and later Closed, with nothing between the two but the failed lookups of a
\* UDP association; its connection is in the registry exactly between the two, and
\* the client saw the success reply exactly when Connect was sent.
EventsPairUp ==
  \A c \in Conns :
    /\ trace[c] \in {<<>>, <<"Error">>} \/ Opened(trace[c]) \/ Paired(trace[c])
    /\ c \in registry <=> Opened(trace[c])
    /\ phase[c] \in {"initial", "relaying"} => trace[c] = <<"Connect">>
    /\ reply[c] = "succeeded" <=> Opened(trace[c]) \/ Paired(trace[c])

\* run returns only after every task it spawned is over: no permit is out, no
\* connection is registered, every Connect was followed by its Closed.
DrainedClean ==
  loop = "returned" =>
    /\ Live = {}
    /\ total = 0 /\ DOMAIN per_ip = {}
    /\ registry = {} /\ active_conns = 0
    /\ \A c \in Conns : ~ Opened(trace[c])

\* What makes the invariants above inductive: the events a task has sent and the
\* reply its client has seen are those of its phase, every permit is owned by a task
\* the loop will join, and the loop returns with none left.
TaskInv ==
  /\ \A c \in Conns :
       /\ phase[c] \in {"absent", "backlog", "rejected", "handshake", "dialing", "binding"}
            => trace[c] = <<>> /\ reply[c] = "none"
       /\ phase[c] \in RegisteredPhases => Opened(trace[c]) /\ reply[c] = "succeeded"
       /\ phase[c] \in {"initial", "relaying"} => trace[c] = <<"Connect">>
       /\ phase[c] \in {"ending", "finished"}
            => \/ trace[c] = <<>> /\ reply[c] = "none"
               \/ trace[c] = <<"Error">> /\ reply[c] \in {"0x02", "failed"}
               \/ Paired(trace[c]) /\ reply[c] = "succeeded"
  /\ Live \subseteq tasks
  /\ loop = "returned" => tasks = {}

\* Once shutdown is requested, run returns, whatever phase each connection was
\* in and whichever connections were accepted between the request and the loop
\* noticing it: no task misses the signal.
ShutdownDrains == watch.value ~> loop = "returned"

\* A slot taken by a client that never gets as far as a relay comes back: every
\* phase before the relay is bounded by a deadline.
SlotsComeBack ==
  \A c \in Conns :
    phase[c] \in {"handshake", "dialing", "binding", "initial"}
      ~> phase[c] \in {"relaying", "assoc", "finished"}
=============================================================================
