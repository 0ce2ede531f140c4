# Verification of next-socks5

TLA+ models of the SOCKS5 server in `src/`, TLC runs that check them on small
instances, and TLAPS proofs that hold for every instance. Paths below are relative to
`src/src/`.

## 1. The system

next-socks5 is a SOCKS5 proxy (RFC 1928, RFC 1929) on tokio. One process runs an
accept loop, one task per client, an admin endpoint on a Unix socket for attached
dashboards, and a front end: a terminal dashboard, or headless mode, which prints
events.

| component | state | operations | talks to |
|---|---|---|---|
| admission controller, `server/admission.rs` | `total`, `per_ip` under a mutex | `try_admit`, `Permit::drop` | accept loop, tasks |
| accept loop, `server/mod.rs` | JoinSet of tasks, shutdown receiver | accept, refuse, back off, reap, drain | admission, tasks, watch channel |
| connection task, `server/connection.rs` | one buffer, the permit | negotiate, dispatch, reply | parsers, `connect`, `udp` |
| parsers, `protocol/*.rs`, `auth.rs`, `error.rs` | none | greeting, login, request, address codec | connection task |
| CONNECT, `server/connect.rs`, `dns.rs` | candidates, deadlines; two copy loops and `last_activity` | resolve, dial, relay, tear down | resolver, peers, metrics |
| UDP ASSOCIATE, `server/udp.rs` | client address, known targets, rate window | bind, advertise, relay, evict, tear down | control stream, resolver, peers |
| metrics and events, `metrics.rs` | atomic counters, registry; broadcast bus | register, unregister, record, snapshot | tasks, dashboards |
| admin socket, `admin/server.rs` | socket path, lock file, listener | claim, serve, remove | other processes |
| attach stream, `admin/{server,ring,mod,client}.rs` | event ring, subscription, frames | replay, stream, decode | bus, dashboard |
| process, `main.rs` | task handles, senders, grace timer | spawn, front end, shutdown | everything |
| dashboard, `tui/*.rs` | log ring, table, scroll offsets, reader thread | tick, key, draw | metrics, bus |
| mock generator, `mock.rs` | synthetic traffic | tick | metrics, bus |
| configuration, `config.rs` | parsed TOML, egress policy | parse, validate, `is_blocked` | everything |

Components interact through the watch channel that carries shutdown, the broadcast bus
that carries events, the shared `Metrics`, the permits, and the file system.

What makes each part hard, and what correct means for it:

- **Server.** Every return path of a task must give its permit back once; a task
  accepted while shutdown is under way must still see it; drain must end.
- **Negotiation.** Messages arrive cut at any byte and pipelined; the result must not
  depend on that, and the bytes after the request belong to the relay.
- **Establishing.** Two lookups, a dial and three timers complete in any order under
  one deadline; every address is tried once, none starves, the error is the right one.
- **Relay.** Two loops judge idleness by a shared instant; FIN must follow the data.
- **UDP.** Concurrent scans for a port share one cursor that wraps; then one task does
  everything for an association: source lock, reply filter, eviction and rate limit must
  hold, and it must end when it should. No notation of an address may pass the policy.
- **Metrics.** A call touches several atomics and a mutex one after the other, and a
  sampler reads them in between; two kinds of caller take identities from one counter.
- **Admin socket.** Processes race, crash and restart around one path and one lock.
- **Attach.** A replayed history and a live subscription must join without a hole.
- **Process.** Who waits for whom at the end must contain no cycle.
- **Dashboard.** Offsets into a ring that moves must keep meaning the same lines, and
  offsets into a table that shrinks must not make keys dead.

The full list of hazards, each at its line, is in `PROJECT.json`.

## 2. The modules

| module | models | state and actions |
|---|---|---|
| `Admission` | `admission.rs` | `total`, `per_ip`; `Admit`, `Refuse`, `Release`. A cap of `None` is the empty set, `Some(n)` is `{n}`. |
| `Server` (extends `Admission`) | `server/mod.rs` and the life of the tasks in `connection.rs`, `connect.rs`, `udp.rs`, with `metrics.rs` | Accept loop, watch channel (value, version, open), and per connection its phase, seen version, reply and events. One action per step another task can observe. |
| `ServerProofs` | | theorems about `Server` |
| `Wire` | `protocol/*.rs` | no state: the codecs of greeting, login, address, request, reply and datagram as operators over byte sequences, and `AddressFits`, the layout restated as the reference |
| `Negotiate` (extends `Wire`) | `negotiate`, `auth.rs` | `buf`, `wire`, `step`; one action per message and per way of giving up; `CtEq` and `VerifyCredentials` for the login |
| `Egress` | `Egress::is_blocked` of `config.rs` | no state: the policy over octets and segments |
| `Datagram` (extends `Wire`, `Egress`) | the way of one datagram through `udp::run`: `decap_ref`, resolution, policy, `encap` | `stage`, the bytes, the policy, the target, the answer |
| `WireProofs` | | theorems about `Negotiate`, `Egress` and `Datagram`, and the lemmas about `Wire` they share |
| `Establish` | `establish` for names (`ResolveName`) and literals (`TakeLiteral`), `add_candidates`, `DnsResolver::lookup` by outcome | queue, seen set, active dial and deadlines in ticks; `Search` is the loop |
| `Relay` | `copy_bidirectional_counted`, `copy_half` | two directions, their timers, `last_activity` as `silence`, a chunk in pieces |
| `ConnectProofs` | | theorems about `Establish` and `Relay` |
| `Connection` (extends `Negotiate`, `Establish`, `Relay`, `Datagram`) | `handle` of `connection.rs` and `run` of `connect.rs`: one connection from its first byte to the end of its relay | `place`, and the variables of the phases, each of which begins with what the one before handed over and forgets its locals when it returns |
| `UdpSetup` | `udp::run` up to its success reply, `bind_with_retry`, `resolve_advertise_ip` | `setup`: the scan (cursor value, attempts, ports found busy) and what will be advertised; `SetupStep` |
| `UdpRelay` (extends `UdpSetup`) | `udp::run`: the setup, then its loop | `client_udp_addr`, `known_targets`, `known_order`, window, and the await the loop is in |
| `UdpProofs` | | theorems about `UdpSetup` and `UdpRelay` |
| `AdminEndpoint` | what an endpoint promises | who serves and who is reachable |
| `AdminSocket` | `claim_socket`, `serve` | per process where it stands, the lock, open listeners, what the path names; crashes and the kernel closing descriptors one by one |
| `LifecycleProofs` | | theorems about `AdminSocket` and `Process` |
| `Attach` | `ring.rs`, `serve`'s accept branch, `handle_client`, frames, client | bus, filler, ring, handler, socket, decode loop, what the dashboard has drained of the client's own bus (`drawn`) and how it leaves (`TuiBreaks`, `Quit`, `TuiReturns`) |
| `AttachProofs` | | theorems about `Attach` |
| `Metrics` | `metrics.rs` with its callers, `mock.rs` among them, and a sampler | the atomics, the registry, per actor the effects of its current call that are still to do; `Do` performs one |
| `MetricsProofs` | | theorems about `Metrics` |
| `Process` | `main`, `run_headless`, how `tui::run` and its reader thread end | who runs, who holds a sender, what main waits for |
| `Dashboard` | `tui::run` while it runs, `LogRing`, scrolling of log and table | bus, log, offsets, terminal height; a tick is `StartTick`, one `DrainLagged` or `DrainEvent` for each result of `try_recv`, `EndTick` |
| `DashboardProofs` | | theorems about `Dashboard` |
| `MCServer`, `MCUdpRelay`, `MCConnection` | | instances for TLC |

`Server` knows the later phases of a task only by their outcomes; `Negotiate`,
`Establish`, `Relay` and `UdpRelay` are those phases in detail, `Connection` joins the
first three, and `Datagram` is what `UdpRelay` takes as the outcome of a datagram.
`Metrics` splits the calls that `Server` takes as single steps. `AdminSocket` refines `AdminEndpoint`. `Process` sees server and tasks only as running or not.

Definitions called *Variant* are altered forms of the definition that follows: each is
a plausible mistake, and `PROJECT.json` names the property that notices it.

Abstractions worth knowing:

- `Server` takes `register` with its event, and `record_success`, `unregister` and the
  Closed event, as one step each; byte counters are left out. `Dashboard` splits events
  from counters, `Metrics` splits the counters from each other.
- The atomics of `metrics.rs` are Relaxed. In `Metrics` the effects of a call that stand
  before a lock of the registry become visible in any order; the lock is a barrier
  (`Ready`). The loads of the sampler come in any order. The loops of the generator over
  its connections make one call at a time. Upload and download counters are handled alike
  and are one counter here. Sums (`Total`) are the cardinality of the set of units
  counted, which needs no fold.
- In `UdpSetup` every probe of a port has an open outcome and a scan may find any value
  in `PORT_CURSOR`: that covers any number of concurrent associations and other users of
  the ports.
- `Datagram` uses real octets and lengths; `UdpRelay` model values for addresses.
- The Error events of a live UDP association (`AssocLookupFails` of `Server`) are at most
  one a second in the code; in the model they come at any time, at most `MaxErrors` of
  them per association (one in the run, any number in the proofs).
- In `Connection` a connection is associated in one step, the setup of the association is
  in `UdpRelay`; a CONNECT target is one of the model values of `Establish`; what was
  pipelined matters only in that it is written first (`pipelined`). That write has no
  timeout and does not look at shutdown; `Connection` promises nothing of it, `Server`
  assumes that it ends (see Fairness).
- In `Attach` the client's own bus has room for everything; what a tick does after that bus
  overflowed is in `Dashboard`.
- `Relay`, `UdpRelay` and `Establish` measure time in ticks; a timer that is due fires
  before time passes, after anything else that happens at that instant.
- The largest byte and `READ_BUF` are parameters: 255 and 512 in the code and in the run.
  What the proofs need of `READ_BUF` is that it is at least `2 * MaxByte + 2`, so that the
  longest login is one byte longer than what an unfinished buffer may hold; with one byte
  less `ClosedIsJustified` fails.
- The history `recent` in `UdpRelay` gives every datagram of the last second a key of its
  own and an age. `AddCandidates` in `Establish` describes what the loop of
  `add_candidates` appends (`Filtered`) instead of folding over the answer. Both are
  stated so that they can be reasoned about without induction.
- `Attach` moves whole frames. The socket holds `PipeCap` of them.
- `Dashboard` leaves out texts, rates, ages and the order of rows. Its tick takes events
  off the channel one at a time, and senders and the terminal go on meanwhile.

## 3. The runs

| run | instance | distinct states | shows |
|---|---|---|---|
| `server` | three clients, two from one address, total cap 2, per-address cap 1, one failed lookup per association | 176,388 | `ServerInv`: permits equal live tasks, caps hold, counters balance; `EventsPairUp`; `RefusalIsExact`; a returned `run` left nothing behind (`DrainedClean`); `ShutdownDrains`, `SlotsComeBack` |
| `socket` | three processes, two deaths, I/O errors, also of `remove_file`, anything left at the path | 12,588 | `ServingIsReachable`, `NeverDisturbsLivePeer`, `ImplementsEndpoint`, `RestartRecovers` |
| `process_tui` | three connections | 1,680 | the process exits in the end and never under connections that had no grace period |
| `connection` | bytes and buffers of the real sizes; streams built from 5 greetings, 5 logins, 9 requests, with and without a tail, every prefix of two of them, and the longest login; four addresses, one refused, deadline 7, answers of up to 3; idle windows of 3 ticks, chunks of up to 2 pieces; for datagrams all 8 policies, the addresses on both sides of every border of the policy, plain, mapped, compatible and almost so, every prefix of three datagrams, fragments, bad headers, answers of up to 2 addresses | 190,083 | `NegotiateInv`, `ClosedIsJustified`: what is accepted is exact, down to the replies the client saw, and a closed connection is justified; `EstablishInv`, `SearchIsComplete`, `NoCandidateStarves`, `ErrorIsHonest`, `Returns`: each address is dialled once, the search is complete and in time, its error is right; `RelayInv`: FIN means delivered, and no relay outlives three windows of silence; `IdleIsCoupled`, `SilentRelayEnds`; `PolicyIsExact`: is_blocked agrees with the documented blocks bit by bit; `DatagramIsExact`: headers are read and written by the layout |
| `udp` | ranges of no, one, two and three ports, every literal, absent and named advertised address; two client ports, a target, a blocked address, two remembered targets, rate 1 | 99,056 | `SetupIsExact`: a client that is refused for want of a port met every port busy, unless and only unless the scan jumped at the wrap-around, and what the reply names can be used, unless and only unless it is a literal of the other family; filter and queue agree, bursts are at most twice the rate, the association is private, EOF, shutdown and silence end it |
| `attach` | four events, bus and ring of 2, one frame in the socket | 295,219 | no gap at the seam, order, everything in flight at an orderly stop reaches the client's bus (`NothingInFlightIsDropped`), handler and dashboard end, also for a client accepted after shutdown was sent, and while it runs the dashboard draws what was decoded (`DashboardExits`) |
| `dashboard` | two connections, two other events, channel of 2, log of 3 lines, three terminal heights | 2,011,362 | the log tells the truth, the view is anchored, a scroll key moves its panel by what it says or to the edge, except upwards in a table that shrank below its offset (`ScrollKeysMove`) |
| `metrics` | one task and the generator, 2 registrations, 1 byte call, 1 failure | 531,084 | `MetricsInv`: counters, histogram and registry differ by the calls in progress and no more, identities are unique; `SkewIsBounded`: a torn sample is wrong by at most the calls it overlapped |

Four more runs, `process_headless`, `relay_doc`, `ports_doc` and `advertise_doc`, are
expected to fail; section 4 has them. The last two use the instance of `udp`, `relay_doc`
the constants of the relay in `connection`.

`connection` takes one connection at a time through its phases: the phases of one
connection exclude each other, and different connections share nothing in these modules
(what they share is in `Server` and `Metrics`).

The bounds are the smallest at which the cases of interest happen: a cap that is full
while a third client arrives; a lock holder, a contender and a corpse; one more target
than is remembered; a lookup that takes longer than the rate window; a budget that two
and three shares do not divide; a bus and a ring that overflow; a log line that falls
out of the ring while it is on the screen; a port range of 3 under a cursor that wraps
at 8 (`CursorMod`, for 2^32: in both the range does not divide the wrap); two
connections of different callers that are open at the same time as a sample is taken
(`MaxIds`, `MaxBytes` and `MaxErrors` bound how often each call is made).

`CHECK_DEADLOCK FALSE` stands where the system may stop: a server that returned, an
association that closed, a search that ended.

### Fairness

- `Server`: a task's deadlines fire (handshake, connect); replies of at most 22 bytes
  and a pipelined payload of at most two read buffers fit into an empty send buffer; a
  visible shutdown is acted on. The loop's `select!` starts at a random branch, so a
  branch that is ready again and again is taken: strong fairness for observing shutdown
  and for reaping. Nothing is assumed of clients, of busy relays or of who sends
  shutdown.
- `UdpRelay` and the dialing and relaying of `Connection`: time passes and timers fire; the
  task is polled when the search is at the head of its loop or a phase is over; the setup in `UdpRelay`
  goes on, because it probes each port at most once and its lookup has a timeout; the
  `select!` of the loop gives strong fairness to EOF and shutdown. Nothing is assumed of traffic.
- `AdminSocket`: a process that claims or winds down keeps running. Nobody has to
  start, stop or die. `RestartRecovers` speaks of a process that keeps being started
  while the file system works and the path is not a foreign file.
- `Attach`: tasks run, and so do the ticks of the dashboard and the join of its key reader.
  The select of `serve` may take either branch for as long as it has not seen shutdown: a
  waiting client is accepted or turned away. Nothing is assumed of the user.
- `Process`: tasks observe shutdown, timers fire, a poll for keys ends after
  `INPUT_POLL`. Connections are not assumed to end.

## 4. Where code and documentation differ

Four runs are expected to fail, each on a property that quotes the repository:

- `process_headless`: `main.rs:226` says "The drain task will exit once the server
  drops its event senders." main itself owns `events_tx`, so the printer never ends and
  `run_headless` never returns after Ctrl-C.
- `relay_doc`: `connect.rs:320-322` says "teardown on idleness only happens when NEITHER
  direction has moved bytes for the idle window", and `connect.rs:376-378` "so an active
  transfer is never truncated". `last_activity` is set when a `write_all` has returned
  (`connect.rs:419`), so a direction that has read a chunk, or handed over part of one,
  within the window does not count, and the other one is half-closed beside it
  (`NeitherDirectionMoved`). With a destination that drains slowly this is an upload under
  way whose download side ends. `IdleIsCoupled` states what does hold.
- `ports_doc`: `udp.rs:300-301` says "error only when every port in the range is
  unavailable". The sum of cursor and attempt wraps at 2^32, so a scan that crosses the wrap
  skips ports and repeats others unless the width divides 2^32 (`ExhaustedMeansAllBusy`).
  `ExhaustedIsExact` says that these scans are the only ones that do.
- `advertise_doc`: `udp.rs:342-343` says "The result must match the relay socket's address
  family; advertising an address in another family would be unusable." A literal
  `udp.advertise` is returned as it is (`udp.rs:352`); only resolved names are compared
  (`AdvertisedFamilyMatches`). `ReplyIsExact` says that nothing else goes wrong.

Smaller observations, made while modelling and not checked by a run:

- `README.md:33` says "connection limit → `0x02`"; the accept loop drops the stream
  without a reply (`server/mod.rs:66`), as `Refuse` in `Server` does.
- `docs/research/rfc-1928-1929-compliance.md:103` calls the cap on targets an LRU cap;
  eviction is in order of insertion (`server/udp.rs:241`).
- `udp.rs:112-115` says that "a known-target match takes precedence" where a target shares
  the client's address. The code asks for the client first (`udp.rs:161-166`) and for known
  targets after that (`udp.rs:248`), as `IsClient` and `FromTarget` do: before first contact
  there are no targets, and afterwards a source that is both the locked client and a target
  is taken for the client.
- When the server stops, the last events may not be drawn: `decode_loop` puts them on the
  client's bus and sets the client's shutdown channel, and `tui::run` leaves its loop
  (`tui/mod.rs:231-235`) without a last drain.
- The pipelined payload is written upstream without a timeout and without looking at
  shutdown (`connect.rs:103`). That it ends all the same rests on its size: it is at most
  two read buffers, which an empty send buffer takes.
- A failed bind of a UDP association sends an Error event but does not count an error.
- `snapshot` loads `total` before `active`: a sample may show more active connections
  than were ever opened, within the bound of `SkewIsBounded`.
- `admin/server.rs:155` calls a lock holder "the live/starting owner"; it may also be a
  process that is winding down. The start it refuses is not retried.
- `udp.rs`: the idle timer is restarted by control bytes and by datagrams of strangers,
  and the fixed rate window admits twice the rate within a second (`BurstIsBounded`).
- `tui/mod.rs`: `conn_scroll` is not clamped when the table shrinks, nor by scrolling up: the
  drawing clamps for itself, and until the offset is back in range keys that scroll up
  move nothing (`ScrollKeysMove` allows for this); an error from the terminal returns past the join of the reader thread.

## 5. Proofs

`ServerProofs` proves, for any finite set of connections, any addresses and any limits:

| theorem | statement |
|---|---|
| `ServerInvariant` | `Spec => []ServerInv`: no counter goes below zero, permits equal live tasks, both caps hold, the metrics balance |
| `EventsPaired` | `Spec => []EventsPairUp`: Connect, the Errors of failed lookups if it is an association, Closed; or one Error; or nothing; and the registry holds what is between Connect and Closed |
| `DrainIsClean` | `Spec => []DrainedClean` |
| `RefusalExact` | `Spec => RefusalIsExact` |

Assumptions: `LimitsAssumption` and `ServerAssumption`, that is finite sets,
`IpOf` a function into the addresses, natural limits. The inductive invariant is
`ServerInv /\ TaskInv`. `TaskInv` is
what the others lack: it ties the events a task has sent and the reply its client has
seen to the task's phase, and every permit to a task the loop will join; without it
neither `EventsPairUp` nor `DrainedClean` is preserved. The proof has one lemma per kind
of step: admission, refusal, registration, a failed lookup of a live association,
teardown, the drop of the permit, and the steps that touch none of these. That events are
appended and never changed is `NextEvent` and `Shapes`. Cardinalities change by one through
`FiniteSetTheorems`.

`LifecycleProofs` proves, for any set of processes and any number of deaths:

| theorem | statement |
|---|---|
| `AdminSocketInvariant` | `Spec => [](TypeOK /\ SocketInv)` |
| `ServingReachable` | `Spec => []ServingIsReachable` |
| `LivePeerUndisturbed` | `Spec => NeverDisturbsLivePeer` |
| `RefinesEndpoint` | `Spec => ImplementsEndpoint` |

`SocketInv` is the argument of the comments in `claim_socket` made precise: the lock is
held from the second probe until the file is removed, nothing live is at the path
between that probe and `bind`, and a live socket whose owner lost the lock belongs to a
process that is dying, or that could not remove its file and is about to close the socket. `SocketAssumption` only says that processes are not the names used for
other things at the path.

The same module proves of `Process`, for any set of connections:

| theorem | statement |
|---|---|
| `ProcessInvariant` | `SpecTui => []ProcessInv` |
| `HeadlessNeverReturns` | `SpecHeadless => []HeadlessInv` |

`ProcessInv` becomes inductive once it is known that the grace period begins after
shutdown was sent, on each of the three ways out of the dashboard, and that an accept loop
that has returned leaves no connection (`LifeInv`). `HeadlessInv`, main is before or in its wait for
the printer and the printer runs, is inductive by itself: main's `events_tx` keeps the bus
open. It is the reason for the counterexample of `process_headless`, and shows that no
behaviour escapes it.

`WireProofs` proves of `Negotiate`, for every set of client streams, every size of a byte, any
users and any `READ_BUF` that a login fits into:

| theorem | statement |
|---|---|
| `NegotiateInvariant` | `NegotiateSpec => []NegotiateInv` |
| `ClosedJustified` | `NegotiateSpec => []ClosedIsJustified` |

The inductive invariant is `NegotiateTypeOK /\ PlaceInv /\ AcceptedIsExact /\ ClosedIsJustified`.
`PlaceInv` says where negotiate is while it parses: at a byte `p` of the stream before which
stand a greeting and, if required, a login, both answered, with buffer and wire together
holding exactly the bytes behind it (`Rest`). Reading keeps `Rest`, consuming `n`
bytes moves `p` by `n` (`DrainMoves`). For each parser two lemmas compare it with
the layout: *IsSound*, what it accepts is a message of the length it reports, and
*IsComplete*, a message at the front of the rest is parsed as soon as all of it is in
the buffer and is unfinished until then. The second, with the uniqueness of greeting and
login at a byte, gives `FailsUnacceptable`: no reason negotiate has for closing exists
for a stream it should accept. `NegotiateAssumption` says that streams and
users are byte strings, users are valid UTF-8, and `READ_BUF` is large enough.

The same module proves of `Egress` and `Datagram`, for every policy, every datagram, every answer of the resolver and
every payload, with real octets:

| theorem | statement |
|---|---|
| `BlockedIsDocumented` | `IsBlocked(p, a) <=> Forbidden(p, a.host)` for every policy and address of either family |
| `PolicyExact` | `DatagramSpec => []PolicyIsExact` |
| `DatagramExact` | `DatagramSpec => []DatagramIsExact` |
| `NoNotationEscapes` | an IPv4 address that is blocked is blocked in both IPv6 notations |
| `MappedIsExact` | in the mapped notation exactly the blocked IPv4 addresses are blocked |
| `BlockedIsRanges` | each of the 2^32 IPv4 addresses is decided as the documented ranges say |

`Forbidden` compares an address with the documented blocks bit by bit, `IsBlocked` is the
code's mixture of octets, segments and masks. The proof takes a block apart into
the octets before its border, which must be equal, the octet the border cuts, and the rest
(`Prefix`, `Borders`); a block of IPv4 behind the twelve octets of a notation is the
block at the last four (`BehindForm`), and `to_ipv4` finds exactly these notations
(`EmbedsIsForm`). The inductive invariant `DInv` says that a target is an address of its
family, is the one the client wrote unless that was a name (`TargetInv`), that the stage
agrees with what the policy was asked (`VerdictInv`), and what the answer was made of
(`ReplyInv`). Headers rest on the lemmas about `Decode` and `Encode` of
the first part, and on finding three joined pieces again (`ThreePieces`).
`DatagramAssumption` fixes the sizes of octets and addresses and the types of the inputs.

`ConnectProofs` proves of `Establish`, for any addresses and policy, any deadline and answers of any
length without repetitions:

| theorem | statement |
|---|---|
| `EstablishInvariant` | `EstablishSpec => []EstablishInv` |
| `SearchCompletes` | `EstablishSpec => []SearchIsComplete` |
| `NobodyStarves` | `EstablishSpec => []NoCandidateStarves` |
| `ErrorsAreHonest` | `EstablishSpec => []ErrorIsHonest` |

The inductive invariant adds three parts to `EstablishInv`. `DialTold` ties the flags that
the errors are made of to what was dialled. `TimeIsLeft` is the argument about
shares: as long as an address that was known in time still waits, the dial under way ends
before the deadline, unless only one waits and its dial comes next. `NothingLeft` says
that nothing is queued when the search is given up early.

The same module proves of `Relay`, for every idle window and size of a chunk:

| theorem | statement |
|---|---|
| `RelayInvariant` | `RelaySpec => []RelayInv` |
| `IdlenessCoupled` | `RelaySpec => IdleIsCoupled` |

`TimersCoupled` bounds the age of `last_activity` by one window for a direction that reads
and by two for one that writes, which is why three windows are the horizon;
`BufferCounted` is what FIN rests on; `QuietCounted` ties the history of moved bytes to
the timers: a direction without a chunk in hand moved its last byte when it completed a
write, or before.

`UdpProofs` proves, for any addresses, ranges of ports, cursor, cap, rate and timeouts:

| theorem | statement |
|---|---|
| `UdpInvariant` | `Spec => []UdpInv` |
| `SetupOutcomeIsExact` | `Spec => []SetupIsExact` |
| `Privacy` | `Spec => AssociationIsPrivate` |
| `RateIsBounded` | `Spec => []BurstIsBounded` |

The inductive invariant has a part for each. `SetupInv`: what was found busy are the ports of
the attempts made so far; that the attempts of a whole scan meet every port is arithmetic
modulo the width (`ModUnique` and the lemmas after it), and so is that a scan that jumps
misses one (`ScanMisses`). `TargetsInv`: the eviction queue
holds nothing twice, without which dropping its head could leave the target in the
filter's set or take another one's entry. `PrivateInv`: what was checked when the datagram
was read still holds after the lookup. `RateInv`: the sends of the last second are those of
the current window and those of one earlier one, and the budget that was checked is
still there when it is charged.

`AttachProofs` proves, for every capacity of bus, ring and socket and any number of events:

| theorem | statement |
|---|---|
| `AttachInvariant` | `Spec => []AttachInv` |
| `SeamHasNoGap` | `Spec => []NoGapAtSeam` |
| `NothingDropped` | `Spec => []NothingInFlightIsDropped` |

`StreamInv` follows an event from the server's bus to the client's: the ring is the last events its
filler received (`RingIsRecent`), what is replayed and what is streamed are two
runs of events that overlap or touch (`Joined`), and each frame in the socket is a
repetition or the next event (`PipeFits`). `FlightInv` says where the last event taken from
the server's bus is: with the handler, in the socket, or the last on the client's bus.

`DashboardProofs` proves, for any number of connections and events, every capacity of
channel and log, every page and every set of terminal heights:

| theorem | statement |
|---|---|
| `DashboardInvariant` | `Spec => []DashboardInv` |
| `ViewAnchored` | `Spec => ViewIsAnchored` |
| `KeysMove` | `Spec => ScrollKeysMove` |

`StoryInv` is what makes the log truthful: events in the channel agree with the life of
their connections (`EventsAreTrue`), lines with what was announced (`LinesAreTrue`), a
connection has at most one line or queued Connect (`OneLineEach`), without which
`mark_closed` could dim one line and leave another, and a Closed event never overtakes its
Connect (`CloseFollows`). `ViewInv` is the argument for the anchor: the offset is within
the log once a tick has seen the terminal (`OffsetIsClamped`), and the lines added so far
are what the view has to be moved by (`AnchorHolds`), after each single event of a drain.

`MetricsProofs` proves, for any finite set of tasks, any codes and any limits:

| theorem | statement |
|---|---|
| `BooksAndIds` | `Spec => []MetricsInv` |
| `SkewBounded` | `Spec => []SkewIsBounded` |

`Calls` says what may be left of a call: at most one effect of each kind, and nothing that
stands before the lock of `register` or `unregister` once that lock was taken. With it each step adds or removes one actor from the sets that
`BooksBalance` counts (`Owing`, `OwingArg`), and the books are cardinalities that change by
one. `IdsInv` adds that the ids in the registry are below `next_id`, that a register has its
id when it inserts, and that an id about to be removed is present and owned by nobody;
`LimitInv` counts the insertion under way against the limit of an actor. `SkewIsBounded` is not
inductive: what has been read stays while the counters move on. `SkewInv` bounds every
quantity of the sample by the most and the least it can still become if no more calls
begin (`High`, `Low`). An effect narrows these bounds or keeps them, a load narrows them, and a
call that begins widens them by one, which is what `overlap` counts; at the first load the
books give them.

The prover has no induction over data. Where a property seems to need one, the invariant
is chosen so that each step extends it by one element: the rest of a stream the rest of a stream instead of a of all of it, the set of ports met so far, "the next event after the last one decoded"
instead of "an interval".

Model-checked only:

- All liveness: it rests on fairness and ENABLED, which the prover does not handle.
  These are `ShutdownDrains`, `SlotsComeBack`, `RestartRecovers`, `ShutdownCompletes`,
  `SilentRelayEnds`, `TeardownHappens`, `IdleReclaimed`, `Returns`, `HandlerReclaimed` and
  `DashboardExits`.

Every invariant and every safety property of a step that a passing run checks is also a
theorem, of the module it is about. For the phases of a connection that is the
specification of the phase alone (`NegotiateSpec`, `EstablishSpec`, `RelaySpec`,
`DatagramSpec`); that they also hold when `Connection` joins the phases is
model-checked.

## 6. Not modelled

- The parsing of TOML and of the command line in `config.rs` and `main.rs`: sequential
  input handling by libraries, without a state that outlives it. The egress policy and
  the validity of a port range are modelled.
- Construction of the DNS resolver: the library does the work.
- Rendering, rates, ages and the order of rows in `tui/*.rs`: output.
- The amounts, names and waves of `mock.rs`; its calls are in `Metrics`, its end in
  `Process`.
- The postcard encoding of attach frames: a library.

## 7. Plan

Done: the core (`Admission`, `Server`, proofs), the admin socket with its refinement
and proofs, the phases of a connection with the setup of UDP and its datagrams, the
egress policy, metrics with the generator, attach, process, dashboard; proofs of every
safety property of every module.

Next, in this order:

1. Refinement of the phases of `Server` by `Connection` and `UdpRelay`: each detailed loop
   implements the step `Server` takes for it.
2. The invariants of the phases as theorems of `ConnectionSpec`.
