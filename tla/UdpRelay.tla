------------------------------ MODULE UdpRelay ------------------------------
(***************************************************************************)
(* One UDP association: udp::run of src/src/server/udp.rs.  Its setup is   *)
(* that of UdpSetup; this module adds the relay loop and the teardown.     *)
(*                                                                         *)
(* One task does everything: it selects among a datagram, the control      *)
(* connection and shutdown, and while it resolves or sends for one         *)
(* datagram it looks at nothing else.  Time is discrete; every await is    *)
(* bounded by its timeout, which fires before time passes again.           *)
(***************************************************************************)
EXTENDS UdpSetup, FiniteSets

CONSTANTS
  Addrs,         \* socket addresses of one family, ip and port
  ClientAddrs,   \* those whose ip is the control connection's client_ip
  Blocked,       \* those the egress policy refuses
  MaxTargets,    \* limits.udp_max_targets
  RatePps,       \* limits.udp_rate_pps: {} is None, {n} is Some(n)
  Second,        \* ticks in a second: the rate window, UDP_SEND_TIMEOUT
  ResolveTicks,  \* resolve_timeout, in ticks
  Idle           \* timeouts.udp_idle_ms, in ticks

ASSUME UdpAssumption ==
  /\ ClientAddrs \subseteq Addrs
  /\ Blocked \subseteq Addrs
  /\ MaxTargets \in Nat
  /\ RatePps \in SUBSET Nat
  /\ Second \in Nat \ {0}
  /\ ResolveTicks \in Nat
  /\ Idle \in Nat \ {0}

VARIABLES
  pc,               \* setup, select, resolving, sending, delivering, closed
  busy,             \* ticks since the current await began
  src, target,      \* the datagram in hand: its source and, once known, its target
  client_udp_addr,  \* {} is None, {a} is Some(a)
  known_targets,    \* the HashSet
  known_order,      \* the VecDeque
  window_age,       \* ticks since window_start, up to Second
  window_count,
  control,          \* the control connection: open, eof
  shutdown,         \* the shutdown branch is ready
  recent            \* history: the ages in ticks of the sends of the last second, under any keys

windowVars == <<window_age, window_count>>
targetVars == <<known_targets, known_order>>
inputVars == <<control, shutdown>>
vars == <<pc, busy, src, target, client_udp_addr, targetVars, windowVars,
          inputVars, recent, setup>>

\* cfg.limits.udp_max_targets.max(1)
Cap == IF MaxTargets = 0 THEN 1 ELSE MaxTargets

Init ==
  /\ SetupInit
  /\ pc = "setup"
  /\ busy = 0
  /\ src \in Addrs /\ target = src
  /\ client_udp_addr = {}
  /\ known_targets = {}
  /\ known_order = <<>>
  /\ window_age = 0
  /\ window_count = 0
  /\ control = "open"
  /\ shutdown = FALSE
  /\ recent = [key \in {} |-> 0]

\* The loop awaits something else; the new await starts now.
Goto(place) ==
  /\ pc' = place
  /\ busy' = 0

\* udp::run before its loop, which looks neither at the control connection nor at
\* shutdown.
Setup ==
  /\ pc = "setup"
  /\ SetupStep
  /\ Goto(IF setup' = Done THEN "select" ELSE IF setup' = Gone THEN "closed" ELSE "setup")
  /\ UNCHANGED <<src, target, client_udp_addr, targetVars, windowVars, inputVars, recent>>

-----------------------------------------------------------------------------
(* Branch A: a datagram from a.                                            *)

\* Variant: the source port is not compared.
IsClientByIp(a) == a \in ClientAddrs

IsClient(a) ==
  IF client_udp_addr = {} THEN a \in ClientAddrs ELSE client_udp_addr = {a}

\* Whatever the client's datagram holds, its source is locked at first contact.
FromClient(a) ==
  /\ pc = "select"
  /\ IsClient(a)
  /\ src' = a
  /\ client_udp_addr' = {a}
  /\ UNCHANGED <<targetVars, inputVars, recent, setup>>

\* Malformed, or a fragment.
ClientMalformed(a) ==
  /\ FromClient(a)
  /\ Goto("select")
  /\ UNCHANGED <<target, windowVars>>

\* The window the budget is checked against: a new one starts once a second has
\* passed since the last one did.
WindowCount == IF window_age >= Second THEN 0 ELSE window_count

RenewWindow ==
  /\ window_age' = IF RatePps # {} /\ window_age >= Second THEN 0 ELSE window_age
  /\ window_count' = WindowCount

\* Variant: the budget check is off by one.
WithinBudgetOneMore == \A limit \in RatePps : WindowCount <= limit

WithinBudget == \A limit \in RatePps : WindowCount < limit

ClientOverBudget(a) ==
  /\ FromClient(a)
  /\ ~ WithinBudget
  /\ RenewWindow
  /\ Goto("select")
  /\ UNCHANGED target

\* An address as target: sent to unless the egress policy refuses it.
ClientLiteral(a, t) ==
  /\ FromClient(a)
  /\ WithinBudget
  /\ RenewWindow
  /\ target' = t
  /\ Goto(IF t \in Blocked THEN "select" ELSE "sending")

ClientDomain(a) ==
  /\ FromClient(a)
  /\ WithinBudget
  /\ RenewWindow
  /\ Goto("resolving")
  /\ UNCHANGED target

\* The first address of the answer that the policy allows.
Resolved(t) ==
  /\ pc = "resolving"
  /\ t \notin Blocked
  /\ target' = t
  /\ Goto("sending")
  /\ UNCHANGED <<src, client_udp_addr, targetVars, windowVars, inputVars, recent, setup>>

\* No usable address, a resolver error, or resolve_timeout; the Error event of the latter
\* two, at most one a second, is Server's AssocLookupFails.
ResolveFails ==
  /\ pc = "resolving"
  /\ Goto("select")
  /\ UNCHANGED <<src, target, client_udp_addr, targetVars, windowVars, inputVars, recent, setup>>

\* Variant: eviction pops the queue and forgets the set.
TrackKeepsSet(t) ==
  LET grown == Append(known_order, t) IN
  IF t \in known_targets
    THEN UNCHANGED targetVars
    ELSE /\ known_order' = IF Len(grown) > Cap THEN Tail(grown) ELSE grown
         /\ known_targets' = known_targets \cup {t}

\* known_targets.insert, and the eviction of the oldest entry over the cap.
Track(t) ==
  LET grown == Append(known_order, t) IN
  IF t \in known_targets
    THEN UNCHANGED targetVars
    ELSE IF Len(grown) > Cap
           THEN /\ known_order' = Tail(grown)
                /\ known_targets' = (known_targets \cup {t}) \ {Head(grown)}
           ELSE /\ known_order' = grown
                /\ known_targets' = known_targets \cup {t}

\* A key no send of the last second has.
FreshKey == CHOOSE key \in 0 .. Cardinality(DOMAIN recent) : key \notin DOMAIN recent

\* send_to succeeded: the budget is charged and the target remembered.
SendDone ==
  /\ pc = "sending"
  /\ window_count' = IF RatePps = {} THEN window_count ELSE window_count + 1
  /\ Track(target)
  /\ Goto("select")
  /\ recent' = [key \in DOMAIN recent \cup {FreshKey} |->
                 IF key = FreshKey THEN 0 ELSE recent[key]]
  /\ UNCHANGED <<src, target, client_udp_addr, window_age, inputVars, setup>>

\* send_to failed, or UDP_SEND_TIMEOUT.
SendFails ==
  /\ pc = "sending"
  /\ Goto("select")
  /\ UNCHANGED <<src, target, client_udp_addr, targetVars, windowVars, inputVars, recent, setup>>

\* A reply of a known target: forwarded if the client's address is known.
FromTarget(a) ==
  /\ pc = "select"
  /\ ~ IsClient(a)
  /\ a \in known_targets
  /\ src' = a
  /\ Goto(IF client_udp_addr = {} THEN "select" ELSE "delivering")
  /\ UNCHANGED <<target, client_udp_addr, targetVars, windowVars, inputVars, recent, setup>>

\* The reply went to the client, or could not be sent; counted either way.
Delivered ==
  /\ pc = "delivering"
  /\ Goto("select")
  /\ UNCHANGED <<src, target, client_udp_addr, targetVars, windowVars, inputVars, recent, setup>>

\* Neither the client nor a known target: dropped, but the idle timer restarts.
FromStranger(a) ==
  /\ pc = "select"
  /\ ~ IsClient(a)
  /\ a \notin known_targets
  /\ src' = a
  /\ Goto("select")
  /\ UNCHANGED <<target, client_udp_addr, targetVars, windowVars, inputVars, recent, setup>>

Datagram(a) ==
  \/ ClientMalformed(a) \/ ClientOverBudget(a) \/ ClientDomain(a)
  \/ \E t \in Addrs : ClientLiteral(a, t)
  \/ FromTarget(a) \/ FromStranger(a)

-----------------------------------------------------------------------------
(* Teardown, and branches B and C.                                         *)

Close ==
  /\ pc = "select"
  /\ Goto("closed")
  /\ UNCHANGED <<src, target, client_udp_addr, targetVars, windowVars, inputVars, recent, setup>>

\* Variant: the idle timer is only armed once the client was heard.
IdleTimeoutAfterContact ==
  /\ busy = Idle
  /\ client_udp_addr # {}
  /\ Close

\* Nothing was selected for the whole window.
IdleTimeout ==
  /\ busy = Idle
  /\ Close

SocketError == Close

\* Bytes on the control connection are ignored, but the idle timer restarts.
ControlData ==
  /\ pc = "select"
  /\ control = "open"
  /\ Goto("select")
  /\ UNCHANGED <<src, target, client_udp_addr, targetVars, windowVars, inputVars, recent, setup>>

\* Variant: a read of zero bytes is taken for data.
ControlEofIgnored ==
  /\ control = "eof"
  /\ pc = "select"
  /\ Goto("select")
  /\ UNCHANGED <<src, target, client_udp_addr, targetVars, windowVars, inputVars, recent, setup>>

ControlClosed ==
  /\ control = "eof"
  /\ Close

ShutdownObserved ==
  /\ shutdown
  /\ Close

-----------------------------------------------------------------------------
(* The environment.                                                        *)

ClientCloses ==
  /\ control' = "eof"
  /\ UNCHANGED <<pc, busy, src, target, client_udp_addr, targetVars, windowVars,
                 shutdown, recent, setup>>

ShutdownRequested ==
  /\ shutdown' = TRUE
  /\ UNCHANGED <<pc, busy, src, target, client_udp_addr, targetVars, windowVars,
                 control, recent, setup>>

\* The timeout of what the loop awaits.
Limit ==
  IF pc = "select" THEN Idle ELSE IF pc = "resolving" THEN ResolveTicks ELSE Second

Tick ==
  /\ pc \notin {"setup", "closed"}
  /\ busy < Limit
  /\ busy' = busy + 1
  /\ window_age' = IF window_age < Second THEN window_age + 1 ELSE Second
  /\ recent' = [key \in {k \in DOMAIN recent : recent[k] + 1 < Second} |-> recent[key] + 1]
  /\ UNCHANGED <<pc, src, target, client_udp_addr, targetVars, window_count,
                 inputVars, setup>>

Resolve == ResolveFails \/ \E t \in Addrs : Resolved(t)
Send == SendDone \/ SendFails

Next ==
  \/ Setup
  \/ \E a \in Addrs : Datagram(a)
  \/ Resolve \/ Send \/ Delivered
  \/ IdleTimeout \/ SocketError \/ ControlData \/ ControlClosed \/ ShutdownObserved
  \/ ClientCloses \/ ShutdownRequested \/ Tick

Spec == Init /\ [][Next]_vars

\* The setup ends, its lookup by connect_ms; time passes, every await ends at its timeout at the latest, and a branch of
\* the select that is ready again and again is chosen in the end, because the
\* select starts at a random branch.  Nothing is assumed of the traffic.
Fairness ==
  /\ WF_vars(Setup)
  /\ WF_vars(Tick) /\ WF_vars(Resolve) /\ WF_vars(Send) /\ WF_vars(Delivered)
  /\ WF_vars(IdleTimeout)
  /\ SF_vars(ControlClosed) /\ SF_vars(ShutdownObserved)

FairSpec == Spec /\ Fairness

-----------------------------------------------------------------------------
(* Properties.                                                             *)

RecentOK ==
  /\ DOMAIN recent \in SUBSET Nat /\ IsFiniteSet(DOMAIN recent)
  /\ \A key \in DOMAIN recent : recent[key] \in 0 .. Second - 1

\* Every variable stays in its domain, and no await outlives its timeout.
TypeOK ==
  /\ pc \in {"setup", "select", "resolving", "sending", "delivering", "closed"}
  /\ busy \in 0 .. Limit
  /\ src \in Addrs /\ target \in Addrs
  /\ client_udp_addr \in SUBSET ClientAddrs
  /\ known_targets \in SUBSET Addrs
  /\ known_order \in Seq(Addrs)
  /\ window_age \in 0 .. Second
  /\ window_count \in Nat
  /\ control \in {"open", "eof"}
  /\ shutdown \in BOOLEAN
  /\ RecentOK
  /\ (pc = "setup") <=> (setup \notin {Done, Gone})
  /\ pc \notin {"setup", "closed"} => setup = Done

\* The set used to filter replies and the queue used to evict agree, name every
\* target once and stay within udp_max_targets, so memory is bounded and no target
\* becomes permanent because its queue entry was lost.
TargetsAgree ==
  /\ known_targets = {known_order[i] : i \in DOMAIN known_order}
  /\ Cardinality(known_targets) = Len(known_order)
  /\ Len(known_order) <= Cap

\* No await of the relay loop outlives its timeout, and TargetsAgree: the reply filter
\* and the eviction queue are the same targets, never more than udp_max_targets.
UdpInv == TypeOK /\ TargetsAgree

\* The association belongs to the first source that spoke for the client: it never
\* changes hands, a target is learned only from its datagrams and only if the egress
\* policy allows it, and nothing is delivered before it is known.
AssociationIsPrivate ==
  [][/\ client_udp_addr # {} => client_udp_addr' = client_udp_addr
     /\ \A t \in known_targets' \ known_targets :
          client_udp_addr = {src} /\ t \notin Blocked
     /\ pc' = "delivering" => client_udp_addr # {} /\ src' \in known_targets]_vars

SentLastSecond == Cardinality(DOMAIN recent)

\* udp_rate_pps: a window that opens while another one's datagrams are still in the
\* last second can at most double the rate; resolving for long between the check and
\* the charge does not add to that.
BurstIsBounded == \A limit \in RatePps : SentLastSecond <= 2 * limit

\* A client that closes its control connection, or a server that shuts down, gets
\* rid of the association, whether it is still being set up, however busy the relay
\* socket is and whatever the loop is waiting for.
TeardownHappens == control = "eof" \/ shutdown ~> pc = "closed"

Traffic == ControlData \/ \E a \in Addrs : Datagram(a)

\* README.md: "idle reclaim".  An association on which nothing arrives any more is
\* closed, even if the control connection stays open.
IdleReclaimed == <>[][~ Traffic]_vars => <>(pc = "closed")

=============================================================================
