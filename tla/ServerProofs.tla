---------------------------- MODULE ServerProofs ----------------------------
(***************************************************************************)
(* Proofs about Server for any finite set of connections, any assignment   *)
(* of addresses to them and any caps.  The accounting of permits and of    *)
(* metrics is proved from two facts about each step: whether it changes    *)
(* the set of tasks that own a permit, and whether it changes the set of   *)
(* connections that are registered.                                        *)
(***************************************************************************)
EXTENDS Server, FiniteSetTheorems, SequenceTheorems, TLAPS

Inv == TypeOK /\ PermitAccounting /\ CapsRespected /\ MetricsBalance /\ TaskInv

Registered == {c \in Conns : phase[c] \in RegisteredPhases}

-----------------------------------------------------------------------------
(* Counting.                                                               *)

\* The sets that the counters count are finite.
LEMMA CountsAreNatural ==
  ASSUME NEW S \in SUBSET Conns
  PROVE  IsFiniteSet(S) /\ Cardinality(S) \in Nat
  BY ServerAssumption, FS_Subset, FS_CardinalityType

\* A set of connections that gains one counts one more.
LEMMA CountAdded ==
  ASSUME NEW S \in SUBSET Conns, NEW c \in Conns, c \notin S
  PROVE  Cardinality(S \cup {c}) = Cardinality(S) + 1
  BY CountsAreNatural, FS_AddElement

\* A set of connections that loses one counts one less.
LEMMA CountRemoved ==
  ASSUME NEW S \in SUBSET Conns, NEW c \in S
  PROVE  /\ Cardinality(S) > 0
         /\ Cardinality(S \ {c}) = Cardinality(S) - 1
         /\ Cardinality(S) = 1 <=> S \ {c} = {}
<1>1. IsFiniteSet(S) /\ Cardinality(S) \in Nat /\ IsFiniteSet(S \ {c})
      /\ Cardinality(S \ {c}) \in Nat
  BY CountsAreNatural
<1>2. Cardinality(S \ {c}) = Cardinality(S) - 1
  BY <1>1, FS_RemoveElement
<1>3. Cardinality(S \ {c}) = 0 <=> S \ {c} = {}
  BY <1>1, FS_EmptySet
<1> QED
  BY <1>1, <1>2, <1>3

-----------------------------------------------------------------------------
(* Permits.                                                                *)

Accounts == PermitAccounting /\ CapsRespected

\* A step that neither starts nor ends the ownership of a permit.
LEMMA SameLive ==
  ASSUME Accounts, Live' = Live, UNCHANGED admissionVars
  PROVE  Accounts'
<1>1. \A ip : LiveFrom(ip)' = LiveFrom(ip)
  BY DEF LiveFrom
<1> QED
  BY <1>1 DEF Accounts, PermitAccounting, CapsRespected, admissionVars

\* try_admit granting a permit to c.
LEMMA AdmitAccounts ==
  ASSUME TypeOK, Accounts, NEW c \in Conns, c \notin Live,
         Live' = Live \cup {c}, Admit(IpOf[c])
  PROVE  Accounts'
<1> DEFINE ip == IpOf[c]
<1>1. ip \in IPs /\ Live \in SUBSET Conns /\ \A i : LiveFrom(i) \in SUBSET Conns
  BY ServerAssumption DEF Live, LiveFrom
<1>2. Cardinality(Live') = Cardinality(Live) + 1
  BY <1>1, CountAdded
<1>3. LiveFrom(ip)' = LiveFrom(ip) \cup {c} /\ c \notin LiveFrom(ip)
  BY DEF LiveFrom
<1>4. Cardinality(LiveFrom(ip)') = Cardinality(LiveFrom(ip)) + 1
  BY <1>1, <1>3, CountAdded
<1>5. \A i : i # ip => LiveFrom(i)' = LiveFrom(i)
  BY DEF LiveFrom
<1>6. CountOf(ip) = Cardinality(LiveFrom(ip))
  <2>1. CASE ip \in DOMAIN per_ip
    BY <2>1 DEF CountOf, Accounts, PermitAccounting
  <2>2. CASE ip \notin DOMAIN per_ip
    <3>1. LiveFrom(ip) = {}
      BY <2>2 DEF Accounts, PermitAccounting, LiveFrom
    <3> QED
      BY <2>2, <3>1, FS_EmptySet DEF CountOf
  <2> QED
    BY <2>1, <2>2
<1>7. PermitAccounting'
  <2>1. total' = Cardinality(Live')
    BY <1>2 DEF Accounts, PermitAccounting, Admit
  <2>2. DOMAIN per_ip' = {IpOf[d] : d \in Live'}
    BY DEF Accounts, PermitAccounting, Admit
  <2>3. ASSUME NEW i \in DOMAIN per_ip' PROVE per_ip'[i] = Cardinality(LiveFrom(i)')
    <3>1. CASE i = ip
      BY <3>1, <1>4, <1>6 DEF Admit
    <3>2. CASE i # ip
      BY <3>2, <1>5 DEF Admit, Accounts, PermitAccounting
    <3> QED
      BY <3>1, <3>2
  <2> QED
    BY <2>1, <2>2, <2>3 DEF PermitAccounting
<1>8. CapsRespected'
  <2>1. \A max \in MaxTotal : Cardinality(Live') <= max
    BY <1>1, <1>2, CountsAreNatural, LimitsAssumption
    DEF Admit, Admissible, Accounts, PermitAccounting
  <2>2. ASSUME NEW max \in MaxPerIp, NEW i \in IPs
        PROVE  Cardinality(LiveFrom(i)') <= max
    <3>1. CASE i = ip
      BY <3>1, <1>1, <1>4, <1>6, CountsAreNatural, LimitsAssumption DEF Admit, Admissible
    <3>2. CASE i # ip
      BY <3>2, <1>5 DEF Accounts, CapsRespected
    <3> QED
      BY <3>1, <3>2
  <2> QED
    BY <2>1, <2>2 DEF CapsRespected
<1> QED
  BY <1>7, <1>8 DEF Accounts

\* Dropping the permit of c.
LEMMA ReleaseAccounts ==
  ASSUME TypeOK, Accounts, NEW c \in Live, Live' = Live \ {c}, Release(IpOf[c])
  PROVE  Accounts'
<1> DEFINE ip == IpOf[c]
<1>1. c \in Conns /\ ip \in IPs /\ Live \in SUBSET Conns
      /\ \A i : LiveFrom(i) \in SUBSET Conns
  BY ServerAssumption DEF Live, LiveFrom
<1>2. Cardinality(Live) \in Nat /\ Cardinality(Live) > 0
      /\ Cardinality(Live') = Cardinality(Live) - 1
  BY <1>1, CountRemoved, CountsAreNatural
<1>3. LiveFrom(ip)' = LiveFrom(ip) \ {c} /\ c \in LiveFrom(ip)
  BY DEF LiveFrom
<1>4. /\ Cardinality(LiveFrom(ip)) \in Nat
      /\ Cardinality(LiveFrom(ip)') = Cardinality(LiveFrom(ip)) - 1
      /\ Cardinality(LiveFrom(ip)) = 1 <=> LiveFrom(ip)' = {}
  BY <1>1, <1>3, CountRemoved, CountsAreNatural
<1>5. \A i : i # ip => LiveFrom(i)' = LiveFrom(i)
  BY DEF LiveFrom
<1>6. ip \in DOMAIN per_ip /\ per_ip[ip] = Cardinality(LiveFrom(ip))
  BY DEF Accounts, PermitAccounting
<1>7. PermitAccounting'
  <2>1. total' = Cardinality(Live')
    BY <1>2 DEF Accounts, PermitAccounting, Release
  <2>2. DOMAIN per_ip' = {IpOf[d] : d \in Live'}
    <3>1. DOMAIN per_ip = {IpOf[d] : d \in Live}
      BY DEF Accounts, PermitAccounting
    <3>2. CASE per_ip[ip] = 1
      <4>1. DOMAIN per_ip' = DOMAIN per_ip \ {ip}
        BY <3>2, <1>6 DEF Release
      <4>2. \A d \in Live' : IpOf[d] # ip
        BY <3>2, <1>4, <1>6 DEF LiveFrom
      <4> QED
        BY <4>1, <4>2, <3>1
    <3>3. CASE per_ip[ip] # 1
      <4>1. DOMAIN per_ip' = DOMAIN per_ip
        BY <3>3, <1>6 DEF Release
      <4>2. \E d \in Live' : IpOf[d] = ip
        BY <3>3, <1>4, <1>6 DEF LiveFrom
      <4> QED
        BY <4>1, <4>2, <3>1
    <3> QED
      BY <3>2, <3>3
  <2>3. ASSUME NEW i \in DOMAIN per_ip' PROVE per_ip'[i] = Cardinality(LiveFrom(i)')
    <3>1. CASE i = ip
      BY <3>1, <1>4, <1>6 DEF Release
    <3>2. CASE i # ip
      BY <3>2, <1>5, <1>6 DEF Release, Accounts, PermitAccounting
    <3> QED
      BY <3>1, <3>2
  <2> QED
    BY <2>1, <2>2, <2>3 DEF PermitAccounting
<1>8. CapsRespected'
  <2>1. \A max \in MaxTotal : Cardinality(Live') <= max
    BY <1>2, LimitsAssumption DEF Accounts, CapsRespected
  <2>2. ASSUME NEW max \in MaxPerIp, NEW i \in IPs
        PROVE  Cardinality(LiveFrom(i)') <= max
    <3>1. CASE i = ip
      BY <3>1, <1>1, <1>4, LimitsAssumption DEF Accounts, CapsRespected
    <3>2. CASE i # ip
      BY <3>2, <1>5 DEF Accounts, CapsRespected
    <3> QED
      BY <3>1, <3>2
  <2> QED
    BY <2>1, <2>2 DEF CapsRespected
<1> QED
  BY <1>7, <1>8 DEF Accounts

-----------------------------------------------------------------------------
(* Metrics.                                                                *)

\* A step that moves c to another phase adds it to, or removes it from, the sets
\* that the phase decides.
LEMMA PhaseMoves ==
  ASSUME NEW c \in Conns, \A d \in Conns : d # c => phase'[d] = phase[d]
  PROVE  /\ Live' = IF phase'[c] \in PermitPhases THEN Live \cup {c} ELSE Live \ {c}
         /\ Registered' = IF phase'[c] \in RegisteredPhases
                            THEN Registered \cup {c} ELSE Registered \ {c}
         /\ c \in Live <=> phase[c] \in PermitPhases
         /\ c \in Registered <=> phase[c] \in RegisteredPhases
  BY DEF Live, Registered

\* A step that registers and unregisters nothing.
LEMMA SameRegistered ==
  ASSUME MetricsBalance, Registered' = Registered,
         UNCHANGED <<registry, active_conns, total_conns, successes>>
  PROVE  MetricsBalance'
<1>1. Registered' \subseteq Live'
  BY DEF Registered, Live, RegisteredPhases, PermitPhases
<1> QED
  BY <1>1 DEF MetricsBalance, Registered

\* Metrics::register.
LEMMA RegisterBalance ==
  ASSUME TypeOK, MetricsBalance, NEW c \in Conns, c \notin Registered,
         Registered' = Registered \cup {c}, Register(c)
  PROVE  MetricsBalance'
<1>1. Registered' \subseteq Live'
  BY DEF Registered, Live, RegisteredPhases, PermitPhases
<1>2. registry = Registered /\ registry \in SUBSET Conns
  BY DEF MetricsBalance, Registered
<1>3. Cardinality(registry') = Cardinality(registry) + 1
  BY <1>2, CountAdded DEF Register
<1>4. registry' = Registered'
  BY <1>2 DEF Register
<1> QED
  BY <1>1, <1>3, <1>4 DEF MetricsBalance, Registered, Register, TypeOK

\* record_success and unregister.
LEMMA UnregisterBalance ==
  ASSUME TypeOK, MetricsBalance, NEW c \in Registered,
         Registered' = Registered \ {c}, RecordAndUnregister(c)
  PROVE  MetricsBalance' /\ active_conns' \in Nat
<1>1. Registered' \subseteq Live'
  BY DEF Registered, Live, RegisteredPhases, PermitPhases
<1>2. registry = Registered /\ registry \in SUBSET Conns
  BY DEF MetricsBalance, Registered
<1>3. Cardinality(registry') = Cardinality(registry) - 1 /\ Cardinality(registry) > 0
      /\ Cardinality(registry) \in Nat
  BY <1>2, CountRemoved, CountsAreNatural DEF RecordAndUnregister
<1>4. registry' = Registered'
  BY <1>2 DEF RecordAndUnregister
<1>5. active_conns' = Cardinality(registry') /\ active_conns' \in Nat
  BY <1>3 DEF MetricsBalance, RecordAndUnregister
<1>6. total_conns' = active_conns' + successes'
  BY <1>3 DEF MetricsBalance, RecordAndUnregister, TypeOK
<1> QED
  BY <1>1, <1>4, <1>5, <1>6 DEF MetricsBalance, Registered

-----------------------------------------------------------------------------
(* The steps.                                                              *)

\* The invariant holds before the first connection.
LEMMA InitInv == Init => Inv
<1> SUFFICES ASSUME Init PROVE Inv
  OBVIOUS
<1>1. Live = {} /\ Registered = {} /\ \A ip : LiveFrom(ip) = {}
  BY DEF Init, Live, LiveFrom, Registered, PermitPhases, RegisteredPhases
<1>2. TypeOK
  BY DEF Init, AdmissionInit, TypeOK, Phases
<1>3. PermitAccounting
  BY <1>1, FS_EmptySet DEF Init, AdmissionInit, PermitAccounting
<1>4. CapsRespected
  BY <1>1, FS_EmptySet, LimitsAssumption DEF CapsRespected
<1>5. MetricsBalance
  BY <1>1, FS_EmptySet DEF Init, MetricsBalance, Registered
<1>6. TaskInv
  BY <1>1 DEF Init, TaskInv, RegisteredPhases
<1> QED
  BY <1>2, <1>3, <1>4, <1>5, <1>6 DEF Inv

\* The loop and its environment: steps that leave every task where it is.
LEMMA LoopInv ==
  ASSUME Inv, \/ SendShutdown \/ DropSender \/ AcceptError \/ BackoffElapsed
              \/ LoopObservesShutdown \/ DrainComplete \/ \E c \in Conns : Reap(c)
  PROVE  Inv'
<1> USE DEF Inv
<1>1. UNCHANGED <<admissionVars, metricsVars, taskVars>>
  BY DEF SendShutdown, DropSender, AcceptError, BackoffElapsed, LoopObservesShutdown,
         DrainComplete, Reap
<1>2. Live' = Live /\ Registered' = Registered
  BY <1>1 DEF Live, Registered, taskVars
<1>3. PermitAccounting' /\ CapsRespected'
  BY <1>1, <1>2, SameLive DEF Accounts
<1>4. MetricsBalance'
  BY <1>1, <1>2, SameRegistered DEF metricsVars
<1>5. TypeOK'
  <2>1. watch' \in [value : BOOLEAN, version : Nat, open : BOOLEAN]
    <3>0. watch.value \in BOOLEAN /\ watch.version \in Nat /\ watch.version + 1 \in Nat
      BY DEF TypeOK
    <3>1. CASE SendShutdown \/ DropSender
      <4>1. watch \in [value : BOOLEAN, version : Nat, open : BOOLEAN]
        BY DEF TypeOK
      <4>2. CASE SendShutdown
        BY <3>0, <4>1, <4>2, Zenon DEF SendShutdown
      <4>3. CASE DropSender
        BY <3>0, <4>1, <4>3, Zenon DEF DropSender
      <4> QED
        BY <3>1, <4>2, <4>3
    <3>2. CASE UNCHANGED watch
      BY <3>2 DEF TypeOK
    <3> QED
      BY <3>1, <3>2 DEF AcceptError, BackoffElapsed, LoopObservesShutdown,
                        DrainComplete, Reap
  <2>2. loop' \in {"select", "backoff", "drain", "returned"} /\ loop_seen' \in Nat
        /\ tasks' \in SUBSET Conns
    BY DEF TypeOK, SendShutdown, DropSender, AcceptError, BackoffElapsed,
           LoopObservesShutdown, DrainComplete, Reap
  <2> QED
    BY <1>1, <2>1, <2>2 DEF TypeOK, admissionVars, metricsVars, taskVars
<1>6. Live \subseteq tasks' /\ (loop' = "returned" => tasks' = {})
  BY DEF TaskInv, TypeOK, Live, PermitPhases, SendShutdown, DropSender, AcceptError,
         BackoffElapsed, LoopObservesShutdown, DrainComplete, Reap
<1>7. TaskInv'
  BY <1>1, <1>2, <1>6 DEF TaskInv, taskVars
<1> QED
  BY <1>3, <1>4, <1>5, <1>7

\* A client arrives or is turned away.
LEMMA OutsideInv ==
  ASSUME Inv, NEW c \in Conns, ClientConnects(c) \/ AcceptRejected(c)
  PROVE  Inv'
<1> USE DEF Inv
<1>1. /\ UNCHANGED <<admissionVars, metricsVars, loopVars, seen, reply, trace>>
      /\ phase[c] \in {"absent", "backlog"} /\ phase'[c] \in {"backlog", "rejected"}
      /\ phase' \in [Conns -> Phases]
      /\ \A d \in Conns : d # c => phase'[d] = phase[d]
  BY DEF ClientConnects, AcceptRejected, Refuse, TypeOK, Phases
<1>2. Live' = Live /\ Registered' = Registered
  BY <1>1, PhaseMoves DEF PermitPhases, RegisteredPhases
<1>3. PermitAccounting' /\ CapsRespected'
  BY <1>1, <1>2, SameLive DEF Accounts
<1>4. MetricsBalance'
  BY <1>1, <1>2, SameRegistered DEF metricsVars
<1>5. TypeOK'
  BY <1>1 DEF TypeOK, admissionVars, metricsVars, loopVars
<1>6. TaskInv'
  BY <1>1, <1>2 DEF TaskInv, TypeOK, loopVars, RegisteredPhases
<1> QED
  BY <1>3, <1>4, <1>5, <1>6

\* accept and a granted permit: the task is spawned.
LEMMA AdmittedInv ==
  ASSUME Inv, NEW c \in Conns, AcceptAdmitted(c)
  PROVE  Inv'
<1> USE DEF Inv
<1>1. c \notin Live /\ Live' = Live \cup {c} /\ Registered' = Registered
  <2>1. /\ phase[c] = "backlog" /\ phase'[c] = "handshake"
        /\ \A d \in Conns : d # c => phase'[d] = phase[d]
    BY DEF AcceptAdmitted, TypeOK
  <2> QED
    BY <2>1, PhaseMoves DEF PermitPhases, RegisteredPhases
<1>2. PermitAccounting' /\ CapsRespected'
  BY <1>1, AdmitAccounts DEF AcceptAdmitted, Accounts
<1>3. MetricsBalance'
  BY <1>1, SameRegistered DEF AcceptAdmitted, metricsVars
<1>4. total' \in Nat /\ DOMAIN per_ip' \in SUBSET IPs
      /\ per_ip' \in [DOMAIN per_ip' -> Nat]
  <2>1. IpOf[c] \in IPs /\ CountOf(IpOf[c]) \in Nat
    BY ServerAssumption DEF CountOf, TypeOK
  <2> QED
    BY <2>1 DEF AcceptAdmitted, Admit, TypeOK
<1>5. TypeOK'
  BY <1>4 DEF TypeOK, AcceptAdmitted, metricsVars, Phases
<1>6. TaskInv'
  BY <1>1 DEF TaskInv, TypeOK, AcceptAdmitted, RegisteredPhases
<1> QED
  BY <1>2, <1>3, <1>5, <1>6

Events == {"Connect", "Closed", "Error"}

\* What the next event makes of the trace of a registered connection.
LEMMA NextEvent ==
  ASSUME NEW t \in Seq(Events), Opened(t)
  PROVE  Opened(Append(t, "Error")) /\ Paired(Append(t, "Closed"))
<1>1. ASSUME NEW e \in Events
      PROVE  /\ Len(Append(t, e)) = Len(t) + 1 /\ Len(t) \in Nat
             /\ Append(t, e)[Len(t) + 1] = e
             /\ \A i \in 1 .. Len(t) : Append(t, e)[i] = t[i]
  OBVIOUS
<1>2. "Error" \in Events /\ "Closed" \in Events
  BY DEF Events
<1>3. Opened(Append(t, "Error"))
  BY <1>1, <1>2 DEF Opened
<1>4. Paired(Append(t, "Closed"))
  BY <1>1, <1>2 DEF Opened, Paired
<1> QED
  BY <1>3, <1>4

\* A trace is open, paired, or neither.
LEMMA Shapes ==
  /\ Opened(<<"Connect">>)
  /\ ~ Opened(<<>>) /\ ~ Paired(<<>>)
  /\ ~ Opened(<<"Error">>) /\ ~ Paired(<<"Error">>)
  /\ \A t \in Seq(Events) : Paired(t) => ~ Opened(t)
<1>1. ASSUME NEW t \in Seq(Events), Paired(t) PROVE ~ Opened(t)
  <2>1. Len(t) \in 2 .. Len(t) /\ t[Len(t)] = "Closed"
    BY <1>1 DEF Paired
  <2> QED
    BY <2>1 DEF Opened
<1> QED
  BY <1>1 DEF Opened, Paired

\* Moving between two phases that both own the permit leaves the accounting alone.
LEMMA KeepsPermit ==
  ASSUME Inv, NEW c \in Conns, UNCHANGED OutsideTask,
         phase[c] \in PermitPhases, phase'[c] \in PermitPhases,
         \A d \in Conns : d # c => phase'[d] = phase[d]
  PROVE  /\ Live' = Live
         /\ PermitAccounting' /\ CapsRespected'
         /\ Live' \subseteq tasks' /\ (loop' = "returned" => tasks' = {})
<1>1. Live' = Live
  BY PhaseMoves
<1>2. PermitAccounting' /\ CapsRespected'
  BY <1>1, SameLive DEF Inv, Accounts, OutsideTask
<1> QED
  BY <1>1, <1>2 DEF Inv, TaskInv, OutsideTask, loopVars

\* A step that sends nothing and counts nothing: giving up, or moving on to the
\* next phase.
LEMMA SilentInv ==
  ASSUME Inv, NEW c \in Conns,
         \/ HandshakeAborted(c) \/ RequestConnect(c) \/ RequestUdpAssociate(c)
         \/ ConnectReplyLost(c) \/ InitialWritten(c) \/ UdpReplyLost(c)
  PROVE  Inv'
<1> USE DEF Inv
<1>1. /\ \/ /\ phase[c] \in {"handshake", "dialing", "binding"}
            /\ phase'[c] \in {"dialing", "binding", "ending"}
         \/ phase[c] = "initial" /\ phase'[c] = "relaying"
      /\ phase' \in [Conns -> Phases]
      /\ \A d \in Conns : d # c => phase'[d] = phase[d]
  BY DEF HandshakeAborted, RequestConnect, RequestUdpAssociate, ConnectReplyLost,
         InitialWritten, UdpReplyLost, Goto, TypeOK, Phases
<1>2. UNCHANGED <<OutsideTask, metricsVars, reply, trace>>
  BY DEF HandshakeAborted, RequestConnect, RequestUdpAssociate, ConnectReplyLost,
         InitialWritten, UdpReplyLost
<1>3. /\ PermitAccounting' /\ CapsRespected'
      /\ Live' \subseteq tasks' /\ (loop' = "returned" => tasks' = {})
  BY <1>1, <1>2, KeepsPermit DEF PermitPhases
<1>4. Registered' = Registered
  BY <1>1, PhaseMoves DEF RegisteredPhases
<1>5. MetricsBalance'
  BY <1>2, <1>4, SameRegistered DEF metricsVars
<1>6. TypeOK'
  BY <1>1, <1>2 DEF TypeOK, OutsideTask, admissionVars, loopVars, metricsVars
<1>7. TaskInv'
  BY <1>1, <1>2, <1>3 DEF TaskInv, RegisteredPhases
<1> QED
  BY <1>3, <1>5, <1>6, <1>7

\* A step that answers with a failure and reports it, counted or not.
LEMMA RefusedInv ==
  ASSUME Inv, NEW c \in Conns,
         \/ RequestRefused(c) \/ EstablishFails(c)
         \/ UdpBindFails(c) \/ UdpAdvertiseFails(c)
  PROVE  Inv'
<1> USE DEF Inv
<1>1. /\ phase[c] \in {"handshake", "dialing", "binding"} /\ phase'[c] = "ending"
      /\ phase' \in [Conns -> Phases]
      /\ \A d \in Conns : d # c => phase'[d] = phase[d]
  BY DEF RequestRefused, EstablishFails, UdpBindFails, UdpAdvertiseFails, Goto,
         TypeOK, Phases
<1>2. /\ UNCHANGED <<OutsideTask, registry, active_conns, total_conns, successes>>
      /\ failures' \in Nat
  BY DEF RequestRefused, EstablishFails, UdpBindFails, UdpAdvertiseFails, RecordError,
         metricsVars, TypeOK
<1>3. \E code \in {"0x02", "failed"} : Answer(c, code)
  BY DEF RequestRefused, EstablishFails, UdpBindFails, UdpAdvertiseFails
<1>4. Emit(c, "Error") /\ trace[c] = <<>>
  BY <1>1 DEF RequestRefused, EstablishFails, UdpBindFails, UdpAdvertiseFails, TaskInv
<1>5. /\ PermitAccounting' /\ CapsRespected'
      /\ Live' \subseteq tasks' /\ (loop' = "returned" => tasks' = {})
  BY <1>1, <1>2, KeepsPermit DEF PermitPhases
<1>6. Registered' = Registered
  BY <1>1, PhaseMoves DEF RegisteredPhases
<1>7. MetricsBalance'
  BY <1>2, <1>6, SameRegistered
<1>8. /\ trace' \in [Conns -> Seq({"Connect", "Closed", "Error"})]
      /\ trace'[c] = <<"Error">>
      /\ \A d \in Conns : d # c => trace'[d] = trace[d]
  BY <1>4 DEF Emit, TypeOK
<1>9. /\ reply' \in [Conns -> {"none", "succeeded", "0x02", "failed"}]
      /\ reply'[c] \in {"0x02", "failed"}
      /\ \A d \in Conns : d # c => reply'[d] = reply[d]
  BY <1>3 DEF Answer, TypeOK
<1>10. TypeOK'
  BY <1>1, <1>2, <1>8, <1>9 DEF TypeOK, OutsideTask, admissionVars, loopVars
<1>11. TaskInv'
  BY <1>1, <1>5, <1>8, <1>9 DEF TaskInv, RegisteredPhases
<1> QED
  BY <1>5, <1>7, <1>10, <1>11

\* The success reply, the registration and the Connect event.
LEMMA EstablishedInv ==
  ASSUME Inv, NEW c \in Conns, ConnectEstablished(c) \/ UdpAssociated(c)
  PROVE  Inv'
<1> USE DEF Inv
<1>1. /\ phase[c] \in {"dialing", "binding"} /\ phase'[c] \in {"initial", "assoc"}
      /\ phase' \in [Conns -> Phases]
      /\ \A d \in Conns : d # c => phase'[d] = phase[d]
  BY DEF ConnectEstablished, UdpAssociated, Goto, TypeOK, Phases
<1>2. /\ UNCHANGED OutsideTask /\ Register(c)
      /\ Answer(c, "succeeded") /\ Emit(c, "Connect")
  BY DEF ConnectEstablished, UdpAssociated
<1>3. /\ PermitAccounting' /\ CapsRespected'
      /\ Live' \subseteq tasks' /\ (loop' = "returned" => tasks' = {})
  BY <1>1, <1>2, KeepsPermit DEF PermitPhases
<1>4. c \notin Registered /\ Registered' = Registered \cup {c}
  BY <1>1, PhaseMoves DEF RegisteredPhases
<1>5. MetricsBalance'
  BY <1>2, <1>4, RegisterBalance
<1>6. trace[c] = <<>>
  BY <1>1 DEF TaskInv
<1>7. /\ trace' \in [Conns -> Seq({"Connect", "Closed", "Error"})]
      /\ trace'[c] = <<"Connect">>
      /\ \A d \in Conns : d # c => trace'[d] = trace[d]
  BY <1>2, <1>6 DEF Emit, TypeOK
<1>8. /\ reply' \in [Conns -> {"none", "succeeded", "0x02", "failed"}]
      /\ reply'[c] = "succeeded"
      /\ \A d \in Conns : d # c => reply'[d] = reply[d]
  BY <1>2 DEF Answer, TypeOK
<1>9. TypeOK'
  BY <1>1, <1>2, <1>7, <1>8, SMTT(20)
  DEF TypeOK, OutsideTask, admissionVars, loopVars, Register
<1>10. TaskInv'
  BY <1>1, <1>3, <1>7, <1>8, Shapes, ZenonT(30) DEF TaskInv, RegisteredPhases
<1> QED
  BY <1>3, <1>5, <1>9, <1>10

\* The teardown of either relay.
LEMMA TeardownInv ==
  ASSUME Inv, NEW c \in Conns,
         \/ InitialFails(c) \/ RelayEnds(c) \/ RelayShutdown(c)
         \/ AssocEnds(c) \/ AssocShutdown(c)
  PROVE  Inv'
<1> USE DEF Inv
<1>1. \E from \in RegisteredPhases : Teardown(c, from)
  BY DEF InitialFails, RelayEnds, RelayShutdown, AssocEnds, AssocShutdown,
         RegisteredPhases
<1>2. /\ phase[c] \in RegisteredPhases /\ phase'[c] = "ending"
      /\ phase' \in [Conns -> Phases]
      /\ \A d \in Conns : d # c => phase'[d] = phase[d]
  BY <1>1 DEF Teardown, Goto, TypeOK, Phases
<1>3. /\ UNCHANGED <<OutsideTask, reply>> /\ RecordAndUnregister(c)
      /\ Emit(c, "Closed")
  BY <1>1 DEF Teardown
<1>4. /\ PermitAccounting' /\ CapsRespected'
      /\ Live' \subseteq tasks' /\ (loop' = "returned" => tasks' = {})
  BY <1>2, <1>3, KeepsPermit DEF PermitPhases, RegisteredPhases
<1>5. c \in Registered /\ Registered' = Registered \ {c}
  BY <1>2, PhaseMoves DEF RegisteredPhases
<1>6. MetricsBalance' /\ active_conns' \in Nat
  BY <1>3, <1>5, UnregisterBalance
<1>7. Opened(trace[c]) /\ reply[c] = "succeeded" /\ trace[c] \in Seq(Events)
  BY <1>2 DEF TaskInv, TypeOK, Events
<1>8. /\ trace' \in [Conns -> Seq({"Connect", "Closed", "Error"})]
      /\ Paired(trace'[c])
      /\ \A d \in Conns : d # c => trace'[d] = trace[d]
  <2>1. Append(trace[c], "Closed") \in Seq(Events) /\ Paired(Append(trace[c], "Closed"))
    BY <1>7, NextEvent DEF Events
  <2>2. trace' = [trace EXCEPT ![c] = Append(trace[c], "Closed")]
    BY <1>3 DEF Emit
  <2> QED
    BY <2>1, <2>2 DEF TypeOK, Events
<1>9. TypeOK'
  BY <1>2, <1>3, <1>6, <1>8, SMTT(20)
  DEF TypeOK, OutsideTask, admissionVars, loopVars, RecordAndUnregister
<1>10. TaskInv'
  BY <1>2, <1>3, <1>4, <1>7, <1>8 DEF TaskInv, RegisteredPhases
<1> QED
  BY <1>4, <1>6, <1>9, <1>10

\* A failed lookup of a live association adds its event and nothing else.
LEMMA LookupInv ==
  ASSUME Inv, NEW c \in Conns, AssocLookupFails(c)
  PROVE  Inv'
<1> USE DEF Inv
<1>1. /\ UNCHANGED <<OutsideTask, metricsVars, phase, reply>>
      /\ phase[c] = "assoc" /\ Emit(c, "Error")
  BY DEF AssocLookupFails
<1>2. Opened(trace[c]) /\ trace[c] \in Seq(Events)
  BY <1>1 DEF TaskInv, TypeOK, Events, RegisteredPhases
<1>3. /\ trace' \in [Conns -> Seq({"Connect", "Closed", "Error"})]
      /\ Opened(trace'[c])
      /\ \A d \in Conns : d # c => trace'[d] = trace[d]
  <2>1. Append(trace[c], "Error") \in Seq(Events) /\ Opened(Append(trace[c], "Error"))
    BY <1>2, NextEvent DEF Events
  <2>2. trace' = [trace EXCEPT ![c] = Append(trace[c], "Error")]
    BY <1>1 DEF Emit
  <2> QED
    BY <2>1, <2>2 DEF TypeOK, Events
<1>4. /\ PermitAccounting' /\ CapsRespected'
      /\ Live' \subseteq tasks' /\ (loop' = "returned" => tasks' = {})
  BY <1>1, KeepsPermit DEF PermitPhases
<1>5. Registered' = Registered
  BY <1>1 DEF Registered
<1>6. MetricsBalance'
  BY <1>1, <1>5, SameRegistered DEF metricsVars
<1>7. TypeOK'
  BY <1>1, <1>3 DEF TypeOK, OutsideTask, admissionVars, loopVars, metricsVars
<1>8. TaskInv'
  BY <1>1, <1>3, <1>4 DEF TaskInv, RegisteredPhases
<1> QED
  BY <1>4, <1>6, <1>7, <1>8

\* handle returns and its permit is dropped.
LEMMA DropPermitInv ==
  ASSUME Inv, NEW c \in Conns, DropPermit(c)
  PROVE  Inv'
<1> USE DEF Inv
<1>1. /\ phase[c] = "ending" /\ phase'[c] = "finished"
      /\ phase' \in [Conns -> Phases]
      /\ \A d \in Conns : d # c => phase'[d] = phase[d]
  BY DEF DropPermit, Goto, TypeOK, Phases
<1>2. c \in Live /\ Live' = Live \ {c} /\ Registered' = Registered
  BY <1>1, PhaseMoves DEF PermitPhases, RegisteredPhases
<1>3. UNCHANGED <<metricsVars, loopVars, seen, reply, trace>>
  BY DEF DropPermit
<1>4. PermitAccounting' /\ CapsRespected'
  BY <1>2, ReleaseAccounts DEF Accounts, DropPermit
<1>5. MetricsBalance'
  BY <1>2, <1>3, SameRegistered DEF metricsVars
<1>6. total' \in Nat /\ DOMAIN per_ip' \in SUBSET IPs
      /\ per_ip' \in [DOMAIN per_ip' -> Nat]
  <2>1. /\ IpOf[c] \in DOMAIN per_ip
        /\ per_ip[IpOf[c]] = Cardinality(LiveFrom(IpOf[c]))
    BY <1>2 DEF PermitAccounting
  <2>2. c \in LiveFrom(IpOf[c]) /\ LiveFrom(IpOf[c]) \in SUBSET Conns
    BY <1>2 DEF LiveFrom, Live
  <2>3. Cardinality(LiveFrom(IpOf[c])) \in Nat /\ Cardinality(LiveFrom(IpOf[c])) > 0
    BY <2>2, CountRemoved, CountsAreNatural
  <2> QED
    BY <2>1, <2>3, SMTT(20) DEF DropPermit, Release, TypeOK
<1>7. TypeOK'
  BY <1>1, <1>3, <1>6 DEF TypeOK, metricsVars, loopVars
<1>8. TaskInv'
  BY <1>1, <1>2, <1>3 DEF TaskInv, RegisteredPhases, loopVars
<1> QED
  BY <1>4, <1>5, <1>7, <1>8

\* Every step of the server preserves the invariant.
LEMMA NextInv == Inv /\ [Next]_vars => Inv'
<1> SUFFICES ASSUME Inv, [Next]_vars PROVE Inv'
  OBVIOUS
<1>1. CASE UNCHANGED vars
  <2>1. Live' = Live /\ Registered' = Registered
    BY <1>1 DEF vars, taskVars, Live, Registered
  <2>2. PermitAccounting' /\ CapsRespected'
    BY <1>1, <2>1, SameLive DEF Inv, Accounts, vars
  <2>3. MetricsBalance'
    BY <1>1, <2>1, SameRegistered DEF Inv, vars, metricsVars
  <2>4. TypeOK' /\ TaskInv'
    BY <1>1, <2>1
    DEF Inv, TypeOK, TaskInv, vars, admissionVars, metricsVars, loopVars, taskVars
  <2> QED
    BY <2>2, <2>3, <2>4 DEF Inv
<1>2. CASE LoopStep
  BY <1>2, LoopInv, OutsideInv, AdmittedInv DEF LoopStep
<1>3. CASE Environment
  BY <1>3, LoopInv, OutsideInv DEF Environment
<1>4. ASSUME NEW c \in Conns, TaskStep(c) PROVE Inv'
  BY <1>4, SilentInv, RefusedInv, EstablishedInv, LookupInv, TeardownInv, DropPermitInv
  DEF TaskStep, DialEnds, InitialEnds, BindEnds
<1> QED
  BY <1>1, <1>2, <1>3, <1>4 DEF Next

-----------------------------------------------------------------------------
(* Theorems.                                                               *)

\* The inductive invariant holds throughout.
LEMMA Invariance == Spec => []Inv
  BY InitInv, NextInv, PTL DEF Spec

\* Types hold, the admission counters are exactly the tasks that are alive, so that the
\* caps bound the tasks that exist, half-open ones included, and registry, active and
\* total counts and successes agree, in every state and for any number of clients.
THEOREM ServerInvariant == Spec => []ServerInv
  BY Invariance, PTL DEF Inv, ServerInv

\* Connect and Closed come in pairs around the time a connection is registered, with
\* only the failed lookups of an association in between.
THEOREM EventsPaired == Spec => []EventsPairUp
<1>1. Inv => EventsPairUp
  <2> SUFFICES ASSUME Inv, NEW c \in Conns
               PROVE  /\ \/ trace[c] \in {<<>>, <<"Error">>}
                         \/ Opened(trace[c]) \/ Paired(trace[c])
                      /\ c \in registry <=> Opened(trace[c])
                      /\ phase[c] \in {"initial", "relaying"} => trace[c] = <<"Connect">>
                      /\ reply[c] = "succeeded" <=> Opened(trace[c]) \/ Paired(trace[c])
    BY DEF EventsPairUp
  <2>1. c \in registry <=> phase[c] \in RegisteredPhases
    BY DEF Inv, MetricsBalance
  <2>2. phase[c] \in Phases /\ trace[c] \in Seq(Events)
    BY DEF Inv, TypeOK, Events
  <2> QED
    BY <2>1, <2>2, Shapes DEF Inv, TaskInv, Phases, RegisteredPhases
<1> QED
  BY <1>1, Invariance, PTL

\* When run returns, nothing of any connection is left behind.
THEOREM DrainIsClean == Spec => []DrainedClean
<1>1. Inv => DrainedClean
  <2> SUFFICES ASSUME Inv, loop = "returned"
               PROVE  /\ Live = {} /\ total = 0 /\ DOMAIN per_ip = {}
                      /\ registry = {} /\ active_conns = 0
                      /\ \A c \in Conns : ~ Opened(trace[c])
    BY DEF DrainedClean
  <2>1. Live = {}
    BY DEF Inv, TaskInv
  <2>2. total = 0 /\ DOMAIN per_ip = {}
    BY <2>1, FS_EmptySet DEF Inv, PermitAccounting
  <2>3. registry = {} /\ active_conns = 0
    BY <2>1, FS_EmptySet DEF Inv, MetricsBalance
  <2>4. \A c \in Conns : /\ phase[c] \notin RegisteredPhases /\ phase[c] \in Phases
                         /\ trace[c] \in Seq(Events)
    BY <2>3 DEF Inv, MetricsBalance, TypeOK, Events
  <2>5. \A c \in Conns : ~ Opened(trace[c])
    BY <2>4, Shapes DEF Inv, TaskInv, Phases, RegisteredPhases
  <2> QED
    BY <2>1, <2>2, <2>3, <2>5
<1> QED
  BY <1>1, Invariance, PTL

\* A client is refused only when the tasks that are alive use up a cap.
THEOREM RefusalExact == Spec => RefusalIsExact
<1> DEFINE Exact ==
      \A c \in Conns :
        (phase[c] # "rejected" /\ phase'[c] = "rejected") =>
          \/ \E max \in MaxTotal : Cardinality(Live) >= max
          \/ \E max \in MaxPerIp : Cardinality(LiveFrom(IpOf[c])) >= max
<1>1. ASSUME Inv, Next, NEW c \in Conns, phase[c] # "rejected", phase'[c] = "rejected"
      PROVE  AcceptRejected(c)
  BY <1>1
  DEF Inv, TypeOK, Next, LoopStep, Environment, TaskStep, DialEnds, InitialEnds, BindEnds,
      SendShutdown, DropSender, ClientConnects, AcceptAdmitted, AcceptRejected,
      AcceptError, BackoffElapsed, Reap, LoopObservesShutdown, DrainComplete,
      HandshakeAborted, RequestRefused, RequestConnect, RequestUdpAssociate,
      EstablishFails, ConnectReplyLost, ConnectEstablished, InitialWritten,
      InitialFails, RelayEnds, RelayShutdown, UdpBindFails, UdpAdvertiseFails,
      UdpReplyLost, UdpAssociated, AssocLookupFails, AssocEnds, AssocShutdown, DropPermit,
      Teardown, Goto, taskVars
<1>2. ASSUME Inv, NEW c \in Conns, AcceptRejected(c)
      PROVE  \/ \E max \in MaxTotal : Cardinality(Live) >= max
             \/ \E max \in MaxPerIp : Cardinality(LiveFrom(IpOf[c])) >= max
  <2>1. total \in Nat /\ total = Cardinality(Live)
    BY <1>2 DEF Inv, TypeOK, PermitAccounting
  <2>2. CountOf(IpOf[c]) = Cardinality(LiveFrom(IpOf[c])) /\ CountOf(IpOf[c]) \in Nat
    <3>1. CASE IpOf[c] \in DOMAIN per_ip
      BY <1>2, <3>1 DEF CountOf, Inv, PermitAccounting, TypeOK
    <3>2. CASE IpOf[c] \notin DOMAIN per_ip
      <4>1. LiveFrom(IpOf[c]) = {}
        BY <1>2, <3>2 DEF Inv, PermitAccounting, LiveFrom
      <4> QED
        BY <3>2, <4>1, FS_EmptySet DEF CountOf
    <3> QED
      BY <3>1, <3>2
  <2>3. \/ \E max \in MaxTotal : ~ (total < max)
        \/ \E max \in MaxPerIp : ~ (CountOf(IpOf[c]) < max)
    BY <1>2 DEF AcceptRejected, Refuse, Admissible
  <2> QED
    BY <2>1, <2>2, <2>3, LimitsAssumption
<1>3. Inv /\ [Next]_vars => [Exact]_vars
  BY <1>1, <1>2
<1> QED
  BY <1>3, Invariance, PTL DEF Spec, RefusalIsExact
=============================================================================
