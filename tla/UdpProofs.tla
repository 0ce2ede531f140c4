------------------------------ MODULE UdpProofs ------------------------------
(***************************************************************************)
(* Proofs about UdpRelay and UdpSetup, for every set of addresses, range   *)
(* of ports, cap on targets, rate and timeout.                             *)
(***************************************************************************)
EXTENDS UdpRelay, FiniteSetTheorems, SequenceTheorems, TLAPS

(* The port scan.                                                          *)

\* Quotient and remainder are determined by their sum.
LEMMA ModUnique ==
  ASSUME NEW w \in Nat \ {0}, NEW q \in Int, NEW r \in 0 .. w - 1
  PROVE  (q * w + r) % w = r
  OBVIOUS

LEMMA DivMod ==
  ASSUME NEW w \in Nat \ {0}, NEW x \in Nat
  PROVE  \E q \in Int, r \in 0 .. w - 1 : x = q * w + r /\ x % w = r
<1>1. x = (x \div w) * w + (x % w) /\ x % w \in 0 .. w - 1 /\ x \div w \in Int
  OBVIOUS
<1> QED
  BY <1>1

\* Wrapping around at a multiple of w does not change the remainder by w.
LEMMA ModMod ==
  ASSUME NEW w \in Nat \ {0}, NEW m \in Nat \ {0}, NEW x \in 0 .. 2 * m - 1, m % w = 0
  PROVE  (x % m) % w = x % w
<1> x \in Nat
  OBVIOUS
<1>1. CASE x < m
  BY <1>1
<1>2. CASE x >= m
  <2>1. x % m = x - m
    BY <1>2
  <2>2. PICK k \in Int, z \in 0 .. w - 1 : m = k * w + z /\ z = 0
    BY DivMod
  <2>3. PICK y \in Int, r \in 0 .. w - 1 : x = y * w + r
    <3>1. \E q \in Int, r \in 0 .. w - 1 : x = q * w + r /\ x % w = r
      BY DivMod, Zenon
    <3> QED
      BY <3>1
  <2>4. x - m = (y - k) * w + r
    BY <2>2, <2>3
  <2>5. ((y - k) * w + r) % w = r
    BY ModUnique
  <2>6. (y * w + r) % w = r
    BY ModUnique
  <2> QED
    BY <2>1, <2>3, <2>4, <2>5, <2>6
<1> QED
  BY <1>1, <1>2

\* A scan of as many attempts as the range has ports meets each remainder, wherever it
\* starts, unless it crosses the wrap-around and the width does not divide it.
LEMMA ScanCovers ==
  ASSUME NEW w \in Nat \ {0}, NEW m \in Nat \ {0}, w <= m, NEW base \in 0 .. m - 1,
         base + w <= m \/ m % w = 0, NEW r \in 0 .. w - 1
  PROVE  \E j \in 0 .. w - 1 : ((base + j) % m) % w = r
<1>1. PICK q \in Int, b \in 0 .. w - 1 : base = q * w + b
  <2>1. base \in Nat
    OBVIOUS
  <2> QED
    BY <2>1, DivMod, ZenonT(20)
<1>2. PICK j \in 0 .. w - 1, p \in Int : base + j = p * w + r
  <2>1. CASE r >= b
    <3>1. base + (r - b) = q * w + r /\ r - b \in 0 .. w - 1
      BY <1>1, <2>1
    <3> QED
      BY <3>1
  <2>2. CASE r < b
    <3>1. base + (r - b + w) = (q + 1) * w + r /\ r - b + w \in 0 .. w - 1 /\ q + 1 \in Int
      BY <1>1, <2>2
    <3> QED
      BY <3>1
  <2> QED
    BY <2>1, <2>2
<1>3. (base + j) % w = r
  BY <1>2, ModUnique
<1>4. CASE base + w <= m
  <2>1. (base + j) % m = base + j
    BY <1>4
  <2> QED
    BY <1>3, <2>1
<1>5. CASE m % w = 0
  <2>1. base + j \in 0 .. 2 * m - 1
    OBVIOUS
  <2> QED
    BY <1>3, <1>5, <2>1, ModMod, ZenonT(20)
<1> QED
  BY <1>4, <1>5

\* A scan that crosses the wrap-around misses a remainder if the width does not divide
\* it: the attempts before it meet those up to m % w, the ones after it start from 0.
LEMMA ScanMisses ==
  ASSUME NEW w \in Nat \ {0}, NEW m \in Nat \ {0}, w <= m, NEW base \in 0 .. m - 1,
         base + w > m, m % w # 0
  PROVE  \E r \in 0 .. w - 1 : \A j \in 0 .. w - 1 : ((base + j) % m) % w # r
<1>1. PICK q \in Int, z \in 0 .. w - 1 : m = q * w + z /\ m % w = z
  BY DivMod, ZenonT(20)
<1> DEFINE k == m - base
           r == IF k <= z THEN w - 1 ELSE w - k + z - 1
<1>2. k \in 1 .. w - 1 /\ z \in 1 .. w - 1 /\ base = m - k
  BY <1>1
<1> HIDE DEF k
<1>3. r \in 0 .. w - 1 /\ r >= w - k /\ r >= z
  BY <1>2
<1>4. ASSUME NEW j \in 0 .. w - 1 PROVE ((base + j) % m) % w # r
  <2>1. CASE j < k
    <3>1. (base + j) % m = base + j /\ base + j = q * w + (z - k + j)
      BY <1>1, <1>2, <2>1
    <3>2. CASE z - k + j >= 0
      <4>1. z - k + j \in 0 .. w - 1 /\ z - k + j < z
        BY <1>2, <2>1, <3>2
      <4>2. (q * w + (z - k + j)) % w = z - k + j
        BY <4>1, ModUnique
      <4> QED
        BY <1>2, <1>3, <3>1, <4>1, <4>2
    <3>3. CASE z - k + j < 0
      <4>1. w + (z - k + j) \in 0 .. w - 1 /\ w + (z - k + j) # r
        BY <1>2, <2>1, <3>3
      <4>2. q * w + (z - k + j) = (q - 1) * w + (w + (z - k + j)) /\ q - 1 \in Int
        BY <1>2
      <4>3. ((q - 1) * w + (w + (z - k + j))) % w = w + (z - k + j)
        BY <4>1, <4>2, ModUnique
      <4> QED
        BY <3>1, <4>1, <4>2, <4>3
    <3> QED
      BY <1>2, <3>2, <3>3
  <2>2. CASE j >= k
    <3>1. (base + j) % m = j - k
      BY <1>2, <2>2
    <3>2. j - k \in 0 .. w - 1 /\ j - k < w - k
      BY <1>2, <2>2
    <3>3. (0 * w + (j - k)) % w = j - k /\ 0 * w + (j - k) = j - k
      BY <3>2, ModUnique
    <3> QED
      BY <1>2, <1>3, <3>1, <3>2, <3>3
  <2> QED
    BY <1>2, <2>1, <2>2
<1> QED
  BY <1>3, <1>4

-----------------------------------------------------------------------------
(* The setup.                                                              *)

\* The configuration of the association stays what it was.
Configured ==
  /\ {"stage", "range", "bind", "advertise"} \subseteq DOMAIN setup
  /\ setup.range \in Ranges
  /\ setup.bind \in BindIps
  /\ setup.advertise \in Advertises

\* What was found unavailable are the ports of the attempts made so far.
ScanCounted ==
  setup.stage \in {"scan", "exhausted"} =>
    /\ {"base", "i", "busy"} \subseteq DOMAIN setup
    /\ setup.range # NoRange
    /\ setup.base \in 0 .. CursorMod - 1
    /\ setup.i \in 0 .. Width(setup.range)
    /\ setup.busy = {PortOf(setup.range, setup.base, j) : j \in 0 .. setup.i - 1}
    /\ setup.stage = "exhausted" => setup.i = Width(setup.range)

\* A socket that was bound is bound to a port of the range.
BoundInRange ==
  setup.stage \in {"bound", "reply"} =>
    /\ "port" \in DOMAIN setup
    /\ setup.range # NoRange => setup.port \in Ports(setup.range)

\* Only a literal can be of the other family.
AdvertisedExact ==
  setup.stage = "reply" =>
    /\ ~ setup.ip.unspecified
    /\ setup.ip.v4 = setup.bind.v4 <=> ~ ForeignLiteral

SetupInv ==
  setup \in {Done, Gone} \/ (Configured /\ ScanCounted /\ BoundInRange /\ AdvertisedExact)

\* The port of an attempt is one of the range.
LEMMA PortInRange ==
  ASSUME NEW range \in Ranges \ {NoRange}, NEW base \in Nat, NEW i \in Nat
  PROVE  PortOf(range, base, i) \in Ports(range)
<1>1. range.start \in Nat /\ Width(range) \in Nat \ {0} /\ CursorMod \in Nat \ {0}
  BY SetupAssumption DEF ValidRange, Width
<1>2. (base + i) % CursorMod \in Nat
  BY <1>1
<1>3. ((base + i) % CursorMod) % Width(range) \in 0 .. Width(range) - 1
  BY <1>1, <1>2
<1> QED
  BY <1>1, <1>3, SetupAssumption DEF PortOf, Ports, Width, ValidRange

LEMMA SetupInitially == SetupInit => SetupInv /\ setup \notin {Done, Gone}
  BY DEF SetupInit, SetupInv, Configured, ScanCounted, BoundInRange, AdvertisedExact, Done, Gone

LEMMA ScanStep ==
  ASSUME SetupInv,
         \/ \E base \in 0 .. CursorMod - 1 : StartScan(base)
         \/ BindEphemeral \/ ProbeBinds \/ ProbeBusy \/ ScanExhausted \/ BindFatal
  PROVE  SetupInv'
<1> USE DEF SetupInv, Configured, ScanCounted, BoundInRange, AdvertisedExact, With, Done, Gone
<1>0. \A range \in Ranges \ {NoRange} : Width(range) \in Nat \ {0}
  BY SetupAssumption DEF ValidRange, Width
<1>1. ASSUME NEW base \in 0 .. CursorMod - 1, StartScan(base) PROVE SetupInv'
  <2>1. Configured' /\ setup'.stage = "scan" /\ setup'.range = setup.range /\ setup.range # NoRange
    BY <1>1 DEF StartScan
  <2>2. {"base", "i", "busy"} \subseteq DOMAIN setup' /\ setup'.base = base /\ setup'.i = 0
        /\ setup'.busy = {}
    BY <1>1 DEF StartScan
  <2> QED
    BY <1>0, <2>1, <2>2
<1>2. CASE BindEphemeral
  BY <1>2 DEF BindEphemeral
<1>3. CASE ProbeBinds
  BY <1>0, <1>3, PortInRange DEF ProbeBinds, Probing, Probed
<1>4. CASE ProbeBusy
  <2>1. /\ Configured' /\ setup'.stage = "scan" /\ setup'.range = setup.range
        /\ setup.range # NoRange /\ setup.range \in Ranges
    BY <1>4 DEF ProbeBusy, Probing
  <2>2. {"base", "i", "busy"} \subseteq DOMAIN setup' /\ setup'.base = setup.base
        /\ setup'.i = setup.i + 1 /\ setup'.busy = setup.busy \cup {Probed}
    BY <1>4 DEF ProbeBusy, Probing
  <2>3. setup.i \in Nat /\ setup.i < Width(setup.range)
    BY <1>0, <1>4 DEF ProbeBusy, Probing
  <2>4. {PortOf(setup.range, setup.base, j) : j \in 0 .. setup.i}
          = {PortOf(setup.range, setup.base, j) : j \in 0 .. setup.i - 1} \cup {Probed}
    BY <2>3 DEF Probed
  <2>5. setup.busy = {PortOf(setup.range, setup.base, j) : j \in 0 .. setup.i - 1}
    BY <1>4 DEF ProbeBusy, Probing
  <2>6. setup'.busy = {PortOf(setup'.range, setup'.base, j) : j \in 0 .. setup'.i - 1}
    BY <2>1, <2>2, <2>3, <2>4, <2>5
  <2> QED
    BY <1>0, <1>4, <2>1, <2>2, <2>3, <2>6 DEF ProbeBusy, Probing
<1>5. CASE ScanExhausted
  BY <1>5 DEF ScanExhausted
<1>6. CASE BindFatal
  <2>1. Configured' /\ setup'.stage = "unbindable"
    BY <1>6 DEF BindFatal, Probing
  <2> QED
    BY <2>1
<1> QED
  BY <1>1, <1>2, <1>3, <1>4, <1>5, <1>6

LEMMA AdvertiseStep ==
  ASSUME SetupInv,
         \/ AdvertiseBound \/ AdvertiseLiteral
         \/ \E answer \in Lookups : AdvertiseResolved(answer) \/ AdvertiseFails(answer)
         \/ ReplyWritten \/ Refuse \/ GiveUp
  PROVE  SetupInv'
<1> USE DEF SetupInv, Configured, ScanCounted, BoundInRange, AdvertisedExact, With, Done, Gone
<1>1. ASSUME NEW ip, Advertise(ip), ~ ip.unspecified, ip.v4 = setup.bind.v4 <=> ~ ForeignLiteral
      PROVE  SetupInv'
  <2>1. Configured' /\ setup'.stage = "reply" /\ setup'.ip = ip
    BY <1>1 DEF Advertise
  <2>2. setup'.bind = setup.bind /\ setup'.advertise = setup.advertise
    BY <1>1 DEF Advertise
  <2>3. "port" \in DOMAIN setup' /\ setup'.port = setup.port /\ setup'.range = setup.range
    BY <1>1 DEF Advertise
  <2>4. setup.range # NoRange => setup.port \in Ports(setup.range)
    BY <1>1 DEF Advertise
  <2>5. ForeignLiteral' <=> ForeignLiteral
    BY <2>2 DEF ForeignLiteral
  <2> QED
    BY <1>1, <2>1, <2>2, <2>3, <2>4, <2>5
<1>2. CASE AdvertiseBound
  <2>1. setup.bind \in BindIps
    BY <1>2 DEF AdvertiseBound, Advertise
  <2>2. ~ setup.bind.unspecified
    BY <2>1, SetupAssumption
  <2> QED
    BY <1>1, <1>2, <2>2, SetupAssumption DEF AdvertiseBound, ForeignLiteral
<1>3. CASE AdvertiseLiteral
  BY <1>1, <1>3 DEF AdvertiseLiteral, ForeignLiteral
<1>4. ASSUME NEW answer \in Lookups, AdvertiseResolved(answer) PROVE SetupInv'
  BY <1>1, <1>4, SetupAssumption DEF AdvertiseResolved, Usable, ForeignLiteral
<1>5. ASSUME NEW answer \in Lookups, AdvertiseFails(answer) PROVE SetupInv'
  <2>1. Configured' /\ setup'.stage = "unresolved"
    BY <1>5 DEF AdvertiseFails
  <2> QED
    BY <2>1
<1>6. CASE ReplyWritten \/ Refuse \/ GiveUp
  BY <1>6 DEF ReplyWritten, Refuse, GiveUp
<1> QED
  BY <1>2, <1>3, <1>4, <1>5, <1>6

LEMMA SetupStepPreserves == SetupInv /\ SetupStep => SetupInv'
  BY ScanStep, AdvertiseStep DEF SetupStep

\* Once as many attempts were made as there are ports, the scan has met every port,
\* or it jumped and has missed one.
LEMMA SetupExact == SetupInv => SetupIsExact
<1> SUFFICES ASSUME SetupInv PROVE SetupIsExact
  OBVIOUS
<1>1. ReplyIsExact
  BY DEF SetupInv, Configured, BoundInRange, AdvertisedExact, ReplyIsExact, Usable, Done, Gone
<1>2. ASSUME setup.stage = "exhausted" PROVE setup.busy = Ports(setup.range) <=> ~ Jumps
  <2> DEFINE range == setup.range
             base == setup.base
             w == Width(range)
  <2>1. /\ range \in Ranges \ {NoRange}
        /\ base \in 0 .. CursorMod - 1
        /\ setup.busy = {PortOf(range, base, j) : j \in 0 .. w - 1}
    BY <1>2 DEF SetupInv, Configured, ScanCounted, Done, Gone
  <2>2. /\ w \in Nat \ {0} /\ CursorMod \in Nat \ {0} /\ w <= CursorMod
        /\ range.start \in Nat /\ range.end = range.start + (w - 1)
    BY <2>1, SetupAssumption DEF ValidRange, Width
  <2>3. Jumps <=> base + w > CursorMod /\ CursorMod % w # 0
    BY DEF Jumps
  <2>4. \A j : PortOf(range, base, j) = range.start + (((base + j) % CursorMod) % w)
    BY DEF PortOf
  <2> HIDE DEF range, base, w
  <2>5. \A j \in 0 .. w - 1 : PortOf(range, base, j) \in Ports(range)
    BY <2>1, <2>2, PortInRange
  <2>6. ASSUME ~ Jumps PROVE setup.busy = Ports(range)
    <3>1. base + w <= CursorMod \/ CursorMod % w = 0
      BY <2>1, <2>2, <2>3, <2>6
    <3>2. ASSUME NEW port \in Ports(range)
          PROVE  \E j \in 0 .. w - 1 : PortOf(range, base, j) = port
      <4>1. PICK r \in 0 .. w - 1 : port = range.start + r
        <5>1. port - range.start \in 0 .. w - 1
          BY <2>2, <3>2 DEF Ports
        <5> QED
          BY <2>2, <3>2, <5>1 DEF Ports
      <4>2. PICK j \in 0 .. w - 1 : ((base + j) % CursorMod) % w = r
        BY <2>1, <2>2, <3>1, ScanCovers, ZenonT(60)
      <4> QED
        BY <2>4, <4>1, <4>2
    <3> QED
      BY <2>1, <2>5, <3>2
  <2>7. ASSUME Jumps PROVE setup.busy # Ports(range)
    <3>1. PICK r \in 0 .. w - 1 :
            \A j \in 0 .. w - 1 : ((base + j) % CursorMod) % w # r
      <4>1. base + w > CursorMod /\ CursorMod % w # 0
        BY <2>3, <2>7
      <4> QED
        BY <2>1, <2>2, <4>1, ScanMisses, ZenonT(20)
    <3>2. range.start + r \in Ports(range)
      BY <2>2 DEF Ports
    <3>3. ASSUME NEW j \in 0 .. w - 1 PROVE PortOf(range, base, j) # range.start + r
      <4>1. ((base + j) % CursorMod) % w \in Int
        BY <2>1, <2>2
      <4> QED
        BY <2>2, <2>4, <3>1, <4>1
    <3> QED
      BY <2>1, <3>2, <3>3
  <2> QED
    BY <2>6, <2>7 DEF range
<1> QED
  BY <1>1, <1>2 DEF SetupIsExact, ExhaustedIsExact

-----------------------------------------------------------------------------
(* Types and the setup, in the relay.                                      *)

LEMMA TypeInitially == Init => TypeOK /\ SetupInv
<1> SUFFICES ASSUME Init PROVE TypeOK /\ SetupInv
  OBVIOUS
<1>1. SetupInv /\ setup \notin {Done, Gone}
  BY SetupInitially DEF Init
<1>2. RecentOK
  BY FS_EmptySet DEF Init, RecentOK
<1>3. TypeOK
  <2>1. busy \in 0 .. Limit /\ window_age \in 0 .. Second
    BY UdpAssumption DEF Init, Limit
  <2>2. shutdown \in BOOLEAN /\ pc = "setup"
    BY DEF Init
  <2>3. /\ src \in Addrs /\ target \in Addrs
        /\ client_udp_addr \in SUBSET ClientAddrs
        /\ known_targets \in SUBSET Addrs
        /\ known_order \in Seq(Addrs)
        /\ window_count \in Nat
        /\ control \in {"open", "eof"}
    BY DEF Init
  <2> QED
    BY <1>1, <1>2, <2>1, <2>2, <2>3, Zenon DEF TypeOK
<1> QED
  BY <1>1, <1>3

LEMMA SetupPreserves == SetupInv /\ [Next]_vars => SetupInv'
<1> SUFFICES ASSUME SetupInv, [Next]_vars PROVE SetupInv'
  OBVIOUS
<1>1. CASE Setup
  BY <1>1, SetupStepPreserves DEF Setup
<1>2. CASE UNCHANGED setup
  BY <1>2 DEF SetupInv, Configured, ScanCounted, BoundInRange, AdvertisedExact, ForeignLiteral
<1> QED
  BY <1>1, <1>2 DEF Next, vars, Datagram, ClientMalformed, ClientOverBudget, ClientDomain,
     ClientLiteral, FromClient, FromTarget, FromStranger, Resolve, Resolved, ResolveFails,
     Send, SendDone, SendFails, Delivered, IdleTimeout, SocketError, ControlData,
     ControlClosed, ShutdownObserved, Close, ClientCloses, ShutdownRequested, Tick

\* A key is found: the first numbers cannot all be in use.
LEMMA FreshKeyIsFresh ==
  ASSUME IsFiniteSet(DOMAIN recent), DOMAIN recent \subseteq Nat
  PROVE  FreshKey \in Nat /\ FreshKey \notin DOMAIN recent
<1> DEFINE n == Cardinality(DOMAIN recent)
<1>1. n \in Nat
  BY FS_CardinalityType
<1>2. \E key \in 0 .. n : key \notin DOMAIN recent
  <2> SUFFICES ASSUME 0 .. n \subseteq DOMAIN recent PROVE FALSE
    OBVIOUS
  <2>1. Cardinality(0 .. n) <= n
    BY FS_Subset
  <2>2. Cardinality(0 .. n) = n + 1
    BY <1>1, FS_Interval
  <2> QED
    BY <1>1, <2>1, <2>2
<1> QED
  BY <1>1, <1>2 DEF FreshKey

LEMMA RecentPreserved == TypeOK /\ [Next]_vars => RecentOK'
<1> SUFFICES ASSUME TypeOK, [Next]_vars PROVE RecentOK'
  OBVIOUS
<1>1. CASE SendDone
  <2>1. FreshKey \in Nat /\ FreshKey \notin DOMAIN recent
    BY FreshKeyIsFresh DEF TypeOK, RecentOK
  <2>2. IsFiniteSet(DOMAIN recent \cup {FreshKey})
    BY FS_AddElement DEF TypeOK, RecentOK
  <2>3. DOMAIN recent' = DOMAIN recent \cup {FreshKey}
    BY <1>1 DEF SendDone
  <2>4. \A key \in DOMAIN recent' : recent'[key] \in 0 .. Second - 1
    BY <1>1, UdpAssumption DEF SendDone, TypeOK, RecentOK
  <2> QED
    BY <2>1, <2>2, <2>3, <2>4 DEF TypeOK, RecentOK
<1>2. CASE Tick
  <2>1. DOMAIN recent' = {k \in DOMAIN recent : recent[k] + 1 < Second}
    BY <1>2 DEF Tick
  <2>2. IsFiniteSet(DOMAIN recent')
    BY <2>1, FS_Subset DEF TypeOK, RecentOK
  <2>3. \A key \in DOMAIN recent' : recent'[key] = recent[key] + 1
    BY <1>2 DEF Tick
  <2>4. \A key \in DOMAIN recent' : recent'[key] \in 0 .. Second - 1
    BY <2>1, <2>3, UdpAssumption DEF TypeOK, RecentOK
  <2> QED
    BY <2>1, <2>2, <2>4 DEF TypeOK, RecentOK
<1>3. CASE UNCHANGED recent
  BY <1>3 DEF TypeOK, RecentOK
<1> QED
  BY <1>1, <1>2, <1>3 DEF Next, vars, Datagram, ClientMalformed, ClientOverBudget,
     ClientDomain, ClientLiteral, FromClient, FromTarget, FromStranger, Resolve, Resolved,
     ResolveFails, Send, SendFails, Delivered, IdleTimeout, SocketError, ControlData,
     ControlClosed, ShutdownObserved, Close, ClientCloses, ShutdownRequested, Setup

LEMMA TypePreserved == TypeOK /\ [Next]_vars => TypeOK'
<1> SUFFICES ASSUME TypeOK, [Next]_vars PROVE TypeOK'
  OBVIOUS
<1>0. RecentOK'
  BY RecentPreserved
<1> USE <1>0, UdpAssumption DEF TypeOK, Limit, Goto
<1>1. CASE Setup
  BY <1>1 DEF Setup, Done, Gone, targetVars, windowVars, inputVars
<1>2. ASSUME NEW a \in Addrs, FromClient(a) PROVE client_udp_addr' \in SUBSET ClientAddrs
  BY <1>2 DEF FromClient, IsClient
<1>3. WindowCount \in Nat
  BY DEF WindowCount
<1>4. ASSUME NEW a \in Addrs, Datagram(a) PROVE TypeOK'
  <2> USE DEF targetVars, windowVars, inputVars
  <2>1. CASE ClientMalformed(a)
    BY <1>2, <2>1 DEF ClientMalformed, FromClient
  <2>2. CASE ClientOverBudget(a)
    BY <1>2, <1>3, <2>2 DEF ClientOverBudget, FromClient, RenewWindow
  <2>3. CASE ClientDomain(a)
    BY <1>2, <1>3, <2>3 DEF ClientDomain, FromClient, RenewWindow
  <2>4. ASSUME NEW t \in Addrs, ClientLiteral(a, t) PROVE TypeOK'
    BY <1>2, <1>3, <2>4 DEF ClientLiteral, FromClient, RenewWindow
  <2>5. CASE FromTarget(a) \/ FromStranger(a)
    BY <2>5 DEF FromTarget, FromStranger
  <2> QED
    BY <1>4, <2>1, <2>2, <2>3, <2>4, <2>5 DEF Datagram
<1>5. CASE Resolve \/ SendFails \/ Delivered \/ ControlData
  BY <1>5 DEF Resolve, Resolved, ResolveFails, SendFails, Delivered, ControlData, targetVars,
     windowVars, inputVars
<1>6. CASE SendDone
  <2> DEFINE grown == Append(known_order, target)
  <2>1. grown \in Seq(Addrs) /\ grown # <<>> /\ Tail(grown) \in Seq(Addrs)
    BY AppendProperties, HeadTailProperties
  <2>2. known_order' \in {known_order, grown, Tail(grown)}
        /\ known_targets' \subseteq known_targets \cup {target}
    BY <1>6 DEF SendDone, Track, targetVars
  <2>3. known_order' \in Seq(Addrs) /\ known_targets' \in SUBSET Addrs
    BY <2>1, <2>2
  <2> QED
    BY <1>6, <2>3 DEF SendDone, inputVars
<1>7. CASE IdleTimeout \/ SocketError \/ ControlClosed \/ ShutdownObserved
  BY <1>7 DEF IdleTimeout, SocketError, ControlClosed, ShutdownObserved, Close, targetVars,
     windowVars, inputVars
<1>8. CASE ClientCloses \/ ShutdownRequested
  BY <1>8 DEF ClientCloses, ShutdownRequested, targetVars, windowVars
<1>9. CASE Tick
  BY <1>9 DEF Tick, targetVars, inputVars
<1>10. CASE UNCHANGED vars
  BY <1>10 DEF vars, targetVars, windowVars, inputVars
<1> QED
  BY <1>1, <1>4, <1>5, <1>6, <1>7, <1>8, <1>9, <1>10 DEF Next, Send

-----------------------------------------------------------------------------
(* The remembered targets.                                                 *)

\* The set is what the queue holds, and the queue holds nothing twice; the second half is
\* what makes the entry at its head the only one of its target.
TargetsInv ==
  /\ known_targets = {known_order[i] : i \in 1 .. Len(known_order)}
  /\ \A i, j \in 1 .. Len(known_order) : known_order[i] = known_order[j] => i = j
  /\ IsFiniteSet(known_targets)
  /\ Cardinality(known_targets) = Len(known_order)
  /\ Len(known_order) <= Cap

\* Dropping the head of a queue that holds nothing twice drops its element from the set.
LEMMA TailHolds ==
  ASSUME NEW T, NEW n \in Nat, NEW s \in Seq(T), Len(s) = n + 1,
         \A i, j \in 1 .. n + 1 : s[i] = s[j] => i = j
  PROVE  /\ Tail(s) \in Seq(T) /\ Len(Tail(s)) = n /\ Head(s) = s[1]
         /\ \A i, j \in 1 .. n : Tail(s)[i] = Tail(s)[j] => i = j
         /\ {Tail(s)[i] : i \in 1 .. n} = {s[i] : i \in 1 .. n + 1} \ {Head(s)}
<1>1. /\ Tail(s) \in Seq(T) /\ Len(Tail(s)) = n /\ Head(s) = s[1]
      /\ \A i \in 1 .. n : Tail(s)[i] = s[i + 1]
  <2>1. s # <<>>
    OBVIOUS
  <2> QED
    BY <2>1, HeadTailProperties
<1>2. ASSUME NEW x \in {Tail(s)[i] : i \in 1 .. n} PROVE x \in {s[i] : i \in 1 .. n + 1} \ {s[1]}
  <2>1. PICK i \in 1 .. n : x = Tail(s)[i]
    BY <1>2
  <2>2. x = s[i + 1] /\ i + 1 \in 1 .. n + 1 /\ i + 1 # 1 /\ 1 \in 1 .. n + 1
    BY <1>1, <2>1
  <2> QED
    BY <2>2
<1>3. ASSUME NEW x \in {s[i] : i \in 1 .. n + 1} \ {s[1]} PROVE x \in {Tail(s)[i] : i \in 1 .. n}
  <2>1. PICK i \in 1 .. n + 1 : x = s[i] /\ i # 1
    BY <1>3
  <2>2. i - 1 \in 1 .. n /\ (i - 1) + 1 = i
    BY <2>1
  <2>3. x = Tail(s)[i - 1]
    BY <1>1, <2>1, <2>2
  <2> QED
    BY <2>2, <2>3
<1>4. \A i, j \in 1 .. n : Tail(s)[i] = Tail(s)[j] => i = j
  BY <1>1
<1> QED
  BY <1>1, <1>2, <1>3, <1>4

LEMMA TrackPreserves ==
  ASSUME TypeOK, TargetsInv, Track(target)
  PROVE  TargetsInv'
<1> DEFINE grown == Append(known_order, target)
           n == Len(known_order)
           S == known_targets \cup {target}
<1>0. n \in Nat /\ Cap \in Nat /\ target \in Addrs /\ known_order \in Seq(Addrs)
  BY UdpAssumption DEF Cap, TypeOK
<1>1. CASE target \in known_targets
  BY <1>1 DEF Track, targetVars, TargetsInv, Cap
<1>2. CASE target \notin known_targets
  <2>1. /\ grown \in Seq(Addrs) /\ Len(grown) = n + 1
        /\ \A i \in 1 .. n : grown[i] = known_order[i]
        /\ grown[n + 1] = target
    BY <1>0, AppendProperties
  <2>2. {grown[i] : i \in 1 .. n + 1} = S
    BY <1>0, <2>1 DEF TargetsInv
  <2>3. \A i, j \in 1 .. n + 1 : grown[i] = grown[j] => i = j
    BY <1>0, <1>2, <2>1 DEF TargetsInv
  <2>4. IsFiniteSet(S) /\ Cardinality(S) = n + 1
    BY <1>2, FS_AddElement DEF TargetsInv
  <2>5. IF n + 1 > Cap
          THEN known_order' = Tail(grown) /\ known_targets' = S \ {Head(grown)}
          ELSE known_order' = grown /\ known_targets' = S
    BY <1>0, <1>2, <2>1 DEF Track
  <2>6. n <= Cap /\ Cap' = Cap
    BY DEF TargetsInv, Cap
  <2> HIDE DEF grown, n, S
  <2>7. CASE n + 1 > Cap
    <3>1. /\ Len(Tail(grown)) = n /\ Head(grown) = grown[1]
          /\ \A i, j \in 1 .. n : Tail(grown)[i] = Tail(grown)[j] => i = j
          /\ {Tail(grown)[i] : i \in 1 .. n} = S \ {Head(grown)}
      BY <1>0, <2>1, <2>2, <2>3, TailHolds
    <3>2. Head(grown) \in S
      BY <1>0, <2>2, <3>1
    <3>3. IsFiniteSet(S \ {Head(grown)}) /\ Cardinality(S \ {Head(grown)}) = n
      <4>1. /\ IsFiniteSet(S \ {Head(grown)})
            /\ Cardinality(S \ {Head(grown)}) = Cardinality(S) - 1
        BY <2>4, <3>2, FS_RemoveElement, Zenon
      <4> QED
        BY <1>0, <2>4, <4>1
    <3>4. known_order' = Tail(grown) /\ known_targets' = S \ {Head(grown)}
      BY <2>5, <2>7
    <3>5. Len(known_order') = n
      BY <3>1, <3>4
    <3>6. known_targets' = {known_order'[i] : i \in 1 .. Len(known_order')}
      BY <3>1, <3>4, <3>5, Zenon
    <3>7. \A i, j \in 1 .. Len(known_order') : known_order'[i] = known_order'[j] => i = j
      BY <3>1, <3>4, <3>5, Zenon
    <3> QED
      BY <2>6, <3>3, <3>4, <3>5, <3>6, <3>7, Zenon DEF TargetsInv
  <2>8. CASE ~ (n + 1 > Cap)
    <3>1. n + 1 <= Cap
      BY <1>0, <2>8
    <3>2. known_order' = grown /\ known_targets' = S
      BY <2>5, <2>8
    <3>3. Len(known_order') = n + 1
      BY <2>1, <3>2
    <3>4. known_targets' = {known_order'[i] : i \in 1 .. Len(known_order')}
      BY <2>2, <3>2, <3>3, Zenon
    <3>5. \A i, j \in 1 .. Len(known_order') : known_order'[i] = known_order'[j] => i = j
      BY <2>3, <3>2, <3>3, Zenon
    <3> QED
      BY <2>4, <2>6, <3>1, <3>2, <3>3, <3>4, <3>5, Zenon DEF TargetsInv
  <2> QED
    BY <2>7, <2>8
<1> QED
  BY <1>1, <1>2

LEMMA TargetsPreserved == TypeOK /\ TargetsInv /\ [Next]_vars => TargetsInv'
<1> SUFFICES ASSUME TypeOK, TargetsInv, [Next]_vars PROVE TargetsInv'
  OBVIOUS
<1>1. CASE SendDone
  BY <1>1, TrackPreserves DEF SendDone
<1>2. CASE UNCHANGED targetVars
  BY <1>2 DEF targetVars, TargetsInv, Cap
<1> QED
  BY <1>1, <1>2 DEF Next, vars, Datagram, ClientMalformed, ClientOverBudget,
     ClientDomain, ClientLiteral, FromClient, FromTarget, FromStranger, Resolve, Resolved,
     ResolveFails, Send, SendFails, Delivered, IdleTimeout, SocketError, ControlData,
     ControlClosed, ShutdownObserved, Close, ClientCloses, ShutdownRequested, Setup, Tick

-----------------------------------------------------------------------------
(* Privacy.                                                                *)

\* What the datagram in hand was found to be when it was read still holds when the loop
\* has resolved its target, or is about to send.
PrivateInv ==
  /\ pc \in {"resolving", "sending"} => client_udp_addr = {src}
  /\ pc = "sending" => target \notin Blocked
  /\ pc = "delivering" => client_udp_addr # {} /\ src \in known_targets

LEMMA PrivatePreserved == PrivateInv /\ [Next]_vars => PrivateInv'
<1> SUFFICES ASSUME PrivateInv, [Next]_vars PROVE PrivateInv'
  OBVIOUS
<1> USE DEF PrivateInv, Goto, targetVars
<1>1. ASSUME NEW a \in Addrs, Datagram(a) PROVE PrivateInv'
  BY <1>1 DEF Datagram, ClientMalformed, ClientOverBudget, ClientDomain, ClientLiteral,
     FromClient, FromTarget, FromStranger
<1>2. CASE Setup
  BY <1>2 DEF Setup
<1>3. CASE Resolve \/ Send \/ Delivered
  BY <1>3 DEF Resolve, Resolved, ResolveFails, Send, SendDone, SendFails, Delivered
<1>4. CASE IdleTimeout \/ SocketError \/ ControlData \/ ControlClosed \/ ShutdownObserved
  BY <1>4 DEF IdleTimeout, SocketError, ControlData, ControlClosed, ShutdownObserved, Close
<1>5. CASE ClientCloses \/ ShutdownRequested \/ Tick \/ UNCHANGED vars
  BY <1>5 DEF ClientCloses, ShutdownRequested, Tick, vars
<1> QED
  BY <1>1, <1>2, <1>3, <1>4, <1>5 DEF Next

PrivateStep ==
  /\ client_udp_addr # {} => client_udp_addr' = client_udp_addr
  /\ \A t \in known_targets' \ known_targets : client_udp_addr = {src} /\ t \notin Blocked
  /\ pc' = "delivering" => client_udp_addr # {} /\ src' \in known_targets

LEMMA StepIsPrivate == PrivateInv /\ Next => PrivateStep
<1> SUFFICES ASSUME PrivateInv, Next PROVE PrivateStep
  OBVIOUS
<1> USE DEF PrivateInv, PrivateStep, Goto, targetVars
<1>1. ASSUME NEW a \in Addrs, Datagram(a) PROVE PrivateStep
  BY <1>1 DEF Datagram, ClientMalformed, ClientOverBudget, ClientDomain, ClientLiteral,
     FromClient, FromTarget, FromStranger, IsClient
<1>2. CASE Setup
  BY <1>2 DEF Setup
<1>3. CASE Resolve \/ Send \/ Delivered
  BY <1>3 DEF Resolve, Resolved, ResolveFails, Send, SendDone, SendFails, Delivered, Track
<1>4. CASE IdleTimeout \/ SocketError \/ ControlData \/ ControlClosed \/ ShutdownObserved
  BY <1>4 DEF IdleTimeout, SocketError, ControlData, ControlClosed, ShutdownObserved, Close
<1>5. CASE ClientCloses \/ ShutdownRequested \/ Tick
  BY <1>5 DEF ClientCloses, ShutdownRequested, Tick
<1> QED
  BY <1>1, <1>2, <1>3, <1>4, <1>5 DEF Next

-----------------------------------------------------------------------------
(* The rate.                                                               *)

\* The sends of the last second are those charged to the current window and those of
\* earlier ones, which are at least as old as the window: there is only one earlier window
\* they can be of.  The budget that was checked is still there when it is charged.
RateInv ==
  \A limit \in RatePps :
    /\ window_count <= limit
    /\ pc \in {"resolving", "sending"} => window_count < limit
    /\ \E cur \in SUBSET DOMAIN recent :
         /\ Cardinality(cur) <= window_count
         /\ Cardinality(DOMAIN recent \ cur) <= limit
         /\ \A key \in DOMAIN recent \ cur : recent[key] >= window_age

LEMMA RateInitially == Init => RateInv
<1> SUFFICES ASSUME Init, NEW limit \in RatePps PROVE
      /\ window_count <= limit
      /\ pc \notin {"resolving", "sending"}
      /\ DOMAIN recent = {} /\ Cardinality({}) <= window_count /\ Cardinality({}) <= limit
  BY DEF RateInv
<1> QED
  BY UdpAssumption, FS_EmptySet DEF Init

\* A datagram of the client is the only step that opens a window.
LEMMA RenewPreserves ==
  ASSUME TypeOK, RateInv, RenewWindow, recent' = recent,
         pc' \in {"resolving", "sending"} => WithinBudget
  PROVE  RateInv'
<1> SUFFICES ASSUME NEW limit \in RatePps
             PROVE  /\ window_count' <= limit
                    /\ pc' \in {"resolving", "sending"} => window_count' < limit
                    /\ \E cur \in SUBSET DOMAIN recent :
                         /\ Cardinality(cur) <= window_count'
                         /\ Cardinality(DOMAIN recent \ cur) <= limit
                         /\ \A key \in DOMAIN recent \ cur : recent[key] >= window_age'
  BY DEF RateInv
<1>0. limit \in Nat /\ window_count \in Nat /\ window_age \in 0 .. Second /\ Second \in Nat
  BY UdpAssumption DEF TypeOK
<1>1. PICK cur \in SUBSET DOMAIN recent :
         /\ Cardinality(cur) <= window_count
         /\ Cardinality(DOMAIN recent \ cur) <= limit
         /\ \A key \in DOMAIN recent \ cur : recent[key] >= window_age
  BY DEF RateInv
<1>2. window_count <= limit
  BY DEF RateInv
<1>3. window_count' = IF window_age >= Second THEN 0 ELSE window_count
  BY DEF RenewWindow, WindowCount
<1>4. window_age' = IF window_age >= Second THEN 0 ELSE window_age
  BY DEF RenewWindow
<1>5. pc' \in {"resolving", "sending"} => window_count' < limit
  BY <1>3 DEF WithinBudget, WindowCount
<1>6. CASE window_age >= Second
  <2>1. \A key \in DOMAIN recent : recent[key] \in 0 .. Second - 1
    BY DEF TypeOK, RecentOK
  <2>2. cur = DOMAIN recent
    BY <1>0, <1>1, <1>6, <2>1
  <2>3. Cardinality(cur) \in Nat /\ IsFiniteSet(cur)
    BY <2>2, FS_CardinalityType DEF TypeOK, RecentOK
  <2>4. DOMAIN recent \ {} = cur /\ Cardinality(cur) <= limit
    BY <1>0, <1>1, <1>2, <2>2, <2>3
  <2>5. Cardinality({}) <= window_count' /\ window_count' <= limit
    BY <1>0, <1>3, <1>6, FS_EmptySet
  <2>6. \A key \in DOMAIN recent \ {} : recent[key] >= window_age'
    BY <1>0, <1>4, <1>6, <2>1
  <2> QED
    BY <1>5, <2>4, <2>5, <2>6
<1>7. CASE ~ (window_age >= Second)
  BY <1>1, <1>2, <1>3, <1>4, <1>5, <1>7
<1> QED
  BY <1>6, <1>7

LEMMA SendPreservesRate ==
  ASSUME TypeOK, RateInv, SendDone
  PROVE  RateInv'
<1> SUFFICES ASSUME NEW limit \in RatePps
             PROVE  /\ window_count' <= limit
                    /\ pc' \notin {"resolving", "sending"}
                    /\ \E cur \in SUBSET DOMAIN recent' :
                         /\ Cardinality(cur) <= window_count'
                         /\ Cardinality(DOMAIN recent' \ cur) <= limit
                         /\ \A key \in DOMAIN recent' \ cur : recent'[key] >= window_age'
  BY DEF RateInv
<1>0. limit \in Nat /\ window_count \in Nat
  BY UdpAssumption DEF TypeOK
<1>1. PICK cur \in SUBSET DOMAIN recent :
         /\ Cardinality(cur) <= window_count
         /\ Cardinality(DOMAIN recent \ cur) <= limit
         /\ \A key \in DOMAIN recent \ cur : recent[key] >= window_age
  BY DEF RateInv
<1>2. window_count < limit
  BY DEF RateInv, SendDone
<1>3. window_count' = window_count + 1 /\ window_age' = window_age /\ pc' = "select"
  BY DEF SendDone, Goto
<1>4. FreshKey \notin DOMAIN recent
  BY FreshKeyIsFresh DEF TypeOK, RecentOK
<1>5. /\ DOMAIN recent' = DOMAIN recent \cup {FreshKey}
      /\ \A key \in DOMAIN recent : recent'[key] = recent[key]
  BY <1>4 DEF SendDone
<1>6. IsFiniteSet(cur) /\ FreshKey \notin cur
  BY <1>4, FS_Subset DEF TypeOK, RecentOK
<1>7. Cardinality(cur \cup {FreshKey}) = Cardinality(cur) + 1 /\ Cardinality(cur) \in Nat
  BY <1>6, FS_AddElement, FS_CardinalityType
<1>8. cur \cup {FreshKey} \in SUBSET DOMAIN recent'
      /\ DOMAIN recent' \ (cur \cup {FreshKey}) = DOMAIN recent \ cur
  BY <1>4, <1>5
<1>9. Cardinality(cur \cup {FreshKey}) <= window_count'
  BY <1>0, <1>1, <1>3, <1>7
<1>10. \A key \in DOMAIN recent \ cur : recent'[key] >= window_age'
  BY <1>1, <1>3, <1>5
<1>11. window_count' <= limit
  BY <1>0, <1>2, <1>3
<1> QED
  BY <1>1, <1>3, <1>8, <1>9, <1>10, <1>11

LEMMA TickPreservesRate ==
  ASSUME TypeOK, RateInv, Tick
  PROVE  RateInv'
<1> SUFFICES ASSUME NEW limit \in RatePps
             PROVE  /\ window_count' <= limit
                    /\ pc' \in {"resolving", "sending"} => window_count' < limit
                    /\ \E cur \in SUBSET DOMAIN recent' :
                         /\ Cardinality(cur) <= window_count'
                         /\ Cardinality(DOMAIN recent' \ cur) <= limit
                         /\ \A key \in DOMAIN recent' \ cur : recent'[key] >= window_age'
  BY DEF RateInv
<1>0. limit \in Nat /\ window_count \in Nat /\ window_age \in 0 .. Second /\ Second \in Nat
  BY UdpAssumption DEF TypeOK
<1>1. PICK cur \in SUBSET DOMAIN recent :
         /\ Cardinality(cur) <= window_count
         /\ Cardinality(DOMAIN recent \ cur) <= limit
         /\ \A key \in DOMAIN recent \ cur : recent[key] >= window_age
  BY DEF RateInv
<1>2. window_count <= limit /\ (pc \in {"resolving", "sending"} => window_count < limit)
  BY DEF RateInv
<1>3. window_count' = window_count /\ pc' = pc
  BY DEF Tick
<1>4. window_age' = IF window_age < Second THEN window_age + 1 ELSE Second
  BY DEF Tick
<1>5. /\ DOMAIN recent' = {k \in DOMAIN recent : recent[k] + 1 < Second}
      /\ \A key \in DOMAIN recent' : recent'[key] = recent[key] + 1
  BY DEF Tick
<1>6. \A key \in DOMAIN recent : recent[key] \in 0 .. Second - 1
  BY DEF TypeOK, RecentOK
<1>7. IsFiniteSet(cur) /\ IsFiniteSet(DOMAIN recent \ cur)
  BY FS_Subset DEF TypeOK, RecentOK
<1> DEFINE now == cur \cap DOMAIN recent'
<1>8. now \subseteq cur /\ DOMAIN recent' \ now \subseteq DOMAIN recent \ cur
  BY <1>5
<1>9. /\ Cardinality(now) <= Cardinality(cur)
      /\ Cardinality(now) \in Nat /\ Cardinality(cur) \in Nat
  BY <1>7, <1>8, FS_Subset, FS_CardinalityType
<1>10. /\ Cardinality(DOMAIN recent' \ now) <= Cardinality(DOMAIN recent \ cur)
       /\ Cardinality(DOMAIN recent' \ now) \in Nat
       /\ Cardinality(DOMAIN recent \ cur) \in Nat
  BY <1>7, <1>8, FS_Subset, FS_CardinalityType
<1>11. \A key \in DOMAIN recent' \ now : recent'[key] >= window_age'
  <2> SUFFICES ASSUME NEW key \in DOMAIN recent' \ now PROVE recent'[key] >= window_age'
    OBVIOUS
  <2>1. recent'[key] = recent[key] + 1 /\ recent[key] >= window_age /\ recent[key] \in 0 .. Second - 1
    BY <1>1, <1>5, <1>6, <1>8
  <2> QED
    BY <1>0, <1>4, <2>1
<1>12. now \in SUBSET DOMAIN recent' /\ Cardinality(now) <= window_count'
       /\ Cardinality(DOMAIN recent' \ now) <= limit
  BY <1>0, <1>1, <1>3, <1>9, <1>10
<1> QED
  BY <1>2, <1>3, <1>11, <1>12

LEMMA RatePreserved == TypeOK /\ RateInv /\ [Next]_vars => RateInv'
<1> SUFFICES ASSUME TypeOK, RateInv, [Next]_vars PROVE RateInv'
  OBVIOUS
<1>1. CASE SendDone
  BY <1>1, SendPreservesRate
<1>2. CASE Tick
  BY <1>2, TickPreservesRate
<1>3. ASSUME NEW a \in Addrs,
             ClientOverBudget(a) \/ ClientDomain(a) \/ \E t \in Addrs : ClientLiteral(a, t)
      PROVE  RateInv'
  <2>1. RenewWindow /\ recent' = recent /\ (pc' \in {"resolving", "sending"} => WithinBudget)
    BY <1>3 DEF ClientOverBudget, ClientDomain, ClientLiteral, FromClient, Goto
  <2> QED
    BY <2>1, RenewPreserves
<1>4. ASSUME UNCHANGED <<window_age, window_count, recent>>,
             pc' \in {"resolving", "sending"} => pc \in {"resolving", "sending"}
      PROVE  RateInv'
  BY <1>4 DEF RateInv
<1>5. ASSUME NEW a \in Addrs, ClientMalformed(a) \/ FromTarget(a) \/ FromStranger(a) PROVE RateInv'
  BY <1>4, <1>5 DEF ClientMalformed, FromTarget, FromStranger, FromClient, Goto, windowVars
<1>6. CASE Setup \/ Resolve \/ SendFails \/ Delivered
  BY <1>4, <1>6 DEF Setup, Resolve, Resolved, ResolveFails, SendFails, Delivered, Goto, windowVars
<1>7. CASE IdleTimeout \/ SocketError \/ ControlData \/ ControlClosed \/ ShutdownObserved
  BY <1>4, <1>7 DEF IdleTimeout, SocketError, ControlData, ControlClosed, ShutdownObserved,
     Close, Goto, windowVars
<1>8. CASE ClientCloses \/ ShutdownRequested \/ UNCHANGED vars
  BY <1>4, <1>8 DEF ClientCloses, ShutdownRequested, vars, windowVars
<1> QED
  BY <1>1, <1>2, <1>3, <1>5, <1>6, <1>7, <1>8 DEF Next, Datagram, Send

LEMMA BurstBounded == TypeOK /\ RateInv => BurstIsBounded
<1> SUFFICES ASSUME TypeOK, RateInv, NEW limit \in RatePps
             PROVE  Cardinality(DOMAIN recent) <= 2 * limit
  BY DEF BurstIsBounded, SentLastSecond
<1>0. limit \in Nat /\ window_count \in Nat /\ window_count <= limit
  BY UdpAssumption DEF TypeOK, RateInv
<1>1. PICK cur \in SUBSET DOMAIN recent :
         /\ Cardinality(cur) <= window_count
         /\ Cardinality(DOMAIN recent \ cur) <= limit
  BY DEF RateInv
<1>2. IsFiniteSet(cur) /\ IsFiniteSet(DOMAIN recent \ cur)
  BY FS_Subset DEF TypeOK, RecentOK
<1>3. Cardinality(cur \cup (DOMAIN recent \ cur))
        = Cardinality(cur) + Cardinality(DOMAIN recent \ cur)
          - Cardinality(cur \cap (DOMAIN recent \ cur))
  BY <1>2, FS_Union
<1>4. cur \cup (DOMAIN recent \ cur) = DOMAIN recent /\ cur \cap (DOMAIN recent \ cur) = {}
  OBVIOUS
<1>5. Cardinality(cur) \in Nat /\ Cardinality(DOMAIN recent \ cur) \in Nat /\ Cardinality({}) = 0
  BY <1>2, FS_CardinalityType, FS_EmptySet
<1> QED
  BY <1>0, <1>1, <1>3, <1>4, <1>5

-----------------------------------------------------------------------------
(* The theorems.                                                           *)

IInv == TypeOK /\ SetupInv /\ TargetsInv /\ PrivateInv /\ RateInv

LEMMA Inductive == Spec => []IInv
<1>1. Init => IInv
  <2> SUFFICES ASSUME Init PROVE TargetsInv /\ PrivateInv
    BY TypeInitially, RateInitially DEF IInv
  <2>1. Cap \in Nat
    BY UdpAssumption DEF Cap
  <2> QED
    BY <2>1, FS_EmptySet DEF Init, TargetsInv, PrivateInv
<1>2. IInv /\ [Next]_vars => IInv'
  BY TypePreserved, SetupPreserves, TargetsPreserved, PrivatePreserved, RatePreserved DEF IInv
<1> QED
  BY <1>1, <1>2, PTL DEF Spec

\* No await of the relay loop outlives its timeout, and the HashSet that filters replies and
\* the VecDeque that evicts from it are the same targets, each named once, never more than
\* udp_max_targets.max(1), whatever arrives and in whatever order.
THEOREM UdpInvariant == Spec => []UdpInv
<1>1. IInv => UdpInv
  <2> SUFFICES ASSUME IInv PROVE UdpInv
    OBVIOUS
  <2>1. known_order \in Seq(Addrs)
    BY DEF IInv, TypeOK
  <2>2. DOMAIN known_order = 1 .. Len(known_order)
    BY <2>1
  <2> QED
    BY <2>2 DEF IInv, TargetsInv, UdpInv, TargetsAgree
<1> QED
  BY <1>1, Inductive, PTL

\* The reply to UDP ASSOCIATE names a port of the range and an address of the relay
\* socket's family, unless that is a literal of the other one, and the range is given up
\* as exhausted with every port of it found unavailable, unless the scan crossed the
\* wrap-around of the cursor at a width that does not divide it, and never otherwise.
THEOREM SetupOutcomeIsExact == Spec => []SetupIsExact
<1>1. IInv => SetupIsExact
  BY SetupExact DEF IInv
<1> QED
  BY <1>1, Inductive, PTL

\* The association never changes hands, learns targets only from its client's datagrams and
\* within the egress policy, and delivers nothing before the client is known.
THEOREM Privacy == Spec => AssociationIsPrivate
<1>1. IInv /\ [Next]_vars => [PrivateStep]_vars
  BY StepIsPrivate DEF IInv
<1> QED
  BY <1>1, Inductive, PTL DEF Spec, AssociationIsPrivate, PrivateStep

\* udp_rate_pps bounds what leaves in any second to twice the rate, however long the loop
\* resolves between the check of the budget and its charge.
THEOREM RateIsBounded == Spec => []BurstIsBounded
<1>1. IInv => BurstIsBounded
  BY BurstBounded DEF IInv
<1> QED
  BY <1>1, Inductive, PTL
=============================================================================
