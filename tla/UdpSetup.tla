------------------------------ MODULE UdpSetup ------------------------------
(***************************************************************************)
(* How a UDP association comes to be: udp::run of src/src/server/udp.rs up *)
(* to the success reply, with bind_with_retry and resolve_advertise_ip.    *)
(*                                                                         *)
(* A port is probed at one moment and the next one at a later moment, and  *)
(* in between other associations and processes take and free ports, so the *)
(* outcome of each probe is open.  PORT_CURSOR is shared as well: a scan   *)
(* may find any value in it.                                               *)
(***************************************************************************)
EXTENDS Integers, Sequences

CONSTANTS
  Ranges,      \* udp.port_range: records of start and end, or NoRange
  NoRange,     \* None
  CursorMod,   \* 2^32, where PORT_CURSOR wraps around
  Ephemeral,   \* a port the system chooses
  BindIps,     \* local addresses of control connections, made canonical
  Advertises,  \* udp.advertise: NoIp, an address, or ByName
  NoIp,        \* None
  ByName,      \* Some(AdvertiseHost::Domain)
  Lookups      \* what the resolver may answer: sequences of addresses

Ip == [v4 : BOOLEAN, unspecified : BOOLEAN]

\* PortRange::parse.
ValidRange(r) == r.start \in Nat \ {0} /\ r.end \in Nat /\ r.start <= r.end

ASSUME SetupAssumption ==
  /\ \A r \in Ranges \ {NoRange} : ValidRange(r) /\ CursorMod > r.end - r.start
  /\ CursorMod \in Nat \ {0}
  /\ Ephemeral \in Nat
  /\ BindIps \subseteq [v4 : BOOLEAN, unspecified : {FALSE}]
  /\ Advertises \subseteq Ip \cup {NoIp, ByName}
  /\ NoIp \notin Ip /\ ByName \notin Ip /\ NoIp # ByName
  /\ Lookups \subseteq Seq(Ip)

\* The association being set up: how far it is, its part of the configuration, the
\* scan (cursor value, attempts made, and as history the ports found unavailable),
\* and what it is about to advertise.
VARIABLE setup

Done == [stage |-> "done"]
Gone == [stage |-> "gone"]

SetupInit ==
  \E range \in Ranges, bind \in BindIps, advertise \in Advertises :
    setup = [stage |-> "start", range |-> range, bind |-> bind, advertise |-> advertise]

With(fields) ==
  setup' = [x \in DOMAIN fields \cup DOMAIN setup |->
              IF x \in DOMAIN fields THEN fields[x] ELSE setup[x]]

-----------------------------------------------------------------------------
(* bind_with_retry.                                                        *)

Ports(range) == range.start .. range.end

\* Variant: the last port of the range is forgotten.
WidthExclusive(range) == range.end - range.start

Width(range) == range.end - range.start + 1

\* The port of attempt i: the sum wraps around at 2^32 before the remainder is taken.
PortOf(range, base, i) == range.start + (((base + i) % CursorMod) % Width(range))

\* PORT_CURSOR.fetch_add(1).
StartScan(base) ==
  /\ setup.stage = "start"
  /\ setup.range # NoRange
  /\ With([stage |-> "scan", base |-> base, i |-> 0, busy |-> {}])

\* No range: the system chooses.
BindEphemeral ==
  /\ setup.stage = "start"
  /\ setup.range = NoRange
  /\ With([stage |-> "bound", port |-> Ephemeral])

Probed == PortOf(setup.range, setup.base, setup.i)

Probing ==
  /\ setup.stage = "scan"
  /\ setup.i < Width(setup.range)

ProbeBinds ==
  /\ Probing
  /\ With([stage |-> "bound", port |-> Probed])

\* AddrInUse or PermissionDenied: the next one.
ProbeBusy ==
  /\ Probing
  /\ With([i |-> setup.i + 1, busy |-> setup.busy \cup {Probed}])

ScanExhausted ==
  /\ setup.stage = "scan"
  /\ setup.i = Width(setup.range)
  /\ With([stage |-> "exhausted"])

\* Any other error of a bind; with no range, every one.
BindFatal ==
  /\ Probing \/ (setup.stage = "start" /\ setup.range = NoRange)
  /\ With([stage |-> "unbindable"])

-----------------------------------------------------------------------------
(* resolve_advertise_ip, and the reply.                                    *)

Advertise(ip) ==
  /\ setup.stage = "bound"
  /\ With([stage |-> "reply", ip |-> ip])

AdvertiseBound ==
  /\ setup.advertise = NoIp \/ (setup.advertise \in Ip /\ setup.advertise.unspecified)
  /\ Advertise(setup.bind)

\* A literal is taken as it is, whatever its family.
AdvertiseLiteral ==
  /\ setup.advertise \in Ip
  /\ ~ setup.advertise.unspecified
  /\ Advertise(setup.advertise)

Usable(ip) == ~ ip.unspecified /\ ip.v4 = setup.bind.v4

\* The first usable address of the answer.
AdvertiseResolved(answer) ==
  /\ setup.advertise = ByName
  /\ \E n \in DOMAIN answer :
       /\ Usable(answer[n])
       /\ \A m \in 1 .. n - 1 : ~ Usable(answer[m])
       /\ Advertise(answer[n])

\* The lookup fails or times out, or no address of the answer is usable.
AdvertiseFails(answer) ==
  /\ setup.stage = "bound"
  /\ setup.advertise = ByName
  /\ \A n \in DOMAIN answer : ~ Usable(answer[n])
  /\ With([stage |-> "unresolved"])

ReplyWritten ==
  /\ setup.stage = "reply"
  /\ setup' = Done

\* The failure reply, best effort, and its event; the socket is dropped.
Refuse ==
  /\ setup.stage \in {"exhausted", "unbindable", "unresolved"}
  /\ setup' = Gone

\* A local address cannot be read, or the success reply cannot be written.
GiveUp ==
  /\ setup.stage \in {"start", "bound", "reply"}
  /\ setup' = Gone

SetupStep ==
  \/ \E base \in 0 .. CursorMod - 1 : StartScan(base)
  \/ BindEphemeral \/ ProbeBinds \/ ProbeBusy \/ ScanExhausted \/ BindFatal
  \/ AdvertiseBound \/ AdvertiseLiteral
  \/ \E answer \in Lookups : AdvertiseResolved(answer) \/ AdvertiseFails(answer)
  \/ ReplyWritten \/ Refuse \/ GiveUp

-----------------------------------------------------------------------------
(* Properties.                                                             *)

\* A scan that crosses 2^32 jumps in the range unless its width divides 2^32.
Jumps ==
  /\ setup.base + Width(setup.range) > CursorMod
  /\ CursorMod % Width(setup.range) # 0

\* The client is refused for want of a port after as many attempts as the range has
\* ports, and those found every port unavailable if and only if the scan did not jump:
\* a scan that did has left out a port that may have been free.
ExhaustedIsExact ==
  setup.stage = "exhausted" => (setup.busy = Ports(setup.range) <=> ~ Jumps)

\* The operator configured an address of the family that the relay socket is not of.
ForeignLiteral ==
  /\ setup.advertise \in Ip
  /\ ~ setup.advertise.unspecified
  /\ setup.advertise.v4 # setup.bind.v4

\* What the success reply names: the port lies in the configured range, so that it
\* passes the NAT, the address is not the unspecified one, and it can be used with the
\* relay socket if and only if it is not a literal of the other family.
ReplyIsExact ==
  setup.stage = "reply" =>
    /\ setup.range # NoRange => setup.port \in Ports(setup.range)
    /\ ~ setup.ip.unspecified
    /\ Usable(setup.ip) <=> ~ ForeignLiteral

\* What the client learns from the setup, and when it is wrong: ExhaustedIsExact and
\* ReplyIsExact.
SetupIsExact == ExhaustedIsExact /\ ReplyIsExact

\* bind_with_retry: "error only when every port in the range is unavailable".
ExhaustedMeansAllBusy ==
  setup.stage = "exhausted" => setup.busy = Ports(setup.range)

\* resolve_advertise_ip: "The result must match the relay socket's address family".
AdvertisedFamilyMatches ==
  setup.stage = "reply" => setup.ip.v4 = setup.bind.v4
=============================================================================
