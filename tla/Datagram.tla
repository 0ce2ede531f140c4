------------------------------ MODULE Datagram ------------------------------
(***************************************************************************)
(* The way of one datagram through the relay of src/src/server/udp.rs:     *)
(* the client's bytes are taken apart, the target is found, the egress     *)
(* policy is asked, the payload is sent, and the target's answer is put    *)
(* into a header for the client.  UdpRelay has the relay's bookkeeping     *)
(* (sources, targets, rate); here are the bytes and the addresses.         *)
(***************************************************************************)
EXTENDS Wire, Egress

CONSTANTS
  Policies,   \* the egress policies of the configuration
  Inputs,     \* what a client may send, as bytes
  Lookups,    \* what the resolver may return for a name: sequences of addresses
  Payloads    \* what a target may answer

\* A literal address has the octets of its family.
Address ==
  [atyp : {"v4"}, host : V4, port : Octet \X Octet]
    \union [atyp : {"v6"}, host : [1 .. 16 -> Octet], port : Octet \X Octet]

ASSUME DatagramAssumption ==
  /\ V4Len = 4 /\ V6Len = 16 /\ MaxByte = 255
  /\ Policies \subseteq Policy
  /\ Inputs \subseteq Bytes /\ Payloads \subseteq Bytes
  /\ Lookups \subseteq Seq(Address)

VARIABLES
  policy,   \* cfg.egress
  family,   \* the family of bind_ip
  input,    \* the received bytes
  answer,   \* what the resolver returned, if it was asked
  stage,    \* "waiting", "received", "addressed", "dropped", "blocked", "sent", "answered"
  target,   \* the address the payload goes to
  reply     \* [data, framed]: the target's answer and the bytes the client gets

datagramVars == <<policy, family, input, answer, stage, target, reply>>

NoTarget == [atyp |-> "none", host |-> <<>>, port |-> <<>>]
NoReply == [data |-> <<>>, framed |-> <<>>]

datagram == DecapRef(input)

Segments(host) == [k \in 1 .. 8 |-> 256 * host[2 * k - 1] + host[2 * k]]

IsBlocked(p, a) == IF a.atyp = "v4" THEN BlockedV4(p, a.host) ELSE BlockedV6(p, Segments(a.host))

DatagramInit ==
  /\ policy \in Policies
  /\ family \in {"v4", "v6"}
  /\ input = <<>>
  /\ answer = <<>>
  /\ stage = "waiting"
  /\ target = NoTarget
  /\ reply = NoReply

\* recv_from returns.
Receive ==
  /\ stage = "waiting"
  /\ input' \in Inputs
  /\ stage' = "received"
  /\ UNCHANGED <<policy, family, answer, target, reply>>

Keep == UNCHANGED <<policy, family, input>>

Complete == datagram.kind = "ok" /\ datagram.frag = 0

\* Err(_) => continue; frag != 0 => continue.
Discard ==
  /\ stage = "received"
  /\ ~Complete
  /\ stage' = "dropped"
  /\ Keep /\ UNCHANGED <<answer, target, reply>>

Accepted(atyps) == stage = "received" /\ Complete /\ datagram.address.atyp \in atyps

Literal ==
  /\ Accepted({"v4", "v6"})
  /\ target' = [f \in DOMAIN NoTarget |-> datagram.address[f]]
  /\ stage' = "addressed"
  /\ Keep /\ UNCHANGED <<answer, reply>>

\* The find of the address list: the family fits and the policy allows it.
Eligible(a) == a.atyp = family /\ ~IsBlocked(policy, a)

Resolve ==
  /\ Accepted({"domain"})
  /\ \E list \in Lookups :
       /\ answer' = list
       /\ \/ /\ \A k \in DOMAIN list : ~Eligible(list[k])
             /\ stage' = "blocked"
             /\ UNCHANGED target
          \/ \E k \in DOMAIN list :
               /\ Eligible(list[k])
               /\ \A j \in 1 .. k - 1 : ~Eligible(list[j])
               /\ stage' = "addressed"
               /\ target' = [list[k] EXCEPT !.port = datagram.address.port]
  /\ Keep /\ UNCHANGED reply

ResolveFails ==
  /\ Accepted({"domain"})
  /\ stage' = "dropped"
  /\ Keep /\ UNCHANGED <<answer, target, reply>>

\* The check of the policy, for a literal and once more for a resolved name; then
\* send_to, which may fail or take longer than UDP_SEND_TIMEOUT.
Refused ==
  /\ stage = "addressed"
  /\ IsBlocked(policy, target)
  /\ stage' = "blocked"
  /\ Keep /\ UNCHANGED <<answer, target, reply>>

Send ==
  /\ stage = "addressed"
  /\ ~IsBlocked(policy, target)
  /\ stage' \in {"sent", "dropped"}
  /\ Keep /\ UNCHANGED <<answer, target, reply>>

\* A datagram from a known target: encap(addr_from_socket(src), ..).
ReplyArrives ==
  /\ stage = "sent"
  /\ \E data \in Payloads : reply' = [data |-> data, framed |-> Encap(target, data)]
  /\ stage' = "answered"
  /\ Keep /\ UNCHANGED <<answer, target>>

DatagramNext ==
  \/ Receive
  \/ Discard \/ Literal \/ Resolve \/ ResolveFails
  \/ Refused \/ Send \/ ReplyArrives

DatagramSpec == DatagramInit /\ [][DatagramNext]_datagramVars

-----------------------------------------------------------------------------
(* What an address block is, bit by bit.                                   *)

\* The first n bits of octet x are those of y: what is left of them without the others.
SameBits(x, y, n) ==
  LET rest == <<128, 64, 32, 16, 8, 4, 2>>
  IN  /\ n >= 8 => x = y
      /\ n \in 1 .. 7 => x \div rest[n] = y \div rest[n]

\* The first n bits of host are those of net.
InNet(host, net, n) ==
  /\ Len(host) = Len(net)
  /\ \A k \in DOMAIN host : SameBits(host[k], net[k], n - 8 * (k - 1))

\* The blocks of each class, as the configuration documents them.
Nets4 == [loopback   |-> {<<<<127, 0, 0, 0>>, 8>>, <<<<0, 0, 0, 0>>, 8>>},
          link_local |-> {<<<<169, 254, 0, 0>>, 16>>},
          private    |-> {<<<<10, 0, 0, 0>>, 8>>, <<<<172, 16, 0, 0>>, 12>>,
                          <<<<192, 168, 0, 0>>, 16>>, <<<<100, 64, 0, 0>>, 10>>},
          always     |-> {<<<<0, 0, 0, 0>>, 32>>}]

Zeros(n) == [k \in 1 .. n |-> 0]

Nets6 == [loopback   |-> {<<Zeros(15) \o <<1>>, 128>>},
          link_local |-> {<<<<254, 128>> \o Zeros(14), 10>>},
          private    |-> {<<<<252>> \o Zeros(15), 7>>},
          always     |-> {<<Zeros(16), 128>>}]

\* The two ways of writing an IPv4 address as an IPv6 one.
Mapped == Zeros(10) \o <<255, 255>>
Compatible == Zeros(12)

Forbidden(p, host) ==
  \E class \in DOMAIN Nets4 :
    /\ class = "always" \/ (class # "always" /\ p[class])
    /\ \/ \E net \in Nets4[class] :
            \/ InNet(host, net[1], net[2])
            \/ \E form \in {Mapped, Compatible} : InNet(host, form \o net[1], 96 + net[2])
       \/ \E net \in Nets6[class] : InNet(host, net[1], net[2])

\* Egress::is_blocked decides by octets, segments and masks, over two families and two
\* embeddings.  Whatever address the payload was sent to, it lies in none of the blocks
\* of the classes the operator closed, in no notation; and what the policy stopped does
\* lie in one, or was a name none of whose addresses of the socket's family is outside.
PolicyIsExact ==
  /\ stage \in {"sent", "answered"} => ~Forbidden(policy, target.host)
  /\ stage = "blocked" =>
       IF target # NoTarget
         THEN Forbidden(policy, target.host)
         ELSE \A k \in DOMAIN answer :
                answer[k].atyp = family => Forbidden(policy, answer[k].host)

\* Where the address ends in a datagram, by the layout of RFC 1928.
HeaderEnds(b) == {n \in 4 .. Len(b) : AddressFits(SubSeq(b, 4, n))}

\* decap_ref and encap against the layout.  A datagram that was passed on had an
\* unfragmented, complete header; one dropped unseen (no target, no lookup) had none or
\* was a name nobody could resolve.  The header of the answer is complete too, is
\* followed by exactly what the target said, and repeats the address as the client
\* wrote it when that was a literal.
DatagramIsExact ==
  /\ stage \in {"addressed", "sent", "answered"} => HeaderEnds(input) # {} /\ input[3] = 0
  /\ stage = "dropped" /\ target = NoTarget /\ HeaderEnds(input) # {} =>
       input[3] # 0 \/ input[4] = 3
  /\ stage = "answered" =>
       \E m \in HeaderEnds(reply.framed) :
         /\ SubSeq(reply.framed, 1, 3) = <<0, 0, 0>>
         /\ reply.data = SubSeq(reply.framed, m + 1, Len(reply.framed))
         /\ input[4] # 3 => SubSeq(reply.framed, 4, m) \in
                              {SubSeq(input, 4, n) : n \in HeaderEnds(input)}
=============================================================================
