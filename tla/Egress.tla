------------------------------- MODULE Egress -------------------------------
(***************************************************************************)
(* The egress policy: Egress::is_blocked of src/src/config.rs.             *)
(*                                                                         *)
(* An IPv4 address is the sequence of its 4 octets, an IPv6 address that   *)
(* of its 8 segments.  A policy says which classes are blocked.  A mask    *)
(* that keeps the upper bits of a number is a division.                    *)
(***************************************************************************)
EXTENDS Integers

Policy == [loopback : BOOLEAN, link_local : BOOLEAN, private : BOOLEAN]

Octet == 0 .. 255
Segment == 0 .. 65535

V4 == Octet \X Octet \X Octet \X Octet
V6 == Segment \X Segment \X Segment \X Segment \X Segment \X Segment \X Segment \X Segment

\* The second half: v4.is_loopback, is_link_local and is_private, with 0.0.0.0/8 and
\* the shared range 100.64.0.0/10 added.
BlockedV4(policy, o) ==
  \/ o = <<0, 0, 0, 0>>
  \/ policy.loopback /\ o[1] \in {0, 127}
  \/ policy.link_local /\ o[1] = 169 /\ o[2] = 254
  \/ /\ policy.private
     /\ \/ o[1] = 10
        \/ o[1] = 172 /\ o[2] \in 16 .. 31
        \/ o[1] = 192 /\ o[2] = 168
        \/ o[1] = 100 /\ o[2] \div 64 = 1

\* The native classes of IPv6: unspecified, loopback, fe80::/10, fc00::/7.
BlockedNative(policy, s) ==
  \/ s = <<0, 0, 0, 0, 0, 0, 0, 0>>
  \/ policy.loopback /\ s = <<0, 0, 0, 0, 0, 0, 0, 1>>
  \/ policy.link_local /\ s[1] \div 64 = 1018
  \/ policy.private /\ s[1] \div 512 = 126

\* Variant: only ::ffff:a.b.c.d is folded.
EmbedsMappedOnly(s) == (\A k \in 1 .. 5 : s[k] = 0) /\ s[6] = 65535

\* v6.to_ipv4: ::ffff:a.b.c.d and ::a.b.c.d.
Embeds(s) == (\A k \in 1 .. 5 : s[k] = 0) /\ s[6] \in {0, 65535}

Embedded(s) == <<s[7] \div 256, s[7] % 256, s[8] \div 256, s[8] % 256>>

BlockedV6(policy, s) ==
  \/ BlockedNative(policy, s)
  \/ Embeds(s) /\ BlockedV4(policy, Embedded(s))
=============================================================================
