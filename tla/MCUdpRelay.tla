----------------------------- MODULE MCUdpRelay -----------------------------
(***************************************************************************)
(* Instances of UdpRelay for TLC: one host with the client's ip and two    *)
(* ports, a target, and one that the egress policy refuses.  The ranges    *)
(* have one, two and three ports; three do not divide the cursor's wrap.   *)
(***************************************************************************)
EXTENDS UdpRelay

CONSTANTS x1, x2, t1, bad

MCOneTarget == {x1, x2, t1, bad}
MCClientAddrs == {x1, x2}
MCBlocked == {bad}

MCRanges == {NoRange} \cup {[start |-> 1, end |-> n] : n \in 1 .. 3}
MCBindIps == [v4 : BOOLEAN, unspecified : {FALSE}]
MCAdvertises == Ip \cup {NoIp, ByName}
MCLookups == {<<>>} \cup [1 .. 2 -> Ip]
=============================================================================
