------------------------------ MODULE MCServer ------------------------------
(***************************************************************************)
(* The instance of Server for TLC: three clients, two of them from the     *)
(* same address.                                                           *)
(***************************************************************************)
EXTENDS Server

CONSTANTS a, b, c1, c2, c3

MCIPs == {a, b}
ThreeConns == {c1, c2, c3}

\* c1 and c2 share an address.
MCIpOf == [c \in Conns |-> IF c = c3 THEN b ELSE a]
=============================================================================
