------------------------------ MODULE Connection ------------------------------
(***************************************************************************)
(* One client connection from the first byte to the end of its relay:      *)
(* handle of src/src/server/connection.rs and run of                       *)
(* src/src/server/connect.rs, which lead it through Negotiate, Establish   *)
(* and Relay, or through Negotiate into an association, of which Datagram  *)
(* follows one datagram.                                                   *)
(*                                                                         *)
(*   negotiating   under the handshake deadline                            *)
(*   dialing       in establish                                            *)
(*   dialled       connected, the success reply not yet written            *)
(*   initial       writing the pipelined bytes upstream                    *)
(*   relaying      in copy_bidirectional_counted                           *)
(*   associated    in udp::run                                             *)
(*   over          handle has returned                                     *)
(*                                                                         *)
(* A phase begins with what the one before hands over, and when it ends    *)
(* its variables forget the rest, as the locals of a function that         *)
(* returned.  Registration and events are in Server.                       *)
(***************************************************************************)
EXTENDS Negotiate, Establish, Relay, Datagram

VARIABLES
  place,     \* where the connection stands
  pipelined  \* bytes came with the request that go upstream before the relay

connectionVars == <<place, pipelined, negotiateVars, establishVars, relayVars, datagramVars>>

ConnectionInit ==
  /\ place = "negotiating"
  /\ pipelined = FALSE
  /\ NegotiateInit
  /\ EstablishInit
  /\ RelayInit
  /\ policy = [class \in {"loopback", "link_local", "private"} |-> FALSE]
  /\ family = "v4"
  /\ input = <<>>
  /\ answer = <<>>
  /\ stage = "waiting"
  /\ target = NoTarget
  /\ reply = NoReply

\* The locals of a phase that is over.
RequestForgotten ==
  /\ step' = "aborted"
  /\ wire' = <<>>
  /\ buf' = <<>>
  /\ replies' = <<>>
  /\ request' = NoRequest
  /\ method' = "none"
  /\ stream' = <<>>

SearchForgotten ==
  /\ pc' = "start"
  /\ now' = 0
  /\ done' = {}
  /\ queue' = <<>>
  /\ seen' = {}
  /\ blocked' = FALSE
  /\ active' = {}
  /\ attempt_deadline' = Deadline
  /\ last_error' = FALSE
  /\ dialled' = <<>>
  /\ known' = {}

-----------------------------------------------------------------------------
(* handle: the negotiation, and the dispatch on its result.                *)

Negotiating ==
  /\ place = "negotiating"
  /\ NegotiateNext
  /\ UNCHANGED <<place, pipelined, establishVars, relayVars, datagramVars>>

\* negotiate returned None, or the deadline elapsed.
Closes ==
  /\ place = "negotiating"
  /\ step \in {"closed", "aborted"}
  /\ place' = "over"
  /\ RequestForgotten
  /\ UNCHANGED <<pipelined, establishVars, relayVars, datagramVars>>

Dispatch(command) ==
  /\ place = "negotiating"
  /\ step = "accepted"
  /\ request.command = command
  /\ RequestForgotten

Connect ==
  /\ Dispatch("connect")
  /\ place' = "dialing"
  /\ pipelined' = (buf # <<>>)
  /\ \/ request.address.atyp = "domain" /\ ResolveName
     \/ request.address.atyp # "domain" /\ \E a \in Addrs : TakeLiteral(a)
  /\ UNCHANGED <<relayVars, datagramVars>>

\* The configured policy and the family of the local address matter from here on; what
\* was pipelined behind the request is dropped.
UdpAssociate ==
  /\ Dispatch("udp_associate")
  /\ place' = "associated"
  /\ policy' \in Policies
  /\ family' \in {"v4", "v6"}
  /\ UNCHANGED <<pipelined, establishVars, relayVars, input, answer, stage, target, reply>>

\* A failure reply, whether it can be written or not.
Bind ==
  /\ Dispatch("bind")
  /\ place' = "over"
  /\ UNCHANGED <<pipelined, establishVars, relayVars, datagramVars>>

-----------------------------------------------------------------------------
(* connect::run.                                                           *)

Dialing(A) ==
  /\ place = "dialing"
  /\ A
  /\ UNCHANGED <<place, pipelined, negotiateVars, relayVars, datagramVars>>

\* establish returned a stream, or an error: the client is told, as far as that works.
Dialled ==
  /\ place = "dialing"
  /\ pc \in Returned
  /\ place' = IF pc = "connected" THEN "dialled" ELSE "over"
  /\ pipelined' = (pipelined /\ pc = "connected")
  /\ SearchForgotten
  /\ UNCHANGED <<negotiateVars, relayVars, datagramVars>>

\* The success reply is written, or the connection is dropped unregistered.
Replied ==
  /\ place = "dialled"
  /\ place' \in {IF pipelined THEN "initial" ELSE "relaying", "over"}
  /\ UNCHANGED <<pipelined, negotiateVars, establishVars, relayVars, datagramVars>>

\* upstream.write_all(initial) returns; it has no timeout, and shutdown is not looked at.
InitialWritten ==
  /\ place = "initial"
  /\ place' \in {"relaying", "over"}
  /\ pipelined' = FALSE
  /\ UNCHANGED <<negotiateVars, establishVars, relayVars, datagramVars>>

Relaying(A) ==
  /\ place = "relaying"
  /\ A
  /\ UNCHANGED <<place, pipelined, negotiateVars, establishVars, datagramVars>>

\* The select over the relay and shutdown is through.
RelayReturns ==
  /\ place = "relaying"
  /\ Finished
  /\ place' = "over"
  /\ UNCHANGED <<pipelined, negotiateVars, establishVars, relayVars, datagramVars>>

\* udp::run: one datagram of the association.
Associated ==
  /\ place = "associated"
  /\ DatagramNext
  /\ UNCHANGED <<place, pipelined, negotiateVars, establishVars, relayVars>>

-----------------------------------------------------------------------------
ConnectionNext ==
  \/ Negotiating \/ Closes \/ Connect \/ UdpAssociate \/ Bind
  \/ Dialing(Search) \/ Dialled \/ Replied \/ InitialWritten
  \/ Relaying(RelayNext) \/ RelayReturns
  \/ Associated

ConnectionSpec == ConnectionInit /\ [][ConnectionNext]_connectionVars

\* The task is polled, time passes and timers fire; nothing is assumed of the client, the
\* resolver or the hosts.
FairConnectionSpec ==
  /\ ConnectionSpec
  /\ WF_connectionVars(Dialing(Top)) /\ WF_connectionVars(Dialing(Tick))
  /\ WF_connectionVars(Dialing(AttemptTimesOut)) /\ WF_connectionVars(Dialing(DeadlineReached))
  /\ WF_connectionVars(Dialled)
  /\ WF_connectionVars(Relaying(RelayTick)) /\ WF_connectionVars(RelayReturns)
  /\ \A d \in Dirs : WF_connectionVars(Relaying(Timeout(d)))

-----------------------------------------------------------------------------
(* Properties.                                                             *)

\* establish returns, whatever the resolver and the hosts do.
Returns == place = "dialing" ~> place # "dialing"

\* Once the peers fall silent for good a relay ends.
SilentRelayEnds ==
  <>[][~ \E d \in Dirs : Peer(d)]_relayVars => (place = "relaying" ~> place = "over")
=============================================================================
