---------------------------- MODULE MCConnection ----------------------------
(***************************************************************************)
(* Values for the run of Connection.                                       *)
(*                                                                         *)
(* What clients send while they negotiate: right and wrong messages of     *)
(* each kind in every combination, with and without bytes behind them, cut *)
(* off at every byte, and one client with the longest login there is.      *)
(*                                                                         *)
(* What an association receives: the addresses on either side of every     *)
(* border of the policy, in each notation, and datagrams cut off at every  *)
(* byte.                                                                   *)
(***************************************************************************)
EXTENDS Connection

Text(n, c) == [k \in 1 .. n |-> c]

Greetings == {<<5, 1, 0>>, <<5, 2, 0, 2>>, <<5, 5, 1, 1, 1, 1, 2>>, <<5, 0>>, <<4, 1, 0>>}

Login(user, pass) == <<1, Len(user)>> \o user \o <<Len(pass)>> \o pass

\* A user, another, one nobody knows, no text, no login.
Logins == {Login(<<7, 8>>, <<>>), Login(<<7>>, <<9>>), Login(<<7, 8>>, <<8>>),
           Login(<<255>>, <<9>>), <<5, 1, 7, 1, 9>>}

LongestUser == <<Text(255, 7), Text(255, 8)>>
LongestLogin == Login(LongestUser[1], LongestUser[2])

MCUsers == {<<<<7, 8>>, <<>>>>, <<<<7>>, <<9>>>>, LongestUser}

Port == <<1, 187>>
Request(command, address) == <<5, command, 0>> \o address \o Port

Requests == {Request(1, <<1, 8, 8, 4, 4>>), Request(3, <<4>> \o Zeros(16)),
             Request(2, <<3, 5, 2, 3, 2, 3, 2>>), Request(1, <<3, 2, 97, 98>>),
             Request(1, <<3, 0>>), Request(1, <<3, 1, 255>>),
             Request(5, <<1, 8, 8, 4, 4>>), Request(1, <<2, 8, 8, 4, 4>>),
             <<4, 1, 0, 1, 8, 8, 4, 4, 1, 187>>}

Tails == {<<>>, <<5, 1, 0, 1>>}

OpenStreams ==
  {g \o r \o t : g \in Greetings, r \in Requests, t \in Tails}
    \union Prefixes(<<5, 1, 0>> \o Request(2, <<3, 5, 2, 3, 2, 3, 2>>))

LoginStreams ==
  {g \o u \o r \o t : g \in {<<5, 2, 0, 2>>, <<5, 1, 0>>}, u \in Logins,
                      r \in Requests, t \in Tails}
    \union Prefixes(<<5, 1, 2>> \o Login(<<7, 8>>, <<>>) \o Request(1, <<1, 8, 8, 4, 4>>))
    \union {<<5, 1, 2>> \o LongestLogin \o Request(1, <<3, 2, 97, 98>>) \o <<5>>}

MCStreams == [none |-> OpenStreams, password |-> LoginStreams]

-----------------------------------------------------------------------------

MCPolicies == Policy

Borders1 == {0, 1, 10, 11, 100, 127, 128, 169, 172, 192}
Borders2 == {0, 15, 16, 31, 32, 63, 64, 127, 128, 168, 254}
V4Hosts == {<<a, b>> \o tail : a \in Borders1, b \in Borders2, tail \in {<<0, 0>>, <<0, 1>>}}
Forms == {Mapped, Compatible, Zeros(10) \o <<255, 254>>, Zeros(9) \o <<1, 0, 0>>}
V6Hosts == {form \o host : form \in Forms, host \in V4Hosts}
           \union {<<a, b>> \o Zeros(13) \o <<z>> :
                     a \in {251, 252, 253, 254}, b \in {0, 127, 128, 191, 192}, z \in {0, 1}}

Header(frag, atyp, host) == <<0, 0, frag, atyp>> \o host

Whole == {Header(0, 1, <<8, 8, 4, 4>>) \o Port \o <<7>>,
          Header(0, 4, <<32, 1>> \o Zeros(13) \o <<9>>) \o Port \o <<7, 7>>,
          Header(0, 3, <<2, 97, 98>>) \o Port \o <<7>>}

MCInputs ==
  {Header(0, 1, host) \o Port \o <<7>> : host \in V4Hosts}
  \union {Header(0, 4, host) \o Port \o <<7>> : host \in V6Hosts}
  \union UNION {Prefixes(b) : b \in Whole}
  \union {Header(1, 1, <<8, 8, 4, 4>>) \o Port,         \* a fragment
          <<9, 9, 0, 1, 8, 8, 4, 4>> \o Port,           \* reserved bytes in use
          Header(0, 2, <<8, 8, 4, 4>>) \o Port,         \* no such address type
          Header(0, 3, <<0>>) \o Port,                  \* an empty name
          Header(0, 3, <<1, 255>>) \o Port}             \* a name that is not text

At(atyp, host) == [atyp |-> atyp, host |-> host, port |-> <<0, 0>>]

Found == {At("v4", <<8, 8, 4, 4>>), At("v4", <<10, 0, 0, 1>>), At("v4", <<0, 0, 0, 0>>),
          At("v6", Mapped \o <<127, 0, 0, 1>>), At("v6", <<32, 1>> \o Zeros(13) \o <<9>>)}

MCLookups == UNION {[1 .. n -> Found] : n \in 0 .. 2}

MCPayloads == {<<>>, <<7>>, <<0, 0, 0, 1>>}
=============================================================================
