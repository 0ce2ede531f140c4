-------------------------------- MODULE Wire --------------------------------
(***************************************************************************)
(* The codecs of src/src/protocol: greeting, login, request, address,      *)
(* reply and datagram header.  Bytes are numbers.  Each parser looks at    *)
(* the front of b and ignores what follows.                                *)
(***************************************************************************)
EXTENDS Integers, Sequences

CONSTANTS
  NotUtf8,   \* the bytes that make a string invalid UTF-8
  V4Len,     \* octets of an IPv4 address
  V6Len,     \* octets of an IPv6 address
  MaxByte    \* the largest value of a byte

\* The protocol's own numbers are bytes.
ASSUME WireAssumption ==
  /\ {V4Len, V6Len} \subseteq Nat \ {0}
  /\ MaxByte \in Nat /\ MaxByte >= 5

Byte == 0 .. MaxByte
Bytes == Seq(Byte)

Truncated == [kind |-> "truncated"]
Malformed(why) == [kind |-> why]

Valid(text) == \A i \in DOMAIN text : text[i] \notin NotUtf8

ParseGreeting(b) ==
  CASE Len(b) < 1 -> Truncated
    [] Len(b) >= 1 /\ b[1] # 5 -> Malformed("bad_version")
    [] OTHER -> IF Len(b) < 2 THEN Truncated
                ELSE IF Len(b) < 2 + b[2] THEN Truncated
                ELSE [kind |-> "ok", methods |-> SubSeq(b, 3, 2 + b[2])]

ParseUserpass(b) ==
  CASE Len(b) < 1 -> Truncated
    [] Len(b) >= 1 /\ b[1] # 1 -> Malformed("bad_version")
    [] OTHER ->
         IF Len(b) < 2 THEN Truncated
         ELSE IF Len(b) < 3 + b[2] THEN Truncated
         ELSE LET ulen == b[2]
                  plen == b[3 + ulen]
                  uname == SubSeq(b, 3, 2 + ulen)
                  passwd == SubSeq(b, 4 + ulen, 3 + ulen + plen)
              IN  IF Len(b) < 3 + ulen + plen THEN Truncated
                  ELSE IF Valid(uname) /\ Valid(passwd)
                         THEN [kind |-> "ok", user |-> uname, pass |-> passwd]
                         ELSE Malformed("bad_string")

\* Address::decode.
Fixed(b, atyp, octets) ==
  IF Len(b) < 3 + octets
    THEN Truncated
    ELSE [kind |-> "ok", atyp |-> atyp, host |-> SubSeq(b, 2, 1 + octets),
          port |-> SubSeq(b, 2 + octets, 3 + octets)]

DecodeDomain(b) ==
  IF Len(b) < 2 THEN Truncated
  ELSE IF Len(b) < 4 + b[2] THEN Truncated
  ELSE LET name == SubSeq(b, 3, 2 + b[2])
       IN  IF Valid(name)
             THEN [kind |-> "ok", atyp |-> "domain", host |-> name,
                   port |-> SubSeq(b, 3 + b[2], 4 + b[2])]
             ELSE Malformed("bad_domain")

Decode(b) ==
  CASE b[1] = 1 -> Fixed(b, "v4", V4Len)
    [] b[1] = 4 -> Fixed(b, "v6", V6Len)
    [] b[1] = 3 -> DecodeDomain(b)
    [] OTHER    -> Malformed("bad_atyp")

\* Address::encode, which negotiate uses to learn how long the request was.
Encode(a) ==
  CASE a.atyp = "v4"     -> <<1>> \o a.host \o a.port
    [] a.atyp = "v6"     -> <<4>> \o a.host \o a.port
    [] a.atyp = "domain" -> <<3, Len(a.host)>> \o a.host \o a.port

Commands == [c \in 1 .. 3 |-> <<"connect", "bind", "udp_associate">>[c]]

ParseRequest(b) ==
  CASE Len(b) < 4 -> Truncated
    [] Len(b) >= 4 /\ b[1] # 5 -> Malformed("bad_version")
    [] Len(b) >= 4 /\ b[1] = 5 /\ b[2] \notin DOMAIN Commands -> Malformed("bad_command")
    [] OTHER -> LET address == Decode(SubSeq(b, 4, Len(b)))
                IN  IF address.kind # "ok"
                      THEN address
                      ELSE [kind |-> "ok", command |-> Commands[b[2]], address |-> address]

-----------------------------------------------------------------------------
(* Replies and datagrams.                                                  *)

MethodReply(method) == <<5, method>>
UserpassReply(ok) == <<1, IF ok THEN 0 ELSE 1>>
EncodeReply(code, bind) == <<5, code, 0>> \o Encode(bind)

\* Address::V4(Ipv4Addr::UNSPECIFIED, 0), the BND of every failure reply.
ZeroBind == [atyp |-> "v4", host |-> [k \in 1 .. V4Len |-> 0], port |-> <<0, 0>>]

\* decap_ref: two reserved bytes are ignored, the fragment number is handed on.
DecapRef(b) ==
  IF Len(b) < 4
    THEN Truncated
    ELSE LET address == Decode(SubSeq(b, 4, Len(b)))
         IN  IF address.kind # "ok"
               THEN address
               ELSE [kind |-> "ok", frag |-> b[3], address |-> address,
                     data |-> SubSeq(b, 4 + Len(Encode(address)), Len(b))]

\* Variant: the port is left out of the header.
EncapShort(address, data) == <<0, 0, 0>> \o Encode([address EXCEPT !.port = <<>>]) \o data

Encap(address, data) == <<0, 0, 0>> \o Encode(address) \o data

-----------------------------------------------------------------------------
(* What an address field is, as RFC 1928 lays it out and independently of  *)
(* the parser.                                                             *)

AddressFits(a) ==
  \/ a[1] = 1 /\ Len(a) = 1 + V4Len + 2
  \/ a[1] = 4 /\ Len(a) = 1 + V6Len + 2
  \/ a[1] = 3 /\ Len(a) >= 2 /\ Len(a) = 2 + a[2] + 2 /\ Valid(SubSeq(a, 3, 2 + a[2]))
=============================================================================
