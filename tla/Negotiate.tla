----------------------------- MODULE Negotiate -----------------------------
(***************************************************************************)
(* The SOCKS5 negotiation of one connection: negotiate of                  *)
(* src/src/server/connection.rs and the parsers it drives                  *)
(* (src/src/protocol/handshake.rs, request.rs), which are those of Wire.   *)
(*                                                                         *)
(* The client's bytes arrive in chunks of any size.  Every message is      *)
(* parsed from the front of one buffer, which may already hold bytes of    *)
(* the messages after it; what is left after the request is the relay's    *)
(* initial payload.                                                        *)
(***************************************************************************)
EXTENDS Wire

CONSTANTS
  Streams,   \* the byte sequences a client may send, for either method
  Users,     \* the configured <<username, password>> pairs
  ReadBuf    \* READ_BUF

\* READ_BUF is 512 for bytes up to 255: two strings of the maximal length and two of
\* the three bytes around them; and a request with the longest literal address fits.
\* Users are Strings, and so valid UTF-8.
ASSUME NegotiateAssumption ==
  /\ ReadBuf \in Nat /\ ReadBuf >= 2 * MaxByte + 2
  /\ ReadBuf >= 5 + V4Len /\ ReadBuf >= 5 + V6Len
  /\ DOMAIN Streams = {"none", "password"}
  /\ \A m \in DOMAIN Streams : \A s \in Streams[m] : s \in Bytes
  /\ \A u \in Users : u \in Bytes \X Bytes /\ Valid(u[1]) /\ Valid(u[2])

VARIABLES
  step,      \* greeting, auth, request, accepted, closed, aborted
  wire,      \* bytes the client has not got into the buffer yet
  buf,
  replies,   \* what the client was sent
  request,   \* the request negotiate returns, once accepted
  method,    \* auth.method of the configuration: none, password
  stream     \* history: everything the client sends

clientInput == <<method, stream>>
negotiateVars == <<step, wire, buf, replies, request, clientInput>>

NoRequest == [command |-> "none"]

NegotiateInit ==
  /\ method \in {"none", "password"}
  /\ stream \in Streams[method]
  /\ wire = stream
  /\ step = "greeting"
  /\ buf = <<>>
  /\ replies = <<>>
  /\ request = NoRequest

-----------------------------------------------------------------------------
(* negotiate.                                                              *)

Drain(n) == buf' = SubSeq(buf, n + 1, Len(buf))
Say(reply) == replies' = Append(replies, reply)
Goto(place) == step' = place

\* What the current step makes of the buffer.
Parsed ==
  CASE step = "greeting" -> ParseGreeting(buf)
    [] step = "auth"     -> ParseUserpass(buf)
    [] step = "request"  -> ParseRequest(buf)
    [] OTHER             -> Malformed("over")

\* read_more appends what has arrived, at most READ_BUF bytes.
ReadMore ==
  /\ Parsed.kind = "truncated"
  /\ Len(buf) <= ReadBuf
  /\ \E n \in 1 .. ReadBuf :
       /\ n <= Len(wire)
       /\ buf' = buf \o SubSeq(wire, 1, n)
       /\ wire' = SubSeq(wire, n + 1, Len(wire))
  /\ UNCHANGED <<step, replies, request, clientInput>>

\* The buffer is too long for an unfinished message, or the client is done.
GiveUp ==
  /\ Parsed.kind = "truncated"
  /\ Len(buf) > ReadBuf \/ wire = <<>>
  /\ Goto("closed")
  /\ UNCHANGED <<wire, buf, replies, request, clientInput>>

\* The handshake deadline, a reset, or a reply that cannot be written.
Abandon ==
  /\ step \in {"greeting", "auth", "request"}
  /\ Goto("aborted")
  /\ UNCHANGED <<wire, buf, replies, request, clientInput>>

\* select_method: the one acceptable method, if it was offered.
Password == method = "password"
Wanted == IF Password THEN 2 ELSE 0

\* Variant: what was pipelined behind the greeting is thrown away.
SelectMethodFlushes ==
  /\ step = "greeting"
  /\ Parsed.kind = "ok"
  /\ buf' = <<>>
  /\ IF \E i \in DOMAIN Parsed.methods : Parsed.methods[i] = Wanted
       THEN Say(MethodReply(Wanted)) /\ Goto(IF Password THEN "auth" ELSE "request")
       ELSE Say(MethodReply(255)) /\ Goto("closed")
  /\ UNCHANGED <<wire, request, clientInput>>

SelectMethod ==
  /\ step = "greeting"
  /\ Parsed.kind = "ok"
  /\ Drain(2 + Len(Parsed.methods))
  /\ IF \E i \in DOMAIN Parsed.methods : Parsed.methods[i] = Wanted
       THEN Say(MethodReply(Wanted)) /\ Goto(IF Password THEN "auth" ELSE "request")
       ELSE Say(MethodReply(255)) /\ Goto("closed")
  /\ UNCHANGED <<wire, request, clientInput>>

\* Variant: only the username is compared.
AuthenticateByName ==
  /\ step = "auth"
  /\ Parsed.kind = "ok"
  /\ Drain(2 + Len(Parsed.user) + 1 + Len(Parsed.pass))
  /\ IF \E u \in Users : u[1] = SubSeq(Parsed.user, 1, Len(u[1]))
       THEN Say(UserpassReply(TRUE)) /\ Goto("request")
       ELSE Say(UserpassReply(FALSE)) /\ Goto("closed")
  /\ UNCHANGED <<wire, request, clientInput>>

\* ct_eq: the lengths, then every byte.
CtEq(a, b) == Len(a) = Len(b) /\ \A i \in DOMAIN a : a[i] = b[i]

VerifyCredentials(user, pass) == \E u \in Users : CtEq(u[1], user) /\ CtEq(u[2], pass)

Authenticate ==
  /\ step = "auth"
  /\ Parsed.kind = "ok"
  /\ Drain(2 + Len(Parsed.user) + 1 + Len(Parsed.pass))
  /\ IF VerifyCredentials(Parsed.user, Parsed.pass)
       THEN Say(UserpassReply(TRUE)) /\ Goto("request")
       ELSE Say(UserpassReply(FALSE)) /\ Goto("closed")
  /\ UNCHANGED <<wire, request, clientInput>>

AcceptRequest ==
  /\ step = "request"
  /\ Parsed.kind = "ok"
  /\ Drain(3 + Len(Encode(Parsed.address)))
  /\ request' = [command |-> Parsed.command, address |-> Parsed.address]
  /\ Goto("accepted")
  /\ UNCHANGED <<wire, replies, clientInput>>

\* A complete but malformed message: the reply depends on the step and the error;
\* a bad version outside of auth is closed without one.
ErrorReply ==
  [bad_command |-> 7, bad_atyp |-> 8, bad_domain |-> 1]

RejectMalformed ==
  /\ step \in {"greeting", "auth", "request"}
  /\ Parsed.kind \notin {"ok", "truncated"}
  /\ CASE step = "auth"                       -> Say(UserpassReply(FALSE))
       [] Parsed.kind \in DOMAIN ErrorReply   -> Say(EncodeReply(ErrorReply[Parsed.kind], ZeroBind))
       [] OTHER                               -> UNCHANGED replies
  /\ Goto("closed")
  /\ UNCHANGED <<wire, buf, request, clientInput>>

NegotiateNext ==
  \/ ReadMore \/ GiveUp \/ Abandon
  \/ SelectMethod \/ Authenticate \/ AcceptRequest \/ RejectMalformed

NegotiateSpec == NegotiateInit /\ [][NegotiateNext]_negotiateVars

-----------------------------------------------------------------------------
(* What the wire formats of RFC 1928 and RFC 1929 are, stated on whole     *)
(* messages and independently of the parsers.                              *)

IsGreeting(m) ==
  /\ Len(m) >= 2
  /\ m[1] = 5
  /\ Len(m) = 2 + m[2]
  /\ \E i \in 3 .. Len(m) : m[i] = Wanted

IsLogin(m) ==
  \E u \in Users : m = <<1, Len(u[1])>> \o u[1] \o <<Len(u[2])>> \o u[2]

IsRequest(m) ==
  /\ Len(m) >= 4
  /\ m[1] = 5
  /\ m[2] \in 1 .. 3
  /\ AddressFits(SubSeq(m, 4, Len(m)))

Cut(from, to) == SubSeq(stream, from + 1, to)

\* The stream is a greeting, the login if one is required, a request that spans
\* the bytes j + 1 .. k and satisfies P, and a tail.
Splits(P(_, _)) ==
  \E i \in 0 .. Len(stream) :
    /\ IsGreeting(Cut(0, i))
    /\ \E j \in i .. IF Password THEN Len(stream) ELSE i :
         /\ Password => IsLogin(Cut(i, j))
         /\ \E k \in j .. Len(stream) : IsRequest(Cut(j, k)) /\ P(j, k)

-----------------------------------------------------------------------------
(* Properties.                                                             *)

\* Every variable stays in its domain.
NegotiateTypeOK ==
  /\ step \in {"greeting", "auth", "request", "accepted", "closed", "aborted"}
  /\ method \in {"none", "password"}
  /\ stream \in Streams[method]
  /\ wire \in Bytes
  /\ buf \in Bytes
  /\ Len(replies) <= 3
  /\ (request = NoRequest) = (step # "accepted")

\* However the bytes were cut into chunks, negotiate accepts only a stream that
\* begins with the right messages, login included, and tells the client so; it
\* returns the request that is really in it, and hands the relay exactly the bytes
\* after it: none lost, none of the protocol's own leaked into the payload.
AcceptedIsExact ==
  step = "accepted" =>
    /\ replies = IF Password THEN <<<<5, 2>>, <<1, 0>>>> ELSE <<<<5, 0>>>>
    /\ Splits(LAMBDA j, k :
                /\ buf \o wire = Cut(k, Len(stream))
                /\ Commands[stream[j + 2]] = request.command
                /\ Cut(j + 3, k) = Encode(request.address))

\* The parser's state is well-formed, and AcceptedIsExact: what negotiate returns is
\* what the client's bytes say, however they were cut.
NegotiateInv == NegotiateTypeOK /\ AcceptedIsExact

\* A stream that does begin with the right messages is refused only by the deadline
\* or a broken connection, never because of where the chunks end, how much was
\* pipelined, or the READ_BUF guard: the longest message, a login with both strings
\* at their maximum, is one byte longer than what an unfinished buffer may hold.
ClosedIsJustified == step = "closed" => ~ Splits(LAMBDA j, k : TRUE)

=============================================================================
