----------------------------- MODULE WireProofs -----------------------------
(***************************************************************************)
(* Proofs about what is on the wire: Negotiate, Egress and Datagram.       *)
(*                                                                         *)
(* Negotiate is for every set of streams over every size of a byte, every  *)
(* user list and every READ_BUF that holds a login.  Each parser is        *)
(* compared with the layout of its message once, on what the client has    *)
(* still to be told about: r is the rest of the stream, the parser sees    *)
(* its first q bytes, and a message is its first k.                        *)
(*                                                                         *)
(* Egress and Datagram are for every datagram, every answer of the         *)
(* resolver and every policy: the policy decides by the documented address *)
(* blocks, in whatever notation an address comes, and a datagram is taken  *)
(* apart and put together by the layout of its header.                     *)
(***************************************************************************)
EXTENDS Negotiate, Datagram, SequenceTheorems, TLAPS


-----------------------------------------------------------------------------
(* Pieces of sequences.                                                    *)

\* The bytes from + 1 .. to of a sequence, one by one.
LEMMA Piece ==
  ASSUME NEW S, NEW s \in Seq(S), NEW from \in Nat, NEW to \in from .. Len(s)
  PROVE  /\ SubSeq(s, from + 1, to) \in Seq(S)
         /\ Len(SubSeq(s, from + 1, to)) = to - from
         /\ \A i \in 1 .. to - from : SubSeq(s, from + 1, to)[i] = s[from + i]
<1>1. \A i \in from + 1 .. to : s[i] \in S
  BY ElementOfSeq
<1>2. from + 1 \in Int /\ to \in Int /\ Len(s) \in Nat
  BY LenProperties
<1>3. /\ SubSeq(s, from + 1, to) \in Seq(S)
      /\ Len(SubSeq(s, from + 1, to)) = IF from + 1 <= to THEN to - (from + 1) + 1 ELSE 0
      /\ \A i \in 1 .. to - (from + 1) + 1 : SubSeq(s, from + 1, to)[i] = s[(from + 1) + i - 1]
  BY <1>1, <1>2, SubSeqProperties
<1>4. to - (from + 1) + 1 = to - from
  BY <1>2
<1>5. \A i \in 1 .. to - from : (from + 1) + i - 1 = from + i
  BY <1>2
<1>6. Len(SubSeq(s, from + 1, to)) = to - from
  BY <1>2, <1>3
<1> QED
  BY <1>3, <1>4, <1>5, <1>6

\* The same, named by the first byte.
LEMMA Slice ==
  ASSUME NEW S, NEW s \in Seq(S), NEW first \in Nat \ {0}, NEW last \in first - 1 .. Len(s)
  PROVE  /\ SubSeq(s, first, last) \in Seq(S)
         /\ Len(SubSeq(s, first, last)) = last - first + 1
         /\ DOMAIN SubSeq(s, first, last) = 1 .. last - first + 1
         /\ \A i \in 1 .. last - first + 1 : SubSeq(s, first, last)[i] = s[first - 1 + i]
<1>1. /\ first - 1 \in Nat /\ (first - 1) + 1 = first /\ last - (first - 1) = last - first + 1
      /\ Len(s) \in Nat
  BY LenProperties
<1>2. /\ SubSeq(s, first, last) \in Seq(S)
      /\ Len(SubSeq(s, first, last)) = last - first + 1
      /\ \A i \in 1 .. last - first + 1 : SubSeq(s, first, last)[i] = s[first - 1 + i]
  BY <1>1, Piece
<1> QED
  BY <1>2, LenProperties

\* A piece of a piece.
LEMMA PieceOfPiece ==
  ASSUME NEW S, NEW s \in Seq(S), NEW from \in Nat, NEW to \in from .. Len(s),
         NEW a \in Nat, NEW b \in a .. to - from
  PROVE  SubSeq(SubSeq(s, from + 1, to), a + 1, b) = SubSeq(s, (from + a) + 1, from + b)
<1> DEFINE t == SubSeq(s, from + 1, to)
           u == SubSeq(t, a + 1, b)
           v == SubSeq(s, (from + a) + 1, from + b)
<1>1. t \in Seq(S) /\ Len(t) = to - from /\ \A i \in 1 .. to - from : t[i] = s[from + i]
  BY Piece
<1>2. Len(s) \in Nat /\ b \in a .. Len(t) /\ from + a \in Nat /\ from + b \in (from + a) .. Len(s)
  BY <1>1, LenProperties
<1> HIDE DEF t
<1>3. u \in Seq(S) /\ Len(u) = b - a /\ \A i \in 1 .. b - a : u[i] = t[a + i]
  BY <1>1, <1>2, Piece
<1>4. /\ v \in Seq(S) /\ Len(v) = (from + b) - (from + a)
      /\ \A i \in 1 .. (from + b) - (from + a) : v[i] = s[(from + a) + i]
  BY <1>2, Piece
<1> HIDE DEF u, v
<1>5. Len(u) = Len(v)
  BY <1>2, <1>3, <1>4, SMTT(20)
<1>6. ASSUME NEW i \in 1 .. Len(u) PROVE u[i] = v[i]
  <2>1. i \in 1 .. b - a /\ a + i \in 1 .. to - from /\ i \in 1 .. (from + b) - (from + a)
    BY <1>2, <1>3
  <2>2. from + (a + i) = (from + a) + i
    BY <2>1
  <2> QED
    BY <1>1, <1>3, <1>4, <2>1, <2>2
<1>7. u = v
  BY <1>3, <1>4, <1>5, <1>6, SeqEqual
<1> QED
  BY <1>7 DEF u, v, t

\* The front of a sequence.
LEMMA Front ==
  ASSUME NEW S, NEW s \in Seq(S), NEW n \in 0 .. Len(s)
  PROVE  /\ SubSeq(s, 1, n) \in Seq(S)
         /\ Len(SubSeq(s, 1, n)) = n
         /\ \A i \in 1 .. n : SubSeq(s, 1, n)[i] = s[i]
<1>1. 0 \in Nat /\ n - 0 = n /\ 0 + 1 = 1 /\ \A i \in 1 .. n : 0 + i = i
  OBVIOUS
<1> QED
  BY <1>1, Piece

\* Two sequences joined, byte by byte.
LEMMA Join ==
  ASSUME NEW S, NEW s \in Seq(S), NEW t \in Seq(S)
  PROVE  /\ s \o t \in Seq(S)
         /\ Len(s \o t) = Len(s) + Len(t)
         /\ \A i \in 1 .. Len(s) : (s \o t)[i] = s[i]
         /\ \A i \in 1 .. Len(t) : (s \o t)[Len(s) + i] = t[i]
<1>1. Len(s) \in Nat /\ Len(t) \in Nat
  BY LenProperties
<1>2. /\ s \o t \in Seq(S) /\ Len(s \o t) = Len(s) + Len(t)
      /\ \A i \in 1 .. Len(s) + Len(t) : (s \o t)[i] =
                     IF i <= Len(s) THEN s[i] ELSE t[i - Len(s)]
  BY ConcatProperties
<1>3. ASSUME NEW i \in 1 .. Len(s) PROVE (s \o t)[i] = s[i]
  BY <1>1, <1>2
<1>4. ASSUME NEW i \in 1 .. Len(t) PROVE (s \o t)[Len(s) + i] = t[i]
  <2>1. /\ Len(s) + i \in 1 .. Len(s) + Len(t) /\ ~ Len(s) + i <= Len(s)
        /\ (Len(s) + i) - Len(s) = i
    BY <1>1
  <2> QED
    BY <1>2, <2>1
<1> QED
  BY <1>2, <1>3, <1>4

\* A byte is a number, and so is a length.
LEMMA ByteSeq ==
  ASSUME NEW b \in Bytes
  PROVE  /\ b \in Seq(Byte)
         /\ Len(b) \in Nat
         /\ DOMAIN b = 1 .. Len(b)
         /\ \A i \in 1 .. Len(b) : b[i] \in Nat /\ b[i] <= MaxByte
<1>1. b \in Seq(Byte)
  BY DEF Bytes
<1>2. \A i \in 1 .. Len(b) : b[i] \in Byte
  BY <1>1, ElementOfSeq
<1>3. \A i \in 1 .. Len(b) : b[i] \in Nat /\ b[i] <= MaxByte
  BY <1>2, WireAssumption DEF Byte
<1> QED
  BY <1>1, <1>3, LenProperties

\* The numbers of the assumptions, without the rest of them.
LEMMA Sizes ==
  /\ ReadBuf \in Nat /\ MaxByte \in Nat /\ V4Len \in Nat \ {0} /\ V6Len \in Nat \ {0}
  /\ ReadBuf >= 2 * MaxByte + 2 /\ MaxByte >= 5
  /\ ReadBuf >= 5 + V4Len /\ ReadBuf >= 5 + V6Len
<1>1. V4Len \in Nat \ {0} /\ V6Len \in Nat \ {0} /\ MaxByte \in Nat /\ MaxByte >= 5
  BY WireAssumption
<1>2. /\ ReadBuf \in Nat /\ ReadBuf >= 2 * MaxByte + 2
      /\ ReadBuf >= 5 + V4Len /\ ReadBuf >= 5 + V6Len
  BY NegotiateAssumption
<1> QED
  BY <1>1, <1>2

-----------------------------------------------------------------------------
(* The greeting.                                                           *)

\* What each result of the parser says about the bytes.
LEMMA GreetingResults ==
  ASSUME NEW b \in Bytes
  PROVE  LET result == ParseGreeting(b) IN
         \/ /\ result = Truncated /\ result.kind = "truncated"
            /\ Len(b) < 1 \/ (b[1] = 5 /\ (Len(b) < 2 \/ Len(b) < 2 + b[2]))
         \/ result.kind = "bad_version" /\ Len(b) >= 1 /\ b[1] # 5
         \/ /\ result.kind = "ok" /\ Len(b) >= 2 /\ b[1] = 5 /\ Len(b) >= 2 + b[2]
            /\ result.methods = SubSeq(b, 3, 2 + b[2])
<1>1. Len(b) \in Nat
  BY ByteSeq
<1>2. CASE Len(b) < 1
  BY <1>2 DEF ParseGreeting, Truncated, Malformed
<1>3. CASE Len(b) >= 1 /\ b[1] # 5
  <2>1. ParseGreeting(b) = Malformed("bad_version")
    BY <1>1, <1>3 DEF ParseGreeting
  <2> QED
    BY <1>3, <2>1 DEF Malformed
<1>4. CASE Len(b) >= 1 /\ b[1] = 5
  <2>1. ParseGreeting(b) = IF Len(b) < 2 THEN Truncated
                           ELSE IF Len(b) < 2 + b[2] THEN Truncated
                           ELSE [kind |-> "ok", methods |-> SubSeq(b, 3, 2 + b[2])]
    BY <1>1, <1>4 DEF ParseGreeting
  <2>2. b[2] \in Nat \/ Len(b) < 2
    BY <1>1, ByteSeq
  <2> QED
    BY <1>1, <1>4, <2>1, <2>2 DEF Truncated
<1> QED
  BY <1>1, <1>2, <1>3, <1>4

\* The methods that were parsed, one by one.
LEMMA GreetingMethods ==
  ASSUME NEW b \in Bytes, Len(b) >= 2, Len(b) >= 2 + b[2]
  PROVE  LET methods == SubSeq(b, 3, 2 + b[2]) IN
         /\ Len(methods) = b[2] /\ DOMAIN methods = 1 .. b[2]
         /\ \A i \in 1 .. b[2] : methods[i] = b[2 + i]
<1>1. /\ b \in Seq(Byte) /\ b[2] \in Nat /\ 2 + b[2] \in 3 - 1 .. Len(b)
      /\ (2 + b[2]) - 3 + 1 = b[2] /\ 3 - 1 = 2
  BY ByteSeq
<1> QED
  BY <1>1, Slice

\* A greeting that is parsed and offers the method is one.
LEMMA GreetingIsSound ==
  ASSUME NEW b \in Bytes, ParseGreeting(b).kind = "ok"
  PROVE  LET methods == ParseGreeting(b).methods
             n == 2 + Len(methods)
         IN  /\ n \in 0 .. Len(b)
             /\ (\E i \in DOMAIN methods : methods[i] = Wanted) => IsGreeting(SubSeq(b, 1, n))
<1> DEFINE methods == ParseGreeting(b).methods
           n == 2 + Len(methods)
           m == SubSeq(b, 1, n)
<1>1. /\ Len(b) \in Nat /\ Len(b) >= 2 /\ b[1] = 5 /\ Len(b) >= 2 + b[2] /\ b[2] \in Nat
      /\ methods = SubSeq(b, 3, 2 + b[2])
  BY GreetingResults, ByteSeq
<1>2. /\ Len(methods) = b[2] /\ DOMAIN methods = 1 .. b[2]
      /\ \A i \in 1 .. b[2] : methods[i] = b[2 + i]
  BY <1>1, GreetingMethods
<1> HIDE DEF methods
<1>3. n \in 0 .. Len(b) /\ n = 2 + b[2]
  BY <1>1, <1>2
<1>4. Len(m) = n /\ \A i \in 1 .. n : m[i] = b[i]
  BY <1>3, Front, ByteSeq
<1> HIDE DEF m, n
<1>5. ASSUME NEW i \in DOMAIN methods, methods[i] = Wanted PROVE IsGreeting(m)
  <2>1. n \in Nat /\ 1 \in 1 .. n /\ 2 \in 1 .. n /\ 2 + i \in 1 .. n /\ 2 + i \in 3 .. n
    <3>1. i \in 1 .. b[2]
      BY <1>2
    <3>2. b[2] \in Nat /\ n = 2 + b[2]
      BY <1>1, <1>3
    <3> QED
      BY <3>1, <3>2
  <2>2. m[1] = 5 /\ m[2] = b[2] /\ m[2 + i] = Wanted
    BY <1>1, <1>2, <1>4, <1>5, <2>1
  <2>3. Len(m) = 2 + m[2] /\ Len(m) >= 2 /\ 2 + i \in 3 .. Len(m)
    BY <1>1, <1>3, <1>4, <2>1, <2>2
  <2> QED
    BY <2>2, <2>3 DEF IsGreeting
<1> QED
  BY <1>3, <1>5 DEF methods, m, n

\* A greeting is parsed as soon as all of it is there, and until then it is unfinished.
LEMMA GreetingIsComplete ==
  ASSUME NEW r \in Bytes, NEW q \in 0 .. Len(r), NEW k \in 0 .. Len(r),
         IsGreeting(SubSeq(r, 1, k))
  PROVE  LET result == ParseGreeting(SubSeq(r, 1, q))
         IN  IF k <= q THEN /\ result.kind = "ok"
                            /\ 2 + Len(result.methods) = k
                            /\ \E i \in DOMAIN result.methods : result.methods[i] = Wanted
             ELSE result.kind = "truncated" /\ k <= ReadBuf + 1
<1> DEFINE b == SubSeq(r, 1, q)
           m == SubSeq(r, 1, k)
           result == ParseGreeting(b)
<1>1. Len(m) = k /\ \A i \in 1 .. k : m[i] = r[i]
  BY Front, ByteSeq
<1>2. b \in Bytes /\ Len(b) = q /\ \A i \in 1 .. q : b[i] = r[i]
  BY Front, ByteSeq DEF Bytes
<1>3. Len(m) >= 2 /\ m[1] = 5 /\ Len(m) = 2 + m[2] /\ \E i \in 3 .. Len(m) : m[i] = Wanted
  BY DEF IsGreeting
<1> HIDE DEF b, m
<1>4. k >= 2 /\ r[1] = 5 /\ k = 2 + r[2] /\ \E i \in 3 .. k : r[i] = Wanted
  BY <1>1, <1>3
<1>5. r[2] \in Nat /\ r[2] <= MaxByte /\ Len(r) \in Nat
  BY <1>4, ByteSeq
<1>6. CASE k <= q
  <2>1. /\ Len(b) \in Nat /\ Len(b) >= 2 /\ b[1] = 5 /\ b[2] = r[2] /\ Len(b) >= 2 + b[2]
        /\ b[2] \in Nat
    BY <1>2, <1>4, <1>5, <1>6
  <2>2. result.kind = "ok" /\ result.methods = SubSeq(b, 3, 2 + b[2])
    <3>1. ~ (Len(b) < 1 \/ (b[1] = 5 /\ (Len(b) < 2 \/ Len(b) < 2 + b[2])))
      BY <2>1
    <3> QED
      BY <1>2, <2>1, <3>1, GreetingResults
  <2>3. /\ Len(result.methods) = b[2] /\ DOMAIN result.methods = 1 .. b[2]
        /\ \A i \in 1 .. b[2] : result.methods[i] = b[2 + i]
    BY <1>2, <2>1, <2>2, GreetingMethods
  <2> HIDE DEF result
  <2>4. PICK i \in 3 .. k : r[i] = Wanted
    BY <1>4
  <2>5. i - 2 \in 1 .. b[2] /\ 2 + (i - 2) = i /\ b[i] = r[i]
    BY <1>2, <1>4, <1>6, <2>1
  <2>6. i - 2 \in DOMAIN result.methods /\ result.methods[i - 2] = Wanted
    BY <2>3, <2>4, <2>5
  <2>7. 2 + Len(result.methods) = k
    BY <1>4, <2>1, <2>3
  <2> QED
    BY <1>6, <2>2, <2>6, <2>7 DEF result, b
<1>7. CASE ~ k <= q
  <2>1. Len(b) < 1 \/ (b[1] = 5 /\ (Len(b) < 2 \/ (b[2] = r[2] /\ Len(b) < 2 + b[2])))
    BY <1>2, <1>4, <1>5, <1>7
  <2>2. result.kind = "truncated"
    BY <1>2, <2>1, GreetingResults, ByteSeq
  <2>3. k <= ReadBuf + 1
    BY <1>4, <1>5, Sizes
  <2> QED
    BY <1>7, <2>2, <2>3 DEF b
<1> QED
  BY <1>6, <1>7

-----------------------------------------------------------------------------
(* The login.                                                              *)

\* Where the two lengths of a login say it ends.
LoginEnd(b) == 3 + b[2] + b[3 + b[2]]

\* What each result of the parser says about the bytes.
LEMMA LoginResults ==
  ASSUME NEW b \in Bytes
  PROVE  LET result == ParseUserpass(b) IN
         \/ /\ result.kind = "truncated"
            /\ \/ Len(b) < 1
               \/ b[1] = 1 /\ (Len(b) < 2 \/ Len(b) < 3 + b[2] \/ Len(b) < LoginEnd(b))
         \/ result.kind = "bad_version" /\ Len(b) >= 1 /\ b[1] # 1
         \/ /\ result.kind \in {"ok", "bad_string"}
            /\ Len(b) >= 2 /\ b[1] = 1 /\ Len(b) >= 3 + b[2] /\ Len(b) >= LoginEnd(b)
            /\ result.kind = "ok" <=> /\ Valid(SubSeq(b, 3, 2 + b[2]))
                                      /\ Valid(SubSeq(b, 4 + b[2], LoginEnd(b)))
            /\ result.kind = "ok" => /\ result.user = SubSeq(b, 3, 2 + b[2])
                                     /\ result.pass = SubSeq(b, 4 + b[2], LoginEnd(b))
<1>1. Len(b) \in Nat /\ \A i \in 1 .. Len(b) : b[i] \in Nat
  BY ByteSeq
<1>2. CASE Len(b) < 1
  <2>1. ParseUserpass(b) = Truncated
    BY <1>2 DEF ParseUserpass
  <2> QED
    BY <1>2, <2>1 DEF Truncated
<1>3. CASE Len(b) >= 1 /\ b[1] # 1
  <2>1. ParseUserpass(b) = Malformed("bad_version")
    BY <1>1, <1>3 DEF ParseUserpass
  <2> QED
    BY <1>3, <2>1 DEF Malformed
<1>4. CASE Len(b) >= 1 /\ b[1] = 1
  <2> DEFINE user == SubSeq(b, 3, 2 + b[2])
             pass == SubSeq(b, 4 + b[2], LoginEnd(b))
  <2>1. ParseUserpass(b) =
          IF Len(b) < 2 THEN Truncated
          ELSE IF Len(b) < 3 + b[2] THEN Truncated
          ELSE IF Len(b) < LoginEnd(b) THEN Truncated
          ELSE IF Valid(user) /\ Valid(pass)
                 THEN [kind |-> "ok", user |-> user, pass |-> pass]
                 ELSE Malformed("bad_string")
    BY <1>1, <1>4 DEF ParseUserpass, LoginEnd
  <2>2. CASE Len(b) < 2 \/ Len(b) < 3 + b[2] \/ Len(b) < LoginEnd(b)
    <3>1. ParseUserpass(b) = Truncated
      BY <2>1, <2>2
    <3> QED
      BY <1>4, <2>2, <3>1 DEF Truncated
  <2>3. CASE ~ (Len(b) < 2 \/ Len(b) < 3 + b[2] \/ Len(b) < LoginEnd(b))
    <3>1. ParseUserpass(b) = IF Valid(user) /\ Valid(pass)
                               THEN [kind |-> "ok", user |-> user, pass |-> pass]
                               ELSE Malformed("bad_string")
      BY <2>1, <2>3
    <3>2. Len(b) >= 2 /\ 2 \in 1 .. Len(b)
      BY <1>1, <2>3
    <3>3. b[2] \in Nat /\ Len(b) >= 3 + b[2]
      BY <1>1, <2>3, <3>2
    <3>4. LoginEnd(b) \in Nat /\ Len(b) >= LoginEnd(b)
      <4>1. 3 + b[2] \in 1 .. Len(b)
        BY <1>1, <3>3
      <4>2. LoginEnd(b) \in Nat
        BY <1>1, <3>3, <4>1 DEF LoginEnd
      <4> QED
        BY <1>1, <2>3, <4>2
    <3> HIDE DEF user, pass
    <3>5. CASE Valid(user) /\ Valid(pass)
      <4>1. /\ ParseUserpass(b).kind = "ok" /\ ParseUserpass(b).user = user
            /\ ParseUserpass(b).pass = pass
        BY <3>1, <3>5
      <4> QED
        BY <1>4, <3>2, <3>3, <3>4, <3>5, <4>1 DEF user, pass
    <3>6. CASE ~ (Valid(user) /\ Valid(pass))
      <4>1. ParseUserpass(b).kind = "bad_string"
        BY <3>1, <3>6 DEF Malformed
      <4> QED
        BY <1>4, <3>2, <3>3, <3>4, <3>6, <4>1 DEF user, pass
    <3> QED
      BY <3>5, <3>6
  <2> QED
    BY <2>2, <2>3
<1> QED
  BY <1>1, <1>2, <1>3, <1>4

\* A login, byte by byte.
LEMMA LoginLayout ==
  ASSUME NEW user \in Seq(Nat), NEW pass \in Seq(Nat)
  PROVE  LET m == <<1, Len(user)>> \o user \o <<Len(pass)>> \o pass IN
         /\ m \in Seq(Nat) /\ Len(m) = 3 + Len(user) + Len(pass)
         /\ m[1] = 1 /\ m[2] = Len(user) /\ m[3 + Len(user)] = Len(pass)
         /\ \A i \in 1 .. Len(user) : m[2 + i] = user[i]
         /\ \A i \in 1 .. Len(pass) : m[3 + Len(user) + i] = pass[i]
<1> DEFINE head == <<1, Len(user)>>
           x == head \o user
           y == x \o <<Len(pass)>>
           m == y \o pass
<1>0. Len(user) \in Nat /\ Len(pass) \in Nat
  BY LenProperties
<1>1. /\ head \in Seq(Nat) /\ Len(head) = 2 /\ head[1] = 1 /\ head[2] = Len(user)
      /\ <<Len(pass)>> \in Seq(Nat) /\ Len(<<Len(pass)>>) = 1 /\ <<Len(pass)>>[1] = Len(pass)
  BY <1>0
<1> HIDE DEF head
<1>2. /\ x \in Seq(Nat) /\ Len(x) = 2 + Len(user)
      /\ \A i \in 1 .. 2 : x[i] = head[i]
      /\ \A i \in 1 .. Len(user) : x[2 + i] = user[i]
  <2>1. head \in Seq(Nat) /\ user \in Seq(Nat)
    BY <1>1
  <2>2. /\ x \in Seq(Nat) /\ Len(x) = Len(head) + Len(user)
        /\ \A i \in 1 .. Len(head) : x[i] = head[i]
        /\ \A i \in 1 .. Len(user) : x[Len(head) + i] = user[i]
    BY <2>1, Join
  <2> QED
    BY <1>1, <2>2
<1> HIDE DEF x
<1>3. /\ y \in Seq(Nat) /\ Len(y) = Len(x) + 1
      /\ \A i \in 1 .. Len(x) : y[i] = x[i]
      /\ \A i \in 1 .. 1 : y[Len(x) + i] = <<Len(pass)>>[i]
  BY <1>1, <1>2, Join
<1> HIDE DEF y
<1>4. /\ m \in Seq(Nat) /\ Len(m) = Len(y) + Len(pass)
      /\ \A i \in 1 .. Len(y) : m[i] = y[i]
      /\ \A i \in 1 .. Len(pass) : m[Len(y) + i] = pass[i]
  <2>1. y \in Seq(Nat) /\ pass \in Seq(Nat)
    BY <1>3
  <2> QED
    BY <2>1, Join
<1> HIDE DEF m
<1>5. Len(y) = 3 + Len(user) /\ Len(x) + 1 = 3 + Len(user) /\ \A i \in 1 .. Len(x) : i \in 1 .. Len(y)
  BY <1>0, <1>2, <1>3
<1>6. \A i \in 1 .. Len(x) : m[i] = x[i]
  BY <1>3, <1>4, <1>5
<1>7. m[1] = 1 /\ m[2] = Len(user)
  <2>1. 1 \in 1 .. Len(x) /\ 2 \in 1 .. Len(x) /\ 1 \in 1 .. 2 /\ 2 \in 1 .. 2
    BY <1>0, <1>2
  <2> QED
    BY <1>1, <1>2, <1>6, <2>1
<1>8. m[3 + Len(user)] = Len(pass)
  <2>1. 3 + Len(user) \in 1 .. Len(y) /\ 1 \in 1 .. 1
    BY <1>0, <1>5
  <2> QED
    BY <1>1, <1>3, <1>4, <1>5, <2>1
<1>9. ASSUME NEW i \in 1 .. Len(user) PROVE m[2 + i] = user[i]
  <2>1. 2 + i \in 1 .. Len(x)
    BY <1>0, <1>2
  <2> QED
    BY <1>2, <1>6, <2>1
<1>10. ASSUME NEW i \in 1 .. Len(pass) PROVE m[3 + Len(user) + i] = pass[i]
  BY <1>4, <1>5
<1>11. Len(m) = 3 + Len(user) + Len(pass)
  BY <1>0, <1>4, <1>5
<1> QED
  BY <1>4, <1>7, <1>8, <1>9, <1>10, <1>11 DEF m, y, x, head

\* Two strings of the lengths ulen and plen, each behind its length.
LEMMA Strings ==
  ASSUME NEW S, NEW b \in Seq(S), NEW ulen \in Nat, NEW plen \in Nat, 3 + ulen + plen <= Len(b)
  PROVE  LET user == SubSeq(b, 3, 2 + ulen)
             pass == SubSeq(b, 4 + ulen, 3 + ulen + plen)
         IN  /\ user \in Seq(S) /\ Len(user) = ulen /\ \A i \in 1 .. ulen : user[i] = b[2 + i]
             /\ pass \in Seq(S) /\ Len(pass) = plen /\ \A i \in 1 .. plen : pass[i] = b[3 + ulen + i]
<1>1. /\ Len(b) \in Nat /\ 2 + ulen \in 3 - 1 .. Len(b) /\ (2 + ulen) - 3 + 1 = ulen
      /\ 3 + ulen + plen \in (4 + ulen) - 1 .. Len(b) /\ 4 + ulen \in Nat \ {0}
      /\ (3 + ulen + plen) - (4 + ulen) + 1 = plen
  BY LenProperties
<1>2. /\ SubSeq(b, 3, 2 + ulen) \in Seq(S) /\ Len(SubSeq(b, 3, 2 + ulen)) = ulen
      /\ \A i \in 1 .. ulen : SubSeq(b, 3, 2 + ulen)[i] = b[2 + i]
  BY <1>1, Slice
<1>3. /\ SubSeq(b, 4 + ulen, 3 + ulen + plen) \in Seq(S)
      /\ Len(SubSeq(b, 4 + ulen, 3 + ulen + plen)) = plen
      /\ \A i \in 1 .. plen : SubSeq(b, 4 + ulen, 3 + ulen + plen)[i] = b[3 + ulen + i]
  BY <1>1, Slice
<1> QED
  BY <1>2, <1>3

\* The two strings of a complete login, byte by byte.
LEMMA LoginStrings ==
  ASSUME NEW b \in Bytes, Len(b) >= 2, Len(b) >= 3 + b[2], Len(b) >= LoginEnd(b)
  PROVE  LET user == SubSeq(b, 3, 2 + b[2])
             pass == SubSeq(b, 4 + b[2], LoginEnd(b))
         IN  /\ b[2] \in Nat /\ b[3 + b[2]] \in Nat
             /\ user \in Bytes /\ Len(user) = b[2] /\ \A i \in 1 .. b[2] : user[i] = b[2 + i]
             /\ pass \in Bytes /\ Len(pass) = b[3 + b[2]]
             /\ \A i \in 1 .. b[3 + b[2]] : pass[i] = b[3 + b[2] + i]
<1> DEFINE ulen == b[2]
           plen == b[3 + b[2]]
<1>1. b \in Seq(Byte) /\ Len(b) \in Nat /\ \A i \in 1 .. Len(b) : b[i] \in Nat
  BY ByteSeq
<1>2. ulen \in Nat
  BY <1>1
<1>3. 3 + ulen \in 1 .. Len(b)
  BY <1>1, <1>2
<1>4. plen \in Nat
  BY <1>1, <1>3
<1>5. LoginEnd(b) = 3 + ulen + plen
  BY DEF LoginEnd
<1>6. 3 + ulen + plen <= Len(b)
  BY <1>5
<1> HIDE DEF ulen, plen
<1>7. LET user == SubSeq(b, 3, 2 + ulen)
          pass == SubSeq(b, 4 + ulen, 3 + ulen + plen)
      IN  /\ user \in Seq(Byte) /\ Len(user) = ulen /\ \A i \in 1 .. ulen : user[i] = b[2 + i]
          /\ pass \in Seq(Byte) /\ Len(pass) = plen
          /\ \A i \in 1 .. plen : pass[i] = b[3 + ulen + i]
  BY <1>1, <1>2, <1>4, <1>6, Strings
<1> QED
  BY <1>2, <1>4, <1>5, <1>7 DEF ulen, plen, Bytes

\* Bytes are numbers.
LEMMA BytesAreNumbers == ASSUME NEW b \in Bytes PROVE b \in Seq(Nat)
<1>1. Byte \subseteq Nat
  BY WireAssumption DEF Byte
<1> QED
  BY <1>1, SeqMonotonic DEF Bytes

\* verify_credentials finds a pair exactly when it is one of the configured ones.
LEMMA CredentialsMatch ==
  ASSUME NEW user \in Bytes, NEW pass \in Bytes
  PROVE  VerifyCredentials(user, pass) <=> <<user, pass>> \in Users
<1>1. ASSUME NEW a \in Bytes, NEW b \in Bytes PROVE CtEq(a, b) <=> a = b
  <2>1. a \in Seq(Byte) /\ b \in Seq(Byte) /\ DOMAIN a = 1 .. Len(a)
    BY DEF Bytes
  <2>2. ASSUME CtEq(a, b) PROVE a = b
    BY <2>1, <2>2, SeqEqual DEF CtEq
  <2> QED
    BY <2>2 DEF CtEq
<1>2. ASSUME NEW u \in Users
      PROVE  CtEq(u[1], user) /\ CtEq(u[2], pass) <=> u = <<user, pass>>
  <2>1. u \in Bytes \X Bytes
    BY NegotiateAssumption
  <2> QED
    BY <1>1, <2>1
<1> QED
  BY <1>2 DEF VerifyCredentials

\* What parse_userpass yields are sequences of bytes.
LEMMA ParsedStrings ==
  ASSUME NEW b \in Bytes, ParseUserpass(b).kind = "ok"
  PROVE  ParseUserpass(b).user \in Bytes /\ ParseUserpass(b).pass \in Bytes
<1> DEFINE user == ParseUserpass(b).user
           pass == ParseUserpass(b).pass
<1>1. /\ Len(b) >= 2 /\ Len(b) >= 3 + b[2] /\ Len(b) >= LoginEnd(b)
      /\ user = SubSeq(b, 3, 2 + b[2]) /\ pass = SubSeq(b, 4 + b[2], LoginEnd(b))
  BY LoginResults
<1> HIDE DEF user, pass
<1>2. user \in Bytes /\ pass \in Bytes
  BY <1>1, LoginStrings
<1> QED
  BY <1>2 DEF user, pass

\* A login that is parsed and names a user is one.
LEMMA LoginIsSound ==
  ASSUME NEW b \in Bytes, ParseUserpass(b).kind = "ok"
  PROVE  LET result == ParseUserpass(b)
             n == 2 + Len(result.user) + 1 + Len(result.pass)
         IN  /\ n \in 0 .. Len(b)
             /\ <<result.user, result.pass>> \in Users => IsLogin(SubSeq(b, 1, n))
<1> DEFINE user == ParseUserpass(b).user
           pass == ParseUserpass(b).pass
           n == 2 + Len(user) + 1 + Len(pass)
           m == SubSeq(b, 1, n)
           layout == <<1, Len(user)>> \o user \o <<Len(pass)>> \o pass
<1>1. /\ Len(b) >= 2 /\ b[1] = 1 /\ Len(b) >= 3 + b[2] /\ Len(b) >= LoginEnd(b)
      /\ user = SubSeq(b, 3, 2 + b[2]) /\ pass = SubSeq(b, 4 + b[2], LoginEnd(b))
  BY LoginResults
<1>2. /\ b[2] \in Nat /\ b[3 + b[2]] \in Nat
      /\ user \in Bytes /\ Len(user) = b[2] /\ \A i \in 1 .. b[2] : user[i] = b[2 + i]
      /\ pass \in Bytes /\ Len(pass) = b[3 + b[2]]
      /\ \A i \in 1 .. b[3 + b[2]] : pass[i] = b[3 + b[2] + i]
  <2>1. Len(b) >= 2 /\ Len(b) >= 3 + b[2] /\ Len(b) >= LoginEnd(b)
    BY <1>1
  <2> HIDE DEF user, pass
  <2> QED
    BY <1>1, <2>1, LoginStrings
<1> HIDE DEF user, pass
<1>3. /\ Len(b) \in Nat /\ n = 3 + b[2] + b[3 + b[2]] /\ n \in 0 .. Len(b)
      /\ Len(user) \in Nat /\ Len(pass) \in Nat
  <2>1. Len(b) \in Nat /\ Len(b) >= 3 + b[2] + b[3 + b[2]]
    BY <1>1, ByteSeq DEF LoginEnd
  <2>2. b[2] \in Nat /\ b[3 + b[2]] \in Nat /\ Len(user) = b[2] /\ Len(pass) = b[3 + b[2]]
    BY <1>2
  <2> QED
    BY <2>1, <2>2
<1> HIDE DEF n
<1>4. m \in Seq(Nat) /\ Len(m) = n /\ \A i \in 1 .. n : m[i] = b[i]
  BY <1>3, Front, BytesAreNumbers
<1>5. /\ layout \in Seq(Nat) /\ Len(layout) = 3 + Len(user) + Len(pass)
      /\ layout[1] = 1 /\ layout[2] = Len(user) /\ layout[3 + Len(user)] = Len(pass)
      /\ \A i \in 1 .. Len(user) : layout[2 + i] = user[i]
      /\ \A i \in 1 .. Len(pass) : layout[3 + Len(user) + i] = pass[i]
  BY <1>2, LoginLayout, BytesAreNumbers
<1> HIDE DEF m, layout
<1>6. ASSUME NEW i \in 1 .. n PROVE layout[i] = b[i]
  <2> DEFINE ulen == b[2]
             plen == b[3 + b[2]]
  <2>1. ulen \in Nat /\ plen \in Nat /\ n = 3 + ulen + plen /\ Len(user) = ulen /\ Len(pass) = plen
    BY <1>2, <1>3
  <2>2. layout[1] = b[1] /\ layout[2] = b[2] /\ layout[3 + ulen] = b[3 + ulen]
    BY <1>1, <1>2, <1>5
  <2>3. ASSUME NEW j \in 1 .. ulen PROVE layout[2 + j] = b[2 + j]
    BY <1>2, <1>5
  <2>4. ASSUME NEW j \in 1 .. plen PROVE layout[3 + ulen + j] = b[3 + ulen + j]
    BY <1>2, <1>5
  <2> HIDE DEF ulen, plen
  <2>5. CASE i \in 3 .. 2 + ulen
    <3>1. i - 2 \in 1 .. ulen /\ 2 + (i - 2) = i
      BY <2>1, <2>5
    <3> QED
      BY <2>3, <3>1
  <2>6. CASE i \in 4 + ulen .. n
    <3>1. i - (3 + ulen) \in 1 .. plen /\ 3 + ulen + (i - (3 + ulen)) = i
      BY <2>1, <2>6
    <3> QED
      BY <2>4, <3>1
  <2>7. i = 1 \/ i = 2 \/ i = 3 + ulen \/ i \in 3 .. 2 + ulen \/ i \in 4 + ulen .. n
    BY <2>1
  <2> QED
    BY <2>2, <2>5, <2>6, <2>7
<1>7. Len(layout) = n
  BY <1>2, <1>3, <1>5
<1>8. m = layout
  <2>1. Len(m) = Len(layout) /\ \A i \in 1 .. Len(m) : m[i] = layout[i]
    BY <1>4, <1>6, <1>7
  <2> QED
    BY <1>4, <1>5, <2>1, SeqEqual
<1>9. ASSUME <<user, pass>> \in Users PROVE IsLogin(m)
  <2>1. <<user, pass>>[1] = user /\ <<user, pass>>[2] = pass
    OBVIOUS
  <2> QED
    BY <1>8, <1>9, <2>1 DEF IsLogin, layout
<1> QED
  BY <1>3, <1>9 DEF user, pass, n, m

\* A user's login, where it stands in the stream.
LEMMA LoginBytes ==
  ASSUME NEW r \in Bytes, NEW k \in 0 .. Len(r), IsLogin(SubSeq(r, 1, k))
  PROVE  \E user, pass \in Bytes :
           /\ <<user, pass>> \in Users /\ Valid(user) /\ Valid(pass)
           /\ k = 3 + Len(user) + Len(pass)
           /\ r[1] = 1 /\ r[2] = Len(user) /\ r[3 + Len(user)] = Len(pass)
           /\ \A i \in 1 .. Len(user) : r[2 + i] = user[i]
           /\ \A i \in 1 .. Len(pass) : r[3 + Len(user) + i] = pass[i]
<1> DEFINE m == SubSeq(r, 1, k)
<1>1. PICK u \in Users : m = <<1, Len(u[1])>> \o u[1] \o <<Len(u[2])>> \o u[2]
  BY DEF IsLogin
<1>2. u \in Bytes \X Bytes /\ Valid(u[1]) /\ Valid(u[2])
  BY NegotiateAssumption
<1>3. PICK user \in Bytes, pass \in Bytes : u = <<user, pass>> /\ u[1] = user /\ u[2] = pass
  BY <1>2
<1>4. Len(m) = k /\ \A i \in 1 .. k : m[i] = r[i]
  BY Front, ByteSeq
<1> DEFINE layout == <<1, Len(user)>> \o user \o <<Len(pass)>> \o pass
<1>5. m = layout
  BY <1>1, <1>3
<1>6. /\ Len(layout) = 3 + Len(user) + Len(pass)
      /\ layout[1] = 1 /\ layout[2] = Len(user) /\ layout[3 + Len(user)] = Len(pass)
      /\ \A i \in 1 .. Len(user) : layout[2 + i] = user[i]
      /\ \A i \in 1 .. Len(pass) : layout[3 + Len(user) + i] = pass[i]
  BY LoginLayout, BytesAreNumbers
<1> HIDE DEF m, layout
<1>7. Len(user) \in Nat /\ Len(pass) \in Nat
  BY ByteSeq
<1>8. k = 3 + Len(user) + Len(pass) /\ \A i \in 1 .. k : layout[i] = r[i]
  BY <1>4, <1>5, <1>6
<1>9. r[1] = 1 /\ r[2] = Len(user) /\ r[3 + Len(user)] = Len(pass)
  BY <1>6, <1>7, <1>8
<1>10. ASSUME NEW i \in 1 .. Len(user) PROVE r[2 + i] = user[i]
  <2>1. 2 + i \in 1 .. k
    BY <1>7, <1>8
  <2> QED
    BY <1>6, <1>8, <2>1
<1>11. ASSUME NEW i \in 1 .. Len(pass) PROVE r[3 + Len(user) + i] = pass[i]
  <2>1. 3 + Len(user) + i \in 1 .. k
    BY <1>7, <1>8
  <2> QED
    BY <1>6, <1>8, <2>1
<1>12. <<user, pass>> \in Users /\ Valid(user) /\ Valid(pass)
  BY <1>2, <1>3
<1> QED
  BY <1>8, <1>9, <1>10, <1>11, <1>12

\* A login is parsed as soon as all of it is there, and until then it is unfinished.
LEMMA LoginIsComplete ==
  ASSUME NEW r \in Bytes, NEW q \in 0 .. Len(r), NEW k \in 0 .. Len(r),
         IsLogin(SubSeq(r, 1, k))
  PROVE  LET result == ParseUserpass(SubSeq(r, 1, q))
         IN  IF k <= q THEN /\ result.kind = "ok"
                            /\ 2 + Len(result.user) + 1 + Len(result.pass) = k
                            /\ <<result.user, result.pass>> \in Users
             ELSE result.kind = "truncated" /\ k <= ReadBuf + 1
<1> DEFINE b == SubSeq(r, 1, q)
           result == ParseUserpass(b)
<1>1. b \in Bytes /\ Len(b) = q /\ \A i \in 1 .. q : b[i] = r[i]
  BY Front, ByteSeq DEF Bytes
<1>2. PICK user \in Bytes, pass \in Bytes :
           /\ <<user, pass>> \in Users /\ Valid(user) /\ Valid(pass)
           /\ k = 3 + Len(user) + Len(pass)
           /\ r[1] = 1 /\ r[2] = Len(user) /\ r[3 + Len(user)] = Len(pass)
           /\ \A i \in 1 .. Len(user) : r[2 + i] = user[i]
           /\ \A i \in 1 .. Len(pass) : r[3 + Len(user) + i] = pass[i]
  BY LoginBytes
<1> HIDE DEF b, result
<1>3. /\ Len(user) \in Nat /\ Len(pass) \in Nat /\ Len(r) \in Nat /\ q \in Nat /\ k \in Nat
      /\ q <= Len(r) /\ k <= Len(r)
  BY ByteSeq
<1>4. Len(user) <= MaxByte /\ Len(pass) <= MaxByte
  <2>1. 2 \in 1 .. Len(r) /\ 3 + Len(user) \in 1 .. Len(r)
    BY <1>2, <1>3
  <2>2. r[2] <= MaxByte /\ r[3 + Len(user)] <= MaxByte
    BY <2>1, ByteSeq
  <2> QED
    BY <1>2, <2>2
<1>5. CASE k <= q
  <2>1. /\ b[1] = 1 /\ b[2] = Len(user) /\ b[3 + b[2]] = Len(pass) /\ LoginEnd(b) = k
    <3>1. 1 \in 1 .. q /\ 2 \in 1 .. q /\ 3 + Len(user) \in 1 .. q
      BY <1>2, <1>3, <1>5
    <3>2. b[1] = 1 /\ b[2] = Len(user) /\ b[3 + Len(user)] = Len(pass)
      BY <1>1, <1>2, <3>1
    <3> QED
      BY <1>2, <3>2 DEF LoginEnd
  <2>2. Len(b) >= 2 /\ Len(b) >= 3 + b[2] /\ Len(b) >= LoginEnd(b) /\ ~ Len(b) < 1
    BY <1>1, <1>2, <1>3, <1>5, <2>1
  <2> DEFINE x == SubSeq(b, 3, 2 + b[2])
             y == SubSeq(b, 4 + b[2], LoginEnd(b))
  <2>3. /\ x \in Bytes /\ Len(x) = b[2] /\ \A i \in 1 .. b[2] : x[i] = b[2 + i]
        /\ y \in Bytes /\ Len(y) = b[3 + b[2]] /\ \A i \in 1 .. b[3 + b[2]] : y[i] = b[3 + b[2] + i]
    BY <1>1, <2>2, LoginStrings
  <2> HIDE DEF x, y
  <2>4. x = user
    <3>1. ASSUME NEW i \in 1 .. Len(x) PROVE x[i] = user[i]
      <4>1. i \in 1 .. Len(user) /\ i \in 1 .. b[2] /\ 2 + i \in 1 .. q
        BY <1>2, <1>3, <1>5, <2>1, <2>3
      <4> QED
        BY <1>1, <1>2, <2>3, <4>1
    <3>2. Len(x) = Len(user) /\ x \in Seq(Byte) /\ user \in Seq(Byte)
      BY <2>1, <2>3 DEF Bytes
    <3> QED
      BY <3>1, <3>2, SeqEqual
  <2>5. y = pass
    <3>1. ASSUME NEW i \in 1 .. Len(y) PROVE y[i] = pass[i]
      <4>1. i \in 1 .. Len(pass) /\ i \in 1 .. b[3 + b[2]] /\ 3 + Len(user) + i \in 1 .. q
        BY <1>2, <1>3, <1>5, <2>1, <2>3
      <4>2. y[i] = b[3 + Len(user) + i]
        BY <2>1, <2>3, <4>1
      <4> QED
        BY <1>1, <1>2, <4>1, <4>2
    <3>2. Len(y) = Len(pass) /\ y \in Seq(Byte) /\ pass \in Seq(Byte)
      BY <2>1, <2>3 DEF Bytes
    <3> QED
      BY <3>1, <3>2, SeqEqual
  <2>6. Valid(x) /\ Valid(y)
    BY <1>2, <2>4, <2>5
  <2>7. /\ ~ (Len(b) < 2 \/ Len(b) < 3 + b[2] \/ Len(b) < LoginEnd(b)) /\ ~ Len(b) < 1
    BY <1>1, <1>2, <1>3, <1>5, <2>1
  <2>8. result.kind = "ok" /\ result.user = x /\ result.pass = y
    BY <1>1, <2>1, <2>6, <2>7, LoginResults DEF result, x, y
  <2>9. result.user = user /\ result.pass = pass /\ <<user, pass>> \in Users
    BY <1>2, <2>4, <2>5, <2>8
  <2>10. 2 + Len(user) + 1 + Len(pass) = k
    BY <1>2, <1>3
  <2>11. /\ result.kind = "ok" /\ 2 + Len(result.user) + 1 + Len(result.pass) = k
         /\ <<result.user, result.pass>> \in Users
    BY <2>8, <2>9, <2>10, Zenon
  <2> QED
    BY <1>5, <2>11 DEF result, b
<1>6. CASE ~ k <= q
  <2>1. \/ Len(b) < 1
        \/ b[1] = 1 /\ (Len(b) < 2 \/ Len(b) < 3 + b[2] \/ Len(b) < LoginEnd(b))
    <3>1. CASE q >= 1
      <4>1. b[1] = 1
        BY <1>1, <1>2, <1>3, <3>1
      <4>2. CASE q >= 3 + Len(user)
        <5>1. b[2] = Len(user) /\ b[3 + Len(user)] = Len(pass)
          BY <1>1, <1>2, <1>3, <4>2
        <5>2. LoginEnd(b) = k
          BY <1>2, <5>1 DEF LoginEnd
        <5> QED
          BY <1>1, <1>3, <1>6, <4>1, <5>2
      <4>3. CASE q >= 2 /\ ~ q >= 3 + Len(user)
        <5>1. b[2] = Len(user)
          BY <1>1, <1>2, <1>3, <4>3
        <5> QED
          BY <1>1, <1>3, <4>1, <4>3, <5>1
      <4> QED
        BY <1>1, <1>3, <4>1, <4>2, <4>3
    <3> QED
      BY <1>1, <1>3, <3>1
  <2>2. result.kind = "truncated"
    <3>1. ~ (Len(b) >= 1 /\ b[1] # 1)
      BY <1>1, <1>3, <2>1
    <3>2. ~ (/\ Len(b) >= 2 /\ b[1] = 1 /\ Len(b) >= 3 + b[2] /\ Len(b) >= LoginEnd(b))
      <4>1. SUFFICES ASSUME Len(b) >= 2, Len(b) >= 3 + b[2], Len(b) >= LoginEnd(b) PROVE FALSE
        OBVIOUS
      <4>2. Len(b) \in Nat /\ b[2] \in Nat /\ b[3 + b[2]] \in Nat
        BY <1>1, <4>1, LoginStrings, ByteSeq
      <4> QED
        BY <2>1, <4>1, <4>2 DEF LoginEnd
    <3> QED
      BY <1>1, <3>1, <3>2, LoginResults DEF result
  <2>3. k <= ReadBuf + 1
    BY <1>2, <1>3, <1>4, Sizes
  <2> QED
    BY <1>6, <2>2, <2>3 DEF result, b
<1> QED
  BY <1>5, <1>6

-----------------------------------------------------------------------------
(* Addresses.                                                              *)

\* The front of a sequence with the piece behind it.
LEMMA FrontGrows ==
  ASSUME NEW S, NEW s \in Seq(S), NEW y \in Nat, NEW first \in Nat, NEW z \in y .. Len(s),
         first = y + 1
  PROVE  SubSeq(s, 1, y) \o SubSeq(s, first, z) = SubSeq(s, 1, z)
<1>1. Len(s) \in Nat /\ 1 \in 1 .. Len(s) + 1 /\ y \in 1 - 1 .. Len(s)
  BY LenProperties
<1> QED
  BY <1>1, ConcatAdjacentSubSeq

\* A front of one and of two bytes, written out.
LEMMA ShortFronts ==
  ASSUME NEW S, NEW s \in Seq(S)
  PROVE  /\ Len(s) >= 1 => SubSeq(s, 1, 1) = <<s[1]>>
         /\ Len(s) >= 2 => SubSeq(s, 1, 2) = <<s[1], s[2]>>
<1>0. Len(s) \in Nat
  BY LenProperties
<1>1. ASSUME Len(s) >= 1 PROVE SubSeq(s, 1, 1) = <<s[1]>>
  <2> DEFINE t == SubSeq(s, 1, 1)
  <2>1. 1 \in 0 .. Len(s) /\ s[1] \in S
    BY <1>0, <1>1, ElementOfSeq
  <2>2. t \in Seq(S) /\ Len(t) = 1 /\ \A i \in 1 .. 1 : t[i] = s[i]
    BY <2>1, Front
  <2> HIDE DEF t
  <2>3. <<s[1]>> \in Seq(S) /\ Len(<<s[1]>>) = 1 /\ \A i \in 1 .. 1 : <<s[1]>>[i] = s[i]
    BY <2>1
  <2>4. t = <<s[1]>>
    BY <2>2, <2>3, SeqEqual
  <2> QED
    BY <2>4 DEF t
<1>2. ASSUME Len(s) >= 2 PROVE SubSeq(s, 1, 2) = <<s[1], s[2]>>
  <2> DEFINE t == SubSeq(s, 1, 2)
             u == <<s[1], s[2]>>
  <2>1. 2 \in 0 .. Len(s) /\ s[1] \in S /\ s[2] \in S
    BY <1>0, <1>2, ElementOfSeq
  <2>2. t \in Seq(S) /\ Len(t) = 2 /\ \A i \in 1 .. 2 : t[i] = s[i]
    BY <2>1, Front
  <2> HIDE DEF t
  <2>3. u \in Seq(S) /\ Len(u) = 2 /\ u[1] = s[1] /\ u[2] = s[2]
    BY <2>1
  <2> HIDE DEF u
  <2>4. ASSUME NEW i \in 1 .. Len(t) PROVE t[i] = u[i]
    <3>1. i = 1 \/ i = 2
      BY <2>2
    <3>2. 1 \in 1 .. 2 /\ 2 \in 1 .. 2
      OBVIOUS
    <3> QED
      BY <2>2, <2>3, <3>1, <3>2
  <2>5. t = u
    BY <2>2, <2>3, <2>4, SeqEqual
  <2> QED
    BY <2>5 DEF t, u
<1> QED
  BY <1>1, <1>2

\* The octets of a literal address.
Octets(atyp) == IF atyp = 1 THEN V4Len ELSE V6Len

\* A literal address: parsed when it is complete, and encoded as it was.
LEMMA LiteralParsed ==
  ASSUME NEW a \in Bytes, Len(a) >= 1, a[1] \in {1, 4}
  PROVE  LET n == 3 + Octets(a[1]) IN
         IF Len(a) < n THEN Decode(a).kind = "truncated"
         ELSE Decode(a).kind = "ok" /\ Encode(Decode(a)) = SubSeq(a, 1, n)
<1> DEFINE o == Octets(a[1])
           name == IF a[1] = 1 THEN "v4" ELSE "v6"
<1>1. o \in Nat /\ Len(a) \in Nat /\ a \in Seq(Byte)
  BY WireAssumption, ByteSeq DEF Octets
<1>2. Decode(a) = Fixed(a, name, o)
  <2>1. CASE a[1] = 1
    BY <2>1 DEF Decode, Octets
  <2>2. CASE a[1] = 4
    BY <2>2 DEF Decode, Octets
  <2> QED
    BY <2>1, <2>2
<1>3. CASE Len(a) < 3 + o
  BY <1>2, <1>3 DEF Fixed, Truncated
<1>4. CASE ~ Len(a) < 3 + o
  <2> DEFINE host == SubSeq(a, 2, 1 + o)
             port == SubSeq(a, 2 + o, 3 + o)
  <2>1. Decode(a) = [kind |-> "ok", atyp |-> name, host |-> host, port |-> port]
    BY <1>2, <1>4 DEF Fixed
  <2> HIDE DEF host, port, o
  <2>2. Encode(Decode(a)) = <<a[1]>> \o host \o port
    <3>1. CASE a[1] = 1
      BY <2>1, <3>1 DEF Encode
    <3>2. CASE a[1] = 4
      BY <2>1, <3>2 DEF Encode
    <3> QED
      BY <3>1, <3>2
  <2>3. SubSeq(a, 1, 1) = <<a[1]>>
    BY <1>1, ShortFronts
  <2>4. SubSeq(a, 1, 1) \o host = SubSeq(a, 1, 1 + o)
    <3>1. 1 \in Nat /\ 2 \in Nat /\ 1 + o \in 1 .. Len(a) /\ 2 = 1 + 1
      BY <1>1, <1>4
    <3> QED
      BY <1>1, <3>1, FrontGrows DEF host
  <2>5. SubSeq(a, 1, 1 + o) \o port = SubSeq(a, 1, 3 + o)
    <3>1. 1 + o \in Nat /\ 2 + o \in Nat /\ 3 + o \in 1 + o .. Len(a) /\ 2 + o = (1 + o) + 1
      BY <1>1, <1>4
    <3> QED
      BY <1>1, <3>1, FrontGrows DEF port
  <2>6. Encode(Decode(a)) = SubSeq(a, 1, 3 + o)
    BY <2>2, <2>3, <2>4, <2>5, Zenon
  <2>7. Decode(a).kind = "ok"
    BY <2>1
  <2> QED
    BY <1>4, <2>6, <2>7 DEF o
<1> QED
  BY <1>3, <1>4

\* A name: parsed when it is complete and valid, and encoded as it was.
LEMMA NameParsed ==
  ASSUME NEW a \in Bytes, Len(a) >= 1, a[1] = 3
  PROVE  IF Len(a) < 2 \/ Len(a) < 4 + a[2] THEN Decode(a).kind = "truncated"
         ELSE IF Valid(SubSeq(a, 3, 2 + a[2]))
           THEN Decode(a).kind = "ok" /\ Encode(Decode(a)) = SubSeq(a, 1, 4 + a[2])
           ELSE Decode(a).kind = "bad_domain"
<1>1. Decode(a) = DecodeDomain(a)
  BY DEF Decode
<1>2. Len(a) \in Nat /\ a \in Seq(Byte)
  BY ByteSeq
<1>3. CASE Len(a) < 2 \/ Len(a) < 4 + a[2]
  BY <1>1, <1>3 DEF DecodeDomain, Truncated
<1>4. CASE ~ (Len(a) < 2 \/ Len(a) < 4 + a[2])
  <2> DEFINE host == SubSeq(a, 3, 2 + a[2])
             port == SubSeq(a, 3 + a[2], 4 + a[2])
  <2>1. Decode(a) = IF Valid(host)
                      THEN [kind |-> "ok", atyp |-> "domain", host |-> host, port |-> port]
                      ELSE Malformed("bad_domain")
    BY <1>1, <1>4 DEF DecodeDomain
  <2>2. CASE ~ Valid(host)
    BY <1>4, <2>1, <2>2 DEF Malformed
  <2>3. CASE Valid(host)
    <3>1. Len(a) >= 2 /\ a[2] \in Nat /\ Len(a) >= 4 + a[2]
      BY <1>2, <1>4, ByteSeq
    <3>2. Decode(a) = [kind |-> "ok", atyp |-> "domain", host |-> host, port |-> port]
      BY <2>1, <2>3
    <3>3. Len(host) = a[2]
      BY <3>1, GreetingMethods
    <3> HIDE DEF host, port
    <3>4. Encode(Decode(a)) = <<3, Len(host)>> \o host \o port
      BY <3>2 DEF Encode
    <3>5. SubSeq(a, 1, 2) = <<3, Len(host)>>
      BY <1>2, <3>1, <3>3, ShortFronts
    <3>6. SubSeq(a, 1, 2) \o host = SubSeq(a, 1, 2 + a[2])
      <4>1. 2 \in Nat /\ 3 \in Nat /\ 2 + a[2] \in 2 .. Len(a) /\ 3 = 2 + 1
        BY <1>2, <3>1
      <4> QED
        BY <1>2, <4>1, FrontGrows DEF host
    <3>7. SubSeq(a, 1, 2 + a[2]) \o port = SubSeq(a, 1, 4 + a[2])
      <4>1. /\ 2 + a[2] \in Nat /\ 3 + a[2] \in Nat /\ 4 + a[2] \in 2 + a[2] .. Len(a)
            /\ 3 + a[2] = (2 + a[2]) + 1
        BY <1>2, <3>1
      <4> QED
        BY <1>2, <4>1, FrontGrows DEF port
    <3>8. Encode(Decode(a)) = SubSeq(a, 1, 4 + a[2])
      BY <3>4, <3>5, <3>6, <3>7, Zenon
    <3>9. Decode(a).kind = "ok"
      BY <3>2
    <3> QED
      BY <1>4, <2>3, <3>8, <3>9 DEF host
  <2> QED
    BY <2>2, <2>3
<1> QED
  BY <1>3, <1>4

\* Any other type of address.
LEMMA OtherAtyp ==
  ASSUME NEW a, a[1] \notin {1, 3, 4}
  PROVE  Decode(a).kind = "bad_atyp"
<1>1. Decode(a) = Malformed("bad_atyp")
  BY DEF Decode
<1> QED
  BY <1>1 DEF Malformed

\* The name in the front of an address is the name in the address.
LEMMA NameOfFront ==
  ASSUME NEW S, NEW a \in Seq(S), NEW n \in 0 .. Len(a), NEW l \in Nat, 2 + l <= n
  PROVE  SubSeq(SubSeq(a, 1, n), 3, 2 + l) = SubSeq(a, 3, 2 + l)
<1>1. /\ 0 \in Nat /\ n \in 0 .. Len(a) /\ 2 \in Nat /\ 2 + l \in 2 .. n - 0
  BY LenProperties
<1>2. SubSeq(SubSeq(a, 0 + 1, n), 2 + 1, 2 + l) = SubSeq(a, (0 + 2) + 1, 0 + (2 + l))
  BY <1>1, PieceOfPiece
<1>3. 0 + 1 = 1 /\ 2 + 1 = 3 /\ (0 + 2) + 1 = 3 /\ 0 + (2 + l) = 2 + l
  OBVIOUS
<1> QED
  BY <1>2, <1>3

\* An address that is parsed is one, and Address::encode gives back its bytes.
LEMMA AddressIsSound ==
  ASSUME NEW a \in Bytes, Len(a) >= 1, Decode(a).kind = "ok"
  PROVE  LET n == Len(Encode(Decode(a))) IN
         /\ n \in 1 .. Len(a)
         /\ Encode(Decode(a)) = SubSeq(a, 1, n)
         /\ AddressFits(SubSeq(a, 1, n))
<1>1. Len(a) \in Nat /\ a \in Seq(Byte)
  BY ByteSeq
<1>2. a[1] \in {1, 3, 4}
  BY OtherAtyp
<1>3. CASE a[1] \in {1, 4}
  <2> DEFINE n == 3 + Octets(a[1])
  <2>1. Octets(a[1]) \in Nat
    BY WireAssumption DEF Octets
  <2>2. ~ Len(a) < n /\ Encode(Decode(a)) = SubSeq(a, 1, n)
    BY <1>3, LiteralParsed
  <2>3. n \in 1 .. Len(a) /\ n \in 0 .. Len(a) /\ 1 \in 1 .. n
    BY <1>1, <2>1, <2>2
  <2> HIDE DEF n
  <2>4. Len(SubSeq(a, 1, n)) = n /\ SubSeq(a, 1, n)[1] = a[1]
    BY <1>1, <2>3, Front
  <2>5. AddressFits(SubSeq(a, 1, n))
    <3>1. CASE a[1] = 1
      <4>1. n = 1 + V4Len + 2
        BY <3>1, WireAssumption DEF n, Octets
      <4> QED
        BY <2>4, <3>1, <4>1 DEF AddressFits
    <3>2. CASE a[1] = 4
      <4>1. n = 1 + V6Len + 2
        BY <3>2, WireAssumption DEF n, Octets
      <4> QED
        BY <2>4, <3>2, <4>1 DEF AddressFits
    <3> QED
      BY <1>3, <3>1, <3>2
  <2> QED
    BY <2>2, <2>3, <2>4, <2>5
<1>4. CASE a[1] = 3
  <2> DEFINE l == a[2]
             n == 4 + l
             m == SubSeq(a, 1, n)
  <2>1. /\ ~ (Len(a) < 2 \/ Len(a) < 4 + a[2]) /\ Valid(SubSeq(a, 3, 2 + a[2]))
        /\ Encode(Decode(a)) = SubSeq(a, 1, n)
    BY <1>4, NameParsed
  <2>2. l \in Nat
    BY <1>1, <2>1, ByteSeq
  <2>3. n \in 1 .. Len(a) /\ n \in 0 .. Len(a) /\ 1 \in 1 .. n /\ 2 \in 1 .. n /\ 2 + l <= n
    BY <1>1, <2>1, <2>2
  <2>4. Len(m) = n /\ m[1] = a[1] /\ m[2] = l
    BY <1>1, <2>3, Front
  <2>5. SubSeq(m, 3, 2 + l) = SubSeq(a, 3, 2 + l)
    BY <1>1, <2>2, <2>3, NameOfFront
  <2>6. Valid(SubSeq(a, 3, 2 + l))
    BY <2>1
  <2>7. n >= 2 /\ n = 2 + l + 2
    BY <2>2
  <2> HIDE DEF m, n, l
  <2>8. AddressFits(m)
    <3>1. m[1] = 3 /\ Len(m) >= 2 /\ Len(m) = 2 + m[2] + 2 /\ Valid(SubSeq(m, 3, 2 + m[2]))
      BY <1>4, <2>4, <2>5, <2>6, <2>7
    <3> QED
      BY <3>1 DEF AddressFits
  <2> QED
    BY <2>1, <2>3, <2>4, <2>8 DEF m
<1> QED
  BY <1>2, <1>3, <1>4

\* An address is parsed as soon as all of it is there, and until then it is unfinished.
LEMMA AddressIsComplete ==
  ASSUME NEW c \in Bytes, NEW q \in 1 .. Len(c), NEW n \in 0 .. Len(c),
         AddressFits(SubSeq(c, 1, n))
  PROVE  LET result == Decode(SubSeq(c, 1, q))
         IN  IF n <= q THEN result.kind = "ok" /\ Len(Encode(result)) = n
             ELSE result.kind = "truncated"
<1> DEFINE a == SubSeq(c, 1, q)
           m == SubSeq(c, 1, n)
<1>1. Len(c) \in Nat /\ c \in Seq(Byte) /\ q \in 0 .. Len(c) /\ q \in Nat /\ n \in Nat
  BY ByteSeq
<1>2. Len(m) = n /\ \A i \in 1 .. n : m[i] = c[i]
  BY <1>1, Front
<1>3. a \in Seq(Byte) /\ Len(a) = q /\ \A i \in 1 .. q : a[i] = c[i]
  BY <1>1, Front
<1>4. a \in Bytes /\ Len(a) >= 1 /\ a[1] = c[1]
  BY <1>1, <1>3 DEF Bytes
<1>5. /\ \A l \in 0 .. q : Len(SubSeq(a, 1, l)) = l
  BY <1>3, Front
<1>6. \/ m[1] = 1 /\ n = 1 + V4Len + 2
      \/ m[1] = 4 /\ n = 1 + V6Len + 2
      \/ m[1] = 3 /\ n >= 2 /\ n = 2 + m[2] + 2 /\ Valid(SubSeq(m, 3, 2 + m[2]))
  BY <1>2 DEF AddressFits
<1>7. V4Len \in Nat /\ V6Len \in Nat
  BY WireAssumption
<1> HIDE DEF a
<1>8. CASE c[1] \in {1, 4} /\ n = 3 + Octets(c[1])
  <2>1. IF Len(a) < n THEN Decode(a).kind = "truncated"
        ELSE Decode(a).kind = "ok" /\ Encode(Decode(a)) = SubSeq(a, 1, n)
    BY <1>4, <1>8, LiteralParsed
  <2>3. CASE n <= q
    <3>1. Decode(a).kind = "ok" /\ Encode(Decode(a)) = SubSeq(a, 1, n)
      BY <1>1, <1>3, <2>1, <2>3
    <3>2. Len(SubSeq(a, 1, n)) = n
      BY <1>1, <1>5, <2>3
    <3> QED
      BY <2>3, <3>1, <3>2 DEF a
  <2>4. CASE ~ n <= q
    <3>1. Decode(a).kind = "truncated"
      BY <1>1, <1>3, <2>1, <2>4
    <3> QED
      BY <2>4, <3>1 DEF a
  <2> QED
    BY <2>3, <2>4
<1>9. CASE c[1] = 3 /\ n >= 2 /\ n = 2 + m[2] + 2 /\ Valid(SubSeq(m, 3, 2 + m[2]))
  <2> DEFINE l == c[2]
  <2>1. m[2] = l /\ l \in Nat /\ l <= MaxByte
    BY <1>1, <1>2, <1>9, ByteSeq
  <2>2. n = 4 + l /\ 2 + l <= n
    BY <1>9, <2>1
  <2>3. Valid(SubSeq(c, 3, 2 + l))
    <3>1. SubSeq(m, 3, 2 + l) = SubSeq(c, 3, 2 + l)
      BY <1>1, <2>1, <2>2, NameOfFront
    <3> HIDE DEF m, l
    <3> QED
      BY <1>9, <2>1, <3>1
  <2> HIDE DEF l, m
  <2>5. IF Len(a) < 2 \/ Len(a) < 4 + a[2] THEN Decode(a).kind = "truncated"
        ELSE IF Valid(SubSeq(a, 3, 2 + a[2]))
           THEN Decode(a).kind = "ok" /\ Encode(Decode(a)) = SubSeq(a, 1, 4 + a[2])
           ELSE Decode(a).kind = "bad_domain"
    BY <1>4, <1>9, NameParsed
  <2>6. CASE n <= q
    <3>1. a[2] = l /\ ~ (Len(a) < 2 \/ Len(a) < 4 + a[2])
      BY <1>1, <1>3, <2>1, <2>2, <2>6 DEF l
    <3>2. SubSeq(a, 3, 2 + l) = SubSeq(c, 3, 2 + l)
      <4>1. 2 + l <= q
        BY <1>1, <2>1, <2>2, <2>6
      <4> QED
        BY <1>1, <2>1, <4>1, NameOfFront DEF a
    <3>3. Decode(a).kind = "ok" /\ Encode(Decode(a)) = SubSeq(a, 1, n)
      BY <2>2, <2>3, <2>5, <3>1, <3>2
    <3>4. Len(SubSeq(a, 1, n)) = n
      BY <1>1, <1>5, <2>6
    <3> QED
      BY <2>6, <3>3, <3>4 DEF a
  <2>7. CASE ~ n <= q
    <3>1. Len(a) < 2 \/ Len(a) < 4 + a[2]
      BY <1>1, <1>3, <2>1, <2>2, <2>7 DEF l
    <3>2. Decode(a).kind = "truncated"
      BY <2>5, <3>1
    <3> QED
      BY <2>7, <3>2 DEF a
  <2> QED
    BY <2>6, <2>7
<1>10. n >= 1
  BY <1>1, <1>6, <1>7, WireAssumption
<1>11. m[1] = c[1]
  BY <1>1, <1>2, <1>10
<1>12. \/ c[1] \in {1, 4} /\ n = 3 + Octets(c[1])
       \/ c[1] = 3 /\ n >= 2 /\ n = 2 + m[2] + 2 /\ Valid(SubSeq(m, 3, 2 + m[2]))
  BY <1>6, <1>7, <1>11 DEF Octets
<1> QED
  BY <1>8, <1>9, <1>12

\* An unfinished request still fits the buffer.
LEMMA AddressIsShort ==
  ASSUME NEW c \in Bytes, NEW n \in 0 .. Len(c), AddressFits(SubSeq(c, 1, n))
  PROVE  n + 3 <= ReadBuf + 1
<1> DEFINE m == SubSeq(c, 1, n)
<1>1. Len(c) \in Nat /\ c \in Seq(Byte) /\ n \in Nat
  BY ByteSeq
<1>2. Len(m) = n /\ \A i \in 1 .. n : m[i] = c[i]
  BY <1>1, Front
<1> HIDE DEF m
<1>3. \/ n = 1 + V4Len + 2
      \/ n = 1 + V6Len + 2
      \/ n >= 2 /\ n = 2 + m[2] + 2
  BY <1>2 DEF AddressFits, m
<1>4. n >= 2 => m[2] \in Nat /\ m[2] <= MaxByte
  BY <1>1, <1>2, ByteSeq
<1> QED
  BY <1>1, <1>3, <1>4, Sizes

-----------------------------------------------------------------------------
(* The request.                                                            *)

\* What each result of the parser says about the bytes.
LEMMA RequestResults ==
  ASSUME NEW b \in Bytes
  PROVE  LET result == ParseRequest(b)
             address == Decode(SubSeq(b, 4, Len(b)))
         IN
         \/ Len(b) < 4 /\ result.kind = "truncated"
         \/ Len(b) >= 4 /\ b[1] # 5 /\ result.kind = "bad_version"
         \/ Len(b) >= 4 /\ b[1] = 5 /\ b[2] \notin 1 .. 3 /\ result.kind = "bad_command"
         \/ /\ Len(b) >= 4 /\ b[1] = 5 /\ b[2] \in 1 .. 3
            /\ address.kind # "ok" => result = address
            /\ address.kind = "ok" => /\ result.kind = "ok" /\ result.address = address
                                      /\ result.command = Commands[b[2]]
<1>1. Len(b) \in Nat /\ DOMAIN Commands = 1 .. 3
  BY ByteSeq DEF Commands
<1>2. CASE Len(b) < 4
  <2>1. ParseRequest(b) = Truncated
    BY <1>2 DEF ParseRequest
  <2> QED
    BY <1>2, <2>1 DEF Truncated
<1>3. CASE Len(b) >= 4 /\ b[1] # 5
  <2>1. ParseRequest(b) = Malformed("bad_version")
    BY <1>1, <1>3 DEF ParseRequest
  <2> QED
    BY <1>3, <2>1 DEF Malformed
<1>4. CASE Len(b) >= 4 /\ b[1] = 5 /\ b[2] \notin 1 .. 3
  <2>1. ParseRequest(b) = Malformed("bad_command")
    BY <1>1, <1>4 DEF ParseRequest
  <2> QED
    BY <1>4, <2>1 DEF Malformed
<1>5. CASE Len(b) >= 4 /\ b[1] = 5 /\ b[2] \in 1 .. 3
  <2> DEFINE address == Decode(SubSeq(b, 4, Len(b)))
  <2>1. ParseRequest(b) = IF address.kind # "ok" THEN address
                          ELSE [kind |-> "ok", command |-> Commands[b[2]], address |-> address]
    BY <1>1, <1>5 DEF ParseRequest
  <2> HIDE DEF address
  <2>2. address.kind # "ok" => ParseRequest(b) = address
    BY <2>1
  <2>3. address.kind = "ok" => /\ ParseRequest(b).kind = "ok" /\ ParseRequest(b).address = address
                               /\ ParseRequest(b).command = Commands[b[2]]
    BY <2>1
  <2> QED
    BY <1>5, <2>2, <2>3 DEF address
<1> QED
  BY <1>1, <1>2, <1>3, <1>4, <1>5

\* What follows the first three bytes of a message.
LEMMA AfterThree ==
  ASSUME NEW S, NEW s \in Seq(S), NEW k \in 3 .. Len(s)
  PROVE  /\ SubSeq(s, 4, Len(s)) \in Seq(S) /\ Len(SubSeq(s, 4, Len(s))) = Len(s) - 3
         /\ SubSeq(SubSeq(s, 1, k), 4, k) = SubSeq(s, 4, k)
         /\ SubSeq(SubSeq(s, 4, Len(s)), 1, k - 3) = SubSeq(s, 4, k)
<1>1. /\ Len(s) \in Nat /\ Len(s) >= 3 /\ k \in Nat /\ k >= 3 /\ k <= Len(s)
  BY LenProperties
<1>2. SubSeq(SubSeq(s, 0 + 1, k), 3 + 1, k) = SubSeq(s, (0 + 3) + 1, 0 + k)
  <2>1. 0 \in Nat /\ k \in 0 .. Len(s) /\ 3 \in Nat /\ k \in 3 .. k - 0
    BY <1>1
  <2> QED
    BY <2>1, PieceOfPiece
<1>3. SubSeq(SubSeq(s, 3 + 1, Len(s)), 0 + 1, k - 3) = SubSeq(s, (3 + 0) + 1, 3 + (k - 3))
  <2>1. 3 \in Nat /\ Len(s) \in 3 .. Len(s) /\ 0 \in Nat /\ k - 3 \in 0 .. Len(s) - 3
    BY <1>1
  <2> QED
    BY <2>1, PieceOfPiece
<1>4. 0 + 1 = 1 /\ 3 + 1 = 4 /\ (0 + 3) + 1 = 4 /\ 0 + k = k /\ (3 + 0) + 1 = 4 /\ 3 + (k - 3) = k
  BY <1>1
<1>5. SubSeq(s, 3 + 1, Len(s)) \in Seq(S) /\ Len(SubSeq(s, 3 + 1, Len(s))) = Len(s) - 3
  <2>1. 3 \in Nat /\ Len(s) \in 3 .. Len(s)
    BY <1>1
  <2> QED
    BY <2>1, Piece, ZenonT(20)
<1> QED
  BY <1>2, <1>3, <1>4, <1>5

\* A request that is parsed is one, and Address::encode tells where it ends.
LEMMA RequestIsSound ==
  ASSUME NEW b \in Bytes, ParseRequest(b).kind = "ok"
  PROVE  LET result == ParseRequest(b)
             n == 3 + Len(Encode(result.address))
         IN  /\ n \in 4 .. Len(b)
             /\ IsRequest(SubSeq(b, 1, n))
             /\ result.command = Commands[b[2]]
             /\ Encode(result.address) = SubSeq(b, 4, n)
<1> DEFINE a == SubSeq(b, 4, Len(b))
           l == Len(Encode(Decode(a)))
           n == 3 + l
           m == SubSeq(b, 1, n)
<1>1. /\ Len(b) >= 4 /\ b[1] = 5 /\ b[2] \in 1 .. 3 /\ Decode(a).kind = "ok"
      /\ ParseRequest(b).address = Decode(a) /\ ParseRequest(b).command = Commands[b[2]]
  BY RequestResults
<1>2. Len(b) \in Nat /\ b \in Seq(Byte)
  BY ByteSeq
<1>3. 3 \in 3 .. Len(b)
  BY <1>1, <1>2
<1>4. a \in Seq(Byte) /\ Len(a) = Len(b) - 3
  BY <1>2, <1>3, AfterThree
<1>5. a \in Bytes /\ Len(a) >= 1
  BY <1>1, <1>2, <1>4 DEF Bytes
<1> HIDE DEF a
<1>6. l \in 1 .. Len(a) /\ Encode(Decode(a)) = SubSeq(a, 1, l) /\ AddressFits(SubSeq(a, 1, l))
  BY <1>1, <1>5, AddressIsSound
<1> HIDE DEF l
<1>7. n \in 4 .. Len(b) /\ n \in 3 .. Len(b) /\ n \in 0 .. Len(b) /\ n - 3 = l
  BY <1>2, <1>4, <1>6
<1> HIDE DEF n
<1>8. SubSeq(a, 1, l) = SubSeq(b, 4, n) /\ SubSeq(m, 4, n) = SubSeq(b, 4, n)
  BY <1>2, <1>7, AfterThree DEF a
<1>9. Len(m) = n /\ \A i \in 1 .. n : m[i] = b[i]
  BY <1>2, <1>7, Front
<1> HIDE DEF m
<1>10. IsRequest(m)
  <2>1. 1 \in 1 .. n /\ 2 \in 1 .. n /\ n >= 4
    BY <1>7
  <2>2. Len(m) >= 4 /\ m[1] = 5 /\ m[2] \in 1 .. 3
    BY <1>1, <1>9, <2>1
  <2>3. AddressFits(SubSeq(m, 4, Len(m)))
    BY <1>6, <1>8, <1>9
  <2> QED
    BY <2>2, <2>3 DEF IsRequest
<1>11. Encode(Decode(a)) = SubSeq(b, 4, n)
  BY <1>6, <1>8
<1> QED
  BY <1>1, <1>7, <1>10, <1>11 DEF m, n, l

\* A request is parsed as soon as all of it is there, and until then it is unfinished.
LEMMA RequestIsComplete ==
  ASSUME NEW r \in Bytes, NEW q \in 0 .. Len(r), NEW k \in 0 .. Len(r),
         IsRequest(SubSeq(r, 1, k))
  PROVE  LET result == ParseRequest(SubSeq(r, 1, q))
         IN  IF k <= q THEN result.kind = "ok" /\ 3 + Len(Encode(result.address)) = k
             ELSE result.kind = "truncated" /\ k <= ReadBuf + 1
<1> DEFINE b == SubSeq(r, 1, q)
           m == SubSeq(r, 1, k)
           c == SubSeq(r, 4, Len(r))
           a == SubSeq(b, 4, q)
<1>1. Len(r) \in Nat /\ r \in Seq(Byte) /\ q \in Nat /\ k \in Nat /\ q <= Len(r) /\ k <= Len(r)
  BY ByteSeq
<1>2. Len(m) = k /\ \A i \in 1 .. k : m[i] = r[i]
  BY <1>1, Front
<1>3. b \in Bytes /\ Len(b) = q /\ \A i \in 1 .. q : b[i] = r[i]
  BY <1>1, Front DEF Bytes
<1>4. Len(m) >= 4 /\ m[1] = 5 /\ m[2] \in 1 .. 3 /\ AddressFits(SubSeq(m, 4, k))
  BY <1>2 DEF IsRequest
<1>5. k >= 4 /\ r[1] = 5 /\ r[2] \in 1 .. 3
  <2>1. k >= 4
    BY <1>2, <1>4
  <2>2. 1 \in 1 .. k /\ 2 \in 1 .. k
    BY <1>1, <2>1
  <2> QED
    BY <1>2, <1>4, <2>1, <2>2
<1>6. k \in 3 .. Len(r) /\ k - 3 \in 0 .. Len(r) - 3 /\ k - 3 \in Nat
  BY <1>1, <1>5
<1>7. /\ c \in Bytes /\ Len(c) = Len(r) - 3 /\ SubSeq(m, 4, k) = SubSeq(r, 4, k)
      /\ SubSeq(c, 1, k - 3) = SubSeq(r, 4, k)
  BY <1>1, <1>6, AfterThree DEF Bytes
<1> HIDE DEF c, m
<1>8. AddressFits(SubSeq(c, 1, k - 3)) /\ k - 3 \in 0 .. Len(c)
  BY <1>4, <1>6, <1>7
<1>0. k <= ReadBuf + 1
  <2>1. (k - 3) + 3 <= ReadBuf + 1
    BY <1>7, <1>8, AddressIsShort
  <2> QED
    BY <1>1, <2>1
<1>9. CASE q < 4
  <2>1. ParseRequest(b).kind = "truncated"
    <3>1. b \in Bytes /\ ~ Len(b) >= 4
      BY <1>1, <1>3, <1>9
    <3> HIDE DEF b
    <3> QED
      BY <3>1, RequestResults
  <2>2. ~ k <= q
    BY <1>1, <1>5, <1>9
  <2> QED
    BY <1>0, <2>1, <2>2 DEF b
<1>10. CASE ~ q < 4
  <2>1. q \in 3 .. Len(r) /\ q - 3 \in 1 .. Len(c) /\ q >= 4
    BY <1>1, <1>7, <1>10
  <2>2. a = SubSeq(c, 1, q - 3)
    BY <1>1, <2>1, AfterThree DEF c
  <2> DEFINE address == Decode(a)
  <2>3. IF k - 3 <= q - 3 THEN address.kind = "ok" /\ Len(Encode(address)) = k - 3
        ELSE address.kind = "truncated"
    <3> HIDE DEF a
    <3> QED
      BY <1>7, <1>8, <2>1, <2>2, AddressIsComplete
  <2>4. b[1] = 5 /\ b[2] \in 1 .. 3 /\ Len(b) >= 4 /\ Len(b) = q
    <3>1. 1 \in 1 .. q /\ 2 \in 1 .. q
      BY <2>1
    <3> QED
      BY <1>3, <1>5, <2>1, <3>1
  <2> HIDE DEF b
  <2>5. /\ address.kind # "ok" => ParseRequest(b) = address
        /\ address.kind = "ok" => ParseRequest(b).kind = "ok" /\ ParseRequest(b).address = address
    <3>1. ~ Len(b) < 4
      BY <2>1, <2>4
    <3> QED
      BY <1>3, <2>4, <3>1, RequestResults
  <2> HIDE DEF address
  <2>6. CASE k <= q
    <3>1. address.kind = "ok" /\ Len(Encode(address)) = k - 3
      BY <1>1, <2>3, <2>6
    <3>2. ParseRequest(b).kind = "ok" /\ 3 + Len(Encode(ParseRequest(b).address)) = k
      BY <1>1, <2>5, <3>1
    <3> QED
      BY <2>6, <3>2 DEF b
  <2>7. CASE ~ k <= q
    <3>1. address.kind = "truncated"
      BY <1>1, <2>3, <2>7
    <3>2. ParseRequest(b).kind = "truncated"
      BY <2>5, <3>1
    <3> QED
      BY <1>0, <2>7, <3>2 DEF b
  <2> QED
    BY <2>6, <2>7
<1> QED
  BY <1>9, <1>10

-----------------------------------------------------------------------------
(* The connection.                                                         *)

\* What the client sent and negotiate has not consumed.
Rest == buf \o wire

\* The messages before byte p are a greeting and, if one is required, a login.
Behind(p) ==
  \E i \in 0 .. p : /\ IsGreeting(Cut(0, i))
                    /\ IF Password THEN IsLogin(Cut(i, p)) ELSE i = p

\* Where each step begins: at a byte before which everything is as it should be, and
\* was answered.
Place(p) ==
  CASE step = "greeting" -> p = 0 /\ replies = <<>>
    [] step = "auth"     -> Password /\ IsGreeting(Cut(0, p)) /\ replies = <<MethodReply(2)>>
    [] step = "request"  ->
         /\ Behind(p)
         /\ replies = IF Password THEN <<MethodReply(2), UserpassReply(TRUE)>>
                      ELSE <<MethodReply(0)>>

Parsing == step \in {"greeting", "auth", "request"}

\* While it parses, negotiate is at such a byte, and the buffer and the wire hold
\* everything behind it.
PlaceInv ==
  Parsing => \E p \in 0 .. Len(stream) : Rest = Cut(p, Len(stream)) /\ Place(p)

IInv == NegotiateTypeOK /\ PlaceInv /\ AcceptedIsExact /\ ClosedIsJustified

\* What the client sends is bytes.
LEMMA StreamType == ASSUME NegotiateTypeOK PROVE stream \in Bytes /\ stream \in Seq(Byte) /\ Len(stream) \in Nat
<1>1. method \in DOMAIN Streams /\ stream \in Streams[method]
  BY NegotiateAssumption DEF NegotiateTypeOK
<1>2. stream \in Bytes
  BY <1>1, NegotiateAssumption
<1> QED
  BY <1>2, ByteSeq

\* The buffer is the front of the rest.
LEMMA BufIsFront ==
  ASSUME NegotiateTypeOK
  PROVE  /\ Rest \in Bytes /\ Len(buf) \in 0 .. Len(Rest) /\ buf = SubSeq(Rest, 1, Len(buf))
         /\ wire = <<>> => Len(buf) = Len(Rest)
<1>1. buf \in Seq(Byte) /\ wire \in Seq(Byte) /\ Len(buf) \in Nat /\ Len(wire) \in Nat
  BY ByteSeq DEF NegotiateTypeOK
<1>2. /\ Rest \in Seq(Byte) /\ Len(Rest) = Len(buf) + Len(wire)
      /\ \A i \in 1 .. Len(buf) : Rest[i] = buf[i]
  BY <1>1, Join DEF Rest
<1>3. Len(buf) \in 0 .. Len(Rest)
  BY <1>1, <1>2
<1> DEFINE t == SubSeq(Rest, 1, Len(buf))
<1>4. t \in Seq(Byte) /\ Len(t) = Len(buf) /\ \A i \in 1 .. Len(buf) : t[i] = Rest[i]
  BY <1>2, <1>3, Front
<1> HIDE DEF t
<1>5. t = buf
  BY <1>1, <1>2, <1>4, SeqEqual
<1>6. wire = <<>> => Len(wire) = 0
  BY EmptySeq
<1>7. wire = <<>> => Len(buf) = Len(Rest)
  BY <1>1, <1>2, <1>6
<1> QED
  BY <1>2, <1>3, <1>5, <1>7 DEF t, Bytes

\* Reading moves bytes from the wire to the buffer and leaves the rest as it is.
LEMMA ReadKeepsRest ==
  ASSUME NegotiateTypeOK, ReadMore
  PROVE  Rest' = Rest /\ buf' \in Bytes /\ wire' \in Bytes
<1>1. buf \in Seq(Byte) /\ wire \in Seq(Byte) /\ Len(wire) \in Nat
  BY ByteSeq DEF NegotiateTypeOK
<1>2. PICK n \in 1 .. ReadBuf : /\ n <= Len(wire)
                                /\ buf' = buf \o SubSeq(wire, 1, n)
                                /\ wire' = SubSeq(wire, n + 1, Len(wire))
  BY DEF ReadMore
<1>3. n \in Nat /\ n \in 0 .. Len(wire) /\ Len(wire) \in n .. Len(wire) /\ n + 1 \in Nat
  BY <1>1, <1>2, NegotiateAssumption
<1>4. SubSeq(wire, 1, n) \in Seq(Byte)
  BY <1>1, <1>3, Front
<1>5. SubSeq(wire, n + 1, Len(wire)) \in Seq(Byte)
  BY <1>1, <1>3, Piece
<1>6. SubSeq(wire, 1, n) \o SubSeq(wire, n + 1, Len(wire)) = wire
  <2>1. SubSeq(wire, 1, n) \o SubSeq(wire, n + 1, Len(wire)) = SubSeq(wire, 1, Len(wire))
    BY <1>1, <1>3, FrontGrows
  <2> QED
    BY <1>1, <2>1, SubSeqFull
<1>7. buf' \in Seq(Byte)
  BY <1>1, <1>2, <1>4, Join
<1>8. (buf \o SubSeq(wire, 1, n)) \o SubSeq(wire, n + 1, Len(wire)) = buf \o wire
  <2> DEFINE x == SubSeq(wire, 1, n)
             y == SubSeq(wire, n + 1, Len(wire))
  <2>0. x \o y = wire
    BY <1>6
  <2>1. buf \in Seq(Byte) /\ x \in Seq(Byte) /\ y \in Seq(Byte)
    BY <1>1, <1>4, <1>5
  <2> HIDE DEF x, y
  <2>2. (buf \o x) \o y = buf \o (x \o y)
    BY <2>1, ConcatAssociative
  <2>3. (buf \o x) \o y = buf \o wire
    BY <2>0, <2>2
  <2> QED
    BY <2>3 DEF x, y
<1> QED
  BY <1>2, <1>5, <1>7, <1>8 DEF Rest, Bytes

\* Consuming n bytes of the buffer moves the place by n.
LEMMA DrainMoves ==
  ASSUME NegotiateTypeOK, NEW p \in 0 .. Len(stream), Rest = Cut(p, Len(stream)),
         NEW n \in 0 .. Len(buf), Drain(n), wire' = wire
  PROVE  /\ p + n \in 0 .. Len(stream)
         /\ Rest' = Cut(p + n, Len(stream)) /\ buf' \in Bytes
         /\ SubSeq(buf, 1, n) = Cut(p, p + n)
<1> DEFINE N == Len(stream)
           R == Cut(p, N)
<1>1. buf \in Seq(Byte) /\ wire \in Seq(Byte) /\ Len(buf) \in Nat /\ Len(wire) \in Nat
  BY ByteSeq DEF NegotiateTypeOK
<1>2. stream \in Seq(Byte) /\ N \in Nat
  BY StreamType
<1>3. R \in Seq(Byte) /\ Len(R) = N - p /\ \A i \in 1 .. N - p : R[i] = stream[p + i]
  BY <1>2, Piece DEF Cut
<1> HIDE DEF R
<1>4. R \in Seq(Byte) /\ Len(R) = Len(buf) + Len(wire) /\ buf \o wire = R
  <2>1. Len(buf \o wire) = Len(buf) + Len(wire)
    BY <1>1, Join
  <2> QED
    BY <1>3, <2>1 DEF Rest, R
<1>5. n \in Nat /\ p \in Nat /\ n <= N - p /\ p + n \in 0 .. N
  BY <1>1, <1>2, <1>3, <1>4
<1>6. buf' = SubSeq(buf, n + 1, Len(buf))
  BY DEF Drain
<1> DEFINE x == SubSeq(buf, 1, n)
           y == SubSeq(buf, n + 1, Len(buf))
           u == Cut(p, p + n)
           v == Cut(p + n, N)
<1>7. x \in Seq(Byte) /\ Len(x) = n /\ \A i \in 1 .. n : x[i] = buf[i]
  BY <1>1, Front
<1>8. y \in Seq(Byte) /\ Len(y) = Len(buf) - n /\ \A i \in 1 .. Len(buf) - n : y[i] = buf[n + i]
  BY <1>1, <1>5, Piece
<1>9. u \in Seq(Byte) /\ Len(u) = (p + n) - p /\ \A i \in 1 .. (p + n) - p : u[i] = stream[p + i]
  <2>1. p + n \in p .. Len(stream)
    BY <1>2, <1>5
  <2> QED
    BY <1>2, <1>5, <2>1, Piece DEF Cut
<1>10. /\ v \in Seq(Byte) /\ Len(v) = N - (p + n)
       /\ \A i \in 1 .. N - (p + n) : v[i] = stream[(p + n) + i]
  <2>1. p + n \in Nat /\ N \in p + n .. Len(stream)
    BY <1>2, <1>5
  <2> QED
    BY <1>2, <2>1, Piece DEF Cut
<1> HIDE DEF x, y, u, v
<1>11. \A i \in 1 .. Len(buf) : buf[i] = stream[p + i]
  <2>1. \A i \in 1 .. Len(buf) : (buf \o wire)[i] = buf[i]
    BY <1>1, Join
  <2>2. \A i \in 1 .. Len(buf) : i \in 1 .. N - p
    BY <1>1, <1>2, <1>3, <1>4
  <2> QED
    BY <1>3, <1>4, <2>1, <2>2
<1>12. x = u
  <2>1. ASSUME NEW i \in 1 .. Len(x) PROVE x[i] = u[i]
    <3>1. i \in 1 .. n /\ i \in 1 .. (p + n) - p /\ i \in 1 .. Len(buf)
      BY <1>1, <1>5, <1>7
    <3> QED
      BY <1>7, <1>9, <1>11, <3>1
  <2>2. Len(x) = Len(u)
    BY <1>5, <1>7, <1>9
  <2> QED
    BY <1>7, <1>9, <2>1, <2>2, SeqEqual
<1> DEFINE w == y \o wire
<1>13. /\ w \in Seq(Byte) /\ Len(w) = Len(y) + Len(wire)
       /\ \A i \in 1 .. Len(y) : w[i] = y[i]
       /\ \A i \in 1 .. Len(wire) : w[Len(y) + i] = wire[i]
  <2>1. y \in Seq(Byte) /\ wire \in Seq(Byte)
    BY <1>1, <1>8
  <2> QED
    BY <2>1, Join
<1> HIDE DEF w
<1>14. w = v
  <2>0. /\ Len(y) = Len(buf) - n /\ Len(buf) + Len(wire) = N - p /\ Len(v) = N - (p + n)
        /\ Len(w) = Len(y) + Len(wire) /\ Len(y) \in Nat
    BY <1>3, <1>4, <1>8, <1>10, <1>13, LenProperties
  <2>1. Len(w) = Len(v)
    <3> HIDE DEF N
    <3> QED
      BY <1>1, <1>2, <1>5, <2>0
  <2>2. ASSUME NEW i \in 1 .. Len(w) PROVE w[i] = v[i]
    <3>1. i \in 1 .. N - (p + n) /\ v[i] = stream[(p + n) + i]
      BY <1>10, <2>1
    <3>2. CASE i \in 1 .. Len(y)
      <4>1. i \in 1 .. Len(buf) - n /\ n + i \in 1 .. Len(buf) /\ p + (n + i) = (p + n) + i
        BY <1>1, <1>5, <1>8, <3>2
      <4> QED
        BY <1>8, <1>11, <1>13, <3>1, <3>2, <4>1
    <3>3. CASE ~ i \in 1 .. Len(y)
      <4> DEFINE j == i - Len(y)
      <4>1. j \in 1 .. Len(wire) /\ Len(y) + j = i
        BY <1>1, <2>0, <3>3
      <4>2. w[i] = wire[j]
        BY <1>13, <4>1
      <4>3. R[Len(buf) + j] = wire[j]
        <5> HIDE DEF j
        <5>1. \A k \in 1 .. Len(wire) : (buf \o wire)[Len(buf) + k] = wire[k]
          BY <1>1, Join
        <5> QED
          BY <1>4, <4>1, <5>1
      <4>4. Len(buf) + j \in 1 .. N - p /\ p + (Len(buf) + j) = (p + n) + i
        <5> HIDE DEF N
        <5> QED
          BY <1>1, <1>2, <1>5, <2>0, <4>1
      <4>5. R[Len(buf) + j] = stream[p + (Len(buf) + j)]
        BY <1>3, <4>4
      <4> QED
        BY <3>1, <4>2, <4>3, <4>4, <4>5
    <3> QED
      BY <3>2, <3>3
  <2> QED
    BY <1>10, <1>13, <2>1, <2>2, SeqEqual
<1>15. Rest' = w /\ buf' = y
  BY <1>6 DEF Rest, w, y
<1> QED
  BY <1>5, <1>8, <1>12, <1>14, <1>15 DEF x, u, v, Bytes

\* What depends on nothing but the client and the configuration stays as it is.
LEMMA InputsFixed ==
  ASSUME UNCHANGED clientInput, NEW p
  PROVE  /\ Password' <=> Password
         /\ IsGreeting(Cut(0, p))' <=> IsGreeting(Cut(0, p))
         /\ Behind(p)' <=> Behind(p)
<1>1. method' = method /\ stream' = stream
  BY DEF clientInput
<1>2. Password' <=> Password
  BY <1>1 DEF Password
<1>3. IsGreeting(Cut(0, p))' <=> IsGreeting(Cut(0, p))
  BY <1>1 DEF IsGreeting, Cut, Wanted, Password
<1>4. Behind(p)' <=> Behind(p)
  BY <1>1 DEF Behind, IsGreeting, IsLogin, Cut, Wanted, Password
<1> QED
  BY <1>2, <1>3, <1>4

\* The stream is one negotiate should accept.
Acceptable == Splits(LAMBDA j, k : TRUE)

LEMMA AcceptableFixed == ASSUME UNCHANGED clientInput PROVE Acceptable' <=> Acceptable
<1>1. method' = method /\ stream' = stream
  BY DEF clientInput
<1> QED
  BY <1>1 DEF Acceptable, Splits, IsGreeting, IsLogin, IsRequest, Cut, Wanted, Password

\* A message in the stream, seen from the place of the parser.
LEMMA CutOfRest ==
  ASSUME NegotiateTypeOK, NEW p \in 0 .. Len(stream), Rest = Cut(p, Len(stream)),
         NEW k \in p .. Len(stream)
  PROVE  k - p \in 0 .. Len(Rest) /\ Cut(p, k) = SubSeq(Rest, 1, k - p)
<1>1. stream \in Seq(Byte) /\ Len(stream) \in Nat
  BY StreamType
<1>2. /\ p \in Nat /\ Len(stream) \in p .. Len(stream) /\ 0 \in Nat /\ k - p \in 0 .. Len(stream) - p
      /\ 0 + 1 = 1 /\ (p + 0) + 1 = p + 1 /\ p + (k - p) = k
  BY <1>1
<1>3. Len(Rest) = Len(stream) - p
  BY <1>1, <1>2, Piece DEF Cut
<1>4. SubSeq(SubSeq(stream, p + 1, Len(stream)), 0 + 1, k - p) = SubSeq(stream, (p + 0) + 1, p + (k - p))
  BY <1>1, <1>2, PieceOfPiece
<1> QED
  BY <1>2, <1>3, <1>4 DEF Cut

\* A stream begins with at most one greeting, and at most one login stands at a byte.
LEMMA GreetingIsUnique ==
  ASSUME NegotiateTypeOK, NEW i \in 0 .. Len(stream), NEW j \in 0 .. Len(stream),
         IsGreeting(Cut(0, i)), IsGreeting(Cut(0, j))
  PROVE  i = j
<1>1. stream \in Bytes /\ Len(stream) \in Nat /\ Len(stream) \in 0 .. Len(stream)
  BY StreamType
<1>2. IsGreeting(SubSeq(stream, 1, i)) /\ IsGreeting(SubSeq(stream, 1, j))
  BY DEF Cut
<1> DEFINE n == 2 + Len(ParseGreeting(SubSeq(stream, 1, Len(stream))).methods)
<1>3. n = i
  BY <1>1, <1>2, GreetingIsComplete
<1>4. n = j
  BY <1>1, <1>2, GreetingIsComplete
<1> QED
  BY <1>3, <1>4

LEMMA LoginIsUnique ==
  ASSUME NegotiateTypeOK, NEW i \in 0 .. Len(stream), NEW j \in i .. Len(stream), NEW k \in i .. Len(stream),
         IsLogin(Cut(i, j)), IsLogin(Cut(i, k))
  PROVE  j = k
<1> DEFINE r == Cut(i, Len(stream))
<1>1. stream \in Seq(Byte) /\ Len(stream) \in Nat
  BY StreamType
<1>2. /\ i \in Nat /\ j \in Nat /\ k \in Nat /\ Len(stream) \in i .. Len(stream)
      /\ j - i \in 0 .. Len(stream) - i /\ k - i \in 0 .. Len(stream) - i
      /\ Len(stream) - i \in 0 .. Len(stream) - i /\ 0 \in Nat
      /\ 0 + 1 = 1 /\ (i + 0) + 1 = i + 1 /\ i + (j - i) = j /\ i + (k - i) = k
  BY <1>1
<1>3. r \in Bytes /\ Len(r) = Len(stream) - i
  BY <1>1, <1>2, Piece DEF Cut, Bytes
<1>4. SubSeq(r, 0 + 1, j - i) = Cut(i, j)
  <2>1. SubSeq(r, 0 + 1, j - i) = SubSeq(stream, (i + 0) + 1, i + (j - i))
    BY <1>1, <1>2, PieceOfPiece DEF Cut
  <2> QED
    BY <1>2, <2>1 DEF Cut
<1>5. SubSeq(r, 0 + 1, k - i) = Cut(i, k)
  <2>1. SubSeq(r, 0 + 1, k - i) = SubSeq(stream, (i + 0) + 1, i + (k - i))
    BY <1>1, <1>2, PieceOfPiece DEF Cut
  <2> QED
    BY <1>2, <2>1 DEF Cut
<1> HIDE DEF r
<1>6. IsLogin(SubSeq(r, 1, j - i)) /\ IsLogin(SubSeq(r, 1, k - i))
  BY <1>2, <1>4, <1>5
<1>7. j - i \in 0 .. Len(r) /\ k - i \in 0 .. Len(r) /\ Len(r) \in 0 .. Len(r) /\ Len(r) \in Nat
  BY <1>2, <1>3
<1> DEFINE result == ParseUserpass(SubSeq(r, 1, Len(r)))
           n == 2 + Len(result.user) + 1 + Len(result.pass)
<1>8. ASSUME NEW e \in 0 .. Len(r), IsLogin(SubSeq(r, 1, e)) PROVE n = e
  <2>1. e <= Len(r) /\ Len(r) \in 0 .. Len(r) /\ r \in Bytes
    BY <1>3, <1>7
  <2> QED
    BY <1>8, <2>1, LoginIsComplete
<1> HIDE DEF n
<1>9. n = j - i /\ n = k - i
  BY <1>6, <1>7, <1>8
<1> QED
  BY <1>2, <1>8, <1>9

\* The current message, and what negotiate requires of it once it is parsed.
Message(m) ==
  CASE step = "greeting" -> IsGreeting(m)
    [] step = "auth"     -> IsLogin(m)
    [] step = "request"  -> IsRequest(m)

Accepts ==
  CASE step = "greeting" -> \E i \in DOMAIN Parsed.methods : Parsed.methods[i] = Wanted
    [] step = "auth"     -> <<Parsed.user, Parsed.pass>> \in Users
    [] step = "request"  -> TRUE

\* The reasons negotiate has for closing a connection.
Fails ==
  \/ Parsed.kind = "truncated" /\ (Len(buf) > ReadBuf \/ wire = <<>>)
  \/ Parsed.kind \notin {"ok", "truncated"}
  \/ Parsed.kind = "ok" /\ ~ Accepts

\* When there is a reason, the message is not there: neither a chunk that ends too early
\* nor the READ_BUF guard is one.
LEMMA FailsWithoutMessage ==
  ASSUME NegotiateTypeOK, Parsing, Fails, NEW k \in 0 .. Len(Rest)
  PROVE  ~ Message(SubSeq(Rest, 1, k))
<1> DEFINE r == Rest
           q == Len(buf)
<1>1. r \in Bytes /\ q \in 0 .. Len(r) /\ buf = SubSeq(r, 1, q) /\ (wire = <<>> => q = Len(r))
  BY BufIsFront
<1>2. Len(r) \in Nat /\ ReadBuf \in Nat /\ k \in 0 .. Len(r)
  BY <1>1, ByteSeq, NegotiateAssumption
<1> SUFFICES ASSUME Message(SubSeq(r, 1, k)) PROVE FALSE
  OBVIOUS
<1>3. IF k <= q THEN Parsed.kind = "ok" /\ Accepts
      ELSE Parsed.kind = "truncated" /\ k <= ReadBuf + 1
  <2>1. CASE step = "greeting"
    <3>1. Parsed = ParseGreeting(SubSeq(r, 1, q)) /\ IsGreeting(SubSeq(r, 1, k))
      BY <1>1, <2>1 DEF Parsed, Message
    <3>2. Accepts <=> \E i \in DOMAIN Parsed.methods : Parsed.methods[i] = Wanted
      BY <2>1 DEF Accepts
    <3> HIDE DEF r, q
    <3> QED
      BY <1>1, <1>2, <3>1, <3>2, GreetingIsComplete
  <2>2. CASE step = "auth"
    <3>1. Parsed = ParseUserpass(SubSeq(r, 1, q)) /\ IsLogin(SubSeq(r, 1, k))
      BY <1>1, <2>2 DEF Parsed, Message
    <3>2. Accepts <=> <<Parsed.user, Parsed.pass>> \in Users
      BY <2>2 DEF Accepts
    <3> HIDE DEF r, q
    <3> QED
      BY <1>1, <1>2, <3>1, <3>2, LoginIsComplete
  <2>3. CASE step = "request"
    <3>1. Parsed = ParseRequest(SubSeq(r, 1, q)) /\ IsRequest(SubSeq(r, 1, k))
      BY <1>1, <2>3 DEF Parsed, Message
    <3>2. Accepts
      BY <2>3 DEF Accepts
    <3> HIDE DEF r, q
    <3> QED
      BY <1>1, <1>2, <3>1, <3>2, RequestIsComplete
  <2> QED
    BY <2>1, <2>2, <2>3 DEF Parsing
<1> HIDE DEF r
<1>4. CASE k <= q
  BY <1>3, <1>4 DEF Fails
<1>5. CASE ~ k <= q
  <2>1. Parsed.kind = "truncated" /\ k <= ReadBuf + 1
    BY <1>3, <1>5
  <2>2. Len(buf) > ReadBuf \/ wire = <<>>
    BY <2>1 DEF Fails
  <2>3. ~ Len(buf) > ReadBuf
    BY <1>1, <1>2, <1>5, <2>1
  <2>4. q = Len(r)
    BY <1>1, <2>2, <2>3
  <2> QED
    BY <1>2, <1>5, <2>4 DEF r
<1> QED
  BY <1>4, <1>5

\* And then the stream is not acceptable.
LEMMA FailsUnacceptable ==
  ASSUME NegotiateTypeOK, PlaceInv, Parsing, Fails
  PROVE  ~ Acceptable
<1> SUFFICES ASSUME Acceptable PROVE FALSE
  OBVIOUS
<1>1. PICK p \in 0 .. Len(stream) : Rest = Cut(p, Len(stream)) /\ Place(p)
  BY DEF PlaceInv
<1>2. PICK i \in 0 .. Len(stream) :
        /\ IsGreeting(Cut(0, i))
        /\ \E j \in i .. IF Password THEN Len(stream) ELSE i :
             /\ Password => IsLogin(Cut(i, j))
             /\ \E k \in j .. Len(stream) : IsRequest(Cut(j, k))
  BY DEF Acceptable, Splits
<1>3. PICK j \in i .. IF Password THEN Len(stream) ELSE i :
        /\ Password => IsLogin(Cut(i, j))
        /\ \E k \in j .. Len(stream) : IsRequest(Cut(j, k))
  BY <1>2
<1>4. PICK k \in j .. Len(stream) : IsRequest(Cut(j, k))
  BY <1>3
<1>5. Len(stream) \in Nat /\ j \in i .. Len(stream) /\ j \in 0 .. Len(stream)
  BY StreamType
<1>6. ASSUME NEW e \in p .. Len(stream) PROVE ~ Message(Cut(p, e))
  BY <1>1, CutOfRest, FailsWithoutMessage
<1>7. CASE step = "greeting"
  <2>1. p = 0 /\ i \in p .. Len(stream)
    BY <1>1, <1>7 DEF Place
  <2>2. Message(Cut(p, i))
    BY <1>2, <1>7, <2>1 DEF Message
  <2> QED
    BY <1>6, <2>1, <2>2
<1>8. CASE step = "auth"
  <2>1. Password /\ IsGreeting(Cut(0, p))
    BY <1>1, <1>8 DEF Place
  <2>2. i = p
    BY <1>1, <1>2, <2>1, GreetingIsUnique
  <2>3. Message(Cut(p, j)) /\ j \in p .. Len(stream)
    BY <1>3, <1>5, <1>8, <2>1, <2>2 DEF Message
  <2> QED
    BY <1>6, <2>3
<1>9. CASE step = "request"
  <2>1. Behind(p)
    BY <1>1, <1>9 DEF Place
  <2>2. PICK h \in 0 .. p : IsGreeting(Cut(0, h)) /\ IF Password THEN IsLogin(Cut(h, p)) ELSE h = p
    BY <2>1 DEF Behind
  <2>3. h \in 0 .. Len(stream) /\ p \in h .. Len(stream)
    BY <1>5
  <2>4. i = h
    BY <1>2, <2>2, <2>3, GreetingIsUnique
  <2>5. j = p
    <3>1. CASE Password
      BY <1>3, <1>5, <2>2, <2>3, <2>4, <3>1, LoginIsUnique
    <3>2. CASE ~ Password
      BY <2>2, <2>4, <3>2
    <3> QED
      BY <3>1, <3>2
  <2>6. Message(Cut(p, k)) /\ k \in p .. Len(stream)
    BY <1>4, <1>9, <2>5 DEF Message
  <2> QED
    BY <1>6, <2>6
<1> QED
  BY <1>7, <1>8, <1>9 DEF Parsing

-----------------------------------------------------------------------------
(* The inductive invariant.                                                *)

\* Whoever takes a step but to read or to abandon does so while negotiate parses.
LEMMA ParsedWhileParsing ==
  ASSUME NegotiateTypeOK, Parsed.kind \in {"ok", "truncated"}
  PROVE  Parsing
<1>1. CASE ~ Parsing
  <2>1. Parsed = Malformed("over")
    BY <1>1 DEF Parsed, Parsing
  <2>2. Parsed.kind = "over"
    BY <2>1 DEF Malformed
  <2> QED
    BY <2>2
<1> QED
  BY <1>1

\* There is always room for one more reply, and it is the last.
LEMMA OneMoreReply ==
  ASSUME PlaceInv, Parsing, NEW msg
  PROVE  Len(replies) <= 2 /\ Len(Append(replies, msg)) <= 3
<1>1. \/ replies = <<>>
      \/ \E x : replies = <<x>>
      \/ \E x, y : replies = <<x, y>>
  BY DEF PlaceInv, Parsing, Place
<1>2. CASE replies = <<>>
  BY <1>2
<1>3. ASSUME NEW x, replies = <<x>> PROVE Len(replies) <= 2 /\ Len(Append(replies, msg)) <= 3
  BY <1>3
<1>4. ASSUME NEW x, NEW y, replies = <<x, y>> PROVE Len(replies) <= 2 /\ Len(Append(replies, msg)) <= 3
  BY <1>4
<1> QED
  BY <1>1, <1>2, <1>3, <1>4

\* A connection that is closed for one of the reasons is closed rightly.
LEMMA ClosingIsJustified ==
  ASSUME IInv, Parsing, Fails, step' = "closed", buf' \in Bytes, wire' \in Bytes,
         UNCHANGED <<request, clientInput>>, Len(replies') <= 3
  PROVE  IInv'
<1>1. ~ Acceptable
  BY FailsUnacceptable DEF IInv
<1>2. ~ Acceptable'
  BY <1>1, AcceptableFixed
<1>3. ClosedIsJustified'
  BY <1>2 DEF ClosedIsJustified, Acceptable
<1>4. NegotiateTypeOK'
  <2>1. request = NoRequest
    BY DEF IInv, NegotiateTypeOK, Parsing
  <2> QED
    BY <2>1 DEF IInv, NegotiateTypeOK, clientInput, NoRequest
<1> QED
  BY <1>3, <1>4 DEF IInv, PlaceInv, Parsing, AcceptedIsExact

\* Initially everything is still on the wire.
LEMMA InitEstablishes == ASSUME NegotiateInit PROVE IInv
<1>1. NegotiateTypeOK
  <2>1. stream \in Bytes
    BY NegotiateAssumption DEF NegotiateInit
  <2>2. <<>> \in Seq(Byte)
    BY EmptySeq
  <2>3. Len(<<>>) = 0
    OBVIOUS
  <2> QED
    BY <2>1, <2>2, <2>3 DEF NegotiateInit, NegotiateTypeOK, Bytes
<1>2. stream \in Seq(Byte) /\ Len(stream) \in Nat
  BY <1>1, StreamType
<1>3. Rest = Cut(0, Len(stream))
  <2>1. <<>> \o stream = stream
    BY <1>2, ConcatEmptySeq
  <2>2. SubSeq(stream, 1, Len(stream)) = stream
    BY <1>2, SubSeqFull
  <2>3. 0 + 1 = 1
    OBVIOUS
  <2> QED
    BY <2>1, <2>2, <2>3, Zenon DEF NegotiateInit, Rest, Cut
<1>4. Place(0)
  BY DEF NegotiateInit, Place
<1>5. 0 \in 0 .. Len(stream)
  BY <1>2
<1> QED
  BY <1>1, <1>3, <1>4, <1>5 DEF NegotiateInit, IInv, PlaceInv, AcceptedIsExact, ClosedIsJustified

\* Reading keeps the place.
LEMMA ReadPreserves == ASSUME IInv, ReadMore PROVE IInv'
<1>1. Rest' = Rest /\ buf' \in Bytes /\ wire' \in Bytes
  BY ReadKeepsRest DEF IInv
<1>2. step' = step /\ replies' = replies /\ request' = request /\ UNCHANGED clientInput
  BY DEF ReadMore
<1>3. Parsing
  BY ParsedWhileParsing DEF IInv, ReadMore
<1>4. NegotiateTypeOK'
  BY <1>1, <1>2 DEF IInv, NegotiateTypeOK, clientInput, NoRequest
<1>5. PICK p \in 0 .. Len(stream) : Rest = Cut(p, Len(stream)) /\ Place(p)
  BY <1>3 DEF IInv, PlaceInv
<1>6. stream' = stream
  BY <1>2 DEF clientInput
<1>7. Rest' = Cut(p, Len(stream))'
  BY <1>1, <1>5, <1>6 DEF Cut
<1>8. /\ Password' <=> Password
      /\ IsGreeting(Cut(0, p))' <=> IsGreeting(Cut(0, p))
      /\ Behind(p)' <=> Behind(p)
  BY <1>2, InputsFixed
<1>9. Place(p)'
  <2>1. CASE step = "greeting"
    BY <1>2, <1>5, <2>1 DEF Place
  <2>2. CASE step = "auth"
    BY <1>2, <1>5, <1>8, <2>2 DEF Place
  <2>3. CASE step = "request"
    BY <1>2, <1>5, <1>8, <2>3 DEF Place
  <2> QED
    BY <1>3, <2>1, <2>2, <2>3 DEF Parsing
<1>10. PlaceInv'
  BY <1>5, <1>6, <1>7, <1>9 DEF PlaceInv
<1> QED
  BY <1>2, <1>3, <1>4, <1>10 DEF IInv, Parsing, AcceptedIsExact, ClosedIsJustified

\* A message that was accepted and answered leaves negotiate at the byte behind it.
LEMMA AdvancePreserves ==
  ASSUME IInv, Parsing, step' \in {"auth", "request"}, UNCHANGED <<request, clientInput>>,
         wire' \in Bytes, buf' \in Bytes, NEW p \in 0 .. Len(stream), Rest' = Cut(p, Len(stream)),
         step' = "auth" => /\ Password /\ IsGreeting(Cut(0, p))
                           /\ replies' = <<MethodReply(2)>>,
         step' = "request" => /\ Behind(p)
                              /\ replies' = IF Password
                                              THEN <<MethodReply(2), UserpassReply(TRUE)>>
                                              ELSE <<MethodReply(0)>>
  PROVE  IInv'
<1>1. stream' = stream /\ method' = method /\ request' = request /\ UNCHANGED clientInput
  BY DEF clientInput
<1>2. /\ Password' <=> Password
      /\ IsGreeting(Cut(0, p))' <=> IsGreeting(Cut(0, p))
      /\ Behind(p)' <=> Behind(p)
  BY <1>1, InputsFixed
<1>3. Place(p)'
  <2>1. CASE step' = "auth"
    BY <1>2, <2>1 DEF Place
  <2>2. CASE step' = "request"
    BY <1>2, <2>2 DEF Place
  <2> QED
    BY <2>1, <2>2
<1>4. Rest' = Cut(p, Len(stream))'
  BY <1>1 DEF Cut
<1>5. PlaceInv'
  BY <1>1, <1>3, <1>4 DEF PlaceInv
<1>6. NegotiateTypeOK'
  <2>1. Len(replies') <= 3
    <3>1. (\E x : replies' = <<x>>) \/ (\E x, y : replies' = <<x, y>>)
      OBVIOUS
    <3>2. ASSUME NEW x, replies' = <<x>> PROVE Len(replies') <= 3
      BY <3>2
    <3>3. ASSUME NEW x, NEW y, replies' = <<x, y>> PROVE Len(replies') <= 3
      BY <3>3
    <3> QED
      BY <3>1, <3>2, <3>3
  <2>2. request = NoRequest
    BY DEF IInv, NegotiateTypeOK, Parsing
  <2> QED
    BY <1>1, <2>1, <2>2 DEF IInv, NegotiateTypeOK, NoRequest
<1> QED
  BY <1>5, <1>6 DEF IInv, AcceptedIsExact, ClosedIsJustified

\* A greeting is consumed whole: the login or the request begins behind it.
LEMMA SelectPreserves == ASSUME IInv, SelectMethod PROVE IInv'
<1> DEFINE n == 2 + Len(Parsed.methods)
           offered == \E i \in DOMAIN Parsed.methods : Parsed.methods[i] = Wanted
<1>1. /\ step = "greeting" /\ Parsed.kind = "ok" /\ Parsed = ParseGreeting(buf) /\ Drain(n)
      /\ wire' = wire /\ UNCHANGED <<request, clientInput>>
      /\ IF offered
           THEN /\ replies' = Append(replies, MethodReply(Wanted))
                /\ step' = IF Password THEN "auth" ELSE "request"
           ELSE /\ replies' = Append(replies, MethodReply(255))
                /\ step' = "closed"
  BY DEF SelectMethod, Parsed, Goto, Say
<1>2. NegotiateTypeOK /\ Parsing /\ buf \in Bytes /\ wire \in Bytes /\ PlaceInv
  BY <1>1 DEF IInv, NegotiateTypeOK, Parsing
<1>3. n \in 0 .. Len(buf) /\ (offered => IsGreeting(SubSeq(buf, 1, n)))
  BY <1>1, <1>2, GreetingIsSound
<1>4. 0 \in 0 .. Len(stream) /\ Rest = Cut(0, Len(stream)) /\ replies = <<>>
  <2>1. PICK p \in 0 .. Len(stream) : Rest = Cut(p, Len(stream)) /\ Place(p)
    BY <1>2 DEF PlaceInv
  <2>2. p = 0 /\ replies = <<>>
    BY <1>1, <2>1 DEF Place
  <2> QED
    BY <2>1, <2>2
<1> HIDE DEF n, offered
<1>5. PICK c \in 0 .. Len(buf) : c = n
  BY <1>3
<1>6. c \in Nat /\ 0 + c = c
  BY <1>2, <1>5, ByteSeq
<1>7. /\ c \in 0 .. Len(stream) /\ Rest' = Cut(c, Len(stream)) /\ buf' \in Bytes
      /\ SubSeq(buf, 1, c) = Cut(0, c)
  <2>1. Drain(c)
    BY <1>1, <1>5
  <2>2. /\ 0 + c \in 0 .. Len(stream) /\ Rest' = Cut(0 + c, Len(stream)) /\ buf' \in Bytes
        /\ SubSeq(buf, 1, c) = Cut(0, 0 + c)
    BY <1>1, <1>2, <1>4, <2>1, DrainMoves
  <2> QED
    BY <1>6, <2>2
<1>8. CASE ~ offered
  <2>1. Fails
    BY <1>1, <1>8 DEF Fails, Accepts, offered
  <2>2. Len(replies') <= 3 /\ step' = "closed"
    BY <1>1, <1>2, <1>8, OneMoreReply
  <2> QED
    BY <1>1, <1>2, <1>7, <2>1, <2>2, ClosingIsJustified
<1>9. CASE offered
  <2>1. IsGreeting(Cut(0, c))
    BY <1>3, <1>5, <1>7, <1>9
  <2>2. replies' = <<MethodReply(Wanted)>> /\ step' = IF Password THEN "auth" ELSE "request"
    <3>1. Append(<<>>, MethodReply(Wanted)) = <<MethodReply(Wanted)>>
      OBVIOUS
    <3> QED
      BY <1>1, <1>4, <1>9, <3>1
  <2>3. ~ Password => Behind(c)
    BY <1>6, <2>1 DEF Behind
  <2>4. Wanted = IF Password THEN 2 ELSE 0
    BY DEF Wanted
  <2>5. /\ step' \in {"auth", "request"}
        /\ step' = "auth" => Password /\ replies' = <<MethodReply(2)>>
        /\ step' = "request" => ~ Password /\ replies' = <<MethodReply(0)>>
    BY <2>2, <2>4
  <2> QED
    BY <1>1, <1>2, <1>7, <2>1, <2>3, <2>5, AdvancePreserves
<1> QED
  BY <1>8, <1>9

\* The reply to the login follows the one to the greeting.
LEMMA SecondReply == ASSUME NEW x, NEW y PROVE Append(<<x>>, y) = <<x, y>>
<1> DEFINE S == {x, y}
           s == <<x>>
           t == Append(s, y)
           u == <<x, y>>
<1>1. s \in Seq(S) /\ Len(s) = 1 /\ s[1] = x /\ y \in S
  OBVIOUS
<1>2. u \in Seq(S) /\ Len(u) = 2 /\ u[1] = x /\ u[2] = y
  OBVIOUS
<1> HIDE DEF S, s, u
<1>3. t \in Seq(S) /\ Len(t) = 2 /\ t[1] = x /\ t[2] = y
  <2>0. t = Append(s, y) /\ s \in Seq(S) /\ y \in S
    BY <1>1
  <2> HIDE DEF t
  <2>1. /\ t \in Seq(S) /\ Len(t) = Len(s) + 1 /\ t[Len(s) + 1] = y
        /\ \A i \in 1 .. Len(s) : t[i] = s[i]
    BY <2>0
  <2>2. 1 \in 1 .. Len(s) /\ Len(s) + 1 = 2
    BY <1>1
  <2> QED
    BY <1>1, <2>1, <2>2
<1> HIDE DEF t
<1>4. \A i \in 1 .. Len(t) : t[i] = u[i]
  BY <1>2, <1>3
<1>5. t = u
  BY <1>2, <1>3, <1>4, SeqEqual
<1> QED
  BY <1>5 DEF t, s, u

\* A login is consumed whole: the request begins behind it.
LEMMA AuthenticatePreserves == ASSUME IInv, Authenticate PROVE IInv'
<1> DEFINE n == 2 + Len(Parsed.user) + 1 + Len(Parsed.pass)
           known == <<Parsed.user, Parsed.pass>> \in Users
<1>0. step = "auth" /\ Parsed.kind = "ok" /\ Parsed = ParseUserpass(buf) /\ buf \in Bytes
  BY DEF Authenticate, Parsed, IInv, NegotiateTypeOK
<1>10. VerifyCredentials(Parsed.user, Parsed.pass) <=> known
  BY <1>0, ParsedStrings, CredentialsMatch
<1>1. /\ step = "auth" /\ Parsed.kind = "ok" /\ Parsed = ParseUserpass(buf) /\ Drain(n)
      /\ wire' = wire /\ UNCHANGED <<request, clientInput>>
      /\ IF known
           THEN replies' = Append(replies, UserpassReply(TRUE)) /\ step' = "request"
           ELSE replies' = Append(replies, UserpassReply(FALSE)) /\ step' = "closed"
  BY <1>0, <1>10 DEF Authenticate, Goto, Say
<1>2. NegotiateTypeOK /\ Parsing /\ buf \in Bytes /\ wire \in Bytes /\ PlaceInv
  BY <1>1 DEF IInv, NegotiateTypeOK, Parsing
<1>3. n \in 0 .. Len(buf) /\ (known => IsLogin(SubSeq(buf, 1, n)))
  BY <1>1, <1>2, LoginIsSound
<1>4. PICK p \in 0 .. Len(stream) : Rest = Cut(p, Len(stream)) /\ Place(p)
  BY <1>2 DEF PlaceInv
<1>5. Password /\ IsGreeting(Cut(0, p)) /\ replies = <<MethodReply(2)>>
  BY <1>1, <1>4 DEF Place
<1> HIDE DEF n, known
<1>6. PICK c \in 0 .. Len(buf) : c = n
  BY <1>3
<1>7. /\ p + c \in 0 .. Len(stream) /\ Rest' = Cut(p + c, Len(stream)) /\ buf' \in Bytes
      /\ SubSeq(buf, 1, c) = Cut(p, p + c)
  <2>1. Drain(c)
    BY <1>1, <1>6
  <2> QED
    BY <1>1, <1>2, <1>4, <2>1, DrainMoves
<1>8. CASE ~ known
  <2>1. Fails
    BY <1>1, <1>8 DEF Fails, Accepts, known
  <2>2. Len(replies') <= 3 /\ step' = "closed"
    BY <1>1, <1>2, <1>8, OneMoreReply
  <2> QED
    BY <1>1, <1>2, <1>7, <2>1, <2>2, ClosingIsJustified
<1>9. CASE known
  <2>1. IsLogin(Cut(p, p + c))
    BY <1>3, <1>6, <1>7, <1>9
  <2>2. Behind(p + c)
    <3>1. p \in 0 .. p + c
      BY <1>2, ByteSeq, StreamType
    <3> QED
      BY <1>5, <2>1, <3>1 DEF Behind
  <2>3. step' = "request" /\ replies' = <<MethodReply(2), UserpassReply(TRUE)>>
    <3>1. Append(<<MethodReply(2)>>, UserpassReply(TRUE)) = <<MethodReply(2), UserpassReply(TRUE)>>
      BY SecondReply
    <3> QED
      BY <1>1, <1>5, <1>9, <3>1, Zenon
  <2>4. PICK d \in 0 .. Len(stream) : d = p + c
    BY <1>7
  <2> QED
    BY <1>1, <1>2, <1>5, <1>7, <2>2, <2>3, <2>4, AdvancePreserves
<1> QED
  BY <1>8, <1>9

\* A request is consumed whole, and returned: the rest is the relay's.
LEMMA AcceptPreserves == ASSUME IInv, AcceptRequest PROVE IInv'
<1> DEFINE n == 3 + Len(Encode(Parsed.address))
<1>1. /\ step = "request" /\ Parsed.kind = "ok" /\ Parsed = ParseRequest(buf) /\ Drain(n)
      /\ request' = [command |-> Parsed.command, address |-> Parsed.address]
      /\ wire' = wire /\ replies' = replies /\ step' = "accepted" /\ UNCHANGED clientInput
  BY DEF AcceptRequest, Parsed, Goto
<1>2. NegotiateTypeOK /\ Parsing /\ buf \in Bytes /\ wire \in Bytes /\ PlaceInv /\ Len(stream) \in Nat
  BY <1>1, StreamType DEF IInv, NegotiateTypeOK, Parsing
<1>3. /\ n \in 4 .. Len(buf) /\ IsRequest(SubSeq(buf, 1, n))
      /\ Parsed.command = Commands[buf[2]]
      /\ Encode(Parsed.address) = SubSeq(buf, 4, n)
  BY <1>1, <1>2, RequestIsSound
<1>4. PICK p \in 0 .. Len(stream) : Rest = Cut(p, Len(stream)) /\ Place(p)
  BY <1>2 DEF PlaceInv
<1>5. /\ Behind(p)
      /\ replies = IF Password THEN <<MethodReply(2), UserpassReply(TRUE)>>
                   ELSE <<MethodReply(0)>>
  BY <1>1, <1>4 DEF Place
<1> HIDE DEF n
<1>6. PICK c \in 4 .. Len(buf) : c = n
  BY <1>3
<1> DEFINE k == p + c
<1>7. /\ k \in 0 .. Len(stream) /\ Rest' = Cut(k, Len(stream)) /\ buf' \in Bytes
      /\ SubSeq(buf, 1, c) = Cut(p, k)
  <2>1. Drain(c) /\ c \in 0 .. Len(buf)
    BY <1>1, <1>2, <1>6, ByteSeq
  <2> QED
    BY <1>1, <1>2, <1>4, <2>1, DrainMoves
<1>8. p \in Nat /\ c \in Nat /\ c >= 4 /\ k \in p .. Len(stream) /\ k >= p + 4
  BY <1>2, <1>6, <1>7, ByteSeq
<1>9. buf[2] = stream[p + 2] /\ SubSeq(buf, 4, c) = Cut(p + 3, k)
  <2>1. buf \in Seq(Byte) /\ stream \in Seq(Byte) /\ Len(buf) \in Nat
    BY <1>2, ByteSeq, StreamType
  <2> DEFINE m == SubSeq(buf, 1, c)
  <2>2. m[2] = buf[2]
    <3>1. c \in 0 .. Len(buf) /\ 2 \in 1 .. c
      BY <1>6, <1>8, <2>1
    <3> QED
      BY <2>1, <3>1, Front
  <2>3. m[2] = stream[p + 2]
    <3>1. 2 \in 1 .. k - p
      BY <1>8
    <3>2. \A i \in 1 .. k - p : SubSeq(stream, p + 1, k)[i] = stream[p + i]
      BY <1>8, <2>1, Piece
    <3> QED
      BY <1>7, <3>1, <3>2 DEF Cut
  <2>4. SubSeq(m, 4, c) = SubSeq(buf, 4, c)
    <3>1. c \in 3 .. Len(buf)
      BY <1>6, <1>8, <2>1
    <3> QED
      BY <2>1, <3>1, AfterThree
  <2>5. SubSeq(m, 4, c) = Cut(p + 3, k)
    <3>1. 3 \in Nat /\ c \in 3 .. k - p /\ 3 + 1 = 4 /\ p + c = k
      BY <1>8
    <3> HIDE DEF k
    <3>2. SubSeq(SubSeq(stream, p + 1, k), 3 + 1, c) = SubSeq(stream, (p + 3) + 1, p + c)
      BY <1>8, <2>1, <3>1, PieceOfPiece
    <3>3. m = SubSeq(stream, p + 1, k)
      BY <1>7 DEF Cut
    <3> HIDE DEF m
    <3> QED
      BY <3>1, <3>2, <3>3, Zenon DEF Cut
  <2> QED
    BY <2>2, <2>3, <2>4, <2>5
<1>10. PICK i \in 0 .. p : IsGreeting(Cut(0, i)) /\ IF Password THEN IsLogin(Cut(i, p)) ELSE i = p
  BY <1>5 DEF Behind
<1>11. stream' = stream /\ method' = method /\ (Password' <=> Password)
  BY <1>1 DEF clientInput, Password
<1>12. /\ IsGreeting(Cut(0, i))'
       /\ Password => IsLogin(Cut(i, p))'
       /\ IsRequest(Cut(p, k))'
  <2>1. IsGreeting(Cut(0, i))'
    BY <1>10, <1>11 DEF IsGreeting, Cut, Wanted
  <2>2. Password => IsLogin(Cut(i, p))'
    BY <1>10, <1>11 DEF IsLogin, Cut
  <2>3. IsRequest(Cut(p, k))
    BY <1>3, <1>6, <1>7
  <2>4. IsRequest(Cut(p, k))'
    BY <2>3, <1>11 DEF IsRequest, Cut
  <2> QED
    BY <2>1, <2>2, <2>4
<1>13. /\ (buf \o wire)' = Cut(k, Len(stream))'
       /\ Commands[stream'[p + 2]] = request'.command
       /\ Cut(p + 3, k)' = Encode(request'.address)
  <2>1. request'.command = Parsed.command /\ request'.address = Parsed.address
    BY <1>1
  <2>2. (buf \o wire)' = Cut(k, Len(stream))'
    BY <1>7, <1>11 DEF Rest, Cut
  <2>3. Commands[stream'[p + 2]] = request'.command
    BY <1>3, <1>9, <1>11, <2>1
  <2>4. Cut(p + 3, k)' = Encode(request'.address)
    <3>1. Cut(p + 3, k)' = Cut(p + 3, k)
      BY <1>11 DEF Cut
    <3>2. Cut(p + 3, k) = Encode(Parsed.address)
      BY <1>3, <1>6, <1>9
    <3> QED
      BY <2>1, <3>1, <3>2, Zenon
  <2> QED
    BY <2>2, <2>3, <2>4
<1>14. /\ i \in 0 .. Len(stream') /\ p \in i .. IF Password' THEN Len(stream') ELSE i
       /\ k \in p .. Len(stream')
  <2>1. i \in 0 .. Len(stream) /\ p \in i .. Len(stream)
    BY <1>2, <1>8
  <2>2. ~ Password => p \in i .. i
    BY <1>8, <1>10
  <2> QED
    BY <1>8, <1>11, <2>1, <2>2
<1> HIDE DEF k
<1>15. replies' = IF Password' THEN <<<<5, 2>>, <<1, 0>>>> ELSE <<<<5, 0>>>>
  BY <1>1, <1>5, <1>11 DEF MethodReply, UserpassReply
<1>16. AcceptedIsExact'
  BY <1>12, <1>13, <1>14, <1>15, <1>11 DEF AcceptedIsExact, Splits
<1>17. NegotiateTypeOK'
  <2>1. Len(replies') <= 3
    BY <1>1, <1>2 DEF NegotiateTypeOK
  <2>2. request' # NoRequest
    <3>1. buf[2] \in 1 .. 3
      <4>1. IsRequest(SubSeq(buf, 1, c)) /\ c \in 0 .. Len(buf) /\ 2 \in 1 .. c /\ buf \in Seq(Byte)
        BY <1>2, <1>3, <1>6, <1>8, ByteSeq
      <4>2. SubSeq(buf, 1, c)[2] = buf[2]
        BY <4>1, Front
      <4> QED
        BY <4>1, <4>2 DEF IsRequest
    <3>2. request'.command \in {"connect", "bind", "udp_associate"}
      BY <1>1, <1>3, <3>1 DEF Commands
    <3>3. NoRequest.command = "none"
      BY DEF NoRequest
    <3> QED
      BY <3>2, <3>3
  <2> QED
    BY <1>1, <1>2, <1>7, <1>11, <2>1, <2>2 DEF NegotiateTypeOK, NoRequest
<1> QED
  BY <1>1, <1>16, <1>17 DEF IInv, PlaceInv, Parsing, ClosedIsJustified

\* Every step keeps the invariant.
LEMMA StepPreserves == ASSUME IInv, [NegotiateNext]_negotiateVars PROVE IInv'
<1>1. CASE ReadMore
  BY <1>1, ReadPreserves
<1>2. CASE GiveUp
  <2>1. /\ Parsed.kind = "truncated" /\ (Len(buf) > ReadBuf \/ wire = <<>>) /\ step' = "closed"
        /\ UNCHANGED <<wire, buf, replies, request, clientInput>>
    BY <1>2 DEF GiveUp, Goto
  <2>2. Parsing /\ Fails
    BY <2>1, ParsedWhileParsing DEF IInv, Fails
  <2>3. buf' \in Bytes /\ wire' \in Bytes /\ Len(replies') <= 3
    BY <2>1 DEF IInv, NegotiateTypeOK
  <2> QED
    BY <2>1, <2>2, <2>3, ClosingIsJustified
<1>3. CASE Abandon
  <2>1. NegotiateTypeOK'
    BY <1>3 DEF Abandon, Goto, IInv, NegotiateTypeOK, clientInput, NoRequest
  <2> QED
    BY <1>3, <2>1 DEF Abandon, Goto, IInv, PlaceInv, Parsing, AcceptedIsExact, ClosedIsJustified
<1>4. CASE SelectMethod
  BY <1>4, SelectPreserves
<1>5. CASE Authenticate
  BY <1>5, AuthenticatePreserves
<1>6. CASE AcceptRequest
  BY <1>6, AcceptPreserves
<1>7. CASE RejectMalformed
  <2>1. /\ Parsing /\ Parsed.kind \notin {"ok", "truncated"} /\ step' = "closed"
        /\ UNCHANGED <<wire, buf, request, clientInput>>
        /\ replies' = replies \/ \E msg : replies' = Append(replies, msg)
    BY <1>7 DEF RejectMalformed, Goto, Say, Parsing
  <2>2. Fails
    BY <2>1 DEF Fails
  <2>3. buf' \in Bytes /\ wire' \in Bytes
    BY <2>1 DEF IInv, NegotiateTypeOK
  <2>4. Len(replies') <= 3
    <3>1. CASE replies' = replies
      BY <3>1 DEF IInv, NegotiateTypeOK
    <3>2. ASSUME NEW msg, replies' = Append(replies, msg) PROVE Len(replies') <= 3
      BY <2>1, <3>2, OneMoreReply DEF IInv
    <3> QED
      BY <2>1, <3>1, <3>2
  <2> QED
    BY <2>1, <2>2, <2>3, <2>4, ClosingIsJustified
<1>8. CASE UNCHANGED negotiateVars
  <2>1. /\ step' = step /\ wire' = wire /\ buf' = buf /\ replies' = replies /\ request' = request
        /\ method' = method /\ stream' = stream
    BY <1>8 DEF negotiateVars, clientInput
  <2>2. NegotiateTypeOK'
    BY <2>1 DEF IInv, NegotiateTypeOK, NoRequest
  <2>3. PlaceInv'
    BY <2>1 DEF IInv, PlaceInv, Place, Behind, Rest, Parsing, IsGreeting, IsLogin, Cut, Wanted, Password
  <2>4. AcceptedIsExact'
    BY <2>1, ZenonT(20) DEF IInv, AcceptedIsExact, Splits, IsGreeting, IsLogin, IsRequest, Cut, Wanted, Password
  <2>5. ClosedIsJustified'
    <3>1. Acceptable' <=> Acceptable
      BY <2>1, AcceptableFixed DEF clientInput
    <3> QED
      BY <2>1, <3>1 DEF IInv, ClosedIsJustified, Acceptable
  <2> QED
    BY <2>2, <2>3, <2>4, <2>5 DEF IInv
<1> QED
  BY <1>1, <1>2, <1>3, <1>4, <1>5, <1>6, <1>7, <1>8 DEF NegotiateNext

-----------------------------------------------------------------------------
(* The theorems.                                                           *)

\* However the client's bytes are cut into chunks, what negotiate accepts is a greeting
\* that offers the configured method, a configured user's login if one is required and a
\* request; it returns that request and leaves the relay exactly the bytes behind it.
THEOREM NegotiateInvariant == NegotiateSpec => []NegotiateInv
<1>1. NegotiateInit => IInv
  BY InitEstablishes
<1>2. IInv /\ [NegotiateNext]_negotiateVars => IInv'
  BY StepPreserves
<1>3. IInv => NegotiateInv
  BY DEF IInv, NegotiateInv
<1> QED
  BY <1>1, <1>2, <1>3, PTL DEF NegotiateSpec

\* A client whose bytes begin with the right messages is never refused by negotiate,
\* neither for the place of a chunk's end, nor for pipelining, nor by the READ_BUF guard.
THEOREM ClosedJustified == NegotiateSpec => []ClosedIsJustified
<1>1. NegotiateInit => IInv
  BY InitEstablishes
<1>2. IInv /\ [NegotiateNext]_negotiateVars => IInv'
  BY StepPreserves
<1>3. IInv => ClosedIsJustified
  BY DEF IInv
<1> QED
  BY <1>1, <1>2, <1>3, PTL DEF NegotiateSpec

-----------------------------------------------------------------------------
(* No gap between the notations of an address.                             *)

\* The IPv4 address o written as an IPv6 one: mapped if p6 is 16#ffff, compatible if it is 0.
Written(p6, o) == <<0, 0, 0, 0, 0, p6, 256 * o[1] + o[2], 256 * o[3] + o[4]>>

\* Splitting a segment gives back the two octets it was put together from.
LEMMA Split ==
  ASSUME NEW a \in Octet, NEW b \in Octet
  PROVE  (256 * a + b) \div 256 = a /\ (256 * a + b) % 256 = b
  BY DEF Octet

\* v6.to_ipv4 is the inverse of both notations.
LEMMA EmbeddedBack ==
  ASSUME NEW o \in V4, NEW p6 \in {0, 65535}
  PROVE  Embeds(Written(p6, o)) /\ Embedded(Written(p6, o)) = o
<1>1. o = <<o[1], o[2], o[3], o[4]>>
  BY DEF V4
<1>2. o[1] \in Octet /\ o[2] \in Octet /\ o[3] \in Octet /\ o[4] \in Octet
  BY DEF V4
<1>3. Embeds(Written(p6, o))
  BY DEF Embeds, Written
<1>4. Embedded(Written(p6, o)) = <<o[1], o[2], o[3], o[4]>>
  BY <1>2, Split DEF Embedded, Written
<1> QED
  BY <1>1, <1>3, <1>4

\* "so it cannot bypass the v4 rules": whatever the policy, an IPv4 address that is
\* blocked is blocked as ::ffff:a.b.c.d and as ::a.b.c.d too.
THEOREM NoNotationEscapes ==
  ASSUME NEW p \in Policy, NEW o \in V4, NEW p6 \in {0, 65535}, BlockedV4(p, o)
  PROVE  BlockedV6(p, Written(p6, o))
  BY EmbeddedBack DEF BlockedV6

\* And folding blocks nothing else: in the mapped notation an address is blocked exactly
\* when the IPv4 address is, so that none of the IPv6 classes swallows a public one.
THEOREM MappedIsExact ==
  ASSUME NEW p \in Policy, NEW o \in V4
  PROVE  BlockedV6(p, Written(65535, o)) <=> BlockedV4(p, o)
<1>1. ~ BlockedNative(p, Written(65535, o))
  BY DEF BlockedNative, Written
<1> QED
  BY <1>1, EmbeddedBack DEF BlockedV6

-----------------------------------------------------------------------------
(* The octets and masks of is_blocked are address ranges.                  *)

\* The address w.x.y.z as a number, and those from a.b.0.0 to a.c.255.255.
Number(w, x, y, z) == 16777216 * w + 65536 * x + 256 * y + z
Span(a, b, c) == Number(a, b, 0, 0) .. Number(a, c, 255, 255)

\* Every one of the 2^32 IPv4 addresses is decided as the ranges say: 0.0.0.0 always;
\* 127.0.0.0/8 and 0.0.0.0/8; 169.254.0.0/16; 10.0.0.0/8, 172.16.0.0/12, 192.168.0.0/16
\* and 100.64.0.0/10.
THEOREM BlockedIsRanges ==
  ASSUME NEW p \in Policy,
         NEW w \in Octet, NEW x \in Octet, NEW y \in Octet, NEW z \in Octet
  PROVE  BlockedV4(p, <<w, x, y, z>>) <=>
           \/ Number(w, x, y, z) = 0
           \/ /\ p.loopback
              /\ Number(w, x, y, z) \in Span(127, 0, 255) \union Span(0, 0, 255)
           \/ /\ p.link_local
              /\ Number(w, x, y, z) \in Span(169, 254, 254)
           \/ /\ p.private
              /\ Number(w, x, y, z) \in Span(10, 0, 255) \union Span(172, 16, 31)
                                        \union Span(192, 168, 168) \union Span(100, 64, 127)
<1>1. <<w, x, y, z>> = <<0, 0, 0, 0>> <=> Number(w, x, y, z) = 0
  BY SMT DEF Number, Octet
<1>2. /\ 0 \in Octet /\ 10 \in Octet /\ 16 \in Octet /\ 31 \in Octet /\ 64 \in Octet
      /\ 100 \in Octet /\ 127 \in Octet /\ 168 \in Octet /\ 169 \in Octet
      /\ 172 \in Octet /\ 192 \in Octet /\ 254 \in Octet /\ 255 \in Octet
  BY SMT DEF Octet
\* Comparing the first octet and bounding the second is asking for a range.
<1>3. \A a, b, c \in Octet :
        (w = a /\ b <= x /\ x <= c) <=> Number(w, x, y, z) \in Span(a, b, c)
  BY SMT DEF Number, Span, Octet
<1>4. (w = 127 /\ 0 <= x /\ x <= 255) <=> Number(w, x, y, z) \in Span(127, 0, 255)
  BY <1>2, <1>3
<1>5. (w = 0 /\ 0 <= x /\ x <= 255) <=> Number(w, x, y, z) \in Span(0, 0, 255)
  BY <1>2, <1>3
<1>6. (w = 10 /\ 0 <= x /\ x <= 255) <=> Number(w, x, y, z) \in Span(10, 0, 255)
  BY <1>2, <1>3
<1>7. (w = 169 /\ 254 <= x /\ x <= 254) <=> Number(w, x, y, z) \in Span(169, 254, 254)
  BY <1>2, <1>3
<1>8. (w = 172 /\ 16 <= x /\ x <= 31) <=> Number(w, x, y, z) \in Span(172, 16, 31)
  BY <1>2, <1>3
<1>9. (w = 192 /\ 168 <= x /\ x <= 168) <=> Number(w, x, y, z) \in Span(192, 168, 168)
  BY <1>2, <1>3
<1>10. (w = 100 /\ 64 <= x /\ x <= 127) <=> Number(w, x, y, z) \in Span(100, 64, 127)
  BY <1>2, <1>3
<1>11. /\ 0 <= x /\ x <= 255
       /\ x = 254 <=> 254 <= x /\ x <= 254
       /\ x \in 16 .. 31 <=> 16 <= x /\ x <= 31
       /\ x = 168 <=> 168 <= x /\ x <= 168
       /\ x \div 64 = 1 <=> 64 <= x /\ x <= 127
  BY SMT DEF Octet
<1> QED
  BY SMT, <1>1, <1>4, <1>5, <1>6, <1>7, <1>8, <1>9, <1>10, <1>11 DEF BlockedV4

-----------------------------------------------------------------------------
(* Address blocks, bit by bit.                                             *)

\* How many bits of an octet a block fixes: all, none, or the ones before a border.
LEMMA Bits ==
  ASSUME NEW x \in Octet, NEW y \in Octet
  PROVE  /\ \A n \in Int : n >= 8 => (SameBits(x, y, n) <=> x = y)
         /\ \A n \in Int : n <= 0 => SameBits(x, y, n)
         /\ SameBits(x, y, 2) <=> x \div 64 = y \div 64
         /\ SameBits(x, y, 4) <=> x \div 16 = y \div 16
         /\ SameBits(x, y, 7) <=> x \div 2 = y \div 2
<1>1. ASSUME NEW n \in Int, n >= 8 PROVE SameBits(x, y, n) <=> x = y
  <2>1. n \notin 1 .. 7
    BY <1>1
  <2> QED
    BY <1>1, <2>1 DEF SameBits
<1>2. ASSUME NEW n \in Int, n <= 0 PROVE SameBits(x, y, n)
  <2>1. n \notin 1 .. 7 /\ ~ n >= 8
    BY <1>2
  <2> QED
    BY <2>1 DEF SameBits
<1>3. /\ <<128, 64, 32, 16, 8, 4, 2>>[2] = 64 /\ <<128, 64, 32, 16, 8, 4, 2>>[4] = 16
      /\ <<128, 64, 32, 16, 8, 4, 2>>[7] = 2
  OBVIOUS
<1>4. 2 \in 1 .. 7 /\ 4 \in 1 .. 7 /\ 7 \in 1 .. 7 /\ ~ 2 >= 8 /\ ~ 4 >= 8 /\ ~ 7 >= 8
  OBVIOUS
<1>5. SameBits(x, y, 2) <=> x \div 64 = y \div 64
  BY <1>3, <1>4 DEF SameBits
<1>6. SameBits(x, y, 4) <=> x \div 16 = y \div 16
  BY <1>3, <1>4 DEF SameBits
<1>7. SameBits(x, y, 7) <=> x \div 2 = y \div 2
  BY <1>3, <1>4 DEF SameBits
<1> QED
  BY <1>1, <1>2, <1>5, <1>6, <1>7

\* A block of IPv4 addresses, octet by octet.
LEMMA FourOctets ==
  ASSUME NEW w \in Octet, NEW x \in Octet, NEW y \in Octet, NEW z \in Octet,
         NEW a \in Octet, NEW b \in Octet, NEW c \in Octet, NEW d \in Octet, NEW n \in Int
  PROVE  InNet(<<w, x, y, z>>, <<a, b, c, d>>, n) <=>
           /\ SameBits(w, a, n) /\ SameBits(x, b, n - 8)
           /\ SameBits(y, c, n - 16) /\ SameBits(z, d, n - 24)
<1> DEFINE o == <<w, x, y, z>>
           net == <<a, b, c, d>>
<1>1. /\ Len(o) = 4 /\ Len(net) = 4 /\ DOMAIN o = 1 .. 4
      /\ o[1] = w /\ o[2] = x /\ o[3] = y /\ o[4] = z
      /\ net[1] = a /\ net[2] = b /\ net[3] = c /\ net[4] = d
  OBVIOUS
<1> HIDE DEF o, net
<1>2. InNet(o, net, n) <=> \A k \in 1 .. 4 : SameBits(o[k], net[k], n - 8 * (k - 1))
  BY <1>1 DEF InNet
<1>3. 1 .. 4 = {1, 2, 3, 4}
  OBVIOUS
<1>4. /\ n - 8 * (1 - 1) = n /\ n - 8 * (2 - 1) = n - 8
      /\ n - 8 * (3 - 1) = n - 16 /\ n - 8 * (4 - 1) = n - 24
  OBVIOUS
<1>5. InNet(o, net, n) <=>
        /\ SameBits(o[1], net[1], n - 8 * (1 - 1)) /\ SameBits(o[2], net[2], n - 8 * (2 - 1))
        /\ SameBits(o[3], net[3], n - 8 * (3 - 1)) /\ SameBits(o[4], net[4], n - 8 * (4 - 1))
  BY <1>2, <1>3, Zenon
<1> QED
  BY <1>1, <1>4, <1>5 DEF o, net

\* The same, for the borders the documented blocks have.
LEMMA Borders ==
  ASSUME NEW w \in Octet, NEW x \in Octet, NEW y \in Octet, NEW z \in Octet,
         NEW a \in Octet, NEW b \in Octet
  PROVE  /\ InNet(<<w, x, y, z>>, <<a, b, 0, 0>>, 8) <=> w = a
         /\ InNet(<<w, x, y, z>>, <<a, b, 0, 0>>, 10) <=> w = a /\ x \div 64 = b \div 64
         /\ InNet(<<w, x, y, z>>, <<a, b, 0, 0>>, 12) <=> w = a /\ x \div 16 = b \div 16
         /\ InNet(<<w, x, y, z>>, <<a, b, 0, 0>>, 16) <=> w = a /\ x = b
         /\ InNet(<<w, x, y, z>>, <<0, 0, 0, 0>>, 32) <=> w = 0 /\ x = 0 /\ y = 0 /\ z = 0
<1>0. 0 \in Octet
  BY DEF Octet
<1>1. \A n \in Int : n >= 8 => (SameBits(w, a, n) <=> w = a) /\ (SameBits(x, b, n) <=> x = b)
  BY Bits
<1>2. \A n \in Int : n <= 0 =>
        SameBits(x, b, n) /\ SameBits(y, 0, n) /\ SameBits(z, 0, n)
  BY <1>0, Bits
<1>3. (SameBits(x, b, 2) <=> x \div 64 = b \div 64) /\ (SameBits(x, b, 4) <=> x \div 16 = b \div 16)
  BY Bits
<1>4. \A n \in {8, 10, 12, 16} :
         InNet(<<w, x, y, z>>, <<a, b, 0, 0>>, n) <=> w = a /\ SameBits(x, b, n - 8)
  <2> TAKE n \in {8, 10, 12, 16}
  <2>1. n \in Int /\ n >= 8 /\ n - 16 \in Int /\ n - 16 <= 0 /\ n - 24 \in Int /\ n - 24 <= 0
    OBVIOUS
  <2>2. InNet(<<w, x, y, z>>, <<a, b, 0, 0>>, n) <=>
           /\ SameBits(w, a, n) /\ SameBits(x, b, n - 8)
           /\ SameBits(y, 0, n - 16) /\ SameBits(z, 0, n - 24)
    BY <1>0, <2>1, FourOctets
  <2> QED
    BY <1>1, <1>2, <2>1, <2>2
<1>5. 8 - 8 = 0 /\ 10 - 8 = 2 /\ 12 - 8 = 4 /\ 16 - 8 = 8 /\ 0 \in Int /\ 8 \in Int
  OBVIOUS
<1>6. InNet(<<w, x, y, z>>, <<0, 0, 0, 0>>, 32) <=> w = 0 /\ x = 0 /\ y = 0 /\ z = 0
  <2>1. InNet(<<w, x, y, z>>, <<0, 0, 0, 0>>, 32) <=>
           /\ SameBits(w, 0, 32) /\ SameBits(x, 0, 32 - 8)
           /\ SameBits(y, 0, 32 - 16) /\ SameBits(z, 0, 32 - 24)
    BY <1>0, FourOctets
  <2>2. \A n \in Int : n >= 8 => /\ (SameBits(w, 0, n) <=> w = 0) /\ (SameBits(x, 0, n) <=> x = 0)
                                /\ (SameBits(y, 0, n) <=> y = 0) /\ (SameBits(z, 0, n) <=> z = 0)
    BY <1>0, Bits
  <2>3. /\ 32 \in Int /\ 32 >= 8 /\ 32 - 8 \in Int /\ 32 - 8 >= 8
        /\ 32 - 16 \in Int /\ 32 - 16 >= 8 /\ 32 - 24 \in Int /\ 32 - 24 >= 8
    OBVIOUS
  <2> QED
    BY <2>1, <2>2, <2>3
<1>7. InNet(<<w, x, y, z>>, <<a, b, 0, 0>>, 8) <=> w = a
  BY <1>2, <1>4, <1>5
<1>8. InNet(<<w, x, y, z>>, <<a, b, 0, 0>>, 10) <=> w = a /\ x \div 64 = b \div 64
  BY <1>3, <1>4, <1>5
<1>9. InNet(<<w, x, y, z>>, <<a, b, 0, 0>>, 12) <=> w = a /\ x \div 16 = b \div 16
  BY <1>3, <1>4, <1>5
<1>10. InNet(<<w, x, y, z>>, <<a, b, 0, 0>>, 16) <=> w = a /\ x = b
  <2>1. SameBits(x, b, 8) <=> x = b
    BY <1>1, <1>5
  <2> QED
    BY <1>4, <1>5, <2>1
<1> QED
  BY <1>6, <1>7, <1>8, <1>9, <1>10

-----------------------------------------------------------------------------
(* IPv4.                                                                   *)

\* A class the policy closes; the last one is always closed.
Closed(p, class) == class = "always" \/ (class # "always" /\ p[class])

\* The four classes, one by one.
LEMMA Classes ==
  /\ DOMAIN Nets4 = {"loopback", "link_local", "private", "always"}
  /\ Nets4["loopback"] = {<<<<127, 0, 0, 0>>, 8>>, <<<<0, 0, 0, 0>>, 8>>}
  /\ Nets4["link_local"] = {<<<<169, 254, 0, 0>>, 16>>}
  /\ Nets4["private"] = {<<<<10, 0, 0, 0>>, 8>>, <<<<172, 16, 0, 0>>, 12>>,
                         <<<<192, 168, 0, 0>>, 16>>, <<<<100, 64, 0, 0>>, 10>>}
  /\ Nets4["always"] = {<<<<0, 0, 0, 0>>, 32>>}
  BY DEF Nets4

Within4(o, class) == \E net \in Nets4[class] : InNet(o, net[1], net[2])

\* The rules for IPv4 are the documented blocks.
LEMMA BlockedIsNets ==
  ASSUME NEW p \in Policy, NEW w \in Octet, NEW x \in Octet, NEW y \in Octet, NEW z \in Octet
  PROVE  BlockedV4(p, <<w, x, y, z>>) <=>
           \E class \in DOMAIN Nets4 : Closed(p, class) /\ Within4(<<w, x, y, z>>, class)
<1> DEFINE o == <<w, x, y, z>>
<1>1. /\ 0 \in Octet /\ 10 \in Octet /\ 16 \in Octet /\ 64 \in Octet /\ 100 \in Octet
      /\ 127 \in Octet /\ 168 \in Octet /\ 169 \in Octet /\ 172 \in Octet /\ 192 \in Octet
      /\ 254 \in Octet
  BY DEF Octet
<1>2. o[1] = w /\ o[2] = x /\ (o = <<0, 0, 0, 0>> <=> w = 0 /\ x = 0 /\ y = 0 /\ z = 0)
  OBVIOUS
<1> HIDE DEF o
<1>3. Within4(o, "loopback") <=> w \in {0, 127}
  <2>1. Within4(o, "loopback") <=> InNet(o, <<127, 0, 0, 0>>, 8) \/ InNet(o, <<0, 0, 0, 0>>, 8)
    BY Classes DEF Within4
  <2>2. (InNet(o, <<127, 0, 0, 0>>, 8) <=> w = 127) /\ (InNet(o, <<0, 0, 0, 0>>, 8) <=> w = 0)
    BY <1>1, Borders DEF o
  <2> QED
    BY <2>1, <2>2
<1>4. Within4(o, "link_local") <=> w = 169 /\ x = 254
  <2>1. Within4(o, "link_local") <=> InNet(o, <<169, 254, 0, 0>>, 16)
    BY Classes DEF Within4
  <2>2. InNet(o, <<169, 254, 0, 0>>, 16) <=> w = 169 /\ x = 254
    BY <1>1, Borders DEF o
  <2> QED
    BY <2>1, <2>2
<1>5. Within4(o, "private") <=> \/ w = 10
                                \/ w = 172 /\ x \in 16 .. 31
                                \/ w = 192 /\ x = 168
                                \/ w = 100 /\ x \div 64 = 1
  <2>1. Within4(o, "private") <=>
          \/ InNet(o, <<10, 0, 0, 0>>, 8) \/ InNet(o, <<172, 16, 0, 0>>, 12)
          \/ InNet(o, <<192, 168, 0, 0>>, 16) \/ InNet(o, <<100, 64, 0, 0>>, 10)
    BY Classes DEF Within4
  <2>2. /\ InNet(o, <<10, 0, 0, 0>>, 8) <=> w = 10
        /\ InNet(o, <<192, 168, 0, 0>>, 16) <=> w = 192 /\ x = 168
    BY <1>1, Borders DEF o
  <2>3. InNet(o, <<172, 16, 0, 0>>, 12) <=> w = 172 /\ x \div 16 = 16 \div 16
    BY <1>1, Borders DEF o
  <2>4. InNet(o, <<100, 64, 0, 0>>, 10) <=> w = 100 /\ x \div 64 = 64 \div 64
    BY <1>1, Borders DEF o
  <2>5. 16 \div 16 = 1 /\ 64 \div 64 = 1 /\ (x \div 16 = 1 <=> x \in 16 .. 31)
    BY DEF Octet
  <2> QED
    BY <2>1, <2>2, <2>3, <2>4, <2>5
<1>6. Within4(o, "always") <=> w = 0 /\ x = 0 /\ y = 0 /\ z = 0
  <2>1. Within4(o, "always") <=> InNet(o, <<0, 0, 0, 0>>, 32)
    BY Classes DEF Within4
  <2>2. InNet(o, <<0, 0, 0, 0>>, 32) <=> w = 0 /\ x = 0 /\ y = 0 /\ z = 0
    BY <1>1, Borders DEF o
  <2> QED
    BY <2>1, <2>2
<1>7. (\E class \in DOMAIN Nets4 : Closed(p, class) /\ Within4(o, class)) <=>
        \/ Within4(o, "always")
        \/ p.loopback /\ Within4(o, "loopback")
        \/ p.link_local /\ Within4(o, "link_local")
        \/ p.private /\ Within4(o, "private")
  BY Classes DEF Closed
<1>8. BlockedV4(p, o) <=>
        \/ w = 0 /\ x = 0 /\ y = 0 /\ z = 0
        \/ p.loopback /\ w \in {0, 127}
        \/ p.link_local /\ w = 169 /\ x = 254
        \/ /\ p.private
           /\ \/ w = 10
              \/ w = 172 /\ x \in 16 .. 31
              \/ w = 192 /\ x = 168
              \/ w = 100 /\ x \div 64 = 1
  BY <1>2 DEF BlockedV4
<1> QED
  BY <1>3, <1>4, <1>5, <1>6, <1>7, <1>8 DEF o

-----------------------------------------------------------------------------
(* IPv6.                                                                   *)

Host6 == [1 .. 16 -> Octet]

LEMMA FunctionIsSeq ==
  ASSUME NEW S, NEW n \in Nat, NEW f \in [1 .. n -> S]
  PROVE  f \in Seq(S) /\ Len(f) = n /\ DOMAIN f = 1 .. n
  OBVIOUS

\* A host is a sequence of octets.
LEMMA HostSeq ==
  ASSUME NEW h \in Host6
  PROVE  /\ h \in Seq(Octet) /\ Len(h) = 16 /\ DOMAIN h = 1 .. 16
         /\ \A k \in 1 .. 16 : h[k] \in Octet
<1>1. 16 \in Nat /\ h \in [1 .. 16 -> Octet]
  BY DEF Host6
<1>2. h \in Seq(Octet) /\ Len(h) = 16 /\ DOMAIN h = 1 .. 16
  BY <1>1, FunctionIsSeq
<1>3. \A k \in 1 .. 16 : h[k] \in Octet
  BY <1>1
<1> QED
  BY <1>2, <1>3

LEMMA ZerosSeq ==
  ASSUME NEW n \in Nat
  PROVE  /\ Zeros(n) \in Seq(Octet) /\ Len(Zeros(n)) = n
         /\ \A k \in 1 .. n : Zeros(n)[k] = 0
<1>1. 0 \in Octet
  BY DEF Octet
<1>2. Zeros(n) \in [1 .. n -> Octet] /\ \A k \in 1 .. n : Zeros(n)[k] = 0
  BY <1>1 DEF Zeros
<1> HIDE DEF Octet
<1> QED
  BY <1>2

\* A block of IPv6 addresses, octet by octet.
LEMMA SixteenOctets ==
  ASSUME NEW h \in Host6, NEW net \in Seq(Octet), Len(net) = 16, NEW n \in Int
  PROVE  InNet(h, net, n) <=> \A k \in 1 .. 16 : SameBits(h[k], net[k], n - 8 * (k - 1))
  BY HostSeq DEF InNet

LastFour(h) == <<h[13], h[14], h[15], h[16]>>

\* A block of IPv4 addresses behind the twelve octets of a notation.
LEMMA BehindForm ==
  ASSUME NEW h \in Host6, NEW form \in Seq(Octet), NEW n \in Nat,
         NEW a \in Octet, NEW b \in Octet, NEW c \in Octet, NEW d \in Octet
  PROVE  Len(form) = 12 =>
           (InNet(h, form \o <<a, b, c, d>>, 96 + n) <=>
              /\ \A k \in 1 .. 12 : h[k] = form[k]
              /\ InNet(LastFour(h), <<a, b, c, d>>, n))
<1> DEFINE net == <<a, b, c, d>>
           both == form \o net
           o == LastFour(h)
<1>1. /\ net \in Seq(Octet) /\ Len(net) = 4
      /\ net[1] = a /\ net[2] = b /\ net[3] = c /\ net[4] = d
  OBVIOUS
<1>2. /\ Len(o) = 4 /\ DOMAIN o = 1 .. 4
      /\ o[1] = h[13] /\ o[2] = h[14] /\ o[3] = h[15] /\ o[4] = h[16]
  BY DEF LastFour
<1> HIDE DEF net, o
<1>3. /\ both \in Seq(Octet) /\ Len(both) = Len(form) + Len(net)
      /\ \A i \in 1 .. Len(form) : both[i] = form[i]
      /\ \A i \in 1 .. Len(net) : both[Len(form) + i] = net[i]
  <2>1. net \in Seq(Octet)
    BY <1>1
  <2> QED
    BY <2>1, Join
<1> HIDE DEF both
<1>0. SUFFICES ASSUME Len(form) = 12
               PROVE  InNet(h, both, 96 + n) <=>
                        (\A k \in 1 .. 12 : h[k] = form[k]) /\ InNet(o, net, n)
  BY DEF both, net, o
<1>4. /\ Len(both) = 16 /\ \A i \in 1 .. 12 : both[i] = form[i]
      /\ \A i \in 1 .. 4 : both[12 + i] = net[i]
  BY <1>0, <1>1, <1>3
<1>5. InNet(h, both, 96 + n) <=>
        \A k \in 1 .. 16 : SameBits(h[k], both[k], (96 + n) - 8 * (k - 1))
  <2>1. 96 + n \in Int
    OBVIOUS
  <2>2. both \in Seq(Octet)
    BY <1>3
  <2> QED
    BY <1>4, <2>1, <2>2, SixteenOctets
<1>6. InNet(o, net, n) <=> \A i \in 1 .. 4 : SameBits(o[i], net[i], n - 8 * (i - 1))
  BY <1>1, <1>2 DEF InNet
<1>7. \A i \in 1 .. 4 : o[i] = h[12 + i]
  <2>1. 1 .. 4 = {1, 2, 3, 4} /\ 12 + 1 = 13 /\ 12 + 2 = 14 /\ 12 + 3 = 15 /\ 12 + 4 = 16
    OBVIOUS
  <2> QED
    BY <1>2, <2>1
<1>8. ASSUME NEW k \in 1 .. 12
      PROVE  SameBits(h[k], both[k], (96 + n) - 8 * (k - 1)) <=> h[k] = form[k]
  <2>1. k \in 1 .. 16 /\ (96 + n) - 8 * (k - 1) \in Int /\ (96 + n) - 8 * (k - 1) >= 8
    OBVIOUS
  <2>2. h[k] \in Octet /\ form[k] \in Octet
    <3>1. k \in 1 .. Len(form)
      BY <1>0
    <3>2. form[k] \in Octet
      BY <3>1, ElementOfSeq
    <3> QED
      BY <2>1, <3>2, HostSeq
  <2>3. SameBits(h[k], form[k], (96 + n) - 8 * (k - 1)) <=> h[k] = form[k]
    <3> DEFINE m == (96 + n) - 8 * (k - 1)
    <3>1. m \in Int /\ m >= 8
      BY <2>1
    <3> HIDE DEF m
    <3>2. SameBits(h[k], form[k], m) <=> h[k] = form[k]
      BY <2>2, <3>1, Bits
    <3> QED
      BY <3>2 DEF m
  <2>4. both[k] = form[k]
    BY <1>4
  <2> QED
    BY <2>3, <2>4
<1>9. ASSUME NEW i \in 1 .. 4
      PROVE  /\ 12 + i \in 1 .. 16
             /\ SameBits(h[12 + i], both[12 + i], (96 + n) - 8 * ((12 + i) - 1)) <=>
                  SameBits(o[i], net[i], n - 8 * (i - 1))
  <2>1. 12 + i \in 1 .. 16 /\ (96 + n) - 8 * ((12 + i) - 1) = n - 8 * (i - 1)
    OBVIOUS
  <2> QED
    BY <1>4, <1>7, <2>1
<1>10. \A k \in 1 .. 16 : k \in 1 .. 12 \/ \E i \in 1 .. 4 : k = 12 + i
  <2> TAKE k \in 1 .. 16
  <2>1. k \in 1 .. 12 \/ (k - 12 \in 1 .. 4 /\ k = 12 + (k - 12))
    OBVIOUS
  <2> QED
    BY <2>1
<1>11. \A k \in 1 .. 12 : k \in 1 .. 16
  OBVIOUS
<1>12. InNet(h, both, 96 + n) => (\A k \in 1 .. 12 : h[k] = form[k]) /\ InNet(o, net, n)
  BY <1>5, <1>6, <1>8, <1>9, <1>11, Zenon
<1>13. (\A k \in 1 .. 12 : h[k] = form[k]) /\ InNet(o, net, n) => InNet(h, both, 96 + n)
  BY <1>5, <1>6, <1>8, <1>9, <1>10, ZenonT(20)
<1> QED
  BY <1>12, <1>13

\* The segments of a host, octet by octet.
LEMMA SegmentsOfHost ==
  ASSUME NEW h \in Host6
  PROVE  LET s == Segments(h) IN
         /\ s[1] = 256 * h[1] + h[2] /\ s[2] = 256 * h[3] + h[4]
         /\ s[3] = 256 * h[5] + h[6] /\ s[4] = 256 * h[7] + h[8]
         /\ s[5] = 256 * h[9] + h[10] /\ s[6] = 256 * h[11] + h[12]
         /\ s[7] = 256 * h[13] + h[14] /\ s[8] = 256 * h[15] + h[16]
         /\ s \in [1 .. 8 -> Nat]
<1>1. \A k \in 1 .. 8 : Segments(h)[k] = 256 * h[2 * k - 1] + h[2 * k]
  BY DEF Segments
<1>2. Segments(h) \in [1 .. 8 -> Nat]
  <2>1. ASSUME NEW k \in 1 .. 8 PROVE 256 * h[2 * k - 1] + h[2 * k] \in Nat
    <3>1. 2 * k - 1 \in 1 .. 16 /\ 2 * k \in 1 .. 16
      OBVIOUS
    <3>2. h[2 * k - 1] \in Octet /\ h[2 * k] \in Octet
      BY <3>1, HostSeq
    <3>3. \A x, y \in Octet : 256 * x + y \in Nat
      BY DEF Octet
    <3> QED
      BY <3>2, <3>3
  <2> QED
    BY <2>1 DEF Segments
<1>3. /\ 2 * 1 - 1 = 1 /\ 2 * 1 = 2 /\ 2 * 2 - 1 = 3 /\ 2 * 2 = 4 /\ 2 * 3 - 1 = 5 /\ 2 * 3 = 6
      /\ 2 * 4 - 1 = 7 /\ 2 * 4 = 8 /\ 2 * 5 - 1 = 9 /\ 2 * 5 = 10 /\ 2 * 6 - 1 = 11 /\ 2 * 6 = 12
      /\ 2 * 7 - 1 = 13 /\ 2 * 7 = 14 /\ 2 * 8 - 1 = 15 /\ 2 * 8 = 16
  OBVIOUS
<1>4. /\ 1 \in 1 .. 8 /\ 2 \in 1 .. 8 /\ 3 \in 1 .. 8 /\ 4 \in 1 .. 8
      /\ 5 \in 1 .. 8 /\ 6 \in 1 .. 8 /\ 7 \in 1 .. 8 /\ 8 \in 1 .. 8
  OBVIOUS
<1> QED
  BY <1>1, <1>2, <1>3, <1>4

\* The two notations, octet by octet.
LEMMA FormsSeq ==
  /\ Mapped \in Seq(Octet) /\ Len(Mapped) = 12 /\ \A k \in 1 .. 10 : Mapped[k] = 0
  /\ Mapped[11] = 255 /\ Mapped[12] = 255
  /\ Compatible \in Seq(Octet) /\ Len(Compatible) = 12 /\ \A k \in 1 .. 12 : Compatible[k] = 0
<1>1. 10 \in Nat /\ 12 \in Nat
  OBVIOUS
<1>2. /\ Zeros(10) \in Seq(Octet) /\ Len(Zeros(10)) = 10 /\ \A k \in 1 .. 10 : Zeros(10)[k] = 0
      /\ Zeros(12) \in Seq(Octet) /\ Len(Zeros(12)) = 12 /\ \A k \in 1 .. 12 : Zeros(12)[k] = 0
  BY <1>1, ZerosSeq
<1> DEFINE ones == <<255, 255>>
<1>3. ones \in Seq(Octet) /\ Len(ones) = 2 /\ ones[1] = 255 /\ ones[2] = 255
  BY DEF Octet
<1> HIDE DEF ones
<1>4. /\ Mapped \in Seq(Octet) /\ Len(Mapped) = Len(Zeros(10)) + Len(ones)
      /\ \A i \in 1 .. Len(Zeros(10)) : Mapped[i] = Zeros(10)[i]
      /\ \A i \in 1 .. Len(ones) : Mapped[Len(Zeros(10)) + i] = ones[i]
  <2>1. Mapped = Zeros(10) \o ones
    BY DEF Mapped, ones
  <2>2. Zeros(10) \in Seq(Octet) /\ ones \in Seq(Octet)
    BY <1>2, <1>3
  <2> QED
    BY <2>1, <2>2, Join
<1>5. Mapped[10 + 1] = ones[1] /\ Mapped[10 + 2] = ones[2]
  <2>1. 1 \in 1 .. Len(ones) /\ 2 \in 1 .. Len(ones)
    BY <1>3
  <2> QED
    BY <1>2, <1>4, <2>1
<1>6. 10 + 1 = 11 /\ 10 + 2 = 12
  OBVIOUS
<1>7. Mapped[11] = 255 /\ Mapped[12] = 255
  BY <1>3, <1>5, <1>6
<1>8. \A k \in 1 .. 10 : Mapped[k] = 0
  BY <1>2, <1>4
<1>9. Len(Mapped) = 12
  <2>1. Len(Mapped) = Len(Zeros(10)) + Len(ones)
    BY <1>4
  <2>2. Len(Zeros(10)) = 10 /\ Len(ones) = 2
    BY <1>2, <1>3
  <2>3. Len(Mapped) = 10 + 2
    BY <2>1, <2>2, Zenon
  <2> QED
    BY <2>3
<1> QED
  BY <1>2, <1>4, <1>7, <1>8, <1>9 DEF Compatible

WrittenIn(h, form) == \A k \in 1 .. 12 : h[k] = form[k]

\* v6.to_ipv4 finds exactly the two notations, and the address in them.
LEMMA EmbedsIsForm ==
  ASSUME NEW h \in Host6
  PROVE  /\ Embeds(Segments(h)) <=> WrittenIn(h, Mapped) \/ WrittenIn(h, Compatible)
         /\ Embedded(Segments(h)) = LastFour(h)
<1> DEFINE s == Segments(h)
<1>1. /\ h[1] \in Octet /\ h[2] \in Octet /\ h[3] \in Octet /\ h[4] \in Octet
      /\ h[5] \in Octet /\ h[6] \in Octet /\ h[7] \in Octet /\ h[8] \in Octet
      /\ h[9] \in Octet /\ h[10] \in Octet /\ h[11] \in Octet /\ h[12] \in Octet
      /\ h[13] \in Octet /\ h[14] \in Octet /\ h[15] \in Octet /\ h[16] \in Octet
  BY HostSeq
<1>2. /\ s[1] = 256 * h[1] + h[2] /\ s[2] = 256 * h[3] + h[4]
      /\ s[3] = 256 * h[5] + h[6] /\ s[4] = 256 * h[7] + h[8]
      /\ s[5] = 256 * h[9] + h[10] /\ s[6] = 256 * h[11] + h[12]
      /\ s[7] = 256 * h[13] + h[14] /\ s[8] = 256 * h[15] + h[16]
  BY SegmentsOfHost
<1> HIDE DEF s
<1>3. \A x, y \in Octet : /\ 256 * x + y = 0 <=> x = 0 /\ y = 0
                          /\ 256 * x + y = 65535 <=> x = 255 /\ y = 255
  BY DEF Octet
<1>4. Embeds(s) <=>
        /\ h[1] = 0 /\ h[2] = 0 /\ h[3] = 0 /\ h[4] = 0 /\ h[5] = 0
        /\ h[6] = 0 /\ h[7] = 0 /\ h[8] = 0 /\ h[9] = 0 /\ h[10] = 0
        /\ (h[11] = 0 /\ h[12] = 0) \/ (h[11] = 255 /\ h[12] = 255)
  <2>1. 1 .. 5 = {1, 2, 3, 4, 5}
    OBVIOUS
  <2>2. Embeds(s) <=> /\ s[1] = 0 /\ s[2] = 0 /\ s[3] = 0 /\ s[4] = 0 /\ s[5] = 0
                      /\ s[6] = 0 \/ s[6] = 65535
    BY <2>1 DEF Embeds
  <2> QED
    BY <1>1, <1>2, <1>3, <2>2
<1>5. 1 .. 12 = 1 .. 10 \union {11, 12} /\ 1 .. 10 = {1, 2, 3, 4, 5, 6, 7, 8, 9, 10}
  OBVIOUS
<1>6. WrittenIn(h, Mapped) <=> (\A k \in 1 .. 10 : h[k] = 0) /\ h[11] = 255 /\ h[12] = 255
  BY <1>5, FormsSeq DEF WrittenIn
<1>7. WrittenIn(h, Compatible) <=> (\A k \in 1 .. 10 : h[k] = 0) /\ h[11] = 0 /\ h[12] = 0
  BY <1>5, FormsSeq DEF WrittenIn
<1>8. (\A k \in 1 .. 10 : h[k] = 0) <=>
        /\ h[1] = 0 /\ h[2] = 0 /\ h[3] = 0 /\ h[4] = 0 /\ h[5] = 0
        /\ h[6] = 0 /\ h[7] = 0 /\ h[8] = 0 /\ h[9] = 0 /\ h[10] = 0
  BY <1>5
<1>9. Embeds(s) <=> WrittenIn(h, Mapped) \/ WrittenIn(h, Compatible)
  BY <1>4, <1>6, <1>7, <1>8
<1>10. Embedded(s) = LastFour(h)
  <2>1. /\ (256 * h[13] + h[14]) \div 256 = h[13] /\ (256 * h[13] + h[14]) % 256 = h[14]
        /\ (256 * h[15] + h[16]) \div 256 = h[15] /\ (256 * h[15] + h[16]) % 256 = h[16]
    BY <1>1, Split
  <2>2. Embedded(s) = <<s[7] \div 256, s[7] % 256, s[8] \div 256, s[8] % 256>>
    BY DEF Embedded
  <2> QED
    BY <1>2, <2>1, <2>2, ZenonT(20) DEF LastFour
<1> QED
  BY <1>9, <1>10 DEF s

\* Every documented block of IPv4 is four octets and a number of bits.
LEMMA NetsShape ==
  ASSUME NEW class \in DOMAIN Nets4, NEW net \in Nets4[class]
  PROVE  net[1] \in V4 /\ net[2] \in Nat
<1>1. /\ 0 \in Octet /\ 10 \in Octet /\ 16 \in Octet /\ 64 \in Octet /\ 100 \in Octet
      /\ 127 \in Octet /\ 168 \in Octet /\ 169 \in Octet /\ 172 \in Octet /\ 192 \in Octet
      /\ 254 \in Octet /\ 8 \in Nat /\ 10 \in Nat /\ 12 \in Nat /\ 16 \in Nat /\ 32 \in Nat
  BY DEF Octet
<1>2. \/ net = <<<<127, 0, 0, 0>>, 8>> \/ net = <<<<0, 0, 0, 0>>, 8>>
      \/ net = <<<<169, 254, 0, 0>>, 16>> \/ net = <<<<10, 0, 0, 0>>, 8>>
      \/ net = <<<<172, 16, 0, 0>>, 12>> \/ net = <<<<192, 168, 0, 0>>, 16>>
      \/ net = <<<<100, 64, 0, 0>>, 10>> \/ net = <<<<0, 0, 0, 0>>, 32>>
  BY Classes
<1> QED
  BY <1>1, <1>2 DEF V4

\* A notation of an IPv4 address lies in the blocks the address lies in.
LEMMA WithinForm ==
  ASSUME NEW h \in Host6, NEW class \in DOMAIN Nets4
  PROVE  (\E net \in Nets4[class] : \E form \in {Mapped, Compatible} :
            InNet(h, form \o net[1], 96 + net[2]))
           <=> (WrittenIn(h, Mapped) \/ WrittenIn(h, Compatible)) /\ Within4(LastFour(h), class)
<1>1. ASSUME NEW net \in Nets4[class], NEW form \in {Mapped, Compatible}
      PROVE  InNet(h, form \o net[1], 96 + net[2]) <=>
               WrittenIn(h, form) /\ InNet(LastFour(h), net[1], net[2])
  <2>1. net[1] \in V4 /\ net[2] \in Nat
    BY NetsShape
  <2>2. PICK a, b, c, d \in Octet : net[1] = <<a, b, c, d>>
    BY <2>1 DEF V4
  <2>3. PICK n \in Nat : net[2] = n
    BY <2>1
  <2>4. form \in Seq(Octet) /\ Len(form) = 12
    BY FormsSeq
  <2>5. InNet(h, form \o <<a, b, c, d>>, 96 + n) <=>
          (\A k \in 1 .. 12 : h[k] = form[k]) /\ InNet(LastFour(h), <<a, b, c, d>>, n)
    BY <2>4, BehindForm
  <2> QED
    BY <2>2, <2>3, <2>5, Zenon DEF WrittenIn
<1> QED
  BY <1>1, Zenon DEF Within4

-----------------------------------------------------------------------------
(* The native classes of IPv6.                                             *)

\* A block fixes the octets before its border and leaves those behind it open.
LEMMA Prefix ==
  ASSUME NEW h \in Host6, NEW net \in Seq(Octet), NEW n \in Int, NEW q \in 0 .. 16
  PROVE  /\ Len(net) = 16 /\ n = 8 * q =>
              (InNet(h, net, n) <=> \A k \in 1 .. q : h[k] = net[k])
         /\ Len(net) = 16 /\ 8 * q < n /\ n < 8 * q + 8 /\ q < 16 =>
              (InNet(h, net, n) <=> /\ \A k \in 1 .. q : h[k] = net[k]
                                    /\ SameBits(h[q + 1], net[q + 1], n - 8 * q))
<1>1. SUFFICES ASSUME Len(net) = 16, 8 * q <= n, n < 8 * q + 8, 8 * q < n => q < 16
               PROVE  InNet(h, net, n) <=>
                        /\ \A k \in 1 .. q : h[k] = net[k]
                        /\ 8 * q < n => SameBits(h[q + 1], net[q + 1], n - 8 * q)
  OBVIOUS
<1>2. InNet(h, net, n) <=> \A k \in 1 .. 16 : SameBits(h[k], net[k], n - 8 * (k - 1))
  BY <1>1, SixteenOctets
<1>3. \A k \in 1 .. 16 : h[k] \in Octet /\ net[k] \in Octet
  <2>1. \A k \in 1 .. 16 : net[k] \in Octet
    BY <1>1, ElementOfSeq
  <2> QED
    BY <2>1, HostSeq
<1>4. ASSUME NEW k \in 1 .. q
      PROVE  k \in 1 .. 16 /\ (SameBits(h[k], net[k], n - 8 * (k - 1)) <=> h[k] = net[k])
  <2> DEFINE m == n - 8 * (k - 1)
  <2>1. k \in 1 .. 16 /\ m \in Int /\ m >= 8
    BY <1>1
  <2> HIDE DEF m
  <2>2. SameBits(h[k], net[k], m) <=> h[k] = net[k]
    BY <1>3, <2>1, Bits
  <2> QED
    BY <2>1, <2>2 DEF m
<1>5. ASSUME NEW k \in 1 .. 16, k > q + 1 \/ (k > q /\ n = 8 * q)
      PROVE  SameBits(h[k], net[k], n - 8 * (k - 1))
  <2> DEFINE m == n - 8 * (k - 1)
  <2>1. m \in Int /\ m <= 0
    BY <1>1, <1>5
  <2> HIDE DEF m
  <2>2. SameBits(h[k], net[k], m)
    BY <1>3, <2>1, Bits
  <2> QED
    BY <2>2 DEF m
<1>6. n - 8 * ((q + 1) - 1) = n - 8 * q
  OBVIOUS
<1>7. ASSUME InNet(h, net, n)
      PROVE  /\ \A k \in 1 .. q : h[k] = net[k]
             /\ 8 * q < n => SameBits(h[q + 1], net[q + 1], n - 8 * q)
  <2>1. \A k \in 1 .. q : h[k] = net[k]
    BY <1>2, <1>4, <1>7
  <2>2. 8 * q < n => q + 1 \in 1 .. 16
    BY <1>1
  <2> QED
    BY <1>2, <1>6, <1>7, <2>1, <2>2
<1>8. ASSUME \A k \in 1 .. q : h[k] = net[k],
             8 * q < n => SameBits(h[q + 1], net[q + 1], n - 8 * q)
      PROVE  InNet(h, net, n)
  <2>1. ASSUME NEW k \in 1 .. 16 PROVE SameBits(h[k], net[k], n - 8 * (k - 1))
    <3>1. CASE k \in 1 .. q
      BY <1>4, <1>8, <3>1
    <3>2. CASE k > q + 1 \/ (k > q /\ n = 8 * q)
      BY <1>5, <3>2
    <3>3. CASE k = q + 1 /\ 8 * q < n
      BY <1>6, <1>8, <3>3
    <3> QED
      BY <1>1, <3>1, <3>2, <3>3
  <2> QED
    BY <1>2, <2>1
<1> QED
  BY <1>7, <1>8

Within6(h, class) == \E net \in Nets6[class] : InNet(h, net[1], net[2])

LEMMA Classes6 ==
  /\ Nets6["loopback"] = {<<Zeros(15) \o <<1>>, 128>>}
  /\ Nets6["link_local"] = {<<<<254, 128>> \o Zeros(14), 10>>}
  /\ Nets6["private"] = {<<<<252>> \o Zeros(15), 7>>}
  /\ Nets6["always"] = {<<Zeros(16), 128>>}
  BY DEF Nets6

\* A segment of 0 is two octets of 0, and the last one of the loopback address is 0, 1.
LEMMA SegmentValues ==
  ASSUME NEW x \in Octet, NEW y \in Octet
  PROVE  /\ 256 * x + y = 0 <=> x = 0 /\ y = 0
         /\ 256 * x + y = 1 <=> x = 0 /\ y = 1
         /\ (256 * x + y) \div 64 = 1018 <=> x = 254 /\ y \div 64 = 2
         /\ (256 * x + y) \div 512 = 126 <=> x \div 2 = 126
  BY DEF Octet

LEMMA UnspecifiedNet ==
  ASSUME NEW h \in Host6
  PROVE  /\ Within6(h, "always") <=> \A k \in 1 .. 16 : h[k] = 0
         /\ \A e \in Nets6["always"] : Len(e[1]) = 16
<1>1. 16 \in Nat /\ 16 \in 0 .. 16 /\ 128 \in Int /\ 128 = 8 * 16
  OBVIOUS
<1>2. Zeros(16) \in Seq(Octet) /\ Len(Zeros(16)) = 16 /\ \A k \in 1 .. 16 : Zeros(16)[k] = 0
  BY <1>1, ZerosSeq
<1>3. InNet(h, Zeros(16), 128) <=> \A k \in 1 .. 16 : h[k] = Zeros(16)[k]
  BY <1>1, <1>2, Prefix, ZenonT(20)
<1>4. Within6(h, "always") <=> InNet(h, Zeros(16), 128)
  BY Classes6 DEF Within6
<1>5. \A e \in Nets6["always"] : Len(e[1]) = 16
  BY <1>2, Classes6
<1> QED
  BY <1>2, <1>3, <1>4, <1>5

LEMMA LoopbackNet ==
  ASSUME NEW h \in Host6
  PROVE  /\ Within6(h, "loopback") <=> (\A k \in 1 .. 15 : h[k] = 0) /\ h[16] = 1
         /\ \A e \in Nets6["loopback"] : Len(e[1]) = 16
<1> DEFINE one == <<1>>
           net == Zeros(15) \o one
<1>1. 15 \in Nat /\ 16 \in 0 .. 16 /\ 128 \in Int /\ 128 = 8 * 16
  OBVIOUS
<1>2. Zeros(15) \in Seq(Octet) /\ Len(Zeros(15)) = 15 /\ \A k \in 1 .. 15 : Zeros(15)[k] = 0
  BY <1>1, ZerosSeq
<1>3. one \in Seq(Octet) /\ Len(one) = 1 /\ one[1] = 1
  BY DEF Octet
<1>4. Within6(h, "loopback") <=> InNet(h, net, 128)
  BY Classes6 DEF Within6
<1>0. Nets6["loopback"] = {<<net, 128>>}
  BY Classes6
<1> HIDE DEF one
<1>5. /\ net \in Seq(Octet) /\ Len(net) = Len(Zeros(15)) + Len(one)
      /\ \A i \in 1 .. Len(Zeros(15)) : net[i] = Zeros(15)[i]
      /\ \A i \in 1 .. Len(one) : net[Len(Zeros(15)) + i] = one[i]
  <2>1. Zeros(15) \in Seq(Octet) /\ one \in Seq(Octet)
    BY <1>2, <1>3
  <2> QED
    BY <2>1, Join
<1> HIDE DEF net
<1>6. Len(net) = 16
  <2>1. Len(net) = 15 + 1
    BY <1>2, <1>3, <1>5, Zenon
  <2> QED
    BY <2>1
<1>7. (\A k \in 1 .. 15 : net[k] = 0) /\ net[16] = 1
  <2>1. \A k \in 1 .. 15 : net[k] = 0
    BY <1>2, <1>5
  <2>2. 1 \in 1 .. Len(one)
    BY <1>3
  <2>3. net[15 + 1] = 1
    BY <1>2, <1>3, <1>5, <2>2, Zenon
  <2>4. 15 + 1 = 16
    OBVIOUS
  <2> QED
    BY <2>1, <2>3, <2>4
<1>8. InNet(h, net, 128) <=> \A k \in 1 .. 16 : h[k] = net[k]
  <2>1. net \in Seq(Octet)
    BY <1>5
  <2> QED
    BY <1>1, <1>6, <2>1, Prefix, ZenonT(20)
<1>9. 1 .. 16 = 1 .. 15 \union {16}
  OBVIOUS
<1>10. \A e \in Nets6["loopback"] : Len(e[1]) = 16
  BY <1>0, <1>6
<1> QED
  BY <1>4, <1>7, <1>8, <1>9, <1>10

LEMMA LinkLocalNet ==
  ASSUME NEW h \in Host6
  PROVE  /\ Within6(h, "link_local") <=> h[1] = 254 /\ h[2] \div 64 = 2
         /\ \A e \in Nets6["link_local"] : Len(e[1]) = 16
<1> DEFINE head == <<254, 128>>
           net == head \o Zeros(14)
<1>1. 14 \in Nat /\ 1 \in 0 .. 16 /\ 10 \in Int /\ 8 * 1 < 10 /\ 10 < 8 * 1 + 8 /\ 1 < 16
  OBVIOUS
<1>2. Zeros(14) \in Seq(Octet) /\ Len(Zeros(14)) = 14
  BY <1>1, ZerosSeq
<1>3. head \in Seq(Octet) /\ Len(head) = 2 /\ head[1] = 254 /\ head[2] = 128
  BY DEF Octet
<1>4. Within6(h, "link_local") <=> InNet(h, net, 10)
  BY Classes6 DEF Within6
<1>0. Nets6["link_local"] = {<<net, 10>>}
  BY Classes6
<1> HIDE DEF head
<1>5. /\ net \in Seq(Octet) /\ Len(net) = Len(head) + Len(Zeros(14))
      /\ \A i \in 1 .. Len(head) : net[i] = head[i]
  <2>1. Zeros(14) \in Seq(Octet) /\ head \in Seq(Octet)
    BY <1>2, <1>3
  <2> QED
    BY <2>1, Join
<1> HIDE DEF net
<1>6. Len(net) = 16
  <2>1. Len(net) = 2 + 14
    BY <1>2, <1>3, <1>5, Zenon
  <2> QED
    BY <2>1
<1>7. net[1] = 254 /\ net[2] = 128
  <2>1. 1 \in 1 .. Len(head) /\ 2 \in 1 .. Len(head)
    BY <1>3
  <2>2. net[1] = head[1] /\ net[2] = head[2]
    BY <1>5, <2>1
  <2> QED
    BY <1>3, <2>2
<1>8. InNet(h, net, 10) <=>
        (\A k \in 1 .. 1 : h[k] = net[k]) /\ SameBits(h[1 + 1], net[1 + 1], 10 - 8 * 1)
  <2>1. net \in Seq(Octet)
    BY <1>5
  <2> QED
    BY <1>1, <1>6, <2>1, Prefix
<1>9. 1 + 1 = 2 /\ 10 - 8 * 1 = 2 /\ 1 .. 1 = {1} /\ 128 \div 64 = 2
  OBVIOUS
<1>10. h[2] \in Octet /\ 128 \in Octet
  BY HostSeq DEF Octet
<1>11. SameBits(h[2], 128, 2) <=> h[2] \div 64 = 128 \div 64
  BY <1>10, Bits
<1>12. \A e \in Nets6["link_local"] : Len(e[1]) = 16
  BY <1>0, <1>6
<1> QED
  BY <1>4, <1>7, <1>8, <1>9, <1>11, <1>12

LEMMA UniqueLocalNet ==
  ASSUME NEW h \in Host6
  PROVE  /\ Within6(h, "private") <=> h[1] \div 2 = 126
         /\ \A e \in Nets6["private"] : Len(e[1]) = 16
<1> DEFINE head == <<252>>
           net == head \o Zeros(15)
<1>1. 15 \in Nat /\ 0 \in 0 .. 16 /\ 7 \in Int /\ 8 * 0 < 7 /\ 7 < 8 * 0 + 8 /\ 0 < 16
  OBVIOUS
<1>2. Zeros(15) \in Seq(Octet) /\ Len(Zeros(15)) = 15
  BY <1>1, ZerosSeq
<1>3. head \in Seq(Octet) /\ Len(head) = 1 /\ head[1] = 252
  BY DEF Octet
<1>4. Within6(h, "private") <=> InNet(h, net, 7)
  BY Classes6 DEF Within6
<1>0. Nets6["private"] = {<<net, 7>>}
  BY Classes6
<1> HIDE DEF head
<1>5. /\ net \in Seq(Octet) /\ Len(net) = Len(head) + Len(Zeros(15))
      /\ \A i \in 1 .. Len(head) : net[i] = head[i]
  <2>1. Zeros(15) \in Seq(Octet) /\ head \in Seq(Octet)
    BY <1>2, <1>3
  <2> QED
    BY <2>1, Join
<1> HIDE DEF net
<1>6. Len(net) = 16
  <2>1. Len(net) = 1 + 15
    BY <1>2, <1>3, <1>5, Zenon
  <2> QED
    BY <2>1
<1>7. net[1] = 252
  <2>1. 1 \in 1 .. Len(head)
    BY <1>3
  <2>2. net[1] = head[1]
    BY <1>5, <2>1
  <2> QED
    BY <1>3, <2>2
<1>8. InNet(h, net, 7) <=>
        (\A k \in 1 .. 0 : h[k] = net[k]) /\ SameBits(h[0 + 1], net[0 + 1], 7 - 8 * 0)
  <2>1. net \in Seq(Octet)
    BY <1>5
  <2> QED
    BY <1>1, <1>6, <2>1, Prefix
<1>9. 0 + 1 = 1 /\ 7 - 8 * 0 = 7 /\ 1 .. 0 = {} /\ 252 \div 2 = 126
  OBVIOUS
<1>10. h[1] \in Octet /\ 252 \in Octet
  BY HostSeq DEF Octet
<1>11. SameBits(h[1], 252, 7) <=> h[1] \div 2 = 252 \div 2
  BY <1>10, Bits
<1>12. \A e \in Nets6["private"] : Len(e[1]) = 16
  BY <1>0, <1>6
<1> QED
  BY <1>4, <1>7, <1>8, <1>9, <1>11, <1>12

\* The rules for IPv6 proper are the documented blocks.
LEMMA NativeIsNets ==
  ASSUME NEW p \in Policy, NEW h \in Host6
  PROVE  BlockedNative(p, Segments(h)) <=>
           \E class \in DOMAIN Nets4 : Closed(p, class) /\ Within6(h, class)
<1> DEFINE s == Segments(h)
<1>1. /\ h[1] \in Octet /\ h[2] \in Octet /\ h[3] \in Octet /\ h[4] \in Octet
      /\ h[5] \in Octet /\ h[6] \in Octet /\ h[7] \in Octet /\ h[8] \in Octet
      /\ h[9] \in Octet /\ h[10] \in Octet /\ h[11] \in Octet /\ h[12] \in Octet
      /\ h[13] \in Octet /\ h[14] \in Octet /\ h[15] \in Octet /\ h[16] \in Octet
  BY HostSeq
<1>2. /\ s[1] = 256 * h[1] + h[2] /\ s[2] = 256 * h[3] + h[4]
      /\ s[3] = 256 * h[5] + h[6] /\ s[4] = 256 * h[7] + h[8]
      /\ s[5] = 256 * h[9] + h[10] /\ s[6] = 256 * h[11] + h[12]
      /\ s[7] = 256 * h[13] + h[14] /\ s[8] = 256 * h[15] + h[16]
      /\ s \in [1 .. 8 -> Nat]
  BY SegmentsOfHost
<1> HIDE DEF s
<1>3. /\ s[1] = 0 <=> h[1] = 0 /\ h[2] = 0
      /\ s[2] = 0 <=> h[3] = 0 /\ h[4] = 0
      /\ s[3] = 0 <=> h[5] = 0 /\ h[6] = 0
      /\ s[4] = 0 <=> h[7] = 0 /\ h[8] = 0
      /\ s[5] = 0 <=> h[9] = 0 /\ h[10] = 0
      /\ s[6] = 0 <=> h[11] = 0 /\ h[12] = 0
      /\ s[7] = 0 <=> h[13] = 0 /\ h[14] = 0
      /\ s[8] = 0 <=> h[15] = 0 /\ h[16] = 0
      /\ s[8] = 1 <=> h[15] = 0 /\ h[16] = 1
  BY <1>1, <1>2, SegmentValues
<1>4. \A z \in Nat :
        s = <<0, 0, 0, 0, 0, 0, 0, z>> <=>
          /\ s[1] = 0 /\ s[2] = 0 /\ s[3] = 0 /\ s[4] = 0
          /\ s[5] = 0 /\ s[6] = 0 /\ s[7] = 0 /\ s[8] = z
  <2> TAKE z \in Nat
  <2>1. 1 .. 8 = {1, 2, 3, 4, 5, 6, 7, 8}
    OBVIOUS
  <2>2. s \in [1 .. 8 -> Nat]
    BY <1>2
  <2> DEFINE t == <<0, 0, 0, 0, 0, 0, 0, z>>
  <2>3. /\ t \in [1 .. 8 -> Nat] /\ t[1] = 0 /\ t[2] = 0 /\ t[3] = 0 /\ t[4] = 0
        /\ t[5] = 0 /\ t[6] = 0 /\ t[7] = 0 /\ t[8] = z
    OBVIOUS
  <2> HIDE DEF t
  <2>4. s = t <=> \A k \in 1 .. 8 : s[k] = t[k]
    BY <2>2, <2>3
  <2> QED
    BY <2>1, <2>3, <2>4 DEF t
<1>5. /\ 1 .. 16 = {1, 2, 3, 4, 5, 6, 7, 8, 9, 10, 11, 12, 13, 14, 15, 16}
      /\ 1 .. 15 = {1, 2, 3, 4, 5, 6, 7, 8, 9, 10, 11, 12, 13, 14, 15}
      /\ 0 \in Nat /\ 1 \in Nat
  OBVIOUS
<1>6. s = <<0, 0, 0, 0, 0, 0, 0, 0>> <=> Within6(h, "always")
  <2>1. Within6(h, "always") <=> \A k \in 1 .. 16 : h[k] = 0
    BY UnspecifiedNet
  <2>2. Within6(h, "always") <=>
          /\ h[1] = 0 /\ h[2] = 0 /\ h[3] = 0 /\ h[4] = 0 /\ h[5] = 0 /\ h[6] = 0
          /\ h[7] = 0 /\ h[8] = 0 /\ h[9] = 0 /\ h[10] = 0 /\ h[11] = 0 /\ h[12] = 0
          /\ h[13] = 0 /\ h[14] = 0 /\ h[15] = 0 /\ h[16] = 0
    BY <1>5, <2>1
  <2> QED
    BY <1>3, <1>4, <1>5, <2>2
<1>7. s = <<0, 0, 0, 0, 0, 0, 0, 1>> <=> Within6(h, "loopback")
  <2>1. Within6(h, "loopback") <=> (\A k \in 1 .. 15 : h[k] = 0) /\ h[16] = 1
    BY LoopbackNet
  <2>2. Within6(h, "loopback") <=>
          /\ h[1] = 0 /\ h[2] = 0 /\ h[3] = 0 /\ h[4] = 0 /\ h[5] = 0 /\ h[6] = 0
          /\ h[7] = 0 /\ h[8] = 0 /\ h[9] = 0 /\ h[10] = 0 /\ h[11] = 0 /\ h[12] = 0
          /\ h[13] = 0 /\ h[14] = 0 /\ h[15] = 0 /\ h[16] = 1
    BY <1>5, <2>1
  <2> QED
    BY <1>3, <1>4, <1>5, <2>2
<1>8. s[1] \div 64 = 1018 <=> Within6(h, "link_local")
  BY <1>1, <1>2, SegmentValues, LinkLocalNet
<1>9. s[1] \div 512 = 126 <=> Within6(h, "private")
  BY <1>1, <1>2, SegmentValues, UniqueLocalNet
<1>10. (\E class \in DOMAIN Nets4 : Closed(p, class) /\ Within6(h, class)) <=>
         \/ Within6(h, "always")
         \/ p.loopback /\ Within6(h, "loopback")
         \/ p.link_local /\ Within6(h, "link_local")
         \/ p.private /\ Within6(h, "private")
  BY Classes DEF Closed
<1>11. BlockedNative(p, s) <=>
         \/ s = <<0, 0, 0, 0, 0, 0, 0, 0>>
         \/ p.loopback /\ s = <<0, 0, 0, 0, 0, 0, 0, 1>>
         \/ p.link_local /\ s[1] \div 64 = 1018
         \/ p.private /\ s[1] \div 512 = 126
  BY Zenon DEF BlockedNative
<1> DEFINE A == s = <<0, 0, 0, 0, 0, 0, 0, 0>>
           B == s = <<0, 0, 0, 0, 0, 0, 0, 1>>
           C == s[1] \div 64 = 1018
           D == s[1] \div 512 = 126
<1>12. BlockedNative(p, s) <=>
         A \/ (p.loopback /\ B) \/ (p.link_local /\ C) \/ (p.private /\ D)
  BY <1>11, ZenonT(20)
<1>13. /\ A <=> Within6(h, "always")
       /\ B <=> Within6(h, "loopback")
       /\ C <=> Within6(h, "link_local")
       /\ D <=> Within6(h, "private")
  BY <1>6, <1>7, <1>8, <1>9, Zenon
<1> HIDE DEF A, B, C, D
<1> QED
  BY <1>10, <1>12, <1>13 DEF s

-----------------------------------------------------------------------------
(* The policy and the blocks.                                              *)

\* No block of one family holds an address of the other.
LEMMA LengthsDiffer ==
  ASSUME NEW host, NEW net, NEW n, Len(host) # Len(net)
  PROVE  ~ InNet(host, net, n)
  BY DEF InNet

\* The documented blocks of the closed classes.
LEMMA ForbiddenClosed ==
  ASSUME NEW p, NEW host
  PROVE  Forbidden(p, host) <=>
           \E class \in DOMAIN Nets4 :
             /\ Closed(p, class)
             /\ \/ Within4(host, class)
                \/ \E net \in Nets4[class] : \E form \in {Mapped, Compatible} :
                     InNet(host, form \o net[1], 96 + net[2])
                \/ Within6(host, class)
  BY Zenon DEF Forbidden, Closed, Within4, Within6

\* The blocks of IPv6 have 16 octets, those of IPv4 have 4.
LEMMA NetLengths ==
  ASSUME NEW class \in DOMAIN Nets4
  PROVE  /\ \A net \in Nets4[class] :
              Len(net[1]) = 4 /\ \A form \in {Mapped, Compatible} : Len(form \o net[1]) = 16
         /\ \A net \in Nets6[class] : Len(net[1]) = 16
<1>1. ASSUME NEW net \in Nets4[class]
      PROVE  Len(net[1]) = 4 /\ \A form \in {Mapped, Compatible} : Len(form \o net[1]) = 16
  <2> DEFINE o == net[1]
  <2>1. PICK a, b, c, d \in Octet : o = <<a, b, c, d>>
    BY NetsShape DEF V4
  <2>2. o \in Seq(Octet) /\ Len(o) = 4
    BY <2>1
  <2> HIDE DEF o
  <2>3. ASSUME NEW form \in {Mapped, Compatible} PROVE Len(form \o o) = 16
    <3>1. form \in Seq(Octet) /\ Len(form) = 12
      BY FormsSeq
    <3>2. Len(form \o o) = Len(form) + Len(o)
      <4>1. form \in Seq(Octet) /\ o \in Seq(Octet)
        BY <2>2, <3>1
      <4> QED
        BY <4>1, Join
    <3>3. Len(form \o o) = 12 + 4
      BY <2>2, <3>1, <3>2, Zenon
    <3> QED
      BY <3>3
  <2> QED
    BY <2>2, <2>3 DEF o
<1>2. [k \in 1 .. 16 |-> 0] \in Host6
  BY DEF Host6, Octet
<1>3. \A net \in Nets6[class] : Len(net[1]) = 16
  BY <1>2, Classes, UnspecifiedNet, LoopbackNet, LinkLocalNet, UniqueLocalNet
<1> QED
  BY <1>1, <1>3

\* An address as the relay uses it: the octets of its family and a port of two bytes.
Literals == [atyp : {"v4", "v6"}, host : Seq(Octet), port : Seq(Octet)]
IsAddress(a) ==
  /\ a \in Literals
  /\ Len(a.host) = (IF a.atyp = "v4" THEN 4 ELSE 16)
  /\ Len(a.port) = 2

LEMMA FourOfSeq ==
  ASSUME NEW S, NEW s \in Seq(S), Len(s) = 4
  PROVE  /\ s = <<s[1], s[2], s[3], s[4]>>
         /\ s[1] \in S /\ s[2] \in S /\ s[3] \in S /\ s[4] \in S
<1>1. 1 \in 1 .. Len(s) /\ 2 \in 1 .. Len(s) /\ 3 \in 1 .. Len(s) /\ 4 \in 1 .. Len(s)
  OBVIOUS
<1>2. s[1] \in S /\ s[2] \in S /\ s[3] \in S /\ s[4] \in S
  BY <1>1, ElementOfSeq
<1> DEFINE t == <<s[1], s[2], s[3], s[4]>>
<1>3. t \in Seq(S) /\ Len(t) = 4 /\ t[1] = s[1] /\ t[2] = s[2] /\ t[3] = s[3] /\ t[4] = s[4]
  BY <1>2
<1> HIDE DEF t
<1>4. 1 .. 4 = {1, 2, 3, 4}
  OBVIOUS
<1>5. \A i \in 1 .. Len(s) : s[i] = t[i]
  BY <1>3, <1>4
<1>6. s = t
  BY <1>3, <1>5, SeqEqual
<1> QED
  BY <1>2, <1>6 DEF t

LEMMA SixteenOfSeq ==
  ASSUME NEW h \in Seq(Octet), Len(h) = 16
  PROVE  h \in Host6
<1>1. h \in [1 .. Len(h) -> Octet]
  BY LenProperties
<1> QED
  BY <1>1 DEF Host6

\* Whatever the address and the policy: is_blocked answers yes exactly if the address lies,
\* in one of its notations, in a documented block of a class that is closed.
THEOREM BlockedIsDocumented ==
  ASSUME NEW p \in Policy, NEW a, IsAddress(a)
  PROVE  IsBlocked(p, a) <=> Forbidden(p, a.host)
<1> DEFINE host == a.host
<1>0. host \in Seq(Octet) /\ a.atyp \in {"v4", "v6"}
  BY DEF IsAddress, Literals
<1>1. CASE a.atyp = "v4"
  <2>1. Len(host) = 4
    BY <1>1 DEF IsAddress
  <2>2. PICK w, x, y, z \in Octet : host = <<w, x, y, z>>
    BY <1>0, <2>1, FourOfSeq
  <2>3. IsBlocked(p, a) <=> BlockedV4(p, host)
    BY <1>1 DEF IsBlocked
  <2>4. BlockedV4(p, host) <=>
          \E class \in DOMAIN Nets4 : Closed(p, class) /\ Within4(host, class)
    BY <2>2, BlockedIsNets
  <2> HIDE DEF host
  <2>5. ASSUME NEW class \in DOMAIN Nets4
        PROVE  /\ ~ Within6(host, class)
               /\ ~ \E net \in Nets4[class] : \E form \in {Mapped, Compatible} :
                      InNet(host, form \o net[1], 96 + net[2])
    <3>1. 4 # 16
      OBVIOUS
    <3>2. \A net \in Nets6[class] : Len(host) # Len(net[1])
      BY <2>1, <3>1, NetLengths
    <3>3. \A net \in Nets4[class] : \A form \in {Mapped, Compatible} : Len(host) # Len(form \o net[1])
      BY <2>1, <3>1, NetLengths
    <3> QED
      BY <3>2, <3>3, LengthsDiffer, Zenon DEF Within6
  <2>6. Forbidden(p, host) <=>
          \E class \in DOMAIN Nets4 : Closed(p, class) /\ Within4(host, class)
    BY <2>5, ForbiddenClosed, Zenon
  <2> QED
    BY <2>3, <2>4, <2>6 DEF host
<1>2. CASE a.atyp = "v6"
  <2> DEFINE s == Segments(host)
  <2>1. Len(host) = 16
    BY <1>2 DEF IsAddress
  <2>2. host \in Host6
    BY <1>0, <2>1, SixteenOfSeq
  <2>3. IsBlocked(p, a) <=> BlockedNative(p, s) \/ (Embeds(s) /\ BlockedV4(p, Embedded(s)))
    BY <1>2 DEF IsBlocked, BlockedV6
  <2> HIDE DEF host
  <2>4. BlockedNative(p, s) <=>
          \E class \in DOMAIN Nets4 : Closed(p, class) /\ Within6(host, class)
    BY <2>2, NativeIsNets
  <2> DEFINE written == WrittenIn(host, Mapped) \/ WrittenIn(host, Compatible)
             o == LastFour(host)
  <2>5. (Embeds(s) <=> written) /\ Embedded(s) = o
    BY <2>2, EmbedsIsForm
  <2>6. BlockedV4(p, o) <=> \E class \in DOMAIN Nets4 : Closed(p, class) /\ Within4(o, class)
    <3>1. host[13] \in Octet /\ host[14] \in Octet /\ host[15] \in Octet /\ host[16] \in Octet
      BY <2>2, HostSeq
    <3> QED
      BY <3>1, BlockedIsNets DEF LastFour
  <2> HIDE DEF s, o, written
  <2>7. ASSUME NEW class \in DOMAIN Nets4
        PROVE  /\ ~ Within4(host, class)
               /\ (\E net \in Nets4[class] : \E form \in {Mapped, Compatible} :
                     InNet(host, form \o net[1], 96 + net[2])) <=> written /\ Within4(o, class)
    <3>1. \A net \in Nets4[class] : Len(host) # Len(net[1])
      <4>1. \A net \in Nets4[class] : Len(net[1]) = 4
        BY NetLengths
      <4>2. 4 # 16
        OBVIOUS
      <4> QED
        BY <2>1, <4>1, <4>2, Zenon
    <3>2. ~ Within4(host, class)
      BY <3>1, LengthsDiffer, Zenon DEF Within4
    <3> QED
      BY <2>2, <3>2, WithinForm DEF written, o
  <2>8. Forbidden(p, host) <=>
          \E class \in DOMAIN Nets4 :
            Closed(p, class) /\ (Within6(host, class) \/ (written /\ Within4(o, class)))
    BY <2>7, ForbiddenClosed, Zenon
  <2>9. IsBlocked(p, a) <=>
          \/ \E class \in DOMAIN Nets4 : Closed(p, class) /\ Within6(host, class)
          \/ written /\ \E class \in DOMAIN Nets4 : Closed(p, class) /\ Within4(o, class)
    BY <2>3, <2>4, <2>5, <2>6, Zenon
  <2>10. IsBlocked(p, a) <=> Forbidden(p, host)
    BY <2>8, <2>9, Zenon
  <2> QED
    BY <2>10 DEF host
<1> QED
  BY <1>0, <1>1, <1>2

-----------------------------------------------------------------------------
(* Addresses out of datagrams and out of answers.                          *)

LEMMA BytesAreOctets == Byte = Octet /\ Bytes = Seq(Octet)
  BY DatagramAssumption DEF Byte, Bytes, Octet

\* The fields of an address, without the kind a result of the parser carries.
Fields(t) == [f \in DOMAIN NoTarget |-> t[f]]

LEMMA FieldsOf ==
  ASSUME NEW t
  PROVE  Fields(t) = [atyp |-> t.atyp, host |-> t.host, port |-> t.port]
<1>1. DOMAIN NoTarget = {"atyp", "host", "port"}
  BY DEF NoTarget
<1> QED
  BY <1>1 DEF Fields

\* What the parser makes of an address of n octets.
LEMMA FixedIsAddress ==
  ASSUME NEW a \in Seq(Octet), NEW atyp \in {"v4", "v6"}, NEW n \in Nat,
         n = (IF atyp = "v4" THEN 4 ELSE 16), Fixed(a, atyp, n).kind = "ok"
  PROVE  Fixed(a, atyp, n).atyp = atyp /\ IsAddress(Fields(Fixed(a, atyp, n)))
<1> DEFINE host == SubSeq(a, 2, 1 + n)
           port == SubSeq(a, 2 + n, 3 + n)
<1>1. Len(a) \in Nat
  BY LenProperties
<1>2. ~ Len(a) < 3 + n
  BY DEF Fixed, Truncated
<1>3. Fixed(a, atyp, n) = [kind |-> "ok", atyp |-> atyp, host |-> host, port |-> port]
  BY <1>2 DEF Fixed
<1>4. host \in Seq(Octet) /\ Len(host) = n
  <2>1. 2 \in Nat \ {0} /\ 1 + n \in 2 - 1 .. Len(a) /\ (1 + n) - 2 + 1 = n
    BY <1>1, <1>2
  <2>2. host \in Seq(Octet) /\ Len(host) = (1 + n) - 2 + 1
    BY <2>1, Slice
  <2> QED
    BY <2>1, <2>2
<1>5. port \in Seq(Octet) /\ Len(port) = 2
  <2>1. 2 + n \in Nat \ {0} /\ 3 + n \in (2 + n) - 1 .. Len(a) /\ (3 + n) - (2 + n) + 1 = 2
    BY <1>1, <1>2
  <2>2. port \in Seq(Octet) /\ Len(port) = (3 + n) - (2 + n) + 1
    BY <2>1, Slice
  <2> QED
    BY <2>1, <2>2
<1> HIDE DEF host, port
<1>6. Fields(Fixed(a, atyp, n)) = [atyp |-> atyp, host |-> host, port |-> port]
  BY <1>3, FieldsOf
<1>7. IsAddress([atyp |-> atyp, host |-> host, port |-> port])
  BY <1>4, <1>5 DEF IsAddress, Literals
<1> QED
  BY <1>3, <1>6, <1>7

\* What the parser makes of a name.
LEMMA DomainIsName ==
  ASSUME NEW a \in Seq(Octet), DecodeDomain(a).kind = "ok"
  PROVE  LET t == DecodeDomain(a)
         IN  t.atyp = "domain" /\ t.port \in Seq(Octet) /\ Len(t.port) = 2
<1>1. Len(a) \in Nat /\ \A i \in 1 .. Len(a) : a[i] \in Octet
  BY LenProperties, ElementOfSeq
<1>2. ~ Len(a) < 2 /\ ~ Len(a) < 4 + a[2]
  BY DEF DecodeDomain, Truncated
<1> DEFINE name == SubSeq(a, 3, 2 + a[2])
           port == SubSeq(a, 3 + a[2], 4 + a[2])
<1>3. Valid(name)
  BY <1>2 DEF DecodeDomain, Malformed
<1>4. DecodeDomain(a) = [kind |-> "ok", atyp |-> "domain", host |-> name, port |-> port]
  BY <1>2, <1>3 DEF DecodeDomain
<1>5. port \in Seq(Octet) /\ Len(port) = 2
  <2>1. a[2] \in Nat
    <3>1. 2 \in 1 .. Len(a)
      BY <1>1, <1>2
    <3>2. a[2] \in Octet
      BY <1>1, <3>1
    <3>3. Octet \subseteq Nat
      BY DEF Octet
    <3> QED
      BY <3>2, <3>3
  <2>2. /\ 3 + a[2] \in Nat \ {0} /\ 4 + a[2] \in (3 + a[2]) - 1 .. Len(a)
        /\ (4 + a[2]) - (3 + a[2]) + 1 = 2
    BY <1>1, <1>2, <2>1
  <2>3. port \in Seq(Octet) /\ Len(port) = (4 + a[2]) - (3 + a[2]) + 1
    BY <2>2, Slice
  <2> QED
    BY <2>2, <2>3
<1> HIDE DEF port, name
<1> QED
  BY <1>4, <1>5

\* An address that was parsed: a literal one or a name, as the type says.
LEMMA DecodedAddress ==
  ASSUME NEW a \in Bytes, Decode(a).kind = "ok"
  PROVE  LET t == Decode(a) IN
         /\ a[1] \in {1, 3, 4} /\ t.port \in Seq(Octet) /\ Len(t.port) = 2
         /\ IF a[1] = 3 THEN t.atyp = "domain"
            ELSE t.atyp \in {"v4", "v6"} /\ IsAddress(Fields(t))
<1>1. a \in Seq(Octet)
  BY BytesAreOctets
<1>2. a[1] \in {1, 3, 4}
  BY OtherAtyp
<1>3. CASE a[1] = 3
  <2>1. Decode(a) = DecodeDomain(a)
    BY <1>3 DEF Decode
  <2> QED
    BY <1>1, <1>3, <2>1, DomainIsName
<1>4. ASSUME NEW atyp \in {"v4", "v6"}, NEW n \in Nat, n = (IF atyp = "v4" THEN 4 ELSE 16),
             Decode(a) = Fixed(a, atyp, n), a[1] # 3
      PROVE  LET t == Decode(a)
             IN  /\ t.atyp \in {"v4", "v6"} /\ IsAddress(Fields(t))
                 /\ t.port \in Seq(Octet) /\ Len(t.port) = 2
  <2> DEFINE t == Decode(a)
  <2>1. t.atyp = atyp /\ IsAddress(Fields(t))
    BY <1>1, <1>4, FixedIsAddress
  <2> HIDE DEF t
  <2>2. Fields(t).port = t.port
    BY FieldsOf
  <2>3. Fields(t).port \in Seq(Octet) /\ Len(Fields(t).port) = 2
    BY <2>1 DEF IsAddress, Literals
  <2> QED
    BY <2>1, <2>2, <2>3 DEF t
<1>5. CASE a[1] = 1
  <2>1. Decode(a) = Fixed(a, "v4", 4)
    BY <1>5, DatagramAssumption DEF Decode
  <2> QED
    BY <1>4, <1>5, <2>1
<1>6. CASE a[1] = 4
  <2>1. Decode(a) = Fixed(a, "v6", 16)
    BY <1>6, DatagramAssumption DEF Decode
  <2> QED
    BY <1>4, <1>6, <2>1
<1> QED
  BY <1>2, <1>3, <1>5, <1>6

\* An address of an answer, with the port the client asked for.
LEMMA AnswerIsAddress ==
  ASSUME NEW a \in Address, NEW port \in Seq(Octet), Len(port) = 2
  PROVE  /\ IsAddress(a)
         /\ IsAddress([a EXCEPT !.port = port])
         /\ [a EXCEPT !.port = port].atyp = a.atyp /\ [a EXCEPT !.port = port].host = a.host
<1>1. /\ a = [atyp |-> a.atyp, host |-> a.host, port |-> a.port]
      /\ a.port \in Octet \X Octet /\ a.atyp \in {"v4", "v6"}
      /\ a.atyp = "v4" => a.host \in V4
      /\ a.atyp = "v6" => a.host \in Host6
  BY DEF Address, Host6
<1>2. a.host \in Seq(Octet) /\ Len(a.host) = (IF a.atyp = "v4" THEN 4 ELSE 16)
  <2>1. CASE a.atyp = "v4"
    <3>1. a.host \in V4
      BY <1>1, <2>1
    <3>2. PICK w, x, y, z \in Octet : a.host = <<w, x, y, z>>
      BY <3>1 DEF V4
    <3>3. <<w, x, y, z>> \in Seq(Octet) /\ Len(<<w, x, y, z>>) = 4
      OBVIOUS
    <3> QED
      BY <2>1, <3>2, <3>3
  <2>2. CASE a.atyp = "v6"
    <3>1. a.host \in Host6
      BY <1>1, <2>2
    <3> QED
      BY <2>2, <3>1, HostSeq
  <2> QED
    BY <1>1, <2>1, <2>2
<1>3. a.port \in Seq(Octet) /\ Len(a.port) = 2
  <2>1. PICK x, y \in Octet : a.port = <<x, y>>
    BY <1>1
  <2>2. <<x, y>> \in Seq(Octet) /\ Len(<<x, y>>) = 2
    OBVIOUS
  <2> QED
    BY <2>1, <2>2
<1>4. [a EXCEPT !.port = port] = [atyp |-> a.atyp, host |-> a.host, port |-> port]
  BY <1>1
<1>5. IsAddress(a)
  BY <1>1, <1>2, <1>3 DEF IsAddress, Literals
<1>6. IsAddress([atyp |-> a.atyp, host |-> a.host, port |-> port])
  BY <1>1, <1>2 DEF IsAddress, Literals
<1> QED
  BY <1>4, <1>5, <1>6

-----------------------------------------------------------------------------
(* The inductive invariant.                                                *)

\* A received datagram whose address the relay uses as it stands.
ReadAsLiteral == Complete /\ datagram.address.atyp \in {"v4", "v6"}
ReadAsName == Complete /\ datagram.address.atyp = "domain"

DatagramTypeOK ==
  /\ policy \in Policies /\ input \in Bytes /\ family \in {"v4", "v6"}
  /\ answer \in Seq(Address)
  /\ stage \in {"waiting", "received", "addressed", "dropped", "blocked", "sent", "answered"}
  /\ target = NoTarget \/ IsAddress(target)

\* A target is an address, and it is the one the client wrote if that was no name.
TargetInv ==
  /\ stage \in {"waiting", "received"} => target = NoTarget
  /\ stage \in {"addressed", "sent", "answered"} => IsAddress(target)
  /\ target # NoTarget => Complete
  /\ target # NoTarget /\ ReadAsLiteral => target = Fields(datagram.address)
  /\ stage = "dropped" /\ target = NoTarget => ~ Complete \/ ReadAsName

\* What the policy was asked decides how the datagram ends.
VerdictInv ==
  /\ stage \in {"sent", "answered"} => ~ IsBlocked(policy, target)
  /\ stage = "blocked" =>
       IF target # NoTarget
         THEN IsBlocked(policy, target)
         ELSE \A k \in DOMAIN answer : answer[k].atyp = family => IsBlocked(policy, answer[k])

ReplyInv ==
  stage = "answered" => reply.data \in Payloads /\ reply.framed = Encap(target, reply.data)

DInv == DatagramTypeOK /\ TargetInv /\ VerdictInv /\ ReplyInv

LEMMA NoTargetIsNone == ASSUME NEW a, IsAddress(a) PROVE a # NoTarget
  BY DEF IsAddress, Literals, NoTarget

\* What a complete datagram's address is.
LEMMA CompleteAddress ==
  ASSUME NEW b \in Bytes, DecapRef(b).kind = "ok"
  PROVE  LET a == SubSeq(b, 4, Len(b)) IN
         /\ Len(b) >= 4 /\ a \in Bytes /\ Len(a) = Len(b) - 3 /\ a[1] = b[4]
         /\ Decode(a).kind = "ok" /\ DecapRef(b).address = Decode(a)
         /\ DecapRef(b).frag = b[3]
<1> DEFINE a == SubSeq(b, 4, Len(b))
<1>1. b \in Seq(Byte) /\ Len(b) \in Nat
  BY ByteSeq
<1>2. ~ Len(b) < 4
  BY DEF DecapRef, Truncated
<1>3. /\ 4 \in Nat \ {0} /\ Len(b) \in 4 - 1 .. Len(b)
      /\ Len(b) - 4 + 1 = Len(b) - 3 /\ 1 \in 1 .. Len(b) - 4 + 1 /\ 4 - 1 + 1 = 4
  BY <1>1, <1>2
<1>4. /\ a \in Seq(Byte) /\ Len(a) = Len(b) - 4 + 1
      /\ \A i \in 1 .. Len(b) - 4 + 1 : a[i] = b[4 - 1 + i]
  BY <1>1, <1>3, Slice
<1>5. a \in Bytes /\ Len(a) = Len(b) - 3 /\ a[1] = b[4]
  BY <1>3, <1>4 DEF Bytes
<1> HIDE DEF a
<1>6. DecapRef(b) = IF Decode(a).kind # "ok" THEN Decode(a)
                    ELSE [kind |-> "ok", frag |-> b[3], address |-> Decode(a),
                          data |-> SubSeq(b, 4 + Len(Encode(Decode(a))), Len(b))]
  BY <1>2 DEF DecapRef, a
<1>7. Decode(a).kind = "ok"
  BY <1>6
<1>8. DecapRef(b) = [kind |-> "ok", frag |-> b[3], address |-> Decode(a),
                     data |-> SubSeq(b, 4 + Len(Encode(Decode(a))), Len(b))]
  BY <1>6, <1>7
<1>9. DecapRef(b).address = Decode(a) /\ DecapRef(b).frag = b[3]
  BY <1>8
<1> QED
  BY <1>1, <1>2, <1>5, <1>7, <1>9 DEF a

LEMMA InputIsBytes == ASSUME DatagramTypeOK PROVE input \in Bytes /\ policy \in Policy
  BY DatagramAssumption DEF DatagramTypeOK

\* The address of a complete datagram, as the relay uses it.
LEMMA CompleteInput ==
  ASSUME DatagramTypeOK, Complete
  PROVE  LET t == datagram.address IN
         /\ t.port \in Seq(Octet) /\ Len(t.port) = 2
         /\ Len(input) >= 4 /\ datagram.frag = input[3]
         /\ IF input[4] = 3 THEN t.atyp = "domain"
            ELSE t.atyp \in {"v4", "v6"} /\ IsAddress(Fields(t))
<1> DEFINE a == SubSeq(input, 4, Len(input))
<1>1. input \in Bytes /\ DecapRef(input).kind = "ok"
  BY InputIsBytes DEF Complete, datagram
<1>2. /\ Len(input) >= 4 /\ a \in Bytes /\ a[1] = input[4] /\ Decode(a).kind = "ok"
      /\ datagram.address = Decode(a) /\ datagram.frag = input[3]
  BY <1>1, CompleteAddress DEF datagram
<1> HIDE DEF a
<1>3. LET t == Decode(a) IN
      /\ t.port \in Seq(Octet) /\ Len(t.port) = 2
      /\ IF a[1] = 3 THEN t.atyp = "domain"
         ELSE t.atyp \in {"v4", "v6"} /\ IsAddress(Fields(t))
  BY <1>2, DecodedAddress
<1> QED
  BY <1>2, <1>3

\* What depends only on what was received stays as it is.
LEMMA ReceivedStays ==
  ASSUME Keep
  PROVE  /\ policy' = policy /\ family' = family /\ input' = input /\ datagram' = datagram
         /\ (Complete' <=> Complete) /\ (ReadAsLiteral' <=> ReadAsLiteral)
         /\ (ReadAsName' <=> ReadAsName)
<1>1. policy' = policy /\ family' = family /\ input' = input
  BY DEF Keep
<1>2. datagram' = datagram
  BY <1>1 DEF datagram
<1>3. Complete' <=> Complete
  BY <1>2 DEF Complete
<1> QED
  BY <1>1, <1>2, <1>3 DEF ReadAsLiteral, ReadAsName

LEMMA DatagramInitially == ASSUME DatagramInit PROVE DInv
<1>1. DatagramTypeOK
  BY DEF DatagramInit, DatagramTypeOK, Bytes
<1>2. stage = "waiting" /\ target = NoTarget
  BY DEF DatagramInit
<1> QED
  BY <1>1, <1>2 DEF DInv, TargetInv, VerdictInv, ReplyInv

LEMMA ReceiveKeeps == ASSUME DInv, Receive PROVE DInv'
<1>1. /\ stage' = "received" /\ target' = target /\ answer' = answer /\ target = NoTarget
      /\ policy' = policy /\ family' = family /\ input' \in Bytes
  BY DatagramAssumption DEF Receive, DInv, TargetInv
<1>2. DatagramTypeOK'
  BY <1>1 DEF DInv, DatagramTypeOK
<1> QED
  BY <1>1, <1>2 DEF DInv, TargetInv, VerdictInv, ReplyInv

LEMMA DiscardKeeps == ASSUME DInv, Discard PROVE DInv'
<1>1. /\ stage' = "dropped" /\ target' = target /\ answer' = answer /\ target = NoTarget
      /\ ~ Complete /\ Keep
  BY DEF Discard, DInv, TargetInv
<1>2. /\ policy' = policy /\ family' = family /\ input' = input
      /\ (Complete' <=> Complete)
  BY <1>1, ReceivedStays
<1>3. DatagramTypeOK'
  BY <1>1, <1>2 DEF DInv, DatagramTypeOK
<1>4. TargetInv'
  BY <1>1, <1>2 DEF TargetInv
<1>5. VerdictInv' /\ ReplyInv'
  BY <1>1 DEF VerdictInv, ReplyInv
<1> QED
  BY <1>3, <1>4, <1>5 DEF DInv

LEMMA LiteralKeeps == ASSUME DInv, Literal PROVE DInv'
<1>1. /\ stage' = "addressed" /\ target' = Fields(datagram.address) /\ answer' = answer
      /\ Complete /\ datagram.address.atyp \in {"v4", "v6"} /\ Keep
  BY DEF Literal, Accepted, Fields
<1>2. /\ policy' = policy /\ family' = family /\ input' = input /\ datagram' = datagram
      /\ (Complete' <=> Complete) /\ (ReadAsLiteral' <=> ReadAsLiteral)
  BY <1>1, ReceivedStays
<1>3. IsAddress(target')
  BY <1>1, CompleteInput DEF DInv
<1>4. DatagramTypeOK'
  BY <1>1, <1>2, <1>3 DEF DInv, DatagramTypeOK
<1>5. TargetInv'
  <2>1. target' = Fields(datagram.address)'
    BY <1>1, <1>2 DEF Fields, NoTarget
  <2> QED
    BY <1>1, <1>2, <1>3, <2>1 DEF TargetInv
<1>6. VerdictInv' /\ ReplyInv'
  BY <1>1 DEF VerdictInv, ReplyInv
<1> QED
  BY <1>4, <1>5, <1>6 DEF DInv

LEMMA ResolveKeeps == ASSUME DInv, Resolve PROVE DInv'
<1>1. PICK list \in Lookups :
        /\ answer' = list
        /\ \/ /\ \A k \in DOMAIN list : ~Eligible(list[k])
              /\ stage' = "blocked"
              /\ UNCHANGED target
           \/ \E k \in DOMAIN list :
                /\ Eligible(list[k])
                /\ \A j \in 1 .. k - 1 : ~Eligible(list[j])
                /\ stage' = "addressed"
                /\ target' = [list[k] EXCEPT !.port = datagram.address.port]
  BY DEF Resolve
<1>2. /\ stage = "received" /\ target = NoTarget /\ Complete
      /\ datagram.address.atyp = "domain" /\ Keep /\ DatagramTypeOK
  BY DEF Resolve, Accepted, DInv, TargetInv
<1>3. /\ policy' = policy /\ family' = family /\ input' = input /\ datagram' = datagram
      /\ (Complete' <=> Complete) /\ (ReadAsLiteral' <=> ReadAsLiteral)
  BY <1>2, ReceivedStays
<1>4. list \in Seq(Address) /\ ~ ReadAsLiteral
  BY <1>2, DatagramAssumption DEF ReadAsLiteral
<1>5. CASE /\ \A k \in DOMAIN list : ~Eligible(list[k])
           /\ stage' = "blocked"
           /\ UNCHANGED target
  <2>1. DatagramTypeOK'
    BY <1>1, <1>2, <1>3, <1>4, <1>5 DEF DatagramTypeOK
  <2>2. TargetInv'
    BY <1>2, <1>5 DEF TargetInv
  <2>3. VerdictInv'
    <3>1. ASSUME NEW k \in DOMAIN list, list[k].atyp = family PROVE IsBlocked(policy, list[k])
      BY <1>5, <3>1 DEF Eligible
    <3>2. target' = NoTarget /\ stage' = "blocked"
      BY <1>2, <1>5
    <3>3. \A k \in DOMAIN answer' :
             answer'[k].atyp = family' => IsBlocked(policy', answer'[k])
      BY <1>1, <1>3, <3>1
    <3> QED
      BY <3>2, <3>3 DEF VerdictInv
  <2>4. ReplyInv'
    BY <1>5 DEF ReplyInv
  <2> QED
    BY <2>1, <2>2, <2>3, <2>4 DEF DInv
<1>6. CASE \E k \in DOMAIN list :
             /\ Eligible(list[k])
             /\ \A j \in 1 .. k - 1 : ~Eligible(list[j])
             /\ stage' = "addressed"
             /\ target' = [list[k] EXCEPT !.port = datagram.address.port]
  <2>1. PICK k \in DOMAIN list :
          stage' = "addressed" /\ target' = [list[k] EXCEPT !.port = datagram.address.port]
    BY <1>6
  <2>2. list[k] \in Address
    <3>1. k \in 1 .. Len(list)
      BY <1>4, LenProperties
    <3> QED
      BY <1>4, <3>1, ElementOfSeq
  <2>3. IsAddress(target')
    <3>1. datagram.address.port \in Seq(Octet) /\ Len(datagram.address.port) = 2
      BY <1>2, CompleteInput
    <3> QED
      BY <2>1, <2>2, <3>1, AnswerIsAddress
  <2>4. DatagramTypeOK'
    BY <1>1, <1>2, <1>3, <1>4, <2>1, <2>3 DEF DatagramTypeOK
  <2>5. TargetInv'
    BY <1>2, <1>3, <1>4, <2>1, <2>3 DEF TargetInv
  <2>6. VerdictInv' /\ ReplyInv'
    BY <2>1 DEF VerdictInv, ReplyInv
  <2> QED
    BY <2>4, <2>5, <2>6 DEF DInv
<1> QED
  BY <1>1, <1>5, <1>6

LEMMA ResolveFailsKeeps == ASSUME DInv, ResolveFails PROVE DInv'
<1>1. /\ stage' = "dropped" /\ target' = target /\ answer' = answer /\ target = NoTarget
      /\ ReadAsName /\ Keep
  BY DEF ResolveFails, Accepted, ReadAsName, DInv, TargetInv
<1>2. /\ policy' = policy /\ family' = family /\ input' = input
      /\ (ReadAsName' <=> ReadAsName)
  BY <1>1, ReceivedStays
<1>3. DatagramTypeOK'
  BY <1>1, <1>2 DEF DInv, DatagramTypeOK
<1>4. TargetInv'
  BY <1>1, <1>2 DEF TargetInv
<1>5. VerdictInv' /\ ReplyInv'
  BY <1>1 DEF VerdictInv, ReplyInv
<1> QED
  BY <1>3, <1>4, <1>5 DEF DInv

\* From here on the target stays.
LEMMA TargetStays ==
  ASSUME DInv, Keep, target' = target, answer' = answer, IsAddress(target),
         stage' \in {"dropped", "blocked", "sent", "answered"}
  PROVE  DatagramTypeOK' /\ TargetInv'
<1>1. /\ policy' = policy /\ family' = family /\ input' = input /\ datagram' = datagram
      /\ (Complete' <=> Complete) /\ (ReadAsLiteral' <=> ReadAsLiteral)
  BY ReceivedStays
<1>2. target # NoTarget
  BY NoTargetIsNone
<1>3. DatagramTypeOK'
  BY <1>1 DEF DInv, DatagramTypeOK
<1>4. Fields(datagram.address)' = Fields(datagram.address)
  BY <1>1 DEF Fields, NoTarget
<1>5. TargetInv'
  BY <1>1, <1>2, <1>4 DEF DInv, TargetInv
<1> QED
  BY <1>3, <1>5

LEMMA RefusedKeeps == ASSUME DInv, Refused PROVE DInv'
<1>1. /\ stage' = "blocked" /\ target' = target /\ answer' = answer /\ Keep
      /\ IsAddress(target) /\ IsBlocked(policy, target)
  BY DEF Refused, DInv, TargetInv
<1>2. DatagramTypeOK' /\ TargetInv'
  BY <1>1, TargetStays
<1>3. VerdictInv'
  <2>1. target # NoTarget /\ policy' = policy
    BY <1>1, NoTargetIsNone, ReceivedStays
  <2>2. IsBlocked(policy', target') /\ target' # NoTarget /\ stage' = "blocked"
    BY <1>1, <2>1
  <2> QED
    BY <2>2 DEF VerdictInv
<1>4. ReplyInv'
  BY <1>1 DEF ReplyInv
<1> QED
  BY <1>2, <1>3, <1>4 DEF DInv

LEMMA SendKeeps == ASSUME DInv, Send PROVE DInv'
<1>1. /\ stage' \in {"sent", "dropped"} /\ target' = target /\ answer' = answer /\ Keep
      /\ IsAddress(target) /\ ~ IsBlocked(policy, target)
  BY DEF Send, DInv, TargetInv
<1>2. DatagramTypeOK' /\ TargetInv'
  BY <1>1, TargetStays
<1>3. VerdictInv'
  <2>1. ~ IsBlocked(policy', target')
    BY <1>1, ReceivedStays
  <2> QED
    BY <1>1, <2>1 DEF VerdictInv
<1>4. ReplyInv'
  BY <1>1 DEF ReplyInv
<1> QED
  BY <1>2, <1>3, <1>4 DEF DInv

LEMMA ReplyKeeps == ASSUME DInv, ReplyArrives PROVE DInv'
<1>1. /\ stage = "sent" /\ stage' = "answered" /\ target' = target /\ answer' = answer /\ Keep
      /\ IsAddress(target) /\ ~ IsBlocked(policy, target)
  BY DEF ReplyArrives, DInv, TargetInv, VerdictInv
<1>2. DatagramTypeOK' /\ TargetInv'
  BY <1>1, TargetStays
<1>3. VerdictInv'
  <2>1. ~ IsBlocked(policy', target')
    BY <1>1, ReceivedStays
  <2> QED
    BY <1>1, <2>1 DEF VerdictInv
<1>4. ReplyInv'
  <2>1. PICK data \in Payloads : reply' = [data |-> data, framed |-> Encap(target, data)]
    BY DEF ReplyArrives
  <2>2. reply'.data = data /\ reply'.framed = Encap(target, data)
    BY <2>1
  <2>3. reply'.data \in Payloads /\ reply'.framed = Encap(target', reply'.data)
    BY <1>1, <2>2
  <2> QED
    BY <2>3 DEF ReplyInv
<1> QED
  BY <1>2, <1>3, <1>4 DEF DInv

LEMMA DatagramStep == ASSUME DInv, [DatagramNext]_datagramVars PROVE DInv'
<1>1. CASE UNCHANGED datagramVars
  <2>1. /\ stage' = stage /\ target' = target /\ answer' = answer /\ reply' = reply /\ Keep
    BY <1>1 DEF datagramVars, Keep
  <2>2. /\ policy' = policy /\ family' = family /\ input' = input /\ datagram' = datagram
        /\ (Complete' <=> Complete) /\ (ReadAsLiteral' <=> ReadAsLiteral)
        /\ (ReadAsName' <=> ReadAsName)
    BY <2>1, ReceivedStays
  <2>3. DatagramTypeOK'
    BY <2>1, <2>2 DEF DInv, DatagramTypeOK
  <2>4. TargetInv'
    <3>1. Fields(datagram.address)' = Fields(datagram.address)
      BY <2>2 DEF Fields, NoTarget
    <3> QED
      BY <2>1, <2>2, <3>1 DEF DInv, TargetInv
  <2>5. VerdictInv' /\ ReplyInv'
    BY <2>1, <2>2 DEF DInv, VerdictInv, ReplyInv
  <2> QED
    BY <2>3, <2>4, <2>5 DEF DInv
<1>2. CASE DatagramNext
  BY <1>2, ReceiveKeeps, DiscardKeeps, LiteralKeeps, ResolveKeeps, ResolveFailsKeeps, RefusedKeeps,
     SendKeeps, ReplyKeeps DEF DatagramNext
<1> QED
  BY <1>1, <1>2

LEMMA DatagramAlways == DatagramSpec => []DInv
<1>1. DatagramInit => DInv
  BY DatagramInitially
<1>2. DInv /\ [DatagramNext]_datagramVars => DInv'
  BY DatagramStep
<1> QED
  BY <1>1, <1>2, PTL DEF DatagramSpec

\* A payload is never sent into a block of a closed class, in no notation, and the policy
\* stops nothing outside of them, for every policy, datagram and answer of the resolver.
THEOREM PolicyExact == DatagramSpec => []PolicyIsExact
<1>1. ASSUME DInv PROVE PolicyIsExact
  <2>1. DatagramTypeOK /\ TargetInv /\ VerdictInv /\ policy \in Policy
    BY <1>1, InputIsBytes DEF DInv
  <2>2. ASSUME stage \in {"sent", "answered"} PROVE ~ Forbidden(policy, target.host)
    <3>1. IsAddress(target) /\ ~ IsBlocked(policy, target)
      BY <2>1, <2>2 DEF TargetInv, VerdictInv
    <3> QED
      BY <2>1, <3>1, BlockedIsDocumented
  <2>3. ASSUME stage = "blocked", target # NoTarget PROVE Forbidden(policy, target.host)
    <3>1. IsAddress(target) /\ IsBlocked(policy, target)
      BY <2>1, <2>3 DEF DatagramTypeOK, VerdictInv
    <3> QED
      BY <2>1, <3>1, BlockedIsDocumented
  <2>4. ASSUME stage = "blocked", target = NoTarget, NEW k \in DOMAIN answer,
               answer[k].atyp = family
        PROVE  Forbidden(policy, answer[k].host)
    <3>1. IsBlocked(policy, answer[k])
      BY <2>1, <2>4 DEF VerdictInv
    <3>2. answer[k] \in Address
      <4>1. answer \in Seq(Address)
        BY <2>1 DEF DatagramTypeOK
      <4>2. k \in 1 .. Len(answer)
        BY <4>1, LenProperties
      <4> QED
        BY <4>1, <4>2, ElementOfSeq
    <3>3. <<0, 0>> \in Seq(Octet) /\ Len(<<0, 0>>) = 2
      BY DEF Octet
    <3>4. IsAddress(answer[k])
      BY <3>2, <3>3, AnswerIsAddress
    <3> QED
      BY <2>1, <3>1, <3>4, BlockedIsDocumented
  <2> QED
    BY <2>2, <2>3, <2>4 DEF PolicyIsExact
<1> QED
  BY <1>1, DatagramAlways, PTL

-----------------------------------------------------------------------------
(* Headers by the layout.                                                  *)

\* A datagram that is taken apart has a header, which ends where its address does.
LEMMA DecapIsSound ==
  ASSUME NEW b \in Bytes, DecapRef(b).kind = "ok"
  PROVE  LET n == Len(Encode(DecapRef(b).address)) IN
         3 + n \in HeaderEnds(b) /\ Encode(DecapRef(b).address) = SubSeq(b, 4, 3 + n)
<1> DEFINE a == SubSeq(b, 4, Len(b))
           n == Len(Encode(Decode(a)))
<1>1. b \in Seq(Byte) /\ Len(b) \in Nat
  BY ByteSeq
<1>2. /\ Len(b) >= 4 /\ a \in Bytes /\ Len(a) = Len(b) - 3
      /\ Decode(a).kind = "ok" /\ DecapRef(b).address = Decode(a)
  BY CompleteAddress
<1>3. n \in 1 .. Len(a) /\ Encode(Decode(a)) = SubSeq(a, 1, n) /\ AddressFits(SubSeq(a, 1, n))
  <2>1. Len(a) >= 1
    BY <1>1, <1>2
  <2> HIDE DEF a
  <2> QED
    BY <1>2, <2>1, AddressIsSound
<1>4. 3 + n \in 3 .. Len(b) /\ 3 + n \in 4 .. Len(b) /\ (3 + n) - 3 = n
  BY <1>1, <1>2, <1>3
<1> HIDE DEF n
<1>5. SubSeq(a, 1, (3 + n) - 3) = SubSeq(b, 4, 3 + n)
  BY <1>1, <1>4, AfterThree
<1>6. SubSeq(a, 1, n) = SubSeq(b, 4, 3 + n)
  BY <1>4, <1>5
<1>7. AddressFits(SubSeq(b, 4, 3 + n)) /\ Encode(Decode(a)) = SubSeq(b, 4, 3 + n)
  BY <1>3, <1>6
<1>8. 3 + n \in HeaderEnds(b)
  BY <1>4, <1>7 DEF HeaderEnds
<1> QED
  BY <1>2, <1>7, <1>8 DEF n

\* And a datagram with a header is taken apart.
LEMMA DecapIsComplete ==
  ASSUME NEW b \in Bytes, NEW e \in HeaderEnds(b)
  PROVE  DecapRef(b).kind = "ok"
<1> DEFINE a == SubSeq(b, 4, Len(b))
<1>1. b \in Seq(Byte) /\ Len(b) \in Nat
  BY ByteSeq
<1>2. e \in 4 .. Len(b) /\ AddressFits(SubSeq(b, 4, e))
  BY DEF HeaderEnds
<1>3. e \in 3 .. Len(b) /\ ~ Len(b) < 4
  BY <1>1, <1>2
<1>4. /\ a \in Seq(Byte) /\ Len(a) = Len(b) - 3
      /\ SubSeq(a, 1, e - 3) = SubSeq(b, 4, e)
  BY <1>1, <1>3, AfterThree
<1> HIDE DEF a
<1>5. AddressFits(SubSeq(a, 1, e - 3)) /\ a \in Bytes
  BY <1>2, <1>4 DEF Bytes
<1>6. e - 3 \in 0 .. Len(a) /\ Len(a) \in 1 .. Len(a) /\ e - 3 <= Len(a)
  BY <1>1, <1>2, <1>4
<1>7. Decode(SubSeq(a, 1, Len(a))).kind = "ok"
  BY <1>5, <1>6, AddressIsComplete
<1>8. SubSeq(a, 1, Len(a)) = a
  BY <1>4, SubSeqFull
<1>9. Decode(a).kind = "ok"
  BY <1>7, <1>8
<1>10. DecapRef(b) = IF Decode(a).kind # "ok" THEN Decode(a)
                     ELSE [kind |-> "ok", frag |-> b[3], address |-> Decode(a),
                           data |-> SubSeq(b, 4 + Len(Encode(Decode(a))), Len(b))]
  BY <1>3 DEF DecapRef, a
<1>11. DecapRef(b) = [kind |-> "ok", frag |-> b[3], address |-> Decode(a),
                      data |-> SubSeq(b, 4 + Len(Encode(Decode(a))), Len(b))]
  BY <1>9, <1>10
<1> QED
  BY <1>11

\* An address is encoded by the layout.
LEMMA EncodeFits ==
  ASSUME NEW t, IsAddress(t)
  PROVE  Encode(t) \in Seq(Octet) /\ AddressFits(Encode(t)) /\ Len(Encode(t)) \in Nat \ {0}
<1> DEFINE host == t.host
           port == t.port
           o == Len(host)
<1>1. /\ host \in Seq(Octet) /\ port \in Seq(Octet) /\ Len(port) = 2 /\ t.atyp \in {"v4", "v6"}
      /\ t.atyp = "v4" => o = 4
      /\ t.atyp = "v6" => o = 16
  BY DEF IsAddress, Literals
<1>2. ASSUME NEW first \in Octet
      PROVE  LET e == <<first>> \o host \o port
             IN  e \in Seq(Octet) /\ Len(e) = 1 + o + 2 /\ e[1] = first
  <2> DEFINE f == <<first>>
             x == f \o host
             e == x \o port
  <2>1. f \in Seq(Octet) /\ Len(f) = 1 /\ f[1] = first
    OBVIOUS
  <2>2. host \in Seq(Octet) /\ port \in Seq(Octet) /\ o \in Nat
    BY <1>1, LenProperties
  <2> HIDE DEF f, host, port
  <2>3. x \in Seq(Octet) /\ Len(x) = Len(f) + Len(host) /\ \A i \in 1 .. Len(f) : x[i] = f[i]
    <3>1. f \in Seq(Octet)
      BY <2>1
    <3> QED
      BY <2>2, <3>1, Join
  <2> HIDE DEF x
  <2>4. e \in Seq(Octet) /\ Len(e) = Len(x) + Len(port) /\ \A i \in 1 .. Len(x) : e[i] = x[i]
    <3>1. x \in Seq(Octet)
      BY <2>3
    <3> QED
      BY <2>2, <3>1, Join
  <2> HIDE DEF e
  <2>5. Len(x) = 1 + o /\ Len(e) = 1 + o + 2
    BY <1>1, <2>1, <2>2, <2>3, <2>4
  <2>6. 1 \in 1 .. Len(f) /\ 1 \in 1 .. Len(x)
    BY <2>1, <2>2, <2>5
  <2>7. e[1] = first
    BY <2>1, <2>3, <2>4, <2>6
  <2> QED
    BY <2>4, <2>5, <2>7 DEF e, x, f
<1>3. 1 \in Octet /\ 4 \in Octet
  BY DEF Octet
<1>4. /\ t.atyp = "v4" => Encode(t) = <<1>> \o host \o port
      /\ t.atyp = "v6" => Encode(t) = <<4>> \o host \o port
  BY DEF Encode
<1> HIDE DEF host, port, o
<1>5. CASE t.atyp = "v4"
  <2>1. Encode(t) \in Seq(Octet) /\ Len(Encode(t)) = 1 + 4 + 2 /\ Encode(t)[1] = 1
    BY <1>1, <1>2, <1>3, <1>4, <1>5
  <2> QED
    BY <2>1, DatagramAssumption DEF AddressFits
<1>6. CASE t.atyp = "v6"
  <2>1. Encode(t) \in Seq(Octet) /\ Len(Encode(t)) = 1 + 16 + 2 /\ Encode(t)[1] = 4
    BY <1>1, <1>2, <1>3, <1>4, <1>6
  <2> QED
    BY <2>1, DatagramAssumption DEF AddressFits
<1> QED
  BY <1>1, <1>5, <1>6

\* Encode looks at the fields only.
LEMMA EncodeFields ==
  ASSUME NEW t, t.atyp \in {"v4", "v6"}
  PROVE  Encode(Fields(t)) = Encode(t)
<1>1. Fields(t).atyp = t.atyp /\ Fields(t).host = t.host /\ Fields(t).port = t.port
  BY FieldsOf
<1> QED
  BY <1>1 DEF Encode

\* Three pieces, and where each of them is found again.
LEMMA ThreePieces ==
  ASSUME NEW S, NEW x \in Seq(S), NEW y \in Seq(S), NEW z \in Seq(S)
  PROVE  LET w == x \o y \o z IN
         /\ w \in Seq(S) /\ Len(w) = Len(x) + Len(y) + Len(z)
         /\ SubSeq(w, 1, Len(x)) = x
         /\ SubSeq(w, Len(x) + 1, Len(x) + Len(y)) = y
         /\ SubSeq(w, Len(x) + Len(y) + 1, Len(w)) = z
<1> DEFINE u == x \o y
           w == u \o z
           l == Len(x)
           m == Len(y)
           n == Len(z)
<1>1. l \in Nat /\ m \in Nat /\ n \in Nat
  BY LenProperties
<1>2. /\ u \in Seq(S) /\ Len(u) = Len(x) + Len(y)
      /\ \A i \in 1 .. Len(x) : u[i] = x[i]
      /\ \A i \in 1 .. Len(y) : u[Len(x) + i] = y[i]
  BY Join
<1> HIDE DEF u
<1>3. /\ w \in Seq(S) /\ Len(w) = Len(u) + Len(z)
      /\ \A i \in 1 .. Len(u) : w[i] = u[i]
      /\ \A i \in 1 .. Len(z) : w[Len(u) + i] = z[i]
  <2>1. u \in Seq(S)
    BY <1>2
  <2> QED
    BY <2>1, Join
<1> HIDE DEF w
<1>4. u \in Seq(S) /\ w \in Seq(S) /\ Len(u) = l + m /\ Len(w) = l + m + n
  BY <1>1, <1>2, <1>3
<1>5. SubSeq(w, 1, l) = x
  <2> DEFINE v == SubSeq(w, 1, l)
  <2>1. l \in 0 .. Len(w)
    BY <1>1, <1>4
  <2>2. v \in Seq(S) /\ Len(v) = l /\ \A i \in 1 .. l : v[i] = w[i]
    BY <1>4, <2>1, Front
  <2> HIDE DEF v
  <2>3. ASSUME NEW i \in 1 .. Len(v) PROVE v[i] = x[i]
    <3>1. i \in 1 .. l /\ i \in 1 .. Len(u)
      BY <1>1, <1>4, <2>2
    <3> QED
      BY <1>2, <1>3, <2>2, <3>1
  <2>4. v = x
    BY <2>2, <2>3, SeqEqual
  <2> QED
    BY <2>4 DEF v
<1>6. SubSeq(w, l + 1, l + m) = y
  <2> DEFINE v == SubSeq(w, l + 1, l + m)
  <2>1. l \in Nat /\ l + m \in l .. Len(w) /\ (l + m) - l = m
    BY <1>1, <1>4
  <2>2. v \in Seq(S) /\ Len(v) = (l + m) - l /\ \A i \in 1 .. (l + m) - l : v[i] = w[l + i]
    BY <1>4, <2>1, Piece
  <2> HIDE DEF v
  <2>3. Len(v) = m
    BY <2>1, <2>2
  <2>4. ASSUME NEW i \in 1 .. Len(v) PROVE v[i] = y[i]
    <3>1. i \in 1 .. m /\ i \in 1 .. (l + m) - l /\ l + i \in 1 .. Len(u)
      BY <1>1, <1>4, <2>1, <2>3
    <3>2. v[i] = w[l + i] /\ w[l + i] = u[l + i] /\ u[l + i] = y[i]
      BY <1>2, <1>3, <2>2, <3>1
    <3> QED
      BY <3>2
  <2>5. v = y
    BY <2>2, <2>3, <2>4, SeqEqual
  <2> QED
    BY <2>5 DEF v
<1>7. SubSeq(w, l + m + 1, Len(w)) = z
  <2> DEFINE v == SubSeq(w, l + m + 1, Len(w))
  <2>1. l + m \in Nat /\ Len(w) \in l + m .. Len(w) /\ Len(w) - (l + m) = n
    BY <1>1, <1>4
  <2>2. /\ v \in Seq(S) /\ Len(v) = Len(w) - (l + m)
        /\ \A i \in 1 .. Len(w) - (l + m) : v[i] = w[(l + m) + i]
    BY <1>4, <2>1, Piece
  <2> HIDE DEF v
  <2>3. Len(v) = n
    BY <2>1, <2>2
  <2>4. ASSUME NEW i \in 1 .. Len(v) PROVE v[i] = z[i]
    <3>1. i \in 1 .. n /\ i \in 1 .. Len(w) - (l + m)
      BY <2>1, <2>3
    <3>2. v[i] = w[(l + m) + i] /\ w[(l + m) + i] = z[i]
      BY <1>3, <1>4, <2>2, <3>1
    <3> QED
      BY <3>2
  <2>5. v = z
    BY <2>2, <2>3, <2>4, SeqEqual
  <2> QED
    BY <2>5 DEF v
<1> QED
  BY <1>4, <1>5, <1>6, <1>7 DEF w, u

\* The answer to the client is a header that repeats the target's address, and the payload.
LEMMA EncapIsExact ==
  ASSUME NEW t, IsAddress(t), NEW data \in Bytes
  PROVE  LET w == Encap(t, data)
             m == 3 + Len(Encode(t))
         IN  /\ m \in HeaderEnds(w)
             /\ SubSeq(w, 1, 3) = <<0, 0, 0>>
             /\ SubSeq(w, 4, m) = Encode(t)
             /\ SubSeq(w, m + 1, Len(w)) = data
<1> DEFINE x == <<0, 0, 0>>
           y == Encode(t)
           w == x \o y \o data
           m == 3 + Len(y)
<1>1. x \in Seq(Octet) /\ Len(x) = 3
  BY DEF Octet
<1>2. y \in Seq(Octet) /\ AddressFits(y) /\ Len(y) \in Nat \ {0}
  BY EncodeFits
<1>3. data \in Seq(Octet) /\ Len(data) \in Nat
  BY BytesAreOctets, ByteSeq
<1> HIDE DEF x, y
<1>4. /\ w \in Seq(Octet) /\ Len(w) = Len(x) + Len(y) + Len(data)
      /\ SubSeq(w, 1, Len(x)) = x
      /\ SubSeq(w, Len(x) + 1, Len(x) + Len(y)) = y
      /\ SubSeq(w, Len(x) + Len(y) + 1, Len(w)) = data
  <2>1. x \in Seq(Octet) /\ y \in Seq(Octet) /\ data \in Seq(Octet)
    BY <1>1, <1>2, <1>3
  <2> QED
    BY <2>1, ThreePieces
<1> HIDE DEF w
<1>5. 3 + 1 = 4 /\ Len(w) = 3 + Len(y) + Len(data)
  BY <1>1, <1>4
<1>6. /\ SubSeq(w, 1, 3) = x
      /\ SubSeq(w, 3 + 1, 3 + Len(y)) = y
      /\ SubSeq(w, 3 + Len(y) + 1, Len(w)) = data
  BY <1>1, <1>4, Zenon
<1>7. SubSeq(w, 4, m) = y /\ SubSeq(w, m + 1, Len(w)) = data
  BY <1>5, <1>6
<1>8. m \in 4 .. Len(w)
  BY <1>2, <1>3, <1>5
<1>9. m \in HeaderEnds(w)
  <2>1. AddressFits(SubSeq(w, 4, m))
    BY <1>2, <1>7
  <2> HIDE DEF m
  <2> QED
    BY <1>8, <2>1 DEF HeaderEnds
<1>10. w = Encap(t, data)
  BY DEF Encap, w, x, y
<1> QED
  BY <1>6, <1>7, <1>9, <1>10 DEF x, y

\* Datagrams are taken apart and put together by the layout of RFC 1928, for every datagram,
\* every answer of the resolver and every payload.
THEOREM DatagramExact == DatagramSpec => []DatagramIsExact
<1>1. ASSUME DInv PROVE DatagramIsExact
  <2>1. DatagramTypeOK /\ TargetInv /\ ReplyInv /\ input \in Bytes
    BY <1>1, InputIsBytes DEF DInv
  <2>2. ASSUME Complete
        PROVE  LET n == Len(Encode(datagram.address)) IN
               /\ 3 + n \in HeaderEnds(input) /\ input[3] = 0
               /\ Encode(datagram.address) = SubSeq(input, 4, 3 + n)
    <3>1. datagram.kind = "ok" /\ datagram.frag = 0
      BY <2>2 DEF Complete
    <3>2. datagram.frag = input[3]
      BY <2>1, <2>2, CompleteInput
    <3> QED
      BY <2>1, <3>1, <3>2, DecapIsSound DEF datagram
  <2>3. ASSUME stage \in {"addressed", "sent", "answered"}
        PROVE  HeaderEnds(input) # {} /\ input[3] = 0
    <3>1. Complete
      BY <2>1, <2>3, NoTargetIsNone DEF TargetInv
    <3> QED
      BY <2>2, <3>1
  <2>4. ASSUME stage = "dropped", target = NoTarget, HeaderEnds(input) # {}
        PROVE  input[3] # 0 \/ input[4] = 3
    <3>1. ~ Complete \/ ReadAsName
      BY <2>1, <2>4 DEF TargetInv
    <3>2. CASE ReadAsName
      <4>1. Complete /\ datagram.address.atyp = "domain"
        BY <3>2 DEF ReadAsName
      <4> QED
        BY <2>1, <4>1, CompleteInput
    <3>3. CASE ~ Complete
      <4>1. DecapRef(input).kind = "ok"
        BY <2>1, <2>4, DecapIsComplete
      <4>2. DecapRef(input).frag = input[3]
        BY <2>1, <4>1, CompleteAddress
      <4> QED
        BY <3>3, <4>1, <4>2 DEF Complete, datagram
    <3> QED
      BY <3>1, <3>2, <3>3
  <2>5. ASSUME stage = "answered"
        PROVE  \E m \in HeaderEnds(reply.framed) :
                 /\ SubSeq(reply.framed, 1, 3) = <<0, 0, 0>>
                 /\ reply.data = SubSeq(reply.framed, m + 1, Len(reply.framed))
                 /\ input[4] # 3 => SubSeq(reply.framed, 4, m) \in
                                      {SubSeq(input, 4, n) : n \in HeaderEnds(input)}
    <3> DEFINE m == 3 + Len(Encode(target))
    <3>1. /\ IsAddress(target) /\ target # NoTarget /\ Complete
          /\ reply.data \in Payloads /\ reply.framed = Encap(target, reply.data)
      BY <2>1, <2>5, NoTargetIsNone DEF TargetInv, ReplyInv
    <3>2. reply.data \in Bytes
      BY <3>1, DatagramAssumption
    <3>3. /\ m \in HeaderEnds(reply.framed)
          /\ SubSeq(reply.framed, 1, 3) = <<0, 0, 0>>
          /\ SubSeq(reply.framed, 4, m) = Encode(target)
          /\ SubSeq(reply.framed, m + 1, Len(reply.framed)) = reply.data
      BY <3>1, <3>2, EncapIsExact
    <3>4. ASSUME input[4] # 3
          PROVE  Encode(target) \in {SubSeq(input, 4, n) : n \in HeaderEnds(input)}
      <4>1. datagram.address.atyp \in {"v4", "v6"}
        BY <2>1, <3>1, <3>4, CompleteInput
      <4>2. target = Fields(datagram.address)
        BY <2>1, <3>1, <4>1 DEF TargetInv, ReadAsLiteral
      <4>3. Encode(target) = Encode(datagram.address)
        BY <4>1, <4>2, EncodeFields
      <4> DEFINE e == 3 + Len(Encode(datagram.address))
      <4>4. e \in HeaderEnds(input) /\ Encode(datagram.address) = SubSeq(input, 4, e)
        BY <2>2, <3>1
      <4> HIDE DEF e
      <4> QED
        BY <4>3, <4>4
    <3> HIDE DEF m
    <3> QED
      BY <3>3, <3>4
  <2> QED
    BY <2>3, <2>4, <2>5 DEF DatagramIsExact
<1> QED
  BY <1>1, DatagramAlways, PTL
=============================================================================
