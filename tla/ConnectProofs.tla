---------------------------- MODULE ConnectProofs ----------------------------
(***************************************************************************)
(* Proofs about the two halves of CONNECT: Establish, for every set of     *)
(* addresses, every policy, every deadline and answers of any length, and  *)
(* Relay, for every idle window and every size of a chunk.                 *)
(***************************************************************************)
EXTENDS Establish, Relay, FiniteSetTheorems, SequenceTheorems, TLAPS

(* Sequences and shares of time.                                           *)

LEMMA AppendSet ==
  ASSUME NEW T, NEW s \in Seq(T), NEW x \in T
  PROVE  ToSet(Append(s, x)) = ToSet(s) \cup {x}
<1>1. /\ Append(s, x) \in Seq(T) /\ Len(Append(s, x)) = Len(s) + 1 /\ Len(s) \in Nat
      /\ \A i \in 1 .. Len(s) : Append(s, x)[i] = s[i]
      /\ Append(s, x)[Len(s) + 1] = x
  BY AppendProperties
<1>2. DOMAIN s = 1 .. Len(s) /\ DOMAIN Append(s, x) = 1 .. Len(s) + 1
  BY <1>1
<1> QED
  BY <1>1, <1>2 DEF ToSet

LEMMA TailSet ==
  ASSUME NEW T, NEW s \in Seq(T), s # <<>>
  PROVE  /\ Head(s) \in T /\ Tail(s) \in Seq(T) /\ Len(Tail(s)) = Len(s) - 1
         /\ ToSet(s) = ToSet(Tail(s)) \cup {Head(s)}
<1>1. /\ Tail(s) \in Seq(T) /\ Len(Tail(s)) = Len(s) - 1 /\ Head(s) = s[1] /\ Head(s) \in T
      /\ \A i \in 1 .. Len(Tail(s)) : Tail(s)[i] = s[i + 1]
  BY HeadTailProperties
<1>2. DOMAIN s = 1 .. Len(s) /\ DOMAIN Tail(s) = 1 .. Len(s) - 1 /\ Len(s) \in Nat \ {0}
  BY <1>1
<1>3. ToSet(Tail(s)) \cup {Head(s)} \subseteq ToSet(s)
  BY <1>1, <1>2 DEF ToSet
<1>4. ASSUME NEW i \in 1 .. Len(s) PROVE s[i] \in ToSet(Tail(s)) \cup {Head(s)}
  <2>1. CASE i = 1
    BY <1>1, <2>1
  <2>2. CASE i # 1
    <3>1. i - 1 \in DOMAIN Tail(s) /\ Tail(s)[i - 1] = s[i]
      BY <1>1, <1>2, <2>2
    <3> QED
      BY <3>1 DEF ToSet
  <2> QED
    BY <2>1, <2>2
<1> QED
  BY <1>1, <1>2, <1>3, <1>4 DEF ToSet

LEMMA ConcatSet ==
  ASSUME NEW T, NEW s \in Seq(T), NEW t \in Seq(T)
  PROVE  /\ s \o t \in Seq(T) /\ Len(s \o t) = Len(s) + Len(t)
         /\ ToSet(s \o t) = ToSet(s) \cup ToSet(t)
<1>1. /\ s \o t \in Seq(T) /\ Len(s \o t) = Len(s) + Len(t)
      /\ \A i \in 1 .. Len(s) + Len(t) :
           (s \o t)[i] = IF i <= Len(s) THEN s[i] ELSE t[i - Len(s)]
  BY ConcatProperties
<1>2. /\ DOMAIN s = 1 .. Len(s) /\ DOMAIN t = 1 .. Len(t) /\ DOMAIN (s \o t) = 1 .. Len(s) + Len(t)
      /\ Len(s) \in Nat /\ Len(t) \in Nat
  BY <1>1
<1>3. ToSet(s \o t) \subseteq ToSet(s) \cup ToSet(t)
  BY <1>1, <1>2 DEF ToSet
<1>4. ASSUME NEW i \in 1 .. Len(s) PROVE s[i] \in ToSet(s \o t)
  BY <1>1, <1>2 DEF ToSet
<1>5. ASSUME NEW i \in 1 .. Len(t) PROVE t[i] \in ToSet(s \o t)
  <2>1. i + Len(s) \in DOMAIN (s \o t) /\ (s \o t)[i + Len(s)] = t[i]
    BY <1>1, <1>2
  <2> QED
    BY <2>1 DEF ToSet
<1> QED
  BY <1>1, <1>2, <1>3, <1>4, <1>5 DEF ToSet

LEMMA EmptySeqSet == ToSet(<<>>) = {}
  BY DEF ToSet

\* What is dialled next while others wait leaves them some of the time, if there is any.
LEMMA ShareLeavesTime ==
  ASSUME now \in 0 .. Deadline, NEW q \in Seq(Addrs)
  PROVE  /\ Share(q) \in now .. Deadline
         /\ (q # <<>> /\ now < Deadline) => Share(q) < Deadline
<1> DEFINE x == Deadline - now
           d == Len(q) + 1
<1>1. x \in Nat /\ d \in Nat \ {0} /\ Deadline \in Nat
  BY EstablishAssumption
<1>2. Share(q) = now + (x \div d)
  BY DEF Share
<1> HIDE DEF x, d
<1>3. x \div d \in 0 .. x
  BY <1>1
<1>4. (d >= 2 /\ x # 0) => x \div d < x
  BY <1>1
<1>5. q # <<>> => d >= 2
  BY DEF d
<1> QED
  BY <1>1, <1>2, <1>3, <1>4, <1>5 DEF x

LEMMA AnswerIsSeq ==
  ASSUME NEW s \in Answers \cup {<<>>}
  PROVE  /\ s \in Seq(Addrs) /\ ToSet(s) \subseteq Addrs /\ IsFiniteSet(ToSet(s))
         /\ Cardinality(ToSet(s)) = Len(s)
<1>1. s \in Seq(Addrs)
  <2>1. CASE s \in Answers
    <3>1. PICK n \in 1 .. MaxAnswers : s \in [1 .. n -> Addrs]
      BY <2>1 DEF Answers
    <3>2. n \in Nat
      BY EstablishAssumption
    <3> QED
      BY <3>1, <3>2
  <2>2. CASE s = <<>>
    BY <2>2
  <2> QED
    BY <2>1, <2>2
<1>2. ToSet(s) \subseteq Addrs
  BY <1>1 DEF ToSet
<1>3. Cardinality(ToSet(s)) = Len(s)
  BY EmptySeqSet, FS_EmptySet DEF Answers
<1>4. IsFiniteSet(ToSet(s))
  <2>1. IsFiniteSet(1 .. Len(s)) /\ DOMAIN s = 1 .. Len(s)
    BY <1>1, FS_Interval
  <2>2. s \in Surjection(1 .. Len(s), ToSet(s))
    BY <1>1, <2>1 DEF ToSet, Surjection, Range
  <2> QED
    BY <2>1, <2>2, FS_Surjection
<1> QED
  BY <1>1, <1>2, <1>3, <1>4

-----------------------------------------------------------------------------
(* The inductive invariant.                                                *)

\* What was dialled is told by the two flags the errors are made of.
DialTold ==
  /\ last_error \/ active # {} => dialled # <<>>
  /\ dialled # <<>> => last_error \/ active # {} \/ pc = "connected"
  /\ pc = "connected" => dialled # <<>>
  /\ pc = "dial" => last_error \/ active # {}
  /\ pc = "blocked" => ~ last_error /\ active = {} /\ blocked
  /\ pc = "dns" => ~ last_error /\ active = {} /\ ~ blocked

\* A dial under way is within its share, and that ends before the deadline as long as an
\* address known in time still waits, unless it is the only one and its dial comes next.
\* The loop does not sleep with nothing to wait for.
TimeIsLeft ==
  /\ known \subseteq seen
  /\ pc = "select" => active # {} \/ queue = <<>>
  /\ active # {} => now <= attempt_deadline
  /\ (pc \in {"top", "select"} /\ known \cap ToSet(queue) # {}) =>
       \/ now < Deadline /\ (active # {} => attempt_deadline < Deadline)
       \/ pc = "top" /\ active = {} /\ Len(queue) = 1
  /\ pc \in Returned \ {"connected"} => known \cap ToSet(queue) = {}

\* A failure in time leaves nothing behind.
NothingLeft ==
  (pc \in Returned \ {"connected"} /\ now < Deadline) => done = Families /\ queue = <<>>

\* Nothing is known or dialled before the target was looked at.
AtStart ==
  pc = "start" =>
    /\ queue = <<>> /\ seen = {} /\ known = {} /\ active = {} /\ dialled = <<>>
    /\ last_error = FALSE

IInv ==
  /\ EstablishTypeOK /\ DialledOnce /\ IsFiniteSet(seen) /\ DialTold /\ TimeIsLeft
  /\ NothingLeft /\ AtStart

LEMMA Initially == EstablishInit => IInv
<1> SUFFICES ASSUME EstablishInit PROVE IInv
  OBVIOUS
<1>1. /\ pc = "start" /\ now = 0 /\ done = {} /\ queue = <<>> /\ seen = {} /\ blocked = FALSE
      /\ active = {} /\ attempt_deadline = Deadline /\ last_error = FALSE
      /\ dialled = <<>> /\ known = {}
  BY DEF EstablishInit
<1>2. ToSet(<<>>) = {} /\ Cardinality({}) = 0 /\ IsFiniteSet({}) /\ Deadline \in Nat
  BY EmptySeqSet, FS_EmptySet, EstablishAssumption
<1>3. EstablishTypeOK
  <2>1. now \in 0 .. Deadline /\ attempt_deadline \in 0 .. Deadline
        /\ dialled \in Seq(Addrs) /\ queue \in Seq(Addrs)
    BY <1>1, <1>2
  <2> QED
    BY <1>1, <2>1, Zenon DEF EstablishTypeOK
<1>4. DialledOnce /\ IsFiniteSet(seen)
  BY <1>1, <1>2 DEF DialledOnce
<1>5. DialTold /\ NothingLeft /\ TimeIsLeft /\ AtStart
  BY <1>1 DEF DialTold, NothingLeft, TimeIsLeft, AtStart, Returned
<1> QED
  BY <1>3, <1>4, <1>5 DEF IInv

\* A name starts the search with no candidate, an address with one or none.
LEMMA BeginPreserves ==
  ASSUME IInv, NEW a, ResolveName \/ (a \in Addrs /\ TakeLiteral(a))
  PROVE  IInv'
<1>0. Deadline \in Nat /\ Blocked \subseteq Addrs
  BY EstablishAssumption
<1>1. /\ pc' = "top" /\ now' = now /\ active' = {} /\ attempt_deadline' = attempt_deadline
      /\ last_error' = FALSE /\ dialled' = <<>> /\ ToSet(<<>>) = {}
      /\ now \in 0 .. Deadline /\ attempt_deadline \in 0 .. Deadline
  BY EmptySeqSet DEF ResolveName, TakeLiteral, IInv, AtStart, EstablishTypeOK
<1>2. done' \in SUBSET Families /\ blocked' \in BOOLEAN
  <2>1. (a \in Blocked) \in BOOLEAN
    OBVIOUS
  <2> QED
    BY <2>1 DEF ResolveName, TakeLiteral, IInv, EstablishTypeOK
<1>3. PICK q \in {<<>>, <<a>>} :
        /\ queue' = q /\ seen' = ToSet(q) /\ known' = seen'
        /\ q = <<a>> => a \in Addrs \ Blocked
  <2>1. ToSet(<<a>>) = {a}
    BY DEF ToSet
  <2>2. CASE ResolveName
    BY <1>1, <2>2 DEF ResolveName, IInv, AtStart
  <2>3. CASE a \in Addrs /\ TakeLiteral(a)
    BY <1>1, <2>1, <2>3 DEF TakeLiteral
  <2> QED
    BY <2>2, <2>3
<1>4. /\ queue' \in Seq(Addrs) /\ ToSet(queue') = seen' /\ Cardinality(seen') = Len(queue')
      /\ IsFiniteSet(seen') /\ seen' \cap Blocked = {} /\ seen' \in SUBSET Addrs
      /\ (queue' = <<>> \/ Len(queue') = 1) /\ known' = seen'
  <2>1. CASE q = <<>>
    BY <1>1, <1>3, <2>1, FS_EmptySet
  <2>2. CASE q = <<a>> /\ a \in Addrs \ Blocked
    <3>1. ToSet(<<a>>) = {a} /\ Len(<<a>>) = 1 /\ <<a>> \in Seq(Addrs)
      BY <2>2 DEF ToSet
    <3>2. /\ queue' = <<a>> /\ seen' = {a} /\ known' = seen'
          /\ Cardinality({a}) = 1 /\ IsFiniteSet({a})
      BY <1>3, <2>2, <3>1, FS_Singleton
    <3> QED
      BY <2>2, <3>1, <3>2
  <2> QED
    BY <1>3, <2>1, <2>2
<1>5. EstablishTypeOK'
  <2>1. dialled' \in Seq(Addrs) /\ active' \in SUBSET Addrs /\ last_error' \in BOOLEAN
    <3>1. <<>> \in Seq(Addrs) /\ {} \in SUBSET Addrs /\ FALSE \in BOOLEAN
      OBVIOUS
    <3> QED
      BY <1>1, <3>1, Zenon
  <2> QED
    BY <1>1, <1>2, <1>4, <2>1, Zenon DEF EstablishTypeOK
<1>6. DialledOnce' /\ IsFiniteSet(seen')
  <2>1. Len(<<>>) = 0 /\ Len(queue') \in Nat
    BY <1>4
  <2> QED
    BY <1>1, <1>4, <2>1 DEF DialledOnce
<1>7. DialTold' /\ NothingLeft' /\ TimeIsLeft' /\ AtStart'
  <2>1. TimeIsLeft'
    <3>1. known' \cap ToSet(queue') # {} => Len(queue') = 1
      BY <1>1, <1>4
    <3> QED
      BY <1>1, <1>4, <3>1 DEF TimeIsLeft, Returned
  <2> QED
    BY <1>1, <2>1 DEF DialTold, NothingLeft, AtStart, Returned
<1> QED
  BY <1>5, <1>6, <1>7 DEF IInv

\* What an answer does to the candidates, lengths included.
LEMMA AnswerQueues ==
  ASSUME EstablishTypeOK, NEW f, NEW addresses \in Answers \cup {<<>>}, Answer(f, addresses)
  PROVE  \E new \in Seq(Addrs) :
           /\ queue' = queue \o new /\ queue' \in Seq(Addrs)
           /\ Len(queue') = Len(queue) + Len(new)
           /\ ToSet(queue') = ToSet(queue) \cup ToSet(new)
           /\ ToSet(new) = ToSet(addresses) \ (Blocked \cup seen)
           /\ IsFiniteSet(ToSet(new)) /\ Cardinality(ToSet(new)) = Len(new)
           /\ seen' = seen \cup ToSet(new)
<1>1. PICK new \in Answers \cup {<<>>} :
        ToSet(new) = ToSet(addresses) \ (Blocked \cup seen) /\ queue' = queue \o new
  BY DEF Answer, AddCandidates, Filtered
<1>2. new \in Seq(Addrs) /\ IsFiniteSet(ToSet(new)) /\ Cardinality(ToSet(new)) = Len(new)
  BY AnswerIsSeq
<1>3. queue \in Seq(Addrs)
  BY DEF EstablishTypeOK
<1>4. /\ queue \o new \in Seq(Addrs) /\ Len(queue \o new) = Len(queue) + Len(new)
      /\ ToSet(queue \o new) = ToSet(queue) \cup ToSet(new)
  BY <1>2, <1>3, ConcatSet
<1>5. seen' = seen \cup ToSet(new)
  BY <1>1 DEF Answer, AddCandidates
<1> QED
  BY <1>1, <1>2, <1>4, <1>5

LEMMA TypePreserved == EstablishTypeOK /\ [Search]_establishVars => EstablishTypeOK'
<1> SUFFICES ASSUME EstablishTypeOK, [Search]_establishVars PROVE EstablishTypeOK'
  OBVIOUS
<1>0. Deadline \in Nat /\ Blocked \subseteq Addrs
  BY EstablishAssumption
<1>1. CASE Dial
  <2>1. Head(queue) \in Addrs /\ Tail(queue) \in Seq(Addrs)
    BY <1>1, TailSet DEF Dial, EstablishTypeOK
  <2>2. Append(dialled, Head(queue)) \in Seq(Addrs)
    BY <2>1, AppendProperties DEF EstablishTypeOK
  <2>3. Share(Tail(queue)) \in 0 .. Deadline
    <3>1. now \in 0 .. Deadline
      BY DEF EstablishTypeOK
    <3>2. Share(Tail(queue)) \in now .. Deadline
      BY <2>1, <3>1, ShareLeavesTime
    <3> QED
      BY <1>0, <3>1, <3>2
  <2> QED
    BY <1>1, <2>1, <2>2, <2>3 DEF Dial, EstablishTypeOK
<1>2. ASSUME NEW f \in Families, NEW addresses \in Answers \cup {<<>>}, Answer(f, addresses)
      PROVE  EstablishTypeOK'
  <2>1. queue' \in Seq(Addrs)
    BY <1>2, AnswerQueues
  <2>2. Share(queue') \in 0 .. Deadline
    BY <1>0, <2>1, ShareLeavesTime DEF EstablishTypeOK
  <2>3. attempt_deadline' \in 0 .. Deadline
    BY <1>2, <2>2 DEF Answer, EstablishTypeOK
  <2>4. ToSet(addresses) \subseteq Addrs
    BY AnswerIsSeq
  <2>5. seen' \in SUBSET Addrs /\ known' \in SUBSET Addrs
    BY <1>2, <2>4 DEF Answer, AddCandidates, EstablishTypeOK
  <2>6. blocked' \in BOOLEAN
    BY <1>2, Zenon DEF Answer, AddCandidates
  <2>7. done' \in SUBSET Families /\ pc' = "top" /\ now' = now /\ active' = active
        /\ last_error' = last_error /\ dialled' = dialled
    BY <1>2 DEF Answer, EstablishTypeOK
  <2> QED
    BY <2>1, <2>3, <2>5, <2>6, <2>7, Zenon DEF EstablishTypeOK
<1>3. CASE Exhausted \/ Wait \/ DeadlineReached
  BY <1>3 DEF Exhausted, Wait, DeadlineReached, EstablishTypeOK, Returned
<1>4. CASE Connected \/ DialFails \/ AttemptTimesOut
  BY <1>4 DEF Connected, DialFails, AttemptTimesOut, EstablishTypeOK, Returned
<1>5. CASE Tick
  BY <1>0, <1>5 DEF Tick, EstablishTypeOK
<1>6. CASE UNCHANGED establishVars
  BY <1>6 DEF establishVars, EstablishTypeOK
<1> QED
  BY <1>1, <1>2, <1>3, <1>4, <1>5, <1>6 DEF Search, Top, LookupFails

LEMMA OncePreserved ==
  EstablishTypeOK /\ DialledOnce /\ IsFiniteSet(seen) /\ [Search]_establishVars => DialledOnce' /\ IsFiniteSet(seen)'
<1> SUFFICES ASSUME EstablishTypeOK, DialledOnce, IsFiniteSet(seen), [Search]_establishVars
             PROVE  DialledOnce' /\ IsFiniteSet(seen')
  OBVIOUS
<1>0. /\ queue \in Seq(Addrs) /\ Len(queue) \in Nat
      /\ dialled \in Seq(Addrs) /\ Len(dialled) \in Nat
  BY DEF EstablishTypeOK
<1>1. CASE Dial
  <2>1. /\ Head(queue) \in Addrs /\ Len(Tail(queue)) = Len(queue) - 1
        /\ ToSet(queue) = ToSet(Tail(queue)) \cup {Head(queue)}
    BY <1>0, <1>1, TailSet DEF Dial
  <2>2. /\ ToSet(Append(dialled, Head(queue))) = ToSet(dialled) \cup {Head(queue)}
        /\ Len(Append(dialled, Head(queue))) = Len(dialled) + 1
    BY <1>0, <2>1, AppendSet, AppendProperties
  <2> QED
    BY <1>0, <1>1, <2>1, <2>2 DEF Dial, DialledOnce
<1>2. ASSUME NEW f \in Families, NEW addresses \in Answers \cup {<<>>}, Answer(f, addresses)
      PROVE  DialledOnce' /\ IsFiniteSet(seen')
  <2>1. PICK new \in Seq(Addrs) :
           /\ Len(queue') = Len(queue) + Len(new)
           /\ ToSet(queue') = ToSet(queue) \cup ToSet(new)
           /\ ToSet(new) = ToSet(addresses) \ (Blocked \cup seen)
           /\ IsFiniteSet(ToSet(new)) /\ Cardinality(ToSet(new)) = Len(new)
           /\ seen' = seen \cup ToSet(new)
    BY <1>2, AnswerQueues
  <2>2. /\ IsFiniteSet(seen \cup ToSet(new))
        /\ Cardinality(seen \cup ToSet(new))
             = Cardinality(seen) + Cardinality(ToSet(new)) - Cardinality(seen \cap ToSet(new))
    BY <2>1, FS_Union
  <2>3. seen \cap ToSet(new) = {} /\ Cardinality({}) = 0
    BY <2>1, FS_EmptySet
  <2>4. Cardinality(seen') = Len(dialled) + Len(queue')
    <3>1. Cardinality(seen) = Len(dialled) + Len(queue) /\ Len(new) \in Nat
      BY DEF DialledOnce
    <3>2. Cardinality(seen') = Cardinality(seen) + Len(new) - 0
      BY <2>1, <2>2, <2>3
    <3> QED
      BY <1>0, <2>1, <3>1, <3>2
  <2>5. dialled' = dialled
    BY <1>2 DEF Answer
  <2>6. ToSet(dialled) \cup ToSet(queue') = seen' /\ seen' \cap Blocked = {}
    BY <2>1 DEF DialledOnce
  <2> QED
    BY <2>1, <2>2, <2>4, <2>5, <2>6 DEF DialledOnce
<1>3. CASE UNCHANGED <<seen, dialled, queue>>
  BY <1>3 DEF DialledOnce
<1> QED
  BY <1>1, <1>2, <1>3 DEF Search, Top, LookupFails, Exhausted, Wait, DeadlineReached, Connected,
     DialFails, AttemptTimesOut, Tick, establishVars

LEMMA ToldPreserved == EstablishTypeOK /\ DialTold /\ [Search]_establishVars => DialTold'
<1> SUFFICES ASSUME EstablishTypeOK, DialTold, [Search]_establishVars PROVE DialTold'
  OBVIOUS
<1>1. CASE Dial
  <2>1. dialled' # <<>>
    <3>1. Head(queue) \in Addrs
      BY <1>1, TailSet DEF Dial, EstablishTypeOK
    <3> QED
      BY <1>1, <3>1, AppendProperties DEF Dial, EstablishTypeOK
  <2> QED
    BY <1>1, <2>1 DEF Dial, DialTold
<1>2. ASSUME NEW f, NEW addresses, Answer(f, addresses) PROVE DialTold'
  BY <1>2 DEF Answer, DialTold
<1>3. CASE Exhausted \/ Wait \/ DeadlineReached
  BY <1>3 DEF Exhausted, Wait, DeadlineReached, DialTold
<1>4. CASE Connected \/ DialFails \/ AttemptTimesOut
  BY <1>4 DEF Connected, DialFails, AttemptTimesOut, DialTold
<1>5. CASE Tick \/ UNCHANGED establishVars
  BY <1>5 DEF Tick, establishVars, DialTold
<1> QED
  BY <1>1, <1>2, <1>3, <1>4, <1>5 DEF Search, Top, LookupFails

LEMMA LeftPreserved == EstablishTypeOK /\ NothingLeft /\ [Search]_establishVars => NothingLeft'
<1> SUFFICES ASSUME EstablishTypeOK, NothingLeft, [Search]_establishVars PROVE NothingLeft'
  OBVIOUS
<1>1. CASE Exhausted
  BY <1>1 DEF Exhausted, NothingLeft
<1>2. CASE DeadlineReached
  BY <1>2, EstablishAssumption DEF DeadlineReached, NothingLeft, EstablishTypeOK
<1>3. CASE pc' \in {"top", "select", "connected"}
  BY <1>3 DEF NothingLeft, Returned
<1>4. CASE UNCHANGED establishVars
  BY <1>4 DEF NothingLeft, establishVars
<1> QED
  BY <1>1, <1>2, <1>3, <1>4 DEF Search, Top, LookupFails, Answer, Dial, Wait, Connected, DialFails,
     AttemptTimesOut, Tick

LEMMA TimePreserved ==
  EstablishTypeOK /\ DialledOnce /\ TimeIsLeft /\ [Search]_establishVars => TimeIsLeft'
<1> SUFFICES ASSUME EstablishTypeOK, DialledOnce, TimeIsLeft, [Search]_establishVars PROVE TimeIsLeft'
  OBVIOUS
<1>0. /\ Deadline \in Nat /\ now \in 0 .. Deadline /\ attempt_deadline \in 0 .. Deadline
      /\ queue \in Seq(Addrs)
  BY EstablishAssumption DEF EstablishTypeOK
<1>1. CASE Dial
  <2>1. /\ Head(queue) \in Addrs /\ Tail(queue) \in Seq(Addrs)
        /\ Len(Tail(queue)) = Len(queue) - 1
        /\ ToSet(queue) = ToSet(Tail(queue)) \cup {Head(queue)}
    BY <1>0, <1>1, TailSet DEF Dial
  <2>2. /\ Share(Tail(queue)) \in now .. Deadline
        /\ (Tail(queue) # <<>> /\ now < Deadline) => Share(Tail(queue)) < Deadline
    BY <1>0, <2>1, ShareLeavesTime
  <2>3. /\ queue' = Tail(queue) /\ attempt_deadline' = Share(Tail(queue)) /\ pc' = "select"
        /\ pc = "top" /\ active = {} /\ now' = now /\ known' = known /\ seen' = seen
        /\ active' # {}
    BY <1>1 DEF Dial
  <2>4. now' <= attempt_deadline'
    BY <1>0, <2>2, <2>3
  <2>5. ASSUME known' \cap ToSet(queue') # {}
        PROVE  now' < Deadline /\ attempt_deadline' < Deadline
    <3>1. Tail(queue) # <<>> /\ Len(queue) # 1
      <4>1. Tail(queue) # <<>>
        BY <2>3, <2>5, EmptySeqSet
      <4>2. Len(Tail(queue)) # 0 /\ Len(queue) \in Nat
        BY <1>0, <2>1, <4>1
      <4> QED
        BY <2>1, <4>1, <4>2
    <3>2. now < Deadline
      BY <2>1, <2>3, <2>5, <3>1 DEF TimeIsLeft
    <3> QED
      BY <2>2, <2>3, <3>1, <3>2
  <2> QED
    BY <2>3, <2>4, <2>5 DEF TimeIsLeft, Returned
<1>2. ASSUME NEW f \in Families, NEW addresses \in Answers \cup {<<>>}, Answer(f, addresses)
      PROVE  TimeIsLeft'
  <2>1. PICK new \in Seq(Addrs) :
           /\ queue' = queue \o new /\ queue' \in Seq(Addrs)
           /\ ToSet(queue') = ToSet(queue) \cup ToSet(new)
           /\ ToSet(new) = ToSet(addresses) \ (Blocked \cup seen)
           /\ seen' = seen \cup ToSet(new)
    BY <1>2, AnswerQueues
  <2>2. /\ pc = "select" /\ pc' = "top" /\ now' = now /\ active' = active
        /\ attempt_deadline' = IF active # {} /\ queue' # <<>> /\ Share(queue') < attempt_deadline
                               THEN Share(queue') ELSE attempt_deadline
        /\ known' = IF now < Deadline THEN known \cup (ToSet(addresses) \ Blocked) ELSE known
    BY <1>2 DEF Answer
  <2>3. /\ Share(queue') \in now .. Deadline
        /\ (queue' # <<>> /\ now < Deadline) => Share(queue') < Deadline
    BY <1>0, <2>1, ShareLeavesTime
  <2>4. known' \subseteq seen'
    BY <2>1, <2>2 DEF TimeIsLeft
  <2>5. active' # {} => now' <= attempt_deadline'
    BY <1>0, <2>2, <2>3 DEF TimeIsLeft
  <2>6. ASSUME known' \cap ToSet(queue') # {}
        PROVE  now' < Deadline /\ (active' # {} => attempt_deadline' < Deadline)
    <3>1. queue' # <<>>
      BY <2>6, EmptySeqSet
    <3>2. now < Deadline
      <4>1. CASE known' = known
        <5>1. known \cap ToSet(new) = {}
          BY <2>1 DEF TimeIsLeft
        <5>2. known \cap ToSet(queue) # {}
          BY <2>1, <2>6, <4>1, <5>1
        <5> QED
          BY <2>2, <5>2 DEF TimeIsLeft
      <4> QED
        BY <2>2, <4>1
    <3>3. Share(queue') < Deadline
      BY <2>3, <3>1, <3>2
    <3>4. attempt_deadline' <= Share(queue') \/ active = {}
      BY <1>0, <2>2, <2>3, <3>1
    <3>5. Share(queue') \in Nat /\ attempt_deadline' \in Nat
      BY <1>0, <2>2, <2>3
    <3> QED
      BY <1>0, <2>2, <3>2, <3>3, <3>4, <3>5
  <2> QED
    BY <2>2, <2>4, <2>5, <2>6 DEF TimeIsLeft, Returned
<1>3. CASE Exhausted
  BY <1>3, EmptySeqSet DEF Exhausted, TimeIsLeft
<1>4. CASE DeadlineReached
  <2>1. known \cap ToSet(queue) = {}
    <3> SUFFICES ASSUME known \cap ToSet(queue) # {} PROVE FALSE
      OBVIOUS
    <3>1. now < Deadline
      BY <1>4 DEF DeadlineReached, TimeIsLeft
    <3> QED
      BY <1>0, <1>4, <3>1 DEF DeadlineReached
  <2> QED
    BY <1>4, <2>1 DEF DeadlineReached, TimeIsLeft
<1>5. CASE Wait
  BY <1>5 DEF Wait, TimeIsLeft, Returned
<1>6. CASE Connected \/ DialFails \/ AttemptTimesOut
  BY <1>6 DEF Connected, DialFails, AttemptTimesOut, TimeIsLeft, Returned
<1>7. CASE Tick
  <2>1. /\ pc = "select" /\ now' = now + 1 /\ now < Deadline /\ (active # {} => now < attempt_deadline)
        /\ UNCHANGED <<pc, queue, seen, active, attempt_deadline, known>>
    BY <1>7 DEF Tick
  <2>2. active # {} => now' <= attempt_deadline
    BY <1>0, <2>1
  <2>3. ASSUME known \cap ToSet(queue) # {}
        PROVE  now' < Deadline /\ (active # {} => attempt_deadline < Deadline)
    <3>1. active # {}
      BY <2>1, <2>3, EmptySeqSet DEF TimeIsLeft
    <3>2. attempt_deadline < Deadline
      BY <2>1, <2>3, <3>1 DEF TimeIsLeft
    <3> QED
      BY <1>0, <2>1, <2>2, <3>1, <3>2
  <2> QED
    BY <2>1, <2>2, <2>3 DEF TimeIsLeft, Returned
<1>8. CASE UNCHANGED establishVars
  BY <1>8 DEF establishVars, TimeIsLeft
<1> QED
  BY <1>1, <1>2, <1>3, <1>4, <1>5, <1>6, <1>7, <1>8 DEF Search, Top, LookupFails

-----------------------------------------------------------------------------
(* The theorems.                                                           *)

LEMMA Inductive == EstablishSpec => []IInv
<1>1. IInv /\ [Search]_establishVars => IInv'
  <2>1. AtStart /\ [Search]_establishVars => AtStart'
    BY DEF AtStart, establishVars, Search, Top, Dial, Exhausted, Wait, LookupFails, Answer,
           Connected, DialFails, AttemptTimesOut, DeadlineReached, Tick
  <2> QED
    BY <2>1, TypePreserved, OncePreserved, ToldPreserved, TimePreserved, LeftPreserved DEF IInv
<1>2. IInv /\ [EstablishNext]_establishVars => IInv'
  <2> SUFFICES ASSUME IInv, [EstablishNext]_establishVars PROVE IInv'
    OBVIOUS
  <2>1. CASE ResolveName
    BY <2>1, BeginPreserves
  <2>2. CASE \E a \in Addrs : TakeLiteral(a)
    BY <2>2, BeginPreserves
  <2> QED
    BY <1>1, <2>1, <2>2 DEF EstablishNext
<1> QED
  BY <1>2, Initially, PTL DEF EstablishSpec

\* However the two answers overlap and interleave with the dials, establish dials or queues
\* each allowed address exactly once and a refused one never, and no timer of it runs past
\* the connect deadline.
THEOREM EstablishInvariant == EstablishSpec => []EstablishInv
<1>1. IInv => EstablishInv
  BY DEF IInv, EstablishInv
<1> QED
  BY <1>1, Inductive, PTL

\* A failure of establish before the deadline means that both lookups are over and that
\* every allowed address they returned was dialled.
THEOREM SearchCompletes == EstablishSpec => []SearchIsComplete
<1>1. IInv => SearchIsComplete
  BY EmptySeqSet DEF IInv, NothingLeft, DialledOnce, SearchIsComplete
<1> QED
  BY <1>1, Inductive, PTL

\* The shares of the time are such that every allowed address that was known before the
\* deadline is dialled before establish gives up.
THEOREM NobodyStarves == EstablishSpec => []NoCandidateStarves
<1>1. IInv => NoCandidateStarves
  BY DEF IInv, TimeIsLeft, DialledOnce, NoCandidateStarves
<1> QED
  BY <1>1, Inductive, PTL

\* Both places where establish gives up report the same error for the same history.
THEOREM ErrorsAreHonest == EstablishSpec => []ErrorIsHonest
<1>1. IInv => ErrorIsHonest
  BY DEF IInv, DialTold, ErrorIsHonest
<1> QED
  BY <1>1, Inductive, PTL

-----------------------------------------------------------------------------
(* The relay.                                                              *)


\* How old last_activity can be while a direction runs.  A read begins with a
\* last_activity younger than the window, because it follows a write or a retry that
\* looked at it; a read lasts at most a window, and so does the write after it.
TimersCoupled ==
  \A d \in Dirs :
    /\ st[d] = "reading" => silence < Idle + age[d]
    /\ st[d] = "writing" => silence < 2 * Idle + age[d]

\* A read begins with an empty buffer, and a write ends with all of it handed over.
BufferCounted ==
  \A d \in Dirs :
    /\ st[d] \in {"reading", "eof", "idle"} => left[d] = 0 /\ gap[d] = 0
    /\ st[d] = "writing" => left[d] >= 1 /\ left[d] + gap[d] <= MaxLen
    /\ fin[d] <=> st[d] \in {"eof", "idle"}

\* A direction with nothing in its buffer moved its last bytes with a completed write,
\* which set last_activity; one that reads did so before the read began.
QuietCounted ==
  \A d \in Dirs :
    /\ st[d] = "reading" => quiet[d] >= age[d]
    /\ left[d] = 0 => quiet[d] = Idle \/ quiet[d] >= silence

RelayIInv == RelayTypeOK /\ TimersCoupled /\ BufferCounted /\ QuietCounted

\* Both directions start with a read, and with nothing in the buffer.
LEMMA RelayInitEstablishes == RelayInit => RelayIInv
  BY RelayAssumption DEF RelayInit, RelayIInv, RelayTypeOK, TimersCoupled, BufferCounted, QuietCounted,
     Running, Over, Horizon, Dirs

\* Every step of a direction, the passing of time and the shutdown preserve the invariant.
LEMMA RelayStepPreserves == RelayIInv /\ [RelayNext]_relayVars => RelayIInv'
<1> SUFFICES ASSUME RelayIInv, [RelayNext]_relayVars PROVE RelayIInv'
  OBVIOUS
<1> USE RelayAssumption DEF RelayIInv, RelayTypeOK, TimersCoupled, BufferCounted, QuietCounted,
        Running, Over, Horizon, Enter
<1>1. ASSUME NEW d \in Dirs, ReadData(d) PROVE RelayIInv'
  BY <1>1 DEF ReadData
<1>2. ASSUME NEW d \in Dirs, ReadEof(d) PROVE RelayIInv'
  BY <1>2 DEF ReadEof
<1>3. ASSUME NEW d \in Dirs, ReadFails(d) PROVE RelayIInv'
  BY <1>3 DEF ReadFails
<1>4. ASSUME NEW d \in Dirs, ReadIdle(d) PROVE RelayIInv'
  BY <1>4 DEF ReadIdle
<1>5. ASSUME NEW d \in Dirs, WritePiece(d) PROVE RelayIInv'
  BY <1>5 DEF WritePiece
<1>6. ASSUME NEW d \in Dirs, WriteDone(d) PROVE RelayIInv'
  BY <1>6 DEF WriteDone
<1>7. ASSUME NEW d \in Dirs, WriteFails(d) PROVE RelayIInv'
  BY <1>7 DEF WriteFails
<1>8. ASSUME NEW d \in Dirs, WriteTimesOut(d) PROVE RelayIInv'
  BY <1>8 DEF WriteTimesOut
<1>9. CASE Dropped
  BY <1>9 DEF Dropped
<1>10. CASE RelayTick
  BY <1>10 DEF RelayTick
<1>11. CASE UNCHANGED relayVars
  BY <1>11 DEF relayVars
<1> QED
  BY <1>1, <1>2, <1>3, <1>4, <1>5, <1>6, <1>7, <1>8, <1>9, <1>10, <1>11
     DEF RelayNext, Timeout, Peer

\* The strengthened invariant holds in every reachable state.
LEMMA RelayInductive == RelaySpec => []RelayIInv
  BY RelayInitEstablishes, RelayStepPreserves, PTL DEF RelaySpec

\* copy_half shuts a destination down only after it was given every byte read for it, no
\* read or write outlives its timeout, and whatever the offsets of the two directions'
\* timers, no relay outlives three idle windows without a completed write.
THEOREM RelayInvariant == RelaySpec => []RelayInv
<1>1. RelayIInv => RelayInv
  BY RelayAssumption DEF RelayIInv, RelayTypeOK, TimersCoupled, BufferCounted, RelayInv,
     FinMeansDelivered, NoLingering, Finished, Running, Over, Horizon
<1> QED
  BY <1>1, RelayInductive, PTL

\* The check of last_activity in copy_half: a direction is closed as idle only when it
\* has moved nothing for the window, and the other direction, whatever it is doing, has
\* moved nothing either but for bytes of a chunk it has not handed over completely.
THEOREM IdlenessCoupled == RelaySpec => IdleIsCoupled
<1> DEFINE Coupled ==
      \A d \in Dirs :
        ClosesIdle(d) =>
          /\ quiet[d] >= Idle
          /\ left[Other(d)] = 0 => quiet[Other(d)] >= Idle
<1>1. ASSUME RelayIInv, [RelayNext]_relayVars PROVE Coupled
  <2> SUFFICES ASSUME NEW d \in Dirs, st[d] = "reading", st'[d] = "idle"
               PROVE  /\ quiet[d] >= Idle
                      /\ left[Other(d)] = 0 => quiet[Other(d)] >= Idle
    BY DEF ClosesIdle
  <2>1. age[d] = Idle /\ silence >= Idle
    BY <1>1 DEF RelayIInv, RelayTypeOK, RelayNext, relayVars, Timeout, Peer, Enter, ReadData, ReadEof, ReadFails,
       ReadIdle, WritePiece, WriteDone, WriteFails, WriteTimesOut, Dropped, RelayTick, Running
  <2>2. Other(d) \in Dirs
    BY DEF Other, Dirs
  <2> QED
    BY <1>1, <2>1, <2>2, RelayAssumption DEF RelayIInv, RelayTypeOK, QuietCounted, Horizon
<1>2. ASSUME RelayIInv, [RelayNext]_relayVars PROVE [Coupled]_relayVars
  BY <1>1, <1>2
<1> QED
  BY <1>2, RelayInductive, PTL DEF RelaySpec, IdleIsCoupled
=============================================================================
