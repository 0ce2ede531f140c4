---------------------------- MODULE MetricsProofs ----------------------------
(***************************************************************************)
(* Proofs about Metrics, for any number of connection tasks, every limit   *)
(* of the generator and any number of calls.                               *)
(***************************************************************************)
EXTENDS Metrics, FiniteSetTheorems, SequenceTheorems, TLAPS

(* What the proofs add to MetricsInv.                                      *)

One(p) == IF p THEN 1 ELSE 0

\* The effects a call may have.
Legal(e) ==
  /\ e = Effect(e.op, e.arg)
  /\ \/ e.op \in {"take_id", "insert"} /\ e.arg = 0
     \/ e.op \in {"total", "active", "successes", "failures", "bytes"} /\ e.arg = 1
     \/ e.op = "active" /\ e.arg = -1
     \/ e.op \in {"remove", "row"} /\ e.arg \in Nat
     \/ e.op = "bucket" /\ e.arg \in Codes

\* What is before the lock of a register or of an unregister.
BeforeInsert == {Effect("take_id", 0), Effect("total", 1), Effect("active", 1)}
BeforeRemove == {Effect("active", -1)}

\* A call, or what is left of it, by the places of its effects.
CallShape(f) ==
  /\ \A k \in DOMAIN f : k \in Nat /\ Legal(f[k])
  /\ \A j, k \in DOMAIN f : f[j].op = f[k].op => j = k
  /\ \A k \in DOMAIN f : f[k] \in BeforeInsert => \E j \in DOMAIN f : k < j /\ f[j].op = "insert"
  /\ \A k \in DOMAIN f : f[k] \in BeforeRemove => \E j \in DOMAIN f : k < j /\ f[j].op = "remove"
  /\ \A j, k \in DOMAIN f : f[j].op = "insert" => f[k].op \notin {"remove", "successes"}

EffectsOf(f) == {f[k] : k \in DOMAIN f}

\* What an actor still has to do, wherever it is in its call.
Debts(a) == EffectsOf(todo[a])

Owes(D, op) == \E e \in D : e.op = op

\* The same without the places.
DebtShape(D) ==
  /\ \A e \in D : Legal(e)
  /\ \A d, e \in D : d.op = e.op => d = e
  /\ (\E e \in D : e \in BeforeInsert) => Owes(D, "insert")
  /\ (\E e \in D : e \in BeforeRemove) => Owes(D, "remove")
  /\ Owes(D, "insert") => ~ Owes(D, "remove") /\ ~ Owes(D, "successes")

Calls ==
  /\ DOMAIN todo = Actors
  /\ \A a \in Actors : CallShape(todo[a])

-----------------------------------------------------------------------------
(* Calls and what is left of them.                                         *)

LEMMA ShapeOfDebts ==
  ASSUME NEW f, CallShape(f)
  PROVE  DebtShape(EffectsOf(f))
<1> DEFINE D == EffectsOf(f)
<1>1. \A e \in D : \E k \in DOMAIN f : e = f[k]
  BY DEF EffectsOf
<1>2. \A k \in DOMAIN f : f[k] \in D
  BY DEF EffectsOf
<1> HIDE DEF D
<1>3. \A e \in D : Legal(e)
  BY <1>1 DEF CallShape
<1>4. \A d, e \in D : d.op = e.op => d = e
  BY <1>1 DEF CallShape
<1>5. (\E e \in D : e \in BeforeInsert) => Owes(D, "insert")
  BY <1>1, <1>2 DEF CallShape, Owes
<1>6. (\E e \in D : e \in BeforeRemove) => Owes(D, "remove")
  BY <1>1, <1>2 DEF CallShape, Owes
<1>7. Owes(D, "insert") => ~ Owes(D, "remove") /\ ~ Owes(D, "successes")
  BY <1>1 DEF CallShape, Owes
<1> QED
  BY <1>3, <1>4, <1>5, <1>6, <1>7 DEF DebtShape, D

\* The lock is taken only when everything before it is done, so that what is left of a
\* call is in order again.
LEMMA ShapeAfterEffect ==
  ASSUME Calls, NEW a \in Actors, NEW k \in Ready(a)
  PROVE  /\ k \in DOMAIN todo[a]
         /\ todo[a][k] \in Debts(a)
         /\ CallShape(Without(todo[a], k))
         /\ EffectsOf(Without(todo[a], k)) = Debts(a) \ {todo[a][k]}
<1> DEFINE f == todo[a]
           g == Without(f, k)
<1>1. CallShape(f)
  BY DEF Calls
<1>2. /\ k \in DOMAIN f
      /\ \/ \A j \in DOMAIN f : k <= j
         \/ \A j \in DOMAIN f : j <= k => f[j].op \notin Locks
  BY DEF Ready
<1>3. DOMAIN g = DOMAIN f \ {k} /\ \A j \in DOMAIN g : g[j] = f[j]
  BY DEF Without
<1>4. Debts(a) = EffectsOf(f)
  BY DEF Debts
<1> HIDE DEF f, g
<1>5. \A j \in DOMAIN f : j \in Nat
  BY <1>1 DEF CallShape
<1>6. f[k].op \in {"insert", "remove"} => \A j \in DOMAIN f : k <= j
  BY <1>2, <1>5 DEF Locks
<1>7. \A i \in DOMAIN g : g[i] \in BeforeInsert => \E j \in DOMAIN g : i < j /\ g[j].op = "insert"
  <2> SUFFICES ASSUME NEW i \in DOMAIN g, g[i] \in BeforeInsert
               PROVE  \E j \in DOMAIN g : i < j /\ g[j].op = "insert"
    OBVIOUS
  <2>1. PICK j \in DOMAIN f : i < j /\ f[j].op = "insert"
    BY <1>1, <1>3 DEF CallShape
  <2>2. j # k
    BY <1>3, <1>5, <1>6, <2>1
  <2> QED
    BY <1>3, <2>1, <2>2
<1>8. \A i \in DOMAIN g : g[i] \in BeforeRemove => \E j \in DOMAIN g : i < j /\ g[j].op = "remove"
  <2> SUFFICES ASSUME NEW i \in DOMAIN g, g[i] \in BeforeRemove
               PROVE  \E j \in DOMAIN g : i < j /\ g[j].op = "remove"
    OBVIOUS
  <2>1. PICK j \in DOMAIN f : i < j /\ f[j].op = "remove"
    BY <1>1, <1>3 DEF CallShape
  <2>2. j # k
    BY <1>3, <1>5, <1>6, <2>1
  <2> QED
    BY <1>3, <2>1, <2>2
<1>9. CallShape(g)
  <2>1. \A j \in DOMAIN g : j \in Nat /\ Legal(g[j])
    BY <1>1, <1>3 DEF CallShape
  <2>2. \A i, j \in DOMAIN g : g[i].op = g[j].op => i = j
    BY <1>1, <1>3 DEF CallShape
  <2>3. \A i, j \in DOMAIN g : g[i].op = "insert" => g[j].op \notin {"remove", "successes"}
    BY <1>1, <1>3 DEF CallShape
  <2> QED
    BY <1>7, <1>8, <2>1, <2>2, <2>3 DEF CallShape
<1>10. EffectsOf(g) = EffectsOf(f) \ {f[k]}
  <2>1. \A j \in DOMAIN f : f[j] = f[k] => j = k
    BY <1>1, <1>2 DEF CallShape
  <2> QED
    BY <1>2, <1>3, <2>1 DEF EffectsOf
<1> QED
  BY <1>2, <1>4, <1>9, <1>10 DEF f, g, EffectsOf

-----------------------------------------------------------------------------
(* The calls there are.                                                    *)

OpeningEffects == {Effect("take_id", 0), Effect("total", 1), Effect("active", 1), Effect("insert", 0)}
ErrorEffects(code) == {Effect("failures", 1), Effect("bucket", code)}
ByteEffects(id) == {Effect("bytes", 1), Effect("row", id)}
ClosingEffects(id) == {Effect("successes", 1), Effect("active", -1), Effect("remove", id)}
DrainEffects(id) == {Effect("active", -1), Effect("remove", id)}

\* An effect is known by its operation and its argument.
LEMMA EffectFields ==
  ASSUME NEW op, NEW arg
  PROVE  Effect(op, arg).op = op /\ Effect(op, arg).arg = arg
BY DEF Effect

LEMMA RegisterCall == CallShape(register) /\ EffectsOf(register) = OpeningEffects
<1> DEFINE f == register
<1>1. DOMAIN f = 1 .. 4
  BY DEF register
<1>2. f[1] = Effect("take_id", 0) /\ f[2] = Effect("total", 1) /\ f[3] = Effect("active", 1) /\ f[4] = Effect("insert", 0)
  BY DEF register
<1> HIDE DEF f
<1>3. f[1].op = "take_id" /\ f[2].op = "total" /\ f[3].op = "active" /\ f[4].op = "insert"
  BY <1>2, EffectFields
<1>4. f[1].arg = 0 /\ f[2].arg = 1 /\ f[3].arg = 1 /\ f[4].arg = 0
  BY <1>2, EffectFields
<1>5. \A k \in 1 .. 4 : Legal(f[k])
  BY <1>2, <1>3, <1>4 DEF Legal
<1>6. \A j \in 1 .. 4 : f[j] \in BeforeRemove => FALSE
  <2>1. \A e \in BeforeRemove : e.op = "active" /\ e.arg = -1
    BY EffectFields DEF BeforeRemove
  <2> QED
    BY <1>3, <1>4, <2>1
<1>7. \A k \in 1 .. 4 : f[k] \in BeforeInsert => k < 4
  <2>1. \A e \in BeforeInsert : e.op # "insert"
    BY EffectFields DEF BeforeInsert
  <2> QED
    BY <1>3, <2>1
<1>8. CallShape(f)
  BY <1>1, <1>3, <1>5, <1>6, <1>7 DEF CallShape
<1>9. EffectsOf(f) = OpeningEffects
  BY <1>1, <1>2 DEF EffectsOf, OpeningEffects
<1> QED
  BY <1>8, <1>9 DEF f

\* A call without a lock that the rest depends on.
LEMMA PairCall ==
  ASSUME NEW d, NEW e, Legal(d), Legal(e), d.op # e.op,
         {d.op, e.op} \subseteq {"failures", "bucket", "bytes", "row"}
  PROVE  CallShape(<<d, e>>) /\ EffectsOf(<<d, e>>) = {d, e}
<1> DEFINE f == <<d, e>>
<1>1. DOMAIN f = 1 .. 2 /\ f[1] = d /\ f[2] = e
  OBVIOUS
<1> HIDE DEF f
<1>2. \A k \in 1 .. 2 : f[k] \notin BeforeInsert /\ f[k] \notin BeforeRemove
  <2>1. \A b \in BeforeInsert \union BeforeRemove : b.op \in {"take_id", "total", "active"}
    BY EffectFields DEF BeforeInsert, BeforeRemove
  <2>2. \A k \in 1 .. 2 : f[k].op \in {d.op, e.op}
    BY <1>1
  <2> QED
    BY <2>1, <2>2
<1>3. CallShape(f)
  BY <1>1, <1>2 DEF CallShape
<1>4. EffectsOf(f) = {d, e}
  BY <1>1 DEF EffectsOf
<1> QED
  BY <1>3, <1>4 DEF f

LEMMA ErrorCall ==
  ASSUME NEW code \in Codes
  PROVE  CallShape(record_error(code)) /\ EffectsOf(record_error(code)) = ErrorEffects(code)
<1>1. Legal(Effect("failures", 1)) /\ Legal(Effect("bucket", code))
  BY EffectFields DEF Legal
<1>2. Effect("failures", 1).op = "failures" /\ Effect("bucket", code).op = "bucket"
  BY EffectFields
<1> QED
  BY <1>1, <1>2, PairCall DEF record_error, ErrorEffects

LEMMA BytesCall ==
  ASSUME NEW id \in Nat
  PROVE  CallShape(add_bytes(id)) /\ EffectsOf(add_bytes(id)) = ByteEffects(id)
<1>1. Legal(Effect("bytes", 1)) /\ Legal(Effect("row", id))
  BY EffectFields DEF Legal
<1>2. Effect("bytes", 1).op = "bytes" /\ Effect("row", id).op = "row"
  BY EffectFields
<1> QED
  BY <1>1, <1>2, PairCall DEF add_bytes, ByteEffects

LEMMA Triples ==
  ASSUME NEW x, NEW y, NEW z
  PROVE  <<x>> \o <<y, z>> = <<x, y, z>> /\ <<y, z>> \o <<x>> = <<y, z, x>>
<1> DEFINE T == {x, y, z}
           p == <<x>>
           q == <<y, z>>
           u == <<x, y, z>>
           v == <<y, z, x>>
<1>1. /\ p \in Seq(T) /\ Len(p) = 1 /\ p[1] = x
      /\ q \in Seq(T) /\ Len(q) = 2 /\ q[1] = y /\ q[2] = z
  OBVIOUS
<1>2. /\ u \in Seq(T) /\ Len(u) = 3 /\ u[1] = x /\ u[2] = y /\ u[3] = z
      /\ v \in Seq(T) /\ Len(v) = 3 /\ v[1] = y /\ v[2] = z /\ v[3] = x
  OBVIOUS
<1> HIDE DEF p, q, u, v, T
<1>3. p \o q = u
  <2>1. /\ p \o q \in Seq(T) /\ Len(p \o q) = 3
        /\ \A i \in 1 .. 3 : (p \o q)[i] = IF i <= 1 THEN p[i] ELSE q[i - 1]
    BY <1>1, ConcatProperties
  <2>2. \A i \in 1 .. 3 : (p \o q)[i] = u[i]
    BY <1>1, <1>2, <2>1
  <2> QED
    BY <1>2, <2>1, <2>2, SeqEqual
<1>4. q \o p = v
  <2>1. /\ q \o p \in Seq(T) /\ Len(q \o p) = 3
        /\ \A i \in 1 .. 3 : (q \o p)[i] = IF i <= 2 THEN q[i] ELSE p[i - 2]
    <3>1. /\ q \o p \in Seq(T) /\ Len(q \o p) = Len(q) + Len(p)
          /\ \A i \in 1 .. Len(q) + Len(p) :
               (q \o p)[i] = IF i <= Len(q) THEN q[i] ELSE p[i - Len(q)]
      BY <1>1, ConcatProperties, Zenon
    <3>2. Len(q) = 2 /\ Len(q) + Len(p) = 3
      BY <1>1
    <3> QED
      BY <3>1, <3>2
  <2>2. \A i \in 1 .. 3 : (q \o p)[i] = v[i]
    BY <1>1, <1>2, <2>1
  <2> QED
    BY <1>2, <2>1, <2>2, SeqEqual
<1> QED
  BY <1>3, <1>4 DEF p, q, u, v

\* Closing, with the success before or after it, and the drain's closing without one.
LEMMA ClosingCall ==
  ASSUME NEW id \in Nat
  PROVE  /\ CallShape(record_success \o unregister(id))
         /\ EffectsOf(record_success \o unregister(id)) = ClosingEffects(id)
         /\ CallShape(unregister(id) \o record_success)
         /\ EffectsOf(unregister(id) \o record_success) = ClosingEffects(id)
         /\ CallShape(unregister(id))
         /\ EffectsOf(unregister(id)) = DrainEffects(id)
<1> DEFINE s == Effect("successes", 1)
           m == Effect("active", -1)
           r == Effect("remove", id)
<1>1. /\ record_success \o unregister(id) = <<s, m, r>>
      /\ unregister(id) \o record_success = <<m, r, s>>
      /\ unregister(id) = <<m, r>>
  <2>1. \A x, y, z : <<x>> \o <<y, z>> = <<x, y, z>> /\ <<y, z>> \o <<x>> = <<y, z, x>>
    BY Triples
  <2> HIDE DEF s, m, r
  <2>2. record_success = <<s>> /\ unregister(id) = <<m, r>>
    BY DEF record_success, unregister, s, m, r
  <2> QED
    BY <2>1, <2>2
<1>2. /\ s.op = "successes" /\ s.arg = 1 /\ m.op = "active" /\ m.arg = -1
      /\ r.op = "remove" /\ r.arg = id
  BY EffectFields
<1>3. Legal(s) /\ Legal(m) /\ Legal(r)
  BY <1>2 DEF Legal
<1>4. s \notin BeforeInsert /\ m \notin BeforeInsert /\ r \notin BeforeInsert
  <2>1. \A b \in BeforeInsert : b.op \in {"take_id", "total", "active"} /\ (b.op = "active" => b.arg = 1)
    BY EffectFields DEF BeforeInsert
  <2> QED
    BY <1>2, <2>1
<1>5. s \notin BeforeRemove /\ r \notin BeforeRemove
  <2>1. \A b \in BeforeRemove : b.op = "active"
    BY EffectFields DEF BeforeRemove
  <2> QED
    BY <1>2, <2>1
<1>6. ClosingEffects(id) = {s, m, r} /\ DrainEffects(id) = {m, r}
  BY DEF ClosingEffects, DrainEffects
<1> HIDE DEF s, m, r
<1>7. CallShape(<<s, m, r>>) /\ EffectsOf(<<s, m, r>>) = {s, m, r}
  <2> DEFINE f == <<s, m, r>>
  <2>1. DOMAIN f = 1 .. 3 /\ f[1] = s /\ f[2] = m /\ f[3] = r
    OBVIOUS
  <2> HIDE DEF f
  <2>2. CallShape(f)
    BY <1>2, <1>3, <1>4, <1>5, <2>1 DEF CallShape
  <2>3. EffectsOf(f) = {s, m, r}
    BY <2>1 DEF EffectsOf
  <2> QED
    BY <2>2, <2>3 DEF f
<1>8. CallShape(<<m, r, s>>) /\ EffectsOf(<<m, r, s>>) = {s, m, r}
  <2> DEFINE f == <<m, r, s>>
  <2>1. DOMAIN f = 1 .. 3 /\ f[1] = m /\ f[2] = r /\ f[3] = s
    OBVIOUS
  <2> HIDE DEF f
  <2>2. CallShape(f)
    BY <1>2, <1>3, <1>4, <1>5, <2>1 DEF CallShape
  <2>3. EffectsOf(f) = {s, m, r}
    BY <2>1 DEF EffectsOf
  <2> QED
    BY <2>2, <2>3 DEF f
<1>9. CallShape(<<m, r>>) /\ EffectsOf(<<m, r>>) = {m, r}
  <2> DEFINE f == <<m, r>>
  <2>1. DOMAIN f = 1 .. 2 /\ f[1] = m /\ f[2] = r
    OBVIOUS
  <2> HIDE DEF f
  <2>2. CallShape(f)
    BY <1>2, <1>3, <1>4, <1>5, <2>1 DEF CallShape
  <2>3. EffectsOf(f) = {m, r}
    BY <2>1 DEF EffectsOf
  <2> QED
    BY <2>2, <2>3 DEF f
<1> QED
  BY <1>1, <1>6, <1>7, <1>8, <1>9

-----------------------------------------------------------------------------
(* Counting.                                                               *)

\* A set of actors in which only one may come or go.
LEMMA CountChange ==
  ASSUME NEW S, NEW T, NEW U, IsFiniteSet(U), S \subseteq U, T \subseteq U, NEW a \in U,
         \A b \in U : b # a => (b \in S <=> b \in T)
  PROVE  /\ Cardinality(S) \in Nat /\ Cardinality(T) \in Nat
         /\ Cardinality(T) = Cardinality(S) + One(a \in T) - One(a \in S)
<1>1. IsFiniteSet(S) /\ IsFiniteSet(T)
  BY FS_Subset
<1>2. Cardinality(S) \in Nat /\ Cardinality(T) \in Nat
  BY <1>1, FS_CardinalityType
<1>3. CASE a \in S /\ a \notin T
  <2>1. T = S \ {a}
    BY <1>3
  <2> QED
    BY <1>1, <1>2, <1>3, <2>1, FS_RemoveElement DEF One
<1>4. CASE a \notin S /\ a \in T
  <2>1. T = S \cup {a}
    BY <1>4
  <2> QED
    BY <1>1, <1>2, <1>4, <2>1, FS_AddElement DEF One
<1>5. CASE a \in S <=> a \in T
  <2>1. T = S
    BY <1>5
  <2> QED
    BY <1>2, <2>1 DEF One
<1> QED
  BY <1>2, <1>3, <1>4, <1>5

LEMMA ActorsFinite == IsFiniteSet(Actors)
BY MetricsAssumption, FS_AddElement DEF Actors

\* An actor is counted by what it owes.
LEMMA OwingDebts ==
  /\ \A op : Owing({op}) = {a \in Actors : Owes(Debts(a), op)}
  /\ \A op, arg : OwingArg(op, arg) = {a \in Actors : Effect(op, arg) \in Debts(a)}
  /\ Owing(Visible) = {a \in Actors : \E e \in Debts(a) : e.op \in Visible}
<1>1. \A op : Owing({op}) = {a \in Actors : Owes(Debts(a), op)}
  BY DEF Owing, Owes, Debts, EffectsOf
<1>2. \A op, arg : OwingArg(op, arg) = {a \in Actors : Effect(op, arg) \in Debts(a)}
  BY DEF OwingArg, Debts, EffectsOf
<1>3. Owing(Visible) = {a \in Actors : \E e \in Debts(a) : e.op \in Visible}
  BY DEF Owing, Debts, EffectsOf
<1> QED
  BY <1>1, <1>2, <1>3

\* What one actor's debts make of the counts.
LEMMA OwingChange ==
  ASSUME NEW a \in Actors, \A b \in Actors : b # a => Debts(b)' = Debts(b)
  PROVE  /\ \A op : /\ Pending(op) \in Nat /\ Pending(op)' \in Nat
                    /\ Pending(op)' = Pending(op) + One(Owes(Debts(a)', op)) - One(Owes(Debts(a), op))
         /\ \A op, arg :
              LET S == OwingArg(op, arg)
                  e == Effect(op, arg)
              IN  /\ Cardinality(S) \in Nat /\ Cardinality(S') \in Nat
                  /\ Cardinality(S') = Cardinality(S) + One(e \in Debts(a)') - One(e \in Debts(a))
<1>1. ASSUME NEW op
      PROVE  /\ Pending(op) \in Nat /\ Pending(op)' \in Nat
             /\ Pending(op)' = Pending(op) + One(Owes(Debts(a)', op)) - One(Owes(Debts(a), op))
  <2> DEFINE S == {b \in Actors : Owes(Debts(b), op)}
             T == {b \in Actors : Owes(Debts(b)', op)}
  <2>1. Owing({op}) = S
    BY OwingDebts
  <2>2. Owing({op})' = T
    BY DEF Owing, Owes, Debts, EffectsOf
  <2>3. \A b \in Actors : b # a => (b \in S <=> b \in T)
    OBVIOUS
  <2>4. S \subseteq Actors /\ T \subseteq Actors /\ (a \in S <=> Owes(Debts(a), op)) /\ (a \in T <=> Owes(Debts(a)', op))
    OBVIOUS
  <2>5. Pending(op) = Cardinality(S) /\ Pending(op)' = Cardinality(T)
    BY <2>1, <2>2 DEF Pending
  <2> HIDE DEF S, T
  <2>6. /\ Cardinality(S) \in Nat /\ Cardinality(T) \in Nat
        /\ Cardinality(T) = Cardinality(S) + One(a \in T) - One(a \in S)
    BY <2>3, <2>4, CountChange, ActorsFinite
  <2> QED
    BY <2>4, <2>5, <2>6 DEF One
<1>2. ASSUME NEW op, NEW arg
      PROVE  LET S == OwingArg(op, arg)
                 e == Effect(op, arg)
             IN  /\ Cardinality(S) \in Nat /\ Cardinality(S') \in Nat
                 /\ Cardinality(S') = Cardinality(S) + One(e \in Debts(a)') - One(e \in Debts(a))
  <2> DEFINE e == Effect(op, arg)
             S == {b \in Actors : e \in Debts(b)}
             T == {b \in Actors : e \in Debts(b)'}
  <2>1. OwingArg(op, arg) = S
    BY OwingDebts
  <2>2. OwingArg(op, arg)' = T
    BY DEF OwingArg, Debts, EffectsOf
  <2>3. \A b \in Actors : b # a => (b \in S <=> b \in T)
    OBVIOUS
  <2>4. S \subseteq Actors /\ T \subseteq Actors /\ (a \in S <=> e \in Debts(a)) /\ (a \in T <=> e \in Debts(a)')
    OBVIOUS
  <2> HIDE DEF S, T
  <2>6. /\ Cardinality(S) \in Nat /\ Cardinality(T) \in Nat
        /\ Cardinality(T) = Cardinality(S) + One(a \in T) - One(a \in S)
    BY <2>3, <2>4, CountChange, ActorsFinite
  <2> QED
    BY <2>1, <2>2, <2>4, <2>6 DEF One
<1> QED
  BY <1>1, <1>2

-----------------------------------------------------------------------------
(* Sums, counted in units.                                                 *)

LEMMA UnitsMembers ==
  ASSUME NEW f, NEW x, NEW n
  PROVE  <<x, n>> \in Units(f) <=> x \in DOMAIN f /\ n \in 1 .. f[x]
BY DEF Units

LEMMA UnitsArePairs ==
  ASSUME NEW f, NEW u \in Units(f)
  PROVE  \E x \in DOMAIN f : \E n \in 1 .. f[x] : u = <<x, n>>
BY DEF Units

\* One more of one thing is one more in the sum.
LEMMA SumBump ==
  ASSUME NEW f, NEW g, NEW x \in DOMAIN f, DOMAIN g = DOMAIN f, f[x] \in Nat, g[x] = f[x] + 1,
         \A y \in DOMAIN f : y # x => g[y] = f[y], IsFiniteSet(Units(f))
  PROVE  IsFiniteSet(Units(g)) /\ Total(g) = Total(f) + 1 /\ Total(f) \in Nat
<1> DEFINE u == <<x, f[x] + 1>>
<1>1. 1 .. g[x] = (1 .. f[x]) \cup {f[x] + 1} /\ f[x] + 1 \notin 1 .. f[x]
  OBVIOUS
<1>2. u \notin Units(f) /\ u \in Units(g)
  BY <1>1, UnitsMembers
<1>3. Units(g) = Units(f) \cup {u}
  <2>1. ASSUME NEW v \in Units(g) PROVE v \in Units(f) \cup {u}
    <3>1. PICK y \in DOMAIN g : \E n \in 1 .. g[y] : v = <<y, n>>
      BY UnitsArePairs
    <3>2. PICK n \in 1 .. g[y] : v = <<y, n>>
      BY <3>1
    <3> QED
      BY <1>1, <3>2, UnitsMembers
  <2>2. ASSUME NEW v \in Units(f) PROVE v \in Units(g)
    <3>1. PICK y \in DOMAIN f : \E n \in 1 .. f[y] : v = <<y, n>>
      BY UnitsArePairs
    <3>2. PICK n \in 1 .. f[y] : v = <<y, n>>
      BY <3>1
    <3> QED
      BY <1>1, <3>2, UnitsMembers
  <2> QED
    BY <1>2, <2>1, <2>2
<1> HIDE DEF u
<1> QED
  BY <1>2, <1>3, FS_AddElement, FS_CardinalityType DEF Total

\* A row of no bytes adds nothing.
LEMMA SumInsert ==
  ASSUME NEW f, NEW x, x \notin DOMAIN f
  PROVE  Units(With(f, x, 0)) = Units(f)
<1> DEFINE g == With(f, x, 0)
<1>1. DOMAIN g = DOMAIN f \cup {x} /\ g[x] = 0 /\ \A y \in DOMAIN f : g[y] = f[y]
  BY DEF With
<1> HIDE DEF g
<1>2. ASSUME NEW v \in Units(g) PROVE v \in Units(f)
  <2>1. PICK y \in DOMAIN g : \E n \in 1 .. g[y] : v = <<y, n>>
    BY UnitsArePairs
  <2>2. PICK n \in 1 .. g[y] : v = <<y, n>>
    BY <2>1
  <2>3. y # x
    BY <1>1, <2>2
  <2> QED
    BY <1>1, <2>2, <2>3, UnitsMembers
<1>3. ASSUME NEW v \in Units(f) PROVE v \in Units(g)
  <2>1. PICK y \in DOMAIN f : \E n \in 1 .. f[y] : v = <<y, n>>
    BY UnitsArePairs
  <2>2. PICK n \in 1 .. f[y] : v = <<y, n>>
    BY <2>1
  <2> QED
    BY <1>1, <2>2, UnitsMembers
<1> QED
  BY <1>2, <1>3 DEF g

\* A row that is removed takes its bytes out of the sum.
LEMMA SumRemove ==
  ASSUME NEW f, NEW x, IsFiniteSet(Units(f))
  PROVE  /\ IsFiniteSet(Units(Without(f, x)))
         /\ Total(f) \in Nat /\ Total(Without(f, x)) \in Nat /\ Total(Without(f, x)) <= Total(f)
<1> DEFINE g == Without(f, x)
<1>1. DOMAIN g = DOMAIN f \ {x} /\ \A y \in DOMAIN g : g[y] = f[y]
  BY DEF Without
<1> HIDE DEF g
<1>2. ASSUME NEW v \in Units(g) PROVE v \in Units(f)
  <2>1. PICK y \in DOMAIN g : \E n \in 1 .. g[y] : v = <<y, n>>
    BY UnitsArePairs
  <2>2. PICK n \in 1 .. g[y] : v = <<y, n>>
    BY <2>1
  <2> QED
    BY <1>1, <2>2, UnitsMembers
<1>3. Units(g) \subseteq Units(f)
  BY <1>2
<1>4. IsFiniteSet(Units(g)) /\ Cardinality(Units(g)) <= Cardinality(Units(f))
  BY <1>3, FS_Subset
<1> QED
  BY <1>4, FS_CardinalityType DEF Total, g

-----------------------------------------------------------------------------
(* The inductive invariant.                                                *)

\* Ids are handed out once, and a register has one when it comes to insert its row; what
\* an unregister is about to remove is there, and is no longer its actor's.
IdsInv ==
  /\ DOMAIN registry \subseteq 1 .. atomics["next_id"] - 1
  /\ \A a \in Actors : new[a] < atomics["next_id"]
  /\ \A a \in Actors : Owes(Debts(a), "insert") /\ ~ Owes(Debts(a), "take_id") => new[a] # 0
  /\ \A a \in Actors : owned[a] \intersect Leaving(a) = {}
  /\ \A a \in Actors : \A e \in Debts(a) : e.op = "remove" => e.arg \in DOMAIN registry

\* How many connections an actor may hold; a register in progress counts.
Limit(a) == IF a = Mock THEN MAX_ACTIVE ELSE 1

LimitInv == \A a \in Actors : Cardinality(owned[a]) + One(Owes(Debts(a), "insert")) <= Limit(a)

SumsInv == IsFiniteSet(Units(registry)) /\ IsFiniteSet(Units(buckets))

\* The calls in progress that will raise, or lower, a part of the sample.
Plus(c) == OwingArg(c, 1)
Minus(c) == OwingArg(c, -1)
Raising(part) == IF part = "rows" THEN Owing({"insert"}) ELSE Plus(part)
Lowering(part) == IF part = "rows" THEN Owing({"remove"}) ELSE Minus(part)

\* The most and the least that a part may be in the sample, if no more calls begin.
High(part) == IF part \in DOMAIN seen THEN seen[part] ELSE Value(part) + Cardinality(Raising(part))
Low(part) == IF part \in DOMAIN seen THEN seen[part] ELSE Value(part) - Cardinality(Lowering(part))

\* SkewIsBounded, whatever the calls in progress do next.
SkewInv ==
  Reading =>
    /\ High("active") - Low("rows") <= overlap
    /\ Low("active") - High("rows") >= -overlap
    /\ High("total") - Low("successes") - Low("active") <= overlap + drained
    /\ Low("total") - High("successes") - High("active") >= -overlap

SeenInv == \A part \in DOMAIN seen : seen[part] \in Int

IInv ==
  /\ Calls /\ TypeOK /\ BooksBalance /\ IdsAreUnique
  /\ IdsInv /\ LimitInv /\ SumsInv /\ SeenInv /\ SkewInv

-----------------------------------------------------------------------------
(* Steps, as the proofs see them.                                          *)

\* a's debts change, and nobody else's.
Owed(a, D) ==
  /\ Calls'
  /\ Debts(a)' = D
  /\ \A b \in Actors : b # a => Debts(b)' = Debts(b)

Doing(a, e) ==
  /\ e \in Debts(a) /\ Apply(a, e) /\ Owed(a, Debts(a) \ {e})
  /\ UNCHANGED <<drained, sampleVars>>

Starting(a, E) ==
  /\ Debts(a) = {} /\ Owed(a, E)
  /\ overlap' = overlap + One(Reading /\ \E e \in E : e.op \in Visible)
  /\ UNCHANGED <<atomics, buckets, registry, new, seen>>

Opening(a) ==
  /\ Starting(a, OpeningEffects)
  /\ Cardinality(owned[a]) < Limit(a)
  /\ UNCHANGED <<owned, drained>>

Erring(a, code) == Starting(a, ErrorEffects(code)) /\ UNCHANGED <<owned, drained>>

Moving(a, id) == Starting(a, ByteEffects(id)) /\ UNCHANGED <<owned, drained>>

Closing(a, id) ==
  /\ Starting(a, ClosingEffects(id))
  /\ owned' = [owned EXCEPT ![a] = @ \ {id}]
  /\ UNCHANGED drained

Draining(a, id) ==
  /\ Starting(a, DrainEffects(id))
  /\ owned' = [owned EXCEPT ![a] = @ \ {id}]
  /\ drained' = drained + 1

Resting == UNCHANGED <<atomics, buckets, registry, todo, new, owned, drained, sampleVars>>

Step ==
  \/ \E a \in Actors : \E e \in Debts(a) : Doing(a, e)
  \/ \E a \in Actors : Opening(a)
  \/ \E a \in Actors, code \in Codes : Erring(a, code)
  \/ \E a \in Actors : \E id \in owned[a] : Moving(a, id) \/ Closing(a, id) \/ Draining(a, id)
  \/ Resting
  \/ Load

LEMMA TodoChange ==
  ASSUME Calls, NEW a \in Actors, NEW g, CallShape(g), todo' = [todo EXCEPT ![a] = g]
  PROVE  Owed(a, EffectsOf(g))
<1>1. todo'[a] = g /\ DOMAIN todo' = Actors /\ \A b \in Actors : b # a => todo'[b] = todo[b]
  BY DEF Calls
<1>2. Calls'
  BY <1>1 DEF Calls
<1> QED
  BY <1>1, <1>2 DEF Owed, Debts

LEMMA BeginStarts ==
  ASSUME Calls, NEW a \in Actors, NEW g, CallShape(g), Begin(a, g)
  PROVE  Starting(a, EffectsOf(g))
<1>1. Owed(a, EffectsOf(g))
  BY TodoChange DEF Begin
<1>2. Debts(a) = {}
  BY DEF Begin, Idle, Debts, EffectsOf
<1>3. (\E k \in DOMAIN g : g[k].op \in Visible) <=> \E e \in EffectsOf(g) : e.op \in Visible
  BY DEF EffectsOf
<1>4. overlap' = overlap + One(Reading /\ \E e \in EffectsOf(g) : e.op \in Visible)
  BY <1>3 DEF Begin, One
<1> QED
  BY <1>1, <1>2, <1>4 DEF Begin, Starting

LEMMA DoIsDoing ==
  ASSUME Calls, NEW a \in Actors, Do(a)
  PROVE  \E e \in Debts(a) : Doing(a, e)
<1>1. PICK k \in Ready(a) : Apply(a, todo[a][k]) /\ todo' = [todo EXCEPT ![a] = Without(@, k)]
  BY DEF Do
<1> DEFINE g == Without(todo[a], k)
<1>2. /\ todo[a][k] \in Debts(a) /\ CallShape(g) /\ EffectsOf(g) = Debts(a) \ {todo[a][k]}
  BY ShapeAfterEffect
<1>3. todo' = [todo EXCEPT ![a] = g]
  BY <1>1
<1> HIDE DEF g
<1>4. Owed(a, EffectsOf(g))
  BY <1>2, <1>3, TodoChange
<1> QED
  BY <1>1, <1>2, <1>4 DEF Do, Doing

LEMMA LimitType ==
  ASSUME NEW a \in Actors
  PROVE  Limit(a) \in Nat \ {0} /\ (a # Mock => Limit(a) = 1)
BY MetricsAssumption DEF Limit

\* The ids an actor owns are numbers, finitely many.
LEMMA OwnedType ==
  ASSUME TypeOK, NEW a \in Actors
  PROVE  owned[a] \subseteq Nat /\ IsFiniteSet(owned[a]) /\ Cardinality(owned[a]) \in Nat
<1>1. atomics["next_id"] \in Nat
  BY DEF TypeOK, Counters
<1>2. owned[a] \subseteq 1 .. atomics["next_id"] - 1
  BY DEF TypeOK
<1>3. IsFiniteSet(1 .. atomics["next_id"] - 1)
  BY <1>1, FS_Interval
<1> QED
  BY <1>1, <1>2, <1>3, FS_Subset, FS_CardinalityType

\* Every action is one of these steps.
LEMMA NextIsStep ==
  ASSUME IInv, [Next]_vars
  PROVE  Step
<1> USE DEF IInv
<1>1. ASSUME NEW a \in Actors, Do(a) PROVE Step
  BY <1>1, DoIsDoing DEF Step
<1>2. ASSUME NEW a \in Actors, Cardinality(owned[a]) < Limit(a), Begin(a, register), UNCHANGED <<owned, drained>>
      PROVE  Step
  <2>1. Starting(a, OpeningEffects)
    BY <1>2, RegisterCall, BeginStarts
  <2> QED
    BY <1>2, <2>1 DEF Step, Opening
<1>3. ASSUME NEW a \in Actors, NEW code \in Codes, Begin(a, record_error(code)), UNCHANGED <<owned, drained>>
      PROVE  Step
  <2>1. Starting(a, ErrorEffects(code))
    <3>1. CallShape(record_error(code)) /\ EffectsOf(record_error(code)) = ErrorEffects(code)
      BY ErrorCall
    <3> QED
      BY <1>3, <3>1, BeginStarts
  <2> QED
    BY <1>3, <2>1 DEF Step, Erring
<1>4. ASSUME NEW a \in Actors, NEW id \in owned[a], Begin(a, add_bytes(id)), UNCHANGED <<owned, drained>>
      PROVE  Step
  <2>1. CallShape(add_bytes(id)) /\ EffectsOf(add_bytes(id)) = ByteEffects(id)
    BY OwnedType, BytesCall
  <2>2. Starting(a, ByteEffects(id))
    BY <1>4, <2>1, BeginStarts
  <2> QED
    BY <1>4, <2>2 DEF Step, Moving
<1>5. ASSUME NEW a \in Actors, NEW id \in owned[a], owned' = [owned EXCEPT ![a] = @ \ {id}], UNCHANGED drained,
             Begin(a, record_success \o unregister(id)) \/ Begin(a, unregister(id) \o record_success)
      PROVE  Step
  <2>1. id \in Nat
    BY OwnedType
  <2>2. /\ CallShape(record_success \o unregister(id))
        /\ EffectsOf(record_success \o unregister(id)) = ClosingEffects(id)
        /\ CallShape(unregister(id) \o record_success)
        /\ EffectsOf(unregister(id) \o record_success) = ClosingEffects(id)
    BY <2>1, ClosingCall
  <2>3. Starting(a, ClosingEffects(id))
    <3>1. CASE Begin(a, record_success \o unregister(id))
      BY <2>2, <3>1, BeginStarts
    <3>2. CASE Begin(a, unregister(id) \o record_success)
      BY <2>2, <3>2, BeginStarts
    <3> QED
      BY <1>5, <3>1, <3>2
  <2> QED
    BY <1>5, <2>3 DEF Step, Closing
<1>6. ASSUME NEW a \in Actors, NEW id \in owned[a], owned' = [owned EXCEPT ![a] = @ \ {id}],
             drained' = drained + 1, Begin(a, unregister(id))
      PROVE  Step
  <2>1. CallShape(unregister(id)) /\ EffectsOf(unregister(id)) = DrainEffects(id)
    BY OwnedType, ClosingCall
  <2>2. Starting(a, DrainEffects(id))
    BY <1>6, <2>1, BeginStarts
  <2> QED
    BY <1>6, <2>2 DEF Step, Draining
<1>7. ASSUME Skip, UNCHANGED drained PROVE Step
  BY <1>7 DEF Step, Skip, Resting, sampleVars
<1>8. Mock \in Actors /\ \A t \in Tasks : t \in Actors
  BY DEF Actors
<1>9. ASSUME NEW t \in Tasks, Open(t) \/ Fail(t) \/ Relay(t) \/ Teardown(t) PROVE Step
  <2>1. CASE Open(t)
    <3>1. Cardinality(owned[t]) < Limit(t)
      <4>1. Cardinality(owned[t]) = 0
        BY <2>1, FS_EmptySet DEF Open
      <4> QED
        BY <1>8, <4>1, LimitType
    <3> QED
      BY <1>2, <1>8, <2>1, <3>1 DEF Open
  <2>2. CASE Fail(t)
    BY <1>3, <1>8, <2>2 DEF Fail
  <2>3. CASE Relay(t)
    BY <1>4, <1>8, <2>3 DEF Relay
  <2>4. CASE Teardown(t)
    BY <1>5, <1>8, <2>4 DEF Teardown
  <2> QED
    BY <1>9, <2>1, <2>2, <2>3, <2>4
<1>10. CASE MockOpen
  <2>1. Limit(Mock) = MAX_ACTIVE
    BY DEF Limit
  <2> QED
    BY <1>2, <1>7, <1>8, <1>10, <2>1 DEF MockOpen
<1>11. CASE MockBytes
  BY <1>4, <1>8, <1>11 DEF MockBytes
<1>12. CASE MockBytesDone
  BY <1>7, <1>12 DEF MockBytesDone
<1>13. CASE MockClose
  BY <1>5, <1>7, <1>8, <1>13 DEF MockClose
<1>14. CASE MockError
  BY <1>3, <1>7, <1>8, <1>14 DEF MockError
<1>15. CASE MockDrain
  BY <1>6, <1>8, <1>15 DEF MockDrain
<1>16. CASE MockGone
  BY <1>7, <1>16 DEF MockGone
<1>17. CASE Load
  BY <1>17 DEF Step
<1>18. CASE UNCHANGED vars
  BY <1>18 DEF Step, Resting, vars, callVars, sampleVars
<1> QED
  BY <1>1, <1>9, <1>10, <1>11, <1>12, <1>13, <1>14, <1>15, <1>16, <1>17, <1>18 DEF Next

LEMMA PhaseStep ==
  ASSUME TypeOK, [Next]_vars
  PROVE  phase' \in {"open", "bytes", "close", "error", "drain", "gone"}
BY DEF TypeOK, Next, vars, callVars, Do, Open, Fail, Relay, Teardown, MockOpen, MockBytes,
       MockBytesDone, MockClose, MockError, MockDrain, MockGone, Load

\* Calls keep their shape.
LEMMA StepCalls ==
  ASSUME Calls, Step
  PROVE  Calls'
BY DEF Step, Doing, Opening, Erring, Moving, Closing, Draining, Starting, Owed, Resting, Load, Calls

-----------------------------------------------------------------------------
(* One effect and the books.                                               *)

LEMMA DebtsShape ==
  ASSUME Calls, NEW a \in Actors
  PROVE  DebtShape(Debts(a))
BY ShapeOfDebts DEF Calls, Debts

\* The counters a call may owe something to.
Owable == {"total", "active", "successes", "failures", "bytes"}

LEMMA LegalParts ==
  ASSUME NEW e, Legal(e)
  PROVE  /\ e.op \in Counters => e.op \in Owable /\ e.arg \in {1, -1}
         /\ e.op \in Owable => e.op \in Counters
         /\ e.op \in {"remove", "row"} => e.arg \in Nat
         /\ e.op = "bucket" => e.arg \in 0 .. 8
         /\ e = Effect(e.op, e.arg)
<1>1. Codes \subseteq 0 .. 8
  BY MetricsAssumption
<1> QED
  BY <1>1 DEF Legal, Counters, Owable

LEMMA ApplyAtomics ==
  ASSUME TypeOK, NEW a \in Actors, NEW e, Legal(e), Apply(a, e)
  PROVE  /\ DOMAIN atomics' = Counters /\ atomics' = [c \in Counters |-> atomics'[c]]
         /\ \A c \in Owable : atomics'[c] = atomics[c] + IF e.op = c THEN e.arg ELSE 0
         /\ atomics'["next_id"] = atomics["next_id"] + One(e.op = "take_id")
<1>0. atomics \in [Counters -> Nat] /\ Owable \subseteq Counters /\ "next_id" \in Counters /\ "next_id" \notin Owable
  BY DEF TypeOK, Owable, Counters
<1>1. \A c \in Counters : atomics[c] \in Nat
  BY <1>0
<1>2. CASE e.op = "take_id"
  <2>1. atomics' = [atomics EXCEPT !["next_id"] = @ + 1]
    BY <1>2 DEF Apply, TakeId, Insert, Counters
  <2>2. e.op \notin Owable
    BY <1>2 DEF Owable
  <2> QED
    <3>1. DOMAIN atomics' = Counters /\ atomics' = [c \in Counters |-> atomics'[c]]
      BY <1>0, <2>1
    <3>2. \A c \in Owable : atomics'[c] = atomics[c]
      BY <1>0, <2>1
    <3>3. atomics'["next_id"] = atomics["next_id"] + 1
      BY <1>0, <2>1
    <3>4. \A c \in Owable : atomics[c] \in Nat /\ e.op # c
      BY <1>0, <1>1, <2>2
    <3> QED
      BY <1>2, <3>1, <3>2, <3>3, <3>4 DEF One
<1>3. CASE e.op \in Counters
  <2>1. atomics' = [atomics EXCEPT ![e.op] = @ + e.arg]
    BY <1>3 DEF Apply, Counters
  <2>2. e.op \in Owable /\ e.op # "take_id" /\ e.op # "next_id" /\ e.arg \in {1, -1}
    BY <1>3, LegalParts DEF Owable
  <2> QED
    <3>1. DOMAIN atomics' = Counters /\ atomics' = [c \in Counters |-> atomics'[c]]
      BY <1>0, <2>1
    <3>2. \A c \in Owable : atomics'[c] = IF e.op = c THEN atomics[c] + e.arg ELSE atomics[c]
      BY <1>0, <2>1
    <3>3. atomics'["next_id"] = atomics["next_id"] /\ atomics["next_id"] \in Nat
      BY <1>0, <2>1, <2>2
    <3>4. \A c \in Owable : atomics[c] \in Nat
      BY <1>0, <1>1
    <3> QED
      BY <2>2, <3>1, <3>2, <3>3, <3>4 DEF One
<1>4. CASE e.op # "take_id" /\ e.op \notin Counters
  <2>1. atomics' = atomics
    BY <1>4 DEF Apply, Insert
  <2> QED
    BY <1>0, <1>1, <1>4, <2>1 DEF One
<1> QED
  BY <1>2, <1>3, <1>4

\* What a counter will be does not change when one of its effects is done.
LEMMA DoingSettles ==
  ASSUME Calls, TypeOK, NEW a \in Actors, NEW e \in Debts(a), Doing(a, e), NEW c \in Owable
  PROVE  Settled(c)' = Settled(c) /\ Settled(c) \in Int
<1>1. DebtShape(Debts(a)) /\ Legal(e)
  BY DebtsShape DEF DebtShape
<1>2. atomics'[c] = atomics[c] + IF e.op = c THEN e.arg ELSE 0
  BY <1>1, ApplyAtomics DEF Doing
<1>3. atomics[c] \in Nat
  BY DEF TypeOK, Owable, Counters
<1> DEFINE P == Plus(c)
           M == Minus(c)
<1>4. /\ Cardinality(P) \in Nat /\ Cardinality(P') \in Nat /\ Cardinality(M) \in Nat /\ Cardinality(M') \in Nat
      /\ Cardinality(P') = Cardinality(P) + One(Effect(c, 1) \in Debts(a) \ {e}) - One(Effect(c, 1) \in Debts(a))
      /\ Cardinality(M') = Cardinality(M) + One(Effect(c, -1) \in Debts(a) \ {e}) - One(Effect(c, -1) \in Debts(a))
  BY OwingChange DEF Doing, Owed, Plus, Minus
<1>5. Settled(c) = atomics[c] + Cardinality(P) - Cardinality(M) /\ Settled(c)' = atomics'[c] + Cardinality(P') - Cardinality(M')
  BY DEF Settled, Plus, Minus
<1> HIDE DEF P, M
<1>6. Effect(c, 1).arg = 1 /\ Effect(c, -1).arg = -1 /\ Effect(c, 1).op = c /\ Effect(c, -1).op = c
  BY EffectFields
<1>7. CASE e.op = c
  <2>1. e.arg \in {1, -1} /\ e = Effect(c, e.arg)
    BY <1>1, <1>7, LegalParts
  <2>2. CASE e.arg = 1
    <3>1. e = Effect(c, 1) /\ e # Effect(c, -1)
      BY <1>6, <2>1, <2>2
    <3> QED
      BY <1>2, <1>3, <1>4, <1>5, <1>7, <2>2, <3>1 DEF One
  <2>3. CASE e.arg = -1
    <3>1. e = Effect(c, -1) /\ e # Effect(c, 1)
      BY <1>6, <2>1, <2>3
    <3> QED
      BY <1>2, <1>3, <1>4, <1>5, <1>7, <2>3, <3>1 DEF One
  <2> QED
    BY <2>1, <2>2, <2>3
<1>8. CASE e.op # c
  <2>1. e # Effect(c, 1) /\ e # Effect(c, -1)
    BY <1>6, <1>8
  <2> QED
    BY <1>2, <1>3, <1>4, <1>5, <1>8, <2>1 DEF One
<1> QED
  BY <1>7, <1>8

\* What is done is no longer pending.
LEMMA DoingPending ==
  ASSUME Calls, NEW a \in Actors, NEW e \in Debts(a), Doing(a, e), NEW op
  PROVE  Pending(op) \in Nat /\ Pending(op)' \in Nat /\ Pending(op)' = Pending(op) - One(e.op = op)
<1>1. DebtShape(Debts(a))
  BY DebtsShape
<1>2. /\ Pending(op) \in Nat /\ Pending(op)' \in Nat
      /\ Pending(op)' = Pending(op) + One(Owes(Debts(a) \ {e}, op)) - One(Owes(Debts(a), op))
  BY OwingChange DEF Doing, Owed
<1>3. Owes(Debts(a) \ {e}, op) <=> Owes(Debts(a), op) /\ e.op # op
  BY <1>1 DEF DebtShape, Owes
<1>4. e.op = op => Owes(Debts(a), op)
  BY DEF Owes
<1> QED
  BY <1>2, <1>3, <1>4 DEF One

\* The rows come and go with the locks.
LEMMA RegistryRows ==
  ASSUME IInv
  PROVE  IsFiniteSet(DOMAIN registry) /\ Cardinality(DOMAIN registry) \in Nat
<1>1. atomics["next_id"] \in Nat
  BY DEF IInv, TypeOK, Counters
<1>2. IsFiniteSet(1 .. atomics["next_id"] - 1)
  BY <1>1, FS_Interval
<1> QED
  BY <1>2, FS_Subset, FS_CardinalityType DEF IInv, IdsInv

LEMMA DoingRegistry ==
  ASSUME IInv, NEW a \in Actors, NEW e \in Debts(a), Doing(a, e)
  PROVE  /\ e.op = "insert" => registry' = With(registry, new[a], 0)
         /\ e.op = "remove" => registry' = Without(registry, e.arg)
         /\ e.op = "row" => registry' = [i \in DOMAIN registry |-> registry[i] + IF i = e.arg THEN 1 ELSE 0]
         /\ e.op \notin Locks => registry' = registry
         /\ e.op = "bucket" => buckets' = [buckets EXCEPT ![e.arg] = @ + 1]
         /\ e.op # "bucket" => buckets' = buckets
BY DEF Doing, Apply, Insert, TakeId, Counters, Locks

LEMMA DoingRows ==
  ASSUME IInv, NEW a \in Actors, NEW e \in Debts(a), Doing(a, e)
  PROVE  Cardinality(DOMAIN registry') = Cardinality(DOMAIN registry) + One(e.op = "insert") - One(e.op = "remove")
<1>1. IsFiniteSet(DOMAIN registry) /\ Cardinality(DOMAIN registry) \in Nat
  BY RegistryRows
<1>2. CASE e.op = "insert"
  <2>1. DOMAIN registry' = DOMAIN registry \cup {new[a]}
    BY <1>2, DoingRegistry DEF With
  <2>2. new[a] \notin DOMAIN registry
    BY DEF IInv, IdsAreUnique
  <2> QED
    BY <1>1, <1>2, <2>1, <2>2, FS_AddElement DEF One
<1>3. CASE e.op = "remove"
  <2>1. DOMAIN registry' = DOMAIN registry \ {e.arg}
    BY <1>3, DoingRegistry DEF Without
  <2>2. e.arg \in DOMAIN registry
    BY <1>3 DEF IInv, IdsInv
  <2> QED
    <3>1. Cardinality(DOMAIN registry') = Cardinality(DOMAIN registry) - 1
      BY <1>1, <2>1, <2>2, FS_RemoveElement
    <3> QED
      BY <1>1, <1>3, <3>1 DEF One
<1>4. CASE e.op \notin {"insert", "remove"}
  <2>1. DOMAIN registry' = DOMAIN registry
    BY <1>4, DoingRegistry DEF Locks
  <2> QED
    BY <1>1, <1>4, <2>1 DEF One
<1> QED
  BY <1>2, <1>3, <1>4

\* A sum moves with the effect on it.
LEMMA DoingSums ==
  ASSUME IInv, NEW a \in Actors, NEW e \in Debts(a), Doing(a, e)
  PROVE  /\ SumsInv'
         /\ Total(buckets) \in Nat /\ Total(buckets)' = Total(buckets) + One(e.op = "bucket")
         /\ Total(registry) \in Nat /\ Total(registry)' \in Nat
         /\ Total(registry)' <= Total(registry) + One(e.op = "row")
<1> DEFINE bf == IsFiniteSet(Units(buckets'))
           rf == IsFiniteSet(Units(registry'))
<1>1. /\ IsFiniteSet(Units(registry)) /\ IsFiniteSet(Units(buckets))
      /\ Total(registry) \in Nat /\ Total(buckets) \in Nat
  BY FS_CardinalityType DEF IInv, SumsInv, Total
<1>2. Legal(e)
  BY DebtsShape DEF IInv, DebtShape
<1>3. bf /\ Total(buckets') = Total(buckets) + One(e.op = "bucket")
  <2>1. CASE e.op = "bucket"
    <3>1. e.arg \in 0 .. 8 /\ buckets \in [0 .. 8 -> Nat] /\ buckets' = [buckets EXCEPT ![e.arg] = @ + 1]
      BY <1>2, <2>1, LegalParts, DoingRegistry DEF IInv, TypeOK
    <3>2. /\ e.arg \in DOMAIN buckets /\ DOMAIN buckets' = DOMAIN buckets /\ buckets[e.arg] \in Nat
          /\ buckets'[e.arg] = buckets[e.arg] + 1
          /\ \A y \in DOMAIN buckets : y # e.arg => buckets'[y] = buckets[y]
      BY <3>1
    <3> QED
      BY <1>1, <2>1, <3>2, SumBump DEF One
  <2>2. CASE e.op # "bucket"
    BY <1>1, <2>2, DoingRegistry DEF One
  <2> QED
    BY <2>1, <2>2
<1>4. rf /\ Total(registry') \in Nat /\ Total(registry') <= Total(registry) + One(e.op = "row")
  <2>1. CASE e.op = "insert"
    <3>1. new[a] \notin DOMAIN registry
      BY DEF IInv, IdsAreUnique
    <3>2. Units(registry') = Units(registry)
      BY <2>1, <3>1, DoingRegistry, SumInsert
    <3> QED
      BY <1>1, <2>1, <3>2 DEF One, Total
  <2>2. CASE e.op = "remove"
    BY <1>1, <2>2, DoingRegistry, SumRemove DEF One
  <2>3. CASE e.op = "row"
    <3>1. /\ DOMAIN registry' = DOMAIN registry
          /\ \A i \in DOMAIN registry : registry[i] \in Nat /\ registry'[i] = registry[i] + IF i = e.arg THEN 1 ELSE 0
      BY <2>3, DoingRegistry DEF IInv, TypeOK
    <3>2. CASE e.arg \in DOMAIN registry
      BY <1>1, <2>3, <3>1, <3>2, SumBump DEF One
    <3>3. CASE e.arg \notin DOMAIN registry
      <4>1. registry' = [i \in DOMAIN registry |-> registry[i]]
        BY <2>3, <3>1, <3>3, DoingRegistry
      <4>2. registry' = registry
        BY <4>1 DEF IInv, TypeOK
      <4> QED
        BY <1>1, <2>3, <4>2 DEF One
    <3> QED
      BY <3>2, <3>3
  <2>4. CASE e.op \notin Locks
    BY <1>1, <2>4, DoingRegistry DEF One, Locks
  <2> QED
    BY <2>1, <2>2, <2>3, <2>4 DEF Locks
<1> QED
  BY <1>1, <1>3, <1>4 DEF SumsInv, Total

LEMMA DoingBooks ==
  ASSUME IInv, NEW a \in Actors, NEW e \in Debts(a), Doing(a, e)
  PROVE  BooksBalance'
<1> DEFINE settled(c) == Settled(c)
<1>1. \A c \in Owable : Settled(c)' = Settled(c) /\ Settled(c) \in Int
  BY DoingSettles DEF IInv
<1>2. \A op : Pending(op) \in Nat /\ Pending(op)' \in Nat /\ Pending(op)' = Pending(op) - One(e.op = op)
  BY DoingPending DEF IInv
<1>3. /\ Settled("total")' = Settled("total") /\ Settled("active")' = Settled("active")
      /\ Settled("successes")' = Settled("successes") /\ Settled("failures")' = Settled("failures")
      /\ Settled("bytes")' = Settled("bytes")
      /\ {Settled("total"), Settled("active"), Settled("successes"), Settled("failures"), Settled("bytes")} \subseteq Int
  BY <1>1 DEF Owable
<1>4. drained' = drained
  BY DEF Doing
<1>5. Cardinality(DOMAIN registry)' = Cardinality(DOMAIN registry) + One(e.op = "insert") - One(e.op = "remove")
  BY DoingRows
<1>6. Cardinality(DOMAIN registry) \in Nat
  BY RegistryRows
<1>7. /\ Total(buckets) \in Nat /\ Total(buckets)' = Total(buckets) + One(e.op = "bucket")
      /\ Total(registry) \in Nat /\ Total(registry)' \in Nat /\ Total(registry)' <= Total(registry) + One(e.op = "row")
  BY DoingSums
<1>8. atomics'["next_id"] = atomics["next_id"] + One(e.op = "take_id") /\ atomics["next_id"] \in Nat
  <2>1. Legal(e)
    BY DebtsShape DEF IInv, DebtShape
  <2> QED
    BY <2>1, ApplyAtomics DEF IInv, TypeOK, Counters, Doing
<1>9. BooksBalance
  BY DEF IInv
<1>10. /\ Pending("insert")' = Pending("insert") - One(e.op = "insert")
       /\ Pending("remove")' = Pending("remove") - One(e.op = "remove")
       /\ Pending("take_id")' = Pending("take_id") - One(e.op = "take_id")
       /\ Pending("bucket")' = Pending("bucket") - One(e.op = "bucket")
       /\ Pending("row")' = Pending("row") - One(e.op = "row")
       /\ {Pending("insert"), Pending("remove"), Pending("take_id"), Pending("bucket"), Pending("row")} \subseteq Nat
  BY <1>2
<1>12. Settled("active")' = Cardinality(DOMAIN registry)' + Pending("insert")' - Pending("remove")'
  BY <1>3, <1>5, <1>6, <1>9, <1>10 DEF BooksBalance, One
<1>13. Settled("total")' = Settled("active")' + Settled("successes")' + drained'
  BY <1>3, <1>4, <1>9 DEF BooksBalance
<1>14. Settled("total")' = atomics'["next_id"] - 1 + Pending("take_id")'
  BY <1>3, <1>8, <1>9, <1>10 DEF BooksBalance, One
<1>15. Settled("failures")' = Total(buckets)' + Pending("bucket")'
  BY <1>3, <1>7, <1>9, <1>10 DEF BooksBalance, One
<1>16. Settled("bytes")' >= Total(registry)' + Pending("row")'
  BY <1>3, <1>7, <1>9, <1>10 DEF BooksBalance, One
<1> QED
  BY <1>12, <1>13, <1>14, <1>15, <1>16 DEF BooksBalance

-----------------------------------------------------------------------------
(* The beginning of a call and the books.                                  *)

LEMMA EffectEqual ==
  ASSUME NEW op, NEW arg, NEW p, NEW x
  PROVE  Effect(op, arg) = Effect(p, x) <=> op = p /\ arg = x
BY EffectFields

LEMMA EffectsTable ==
  ASSUME NEW id, NEW code
  PROVE  /\ \A op : Owes(OpeningEffects, op) <=> op \in {"take_id", "total", "active", "insert"}
         /\ \A op : Owes(ErrorEffects(code), op) <=> op \in {"failures", "bucket"}
         /\ \A op : Owes(ByteEffects(id), op) <=> op \in {"bytes", "row"}
         /\ \A op : Owes(ClosingEffects(id), op) <=> op \in {"successes", "active", "remove"}
         /\ \A op : Owes(DrainEffects(id), op) <=> op \in {"active", "remove"}
         /\ \A c \in Owable : Effect(c, 1) \in OpeningEffects <=> c \in {"total", "active"}
         /\ \A c \in Owable : Effect(c, 1) \in ErrorEffects(code) <=> c = "failures"
         /\ \A c \in Owable : Effect(c, 1) \in ByteEffects(id) <=> c = "bytes"
         /\ \A c \in Owable : Effect(c, 1) \in ClosingEffects(id) <=> c = "successes"
         /\ \A c \in Owable : Effect(c, 1) \notin DrainEffects(id)
         /\ \A c \in Owable : Effect(c, -1) \notin OpeningEffects
         /\ \A c \in Owable : Effect(c, -1) \notin ErrorEffects(code)
         /\ \A c \in Owable : Effect(c, -1) \notin ByteEffects(id)
         /\ \A c \in Owable : Effect(c, -1) \in ClosingEffects(id) <=> c = "active"
         /\ \A c \in Owable : Effect(c, -1) \in DrainEffects(id) <=> c = "active"
<1>1. \A op : Owes(OpeningEffects, op) <=> op \in {"take_id", "total", "active", "insert"}
  BY EffectFields DEF Owes, OpeningEffects
<1>2. \A op : Owes(ErrorEffects(code), op) <=> op \in {"failures", "bucket"}
  BY EffectFields DEF Owes, ErrorEffects
<1>3. \A op : Owes(ByteEffects(id), op) <=> op \in {"bytes", "row"}
  BY EffectFields DEF Owes, ByteEffects
<1>4. \A op : Owes(ClosingEffects(id), op) <=> op \in {"successes", "active", "remove"}
  BY EffectFields DEF Owes, ClosingEffects
<1>5. \A op : Owes(DrainEffects(id), op) <=> op \in {"active", "remove"}
  BY EffectFields DEF Owes, DrainEffects
<1>6. \A c \in Owable : /\ Effect(c, 1) \in OpeningEffects <=> c \in {"total", "active"}
                        /\ Effect(c, -1) \notin OpeningEffects
  BY EffectEqual DEF OpeningEffects, Owable
<1>7. \A c \in Owable : (Effect(c, 1) \in ErrorEffects(code) <=> c = "failures") /\ Effect(c, -1) \notin ErrorEffects(code)
  BY EffectEqual DEF ErrorEffects, Owable
<1>8. \A c \in Owable : (Effect(c, 1) \in ByteEffects(id) <=> c = "bytes") /\ Effect(c, -1) \notin ByteEffects(id)
  BY EffectEqual DEF ByteEffects, Owable
<1>9. \A c \in Owable : /\ Effect(c, 1) \in ClosingEffects(id) <=> c = "successes"
                        /\ Effect(c, -1) \in ClosingEffects(id) <=> c = "active"
  BY EffectEqual DEF ClosingEffects, Owable
<1>10. \A c \in Owable : Effect(c, 1) \notin DrainEffects(id) /\ (Effect(c, -1) \in DrainEffects(id) <=> c = "active")
  BY EffectEqual DEF DrainEffects, Owable
<1> QED
  BY <1>1, <1>2, <1>3, <1>4, <1>5, <1>6, <1>7, <1>8, <1>9, <1>10

LEMMA StartingCounts ==
  ASSUME TypeOK, NEW a \in Actors, NEW E, Starting(a, E)
  PROVE  /\ \A op : Pending(op) \in Nat /\ Pending(op)' = Pending(op) + One(Owes(E, op))
         /\ \A c \in Owable : /\ Settled(c) \in Int
                              /\ Settled(c)' = Settled(c) + One(Effect(c, 1) \in E) - One(Effect(c, -1) \in E)
<1>1. Debts(a) = {} /\ Debts(a)' = E /\ \A b \in Actors : b # a => Debts(b)' = Debts(b)
  BY DEF Starting, Owed
<1>2. \A op : Pending(op) \in Nat /\ Pending(op)' = Pending(op) + One(Owes(E, op))
  <2> TAKE op
  <2>1. ~ Owes(Debts(a), op)
    BY <1>1 DEF Owes
  <2>2. Pending(op) \in Nat /\ Pending(op)' = Pending(op) + One(Owes(Debts(a)', op)) - One(Owes(Debts(a), op))
    BY <1>1, OwingChange
  <2> QED
    BY <1>1, <2>1, <2>2 DEF One
<1>3. ASSUME NEW c \in Owable
      PROVE  /\ Settled(c) \in Int
             /\ Settled(c)' = Settled(c) + One(Effect(c, 1) \in E) - One(Effect(c, -1) \in E)
  <2>1. ASSUME NEW x
        PROVE  /\ Cardinality(OwingArg(c, x)) \in Nat
               /\ Cardinality(OwingArg(c, x)') = Cardinality(OwingArg(c, x)) + One(Effect(c, x) \in E)
    <3>1. /\ Cardinality(OwingArg(c, x)) \in Nat
          /\ Cardinality(OwingArg(c, x)')
               = Cardinality(OwingArg(c, x)) + One(Effect(c, x) \in Debts(a)') - One(Effect(c, x) \in Debts(a))
      BY <1>1, OwingChange
    <3> QED
      BY <1>1, <3>1 DEF One
  <2> DEFINE P == Cardinality(OwingArg(c, 1))
             M == Cardinality(OwingArg(c, -1))
  <2>2. P \in Nat /\ M \in Nat /\ P' = P + One(Effect(c, 1) \in E) /\ M' = M + One(Effect(c, -1) \in E)
    BY <2>1
  <2>3. atomics[c] \in Nat /\ atomics' = atomics
    BY DEF TypeOK, Owable, Counters, Starting
  <2>4. Settled(c) = atomics[c] + P - M /\ Settled(c)' = atomics'[c] + P' - M'
    BY DEF Settled
  <2> HIDE DEF P, M
  <2> QED
    BY <2>2, <2>3, <2>4 DEF One
<1> QED
  BY <1>2, <1>3

\* A call's effects leave the books balanced, if it is as the equations say.
LEMMA StartingBooks ==
  ASSUME IInv, NEW a \in Actors, NEW E, Starting(a, E),
         LET plus(c) == One(Effect(c, 1) \in E)
             minus(c) == One(Effect(c, -1) \in E)
         IN  /\ plus("active") - minus("active") = One(Owes(E, "insert")) - One(Owes(E, "remove"))
             /\ drained' - drained
                  = plus("total") - minus("total") - plus("active") + minus("active") - plus("successes") + minus("successes")
             /\ plus("total") - minus("total") = One(Owes(E, "take_id"))
             /\ plus("failures") - minus("failures") = One(Owes(E, "bucket"))
             /\ plus("bytes") - minus("bytes") = One(Owes(E, "row")),
         drained' \in Nat
  PROVE  BooksBalance'
<1>1. \A op : Pending(op) \in Nat /\ Pending(op)' = Pending(op) + One(Owes(E, op))
  BY StartingCounts DEF IInv
<1>2. \A c \in Owable : /\ Settled(c) \in Int
                        /\ Settled(c)' = Settled(c) + One(Effect(c, 1) \in E) - One(Effect(c, -1) \in E)
  BY StartingCounts DEF IInv
<1>3. UNCHANGED <<atomics, buckets, registry>>
  BY DEF Starting
<1>4. /\ Cardinality(DOMAIN registry) \in Nat /\ Cardinality(DOMAIN registry)' = Cardinality(DOMAIN registry)
  BY <1>3, RegistryRows
<1>5. Total(buckets) \in Nat /\ Total(registry) \in Nat
  BY FS_CardinalityType DEF IInv, SumsInv, Total
<1>6. Total(buckets)' = Total(buckets) /\ Total(registry)' = Total(registry)
  BY <1>3 DEF Total
<1>7. BooksBalance /\ drained \in Nat /\ atomics["next_id"] \in Nat
  BY DEF IInv, TypeOK, Counters
<1>8. "total" \in Owable /\ "active" \in Owable /\ "successes" \in Owable /\ "failures" \in Owable /\ "bytes" \in Owable
  BY DEF Owable
<1>9. Settled("active")' = Cardinality(DOMAIN registry)' + Pending("insert")' - Pending("remove")'
  BY <1>1, <1>2, <1>4, <1>7, <1>8 DEF BooksBalance, One
<1>10. Settled("total")' = Settled("active")' + Settled("successes")' + drained'
  <2> DEFINE p(c) == One(Effect(c, 1) \in E)
             m(c) == One(Effect(c, -1) \in E)
  <2>1. \A c \in Owable : p(c) \in {0, 1} /\ m(c) \in {0, 1}
    BY DEF One
  <2>2. \A c \in Owable : Settled(c) \in Int /\ Settled(c)' = Settled(c) + p(c) - m(c)
    BY <1>2
  <2>3. drained' - drained = p("total") - m("total") - p("active") + m("active") - p("successes") + m("successes")
    OBVIOUS
  <2> HIDE DEF p, m
  <2>4. Settled("total") = Settled("active") + Settled("successes") + drained
    BY <1>7 DEF BooksBalance
  <2> QED
    BY <1>7, <1>8, <2>1, <2>2, <2>3, <2>4
<1>11. Settled("total")' = atomics'["next_id"] - 1 + Pending("take_id")'
  BY <1>1, <1>2, <1>3, <1>7, <1>8 DEF BooksBalance, One
<1>12. Settled("failures")' = Total(buckets)' + Pending("bucket")'
  BY <1>1, <1>2, <1>5, <1>6, <1>7, <1>8 DEF BooksBalance, One
<1>13. Settled("bytes")' >= Total(registry)' + Pending("row")'
  BY <1>1, <1>2, <1>5, <1>6, <1>7, <1>8 DEF BooksBalance, One
<1> QED
  BY <1>9, <1>10, <1>11, <1>12, <1>13 DEF BooksBalance

LEMMA CallBooks ==
  ASSUME IInv, NEW a \in Actors, NEW id, NEW code,
         Opening(a) \/ Erring(a, code) \/ Moving(a, id) \/ Closing(a, id) \/ Draining(a, id)
  PROVE  BooksBalance' /\ drained' \in Nat
<1>1. drained \in Nat
  BY DEF IInv, TypeOK
<1>2. CASE Opening(a)
  <2>1. Starting(a, OpeningEffects) /\ drained' = drained
    BY <1>2 DEF Opening
  <2> QED
    BY <1>1, <2>1, EffectsTable, StartingBooks DEF One, Owable
<1>3. CASE Erring(a, code)
  <2>1. Starting(a, ErrorEffects(code)) /\ drained' = drained
    BY <1>3 DEF Erring
  <2> QED
    BY <1>1, <2>1, EffectsTable, StartingBooks DEF One, Owable
<1>4. CASE Moving(a, id)
  <2>1. Starting(a, ByteEffects(id)) /\ drained' = drained
    BY <1>4 DEF Moving
  <2> QED
    BY <1>1, <2>1, EffectsTable, StartingBooks DEF One, Owable
<1>5. CASE Closing(a, id)
  <2>1. Starting(a, ClosingEffects(id)) /\ drained' = drained
    BY <1>5 DEF Closing
  <2> QED
    BY <1>1, <2>1, EffectsTable, StartingBooks DEF One, Owable
<1>6. CASE Draining(a, id)
  <2>1. Starting(a, DrainEffects(id)) /\ drained' = drained + 1
    BY <1>6 DEF Draining
  <2> QED
    BY <1>1, <2>1, EffectsTable, StartingBooks DEF One, Owable
<1> QED
  BY <1>2, <1>3, <1>4, <1>5, <1>6

LEMMA StepBooks ==
  ASSUME IInv, Step
  PROVE  BooksBalance' /\ drained' \in Nat
<1>1. ASSUME NEW a \in Actors, NEW e \in Debts(a), Doing(a, e) PROVE BooksBalance' /\ drained' \in Nat
  BY <1>1, DoingBooks DEF Doing, IInv, TypeOK
<1>2. CASE Resting \/ Load
  <2>1. UNCHANGED <<atomics, buckets, registry, todo, drained>>
    BY <1>2 DEF Resting, Load, callVars
  <2> QED
    BY <2>1 DEF IInv, TypeOK, BooksBalance, Settled, Pending, Owing, OwingArg, Total, Units
<1> QED
  BY <1>1, <1>2, CallBooks DEF Step

-----------------------------------------------------------------------------
(* Ids.                                                                    *)

LEMMA LeavingDebts ==
  /\ \A a \in Actors : \A id : id \in Leaving(a) <=> id \in DOMAIN registry /\ Effect("remove", id) \in Debts(a)
  /\ \A a \in Actors : \A id : id \in Leaving(a)' <=> id \in DOMAIN registry' /\ Effect("remove", id) \in Debts(a)'
<1>1. \A a \in Actors : \A id : id \in Leaving(a) <=> id \in DOMAIN registry /\ Effect("remove", id) \in Debts(a)
  BY DEF Leaving, Debts, EffectsOf
<1>2. \A a \in Actors : \A id : id \in Leaving(a)' <=> id \in DOMAIN registry' /\ Effect("remove", id) \in Debts(a)'
  BY DEF Leaving, Debts, EffectsOf
<1> QED
  BY <1>1, <1>2

\* What an actor is about to remove is in the registry.
LEMMA RemovesLeave ==
  ASSUME IdsInv, NEW a \in Actors, NEW id
  PROVE  id \in Leaving(a) <=> Effect("remove", id) \in Debts(a)
<1>1. Effect("remove", id) \in Debts(a) => id \in DOMAIN registry
  BY EffectFields DEF IdsInv
<1> QED
  BY <1>1, LeavingDebts

\* The facts about ids that the actors' sets give.
LEMMA IdFacts ==
  ASSUME IInv
  PROVE  /\ \A a, b \in Actors : a # b => /\ owned[a] \intersect owned[b] = {}
                                          /\ owned[a] \intersect Leaving(b) = {}
                                          /\ Leaving(a) \intersect Leaving(b) = {}
         /\ \A a \in Actors : owned[a] \subseteq DOMAIN registry /\ Leaving(a) \subseteq DOMAIN registry
         /\ \A id \in DOMAIN registry : \E a \in Actors : id \in owned[a] \/ id \in Leaving(a)
         /\ \A a \in Actors : new[a] \notin DOMAIN registry /\ new[a] \in Nat /\ new[a] < atomics["next_id"]
         /\ \A a, b \in Actors : a # b /\ new[a] # 0 => new[a] # new[b]
         /\ atomics["next_id"] \in Nat
         /\ DOMAIN registry \subseteq 1 .. atomics["next_id"] - 1
<1>1. \A a, b \in Actors : a # b => (owned[a] \union Leaving(a)) \intersect (owned[b] \union Leaving(b)) = {}
  BY DEF IInv, IdsAreUnique
<1>2. DOMAIN registry = UNION {owned[a] \union Leaving(a) : a \in Actors}
  BY DEF IInv, IdsAreUnique
<1>3. \A a, b \in Actors : a # b => /\ owned[a] \intersect owned[b] = {}
                                    /\ owned[a] \intersect Leaving(b) = {}
                                    /\ Leaving(a) \intersect Leaving(b) = {}
  BY <1>1
<1>4. \A a \in Actors : owned[a] \subseteq DOMAIN registry /\ Leaving(a) \subseteq DOMAIN registry
  BY <1>2
<1>5. \A id \in DOMAIN registry : \E a \in Actors : id \in owned[a] \/ id \in Leaving(a)
  BY <1>2
<1> QED
  BY <1>3, <1>4, <1>5 DEF IInv, IdsAreUnique, IdsInv, TypeOK, Counters

\* The same facts are enough.
LEMMA IdsFromFacts ==
  ASSUME NEW S, NEW own, NEW lv, NEW reg,
         \A a, b \in S : a # b => /\ own[a] \intersect own[b] = {} /\ own[a] \intersect lv[b] = {}
                                  /\ lv[a] \intersect lv[b] = {},
         \A a \in S : own[a] \subseteq reg /\ lv[a] \subseteq reg,
         \A id \in reg : \E a \in S : id \in own[a] \/ id \in lv[a]
  PROVE  /\ \A a, b \in S : a # b => (own[a] \union lv[a]) \intersect (own[b] \union lv[b]) = {}
         /\ reg = UNION {own[a] \union lv[a] : a \in S}
<1>1. \A a, b \in S : a # b => (own[a] \union lv[a]) \intersect (own[b] \union lv[b]) = {}
  <2> SUFFICES ASSUME NEW a \in S, NEW b \in S, a # b, NEW x \in own[a] \union lv[a], x \in own[b] \union lv[b]
               PROVE  FALSE
    OBVIOUS
  <2> QED
    OBVIOUS
<1>2. reg = UNION {own[a] \union lv[a] : a \in S}
  OBVIOUS
<1> QED
  BY <1>1, <1>2

LEMMA UniqueFromFacts ==
  ASSUME \A a, b \in Actors : a # b => /\ (owned[a] \intersect owned[b])' = {}
                                       /\ (owned[a] \intersect Leaving(b))' = {}
                                       /\ (Leaving(a) \intersect Leaving(b))' = {},
         \A a \in Actors : owned'[a] \subseteq DOMAIN registry' /\ Leaving(a)' \subseteq DOMAIN registry',
         \A id \in DOMAIN registry' : \E a \in Actors : id \in owned'[a] \/ id \in Leaving(a)',
         \A a \in Actors : new'[a] \notin DOMAIN registry',
         \A a, b \in Actors : a # b /\ new'[a] # 0 => new'[a] # new'[b]
  PROVE  IdsAreUnique'
<1> DEFINE own == [a \in Actors |-> owned'[a]]
           lv == [a \in Actors |-> Leaving(a)']
<1>1. /\ \A a, b \in Actors : a # b => (own[a] \union lv[a]) \intersect (own[b] \union lv[b]) = {}
      /\ DOMAIN registry' = UNION {own[a] \union lv[a] : a \in Actors}
  <2>1. \A a, b \in Actors : a # b => /\ own[a] \intersect own[b] = {} /\ own[a] \intersect lv[b] = {}
                                      /\ lv[a] \intersect lv[b] = {}
    OBVIOUS
  <2>2. \A a \in Actors : own[a] \subseteq DOMAIN registry' /\ lv[a] \subseteq DOMAIN registry'
    OBVIOUS
  <2>3. \A id \in DOMAIN registry' : \E a \in Actors : id \in own[a] \/ id \in lv[a]
    OBVIOUS
  <2> HIDE DEF own, lv
  <2> QED
    BY <2>1, <2>2, <2>3, IdsFromFacts
<1>2. \A a, b \in Actors : a # b => ((owned[a] \union Leaving(a)) \intersect (owned[b] \union Leaving(b)))' = {}
  BY <1>1
<1>3. DOMAIN registry' = UNION {(owned[a] \union Leaving(a))' : a \in Actors}
  BY <1>1
<1> QED
  BY <1>2, <1>3 DEF IdsAreUnique

LEMMA DoingDebts ==
  ASSUME IInv, NEW a \in Actors, NEW e \in Debts(a), Doing(a, e)
  PROVE  /\ Legal(e) /\ DebtShape(Debts(a)) /\ DebtShape(Debts(a) \ {e})
         /\ Debts(a)' = Debts(a) \ {e} /\ \A b \in Actors : b # a => Debts(b)' = Debts(b)
         /\ \A op : Owes(Debts(a)', op) <=> Owes(Debts(a), op) /\ e.op # op
<1>1. DebtShape(Debts(a)) /\ Legal(e)
  BY DebtsShape DEF IInv, DebtShape
<1>2. Debts(a)' = Debts(a) \ {e} /\ \A b \in Actors : b # a => Debts(b)' = Debts(b)
  BY DEF Doing, Owed
<1>3. DebtShape(Debts(a)')
  <2>1. CallShape(todo'[a])
    BY DEF Doing, Owed, Calls
  <2> QED
    BY <2>1, ShapeOfDebts DEF Debts
<1>4. \A op : Owes(Debts(a) \ {e}, op) <=> Owes(Debts(a), op) /\ e.op # op
  BY <1>1 DEF DebtShape, Owes
<1> QED
  BY <1>1, <1>2, <1>3, <1>4

\* An insertion has its id.
LEMMA InsertHasId ==
  ASSUME IInv, NEW a \in Actors, NEW e \in Debts(a), Doing(a, e), e.op = "insert"
  PROVE  new[a] \in Nat \ {0}
<1>1. Owes(Debts(a), "insert") /\ ~ Owes(Debts(a)', "insert")
  <2>1. Owes(Debts(a), "insert")
    BY DEF Owes
  <2>2. Owes(Debts(a)', "insert") <=> Owes(Debts(a), "insert") /\ e.op # "insert"
    BY DoingDebts
  <2> QED
    BY <2>1, <2>2
<1>2. ~ Owes(Debts(a)', "take_id")
  <2> SUFFICES ASSUME Owes(Debts(a)', "take_id") PROVE FALSE
    OBVIOUS
  <2>1. DebtShape(Debts(a)')
    BY DoingDebts
  <2>2. PICK d \in Debts(a)' : d.op = "take_id"
    BY DEF Owes
  <2>3. Legal(d)
    BY <2>1 DEF DebtShape
  <2>4. d \in BeforeInsert
    BY <2>2, <2>3 DEF Legal, BeforeInsert
  <2> QED
    BY <1>1, <2>1, <2>4 DEF DebtShape
<1>3. ~ Owes(Debts(a), "take_id")
  BY <1>2, DoingDebts
<1> QED
  BY <1>1, <1>3 DEF IInv, IdsInv, TypeOK

\* What an effect does to the ids.
LEMMA ApplyIds ==
  ASSUME IInv, NEW a \in Actors, NEW e \in Debts(a), Doing(a, e)
  PROVE  /\ DOMAIN new' = Actors /\ DOMAIN owned' = Actors
         /\ \A b \in Actors : b # a => new'[b] = new[b] /\ owned'[b] = owned[b]
         /\ new'[a] = IF e.op = "take_id" THEN atomics["next_id"] ELSE IF e.op = "insert" THEN 0 ELSE new[a]
         /\ owned'[a] = IF e.op = "insert" THEN owned[a] \union {new[a]} ELSE owned[a]
         /\ DOMAIN registry' = IF e.op = "insert" THEN DOMAIN registry \union {new[a]}
                               ELSE IF e.op = "remove" THEN DOMAIN registry \ {e.arg} ELSE DOMAIN registry
         /\ new' = [b \in Actors |-> new'[b]]
<1>1. new \in [Actors -> Nat] /\ DOMAIN owned = Actors
  BY DEF IInv, TypeOK
<1>2. CASE e.op = "take_id"
  <2>1. new' = [new EXCEPT ![a] = atomics["next_id"]] /\ owned' = owned /\ registry' = registry
    BY <1>2 DEF Doing, Apply, TakeId, Counters
  <2> QED
    BY <1>1, <1>2, <2>1
<1>3. CASE e.op = "insert"
  <2>1. /\ new' = [new EXCEPT ![a] = 0] /\ owned' = [owned EXCEPT ![a] = @ \union {new[a]}]
        /\ registry' = With(registry, new[a], 0)
    BY <1>3 DEF Doing, Apply, Insert, Counters
  <2>2. DOMAIN registry' = DOMAIN registry \union {new[a]}
    BY <2>1 DEF With
  <2> QED
    BY <1>1, <1>3, <2>1, <2>2
<1>4. CASE e.op \notin {"take_id", "insert"}
  <2>1. new' = new /\ owned' = owned
    BY <1>4 DEF Doing, Apply
  <2>2. DOMAIN registry' = IF e.op = "remove" THEN DOMAIN registry \ {e.arg} ELSE DOMAIN registry
    BY <1>4, DoingRegistry DEF Locks, Without
  <2> QED
    BY <1>1, <1>4, <2>1, <2>2
<1> QED
  BY <1>2, <1>3, <1>4

LEMMA DoingLeaving ==
  ASSUME IInv, NEW a \in Actors, NEW e \in Debts(a), Doing(a, e), NEW b \in Actors, NEW id
  PROVE  id \in Leaving(b)' <=> id \in Leaving(b) /\ ~ (e.op = "remove" /\ e.arg = id)
<1> DEFINE r == Effect("remove", id)
<1>1. id \in Leaving(b)' <=> id \in DOMAIN registry' /\ r \in Debts(b)'
  BY LeavingDebts
<1>2. id \in Leaving(b) <=> r \in Debts(b)
  BY RemovesLeave DEF IInv
<1>3. e = r <=> e.op = "remove" /\ e.arg = id
  <2>1. e = Effect(e.op, e.arg)
    BY DoingDebts DEF Legal
  <2> QED
    BY <2>1, EffectFields
<1>4. id \in Leaving(b) => id \in DOMAIN registry
  BY LeavingDebts
<1>5. id \in Leaving(b) /\ ~ (e.op = "remove" /\ e.arg = id) => id \in DOMAIN registry'
  <2>1. /\ e.op = "insert" => DOMAIN registry' = DOMAIN registry \union {new[a]}
        /\ e.op = "remove" => DOMAIN registry' = DOMAIN registry \ {e.arg}
        /\ e.op \notin {"insert", "remove"} => DOMAIN registry' = DOMAIN registry
    BY ApplyIds
  <2> QED
    BY <1>4, <2>1
<1>6. CASE b = a
  <2>1. Debts(b)' = Debts(b) \ {e}
    BY <1>6, DoingDebts
  <2> QED
    BY <1>1, <1>2, <1>3, <1>5, <2>1
<1>7. CASE b # a
  <2>1. Debts(b)' = Debts(b)
    BY <1>7, DoingDebts
  <2>2. e.op = "remove" /\ e.arg = id => id \notin Leaving(b)
    <3>1. e = r => id \in Leaving(a)
      BY RemovesLeave DEF IInv
    <3> QED
      BY <1>3, <1>7, <3>1, IdFacts
  <2> QED
    BY <1>1, <1>2, <1>5, <2>1, <2>2
<1> QED
  BY <1>6, <1>7

\* Ids after an effect.
LEMMA DoingIds ==
  ASSUME IInv, NEW a \in Actors, NEW e \in Debts(a), Doing(a, e)
  PROVE  IdsAreUnique'
<1>1. \A b \in Actors : \A id : id \in Leaving(b)' <=> id \in Leaving(b) /\ ~ (e.op = "remove" /\ e.arg = id)
  BY DoingLeaving
<1>2. CASE e.op = "insert"
  <2>1. new[a] \in Nat \ {0} /\ new[a] \notin DOMAIN registry
    BY <1>2, InsertHasId, IdFacts
  <2>2. /\ \A b \in Actors : b # a => new'[b] = new[b] /\ owned'[b] = owned[b]
        /\ new'[a] = 0 /\ owned'[a] = owned[a] \union {new[a]} /\ DOMAIN registry' = DOMAIN registry \union {new[a]}
    BY <1>2, ApplyIds
  <2>3. \A b \in Actors : Leaving(b)' = Leaving(b)
    BY <1>1, <1>2
  <2>4. \A b \in Actors : new[a] \notin owned[b] /\ new[a] \notin Leaving(b)
    BY <2>1, IdFacts
  <2>5. \A b, c \in Actors : b # c => /\ (owned[b] \intersect owned[c])' = {}
                                      /\ (owned[b] \intersect Leaving(c))' = {}
                                      /\ (Leaving(b) \intersect Leaving(c))' = {}
    <3> SUFFICES ASSUME NEW b \in Actors, NEW c \in Actors, b # c
                 PROVE  /\ owned'[b] \intersect owned'[c] = {}
                        /\ owned'[b] \intersect Leaving(c)' = {}
                        /\ Leaving(b)' \intersect Leaving(c)' = {}
      OBVIOUS
    <3>1. owned[b] \intersect owned[c] = {} /\ owned[b] \intersect Leaving(c) = {} /\ Leaving(b) \intersect Leaving(c) = {}
      BY IdFacts
    <3> QED
      BY <2>2, <2>3, <2>4, <3>1
  <2>6. \A b \in Actors : owned'[b] \subseteq DOMAIN registry' /\ Leaving(b)' \subseteq DOMAIN registry'
    BY <2>2, <2>3, IdFacts
  <2>7. \A id \in DOMAIN registry' : \E b \in Actors : id \in owned'[b] \/ id \in Leaving(b)'
    <3> SUFFICES ASSUME NEW id \in DOMAIN registry'
                 PROVE  \E b \in Actors : id \in owned'[b] \/ id \in Leaving(b)'
      OBVIOUS
    <3>1. CASE id = new[a]
      BY <2>2, <3>1
    <3>2. CASE id \in DOMAIN registry
      <4>1. PICK b \in Actors : id \in owned[b] \/ id \in Leaving(b)
        BY <3>2, IdFacts
      <4> QED
        BY <2>2, <2>3, <4>1
    <3> QED
      BY <2>2, <3>1, <3>2
  <2>8. \A b \in Actors : new'[b] \notin DOMAIN registry'
    <3>1. 0 \notin DOMAIN registry
      BY IdFacts
    <3>2. \A b \in Actors : b # a => new[b] # new[a] /\ new[b] \notin DOMAIN registry
      BY <2>1, IdFacts
    <3> QED
      BY <2>1, <2>2, <3>1, <3>2
  <2>9. \A b, c \in Actors : b # c /\ new'[b] # 0 => new'[b] # new'[c]
    BY <2>2, IdFacts
  <2> QED
    BY <2>5, <2>6, <2>7, <2>8, <2>9, UniqueFromFacts
<1>3. CASE e.op # "insert"
  <2>1. /\ \A b \in Actors : owned'[b] = owned[b]
        /\ DOMAIN registry' = IF e.op = "remove" THEN DOMAIN registry \ {e.arg} ELSE DOMAIN registry
    BY <1>3, ApplyIds
  <2>2. e.op = "remove" => \A b \in Actors : e.arg \notin owned[b]
    <3>1. e.op = "remove" => e.arg \in Leaving(a)
      <4>1. e = Effect(e.op, e.arg)
        BY DoingDebts DEF Legal
      <4>2. IdsInv
        BY DEF IInv
      <4> QED
        BY <4>1, <4>2, RemovesLeave
    <3>2. owned[a] \intersect Leaving(a) = {}
      BY DEF IInv, IdsInv
    <3>3. \A b \in Actors : b # a => owned[b] \intersect Leaving(a) = {}
      BY IdFacts
    <3> QED
      BY <3>1, <3>2, <3>3
  <2>5. \A b, c \in Actors : b # c => /\ (owned[b] \intersect owned[c])' = {}
                                      /\ (owned[b] \intersect Leaving(c))' = {}
                                      /\ (Leaving(b) \intersect Leaving(c))' = {}
    <3> SUFFICES ASSUME NEW b \in Actors, NEW c \in Actors, b # c
                 PROVE  /\ owned'[b] \intersect owned'[c] = {}
                        /\ owned'[b] \intersect Leaving(c)' = {}
                        /\ Leaving(b)' \intersect Leaving(c)' = {}
      OBVIOUS
    <3>1. owned[b] \intersect owned[c] = {} /\ owned[b] \intersect Leaving(c) = {} /\ Leaving(b) \intersect Leaving(c) = {}
      BY IdFacts
    <3>2. Leaving(b)' \subseteq Leaving(b) /\ Leaving(c)' \subseteq Leaving(c)
      BY <1>1
    <3> QED
      BY <2>1, <3>1, <3>2
  <2>6. \A b \in Actors : owned'[b] \subseteq DOMAIN registry' /\ Leaving(b)' \subseteq DOMAIN registry'
    <3>1. \A b \in Actors : owned'[b] \subseteq DOMAIN registry'
      BY <2>1, <2>2, IdFacts
    <3>2. \A b \in Actors : Leaving(b)' \subseteq DOMAIN registry'
      BY LeavingDebts
    <3> QED
      BY <3>1, <3>2
  <2>7. \A id \in DOMAIN registry' : \E b \in Actors : id \in owned'[b] \/ id \in Leaving(b)'
    <3> SUFFICES ASSUME NEW id \in DOMAIN registry'
                 PROVE  \E b \in Actors : id \in owned'[b] \/ id \in Leaving(b)'
      OBVIOUS
    <3>1. id \in DOMAIN registry /\ ~ (e.op = "remove" /\ e.arg = id)
      BY <2>1
    <3>2. PICK b \in Actors : id \in owned[b] \/ id \in Leaving(b)
      BY <3>1, IdFacts
    <3> QED
      BY <1>1, <2>1, <3>1, <3>2
  <2>8. CASE e.op = "take_id"
    <3>1. /\ \A b \in Actors : b # a => new'[b] = new[b]
          /\ new'[a] = atomics["next_id"] /\ DOMAIN registry' = DOMAIN registry
      BY <2>8, ApplyIds
    <3>2. atomics["next_id"] \notin DOMAIN registry
      BY IdFacts
    <3>3. \A b \in Actors : new[b] \notin DOMAIN registry /\ new[b] # atomics["next_id"]
      BY IdFacts
    <3>4. \A b \in Actors : new'[b] \notin DOMAIN registry'
      BY <3>1, <3>2, <3>3
    <3>5. \A b, c \in Actors : b # c /\ new'[b] # 0 => new'[b] # new'[c]
      BY <3>1, <3>3, IdFacts
    <3> QED
      BY <2>5, <2>6, <2>7, <3>4, <3>5, UniqueFromFacts
  <2>9. CASE e.op # "take_id"
    <3>1. \A b \in Actors : new'[b] = new[b]
      BY <1>3, <2>9, ApplyIds
    <3>2. \A b \in Actors : new'[b] \notin DOMAIN registry'
      BY <2>1, <3>1, IdFacts
    <3>3. \A b, c \in Actors : b # c /\ new'[b] # 0 => new'[b] # new'[c]
      BY <3>1, IdFacts
    <3> QED
      BY <2>5, <2>6, <2>7, <3>2, <3>3, UniqueFromFacts
  <2> QED
    BY <2>8, <2>9
<1> QED
  BY <1>2, <1>3

LEMMA DoingIdsInv ==
  ASSUME IInv, NEW a \in Actors, NEW e \in Debts(a), Doing(a, e)
  PROVE  IdsInv'
<1> DEFINE n == atomics["next_id"]
<1>1. n \in Nat /\ n' = n + One(e.op = "take_id")
  BY DoingDebts, ApplyAtomics DEF IInv, TypeOK, Counters, Doing
<1>2. \A b \in Actors : new[b] \in Nat /\ new[b] < n
  BY IdFacts
<1> HIDE DEF n
<1>3. (DOMAIN registry \subseteq 1 .. n - 1)'
  <2>1. DOMAIN registry \subseteq 1 .. n - 1
    BY IdFacts DEF n
  <2>2. e.op = "insert" => new[a] \in 1 .. n - 1
    BY <1>1, <1>2, InsertHasId
  <2>3. DOMAIN registry' \subseteq 1 .. n - 1
    <3>1. \/ e.op = "insert" /\ DOMAIN registry' = DOMAIN registry \union {new[a]}
          \/ DOMAIN registry' \subseteq DOMAIN registry
      BY ApplyIds
    <3> QED
      BY <2>1, <2>2, <3>1
  <2>4. n' \in {n, n + 1}
    BY <1>1 DEF One
  <2> QED
    BY <1>1, <2>3, <2>4
<1>4. \A b \in Actors : new'[b] < n'
  <2>1. \A b \in Actors : b # a => new'[b] = new[b]
    BY ApplyIds
  <2>2. new'[a] = IF e.op = "take_id" THEN n ELSE IF e.op = "insert" THEN 0 ELSE new[a]
    BY ApplyIds DEF n
  <2> QED
    BY <1>1, <1>2, <2>1, <2>2 DEF One
<1>5. \A b \in Actors : Owes(Debts(b)', "insert") /\ ~ Owes(Debts(b)', "take_id") => new'[b] # 0
  <2> SUFFICES ASSUME NEW b \in Actors, Owes(Debts(b)', "insert"), ~ Owes(Debts(b)', "take_id")
               PROVE  new'[b] # 0
    OBVIOUS
  <2>1. Owes(Debts(b), "insert") /\ ~ Owes(Debts(b), "take_id") => new[b] # 0
    BY DEF IInv, IdsInv
  <2>2. CASE b # a
    BY <2>1, <2>2, ApplyIds, DoingDebts
  <2>3. CASE b = a
    <3>1. \A op : Owes(Debts(a)', op) <=> Owes(Debts(a), op) /\ e.op # op
      BY DoingDebts
    <3>2. Owes(Debts(a), "insert") /\ e.op # "insert" /\ (Owes(Debts(a), "take_id") => e.op = "take_id")
      BY <2>3, <3>1
    <3>3. new'[a] = IF e.op = "take_id" THEN n ELSE IF e.op = "insert" THEN 0 ELSE new[a]
      BY ApplyIds DEF n
    <3>4. e.op = "take_id" => new'[a] # 0
      BY <1>1, <1>2, <3>3
    <3>5. e.op # "take_id" => new'[a] # 0
      BY <2>1, <2>3, <3>2, <3>3
    <3> QED
      BY <2>3, <3>4, <3>5
  <2> QED
    BY <2>2, <2>3
<1>6. \A b \in Actors : (owned[b] \intersect Leaving(b))' = {}
  <2> SUFFICES ASSUME NEW b \in Actors PROVE owned'[b] \intersect Leaving(b)' = {}
    OBVIOUS
  <2>1. owned[b] \intersect Leaving(b) = {}
    BY DEF IInv, IdsInv
  <2>2. Leaving(b)' \subseteq Leaving(b)
    BY DoingLeaving
  <2>3. owned'[b] \subseteq owned[b] \union {new[a]}
    BY ApplyIds
  <2>4. new[a] \notin Leaving(b)
    BY IdFacts
  <2> QED
    BY <2>1, <2>2, <2>3, <2>4
<1>7. \A b \in Actors : \A d \in Debts(b)' : d.op = "remove" => d.arg \in DOMAIN registry'
  <2> SUFFICES ASSUME NEW b \in Actors, NEW d \in Debts(b)', d.op = "remove" PROVE d.arg \in DOMAIN registry'
    OBVIOUS
  <2>1. d \in Debts(b) /\ (b = a => d # e)
    BY DoingDebts, ZenonT(20)
  <2>2. Legal(d) /\ d = Effect("remove", d.arg)
    BY <2>1, DebtsShape DEF IInv, DebtShape, Legal
  <2>3. d.arg \in Leaving(b)
    BY <2>1, <2>2, RemovesLeave DEF IInv
  <2>4. ~ (e.op = "remove" /\ e.arg = d.arg)
    <3> SUFFICES ASSUME e.op = "remove", e.arg = d.arg PROVE FALSE
      OBVIOUS
    <3>1. e = d
      BY <2>2, DoingDebts DEF Legal
    <3>2. d.arg \in Leaving(a) /\ b # a
      BY <2>1, <2>2, <3>1, RemovesLeave DEF IInv
    <3> QED
      BY <2>3, <3>2, IdFacts
  <2>5. d.arg \in Leaving(b)'
    BY <2>3, <2>4, DoingLeaving
  <2> QED
    BY <2>5, LeavingDebts
<1> QED
  BY <1>3, <1>4, <1>5, <1>6, <1>7 DEF IdsInv, n

LEMMA DoingLimit ==
  ASSUME IInv, NEW a \in Actors, NEW e \in Debts(a), Doing(a, e)
  PROVE  LimitInv'
<1> SUFFICES ASSUME NEW b \in Actors
             PROVE  Cardinality(owned'[b]) + One(Owes(Debts(b)', "insert")) <= Limit(b)
  BY DEF LimitInv, Limit
<1>1. Cardinality(owned[b]) + One(Owes(Debts(b), "insert")) <= Limit(b)
  BY DEF IInv, LimitInv
<1>2. IsFiniteSet(owned[b]) /\ Cardinality(owned[b]) \in Nat /\ Limit(b) \in Nat
  BY OwnedType, LimitType DEF IInv
<1>3. CASE b # a
  <2>1. owned'[b] = owned[b] /\ Debts(b)' = Debts(b)
    BY <1>3, ApplyIds, DoingDebts
  <2> QED
    BY <1>1, <2>1
<1>4. CASE b = a /\ e.op = "insert"
  <2>1. owned'[b] = owned[b] \cup {new[b]} /\ new[b] \notin owned[b]
    BY <1>4, ApplyIds, IdFacts
  <2>2. Cardinality(owned'[b]) = Cardinality(owned[b]) + 1
    BY <1>2, <2>1, FS_AddElement
  <2>3. Owes(Debts(b), "insert")
    BY <1>4 DEF Owes
  <2>4. ~ Owes(Debts(b)', "insert")
    BY <1>4, DoingDebts
  <2> QED
    BY <1>1, <1>2, <2>2, <2>3, <2>4 DEF One
<1>5. CASE b = a /\ e.op # "insert"
  <2>1. owned'[b] = owned[b]
    BY <1>5, ApplyIds
  <2>2. Owes(Debts(b)', "insert") <=> Owes(Debts(b), "insert")
    BY <1>5, DoingDebts
  <2> QED
    BY <1>1, <1>2, <2>1, <2>2 DEF One
<1> QED
  BY <1>3, <1>4, <1>5

-----------------------------------------------------------------------------
(* No counter falls below zero.                                            *)

\* What is owed to the active count is in the books.
LEMMA OwedSizes ==
  ASSUME IInv
  PROVE  /\ Cardinality(Plus("active")) <= Pending("insert")
         /\ Pending("remove") <= Cardinality(DOMAIN registry)
         /\ {Cardinality(Plus("active")), Cardinality(Minus("active")), Pending("insert"), Pending("remove")} \subseteq Nat
<1>0. IsFiniteSet(Owing({"insert"})) /\ IsFiniteSet(Owing({"remove"})) /\ IsFiniteSet(Plus("active")) /\ IsFiniteSet(Minus("active"))
  <2>1. /\ Owing({"insert"}) \subseteq Actors /\ Owing({"remove"}) \subseteq Actors
        /\ Plus("active") \subseteq Actors /\ Minus("active") \subseteq Actors
    BY DEF Owing, Plus, Minus, OwingArg
  <2> QED
    BY <2>1, ActorsFinite, FS_Subset
<1>1. Plus("active") \subseteq Owing({"insert"})
  <2> SUFFICES ASSUME NEW a \in Plus("active") PROVE a \in Owing({"insert"})
    OBVIOUS
  <2>1. a \in Actors /\ Effect("active", 1) \in Debts(a)
    BY OwingDebts DEF Plus
  <2>2. DebtShape(Debts(a))
    BY <2>1, DebtsShape DEF IInv
  <2>3. Owes(Debts(a), "insert")
    BY <2>1, <2>2 DEF DebtShape, BeforeInsert
  <2> QED
    BY <2>1, <2>3, OwingDebts
<1>2. Pending("remove") <= Cardinality(DOMAIN registry)
  <2> DEFINE S == Owing({"remove"})
             f == [a \in S |-> CHOOSE id \in DOMAIN registry : id \in Leaving(a)]
  <2>1. \A a \in S : a \in Actors /\ f[a] \in DOMAIN registry /\ f[a] \in Leaving(a)
    <3> SUFFICES ASSUME NEW a \in S
                 PROVE  a \in Actors /\ \E id \in DOMAIN registry : id \in Leaving(a)
      OBVIOUS
    <3>1. a \in Actors /\ Owes(Debts(a), "remove")
      BY OwingDebts
    <3>2. PICK e \in Debts(a) : e.op = "remove"
      BY <3>1 DEF Owes
    <3>3. Legal(e)
      BY <3>1, DebtsShape DEF IInv, DebtShape
    <3>4. e = Effect("remove", e.arg)
      BY <3>2, <3>3 DEF Legal
    <3>5. e.arg \in Leaving(a)
      BY <3>1, <3>4, RemovesLeave DEF IInv
    <3> QED
      BY <3>1, <3>5, IdFacts
  <2>2. \A a, b \in S : f[a] = f[b] => a = b
    BY <2>1, IdFacts
  <2>3. f \in [S -> DOMAIN registry]
    BY <2>1
  <2> HIDE DEF f, S
  <2>4. f \in Injection(S, DOMAIN registry)
    BY <2>2, <2>3 DEF Injection, IsInjective
  <2>5. Cardinality(S) <= Cardinality(DOMAIN registry)
    BY <2>4, RegistryRows, FS_Injection
  <2> QED
    BY <2>5 DEF Pending, S
<1>3. Cardinality(Plus("active")) <= Cardinality(Owing({"insert"}))
  BY <1>0, <1>1, FS_Subset
<1> QED
  BY <1>0, <1>2, <1>3, FS_CardinalityType DEF Pending

LEMMA ActiveCovers ==
  ASSUME IInv
  PROVE  Cardinality(Minus("active")) <= atomics["active"]
<1>1. Settled("active") = Cardinality(DOMAIN registry) + Pending("insert") - Pending("remove")
  BY DEF IInv, BooksBalance
<1>2. Settled("active") = atomics["active"] + Cardinality(Plus("active")) - Cardinality(Minus("active"))
  BY DEF Settled, Plus, Minus
<1>3. atomics["active"] \in Nat /\ Cardinality(DOMAIN registry) \in Nat
  BY RegistryRows DEF IInv, TypeOK, Counters
<1> QED
  BY <1>1, <1>2, <1>3, OwedSizes

-----------------------------------------------------------------------------
(* Types.                                                                  *)

\* What is left of TypeOK once the ids and the limits are known.
PlainTypes ==
  /\ atomics \in [Counters -> Nat]
  /\ buckets \in [0 .. 8 -> Nat]
  /\ registry \in [DOMAIN registry -> Nat]
  /\ new \in [Actors -> Nat] /\ DOMAIN owned = Actors

LEMMA TypeFromParts ==
  ASSUME PlainTypes', IdsAreUnique', IdsInv', LimitInv', drained' \in Nat, overlap' \in Nat,
         DOMAIN seen' \subseteq Sampled, phase' \in {"open", "bytes", "close", "error", "drain", "gone"}
  PROVE  TypeOK'
<1> DEFINE n == atomics'["next_id"]
<1>1. n \in Nat
  BY DEF PlainTypes, Counters
<1> HIDE DEF n
<1>2. \A a \in Actors : owned'[a] \subseteq 1 .. n - 1
  <2> SUFFICES ASSUME NEW a \in Actors, NEW id \in owned'[a] PROVE id \in 1 .. n - 1
    OBVIOUS
  <2>1. id \in UNION {(owned[b] \union Leaving(b))' : b \in Actors}
    OBVIOUS
  <2>2. id \in DOMAIN registry'
    BY <2>1 DEF IdsAreUnique
  <2> QED
    BY <2>2 DEF IdsInv, n
<1>3. \A a \in Actors : Cardinality(owned'[a]) \in Nat
  <2>1. IsFiniteSet(1 .. n - 1)
    BY <1>1, FS_Interval
  <2> QED
    BY <1>2, <2>1, FS_Subset, FS_CardinalityType
<1>4. \A a \in Actors : Cardinality(owned'[a]) <= Limit(a)
  <2> SUFFICES ASSUME NEW a \in Actors PROVE Cardinality(owned'[a]) <= Limit(a)
    OBVIOUS
  <2>1. Cardinality(owned'[a]) + One(Owes(Debts(a)', "insert")) <= Limit(a)
    BY DEF LimitInv, Limit
  <2> QED
    BY <1>3, <2>1, LimitType DEF One
<1>5. Cardinality(owned'[Mock]) <= MAX_ACTIVE /\ \A t \in Tasks : Cardinality(owned'[t]) <= 1
  BY <1>4, MetricsAssumption DEF Limit, Actors
<1> QED
  BY <1>2, <1>5 DEF TypeOK, PlainTypes, n

LEMMA DoingTypes ==
  ASSUME IInv, NEW a \in Actors, NEW e \in Debts(a), Doing(a, e)
  PROVE  PlainTypes'
<1>1. atomics' \in [Counters -> Nat]
  <2>1. /\ DOMAIN atomics' = Counters /\ atomics' = [c \in Counters |-> atomics'[c]]
        /\ \A c \in Owable : atomics'[c] = atomics[c] + IF e.op = c THEN e.arg ELSE 0
        /\ atomics'["next_id"] = atomics["next_id"] + One(e.op = "take_id")
    BY DoingDebts, ApplyAtomics DEF IInv, Doing
  <2>2. \A c \in Counters : atomics[c] \in Nat
    BY DEF IInv, TypeOK
  <2>3. Counters = Owable \union {"next_id"}
    BY DEF Counters, Owable
  <2>4. ASSUME NEW c \in Owable PROVE atomics'[c] \in Nat
    <3>1. atomics[c] \in Nat /\ atomics'[c] = atomics[c] + IF e.op = c THEN e.arg ELSE 0
      BY <2>1, <2>2, <2>3
    <3>2. CASE e.op # c
      BY <3>1, <3>2
    <3>3. CASE e.op = c /\ e.arg = 1
      BY <3>1, <3>3
    <3>4. CASE e.op = c /\ e.arg # 1
      <4>1. c = "active" /\ e.arg = -1 /\ e = Effect("active", -1)
        BY <3>4, DoingDebts DEF Legal, Owable
      <4>2. a \in Minus("active")
        BY <4>1, OwingDebts DEF Minus
      <4>3. IsFiniteSet(Minus("active"))
        <5>1. Minus("active") \subseteq Actors
          BY DEF Minus, OwingArg
        <5> QED
          BY <5>1, ActorsFinite, FS_Subset
      <4>4. Cardinality(Minus("active")) \in Nat /\ Cardinality(Minus("active")) # 0
        BY <4>2, <4>3, FS_CardinalityType, FS_EmptySet
      <4>5. atomics["active"] >= 1
        BY <3>1, <4>1, <4>4, ActiveCovers
      <4> QED
        BY <3>1, <3>4, <4>1, <4>5
    <3> QED
      BY <3>2, <3>3, <3>4
  <2>5. atomics'["next_id"] \in Nat
    BY <2>1, <2>2, <2>3 DEF One
  <2> QED
    BY <2>1, <2>3, <2>4, <2>5
<1>2. buckets' \in [0 .. 8 -> Nat]
  <2>1. buckets \in [0 .. 8 -> Nat]
    BY DEF IInv, TypeOK
  <2>2. Legal(e)
    BY DoingDebts
  <2>3. CASE e.op = "bucket"
    <3>1. e.arg \in 0 .. 8
      BY <2>2, <2>3, LegalParts
    <3> QED
      BY <2>1, <2>3, <3>1, DoingRegistry
  <2> QED
    BY <2>1, <2>3, DoingRegistry
<1>3. registry' \in [DOMAIN registry' -> Nat]
  <2>1. registry \in [DOMAIN registry -> Nat]
    BY DEF IInv, TypeOK
  <2>2. CASE e.op = "insert"
    <3>1. registry' = [j \in DOMAIN registry \union {new[a]} |-> IF j = new[a] THEN 0 ELSE registry[j]]
      BY <2>2, DoingRegistry DEF With
    <3>2. \A j \in DOMAIN registry \union {new[a]} : (IF j = new[a] THEN 0 ELSE registry[j]) \in Nat
      BY <2>1
    <3> QED
      BY <3>1, <3>2
  <2>3. CASE e.op = "remove"
    BY <2>1, <2>3, DoingRegistry DEF Without
  <2>4. CASE e.op = "row"
    BY <2>1, <2>4, DoingRegistry
  <2>5. CASE e.op \notin Locks
    BY <2>1, <2>5, DoingRegistry
  <2> QED
    BY <2>2, <2>3, <2>4, <2>5 DEF Locks
<1>4. new' \in [Actors -> Nat]
  <2>1. \A b \in Actors : new[b] \in Nat
    BY IdFacts
  <2>2. atomics["next_id"] \in Nat
    BY IdFacts
  <2>3. \A b \in Actors : new'[b] \in Nat
    <3>1. \A b \in Actors : b # a => new'[b] = new[b]
      BY ApplyIds
    <3>2. new'[a] = IF e.op = "take_id" THEN atomics["next_id"] ELSE IF e.op = "insert" THEN 0 ELSE new[a]
      BY ApplyIds
    <3> QED
      BY <2>1, <2>2, <3>1, <3>2
  <2> QED
    BY <2>3, ApplyIds
<1>5. DOMAIN owned' = Actors
  BY ApplyIds
<1> QED
  BY <1>1, <1>2, <1>3, <1>4, <1>5 DEF PlainTypes

-----------------------------------------------------------------------------
(* The beginning of a call and the ids.                                    *)

\* A call that gives no connection away.
LEMMA KeepingIds ==
  ASSUME IInv, NEW a \in Actors, NEW E, Starting(a, E), UNCHANGED owned, ~ Owes(E, "remove"),
         Owes(E, "insert") => Owes(E, "take_id") /\ Cardinality(owned[a]) < Limit(a)
  PROVE  IdsAreUnique' /\ IdsInv' /\ LimitInv' /\ PlainTypes'
<1>1. UNCHANGED <<atomics, buckets, registry, new, owned>>
  BY DEF Starting
<1>2. Debts(a) = {} /\ Debts(a)' = E /\ \A b \in Actors : b # a => Debts(b)' = Debts(b)
  BY DEF Starting, Owed
<1>3. \A id : Effect("remove", id) \notin E
  BY EffectFields DEF Owes
<1>4. \A b \in Actors : Leaving(b)' = Leaving(b)
  <2> SUFFICES ASSUME NEW b \in Actors, NEW id PROVE id \in Leaving(b)' <=> id \in Leaving(b)
    OBVIOUS
  <2>1. (Effect("remove", id) \in Debts(b)') <=> Effect("remove", id) \in Debts(b)
    BY <1>2, <1>3
  <2> QED
    BY <1>1, <2>1, LeavingDebts
<1>5. IdsAreUnique'
  <2>1. IdsAreUnique
    BY DEF IInv
  <2>2. \A b, c \in Actors : b # c => ((owned[b] \union Leaving(b)) \intersect (owned[c] \union Leaving(c)))' = {}
    BY <1>1, <1>4, <2>1 DEF IdsAreUnique
  <2>3. {(owned[b] \union Leaving(b))' : b \in Actors} = {owned[b] \union Leaving(b) : b \in Actors}
    BY <1>1, <1>4
  <2>4. DOMAIN registry' = UNION {(owned[b] \union Leaving(b))' : b \in Actors}
    BY <1>1, <2>1, <2>3 DEF IdsAreUnique
  <2> QED
    BY <1>1, <2>1, <2>2, <2>4 DEF IdsAreUnique
<1>6. IdsInv'
  <2>1. IdsInv
    BY DEF IInv
  <2>2. \A b \in Actors : Owes(Debts(b)', "insert") /\ ~ Owes(Debts(b)', "take_id") => new'[b] # 0
    BY <1>1, <1>2, <2>1 DEF IdsInv
  <2>3. \A b \in Actors : (owned[b] \intersect Leaving(b))' = {}
    BY <1>1, <1>4, <2>1 DEF IdsInv
  <2>4. \A b \in Actors : \A d \in Debts(b)' : d.op = "remove" => d.arg \in DOMAIN registry'
    BY <1>1, <1>2, <2>1 DEF IdsInv, Owes
  <2> QED
    BY <1>1, <2>1, <2>2, <2>3, <2>4 DEF IdsInv
<1>7. LimitInv'
  <2> SUFFICES ASSUME NEW b \in Actors
               PROVE  Cardinality(owned'[b]) + One(Owes(Debts(b)', "insert")) <= Limit(b)
    BY DEF LimitInv, Limit
  <2>1. Cardinality(owned[b]) + One(Owes(Debts(b), "insert")) <= Limit(b)
    BY DEF IInv, LimitInv
  <2>2. Cardinality(owned[b]) \in Nat /\ Limit(b) \in Nat
    BY OwnedType, LimitType DEF IInv
  <2>3. CASE b # a
    BY <1>1, <1>2, <2>1, <2>3
  <2>4. CASE b = a
    <3>1. ~ Owes(Debts(a), "insert")
      BY <1>2 DEF Owes
    <3>2. Owes(Debts(a)', "insert") => Cardinality(owned[a]) < Limit(a)
      BY <1>2
    <3> QED
      BY <1>1, <2>1, <2>2, <2>4, <3>1, <3>2 DEF One
  <2> QED
    BY <2>3, <2>4
<1>8. PlainTypes'
  BY <1>1 DEF IInv, TypeOK, PlainTypes
<1> QED
  BY <1>5, <1>6, <1>7, <1>8

\* A call that gives one away.
LEMMA GivingIds ==
  ASSUME IInv, NEW a \in Actors, NEW E, NEW id \in owned[a], Starting(a, E),
         owned' = [owned EXCEPT ![a] = @ \ {id}],
         ~ Owes(E, "insert"), Effect("remove", id) \in E, \A d \in E : d.op = "remove" => d = Effect("remove", id)
  PROVE  IdsAreUnique' /\ IdsInv' /\ LimitInv' /\ PlainTypes'
<1>1. UNCHANGED <<atomics, buckets, registry, new>>
  BY DEF Starting
<1>2. Debts(a) = {} /\ Debts(a)' = E /\ \A b \in Actors : b # a => Debts(b)' = Debts(b)
  BY DEF Starting, Owed
<1>3. owned'[a] = owned[a] \ {id} /\ DOMAIN owned' = Actors /\ \A b \in Actors : b # a => owned'[b] = owned[b]
  BY DEF IInv, TypeOK
<1>4. id \in DOMAIN registry
  BY IdFacts
<1>5. \A x : Effect("remove", x) \in E <=> x = id
  BY EffectFields, EffectEqual
<1>6. Leaving(a) = {} /\ Leaving(a)' = {id} /\ \A b \in Actors : b # a => Leaving(b)' = Leaving(b)
  <2>1. Leaving(a) = {}
    BY <1>2, LeavingDebts
  <2>2. \A x : x \in Leaving(a)' <=> x = id
    BY <1>1, <1>2, <1>4, <1>5, LeavingDebts
  <2>3. ASSUME NEW b \in Actors, b # a PROVE Leaving(b)' = Leaving(b)
    <3>1. Debts(b)' = Debts(b)
      BY <1>2, <2>3
    <3>2. \A x : x \in Leaving(b)' <=> x \in Leaving(b)
      BY <1>1, <3>1, LeavingDebts
    <3> QED
      BY <3>2
  <2> QED
    BY <2>1, <2>2, <2>3
<1>7. \A b \in Actors : (owned[b] \union Leaving(b))' = owned[b] \union Leaving(b)
  BY <1>3, <1>6
<1>8. IdsAreUnique'
  <2>1. IdsAreUnique
    BY DEF IInv
  <2>2. \A b, c \in Actors : b # c => ((owned[b] \union Leaving(b)) \intersect (owned[c] \union Leaving(c)))' = {}
    BY <1>7, <2>1 DEF IdsAreUnique
  <2>3. {(owned[b] \union Leaving(b))' : b \in Actors} = {owned[b] \union Leaving(b) : b \in Actors}
    BY <1>7
  <2>4. DOMAIN registry' = UNION {(owned[b] \union Leaving(b))' : b \in Actors}
    BY <1>1, <2>1, <2>3 DEF IdsAreUnique
  <2> QED
    BY <1>1, <2>1, <2>2, <2>4 DEF IdsAreUnique
<1>9. IdsInv'
  <2>1. IdsInv
    BY DEF IInv
  <2>2. \A b \in Actors : Owes(Debts(b)', "insert") /\ ~ Owes(Debts(b)', "take_id") => new'[b] # 0
    BY <1>1, <1>2, <2>1 DEF IdsInv
  <2>3. \A b \in Actors : (owned[b] \intersect Leaving(b))' = {}
    BY <1>3, <1>6, <2>1 DEF IdsInv
  <2>4. \A b \in Actors : \A d \in Debts(b)' : d.op = "remove" => d.arg \in DOMAIN registry'
    BY <1>1, <1>2, <1>4, <2>1, EffectFields DEF IdsInv
  <2> QED
    BY <1>1, <2>1, <2>2, <2>3, <2>4 DEF IdsInv
<1>10. LimitInv'
  <2> SUFFICES ASSUME NEW b \in Actors
               PROVE  Cardinality(owned'[b]) + One(Owes(Debts(b)', "insert")) <= Limit(b)
    BY DEF LimitInv, Limit
  <2>1. Cardinality(owned[b]) + One(Owes(Debts(b), "insert")) <= Limit(b)
    BY DEF IInv, LimitInv
  <2>2. IsFiniteSet(owned[b]) /\ Cardinality(owned[b]) \in Nat /\ Limit(b) \in Nat
    BY OwnedType, LimitType DEF IInv
  <2>3. CASE b # a
    BY <1>2, <1>3, <2>1, <2>3
  <2>4. CASE b = a
    <3>1. owned'[b] \subseteq owned[b]
      BY <1>3, <2>4
    <3>2. Cardinality(owned'[b]) \in Nat /\ Cardinality(owned'[b]) <= Cardinality(owned[b])
      BY <2>2, <3>1, FS_Subset, FS_CardinalityType
    <3>3. ~ Owes(Debts(b)', "insert")
      BY <1>2, <2>4
    <3> QED
      BY <2>1, <2>2, <3>2, <3>3 DEF One
  <2> QED
    BY <2>3, <2>4
<1>11. PlainTypes'
  BY <1>1, <1>3 DEF IInv, TypeOK, PlainTypes
<1> QED
  BY <1>8, <1>9, <1>10, <1>11

\* Nothing but the sample changes.
LEMMA StillIds ==
  ASSUME IInv, UNCHANGED <<atomics, buckets, registry, todo, new, owned>>
  PROVE  IdsAreUnique' /\ IdsInv' /\ LimitInv' /\ PlainTypes' /\ SumsInv'
<1>1. PlainTypes'
  BY DEF IInv, TypeOK, PlainTypes
<1>2. SumsInv'
  BY DEF IInv, SumsInv, Units
<1>3. IdsAreUnique'
  <2>1. \A b \in Actors : (owned[b] \union Leaving(b))' = owned[b] \union Leaving(b)
    BY DEF Leaving
  <2>2. \A b, c \in Actors : b # c => ((owned[b] \union Leaving(b)) \intersect (owned[c] \union Leaving(c)))' = {}
    BY <2>1 DEF IInv, IdsAreUnique
  <2>3. {(owned[b] \union Leaving(b))' : b \in Actors} = {owned[b] \union Leaving(b) : b \in Actors}
    BY <2>1
  <2>4. DOMAIN registry' = UNION {(owned[b] \union Leaving(b))' : b \in Actors}
    BY <2>3 DEF IInv, IdsAreUnique
  <2> QED
    BY <2>2, <2>4 DEF IInv, IdsAreUnique
<1>4. IdsInv'
  BY DEF IInv, IdsInv, Leaving, Debts, EffectsOf
<1>5. LimitInv'
  BY DEF IInv, LimitInv, Limit, Debts, EffectsOf
<1> QED
  BY <1>1, <1>2, <1>3, <1>4, <1>5

LEMMA StepIds ==
  ASSUME IInv, Step
  PROVE  IdsAreUnique' /\ IdsInv' /\ LimitInv' /\ PlainTypes' /\ SumsInv'
<1>1. ASSUME NEW a \in Actors, NEW e \in Debts(a), Doing(a, e)
      PROVE  IdsAreUnique' /\ IdsInv' /\ LimitInv' /\ PlainTypes' /\ SumsInv'
  BY <1>1, DoingIds, DoingIdsInv, DoingLimit, DoingTypes, DoingSums
<1>2. ASSUME NEW a \in Actors, NEW E, Starting(a, E) PROVE SumsInv'
  BY <1>2 DEF Starting, IInv, SumsInv, Units
<1>3. ASSUME NEW a \in Actors, Opening(a) PROVE IdsAreUnique' /\ IdsInv' /\ LimitInv' /\ PlainTypes' /\ SumsInv'
  <2>1. Starting(a, OpeningEffects) /\ UNCHANGED owned /\ Cardinality(owned[a]) < Limit(a)
    BY <1>3 DEF Opening
  <2>2. ~ Owes(OpeningEffects, "remove") /\ Owes(OpeningEffects, "take_id")
    BY EffectsTable
  <2> QED
    BY <1>2, <2>1, <2>2, KeepingIds
<1>4. ASSUME NEW a \in Actors, NEW code \in Codes, Erring(a, code)
      PROVE  IdsAreUnique' /\ IdsInv' /\ LimitInv' /\ PlainTypes' /\ SumsInv'
  <2>1. Starting(a, ErrorEffects(code)) /\ UNCHANGED owned
    BY <1>4 DEF Erring
  <2>2. ~ Owes(ErrorEffects(code), "remove") /\ ~ Owes(ErrorEffects(code), "insert")
    BY EffectsTable
  <2> QED
    BY <1>2, <2>1, <2>2, KeepingIds
<1>5. ASSUME NEW a \in Actors, NEW id \in owned[a], Moving(a, id)
      PROVE  IdsAreUnique' /\ IdsInv' /\ LimitInv' /\ PlainTypes' /\ SumsInv'
  <2>1. Starting(a, ByteEffects(id)) /\ UNCHANGED owned
    BY <1>5 DEF Moving
  <2>2. ~ Owes(ByteEffects(id), "remove") /\ ~ Owes(ByteEffects(id), "insert")
    BY EffectsTable
  <2> QED
    BY <1>2, <2>1, <2>2, KeepingIds
<1>6. ASSUME NEW a \in Actors, NEW id \in owned[a], NEW E, E \in {ClosingEffects(id), DrainEffects(id)},
             Starting(a, E), owned' = [owned EXCEPT ![a] = @ \ {id}]
      PROVE  IdsAreUnique' /\ IdsInv' /\ LimitInv' /\ PlainTypes' /\ SumsInv'
  <2>1. ~ Owes(ClosingEffects(id), "insert") /\ ~ Owes(DrainEffects(id), "insert")
    BY EffectsTable
  <2>2. \A d \in ClosingEffects(id) \union DrainEffects(id) : d.op = "remove" => d = Effect("remove", id)
    BY EffectFields DEF ClosingEffects, DrainEffects
  <2>3. Effect("remove", id) \in ClosingEffects(id) /\ Effect("remove", id) \in DrainEffects(id)
    BY DEF ClosingEffects, DrainEffects
  <2>4. ~ Owes(E, "insert") /\ Effect("remove", id) \in E /\ \A d \in E : d.op = "remove" => d = Effect("remove", id)
    BY <1>6, <2>1, <2>2, <2>3
  <2> QED
    BY <1>2, <1>6, <2>4, GivingIds
<1>7. CASE Resting \/ Load
  BY <1>7, StillIds DEF Resting, Load, callVars
<1> QED
  BY <1>1, <1>3, <1>4, <1>5, <1>6, <1>7 DEF Step, Closing, Draining

-----------------------------------------------------------------------------
(* The sample.                                                             *)

LEMMA PartTypes ==
  ASSUME IInv, NEW part \in Sampled
  PROVE  /\ Value(part) \in Nat
         /\ Cardinality(Raising(part)) \in Nat /\ Cardinality(Lowering(part)) \in Nat
         /\ High(part) \in Int /\ Low(part) \in Int
         /\ Low(part) <= View(part) /\ View(part) <= High(part) /\ View(part) \in Int
<1>1. Value(part) \in Nat
  BY RegistryRows DEF Value, Sampled, IInv, TypeOK, Counters
<1>2. Raising(part) \subseteq Actors /\ Lowering(part) \subseteq Actors
  BY DEF Raising, Lowering, Plus, Minus, Owing, OwingArg
<1>3. Cardinality(Raising(part)) \in Nat /\ Cardinality(Lowering(part)) \in Nat
  BY <1>2, ActorsFinite, FS_Subset, FS_CardinalityType
<1>4. part \in DOMAIN seen => seen[part] \in Int
  BY DEF IInv, SeenInv
<1> QED
  BY <1>1, <1>3, <1>4 DEF High, Low, View

\* SkewIsBounded follows.
LEMMA SkewFollows ==
  ASSUME IInv
  PROVE  SkewIsBounded
<1> SUFFICES ASSUME Reading PROVE /\ View("active") - View("rows") \in -overlap .. overlap
                                  /\ View("total") - View("successes") - View("active") \in -overlap .. overlap + drained
  BY DEF SkewIsBounded
<1>1. /\ High("active") - Low("rows") <= overlap
      /\ Low("active") - High("rows") >= -overlap
      /\ High("total") - Low("successes") - Low("active") <= overlap + drained
      /\ Low("total") - High("successes") - High("active") >= -overlap
      /\ overlap \in Nat /\ drained \in Nat
  BY DEF IInv, SkewInv, TypeOK
<1>2. \A part \in Sampled : /\ High(part) \in Int /\ Low(part) \in Int /\ View(part) \in Int
                            /\ Low(part) <= View(part) /\ View(part) <= High(part)
  BY PartTypes
<1>3. "active" \in Sampled /\ "rows" \in Sampled /\ "total" \in Sampled /\ "successes" \in Sampled
  BY DEF Sampled
<1> QED
  BY <1>1, <1>2, <1>3

\* An effect that is done brings the bounds no further apart.
LEMMA DoingNarrows ==
  ASSUME IInv, NEW a \in Actors, NEW e \in Debts(a), Doing(a, e), NEW part \in Sampled
  PROVE  High(part)' <= High(part) /\ Low(part) <= Low(part)' /\ High(part)' \in Int /\ Low(part)' \in Int
<1>1. seen' = seen
  BY DEF Doing, sampleVars
<1>2. CASE part \in DOMAIN seen
  BY <1>1, <1>2, PartTypes DEF High, Low
<1>3. CASE part \notin DOMAIN seen /\ part = "rows"
  <2>1. /\ High(part) = Cardinality(DOMAIN registry) + Pending("insert")
        /\ High(part)' = Cardinality(DOMAIN registry') + Pending("insert")'
        /\ Low(part) = Cardinality(DOMAIN registry) - Pending("remove")
        /\ Low(part)' = Cardinality(DOMAIN registry') - Pending("remove")'
    BY <1>1, <1>3 DEF High, Low, Value, Raising, Lowering, Pending
  <2>2. Cardinality(DOMAIN registry') = Cardinality(DOMAIN registry) + One(e.op = "insert") - One(e.op = "remove")
    BY DoingRows
  <2>3. \A op : Pending(op) \in Nat /\ Pending(op)' \in Nat /\ Pending(op)' = Pending(op) - One(e.op = op)
    BY DoingPending DEF IInv
  <2>4. Cardinality(DOMAIN registry) \in Nat
    BY RegistryRows
  <2> QED
    BY <2>1, <2>2, <2>3, <2>4 DEF One
<1>4. CASE part \notin DOMAIN seen /\ part # "rows"
  <2>1. part \in Owable
    BY <1>4 DEF Sampled, Owable
  <2> DEFINE p == Cardinality(OwingArg(part, 1))
             m == Cardinality(OwingArg(part, -1))
  <2>2. /\ High(part) = atomics[part] + p /\ High(part)' = atomics'[part] + p'
        /\ Low(part) = atomics[part] - m /\ Low(part)' = atomics'[part] - m'
    BY <1>1, <1>4 DEF High, Low, Value, Raising, Lowering, Plus, Minus
  <2>3. atomics'[part] = atomics[part] + IF e.op = part THEN e.arg ELSE 0
    BY <2>1, DoingDebts, ApplyAtomics DEF IInv, Doing
  <2>4. atomics[part] \in Nat
    BY <2>1 DEF IInv, TypeOK, Owable, Counters
  <2>5. /\ p \in Nat /\ m \in Nat /\ p' \in Nat /\ m' \in Nat
        /\ p' = p + One(Effect(part, 1) \in Debts(a) \ {e}) - One(Effect(part, 1) \in Debts(a))
        /\ m' = m + One(Effect(part, -1) \in Debts(a) \ {e}) - One(Effect(part, -1) \in Debts(a))
    BY OwingChange DEF Doing, Owed
  <2> HIDE DEF p, m
  <2>6. Effect(part, 1).arg = 1 /\ Effect(part, -1).arg = -1 /\ Effect(part, 1).op = part /\ Effect(part, -1).op = part
    BY EffectFields
  <2>7. p' = p - One(e = Effect(part, 1)) /\ m' = m - One(e = Effect(part, -1))
    BY <2>5 DEF One
  <2>8. CASE e.op = part
    <3>1. e.arg \in {1, -1} /\ e = Effect(part, e.arg)
      BY <2>1, <2>8, DoingDebts, LegalParts
    <3>2. CASE e.arg = 1
      <4>1. e = Effect(part, 1) /\ e # Effect(part, -1)
        BY <2>6, <3>1, <3>2
      <4> QED
        BY <2>2, <2>3, <2>4, <2>5, <2>7, <2>8, <3>2, <4>1 DEF One
    <3>3. CASE e.arg = -1
      <4>1. e = Effect(part, -1) /\ e # Effect(part, 1)
        BY <2>6, <3>1, <3>3
      <4> QED
        BY <2>2, <2>3, <2>4, <2>5, <2>7, <2>8, <3>3, <4>1 DEF One
    <3> QED
      BY <3>1, <3>2, <3>3
  <2>9. CASE e.op # part
    <3>1. e # Effect(part, 1) /\ e # Effect(part, -1)
      BY <2>6, <2>9
    <3> QED
      BY <2>2, <2>3, <2>4, <2>5, <2>7, <2>9, <3>1 DEF One
  <2> QED
    BY <2>8, <2>9
<1> QED
  BY <1>2, <1>3, <1>4

Raises(E, part) == IF part = "rows" THEN Owes(E, "insert") ELSE Effect(part, 1) \in E
Lowers(E, part) == IF part = "rows" THEN Owes(E, "remove") ELSE Effect(part, -1) \in E

\* A call that begins widens them by what it will do.
LEMMA StartingWidens ==
  ASSUME IInv, NEW a \in Actors, NEW E, Starting(a, E), NEW part \in Sampled
  PROVE  /\ High(part)' \in Int /\ Low(part)' \in Int
         /\ High(part)' <= High(part) + One(Raises(E, part))
         /\ Low(part) - One(Lowers(E, part)) <= Low(part)'
<1>1. seen' = seen /\ Value(part)' = Value(part)
  BY DEF Starting, Value
<1>2. Debts(a) = {} /\ Debts(a)' = E /\ \A b \in Actors : b # a => Debts(b)' = Debts(b)
  BY DEF Starting, Owed
<1>3. Value(part) \in Nat /\ High(part) \in Int /\ Low(part) \in Int
  BY PartTypes
<1>4. CASE part \in DOMAIN seen
  BY <1>1, <1>3, <1>4 DEF High, Low, One
<1>5. CASE part \notin DOMAIN seen /\ part = "rows"
  <2>1. \A op : Pending(op) \in Nat /\ Pending(op)' = Pending(op) + One(Owes(E, op))
    BY StartingCounts DEF IInv
  <2>2. /\ High(part) = Value(part) + Pending("insert") /\ High(part)' = Value(part) + Pending("insert")'
        /\ Low(part) = Value(part) - Pending("remove") /\ Low(part)' = Value(part) - Pending("remove")'
    BY <1>1, <1>5 DEF High, Low, Raising, Lowering, Pending
  <2> QED
    BY <1>3, <1>5, <2>1, <2>2 DEF One, Raises, Lowers
<1>6. CASE part \notin DOMAIN seen /\ part # "rows"
  <2> DEFINE p == Cardinality(OwingArg(part, 1))
             m == Cardinality(OwingArg(part, -1))
  <2>1. /\ High(part) = Value(part) + p /\ High(part)' = Value(part) + p'
        /\ Low(part) = Value(part) - m /\ Low(part)' = Value(part) - m'
    BY <1>1, <1>6 DEF High, Low, Raising, Lowering, Plus, Minus
  <2>2. /\ p \in Nat /\ m \in Nat /\ p' \in Nat /\ m' \in Nat
        /\ p' = p + One(Effect(part, 1) \in Debts(a)') - One(Effect(part, 1) \in Debts(a))
        /\ m' = m + One(Effect(part, -1) \in Debts(a)') - One(Effect(part, -1) \in Debts(a))
    BY <1>2, OwingChange
  <2> HIDE DEF p, m
  <2>3. p' = p + One(Effect(part, 1) \in E) /\ m' = m + One(Effect(part, -1) \in E)
    BY <1>2, <2>2 DEF One
  <2> QED
    BY <1>3, <1>6, <2>1, <2>2, <2>3 DEF One, Raises, Lowers
<1> QED
  BY <1>4, <1>5, <1>6

\* A call that the sampler can tell is one that it overlaps.
LEMMA StartingSkew ==
  ASSUME IInv, NEW a \in Actors, NEW E, Starting(a, E), NEW v \in {0, 1}, drained' \in Nat, drained' >= drained,
         overlap' = overlap + One(Reading /\ v = 1),
         One(Raises(E, "active")) + One(Lowers(E, "rows")) <= v,
         One(Lowers(E, "active")) + One(Raises(E, "rows")) <= v,
         One(Raises(E, "total")) + One(Lowers(E, "successes")) + One(Lowers(E, "active")) <= v,
         One(Lowers(E, "total")) + One(Raises(E, "successes")) + One(Raises(E, "active")) <= v
  PROVE  SkewInv'
<1> SUFFICES ASSUME Reading'
             PROVE  /\ High("active")' - Low("rows")' <= overlap'
                    /\ Low("active")' - High("rows")' >= -overlap'
                    /\ High("total")' - Low("successes")' - Low("active")' <= overlap' + drained'
                    /\ Low("total")' - High("successes")' - High("active")' >= -overlap'
  BY DEF SkewInv
<1>1. Reading /\ overlap' = overlap + v /\ overlap \in Nat /\ drained \in Nat
  BY DEF Reading, Starting, One, IInv, TypeOK
<1>2. /\ High("active") - Low("rows") <= overlap
      /\ Low("active") - High("rows") >= -overlap
      /\ High("total") - Low("successes") - Low("active") <= overlap + drained
      /\ Low("total") - High("successes") - High("active") >= -overlap
  BY <1>1 DEF IInv, SkewInv
<1> DEFINE up(part) == One(Raises(E, part))
           down(part) == One(Lowers(E, part))
<1>3. \A part \in Sampled :
        /\ High(part)' \in Int /\ Low(part)' \in Int /\ High(part) \in Int /\ Low(part) \in Int
        /\ High(part)' <= High(part) + up(part)
        /\ Low(part) - down(part) <= Low(part)'
        /\ up(part) \in Nat /\ down(part) \in Nat
  BY StartingWidens, PartTypes DEF One
<1>4. /\ up("active") + down("rows") <= v /\ down("active") + up("rows") <= v
      /\ up("total") + down("successes") + down("active") <= v
      /\ down("total") + up("successes") + up("active") <= v
  OBVIOUS
<1>5. "active" \in Sampled /\ "rows" \in Sampled /\ "total" \in Sampled /\ "successes" \in Sampled
  BY DEF Sampled
<1> HIDE DEF up, down
<1>6. High("active")' - Low("rows")' <= overlap'
  BY <1>1, <1>2, <1>3, <1>4, <1>5
<1>7. Low("active")' - High("rows")' >= -overlap'
  BY <1>1, <1>2, <1>3, <1>4, <1>5
<1>8. High("total")' - Low("successes")' - Low("active")' <= overlap' + drained'
  BY <1>1, <1>2, <1>3, <1>4, <1>5
<1>9. Low("total")' - High("successes")' - High("active")' >= -overlap'
  BY <1>1, <1>2, <1>3, <1>4, <1>5
<1> QED
  BY <1>6, <1>7, <1>8, <1>9

LEMMA CallSkew ==
  ASSUME IInv, NEW a \in Actors, NEW id, NEW code,
         Opening(a) \/ Erring(a, code) \/ Moving(a, id) \/ Closing(a, id) \/ Draining(a, id)
  PROVE  SkewInv'
<1>1. drained \in Nat
  BY DEF IInv, TypeOK
<1>2. \A E : Starting(a, E) => overlap' = overlap + One(Reading /\ \E e \in E : e.op \in Visible)
  BY DEF Starting
<1>3. \A E, op : Owes(E, op) /\ op \in Visible => \E e \in E : e.op \in Visible
  BY DEF Owes
<1>4. \A E : (\E e \in E : e.op \in Visible) => \E op \in Visible : Owes(E, op)
  BY DEF Owes
<1>5. "active" \in Visible /\ \A op \in {"failures", "bucket", "bytes", "row"} : op \notin Visible
  BY DEF Visible
<1>6. CASE Opening(a)
  <2>1. Starting(a, OpeningEffects) /\ drained' = drained
    BY <1>6 DEF Opening
  <2>2. overlap' = overlap + One(Reading /\ 1 = 1)
    BY <1>2, <1>3, <1>5, <2>1, EffectsTable
  <2> QED
    BY <1>1, <2>1, <2>2, EffectsTable, StartingSkew DEF One, Owable, Raises, Lowers
<1>7. CASE Erring(a, code)
  <2>1. Starting(a, ErrorEffects(code)) /\ drained' = drained
    BY <1>7 DEF Erring
  <2>2. overlap' = overlap + One(Reading /\ 0 = 1)
    BY <1>2, <1>4, <1>5, <2>1, EffectsTable DEF One
  <2> QED
    BY <1>1, <2>1, <2>2, EffectsTable, StartingSkew DEF One, Owable, Raises, Lowers
<1>8. CASE Moving(a, id)
  <2>1. Starting(a, ByteEffects(id)) /\ drained' = drained
    BY <1>8 DEF Moving
  <2>2. overlap' = overlap + One(Reading /\ 0 = 1)
    BY <1>2, <1>4, <1>5, <2>1, EffectsTable DEF One
  <2> QED
    BY <1>1, <2>1, <2>2, EffectsTable, StartingSkew DEF One, Owable, Raises, Lowers
<1>9. CASE Closing(a, id)
  <2>1. Starting(a, ClosingEffects(id)) /\ drained' = drained
    BY <1>9 DEF Closing
  <2>2. overlap' = overlap + One(Reading /\ 1 = 1)
    BY <1>2, <1>3, <1>5, <2>1, EffectsTable
  <2> QED
    BY <1>1, <2>1, <2>2, EffectsTable, StartingSkew DEF One, Owable, Raises, Lowers
<1>10. CASE Draining(a, id)
  <2>1. Starting(a, DrainEffects(id)) /\ drained' = drained + 1
    BY <1>10 DEF Draining
  <2>2. overlap' = overlap + One(Reading /\ 1 = 1)
    BY <1>2, <1>3, <1>5, <2>1, EffectsTable
  <2> DEFINE E == DrainEffects(id)
  <2>3. /\ \A part \in Sampled : ~ Raises(E, part)
        /\ ~ Lowers(E, "total") /\ ~ Lowers(E, "successes")
    BY EffectsTable DEF Owable, Raises, Lowers, Sampled
  <2> HIDE DEF E
  <2>4. /\ One(Raises(E, "active")) + One(Lowers(E, "rows")) <= 1
        /\ One(Lowers(E, "active")) + One(Raises(E, "rows")) <= 1
        /\ One(Raises(E, "total")) + One(Lowers(E, "successes")) + One(Lowers(E, "active")) <= 1
        /\ One(Lowers(E, "total")) + One(Raises(E, "successes")) + One(Raises(E, "active")) <= 1
    BY <2>3 DEF One, Sampled
  <2>5. drained' \in Nat /\ drained' >= drained
    BY <1>1, <2>1
  <2> QED
    BY <2>1, <2>2, <2>4, <2>5, StartingSkew DEF E
<1> QED
  BY <1>6, <1>7, <1>8, <1>9, <1>10

\* Two kinds of debts that no call has together are owed by no more actors than there
\* are calls in progress.
LEMMA OngoingCovers ==
  ASSUME NEW S, NEW T, S \subseteq Owing(Visible), T \subseteq Owing(Visible), S \intersect T = {}
  PROVE  Cardinality(S) + Cardinality(T) <= Ongoing /\ Ongoing \in Nat
<1>1. IsFiniteSet(Owing(Visible))
  <2>1. Owing(Visible) \subseteq Actors
    BY DEF Owing
  <2> QED
    BY <2>1, ActorsFinite, FS_Subset
<1>2. IsFiniteSet(S) /\ IsFiniteSet(T)
  BY <1>1, FS_Subset
<1>3. Cardinality(S \cup T) = Cardinality(S) + Cardinality(T) - Cardinality(S \cap T)
  BY <1>2, FS_Union
<1>4. Cardinality(S \cap T) = 0
  BY FS_EmptySet
<1>5. Cardinality(S \cup T) <= Cardinality(Owing(Visible))
  <2>1. S \cup T \subseteq Owing(Visible)
    OBVIOUS
  <2> QED
    BY <1>1, <2>1, FS_Subset
<1>6. Cardinality(S) \in Nat /\ Cardinality(T) \in Nat /\ Cardinality(Owing(Visible)) \in Nat
  BY <1>1, <1>2, FS_CardinalityType
<1> QED
  BY <1>3, <1>4, <1>5, <1>6 DEF Ongoing

\* What is owed to the parts of a sample, by the calls in progress.
LEMMA OngoingDebts ==
  ASSUME IInv
  PROVE  /\ Pending("insert") + Cardinality(Minus("active")) <= Ongoing
         /\ Pending("remove") + Cardinality(Plus("active")) <= Ongoing
         /\ Cardinality(Plus("active")) + Cardinality(Plus("successes")) <= Ongoing
         /\ Cardinality(Plus("total")) + Cardinality(Minus("active")) <= Ongoing
         /\ Cardinality(Minus("total")) = 0 /\ Cardinality(Minus("successes")) = 0
         /\ Ongoing \in Nat
<1> DEFINE I == Owing({"insert"})
           R == Owing({"remove"})
           AP == Plus("active")
           AM == Minus("active")
           SP == Plus("successes")
           TP == Plus("total")
<1>1. I \subseteq Owing(Visible) /\ R \subseteq Owing(Visible)
  BY DEF Owing, Visible
<1>2. \A c \in {"active", "successes", "total"} : \A x : OwingArg(c, x) \subseteq Owing(Visible)
  BY EffectFields DEF Owing, OwingArg, Visible
<1>3. AP \subseteq Owing(Visible) /\ AM \subseteq Owing(Visible) /\ SP \subseteq Owing(Visible) /\ TP \subseteq Owing(Visible)
  BY <1>2 DEF Plus, Minus
<1>4. ASSUME NEW a \in Actors
      PROVE  /\ a \in I \union AP \union TP => a \notin R \union AM \union SP
             /\ a \notin Minus("total") /\ a \notin Minus("successes")
  <2>1. DebtShape(Debts(a))
    BY DebtsShape DEF IInv
  <2>2. /\ a \in I <=> Owes(Debts(a), "insert")
        /\ a \in R <=> Owes(Debts(a), "remove")
    BY OwingDebts
  <2>3. /\ a \in AP <=> Effect("active", 1) \in Debts(a)
        /\ a \in AM <=> Effect("active", -1) \in Debts(a)
        /\ a \in SP <=> Effect("successes", 1) \in Debts(a)
        /\ a \in TP <=> Effect("total", 1) \in Debts(a)
        /\ a \in Minus("total") <=> Effect("total", -1) \in Debts(a)
        /\ a \in Minus("successes") <=> Effect("successes", -1) \in Debts(a)
    BY OwingDebts DEF Plus, Minus
  <2>4. Effect("active", 1) \in BeforeInsert /\ Effect("total", 1) \in BeforeInsert /\ Effect("active", -1) \in BeforeRemove
    BY DEF BeforeInsert, BeforeRemove
  <2>5. /\ a \in AP \union TP => a \in I
        /\ a \in AM => a \in R
    BY <2>1, <2>2, <2>3, <2>4 DEF DebtShape
  <2>6. a \in SP => Owes(Debts(a), "successes")
    BY <2>3, EffectFields DEF Owes
  <2>7. a \in I => a \notin R /\ a \notin SP
    BY <2>1, <2>2, <2>6 DEF DebtShape
  <2>8. ~ Legal(Effect("total", -1)) /\ ~ Legal(Effect("successes", -1))
    BY EffectFields DEF Legal
  <2>9. a \notin Minus("total") /\ a \notin Minus("successes")
    BY <2>1, <2>3, <2>8 DEF DebtShape
  <2> HIDE DEF I, R, AP, AM, SP, TP
  <2> QED
    BY <2>5, <2>7, <2>9
<1>5. /\ I \subseteq Actors /\ R \subseteq Actors /\ AP \subseteq Actors /\ TP \subseteq Actors
      /\ Minus("total") \subseteq Actors /\ Minus("successes") \subseteq Actors
  BY DEF Owing, OwingArg, Plus, Minus
<1>6. Minus("total") = {} /\ Minus("successes") = {}
  BY <1>4, <1>5
<1>7. I \intersect AM = {} /\ AP \intersect R = {} /\ AP \intersect SP = {} /\ TP \intersect AM = {}
  <2> HIDE DEF I, R, AP, AM, SP, TP
  <2> QED
    BY <1>4, <1>5
<1>8. Pending("insert") = Cardinality(I) /\ Pending("remove") = Cardinality(R)
  BY DEF Pending
<1> HIDE DEF I, R, AP, AM, SP, TP
<1>9. /\ Cardinality(I) + Cardinality(AM) <= Ongoing /\ Ongoing \in Nat
      /\ Cardinality(AP) + Cardinality(R) <= Ongoing
      /\ Cardinality(AP) + Cardinality(SP) <= Ongoing
      /\ Cardinality(TP) + Cardinality(AM) <= Ongoing
  BY <1>1, <1>3, <1>7, OngoingCovers
<1>10. Cardinality(AP) \in Nat /\ Cardinality(R) \in Nat
  BY <1>5, ActorsFinite, FS_Subset, FS_CardinalityType
<1>11. Cardinality(R) + Cardinality(AP) <= Ongoing
  BY <1>9, <1>10
<1> QED
  BY <1>6, <1>8, <1>9, <1>11, FS_EmptySet DEF AP, AM, SP, TP

\* A sample that is about to begin: the books say what its parts can be.
LEMMA FirstLoad ==
  ASSUME IInv, ~ Reading
  PROVE  /\ High("active") - Low("rows") <= Ongoing
         /\ Low("active") - High("rows") >= -Ongoing
         /\ High("total") - Low("successes") - Low("active") <= Ongoing + drained
         /\ Low("total") - High("successes") - High("active") >= -Ongoing
<1>1. \A part : part \notin DOMAIN seen
  BY DEF Reading
<1> DEFINE p(c) == Cardinality(Plus(c))
           m(c) == Cardinality(Minus(c))
           rows == Cardinality(DOMAIN registry)
<1>2. /\ High("rows") = rows + Pending("insert") /\ Low("rows") = rows - Pending("remove")
      /\ High("active") = atomics["active"] + p("active") /\ Low("active") = atomics["active"] - m("active")
      /\ High("total") = atomics["total"] + p("total") /\ Low("total") = atomics["total"] - m("total")
      /\ High("successes") = atomics["successes"] + p("successes")
      /\ Low("successes") = atomics["successes"] - m("successes")
  BY <1>1 DEF High, Low, Value, Raising, Lowering, Pending
<1>3. /\ atomics["active"] + p("active") - m("active") = rows + Pending("insert") - Pending("remove")
      /\ atomics["total"] + p("total") - m("total")
           = (atomics["active"] + p("active") - m("active")) + (atomics["successes"] + p("successes") - m("successes")) + drained
  BY DEF IInv, BooksBalance, Settled, Plus, Minus
<1>4. /\ atomics["active"] \in Nat /\ atomics["total"] \in Nat /\ atomics["successes"] \in Nat
      /\ rows \in Nat /\ drained \in Nat
  BY RegistryRows DEF IInv, TypeOK, Counters
<1>5. \A c \in Sampled \ {"rows"} : p(c) \in Nat /\ m(c) \in Nat
  BY PartTypes DEF Raising, Lowering
<1>6. "active" \in Sampled \ {"rows"} /\ "total" \in Sampled \ {"rows"} /\ "successes" \in Sampled \ {"rows"}
  BY DEF Sampled
<1>7. Pending("insert") \in Nat /\ Pending("remove") \in Nat
  BY OwedSizes
<1>8. /\ Pending("insert") + m("active") <= Ongoing
      /\ Pending("remove") + p("active") <= Ongoing
      /\ p("active") + p("successes") <= Ongoing
      /\ p("total") + m("active") <= Ongoing
      /\ m("total") = 0 /\ m("successes") = 0 /\ Ongoing \in Nat
  BY OngoingDebts
<1> HIDE DEF p, m, rows
<1> QED
  BY <1>2, <1>3, <1>4, <1>5, <1>6, <1>7, <1>8

LEMMA LoadSkew ==
  ASSUME IInv, Load
  PROVE  SkewInv' /\ SeenInv' /\ overlap' \in Nat /\ DOMAIN seen' \subseteq Sampled
<1>1. UNCHANGED <<atomics, registry, todo, drained>>
  BY DEF Load, callVars
<1>2. PICK part \in Sampled \ DOMAIN seen :
        IF DOMAIN seen \union {part} = Sampled
          THEN seen' = <<>> /\ overlap' = 0
          ELSE /\ seen' = With(seen, part, Value(part))
               /\ overlap' = IF Reading THEN overlap ELSE Ongoing
  BY DEF Load
<1>3. DOMAIN seen \subseteq Sampled /\ overlap \in Nat /\ drained \in Nat
  BY DEF IInv, TypeOK
<1>4. Ongoing \in Nat
  BY OngoingDebts
<1>5. CASE DOMAIN seen \union {part} = Sampled
  <2>1. seen' = <<>> /\ overlap' = 0
    BY <1>2, <1>5
  <2>2. DOMAIN seen' = {}
    BY <2>1
  <2> QED
    BY <2>1, <2>2 DEF SkewInv, SeenInv, Reading
<1>6. CASE DOMAIN seen \union {part} # Sampled
  <2>1. seen' = With(seen, part, Value(part)) /\ overlap' = IF Reading THEN overlap ELSE Ongoing
    BY <1>2, <1>6
  <2>2. /\ DOMAIN seen' = DOMAIN seen \union {part} /\ seen'[part] = Value(part)
        /\ \A q \in DOMAIN seen : seen'[q] = seen[q]
    BY <1>2, <2>1 DEF With
  <2>3. Value(part) \in Int
    BY PartTypes
  <2>4. SeenInv'
    BY <2>2, <2>3 DEF IInv, SeenInv
  <2>5. overlap' \in Nat /\ DOMAIN seen' \subseteq Sampled
    BY <1>2, <1>3, <1>4, <2>1, <2>2
  <2>6. ASSUME NEW q \in Sampled
        PROVE  High(q)' <= High(q) /\ Low(q) <= Low(q)' /\ {High(q)', Low(q)', High(q), Low(q)} \subseteq Int
    <3>1. Value(q)' = Value(q) /\ Raising(q)' = Raising(q) /\ Lowering(q)' = Lowering(q)
      BY <1>1 DEF Value, Raising, Lowering, Plus, Minus, Owing, OwingArg
    <3>2. /\ Value(q) \in Nat /\ Cardinality(Raising(q)) \in Nat /\ Cardinality(Lowering(q)) \in Nat
          /\ High(q) \in Int /\ Low(q) \in Int
      BY PartTypes
    <3>3. CASE q \in DOMAIN seen
      <4>1. High(q)' = High(q) /\ Low(q)' = Low(q)
        BY <2>2, <3>3 DEF High, Low
      <4> QED
        BY <3>2, <4>1
    <3>4. CASE q = part
      <4>1. High(q)' = Value(q) /\ Low(q)' = Value(q)
        BY <2>2, <3>4 DEF High, Low
      <4>2. High(q) = Value(q) + Cardinality(Raising(q)) /\ Low(q) = Value(q) - Cardinality(Lowering(q))
        BY <1>2, <3>4 DEF High, Low
      <4> QED
        BY <3>2, <4>1, <4>2
    <3>5. CASE q \notin DOMAIN seen /\ q # part
      <4>1. q \notin DOMAIN seen'
        BY <2>2, <3>5
      <4>2. High(q)' = High(q) /\ Low(q)' = Low(q)
        BY <3>1, <3>5, <4>1 DEF High, Low
      <4> QED
        BY <3>2, <4>2
    <3> QED
      BY <3>3, <3>4, <3>5
  <2>7. /\ High("active") - Low("rows") <= overlap'
        /\ Low("active") - High("rows") >= -overlap'
        /\ High("total") - Low("successes") - Low("active") <= overlap' + drained
        /\ Low("total") - High("successes") - High("active") >= -overlap'
    <3>1. CASE Reading
      BY <2>1, <3>1 DEF IInv, SkewInv
    <3>2. CASE ~ Reading
      BY <2>1, <3>2, FirstLoad
    <3> QED
      BY <3>1, <3>2
  <2>8. "active" \in Sampled /\ "rows" \in Sampled /\ "total" \in Sampled /\ "successes" \in Sampled
    BY DEF Sampled
  <2>9. /\ High("active")' - Low("rows")' <= overlap'
        /\ Low("active")' - High("rows")' >= -overlap'
        /\ High("total")' - Low("successes")' - Low("active")' <= overlap' + drained'
        /\ Low("total")' - High("successes")' - High("active")' >= -overlap'
    BY <1>1, <1>3, <2>5, <2>6, <2>7, <2>8
  <2> QED
    BY <2>4, <2>5, <2>9 DEF SkewInv
<1> QED
  BY <1>5, <1>6

LEMMA StepSkew ==
  ASSUME IInv, Step
  PROVE  SkewInv' /\ SeenInv' /\ overlap' \in Nat /\ DOMAIN seen' \subseteq Sampled
<1>1. overlap \in Nat /\ DOMAIN seen \subseteq Sampled /\ SeenInv /\ SkewInv
  BY DEF IInv, TypeOK
<1>2. ASSUME UNCHANGED seen PROVE SeenInv' /\ DOMAIN seen' \subseteq Sampled
  BY <1>1, <1>2 DEF SeenInv
<1>3. ASSUME NEW a \in Actors, NEW e \in Debts(a), Doing(a, e)
      PROVE  SkewInv' /\ overlap' \in Nat /\ UNCHANGED seen
  <2>1. seen' = seen /\ overlap' = overlap /\ drained' = drained /\ overlap \in Nat /\ drained \in Nat
    BY <1>1, <1>3 DEF Doing, sampleVars, IInv, TypeOK
  <2>2. \A part \in Sampled : /\ High(part)' <= High(part) /\ Low(part) <= Low(part)'
                              /\ {High(part)', Low(part)', High(part), Low(part)} \subseteq Int
    BY <1>3, DoingNarrows, PartTypes
  <2>3. "active" \in Sampled /\ "rows" \in Sampled /\ "total" \in Sampled /\ "successes" \in Sampled
    BY DEF Sampled
  <2>4. Reading' <=> Reading
    BY <2>1 DEF Reading
  <2>5. Reading => /\ High("active")' - Low("rows")' <= overlap'
                   /\ Low("active")' - High("rows")' >= -overlap'
                   /\ High("total")' - Low("successes")' - Low("active")' <= overlap' + drained'
                   /\ Low("total")' - High("successes")' - High("active")' >= -overlap'
    <3> SUFFICES ASSUME Reading
                 PROVE  /\ High("active")' - Low("rows")' <= overlap'
                        /\ Low("active")' - High("rows")' >= -overlap'
                        /\ High("total")' - Low("successes")' - Low("active")' <= overlap' + drained'
                        /\ Low("total")' - High("successes")' - High("active")' >= -overlap'
      OBVIOUS
    <3>1. /\ High("active") - Low("rows") <= overlap
          /\ Low("active") - High("rows") >= -overlap
          /\ High("total") - Low("successes") - Low("active") <= overlap + drained
          /\ Low("total") - High("successes") - High("active") >= -overlap
      BY <1>1 DEF SkewInv
    <3> QED
      BY <2>1, <2>2, <2>3, <3>1
  <2> QED
    BY <2>1, <2>4, <2>5 DEF SkewInv
<1>4. ASSUME NEW a \in Actors, NEW E, Starting(a, E) PROVE UNCHANGED seen /\ overlap' \in Nat
  BY <1>1, <1>4 DEF Starting, One
<1>5. CASE Resting
  <2>1. UNCHANGED <<atomics, registry, todo, drained, seen, overlap>>
    BY <1>5 DEF Resting, sampleVars
  <2>2. \A part : High(part)' = High(part) /\ Low(part)' = Low(part)
    BY <2>1 DEF High, Low, Value, Raising, Lowering, Plus, Minus, Owing, OwingArg
  <2>3. SkewInv'
    BY <1>1, <2>1, <2>2 DEF SkewInv, Reading
  <2> QED
    BY <1>1, <1>2, <2>1, <2>3
<1>6. CASE \E a \in Actors : \E e \in Debts(a) : Doing(a, e)
  BY <1>2, <1>3, <1>6
<1>7. CASE \E a \in Actors : Opening(a)
  BY <1>2, <1>4, <1>7, CallSkew DEF Opening
<1>8. CASE \E a \in Actors, code \in Codes : Erring(a, code)
  BY <1>2, <1>4, <1>8, CallSkew DEF Erring
<1>9. CASE \E a \in Actors : \E id \in owned[a] : Moving(a, id) \/ Closing(a, id) \/ Draining(a, id)
  BY <1>2, <1>4, <1>9, CallSkew DEF Moving, Closing, Draining
<1> QED
  BY <1>5, <1>6, <1>7, <1>8, <1>9, LoadSkew DEF Step

-----------------------------------------------------------------------------
(* Theorems.                                                               *)

LEMMA InitIInv ==
  ASSUME Init
  PROVE  IInv
<1>1. \A a \in Actors : /\ DOMAIN todo[a] = {} /\ Debts(a) = {} /\ owned[a] = {} /\ new[a] = 0
                        /\ Leaving(a) = {}
  BY DEF Init, Debts, EffectsOf, Leaving
<1>2. /\ DOMAIN todo = Actors /\ DOMAIN registry = {} /\ DOMAIN seen = {} /\ registry = <<>>
      /\ atomics = [c \in Counters |-> IF c = "next_id" THEN 1 ELSE 0]
      /\ buckets = [c \in 0 .. 8 |-> 0] /\ drained = 0 /\ overlap = 0
      /\ new \in [Actors -> Nat] /\ DOMAIN owned = Actors /\ phase = "open"
  BY DEF Init
<1>3. Calls
  BY <1>1, <1>2 DEF Calls, CallShape
<1>4. Cardinality({}) = 0 /\ IsFiniteSet({})
  BY FS_EmptySet
<1>5. atomics["next_id"] = 1 /\ \A c \in Owable : atomics[c] = 0
  BY <1>2 DEF Counters, Owable
<1>6. \A op, arg : Owing({op}) = {} /\ OwingArg(op, arg) = {}
  BY <1>1 DEF Owing, OwingArg
<1>7. Units(registry) = {} /\ Units(buckets) = {}
  BY <1>2 DEF Units
<1>8. TypeOK
  <2>1. atomics \in [Counters -> Nat] /\ buckets \in [0 .. 8 -> Nat] /\ registry \in [DOMAIN registry -> Nat]
    BY <1>2
  <2>2. \A a \in Actors : Cardinality(owned[a]) = 0 /\ owned[a] \subseteq 1 .. atomics["next_id"] - 1
    BY <1>1, <1>4
  <2>3. Cardinality(owned[Mock]) <= MAX_ACTIVE /\ \A t \in Tasks : Cardinality(owned[t]) <= 1
    BY <2>2, MetricsAssumption DEF Actors
  <2> QED
    BY <1>2, <2>1, <2>2, <2>3 DEF TypeOK
<1>9. BooksBalance
  <2>1. \A op : Pending(op) = 0
    BY <1>4, <1>6 DEF Pending
  <2>2. \A c \in Owable : Settled(c) = 0
    BY <1>4, <1>5, <1>6 DEF Settled
  <2>3. Total(registry) = 0 /\ Total(buckets) = 0 /\ Cardinality(DOMAIN registry) = 0
    BY <1>2, <1>4, <1>7 DEF Total
  <2> QED
    BY <1>2, <1>5, <2>1, <2>2, <2>3 DEF BooksBalance, Owable
<1>10. IdsAreUnique
  BY <1>1, <1>2 DEF IdsAreUnique
<1>11. IdsInv
  BY <1>1, <1>2, <1>5 DEF IdsInv, Owes
<1>12. LimitInv
  BY <1>1, <1>4, LimitType DEF LimitInv, One, Owes
<1>13. SumsInv
  BY <1>4, <1>7 DEF SumsInv
<1>14. SeenInv /\ SkewInv
  BY <1>2 DEF SeenInv, SkewInv, Reading
<1> QED
  BY <1>3, <1>8, <1>9, <1>10, <1>11, <1>12, <1>13, <1>14 DEF IInv

LEMMA StepIInv ==
  ASSUME IInv, [Next]_vars
  PROVE  IInv'
<1>1. Step
  BY NextIsStep
<1>2. Calls'
  BY <1>1, StepCalls DEF IInv
<1>3. BooksBalance' /\ drained' \in Nat
  BY <1>1, StepBooks
<1>4. IdsAreUnique' /\ IdsInv' /\ LimitInv' /\ PlainTypes' /\ SumsInv'
  BY <1>1, StepIds
<1>5. SkewInv' /\ SeenInv' /\ overlap' \in Nat /\ DOMAIN seen' \subseteq Sampled
  BY <1>1, StepSkew
<1>6. phase' \in {"open", "bytes", "close", "error", "drain", "gone"}
  BY PhaseStep DEF IInv
<1>7. TypeOK'
  BY <1>3, <1>4, <1>5, <1>6, TypeFromParts
<1> QED
  BY <1>2, <1>3, <1>4, <1>5, <1>7 DEF IInv

LEMMA Invariance == Spec => []IInv
BY InitIInv, StepIInv, PTL DEF Spec

\* The counters, the histogram and the registry of metrics.rs, for any number of threads:
\* no counter falls below zero, each difference between two of them is what the calls in
\* progress still have to do, and no two live connections share an id.
THEOREM BooksAndIds == Spec => []MetricsInv
<1>1. IInv => MetricsInv
  BY DEF IInv, MetricsInv
<1> QED
  BY <1>1, Invariance, PTL

\* A sample of the counters, however torn, is no more wrong than the calls that it
\* overlapped, for any number of threads and any order of its loads.
THEOREM SkewBounded == Spec => []SkewIsBounded
<1>1. IInv => SkewIsBounded
  BY SkewFollows
<1> QED
  BY <1>1, Invariance, PTL
=============================================================================
