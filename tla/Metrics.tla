------------------------------ MODULE Metrics -------------------------------
(***************************************************************************)
(* The shared counters of src/src/metrics.rs at the grain of their atomic  *)
(* operations, with those who call them: connection tasks of the server,   *)
(* the synthetic generator of src/src/mock.rs that --mock runs beside      *)
(* them, and a sampler (the dashboard or an attach session).               *)
(*                                                                         *)
(* A call is a list of effects, each on one atomic or, under the mutex, on *)
(* the registry.  The atomics are Relaxed: effects of one call may become  *)
(* visible in any order, but the lock of the registry is a barrier.  The   *)
(* two byte counters are handled alike; bytes is either.                   *)
(***************************************************************************)
EXTENDS Integers, FiniteSets, Sequences

CONSTANTS
  Tasks,       \* connection tasks of the server
  Mock,        \* the generator
  MAX_ACTIVE,  \* its limit of open connections
  Codes,       \* reply codes an error may have
  MaxIds,      \* bound: registrations
  MaxBytes,    \* bound: calls of add_up
  MaxErrors    \* bound: failures

ASSUME MetricsAssumption ==
  /\ IsFiniteSet(Tasks) /\ Mock \notin Tasks
  /\ Codes \subseteq 1 .. 8
  /\ {MAX_ACTIVE, MaxIds, MaxBytes, MaxErrors} \subseteq Nat \ {0}

Actors == Tasks \union {Mock}

VARIABLES
  atomics,   \* the counters next_id, total, active, successes, failures, bytes
  buckets,   \* error_codes
  registry,  \* id -> bytes of that connection
  todo,      \* the effects an actor still has to do, by their place in its call
  new,       \* the local id of an actor's register until it returns, or 0
  owned,     \* the ids an actor holds
  phase,     \* where the generator is in its tick, or in its drain
  served,    \* the connections the generator has moved bytes for in this tick
  drained,   \* connections the drain unregistered (history)
  seen,      \* what the sampler has read (history)
  overlap    \* how many calls the sampler overlapped (history)

callVars == <<new, owned, phase, served, drained>>
sampleVars == <<seen, overlap>>
vars == <<atomics, buckets, registry, todo, callVars, sampleVars>>

Counters == {"next_id", "total", "active", "successes", "failures", "bytes"}

Init ==
  /\ atomics = [c \in Counters |-> IF c = "next_id" THEN 1 ELSE 0]
  /\ buckets = [c \in 0 .. 8 |-> 0]
  /\ registry = <<>>
  /\ todo = [a \in Actors |-> <<>>]
  /\ new = [a \in Actors |-> 0]
  /\ owned = [a \in Actors |-> {}]
  /\ phase = "open"
  /\ served = {}
  /\ drained = 0
  /\ seen = <<>>
  /\ overlap = 0

-----------------------------------------------------------------------------
(* Calls.  An effect is an operation and its argument.                     *)

Effect(op, arg) == [op |-> op, arg |-> arg]

register == <<Effect("take_id", 0), Effect("total", 1), Effect("active", 1), Effect("insert", 0)>>

\* Variant: the active count is left alone.
unregister_forgets(id) == <<Effect("remove", id)>>

unregister(id) == <<Effect("active", -1), Effect("remove", id)>>

record_success == <<Effect("successes", 1)>>

add_bytes(id) == <<Effect("bytes", 1), Effect("row", id)>>

record_error(code) == <<Effect("failures", 1), Effect("bucket", code)>>

Locks == {"insert", "remove", "row"}

\* The first effect that is left is always next; what is not behind a lock may be early.
Ready(a) ==
  {k \in DOMAIN todo[a] :
     \/ \A j \in DOMAIN todo[a] : k <= j
     \/ \A j \in DOMAIN todo[a] : j <= k => todo[a][j].op \notin Locks}

-----------------------------------------------------------------------------
(* One effect.                                                             *)

Without(f, i) == [j \in DOMAIN f \ {i} |-> f[j]]
With(f, i, value) == [j \in DOMAIN f \union {i} |-> IF j = i THEN value ELSE f[j]]

\* Variant: the id is taken from the number of connections so far.
TakeIdOfTotal(a) ==
  /\ new' = [new EXCEPT ![a] = atomics["total"] + 1]
  /\ atomics' = [atomics EXCEPT !["next_id"] = @ + 1]

\* next_id.fetch_add(1).
TakeId(a) ==
  /\ new' = [new EXCEPT ![a] = atomics["next_id"]]
  /\ atomics' = [atomics EXCEPT !["next_id"] = @ + 1]

\* The insertion is the end of register: the caller gets the id.
Insert(a) ==
  /\ registry' = With(registry, new[a], 0)
  /\ owned' = [owned EXCEPT ![a] = @ \union {new[a]}]
  /\ new' = [new EXCEPT ![a] = 0]

Apply(a, e) ==
  \/ e.op = "take_id" /\ TakeId(a) /\ UNCHANGED <<buckets, registry, owned>>
  \/ e.op = "insert" /\ Insert(a) /\ UNCHANGED <<atomics, buckets>>
  \/ /\ e.op = "remove"
     /\ registry' = Without(registry, e.arg)
     /\ UNCHANGED <<atomics, buckets, new, owned>>
  \/ /\ e.op = "row"
     /\ registry' = [i \in DOMAIN registry |-> registry[i] + IF i = e.arg THEN 1 ELSE 0]
     /\ UNCHANGED <<atomics, buckets, new, owned>>
  \/ /\ e.op = "bucket"
     /\ buckets' = [buckets EXCEPT ![e.arg] = @ + 1]
     /\ UNCHANGED <<atomics, registry, new, owned>>
  \/ /\ e.op \in Counters
     /\ atomics' = [atomics EXCEPT ![e.op] = @ + e.arg]
     /\ UNCHANGED <<buckets, registry, new, owned>>

Do(a) ==
  /\ \E k \in Ready(a) :
       Apply(a, todo[a][k]) /\ todo' = [todo EXCEPT ![a] = Without(@, k)]
  /\ UNCHANGED <<phase, served, drained, sampleVars>>

-----------------------------------------------------------------------------
(* Callers.  A call has one effect of a kind at most, so those of all      *)
(* calls are counted by their actors.                                      *)

Idle(a) == DOMAIN todo[a] = {}

Owing(ops) == {a \in Actors : \E k \in DOMAIN todo[a] : todo[a][k].op \in ops}
OwingArg(op, arg) == {a \in Actors : \E k \in DOMAIN todo[a] : todo[a][k] = Effect(op, arg)}

Pending(op) == Cardinality(Owing({op}))

\* What a sample is made of is changed by these effects.
Visible == {"total", "active", "successes", "insert", "remove"}

Reading == DOMAIN seen # {}

\* a begins a call; the sampler, if it is reading and can tell, overlaps it.
Begin(a, effects) ==
  /\ Idle(a)
  /\ todo' = [todo EXCEPT ![a] = effects]
  /\ overlap' = overlap + IF Reading /\ \E k \in DOMAIN effects : effects[k].op \in Visible
                            THEN 1 ELSE 0
  /\ UNCHANGED <<atomics, buckets, registry, new, seen>>

MayRegister == atomics["next_id"] + Pending("take_id") <= MaxIds
MayFail == atomics["failures"] + Pending("failures") < MaxErrors
MayAdd == atomics["bytes"] + Pending("bytes") < MaxBytes

\* Connect: the target was reached, or the association was set up.
Open(t) ==
  /\ owned[t] = {} /\ MayRegister
  /\ Begin(t, register)
  /\ UNCHANGED <<owned, phase, served, drained>>

\* The request failed before it was registered.
Fail(t) ==
  /\ owned[t] = {} /\ MayFail
  /\ \E code \in Codes : Begin(t, record_error(code))
  /\ UNCHANGED <<owned, phase, served, drained>>

Relay(t) ==
  /\ MayAdd
  /\ \E id \in owned[t] : Begin(t, add_bytes(id))
  /\ UNCHANGED <<owned, phase, served, drained>>

Teardown(t) ==
  /\ \E id \in owned[t] : /\ Begin(t, record_success \o unregister(id))
                          /\ owned' = [owned EXCEPT ![t] = @ \ {id}]
  /\ UNCHANGED <<phase, served, drained>>

\* The generator does no call in a part of its tick.
Skip == Idle(Mock) /\ UNCHANGED <<atomics, buckets, registry, todo, new, owned, sampleVars>>

\* The four parts of Generator::step; it may skip the first and the last two.
MockOpen ==
  /\ phase = "open"
  /\ phase' = "bytes"
  /\ \/ /\ Cardinality(owned[Mock]) < MAX_ACTIVE /\ MayRegister
        /\ Begin(Mock, register)
        /\ UNCHANGED owned
     \/ Skip
  /\ UNCHANGED <<served, drained>>

\* Bytes for every connection, one after the other.
MockBytes ==
  /\ phase = "bytes" /\ MayAdd
  /\ \E id \in owned[Mock] \ served : Begin(Mock, add_bytes(id)) /\ served' = served \union {id}
  /\ UNCHANGED <<owned, phase, drained>>

MockBytesDone ==
  /\ phase = "bytes"
  /\ owned[Mock] \subseteq served \/ ~ MayAdd
  /\ phase' = "close"
  /\ served' = {}
  /\ Skip
  /\ UNCHANGED drained

MockClose ==
  /\ phase = "close"
  /\ phase' = "error"
  /\ \/ \E id \in owned[Mock] :
          /\ Begin(Mock, unregister(id) \o record_success)
          /\ owned' = [owned EXCEPT ![Mock] = @ \ {id}]
     \/ Skip
  /\ UNCHANGED <<served, drained>>

MockError ==
  /\ phase = "error"
  /\ phase' = "open"
  /\ \/ MayFail /\ (\E code \in Codes : Begin(Mock, record_error(code))) /\ UNCHANGED owned
     \/ Skip
  /\ UNCHANGED <<served, drained>>

\* The shutdown between two ticks: Generator::drain, one connection after the other.
MockDrain ==
  /\ phase \in {"open", "drain"}
  /\ phase' = "drain"
  /\ \E id \in owned[Mock] : /\ Begin(Mock, unregister(id))
                             /\ owned' = [owned EXCEPT ![Mock] = @ \ {id}]
  /\ drained' = drained + 1
  /\ UNCHANGED served

MockGone ==
  /\ phase \in {"open", "drain"} /\ owned[Mock] = {}
  /\ phase' = "gone"
  /\ Skip
  /\ UNCHANGED <<served, drained>>

-----------------------------------------------------------------------------
(* The sampler: Metrics::snapshot, then Metrics::connections.  The loads   *)
(* are Relaxed and may be done in any order.                               *)

\* What a sample is made of; the loads of the other counters are like these.
Sampled == {"total", "active", "successes", "rows"}

Value(part) == IF part = "rows" THEN Cardinality(DOMAIN registry) ELSE atomics[part]

Ongoing == Cardinality(Owing(Visible))

\* The loads; with the last one the sample is handed out.
Load ==
  /\ \E part \in Sampled \ DOMAIN seen :
       IF DOMAIN seen \union {part} = Sampled
         THEN seen' = <<>> /\ overlap' = 0
         ELSE /\ seen' = With(seen, part, Value(part))
              /\ overlap' = IF Reading THEN overlap ELSE Ongoing
  /\ UNCHANGED <<atomics, buckets, registry, todo, callVars>>

Next ==
  \/ \E a \in Actors : Do(a)
  \/ \E t \in Tasks : Open(t) \/ Fail(t) \/ Relay(t) \/ Teardown(t)
  \/ MockOpen \/ MockBytes \/ MockBytesDone \/ MockClose \/ MockError
  \/ MockDrain \/ MockGone
  \/ Load

Spec == Init /\ [][Next]_vars
-----------------------------------------------------------------------------
(* The books.                                                              *)

\* Every counter stays at zero or above, the generator within its limit.
TypeOK ==
  /\ atomics \in [Counters -> Nat]
  /\ buckets \in [0 .. 8 -> Nat]
  /\ registry \in [DOMAIN registry -> Nat]
  /\ new \in [Actors -> Nat] /\ DOMAIN owned = Actors
  /\ \A a \in Actors : owned[a] \subseteq 1 .. atomics["next_id"] - 1
  /\ \A t \in Tasks : Cardinality(owned[t]) <= 1
  /\ Cardinality(owned[Mock]) <= MAX_ACTIVE
  /\ phase \in {"open", "bytes", "close", "error", "drain", "gone"}
  /\ drained \in Nat /\ overlap \in Nat
  /\ DOMAIN seen \subseteq Sampled

\* The sum of f, counted in units.
Units(f) == UNION {{x} \X (1 .. f[x]) : x \in DOMAIN f}
Total(f) == Cardinality(Units(f))

\* Where a counter stands once every call that has begun is over.
Settled(c) == atomics[c] + Cardinality(OwingArg(c, 1)) - Cardinality(OwingArg(c, -1))

\* The counters, the histogram and the registry are changed one after the other, by
\* several threads.  However the calls interleave, each difference between two of them
\* is what the calls in progress still have to do: what is active is what is in the
\* registry, every connection ever counted is active, succeeded or was drained, every
\* failure is in the histogram.
BooksBalance ==
  /\ Settled("active") = Cardinality(DOMAIN registry) + Pending("insert") - Pending("remove")
  /\ Settled("total") = Settled("active") + Settled("successes") + drained
  /\ Settled("total") = atomics["next_id"] - 1 + Pending("take_id")
  /\ Settled("failures") = Total(buckets) + Pending("bucket")
  /\ Settled("bytes") >= Total(registry) + Pending("row")

\* The ids an actor is about to remove.
Leaving(a) == {id \in DOMAIN registry : \E k \in DOMAIN todo[a] : todo[a][k] = Effect("remove", id)}

\* No two live connections have the same id, no id is handed out while it is in use, and
\* the registry holds exactly the connections that are live or about to be removed.
IdsAreUnique ==
  /\ \A a, b \in Actors : a # b => (owned[a] \union Leaving(a)) \intersect (owned[b] \union Leaving(b)) = {}
  /\ \A a \in Actors : new[a] \notin DOMAIN registry
  /\ \A a, b \in Actors : a # b /\ new[a] # 0 => new[a] # new[b]
  /\ DOMAIN registry = UNION {owned[a] \union Leaving(a) : a \in Actors}

MetricsInv == TypeOK /\ BooksBalance /\ IdsAreUnique

\* The sample, if the loads it still needs are done now.
View(part) == IF part \in DOMAIN seen THEN seen[part] ELSE Value(part)

\* A sample is torn: its parts are read at different times.  But it is no more wrong
\* than the calls it overlapped account for: its active count differs from the rows of
\* its table, and from the connections counted and not finished, by at most the number
\* of calls that were in progress at some time while it was taken, plus the drained.
SkewIsBounded ==
  Reading => /\ View("active") - View("rows") \in -overlap .. overlap
             /\ View("total") - View("successes") - View("active") \in -overlap .. overlap + drained
=============================================================================
