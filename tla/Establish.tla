------------------------------ MODULE Establish ------------------------------
(***************************************************************************)
(* Reaching the target of a CONNECT request: establish of                  *)
(* src/src/server/connect.rs, with the two lookups of src/src/dns.rs.      *)
(*                                                                         *)
(* The A and AAAA queries run while candidates are dialled one at a time.  *)
(* All of it shares one deadline; every dial gets its share of what is     *)
(* left, and an answer that arrives during a dial shortens that share.     *)
(* The task runs from one select to the next without waiting: the place    *)
(* "top" is the head of its loop, where nothing else happens in between.   *)
(***************************************************************************)
EXTENDS Integers, Sequences, FiniteSets, SequencesExt

CONSTANTS
  Addrs,       \* the addresses names resolve to, in canonical form
  Blocked,     \* those the egress policy refuses
  Deadline,    \* connect_ms, in ticks
  MaxAnswers   \* bound: addresses in one DNS answer

ASSUME EstablishAssumption ==
  /\ Blocked \subseteq Addrs
  /\ Deadline \in Nat
  /\ MaxAnswers \in Nat

Families == {"A", "AAAA"}

VARIABLES
  pc,                \* start, top, select, or how establish returned:
                     \* connected, dial, blocked, dns
  now,               \* ticks since the request
  done,              \* the families whose lookup is over
  queue,             \* candidates to dial
  seen,              \* every candidate ever queued
  blocked,           \* an answer held a refused address
  active,            \* {} or the address being dialled
  attempt_deadline,
  last_error,        \* a dial has failed
  dialled,           \* history: the addresses dialled, in order
  known              \* history: the allowed addresses answered before the deadline

establishVars == <<pc, now, done, queue, seen, blocked, active, attempt_deadline,
                   last_error, dialled, known>>

Returned == {"connected", "dial", "blocked", "dns"}

EstablishInit ==
  /\ pc = "start"
  /\ now = 0
  /\ done = {}
  /\ queue = <<>>
  /\ seen = {}
  /\ blocked = FALSE
  /\ active = {}
  /\ attempt_deadline = Deadline
  /\ last_error = FALSE
  /\ dialled = <<>>
  /\ known = {}

\* The target is a name: both lookups begin.
ResolveName ==
  /\ pc = "start"
  /\ pc' = "top"
  /\ UNCHANGED <<now, done, queue, seen, blocked, active, attempt_deadline,
                 last_error, dialled, known>>

\* The target is an address: refused at once, or dialled until the deadline, which is
\* the search with nothing to look up and one candidate.
TakeLiteral(a) ==
  /\ pc = "start"
  /\ pc' = "top"
  /\ done' = Families
  /\ blocked' = (a \in Blocked)
  /\ queue' = IF a \in Blocked THEN <<>> ELSE <<a>>
  /\ seen' = {a} \ Blocked
  /\ known' = {a} \ Blocked
  /\ UNCHANGED <<now, active, attempt_deadline, last_error, dialled>>

-----------------------------------------------------------------------------
(* The head of the loop.                                                   *)

\* Variant: a dial gets all the time that is left.
ShareGreedy(q) == Deadline

\* now + (deadline - now) / divisor, with the queue's length q + 1 as divisor.
Share(q) == now + (Deadline - now) \div (Len(q) + 1)

Dial ==
  /\ pc = "top"
  /\ active = {}
  /\ queue # <<>>
  /\ active' = {Head(queue)}
  /\ queue' = Tail(queue)
  /\ attempt_deadline' = Share(Tail(queue))
  /\ dialled' = Append(dialled, Head(queue))
  /\ pc' = "select"
  /\ UNCHANGED <<now, done, seen, blocked, last_error, known>>

\* Variant: one family's failure ends the search.
ExhaustedEarly ==
  /\ pc = "top"
  /\ active = {}
  /\ queue = <<>>
  /\ done # {}
  /\ pc' = IF last_error THEN "dial" ELSE IF blocked THEN "blocked" ELSE "dns"
  /\ UNCHANGED <<now, done, queue, seen, blocked, active, attempt_deadline,
                 last_error, dialled, known>>

\* Nothing to dial and nothing to wait for: report the most telling error.
Exhausted ==
  /\ pc = "top"
  /\ active = {}
  /\ queue = <<>>
  /\ done = Families
  /\ pc' = IF last_error THEN "dial" ELSE IF blocked THEN "blocked" ELSE "dns"
  /\ UNCHANGED <<now, done, queue, seen, blocked, active, attempt_deadline,
                 last_error, dialled, known>>

Wait ==
  /\ pc = "top"
  /\ active # {} \/ (queue = <<>> /\ done # Families)
  /\ pc' = "select"
  /\ UNCHANGED <<now, done, queue, seen, blocked, active, attempt_deadline,
                 last_error, dialled, known>>

-----------------------------------------------------------------------------
(* The branches of the select.                                             *)

\* What a lookup may return: query drops duplicates and turns no address into an
\* error.
Answers ==
  {s \in UNION {[1 .. n -> Addrs] : n \in 1 .. MaxAnswers} :
     Cardinality(ToSet(s)) = Len(s)}

\* kept is what is left of the answer, in its order, without the addresses of skip.
Filtered(kept, addresses, skip) ==
  /\ ToSet(kept) = ToSet(addresses) \ skip
  /\ \A i, j \in DOMAIN kept : i < j =>
       \E k, l \in DOMAIN addresses :
         k < l /\ addresses[k] = kept[i] /\ addresses[l] = kept[j]

\* Variant: an address both families returned is queued twice.
AddCandidatesTwice(addresses) ==
  /\ \E new \in Answers \cup {<<>>} :
       Filtered(new, addresses, Blocked) /\ queue' = queue \o new
  /\ seen' = seen \cup (ToSet(addresses) \ Blocked)
  /\ blocked' = (blocked \/ ToSet(addresses) \cap Blocked # {})

\* add_candidates: refused addresses are noted, new ones queued, in order.  The answer
\* names nothing twice, so its order leaves one way to queue them.
AddCandidates(addresses) ==
  /\ \E new \in Answers \cup {<<>>} :
       Filtered(new, addresses, Blocked \cup seen) /\ queue' = queue \o new
  /\ seen' = seen \cup (ToSet(addresses) \ Blocked)
  /\ blocked' = (blocked \/ ToSet(addresses) \cap Blocked # {})

\* A lookup answers.  A dial under way keeps its share only as far as the new
\* candidates leave it.
Answer(f, addresses) ==
  /\ pc = "select"
  /\ f \notin done
  /\ done' = done \cup {f}
  /\ AddCandidates(addresses)
  /\ attempt_deadline' =
       IF active # {} /\ queue' # <<>> /\ Share(queue') < attempt_deadline
         THEN Share(queue') ELSE attempt_deadline
  /\ known' = IF now < Deadline THEN known \cup (ToSet(addresses) \ Blocked) ELSE known
  /\ pc' = "top"
  /\ UNCHANGED <<now, active, last_error, dialled>>

\* A lookup fails, or times out at the deadline.
LookupFails(f) == Answer(f, <<>>)

Connected ==
  /\ pc = "select"
  /\ active # {}
  /\ active' = {}
  /\ pc' = "connected"
  /\ UNCHANGED <<now, done, queue, seen, blocked, attempt_deadline, last_error,
                 dialled, known>>

\* The dial fails; or its share of the time is over.
DialFails ==
  /\ pc = "select"
  /\ active # {}
  /\ active' = {}
  /\ last_error' = TRUE
  /\ pc' = "top"
  /\ UNCHANGED <<now, done, queue, seen, blocked, attempt_deadline, dialled, known>>

AttemptTimesOut ==
  /\ now >= attempt_deadline
  /\ DialFails

\* Variant: a dial under way is not looked at.
DeadlineForgetsDial ==
  /\ pc = "select"
  /\ now >= Deadline
  /\ pc' = IF last_error THEN "dial" ELSE IF blocked THEN "blocked" ELSE "dns"
  /\ UNCHANGED <<now, done, queue, seen, blocked, active, attempt_deadline,
                 last_error, dialled, known>>

\* Variant: the select has no branch for the deadline.
DeadlineUnarmed == FALSE

DeadlineReached ==
  /\ pc = "select"
  /\ now >= Deadline
  /\ pc' = IF active # {} \/ last_error THEN "dial"
           ELSE IF blocked THEN "blocked" ELSE "dns"
  /\ UNCHANGED <<now, done, queue, seen, blocked, active, attempt_deadline,
                 last_error, dialled, known>>

-----------------------------------------------------------------------------
\* Time passes unless a timer is due.
Tick ==
  /\ pc = "select"
  /\ now < Deadline
  /\ active # {} => now < attempt_deadline
  /\ now' = now + 1
  /\ UNCHANGED <<pc, done, queue, seen, blocked, active, attempt_deadline,
                 last_error, dialled, known>>

Top == Dial \/ Exhausted \/ Wait

Search ==
  \/ Top
  \/ \E f \in Families : LookupFails(f) \/ \E s \in Answers : Answer(f, s)
  \/ Connected \/ DialFails \/ AttemptTimesOut \/ DeadlineReached
  \/ Tick

EstablishNext == ResolveName \/ (\E a \in Addrs : TakeLiteral(a)) \/ Search

EstablishSpec == EstablishInit /\ [][EstablishNext]_establishVars

-----------------------------------------------------------------------------
(* Properties.                                                             *)

\* Every variable stays in its domain.
EstablishTypeOK ==
  /\ pc \in {"start", "top", "select"} \cup Returned
  /\ now \in 0 .. Deadline
  /\ done \in SUBSET Families
  /\ queue \in Seq(Addrs)
  /\ seen \in SUBSET Addrs
  /\ blocked \in BOOLEAN
  /\ active \in SUBSET Addrs
  /\ attempt_deadline \in 0 .. Deadline
  /\ last_error \in BOOLEAN
  /\ dialled \in Seq(Addrs)
  /\ known \in SUBSET Addrs

\* Each allowed address is dialled or waiting exactly once, however the two
\* families' answers overlap and interleave with the dials; a refused one never is.
DialledOnce ==
  /\ ToSet(dialled) \cup ToSet(queue) = seen
  /\ Cardinality(seen) = Len(dialled) + Len(queue)
  /\ seen \cap Blocked = {}

\* No timer runs past the connect deadline, and DialledOnce: every allowed address is
\* dialled or queued exactly once.
EstablishInv == EstablishTypeOK /\ DialledOnce

\* "A failed early candidate must not cancel a slower DNS answer; only an established
\* connection ends the search": a failure before the deadline means that both lookups
\* are over and that every allowed address of theirs was dialled.
SearchIsComplete ==
  (pc \in Returned \ {"connected"} /\ now < Deadline)
    => done = Families /\ ToSet(dialled) = seen

\* "Reserve time for actual alternatives": even when the deadline ends the search,
\* every allowed address that was known before it got its turn.
NoCandidateStarves ==
  pc \in Returned \ {"connected"} => known \subseteq ToSet(dialled)

\* All return sites tell the same story: a dial error if and only if something was
\* dialled, a policy error only if all there was to dial was refused, a DNS error only
\* if no address was found.
ErrorIsHonest ==
  /\ pc = "dial" => dialled # <<>>
  /\ pc = "blocked" => dialled = <<>> /\ blocked
  /\ pc = "dns" => dialled = <<>> /\ ~ blocked
=============================================================================
