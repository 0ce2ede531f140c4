------------------------------ MODULE Admission ------------------------------
(***************************************************************************)
(* The accept-time admission controller of src/src/server/admission.rs.    *)
(*                                                                         *)
(* The controller is a pair of counters behind one mutex.  Every operation *)
(* takes the mutex for its whole body, so each is one atomic step.  A      *)
(* Permit is not stored by the controller: it is owned by the connection   *)
(* task, which is why the counters can disagree with reality if a permit   *)
(* is ever lost or released twice.                                         *)
(***************************************************************************)
EXTENDS Naturals, FiniteSets

CONSTANTS
  IPs,        \* source addresses
  MaxTotal,   \* limits.max_connections: {} is None, {n} is Some(n)
  MaxPerIp    \* limits.max_per_ip:      {} is None, {n} is Some(n)

ASSUME LimitsAssumption ==
  /\ MaxTotal \in SUBSET Nat
  /\ MaxPerIp \in SUBSET Nat

VARIABLES
  total,      \* State::total
  per_ip      \* State::per_ip, a map: only addresses with an entry are in its domain

admissionVars == <<total, per_ip>>

AdmissionInit ==
  /\ total = 0
  /\ per_ip = [ip \in {} |-> 0]

\* per_ip.get(ip).copied().unwrap_or(0)
CountOf(ip) == IF ip \in DOMAIN per_ip THEN per_ip[ip] ELSE 0

\* The two cap checks of try_admit; an absent cap constrains nothing.
Admissible(ip) ==
  /\ \A max \in MaxTotal : total < max
  /\ \A max \in MaxPerIp : CountOf(ip) < max

\* try_admit returning Some(permit).
Admit(ip) ==
  /\ Admissible(ip)
  /\ total' = total + 1
  /\ per_ip' = [i \in DOMAIN per_ip \cup {ip} |->
                  IF i = ip THEN CountOf(ip) + 1 ELSE per_ip[i]]

\* try_admit returning None: the state is left alone.
Refuse(ip) ==
  /\ ~ Admissible(ip)
  /\ UNCHANGED admissionVars

\* Variant: an address keeps its map entry at zero.
ReleaseKeepsEntry(ip) ==
  /\ total' = IF total = 0 THEN 0 ELSE total - 1
  /\ per_ip' = IF ip \notin DOMAIN per_ip THEN per_ip ELSE [per_ip EXCEPT ![ip] = @ - 1]

\* Variant: the total is never given back.
ReleaseLeaksTotal(ip) ==
  /\ per_ip' = [i \in DOMAIN per_ip \ {ip} |-> per_ip[i]]
  /\ UNCHANGED total

\* Drop for Permit: a saturating decrement of the total, and removal of the
\* address's entry when its count reaches zero.
Release(ip) ==
  /\ total' = IF total = 0 THEN 0 ELSE total - 1
  /\ per_ip' = IF ip \notin DOMAIN per_ip
                 THEN per_ip
                 ELSE IF per_ip[ip] = 1
                        THEN [i \in DOMAIN per_ip \ {ip} |-> per_ip[i]]
                        ELSE [per_ip EXCEPT ![ip] = @ - 1]
=============================================================================
