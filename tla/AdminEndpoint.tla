---------------------------- MODULE AdminEndpoint ----------------------------
(***************************************************************************)
(* What the doc comment of claim_socket promises about the admin socket:   *)
(* a process that serves it is the one reachable at the path, from the     *)
(* moment it opens until it retires by itself.  Nobody takes the path over *)
(* from it; a successor opens only after the endpoint was vacated.         *)
(***************************************************************************)
CONSTANT Procs

VARIABLES
  serving,   \* the processes that believe they serve the endpoint
  endpoint   \* the process reachable at the path, or "none"

endpointVars == <<serving, endpoint>>

Init ==
  /\ serving = {}
  /\ endpoint = "none"

Open(p) ==
  /\ endpoint = "none"
  /\ endpoint' = p
  /\ serving' = serving \cup {p}

\* p decides to stop, fails or dies.
Retire(p) ==
  /\ p \in serving
  /\ serving' = serving \ {p}
  /\ UNCHANGED endpoint

Vacate(p) ==
  /\ endpoint = p
  /\ p \notin serving
  /\ endpoint' = "none"
  /\ UNCHANGED serving

Next == \E p \in Procs : Open(p) \/ Retire(p) \/ Vacate(p)

Spec == Init /\ [][Next]_endpointVars
=============================================================================
