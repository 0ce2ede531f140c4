----------------------------- MODULE AdminSocket -----------------------------
(***************************************************************************)
(* How server processes compete for the admin socket: claim_socket and     *)
(* serve of src/src/admin/server.rs, run by every process started with the *)
(* same socket path.                                                       *)
(*                                                                         *)
(* The shared state is the file system and the kernel's locks: what the    *)
(* path names, who holds the advisory lock on the sidecar file, which      *)
(* processes have a bound listener open.  A connect() to the path succeeds *)
(* exactly when it names the socket of a listener that is still open, even *)
(* one that no longer accepts.                                             *)
(*                                                                         *)
(*   off       not running                     probe1   first connect      *)
(*   lock      about to flock                  probe2   connect, locked    *)
(*   unlink    about to clear the path         bind     about to bind      *)
(*   chmod     bound, permissions not yet set  serving  in the accept loop *)
(*   stopping  left the loop, file not removed                             *)
(*   removed   remove_file called, lock and listener still held            *)
(*   unlocked  lock dropped, listener still open                           *)
(*   failing   returning an error, dropping what it holds                  *)
(*   disabled  running without an admin endpoint                           *)
(*   dying     killed, or exited before serve was polled again: the kernel *)
(*             closes its descriptors one by one                           *)
(***************************************************************************)
EXTENDS Naturals

CONSTANTS
  Procs,       \* server processes, each may run many times
  InitPaths,   \* what an earlier run may have left at the path
  IoErrors,    \* whether system calls may fail for reasons of their own
  MaxDeaths    \* bound: how many deaths may happen in a behaviour

NotAProcess == {"absent", "regular", "stale", "free", "none"}

ASSUME SocketAssumption ==
  /\ Procs \cap NotAProcess = {}
  /\ InitPaths \subseteq {"absent", "regular", "stale"}
  /\ IoErrors \in BOOLEAN
  /\ MaxDeaths \in Nat

VARIABLES
  pc,         \* where each process stands
  lock,       \* the holder of the flock on <socket>.lock, or "free"
  listening,  \* the processes whose bound listener is open
  path,       \* "absent", a "regular" file, a "stale" socket, or the process
              \* whose open listener is bound to the socket there
  deaths

vars == <<pc, lock, listening, path, deaths>>

States == {"off", "probe1", "lock", "probe2", "unlink", "bind", "chmod",
           "serving", "stopping", "removed", "unlocked", "failing",
           "disabled", "dying"}

Init ==
  /\ pc = [p \in Procs |-> "off"]
  /\ lock = "free"
  /\ listening = {}
  /\ path \in InitPaths
  /\ deaths = 0

Goto(p, from, to) ==
  /\ pc[p] = from
  /\ pc' = [pc EXCEPT ![p] = to]

\* socket_is_live: connect() reaches an open listener.  A missing path, a
\* stale socket and a regular file all refuse the connection.
IsLive == path \in Procs

\* What the kernel does when p's listener is closed: the socket it is bound
\* to stays at the path and refuses connections from then on.
CloseListener(p) ==
  /\ listening' = listening \ {p}
  /\ path' = IF path = p THEN "stale" ELSE path

-----------------------------------------------------------------------------
(* claim_socket.                                                           *)

Start(p) ==
  /\ Goto(p, "off", "probe1")
  /\ UNCHANGED <<lock, listening, path, deaths>>

\* 1. Refuse when a live peer answers.
Probe1(p) ==
  /\ Goto(p, "probe1", IF IsLive THEN "failing" ELSE "lock")
  /\ UNCHANGED <<lock, listening, path, deaths>>

\* Variant: the lock is taken whoever holds it.
TakeLockAnyway(p) ==
  /\ Goto(p, "lock", "probe2")
  /\ lock' = p
  /\ UNCHANGED <<listening, path, deaths>>

\* 2. Non-blocking exclusive lock.
TakeLock(p) ==
  /\ lock = "free"
  /\ Goto(p, "lock", "probe2")
  /\ lock' = p
  /\ UNCHANGED <<listening, path, deaths>>

LockRefused(p) ==
  /\ lock # "free"
  /\ Goto(p, "lock", "failing")
  /\ UNCHANGED <<lock, listening, path, deaths>>

\* 3. Probe again under the lock.
Probe2(p) ==
  /\ Goto(p, "probe2", IF IsLive THEN "failing" ELSE "unlink")
  /\ UNCHANGED <<lock, listening, path, deaths>>

\* Variant: a stale socket is left in place.
UnlinkSkipped(p) ==
  /\ Goto(p, "unlink", IF path = "regular" THEN "failing" ELSE "bind")
  /\ UNCHANGED <<lock, listening, path, deaths>>

\* 4. unlink_if_socket: any socket at the path is removed; anything else that
\* is there is an error.
Unlink(p) ==
  /\ Goto(p, "unlink", IF path = "regular" THEN "failing" ELSE "bind")
  /\ path' = IF path = "regular" THEN path ELSE "absent"
  /\ UNCHANGED <<lock, listening, deaths>>

\* bind(), which fails with EADDRINUSE when anything is at the path.
Bind(p) ==
  /\ Goto(p, "bind", IF path = "absent" THEN "chmod" ELSE "failing")
  /\ path' = IF path = "absent" THEN p ELSE path
  /\ listening' = IF path = "absent" THEN listening \cup {p} ELSE listening
  /\ UNCHANGED <<lock, deaths>>

SetPermissions(p) ==
  /\ Goto(p, "chmod", "serving")
  /\ UNCHANGED <<lock, listening, path, deaths>>

\* A system call of claim_socket fails for a reason of its own; a probe that
\* fails with anything but "refused" or "not found" takes this way too.
IoError(p) ==
  /\ IoErrors
  /\ pc[p] \in {"probe1", "lock", "probe2", "unlink", "bind", "chmod"}
  /\ pc' = [pc EXCEPT ![p] = "failing"]
  /\ UNCHANGED <<lock, listening, path, deaths>>

\* The error return drops the locals in reverse order of declaration: the
\* listener, then the lock; main then reports the endpoint as disabled.
FailClose(p) ==
  /\ pc[p] = "failing"
  /\ p \in listening
  /\ CloseListener(p)
  /\ UNCHANGED <<pc, lock, deaths>>

FailUnlock(p) ==
  /\ p \notin listening
  /\ Goto(p, "failing", "disabled")
  /\ lock' = IF lock = p THEN "free" ELSE lock
  /\ UNCHANGED <<listening, path, deaths>>

-----------------------------------------------------------------------------
(* serve.                                                                  *)

\* Variant: the listener and the lock are dropped before the file is removed.
StopReleases(p) ==
  /\ Goto(p, "serving", "stopping")
  /\ CloseListener(p)
  /\ lock' = "free"
  /\ UNCHANGED deaths

\* The shutdown branch of the accept loop.
Stop(p) ==
  /\ Goto(p, "serving", "stopping")
  /\ UNCHANGED <<lock, listening, path, deaths>>

\* remove_file(socket_path), whatever is there; its error is ignored.
RemoveFile(p) ==
  /\ Goto(p, "stopping", "removed")
  /\ path' = "absent"
  /\ UNCHANGED <<lock, listening, deaths>>

RemoveFails(p) ==
  /\ IoErrors
  /\ Goto(p, "stopping", "removed")
  /\ UNCHANGED <<lock, listening, path, deaths>>

\* serve returns: _lock is dropped before listener.
DropLock(p) ==
  /\ Goto(p, "removed", "unlocked")
  /\ lock' = "free"
  /\ UNCHANGED <<listening, path, deaths>>

DropListener(p) ==
  /\ Goto(p, "unlocked", "disabled")
  /\ CloseListener(p)
  /\ UNCHANGED <<lock, deaths>>

Exit(p) ==
  /\ Goto(p, "disabled", "off")
  /\ UNCHANGED <<lock, listening, path, deaths>>

-----------------------------------------------------------------------------
(* Death of a process, and the kernel closing what it held.                *)

Die(p) ==
  /\ deaths < MaxDeaths
  /\ pc[p] \notin {"off", "dying"}
  /\ pc' = [pc EXCEPT ![p] = "dying"]
  /\ deaths' = deaths + 1
  /\ UNCHANGED <<lock, listening, path>>

KernelUnlocks(p) ==
  /\ pc[p] = "dying"
  /\ lock = p
  /\ lock' = "free"
  /\ UNCHANGED <<pc, listening, path, deaths>>

KernelCloses(p) ==
  /\ pc[p] = "dying"
  /\ p \in listening
  /\ CloseListener(p)
  /\ UNCHANGED <<pc, lock, deaths>>

Gone(p) ==
  /\ lock # p
  /\ p \notin listening
  /\ Goto(p, "dying", "off")
  /\ UNCHANGED <<lock, listening, path, deaths>>

-----------------------------------------------------------------------------
Claim(p) ==
  \/ Probe1(p) \/ TakeLock(p) \/ LockRefused(p) \/ Probe2(p) \/ Unlink(p)
  \/ Bind(p) \/ SetPermissions(p)

WindDown(p) ==
  \/ FailClose(p) \/ FailUnlock(p)
  \/ RemoveFile(p) \/ RemoveFails(p) \/ DropLock(p) \/ DropListener(p)
  \/ KernelUnlocks(p) \/ KernelCloses(p) \/ Gone(p)

Next ==
  \E p \in Procs :
    Start(p) \/ Claim(p) \/ IoError(p) \/ Stop(p) \/ WindDown(p) \/ Exit(p) \/ Die(p)

Spec == Init /\ [][Next]_vars

\* A process that is claiming or winding down keeps running; nothing makes
\* anybody start, stop, exit or die.
FairSpec == Spec /\ \A p \in Procs : WF_vars(Claim(p)) /\ WF_vars(WindDown(p))

-----------------------------------------------------------------------------
(* Properties.                                                             *)

\* Every variable stays in its domain.
TypeOK ==
  /\ pc \in [Procs -> States]
  /\ lock \in Procs \cup {"free"}
  /\ listening \in SUBSET Procs
  /\ path \in Procs \cup {"absent", "regular", "stale"}
  /\ deaths \in Nat

\* The process that serves attach clients is the one they reach at the path, so
\* at most one process serves, through any interleaving of starts, stops, deaths
\* and restarts.
ServingIsReachable == \A p \in Procs : pc[p] = "serving" => path = p

\* "never disturb a socket a live peer is serving": the socket of a process
\* leaves the path only when that process is winding down by itself.
NeverDisturbsLivePeer ==
  [][\A p \in Procs :
       (path = p /\ path' # p) => pc[p] \in {"stopping", "unlocked", "failing", "dying"}]_vars

\* The invariant behind the properties above.  The lock is held from the second
\* probe until serve returns; between the second probe and bind nothing live is at
\* the path; from bind until remove_file the path is the holder's; and a live socket
\* whose owner no longer holds the lock is about to be closed: its owner is dying, or
\* failed to remove the file and returns from serve.
Holding == {"probe2", "unlink", "bind", "chmod", "serving", "stopping", "removed"}

SocketInv ==
  /\ \A p \in Procs : pc[p] \in Holding => lock = p
  /\ \A p \in Procs : lock = p => pc[p] \in Holding \cup {"failing", "dying"}
  /\ \A p \in Procs : pc[p] = "unlink" => path \notin Procs
  /\ \A p \in Procs : pc[p] = "bind" => path = "absent"
  /\ \A p \in Procs : pc[p] \in {"chmod", "serving", "stopping"} => path = p
  /\ \A p \in Procs : path = p =>
       /\ p \in listening
       /\ pc[p] \in {"chmod", "serving", "stopping", "removed", "unlocked",
                     "failing", "dying"}
  /\ \A p \in Procs : path = p /\ lock # p => pc[p] \in {"unlocked", "dying"}

\* The endpoint's promise, kept by the file-system protocol.
Endpoint == INSTANCE AdminEndpoint WITH
  serving <- {p \in Procs : pc[p] \in {"chmod", "serving"}},
  endpoint <- IF path \in Procs THEN path ELSE "none"

\* AdminSocket implements AdminEndpoint.
ImplementsEndpoint == Endpoint!Spec

\* A crash leaves nothing behind that a restart cannot clear: a process that keeps
\* being started while all others are gone for good and the file system works serves
\* again and again, whatever stale socket was left at the path.  Only a file that is
\* no socket, which claim_socket refuses to touch, stands in its way; a bind that
\* fails because something is at the path is no excuse.
RestartRecovers ==
  \A p \in Procs :
    (/\ <>[](path # "regular" /\ \A q \in Procs \ {p} : pc[q] = "off")
     /\ <>[][IoError(p) => pc[p] = "bind" /\ path # "absent"]_vars
     /\ []<>(pc[p] = "probe1"))
      => []<>(pc[p] = "serving")
=============================================================================
