-------------------------------- MODULE Relay --------------------------------
(***************************************************************************)
(* The TCP relay of src/src/server/connect.rs: two copy_half loops, one    *)
(* per direction, joined by copy_bidirectional_counted and coupled by the  *)
(* shared last_activity instant.                                           *)
(*                                                                         *)
(* Time is discrete.  A timer that is due fires before time passes again,  *)
(* but what the peers do at that same instant may come first.  A chunk     *)
(* read into the buffer is a number of pieces; a write_all hands pieces to *)
(* the destination as its receive window allows.                           *)
(***************************************************************************)
EXTENDS Naturals

CONSTANTS
  Idle,     \* the idle window, in ticks: timeouts.tcp_idle_ms
  MaxLen    \* bound: pieces in one chunk

ASSUME RelayAssumption == Idle \in Nat \ {0} /\ MaxLen \in Nat \ {0}

Dirs == {"up", "down"}
Other(d) == IF d = "up" THEN "down" ELSE "up"

VARIABLES
  st,       \* each direction: reading, writing, or how it ended
  age,      \* ticks since the direction's current read or write began
  silence,  \* ticks since last_activity
  left,     \* pieces of the current chunk the destination has not taken
  gap,      \* pieces the destination took that no counter knows of yet
  fin,      \* the destination was shut down
  quiet     \* history: ticks since a direction last moved a byte, up to Idle

relayVars == <<st, age, silence, left, gap, fin, quiet>>

Running == {"reading", "writing"}
Over == {"eof", "idle", "failed", "write_timeout", "dropped"}

\* No relay outlives three idle windows of silence, as NoLingering states; the
\* clock stops there so that the state space is finite.
Horizon == 3 * Idle

RelayInit ==
  /\ st = [d \in Dirs |-> "reading"]
  /\ age = [d \in Dirs |-> 0]
  /\ silence = 0
  /\ left = [d \in Dirs |-> 0]
  /\ gap = [d \in Dirs |-> 0]
  /\ fin = [d \in Dirs |-> FALSE]
  /\ quiet = [d \in Dirs |-> 0]

\* A direction's loop moves on; its next timer starts now.
Enter(d, state) ==
  /\ st' = [st EXCEPT ![d] = state]
  /\ age' = [age EXCEPT ![d] = 0]

-----------------------------------------------------------------------------
(* copy_half: the read.                                                    *)

\* Some(n): a chunk is read, and written next.
ReadData(d) ==
  /\ st[d] = "reading"
  /\ Enter(d, "writing")
  /\ \E n \in 1 .. MaxLen : left' = [left EXCEPT ![d] = n]
  /\ quiet' = [quiet EXCEPT ![d] = 0]
  /\ UNCHANGED <<silence, gap, fin>>

\* Some(0): the destination is half-closed and the direction is over.
ReadEof(d) ==
  /\ st[d] = "reading"
  /\ Enter(d, "eof")
  /\ fin' = [fin EXCEPT ![d] = TRUE]
  /\ UNCHANGED <<silence, left, gap, quiet>>

\* The source fails: the direction is over, the destination is left as it is.
ReadFails(d) ==
  /\ st[d] = "reading"
  /\ Enter(d, "failed")
  /\ UNCHANGED <<silence, left, gap, fin, quiet>>

\* Variant: an idle read ends its direction without asking the other one.
ReadIdleUncoupled(d) ==
  /\ st[d] = "reading"
  /\ age[d] = Idle
  /\ Enter(d, "idle")
  /\ fin' = [fin EXCEPT ![d] = TRUE]
  /\ UNCHANGED <<silence, left, gap, quiet>>

\* Variant: an idle read is always retried.
ReadIdleRetries(d) ==
  /\ st[d] = "reading"
  /\ age[d] = Idle
  /\ Enter(d, "reading")
  /\ UNCHANGED <<silence, left, gap, fin, quiet>>

\* None: the read was idle for the window.  The direction ends only if
\* last_activity is as old as that; otherwise it reads again.
ReadIdle(d) ==
  /\ st[d] = "reading"
  /\ age[d] = Idle
  /\ Enter(d, IF silence >= Idle THEN "idle" ELSE "reading")
  /\ fin' = IF silence >= Idle THEN [fin EXCEPT ![d] = TRUE] ELSE fin
  /\ UNCHANGED <<silence, left, gap, quiet>>

-----------------------------------------------------------------------------
(* copy_half: the write.                                                   *)

\* The destination takes a piece, not the last.
WritePiece(d) ==
  /\ st[d] = "writing"
  /\ left[d] > 1
  /\ left' = [left EXCEPT ![d] = @ - 1]
  /\ gap' = [gap EXCEPT ![d] = @ + 1]
  /\ quiet' = [quiet EXCEPT ![d] = 0]
  /\ UNCHANGED <<st, age, silence, fin>>

\* The last piece is taken: write_all returns, last_activity is set, the bytes
\* are counted (add_up or add_down), and the direction reads again.
WriteDone(d) ==
  /\ st[d] = "writing"
  /\ left[d] = 1
  /\ Enter(d, "reading")
  /\ left' = [left EXCEPT ![d] = 0]
  /\ gap' = [gap EXCEPT ![d] = 0]
  /\ quiet' = [quiet EXCEPT ![d] = 0]
  /\ silence' = 0
  /\ UNCHANGED fin

\* The write fails, or it did not finish within the window: the direction ends
\* with an error and the destination is not shut down.
WriteFails(d) ==
  /\ st[d] = "writing"
  /\ Enter(d, "failed")
  /\ UNCHANGED <<silence, left, gap, fin, quiet>>

\* Variant: the destination is shut down after a timed-out write.
WriteTimesOutWithFin(d) ==
  /\ st[d] = "writing"
  /\ age[d] = Idle
  /\ Enter(d, "write_timeout")
  /\ fin' = [fin EXCEPT ![d] = TRUE]
  /\ UNCHANGED <<silence, left, gap, quiet>>

WriteTimesOut(d) ==
  /\ st[d] = "writing"
  /\ age[d] = Idle
  /\ Enter(d, "write_timeout")
  /\ UNCHANGED <<silence, left, gap, fin, quiet>>

-----------------------------------------------------------------------------
\* join! over both directions has completed.
Finished == \A d \in Dirs : st[d] \in Over

\* wait_for_shutdown wins the select: the relay future is dropped.
Dropped ==
  /\ ~ Finished
  /\ st' = [d \in Dirs |-> IF st[d] \in Running THEN "dropped" ELSE st[d]]
  /\ age' = [d \in Dirs |-> 0]
  /\ UNCHANGED <<silence, left, gap, fin, quiet>>

\* Time passes, unless a timer is due.
RelayTick ==
  /\ ~ Finished
  /\ \A d \in Dirs : st[d] \in Running => age[d] < Idle
  /\ silence < Horizon
  /\ silence' = silence + 1
  /\ age' = [d \in Dirs |-> IF st[d] \in Running THEN age[d] + 1 ELSE 0]
  /\ quiet' = [d \in Dirs |-> IF quiet[d] < Idle THEN quiet[d] + 1 ELSE Idle]
  /\ UNCHANGED <<st, left, gap, fin>>

Timeout(d) == ReadIdle(d) \/ WriteTimesOut(d)

Peer(d) ==
  \/ ReadData(d) \/ ReadEof(d) \/ ReadFails(d)
  \/ WritePiece(d) \/ WriteDone(d) \/ WriteFails(d)

RelayNext == RelayTick \/ Dropped \/ \E d \in Dirs : Timeout(d) \/ Peer(d)

RelaySpec == RelayInit /\ [][RelayNext]_relayVars

-----------------------------------------------------------------------------
(* Properties.                                                             *)

\* Every variable stays in its domain: in particular no read or write outlives its
\* timeout.
RelayTypeOK ==
  /\ st \in [Dirs -> Running \cup Over]
  /\ age \in [Dirs -> 0 .. Idle]
  /\ silence \in 0 .. Horizon
  /\ left \in [Dirs -> 0 .. MaxLen]
  /\ gap \in [Dirs -> 0 .. MaxLen]
  /\ fin \in [Dirs -> BOOLEAN]
  /\ quiet \in [Dirs -> 0 .. Idle]

\* The destination sees a FIN only after it was given every byte read for it, and
\* then those bytes are all counted; a direction that ends in an error sends none.
FinMeansDelivered ==
  \A d \in Dirs :
    /\ fin[d] => left[d] = 0 /\ gap[d] = 0
    /\ fin[d] <=> st[d] \in {"eof", "idle"}

\* An unfinished relay completed a write less than three idle windows ago: the two
\* coupled timers and the write timeout cannot keep prolonging each other.
NoLingering == ~ Finished => silence < Horizon

\* The bounds on timers and chunks hold; FinMeansDelivered, a destination that was shut
\* down has received every byte that was read for it; and NoLingering, the relay is over
\* at the latest three idle windows after its last write.
RelayInv == RelayTypeOK /\ FinMeansDelivered /\ NoLingering

\* A direction that closes because it is idle.
ClosesIdle(d) == st[d] = "reading" /\ st'[d] = "idle"

\* Idleness closes a direction only if it has moved no byte for the window and the
\* other direction, in whatever state it is, has moved none either, unless those belong
\* to a chunk that it has not handed over completely: only completed writes count, and
\* none of them is within the window, however the timers are offset.
IdleIsCoupled ==
  [][\A d \in Dirs :
       ClosesIdle(d) =>
         /\ quiet[d] >= Idle
         /\ left[Other(d)] = 0 => quiet[Other(d)] >= Idle]_relayVars

\* connect.rs: "teardown on idleness only happens when NEITHER direction has moved
\* bytes for the idle window".
NeitherDirectionMoved ==
  [][\A d \in Dirs : ClosesIdle(d) => \A e \in Dirs : quiet[e] >= Idle]_relayVars
=============================================================================
