----------------------------- MODULE LossyFifo -----------------------------
(***************************************************************************)
(* What buffering telemetry promises, without queues, files or processes:  *)
(* batches, numbered as they are made, stay owed to central until it has   *)
(* them or will never take them; only making a newer batch or starting     *)
(* again (Make, Restart) may drop some, and then the oldest; only a crash  *)
(* may lose others; and central first sees them in the order they were     *)
(* made.                                                                   *)
(***************************************************************************)
EXTENDS Naturals

VARIABLES
  made,        \* batches made so far
  refusable,   \* those central objects to as such (push.Unsendable)
  owed,        \* those still to be delivered
  got,         \* those central has
  restarts,    \* how many times the agent has started again
  crashes      \* how many times it has crashed

vars == <<made, refusable, owed, got, restarts, crashes>>

Init == made = 0 /\ refusable = {} /\ owed = {} /\ got = {} /\ restarts = 0 /\ crashes = 0

(* The batches of owed but its oldest ones, D. *)
Without(D) ==
  /\ D \subseteq owed
  /\ \A d \in D, b \in owed \ D : d < b

Make ==
  /\ made' = made + 1
  /\ refusable' \in {refusable, refusable \cup {made + 1}}
  /\ \E D \in SUBSET owed : Without(D) /\ owed' = (owed \ D) \cup {made + 1}
  /\ UNCHANGED <<got, restarts, crashes>>

(* Central takes a batch: newer than any it has, and none it could take is  *)
(* still owed from before it.                                               *)
Deliver(b) ==
  /\ b \notin refusable
  /\ \A c \in got : c < b
  /\ \A c \in owed : c < b => c \in got \cup refusable
  /\ got' = got \cup {b}
  /\ UNCHANGED <<made, refusable, owed, restarts, crashes>>

Settle(b) ==
  /\ b \in owed \cap (got \cup refusable)
  /\ owed' = owed \ {b}
  /\ UNCHANGED <<made, refusable, got, restarts, crashes>>

Restart ==
  /\ restarts' = restarts + 1
  /\ \E D \in SUBSET owed : Without(D) /\ owed' = owed \ D
  /\ UNCHANGED <<made, refusable, got, crashes>>

Crash ==
  /\ crashes' = crashes + 1
  /\ owed' \in SUBSET owed
  /\ UNCHANGED <<made, refusable, got, restarts>>

Next ==
  \/ Make \/ Restart \/ Crash
  \/ \E b \in 1 .. made : Deliver(b) \/ Settle(b)

Spec == Init /\ [][Next]_vars
=============================================================================
