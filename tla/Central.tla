------------------------------ MODULE Central ------------------------------
(***************************************************************************)
(* Overwatch central as a batch sees it through internal/push/client.go:   *)
(* away, or taking batches, or rejecting some of them for what they are.   *)
(***************************************************************************)
EXTENDS Naturals

VARIABLES
  central,     \* central answers
  refusable,   \* the batches it objects to as such
  got          \* the batches it has

centralVars == <<central, refusable, got>>

CentralInit == central \in BOOLEAN /\ refusable = {} /\ got = {}

(* Batch b comes to be; central may or may not turn out to object to it. *)
Appears(b) ==
  /\ refusable' \in {refusable, refusable \cup {b}}
  /\ UNCHANGED <<central, got>>

Takes(b) ==
  /\ central
  /\ b \notin refusable
  /\ got' = got \cup {b}
  /\ UNCHANGED <<central, refusable>>

(* The errors a push of b can end with: 400, 413 or 422; or another status, *)
(* a timeout or no connection.                                              *)
Errors(b) ==
  IF ~central THEN {"later"} ELSE IF b \in refusable THEN {"payload"} ELSE {}

(* Mutant of Unsendable: every rejected batch is retried. *)
UnsendableNever(err) == FALSE

(* Unsendable: the error names the batch itself as the problem. *)
Unsendable(err) == err = "payload"

(* Central goes away and comes back. *)
CentralTurns == central' = ~central /\ UNCHANGED <<refusable, got>>
=============================================================================
