---------------------------- MODULE PrintServer ----------------------------
(***************************************************************************)
(* Whether the print server answers (printServerPresence,                  *)
(* internal/app/printserver.go).  Each operation runs under its lock.      *)
(*                                                                         *)
(* Times are kept as what has become of them: checkDue says that nextCheck *)
(* is past while the print server is absent, spread that minSpan has       *)
(* passed since the first of the current failures.                         *)
(***************************************************************************)
EXTENDS Naturals

CONSTANT AbsentAfter    \* failed dials in a row (0: never absent)

ASSUME PrintServerAssumption == AbsentAfter \in Nat

VARIABLES
  presence,     \* state: unknown, present or absent
  failures,     \* consecutive failed dials, as far as they matter
  spread,       \* they are spread over minSpan by now
  checkDue,     \* an absent print server is due a check
  everReached   \* it has answered in this run

psVars == <<presence, failures, spread, checkDue, everReached>>

PsInit ==
  /\ presence = "unknown" /\ failures = 0 /\ spread = FALSE
  /\ checkDue = FALSE /\ everReached = FALSE

(* Mutant of Refused: no check ever falls due. *)
RefusedForGood(manual) == ~manual /\ presence = "absent"

(* allow, refusing: automatic work before the next check. *)
Refused(manual) == ~manual /\ presence = "absent" /\ ~checkDue

(* allow, granting: a check that is due is claimed. *)
Claimed(manual) ==
  /\ checkDue' = (checkDue /\ manual)
  /\ UNCHANGED <<presence, failures, spread, everReached>>

Least(a, b) == IF a <= b THEN a ELSE b

(* failed.  It returns presence' = "absent". *)
Failed(manual) ==
  LET n    == Least(failures + 1, IF AbsentAfter = 0 THEN 1 ELSE AbsentAfter)
      wide == failures > 0 /\ spread
      gone == AbsentAfter # 0 /\ n = AbsentAfter /\ wide
  IN  IF manual /\ presence # "absent"
      THEN UNCHANGED psVars
      ELSE /\ failures' = n
           /\ spread' = wide
           /\ presence' = IF gone THEN "absent" ELSE presence
           /\ checkDue' = (checkDue /\ manual)
           /\ UNCHANGED everReached

(* reached.  It returns presence = "absent". *)
Reached ==
  /\ presence' = "present" /\ failures' = 0 /\ spread' = FALSE
  /\ checkDue' = FALSE /\ everReached' = TRUE

(* gameFinished: the next check is due now. *)
GameFinished ==
  /\ checkDue' = (checkDue \/ (presence = "absent" /\ everReached))
  /\ UNCHANGED <<presence, failures, spread, everReached>>

(* queueing: nothing is queued for one that never answered. *)
NothingToFetchFrom == presence = "absent" /\ ~everReached

(* Time passes. *)
CheckFallsDue ==
  /\ presence = "absent" /\ ~checkDue
  /\ checkDue' = TRUE
  /\ UNCHANGED <<presence, failures, spread, everReached>>

FailuresSpread ==
  /\ failures > 0 /\ ~spread
  /\ spread' = TRUE
  /\ UNCHANGED <<presence, failures, checkDue, everReached>>
-----------------------------------------------------------------------------
PsTypeOK ==
  /\ presence \in {"unknown", "present", "absent"}
  /\ failures \in Nat
  /\ spread \in BOOLEAN /\ checkDue \in BOOLEAN /\ everReached \in BOOLEAN
=============================================================================
