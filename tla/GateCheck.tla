----------------------------- MODULE GateCheck ------------------------------
(***************************************************************************)
(* A goroutine about to use the print server evaluates the gate            *)
(* (printServerGate and safeForPrintServer, internal/app/app.go) beside    *)
(* everything GameGate models.  The gate is not read at one moment: each   *)
(* of its parts is an atomic load of its own, and any handler may run      *)
(* between two of them.                                                    *)
(***************************************************************************)
EXTENDS GameGate

VARIABLES
  chk,      \* where the evaluation is: the next part to load, or its outcome
  chkTold   \* history: the game the agent had been told of as it began, or 0

checkVars == <<vars, chk, chkTold>>

CheckInit == Init /\ chk = "none" /\ chkTold = 0

Outcome(ok, next) == chk' = IF ok THEN next ELSE "none"

(* serverMode.Load and printServerSafe. *)
LoadMode ==
  /\ chk = "none"
  /\ Outcome(PrintServerSafe(serverMode), "state")
  /\ chkTold' = IF Playing /\ Told THEN game ELSE 0

(* Mutant of LoadState: the bus-driven state is not consulted. *)
LoadStateUnchecked ==
  /\ chk = "state"
  /\ Outcome(TRUE, "fresh")
  /\ UNCHANGED chkTold

(* gameState.Load. *)
LoadState ==
  /\ chk = "state"
  /\ Outcome(gameState = "idle", "fresh")
  /\ UNCHANGED chkTold

(* serverModeFresh. *)
LoadFresh ==
  /\ chk = "fresh"
  /\ Outcome(fresh, "unsettled")
  /\ UNCHANGED chkTold

(* pollUnsettled.Load: the gate is found open. *)
LoadUnsettled ==
  /\ chk = "unsettled"
  /\ Outcome(~pollUnsettled, "passed")
  /\ UNCHANGED chkTold

(* What passed the gate goes on to the print server. *)
Use ==
  /\ chk = "passed"
  /\ chk' = "none"
  /\ UNCHANGED chkTold

Check == LoadMode \/ LoadState \/ LoadFresh \/ LoadUnsettled \/ Use

CheckNext ==
  \/ Check /\ UNCHANGED vars
  \/ Next /\ UNCHANGED <<chk, chkTold>>

CheckSpec == CheckInit /\ [][CheckNext]_checkVars
-----------------------------------------------------------------------------
CheckTypeOK ==
  /\ chk \in {"none", "state", "fresh", "unsettled", "passed"}
  /\ chkTold \in Nat

(* Loading the gate's parts one by one never adds up to an open gate that   *)
(* was not: a goroutine that begins its check after the agent was told of   *)
(* the game being played does not pass while that game goes on, whatever    *)
(* handlers run between its loads (printServerGate's loads, noteServerMode, *)
(* reconcileState).                                                         *)
NoPassOnceTold == chk = "passed" /\ chkTold # 0 => ~(Playing /\ game = chkTold)
=============================================================================
