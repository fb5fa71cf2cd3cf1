------------------------------- MODULE PackIR -------------------------------
(***************************************************************************)
(* The pack-IR listener (internal/packir/packir.go): readings posted on    *)
(* the venue LAN, queued in a Buffer of their own and forwarded to         *)
(* central.  It uses the same buffer as Telemetry, in its own way: the     *)
(* drain pops whatever is at the head, and Close spills the queue before   *)
(* it stops the listener.                                                  *)
(***************************************************************************)
EXTENDS Buffer, Central

CONSTANTS
  MaxMade,     \* bound: readings posted
  MaxStops     \* bound: times the process ends

ASSUME PackIRAssumption == MaxMade \in Nat /\ MaxStops \in Nat

VARIABLES
  phase,       \* down, loaded, up, spilled, closing (the listener is shut)
  trigger,     \* the one-slot wake-up for drainLoop
  pc,          \* drainLoop: idle, peek, sending, done
  held,        \* the entry drain peeked
  posted,      \* readings numbered by a handler that has not queued them yet
  \* history
  made,        \* readings numbered so far
  accepted,    \* readings answered 202
  late,        \* those of them queued after Close had saved the queue
  evicted,     \* those dropped by the bounds
  crashed,     \* those in memory only when the process crashed
  stops

loopVars == <<trigger, pc, held>>
histVars == <<made, accepted, late, evicted, crashed, stops>>
vars == <<bufferVars, centralVars, phase, loopVars, posted, histVars>>

Running == phase \in {"up", "spilled", "closing"}

Listening == phase \in {"up", "spilled"}

Init ==
  /\ BufferInit
  /\ CentralInit
  /\ phase = "up"
  /\ trigger = FALSE /\ pc = "idle" /\ held = NoEntry /\ posted = {}
  /\ made = 0 /\ accepted = {} /\ late = {} /\ evicted = {} /\ crashed = {} /\ stops = 0

NoteEvicted(K) == evicted' = evicted \cup (K \ Keys(items'))
-----------------------------------------------------------------------------
(***************************************************************************)
(* handle, on one goroutine per request.                                   *)
(***************************************************************************)
Post ==
  /\ Listening
  /\ made < MaxMade
  /\ made' = made + 1
  /\ posted' = posted \cup {made + 1}
  /\ Appears(made + 1)
  /\ UNCHANGED <<bufferVars, phase, loopVars, accepted, late, evicted, crashed, stops>>

(* The reading is queued, drainLoop signalled and the sender answered 202. *)
Accept(r, size) ==
  /\ r \in posted
  /\ posted' = posted \ {r}
  /\ Push(r, size)
  /\ NoteEvicted(Keys(items))
  /\ trigger' = TRUE
  /\ accepted' = accepted \cup {r}
  /\ late' = IF phase = "up" THEN late ELSE late \cup {r}
  /\ UNCHANGED <<centralVars, phase, pc, held, made, crashed, stops>>
-----------------------------------------------------------------------------
(***************************************************************************)
(* drainLoop and drain.                                                    *)
(***************************************************************************)
Wake ==
  /\ Running
  /\ pc = "idle"
  /\ pc' = "peek"
  /\ trigger' \in {trigger, FALSE}
  /\ UNCHANGED <<bufferVars, centralVars, phase, held, posted, histVars>>

PeekHead ==
  /\ Running
  /\ pc = "peek"
  /\ IF items = <<>>
     THEN pc' = "idle" /\ held' = NoEntry
     ELSE pc' = "sending" /\ held' = Peek
  /\ UNCHANGED <<bufferVars, centralVars, phase, trigger, posted, histVars>>

Forwarded ==
  /\ Running
  /\ pc = "sending"
  /\ Takes(held.key)
  /\ pc' = "done"
  /\ UNCHANGED <<bufferVars, phase, trigger, held, posted, histVars>>

AnswerLost ==
  /\ Running
  /\ pc = "sending"
  /\ Takes(held.key)
  /\ pc' = "idle"
  /\ held' = NoEntry
  /\ UNCHANGED <<bufferVars, phase, trigger, posted, histVars>>

ForwardFails ==
  /\ Running
  /\ pc = "sending"
  /\ \E err \in Errors(held.key) :
       IF Unsendable(err)
       THEN pc' = "done" /\ UNCHANGED held
       ELSE pc' = "idle" /\ held' = NoEntry
  /\ UNCHANGED <<bufferVars, centralVars, phase, trigger, posted, histVars>>

(* What drain does with the queue once a reading is dealt with. *)
Popped == PopFront

PopHeld ==
  /\ Running
  /\ pc = "done"
  /\ Popped
  /\ pc' = "peek"
  /\ held' = NoEntry
  /\ UNCHANGED <<centralVars, phase, trigger, posted, histVars>>
-----------------------------------------------------------------------------
(***************************************************************************)
(* The process.                                                            *)
(***************************************************************************)

(* Mutant of CloseSave: nothing is spilled. *)
CloseSaveNot == UNCHANGED bufferVars

CloseSave == Save

(* Close, first half: the spill. *)
CloseSpills ==
  /\ phase = "up"
  /\ stops < MaxStops
  /\ stops' = stops + 1
  /\ phase' = "spilled"
  /\ CloseSave
  /\ UNCHANGED <<centralVars, loopVars, posted, made, accepted, late, evicted, crashed>>

(* Close, second half: Shutdown takes no more requests... *)
Shutdown ==
  /\ phase = "spilled"
  /\ phase' = "closing"
  /\ UNCHANGED <<bufferVars, centralVars, loopVars, posted, histVars>>

Ended == trigger' = FALSE /\ pc' = "idle" /\ held' = NoEntry /\ posted' = {} /\ Forget

(* ...and waits two seconds at most for those being handled. *)
Exit ==
  /\ phase = "closing"
  /\ phase' = "down"
  /\ Ended
  /\ UNCHANGED <<centralVars, histVars>>

Crash ==
  /\ phase # "down"
  /\ stops < MaxStops
  /\ stops' = stops + 1
  /\ phase' = "down"
  /\ crashed' = crashed \cup (Keys(items) \ Keys(spill))
  /\ Ended
  /\ UNCHANGED <<centralVars, made, accepted, late, evicted>>

(* New. *)
Start ==
  /\ phase = "down"
  /\ phase' = "loaded"
  /\ Load
  /\ NoteEvicted(Keys(items) \cup Keys(spill))
  /\ UNCHANGED <<centralVars, loopVars, posted, made, accepted, late, crashed, stops>>

Started ==
  /\ phase = "loaded"
  /\ phase' = "up"
  /\ RemoveSpill
  /\ UNCHANGED <<centralVars, loopVars, posted, histVars>>

CentralChanges ==
  CentralTurns /\ UNCHANGED <<bufferVars, phase, loopVars, posted, histVars>>
-----------------------------------------------------------------------------
Handlers == Post \/ \E r \in posted, size \in Sizes : Accept(r, size)

DrainLoop == Wake \/ PeekHead \/ Forwarded \/ AnswerLost \/ ForwardFails \/ PopHeld

Process == Shutdown \/ Exit \/ Start \/ Started

Next == Handlers \/ DrainLoop \/ CloseSpills \/ Crash \/ Process \/ CentralChanges

Spec == Init /\ [][Next]_vars

FairSpec == Spec /\ WF_vars(DrainLoop) /\ WF_vars(Process)
-----------------------------------------------------------------------------
TypeOK ==
  /\ BufferTypeOK
  /\ phase \in {"down", "loaded", "up", "spilled", "closing"}
  /\ trigger \in BOOLEAN
  /\ pc \in {"idle", "peek", "sending", "done"}
  /\ held \in Entry \cup {NoEntry}
  /\ central \in BOOLEAN
  /\ made \in 0 .. MaxMade
  /\ \A S \in {posted, accepted, late, evicted, crashed, refusable, got} : S \subseteq 1 .. made
  /\ stops \in 0 .. MaxStops

(* Readings answered 202 that are nowhere any more. *)
Vanished ==
  accepted \ (Keys(items) \cup Keys(spill) \cup got \cup refusable \cup evicted \cup crashed)

(* A reading that was answered 202 is lost only under pressure: where the   *)
(* bounds have evicted nothing and nothing was accepted while the agent was *)
(* stopping, it is at central, refused by it, queued, or spilled, whatever  *)
(* else failed and in whatever order handlers queued theirs (handle, drain, *)
(* Close, New).                                                             *)
LossNeedsPressure == evicted = {} => Vanished \subseteq late

(* Once central stays up and its answers arrive, nothing stays queued, with *)
(* no new reading to trigger a drain (drainLoop's ticker).                  *)
Drains ==
  <>[]central /\ <>[][~AnswerLost]_vars => []<>(items = <<>> /\ spill = <<>>)

(* A reading leaves the queue because it was sent or refused: nothing       *)
(* removes one that was not (buffer.go's account of PopSent, and            *)
(* packir.go's "buffering across outages exactly like the telemetry path"). *)
OnlyDealtWithLeaves == phase = "up" => Vanished = {}
=============================================================================
