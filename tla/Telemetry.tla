----------------------------- MODULE Telemetry -----------------------------
(***************************************************************************)
(* The telemetry path from the poll loop to central (internal/app/app.go   *)
(* enqueue, deliverLoop, drainBuffer, saveBuffer, over Buffer), and the    *)
(* agent's life: start, graceful stop, crash.                              *)
(*                                                                         *)
(* deliverLoop peeks, sends and pops in separate steps, while the poll     *)
(* loop goes on pushing; a graceful stop spills the queue without waiting  *)
(* for deliverLoop, which goes on draining until the process exits.        *)
(***************************************************************************)
EXTENDS Buffer, Central

CONSTANTS
  MaxMade,     \* bound: batches made
  MaxStops     \* bound: times the agent starts again

ASSUME TelemetryAssumption == MaxMade \in Nat /\ MaxStops \in Nat

VARIABLES
  phase,       \* the process: down, loaded, up, stopping, spilled
  deliverSignal, \* the one-slot wake-up for deliverLoop
  pc,          \* deliverLoop: idle, peek, sending, done
  held,        \* the entry drainBuffer peeked
  \* history
  made,        \* batches made
  evicted,     \* batches dropped by the bounds
  crashed,     \* batches that were in memory only when the process crashed
  restarts, crashes

loopVars == <<deliverSignal, pc, held>>
histVars == <<made, evicted, crashed, restarts, crashes>>
vars == <<bufferVars, phase, loopVars, centralVars, histVars>>

Running == phase \in {"up", "stopping", "spilled"}

Init ==
  /\ BufferInit
  /\ phase = "up"
  /\ deliverSignal = FALSE /\ pc = "idle" /\ held = NoEntry
  /\ CentralInit
  /\ made = 0 /\ evicted = {} /\ crashed = {} /\ restarts = 0 /\ crashes = 0

(* The batches a trim of the queue, holding keys K before it, drops. *)
NoteEvicted(K) == evicted' = evicted \cup (K \ Keys(items'))
-----------------------------------------------------------------------------
(* The poll loop: collect builds a batch, enqueue pushes it and signals. *)
Enqueue(size) ==
  /\ phase = "up"
  /\ made < MaxMade
  /\ made' = made + 1
  /\ Appears(made + 1)
  /\ Push(made + 1, size)
  /\ NoteEvicted(Keys(items))
  /\ deliverSignal' = TRUE
  /\ UNCHANGED <<phase, pc, held, crashed, restarts, crashes>>
-----------------------------------------------------------------------------
(***************************************************************************)
(* deliverLoop and drainBuffer.                                            *)
(***************************************************************************)

(* A signal or a tick of the retry timer starts a drain. *)
Wake ==
  /\ Running
  /\ pc = "idle"
  /\ pc' = "peek"
  /\ deliverSignal' \in {deliverSignal, FALSE}
  /\ UNCHANGED <<bufferVars, phase, held, centralVars, histVars>>

PeekHead ==
  /\ Running
  /\ pc = "peek"
  /\ IF items = <<>>
     THEN pc' = "idle" /\ held' = NoEntry
     ELSE pc' = "sending" /\ held' = Peek
  /\ UNCHANGED <<bufferVars, phase, deliverSignal, centralVars, histVars>>

(* Central takes the batch. *)
Accepted ==
  /\ Running
  /\ pc = "sending"
  /\ Takes(held.key)
  /\ pc' = "done"
  /\ UNCHANGED <<bufferVars, phase, deliverSignal, held, histVars>>

(* Central takes the batch, and its answer is lost: the push has failed. *)
AnswerLost ==
  /\ Running
  /\ pc = "sending"
  /\ Takes(held.key)
  /\ pc' = "idle"
  /\ held' = NoEntry
  /\ UNCHANGED <<bufferVars, phase, deliverSignal, histVars>>

(* The push fails: a batch that is itself the problem is dropped, any other *)
(* stays queued and the drain ends.                                         *)
PushFails ==
  /\ Running
  /\ pc = "sending"
  /\ \E err \in Errors(held.key) :
       IF Unsendable(err)
       THEN pc' = "done" /\ UNCHANGED held
       ELSE pc' = "idle" /\ held' = NoEntry
  /\ UNCHANGED <<bufferVars, phase, deliverSignal, centralVars, histVars>>

(* The round trip is over: what was sent is popped, and the drain goes on. *)
PopHeld ==
  /\ Running
  /\ pc = "done"
  /\ PopSent(held)
  /\ pc' = "peek"
  /\ held' = NoEntry
  /\ UNCHANGED <<phase, deliverSignal, centralVars, histVars>>
-----------------------------------------------------------------------------
(***************************************************************************)
(* The process.  Run's context ends; saveBuffer runs; the process exits.   *)
(***************************************************************************)
Stop ==
  /\ phase = "up"
  /\ restarts < MaxStops
  /\ phase' = "stopping"
  /\ UNCHANGED <<bufferVars, loopVars, centralVars, histVars>>

SaveBuffer ==
  /\ phase = "stopping"
  /\ phase' = "spilled"
  /\ Save
  /\ UNCHANGED <<loopVars, centralVars, histVars>>

LoopGone == deliverSignal' = FALSE /\ pc' = "idle" /\ held' = NoEntry

Exit ==
  /\ phase = "spilled"
  /\ phase' = "down"
  /\ Forget
  /\ LoopGone
  /\ UNCHANGED <<centralVars, histVars>>

(* The process dies, or the spill cannot be written: memory is lost. *)
Crash ==
  /\ phase # "down"
  /\ restarts < MaxStops
  /\ phase' = "down"
  /\ crashes' = crashes + 1
  /\ crashed' = crashed \cup (Keys(items) \ Keys(spill))
  /\ Forget
  /\ LoopGone
  /\ UNCHANGED <<centralVars, made, evicted, restarts>>

(* New: Load reads the spill file back, and then removes it. *)
Start ==
  /\ phase = "down"
  /\ phase' = "loaded"
  /\ restarts' = restarts + 1
  /\ Load
  /\ NoteEvicted(Keys(items) \cup Keys(spill))
  /\ UNCHANGED <<loopVars, centralVars, made, crashed, crashes>>

Started ==
  /\ phase = "loaded"
  /\ phase' = "up"
  /\ RemoveSpill
  /\ UNCHANGED <<loopVars, centralVars, histVars>>

CentralChanges ==
  CentralTurns /\ UNCHANGED <<bufferVars, phase, loopVars, histVars>>
-----------------------------------------------------------------------------
DeliverLoop ==
  Wake \/ PeekHead \/ Accepted \/ AnswerLost \/ PushFails \/ PopHeld

Process == SaveBuffer \/ Exit \/ Start \/ Started

Next ==
  \/ \E size \in Sizes : Enqueue(size)
  \/ DeliverLoop
  \/ Stop \/ Crash \/ Process
  \/ CentralChanges

Spec == Init /\ [][Next]_vars

(* deliverLoop ticks as long as the process runs, a stop runs to its end    *)
(* and the supervisor starts the agent again.                               *)
Fairness == WF_vars(DeliverLoop) /\ WF_vars(Process)

FairSpec == Spec /\ Fairness
-----------------------------------------------------------------------------
TypeOK ==
  /\ BufferTypeOK
  /\ phase \in {"down", "loaded", "up", "stopping", "spilled"}
  /\ deliverSignal \in BOOLEAN
  /\ pc \in {"idle", "peek", "sending", "done"}
  /\ held \in Entry \cup {NoEntry}
  /\ central \in BOOLEAN
  /\ made \in 0 .. MaxMade
  /\ refusable \subseteq 1 .. made /\ got \subseteq 1 .. made
  /\ evicted \subseteq 1 .. made /\ crashed \subseteq 1 .. made
  /\ restarts \in Nat /\ crashes \in Nat

(* No batch vanishes: each one made is queued, in the spill file, at        *)
(* central, refused by it, or was dropped by the bounds or caught in memory *)
(* by a crash.  In particular the batch that replaces an evicted one during *)
(* its round trip is not popped in its place (drainBuffer, PopSent).        *)
NoneVanishes ==
  \A b \in 1 .. made :
    b \in Keys(items) \cup Keys(spill) \cup got \cup refusable \cup evicted \cup crashed

(* The path implements the bounded FIFO it stands for: in particular        *)
(* central first sees batches in the order they were made, across           *)
(* evictions, retries, lost answers, spills, restarts and crashes.          *)
Promise == INSTANCE LossyFifo WITH owed <- Keys(items) \cup Keys(spill)
Implements == Promise!Spec

(* Once central stays up and its answers arrive, nothing stays queued: a    *)
(* batch central refuses does not hold back the batches behind it for good  *)
(* (drainBuffer).                                                           *)
Drains ==
  <>[]central /\ <>[][~AnswerLost]_vars => []<>(items = <<>> /\ spill = <<>>)
=============================================================================
