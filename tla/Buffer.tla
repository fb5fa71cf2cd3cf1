------------------------------- MODULE Buffer -------------------------------
(***************************************************************************)
(* The bounded FIFO of unsent batches (internal/buffer/buffer.go).  Each   *)
(* operation below runs under Buffer.mu, so it is one step of whichever    *)
(* goroutine calls it.                                                     *)
(***************************************************************************)
EXTENDS Naturals, Sequences

CONSTANTS
  MaxItems,    \* the entry-count bound (BUFFER_MAX)
  MaxBytes,    \* the payload-size bound
  Sizes        \* the sizes a batch can have

ASSUME BufferAssumption ==
  /\ MaxItems \in Nat \ {0}
  /\ MaxBytes \in Nat
  /\ Sizes \subseteq Nat

VARIABLES
  items,       \* the queue, oldest first
  bytes,       \* the running total of the sizes queued
  nextID,      \* the last id given to an entry of this process
  spill        \* the spill file: <<>> when there is none

bufferVars == <<items, bytes, nextID, spill>>

(* An entry: its slot id, its idempotency key (the batch's number) and the  *)
(* size of its data.                                                        *)
Entry == [id : Nat, key : Nat, size : Sizes]

NoEntry == [id |-> 0, key |-> 0, size |-> 0]

Keys(q) == {q[i].key : i \in DOMAIN q}

(* The sizes of the first n entries of q added up, for each n. *)
Totals(q) ==
  LET total[n \in 0 .. Len(q)] == IF n = 0 THEN 0 ELSE total[n - 1] + q[n].size
  IN  total

TotalSize(q) == Totals(q)[Len(q)]

BufferInit == items = <<>> /\ bytes = 0 /\ nextID = 0 /\ spill = <<>>

(* With its j oldest entries gone, queue q of n bytes is still over a bound. *)
Overfull(q, n, j) ==
  /\ Len(q) - j > 1
  /\ \/ Len(q) - j > MaxItems
     \/ n - Totals(q)[j] > MaxBytes

(* Mutant of Trimmed: the bytes of the dropped entries stay counted. *)
TrimmedKeepingBytes(q, n) ==
  \E k \in 0 .. Len(q) - 1 :
    /\ \A j \in 0 .. k : Overfull(q, n, j) <=> j < k
    /\ items' = SubSeq(q, k + 1, Len(q))
    /\ bytes' = n

(* trimLocked, on queue q of n bytes: the fewest oldest entries that bring  *)
(* it inside both bounds are dropped, never the last one.                   *)
Trimmed(q, n) ==
  \E k \in 0 .. Len(q) - 1 :
    /\ \A j \in 0 .. k : Overfull(q, n, j) <=> j < k
    /\ items' = SubSeq(q, k + 1, Len(q))
    /\ bytes' = n - Totals(q)[k]

Push(key, size) ==
  /\ nextID' = nextID + 1
  /\ Trimmed(Append(items, [id |-> nextID + 1, key |-> key, size |-> size]), bytes + size)
  /\ UNCHANGED spill

(* Mutant of Peek: the newest entry. *)
PeekNewest == items[Len(items)]

Peek == Head(items)

(* PopFront: the head goes, whatever it is. *)
PopFront ==
  /\ IF items = <<>>
     THEN UNCHANGED <<items, bytes>>
     ELSE items' = Tail(items) /\ bytes' = bytes - Head(items).size
  /\ UNCHANGED <<nextID, spill>>

(* PopSent: the head goes if it is still the entry that was sent. *)
PopSent(sent) ==
  IF items # <<>> /\ Head(items).id = sent.id
  THEN PopFront
  ELSE UNCHANGED bufferVars

Save == spill' = items /\ UNCHANGED <<items, bytes, nextID>>

(* Mutant of Renumbered: restored entries have the id JSON leaves them. *)
RenumberedNot(q) == [i \in DOMAIN q |-> [q[i] EXCEPT !.id = 0]]

(* Restored entries are given fresh ids. *)
Renumbered(q) == [i \in DOMAIN q |-> [q[i] EXCEPT !.id = nextID + i]]

(* Load, up to the removal of the file: a missing file restores nothing. *)
Load ==
  IF spill = <<>>
  THEN UNCHANGED bufferVars
  ELSE /\ nextID' = nextID + Len(spill)
       /\ LET q == Renumbered(spill) \o items IN Trimmed(q, TotalSize(q))
       /\ UNCHANGED spill

(* The end of Load. *)
RemoveSpill == spill' = <<>> /\ UNCHANGED <<items, bytes, nextID>>

(* The process is gone, and its memory with it. *)
Forget == items' = <<>> /\ bytes' = 0 /\ nextID' = 0 /\ UNCHANGED spill
-----------------------------------------------------------------------------
(* MemoryBounded says what bytes is. *)
BufferTypeOK ==
  /\ items \in Seq(Entry) /\ Len(items) <= MaxItems
  /\ nextID \in Nat
  /\ spill \in Seq(Entry) /\ Len(spill) <= MaxItems

(* The running byte count, kept by addition and subtraction across Push,    *)
(* PopSent, trimLocked and Load, never drifts from what is queued (a drift  *)
(* would evict good batches, or let the queue outgrow the container's       *)
(* memory), and stays inside its bound unless a single entry exceeds it.    *)
MemoryBounded ==
  /\ bytes = TotalSize(items)
  /\ Len(items) > 1 => bytes <= MaxBytes
=============================================================================
