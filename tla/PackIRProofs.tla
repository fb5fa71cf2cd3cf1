---------------------------- MODULE PackIRProofs ----------------------------
(***************************************************************************)
(* Proofs about PackIR, for every bound and every set of sizes.            *)
(*                                                                         *)
(* The argument: readings are queued once each, so as long as the bounds   *)
(* have dropped none, the queue only grows at its end while a reading is   *)
(* being forwarded, and what drain pops is the one it forwarded.           *)
(***************************************************************************)
EXTENDS PackIR, SequenceTheorems, TLAPS

(* What Buffer's operations leave of a queue in which no reading is twice.  *)
Queues ==
  /\ items \in Seq(Entry) /\ spill \in Seq(Entry)
  /\ nextID \in Nat

(* The keys of a queue differ, entry by entry. *)
Differ(q) == \A i, j \in 1 .. Len(q) : q[i].key = q[j].key => i = j

(* The batches of a queue, position by position. *)
LEMMA KeysOf ==
  ASSUME NEW q \in Seq(Entry)
  PROVE  Keys(q) = {q[i].key : i \in 1 .. Len(q)}
<1>1. DOMAIN q = 1 .. Len(q)
  BY LenProperties
<1>2. QED
  BY <1>1 DEF Keys

(* What a trim leaves is an end of the queue it was given. *)
LEMMA TrimFacts ==
  ASSUME NEW q \in Seq(Entry), NEW n, Trimmed(q, n)
  PROVE  \E k \in Nat :
           /\ k < Len(q)
           /\ items' \in Seq(Entry)
           /\ Len(items') = Len(q) - k
           /\ \A i \in 1 .. Len(items') : items'[i] = q[i + k]
<1>1. PICK k \in 0 .. Len(q) - 1 : items' = SubSeq(q, k + 1, Len(q))
  BY DEF Trimmed
<1>2. Len(q) \in Nat /\ k \in Nat /\ k + 1 \in Int /\ k + 1 <= Len(q)
  BY LenProperties
<1>3. \A i \in k + 1 .. Len(q) : q[i] \in Entry
  BY <1>2, ElementOfSeq
<1>4. /\ SubSeq(q, k + 1, Len(q)) \in Seq(Entry)
      /\ Len(SubSeq(q, k + 1, Len(q))) = Len(q) - k
      /\ \A i \in 1 .. Len(q) - k : SubSeq(q, k + 1, Len(q))[i] = q[i + k]
  BY <1>2, <1>3, SubSeqProperties
<1>5. /\ k < Len(q)
      /\ items' \in Seq(Entry)
      /\ Len(items') = Len(q) - k
      /\ \A i \in 1 .. Len(items') : items'[i] = q[i + k]
  BY <1>1, <1>2, <1>4
<1>6. QED
  BY <1>2, <1>5

(* trimLocked leaves no more entries than the bound, which is at least one. *)
LEMMA TrimBounds ==
  ASSUME NEW q \in Seq(Entry), NEW n, Trimmed(q, n)
  PROVE  Len(items') <= MaxItems
<1>1. PICK k \in 0 .. Len(q) - 1 :
        /\ \A j \in 0 .. k : Overfull(q, n, j) <=> j < k
        /\ items' = SubSeq(q, k + 1, Len(q))
  BY DEF Trimmed
<1>2. Len(q) \in Nat /\ MaxItems \in Nat \ {0}
  BY LenProperties, BufferAssumption
<1>3. k \in 0 .. k /\ ~ Overfull(q, n, k)
  BY <1>1, <1>2
<1>4. Len(q) - k <= MaxItems
  BY <1>2, <1>3 DEF Overfull
<1>5. \A i \in k + 1 .. Len(q) : q[i] \in Entry
  BY <1>2, ElementOfSeq
<1>6. Len(SubSeq(q, k + 1, Len(q))) = Len(q) - k
  BY <1>2, <1>5, SubSeqProperties
<1>7. QED
  BY <1>1, <1>4, <1>6

(* Popping the head leaves the rest of the queue as it was. *)
LEMMA PopFacts ==
  ASSUME items \in Seq(Entry), items # <<>>, PopFront
  PROVE  /\ items' \in Seq(Entry)
         /\ Len(items) \in Nat \ {0}
         /\ Len(items') = Len(items) - 1
         /\ \A i \in 1 .. Len(items') : items'[i] = items[i + 1]
         /\ Head(items) = items[1]
<1>1. items' = Tail(items)
  BY DEF PopFront
<1>2. QED
  BY <1>1, HeadTailProperties, LenProperties, EmptySeq

LEMMA PopKeys ==
  ASSUME items \in Seq(Entry), items # <<>>, PopFront
  PROVE  /\ Keys(items') \subseteq Keys(items)
         /\ Keys(items) \subseteq Keys(items') \cup {items[1].key}
<1>1. /\ items' \in Seq(Entry)
      /\ Len(items) \in Nat \ {0} /\ Len(items') = Len(items) - 1
      /\ \A i \in 1 .. Len(items') : items'[i] = items[i + 1]
  BY PopFacts
<1>2. /\ Keys(items) = {items[i].key : i \in 1 .. Len(items)}
      /\ Keys(items') = {items'[i].key : i \in 1 .. Len(items')}
  BY <1>1, KeysOf
<1>3. \A i \in 1 .. Len(items') : i + 1 \in 1 .. Len(items)
  BY <1>1
<1>4. ASSUME NEW i \in 1 .. Len(items)
      PROVE  items[i].key \in Keys(items') \cup {items[1].key}
  <2>1. CASE i = 1
    BY <2>1
  <2>2. CASE i # 1
    <3>1. i - 1 \in 1 .. Len(items') /\ (i - 1) + 1 = i
      BY <1>1, <2>2
    <3>2. items'[i - 1] = items[i]
      BY <1>1, <3>1
    <3>3. QED
      BY <1>2, <3>1, <3>2
  <2>3. QED
    BY <2>1, <2>2
<1>5. QED
  BY <1>1, <1>2, <1>3, <1>4

(* A trim that drops no batch drops no entry, where keys differ. *)
LEMMA TrimNone ==
  ASSUME NEW q \in Seq(Entry), NEW n, Trimmed(q, n), Differ(q)
  PROVE  /\ Differ(items')
         /\ Keys(q) \subseteq Keys(items') => items' = q
<1>1. PICK k \in Nat : /\ k < Len(q)
                       /\ items' \in Seq(Entry)
                       /\ Len(items') = Len(q) - k
                       /\ \A i \in 1 .. Len(items') : items'[i] = q[i + k]
  BY TrimFacts
<1>2. Len(q) \in Nat /\ Len(items') \in Nat
  BY <1>1, LenProperties
<1>3. \A i \in 1 .. Len(items') : i + k \in 1 .. Len(q)
  BY <1>1, <1>2
<1>4. Differ(items')
  <2>1. SUFFICES ASSUME NEW i \in 1 .. Len(items'), NEW j \in 1 .. Len(items'),
                        items'[i].key = items'[j].key
                 PROVE  i = j
    BY DEF Differ
  <2>2. q[i + k].key = q[j + k].key
    BY <1>1, <2>1
  <2>3. i + k = j + k
    BY <1>3, <2>2 DEF Differ
  <2>4. QED
    BY <1>1, <1>2, <2>3
<1>5. ASSUME Keys(q) \subseteq Keys(items') PROVE items' = q
  <2>1. /\ Keys(q) = {q[i].key : i \in 1 .. Len(q)}
        /\ Keys(items') = {items'[i].key : i \in 1 .. Len(items')}
    BY <1>1, KeysOf
  <2>2. 1 \in 1 .. Len(q)
    BY <1>1, <1>2
  <2>3. PICK i \in 1 .. Len(items') : q[1].key = items'[i].key
    BY <1>5, <2>1, <2>2
  <2>4. q[1].key = q[i + k].key
    BY <1>1, <2>3
  <2>5. 1 = i + k
    BY <1>3, <2>2, <2>4 DEF Differ
  <2>6. k = 0
    BY <1>1, <1>2, <2>5
  <2>7. Len(items') = Len(q) /\ \A j \in 1 .. Len(q) : items'[j] = q[j]
    BY <1>1, <1>2, <2>6
  <2>8. QED
    BY <1>1, <2>7, SeqEqual
<1>6. QED
  BY <1>4, <1>5

(* Push of a batch that is not queued: it is queued last, and where none is *)
(* dropped, behind what was there.                                          *)
LEMMA PushNew ==
  ASSUME Queues, Differ(items), NEW key \in Nat \ Keys(items), NEW size \in Sizes,
         Push(key, size)
  PROVE  /\ Queues'
         /\ Differ(items') /\ Len(items') <= MaxItems
         /\ key \in Keys(items') /\ Keys(items') \subseteq Keys(items) \cup {key}
         /\ items # <<>> /\ Keys(items) \subseteq Keys(items')
              => items' # <<>> /\ items'[1] = items[1]
<1> DEFINE e == [id |-> nextID + 1, key |-> key, size |-> size]
           q == Append(items, e)
<1>1. /\ items \in Seq(Entry) /\ nextID \in Nat /\ Len(items) \in Nat
      /\ Keys(items) = {items[i].key : i \in 1 .. Len(items)}
  BY LenProperties, KeysOf DEF Queues
<1>2. e \in Entry /\ e.key = key
  BY <1>1 DEF Entry
<1>3. /\ q \in Seq(Entry) /\ Len(q) = Len(items) + 1
      /\ \A i \in 1 .. Len(items) : q[i] = items[i]
      /\ q[Len(items) + 1] = e
  BY <1>1, <1>2, AppendProperties
<1>4. /\ Trimmed(q, bytes + size) /\ nextID' = nextID + 1 /\ spill' = spill
  BY DEF Push
<1> HIDE DEF e, q
<1>5. \A i \in 1 .. Len(q) : i \in 1 .. Len(items) \/ i = Len(items) + 1
  BY <1>1, <1>3
<1>6. Keys(q) = Keys(items) \cup {key}
  <2>1. Keys(q) = {q[i].key : i \in 1 .. Len(q)}
    BY <1>3, KeysOf
  <2>2. /\ \A i \in 1 .. Len(items) : i \in 1 .. Len(q)
        /\ Len(items) + 1 \in 1 .. Len(q)
    BY <1>1, <1>3
  <2>3. Keys(q) \subseteq Keys(items) \cup {key}
    BY <1>1, <1>2, <1>3, <1>5, <2>1
  <2>4. Keys(items) \subseteq Keys(q)
    BY <1>1, <1>3, <2>1, <2>2
  <2>5. key \in Keys(q)
    BY <1>2, <1>3, <2>1, <2>2
  <2>6. QED
    BY <2>3, <2>4, <2>5
<1>7. Differ(q)
  <2>1. SUFFICES ASSUME NEW i \in 1 .. Len(q), NEW j \in 1 .. Len(q), q[i].key = q[j].key
                 PROVE  i = j
    BY DEF Differ
  <2>2. CASE i \in 1 .. Len(items) /\ j \in 1 .. Len(items)
    BY <1>3, <2>1, <2>2 DEF Differ
  <2>3. CASE i = Len(items) + 1 /\ j \in 1 .. Len(items)
    BY <1>1, <1>2, <1>3, <2>1, <2>3
  <2>4. CASE j = Len(items) + 1 /\ i \in 1 .. Len(items)
    BY <1>1, <1>2, <1>3, <2>1, <2>4
  <2>5. QED
    BY <1>5, <2>2, <2>3, <2>4
<1>8. Differ(items') /\ (Keys(q) \subseteq Keys(items') => items' = q)
  BY <1>3, <1>4, <1>7, TrimNone
<1>9. PICK k \in Nat : /\ k < Len(q)
                       /\ items' \in Seq(Entry)
                       /\ Len(items') = Len(q) - k
                       /\ \A i \in 1 .. Len(items') : items'[i] = q[i + k]
  BY <1>3, <1>4, TrimFacts
<1>10. Keys(items') = {items'[i].key : i \in 1 .. Len(items')}
  BY <1>9, KeysOf
<1>11. Keys(items') \subseteq Keys(items) \cup {key}
  <2>1. Keys(q) = {q[i].key : i \in 1 .. Len(q)}
    BY <1>3, KeysOf
  <2>2. \A i \in 1 .. Len(items') : i + k \in 1 .. Len(q)
    BY <1>1, <1>3, <1>9
  <2>3. QED
    BY <1>6, <1>9, <1>10, <2>1, <2>2
<1>12. key \in Keys(items')
  <2>1. Len(items') \in 1 .. Len(items') /\ Len(items') + k = Len(items) + 1
    BY <1>1, <1>3, <1>9
  <2>2. QED
    BY <1>2, <1>3, <1>9, <1>10, <2>1
<1>13. Len(items') <= MaxItems
  BY <1>3, <1>4, TrimBounds
<1>14. ASSUME items # <<>>, Keys(items) \subseteq Keys(items')
       PROVE  items' # <<>> /\ items'[1] = items[1]
  <2>1. items' = q
    BY <1>6, <1>8, <1>12, <1>14
  <2>2. 1 \in 1 .. Len(items)
    BY <1>1, <1>14, EmptySeq
  <2>3. QED
    BY <1>1, <1>3, <2>1, <2>2, EmptySeq
<1>15. Queues'
  BY <1>1, <1>4, <1>9 DEF Queues
<1>16. QED
  BY <1>8, <1>11, <1>12, <1>13, <1>14, <1>15

(* Load into an empty queue: what is restored was spilled, each batch once. *)
LEMMA LoadNew ==
  ASSUME Queues, items = <<>>, Differ(spill), Load
  PROVE  /\ Queues' /\ spill' = spill
         /\ Differ(items') /\ Len(items') <= MaxItems
         /\ Keys(items') \subseteq Keys(spill)
<1>1. /\ spill \in Seq(Entry) /\ nextID \in Nat /\ Len(spill) \in Nat
      /\ DOMAIN spill = 1 .. Len(spill)
      /\ Keys(spill) = {spill[i].key : i \in 1 .. Len(spill)}
  BY LenProperties, KeysOf DEF Queues
<1>2. CASE spill = <<>>
  <2>1. UNCHANGED bufferVars
    BY <1>2 DEF Load
  <2>2. items' = spill /\ Len(items') = 0
    BY <1>2, <2>1, EmptySeq DEF bufferVars
  <2>3. QED
    BY <2>1, <2>2, BufferAssumption DEF bufferVars, Queues, Keys
<1>3. CASE spill # <<>>
  <2> DEFINE q == Renumbered(spill)
  <2>1. nextID' \in Nat /\ spill' = spill
    BY <1>1, <1>3 DEF Load
  <2>2. q = [i \in 1 .. Len(spill) |-> [spill[i] EXCEPT !.id = nextID + i]]
    BY <1>1 DEF Renumbered
  <2>3. ASSUME NEW i \in 1 .. Len(spill)
        PROVE  q[i] \in Entry /\ q[i].key = spill[i].key
    <3>1. spill[i] \in Entry /\ nextID + i \in Nat
      BY <1>1, ElementOfSeq
    <3>2. QED
      BY <2>2, <3>1 DEF Entry
  <2>4. q \in Seq(Entry) /\ Len(q) = Len(spill)
    <3>1. q \in [1 .. Len(spill) -> Entry]
      BY <2>2, <2>3
    <3>2. QED
      BY <1>1, <3>1
  <2> HIDE DEF q
  <2>5. Differ(q)
    BY <2>3, <2>4 DEF Differ
  <2>6. Trimmed(q, TotalSize(q))
    <3>1. q \o items = q
      BY <2>4, ConcatEmptySeq
    <3>2. QED
      BY <1>3, <3>1 DEF Load, q
  <2>7. Differ(items') /\ Len(items') <= MaxItems
    BY <2>4, <2>5, <2>6, TrimNone, TrimBounds
  <2>8. PICK k \in Nat : /\ k < Len(q)
                         /\ items' \in Seq(Entry)
                         /\ Len(items') = Len(q) - k
                         /\ \A i \in 1 .. Len(items') : items'[i] = q[i + k]
    BY <2>4, <2>6, TrimFacts
  <2>9. Keys(items') \subseteq Keys(spill)
    <3>1. Keys(items') = {items'[i].key : i \in 1 .. Len(items')}
      BY <2>8, KeysOf
    <3>2. \A i \in 1 .. Len(items') : i + k \in 1 .. Len(spill)
      BY <1>1, <2>4, <2>8
    <3>3. ASSUME NEW i \in 1 .. Len(items') PROVE items'[i].key \in Keys(spill)
      <4>1. items'[i] = q[i + k] /\ i + k \in 1 .. Len(spill)
        BY <2>8, <3>2
      <4>2. q[i + k].key = spill[i + k].key
        BY <2>3, <4>1
      <4>3. QED
        BY <1>1, <4>1, <4>2
    <3>4. QED
      BY <3>1, <3>3
  <2>10. QED
    BY <1>1, <2>1, <2>7, <2>8, <2>9 DEF Queues
<1>4. QED
  BY <1>2, <1>3

(* What is left when the head has gone. *)
LEMMA PopNew ==
  ASSUME Queues, Differ(items), Len(items) <= MaxItems, PopFront
  PROVE  /\ Queues' /\ spill' = spill
         /\ Differ(items') /\ Len(items') <= MaxItems
         /\ Keys(items') \subseteq Keys(items)
<1>1. CASE items = <<>>
  BY <1>1 DEF PopFront, Queues, Differ
<1>2. CASE items # <<>>
  <2>1. /\ items' \in Seq(Entry)
        /\ Len(items) \in Nat \ {0} /\ Len(items') = Len(items) - 1
        /\ \A i \in 1 .. Len(items') : items'[i] = items[i + 1]
    BY <1>2, PopFacts DEF Queues
  <2>2. Keys(items') \subseteq Keys(items)
    BY <1>2, PopKeys DEF Queues
  <2>3. Len(items') <= MaxItems
    BY <2>1, BufferAssumption
  <2>4. Differ(items')
    <3>1. \A i \in 1 .. Len(items') : i + 1 \in 1 .. Len(items)
      BY <2>1
    <3>2. SUFFICES ASSUME NEW i \in 1 .. Len(items'), NEW j \in 1 .. Len(items'),
                          items'[i].key = items'[j].key
                   PROVE  i = j
      BY DEF Differ
    <3>3. i + 1 = j + 1
      BY <2>1, <3>1, <3>2 DEF Differ
    <3>4. QED
      BY <2>1, <3>3
  <2>5. QED
    BY <2>1, <2>2, <2>3, <2>4 DEF PopFront, Queues
<1>3. QED
  BY <1>1, <1>2
-----------------------------------------------------------------------------
(* Each reading is numbered, then accepted, then queued, once. *)
OnceEach ==
  /\ Differ(items) /\ Differ(spill)
  /\ Keys(items) \cup Keys(spill) \subseteq accepted
  /\ posted \cap accepted = {}
  /\ posted # {} => Running

(* What drain holds is at the head, unless something was evicted. *)
HeldIsHead ==
  pc \in {"sending", "done"} =>
    /\ Running
    /\ held.key \in accepted
    /\ evicted = {} => items # <<>> /\ items[1] = held

(* Before it is popped, a reading is at central or has been refused. *)
HeldDealtWith == pc = "done" => held.key \in got \cup refusable

(* What the spill file has of the queue. *)
SpillInv ==
  /\ phase = "up" => spill = <<>>
  /\ phase \in {"spilled", "closing"} /\ evicted = {} => Keys(items) \subseteq Keys(spill) \cup late
  /\ phase = "loaded" => Keys(spill) \subseteq Keys(items) \cup evicted
  /\ phase = "down" => items = <<>>

IInv ==
  /\ TypeOK
  /\ OnceEach
  /\ HeldIsHead
  /\ HeldDealtWith
  /\ SpillInv
  /\ LossNeedsPressure
-----------------------------------------------------------------------------
LEMMA TypedQueues == TypeOK => Queues /\ made \in Nat /\ Len(items) <= MaxItems
BY PackIRAssumption DEF TypeOK, BufferTypeOK, Queues

LEMMA InitHolds == Init => IInv
<1> SUFFICES ASSUME Init PROVE IInv
  OBVIOUS
<1>1. /\ items = <<>> /\ spill = <<>> /\ nextID = 0 /\ phase = "up" /\ trigger = FALSE
      /\ pc = "idle" /\ held = NoEntry /\ posted = {} /\ made = 0 /\ accepted = {}
      /\ late = {} /\ evicted = {} /\ crashed = {} /\ stops = 0
      /\ central \in BOOLEAN /\ refusable = {} /\ got = {}
  BY DEF Init, BufferInit, CentralInit
<1>2. <<>> \in Seq(Entry) /\ Len(<<>>) = 0 /\ Keys(<<>>) = {} /\ Differ(<<>>)
  BY EmptySeq DEF Keys, Differ
<1>3. BufferTypeOK
  BY <1>1, <1>2, BufferAssumption DEF BufferTypeOK
<1>4. TypeOK
  <2>1. /\ phase \in {"down", "loaded", "up", "spilled", "closing"}
        /\ trigger \in BOOLEAN /\ central \in BOOLEAN
        /\ pc \in {"idle", "peek", "sending", "done"}
        /\ held \in Entry \cup {NoEntry}
    BY <1>1
  <2>2. made \in 0 .. MaxMade /\ stops \in 0 .. MaxStops
    BY <1>1, PackIRAssumption
  <2>3. \A S \in {posted, accepted, late, evicted, crashed, refusable, got} : S \subseteq 1 .. made
    BY <1>1
  <2>4. QED
    BY <1>3, <2>1, <2>2, <2>3 DEF TypeOK
<1>5. QED
  BY <1>1, <1>2, <1>4
     DEF IInv, OnceEach, HeldIsHead, HeldDealtWith, SpillInv, LossNeedsPressure, Vanished

(* A step that leaves the queue, the process and the readings alone. *)
LEMMA QuietStep ==
  ASSUME IInv, TypeOK', UNCHANGED <<bufferVars, phase, posted, accepted, late, evicted, crashed>>,
         got \subseteq got', refusable \subseteq refusable',
         pc' \in {"sending", "done"} => pc \in {"sending", "done"} /\ held' = held,
         pc' = "done" => held.key \in got' \cup refusable'
  PROVE  IInv'
<1>1. OnceEach' /\ SpillInv'
  BY DEF IInv, OnceEach, SpillInv, bufferVars, Keys, Differ, Running
<1>2. HeldIsHead'
  BY DEF IInv, HeldIsHead, bufferVars, Running
<1>3. HeldDealtWith'
  BY DEF HeldDealtWith
<1>4. LossNeedsPressure'
  BY DEF IInv, LossNeedsPressure, Vanished, bufferVars, Keys
<1>5. QED
  BY <1>1, <1>2, <1>3, <1>4 DEF IInv

(* handle: the reading gets its number. *)
LEMMA PostStep == ASSUME IInv, Post PROVE IInv'
<1>1. /\ made < MaxMade /\ made' = made + 1 /\ posted' = posted \cup {made + 1}
      /\ UNCHANGED <<bufferVars, phase, loopVars, accepted, late, evicted, crashed, stops>>
      /\ got' = got /\ central' = central
      /\ refusable' \in {refusable, refusable \cup {made + 1}}
  BY DEF Post, Appears
<1>2. /\ made \in Nat /\ made + 1 \in 0 .. MaxMade /\ made + 1 \in 1 .. made + 1
      /\ 1 .. made \subseteq 1 .. made + 1 /\ made + 1 \notin 1 .. made
  BY <1>1, PackIRAssumption DEF IInv, TypeOK
<1>3. TypeOK'
  <2>1. BufferTypeOK'
    BY <1>1 DEF IInv, TypeOK, BufferTypeOK, bufferVars
  <2>2. \A S \in {posted', accepted', late', evicted', crashed', refusable', got'} :
          S \subseteq 1 .. made'
    BY <1>1, <1>2 DEF IInv, TypeOK
  <2>3. QED
    BY <1>1, <1>2, <2>1, <2>2 DEF IInv, TypeOK, loopVars
<1>4. OnceEach'
  <2>1. accepted \subseteq 1 .. made
    BY DEF IInv, TypeOK
  <2>2. posted' \cap accepted' = {}
    BY <1>1, <1>2, <2>1 DEF IInv, OnceEach
  <2>3. Running'
    BY <1>1 DEF Post, Listening, Running
  <2>4. QED
    BY <1>1, <2>2, <2>3 DEF IInv, OnceEach, bufferVars, Keys, Differ
<1>5. HeldIsHead' /\ HeldDealtWith'
  BY <1>1 DEF IInv, HeldIsHead, HeldDealtWith, bufferVars, loopVars, Running
<1>6. SpillInv' /\ LossNeedsPressure'
  BY <1>1 DEF IInv, SpillInv, LossNeedsPressure, Vanished, bufferVars, Keys
<1>7. QED
  BY <1>3, <1>4, <1>5, <1>6 DEF IInv

(* Push, and the answer 202. *)
LEMMA AcceptStep ==
  ASSUME IInv, NEW r, NEW size \in Sizes, Accept(r, size)
  PROVE  IInv'
<1>1. /\ r \in posted /\ posted' = posted \ {r} /\ accepted' = accepted \cup {r}
      /\ Push(r, size)
      /\ evicted' = evicted \cup (Keys(items) \ Keys(items'))
      /\ trigger' = TRUE
      /\ late' = IF phase = "up" THEN late ELSE late \cup {r}
      /\ UNCHANGED <<centralVars, phase, pc, held, made, crashed, stops>>
  BY DEF Accept, NoteEvicted
<1>2. /\ Queues /\ made \in Nat /\ r \in 1 .. made /\ posted \subseteq 1 .. made
      /\ accepted \subseteq 1 .. made /\ evicted \subseteq 1 .. made /\ late \subseteq 1 .. made
      /\ Keys(items) \subseteq accepted /\ Keys(spill) \subseteq accepted
      /\ Differ(items) /\ Differ(spill)
      /\ r \notin accepted
  BY <1>1, TypedQueues DEF IInv, TypeOK, OnceEach
<1>3. r \in Nat \ Keys(items)
  BY <1>2
<1>4. /\ Queues' /\ spill' = spill
      /\ Differ(items') /\ Len(items') <= MaxItems
      /\ r \in Keys(items') /\ Keys(items') \subseteq Keys(items) \cup {r}
      /\ items # <<>> /\ Keys(items) \subseteq Keys(items')
           => items' # <<>> /\ items'[1] = items[1]
  <2>1. spill' = spill
    BY <1>1 DEF Push
  <2>2. QED
    BY <1>1, <1>2, <1>3, <2>1, PushNew
<1>5. TypeOK'
  <2>1. BufferTypeOK'
    BY <1>4 DEF IInv, TypeOK, BufferTypeOK, Queues
  <2>2. \A S \in {posted', accepted', late', evicted', crashed', refusable', got'} :
          S \subseteq 1 .. made'
    BY <1>1, <1>2 DEF IInv, TypeOK, centralVars
  <2>3. QED
    BY <1>1, <2>1, <2>2 DEF IInv, TypeOK, centralVars
<1>6. OnceEach'
  <2>1. Keys(spill') = Keys(spill)
    BY <1>4
  <2>2. posted' \cap accepted' = {}
    BY <1>1 DEF IInv, OnceEach
  <2>3. Running'
    BY <1>1 DEF IInv, OnceEach, Running
  <2>4. QED
    BY <1>1, <1>2, <1>4, <2>1, <2>2, <2>3 DEF OnceEach
<1>7. evicted' = {} => evicted = {} /\ Keys(items) \subseteq Keys(items')
  BY <1>1
<1>8. HeldIsHead' /\ HeldDealtWith'
  BY <1>1, <1>4, <1>7 DEF IInv, HeldIsHead, HeldDealtWith, Running, centralVars
<1>9. Keys(spill') = Keys(spill)
  BY <1>4
<1>10. SpillInv'
  <2>1. phase \in {"up", "spilled", "closing"}
    BY <1>1 DEF IInv, OnceEach, Running
  <2>2. QED
    BY <1>1, <1>4, <1>7, <1>9, <2>1 DEF IInv, SpillInv
<1>11. LossNeedsPressure'
  BY <1>1, <1>4, <1>7, <1>9 DEF IInv, LossNeedsPressure, Vanished, centralVars
<1>12. QED
  BY <1>5, <1>6, <1>8, <1>10, <1>11 DEF IInv

(* drain, but for its pop. *)
LEMMA DrainStep ==
  ASSUME IInv, Wake \/ Forwarded \/ AnswerLost \/ ForwardFails \/ CentralChanges \/ UNCHANGED vars
  PROVE  IInv'
<1>1. UNCHANGED <<bufferVars, phase, posted, made, accepted, late, evicted, crashed, stops>>
  BY DEF Wake, Forwarded, AnswerLost, ForwardFails, CentralChanges, vars, histVars
<1>2. /\ pc' \in {"idle", "peek", "sending", "done"} /\ trigger' \in BOOLEAN
      /\ held' \in {held, NoEntry} /\ central' \in BOOLEAN
      /\ pc' \in {"sending", "done"} => pc \in {"sending", "done"} /\ held' = held
      /\ refusable' = refusable
      /\ got' # got => pc = "sending" /\ got' = got \cup {held.key}
      /\ pc' = "done" => held.key \in got' \cup refusable'
  <2>1. CASE Wake \/ CentralChanges \/ UNCHANGED vars
    BY <2>1 DEF Wake, CentralChanges, CentralTurns, vars, loopVars, centralVars, IInv, TypeOK,
                HeldDealtWith
  <2>2. CASE Forwarded \/ AnswerLost
    BY <2>2 DEF Forwarded, AnswerLost, Takes, IInv, TypeOK
  <2>3. CASE ForwardFails
    BY <2>3 DEF ForwardFails, Errors, Unsendable, centralVars, IInv, TypeOK
  <2>4. QED
    BY <2>1, <2>2, <2>3
<1>3. got' \subseteq 1 .. made
  <2>1. pc = "sending" => held.key \in 1 .. made
    BY DEF IInv, HeldIsHead, TypeOK
  <2>2. QED
    BY <1>2, <2>1 DEF IInv, TypeOK
<1>4. TypeOK'
  <2>1. BufferTypeOK'
    BY <1>1 DEF IInv, TypeOK, BufferTypeOK, bufferVars
  <2>2. \A S \in {posted', accepted', late', evicted', crashed', refusable', got'} :
          S \subseteq 1 .. made'
    BY <1>1, <1>2, <1>3 DEF IInv, TypeOK
  <2>3. held' \in Entry \cup {NoEntry} /\ phase' = phase /\ made' = made /\ stops' = stops
    BY <1>1, <1>2 DEF IInv, TypeOK
  <2>4. QED
    BY <1>2, <2>1, <2>2, <2>3 DEF IInv, TypeOK
<1>5. QED
  BY <1>1, <1>2, <1>4, QuietStep

LEMMA PeekStep == ASSUME IInv, PeekHead PROVE IInv'
<1>1. UNCHANGED <<bufferVars, centralVars, phase, trigger, posted, histVars>>
  BY DEF PeekHead
<1>2. Queues
  BY TypedQueues DEF IInv
<1>3. \/ pc' = "idle" /\ held' = NoEntry
      \/ /\ pc' = "sending" /\ held' = items[1] /\ items # <<>> /\ Running
         /\ items[1] \in Entry /\ items[1].key \in Keys(items)
  <2>1. CASE items = <<>>
    BY <2>1 DEF PeekHead
  <2>2. CASE items # <<>>
    <3>1. Len(items) \in Nat /\ 1 \in 1 .. Len(items)
      BY <1>2, <2>2, EmptySeq, LenProperties DEF Queues
    <3>2. items[1] \in Entry /\ items[1].key \in Keys(items)
      BY <1>2, <3>1, ElementOfSeq, KeysOf DEF Queues
    <3>3. QED
      BY <2>2, <3>2 DEF PeekHead, Peek
  <2>3. QED
    BY <2>1, <2>2
<1>4. TypeOK'
  <2>1. BufferTypeOK'
    BY <1>1 DEF IInv, TypeOK, BufferTypeOK, bufferVars
  <2>2. \A S \in {posted', accepted', late', evicted', crashed', refusable', got'} :
          S \subseteq 1 .. made'
    BY <1>1 DEF IInv, TypeOK, centralVars, histVars
  <2>3. QED
    BY <1>1, <1>3, <2>1, <2>2 DEF IInv, TypeOK, centralVars, histVars
<1>5. OnceEach' /\ SpillInv'
  BY <1>1 DEF IInv, OnceEach, SpillInv, bufferVars, histVars, Keys, Differ, Running
<1>6. HeldIsHead' /\ HeldDealtWith'
  BY <1>1, <1>3 DEF IInv, HeldIsHead, HeldDealtWith, OnceEach, bufferVars, histVars, Running
<1>7. LossNeedsPressure'
  BY <1>1 DEF IInv, LossNeedsPressure, Vanished, bufferVars, centralVars, histVars, Keys
<1>8. QED
  BY <1>4, <1>5, <1>6, <1>7 DEF IInv

(* PopFront: the head is the reading that was forwarded, or one has been    *)
(* evicted.                                                                 *)
LEMMA PopStep == ASSUME IInv, PopHeld PROVE IInv'
<1>1. /\ pc = "done" /\ PopFront /\ pc' = "peek" /\ held' = NoEntry
      /\ UNCHANGED <<centralVars, phase, trigger, posted, histVars>>
  BY DEF PopHeld, Popped
<1>2. /\ Queues /\ Differ(items) /\ Len(items) <= MaxItems
  BY TypedQueues DEF IInv, OnceEach
<1>3. /\ Queues' /\ spill' = spill
      /\ Differ(items') /\ Len(items') <= MaxItems
      /\ Keys(items') \subseteq Keys(items)
  BY <1>1, <1>2, PopNew
<1>4. TypeOK'
  <2>1. BufferTypeOK'
    BY <1>3 DEF IInv, TypeOK, BufferTypeOK, Queues
  <2>2. \A S \in {posted', accepted', late', evicted', crashed', refusable', got'} :
          S \subseteq 1 .. made'
    BY <1>1 DEF IInv, TypeOK, centralVars, histVars
  <2>3. QED
    BY <1>1, <2>1, <2>2 DEF IInv, TypeOK, centralVars, histVars
<1>5. Keys(spill') = Keys(spill)
  BY <1>3
<1>6. OnceEach'
  BY <1>1, <1>3, <1>5 DEF IInv, OnceEach, histVars, Running
<1>7. HeldIsHead' /\ HeldDealtWith'
  BY <1>1 DEF HeldIsHead, HeldDealtWith
<1>8. phase \in {"up", "spilled", "closing"}
  BY <1>1 DEF IInv, HeldIsHead, Running
<1>9. SpillInv'
  BY <1>1, <1>3, <1>5, <1>8 DEF IInv, SpillInv, histVars
<1>10. LossNeedsPressure'
  <2>1. SUFFICES ASSUME evicted = {} PROVE Vanished' \subseteq late
    BY <1>1 DEF LossNeedsPressure, histVars
  <2>2. items # <<>> /\ items[1].key \in got \cup refusable
    BY <1>1, <2>1 DEF IInv, HeldIsHead, HeldDealtWith
  <2>3. Keys(items) \subseteq Keys(items') \cup got \cup refusable
    BY <1>1, <1>2, <2>2, PopKeys DEF Queues
  <2>4. QED
    BY <1>1, <1>5, <2>1, <2>3 DEF IInv, LossNeedsPressure, Vanished, centralVars, histVars
<1>11. QED
  BY <1>4, <1>6, <1>7, <1>9, <1>10 DEF IInv

(* The end of a process, which keeps nothing but the spill file. *)
LEMMA EndStep ==
  ASSUME IInv, Ended, phase' = "down", UNCHANGED <<centralVars, made, accepted, late, evicted>>,
         stops' \in 0 .. MaxStops, crashed \subseteq crashed',
         crashed' \subseteq crashed \cup Keys(items),
         evicted = {} => Keys(items) \subseteq Keys(spill) \cup late \cup crashed'
  PROVE  IInv'
<1>1. /\ items' = <<>> /\ nextID' = 0 /\ spill' = spill /\ trigger' = FALSE
      /\ pc' = "idle" /\ held' = NoEntry /\ posted' = {}
  BY DEF Ended, Forget
<1>2. <<>> \in Seq(Entry) /\ Len(<<>>) = 0 /\ Keys(<<>>) = {} /\ Differ(<<>>)
  BY EmptySeq DEF Keys, Differ
<1>3. TypeOK'
  <2>1. BufferTypeOK'
    BY <1>1, <1>2, BufferAssumption DEF IInv, TypeOK, BufferTypeOK
  <2>2. crashed' \subseteq 1 .. made
    BY DEF IInv, TypeOK, OnceEach
  <2>3. \A S \in {posted', accepted', late', evicted', crashed', refusable', got'} :
          S \subseteq 1 .. made'
    BY <1>1, <2>2 DEF IInv, TypeOK, centralVars
  <2>4. QED
    BY <1>1, <2>1, <2>3 DEF IInv, TypeOK, centralVars
<1>4. Keys(spill') = Keys(spill) /\ Keys(items') = {} /\ Differ(spill') = Differ(spill)
  BY <1>1, <1>2
<1>5. OnceEach'
  BY <1>1, <1>2, <1>4 DEF IInv, OnceEach
<1>6. HeldIsHead' /\ HeldDealtWith' /\ SpillInv'
  BY <1>1 DEF HeldIsHead, HeldDealtWith, SpillInv
<1>7. LossNeedsPressure'
  BY <1>4 DEF IInv, LossNeedsPressure, Vanished, centralVars
<1>8. QED
  BY <1>3, <1>5, <1>6, <1>7 DEF IInv

(* New, up to the removal of the file. *)
LEMMA StartStep == ASSUME IInv, Start PROVE IInv'
<1>1. /\ phase = "down" /\ phase' = "loaded" /\ Load
      /\ evicted' = evicted \cup ((Keys(items) \cup Keys(spill)) \ Keys(items'))
      /\ UNCHANGED <<centralVars, loopVars, posted, made, accepted, late, crashed, stops>>
      /\ items = <<>> /\ pc \notin {"sending", "done"} /\ posted = {}
  BY DEF Start, NoteEvicted, IInv, SpillInv, HeldIsHead, OnceEach, Running
<1>2. Queues /\ Differ(spill)
  BY TypedQueues DEF IInv, OnceEach
<1>3. /\ Queues' /\ spill' = spill
      /\ Differ(items') /\ Len(items') <= MaxItems
      /\ Keys(items') \subseteq Keys(spill)
  BY <1>1, <1>2, LoadNew
<1>4. Keys(spill') = Keys(spill) /\ Differ(spill')
  BY <1>2, <1>3
<1>5. Keys(items) = {} /\ Keys(spill) \subseteq accepted
  BY <1>1 DEF Keys, IInv, OnceEach
<1>6. TypeOK'
  <2>1. BufferTypeOK'
    BY <1>3 DEF IInv, TypeOK, BufferTypeOK, Queues
  <2>2. evicted' \subseteq 1 .. made
    BY <1>1, <1>5 DEF IInv, TypeOK
  <2>3. \A S \in {posted', accepted', late', evicted', crashed', refusable', got'} :
          S \subseteq 1 .. made'
    BY <1>1, <2>2 DEF IInv, TypeOK, centralVars
  <2>4. QED
    BY <1>1, <2>1, <2>3 DEF IInv, TypeOK, centralVars, loopVars
<1>7. OnceEach'
  BY <1>1, <1>3, <1>4, <1>5 DEF OnceEach
<1>8. HeldIsHead' /\ HeldDealtWith'
  BY <1>1 DEF HeldIsHead, HeldDealtWith, loopVars
<1>9. SpillInv'
  BY <1>1, <1>4 DEF SpillInv
<1>10. LossNeedsPressure'
  BY <1>1, <1>4, <1>5 DEF IInv, LossNeedsPressure, Vanished, centralVars
<1>11. QED
  BY <1>6, <1>7, <1>8, <1>9, <1>10 DEF IInv

(* The rest of the process: Close's spill, Shutdown, the file's removal. *)
LEMMA ProcessStep == ASSUME IInv, CloseSpills \/ Shutdown \/ Started PROVE IInv'
<1>1. /\ UNCHANGED <<items, nextID, centralVars, loopVars, posted>>
      /\ UNCHANGED <<made, accepted, late, evicted, crashed>>
      /\ stops' \in 0 .. MaxStops
  <2>1. stops \in 0 .. MaxStops
    BY DEF IInv, TypeOK
  <2>2. CASE CloseSpills
    BY <2>1, <2>2, PackIRAssumption DEF CloseSpills, CloseSave, Save
  <2>3. CASE Shutdown \/ Started
    BY <2>1, <2>3 DEF Shutdown, Started, RemoveSpill, bufferVars, histVars
  <2>4. QED
    BY <2>2, <2>3
<1>2. \/ phase = "up" /\ phase' = "spilled" /\ spill' = items
      \/ phase = "spilled" /\ phase' = "closing" /\ spill' = spill
      \/ phase = "loaded" /\ phase' = "up" /\ spill' = <<>>
  BY DEF CloseSpills, CloseSave, Save, Shutdown, Started, RemoveSpill, bufferVars
<1>3. <<>> \in Seq(Entry) /\ Len(<<>>) = 0 /\ Keys(<<>>) = {} /\ Differ(<<>>)
  BY EmptySeq DEF Keys, Differ
<1>4. Keys(items') = Keys(items) /\ Differ(items') = Differ(items)
  BY <1>1
<1>5. /\ spill' \in Seq(Entry) /\ Len(spill') <= MaxItems
      /\ Differ(spill') /\ Keys(spill') \subseteq Keys(items) \cup Keys(spill)
  <2>1. CASE spill' = items
    <3>1. items \in Seq(Entry) /\ Len(items) <= MaxItems /\ Differ(items)
      BY DEF IInv, TypeOK, BufferTypeOK, OnceEach
    <3>2. Differ(spill') /\ Keys(spill') = Keys(items)
      BY <2>1, <3>1 DEF Differ, Keys
    <3>3. QED
      BY <2>1, <3>1, <3>2
  <2>2. CASE spill' = spill
    <3>1. spill \in Seq(Entry) /\ Len(spill) <= MaxItems /\ Differ(spill)
      BY DEF IInv, TypeOK, BufferTypeOK, OnceEach
    <3>2. Differ(spill') /\ Keys(spill') = Keys(spill)
      BY <2>2, <3>1 DEF Differ, Keys
    <3>3. QED
      BY <2>2, <3>1, <3>2
  <2>3. CASE spill' = <<>>
    BY <1>3, <2>3, BufferAssumption DEF Keys, Differ
  <2>4. QED
    BY <1>2, <2>1, <2>2, <2>3
<1>6. TypeOK'
  <2>1. BufferTypeOK'
    BY <1>1, <1>5 DEF IInv, TypeOK, BufferTypeOK
  <2>2. \A S \in {posted', accepted', late', evicted', crashed', refusable', got'} :
          S \subseteq 1 .. made'
    BY <1>1 DEF IInv, TypeOK, centralVars
  <2>3. QED
    BY <1>1, <1>2, <2>1, <2>2 DEF IInv, TypeOK, centralVars, loopVars
<1>7. OnceEach'
  BY <1>1, <1>2, <1>4, <1>5 DEF IInv, OnceEach, Running
<1>8. HeldIsHead' /\ HeldDealtWith'
  BY <1>1, <1>2 DEF IInv, HeldIsHead, HeldDealtWith, Running, centralVars, loopVars
<1>9. SpillInv'
  <2>1. phase' = "spilled" => Keys(spill') = Keys(items)
    BY <1>2
  <2>2. phase' = "closing" => Keys(spill') = Keys(spill)
    BY <1>2
  <2>3. QED
    BY <1>1, <1>2, <1>4, <2>1, <2>2 DEF IInv, SpillInv
<1>10. Keys(items) \cup Keys(spill) \subseteq Keys(items') \cup Keys(spill') \cup evicted
  BY <1>2, <1>3, <1>4 DEF IInv, SpillInv
<1>11. LossNeedsPressure'
  BY <1>1, <1>10 DEF IInv, LossNeedsPressure, Vanished, centralVars
<1>12. QED
  BY <1>6, <1>7, <1>8, <1>9, <1>11 DEF IInv
-----------------------------------------------------------------------------
(* Every step of handlers, drain loop and process keeps the invariant. *)
THEOREM Inductive == Spec => []IInv
<1>1. ASSUME IInv, [Next]_vars PROVE IInv'
  <2>1. CASE Post
    BY <1>1, <2>1, PostStep
  <2>2. CASE \E r \in posted, size \in Sizes : Accept(r, size)
    BY <1>1, <2>2, AcceptStep
  <2>3. CASE Wake \/ Forwarded \/ AnswerLost \/ ForwardFails \/ CentralChanges \/ UNCHANGED vars
    BY <1>1, <2>3, DrainStep
  <2>4. CASE PeekHead
    BY <1>1, <2>4, PeekStep
  <2>5. CASE PopHeld
    BY <1>1, <2>5, PopStep
  <2>6. CASE CloseSpills \/ Shutdown \/ Started
    BY <1>1, <2>6, ProcessStep
  <2>7. CASE Exit
    BY <1>1, <2>7, EndStep DEF Exit, histVars, IInv, TypeOK, SpillInv
  <2>8. CASE Crash
    <3>1. stops' \in 0 .. MaxStops
      BY <1>1, <2>8, PackIRAssumption DEF Crash, IInv, TypeOK
    <3>2. crashed' = crashed \cup (Keys(items) \ Keys(spill))
      BY <2>8 DEF Crash
    <3>3. QED
      BY <1>1, <2>8, <3>1, <3>2, EndStep DEF Crash
  <2>9. CASE Start
    BY <1>1, <2>9, StartStep
  <2>10. QED
    BY <1>1, <2>1, <2>2, <2>3, <2>4, <2>5, <2>6, <2>7, <2>8, <2>9
       DEF Next, Handlers, DrainLoop, Process
<1>2. QED
  BY <1>1, InitHolds, PTL DEF Spec

(* Nothing leaves its type, the queue and the spill stay inside the bound.  *)
THEOREM TypeCorrect == Spec => []TypeOK
<1>1. IInv => TypeOK
  BY DEF IInv
<1>2. QED
  BY <1>1, Inductive, PTL

(* Where the bounds have evicted nothing, a reading answered 202 is lost    *)
(* only if it was queued after Close had saved the queue.                   *)
THEOREM LossIsPressure == Spec => []LossNeedsPressure
<1>1. IInv => LossNeedsPressure
  BY DEF IInv
<1>2. QED
  BY <1>1, Inductive, PTL
=============================================================================
