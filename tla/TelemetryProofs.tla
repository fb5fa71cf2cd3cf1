-------------------------- MODULE TelemetryProofs --------------------------
(***************************************************************************)
(* Proofs about Telemetry, for every bound and every set of batch sizes.   *)
(*                                                                         *)
(* The argument: ids in the queue grow from its head to its tail, so the   *)
(* id of the entry a drain holds is that of at most one queued entry, and  *)
(* PopSent removes that one or none.  What leaves by the bounds is noted   *)
(* as evicted, and between a spill and the removal of its file everything  *)
(* queued is in the file as well.                                          *)
(***************************************************************************)
EXTENDS Telemetry, SequenceTheorems, WellFoundedInduction, TLAPS

Queues ==
  /\ items \in Seq(Entry) /\ spill \in Seq(Entry)
  /\ nextID \in Nat

(* Ids grow along the queue, up to the last one given. *)
IdsGrow ==
  /\ \A i \in 1 .. Len(items) : items[i].id \in 1 .. nextID
  /\ \A i, j \in 1 .. Len(items) : i < j => items[i].id < items[j].id

-----------------------------------------------------------------------------
(* The batches of a queue, position by position. *)
LEMMA KeysOf ==
  ASSUME NEW q \in Seq(Entry)
  PROVE  Keys(q) = {q[i].key : i \in 1 .. Len(q)}
<1>1. DOMAIN q = 1 .. Len(q)
  BY LenProperties
<1>2. QED
  BY <1>1 DEF Keys

(* What a trim leaves is an end of the queue it was given. *)
LEMMA TrimFacts ==
  ASSUME NEW q \in Seq(Entry), NEW n, Trimmed(q, n)
  PROVE  \E k \in Nat :
           /\ k < Len(q)
           /\ items' \in Seq(Entry)
           /\ Len(items') = Len(q) - k
           /\ \A i \in 1 .. Len(items') : items'[i] = q[i + k]
<1>1. PICK k \in 0 .. Len(q) - 1 : items' = SubSeq(q, k + 1, Len(q))
  BY DEF Trimmed
<1>2. Len(q) \in Nat /\ k \in Nat /\ k + 1 \in Int /\ k + 1 <= Len(q)
  BY LenProperties
<1>3. \A i \in k + 1 .. Len(q) : q[i] \in Entry
  BY <1>2, ElementOfSeq
<1>4. /\ SubSeq(q, k + 1, Len(q)) \in Seq(Entry)
      /\ Len(SubSeq(q, k + 1, Len(q))) = Len(q) - k
      /\ \A i \in 1 .. Len(q) - k : SubSeq(q, k + 1, Len(q))[i] = q[i + k]
  BY <1>2, <1>3, SubSeqProperties
<1>5. /\ k < Len(q)
      /\ items' \in Seq(Entry)
      /\ Len(items') = Len(q) - k
      /\ \A i \in 1 .. Len(items') : items'[i] = q[i + k]
  BY <1>1, <1>2, <1>4
<1>6. QED
  BY <1>2, <1>5

(* Trimming keeps ids growing, and adds no entry. *)
LEMMA TrimKeeps ==
  ASSUME NEW q \in Seq(Entry), NEW n, Trimmed(q, n), NEW m \in Nat,
         \A i \in 1 .. Len(q) : q[i].id \in 1 .. m,
         \A i, j \in 1 .. Len(q) : i < j => q[i].id < q[j].id
  PROVE  /\ items' \in Seq(Entry)
         /\ \A i \in 1 .. Len(items') : items'[i].id \in 1 .. m
         /\ \A i, j \in 1 .. Len(items') : i < j => items'[i].id < items'[j].id
         /\ \A i \in 1 .. Len(items') : \E j \in 1 .. Len(q) : items'[i] = q[j]
         /\ Keys(items') \subseteq Keys(q)
         /\ Len(items') \in Nat \ {0}
         /\ items'[Len(items')] = q[Len(q)]
<1>1. PICK k \in Nat : /\ k < Len(q)
                       /\ items' \in Seq(Entry)
                       /\ Len(items') = Len(q) - k
                       /\ \A i \in 1 .. Len(items') : items'[i] = q[i + k]
  BY TrimFacts
<1>2. Len(q) \in Nat /\ Len(items') \in Nat
  BY <1>1, LenProperties
<1>3. \A i \in 1 .. Len(items') : i + k \in 1 .. Len(q)
  BY <1>1, <1>2
<1>4. \A i \in 1 .. Len(items') : items'[i].id \in 1 .. m
  BY <1>1, <1>3
<1>5. ASSUME NEW i \in 1 .. Len(items'), NEW j \in 1 .. Len(items'), i < j
      PROVE  items'[i].id < items'[j].id
  <2>1. i + k \in 1 .. Len(q) /\ j + k \in 1 .. Len(q)
    BY <1>3
  <2>2. i + k < j + k
    BY <1>1, <1>2, <1>5
  <2>3. q[i + k].id < q[j + k].id
    BY <2>1, <2>2
  <2>4. QED
    BY <1>1, <2>3
<1>6. \A i \in 1 .. Len(items') : \E j \in 1 .. Len(q) : items'[i] = q[j]
  BY <1>1, <1>3
<1>7. Keys(items') \subseteq Keys(q)
  BY <1>1, <1>6, KeysOf
<1>8. Len(items') \in Nat \ {0} /\ items'[Len(items')] = q[Len(q)]
  <2>1. Len(items') \in Nat \ {0} /\ Len(items') + k = Len(q)
    BY <1>1, <1>2
  <2>2. Len(items') \in 1 .. Len(items')
    BY <2>1
  <2>3. QED
    BY <1>1, <2>1, <2>2
<1>9. QED
  BY <1>1, <1>4, <1>5, <1>6, <1>7, <1>8

(* Popping the head leaves the rest of the queue as it was. *)
LEMMA PopFacts ==
  ASSUME items \in Seq(Entry), items # <<>>, PopFront
  PROVE  /\ items' \in Seq(Entry)
         /\ Len(items) \in Nat \ {0}
         /\ Len(items') = Len(items) - 1
         /\ \A i \in 1 .. Len(items') : items'[i] = items[i + 1]
         /\ Head(items) = items[1]
<1>1. items' = Tail(items)
  BY DEF PopFront
<1>2. QED
  BY <1>1, HeadTailProperties, LenProperties, EmptySeq

LEMMA PopKeys ==
  ASSUME items \in Seq(Entry), items # <<>>, PopFront
  PROVE  /\ Keys(items') \subseteq Keys(items)
         /\ Keys(items) \subseteq Keys(items') \cup {items[1].key}
<1>1. /\ items' \in Seq(Entry)
      /\ Len(items) \in Nat \ {0} /\ Len(items') = Len(items) - 1
      /\ \A i \in 1 .. Len(items') : items'[i] = items[i + 1]
  BY PopFacts
<1>2. /\ Keys(items) = {items[i].key : i \in 1 .. Len(items)}
      /\ Keys(items') = {items'[i].key : i \in 1 .. Len(items')}
  BY <1>1, KeysOf
<1>3. \A i \in 1 .. Len(items') : i + 1 \in 1 .. Len(items)
  BY <1>1
<1>4. ASSUME NEW i \in 1 .. Len(items)
      PROVE  items[i].key \in Keys(items') \cup {items[1].key}
  <2>1. CASE i = 1
    BY <2>1
  <2>2. CASE i # 1
    <3>1. i - 1 \in 1 .. Len(items') /\ (i - 1) + 1 = i
      BY <1>1, <2>2
    <3>2. items'[i - 1] = items[i]
      BY <1>1, <3>1
    <3>3. QED
      BY <1>2, <3>1, <3>2
  <2>3. QED
    BY <2>1, <2>2
<1>5. QED
  BY <1>1, <1>2, <1>3, <1>4

(* Push: the new entry is queued with a fresh id, and no other is. *)
LEMMA PushKeeps ==
  ASSUME Queues, IdsGrow, NEW key \in Nat, NEW size \in Sizes, Push(key, size)
  PROVE  /\ items' \in Seq(Entry)
         /\ nextID' \in Nat
         /\ nextID' = nextID + 1
         /\ IdsGrow'
         /\ \A i \in 1 .. Len(items') :
              items'[i].id = nextID + 1 \/ \E j \in 1 .. Len(items) : items'[i] = items[j]
         /\ key \in Keys(items')
         /\ Keys(items') \subseteq Keys(items) \cup {key}
<1> DEFINE e == [id |-> nextID + 1, key |-> key, size |-> size]
           q == Append(items, e)
<1>1. /\ items \in Seq(Entry) /\ nextID \in Nat
      /\ Len(items) \in Nat
      /\ \A i \in 1 .. Len(items) : items[i] \in Entry
  BY LenProperties, ElementOfSeq DEF Queues
<1>2. e \in Entry /\ e.id = nextID + 1 /\ e.key = key
  BY <1>1 DEF Entry
<1>3. /\ q \in Seq(Entry)
      /\ Len(q) = Len(items) + 1
      /\ \A i \in 1 .. Len(items) : q[i] = items[i]
      /\ q[Len(items) + 1] = e
  BY <1>1, <1>2, AppendProperties
<1> HIDE DEF e, q
<1>4. \A i \in 1 .. Len(q) : q[i] = e \/ (i \in 1 .. Len(items) /\ q[i] = items[i])
  <2>1. SUFFICES ASSUME NEW i \in 1 .. Len(q)
                 PROVE  q[i] = e \/ (i \in 1 .. Len(items) /\ q[i] = items[i])
    OBVIOUS
  <2>2. i \in 1 .. Len(items) \/ i = Len(items) + 1
    BY <1>1, <1>3
  <2>3. CASE i \in 1 .. Len(items)
    BY <1>3, <2>3
  <2>4. CASE i = Len(items) + 1
    BY <1>3, <2>4
  <2>5. QED
    BY <2>2, <2>3, <2>4
<1>5. \A i \in 1 .. Len(q) : q[i].id \in 1 .. nextID + 1
  BY <1>1, <1>2, <1>3, <1>4 DEF IdsGrow
<1>6. ASSUME NEW i \in 1 .. Len(q), NEW j \in 1 .. Len(q), i < j
      PROVE  q[i].id < q[j].id
  <2>1. i \in 1 .. Len(items) /\ q[i] = items[i] /\ items[i].id \in 1 .. nextID
    BY <1>1, <1>3, <1>6 DEF IdsGrow
  <2>2. CASE j \in 1 .. Len(items)
    BY <1>3, <1>6, <2>1, <2>2 DEF IdsGrow
  <2>3. CASE j = Len(items) + 1
    BY <1>1, <1>2, <1>3, <2>1, <2>3
  <2>4. QED
    BY <1>1, <1>3, <2>2, <2>3
<1>7. Trimmed(q, bytes + size) /\ nextID' = nextID + 1
  BY DEF Push, e, q
<1>8. nextID + 1 \in Nat
  BY <1>1
<1>9. /\ items' \in Seq(Entry)
      /\ \A i \in 1 .. Len(items') : items'[i].id \in 1 .. nextID + 1
      /\ \A i, j \in 1 .. Len(items') : i < j => items'[i].id < items'[j].id
      /\ \A i \in 1 .. Len(items') : \E j \in 1 .. Len(q) : items'[i] = q[j]
      /\ Keys(items') \subseteq Keys(q)
      /\ Len(items') \in Nat \ {0}
      /\ items'[Len(items')] = q[Len(q)]
  BY <1>3, <1>5, <1>6, <1>7, <1>8, TrimKeeps
<1>10. IdsGrow'
  BY <1>7, <1>9 DEF IdsGrow
<1>11. \A i \in 1 .. Len(items') :
         items'[i].id = nextID + 1 \/ \E j \in 1 .. Len(items) : items'[i] = items[j]
  BY <1>2, <1>4, <1>9
<1>12. key \in Keys(items')
  BY <1>2, <1>3, <1>9, KeysOf
<1>13. Keys(items') \subseteq Keys(items) \cup {key}
  <2>1. Keys(q) = {q[i].key : i \in 1 .. Len(q)}
    BY <1>3, KeysOf
  <2>2. Keys(items) = {items[i].key : i \in 1 .. Len(items)}
    BY <1>1, KeysOf
  <2>3. Keys(q) \subseteq Keys(items) \cup {key}
    BY <1>2, <1>4, <2>1, <2>2
  <2>4. QED
    BY <1>9, <2>3
<1>14. QED
  BY <1>7, <1>8, <1>9, <1>10, <1>11, <1>12, <1>13

(* Load into an empty queue: every restored entry has an id of its own. *)
LEMMA LoadKeeps ==
  ASSUME Queues, items = <<>>, spill # <<>>, Load
  PROVE  /\ items' \in Seq(Entry)
         /\ nextID' \in Nat
         /\ spill' = spill
         /\ IdsGrow'
         /\ Keys(items') \subseteq Keys(spill)
<1> DEFINE q == Renumbered(spill)
<1>1. /\ spill \in Seq(Entry) /\ nextID \in Nat /\ Len(spill) \in Nat
      /\ DOMAIN spill = 1 .. Len(spill)
      /\ \A i \in 1 .. Len(spill) : spill[i] \in Entry
  BY LenProperties, ElementOfSeq DEF Queues
<1>2. q = [i \in 1 .. Len(spill) |-> [spill[i] EXCEPT !.id = nextID + i]]
  BY <1>1 DEF Renumbered
<1>3. \A i \in 1 .. Len(spill) :
        /\ [spill[i] EXCEPT !.id = nextID + i] \in Entry
        /\ [spill[i] EXCEPT !.id = nextID + i].id = nextID + i
        /\ [spill[i] EXCEPT !.id = nextID + i].key = spill[i].key
  <2>1. SUFFICES ASSUME NEW i \in 1 .. Len(spill)
                 PROVE  /\ [spill[i] EXCEPT !.id = nextID + i] \in Entry
                        /\ [spill[i] EXCEPT !.id = nextID + i].id = nextID + i
                        /\ [spill[i] EXCEPT !.id = nextID + i].key = spill[i].key
    OBVIOUS
  <2>2. spill[i] \in Entry /\ nextID + i \in Nat
    BY <1>1
  <2>3. QED
    BY <2>2 DEF Entry
<1>4. q \in [1 .. Len(spill) -> Entry]
  BY <1>2, <1>3
<1>5. q \in Seq(Entry) /\ Len(q) = Len(spill)
  BY <1>1, <1>4
<1>6. \A i \in 1 .. Len(q) : q[i].id = nextID + i /\ q[i].key = spill[i].key
  BY <1>2, <1>3, <1>5
<1> HIDE DEF q
<1>7. q \o items = q
  BY <1>5, ConcatEmptySeq
<1>8. /\ Trimmed(q, TotalSize(q))
      /\ nextID' = nextID + Len(spill)
      /\ spill' = spill
  BY <1>7 DEF Load, q
<1>9. nextID + Len(spill) \in Nat
  BY <1>1
<1>10. /\ \A i \in 1 .. Len(q) : q[i].id \in 1 .. nextID + Len(spill)
       /\ \A i, j \in 1 .. Len(q) : i < j => q[i].id < q[j].id
  BY <1>1, <1>5, <1>6
<1>11. /\ items' \in Seq(Entry)
       /\ \A i \in 1 .. Len(items') : items'[i].id \in 1 .. nextID + Len(spill)
       /\ \A i, j \in 1 .. Len(items') : i < j => items'[i].id < items'[j].id
       /\ Keys(items') \subseteq Keys(q)
  BY <1>5, <1>8, <1>9, <1>10, TrimKeeps
<1>12. IdsGrow'
  BY <1>8, <1>11 DEF IdsGrow
<1>13. Keys(q) = Keys(spill)
  <2>1. Keys(q) = {q[i].key : i \in 1 .. Len(q)}
    BY <1>5, KeysOf
  <2>2. Keys(spill) = {spill[i].key : i \in 1 .. Len(spill)}
    BY <1>1, KeysOf
  <2>3. QED
    BY <1>5, <1>6, <2>1, <2>2
<1>14. QED
  BY <1>8, <1>9, <1>11, <1>12, <1>13

(* trimLocked leaves no more entries than the bound, which is at least one. *)
LEMMA TrimBounds ==
  ASSUME NEW q \in Seq(Entry), NEW n, Trimmed(q, n)
  PROVE  Len(items') <= MaxItems
<1>1. PICK k \in 0 .. Len(q) - 1 :
        /\ \A j \in 0 .. k : Overfull(q, n, j) <=> j < k
        /\ items' = SubSeq(q, k + 1, Len(q))
  BY DEF Trimmed
<1>2. Len(q) \in Nat /\ MaxItems \in Nat \ {0}
  BY LenProperties, BufferAssumption
<1>3. k \in 0 .. k /\ ~ Overfull(q, n, k)
  BY <1>1, <1>2
<1>4. Len(q) - k <= MaxItems
  BY <1>2, <1>3 DEF Overfull
<1>5. \A i \in k + 1 .. Len(q) : q[i] \in Entry
  BY <1>2, ElementOfSeq
<1>6. Len(SubSeq(q, k + 1, Len(q))) = Len(q) - k
  BY <1>2, <1>5, SubSeqProperties
<1>7. QED
  BY <1>1, <1>4, <1>6

-----------------------------------------------------------------------------
(***************************************************************************)
(* The byte count: Totals is a recursive function, so what it computes is   *)
(* shown by induction on positions.                                        *)
(***************************************************************************)

(* Induction on the naturals, over a set: what has 0 and, with each number, *)
(* the next one, has them all.                                              *)
LEMMA NatSetInduction ==
  ASSUME NEW S, 0 \in S, \A n \in Nat : n \in S => n + 1 \in S
  PROVE  Nat \subseteq S
<1> DEFINE T == {n \in Nat : n \notin S}
<1>1. SUFFICES ASSUME T # {} PROVE FALSE
  OBVIOUS
<1> DEFINE R == {p \in Nat \X Nat : p[1] < p[2]}
<1>0. IsWellFoundedOn(R, Nat)
  BY NatLessThanWellFounded DEF OpToRel
<1>2. PICK m \in T : \A y \in T : ~ (<<y, m>> \in R)
  <2> HIDE DEF R
  <2>1. T \subseteq Nat
    OBVIOUS
  <2> HIDE DEF T
  <2>2. QED
    BY <1>0, <1>1, <2>1, WFMin
<1>3. m \in Nat /\ m # 0 /\ m - 1 \in Nat /\ (m - 1) + 1 = m
  BY <1>2
<1>4. <<m - 1, m>> \in R
  BY <1>3
<1>5. m - 1 \in S
  BY <1>2, <1>3, <1>4
<1>6. QED
  BY <1>2, <1>3, <1>5

(* Sizes are numbers. *)
LEMMA SizesOf ==
  ASSUME NEW q \in Seq(Entry)
  PROVE  \A n \in 1 .. Len(q) : q[n].size \in Nat
<1>1. ASSUME NEW n \in 1 .. Len(q) PROVE q[n].size \in Nat
  <2>1. q[n] \in Entry
    BY ElementOfSeq
  <2>2. q[n].size \in Sizes
    BY <2>1 DEF Entry
  <2>3. QED
    BY <2>2, BufferAssumption
<1>2. QED
  BY <1>1

(* The running totals of a queue exist, start at nothing and add each size. *)
LEMMA TotalsFacts ==
  ASSUME NEW q \in Seq(Entry)
  PROVE  /\ Totals(q)[0] = 0
         /\ \A n \in 1 .. Len(q) : Totals(q)[n] = Totals(q)[n - 1] + q[n].size
         /\ \A n \in 0 .. Len(q) : Totals(q)[n] \in Nat
<1>1. Len(q) \in Nat /\ \A n \in 1 .. Len(q) : q[n].size \in Nat
  BY LenProperties, SizesOf
<1> DEFINE Adds(t, m) == t = [n \in 0 .. m |-> IF n = 0 THEN 0 ELSE t[n - 1] + q[n].size]
           Upto == {m \in Nat : m <= Len(q) => \E t : Adds(t, m)}
<1>2. \E t : Adds(t, Len(q))
  <2>1. 0 \in Upto
    <3>1. Adds([n \in 0 .. 0 |-> 0], 0)
      OBVIOUS
    <3>2. QED
      BY <3>1
  <2>2. ASSUME NEW m \in Nat, m \in Upto PROVE m + 1 \in Upto
    <3>1. SUFFICES ASSUME m + 1 <= Len(q) PROVE \E t : Adds(t, m + 1)
      OBVIOUS
    <3>2. PICK t : Adds(t, m)
      BY <1>1, <2>2, <3>1
    <3>3. \A n \in 0 .. m : t[n] = IF n = 0 THEN 0 ELSE t[n - 1] + q[n].size
      BY <3>2
    <3> DEFINE u == [n \in 0 .. m + 1 |-> IF n = m + 1 THEN t[m] + q[m + 1].size ELSE t[n]]
    <3>4. ASSUME NEW n \in 0 .. m + 1
          PROVE  u[n] = IF n = 0 THEN 0 ELSE u[n - 1] + q[n].size
      <4>1. CASE n = m + 1
        BY <4>1
      <4>2. CASE n \in 0 .. m
        <5>1. u[n] = t[n] /\ (n # 0 => u[n - 1] = t[n - 1])
          BY <4>2
        <5>2. QED
          BY <3>3, <4>2, <5>1
      <4>3. QED
        BY <4>1, <4>2
    <3>5. u = [n \in 0 .. m + 1 |-> IF n = 0 THEN 0 ELSE u[n - 1] + q[n].size]
      <4>1. u = [n \in 0 .. m + 1 |-> u[n]]
        OBVIOUS
      <4> HIDE DEF u
      <4>2. QED
        BY <3>4, <4>1
    <3>6. QED
      BY <3>5
  <2>3. Nat \subseteq Upto
    <3> HIDE DEF Upto
    <3>1. QED
      BY <2>1, <2>2, NatSetInduction
  <2>4. QED
    BY <1>1, <2>3
<1> DEFINE T == Totals(q)
<1>3. T = CHOOSE t : Adds(t, Len(q))
  BY DEF Totals
<1>4. Adds(T, Len(q))
  <2> HIDE DEF T, Adds
  <2>1. QED
    BY <1>2, <1>3
<1>5. \A n \in 0 .. Len(q) : T[n] = IF n = 0 THEN 0 ELSE T[n - 1] + q[n].size
  <2> HIDE DEF T
  <2>1. QED
    BY <1>4
<1> HIDE DEF T
<1>6. T[0] = 0 /\ \A n \in 1 .. Len(q) : T[n] = T[n - 1] + q[n].size
  BY <1>1, <1>5
<1>7. \A n \in 0 .. Len(q) : T[n] \in Nat
  <2> DEFINE S == {n \in Nat : n <= Len(q) => T[n] \in Nat}
  <2>1. 0 \in S
    BY <1>6
  <2>2. ASSUME NEW n \in Nat, n \in S PROVE n + 1 \in S
    <3>1. SUFFICES ASSUME n + 1 <= Len(q) PROVE T[n + 1] \in Nat
      OBVIOUS
    <3>2. n + 1 \in 1 .. Len(q) /\ T[n] \in Nat /\ (n + 1) - 1 = n
      BY <1>1, <2>2, <3>1
    <3>3. T[n + 1] = T[n] + q[n + 1].size
      BY <1>6, <3>2
    <3>4. QED
      BY <1>1, <3>2, <3>3
  <2>3. Nat \subseteq S
    <3> HIDE DEF S
    <3>1. QED
      BY <2>1, <2>2, NatSetInduction
  <2>4. QED
    BY <1>1, <2>3
<1>8. QED
  BY <1>6, <1>7 DEF T

(* The totals of an end of a queue are those of the queue, less what came   *)
(* before it.                                                               *)
LEMMA TotalsShift ==
  ASSUME NEW q \in Seq(Entry), NEW r \in Seq(Entry), NEW k \in 0 .. Len(q), NEW m \in Nat,
         m <= Len(r), m + k <= Len(q),
         \A i \in 1 .. m : r[i].size = q[i + k].size
  PROVE  Totals(r)[m] = Totals(q)[m + k] - Totals(q)[k]
<1> DEFINE TQ == Totals(q)
           TR == Totals(r)
           S == {n \in Nat : n <= m => TR[n] = TQ[n + k] - TQ[k]}
<1>1. Len(q) \in Nat /\ Len(r) \in Nat /\ k \in Nat
  BY LenProperties
<1>2. /\ TR[0] = 0
      /\ \A n \in 1 .. Len(r) : TR[n] = TR[n - 1] + r[n].size
      /\ \A n \in 1 .. Len(q) : TQ[n] = TQ[n - 1] + q[n].size
      /\ \A n \in 0 .. Len(q) : TQ[n] \in Nat
      /\ \A n \in 1 .. Len(q) : q[n].size \in Nat
  BY TotalsFacts, SizesOf
<1> HIDE DEF TQ, TR
<1>3. 0 \in S
  BY <1>1, <1>2
<1>4. ASSUME NEW n \in Nat, n \in S PROVE n + 1 \in S
  <2>1. SUFFICES ASSUME n + 1 <= m PROVE TR[n + 1] = TQ[(n + 1) + k] - TQ[k]
    OBVIOUS
  <2>2. /\ n + 1 \in 1 .. Len(r) /\ n + 1 \in 1 .. m /\ (n + 1) - 1 = n
        /\ (n + 1) + k \in 1 .. Len(q) /\ ((n + 1) + k) - 1 = n + k /\ n + k \in 0 .. Len(q)
    BY <1>1, <2>1
  <2>3. TR[n] = TQ[n + k] - TQ[k]
    BY <1>4, <2>1
  <2>4. /\ TR[n + 1] = TR[n] + r[n + 1].size
        /\ TQ[(n + 1) + k] = TQ[n + k] + q[(n + 1) + k].size
        /\ r[n + 1].size = q[(n + 1) + k].size
    BY <1>2, <2>2
  <2>5. /\ TQ[n + k] \in Nat /\ TQ[k] \in Nat
        /\ q[(n + 1) + k].size \in Nat
    BY <1>2, <2>2
  <2>6. QED
    BY <2>3, <2>4, <2>5, SMTT(20)
<1>5. Nat \subseteq S
  <2> HIDE DEF S
  <2>1. QED
    BY <1>3, <1>4, NatSetInduction
<1>6. QED
  BY <1>5 DEF TQ, TR
-----------------------------------------------------------------------------
(***************************************************************************)
(* The order of a queue whose batches are numbered as they are pushed.     *)
(***************************************************************************)

(* The batches of a queue are numbered upwards from its head. *)
KeysGrow(q) == \A i, j \in 1 .. Len(q) : i < j => q[i].key < q[j].key

(* A queue inside both bounds, or of one entry. *)
Fits(q) == Len(q) <= MaxItems /\ (Len(q) > 1 => TotalSize(q) <= MaxBytes)

(* The byte count is that of the queue, and the queue fits. *)
Counted == bytes = TotalSize(items) /\ Fits(items)

(* Keys are numbers. *)
LEMMA KeysAreNumbers ==
  ASSUME NEW q \in Seq(Entry)
  PROVE  \A i \in 1 .. Len(q) : q[i] \in Entry /\ q[i].key \in Nat
<1>1. ASSUME NEW i \in 1 .. Len(q) PROVE q[i] \in Entry /\ q[i].key \in Nat
  <2>1. q[i] \in Entry
    BY ElementOfSeq
  <2>2. QED
    BY <2>1 DEF Entry
<1>2. QED
  BY <1>1

(* trimLocked, given the true size of the queue: it keeps the count true,   *)
(* brings the queue inside its bounds, and leaves alone one that fits.      *)
LEMMA TrimCounts ==
  ASSUME NEW q \in Seq(Entry), Trimmed(q, TotalSize(q))
  PROVE  /\ Counted'
         /\ Fits(q) => items' = q
<1>1. PICK k \in 0 .. Len(q) - 1 :
        /\ \A j \in 0 .. k : Overfull(q, TotalSize(q), j) <=> j < k
        /\ items' = SubSeq(q, k + 1, Len(q))
        /\ bytes' = TotalSize(q) - Totals(q)[k]
  BY DEF Trimmed
<1>2. Len(q) \in Nat /\ k \in Nat /\ k \in 0 .. Len(q) /\ k + 1 <= Len(q) /\ MaxItems \in Nat \ {0}
  BY LenProperties, BufferAssumption
<1>3. /\ items' \in Seq(Entry)
      /\ Len(items') = Len(q) - k
      /\ \A i \in 1 .. Len(items') : items'[i] = q[i + k]
  <2>1. \A i \in k + 1 .. Len(q) : q[i] \in Entry
    BY <1>2, ElementOfSeq
  <2>2. QED
    BY <1>1, <1>2, <2>1, SubSeqProperties
<1>4. /\ Totals(q)[0] = 0
      /\ \A n \in 0 .. Len(q) : Totals(q)[n] \in Nat
  BY TotalsFacts
<1>5. TotalSize(items') = TotalSize(q) - Totals(q)[k]
  <2>1. /\ Len(items') \in Nat /\ Len(items') + k = Len(q)
        /\ Len(items') <= Len(items') /\ Len(items') + k <= Len(q)
        /\ \A i \in 1 .. Len(items') : items'[i].size = q[i + k].size
    BY <1>2, <1>3
  <2>2. Totals(items')[Len(items')] = Totals(q)[Len(items') + k] - Totals(q)[k]
    BY <1>2, <1>3, <2>1, TotalsShift
  <2>3. QED
    BY <2>1, <2>2 DEF TotalSize
<1>6. Counted'
  <2>1. k \in 0 .. k /\ ~ Overfull(q, TotalSize(q), k)
    BY <1>1, <1>2
  <2>2. Len(items') <= MaxItems /\ (Len(items') > 1 => TotalSize(items') <= MaxBytes)
    <3>1. TotalSize(q) \in Nat /\ Totals(q)[k] \in Nat /\ MaxBytes \in Nat
      <4>1. Len(q) \in 0 .. Len(q)
        BY <1>2
      <4>2. QED
        BY <1>2, <1>4, <4>1, BufferAssumption DEF TotalSize
    <3>2. CASE Len(q) - k > 1
      BY <1>2, <1>3, <1>5, <2>1, <3>1, <3>2 DEF Overfull
    <3>3. CASE ~(Len(q) - k > 1)
      BY <1>2, <1>3, <3>3
    <3>4. QED
      BY <3>2, <3>3
  <2>3. QED
    BY <1>1, <1>5, <2>2 DEF Counted, Fits
<1>7. ASSUME Fits(q) PROVE items' = q
  <2>1. ~ Overfull(q, TotalSize(q), 0)
    <3>1. TotalSize(q) \in Nat /\ MaxBytes \in Nat
      BY <1>2, <1>4, BufferAssumption DEF TotalSize
    <3>2. QED
      BY <1>2, <1>4, <1>7, <3>1 DEF Overfull, Fits
  <2>2. k = 0
    BY <1>1, <1>2, <2>1
  <2>3. Len(items') = Len(q) /\ \A i \in 1 .. Len(q) : items'[i] = q[i]
    BY <1>2, <1>3, <2>2
  <2>4. QED
    BY <1>3, <2>3, SeqEqual
<1>8. QED
  BY <1>6, <1>7

(* What a trim drops is older than what it keeps. *)
LEMMA TrimOldest ==
  ASSUME NEW q \in Seq(Entry), NEW n, Trimmed(q, n), KeysGrow(q)
  PROVE  /\ KeysGrow(items')
         /\ \A d \in Keys(q) \ Keys(items'), b \in Keys(items') : d < b
<1>1. PICK k \in Nat : /\ k < Len(q)
                       /\ items' \in Seq(Entry)
                       /\ Len(items') = Len(q) - k
                       /\ \A i \in 1 .. Len(items') : items'[i] = q[i + k]
  BY TrimFacts
<1>2. Len(q) \in Nat /\ Len(items') \in Nat
  BY <1>1, LenProperties
<1>3. \A i \in 1 .. Len(items') : i + k \in 1 .. Len(q)
  BY <1>1, <1>2
<1>4. KeysGrow(items')
  <2>1. SUFFICES ASSUME NEW i \in 1 .. Len(items'), NEW j \in 1 .. Len(items'), i < j
                 PROVE  items'[i].key < items'[j].key
    BY DEF KeysGrow
  <2>2. i + k \in 1 .. Len(q) /\ j + k \in 1 .. Len(q) /\ i + k < j + k
    BY <1>1, <1>3, <2>1
  <2>3. q[i + k].key < q[j + k].key
    BY <2>2 DEF KeysGrow
  <2>4. QED
    BY <1>1, <2>3
<1>5. ASSUME NEW d \in Keys(q) \ Keys(items'), NEW b \in Keys(items')
      PROVE  d < b
  <2>1. /\ Keys(q) = {q[i].key : i \in 1 .. Len(q)}
        /\ Keys(items') = {items'[i].key : i \in 1 .. Len(items')}
    BY <1>1, KeysOf
  <2>2. PICK i \in 1 .. Len(q) : d = q[i].key
    BY <1>5, <2>1
  <2>3. PICK j \in 1 .. Len(items') : b = items'[j].key
    BY <1>5, <2>1
  <2>4. i <= k
    <3>1. SUFFICES ASSUME i > k PROVE FALSE
      BY <1>1, <2>2
    <3>2. i - k \in 1 .. Len(items') /\ (i - k) + k = i
      BY <1>1, <1>2, <3>1
    <3>3. QED
      BY <1>1, <1>5, <2>1, <2>2, <3>2
  <2>5. j + k \in 1 .. Len(q) /\ i < j + k
    BY <1>1, <1>2, <1>3, <2>4
  <2>6. QED
    BY <1>1, <2>2, <2>3, <2>5 DEF KeysGrow
<1>6. QED
  BY <1>4, <1>5

(* Push of a batch newer than any queued: the queue stays in order, counted *)
(* and inside its bounds, and what it drops are its oldest batches.         *)
LEMMA PushOrdered ==
  ASSUME Queues, Counted, KeysGrow(items), NEW key \in Nat, NEW size \in Sizes,
         \A c \in Keys(items) : c < key,
         Push(key, size)
  PROVE  /\ KeysGrow(items') /\ Counted'
         /\ \A d \in Keys(items) \ Keys(items'), b \in Keys(items) \cap Keys(items') : d < b
<1> DEFINE e == [id |-> nextID + 1, key |-> key, size |-> size]
           q == Append(items, e)
<1>1. /\ items \in Seq(Entry) /\ nextID \in Nat /\ Len(items) \in Nat
      /\ Keys(items) = {items[i].key : i \in 1 .. Len(items)}
  BY LenProperties, KeysOf DEF Queues
<1>2. e \in Entry /\ e.key = key /\ e.size = size
  BY <1>1 DEF Entry
<1>3. /\ q \in Seq(Entry) /\ Len(q) = Len(items) + 1
      /\ \A i \in 1 .. Len(items) : q[i] = items[i]
      /\ q[Len(items) + 1] = e
  BY <1>1, <1>2, AppendProperties
<1>4. Trimmed(q, bytes + size)
  BY DEF Push
<1> HIDE DEF e, q
<1>5. \A i \in 1 .. Len(q) : i \in 1 .. Len(items) \/ i = Len(items) + 1
  BY <1>1, <1>3
<1>6. bytes + size = TotalSize(q)
  <2>1. /\ Totals(items)[0] = 0 /\ Totals(items)[Len(items)] \in Nat
        /\ Totals(q)[0] = 0 /\ Totals(q)[Len(items)] \in Nat
        /\ Totals(q)[Len(items) + 1] = Totals(q)[Len(items)] + size
    <3>1. /\ 0 \in 0 .. Len(items) /\ Len(items) \in 0 .. Len(items)
          /\ Len(items) \in 0 .. Len(q) /\ Len(items) + 1 \in 1 .. Len(q)
          /\ (Len(items) + 1) - 1 = Len(items)
      BY <1>1, <1>3
    <3>2. QED
      BY <1>1, <1>2, <1>3, <3>1, TotalsFacts
  <2>2. Totals(items)[Len(items)] = Totals(q)[Len(items) + 0] - Totals(q)[0]
    <3>1. /\ 0 \in 0 .. Len(q) /\ Len(items) <= Len(items) /\ Len(items) + 0 <= Len(q)
          /\ \A i \in 1 .. Len(items) : items[i].size = q[i + 0].size
      BY <1>1, <1>3
    <3>2. QED
      BY <1>1, <1>3, <3>1, TotalsShift
  <2>3. Totals(q)[Len(items) + 0] = Totals(q)[Len(items)]
    BY <1>1
  <2>4. QED
    BY <1>3, <2>1, <2>2, <2>3 DEF Counted, TotalSize
<1>7. KeysGrow(q)
  <2>1. SUFFICES ASSUME NEW i \in 1 .. Len(q), NEW j \in 1 .. Len(q), i < j
                 PROVE  q[i].key < q[j].key
    BY DEF KeysGrow
  <2>2. i \in 1 .. Len(items)
    BY <1>1, <1>3, <2>1
  <2>3. CASE j \in 1 .. Len(items)
    BY <1>3, <2>1, <2>2, <2>3 DEF KeysGrow
  <2>4. CASE j = Len(items) + 1
    BY <1>1, <1>2, <1>3, <2>2, <2>4
  <2>5. QED
    BY <1>5, <2>3, <2>4
<1>8. Keys(items) \subseteq Keys(q)
  <2>1. Keys(q) = {q[i].key : i \in 1 .. Len(q)}
    BY <1>3, KeysOf
  <2>2. \A i \in 1 .. Len(items) : i \in 1 .. Len(q)
    BY <1>1, <1>3
  <2>3. QED
    BY <1>1, <1>3, <2>1, <2>2
<1>9. /\ KeysGrow(items')
      /\ \A d \in Keys(q) \ Keys(items'), b \in Keys(items') : d < b
  BY <1>3, <1>4, <1>7, TrimOldest
<1>10. Counted'
  BY <1>3, <1>4, <1>6, TrimCounts
<1>11. QED
  BY <1>8, <1>9, <1>10

(* PopFront takes the first batch and no other. *)
LEMMA PopOrdered ==
  ASSUME Queues, Counted, KeysGrow(items), items # <<>>, PopFront
  PROVE  /\ KeysGrow(items') /\ Counted'
         /\ Keys(items') = Keys(items) \ {items[1].key}
<1>1. /\ items \in Seq(Entry) /\ items' \in Seq(Entry)
      /\ Len(items) \in Nat \ {0} /\ Len(items') = Len(items) - 1
      /\ \A i \in 1 .. Len(items') : items'[i] = items[i + 1]
      /\ Head(items) = items[1]
  BY PopFacts DEF Queues
<1>2. \A i \in 1 .. Len(items') : i + 1 \in 1 .. Len(items)
  BY <1>1
<1>3. KeysGrow(items')
  <2>1. SUFFICES ASSUME NEW i \in 1 .. Len(items'), NEW j \in 1 .. Len(items'), i < j
                 PROVE  items'[i].key < items'[j].key
    BY DEF KeysGrow
  <2>2. i + 1 \in 1 .. Len(items) /\ j + 1 \in 1 .. Len(items) /\ i + 1 < j + 1
    BY <1>1, <1>2, <2>1
  <2>3. items[i + 1].key < items[j + 1].key
    BY <2>2 DEF KeysGrow
  <2>4. QED
    BY <1>1, <2>3
<1>4. Counted'
  <2>1. Totals(items')[Len(items')] = Totals(items)[Len(items') + 1] - Totals(items)[1]
    <3>1. /\ 1 \in 0 .. Len(items) /\ Len(items') \in Nat /\ Len(items') <= Len(items')
          /\ Len(items') + 1 <= Len(items)
      BY <1>1
    <3>2. QED
      BY <1>1, <3>1, TotalsShift, SMTT(30)
  <2>2. /\ Totals(items)[1] = items[1].size
        /\ items[1].size \in Nat /\ TotalSize(items) \in Nat
    <3>1. 1 \in 1 .. Len(items) /\ Len(items) \in 0 .. Len(items)
      BY <1>1
    <3>2. Totals(items)[1] = Totals(items)[1 - 1] + items[1].size /\ Totals(items)[0] = 0
          /\ items[1].size \in Nat
      BY <1>1, <3>1, TotalsFacts, SizesOf
    <3>3. QED
      BY <1>1, <3>1, <3>2, TotalsFacts DEF TotalSize
  <2>3. TotalSize(items') = TotalSize(items) - items[1].size
    BY <1>1, <2>1, <2>2 DEF TotalSize
  <2>4. bytes' = TotalSize(items')
    BY <1>1, <2>3 DEF PopFront, Counted
  <2>5. Fits(items')
    BY <1>1, <2>2, <2>3, BufferAssumption DEF Counted, Fits
  <2>6. QED
    BY <2>4, <2>5 DEF Counted
<1>5. Keys(items') = Keys(items) \ {items[1].key}
  <2>1. Keys(items') \subseteq Keys(items) /\ Keys(items) \subseteq Keys(items') \cup {items[1].key}
    BY <1>1, PopKeys
  <2>2. items[1].key \notin Keys(items')
    <3>1. SUFFICES ASSUME NEW i \in 1 .. Len(items'), items'[i].key = items[1].key PROVE FALSE
      BY <1>1, KeysOf
    <3>2. items[1].key < items[i + 1].key /\ items[1].key \in Nat
      BY <1>1, <1>2, KeysAreNumbers DEF KeysGrow
    <3>3. QED
      BY <1>1, <3>1, <3>2
  <2>3. QED
    BY <2>1, <2>2
<1>6. QED
  BY <1>3, <1>4, <1>5

(* Load of what a full queue at most has spilled: every batch comes back,   *)
(* in order, and none is dropped.                                           *)
LEMMA LoadOrdered ==
  ASSUME Queues, Counted, items = <<>>, Fits(spill), KeysGrow(spill), Load
  PROVE  /\ KeysGrow(items') /\ Counted'
         /\ Keys(items') = Keys(spill)
<1>1. /\ spill \in Seq(Entry) /\ nextID \in Nat /\ Len(spill) \in Nat
      /\ DOMAIN spill = 1 .. Len(spill)
  BY LenProperties DEF Queues
<1>2. CASE spill = <<>>
  <2>1. UNCHANGED bufferVars
    BY <1>2 DEF Load
  <2>2. QED
    BY <1>2, <2>1 DEF bufferVars, Counted
<1>3. CASE spill # <<>>
  <2> DEFINE q == Renumbered(spill)
  <2>1. q = [i \in 1 .. Len(spill) |-> [spill[i] EXCEPT !.id = nextID + i]]
    BY <1>1 DEF Renumbered
  <2>2. ASSUME NEW i \in 1 .. Len(spill)
        PROVE  q[i] \in Entry /\ q[i].key = spill[i].key /\ q[i].size = spill[i].size
    <3>1. spill[i] \in Entry /\ nextID + i \in Nat
      BY <1>1, ElementOfSeq
    <3>2. QED
      BY <2>1, <3>1 DEF Entry
  <2>3. q \in Seq(Entry) /\ Len(q) = Len(spill)
    <3>1. q \in [1 .. Len(spill) -> Entry]
      BY <2>1, <2>2
    <3>2. QED
      BY <1>1, <3>1
  <2> HIDE DEF q
  <2>4. Trimmed(q, TotalSize(q))
    <3>1. q \o items = q
      BY <2>3, ConcatEmptySeq
    <3>2. QED
      BY <1>3, <3>1 DEF Load, q
  <2>5. TotalSize(q) = TotalSize(spill)
    <3>1. Totals(q)[Len(q)] = Totals(spill)[Len(q) + 0] - Totals(spill)[0]
      <4>1. /\ 0 \in 0 .. Len(spill) /\ Len(q) \in Nat /\ Len(q) <= Len(q) /\ Len(q) + 0 <= Len(spill)
            /\ \A i \in 1 .. Len(q) : q[i].size = spill[i + 0].size
        BY <1>1, <2>2, <2>3
      <4>2. QED
        BY <1>1, <2>3, <4>1, TotalsShift
    <3>2. Totals(spill)[0] = 0 /\ Totals(spill)[Len(spill)] \in Nat
      <4>1. Len(spill) \in 0 .. Len(spill)
        BY <1>1
      <4>2. QED
        BY <1>1, <4>1, TotalsFacts
    <3>3. Len(q) + 0 = Len(spill)
      BY <1>1, <2>3
    <3>4. QED
      BY <2>3, <3>1, <3>2, <3>3 DEF TotalSize
  <2>6. Fits(q)
    BY <2>3, <2>5 DEF Fits
  <2>7. items' = q /\ Counted'
    BY <2>3, <2>4, <2>6, TrimCounts
  <2>8. KeysGrow(q)
    BY <2>2, <2>3 DEF KeysGrow
  <2>9. Keys(q) = Keys(spill)
    <3>1. Keys(q) = {q[i].key : i \in 1 .. Len(q)} /\ Keys(spill) = {spill[i].key : i \in 1 .. Len(spill)}
      BY <1>1, <2>3, KeysOf
    <3>2. QED
      BY <2>2, <2>3, <3>1
  <2>10. QED
    BY <2>7, <2>8, <2>9
<1>4. QED
  BY <1>2, <1>3
-----------------------------------------------------------------------------
QueueTyped ==
  /\ Queues
  /\ made \in Nat
  /\ held \in Entry \cup {NoEntry}

(* The entry a drain holds is the queued one of that id, if any is. *)
HeldIsQueued ==
  pc \in {"sending", "done"} =>
    /\ Running
    /\ held.id \in 1 .. nextID
    /\ \A i \in 1 .. Len(items) : items[i].id = held.id => items[i] = held

(* Before it is popped, an entry is at central or has been refused. *)
HeldDealtWith == pc = "done" => held.key \in got \cup refusable

(* Where the queue and the spill file hold the same batches. *)
SpillInv ==
  /\ phase \in {"up", "stopping"} => spill = <<>>
  /\ phase \in {"spilled", "loaded"} => Keys(items) \subseteq Keys(spill)
  /\ phase = "loaded" => Keys(spill) \subseteq Keys(items) \cup evicted
  /\ phase = "down" => items = <<>>

IInv ==
  /\ QueueTyped
  /\ IdsGrow
  /\ HeldIsQueued
  /\ HeldDealtWith
  /\ SpillInv
  /\ NoneVanishes
-----------------------------------------------------------------------------
(* Started with nothing made, queued or spilled. *)
LEMMA InitHolds == Init => IInv
<1> SUFFICES ASSUME Init PROVE IInv
  OBVIOUS
<1>1. /\ items = <<>> /\ spill = <<>> /\ nextID = 0 /\ made = 0
      /\ held = NoEntry /\ pc = "idle" /\ phase = "up"
  BY DEF Init, BufferInit
<1>2. <<>> \in Seq(Entry) /\ Len(<<>>) = 0
  BY EmptySeq
<1>3. QED
  BY <1>1, <1>2 DEF IInv, QueueTyped, Queues, IdsGrow, HeldIsQueued, HeldDealtWith, SpillInv,
                    NoneVanishes

(* A step that leaves the buffer and the process alone, and holds no entry  *)
(* that was not held, keeps what depends on them.                           *)
LEMMA QuietStep ==
  ASSUME IInv, UNCHANGED <<bufferVars, phase, made, evicted, crashed>>,
         got \subseteq got', refusable \subseteq refusable',
         held' \in {held, NoEntry},
         pc' \in {"sending", "done"} => pc \in {"sending", "done"} /\ held' = held,
         pc' = "done" => held.key \in got' \cup refusable'
  PROVE  IInv'
<1>1. QueueTyped' /\ IdsGrow' /\ SpillInv'
  <2>1. QueueTyped'
    BY DEF IInv, QueueTyped, Queues, bufferVars
  <2>2. IdsGrow'
    BY DEF IInv, IdsGrow, bufferVars
  <2>3. SpillInv'
    BY SMTT(30) DEF IInv, SpillInv, bufferVars, Keys
  <2>4. QED
    BY <2>1, <2>2, <2>3
<1>2. HeldIsQueued'
  BY DEF IInv, HeldIsQueued, bufferVars, Running
<1>3. HeldDealtWith'
  BY DEF HeldDealtWith
<1>4. NoneVanishes'
  BY DEF IInv, NoneVanishes, bufferVars, Keys
<1>5. QED
  BY <1>1, <1>2, <1>3, <1>4 DEF IInv

(* enqueue. *)
LEMMA EnqueueStep == ASSUME IInv, NEW size \in Sizes, Enqueue(size) PROVE IInv'
<1>1. /\ phase = "up" /\ phase' = "up" /\ made' = made + 1
      /\ Push(made + 1, size) /\ Appears(made + 1)
      /\ evicted' = evicted \cup (Keys(items) \ Keys(items'))
      /\ pc' = pc /\ held' = held /\ crashed' = crashed
      /\ spill' = spill /\ spill = <<>>
  BY DEF Enqueue, NoteEvicted, Push, IInv, SpillInv
<1>2. got' = got /\ refusable \subseteq refusable'
  BY <1>1 DEF Appears
<1>3. made \in Nat /\ made + 1 \in Nat /\ nextID \in Nat
  BY DEF IInv, QueueTyped, Queues
<1>4. /\ items' \in Seq(Entry)
      /\ nextID' \in Nat
      /\ nextID' = nextID + 1
      /\ IdsGrow'
      /\ \A i \in 1 .. Len(items') :
           items'[i].id = nextID + 1 \/ \E j \in 1 .. Len(items) : items'[i] = items[j]
      /\ made + 1 \in Keys(items')
      /\ Keys(items') \subseteq Keys(items) \cup {made + 1}
  BY <1>1, <1>3, PushKeeps DEF IInv, QueueTyped
<1>5. QueueTyped'
  BY <1>1, <1>3, <1>4 DEF IInv, QueueTyped, Queues
<1>6. HeldIsQueued'
  <2>1. SUFFICES ASSUME pc \in {"sending", "done"}
                 PROVE  /\ held.id \in 1 .. nextID'
                        /\ \A i \in 1 .. Len(items') :
                             items'[i].id = held.id => items'[i] = held
    BY <1>1 DEF HeldIsQueued, Running
  <2>2. /\ held.id \in 1 .. nextID
        /\ \A i \in 1 .. Len(items) : items[i].id = held.id => items[i] = held
    BY <2>1 DEF IInv, HeldIsQueued
  <2>3. held.id \in 1 .. nextID' /\ held.id # nextID + 1
    BY <1>3, <1>4, <2>2
  <2>4. QED
    BY <1>4, <2>2, <2>3
<1>7. HeldDealtWith'
  BY <1>1, <1>2 DEF IInv, HeldDealtWith
<1>8. SpillInv'
  BY <1>1 DEF SpillInv
<1>9. NoneVanishes'
  <2>1. SUFFICES ASSUME NEW b \in 1 .. made + 1
                 PROVE  b \in Keys(items') \cup Keys(spill') \cup got' \cup refusable'
                             \cup evicted' \cup crashed'
    BY <1>1 DEF NoneVanishes
  <2>2. CASE b = made + 1
    BY <1>4, <2>2
  <2>3. CASE b \in 1 .. made
    BY <1>1, <1>2, <2>3 DEF IInv, NoneVanishes
  <2>4. QED
    BY <1>3, <2>2, <2>3
<1>10. QED
  BY <1>4, <1>5, <1>6, <1>7, <1>8, <1>9 DEF IInv

(* Peek: what a drain holds is the head of the queue. *)
LEMMA PeekStep == ASSUME IInv, PeekHead PROVE IInv'
<1>1. CASE items = <<>>
  BY <1>1, QuietStep DEF PeekHead, bufferVars, centralVars, histVars
<1>2. CASE items # <<>>
  <2>1. /\ pc' = "sending" /\ held' = items[1] /\ Running
        /\ UNCHANGED <<bufferVars, phase, centralVars, histVars>>
    BY <1>2 DEF PeekHead, Peek
  <2>2. /\ items \in Seq(Entry) /\ Len(items) \in Nat \ {0} /\ items[1] \in Entry
        /\ 1 \in 1 .. Len(items)
    BY <1>2, EmptySeq, ElementOfSeq DEF IInv, QueueTyped, Queues
  <2>3. QueueTyped' /\ IdsGrow' /\ SpillInv'
    <3>1. QueueTyped'
      BY <2>1, <2>2 DEF IInv, QueueTyped, Queues, bufferVars, histVars
    <3>2. IdsGrow'
      BY <2>1 DEF IInv, IdsGrow, bufferVars
    <3>3. SpillInv'
      <4>1. UNCHANGED <<items, spill, phase, evicted>>
        BY <2>1 DEF bufferVars, histVars
      <4>2. QED
        BY <4>1 DEF IInv, SpillInv
    <3>4. QED
      BY <3>1, <3>2, <3>3
  <2>4. ASSUME NEW i \in 1 .. Len(items), items[i].id = items[1].id
        PROVE  items[i] = items[1]
    <3>1. i = 1 \/ 1 < i
      BY <2>2
    <3>2. CASE 1 < i
      <4>1. items[1].id < items[i].id /\ items[1].id \in Nat
        BY <2>2, <3>2 DEF IInv, IdsGrow, Entry
      <4>2. QED
        BY <2>4, <4>1
    <3>3. QED
      BY <3>1, <3>2
  <2>5. HeldIsQueued'
    BY <2>1, <2>2, <2>4 DEF IInv, HeldIsQueued, IdsGrow, Running, bufferVars
  <2>6. HeldDealtWith'
    BY <2>1 DEF HeldDealtWith
  <2>7. NoneVanishes'
    BY <2>1 DEF IInv, NoneVanishes, bufferVars, centralVars, histVars, Keys
  <2>8. QED
    BY <2>3, <2>5, <2>6, <2>7 DEF IInv
<1>3. QED
  BY <1>1, <1>2
(* PopSent: only the entry that was sent goes, and it was dealt with. *)
LEMMA PopStep == ASSUME IInv, PopHeld PROVE IInv'
<1>1. /\ pc = "done" /\ pc' = "peek" /\ held' = NoEntry
      /\ PopSent(held)
      /\ UNCHANGED <<phase, centralVars, histVars>>
      /\ held.key \in got \cup refusable
  BY DEF PopHeld, IInv, HeldDealtWith
<1>2. CASE ~(items # <<>> /\ Head(items).id = held.id)
  <2>1. UNCHANGED bufferVars
    BY <1>1, <1>2 DEF PopSent
  <2>2. QED
    BY <1>1, <2>1, QuietStep DEF centralVars, histVars
<1>3. CASE items # <<>> /\ Head(items).id = held.id
  <2>1. PopFront /\ nextID' = nextID /\ spill' = spill
    BY <1>1, <1>3 DEF PopSent, PopFront
  <2>2. /\ items \in Seq(Entry)
        /\ items' \in Seq(Entry)
        /\ Len(items) \in Nat \ {0}
        /\ Len(items') = Len(items) - 1
        /\ \A i \in 1 .. Len(items') : items'[i] = items[i + 1]
        /\ Head(items) = items[1]
    BY <1>3, <2>1, PopFacts DEF IInv, QueueTyped, Queues
  <2>3. \A i \in 1 .. Len(items') : i + 1 \in 1 .. Len(items)
    BY <2>2
  <2>4. items[1] = held
    BY <1>1, <1>3, <2>2 DEF IInv, HeldIsQueued
  <2>5. /\ Keys(items') = {items'[i].key : i \in 1 .. Len(items')}
        /\ Keys(items) = {items[i].key : i \in 1 .. Len(items)}
    BY <2>2, KeysOf
  <2>6. Keys(items') \subseteq Keys(items)
    BY <2>2, <2>3, <2>5
  <2>7. Keys(items) \subseteq Keys(items') \cup {held.key}
    <3>1. SUFFICES ASSUME NEW i \in 1 .. Len(items)
                   PROVE  items[i].key \in Keys(items') \cup {held.key}
      BY <2>5
    <3>2. CASE i = 1
      BY <2>4, <3>2
    <3>3. CASE i # 1
      <4>1. i - 1 \in 1 .. Len(items') /\ items'[i - 1] = items[i]
        BY <2>2, <3>3
      <4>2. QED
        BY <2>5, <4>1
    <3>4. QED
      BY <3>2, <3>3
  <2>8. QueueTyped'
    BY <1>1, <2>1, <2>2 DEF IInv, QueueTyped, Queues, histVars
  <2>9. IdsGrow'
    <3>1. \A i \in 1 .. Len(items') : items'[i].id \in 1 .. nextID
      BY <2>2, <2>3 DEF IInv, IdsGrow
    <3>2. ASSUME NEW i \in 1 .. Len(items'), NEW j \in 1 .. Len(items'), i < j
          PROVE  items'[i].id < items'[j].id
      <4>1. /\ i + 1 \in 1 .. Len(items) /\ j + 1 \in 1 .. Len(items)
            /\ i + 1 < j + 1
        BY <2>2, <2>3, <3>2
      <4>2. items[i + 1].id < items[j + 1].id
        BY <4>1 DEF IInv, IdsGrow
      <4>3. QED
        BY <2>2, <4>2
    <3>3. QED
      BY <2>1, <3>1, <3>2 DEF IdsGrow
  <2>10. HeldIsQueued' /\ HeldDealtWith'
    BY <1>1 DEF HeldIsQueued, HeldDealtWith
  <2>11. SpillInv'
    <3>1. phase' = phase /\ evicted' = evicted
      BY <1>1 DEF histVars
    <3>2. phase \in {"up", "stopping", "spilled"}
      BY <1>1 DEF IInv, HeldIsQueued, Running
    <3>3. QED
      BY <2>1, <2>6, <3>1, <3>2 DEF IInv, SpillInv
  <2>12. NoneVanishes'
    <3>1. /\ made' = made /\ evicted' = evicted /\ crashed' = crashed
          /\ got' = got /\ refusable' = refusable
      BY <1>1 DEF centralVars, histVars
    <3>2. Keys(spill') = Keys(spill)
      BY <2>1
    <3>3. QED
      BY <1>1, <2>7, <3>1, <3>2 DEF IInv, NoneVanishes
  <2>13. QED
    BY <2>8, <2>9, <2>10, <2>11, <2>12 DEF IInv
<1>4. QED
  BY <1>2, <1>3

(* A process that has ended holds nothing; what it had is in the file or in *)
(* got, refusable and evicted, or noted as lost with it.                    *)
LEMMA EndStep ==
  ASSUME IInv, Forget, LoopGone, phase' = "down",
         made' = made, evicted' = evicted, got' = got, refusable' = refusable,
         crashed \subseteq crashed',
         Keys(items) \subseteq Keys(spill) \cup crashed'
  PROVE  IInv'
<1>1. /\ items' = <<>> /\ nextID' = 0 /\ spill' = spill
      /\ pc' = "idle" /\ held' = NoEntry
  BY DEF Forget, LoopGone
<1>2. <<>> \in Seq(Entry) /\ Len(<<>>) = 0
  BY EmptySeq
<1>3. QueueTyped'
  BY <1>1, <1>2 DEF IInv, QueueTyped, Queues
<1>4. IdsGrow'
  BY <1>1, <1>2 DEF IdsGrow
<1>5. HeldIsQueued' /\ HeldDealtWith' /\ SpillInv'
  BY <1>1 DEF HeldIsQueued, HeldDealtWith, SpillInv
<1>6. NoneVanishes'
  <2>1. Keys(spill') = Keys(spill)
    BY <1>1
  <2>2. QED
    BY <2>1 DEF IInv, NoneVanishes
<1>7. QED
  BY <1>3, <1>4, <1>5, <1>6 DEF IInv

(* Load, and the start of the process up to the removal of the file. *)
LEMMA StartStep == ASSUME IInv, Start PROVE IInv'
<1>1. /\ phase = "down" /\ phase' = "loaded" /\ Load
      /\ evicted' = evicted \cup ((Keys(items) \cup Keys(spill)) \ Keys(items'))
      /\ UNCHANGED <<loopVars, centralVars, made, crashed>>
      /\ items = <<>>
      /\ pc \notin {"sending", "done"}
  BY DEF Start, NoteEvicted, IInv, SpillInv, HeldIsQueued, Running
<1>2. /\ items' \in Seq(Entry) /\ nextID' \in Nat /\ spill' = spill
      /\ IdsGrow'
      /\ Keys(items') \subseteq Keys(spill)
  <2>1. CASE spill = <<>>
    <3>1. UNCHANGED bufferVars
      BY <1>1, <2>1 DEF Load
    <3>2. Keys(items') = Keys(spill)
      BY <1>1, <2>1, <3>1 DEF bufferVars
    <3>3. QED
      BY <3>1, <3>2 DEF IInv, QueueTyped, Queues, IdsGrow, bufferVars
  <2>2. CASE spill # <<>>
    BY <1>1, <2>2, LoadKeeps DEF IInv, QueueTyped
  <2>3. QED
    BY <2>1, <2>2
<1>3. Keys(spill') = Keys(spill)
  BY <1>2
<1>4. QueueTyped'
  BY <1>1, <1>2 DEF IInv, QueueTyped, Queues, loopVars
<1>5. HeldIsQueued' /\ HeldDealtWith'
  BY <1>1 DEF HeldIsQueued, HeldDealtWith, loopVars
<1>6. SpillInv'
  BY <1>1, <1>2, <1>3 DEF SpillInv
<1>7. NoneVanishes'
  BY <1>1, <1>2, <1>3 DEF IInv, NoneVanishes, centralVars
<1>8. QED
  BY <1>2, <1>4, <1>5, <1>6, <1>7 DEF IInv

(* The other steps of the process: Stop, SaveBuffer, RemoveSpill. *)
LEMMA ProcessStep == ASSUME IInv, Stop \/ SaveBuffer \/ Started PROVE IInv'
<1>1. /\ UNCHANGED <<items, nextID, loopVars, centralVars, histVars>>
      /\ phase \in {"up", "stopping", "loaded"}
  BY DEF Stop, SaveBuffer, Save, Started, RemoveSpill, bufferVars
<1>2. Keys(items') = Keys(items)
  BY <1>1
<1>3. /\ spill' \in {spill, items, <<>>}
      /\ spill' \in Seq(Entry)
  <2>1. <<>> \in Seq(Entry)
    BY EmptySeq
  <2>2. QED
    BY <2>1 DEF Stop, SaveBuffer, Save, Started, RemoveSpill, bufferVars, IInv, QueueTyped, Queues
<1>4. QueueTyped' /\ IdsGrow'
  BY <1>1, <1>3 DEF IInv, QueueTyped, Queues, IdsGrow, loopVars, histVars
<1>5. HeldIsQueued' /\ HeldDealtWith'
  BY <1>1 DEF IInv, HeldIsQueued, HeldDealtWith, Running, Stop, SaveBuffer, Started,
              loopVars, centralVars
<1>6. SpillInv'
  BY <1>1, <1>2 DEF IInv, SpillInv, Stop, SaveBuffer, Save, Started, RemoveSpill,
              bufferVars, histVars
<1>7. Keys(spill) \subseteq Keys(items') \cup Keys(spill') \cup evicted
  <2>1. CASE Stop
    BY <2>1 DEF Stop, bufferVars
  <2>2. CASE SaveBuffer
    BY <2>2 DEF SaveBuffer, IInv, SpillInv, Keys
  <2>3. CASE Started
    BY <1>2, <2>3 DEF Started, IInv, SpillInv
  <2>4. QED
    BY <2>1, <2>2, <2>3
<1>8. NoneVanishes'
  <2>1. /\ made' = made /\ evicted' = evicted /\ crashed' = crashed
        /\ got' = got /\ refusable' = refusable
    BY <1>1 DEF centralVars, histVars
  <2>2. QED
    BY <1>2, <1>7, <2>1 DEF IInv, NoneVanishes
<1>9. QED
  BY <1>4, <1>5, <1>6, <1>8 DEF IInv
-----------------------------------------------------------------------------
(* Every step keeps the invariant. *)
THEOREM Inductive == Spec => []IInv
<1>1. Init => IInv
  BY InitHolds
<1>2. ASSUME IInv, [Next]_vars PROVE IInv'
  <2>1. CASE \E size \in Sizes : Enqueue(size)
    BY <1>2, <2>1, EnqueueStep
  <2>2. CASE Wake
    BY <1>2, <2>2, QuietStep DEF Wake, centralVars, histVars
  <2>3. CASE PeekHead
    BY <1>2, <2>3, PeekStep
  <2>4. CASE Accepted
    BY <1>2, <2>4, QuietStep DEF Accepted, Takes, histVars
  <2>5. CASE AnswerLost
    BY <1>2, <2>5, QuietStep DEF AnswerLost, Takes, histVars
  <2>6. CASE PushFails
    <3>1. PICK err \in Errors(held.key) :
            IF Unsendable(err)
            THEN pc' = "done" /\ UNCHANGED held
            ELSE pc' = "idle" /\ held' = NoEntry
      BY <2>6 DEF PushFails
    <3>2. Unsendable(err) => held.key \in refusable
      BY <3>1 DEF Unsendable, Errors
    <3>3. QED
      BY <1>2, <2>6, <3>1, <3>2, QuietStep DEF PushFails, centralVars, histVars
  <2>7. CASE PopHeld
    BY <1>2, <2>7, PopStep
  <2>8. CASE Stop \/ SaveBuffer \/ Started
    BY <1>2, <2>8, ProcessStep
  <2>9. CASE Exit
    BY <1>2, <2>9, EndStep DEF Exit, centralVars, histVars, IInv, SpillInv
  <2>10. CASE Crash
    BY <1>2, <2>10, EndStep DEF Crash, centralVars
  <2>11. CASE Start
    BY <1>2, <2>11, StartStep
  <2>12. CASE CentralChanges
    BY <1>2, <2>12, QuietStep DEF CentralChanges, CentralTurns, loopVars, histVars, IInv,
                                   HeldDealtWith
  <2>13. CASE UNCHANGED vars
    BY <1>2, <2>13, QuietStep DEF vars, loopVars, centralVars, histVars, IInv, HeldDealtWith
  <2>14. QED
    BY <1>2, <2>1, <2>2, <2>3, <2>4, <2>5, <2>6, <2>7, <2>8, <2>9, <2>10, <2>11, <2>12,
       <2>13 DEF Next, DeliverLoop, Process
<1>3. QED
  BY <1>1, <1>2, PTL DEF Spec

(* No batch is lost on its way to central but to the bounds or to a crash,  *)
(* however the drain, the poll loop, evictions, stops and starts interleave *)
(* and whatever the bounds are.                                             *)
THEOREM NoBatchVanishes == Spec => []NoneVanishes
<1>1. IInv => NoneVanishes
  BY DEF IInv
<1>2. QED
  BY <1>1, Inductive, PTL
-----------------------------------------------------------------------------
(* The batches queued, spilled or held have been made. *)
KeysMade ==
  /\ Keys(items) \subseteq 1 .. made /\ Keys(spill) \subseteq 1 .. made
  /\ pc \in {"sending", "done"} => held.key \in 1 .. made

TypeInv == TypeOK /\ KeysMade

(* No step queues more than the bound: a push and a load trim, a pop        *)
(* shortens, and the rest leave the queue alone or empty it.                *)
LEMMA QueueBounded ==
  ASSUME IInv, Len(items) <= MaxItems, [Next]_vars
  PROVE  Len(items') <= MaxItems
<1> USE DEF bufferVars
<1>1. ASSUME NEW size \in Sizes, Enqueue(size) PROVE Len(items') <= MaxItems
  <2>1. /\ [id |-> nextID + 1, key |-> made + 1, size |-> size] \in Entry
        /\ items \in Seq(Entry)
    BY DEF IInv, QueueTyped, Queues, Entry
  <2>2. Append(items, [id |-> nextID + 1, key |-> made + 1, size |-> size]) \in Seq(Entry)
    BY <2>1, AppendProperties
  <2>3. QED
    BY <1>1, <2>2, TrimBounds DEF Enqueue, Push
<1>2. ASSUME PopHeld PROVE Len(items') <= MaxItems
  <2>1. CASE UNCHANGED bufferVars
    BY <2>1
  <2>2. CASE items # <<>> /\ PopFront
    <3>1. Len(items) \in Nat /\ Len(items') = Len(items) - 1
      BY <2>2, PopFacts DEF IInv, QueueTyped, Queues
    <3>2. QED
      BY <3>1, BufferAssumption
  <2>3. QED
    BY <1>2, <2>1, <2>2 DEF PopHeld, PopSent
<1>3. ASSUME Start PROVE Len(items') <= MaxItems
  <2>1. CASE spill = <<>>
    BY <1>3, <2>1 DEF Start, Load
  <2>2. CASE spill # <<>>
    <3>1. spill \in Seq(Entry) /\ items \in Seq(Entry) /\ nextID \in Nat
      BY DEF IInv, QueueTyped, Queues
    <3>2. Renumbered(spill) \in Seq(Entry)
      <4>1. Len(spill) \in Nat /\ DOMAIN spill = 1 .. Len(spill)
        BY <3>1, LenProperties
      <4>2. ASSUME NEW i \in 1 .. Len(spill)
            PROVE  [spill[i] EXCEPT !.id = nextID + i] \in Entry
        <5>1. spill[i] \in Entry /\ nextID + i \in Nat
          BY <3>1, <4>1, ElementOfSeq
        <5>2. QED
          BY <5>1 DEF Entry
      <4>3. Renumbered(spill) \in [1 .. Len(spill) -> Entry]
        BY <4>1, <4>2 DEF Renumbered
      <4>4. QED
        BY <4>1, <4>3
    <3>3. Renumbered(spill) \o items \in Seq(Entry)
      BY <3>1, <3>2, ConcatProperties
    <3>4. QED
      BY <1>3, <2>2, <3>3, TrimBounds DEF Start, Load
  <2>3. QED
    BY <2>1, <2>2
<1>4. ASSUME Forget PROVE Len(items') <= MaxItems
  BY <1>4, EmptySeq, BufferAssumption DEF Forget
<1>5. CASE UNCHANGED items
  BY <1>5
<1>6. QED
  BY <1>1, <1>2, <1>3, <1>4, <1>5
     DEF Next, DeliverLoop, Process, Wake, PeekHead, Accepted, AnswerLost, PushFails, Stop,
         SaveBuffer, Save, Exit, Crash, Started, RemoveSpill, CentralChanges, vars

(* What is sent is in the queue when it is peeked. *)
LEMMA MadeStep ==
  ASSUME IInv, IInv', TypeInv, [Next]_vars
  PROVE  KeysMade'
<1>1. made \in Nat /\ made' \in Nat
  BY DEF IInv, QueueTyped, Queues
<1>2. CASE \E size \in Sizes : Enqueue(size)
  <2>1. PICK size \in Sizes : Enqueue(size)
    BY <1>2
  <2>2. /\ made' = made + 1 /\ Push(made + 1, size) /\ spill' = spill
        /\ pc' = pc /\ held' = held
    BY <2>1 DEF Enqueue, Push
  <2>3. Keys(items') \subseteq Keys(items) \cup {made + 1}
    BY <1>1, <2>2, PushKeeps DEF IInv, QueueTyped
  <2>4. QED
    BY <1>1, <2>2, <2>3 DEF TypeInv, KeysMade
<1>3. CASE PeekHead
  <2>1. CASE items = <<>>
    BY <1>3, <2>1 DEF PeekHead, TypeInv, KeysMade, bufferVars, histVars
  <2>2. CASE items # <<>>
    <3>1. held' = items[1] /\ UNCHANGED <<items, spill, made>>
      BY <1>3, <2>2 DEF PeekHead, Peek, bufferVars, histVars
    <3>2. items[1].key \in Keys(items)
      <4>1. items \in Seq(Entry) /\ Len(items) \in Nat \ {0}
        BY <2>2, EmptySeq, LenProperties DEF IInv, QueueTyped, Queues
      <4>2. QED
        BY <4>1, KeysOf
    <3>3. QED
      BY <3>1, <3>2 DEF TypeInv, KeysMade
  <2>3. QED
    BY <2>1, <2>2
<1>4. CASE PopHeld
  <2>1. UNCHANGED <<spill, made>> /\ pc' = "peek"
    BY <1>4 DEF PopHeld, PopSent, PopFront, bufferVars, histVars
  <2>2. Keys(items') \subseteq Keys(items)
    <3>1. CASE UNCHANGED bufferVars
      BY <3>1 DEF bufferVars
    <3>2. CASE items # <<>> /\ PopFront
      BY <3>2, PopKeys DEF IInv, QueueTyped, Queues
    <3>3. QED
      BY <1>4, <3>1, <3>2 DEF PopHeld, PopSent
  <2>3. QED
    BY <2>1, <2>2 DEF TypeInv, KeysMade
<1>5. CASE Start
  <2>1. UNCHANGED <<loopVars, made, spill>>
    BY <1>5 DEF Start, Load, bufferVars
  <2>2. Keys(items') \subseteq Keys(items) \cup Keys(spill)
    <3>1. CASE spill = <<>>
      BY <1>5, <3>1 DEF Start, Load, bufferVars
    <3>2. CASE spill # <<>>
      BY <1>5, <3>2, LoadKeeps DEF Start, IInv, QueueTyped, SpillInv
    <3>3. QED
      BY <3>1, <3>2
  <2>3. QED
    BY <2>1, <2>2 DEF TypeInv, KeysMade, loopVars
<1>6. CASE Forget /\ LoopGone /\ UNCHANGED made
  BY <1>6, EmptySeq DEF Forget, LoopGone, TypeInv, KeysMade, Keys
<1>7. CASE SaveBuffer
  BY <1>7 DEF SaveBuffer, Save, TypeInv, KeysMade, loopVars, histVars
<1>8. CASE Started
  BY <1>8, EmptySeq DEF Started, RemoveSpill, TypeInv, KeysMade, Keys, loopVars, histVars
<1>9. CASE /\ UNCHANGED <<bufferVars, made>>
           /\ pc' \in {"sending", "done"} => pc \in {"sending", "done"} /\ held' = held
  BY <1>9 DEF TypeInv, KeysMade, bufferVars
<1>10. CASE Wake \/ Accepted \/ AnswerLost \/ PushFails \/ Stop \/ CentralChanges \/ UNCHANGED vars
  BY <1>9, <1>10 DEF Wake, Accepted, AnswerLost, PushFails, Stop, CentralChanges, vars, loopVars,
                     histVars
<1>11. CASE Exit \/ Crash
  BY <1>6, <1>11 DEF Exit, Crash, histVars
<1>12. QED
  BY <1>2, <1>3, <1>4, <1>5, <1>7, <1>8, <1>10, <1>11 DEF Next, DeliverLoop, Process

(* Every step keeps the types. *)
LEMMA TypesKept == Spec => []TypeInv
<1>1. Init => TypeInv
  <2>1. <<>> \in Seq(Entry) /\ Len(<<>>) = 0 /\ Keys(<<>>) = {}
    BY EmptySeq DEF Keys
  <2>2. QED
    <3>1. SUFFICES ASSUME Init PROVE TypeOK /\ KeysMade
      BY DEF TypeInv
    <3>2. BufferTypeOK
      BY <2>1, <3>1, BufferAssumption DEF Init, BufferInit, BufferTypeOK
    <3>3. KeysMade
      BY <2>1, <3>1 DEF Init, BufferInit, KeysMade
    <3>4. TypeOK
      <4>1. /\ phase = "up" /\ deliverSignal = FALSE /\ pc = "idle" /\ held = NoEntry
            /\ central \in BOOLEAN /\ refusable = {} /\ got = {}
            /\ made = 0 /\ evicted = {} /\ crashed = {} /\ restarts = 0 /\ crashes = 0
        BY <3>1 DEF Init, CentralInit
      <4>2. made \in 0 .. MaxMade
        BY <4>1, TelemetryAssumption
      <4>3. QED
        BY <3>2, <4>1, <4>2 DEF TypeOK
    <3>5. QED
      BY <3>3, <3>4
<1>2. ASSUME IInv, IInv', TypeInv, [Next]_vars PROVE TypeInv'
  <2>1. KeysMade'
    BY <1>2, MadeStep
  <2>2. BufferTypeOK'
    <3>1. Len(items') <= MaxItems
      BY <1>2, QueueBounded DEF TypeInv, TypeOK, BufferTypeOK
    <3>2. Len(spill') <= MaxItems
      <4>1. spill' \in {spill, items, <<>>}
        BY <1>2 DEF Next, DeliverLoop, Process, Enqueue, Push, Wake, PeekHead, Accepted, AnswerLost,
                    PushFails, PopHeld, PopSent, PopFront, Stop, SaveBuffer, Save, Exit, Forget,
                    Crash, Start, Load, Started, RemoveSpill, CentralChanges, vars, bufferVars
      <4>2. QED
        BY <1>2, <4>1, EmptySeq, BufferAssumption DEF TypeInv, TypeOK, BufferTypeOK
    <3>3. QED
      BY <1>2, <3>1, <3>2 DEF BufferTypeOK, IInv, QueueTyped, Queues
  <2>3. /\ phase' \in {"down", "loaded", "up", "stopping", "spilled"}
        /\ deliverSignal' \in BOOLEAN /\ central' \in BOOLEAN
        /\ pc' \in {"idle", "peek", "sending", "done"}
        /\ held' \in Entry \cup {NoEntry}
    BY <1>2 DEF Next, DeliverLoop, Process, Enqueue, Wake, PeekHead, Accepted, AnswerLost,
                PushFails, PopHeld, Stop, SaveBuffer, Exit, Crash, LoopGone, Start, Started,
                CentralChanges, CentralTurns, Appears, Takes, vars, loopVars, centralVars, histVars,
                TypeInv, TypeOK, IInv, QueueTyped, Queues
  <2>4. made' \in 0 .. MaxMade /\ 1 .. made \subseteq 1 .. made'
    <3>1. \/ made' = made
          \/ made < MaxMade /\ made' = made + 1
      BY <1>2 DEF Next, DeliverLoop, Process, Enqueue, Wake, PeekHead, Accepted, AnswerLost,
                  PushFails, PopHeld, Stop, SaveBuffer, Exit, Crash, Start, Started,
                  CentralChanges, vars, histVars
    <3>2. QED
      BY <1>2, <3>1, TelemetryAssumption DEF TypeInv, TypeOK
  <2>5. refusable' \subseteq 1 .. made' /\ got' \subseteq 1 .. made'
    <3>1. CASE \E size \in Sizes : Enqueue(size)
      <4>1. made' = made + 1 /\ made \in Nat /\ Appears(made + 1)
        BY <1>2, <3>1 DEF Enqueue, TypeInv, TypeOK
      <4>2. made + 1 \in 1 .. made'
        BY <4>1
      <4>3. QED
        BY <1>2, <2>4, <4>1, <4>2 DEF Appears, TypeInv, TypeOK
    <3>2. CASE Accepted \/ AnswerLost
      <4>1. held.key \in 1 .. made /\ Takes(held.key)
        BY <1>2, <3>2 DEF Accepted, AnswerLost, TypeInv, KeysMade
      <4>2. QED
        BY <1>2, <2>4, <4>1 DEF Takes, TypeInv, TypeOK
    <3>3. CASE refusable' = refusable /\ got' = got
      BY <1>2, <2>4, <3>3 DEF TypeInv, TypeOK
    <3>4. QED
      BY <1>2, <3>1, <3>2, <3>3
         DEF Next, DeliverLoop, Process, Wake, PeekHead, PushFails, PopHeld, Stop, SaveBuffer,
             Exit, Crash, Start, Started, CentralChanges, CentralTurns, vars, centralVars
  <2>6. evicted' \subseteq 1 .. made' /\ crashed' \subseteq 1 .. made'
    <3>1. /\ evicted' \subseteq evicted \cup Keys(items) \cup Keys(spill)
          /\ crashed' \subseteq crashed \cup Keys(items)
      BY <1>2 DEF Next, DeliverLoop, Process, Enqueue, NoteEvicted, Wake, PeekHead, Accepted,
                  AnswerLost, PushFails, PopHeld, Stop, SaveBuffer, Exit, Crash, Start, Started,
                  CentralChanges, vars, histVars
    <3>2. QED
      BY <1>2, <2>4, <3>1 DEF TypeInv, TypeOK, KeysMade
  <2>7. restarts' \in Nat /\ crashes' \in Nat
    <3>1. /\ restarts' = restarts \/ restarts' = restarts + 1
          /\ crashes' = crashes \/ crashes' = crashes + 1
      BY <1>2 DEF Next, DeliverLoop, Process, Enqueue, Wake, PeekHead, Accepted, AnswerLost,
                  PushFails, PopHeld, Stop, SaveBuffer, Exit, Crash, Start, Started,
                  CentralChanges, vars, histVars
    <3>2. QED
      BY <1>2, <3>1 DEF TypeInv, TypeOK
  <2>8. QED
    BY <2>1, <2>2, <2>3, <2>4, <2>5, <2>6, <2>7 DEF TypeInv, TypeOK
<1>3. Spec => []IInv
  BY Inductive
<1>4. QED
  BY <1>1, <1>2, <1>3, PTL DEF Spec

(* Every variable keeps its type, and queue and spill their bound, whatever *)
(* the bounds and the sizes.                                                *)
THEOREM TypeCorrect == Spec => []TypeOK
<1>1. TypeInv => TypeOK
  BY DEF TypeInv
<1>2. QED
  BY <1>1, TypesKept, PTL
-----------------------------------------------------------------------------
(***************************************************************************)
(* Order, and the refinement of LossyFifo.  What is owed is queued in the  *)
(* order it was made, and central has nothing newer than what it could     *)
(* still take; so what a drain holds is, while it is being sent, the       *)
(* oldest batch central could take.                                        *)
(***************************************************************************)
Owed == Keys(items) \cup Keys(spill)

Dealt == got \cup refusable

(* What the spill file still owes when the queue it was made from goes on   *)
(* being drained, and when it is read back.                                 *)
SpillOwes ==
  /\ phase = "loaded" => Keys(items) = Keys(spill)
  /\ phase = "spilled" => Keys(spill) \subseteq Keys(items) \cup Dealt

(* Central has nothing newer than what it could still take. *)
NoneOvertaken == \A b \in Owed \ Dealt, c \in got : c < b

(* What is being sent is the oldest batch central could take, if it could. *)
HeldIsOldest ==
  pc = "sending" =>
    /\ \A c \in Owed : c < held.key => c \in Dealt
    /\ held.key \notin Dealt => \A c \in got : c < held.key

Ordered ==
  /\ KeysGrow(items) /\ KeysGrow(spill)
  /\ Counted /\ Fits(spill)
  /\ SpillOwes
  /\ NoneOvertaken
  /\ HeldIsOldest

Inv == IInv /\ TypeInv /\ Ordered

(* What Inv says of numbers. *)
LEMMA Numbered ==
  ASSUME Inv
  PROVE  /\ Queues /\ made \in Nat
         /\ Owed \subseteq 1 .. made /\ got \subseteq 1 .. made /\ refusable \subseteq 1 .. made
         /\ pc \in {"sending", "done"} => held.key \in 1 .. made
BY DEF Inv, IInv, QueueTyped, TypeInv, TypeOK, KeysMade, Owed

LEMMA OrderedAtFirst == Init => Ordered
<1> SUFFICES ASSUME Init PROVE Ordered
  OBVIOUS
<1>1. items = <<>> /\ spill = <<>> /\ bytes = 0 /\ phase = "up" /\ pc = "idle" /\ got = {}
  BY DEF Init, BufferInit, CentralInit
<1>2. <<>> \in Seq(Entry) /\ Len(<<>>) = 0 /\ Keys(<<>>) = {}
  BY EmptySeq DEF Keys
<1>3. TotalSize(<<>>) = 0
  BY <1>2, TotalsFacts DEF TotalSize
<1>4. QED
  BY <1>1, <1>2, <1>3, BufferAssumption
     DEF Ordered, KeysGrow, Counted, Fits, SpillOwes, NoneOvertaken, HeldIsOldest

(* A step that leaves alone the buffer and what central has. *)
LEMMA OrderedQuiet ==
  ASSUME Inv, UNCHANGED <<bufferVars, got, refusable>>, phase' \in {phase, "stopping"},
         pc' = "sending" => pc = "sending" /\ held' = held
  PROVE  Ordered'
<1>1. KeysGrow(items') /\ KeysGrow(spill') /\ Counted' /\ Fits(spill')
  BY DEF Inv, Ordered, KeysGrow, Counted, Fits, TotalSize, Totals, bufferVars
<1>2. Owed' = Owed /\ Dealt' = Dealt /\ Keys(items') = Keys(items) /\ Keys(spill') = Keys(spill)
  BY DEF Owed, Dealt, Keys, bufferVars
<1>3. SpillOwes' /\ NoneOvertaken' /\ HeldIsOldest'
  BY <1>2 DEF Inv, Ordered, SpillOwes, NoneOvertaken, HeldIsOldest
<1>4. QED
  BY <1>1, <1>3 DEF Ordered

(* enqueue: the new batch is newer than any. *)
LEMMA OrderedEnqueue ==
  ASSUME Inv, NEW size \in Sizes, Enqueue(size)
  PROVE  /\ Ordered'
         /\ \A d \in Owed \ Owed', b \in Owed \cap Owed' : d < b
         /\ made + 1 \in Owed' /\ Owed' \subseteq Owed \cup {made + 1}
<1>1. /\ phase = "up" /\ phase' = "up" /\ made' = made + 1
      /\ Push(made + 1, size) /\ got' = got /\ pc' = pc /\ held' = held
      /\ refusable \subseteq refusable'
      /\ spill = <<>> /\ spill' = <<>>
  BY DEF Enqueue, Push, Appears, Inv, IInv, SpillInv
<1>2. /\ Queues /\ IdsGrow /\ made \in Nat /\ made + 1 \in Nat
      /\ Owed \subseteq 1 .. made /\ got \subseteq 1 .. made
      /\ pc = "sending" => held.key \in 1 .. made
  BY Numbered DEF Inv, IInv
<1>3. Keys(spill) = {} /\ Keys(spill') = {} /\ Owed = Keys(items) /\ Owed' = Keys(items')
  BY <1>1, EmptySeq DEF Keys, Owed
<1>4. \A c \in Keys(items) : c < made + 1
  BY <1>2, <1>3
<1>5. /\ KeysGrow(items') /\ Counted'
      /\ \A d \in Keys(items) \ Keys(items'), b \in Keys(items) \cap Keys(items') : d < b
  BY <1>1, <1>2, <1>4, PushOrdered DEF Inv, Ordered
<1>6. made + 1 \in Keys(items') /\ Keys(items') \subseteq Keys(items) \cup {made + 1}
  BY <1>1, <1>2, PushKeeps
<1>7. NoneOvertaken'
  <2>1. SUFFICES ASSUME NEW b \in Owed' \ Dealt', NEW c \in got PROVE c < b
    BY <1>1 DEF NoneOvertaken
  <2>2. CASE b = made + 1
    BY <1>2, <2>2
  <2>3. CASE b \in Owed
    BY <1>1, <2>1, <2>3 DEF Inv, Ordered, NoneOvertaken, Dealt
  <2>4. QED
    BY <1>3, <1>6, <2>2, <2>3
<1>8. HeldIsOldest'
  <2>1. SUFFICES ASSUME pc = "sending"
                 PROVE  /\ \A c \in Owed' : c < held.key => c \in Dealt'
                        /\ held.key \notin Dealt' => \A c \in got : c < held.key
    BY <1>1 DEF HeldIsOldest
  <2>2. /\ \A c \in Owed : c < held.key => c \in Dealt
        /\ held.key \notin Dealt => \A c \in got : c < held.key
        /\ held.key \in 1 .. made
    BY <1>2, <2>1 DEF Inv, Ordered, HeldIsOldest
  <2>3. ~(made + 1 < held.key)
    BY <1>2, <2>2
  <2>4. Dealt \subseteq Dealt'
    BY <1>1 DEF Dealt
  <2>5. QED
    BY <1>3, <1>6, <2>2, <2>3, <2>4
<1>9. SpillOwes' /\ KeysGrow(spill') /\ Fits(spill')
  BY <1>1 DEF SpillOwes, Inv, Ordered
<1>10. QED
  BY <1>3, <1>5, <1>6, <1>7, <1>8, <1>9 DEF Ordered

(* A step that leaves the queue and the spill file alone. *)
LEMMA QueuesStay ==
  ASSUME Inv, UNCHANGED <<items, bytes, spill>>
  PROVE  /\ (KeysGrow(items) /\ KeysGrow(spill) /\ Counted /\ Fits(spill))'
         /\ Owed' = Owed
<1>1. KeysGrow(items)' /\ KeysGrow(spill)'
  BY DEF Inv, Ordered, KeysGrow
<1>2. Fits(items)' /\ Fits(spill)' /\ Counted'
  BY DEF Inv, Ordered, Counted, Fits, TotalSize, Totals
<1>3. Owed' = Owed
  BY DEF Owed, Keys
<1>4. QED
  BY <1>1, <1>2, <1>3

(* Peek: the head is the oldest batch queued, and what the spill file has   *)
(* beyond the queue has been dealt with.                                    *)
LEMMA OrderedPeek == ASSUME Inv, PeekHead PROVE Ordered'
<1>1. CASE items = <<>>
  BY <1>1, OrderedQuiet DEF PeekHead, centralVars
<1>2. CASE items # <<>>
  <2>1. /\ pc' = "sending" /\ held' = items[1] /\ Running
        /\ UNCHANGED <<items, bytes, nextID, spill, phase, got, refusable>>
    BY <1>2 DEF PeekHead, Peek, bufferVars, centralVars
  <2>2. /\ items \in Seq(Entry) /\ Len(items) \in Nat \ {0} /\ 1 \in 1 .. Len(items)
        /\ Keys(items) = {items[i].key : i \in 1 .. Len(items)}
        /\ \A i \in 1 .. Len(items) : items[i].key \in Nat
    <3>1. items \in Seq(Entry)
      BY Numbered DEF Queues
    <3>2. QED
      BY <1>2, <3>1, EmptySeq, LenProperties, KeysOf, KeysAreNumbers
  <2>3. \A c \in Keys(items) : ~(c < items[1].key)
    <3>1. SUFFICES ASSUME NEW i \in 1 .. Len(items), items[i].key < items[1].key PROVE FALSE
      BY <2>2
    <3>2. 1 < i
      BY <2>2, <3>1
    <3>3. items[1].key < items[i].key
      BY <2>2, <3>2 DEF Inv, Ordered, KeysGrow
    <3>4. QED
      BY <2>2, <3>1, <3>3
  <2>4. Keys(spill) \subseteq Keys(items) \cup Dealt
    <3>1. Keys(<<>>) = {}
      BY EmptySeq DEF Keys
    <3>2. QED
      BY <2>1, <3>1 DEF Running, Inv, IInv, SpillInv, Ordered, SpillOwes
  <2>5. HeldIsOldest'
    <3>1. \A c \in Owed : c < items[1].key => c \in Dealt
      BY <2>3, <2>4 DEF Owed
    <3>2. items[1].key \in Owed
      BY <2>2 DEF Owed
    <3>3. items[1].key \notin Dealt => \A c \in got : c < items[1].key
      BY <3>2 DEF Inv, Ordered, NoneOvertaken
    <3>4. Owed' = Owed /\ Dealt' = Dealt
      BY <2>1, QueuesStay DEF Dealt
    <3>5. QED
      BY <2>1, <3>1, <3>3, <3>4 DEF HeldIsOldest
  <2>6. NoneOvertaken'
    BY <2>1, QueuesStay DEF Inv, Ordered, NoneOvertaken, Dealt
  <2>7. SpillOwes'
    BY <2>1, SMTT(30) DEF Inv, Ordered, SpillOwes, Keys, Dealt
  <2>8. QED
    BY <2>1, <2>5, <2>6, <2>7, QueuesStay DEF Ordered
<1>3. QED
  BY <1>1, <1>2

(* Central takes what is held. *)
LEMMA OrderedTaken == ASSUME Inv, Accepted \/ AnswerLost PROVE Ordered'
<1>1. /\ pc = "sending" /\ pc' # "sending" /\ held.key \notin refusable
      /\ got' = got \cup {held.key} /\ refusable' = refusable
      /\ UNCHANGED <<items, bytes, nextID, spill, phase>>
  BY DEF Accepted, AnswerLost, Takes, bufferVars
<1>2. Owed' = Owed /\ Dealt \subseteq Dealt' /\ held.key \in Dealt'
  BY <1>1 DEF Owed, Dealt, Keys
<1>3. /\ Owed \subseteq 1 .. made /\ made \in Nat /\ held.key \in 1 .. made
  BY <1>1, Numbered
<1>4. NoneOvertaken'
  <2>1. SUFFICES ASSUME NEW b \in Owed \ Dealt', NEW c \in got \cup {held.key} PROVE c < b
    BY <1>1, <1>2 DEF NoneOvertaken
  <2>2. CASE c \in got
    BY <1>2, <2>1, <2>2 DEF Inv, Ordered, NoneOvertaken
  <2>3. CASE c = held.key
    <3>1. ~(b < held.key) /\ b # held.key
      BY <1>1, <1>2, <2>1 DEF Inv, Ordered, HeldIsOldest
    <3>2. QED
      BY <1>3, <2>3, <3>1
  <2>4. QED
    BY <2>2, <2>3
<1>5. SpillOwes'
  <2>1. Keys(items') = Keys(items) /\ Keys(spill') = Keys(spill)
    BY <1>1
  <2>2. QED
    BY <1>1, <1>2, <2>1 DEF Inv, Ordered, SpillOwes
<1>6. QED
  BY <1>1, <1>4, <1>5, QueuesStay DEF Ordered, HeldIsOldest

(* PopSent: what goes has been dealt with, and nothing else goes. *)
LEMMA OrderedPop ==
  ASSUME Inv, PopHeld
  PROVE  /\ Ordered'
         /\ Owed' = Owed \/ (held.key \in Owed \cap Dealt /\ Owed' = Owed \ {held.key})
<1>1. /\ pc = "done" /\ pc' = "peek" /\ PopSent(held) /\ Running /\ phase' = phase
      /\ got' = got /\ refusable' = refusable /\ held.key \in Dealt
  BY DEF PopHeld, centralVars, Inv, IInv, HeldDealtWith, Dealt
<1>2. CASE ~(items # <<>> /\ Head(items).id = held.id)
  <2>1. UNCHANGED bufferVars
    BY <1>1, <1>2 DEF PopSent
  <2>2. QED
    BY <1>1, <2>1, OrderedQuiet DEF bufferVars, Owed, Keys
<1>3. CASE items # <<>> /\ Head(items).id = held.id
  <2>1. PopFront /\ spill' = spill /\ Queues
    BY <1>1, <1>3, Numbered DEF PopSent, PopFront
  <2>2. items[1] = held
    <3>1. items \in Seq(Entry) /\ Head(items) = items[1] /\ 1 \in 1 .. Len(items)
      BY <1>3, <2>1, PopFacts DEF Queues
    <3>2. QED
      BY <1>1, <1>3, <3>1 DEF Inv, IInv, HeldIsQueued
  <2>3. KeysGrow(items') /\ Counted' /\ Keys(items') = Keys(items) \ {held.key}
    BY <1>3, <2>1, <2>2, PopOrdered DEF Inv, Ordered
  <2>4. held.key \in Keys(items)
    <3>1. items \in Seq(Entry) /\ 1 \in 1 .. Len(items)
      BY <1>3, <2>1, PopFacts DEF Queues
    <3>2. QED
      BY <2>2, <3>1, KeysOf
  <2>5. Keys(spill') = Keys(spill) /\ Dealt' = Dealt
    BY <1>1, <2>1 DEF Dealt
  <2>6. Owed' \subseteq Owed
    BY <2>3, <2>5 DEF Owed
  <2>7. NoneOvertaken' /\ HeldIsOldest'
    BY <1>1, <2>5, <2>6 DEF Inv, Ordered, NoneOvertaken, HeldIsOldest
  <2>8. SpillOwes'
    BY <1>1, <2>3, <2>5 DEF Inv, Ordered, SpillOwes, Running
  <2>9. KeysGrow(spill') /\ Fits(spill')
    BY <2>1 DEF Inv, Ordered
  <2>10. Owed' = Owed \/ Owed' = Owed \ {held.key}
    BY <2>3, <2>5 DEF Owed
  <2>11. QED
    BY <1>1, <2>3, <2>4, <2>7, <2>8, <2>9, <2>10 DEF Ordered, Owed
<1>4. QED
  BY <1>2, <1>3

(* saveBuffer: the file has what the queue has. *)
LEMMA OrderedSave == ASSUME Inv, SaveBuffer PROVE Ordered' /\ Owed' = Owed
<1>1. /\ phase = "stopping" /\ phase' = "spilled" /\ spill = <<>> /\ spill' = items
      /\ UNCHANGED <<items, bytes, nextID, pc, held, got, refusable>>
  BY DEF SaveBuffer, Save, loopVars, centralVars, Inv, IInv, SpillInv
<1>2. Keys(spill) = {} /\ Keys(spill') = Keys(items) /\ Keys(items') = Keys(items)
  BY <1>1, EmptySeq DEF Keys
<1>3. Owed' = Owed /\ Dealt' = Dealt
  BY <1>1, <1>2 DEF Owed, Dealt
<1>4. KeysGrow(spill') /\ Fits(spill') /\ KeysGrow(items') /\ Counted'
  BY <1>1 DEF Inv, Ordered, Counted, KeysGrow, Fits, TotalSize, Totals
<1>5. SpillOwes' /\ NoneOvertaken' /\ HeldIsOldest'
  BY <1>1, <1>2, <1>3 DEF Inv, Ordered, SpillOwes, NoneOvertaken, HeldIsOldest
<1>6. QED
  BY <1>3, <1>4, <1>5 DEF Ordered

(* The process is gone: what is left is in the file. *)
LEMMA OrderedEnd == ASSUME Inv, Exit \/ Crash PROVE Ordered' /\ Owed' = Keys(spill)
<1>1. /\ phase' = "down" /\ items' = <<>> /\ bytes' = 0 /\ spill' = spill /\ pc' = "idle"
      /\ got' = got /\ refusable' = refusable
  BY DEF Exit, Crash, Forget, LoopGone, centralVars
<1>2. <<>> \in Seq(Entry) /\ Len(<<>>) = 0 /\ Keys(<<>>) = {}
  BY EmptySeq DEF Keys
<1>3. TotalSize(<<>>) = 0
  BY <1>2, TotalsFacts DEF TotalSize
<1>4. Owed' = Keys(spill) /\ Owed' \subseteq Owed /\ Dealt' = Dealt
  BY <1>1, <1>2 DEF Owed, Dealt
<1>5. KeysGrow(items') /\ Counted'
  BY <1>1, <1>2, <1>3, BufferAssumption DEF KeysGrow, Counted, Fits
<1>6. KeysGrow(spill') /\ Fits(spill')
  BY <1>1 DEF Inv, Ordered
<1>7. SpillOwes' /\ NoneOvertaken' /\ HeldIsOldest'
  BY <1>1, <1>4 DEF Inv, Ordered, SpillOwes, NoneOvertaken, HeldIsOldest
<1>8. QED
  BY <1>4, <1>5, <1>6, <1>7 DEF Ordered

(* Load: what the file has is queued again. *)
LEMMA OrderedStart == ASSUME Inv, Start PROVE Ordered' /\ Owed' = Owed
<1>1. /\ phase = "down" /\ phase' = "loaded" /\ Load /\ items = <<>> /\ Queues
      /\ UNCHANGED <<pc, held, got, refusable>> /\ ~Running
  BY Numbered DEF Start, loopVars, centralVars, Inv, IInv, SpillInv, Running
<1>2. spill' = spill
  BY <1>1 DEF Load, bufferVars
<1>3. KeysGrow(items') /\ Counted' /\ Keys(items') = Keys(spill)
  BY <1>1, LoadOrdered DEF Inv, Ordered
<1>4. Keys(items) = {} /\ Keys(spill') = Keys(spill)
  BY <1>1, <1>2, EmptySeq DEF Keys
<1>5. Owed' = Owed /\ Dealt' = Dealt
  BY <1>1, <1>3, <1>4 DEF Owed, Dealt
<1>6. pc # "sending"
  BY <1>1 DEF Inv, IInv, HeldIsQueued
<1>7. SpillOwes' /\ NoneOvertaken' /\ HeldIsOldest'
  BY <1>1, <1>3, <1>4, <1>5, <1>6 DEF Inv, Ordered, SpillOwes, NoneOvertaken, HeldIsOldest
<1>8. KeysGrow(spill') /\ Fits(spill')
  BY <1>2 DEF Inv, Ordered
<1>9. QED
  BY <1>3, <1>5, <1>7, <1>8 DEF Ordered

(* The end of Load: the file goes, and nothing with it. *)
LEMMA OrderedStarted == ASSUME Inv, Started PROVE Ordered' /\ Owed' = Owed
<1>1. /\ phase = "loaded" /\ phase' = "up" /\ spill' = <<>>
      /\ UNCHANGED <<items, bytes, nextID, pc, held, got, refusable>>
  BY DEF Started, RemoveSpill, loopVars, centralVars
<1>2. Keys(items) = Keys(spill) /\ Keys(items') = Keys(items)
  BY <1>1 DEF Inv, Ordered, SpillOwes, Keys
<1>3. Keys(spill') = {} /\ Len(spill') = 0
  BY <1>1, EmptySeq DEF Keys
<1>4. Owed' = Owed /\ Dealt' = Dealt
  BY <1>1, <1>2, <1>3 DEF Owed, Dealt
<1>5. KeysGrow(items') /\ Counted' /\ KeysGrow(spill') /\ Fits(spill')
  BY <1>1, <1>3, BufferAssumption DEF Inv, Ordered, Counted, KeysGrow, Fits, TotalSize, Totals
<1>6. SpillOwes' /\ NoneOvertaken' /\ HeldIsOldest'
  BY <1>1, <1>4 DEF Inv, Ordered, SpillOwes, NoneOvertaken, HeldIsOldest
<1>7. QED
  BY <1>4, <1>5, <1>6 DEF Ordered

(* Every step keeps the order. *)
LEMMA OrderKept == Spec => []Inv
<1>1. ASSUME Inv, [Next]_vars PROVE Ordered'
  <2>1. CASE \E size \in Sizes : Enqueue(size)
    BY <1>1, <2>1, OrderedEnqueue
  <2>2. CASE PeekHead
    BY <1>1, <2>2, OrderedPeek
  <2>3. CASE Accepted \/ AnswerLost
    BY <1>1, <2>3, OrderedTaken
  <2>4. CASE PopHeld
    BY <1>1, <2>4, OrderedPop
  <2>5. CASE SaveBuffer
    BY <1>1, <2>5, OrderedSave
  <2>6. CASE Exit \/ Crash
    BY <1>1, <2>6, OrderedEnd
  <2>7. CASE Start
    BY <1>1, <2>7, OrderedStart
  <2>8. CASE Started
    BY <1>1, <2>8, OrderedStarted
  <2>9. CASE Wake \/ PushFails \/ Stop \/ CentralChanges \/ UNCHANGED vars
    BY <1>1, <2>9, OrderedQuiet DEF Wake, PushFails, Stop, CentralChanges, CentralTurns, vars,
                                    loopVars, centralVars
  <2>10. QED
    BY <1>1, <2>1, <2>2, <2>3, <2>4, <2>5, <2>6, <2>7, <2>8, <2>9 DEF Next, DeliverLoop, Process
<1>2. Spec => []IInv /\ []TypeInv
  BY Inductive, TypesKept, PTL
<1>3. QED
  BY <1>1, <1>2, OrderedAtFirst, PTL DEF Spec, Inv

(* The byte count that bounds the queue is that of the queue, however       *)
(* pushes, pops, trims, spills and loads follow each other, and stays in    *)
(* its bound.                                                               *)
THEOREM MemoryIsBounded == Spec => []MemoryBounded
<1>1. Inv => MemoryBounded
  BY DEF Inv, Ordered, Counted, Fits, MemoryBounded
<1>2. QED
  BY <1>1, OrderKept, PTL
-----------------------------------------------------------------------------
(* What a step does to the batches owed, made and had is a step of the      *)
(* bounded FIFO or none.                                                    *)
LEMMA StepPromised == ASSUME Inv, [Next]_vars PROVE [Promise!Next]_Promise!vars
<1> USE DEF Owed, Dealt
<1>1. CASE \E size \in Sizes : Enqueue(size)
  <2>1. PICK size \in Sizes : Enqueue(size)
    BY <1>1
  <2>2. /\ \A d \in Owed \ Owed', b \in Owed \cap Owed' : d < b
        /\ made + 1 \in Owed' /\ Owed' \subseteq Owed \cup {made + 1}
    BY <2>1, OrderedEnqueue
  <2> DEFINE D == Owed \ Owed'
  <2>3. Promise!Without(D)
    BY <2>2 DEF Promise!Without
  <2>4. Owed' = (Owed \ D) \cup {made + 1}
    BY <2>2
  <2>5. D \in SUBSET Owed
    OBVIOUS
  <2> HIDE DEF D
  <2>6. Promise!Make
    BY <2>1, <2>3, <2>4, <2>5 DEF Promise!Make, Enqueue, Appears
  <2>7. QED
    BY <2>6 DEF Promise!Next
<1>2. CASE Accepted \/ AnswerLost
  <2>1. /\ pc = "sending" /\ held.key \notin refusable
        /\ got' = got \cup {held.key} /\ refusable' = refusable
        /\ Owed' = Owed /\ UNCHANGED <<made, restarts, crashes>>
    BY <1>2 DEF Accepted, AnswerLost, Takes, bufferVars, histVars, Keys
  <2>2. CASE held.key \in got
    BY <2>1, <2>2 DEF Promise!vars
  <2>3. CASE held.key \notin got
    <3>1. Promise!Deliver(held.key)
      BY <2>1, <2>3 DEF Promise!Deliver, Inv, Ordered, HeldIsOldest
    <3>2. held.key \in 1 .. made
      BY <2>1, Numbered
    <3>3. QED
      BY <3>1, <3>2 DEF Promise!Next
  <2>4. QED
    BY <2>2, <2>3
<1>3. CASE PopHeld
  <2>1. /\ UNCHANGED <<made, refusable, got, restarts, crashes>>
        /\ held.key \in 1 .. made
    BY <1>3, Numbered DEF PopHeld, centralVars, histVars
  <2>2. Owed' = Owed \/ (held.key \in Owed \cap Dealt /\ Owed' = Owed \ {held.key})
    BY <1>3, OrderedPop
  <2>3. CASE Owed' = Owed
    BY <2>1, <2>3 DEF Promise!vars
  <2>4. CASE held.key \in Owed \cap Dealt /\ Owed' = Owed \ {held.key}
    <3>1. Promise!Settle(held.key)
      BY <2>1, <2>4 DEF Promise!Settle
    <3>2. QED
      BY <2>1, <3>1 DEF Promise!Next
  <2>5. QED
    BY <2>2, <2>3, <2>4
<1>4. CASE SaveBuffer \/ Started
  <2>1. Owed' = Owed
    BY <1>4, OrderedSave, OrderedStarted
  <2>2. QED
    BY <1>4, <2>1 DEF SaveBuffer, Started, centralVars, histVars, Promise!vars
<1>5. CASE Exit
  <2>1. Owed' = Keys(spill)
    BY <1>5, OrderedEnd
  <2>2. Keys(items) \subseteq Keys(spill)
    BY <1>5 DEF Exit, Inv, IInv, SpillInv
  <2>3. Owed' = Owed
    BY <2>1, <2>2
  <2>4. QED
    BY <1>5, <2>3 DEF Exit, centralVars, histVars, Promise!vars
<1>6. CASE Crash
  <2>1. Owed' \in SUBSET Owed
    BY <1>6, OrderedEnd
  <2>2. Promise!Crash
    BY <1>6, <2>1 DEF Promise!Crash, Crash, centralVars
  <2>3. QED
    BY <2>2 DEF Promise!Next
<1>7. CASE Start
  <2>1. Owed' = Owed \ {} /\ {} \in SUBSET Owed
    BY <1>7, OrderedStart
  <2>2. Promise!Without({})
    BY DEF Promise!Without
  <2>3. Promise!Restart
    BY <1>7, <2>1, <2>2 DEF Promise!Restart, Start, centralVars
  <2>4. QED
    BY <2>3 DEF Promise!Next
<1>8. CASE Wake \/ PeekHead \/ PushFails \/ Stop \/ CentralChanges \/ UNCHANGED vars
  <2>1. /\ UNCHANGED <<items, spill, made, refusable, got, restarts, crashes>>
    BY <1>8 DEF Wake, PeekHead, PushFails, Stop, CentralChanges, CentralTurns, vars, bufferVars,
                centralVars, histVars
  <2>2. Owed' = Owed
    BY <2>1 DEF Keys
  <2>3. QED
    BY <2>1, <2>2 DEF Promise!vars
<1>9. QED
  BY <1>1, <1>2, <1>3, <1>4, <1>5, <1>6, <1>7, <1>8 DEF Next, DeliverLoop, Process

(* The telemetry path is the bounded FIFO of LossyFifo, for every bound and *)
(* every set of sizes: batches stay owed until central has them or will     *)
(* never take them, the bounds drop the oldest, and central first sees them *)
(* in the order they were made.                                             *)
THEOREM Refines == Spec => Implements
<1>1. Init => Promise!Init
  BY EmptySeq DEF Init, BufferInit, CentralInit, Keys, Promise!Init
<1>2. QED
  BY <1>1, StepPromised, OrderKept, PTL DEF Spec, Implements, Promise!Spec
=============================================================================
