---------------------------- MODULE ResultsProofs ----------------------------
(***************************************************************************)
(* Proofs about Results and the print server's presence under it, for any  *)
(* number of games, attempts and goroutines, and any bound on the queue    *)
(* and on the finish delays.                                               *)
(*                                                                         *)
(* The argument: a game is in the queue once, so that what removes one     *)
(* entry removes one game; and the drain in progress, which works from a   *)
(* list made when it began, has no game on it that has been given up since *)
(* and the one it holds no second time.                                    *)
(***************************************************************************)
EXTENDS Results, FiniteSetTheorems, SequenceTheorems, WellFoundedInduction, TLAPS

GamesIn(q) == {q[i].game : i \in DOMAIN q}

Once(q) == \A i, j \in DOMAIN q : q[i].game = q[j].game => i = j

(* A queue the program can have. *)
Proper(q) == q \in Seq(Pending) /\ Once(q)

(* TypeOK in parts: O-Zone, the bus and the readings; the goroutines. *)
OzoneTyped ==
  /\ polling \in BOOLEAN /\ faulty \in BOOLEAN
  /\ game \in 0 .. MaxGames /\ playing \in BOOLEAN
  /\ playing => game # 0
  /\ bus \in Seq([code : {"GAME_START", "GAME_FINISH"}, game : 1 .. MaxGames])
  /\ gate \in BOOLEAN
  /\ lastBusGame \in 0 .. MaxGames /\ lastGameNum \in 0 .. MaxGames
  /\ delays \in Seq(0 .. MaxGames)

WorkTyped ==
  /\ finishPending \in BOOLEAN /\ pollDrain \in BOOLEAN
  /\ resultsMu \in {"free", "drain", "other"}
  /\ finisher \in [Finishers -> {"idle", "mark", "gate", "claim", "drain", "wait", "remark", "refresh"}]
  /\ other \in [pc : {"idle", "connect", "dial", "open"}, kind : {"refresh", "command"}]

DrainSet ==
  [pc : {"idle", "next", "connect", "dial", "fetch", "clear"}, todo : SUBSET (1 .. MaxGames),
   game : 0 .. MaxGames, deferred : BOOLEAN, by : Finishers \cup {"poll"}]

QueueInv ==
  /\ Proper(pending)
  /\ fetched \subseteq 1 .. MaxGames /\ givenUp \subseteq 1 .. MaxGames
  /\ GivenUpRests

DrainInv ==
  /\ drain \in DrainSet
  /\ drain.todo \cap givenUp = {}
  /\ drain.pc \notin {"idle", "next"} =>
       drain.game # 0 /\ drain.game \notin givenUp /\ drain.game \notin drain.todo
  /\ drain.pc = "clear" => drain.game \in fetched

Inv == PsTypeOK /\ OzoneTyped /\ WorkTyped /\ QueueInv /\ DrainInv

(* What LeavesAccountedFor says of a step. *)
AccountedFor ==
  \A n \in Queued \ Queued' :
    \/ n \in fetched' \cup givenUp'
    \/ /\ presence = "absent" /\ Len(pending') = MaxPending
       /\ \E i \in 1 .. Len(pending) + 1 - MaxPending : pending[i].game = n
-----------------------------------------------------------------------------
(***************************************************************************)
(* Queues.                                                                 *)
(***************************************************************************)

(* Of game numbers there is a least. *)
LEMMA FirstGame ==
  ASSUME NEW S \in SUBSET Nat, S # {}
  PROVE  (CHOOSE n \in S : \A k \in S : n <= k) \in S
<1> DEFINE R == {p \in Nat \X Nat : p[1] < p[2]}
<1>1. IsWellFoundedOn(R, Nat)
  BY NatLessThanWellFounded DEF OpToRel
<1>2. PICK n \in S : \A y \in S : ~ (<<y, n>> \in R)
  <2> HIDE DEF R
  <2>1. QED
    BY <1>1, WFMin
<1>3. ASSUME NEW k \in S PROVE n <= k
  <2>1. ~ (k < n)
    BY <1>2
  <2>2. QED
    BY <2>1
<1>4. QED
  BY <1>3

(* A proper queue, and what is known of its entries. *)
LEMMA ProperQueue ==
  ASSUME NEW q, Proper(q)
  PROVE  /\ Len(q) \in Nat /\ DOMAIN q = 1 .. Len(q)
         /\ \A i \in 1 .. Len(q) : q[i] \in Pending
         /\ GamesIn(q) \subseteq 1 .. MaxGames
<1>1. q \in Seq(Pending)
  BY DEF Proper
<1>2. Len(q) \in Nat /\ DOMAIN q = 1 .. Len(q) /\ q \in [1 .. Len(q) -> Pending]
  BY <1>1, LenProperties
<1>3. QED
  BY <1>2 DEF GamesIn, Pending

(* A function on 1 .. n with entries for values is a queue. *)
LEMMA IsAQueue ==
  ASSUME NEW n \in Nat, NEW q \in [1 .. n -> Pending]
  PROVE  q \in Seq(Pending) /\ Len(q) = n /\ DOMAIN q = 1 .. n
<1>1. q \in Seq(Pending)
  BY SeqDef
<1>2. Len(q) = n
  BY <1>1, LenProperties
<1>3. QED
  BY <1>1, <1>2

(* The queue holds as many games as it has entries. *)
LEMMA AsManyGames ==
  ASSUME NEW q, Proper(q)
  PROVE  Cardinality(GamesIn(q)) = Len(q)
<1> DEFINE f == [i \in 1 .. Len(q) |-> q[i].game]
<1>1. Len(q) \in Nat /\ DOMAIN q = 1 .. Len(q)
  BY ProperQueue
<1>2. f \in Bijection(1 .. Len(q), GamesIn(q))
  <2>1. f \in [1 .. Len(q) -> GamesIn(q)]
    BY <1>1 DEF GamesIn
  <2>2. \A i, j \in 1 .. Len(q) : f[i] = f[j] => i = j
    BY <1>1 DEF Proper, Once
  <2>3. \A g \in GamesIn(q) : \E i \in 1 .. Len(q) : f[i] = g
    BY <1>1 DEF GamesIn
  <2> HIDE DEF f
  <2>4. QED
    BY <2>1, <2>2, <2>3 DEF Bijection, Injection, Surjection, IsInjective
<1>3. QED
  <2> HIDE DEF f
  <2>1. ExistsBijection(1 .. Len(q), GamesIn(q))
    BY <1>2 DEF ExistsBijection
  <2>2. QED
    BY <1>1, <2>1, FS_CountingElements

(* Where a queued game is. *)
LEMMA PlaceRight ==
  ASSUME NEW q, Proper(q), NEW n \in GamesIn(q)
  PROVE  Place(q, n) \in 1 .. Len(q) /\ q[Place(q, n)].game = n
<1>1. \E i \in DOMAIN q : q[i].game = n
  BY DEF GamesIn
<1>2. QED
  BY <1>1, ProperQueue DEF Place

(* Without removes one entry, and so the game. *)
LEMMA WithoutRight ==
  ASSUME Proper(pending), NEW n
  PROVE  Proper(Without(n)) /\ GamesIn(Without(n)) = Queued \ {n}
<1>1. Queued = GamesIn(pending)
  BY DEF Queued, GamesIn
<1>2. CASE n \notin Queued
  BY <1>1, <1>2 DEF Without
<1>3. CASE n \in Queued
  <2> DEFINE i == Place(pending, n)
             w == [j \in 1 .. Len(pending) - 1 |-> pending[IF j < i THEN j ELSE j + 1]]
  <2>1. Without(n) = w
    BY <1>3 DEF Without
  <2>2. i \in 1 .. Len(pending) /\ pending[i].game = n
    BY <1>1, <1>3, PlaceRight
  <2>3. /\ Len(pending) \in Nat /\ DOMAIN pending = 1 .. Len(pending)
        /\ \A j \in 1 .. Len(pending) : pending[j] \in Pending
    BY ProperQueue
  <2> HIDE DEF i
  <2>4. w \in [1 .. Len(pending) - 1 -> Pending] /\ Len(pending) - 1 \in Nat
    BY <2>2, <2>3
  <2>5. /\ \A j \in 1 .. Len(pending) - 1 : j < i => w[j] = pending[j]
        /\ \A j \in 1 .. Len(pending) - 1 : j >= i => w[j] = pending[j + 1]
    BY <2>2, <2>3
  <2> HIDE DEF w
  <2>6. w \in Seq(Pending) /\ Len(w) = Len(pending) - 1 /\ DOMAIN w = 1 .. Len(pending) - 1
    BY <2>4, IsAQueue
  <2>7. Once(w)
    <3> SUFFICES ASSUME NEW j \in DOMAIN w, NEW k \in DOMAIN w, w[j].game = w[k].game
                 PROVE  j = k
      BY DEF Once
    <3> DEFINE at(x) == IF x < i THEN x ELSE x + 1
    <3>1. /\ w[j] = pending[at(j)] /\ w[k] = pending[at(k)]
          /\ at(j) \in DOMAIN pending /\ at(k) \in DOMAIN pending
      BY <2>2, <2>3, <2>5, <2>6
    <3>2. at(j) = at(k)
      BY <3>1 DEF Proper, Once
    <3>3. QED
      BY <2>2, <2>6, <3>2
  <2>8. GamesIn(w) = Queued \ {n}
    <3>1. ASSUME NEW j \in DOMAIN w PROVE w[j].game \in Queued /\ w[j].game # n
      <4> DEFINE at == IF j < i THEN j ELSE j + 1
      <4>1. w[j] = pending[at] /\ at \in DOMAIN pending /\ at # i
        BY <2>2, <2>3, <2>5, <2>6
      <4>2. QED
        BY <2>2, <2>3, <4>1 DEF Proper, Once, Queued
    <3>2. ASSUME NEW j \in DOMAIN pending, pending[j].game # n
          PROVE  \E k \in DOMAIN w : w[k] = pending[j]
      <4>1. j # i /\ j \in 1 .. Len(pending)
        BY <2>2, <2>3, <3>2
      <4>2. CASE j < i
        BY <2>2, <2>3, <2>5, <2>6, <4>2
      <4>3. CASE j > i
        <5>1. j - 1 \in DOMAIN w /\ w[j - 1] = pending[j - 1 + 1] /\ j - 1 + 1 = j
          BY <2>2, <2>3, <2>5, <2>6, <4>1, <4>3
        <5>2. QED
          BY <5>1
      <4>4. QED
        BY <2>2, <4>1, <4>2, <4>3
    <3>3. QED
      BY <3>1, <3>2 DEF GamesIn, Queued
  <2>9. QED
    BY <2>1, <2>6, <2>7, <2>8 DEF Proper
<1>4. QED
  BY <1>2, <1>3

(* What changes an entry's backoff and hold only changes no game. *)
LEMMA SameGames ==
  ASSUME NEW q, Proper(q), NEW r \in Seq(Pending), DOMAIN r = DOMAIN q,
         \A i \in DOMAIN q : r[i].game = q[i].game
  PROVE  Proper(r) /\ GamesIn(r) = GamesIn(q)
<1>1. Once(r)
  BY DEF Proper, Once
<1>2. GamesIn(r) = GamesIn(q)
  BY DEF GamesIn
<1>3. QED
  BY <1>1, <1>2 DEF Proper

LEMMA HoldRight ==
  ASSUME NEW q, Proper(q), NEW n
  PROVE  Proper(Hold(q, n)) /\ GamesIn(Hold(q, n)) = GamesIn(q) /\ Len(Hold(q, n)) = Len(q)
<1>1. Len(q) \in Nat /\ DOMAIN q = 1 .. Len(q) /\ \A i \in 1 .. Len(q) : q[i] \in Pending
  BY ProperQueue
<1>2. ASSUME NEW i \in 1 .. Len(q)
      PROVE  /\ [q[i] EXCEPT !.held = @ \/ q[i].game = n] \in Pending
             /\ [q[i] EXCEPT !.held = @ \/ q[i].game = n].game = q[i].game
  BY <1>1 DEF Pending
<1>3. /\ Hold(q, n) \in [1 .. Len(q) -> Pending]
      /\ \A i \in DOMAIN q : Hold(q, n)[i].game = q[i].game
  BY <1>1, <1>2 DEF Hold
<1>4. Hold(q, n) \in Seq(Pending) /\ Len(Hold(q, n)) = Len(q) /\ DOMAIN Hold(q, n) = DOMAIN q
  BY <1>1, <1>3, IsAQueue
<1>5. QED
  BY <1>3, <1>4, SameGames

(* A game not in a queue can be put at either end of it. *)
LEMMA AppendRight ==
  ASSUME NEW q, Proper(q), NEW p \in Pending, p.game \notin GamesIn(q)
  PROVE  /\ Proper(Append(q, p)) /\ GamesIn(Append(q, p)) = GamesIn(q) \cup {p.game}
         /\ Len(Append(q, p)) = Len(q) + 1
         /\ \A i \in 1 .. Len(q) : Append(q, p)[i] = q[i]
         /\ Proper(<<p>> \o q) /\ GamesIn(<<p>> \o q) = GamesIn(q) \cup {p.game}
<1>1. q \in Seq(Pending) /\ Len(q) \in Nat /\ DOMAIN q = 1 .. Len(q)
  BY ProperQueue DEF Proper
<1>2. /\ Append(q, p) \in Seq(Pending) /\ Len(Append(q, p)) = Len(q) + 1
      /\ DOMAIN Append(q, p) = 1 .. Len(q) + 1
      /\ \A i \in 1 .. Len(q) : Append(q, p)[i] = q[i]
      /\ Append(q, p)[Len(q) + 1] = p
  <2>1. Append(q, p) \in Seq(Pending) /\ Len(Append(q, p)) = Len(q) + 1
    BY <1>1
  <2>2. DOMAIN Append(q, p) = 1 .. Len(q) + 1
    BY <1>1, <2>1, LenProperties
  <2>3. QED
    BY <1>1, <2>1, <2>2
<1>3. Once(Append(q, p)) /\ GamesIn(Append(q, p)) = GamesIn(q) \cup {p.game}
  <2> DEFINE r == Append(q, p)
  <2>1. /\ DOMAIN r = 1 .. Len(q) + 1 /\ \A i \in 1 .. Len(q) : r[i] = q[i]
        /\ r[Len(q) + 1] = p
    BY <1>2
  <2> HIDE DEF r
  <2>2. \A i \in 1 .. Len(q) : q[i].game # p.game
    BY <1>1 DEF GamesIn
  <2>3. Once(r)
    BY <1>1, <2>1, <2>2 DEF Proper, Once
  <2>4. \A i \in 1 .. Len(q) + 1 : i \in 1 .. Len(q) \/ i = Len(q) + 1
    BY <1>1
  <2>5. GamesIn(r) = GamesIn(q) \cup {p.game}
    BY <1>1, <2>1, <2>4 DEF GamesIn
  <2>6. QED
    BY <2>3, <2>5 DEF r
<1>4. /\ <<p>> \o q \in Seq(Pending) /\ Len(<<p>> \o q) = Len(q) + 1
      /\ DOMAIN (<<p>> \o q) = 1 .. Len(q) + 1
      /\ (<<p>> \o q)[1] = p
      /\ \A i \in 2 .. Len(q) + 1 : (<<p>> \o q)[i] = q[i - 1]
  <2>1. <<p>> \in Seq(Pending) /\ Len(<<p>>) = 1 /\ <<p>>[1] = p
    OBVIOUS
  <2>2. /\ <<p>> \o q \in Seq(Pending) /\ Len(<<p>> \o q) = 1 + Len(q)
        /\ \A i \in 1 .. 1 + Len(q) : (<<p>> \o q)[i] = IF i <= 1 THEN <<p>>[i] ELSE q[i - 1]
    BY <1>1, <2>1, ConcatProperties
  <2>3. DOMAIN (<<p>> \o q) = 1 .. Len(q) + 1
    BY <1>1, <2>2, LenProperties
  <2>4. QED
    BY <1>1, <2>1, <2>2, <2>3
<1>5. Once(<<p>> \o q) /\ GamesIn(<<p>> \o q) = GamesIn(q) \cup {p.game}
  <2> DEFINE r == <<p>> \o q
  <2>1. /\ DOMAIN r = 1 .. Len(q) + 1 /\ r[1] = p
        /\ \A i \in 2 .. Len(q) + 1 : r[i] = q[i - 1]
    BY <1>4
  <2> HIDE DEF r
  <2>2. \A i \in 1 .. Len(q) : q[i].game # p.game
    BY <1>1 DEF GamesIn
  <2>3. \A i \in 1 .. Len(q) + 1 : i = 1 \/ (i \in 2 .. Len(q) + 1 /\ i - 1 \in 1 .. Len(q))
    BY <1>1
  <2>4. Once(r)
    <3> SUFFICES ASSUME NEW i \in 1 .. Len(q) + 1, NEW j \in 1 .. Len(q) + 1,
                        r[i].game = r[j].game
                 PROVE  i = j
      BY <2>1 DEF Once
    <3>1. CASE i = 1
      BY <2>1, <2>2, <2>3, <3>1
    <3>2. CASE j = 1
      BY <2>1, <2>2, <2>3, <3>2
    <3>3. CASE i # 1 /\ j # 1
      <4>1. i - 1 = j - 1
        BY <1>1, <2>1, <2>3, <3>3 DEF Proper, Once
      <4>2. QED
        BY <1>1, <4>1
    <3>4. QED
      BY <3>1, <3>2, <3>3
  <2>5. \A i \in 1 .. Len(q) : i + 1 \in 2 .. Len(q) + 1 /\ i + 1 - 1 = i
    BY <1>1
  <2>6. GamesIn(r) = GamesIn(q) \cup {p.game}
    <3>1. \A i \in 1 .. Len(q) : r[i + 1] = q[i] /\ i + 1 \in DOMAIN r
      BY <1>1, <2>1, <2>5
    <3>2. GamesIn(q) \cup {p.game} \subseteq GamesIn(r)
      BY <1>1, <2>1, <3>1 DEF GamesIn
    <3>3. GamesIn(r) \subseteq GamesIn(q) \cup {p.game}
      BY <1>1, <2>1, <2>3 DEF GamesIn
    <3>4. QED
      BY <3>2, <3>3
  <2>7. QED
    BY <2>4, <2>6 DEF r
<1>6. QED
  BY <1>2, <1>3, <1>4, <1>5 DEF Proper

(* The oldest k entries can be dropped. *)
LEMMA DropRight ==
  ASSUME NEW q, Proper(q), NEW k \in Nat, k <= Len(q)
  PROVE  LET r == SubSeq(q, k + 1, Len(q))
         IN  /\ Proper(r) /\ Len(r) = Len(q) - k
             /\ GamesIn(r) \subseteq GamesIn(q)
             /\ \A i \in k + 1 .. Len(q) : q[i].game \in GamesIn(r)
<1> DEFINE r == SubSeq(q, k + 1, Len(q))
<1>1. Len(q) \in Nat /\ DOMAIN q = 1 .. Len(q) /\ \A i \in 1 .. Len(q) : q[i] \in Pending
  BY ProperQueue
<1>2. /\ r \in Seq(Pending)
      /\ Len(r) = Len(q) - k
      /\ \A i \in 1 .. Len(q) - k : r[i] = q[i + k]
  <2>1. k + 1 \in Int /\ Len(q) \in Int /\ \A i \in k + 1 .. Len(q) : q[i] \in Pending
    BY <1>1
  <2>2. /\ r \in Seq(Pending)
        /\ Len(r) = IF k + 1 <= Len(q) THEN Len(q) - (k + 1) + 1 ELSE 0
        /\ \A i \in 1 .. Len(q) - (k + 1) + 1 : r[i] = q[k + 1 + i - 1]
    BY <2>1, SubSeqProperties
  <2> HIDE DEF r
  <2>3. Len(r) = Len(q) - k
    <3>1. Len(r) = IF k + 1 <= Len(q) THEN Len(q) - (k + 1) + 1 ELSE 0
      BY <2>2
    <3>2. Len(q) \in Nat
      BY <1>1
    <3>3. (IF k + 1 <= Len(q) THEN Len(q) - (k + 1) + 1 ELSE 0) = Len(q) - k
      BY <3>2
    <3>4. QED
      BY <3>1, <3>3
  <2>4. ASSUME NEW i \in 1 .. Len(q) - k PROVE r[i] = q[i + k]
    <3>1. i \in 1 .. Len(q) - (k + 1) + 1 /\ k + 1 + i - 1 = i + k
      BY <1>1
    <3>2. QED
      BY <2>2, <3>1
  <2>5. QED
    BY <2>2, <2>3, <2>4
<1> HIDE DEF r
<1>3. DOMAIN r = 1 .. Len(q) - k
  BY <1>2, LenProperties
<1>4. \A i \in 1 .. Len(q) - k : i + k \in 1 .. Len(q)
  BY <1>1
<1>5. Once(r)
  <2> SUFFICES ASSUME NEW i \in DOMAIN r, NEW j \in DOMAIN r, r[i].game = r[j].game
               PROVE  i = j
    BY DEF Once
  <2>1. i + k = j + k
    BY <1>1, <1>2, <1>3, <1>4 DEF Proper, Once
  <2>2. QED
    BY <1>1, <1>3, <2>1
<1>6. GamesIn(r) \subseteq GamesIn(q)
  BY <1>1, <1>2, <1>3, <1>4 DEF GamesIn
<1>7. ASSUME NEW i \in k + 1 .. Len(q) PROVE q[i].game \in GamesIn(r)
  <2>1. i - k \in 1 .. Len(q) - k /\ i - k + k = i
    BY <1>1
  <2>2. r[i - k] = q[i]
    BY <1>2, <2>1
  <2>3. QED
    BY <1>3, <2>1, <2>2 DEF GamesIn
<1>8. QED
  BY <1>2, <1>5, <1>6, <1>7 DEF Proper, r

(* The queue with a game added that was not in it. *)
LEMMA AddedRight ==
  ASSUME Proper(pending), NEW n \in 1 .. MaxGames
  PROVE  /\ Proper(Added(n)) /\ GamesIn(Added(n)) = Queued \cup {n}
         /\ Len(pending) <= Len(Added(n)) /\ Len(Added(n)) <= Len(pending) + 1
         /\ \A i \in 1 .. Len(pending) : Added(n)[i] = pending[i]
<1>1. Queued = GamesIn(pending) /\ Len(pending) \in Nat
  BY ProperQueue DEF Queued, GamesIn
<1>2. CASE n \in Queued
  BY <1>1, <1>2 DEF Added
<1>3. CASE n \notin Queued
  <2> DEFINE p == [game |-> n, attempts |-> 0, due |-> TRUE, held |-> TRUE]
  <2>1. p \in Pending /\ p.game = n
    BY ResultsAssumption DEF Pending
  <2>2. Added(n) = Append(pending, p)
    BY <1>3 DEF Added
  <2> HIDE DEF p
  <2>3. p.game \notin GamesIn(pending)
    BY <1>1, <1>3, <2>1
  <2>4. /\ Proper(Append(pending, p)) /\ GamesIn(Append(pending, p)) = GamesIn(pending) \cup {p.game}
        /\ Len(Append(pending, p)) = Len(pending) + 1
        /\ \A i \in 1 .. Len(pending) : Append(pending, p)[i] = pending[i]
    BY <2>1, <2>3, AppendRight
  <2>5. Len(pending) <= Len(Added(n)) /\ Len(Added(n)) <= Len(pending) + 1
    BY <1>1, <2>2, <2>4
  <2>6. QED
    BY <1>1, <2>1, <2>2, <2>4, <2>5
<1>4. QED
  BY <1>2, <1>3

(* queueFetch leaves a proper queue, without a game given up; what it drops *)
(* is among the oldest of a queue too long for an absent print server.      *)
LEMMA QueueFetchRight ==
  ASSUME QueueInv, NEW n \in 1 .. MaxGames
  PROVE  LET q == QueueFetch(n)
         IN  /\ Proper(q) /\ GamesIn(q) \subseteq Queued \cup {n}
             /\ GamesIn(q) \cap givenUp = {}
             /\ \A g \in Queued \ GamesIn(q) :
                  /\ presence = "absent" /\ Len(q) = MaxPending
                  /\ \E i \in 1 .. Len(pending) + 1 - MaxPending : pending[i].game = g
<1> DEFINE q == QueueFetch(n)
           a == Added(n)
           over == IF presence = "absent" /\ Len(a) > MaxPending THEN Len(a) - MaxPending ELSE 0
<1>1. Proper(pending) /\ Queued = GamesIn(pending) /\ Queued \cap givenUp = {}
  BY DEF QueueInv, GivenUpRests, Queued, GamesIn
<1>2. CASE NothingToFetchFrom \/ n \in givenUp
  BY <1>1, <1>2 DEF QueueFetch
<1>3. CASE ~(NothingToFetchFrom \/ n \in givenUp)
  <2>1. q = SubSeq(a, over + 1, Len(a))
    BY <1>3 DEF QueueFetch
  <2>2. /\ Proper(a) /\ GamesIn(a) = Queued \cup {n}
        /\ Len(pending) <= Len(a) /\ Len(a) <= Len(pending) + 1
        /\ \A i \in 1 .. Len(pending) : a[i] = pending[i]
    BY <1>1, AddedRight
  <2> HIDE DEF a, q
  <2>3. /\ Len(a) \in Nat /\ Len(pending) \in Nat /\ MaxPending \in Nat \ {0}
        /\ DOMAIN pending = 1 .. Len(pending)
    BY <1>1, <2>2, ProperQueue, ResultsAssumption
  <2>4. over \in Nat /\ over <= Len(a)
    BY <2>3
  <2>5. /\ Proper(q) /\ Len(q) = Len(a) - over
        /\ GamesIn(q) \subseteq GamesIn(a)
        /\ \A i \in over + 1 .. Len(a) : a[i].game \in GamesIn(q)
    <3> HIDE DEF over
    <3>1. QED
      BY <2>1, <2>2, <2>4, DropRight
  <2>6. GamesIn(q) \cap givenUp = {}
    BY <1>1, <1>3, <2>2, <2>5
  <2>7. ASSUME NEW g \in Queued \ GamesIn(q)
        PROVE  /\ presence = "absent" /\ Len(q) = MaxPending
               /\ \E i \in 1 .. Len(pending) + 1 - MaxPending : pending[i].game = g
    <3>1. PICK i \in 1 .. Len(pending) : pending[i].game = g
      BY <2>3 DEF Queued
    <3>2. a[i].game = g /\ i <= Len(a)
      BY <2>2, <2>3, <3>1
    <3>3. i <= over
      <4> HIDE DEF over
      <4>1. i \in over + 1 .. Len(a) \/ i <= over
        BY <2>3, <2>4, <3>1, <3>2
      <4>2. QED
        BY <2>5, <3>2, <4>1
    <3>4. presence = "absent" /\ Len(a) > MaxPending /\ over = Len(a) - MaxPending
      BY <3>3
    <3>5. Len(q) = MaxPending /\ i \in 1 .. Len(pending) + 1 - MaxPending
      BY <2>2, <2>3, <2>5, <3>1, <3>3, <3>4
    <3>6. QED
      BY <3>1, <3>4, <3>5
  <2>8. QED
    BY <2>2, <2>5, <2>6, <2>7 DEF q
<1>4. QED
  BY <1>2, <1>3

(* A failed fetch: the game has an entry and another attempt, or is out of  *)
(* the queue and given up.                                                  *)
LEMMA FailureRight ==
  ASSUME QueueInv, NEW n \in 1 .. MaxGames, NoteFetchFailure(n)
  PROVE  /\ Proper(pending') /\ fetched' = fetched
         /\ \/ Queued' = Queued \cup {n} /\ givenUp' = givenUp
            \/ Queued' = Queued \ {n} /\ givenUp' = givenUp \cup {n}
<1> DEFINE new == [game |-> n, attempts |-> 0, due |-> FALSE, held |-> FALSE]
           failed == IF n \in Queued THEN pending ELSE <<new>> \o pending
           i == Place(failed, n)
           tries == failed[i].attempts + 1
<1>1. Proper(pending) /\ Queued = GamesIn(pending) /\ Queued' = GamesIn(pending')
  BY DEF QueueInv, Queued, GamesIn
<1>2. CASE tries >= MaxAttempts
  <2>1. pending' = Without(n) /\ givenUp' = givenUp \cup {n} /\ UNCHANGED fetched
    BY <1>2 DEF NoteFetchFailure
  <2>2. QED
    BY <1>1, <2>1, WithoutRight
<1>3. CASE ~(tries >= MaxAttempts)
  <2>1. /\ pending' = [failed EXCEPT ![i].attempts = tries, ![i].due = FALSE]
        /\ UNCHANGED <<fetched, givenUp>>
    BY <1>3 DEF NoteFetchFailure
  <2>2. Proper(failed) /\ GamesIn(failed) = Queued \cup {n}
    <3>1. CASE n \in Queued
      BY <1>1, <3>1
    <3>2. CASE n \notin Queued
      <4>1. new \in Pending /\ new.game = n
        BY ResultsAssumption DEF Pending
      <4>2. failed = <<new>> \o pending
        BY <3>2
      <4> HIDE DEF new, failed
      <4>3. QED
        BY <1>1, <3>2, <4>1, <4>2, AppendRight
    <3>3. QED
      BY <3>1, <3>2
  <2> HIDE DEF failed
  <2>3. i \in 1 .. Len(failed) /\ failed[i].game = n
    BY <2>2, PlaceRight
  <2>4. /\ Len(failed) \in Nat /\ DOMAIN failed = 1 .. Len(failed)
        /\ \A j \in 1 .. Len(failed) : failed[j] \in Pending
        /\ failed \in [1 .. Len(failed) -> Pending]
    BY <2>2, ProperQueue, LenProperties DEF Proper
  <2> HIDE DEF i
  <2>5. tries \in 0 .. MaxAttempts - 1
    BY <1>3, <2>3, <2>4, ResultsAssumption DEF Pending
  <2> HIDE DEF tries
  <2>6. /\ DOMAIN pending' = DOMAIN failed
        /\ pending' \in [1 .. Len(failed) -> Pending]
        /\ \A j \in DOMAIN failed : pending'[j].game = failed[j].game
    BY <2>1, <2>3, <2>4, <2>5 DEF Pending
  <2>7. pending' \in Seq(Pending)
    BY <2>4, <2>6, IsAQueue
  <2>8. Proper(pending') /\ GamesIn(pending') = GamesIn(failed)
    BY <2>2, <2>6, <2>7, SameGames
  <2>9. QED
    BY <1>1, <2>1, <2>2, <2>8
<1>4. QED
  BY <1>2, <1>3
-----------------------------------------------------------------------------
(***************************************************************************)
(* Steps.                                                                  *)
(***************************************************************************)

(* What the goroutines that use the print server, and time, leave alone. *)
Inside ==
  \/ RetryFallsDue \/ PresenceTime \/ PolledDrain \/ DrainStep \/ Other
  \/ \E kind \in {"refresh", "command"} : StartOther(kind)
  \/ \E f \in Finishers : FinishWork(f)

LEMMA InsideStays == Inside => UNCHANGED around
<1> SUFFICES ASSUME Inside PROVE UNCHANGED around
  OBVIOUS
<1>1. CASE RetryFallsDue \/ PresenceTime \/ PolledDrain
  BY <1>1 DEF RetryFallsDue, PresenceTime, PolledDrain
<1>2. CASE DrainStep
  BY <1>2 DEF DrainStep, Skip, PutOff, Acquire, Connect, DialConnects, DialFails, Synced,
    ClearPending, SyncFails, EndDrain
<1>3. CASE Other
  BY <1>3 DEF Other, OtherConnect, OtherDialConnects, OtherDialFails, OtherReadFails, OtherCloses,
    OtherFetch
<1>4. CASE \E kind \in {"refresh", "command"} : StartOther(kind)
  BY <1>4 DEF StartOther
<1>5. CASE \E f \in Finishers : FinishWork(f)
  BY <1>5 DEF FinishWork, Mark, CheckGate, Claim, FinishDrain, Remark, FinishRefresh
<1>6. QED
  BY <1>1, <1>2, <1>3, <1>4, <1>5 DEF Inside

(* An event that is sent arrives at the end of the bus, or not at all. *)
LEMMA Delivery ==
  ASSUME NEW S, NEW e \in S, bus \in Seq(S), Deliver(e)
  PROVE  bus' \in Seq(S)
<1>1. bus' = bus \/ bus' = Append(bus, e)
  BY DEF Deliver
<1>2. QED
  BY <1>1

(* The steps there are. *)
LEMMA Steps ==
  ASSUME [Next]_vars
  PROVE  \/ UNCHANGED vars
         \/ Inside
         \/ GameStarts \/ GameEnds \/ GateTurns \/ HandleStart \/ HandleFinish \/ Poll
         \/ \E f \in Finishers : DelayOver(f)
BY DEF Next, OZone, Inside

LEMMA OzoneStep ==
  ASSUME OzoneTyped, [Next]_vars
  PROVE  OzoneTyped'
<1> DEFINE Event == [code : {"GAME_START", "GAME_FINISH"}, game : 1 .. MaxGames]
<1>1. CASE UNCHANGED vars \/ Inside
  <2>1. UNCHANGED around
    BY <1>1, InsideStays DEF vars, around, agentVars
  <2>2. QED
    BY <2>1 DEF OzoneTyped, around, ozoneVars, busVars
<1> HIDE DEF Event
<1>2. CASE GameStarts
  <2>1. game + 1 \in 1 .. MaxGames
    BY <1>2, ResultsAssumption DEF GameStarts, OzoneTyped
  <2>2. [code |-> "GAME_START", game |-> game + 1] \in Event
    BY <2>1 DEF Event
  <2>3. bus' \in Seq(Event)
    BY <1>2, <2>2, Delivery DEF GameStarts, OzoneTyped, Event
  <2>4. QED
    BY <1>2, <2>1, <2>3 DEF GameStarts, OzoneTyped, busVars, agentVars, Event
<1>3. CASE GameEnds
  <2>1. game \in 1 .. MaxGames
    BY <1>3, ResultsAssumption DEF GameEnds, OzoneTyped
  <2>2. [code |-> "GAME_FINISH", game |-> game] \in Event
    BY <2>1 DEF Event
  <2>3. bus' \in Seq(Event)
    BY <1>3, <2>2, Delivery DEF GameEnds, OzoneTyped, Event
  <2>4. QED
    BY <1>3, <2>3 DEF GameEnds, OzoneTyped, busVars, agentVars, Event
<1>4. CASE GateTurns
  BY <1>4 DEF GateTurns, OzoneTyped, ozoneVars, busVars, agentVars
<1>5. CASE HandleStart
  <2>1. bus \in Seq(Event) /\ bus # <<>>
    BY <1>5 DEF HandleStart, OzoneTyped, Event
  <2>2. Head(bus) \in Event /\ Tail(bus) \in Seq(Event)
    BY <2>1, HeadTailProperties
  <2>3. lastBusGame' \in 0 .. MaxGames
    <3>1. Head(bus).game \in 1 .. MaxGames
      BY <2>2 DEF Event
    <3>2. QED
      BY <1>5, <3>1 DEF HandleStart
  <2>4. bus' \in Seq(Event)
    BY <1>5, <2>2 DEF HandleStart
  <2>5. QED
    BY <1>5, <2>3, <2>4 DEF HandleStart, OzoneTyped, agentVars, Event
<1>6. CASE HandleFinish
  <2>1. bus \in Seq(Event) /\ bus # <<>>
    BY <1>6 DEF HandleFinish, OzoneTyped, Event
  <2>2. Tail(bus) \in Seq(Event)
    BY <2>1, HeadTailProperties
  <2>3. Append(delays, lastBusGame) \in Seq(0 .. MaxGames)
    BY DEF OzoneTyped
  <2>4. QED
    BY <1>6, <2>2, <2>3 DEF HandleFinish, OzoneTyped, agentVars, Event
<1>7. CASE Poll
  <2>1. lastGameNum' \in {game, lastGameNum}
    BY <1>7 DEF Poll, CheckGameResults, agentVars
  <2>2. QED
    BY <1>7, <2>1 DEF Poll, OzoneTyped, ozoneVars, busVars
<1>8. ASSUME NEW f \in Finishers, DelayOver(f)
      PROVE  OzoneTyped'
  <2>1. Tail(delays) \in Seq(0 .. MaxGames)
    BY <1>8, HeadTailProperties DEF DelayOver, OzoneTyped
  <2>2. QED
    BY <1>8, <2>1 DEF DelayOver, OzoneTyped, ozoneVars, agentVars
<1>9. QED
  BY <1>1, <1>2, <1>3, <1>4, <1>5, <1>6, <1>7, <1>8, Steps

(* The presence keeps its type, whatever uses the print server. *)
LEMMA PresenceMoves ==
  ASSUME PsTypeOK,
         \/ UNCHANGED psVars \/ Reached \/ GameFinished \/ CheckFallsDue \/ FailuresSpread
         \/ \E manual \in BOOLEAN : Claimed(manual) \/ Failed(manual)
  PROVE  PsTypeOK'
<1>1. CASE UNCHANGED psVars
  BY <1>1 DEF PsTypeOK, psVars
<1>2. CASE Reached \/ GameFinished \/ CheckFallsDue \/ FailuresSpread
  <2>1. CASE Reached
    BY <2>1 DEF PsTypeOK, Reached
  <2>2. CASE GameFinished
    BY <2>2, Zenon DEF PsTypeOK, GameFinished
  <2>3. CASE CheckFallsDue
    BY <2>3 DEF PsTypeOK, CheckFallsDue
  <2>4. CASE FailuresSpread
    BY <2>4 DEF PsTypeOK, FailuresSpread
  <2>5. QED
    BY <1>2, <2>1, <2>2, <2>3, <2>4
<1>3. ASSUME NEW manual \in BOOLEAN, Claimed(manual)
      PROVE  PsTypeOK'
  BY <1>3 DEF PsTypeOK, Claimed
<1>4. ASSUME NEW manual \in BOOLEAN, Failed(manual)
      PROVE  PsTypeOK'
  <2> DEFINE n == Least(failures + 1, IF AbsentAfter = 0 THEN 1 ELSE AbsentAfter)
  <2>1. n \in Nat
    BY PrintServerAssumption DEF Least, PsTypeOK
  <2> HIDE DEF n
  <2>2. CASE manual /\ presence # "absent"
    BY <1>1, <1>4, <2>2 DEF Failed
  <2>3. CASE ~(manual /\ presence # "absent")
    <3>1. /\ failures' = n /\ spread' = (failures > 0 /\ spread)
          /\ checkDue' = (checkDue /\ manual) /\ everReached' = everReached
          /\ presence' = "absent" \/ presence' = presence
      BY <1>4, <2>3 DEF Failed, n
    <3>2. QED
      BY <2>1, <3>1 DEF PsTypeOK
  <2>4. QED
    BY <2>2, <2>3
<1>5. QED
  BY <1>1, <1>2, <1>3, <1>4

LEMMA PresenceStep ==
  ASSUME PsTypeOK, [Next]_vars
  PROVE  PsTypeOK'
<1>1. CASE UNCHANGED vars \/ GameStarts \/ GameEnds \/ GateTurns \/ HandleStart
  BY <1>1, PresenceMoves DEF vars, GameStarts, GameEnds, GateTurns, HandleStart
<1>2. CASE HandleFinish \/ Poll \/ \E f \in Finishers : DelayOver(f)
  BY <1>2, PresenceMoves DEF HandleFinish, Poll, CheckGameResults, DelayOver
<1>3. CASE RetryFallsDue \/ PresenceTime \/ PolledDrain
  BY <1>3, PresenceMoves DEF RetryFallsDue, PresenceTime, PolledDrain
<1>4. CASE DrainStep
  BY <1>4, PresenceMoves DEF DrainStep, Skip, PutOff, Acquire, Connect, DialConnects, DialFails,
    Synced, ClearPending, SyncFails, EndDrain, Connected
<1>5. CASE Other
  <2>1. Manual \in BOOLEAN
    BY DEF Manual
  <2>2. QED
    BY <1>5, <2>1, PresenceMoves DEF Other, OtherConnect, OtherDialConnects, OtherDialFails,
      OtherReadFails, OtherCloses, OtherFetch, Connected
<1>6. CASE \E kind \in {"refresh", "command"} : StartOther(kind)
  BY <1>6, PresenceMoves DEF StartOther
<1>7. CASE \E f \in Finishers : FinishWork(f)
  BY <1>7, PresenceMoves DEF FinishWork, Mark, CheckGate, Claim, FinishDrain, Remark, FinishRefresh
<1>8. QED
  BY <1>1, <1>2, <1>3, <1>4, <1>5, <1>6, <1>7, Steps DEF Inside

(* What the goroutines may do to the lock and the other user. *)
LEMMA WorkStep ==
  ASSUME WorkTyped, [Next]_vars
  PROVE  WorkTyped'
<1>1. CASE UNCHANGED vars \/ GameStarts \/ GameEnds \/ GateTurns \/ HandleStart \/ HandleFinish
  BY <1>1 DEF vars, agentVars, workVars, GameStarts, GameEnds, GateTurns, HandleStart, HandleFinish,
    WorkTyped
<1>2. CASE Poll
  <2>1. /\ UNCHANGED <<finishPending, resultsMu, other>>
        /\ pollDrain' \in {pollDrain, TRUE}
        /\ \/ UNCHANGED finisher
           \/ \E f \in Finishers : finisher' = [finisher EXCEPT ![f] = "mark"]
    BY <1>2 DEF Poll, CheckGameResults, LaunchFinishWork, agentVars
  <2>2. QED
    BY <2>1 DEF WorkTyped
<1>3. ASSUME NEW f \in Finishers, DelayOver(f)
      PROVE  WorkTyped'
  BY <1>3 DEF DelayOver, WorkTyped, agentVars
<1>4. CASE RetryFallsDue \/ PresenceTime \/ PolledDrain
  BY <1>4 DEF RetryFallsDue, PresenceTime, PolledDrain, workVars, WorkTyped
<1>5. CASE DrainStep
  <2>1. CASE Skip \/ PutOff \/ Acquire \/ Connect \/ DialFails \/ Synced \/ ClearPending \/ SyncFails
    BY <1>5, <2>1 DEF Skip, PutOff, Acquire, Connect, DialFails, Synced, ClearPending, SyncFails,
      Released, WorkTyped
  <2>2. CASE DialConnects
    BY <1>5, <2>2 DEF DialConnects, Connected, BackToWork, WorkTyped
  <2>3. CASE EndDrain
    <3>1. /\ UNCHANGED <<pollDrain, finishPending, resultsMu, other>>
          /\ \/ UNCHANGED finisher
             \/ finisher' = [finisher EXCEPT ![drain.by] = "remark"]
             \/ finisher' = [finisher EXCEPT ![drain.by] = "refresh"]
      BY <2>3 DEF EndDrain
    <3>2. QED
      BY <3>1 DEF WorkTyped
  <2>4. QED
    BY <1>5, <2>1, <2>2, <2>3 DEF DrainStep
<1>6. CASE Other
  <2>1. CASE OtherConnect \/ OtherDialFails \/ OtherReadFails \/ OtherCloses
    BY <2>1 DEF OtherConnect, OtherDialFails, OtherReadFails, OtherCloses, OtherEnds, NextGame,
      Released, NoOther, WorkTyped
  <2>2. CASE OtherDialConnects
    BY <2>2 DEF OtherDialConnects, Connected, BackToWork, WorkTyped
  <2>3. CASE \E n \in 1 .. MaxGames : OtherFetch(n)
    BY <2>3 DEF OtherFetch, WorkTyped
  <2>4. QED
    BY <1>6, <2>1, <2>2, <2>3 DEF Other
<1>7. CASE \E kind \in {"refresh", "command"} : StartOther(kind)
  BY <1>7 DEF StartOther, Begins, WorkTyped
<1>8. ASSUME NEW f \in Finishers, FinishWork(f)
      PROVE  WorkTyped'
  <2>1. CASE FinishRefresh(f)
    BY <2>1 DEF FinishRefresh, Begins, Goes, WorkTyped
  <2>2. CASE Mark(f) \/ CheckGate(f) \/ Claim(f) \/ FinishDrain(f) \/ Remark(f)
    <3>1. /\ UNCHANGED <<pollDrain, resultsMu, other>>
          /\ finishPending' \in {finishPending, TRUE, FALSE}
          /\ \E to \in {"idle", "mark", "gate", "claim", "drain", "wait", "remark", "refresh"} :
               finisher' = [finisher EXCEPT ![f] = to]
      BY <2>2 DEF Mark, CheckGate, Claim, FinishDrain, Remark, Goes
    <3>2. QED
      BY <3>1 DEF WorkTyped
  <2>3. QED
    BY <1>8, <2>1, <2>2 DEF FinishWork
<1>9. QED
  BY <1>1, <1>2, <1>3, <1>4, <1>5, <1>6, <1>7, <1>8, Steps DEF Inside

(* A step that keeps the games queued, and gives none up. *)
LEMMA QueueKept ==
  ASSUME QueueInv, Proper(pending'), Queued' = Queued, givenUp' \subseteq givenUp,
         fetched' \subseteq 1 .. MaxGames
  PROVE  QueueInv' /\ AccountedFor
BY DEF QueueInv, Proper, GivenUpRests, AccountedFor

(* A step that queues game n. *)
LEMMA QueueGrows ==
  ASSUME QueueInv, NEW n \in 1 .. MaxGames, UNCHANGED <<fetched, givenUp>>,
         pending' = QueueFetch(n) \/ pending' = Hold(QueueFetch(n), n)
  PROVE  QueueInv' /\ AccountedFor
<1> DEFINE q == QueueFetch(n)
<1>1. /\ Proper(q) /\ GamesIn(q) \cap givenUp = {}
      /\ \A g \in Queued \ GamesIn(q) :
           /\ presence = "absent" /\ Len(q) = MaxPending
           /\ \E i \in 1 .. Len(pending) + 1 - MaxPending : pending[i].game = g
  BY QueueFetchRight
<1> HIDE DEF q
<1>2. Proper(pending') /\ Queued' = GamesIn(q) /\ Len(pending') = Len(q)
  <2>1. Queued' = GamesIn(pending')
    BY DEF Queued, GamesIn
  <2>2. CASE pending' = q
    BY <1>1, <2>1, <2>2
  <2>3. CASE pending' = Hold(q, n)
    BY <1>1, <2>1, <2>3, HoldRight
  <2>4. QED
    BY <2>2, <2>3 DEF q
<1>3. QED
  BY <1>1, <1>2 DEF QueueInv, Proper, GivenUpRests, AccountedFor

(* The backoff of a game, or of all, is cut short. *)
LEMMA QueueDue ==
  ASSUME QueueInv, UNCHANGED <<fetched, givenUp>>,
         \/ pending' = [i \in DOMAIN pending |-> [pending[i] EXCEPT !.due = TRUE]]
         \/ \E i \in DOMAIN pending : pending' = [pending EXCEPT ![i].due = TRUE]
  PROVE  QueueInv' /\ AccountedFor
<1>1. Proper(pending) /\ Queued = GamesIn(pending) /\ Queued' = GamesIn(pending')
  BY DEF QueueInv, Queued, GamesIn
<1>2. /\ Len(pending) \in Nat /\ DOMAIN pending = 1 .. Len(pending)
      /\ \A i \in 1 .. Len(pending) : pending[i] \in Pending
      /\ pending \in [1 .. Len(pending) -> Pending]
  BY <1>1, ProperQueue, LenProperties DEF Proper
<1>3. /\ DOMAIN pending' = DOMAIN pending
      /\ pending' \in [1 .. Len(pending) -> Pending]
      /\ \A i \in DOMAIN pending : pending'[i].game = pending[i].game
  <2>1. CASE pending' = [i \in DOMAIN pending |-> [pending[i] EXCEPT !.due = TRUE]]
    <3>1. ASSUME NEW i \in 1 .. Len(pending)
          PROVE  /\ [pending[i] EXCEPT !.due = TRUE] \in Pending
                 /\ [pending[i] EXCEPT !.due = TRUE].game = pending[i].game
      BY <1>2 DEF Pending
    <3>2. QED
      BY <1>2, <2>1, <3>1
  <2>2. CASE \E i \in DOMAIN pending : pending' = [pending EXCEPT ![i].due = TRUE]
    <3>1. PICK i \in DOMAIN pending : pending' = [pending EXCEPT ![i].due = TRUE]
      BY <2>2
    <3> DEFINE p == [pending[i] EXCEPT !.due = TRUE]
    <3>2. p \in Pending /\ p.game = pending[i].game
      BY <1>2 DEF Pending
    <3>3. pending' = [pending EXCEPT ![i] = p]
      BY <3>1
    <3> HIDE DEF p
    <3>4. QED
      BY <1>2, <3>2, <3>3
  <2>3. QED
    BY <2>1, <2>2
<1>4. pending' \in Seq(Pending)
  BY <1>2, <1>3, IsAQueue
<1>5. Proper(pending') /\ Queued' = Queued
  BY <1>1, <1>3, <1>4, SameGames
<1>6. QED
  BY <1>5, QueueKept DEF QueueInv

(* A dial that connects. *)
LEMMA QueueConnected ==
  ASSUME QueueInv, Connected
  PROVE  QueueInv' /\ AccountedFor
<1>1. CASE presence = "absent"
  BY <1>1, QueueDue DEF Connected, BackToWork
<1>2. CASE presence # "absent"
  BY <1>2, QueueKept DEF Connected, QueueInv, Queued
<1>3. QED
  BY <1>1, <1>2

(* A fetch of the game the drain holds that fails. *)
LEMMA QueueFails ==
  ASSUME QueueInv, DrainInv, drain.pc \notin {"idle", "next"}, NoteFetchFailure(drain.game)
  PROVE  /\ QueueInv' /\ AccountedFor
         /\ fetched' = fetched /\ givenUp' \subseteq givenUp \cup {drain.game}
<1>1. drain.game \in 1 .. MaxGames /\ drain.game \notin givenUp
  BY ResultsAssumption DEF DrainInv, DrainSet
<1>2. /\ Proper(pending') /\ fetched' = fetched
      /\ \/ Queued' = Queued \cup {drain.game} /\ givenUp' = givenUp
         \/ Queued' = Queued \ {drain.game} /\ givenUp' = givenUp \cup {drain.game}
  BY <1>1, FailureRight
<1>3. QED
  BY <1>1, <1>2 DEF QueueInv, Proper, GivenUpRests, AccountedFor

(* A game that central has is taken out. *)
LEMMA QueueCleared ==
  ASSUME QueueInv, NEW n \in fetched, pending' = Without(n), UNCHANGED <<fetched, givenUp>>
  PROVE  QueueInv' /\ AccountedFor
<1>1. Proper(pending') /\ Queued' = Queued \ {n}
  <2>1. Queued' = GamesIn(pending')
    BY DEF Queued, GamesIn
  <2>2. QED
    BY <2>1, WithoutRight DEF QueueInv
<1>2. QED
  BY <1>1 DEF QueueInv, Proper, GivenUpRests, AccountedFor

LEMMA QueueMarked ==
  ASSUME QueueInv, NEW n \in 1 .. MaxGames, MarkFetched(n)
  PROVE  QueueInv' /\ AccountedFor
BY QueueKept DEF MarkFetched, QueueInv, Queued

LEMMA QueueStays ==
  ASSUME QueueInv, UNCHANGED queueVars
  PROVE  QueueInv' /\ AccountedFor
BY QueueKept DEF queueVars, QueueInv, Queued

LEMMA QueueStep ==
  ASSUME OzoneTyped, QueueInv, DrainInv, [Next]_vars
  PROVE  QueueInv' /\ AccountedFor
<1>1. CASE UNCHANGED vars \/ GameStarts \/ GameEnds \/ GateTurns \/ HandleStart
  BY <1>1, QueueStays DEF vars, GameStarts, GameEnds, GateTurns, HandleStart
<1>2. CASE HandleFinish
  <2>1. CASE lastBusGame > 0
    <3>1. lastBusGame \in 1 .. MaxGames
      BY <2>1, ResultsAssumption DEF OzoneTyped
    <3>2. /\ pending' = Hold(QueueFetch(lastBusGame), lastBusGame)
          /\ UNCHANGED <<fetched, givenUp>>
      BY <1>2, <2>1 DEF HandleFinish
    <3>3. QED
      BY <3>1, <3>2, QueueGrows
  <2>2. CASE ~(lastBusGame > 0)
    BY <1>2, <2>2, QueueStays DEF HandleFinish, queueVars
  <2>3. QED
    BY <2>1, <2>2
<1>3. CASE Poll
  <2>1. CASE UNCHANGED pending
    BY <1>3, <2>1, QueueStays DEF Poll, queueVars
  <2>2. CASE ~UNCHANGED pending
    <3>1. PICK m \in Readings : CheckGameResults(m)
      BY <1>3, <2>2 DEF Poll
    <3>2. FoundFinished(m) > 0 /\ pending' = QueueFetch(FoundFinished(m))
      BY <2>2, <3>1 DEF CheckGameResults
    <3>3. FoundFinished(m) \in 1 .. MaxGames
      BY <3>2, ResultsAssumption DEF FoundFinished, OzoneTyped
    <3>4. UNCHANGED <<fetched, givenUp>>
      BY <1>3 DEF Poll
    <3>5. QED
      BY <3>2, <3>3, <3>4, QueueGrows
  <2>3. QED
    BY <2>1, <2>2
<1>4. ASSUME NEW f \in Finishers, DelayOver(f) \/ FinishWork(f)
      PROVE  QueueInv' /\ AccountedFor
  BY <1>4, QueueStays DEF DelayOver, FinishWork, Mark, CheckGate, Claim, FinishDrain, Remark,
    FinishRefresh
<1>5. CASE RetryFallsDue
  BY <1>5, QueueDue DEF RetryFallsDue
<1>6. CASE PresenceTime \/ PolledDrain \/ \E kind \in {"refresh", "command"} : StartOther(kind)
  BY <1>6, QueueStays DEF PresenceTime, PolledDrain, StartOther
<1>7. CASE DrainStep
  <2>1. CASE Skip
    <3>1. Oldest \in fetched /\ pending' = Without(Oldest) /\ UNCHANGED <<fetched, givenUp>>
      BY <2>1 DEF Skip
    <3>2. QED
      BY <3>1, QueueCleared
  <2>2. CASE PutOff \/ Acquire \/ Connect \/ EndDrain
    BY <2>2, QueueStays DEF PutOff, Acquire, Connect, EndDrain
  <2>3. CASE DialConnects
    BY <2>3, QueueConnected DEF DialConnects
  <2>4. CASE DialFails
    <3>1. drain.pc \notin {"idle", "next"} /\ (UNCHANGED queueVars \/ NoteFetchFailure(drain.game))
      BY <2>4 DEF DialFails
    <3>2. QED
      BY <3>1, QueueStays, QueueFails
  <2>5. CASE Synced
    <3>1. drain.game \in 1 .. MaxGames /\ MarkFetched(drain.game)
      BY <2>5, ResultsAssumption DEF Synced, DrainInv, DrainSet
    <3>2. QED
      BY <3>1, QueueMarked
  <2>6. CASE ClearPending
    <3>1. drain.game \in fetched /\ pending' = Without(drain.game) /\ UNCHANGED <<fetched, givenUp>>
      BY <2>6 DEF ClearPending, DrainInv
    <3>2. QED
      BY <3>1, QueueCleared
  <2>7. CASE SyncFails
    <3>1. drain.pc \notin {"idle", "next"} /\ NoteFetchFailure(drain.game)
      BY <2>7 DEF SyncFails
    <3>2. QED
      BY <3>1, QueueFails
  <2>8. QED
    BY <1>7, <2>1, <2>2, <2>3, <2>4, <2>5, <2>6, <2>7 DEF DrainStep
<1>8. CASE Other
  <2>1. CASE OtherConnect \/ OtherDialFails \/ OtherReadFails \/ OtherCloses
    BY <2>1, QueueStays DEF OtherConnect, OtherDialFails, OtherReadFails, OtherCloses
  <2>2. CASE OtherDialConnects
    BY <2>2, QueueConnected DEF OtherDialConnects
  <2>3. ASSUME NEW n \in 1 .. MaxGames, OtherFetch(n)
        PROVE  QueueInv' /\ AccountedFor
    <3>1. MarkFetched(n) \/ UNCHANGED queueVars
      BY <2>3 DEF OtherFetch
    <3>2. QED
      BY <3>1, QueueMarked, QueueStays
  <2>4. QED
    BY <1>8, <2>1, <2>2, <2>3 DEF Other
<1>9. QED
  BY <1>1, <1>2, <1>3, <1>4, <1>5, <1>6, <1>7, <1>8, Steps DEF Inside

(* A step that leaves the drain alone, and gives no game up. *)
LEMMA DrainKept ==
  ASSUME DrainInv, UNCHANGED drain, givenUp' \subseteq givenUp, fetched \subseteq fetched'
  PROVE  DrainInv'
BY DEF DrainInv

(* A drain begins with games that are queued, and so not given up. *)
LEMMA DrainStarts ==
  ASSUME QueueInv, NEW by \in Finishers \cup {"poll"}, StartDrain(by), UNCHANGED queueVars
  PROVE  DrainInv'
<1>1. Due \subseteq Queued /\ Queued = GamesIn(pending)
  BY DEF Due, Queued, GamesIn
<1>2. Due \subseteq 1 .. MaxGames /\ Due \cap givenUp = {}
  BY <1>1, ProperQueue DEF QueueInv, GivenUpRests
<1>3. /\ drain'.pc = "next" /\ drain'.todo = Due /\ drain' \in DrainSet
  BY <1>2, ResultsAssumption DEF StartDrain, DrainSet
<1>4. QED
  BY <1>2, <1>3 DEF DrainInv, queueVars

(* The oldest game of a list is on it. *)
LEMMA OldestOnList ==
  ASSUME DrainInv, AtNext
  PROVE  Oldest \in drain.todo /\ Oldest \in 1 .. MaxGames /\ Oldest \notin givenUp
<1>1. drain.todo \in SUBSET Nat /\ drain.todo # {} /\ drain.todo \subseteq 1 .. MaxGames
  BY DEF DrainInv, DrainSet, AtNext
<1>2. Oldest \in drain.todo
  BY <1>1, FirstGame DEF Oldest
<1>3. QED
  BY <1>1, <1>2 DEF DrainInv

(* The game the drain held is done with. *)
LEMMA DrainGoesOn ==
  ASSUME DrainInv, drain.pc \notin {"idle", "next"},
         drain' = OnToNext(drain) \/ drain' = OnToNext(Deferred(drain)),
         givenUp' \subseteq givenUp \cup {drain.game}
  PROVE  DrainInv'
<1>1. PICK d : drain' = OnToNext(d) /\ (d = drain \/ d = Deferred(drain))
  OBVIOUS
<1>2. d \in DrainSet /\ d.todo = drain.todo
  BY <1>1 DEF Deferred, DrainInv, DrainSet
<1>3. 0 \in 0 .. MaxGames
  BY ResultsAssumption
<1>4. drain' \in DrainSet /\ drain'.pc = "next" /\ drain'.todo = d.todo
  BY <1>1, <1>2, <1>3 DEF OnToNext, DrainSet
<1>5. QED
  BY <1>2, <1>4 DEF DrainInv

LEMMA DrainMoves ==
  ASSUME QueueInv, DrainInv, DrainStep
  PROVE  DrainInv'
<1>1. CASE Skip \/ PutOff
  <2>1. /\ drain' \in DrainSet /\ drain'.pc = "next" /\ drain'.todo \subseteq drain.todo
        /\ UNCHANGED givenUp
    BY <1>1 DEF Skip, PutOff, Deferred, AtNext, DrainInv, DrainSet, queueVars
  <2>2. QED
    BY <2>1 DEF DrainInv
<1>2. CASE Acquire
  <2>1. Oldest \in 1 .. MaxGames /\ Oldest \notin givenUp
    BY <1>2, OldestOnList DEF Acquire
  <2>2. PICK n : n = Oldest
    OBVIOUS
  <2>3. drain' = [drain EXCEPT !.todo = drain.todo \ {n}, !.game = n, !.pc = "connect"]
    BY <1>2, <2>2 DEF Acquire
  <2>4. drain \in DrainSet /\ n \in 0 .. MaxGames
    BY <2>1, <2>2, ResultsAssumption DEF DrainInv
  <2>5. /\ drain' \in DrainSet /\ drain'.pc = "connect" /\ drain'.todo = drain.todo \ {n}
        /\ drain'.game = n
    BY <2>3, <2>4 DEF DrainSet
  <2>6. UNCHANGED givenUp /\ n # 0
    BY <1>2, <2>1, <2>2 DEF Acquire, queueVars
  <2>7. QED
    BY <2>1, <2>2, <2>5, <2>6 DEF DrainInv
<1>3. CASE Connect
  <2>1. /\ drain.pc = "connect" /\ UNCHANGED queueVars
        /\ \/ drain' = OnToNext(drain) \/ drain' = OnToNext(Deferred(drain))
           \/ drain' = [drain EXCEPT !.pc = "dial"]
    BY <1>3 DEF Connect
  <2>2. CASE drain' = [drain EXCEPT !.pc = "dial"]
    BY <2>1, <2>2 DEF DrainInv, DrainSet, queueVars
  <2>3. QED
    BY <2>1, <2>2, DrainGoesOn DEF queueVars
<1>4. CASE DialConnects
  <2>1. drain.pc = "dial" /\ drain' = [drain EXCEPT !.pc = "fetch"] /\ UNCHANGED <<fetched, givenUp>>
    BY <1>4 DEF DialConnects, Connected
  <2>2. QED
    BY <2>1 DEF DrainInv, DrainSet
<1>5. CASE DialFails
  <2>1. /\ drain.pc = "dial"
        /\ drain' = OnToNext(drain) \/ drain' = OnToNext(Deferred(drain))
        /\ UNCHANGED queueVars \/ NoteFetchFailure(drain.game)
    BY <1>5 DEF DialFails
  <2>2. givenUp' \subseteq givenUp \cup {drain.game}
    BY <2>1, QueueFails DEF queueVars
  <2>3. QED
    BY <2>1, <2>2, DrainGoesOn
<1>6. CASE Synced
  <2>1. /\ drain.pc = "fetch" /\ drain' = [drain EXCEPT !.pc = "clear"]
        /\ fetched' = fetched \cup {drain.game} /\ givenUp' = givenUp \ {drain.game}
    BY <1>6 DEF Synced, MarkFetched
  <2>2. QED
    BY <2>1 DEF DrainInv, DrainSet
<1>7. CASE ClearPending
  BY <1>7, DrainGoesOn DEF ClearPending
<1>8. CASE SyncFails
  <2>1. givenUp' \subseteq givenUp \cup {drain.game}
    BY <1>8, QueueFails DEF SyncFails
  <2>2. QED
    BY <1>8, <2>1, DrainGoesOn DEF SyncFails
<1>9. CASE EndDrain
  <2>1. drain' = NoDrain /\ UNCHANGED queueVars
    BY <1>9 DEF EndDrain
  <2>2. QED
    BY <2>1, ResultsAssumption DEF NoDrain, DrainInv, DrainSet, queueVars
<1>10. QED
  BY <1>1, <1>2, <1>3, <1>4, <1>5, <1>6, <1>7, <1>8, <1>9 DEF DrainStep

LEMMA DrainInvStep ==
  ASSUME QueueInv, DrainInv, [Next]_vars
  PROVE  DrainInv'
<1>1. CASE UNCHANGED vars \/ GameStarts \/ GameEnds \/ GateTurns \/ HandleStart \/ HandleFinish \/ Poll
  BY <1>1, DrainKept DEF vars, queueVars, workVars, GameStarts, GameEnds, GateTurns, HandleStart,
    HandleFinish, Poll
<1>2. CASE RetryFallsDue \/ PresenceTime \/ \E kind \in {"refresh", "command"} : StartOther(kind)
  BY <1>2, DrainKept DEF RetryFallsDue, PresenceTime, StartOther, queueVars, workVars
<1>3. CASE PolledDrain
  <2>1. (StartDrain("poll") /\ UNCHANGED queueVars) \/ UNCHANGED <<drain, queueVars>>
    BY <1>3 DEF PolledDrain
  <2>2. QED
    BY <2>1, DrainStarts, DrainKept DEF queueVars
<1>4. CASE DrainStep
  BY <1>4, DrainMoves
<1>5. CASE Other
  BY <1>5, DrainKept DEF Other, OtherConnect, OtherDialConnects, OtherDialFails, OtherReadFails,
    OtherCloses, OtherFetch, MarkFetched, Connected, queueVars
<1>6. ASSUME NEW f \in Finishers, FinishWork(f) \/ DelayOver(f)
      PROVE  DrainInv'
  <2>1. CASE FinishDrain(f)
    <3>1. (StartDrain(f) /\ UNCHANGED queueVars) \/ UNCHANGED <<drain, queueVars>>
      BY <2>1 DEF FinishDrain
    <3>2. QED
      BY <3>1, DrainStarts, DrainKept DEF queueVars
  <2>2. CASE ~FinishDrain(f)
    BY <1>6, <2>2, DrainKept DEF FinishWork, DelayOver, Mark, CheckGate, Claim, Remark,
      FinishRefresh, queueVars
  <2>3. QED
    BY <2>1, <2>2
<1>7. QED
  BY <1>1, <1>2, <1>3, <1>4, <1>5, <1>6, Steps DEF Inside
-----------------------------------------------------------------------------
(***************************************************************************)
(* What holds.                                                             *)
(***************************************************************************)

LEMMA Starts == Init => Inv
<1> SUFFICES ASSUME Init PROVE Inv
  OBVIOUS
<1>1. PsTypeOK
  BY DEF Init, PsInit, PsTypeOK
<1>2. OzoneTyped
  <2>1. \A S : <<>> \in Seq(S)
    BY EmptySeq
  <2>2. bus \in Seq([code : {"GAME_START", "GAME_FINISH"}, game : 1 .. MaxGames])
    BY <2>1 DEF Init
  <2>3. delays \in Seq(0 .. MaxGames)
    BY <2>1 DEF Init
  <2>4. game \in 0 .. MaxGames /\ lastBusGame \in 0 .. MaxGames /\ lastGameNum \in 0 .. MaxGames
    BY ResultsAssumption DEF Init
  <2>5. polling \in BOOLEAN /\ faulty \in BOOLEAN /\ gate \in BOOLEAN
    BY DEF Init
  <2>6. playing \in BOOLEAN /\ ~playing
    BY DEF Init
  <2>7. QED
    BY <2>2, <2>3, <2>4, <2>5, <2>6 DEF OzoneTyped
<1>3. WorkTyped
  BY DEF Init, NoOther, WorkTyped
<1>4. QueueInv
  BY EmptySeq DEF Init, QueueInv, Proper, Once, GivenUpRests, Queued
<1>5. DrainInv
  BY ResultsAssumption DEF Init, NoDrain, DrainInv, DrainSet
<1>6. QED
  BY <1>1, <1>2, <1>3, <1>4, <1>5 DEF Inv

(* The invariant is inductive: every step keeps each of its parts.          *)
THEOREM Inductive == Spec => []Inv
<1>1. Inv /\ [Next]_vars => Inv'
  BY OzoneStep, PresenceStep, WorkStep, QueueStep, DrainInvStep DEF Inv
<1>2. QED
  BY Starts, <1>1, PTL DEF Spec

(* The types hold in every reachable state, and no game is queued twice,    *)
(* wherever the bus, the polls and the failed fetches put it.               *)
THEOREM TypeCorrect == Spec => []TypeOK
<1>1. Inv => TypeOK
  <2> SUFFICES ASSUME Inv PROVE TypeOK
    OBVIOUS
  <2>1. Queued = GamesIn(pending)
    BY DEF Queued, GamesIn
  <2>2. pending \in Seq(Pending) /\ Cardinality(Queued) = Len(pending)
    BY <2>1, AsManyGames DEF Inv, QueueInv, Proper
  <2>3. \A S \in {fetched, givenUp} : S \subseteq 1 .. MaxGames
    BY DEF Inv, QueueInv
  <2>4. /\ PsTypeOK /\ OzoneTyped /\ WorkTyped /\ drain \in DrainSet
    BY DEF Inv, DrainInv
  <2>5. QED
    BY <2>2, <2>3, <2>4 DEF OzoneTyped, WorkTyped, DrainSet, TypeOK
<1>2. QED
  BY Inductive, <1>1, PTL

(* A game given up is not queued again, by a poll, the bus or the drain     *)
(* that held it (queueFetch, noteFetchFailure).                             *)
THEOREM GivenUpStays == Spec => []GivenUpRests
<1>1. Inv => GivenUpRests
  BY DEF Inv, QueueInv
<1>2. QED
  BY Inductive, <1>1, PTL

(* No game leaves the queue but fetched, given up, or dropped as one of the *)
(* oldest of a queue too long for an absent print server.                   *)
THEOREM NoneIsLost == Spec => LeavesAccountedFor
<1>1. Inv /\ [Next]_vars => AccountedFor
  BY QueueStep DEF Inv
<1>2. Inv /\ [Next]_vars =>
        [\A n \in Queued \ Queued' :
           \/ n \in fetched' \cup givenUp'
           \/ /\ presence = "absent" /\ Len(pending') = MaxPending
              /\ \E i \in 1 .. Len(pending) + 1 - MaxPending : pending[i].game = n]_vars
  BY <1>1 DEF AccountedFor
<1>3. QED
  BY Inductive, <1>2, PTL DEF Spec, LeavesAccountedFor
=============================================================================
