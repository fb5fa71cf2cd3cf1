--------------------------- MODULE FailoverProofs ---------------------------
(***************************************************************************)
(* Proofs about Failover, for every set of games and of pushes, every      *)
(* number of slots and of versions.                                        *)
(*                                                                         *)
(* The argument: what is in hand to be copied is a game nothing newer has  *)
(* been fetched of, or one noted as fetched while its copy was under way;  *)
(* what has been fetched since is newer than what central may have         *)
(* misfiled.  What is being pushed is what is cached, or a push of what is *)
(* waits its turn.                                                         *)
(***************************************************************************)
EXTENDS Failover, FiniteSetTheorems, TLAPS

Copiers == {"restore", "collect"}

(* The payload a session has read is O-Zone's, and no older than any cached *)
(* before it.                                                               *)
FetchedInv ==
  fetched # NoFetch =>
    /\ fetched.game \in Games
    /\ fetched.version \in Oldest .. ozone[fetched.game]
    /\ newest[fetched.game] <= fetched.version

(* What is sent or copied exists. *)
CopyInv ==
  /\ \A p \in Pushers : pusher[p].pc = "sending" => pusher[p].game \in Games /\ pusher[p].version # None
  /\ \A p \in Pushers : pusher[p].pc = "queued" => pusher[p].game \in Games
  /\ \A c \in Copiers :
       /\ copier[c].todo \subseteq AtCentral
       /\ copier[c].pc \in {"raw", "store"} => copier[c].game \in AtCentral
       /\ copier[c].pc = "store" => copier[c].version # None

(* What may be copied over is not newer, unless noted. *)
NewestInv ==
  \A n \in Games :
    /\ newest[n] <= ozone[n]
    /\ ~HasRaw(n) => newest[n] = None
    /\ Copying(n) => n \in undone \/ newest[n] = None

IInv ==
  /\ TypeOK
  /\ IsFiniteSet(Sending)
  /\ FetchedInv
  /\ CopyInv
  /\ NewestInv
  /\ NewestKept
-----------------------------------------------------------------------------
LEMMA Numbers ==
  /\ 0 \notin Games /\ Games \subseteq Nat
  /\ MaxVersion \in Nat \ {0, 1} /\ Versions = 0 .. MaxVersion + 1
  /\ None = 0 /\ Nameless = 1 /\ Oldest = 2 /\ Foreign = MaxVersion + 1 /\ Slots \in Nat \ {0}
BY FailoverAssumption DEF Versions, None, Nameless, Oldest, Foreign

LEMMA InitHolds == Init => IInv
<1> SUFFICES ASSUME Init PROVE IInv
  OBVIOUS
<1> USE Numbers
<1>1. Sending = {}
  BY DEF Init, Sending, NoPush, Push
<1>2. IsFiniteSet(Sending) /\ Cardinality(Sending) = 0
  BY <1>1, FS_EmptySet
<1>3. TypeOK
  <2>1. cached \in [Games -> Versions] /\ newest \in [Games -> Versions]
    BY DEF Init
  <2>2. backup \in [Games -> Versions]
    <3>1. {None, Nameless, Oldest, Foreign} \subseteq Versions
      OBVIOUS
    <3>2. QED
      BY <3>1 DEF Init
  <2>3. /\ ozone \in [Games -> Oldest .. MaxVersion]
        /\ fetched \in [game : Games \cup {0}, version : Versions]
        /\ late \subseteq [game : Games, version : Versions \ {None}]
        /\ undone \subseteq Games
    BY DEF Init, NoFetch
  <2>4. copier \in [Copiers ->
                   [pc : {"idle", "list", "next", "raw", "store"}, todo : SUBSET Games,
                    game : Games \cup {0}, version : Versions]]
    BY DEF Init, NoCopy, Copiers, Copy
  <2>5. pusher \in [Pushers -> [pc : {"idle", "queued", "sending"}, game : Games \cup {0},
                             version : Versions, beside : BOOLEAN]]
    BY DEF Init, NoPush, Push
  <2>6. QED
    BY <1>2, <2>1, <2>2, <2>3, <2>4, <2>5 DEF TypeOK, Copiers
<1>5. FetchedInv /\ CopyInv
  BY DEF Init, FetchedInv, CopyInv, NoPush, NoCopy, Copiers, Copy, Push
<1>6. NewestInv /\ NewestKept
  BY DEF Init, NewestInv, NewestKept, HasRaw
<1>7. QED
  BY <1>2, <1>3, <1>5, <1>6 DEF IInv

(* The slots: a push takes one if one is free, and gives it back. *)
LEMMA SlotStep ==
  ASSUME IInv, [Step]_vars
  PROVE  IsFiniteSet(Sending') /\ Cardinality(Sending') <= Slots
<1> USE Numbers
<1>1. /\ IsFiniteSet(Sending) /\ Cardinality(Sending) <= Slots
      /\ pusher \in [Pushers -> [pc : {"idle", "queued", "sending"}, game : Games \cup {0},
                                 version : Versions, beside : BOOLEAN]]
  BY DEF IInv, TypeOK
<1>2. Cardinality(Sending) \in Nat
  BY <1>1, FS_CardinalityType
<1>3. ASSUME Sending' \subseteq Sending
      PROVE  IsFiniteSet(Sending') /\ Cardinality(Sending') <= Slots
  <2>1. IsFiniteSet(Sending') /\ Cardinality(Sending') <= Cardinality(Sending)
    BY <1>1, <1>3, FS_Subset
  <2>2. Cardinality(Sending') \in Nat
    BY <2>1, FS_CardinalityType
  <2>3. QED
    BY <1>1, <1>2, <2>1, <2>2
<1>4. ASSUME NEW p \in Pushers, TakeSlot(p)
      PROVE  IsFiniteSet(Sending') /\ Cardinality(Sending') <= Slots
  <2>1. Sending' \subseteq Sending \cup {p} /\ Cardinality(Sending) < Slots
    BY <1>1, <1>4 DEF TakeSlot, FreeSlot, Sending, NoPush, Push
  <2>2. /\ IsFiniteSet(Sending \cup {p})
        /\ Cardinality(Sending \cup {p}) <= Cardinality(Sending) + 1
    <3>1. /\ IsFiniteSet(Sending \cup {p})
          /\ Cardinality(Sending \cup {p}) =
               IF p \in Sending THEN Cardinality(Sending) ELSE Cardinality(Sending) + 1
      BY <1>1, FS_AddElement
    <3>2. QED
      BY <1>2, <3>1
  <2>3. /\ IsFiniteSet(Sending')
        /\ Cardinality(Sending') <= Cardinality(Sending \cup {p})
    BY <2>1, <2>2, FS_Subset
  <2>4. Cardinality(Sending') \in Nat /\ Cardinality(Sending \cup {p}) \in Nat
    BY <2>2, <2>3, FS_CardinalityType
  <2>5. QED
    BY <1>2, <2>1, <2>2, <2>3, <2>4
<1>5. ASSUME NEW p \in Pushers, Arrives(p) \/ Gone(p) PROVE Sending' \subseteq Sending
  BY <1>1, <1>5 DEF Arrives, Gone, Sending, NoPush, Push
<1>6. ASSUME CacheGame PROVE Sending' \subseteq Sending
  BY <1>1, <1>6 DEF CacheGame, Launched, Sending, NoPush, Push
<1>7. ASSUME UNCHANGED pusher PROVE Sending' \subseteq Sending
  BY <1>7 DEF Sending
<1>8. ASSUME Restored \/ Collected PROVE Sending' \subseteq Sending
  BY <1>1, <1>8 DEF Restored, Collected, StoreCopy, Sending
<1>9. CASE UNCHANGED pusher
  BY <1>3, <1>7, <1>9
<1>10. CASE ~ UNCHANGED pusher
  BY <1>3, <1>4, <1>5, <1>6, <1>8, <1>10
     DEF Step, OzoneRewrites, FetchGame, Delete, CacheFails, PushFails, PushTimesOut, LateArrives,
         StartCollect, Copies, ListBackups, Pick, FetchRaw, vars
<1>11. QED
  BY <1>9, <1>10

(* What the type invariant says of one variable at a time. *)
CopierRec == [pc : {"idle", "list", "next", "raw", "store"}, todo : SUBSET Games,
              game : Games \cup {0}, version : Versions]
PusherRec == [pc : {"idle", "queued", "sending"}, game : Games \cup {0},
              version : Versions, beside : BOOLEAN]

Typed ==
  /\ ozone \in [Games -> Oldest .. MaxVersion]
  /\ cached \in [Games -> Versions] /\ newest \in [Games -> Versions]
  /\ backup \in [Games -> Versions]
  /\ fetched \in [game : Games \cup {0}, version : Versions]
  /\ copier \in [Copiers -> CopierRec]
  /\ pusher \in [Pushers -> PusherRec]
  /\ late \subseteq [game : Games, version : Versions \ {None}]
  /\ undone \subseteq Games

LEMMA TypedIs == TypeOK <=> Typed /\ Cardinality(Sending) <= Slots
BY DEF TypeOK, Typed, Copiers, CopierRec, PusherRec

LEMMA CopyTyped ==
  ASSUME NEW pc \in {"idle", "list", "next", "raw", "store"}, NEW todo \in SUBSET Games,
         NEW n \in Games \cup {0}, NEW v \in Versions
  PROVE  /\ Copy(pc, todo, n, v) \in CopierRec
         /\ Copy(pc, todo, n, v).pc = pc /\ Copy(pc, todo, n, v).todo = todo
         /\ Copy(pc, todo, n, v).game = n /\ Copy(pc, todo, n, v).version = v
BY DEF Copy, CopierRec

LEMMA RestTyped ==
  ASSUME NEW todo \in SUBSET Games
  PROVE  /\ Rest(todo) \in CopierRec /\ Rest(todo).todo = todo
         /\ Rest(todo).game = 0 /\ Rest(todo).pc \in {"idle", "next"}
BY Numbers DEF Rest, NoCopy, Copy, CopierRec

(* Fetching, caching and deleting. *)
LEMMA FetchStep ==
  ASSUME IInv, NEW n \in Games, OzoneRewrites(n) \/ FetchGame(n) \/ Delete(n) \/ CacheFails
  PROVE  Typed' /\ FetchedInv' /\ CopyInv' /\ NewestInv' /\ NewestKept'
<1> USE Numbers
<1>1. Typed /\ FetchedInv /\ CopyInv /\ NewestInv /\ NewestKept
  BY TypedIs DEF IInv
<1>2. Typed'
  <2>1. CASE OzoneRewrites(n)
    <3>1. ozone[n] + 1 \in Oldest .. MaxVersion
      BY <1>1, <2>1 DEF OzoneRewrites, Typed
    <3>2. QED
      BY <1>1, <2>1, <3>1 DEF OzoneRewrites, Typed
  <2>2. CASE FetchGame(n)
    <3>1. ozone[n] \in Versions
      BY <1>1 DEF Typed
    <3>2. QED
      BY <1>1, <2>2, <3>1 DEF FetchGame, Typed
  <2>3. CASE Delete(n)
    BY <1>1, <2>3 DEF Delete, Typed
  <2>4. CASE CacheFails
    BY <1>1, <2>4 DEF CacheFails, Typed, NoFetch
  <2>5. QED
    BY <2>1, <2>2, <2>3, <2>4
<1>3. UNCHANGED <<copier, pusher, backup, late, undone>>
  BY DEF OzoneRewrites, FetchGame, Delete, CacheFails
<1>4. CopyInv'
  BY <1>1, <1>3 DEF CopyInv, AtCentral
<1>5. \A k \in Games :
        /\ \/ cached'[k] = cached[k] /\ newest'[k] = newest[k]
           \/ cached'[k] = None /\ newest'[k] = None
        /\ ozone[k] \in Nat /\ ozone'[k] \in Nat /\ ozone'[k] >= ozone[k]
  <2>1. CASE OzoneRewrites(n)
    BY <1>1, <2>1 DEF OzoneRewrites, Typed
  <2>2. CASE Delete(n)
    BY <1>1, <2>2 DEF Delete, Typed
  <2>3. CASE FetchGame(n) \/ CacheFails
    BY <1>1, <2>3 DEF FetchGame, CacheFails, Typed
  <2>4. QED
    BY <2>1, <2>2, <2>3
<1>7. FetchedInv'
  <2>1. CASE FetchGame(n)
    BY <1>1, <2>1 DEF FetchGame, FetchedInv, NewestInv, Typed
  <2>2. CASE CacheFails
    BY <2>2 DEF CacheFails, FetchedInv
  <2>3. CASE OzoneRewrites(n) \/ Delete(n)
    <3>1. fetched' = fetched
      BY <2>3 DEF OzoneRewrites, Delete
    <3>2. SUFFICES ASSUME fetched # NoFetch
                   PROVE  /\ fetched.game \in Games
                          /\ fetched.version \in Oldest .. ozone'[fetched.game]
                          /\ newest'[fetched.game] <= fetched.version
      BY <3>1 DEF FetchedInv
    <3>3. /\ fetched.game \in Games
          /\ fetched.version \in Oldest .. ozone[fetched.game]
          /\ newest[fetched.game] <= fetched.version
      BY <1>1, <3>2 DEF FetchedInv
    <3>4. ozone[fetched.game] \in Nat /\ ozone'[fetched.game] \in Nat
          /\ ozone'[fetched.game] >= ozone[fetched.game]
      BY <1>5, <3>3
    <3>5. newest'[fetched.game] = newest[fetched.game] \/ newest'[fetched.game] = 0
      BY <1>5, <3>3
    <3>6. QED
      BY <3>3, <3>4, <3>5
  <2>4. QED
    BY <2>1, <2>2, <2>3
<1>8. NewestInv'
  <2>1. \A k \in Games : Copying(k)' <=> Copying(k)
    BY <1>3 DEF Copying
  <2>2. SUFFICES ASSUME NEW k \in Games
                 PROVE  /\ newest'[k] <= ozone'[k]
                        /\ cached'[k] = None => newest'[k] = None
                        /\ Copying(k) => k \in undone \/ newest'[k] = None
    BY <1>3, <2>1 DEF NewestInv, HasRaw
  <2>3. /\ newest[k] <= ozone[k] /\ newest[k] \in Nat
        /\ cached[k] = None => newest[k] = None
        /\ Copying(k) => k \in undone \/ newest[k] = None
    BY <1>1 DEF NewestInv, HasRaw, Typed
  <2>4. QED
    BY <1>5, <2>3
<1>9. NewestKept'
  BY <1>1, <1>3, <1>5 DEF NewestKept, HasRaw
<1>10. QED
  BY <1>2, <1>4, <1>7, <1>8, <1>9

(* cacheGame: what was fetched is the newest, and no copy of it is under    *)
(* way but those noted.                                                     *)
LEMMA CacheStep ==
  ASSUME IInv, CacheGame
  PROVE  Typed' /\ FetchedInv' /\ CopyInv' /\ NewestInv' /\ NewestKept'
<1> USE Numbers
<1>1. Typed /\ FetchedInv /\ CopyInv /\ NewestInv /\ NewestKept
  BY TypedIs DEF IInv
<1> DEFINE n == fetched.game
           v == fetched.version
<1>2. /\ n \in Games /\ v \in Oldest .. ozone[n] /\ newest[n] <= v
      /\ v \in Nat /\ v <= MaxVersion
  <2>1. /\ n \in Games /\ v \in Oldest .. ozone[n] /\ newest[n] <= v
    BY <1>1 DEF CacheGame, FetchedInv
  <2>2. ozone[n] \in Oldest .. MaxVersion
    BY <1>1, <2>1 DEF Typed
  <2>3. QED
    BY <2>1, <2>2
<1>3. /\ cached' = [cached EXCEPT ![n] = v]
      /\ newest' = [newest EXCEPT ![n] = v]
      /\ undone' = IF Copying(n) THEN undone \cup {n} ELSE undone \ {n}
      /\ fetched' = NoFetch
      /\ UNCHANGED <<ozone, backup, copier, late>>
  <2>1. newest[n] \in Versions /\ v \in Nat
    BY <1>1, <1>2 DEF Typed
  <2>2. ~ newest[n] > v
    BY <1>2, <2>1
  <2>3. QED
    BY <2>2 DEF CacheGame
<1>4. PICK p \in Pushers : /\ pusher[p].pc = "idle"
                           /\ pusher' = [pusher EXCEPT ![p] = Launched(n, v)]
  BY DEF CacheGame
<1>5. Launched(n, v) \in PusherRec /\ Launched(n, v).version = None
      /\ Launched(n, v).pc = "queued" /\ Launched(n, v).game = n
  BY <1>2 DEF Launched, NoPush, PusherRec, Push
<1> HIDE DEF n, v
<1>6. Typed'
  BY <1>1, <1>2, <1>3, <1>4, <1>5 DEF Typed, NoFetch
<1>8. FetchedInv'
  BY <1>3 DEF FetchedInv
<1>9. CopyInv'
  BY <1>1, <1>2, <1>3, <1>4, <1>5 DEF CopyInv, AtCentral, Typed
<1>10. NewestInv'
  <2>1. \A k \in Games : Copying(k)' <=> Copying(k)
    BY <1>3 DEF Copying
  <2>2. QED
    BY <1>1, <1>2, <1>3, <2>1 DEF NewestInv, HasRaw, Typed
<1>11. NewestKept'
  BY <1>1, <1>2, <1>3 DEF NewestKept, HasRaw, Typed
<1>12. QED
  BY <1>6, <1>8, <1>9, <1>10, <1>11

LEMMA OnlyBeside ==
  ASSUME NEW r \in PusherRec, NEW b \in BOOLEAN
  PROVE  LET s == [r EXCEPT !.beside = b]
         IN  s \in PusherRec /\ s.version = r.version /\ s.pc = r.pc /\ s.game = r.game
BY DEF PusherRec

(* failoverPush: what is sent is what is cached. *)
LEMMA PushStep ==
  ASSUME IInv, NEW p \in Pushers, TakeSlot(p) \/ Arrives(p) \/ PushFails(p) \/ PushTimesOut(p)
  PROVE  Typed' /\ FetchedInv' /\ CopyInv' /\ NewestInv' /\ NewestKept'
<1> USE Numbers
<1>1. Typed /\ FetchedInv /\ CopyInv /\ NewestInv /\ NewestKept
  BY TypedIs DEF IInv
<1>2. UNCHANGED <<ozone, cached, fetched, copier, newest, undone>>
  BY DEF TakeSlot, Arrives, PushFails, PushTimesOut, Gone
<1>3. NoPush \in PusherRec /\ NoPush.pc = "idle" /\ NoPush.version = None
  BY DEF NoPush, PusherRec, Push
<1>4. \A q \in Pushers :
        /\ pusher'[q] \in PusherRec
        /\ pusher'[q].pc = "sending" => pusher'[q].game \in Games /\ pusher'[q].version # None
        /\ pusher'[q].pc = "queued" => pusher'[q].game \in Games
  <2>1. CASE TakeSlot(p)
    <3>1. pusher[p].pc = "queued" /\ pusher[p].game \in Games
      BY <1>1, <2>1 DEF TakeSlot, CopyInv
    <3>2. /\ Carried(p) \in Versions
          /\ HasRaw(pusher[p].game) => Carried(p) # None
      BY <1>1, <3>1 DEF Carried, HasRaw, Typed, PusherRec
    <3>3. CASE ~HasRaw(pusher[p].game)
      <4>1. pusher' = [pusher EXCEPT ![p] = NoPush]
        BY <2>1, <3>3 DEF TakeSlot
      <4>2. QED
        BY <1>1, <1>3, <4>1 DEF Typed, CopyInv
    <3>4. CASE HasRaw(pusher[p].game)
      <4>1. ASSUME NEW q \in Pushers
            PROVE  \/ /\ pusher'[q].pc = "sending" /\ pusher'[q].game = pusher[p].game
                      /\ pusher'[q].version = Carried(p) /\ pusher'[q] \in PusherRec
                   \/ \E b \in BOOLEAN : pusher'[q] = [pusher[q] EXCEPT !.beside = b]
        <5>1. pusher[q] = [pusher[q] EXCEPT !.beside = pusher[q].beside]
              /\ pusher[q].beside \in BOOLEAN
          BY <1>1 DEF Typed, PusherRec
        <5>2. CASE q = p
          BY <2>1, <3>1, <3>2, <3>4, <5>2 DEF TakeSlot, PusherRec
        <5>3. CASE q # p
          <6>1. pusher'[q] = [pusher[q] EXCEPT !.beside = TRUE] \/ pusher'[q] = pusher[q]
            BY <2>1, <3>4, <5>3 DEF TakeSlot
          <6>2. \E b \in BOOLEAN : pusher'[q] = [pusher[q] EXCEPT !.beside = b]
            <7>1. CASE pusher'[q] = pusher[q]
              <8>1. pusher'[q] = [pusher[q] EXCEPT !.beside = pusher[q].beside]
                BY <5>1, <7>1
              <8>2. QED
                BY <5>1, <8>1
            <7>2. CASE pusher'[q] = [pusher[q] EXCEPT !.beside = TRUE]
              <8>1. TRUE \in BOOLEAN
                OBVIOUS
              <8>2. QED
                BY <7>2, <8>1
            <7>3. QED
              BY <6>1, <7>1, <7>2
          <6>3. QED
            BY <6>2
        <5>4. QED
          BY <5>2, <5>3
      <4>2. ASSUME NEW q \in Pushers, NEW b \in BOOLEAN,
                   pusher'[q] = [pusher[q] EXCEPT !.beside = b]
            PROVE  /\ pusher'[q] \in PusherRec
                   /\ pusher'[q].version = pusher[q].version
                   /\ pusher'[q].pc = pusher[q].pc /\ pusher'[q].game = pusher[q].game
        <5>1. pusher[q] \in PusherRec
          BY <1>1 DEF Typed
        <5>2. QED
          BY <4>2, <5>1, OnlyBeside
      <4>3. ASSUME NEW q \in Pushers
            PROVE  /\ pusher'[q] \in PusherRec
                   /\ pusher'[q].pc = "sending"
                        => pusher'[q].game \in Games /\ pusher'[q].version # None
                   /\ pusher'[q].pc = "queued" => pusher'[q].game \in Games
        <5>1. CASE /\ pusher'[q].pc = "sending" /\ pusher'[q].game = pusher[p].game
                   /\ pusher'[q].version = Carried(p) /\ pusher'[q] \in PusherRec
          BY <3>1, <3>2, <3>4, <5>1
        <5>2. CASE \E b \in BOOLEAN : pusher'[q] = [pusher[q] EXCEPT !.beside = b]
          <6>1. /\ pusher'[q] \in PusherRec
                /\ pusher'[q].version = pusher[q].version
                /\ pusher'[q].pc = pusher[q].pc /\ pusher'[q].game = pusher[q].game
            BY <4>2, <5>2
          <6>2. QED
            BY <1>1, <6>1 DEF CopyInv
        <5>3. QED
          BY <4>1, <5>1, <5>2
      <4>4. QED
        BY <4>3
    <3>5. QED
      BY <3>3, <3>4
  <2>2. CASE Arrives(p) \/ Gone(p)
    BY <1>1, <1>3, <2>2 DEF Arrives, Gone, Typed, CopyInv
  <2>3. QED
    BY <2>1, <2>2 DEF PushFails, PushTimesOut
<1>5. \A k \in Games : backup'[k] \in Versions /\ (backup[k] # None => backup'[k] # None)
  <2>1. backup \in [Games -> Versions]
    BY <1>1 DEF Typed
  <2>2. CASE Arrives(p)
    <3>1. /\ pusher[p].version \in Versions /\ pusher[p].version # None
          /\ backup' = [backup EXCEPT ![pusher[p].game] = pusher[p].version]
      BY <1>1, <2>2 DEF Arrives, Typed, CopyInv, PusherRec
    <3>2. QED
      BY <2>1, <3>1
  <2>3. CASE UNCHANGED backup
    BY <2>1, <2>3
  <2>4. QED
    BY <2>2, <2>3 DEF TakeSlot, PushFails, PushTimesOut, Gone
<1>6. Typed'
  <2>1. pusher' \in [Pushers -> PusherRec]
    <3>1. \E f : pusher' = [q \in Pushers |-> f[q]]
      BY <1>1 DEF TakeSlot, Arrives, PushFails, PushTimesOut, Gone, Typed
    <3>2. QED
      BY <1>4, <3>1
  <2>2. backup' \in [Games -> Versions]
    BY <1>1, <1>5 DEF TakeSlot, Arrives, PushFails, PushTimesOut, Gone, Typed
  <2>3. late' \subseteq [game : Games, version : Versions \ {None}]
    <3>1. CASE PushTimesOut(p)
      <4>1. /\ pusher[p].game \in Games /\ pusher[p].version \in Versions
            /\ pusher[p].version # None
        BY <1>1, <3>1 DEF PushTimesOut, Gone, CopyInv, Typed, PusherRec
      <4>2. QED
        BY <1>1, <3>1, <4>1 DEF PushTimesOut, Typed
    <3>2. CASE late' = late
      BY <1>1, <3>2 DEF Typed
    <3>3. QED
      BY <3>1, <3>2 DEF TakeSlot, Arrives, PushFails
  <2>4. QED
    BY <1>1, <1>2, <2>1, <2>2, <2>3 DEF Typed
<1>8. FetchedInv'
  BY <1>1, <1>2 DEF FetchedInv
<1>9. CopyInv'
  <2>1. AtCentral \subseteq AtCentral'
    BY <1>5 DEF AtCentral
  <2>2. QED
    BY <1>1, <1>2, <1>4, <2>1 DEF CopyInv
<1>10. NewestInv' /\ NewestKept'
  BY <1>1, <1>2 DEF NewestInv, NewestKept, HasRaw, Copying
<1>11. QED
  BY <1>6, <1>8, <1>9, <1>10

(* A push given up leaves a version at central, as any does. *)
LEMMA LateStep ==
  ASSUME IInv, NEW x \in late, LateArrives(x)
  PROVE  Typed' /\ FetchedInv' /\ CopyInv' /\ NewestInv' /\ NewestKept'
<1> USE Numbers
<1>1. Typed /\ FetchedInv /\ CopyInv /\ NewestInv /\ NewestKept
  BY TypedIs DEF IInv
<1>2. UNCHANGED <<ozone, cached, fetched, copier, pusher, newest, undone>>
  BY DEF LateArrives
<1>3. x.game \in Games /\ x.version \in Versions /\ x.version # None
  BY <1>1 DEF Typed
<1>4. backup' = [backup EXCEPT ![x.game] = x.version] /\ late' \subseteq late
  BY DEF LateArrives
<1>5. Typed'
  BY <1>1, <1>2, <1>3, <1>4 DEF Typed
<1>6. AtCentral \subseteq AtCentral'
  BY <1>1, <1>3, <1>4 DEF AtCentral, Typed
<1>7. CopyInv'
  BY <1>1, <1>2, <1>6 DEF CopyInv
<1>8. FetchedInv' /\ NewestInv' /\ NewestKept'
  BY <1>1, <1>2 DEF FetchedInv, NewestInv, NewestKept, HasRaw, Copying
<1>9. QED
  BY <1>5, <1>7, <1>8

(* Restoring and collecting: what is copied is accepted, and replaces       *)
(* nothing newer that is not noted.                                         *)
LEMMA ListStep ==
  ASSUME IInv, NEW c \in Copiers, ListBackups(c)
  PROVE  Typed' /\ FetchedInv' /\ CopyInv' /\ NewestInv' /\ NewestKept'
<1> USE Numbers
<1>1. Typed /\ FetchedInv /\ CopyInv /\ NewestInv /\ NewestKept
  BY TypedIs DEF IInv
<1>2. UNCHANGED <<ozone, cached, backup, fetched, pusher, late, newest, undone>>
  BY DEF ListBackups
<1>3. PICK k \in CopierRec :
        /\ copier' = [copier EXCEPT ![c] = k]
        /\ k.todo \subseteq AtCentral /\ k.game = 0
        /\ k.pc \in {"idle", "next"}
  <2>1. PICK todo \in IF c = "collect" THEN ToCollect ELSE ToRestore :
          copier' = [copier EXCEPT ![c] = Rest(todo)]
    BY DEF ListBackups
  <2>2. todo \subseteq AtCentral /\ AtCentral \subseteq Games
    BY <2>1 DEF ToCollect, ToRestore, AtCentral
  <2>3. /\ Rest(todo) \in CopierRec /\ Rest(todo).todo = todo
        /\ Rest(todo).game = 0 /\ Rest(todo).pc \in {"idle", "next"}
    BY <2>2, RestTyped
  <2>4. QED
    BY <2>1, <2>2, <2>3
<1>4. Typed'
  BY <1>1, <1>2, <1>3 DEF Typed
<1>5. CopyInv'
  <2>1. AtCentral' = AtCentral
    BY <1>2 DEF AtCentral
  <2>2. QED
    BY <1>1, <1>2, <1>3, <2>1 DEF CopyInv, Typed
<1>6. NewestInv'
  <2>1. ASSUME NEW n \in Games, Copying(n)' PROVE Copying(n)
    BY <1>1, <1>3, <2>1 DEF Copying, Typed, ListBackups, Copiers
  <2>2. QED
    BY <1>1, <1>2, <2>1 DEF NewestInv, HasRaw
<1>7. QED
  BY <1>1, <1>2, <1>4, <1>5, <1>6 DEF FetchedInv, NewestKept, HasRaw

LEMMA PickStep ==
  ASSUME IInv, NEW c \in Copiers, Pick(c) \/ FetchRaw(c)
  PROVE  Typed' /\ FetchedInv' /\ CopyInv' /\ NewestInv' /\ NewestKept'
<1> USE Numbers
<1>1. Typed /\ FetchedInv /\ CopyInv /\ NewestInv /\ NewestKept
  BY TypedIs DEF IInv
<1>2. UNCHANGED <<ozone, cached, backup, fetched, pusher, late, newest, undone>>
  BY DEF Pick, FetchRaw
<1>3. copier[c] \in CopierRec /\ copier[c].todo \subseteq AtCentral
  BY <1>1 DEF Typed, CopyInv
<1>4. PICK k \in CopierRec :
        /\ copier' = [copier EXCEPT ![c] = k]
        /\ k.todo \subseteq copier[c].todo
        /\ \/ k.game \in {copier[c].game, 0}
           \/ k.game \in copier[c].todo /\ (c = "restore" \/ ~HasRaw(k.game))
        /\ k.pc # "list"
        /\ k.pc \in {"raw", "store"} => k.game \in AtCentral
        /\ k.pc = "store" => k.version # None
  <2>1. CASE Pick(c)
    <3>1. PICK n \in copier[c].todo :
            copier' = [copier EXCEPT ![c] =
              IF Wanted(c, n) THEN Copy("raw", copier[c].todo \ {n}, n, None)
              ELSE Rest(copier[c].todo \ {n})]
      BY <2>1 DEF Pick
    <3>2. n \in AtCentral /\ n \in Games /\ copier[c].todo \ {n} \in SUBSET Games
      BY <1>3, <3>1 DEF AtCentral
    <3>3. CASE Wanted(c, n)
      <4> DEFINE k == Copy("raw", copier[c].todo \ {n}, n, None)
      <4>1. /\ k \in CopierRec /\ k.pc = "raw" /\ k.todo = copier[c].todo \ {n}
            /\ k.game = n
        BY <3>2, CopyTyped
      <4>2. copier' = [copier EXCEPT ![c] = k]
        BY <3>1, <3>3
      <4>3. c = "restore" \/ ~HasRaw(n)
        BY <3>3 DEF Wanted
      <4> HIDE DEF k
      <4>4. QED
        BY <3>1, <3>2, <4>1, <4>2, <4>3
    <3>4. CASE ~Wanted(c, n)
      <4> DEFINE k == Rest(copier[c].todo \ {n})
      <4>1. /\ k \in CopierRec /\ k.todo = copier[c].todo \ {n}
            /\ k.game = 0 /\ k.pc \in {"idle", "next"}
        BY <3>2, RestTyped
      <4>2. copier' = [copier EXCEPT ![c] = k]
        BY <3>1, <3>4
      <4> HIDE DEF k
      <4>3. QED
        BY <4>1, <4>2
    <3>5. QED
      BY <3>3, <3>4
  <2>2. CASE FetchRaw(c)
    <3>1. copier[c].game \in AtCentral /\ copier[c].todo \in SUBSET Games
      BY <1>1, <1>3, <2>2 DEF FetchRaw, CopyInv, AtCentral
    <3>2. backup[copier[c].game] \in Versions /\ backup[copier[c].game] # None
          /\ copier[c].game \in Games
      BY <1>1, <3>1 DEF AtCentral, Typed
    <3>3. CASE copier' = [copier EXCEPT ![c] = Copy("store", copier[c].todo, copier[c].game,
                                                    backup[copier[c].game])]
      <4> DEFINE todo == copier[c].todo
                 n == copier[c].game
                 v == backup[n]
                 k == Copy("store", todo, n, v)
      <4>1. copier' = [copier EXCEPT ![c] = k]
        BY <3>3
      <4>2. /\ n \in AtCentral /\ n \in Games /\ todo \in SUBSET Games
            /\ v \in Versions /\ v # None
        BY <3>1, <3>2
      <4> HIDE DEF todo, n, v
      <4>3. k \in CopierRec
        BY <4>2 DEF Copy, CopierRec
      <4>4. k.pc = "store" /\ k.todo = todo /\ k.game = n /\ k.version = v
        BY DEF Copy
      <4>5. k.todo \subseteq copier[c].todo /\ k.game = copier[c].game
        BY <4>4 DEF todo, n
      <4> HIDE DEF k
      <4>6. QED
        BY <4>1, <4>2, <4>3, <4>4, <4>5
    <3>4. CASE copier' = [copier EXCEPT ![c] = Rest(copier[c].todo)]
      <4> DEFINE k == Rest(copier[c].todo)
      <4>1. /\ k \in CopierRec /\ k.todo = copier[c].todo
            /\ k.game = 0 /\ k.pc \in {"idle", "next"}
        BY <3>1, RestTyped
      <4>2. copier' = [copier EXCEPT ![c] = k]
        BY <3>4
      <4> HIDE DEF k
      <4>3. QED
        BY <4>1, <4>2
    <3>5. QED
      BY <2>2, <3>3, <3>4 DEF FetchRaw
  <2>3. QED
    BY <2>1, <2>2
<1>5. Typed'
  BY <1>1, <1>2, <1>4 DEF Typed
<1>6. CopyInv'
  <2>1. AtCentral' = AtCentral
    BY <1>2 DEF AtCentral
  <2>2. QED
    BY <1>1, <1>2, <1>3, <1>4, <2>1 DEF CopyInv, Typed
<1>7. NewestInv'
  <2>1. ASSUME NEW n \in Games, Copying(n)' PROVE Copying(n) \/ ~HasRaw(n)
    BY <1>1, <1>4, <2>1 DEF Copying, Typed, Copiers
  <2>2. QED
    BY <1>1, <1>2, <2>1 DEF NewestInv, HasRaw
<1>8. QED
  BY <1>1, <1>2, <1>5, <1>6, <1>7 DEF FetchedInv, NewestKept, HasRaw

LEMMA StartStep ==
  ASSUME IInv, StartCollect
  PROVE  Typed' /\ FetchedInv' /\ CopyInv' /\ NewestInv' /\ NewestKept'
<1> USE Numbers
<1>1. Typed /\ FetchedInv /\ CopyInv /\ NewestInv /\ NewestKept
  BY TypedIs DEF IInv
<1>2. UNCHANGED <<ozone, cached, backup, fetched, pusher, late, newest, undone>>
  BY DEF StartCollect
<1>3. copier' = [copier EXCEPT !["collect"] = [copier["collect"] EXCEPT !.pc = "list"]]
  BY DEF StartCollect
<1>4. copier["collect"] \in CopierRec
  BY <1>1 DEF Typed, Copiers
<1>5. [copier["collect"] EXCEPT !.pc = "list"] \in CopierRec
  BY <1>4 DEF CopierRec
<1>6. Typed'
  BY <1>1, <1>2, <1>3, <1>5 DEF Typed, Copiers
<1>7. CopyInv'
  BY <1>1, <1>2, <1>3 DEF CopyInv, AtCentral, Typed, Copiers, CopierRec
<1>8. NewestInv'
  <2>1. ASSUME NEW n \in Games, Copying(n)' PROVE Copying(n)
    BY <1>1, <1>3, <2>1 DEF Copying, Typed, Copiers, CopierRec
  <2>2. QED
    BY <1>1, <1>2, <2>1 DEF NewestInv, HasRaw
<1>9. QED
  BY <1>1, <1>2, <1>6, <1>7, <1>8 DEF FetchedInv, NewestKept, HasRaw

LEMMA StoreStep ==
  ASSUME IInv, NEW c \in Copiers, CopyOver(c), StoreCopy(c)
  PROVE  Typed' /\ FetchedInv' /\ CopyInv' /\ NewestInv' /\ NewestKept'
<1> USE Numbers
<1>1. Typed /\ FetchedInv /\ CopyInv /\ NewestInv /\ NewestKept
  BY TypedIs DEF IInv
<1>2. UNCHANGED <<ozone, backup, fetched, late, newest, undone>>
  BY DEF CopyOver
<1> DEFINE k == Rest(copier[c].todo)
           n == copier[c].game
           v == copier[c].version
<1>3. copier[c].todo \in SUBSET Games /\ copier[c].todo \subseteq AtCentral
  BY <1>1 DEF Typed, CopierRec, CopyInv
<1>4. /\ k \in CopierRec /\ k.todo = copier[c].todo
      /\ k.game = 0 /\ k.pc \in {"idle", "next"}
  BY <1>3, RestTyped
<1>5. copier' = [copier EXCEPT ![c] = k]
  BY DEF CopyOver
<1>6. n \in Games /\ v \in Versions /\ v # None
  BY <1>1 DEF CopyOver, CopyInv, AtCentral, Typed, CopierRec
<1>7. /\ \/ cached' = cached
         \/ cached' = [cached EXCEPT ![n] = v]
      /\ \A q \in Pushers :
           \/ pusher'[q] = pusher[q]
           \/ pusher'[q] = [pusher[q] EXCEPT !.beside = TRUE]
  BY <1>1 DEF StoreCopy, Typed
<1>8. pusher' \in [Pushers -> PusherRec] /\ \A q \in Pushers :
        /\ pusher'[q].version = pusher[q].version
        /\ pusher'[q].pc = pusher[q].pc /\ pusher'[q].game = pusher[q].game
  <2>1. ASSUME NEW q \in Pushers
        PROVE  /\ pusher'[q] \in PusherRec
               /\ pusher'[q].version = pusher[q].version
               /\ pusher'[q].pc = pusher[q].pc /\ pusher'[q].game = pusher[q].game
    <3>1. pusher[q] \in PusherRec
      BY <1>1 DEF Typed
    <3>2. CASE pusher'[q] = pusher[q]
      BY <3>1, <3>2
    <3>3. CASE pusher'[q] = [pusher[q] EXCEPT !.beside = TRUE]
      <4>1. TRUE \in BOOLEAN
        OBVIOUS
      <4>2. QED
        BY <3>1, <3>3, <4>1, OnlyBeside
    <3>4. QED
      BY <1>7, <3>2, <3>3
  <2>2. \E f : pusher' = [q \in Pushers |-> f[q]]
    <3>1. pusher = [q \in Pushers |-> pusher[q]]
      BY <1>1 DEF Typed
    <3>2. QED
      BY <3>1 DEF StoreCopy
  <2>3. QED
    BY <2>1, <2>2
<1> HIDE DEF k, n, v
<1>9. Typed'
  <2>1. copier' \in [Copiers -> CopierRec]
    BY <1>1, <1>4, <1>5 DEF Typed
  <2>2. cached' \in [Games -> Versions]
    <3>1. cached \in [Games -> Versions]
      BY <1>1 DEF Typed
    <3>2. QED
      BY <3>1, <1>6, <1>7
  <2>3. QED
    BY <1>1, <1>2, <1>8, <2>1, <2>2 DEF Typed
<1>11. CopyInv'
  <2>1. AtCentral' = AtCentral
    BY <1>2 DEF AtCentral
  <2>2. QED
    BY <1>1, <1>3, <1>4, <1>5, <1>8, <2>1 DEF CopyInv, Typed
<1>12. Copying(n) /\ \A j \in Games : Copying(j)' => Copying(j)
  <2>1. Copying(n)
    BY <1>1 DEF Copying, n, Typed
  <2>2. QED
    BY <1>1, <1>4, <1>5, <2>1 DEF Copying, Typed, Copiers
<1>13. NewestInv'
  <2>1. \A j \in Games : HasRaw(j) => HasRaw(j)'
    BY <1>1, <1>6, <1>7 DEF HasRaw, Typed
  <2>2. QED
    BY <1>1, <1>2, <1>12, <2>1 DEF NewestInv
<1>14. NewestKept'
  <2>1. n \in undone \/ newest[n] = None
    BY <1>1, <1>6, <1>12 DEF NewestInv
  <2>2. QED
    <3>1. /\ cached \in [Games -> Versions] /\ newest \in [Games -> Versions]
          /\ \A j \in Games \ undone : cached[j] # None => cached[j] >= newest[j]
      BY <1>1 DEF Typed, NewestKept, HasRaw
    <3>2. \A j \in Games \ {n} : cached'[j] = cached[j]
      BY <1>7, <3>1
    <3>3. n \notin undone /\ cached'[n] # None => cached'[n] >= newest[n]
      <4>1. CASE cached' = cached
        BY <1>6, <3>1, <4>1
      <4>2. CASE cached' = [cached EXCEPT ![n] = v]
        BY <1>6, <2>1, <3>1, <4>2
      <4>3. QED
        BY <1>7, <4>1, <4>2
    <3>4. QED
      BY <1>2, <3>1, <3>2, <3>3 DEF NewestKept, HasRaw
<1>15. QED
  BY <1>1, <1>2, <1>9, <1>11, <1>13, <1>14 DEF FetchedInv
-----------------------------------------------------------------------------
(* Every fetch, push, restore and collect keeps the invariant. *)
THEOREM Inductive == Spec => []IInv
<1>1. IInv /\ [Step]_vars => IInv'
  <2> SUFFICES ASSUME IInv, [Step]_vars PROVE IInv'
    OBVIOUS
  <2>1. Typed' /\ FetchedInv' /\ CopyInv' /\ NewestInv' /\ NewestKept'
    <3>1. CASE UNCHANGED vars
      <4>1. Typed /\ FetchedInv /\ CopyInv /\ NewestInv /\ NewestKept
        BY TypedIs DEF IInv
      <4>2. QED
        BY <3>1, <4>1 DEF vars, Typed, FetchedInv, CopyInv, NewestInv, NewestKept,
                          AtCentral, HasRaw, Copying
    <3>2. ASSUME NEW n \in Games, OzoneRewrites(n) \/ FetchGame(n) \/ Delete(n)
          PROVE  Typed' /\ FetchedInv' /\ CopyInv' /\ NewestInv' /\ NewestKept'
      BY <3>2, FetchStep
    <3>3. CASE CacheFails
      <4>1. \E n \in Games : TRUE
        BY <3>3, TypedIs DEF CacheFails, IInv, FetchedInv
      <4>2. QED
        BY <3>3, <4>1, FetchStep
    <3>4. CASE CacheGame
      BY <3>4, CacheStep
    <3>5. ASSUME NEW p \in Pushers,
                 TakeSlot(p) \/ Arrives(p) \/ PushFails(p) \/ PushTimesOut(p)
          PROVE  Typed' /\ FetchedInv' /\ CopyInv' /\ NewestInv' /\ NewestKept'
      BY <3>5, PushStep
    <3>6. CASE StartCollect
      BY <3>6, StartStep
    <3>7. ASSUME NEW c \in Copiers, Copies(c)
          PROVE  Typed' /\ FetchedInv' /\ CopyInv' /\ NewestInv' /\ NewestKept'
      BY <3>7, ListStep, PickStep DEF Copies
    <3>8. CASE Restored \/ Collected
      BY <3>8, StoreStep DEF Restored, Collected, Copiers
    <3>9. ASSUME NEW x \in late, LateArrives(x)
          PROVE  Typed' /\ FetchedInv' /\ CopyInv' /\ NewestInv' /\ NewestKept'
      BY <3>9, LateStep
    <3>10. DOMAIN copier = Copiers
      BY TypedIs DEF IInv, Typed
    <3>11. QED
      BY <3>1, <3>2, <3>3, <3>4, <3>5, <3>6, <3>7, <3>8, <3>9, <3>10 DEF Step
  <2>2. IsFiniteSet(Sending') /\ Cardinality(Sending') <= Slots
    BY SlotStep
  <2>3. TypeOK'
    BY <2>1, <2>2 DEF TypeOK, Typed, Copiers, CopierRec, PusherRec
  <2>4. IsFiniteSet(Sending)'
    BY <2>2
  <2>5. QED
    BY <2>1, <2>3, <2>4 DEF IInv
<1>2. QED
  BY <1>1, InitHolds, PTL DEF Spec

(* Nothing is out of its bounds, and no more than maxFailoverPushes are     *)
(* sending at once.                                                         *)
THEOREM TypeCorrect == Spec => []TypeOK
<1>1. IInv => TypeOK
  BY DEF IInv
<1>2. QED
  BY <1>1, Inductive, PTL

(* Restoring and collecting put nothing older, nor another game's payload   *)
(* that names none, in the place of what was fetched, unless the fetch came *)
(* while the copy was under way.                                            *)
THEOREM NewestStays == Spec => []NewestKept
<1>1. IInv => NewestKept
  BY DEF IInv
<1>2. QED
  BY <1>1, Inductive, PTL
-----------------------------------------------------------------------------
(***************************************************************************)
(* The copy at central.                                                    *)
(***************************************************************************)

(* A push that waits carries nothing; one that is sent alone is of what is  *)
(* cached, until something newer is, whose push waits.                      *)
UpToDate(p) ==
  /\ pusher[p].pc = "queued" => pusher[p].version = None
  /\ pusher[p].pc = "sending" /\ ~pusher[p].beside =>
       \/ pusher[p].version >= cached[pusher[p].game]
       \/ \E q \in Pushers \ {p} : pusher[q].pc = "queued" /\ pusher[q].game = pusher[p].game

AllUpToDate == \A p \in Pushers : UpToDate(p)

(* What leaves a push, the cache, and the pushes that wait alone. *)
LEMMA StillUpToDate ==
  ASSUME NEW p \in Pushers, UpToDate(p), pusher'[p] = pusher[p],
         pusher[p].pc = "sending" => cached'[pusher[p].game] = cached[pusher[p].game],
         \A q \in Pushers \ {p} : pusher[q].pc = "queued" => pusher'[q] = pusher[q]
  PROVE  UpToDate(p)'
<1>1. CASE pusher[p].pc = "sending" /\ ~pusher[p].beside
  <2>1. CASE pusher[p].version >= cached[pusher[p].game]
    BY <1>1, <2>1 DEF UpToDate
  <2>2. CASE \E q \in Pushers \ {p} : pusher[q].pc = "queued" /\ pusher[q].game = pusher[p].game
    BY <1>1, <2>2 DEF UpToDate
  <2>3. QED
    BY <1>1, <2>1, <2>2 DEF UpToDate
<1>2. CASE ~(pusher[p].pc = "sending" /\ ~pusher[p].beside)
  BY <1>2 DEF UpToDate
<1>3. QED
  BY <1>1, <1>2

(* What is fetched is pushed after it is cached. *)
LEMMA CacheUpToDate == ASSUME IInv, AllUpToDate, CacheGame PROVE AllUpToDate'
<1> USE Numbers
<1>1. Typed
  BY TypedIs DEF IInv
<1> DEFINE n == fetched.game
           v == fetched.version
<1>2. n \in Games /\ cached' = [cached EXCEPT ![n] = v]
  BY DEF CacheGame, IInv, FetchedInv
<1>3. PICK p \in Pushers : /\ pusher[p].pc = "idle"
                           /\ pusher' = [pusher EXCEPT ![p] = Launched(n, v)]
  BY DEF CacheGame
<1>4. Launched(n, v).version = None /\ Launched(n, v).pc = "queued" /\ Launched(n, v).game = n
  BY DEF Launched, Push
<1> HIDE DEF n, v
<1>5. /\ pusher'[p].pc = "queued" /\ pusher'[p].game = n /\ pusher'[p].version = None
      /\ \A q \in Pushers \ {p} : pusher'[q] = pusher[q]
  BY <1>1, <1>3, <1>4 DEF Typed
<1>6. ASSUME NEW q \in Pushers \ {p} PROVE UpToDate(q)'
  <2>1. CASE pusher[q].pc = "sending" /\ pusher[q].game = n
    BY <1>5, <2>1 DEF UpToDate
  <2>2. CASE ~(pusher[q].pc = "sending" /\ pusher[q].game = n)
    <3>1. UpToDate(q) /\ pusher'[q] = pusher[q]
      BY <1>5 DEF AllUpToDate
    <3>2. pusher[q].pc = "sending" => cached'[pusher[q].game] = cached[pusher[q].game]
      BY <1>1, <1>2, <2>2 DEF IInv, CopyInv, Typed
    <3>3. \A r \in Pushers \ {q} : pusher[r].pc = "queued" => pusher'[r] = pusher[r]
      BY <1>3, <1>5
    <3>4. QED
      BY <3>1, <3>2, <3>3, StillUpToDate
  <2>3. QED
    BY <2>1, <2>2
<1>7. UpToDate(p)'
  BY <1>5 DEF UpToDate
<1>8. QED
  BY <1>6, <1>7 DEF AllUpToDate

(* A push takes what is cached when its turn comes, and tells the others    *)
(* of its game.                                                             *)
LEMMA SlotUpToDate == ASSUME IInv, AllUpToDate, NEW p \in Pushers, TakeSlot(p) PROVE AllUpToDate'
<1> USE Numbers
<1>1. Typed /\ cached' = cached
  BY TypedIs DEF IInv, TakeSlot
<1>2. /\ pusher[p].pc = "queued" /\ pusher[p].game \in Games /\ pusher[p].version = None
  BY DEF TakeSlot, IInv, CopyInv, AllUpToDate, UpToDate
<1> DEFINE n == pusher[p].game
<1>3. CASE ~HasRaw(n)
  <2>1. /\ cached[n] = None /\ pusher'[p] = NoPush
        /\ \A q \in Pushers \ {p} : pusher'[q] = pusher[q]
    BY <1>1, <1>3 DEF TakeSlot, HasRaw, Typed
  <2>2. ASSUME NEW q \in Pushers \ {p} PROVE UpToDate(q)'
    <3>1. CASE pusher[q].pc = "sending" /\ pusher[q].game = n
      <4>1. pusher[q].version \in Nat
        BY <1>1 DEF Typed, PusherRec
      <4>2. QED
        BY <1>1, <2>1, <3>1, <4>1 DEF UpToDate
    <3>2. CASE ~(pusher[q].pc = "sending" /\ pusher[q].game = n)
      BY <1>1, <2>1, <3>2 DEF AllUpToDate, UpToDate
    <3>3. QED
      BY <3>1, <3>2
  <2>3. UpToDate(p)'
    BY <2>1 DEF UpToDate, NoPush, Push
  <2>4. QED
    BY <2>2, <2>3 DEF AllUpToDate
<1>4. CASE HasRaw(n)
  <2>1. /\ pusher'[p].pc = "sending" /\ pusher'[p].version = cached[n] /\ pusher'[p].game = n
        /\ \A q \in Pushers \ {p} :
             pusher'[q] = IF q \in Sending /\ pusher[q].game = n
                          THEN [pusher[q] EXCEPT !.beside = TRUE] ELSE pusher[q]
    <3>1. Carried(p) = cached[n]
      BY <1>2 DEF Carried
    <3>2. pusher'[p] = [pc |-> "sending", game |-> n, version |-> Carried(p),
                        beside |-> {q \in Sending : pusher[q].game = n} # {}]
      BY <1>4 DEF TakeSlot
    <3>3. \A q \in Pushers \ {p} :
            pusher'[q] = IF q \in {s \in Sending : pusher[s].game = n}
                         THEN [pusher[q] EXCEPT !.beside = TRUE] ELSE pusher[q]
      BY <1>4 DEF TakeSlot
    <3>4. QED
      BY <3>1, <3>2, <3>3
  <2>2. cached[n] \in Nat
    <3>1. cached[n] \in 0 .. MaxVersion + 1
      BY <1>1, <1>2 DEF Typed
    <3>2. QED
      BY <3>1
  <2>3. UpToDate(p)'
    <3>1. cached'[pusher'[p].game] = cached[n] /\ cached[n] >= cached[n]
      BY <1>1, <2>1, <2>2
    <3>2. QED
      BY <2>1, <3>1 DEF UpToDate
  <2>4. ASSUME NEW q \in Pushers \ {p} PROVE UpToDate(q)'
    <3>1. CASE q \in Sending /\ pusher[q].game = n
      <4>1. pusher'[q] = [pusher[q] EXCEPT !.beside = TRUE] /\ pusher[q].pc = "sending"
        BY <2>1, <3>1 DEF Sending
      <4>2. pusher[q] \in PusherRec
        BY <1>1 DEF Typed
      <4>3. pusher'[q].beside = TRUE /\ pusher'[q].pc = "sending"
        BY <4>1, <4>2 DEF PusherRec
      <4>4. QED
        BY <4>3 DEF UpToDate
    <3>2. CASE ~(q \in Sending /\ pusher[q].game = n)
      <4>1. pusher'[q] = pusher[q] /\ UpToDate(q)
        BY <2>1, <3>2 DEF AllUpToDate
      <4>2. pusher[q].pc = "sending" => pusher[q].game # n
        BY <3>2 DEF Sending
      <4>3. ASSUME NEW r \in Pushers \ {q}, pusher[r].pc = "queued", pusher[r].game = pusher[q].game,
                   pusher[q].pc = "sending"
            PROVE  pusher'[r].pc = "queued" /\ pusher'[r].game = pusher[q].game
        <5>1. r # p /\ r \notin Sending
          BY <4>2, <4>3 DEF Sending
        <5>2. QED
          BY <2>1, <4>3, <5>1
      <4>4. QED
        BY <1>1, <4>1, <4>3 DEF UpToDate
    <3>3. QED
      BY <3>1, <3>2
  <2>5. QED
    BY <2>3, <2>4 DEF AllUpToDate
<1>5. QED
  BY <1>3, <1>4

(* A push that has ended leaves those that wait, and a copy that is cached  *)
(* is noted by the pushes under way.                                        *)
LEMMA OthersUpToDate ==
  ASSUME IInv, AllUpToDate, [Step]_vars, ~CacheGame, \A p \in Pushers : ~TakeSlot(p)
  PROVE  AllUpToDate'
<1> USE Numbers
<1>1. Typed
  BY TypedIs DEF IInv
<1>2. CASE UNCHANGED <<pusher, cached>>
  BY <1>2 DEF AllUpToDate, UpToDate
<1>3. ASSUME NEW p \in Pushers, Arrives(p) \/ Gone(p) PROVE AllUpToDate'
  <2>1. /\ cached' = cached /\ pusher[p].pc = "sending" /\ pusher'[p] = NoPush
        /\ \A q \in Pushers \ {p} : pusher'[q] = pusher[q]
    BY <1>1, <1>3 DEF Arrives, Gone, Typed
  <2>2. ASSUME NEW q \in Pushers \ {p} PROVE UpToDate(q)'
    BY <2>1, StillUpToDate DEF AllUpToDate
  <2>3. UpToDate(p)'
    BY <2>1 DEF UpToDate, NoPush, Push
  <2>4. QED
    BY <2>2, <2>3 DEF AllUpToDate
<1>4. ASSUME NEW n \in Games, Delete(n) PROVE AllUpToDate'
  <2>1. pusher' = pusher /\ cached' = [cached EXCEPT ![n] = None]
    BY <1>4 DEF Delete
  <2>2. ASSUME NEW q \in Pushers PROVE UpToDate(q)'
    <3>1. CASE pusher[q].pc = "sending" /\ pusher[q].game = n
      <4>1. pusher[q].version \in Nat /\ cached'[n] = 0
        BY <1>1, <2>1 DEF Typed, PusherRec
      <4>2. QED
        BY <2>1, <3>1, <4>1 DEF UpToDate
    <3>2. CASE ~(pusher[q].pc = "sending" /\ pusher[q].game = n)
      <4>1. pusher[q].pc = "sending" => cached'[pusher[q].game] = cached[pusher[q].game]
        BY <1>1, <2>1, <3>2 DEF IInv, CopyInv, Typed
      <4>2. QED
        BY <2>1, <4>1, StillUpToDate DEF AllUpToDate
    <3>3. QED
      BY <3>1, <3>2
  <2>3. QED
    BY <2>2 DEF AllUpToDate
<1>5. ASSUME NEW c \in Copiers, CopyOver(c), StoreCopy(c), ~UNCHANGED <<pusher, cached>>
      PROVE  AllUpToDate'
  <2> DEFINE n == copier[c].game
  <2>1. /\ cached' = [cached EXCEPT ![n] = copier[c].version]
        /\ \A q \in Pushers : pusher'[q] = IF q \in Sending /\ pusher[q].game = n
                                           THEN [pusher[q] EXCEPT !.beside = TRUE] ELSE pusher[q]
    BY <1>5 DEF StoreCopy
  <2>2. ASSUME NEW q \in Pushers PROVE UpToDate(q)'
    <3>1. CASE q \in Sending /\ pusher[q].game = n
      <4>1. pusher'[q] = [pusher[q] EXCEPT !.beside = TRUE] /\ pusher[q].pc = "sending"
        BY <2>1, <3>1 DEF Sending
      <4>2. pusher[q] \in PusherRec
        BY <1>1 DEF Typed
      <4>3. pusher'[q].beside = TRUE /\ pusher'[q].pc = "sending"
        BY <4>1, <4>2 DEF PusherRec
      <4>4. QED
        BY <4>3 DEF UpToDate
    <3>2. CASE ~(q \in Sending /\ pusher[q].game = n)
      <4>1. pusher'[q] = pusher[q]
        BY <2>1, <3>2
      <4>2. pusher[q].pc = "sending" => cached'[pusher[q].game] = cached[pusher[q].game]
        BY <1>1, <2>1, <3>2 DEF IInv, CopyInv, Typed, Sending
      <4>3. \A r \in Pushers \ {q} : pusher[r].pc = "queued" => pusher'[r] = pusher[r]
        BY <2>1 DEF Sending
      <4>4. QED
        BY <4>1, <4>2, <4>3, StillUpToDate DEF AllUpToDate
    <3>3. QED
      BY <3>1, <3>2
  <2>3. QED
    BY <2>2 DEF AllUpToDate
<1>6. QED
  BY <1>2, <1>3, <1>4, <1>5 DEF Step, vars, OzoneRewrites, FetchGame, CacheFails, PushFails, PushTimesOut,
                                LateArrives, StartCollect, Copies, ListBackups, Pick, FetchRaw,
                                Restored, Collected, Copiers

(* A push that is answered leaves central no older than the cache, or       *)
(* another of the game is on its way, but where pushes of one game were     *)
(* under way together or beside a copy (failoverPush reads the store in its *)
(* slot).                                                                   *)
THEOREM CentralKeepsUp == Spec => BackupKeepsUp
<1>1. Init => AllUpToDate
  BY DEF Init, AllUpToDate, UpToDate, NoPush, Push
<1>2. IInv /\ AllUpToDate /\ [Step]_vars => AllUpToDate'
  BY CacheUpToDate, SlotUpToDate, OthersUpToDate
<1>3. Spec => []AllUpToDate
  BY <1>1, <1>2, Inductive, PTL DEF Spec
<1>4. ASSUME IInv, AllUpToDate, NEW p \in Pushers, Arrives(p)
      PROVE  LET n == pusher[p].game
             IN  \/ backup'[n] >= cached[n] \/ pusher[p].beside
                 \/ \E q \in Pushers \ {p} : pusher[q].pc # "idle" /\ pusher[q].game = n
  <2>1. pusher[p].pc = "sending" /\ backup'[pusher[p].game] = pusher[p].version
    BY <1>4, TypedIs DEF Arrives, IInv, CopyInv, Typed
  <2>2. \/ pusher[p].beside \/ pusher[p].version >= cached[pusher[p].game]
        \/ \E q \in Pushers \ {p} : pusher[q].pc = "queued" /\ pusher[q].game = pusher[p].game
    BY <1>4, <2>1 DEF AllUpToDate, UpToDate
  <2>3. QED
    BY <2>1, <2>2
<1>5. IInv /\ AllUpToDate =>
        [\A p \in Pushers : Arrives(p) =>
           LET n == pusher[p].game
           IN  \/ backup'[n] >= cached[n] \/ pusher[p].beside
               \/ \E q \in Pushers \ {p} : pusher[q].pc # "idle" /\ pusher[q].game = n]_vars
  BY <1>4
<1>6. QED
  BY <1>3, <1>5, Inductive, PTL DEF BackupKeepsUp
=============================================================================
