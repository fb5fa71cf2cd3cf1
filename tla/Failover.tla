------------------------------ MODULE Failover ------------------------------
(***************************************************************************)
(* Where a cached payload comes from and goes to (internal/app/app.go): it *)
(* is fetched from O-Zone and cached, and a copy is pushed to central      *)
(* (cacheGame, failoverPush); from central it is restored into the empty   *)
(* cache of a rebuilt agent (restoreFromCentral), or collected when an     *)
(* operator asks (Collect), beside the fetching and the pruning.           *)
(*                                                                         *)
(* A payload is known by its version: O-Zone's changes while it is still   *)
(* writing the game, or when a game is played again under its number.      *)
(* Central may have another game's, misfiled by an agent in the past.      *)
(***************************************************************************)
EXTENDS Naturals, FiniteSets

CONSTANTS
  Games,       \* game numbers
  MaxVersion,  \* bound: versions of a game
  Pushers,     \* bound: goroutines running failoverPush
  Slots        \* maxFailoverPushes

ASSUME FailoverAssumption ==
  /\ Games \subseteq Nat \ {0} /\ MaxVersion \in Nat \ {0, 1} /\ Slots \in Nat \ {0}

None == 0

(* Another game's payload, which names no game, counts as older than the    *)
(* versions of the game itself; one that names the other game is foreign.   *)
Nameless == 1
Oldest == 2
Foreign == MaxVersion + 1

VARIABLES
  ozone,     \* the version O-Zone has of each game
  cached,    \* the version in the cache
  backup,    \* the version central has
  fetched,   \* what the session has read and not yet cached: [game, version]
  copier,    \* restoreFromCentral and Collect: where each is
  pusher,    \* each failoverPush: where it is
  late,      \* pushes given up that central has yet to store: [game, version]
  newest,    \* history: the newest version fetched and cached, until deleted
  undone     \* history: games fetched while a copy of them was under way

vars == <<ozone, cached, backup, fetched, copier, pusher, late, newest, undone>>

NoFetch   == [game |-> 0, version |-> None]

Copy(pc, todo, n, v) == [pc |-> pc, todo |-> todo, game |-> n, version |-> v]
NoCopy == Copy("idle", {}, 0, None)

Push(pc, n, v) == [pc |-> pc, game |-> n, version |-> v, beside |-> FALSE]
NoPush == Push("idle", 0, None)

(* A rebuilt agent, whose cache is empty, restores it: Run starts that once. *)
Init ==
  /\ ozone = [n \in Games |-> Oldest]
  /\ cached = [n \in Games |-> None]
  /\ backup \in [Games -> {None, Nameless, Oldest, Foreign}]
  /\ fetched = NoFetch
  /\ copier = [c \in {"restore", "collect"} |->
                 IF c = "restore" THEN Copy("list", {}, 0, None) ELSE NoCopy]
  /\ pusher = [p \in Pushers |-> NoPush] /\ late = {}
  /\ newest = [n \in Games |-> None] /\ undone = {}

HasRaw(n) == cached[n] # None
-----------------------------------------------------------------------------
OzoneRewrites(n) ==
  /\ ozone[n] < MaxVersion
  /\ ozone' = [ozone EXCEPT ![n] = @ + 1]
  /\ UNCHANGED <<cached, backup, fetched, copier, pusher, late, newest, undone>>

(* resultsSession.game, by whoever holds resultsMu: the game's own payload  *)
(* (what else a reply can be is ResultsSession's).                          *)
FetchGame(n) ==
  /\ fetched = NoFetch
  /\ fetched' = [game |-> n, version |-> ozone[n]]
  /\ UNCHANGED <<ozone, cached, backup, copier, pusher, late, newest, undone>>

(* A copy of n is under way, or will be. *)
Copying(n) ==
  \E c \in DOMAIN copier :
    \/ copier[c].game = n
    \/ c = "restore" /\ (copier[c].pc = "list" \/ n \in copier[c].todo)

(* Mutant of Launched: the payload to push is carried in. *)
LaunchedWith(n, v) == Push("queued", n, v)

Launched(n, v) == Push("queued", n, None)

(* cacheGame: StoreGame, and a push in a goroutine of its own. *)
CacheGame ==
  /\ fetched # NoFetch
  /\ LET n == fetched.game
     IN  /\ cached' = [cached EXCEPT ![n] = fetched.version]
         /\ newest' = [newest EXCEPT ![n] = IF @ > fetched.version THEN @ ELSE fetched.version]
         /\ undone' = IF Copying(n) THEN undone \cup {n} ELSE undone \ {n}
         /\ \E p \in Pushers :
              /\ pusher[p].pc = "idle"
              /\ pusher' = [pusher EXCEPT ![p] = Launched(n, fetched.version)]
  /\ fetched' = NoFetch
  /\ UNCHANGED <<ozone, backup, copier, late>>

(* StoreGame fails: nothing is cached, and nothing pushed. *)
CacheFails ==
  /\ fetched # NoFetch
  /\ fetched' = NoFetch
  /\ UNCHANGED <<ozone, cached, backup, copier, pusher, late, newest, undone>>

(* Prune, PurgeAll. *)
Delete(n) ==
  /\ HasRaw(n)
  /\ cached' = [cached EXCEPT ![n] = None]
  /\ newest' = [newest EXCEPT ![n] = None]
  /\ UNCHANGED <<ozone, backup, fetched, copier, pusher, late, undone>>
-----------------------------------------------------------------------------
(***************************************************************************)
(* failoverPush.                                                           *)
(***************************************************************************)
Sending == {p \in Pushers : pusher[p].pc = "sending"}

(* What p pushes: read from the store now, unless p carries it already. *)
Carried(p) == IF pusher[p].version # None THEN pusher[p].version ELSE cached[pusher[p].game]

(* Mutant of FreeSlot: one push too many. *)
FreeSlotLate == Cardinality(Sending) <= Slots

FreeSlot == Cardinality(Sending) < Slots

(* A slot is free: what the cache holds now is read and sent.  Pushes of    *)
(* one game that are under way together, or beside a copy, know nothing of  *)
(* each other.                                                              *)
TakeSlot(p) ==
  /\ pusher[p].pc = "queued"
  /\ FreeSlot
  /\ LET n    == pusher[p].game
         with == {q \in Sending : pusher[q].game = n}
     IN  pusher' = IF ~HasRaw(n) THEN [pusher EXCEPT ![p] = NoPush]
                   ELSE [q \in Pushers |->
                           IF q = p THEN [pc |-> "sending", game |-> n, version |-> Carried(p),
                                          beside |-> with # {}]
                           ELSE IF q \in with THEN [pusher[q] EXCEPT !.beside = TRUE]
                           ELSE pusher[q]]
  /\ UNCHANGED <<ozone, cached, backup, fetched, copier, late, newest, undone>>

Arrives(p) ==
  /\ pusher[p].pc = "sending"
  /\ backup' = [backup EXCEPT ![pusher[p].game] = pusher[p].version]
  /\ pusher' = [pusher EXCEPT ![p] = NoPush]
  /\ UNCHANGED <<ozone, cached, fetched, copier, late, newest, undone>>

Gone(p) ==
  /\ pusher[p].pc = "sending"
  /\ pusher' = [pusher EXCEPT ![p] = NoPush]
  /\ UNCHANGED <<ozone, cached, backup, fetched, copier, newest, undone>>

(* Best-effort: not tried again. *)
PushFails(p) == Gone(p) /\ UNCHANGED late

(* It is given up here, and stored there when it gets there. *)
PushTimesOut(p) ==
  /\ Gone(p)
  /\ late' = late \cup {[game |-> pusher[p].game, version |-> pusher[p].version]}

LateArrives(x) ==
  /\ backup' = [backup EXCEPT ![x.game] = x.version]
  /\ late' = late \ {x}
  /\ UNCHANGED <<ozone, cached, fetched, copier, pusher, newest, undone>>
-----------------------------------------------------------------------------
(***************************************************************************)
(* restoreFromCentral and Collect.                                         *)
(***************************************************************************)

(* An operator's Collect, one at a time (collectBusy). *)
StartCollect ==
  /\ copier["collect"].pc = "idle"
  /\ copier' = [copier EXCEPT !["collect"].pc = "list"]
  /\ UNCHANGED <<ozone, cached, backup, fetched, pusher, late, newest, undone>>

(* The games central has. *)
AtCentral == {n \in Games : backup[n] # None}

(* restoreFromCentral takes them all, or none if it cannot list them. *)
ToRestore == {{}, AtCentral}

(* Collect takes those whose start time lies in the window it was given; a  *)
(* game without a legible one lies in none but the open window.             *)
ToCollect == SUBSET AtCentral

(* Where a copier is that has these games left. *)
Rest(todo) == IF todo = {} THEN NoCopy ELSE Copy("next", todo, 0, None)

ListBackups(c) ==
  /\ copier[c].pc = "list"
  /\ \E todo \in IF c = "collect" THEN ToCollect ELSE ToRestore :
       copier' = [copier EXCEPT ![c] = Rest(todo)]
  /\ UNCHANGED <<ozone, cached, backup, fetched, pusher, late, newest, undone>>

(* Mutant of Wanted: Collect fetches what is cached too. *)
WantedAlways(c, n) == TRUE

(* Only Collect looks whether the game is cached. *)
Wanted(c, n) == c = "restore" \/ ~HasRaw(n)

Pick(c) ==
  /\ copier[c].pc = "next"
  /\ \E n \in copier[c].todo :
       LET rest == copier[c].todo \ {n}
       IN  copier' = [copier EXCEPT ![c] = IF Wanted(c, n) THEN Copy("raw", rest, n, None)
                                           ELSE Rest(rest)]
  /\ UNCHANGED <<ozone, cached, backup, fetched, pusher, late, newest, undone>>

FetchRaw(c) ==
  /\ copier[c].pc = "raw"
  /\ LET k == copier[c]
     IN  \E after \in {Rest(k.todo), Copy("store", k.todo, k.game, backup[k.game])} :
           copier' = [copier EXCEPT ![c] = after]
  /\ UNCHANGED <<ozone, cached, backup, fetched, pusher, late, newest, undone>>

(* verifyPayload refuses what names another game, and no more. *)
Acceptable(v) == v # Foreign

(* StoreGame, which may fail, replaces whatever is cached now.  No copy of  *)
(* it goes to central.                                                      *)
StoreCopy(c) ==
  LET n == copier[c].game
  IN  \/ UNCHANGED <<cached, pusher>>
      \/ /\ Acceptable(copier[c].version)
         /\ cached' = [cached EXCEPT ![n] = copier[c].version]
         /\ pusher' = [q \in Pushers |-> IF q \in Sending /\ pusher[q].game = n
                                         THEN [pusher[q] EXCEPT !.beside = TRUE]
                                         ELSE pusher[q]]

CopyOver(c) ==
  /\ copier[c].pc = "store"
  /\ copier' = [copier EXCEPT ![c] = Rest(copier[c].todo)]
  /\ UNCHANGED <<ozone, backup, fetched, late, newest, undone>>

(* Both enter the game in the list, which changes no payload, and cache the *)
(* payload if verifyPayload accepts it.                                     *)
Restored == CopyOver("restore") /\ StoreCopy("restore")
Collected == CopyOver("collect") /\ StoreCopy("collect")

Copies(c) == ListBackups(c) \/ Pick(c) \/ FetchRaw(c)

Step ==
  \/ \E n \in Games : OzoneRewrites(n) \/ FetchGame(n) \/ Delete(n)
  \/ CacheGame \/ CacheFails
  \/ \E p \in Pushers : TakeSlot(p) \/ Arrives(p) \/ PushFails(p) \/ PushTimesOut(p)
  \/ \E x \in late : LateArrives(x)
  \/ StartCollect
  \/ \E c \in DOMAIN copier : Copies(c)
  \/ Restored \/ Collected

Spec == Init /\ [][Step]_vars
-----------------------------------------------------------------------------
Versions == None .. Foreign

TypeOK ==
  /\ ozone \in [Games -> Oldest .. MaxVersion]
  /\ cached \in [Games -> Versions] /\ newest \in [Games -> Versions]
  /\ backup \in [Games -> Versions]
  /\ fetched \in [game : Games \cup {0}, version : Versions]
  /\ copier \in [{"restore", "collect"} ->
                   [pc : {"idle", "list", "next", "raw", "store"}, todo : SUBSET Games,
                    game : Games \cup {0}, version : Versions]]
  /\ pusher \in [Pushers -> [pc : {"idle", "queued", "sending"}, game : Games \cup {0},
                             version : Versions, beside : BOOLEAN]]
  /\ Cardinality(Sending) <= Slots
  /\ late \subseteq [game : Games, version : Versions \ {None}]
  /\ undone \subseteq Games

(* A payload fetched from O-Zone is not replaced by an older one, nor by     *)
(* another game's that names none and that central has misfiled ("the one   *)
(* cache error that does not heal", verifyPayload): not unless a restore or *)
(* collect had the game still to copy when it was cached                    *)
(* (restoreFromCentral looks at the cache once, before it starts; Collect   *)
(* before it asks central for the game).                                    *)
NewestKept == \A n \in Games \ undone : HasRaw(n) => cached[n] >= newest[n]

(* A push that is answered leaves central with a payload no older than the  *)
(* one cached, or another push of the game is on its way: "read from the    *)
(* store rather than carried in, and only after a slot is acquired"         *)
(* (failoverPush).  Pushes of a game that were under way together may       *)
(* arrive in either order, one that was given up may arrive after any, and  *)
(* a copy may be cached in the meantime.                                    *)
BackupKeepsUp ==
  [][\A p \in Pushers : Arrives(p) =>
       LET n == pusher[p].game
       IN  \/ backup'[n] >= cached[n] \/ pusher[p].beside
           \/ \E q \in Pushers \ {p} : pusher[q].pc # "idle" /\ pusher[q].game = n]_vars
=============================================================================
