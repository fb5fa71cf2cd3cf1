--------------------------- MODULE ResultsSession ---------------------------
(***************************************************************************)
(* The results protocol (internal/results/client.go and resultsSession in  *)
(* internal/app/app.go): requests and replies on one stream that says      *)
(* nothing of which reply answers what, and the work that uses it: a cache *)
(* refresh, a backfill or resync, the fetch of one game.  resultsMu lets   *)
(* one at a time run, so there is at most one connection.                  *)
(*                                                                         *)
(* The print server sends in order what it owes the connection: the        *)
(* handshake, then a reply to each request.  Reading takes what is owed    *)
(* next, or times out, and then it is still owed.                          *)
(***************************************************************************)
EXTENDS Naturals, Sequences, FiniteSets

CONSTANTS
  Games,         \* game numbers
  Handshake,     \* OZONE_RESULTS_HANDSHAKE
  MaxErrors,     \* maxBatchFetchErrors
  Runners        \* bound: goroutines that run central's commands

ASSUME SessionAssumption ==
  /\ Runners \cap {"none", "auto"} = {}
  /\ Games \subseteq Nat \ {0} /\ IsFiniteSet(Games)
  /\ Handshake \in Nat /\ MaxErrors \in Nat \ {0}

VARIABLES
  gate,        \* printServerGate() = nil
  walk,        \* the holder of resultsMu and how far it is; kind "none": free
  connected,   \* resultsSession.conn is open
  owed,        \* what the print server still owes it
  cutShort,    \* history: this connection's handshake was not all read
  misfiled,    \* history: games under whose number another's payload was taken
  asked        \* history: requests sent since the gate shut

sessionVars == <<walk, connected, owed, cutShort, misfiled, asked>>

(* refresh: automatic refreshCache; resync: an operator's.  sync:           *)
(* syncGames.  fetch: drainPendingFetches's; refetch: an operator's.        *)
Kinds == {"refresh", "resync", "sync", "fetch", "refetch"}

Manual(kind) == kind \in {"resync", "sync", "refetch"}

Lists(kind) == kind \in {"refresh", "resync", "sync"}

Caches(kind) == kind \in {"refresh", "resync"}

(* What is asked for: a game, or the list (0). *)
List == 0

NoWalk == [kind |-> "none", by |-> "none", pc |-> "idle", want |-> List, todo |-> {}, errors |-> 0,
           tried |-> FALSE]

Walk(kind, by, n) == [NoWalk EXCEPT !.kind = kind, !.by = by, !.pc = "connect", !.want = n]

Banner == [kind |-> "banner", game |-> 0]
Torn   == [kind |-> "torn", game |-> 0]
Reply(n) == [kind |-> "reply", game |-> n]

Free == walk.kind = "none"

SessionInit ==
  /\ gate \in BOOLEAN
  /\ walk = NoWalk
  /\ connected = FALSE /\ owed = <<>> /\ cutShort = FALSE
  /\ misfiled = {} /\ asked = 0
-----------------------------------------------------------------------------
(***************************************************************************)
(* The connection.                                                         *)
(***************************************************************************)
Retire == connected' = FALSE /\ owed' = <<>> /\ cutShort' = FALSE

Unchanged == UNCHANGED <<connected, owed, cutShort>>

(* Mutant of AfterReadError: the connection is kept. *)
AfterReadErrorKept == Unchanged

(* A read that fails is the connection's failure, not the game's. *)
AfterReadError == Retire

(* Mutant of EndWalk: the connection is left open. *)
EndWalkOpen == walk' = NoWalk /\ Unchanged

(* The walk ends with an outcome: the connection and resultsMu are let go. *)
EndWalk ==
  /\ walk' = NoWalk
  /\ Retire

(* A fetch has failed.  In a batch only failures of the connection count,   *)
(* and MaxErrors in a row end it.                                           *)
Fails(counts) ==
  IF ~Lists(walk.kind) \/ walk.want = List \/ (counts /\ walk.errors + 1 >= MaxErrors)
  THEN walk' = [walk EXCEPT !.pc = "failed"]
  ELSE walk' = [walk EXCEPT !.pc = "next", !.errors = IF counts THEN @ + 1 ELSE @]

(* The gate's refusal puts the work off.  Within a refresh it only ends it. *)
PutOff ==
  walk' = [walk EXCEPT !.pc = IF Caches(walk.kind) /\ walk.want # List THEN "done" ELSE "deferred"]

(* connect, up to the dial: a live connection is used, without a look at    *)
(* the gate.  An absent print server refuses automatic work                 *)
(* (printServerPresence.allow).                                             *)
Connect ==
  /\ walk.pc = "connect"
  /\ \/ connected /\ walk' = [walk EXCEPT !.pc = "ask"]
     \/ ~connected /\ ~gate /\ PutOff
     \/ ~connected /\ gate /\ walk' = [walk EXCEPT !.pc = "dial"]
     \/ /\ ~connected /\ gate /\ ~Manual(walk.kind)
        /\ walk' = [walk EXCEPT !.pc = "failed"]
  /\ UNCHANGED <<gate, misfiled, asked>> /\ Unchanged

DialConnects ==
  /\ walk.pc = "dial"
  /\ connected' = TRUE
  /\ owed' = [i \in 1 .. Handshake |-> Banner]
  /\ cutShort' = FALSE
  /\ walk' = [walk EXCEPT !.pc = "drain", !.tried = TRUE]
  /\ UNCHANGED <<gate, misfiled, asked>>

(* With the gate shut meanwhile, a check of an absent print server is put   *)
(* off; a failure that makes it absent ends automatic work.                 *)
DialFails ==
  /\ walk.pc = "dial"
  /\ \/ Fails(TRUE)
     \/ ~gate /\ PutOff
     \/ gate /\ ~Manual(walk.kind) /\ walk' = [walk EXCEPT !.pc = "failed"]
  /\ UNCHANGED <<gate, misfiled, asked>> /\ Unchanged

(* Drain takes a frame, or gives up with the handshake, or part of a frame  *)
(* of it, still to come.                                                    *)
Drain ==
  /\ walk.pc = "drain"
  /\ IF owed = <<>>
     THEN walk' = [walk EXCEPT !.pc = "ask"] /\ Unchanged
     ELSE \/ owed' = Tail(owed) /\ UNCHANGED <<walk, connected, cutShort>>
          \/ /\ owed' \in {owed, <<Torn>> \o Tail(owed)}
             /\ cutShort' = TRUE
             /\ walk' = [walk EXCEPT !.pc = "ask"]
             /\ UNCHANGED connected
  /\ UNCHANGED <<gate, misfiled, asked>>

(* send, whose error is a read error's equal. *)
Ask ==
  /\ walk.pc = "ask"
  /\ owed' = Append(owed, Reply(walk.want))
  /\ walk' = [walk EXCEPT !.pc = "read"]
  /\ asked' = IF gate THEN 0 ELSE asked + 1
  /\ UNCHANGED <<gate, connected, cutShort, misfiled>>

(* readFrame fails: too late, part of a frame, or no frame at all. *)
ReadFails ==
  /\ walk.pc \in {"ask", "read"}
  /\ Fails(TRUE)
  /\ AfterReadError
  /\ UNCHANGED <<gate, misfiled, asked>>

Reads(frames) ==
  /\ walk.pc = "read"
  /\ Head(owed).kind \in frames
  /\ owed' = Tail(owed)

(* The list, or what is taken for it: a handshake frame is a list of none.  *)
(* The games left to fetch are the valid ones, for a refresh those not      *)
(* cached whose finish delay is over, for a backfill those central has not. *)
ReadList ==
  /\ walk.want = List
  /\ \/ Reads({"reply"}) /\ \E todo \in SUBSET Games : walk' = [walk EXCEPT !.pc = "next", !.todo = todo]
     \/ Reads({"banner"}) /\ walk' = [walk EXCEPT !.pc = "next", !.todo = {}]
  /\ UNCHANGED <<gate, connected, cutShort, misfiled, asked>>

(* verifyPayload: the payload names another game.  One that names none is   *)
(* taken.                                                                   *)
Rejects(n, named) == named /\ n # walk.want

(* metaFromRaw: the cache has a payload under the number it names itself,   *)
(* or if it names none under the one asked for.                             *)
CachedAs(n, named) == IF named THEN n ELSE walk.want

(* Central is told the number asked for, but in a refresh, which only       *)
(* caches.                                                                  *)
FiledWrong(n, named) == CachedAs(n, named) # n \/ (~Caches(walk.kind) /\ n # walk.want)

(* A game's payload, cached and, but in a refresh, pushed to central.  One  *)
(* that names no game, on a connection whose handshake was cut short, is    *)
(* anybody's.                                                               *)
ReadGame ==
  /\ walk.want # List
  /\ Reads({"reply"}) /\ Head(owed).game # List
  /\ LET n == Head(owed).game
     IN  \E named \in BOOLEAN :
           /\ ~Rejects(n, named)
           /\ misfiled' = IF FiledWrong(n, named) /\ (named \/ ~cutShort) THEN misfiled \cup {walk.want}
                          ELSE misfiled
  /\ walk' = [walk EXCEPT !.pc = IF Caches(walk.kind) THEN "next" ELSE "push", !.errors = 0]
  /\ UNCHANGED <<gate, connected, cutShort, asked>>

(* Another game's payload: the connection is retired. *)
Mismatch ==
  /\ walk.want # List
  /\ walk.pc = "read" /\ Head(owed).kind = "reply"
  /\ Rejects(Head(owed).game, TRUE)
  /\ Fails(TRUE)
  /\ Retire
  /\ UNCHANGED <<gate, misfiled, asked>>

(* No game at all (errNotGameData): the connection stays. *)
NotGame ==
  /\ walk.want # List
  /\ Reads({"reply", "banner"})
  /\ Fails(FALSE)
  /\ UNCHANGED <<gate, connected, cutShort, misfiled, asked>>

(* PushGameResults, to central. *)
Push ==
  /\ walk.pc = "push"
  /\ walk' \in {[walk EXCEPT !.pc = IF Lists(walk.kind) THEN "next" ELSE "done"],
                [walk EXCEPT !.pc = IF Lists(walk.kind) THEN "next" ELSE "failed"]}
  /\ UNCHANGED <<gate, misfiled, asked>> /\ Unchanged

(* Mutant of MayGoOn: the gate is left to connect. *)
MayGoOnUnseen == TRUE

(* Within a batch the gate is read again before each game. *)
MayGoOn == gate

(* The next game of a batch, in the list's order. *)
NextGame ==
  /\ walk.pc = "next" /\ walk.todo # {}
  /\ LET n    == CHOOSE g \in walk.todo : \A k \in walk.todo : g <= k
         rest == [walk EXCEPT !.todo = @ \ {n}]
     IN  IF MayGoOn THEN walk' = [rest EXCEPT !.pc = "connect", !.want = n]
         ELSE walk' = [rest EXCEPT !.pc = IF Caches(walk.kind) THEN "done" ELSE "deferred"]
  /\ UNCHANGED <<gate, misfiled, asked>> /\ Unchanged

(* A refresh, as a game fetched alone and pushed, ends with an              *)
(* acknowledgement, whatever the gate says by then; it is written if the    *)
(* connection still stands, asks for nothing and is not waited for, so here *)
(* it changes nothing.                                                      *)
NoneLeft ==
  /\ walk.pc = "next" /\ walk.todo = {}
  /\ walk' = [walk EXCEPT !.pc = "done"]
  /\ UNCHANGED <<gate, misfiled, asked>> /\ Unchanged

WalkStep ==
  \/ Connect \/ DialConnects \/ DialFails \/ Drain \/ Ask \/ ReadFails
  \/ ReadList \/ ReadGame \/ Mismatch \/ NotGame \/ Push \/ NextGame \/ NoneLeft

(* The outcome walk has come to; a batch of a refresh that failed part-way  *)
(* is no failure of it.                                                     *)
Ended == walk.pc \in {"done", "deferred", "failed"}

Outcome ==
  IF walk.pc = "failed" /\ Caches(walk.kind) /\ walk.want # List THEN "done" ELSE walk.pc
-----------------------------------------------------------------------------
SessionTypeOK ==
  /\ gate \in BOOLEAN /\ connected \in BOOLEAN /\ cutShort \in BOOLEAN
  /\ walk \in [kind : Kinds \cup {"none"}, want : Games \cup {List}, todo : SUBSET Games,
               by : Runners \cup {"none", "auto"},
               pc : {"idle", "connect", "dial", "drain", "ask", "read", "push", "next", "done",
                     "deferred", "failed"},
               errors : 0 .. MaxErrors - 1, tried : BOOLEAN]
  /\ connected \/ owed = <<>>
  /\ Len(owed) <= Handshake + 1
  /\ \A i \in DOMAIN owed : owed[i] \in {Banner, Torn} \cup {Reply(n) : n \in Games \cup {List}}
  /\ misfiled \subseteq Games /\ asked \in Nat

(* No game's payload is cached, or sent to central, under another's number, *)
(* where it would stay, whatever timed out, came late or was refused on the *)
(* stream, and though a payload that does not name its game is taken for    *)
(* the one asked for: with every handshake read, replies cannot get out of  *)
(* step (resultsSession, verifyPayload).                                    *)
FiledAsAsked == misfiled = {}

(* Once a game starts, or the link goes stale, the print server is asked    *)
(* for at most one thing more, by all the work together (connect, the gate  *)
(* in refreshCache's and syncGames's loops, the wait for resultsMu).  The   *)
(* acknowledgement at the end of the work asks for nothing and is not       *)
(* counted.                                                                 *)
OneMoreAtMost == asked <= 1
=============================================================================
