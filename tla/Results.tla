------------------------------ MODULE Results ------------------------------
(***************************************************************************)
(* The queue of finished games and everything that fetches from the print  *)
(* server (internal/app/app.go): the message bus's handler and the poll    *)
(* loop queue games; drainPendingFetches, one at a time, fetches them and  *)
(* syncs them to central, launched by a poll or by finishWork; cache       *)
(* refreshes and operators' commands share the print server with it under  *)
(* resultsMu.                                                              *)
(*                                                                         *)
(* The gate is GameGate's, and may turn at any moment here.  A time is     *)
(* kept as whether it has come: an entry is due when its nextRetry is      *)
(* past, and a finish delay runs while it is in delays.                    *)
(***************************************************************************)
EXTENDS PrintServer, Sequences, FiniteSets

CONSTANTS
  Finishers,     \* bound: goroutines running finishWork at once
  MaxAttempts,   \* maxFetchAttempts
  MaxPending,    \* maxPendingWhileAbsent
  MaxGames,      \* bound: games played
  MaxDelays,     \* bound: finish delays running at once
  BusCap         \* bound: bus events in transit

ASSUME ResultsAssumption ==
  /\ "poll" \notin Finishers
  /\ MaxAttempts \in Nat \ {0} /\ MaxPending \in Nat \ {0}
  /\ MaxGames \in Nat /\ MaxDelays \in Nat /\ BusCap \in Nat

VARIABLES
  \* O-Zone, its networks, and the gate
  polling,       \* ENABLE_GAME_RESULTS: polls notice finished games too
  faulty,        \* what is asked of the print server and central may fail
  game,          \* the number of the latest game
  playing,       \* it is being played
  bus,           \* bus events not yet handled, oldest first
  gate,          \* printServerGate() = nil
  \* the queue
  pending,       \* pendingFetch, in the order queued
  fetched,       \* fetchedGames
  givenUp,       \* givenUpFetch
  lastBusGame,   \* the number of the last GAME_START (0: none)
  lastGameNum,   \* the number the last poll read (0: none)
  delays,        \* finish delays running, oldest first: the game held, or 0
  \* the goroutines
  finishPending, \* finish work is waiting for the gate
  pollDrain,     \* a poll has launched a drain that has not started
  resultsMu,     \* who holds it: free, drain or other
  drain,         \* the drain: fetchBusy is drain.pc # "idle"
  finisher,      \* where each goroutine running finishWork is
  other          \* the refresh or command using the print server

ozoneVars == <<polling, faulty, game, playing, bus>>
queueVars == <<pending, fetched, givenUp>>
busVars   == <<lastBusGame, delays>>
agentVars == <<lastGameNum, pollDrain>>
workVars  == <<finishPending, resultsMu, drain, finisher, other>>
vars == <<psVars, ozoneVars, gate, queueVars, busVars, agentVars, workVars>>

(* What the goroutines that use the print server never change. *)
around == <<ozoneVars, gate, busVars, lastGameNum>>

Pending == [game : 1 .. MaxGames, attempts : 0 .. MaxAttempts - 1, due : BOOLEAN, held : BOOLEAN]

Queued == {pending[i].game : i \in DOMAIN pending}

(* Where in queue q game n is. *)
Place(q, n) == CHOOSE i \in DOMAIN q : q[i].game = n

(* The queue after delete(pendingFetch, n). *)
Without(n) ==
  LET i == Place(pending, n)
  IN  IF n \in Queued
      THEN [j \in 1 .. Len(pending) - 1 |-> pending[IF j < i THEN j ELSE j + 1]]
      ELSE pending

(* finishHold: game n's finish delay is not over. *)
InDelay(n) == \E i \in DOMAIN delays : delays[i] = n

(* notBefore of a queued entry: the hold, but for entries made by           *)
(* noteFetchFailure.                                                        *)
NotBefore(p) == p.held /\ InDelay(p.game)

TooSoon(n) == InDelay(n)

NoDrain == [pc |-> "idle", todo |-> {}, game |-> 0, deferred |-> FALSE, by |-> "poll"]

NoOther == [pc |-> "idle", kind |-> "refresh"]

Init ==
  /\ PsInit
  /\ polling \in BOOLEAN /\ faulty \in BOOLEAN
  /\ game = 0 /\ playing = FALSE /\ bus = <<>> /\ gate = FALSE
  /\ pending = <<>> /\ fetched = {} /\ givenUp = {}
  /\ lastBusGame = 0 /\ lastGameNum = 0 /\ delays = <<>>
  /\ finishPending = FALSE /\ pollDrain = FALSE
  /\ resultsMu = "free" /\ drain = NoDrain /\ other = NoOther
  /\ finisher = [f \in Finishers |-> "idle"]
-----------------------------------------------------------------------------
(***************************************************************************)
(* The queue's operations, each under App.mu.                              *)
(***************************************************************************)

Added(n) ==
  IF n \in Queued THEN pending
  ELSE Append(pending, [game |-> n, attempts |-> 0, due |-> TRUE, held |-> TRUE])

(* Mutant of QueueFetch: a given-up game is queued again. *)
QueueFetchAgain(n) == Added(n)

(* The queue queueFetch leaves: the game once, at the end; while the print  *)
(* server is absent the newest MaxPending are kept.                         *)
QueueFetch(n) ==
  LET q    == Added(n)
      over == IF presence = "absent" /\ Len(q) > MaxPending THEN Len(q) - MaxPending ELSE 0
  IN  IF NothingToFetchFrom \/ n \in givenUp THEN pending ELSE SubSeq(q, over + 1, Len(q))

(* notBefore, of game n in queue q: held until its delay is over. *)
Hold(q, n) == [i \in DOMAIN q |-> [q[i] EXCEPT !.held = @ \/ q[i].game = n]]

(* queueFetch's answer: n is queued now and was not. *)
NewlyQueued(n) == ~NothingToFetchFrom /\ n \notin givenUp /\ n \notin Queued

(* Mutant of NoteFetchFailure: attempts are compared before they are counted. *)
NoteFetchFailureLate(n) ==
  LET i == Place(pending, n)
  IN  IF n \in Queued /\ pending[i].attempts < MaxAttempts
      THEN /\ pending' = [pending EXCEPT ![i].attempts = @ + 1, ![i].due = FALSE]
           /\ UNCHANGED <<fetched, givenUp>>
      ELSE /\ pending' = Without(n)
           /\ givenUp' = givenUp \cup {n}
           /\ UNCHANGED fetched

(* Mutant of NoteFetchFailure: the last attempt is dropped, not given up. *)
NoteFetchFailureForgets(n) ==
  /\ pending' = Without(n)
  /\ UNCHANGED <<fetched, givenUp>>

(* noteFetchFailure: back off, or give up after MaxAttempts.  An entry that *)
(* has been dropped meanwhile comes back, oldest of all.                    *)
NoteFetchFailure(n) ==
  LET failed == IF n \in Queued THEN pending
                ELSE <<[game |-> n, attempts |-> 0, due |-> FALSE, held |-> FALSE]>> \o pending
      i      == Place(failed, n)
      tries  == failed[i].attempts + 1
  IN  IF tries >= MaxAttempts
      THEN /\ pending' = Without(n)
           /\ givenUp' = givenUp \cup {n}
           /\ UNCHANGED fetched
      ELSE /\ pending' = [failed EXCEPT ![i].attempts = tries, ![i].due = FALSE]
           /\ UNCHANGED <<fetched, givenUp>>

MarkFetched(n) ==
  /\ fetched' = fetched \cup {n}
  /\ givenUp' = givenUp \ {n}
  /\ UNCHANGED pending

(* onPrintServerBack: every game is due, and the finish work pending. *)
BackToWork ==
  /\ pending' = [i \in DOMAIN pending |-> [pending[i] EXCEPT !.due = TRUE]]
  /\ finishPending' = TRUE

(* A dial has connected: reached, and what follows from it. *)
Connected ==
  /\ Reached
  /\ IF presence = "absent" THEN BackToWork ELSE UNCHANGED <<pending, finishPending>>
  /\ UNCHANGED <<fetched, givenUp>>
-----------------------------------------------------------------------------
(***************************************************************************)
(* O-Zone and time.                                                        *)
(***************************************************************************)
Deliver(e) == bus' \in {bus} \cup (IF Len(bus) < BusCap THEN {Append(bus, e)} ELSE {})

GameStarts ==
  /\ ~playing
  /\ game < MaxGames
  /\ game' = game + 1
  /\ playing' = TRUE
  /\ Deliver([code |-> "GAME_START", game |-> game + 1])
  /\ UNCHANGED <<psVars, gate, queueVars, busVars, agentVars, workVars, polling, faulty>>

GameEnds ==
  /\ playing
  /\ playing' = FALSE
  /\ Deliver([code |-> "GAME_FINISH", game |-> game])
  /\ UNCHANGED <<psVars, gate, queueVars, busVars, agentVars, workVars, polling, faulty, game>>

GateTurns ==
  /\ gate' = ~gate
  /\ UNCHANGED <<psVars, ozoneVars, queueVars, busVars, agentVars, workVars>>

(* A game's backoff is over. *)
RetryFallsDue ==
  /\ \E i \in DOMAIN pending :
       /\ ~pending[i].due
       /\ pending' = [pending EXCEPT ![i].due = TRUE]
  /\ UNCHANGED <<psVars, around, workVars, fetched, givenUp, pollDrain>>

PresenceTime ==
  /\ CheckFallsDue \/ FailuresSpread
  /\ UNCHANGED <<around, queueVars, workVars, pollDrain>>
-----------------------------------------------------------------------------
(***************************************************************************)
(* The message bus's handler, and the end of a finish delay.               *)
(***************************************************************************)
HandleStart ==
  /\ bus # <<>> /\ Head(bus).code = "GAME_START"
  /\ bus' = Tail(bus)
  /\ gate' = FALSE
  /\ lastBusGame' = Head(bus).game
  /\ UNCHANGED <<psVars, queueVars, agentVars, workVars, polling, faulty, game, playing, delays>>

(* The game that finished is the one last started, if that is known. *)
HandleFinish ==
  /\ bus # <<>> /\ Head(bus).code = "GAME_FINISH"
  /\ Len(delays) < MaxDelays
  /\ bus' = Tail(bus)
  /\ gate' = FALSE
  /\ pending' = IF lastBusGame > 0 THEN Hold(QueueFetch(lastBusGame), lastBusGame) ELSE pending
  /\ delays' = Append(delays, lastBusGame)
  /\ GameFinished
  /\ UNCHANGED <<agentVars, workVars, polling, faulty, game, playing, fetched, givenUp, lastBusGame>>

(* afterFinish wakes, and does the finish work. *)
DelayOver(f) ==
  /\ delays # <<>>
  /\ finisher[f] = "idle"
  /\ delays' = Tail(delays)
  /\ finisher' = [finisher EXCEPT ![f] = "mark"]
  /\ UNCHANGED <<psVars, ozoneVars, gate, queueVars, agentVars, lastBusGame, finishPending,
                 resultsMu, drain, other>>
-----------------------------------------------------------------------------
(***************************************************************************)
(* A poll that has read the server state: finish work that waited is       *)
(* launched, and checkGameResults run.                                     *)
(***************************************************************************)
Readings == IF playing THEN {"playing"} ELSE {"idle", "finished"}

(* The game a poll that reads m finds finished, or 0. *)
FoundFinished(m) ==
  IF m = "finished" /\ game > 0 THEN game
  ELSE IF lastGameNum > 0 /\ game > 0 /\ game # lastGameNum THEN lastGameNum
  ELSE 0

CheckGameResults(m) ==
  LET n == FoundFinished(m)
  IN  /\ lastGameNum' = IF game > 0 THEN game ELSE lastGameNum
      /\ IF n > 0 /\ n \notin fetched
         THEN /\ pending' = QueueFetch(n)
              /\ IF NewlyQueued(n) THEN GameFinished ELSE UNCHANGED psVars
         ELSE UNCHANGED <<psVars, pending>>
      /\ pollDrain' \in IF m = "playing" THEN {pollDrain} ELSE IF gate THEN {TRUE} ELSE {pollDrain, TRUE}

LaunchFinishWork ==
  IF finishPending /\ gate /\ \E f \in Finishers : finisher[f] = "idle"
  THEN \E f \in Finishers :
         finisher[f] = "idle" /\ finisher' = [finisher EXCEPT ![f] = "mark"]
  ELSE UNCHANGED finisher

Poll ==
  /\ LaunchFinishWork
  /\ IF polling
     THEN \E m \in Readings : CheckGameResults(m)
     ELSE UNCHANGED <<psVars, agentVars, pending>>
  /\ UNCHANGED <<ozoneVars, gate, busVars, fetched, givenUp, finishPending, resultsMu, drain, other>>
-----------------------------------------------------------------------------
(***************************************************************************)
(* drainPendingFetches and fetchGameResults.                               *)
(***************************************************************************)
Due == {pending[i].game : i \in {j \in DOMAIN pending : pending[j].due /\ ~NotBefore(pending[j])}}

StartDrain(by) ==
  drain' = [pc |-> "next", todo |-> Due, game |-> 0, deferred |-> FALSE, by |-> by]

(* The drain a poll launched finds the one in progress, or runs. *)
PolledDrain ==
  /\ pollDrain
  /\ pollDrain' = FALSE
  /\ IF drain.pc = "idle" THEN StartDrain("poll") ELSE UNCHANGED drain
  /\ UNCHANGED <<psVars, around, queueVars, finishPending, resultsMu, finisher, other>>

(* The oldest game left to do. *)
Oldest == CHOOSE n \in drain.todo : \A k \in drain.todo : n <= k

AtNext == drain.pc = "next" /\ drain.todo # {}

Skip ==
  /\ AtNext /\ Oldest \in fetched
  /\ pending' = Without(Oldest)
  /\ drain' = [drain EXCEPT !.todo = @ \ {Oldest}]
  /\ UNCHANGED <<psVars, around, fetched, givenUp, pollDrain, finishPending, resultsMu, finisher,
                 other>>

Deferred(d) == [d EXCEPT !.deferred = TRUE]

(* The gate is shut or resultsMu taken: the game is put off. *)
PutOff ==
  /\ AtNext /\ Oldest \notin fetched
  /\ ~gate \/ resultsMu # "free"
  /\ drain' = Deferred([drain EXCEPT !.todo = @ \ {Oldest}])
  /\ UNCHANGED <<psVars, around, queueVars, pollDrain, finishPending, resultsMu, finisher, other>>

Acquire ==
  /\ AtNext /\ Oldest \notin fetched
  /\ gate /\ resultsMu = "free"
  /\ resultsMu' = "drain"
  /\ drain' = [drain EXCEPT !.todo = @ \ {Oldest}, !.game = Oldest, !.pc = "connect"]
  /\ UNCHANGED <<psVars, around, queueVars, pollDrain, finishPending, finisher, other>>

(* fetchGameResults returns. *)
OnToNext(d) == [d EXCEPT !.pc = "next", !.game = 0]

Released == resultsMu' = "free"

(* connect: the gate again, then allow. *)
Connect ==
  /\ drain.pc = "connect"
  /\ \/ /\ ~gate
        /\ drain' = OnToNext(Deferred(drain)) /\ Released
        /\ UNCHANGED psVars
     \/ /\ gate /\ Refused(FALSE)
        /\ drain' = OnToNext(drain) /\ Released
        /\ UNCHANGED psVars
     \/ /\ gate /\ ~Refused(FALSE)
        /\ Claimed(FALSE)
        /\ drain' = [drain EXCEPT !.pc = "dial"]
        /\ UNCHANGED resultsMu
  /\ UNCHANGED <<around, queueVars, pollDrain, finishPending, finisher, other>>

DialConnects ==
  /\ drain.pc = "dial"
  /\ Connected
  /\ drain' = [drain EXCEPT !.pc = "fetch"]
  /\ UNCHANGED <<around, pollDrain, resultsMu, finisher, other>>

(* A dial that fails counts against the print server, if the gate is still  *)
(* open, and against the game, unless the print server is absent.           *)
DialFails ==
  /\ drain.pc = "dial" /\ faulty
  /\ IF gate THEN Failed(FALSE) ELSE UNCHANGED psVars
  /\ drain' = OnToNext(IF ~gate /\ presence = "absent" THEN Deferred(drain) ELSE drain)
  /\ Released
  /\ IF presence' = "absent" THEN UNCHANGED queueVars ELSE NoteFetchFailure(drain.game)
  /\ UNCHANGED <<around, pollDrain, finishPending, finisher, other>>

(* The game is read and central has it. *)
Synced ==
  /\ drain.pc = "fetch"
  /\ MarkFetched(drain.game)
  /\ drain' = [drain EXCEPT !.pc = "clear"]
  /\ UNCHANGED <<psVars, around, pollDrain, finishPending, resultsMu, finisher, other>>

ClearPending ==
  /\ drain.pc = "clear"
  /\ pending' = Without(drain.game)
  /\ drain' = OnToNext(drain) /\ Released
  /\ UNCHANGED <<psVars, around, fetched, givenUp, pollDrain, finishPending, finisher, other>>

(* The print server's reply, or the push to central, fails. *)
SyncFails ==
  /\ drain.pc = "fetch" /\ faulty
  /\ NoteFetchFailure(drain.game)
  /\ drain' = OnToNext(drain) /\ Released
  /\ UNCHANGED <<psVars, around, pollDrain, finishPending, finisher, other>>

(* A finishWork that launched it goes on with what it reports. *)
EndDrain ==
  /\ drain.pc = "next" /\ drain.todo = {}
  /\ drain' = NoDrain
  /\ finisher' = IF drain.by \in Finishers
                 THEN [finisher EXCEPT ![drain.by] = IF drain.deferred THEN "remark" ELSE "refresh"]
                 ELSE finisher
  /\ UNCHANGED <<psVars, around, queueVars, pollDrain, finishPending, resultsMu, other>>
-----------------------------------------------------------------------------
(***************************************************************************)
(* finishWork.                                                             *)
(***************************************************************************)
Goes(f, from, to) == finisher[f] = from /\ finisher' = [finisher EXCEPT ![f] = to]

Mark(f) ==
  /\ Goes(f, "mark", "gate")
  /\ finishPending' = TRUE
  /\ UNCHANGED <<psVars, around, queueVars, pollDrain, resultsMu, drain, other>>

CheckGate(f) ==
  /\ Goes(f, "gate", IF gate THEN "claim" ELSE "idle")
  /\ UNCHANGED <<psVars, around, queueVars, pollDrain, finishPending, resultsMu, drain, other>>

Claim(f) ==
  /\ Goes(f, "claim", IF finishPending THEN "drain" ELSE "idle")
  /\ finishPending' = FALSE
  /\ UNCHANGED <<psVars, around, queueVars, pollDrain, resultsMu, drain, other>>

FinishDrain(f) ==
  /\ Goes(f, "drain", IF drain.pc = "idle" THEN "wait" ELSE "remark")
  /\ IF drain.pc = "idle" THEN StartDrain(f) ELSE UNCHANGED drain
  /\ UNCHANGED <<psVars, around, queueVars, pollDrain, finishPending, resultsMu, other>>

Remark(f) ==
  /\ Goes(f, "remark", "refresh")
  /\ finishPending' = TRUE
  /\ UNCHANGED <<psVars, around, queueVars, pollDrain, resultsMu, drain, other>>

Begins(kind) ==
  /\ gate /\ resultsMu = "free"
  /\ resultsMu' = "other"
  /\ other' = [pc |-> "connect", kind |-> kind]

(* refreshCache(false), if the print server is free; skipped otherwise. *)
FinishRefresh(f) ==
  /\ Goes(f, "refresh", "idle")
  /\ IF gate /\ resultsMu = "free" THEN Begins("refresh") ELSE UNCHANGED <<resultsMu, other>>
  /\ UNCHANGED <<psVars, around, queueVars, pollDrain, finishPending, drain>>
-----------------------------------------------------------------------------
(***************************************************************************)
(* Cache refreshes (the slow poll's, an operator's resync) and commands    *)
(* (refetch_game, backfill_all, resync_all).                               *)
(***************************************************************************)
Manual == other.kind # "refresh"

StartOther(kind) ==
  /\ Begins(kind)
  /\ UNCHANGED <<psVars, around, queueVars, pollDrain, finishPending, drain, finisher>>

OtherEnds == other' = NoOther /\ Released

OtherConnect ==
  /\ other.pc = "connect"
  /\ IF ~gate \/ Refused(Manual)
     THEN OtherEnds /\ UNCHANGED psVars
     ELSE Claimed(Manual) /\ other' = [other EXCEPT !.pc = "dial"] /\ UNCHANGED resultsMu
  /\ UNCHANGED <<around, queueVars, pollDrain, finishPending, drain, finisher>>

OtherDialConnects ==
  /\ other.pc = "dial"
  /\ Connected
  /\ other' = [other EXCEPT !.pc = "open"]
  /\ UNCHANGED <<around, pollDrain, resultsMu, drain, finisher>>

(* The connection is retired; the next game of a list is dialled for anew. *)
NextGame == other' = [other EXCEPT !.pc = "connect"] /\ UNCHANGED resultsMu

OtherDialFails ==
  /\ other.pc = "dial" /\ faulty
  /\ IF gate THEN Failed(Manual) ELSE UNCHANGED psVars
  /\ OtherEnds \/ NextGame
  /\ UNCHANGED <<around, queueVars, pollDrain, finishPending, drain, finisher>>

(* One game read over the open connection.  A command syncs it to central,  *)
(* whatever its finish delay; a refresh leaves a game inside its delay.     *)
OtherFetch(n) ==
  /\ other.pc = "open" /\ gate
  /\ n <= game
  /\ IF other.kind = "command" THEN MarkFetched(n) ELSE ~TooSoon(n) /\ UNCHANGED queueVars
  /\ UNCHANGED <<psVars, around, pollDrain, finishPending, resultsMu, drain, finisher, other>>

(* A game is not read, and the connection retired. *)
OtherReadFails ==
  /\ other.pc = "open" /\ faulty
  /\ NextGame
  /\ UNCHANGED <<psVars, around, queueVars, pollDrain, finishPending, drain, finisher>>

(* Its games are done, the gate has shut, or too many have failed in a row. *)
OtherCloses ==
  /\ other.pc = "open"
  /\ OtherEnds
  /\ UNCHANGED <<psVars, around, queueVars, pollDrain, finishPending, drain, finisher>>
-----------------------------------------------------------------------------
OZone == GameStarts \/ GameEnds \/ GateTurns

DrainStep ==
  \/ Skip \/ PutOff \/ Acquire \/ Connect \/ DialConnects \/ DialFails
  \/ Synced \/ ClearPending \/ SyncFails \/ EndDrain

FinishWork(f) ==
  \/ Mark(f) \/ CheckGate(f) \/ Claim(f) \/ FinishDrain(f) \/ Remark(f) \/ FinishRefresh(f)

Other ==
  \/ OtherConnect \/ OtherDialConnects \/ OtherDialFails \/ OtherReadFails \/ OtherCloses
  \/ \E n \in 1 .. MaxGames : OtherFetch(n)

Next ==
  \/ OZone
  \/ RetryFallsDue
  \/ PresenceTime
  \/ HandleStart
  \/ HandleFinish
  \/ \E f \in Finishers : DelayOver(f) \/ FinishWork(f)
  \/ Poll
  \/ PolledDrain
  \/ DrainStep
  \/ \E kind \in {"refresh", "command"} : StartOther(kind)
  \/ Other

Spec == Init /\ [][Next]_vars

(* Timers fire, the bus is read, goroutines run to their end, polls recur.  *)
(* (A delay's end does not wait for other finish work, which the bound on   *)
(* Finishers makes it do here: hence its strong fairness.)                  *)
Fairness ==
  /\ WF_vars(RetryFallsDue)
  /\ WF_vars(CheckFallsDue /\ PresenceTime)
  /\ WF_vars(HandleStart \/ HandleFinish)
  /\ SF_vars(\E f \in Finishers : DelayOver(f))
  /\ \A f \in Finishers : WF_vars(FinishWork(f))
  /\ WF_vars(Poll)
  /\ WF_vars(PolledDrain) /\ WF_vars(DrainStep)

FairSpec == Spec /\ Fairness
-----------------------------------------------------------------------------
TypeOK ==
  /\ PsTypeOK
  /\ polling \in BOOLEAN /\ faulty \in BOOLEAN
  /\ game \in 0 .. MaxGames /\ playing \in BOOLEAN
  /\ bus \in Seq([code : {"GAME_START", "GAME_FINISH"}, game : 1 .. MaxGames])
  /\ gate \in BOOLEAN
  /\ pending \in Seq(Pending) /\ Cardinality(Queued) = Len(pending)
  /\ \A S \in {fetched, givenUp} : S \subseteq 1 .. MaxGames
  /\ lastBusGame \in 0 .. MaxGames /\ lastGameNum \in 0 .. MaxGames
  /\ delays \in Seq(0 .. MaxGames)
  /\ finishPending \in BOOLEAN /\ pollDrain \in BOOLEAN
  /\ resultsMu \in {"free", "drain", "other"}
  /\ drain \in [pc : {"idle", "next", "connect", "dial", "fetch", "clear"}, todo : SUBSET (1 .. MaxGames),
                game : 0 .. MaxGames, deferred : BOOLEAN, by : Finishers \cup {"poll"}]
  /\ finisher \in [Finishers -> {"idle", "mark", "gate", "claim", "drain", "wait", "remark", "refresh"}]
  /\ other \in [pc : {"idle", "connect", "dial", "open"}, kind : {"refresh", "command"}]

(* A game leaves the queue for one of three reasons, whatever the bus, the  *)
(* polls, the drain and commands do to it meanwhile: central has it, it is  *)
(* given up (the self-report says so), or it is of the oldest in a queue    *)
(* too long for an absent print server (counted in the self-report).        *)
(* (queueFetch, noteFetchFailure, markFetched, clearPending)                *)
LeavesAccountedFor ==
  [][\A n \in Queued \ Queued' :
       \/ n \in fetched' \cup givenUp'
       \/ /\ presence = "absent" /\ Len(pending') = MaxPending
          /\ \E i \in 1 .. Len(pending) + 1 - MaxPending : pending[i].game = n]_vars

(* A game given up is not queued: no poll that still reads it finished, no  *)
(* bus event and no late failure starts its attempts again (queueFetch,     *)
(* noteFetchFailure).                                                       *)
GivenUpRests == givenUp \cap Queued = {}

(* From some moment on no game is being played, the gate stays open, the    *)
(* print server answers, and no drain finds resultsMu taken.                *)
GoodTimes ==
  /\ <>[](gate /\ ~playing)
  /\ <>[][~(DialFails \/ OtherDialFails \/ (PutOff /\ gate))]_vars

(* Whatever came before those times (games, shut gates, failed dials and    *)
(* fetches, commands in the way), every game queued comes to an end in      *)
(* them.  With polls noticing finished games, by the drains they launch.    *)
(* With polling off nothing but finishWork drains what the bus queued: what *)
(* a drain put off is marked again, and a mark is never claimed without the *)
(* work being done; then a print server is needed that serves what it is    *)
(* asked for.  (drainPendingFetches and its report, noteFetchFailure,       *)
(* onPrintServerBack, finishWork)                                           *)
Settles == GoodTimes /\ (polling \/ ~faulty) => <>[](pending = <<>>)
=============================================================================
