------------------------------ MODULE PollLoop ------------------------------
(***************************************************************************)
(* The poll loop's timing (pollLoop, nextPollInterval, pushDue and         *)
(* serverModeFresh in internal/app/app.go) and its count of the frames     *)
(* discarded (internal/app/frames.go), on a host that may be suspended and *)
(* whose wall clock may be set back.                                       *)
(*                                                                         *)
(* Times are kept as ages, up to where they stop making a difference.  The *)
(* monotonic clock stops while the host is suspended; timers and the age   *)
(* of the last slow poll go by it.  lastPushAt is kept by the wall clock,  *)
(* serverModeAt by both.                                                   *)
(***************************************************************************)
EXTENDS Integers

CONSTANTS
  Modes,             \* SERVERMODE values: 1 idle, 3 in a game, 11 neither
  PollInterval,      \* the in-game cadence
  IdlePollInterval,
  SlowPollInterval,
  MaxAge,            \* maxServerModeAge
  MaxDiscards        \* bound: frames discarded, in all and as a connection closes

ASSUME PollLoopAssumption ==
  /\ Modes \subseteq {1, 3, 11}
  /\ PollInterval \in Nat \ {0} /\ IdlePollInterval \in Nat /\ SlowPollInterval \in Nat
  /\ PollInterval <= IdlePollInterval /\ IdlePollInterval <= SlowPollInterval
  /\ MaxAge \in Nat /\ MaxDiscards \in Nat

(* An age by the wall clock while that has been set back. *)
Back == -1

(* An age past maxServerModeAge, and a time without samples past any.       *)
Stale == MaxAge + 1
LongSilent == SlowPollInterval + 2

VARIABLES
  pc,            \* "down", "wait" for the timer, "polling", or "closing"
  timer,         \* what is left of it
  long,          \* the poll has taken a unit of time, the most it takes
  payload,       \* the mode the poll's payload carries; 0 between polls
  slow,          \* whether it is a slow poll
  serverMode,    \* App.serverMode: this loop's, or the connection's reader's
  lastPushMode,
  sinceSlow,     \* age of lastSlow
  pushWall,      \* age of lastPushAt, by the wall clock
  readMono,      \* age of serverModeAt
  readWall,      \* age of serverModeWall
  readReal,      \* history: how old the reading is
  sentMode,      \* history: the mode the last payload enqueued carried
  sinceSent,     \* history: time since it was
  setBack,       \* history: the wall clock was set back since lastPushAt
  warped,        \* history: since the reading: slept, set back
  tally          \* frameTally and the connection's counters

readVars == <<serverMode, readMono, readWall, readReal, warped>>
pushVars == <<lastPushMode, pushWall, sentMode, sinceSent, setBack>>
loopVars == <<pc, timer, long, payload, slow, sinceSlow>>
timingVars == <<readVars, pushVars, loopVars, tally>>

(* Discarded frames: those that answered others or came between requests,   *)
(* and those dropped with the queue full.                                   *)
Kinds == {"foreign", "overflow"}

Zero == [k \in Kinds |-> 0]

Plus(a, b) == [k \in Kinds |-> a[k] + b[k]]

(* frameTally's zero value: the connection's counters and those last seen,  *)
(* the total, what is not logged yet, and (history) what was counted and    *)
(* logged.                                                                  *)
NoTally ==
  [count |-> Zero, seen |-> Zero, total |-> Zero, pending |-> Zero, explained |-> FALSE,
   window |-> "none", counted |-> Zero, said |-> Zero]

PrintServerSafe(m) == m = 1
GameActive(m) == m = 3

LoopInit ==
  /\ pc = "down" /\ timer = 0 /\ long = FALSE /\ payload = 0 /\ slow = FALSE
  /\ serverMode \in Modes /\ lastPushMode = serverMode /\ sentMode = serverMode
  /\ sinceSlow = SlowPollInterval /\ pushWall = IdlePollInterval
  /\ sinceSent = 0 /\ setBack = FALSE
  /\ readMono = Stale /\ readWall = Stale /\ readReal = Stale
  /\ warped = [slept |-> FALSE, setBack |-> FALSE]
  /\ tally = NoTally
-----------------------------------------------------------------------------
(***************************************************************************)
(* frameTally.                                                             *)
(***************************************************************************)

(* grown: a counter lower than last seen is a new connection's. *)
Grown(now, was) == [k \in Kinds |-> IF now[k] < was[k] THEN now[k] ELSE now[k] - was[k]]

Sample(t) ==
  LET d == Grown(t.count, t.seen)
  IN  [t EXCEPT !.seen = t.count, !.total = Plus(@, d), !.pending = Plus(@, d)]

(* Mutant of LastSample: what was counted since the last poll is forgotten. *)
LastSampleNot(t) == t

(* pollLoop's last act on a connection. *)
LastSample(t) == Sample(t)

(* Mutant of NewConnection: the counters last seen are the old connection's. *)
NewConnectionSeen(t) == [t EXCEPT !.count = Zero]

NewConnection(t) == [t EXCEPT !.count = Zero, !.seen = Zero]

(* lines: the explanation, which does not speak of full queues, or the      *)
(* summary when its time has come.                                          *)
Lines(t) ==
  IF ~t.explained /\ t.total["foreign"] > 0
  THEN [t EXCEPT !.explained = TRUE, !.pending["foreign"] = 0, !.window = "open",
                 !.said["foreign"] = @ + t.pending["foreign"]]
  ELSE IF t.pending # Zero /\ t.window # "open"
  THEN [t EXCEPT !.pending = Zero, !.said = Plus(@, t.pending), !.window = "open"]
  ELSE t

Ended == pc \in {"closing", "down"}

Discard ==
  /\ ~Ended
  /\ \E k \in Kinds :
       /\ tally.counted["foreign"] + tally.counted["overflow"] < MaxDiscards
       /\ tally' = [tally EXCEPT !.count[k] = @ + 1, !.counted[k] = @ + 1]
  /\ UNCHANGED <<readVars, pushVars, loopVars>>

(* After the last sample the reader still runs, and nobody counts.          *)
DiscardUnseen ==
  /\ pc = "closing"
  /\ \E k \in Kinds :
       /\ tally.count["foreign"] + tally.count["overflow"] < MaxDiscards
       /\ tally' = [tally EXCEPT !.count[k] = @ + 1]
  /\ UNCHANGED <<readVars, pushVars, loopVars>>

HourPasses ==
  /\ tally.window = "open"
  /\ tally' = [tally EXCEPT !.window = "over"]
  /\ UNCHANGED <<readVars, pushVars, loopVars>>
-----------------------------------------------------------------------------
(***************************************************************************)
(* Time.                                                                   *)
(***************************************************************************)
Older(age, limit) == IF age = limit THEN limit ELSE age + 1

(* A wall clock that was set back catches up with itself some time.         *)
OlderByWall(age, limit) == IF age = Back THEN {Back, 0} ELSE {Older(age, limit)}

TimePasses ==
  /\ \/ pc = "wait" /\ timer > 0 /\ timer' = timer - 1 /\ UNCHANGED long
     \/ pc = "polling" /\ ~long /\ long' = TRUE /\ UNCHANGED timer
     \/ Ended /\ UNCHANGED <<timer, long>>
  /\ sinceSlow' = Older(sinceSlow, SlowPollInterval)
  /\ pushWall' \in OlderByWall(pushWall, IdlePollInterval)
  /\ readMono' = Older(readMono, Stale) /\ readWall' \in OlderByWall(readWall, Stale)
  /\ readReal' = Older(readReal, Stale)
  /\ sinceSent' = Older(sinceSent, LongSilent)
  /\ UNCHANGED <<pc, payload, slow, serverMode, warped, lastPushMode, sentMode, setBack, tally>>

(* The host sleeps for longer than any limit. *)
Suspend ==
  /\ pushWall' = IdlePollInterval /\ readWall' = Stale /\ readReal' = Stale
  /\ warped' = [warped EXCEPT !.slept = TRUE]
  /\ UNCHANGED <<loopVars, serverMode, readMono, lastPushMode, sentMode, sinceSent, setBack, tally>>

(* The wall clock is set back. *)
SetBack ==
  /\ pushWall' = Back /\ readWall' = Back
  /\ setBack' = TRUE /\ warped' = [warped EXCEPT !.setBack = TRUE]
  /\ UNCHANGED <<loopVars, serverMode, readMono, readReal, lastPushMode, sentMode, sinceSent, tally>>
-----------------------------------------------------------------------------
(***************************************************************************)
(* Readings, and whether they are fresh.                                   *)
(***************************************************************************)

(* noteServerMode *)
NoteServerMode(m) ==
  /\ serverMode' = m
  /\ readMono' = 0 /\ readWall' = 0 /\ readReal' = 0
  /\ warped' = [slept |-> FALSE, setBack |-> FALSE]

(* Mutant of ServerModeFresh: by the monotonic clock alone. *)
ServerModeFreshMono == readMono <= MaxAge

ServerModeFresh == readMono <= MaxAge /\ readWall <= MaxAge

(* observeFrame: the reader takes any reading that shuts the gate. *)
ObserveFrame ==
  /\ pc # "down"
  /\ \E m \in Modes : ~PrintServerSafe(m) /\ NoteServerMode(m)
  /\ UNCHANGED <<pushVars, loopVars, tally>>
-----------------------------------------------------------------------------
(***************************************************************************)
(* pollLoop.                                                               *)
(***************************************************************************)
BeginLoop ==
  /\ pc = "down"
  /\ pc' = "wait" /\ timer' = 0
  /\ tally' = NewConnection(tally) /\ sinceSlow' = SlowPollInterval
  /\ UNCHANGED <<readVars, pushVars, long, payload, slow>>

(* The poll reads the server state, now or as it was a moment ago. *)
BeginPoll ==
  /\ pc = "wait" /\ timer = 0
  /\ pc' = "polling" /\ long' = FALSE
  /\ slow' = (sinceSlow >= SlowPollInterval)
  /\ \E m \in Modes : payload' = m /\ NoteServerMode(m)
  /\ UNCHANGED <<pushVars, timer, sinceSlow, tally>>

PollOver == long' = FALSE /\ payload' = 0 /\ slow' = FALSE

PollFails ==
  /\ pc = "polling"
  /\ pc' = "closing"
  /\ tally' = LastSample(tally)
  /\ PollOver
  /\ UNCHANGED <<readVars, pushVars, timer, sinceSlow>>

(* Run closes the connection when pollLoop has returned. *)
CloseClient ==
  /\ pc = "closing"
  /\ pc' = "down"
  /\ UNCHANGED <<readVars, pushVars, timer, long, payload, slow, sinceSlow, tally>>

(* The interval, by whether play is under way, which the bus may say too.   *)
(* The next poll comes at the fast rate also for print-server work and      *)
(* after an unsettled poll.                                                 *)
TelemetryIntervals ==
  IF GameActive(serverMode) THEN {PollInterval} ELSE {PollInterval, IdlePollInterval}

NextPollIntervals == TelemetryIntervals

(* Mutant of PushDue: only the interval counts. *)
PushDueByTime(interval) == slow \/ pushWall >= interval

PushDue(interval) == slow \/ serverMode # lastPushMode \/ pushWall >= interval

Enqueue ==
  /\ lastPushMode' = serverMode /\ pushWall' = 0
  /\ sentMode' = payload /\ sinceSent' = 0 /\ setBack' = FALSE

EndPoll(interval) ==
  /\ pc = "polling"
  /\ interval \in TelemetryIntervals
  /\ IF PushDue(interval) THEN Enqueue ELSE UNCHANGED pushVars
  /\ sinceSlow' = IF slow THEN 0 ELSE sinceSlow
  /\ tally' = IF slow THEN Lines(Sample(tally)) ELSE Sample(tally)
  /\ pc' = "wait" /\ timer' \in NextPollIntervals
  /\ PollOver
  /\ UNCHANGED readVars

EndOfPoll == \E interval \in TelemetryIntervals : EndPoll(interval)

LoopNext ==
  \/ BeginLoop \/ BeginPoll \/ PollFails \/ CloseClient \/ EndOfPoll \/ ObserveFrame
  \/ Discard \/ DiscardUnseen \/ HourPasses
  \/ TimePasses \/ Suspend \/ SetBack

LoopSpec == LoopInit /\ [][LoopNext]_timingVars
-----------------------------------------------------------------------------
LoopTypeOK ==
  /\ pc \in {"down", "wait", "polling", "closing"} /\ timer \in 0 .. IdlePollInterval
  /\ long \in BOOLEAN /\ slow \in BOOLEAN /\ setBack \in BOOLEAN
  /\ payload \in Modes \cup {0} /\ {serverMode, lastPushMode, sentMode} \subseteq Modes
  /\ sinceSlow \in 0 .. SlowPollInterval /\ sinceSent \in 0 .. LongSilent
  /\ pushWall \in Back .. IdlePollInterval
  /\ {readMono, readReal} \subseteq 0 .. Stale /\ readWall \in Back .. Stale
  /\ warped \in [slept : BOOLEAN, setBack : BOOLEAN]
  /\ \A k \in Kinds : tally.seen[k] <= tally.count[k] /\ tally.pending[k] <= tally.total[k]

(* A reading that opens the print-server gate is recent: not from before a  *)
(* suspend, during which the monotonic clock stood, nor from before an      *)
(* outage that a wall clock set back hides.  Only both together pass        *)
(* (serverModeFresh, noteServerMode).                                       *)
FreshIsRecent ==
  ServerModeFresh => readReal <= MaxAge \/ (warped.slept /\ warped.setBack)

(* What the throttle withholds is a repeat (pushDue).  "A CHANGE OF SERVER  *)
(* MODE always goes": central is not left with a game in progress that has  *)
(* ended, nor without one that has begun, though what pushDue compares is   *)
(* not what the payloads carried but what the connection's reader had put   *)
(* there by then; but for a wall clock set back, or a reader's newer        *)
(* reading that stands.  And however far that clock is set back, a poll is  *)
(* withheld only within a slow-poll interval of one that was sent, whatever *)
(* failed or was connected anew in between (pollLoop's lastSlow).           *)
WithholdsOnlyRepeats ==
  [][\A i \in TelemetryIntervals :
       EndPoll(i) /\ UNCHANGED pushVars =>
         /\ sinceSent <= SlowPollInterval
         /\ ~setBack /\ serverMode = payload =>
              payload = sentMode \/ ~(PrintServerSafe(payload) \/ GameActive(payload))]_timingVars

(* Every frame discarded, on whichever connection, is counted once, and     *)
(* every one counted is logged about once or waits to be (frameTally).  Of  *)
(* a connection that has ended, and between polls, nothing is left over,    *)
(* but for what is discarded between the last sample and the closing.       *)
DiscardsAddUp ==
  /\ Plus(tally.said, tally.pending) = tally.total
  /\ Plus(tally.total, IF Ended THEN Zero ELSE Grown(tally.count, tally.seen)) = tally.counted
=============================================================================
