------------------------------ MODULE GameGate ------------------------------
(***************************************************************************)
(* The gate that keeps the agent off the O-Zone print server while a game  *)
(* is played (internal/app/app.go, internal/ozone/client.go).              *)
(*                                                                         *)
(* Three goroutines write what the gate reads: the poll loop (collect),    *)
(* the connection's reader (observeFrame) and the message bus client       *)
(* (handleBusEvent), and a timer goroutine ends the finish delay.  Around  *)
(* them is O-Zone itself: a server whose mode changes when it likes, that  *)
(* answers this agent's requests late, shows it replies meant for other    *)
(* clients, with or without an echo of the command, and may lose events.   *)
(*                                                                         *)
(* The code's counters startSignals and prevStarts, and the sample starts  *)
(* a poll takes of the first, are only ever compared for equality, and the *)
(* first only grows.  The model keeps the two comparisons:                 *)
(*   sinceThis == startSignals # starts,                                   *)
(*   sinceLast == startSignals # prevStarts.                               *)
(***************************************************************************)
EXTENDS Naturals, Sequences

CONSTANTS
  Modes,       \* the server modes O-Zone goes through
  Echoes,      \* whether its replies echo the command: {TRUE}, {FALSE} or both
  QueueCap,    \* frames the reader keeps for the caller (frameQueue)
  KeepCap,     \* dropped frames a poll keeps for its verdict (maxDiscarded)
  WireCap,     \* bound: frames in transit
  BusCap,      \* bound: bus events in transit
  MaxChaos     \* bound: mode changes, other clients' frames and failures

(* toInt of a reply that carries no SERVERMODE. *)
NoMode == 0

(* gameActive: starting, running, paused or pre-game. *)
GameActive(m) == m \in {3, 4, 5, 6, 10, 12, 13, 14, 15, 16, 17}

(* printServerSafe: idle, running idle, finished, aborted, history, post-game. *)
PrintServerSafe(m) == m \in {1, 2, 7, 8, 9, 18}

ASSUME ConstantsAssumption ==
  /\ Modes \subseteq Nat
  /\ \E m \in Modes : PrintServerSafe(m)
  /\ Echoes \subseteq BOOLEAN
  /\ QueueCap \in Nat \ {0}
  /\ KeepCap \in Nat \ {0}
  /\ WireCap \in Nat
  /\ BusCap \in Nat
  /\ MaxChaos \in Nat

VARIABLES
  \* O-Zone and the networks
  ozone,          \* the server's mode
  game,           \* how many games have been started
  wire,           \* frames sent to the agent and not yet read, oldest first
  carried,        \* how many of them were on the wire when the last poll began
  asked,          \* the agent's commands O-Zone has yet to answer
  bus,            \* bus events not yet handled, oldest first
  chaos,          \* how much of MaxChaos has been spent
  \* the connection (ozone.Client)
  queue,          \* frames read and not yet taken by a call
  discarded,      \* frames calls dropped since the record was last started
  lost,           \* lost # 0: a frame was dropped without being kept
  \* the poll loop
  pc,             \* where the poll loop is
  pollMode,       \* the server state this poll took
  sinceThis,      \* a start sign since this poll (or the last one) began
  sinceLast,      \* a start sign since the last completed poll began
  \* what the gate reads
  pollUnsettled, serverMode, fresh, gameState,
  timers,         \* finished games whose afterFinish is still sleeping
  \* history, read by the properties only
  toldByFrame,    \* the last game a frame has shown being played
  toldByBus,      \* the last game whose GAME_START the agent has handled
  begunInGame     \* polls begun since the current game started, up to 2

envVars  == <<ozone, game, wire, carried, asked, bus, chaos>>
connVars == <<queue, discarded, lost>>
pollVars == <<pc, pollMode, sinceThis, sinceLast>>
gateVars == <<pollUnsettled, serverMode, fresh, gameState>>
histVars == <<toldByFrame, toldByBus, begunInGame>>
vars == <<envVars, connVars, pollVars, gateVars, timers, histVars>>

Commands == {"GETSERVERSTATE", "GETACTIVEPACKS"}
NoEcho == "no echo"

(* A frame: the command it echoes, if any, the mode it carries, if any, and *)
(* (history) the game count when O-Zone sent it.                            *)
Frame == [cmd : Commands \cup {NoEcho}, mode : Modes \cup {NoMode}, game : Nat]

BusEvent == [code : {"GAME_START", "GAME_FINISH", "IDLE"}, game : Nat]

Playing == GameActive(ozone)

(* Answers: the frame echoes the command, or nothing. *)
Answers(f, cmd) == f.cmd \in {cmd, NoEcho}

(* mayBeServerState: it echoes GETSERVERSTATE, or nothing and has a mode. *)
MayBeServerState(f) ==
  Answers(f, "GETSERVERSTATE") /\ (f.cmd # NoEcho \/ f.mode # NoMode)

(***************************************************************************)
(* What the gate decides.                                                  *)
(***************************************************************************)
GateOpen ==
  /\ fresh
  /\ PrintServerSafe(serverMode)
  /\ gameState = "idle"
  /\ ~pollUnsettled

(* noteServerMode: the reading and its age change together. *)
NoteServerMode(m) == serverMode' = m /\ fresh' = TRUE

(* Mutant of Reconciled: a stale active state is never cleared. *)
ReconciledNeverIdle(m, u) == IF GameActive(m) THEN "active" ELSE gameState

(* reconcileState(m), when pollUnsettled has (or is being given) value u. *)
Reconciled(m, u) ==
  IF GameActive(m) THEN "active"
  ELSE IF PrintServerSafe(m) /\ ~u /\ gameState = "active" THEN "idle"
  ELSE gameState

(* Mutant of AfterSend: a waiting frame may be taken for the reply. *)
AfterSendUndrained(q) == q

(* What Flush and Command leave waiting as a request goes out: a frame that *)
(* arrived before it was sent is never its reply.                           *)
AfterSend(q) == <<>>

(* Mutant of HasRoom: off by one. *)
HasRoomOffByOne == Len(queue) <= QueueCap

(* Client.admit: the reader may queue another frame. *)
HasRoom == Len(queue) < QueueCap

(* Client.keep: of the frames dropped, KeepCap are remembered. *)
Kept(frames) == IF Len(frames) <= KeepCap THEN frames ELSE SubSeq(frames, 1, KeepCap)
-----------------------------------------------------------------------------
Init ==
  /\ ozone \in Modes
  /\ game = IF GameActive(ozone) THEN 1 ELSE 0
  /\ wire = <<>> /\ carried = 0 /\ asked = {} /\ bus = <<>> /\ chaos = 0
  /\ queue = <<>> /\ discarded = <<>> /\ lost = FALSE
  /\ pc = "wait" /\ pollMode = NoMode
  /\ sinceThis = FALSE /\ sinceLast = FALSE
  /\ pollUnsettled = FALSE /\ serverMode = 0 /\ fresh = FALSE
  /\ gameState = "idle" /\ timers = {}
  /\ toldByFrame = 0 /\ toldByBus = 0 /\ begunInGame = 0

-----------------------------------------------------------------------------
(***************************************************************************)
(* O-Zone.                                                                 *)
(***************************************************************************)
Disturb == chaos < MaxChaos /\ chaos' = chaos + 1

(* The bus event a mode change is announced with. *)
Announced(m) ==
  IF Playing THEN IF GameActive(m) THEN {} ELSE {"GAME_FINISH", "IDLE"}
  ELSE IF GameActive(m) THEN {"GAME_START"}
  ELSE IF PrintServerSafe(m) THEN {"IDLE"} ELSE {}

(* The server changes mode; the bus announces it, or the event is lost. *)
ModeChange(m) ==
  /\ m # ozone
  /\ Disturb
  /\ ozone' = m
  /\ game' = IF GameActive(m) /\ ~Playing THEN game + 1 ELSE game
  /\ begunInGame' = IF GameActive(m) /\ ~Playing THEN 0 ELSE begunInGame
  /\ \/ UNCHANGED bus
     \/ /\ Len(bus) < BusCap
        /\ \E e \in Announced(m) :
             bus' = Append(bus, [code |-> e, game |-> game'])
  /\ UNCHANGED <<wire, carried, asked, connVars, pollVars, gateVars, timers,
                 toldByFrame, toldByBus>>

(* A reply to cmd as O-Zone words it now: echoing the command or not. *)
Send(cmd, echo) ==
  /\ Len(wire) < WireCap
  /\ wire' = Append(wire,
       [cmd  |-> IF echo THEN cmd ELSE NoEcho,
        mode |-> IF cmd = "GETSERVERSTATE" THEN ozone ELSE NoMode,
        game |-> game])

(* O-Zone answers a command of this agent's. *)
Answer(cmd, echo) ==
  /\ cmd \in asked
  /\ asked' = asked \ {cmd}
  /\ Send(cmd, echo)
  /\ UNCHANGED <<ozone, game, carried, bus, chaos, connVars, pollVars,
                 gateVars, timers, histVars>>

(* The agent is shown the reply to another client's command. *)
OtherClient(cmd, echo) ==
  /\ Disturb
  /\ Send(cmd, echo)
  /\ UNCHANGED <<ozone, game, carried, asked, bus, connVars, pollVars,
                 gateVars, timers, histVars>>
-----------------------------------------------------------------------------
(***************************************************************************)
(* The connection's reader: observeFrame, then the queue if there is room. *)
(***************************************************************************)
ReadFrame ==
  /\ wire # <<>>
  /\ LET f == Head(wire) IN
       /\ wire' = Tail(wire)
       /\ carried' = IF carried > 0 THEN carried - 1 ELSE 0
       /\ IF MayBeServerState(f) /\ ~PrintServerSafe(f.mode)
          THEN /\ sinceThis' = TRUE /\ sinceLast' = TRUE
               /\ NoteServerMode(f.mode)
               /\ gameState' = Reconciled(f.mode, pollUnsettled)
               /\ toldByFrame' = IF GameActive(f.mode) THEN f.game ELSE toldByFrame
          ELSE UNCHANGED <<sinceThis, sinceLast, serverMode, fresh, gameState, toldByFrame>>
       /\ IF HasRoom
          THEN queue' = Append(queue, f) /\ UNCHANGED lost
          ELSE lost' = TRUE /\ UNCHANGED queue
  /\ UNCHANGED <<ozone, game, asked, bus, chaos, discarded, pc, pollMode,
                 pollUnsettled, timers, toldByBus, begunInGame>>
-----------------------------------------------------------------------------
(***************************************************************************)
(* The message bus client and its handler, and the end of the finish delay. *)
(***************************************************************************)

(* The bus's connection is gone, with the events on their way, and dialled  *)
(* again: what the bus says in between is never heard (see ModeChange).     *)
BusDrops ==
  /\ bus # <<>>
  /\ Disturb
  /\ bus' = <<>>
  /\ UNCHANGED <<ozone, game, wire, carried, asked, connVars, pollVars, gateVars,
                 timers, histVars>>

HandleBusEvent ==
  /\ bus # <<>>
  /\ bus' = Tail(bus)
  /\ LET e == Head(bus) IN
       \/ /\ e.code = "GAME_START"
          /\ sinceThis' = TRUE /\ sinceLast' = TRUE
          /\ gameState' = "active"
          /\ toldByBus' = e.game
          /\ UNCHANGED timers
       \/ /\ e.code = "IDLE"
          /\ gameState' = "idle"
          /\ UNCHANGED <<sinceThis, sinceLast, toldByBus, timers>>
       \/ /\ e.code = "GAME_FINISH"
          /\ gameState' = "finishing"
          /\ timers' = timers \cup {e.game}
          /\ UNCHANGED <<sinceThis, sinceLast, toldByBus>>
  /\ UNCHANGED <<ozone, game, wire, carried, asked, chaos, connVars, pc, pollMode,
                 pollUnsettled, serverMode, fresh, toldByFrame, begunInGame>>

(* afterFinish: the delay of game g's finish is over. *)
AfterFinish(g) ==
  /\ g \in timers
  /\ timers' = timers \ {g}
  /\ gameState' = IF gameState = "finishing" THEN "idle" ELSE gameState
  /\ UNCHANGED <<envVars, connVars, pollVars, pollUnsettled, serverMode, fresh,
                 histVars>>
-----------------------------------------------------------------------------
(***************************************************************************)
(* The poll loop: collect.                                                 *)
(***************************************************************************)

(* Frames O-Zone sent before the last poll began have all been read when    *)
(* the next one begins: polls are at least PollInterval apart.             *)
Punctual == carried = 0

(* Flush, sample the start signs and send GETSERVERSTATE. *)
BeginPoll ==
  /\ pc = "wait"
  /\ Punctual
  /\ pc' = "state"
  /\ queue' = AfterSend(queue) /\ discarded' = <<>> /\ lost' = FALSE
  /\ sinceThis' = FALSE
  /\ asked' = asked \cup {"GETSERVERSTATE"}
  /\ carried' = Len(wire)
  /\ begunInGame' = IF Playing /\ begunInGame < 2 THEN begunInGame + 1 ELSE begunInGame
  /\ UNCHANGED <<ozone, game, wire, bus, chaos, pollMode, sinceLast, gateVars,
                 timers, toldByFrame, toldByBus>>

(* Command waiting for the reply to cmd drops a frame that is not one. *)
DropForeign(cmd) ==
  /\ queue # <<>>
  /\ ~Answers(Head(queue), cmd)
  /\ discarded' = Kept(Append(discarded, Head(queue)))
  /\ lost' = (lost \/ Len(discarded) >= KeepCap)
  /\ queue' = Tail(queue)
  /\ UNCHANGED <<envVars, pollVars, gateVars, timers, histVars>>

(* The server state is in.  A reading that closes the gate is acted on now; *)
(* the frames kept so far are forgotten; those waiting are stale for the    *)
(* GETACTIVEPACKS that goes out next, and are kept as it drains them.       *)
TakeState ==
  /\ pc = "state"
  /\ queue # <<>>
  /\ Answers(Head(queue), "GETSERVERSTATE")
  /\ LET m == Head(queue).mode IN
       /\ pollMode' = m
       /\ IF PrintServerSafe(m)
          THEN UNCHANGED <<serverMode, fresh, gameState>>
          ELSE NoteServerMode(m) /\ gameState' = Reconciled(m, pollUnsettled)
  /\ discarded' = Kept(Tail(queue))
  /\ lost' = (lost \/ Len(queue) - 1 > KeepCap)
  /\ queue' = AfterSend(Tail(queue))
  /\ asked' = asked \cup {"GETACTIVEPACKS"}
  /\ pc' = "packs"
  /\ UNCHANGED <<ozone, game, wire, carried, bus, chaos, sinceThis, sinceLast,
                 pollUnsettled, timers, histVars>>

(* The packs are in; their frame is judged with the dropped ones. *)
TakePacks ==
  /\ pc = "packs"
  /\ queue # <<>>
  /\ Answers(Head(queue), "GETACTIVEPACKS")
  /\ discarded' = Append(discarded, Head(queue))
  /\ queue' = Tail(queue)
  /\ pc' = "verdict"
  /\ UNCHANGED <<envVars, lost, pollMode, sinceThis, sinceLast, gateVars, timers,
                 histVars>>

(* The frames beside this poll's replies that read otherwise than idle. *)
Dissent ==
  {i \in DOMAIN discarded : MayBeServerState(discarded[i])
                            /\ ~PrintServerSafe(discarded[i].mode)}

(* Mutant of Settled: start signs are not consulted. *)
SettledDespiteStart == ~lost /\ PrintServerSafe(pollMode) /\ Dissent = {}

(* The poll's reading is its own and nothing says a game has started. *)
Settled ==
  /\ ~lost
  /\ PrintServerSafe(pollMode)
  /\ Dissent = {}
  /\ ~sinceLast

(* The mode this poll may end with: what it took, unless that is no game    *)
(* and a frame beside it reads otherwise than idle; a game being played     *)
(* then wins.  Which of several such frames wins is left open.              *)
VerdictModes ==
  LET ModesOf(I) == {discarded[i].mode : i \in I}
      playing == {i \in Dissent : GameActive(discarded[i].mode)}
  IN  IF GameActive(pollMode) \/ Dissent = {} THEN {pollMode}
      ELSE IF playing # {} THEN ModesOf(playing)
      ELSE ModesOf(Dissent)

(* The verdict, under stateMu. *)
Verdict ==
  /\ pc = "verdict"
  /\ sinceLast' = sinceThis
  /\ pollUnsettled' = ~Settled
  /\ \E m \in VerdictModes :
       NoteServerMode(m) /\ gameState' = Reconciled(m, ~Settled)
  /\ discarded' = <<>> /\ lost' = FALSE
  /\ pc' = "wait"
  /\ pollMode' = NoMode
  /\ UNCHANGED <<envVars, queue, sinceThis, timers, histVars>>

(* A call fails: the poll ends unsettled and its connection is closed.      *)
CallFails ==
  /\ pc \in {"state", "packs"}
  /\ pollUnsettled' = TRUE
  /\ pc' = "down"
  /\ pollMode' = NoMode
  /\ UNCHANGED <<ozone, game, wire, carried, asked, bus, connVars, sinceThis,
                 sinceLast, serverMode, fresh, gameState, timers, histVars>>

(* The connection is gone, or the reply is later than replyTimeout. *)
Fail == Disturb /\ CallFails

(* The reply was lost (the queue was full): replyTimeout passes without it. *)
TimeOut ==
  /\ asked = {} /\ wire = <<>> /\ queue = <<>>
  /\ CallFails
  /\ UNCHANGED chaos

(* Run dials again: a new connection starts with nothing on it. *)
Reconnect ==
  /\ pc = "down"
  /\ pc' = "wait"
  /\ wire' = <<>> /\ carried' = 0 /\ asked' = {}
  /\ queue' = <<>> /\ discarded' = <<>> /\ lost' = FALSE
  /\ UNCHANGED <<ozone, game, bus, chaos, pollMode, sinceThis, sinceLast, gateVars,
                 timers, histVars>>

(* The reading grows older than maxServerModeAge (see ModeFreshness). *)
Age ==
  /\ fresh
  /\ pc = "down"
  /\ fresh' = FALSE
  /\ UNCHANGED <<envVars, connVars, pollVars, pollUnsettled, serverMode, gameState,
                 timers, histVars>>
-----------------------------------------------------------------------------
OZone ==
  \/ \E m \in Modes : ModeChange(m)
  \/ \E cmd \in Commands, echo \in Echoes : Answer(cmd, echo) \/ OtherClient(cmd, echo)

PollLoop ==
  \/ BeginPoll
  \/ pc = "state" /\ DropForeign("GETSERVERSTATE")
  \/ pc = "packs" /\ DropForeign("GETACTIVEPACKS")
  \/ TakeState \/ TakePacks \/ Verdict \/ TimeOut \/ Reconnect

Next ==
  \/ OZone
  \/ ReadFrame
  \/ HandleBusEvent \/ BusDrops
  \/ \E g \in timers : AfterFinish(g)
  \/ PollLoop
  \/ Fail
  \/ Age

Spec == Init /\ [][Next]_vars

(* Every goroutine keeps running, and O-Zone answers what it is asked. *)
Fairness ==
  /\ WF_vars(PollLoop)
  /\ WF_vars(ReadFrame)
  /\ WF_vars(HandleBusEvent)
  /\ WF_vars(\E g \in timers : AfterFinish(g))
  /\ \A cmd \in Commands : WF_vars(\E echo \in Echoes : Answer(cmd, echo))

FairSpec == Spec /\ Fairness
-----------------------------------------------------------------------------
TypeOK ==
  /\ ozone \in Modes /\ game \in Nat
  /\ wire \in Seq(Frame) /\ carried \in 0..Len(wire)
  /\ asked \subseteq Commands
  /\ bus \in Seq(BusEvent) /\ chaos \in 0..MaxChaos
  /\ queue \in Seq(Frame) /\ Len(queue) <= QueueCap
  /\ discarded \in Seq(Frame) /\ lost \in BOOLEAN
  /\ pc \in {"wait", "state", "packs", "verdict", "down"}
  /\ pollMode \in Modes \cup {NoMode}
  /\ sinceThis \in BOOLEAN /\ sinceLast \in BOOLEAN
  /\ pollUnsettled \in BOOLEAN /\ fresh \in BOOLEAN
  /\ serverMode \in Modes \cup {NoMode}
  /\ gameState \in {"idle", "active", "finishing"}
  /\ timers \subseteq Nat
  /\ toldByFrame \in Nat /\ toldByBus \in Nat /\ begunInGame \in 0..2

(* The agent has handled a sign that the current game is being played: the  *)
(* bus's GAME_START, or a server state sent during the game.                *)
Told == toldByFrame = game \/ toldByBus = game

(* Once any goroutine of the agent has handled a sign of the game now being *)
(* played, the print server stays off limits until that game is over: no    *)
(* idle reading from before the start, however late it turns up, no other   *)
(* client's reply, no late bus event of an earlier game and no finish timer *)
(* opens the gate (collect, observeFrame, handleBusEvent, afterFinish).     *)
ShutOnceTold == Playing /\ Told => ~GateOpen

(* Two polls are enough to notice a game with the bus silent: the gate is   *)
(* shut once a poll has completed that was not the first begun in the game  *)
(* (collect's Flush, and Command's refusal of frames older than its         *)
(* request).                                                                *)
ShutAfterTwoPolls == Playing /\ begunInGame = 2 /\ pc = "wait" => ~GateOpen

(* O-Zone's answers to a poll are all in before the next poll begins. *)
AnswersInTime == [][pc = "wait" /\ pc' = "state" => asked = {} /\ wire = <<>>]_vars

(* With O-Zone idle for good and answering within a poll interval, the gate *)
(* does not stay shut for good: an active state the bus never cleared, a    *)
(* start sign, a failed or unsettled poll and a finish delay all come to an *)
(* end (collect's second clean poll, reconcileState, afterFinish).          *)
Reopens == <>[]PrintServerSafe(ozone) /\ <>AnswersInTime => []<>GateOpen
=============================================================================
