--------------------------- MODULE GameGateProofs ---------------------------
(***************************************************************************)
(* Proofs about GameGate, and about the check a goroutine makes of it in   *)
(* GateCheck, for every set of modes and every bound.                      *)
(*                                                                         *)
(* The argument: once told of the game, a poll may settle only if no sign  *)
(* has come since the poll before it began (sinceLast).  Then the sign is  *)
(* older than that poll, so with frames on the wire for less than a poll   *)
(* (Punctual) everything this poll can take was sent during the game and   *)
(* reads as one, and it does not settle.  Until a poll settles, the state  *)
(* the bus set stays active, and a state a frame set stays out of reach.   *)
(* A check that goes part by part finds, of what shuts the gate as it      *)
(* begins, one part that stays as it is until the game is over.            *)
(***************************************************************************)
EXTENDS GateCheck, SequenceTheorems, TLAPS

(* What O-Zone sends during the current game, if it carries a mode, says so. *)
ReadsAsGame(f) == f.game = game /\ f.mode # NoMode => GameActive(f.mode)

FramesInv ==
  /\ \A i \in DOMAIN wire  : wire[i].game <= game /\ (Playing => ReadsAsGame(wire[i]))
  /\ \A i \in DOMAIN queue : queue[i].game <= game /\ (Playing => ReadsAsGame(queue[i]))

(* The current game's start is the bus's last word while it is played. *)
BusInv ==
  /\ \A i \in DOMAIN bus :
       /\ bus[i].game <= game
       /\ Playing /\ bus[i].game = game => i = Len(bus) /\ bus[i].code = "GAME_START"
  /\ Playing /\ toldByBus = game => bus = <<>> /\ gameState = "active"

HistoryInv ==
  /\ toldByFrame <= game /\ toldByBus <= game
  /\ Playing => game > 0
  /\ ~sinceLast => ~sinceThis
  /\ pc = "down" => pollUnsettled

(* Every frame a poll may still take was sent during the current game. *)
OnlyGameOnWire == \A i \in DOMAIN wire : wire[i].game = game
OnlyGameQueued == \A i \in DOMAIN queue : queue[i].game = game
OnlyGameSince  == \A i \in DOMAIN wire : i > carried => wire[i].game = game

InPoll == pc \in {"state", "packs", "verdict"}
PollReadsGame ==
  /\ OnlyGameOnWire
  /\ OnlyGameQueued
  /\ pc \in {"packs", "verdict"} => ~PrintServerSafe(pollMode)

ToldInv ==
  Playing /\ Told =>
    /\ ~sinceThis => OnlyGameSince
    /\ ~sinceLast /\ InPoll => PollReadsGame

ShutInv ==
  Playing /\ toldByFrame = game => pollUnsettled \/ ~PrintServerSafe(serverMode)

TwoPollsInv ==
  Playing =>
    /\ begunInGame > 0 => OnlyGameSince
    /\ begunInGame = 2 /\ InPoll => PollReadsGame
    /\ begunInGame = 2 /\ pc = "wait" => pollUnsettled

IInv ==
  /\ TypeOK
  /\ FramesInv
  /\ BusInv
  /\ HistoryInv
  /\ ToldInv
  /\ ShutInv
  /\ TwoPollsInv
-----------------------------------------------------------------------------
(* Dropping frames keeps a sequence of frames (Client.keep). *)
LEMMA KeptType ==
  ASSUME NEW S, NEW s \in Seq(S)
  PROVE  Kept(s) \in Seq(S)
<1>1. CASE Len(s) <= KeepCap
  BY <1>1 DEF Kept
<1>2. CASE ~(Len(s) <= KeepCap)
  <2>1. KeepCap \in Nat /\ Len(s) \in Nat
    BY ConstantsAssumption
  <2>2. \A i \in 1..KeepCap : s[i] \in S
    BY <1>2, <2>1
  <2>3. SubSeq(s, 1, KeepCap) \in Seq(S)
    BY <2>1, <2>2, SubSeqProperties
  <2>4. QED
    BY <1>2, <2>3 DEF Kept
<1>3. QED
  BY <1>1, <1>2

(* The empty sequence is of every type. *)
LEMMA NothingQueued == \A S : <<>> \in Seq(S) /\ Len(<<>>) = 0
  OBVIOUS

(* The agent and O-Zone start with everything of its type. *)
LEMMA InitTyped == Init => TypeOK
<1> SUFFICES ASSUME Init PROVE TypeOK
  OBVIOUS
<1>1. /\ wire \in Seq(Frame) /\ carried \in 0..Len(wire)
      /\ queue \in Seq(Frame) /\ Len(queue) <= QueueCap
      /\ bus \in Seq(BusEvent) /\ discarded \in Seq(Frame)
  BY ConstantsAssumption, NothingQueued DEF Init
<1>2. ozone \in Modes /\ game \in Nat /\ chaos \in 0..MaxChaos
  BY ConstantsAssumption DEF Init
<1>3. /\ asked \subseteq Commands /\ timers \subseteq Nat
      /\ pollMode \in Modes \cup {NoMode} /\ serverMode \in Modes \cup {NoMode}
  BY DEF Init, NoMode
<1>4. /\ lost \in BOOLEAN /\ sinceThis \in BOOLEAN /\ sinceLast \in BOOLEAN
      /\ pollUnsettled \in BOOLEAN /\ fresh \in BOOLEAN
  BY DEF Init
<1>5. /\ pc \in {"wait", "state", "packs", "verdict", "down"}
      /\ gameState \in {"idle", "active", "finishing"}
      /\ toldByFrame \in Nat /\ toldByBus \in Nat /\ begunInGame \in 0..2
  BY DEF Init
<1>6. QED
  BY <1>1, <1>2, <1>3, <1>4, <1>5 DEF TypeOK

(* Every step keeps every variable of its type. *)
LEMMA TypeStep == ASSUME TypeOK, [Next]_vars PROVE TypeOK'
<1> USE ConstantsAssumption DEF TypeOK
<1>1. ASSUME NEW m \in Modes, ModeChange(m) PROVE TypeOK'
  <2>1. game' \in Nat
    BY <1>1 DEF ModeChange
  <2>2. \A e \in Announced(m) : e \in {"GAME_START", "GAME_FINISH", "IDLE"}
    BY DEF Announced
  <2>3. bus' \in Seq(BusEvent)
    <3>1. CASE UNCHANGED bus
      BY <3>1
    <3>2. ASSUME NEW e \in Announced(m),
                 bus' = Append(bus, [code |-> e, game |-> game'])
          PROVE  bus' \in Seq(BusEvent)
      <4>1. [code |-> e, game |-> game'] \in BusEvent
        BY <2>1, <2>2 DEF BusEvent
      <4>2. QED
        BY <3>2, <4>1
    <3>3. QED
      BY <1>1, <3>1, <3>2 DEF ModeChange
  <2>4. chaos' \in 0..MaxChaos
    BY <1>1 DEF ModeChange, Disturb
  <2>5. QED
    BY <1>1, <2>1, <2>3, <2>4
    DEF ModeChange, connVars, pollVars, gateVars
<1>2. ASSUME NEW cmd \in Commands, NEW echo \in Echoes, Send(cmd, echo),
             UNCHANGED <<ozone, game, carried, bus, connVars, pollVars, gateVars,
                         timers, histVars>>,
             asked' \subseteq Commands, chaos' \in 0..MaxChaos
      PROVE  TypeOK'
  <2>1. [cmd  |-> IF echo THEN cmd ELSE NoEcho,
         mode |-> IF cmd = "GETSERVERSTATE" THEN ozone ELSE NoMode,
         game |-> game] \in Frame
    BY DEF Frame
  <2>2. wire' \in Seq(Frame) /\ Len(wire') = Len(wire) + 1
    BY <1>2, <2>1 DEF Send
  <2>3. QED
    BY <1>2, <2>2 DEF connVars, pollVars, gateVars, histVars
<1>3. ASSUME NEW cmd \in Commands, NEW echo \in Echoes, Answer(cmd, echo)
      PROVE  TypeOK'
  BY <1>2, <1>3 DEF Answer
<1>4. ASSUME NEW cmd \in Commands, NEW echo \in Echoes, OtherClient(cmd, echo)
      PROVE  TypeOK'
  BY <1>2, <1>4 DEF OtherClient, Disturb
<1>5. CASE ReadFrame
  <2> DEFINE f == Head(wire)
  <2>1. f \in Frame /\ Tail(wire) \in Seq(Frame) /\ Len(Tail(wire)) = Len(wire) - 1
    BY <1>5 DEF ReadFrame
  <2>2. wire' \in Seq(Frame) /\ carried' \in 0..Len(wire')
    BY <1>5, <2>1 DEF ReadFrame
  <2>3. queue' \in Seq(Frame) /\ Len(queue') <= QueueCap /\ lost' \in BOOLEAN
    <3>1. CASE HasRoom
      <4>1. queue' = Append(queue, f) /\ lost' = lost
        BY <1>5, <3>1 DEF ReadFrame
      <4>2. Len(queue) < QueueCap
        BY <3>1 DEF HasRoom
      <4>3. QED
        BY <2>1, <4>1, <4>2
    <3>2. CASE ~HasRoom
      BY <1>5, <3>2 DEF ReadFrame
    <3>3. QED
      BY <3>1, <3>2
  <2>4. f.mode \in Modes \cup {NoMode} /\ f.game \in Nat
    BY <2>1 DEF Frame
  <2>5. gameState' \in {"idle", "active", "finishing"}
    BY <1>5 DEF ReadFrame, Reconciled
  <2>6. /\ sinceThis' \in BOOLEAN /\ sinceLast' \in BOOLEAN /\ fresh' \in BOOLEAN
        /\ serverMode' \in Modes \cup {NoMode} /\ toldByFrame' \in Nat
    BY <1>5, <2>4 DEF ReadFrame, NoteServerMode
  <2>7. QED
    BY <1>5, <2>2, <2>3, <2>5, <2>6 DEF ReadFrame
<1>6. CASE HandleBusEvent
  <2>1. Head(bus) \in BusEvent /\ Tail(bus) \in Seq(BusEvent)
    BY <1>6 DEF HandleBusEvent
  <2>2. Head(bus).game \in Nat
    BY <2>1 DEF BusEvent
  <2>3. QED
    BY <1>6, <2>1, <2>2, ZenonT(30) DEF HandleBusEvent, connVars
<1>7. ASSUME NEW g \in timers, AfterFinish(g) PROVE TypeOK'
  BY <1>7 DEF AfterFinish, envVars, connVars, pollVars, histVars
<1>8. CASE BeginPoll
  <2>1. /\ queue' \in Seq(Frame) /\ Len(queue') <= QueueCap
        /\ discarded' \in Seq(Frame) /\ carried' \in 0..Len(wire')
    BY <1>8, NothingQueued DEF BeginPoll, AfterSend
  <2>2. begunInGame' \in 0..2
    BY <1>8 DEF BeginPoll
  <2>3. QED
    BY <1>8, <2>1, <2>2 DEF BeginPoll, Commands, gateVars
<1>9. ASSUME NEW cmd \in Commands, DropForeign(cmd) PROVE TypeOK'
  <2>1. /\ Head(queue) \in Frame /\ Tail(queue) \in Seq(Frame)
        /\ Len(Tail(queue)) <= QueueCap
    BY <1>9 DEF DropForeign
  <2>2. Append(discarded, Head(queue)) \in Seq(Frame)
    BY <2>1
  <2>3. discarded' \in Seq(Frame)
    BY <1>9, <2>2, KeptType DEF DropForeign
  <2>4. QED
    BY <1>9, <2>1, <2>3 DEF DropForeign, envVars, pollVars, gateVars, histVars
<1>10. CASE TakeState
  <2>1. Head(queue) \in Frame /\ Tail(queue) \in Seq(Frame)
    BY <1>10 DEF TakeState
  <2>2. Head(queue).mode \in Modes \cup {NoMode}
    BY <2>1 DEF Frame
  <2>3. discarded' \in Seq(Frame)
    BY <1>10, <2>1, KeptType DEF TakeState
  <2>4. gameState' \in {"idle", "active", "finishing"}
    BY <1>10 DEF TakeState, Reconciled
  <2>5. /\ pollMode' \in Modes \cup {NoMode} /\ serverMode' \in Modes \cup {NoMode}
        /\ fresh' \in BOOLEAN
    BY <1>10, <2>2 DEF TakeState, NoteServerMode
  <2>6. /\ lost' \in BOOLEAN /\ asked' \subseteq Commands
        /\ queue' \in Seq(Frame) /\ Len(queue') <= QueueCap
    BY <1>10, NothingQueued DEF TakeState, AfterSend, Commands
  <2>7. QED
    BY <1>10, <2>3, <2>4, <2>5, <2>6 DEF TakeState, histVars
<1>11. CASE TakePacks
  <2>1. Head(queue) \in Frame /\ Tail(queue) \in Seq(Frame)
        /\ Len(Tail(queue)) <= QueueCap
    BY <1>11 DEF TakePacks
  <2>2. QED
    BY <1>11, <2>1 DEF TakePacks, envVars, gateVars, histVars
<1>12. CASE Verdict
  <2>1. \A i \in DOMAIN discarded : discarded[i].mode \in Modes \cup {NoMode}
    <3>1. \A i \in DOMAIN discarded : discarded[i] \in Frame
      OBVIOUS
    <3>2. QED
      BY <3>1 DEF Frame
  <2>2. \A m \in VerdictModes : m \in Modes \cup {NoMode}
    BY <2>1 DEF VerdictModes, Dissent
  <2>3. gameState' \in {"idle", "active", "finishing"}
    BY <1>12 DEF Verdict, Reconciled
  <2>4. serverMode' \in Modes \cup {NoMode} /\ fresh' \in BOOLEAN
    BY <1>12, <2>2 DEF Verdict, NoteServerMode
  <2>5. pollUnsettled' \in BOOLEAN
    BY <1>12 DEF Verdict
  <2>6. QED
    BY <1>12, <2>3, <2>4, <2>5, NothingQueued DEF Verdict, envVars, histVars
<1>13. ASSUME CallFails, chaos' \in 0..MaxChaos PROVE TypeOK'
  BY <1>13 DEF CallFails, connVars, histVars
<1>14. CASE Fail
  BY <1>13, <1>14, SMTT(20) DEF Fail, Disturb
<1>15. CASE TimeOut
  BY <1>13, <1>15 DEF TimeOut
<1>16. CASE Reconnect
  <2>1. /\ wire' \in Seq(Frame) /\ carried' \in 0..Len(wire')
        /\ queue' \in Seq(Frame) /\ Len(queue') <= QueueCap
        /\ discarded' \in Seq(Frame)
    BY <1>16, NothingQueued DEF Reconnect
  <2>2. QED
    BY <1>16, <2>1 DEF Reconnect, gateVars, histVars
<1>17. CASE Age
  BY <1>17 DEF Age, envVars, connVars, pollVars, histVars
<1>18. CASE BusDrops
  BY <1>18, NothingQueued DEF BusDrops, Disturb, connVars, pollVars, gateVars, histVars
<1>19. CASE UNCHANGED vars
  BY <1>19 DEF vars, envVars, connVars, pollVars, gateVars, histVars
<1>20. QED
  BY <1>1, <1>3, <1>4, <1>5, <1>6, <1>7, <1>8, <1>9, <1>10, <1>11, <1>12, <1>14,
     <1>15, <1>16, <1>17, <1>18, <1>19
  DEF Next, OZone, PollLoop, Commands

(* The type invariant: every step keeps every variable of its type. *)
THEOREM TypeCorrect == Spec => []TypeOK
BY InitTyped, TypeStep, PTL DEF Spec
-----------------------------------------------------------------------------
(* A mode of play is never one the print server may be used in, and neither *)
(* is a reply without a mode (gameActive, printServerSafe, toInt).          *)
LEMMA ModesApart ==
  /\ \A m : GameActive(m) => ~PrintServerSafe(m)
  /\ ~PrintServerSafe(NoMode)
  BY DEF GameActive, PrintServerSafe, NoMode

(* What taking the head of a sequence leaves. *)
LEMMA TailFacts ==
  ASSUME NEW S, NEW s \in Seq(S), s # <<>>
  PROVE  /\ Head(s) = s[1] /\ Head(s) \in S
         /\ Len(Tail(s)) = Len(s) - 1 /\ Tail(s) \in Seq(S)
         /\ \A i \in DOMAIN Tail(s) : i + 1 \in DOMAIN s /\ Tail(s)[i] = s[i + 1]
  OBVIOUS

(* What appending leaves. *)
LEMMA AppendFacts ==
  ASSUME NEW S, NEW s \in Seq(S), NEW e \in S
  PROVE  /\ Len(Append(s, e)) = Len(s) + 1
         /\ \A i \in DOMAIN Append(s, e) :
              \/ i \in DOMAIN s /\ Append(s, e)[i] = s[i]
              \/ i = Len(s) + 1 /\ Append(s, e)[i] = e
  OBVIOUS

(* Frames waiting anywhere carry a game count and a mode. *)
LEMMA FrameFields ==
  ASSUME NEW s \in Seq(Frame)
  PROVE  \A i \in DOMAIN s : s[i].game \in Nat /\ s[i].mode \in Modes \cup {NoMode}
<1>1. \A i \in DOMAIN s : s[i] \in Frame
  OBVIOUS
<1>2. QED
  BY <1>1 DEF Frame

(* A game that starts now is newer than any frame sent before it. *)
LEMMA OldFrames ==
  ASSUME NEW n \in Nat, NEW s \in Seq(Frame), \A i \in DOMAIN s : s[i].game <= n
  PROVE  \A i \in DOMAIN s : s[i].game <= n + 1 /\ s[i].game # n + 1
<1>1. \A i \in DOMAIN s : s[i].game \in Nat
  BY FrameFields
<1>2. QED
  BY <1>1

(* No frame is newer than the game count, and one of the current game that  *)
(* carries a mode reads as play while the game lasts.                       *)
LEMMA FramesStep ==
  ASSUME TypeOK, TypeOK', FramesInv, [Next]_vars
  PROVE  FramesInv'
<1> USE DEF TypeOK, FramesInv, Playing, ReadsAsGame
<1>1. ASSUME NEW m \in Modes, ModeChange(m) PROVE FramesInv'
  <2>1. wire' = wire /\ queue' = queue /\ ozone' = m
    BY <1>1 DEF ModeChange, connVars
  <2>2. CASE GameActive(m) /\ ~GameActive(ozone)
    <3>1. game' = game + 1 /\ game \in Nat
      BY <1>1, <2>2 DEF ModeChange
    <3>2. \A i \in DOMAIN wire : wire[i].game <= game' /\ wire[i].game # game'
      BY <3>1, OldFrames
    <3>3. \A i \in DOMAIN queue : queue[i].game <= game' /\ queue[i].game # game'
      BY <3>1, OldFrames
    <3>4. QED
      BY <2>1, <3>2, <3>3
  <2>3. CASE ~(GameActive(m) /\ ~GameActive(ozone))
    <3>1. game' = game
      BY <1>1, <2>3 DEF ModeChange
    <3>2. QED
      BY <2>1, <2>3, <3>1
  <2>4. QED
    BY <2>2, <2>3
<1>2. ASSUME NEW cmd, NEW echo \in Echoes, Send(cmd, echo),
             UNCHANGED <<ozone, game, queue>>
      PROVE  FramesInv'
  BY <1>2, SMTT(30) DEF Send
<1>3. CASE UNCHANGED <<ozone, game>> /\ wire # <<>> /\ wire' = Tail(wire)
           /\ (queue' = queue \/ queue' = Append(queue, Head(wire)))
  <2>1. \A i \in DOMAIN wire' : wire'[i].game <= game /\ (Playing => ReadsAsGame(wire'[i]))
    BY <1>3, TailFacts, SMTT(30)
  <2>2. \A i \in DOMAIN queue' : queue'[i].game <= game /\ (Playing => ReadsAsGame(queue'[i]))
    <3>1. Head(wire) = wire[1] /\ 1 \in DOMAIN wire
      BY <1>3, TailFacts, SMTT(20)
    <3>2. CASE queue' = queue
      BY <3>2
    <3>3. CASE queue' = Append(queue, Head(wire))
      <4>1. \A i \in DOMAIN queue' : \/ i \in DOMAIN queue /\ queue'[i] = queue[i]
                                     \/ queue'[i] = wire[1]
        BY <1>3, <3>1, <3>3, TailFacts, AppendFacts
      <4>2. QED
        BY <3>1, <4>1
    <3>4. QED
      BY <1>3, <3>2, <3>3
  <2>3. QED
    BY <1>3, <2>1, <2>2
<1>4. CASE UNCHANGED <<ozone, game>> /\ (wire' = wire \/ wire' = <<>>)
           /\ (queue' = queue \/ queue' = <<>> \/ (queue # <<>> /\ queue' = Tail(queue)))
  <2>1. \A i \in DOMAIN wire' : i \in DOMAIN wire /\ wire'[i] = wire[i]
    BY <1>4
  <2>2. \A i \in DOMAIN queue' : \E j \in DOMAIN queue : queue'[i] = queue[j]
    <3>1. CASE queue # <<>> /\ queue' = Tail(queue)
      BY <3>1, TailFacts
    <3>2. CASE queue' = queue \/ queue' = <<>>
      BY <3>2, SMTT(20)
    <3>3. QED
      BY <1>4, <3>1, <3>2
  <2>3. QED
    BY <1>4, <2>1, <2>2
<1>5. CASE ReadFrame
  BY <1>3, <1>5 DEF ReadFrame
<1>6. QED
  BY <1>1, <1>2, <1>4, <1>5
  DEF Next, vars, OZone, PollLoop, Answer, OtherClient, HandleBusEvent, BusDrops,
      AfterFinish, BeginPoll, DropForeign, TakeState, TakePacks, Verdict, CallFails, Fail,
      TimeOut, Reconnect, Age, AfterSend, envVars, connVars

(* Events waiting on the bus carry a game count. *)
LEMMA EventFields ==
  ASSUME NEW s \in Seq(BusEvent)
  PROVE  \A i \in DOMAIN s : s[i].game \in Nat
<1>1. \A i \in DOMAIN s : s[i] \in BusEvent
  OBVIOUS
<1>2. QED
  BY <1>1 DEF BusEvent

(* Told of the game, no poll settles while it is played: a sign since the   *)
(* last poll began forbids it, and without one this poll read the game.     *)
LEMMA ToldUnsettled ==
  ASSUME ToldInv, Playing, Told, pc = "verdict"
  PROVE  ~Settled
<1>1. CASE sinceLast
  BY <1>1 DEF Settled
<1>2. CASE ~sinceLast
  BY <1>2 DEF ToldInv, InPoll, PollReadsGame, Settled
<1>3. QED
  BY <1>1, <1>2

(* A step of the agent other than the verdict and the bus handler never     *)
(* takes the state out of active.                                           *)
LEMMA ActiveStays ==
  ASSUME NEW m, NEW u, gameState = "active", ~PrintServerSafe(m) \/ u
  PROVE  Reconciled(m, u) = "active"
  BY DEF Reconciled

(* While a game the bus has announced lasts, its start is the bus's last    *)
(* word: a late event of an earlier game was handled before it, and the     *)
(* state stays active (handleBusEvent).                                     *)
LEMMA BusStep ==
  ASSUME TypeOK, TypeOK', BusInv, HistoryInv, ToldInv, [Next]_vars
  PROVE  BusInv'
<1> USE DEF BusInv, Playing
<1> DEFINE Ordered == \A i \in DOMAIN bus :
              /\ bus[i].game <= game
              /\ Playing /\ bus[i].game = game => i = Len(bus) /\ bus[i].code = "GAME_START"
           Heard == Playing /\ toldByBus = game => bus = <<>> /\ gameState = "active"
<1>0. game \in Nat /\ toldByBus \in Nat /\ \A i \in DOMAIN bus : bus[i].game \in Nat
  BY EventFields DEF TypeOK
<1>1. ASSUME NEW m \in Modes, ModeChange(m) PROVE BusInv'
  <2>1. ozone' = m /\ UNCHANGED <<gameState, toldByBus>>
    BY <1>1 DEF ModeChange, gateVars
  <2>2. CASE GameActive(m) /\ ~GameActive(ozone)
    <3>1. game' = game + 1 /\ Announced(m) = {"GAME_START"}
      BY <1>1, <2>2 DEF ModeChange, Announced
    <3>2. toldByBus' # game'
      BY <1>0, <2>1, <3>1 DEF HistoryInv
    <3>3. \A i \in DOMAIN bus : bus[i].game <= game' /\ bus[i].game # game'
      BY <1>0, <3>1
    <3>4. CASE bus' = bus
      BY <3>2, <3>3, <3>4
    <3>5. CASE bus' = Append(bus, [code |-> "GAME_START", game |-> game'])
      <4>1. \A i \in DOMAIN bus' :
               \/ i \in DOMAIN bus /\ bus'[i] = bus[i]
               \/ i = Len(bus') /\ bus'[i] = [code |-> "GAME_START", game |-> game']
        <5>1. [code |-> "GAME_START", game |-> game'] \in BusEvent
          BY <1>0, <3>1 DEF BusEvent
        <5>2. bus \in Seq(BusEvent)
          BY DEF TypeOK
        <5>3. QED
          BY <3>5, <5>1, <5>2, AppendFacts
      <4>2. QED
        BY <1>0, <3>1, <3>2, <3>3, <4>1
    <3>6. QED
      BY <1>1, <3>1, <3>4, <3>5 DEF ModeChange
  <2>3. CASE GameActive(m) /\ GameActive(ozone)
    <3>1. game' = game /\ bus' = bus
      BY <1>1, <2>3 DEF ModeChange, Announced
    <3>2. QED
      BY <2>1, <2>3, <3>1
  <2>4. CASE ~GameActive(m)
    <3>1. game' = game
      BY <1>1, <2>4 DEF ModeChange
    <3>2. CASE bus' = bus
      BY <2>1, <2>4, <3>1, <3>2
    <3>3. ASSUME NEW e, bus' = Append(bus, [code |-> e, game |-> game'])
          PROVE  BusInv'
      <4>1. \A i \in DOMAIN bus' :
               \/ i \in DOMAIN bus /\ bus'[i] = bus[i]
               \/ bus'[i] = [code |-> e, game |-> game']
        BY <3>3, SMTT(20) DEF TypeOK
      <4>2. QED
        BY <1>0, <2>1, <2>4, <3>1, <4>1
    <3>4. QED
      BY <1>1, <3>2, <3>3 DEF ModeChange
  <2>5. QED
    BY <2>2, <2>3, <2>4
<1>2. CASE HandleBusEvent
  <2> DEFINE e == Head(bus)
  <2>1. UNCHANGED <<ozone, game>> /\ bus # <<>> /\ bus' = Tail(bus)
    BY <1>2 DEF HandleBusEvent
  <2>2. e = bus[1] /\ 1 \in DOMAIN bus
    BY <2>1, TailFacts, SMTT(20) DEF TypeOK
  <2>3. \A i \in DOMAIN bus' : i + 1 \in DOMAIN bus /\ bus'[i] = bus[i + 1]
    BY <2>1, TailFacts DEF TypeOK
  <2>4. Len(bus') = Len(bus) - 1 /\ Len(bus) \in Nat
    BY <2>1, TailFacts DEF TypeOK
  <2>5. Ordered'
    BY <1>0, <2>1, <2>3, <2>4, SMTT(20) DEF TypeOK
  <2>6. CASE e.code = "GAME_START" /\ Playing /\ e.game = game
    <3>1. Len(bus) = 1
      BY <2>2, <2>6
    <3>2. bus' = <<>> /\ gameState' = "active"
      BY <1>2, <2>1, <2>4, <2>6, <3>1, SMTT(20) DEF HandleBusEvent, TypeOK
    <3>3. QED
      BY <2>5, <3>2
  <2>7. CASE ~(e.code = "GAME_START" /\ Playing /\ e.game = game)
    <3>1. ~(Playing /\ toldByBus = game)
      BY <2>1
    <3>2. toldByBus' = toldByBus \/ (e.code = "GAME_START" /\ toldByBus' = e.game)
      BY <1>2 DEF HandleBusEvent
    <3>3. QED
      BY <2>1, <2>5, <2>7, <3>1, <3>2
  <2>8. QED
    BY <2>6, <2>7
<1>3. ASSUME UNCHANGED <<ozone, game, bus, toldByBus>>,
             Playing /\ toldByBus = game /\ gameState = "active" => gameState' = "active"
      PROVE  BusInv'
  BY <1>3
<1>4. CASE ReadFrame
  BY <1>3, <1>4, ActiveStays DEF ReadFrame
<1>5. CASE TakeState
  BY <1>3, <1>5, ActiveStays DEF TakeState, histVars
<1>6. CASE Verdict
  <2>1. Playing /\ toldByBus = game => ~Settled
    BY <1>6, ToldUnsettled DEF Verdict, Told
  <2>2. UNCHANGED <<ozone, game, bus, toldByBus>>
    BY <1>6 DEF Verdict, envVars, histVars
  <2>3. Playing /\ toldByBus = game /\ gameState = "active" => gameState' = "active"
    BY <1>6, <2>1, ActiveStays DEF Verdict
  <2>4. QED
    BY <1>3, <2>2, <2>3
<1>7. ASSUME NEW g \in timers, AfterFinish(g) PROVE BusInv'
  BY <1>3, <1>7 DEF AfterFinish, envVars, histVars
<1>8. ASSUME UNCHANGED <<ozone, game, bus, toldByBus, gameState>> PROVE BusInv'
  BY <1>8
<1>9. CASE BusDrops
  BY <1>9 DEF BusDrops, gateVars, histVars
<1>10. QED
  BY <1>1, <1>2, <1>4, <1>5, <1>6, <1>7, <1>8, <1>9
  DEF Next, vars, OZone, PollLoop, Answer, OtherClient, BeginPoll, DropForeign, TakePacks,
      CallFails, Fail, TimeOut, Reconnect, Age, envVars, gateVars, histVars

(* The ghosts stay behind the game count, a sign since the last completed   *)
(* poll is also one since this poll, and a poll that failed is unsettled.   *)
LEMMA HistoryStep ==
  ASSUME TypeOK, TypeOK', FramesInv, BusInv, HistoryInv, [Next]_vars
  PROVE  HistoryInv'
<1> USE DEF HistoryInv, Playing
<1>1. ASSUME NEW m \in Modes, ModeChange(m) PROVE HistoryInv'
  BY <1>1 DEF ModeChange, pollVars, gateVars, TypeOK
<1>2. CASE ReadFrame
  <2>1. Head(wire).game <= game
    BY <1>2, TailFacts DEF ReadFrame, TypeOK, FramesInv
  <2>2. toldByFrame' = toldByFrame \/ toldByFrame' = Head(wire).game
    BY <1>2 DEF ReadFrame
  <2>3. (sinceThis' = sinceThis /\ sinceLast' = sinceLast) \/ sinceLast'
    BY <1>2 DEF ReadFrame
  <2>4. QED
    BY <1>2, <2>1, <2>2, <2>3 DEF ReadFrame
<1>3. CASE HandleBusEvent
  <2>1. Head(bus).game <= game
    BY <1>3, TailFacts DEF HandleBusEvent, TypeOK, BusInv
  <2>2. toldByBus' = toldByBus \/ toldByBus' = Head(bus).game
    BY <1>3 DEF HandleBusEvent
  <2>3. (sinceThis' = sinceThis /\ sinceLast' = sinceLast) \/ sinceLast'
    BY <1>3 DEF HandleBusEvent
  <2>4. QED
    BY <1>3, <2>1, <2>2, <2>3 DEF HandleBusEvent
<1>4. ASSUME UNCHANGED <<ozone, game, toldByFrame, toldByBus>>,
             ~sinceLast' => ~sinceThis', pc' = "down" => pollUnsettled'
      PROVE  HistoryInv'
  BY <1>4
<1>5. CASE BeginPoll
  BY <1>4, <1>5 DEF BeginPoll
<1>6. CASE Verdict
  BY <1>4, <1>6 DEF Verdict, envVars, histVars
<1>7. CASE CallFails
  BY <1>4, <1>7 DEF CallFails, histVars
<1>8. CASE Reconnect
  BY <1>4, <1>8 DEF Reconnect, histVars
<1>9. CASE TakeState \/ TakePacks
  BY <1>4, <1>9 DEF TakeState, TakePacks, envVars, histVars
<1>10. ASSUME UNCHANGED <<ozone, game, toldByFrame, toldByBus, sinceThis, sinceLast, pc,
                          pollUnsettled>>
       PROVE  HistoryInv'
  BY <1>10
<1>11. QED
  BY <1>1, <1>2, <1>3, <1>5, <1>6, <1>7, <1>8, <1>9, <1>10
  DEF Next, vars, OZone, PollLoop, Answer, OtherClient, BusDrops, AfterFinish, DropForeign,
      Fail, TimeOut, Age, envVars, pollVars, gateVars, histVars

(* A state a frame of the game has set stays out of the print server's      *)
(* reach: it is overwritten by a poll that settles or not at all.           *)
LEMMA ShutStep ==
  ASSUME TypeOK, TypeOK', FramesInv, HistoryInv, ToldInv, ShutInv, [Next]_vars
  PROVE  ShutInv'
<1> USE DEF ShutInv, Playing
<1>1. ASSUME NEW m \in Modes, ModeChange(m) PROVE ShutInv'
  <2>1. CASE GameActive(m) /\ ~GameActive(ozone)
    BY <1>1, <2>1 DEF ModeChange, HistoryInv, TypeOK
  <2>2. CASE ~(GameActive(m) /\ ~GameActive(ozone))
    BY <1>1, <2>2 DEF ModeChange, gateVars
  <2>3. QED
    BY <2>1, <2>2
<1>2. CASE ReadFrame
  BY <1>2 DEF ReadFrame, NoteServerMode
<1>3. CASE TakeState
  BY <1>3 DEF TakeState, NoteServerMode, histVars
<1>4. CASE Verdict
  <2>1. Playing /\ toldByFrame = game => pollUnsettled'
    BY <1>4, ToldUnsettled DEF Verdict, Told
  <2>2. QED
    BY <1>4, <2>1 DEF Verdict, envVars, histVars
<1>5. CASE CallFails
  BY <1>5 DEF CallFails, histVars
<1>6. ASSUME UNCHANGED <<ozone, game, toldByFrame, pollUnsettled, serverMode>>
      PROVE  ShutInv'
  BY <1>6
<1>7. QED
  BY <1>1, <1>2, <1>3, <1>4, <1>5, <1>6
  DEF Next, vars, OZone, PollLoop, Answer, OtherClient, HandleBusEvent, BusDrops, AfterFinish,
      BeginPoll, DropForeign, TakePacks, Fail, TimeOut, Reconnect, Age, envVars,
      gateVars, histVars

(* A frame sent now is of the current game. *)
LEMMA SendKeeps ==
  ASSUME TypeOK, TypeOK', NEW cmd \in Commands, NEW echo, Send(cmd, echo),
         UNCHANGED <<game, carried, queue>>
  PROVE  /\ OnlyGameSince => OnlyGameSince'
         /\ OnlyGameOnWire => OnlyGameOnWire'
         /\ OnlyGameQueued => OnlyGameQueued'
<1> DEFINE f == [cmd  |-> IF echo THEN cmd ELSE NoEcho,
                 mode |-> IF cmd = "GETSERVERSTATE" THEN ozone ELSE NoMode,
                 game |-> game]
<1>1. wire' = Append(wire, f) /\ f.game = game
  BY DEF Send
<1>2. \A i \in DOMAIN wire' : (i \in DOMAIN wire /\ wire'[i] = wire[i]) \/ wire'[i] = f
  <2>1. f \in Frame /\ wire \in Seq(Frame)
    BY DEF TypeOK, Frame
  <2>2. QED
    BY <1>1, <2>1, AppendFacts
<1>3. QED
  BY <1>1, <1>2 DEF OnlyGameSince, OnlyGameOnWire, OnlyGameQueued

(* Reading a frame moves it from the wire to the queue, or drops it. *)
LEMMA ReadKeeps ==
  ASSUME TypeOK, TypeOK', ReadFrame
  PROVE  /\ OnlyGameSince => OnlyGameSince'
         /\ OnlyGameOnWire => OnlyGameOnWire'
         /\ OnlyGameOnWire /\ OnlyGameQueued => OnlyGameQueued'
<1>1. /\ wire # <<>> /\ wire' = Tail(wire) /\ game' = game
      /\ carried' = IF carried > 0 THEN carried - 1 ELSE 0
      /\ queue' = queue \/ queue' = Append(queue, Head(wire))
  BY DEF ReadFrame
<1>2. \A i \in DOMAIN wire' : i + 1 \in DOMAIN wire /\ wire'[i] = wire[i + 1]
  BY <1>1, TailFacts DEF TypeOK
<1>3. Head(wire) = wire[1] /\ 1 \in DOMAIN wire /\ Head(wire) \in Frame
  BY <1>1, TailFacts DEF TypeOK
<1>4. carried \in Nat
  BY DEF TypeOK
<1>5. OnlyGameSince => OnlyGameSince'
  <2> SUFFICES ASSUME OnlyGameSince, NEW i \in DOMAIN wire', i > carried'
               PROVE  wire'[i].game = game'
    BY DEF OnlyGameSince
  <2>1. i \in Nat /\ i + 1 > carried
    BY <1>1, <1>4, SMTT(20) DEF TypeOK
  <2>2. QED
    BY <1>1, <1>2, <2>1 DEF OnlyGameSince
<1>6. OnlyGameOnWire => OnlyGameOnWire'
  BY <1>1, <1>2 DEF OnlyGameOnWire
<1>7. OnlyGameOnWire /\ OnlyGameQueued => OnlyGameQueued'
  <2>1. CASE queue' = queue
    BY <1>1, <2>1 DEF OnlyGameQueued
  <2>2. CASE queue' = Append(queue, Head(wire))
    <3>1. \A i \in DOMAIN queue' :
             \/ i \in DOMAIN queue /\ queue'[i] = queue[i]
             \/ queue'[i] = Head(wire)
      BY <1>3, <2>2, AppendFacts DEF TypeOK
    <3>2. QED
      BY <1>1, <1>3, <3>1 DEF OnlyGameOnWire, OnlyGameQueued
  <2>3. QED
    BY <1>1, <2>1, <2>2
<1>8. QED
  BY <1>5, <1>6, <1>7

(* A poll that can only take frames of the game still can only do that, and *)
(* takes its state from one of them: DropForeign, TakeState, TakePacks.     *)
LEMMA TakeKeeps ==
  ASSUME TypeOK, TypeOK', FramesInv, Playing, PollReadsGame,
         \/ \E cmd \in Commands : DropForeign(cmd)
         \/ TakeState
         \/ TakePacks
  PROVE  PollReadsGame'
<1>1. UNCHANGED <<ozone, game, wire, carried>> /\ queue # <<>>
  BY DEF DropForeign, TakeState, TakePacks, envVars
<1>2. OnlyGameOnWire'
  BY <1>1 DEF PollReadsGame, OnlyGameOnWire
<1>3. queue' = Tail(queue) \/ queue' = <<>>
  BY DEF DropForeign, TakeState, TakePacks, AfterSend
<1>4. \A i \in DOMAIN queue' : i + 1 \in DOMAIN queue /\ queue'[i] = queue[i + 1]
  <2>1. CASE queue' = Tail(queue)
    BY <1>1, <2>1, TailFacts DEF TypeOK
  <2>2. CASE queue' = <<>>
    BY <2>2
  <2>3. QED
    BY <1>3, <2>1, <2>2
<1>5. OnlyGameQueued'
  BY <1>1, <1>4 DEF PollReadsGame, OnlyGameQueued
<1>6. CASE TakeState
  <2>1. Head(queue) = queue[1] /\ 1 \in DOMAIN queue
    BY <1>1, TailFacts DEF TypeOK
  <2>2. ReadsAsGame(Head(queue)) /\ Head(queue).game = game
    BY <2>1 DEF FramesInv, PollReadsGame, OnlyGameQueued
  <2>3. ~PrintServerSafe(Head(queue).mode)
    BY <2>2, ModesApart DEF ReadsAsGame
  <2>4. pollMode' = Head(queue).mode
    BY <1>6 DEF TakeState
  <2>5. QED
    BY <1>2, <1>5, <2>3, <2>4 DEF PollReadsGame
<1>7. CASE TakePacks \/ \E cmd \in Commands : DropForeign(cmd)
  <2>1. pollMode' = pollMode
    BY <1>7 DEF TakePacks, DropForeign, pollVars
  <2>2. pc' \in {"packs", "verdict"} => pc \in {"packs", "verdict"}
    BY <1>7 DEF TakePacks, DropForeign, pollVars
  <2>3. QED
    BY <1>2, <1>5, <2>1, <2>2 DEF PollReadsGame
<1>8. QED
  BY <1>6, <1>7

(* What a poll may still take, once told: a sign no older than the last     *)
(* poll leaves sinceLast set, an older one has let every frame sent before  *)
(* the game off the wire.                                                   *)
LEMMA ToldStep ==
  ASSUME TypeOK, TypeOK', FramesInv, HistoryInv, ToldInv, [Next]_vars
  PROVE  ToldInv'
<1> USE DEF ToldInv, Told, Playing
<1>1. ASSUME NEW m \in Modes, ModeChange(m) PROVE ToldInv'
  <2>1. CASE GameActive(m) /\ ~GameActive(ozone)
    <3>1. game' = game + 1 /\ game \in Nat
      BY <1>1, <2>1 DEF ModeChange, TypeOK
    <3>2. ~Told'
      BY <1>1, <3>1 DEF ModeChange, HistoryInv, TypeOK
    <3>3. QED
      BY <3>2
  <2>2. CASE ~(GameActive(m) /\ ~GameActive(ozone))
    <3>1. game' = game /\ (Playing' => Playing)
      BY <1>1, <2>2 DEF ModeChange
    <3>2. UNCHANGED <<wire, carried, queue, pc, pollMode, sinceThis, sinceLast,
                      toldByFrame, toldByBus>>
      BY <1>1 DEF ModeChange, connVars, pollVars
    <3>3. QED
      BY <3>1, <3>2 DEF OnlyGameSince, OnlyGameOnWire, OnlyGameQueued, PollReadsGame, InPoll
  <2>3. QED
    BY <2>1, <2>2
<1>2. ASSUME NEW cmd \in Commands, NEW echo, Send(cmd, echo),
             UNCHANGED <<ozone, game, carried, queue, pc, pollMode, sinceThis, sinceLast,
                         toldByFrame, toldByBus>>
      PROVE  ToldInv'
  BY <1>2, SendKeeps DEF PollReadsGame, InPoll
<1>3. CASE ReadFrame
  <2>1. CASE sinceThis' /\ sinceLast'
    BY <2>1
  <2>2. CASE UNCHANGED <<sinceThis, sinceLast, toldByFrame>>
    <3>1. UNCHANGED <<ozone, game, pc, pollMode, toldByBus>>
      BY <1>3 DEF ReadFrame
    <3>2. QED
      BY <1>3, <2>2, <3>1, ReadKeeps DEF PollReadsGame, InPoll
  <2>3. QED
    BY <1>3, <2>1, <2>2 DEF ReadFrame
<1>4. CASE HandleBusEvent
  <2>1. CASE sinceThis' /\ sinceLast'
    BY <2>1
  <2>2. CASE UNCHANGED <<sinceThis, sinceLast, toldByBus>>
    <3>1. UNCHANGED <<ozone, game, wire, carried, queue, pc, pollMode, toldByFrame>>
      BY <1>4 DEF HandleBusEvent, connVars
    <3>2. QED
      BY <2>2, <3>1
      DEF OnlyGameSince, OnlyGameOnWire, OnlyGameQueued, PollReadsGame, InPoll
  <2>3. QED
    BY <1>4, <2>1, <2>2 DEF HandleBusEvent
<1>5. CASE BeginPoll
  <2>1. /\ UNCHANGED <<ozone, game, wire, sinceLast, toldByFrame, toldByBus>>
        /\ ~sinceThis' /\ queue' = <<>> /\ carried' = Len(wire) /\ carried = 0 /\ pc' = "state"
    BY <1>5 DEF BeginPoll, Punctual, AfterSend
  <2>2. OnlyGameSince'
    BY <2>1 DEF OnlyGameSince, TypeOK
  <2>3. Playing /\ Told /\ ~sinceLast => OnlyGameOnWire'
    BY <2>1 DEF HistoryInv, OnlyGameSince, OnlyGameOnWire, TypeOK
  <2>4. OnlyGameQueued'
    BY <2>1 DEF OnlyGameQueued
  <2>5. QED
    BY <2>1, <2>2, <2>3, <2>4 DEF PollReadsGame
<1>6. CASE (\E cmd \in Commands : DropForeign(cmd)) \/ TakeState \/ TakePacks
  <2>1. UNCHANGED <<ozone, game, wire, carried, sinceThis, sinceLast, toldByFrame, toldByBus>>
    BY <1>6 DEF DropForeign, TakeState, TakePacks, envVars, pollVars, histVars
  <2>2. InPoll' => InPoll
    BY <1>6 DEF DropForeign, TakeState, TakePacks, InPoll, pollVars
  <2>3. OnlyGameSince => OnlyGameSince'
    BY <2>1 DEF OnlyGameSince
  <2>4. QED
    BY <1>6, <2>1, <2>2, <2>3, TakeKeeps
<1>7. CASE Verdict \/ CallFails
  <2>1. UNCHANGED <<ozone, game, wire, carried, sinceThis, toldByFrame, toldByBus>> /\ ~InPoll'
    BY <1>7 DEF Verdict, CallFails, envVars, histVars, InPoll
  <2>2. QED
    BY <2>1 DEF OnlyGameSince
<1>8. CASE Reconnect
  BY <1>8 DEF Reconnect, histVars, OnlyGameSince, InPoll
<1>9. ASSUME UNCHANGED <<ozone, game, wire, carried, queue, pc, pollMode, sinceThis, sinceLast,
                         toldByFrame, toldByBus>>
      PROVE  ToldInv'
  BY <1>9 DEF OnlyGameSince, OnlyGameOnWire, OnlyGameQueued, PollReadsGame, InPoll
<1>10. QED
  BY <1>1, <1>2, <1>3, <1>4, <1>5, <1>6, <1>7, <1>8, <1>9
  DEF Next, vars, OZone, PollLoop, Answer, OtherClient, BusDrops, AfterFinish, Fail, TimeOut,
      Age, Commands, envVars, connVars, pollVars, gateVars, histVars

(* The second poll begun in a game takes only frames sent during it, and so *)
(* ends unsettled.                                                          *)
LEMMA TwoPollsStep ==
  ASSUME TypeOK, TypeOK', FramesInv, HistoryInv, TwoPollsInv, [Next]_vars
  PROVE  TwoPollsInv'
<1> USE DEF TwoPollsInv, Playing
<1>1. ASSUME NEW m \in Modes, ModeChange(m) PROVE TwoPollsInv'
  <2>1. CASE GameActive(m) /\ ~GameActive(ozone)
    BY <1>1, <2>1 DEF ModeChange
  <2>2. CASE ~(GameActive(m) /\ ~GameActive(ozone))
    <3>1. game' = game /\ (Playing' => Playing)
      BY <1>1, <2>2 DEF ModeChange
    <3>2. UNCHANGED <<wire, carried, queue, pc, pollMode, pollUnsettled, begunInGame>>
      BY <1>1, <2>2 DEF ModeChange, connVars, pollVars, gateVars
    <3>3. QED
      BY <3>1, <3>2 DEF OnlyGameSince, OnlyGameOnWire, OnlyGameQueued, PollReadsGame, InPoll
  <2>3. QED
    BY <2>1, <2>2
<1>2. ASSUME NEW cmd \in Commands, NEW echo, Send(cmd, echo),
             UNCHANGED <<ozone, game, carried, queue, pc, pollMode, pollUnsettled, begunInGame>>
      PROVE  TwoPollsInv'
  BY <1>2, SendKeeps DEF PollReadsGame, InPoll
<1>3. CASE ReadFrame
  <2>1. UNCHANGED <<ozone, game, pc, pollMode, pollUnsettled, begunInGame>>
    BY <1>3 DEF ReadFrame
  <2>2. QED
    BY <1>3, <2>1, ReadKeeps DEF PollReadsGame, InPoll
<1>4. CASE BeginPoll
  <2>1. /\ UNCHANGED <<ozone, game, wire>> /\ pc' = "state"
        /\ queue' = <<>> /\ carried' = Len(wire) /\ carried = 0
    BY <1>4 DEF BeginPoll, Punctual, AfterSend
  <2>2. OnlyGameSince'
    BY <2>1 DEF OnlyGameSince, TypeOK
  <2>3. Playing /\ begunInGame' = 2 => begunInGame > 0
    BY <1>4 DEF BeginPoll, TypeOK
  <2>4. Playing /\ begunInGame' = 2 => OnlyGameOnWire'
    BY <2>1, <2>3 DEF OnlyGameSince, OnlyGameOnWire, TypeOK
  <2>5. OnlyGameQueued'
    BY <2>1 DEF OnlyGameQueued
  <2>6. QED
    BY <2>1, <2>2, <2>4, <2>5 DEF PollReadsGame
<1>5. CASE (\E cmd \in Commands : DropForeign(cmd)) \/ TakeState \/ TakePacks
  <2>1. UNCHANGED <<ozone, game, wire, carried, begunInGame, pollUnsettled>>
    BY <1>5 DEF DropForeign, TakeState, TakePacks, envVars, gateVars, histVars
  <2>2. (InPoll' => InPoll) /\ (pc' = "wait" => pc = "wait")
    BY <1>5 DEF DropForeign, TakeState, TakePacks, InPoll, pollVars
  <2>3. OnlyGameSince => OnlyGameSince'
    BY <2>1 DEF OnlyGameSince
  <2>4. QED
    BY <1>5, <2>1, <2>2, <2>3, TakeKeeps
<1>6. CASE Verdict
  <2>1. UNCHANGED <<ozone, game, wire, carried, begunInGame>> /\ ~InPoll'
    BY <1>6 DEF Verdict, envVars, histVars, InPoll
  <2>2. Playing /\ begunInGame = 2 => ~Settled
    BY <1>6 DEF Verdict, InPoll, PollReadsGame, Settled
  <2>3. Playing /\ begunInGame = 2 => pollUnsettled'
    BY <1>6, <2>2 DEF Verdict
  <2>4. QED
    BY <2>1, <2>3 DEF OnlyGameSince
<1>7. CASE CallFails
  <2>1. UNCHANGED <<ozone, game, wire, carried, begunInGame>> /\ ~InPoll' /\ pc' # "wait"
    BY <1>7 DEF CallFails, histVars, InPoll
  <2>2. QED
    BY <2>1 DEF OnlyGameSince
<1>8. CASE Reconnect
  BY <1>8 DEF Reconnect, gateVars, histVars, OnlyGameSince, InPoll, HistoryInv
<1>9. ASSUME UNCHANGED <<ozone, game, wire, carried, queue, pc, pollMode, pollUnsettled,
                         begunInGame>>
      PROVE  TwoPollsInv'
  BY <1>9 DEF OnlyGameSince, OnlyGameOnWire, OnlyGameQueued, PollReadsGame, InPoll
<1>10. QED
  BY <1>1, <1>2, <1>3, <1>4, <1>5, <1>6, <1>7, <1>8, <1>9
  DEF Next, vars, OZone, PollLoop, Answer, OtherClient, HandleBusEvent, BusDrops, AfterFinish,
      Fail, TimeOut, Age, Commands, envVars, connVars, pollVars, gateVars, histVars

(* The inductive invariant. *)
THEOREM Inductive == Spec => []IInv
<1>1. Init => IInv
  <2> SUFFICES ASSUME Init PROVE IInv
    OBVIOUS
  <2>1. TypeOK
    BY InitTyped
  <2>2. QED
    BY <2>1 DEF Init, IInv, FramesInv, BusInv, HistoryInv, ToldInv, ShutInv, TwoPollsInv,
                Told, Playing, InPoll, OnlyGameSince
<1>2. IInv /\ TypeOK' /\ [Next]_vars => IInv'
  BY FramesStep, BusStep, HistoryStep, ToldStep, ShutStep, TwoPollsStep DEF IInv
<1>3. QED
  BY <1>1, <1>2, TypeCorrect, PTL DEF Spec

(* Once any part of the agent has handled a sign of the game being played,  *)
(* the gate stays shut until it is over.                                    *)
THEOREM GateShutOnceTold == Spec => []ShutOnceTold
<1>1. IInv => ShutOnceTold
  BY DEF IInv, BusInv, ShutInv, ShutOnceTold, Told, GateOpen
<1>2. QED
  BY <1>1, Inductive, PTL

(* With the bus silent, the second poll begun in a game shuts the gate.     *)
THEOREM GateShutAfterTwoPolls == Spec => []ShutAfterTwoPolls
<1>1. IInv => ShutAfterTwoPolls
  BY DEF IInv, TwoPollsInv, ShutAfterTwoPolls, GateOpen
<1>2. QED
  BY <1>1, Inductive, PTL
-----------------------------------------------------------------------------
(***************************************************************************)
(* The check, load by load.                                                *)
(***************************************************************************)

(* Frames arrive in the order of their games, so what a frame has told is   *)
(* never taken back by an older one.                                        *)
WireInOrder ==
  /\ \A i \in DOMAIN wire : toldByFrame <= wire[i].game
  /\ \A i, j \in DOMAIN wire : i < j => wire[i].game <= wire[j].game

(* The game the agent was told of as the check began is still being played. *)
StillOn == Playing /\ chkTold # 0 /\ game = chkTold

(* What will shut the gate stays: the state, which is loaded next, or the   *)
(* poll loop's doubt, which is loaded last.                                 *)
ChkInv ==
  /\ CheckTypeOK
  /\ chkTold <= game
  /\ chk # "none" /\ StillOn =>
       \/ chk = "state" /\ toldByBus = game
       \/ chk # "passed" /\ pollUnsettled /\ Told

CInv == IInv /\ WireInOrder /\ ChkInv
-----------------------------------------------------------------------------
LEMMA WireStep ==
  ASSUME TypeOK, FramesInv, HistoryInv, WireInOrder, [Next]_vars
  PROVE  WireInOrder' /\ toldByFrame <= toldByFrame'
<1>1. /\ wire \in Seq(Frame) /\ toldByFrame \in Nat /\ game \in Nat /\ toldByFrame <= game
      /\ \A i \in DOMAIN wire : wire[i].game \in Nat /\ wire[i].game <= game
  BY FrameFields DEF TypeOK, FramesInv, HistoryInv
<1>2. ASSUME NEW cmd \in Commands, NEW echo \in Echoes, Send(cmd, echo), UNCHANGED toldByFrame
      PROVE  WireInOrder' /\ toldByFrame <= toldByFrame'
  <2>1. PICK f \in Frame : wire' = Append(wire, f) /\ f.game = game
    <3>1. [cmd  |-> IF echo THEN cmd ELSE NoEcho,
           mode |-> IF cmd = "GETSERVERSTATE" THEN ozone ELSE NoMode,
           game |-> game] \in Frame
      BY DEF Frame, TypeOK
    <3>2. QED
      BY <1>2, <3>1 DEF Send
  <2>2. /\ Len(wire') = Len(wire) + 1
        /\ \A i \in DOMAIN wire' : \/ i \in DOMAIN wire /\ wire'[i] = wire[i]
                                   \/ i = Len(wire) + 1 /\ wire'[i] = f
    BY <1>1, <2>1, AppendFacts
  <2>3. DOMAIN wire = 1 .. Len(wire) /\ Len(wire) \in Nat
    BY <1>1
  <2>4. \A i \in DOMAIN wire' : toldByFrame <= wire'[i].game
    BY <1>1, <2>1, <2>2 DEF WireInOrder
  <2>5. ASSUME NEW i \in DOMAIN wire', NEW j \in DOMAIN wire', i < j
        PROVE  wire'[i].game <= wire'[j].game
    <3>1. i \in DOMAIN wire /\ wire'[i] = wire[i]
      <4>1. wire' \in Seq(Frame)
        BY <1>1, <2>1
      <4>2. j \in 1 .. Len(wire) + 1
        BY <2>2, <4>1
      <4>3. i # Len(wire) + 1
        BY <2>3, <2>5, <4>2
      <4>4. QED
        BY <2>2, <4>3
    <3>2. QED
      BY <1>1, <2>1, <2>2, <2>5, <3>1 DEF WireInOrder
  <2>6. QED
    BY <1>1, <1>2, <2>4, <2>5 DEF WireInOrder
<1>3. CASE ReadFrame
  <2>1. /\ wire # <<>> /\ wire' = Tail(wire)
        /\ toldByFrame' \in {toldByFrame, Head(wire).game}
    BY <1>3 DEF ReadFrame
  <2>2. /\ Head(wire) = wire[1] /\ 1 \in DOMAIN wire
        /\ \A i \in DOMAIN wire' : i \in Nat \ {0} /\ i + 1 \in DOMAIN wire /\ wire'[i] = wire[i + 1]
    <3>1. wire' \in Seq(Frame)
      BY <1>1, <2>1, TailFacts
    <3>2. \A i \in DOMAIN wire' : i \in Nat \ {0}
      BY <3>1
    <3>3. QED
      BY <1>1, <2>1, <3>2, TailFacts
  <2>3. toldByFrame <= wire[1].game /\ wire[1].game \in Nat
    BY <1>1, <2>2 DEF WireInOrder
  <2>4. ASSUME NEW i \in DOMAIN wire' PROVE toldByFrame' <= wire'[i].game
    <3>1. i + 1 \in DOMAIN wire /\ 1 < i + 1 /\ wire'[i] = wire[i + 1]
      BY <2>2
    <3>2. wire[1].game <= wire[i + 1].game
      BY <2>2, <3>1 DEF WireInOrder
    <3>3. wire[i + 1].game \in Nat
      BY <1>1, <3>1
    <3>4. QED
      BY <1>1, <2>1, <2>2, <2>3, <3>1, <3>2, <3>3
  <2>5. ASSUME NEW i \in DOMAIN wire', NEW j \in DOMAIN wire', i < j
        PROVE  wire'[i].game <= wire'[j].game
    <3>1. i + 1 \in DOMAIN wire /\ j + 1 \in DOMAIN wire /\ i + 1 < j + 1
      BY <2>2, <2>5
    <3>2. QED
      BY <2>2, <3>1 DEF WireInOrder
  <2>6. QED
    BY <1>1, <2>1, <2>2, <2>3, <2>4, <2>5 DEF WireInOrder
<1>4. ASSUME wire' = wire \/ wire' = <<>>, UNCHANGED toldByFrame
      PROVE  WireInOrder' /\ toldByFrame <= toldByFrame'
  BY <1>1, <1>4 DEF WireInOrder
<1>5. QED
  BY <1>2, <1>3, <1>4
  DEF Next, vars, OZone, ModeChange, PollLoop, Answer, OtherClient, HandleBusEvent, BusDrops,
      AfterFinish, BeginPoll, DropForeign, TakeState, TakePacks, Verdict, CallFails, Fail,
      TimeOut, Reconnect, Age, envVars, connVars, pollVars, gateVars, histVars

(* While a game goes on the agent remains told of it, and the poll loop in  *)
(* doubt.                                                                   *)
LEMMA DoubtStays ==
  ASSUME IInv, WireInOrder, [Next]_vars, Playing', game' = game, Playing
  PROVE  /\ toldByBus = game => toldByBus' = game
         /\ Told => Told'
         /\ Told /\ pollUnsettled => pollUnsettled'
<1>1. toldByFrame <= toldByFrame' /\ toldByFrame' <= game' /\ toldByFrame \in Nat
      /\ toldByFrame' \in Nat /\ game \in Nat
  <2>1. TypeOK' /\ HistoryInv'
    BY TypeStep, HistoryStep DEF IInv
  <2>2. QED
    BY <2>1, WireStep DEF IInv, HistoryInv, TypeOK
<1>2. toldByBus = game => toldByBus' = game
  <2>1. toldByBus = game => bus = <<>>
    BY DEF IInv, BusInv
  <2>2. HandleBusEvent \/ UNCHANGED toldByBus
    BY DEF Next, vars, OZone, ModeChange, PollLoop, Answer, OtherClient, BusDrops, ReadFrame,
           AfterFinish, BeginPoll, DropForeign, TakeState, TakePacks, Verdict, CallFails, Fail,
           TimeOut, Reconnect, Age, histVars
  <2>3. QED
    BY <2>1, <2>2 DEF HandleBusEvent
<1>3. toldByFrame = game => toldByFrame' = game
  BY <1>1
<1>4. Verdict \/ UNCHANGED pollUnsettled \/ pollUnsettled' = TRUE
  BY DEF Next, vars, OZone, ModeChange, PollLoop, Answer, OtherClient, HandleBusEvent, BusDrops,
         ReadFrame, AfterFinish, BeginPoll, DropForeign, TakeState, TakePacks, CallFails, Fail,
         TimeOut, Reconnect, Age, gateVars
<1>5. Told /\ Verdict => pollUnsettled'
  BY ToldUnsettled DEF IInv, Verdict
<1>6. QED
  BY <1>2, <1>3, <1>4, <1>5 DEF Told

(* A game that is over is not played again. *)
LEMMA GamesGoOn ==
  ASSUME TypeOK, [Next]_vars
  PROVE  /\ game <= game'
         /\ Playing' /\ game' = game => Playing
<1>1. ASSUME NEW m \in Modes, ModeChange(m) PROVE game <= game' /\ (Playing' /\ game' = game => Playing)
  BY <1>1 DEF ModeChange, Playing, TypeOK
<1>2. CASE UNCHANGED <<ozone, game>>
  BY <1>2 DEF Playing, TypeOK
<1>3. QED
  BY <1>1, <1>2
  DEF Next, vars, OZone, PollLoop, Answer, OtherClient, HandleBusEvent, BusDrops, ReadFrame,
      AfterFinish, BeginPoll, DropForeign, TakeState, TakePacks, Verdict, CallFails, Fail,
      TimeOut, Reconnect, Age, envVars

(* Whatever handler runs between two loads. *)
LEMMA BetweenLoads ==
  ASSUME CInv, [Next]_vars, UNCHANGED <<chk, chkTold>>
  PROVE  ChkInv'
<1>1. /\ game <= game' /\ (Playing' /\ game' = game => Playing)
      /\ game \in Nat /\ game' \in Nat
  BY GamesGoOn, TypeStep DEF CInv, IInv, TypeOK
<1>2. CheckTypeOK /\ chkTold <= game /\ chkTold \in Nat
  BY DEF CInv, ChkInv, CheckTypeOK
<1>3. CheckTypeOK' /\ chkTold' <= game'
  BY <1>1, <1>2 DEF CheckTypeOK
<1>4. ASSUME chk' # "none", StillOn'
      PROVE  \/ chk' = "state" /\ toldByBus' = game'
             \/ chk' # "passed" /\ pollUnsettled' /\ Told'
  <2>1. game' = game /\ Playing /\ Playing' /\ StillOn
    BY <1>1, <1>2, <1>4 DEF StillOn
  <2>2. \/ chk = "state" /\ toldByBus = game
        \/ chk # "passed" /\ pollUnsettled /\ Told
    BY <1>4, <2>1 DEF CInv, ChkInv
  <2>3. QED
    BY <2>1, <2>2, DoubtStays DEF CInv
<1>5. QED
  BY <1>3, <1>4 DEF ChkInv

(* Each load. *)
LEMMA LoadStep ==
  ASSUME CInv, Check, UNCHANGED vars
  PROVE  ChkInv'
<1>1. /\ UNCHANGED <<game, ozone, toldByBus, toldByFrame, pollUnsettled>>
      /\ (Playing' <=> Playing) /\ (Told' <=> Told)
  BY DEF vars, envVars, gateVars, histVars, Playing, Told
<1>2. CheckTypeOK /\ chkTold <= game /\ game \in Nat
  BY DEF CInv, ChkInv, IInv, TypeOK
<1>3. CASE LoadMode
  <2>1. /\ chk' = "none" \/ (chk' = "state" /\ PrintServerSafe(serverMode))
        /\ chkTold' = 0 \/ (chkTold' = game /\ Playing /\ Told)
    BY <1>3 DEF LoadMode, Outcome
  <2>2. CheckTypeOK' /\ chkTold' <= game'
    <3>1. chkTold' \in Nat /\ chkTold' <= game
      BY <1>2, <2>1
    <3>2. QED
      BY <1>1, <2>1, <3>1 DEF CheckTypeOK
  <2>3. ASSUME chk' # "none", StillOn' PROVE toldByBus = game \/ (pollUnsettled /\ Told)
    <3>1. PrintServerSafe(serverMode) /\ Playing /\ Told
      BY <2>1, <2>3 DEF StillOn
    <3>2. QED
      BY <3>1 DEF CInv, IInv, ShutInv, Told
  <2>4. QED
    BY <1>1, <2>1, <2>2, <2>3 DEF ChkInv
<1>4. ASSUME chkTold' = chkTold, chk # "none",
             \/ chk' = "none"
             \/ chk = "state" /\ chk' = "fresh" /\ gameState = "idle"
             \/ chk = "fresh" /\ chk' = "unsettled"
             \/ chk = "unsettled" /\ chk' = "passed" /\ ~pollUnsettled
      PROVE  ChkInv'
  <2>1. CheckTypeOK' /\ chkTold' <= game'
    BY <1>1, <1>2, <1>4 DEF CheckTypeOK
  <2>2. StillOn' => StillOn
    BY <1>1, <1>4 DEF StillOn
  <2>3. Playing /\ toldByBus = game => gameState = "active"
    BY DEF CInv, IInv, BusInv
  <2>4. QED
    BY <1>1, <1>4, <2>1, <2>2, <2>3 DEF CInv, ChkInv, StillOn
<1>5. QED
  BY <1>3, <1>4 DEF Check, LoadState, LoadFresh, LoadUnsettled, Use, Outcome

(* A check changes nothing it reads. *)
THEOREM ChecksOnly == CheckSpec => Spec
<1>1. CheckInit => Init
  BY DEF CheckInit
<1>2. [CheckNext]_checkVars => [Next]_vars
  BY DEF CheckNext, checkVars
<1>3. QED
  BY <1>1, <1>2, PTL DEF CheckSpec, Spec

(* A goroutine that begins its check of the gate after the agent was told   *)
(* of the game being played does not pass while that game goes on, whatever *)
(* runs between its loads (printServerGate, noteServerMode, reconcileState, *)
(* collect's verdict).                                                      *)
THEOREM NoPass == CheckSpec => []NoPassOnceTold
<1>1. CheckInit => WireInOrder /\ ChkInv
  BY DEF CheckInit, Init, WireInOrder, ChkInv, CheckTypeOK
<1>2. ASSUME IInv, WireInOrder, ChkInv, [CheckNext]_checkVars PROVE WireInOrder' /\ ChkInv'
  <2>1. [Next]_vars
    BY <1>2 DEF CheckNext, checkVars
  <2>2. WireInOrder'
    BY <1>2, <2>1, WireStep DEF IInv
  <2>3. CASE Check /\ UNCHANGED vars
    BY <1>2, <2>2, <2>3, LoadStep DEF CInv
  <2>4. CASE UNCHANGED <<chk, chkTold>>
    BY <1>2, <2>1, <2>2, <2>4, BetweenLoads DEF CInv
  <2>5. QED
    BY <1>2, <2>2, <2>3, <2>4 DEF CheckNext, checkVars
<1>3. ChkInv => NoPassOnceTold
  BY DEF ChkInv, StillOn, NoPassOnceTold
<1>4. QED
  BY <1>1, <1>2, <1>3, ChecksOnly, Inductive, PTL DEF CheckSpec
=============================================================================
