# Overwatch Site Agent: a verification development

TLA+ models of the agent in this repository, the TLC configurations that check
them on small instances, and proofs that TLAPS checks for every value of the
constants. `PROJECT.json` maps every definition to the lines it models and lists
the runs, the mutants, the findings, the hazards and the theorems.

Run a configuration with `tlc -config MCTelemetry.cfg Telemetry.tla` (the
module of each run is in the table below) and a proof with
`tlapm GameGateProofs.tla`.

## 1. The system

One agent runs at a venue. It polls the O-Zone game server over a TCP
connection (12113), listens to O-Zone's message bus, fetches game results from
O-Zone's print server, and pushes everything to Overwatch central over HTTPS. The print
server must be left alone while a game is played: talking to it then disturbs
the game. Central may be away for hours, so what could not be sent is queued
and survives a restart.

| Component (source) | State | Operations | Shares state with |
|---|---|---|---|
| Poll loop (`app.collect`, `pollLoop`, `pushDue`) | `prevStarts`, `pollUnsettled`, last push and its mode, the frame tally | poll, verdict, throttle, build a batch, reconnect | gate (writes it), buffer (pushes), results queue (fills it) |
| Print-server gate (`printServerGate`, `noteServerMode`, `reconcileState`) | `serverMode`, its age, `gameState`, `pollUnsettled`, `startSignals` | read by everything that dials the print server | poll loop, connection reader, bus client and finish timers all write it, under or beside `stateMu` |
| O-Zone connection (`ozone.Client`) | a bounded queue of frames, the dropped frames of a poll | reader goroutine, `Command`, `Flush` | calls `observeFrame` from the reader |
| Message bus client (`msgbus`) | a connection | `handleBusEvent` on its own goroutine | gate, results queue |
| Telemetry delivery (`enqueue`, `deliverLoop`, `buffer`) | the queue, its byte count, the spill file | push, peek, send, pop, save, load | poll loop pushes while `deliverLoop` sends |
| Pack-IR listener (`packir`) | a queue of its own | HTTP handlers, `drainLoop`, `Close` | - |
| Results queue (`pendingFetches`, `checkGameResults`, `drainPendingFetches`, `refreshCache`) | pending games, attempts, `givenUp`, `finishHold`, `finishPending`, `fetchedGames` | queue, fetch, fail, give up, defer | bus client, poll loop, commands; guarded by the gate and by presence |
| Print-server presence (`printserver.go`) | unknown, present, absent, disabled; failures, next check | `allow`, `failed`, `reached`, `gameFinished` | every dial |
| Results session (`results`, `resultsSession`) | one framed stream | list, game, acknowledge | results queue |
| Commands (`processCommands`) | in-flight flag, acknowledgements | poll central, run, acknowledge | results session, store, restart |
| Discovery (`ozonelib`, `discovery.go`) | a table of announcements, the selected server | observe, select, wait, follow | poll loop's host, its identity check, the gate |
| Store, cache, failover (`store`, `cache`, `cacheGame`, `failoverPush`, `restoreFromCentral`, `Collect`) | files: payloads and metadata; copies at central | store, upsert, prune, purge, push, restore, collect | proxy, results session |
| Results proxy (`proxy`) | connection count | accept, serve, close | cache |
| Smaller parts | log generations, the legacy agent's `lastGameID`, the Windows service's states | | |

**What is hard here.** Five kinds of goroutine act on the gate with no common
lock over it. Every O-Zone reply may be late, meant for another client, without
an echo of the command it answers, or lost from a full queue; bus events may be
late or lost; finish timers fire in a later game. Queues are bounded and
evict while the entry at their head is being sent. The process may be stopped
or killed between any two steps of a spill or a restore. Central may take a
batch and the answer be lost. Retries, deferrals and give-ups of one game's
results meet each other, and everything that talks to the print server does so
on a stream whose replies do not say what they answer. Servers on the venue's
LAN move, fall silent and take each other's addresses. The host is suspended and
its wall clock set back.

**What makes each component correct.**

- *Gate*: shut for the rest of a game once any goroutine knows of it, or two
  polls into it with the bus silent, whatever is late; it opens again when O-Zone is idle.
- *Delivery*: a batch leaves the queue only by reaching central, by central's
  refusal, by the bounds or in a crash; central first sees batches in
  order; the queue empties when central is up; the byte count is exact.
- *Pack-IR*: the same of its readings (the code falls short, section 5).
- *Results queue*: every queued game comes to an end; no game is retried for
  ever; a game leaves the queue for a reason that is recorded.
- *Presence*: a server that is back is found and the waiting work done.
- *Results session*: no payload is filed under another game's number; once a game
  starts the print server is asked for one thing more at most.
- *Commands*: none runs in two goroutines or after its outcome is known; none is reported
  done untried; each comes to an end.
- *Discovery*: a server is chosen only if it was alone, left only if it is gone,
  found if it is there, and not mistaken for another.
- *Poll loop*: a reading that opens the gate is recent; what is not sent says
  nothing new; frames are counted once.
- *Store and failover*: what is listed with data has it, across crashes; nothing newer
  is replaced by an old copy; central's copy keeps up.
- *Proxy*: what it lists it answers; its connection cap holds.

## 2. The modules

| Module | Models |
|---|---|
| `GameGate` | the gate, its writers and O-Zone around them |
| `GateCheck` | extends it with a goroutine that reads the gate's parts one at a time |
| `PollLoop` | the poll loop in time: intervals, throttle, freshness by two clocks, the frame tally |
| `Buffer` | `buffer.go`: one operator per method |
| `Central` | central as `push/client.go` classifies its answers |
| `LossyFifo` | abstract: what buffering promises |
| `Telemetry` | `enqueue`, `deliverLoop` and `drainBuffer`, and the process's life, over `Buffer` and `Central`; implements `LossyFifo` |
| `PackIR` | `packir.go` over the same `Buffer` and `Central` |
| `PrintServer` | `printserver.go`: one operator per method |
| `Results` | the queue of finished games and everything that uses the print server, over `PrintServer` |
| `ResultsSession` | the results protocol's stream and the work that runs over it |
| `Commands` | central's commands over `ResultsSession`, beside the automatic work |
| `LibTable` | the table of announced servers and the choices made from it, as operators |
| `Discovery` | listening, choosing, connecting and following, over `LibTable`, on a LAN that changes |
| `Store` | `store.go` on a file system that can lose power |
| `Proxy` | the proxy and the cache it answers from, over `Store` |
| `Failover` | where a cached payload comes from and goes to: O-Zone, the cache, central |
| `GameGateProofs`, `TelemetryProofs`, `PackIRProofs`, `ResultsProofs`, `CommandsProofs`, `StoreProofs`, `FailoverProofs` | the theorems about the module each is named after; `GameGateProofs` is over `GateCheck` as well, `CommandsProofs` over `ResultsSession`, `StoreProofs` over `Proxy` |
| `PollingProofs` | the theorems about `Discovery` and `PollLoop` |

### GameGate

The poll loop's program counter is `pc`: `wait`, `state` (GETSERVERSTATE is
out), `packs` (GETACTIVEPACKS is out), `verdict`, `down` (the connection is
closed). `queue`, `discarded` and `lost` are the client's frame queue and the
record of the frames its calls dropped. `ReadFrame` is the reader
goroutine: `observeFrame` and then `admit`. `HandleBusEvent` and `AfterFinish`
are the bus client and the finish timer. `TakeState` acts at once on a reading
that closes the gate, and `Verdict` decides, from what the poll took and
dropped and from the start signs, whether the reading may open it. The environment (`ModeChange`,
`Answer`, `OtherClient`) is O-Zone: a mode that changes when it likes, each
change announced on the bus or not; late answers; other clients' replies with or
without an echo.

Abstractions, and why they lose nothing the properties tell apart:

- `startSignals`, `prevStarts` and a poll's sample of the first are compared
  for equality only and the first only grows: the model keeps the two comparisons,
  `sinceThis` and `sinceLast`.
- A frame carries its mode, its echo and (history) the game in which it was sent.
  `startSignals` is raised and the reading stored under one lock; the three stores
  of `noteServerMode` are one step, but the loads are not (`GateCheck`).
- `observeFrame` and `admit` are one step of the reader: a frame observed and not
  yet queued is, to the other goroutines, a frame in the queue.
- `Punctual`: the frames O-Zone sent before a poll began have been read when
  the *next* one begins. Polls are at least `nextPollInterval` (seconds)
  apart and the reader never blocks, so only a frame delayed on the LAN for that
  long escapes it. It bounds lateness to under two polls, which is what
  `collect`'s rule of two polls is made for; within it frames are as late as they like.
- A slow round's further commands are one `GETACTIVEPACKS`: each drops and keeps
  frames the same way. The host is fixed, so the identity check, which `Discovery`
  models, does not act.
- The age limit (`Age`) acts while the agent is disconnected; the
  comparison of clocks is `PollLoop`'s.

### GateCheck

`printServerGate` loads four atomics one after the other. Each load is an action, and
any step of `GameGate` may come between two.

### PollLoop

Time in units of the in-game interval. Ages are kept up to where they stop making a difference; an age by a
wall clock that was set back is `Back`, below every limit, as the code's subtraction has it.
`Suspend` ages what the wall clock measures and stops what the monotonic clock does; `SetBack`
the other way round. `BeginPoll` is the reading and `EndPoll` what follows the collection;
in between the connection's reader may store a newer reading that closes the gate
(`ObserveFrame`), so `pushDue`, which reads `serverMode` again, may compare another mode than the
payload carries. `tally` has the connection's two counters, those last seen, the total and
what is not logged yet. `closing` is the time between `pollLoop`'s last sample and `Run`'s `client.Close`:
the reader may still discard a frame (`DiscardUnseen`), which nobody counts.

Abstractions: a poll takes one unit at most (its round trips have deadlines); intervals are chosen
as `telemetryInterval` and `nextPollInterval` choose them, with what the bus says of the game left open;
of `lines`, the warning about lost polls is left out. `readReal`, which the
freshness property measures by, runs from the note of the reading. `PollLoopAssumption` states the
usual order `PollInterval <= IdlePollInterval <= SlowPollInterval`, which the configuration
does not enforce.

### Buffer, Central, Telemetry

`Buffer` has `items`, `bytes`, `nextID` and the spill file. Every method holds
`Buffer.mu` from start to end and is one step, but for `Load`, whose removal of
the file is a step of its own. `Telemetry` has the process's `phase` (`down`,
`loaded`, `up`, `stopping`, `spilled`) and `deliverLoop`'s `pc` and `held` entry. The drain's
peek, send and pop are three steps. At a graceful stop the spill does not wait for
`deliverLoop`, which goes on sending: batches sent after the spill are sent
again after the restart under the same idempotency key, and the model has those
steps. A `Crash` (also a spill that cannot be written) loses what is in memory only.

Left out: a spill file that cannot be parsed or removed, a request that reaches central after
the process that sent it has gone, and key reuse across restarts (the sequence is
seeded from the clock).

`LossyFifo` is the promise: no queue, no file, no process. Its `owed` is
`Keys(items) \cup Keys(spill)`; `Implements` is the refinement. It forbids
delivering out of order, dropping any but the oldest, and dropping at all except in making
a batch, at a restart or at a crash.

### PackIR

The same buffer, used differently: handlers are concurrent, `drain` ends with
`PopFront`, and `Close` saves first and shuts the listener second.

### PrintServer, Results

`pending` is `pendingFetch` in queue order, `fetched` and `givenUp` the two sets beside
it, `delays` the finish delays running (`finishHold` and the sleeping `afterFinish` of
each). A drain is in `drain`: its snapshot of due games (`todo`), the game at hand, what it
will report (`deferred`) and who launched it; `fetchBusy` is `drain.pc # "idle"`. Each
goroutine running `finishWork` is a `finisher`. `resultsMu` is shared with `other`: a
refresh (of the slow poll, of `finishWork`) or an operator's command. A fetch is four
steps, at each of which everything else may happen: the gate and `TryLock` (`Acquire`, or
`PutOff`), the gate again and `allow` (`Connect`), the dial's outcome, and the game's.

Abstractions:

- Time: an entry is `due` or backing off, a delay runs or is over, an absent print
  server's check is due or not, failures are spread over `minSpan` or not. What follows
  from each is the code's; when it happens is open. Delays are all of one length, so they
  end in the order they began.
- The gate is `GameGate`'s and turns here at any moment: a safety property that holds here
  holds for every gate.
- `queueFetch` reads the presence before it takes `App.mu`, `handleBusEvent` queues the
  game and then holds it, `fetchGameResults` follows `isFetched`, the gate and the lock
  one after the other, and `refetch_game` marks the game after it has released
  `resultsMu`: each is one step here. `finishWork`'s refresh runs on as `other` while its
  goroutine is free again.
- A session that loses its connection in the middle of a list dials again (`NextGame`),
  any number of times; what happens on its stream is `ResultsSession`'s.
- Left out: the bounds of 500 queued and 100 given-up games, a change of server (the host
  is fixed), the tracker's disabled state (nothing automatic runs then).

### ResultsSession, Commands

`walk` is the work that holds `resultsMu`: a refresh, a resync, a sync, a fetch or a refetch,
with what it asks for (`want`; 0 is the list), what is left (`todo`) and the failures in a row.
`owed` is what the print server has yet to send on the connection: the frames of its
handshake and a reply to each request. A read takes what is next, whatever it answers;
a read that times out leaves it owed (which is why the code retires the connection).
A payload names its game or names none (`named`). `Commands` adds central's queue of commands and
the goroutines that polls start: each fetches the batch, runs its commands one by one and
reports each; the process may crash at any point and remembers nothing of them. `store` is
whether the agent has a cache, which may change at a restart: without one no refresh runs, and a `cache_resync`
is reported done at once (`ResyncNothing`).

Abstractions: a command stands for its kind by what it does to the print server (`sync`,
`resync` and `refetch` use it, `reboot` stops the agent, `purge` stands for the rest); an acknowledgement that fails
reached central or did not; the presence tracker refuses automatic work when it likes
(`Connect`'s last disjunct), `Results` having the tracker itself. The acknowledgement written to the print
server at the end of a refresh or a fetch, whatever the gate says by then, asks for nothing and is not waited for: it is left out,
and `OneMoreAtMost` does not count it. A command whose outcome never reached central is handed out again and runs again,
as the code has it; `NoneRunsAgain` speaks of the others.

### LibTable, Discovery

`LibTable` is the table as operators over a function from sightings (server, announced address, sender) to
age and count. `Discovery` puts it on a LAN: `site` is the server at each address, which `Move`
changes; announcements are heard, lost or name another address. `held` is `stableChoice`, `pin`
the server and address chosen, `link` the connection and what the agent learnt of its server's
system. One unit of time is the period in which each server announces itself twice; within it announcements
come in any order. A restart forgets everything, as the process does.

Abstractions: `Wait` looks at least once a period (its ticker is a tenth of the window; `Tick`
waits for it); of `Moved`'s and `IdentityLost`'s counts only one and two differ; the follow check is
made before each dial and so whenever the agent is silent; what fails the packet parser or comes
from another network does not reach the table and is left out.

### Store

`meta` is the index in memory; every file is two values, as the file system shows it
(`metaFile`, `rawFile`) and as the disk holds it (`metaDisk`, `rawDisk`). `WriteBack` brings
the second up to the first at any time, `PowerCut` keeps, file by file, either; a process that
just ends (`Crash`) loses the index only. `Store.mu` is held from start to end of every
operation, so an operation is a step, except where a crash can cut it short: `StoreGame`
between the payload and the metadata, a deletion between its removals, and between games.
`op` is what the holder has yet to do. A metadata file may fail to be written, and a power
cut may leave it unreadable, which `loadMeta` skips.

Abstractions: a payload is whole or torn, and its contents are not compared; of the metadata
`HasRaw` and `UpdatedAt` are kept, and the rest has changed or not at each list (so `Recent`
allows, and never forces, the skipped write). The directory's sync, which the code tries and
whose error it ignores, succeeds. The file system applies a rename and a removal at once or
not at all. `seen`, when the list last held the game, is kept over a restart if what memory had of the
entry is what the file holds then; where it was not saved, or was lost with the power, the promise of retention starts anew.

### Proxy

One client is followed; others only take up connections. Its list is remembered (`listed`), and
which of its games were deleted since (`gone`). A request for a game is two steps, as in
`Store.GameRaw`: the index under the lock, the file after. `acceptLoop` compares with `conns`,
which the handler's goroutine counts up in a step of its own, and counts down in a step (`Uncount`) before
it closes the connection (`Close`). A stalled or broken connection
closes; the deadlines are not timed.

### Failover

A payload is a version number: O-Zone writes newer ones. `CacheGame` stores what was fetched and
starts a pusher, which waits for one of the slots, reads the store again and sends. `copier`
has the two that go the other way, `restore` (once, at start, with an empty cache) and `collect` (an operator's).
Central may hold another game's payload under the number: `Foreign` names that game, and `verifyPayload` refuses it;
`Nameless` names none and is taken, and counts as older than any version of the game itself. A push that
fails is not tried again; one that times out here (`PushTimesOut`) may be stored by central at any later moment (`LateArrives`).
`FetchGame` is a fetch that gave the game's own payload; what else a reply can be is `ResultsSession`'s. Left out: the
files (`Store` has them), the window's arithmetic (any subset may lie in it), what the pushes hold
in memory.

## 3. The runs

| Run | Module / cfg | Bounds | Shows |
|---|---|---|---|
| `game_gate` | GateCheck / MCGameGate | modes 1 and 3, echo, queue 2, record 2, wire 2, bus 2, 4 disturbances | `TypeOK`, `ShutOnceTold`, `ShutAfterTwoPolls`, `NoPassOnceTold` |
| `game_gate_live` | GameGate / MCGameGateLive | modes 1, 3 and 11 (neither playing nor idle), wire 1, bus 1, 3 disturbances | `Reopens` |
| `poll_loop` | PollLoop / MCPollLoop | modes 1, 3, 11; intervals 1, 2, 3; age limit 1; 2 discarded frames | `LoopTypeOK`, `FreshIsRecent`, `DiscardsAddUp`, `WithholdsOnlyRepeats` |
| `telemetry` | Telemetry / MCTelemetry | 2 entries, 3 bytes, sizes 1 and 3, 4 batches, 2 restarts or crashes | `MemoryBounded`, `NoneVanishes`, `Implements`, `Drains` |
| `pack_ir` | PackIR / MCPackIR | the same, 3 readings | `LossNeedsPressure`, `Drains` |
| `pack_ir_pop` | PackIR / MCPackIRPop | 2 entries of size 1, 3 readings, no restarts | violates `OnlyDealtWithLeaves` |
| `results` | Results / MCResults | polls only: 2 games, 2 attempts, cap 1, absent after failures spread over the window | `TypeOK`, `GivenUpRests`, `LeavesAccountedFor` |
| `results_live` | Results / MCResultsLive | polls and bus, or the bus alone: 1 game, 1 event in transit, 1 delay, dials and fetches may fail | `Settles` |
| `commands` | Commands / MCCommands | 3 games, a handshake of 1 frame, 2 failures in a row, sync, resync and reboot, 2 runners | `TypeOK`, `FiledAsAsked`, `OneMoreAtMost`, `NoneRunsAgain`, `DoneMeansTried`, `CommandsEnd` |
| `discovery` | Discovery / MCDiscovery | 2 servers, 2 addresses, selectors of one and of both, 3 table entries, entry life 2, window 1, follow after 3, 2 disturbances | `TypeOK`, `IntruderIsKnown`, `ChosenAlone`, `LeavesOnlyTheGone`, `SysflagIsTheServers`, `FindsItsServer`, `SaysWhyItWaits` |
| `serving` | Proxy / MCServing | 1 game, touch interval 2, retention 3, 4 ticks, cap 1, 3 connections | `ProxyTypeOK`, `StoredIsServable`, `ListedIsAnswered`, `CappedButForBursts`, `KeepsSeen` |
| `failover` | Failover / MCFailover | 1 game, 2 versions of it and a nameless one, 3 pushers, 2 slots | `TypeOK`, `NewestKept`, `BackupKeepsUp` |

Every run checks for deadlock.

**Why the bounds are enough.** A *disturbance* is a mode change, a frame of another
client or a failure; in `discovery` a change of the LAN, an announcement lost or misaddressed, a failed bind or a crash.
The shortest ways to an open gate in a game take two or
three: a game starts, ends and starts again with an event late, or a game starts with a stranger's frame
filling the queue. Four leave room for one more. A queue of 2 with a
wire of 2 overflows, and a record of 2 overflows by the frames it holds. Frames without an echo, which any command
would take, are in `game_gate_live` and in the theorems: beside the checking goroutine of
`game_gate` they would make it too large. The modes enter only through the two predicates, so one of each kind represents its
kind; mode 11 is of the third kind. The queue's two entries are the fewest
at which an entry is evicted while the head is being sent and another survives; sizes 1 and
3 against 3 bytes trim by count and by bytes, and several at once; four batches and
two restarts let a spill be restored onto a queue, evicted and spilled again.

For `Results`, two games and a cap of one make the cap bite, two attempts make a failure
that backs off and one that gives up, and an absence needs two failures, some time apart.
One finisher and the drain a poll launches are already two claimants of one drain; a
finish that comes while the finisher is busy waits for it. `Settles` lets nothing fail where polling
is off, for there a game whose fetch failed does wait for the next finish (section 5).

For `Commands`, three games are a list with one to fail, one to skip and one after; two
failures in a row end a batch, so the limit is met and missed. One handshake frame is enough to
be late, torn or read as a reply. Two runners are what a single flight must keep apart. The three commands are one of each way to use the
print server and the one that ends the run; `refetch` differs from a drain's fetch, which is in the run, in who asks.

For `Discovery`, two servers and two addresses make every disagreement there is: two servers, one server twice, one where another was. Three entries of
the eight sightings make the table overflow with what is live. Two disturbances suffice for a move with
one loss, an overflow and a swap of addresses. For `PollLoop` the three intervals differ and the age limit lies below
the slow one, as in the code; two discarded frames on two connections are the fewest that can be counted twice.

For `Store` and `Proxy`, one game is enough for its files, for no operation reads two games; a batch of
deletions is what two would add, and the theorems cover it. With a touch interval of
two, an entry written at 0 and seen at 1 is left as it is; its marker then lags by one tick, and at 4, past the retention of three,
it is due for pruning 3 ticks after it was seen: inside the window, and outside it less the touch interval, which is what `KeepsSeen` allows.
The same happens with a restart in between. A cap of one with three
connections is passed by one and by two. For `Failover`, games share nothing but the slots: three pushes of one game, of
which two may be under way, are two that overtake each other and one waiting, and the theorems cover more games. Two versions tell
a newer payload from an older one, and the nameless one is what central may hold beside them.

**Mutants.** Every property of every passing run has a definition of the code in `PROJECT.json` that,
changed as a plausible bug would change it, breaks the property
under the same cfg: the mutant stands beside the definition it changes.

## 4. Fairness

- `PollLoop`, `ReadFrame`, `HandleBusEvent`, `AfterFinish` of `GameGate`: weak fairness. Each
  is a goroutine that is never blocked for good: reads and round trips have deadlines, no lock
  is held across either, and timers fire.
- O-Zone answers each command it was asked in the end (weak fairness of `Answer`).
- `Reopens` assumes two things of O-Zone, in the property itself: it is idle for
  good from some point on, and from some point on answers before the next poll begins
  (`AnswersInTime`). The second is needed: a server that never
  echoes commands and is one poll late for ever never lets a poll settle, since each poll
  then finds the previous one's answer and cannot tell it from a stranger's.
- `Telemetry` and `PackIR`: the drain loop has a retry ticker beside its signal,
  hence weak fairness of its steps whatever the signal does; a stop that has begun
  runs to its end, and the supervisor (a container's restart policy or the Windows service manager)
  starts the agent again. No fairness of new batches, of stops, of
  crashes or of central. `Drains` assumes central stays up from some point on and its
  answers arrive from then on.
- `Results`: timers, the bus client, `finishWork`, polls and a drain that has begun go on
  (weak fairness; strong for the end of a delay, which the bound on `Finishers` makes wait
  for other finish work, as the code does not); O-Zone's games, the gate, failures, refreshes and commands have none.
  `GoodTimes`, the premise of `Settles`, is what the environment must
  grant: from some point on the gate stays open, no dial fails, and no drain finds
  `resultsMu` taken. The last excludes only a coincidence repeated for ever, for refreshes
  and commands hold the lock for a bounded time.
- `Commands`: runners and walks go on (every read has a deadline); polls recur; strong fairness of `Start`, because a
  `sync.Mutex` is handed to a waiter it has starved for a millisecond, so the automatic work,
  which takes it again and again, cannot keep a command from it. `CommandsEnd` assumes that the gate
  stays open, the process stays up but for reboots, and central's requests succeed, from some point on. The print server may
  fail for ever: a failed command is an ended one.
- `Discovery`: time passes, `Wait` looks, the agent dials and polls (weak fairness), and
  a server announces itself in every period but for the disturbances. A dial has to be made only
  when the connection does not lead to the machine at the address: a live one is not replaced.
  `FindsItsServer` excepts an agent pinned to a server that is nowhere on the LAN, from an address where nothing answers
  (`Stranded`): it waits there, since nothing says where else to go.

## 5. Findings

- **`packir.go:204`**: `drain` pops with `PopFront` whatever is at the head
  after the round trip. If the bounds evicted the reading meanwhile, the next one is removed without
  having been sent. `packir.go:2-3` promises buffering "exactly like the
  telemetry path", which uses `PopSent` for this very reason (`buffer.go:96-98`).
  Run `pack_ir_pop`.

`LossNeedsPressure` states what does hold of pack-IR readings: without an eviction and but for those
accepted during `Close`, none that was accepted is lost. The exception (`late`) is needed: `Close` saves
before it shuts the listener down (`packir.go:110-114`), so a reading answered 202 in
between is in no spill file.

Disagreements met while modelling, which the models contain and no run is dedicated to:

- **`app.go:2213`, `app.go:2079`**: a backfill, resync or refetch takes a game without
  asking whether it is inside its finish delay, which `refreshCache` does ask (`tooSoon`)
  and drains respect (`notBefore`). `CHANGELOG.md:37-38` says such a game is "never
  fetched before the finish delay is over", and `app.go:1649-1651` "whatever reaches it
  first" (`Results.OtherFetch`).
- **`app.go:1097`**: with results polling off, a fetch that failed is retried only when
  another game ends: a failure is not a deferral, so `finishWork` does not mark the work
  again, and nothing else drains. Its log says "next retry in". This is why `Settles` asks for `polling \/ ~faulty`.
- **`store.go:247`, `store.go:262`**: a deletion removes the payload first and the metadata
  second, syncs neither and ignores both errors, and `loadMeta` takes the metadata's word. Cut
  short in between, it leaves a game that is advertised after the restart and cannot be
  served, which `cache.go:39-45` says the list avoids, and that `refreshCache` does not fetch
  again. This is what the `deleted` of `StoredIsServable` and the `gone` of `ListedIsAnswered` except.
- **`app.go:675`**: `pushDue` compares `serverMode`, which the connection's reader may have stored
  since the poll read its payload, and remembers it as what was sent. A poll that reads mode 1 while the reader
  hears mode 11 sends 1 and remembers 11; later polls that read 11 are withheld for an idle interval,
  though `app.go:661` says "A CHANGE OF SERVER MODE always goes". It cannot happen to a game's beginning, since
  the in-game interval is over by the next poll, nor to its end, since the reader stores no idle mode: which is what
  `WithholdsOnlyRepeats` says.
- **`app.go:72-77`**: `errNotGameData` is said to be for a reply "in sequence". A handshake frame that comes late is
  taken for a reply that is no game, and the connection is kept, one reply behind; `verifyPayload` then rejects
  what names another game. A payload that names none is taken (`ResultsSession.ReadGame`): `FiledAsAsked` therefore excepts
  nameless payloads on a connection whose handshake was cut short.
- **`app.go:1310`**: `verifyPayload` takes a payload that names no game from central as well. One filed there under the wrong number
  (the finding above is a way for it to get there) is restored or collected, `HasRaw` is then true, and `refreshCache` does not fetch the game: the
  "one cache error that does not heal" of the comment (`app.go:1298-1301`), whose "Neither path is trusted now" promises that it cannot. `Failover`
  contains it (`Nameless`); what `NewestKept` shows is that such a copy does not replace what was fetched before the copy was chosen.
- **`app.go:1905`**: `restoreFromCentral` looks at the cache once, before it starts, and `Collect` before it asks central for the game; `StoreGame` then
  replaces whatever is cached. A game fetched in between is replaced by central's older copy, and not fetched again. This is the `undone` of
  `NewestKept`.
- **`app.go:1853`**: pushes of one game sent at the same time may arrive in either order, and one that timed out after any: central may be left with the
  older copy, until the game is fetched again. This is the `beside` of `BackupKeepsUp`, which speaks of pushes that are answered; that a push carries
  what is cached when its turn comes (`app.go:1834-1836`) is what keeps all others in order.
- **`app.go:1733`**: an agent whose cache is off or could not be opened acknowledges a `cache_resync` as done, "games": 0, without dialling.
  The comment on `refreshCache`'s waiting says what it is to prevent: it "would ack a resync that never dialled" (`app.go:1748-1749`), and
  `CHANGELOG.md:44-45` that a cache resync "connects even to a print server treated as absent". `DoneMeansTried` excepts it (`Commands.ResyncNothing`).

## 6. What is proved

All theorems hold for every value of the constants under the modules'
assumptions (each module's own: `BufferAssumption`, `SessionAssumption`, `ResultsAssumption` and so on), which TLC evaluates in
the runs.

**GameGateProofs.** `TypeCorrect`: `Spec => []TypeOK`. `Inductive`: `Spec => []IInv`,
then `GateShutOnceTold` and `GateShutAfterTwoPolls`. The two safety properties
are not inductive: they hold because of what may still be in transit. `IInv` says

- frames and events in transit carry at most the current game's number, grow along their
  queues (`FramesInv`, `BusInv`), and a frame with a playing
  mode of this game exists only if the game is this one;
- a sign that has been handled has raised `sinceLast`, and it stays raised
  until a poll that *began* after the sign completes (`ToldInv`): such a poll
  refuses older frames (`Flush` and `Command` drain the queue), and
  by `Punctual` anything still on the wire is of this game, so it reads the game
  and ends unsettled or with a playing mode (`PollReadsGame`);
- while told, the gate is shut because the mode is playing or the poll is
  unsettled (`ShutInv`), whatever late bus events and timers do to `gameState`;
- the same with the bus silent, counted in polls begun in the game (`TwoPollsInv`).

`NoPass`: `CheckSpec => []NoPassOnceTold`, the gate read part by part. `ChecksOnly`, `CheckSpec => Spec`, hands down what is proved
of the gate. Of the parts that shut it for a told game, one that the check has yet to load stays as it is while the game
lasts (`ChkInv`): the state the bus set, or the poll loop's doubt, which is loaded last for this reason. The
doubt needs `WireInOrder`: no frame on the wire is older than the last frame that told.

**TelemetryProofs.** First what `Push`, the trimming, the pops and `Load` keep: the queue is typed and within its
bound of entries, ids grow along it and stay under `nextID` (`IdsGrow`), trimming drops from the head and
never the last (`TrimFacts`). The byte count is a function recursive in the queue's length (`Totals`); that a
pop from either end or the middle takes an entry's size off the sum is proved by taking the least counterexample,
since the order of the naturals is well founded (`WFMin`): the library's induction theorem, whose parameter is an operator, is not needed.

Then `TypeCorrect`, `Inductive` and `NoBatchVanishes`: `Spec => []NoneVanishes`. The
invariant needs, beside it: ids grow along the queue, so the entry `PopSent` finds under the id it was handed is the one that was sent
(`HeldIsQueued`); a held entry past its round trip has been dealt with
(`HeldDealtWith`); and while a spill file exists with the process up, the queue's batches
are in it or dealt with (`SpillInv`). `MemoryIsBounded`: `Spec => []MemoryBounded`, the exact byte count and the bound on it.

`Refines`: `Spec => Implements`, that the whole path is the bounded FIFO of `LossyFifo`. It takes a second
invariant (`Ordered`): queue and spill are in the order the batches were made, what central has is older than anything owed that it could still take
(`NoneOvertaken`), what is being sent is the oldest of that (`HeldIsOldest`), and after a stop the spill file owes
no more than the queue and what was dealt with since (`SpillOwes`). Each step then is a step of `LossyFifo` or a stutter.

**PackIRProofs.** `TypeCorrect`, `Inductive` and `LossIsPressure`: `Spec => []LossNeedsPressure`. `PopFront` asks for no id,
so the argument is another: readings are queued once each (`OnceEach`); as long as nothing was evicted the
queue only grows at its end, so what drain holds is its head until drain pops it (`HeldIsHead`), and by then it
is at central or refused (`HeldDealtWith`); the spill has what the queue had but for what came late (`SpillInv`).
That readings differ along the queue (`Differ`) is what the lemmas about `Buffer`'s operations carry here, where
`TelemetryProofs` has them carry the order of ids.

**ResultsProofs.** `TypeCorrect` (with it: no game is queued twice), `Inductive`, `GivenUpStays`: `Spec => []GivenUpRests`, and
`NoneIsLost`: `Spec => LeavesAccountedFor`. That a game is in the queue once (`Once`) is what makes the removal of an entry the
removal of a game. A failed fetch puts back a game that was dropped while the drain had it, so `GivenUpRests` is not inductive: `DrainInv`
adds that nothing on the drain's list was given up since the list was made, that the game the drain holds is no longer on the list,
and that a game it clears has been fetched. Neither property needs anything of the gate or of `resultsMu`.

**CommandsProofs.** `Inductive`, then one theorem for each invariant of the run: `TypeCorrect`, `FiledRight` (`FiledAsAsked`), `OneMore`
(`OneMoreAtMost`), `NoneTwice` (`NoneRunsAgain`), `DoneIsTried` (`DoneMeansTried`, with its exception of a resync without a cache). About the session (`SInv`): with the handshake read to its end, nothing is owed between
requests and exactly the reply to the last one after it (`InStep`), since all that fails in between closes the connection; a walk that
has asked with the gate shut reads the gate before it asks again (`ShutOut`); and what has come to games has been
on the line (`Dialled`). About commands (`CInv`): at most one goroutine has any (`OneRuns`), and of what it has left to run or
report central has no outcome (`AtHand`), for a command deferred or reported is out of the batch.

**StoreProofs.** `TypeCorrect`, `Inductive`, then `StoredGamesAreServable` and
`SeenGamesAreKept`. `StoredIsServable` is not inductive, for a restart reads the index from
files and a power cut takes files from the disk. `IInv` says that no metadata in any of the three places
claims a payload that is not whole both in the file and on the disk (`WholeInv`), so whatever mixture
a power cut keeps is covered; that between `StoreGame`'s two steps the payload is whole already
(`SaveInv`); and that a marker, memory's while the process is up and the file's while it is down, lags behind the list by at most the touch interval
(`MarkerInv`). It assumes `TouchEvery <= Retention`, which the comment on `metaTouchInterval`
asks for.
Of `Proxy`: `ServesAsItIs`, `ProxySpec => Spec` (the proxy changes nothing of the store, so all of the above holds beneath it),
`ProxyInductive`, `ProxyTypeCorrect`, `ListIsAnswered`: `ProxySpec => []ListedIsAnswered`, and `ConnectionsAreCapped`: `ProxySpec => []CappedButForBursts`.
`ListInv` says that what the client was sent stays in the index until it is deleted, and that a deletion under way is counted as one.

**FailoverProofs.** `TypeCorrect`: `Spec => []TypeOK` (with it: no more than `maxFailoverPushes` send at once), `Inductive`,
and `NewestStays`: `Spec => []NewestKept`. The invariant adds that
what a session has read is O-Zone's and no older than anything cached before it (`FetchedInv`); that what is sent or copied
exists (`CopyInv`); and that while a copy of a game is under way, nothing of it was cached from O-Zone, or the game
is in `undone` (`NewestInv`).
`CentralKeepsUp`: `Spec => BackupKeepsUp`. What is being sent is what is cached, or another push of the game waits its
turn and will read the store again (`AllUpToDate`); pushes of one game beside each other are what the property excepts, and
what arrives late is no push that is answered.

**PollingProofs, of Discovery.** `TypeCorrect`, `Inductive`, then one theorem for each safety property of the run: `IntruderKnown`
(`IntruderIsKnown`), `LeavesGone` (`LeavesOnlyTheGone`), `SysflagOwn` (`SysflagIsTheServers`), `ChosenIsAlone` (`ChosenAlone`). The agent knows the
LAN only by the table, so the invariant ties the table to what was in fact heard: an entry's age is the time since (`AgeInv`), and what was heard
within the life of an entry is in the table or was dropped when that was full of entries no older (`DropInv`). An intruder sends one
packet or more in each period, but `IdentityLost` wants two of one entry, and a full table may drop that entry in between and start its count anew: then
the table is full of entries of this period or the last two and something else has been dropped since (`WrongInv`), which is what the
property excepts. A choice is held only as long as each of Wait's looks, of which there is one in every period, finds it alone: any other
candidate has been silent since it lapsed, or was heard since the last look (`HeldInv`).

`IntruderIsKnown` needs an entry to live for at least two periods: with a lifetime of one, three addresses and a table of two
entries TLC finds it violated, for the table that dropped the intruder's entry is no longer full when it counts it anew.
The code's `entryTTL` is 30 s and a server announces itself every 5 s, so a period, two announcements, is a third of it; `TableAssumption`
asks for no more than that it be at most half.

**PollingProofs, of PollLoop.** `LoopInductive`, `LoopTypeCorrect`, `FreshReadings` (`FreshIsRecent`), `DiscardsCounted` (`DiscardsAddUp`), `OnlyRepeatsWithheld`
(`WithholdsOnlyRepeats`). Until the host has slept the monotonic clock gives a reading's age, until it is set back the
wall clock does (`ReadInv`); `seen` never passes `count`, and a connection that has ended was sampled last (`TallyTyped`), whatever was discarded after. For the throttle: a slow
poll is always sent and comes at most one poll late (`SlowInv`); and where what was remembered as sent differs from what was,
the reader had shut the gate, and if with a game's mode then a full in-game interval is over by the next poll (`PushInv`).

**Only model-checked**: liveness (`Reopens`, `Drains`, `Settles`, `CommandsEnd`, `FindsItsServer`, `SaysWhyItWaits`), which the prover cannot
reach. Every other property of the runs is a theorem, but for the one that is expected to fail.

## 7. Not modelled, and the plan

`PROJECT.json` lists every component with its status. The proofs that could come next:

1. An abstract store whose operations are atomic, and that `Store` implements it, with what a power cut may take as its one nondeterministic step.
2. That `PackIR` implements `LossyFifo` as `Telemetry` does, but for what is accepted while it stops.

Not modelled within modelled components: the wire framings of the three O-Zone protocols and their size bounds; the reader's byte
budget; the message bus's stall deadline; the presence tracker's disabled state and backoff lengths; the memory
bounds of 500 queued and 100 given-up games; the share of lost polls, which only words a warning;
a spill file that cannot be parsed; the setup tool's scan of the LAN.

Not to be modelled: the setup UI, the admin API's routing, configuration parsing, the health endpoint, translation of
legacy records, platform calls and the simulators: data conversion or I/O with no state
that outlives a request. The log's rotation is renames under one mutex; the legacy agent is a
sequential loop over a vendor's database; the Windows service's states are the service manager's.
