------------------------------ MODULE Commands ------------------------------
(***************************************************************************)
(* The commands central queues for the agent (processCommands and          *)
(* runCommand in internal/app/app.go), beside the automatic work they      *)
(* share the print server with.  Each poll may start a goroutine that      *)
(* fetches the queued commands, runs each and reports how it went;         *)
(* cmdBusy lets one at a time work.  A results command waits for           *)
(* resultsMu, then for the print server.                                   *)
(***************************************************************************)
EXTENDS ResultsSession

CONSTANTS
  Ids        \* bound: the commands given, one of a type

ASSUME CommandsAssumption == Ids \subseteq {"refetch", "sync", "resync", "reboot", "purge"}

VARIABLES
  issued,      \* the commands given
  queue,       \* central's: those whose outcome it has not been told
  reported,    \* history: those whose outcome it has
  cmdBusy,
  runner,      \* each goroutine: where it is, its batch, its command and outcome
  stopping,    \* stopRun has been called
  store        \* the agent has a cache: it is enabled, and could be opened

centralVars == <<issued, queue, reported>>
agentVars   == <<cmdBusy, runner, stopping, store>>
vars == <<gate, sessionVars, centralVars, agentVars>>

NoRunner == [pc |-> "idle", batch |-> {}, cmd |-> "none", status |-> "none", tried |-> FALSE]

(* isResultsCommand *)
IsResults(c) == c \in {"refetch", "sync", "resync"}

Init ==
  /\ SessionInit
  /\ issued = {} /\ queue = {} /\ reported = {}
  /\ cmdBusy = FALSE /\ stopping = FALSE /\ store \in BOOLEAN
  /\ runner = [r \in Runners |-> NoRunner]
-----------------------------------------------------------------------------
GateTurns ==
  /\ gate' = ~gate
  /\ asked' = 0
  /\ UNCHANGED <<walk, connected, owed, cutShort, misfiled, centralVars, agentVars>>

Issue(c) ==
  /\ c \notin issued
  /\ issued' = issued \cup {c}
  /\ queue' = queue \cup {c}
  /\ UNCHANGED <<gate, sessionVars, reported, agentVars>>

(* A refresh that a poll or finish work starts, and a drain's fetch of one  *)
(* game: neither waits for resultsMu.                                       *)
StartAutomatic ==
  /\ ~stopping /\ gate /\ Free
  /\ \/ store /\ walk' = Walk("refresh", "auto", List)
     \/ \E n \in Games : walk' = Walk("fetch", "auto", n)
  /\ UNCHANGED <<gate, connected, owed, cutShort, misfiled, asked, centralVars, agentVars>>

(* The admin API's Resync, once resultsMu is free: the gate may have shut   *)
(* since it came.                                                           *)
Resync ==
  /\ ~stopping /\ store /\ Free
  /\ walk' = Walk("resync", "auto", List)
  /\ UNCHANGED <<gate, connected, owed, cutShort, misfiled, asked, centralVars, agentVars>>

UncommandedEnds ==
  /\ Ended /\ walk.by = "auto"
  /\ EndWalk
  /\ UNCHANGED <<gate, misfiled, asked, centralVars, agentVars>>

Walks == WalkStep /\ UNCHANGED <<centralVars, agentVars>>
-----------------------------------------------------------------------------
(***************************************************************************)
(* processCommands.                                                        *)
(***************************************************************************)

(* Mutant of MayStart: runs overlap. *)
MayStartAnother == TRUE

MayStart == ~cmdBusy

(* A poll starts a run, which ends at once while another is in progress. *)
PollCommands(r) ==
  /\ ~stopping /\ runner[r].pc = "idle" /\ MayStart
  /\ cmdBusy' = TRUE
  /\ runner' = [runner EXCEPT ![r].pc = "fetch"]
  /\ UNCHANGED <<gate, sessionVars, centralVars, stopping, store>>

(* Mutant of RunEnds: a run in which nothing is left to do stays busy. *)
RunEndsBusy(r) ==
  /\ UNCHANGED cmdBusy
  /\ runner' = [runner EXCEPT ![r] = NoRunner]

RunEnds(r) ==
  /\ cmdBusy' = FALSE
  /\ runner' = [runner EXCEPT ![r] = NoRunner]

Fetch(r) ==
  /\ runner[r].pc = "fetch"
  /\ runner' = [runner EXCEPT ![r].pc = "next", ![r].batch = queue]
  /\ UNCHANGED <<gate, sessionVars, centralVars, cmdBusy, stopping, store>>

FetchFails(r) ==
  /\ runner[r].pc = "fetch"
  /\ RunEnds(r)
  /\ UNCHANGED <<gate, sessionVars, centralVars, stopping, store>>

BatchDone(r) ==
  /\ runner[r].pc = "next" /\ runner[r].batch = {}
  /\ RunEnds(r)
  /\ UNCHANGED <<gate, sessionVars, centralVars, stopping, store>>

To(r, c, pc, status) ==
  runner' = [runner EXCEPT ![r] = [pc |-> pc, batch |-> @.batch \ {c}, cmd |-> c, status |-> status,
                                   tried |-> FALSE]]

(* A results command is deferred while the gate is shut: central keeps it,  *)
(* whether or not it is told.                                               *)
Defer(r, c) ==
  /\ runner[r].pc = "next" /\ c \in runner[r].batch
  /\ IsResults(c) /\ ~gate
  /\ runner' = [runner EXCEPT ![r].batch = @ \ {c}]
  /\ UNCHANGED <<gate, sessionVars, centralVars, cmdBusy, stopping, store>>

(* runCommand, of a results command: it waits for resultsMu. *)
RunResults(r, c) ==
  /\ runner[r].pc = "next" /\ c \in runner[r].batch
  /\ IsResults(c) /\ gate
  /\ c # "resync" \/ store
  /\ To(r, c, "lock", "none")
  /\ UNCHANGED <<gate, sessionVars, centralVars, cmdBusy, stopping, store>>

(* refreshCache of an agent that has no cache returns at once, with success. *)
ResyncNothing(r, c) ==
  /\ runner[r].pc = "next" /\ c \in runner[r].batch
  /\ c = "resync" /\ gate /\ ~store
  /\ To(r, c, "ack", "done")
  /\ UNCHANGED <<gate, sessionVars, centralVars, cmdBusy, stopping, store>>

(* refreshCache reads the gate once more before it waits. *)
ResyncDeferred(r) ==
  /\ runner[r].pc = "lock" /\ runner[r].cmd = "resync" /\ ~gate
  /\ runner' = [runner EXCEPT ![r].pc = "ack", ![r].status = "deferred"]
  /\ UNCHANGED <<gate, sessionVars, centralVars, cmdBusy, stopping, store>>

(* A reboot, an overview, a purge of the cache: no print server. *)
RunLocal(r, c) ==
  /\ runner[r].pc = "next" /\ c \in runner[r].batch
  /\ ~IsResults(c)
  /\ To(r, c, "ack", "done")
  /\ UNCHANGED <<gate, sessionVars, centralVars, cmdBusy, stopping, store>>

(* Mutant of Acquire: a refresh under way is taken for this one's. *)
AcquireOrPass(r) ==
  LET c == runner[r].cmd
  IN  IF Free
      THEN /\ runner' = [runner EXCEPT ![r].pc = "walk"]
           /\ walk' = Walk(c, r, List)
      ELSE /\ c = "resync"
           /\ runner' = [runner EXCEPT ![r].pc = "ack", ![r].status = "done"]
           /\ UNCHANGED walk

(* resultsMu.Lock, and the work it is for. *)
Acquire(r) ==
  LET c == runner[r].cmd
  IN  /\ Free
      /\ runner' = [runner EXCEPT ![r].pc = "walk"]
      /\ \E n \in IF c = "refetch" THEN Games ELSE {List} : walk' = Walk(c, r, n)

Start(r) ==
  /\ runner[r].pc = "lock"
  /\ Acquire(r)
  /\ UNCHANGED <<gate, connected, owed, cutShort, misfiled, asked, centralVars, cmdBusy,
                 stopping, store>>

CommandEnds(r) ==
  /\ runner[r].pc = "walk" /\ walk.by = r /\ Ended
  /\ runner' = [runner EXCEPT ![r].pc = "ack", ![r].status = Outcome, ![r].tried = walk.tried]
  /\ EndWalk
  /\ UNCHANGED <<gate, misfiled, asked, centralVars, cmdBusy, stopping, store>>

(* Central hears of an outcome: a deferred command stays queued. *)
Told(r) ==
  LET told == IF runner[r].status = "deferred" THEN {} ELSE {runner[r].cmd}
  IN  /\ queue' = queue \ told
      /\ reported' = reported \cup told

Onward(r) ==
  /\ runner' = [runner EXCEPT ![r] = [NoRunner EXCEPT !.pc = "next", !.batch = runner[r].batch]]
  /\ UNCHANGED <<cmdBusy, stopping>>

(* A reboot reported ends the run, and the rest of its batch with it. *)
Ack(r) ==
  /\ runner[r].pc = "ack"
  /\ Told(r)
  /\ IF runner[r].cmd = "reboot"
     THEN stopping' = TRUE /\ RunEnds(r)
     ELSE Onward(r)
  /\ UNCHANGED <<gate, sessionVars, issued, store>>

(* AckCommand fails: central heard, or did not. *)
AckFails(r) ==
  /\ runner[r].pc = "ack"
  /\ Told(r) \/ UNCHANGED <<queue, reported>>
  /\ Onward(r)
  /\ UNCHANGED <<gate, sessionVars, issued, store>>

(* The process ends and is started again: the cache is all it keeps, if it  *)
(* can be opened.                                                           *)
Restarted ==
  /\ walk' = NoWalk /\ Retire /\ asked' = 0
  /\ cmdBusy' = FALSE /\ stopping' = FALSE /\ store' \in BOOLEAN
  /\ runner' = [r \in Runners |-> NoRunner]
  /\ gate' = FALSE
  /\ UNCHANGED <<misfiled, centralVars>>

Stop == stopping /\ Restarted

Crash == Restarted

Runs(r) ==
  \/ PollCommands(r) \/ Fetch(r) \/ FetchFails(r) \/ BatchDone(r) \/ ResyncDeferred(r)
  \/ Start(r) \/ CommandEnds(r) \/ Ack(r) \/ AckFails(r)
  \/ \E c \in Ids : Defer(r, c) \/ RunResults(r, c) \/ ResyncNothing(r, c) \/ RunLocal(r, c)

Next ==
  \/ GateTurns \/ StartAutomatic \/ Resync \/ UncommandedEnds \/ Walks
  \/ Stop \/ Crash
  \/ \E c \in Ids : Issue(c)
  \/ \E r \in Runners : Runs(r)

Spec == Init /\ [][Next]_vars

(* Polls go on, goroutines run, and a mutex is not withheld for ever from   *)
(* who waits for it (sync.Mutex hands over to a waiter it has starved).     *)
FairSpec ==
  /\ Spec
  /\ WF_vars(Walks) /\ WF_vars(UncommandedEnds) /\ WF_vars(Stop)
  /\ \A r \in Runners : WF_vars(Runs(r)) /\ SF_vars(Start(r))
-----------------------------------------------------------------------------
TypeOK ==
  /\ SessionTypeOK
  /\ issued \subseteq Ids /\ queue \subseteq issued /\ reported \subseteq issued
  /\ cmdBusy \in BOOLEAN /\ stopping \in BOOLEAN /\ store \in BOOLEAN
  /\ runner \in [Runners -> [pc : {"idle", "fetch", "next", "lock", "walk", "ack"}, batch : SUBSET Ids,
                             cmd : Ids \cup {"none"}, tried : BOOLEAN,
                             status : {"none", "done", "deferred", "failed"}]]
  /\ connected => ~Free

(* The commands r has still to run. *)
ToRun(r) == runner[r].batch \cup (IF runner[r].pc = "lock" THEN {runner[r].cmd} ELSE {})

(* No command runs again whose outcome central has, nor twice at once:      *)
(* whenever a poll starts a run, an earlier one, waiting for the print      *)
(* server, may still hold a batch (processCommands, cmdBusy).  One whose    *)
(* outcome never reached central is handed out again, and does run again.   *)
NoneRunsAgain ==
  \A r \in Runners :
    /\ ToRun(r) \cap reported = {}
    /\ \A s \in Runners \ {r} : runner[r].cmd # "none" => runner[r].cmd \notin ToRun(s)

(* A results command reported done has been on the line to the print server *)
(* itself, whoever was using it when the command came (refreshCache's       *)
(* comment on waiting: "would ack a resync that never dialled"); but for a  *)
(* resync of an agent without a cache, reported done with nothing to do.    *)
DoneMeansTried ==
  \A r \in Runners :
    runner[r].pc = "ack" /\ IsResults(runner[r].cmd) /\ runner[r].status = "done" =>
      runner[r].tried \/ (runner[r].cmd = "resync" /\ ~store)

(* Once the gate stays open, central answers and the process stays up,      *)
(* every command comes to an end, whatever the print server does and        *)
(* however often it was deferred.                                           *)
CommandsEnd ==
  (/\ <>[]gate
   /\ <>[][~Crash \/ Stop]_vars
   /\ <>[][\A r \in Runners : ~(FetchFails(r) \/ AckFails(r))]_vars)
  => <>[](queue = {})
=============================================================================
