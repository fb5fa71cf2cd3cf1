----------------------------- MODULE Discovery -----------------------------
(***************************************************************************)
(* OZONE_WS_HOST=auto: the agent listens for the game servers' LAN         *)
(* announcements (internal/ozonelib), chooses one server once per process  *)
(* (awaitOzone, internal/app/discovery.go), and restarts to follow it to a *)
(* new address or when another server takes its address.                   *)
(*                                                                         *)
(* Time passes in steps of the period in which every server announces      *)
(* itself twice.  The LAN is modelled as it is: which server is at which   *)
(* address, and which of its announcements are lost.  A connection to the  *)
(* machine at the chosen address is dead once another machine is there.    *)
(***************************************************************************)
EXTENDS LibTable

CONSTANTS
  Selectors,    \* what OZONE_SID and OZONE_ARENA may be set to match
  Window,       \* libWindow
  FollowAfter,  \* followAfter
  MaxChaos      \* bound: changes of the LAN, announcements that are lost or name
                \*   another address, failed binds and crashes

ASSUME DiscoveryAssumption ==
  /\ Window \in Nat \ {0} /\ FollowAfter \in Nat \ {0} /\ MaxChaos \in Nat
  /\ Selectors \subseteq SUBSET Servers

VARIABLES
  site,      \* the LAN: the server at each address
  wanted,    \* cfg.LIB: the servers the selector matches
  phase,     \* "down", "unbound", "waiting" (Service.Wait) or "running"
  listened,  \* time since listenedAt, up to Window
  table,     \* Table.entries
  held,      \* stableChoice, and whether Wait has looked in this period
  pin,       \* App.pin and App.ozoneHost
  link,      \* the O-Zone connection: the server it leads to, and App.site
  silent,    \* time since pinnedAt or the last server state, up to FollowAfter
  quiet,     \* history: time since each sighting was heard, up to Long
  forgotten, \* history: sightings dropped from a full table
  wrong,     \* history: periods another server was heard at pin's address
  chaos      \* how much of MaxChaos is left

lanVars == <<site, wanted>>
ghosts == <<quiet, forgotten, wrong>>
vars == <<lanVars, phase, listened, table, held, pin, link, silent, ghosts, chaos>>

(* Long enough for an entry to lapse and a choice to be held for a window. *)
Long == TTL + 1 + Window
WrongCap == TTL + 1

Nothing == [c \in {} |-> None]
NoLink == [server |-> None, sysflag |-> None]
NotHeld == [key |-> None, ip |-> None, for |-> 0, looked |-> FALSE]

Up(n, cap) == IF n < cap THEN n + 1 ELSE cap

Init ==
  /\ site \in [Addrs -> Servers \cup {None}]
  /\ wanted \in Selectors
  /\ phase = "down" /\ listened = 0 /\ table = Nothing
  /\ held = NotHeld /\ pin = None /\ link = NoLink /\ silent = 0
  /\ quiet = [c \in Sightings |-> Long] /\ forgotten = {} /\ wrong = 0
  /\ chaos = MaxChaos

(* A fault, or a change of the LAN. *)
Chaos == chaos > 0 /\ chaos' = chaos - 1
-----------------------------------------------------------------------------
(* bind *)
Bind(from) ==
  /\ phase = from
  /\ phase' = "waiting" /\ listened' = 0
  /\ UNCHANGED <<lanVars, table, held, pin, link, silent, ghosts, chaos>>

(* Start, whose bind may fail: in auto mode retry then goes on trying. *)
Start == Bind("down")
Retry == Bind("unbound")

StartFails ==
  /\ phase = "down" /\ Chaos
  /\ phase' = "unbound"
  /\ UNCHANGED <<lanVars, listened, table, held, pin, link, silent, ghosts>>

(* readLoop and Observe: an announcement of a server that is on the LAN,    *)
(* naming the address it is sent from or, at times, another; a server is    *)
(* heard twice in a period.  What comes from beyond the local networks or   *)
(* does not parse changes nothing but a count.                              *)
Hear(c) ==
  /\ phase \in {"waiting", "running"}
  /\ site[c.sender] = c.key
  /\ IF Usable(c) THEN UNCHANGED chaos ELSE Chaos
  /\ quiet[c] = 0 => c \in DOMAIN table /\ table[c].packets = 1
  /\ table' \in Observed(table, c)
  /\ quiet' = [quiet EXCEPT ![c] = 0]
  /\ forgotten' = (forgotten \cup DOMAIN Live(table) \cup {c}) \ DOMAIN table'
  /\ UNCHANGED <<lanVars, phase, listened, held, pin, link, silent, wrong>>

(* stableChoice.hold *)
Hold(r) ==
  IF r.outcome # "selected" THEN [NotHeld EXCEPT !.looked = TRUE]
  ELSE [key |-> r.selected.key, ip |-> r.selected.ip, looked |-> TRUE,
        for |-> IF held.key = r.selected.key /\ held.ip = r.selected.ip THEN held.for ELSE 0]

(* Mutant of Ready: whatever the window holds at its end is chosen. *)
ReadyAtEnd(r, h) == r.outcome = "selected" /\ listened >= Window

(* What Wait returns on. *)
Ready(r, h) == r.outcome = "selected" /\ h.for >= Window /\ listened >= Window

(* One look of Wait's. *)
Look ==
  /\ phase = "waiting"
  /\ held' = Hold(SelectFrom(table, wanted))
  /\ ~ Ready(SelectFrom(table, wanted), held')
  /\ UNCHANGED <<lanVars, phase, listened, table, pin, link, silent, ghosts, chaos>>

(* The look that chooses, and the rest of awaitOzone: setOzoneHost, pin and *)
(* SetSelected.                                                             *)
Choose ==
  LET r == SelectFrom(table, wanted)
  IN  /\ phase = "waiting"
      /\ Ready(r, Hold(r))
      /\ phase' = "running" /\ pin' = [key |-> r.selected.key, ip |-> r.selected.ip]
      /\ silent' = 0 /\ held' = NotHeld
      /\ UNCHANGED <<lanVars, listened, table, link, ghosts, chaos>>

(* The process ends, and is started again: it knows nothing. *)
Restart ==
  /\ phase' = "down" /\ listened' = 0 /\ table' = Nothing /\ held' = NotHeld
  /\ pin' = None /\ link' = NoLink /\ silent' = 0
  /\ quiet' = [c \in Sightings |-> Long] /\ forgotten' = {} /\ wrong' = 0

(* Mutant of Connected: what was learnt over the last connection is kept. *)
ConnectedKeeping(s) == [link EXCEPT !.server = s]

(* pollLoop begins: "the address may answer for another game server after a *)
(* reconnect", so its system is asked anew.                                 *)
Connected(s) == [NoLink EXCEPT !.server = s]

(* Run dials, now or when a connection has failed. *)
Connect ==
  /\ phase = "running" /\ site[pin.ip] # None
  /\ link' = Connected(site[pin.ip])
  /\ UNCHANGED <<lanVars, phase, listened, table, held, pin, silent, ghosts, chaos>>

(* collect: the machine at our address answers GETSERVERSTATE. *)
Answered == phase = "running" /\ link.server # None /\ site[pin.ip] = link.server

(* GETSITEINFO's reply: the SYSFLAG of the server it came from, or none     *)
(* that is one byte's value, or no reply at all.                            *)
SiteReplies == {link.server, None}

(* siteInfo.note: "a reply without a usable SYSFLAG leaves the last reading *)
(* standing".                                                               *)
Noted(reply) == IF reply = None THEN link ELSE [link EXCEPT !.sysflag = reply]

(* A slow poll whose other commands were all answered, which is settled and *)
(* due to, asks what system the server is; others do not.                   *)
SlowRound == {link} \cup {Noted(reply) : reply \in SiteReplies}

Poll ==
  /\ Answered /\ ~ IdentityLost(table, pin.key, pin.ip)
  /\ silent' = 0 /\ link' \in SlowRound
  /\ UNCHANGED <<lanVars, phase, listened, table, held, pin, ghosts, chaos>>

(* identityLost and restartFor: that machine is another server. *)
LoseIdentity ==
  /\ Answered /\ IdentityLost(table, pin.key, pin.ip)
  /\ Restart
  /\ UNCHANGED <<lanVars, chaos>>

Silent == silent >= FollowAfter

(* Probe: the address answers a server-state request, whichever server is   *)
(* there.                                                                   *)
Probed(a) == site[a] # None

(* maybeFollow, before each dial. *)
MaybeFollow ==
  /\ phase = "running" /\ Silent
  /\ \E moved \in Moved(table, pin.key, pin.ip) : Probed(moved)
  /\ Restart
  /\ UNCHANGED <<lanVars, chaos>>

(* Mutant of WaitDetail: whatever was heard is blamed on the selector. *)
WaitDetailOfSelector ==
  LET r == SelectFrom(table, wanted)
  IN  CASE r.outcome = "selected" -> "confirming"
        [] r.outcome \in {"ambiguous", "conflict"} -> "unmatched"
        [] DOMAIN Live(table) = {} -> IF listened < Window THEN "waiting" ELSE "silence"
        [] OTHER -> "unmatched"

(* waitDetail: what stands in the way of a choice. *)
WaitDetail ==
  LET r == SelectFrom(table, wanted)
      heard == DOMAIN Live(table)
  IN  CASE r.outcome = "selected" -> "confirming"
        [] r.outcome \in {"ambiguous", "conflict"} -> r.outcome
        [] heard = {} -> IF listened < Window THEN "waiting" ELSE "silence"
        [] heard # {} /\ UsableIn(table, Servers) # {} -> "unmatched"
        [] OTHER -> "untrusted"

(* NotReadyReason, which the log and /readyz give. *)
NotReadyReason ==
  CASE phase = "running" -> ""
    [] phase = "unbound" -> "bind_failed"
    [] OTHER -> WaitDetail
-----------------------------------------------------------------------------
Move(a, s) ==
  /\ Chaos /\ site[a] # s
  /\ site' = [site EXCEPT ![a] = s]
  /\ wrong' = IF pin # None /\ a = pin.ip THEN 0 ELSE wrong
  /\ UNCHANGED <<wanted, phase, listened, table, held, pin, link, silent, quiet, forgotten>>

Crash ==
  /\ phase # "down" /\ Chaos
  /\ Restart
  /\ UNCHANGED lanVars

(* Where the announcements of this period come from, and none was missed. *)
Present == {At(site[a], a) : a \in {b \in Addrs : site[b] # None}}
AllHeard == \A c \in Present : quiet[c] = 0

Intruder ==
  phase = "running" /\ site[pin.ip] \notin {None, pin.key} /\ quiet[At(site[pin.ip], pin.ip)] = 0

(* A period ends. Wait looks at least once in each (its ticker is a tenth   *)
(* of the window), and announcements are missed only as chaos allows.       *)
Tick ==
  /\ phase = "waiting" => held.looked
  /\ IF phase \in {"waiting", "running"} /\ ~ AllHeard THEN Chaos ELSE UNCHANGED chaos
  /\ listened' = IF phase \in {"waiting", "running"} THEN Up(listened, Window) ELSE 0
  /\ table' = [c \in DOMAIN table |-> [table[c] EXCEPT !.age = Up(@, TTL + 1)]]
  /\ held' = [held EXCEPT !.for = IF held.key = None THEN 0 ELSE Up(@, Window), !.looked = FALSE]
  /\ silent' = IF phase = "running" THEN Up(silent, FollowAfter) ELSE 0
  /\ quiet' = [c \in Sightings |-> Up(quiet[c], Long)]
  /\ wrong' = IF Intruder THEN Up(wrong, WrongCap) ELSE 0
  /\ UNCHANGED <<lanVars, phase, pin, link, forgotten>>

Next ==
  \/ Start \/ StartFails \/ Retry \/ Look \/ Choose \/ Connect \/ Poll \/ LoseIdentity \/ MaybeFollow
  \/ \E c \in Sightings : Hear(c)
  \/ \E a \in Addrs, s \in Servers \cup {None} : Move(a, s)
  \/ Crash \/ Tick

Fairness ==
  /\ WF_vars(Start) /\ WF_vars(Retry) /\ WF_vars(Look) /\ WF_vars(Choose) /\ WF_vars(Tick)
  /\ WF_vars(Connect /\ link.server # site[pin.ip]) /\ WF_vars(Poll) /\ WF_vars(LoseIdentity) /\ WF_vars(MaybeFollow)
  /\ \A c \in Sightings : WF_vars(Usable(c) /\ Hear(c))

Spec == Init /\ [][Next]_vars
FairSpec == Spec /\ Fairness
-----------------------------------------------------------------------------
TypeOK ==
  /\ site \in [Addrs -> Servers \cup {None}] /\ wanted \in Selectors
  /\ phase \in {"down", "unbound", "waiting", "running"}
  /\ listened \in 0 .. Window
  /\ DOMAIN table \subseteq Sightings /\ Cardinality(DOMAIN table) <= MaxEntries
  /\ \A c \in DOMAIN table : table[c] \in Entry
  /\ held \in [key : Servers \cup {None}, ip : Addrs \cup {None}, for : 0 .. Window, looked : BOOLEAN]
  /\ pin \in [key : Servers, ip : Addrs] \cup {None} /\ (pin # None <=> phase = "running")
  /\ link \in [server : Servers \cup {None}, sysflag : Servers \cup {None}]
  /\ silent \in 0 .. FollowAfter
  /\ quiet \in [Sightings -> 0 .. Long] /\ forgotten \subseteq Sightings
  /\ wrong \in 0 .. WrongCap /\ chaos \in 0 .. MaxChaos

(* The server chosen has been alone: of every other that the selector       *)
(* matches, or the same one at another address, nothing has been heard for  *)
(* the life of an entry and a whole window more, so one that merely paused  *)
(* is not passed over (Service.Wait, stableChoice.hold, SelectFrom); but    *)
(* for one that was dropped from a full table, of which the agent knows     *)
(* nothing.                                                                 *)
ChosenAlone ==
  [][pin = None /\ pin' # None =>
       \A c \in Sightings :
         Usable(c) /\ c.key \in wanted /\ [key |-> c.key, ip |-> c.ip] # pin' =>
           quiet[c] = Long \/ c \in forgotten]_vars

(* The agent leaves its server, to follow it or to choose again, only when  *)
(* that server was not heard at its address for the life of an entry, or    *)
(* was dropped from a full table (Moved, IdentityLost, maybeFollow,         *)
(* identityLost).                                                           *)
LeavesOnlyTheGone ==
  [][MaybeFollow \/ LoseIdentity =>
       quiet[At(pin.key, pin.ip)] > TTL \/ At(pin.key, pin.ip) \in forgotten]_vars

(* Another server that has announced itself from the chosen address for     *)
(* longer than the life of an entry is known for another: from then on no   *)
(* poll of it is used and no work reaches its print server (IdentityLost,   *)
(* asked by collect and by the gate); unless something was dropped from a   *)
(* full table, when it may be the intruder.                                 *)
IntruderIsKnown ==
  wrong = WrongCap /\ forgotten = {} => IdentityLost(table, pin.key, pin.ip)

(* What a poll reports of its server's system is that server's own answer,  *)
(* though another stood at the address before and the agent has followed,   *)
(* lost or never noticed the change (pollLoop, siteInfo.note).              *)
SysflagIsTheServers ==
  [][Poll => link'.sysflag \in {None, site[pin.ip]}]_vars

(* Once the LAN stays as it is with one server to choose, the agent gets to *)
(* it and stays, through failed binds, restarts and moves: unless it is     *)
(* pinned to a server that is on the LAN no more, from an address where     *)
(* nothing answers (awaitOzone, maybeFollow, identityLost).                 *)
Matching == {b \in Addrs : site[b] \in wanted}
SettledAt(a) == phase = "running" /\ pin = [key |-> site[a], ip |-> a]
Stranded == phase = "running" /\ pin.key \notin {site[b] : b \in Addrs} /\ site[pin.ip] = None

FindsItsServer ==
  \A a \in Addrs : <>[](Matching = {a}) => <>[](SettledAt(a) \/ Stranded)

(* An agent that waits and goes on waiting tells the operator what is wrong *)
(* with the LAN: nothing announces itself, no server matches the selector,  *)
(* more than one does, or one is at two addresses (NotReadyReason,          *)
(* waitDetail).                                                             *)
Blocker ==
  CASE Present = {} -> "silence"
    [] Present # {} /\ Matching = {} -> "unmatched"
    [] Cardinality({site[b] : b \in Matching}) > 1 -> "ambiguous"
    [] Cardinality(Matching) > 1 /\ Cardinality({site[b] : b \in Matching}) = 1 -> "conflict"
    [] OTHER -> "none"

SaysWhyItWaits == <>[](phase = "waiting") => <>[](NotReadyReason = Blocker)
=============================================================================
