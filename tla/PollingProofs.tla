--------------------------- MODULE PollingProofs ---------------------------
(***************************************************************************)
(* Proofs about the agent's side of O-Zone: how it finds its game server   *)
(* (Discovery) and how it polls it (PollLoop).                             *)
(*                                                                         *)
(* Discovery, for every set of servers and addresses, every lifetime of an *)
(* entry, window and table size.  The argument: an entry's age is how long *)
(* ago it was heard, and a sighting heard lately that the table has not    *)
(* was dropped from it while it was full of later ones (AgeInv, DropInv).  *)
(* So of an intruder two packets are in the table or something was dropped *)
(* (WrongInv), and while a choice is held whatever else was heard since    *)
(* Wait's last look would undo it (HeldInv).                               *)
(*                                                                         *)
(* PollLoop, for every set of modes and every interval.  The argument:     *)
(* until the host has slept the monotonic clock gives the age of a         *)
(* reading, and until it has been set back the wall clock does (ReadInv);  *)
(* a connection's counters never fall behind those last seen of it         *)
(* (TallyTyped); and a push whose mode differs from what its payload       *)
(* carried is of a mode the reader put there, so that the loop is at its   *)
(* fast rate when the mode is that of a game (PushInv).                    *)
(***************************************************************************)
EXTENDS Discovery, PollLoop, FiniteSetTheorems, TLAPS

(* The types of the table and its history, and of everything else.         *)
TableTyped ==
  /\ DOMAIN table \subseteq Sightings /\ IsFiniteSet(DOMAIN table)
  /\ Cardinality(DOMAIN table) <= MaxEntries
  /\ \A c \in DOMAIN table : table[c] \in Entry
  /\ quiet \in [Sightings -> 0 .. Long] /\ forgotten \subseteq Sightings

Holds ==
  [key : Servers \cup {None}, ip : Addrs \cup {None}, for : 0 .. Window, looked : BOOLEAN]

AgentTyped ==
  /\ site \in [Addrs -> Servers \cup {None}] /\ wanted \in Selectors
  /\ phase \in {"down", "unbound", "waiting", "running"}
  /\ listened \in 0 .. Window
  /\ held \in Holds
  /\ pin \in [key : Servers, ip : Addrs] \cup {None} /\ (pin # None <=> phase = "running")
  /\ link \in [server : Servers \cup {None}, sysflag : Servers \cup {None}]
  /\ silent \in 0 .. FollowAfter /\ wrong \in 0 .. WrongCap /\ chaos \in 0 .. MaxChaos

(* An entry's age is how long ago it was heard, and what was heard lately   *)
(* is in the table or was dropped from it while it was full.                *)
AgeInv ==
  /\ forgotten \cap DOMAIN table = {}
  /\ \A c \in DOMAIN table : table[c].age = IF quiet[c] <= TTL THEN quiet[c] ELSE TTL + 1
  /\ \A c \in Sightings : quiet[c] <= TTL => c \in forgotten \cup DOMAIN table

(* A table full of what was heard within n periods. *)
FullOf(t, n) ==
  /\ Cardinality(DOMAIN t) = MaxEntries
  /\ \A c \in DOMAIN t : t[c].age <= n

(* What is dropped was heard no later than all the rest. *)
DropInv == \A c \in Sightings \ DOMAIN table : quiet[c] <= TTL => FullOf(table, quiet[c])

(* The server now at the chosen address. *)
There == At(site[pin.ip], pin.ip)

(* Where an intruder was heard, once in each of the last periods: the pin   *)
(* was not, and of the intruder two packets are known, unless one of them   *)
(* was lost to a full table, which has dropped another since.               *)
WrongInv ==
  wrong >= 1 =>
    /\ phase = "running" /\ site[pin.ip] \in Servers \ {pin.key}
    /\ quiet[There] <= 1
    /\ quiet[At(pin.key, pin.ip)] >= wrong
    /\ There \in DOMAIN table /\ table[There].packets = 1 =>
         /\ quiet[There] = 0 => forgotten # {} /\ FullOf(table, 1)
         /\ quiet[There] = 1 /\ wrong >= 2 => forgotten # {} /\ FullOf(table, 2)

(* While a choice is held: every other candidate has been silent since      *)
(* before it lapsed, or was heard since Wait's last look.                   *)
HeldInv ==
  held.key # None =>
    /\ phase = "waiting"
    /\ \A c \in Sightings :
         Usable(c) /\ c.key \in wanted /\ ~(c.key = held.key /\ c.ip = held.ip) =>
           \/ c \in forgotten
           \/ quiet[c] >= TTL + 1 + held.for
           \/ quiet[c] <= (IF held.looked THEN 0 ELSE 1)

LinkInv == link.sysflag \in {None, link.server}

IInv == TableTyped /\ AgentTyped /\ AgeInv /\ DropInv /\ WrongInv /\ HeldInv /\ LinkInv
-----------------------------------------------------------------------------
(* The table. *)
LEMMA Limits ==
  /\ TTL \in Nat /\ TTL >= 2 /\ MaxEntries \in Nat \ {0}
  /\ Window \in Nat \ {0} /\ FollowAfter \in Nat \ {0} /\ MaxChaos \in Nat
  /\ Long \in Nat /\ Long = TTL + 1 + Window /\ WrongCap \in Nat /\ WrongCap = TTL + 1
BY TableAssumption, DiscoveryAssumption DEF Long, WrongCap

LEMMA UpFacts ==
  ASSUME NEW cap \in Nat, NEW n \in 0 .. cap
  PROVE  /\ Up(n, cap) \in 0 .. cap
         /\ Up(n, cap) = IF n < cap THEN n + 1 ELSE n
BY DEF Up

LEMMA LiveFacts ==
  ASSUME NEW t
  PROVE  /\ DOMAIN Live(t) = {c \in DOMAIN t : t[c].age <= TTL}
         /\ \A c \in DOMAIN Live(t) : Live(t)[c] = t[c]
BY DEF Live, Of

LEMMA RecordedFacts ==
  ASSUME NEW t, NEW c
  PROVE  /\ DOMAIN Recorded(t, c) = DOMAIN t \cup {c}
         /\ \A d \in DOMAIN t : d # c => Recorded(t, c)[d] = t[d]
         /\ Recorded(t, c)[c].age = 0
         /\ Recorded(t, c)[c].packets = IF c \in DOMAIN t THEN 2 ELSE 1
         /\ Recorded(t, c)[c] = [age |-> 0, packets |-> IF c \in DOMAIN t THEN 2 ELSE 1]
BY DEF Recorded

(* What an announcement leaves in the table is live, or itself. *)
Leaves(t, c, u) ==
  /\ IsFiniteSet(DOMAIN u) /\ Cardinality(DOMAIN u) <= MaxEntries
  /\ \A d \in DOMAIN u : u[d] \in Entry
  /\ \A d \in DOMAIN u : d # c => d \in DOMAIN Live(t) /\ u[d] = t[d]
  /\ c \in DOMAIN u =>
       /\ u[c].age = 0
       /\ u[c].packets = IF c \in DOMAIN Live(t) THEN 2 ELSE 1

(* It leaves all that is live, and itself; or, when it is new and the table *)
(* full, all but one heard least recently.                                  *)
LEMMA ObservedFacts ==
  ASSUME NEW t, IsFiniteSet(DOMAIN t), Cardinality(DOMAIN t) <= MaxEntries,
         \A d \in DOMAIN t : t[d] \in Entry,
         NEW c, NEW u \in Observed(t, c)
  PROVE  /\ Leaves(t, c, u)
         /\ \/ DOMAIN u = DOMAIN Live(t) \cup {c}
            \/ \E o \in DOMAIN Live(t) \cup {c} :
                 /\ DOMAIN u = (DOMAIN Live(t) \cup {c}) \ {o}
                 /\ c \notin DOMAIN Live(t)
                 /\ Cardinality(DOMAIN u) = MaxEntries
                 /\ \A d \in DOMAIN u : u[d].age <= (IF o = c THEN 0 ELSE t[o].age)
<1> DEFINE l == Live(t)
           r == Recorded(l, c)
<1>1. /\ DOMAIN l = {d \in DOMAIN t : t[d].age <= TTL}
      /\ \A d \in DOMAIN l : l[d] = t[d]
  BY LiveFacts
<1>2. /\ DOMAIN r = DOMAIN l \cup {c}
      /\ \A d \in DOMAIN l : d # c => r[d] = t[d]
      /\ r[c].age = 0
      /\ r[c].packets = IF c \in DOMAIN l THEN 2 ELSE 1
      /\ r[c] = [age |-> 0, packets |-> IF c \in DOMAIN l THEN 2 ELSE 1]
  <2>1. /\ DOMAIN r = DOMAIN l \cup {c}
        /\ \A d \in DOMAIN l : d # c => r[d] = l[d]
        /\ r[c].age = 0
        /\ r[c].packets = IF c \in DOMAIN l THEN 2 ELSE 1
        /\ r[c] = [age |-> 0, packets |-> IF c \in DOMAIN l THEN 2 ELSE 1]
    <3> HIDE DEF l
    <3>1. QED
      BY RecordedFacts
  <2> HIDE DEF l, r
  <2>2. QED
    BY <1>1, <2>1
<1>3. /\ IsFiniteSet(DOMAIN l) /\ Cardinality(DOMAIN l) <= Cardinality(DOMAIN t)
      /\ Cardinality(DOMAIN l) \in Nat /\ Cardinality(DOMAIN t) \in Nat
  BY <1>1, FS_Subset, FS_CardinalityType
<1>4. /\ IsFiniteSet(DOMAIN r)
      /\ Cardinality(DOMAIN r) = IF c \in DOMAIN l THEN Cardinality(DOMAIN l)
                                 ELSE Cardinality(DOMAIN l) + 1
  BY <1>2, <1>3, FS_AddElement
<1>5. \A d \in DOMAIN r : r[d] \in Entry
  <2>1. r[c] \in Entry
    BY <1>2, Limits DEF Entry
  <2>2. QED
    BY <1>1, <1>2, <2>1
<1>6. \/ Cardinality(DOMAIN r) <= MaxEntries /\ u = r
      \/ /\ ~(Cardinality(DOMAIN r) <= MaxEntries)
         /\ \E o \in Oldest(r) : u = Of(r, DOMAIN r \ {o})
  BY DEF Observed
<1> HIDE DEF l, r
<1>7. CASE Cardinality(DOMAIN r) <= MaxEntries /\ u = r
  BY <1>1, <1>2, <1>4, <1>5, <1>7 DEF l, Leaves
<1>8. ASSUME ~(Cardinality(DOMAIN r) <= MaxEntries), NEW o \in Oldest(r),
             u = Of(r, DOMAIN r \ {o})
      PROVE  /\ IsFiniteSet(DOMAIN u) /\ Cardinality(DOMAIN u) = MaxEntries
             /\ c \notin DOMAIN l /\ o \in DOMAIN r /\ DOMAIN u = DOMAIN r \ {o}
             /\ \A d \in DOMAIN u : u[d] = r[d]
             /\ \A d \in DOMAIN u : u[d].age <= (IF o = c THEN 0 ELSE t[o].age)
  <2>1. o \in DOMAIN r /\ \A d \in DOMAIN r : r[d].age <= r[o].age
    BY DEF Oldest
  <2>2. DOMAIN u = DOMAIN r \ {o} /\ \A d \in DOMAIN u : u[d] = r[d]
    BY <1>8 DEF Of
  <2>3. c \notin DOMAIN l /\ Cardinality(DOMAIN r) = MaxEntries + 1
    BY <1>3, <1>4, <1>8, Limits
  <2>4. IsFiniteSet(DOMAIN u) /\ Cardinality(DOMAIN u) = MaxEntries
    <3>1. /\ IsFiniteSet(DOMAIN r \ {o})
          /\ Cardinality(DOMAIN r \ {o}) = Cardinality(DOMAIN r) - 1
      BY <1>4, <2>1, FS_RemoveElement
    <3>2. QED
      BY <2>2, <2>3, <3>1, Limits
  <2>5. r[o].age = (IF o = c THEN 0 ELSE t[o].age)
    BY <1>2, <2>1
  <2>6. QED
    BY <2>1, <2>2, <2>3, <2>4, <2>5
<1>9. CASE ~(Cardinality(DOMAIN r) <= MaxEntries)
  <2>1. PICK o \in Oldest(r) : u = Of(r, DOMAIN r \ {o})
    BY <1>6, <1>9
  <2>2. /\ IsFiniteSet(DOMAIN u) /\ Cardinality(DOMAIN u) = MaxEntries
        /\ c \notin DOMAIN l /\ o \in DOMAIN l \cup {c} /\ DOMAIN u = (DOMAIN l \cup {c}) \ {o}
        /\ \A d \in DOMAIN u : u[d] = r[d]
        /\ \A d \in DOMAIN u : u[d].age <= (IF o = c THEN 0 ELSE t[o].age)
    BY <1>2, <1>8, <1>9, <2>1
  <2>3. /\ \A d \in DOMAIN u : u[d] \in Entry
        /\ \A d \in DOMAIN u : d # c => d \in DOMAIN l /\ u[d] = t[d]
        /\ c \in DOMAIN u => u[c] = r[c]
    BY <1>2, <1>5, <2>2
  <2>4. \E v \in DOMAIN l \cup {c} :
           /\ DOMAIN u = (DOMAIN l \cup {c}) \ {v}
           /\ c \notin DOMAIN l
           /\ Cardinality(DOMAIN u) = MaxEntries
           /\ \A d \in DOMAIN u : u[d].age <= (IF v = c THEN 0 ELSE t[v].age)
    BY <2>2
  <2>5. Cardinality(DOMAIN u) <= MaxEntries
    BY <2>2, Limits
  <2>6. c \in DOMAIN u => u[c].age = 0 /\ u[c].packets = IF c \in DOMAIN l THEN 2 ELSE 1
    BY <1>2, <2>3
  <2>7. QED
    BY <2>2, <2>3, <2>4, <2>5, <2>6 DEF l, Leaves
<1>10. QED
  BY <1>6, <1>7, <1>9

(* Of two things in a set that has not got two, each is the other. *)
LEMMA NoTwo ==
  ASSUME NEW S, IsFiniteSet(S), ~(Cardinality(S) > 1), NEW x \in S, NEW y \in S
  PROVE  x = y
<1>1. SUFFICES ASSUME x # y PROVE FALSE
  OBVIOUS
<1>2. IsFiniteSet({x}) /\ Cardinality({x}) = 1
  BY FS_Singleton
<1>3. IsFiniteSet({x} \cup {y}) /\ Cardinality({x} \cup {y}) = 2
  <2>1. y \notin {x}
    BY <1>1
  <2>2. /\ IsFiniteSet({x} \cup {y})
        /\ Cardinality({x} \cup {y}) = IF y \in {x} THEN Cardinality({x}) ELSE Cardinality({x}) + 1
    BY <1>2, FS_AddElement
  <2>3. QED
    BY <1>2, <2>1, <2>2
<1>4. Cardinality({x} \cup {y}) <= Cardinality(S) /\ Cardinality(S) \in Nat
  BY <1>3, FS_Subset, FS_CardinalityType
<1>5. QED
  BY <1>3, <1>4

LEMMA UsableFacts ==
  ASSUME NEW t, DOMAIN t \subseteq Sightings, NEW w
  PROVE  /\ UsableIn(t, w) \subseteq Sightings
         /\ \A c : c \in UsableIn(t, w)
                    <=> c \in DOMAIN t /\ t[c].age <= TTL /\ Usable(c) /\ c.key \in w
BY LiveFacts DEF UsableIn, Matches

(* What SelectFrom selects is the only candidate. *)
LEMMA SelectFacts ==
  ASSUME NEW t, DOMAIN t \subseteq Sightings, NEW w, SelectFrom(t, w).outcome = "selected"
  PROVE  /\ SelectFrom(t, w).selected \in UsableIn(t, w)
         /\ \A c \in UsableIn(t, w) :
              c.key = SelectFrom(t, w).selected.key /\ c.ip = SelectFrom(t, w).selected.ip
<1> DEFINE cs == UsableIn(t, w)
           keys == {c.key : c \in cs}
           ips == {c.ip : c \in cs}
<1>1. /\ cs # {} /\ ~(Cardinality(keys) > 1) /\ ~(Cardinality(ips) > 1)
      /\ SelectFrom(t, w) = [outcome |-> "selected", selected |-> CHOOSE c \in cs : TRUE]
  BY DEF SelectFrom
<1>2. SelectFrom(t, w).selected \in cs
  BY <1>1
<1>3. cs \subseteq Sightings
  BY UsableFacts
<1>4. keys \subseteq Servers /\ ips \subseteq Addrs
  BY <1>3 DEF Sightings
<1>5. IsFiniteSet(keys) /\ IsFiniteSet(ips)
  BY <1>4, FS_Subset, TableAssumption
<1> HIDE DEF cs
<1>6. ASSUME NEW c \in cs, NEW d \in cs PROVE c.key = d.key /\ c.ip = d.ip
  <2>1. c.key \in keys /\ d.key \in keys /\ c.ip \in ips /\ d.ip \in ips
    OBVIOUS
  <2> HIDE DEF keys, ips
  <2>2. QED
    BY <1>1, <1>5, <2>1, NoTwo
<1>7. QED
  BY <1>2, <1>6 DEF cs
-----------------------------------------------------------------------------
LEMMA AtFacts ==
  ASSUME NEW k \in Servers, NEW a \in Addrs
  PROVE  /\ At(k, a) \in Sightings /\ Usable(At(k, a))
         /\ At(k, a).key = k /\ At(k, a).ip = a /\ At(k, a).sender = a
         /\ \A c \in Sightings : Usable(c) /\ c.key = k /\ c.ip = a => c = At(k, a)
BY DEF At, Sightings, Usable

LEMMA RestartTyped ==
  ASSUME Restart
  PROVE  /\ phase' = "down" /\ table' = Nothing /\ held' = NotHeld /\ pin' = None
         /\ link' = NoLink /\ wrong' = 0 /\ listened' = 0 /\ silent' = 0
         /\ TableTyped' /\ DOMAIN table' = {} /\ forgotten' = {}
         /\ \A c \in Sightings : quiet'[c] = Long
<1>1. /\ phase' = "down" /\ table' = Nothing /\ held' = NotHeld /\ pin' = None
      /\ link' = NoLink /\ wrong' = 0 /\ listened' = 0 /\ silent' = 0
      /\ quiet' = [c \in Sightings |-> Long] /\ forgotten' = {}
  BY DEF Restart
<1>2. DOMAIN table' = {}
  BY <1>1 DEF Nothing
<1>3. IsFiniteSet({}) /\ Cardinality({}) = 0
  BY FS_EmptySet
<1>4. TableTyped'
  BY <1>1, <1>2, <1>3, Limits DEF TableTyped
<1>5. QED
  BY <1>1, <1>2, <1>4

LEMMA TableStep == ASSUME TableTyped, [Next]_vars PROVE TableTyped'
<1> USE DEF TableTyped
<1>1. ASSUME NEW c \in Sightings, Hear(c) PROVE TableTyped'
  <2>1. /\ table' \in Observed(table, c) /\ quiet' = [quiet EXCEPT ![c] = 0]
        /\ forgotten' = (forgotten \cup DOMAIN Live(table) \cup {c}) \ DOMAIN table'
    BY <1>1 DEF Hear
  <2>2. Leaves(table, c, table')
    BY <2>1, ObservedFacts
  <2>3. DOMAIN Live(table) \subseteq DOMAIN table
    BY LiveFacts
  <2>4. quiet' \in [Sightings -> 0 .. Long]
    BY <2>1, Limits
  <2>5. QED
    BY <2>1, <2>2, <2>3, <2>4 DEF Leaves
<1>2. CASE LoseIdentity \/ MaybeFollow \/ Crash
  BY <1>2, RestartTyped DEF LoseIdentity, MaybeFollow, Crash
<1>3. CASE Tick
  <2>1. /\ table' = [c \in DOMAIN table |-> [table[c] EXCEPT !.age = Up(@, TTL + 1)]]
        /\ quiet' = [c \in Sightings |-> Up(quiet[c], Long)] /\ forgotten' = forgotten
    BY <1>3 DEF Tick
  <2>2. ASSUME NEW c \in DOMAIN table PROVE table'[c] \in Entry
    <3>1. table[c] \in Entry /\ table[c].age \in 0 .. TTL + 1
      BY DEF Entry
    <3>2. Up(table[c].age, TTL + 1) \in 0 .. TTL + 1
      BY <3>1, UpFacts, Limits
    <3>3. table'[c] = [table[c] EXCEPT !.age = Up(table[c].age, TTL + 1)]
      BY <2>1
    <3>4. QED
      BY <3>1, <3>2, <3>3 DEF Entry
  <2>3. quiet' \in [Sightings -> 0 .. Long]
    <3>1. ASSUME NEW c \in Sightings PROVE Up(quiet[c], Long) \in 0 .. Long
      BY UpFacts, Limits
    <3>2. QED
      BY <2>1, <3>1
  <2>4. DOMAIN table' = DOMAIN table
    BY <2>1
  <2>5. QED
    BY <2>1, <2>2, <2>3, <2>4
<1>4. CASE UNCHANGED <<table, quiet, forgotten>>
  BY <1>4
<1>5. CASE Start \/ StartFails \/ Retry \/ Look \/ Choose \/ Connect \/ Poll \/ UNCHANGED vars
  BY <1>4, <1>5 DEF Start, StartFails, Retry, Bind, Look, Choose, Connect, Poll, ghosts, vars
<1>6. ASSUME NEW a \in Addrs, NEW k \in Servers \cup {None}, Move(a, k) PROVE TableTyped'
  BY <1>4, <1>6 DEF Move
<1>7. QED
  BY <1>1, <1>2, <1>3, <1>5, <1>6 DEF Next

(* What Wait holds after a look. *)
LEMMA HoldFacts ==
  ASSUME TableTyped, held \in Holds
  PROVE  LET r == SelectFrom(table, wanted) IN
         /\ Hold(r) \in Holds
         /\ Hold(r).looked
         /\ r.outcome # "selected" => Hold(r).key = None /\ Hold(r).for = 0
         /\ r.outcome = "selected" =>
              /\ r.selected \in Sightings
              /\ Hold(r).key = r.selected.key /\ Hold(r).ip = r.selected.ip
              /\ Hold(r).for = IF held.key = r.selected.key /\ held.ip = r.selected.ip
                               THEN held.for ELSE 0
<1> DEFINE r == SelectFrom(table, wanted)
<1>1. r.outcome = "selected" => r.selected \in Sightings
  BY SelectFacts, UsableFacts DEF TableTyped
<1> HIDE DEF r
<1>2. CASE r.outcome # "selected"
  <2>1. Hold(r) = [key |-> None, ip |-> None, for |-> 0, looked |-> TRUE]
    BY <1>2 DEF Hold, NotHeld
  <2>2. QED
    BY <1>2, <2>1, Limits DEF r, Holds
<1>3. CASE r.outcome = "selected"
  <2>1. r.selected.key \in Servers /\ r.selected.ip \in Addrs
    BY <1>1, <1>3 DEF Sightings
  <2> DEFINE n == IF held.key = r.selected.key /\ held.ip = r.selected.ip THEN held.for ELSE 0
  <2>2. n \in 0 .. Window
    BY Limits DEF Holds
  <2> HIDE DEF n
  <2>3. Hold(r) = [key |-> r.selected.key, ip |-> r.selected.ip, looked |-> TRUE, for |-> n]
    BY <1>3 DEF Hold, n
  <2>4. Hold(r) \in Holds
    BY <2>1, <2>2, <2>3 DEF Holds
  <2>5. /\ Hold(r).key = r.selected.key /\ Hold(r).ip = r.selected.ip
        /\ Hold(r).looked /\ Hold(r).for = n
    BY <2>3
  <2>6. QED
    BY <1>1, <1>3, <2>4, <2>5 DEF r, n
<1>4. QED
  BY <1>2, <1>3

LEMMA NotHeldTyped == NotHeld \in Holds
BY Limits DEF NotHeld, Holds

LEMMA NoneFacts == None \notin Servers /\ None \notin [key : Servers, ip : Addrs]
BY TableAssumption

LEMMA AgentStep == ASSUME TableTyped, AgentTyped, [Next]_vars PROVE AgentTyped'
<1> USE DEF AgentTyped
<1>1. CASE Start \/ StartFails \/ Retry
  BY <1>1, Limits DEF Start, StartFails, Retry, Bind, Chaos, lanVars, ghosts
<1>2. CASE Look
  BY <1>2, HoldFacts DEF Look, lanVars, ghosts
<1>3. CASE Choose
  <2> DEFINE r == SelectFrom(table, wanted)
  <2>1. /\ phase' = "running" /\ pin' = [key |-> r.selected.key, ip |-> r.selected.ip]
        /\ silent' = 0 /\ held' = NotHeld /\ r.outcome = "selected"
        /\ UNCHANGED <<site, wanted, listened, link, wrong, chaos>>
    BY <1>3 DEF Choose, Ready, lanVars, ghosts
  <2>2. r.selected \in Sightings
    BY <2>1, HoldFacts
  <2> HIDE DEF r
  <2>3. pin' \in [key : Servers, ip : Addrs]
    BY <2>1, <2>2 DEF Sightings
  <2>4. pin' # None
    BY <2>3, NoneFacts
  <2>5. QED
    BY <2>1, <2>3, <2>4, NotHeldTyped, Limits
<1>4. CASE Connect
  <2>1. link' = [server |-> site[pin.ip], sysflag |-> None] /\ pin \in [key : Servers, ip : Addrs]
    BY <1>4 DEF Connect, Connected, NoLink
  <2>2. QED
    BY <1>4, <2>1 DEF Connect, lanVars, ghosts
<1>5. CASE Poll
  <2>1. link' \in SlowRound /\ silent' = 0
        /\ UNCHANGED <<site, wanted, phase, listened, held, pin, wrong, chaos>>
    BY <1>5 DEF Poll, lanVars, ghosts
  <2>2. link' \in [server : Servers \cup {None}, sysflag : Servers \cup {None}]
    BY <2>1 DEF SlowRound, Noted, SiteReplies
  <2>3. QED
    BY <2>1, <2>2, Limits
<1>6. CASE LoseIdentity \/ MaybeFollow \/ Crash
  <2>1. Restart /\ UNCHANGED <<site, wanted>> /\ chaos' \in 0 .. MaxChaos
    BY <1>6, Limits DEF LoseIdentity, MaybeFollow, Crash, Chaos, lanVars
  <2>2. link' \in [server : Servers \cup {None}, sysflag : Servers \cup {None}]
    BY <2>1, RestartTyped DEF NoLink
  <2>3. QED
    BY <2>1, <2>2, RestartTyped, NotHeldTyped, Limits
<1>7. ASSUME NEW c \in Sightings, Hear(c) PROVE AgentTyped'
  BY <1>7, Limits DEF Hear, Chaos, lanVars
<1>8. ASSUME NEW a \in Addrs, NEW k \in Servers \cup {None}, Move(a, k) PROVE AgentTyped'
  <2>1. site' \in [Addrs -> Servers \cup {None}]
    BY <1>8 DEF Move
  <2>2. chaos' \in 0 .. MaxChaos
    BY <1>8, Limits DEF Move, Chaos
  <2>3. wrong' \in 0 .. WrongCap
    <3>1. wrong' = 0 \/ wrong' = wrong
      BY <1>8 DEF Move
    <3>2. QED
      BY <3>1, Limits
  <2>4. QED
    BY <1>8, <2>1, <2>2, <2>3 DEF Move
<1>9. CASE Tick
  <2>1. /\ listened' = IF phase \in {"waiting", "running"} THEN Up(listened, Window) ELSE 0
        /\ held' = [held EXCEPT !.for = IF held.key = None THEN 0 ELSE Up(@, Window), !.looked = FALSE]
        /\ silent' = IF phase = "running" THEN Up(silent, FollowAfter) ELSE 0
        /\ wrong' = IF Intruder THEN Up(wrong, WrongCap) ELSE 0
        /\ UNCHANGED <<site, wanted, phase, pin, link>>
    BY <1>9 DEF Tick, lanVars
  <2>2. chaos' \in 0 .. MaxChaos
    BY <1>9, Limits DEF Tick, Chaos
  <2>3. Up(listened, Window) \in 0 .. Window /\ Up(silent, FollowAfter) \in 0 .. FollowAfter
        /\ Up(wrong, WrongCap) \in 0 .. WrongCap /\ Up(held.for, Window) \in 0 .. Window
    BY UpFacts, Limits DEF Holds
  <2>4. held' \in Holds
    <3> DEFINE n == IF held.key = None THEN 0 ELSE Up(held.for, Window)
    <3>1. n \in 0 .. Window
      BY <2>3, Limits
    <3>2. held' = [held EXCEPT !.for = n, !.looked = FALSE]
      BY <2>1
    <3> HIDE DEF n
    <3>3. QED
      BY <3>1, <3>2 DEF Holds
  <2>5. QED
    BY <2>1, <2>2, <2>3, <2>4, Limits
<1>10. CASE UNCHANGED vars
  BY <1>10 DEF vars, lanVars, ghosts
<1>11. QED
  BY <1>1, <1>2, <1>3, <1>4, <1>5, <1>6, <1>7, <1>8, <1>9, <1>10 DEF Next
-----------------------------------------------------------------------------
(* Ages. *)
LEMMA HearHistory ==
  ASSUME TableTyped, NEW c \in Sightings, Hear(c)
  PROVE  /\ \A d \in Sightings : quiet'[d] = IF d = c THEN 0 ELSE quiet[d]
         /\ forgotten' \cap DOMAIN table' = {}
         /\ \A d \in forgotten \cup DOMAIN Live(table) \cup {c} :
              d \in DOMAIN table' \/ d \in forgotten'
         /\ forgotten' \subseteq forgotten \cup DOMAIN Live(table) \cup {c}
<1>1. /\ quiet' = [quiet EXCEPT ![c] = 0]
      /\ forgotten' = (forgotten \cup DOMAIN Live(table) \cup {c}) \ DOMAIN table'
  BY DEF Hear
<1>2. QED
  BY <1>1 DEF TableTyped

LEMMA HearLeaves ==
  ASSUME TableTyped, NEW c \in Sightings, Hear(c)
  PROVE  /\ IsFiniteSet(DOMAIN table') /\ Cardinality(DOMAIN table') <= MaxEntries
         /\ DOMAIN Live(table) = {d \in DOMAIN table : table[d].age <= TTL}
         /\ \A d \in DOMAIN table' :
              d # c => d \in DOMAIN Live(table) /\ d \in DOMAIN table /\ table'[d] = table[d]
         /\ c \in DOMAIN table' =>
              /\ table'[c].age = 0
              /\ table'[c].packets = IF c \in DOMAIN Live(table) THEN 2 ELSE 1
<1>1. table' \in Observed(table, c)
  BY DEF Hear
<1>2. DOMAIN Live(table) = {d \in DOMAIN table : table[d].age <= TTL}
  BY LiveFacts
<1>3. /\ IsFiniteSet(DOMAIN table) /\ Cardinality(DOMAIN table) <= MaxEntries
      /\ \A d \in DOMAIN table : table[d] \in Entry
  BY DEF TableTyped
<1>4. Leaves(table, c, table')
  BY <1>1, <1>3, ObservedFacts
<1>5. QED
  BY <1>2, <1>4 DEF Leaves

LEMMA HearDrops ==
  ASSUME TableTyped, NEW c \in Sightings, Hear(c), DOMAIN table' # DOMAIN Live(table) \cup {c}
  PROVE  /\ c \notin DOMAIN Live(table)
         /\ \E o \in DOMAIN Live(table) \cup {c} :
              /\ DOMAIN table' = (DOMAIN Live(table) \cup {c}) \ {o}
              /\ FullOf(table', IF o = c THEN 0 ELSE table[o].age)
<1>1. table' \in Observed(table, c)
  BY DEF Hear
<1>2. /\ IsFiniteSet(DOMAIN table) /\ Cardinality(DOMAIN table) <= MaxEntries
      /\ \A d \in DOMAIN table : table[d] \in Entry
  BY DEF TableTyped
<1>3. \E o \in DOMAIN Live(table) \cup {c} :
         /\ DOMAIN table' = (DOMAIN Live(table) \cup {c}) \ {o}
         /\ c \notin DOMAIN Live(table)
         /\ Cardinality(DOMAIN table') = MaxEntries
         /\ \A d \in DOMAIN table' : table'[d].age <= (IF o = c THEN 0 ELSE table[o].age)
  BY <1>1, <1>2, ObservedFacts
<1>4. QED
  BY <1>3 DEF FullOf

(* What drops a sighting leaves a table full of none older. *)
LEMMA HearDropped ==
  ASSUME TableTyped, NEW c \in Sightings, Hear(c),
         NEW d \in DOMAIN Live(table) \cup {c}, d \notin DOMAIN table'
  PROVE  FullOf(table', IF d = c THEN 0 ELSE table[d].age)
<1>1. DOMAIN table' # DOMAIN Live(table) \cup {c}
  OBVIOUS
<1>2. PICK o \in DOMAIN Live(table) \cup {c} :
         /\ DOMAIN table' = (DOMAIN Live(table) \cup {c}) \ {o}
         /\ FullOf(table', IF o = c THEN 0 ELSE table[o].age)
  BY <1>1, HearDrops
<1>3. o = d
  BY <1>2
<1>4. QED
  BY <1>2, <1>3

LEMMA TickFacts ==
  ASSUME TableTyped, Tick
  PROVE  /\ DOMAIN table' = DOMAIN table /\ forgotten' = forgotten
         /\ \A c \in DOMAIN table :
              /\ table'[c].packets = table[c].packets
              /\ table'[c].age = IF table[c].age <= TTL THEN table[c].age + 1 ELSE table[c].age
         /\ \A c \in Sightings : quiet'[c] = IF quiet[c] < Long THEN quiet[c] + 1 ELSE quiet[c]
<1>1. /\ table' = [c \in DOMAIN table |-> [table[c] EXCEPT !.age = Up(@, TTL + 1)]]
      /\ quiet' = [c \in Sightings |-> Up(quiet[c], Long)] /\ forgotten' = forgotten
  BY DEF Tick
<1>2. ASSUME NEW c \in DOMAIN table
      PROVE  /\ table'[c].packets = table[c].packets
             /\ table'[c].age = IF table[c].age <= TTL THEN table[c].age + 1 ELSE table[c].age
  <2>1. table[c] \in Entry /\ table[c].age \in 0 .. TTL + 1
    BY DEF Entry, TableTyped
  <2>2. table'[c] = [table[c] EXCEPT !.age = Up(table[c].age, TTL + 1)]
    BY <1>1
  <2>3. table'[c].packets = table[c].packets /\ table'[c].age = Up(table[c].age, TTL + 1)
    BY <2>1, <2>2 DEF Entry
  <2>4. Up(table[c].age, TTL + 1) = IF table[c].age < TTL + 1 THEN table[c].age + 1 ELSE TTL + 1
    BY DEF Up
  <2>5. QED
    BY <2>1, <2>3, <2>4, Limits
<1>3. ASSUME NEW c \in Sightings
      PROVE  quiet'[c] = IF quiet[c] < Long THEN quiet[c] + 1 ELSE quiet[c]
  BY <1>1, UpFacts, Limits DEF TableTyped
<1>4. QED
  BY <1>1, <1>2, <1>3

(* The steps that leave the table and its history alone. *)
Aside ==
  \/ Start \/ StartFails \/ Retry \/ Look \/ Choose \/ Connect \/ Poll \/ UNCHANGED vars
  \/ \E a \in Addrs, k \in Servers \cup {None} : Move(a, k)

LEMMA AsideFacts == ASSUME Aside PROVE UNCHANGED <<table, quiet, forgotten>>
BY DEF Aside, Start, StartFails, Retry, Bind, Look, Choose, Connect, Poll, Move, ghosts, vars

LEMMA Steps ==
  ASSUME [Next]_vars
  PROVE  \/ Aside \/ Restart \/ Tick
         \/ \E c \in Sightings : Hear(c)
BY DEF Next, Aside, LoseIdentity, MaybeFollow, Crash

LEMMA QuietTyped ==
  ASSUME TableTyped
  PROVE  /\ \A c \in Sightings : quiet[c] \in 0 .. Long
         /\ \A c \in DOMAIN table : c \in Sightings /\ table[c].age \in 0 .. TTL + 1
BY DEF TableTyped, Entry

LEMMA AgeStep == ASSUME TableTyped, AgeInv, [Next]_vars PROVE AgeInv'
<1>1. ASSUME NEW c \in Sightings, Hear(c) PROVE AgeInv'
  <2>1. forgotten' \cap DOMAIN table' = {}
    BY <1>1, HearHistory
  <2>2. ASSUME NEW d \in DOMAIN table'
        PROVE  table'[d].age = IF quiet'[d] <= TTL THEN quiet'[d] ELSE TTL + 1
    <3>1. CASE d = c
      <4>1. table'[d].age = 0 /\ quiet'[d] = 0
        BY <1>1, <3>1, HearLeaves, HearHistory
      <4>2. QED
        BY <4>1, Limits
    <3>2. CASE d # c
      <4>1. d \in DOMAIN table /\ table'[d] = table[d]
        BY <1>1, <3>2, HearLeaves
      <4>2. quiet'[d] = quiet[d]
        BY <1>1, <3>2, <4>1, HearHistory, QuietTyped
      <4>3. QED
        BY <4>1, <4>2 DEF AgeInv
    <3>3. QED
      BY <3>1, <3>2
  <2>3. ASSUME NEW d \in Sightings, quiet'[d] <= TTL
        PROVE  d \in forgotten' \cup DOMAIN table'
    <3>1. d # c => quiet[d] <= TTL
      BY <1>1, <2>3, HearHistory
    <3>2. d # c => d \in forgotten \cup DOMAIN Live(table)
      BY <1>1, <3>1, HearLeaves DEF AgeInv
    <3>3. QED
      BY <1>1, <3>2, HearHistory
  <2>4. QED
    BY <2>1, <2>2, <2>3 DEF AgeInv
<1>2. CASE Tick
  <2>1. forgotten' \cap DOMAIN table' = {}
    BY <1>2, TickFacts DEF AgeInv
  <2>2. ASSUME NEW d \in DOMAIN table'
        PROVE  table'[d].age = IF quiet'[d] <= TTL THEN quiet'[d] ELSE TTL + 1
    <3>1. /\ d \in DOMAIN table /\ d \in Sightings /\ quiet[d] \in 0 .. Long
          /\ table'[d].age = IF table[d].age <= TTL THEN table[d].age + 1 ELSE table[d].age
          /\ quiet'[d] = IF quiet[d] < Long THEN quiet[d] + 1 ELSE quiet[d]
      BY <1>2, TickFacts, QuietTyped
    <3>2. table[d].age = IF quiet[d] <= TTL THEN quiet[d] ELSE TTL + 1
      BY <3>1 DEF AgeInv
    <3>3. QED
      BY <3>1, <3>2, Limits
  <2>3. ASSUME NEW d \in Sightings, quiet'[d] <= TTL
        PROVE  d \in forgotten' \cup DOMAIN table'
    <3>1. quiet[d] <= TTL
      BY <1>2, <2>3, TickFacts, QuietTyped, Limits
    <3>2. QED
      BY <1>2, <3>1, TickFacts DEF AgeInv
  <2>4. QED
    BY <2>1, <2>2, <2>3 DEF AgeInv
<1>3. CASE Restart
  <2>1. /\ DOMAIN table' = {} /\ forgotten' = {}
        /\ \A c \in Sightings : ~(quiet'[c] <= TTL)
    BY <1>3, RestartTyped, Limits
  <2>2. QED
    BY <2>1 DEF AgeInv
<1>4. CASE Aside
  BY <1>4, AsideFacts DEF AgeInv
<1>5. QED
  BY <1>1, <1>2, <1>3, <1>4, Steps

(* A table full of recent entries stays full: it drops one for another. *)
LEMMA FullStays ==
  ASSUME TableTyped, AgeInv, NEW c \in Sightings, Hear(c),
         NEW n \in 0 .. TTL, FullOf(table, n)
  PROVE  FullOf(table', n) /\ (forgotten # {} => forgotten' # {})
<1>1. DOMAIN Live(table) = DOMAIN table
  <2>1. \A d \in DOMAIN table : table[d].age <= TTL
    BY QuietTyped, Limits DEF FullOf
  <2>2. QED
    BY <2>1, HearLeaves
<1>2. ASSUME NEW d \in DOMAIN table' PROVE table'[d].age <= n
  <2>1. CASE d = c
    <3>1. table'[d].age = 0
      BY <2>1, HearLeaves
    <3>2. QED
      BY <3>1
  <2>2. CASE d # c
    <3>1. d \in DOMAIN table /\ table'[d] = table[d]
      BY <2>2, HearLeaves
    <3>2. QED
      BY <3>1 DEF FullOf
  <2>3. QED
    BY <2>1, <2>2
<1>3. CASE c \in DOMAIN table
  <2>1. DOMAIN table' = DOMAIN table
    BY <1>1, <1>3, HearDrops
  <2>2. ASSUME NEW d \in forgotten PROVE d \in forgotten'
    BY <2>1, HearHistory DEF AgeInv
  <2>3. QED
    BY <1>2, <2>1, <2>2 DEF FullOf
<1>4. CASE c \notin DOMAIN table
  <2>1. Cardinality(DOMAIN table) = MaxEntries
    BY DEF FullOf
  <2>2. Cardinality(DOMAIN table \cup {c}) = MaxEntries + 1
    BY <1>4, <2>1, FS_AddElement DEF TableTyped
  <2>3. DOMAIN table' # DOMAIN table \cup {c}
    <3>1. Cardinality(DOMAIN table') <= MaxEntries
      BY HearLeaves
    <3>2. QED
      BY <2>2, <3>1, Limits
  <2>4. PICK o \in DOMAIN table \cup {c} :
           DOMAIN table' = (DOMAIN table \cup {c}) \ {o} /\ Cardinality(DOMAIN table') = MaxEntries
    BY <1>1, <2>3, HearDrops DEF FullOf
  <2>5. o \in forgotten'
    BY <1>1, <2>4, HearHistory
  <2>6. QED
    BY <1>2, <2>4, <2>5 DEF FullOf
<1>5. QED
  BY <1>3, <1>4

LEMMA FullTicks ==
  ASSUME TableTyped, Tick, NEW n \in Nat, FullOf(table, n)
  PROVE  FullOf(table', n + 1) /\ forgotten' = forgotten
<1>1. ASSUME NEW c \in DOMAIN table PROVE table'[c].age <= n + 1
  BY TickFacts, QuietTyped DEF FullOf
<1>2. QED
  BY <1>1, TickFacts DEF FullOf

LEMMA DropStep == ASSUME TableTyped, AgeInv, DropInv, [Next]_vars PROVE DropInv'
<1>1. ASSUME NEW c \in Sightings, Hear(c) PROVE DropInv'
  <2>1. SUFFICES ASSUME NEW d \in Sightings \ DOMAIN table', quiet'[d] <= TTL
                 PROVE  FullOf(table', quiet'[d])
    BY DEF DropInv
  <2>2. quiet'[d] = IF d = c THEN 0 ELSE quiet[d]
    BY <1>1, HearHistory
  <2>3. CASE d = c
    BY <1>1, <2>1, <2>2, <2>3, HearDropped
  <2>4. CASE d # c /\ d \in DOMAIN Live(table)
    <3>1. d \in DOMAIN table /\ table[d].age = quiet[d]
      BY <1>1, <2>1, <2>2, <2>4, HearLeaves DEF AgeInv
    <3>2. FullOf(table', table[d].age)
      BY <1>1, <2>1, <2>4, HearDropped
    <3>3. QED
      BY <2>2, <2>4, <3>1, <3>2
  <2>5. CASE d # c /\ d \notin DOMAIN Live(table)
    <3>1. quiet[d] \in 0 .. TTL /\ quiet'[d] = quiet[d]
      BY <2>1, <2>2, <2>5, QuietTyped, Limits
    <3>2. d \notin DOMAIN table
      <4>1. SUFFICES ASSUME d \in DOMAIN table PROVE FALSE
        OBVIOUS
      <4>2. table[d].age <= TTL
        BY <3>1, <4>1 DEF AgeInv
      <4>3. QED
        BY <1>1, <2>5, <4>1, <4>2, HearLeaves
    <3>3. FullOf(table, quiet[d])
      BY <2>1, <3>1, <3>2 DEF DropInv
    <3>4. QED
      BY <1>1, <3>1, <3>3, FullStays
  <2>6. QED
    BY <2>3, <2>4, <2>5
<1>2. CASE Tick
  <2>1. SUFFICES ASSUME NEW d \in Sightings \ DOMAIN table', quiet'[d] <= TTL
                 PROVE  FullOf(table', quiet'[d])
    BY DEF DropInv
  <2>2. quiet[d] \in Nat /\ quiet'[d] = quiet[d] + 1 /\ quiet[d] <= TTL
    BY <1>2, <2>1, TickFacts, QuietTyped, Limits
  <2>3. FullOf(table, quiet[d])
    BY <1>2, <2>1, <2>2, TickFacts DEF DropInv
  <2>4. QED
    BY <1>2, <2>2, <2>3, FullTicks
<1>3. CASE Restart
  BY <1>3, RestartTyped, Limits DEF DropInv
<1>4. CASE Aside
  BY <1>4, AsideFacts DEF DropInv
<1>5. QED
  BY <1>1, <1>2, <1>3, <1>4, Steps
-----------------------------------------------------------------------------
(* An intruder.                                                            *)
LEMMA RunningFacts ==
  ASSUME AgentTyped, phase = "running"
  PROVE  /\ pin # None /\ pin.key \in Servers /\ pin.ip \in Addrs
         /\ site[pin.ip] \in Servers \cup {None}
BY DEF AgentTyped

LEMMA FullIn ==
  ASSUME TableTyped, NEW m \in Nat, NEW n \in Nat, m <= n, FullOf(table, m)
  PROVE  FullOf(table, n)
BY QuietTyped DEF FullOf

(* What was heard lately and not dropped is in the table, and live. *)
LEMMA HeardIsLive ==
  ASSUME TableTyped, AgeInv, NEW c \in Sightings, quiet[c] <= TTL
  PROVE  /\ c \in DOMAIN table => table[c].age <= TTL
         /\ c \notin forgotten => c \in DOMAIN table
BY DEF AgeInv

LEMMA WrongHear ==
  ASSUME TableTyped, AgentTyped, AgeInv, DropInv, WrongInv, NEW c \in Sightings, Hear(c)
  PROVE  WrongInv'
<1>1. SUFFICES ASSUME wrong >= 1 PROVE WrongInv'
  BY DEF Hear, WrongInv
<1>2. /\ UNCHANGED <<site, phase, pin, wrong>> /\ site[c.sender] = c.key
      /\ There' = There
  BY DEF Hear, lanVars, There
<1>3. phase = "running" /\ site[pin.ip] \in Servers \ {pin.key} /\ quiet[There] <= 1
      /\ quiet[At(pin.key, pin.ip)] >= wrong
  BY <1>1 DEF WrongInv
<1>4. /\ pin.key \in Servers /\ pin.ip \in Addrs
      /\ There \in Sightings /\ quiet[There] \in 0 .. 1
      /\ At(pin.key, pin.ip) \in Sightings /\ At(pin.key, pin.ip) # c
  BY <1>2, <1>3, RunningFacts, AtFacts, QuietTyped, Limits DEF There
<1>5. quiet'[At(pin.key, pin.ip)] = quiet[At(pin.key, pin.ip)]
  BY <1>4, HearHistory
<1>6. CASE c = There
  <2>1. quiet'[There] = 0
    BY <1>4, <1>6, HearHistory
  <2>2. ASSUME There \in DOMAIN table', table'[There].packets = 1
        PROVE  forgotten' # {} /\ FullOf(table', 1)
    <3>1. There \notin DOMAIN Live(table)
      <4>1. c \in DOMAIN table' => table'[c].packets = IF c \in DOMAIN Live(table) THEN 2 ELSE 1
        BY HearLeaves
      <4>2. QED
        BY <1>6, <2>2, <4>1
    <3>2. quiet[There] <= TTL
      BY <1>4, Limits
    <3>3. There \notin DOMAIN table
      BY <1>4, <1>6, <3>1, <3>2, HeardIsLive, HearLeaves
    <3>4. There \in forgotten
      BY <1>4, <3>2, <3>3, HeardIsLive
    <3>5. FullOf(table, quiet[There])
      BY <1>4, <3>2, <3>3 DEF DropInv
    <3>6. FullOf(table, 1) /\ 1 \in 0 .. TTL
      BY <1>4, <3>5, FullIn, Limits
    <3>7. QED
      BY <3>4, <3>6, FullStays
  <2>3. QED
    BY <1>2, <1>3, <1>5, <2>1, <2>2 DEF WrongInv
<1>7. CASE c # There
  <2>1. quiet'[There] = quiet[There]
    BY <1>4, <1>7, HearHistory
  <2>2. There \in DOMAIN table' => There \in DOMAIN table /\ table'[There] = table[There]
    BY <1>7, HearLeaves
  <2>3. /\ forgotten # {} /\ FullOf(table, 1) => forgotten' # {} /\ FullOf(table', 1)
        /\ forgotten # {} /\ FullOf(table, 2) => forgotten' # {} /\ FullOf(table', 2)
    BY FullStays, Limits
  <2>4. QED
    BY <1>1, <1>2, <1>3, <1>5, <2>1, <2>2, <2>3 DEF WrongInv
<1>8. QED
  BY <1>6, <1>7

LEMMA WrongTick ==
  ASSUME TableTyped, AgentTyped, WrongInv, Tick
  PROVE  WrongInv'
<1>1. /\ wrong' = IF Intruder THEN Up(wrong, WrongCap) ELSE 0
      /\ UNCHANGED <<site, phase, pin>> /\ There' = There
  BY DEF Tick, lanVars, There
<1>2. SUFFICES ASSUME Intruder PROVE WrongInv'
  BY <1>1 DEF WrongInv
<1>3. /\ phase = "running" /\ site[pin.ip] \in Servers \ {pin.key}
      /\ pin.key \in Servers /\ pin.ip \in Addrs /\ quiet[There] = 0
  BY <1>2, RunningFacts DEF Intruder, There
<1>4. There \in Sightings /\ At(pin.key, pin.ip) \in Sightings
  BY <1>3, AtFacts DEF There
<1>5. wrong \in 0 .. WrongCap /\ wrong' = IF wrong < WrongCap THEN wrong + 1 ELSE wrong
  BY <1>1, <1>2, UpFacts, Limits DEF AgentTyped
<1>6. quiet'[There] = 1
  BY <1>3, <1>4, TickFacts, Limits
<1>7. quiet[At(pin.key, pin.ip)] >= wrong
  BY <1>4, <1>5, QuietTyped DEF WrongInv
<1>8. quiet'[At(pin.key, pin.ip)] >= wrong'
  <2> DEFINE q == quiet[At(pin.key, pin.ip)]
             qq == quiet'[At(pin.key, pin.ip)]
  <2>1. q \in 0 .. Long /\ qq = (IF q < Long THEN q + 1 ELSE q) /\ q >= wrong
    BY <1>4, <1>7, TickFacts, QuietTyped
  <2> HIDE DEF q, qq
  <2>2. qq >= wrong'
    BY <1>5, <2>1, Limits
  <2>3. QED
    BY <2>2 DEF qq
<1>9. ASSUME There \in DOMAIN table', table'[There].packets = 1, wrong' >= 2
      PROVE  forgotten' # {} /\ FullOf(table', 2)
  <2>1. There \in DOMAIN table /\ table[There].packets = 1
    BY <1>9, TickFacts
  <2>2. wrong >= 1
    BY <1>5, <1>9, Limits
  <2>3. forgotten # {} /\ FullOf(table, 1)
    BY <1>3, <2>1, <2>2 DEF WrongInv
  <2>4. FullOf(table', 1 + 1) /\ forgotten' = forgotten
    BY <2>3, FullTicks
  <2>5. QED
    BY <2>3, <2>4
<1>10. QED
  BY <1>1, <1>3, <1>6, <1>8, <1>9 DEF WrongInv

LEMMA WrongStep ==
  ASSUME TableTyped, AgentTyped, AgeInv, DropInv, WrongInv, [Next]_vars
  PROVE  WrongInv'
<1>1. CASE wrong' = 0
  BY <1>1 DEF WrongInv
<1>2. CASE Restart
  BY <1>1, <1>2, RestartTyped
<1>3. CASE Start \/ StartFails \/ Retry \/ Look \/ Choose
  <2>1. phase # "running" /\ wrong' = wrong
    BY <1>3 DEF Start, StartFails, Retry, Bind, Look, Choose, ghosts
  <2>2. wrong = 0
    BY <2>1, Limits DEF WrongInv, AgentTyped
  <2>3. QED
    BY <1>1, <2>1, <2>2
<1>4. CASE Connect \/ Poll \/ UNCHANGED vars
  <2>1. UNCHANGED <<site, phase, pin, wrong, table, quiet, forgotten>>
    BY <1>4 DEF Connect, Poll, vars, ghosts, lanVars
  <2>2. QED
    BY <2>1 DEF WrongInv, There, At, FullOf
<1>5. ASSUME NEW a \in Addrs, NEW k \in Servers \cup {None}, Move(a, k) PROVE WrongInv'
  <2>1. /\ site' = [site EXCEPT ![a] = k]
        /\ wrong' = IF pin # None /\ a = pin.ip THEN 0 ELSE wrong
        /\ UNCHANGED <<phase, pin, table, quiet, forgotten>>
    BY <1>5 DEF Move
  <2>2. SUFFICES ASSUME wrong' >= 1 PROVE WrongInv'
    BY DEF WrongInv
  <2>3. wrong' = wrong /\ ~(pin # None /\ a = pin.ip)
    BY <2>1, <2>2
  <2>4. phase = "running" /\ pin # None /\ pin.ip \in Addrs
    BY <2>2, <2>3, RunningFacts DEF WrongInv
  <2>5. site'[pin.ip] = site[pin.ip]
    BY <2>1, <2>3, <2>4 DEF AgentTyped
  <2>6. There' = There
    BY <2>1, <2>5 DEF There, At
  <2>7. At(pin.key, pin.ip)' = At(pin.key, pin.ip)
    BY <2>1 DEF At
  <2>8. FullOf(table, 1)' = FullOf(table, 1) /\ FullOf(table, 2)' = FullOf(table, 2)
    BY <2>1 DEF FullOf
  <2>9. QED
    BY <2>1, <2>3, <2>5, <2>6, <2>7, <2>8 DEF WrongInv
<1>6. QED
  BY <1>2, <1>3, <1>4, <1>5, WrongHear, WrongTick, Steps DEF Aside
-----------------------------------------------------------------------------
(* A choice held.                                                          *)
Other(h, c) == Usable(c) /\ c.key \in wanted /\ ~(c.key = h.key /\ c.ip = h.ip)

(* Nothing else has been heard for an entry's life and the time held. *)
LEMMA LookFacts ==
  ASSUME TableTyped, AgentTyped, AgeInv, HeldInv,
         SelectFrom(table, wanted).outcome = "selected",
         NEW c \in Sightings, Other(Hold(SelectFrom(table, wanted)), c)
  PROVE  c \in forgotten \/ quiet[c] >= TTL + 1 + Hold(SelectFrom(table, wanted)).for
<1> DEFINE r == SelectFrom(table, wanted)
           h == Hold(r)
<1>1. /\ r.selected \in Sightings /\ h.key = r.selected.key /\ h.ip = r.selected.ip
      /\ h.for = IF held.key = r.selected.key /\ held.ip = r.selected.ip THEN held.for ELSE 0
      /\ r.selected.key \in Servers
  BY HoldFacts DEF AgentTyped, Sightings
<1>2. c \notin UsableIn(table, wanted)
  <2>1. \A d \in UsableIn(table, wanted) : d.key = r.selected.key /\ d.ip = r.selected.ip
    BY SelectFacts DEF TableTyped
  <2>2. ~(c.key = h.key /\ c.ip = h.ip)
    BY DEF Other
  <2> HIDE DEF r, h
  <2>3. QED
    BY <1>1, <2>1, <2>2
<1> HIDE DEF r, h
<1>3. c \in DOMAIN table => ~(table[c].age <= TTL)
  <2>1. c \in DOMAIN table /\ table[c].age <= TTL /\ Usable(c) /\ c.key \in wanted
          => c \in UsableIn(table, wanted)
    BY UsableFacts DEF TableTyped
  <2>2. QED
    BY <1>2, <2>1 DEF Other
<1>4. c \in forgotten \/ ~(quiet[c] <= TTL)
  BY <1>3, HeardIsLive
<1>5. quiet[c] \in Nat /\ held.for \in Nat
  BY QuietTyped, Limits DEF AgentTyped, Holds
<1>6. CASE held.key = r.selected.key /\ held.ip = r.selected.ip
  <2>1. held.key # None
    BY <1>1, <1>6, TableAssumption
  <2>2. \/ c \in forgotten
        \/ quiet[c] >= TTL + 1 + held.for
        \/ quiet[c] <= (IF held.looked THEN 0 ELSE 1)
    BY <1>1, <1>6, <2>1 DEF HeldInv, Other, h, r
  <2>3. QED
    BY <1>1, <1>4, <1>5, <1>6, <2>2, Limits DEF h, r
<1>7. CASE ~(held.key = r.selected.key /\ held.ip = r.selected.ip)
  BY <1>1, <1>4, <1>5, <1>7, Limits DEF h, r
<1>8. QED
  BY <1>6, <1>7 DEF h, r

LEMMA HeldStep ==
  ASSUME TableTyped, AgentTyped, AgeInv, HeldInv, [Next]_vars
  PROVE  HeldInv'
<1>1. CASE held' = NotHeld
  BY <1>1 DEF HeldInv, NotHeld
<1>2. CASE Restart \/ Choose
  BY <1>1, <1>2, RestartTyped DEF Choose
<1>3. CASE Start \/ StartFails \/ Retry
  <2>1. phase # "waiting" /\ held' = held
    BY <1>3 DEF Start, StartFails, Retry, Bind
  <2>2. QED
    BY <2>1 DEF HeldInv
<1>4. CASE Look
  <2> DEFINE r == SelectFrom(table, wanted)
  <2>1. phase = "waiting" /\ held' = Hold(r) /\ UNCHANGED <<phase, wanted, forgotten, quiet>>
    BY <1>4 DEF Look, lanVars, ghosts
  <2>2. CASE r.outcome # "selected"
    <3>1. held'.key = None
      BY <2>1, <2>2, HoldFacts DEF AgentTyped
    <3>2. QED
      BY <3>1 DEF HeldInv
  <2>3. CASE r.outcome = "selected"
    <3>1. ASSUME NEW c \in Sightings, Usable(c), c.key \in wanted',
                 ~(c.key = held'.key /\ c.ip = held'.ip)
          PROVE  c \in forgotten' \/ quiet'[c] >= TTL + 1 + held'.for
      <4>1. Other(Hold(r), c)
        BY <2>1, <3>1 DEF Other
      <4>2. c \in forgotten \/ quiet[c] >= TTL + 1 + Hold(r).for
        BY <2>3, <4>1, LookFacts
      <4> HIDE DEF r
      <4>3. QED
        BY <2>1, <4>2
    <3>2. QED
      BY <2>1, <3>1 DEF HeldInv
  <2>4. QED
    BY <2>2, <2>3
<1>5. CASE Connect \/ Poll \/ UNCHANGED vars
  <2>1. UNCHANGED <<held, phase, wanted, quiet, forgotten>>
    BY <1>5 DEF Connect, Poll, vars, ghosts, lanVars
  <2>2. QED
    BY <2>1 DEF HeldInv
<1>6. ASSUME NEW a \in Addrs, NEW k \in Servers \cup {None}, Move(a, k) PROVE HeldInv'
  <2>1. UNCHANGED <<held, phase, wanted, quiet, forgotten>>
    BY <1>6 DEF Move
  <2>2. QED
    BY <2>1 DEF HeldInv
<1>7. ASSUME NEW d \in Sightings, Hear(d) PROVE HeldInv'
  <2>1. UNCHANGED <<held, phase, wanted>>
    BY <1>7 DEF Hear, lanVars
  <2>2. ASSUME NEW c \in Sightings
        PROVE  /\ c = d => quiet'[c] = 0
               /\ c # d => quiet'[c] = quiet[c] /\ (c \in forgotten => c \in forgotten')
    <3>1. quiet'[c] = IF c = d THEN 0 ELSE quiet[c]
      BY <1>7, HearHistory
    <3>2. ASSUME c # d, c \in forgotten PROVE c \in forgotten'
      <4>1. c \notin DOMAIN table
        BY <3>2 DEF AgeInv
      <4>2. c \notin DOMAIN table'
        BY <1>7, <3>2, <4>1, HearLeaves
      <4>3. QED
        BY <1>7, <3>2, <4>2, HearHistory
    <3>3. QED
      BY <3>1, <3>2
  <2>3. QED
    BY <2>1, <2>2 DEF HeldInv
<1>8. CASE Tick
  <2>1. SUFFICES ASSUME held'.key # None PROVE HeldInv'
    BY DEF HeldInv
  <2>2. /\ phase = "waiting" => held.looked
        /\ held' = [held EXCEPT !.for = IF held.key = None THEN 0 ELSE Up(@, Window), !.looked = FALSE]
        /\ UNCHANGED <<phase, wanted, forgotten>>
    BY <1>8 DEF Tick, lanVars
  <2>3. /\ held.key # None /\ held'.key = held.key /\ held'.ip = held.ip /\ ~held'.looked
        /\ held.for \in 0 .. Window /\ held'.for = Up(held.for, Window)
    <3>1. held \in Holds
      BY DEF AgentTyped
    <3>2. held'.key = held.key
      BY <2>2, <3>1 DEF Holds
    <3>3. held.key # None
      BY <2>1, <3>2
    <3>4. held' = [held EXCEPT !.for = Up(held.for, Window), !.looked = FALSE]
      BY <2>2, <3>3
    <3>5. QED
      BY <3>1, <3>2, <3>3, <3>4 DEF Holds
  <2>4. held'.for = (IF held.for < Window THEN held.for + 1 ELSE held.for)
    BY <2>3, UpFacts, Limits
  <2>5. phase = "waiting" /\ held.looked
    BY <2>2, <2>3 DEF HeldInv
  <2>6. ASSUME NEW c \in Sightings, Usable(c), c.key \in wanted,
               ~(c.key = held.key /\ c.ip = held.ip)
        PROVE  c \in forgotten \/ quiet'[c] >= TTL + 1 + held'.for \/ quiet'[c] <= 1
    <3>1. c \in forgotten \/ quiet[c] >= TTL + 1 + held.for \/ quiet[c] <= 0
      BY <2>3, <2>5, <2>6 DEF HeldInv
    <3>2. /\ quiet[c] \in 0 .. Long
          /\ quiet'[c] = IF quiet[c] < Long THEN quiet[c] + 1 ELSE quiet[c]
      BY <1>8, TickFacts, QuietTyped
    <3>3. QED
      BY <2>3, <2>4, <3>1, <3>2, Limits
  <2>7. QED
    BY <2>2, <2>3, <2>5, <2>6 DEF HeldInv
<1>9. QED
  BY <1>2, <1>3, <1>4, <1>5, <1>6, <1>7, <1>8, Steps DEF Aside
-----------------------------------------------------------------------------
LEMMA LinkStep == ASSUME AgentTyped, LinkInv, [Next]_vars PROVE LinkInv'
<1>1. CASE Restart
  BY <1>1, RestartTyped DEF LinkInv, NoLink
<1>2. CASE Connect
  <2>1. link' = [server |-> site[pin.ip], sysflag |-> None]
    BY <1>2 DEF Connect, Connected, NoLink
  <2>2. QED
    BY <2>1 DEF LinkInv
<1>3. CASE Poll
  <2>1. \/ link' = link
        \/ link' = [link EXCEPT !.sysflag = link.server]
    BY <1>3 DEF Poll, SlowRound, Noted, SiteReplies
  <2>2. QED
    BY <2>1 DEF LinkInv, AgentTyped
<1>4. CASE UNCHANGED link
  BY <1>4 DEF LinkInv
<1>5. CASE Start \/ StartFails \/ Retry \/ Look \/ Choose \/ Tick \/ UNCHANGED vars
  BY <1>4, <1>5 DEF Start, StartFails, Retry, Bind, Look, Choose, Tick, vars
<1>6. ASSUME NEW a \in Addrs, NEW k \in Servers \cup {None}, Move(a, k) PROVE LinkInv'
  BY <1>4, <1>6 DEF Move
<1>7. ASSUME NEW c \in Sightings, Hear(c) PROVE LinkInv'
  BY <1>4, <1>7 DEF Hear
<1>8. QED
  BY <1>1, <1>2, <1>3, <1>5, <1>6, <1>7, Steps DEF Aside

LEMMA InitInv == Init => IInv
<1> SUFFICES ASSUME Init PROVE IInv
  OBVIOUS
<1>1. /\ site \in [Addrs -> Servers \cup {None}] /\ wanted \in Selectors
      /\ phase = "down" /\ listened = 0 /\ table = Nothing
      /\ held = NotHeld /\ pin = None /\ link = NoLink /\ silent = 0
      /\ quiet = [c \in Sightings |-> Long] /\ forgotten = {} /\ wrong = 0
      /\ chaos = MaxChaos
  BY DEF Init
<1>2. DOMAIN table = {} /\ IsFiniteSet({}) /\ Cardinality({}) = 0
  BY <1>1, FS_EmptySet DEF Nothing
<1>3. TableTyped
  BY <1>1, <1>2, Limits DEF TableTyped
<1>4. AgentTyped
  <2>1. held \in Holds /\ link \in [server : Servers \cup {None}, sysflag : Servers \cup {None}]
    BY <1>1, NotHeldTyped DEF NoLink
  <2>2. QED
    BY <1>1, <2>1, Limits DEF AgentTyped
<1>5. AgeInv /\ DropInv
  BY <1>1, <1>2, Limits DEF AgeInv, DropInv
<1>6. WrongInv /\ HeldInv /\ LinkInv
  BY <1>1 DEF WrongInv, HeldInv, LinkInv, NotHeld, NoLink
<1>7. QED
  BY <1>3, <1>4, <1>5, <1>6 DEF IInv

LEMMA StepInv == IInv /\ [Next]_vars => IInv'
BY TableStep, AgentStep, AgeStep, DropStep, WrongStep, HeldStep, LinkStep DEF IInv
-----------------------------------------------------------------------------
(* The history of what was heard and the agent's account of it never part,  *)
(* whatever announces itself, is lost, moves or restarts.                   *)
THEOREM Inductive == Spec => []IInv
BY InitInv, StepInv, PTL DEF Spec

(* The agent's state has its type: the table never outgrows its limit, and  *)
(* a server is pinned exactly while the agent is running.                   *)
THEOREM TypeCorrect == Spec => []TypeOK
<1>1. IInv => TypeOK
  BY DEF IInv, TableTyped, AgentTyped, Holds, TypeOK
<1>2. QED
  BY <1>1, Inductive, PTL

(* Another server that has announced itself from the chosen address for    *)
(* longer than the life of an entry is known for another (IdentityLost),    *)
(* while nothing is dropped from a full table.                              *)
THEOREM IntruderKnown == Spec => []IntruderIsKnown
<1>1. IInv => IntruderIsKnown
  <2> SUFFICES ASSUME IInv, wrong = WrongCap, forgotten = {}
               PROVE  IdentityLost(table, pin.key, pin.ip)
    BY DEF IntruderIsKnown
  <2> USE DEF IInv
  <2>1. /\ phase = "running" /\ site[pin.ip] \in Servers \ {pin.key} /\ quiet[There] <= 1
        /\ quiet[At(pin.key, pin.ip)] >= TTL + 1
    BY Limits DEF WrongInv
  <2>2. /\ pin.key \in Servers /\ pin.ip \in Addrs
        /\ There \in Sightings /\ Usable(There) /\ There.key # pin.key /\ There.key \in Servers
        /\ There.ip = pin.ip
        /\ At(pin.key, pin.ip) \in Sightings
    BY <2>1, RunningFacts, AtFacts DEF There
  <2>3. There \in DOMAIN table /\ table[There].age <= TTL
    <3>1. quiet[There] <= TTL
      BY <2>1, <2>2, QuietTyped, Limits
    <3>2. QED
      BY <2>2, <3>1, HeardIsLive
  <2>4. table[There].packets >= 2
    <3>1. table[There].packets \in 1 .. 2
      BY <2>3 DEF TableTyped, Entry
    <3>2. quiet[There] \in 0 .. 1
      BY <2>1, <2>2, QuietTyped
    <3>3. table[There].packets # 1
      BY <2>3, <3>2, Limits DEF WrongInv
    <3>4. QED
      BY <3>1, <3>3
  <2>5. There \in {c \in UsableIn(table, Servers) : c.ip = pin.ip}
    BY <2>2, <2>3, UsableFacts DEF TableTyped
  <2>6. ASSUME NEW c \in UsableIn(table, Servers), c.ip = pin.ip PROVE c.key # pin.key
    <3>1. c \in DOMAIN table /\ table[c].age <= TTL /\ Usable(c) /\ c \in Sightings
      BY UsableFacts DEF TableTyped
    <3>2. SUFFICES ASSUME c.key = pin.key PROVE FALSE
      OBVIOUS
    <3>3. c = At(pin.key, pin.ip)
      BY <2>2, <2>6, <3>1, <3>2, AtFacts
    <3>4. table[c].age = TTL + 1
      <4>1. quiet[c] \in Nat /\ quiet[c] >= TTL + 1
        BY <2>1, <2>2, <3>3, QuietTyped
      <4>2. QED
        BY <3>1, <4>1, Limits DEF AgeInv
    <3>5. QED
      BY <3>1, <3>4, Limits
  <2>7. QED
    BY <2>4, <2>5, <2>6 DEF IdentityLost
<1>2. QED
  BY <1>1, Inductive, PTL

(* The agent leaves its server, to follow it or to choose again, only when  *)
(* that server was not heard at its address for the life of an entry, or    *)
(* was dropped from a full table.                                           *)
THEOREM LeavesGone == Spec => LeavesOnlyTheGone
<1> DEFINE own == At(pin.key, pin.ip)
           Left == MaybeFollow \/ LoseIdentity => quiet[own] > TTL \/ own \in forgotten
<1>1. IInv => Left
  <2> SUFFICES ASSUME IInv, MaybeFollow \/ LoseIdentity, ~(quiet[own] > TTL), own \notin forgotten
               PROVE  FALSE
    OBVIOUS
  <2> USE DEF IInv
  <2>1. /\ pin.key \in Servers /\ pin.ip \in Addrs /\ own \in Sightings /\ Usable(own)
        /\ own.key = pin.key /\ own.ip = pin.ip
    BY RunningFacts, AtFacts DEF MaybeFollow, LoseIdentity, Answered
  <2> HIDE DEF own
  <2>2. quiet[own] <= TTL
    BY <2>1, QuietTyped, Limits
  <2>3. own \in DOMAIN table /\ table[own].age <= TTL
    BY <2>1, <2>2, HeardIsLive
  <2>4. own \in UsableIn(table, Servers) /\ own \in UsableIn(table, {pin.key})
    BY <2>1, <2>3, UsableFacts DEF TableTyped
  <2>5. ~LoseIdentity
    BY <2>1, <2>4 DEF LoseIdentity, IdentityLost
  <2>6. ~MaybeFollow
    <3>1. SUFFICES ASSUME NEW a \in Moved(table, pin.key, pin.ip) PROVE FALSE
      BY DEF MaybeFollow
    <3>2. PICK d \in UsableIn(table, {pin.key}) :
             UsableIn(table, {pin.key}) = {d} /\ d.ip # pin.ip
      BY DEF Moved
    <3>3. QED
      BY <2>1, <2>4, <3>2
  <2>7. QED
    BY <2>5, <2>6
<1>2. IInv /\ [Next]_vars => [MaybeFollow \/ LoseIdentity => quiet[own] > TTL \/ own \in forgotten]_vars
  BY <1>1
<1> HIDE DEF own, Left
<1>3. QED
  BY <1>2, Inductive, PTL DEF Spec, LeavesOnlyTheGone, own

(* What a poll reports of its server's system is that server's own answer,  *)
(* though another stood at the address before.                              *)
THEOREM SysflagOwn == Spec => SysflagIsTheServers
<1>1. IInv /\ [Next]_vars => [Poll => link'.sysflag \in {None, site[pin.ip]}]_vars
  <2> SUFFICES ASSUME IInv, Poll PROVE link'.sysflag \in {None, site[pin.ip]}
    OBVIOUS
  <2>1. site[pin.ip] = link.server
    BY DEF Poll, Answered
  <2>2. link' = link \/ link' = [link EXCEPT !.sysflag = link.server]
    BY DEF Poll, SlowRound, Noted, SiteReplies
  <2>3. QED
    BY <2>1, <2>2 DEF IInv, LinkInv, AgentTyped
<1>2. QED
  BY <1>1, Inductive, PTL DEF Spec, SysflagIsTheServers

(* The server chosen has been alone: of every other that the selector       *)
(* matches nothing was heard for the life of an entry and a window more,    *)
(* but for one dropped from a full table.                                   *)
THEOREM ChosenIsAlone == Spec => ChosenAlone
<1> DEFINE Alone ==
      pin = None /\ pin' # None =>
        \A c \in Sightings :
          Usable(c) /\ c.key \in wanted /\ [key |-> c.key, ip |-> c.ip] # pin' =>
            quiet[c] = Long \/ c \in forgotten
<1>1. IInv /\ [Next]_vars => [Alone]_vars
  <2> SUFFICES ASSUME IInv, [Next]_vars, pin = None, pin' # None,
                      NEW c \in Sightings, Usable(c), c.key \in wanted,
                      [key |-> c.key, ip |-> c.ip] # pin'
               PROVE  quiet[c] = Long \/ c \in forgotten
    OBVIOUS
  <2>1. Choose
    <3>1. ~Restart
      BY RestartTyped
    <3>2. pin' # pin
      OBVIOUS
    <3>3. ~(Start \/ StartFails \/ Retry \/ Look \/ Connect \/ Poll \/ Tick \/ UNCHANGED vars)
      BY <3>2 DEF Start, StartFails, Retry, Bind, Look, Connect, Poll, Tick, vars
    <3>4. \A d \in Sightings : ~Hear(d)
      BY <3>2 DEF Hear
    <3>5. \A a \in Addrs, k \in Servers \cup {None} : ~Move(a, k)
      BY <3>2 DEF Move
    <3>6. QED
      BY <3>1, <3>3, <3>4, <3>5, Steps DEF Aside
  <2> DEFINE r == SelectFrom(table, wanted)
  <2>2. /\ r.outcome = "selected" /\ Hold(r).for >= Window
        /\ pin' = [key |-> r.selected.key, ip |-> r.selected.ip]
    BY <2>1 DEF Choose, Ready
  <2>3. /\ Hold(r) \in Holds
        /\ Hold(r).key = r.selected.key /\ Hold(r).ip = r.selected.ip
    BY <2>2, HoldFacts DEF IInv, AgentTyped
  <2>4. Other(Hold(r), c)
    <3> HIDE DEF r
    <3>1. ~(c.key = Hold(r).key /\ c.ip = Hold(r).ip)
      BY <2>2, <2>3
    <3>2. QED
      BY <3>1 DEF Other
  <2>5. c \in forgotten \/ quiet[c] >= TTL + 1 + Hold(r).for
    BY <2>2, <2>4, LookFacts DEF IInv
  <2> HIDE DEF r
  <2>6. quiet[c] \in 0 .. Long /\ Hold(r).for \in 0 .. Window
    BY <2>3, QuietTyped DEF IInv, Holds
  <2>7. QED
    BY <2>2, <2>5, <2>6, Limits
<1> HIDE DEF Alone
<1>2. QED
  BY <1>1, Inductive, PTL DEF Spec, ChosenAlone, Alone
-----------------------------------------------------------------------------
(***************************************************************************)
(* The poll loop.                                                          *)
(***************************************************************************)

(* What LoopTypeOK says but for the tally, and that a poll has read a mode. *)
Flagged ==
  /\ long \in BOOLEAN /\ slow \in BOOLEAN /\ setBack \in BOOLEAN
  /\ warped \in [slept : BOOLEAN, setBack : BOOLEAN]

Moded ==
  /\ pc \in {"down", "wait", "polling", "closing"}
  /\ payload \in Modes \cup {0} /\ (pc = "polling" => payload \in Modes)
  /\ serverMode \in Modes /\ lastPushMode \in Modes /\ sentMode \in Modes

Timed ==
  /\ timer \in 0 .. IdlePollInterval
  /\ sinceSlow \in 0 .. SlowPollInterval /\ sinceSent \in 0 .. LongSilent
  /\ pushWall \in Back .. IdlePollInterval
  /\ readMono \in 0 .. Stale /\ readReal \in 0 .. Stale /\ readWall \in Back .. Stale

Typed == Flagged /\ Moded /\ Timed

Counts == [Kinds -> Nat]

Tallies ==
  [count : Counts, seen : Counts, total : Counts, pending : Counts,
   explained : BOOLEAN, window : {"none", "open", "over"},
   counted : Counts, said : Counts]

TallyTyped ==
  /\ tally \in Tallies
  /\ \A k \in Kinds : tally.seen[k] <= tally.count[k]

(* What each clock says of a reading's age, but for what has warped it.     *)
ReadInv ==
  /\ ~warped.slept => readMono = readReal
  /\ ~warped.setBack => readWall = readReal

(* A slow poll's payload is always sent, and the next slow poll comes at    *)
(* most one poll late.                                                      *)
SlowInv ==
  /\ sinceSlow < SlowPollInterval => sinceSent <= sinceSlow
  /\ pc = "polling" /\ ~slow =>
       sinceSent <= SlowPollInterval /\ (~long => sinceSlow < SlowPollInterval)

(* Where the loop compares with another mode than its payload carried, the  *)
(* reader had shut the gate; and if that mode is a game's, the next poll is *)
(* a full interval after, or a slow one.                                    *)
PushInv ==
  /\ pc = "polling" /\ serverMode # payload => ~PrintServerSafe(serverMode)
  /\ lastPushMode # sentMode => ~PrintServerSafe(lastPushMode)
  /\ ~setBack => pushWall # Back
  /\ lastPushMode # sentMode /\ GameActive(lastPushMode) /\ ~setBack =>
       /\ pc = "wait" => sinceSlow = SlowPollInterval \/ pushWall + timer >= PollInterval
       /\ pc = "polling" => slow \/ pushWall >= PollInterval

LoopInv == Typed /\ TallyTyped /\ DiscardsAddUp /\ ReadInv /\ SlowInv /\ PushInv
-----------------------------------------------------------------------------
(* A sum of counts, and what a connection's counters have grown by. *)
LEMMA CountsAdd ==
  ASSUME NEW a \in Counts, NEW b \in Counts
  PROVE  Plus(a, b) \in Counts /\ \A k \in Kinds : Plus(a, b)[k] = a[k] + b[k]
BY DEF Plus, Counts

LEMMA CountsGrow ==
  ASSUME NEW now \in Counts, NEW was \in Counts, \A k \in Kinds : was[k] <= now[k]
  PROVE  Grown(now, was) \in Counts /\ \A k \in Kinds : Grown(now, was)[k] = now[k] - was[k]
BY DEF Grown, Counts

LEMMA CountsDiffer ==
  ASSUME NEW a \in Counts, NEW b \in Counts, \A k \in Kinds : a[k] = b[k]
  PROVE  a = b
BY DEF Counts

LEMMA ZeroCounts == Zero \in Counts /\ \A k \in Kinds : Zero[k] = 0
BY DEF Zero, Counts

(* DiscardsAddUp, kind by kind. *)
Said(t) == \A k \in Kinds : t.said[k] + t.pending[k] = t.total[k]
Grew(t) == \A k \in Kinds : t.total[k] + (t.count[k] - t.seen[k]) = t.counted[k]
Behind(t) == \A k \in Kinds : t.seen[k] <= t.count[k]

AddsUp(t, p) ==
  /\ Said(t)
  /\ p \notin {"closing", "down"} => Grew(t)
  /\ p \in {"closing", "down"} => \A k \in Kinds : t.total[k] = t.counted[k]

LEMMA AddUpByKind ==
  ASSUME TallyTyped
  PROVE  DiscardsAddUp <=> AddsUp(tally, pc)
<1>1. /\ tally.said \in Counts /\ tally.pending \in Counts /\ tally.total \in Counts
      /\ tally.count \in Counts /\ tally.seen \in Counts /\ tally.counted \in Counts
  BY DEF TallyTyped, Tallies
<1>2. Plus(tally.said, tally.pending) = tally.total <=> Said(tally)
  <2>1. Plus(tally.said, tally.pending) = tally.total
          <=> \A k \in Kinds : Plus(tally.said, tally.pending)[k] = tally.total[k]
    BY <1>1, CountsAdd, CountsDiffer
  <2>2. QED
    BY <1>1, <2>1, CountsAdd DEF Said
<1>3. ASSUME NEW g \in Counts
      PROVE  Plus(tally.total, g) = tally.counted
               <=> \A k \in Kinds : tally.total[k] + g[k] = tally.counted[k]
  <2>1. Plus(tally.total, g) = tally.counted
          <=> \A k \in Kinds : Plus(tally.total, g)[k] = tally.counted[k]
    BY <1>1, CountsAdd, CountsDiffer
  <2>2. QED
    BY <1>1, <2>1, CountsAdd
<1>4. CASE Ended
  <2>1. DiscardsAddUp <=> Said(tally) /\ \A k \in Kinds : tally.total[k] + Zero[k] = tally.counted[k]
    BY <1>2, <1>3, <1>4, ZeroCounts DEF DiscardsAddUp
  <2>2. \A k \in Kinds : tally.total[k] + Zero[k] = tally.total[k]
    BY <1>1, ZeroCounts DEF Counts
  <2>3. QED
    BY <1>4, <2>1, <2>2 DEF AddsUp, Ended
<1>5. CASE ~Ended
  <2> DEFINE g == Grown(tally.count, tally.seen)
  <2>1. g \in Counts /\ \A k \in Kinds : g[k] = tally.count[k] - tally.seen[k]
    BY <1>1, CountsGrow DEF TallyTyped
  <2>2. DiscardsAddUp <=> Said(tally) /\ Plus(tally.total, g) = tally.counted
    BY <1>2, <1>5 DEF DiscardsAddUp
  <2> HIDE DEF g
  <2>3. QED
    BY <1>3, <1>5, <2>1, <2>2 DEF AddsUp, Ended, Grew
<1>6. QED
  BY <1>4, <1>5

(* What frameTally's operations do. *)
LEMMA SampleFacts ==
  ASSUME NEW t \in Tallies, Behind(t), Said(t), Grew(t)
  PROVE  /\ Sample(t) \in Tallies /\ Behind(Sample(t)) /\ Said(Sample(t)) /\ Grew(Sample(t))
         /\ \A k \in Kinds : Sample(t).total[k] = Sample(t).counted[k]
<1> DEFINE d == Grown(t.count, t.seen)
           s == Sample(t)
<1>1. /\ t.said \in Counts /\ t.pending \in Counts /\ t.total \in Counts
      /\ t.count \in Counts /\ t.seen \in Counts /\ t.counted \in Counts
  BY DEF Tallies
<1>2. d \in Counts /\ \A k \in Kinds : d[k] = t.count[k] - t.seen[k]
  BY <1>1, CountsGrow DEF Behind
<1>3. s = [t EXCEPT !.seen = t.count, !.total = Plus(t.total, d), !.pending = Plus(t.pending, d)]
  BY DEF Sample
<1> HIDE DEF d, s
<1>4. /\ Plus(t.total, d) \in Counts /\ \A k \in Kinds : Plus(t.total, d)[k] = t.total[k] + d[k]
      /\ Plus(t.pending, d) \in Counts /\ \A k \in Kinds : Plus(t.pending, d)[k] = t.pending[k] + d[k]
  BY <1>1, <1>2, CountsAdd
<1>5. /\ s \in Tallies
      /\ s.count = t.count /\ s.seen = t.count /\ s.said = t.said /\ s.counted = t.counted
      /\ s.total = Plus(t.total, d) /\ s.pending = Plus(t.pending, d)
  BY <1>1, <1>3, <1>4 DEF Tallies
<1>6. ASSUME NEW k \in Kinds
      PROVE  /\ s.seen[k] <= s.count[k]
             /\ s.said[k] + s.pending[k] = s.total[k]
             /\ s.total[k] + (s.count[k] - s.seen[k]) = s.counted[k]
             /\ s.total[k] = s.counted[k]
  <2>1. /\ t.said[k] \in Nat /\ t.pending[k] \in Nat /\ t.total[k] \in Nat
        /\ t.count[k] \in Nat /\ t.seen[k] \in Nat /\ t.counted[k] \in Nat
    BY <1>1 DEF Counts
  <2>2. t.said[k] + t.pending[k] = t.total[k] /\ t.total[k] + (t.count[k] - t.seen[k]) = t.counted[k]
    BY DEF Said, Grew
  <2>3. /\ s.seen[k] = t.count[k] /\ s.count[k] = t.count[k] /\ s.said[k] = t.said[k]
        /\ s.counted[k] = t.counted[k] /\ d[k] = t.count[k] - t.seen[k]
        /\ s.total[k] = t.total[k] + d[k] /\ s.pending[k] = t.pending[k] + d[k]
    BY <1>2, <1>4, <1>5
  <2>4. QED
    BY <2>1, <2>2, <2>3
<1>7. QED
  BY <1>5, <1>6 DEF s, Behind, Said, Grew

LEMMA LinesFacts ==
  ASSUME NEW t \in Tallies, Behind(t), Said(t), Grew(t)
  PROVE  Lines(t) \in Tallies /\ Behind(Lines(t)) /\ Said(Lines(t)) /\ Grew(Lines(t))
<1>1. /\ t.said \in Counts /\ t.pending \in Counts /\ t.total \in Counts
      /\ t.count \in Counts /\ t.seen \in Counts /\ t.counted \in Counts
  BY DEF Tallies
<1>2. \A k \in Kinds : t.said[k] \in Nat /\ t.pending[k] \in Nat
  BY <1>1 DEF Counts
<1>3. CASE ~t.explained /\ t.total["foreign"] > 0
  <2> DEFINE s == Lines(t)
  <2>1. s = [t EXCEPT !.explained = TRUE,
                      !.pending = [t.pending EXCEPT !["foreign"] = 0], !.window = "open",
                      !.said = [t.said EXCEPT !["foreign"] = t.said["foreign"] + t.pending["foreign"]]]
    BY <1>3 DEF Lines
  <2> HIDE DEF s
  <2>2. "foreign" \in Kinds
    BY DEF Kinds
  <2>3. /\ [t.pending EXCEPT !["foreign"] = 0] \in Counts
        /\ [t.said EXCEPT !["foreign"] = t.said["foreign"] + t.pending["foreign"]] \in Counts
    BY <1>1, <1>2, <2>2 DEF Counts
  <2>4. /\ s \in Tallies
        /\ s.count = t.count /\ s.seen = t.seen /\ s.total = t.total /\ s.counted = t.counted
        /\ s.pending = [t.pending EXCEPT !["foreign"] = 0]
        /\ s.said = [t.said EXCEPT !["foreign"] = t.said["foreign"] + t.pending["foreign"]]
    BY <2>1, <2>3 DEF Tallies
  <2>5. \A k \in Kinds : s.said[k] + s.pending[k] = t.said[k] + t.pending[k]
    BY <1>1, <1>2, <2>4 DEF Counts
  <2>6. QED
    BY <2>4, <2>5 DEF s, Behind, Said, Grew
<1>4. CASE ~(~t.explained /\ t.total["foreign"] > 0) /\ t.pending # Zero /\ t.window # "open"
  <2> DEFINE s == Lines(t)
  <2>1. s = [t EXCEPT !.pending = Zero, !.said = Plus(t.said, t.pending), !.window = "open"]
    BY <1>4 DEF Lines
  <2> HIDE DEF s
  <2>2. Plus(t.said, t.pending) \in Counts /\ Zero \in Counts
    BY <1>1, CountsAdd, ZeroCounts
  <2>3. /\ s \in Tallies
        /\ s.count = t.count /\ s.seen = t.seen /\ s.total = t.total /\ s.counted = t.counted
        /\ s.pending = Zero /\ s.said = Plus(t.said, t.pending)
    BY <2>1, <2>2 DEF Tallies
  <2>4. \A k \in Kinds : s.said[k] + s.pending[k] = t.said[k] + t.pending[k]
    BY <1>1, <1>2, <2>3, CountsAdd, ZeroCounts
  <2>5. QED
    BY <2>3, <2>4 DEF s, Behind, Said, Grew
<1>5. CASE /\ ~(~t.explained /\ t.total["foreign"] > 0)
           /\ ~(t.pending # Zero /\ t.window # "open")
  <2>1. Lines(t) = t
    BY <1>5 DEF Lines
  <2>2. QED
    BY <2>1
<1>6. QED
  BY <1>3, <1>4, <1>5
-----------------------------------------------------------------------------
LEMMA Intervals ==
  /\ PollInterval \in Nat \ {0} /\ IdlePollInterval \in Nat /\ SlowPollInterval \in Nat \ {0}
  /\ PollInterval <= IdlePollInterval /\ IdlePollInterval <= SlowPollInterval
  /\ Stale \in Nat \ {0} /\ MaxAge \in Nat /\ Stale = MaxAge + 1
  /\ LongSilent \in Nat /\ LongSilent = SlowPollInterval + 2 /\ Back = -1
BY PollLoopAssumption DEF Stale, LongSilent, Back

LEMMA OlderFacts ==
  ASSUME NEW limit \in Nat, NEW age \in 0 .. limit
  PROVE  /\ Older(age, limit) \in 0 .. limit
         /\ age <= Older(age, limit)
         /\ Older(age, limit) <= age + 1
         /\ age < limit => Older(age, limit) = age + 1
BY DEF Older

LEMMA OlderByWallFacts ==
  ASSUME NEW limit \in Nat, NEW age \in Back .. limit, NEW new \in OlderByWall(age, limit)
  PROVE  /\ new \in Back .. limit
         /\ age # Back => age \in 0 .. limit /\ new = Older(age, limit)
<1>1. CASE age = Back
  BY <1>1 DEF OlderByWall, Back
<1>2. CASE age # Back
  <2>1. age \in 0 .. limit /\ new = Older(age, limit)
    BY <1>2 DEF OlderByWall, Back
  <2>2. QED
    BY <2>1, OlderFacts DEF Back
<1>3. QED
  BY <1>1, <1>2

LEMMA TypedTogether ==
  ASSUME Typed, TallyTyped, DiscardsAddUp
  PROVE  LoopTypeOK
<1>1. Said(tally)
  BY AddUpByKind DEF AddsUp
<1>2. \A k \in Kinds : tally.seen[k] <= tally.count[k] /\ tally.pending[k] <= tally.total[k]
  <2>1. SUFFICES ASSUME NEW k \in Kinds PROVE tally.pending[k] <= tally.total[k]
    BY DEF TallyTyped
  <2>2. tally.said[k] \in Nat /\ tally.pending[k] \in Nat /\ tally.total[k] \in Nat
    BY DEF TallyTyped, Tallies, Counts
  <2>3. QED
    BY <1>1, <2>2 DEF Said
<1>3. QED
  BY <1>2 DEF LoopTypeOK, Typed, Flagged, Moded, Timed

(* The tally, step by step. *)
LEMMA TallyStep ==
  ASSUME TallyTyped, AddsUp(tally, pc), [LoopNext]_timingVars
  PROVE  TallyTyped' /\ AddsUp(tally', pc')
<1> USE DEF TallyTyped
<1>0. tally \in Tallies /\ Behind(tally) /\ Said(tally)
  BY DEF Behind, AddsUp
<1>1. CASE tally' = tally /\ (Ended' <=> Ended)
  BY <1>1 DEF AddsUp, Ended
<1>2. CASE BeginLoop
  <2> DEFINE s == NewConnection(tally)
  <2>1. /\ tally' = s /\ pc = "down" /\ pc' = "wait"
        /\ s = [tally EXCEPT !.count = Zero, !.seen = Zero]
    BY <1>2 DEF BeginLoop, NewConnection
  <2> HIDE DEF s
  <2>2. /\ s \in Tallies /\ s.count = Zero /\ s.seen = Zero /\ s.total = tally.total
        /\ s.pending = tally.pending /\ s.said = tally.said /\ s.counted = tally.counted
    BY <1>0, <2>1, ZeroCounts DEF Tallies
  <2>3. \A k \in Kinds : s.seen[k] <= s.count[k] /\ s.count[k] - s.seen[k] = 0
    BY <2>2, ZeroCounts
  <2>4. \A k \in Kinds : s.total[k] \in Nat
    BY <2>2 DEF Tallies, Counts
  <2>5. QED
    BY <1>0, <2>1, <2>2, <2>3, <2>4 DEF AddsUp, Said, Grew
<1>3. CASE PollFails
  <2>1. Grew(tally) /\ tally' = Sample(tally) /\ pc' = "closing"
    BY <1>3 DEF PollFails, LastSample, AddsUp
  <2>2. QED
    BY <1>0, <2>1, SampleFacts DEF AddsUp, Behind
<1>4. CASE EndOfPoll
  <2>1. /\ Grew(tally) /\ pc' = "wait"
        /\ tally' = Sample(tally) \/ tally' = Lines(Sample(tally))
    BY <1>4 DEF EndOfPoll, EndPoll, AddsUp
  <2>2. /\ Sample(tally) \in Tallies /\ Behind(Sample(tally))
        /\ Said(Sample(tally)) /\ Grew(Sample(tally))
    BY <1>0, <2>1, SampleFacts
  <2>3. tally' \in Tallies /\ Behind(tally') /\ Said(tally') /\ Grew(tally')
    BY <2>1, <2>2, LinesFacts
  <2>4. QED
    BY <2>1, <2>3 DEF AddsUp, Behind
<1>5. CASE Discard
  <2>1. PICK k \in Kinds : tally' = [tally EXCEPT !.count[k] = @ + 1, !.counted[k] = @ + 1]
    BY <1>5 DEF Discard
  <2>2. ~Ended /\ pc' = pc /\ Grew(tally)
    BY <1>5 DEF Discard, loopVars, AddsUp, Ended
  <2>3. /\ tally.count \in Counts /\ tally.counted \in Counts /\ tally.seen \in Counts
        /\ tally.total \in Counts
    BY <1>0 DEF Tallies
  <2>4. /\ [tally.count EXCEPT ![k] = @ + 1] \in Counts
        /\ [tally.counted EXCEPT ![k] = @ + 1] \in Counts
    BY <2>3 DEF Counts
  <2>5. /\ tally' \in Tallies
        /\ tally'.count = [tally.count EXCEPT ![k] = @ + 1]
        /\ tally'.counted = [tally.counted EXCEPT ![k] = @ + 1]
        /\ tally'.seen = tally.seen /\ tally'.total = tally.total
        /\ tally'.pending = tally.pending /\ tally'.said = tally.said
    BY <1>0, <2>1, <2>4 DEF Tallies
  <2>6. ASSUME NEW j \in Kinds
        PROVE  /\ tally'.seen[j] <= tally'.count[j]
               /\ tally'.total[j] + (tally'.count[j] - tally'.seen[j]) = tally'.counted[j]
    <3>1. /\ tally.count[j] \in Nat /\ tally.counted[j] \in Nat /\ tally.seen[j] \in Nat
          /\ tally.total[j] \in Nat
      BY <2>3 DEF Counts
    <3>2. \/ tally'.count[j] = tally.count[j] /\ tally'.counted[j] = tally.counted[j]
          \/ tally'.count[j] = tally.count[j] + 1 /\ tally'.counted[j] = tally.counted[j] + 1
      BY <2>3, <2>5 DEF Counts
    <3>3. /\ tally.seen[j] <= tally.count[j]
          /\ tally.total[j] + (tally.count[j] - tally.seen[j]) = tally.counted[j]
      BY <1>0, <2>2 DEF Behind, Grew
    <3>4. QED
      BY <2>5, <3>1, <3>2, <3>3
  <2>7. QED
    BY <1>0, <2>2, <2>5, <2>6 DEF AddsUp, Said, Grew, Ended
<1>6. CASE HourPasses
  <2>1. /\ tally' \in Tallies /\ pc' = pc
        /\ tally'.count = tally.count /\ tally'.seen = tally.seen /\ tally'.total = tally.total
        /\ tally'.pending = tally.pending /\ tally'.said = tally.said
        /\ tally'.counted = tally.counted
    BY <1>0, <1>6 DEF HourPasses, loopVars, Tallies
  <2>2. QED
    BY <2>1 DEF AddsUp, Said, Grew
<1>7. CASE BeginPoll
  BY <1>1, <1>7 DEF BeginPoll, Ended
<1>8. CASE TimePasses \/ ObserveFrame \/ Suspend \/ SetBack \/ UNCHANGED timingVars
  BY <1>1, <1>8 DEF TimePasses, ObserveFrame, Suspend, SetBack, timingVars, loopVars, Ended
<1>9. CASE CloseClient
  BY <1>1, <1>9 DEF CloseClient, Ended
<1>10. CASE DiscardUnseen
  <2>1. PICK k \in Kinds : tally' = [tally EXCEPT !.count[k] = @ + 1]
    BY <1>10 DEF DiscardUnseen
  <2>2. pc = "closing" /\ pc' = pc
    BY <1>10 DEF DiscardUnseen, loopVars
  <2>3. tally.count \in Counts /\ tally.seen \in Counts
    BY <1>0 DEF Tallies
  <2>4. /\ [tally.count EXCEPT ![k] = @ + 1] \in Counts
        /\ \A j \in Kinds : tally.count[j] <= [tally.count EXCEPT ![k] = @ + 1][j]
    BY <2>3 DEF Counts
  <2>5. /\ tally' \in Tallies /\ tally'.count = [tally.count EXCEPT ![k] = @ + 1]
        /\ tally'.seen = tally.seen /\ tally'.total = tally.total
        /\ tally'.counted = tally.counted
        /\ tally'.pending = tally.pending /\ tally'.said = tally.said
    BY <1>0, <2>1, <2>4 DEF Tallies
  <2>6. ASSUME NEW j \in Kinds PROVE tally'.seen[j] <= tally'.count[j]
    <3>1. /\ tally.seen[j] \in Nat /\ tally.count[j] \in Nat /\ tally'.count[j] \in Nat
          /\ tally.seen[j] <= tally.count[j] /\ tally.count[j] <= tally'.count[j]
      BY <1>0, <2>3, <2>4, <2>5 DEF Behind, Counts
    <3>2. QED
      BY <2>5, <3>1
  <2>7. QED
    BY <1>0, <2>2, <2>5, <2>6 DEF AddsUp, Said
<1>11. QED
  BY <1>2, <1>3, <1>4, <1>5, <1>6, <1>7, <1>8, <1>9, <1>10 DEF LoopNext
-----------------------------------------------------------------------------
(* Everything else, step by step. *)
LEMMA IntervalsTyped ==
  /\ TelemetryIntervals \subseteq {PollInterval, IdlePollInterval}
  /\ GameActive(serverMode) => TelemetryIntervals = {PollInterval}
BY DEF TelemetryIntervals

LEMMA FlagStep == ASSUME Flagged, [LoopNext]_timingVars PROVE Flagged'
<1> USE DEF Flagged
<1>1. CASE BeginPoll \/ ObserveFrame
  <2>1. long' \in BOOLEAN /\ slow' \in BOOLEAN
    <3>1. CASE BeginPoll
      <4>1. (sinceSlow >= SlowPollInterval) \in BOOLEAN
        OBVIOUS
      <4>2. long' = FALSE /\ slow' = (sinceSlow >= SlowPollInterval)
        BY <3>1 DEF BeginPoll
      <4>3. QED
        BY <4>1, <4>2, Zenon
    <3>2. CASE ObserveFrame
      BY <3>2 DEF ObserveFrame, loopVars
    <3>3. QED
      BY <1>1, <3>1, <3>2
  <2>2. setBack' = setBack /\ warped' = [slept |-> FALSE, setBack |-> FALSE]
    BY <1>1 DEF BeginPoll, ObserveFrame, NoteServerMode, pushVars
  <2>3. QED
    BY <2>1, <2>2
<1>2. CASE BeginLoop \/ PollFails \/ CloseClient
  BY <1>2 DEF BeginLoop, PollFails, CloseClient, PollOver, readVars, pushVars
<1>3. CASE EndOfPoll
  BY <1>3 DEF EndOfPoll, EndPoll, PollOver, Enqueue, readVars, pushVars
<1>4. CASE Discard \/ DiscardUnseen \/ HourPasses \/ UNCHANGED timingVars
  BY <1>4 DEF Discard, DiscardUnseen, HourPasses, timingVars, readVars, pushVars, loopVars
<1>5. CASE TimePasses
  BY <1>5 DEF TimePasses
<1>6. CASE Suspend \/ SetBack
  BY <1>6 DEF Suspend, SetBack, loopVars
<1>7. QED
  BY <1>1, <1>2, <1>3, <1>4, <1>5, <1>6 DEF LoopNext

LEMMA ModeStep == ASSUME Moded, [LoopNext]_timingVars PROVE Moded'
<1> USE DEF Moded
<1>1. CASE BeginPoll \/ ObserveFrame
  BY <1>1 DEF BeginPoll, ObserveFrame, NoteServerMode, pushVars, loopVars
<1>2. CASE BeginLoop \/ PollFails \/ CloseClient
  BY <1>2 DEF BeginLoop, PollFails, CloseClient, PollOver, readVars, pushVars
<1>3. CASE EndOfPoll
  BY <1>3 DEF EndOfPoll, EndPoll, PollOver, Enqueue, readVars, pushVars
<1>4. CASE Discard \/ DiscardUnseen \/ HourPasses \/ UNCHANGED timingVars
  BY <1>4 DEF Discard, DiscardUnseen, HourPasses, timingVars, readVars, pushVars, loopVars
<1>5. CASE TimePasses \/ Suspend \/ SetBack
  BY <1>5 DEF TimePasses, Suspend, SetBack, loopVars
<1>6. QED
  BY <1>1, <1>2, <1>3, <1>4, <1>5 DEF LoopNext

LEMMA TimeStep == ASSUME Timed, [LoopNext]_timingVars PROVE Timed'
<1> USE Intervals DEF Timed
<1>1. CASE BeginPoll \/ ObserveFrame
  BY <1>1 DEF BeginPoll, ObserveFrame, NoteServerMode, pushVars, loopVars
<1>2. CASE BeginLoop \/ PollFails \/ CloseClient
  BY <1>2 DEF BeginLoop, PollFails, CloseClient, PollOver, readVars, pushVars
<1>3. CASE EndOfPoll
  <2>1. PICK i \in TelemetryIntervals : EndPoll(i)
    BY <1>3 DEF EndOfPoll
  <2>2. timer' \in 0 .. IdlePollInterval
    BY <2>1, IntervalsTyped DEF EndPoll, NextPollIntervals
  <2>3. \/ pushWall' = 0 /\ sinceSent' = 0
        \/ pushWall' = pushWall /\ sinceSent' = sinceSent
    BY <2>1 DEF EndPoll, Enqueue, pushVars
  <2>4. sinceSlow' = 0 \/ sinceSlow' = sinceSlow
    BY <2>1 DEF EndPoll
  <2>5. UNCHANGED readVars
    BY <2>1 DEF EndPoll
  <2>6. QED
    BY <2>2, <2>3, <2>4, <2>5 DEF readVars
<1>4. CASE Discard \/ DiscardUnseen \/ HourPasses \/ UNCHANGED timingVars
  BY <1>4 DEF Discard, DiscardUnseen, HourPasses, timingVars, readVars, pushVars, loopVars
<1>5. CASE TimePasses
  <2>1. timer' \in 0 .. IdlePollInterval
    <3>1. (timer > 0 /\ timer' = timer - 1) \/ timer' = timer
      BY <1>5 DEF TimePasses
    <3>2. QED
      BY <3>1
  <2>2. /\ sinceSlow' \in 0 .. SlowPollInterval /\ sinceSent' \in 0 .. LongSilent
        /\ readMono' \in 0 .. Stale /\ readReal' \in 0 .. Stale
    BY <1>5, OlderFacts DEF TimePasses
  <2>3. pushWall' \in Back .. IdlePollInterval /\ readWall' \in Back .. Stale
    BY <1>5, OlderByWallFacts DEF TimePasses
  <2>4. QED
    BY <2>1, <2>2, <2>3
<1>6. CASE Suspend \/ SetBack
  <2>1. /\ UNCHANGED <<timer, sinceSlow, sinceSent, readMono>>
        /\ pushWall' \in {IdlePollInterval, Back} /\ readWall' \in {Stale, Back}
        /\ readReal' \in {Stale, readReal}
    BY <1>6 DEF Suspend, SetBack, loopVars
  <2>2. QED
    BY <2>1
<1>7. QED
  BY <1>1, <1>2, <1>3, <1>4, <1>5, <1>6 DEF LoopNext

(* A reading's ages. *)
LEMMA ReadStep == ASSUME Typed, ReadInv, [LoopNext]_timingVars PROVE ReadInv'
<1> USE DEF ReadInv
<1>1. CASE UNCHANGED readVars
  BY <1>1 DEF readVars
<1>2. CASE \/ BeginLoop \/ PollFails \/ CloseClient \/ EndOfPoll
           \/ Discard \/ DiscardUnseen \/ HourPasses \/ UNCHANGED timingVars
  BY <1>1, <1>2 DEF BeginLoop, PollFails, CloseClient, EndOfPoll, EndPoll, Discard, DiscardUnseen,
                    HourPasses, timingVars
<1>3. CASE BeginPoll \/ ObserveFrame
  BY <1>3 DEF BeginPoll, ObserveFrame, NoteServerMode
<1>4. CASE TimePasses
  <2>1. /\ readMono' = Older(readMono, Stale) /\ readReal' = Older(readReal, Stale)
        /\ readWall' \in OlderByWall(readWall, Stale) /\ warped' = warped
    BY <1>4 DEF TimePasses
  <2>2. CASE readWall = readReal
    <3>1. readWall # Back
      BY <2>2, Intervals DEF Typed, Timed
    <3>2. readWall' = readReal'
      BY <2>1, <2>2, <3>1 DEF OlderByWall
    <3>3. QED
      BY <2>1, <3>2
  <2>3. CASE readWall # readReal
    BY <2>1, <2>3
  <2>4. QED
    BY <2>2, <2>3
<1>5. CASE Suspend
  BY <1>5 DEF Suspend, Typed, Flagged
<1>6. CASE SetBack
  BY <1>6 DEF SetBack, Typed, Flagged
<1>7. QED
  BY <1>2, <1>3, <1>4, <1>5, <1>6 DEF LoopNext

(* When slow polls come. *)
LEMMA SlowStep == ASSUME Typed, SlowInv, [LoopNext]_timingVars PROVE SlowInv'
<1> USE Intervals DEF SlowInv, Typed, Timed
<1>1. CASE BeginLoop
  BY <1>1 DEF BeginLoop, pushVars
<1>2. CASE BeginPoll
  <2>1. /\ ~slow' => ~(sinceSlow >= SlowPollInterval)
        /\ sinceSlow' = sinceSlow /\ sinceSent' = sinceSent
    BY <1>2 DEF BeginPoll, pushVars
  <2>2. QED
    BY <2>1
<1>3. CASE PollFails \/ CloseClient
  BY <1>3 DEF PollFails, CloseClient, PollOver, pushVars
<1>4. CASE EndOfPoll
  <2>1. PICK i \in TelemetryIntervals : EndPoll(i)
    BY <1>4 DEF EndOfPoll
  <2>2. pc' = "wait" /\ sinceSlow' = (IF slow THEN 0 ELSE sinceSlow)
    BY <2>1 DEF EndPoll
  <2>3. sinceSent' = 0 \/ (~slow /\ sinceSent' = sinceSent)
    BY <2>1 DEF EndPoll, PushDue, Enqueue, pushVars
  <2>4. QED
    BY <2>2, <2>3
<1>5. CASE ObserveFrame \/ Discard \/ DiscardUnseen \/ HourPasses \/ UNCHANGED timingVars
  BY <1>5 DEF ObserveFrame, Discard, DiscardUnseen, HourPasses, timingVars, pushVars, loopVars
<1>6. CASE TimePasses
  <2>1. /\ sinceSlow' = Older(sinceSlow, SlowPollInterval) /\ sinceSent' = Older(sinceSent, LongSilent)
        /\ pc' = pc /\ slow' = slow /\ (pc = "polling" => ~long /\ long')
    BY <1>6 DEF TimePasses, Ended
  <2>2. /\ sinceSlow' \in 0 .. SlowPollInterval /\ sinceSent' \in Nat
        /\ sinceSent' <= sinceSent + 1
        /\ sinceSlow < SlowPollInterval => sinceSlow' = sinceSlow + 1
        /\ sinceSlow <= sinceSlow'
    BY <2>1, OlderFacts
  <2>3. QED
    BY <2>1, <2>2
<1>7. CASE Suspend \/ SetBack
  BY <1>7 DEF Suspend, SetBack, loopVars
<1>8. QED
  BY <1>1, <1>2, <1>3, <1>4, <1>5, <1>6, <1>7 DEF LoopNext

LEMMA NoLess == \A a \in Int, b, c \in Nat : a >= c => a + b >= c
OBVIOUS

(* What was sent last, and when the next poll is. *)
LEMMA PushStep == ASSUME Typed, PushInv, [LoopNext]_timingVars PROVE PushInv'
<1> USE Intervals DEF PushInv, Typed, Timed
<1>1. CASE BeginLoop
  BY <1>1 DEF BeginLoop, readVars, pushVars
<1>2. CASE BeginPoll
  <2>1. /\ pc = "wait" /\ timer = 0 /\ pc' = "polling" /\ serverMode' = payload'
        /\ UNCHANGED <<lastPushMode, sentMode, pushWall, setBack, sinceSlow>>
        /\ sinceSlow >= SlowPollInterval => slow'
    BY <1>2 DEF BeginPoll, NoteServerMode, pushVars
  <2>2. QED
    BY <2>1
<1>3. CASE PollFails \/ CloseClient
  BY <1>3 DEF PollFails, CloseClient, PollOver, readVars, pushVars
<1>4. CASE EndOfPoll
  <2>1. PICK i \in TelemetryIntervals : EndPoll(i)
    BY <1>4 DEF EndOfPoll
  <2>2. pc = "polling" /\ pc' = "wait" /\ timer' \in TelemetryIntervals /\ timer' \in Nat
    BY <2>1, IntervalsTyped DEF EndPoll, NextPollIntervals
  <2>3. CASE Enqueue
    <3>1. /\ lastPushMode' = serverMode /\ sentMode' = payload /\ pushWall' = 0 /\ ~setBack'
      BY <2>3 DEF Enqueue
    <3>2. GameActive(serverMode) => pushWall' + timer' >= PollInterval
      <4>1. GameActive(serverMode) => timer' = PollInterval
        BY <2>2, IntervalsTyped
      <4>2. pushWall' + PollInterval >= PollInterval
        BY <3>1
      <4>3. QED
        BY <4>1, <4>2
    <3>3. lastPushMode' # sentMode' => ~PrintServerSafe(lastPushMode')
      BY <2>2, <3>1
    <3>4. ~setBack' => pushWall' # Back
      BY <3>1
    <3>5. QED
      BY <2>2, <3>1, <3>2, <3>3, <3>4
  <2>4. CASE UNCHANGED pushVars /\ ~PushDue(i)
    <3>1. ~slow /\ UNCHANGED <<lastPushMode, sentMode, pushWall, setBack>>
      BY <2>4 DEF PushDue, pushVars
    <3>2. lastPushMode # sentMode /\ GameActive(lastPushMode) /\ ~setBack
            => pushWall' + timer' >= PollInterval
      <4>1. lastPushMode # sentMode /\ GameActive(lastPushMode) /\ ~setBack
              => pushWall >= PollInterval
        BY <2>2, <3>1
      <4>2. pushWall >= PollInterval => pushWall' + timer' >= PollInterval
        <5>1. pushWall' = pushWall /\ pushWall \in Int
          BY <3>1
        <5>2. timer' \in Nat /\ PollInterval \in Nat
          BY <2>2
        <5>3. QED
          BY <5>1, <5>2, NoLess
      <4>3. QED
        BY <4>1, <4>2
    <3>3. QED
      BY <2>2, <3>1, <3>2
  <2>5. QED
    BY <2>1, <2>3, <2>4 DEF EndPoll
<1>5. CASE ObserveFrame
  BY <1>5 DEF ObserveFrame, NoteServerMode, pushVars, loopVars
<1>6. CASE Discard \/ DiscardUnseen \/ HourPasses \/ UNCHANGED timingVars
  BY <1>6 DEF Discard, DiscardUnseen, HourPasses, timingVars, readVars, pushVars, loopVars
<1>7. CASE TimePasses
  <2>1. /\ UNCHANGED <<pc, payload, slow, serverMode, lastPushMode, sentMode, setBack>>
        /\ pc = "wait" => timer > 0 /\ timer' = timer - 1
        /\ sinceSlow' = Older(sinceSlow, SlowPollInterval)
        /\ pushWall' \in OlderByWall(pushWall, IdlePollInterval)
    BY <1>7 DEF TimePasses, Ended
  <2>2. sinceSlow = SlowPollInterval => sinceSlow' = SlowPollInterval
    BY <2>1 DEF Older
  <2>3. CASE setBack
    BY <2>1, <2>3
  <2>4. CASE ~setBack
    <3>1. pushWall \in 0 .. IdlePollInterval /\ pushWall' = Older(pushWall, IdlePollInterval)
      BY <2>1, <2>4, OlderByWallFacts
    <3>2. /\ pushWall' \in 0 .. IdlePollInterval /\ pushWall <= pushWall'
          /\ pushWall' = IdlePollInterval \/ pushWall' = pushWall + 1
      BY <3>1 DEF Older
    <3>3. QED
      BY <2>1, <2>2, <3>1, <3>2
  <2>5. QED
    BY <2>3, <2>4
<1>8. CASE Suspend
  BY <1>8 DEF Suspend, loopVars
<1>9. CASE SetBack
  BY <1>9 DEF SetBack, loopVars
<1>10. QED
  BY <1>1, <1>2, <1>3, <1>4, <1>5, <1>6, <1>7, <1>8, <1>9 DEF LoopNext
-----------------------------------------------------------------------------
LEMMA LoopInitInv == LoopInit => LoopInv
<1> SUFFICES ASSUME LoopInit PROVE LoopInv
  OBVIOUS
<1>1. Typed
  <2>1. Flagged /\ Moded
    BY DEF LoopInit, Flagged, Moded
  <2>2. Timed
    BY Intervals DEF LoopInit, Timed
  <2>3. QED
    BY <2>1, <2>2 DEF Typed
<1>2. ReadInv /\ SlowInv
  BY Intervals DEF LoopInit, ReadInv, SlowInv
<1>3. PushInv
  BY Intervals DEF LoopInit, PushInv
<1>4. tally = NoTally /\ NoTally \in Tallies /\ pc = "down"
  BY ZeroCounts DEF LoopInit, NoTally, Tallies
<1>5. TallyTyped /\ AddsUp(tally, pc)
  BY <1>4, ZeroCounts DEF NoTally, TallyTyped, AddsUp, Said
<1>6. QED
  BY <1>1, <1>2, <1>3, <1>5, AddUpByKind DEF LoopInv

LEMMA LoopStepInv == LoopInv /\ [LoopNext]_timingVars => LoopInv'
<1> SUFFICES ASSUME LoopInv, [LoopNext]_timingVars PROVE LoopInv'
  OBVIOUS
<1>1. AddsUp(tally, pc)
  BY AddUpByKind DEF LoopInv
<1>2. TallyTyped' /\ AddsUp(tally, pc)'
  BY <1>1, TallyStep DEF LoopInv, AddsUp, Said, Grew
<1>3. (TallyTyped /\ AddsUp(tally, pc) => DiscardsAddUp)'
  BY AddUpByKind, PTL
<1>4. Typed' /\ ReadInv' /\ SlowInv' /\ PushInv'
  BY FlagStep, ModeStep, TimeStep, ReadStep, SlowStep, PushStep DEF LoopInv, Typed
<1>5. QED
  BY <1>2, <1>3, <1>4 DEF LoopInv

(* The conjunction that every step keeps: each clock gives a reading's age  *)
(* until it is warped, slow polls are neither late nor withheld, and the    *)
(* frames counted add up.                                                   *)
THEOREM LoopInductive == LoopSpec => []LoopInv
BY LoopInitInv, LoopStepInv, PTL DEF LoopSpec

(* The poll loop's state has the types its fields are declared with, its    *)
(* ages and timer stay inside their limits, and no counter last seen is     *)
(* ahead of the connection's (pollLoop, frameTally).                        *)
THEOREM LoopTypeCorrect == LoopSpec => []LoopTypeOK
<1>1. LoopInv => LoopTypeOK
  BY TypedTogether DEF LoopInv
<1>2. QED
  BY <1>1, LoopInductive, PTL

(* A reading that opens the gate is recent, whatever the host's suspends or *)
(* a wall clock set back do, but for both together (serverModeFresh).       *)
THEOREM FreshReadings == LoopSpec => []FreshIsRecent
<1>1. LoopInv => FreshIsRecent
  BY DEF LoopInv, ReadInv, Typed, Timed, FreshIsRecent, ServerModeFresh
<1>2. QED
  BY <1>1, LoopInductive, PTL

(* Every frame discarded before a connection's last sample is counted once, *)
(* over all connections, and is logged once or waits to be                  *)
(* (frameTally.sample, lines).                                              *)
THEOREM DiscardsCounted == LoopSpec => []DiscardsAddUp
<1>1. LoopInv => DiscardsAddUp
  BY DEF LoopInv
<1>2. QED
  BY <1>1, LoopInductive, PTL

(* A poll that is not sent repeats what central was last sent, and one is   *)
(* sent within every slow-poll interval (pushDue).                          *)
THEOREM OnlyRepeatsWithheld == LoopSpec => WithholdsOnlyRepeats
<1> DEFINE Withheld ==
      \A i \in TelemetryIntervals :
        EndPoll(i) /\ UNCHANGED pushVars =>
          /\ sinceSent <= SlowPollInterval
          /\ ~setBack /\ serverMode = payload =>
               payload = sentMode \/ ~(PrintServerSafe(payload) \/ GameActive(payload))
<1>1. ASSUME LoopInv, [LoopNext]_timingVars PROVE Withheld
  <2>1. SUFFICES ASSUME NEW i \in TelemetryIntervals, EndPoll(i), UNCHANGED pushVars
                 PROVE  /\ sinceSent <= SlowPollInterval
                        /\ ~setBack /\ serverMode = payload =>
                             payload = sentMode
                               \/ ~(PrintServerSafe(payload) \/ GameActive(payload))
    BY DEF Withheld
  <2>2. CASE Enqueue
    BY <2>1, <2>2, Intervals DEF Enqueue, pushVars
  <2>3. CASE ~PushDue(i)
    <3>1. /\ pc = "polling" /\ ~slow /\ serverMode = lastPushMode /\ ~(pushWall >= i)
      BY <2>1, <2>3 DEF EndPoll, PushDue
    <3>2. sinceSent <= SlowPollInterval
      BY <1>1, <3>1 DEF LoopInv, SlowInv
    <3>3. ASSUME ~setBack, serverMode = payload, payload # sentMode
          PROVE  ~PrintServerSafe(payload) /\ ~GameActive(payload)
      <4>1. lastPushMode # sentMode /\ lastPushMode = payload
        BY <3>1, <3>3
      <4>2. ~PrintServerSafe(payload)
        BY <1>1, <4>1 DEF LoopInv, PushInv
      <4>3. GameActive(payload) => i = PollInterval /\ pushWall >= PollInterval
        BY <1>1, <3>1, <3>3, <4>1, IntervalsTyped DEF LoopInv, PushInv
      <4>4. QED
        BY <3>1, <4>2, <4>3
    <3>4. QED
      BY <3>2, <3>3
  <2>4. QED
    BY <2>1, <2>2, <2>3 DEF EndPoll
<1>2. QED
  BY <1>1, LoopInductive, PTL DEF WithholdsOnlyRepeats, LoopSpec
=============================================================================
