----------------------------- MODULE LibTable ------------------------------
(***************************************************************************)
(* The table of game servers heard on the LAN (internal/ozonelib/table.go) *)
(* and the choices made from it.  An entry is kept per sighting: a server  *)
(* (a site and an arena), the address it announced and the address the     *)
(* announcement came from.  Times are ages, in periods of announcement.    *)
(***************************************************************************)
EXTENDS Naturals, FiniteSets

CONSTANTS
  Servers,     \* the Keys: a site and an arena each
  Addrs,       \* IPv4 addresses
  TTL,         \* entryTTL
  MaxEntries,  \* maxEntries
  None         \* no server, no candidate

(* An entry lives for at least two periods, of two announcements each. *)
ASSUME TableAssumption ==
  /\ TTL \in Nat \ {0, 1} /\ MaxEntries \in Nat \ {0}
  /\ IsFiniteSet(Servers) /\ IsFiniteSet(Addrs)
  /\ None \notin Servers \cup [key : Servers, ip : Addrs]

(* entryKey, and the candidate that is usable *)
Sightings == [key : Servers, ip : Addrs, sender : Addrs]
Usable(c) == c.sender = c.ip
At(k, a) == [key |-> k, ip |-> a, sender |-> a]

(* entry: how long ago it was heard, and how often, where only whether it   *)
(* was heard twice matters.                                                 *)
Entry == [age : 0 .. TTL + 1, packets : 1 .. 2]

Of(table, kept) == [c \in kept |-> table[c]]

(* Mutant of Live: what has lapsed is never dropped. *)
LiveForGood(table) == table

(* expireLocked *)
Live(table) == Of(table, {c \in DOMAIN table : table[c].age <= TTL})

Recorded(table, c) ==
  [d \in DOMAIN table \cup {c} |->
    IF d # c THEN table[d]
    ELSE [age |-> 0, packets |-> IF c \in DOMAIN table THEN 2 ELSE 1]]

(* The entries heard least recently: a map has no order among equals. *)
Oldest(table) ==
  {c \in DOMAIN table : \A d \in DOMAIN table : table[d].age <= table[c].age}

(* Mutant of Observed: nothing is dropped to make room. *)
ObservedUnbounded(table, c) == {Recorded(Live(table), c)}

(* Observe: the tables an announcement may leave. *)
Observed(table, c) ==
  LET r == Recorded(Live(table), c)
  IN  IF Cardinality(DOMAIN r) <= MaxEntries THEN {r}
      ELSE {Of(r, DOMAIN r \ {o}) : o \in Oldest(r)}

(* Selector.matches, of the selector that matches the servers wanted. *)
Matches(wanted, k) == k \in wanted

(* Candidates, usable *)
UsableIn(table, wanted) == {c \in DOMAIN Live(table) : Usable(c) /\ Matches(wanted, c.key)}

(* SelectFrom: the one server that matches, at the one address it has. *)
SelectFrom(table, wanted) ==
  LET cs == UsableIn(table, wanted)
  IN  CASE cs = {} -> [outcome |-> "none", selected |-> None]
        [] Cardinality({c.key : c \in cs}) > 1 -> [outcome |-> "ambiguous", selected |-> None]
        [] Cardinality({c.ip : c \in cs}) > 1 -> [outcome |-> "conflict", selected |-> None]
        [] OTHER -> [outcome |-> "selected", selected |-> CHOOSE c \in cs : TRUE]

(* Moved: where the server pin now is, if that is anywhere but current. *)
Moved(table, pin, current) ==
  LET cs == UsableIn(table, {pin})
  IN  {c.ip : c \in {d \in cs : cs = {d} /\ d.ip # current /\ table[d].packets >= 2}}

(* Mutant of IdentityLost: asked of the latest announcement alone. *)
IdentityLostAtOnce(table, pin, current) ==
  \E c \in UsableIn(table, Servers) : c.ip = current /\ c.key # pin /\ table[c].packets >= 2

(* IdentityLost: the machine at current has become another server. *)
IdentityLost(table, pin, current) ==
  LET cs == {c \in UsableIn(table, Servers) : c.ip = current}
  IN  /\ \A c \in cs : c.key # pin
      /\ \E c \in cs : table[c].packets >= 2
=============================================================================
