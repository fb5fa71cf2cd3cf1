-------------------------------- MODULE Proxy --------------------------------
(***************************************************************************)
(* The print-server proxy TORN connects to in O-Zone's place               *)
(* (internal/proxy/proxy.go), answering from the store                     *)
(* (internal/cache/cache.go) while games are stored, pruned and lost to    *)
(* crashes there.                                                          *)
(*                                                                         *)
(* A request changes nothing in the store, so one client is followed and   *)
(* the others only take up connections.  A connection that fails, or       *)
(* stalls past a deadline, closes; one that is idle has no deadline.       *)
(***************************************************************************)
EXTENDS Store

CONSTANTS
  MaxConns,    \* maxConns
  MaxOpen      \* bound: connections open

ASSUME ProxyAssumption == MaxConns \in Nat \ {0} /\ MaxOpen \in Nat

VARIABLES
  conns,      \* Server.conns
  starting,   \* other clients' connections accepted whose handler has not run
  closing,    \* connections no longer counted that are yet to be closed
  client,     \* where the handler of the client's connection is
  wanted,     \* the game whose file is to be read (None: no game)
  listed,     \* the games in the last list the client was sent
  gone,       \* history: of those, the ones deleted before or since
  burst       \* history: one was accepted while another was starting or closing

connVars == <<conns, starting, closing, burst>>
clientVars == <<client, wanted, listed, gone>>
proxyVars == <<vars, connVars, clientVars>>

ProxyInit ==
  /\ Init
  /\ conns = 0 /\ starting = 0 /\ closing = 0 /\ burst = FALSE
  /\ client = "closed" /\ wanted = None /\ listed = {} /\ gone = {}
-----------------------------------------------------------------------------
(***************************************************************************)
(* Connections.                                                            *)
(***************************************************************************)

Starting == starting + (IF client = "starting" THEN 1 ELSE 0)

(* Connections open, the other clients' included. *)
Opened == conns + Starting + closing

(* Mutant of Full: one connection too many. *)
FullLate == conns > MaxConns

Full == conns >= MaxConns

(* acceptLoop compares with the connections counted so far; a refused one   *)
(* is closed at once.                                                       *)
Accept ==
  /\ up /\ ~Full /\ Opened < MaxOpen
  /\ \/ client = "closed" /\ client' = "starting" /\ UNCHANGED starting
     \/ starting' = starting + 1 /\ UNCHANGED client
  /\ burst' = (burst \/ Starting + closing > 0)
  /\ UNCHANGED <<vars, conns, closing, wanted, listed, gone>>

(* Mutant of Count: a handler that does not count its connection. *)
CountNot ==
  /\ \/ starting > 0 /\ starting' = starting - 1 /\ UNCHANGED client
     \/ client = "starting" /\ client' = "banner" /\ UNCHANGED starting
  /\ UNCHANGED <<vars, conns, closing, burst, wanted, listed, gone>>

(* The handler's first step. *)
Count ==
  /\ \/ starting > 0 /\ starting' = starting - 1 /\ UNCHANGED client
     \/ client = "starting" /\ client' = "banner" /\ UNCHANGED starting
  /\ conns' = conns + 1
  /\ UNCHANGED <<vars, closing, burst, wanted, listed, gone>>

Counted == client \notin {"closed", "starting"}

(* The handler's end: its connection is no longer counted, and then closed. *)
Uncount == conns' = conns - 1 /\ closing' = closing + 1

OtherLeaves ==
  /\ conns > (IF Counted THEN 1 ELSE 0)
  /\ Uncount
  /\ UNCHANGED <<vars, starting, burst, clientVars>>

(* A write fails or times out, a request stalls, is too large or malformed  *)
(* as a frame, or the client leaves.                                        *)
ClientLeaves ==
  /\ Counted
  /\ Uncount
  /\ client' = "closed" /\ wanted' = None
  /\ UNCHANGED <<vars, starting, burst, listed, gone>>

(* The burst is over when what is open is within bounds again. *)
Close ==
  /\ closing > 0
  /\ closing' = closing - 1
  /\ burst' = (burst /\ Opened - 1 > MaxConns)
  /\ UNCHANGED <<vars, conns, starting, clientVars>>
-----------------------------------------------------------------------------
(***************************************************************************)
(* Requests.                                                               *)
(***************************************************************************)
BannerSent ==
  /\ client = "banner"
  /\ client' = "idle"
  /\ UNCHANGED <<vars, connVars, wanted, listed, gone>>

(* Mutant of Listable: every game known is listed. *)
ListableAll == {n \in Games : meta[n] # None}

(* BuildListResponse *)
Listable == {n \in Games : HasRaw(n)}

(* The index is read under Store.mu, so not between an operation's steps. *)
AskList ==
  /\ client = "idle" /\ Idle
  /\ listed' = Listable
  /\ gone' = Listable \cap deleted
  /\ UNCHANGED <<vars, connVars, client, wanted>>

(* GameRaw, which all, minimal, team and player answer from: the index      *)
(* first, and when Store.mu is released the file.                           *)
AskGame(n) ==
  /\ client = "idle" /\ Idle
  /\ HasRaw(n)
  /\ client' = "read" /\ wanted' = n
  /\ UNCHANGED <<vars, connVars, listed, gone>>

NotInIndex(n) ==
  /\ client = "idle" /\ Idle
  /\ ~HasRaw(n)
  /\ UNCHANGED <<vars, connVars, clientVars>>

Answer(states) ==
  /\ client = "read"
  /\ rawFile[wanted] \in states
  /\ client' = "idle" /\ wanted' = None
  /\ UNCHANGED <<vars, connVars, listed, gone>>

Payload == Answer({"whole", "torn"})

NoFile == Answer({None})

(* What else a client sends (acknowledgements, autoprint, an unknown        *)
(* command, no number) is answered, or not, from nothing.                   *)
ClientStep ==
  \/ BannerSent \/ AskList \/ Payload \/ NoFile
  \/ \E n \in Games : AskGame(n) \/ NotInIndex(n)
-----------------------------------------------------------------------------
(* The store goes on beside it; a process that ends drops every connection. *)
StoreStep ==
  /\ Next
  /\ IF up /\ ~up'
     THEN /\ conns' = 0 /\ starting' = 0 /\ closing' = 0 /\ burst' = FALSE
          /\ client' = "closed" /\ wanted' = None /\ listed' = {} /\ gone' = {}
     ELSE /\ gone' = gone \cup (listed \cap deleted')
          /\ UNCHANGED <<connVars, client, wanted, listed>>

ProxyNext ==
  \/ StoreStep
  \/ Accept \/ Count \/ OtherLeaves \/ ClientLeaves \/ Close
  \/ ClientStep

ProxySpec == ProxyInit /\ [][ProxyNext]_proxyVars
-----------------------------------------------------------------------------
ProxyTypeOK ==
  /\ conns \in Nat /\ starting \in Nat /\ closing \in Nat /\ burst \in BOOLEAN
  /\ client \in {"closed", "starting", "banner", "idle", "read"}
  /\ wanted \in Games \cup {None} /\ listed \subseteq Games /\ gone \subseteq listed
  /\ client = "read" <=> wanted # None
  /\ conns >= (IF Counted THEN 1 ELSE 0)
  /\ up \/ Opened = 0

(* "Advertising one puts a game in TORN's list that answers 'Game not       *)
(* found' when TORN asks for it ... and is polled indefinitely"             *)
(* (BuildListResponse).  A client asking for a game in its list gets it,    *)
(* whole, whatever is stored, pruned or half written between the list, the  *)
(* request, the look in the index and the reading of the file, unless the   *)
(* game was deleted in that time, or half deleted before.                   *)
ListedIsAnswered ==
  /\ client = "idle" /\ Idle => \A n \in listed \ gone : HasRaw(n)
  /\ client = "read" => rawFile[wanted] # "torn" /\ (wanted \in listed \ gone => rawFile[wanted] # None)

(* "maxConns caps concurrent clients": the comparison in acceptLoop and the *)
(* count in handle are made by different goroutines, and a handler gives up *)
(* its count before it closes its connection.  Only a connection accepted   *)
(* between another's accept and count, or its uncount and close, can pass   *)
(* the cap.                                                                 *)
CappedButForBursts == Opened <= MaxConns \/ burst
=============================================================================
