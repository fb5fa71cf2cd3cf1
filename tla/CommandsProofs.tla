--------------------------- MODULE CommandsProofs ---------------------------
(***************************************************************************)
(* Proofs about Commands and the results session under it, for every set   *)
(* of games, commands and goroutines, every handshake and every bound on   *)
(* errors.                                                                 *)
(*                                                                         *)
(* The argument about the stream: as long as the handshake of a connection *)
(* was read whole, nothing is owed between requests and exactly the reply  *)
(* to the last one after it, because whatever fails in between closes the  *)
(* connection.  About commands: one goroutine at a time has any, and of    *)
(* what it has left central has no outcome.                                *)
(***************************************************************************)
EXTENDS Commands, SequenceTheorems, WellFoundedInduction, TLAPS

Frame == {Banner, Torn} \cup {Reply(n) : n \in Games \cup {List}}

WalkSet ==
  [kind : Kinds \cup {"none"}, want : Games \cup {List}, todo : SUBSET Games,
   by : Runners \cup {"none", "auto"},
   pc : {"idle", "connect", "dial", "drain", "ask", "read", "push", "next", "done", "deferred",
         "failed"},
   errors : 0 .. MaxErrors - 1, tried : BOOLEAN]

SessionTyped ==
  /\ walk \in WalkSet
  /\ walk.kind = "none" => walk = NoWalk
  /\ gate \in BOOLEAN /\ connected \in BOOLEAN /\ cutShort \in BOOLEAN
  /\ asked \in Nat

(* The connection is the walk's, and open where it is used. *)
OnLine ==
  /\ connected => ~Free /\ walk.tried
  /\ walk.pc \in {"drain", "ask", "read"} => connected
  /\ walk.pc = "dial" => ~connected
  /\ ~connected => owed = <<>>

(* What is owed: at most a handshake, and after a request a reply. *)
Owing ==
  /\ owed \in Seq(Frame)
  /\ walk.pc = "read" => owed # <<>>
  /\ Len(owed) <= Handshake + (IF walk.pc = "read" THEN 1 ELSE 0)

(* With the handshake read, what is owed is what has been asked for. *)
InStep ==
  ~cutShort =>
    /\ walk.pc = "drain" => \A i \in 1 .. Len(owed) : owed[i] = Banner
    /\ walk.pc = "read" => owed = <<Reply(walk.want)>>
    /\ walk.pc \notin {"drain", "read"} => owed = <<>>

(* A walk that has asked with the gate shut reads the gate before it asks   *)
(* again, and so does the next one.                                         *)
ShutOut ==
  /\ gate => asked = 0
  /\ asked # 0 =>
       /\ asked = 1
       /\ \/ walk.pc \in {"idle", "read", "push", "next", "done", "deferred", "failed"}
          \/ walk.pc = "connect" /\ ~connected

(* A walk that has come to games, or to its end, has been on the line. *)
Dialled ==
  ~Free =>
    /\ walk.pc \in {"drain", "ask", "read", "push", "next", "done"} => walk.tried
    /\ Lists(walk.kind) /\ walk.want # List => walk.tried

SInv ==
  /\ SessionTyped /\ OnLine /\ Owing /\ InStep /\ ShutOut /\ Dialled
  /\ FiledAsAsked
-----------------------------------------------------------------------------
(***************************************************************************)
(* The session.                                                            *)
(***************************************************************************)

(* Of games there is a first. *)
LEMMA FirstGame ==
  ASSUME NEW S \in SUBSET Nat, S # {}
  PROVE  (CHOOSE g \in S : \A k \in S : g <= k) \in S
<1> DEFINE R == {p \in Nat \X Nat : p[1] < p[2]}
<1>1. IsWellFoundedOn(R, Nat)
  BY NatLessThanWellFounded DEF OpToRel
<1>2. PICK g \in S : \A y \in S : ~ (<<y, g>> \in R)
  <2> HIDE DEF R
  <2>1. QED
    BY <1>1, WFMin
<1>3. ASSUME NEW k \in S PROVE g <= k
  <2>1. ~ (k < g)
    BY <1>2
  <2>2. QED
    BY <2>1
<1>4. QED
  BY <1>3

LEMMA NoFrames == <<>> \in Seq(Frame) /\ Len(<<>>) = 0
BY EmptySeq

LEMMA SessionStarts == SessionInit => SInv
<1> SUFFICES ASSUME SessionInit PROVE SInv
  OBVIOUS
<1>1. NoWalk \in WalkSet
  <2>1. 0 \in 0 .. MaxErrors - 1
    BY SessionAssumption
  <2>2. QED
    BY <2>1 DEF NoWalk, WalkSet, List
<1>2. /\ walk = NoWalk /\ connected = FALSE /\ owed = <<>> /\ cutShort = FALSE /\ misfiled = {}
      /\ asked = 0 /\ gate \in BOOLEAN /\ walk.kind = "none" /\ walk.pc = "idle"
  BY DEF SessionInit, NoWalk
<1>3. SessionTyped
  BY <1>1, <1>2 DEF SessionTyped
<1>4. Owing
  BY <1>2, NoFrames, SessionAssumption DEF Owing
<1>5. OnLine /\ InStep /\ ShutOut /\ Dialled /\ FiledAsAsked
  BY <1>2 DEF OnLine, InStep, ShutOut, Dialled, FiledAsAsked, Free
<1>6. QED
  BY <1>3, <1>4, <1>5 DEF SInv

(* Where a failed fetch leads. *)
LEMMA WhereFails ==
  ASSUME walk \in WalkSet, NEW counts \in BOOLEAN, Fails(counts)
  PROVE  /\ walk' \in WalkSet
         /\ walk'.kind = walk.kind /\ walk'.want = walk.want /\ walk'.tried = walk.tried
         /\ walk'.by = walk.by
         /\ walk'.pc \in {"failed", "next"}
         /\ walk'.pc = "next" => Lists(walk.kind) /\ walk.want # List
<1>1. MaxErrors \in Nat \ {0} /\ walk.errors \in 0 .. MaxErrors - 1
  BY SessionAssumption DEF WalkSet
<1>2. CASE ~Lists(walk.kind) \/ walk.want = List \/ (counts /\ walk.errors + 1 >= MaxErrors)
  <2>1. walk' = [walk EXCEPT !.pc = "failed"]
    BY <1>2 DEF Fails
  <2>2. QED
    BY <2>1 DEF WalkSet
<1>3. CASE ~(~Lists(walk.kind) \/ walk.want = List \/ (counts /\ walk.errors + 1 >= MaxErrors))
  <2>1. /\ walk' = [walk EXCEPT !.pc = "next", !.errors = IF counts THEN walk.errors + 1 ELSE walk.errors]
        /\ Lists(walk.kind) /\ walk.want # List
    BY <1>3 DEF Fails
  <2>2. (IF counts THEN walk.errors + 1 ELSE walk.errors) \in 0 .. MaxErrors - 1
    BY <1>1, <1>3
  <2>3. QED
    BY <2>1, <2>2 DEF WalkSet
<1>4. QED
  BY <1>2, <1>3

(* A step that stays on one walk, off the stream or leaving it. *)
LEMMA OffStream ==
  ASSUME SInv, ~Free, UNCHANGED <<gate, misfiled, asked>>,
         walk' \in WalkSet, walk'.kind = walk.kind, walk'.tried = walk.tried,
         (walk.pc \notin {"drain", "read"} /\ Unchanged) \/ Retire,
         walk'.pc \notin {"idle", "drain", "ask", "read"},
         walk'.pc = "dial" => ~connected,
         walk'.pc \in {"connect", "dial"} => gate,
         walk'.pc \in {"push", "next", "done"} => walk.tried,
         Lists(walk.kind) /\ walk'.want # List => walk.tried
  PROVE  SInv'
<1>1. SessionTyped'
  BY DEF SInv, SessionTyped, Free, Unchanged, Retire
<1>2. OnLine' /\ Owing' /\ InStep'
  <2>1. CASE walk.pc \notin {"drain", "read"} /\ Unchanged
    BY <2>1 DEF SInv, OnLine, Owing, InStep, Free, Unchanged
  <2>2. CASE Retire
    <3>1. connected' = FALSE /\ owed' = <<>> /\ cutShort' = FALSE
      BY <2>2 DEF Retire
    <3>2. OnLine' /\ InStep'
      BY <3>1 DEF OnLine, InStep
    <3>3. Owing'
      BY <3>1, NoFrames, SessionAssumption DEF Owing
    <3>4. QED
      BY <3>2, <3>3
  <2>3. QED
    BY <2>1, <2>2
<1>3. ShutOut'
  BY DEF SInv, SessionTyped, ShutOut, WalkSet
<1>4. Dialled' /\ FiledAsAsked'
  BY DEF SInv, Dialled, FiledAsAsked, Free
<1>5. QED
  BY <1>1, <1>2, <1>3, <1>4 DEF SInv

(* Who has the print server is somewhere. *)
LEMMA Busy == ASSUME SInv, walk.pc # "idle" PROVE ~Free /\ walk.kind \in Kinds
BY DEF SInv, SessionTyped, Free, NoWalk, WalkSet

(* What is left when a frame has been taken. *)
LEMMA TakesFrame ==
  ASSUME SInv, owed # <<>>
  PROVE  /\ Tail(owed) \in Seq(Frame) /\ Len(Tail(owed)) = Len(owed) - 1 /\ Len(owed) \in Nat \ {0}
         /\ \A i \in 1 .. Len(owed) - 1 : Tail(owed)[i] = owed[i + 1]
         /\ Head(owed) = owed[1] /\ Head(owed) \in Frame
<1>1. owed \in Seq(Frame)
  BY DEF SInv, Owing
<1>2. QED
  BY <1>1, HeadTailProperties, LenProperties, EmptySeq

LEMMA ConnectStep == ASSUME SInv, Connect PROVE SInv'
<1>1. /\ walk.pc = "connect" /\ UNCHANGED <<gate, misfiled, asked>> /\ Unchanged
      /\ ~Free /\ walk \in WalkSet
  BY Busy DEF Connect, SInv, SessionTyped
<1>2. CASE connected /\ walk' = [walk EXCEPT !.pc = "ask"]
  <2>1. /\ walk' \in WalkSet /\ walk'.kind = walk.kind /\ walk'.want = walk.want
        /\ walk'.tried = walk.tried /\ walk'.pc = "ask"
    BY <1>1, <1>2 DEF WalkSet
  <2>2. SessionTyped' /\ OnLine' /\ Owing' /\ InStep'
    BY <1>1, <1>2, <2>1 DEF SInv, SessionTyped, OnLine, Owing, InStep, Free, Unchanged
  <2>3. ShutOut' /\ Dialled' /\ FiledAsAsked'
    BY <1>1, <1>2, <2>1 DEF SInv, OnLine, ShutOut, Dialled, FiledAsAsked, Free
  <2>4. QED
    BY <2>2, <2>3 DEF SInv
<1>3. CASE ~connected /\ ~gate /\ PutOff
  <2>1. /\ walk' \in WalkSet /\ walk'.kind = walk.kind /\ walk'.want = walk.want
        /\ walk'.tried = walk.tried /\ walk'.pc \in {"done", "deferred"}
        /\ walk'.pc = "done" => Caches(walk.kind) /\ walk.want # List
    BY <1>1, <1>3 DEF PutOff, WalkSet
  <2>2. Caches(walk.kind) => Lists(walk.kind)
    BY DEF Caches, Lists
  <2>3. QED
    BY <1>1, <2>1, <2>2, OffStream DEF SInv, Dialled
<1>4. CASE ~connected /\ \/ gate /\ walk' = [walk EXCEPT !.pc = "dial"]
                         \/ walk' = [walk EXCEPT !.pc = "failed"]
  <2>1. /\ walk' \in WalkSet /\ walk'.kind = walk.kind /\ walk'.want = walk.want
        /\ walk'.tried = walk.tried /\ walk'.pc \in {"dial", "failed"}
        /\ walk'.pc = "dial" => gate
    BY <1>1, <1>4 DEF WalkSet
  <2>2. QED
    BY <1>1, <1>4, <2>1, OffStream DEF SInv, Dialled
<1>5. QED
  BY <1>2, <1>3, <1>4 DEF Connect

LEMMA DialConnectsStep == ASSUME SInv, DialConnects PROVE SInv'
<1>1. /\ walk.pc = "dial" /\ UNCHANGED <<gate, misfiled, asked>>
      /\ connected' = TRUE /\ cutShort' = FALSE
      /\ owed' = [i \in 1 .. Handshake |-> Banner]
      /\ walk' = [walk EXCEPT !.pc = "drain", !.tried = TRUE]
      /\ ~Free /\ walk \in WalkSet
  BY Busy DEF DialConnects, SInv, SessionTyped
<1>2. /\ walk' \in WalkSet /\ walk'.kind = walk.kind /\ walk'.want = walk.want
      /\ walk'.tried = TRUE /\ walk'.pc = "drain"
  BY <1>1 DEF WalkSet
<1>3. /\ owed' \in Seq(Frame) /\ Len(owed') = Handshake
      /\ \A i \in 1 .. Len(owed') : owed'[i] = Banner
  <2>1. Handshake \in Nat /\ Banner \in Frame
    BY SessionAssumption DEF Frame
  <2>2. owed' \in [1 .. Handshake -> Frame]
    BY <1>1, <2>1
  <2>3. QED
    BY <1>1, <2>1, <2>2
<1>4. SessionTyped' /\ OnLine' /\ InStep'
  BY <1>1, <1>2, <1>3 DEF SInv, SessionTyped, OnLine, InStep, Free
<1>5. Owing'
  BY <1>2, <1>3, SessionAssumption DEF Owing
<1>6. ShutOut' /\ Dialled' /\ FiledAsAsked'
  BY <1>1, <1>2 DEF SInv, ShutOut, Dialled, FiledAsAsked, Free
<1>7. QED
  BY <1>4, <1>5, <1>6 DEF SInv

LEMMA DialFailsStep == ASSUME SInv, DialFails PROVE SInv'
<1>1. /\ walk.pc = "dial" /\ UNCHANGED <<gate, misfiled, asked>> /\ Unchanged
      /\ ~Free /\ walk \in WalkSet
  BY Busy DEF DialFails, SInv, SessionTyped
<1>2. /\ walk' \in WalkSet /\ walk'.kind = walk.kind /\ walk'.want = walk.want
      /\ walk'.tried = walk.tried
      /\ walk'.pc \in {"failed", "next", "done", "deferred"}
      /\ walk'.pc \in {"next", "done"} => Lists(walk.kind) /\ walk.want # List
  <2>1. CASE Fails(TRUE)
    BY <1>1, <2>1, WhereFails
  <2>2. CASE PutOff
    BY <1>1, <2>2 DEF PutOff, WalkSet, Caches, Lists
  <2>3. CASE walk' = [walk EXCEPT !.pc = "failed"]
    BY <1>1, <2>3 DEF WalkSet
  <2>4. QED
    BY <2>1, <2>2, <2>3 DEF DialFails
<1>3. QED
  BY <1>1, <1>2, OffStream DEF SInv, Dialled

LEMMA DrainStep == ASSUME SInv, Drain PROVE SInv'
<1>1. /\ walk.pc = "drain" /\ UNCHANGED <<gate, misfiled, asked>>
      /\ ~Free /\ walk \in WalkSet /\ connected = TRUE /\ walk.tried = TRUE
  BY Busy DEF Drain, SInv, SessionTyped, OnLine, WalkSet
<1>2. /\ walk' \in {walk, [walk EXCEPT !.pc = "ask"]}
      /\ connected' = connected
  BY DEF Drain, Unchanged
<1>3. /\ walk' \in WalkSet /\ walk'.kind = walk.kind /\ walk'.want = walk.want
      /\ walk'.tried = walk.tried /\ walk'.pc \in {"drain", "ask"}
  BY <1>1, <1>2 DEF WalkSet
<1>4. /\ owed' \in Seq(Frame) /\ Len(owed') <= Handshake
      /\ cutShort' \in BOOLEAN /\ InStep'
  <2>1. owed \in Seq(Frame) /\ Len(owed) <= Handshake /\ Len(owed) \in Nat /\ cutShort \in BOOLEAN
    BY <1>1, LenProperties, SessionAssumption DEF SInv, Owing, SessionTyped
  <2>2. CASE owed = <<>>
    <3>1. /\ walk'.pc = "ask" /\ owed' = <<>> /\ cutShort' = cutShort
      BY <1>1, <2>2 DEF Drain, Unchanged, WalkSet
    <3>2. QED
      BY <2>1, <2>2, <3>1 DEF InStep
  <2>3. CASE owed # <<>> /\ owed' = Tail(owed) /\ UNCHANGED <<walk, connected, cutShort>>
    <3>1. /\ Tail(owed) \in Seq(Frame) /\ Len(Tail(owed)) = Len(owed) - 1
          /\ \A i \in 1 .. Len(owed) - 1 : Tail(owed)[i] = owed[i + 1]
      BY <2>3, TakesFrame
    <3>2. \A i \in 1 .. Len(owed) - 1 : i + 1 \in 1 .. Len(owed)
      BY <2>1
    <3>3. Len(owed') <= Handshake
      BY <2>1, <2>3, <3>1, SessionAssumption
    <3>4. InStep'
      BY <1>1, <2>3, <3>1, <3>2 DEF SInv, InStep
    <3>5. QED
      BY <2>1, <2>3, <3>1, <3>3, <3>4
  <2>4. CASE owed # <<>> /\ owed' \in {owed, <<Torn>> \o Tail(owed)} /\ cutShort' = TRUE
    <3>1. Tail(owed) \in Seq(Frame) /\ Len(Tail(owed)) = Len(owed) - 1
      BY <2>4, TakesFrame
    <3>2. <<Torn>> \in Seq(Frame) /\ Len(<<Torn>>) = 1
      BY DEF Frame
    <3>3. <<Torn>> \o Tail(owed) \in Seq(Frame) /\ Len(<<Torn>> \o Tail(owed)) = Len(owed)
      BY <2>1, <3>1, <3>2, ConcatProperties
    <3>4. QED
      BY <2>1, <2>4, <3>3 DEF InStep
  <2>5. QED
    BY <2>2, <2>3, <2>4 DEF Drain
<1>5. SessionTyped' /\ OnLine'
  BY <1>1, <1>2, <1>3, <1>4 DEF SInv, SessionTyped, OnLine, Free
<1>6. Owing'
  BY <1>3, <1>4, SessionAssumption, LenProperties DEF Owing
<1>7. ShutOut' /\ Dialled' /\ FiledAsAsked'
  BY <1>1, <1>3 DEF SInv, ShutOut, Dialled, FiledAsAsked, Free
<1>8. QED
  BY <1>4, <1>5, <1>6, <1>7 DEF SInv

(* send: the one place where asked grows. *)
LEMMA AskStep == ASSUME SInv, Ask PROVE SInv'
<1>1. /\ walk.pc = "ask" /\ UNCHANGED <<gate, connected, cutShort, misfiled>>
      /\ owed' = Append(owed, Reply(walk.want))
      /\ walk' = [walk EXCEPT !.pc = "read"]
      /\ asked' = IF gate THEN 0 ELSE asked + 1
      /\ ~Free /\ walk \in WalkSet /\ connected = TRUE
  BY Busy DEF Ask, SInv, SessionTyped, OnLine
<1>2. /\ walk' \in WalkSet /\ walk'.kind = walk.kind /\ walk'.want = walk.want
      /\ walk'.tried = walk.tried /\ walk'.pc = "read" /\ walk.want \in Games \cup {List}
  BY <1>1 DEF WalkSet
<1>3. /\ owed \in Seq(Frame) /\ Len(owed) \in Nat /\ Len(owed) <= Handshake
      /\ Reply(walk.want) \in Frame
  BY <1>1, <1>2, LenProperties, SessionAssumption DEF SInv, Owing, Frame
<1>4. owed' \in Seq(Frame) /\ Len(owed') = Len(owed) + 1
  BY <1>1, <1>3, AppendProperties
<1>5. Owing'
  BY <1>2, <1>3, <1>4, EmptySeq, SessionAssumption DEF Owing
<1>6. InStep'
  <2>1. owed = <<>> => owed' = <<Reply(walk.want)>>
    BY <1>1, <1>3
  <2>2. QED
    BY <1>1, <1>2, <2>1 DEF SInv, InStep
<1>7. asked = 0
  BY <1>1 DEF SInv, ShutOut
<1>8. SessionTyped' /\ OnLine' /\ ShutOut' /\ Dialled' /\ FiledAsAsked'
  BY <1>1, <1>2, <1>7
     DEF SInv, SessionTyped, OnLine, ShutOut, Dialled, FiledAsAsked, Free
<1>9. QED
  BY <1>5, <1>6, <1>8 DEF SInv

(* A failed read, and another game's payload, close the connection. *)
LEMMA RetireStep == ASSUME SInv, ReadFails \/ Mismatch PROVE SInv'
<1>1. /\ walk.pc \in {"ask", "read"} /\ UNCHANGED <<gate, misfiled, asked>> /\ Retire
      /\ Fails(TRUE) /\ ~Free /\ walk \in WalkSet
  BY Busy DEF ReadFails, Mismatch, AfterReadError, SInv, SessionTyped
<1>2. /\ walk' \in WalkSet /\ walk'.kind = walk.kind /\ walk'.want = walk.want
      /\ walk'.tried = walk.tried
      /\ walk'.pc \in {"failed", "next"}
      /\ walk'.pc = "next" => Lists(walk.kind) /\ walk.want # List
  BY <1>1, WhereFails
<1>3. QED
  BY <1>1, <1>2, OffStream DEF SInv, Dialled

(* A frame is read and taken for what was asked. *)
LEMMA ReadStep ==
  ASSUME SInv, walk.pc = "read", owed' = Tail(owed), UNCHANGED <<gate, connected, cutShort, asked>>,
         walk' \in WalkSet, walk'.kind = walk.kind, walk'.tried = walk.tried,
         walk'.want = walk.want, walk'.pc \in {"next", "push", "failed"},
         misfiled' = misfiled
  PROVE  SInv'
<1>1. ~Free /\ walk.tried = TRUE /\ connected = TRUE /\ owed # <<>>
  BY Busy DEF SInv, SessionTyped, OnLine, Owing, WalkSet
<1>2. Tail(owed) \in Seq(Frame) /\ Len(Tail(owed)) = Len(owed) - 1 /\ Len(owed) \in Nat \ {0}
  BY <1>1, TakesFrame
<1>3. Owing'
  BY <1>2, SessionAssumption DEF SInv, Owing
<1>4. InStep'
  BY DEF SInv, InStep
<1>5. SessionTyped' /\ OnLine' /\ ShutOut' /\ Dialled' /\ FiledAsAsked'
  BY <1>1 DEF SInv, SessionTyped, OnLine, ShutOut, Dialled, FiledAsAsked, Free
<1>6. QED
  BY <1>3, <1>4, <1>5 DEF SInv

LEMMA ReadListStep == ASSUME SInv, ReadList PROVE SInv'
<1>1. /\ walk.want = List /\ walk.pc = "read" /\ owed' = Tail(owed)
      /\ UNCHANGED <<gate, connected, cutShort, misfiled, asked>> /\ walk \in WalkSet
  BY DEF ReadList, Reads, SInv, SessionTyped
<1>2. PICK todo \in SUBSET Games : walk' = [walk EXCEPT !.pc = "next", !.todo = todo]
  BY DEF ReadList
<1>3. /\ walk' \in WalkSet /\ walk'.kind = walk.kind /\ walk'.want = walk.want
      /\ walk'.tried = walk.tried /\ walk'.pc = "next"
  BY <1>1, <1>2 DEF WalkSet
<1>4. QED
  BY <1>1, <1>3, ReadStep

(* A payload that is filed is the one asked for: it says so, or nothing     *)
(* else can be owed.                                                        *)
LEMMA ReadGameStep == ASSUME SInv, ReadGame PROVE SInv'
<1>1. /\ walk.want # List /\ walk.pc = "read" /\ owed' = Tail(owed) /\ Head(owed).kind = "reply"
      /\ UNCHANGED <<gate, connected, cutShort, asked>>
      /\ walk' = [walk EXCEPT !.pc = IF Caches(walk.kind) THEN "next" ELSE "push", !.errors = 0]
      /\ walk \in WalkSet
  BY DEF ReadGame, Reads, SInv, SessionTyped
<1>2. PICK named \in BOOLEAN :
        /\ ~Rejects(Head(owed).game, named)
        /\ misfiled' = IF FiledWrong(Head(owed).game, named) /\ (named \/ ~cutShort)
                       THEN misfiled \cup {walk.want} ELSE misfiled
  BY DEF ReadGame
<1>3. named \/ ~cutShort => Head(owed).game = walk.want
  <2>1. CASE named
    BY <1>2, <2>1 DEF Rejects
  <2>2. CASE ~cutShort
    <3>1. owed = <<Reply(walk.want)>>
      BY <1>1, <2>2 DEF SInv, InStep
    <3>2. QED
      BY <3>1 DEF Reply
  <2>3. QED
    BY <2>1, <2>2
<1>4. misfiled' = misfiled
  BY <1>2, <1>3 DEF FiledWrong, CachedAs
<1>5. /\ walk' \in WalkSet /\ walk'.kind = walk.kind /\ walk'.want = walk.want
      /\ walk'.tried = walk.tried /\ walk'.pc \in {"next", "push"}
  <2>1. 0 \in 0 .. MaxErrors - 1
    BY SessionAssumption
  <2>2. QED
    BY <1>1, <2>1 DEF WalkSet
<1>6. QED
  BY <1>1, <1>4, <1>5, ReadStep

LEMMA NotGameStep == ASSUME SInv, NotGame PROVE SInv'
<1>1. /\ walk.want # List /\ walk.pc = "read" /\ owed' = Tail(owed) /\ Fails(FALSE)
      /\ UNCHANGED <<gate, connected, cutShort, misfiled, asked>> /\ walk \in WalkSet
  BY DEF NotGame, Reads, SInv, SessionTyped
<1>2. /\ walk' \in WalkSet /\ walk'.kind = walk.kind /\ walk'.want = walk.want
      /\ walk'.tried = walk.tried /\ walk'.pc \in {"failed", "next"}
  BY <1>1, WhereFails
<1>3. QED
  BY <1>1, <1>2, ReadStep

(* The steps between two games. *)
LEMMA BetweenStep == ASSUME SInv, Push \/ NextGame \/ NoneLeft PROVE SInv'
<1>1. /\ walk.pc \in {"push", "next"} /\ UNCHANGED <<gate, misfiled, asked>> /\ Unchanged
      /\ ~Free /\ walk \in WalkSet /\ walk.tried = TRUE
  BY Busy DEF Push, NextGame, NoneLeft, SInv, SessionTyped, Dialled, WalkSet
<1>2. CASE Push \/ NoneLeft
  <2>1. /\ walk' \in WalkSet /\ walk'.kind = walk.kind /\ walk'.want = walk.want
        /\ walk'.tried = walk.tried /\ walk'.pc \in {"next", "done", "failed"}
    BY <1>1, <1>2 DEF Push, NoneLeft, WalkSet
  <2>2. QED
    BY <1>1, <2>1, OffStream
<1>3. CASE NextGame
  <2> DEFINE n == CHOOSE g \in walk.todo : \A k \in walk.todo : g <= k
  <2>1. n \in Games
    <3>1. walk.todo \in SUBSET Nat /\ walk.todo # {} /\ walk.todo \subseteq Games
      BY <1>1, <1>3, SessionAssumption DEF NextGame, WalkSet
    <3>2. QED
      BY <3>1, FirstGame
  <2>2. \/ gate /\ walk' = [[walk EXCEPT !.todo = @ \ {n}] EXCEPT !.pc = "connect", !.want = n]
        \/ walk' = [[walk EXCEPT !.todo = @ \ {n}]
                      EXCEPT !.pc = IF Caches(walk.kind) THEN "done" ELSE "deferred"]
    BY <1>3 DEF NextGame, MayGoOn
  <2> HIDE DEF n
  <2>3. /\ walk' \in WalkSet /\ walk'.kind = walk.kind
        /\ walk'.tried = walk.tried /\ walk'.pc \in {"connect", "done", "deferred"}
        /\ walk'.pc = "connect" => gate
    BY <1>1, <2>1, <2>2, ZenonT(30) DEF WalkSet
  <2>4. QED
    BY <1>1, <2>3, OffStream
<1>4. QED
  BY <1>2, <1>3

LEMMA WalkKeeps == ASSUME SInv, WalkStep PROVE SInv'
BY ConnectStep, DialConnectsStep, DialFailsStep, DrainStep, AskStep, RetireStep, ReadListStep,
   ReadGameStep, NotGameStep, BetweenStep DEF WalkStep

(* Work that finds resultsMu free. *)
LEMMA WalkStarts ==
  ASSUME SInv, Free, NEW kind \in Kinds, NEW by \in Runners \cup {"auto"},
         NEW n \in Games \cup {List}, Lists(kind) => n = List,
         walk' = Walk(kind, by, n),
         UNCHANGED <<gate, connected, owed, cutShort, misfiled, asked>>
  PROVE  SInv'
<1>1. /\ walk = NoWalk /\ walk.pc = "idle" /\ connected = FALSE
  BY DEF SInv, SessionTyped, OnLine, Free, NoWalk
<1>2. /\ walk' \in WalkSet /\ walk'.kind = kind /\ walk'.want = n /\ walk'.tried = FALSE
      /\ walk'.pc = "connect" /\ kind # "none"
  <2>1. 0 \in 0 .. MaxErrors - 1
    BY SessionAssumption
  <2>2. QED
    BY <2>1 DEF Walk, NoWalk, WalkSet, Kinds
<1>3. Owing' /\ InStep'
  BY <1>1, <1>2 DEF SInv, Owing, InStep
<1>4. SessionTyped' /\ OnLine' /\ ShutOut' /\ Dialled' /\ FiledAsAsked'
  BY <1>1, <1>2 DEF SInv, SessionTyped, OnLine, ShutOut, Dialled, FiledAsAsked, Free
<1>5. QED
  BY <1>3, <1>4 DEF SInv

(* The connection and resultsMu are let go. *)
LEMMA WalkEnds ==
  ASSUME SInv, walk' = NoWalk, Retire, misfiled' = misfiled,
         UNCHANGED <<gate, asked>> \/ (gate' = FALSE /\ asked' = 0)
  PROVE  SInv'
<1>1. NoWalk \in WalkSet /\ walk'.kind = "none" /\ walk'.pc = "idle"
  <2>1. 0 \in 0 .. MaxErrors - 1
    BY SessionAssumption
  <2>2. QED
    BY <2>1 DEF NoWalk, WalkSet, List
<1>2. connected' = FALSE /\ owed' = <<>> /\ cutShort' = FALSE
  BY DEF Retire
<1>3. Owing'
  BY <1>1, <1>2, NoFrames, SessionAssumption DEF Owing
<1>4. gate' \in BOOLEAN /\ asked' \in Nat /\ ShutOut'
  <2>1. CASE UNCHANGED <<gate, asked>>
    BY <1>1, <2>1 DEF SInv, SessionTyped, ShutOut
  <2>2. CASE gate' = FALSE /\ asked' = 0
    BY <2>2 DEF ShutOut
  <2>3. QED
    BY <2>1, <2>2
<1>5. SessionTyped' /\ OnLine' /\ InStep' /\ Dialled' /\ FiledAsAsked'
  BY <1>1, <1>2, <1>4 DEF SInv, SessionTyped, OnLine, InStep, Dialled, FiledAsAsked, Free
<1>6. QED
  BY <1>3, <1>4, <1>5 DEF SInv

LEMMA GateKeeps ==
  ASSUME SInv, gate' = ~gate, asked' = 0, UNCHANGED <<walk, connected, owed, cutShort, misfiled>>
  PROVE  SInv'
<1>1. SessionTyped' /\ OnLine' /\ Owing' /\ InStep'
  BY DEF SInv, SessionTyped, OnLine, Owing, InStep, Free
<1>2. ShutOut' /\ Dialled' /\ FiledAsAsked'
  BY DEF SInv, ShutOut, Dialled, FiledAsAsked, Free
<1>3. QED
  BY <1>1, <1>2 DEF SInv

(* What a walk comes to. *)
LEMMA Outcomes ==
  ASSUME SInv, Ended
  PROVE  /\ Outcome \in {"done", "deferred", "failed"} /\ walk.tried \in BOOLEAN
         /\ Outcome = "done" => walk.tried
<1>1. walk \in WalkSet /\ ~Free
  BY Busy DEF Ended, SInv, SessionTyped
<1>2. Caches(walk.kind) => Lists(walk.kind)
  BY DEF Caches, Lists
<1>3. QED
  BY <1>1, <1>2 DEF SInv, Dialled, Ended, Outcome, WalkSet
-----------------------------------------------------------------------------
(***************************************************************************)
(* The commands.                                                           *)
(***************************************************************************)
RunnerSet ==
  [pc : {"idle", "fetch", "next", "lock", "walk", "ack"}, batch : SUBSET Ids,
   cmd : Ids \cup {"none"}, tried : BOOLEAN, status : {"none", "done", "deferred", "failed"}]

CommandsTyped ==
  /\ issued \subseteq Ids /\ queue \subseteq issued /\ reported \subseteq issued
  /\ cmdBusy \in BOOLEAN /\ stopping \in BOOLEAN /\ store \in BOOLEAN
  /\ runner \in [Runners -> RunnerSet]

(* One goroutine works, while cmdBusy is set; the others have nothing. *)
OneRuns ==
  \A r \in Runners :
    /\ runner[r].pc = "idle" => runner[r] = NoRunner
    /\ runner[r].pc # "idle" => cmdBusy /\ \A s \in Runners \ {r} : runner[s].pc = "idle"

(* What a goroutine has at each point: its batch, and the command it is at, *)
(* are commands given whose outcome central has not; and a results command  *)
(* it found done has been on the line, or had nothing to do there.          *)
AtHand(x) ==
  /\ x.batch \subseteq issued /\ x.batch \cap reported = {}
  /\ x.pc \in {"fetch", "next"} => x.cmd = "none"
  /\ x.pc \in {"lock", "walk", "ack"} => x.cmd \in issued \ x.batch
  /\ x.pc \in {"lock", "walk"} => x.cmd \notin reported /\ IsResults(x.cmd)
  /\ x.pc = "ack" /\ IsResults(x.cmd) /\ x.status = "done" =>
       x.tried \/ (x.cmd = "resync" /\ ~store)

CInv ==
  /\ SInv
  /\ CommandsTyped
  /\ queue \cap reported = {}
  /\ OneRuns
  /\ \A r \in Runners : AtHand(runner[r])

LEMMA Idles == NoRunner \in RunnerSet /\ NoRunner.pc = "idle" /\ NoRunner.batch = {}
BY DEF NoRunner, RunnerSet

LEMMA Begins == Init => CInv
<1> SUFFICES ASSUME Init PROVE CInv
  OBVIOUS
<1>1. SInv
  BY SessionStarts DEF Init
<1>2. /\ issued = {} /\ queue = {} /\ reported = {} /\ cmdBusy = FALSE /\ stopping = FALSE /\ store \in BOOLEAN
      /\ runner = [r \in Runners |-> NoRunner]
  BY DEF Init
<1>3. CommandsTyped
  BY <1>2, Idles DEF CommandsTyped
<1>4. OneRuns /\ \A r \in Runners : AtHand(runner[r])
  BY <1>2, Idles DEF OneRuns, AtHand
<1>5. QED
  BY <1>1, <1>2, <1>3, <1>4 DEF CInv

(* The goroutine that works comes to x, and central to know what it says. *)
LEMMA RunnerMoves ==
  ASSUME CInv, NEW r \in Runners, NEW x \in RunnerSet,
         runner' = [runner EXCEPT ![r] = x],
         SInv', issued' = issued, stopping' \in BOOLEAN, store' = store,
         \A s \in Runners \ {r} : runner[s].pc = "idle",
         cmdBusy' \in BOOLEAN, x.pc = "idle" => x = NoRunner, x.pc # "idle" => cmdBusy',
         queue' \subseteq queue, reported' \subseteq issued, queue' \cap reported' = {},
         AtHand(x)'
  PROVE  CInv'
<1>1. runner' \in [Runners -> RunnerSet] /\ runner'[r] = x
      /\ \A s \in Runners \ {r} : runner'[s] = runner[s]
  BY DEF CInv, CommandsTyped
<1>2. CommandsTyped'
  BY <1>1 DEF CInv, CommandsTyped
<1>3. \A s \in Runners \ {r} : runner'[s] = NoRunner
  BY <1>1 DEF CInv, OneRuns
<1>4. OneRuns'
  BY <1>1, <1>3, Idles DEF OneRuns
<1>5. \A s \in Runners : AtHand(runner[s])'
  <2>1. SUFFICES ASSUME NEW s \in Runners \ {r} PROVE AtHand(runner[s])'
    BY <1>1 DEF AtHand
  <2>2. runner'[s] = NoRunner
    BY <1>3
  <2>3. QED
    BY <2>2, Idles DEF AtHand
<1>6. QED
  BY <1>2, <1>4, <1>5 DEF CInv

(* The session is none of a command's business here. *)
LEMMA SessionOnly ==
  ASSUME CInv, SInv', UNCHANGED <<centralVars, agentVars>>
  PROVE  CInv'
BY DEF CInv, CommandsTyped, OneRuns, AtHand, centralVars, agentVars

LEMMA IssueStep == ASSUME CInv, NEW c \in Ids, Issue(c) PROVE CInv'
<1>1. /\ c \notin issued /\ issued' = issued \cup {c} /\ queue' = queue \cup {c}
      /\ UNCHANGED <<gate, sessionVars, reported, agentVars>>
  BY DEF Issue
<1>2. SInv'
  BY <1>1 DEF CInv, SInv, SessionTyped, OnLine, Owing, InStep, ShutOut, Dialled, FiledAsAsked,
              Free, sessionVars
<1>3. CommandsTyped' /\ OneRuns' /\ queue' \cap reported' = {}
  BY <1>1 DEF CInv, CommandsTyped, OneRuns, agentVars
<1>4. \A r \in Runners : AtHand(runner[r])'
  BY <1>1 DEF CInv, AtHand, agentVars
<1>5. QED
  BY <1>2, <1>3, <1>4 DEF CInv

(* One that works is the only one. *)
LEMMA Alone ==
  ASSUME CInv, NEW r \in Runners, runner[r].pc # "idle"
  PROVE  /\ cmdBusy = TRUE /\ \A s \in Runners \ {r} : runner[s].pc = "idle"
         /\ runner[r] \in RunnerSet /\ AtHand(runner[r])
         /\ queue \cap reported = {} /\ reported \subseteq issued /\ queue \subseteq issued
         /\ issued \subseteq Ids /\ stopping \in BOOLEAN
BY DEF CInv, CommandsTyped, OneRuns

(* What leaves the session and central's commands alone. *)
LEMMA Unasked ==
  ASSUME CInv, UNCHANGED <<gate, sessionVars>>
  PROVE  SInv'
BY DEF CInv, SInv, SessionTyped, OnLine, Owing, InStep, ShutOut, Dialled, FiledAsAsked,
       Free, sessionVars

(* A run begins when none is under way, with nothing; it fetches the queue; *)
(* and it ends.                                                             *)
LEMMA RunStep ==
  ASSUME CInv, NEW r \in Runners, PollCommands(r) \/ Fetch(r) \/ FetchFails(r) \/ BatchDone(r)
  PROVE  CInv'
<1>1. /\ SInv' /\ UNCHANGED <<issued, queue, reported, stopping, store>>
  BY Unasked DEF PollCommands, Fetch, FetchFails, BatchDone, centralVars
<1>2. CASE PollCommands(r)
  <2>1. ~cmdBusy /\ cmdBusy' = TRUE /\ runner' = [runner EXCEPT ![r].pc = "fetch"]
    BY <1>2 DEF PollCommands, MayStart
  <2>2. \A s \in Runners : runner[s].pc = "idle" /\ runner[s] = NoRunner
    BY <2>1 DEF CInv, OneRuns
  <2> DEFINE x == [NoRunner EXCEPT !.pc = "fetch"]
  <2>3. runner' = [runner EXCEPT ![r] = x]
    BY <2>1, <2>2
  <2>4. x \in RunnerSet /\ x.pc = "fetch" /\ x.batch = {} /\ x.cmd = "none"
    BY DEF NoRunner, RunnerSet
  <2> HIDE DEF x
  <2>5. AtHand(x)'
    BY <2>4 DEF AtHand
  <2>6. QED
    BY <1>1, <2>1, <2>2, <2>3, <2>4, <2>5, RunnerMoves DEF CInv, CommandsTyped
<1>3. CASE Fetch(r)
  <2>1. /\ runner[r].pc = "fetch" /\ cmdBusy' = cmdBusy
        /\ runner' = [runner EXCEPT ![r] = [runner[r] EXCEPT !.pc = "next", !.batch = queue]]
    BY <1>3 DEF Fetch
  <2>2. /\ runner[r] \in RunnerSet /\ runner[r].cmd = "none" /\ queue \in SUBSET Ids
        /\ cmdBusy = TRUE /\ \A s \in Runners \ {r} : runner[s].pc = "idle"
        /\ queue \cap reported = {} /\ queue \subseteq issued /\ reported \subseteq issued
        /\ stopping \in BOOLEAN
    BY <2>1, Alone DEF AtHand
  <2>3. ASSUME NEW x, x = [runner[r] EXCEPT !.pc = "next", !.batch = queue] PROVE CInv'
    <3>1. x \in RunnerSet /\ x.pc = "next" /\ x.batch = queue /\ x.cmd = "none"
      BY <2>2, <2>3 DEF RunnerSet
    <3>2. AtHand(x)'
      BY <1>1, <2>2, <3>1 DEF AtHand
    <3>3. runner' = [runner EXCEPT ![r] = x]
      BY <2>1, <2>3
    <3>4. QED
      BY <1>1, <2>1, <2>2, <3>1, <3>2, <3>3, RunnerMoves
  <2>4. QED
    BY <2>3
<1>4. CASE FetchFails(r) \/ BatchDone(r)
  <2>1. runner[r].pc # "idle" /\ runner' = [runner EXCEPT ![r] = NoRunner] /\ cmdBusy' = FALSE
    BY <1>4 DEF FetchFails, BatchDone, RunEnds
  <2>2. AtHand(NoRunner)'
    BY Idles DEF AtHand
  <2>3. QED
    BY <1>1, <2>1, <2>2, Idles, Alone, RunnerMoves
<1>5. QED
  BY <1>2, <1>3, <1>4

(* A command of the batch is taken up, or put off. *)
LEMMA TakeUpStep ==
  ASSUME CInv, NEW r \in Runners, NEW c \in Ids, Defer(r, c) \/ RunResults(r, c) \/ RunLocal(r, c)
         \/ ResyncNothing(r, c)
  PROVE  CInv'
<1>1. /\ SInv' /\ UNCHANGED <<issued, queue, reported, stopping, cmdBusy, store>>
      /\ runner[r].pc = "next" /\ c \in runner[r].batch
  BY Unasked DEF Defer, RunResults, RunLocal, ResyncNothing, centralVars
<1>2. /\ runner[r] \in RunnerSet /\ AtHand(runner[r]) /\ cmdBusy = TRUE /\ stopping \in BOOLEAN
      /\ \A s \in Runners \ {r} : runner[s].pc = "idle"
      /\ queue \cap reported = {} /\ reported \subseteq issued
  BY <1>1, Alone
<1>3. c \in issued /\ c \notin reported /\ runner[r].cmd = "none" /\ issued \subseteq Ids
  BY <1>1, <1>2 DEF AtHand, CInv, CommandsTyped
<1>4. ASSUME NEW x \in RunnerSet, runner' = [runner EXCEPT ![r] = x], x.pc # "idle",
             x.batch = runner[r].batch \ {c},
             \/ x.pc = "next" /\ x.cmd = "none"
             \/ x.pc = "lock" /\ x.cmd = c /\ IsResults(c)
             \/ x.pc = "ack" /\ x.cmd = c /\ (IsResults(c) => c = "resync" /\ ~store)
      PROVE  CInv'
  <2>1. AtHand(x)'
    BY <1>1, <1>2, <1>3, <1>4 DEF AtHand
  <2>2. QED
    BY <1>1, <1>2, <1>4, <2>1, RunnerMoves
<1>5. CASE Defer(r, c)
  <2> DEFINE x == [runner[r] EXCEPT !.batch = @ \ {c}]
  <2>1. runner' = [runner EXCEPT ![r] = x]
    BY <1>5 DEF Defer
  <2>2. /\ x \in RunnerSet /\ x.pc = "next" /\ x.batch = runner[r].batch \ {c} /\ x.cmd = "none"
    BY <1>1, <1>2, <1>3 DEF RunnerSet
  <2> HIDE DEF x
  <2>3. QED
    BY <1>4, <2>1, <2>2
<1>6. ASSUME NEW pc \in {"lock", "ack"}, NEW status \in {"none", "done"}, To(r, c, pc, status),
             pc = "lock" => IsResults(c), pc = "ack" /\ IsResults(c) => c = "resync" /\ ~store
      PROVE  CInv'
  <2> DEFINE x == [pc |-> pc, batch |-> runner[r].batch \ {c}, cmd |-> c, tried |-> FALSE,
                   status |-> status]
  <2>1. runner' = [runner EXCEPT ![r] = x]
    BY <1>2, <1>6 DEF To, RunnerSet
  <2>2. /\ x \in RunnerSet /\ x.pc = pc /\ x.batch = runner[r].batch \ {c} /\ x.cmd = c
    <3>1. runner[r].batch \ {c} \in SUBSET Ids
      BY <1>2 DEF RunnerSet
    <3>2. QED
      BY <3>1, <1>6 DEF RunnerSet
  <2> HIDE DEF x
  <2>3. QED
    BY <1>4, <1>6, <2>1, <2>2
<1>7. QED
  BY <1>5, <1>6 DEF Defer, RunResults, RunLocal, ResyncNothing

(* A results command waits, has the print server, and ends; or is put off   *)
(* while it waits.                                                          *)
LEMMA ResultsStep ==
  ASSUME CInv, NEW r \in Runners, ResyncDeferred(r) \/ Start(r) \/ CommandEnds(r)
  PROVE  CInv'
<1>1. /\ UNCHANGED <<issued, queue, reported, stopping, cmdBusy, store>>
      /\ runner[r].pc \in {"lock", "walk"}
  BY DEF ResyncDeferred, Start, CommandEnds, centralVars
<1>2. /\ runner[r] \in RunnerSet /\ AtHand(runner[r]) /\ cmdBusy = TRUE /\ stopping \in BOOLEAN
      /\ \A s \in Runners \ {r} : runner[s].pc = "idle"
      /\ queue \cap reported = {} /\ reported \subseteq issued
  BY <1>1, Alone
<1>3. ASSUME SInv', NEW x \in RunnerSet, runner' = [runner EXCEPT ![r] = x],
             x.batch = runner[r].batch, x.cmd = runner[r].cmd,
             \/ x.pc = "walk"
             \/ x.pc = "ack" /\ (x.status = "done" => x.tried)
      PROVE  CInv'
  <2>1. AtHand(x)'
    BY <1>1, <1>2, <1>3 DEF AtHand
  <2>2. QED
    BY <1>1, <1>2, <1>3, <2>1, RunnerMoves
<1>4. CASE ResyncDeferred(r)
  <2>1. SInv'
    BY <1>4, Unasked DEF ResyncDeferred
  <2> DEFINE x == [runner[r] EXCEPT !.pc = "ack", !.status = "deferred"]
  <2>2. runner' = [runner EXCEPT ![r] = x]
    BY <1>4 DEF ResyncDeferred
  <2>3. /\ x \in RunnerSet /\ x.pc = "ack" /\ x.batch = runner[r].batch /\ x.cmd = runner[r].cmd
        /\ x.status = "deferred"
    BY <1>2 DEF RunnerSet
  <2> HIDE DEF x
  <2>4. QED
    BY <1>3, <2>1, <2>2, <2>3
<1>5. CASE Start(r)
  <2>1. /\ runner[r].pc = "lock" /\ Free /\ runner' = [runner EXCEPT ![r].pc = "walk"]
        /\ UNCHANGED <<gate, connected, owed, cutShort, misfiled, asked>>
    BY <1>5 DEF Start, Acquire
  <2>2. PICK n \in IF runner[r].cmd = "refetch" THEN Games ELSE {List} :
          walk' = Walk(runner[r].cmd, r, n)
    BY <1>5 DEF Start, Acquire
  <2>3. IsResults(runner[r].cmd)
    BY <1>2, <2>1 DEF AtHand
  <2>4. /\ runner[r].cmd \in Kinds /\ n \in Games \cup {List}
        /\ Lists(runner[r].cmd) => n = List
    BY <2>2, <2>3 DEF IsResults, Kinds, Lists
  <2>5. SInv'
    BY <2>1, <2>2, <2>4, WalkStarts DEF CInv
  <2> DEFINE x == [runner[r] EXCEPT !.pc = "walk"]
  <2>6. runner' = [runner EXCEPT ![r] = x]
    BY <2>1
  <2>7. x \in RunnerSet /\ x.pc = "walk" /\ x.batch = runner[r].batch /\ x.cmd = runner[r].cmd
    BY <1>2 DEF RunnerSet
  <2> HIDE DEF x
  <2>8. QED
    BY <1>3, <2>5, <2>6, <2>7
<1>6. CASE CommandEnds(r)
  <2>1. Ended /\ EndWalk /\ UNCHANGED <<gate, misfiled, asked>>
    BY <1>6 DEF CommandEnds
  <2>2. SInv'
    BY <2>1, WalkEnds DEF EndWalk, CInv
  <2>3. /\ Outcome \in {"done", "deferred", "failed"} /\ walk.tried \in BOOLEAN
        /\ Outcome = "done" => walk.tried
    BY <2>1, Outcomes DEF CInv
  <2> DEFINE x == [runner[r] EXCEPT !.pc = "ack", !.status = Outcome, !.tried = walk.tried]
  <2>4. runner' = [runner EXCEPT ![r] = x]
    BY <1>6 DEF CommandEnds
  <2>5. /\ x \in RunnerSet /\ x.pc = "ack" /\ x.batch = runner[r].batch /\ x.cmd = runner[r].cmd
        /\ x.status = Outcome /\ x.tried = walk.tried
    BY <1>2, <2>3 DEF RunnerSet
  <2> HIDE DEF x
  <2>6. QED
    BY <1>3, <2>2, <2>3, <2>4, <2>5
<1>7. QED
  BY <1>4, <1>5, <1>6

(* Central is told, or is not, and the goroutine goes on or ends. *)
LEMMA AckStep ==
  ASSUME CInv, NEW r \in Runners, Ack(r) \/ AckFails(r)
  PROVE  CInv'
<1>1. /\ SInv' /\ issued' = issued /\ store' = store /\ runner[r].pc = "ack"
      /\ Told(r) \/ UNCHANGED <<queue, reported>>
  BY Unasked DEF Ack, AckFails
<1>2. /\ runner[r] \in RunnerSet /\ AtHand(runner[r]) /\ cmdBusy = TRUE /\ stopping \in BOOLEAN
      /\ \A s \in Runners \ {r} : runner[s].pc = "idle"
      /\ queue \cap reported = {} /\ reported \subseteq issued
  BY <1>1, Alone
<1>3. runner[r].cmd \in issued \ runner[r].batch /\ runner[r].batch \cap reported = {}
      /\ runner[r].batch \subseteq issued
  BY <1>1, <1>2 DEF AtHand
<1>4. /\ queue' \subseteq queue /\ reported' \subseteq issued /\ queue' \cap reported' = {}
      /\ runner[r].batch \cap reported' = {}
  BY <1>1, <1>2, <1>3 DEF Told
<1>5. CASE RunEnds(r) /\ stopping' = TRUE
  <2>1. AtHand(NoRunner)'
    BY Idles DEF AtHand
  <2>2. QED
    BY <1>1, <1>2, <1>4, <1>5, <2>1, Idles, RunnerMoves DEF RunEnds
<1>6. CASE Onward(r)
  <2>1. /\ UNCHANGED <<cmdBusy, stopping>>
        /\ runner' = [runner EXCEPT ![r] = [NoRunner EXCEPT !.pc = "next",
                                                            !.batch = runner[r].batch]]
    BY <1>6 DEF Onward
  <2>2. ASSUME NEW x, x = [NoRunner EXCEPT !.pc = "next", !.batch = runner[r].batch] PROVE CInv'
    <3>1. x \in RunnerSet /\ x.pc = "next" /\ x.batch = runner[r].batch /\ x.cmd = "none"
      BY <1>2, <2>2 DEF RunnerSet, NoRunner
    <3>2. AtHand(x)'
      BY <1>1, <1>3, <1>4, <3>1 DEF AtHand
    <3>3. runner' = [runner EXCEPT ![r] = x]
      BY <2>1, <2>2
    <3>4. QED
      BY <1>1, <1>2, <1>4, <2>1, <3>1, <3>2, <3>3, RunnerMoves
  <2>3. QED
    BY <2>2
<1>7. QED
  BY <1>5, <1>6 DEF Ack, AckFails

(* The process starts again, and its goroutines with it. *)
LEMMA RestartedStep == ASSUME CInv, Restarted PROVE CInv'
<1>1. SInv'
  BY WalkEnds DEF Restarted, CInv
<1>2. /\ cmdBusy' = FALSE /\ stopping' = FALSE /\ store' \in BOOLEAN /\ runner' = [r \in Runners |-> NoRunner]
      /\ UNCHANGED <<issued, queue, reported>>
  BY DEF Restarted, centralVars
<1>3. CommandsTyped'
  BY <1>2, Idles DEF CInv, CommandsTyped
<1>4. OneRuns' /\ \A r \in Runners : AtHand(runner[r])'
  BY <1>2, Idles DEF OneRuns, AtHand
<1>5. QED
  BY <1>1, <1>2, <1>3, <1>4 DEF CInv

(* Every step keeps the invariant. *)
THEOREM Inductive == Spec => []CInv
<1>1. ASSUME CInv, [Next]_vars PROVE CInv'
  <2>1. CASE GateTurns
    BY <1>1, <2>1, GateKeeps, SessionOnly DEF GateTurns, CInv
  <2>2. CASE StartAutomatic
    <3>1. PICK kind \in {"refresh", "fetch"}, n \in Games \cup {List} :
            walk' = Walk(kind, "auto", n) /\ (kind = "refresh" => n = List)
      BY <2>2 DEF StartAutomatic
    <3>2. kind \in Kinds /\ (Lists(kind) => n = List)
      BY <3>1 DEF Kinds, Lists
    <3>3. SInv'
      BY <1>1, <2>2, <3>1, <3>2, WalkStarts DEF StartAutomatic, CInv
    <3>4. QED
      BY <1>1, <2>2, <3>3, SessionOnly DEF StartAutomatic
  <2>3. CASE Resync
    <3>1. SInv'
      BY <1>1, <2>3, WalkStarts DEF Resync, CInv, Kinds
    <3>2. QED
      BY <1>1, <2>3, <3>1, SessionOnly DEF Resync
  <2>4. CASE UncommandedEnds
    BY <1>1, <2>4, WalkEnds, SessionOnly DEF UncommandedEnds, EndWalk, CInv
  <2>5. CASE Walks
    BY <1>1, <2>5, WalkKeeps, SessionOnly DEF Walks, CInv
  <2>6. CASE Stop \/ Crash
    BY <1>1, <2>6, RestartedStep DEF Stop, Crash
  <2>7. CASE \E c \in Ids : Issue(c)
    BY <1>1, <2>7, IssueStep
  <2>8. ASSUME NEW r \in Runners, Runs(r) PROVE CInv'
    BY <1>1, <2>8, RunStep, TakeUpStep, ResultsStep, AckStep DEF Runs
  <2>9. CASE UNCHANGED vars
    BY <1>1, <2>9, Unasked, SessionOnly DEF vars
  <2>10. QED
    BY <1>1, <2>1, <2>2, <2>3, <2>4, <2>5, <2>6, <2>7, <2>8, <2>9 DEF Next
<1>2. QED
  BY <1>1, Begins, PTL DEF Spec
-----------------------------------------------------------------------------
(* The session's state has its types, and only a walk has a connection. *)
LEMMA SessionTypes == SInv => SessionTypeOK /\ (connected => ~Free)
<1> SUFFICES ASSUME SInv PROVE SessionTypeOK /\ (connected => ~Free)
  OBVIOUS
<1>1. /\ gate \in BOOLEAN /\ connected \in BOOLEAN /\ cutShort \in BOOLEAN /\ walk \in WalkSet
      /\ (connected \/ owed = <<>>) /\ (connected => ~Free)
      /\ misfiled \subseteq Games /\ asked \in Nat
  BY DEF SInv, SessionTyped, OnLine, FiledAsAsked
<1>2. owed \in Seq(Frame) /\ Len(owed) <= Handshake + 1
  <2>1. owed \in Seq(Frame) /\ Len(owed) <= Handshake + (IF walk.pc = "read" THEN 1 ELSE 0)
    BY DEF SInv, Owing
  <2>2. Len(owed) \in Nat
    BY <2>1, LenProperties
  <2>3. QED
    BY <2>1, <2>2, SessionAssumption
<1>3. \A i \in DOMAIN owed : owed[i] \in Frame
  BY <1>2, ElementOfSeq, LenProperties
<1>4. QED
  BY <1>1, <1>2, <1>3 DEF SessionTypeOK, WalkSet, Frame

(* Every variable has its type, and only whoever holds resultsMu has a     *)
(* connection (resultsSession: one at a time, closed as it is let go).     *)
THEOREM TypeCorrect == Spec => []TypeOK
<1>1. CInv => TypeOK
  BY SessionTypes DEF CInv, CommandsTyped, RunnerSet, TypeOK
<1>2. QED
  BY <1>1, Inductive, PTL

(* No game's payload is cached or pushed under another's number, with every *)
(* handshake read to its end, whatever times out, comes late or is refused  *)
(* (resultsSession, verifyPayload).                                         *)
THEOREM FiledRight == Spec => []FiledAsAsked
<1>1. CInv => FiledAsAsked
  BY DEF CInv, SInv
<1>2. QED
  BY <1>1, Inductive, PTL

(* With the gate shut the print server is asked for one thing more at most, *)
(* by whatever work is under way or comes after it (connect, refreshCache). *)
THEOREM OneMore == Spec => []OneMoreAtMost
<1>1. CInv => OneMoreAtMost
  BY DEF CInv, SInv, SessionTyped, ShutOut, OneMoreAtMost
<1>2. QED
  BY <1>1, Inductive, PTL

(* No command runs again whose outcome central has, nor in two goroutines   *)
(* at once, whatever answer of central's is lost, in however many runs of   *)
(* the process (processCommands, cmdBusy); one whose report was lost may    *)
(* run again.                                                               *)
THEOREM NoneTwice == Spec => []NoneRunsAgain
<1>1. ASSUME CInv, NEW r \in Runners
      PROVE  /\ ToRun(r) \cap reported = {}
             /\ \A s \in Runners \ {r} : runner[r].cmd # "none" => runner[r].cmd \notin ToRun(s)
  <2>1. runner[r] \in RunnerSet /\ AtHand(runner[r])
    BY <1>1 DEF CInv, CommandsTyped
  <2>2. ToRun(r) \cap reported = {}
    BY <2>1 DEF AtHand, ToRun
  <2>3. ASSUME NEW s \in Runners \ {r}, runner[r].cmd # "none" PROVE runner[r].cmd \notin ToRun(s)
    <3>1. runner[r].pc # "idle"
      BY <1>1, <2>3 DEF CInv, OneRuns, NoRunner
    <3>2. runner[s] = NoRunner
      BY <1>1, <3>1 DEF CInv, OneRuns
    <3>3. QED
      BY <3>2, Idles DEF ToRun
  <2>4. QED
    BY <2>2, <2>3
<1>2. CInv => NoneRunsAgain
  BY <1>1 DEF NoneRunsAgain
<1>3. QED
  BY <1>2, Inductive, PTL

(* A results command reported done has been on the line to the print server *)
(* itself, whoever was using it when the command came, but for a resync of  *)
(* an agent without a cache (refreshCache).                                 *)
THEOREM DoneIsTried == Spec => []DoneMeansTried
<1>1. CInv => DoneMeansTried
  BY DEF CInv, AtHand, DoneMeansTried
<1>2. QED
  BY <1>1, Inductive, PTL

=============================================================================
