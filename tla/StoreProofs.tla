---------------------------- MODULE StoreProofs ----------------------------
(***************************************************************************)
(* Proofs about Store, and about the Proxy that answers from it, for every *)
(* set of games, every interval and every cap on connections.              *)
(*                                                                         *)
(* The argument: no metadata anywhere (in memory, in the file, on the      *)
(* disk) claims a payload that is not whole in both places, and StoreGame  *)
(* makes the claim when the payload is.  A deletion ends the game's claim  *)
(* to be counted, for its two removals reach the disk in any order.        *)
(* What the proxy has listed stays in the index until it is deleted, and   *)
(* what is in the index and not deleted is whole.                          *)
(***************************************************************************)
EXTENDS Proxy, TLAPS

Entries == Metas \cup {None}
Payloads == {None, "whole", "torn"}

Claimed(n) == Servable(meta[n]) \/ Servable(metaFile[n]) \/ Servable(metaDisk[n])

Whole(n) == rawFile[n] = "whole" /\ rawDisk[n] = "whole"

WholeInv == \A n \in Games \ deleted : Claimed(n) => Whole(n)

(* Between StoreGame's two steps. *)
SaveInv == op.step = "save" => op.game \in Games \ deleted /\ Whole(op.game)

(* A marker lags behind the list by no more than TouchEvery: memory's while *)
(* the process runs, and then the file's.                                   *)
MarkerInv ==
  \A n \in Games :
    /\ seen[n] # None => seen[n] <= now
    /\ meta[n] # None => meta[n].updatedAt <= now
    /\ metaFile[n] # None => metaFile[n].updatedAt <= now
    /\ metaDisk[n] # None => metaDisk[n].updatedAt <= now
    /\ seen[n] # None /\ meta[n] # None => seen[n] <= meta[n].updatedAt + TouchEvery
    /\ ~up /\ seen[n] # None /\ metaFile[n] # None =>
         seen[n] <= metaFile[n].updatedAt + TouchEvery

IInv == TypeOK /\ WholeInv /\ SaveInv /\ MarkerInv
-----------------------------------------------------------------------------
(* None is no entry and no time. *)
LEMMA NoneApart ==
  /\ None \notin Metas
  /\ None \notin Nat
  /\ None \notin Games
  /\ None # "whole"
<1>1. Metas \subseteq [hasRaw : BOOLEAN, updatedAt : Nat]
  BY StoreAssumption DEF Metas
<1>2. QED
  BY <1>1, StoreAssumption

(* What SaveMeta leaves of the index and of the files. *)
LEMMA Saved ==
  ASSUME TypeOK, NEW n \in Games, NEW m \in Metas, SaveMeta(n, m)
  PROVE  /\ meta' \in [Games -> Entries] /\ metaFile' \in [Games -> Entries]
         /\ meta'[n] = m /\ metaFile'[n] \in {metaFile[n], m}
         /\ \A k \in Games \ {n} : meta'[k] = meta[k] /\ metaFile'[k] = metaFile[k]
BY DEF SaveMeta, TypeOK, Entries

(* The metadata that UpsertListEntry and StoreMeta save. *)
LEMMA MetaTyped ==
  ASSUME TypeOK, NEW h \in BOOLEAN
  PROVE  [hasRaw |-> h, updatedAt |-> now] \in Metas
BY DEF TypeOK, Metas

LEMMA HasRawTyped == ASSUME TypeOK, NEW n \in Games PROVE HasRaw(n) \in BOOLEAN
BY DEF HasRaw, Servable
-----------------------------------------------------------------------------
(* Each operation and each accident keeps the types. *)
LEMMA TypeStep == TypeOK /\ [Next]_vars => TypeOK'
<1> SUFFICES ASSUME TypeOK, [Next]_vars PROVE TypeOK'
  OBVIOUS
<1> USE StoreAssumption
<1>1. CASE UNCHANGED vars
  BY <1>1 DEF TypeOK, vars
<1>2. ASSUME NEW n \in Games, UpsertListEntry(n) PROVE TypeOK'
  <2>1. /\ meta' \in [Games -> Entries]
        /\ metaFile' \in [Games -> Entries]
    <3>1. CASE UNCHANGED <<meta, metaFile>>
      BY <3>1 DEF TypeOK, Entries
    <3>2. CASE SaveMeta(n, [hasRaw |-> HasRaw(n), updatedAt |-> now])
      BY <3>2, Saved, MetaTyped, HasRawTyped
    <3>3. QED
      BY <1>2, <3>1, <3>2 DEF UpsertListEntry
  <2>2. QED
    BY <1>2, <2>1 DEF UpsertListEntry, TypeOK, Entries
<1>3. ASSUME NEW n \in Games, StoreRaw(n) PROVE TypeOK'
  BY <1>3 DEF StoreRaw, WriteRaw, TypeOK
<1>4. ASSUME NEW n \in Games, StoreMeta(n) PROVE TypeOK'
  <2>1. /\ meta' \in [Games -> Entries]
        /\ metaFile' \in [Games -> Entries]
    BY <1>4, Saved, MetaTyped DEF StoreMeta
  <2>2. QED
    BY <1>4, <2>1 DEF StoreMeta, TypeOK, Entries, NoOp
<1>5. ASSUME NEW doomed \in SUBSET Games, Deletes(doomed) PROVE TypeOK'
  BY <1>5 DEF Deletes, TypeOK
<1>6. ASSUME NEW n \in Games, RemoveRaw(n) PROVE TypeOK'
  BY <1>6 DEF RemoveRaw, TypeOK
<1>7. ASSUME NEW n \in Games, RemoveMeta(n) PROVE TypeOK'
  <2>1. /\ meta' \in [Games -> Entries]
        /\ metaFile' \in [Games -> Entries]
    BY <1>7 DEF RemoveMeta, TypeOK, Entries
  <2>2. /\ op' \in [step : {"none", "save", "delete", "unlink"}, game : Games \cup {None},
                    todo : SUBSET Games]
        /\ op'.step = "delete" => op'.todo # {}
    BY <1>7 DEF RemoveMeta, TypeOK, NoOp
  <2>3. QED
    BY <1>7, <2>1, <2>2 DEF RemoveMeta, TypeOK, Entries
<1>8. CASE Tick
  BY <1>8 DEF Tick, TypeOK
<1>9. ASSUME NEW n \in Games, WriteBack(n) PROVE TypeOK'
  BY <1>9 DEF WriteBack, TypeOK
<1>10. CASE Crash
  BY <1>10 DEF Crash, Dies, TypeOK, Empty, NoOp
<1>11. CASE PowerCut
  <2>1. metaFile' \in [Games -> Entries] /\ metaDisk' = metaFile'
    BY <1>11 DEF PowerCut, TypeOK, Entries
  <2>2. rawFile' \in [Games -> Payloads] /\ rawDisk' = rawFile'
    BY <1>11 DEF PowerCut, TypeOK, Payloads
  <2>3. QED
    BY <1>11, <2>1, <2>2 DEF PowerCut, Dies, TypeOK, Empty, NoOp, Entries, Payloads
<1>12. CASE Open
  BY <1>12 DEF Open, TypeOK
<1>13. QED
  BY <1>1, <1>2, <1>3, <1>4, <1>5, <1>6, <1>7, <1>8, <1>9, <1>10, <1>11, <1>12
  DEF Next, Prune, PurgeAll

(* Type correctness (every operation of store.go, crashes and power cuts). *)
THEOREM TypeCorrect == Spec => []TypeOK
<1>1. Init => TypeOK
  BY StoreAssumption DEF Init, TypeOK, Empty, NoOp
<1>2. QED
  BY <1>1, TypeStep, PTL DEF Spec
-----------------------------------------------------------------------------
(* The claims of metadata after each step are of payloads that are whole. *)
LEMMA WholeStep == TypeOK /\ WholeInv /\ SaveInv /\ [Next]_vars => WholeInv' /\ SaveInv'
<1> SUFFICES ASSUME TypeOK, WholeInv, SaveInv, [Next]_vars PROVE WholeInv' /\ SaveInv'
  OBVIOUS
<1> USE NoneApart
<1>1. CASE UNCHANGED vars
  BY <1>1 DEF WholeInv, SaveInv, Claimed, Whole, vars
<1>2. ASSUME NEW n \in Games, UpsertListEntry(n) PROVE WholeInv' /\ SaveInv'
  <2>1. SaveInv'
    BY <1>2 DEF UpsertListEntry, Idle, SaveInv
  <2>2. ASSUME NEW k \in Games, Claimed(k)' PROVE Claimed(k)
    <3>1. CASE UNCHANGED <<meta, metaFile>>
      BY <1>2, <2>2, <3>1 DEF UpsertListEntry, Claimed
    <3>2. CASE SaveMeta(n, [hasRaw |-> HasRaw(n), updatedAt |-> now])
      <4> DEFINE m == [hasRaw |-> HasRaw(n), updatedAt |-> now]
      <4>1. m \in Metas /\ m.hasRaw = HasRaw(n)
        BY MetaTyped, HasRawTyped
      <4>2. /\ meta'[n] = m /\ metaFile'[n] \in {metaFile[n], m}
            /\ k # n => meta'[k] = meta[k] /\ metaFile'[k] = metaFile[k]
        BY <3>2, <4>1, Saved
      <4>3. metaDisk' = metaDisk
        BY <1>2 DEF UpsertListEntry
      <4>4. Servable(m) => Servable(meta[n])
        BY <4>1 DEF Servable, HasRaw
      <4> HIDE DEF m
      <4>5. CASE k = n
        <5>1. Servable(m) \/ Servable(metaFile[n]) \/ Servable(metaDisk[n])
          BY <2>2, <4>2, <4>3, <4>5 DEF Claimed, Servable
        <5>2. QED
          BY <4>4, <4>5, <5>1 DEF Claimed
      <4>6. CASE k # n
        BY <2>2, <4>2, <4>3, <4>6 DEF Claimed, Servable
      <4>7. QED
        BY <4>5, <4>6
    <3>3. QED
      BY <1>2, <3>1, <3>2 DEF UpsertListEntry
  <2>3. QED
    BY <1>2, <2>1, <2>2 DEF UpsertListEntry, WholeInv, Whole
<1>3. ASSUME NEW n \in Games, StoreRaw(n) PROVE WholeInv' /\ SaveInv'
  BY <1>3 DEF StoreRaw, WriteRaw, WholeInv, SaveInv, Claimed, Whole, TypeOK
<1>4. ASSUME NEW n \in Games, StoreMeta(n) PROVE WholeInv' /\ SaveInv'
  <2>1. SaveInv'
    BY <1>4 DEF StoreMeta, SaveInv, NoOp
  <2>2. ASSUME NEW k \in Games, Claimed(k)' PROVE Claimed(k) \/ k = n
    BY <1>4, <2>2, Saved, MetaTyped DEF StoreMeta, Claimed
  <2>3. QED
    BY <1>4, <2>1, <2>2 DEF StoreMeta, WholeInv, SaveInv, Whole
<1>5. ASSUME NEW doomed \in SUBSET Games, Deletes(doomed) PROVE WholeInv' /\ SaveInv'
  BY <1>5 DEF Deletes, WholeInv, SaveInv, Claimed, Whole
<1>6. ASSUME NEW n \in Games, RemoveRaw(n) PROVE WholeInv' /\ SaveInv'
  BY <1>6 DEF RemoveRaw, WholeInv, SaveInv, Claimed, Whole, TypeOK
<1>7. ASSUME NEW n \in Games, RemoveMeta(n) PROVE WholeInv' /\ SaveInv'
  <2>1. op'.step # "save"
    BY <1>7 DEF RemoveMeta, NoOp, TypeOK
  <2>2. ASSUME NEW k \in Games, Claimed(k)' PROVE Claimed(k)
    BY <1>7, <2>2 DEF RemoveMeta, Claimed, Servable, TypeOK
  <2>3. QED
    BY <1>7, <2>1, <2>2 DEF RemoveMeta, WholeInv, SaveInv, Whole
<1>8. CASE Tick
  BY <1>8 DEF Tick, WholeInv, SaveInv, Claimed, Whole
<1>9. ASSUME NEW n \in Games, WriteBack(n) PROVE WholeInv' /\ SaveInv'
  <2>1. ASSUME NEW k \in Games, Claimed(k)' PROVE Claimed(k)
    BY <1>9, <2>1 DEF WriteBack, Claimed, TypeOK
  <2>2. ASSUME NEW k \in Games, Whole(k) PROVE Whole(k)'
    BY <1>9, <2>2 DEF WriteBack, Whole, TypeOK
  <2>3. op.step = "save" => op.game \in Games
    BY DEF SaveInv
  <2>4. QED
    BY <1>9, <2>1, <2>2, <2>3 DEF WriteBack, WholeInv, SaveInv
<1>10. CASE Crash
  BY <1>10 DEF Crash, Dies, WholeInv, SaveInv, Claimed, Servable, Whole, Empty, NoOp
<1>11. CASE PowerCut
  <2>1. SaveInv'
    BY <1>11 DEF PowerCut, Dies, SaveInv, NoOp
  <2>2. ASSUME NEW k \in Games, Claimed(k)' PROVE Claimed(k)
    <3>1. /\ meta'[k] = None /\ metaDisk'[k] = metaFile'[k]
          /\ metaFile'[k] \in {None, metaDisk[k], metaFile[k]}
      BY <1>11 DEF PowerCut, Dies, Empty
    <3>2. QED
      BY <2>2, <3>1 DEF Claimed, Servable
  <2>3. ASSUME NEW k \in Games, Whole(k) PROVE Whole(k)'
    BY <1>11, <2>3 DEF PowerCut, Whole
  <2>4. QED
    BY <1>11, <2>1, <2>2, <2>3 DEF PowerCut, Dies, WholeInv
<1>12. CASE Open
  BY <1>12 DEF Open, WholeInv, SaveInv, Claimed, Whole
<1>13. QED
  BY <1>1, <1>2, <1>3, <1>4, <1>5, <1>6, <1>7, <1>8, <1>9, <1>10, <1>11, <1>12
  DEF Next, Prune, PurgeAll
-----------------------------------------------------------------------------
(* No marker is of the future, and none lags by more than TouchEvery.       *)
LEMMA MarkerStep == TypeOK /\ MarkerInv /\ [Next]_vars => MarkerInv'
<1> SUFFICES ASSUME TypeOK, MarkerInv, [Next]_vars PROVE MarkerInv'
  OBVIOUS
<1> USE NoneApart, StoreAssumption
<1>1. CASE UNCHANGED vars
  BY <1>1 DEF MarkerInv, vars
<1>2. ASSUME NEW n \in Games, UpsertListEntry(n) PROVE MarkerInv'
  <2>1. /\ now' = now /\ up /\ up' = up /\ metaDisk' = metaDisk
        /\ seen'[n] = now
        /\ \A k \in Games \ {n} : seen'[k] = seen[k]
    BY <1>2 DEF UpsertListEntry, Idle, TypeOK
  <2>2. CASE Recent(n) /\ UNCHANGED <<meta, metaFile>>
    BY <2>1, <2>2 DEF Recent, MarkerInv, TypeOK, Metas
  <2>3. CASE SaveMeta(n, [hasRaw |-> HasRaw(n), updatedAt |-> now])
    <3> DEFINE m == [hasRaw |-> HasRaw(n), updatedAt |-> now]
    <3>1. m \in Metas /\ m.updatedAt = now
      BY MetaTyped, HasRawTyped
    <3>2. /\ meta'[n] = m /\ metaFile'[n] \in {metaFile[n], m}
          /\ \A k \in Games \ {n} : meta'[k] = meta[k] /\ metaFile'[k] = metaFile[k]
      BY <2>3, <3>1, Saved
    <3> HIDE DEF m
    <3>3. QED
      BY <2>1, <3>1, <3>2 DEF MarkerInv, TypeOK, Metas
  <2>4. QED
    BY <1>2, <2>2, <2>3 DEF UpsertListEntry
<1>3. ASSUME NEW n \in Games, StoreRaw(n) PROVE MarkerInv'
  BY <1>3 DEF StoreRaw, MarkerInv
<1>4. ASSUME NEW n \in Games, StoreMeta(n) PROVE MarkerInv'
  <2> DEFINE m == [hasRaw |-> TRUE, updatedAt |-> now]
  <2>1. m \in Metas /\ m.updatedAt = now
    BY MetaTyped
  <2>2. /\ meta'[n] = m /\ metaFile'[n] \in {metaFile[n], m}
        /\ \A k \in Games \ {n} : meta'[k] = meta[k] /\ metaFile'[k] = metaFile[k]
    BY <1>4, <2>1, Saved DEF StoreMeta
  <2>3. UNCHANGED <<now, up, metaDisk, seen>>
    BY <1>4 DEF StoreMeta
  <2> HIDE DEF m
  <2>4. QED
    BY <2>1, <2>2, <2>3 DEF MarkerInv, TypeOK, Metas
<1>5. ASSUME NEW doomed \in SUBSET Games, Deletes(doomed) PROVE MarkerInv'
  BY <1>5 DEF Deletes, MarkerInv
<1>6. ASSUME NEW n \in Games, RemoveRaw(n) PROVE MarkerInv'
  BY <1>6 DEF RemoveRaw, MarkerInv
<1>7. ASSUME NEW n \in Games, RemoveMeta(n) PROVE MarkerInv'
  <2>1. /\ UNCHANGED <<now, up, metaDisk, seen>>
        /\ \A k \in Games : meta'[k] \in {None, meta[k]} /\ metaFile'[k] \in {None, metaFile[k]}
    BY <1>7 DEF RemoveMeta, TypeOK
  <2>2. QED
    BY <2>1 DEF MarkerInv
<1>8. CASE Tick
  BY <1>8 DEF Tick, MarkerInv, TypeOK, Metas
<1>9. ASSUME NEW n \in Games, WriteBack(n) PROVE MarkerInv'
  <2>1. /\ UNCHANGED <<now, up, meta, metaFile, seen>>
        /\ \A k \in Games : metaDisk'[k] \in {metaDisk[k], metaFile[k]}
    BY <1>9 DEF WriteBack, TypeOK
  <2>2. QED
    BY <2>1 DEF MarkerInv
<1>10. CASE Crash
  BY <1>10 DEF Crash, Dies, Empty, MarkerInv
<1>11. CASE PowerCut
  <2>1. /\ now' = now /\ ~up'
        /\ \A k \in Games : /\ meta'[k] = None
                            /\ seen'[k] = IF metaFile'[k] = meta[k] THEN seen[k] ELSE None
                            /\ metaDisk'[k] = metaFile'[k]
                            /\ metaFile'[k] \in {None, metaDisk[k], metaFile[k]}
    BY <1>11 DEF PowerCut, Dies, Empty
  <2>2. QED
    BY <2>1 DEF MarkerInv
<1>12. CASE Open
  BY <1>12 DEF Open, MarkerInv
<1>13. QED
  BY <1>1, <1>2, <1>3, <1>4, <1>5, <1>6, <1>7, <1>8, <1>9, <1>10, <1>11, <1>12
  DEF Next, Prune, PurgeAll
-----------------------------------------------------------------------------
(* The inductive invariant holds of the store's every state. *)
THEOREM Inductive == Spec => []IInv
<1>1. Init => IInv
  <2>1. Init => TypeOK
    BY StoreAssumption DEF Init, TypeOK, Empty, NoOp
  <2>2. Init => WholeInv /\ SaveInv /\ MarkerInv
    BY DEF Init, WholeInv, SaveInv, MarkerInv, Claimed, Servable, Empty, NoOp
  <2>3. QED
    BY <2>1, <2>2 DEF IInv
<1>2. IInv /\ [Next]_vars => IInv'
  BY TypeStep, WholeStep, MarkerStep DEF IInv
<1>3. QED
  BY <1>1, <1>2, PTL DEF Spec

(* A game the index says can be served is whole on the file system, after  *)
(* any crash or power cut, unless it was deleted since it was stored       *)
(* (writeRawLocked's two syncs, before the metadata of StoreGame).         *)
THEOREM StoredGamesAreServable == Spec => []StoredIsServable
<1>1. IInv => StoredIsServable
  BY DEF IInv, WholeInv, Claimed, Whole, HasRaw, StoredIsServable
<1>2. QED
  BY <1>1, Inductive, PTL

(* Retention prunes no game the list has held within the window, less the  *)
(* interval its marker may lag (UpsertListEntry's touchEvery, Prune).      *)
THEOREM SeenGamesAreKept == Spec => KeepsSeen
<1>1. ASSUME IInv, [Next]_vars, Prune, NEW n \in op'.todo
      PROVE  seen[n] = None \/ now - seen[n] > Retention - TouchEvery
  <2>1. /\ n \in Games /\ meta[n] # None
        /\ now - meta[n].updatedAt > Retention
    BY <1>1 DEF Prune, Deletes
  <2>2. /\ now \in Nat /\ meta[n].updatedAt \in Nat
        /\ seen[n] # None => seen[n] \in Nat
    BY <1>1, <2>1 DEF IInv, TypeOK, Metas
  <2>3. seen[n] # None => seen[n] <= meta[n].updatedAt + TouchEvery
    BY <1>1, <2>1 DEF IInv, MarkerInv
  <2>4. QED
    BY <2>1, <2>2, <2>3, StoreAssumption
<1>2. IInv /\ [Next]_vars =>
        [Prune => \A n \in op'.todo :
                    seen[n] = None \/ now - seen[n] > Retention - TouchEvery]_vars
  BY <1>1
<1>3. QED
  BY <1>2, Inductive, PTL DEF Spec, KeepsSeen
-----------------------------------------------------------------------------
(***************************************************************************)
(* The proxy.                                                              *)
(***************************************************************************)

(* What is open is counted but for what is starting, and passes the cap in  *)
(* a burst only; a process that is down has nothing open.                   *)
ConnInv ==
  /\ ProxyTypeOK
  /\ CappedButForBursts
  /\ ~up => listed = {}

(* What the client was sent is in the index until it is deleted; and a      *)
(* deletion takes a payload before it takes the metadata.                   *)
ListInv ==
  /\ listed \cap deleted \subseteq gone
  /\ \A n \in listed \ gone : HasRaw(n)
  /\ op.step = "unlink" => op.game \in deleted

NoneTorn == \A n \in Games : rawFile[n] # "torn" /\ rawDisk[n] # "torn"

PInv == IInv /\ ConnInv /\ ListInv /\ NoneTorn

(* Where the client's connection is counts for nothing in the store. *)
LEMMA ProxyRuns == ProxyNext => [Next]_vars
BY DEF ProxyNext, StoreStep, Accept, Count, OtherLeaves, ClientLeaves, Close, ClientStep,
       BannerSent, AskList, Payload, NoFile, Answer, AskGame, NotInIndex

(* The store beneath the proxy is the store without it: a request changes   *)
(* nothing there (proxy.go), so what is proved of Store holds of both.      *)
THEOREM ServesAsItIs == ProxySpec => Spec
<1>1. ProxyInit => Init
  BY DEF ProxyInit
<1>2. [ProxyNext]_proxyVars => [Next]_vars
  BY ProxyRuns DEF proxyVars, vars
<1>3. QED
  BY <1>1, <1>2, PTL DEF ProxySpec, Spec
-----------------------------------------------------------------------------
(* What is in the index stays until its metadata is removed. *)
LEMMA IndexKept ==
  ASSUME TypeOK, [Next]_vars, up, up', NEW n \in Games, HasRaw(n),
         op.step = "unlink" => op.game # n
  PROVE  HasRaw(n)'
<1> USE NoneApart
<1>1. CASE UNCHANGED meta
  BY <1>1 DEF HasRaw, Servable
<1>2. ASSUME NEW k \in Games, UpsertListEntry(k), SaveMeta(k, [hasRaw |-> HasRaw(k), updatedAt |-> now])
      PROVE  HasRaw(n)'
  <2> DEFINE m == [hasRaw |-> HasRaw(k), updatedAt |-> now]
  <2>1. m \in Metas /\ m.hasRaw = HasRaw(k)
    BY MetaTyped, HasRawTyped
  <2>2. meta'[k] = m /\ (n # k => meta'[n] = meta[n])
    BY <1>2, <2>1, Saved
  <2> HIDE DEF m
  <2>3. QED
    BY <2>1, <2>2 DEF HasRaw, Servable
<1>3. ASSUME NEW k \in Games, StoreMeta(k) PROVE HasRaw(n)'
  <2> DEFINE m == [hasRaw |-> TRUE, updatedAt |-> now]
  <2>1. m \in Metas /\ m.hasRaw = TRUE
    BY MetaTyped
  <2>2. meta'[k] = m /\ (n # k => meta'[n] = meta[n])
    BY <1>3, <2>1, Saved DEF StoreMeta
  <2> HIDE DEF m
  <2>3. QED
    BY <2>1, <2>2 DEF HasRaw, Servable
<1>4. ASSUME NEW k \in Games, RemoveMeta(k) PROVE HasRaw(n)'
  BY <1>4 DEF RemoveMeta, TypeOK, HasRaw, Servable
<1>5. QED
  <2>1. CASE UNCHANGED vars
    BY <1>1, <2>1 DEF vars
  <2>2. CASE Prune \/ PurgeAll \/ Tick
    BY <1>1, <2>2 DEF Prune, PurgeAll, Deletes, Tick
  <2>3. CASE Crash \/ PowerCut \/ Open
    BY <2>3 DEF Crash, PowerCut, Dies, Open
  <2>4. ASSUME NEW k \in Games, StoreRaw(k) \/ RemoveRaw(k) \/ WriteBack(k) PROVE HasRaw(n)'
    BY <1>1, <2>4 DEF StoreRaw, RemoveRaw, WriteBack
  <2>5. ASSUME NEW k \in Games, UpsertListEntry(k) PROVE HasRaw(n)'
    BY <1>1, <1>2, <2>5 DEF UpsertListEntry
  <2>6. QED
    BY <1>3, <1>4, <2>1, <2>2, <2>3, <2>4, <2>5 DEF Next

(* A deletion is counted when it takes the payload, before the metadata. *)
LEMMA RawGoesFirst ==
  ASSUME TypeOK, op.step = "unlink" => op.game \in deleted, [Next]_vars
  PROVE  op'.step = "unlink" => op'.game \in deleted'
<1>1. CASE UNCHANGED <<op, deleted>>
  BY <1>1
<1>2. ASSUME NEW n \in Games, RemoveRaw(n) PROVE op'.game \in deleted'
  BY <1>2 DEF RemoveRaw
<1>3. ASSUME NEW n \in Games, StoreRaw(n) \/ StoreMeta(n) \/ RemoveMeta(n)
      PROVE  op'.step # "unlink"
  <2>1. CASE op' = NoOp \/ StoreRaw(n)
    BY <2>1 DEF NoOp, StoreRaw
  <2>2. CASE op' = [op EXCEPT !.step = "delete", !.game = None] /\ TypeOK
    BY <2>2 DEF TypeOK
  <2>3. QED
    BY <1>3, <2>1, <2>2 DEF StoreMeta, RemoveMeta
<1>4. CASE Prune \/ PurgeAll \/ Crash \/ PowerCut
  BY <1>4 DEF Prune, PurgeAll, Deletes, Crash, PowerCut, Dies, NoOp
<1>5. QED
  BY <1>1, <1>2, <1>3, <1>4 DEF Next, vars, UpsertListEntry, WriteBack, Tick, Open

(* Payloads are written whole to the disk before they are shown. *)
LEMMA NoneTornStep ==
  ASSUME TypeOK, NoneTorn, [Next]_vars
  PROVE  NoneTorn'
<1>1. CASE UNCHANGED <<rawFile, rawDisk>>
  BY <1>1 DEF NoneTorn
<1>2. ASSUME NEW k \in Games, StoreRaw(k) \/ RemoveRaw(k) \/ WriteBack(k) PROVE NoneTorn'
  BY <1>2, NoneApart, StoreAssumption DEF StoreRaw, WriteRaw, RemoveRaw, WriteBack, NoneTorn, TypeOK
<1>3. CASE PowerCut
  BY <1>3 DEF PowerCut, NoneTorn
<1>4. QED
  BY <1>1, <1>2, <1>3 DEF Next, vars, UpsertListEntry, StoreMeta, RemoveMeta, Prune, PurgeAll, Deletes,
                          Tick, Crash, Open

(* What a list holds stays servable, or is gone. *)
LEMMA ListStep ==
  ASSUME PInv, [ProxyNext]_proxyVars
  PROVE  ListInv'
<1>1. TypeOK /\ [Next]_vars
  BY ProxyRuns DEF PInv, IInv, proxyVars, vars
<1>2. op'.step = "unlink" => op'.game \in deleted'
  BY <1>1, RawGoesFirst DEF PInv, ListInv
<1>3. CASE UNCHANGED <<vars, listed, gone>>
  BY <1>3 DEF PInv, ListInv, HasRaw, vars
<1>4. CASE AskList
  BY <1>2, <1>4 DEF AskList, Listable, ListInv, HasRaw, vars
<1>5. CASE StoreStep
  <2>1. CASE up /\ ~up'
    BY <1>2, <1>5, <2>1 DEF StoreStep, ListInv
  <2>2. CASE ~(up /\ ~up')
    <3>1. listed' = listed /\ gone' = gone \cup (listed \cap deleted')
      BY <1>5, <2>2 DEF StoreStep
    <3>2. ASSUME NEW n \in listed' \ gone' PROVE HasRaw(n)'
      <4>1. n \in Games /\ n \in listed \ gone /\ n \notin deleted
        BY <3>1, <3>2 DEF PInv, ConnInv, ProxyTypeOK, ListInv
      <4>2. up /\ up'
        BY <2>2, <4>1 DEF PInv, ConnInv
      <4>3. HasRaw(n) /\ (op.step = "unlink" => op.game # n)
        BY <4>1 DEF PInv, ListInv
      <4>4. QED
        BY <1>1, <4>1, <4>2, <4>3, IndexKept
    <3>3. QED
      BY <1>2, <3>1, <3>2 DEF ListInv
  <2>3. QED
    BY <2>1, <2>2
<1>6. QED
  BY <1>3, <1>4, <1>5 DEF ProxyNext, proxyVars, clientVars, Accept, Count, OtherLeaves, ClientLeaves, Close,
                          ClientStep, BannerSent, AskGame, NotInIndex, Payload, NoFile, Answer

(* Connections are counted before they are served, and are gone with the    *)
(* process.                                                                 *)
LEMMA ConnStep ==
  ASSUME PInv, [ProxyNext]_proxyVars
  PROVE  ConnInv'
<1> USE ProxyAssumption DEF Starting, Opened, Counted
<1>1. /\ ProxyTypeOK /\ CappedButForBursts /\ (~up => listed = {})
      /\ None \notin Games /\ up \in BOOLEAN /\ deleted \subseteq Games
  BY NoneApart DEF PInv, ConnInv, IInv, TypeOK
<1>2. CASE UNCHANGED proxyVars
  BY <1>1, <1>2 DEF ConnInv, ProxyTypeOK, CappedButForBursts, proxyVars, vars, connVars, clientVars
<1>3. CASE StoreStep
  <2>1. CASE up /\ ~up'
    <3>1. /\ conns' = 0 /\ starting' = 0 /\ closing' = 0 /\ burst' = FALSE /\ client' = "closed" /\ wanted' = None
          /\ listed' = {} /\ gone' = {}
      BY <1>3, <2>1 DEF StoreStep
    <3>2. Starting' = 0 /\ Opened' = 0
      BY <3>1
    <3>3. ~Counted' /\ conns' \in Nat /\ starting' \in Nat /\ closing' \in Nat /\ conns' >= 0 /\ gone' \subseteq listed'
      BY <3>1
    <3>4. ProxyTypeOK'
      <4> HIDE DEF Starting, Opened, Counted
      <4>1. QED
        BY <3>1, <3>2, <3>3 DEF ProxyTypeOK
    <3>5. QED
      BY <3>1, <3>2, <3>4 DEF ConnInv, CappedButForBursts
  <2>2. CASE ~(up /\ ~up')
    <3>1. gone' = gone \cup (listed \cap deleted') /\ UNCHANGED <<connVars, client, wanted, listed>>
      BY <1>3, <2>2 DEF StoreStep
    <3>2. ~up' => ~up
      BY <2>2
    <3>3. QED
      BY <1>1, <3>1, <3>2 DEF ConnInv, ProxyTypeOK, CappedButForBursts, connVars
  <2>3. QED
    BY <2>1, <2>2
<1>4. CASE Accept
  <2>1. /\ up /\ up' = up /\ conns < MaxConns /\ UNCHANGED <<conns, closing, wanted, listed, gone>>
        /\ \/ client = "closed" /\ client' = "starting" /\ starting' = starting
           \/ starting' = starting + 1 /\ client' = client
        /\ burst' = (burst \/ Starting + closing > 0)
    BY <1>1, <1>4 DEF Accept, Full, ProxyTypeOK, vars
  <2>2. ProxyTypeOK'
    BY <1>1, <2>1 DEF ProxyTypeOK
  <2>3. CappedButForBursts'
    <3>1. CASE Starting + closing > 0
      BY <2>1, <3>1 DEF CappedButForBursts
    <3>2. CASE ~(Starting + closing > 0)
      BY <1>1, <2>1, <3>2 DEF CappedButForBursts, ProxyTypeOK
    <3>3. QED
      BY <3>1, <3>2
  <2>4. QED
    BY <2>1, <2>2, <2>3 DEF ConnInv
<1>5. CASE Count
  <2>1. /\ up' = up /\ UNCHANGED <<closing, burst, wanted, listed, gone>> /\ conns' = conns + 1
        /\ \/ starting > 0 /\ starting' = starting - 1 /\ client' = client
           \/ client = "starting" /\ client' = "banner" /\ starting' = starting
    BY <1>5 DEF Count, vars
  <2>2. QED
    BY <1>1, <2>1 DEF ConnInv, ProxyTypeOK, CappedButForBursts
<1>6. CASE OtherLeaves \/ ClientLeaves
  <2>1. /\ up' = up /\ UNCHANGED <<starting, burst, listed, gone>>
        /\ conns' = conns - 1 /\ closing' = closing + 1
        /\ \/ UNCHANGED <<client, wanted>> /\ conns > (IF Counted THEN 1 ELSE 0)
           \/ Counted /\ client' = "closed" /\ wanted' = None
    BY <1>6 DEF OtherLeaves, ClientLeaves, Uncount, vars, clientVars
  <2>2. QED
    BY <1>1, <2>1 DEF ConnInv, ProxyTypeOK, CappedButForBursts
<1>7. CASE Close
  <2>1. /\ up' = up /\ UNCHANGED <<conns, starting, client, wanted, listed, gone>>
        /\ closing > 0 /\ closing' = closing - 1
        /\ burst' = (burst /\ Opened - 1 > MaxConns)
    BY <1>7 DEF Close, vars, clientVars
  <2>2. ProxyTypeOK'
    BY <1>1, <2>1 DEF ProxyTypeOK
  <2>3. CappedButForBursts'
    BY <1>1, <2>1 DEF CappedButForBursts, ProxyTypeOK
  <2>4. QED
    BY <1>1, <2>1, <2>2, <2>3 DEF ConnInv
<1>8. CASE ClientStep
  <2>1. /\ UNCHANGED connVars /\ up' = up
        /\ client \in {"banner", "idle", "read"} /\ client' \in {"idle", "read"}
        /\ wanted' \in Games \cup {None} /\ (client' = "read" <=> wanted' # None)
        /\ \/ UNCHANGED <<listed, gone>>
           \/ up /\ listed' \subseteq Games /\ gone' \subseteq listed'
    BY <1>1, <1>8 DEF ClientStep, BannerSent, AskList, Listable, AskGame, NotInIndex, Payload, NoFile,
                      Answer, ProxyTypeOK, Idle, vars, clientVars
  <2>2. QED
    BY <1>1, <2>1 DEF ConnInv, ProxyTypeOK, CappedButForBursts, connVars
<1>9. QED
  BY <1>2, <1>3, <1>4, <1>5, <1>6, <1>7, <1>8 DEF ProxyNext

(* Every step of the proxy, of its clients and of the store beneath it      *)
(* keeps the invariant.                                                     *)
THEOREM ProxyInductive == ProxySpec => []PInv
<1>1. ProxyInit => ConnInv /\ ListInv /\ NoneTorn
  <2> SUFFICES ASSUME ProxyInit PROVE ConnInv /\ ListInv /\ NoneTorn
    OBVIOUS
  <2>1. /\ conns = 0 /\ starting = 0 /\ closing = 0 /\ burst = FALSE /\ client = "closed" /\ wanted = None
        /\ listed = {} /\ gone = {}
    BY DEF ProxyInit
  <2>2. Opened = 0 /\ ~Counted
    BY <2>1 DEF Opened, Starting, Counted
  <2>3. conns \in Nat /\ starting \in Nat /\ closing \in Nat /\ conns >= 0 /\ gone \subseteq listed
    BY <2>1
  <2>4. ProxyTypeOK
    BY <2>1, <2>2, <2>3 DEF ProxyTypeOK
  <2>5. ConnInv
    BY <2>1, <2>2, <2>4, ProxyAssumption DEF ConnInv, CappedButForBursts
  <2>6. ListInv /\ NoneTorn
    BY <2>1, NoneApart, StoreAssumption DEF ProxyInit, Init, ListInv, NoneTorn, NoOp, Empty
  <2>7. QED
    BY <2>5, <2>6
<1>2. ASSUME PInv, [ProxyNext]_proxyVars PROVE ConnInv' /\ ListInv' /\ NoneTorn'
  <2>1. NoneTorn'
    BY <1>2, NoneTornStep, ProxyRuns DEF PInv, IInv, proxyVars, vars
  <2>2. QED
    BY <1>2, <2>1, ConnStep, ListStep
<1>3. IInv /\ (ConnInv /\ ListInv /\ NoneTorn) /\ [ProxyNext]_proxyVars
        => (ConnInv /\ ListInv /\ NoneTorn)'
  BY <1>2 DEF PInv
<1>4. PInv <=> IInv /\ (ConnInv /\ ListInv /\ NoneTorn)
  BY DEF PInv
<1> HIDE DEF PInv
<1>5. QED
  BY <1>1, <1>3, <1>4, ServesAsItIs, Inductive, PTL DEF ProxySpec

(* Types, and that connections counted are at least those being served; a   *)
(* process that is down has none (acceptLoop, handle, Close).               *)
THEOREM ProxyTypeCorrect == ProxySpec => []ProxyTypeOK
<1>1. PInv => ProxyTypeOK
  BY DEF PInv, ConnInv
<1>2. QED
  BY <1>1, ProxyInductive, PTL

(* A client that asks for a game in its list gets it, whole, unless it was  *)
(* deleted meanwhile, or half deleted before (BuildListResponse, GameRaw).  *)
THEOREM ListIsAnswered == ProxySpec => []ListedIsAnswered
<1>1. ASSUME PInv PROVE ListedIsAnswered
  <2>1. ASSUME client = "read"
        PROVE  rawFile[wanted] # "torn" /\ (wanted \in listed \ gone => rawFile[wanted] # None)
    <3>1. wanted \in Games
      BY <1>1, <2>1 DEF PInv, ConnInv, ProxyTypeOK
    <3>2. wanted \in listed \ gone => HasRaw(wanted) /\ wanted \notin deleted
      BY <1>1 DEF PInv, ListInv
    <3>3. wanted \in listed \ gone => rawFile[wanted] = "whole"
      BY <1>1, <3>1, <3>2 DEF PInv, IInv, WholeInv, Claimed, Whole, HasRaw
    <3>4. QED
      BY <1>1, <3>1, <3>3, NoneApart DEF PInv, NoneTorn
  <2>2. QED
    BY <1>1, <2>1 DEF PInv, ListInv, ListedIsAnswered
<1>2. QED
  BY <1>1, ProxyInductive, PTL

(* Only connections accepted while another has not been counted yet, or is  *)
(* no longer counted and not closed, can pass maxConns (acceptLoop, handle). *)
THEOREM ConnectionsAreCapped == ProxySpec => []CappedButForBursts
<1>1. PInv => CappedButForBursts
  BY DEF PInv, ConnInv
<1>2. QED
  BY <1>1, ProxyInductive, PTL
=============================================================================
