------------------------------- MODULE Store -------------------------------
(***************************************************************************)
(* The local cache of games (internal/store/store.go) on a disk that loses *)
(* power: one payload and one metadata file per game, and the index of the *)
(* metadata in memory, from which the proxy's list is built.               *)
(*                                                                         *)
(* Each operation holds Store.mu; what a crash can cut short is a step of  *)
(* its own.  A payload is whole or torn; of the metadata, HasRaw and       *)
(* UpdatedAt are kept, and that the rest may have changed.                 *)
(***************************************************************************)
EXTENDS Naturals

CONSTANTS
  Games,       \* game numbers
  TouchEvery,  \* metaTouchInterval
  Retention,   \* CACHE_RETENTION_HOURS
  MaxNow,      \* bound: the clock
  None         \* no file, no entry

ASSUME StoreAssumption ==
  /\ TouchEvery \in Nat /\ Retention \in Nat /\ MaxNow \in Nat
  /\ TouchEvery <= Retention
  /\ None \notin [hasRaw : BOOLEAN, updatedAt : Nat] \cup {"whole", "torn"} \cup Games \cup Nat

VARIABLES
  now,       \* the clock
  up,        \* the process runs
  meta,      \* Store.meta
  metaFile,  \* the metadata files, as the file system shows them
  metaDisk,  \*   and as they are on the disk
  rawFile,   \* the payload files, as the file system shows them
  rawDisk,   \*   and as they are on the disk
  op,        \* what the holder of Store.mu has yet to do
  seen,      \* history: when the list last held the game
  deleted    \* history: games deleted since they were last stored

vars == <<now, up, meta, metaFile, metaDisk, rawFile, rawDisk, op, seen, deleted>>

Metas == [hasRaw : BOOLEAN, updatedAt : 0 .. MaxNow]

NoOp == [step |-> "none", game |-> None, todo |-> {}]
Idle == up /\ op.step = "none"

Empty == [n \in Games |-> None]

Init ==
  /\ now = 0 /\ up = TRUE /\ op = NoOp
  /\ meta = Empty /\ metaFile = Empty /\ metaDisk = Empty
  /\ rawFile = Empty /\ rawDisk = Empty
  /\ seen = Empty /\ deleted = {}

Servable(m) == m # None /\ m.hasRaw

(* HasRaw *)
HasRaw(n) == Servable(meta[n])
-----------------------------------------------------------------------------
(* saveMetaLocked: memory, then the file, whose write may fail. *)
SaveMeta(n, m) ==
  /\ meta' = [meta EXCEPT ![n] = m]
  /\ metaFile' \in {metaFile, [metaFile EXCEPT ![n] = m]}

(* Mutant of Recent: an unchanged entry is never written again. *)
RecentForGood(n) == meta[n] # None

(* An entry's marker is recent enough to be left, if nothing else changed. *)
Recent(n) == meta[n] # None /\ now - meta[n].updatedAt < TouchEvery

(* UpsertListEntry, from a game list of O-Zone's or of central's. *)
UpsertListEntry(n) ==
  /\ Idle
  /\ \/ Recent(n) /\ UNCHANGED <<meta, metaFile>>
     \/ SaveMeta(n, [hasRaw |-> HasRaw(n), updatedAt |-> now])
  /\ seen' = [seen EXCEPT ![n] = now]
  /\ UNCHANGED <<now, up, metaDisk, rawFile, rawDisk, op, deleted>>

(* Mutant of WriteRaw: renamed into place, with nothing synced. *)
WriteRawUnsynced(n) ==
  /\ rawFile' = [rawFile EXCEPT ![n] = "whole"]
  /\ rawDisk' = [rawDisk EXCEPT ![n] = "torn"]

(* writeFileDurable: renamed into place, contents and name synced. *)
WriteRaw(n) ==
  /\ rawFile' = [rawFile EXCEPT ![n] = "whole"]
  /\ rawDisk' = [rawDisk EXCEPT ![n] = "whole"]

(* StoreGame: the payload (a write that fails changes nothing), and then    *)
(* the metadata, which makes it servable.                                   *)
StoreRaw(n) ==
  /\ Idle
  /\ WriteRaw(n)
  /\ op' = [step |-> "save", game |-> n, todo |-> {}]
  /\ deleted' = deleted \ {n}
  /\ UNCHANGED <<now, up, meta, metaFile, metaDisk, seen>>

StoreMeta(n) ==
  /\ up /\ op.step = "save" /\ op.game = n
  /\ SaveMeta(n, [hasRaw |-> TRUE, updatedAt |-> now])
  /\ op' = NoOp
  /\ UNCHANGED <<now, up, metaDisk, rawFile, rawDisk, seen, deleted>>

(* Prune and PurgeAll choose games, and delete them one by one. *)
Deletes(doomed) ==
  /\ Idle
  /\ doomed # {}
  /\ op' = [step |-> "delete", game |-> None, todo |-> doomed]
  /\ UNCHANGED <<now, up, meta, metaFile, metaDisk, rawFile, rawDisk, seen, deleted>>

Prune == Deletes({n \in Games : meta[n] # None /\ now - meta[n].updatedAt > Retention})

PurgeAll == Deletes({n \in Games : meta[n] # None})

(* Neither removal is synced, and an error of either is ignored. *)
RemoveRaw(n) ==
  /\ up /\ op.step = "delete" /\ n \in op.todo
  /\ rawFile' \in {rawFile, [rawFile EXCEPT ![n] = None]}
  /\ op' = [step |-> "unlink", game |-> n, todo |-> op.todo \ {n}]
  /\ deleted' = deleted \cup {n}
  /\ UNCHANGED <<now, up, meta, metaFile, metaDisk, rawDisk, seen>>

RemoveMeta(n) ==
  /\ up /\ op.step = "unlink" /\ op.game = n
  /\ metaFile' \in {metaFile, [metaFile EXCEPT ![n] = None]}
  /\ meta' = [meta EXCEPT ![n] = None]
  /\ op' = IF op.todo = {} THEN NoOp ELSE [op EXCEPT !.step = "delete", !.game = None]
  /\ UNCHANGED <<now, up, metaDisk, rawFile, rawDisk, seen, deleted>>
-----------------------------------------------------------------------------
Tick ==
  /\ now < MaxNow
  /\ now' = now + 1
  /\ UNCHANGED <<up, meta, metaFile, metaDisk, rawFile, rawDisk, op, seen, deleted>>

(* The file system writes a file's state back to the disk. *)
WriteBack(n) ==
  /\ \/ metaDisk' = [metaDisk EXCEPT ![n] = metaFile[n]] /\ UNCHANGED rawDisk
     \/ rawDisk' = [rawDisk EXCEPT ![n] = rawFile[n]] /\ UNCHANGED metaDisk
  /\ UNCHANGED <<now, up, meta, metaFile, rawFile, op, seen, deleted>>

(* The sighting of a game counts after a restart if what memory held of it  *)
(* is what the file holds.                                                  *)
Dies ==
  /\ up
  /\ up' = FALSE
  /\ meta' = Empty /\ op' = NoOp
  /\ seen' = [n \in Games |-> IF metaFile'[n] = meta[n] THEN seen[n] ELSE None]
  /\ UNCHANGED <<now, deleted>>

(* The process ends, at any point: Close has nothing to do. *)
Crash == UNCHANGED <<metaFile, metaDisk, rawFile, rawDisk>> /\ Dies

(* What was not written back is lost, or not; a metadata file written only  *)
(* in part is skipped when it is read.                                      *)
PowerCut ==
  /\ \E reverted \in SUBSET Games, partial \in SUBSET {n \in Games : metaFile[n] # metaDisk[n]} :
       metaFile' = [n \in Games |-> IF n \in partial THEN None
                                    ELSE IF n \in reverted THEN metaDisk[n] ELSE metaFile[n]]
  /\ \E reverted \in SUBSET Games :
       rawFile' = [n \in Games |-> IF n \in reverted THEN rawDisk[n] ELSE rawFile[n]]
  /\ metaDisk' = metaFile' /\ rawDisk' = rawFile'
  /\ Dies

(* Open and loadMeta. *)
Open ==
  /\ ~up
  /\ up' = TRUE
  /\ meta' = metaFile
  /\ UNCHANGED <<now, metaFile, metaDisk, rawFile, rawDisk, op, seen, deleted>>

Next ==
  \/ \E n \in Games :
       \/ UpsertListEntry(n) \/ StoreRaw(n) \/ StoreMeta(n)
       \/ RemoveRaw(n) \/ RemoveMeta(n) \/ WriteBack(n)
  \/ Prune \/ PurgeAll
  \/ Tick \/ Crash \/ PowerCut \/ Open

Spec == Init /\ [][Next]_vars
-----------------------------------------------------------------------------
TypeOK ==
  /\ now \in 0 .. MaxNow /\ up \in BOOLEAN
  /\ meta \in [Games -> Metas \cup {None}]
  /\ metaFile \in [Games -> Metas \cup {None}] /\ metaDisk \in [Games -> Metas \cup {None}]
  /\ rawFile \in [Games -> {None, "whole", "torn"}]
  /\ rawDisk \in [Games -> {None, "whole", "torn"}]
  /\ op \in [step : {"none", "save", "delete", "unlink"}, game : Games \cup {None},
             todo : SUBSET Games]
  /\ op.step = "delete" => op.todo # {}
  /\ seen \in [Games -> 0 .. MaxNow \cup {None}]
  /\ deleted \subseteq Games

(* What the index says can be served is on the file system, whole, after    *)
(* any crash and any power cut: HasRaw keeps refreshCache from ever fetching *)
(* it again.  But for a game deleted since it was stored: a deletion cut    *)
(* short leaves the metadata of a payload that is gone.                     *)
(* (writeRawLocked, StoreGame, loadMeta)                                    *)
StoredIsServable ==
  \A n \in Games \ deleted : HasRaw(n) => rawFile[n] = "whole"

(* metaTouchInterval's promise: a game O-Zone's list has held within the    *)
(* retention window is not pruned for being unchanged, but for the          *)
(* interval its marker may lag, in this run or, if the metadata was saved,  *)
(* a later one (UpsertListEntry, loadMeta, Prune).                          *)
KeepsSeen ==
  [][Prune => \A n \in op'.todo : seen[n] = None \/ now - seen[n] > Retention - TouchEvery]_vars
=============================================================================
