-------------------------------- MODULE Gate --------------------------------
(***************************************************************************)
(* The compaction fence of one partition on one node (engine/gate.go) and  *)
(* what runs through it: the single writes, the batches and the reads of   *)
(* engine/engine.go against the rotation steps of engine/rotation.go.      *)
(*                                                                         *)
(* A datastore (a *crdt.Datastore) is a number, a fresh one per Stage, and *)
(* is compared by identity, as multiBatch.Commit compares the pointers.    *)
(* The steps of an operation are cut where it holds neither g.mu nor p.mu. *)
(***************************************************************************)
EXTENDS Integers, FiniteSets

CONSTANTS
    Single,       \* single writes: Put and Delete of the engine
    Batch,        \* batches of a MULTI or a script: multiBatch
    Reader,       \* reads: Get, Has, QueryPrefix
    Participant,  \* TRUE: the rotation activates an empty generation and waits for the
                  \* seed (onSwitch); FALSE: it is seeded here (Compact, RotatePartition)
    MaxStores     \* bound: number of datastores opened

ASSUME OpsAssumption ==
    /\ IsFiniteSet(Single) /\ IsFiniteSet(Batch)
    /\ Single \cap Batch = {}
ASSUME StoresAssumption == MaxStores \in Nat /\ Participant \in BOOLEAN

Op == Single \cup Batch
Stores == 0 .. MaxStores
NoStore == -1

VARIABLES
    frozen, blockReads, inflight,  \* the gate
    cur, prev, staged,             \* p.crdt, p.oldDS, p.staged
    last,                          \* the last datastore opened
    data,                          \* data[s]: the writes datastore s holds
    rot,                           \* where the rotation is
    op,                            \* op[w]: where the write is
    opened,                        \* opened[b]: the datastore a batch was opened on
    read,                          \* read[r]: where the read is
    want,                          \* want[r]: the writes acknowledged when it started
    seen                           \* seen[r]: the writes it returned

gate == <<frozen, blockReads, inflight>>
stores == <<cur, prev, staged, last>>
reads == <<read, want, seen>>
vars == <<gate, stores, data, rot, op, opened, reads>>

Admitted == {"admitted", "checked", "applied"}
InGate == {w \in Op : op[w] \in Admitted}
Acked == {w \in Op : op[w] = "acked"}

Init ==
    /\ frozen = FALSE /\ blockReads = FALSE /\ inflight = 0
    /\ cur = 0 /\ prev = NoStore /\ staged = NoStore /\ last = 0
    /\ data = [s \in Stores |-> {}]
    /\ rot = "idle"
    /\ op = [w \in Op |-> "idle"]
    /\ opened = [b \in Batch |-> NoStore]
    /\ read = [r \in Reader |-> "idle"]
    /\ want = [r \in Reader |-> {}]
    /\ seen = [r \in Reader |-> {}]

-----------------------------------------------------------------------------
(* Writes                                                                  *)

(***************************************************************************)
(* beginWrite: wait while the partition is frozen, then count in.          *)
(***************************************************************************)
BeginWrite(w) ==
    /\ ~frozen
    /\ op' = [op EXCEPT ![w] = "admitted"]
    /\ inflight' = inflight + 1
    /\ UNCHANGED <<frozen, blockReads, stores, data, rot, opened, reads>>

(***************************************************************************)
(* gateWait is over: ErrPartitionBusy, nothing was written.                *)
(***************************************************************************)
Busy(w) ==
    /\ frozen
    /\ op' = [op EXCEPT ![w] = "failed"]
    /\ UNCHANGED <<gate, stores, data, rot, opened, reads>>

(***************************************************************************)
(* The function beginWrite returns.                                        *)
(***************************************************************************)
EndWrite(w, as) ==
    /\ op' = [op EXCEPT ![w] = as]
    /\ inflight' = inflight - 1
    /\ UNCHANGED <<frozen, blockReads>>

PutBegin(w) == op[w] = "idle" /\ (BeginWrite(w) \/ Busy(w))

PutApply(w) ==
    /\ op[w] = "admitted"
    /\ data' = [data EXCEPT ![cur] = @ \cup {w}]
    /\ op' = [op EXCEPT ![w] = "applied"]
    /\ UNCHANGED <<gate, stores, rot, opened, reads>>

WriteEnd(w) ==
    /\ op[w] = "applied"
    /\ EndWrite(w, "acked")
    /\ UNCHANGED <<stores, data, rot, opened, reads>>

-----------------------------------------------------------------------------
(* Batches                                                                 *)

(***************************************************************************)
(* sub: pass the read gate (or fail after gateWait), then open a batch on  *)
(* the current datastore.                                                  *)
(***************************************************************************)
BatchPass(b) ==
    /\ op[b] = "idle"
    /\ op' = [op EXCEPT ![b] = IF blockReads THEN "failed" ELSE "passed"]
    /\ UNCHANGED <<gate, stores, data, rot, opened, reads>>

BatchOpen(b) ==
    /\ op[b] = "passed"
    /\ opened' = [opened EXCEPT ![b] = cur]
    /\ op' = [op EXCEPT ![b] = "open"]
    /\ UNCHANGED <<gate, stores, data, rot, reads>>

BatchBegin(b) == op[b] = "open" /\ (BeginWrite(b) \/ Busy(b))

SameAlways(b) == TRUE

(***************************************************************************)
(* Commit compares the datastores under p.mu, releases it, and commits.    *)
(***************************************************************************)
Same(b) == opened[b] = cur

BatchCheck(b) ==
    /\ op[b] = "admitted"
    /\ \/ Same(b) /\ op' = [op EXCEPT ![b] = "checked"] /\ UNCHANGED gate
       \/ ~Same(b) /\ EndWrite(b, "failed")
    /\ UNCHANGED <<stores, data, rot, opened, reads>>

BatchApply(b) ==
    /\ op[b] = "checked"
    /\ data' = [data EXCEPT ![opened[b]] = @ \cup {b}]
    /\ op' = [op EXCEPT ![b] = "applied"]
    /\ UNCHANGED <<gate, stores, rot, opened, reads>>

-----------------------------------------------------------------------------
(* Reads                                                                   *)

(***************************************************************************)
(* readable: wait while reads are blocked; active then takes p.mu.         *)
(***************************************************************************)
ReadPass(r) ==
    /\ read[r] = "idle" /\ ~blockReads
    /\ read' = [read EXCEPT ![r] = "passed"]
    /\ want' = [want EXCEPT ![r] = Acked]
    /\ UNCHANGED <<gate, stores, data, rot, op, opened, seen>>

ReadBusy(r) ==
    /\ read[r] = "idle" /\ blockReads
    /\ read' = [read EXCEPT ![r] = "failed"]
    /\ UNCHANGED <<gate, stores, data, rot, op, opened, want, seen>>

ReadStore(r) ==
    /\ read[r] = "passed"
    /\ read' = [read EXCEPT ![r] = "done"]
    /\ seen' = [seen EXCEPT ![r] = data[cur]]
    /\ UNCHANGED <<gate, stores, data, rot, op, opened, want>>

-----------------------------------------------------------------------------
(* Rotation                                                                *)

Freeze ==
    /\ rot = "idle" /\ last < MaxStores
    /\ frozen' = TRUE
    /\ rot' = "freeze"
    /\ UNCHANGED <<blockReads, inflight, stores, data, op, opened, reads>>

DrainedAtOnce ==
    /\ rot = "freeze"
    /\ rot' = "frozen"
    /\ UNCHANGED <<gate, stores, data, op, opened, reads>>

Drained ==
    /\ rot = "freeze" /\ inflight = 0
    /\ rot' = "frozen"
    /\ UNCHANGED <<gate, stores, data, op, opened, reads>>

Thaw ==
    /\ frozen' = FALSE /\ blockReads' = FALSE
    /\ rot' = "idle"
    /\ UNCHANGED <<inflight, stores, data, op, opened, reads>>

(***************************************************************************)
(* freeze gives up after gateWait, or a prepared replica is told to thaw.  *)
(***************************************************************************)
FreezeFails == rot = "freeze" /\ inflight > 0 /\ Thaw
Abandon == rot = "frozen" /\ Thaw

NoSeed == {}

(***************************************************************************)
(* What Stage puts in the next generation: the live state, if it seeds.    *)
(***************************************************************************)
Seed == IF Participant THEN {} ELSE data[cur]

Stage ==
    /\ rot = "frozen"
    /\ staged' = last + 1 /\ last' = last + 1
    /\ data' = [data EXCEPT ![last + 1] = Seed]
    /\ rot' = "staged"
    /\ UNCHANGED <<gate, cur, prev, op, opened, reads>>

Activate ==
    /\ rot = "staged"
    /\ prev' = cur /\ cur' = staged /\ staged' = NoStore
    /\ blockReads' = (blockReads \/ Participant)
    /\ rot' = IF Participant THEN "unseeded" ELSE "active"
    /\ UNCHANGED <<frozen, inflight, last, data, op, opened, reads>>

(***************************************************************************)
(* The seed replicates here: the coordinator's live state, which the cut   *)
(* made equal to this replica's.  WaitSeed then opens the reads.           *)
(***************************************************************************)
SeedArrives ==
    /\ rot = "unseeded"
    /\ data' = [data EXCEPT ![cur] = @ \cup data[prev]]
    /\ rot' = "seeded"
    /\ UNCHANGED <<gate, stores, op, opened, reads>>

WaitSeed ==
    /\ rot = "seeded"
    /\ blockReads' = FALSE
    /\ rot' = "active"
    /\ UNCHANGED <<frozen, inflight, stores, data, op, opened, reads>>

Commit ==
    /\ rot = "active"
    /\ data' = [data EXCEPT ![prev] = {}]
    /\ prev' = NoStore
    /\ rot' = "thaw"
    /\ UNCHANGED <<gate, cur, staged, last, op, opened, reads>>

KeepsNew == cur

(***************************************************************************)
(* The datastore Rollback restores.                                        *)
(***************************************************************************)
Restored == prev

RollbackStaged ==
    /\ rot = "staged"
    /\ data' = [data EXCEPT ![staged] = {}]
    /\ staged' = NoStore
    /\ blockReads' = FALSE
    /\ rot' = "thaw"
    /\ UNCHANGED <<frozen, inflight, cur, prev, last, op, opened, reads>>

Rollback ==
    /\ rot \in {"unseeded", "seeded", "active"}
    /\ data' = [data EXCEPT ![cur] = {}]
    /\ cur' = Restored /\ prev' = NoStore
    /\ blockReads' = FALSE
    /\ rot' = "thaw"
    /\ UNCHANGED <<frozen, inflight, staged, last, op, opened, reads>>

Unfreeze == rot = "thaw" /\ Thaw

-----------------------------------------------------------------------------
Writes ==
    \/ \E w \in Single : PutBegin(w) \/ PutApply(w)
    \/ \E b \in Batch : BatchPass(b) \/ BatchOpen(b) \/ BatchBegin(b) \/ BatchCheck(b) \/ BatchApply(b)
    \/ \E w \in Op : WriteEnd(w)

Reads == \E r \in Reader : ReadPass(r) \/ ReadBusy(r) \/ ReadStore(r)

Rotates ==
    \/ Freeze \/ Drained \/ FreezeFails \/ Abandon \/ Stage \/ Activate \/ SeedArrives \/ WaitSeed
    \/ Commit \/ RollbackStaged \/ Rollback \/ Unfreeze

Next == Writes \/ Reads \/ Rotates

Spec == Init /\ [][Next]_vars

-----------------------------------------------------------------------------
Cut == {"frozen", "staged", "unseeded", "seeded", "active", "thaw"}
OpStates == {"idle", "passed", "open", "failed", "acked"} \cup Admitted

TypeOK ==
    /\ frozen \in BOOLEAN /\ blockReads \in BOOLEAN /\ inflight \in Nat
    /\ cur \in Stores /\ prev \in Stores \cup {NoStore} /\ staged \in Stores \cup {NoStore}
    /\ last \in Stores
    /\ data \in [Stores -> SUBSET Op]
    /\ rot \in {"idle", "freeze"} \cup Cut
    /\ op \in [Op -> OpStates]
    /\ opened \in [Batch -> Stores \cup {NoStore}]
    /\ read \in [Reader -> {"idle", "passed", "done", "failed"}]
    /\ want \in [Reader -> SUBSET Op] /\ seen \in [Reader -> SUBSET Op]

\* FencedCut: from the end of Freeze to Unfreeze no write is between beginWrite and
\* its end, whether freeze counted it or not: nothing is minted while the replicas
\* are compared and the datastores swapped.
FencedCut == rot \in Cut => InGate = {}

\* ReadsKeep: a read returns every write that was acknowledged before it passed the
\* gate, whatever the rotation does meanwhile.
ReadsKeep == \A r \in Reader : read[r] = "done" => want[r] \subseteq seen[r]

(***************************************************************************)
(* The writes the partition holds: those of the generation that stays if   *)
(* the rotation rolls back, until it commits.                              *)
(***************************************************************************)
Visible == IF prev = NoStore THEN data[cur] ELSE data[prev]

Store == INSTANCE AtomicStore WITH Write <- Op, data <- Visible

\* RotationInvisible: whatever rotations do, the partition is an atomic store: each
\* write lands once, in the datastore that stays, and none is lost or undone by
\* Commit or Rollback.
RotationInvisible == Store!Spec

\* AckedKept: an acknowledged write is in the store, and one refused with
\* ErrPartitionBusy or ErrGenerationChanged is not.
AckedKept ==
    \A w \in Op : /\ op[w] \in {"applied", "acked"} => w \in Visible
                  /\ op[w] \notin {"applied", "acked"} => w \notin Visible
=============================================================================
