----------------------------- MODULE GateProofs -----------------------------
(***************************************************************************)
(* The fence holds for any number of writes, batches, reads and rotations: *)
(* nothing is written across the cut, and a partition that rotates is an   *)
(* atomic store.                                                           *)
(***************************************************************************)
EXTENDS Gate, FiniteSetTheorems, TLAPS

(***************************************************************************)
(* The count of the gate is the number of writes between beginWrite and    *)
(* its end, and a rotation holds the gate frozen.                          *)
(***************************************************************************)
Counted == inflight = Cardinality(InGate)

Held == (rot # "idle") => frozen

InDoubt == {"unseeded", "seeded", "active"}

(***************************************************************************)
(* Which datastores exist where in a rotation, and what they hold.         *)
(***************************************************************************)
Shape ==
    /\ (prev # NoStore) <=> (rot \in InDoubt)
    /\ cur <= last /\ prev <= last
    /\ prev # cur
    /\ rot \in {"freeze", "frozen"} => last < MaxStores
    /\ rot = "staged" => staged \in Stores /\ staged # cur /\ staged <= last
    /\ rot = "staged" => data[staged] = Seed
    /\ rot = "unseeded" => data[cur] = {}
    /\ rot \in {"seeded", "active"} => data[cur] = data[prev]

(***************************************************************************)
(* A batch that passed the comparison is still on the current datastore.   *)
(***************************************************************************)
CheckedCurrent == \A b \in Batch : op[b] = "checked" => opened[b] = cur

Fence == TypeOK /\ Counted /\ Held /\ FencedCut

Inv == Fence /\ Shape /\ CheckedCurrent /\ AckedKept

-----------------------------------------------------------------------------
(* The writes in the gate.                                                 *)

LEMMA InGateFinite == IsFiniteSet(Op)
  BY OpsAssumption, FS_Union, ZenonT(40) DEF OpsAssumption, Op

LEMMA Enters ==
  ASSUME TypeOK, Counted, NEW w \in Op, op[w] \notin Admitted, BeginWrite(w)
  PROVE  Counted' /\ inflight' \in Nat
<1>1. InGate' = InGate \cup {w}
  BY ZenonT(40) DEF TypeOK, InGate, BeginWrite, Admitted
<1>2. IsFiniteSet(InGate) /\ w \notin InGate
  BY InGateFinite, FS_Subset, ZenonT(40) DEF InGate
<1>3. Cardinality(InGate') = Cardinality(InGate) + 1
  BY <1>1, <1>2, FS_AddElement, ZenonT(40)
<1> QED
  BY <1>3 DEF Counted, BeginWrite, TypeOK

LEMMA Leaves ==
  ASSUME TypeOK, Counted, NEW w \in Op, op[w] \in Admitted,
         NEW as \in {"acked", "failed"}, EndWrite(w, as)
  PROVE  Counted' /\ inflight' \in Nat
<1>1. InGate' = InGate \ {w}
  BY ZenonT(40) DEF TypeOK, InGate, EndWrite, Admitted
<1>2. IsFiniteSet(InGate) /\ w \in InGate
  BY InGateFinite, FS_Subset, ZenonT(40) DEF InGate
<1>3. Cardinality(InGate') = Cardinality(InGate) - 1
  BY <1>1, <1>2, FS_RemoveElement, ZenonT(40)
<1>4. IsFiniteSet(InGate') /\ Cardinality(InGate') \in Nat
  BY <1>1, <1>2, FS_RemoveElement, FS_CardinalityType, ZenonT(40)
<1> QED
  BY <1>3, <1>4, ZenonT(40) DEF Counted, EndWrite, TypeOK

LEMMA Stays ==
  ASSUME Counted, InGate' = InGate, inflight' = inflight
  PROVE  Counted'
  BY ZenonT(40) DEF Counted

(***************************************************************************)
(* freeze's wait is over only when every write has left.                   *)
(***************************************************************************)
LEMMA Empties ==
  ASSUME Counted, inflight = 0
  PROVE  InGate = {}
<1>1. IsFiniteSet(InGate)
  BY InGateFinite, FS_Subset, ZenonT(40) DEF InGate
<1> QED
  BY <1>1, FS_EmptySet, ZenonT(40) DEF Counted

-----------------------------------------------------------------------------
(* The fence.                                                              *)

LEMMA InitFence == Init => Fence
<1> SUFFICES ASSUME Init PROVE Fence
  BY ZenonT(40)
<1>1. TypeOK
  <2>1. 0 \in Stores
    BY StoresAssumption DEF StoresAssumption, Stores
  <2> QED
    BY <2>1, ZenonT(40) DEF Init, TypeOK, OpStates
<1>2. InGate = {}
  BY ZenonT(40) DEF Init, InGate, Admitted
<1>3. Counted
  BY <1>2, FS_EmptySet, ZenonT(40) DEF Init, Counted
<1> QED
  BY <1>1, <1>2, <1>3, ZenonT(40) DEF Fence, Held, FencedCut, Init

LEMMA BeginFence ==
  ASSUME Fence, NEW w \in Op, op[w] \in {"idle", "open"}, BeginWrite(w)
  PROVE  Fence'
<1>1. Counted' /\ inflight' \in Nat
  BY Enters, ZenonT(40) DEF Fence, Admitted
<1>2. TypeOK'
  BY <1>1, ZenonT(40) DEF Fence, TypeOK, BeginWrite, stores, reads, OpStates, Admitted
<1>3. rot = "idle" /\ rot' = "idle"
  BY ZenonT(40) DEF Fence, Held, BeginWrite
<1> QED
  BY <1>1, <1>2, <1>3, ZenonT(40) DEF Fence, Held, FencedCut, Cut

LEMMA EndFence ==
  ASSUME Fence, NEW w \in Op, op[w] \in Admitted, NEW as \in {"acked", "failed"},
         EndWrite(w, as), UNCHANGED <<stores, data, rot, opened, reads>>
  PROVE  Fence'
<1>1. Counted' /\ inflight' \in Nat
  BY Leaves, ZenonT(40) DEF Fence
<1>2. TypeOK'
  BY <1>1, ZenonT(40) DEF Fence, TypeOK, EndWrite, stores, reads, OpStates, Admitted
<1>3. rot' \notin Cut
  BY ZenonT(40) DEF Fence, FencedCut, InGate
<1> QED
  BY <1>1, <1>2, <1>3, ZenonT(40) DEF Fence, Held, FencedCut, EndWrite

(***************************************************************************)
(* A step that leaves the gate, the rotation and the set of writes inside  *)
(* alone.                                                                  *)
(***************************************************************************)
LEMMA SameFence ==
  ASSUME Fence, TypeOK', UNCHANGED <<gate, rot>>, InGate' = InGate
  PROVE  Fence'
  BY ZenonT(40) DEF Fence, Counted, Held, FencedCut, gate

LEMMA WritesFence ==
  ASSUME Fence, Writes
  PROVE  Fence'
<1> USE DEF Fence
<1>0. TypeOK
  BY ZenonT(40)
<1>1. ASSUME NEW w \in Single, PutBegin(w) PROVE Fence'
  <2>1. w \in Op /\ op[w] = "idle"
    BY <1>1, ZenonT(40) DEF PutBegin, Op
  <2>2. CASE BeginWrite(w)
    BY <2>1, <2>2, BeginFence, ZenonT(40)
  <2>3. CASE Busy(w)
    <3>1. TypeOK'
      BY <1>0, <2>1, <2>3, ZenonT(40) DEF TypeOK, Busy, gate, stores, reads, OpStates
    <3>2. InGate' = InGate
      BY <1>0, <2>1, <2>3, ZenonT(40) DEF TypeOK, Busy, InGate, Admitted
    <3> QED
      BY <2>3, <3>1, <3>2, SameFence, ZenonT(40) DEF Busy
  <2> QED
    BY <1>1, <2>2, <2>3, ZenonT(40) DEF PutBegin
<1>2. ASSUME NEW w \in Single, PutApply(w) PROVE Fence'
  <2>1. w \in Op
    BY ZenonT(40) DEF Op
  <2>2. TypeOK'
    BY <1>0, <1>2, <2>1, ZenonT(40) DEF TypeOK, PutApply, gate, stores, reads, OpStates, Admitted
  <2>3. InGate' = InGate
    BY <1>0, <1>2, <2>1, ZenonT(40) DEF TypeOK, PutApply, InGate, Admitted
  <2> QED
    BY <1>2, <2>2, <2>3, SameFence, ZenonT(40) DEF PutApply
<1>3. ASSUME NEW b \in Batch, BatchPass(b) \/ BatchOpen(b) \/ BatchApply(b) PROVE Fence'
  <2>1. b \in Op
    BY ZenonT(40) DEF Op
  <2>2. CASE BatchPass(b)
    <3>1. TypeOK'
      BY <1>0, <2>1, <2>2, ZenonT(40) DEF TypeOK, BatchPass, gate, stores, reads, OpStates
    <3>2. InGate' = InGate
      BY <1>0, <2>1, <2>2, ZenonT(40) DEF TypeOK, BatchPass, InGate, Admitted
    <3> QED
      BY <2>2, <3>1, <3>2, SameFence, ZenonT(40) DEF BatchPass
  <2>3. CASE BatchOpen(b)
    <3>1. TypeOK'
      BY <1>0, <2>1, <2>3, ZenonT(40) DEF TypeOK, BatchOpen, gate, stores, reads, OpStates
    <3>2. InGate' = InGate
      BY <1>0, <2>1, <2>3, ZenonT(40) DEF TypeOK, BatchOpen, InGate, Admitted
    <3> QED
      BY <2>3, <3>1, <3>2, SameFence, ZenonT(40) DEF BatchOpen
  <2>4. CASE BatchApply(b)
    <3>1. TypeOK'
      BY <1>0, <2>1, <2>4, ZenonT(40)
         DEF TypeOK, BatchApply, gate, stores, reads, OpStates, Admitted
    <3>2. InGate' = InGate
      BY <1>0, <2>1, <2>4, ZenonT(40) DEF TypeOK, BatchApply, InGate, Admitted
    <3> QED
      BY <2>4, <3>1, <3>2, SameFence, ZenonT(40) DEF BatchApply
  <2> QED
    BY <1>3, <2>2, <2>3, <2>4, ZenonT(40)
<1>4. ASSUME NEW b \in Batch, BatchBegin(b) PROVE Fence'
  <2>1. b \in Op /\ op[b] = "open"
    BY <1>4, ZenonT(40) DEF BatchBegin, Op
  <2>2. CASE BeginWrite(b)
    BY <2>1, <2>2, BeginFence, ZenonT(40)
  <2>3. CASE Busy(b)
    <3>1. TypeOK'
      BY <1>0, <2>1, <2>3, ZenonT(40) DEF TypeOK, Busy, gate, stores, reads, OpStates
    <3>2. InGate' = InGate
      BY <1>0, <2>1, <2>3, ZenonT(40) DEF TypeOK, Busy, InGate, Admitted
    <3> QED
      BY <2>3, <3>1, <3>2, SameFence, ZenonT(40) DEF Busy
  <2> QED
    BY <1>4, <2>2, <2>3, ZenonT(40) DEF BatchBegin
<1>5. ASSUME NEW b \in Batch, BatchCheck(b) PROVE Fence'
  <2>1. b \in Op /\ op[b] \in Admitted
    BY <1>5, ZenonT(40) DEF BatchCheck, Op, Admitted
  <2>2. CASE EndWrite(b, "failed")
    BY <1>5, <2>1, <2>2, EndFence, ZenonT(40) DEF BatchCheck
  <2>3. CASE op' = [op EXCEPT ![b] = "checked"] /\ UNCHANGED gate
    <3>1. TypeOK'
      BY <1>0, <1>5, <2>1, <2>3, ZenonT(40)
         DEF TypeOK, BatchCheck, gate, stores, reads, OpStates, Admitted
    <3>2. InGate' = InGate
      BY <1>0, <2>1, <2>3, ZenonT(40) DEF TypeOK, InGate, Admitted
    <3> QED
      BY <1>5, <2>3, <3>1, <3>2, SameFence, ZenonT(40) DEF BatchCheck
  <2> QED
    BY <1>5, <2>2, <2>3, ZenonT(40) DEF BatchCheck
<1>6. ASSUME NEW w \in Op, WriteEnd(w) PROVE Fence'
  BY <1>6, EndFence, ZenonT(40) DEF WriteEnd, Admitted
<1> QED
  BY <1>1, <1>2, <1>3, <1>4, <1>5, <1>6, ZenonT(40) DEF Writes

LEMMA ReadsFence ==
  ASSUME Fence, Reads
  PROVE  Fence'
<1>1. UNCHANGED <<gate, stores, data, rot, op, opened>>
  BY ZenonT(40) DEF Reads, ReadPass, ReadBusy, ReadStore
<1>2. TypeOK'
  BY <1>1 DEF Fence, Reads, ReadPass, ReadBusy, ReadStore, TypeOK, gate, stores, Acked
<1>3. InGate' = InGate
  BY <1>1, ZenonT(40) DEF InGate
<1> QED
  BY <1>1, <1>2, <1>3, SameFence, ZenonT(40)
LEMMA RotatesFence ==
  ASSUME Fence, Rotates, Shape
  PROVE  Fence'
<1> USE DEF Fence, TypeOK
<1>0. InGate' = InGate
  BY SMTT(40)
     DEF Rotates, Freeze, Drained, FreezeFails, Abandon, Thaw, Stage, Activate, SeedArrives,
         WaitSeed, Commit, RollbackStaged, Rollback, Unfreeze, InGate
<1>1. inflight' = inflight
  BY ZenonT(40)
     DEF Rotates, Freeze, Drained, FreezeFails, Abandon, Thaw, Stage, Activate, SeedArrives,
         WaitSeed, Commit, RollbackStaged, Rollback, Unfreeze, gate
<1>2. Counted'
  BY <1>0, <1>1, Stays, ZenonT(40)
<1>3. CASE Freeze
  BY <1>0, <1>1, <1>2, <1>3, ZenonT(40) DEF Freeze, stores, reads, Held, FencedCut, Cut
<1>4. CASE Drained
  <2>1. InGate = {}
    BY <1>4, Empties, ZenonT(40) DEF Drained
  <2> QED
    BY <1>0, <1>1, <1>2, <1>4, <2>1, ZenonT(40)
       DEF Drained, gate, stores, reads, Held, FencedCut, Cut
<1>5. CASE FreezeFails \/ Abandon \/ Unfreeze
  BY <1>0, <1>1, <1>2, <1>5, ZenonT(40)
     DEF FreezeFails, Abandon, Unfreeze, Thaw, stores, reads, Held,
     FencedCut, Cut
<1>6. CASE Stage
  <2>1. rot \in Cut /\ rot' \in Cut /\ rot' # "idle" /\ rot # "idle" /\ frozen' = frozen
    BY <1>6, ZenonT(40) DEF Stage, Cut, gate
  <2>2. last + 1 \in Stores
    BY <1>6, StoresAssumption DEF Stage, Shape, StoresAssumption, Stores
  <2>3. Seed \in SUBSET Op
    BY ZenonT(40) DEF Seed
  <2>4. data' \in [Stores -> SUBSET Op]
    BY <1>6, <2>3, ZenonT(40) DEF Stage
  <2> QED
    BY <1>0, <1>1, <1>2, <1>6, <2>1, <2>2, <2>4 DEF Stage, gate, reads, Held, FencedCut, Cut
<1>7. CASE Activate
  BY <1>0, <1>1, <1>2, <1>7, StoresAssumption, ZenonT(40)
     DEF Activate, StoresAssumption, reads, Held, FencedCut, Cut, Shape
<1>8. CASE SeedArrives
  BY <1>0, <1>1, <1>2, <1>8, ZenonT(40)
     DEF SeedArrives, gate, stores, reads, Held, FencedCut, Cut, Shape, InDoubt
<1>9. CASE WaitSeed
  BY <1>0, <1>1, <1>2, <1>9, ZenonT(40) DEF WaitSeed, stores, reads, Held, FencedCut, Cut
<1>10. CASE Commit
  BY <1>0, <1>1, <1>2, <1>10, ZenonT(40) DEF Commit, gate, reads, Held, FencedCut, Cut
<1>11. CASE RollbackStaged
  BY <1>0, <1>1, <1>2, <1>11, ZenonT(40) DEF RollbackStaged, reads, Held, FencedCut, Cut
<1>12. CASE Rollback
  BY <1>0, <1>1, <1>2, <1>12, ZenonT(40)
     DEF Rollback, Restored, reads, Held, FencedCut, Cut, Shape, InDoubt
<1> QED
  BY <1>3, <1>4, <1>5, <1>6, <1>7, <1>8, <1>9, <1>10, <1>11, <1>12, ZenonT(40) DEF Rotates
-----------------------------------------------------------------------------
(* What the datastores hold.                                               *)

LEMMA InitInv == Init => Inv
<1> SUFFICES ASSUME Init PROVE Inv
  BY ZenonT(40)
<1>1. 0 \in Stores
  BY StoresAssumption DEF StoresAssumption, Stores
<1>2. Shape /\ CheckedCurrent
  BY <1>1, StoresAssumption
     DEF StoresAssumption, Init, Shape, CheckedCurrent, InDoubt, NoStore, Stores, Op
<1>3. AckedKept
  BY <1>1, ZenonT(40) DEF Init, AckedKept, Visible
<1> QED
  BY <1>2, <1>3, InitFence, ZenonT(40) DEF Inv

(***************************************************************************)
(* What a step does to the contents: nothing, or one write lands.          *)
(***************************************************************************)
Lands(w) ==
    /\ w \notin Visible /\ Visible' = Visible \cup {w}
    /\ op' = [op EXCEPT ![w] = "applied"]

LEMMA LandsKept ==
  ASSUME TypeOK, AckedKept, NEW w \in Op, Lands(w)
  PROVE  AckedKept'
  BY ZenonT(40) DEF TypeOK, AckedKept, Lands

LEMMA PutLands ==
  ASSUME Inv, NEW w \in Single, PutApply(w)
  PROVE  Shape' /\ CheckedCurrent' /\ Lands(w)
<1>1. w \in Op /\ w \notin Batch /\ op[w] = "admitted"
  BY OpsAssumption, ZenonT(40) DEF Op, OpsAssumption, PutApply
<1>2. rot \notin Cut
  BY <1>1, ZenonT(40) DEF Inv, Fence, FencedCut, InGate, Admitted
<1>3. prev = NoStore /\ rot \notin InDoubt /\ rot # "staged"
  BY <1>2, ZenonT(40) DEF Inv, Shape, Cut, InDoubt
<1>4. UNCHANGED <<cur, prev, staged, last, rot, opened>>
  BY ZenonT(40) DEF PutApply, stores
<1>5. Shape'
  BY <1>3, <1>4, ZenonT(40) DEF Inv, Shape, InDoubt
<1>6. CheckedCurrent'
  BY <1>1, <1>4 DEF Inv, Fence, TypeOK, CheckedCurrent, PutApply
<1>7. data'[cur] = data[cur] \cup {w}
  BY ZenonT(40) DEF Inv, Fence, TypeOK, PutApply
<1>8. w \notin Visible
  BY <1>1, ZenonT(40) DEF Inv, AckedKept
<1>9. Visible' = Visible \cup {w}
  BY <1>3, <1>4, <1>7, ZenonT(40) DEF Visible
<1> QED
  BY <1>5, <1>6, <1>8, <1>9, ZenonT(40) DEF Lands, PutApply

LEMMA BatchLands ==
  ASSUME Inv, NEW b \in Batch, BatchApply(b)
  PROVE  Shape' /\ CheckedCurrent' /\ Lands(b)
<1>1. b \in Op /\ op[b] = "checked" /\ opened[b] = cur
  BY ZenonT(40) DEF Op, BatchApply, Inv, CheckedCurrent
<1>2. rot \notin Cut
  BY <1>1, ZenonT(40) DEF Inv, Fence, FencedCut, InGate, Admitted
<1>3. prev = NoStore /\ rot \notin InDoubt /\ rot # "staged"
  BY <1>2, ZenonT(40) DEF Inv, Shape, Cut, InDoubt
<1>4. UNCHANGED <<cur, prev, staged, last, rot, opened>>
  BY ZenonT(40) DEF BatchApply, stores
<1>5. Shape'
  BY <1>3, <1>4, ZenonT(40) DEF Inv, Shape, InDoubt
<1>6. CheckedCurrent'
  BY <1>1, <1>4, ZenonT(40) DEF Inv, Fence, TypeOK, CheckedCurrent, BatchApply, Op
<1>7. data'[cur] = data[cur] \cup {b}
  BY <1>1, ZenonT(40) DEF Inv, Fence, TypeOK, BatchApply
<1>8. b \notin Visible
  BY <1>1, ZenonT(40) DEF Inv, AckedKept
<1>9. Visible' = Visible \cup {b}
  BY <1>3, <1>4, <1>7, ZenonT(40) DEF Visible
<1> QED
  BY <1>5, <1>6, <1>8, <1>9, ZenonT(40) DEF Lands, BatchApply

(***************************************************************************)
(* Every other step of a write or a batch leaves the datastores alone.     *)
(***************************************************************************)
Moves ==
    \/ \E w \in Single : PutBegin(w)
    \/ \E b \in Batch : BatchPass(b) \/ BatchOpen(b) \/ BatchBegin(b) \/ BatchCheck(b)
    \/ \E w \in Op : WriteEnd(w)

LEMMA MovesKeep ==
  ASSUME Inv, Moves
  PROVE  Shape' /\ CheckedCurrent' /\ AckedKept' /\ UNCHANGED Visible
<1> USE DEF Inv, Fence, TypeOK
<1>1. UNCHANGED <<stores, data, rot>>
  BY ZenonT(40)
     DEF Moves, PutBegin, BatchPass, BatchOpen, BatchBegin, BatchCheck, WriteEnd, BeginWrite, Busy
<1>2. UNCHANGED <<cur, prev, staged, last>>
  BY <1>1, ZenonT(40) DEF stores
<1>3. Shape' /\ UNCHANGED Visible
  BY <1>1, <1>2, ZenonT(40) DEF Shape, Visible, Seed
<1>4. ASSUME NEW w \in Op
      PROVE  op'[w] \in {"applied", "acked"} <=> op[w] \in {"applied", "acked"}
  BY ZenonT(40)
     DEF Moves, PutBegin, BatchPass, BatchOpen, BatchBegin, BatchCheck, WriteEnd, BeginWrite,
     Busy,
         EndWrite, Op
<1>5. AckedKept'
  BY <1>3, <1>4, ZenonT(40) DEF AckedKept
<1>6. CheckedCurrent'
  BY <1>2, ZenonT(40)
     DEF CheckedCurrent, Moves, PutBegin, BatchPass, BatchOpen, BatchBegin, BatchCheck, WriteEnd,
         BeginWrite, Busy, EndWrite, Same, Op
<1> QED
  BY <1>3, <1>5, <1>6, ZenonT(40)
LEMMA RotatesKeep ==
  ASSUME Inv, Rotates
  PROVE  Shape' /\ CheckedCurrent' /\ AckedKept' /\ UNCHANGED Visible
<1> USE DEF Inv, Fence, TypeOK
<1>1. UNCHANGED <<op, opened>>
  BY ZenonT(40)
     DEF Rotates, Freeze, Drained, FreezeFails, Abandon, Thaw, Stage, Activate, SeedArrives,
         WaitSeed, Commit, RollbackStaged, Rollback, Unfreeze
<1>2. Shape' /\ UNCHANGED Visible
  <2>1. CASE Freeze
    BY <2>1, ZenonT(40) DEF Freeze, stores, Shape, InDoubt, Visible
  <2>2. CASE Drained \/ FreezeFails \/ Abandon \/ Unfreeze
    BY <2>2, ZenonT(40)
       DEF Drained, FreezeFails, Abandon, Unfreeze, Thaw, stores, Shape, InDoubt, Visible
  <2>3. CASE Stage
    <3>1. prev = NoStore /\ last + 1 \in Stores /\ cur # last + 1
      BY <2>3, StoresAssumption DEF Stage, Shape, InDoubt, StoresAssumption, Stores
    <3>2. data'[last + 1] = Seed /\ data'[cur] = data[cur] /\ UNCHANGED <<cur, prev>>
      BY <2>3, <3>1, ZenonT(40) DEF Stage
    <3>3. Seed' = Seed
      BY <3>2, ZenonT(40) DEF Seed
    <3>4. last' = last + 1 /\ staged' = last + 1 /\ rot' = "staged"
      BY <2>3, ZenonT(40) DEF Stage
    <3>5. cur <= last /\ prev <= last /\ last \in Int /\ cur \in Int
      BY DEF Shape, Stores
    <3>6. NoStore <= last + 1
      BY <3>5, <3>1 DEF NoStore, Stores
    <3> QED
      BY <3>1, <3>2, <3>3, <3>4, <3>5, <3>6 DEF Shape, InDoubt, Visible
  <2>4. CASE Activate
    BY <2>4, StoresAssumption, ZenonT(40)
       DEF Activate, StoresAssumption, Shape, InDoubt, Visible, Seed, Stores, NoStore
  <2>5. CASE SeedArrives
    BY <2>5, ZenonT(40) DEF SeedArrives, stores, Shape, InDoubt, Visible
  <2>6. CASE WaitSeed
    BY <2>6, ZenonT(40) DEF WaitSeed, stores, Shape, InDoubt, Visible
  <2>7. CASE Commit
    BY <2>7 DEF Commit, Shape, InDoubt, Visible, NoStore, Stores
  <2>8. CASE RollbackStaged
    BY <2>8, ZenonT(40) DEF RollbackStaged, Shape, InDoubt, Visible
  <2>9. CASE Rollback
    BY <2>9 DEF Rollback, Restored, Shape, InDoubt, Visible, NoStore, Stores
  <2> QED
    BY <2>1, <2>2, <2>3, <2>4, <2>5, <2>6, <2>7, <2>8, <2>9, ZenonT(40) DEF Rotates
<1>3. AckedKept'
  BY <1>1, <1>2, ZenonT(40) DEF AckedKept
<1>4. CheckedCurrent'
  <2>1. CASE cur' = cur
    BY <1>1, <2>1, ZenonT(40) DEF CheckedCurrent
  <2>2. CASE cur' # cur
    <3>1. rot \in Cut
      BY <2>2, ZenonT(40)
         DEF Rotates, Freeze, Drained, FreezeFails, Abandon, Thaw, Stage, Activate,
         SeedArrives, WaitSeed, Commit, RollbackStaged, Rollback, Unfreeze, stores, Cut
    <3>2. \A b \in Batch : op[b] # "checked"
      BY <3>1, ZenonT(40) DEF FencedCut, InGate, Admitted, Op
    <3> QED
      BY <1>1, <3>2, ZenonT(40) DEF CheckedCurrent
  <2> QED
    BY <2>1, <2>2, ZenonT(40)
<1> QED
  BY <1>2, <1>3, <1>4, ZenonT(40)

LEMMA ReadsPass ==
  ASSUME Inv, Reads
  PROVE  Shape' /\ CheckedCurrent' /\ AckedKept' /\ UNCHANGED Visible
<1>1. UNCHANGED <<cur, prev, staged, last, data, rot, op, opened>>
  BY ZenonT(40) DEF Reads, ReadPass, ReadBusy, ReadStore, stores
<1> QED
  BY <1>1, ZenonT(40) DEF Inv, Shape, CheckedCurrent, AckedKept, Visible, Seed

LEMMA NextInv ==
  ASSUME Inv, Next
  PROVE  Inv' /\ (UNCHANGED Visible \/ \E w \in Op : Lands(w))
<1>1. CASE Writes
  <2>1. Fence'
    BY <1>1, WritesFence, ZenonT(40) DEF Inv
  <2>2. CASE Moves
    BY <2>1, <2>2, MovesKeep, ZenonT(40) DEF Inv
  <2>3. ASSUME NEW w \in Single, PutApply(w) PROVE Inv' /\ \E v \in Op : Lands(v)
    <3>1. w \in Op
      BY ZenonT(40) DEF Op
    <3>2. Shape' /\ CheckedCurrent' /\ Lands(w)
      BY <2>3, PutLands, ZenonT(40)
    <3>3. AckedKept'
      BY <3>1, <3>2, LandsKept, ZenonT(40) DEF Inv, Fence
    <3> QED
      BY <2>1, <3>1, <3>2, <3>3, ZenonT(40) DEF Inv
  <2>4. ASSUME NEW b \in Batch, BatchApply(b) PROVE Inv' /\ \E v \in Op : Lands(v)
    <3>1. b \in Op
      BY ZenonT(40) DEF Op
    <3>2. Shape' /\ CheckedCurrent' /\ Lands(b)
      BY <2>4, BatchLands, ZenonT(40)
    <3>3. AckedKept'
      BY <3>1, <3>2, LandsKept, ZenonT(40) DEF Inv, Fence
    <3> QED
      BY <2>1, <3>1, <3>2, <3>3, ZenonT(40) DEF Inv
  <2>5. Moves \/ (\E w \in Single : PutApply(w)) \/ (\E b \in Batch : BatchApply(b))
    BY <1>1, ZenonT(40) DEF Writes, Moves
  <2> QED
    BY <2>2, <2>3, <2>4, <2>5, ZenonT(40)
<1>2. CASE Reads
  BY <1>2, ReadsFence, ReadsPass, ZenonT(40) DEF Inv
<1>3. CASE Rotates
  BY <1>3, RotatesFence, RotatesKeep, ZenonT(40) DEF Inv
<1> QED
  BY <1>1, <1>2, <1>3, ZenonT(40) DEF Next

LEMMA StutterInv ==
  ASSUME Inv, UNCHANGED vars
  PROVE  Inv' /\ UNCHANGED Visible
<1>1. UNCHANGED <<frozen, blockReads, inflight, cur, prev, staged, last, data, rot, op, opened,
                  read, want, seen>>
  BY SMTT(40) DEF vars, gate, stores, reads
<1>2. TypeOK' /\ InGate' = InGate
  BY <1>1, ZenonT(40) DEF Inv, Fence, TypeOK, InGate
<1>3. Fence'
  BY <1>1, <1>2, SameFence, ZenonT(40) DEF Inv, gate
<1> QED
  BY <1>1, <1>3, ZenonT(40) DEF Inv, Shape, CheckedCurrent, AckedKept, Visible, Seed

LEMMA Invariant == Spec => []Inv
<1>1. Init => Inv
  BY InitInv, ZenonT(40)
<1>2. Inv /\ [Next]_vars => Inv'
  BY NextInv, StutterInv, ZenonT(40)
<1> QED
  BY <1>1, <1>2, PTL DEF Spec
-----------------------------------------------------------------------------
\* FencedCutAlways: however many writes and batches race freeze, none is between
\* beginWrite and its end once freeze returned and until Unfreeze.
THEOREM FencedCutAlways == Spec => []FencedCut
<1>1. Inv => FencedCut
  BY ZenonT(40) DEF Inv, Fence
<1> QED
  BY <1>1, Invariant, PTL

\* AckedKeptAlways: through any number of committed and rolled back rotations, the
\* partition holds a write exactly when Put or Commit of its batch put it there: none
\* lands in a retired generation, and one that failed left nothing behind.
THEOREM AckedKeptAlways == Spec => []AckedKept
<1>1. Inv => AckedKept
  BY ZenonT(40) DEF Inv
<1> QED
  BY <1>1, Invariant, PTL

\* RotationInvisibleAlways: a rotating partition implements the atomic store: Freeze,
\* Stage, Activate, Commit and Rollback change nothing a client's writes left.
THEOREM RotationInvisibleAlways == Spec => RotationInvisible
<1>1. Init => Store!Init
  BY StoresAssumption DEF StoresAssumption, Init, Store!Init, Visible, Stores
<1>2. ASSUME Inv, [Next]_vars PROVE [Store!Next]_Visible
  <2>1. UNCHANGED Visible \/ \E w \in Op : Lands(w)
    BY <1>2, NextInv, StutterInv, ZenonT(40)
  <2> QED
    BY <2>1, ZenonT(40) DEF Lands, Store!Next, Store!Put
<1>3. Inv /\ [Next]_vars => [Store!Next]_Visible
  BY <1>2, ZenonT(40)
<1> QED
  BY <1>1, <1>3, Invariant, PTL DEF Spec, RotationInvisible, Store!Spec

-----------------------------------------------------------------------------
(***************************************************************************)
(* Reads, where the generation is seeded before it is activated: the       *)
(* current datastore never holds less than what is visible.                *)
(***************************************************************************)
PassedKept ==
    /\ rot \notin {"unseeded", "seeded"}
    /\ \A r \in Reader : read[r] = "passed" => want[r] \subseteq Visible
    /\ ReadsKeep

LEMMA CurrentVisible ==
  ASSUME Inv, rot # "unseeded"
  PROVE  data[cur] = Visible
  BY ZenonT(40) DEF Inv, Fence, TypeOK, Shape, InDoubt, Visible

LEMMA NextPassed ==
  ASSUME ~Participant, Inv, PassedKept, Next
  PROVE  PassedKept'
<1>1. Visible \subseteq Visible'
  BY NextInv, ZenonT(40) DEF Lands
<1>2. CASE Reads
  <2>1. UNCHANGED rot
    BY <1>2, ZenonT(40) DEF Reads, ReadPass, ReadBusy, ReadStore
  <2>2. data[cur] = Visible
    BY CurrentVisible, ZenonT(40) DEF PassedKept
  <2>3. Acked \subseteq Visible
    BY ZenonT(40) DEF Inv, AckedKept, Acked
  <2>4. UNCHANGED Visible
    BY <1>2, ReadsPass, ZenonT(40)
  <2>5. read \in [Reader -> {"idle", "passed", "done", "failed"}]
        /\ want \in [Reader -> SUBSET Op] /\ seen \in [Reader -> SUBSET Op]
    BY ZenonT(40) DEF Inv, Fence, TypeOK
  <2>6. PICK r \in Reader : ReadPass(r) \/ ReadBusy(r) \/ ReadStore(r)
    BY <1>2, ZenonT(40) DEF Reads
  <2>7. CASE ReadPass(r)
    BY <2>1, <2>3, <2>4, <2>5, <2>7, ZenonT(40) DEF PassedKept, ReadsKeep, ReadPass
  <2>8. CASE ReadBusy(r)
    BY <2>1, <2>4, <2>5, <2>8, ZenonT(40) DEF PassedKept, ReadsKeep, ReadBusy
  <2>9. CASE ReadStore(r)
    BY <2>1, <2>2, <2>4, <2>5, <2>9, ZenonT(40) DEF PassedKept, ReadsKeep, ReadStore
  <2> QED
    BY <2>6, <2>7, <2>8, <2>9, ZenonT(40)
<1>3. CASE Writes
  <2>1. UNCHANGED <<rot, read, want, seen>>
    BY <1>3, ZenonT(40)
       DEF Writes, PutBegin, PutApply, BatchPass, BatchOpen, BatchBegin, BatchCheck, BatchApply,
       WriteEnd, BeginWrite, Busy, reads
  <2> QED
    BY <1>1, <2>1, ZenonT(40) DEF PassedKept, ReadsKeep
<1>4. CASE Rotates
  <2>1. UNCHANGED <<read, want, seen>>
    BY <1>4, ZenonT(40)
       DEF Rotates, Freeze, Drained, FreezeFails, Abandon, Thaw, Stage, Activate, SeedArrives,
       WaitSeed, Commit, RollbackStaged, Rollback, Unfreeze, reads
  <2>2. rot' \notin {"unseeded", "seeded"}
    BY <1>4, ZenonT(40)
       DEF PassedKept, Rotates, Freeze, Drained, FreezeFails, Abandon, Thaw, Stage, Activate,
       SeedArrives, WaitSeed, Commit, RollbackStaged, Rollback, Unfreeze
  <2> QED
    BY <1>1, <2>1, <2>2, ZenonT(40) DEF PassedKept, ReadsKeep
<1> QED
  BY <1>2, <1>3, <1>4, ZenonT(40) DEF Next

\* ReadsKeepSeeded: where the new generation is seeded before Activate (the coordinator
\* and RotatePartition), a read returns every write acknowledged before it passed the
\* gate, even if the rotation swaps datastores between its two steps.
THEOREM ReadsKeepSeeded == ~Participant => (Spec => []ReadsKeep)
<1> SUFFICES ASSUME ~Participant PROVE Spec => []ReadsKeep
  BY ZenonT(40)
<1>1. Init => PassedKept
  BY ZenonT(40) DEF Init, PassedKept, ReadsKeep
<1>2. ASSUME Inv, PassedKept, UNCHANGED vars PROVE PassedKept'
  <2>1. UNCHANGED Visible
    BY <1>2, StutterInv, ZenonT(40)
  <2>2. UNCHANGED <<rot, read, want, seen>>
    BY <1>2, ZenonT(40) DEF vars, reads
  <2> QED
    BY <1>2, <2>1, <2>2, ZenonT(40) DEF PassedKept, ReadsKeep
<1>3. Inv /\ PassedKept /\ [Next]_vars => PassedKept'
  BY <1>2, NextPassed, ZenonT(40)
<1>4. PassedKept => ReadsKeep
  BY ZenonT(40) DEF PassedKept
<1> QED
  BY <1>1, <1>3, <1>4, Invariant, PTL DEF Spec
=============================================================================
