----------------------------- MODULE SlotsProofs -----------------------------
(***************************************************************************)
(* Slots only grow, for any number of replicas, clocks however skewed and  *)
(* set back, unless a process restarts over a clock that was set back.     *)
(***************************************************************************)
EXTENDS Slots, Maxima

AtMost(a, b) == a = b \/ Less(a, b)

(***************************************************************************)
(* The next stamp of r is above its own slot: the clock remembers it, or   *)
(* the process is new and the wall clock has passed it.                    *)
(***************************************************************************)
Fresh(r) ==
    \/ AtMost(slots[r][r].stamp, last[r])
    \/ ~StepsBack /\ last[r] = Zero /\ slots[r][r].stamp.wall < wall[r]

(***************************************************************************)
(* The versions of a slot are stamped in the order they were written.      *)
(***************************************************************************)
Ordered ==
    \A m, n, r \in Replica :
        slots[m][r].val < slots[n][r].val => Less(slots[m][r].stamp, slots[n][r].stamp)

Latest == \A n, r \in Replica : slots[n][r].val <= slots[r][r].val /\ slots[n][r].val <= writes

Same == \A m, n, r \in Replica : slots[m][r].val = slots[n][r].val => slots[m][r] = slots[n][r]

Narrow == \A r \in Replica : last[r].logical <= writes

Inv ==
    /\ TypeOK /\ Ordered /\ Latest /\ Same /\ Narrow
    /\ \A r \in Replica : Fresh(r)

Steady == ~StepsBack \/ MaxRestarts = 0

SlotType == [replica : Replica, stamp : Stamp, tag : {"absent", "present", "deleted"}, val : Nat]

-----------------------------------------------------------------------------
LEMMA LessTransitive ==
  ASSUME NEW a \in Stamp, NEW b \in Stamp, NEW c \in Stamp, AtMost(a, b), Less(b, c)
  PROVE  Less(a, c)
<1>1. a.wall \in Int /\ a.logical \in Int /\ b.wall \in Int /\ b.logical \in Int
      /\ c.wall \in Int /\ c.logical \in Int
  BY BoundAssumption DEF BoundAssumption, Stamp
<1> QED
  BY <1>1 DEF AtMost, Less

(***************************************************************************)
(* Now returns a stamp above the last one, and not below the wall clock.   *)
(***************************************************************************)
LEMMA NowAdvances ==
  ASSUME NEW s \in Stamp, NEW pt \in 1 .. MaxWall, NEW k \in Nat,
         s.logical <= k, k < MaxWrites
  PROVE  /\ Now(s, pt) \in Stamp
         /\ Less(s, Now(s, pt))
         /\ pt <= Now(s, pt).wall
         /\ Now(s, pt).logical <= k + 1
<1>1. MaxWall \in Nat /\ MaxWrites \in Nat /\ LogicalWidth \in Nat /\ MaxWrites < LogicalWidth
  BY BoundAssumption, WidthAssumption, ZenonT(40) DEF BoundAssumption, WidthAssumption
<1>2. s.wall \in 0 .. MaxWall /\ s.logical \in Nat
  BY <1>1 DEF Stamp
<1>3. (s.logical + 1) % LogicalWidth = s.logical + 1
  BY <1>1, <1>2
<1>4. CASE pt > s.wall
  <2>1. Now(s, pt) = [wall |-> pt, logical |-> 0]
    BY <1>4, ZenonT(40) DEF Now
  <2> QED
    BY <1>1, <1>2, <1>4, <2>1 DEF Stamp, Less
<1>5. CASE ~(pt > s.wall)
  <2>1. Now(s, pt) = [wall |-> s.wall, logical |-> s.logical + 1]
    BY <1>3, <1>5, ZenonT(40) DEF Now
  <2> QED
    BY <1>1, <1>2, <1>5, <2>1 DEF Stamp, Less
<1> QED
  BY <1>4, <1>5, ZenonT(40)

-----------------------------------------------------------------------------
LEMMA InitInv == Init => Inv
<1> SUFFICES ASSUME Init PROVE Inv
  BY ZenonT(40)
<1>0. Zero \in Stamp /\ Zero.logical = 0
  BY BoundAssumption DEF BoundAssumption, Zero, Stamp
<1>1. \A r \in Replica : NoSlot(r) \in SlotType /\ NoSlot(r).val = 0 /\ NoSlot(r).stamp = Zero
  BY <1>0, ZenonT(40) DEF NoSlot, Slot, SlotType
<1>2. \A n, r \in Replica : slots[n][r] = NoSlot(r)
  BY ZenonT(40) DEF Init
<1>3. slots \in [Replica -> [Replica -> SlotType]]
  BY <1>1, ZenonT(40) DEF Init
<1>4. TypeOK
  BY <1>0, <1>3, BoundAssumption DEF BoundAssumption, Init, TypeOK, SlotType
<1>5. \A n, r \in Replica : slots[n][r].val = 0 /\ slots[n][r].stamp = Zero
  BY <1>1, <1>2, ZenonT(40)
<1>6. Ordered /\ Latest /\ Same
  BY <1>2, <1>5 DEF Ordered, Latest, Same, Init
<1>7. Narrow /\ \A r \in Replica : Fresh(r)
  BY <1>0, <1>5 DEF Narrow, Fresh, AtMost, Init
<1> QED
  BY <1>4, <1>6, <1>7, ZenonT(40) DEF Inv

(***************************************************************************)
(* A write: its stamp is above the writer's slot, so above every version.  *)
(***************************************************************************)
LEMMA WriteInv ==
  ASSUME Inv, NEW r \in Replica, NEW tag \in {"present", "deleted"}, WriteSlot(r, tag)
  PROVE  Inv' /\ Less(slots[r][r].stamp, slots'[r][r].stamp)
             /\ \A n, q \in Replica : slots'[n][q] # slots[n][q] => n = r /\ q = r
<1> DEFINE new == Slot(r, Now(last[r], wall[r]), tag, writes + 1)
           old == slots[r][r]
<1>0. TypeOK /\ writes \in Nat /\ writes < MaxWrites /\ writes' = writes + 1
  BY BoundAssumption DEF Inv, TypeOK, BoundAssumption, WriteSlot
<1>1. /\ last[r] \in Stamp /\ wall[r] \in 1 .. MaxWall /\ last[r].logical <= writes
      /\ slots \in [Replica -> [Replica -> SlotType]] /\ old \in SlotType
  BY ZenonT(40) DEF Inv, TypeOK, Narrow, SlotType
<1>2. /\ Now(last[r], wall[r]) \in Stamp
      /\ Less(last[r], Now(last[r], wall[r]))
      /\ wall[r] <= Now(last[r], wall[r]).wall
      /\ Now(last[r], wall[r]).logical <= writes + 1
  BY <1>0, <1>1, NowAdvances, ZenonT(40)
<1>3. last' = [last EXCEPT ![r] = Now(last[r], wall[r])] /\ last'[r] = Now(last[r], wall[r])
  BY <1>0, ZenonT(40) DEF TypeOK, WriteSlot
<1>4. /\ new \in SlotType /\ new.stamp = Now(last[r], wall[r]) /\ new.val = writes + 1
      /\ new.tag = tag
  BY <1>0, <1>2 DEF Slot, SlotType
<1>5. slots' = [slots EXCEPT ![r][r] = new]
  BY <1>0, <1>3, ZenonT(40) DEF WriteSlot
<1> HIDE DEF new
<1>6. slots'[r][r] = new
  BY <1>1, <1>5, ZenonT(40)
<1>7. \A n, q \in Replica : n # r \/ q # r => slots'[n][q] = slots[n][q]
  BY <1>1, <1>5, ZenonT(40)
<1>8. slots' \in [Replica -> [Replica -> SlotType]]
  BY <1>1, <1>4, <1>5, ZenonT(40)
<1>9. Less(old.stamp, new.stamp)
  <2>1. old.stamp \in Stamp
    BY <1>1, ZenonT(40) DEF SlotType
  <2>2. CASE AtMost(old.stamp, last[r])
    BY <1>1, <1>2, <1>4, <2>1, <2>2, LessTransitive, ZenonT(40)
  <2>3. CASE old.stamp.wall < wall[r]
    BY <1>1, <1>2, <1>4, <2>1, <2>3, BoundAssumption DEF BoundAssumption, Less, Stamp
  <2> QED
    BY <2>2, <2>3, ZenonT(40) DEF Inv, Fresh
<1>10. TypeOK'
  <2>1. new \in [replica : Replica, stamp : Stamp, tag : {"present", "deleted"}, val : Nat]
    BY <1>4, ZenonT(40) DEF SlotType
  <2>2. hist' = hist \cup {new}
    BY <1>6, ZenonT(40) DEF WriteSlot
  <2> QED
    BY <1>0, <1>2, <1>3, <1>8, <2>1, <2>2, BoundAssumption
       DEF TypeOK, WriteSlot, SlotType, BoundAssumption
<1>11. \A n, q \in Replica : slots[n][q].val \in Nat /\ slots[n][q].stamp \in Stamp
  BY <1>1, ZenonT(40) DEF SlotType
<1>12. \A n \in Replica : Less(slots[n][r].stamp, new.stamp)
  <2> TAKE n \in Replica
  <2>1. AtMost(slots[n][r].stamp, old.stamp)
    <3>1. slots[n][r].val <= old.val
      BY ZenonT(40) DEF Inv, Latest
    <3>2. CASE slots[n][r].val < old.val
      BY <3>2, ZenonT(40) DEF Inv, Ordered, AtMost
    <3>3. CASE slots[n][r].val = old.val
      BY <3>3, ZenonT(40) DEF Inv, Same, AtMost
    <3> QED
      BY <1>11, <3>1, <3>2, <3>3
  <2> QED
    BY <1>4, <1>2, <1>9, <1>11, <2>1, LessTransitive, ZenonT(40)
<1>13. \A n, q \in Replica : slots[n][q].val <= writes
  BY ZenonT(40) DEF Inv, Latest
<1>14. Latest'
  BY <1>0, <1>4, <1>6, <1>7, <1>11, <1>13 DEF Inv, Latest
<1>15. Ordered'
  BY <1>0, <1>4, <1>6, <1>7, <1>11, <1>12, <1>13 DEF Inv, Ordered
<1>16. Same'
  BY <1>0, <1>4, <1>6, <1>7, <1>11, <1>13 DEF Inv, Same
<1>17. Narrow'
  BY <1>0, <1>2, <1>3, BoundAssumption DEF Inv, TypeOK, Narrow, Stamp, BoundAssumption
<1>18. \A q \in Replica : Fresh(q)'
  <2> TAKE q \in Replica
  <2>1. CASE q = r
    BY <1>3, <1>4, <1>6, <2>1, ZenonT(40) DEF Fresh, AtMost
  <2>2. CASE q # r
    <3>1. slots'[q][q] = slots[q][q] /\ last'[q] = last[q] /\ wall' = wall
      BY <1>0, <1>3, <1>7, <2>2, ZenonT(40) DEF WriteSlot, TypeOK
    <3> QED
      BY <3>1, ZenonT(40) DEF Inv, Fresh
  <2> QED
    BY <2>1, <2>2, ZenonT(40)
<1> QED
  BY <1>6, <1>7, <1>9, <1>10, <1>14, <1>15, <1>16, <1>17, <1>18, ZenonT(40) DEF Inv

(***************************************************************************)
(* A merge: n's view moves to a later version of the same slot.            *)
(***************************************************************************)
LEMMA DeliverInv ==
  ASSUME Inv, NEW m \in Replica, NEW n \in Replica, NEW r \in Replica, Deliver(m, n, r)
  PROVE  Inv' /\ Less(slots[n][r].stamp, slots'[n][r].stamp)
             /\ \A k, q \in Replica : slots'[k][q] # slots[k][q] => k = n /\ q = r
<1>1. slots \in [Replica -> [Replica -> SlotType]]
  BY ZenonT(40) DEF Inv, TypeOK, SlotType
<1>2. slots'[n][r] = slots[m][r]
      /\ \A k, q \in Replica : k # n \/ q # r => slots'[k][q] = slots[k][q]
  BY <1>1, ZenonT(40) DEF Deliver
<1>3. \A k, q \in Replica : slots[k][q].val \in Nat
  BY <1>1, ZenonT(40) DEF SlotType
<1>4. slots[n][r].val < slots[m][r].val
  BY <1>3, ZenonT(40) DEF Deliver
<1>5. n # r
  BY <1>3, <1>4 DEF Inv, Latest
<1>6. slots' \in [Replica -> [Replica -> SlotType]]
  BY <1>1, ZenonT(40) DEF Deliver
<1>7. TypeOK'
  BY <1>6, ZenonT(40) DEF Inv, TypeOK, Deliver, SlotType
<1>8. writes' = writes /\ wall' = wall /\ last' = last
  BY ZenonT(40) DEF Deliver
<1>9. Latest'
  BY <1>2, <1>3, <1>5, <1>8 DEF Inv, Latest
<1>10. Ordered'
  BY <1>2, <1>3 DEF Inv, Ordered
<1>11. Same'
  BY <1>2, <1>3 DEF Inv, Same
<1>12. \A q \in Replica : slots'[q][q] = slots[q][q]
  BY <1>2, <1>5, ZenonT(40)
<1>13. Narrow' /\ \A q \in Replica : Fresh(q)'
  BY <1>8, <1>12, ZenonT(40) DEF Inv, Narrow, Fresh
<1>14. Less(slots[n][r].stamp, slots[m][r].stamp)
  BY <1>4, ZenonT(40) DEF Inv, Ordered
<1> QED
  BY <1>2, <1>7, <1>9, <1>10, <1>11, <1>13, <1>14, ZenonT(40) DEF Inv

LEMMA ClockInv ==
  ASSUME Steady, Inv, NEW r \in Replica, Tick(r) \/ Restart(r)
  PROVE  Inv' /\ slots' = slots
<1>1. slots' = slots /\ writes' = writes /\ hist' = hist
  BY ZenonT(40) DEF Tick, Restart
<1>2. Ordered' /\ Latest' /\ Same'
  BY <1>1, ZenonT(40) DEF Inv, Ordered, Latest, Same
<1>3. Zero \in Stamp /\ Zero.logical = 0
  BY BoundAssumption DEF BoundAssumption, Zero, Stamp
<1>4. TypeOK'
  <2>1. wall' \in [Replica -> 1 .. MaxWall]
    <3>1. MaxWall \in Nat /\ wall \in [Replica -> 1 .. MaxWall]
      BY BoundAssumption, ZenonT(40) DEF BoundAssumption, Inv, TypeOK
    <3>2. CASE wall[r] < MaxWall /\ wall' = [wall EXCEPT ![r] = @ + 1]
      BY <3>1, <3>2
    <3>3. CASE wall[r] > 1 /\ wall' = [wall EXCEPT ![r] = @ - 1]
      BY <3>1, <3>3
    <3>4. CASE wall' = wall
      BY <3>1, <3>4, ZenonT(40)
    <3> QED
      BY <3>2, <3>3, <3>4, ZenonT(40) DEF Tick, Restart
  <2>2. last' \in [Replica -> Stamp]
    BY <1>3, ZenonT(40) DEF Inv, TypeOK, Tick, Restart
  <2>3. restarts' \in 0 .. MaxRestarts
    BY BoundAssumption DEF BoundAssumption, Inv, TypeOK, Tick, Restart
  <2> QED
    BY <1>1, <2>1, <2>2, <2>3, ZenonT(40) DEF Inv, TypeOK
<1>5. Narrow'
  BY <1>1, <1>3, BoundAssumption DEF BoundAssumption, Inv, TypeOK, Narrow, Tick, Restart
<1>6. \A q \in Replica : /\ slots[q][q].stamp \in Stamp /\ last[q] \in Stamp
                         /\ slots[q][q].stamp.wall \in Int /\ last[q].wall \in Int /\ wall[q] \in Int
  BY BoundAssumption DEF BoundAssumption, Inv, TypeOK, Stamp
<1>7. ASSUME NEW q \in Replica PROVE Fresh(q)'
  <2>1. Fresh(q)
    BY ZenonT(40) DEF Inv
  <2>2. CASE Tick(r)
    <3>1. last' = last /\ (~StepsBack /\ last[q] = Zero => wall'[q] >= wall[q])
      <4>1. last' = last
        BY <2>2, ZenonT(40) DEF Tick
      <4>2. ASSUME wall' = [wall EXCEPT ![r] = @ + 1] PROVE wall'[q] >= wall[q]
        BY <1>6, <4>2 DEF Inv, TypeOK
      <4>3. ASSUME wall' = [wall EXCEPT ![r] = @ - 1], q # r PROVE wall'[q] >= wall[q]
        BY <1>6, <4>3 DEF Inv, TypeOK
      <4> QED
        BY <2>2, <4>1, <4>2, <4>3, ZenonT(40) DEF Tick
    <3>2. wall'[q] \in Int
      BY <1>4, BoundAssumption DEF TypeOK, BoundAssumption
    <3> QED
      BY <1>1, <1>6, <2>1, <3>1, <3>2 DEF Fresh
  <2>3. CASE Restart(r)
    <3>1. ~StepsBack /\ wall' = wall /\ wall[r] > last[r].wall
      BY <2>3, BoundAssumption DEF BoundAssumption, Inv, TypeOK, Restart, Steady
    <3>2. CASE q = r
      <4>1. slots[q][q].stamp.wall < wall[q]
        BY <1>6, <2>1, <3>1, <3>2 DEF Fresh, AtMost, Less
      <4>2. last'[q] = Zero
        BY <2>3, <3>2, ZenonT(40) DEF Inv, TypeOK, Restart
      <4> QED
        BY <1>1, <3>1, <4>1, <4>2, ZenonT(40) DEF Fresh
    <3>3. CASE q # r
      <4>1. last'[q] = last[q]
        BY <2>3, <3>3, ZenonT(40) DEF Inv, TypeOK, Restart
      <4> QED
        BY <1>1, <2>1, <3>1, <4>1, ZenonT(40) DEF Fresh
    <3> QED
      BY <3>2, <3>3, ZenonT(40)
  <2> QED
    BY <2>2, <2>3, ZenonT(40)
<1> QED
  BY <1>1, <1>2, <1>4, <1>5, <1>7, ZenonT(40) DEF Inv

LEMMA StutterInv ==
  ASSUME Inv, UNCHANGED vars
  PROVE  Inv'
  BY ZenonT(40) DEF Inv, TypeOK, Ordered, Latest, Same, Narrow, Fresh, vars

Grows ==
    \A n, r \in Replica :
        slots'[n][r] # slots[n][r] => Less(slots[n][r].stamp, slots'[n][r].stamp)

LEMMA NextInv ==
  ASSUME Steady, Inv, Next
  PROVE  Inv' /\ Grows
<1>1. PICK r \in Replica :
        \/ WriteSlot(r, "present") \/ WriteSlot(r, "deleted")
        \/ Tick(r) \/ Restart(r)
        \/ \E m, n \in Replica : Deliver(m, n, r)
  BY ZenonT(40) DEF Next
<1>2. CASE WriteSlot(r, "present") \/ WriteSlot(r, "deleted")
  BY <1>2, WriteInv DEF Grows
<1>3. CASE Tick(r) \/ Restart(r)
  BY <1>3, ClockInv, ZenonT(40) DEF Grows
<1>4. ASSUME NEW m \in Replica, NEW n \in Replica, Deliver(m, n, r) PROVE Inv' /\ Grows
  BY <1>4, DeliverInv DEF Grows
<1> QED
  BY <1>1, <1>2, <1>3, <1>4, ZenonT(40)

\* SlotsGrowAlways: whatever the skew between the replicas' clocks and in whatever
\* order slots replicate, a slot is only ever replaced by one stamped later, unless a
\* process restarts over a wall clock that was set back (Clock.last is not persisted).
THEOREM SlotsGrowAlways == Steady => (Spec => SlotsGrow)
<1> SUFFICES ASSUME Steady PROVE Spec => SlotsGrow
  BY ZenonT(40)
<1>1. Init => Inv
  BY InitInv, ZenonT(40)
<1>2. Inv /\ [Next]_vars => Inv'
  BY NextInv, StutterInv, ZenonT(40)
<1>3. Inv /\ [Next]_vars => [Grows]_vars
  BY NextInv, ZenonT(40)
<1> QED
  BY <1>1, <1>2, <1>3, PTL DEF Spec, SlotsGrow, Grows

-----------------------------------------------------------------------------
(***************************************************************************)
(* What a reader of a register sees: the last write by (stamp, replica),    *)
(* and never an older one after a newer one, for any finite number of       *)
(* replicas, as long as no process restarts over a clock that was set back. *)
(***************************************************************************)
Owned == \A n, r \in Replica : slots[n][r].replica = r
Written == \A n, r \in Replica : slots[n][r].tag = "absent" => slots[n][r].val = 0

(***************************************************************************)
(* The owner's slot is its last write.                                     *)
(***************************************************************************)
Covers(s, w) == s.tag # "absent" /\ (w = s \/ Less(w.stamp, s.stamp))
Covered == \A w \in hist : Covers(slots[w.replica][w.replica], w)

RInv == Inv /\ Owned /\ Written /\ Covered

OnePerReplica(cands) == \A s, t \in cands : s.replica = t.replica => s = t

-----------------------------------------------------------------------------
LEMMA SlotFields ==
  ASSUME NEW s \in SlotType
  PROVE  s.stamp.wall \in Int /\ s.stamp.logical \in Int /\ s.replica \in Int
<1>1. s.stamp \in Stamp /\ s.replica \in Replica
  BY ZenonT(40) DEF SlotType
<1>2. s.stamp.wall \in Int /\ s.stamp.logical \in Int
  <2>1. \A x \in Stamp : x.wall \in 0 .. MaxWall /\ x.logical \in 0 .. LogicalWidth - 1
    BY ZenonT(40) DEF Stamp
  <2>2. MaxWall \in Int /\ LogicalWidth - 1 \in Int
    BY BoundAssumption DEF BoundAssumption
  <2> QED
    BY <1>1, <2>1, <2>2
<1>3. \A r \in Replica : r \in Int
  BY ReplicaAssumption DEF ReplicaAssumption
<1> QED
  BY <1>1, <1>2, <1>3, Zenon, ZenonT(40)

(***************************************************************************)
(* winner picks a slot that beats all the others (it exists and is unique). *)
(***************************************************************************)
LEMMA WinnerBeats ==
  ASSUME NEW N \in Nat, Replica \subseteq 0 .. N,
         NEW cands, cands \subseteq SlotType, cands # {}, OnePerReplica(cands)
  PROVE  /\ Winner(cands) \in cands
         /\ \A t \in cands \ {Winner(cands)} : Beats(Winner(cands), t)
<1> DEFINE walls == {s.stamp.wall : s \in cands}
<1>0. MaxWall \in Nat /\ LogicalWidth - 1 \in Nat
  BY BoundAssumption DEF BoundAssumption
<1>1. \A s \in cands : /\ s.stamp \in Stamp /\ s.replica \in 0 .. N
                       /\ s.stamp.wall \in 0 .. MaxWall
                       /\ s.stamp.logical \in 0 .. LogicalWidth - 1
                       /\ s.stamp = [wall |-> s.stamp.wall, logical |-> s.stamp.logical]
  BY ZenonT(40) DEF SlotType, Stamp
<1>2. PICK a \in cands : \A s \in cands : s.stamp.wall <= a.stamp.wall
  <2>1. walls \subseteq 0 .. MaxWall /\ walls # {}
    BY <1>1, ZenonT(40)
  <2>2. \E x \in walls : \A y \in walls : y <= x
    <3> HIDE DEF walls
    <3> QED
      BY <1>0, <2>1, Largest, Zenon, ZenonT(40)
  <2> QED
    BY <2>2, ZenonT(40)
<1> DEFINE first == {s \in cands : s.stamp.wall = a.stamp.wall}
           logicals == {s.stamp.logical : s \in first}
<1>3. PICK b \in first : \A s \in first : s.stamp.logical <= b.stamp.logical
  <2>1. logicals \subseteq 0 .. LogicalWidth - 1 /\ logicals # {}
    BY <1>1, ZenonT(40)
  <2>2. \E x \in logicals : \A y \in logicals : y <= x
    <3> HIDE DEF logicals
    <3> QED
      BY <1>0, <2>1, Largest, Zenon, ZenonT(40)
  <2> QED
    BY <2>2, ZenonT(40)
<1> DEFINE best == {s \in first : s.stamp.logical = b.stamp.logical}
           ids == {s.replica : s \in best}
<1>4. PICK c \in best : \A s \in best : s.replica <= c.replica
  <2>1. ids \subseteq 0 .. N /\ ids # {}
    BY <1>1, ZenonT(40)
  <2>2. \E x \in ids : \A y \in ids : y <= x
    <3> HIDE DEF ids
    <3> QED
      BY <2>1, Largest, Zenon, ZenonT(40)
  <2> QED
    BY <2>2, ZenonT(40)
<1>5. ASSUME NEW t \in cands, t # c
      PROVE  Beats(c, t)
  <2>0. /\ c \in cands /\ c.stamp.wall = a.stamp.wall /\ c.stamp.logical = b.stamp.logical
    BY ZenonT(40)
  <2>1. t.stamp.wall \in Int /\ t.stamp.logical \in Int /\ t.replica \in Int
        /\ c.stamp.wall \in Int /\ c.stamp.logical \in Int /\ c.replica \in Int
    BY <2>0, SlotFields, ZenonT(40)
  <2>2. CASE t \notin first
    BY <1>2, <2>0, <2>1, <2>2 DEF Beats, Less
  <2>3. CASE t \in first /\ t \notin best
    BY <1>3, <2>0, <2>1, <2>3 DEF Beats, Less
  <2>4. CASE t \in best
    <3>1. t.replica <= c.replica /\ t.replica # c.replica
      BY <1>4, <1>5, <2>0, <2>4, ZenonT(40) DEF OnePerReplica
    <3>2. t.stamp = c.stamp
      BY <1>1, <2>0, <2>4, ZenonT(40)
    <3> QED
      BY <2>1, <3>1, <3>2 DEF Beats
  <2> QED
    BY <2>2, <2>3, <2>4, ZenonT(40)
<1>6. \E s \in cands : \A t \in cands \ {s} : Beats(s, t)
  BY <1>4, <1>5, ZenonT(40)
<1> QED
  BY <1>6, Zenon, ZenonT(40) DEF Winner

LEMMA BeatsNot ==
  ASSUME NEW s \in SlotType, NEW t \in SlotType, s = t \/ Beats(t, s)
  PROVE  ~Beats(s, t)
<1>1. /\ s.stamp.wall \in Int /\ s.stamp.logical \in Int /\ s.replica \in Int
      /\ t.stamp.wall \in Int /\ t.stamp.logical \in Int /\ t.replica \in Int
  BY SlotFields, ZenonT(40)
<1> QED
  BY <1>1 DEF Beats, Less

LEMMA BeatsTransitive ==
  ASSUME NEW s \in SlotType, NEW t \in SlotType, NEW u \in SlotType,
         Beats(s, t), Less(u.stamp, t.stamp)
  PROVE  Beats(s, u)
<1>1. /\ s.stamp.wall \in Int /\ s.stamp.logical \in Int
      /\ t.stamp.wall \in Int /\ t.stamp.logical \in Int
      /\ u.stamp.wall \in Int /\ u.stamp.logical \in Int
  BY SlotFields, ZenonT(40)
<1> QED
  BY <1>1 DEF Beats, Less

-----------------------------------------------------------------------------
LEMMA InitRInv == Init => RInv
<1> SUFFICES ASSUME Init PROVE RInv
  BY ZenonT(40)
<1>1. \A n, r \in Replica : slots[n][r] = NoSlot(r)
  BY ZenonT(40) DEF Init
<1>2. \A r \in Replica : NoSlot(r).replica = r /\ NoSlot(r).val = 0
  BY ZenonT(40) DEF NoSlot, Slot
<1> QED
  BY <1>1, <1>2, InitInv, ZenonT(40) DEF RInv, Owned, Written, Covered, Init

LEMMA Types ==
  ASSUME Inv
  PROVE  /\ slots \in [Replica -> [Replica -> SlotType]] /\ hist \subseteq SlotType
         /\ \A n, r \in Replica : slots[n][r] \in SlotType /\ slots[n][r].val \in Nat
BY ZenonT(40) DEF Inv, TypeOK, SlotType

LEMMA WriteRInv ==
  ASSUME RInv, NEW r \in Replica, NEW tag \in {"present", "deleted"}, WriteSlot(r, tag)
  PROVE  RInv'
<1> DEFINE new == Slot(r, last'[r], tag, writes')
           old == slots[r][r]
<1>1. Inv /\ Inv' /\ Less(old.stamp, slots'[r][r].stamp)
      /\ \A n, q \in Replica : slots'[n][q] # slots[n][q] => n = r /\ q = r
  BY WriteInv, ZenonT(40) DEF RInv
<1>2. slots'[r][r] = new /\ hist' = hist \cup {new}
  BY <1>1, Types, ZenonT(40) DEF WriteSlot
<1>3. new.replica = r /\ new.tag # "absent"
  BY ZenonT(40) DEF Slot
<1> HIDE DEF new
<1>4. Owned' /\ Written'
  BY <1>1, <1>2, <1>3 DEF RInv, Owned, Written
<1>5. ASSUME NEW w \in hist
      PROVE  Covers(slots'[w.replica][w.replica], w)
  <2>1. w \in SlotType /\ w.replica \in Replica /\ Covers(slots[w.replica][w.replica], w)
    BY <1>1, Types, ZenonT(40) DEF RInv, Covered, SlotType
  <2>2. CASE w.replica # r
    BY <1>1, <2>1, <2>2, ZenonT(40)
  <2>3. CASE w.replica = r
    <3>1. old \in SlotType /\ new \in SlotType
      <4>1. slots'[r][r] \in SlotType
        BY <1>1 DEF Inv, TypeOK, SlotType
      <4> QED
        BY <1>1, <1>2, <4>1, Types, ZenonT(40)
    <3>2. w.stamp \in Stamp /\ old.stamp \in Stamp /\ new.stamp \in Stamp
      BY <2>1, <3>1, ZenonT(40) DEF SlotType
    <3>3. AtMost(w.stamp, old.stamp) /\ Less(old.stamp, new.stamp)
      BY <1>1, <1>2, <2>1, <2>3, ZenonT(40) DEF Covers, AtMost
    <3>4. Less(w.stamp, new.stamp)
      BY <3>2, <3>3, LessTransitive, ZenonT(40)
    <3> QED
      BY <1>2, <1>3, <2>3, <3>4, ZenonT(40) DEF Covers
  <2> QED
    BY <2>2, <2>3, ZenonT(40)
<1>6. Covers(slots'[new.replica][new.replica], new)
  BY <1>2, <1>3, ZenonT(40) DEF Covers
<1>7. Covered'
  BY <1>2, <1>5, <1>6, ZenonT(40) DEF Covered
<1> QED
  BY <1>1, <1>4, <1>7, ZenonT(40) DEF RInv

LEMMA DeliverRInv ==
  ASSUME RInv, NEW m \in Replica, NEW n \in Replica, NEW r \in Replica, Deliver(m, n, r)
  PROVE  RInv'
<1>1. Inv /\ Inv' /\ \A k, q \in Replica : slots'[k][q] # slots[k][q] => k = n /\ q = r
  BY DeliverInv DEF RInv
<1>2. slots'[n][r] = slots[m][r] /\ hist' = hist /\ slots[m][r].val > slots[n][r].val
  BY <1>1, Types, ZenonT(40) DEF Deliver
<1>3. n # r
  BY <1>1, <1>2, Types DEF Inv, Latest
<1>4. Owned' /\ Written'
  BY <1>1, <1>2 DEF RInv, Owned, Written
<1>5. \A w \in hist : w.replica \in Replica
  BY <1>1, Types, ZenonT(40) DEF SlotType
<1>6. \A q \in Replica : slots'[q][q] = slots[q][q]
  BY <1>1, <1>3, ZenonT(40)
<1>7. Covered'
  BY <1>2, <1>5, <1>6, ZenonT(40) DEF RInv, Covered
<1> QED
  BY <1>1, <1>4, <1>7, ZenonT(40) DEF RInv

LEMMA NextRInv ==
  ASSUME Steady, RInv, [Next]_vars
  PROVE  RInv'
<1>1. CASE UNCHANGED vars
  BY <1>1, StutterInv, ZenonT(40) DEF RInv, Owned, Written, Covered, vars
<1>2. CASE Next
  <2>1. PICK r \in Replica :
          \/ WriteSlot(r, "present") \/ WriteSlot(r, "deleted")
          \/ Tick(r) \/ Restart(r)
          \/ \E m, n \in Replica : Deliver(m, n, r)
    BY <1>2, ZenonT(40) DEF Next
  <2>2. CASE WriteSlot(r, "present") \/ WriteSlot(r, "deleted")
    BY <2>2, WriteRInv, ZenonT(40)
  <2>3. CASE Tick(r) \/ Restart(r)
    <3>1. Inv' /\ slots' = slots
      BY <2>3, ClockInv, ZenonT(40) DEF RInv
    <3>2. hist' = hist
      BY <2>3, ZenonT(40) DEF Tick, Restart
    <3> QED
      BY <3>1, <3>2, ZenonT(40) DEF RInv, Owned, Written, Covered
  <2>4. ASSUME NEW m \in Replica, NEW n \in Replica, Deliver(m, n, r) PROVE RInv'
    BY <2>4, DeliverRInv, ZenonT(40)
  <2> QED
    BY <2>1, <2>2, <2>3, <2>4, ZenonT(40)
<1> QED
  BY <1>1, <1>2, ZenonT(40)

-----------------------------------------------------------------------------
(***************************************************************************)
(* What readSlots returns, of one replica's view of the slots.             *)
(***************************************************************************)
KnownOf(row) == {row[r] : r \in {q \in Replica : row[q].tag # "absent"}}

LEMMA KnownSlots ==
  ASSUME NEW row \in [Replica -> SlotType], \A r \in Replica : row[r].replica = r
  PROVE  /\ KnownOf(row) \subseteq SlotType /\ OnePerReplica(KnownOf(row))
         /\ \A r \in Replica : row[r].tag # "absent" => row[r] \in KnownOf(row)
<1>1. \A s \in KnownOf(row) : \E r \in Replica : s = row[r]
  BY ZenonT(40) DEF KnownOf
<1>2. KnownOf(row) \subseteq SlotType
  BY <1>1, ZenonT(40)
<1>3. OnePerReplica(KnownOf(row))
  <2> SUFFICES ASSUME NEW s \in KnownOf(row), NEW t \in KnownOf(row), s.replica = t.replica
               PROVE  s = t
    BY ZenonT(40) DEF OnePerReplica
  <2>1. PICK q \in Replica : s = row[q]
    BY <1>1, ZenonT(40)
  <2>2. PICK p \in Replica : t = row[p]
    BY <1>1, ZenonT(40)
  <2>3. q = p
    BY <2>1, <2>2, Zenon, ZenonT(40)
  <2> QED
    BY <2>1, <2>2, <2>3, ZenonT(40)
<1>4. \A r \in Replica : row[r].tag # "absent" => row[r] \in KnownOf(row)
  BY ZenonT(40) DEF KnownOf
<1> QED
  BY <1>2, <1>3, <1>4, ZenonT(40)

(***************************************************************************)
(* A write that was overwritten in its slot would not have won.            *)
(***************************************************************************)
LEMMA LastWins ==
  ASSUME NEW N \in Nat, Replica \subseteq 0 .. N, RInv
  PROVE  LastWriterWins
<1> SUFFICES ASSUME NEW n \in Replica, hist # {}, \A r \in Replica : slots[n][r] = slots[r][r],
                    NEW w \in hist, w # Winner(Known(n))
             PROVE  Beats(Winner(Known(n)), w)
  BY ZenonT(40) DEF LastWriterWins
<1> DEFINE top == Winner(Known(n))
           s == slots[n][w.replica]
<1>1. w \in SlotType /\ w.replica \in Replica /\ s \in SlotType
  BY Types, ZenonT(40) DEF RInv, SlotType
<1>2. Covers(s, w)
  BY <1>1, ZenonT(40) DEF RInv, Covered
<1>3. slots[n] \in [Replica -> SlotType] /\ \A r \in Replica : slots[n][r].replica = r
  BY Types, ZenonT(40) DEF RInv, Owned
<1>4. Known(n) \subseteq SlotType /\ OnePerReplica(Known(n)) /\ s \in Known(n)
  <2>1. Known(n) = KnownOf(slots[n])
    BY ZenonT(40) DEF Known, KnownOf
  <2> QED
    BY <1>1, <1>2, <1>3, <2>1, KnownSlots, ZenonT(40) DEF Covers
<1>5. top \in Known(n) /\ top \in SlotType /\ \A t \in Known(n) \ {top} : Beats(top, t)
  BY <1>4, WinnerBeats, ZenonT(40)
<1> HIDE DEF top, s
<1>6. CASE s = top
  BY <1>2, <1>6, ZenonT(40) DEF Covers, Beats, top
<1>7. CASE s # top
  <2>1. Beats(top, s)
    BY <1>4, <1>5, <1>7, ZenonT(40)
  <2> QED
    BY <1>1, <1>2, <1>5, <2>1, BeatsTransitive, ZenonT(40) DEF Covers, top
<1> QED
  BY <1>6, <1>7, ZenonT(40)

Monotone ==
    \A n \in Replica : Known(n) # {} => ~Beats(Winner(Known(n)), Winner(Known(n)'))

(***************************************************************************)
(* A slot that changes was written.                                        *)
(***************************************************************************)
LEMMA ChangedTagged ==
  ASSUME RInv, Next, NEW n \in Replica, NEW r \in Replica, slots'[n][r] # slots[n][r]
  PROVE  slots'[n][r].tag # "absent"
<1>1. PICK q \in Replica :
        \/ \E tag \in {"present", "deleted"} : WriteSlot(q, tag)
        \/ Tick(q) \/ Restart(q)
        \/ \E m, k \in Replica : Deliver(m, k, q)
  BY ZenonT(40) DEF Next
<1>2. ASSUME NEW tag \in {"present", "deleted"}, WriteSlot(q, tag)
      PROVE  slots'[n][r].tag # "absent"
  <2>1. n = q /\ r = q
    BY <1>2, WriteInv, ZenonT(40) DEF RInv
  <2>2. slots'[q][q] = Slot(q, last'[q], tag, writes')
    BY <1>2, Types, ZenonT(40) DEF WriteSlot, RInv
  <2> QED
    BY <2>1, <2>2 DEF Slot
<1>3. ASSUME NEW m \in Replica, NEW k \in Replica, Deliver(m, k, q)
      PROVE  slots'[n][r].tag # "absent"
  <2>1. n = k /\ r = q
    BY <1>3, DeliverInv DEF RInv
  <2>2. slots'[n][r] = slots[m][r] /\ slots[m][r].val > slots[n][r].val
    BY <1>3, <2>1, Types, ZenonT(40) DEF Deliver, RInv
  <2>3. slots[m][r].val # 0
    BY <2>2, Types DEF RInv
  <2> QED
    BY <2>2, <2>3, ZenonT(40) DEF RInv, Written
<1>4. ~(Tick(q) \/ Restart(q))
  BY ZenonT(40) DEF Tick, Restart
<1> QED
  BY <1>1, <1>2, <1>3, <1>4, ZenonT(40)

LEMMA ReadsMonotone ==
  ASSUME NEW N \in Nat, Replica \subseteq 0 .. N, Steady, RInv, [Next]_vars
  PROVE  Monotone
<1> SUFFICES ASSUME NEW n \in Replica, Known(n) # {}
             PROVE  ~Beats(Winner(Known(n)), Winner(Known(n)'))
  BY ZenonT(40) DEF Monotone
<1> DEFINE row == slots[n]
           row2 == slots'[n]
           top == Winner(KnownOf(row))
           after == Winner(KnownOf(row2))
<1>1. Known(n) = KnownOf(row) /\ Known(n)' = KnownOf(row2)
  BY ZenonT(40) DEF Known, KnownOf
<1>2. RInv'
  BY NextRInv, ZenonT(40)
<1>3. /\ row \in [Replica -> SlotType] /\ \A r \in Replica : row[r].replica = r
      /\ row2 \in [Replica -> SlotType] /\ \A r \in Replica : row2[r].replica = r
  BY <1>2, ZenonT(40) DEF RInv, Owned, Inv, TypeOK, SlotType
<1>4. top \in KnownOf(row) /\ top \in SlotType
  BY <1>1, <1>3, KnownSlots, WinnerBeats, ZenonT(40)
<1>5. PICK r \in Replica : top = row[r] /\ row[r].tag # "absent"
  BY <1>4, ZenonT(40) DEF KnownOf
<1>6. row2[r] = row[r] \/ (Less(row[r].stamp, row2[r].stamp) /\ row2[r].tag # "absent")
  <2>1. CASE UNCHANGED vars
    BY <2>1, ZenonT(40) DEF vars
  <2>2. CASE Next
    BY <2>2, NextInv, ChangedTagged, ZenonT(40) DEF Grows, RInv
  <2> QED
    BY <2>1, <2>2, ZenonT(40)
<1>7. row2[r] \in KnownOf(row2) /\ KnownOf(row2) \subseteq SlotType /\ OnePerReplica(KnownOf(row2))
  BY <1>3, <1>5, <1>6, KnownSlots, ZenonT(40)
<1>8. after \in SlotType /\ (after = row2[r] \/ Beats(after, row2[r]))
  BY <1>7, WinnerBeats, ZenonT(40)
<1> HIDE DEF top, after, row, row2
<1>9. row2[r] \in SlotType
  BY <1>7, ZenonT(40)
<1>10. after = top \/ Beats(after, top)
  <2>1. CASE row2[r] = row[r]
    BY <1>5, <1>8, <2>1, ZenonT(40)
  <2>2. CASE Less(row[r].stamp, row2[r].stamp)
    <3>1. Less(top.stamp, row2[r].stamp)
      BY <1>5, <2>2, ZenonT(40)
    <3>2. CASE after = row2[r]
      BY <3>1, <3>2, ZenonT(40) DEF Beats
    <3>3. CASE Beats(after, row2[r])
      BY <1>4, <1>8, <1>9, <3>1, <3>3, BeatsTransitive, ZenonT(40)
    <3> QED
      BY <1>8, <3>2, <3>3, ZenonT(40)
  <2> QED
    BY <1>6, <2>1, <2>2, ZenonT(40)
<1>11. ~Beats(top, after)
  BY <1>4, <1>8, <1>10, BeatsNot, ZenonT(40)
<1> QED
  BY <1>1, <1>11, ZenonT(40) DEF top, after

\* LastWriterWinsAlways: a replica that has every replica's latest slot reads, of all
\* the writes ever acknowledged, the one with the largest (stamp, replica): keeping one
\* slot per replica (writeSlot) loses nothing that winner could have chosen.
THEOREM LastWriterWinsAlways ==
  ASSUME NEW N \in Nat, Replica \subseteq 0 .. N, Steady
  PROVE  Spec => []LastWriterWins
<1>1. Init => RInv
  BY InitRInv, ZenonT(40)
<1>2. RInv /\ [Next]_vars => RInv'
  BY NextRInv, ZenonT(40)
<1>3. RInv => LastWriterWins
  BY LastWins, ZenonT(40)
<1> QED
  BY <1>1, <1>2, <1>3, PTL DEF Spec

\* MonotoneReadAlways: what winner returns on a replica is never followed by a write
\* that it beats, whatever is written there or merged from elsewhere.
THEOREM MonotoneReadAlways ==
  ASSUME NEW N \in Nat, Replica \subseteq 0 .. N, Steady
  PROVE  Spec => MonotoneRead
<1>1. Init => RInv
  BY InitRInv, ZenonT(40)
<1>2. RInv /\ [Next]_vars => RInv'
  BY NextRInv, ZenonT(40)
<1>3. RInv /\ [Next]_vars => [Monotone]_vars
  BY ReadsMonotone, ZenonT(40)
<1> QED
  BY <1>1, <1>2, <1>3, PTL DEF Spec, MonotoneRead, Monotone

=============================================================================
