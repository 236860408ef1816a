----------------------------- MODULE Registers -----------------------------
(***************************************************************************)
(* The hybrid logical clock and the last-writer-wins choice between the    *)
(* per-replica slots of a register (hlc/hlc.go, crdtstore/slot.go): what   *)
(* every register of the store rests on.                                   *)
(***************************************************************************)
EXTENDS Integers

CONSTANT LogicalWidth  \* number of values of the logical counter (2^32 in the code)

Zero == [wall |-> 0, logical |-> 0]
Slot(r, stamp, tag, val) == [replica |-> r, stamp |-> stamp, tag |-> tag, val |-> val]

Less(a, b) == a.wall < b.wall \/ (a.wall = b.wall /\ a.logical < b.logical)

NowUnbumped(stamp, pt) == IF pt > stamp.wall THEN [wall |-> pt, logical |-> 0] ELSE stamp
NowWall(stamp, pt) == [wall |-> pt, logical |-> (stamp.logical + 1) % LogicalWidth]
Now(stamp, pt) ==
    IF pt > stamp.wall
    THEN [wall |-> pt, logical |-> 0]
    ELSE [wall |-> stamp.wall, logical |-> (stamp.logical + 1) % LogicalWidth]

Beats(s, t) == Less(t.stamp, s.stamp) \/ (t.stamp = s.stamp /\ t.replica < s.replica)

Winner(cands) == CHOOSE s \in cands : \A t \in cands \ {s} : Beats(s, t)
=============================================================================
