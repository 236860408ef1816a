-------------------------------- MODULE Slots --------------------------------
(***************************************************************************)
(* One last-writer-wins register (a string value, a hash field, a zset     *)
(* score, a key's meta): each replica writes its own slot, stamped by its  *)
(* hybrid logical clock, and a read takes the slot with the largest        *)
(* (stamp, replica).  hlc/hlc.go, crdtstore/slot.go, crdtstore/store.go.   *)
(*                                                                         *)
(* Replication is go-ds-crdt's: a replica's view of a slot is one of the   *)
(* versions its owner wrote, and only moves to a later one.                *)
(***************************************************************************)
EXTENDS Registers, FiniteSets

CONSTANTS
    Replica,      \* replica ids, ordered as the code orders the strings
    MaxWall,      \* bound: the last wall-clock reading
    MaxWrites,    \* bound: number of writes
    MaxRestarts,  \* bound: number of process restarts
    StepsBack     \* TRUE: a wall clock may be set back over a restart

ASSUME ReplicaAssumption == Replica \subseteq Nat
ASSUME BoundAssumption ==
    /\ MaxWall \in Nat /\ MaxWrites \in Nat /\ MaxRestarts \in Nat
    /\ LogicalWidth \in Nat \ {0} /\ StepsBack \in BOOLEAN
(***************************************************************************)
(* Fewer writes than values of the counter: it does not wrap.              *)
(***************************************************************************)
ASSUME WidthAssumption == MaxWrites < LogicalWidth

VARIABLES
    wall,      \* wall[r]: the wall clock of r's machine
    last,      \* last[r]: the last stamp of r's Clock
    slots,     \* slots[n][r]: r's slot as n has it
    writes,    \* writes so far; the number of a write stands for its value
    restarts,  \* restarts so far
    hist       \* every write acknowledged

vars == <<wall, last, slots, writes, restarts, hist>>

NoSlot(r) == Slot(r, Zero, "absent", 0)

Init ==
    /\ wall \in [Replica -> 1 .. MaxWall]
    /\ last = [r \in Replica |-> Zero]
    /\ slots = [n \in Replica |-> [r \in Replica |-> NoSlot(r)]]
    /\ writes = 0 /\ restarts = 0
    /\ hist = {}

-----------------------------------------------------------------------------
(* The register (slot.go, store.go)                                        *)

Known(n) == {slots[n][r] : r \in {q \in Replica : slots[n][q].tag # "absent"}}

WriteSlot(r, tag) ==
    /\ writes < MaxWrites
    /\ writes' = writes + 1
    /\ last' = [last EXCEPT ![r] = Now(@, wall[r])]
    /\ slots' = [slots EXCEPT ![r][r] = Slot(r, last'[r], tag, writes')]
    /\ hist' = hist \cup {slots'[r][r]}
    /\ UNCHANGED <<wall, restarts>>

(***************************************************************************)
(* n merges m's version of r's slot: the later version stays.              *)
(***************************************************************************)
Deliver(m, n, r) ==
    /\ slots[m][r].val > slots[n][r].val
    /\ slots' = [slots EXCEPT ![n][r] = slots[m][r]]
    /\ UNCHANGED <<wall, last, writes, restarts, hist>>

(***************************************************************************)
(* The wall clock moves, or is set back under a running process.           *)
(***************************************************************************)
Tick(r) ==
    /\ \/ wall[r] < MaxWall /\ wall' = [wall EXCEPT ![r] = @ + 1]
       \/ /\ StepsBack \/ last[r] # Zero
          /\ wall[r] > 1 /\ wall' = [wall EXCEPT ![r] = @ - 1]
    /\ UNCHANGED <<last, slots, writes, restarts, hist>>

(***************************************************************************)
(* The clock is not persisted: a new process starts from zero.  Unless the *)
(* wall clock was set back it does so at least a millisecond after the     *)
(* last stamp of the old one.                                              *)
(***************************************************************************)
Restart(r) ==
    /\ restarts < MaxRestarts
    /\ restarts' = restarts + 1
    /\ StepsBack \/ wall[r] > last[r].wall
    /\ last' = [last EXCEPT ![r] = Zero]
    /\ UNCHANGED <<wall, slots, writes, hist>>

Next ==
    \E r \in Replica :
        \/ WriteSlot(r, "present") \/ WriteSlot(r, "deleted")
        \/ Tick(r) \/ Restart(r)
        \/ \E m, n \in Replica : Deliver(m, n, r)

Spec == Init /\ [][Next]_vars

-----------------------------------------------------------------------------
Stamp == [wall : 0 .. MaxWall, logical : 0 .. LogicalWidth - 1]

TypeOK ==
    /\ wall \in [Replica -> 1 .. MaxWall]
    /\ last \in [Replica -> Stamp]
    /\ slots \in [Replica -> [Replica -> [replica : Replica, stamp : Stamp,
                                          tag : {"absent", "present", "deleted"}, val : Nat]]]
    /\ writes \in 0 .. MaxWrites /\ restarts \in 0 .. MaxRestarts
    /\ hist \subseteq [replica : Replica, stamp : Stamp, tag : {"present", "deleted"}, val : Nat]

\* LastWriterWins: a replica that has every replica's latest slot reads, of all the
\* writes ever acknowledged, the one with the largest (stamp, replica): a slot that
\* was overwritten would never have won.
LastWriterWins ==
    \A n \in Replica :
        hist # {} /\ (\A r \in Replica : slots[n][r] = slots[r][r])
            => \A w \in hist \ {Winner(Known(n))} : Beats(Winner(Known(n)), w)

\* MonotoneRead: what a replica reads is never replaced by an older write: neither a
\* local write nor a merged slot makes an earlier winner come back (winner, Now).
MonotoneRead ==
    [][\A n \in Replica :
          Known(n) # {} => ~Beats(Winner(Known(n)), Winner(Known(n)'))]_vars

\* SlotsGrow: a replica's view of a slot changes only to one with a larger stamp.
SlotsGrow ==
    [][\A n, r \in Replica :
          slots'[n][r] # slots[n][r] => Less(slots[n][r].stamp, slots'[n][r].stamp)]_vars

\* OwnWriteWins: the winner on a replica that has just acknowledged a write is that
\* write: SET then GET on one replica returns the value set.
OwnWriteWins ==
    [][\A r \in Replica :
          slots'[r][r] # slots[r][r] => Winner(Known(r)') = slots'[r][r]]_vars
=============================================================================
