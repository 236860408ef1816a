----------------------------- MODULE Datastore -----------------------------
(***************************************************************************)
(* The replicated key-value store the data types are written on: go-ds-crdt*)
(* (external: an OR-Set of key/value elements, one block per write) under   *)
(* the per-replica slots of crdtstore/store.go.                            *)
(*                                                                         *)
(* A key is a tuple <<space, logical key, ...>>, the path builders of       *)
(* crdtstore/keys.go; the last component of a per-replica key is the owner. *)
(* A replica's content is Data(r), a function from its live keys to their   *)
(* values; every read of the data types is an operator over such a          *)
(* function, and every command yields the sequence of writes it makes.      *)
(***************************************************************************)
EXTENDS Registers, Sequences, FiniteSets, SequencesExt, Functions

CONSTANTS
    Replica,   \* replica ids, ordered as the code orders the strings
    MaxNow     \* bound: the last wall-clock reading

VARIABLES
    log,    \* log[r]: the blocks r wrote, oldest first
    seen,   \* seen[p]: the blocks <<writer, index>> that p has merged
    kv,   \* kv[p]: what p reads, a function from the live keys to their values
    last,   \* last[r]: the last stamp of r's Clock
    now,    \* the wall clock, the same on every machine
    togo,   \* bound: the commands still to come
    pend,   \* pend[r]: what a command of r has read and not yet acted on
    fresh   \* the replica that has merged blocks for its next command, or none

store == <<log, seen, kv, last, now, togo, pend, fresh>>
Idle == <<>>
NoReplica == 0

StoreInit(budget) ==
    /\ log = [r \in Replica |-> <<>>]
    /\ seen = [p \in Replica |-> {}]
    /\ kv = [p \in Replica |-> <<>>]
    /\ last = [r \in Replica |-> Zero]
    /\ now = 1
    /\ togo = budget
    /\ pend = [r \in Replica |-> Idle]
    /\ fresh = NoReplica

-----------------------------------------------------------------------------
(* go-ds-crdt: a put is an element named by its block, a delete removes the *)
(* elements of its key the deleting replica has, a read takes the live      *)
(* element of the highest block.                                           *)

Blocks == UNION {{<<q, n>> : n \in DOMAIN log[q]} : q \in Replica}
BlockOf(i) == log[i[1]][i[2]]
HeightOf(ids) == Max({0} \cup {BlockOf(i).height : i \in ids})
Holders(ids, k) ==
    {i \in ids : k \in DOMAIN BlockOf(i).puts /\ \A j \in ids : <<k, i>> \notin BlockOf(j).dels}

Outranks(i, j) ==
    LET b == BlockOf(i) c == BlockOf(j) IN
    b.height > c.height \/ (b.height = c.height /\ i[1] > j[1])

Content(ids) ==
    LET gone == UNION {BlockOf(i).dels : i \in ids}
        live == UNION {{<<k, i>> : k \in DOMAIN BlockOf(i).puts} : i \in ids} \ gone
        Best(k) == CHOOSE i \in ids : <<k, i>> \in live /\ \A x \in live : x[1] = k => x[2] = i \/ Outranks(i, x[2])
    IN  [k \in {x[1] : x \in live} |-> BlockOf(Best(k)).puts[k]]

Data(p) == kv[p]
Merged == Content(Blocks)   \* what every replica reads once it has all blocks

(***************************************************************************)
(* Blocks are merged in any order, each on its own.  Merging at p commutes *)
(* with all that the other replicas do, so what p merges between two of its*)
(* commands is merged right before the second.                             *)
(***************************************************************************)
Merge(p, new) ==
    /\ fresh = NoReplica /\ (togo > 0 \/ pend[p] # Idle)
    /\ new # {}
    /\ seen' = [seen EXCEPT ![p] = @ \cup new]
    /\ kv' = [kv EXCEPT ![p] = Content(seen[p] \cup new)]
    /\ fresh' = p
    /\ UNCHANGED <<log, last, now, togo, pend>>
Deliver(p) == \E new \in SUBSET (Blocks \ seen[p]) : Merge(p, new)
CatchUp(p) == Merge(p, Blocks \ seen[p])

Turn(r) == fresh \in {NoReplica, r} /\ fresh' = NoReplica

-----------------------------------------------------------------------------
(* A command's writes: put, del (txn.go) and writeSlot (store.go).         *)

Put(k, v) == [op |-> "put", key |-> k, val |-> v]
Del(k) == [op |-> "del", key |-> k]
WriteSlot(base, tag, v) == [op |-> "slot", key |-> base, tag |-> tag, val |-> v]
Present(base, v) == WriteSlot(base, "present", v)
Deleted(base) == WriteSlot(base, "deleted", 0)

SlotWrites(ops) == SelectSeq(ops, LAMBDA o : o.op = "slot")

(***************************************************************************)
(* The stamp of the n-th slot a command writes: one Clock.Now each.        *)
(***************************************************************************)
StampOf(r, n) == [Now(last[r], now) EXCEPT !.logical = (@ + n - 1) % LogicalWidth]

Block(r, ops, i) ==
    LET o == ops[i]
        stamped == Slot(r, StampOf(r, Len(SlotWrites(SubSeq(ops, 1, i)))), o.tag, o.val)
    IN  [puts |-> CASE o.op = "put" -> [k \in {o.key} |-> o.val]
                    [] o.op = "slot" -> [k \in {Append(o.key, r)} |-> stamped]
                    [] OTHER -> <<>>,
         dels |-> IF o.op = "del" THEN {o.key} \X Holders(seen[r], o.key) ELSE {},
         height |-> HeightOf(seen[r]) + i]

(***************************************************************************)
(* What r reads after ops: its own writes on top of m, whether they are in *)
(* the store or still in a transaction's overlay (txn.go: get, has, query).*)
(***************************************************************************)
Overlay(m, r, ops) ==
    LET Step(acc, i) ==
            LET b == Block(r, ops, i) IN
            IF ops[i].op = "del" THEN Restrict(acc, DOMAIN acc \ {ops[i].key}) ELSE b.puts @@ acc
    IN  FoldLeft(Step, m, [i \in DOMAIN ops |-> i])

Writes(r, ops) ==
    /\ log' = [log EXCEPT ![r] = @ \o [i \in 1 .. Len(ops) |-> Block(r, ops, i)]]
    /\ seen' = [seen EXCEPT ![r] = @ \cup {<<r, n>> : n \in DOMAIN log'[r]}]
    /\ kv' = [kv EXCEPT ![r] = Overlay(@, r, ops)]
    /\ last' = IF SlotWrites(ops) = <<>> THEN last
               ELSE [last EXCEPT ![r] = StampOf(r, Len(SlotWrites(ops)))]
    /\ UNCHANGED now

Each(S, Op(_)) == FoldSet(LAMBDA x, ops : Append(ops, Op(x)), <<>>, S)

(***************************************************************************)
(* One command at replica r: its writes, under the lock of its key.        *)
(***************************************************************************)
Do(r, ops) ==
    /\ togo > 0 /\ Turn(r)
    /\ togo' = togo - 1
    /\ Writes(r, ops)
    /\ UNCHANGED pend

(***************************************************************************)
(* A command that reads before it locks: what it read waits in pend while  *)
(* other commands run; then it writes from it.                             *)
(***************************************************************************)
Ask(r, what) ==
    /\ togo > 0 /\ Turn(r) /\ pend[r] = Idle
    /\ togo' = togo - 1
    /\ pend' = [pend EXCEPT ![r] = what]
    /\ UNCHANGED <<log, seen, kv, last, now>>

Answer(r, ops) ==
    /\ Turn(r)
    /\ pend' = [pend EXCEPT ![r] = Idle]
    /\ Writes(r, ops)
    /\ UNCHANGED togo

Tick ==
    /\ now < MaxNow /\ fresh = NoReplica
    /\ now' = now + 1
    /\ UNCHANGED <<log, seen, kv, last, togo, pend, fresh>>

-----------------------------------------------------------------------------
(* Reads: has, query (txn.go), readSlots (store.go), liveValue (slot.go).  *)

Has(m, k) == k \in DOMAIN m
Under(m, base) == {k \in DOMAIN m : IsStrictPrefix(base, k)}
Part(m, base, i) == {k[i] : k \in Under(m, base)}
ReadSlots(m, base) == {m[Append(base, q)] : q \in {p \in Replica : Has(m, Append(base, p))}}
LiveSlot(m, base) ==
    LET cands == ReadSlots(m, base) IN cands # {} /\ Winner(cands).tag = "present"
LiveValue(m, base) == Winner(ReadSlots(m, base)).val
=============================================================================
