------------------------------- MODULE Lists -------------------------------
(***************************************************************************)
(* Lists (crdtstore/rlist.go): an element is a key whose last component is *)
(* its place, <<pos, replica, seq>>, and the list is its elements in the    *)
(* order of their places.  Positions are float64 in the code; here they are *)
(* integers, Unit apart when pushed, so that a midpoint halves a gap until  *)
(* the gap is used up, as float64 does after some fifty halvings.           *)
(***************************************************************************)
EXTENDS Keyspace

CONSTANTS
    Unit,         \* distance between pushed elements
    MaxRestarts   \* bound: number of process restarts

VARIABLES
    listSeq,   \* listSeq[r]: the tie-breaker r's process gave last
    restarts   \* restarts so far

listVars == <<listSeq, restarts>>
ListInit == listSeq = [r \in Replica |-> 0] /\ restarts = 0

Before(p, q) ==
    \/ p[1] < q[1]
    \/ p[1] = q[1] /\ (p[2] < q[2] \/ (p[2] = q[2] /\ p[3] < q[3]))
entries(m, k) == SetToSortSeq(Part(m, <<"l", k>>, 3), Before)
ValueAt(m, k, p) == m[listElem(k, p)]
ListItems(m, k) ==
    IF ensureType(m, k, "list")
    THEN LET es == entries(m, k) IN [i \in DOMAIN es |-> ValueAt(m, k, es[i])]
    ELSE <<>>

makePosKey(r, pos) == <<pos, r, listSeq[r] + 1>>
Minted(r) == listSeq' = [listSeq EXCEPT ![r] = @ + 1] /\ UNCHANGED restarts
ListMeta(k) == writeMeta(k, MetaOf("list"))

PushPos(es, front) ==
    IF es = <<>> THEN 0
    ELSE IF front THEN es[1][1] - Unit ELSE es[Len(es)][1] + Unit

pushOps(m, r, k, v, front) ==
    <<Put(listElem(k, makePosKey(r, PushPos(entries(m, k), front))), v), ListMeta(k)>>
push(r, k, v, front) ==
    /\ ensureType(Data(r), k, "list")
    /\ Do(r, pushOps(Data(r), r, k, v, front))
    /\ Minted(r)

popOps(m, k, front) ==
    LET es == entries(m, k) IN
    <<Del(listElem(k, IF front THEN es[1] ELSE es[Len(es)]))>>
        \o IF Len(es) = 1 THEN <<deleteMeta(k)>> ELSE <<>>
CanPop(m, k) == ensureType(m, k, "list") /\ entries(m, k) # <<>>
pop(r, k, front) ==
    /\ CanPop(Data(r), k)
    /\ Do(r, popOps(Data(r), k, front))
    /\ UNCHANGED listVars

(***************************************************************************)
(* RPOPLPUSH: a pop and a push, each under its own lock.                   *)
(***************************************************************************)
PopBackPushFront(r, src, dest) ==
    LET m == Data(r) es == entries(m, src) IN
    /\ CanPop(m, src)
    /\ pend[r] = Idle
    /\ pend' = [pend EXCEPT ![r] = <<"rpoplpush", dest, ValueAt(m, src, es[Len(es)])>>]
    /\ togo > 0 /\ togo' = togo - 1 /\ Turn(r)
    /\ Writes(r, popOps(m, src, FALSE))
    /\ UNCHANGED listVars
PushFront(r) ==
    /\ pend[r] # Idle /\ pend[r][1] = "rpoplpush"
    /\ LET m == Data(r) dest == pend[r][2] IN
       IF ensureType(m, dest, "list")
       THEN Answer(r, pushOps(m, r, dest, pend[r][3], TRUE)) /\ Minted(r)
       ELSE Answer(r, <<>>) /\ UNCHANGED listVars

absIndex(i, n) == IF i < 0 THEN n + i ELSE i

ListSet(r, k, i, v) ==
    LET m == Data(r) es == entries(m, k) at == absIndex(i, Len(es)) IN
    /\ ensureType(m, k, "list")
    /\ at >= 0 /\ at < Len(es)
    /\ Do(r, <<Put(listElem(k, es[at + 1]), v)>>)
    /\ UNCHANGED listVars

(***************************************************************************)
(* LINSERT: next to the first element with the pivot's value.  Mid rounds   *)
(* down; of neighbours without room the code's float may also round up.    *)
(***************************************************************************)
Mid(a, b) == (a[1] + b[1]) \div 2
InsertPosEnd(es, i, before) == IF before THEN es[1][1] - Unit ELSE es[Len(es)][1] + Unit
InsertPos(es, i, before) ==
    IF before THEN IF i = 1 THEN es[1][1] - Unit ELSE Mid(es[i - 1], es[i])
    ELSE IF i = Len(es) THEN es[i][1] + Unit ELSE Mid(es[i], es[i + 1])
Pivot(m, k, pivot) ==
    LET es == entries(m, k) at == {i \in DOMAIN es : ValueAt(m, k, es[i]) = pivot} IN
    IF at = {} THEN 0 ELSE Min(at)

insert(r, k, pivot, v, before) ==
    LET m == Data(r) i == Pivot(m, k, pivot) IN
    /\ ensureType(m, k, "list")
    /\ i # 0
    /\ Do(r, <<Put(listElem(k, makePosKey(r, InsertPos(entries(m, k), i, before))), v)>>)
    /\ Minted(r)

RemoveAll(k, es, gone) ==
    Each(gone, LAMBDA i : Del(listElem(k, es[i])))
        \o IF Cardinality(gone) = Len(es) THEN <<deleteMeta(k)>> ELSE <<>>

(***************************************************************************)
(* LREM: count = 0 removes every match, > 0 the first, < 0 the last ones.  *)
(***************************************************************************)
deleteMatching(r, k, v, count) ==
    LET m == Data(r) es == entries(m, k)
        hits == {i \in DOMAIN es : ValueAt(m, k, es[i]) = v}
        limit == IF count < 0 THEN -count ELSE count
        rank(i) == Cardinality({j \in hits : IF count < 0 THEN j > i ELSE j < i})
        gone == IF limit = 0 THEN hits ELSE {i \in hits : rank(i) < limit}
    IN  /\ ensureType(m, k, "list")
        /\ Do(r, RemoveAll(k, es, gone))
        /\ UNCHANGED listVars

rangeBounds(start, stop, n) ==
    IF n = 0 THEN <<0, -1>> ELSE <<Max({absIndex(start, n), 0}), Min({absIndex(stop, n), n - 1})>>
ListRange(m, k, start, stop) ==
    LET items == ListItems(m, k) b == rangeBounds(start, stop, Len(items)) IN SubSeq(items, b[1] + 1, b[2] + 1)
Trim(r, k, start, stop) ==
    LET m == Data(r) es == entries(m, k) b == rangeBounds(start, stop, Len(es)) IN
    /\ ensureType(m, k, "list")
    /\ Do(r, RemoveAll(k, es, {i \in DOMAIN es : ~(b[1] <= i - 1 /\ i - 1 <= b[2])}))
    /\ UNCHANGED listVars

(***************************************************************************)
(* The tie-breaker is a field of the process: it starts over.              *)
(***************************************************************************)
Restart(r) ==
    /\ restarts < MaxRestarts /\ restarts' = restarts + 1
    /\ listSeq' = [listSeq EXCEPT ![r] = 0]
    /\ UNCHANGED store
=============================================================================
