---------------------------- MODULE Collections ----------------------------
(***************************************************************************)
(* Sets (crdtstore/rset.go), hashes (rhash.go) and sorted sets (rzset.go). *)
(* A set member is an OR-Set key, a hash field and a member's score are    *)
(* registers, a HINCRBY field is a counter of one component per replica.    *)
(* Elem and Field double as values; scores are small numbers.              *)
(***************************************************************************)
EXTENDS Keyspace

CONSTANTS Elem, Field, Score

-----------------------------------------------------------------------------
(* Sets                                                                    *)

Items(m, k) == IF ensureType(m, k, "set") THEN members(m, k) ELSE {}

SetAdd(r, k, es) ==
    /\ ensureType(Data(r), k, "set")
    /\ Do(r, Each(es, LAMBDA e : Put(setMember(k, e), "presence")) \o <<writeMeta(k, MetaOf("set"))>>)

EmptyMeta(k, left) == IF left = {} THEN <<deleteMeta(k)>> ELSE <<>>

SetDelete(r, k, es) ==
    LET m == Data(r) gone == es \cap members(m, k) IN
    /\ ensureType(m, k, "set")
    /\ Do(r, Each(gone, LAMBDA e : Del(setMember(k, e))) \o EmptyMeta(k, members(m, k) \ gone))

(***************************************************************************)
(* SPOP: e is the member that the random choice falls on.                  *)
(***************************************************************************)
SetPop(r, k, e) ==
    LET m == Data(r) IN
    /\ ensureType(m, k, "set")
    /\ e \in members(m, k)
    /\ Do(r, <<Del(setMember(k, e))>> \o EmptyMeta(k, members(m, k) \ {e}))

SetMoveSkips(r, src, dest, e) ==
    LET m == Data(r) IN
    /\ src # dest
    /\ ensureType(m, src, "set") /\ ensureType(m, dest, "set")
    /\ e \in members(m, src)
    /\ Do(r, <<Del(setMember(src, e))>>
             \o (IF e \in members(m, dest) THEN <<>>
                 ELSE <<Put(setMember(dest, e), "presence"), writeMeta(dest, MetaOf("set"))>>)
             \o EmptyMeta(src, members(m, src) \ {e}))
SetMove(r, src, dest, e) ==
    LET m == Data(r) IN
    /\ src # dest
    /\ ensureType(m, src, "set") /\ ensureType(m, dest, "set")
    /\ e \in members(m, src)
    /\ Do(r, <<Del(setMember(src, e)), Put(setMember(dest, e), "presence"), writeMeta(dest, MetaOf("set"))>>
             \o EmptyMeta(src, members(m, src) \ {e}))

Diff(m, keys) == Items(m, Head(keys)) \ UNION {Items(m, k) : k \in Range(Tail(keys))}
Inter(m, keys) == {e \in Items(m, Head(keys)) : \A k \in Range(Tail(keys)) : e \in Items(m, k)}
Union(m, keys) == UNION {Items(m, k) : k \in Range(keys)}

(***************************************************************************)
(* SDIFFSTORE, SINTERSTORE, SUNIONSTORE read their sources under no lock.  *)
(***************************************************************************)
SetStoreReads(r, op, dest, keys) ==
    LET m == Data(r) IN
    /\ \A k \in Range(keys) : ensureType(m, k, "set")
    /\ Ask(r, <<"setstore", dest, CASE op = "diff" -> Diff(m, keys)
                                    [] op = "inter" -> Inter(m, keys)
                                    [] op = "union" -> Union(m, keys)>>)

storeResult(r) ==
    /\ pend[r] # Idle /\ pend[r][1] = "setstore"
    /\ LET m == Data(r) dest == pend[r][2] vals == pend[r][3]
           old == IF probe(m, dest) /\ readMeta(m, dest).type = "set" THEN members(m, dest) ELSE {}
       IN  Answer(r, Each(old, LAMBDA e : Del(setMember(dest, e)))
                        \o Each(vals, LAMBDA e : Put(setMember(dest, e), "presence"))
                        \o IF vals # {} THEN <<writeMeta(dest, MetaOf("set"))>> ELSE <<deleteMeta(dest)>>)

-----------------------------------------------------------------------------
(* Hashes                                                                  *)

hashFieldIsCounter(m, k, f) == Under(m, hashFieldCounterBase(k, f)) # {}
hashCounterSum(m, k, f) == SumUnder(m, hashFieldCounterBase(k, f))

HashGet(m, k, f) ==
    CASE ~ensureType(m, k, "hash") -> {}
      [] hashFieldIsCounter(m, k, f) -> {hashCounterSum(m, k, f)}
      [] LiveSlot(m, hashFieldBase(k, f)) -> {LiveValue(m, hashFieldBase(k, f))}
      [] OTHER -> {}

HashItems(m, k) == IF ensureType(m, k, "hash") THEN hashLiveFields(m, k) ELSE <<>>

setField(k, f, v) == <<Present(hashFieldBase(k, f), v), writeMeta(k, MetaOf("hash"))>>

HashSet(r, k, f, v) ==
    LET m == Data(r) IN
    /\ ensureType(m, k, "hash") /\ ~hashFieldIsCounter(m, k, f)
    /\ Do(r, setField(k, f, v))

(***************************************************************************)
(* HMSET writes its fields in the order of a Go map and stops at a field   *)
(* that is a counter: then any of the others may have been written.        *)
(***************************************************************************)
HashSetMany(r, k, fs, v) ==
    LET m == Data(r) plain == {f \in fs : ~hashFieldIsCounter(m, k, f)} IN
    /\ ensureType(m, k, "hash")
    /\ \E done \in SUBSET plain :
          /\ plain = fs => done = fs
          /\ Do(r, FlattenSeq(Each(done, LAMBDA f : setField(k, f, v))))

HashSetNotExists(r, k, f, v) ==
    /\ ~LiveSlot(Data(r), hashFieldBase(k, f))
    /\ HashSet(r, k, f, v)

HashDelete(r, k, fs) ==
    LET m == Data(r)
        dels == Each(fs \cap Live(m, "h", k), LAMBDA f : Deleted(hashFieldBase(k, f)))
    IN  /\ ensureType(m, k, "hash")
        /\ Do(r, dels \o EmptyMeta(k, DOMAIN hashLiveFields(Overlay(m, r, dels), k)))

Own(m, key) == IF Has(m, key) THEN m[key] ELSE 0

hashFieldIncr(m, r, k, f, d) ==
    LET own == Append(hashFieldCounterBase(k, f), r) IN
    <<Put(own, Own(m, own) + d), writeMeta(k, MetaOf("hash"))>>

HashIncr(r, k, f, d) ==
    LET m == Data(r) IN
    /\ ensureType(m, k, "hash") /\ ~LiveSlot(m, hashFieldBase(k, f))
    /\ Do(r, hashFieldIncr(m, r, k, f, d))

deleteHashData(m, k) ==
    Each(Part(m, <<"h", k>>, 3), LAMBDA f : Deleted(hashFieldBase(k, f)))
        \o Each(Under(m, <<"hc", k>>), LAMBDA c : Del(c))

(***************************************************************************)
(* RENAME of a hash: every replica's present slot of a field is rewritten  *)
(* as one's own, in the order of the keys, so that of the largest replica  *)
(* id is the one left.                                                     *)
(***************************************************************************)
copyHashData(m, k, to) ==
    LET slots == SetToSortSeq({s \in Under(m, <<"h", k>>) : m[s].tag = "present"},
                              LAMBDA a, b : a[4] < b[4])
    IN  [i \in DOMAIN slots |-> Present(hashFieldBase(to, slots[i][3]), m[slots[i]].val)]
            \o Each(Under(m, <<"hc", k>>), LAMBDA c : Put(<<"hc", to, c[3], c[4]>>, m[c]))

-----------------------------------------------------------------------------
(* Sorted sets                                                             *)

(***************************************************************************)
(* Members order as the code orders their bytes.                           *)
(***************************************************************************)
sortedItems(scores) ==
    SetToSortSeq(DOMAIN scores,
                 LAMBDA a, b : scores[a] < scores[b] \/ (scores[a] = scores[b] /\ a < b))
ZItems(m, k) == IF ensureType(m, k, "zset") THEN sortedItems(zsetLiveScores(m, k)) ELSE <<>>

writeScore(k, e, score) == <<Present(zsetMemberBase(k, e), score), writeMeta(k, MetaOf("zset"))>>

ZAdd(r, k, e, score) ==
    /\ ensureType(Data(r), k, "zset")
    /\ Do(r, writeScore(k, e, score))

ZIncr(r, k, e, d) ==
    LET m == Data(r) cur == IF LiveSlot(m, zsetMemberBase(k, e)) THEN LiveValue(m, zsetMemberBase(k, e)) ELSE 0 IN
    /\ ensureType(m, k, "zset")
    /\ Do(r, writeScore(k, e, cur + d))

ZDelete(r, k, es) ==
    LET m == Data(r)
        dels == Each(es \cap Live(m, "z", k), LAMBDA e : Deleted(zsetMemberBase(k, e)))
    IN  /\ ensureType(m, k, "zset")
        /\ Do(r, dels \o EmptyMeta(k, Live(Overlay(m, r, dels), "z", k)))

(***************************************************************************)
(* Ranges.  Indices count from 0, negative ones from the end.              *)
(***************************************************************************)
normIndex(i, n) == IF i < 0 THEN i + n ELSE i
ByRank(items, start, stop) ==
    LET n == Len(items)
        lo == Max({normIndex(start, n), 0})
        hi == Min({normIndex(stop, n), n - 1})
    IN  IF lo <= hi /\ lo < n THEN SubSeq(items, lo + 1, hi + 1) ELSE <<>>
ByScore(items, scores, min, max) == SelectSeq(items, LAMBDA e : min <= scores[e] /\ scores[e] <= max)
applyRange(sel, desc, offset, count) ==
    LET ordered == IF desc THEN Reverse(sel) ELSE sel
        cut == SubSeq(ordered, offset + 1, Len(ordered))
    IN  IF count > 0 /\ count < Len(cut) THEN SubSeq(cut, 1, count) ELSE cut

Rank(items, e) == (CHOOSE i \in DOMAIN items : items[i] = e) - 1

ZDeleteRange(r, k, start, stop) ==
    LET m == Data(r) IN ZDelete(r, k, Range(ByRank(ZItems(m, k), start, stop)))

Aggregate(agg, a, b) ==
    CASE agg = "min" -> Min({a, b}) [] agg = "max" -> Max({a, b}) [] OTHER -> a + b
Common(f, g, agg, S) ==
    [e \in S |-> IF e \in DOMAIN f /\ e \in DOMAIN g THEN Aggregate(agg, f[e], g[e])
                 ELSE IF e \in DOMAIN f THEN f[e] ELSE g[e]]
unionAgg(m, agg, k, l) ==
    LET f == zsetLiveScores(m, k) g == zsetLiveScores(m, l) IN Common(f, g, agg, DOMAIN f \cup DOMAIN g)
interAgg(m, agg, k, l) ==
    LET f == zsetLiveScores(m, k) g == zsetLiveScores(m, l) IN Common(f, g, agg, DOMAIN f \cap DOMAIN g)

ZStoreReads(r, op, dest, agg, k, l) ==
    LET m == Data(r) IN
    /\ ensureType(m, k, "zset") /\ ensureType(m, l, "zset")
    /\ Ask(r, <<"zstore", dest, IF op = "union" THEN unionAgg(m, agg, k, l) ELSE interAgg(m, agg, k, l)>>)

storeItems(r) ==
    /\ pend[r] # Idle /\ pend[r][1] = "zstore"
    /\ LET m == Data(r) dest == pend[r][2] items == pend[r][3] IN
       Answer(r, Each(Live(m, "z", dest), LAMBDA e : Deleted(zsetMemberBase(dest, e)))
                    \o FlattenSeq(Each(DOMAIN items, LAMBDA e : writeScore(dest, e, items[e])))
                    \o IF DOMAIN items = {} THEN <<deleteMeta(dest)>> ELSE <<>>)
=============================================================================
