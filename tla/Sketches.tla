------------------------------ MODULE Sketches ------------------------------
(***************************************************************************)
(* The sketches (crdtstore/sketch.go): Bloom filters (bloom.go), count-min *)
(* sketches (cms.go) and top-k summaries (topk.go).  The parameters are a  *)
(* register; the data is one component per replica, in a namespace named   *)
(* by the parameters.  The hash functions are constants: the bits an item   *)
(* has in a layer and the cell it has in a row.                            *)
(***************************************************************************)
EXTENDS Keyspace

CONSTANTS
    Positions(_, _),   \* Positions(x, l): the bits of item x in layer l
    BloomChunk,        \* bits of a chunk
    MaxLayers,         \* layers a filter may have
    Cell(_, _),        \* Cell(x, row): the cell of item x in a row
    MaxCell            \* the largest value of a cell (MaxInt64)

Bloom(capacity, expansion) == <<"bloom", capacity, expansion>>
CMS(depth) == <<"cms", depth>>
TopK(k, slots) == <<"topk", k, slots>>

(***************************************************************************)
(* The key of a component, and what is below it.                           *)
(***************************************************************************)
sketchData(k, p, part) == <<"sk", k, p, part>>
readSketchParams(m, k) == LiveValue(m, sketchParamsBase(k))
writeSketchParams(k, p, etime) ==
    <<Present(sketchParamsBase(k), p), writeMeta(k, KeyMeta(p[1], "none", etime))>>

RightKind(m, k, kind) == ensureType(m, k, kind)
sketchOpen(m, k, kind) == probe(m, k) /\ readMeta(m, k).type = kind

Reserve(r, k, p) ==
    LET m == Data(r) IN
    /\ RightKind(m, k, p[1]) /\ ~sketchOpen(m, k, p[1])
    /\ Do(r, writeSketchParams(k, p, 0))

deleteSketch(m, k) ==
    Each(Under(m, <<"sk", k>>), LAMBDA c : Del(c)) \o <<Deleted(sketchParamsBase(k)), deleteMeta(k)>>

OwnOr(m, key, none) == IF Has(m, key) THEN m[key] ELSE none

-----------------------------------------------------------------------------
(* Bloom filters: layer l has capacity C * E^l; replicas' bits are joined,  *)
(* their counts of inserts added.                                          *)

Layers == 0 .. MaxLayers - 1
layerCapacity(p, l) == p[2] * (IF p[3] = 0 THEN 1 ELSE p[3] ^ l)
HasLayer(p, l) == l < MaxLayers /\ (p[3] = 0 => l = 0)
chunkKey(k, p, l, c) == sketchData(k, p, "b") \o <<l, c>>
countKey(k, p, l) == Append(sketchData(k, p, "n"), l)

(***************************************************************************)
(* One command's view of a filter (bloomState).                            *)
(***************************************************************************)
Chunks(m, k, p, l) == {key[6] : key \in Under(m, Append(sketchData(k, p, "b"), l))}
newBloomState(m, r, k, p) ==
    LET bits(l) == UNION {m[key] : key \in Under(m, Append(sketchData(k, p, "b"), l))}
        own(l) == UNION {OwnOr(m, Append(chunkKey(k, p, l, c), r), {}) : c \in Chunks(m, k, p, l)}
    IN  [merged |-> [l \in Layers |-> bits(l)],
         own |-> [l \in Layers |-> own(l)],
         dirty |-> [l \in Layers |-> {}],
         counts |-> [l \in Layers |-> SumUnder(m, countKey(k, p, l))],
         mine |-> [l \in Layers |-> OwnOr(m, Append(countKey(k, p, l), r), 0)],
         layers |-> Max({1} \cup {key[5] + 1 : key \in Under(m, sketchData(k, p, "n"))}),
         full |-> FALSE]

bloomHas(st, p, x) ==
    \E l \in Layers : l < st.layers /\ HasLayer(p, l) /\ Positions(x, l) \subseteq st.merged[l]

(***************************************************************************)
(* An insert goes to the first layer that is not full; there may be none.  *)
(***************************************************************************)
bloomAdd(st, p, x) ==
    LET room == {l \in Layers : HasLayer(p, l) /\ st.counts[l] < layerCapacity(p, l)} IN
    IF room = {} THEN [st EXCEPT !.full = TRUE]
    ELSE LET l == Min(room) IN
         [st EXCEPT !.merged[l] = @ \cup Positions(x, l), !.own[l] = @ \cup Positions(x, l),
                    !.dirty[l] = @ \cup {b \div BloomChunk : b \in Positions(x, l)},
                    !.counts[l] = @ + 1, !.mine[l] = @ + 1, !.layers = Max({@, l + 1})]
insertAll(st, p, xs) ==
    FoldLeft(LAMBDA s, x : IF s.full \/ bloomHas(s, p, x) THEN s ELSE bloomAdd(s, p, x), st, xs)

flushNew(st, r, k, p, old) ==
    LET touched == {l \in Layers : st.dirty[l] # {}} IN
    FlattenSeq(Each(touched, LAMBDA l :
        Each(st.dirty[l], LAMBDA c : Put(Append(chunkKey(k, p, l, c), r),
                                         {b \in st.own[l] \ old.own[l] : b \div BloomChunk = c}))
            \o <<Put(Append(countKey(k, p, l), r), st.mine[l])>>))
flush(st, r, k, p, old) ==
    LET touched == {l \in Layers : st.dirty[l] # {}} IN
    FlattenSeq(Each(touched, LAMBDA l :
        Each(st.dirty[l], LAMBDA c : Put(Append(chunkKey(k, p, l, c), r),
                                         {b \in st.own[l] : b \div BloomChunk = c}))))
        \o Each(touched, LAMBDA l : Put(Append(countKey(k, p, l), r), st.mine[l]))

(***************************************************************************)
(* BF.ADD and BF.INSERT; create is the parameters of a filter to make.     *)
(***************************************************************************)
BFAdd(r, k, xs, create) ==
    LET m == Data(r)
        exists == sketchOpen(m, k, "bloom")
        p == IF exists THEN readSketchParams(m, k) ELSE create
        made == IF exists THEN <<>> ELSE writeSketchParams(k, create, 0)
        st == newBloomState(m, r, k, p)
    IN  /\ RightKind(m, k, "bloom")
        /\ exists \/ create # <<>>
        /\ Do(r, made \o flush(insertAll(st, p, xs), r, k, p, st))

BFAccepts(m, r, k, xs, create, x) ==
    LET p == IF sketchOpen(m, k, "bloom") THEN readSketchParams(m, k) ELSE create IN
    bloomHas(insertAll(newBloomState(m, r, k, p), p, xs), p, x)

BFExists(m, r, k, x) ==
    /\ sketchOpen(m, k, "bloom")
    /\ bloomHas(newBloomState(m, r, k, readSketchParams(m, k)), readSketchParams(m, k), x)

copyBloom(m, r, k, to, p) ==
    LET st == newBloomState(m, r, k, p) IN
    FlattenSeq(Each(Layers, LAMBDA l :
        Each(Chunks(m, k, p, l), LAMBDA c : Put(Append(chunkKey(to, p, l, c), r),
                                                {b \in st.merged[l] : b \div BloomChunk = c}))))
        \o Each(0 .. st.layers - 1, LAMBDA l : Put(Append(countKey(to, p, l), r), st.counts[l]))

-----------------------------------------------------------------------------
(* Count-min sketches: every cell is a sum of signed components.           *)

cellKey(k, p, c) == Append(sketchData(k, p, "c"), c)
cellSum(m, k, p, c) == SumUnder(m, cellKey(k, p, c))
cmsTotal(m, k, p) == SumUnder(m, sketchData(k, p, "t"))
setTotalOwn(r, k, p, n) == Put(Append(sketchData(k, p, "t"), r), n)
cmsCells(p, x) == {Cell(x, row) : row \in 1 .. p[2]}
allCells(m, k, p) == {key[5] : key \in Under(m, sketchData(k, p, "c"))}

incrCells(m, r, k, p, x, d) ==
    [i \in 1 .. p[2] |-> LET key == Append(cellKey(k, p, Cell(x, i)), r) IN Put(key, OwnOr(m, key, 0) + d)]

(***************************************************************************)
(* CMS.INCRBY of one item stops at the first cell that would overflow: the  *)
(* cells before it are written, the total is not.                          *)
(***************************************************************************)
CmsFull(m, k, x, d) ==
    LET p == readSketchParams(m, k) IN {c \in cmsCells(p, x) : cellSum(m, k, p, c) > MaxCell - d}
CMSIncr(r, k, x, d) ==
    LET m == Data(r) p == readSketchParams(m, k)
        tooBig == {i \in 1 .. p[2] : Cell(x, i) \in CmsFull(m, k, x, d)}
        puts == incrCells(m, r, k, p, x, d)
    IN  /\ sketchOpen(m, k, "cms")
        /\ Do(r, IF tooBig # {} THEN SubSeq(puts, 1, Min(tooBig) - 1)
                 ELSE Append(puts, setTotalOwn(r, k, p, OwnOr(m, Append(sketchData(k, p, "t"), r), 0) + d)))

(***************************************************************************)
(* CMS.MERGE reads its source under no lock, then makes dest weight times  *)
(* it: own = target - everyone else's.                                     *)
(***************************************************************************)
CMSMergeReads(r, dest, src, weight) ==
    LET m == Data(r) p == readSketchParams(m, src) IN
    /\ sketchOpen(m, src, "cms")
    /\ Ask(r, <<"cmsmerge", dest, p,
                [c \in allCells(m, src, p) |-> weight * cellSum(m, src, p, c)], weight * cmsTotal(m, src, p)>>)

mergedCellOver(m, r, k, p, c, target) == Put(Append(cellKey(k, p, c), r), target)
mergedCell(m, r, k, p, c, target) ==
    LET key == Append(cellKey(k, p, c), r)
        want == target - (cellSum(m, k, p, c) - OwnOr(m, key, 0))
    IN  IF want = 0 THEN Del(key) ELSE Put(key, want)
CMSMerge(r) ==
    /\ pend[r] # Idle /\ pend[r][1] = "cmsmerge"
    /\ LET m == Data(r) dest == pend[r][2] p == pend[r][3] snap == pend[r][4]
           target(c) == IF c \in DOMAIN snap THEN snap[c] ELSE 0
           touch == {c \in DOMAIN snap \cup allCells(m, dest, p) : target(c) # cellSum(m, dest, p, c)}
           ownTotal == OwnOr(m, Append(sketchData(dest, p, "t"), r), 0)
       IN  Answer(r, IF sketchOpen(m, dest, "cms") /\ readSketchParams(m, dest) = p
                     THEN Append(Each(touch, LAMBDA c : mergedCell(m, r, dest, p, c, target(c))),
                                 setTotalOwn(r, dest, p, pend[r][5] - (cmsTotal(m, dest, p) - ownTotal)))
                     ELSE <<>>)

copyCMSOwn(m, r, k, to, p) ==
    Each({c \in allCells(m, k, p) : Has(m, Append(cellKey(k, p, c), r))},
         LAMBDA c : Put(Append(cellKey(to, p, c), r), m[Append(cellKey(k, p, c), r)]))
copyCMS(m, r, k, to, p) ==
    Append(Each({c \in allCells(m, k, p) : cellSum(m, k, p, c) # 0},
                LAMBDA c : Put(Append(cellKey(to, p, c), r), cellSum(m, k, p, c))),
           setTotalOwn(r, to, p, cmsTotal(m, k, p)))

-----------------------------------------------------------------------------
(* Top-k: each replica's Space-Saving summary of its own additions, a       *)
(* function from the items it tracks to <<count, error>>.                  *)

summaryAddFresh(s, x, d, slots) ==
    IF x \in DOMAIN s THEN [s EXCEPT ![x] = <<@[1] + d, @[2]>>]
    ELSE IF Cardinality(DOMAIN s) < slots THEN (x :> <<d, 0>>) @@ s
    ELSE LET min == Min({s[y][1] : y \in DOMAIN s})
             out == CHOOSE y \in DOMAIN s : s[y][1] = min
         IN  (x :> <<d, 0>>) @@ Restrict(s, DOMAIN s \ {out})
summaryAdd(s, x, d, slots) ==
    IF x \in DOMAIN s THEN [s EXCEPT ![x] = <<@[1] + d, @[2]>>]
    ELSE IF Cardinality(DOMAIN s) < slots THEN (x :> <<d, 0>>) @@ s
    ELSE LET min == Min({s[y][1] : y \in DOMAIN s})
             out == CHOOSE y \in DOMAIN s : s[y][1] = min /\ \A z \in DOMAIN s : s[z][1] = min => y <= z
         IN  (x :> <<min + d, min>>) @@ Restrict(s, DOMAIN s \ {out})

topkKey(k, p) == sketchData(k, p, "k")
topkOwn(m, r, k, p) == OwnOr(m, Append(topkKey(k, p), r), <<>>)
tracked(m, k, p) == UNION {DOMAIN m[key] : key \in Under(m, topkKey(k, p))}
topkCount(m, k, p, x) ==
    MapThenSumSet(LAMBDA key : IF x \in DOMAIN m[key] THEN m[key][x][1] ELSE 0, Under(m, topkKey(k, p)))
ranked(m, k, p) ==
    LET c(x) == topkCount(m, k, p, x) IN
    SetToSortSeq(tracked(m, k, p), LAMBDA x, y : c(x) > c(y) \/ (c(x) = c(y) /\ x < y))
topkTop(m, k, p) == LET s == ranked(m, k, p) IN SubSeq(s, 1, Min({Len(s), p[2]}))

TopKAdd(r, k, x, d) ==
    LET m == Data(r) p == readSketchParams(m, k) IN
    /\ sketchOpen(m, k, "topk")
    /\ Do(r, <<Put(Append(topkKey(k, p), r), summaryAdd(topkOwn(m, r, k, p), x, d, p[3]))>>)

copyTopK(m, r, k, to, p) ==
    LET s == ranked(m, k, p) keep == Range(SubSeq(s, 1, Min({Len(s), p[3]}))) IN
    <<Put(Append(topkKey(to, p), r), [x \in keep |-> <<topkCount(m, k, p, x), 0>>])>>

copySketch(m, r, k, to) ==
    IF ~LiveSlot(m, sketchParamsBase(k)) THEN <<>>
    ELSE LET p == readSketchParams(m, k) IN
         writeSketchParams(to, p, 0)
            \o CASE p[1] = "bloom" -> copyBloom(m, r, k, to, p)
                 [] p[1] = "cms" -> copyCMS(m, r, k, to, p)
                 [] p[1] = "topk" -> copyTopK(m, r, k, to, p)
=============================================================================
