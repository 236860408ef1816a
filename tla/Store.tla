------------------------------- MODULE Store -------------------------------
(***************************************************************************)
(* The store as its clients use it: the commands of every data type over    *)
(* one replicated datastore.  A behaviour has one workload, chosen at the   *)
(* start: the commands that meet in it are those that share keys.  hist is  *)
(* what the clients were told, kept for the properties.                    *)
(***************************************************************************)
EXTENDS KeyCommands

CONSTANTS
    Work,       \* the workloads
    Budget(_),  \* bound: the commands of a workload
    Writer(_)   \* the replicas that write in a workload

VARIABLES work, hist

vars == <<store, listVars, work, hist>>
k1 == Min(Key)
k2 == Max(Key)

-----------------------------------------------------------------------------
(* Counters: hist is the sum of the acknowledged increments of the key k1   *)
(* and of a field of the hash k2.                                          *)

CounterStep(r) ==
    \/ \E d \in {1, -2} : Incr(r, k1, d, "counter") /\ hist' = [hist EXCEPT ![1] = @ + d]
    \/ \E d \in {1, -2} : HashIncr(r, k2, 1, d) /\ hist' = [hist EXCEPT ![2] = @ + d]
    \/ HashDelete(r, k2, {1, 2}) /\ UNCHANGED hist
    \/ \E f \in {1, 2} : HashSet(r, k2, f, 0) /\ UNCHANGED hist

(***************************************************************************)
(* DESIGN 6.4, "pure counters are fully correct": once the replicas have    *)
(* seen the same blocks, a counter reads as the sum of the increments the   *)
(* replicas acknowledged (Incr, hashFieldIncr write one component each).   *)
(***************************************************************************)
CountersExact ==
    work = "counters" =>
        LET m == Merged IN
        /\ SumUnder(m, counterBase(k1)) = hist[1]
        /\ SumUnder(m, hashFieldCounterBase(k2, 1)) = hist[2]

-----------------------------------------------------------------------------
(* HyperLogLogs: hist[k] is the join of what was added to k.               *)

HllStep(r) ==
    \/ \E k \in Key, x \in Item :
          /\ k = k2 => x[2] = 1
          /\ PFAdd(r, k, x) /\ hist' = [hist EXCEPT ![k] = add(@, x)]
    \/ PFMergeChecks(r, k2, k1) /\ UNCHANGED hist
    \/ /\ PFMerge(r)
       /\ hist' = IF hllCheck(Data(r), k2) THEN [hist EXCEPT ![k2] = merge(@, hllMerged(Data(r), k1))] ELSE hist
    \/ PFToDense(r, k1) /\ UNCHANGED hist

(***************************************************************************)
(* A replica's own sketch holds what it added, and the join of the          *)
(* replicas' sketches is the sketch of all additions: none is lost when     *)
(* PFADD finds the merged sketch already covers the element.               *)
(***************************************************************************)
SketchOfAll == work = "hll" => LET m == Merged IN \A k \in Key : hllMerged(m, k) = hist[k]

-----------------------------------------------------------------------------
(* Bitmaps: hist[o] is the last bit written at offset o of k1 with the      *)
(* replicas that wrote in its chunk.                                       *)

Offset == {0, ChunkBits}
BitStep(r) ==
    \/ \E o \in Offset, b \in {0, 1} :
          SetBit(r, k1, o, b) /\ hist' = [hist EXCEPT ![o] = <<b, @[2] \cup {r}>>]

(***************************************************************************)
(* bitmap.go, "Concurrent flips in DIFFERENT chunks always merge": a bit of *)
(* a chunk that one replica alone writes has the value it wrote last.      *)
(***************************************************************************)
ChunksMerge ==
    work = "bits" =>
        LET m == Merged IN
        \A o \in Offset : Cardinality(hist[o][2]) = 1 => GetBit(m, k1, o) = hist[o][1]

Started == log # [r \in Replica |-> <<>>]
Ranges ==
    [start : {-3, 0, 1}, end : {-1, 0, 3}, hasStart : {TRUE}, hasEnd : BOOLEAN, inBits : BOOLEAN]
(***************************************************************************)
(* BITCOUNT and BITPOS (masks, whole-byte skips, negative and clamped       *)
(* indices) agree, on every string of up to three bytes, with looking at    *)
(* the offsets of the range one by one.                                    *)
(***************************************************************************)
BitsOfRange ==
    work = "bits" /\ ~Started =>
        \A n \in 1 .. 3 : \A bytes \in [1 .. n * ByteBits -> {0, 1}], rng \in Ranges, b \in {0, 1} :
            LET at(v) == {p \in Selected(bytes, rng) : BitAt(bytes, p) = v} IN
            /\ BitCount(bytes, rng) = Cardinality(at(1))
            /\ BitPos(bytes, b, rng) =
                   IF at(b) # {} THEN Min(at(b))
                   ELSE IF b = 0 /\ ~rng.hasEnd /\ Selected(bytes, rng) # {} THEN Len(bytes) ELSE -1

-----------------------------------------------------------------------------
(* Sets: one element, added to k1 and then moved.                          *)

MoveStep(r) ==
    \/ r = Min(Replica) /\ SetAdd(r, k1, {1}) /\ hist' = TRUE
    \/ \E k, l \in Key : SetMove(r, k, l, 1) /\ UNCHANGED hist

(***************************************************************************)
(* SMOVE deletes only the element it saw and always adds its own: an        *)
(* element that is only moved, whatever the replicas do at the same time,   *)
(* ends up in some set.                                                    *)
(***************************************************************************)
MovesConserve == work = "moves" /\ hist => LET m == Merged IN \E k \in Key : 1 \in members(m, k)

-----------------------------------------------------------------------------
(* Sketches                                                                *)

BloomStep(r) ==
    \/ Reserve(r, k1, Bloom(1, 2)) /\ UNCHANGED hist
    \/ \E xs \in {<<1>>, <<2>>, <<3, 1>>} :
          /\ BFAdd(r, k1, xs, IF xs = <<1>> THEN Bloom(1, 2) ELSE <<>>)
          /\ hist' = hist \cup {x \in Range(xs) : BFAccepts(Data(r), r, k1, xs, Bloom(1, 2), x)}

(***************************************************************************)
(* A Bloom filter answers yes for every item whose BF.ADD succeeded once    *)
(* the replicas have merged: chunks two replicas write are joined, and a    *)
(* flush rewrites a chunk with all its own bits.                           *)
(***************************************************************************)
NoFalseNegative ==
    work = "bloom" => LET m == Merged IN \A x \in hist : BFExists(m, Min(Replica), k1, x)

(***************************************************************************)
(* Count-min: hist is what each cell of k1 and k2 must hold: for k2 what    *)
(* the last CMS.MERGE set, then the increments it had not seen.            *)
(***************************************************************************)
Row == 1 .. 2
Cells(x) == {Cell(x, row) : row \in Row}
Covered(r, i) ==   \* r has read a component with the increment of block i
    \/ i[2] = 0
    \/ \E j \in seen[r] : j[1] = i[1] /\ j[2] >= i[2] /\ DOMAIN BlockOf(j).puts = DOMAIN BlockOf(i).puts
CmsStep(r) ==
    \/ Reserve(r, k2, CMS(2)) /\ r = Min(Replica) /\ UNCHANGED hist
    \/ Reserve(r, k1, CMS(2)) /\ sketchOpen(Data(r), k2, "cms") /\ r = Min(Replica) /\ UNCHANGED hist
    \/ \E k \in Key, x \in {1, 2}, d \in {1, 4} :
          /\ IF k = k1 THEN r = Min(Replica) /\ x = 2 /\ d = 4 ELSE x = 1 /\ d = 1
          /\ CMSIncr(r, k, x, d)
          /\ LET n == Min({i \in Row : Cell(x, i) \in CmsFull(Data(r), k, x, d)} \cup {3}) - 1 IN
             hist' = hist \cup {<<k, Cell(x, i), d, <<r, Len(log[r]) + i>>>> : i \in 1 .. n}
    \/ r = Min(Replica) /\ CMSMergeReads(r, k2, k1, 2) /\ UNCHANGED hist
    \/ /\ CMSMerge(r)
       /\ LET snap == pend[r][4] IN
          hist' = IF sketchOpen(Data(r), k2, "cms")
                  THEN {h \in hist : h[1] = k1 \/ ~Covered(r, h[4])}
                          \cup {<<k2, c, snap[c], <<r, 0>>>> : c \in DOMAIN snap}
                  ELSE hist
(***************************************************************************)
(* DESIGN 12.3f: estimates never undercount, and "an increment racing a     *)
(* merge on another replica is kept on top of the merged value".  The       *)
(* signed components of every cell add up to exactly that.                 *)
(***************************************************************************)
CellsExact ==
    work = "cms" =>
        LET m == Merged IN
        \A k \in Key : LiveSlot(m, sketchParamsBase(k)) =>
            \A c \in Cells(1) \cup Cells(2) :
                cellSum(m, k, CMS(2), c) =
                    MapThenSumSet(LAMBDA h : h[3], {h \in hist : h[1] = k /\ h[2] = c})

TopKStep(r) ==
    \/ Reserve(r, k1, TopK(1, 2)) /\ UNCHANGED hist
    \/ \E x \in 1 .. 3, d \in {1, 2} : TopKAdd(r, k1, x, d) /\ hist' = [hist EXCEPT ![r][x] = @ + d]
(***************************************************************************)
(* topk.go, Space-Saving: a replica's count of an item it tracks is at most *)
(* its error above the truth and never below it, and an item it does not    *)
(* track has no more than the smallest count.                              *)
(***************************************************************************)
SpaceSaving ==
    work = "topk" =>
        \A r \in Replica : LET s == topkOwn(Data(r), r, k1, TopK(1, 2)) IN
            \A x \in 1 .. 3 :
                IF x \in DOMAIN s THEN s[x][1] - s[x][2] <= hist[r][x] /\ hist[r][x] <= s[x][1]
                ELSE hist[r][x] > 0 => Cardinality(DOMAIN s) = 2 /\ \A y \in DOMAIN s : hist[r][x] <= s[y][1]

-----------------------------------------------------------------------------
(* Streams: hist is the IDs given out, in order.                           *)

StreamStep(r) ==
    \/ \E mode \in {"auto", "autoseq", "explicit"}, t \in {NoTrim, MaxLen(1)} :
          /\ mode # "auto" => t = NoTrim
          /\ StreamAdd(r, k1, mode, <<2, 0, 0>>, r, mode = "explicit", t)
          /\ LET new == nextStreamID(r, streamLast(Data(r), k1), mode, <<2, 0, 0>>) IN
             hist' = Append(hist, [id |-> CHOOSE i \in new : TRUE, by |-> r, own |-> mode # "explicit"])
    \/ StreamDel(r, k1, {hist[i].id : i \in DOMAIN hist}) /\ UNCHANGED hist
    \/ StreamTrim(r, k1, MinID(<<2, 0, 0>>)) /\ UNCHANGED hist

(***************************************************************************)
(* DESIGN 12.3b, "IDs are strictly increasing", "IDs never go backwards":   *)
(* an XADD's ID is above every ID its replica gave out before, trimmed and  *)
(* deleted ones included, and no two replicas mint the same one.           *)
(***************************************************************************)
StreamIDsGrow ==
    work = "streams" =>
        \A i, j \in DOMAIN hist :
            /\ i < j /\ hist[i].by = hist[j].by => IDLess(hist[i].id, hist[j].id)
            /\ i # j /\ hist[i].own => hist[j].id # hist[i].id

-----------------------------------------------------------------------------
(* Lists: hist is the pairs of places of which the first must come first.  *)

Room(p, q) == q[1] - p[1] >= 2
PlaceStep(r) ==
    \/ \E front \in BOOLEAN :
          LET es == entries(Data(r), k1) new == makePosKey(r, PushPos(es, front)) IN
          /\ push(r, k1, r, front)
          /\ hist' = hist \cup IF front THEN {<<new, p>> : p \in Range(es)} ELSE {<<p, new>> : p \in Range(es)}
    \/ \E pivot \in Replica, before \in BOOLEAN :
          LET m == Data(r) es == entries(m, k1) i == Pivot(m, k1, pivot)
              new == makePosKey(r, InsertPos(es, i, before))
              prev == IF before THEN i - 1 ELSE i
              between == prev \in DOMAIN es /\ prev + 1 \in DOMAIN es
          IN  /\ insert(r, k1, pivot, r, before)
              /\ hist' = hist \cup IF between /\ ~Room(es[prev], es[prev + 1]) THEN {}
                                   ELSE {<<es[j], new>> : j \in {j \in DOMAIN es : j <= prev}}
                                            \cup {<<new, es[j]>> : j \in {j \in DOMAIN es : j > prev}}
    \/ \E front \in BOOLEAN : pop(r, k1, front) /\ UNCHANGED hist

(***************************************************************************)
(* LPUSH, RPUSH and LINSERT put the element where their replica saw it go,  *)
(* as long as the positions around the pivot leave room, and since the      *)
(* order of two places never changes it stays there when lists merge.      *)
(***************************************************************************)
InsertsLand == work = "places" => \A pq \in hist : Before(pq[1], pq[2])

-----------------------------------------------------------------------------
(***************************************************************************)
(* Consumer groups: one stream, one group.  hist.given[r] is the entries    *)
(* XREADGROUP has handed out on r, hist.done those that some XACK or        *)
(* XGROUP DELCONSUMER has settled.                                         *)
(***************************************************************************)
grp == 1
Settled(ids) == hist' = [hist EXCEPT !.done = @ \cup ids]
HandedOut == UNION {UNION Range(hist.given[r]) : r \in Replica}
GroupStep(r) ==
    \/ r = Min(Replica) /\ StreamAdd(r, k1, "auto", NoID, r, FALSE, NoTrim) /\ UNCHANGED hist
    \/ r = Min(Replica) /\ ~groupLive(Data(r), k1, grp) /\ GroupCreate(r, k1, grp, NoID, TRUE) /\ UNCHANGED hist
    \/ LET m == Data(r) new == Fresh(m, k1, grp) IN
       /\ ReadNew(r, k1, grp, r, FALSE)
       /\ hist' = [hist EXCEPT !.given[r] = Append(@, new)]
    \/ LET ids == PendingOf(Data(r), k1, grp, r) IN ids # {} /\ Ack(r, k1, grp, ids) /\ Settled(ids)
    \/ /\ r = Min(Replica) /\ ConsumerDelete(r, k1, grp, 2)
       /\ Settled(PendingOf(Data(r), k1, grp, 2))
    \/ \E id \in DOMAIN Pending(Data(r), k1, grp) :
          /\ Claim(r, k1, grp, r, id, [justID |-> FALSE, force |-> TRUE, minIdle |-> 0])
          /\ UNCHANGED hist

(***************************************************************************)
(* DESIGN 12.3b, "Within one node the key lock makes delivery exactly-once":*)
(* XREADGROUP on one node hands out an entry once, whatever it learns from  *)
(* the other nodes in between.                                             *)
(***************************************************************************)
DeliveredOnce ==
    work = "groups" =>
        \A r \in Replica : \A i, j \in DOMAIN hist.given[r] :
            i # j => hist.given[r][i] \cap hist.given[r][j] = {}

(***************************************************************************)
(* An entry handed out and neither acknowledged nor dropped with its        *)
(* consumer stays pending for somebody, though the replicas write the       *)
(* pending list at the same time.                                          *)
(***************************************************************************)
UnackedPending ==
    work = "groups" => LET m == Merged IN HandedOut \ hist.done \subseteq DOMAIN Pending(m, k1, grp)

-----------------------------------------------------------------------------
(***************************************************************************)
(* Copies: a key of some type is filled, expires, is swept, deleted or      *)
(* renamed.  hist is its type and the last thing done, and by whom.  A       *)
(* replica merges all there is: loadJSON skips, and DEL leaves, a node that *)
(* is there before its parents.                                            *)
(***************************************************************************)
Strung == {"plain", "counter", "hll", "bitmap"}   \* the flavours of a string
CopiedTypes ==
    Strung \cup {"hash", "set", "zset", "list", "bloom", "cms", "topk", "stream", "json"}
Acts(what, r) == hist' = [hist EXCEPT !.act = what, !.by = r]

Fill(r) ==
    CASE hist.type = "plain" -> \E b \in {0, 1} : Set(r, k1, Plain(<<b, b>>), 0)
      [] hist.type = "hash" ->
            HashSet(r, k1, 1, r) \/ HashDelete(r, k1, {1}) \/ HashIncr(r, k1, 2, 1)
      [] hist.type = "set" -> \E e \in Elem : SetAdd(r, k1, {e})
      [] hist.type = "zset" -> ZAdd(r, k1, 1, r)
      [] hist.type = "counter" -> Incr(r, k1, 1, "counter")
      [] hist.type = "hll" -> \E x \in Item : PFAdd(r, k1, x)
      [] hist.type = "bitmap" -> \E o \in Offset : SetBit(r, k1, o, 1)
      [] hist.type = "bloom" -> \E x \in 1 .. 2 : BFAdd(r, k1, <<x>>, Bloom(1, 2))
      [] hist.type = "cms" -> Reserve(r, k1, CMS(2)) \/ CMSIncr(r, k1, 1, 1)
      [] hist.type = "topk" -> Reserve(r, k1, TopK(1, 2)) \/ TopKAdd(r, k1, 1, 1)
      [] hist.type = "stream" ->
            \/ StreamAdd(r, k1, "auto", NoID, r, FALSE, NoTrim)
            \/ GroupCreate(r, k1, grp, NoID, TRUE)
            \/ ReadNew(r, k1, grp, r, FALSE)
Write(r) == r = Min(Replica) /\
    \/ JsonSet(r, k1, <<>>, ObjectOf([f \in {"a"} |-> Number(1)]), FALSE, FALSE)
    \/ JsonSet(r, k1, <<<<"field", "b">>>>, ArrayOf(<<Number(1)>>), FALSE, FALSE)
CopyStep(r) ==
    \/ hist.type = "list" /\ (\E front \in BOOLEAN : push(r, k1, r, front)) /\ Acts("fill", r)
    \/ hist.type \notin {"list", "json"} /\ Fill(r) /\ UNCHANGED listVars /\ Acts("fill", r)
    \/ hist.type = "json" /\ Write(r) /\ Acts("fill", r)
    \/ Expire(r, k1, 1) /\ UNCHANGED listVars /\ Acts("expire", r)
    \/ SweepFinds(r, k1) /\ UNCHANGED listVars /\ Acts("find", r)
    \/ SweepExpired(r) /\ UNCHANGED listVars /\ Acts("remove", r)
    \/ Delete(r, k1) /\ UNCHANGED listVars /\ Acts("remove", r)
    \/ /\ \A key \in DOMAIN Data(r) : key[2] # k2
       /\ Rename(r, k1, k2) /\ UNCHANGED listVars /\ Acts("rename", r)

Shown(m, k) ==
    CASE hist.type \in Strung -> readValue(m, k)
      [] hist.type = "hash" -> HashItems(m, k)
      [] hist.type = "set" -> Items(m, k)
      [] hist.type = "zset" -> IF ensureType(m, k, "zset") THEN zsetLiveScores(m, k) ELSE <<>>
      [] hist.type = "list" -> ListItems(m, k)
      [] hist.type = "bloom" ->
            LET st == newBloomState(m, Min(Replica), k, readSketchParams(m, k)) IN <<st.merged, st.counts>>
      [] hist.type = "cms" ->
            LET p == readSketchParams(m, k) IN
            <<cmsTotal(m, k, p), [c \in cmsCells(p, 1) |-> cellSum(m, k, p, c)]>>
      [] hist.type = "topk" ->
            LET p == readSketchParams(m, k) top == topkTop(m, k, p) IN
            [i \in DOMAIN top |-> <<top[i], topkCount(m, k, p, top[i])>>]
      [] hist.type = "stream" ->
            <<streamLive(m, k), streamLast(m, k),
              [g \in loadGroups(m, k) |-> <<groupLast(m, k, g), Pending(m, k, g), Consumers(m, k, g)>>]>>
      [] hist.type = "json" -> loadJSON(m, k)

Acted(what, r) == work = "copies" /\ hist # hist' /\ hist'.act = what /\ hist'.by = r
Kept(r) == Acted("rename", r) => Shown(Data(r), k2)' = Shown(Data(r), k1)
Shared(m, k) == \E f \in Field : Cardinality(Under(m, hashFieldBase(k, f))) > 1
(***************************************************************************)
(* RENAME to a new name (copyKey): for every type, the copy shows all that  *)
(* the key showed, though the replicas' components become one, a top-k      *)
(* keeps its first items and a stream its groups, their positions and       *)
(* pending entries.  Left out is a hash with a field that several replicas  *)
(* have written: see RenameKeepsShared.                                    *)
(***************************************************************************)
RenameKeeps == [][\A r \in Replica : ~Shared(Data(r), k1) => Kept(r)]_vars

(***************************************************************************)
(* The same of every hash, as the comment of copyHashData has it ("copies a *)
(* hash's live data").  It does not hold: the slots of all replicas that    *)
(* are present are copied and not the winner, and a field overwritten or    *)
(* deleted since shows its old value under the new name.                   *)
(***************************************************************************)
RenameKeepsShared == [][\A r \in Replica : Kept(r)]_vars

Clean(m, k) ==
    /\ \A space \in {"b", "h", "z", "j", "x"} : Live(m, space, k) = {}
    /\ \A space \in {"c", "p", "hc", "e", "l", "sk", "xl"} : Under(m, <<space, k>>) = {}
    /\ ~LiveSlot(m, strBase(k)) /\ ~LiveSlot(m, sketchParamsBase(k)) /\ loadGroups(m, k) = {}
(***************************************************************************)
(* DEL and the sweeper (deleteKey) leave no live data of the key on their   *)
(* replica, so that a key made again under the name starts empty, as long   *)
(* as the replica's clock is past the stamps of what it deletes.           *)
(***************************************************************************)
RemovedClean ==
    [][\A r \in Replica :
           Acted("remove", r) /\ (\A q \in Replica \ {r} : Less(last[q], StampOf(r, 1)))
               => Clean(Data(r), k1)']_vars

-----------------------------------------------------------------------------
InitialHist(w) ==
    CASE w = "counters" -> <<0, 0>>
      [] w = "hll" -> [k \in Key |-> NoSketch]
      [] w = "bits" -> [o \in Offset |-> <<0, {}>>]
      [] w = "moves" -> FALSE
      [] w \in {"bloom", "cms", "places"} -> {}
      [] w = "streams" -> <<>>
      [] w = "groups" -> [given |-> [r \in Replica |-> <<>>], done |-> {}]
      [] w = "topk" -> [r \in Replica |-> [x \in 1 .. 3 |-> 0]]

Init ==
    /\ work \in Work
    /\ StoreInit(Budget(work))
    /\ ListInit
    /\ IF work = "copies" THEN hist \in [type : CopiedTypes, act : {"none"}, by : {NoReplica}]
       ELSE hist = InitialHist(work)

Timed == {"bits", "streams", "copies"}   \* the workloads in which time passes
Whole(p) == work = "copies" \/ (work = "cms" /\ p # Min(Replica))   \* p merges all there is
Still == UNCHANGED <<listVars, work>>
Next ==
    \/ \E p \in Writer(work) : ~Whole(p) /\ Deliver(p) /\ Still /\ UNCHANGED hist
    \/ \E p \in Writer(work) : Whole(p) /\ CatchUp(p) /\ Still /\ UNCHANGED hist
    \/ work \in Timed /\ Tick /\ Still /\ UNCHANGED hist
    \/ \E r \in Writer(work) : work = "counters" /\ CounterStep(r) /\ Still
    \/ \E r \in Writer(work) : work = "hll" /\ HllStep(r) /\ Still
    \/ \E r \in Writer(work) : work = "bits" /\ BitStep(r) /\ Still
    \/ \E r \in Writer(work) : work = "moves" /\ MoveStep(r) /\ Still
    \/ \E r \in Writer(work) : work = "bloom" /\ BloomStep(r) /\ Still
    \/ \E r \in Writer(work) : work = "cms" /\ CmsStep(r) /\ Still
    \/ \E r \in Writer(work) : work = "topk" /\ TopKStep(r) /\ Still
    \/ \E r \in Writer(work) : work = "streams" /\ StreamStep(r) /\ Still
    \/ \E r \in Writer(work) : work = "groups" /\ GroupStep(r) /\ Still
    \/ \E r \in Writer(work) : work = "places" /\ PlaceStep(r) /\ UNCHANGED work
    \/ \E r \in Writer(work) : work = "copies" /\ CopyStep(r) /\ UNCHANGED work

Spec == Init /\ [][Next]_vars
=============================================================================
