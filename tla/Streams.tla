------------------------------ MODULE Streams ------------------------------
(***************************************************************************)
(* Streams (crdtstore/rstream.go) and their consumer groups                *)
(* (crdtstore/rstream_group.go).  An ID is <<ms, counter, disc>>: the       *)
(* code's sequence number is counter * 2^16 + disc, with disc a hash of the *)
(* replica that made it.  An entry's fields are one value.                 *)
(***************************************************************************)
EXTENDS Keyspace

CONSTANTS
    Disc(_),   \* Disc(r): the discriminator of replica r
    MaxNew     \* bound: entries one XREADGROUP returns at most; 0 is no COUNT

NoID == <<0, 0, 0>>
IDLess(a, b) ==
    a[1] < b[1] \/ (a[1] = b[1] /\ (a[2] < b[2] \/ (a[2] = b[2] /\ a[3] < b[3])))
MaxID(S) == CHOOSE a \in S : \A b \in S \ {a} : IDLess(b, a)
InOrder(ids) == SetToSortSeq(ids, IDLess)

streamBase(k, id) == <<"x", k, id>>
groupBase(k, g, part) == <<"xg", k, g, part>>

(***************************************************************************)
(* The ID of an XADD: a set of one, empty when the command is refused.     *)
(***************************************************************************)
nextStreamIDNow(r, top, mode, id) == {<<now, 0, Disc(r)>>}
nextStreamID(r, top, mode, id) ==
    LET bump == <<top[1], top[2] + 1, Disc(r)>> IN
    CASE mode = "auto" -> IF now > top[1] THEN {<<now, 0, Disc(r)>>} ELSE {bump}
      [] mode = "autoseq" ->
            (CASE id[1] > top[1] -> {<<id[1], 0, Disc(r)>>}
               [] id[1] = top[1] -> {bump}
               [] OTHER -> {})
      [] mode = "explicit" -> IF id # NoID /\ IDLess(top, id) THEN {id} ELSE {}

streamLast(m, k) == MaxID({NoID} \cup {m[s] : s \in Under(m, streamLastBase(k))})
OwnLast(m, r, k) == IF Has(m, Append(streamLastBase(k), r)) THEN m[Append(streamLastBase(k), r)] ELSE NoID
streamBumpLast(r, k, id) == Put(Append(streamLastBase(k), r), id)
streamTombstone(k, id) == Deleted(streamBase(k, id))
streamLive(m, k) == Live(m, "x", k)
Entries(m, k) == IF ensureType(m, k, "stream") /\ probe(m, k) THEN streamLive(m, k) ELSE {}

(***************************************************************************)
(* XRANGE, XREVRANGE: bounds are <<id, exclusive>>.                        *)
(***************************************************************************)
StreamRangeWhole(m, k, lo, hi, count, rev) ==
    LET all == IF rev THEN Reverse(InOrder(Entries(m, k))) ELSE InOrder(Entries(m, k))
        head == IF count > 0 /\ count < Len(all) THEN SubSeq(all, 1, count) ELSE all
    IN  SelectSeq(head, LAMBDA e : /\ ~IDLess(e, lo[1]) /\ (e = lo[1] => ~lo[2])
                                   /\ ~IDLess(hi[1], e) /\ (e = hi[1] => ~hi[2]))
StreamRange(m, k, lo, hi, count, rev) ==
    LET in == {e \in Entries(m, k) : /\ ~IDLess(e, lo[1]) /\ (e = lo[1] => ~lo[2])
                                     /\ ~IDLess(hi[1], e) /\ (e = hi[1] => ~hi[2])}
        out == IF rev THEN Reverse(InOrder(in)) ELSE InOrder(in)
    IN  IF count > 0 /\ count < Len(out) THEN SubSeq(out, 1, count) ELSE out

(***************************************************************************)
(* XTRIM: the oldest entries beyond a length, or those below an ID.        *)
(***************************************************************************)
MaxLen(n) == [by |-> "maxlen", len |-> n, id |-> NoID]
MinID(id) == [by |-> "minid", len |-> 0, id |-> id]
NoTrim == [by |-> "none", len |-> 0, id |-> NoID]
trimLocked(m, k, t) ==
    LET es == streamLive(m, k)
        older(e) == Cardinality({f \in es : IDLess(f, e)})
        gone == CASE t.by = "maxlen" -> {e \in es : older(e) < Cardinality(es) - t.len}
                  [] t.by = "minid" -> {e \in es : IDLess(e, t.id)}
                  [] OTHER -> {}
    IN  Each(gone, LAMBDA e : streamTombstone(k, e))

addOps(m, r, k, id, v) ==
    <<Present(streamBase(k, id), v)>>
        \o (IF IDLess(OwnLast(m, r, k), id) THEN <<streamBumpLast(r, k, id)>> ELSE <<>>)
        \o (IF probe(m, k) THEN <<>> ELSE <<writeMeta(k, MetaOf("stream"))>>)
StreamAdd(r, k, mode, id, v, noMkStream, t) ==
    LET m == Data(r) IN
    /\ ensureType(m, k, "stream")
    /\ noMkStream => probe(m, k)
    /\ \E new \in nextStreamID(r, streamLast(m, k), mode, id) :
          LET ops == addOps(m, r, k, new, v) IN
          Do(r, ops \o trimLocked(Overlay(m, r, ops), k, t))

StreamDel(r, k, ids) ==
    LET m == Data(r) IN
    /\ ensureType(m, k, "stream")
    /\ Do(r, Each(ids \cap Entries(m, k), LAMBDA e : streamTombstone(k, e)))

StreamTrim(r, k, t) ==
    LET m == Data(r) IN
    /\ ensureType(m, k, "stream")
    /\ Do(r, IF probe(m, k) THEN trimLocked(m, k, t) ELSE <<>>)

-----------------------------------------------------------------------------
(* Consumer groups: existence, consumers and pending entries are registers, *)
(* the last-delivered ID is the largest <<epoch, id>> of the replicas'.     *)

groupLive(m, k, g) == LiveSlot(m, groupBase(k, g, "m"))
loadGroups(m, k) == {g \in Part(m, <<"xg", k>>, 3) : groupLive(m, k, g)}
open(m, k, g) == ensureType(m, k, "stream") /\ probe(m, k) /\ groupLive(m, k, g)

groupLastID(S) ==
    IF S = {} THEN <<0, NoID>>
    ELSE LET top == Max({s[1] : s \in S}) IN <<top, MaxID({NoID} \cup {s[2] : s \in {x \in S : x[1] = top}})>>
groupLast(m, k, g) == groupLastID({m[s] : s \in Under(m, groupBase(k, g, "l"))})

LivePart(m, k, g, part) ==
    {x \in Part(m, groupBase(k, g, part), 5) : LiveSlot(m, Append(groupBase(k, g, part), x))}
Pending(m, k, g) ==
    [id \in LivePart(m, k, g, "p") |-> LiveValue(m, Append(groupBase(k, g, "p"), id))]
Consumers(m, k, g) == LivePart(m, k, g, "c")
PendingOf(m, k, g, c) == {id \in DOMAIN Pending(m, k, g) : Pending(m, k, g)[id].consumer = c}

pelValue(c, at, count) == [consumer |-> c, delivered |-> at, count |-> count]
gWriteLast(r, k, g, epoch, id) == Put(Append(groupBase(k, g, "l"), r), <<epoch, id>>)
gWriteMeta(k, g) == Present(groupBase(k, g, "m"), "group")
gWritePel(k, g, id, v) == Present(Append(groupBase(k, g, "p"), id), v)
gDelPel(k, g, id) == Deleted(Append(groupBase(k, g, "p"), id))
gTouchConsumer(k, g, c) == Present(Append(groupBase(k, g, "c"), c), now)

destroyGroupData(m, k, g) ==
    Each(LivePart(m, k, g, "p"), LAMBDA id : gDelPel(k, g, id))
        \o Each(Consumers(m, k, g), LAMBDA c : Deleted(Append(groupBase(k, g, "c"), c)))
        \o Each(Under(m, groupBase(k, g, "l")), LAMBDA s : Del(s))
        \o <<Deleted(groupBase(k, g, "m"))>>

(***************************************************************************)
(* XGROUP CREATE ... MKSTREAM has made the stream when it finds the group. *)
(***************************************************************************)
GroupCreate(r, k, g, id, mkstream) ==
    LET m == Data(r)
        made == IF probe(m, k) THEN <<>> ELSE <<streamBumpLast(r, k, NoID), writeMeta(k, MetaOf("stream"))>>
    IN  /\ ensureType(m, k, "stream")
        /\ probe(m, k) \/ mkstream
        /\ Do(r, made \o IF groupLive(m, k, g) THEN <<>> ELSE <<gWriteMeta(k, g), gWriteLast(r, k, g, 0, id)>>)

GroupDestroy(r, k, g) == open(Data(r), k, g) /\ Do(r, destroyGroupData(Data(r), k, g))

GroupSetID(r, k, g, id) ==
    /\ open(Data(r), k, g)
    /\ Do(r, <<gWriteLast(r, k, g, groupLast(Data(r), k, g)[1] + 1, id)>>)

ConsumerCreate(r, k, g, c) == open(Data(r), k, g) /\ Do(r, <<gTouchConsumer(k, g, c)>>)

ConsumerDeleteAll(r, k, g, c) ==
    LET m == Data(r) IN
    /\ open(m, k, g)
    /\ Do(r, Each(LivePart(m, k, g, "p"), LAMBDA id : gDelPel(k, g, id))
                \o IF c \in Consumers(m, k, g) THEN <<Deleted(Append(groupBase(k, g, "c"), c))>> ELSE <<>>)
ConsumerDelete(r, k, g, c) ==
    LET m == Data(r) IN
    /\ open(m, k, g)
    /\ Do(r, Each(PendingOf(m, k, g, c), LAMBDA id : gDelPel(k, g, id))
                \o IF c \in Consumers(m, k, g) THEN <<Deleted(Append(groupBase(k, g, "c"), c))>> ELSE <<>>)

(***************************************************************************)
(* XREADGROUP with > hands out the entries after the last-delivered ID.    *)
(***************************************************************************)
Fresh(m, k, g) ==
    LET new == {e \in streamLive(m, k) : IDLess(groupLast(m, k, g)[2], e)}
        rank(e) == Cardinality({f \in new : IDLess(f, e)})
    IN  {e \in new : MaxNew = 0 \/ rank(e) < MaxNew}
Redelivered(m, k, g, id) == IF id \in DOMAIN Pending(m, k, g) THEN Pending(m, k, g)[id].count ELSE 0

readNewNoLast(m, r, k, g, c, noack) ==
    <<gTouchConsumer(k, g, c)>>
        \o Each(Fresh(m, k, g), LAMBDA e : gWritePel(k, g, e, pelValue(c, now, Redelivered(m, k, g, e) + 1)))
readNew(m, r, k, g, c, noack) ==
    LET out == Fresh(m, k, g) IN
    <<gTouchConsumer(k, g, c)>>
        \o (IF noack THEN <<>>
            ELSE Each(out, LAMBDA e : gWritePel(k, g, e, pelValue(c, now, Redelivered(m, k, g, e) + 1))))
        \o (IF out = {} THEN <<>> ELSE <<gWriteLast(r, k, g, groupLast(m, k, g)[1], MaxID(out))>>)
ReadNew(r, k, g, c, noack) ==
    open(Data(r), k, g) /\ Do(r, readNew(Data(r), r, k, g, c, noack))

ReadPending(r, k, g, c) == open(Data(r), k, g) /\ Do(r, <<gTouchConsumer(k, g, c)>>)

Ack(r, k, g, ids) ==
    LET m == Data(r) IN
    /\ open(m, k, g)
    /\ Do(r, Each(ids \cap LivePart(m, k, g, "p"), LAMBDA id : gDelPel(k, g, id)))

(***************************************************************************)
(* XCLAIM: an entry gone from the stream leaves the pending list; one idle *)
(* for too short a time stays; FORCE takes one nobody has.  The options    *)
(* that set the delivery time or the count (TIME, IDLE, RETRYCOUNT) are    *)
(* left out.                                                               *)
(***************************************************************************)
claimOne(m, k, g, c, id, o) ==
    LET inPel == id \in LivePart(m, k, g, "p")
        inStream == id \in streamLive(m, k)
        old == Pending(m, k, g)[id]
        count == IF o.justID THEN Redelivered(m, k, g, id) ELSE Redelivered(m, k, g, id) + 1
        new == pelValue(c, now, IF inPel THEN count ELSE Max({count, 1}))
    IN  CASE inPel /\ ~inStream -> <<gDelPel(k, g, id)>>
          [] ~inPel /\ ~(o.force /\ inStream) -> <<>>
          [] inPel /\ now - old.delivered < o.minIdle -> <<>>
          [] OTHER -> <<gWritePel(k, g, id, new)>>
Claim(r, k, g, c, id, o) ==
    /\ open(Data(r), k, g)
    /\ Do(r, claimOne(Data(r), k, g, c, id, o) \o <<gTouchConsumer(k, g, c)>>)

-----------------------------------------------------------------------------
(* DEL and RENAME of a stream.                                             *)

deleteGroups(m, k) == FlattenSeq(Each(loadGroups(m, k), LAMBDA g : destroyGroupData(m, k, g)))
deleteStream(m, k) ==
    Each(streamLive(m, k), LAMBDA e : streamTombstone(k, e))
        \o deleteGroups(m, k)
        \o Each(Under(m, streamLastBase(k)), LAMBDA s : Del(s))
        \o <<deleteMeta(k)>>

copyGroup(m, r, k, to, g) ==
    <<gWriteMeta(to, g), gWriteLast(r, to, g, groupLast(m, k, g)[1], groupLast(m, k, g)[2])>>
        \o Each(LivePart(m, k, g, "p"), LAMBDA id : gWritePel(to, g, id, Pending(m, k, g)[id]))
        \o Each(Consumers(m, k, g), LAMBDA c : gTouchConsumer(to, g, c))
copyGroups(m, r, k, to) == FlattenSeq(Each(loadGroups(m, k), LAMBDA g : copyGroup(m, r, k, to, g)))
copyStream(m, r, k, to) ==
    Each(streamLive(m, k), LAMBDA e : Present(streamBase(to, e), LiveValue(m, streamBase(k, e))))
        \o <<streamBumpLast(r, to, streamLast(m, k))>>
        \o copyGroups(m, r, k, to)
        \o <<writeMeta(to, MetaOf("stream"))>>
=============================================================================
