------------------------------ MODULE Strings ------------------------------
(***************************************************************************)
(* The string type and its flavours: plain strings (crdtstore/rstring.go), *)
(* counters (counter.go), HyperLogLogs (hll.go) and bitmaps (bitmap.go).    *)
(*                                                                         *)
(* A plain value is [bits, regs]: its bytes as bits and, when the bytes are *)
(* a well-formed HyperLogLog (decodeRedis), the registers they encode; regs *)
(* is <<>> otherwise.  An element of a sketch stands for its hash, a        *)
(* register and a rank.                                                    *)
(***************************************************************************)
EXTENDS Keyspace, BitStrings

CONSTANTS
    Register,   \* indices of a HyperLogLog's registers (hllM of them)
    Item,       \* elements PFADD adds: pairs <<register, rank>>
    ChunkBytes  \* bytes of a bitmap chunk (512)

Plain(bits) == [bits |-> bits, regs |-> <<>>]

-----------------------------------------------------------------------------
(* HyperLogLogs: one sketch per replica, merged register by register.      *)

NoSketch == [i \in Register |-> 0]
merge(h, o) == [i \in Register |-> Max({h[i], o[i]})]
add(h, x) == [h EXCEPT ![x[1]] = Max({@, x[2]})]
hllMerged(m, k) == [i \in Register |-> Max({0} \cup {m[s][i] : s \in Under(m, hllBase(k))})]
hllOwn(m, r, k) == IF Has(m, Append(hllBase(k), r)) THEN m[Append(hllBase(k), r)] ELSE NoSketch

hllCheck(m, k) == probe(m, k) => readMeta(m, k).type = "string" /\ isHLL(readMeta(m, k).flavor)
LiveETime(m, k) == IF probe(m, k) THEN readMeta(m, k).etime ELSE 0

hllStoreFlavor(r, k, h, etime, flavor) ==
    <<Put(Append(hllBase(k), r), h), writeMeta(k, KeyMeta("string", flavor, etime))>>
hllStore(m, r, k, h, etime) ==
    hllStoreFlavor(r, k, h, etime, IF HasMeta(m, k) /\ readMeta(m, k).flavor = "dense" THEN "dense" ELSE "hll")

PFAddMerged(r, k, x) ==
    LET m == Data(r) merged == hllMerged(m, k) IN
    /\ hllCheck(m, k)
    /\ Under(m, hllBase(k)) = {} \/ add(merged, x) # merged \/ Has(m, Append(hllBase(k), r))
    /\ Do(r, hllStore(m, r, k, add(NoSketch, x), LiveETime(m, k)))
PFAdd(r, k, x) ==
    LET m == Data(r) merged == hllMerged(m, k) grows == add(merged, x) # merged IN
    /\ hllCheck(m, k)
    /\ Under(m, hllBase(k)) = {} \/ grows
    /\ Do(r, hllStore(m, r, k, IF grows THEN add(hllOwn(m, r, k), x) ELSE hllOwn(m, r, k), LiveETime(m, k)))

(***************************************************************************)
(* PFMERGE checks its sources before it locks dest.                        *)
(***************************************************************************)
PFMergeChecks(r, dest, src) ==
    /\ hllCheck(Data(r), src)
    /\ Ask(r, <<"pfmerge", dest, src>>)

PFMerge(r) ==
    /\ pend[r] # Idle /\ pend[r][1] = "pfmerge"
    /\ LET m == Data(r) dest == pend[r][2] src == pend[r][3] IN
       Answer(r, IF hllCheck(m, dest)
                 THEN hllStore(m, r, dest, merge(hllMerged(m, dest), hllMerged(m, src)), LiveETime(m, dest))
                 ELSE <<>>)

PFToDense(r, k) ==
    LET m == Data(r) IN
    /\ probe(m, k) /\ readMeta(m, k).type = "string" /\ readMeta(m, k).flavor = "hll"
    /\ Do(r, <<writeMeta(k, [readMeta(m, k) EXCEPT !.flavor = "dense"])>>)

deleteHLL(m, k) == Each(Under(m, hllBase(k)), LAMBDA s : Del(s)) \o <<deleteMeta(k)>>
copyHLL(m, r, k, to) ==
    hllStoreFlavor(r, to, hllMerged(m, k), readMeta(m, k).etime, readMeta(m, k).flavor)

-----------------------------------------------------------------------------
(* Bitmaps: one register per chunk.                                        *)

ChunkBits == ChunkBytes * ByteBits
bitmapBytes(d) ==
    IF DOMAIN d = {} THEN <<>>
    ELSE LET top == Max(DOMAIN d) IN
         [i \in 1 .. top * ChunkBits + Len(d[top]) |->
            LET c == (i - 1) \div ChunkBits o == ((i - 1) % ChunkBits) + 1 IN
            IF c \in DOMAIN d /\ o <= Len(d[c]) THEN d[c][o] ELSE 0]

Chunk(data, c) == SubSeq(data, c * ChunkBits + 1, Min({(c + 1) * ChunkBits, Len(data)}))
bitmapWrite(m, k, data, etime) ==
    LET n == (Len(data) + ChunkBits - 1) \div ChunkBits
        keep == {c \in 0 .. n - 1 : c = n - 1 \/ \E i \in DOMAIN Chunk(data, c) : Chunk(data, c)[i] = 1}
    IN  Each(keep, LAMBDA c : Present(bitChunkBase(k, c), Chunk(data, c)))
            \o Each(DOMAIN bitmapLoad(m, k) \ keep, LAMBDA c : Deleted(bitChunkBase(k, c)))
            \o <<writeMeta(k, KeyMeta("string", "bitmap", etime))>>

deleteBitmap(m, k) ==
    Each(DOMAIN bitmapLoad(m, k), LAMBDA c : Deleted(bitChunkBase(k, c))) \o <<deleteMeta(k)>>
copyBitmap(m, k, to) == bitmapWrite(m, to, bitmapBytes(bitmapLoad(m, k)), readMeta(m, k).etime)

-----------------------------------------------------------------------------
(* Counters: one component per replica.                                    *)

Component(m, r, k) == IF Has(m, Append(counterBase(k), r)) THEN m[Append(counterBase(k), r)] ELSE 0
counterSum(m, k) == SumUnder(m, counterBase(k))

counterFlavor(m, k, want) ==
    probe(m, k) => readMeta(m, k).type = "string" /\ readMeta(m, k).flavor = want
keepETime(m, k) == IF HasMeta(m, k) THEN readMeta(m, k).etime ELSE 0

incrTotal(m, r, k, d, flavor) ==
    <<Put(Append(counterBase(k), r), counterSum(m, k) + d),
      writeMeta(k, KeyMeta("string", flavor, keepETime(m, k)))>>
incr(m, r, k, d, flavor) ==
    <<Put(Append(counterBase(k), r), Component(m, r, k) + d),
      writeMeta(k, KeyMeta("string", flavor, keepETime(m, k)))>>

Incr(r, k, d, flavor) ==
    LET m == Data(r) IN
    /\ counterFlavor(m, k, flavor)
    /\ Do(r, incr(m, r, k, d, flavor))

deleteCounter(m, k) == Each(Under(m, counterBase(k)), LAMBDA c : Del(c)) \o <<deleteMeta(k)>>

-----------------------------------------------------------------------------
(* Plain strings                                                           *)

(***************************************************************************)
(* GET: a set of at most one value, empty for a missing key.  What a       *)
(* counter's digits or a sketch's encoding look like as bits is left out.  *)
(***************************************************************************)
readValue(m, k) ==
    LET meta == readMeta(m, k) IN
    CASE ~probe(m, k) \/ meta.type # "string" -> {}
      [] isHLL(meta.flavor) -> {[Plain(<<>>) EXCEPT !.regs = hllMerged(m, k)]}
      [] meta.flavor = "bitmap" -> {Plain(bitmapBytes(bitmapLoad(m, k)))}
      [] isCounter(meta.flavor) -> {counterSum(m, k)}
      [] OTHER -> IF LiveSlot(m, strBase(k)) THEN {LiveValue(m, strBase(k))} ELSE {}

(***************************************************************************)
(* writeString: what it writes, after the guard against a live counter.    *)
(***************************************************************************)
NotCounter(m, k) == ~(HasMeta(m, k) /\ isCounter(readMeta(m, k).flavor) /\ counterExists(m, k))
Overwritten(m, k) ==
    CASE ~HasMeta(m, k) -> <<>>
      [] isHLL(readMeta(m, k).flavor) -> deleteHLL(m, k)
      [] readMeta(m, k).flavor = "bitmap" -> deleteBitmap(m, k)
      [] OTHER -> <<>>
writeString(m, r, k, v, etime, keepTTL) ==
    LET gone == Overwritten(m, k)
        left == Overlay(m, r, gone)
        kept == IF keepTTL /\ HasMeta(left, k) THEN readMeta(left, k).etime ELSE etime
    IN  gone \o IF v.regs # <<>> THEN hllStoreFlavor(r, k, v.regs, kept, "hll")
                ELSE <<Present(strBase(k), v), writeMeta(k, KeyMeta("string", "string", kept))>>

(***************************************************************************)
(* SET with its options; a time to live, or a time, of 0 is none.          *)
(***************************************************************************)
SetOpts == [nx |-> FALSE, xx |-> FALSE, get |-> FALSE, keepTTL |-> FALSE, ttl |-> 0, at |-> 0]
etimeOf(o) == IF o.at > 0 THEN o.at ELSE IF o.ttl > 0 THEN now + o.ttl ELSE 0
SetWith(r, k, v, o) ==
    LET m == Data(r) exists == readValue(m, k) # {} IN
    /\ ~(o.get /\ probe(m, k) /\ readMeta(m, k).type # "string")
    /\ ~(o.nx /\ exists) /\ ~(o.xx /\ ~exists)
    /\ NotCounter(m, k)
    /\ Do(r, writeString(m, r, k, v, etimeOf(o), o.keepTTL))

Set(r, k, v, ttl) ==
    LET m == Data(r) IN
    /\ NotCounter(m, k)
    /\ Do(r, writeString(m, r, k, v, IF ttl > 0 THEN now + ttl ELSE 0, FALSE))

-----------------------------------------------------------------------------
(* The bit commands                                                        *)

bitKind(m, k) ==
    CASE ~probe(m, k) -> "absent"
      [] readMeta(m, k).type # "string" -> "wrong"
      [] readMeta(m, k).flavor = "bitmap" -> "bitmap"
      [] OTHER -> "string"

WithBit(data, offset, on) == [Pad(data, Max({Bytes(data), offset \div ByteBits + 1})) EXCEPT ![offset + 1] = on]

SetBitOfString(m, k, offset, on) ==
    LET v == LiveValue(m, strBase(k)) IN
    <<Deleted(strBase(k))>> \o bitmapWrite(m, k, WithBit(v.bits, offset, on), readMeta(m, k).etime)
SetBitOfWhole(m, k, offset, on) ==
    bitmapWrite(m, k, WithBit(bitmapBytes(bitmapLoad(m, k)), offset, on), 0)
SetBitOfChunk(m, k, offset, on) ==
    LET c == offset \div ChunkBits o == offset % ChunkBits
        chunk == IF bitKind(m, k) = "bitmap" /\ c \in DOMAIN bitmapLoad(m, k) THEN bitmapLoad(m, k)[c] ELSE <<>>
        same == bitKind(m, k) = "bitmap" /\ o < Len(chunk) /\ BitAt(chunk, o) = on
    IN  IF same THEN <<>>
        ELSE <<Present(bitChunkBase(k, c), WithBit(chunk, o, on))>>
                \o IF bitKind(m, k) = "absent" THEN <<writeMeta(k, KeyMeta("string", "bitmap", 0))>> ELSE <<>>

SetBit(r, k, offset, on) ==
    LET m == Data(r) kind == bitKind(m, k) IN
    /\ kind # "wrong"
    /\ kind = "string" => readMeta(m, k).flavor = "string"
    /\ Do(r, IF kind = "string" THEN SetBitOfString(m, k, offset, on) ELSE SetBitOfChunk(m, k, offset, on))

GetBit(m, k, offset) ==
    LET kind == bitKind(m, k)
        In(data, o) == IF o < Len(data) THEN BitAt(data, o) ELSE 0
        c == bitChunkBase(k, offset \div ChunkBits)
    IN  CASE kind = "bitmap" -> IF LiveSlot(m, c) THEN In(LiveValue(m, c), offset % ChunkBits) ELSE 0
          [] kind = "string" /\ readMeta(m, k).flavor = "string" -> In(LiveValue(m, strBase(k)).bits, offset)
          [] OTHER -> 0
=============================================================================
