---------------------------- MODULE KeyCommands ----------------------------
(***************************************************************************)
(* The commands on keys of any type: DEL, FLUSHDB, EXPIRE, PERSIST, RENAME,*)
(* RENAMENX, KEYS (crdtstore/rkey.go, keyops.go), the sweeper of expired    *)
(* keys (expire.go), and BITOP (bitmap.go), whose destination may be of any *)
(* type.                                                                   *)
(***************************************************************************)
EXTENDS Collections, Strings, Streams, Sketches, Documents

deleteString(m, k) ==
    CASE HasMeta(m, k) /\ isCounter(readMeta(m, k).flavor) -> deleteCounter(m, k)
      [] HasMeta(m, k) /\ isHLL(readMeta(m, k).flavor) -> deleteHLL(m, k)
      [] HasMeta(m, k) /\ readMeta(m, k).flavor = "bitmap" -> deleteBitmap(m, k)
      [] OTHER -> <<Deleted(strBase(k)), deleteMeta(k)>>
deleteKeyMeta(m, k, type) == <<deleteMeta(k)>>
deleteKey(m, k, type) ==
    CASE type = "string" -> deleteString(m, k)
      [] type = "hash" -> Append(deleteHashData(m, k), deleteMeta(k))
      [] type = "set" -> Append(Each(members(m, k), LAMBDA e : Del(setMember(k, e))), deleteMeta(k))
      [] type = "zset" -> Append(Each(Live(m, "z", k), LAMBDA e : Deleted(zsetMemberBase(k, e))), deleteMeta(k))
      [] type = "list" -> Append(Each(Under(m, <<"l", k>>), LAMBDA e : Del(e)), deleteMeta(k))
      [] type = "json" -> deleteJSON(m, k)
      [] type \in {"bloom", "cms", "topk"} -> deleteSketch(m, k)
      [] type = "stream" -> deleteStream(m, k)

copyString(m, r, k, to) ==
    LET meta == readMeta(m, k) IN
    CASE isHLL(meta.flavor) -> copyHLL(m, r, k, to)
      [] meta.flavor = "bitmap" -> copyBitmap(m, k, to)
      [] isCounter(meta.flavor) -> <<Put(Append(counterBase(to), r), counterSum(m, k)), writeMeta(to, meta)>>
      [] OTHER -> IF LiveSlot(m, strBase(k))
                  THEN <<Present(strBase(to), LiveValue(m, strBase(k))),
                         writeMeta(to, KeyMeta("string", "string", meta.etime))>>
                  ELSE <<>>
copyKey(m, r, k, to) ==
    LET type == readMeta(m, k).type meta == writeMeta(to, MetaOf(type)) IN
    CASE type = "string" -> copyString(m, r, k, to)
      [] type = "hash" -> Append(copyHashData(m, k, to), meta)
      [] type = "set" -> Append(Each(members(m, k), LAMBDA e : Put(setMember(to, e), "presence")), meta)
      [] type = "zset" ->
            Append(Each(Live(m, "z", k), LAMBDA e : Present(zsetMemberBase(to, e), zsetLiveScores(m, k)[e])), meta)
      [] type = "list" -> Append(Each(Under(m, <<"l", k>>), LAMBDA e : Put(listElem(to, e[3]), m[e])), meta)
      [] type = "json" -> copyJSON(m, k, to)
      [] type \in {"bloom", "cms", "topk"} -> copySketch(m, r, k, to)
      [] type = "stream" -> copyStream(m, r, k, to)

listKeys(m) == {k \in Key : probe(m, k)}

Delete(r, k) ==
    LET m == Data(r) IN probe(m, k) /\ Do(r, deleteKey(m, k, readMeta(m, k).type))

(***************************************************************************)
(* FLUSHDB: the keys there were when it began, each under its own lock.    *)
(***************************************************************************)
DeleteAll(r) == Ask(r, <<"flush", listKeys(Data(r))>>)
FlushNext(r) ==
    /\ pend[r] # Idle /\ pend[r][1] = "flush"
    /\ \/ /\ pend[r][2] = {}
          /\ Answer(r, <<>>)
       \/ \E k \in pend[r][2] :
             LET m == Data(r) IN
             /\ pend' = [pend EXCEPT ![r] = <<"flush", @[2] \ {k}>>]
             /\ Writes(r, IF probe(m, k) THEN deleteKey(m, k, readMeta(m, k).type) ELSE <<>>)
             /\ Turn(r) /\ UNCHANGED togo

setETime(r, k, etime) ==
    LET m == Data(r) IN probe(m, k) /\ Do(r, <<writeMeta(k, [readMeta(m, k) EXCEPT !.etime = etime])>>)
Expire(r, k, ttl) == setETime(r, k, now + ttl)
Persist(r, k) == setETime(r, k, 0)

renameOps(m, r, k, to) == copyKey(m, r, k, to) \o deleteKey(m, k, readMeta(m, k).type)
Rename(r, k, to) ==
    LET m == Data(r) IN k # to /\ probe(m, k) /\ Do(r, renameOps(m, r, k, to))

(***************************************************************************)
(* RENAMENX looks for the destination before Rename takes the locks.       *)
(***************************************************************************)
RenameNotExists(r, k, to) == k # to /\ ~probe(Data(r), to) /\ Ask(r, <<"renamenx", k, to>>)
RenameAnswer(r) ==
    /\ pend[r] # Idle /\ pend[r][1] = "renamenx"
    /\ LET m == Data(r) k == pend[r][2] to == pend[r][3] IN
       Answer(r, IF probe(m, k) THEN renameOps(m, r, k, to) ELSE <<>>)

(***************************************************************************)
(* The sweeper finds the expired keys under no lock, then locks each and    *)
(* deletes what its type was.                                              *)
(***************************************************************************)
SweepFinds(r, k) ==
    Expired(Data(r), k) /\ Ask(r, <<"sweep", k, readMeta(Data(r), k).type>>)
SweepExpired(r) ==
    /\ pend[r] # Idle /\ pend[r][1] = "sweep"
    /\ Answer(r, deleteKey(Data(r), pend[r][2], pend[r][3]))

(***************************************************************************)
(* BITOP reads its sources under no lock.                                  *)
(***************************************************************************)
loadBytes(m, k) ==
    CASE bitKind(m, k) = "bitmap" -> bitmapBytes(bitmapLoad(m, k))
      [] bitKind(m, k) = "string" /\ readMeta(m, k).flavor = "string" -> LiveValue(m, strBase(k)).bits
      [] OTHER -> <<>>
BitOpReads(r, op, dest, a, b) ==
    LET m == Data(r) IN
    /\ {bitKind(m, a), bitKind(m, b)} \subseteq {"absent", "bitmap", "string"}
    /\ Ask(r, <<"bitop", dest, bitop(op, loadBytes(m, a), loadBytes(m, b))>>)
BitOp(r) ==
    /\ pend[r] # Idle /\ pend[r][1] = "bitop"
    /\ LET m == Data(r) dest == pend[r][2] out == pend[r][3]
           gone == IF probe(m, dest) /\ (out = <<>> \/ bitKind(m, dest) # "bitmap")
                   THEN deleteKey(m, dest, readMeta(m, dest).type) ELSE <<>>
       IN  Answer(r, IF out = <<>> THEN gone ELSE gone \o bitmapWrite(Overlay(m, r, gone), dest, out, 0))
=============================================================================
