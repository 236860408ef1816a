------------------------------ MODULE Keyspace ------------------------------
(***************************************************************************)
(* Logical keys: the meta register that gives a key its type, flavour and  *)
(* expiry (crdtstore/meta.go), the live content of each type, and probe,    *)
(* which decides whether a key exists (crdtstore/probe.go).  All operators  *)
(* read m, the content of one replica (Data(r), or a transaction's overlay  *)
(* of it).  The spaces are those of crdtstore/keys.go; a logical key stands *)
(* for a database number and a name.                                       *)
(***************************************************************************)
EXTENDS Datastore

CONSTANT Key   \* logical keys

metaBase(k) == <<"m", k>>
strBase(k) == <<"v", k>>
counterBase(k) == <<"c", k>>
hllBase(k) == <<"p", k>>
bitChunkBase(k, i) == <<"b", k, i>>
hashFieldBase(k, f) == <<"h", k, f>>
hashFieldCounterBase(k, f) == <<"hc", k, f>>
setMember(k, e) == <<"e", k, e>>
zsetMemberBase(k, e) == <<"z", k, e>>
listElem(k, pos) == <<"l", k, pos>>
jsonRoot(k) == <<"j", k, <<>>>>
sketchParamsBase(k) == <<"sp", k>>
streamLastBase(k) == <<"xl", k>>

-----------------------------------------------------------------------------
(* meta.go                                                                 *)

KeyMeta(type, flavor, etime) == [type |-> type, flavor |-> flavor, etime |-> etime]
MetaOf(type) == KeyMeta(type, "none", 0)
isHLL(f) == f \in {"hll", "dense"}
isCounter(f) == f \in {"counter", "float"}

HasMeta(m, k) == LiveSlot(m, metaBase(k))
readMeta(m, k) == LiveValue(m, metaBase(k))
writeMeta(k, meta) == Present(metaBase(k), meta)
deleteMeta(k) == Deleted(metaBase(k))

Expired(m, k) == HasMeta(m, k) /\ readMeta(m, k).etime > 0 /\ readMeta(m, k).etime <= now

-----------------------------------------------------------------------------
(* The live content of each type.                                          *)

counterExists(m, k) == Under(m, counterBase(k)) # {}
Live(m, space, k) == {x \in Part(m, <<space, k>>, 3) : LiveSlot(m, <<space, k, x>>)}
members(m, k) == Part(m, <<"e", k>>, 3)
bitmapLoad(m, k) == [i \in Live(m, "b", k) |-> LiveValue(m, bitChunkBase(k, i))]
hashCounters(m, k) == Part(m, <<"hc", k>>, 3)
SumUnder(m, base) == SumFunctionOnSet(m, Under(m, base))
hashLiveFields(m, k) ==
    [f \in hashCounters(m, k) \cup Live(m, "h", k) |->
        IF f \in hashCounters(m, k) THEN SumUnder(m, hashFieldCounterBase(k, f))
        ELSE LiveValue(m, hashFieldBase(k, f))]
zsetLiveScores(m, k) == [e \in Live(m, "z", k) |-> LiveValue(m, zsetMemberBase(k, e))]

-----------------------------------------------------------------------------
(* probe.go                                                                *)

isLive(m, k, meta) ==
    CASE meta.type = "string" ->
            (CASE isCounter(meta.flavor) -> counterExists(m, k)
               [] isHLL(meta.flavor) -> Under(m, hllBase(k)) # {}
               [] meta.flavor = "bitmap" -> DOMAIN bitmapLoad(m, k) # {}
               [] OTHER -> LiveSlot(m, strBase(k)))
      [] meta.type = "set" -> members(m, k) # {}
      [] meta.type = "hash" -> DOMAIN hashLiveFields(m, k) # {}
      [] meta.type = "zset" -> DOMAIN zsetLiveScores(m, k) # {}
      [] meta.type = "list" -> Under(m, <<"l", k>>) # {}
      [] meta.type = "json" -> LiveSlot(m, jsonRoot(k))
      [] meta.type \in {"bloom", "cms", "topk"} -> LiveSlot(m, sketchParamsBase(k))
      [] meta.type = "stream" -> Under(m, streamLastBase(k)) # {}

probe(m, k) ==
    /\ HasMeta(m, k)
    /\ ~Expired(m, k)
    /\ isLive(m, k, readMeta(m, k))

(***************************************************************************)
(* ensureSetType and its siblings: the key is absent or of the type.       *)
(***************************************************************************)
ensureType(m, k, type) == probe(m, k) => readMeta(m, k).type = type
=============================================================================
