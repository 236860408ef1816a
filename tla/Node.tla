-------------------------------- MODULE Node --------------------------------
(***************************************************************************)
(* One server and its clients: the commands of each data type, the two      *)
(* steps of those that read before they lock among them, on a node whose    *)
(* writes nobody else's meet.  What the clients see is a Redis: the node     *)
(* implements the module of that name, with a key's value read out of the   *)
(* datastore as the read commands read it.                                 *)
(***************************************************************************)
EXTENDS KeyCommands

CONSTANTS
    Work,       \* the workloads, one type of value each
    Budget(_)   \* bound: the commands of a workload

VARIABLES
    work,
    cmd,    \* the command carried out last
    view    \* the database as the read commands show it

vars == <<store, listVars, work, cmd, view>>
r0 == Min(Replica)
m0 == Data(r0)
k1 == Min(Key)
k2 == Max(Key)
Both == {k1, k2}

-----------------------------------------------------------------------------
(* The refinement mapping.                                                 *)

StreamValue(m, k) ==
    [ids |-> streamLive(m, k), top |-> streamLast(m, k),
     groups |-> [g \in loadGroups(m, k) |->
        [pos |-> groupLast(m, k, g)[2],
         pel |-> [id \in DOMAIN Pending(m, k, g) |-> Pending(m, k, g)[id].consumer],
         consumers |-> Consumers(m, k, g)]]]
(***************************************************************************)
(* A document with its elements numbered: what JSON.GET prints.            *)
(***************************************************************************)
PlainDoc(doc) ==
    LET index(p) == Cardinality({q \in children(doc, Front(p)) : Before(Last(q)[2], Last(p)[2])})
        plain(p) == [d \in DOMAIN p |-> IF p[d][1] = "f" THEN p[d] ELSE <<"a", index(SubSeq(p, 1, d))>>]
    IN  [x \in {plain(p) : p \in DOMAIN doc} |-> doc[CHOOSE p \in DOMAIN doc : plain(p) = x]]
StringValue(m, k) ==
    LET flavor == readMeta(m, k).flavor IN
    CASE isCounter(flavor) -> <<"counter", counterSum(m, k)>>
      [] isHLL(flavor) -> <<"hll", hllMerged(m, k)>>
      [] OTHER -> <<"bits", loadBytes(m, k)>>
Value(m, k) ==
    IF ~probe(m, k) THEN <<"none", 0, 0>>
    ELSE LET meta == readMeta(m, k) IN
         Append(CASE meta.type = "string" -> StringValue(m, k)
                  [] meta.type = "set" -> <<"set", Items(m, k)>>
                  [] meta.type = "hash" -> <<"hash", HashItems(m, k)>>
                  [] meta.type = "zset" -> <<"zset", zsetLiveScores(m, k)>>
                  [] meta.type = "list" -> <<"list", ListItems(m, k)>>
                  [] meta.type = "stream" -> <<"stream", StreamValue(m, k)>>
                  [] meta.type = "json" -> <<"json", PlainDoc(Document(m, k))>>,
                meta.etime)
View == LET m == Data(r0) IN [k \in Key |-> Value(m, k)]
free(k) == view[k][1] = "none"

-----------------------------------------------------------------------------
(* Keys and strings                                                        *)

Says(c) == cmd' = c
DelOrRename ==
    \/ \E k \in Both : Delete(r0, k) /\ Says(<<"del", k>>)
    \/ \E k, to \in Both : free(to) /\ Rename(r0, k, to) /\ Says(<<"rename", k, to>>)

StringStep ==
    \/ \E k \in Both, ttl \in {0, 1} :
          Set(r0, k, Plain(<<1, 0>>), ttl) /\ Says(<<"set", k, <<1, 0>>, IF ttl = 0 THEN 0 ELSE now + ttl>>)
    \/ \E k \in Both :
          \/ /\ SetWith(r0, k, Plain(<<0, 1>>), [SetOpts EXCEPT !.nx = TRUE, !.ttl = 1])
             /\ Says(<<"set", k, <<0, 1>>, now + 1>>)
          \/ /\ SetWith(r0, k, Plain(<<0, 1>>), [SetOpts EXCEPT !.xx = TRUE, !.get = TRUE, !.keepTTL = TRUE])
             /\ Says(<<"setkeepttl", k, <<0, 1>>>>)
          \/ /\ SetWith(r0, k, Plain(<<0, 1>>), [SetOpts EXCEPT !.at = MaxNow, !.ttl = 1])
             /\ Says(IF now < MaxNow THEN <<"set", k, <<0, 1>>, MaxNow>> ELSE <<"del", k>>)
          \/ Expire(r0, k, 1) /\ Says(<<"expire", k, now + 1>>)
          \/ Persist(r0, k) /\ Says(<<"expire", k, 0>>)
          \/ Delete(r0, k) /\ Says(<<"del", k>>)
    \/ \E k, to \in Both :
          \/ Rename(r0, k, to) /\ Says(<<"rename", k, to>>)
          \/ RenameNotExists(r0, k, to) /\ Says(<<"read">>)
    \/ /\ RenameAnswer(r0)
       /\ Says(IF free(pend[r0][2]) THEN <<"read">> ELSE <<"rename", pend[r0][2], pend[r0][3]>>)
    \/ DeleteAll(r0) /\ Says(<<"read">>)
    \/ /\ FlushNext(r0)
       /\ Says(IF pend[r0][2] = {} THEN <<"read">>
               ELSE <<"del", CHOOSE k \in pend[r0][2] : k \notin pend'[r0][2]>>)

FlavorStep ==
    \/ \E d \in {1, -2} : Incr(r0, k2, d, "counter") /\ Says(<<"incr", k2, d>>)
    \/ Incr(r0, k1, 2, "float") /\ Says(<<"incr", k1, 2>>)
    \/ \E x \in Item : PFAdd(r0, k1, x) /\ Says(<<"pfadd", k1, x, Register>>)
    \/ \E o \in {1, ChunkBits} : SetBit(r0, k1, o, 1) /\ Says(<<"setbit", k1, o, 1>>)
    \/ Set(r0, k1, Plain(<<1, 0>>), 0) /\ Says(<<"set", k1, <<1, 0>>, 0>>)
    \/ Set(r0, k1, [bits |-> <<>>, regs |-> add(NoSketch, <<1, 1>>)], 0)
          /\ Says(<<"store", k1, <<"hll", add(NoSketch, <<1, 1>>), 0>>>>)
    \/ \E op \in {"xor", "not"} : BitOpReads(r0, op, k2, k1, k2) /\ Says(<<"read">>)
    \/ /\ BitOp(r0)
       /\ Says(IF pend[r0][3] = <<>> THEN <<"del", k2>> ELSE <<"store", k2, <<"bits", pend[r0][3], 0>>>>)
    \/ DelOrRename

-----------------------------------------------------------------------------
(* Sets, hashes, sorted sets                                               *)

SetStep ==
    \/ \E k \in Both, es \in {{1}, {1, 2}} :
          \/ SetAdd(r0, k, es) /\ Says(<<"sadd", k, es>>)
          \/ SetDelete(r0, k, es) /\ Says(<<"srem", k, es>>)
    \/ \E k \in Both, e \in Elem : SetPop(r0, k, e) /\ Says(<<"srem", k, {e}>>)
    \/ \E k, to \in Both : SetMove(r0, k, to, 1) /\ Says(<<"smove", k, to, 1>>)
    \/ \E op \in {"diff", "inter", "union"} :
          SetStoreReads(r0, op, k2, <<k1, k2>>) /\ Says(<<"sread", op, <<k1, k2>>, pend'[r0][3]>>)
    \/ /\ storeResult(r0)
       /\ Says(IF pend[r0][3] = {} THEN <<"del", k2>> ELSE <<"store", k2, <<"set", pend[r0][3], 0>>>>)
    \/ DelOrRename

(***************************************************************************)
(* Field 2 is for HINCRBY: HDEL does not delete a counter.                 *)
(***************************************************************************)
HashStep ==
    \/ \E k \in Both :
          \/ \E v \in Field : HashSet(r0, k, 1, v) /\ Says(<<"hset", k, {1}, v>>)
          \/ HashSetMany(r0, k, {1, 3}, 2) /\ Says(<<"hset", k, {1, 3}, 2>>)
          \/ HashSetNotExists(r0, k, 3, 1) /\ Says(<<"hset", k, {3}, 1>>)
          \/ \E d \in {1, -2} : HashIncr(r0, k, 2, d) /\ Says(<<"hincr", k, 2, d>>)
          \/ \E fs \in {{1}, {1, 3}} : HashDelete(r0, k, fs) /\ Says(<<"hdel", k, fs>>)
    \/ DelOrRename

ZSetStep ==
    \/ \E k \in Both, e \in Elem :
          \/ \E score \in Score : ZAdd(r0, k, e, score) /\ Says(<<"zadd", k, e, score>>)
          \/ ZIncr(r0, k, e, -1) /\ Says(<<"zincr", k, e, -1>>)
    \/ ZDelete(r0, k1, Elem) /\ Says(<<"zrem", k1, Elem>>)
    \/ \E se \in {<<0, 0>>, <<-1, 5>>, <<-4, -2>>} :
          ZDeleteRange(r0, k1, se[1], se[2]) /\ Says(<<"zremrank", k1, se[1], se[2]>>)
    \/ \E op \in {"inter", "union"}, agg \in {"sum", "min"} :
          /\ ZStoreReads(r0, op, k2, agg, k1, k2)
          /\ Says(<<"zread", op, <<k1, k2>>, agg, pend'[r0][3]>>)
    \/ /\ storeItems(r0)
       /\ Says(IF pend[r0][3] = <<>> THEN <<"del", k2>> ELSE <<"store", k2, <<"zset", pend[r0][3], 0>>>>)
    \/ DelOrRename

-----------------------------------------------------------------------------
(* Lists and streams                                                       *)

ListStep ==
    \/ push(r0, k1, 2, TRUE) /\ Says(<<"lpush", k1, 2>>)
    \/ \E v \in Elem : push(r0, k1, v, FALSE) /\ Says(<<"rpush", k1, v>>)
    \/ pop(r0, k1, TRUE) /\ Says(<<"lpop", k1>>)
    \/ pop(r0, k1, FALSE) /\ Says(<<"rpop", k1>>)
    \/ \E to \in Both : PopBackPushFront(r0, k1, to) /\ Says(<<"rpop", k1>>)
    \/ PushFront(r0) /\ Says(<<"lpush", pend[r0][2], pend[r0][3]>>)
    \/ ListSet(r0, k1, -1, 1) /\ Says(<<"lset", k1, -1, 1>>)
    \/ \E before \in BOOLEAN : insert(r0, k1, 1, 2, before) /\ Says(<<"linsert", k1, 1, 2, before>>)
    \/ \E count \in {-1, 0, 1} : deleteMatching(r0, k1, 2, count) /\ Says(<<"lrem", k1, 2, count>>)
    \/ \E se \in {<<1, -1>>, <<-2, 0>>} : Trim(r0, k1, se[1], se[2]) /\ Says(<<"ltrim", k1, se[1], se[2]>>)
    \/ DelOrRename /\ UNCHANGED listVars
    \/ listSeq[r0] > 0 /\ Restart(r0) /\ Says(<<"read">>)

StreamStep ==
    \/ \E t \in {NoTrim, MaxLen(1)} :
          LET id == CHOOSE i \in nextStreamID(r0, streamLast(m0, k1), "auto", NoID) : TRUE IN
          StreamAdd(r0, k1, "auto", NoID, 0, FALSE, t) /\ Says(<<"xadd", k1, id, t.len>>)
    \/ \E e \in streamLive(m0, k1) :
          \/ StreamDel(r0, k1, {e}) /\ Says(<<"xdel", k1, {e}>>)
          \/ StreamTrim(r0, k1, MinID(e)) /\ Says(<<"xtrim", k1, e>>)
          \/ GroupSetID(r0, k1, 1, NoID) /\ Says(<<"xsetid", k1, 1, NoID>>)
    \/ GroupCreate(r0, k1, 1, NoID, TRUE) /\ Says(<<"xgroup", k1, 1, NoID>>)
    \/ GroupDestroy(r0, k1, 1) /\ Says(<<"xdestroy", k1, 1>>)
    \/ \E c \in Elem :
          \/ ConsumerCreate(r0, k1, 1, c) /\ Says(<<"xjoin", k1, 1, c>>)
          \/ ReadPending(r0, k1, 1, c) /\ Says(<<"xjoin", k1, 1, c>>)
          \/ ConsumerDelete(r0, k1, 1, c) /\ Says(<<"xleave", k1, 1, c>>)
          \/ \E noack \in BOOLEAN : ReadNew(r0, k1, 1, c, noack) /\ Says(<<"xread", k1, 1, c, MaxNew, noack>>)
          \/ \E id \in DOMAIN Pending(m0, k1, 1) \cup streamLive(m0, k1), force \in BOOLEAN :
                /\ Claim(r0, k1, 1, c, id, [justID |-> force, force |-> force, minIdle |-> 0])
                /\ Says(<<"xclaim", k1, 1, c, id, force>>)
    \/ \E id \in DOMAIN Pending(m0, k1, 1) : Ack(r0, k1, 1, {id}) /\ Says(<<"xack", k1, 1, {id}>>)
    \/ DelOrRename

-----------------------------------------------------------------------------
(* Documents                                                               *)

A == <<"field", "a">>
B == <<"field", "b">>
Texts ==
    {ObjectOf([x \in {"a"} |-> Number(2)]), ArrayOf(<<Number(1), Bool(TRUE)>>), Scalar(Number(-1))}
DocStep ==
    \/ \E text \in Texts, path \in {<<>>, <<B>>, <<<<"wildcard", 0>>, A>>}, nx, xx \in BOOLEAN :
          /\ ~(nx /\ xx) /\ (nx \/ xx => path = <<B>>)
          /\ Len(path) > 1 => text = Scalar(Number(-1))
          /\ JsonSet(r0, k1, path, text, nx, xx)
          /\ Says(<<"jset", k1, path, PlainDoc(Parse(r0, text)), nx, xx>>)
    \/ \E path \in {<<>>, <<A>>, <<<<"recfield", "a">>>>, <<B, <<"index", 0>>>>} :
          JsonDel(r0, k1, path) /\ Says(<<"jdel", k1, path>>)
    \/ \E n \in {-2, 2}, mul \in BOOLEAN :
          NumOp(r0, k1, <<<<"recwildcard", 0>>>>, n, mul) /\ Says(<<"jnum", k1, <<<<"recwildcard", 0>>>>, n, mul>>)
    \/ Toggle(r0, k1, <<B, <<"index", -1>>>>) /\ Says(<<"jtoggle", k1, <<B, <<"index", -1>>>>>>)
    \/ \E path \in {<<B>>, <<<<"recwildcard", 0>>>>} : Clear(r0, k1, path) /\ Says(<<"jclear", k1, path>>)
    \/ \E path \in {<<>>, <<B>>} :
          \/ ArrAppend(r0, k1, path, Bool(FALSE)) /\ Says(<<"jappend", k1, path, Bool(FALSE)>>)
          \/ \E i \in {0, -1} : ArrInsert(r0, k1, path, i, Array) /\ Says(<<"jinsert", k1, path, i, Array>>)
          \/ \E i \in {-1, 0} : ArrPop(r0, k1, path, i) /\ Says(<<"jpop", k1, path, i>>)
          \/ ArrTrim(r0, k1, path, 1, -1) /\ Says(<<"jtrim", k1, path, 1, -1>>)
    \/ DelOrRename /\ UNCHANGED listVars

-----------------------------------------------------------------------------
Init ==
    /\ work \in Work
    /\ StoreInit(Budget(work))
    /\ ListInit
    /\ cmd = <<"read">>
    /\ view = View

Step ==
    \/ work = "string" /\ Tick /\ Says(<<"tick", now'>>) /\ UNCHANGED listVars
    \/ work = "string" /\ StringStep /\ UNCHANGED listVars
    \/ work = "flavor" /\ FlavorStep /\ UNCHANGED listVars
    \/ work = "set" /\ SetStep /\ UNCHANGED listVars
    \/ work = "hash" /\ HashStep /\ UNCHANGED listVars
    \/ work = "zset" /\ ZSetStep /\ UNCHANGED listVars
    \/ work = "list" /\ ListStep
    \/ work = "stream" /\ StreamStep /\ UNCHANGED listVars
    \/ work = "json" /\ DocStep
Next == Step /\ UNCHANGED work /\ view' = View'

Spec == Init /\ [][Next]_vars

(***************************************************************************)
(* The node is a Redis: every command that is carried out has the effect    *)
(* Redis gives it, in any order and whatever commands run between the two   *)
(* steps of one that reads its keys before it locks; what SDIFFSTORE,       *)
(* ZUNIONSTORE and their kin read is what Redis would.  Other replies are   *)
(* not compared.  A command refused is no step; SET NX and XX and HSETNX,   *)
(* when they write, are held to what the plain command does.  RENAME is to  *)
(* a free key, a hash has its counters apart and a key keeps its type,      *)
(* since the code is no Redis there.                                       *)
(***************************************************************************)
R == INSTANCE Redis WITH db <- view
IsRedis == R!Spec

(***************************************************************************)
(* The commands that read a part of a value agree with those that read it   *)
(* whole: HGET of every field with HGETALL (a counter field is summed on    *)
(* both paths), ZRANK with ZRANGE, the pages of a ZRANGEBYSCORE ... LIMIT    *)
(* with the range in one piece, LRANGE from both ends with each other, and   *)
(* an XRANGE or XREVRANGE resumed after the last ID it returned with the     *)
(* stream.  HMGET, which passes over counter fields, and ZREVRANGE by rank   *)
(* are not among them.                                                     *)
(***************************************************************************)
PartsMakeWhole ==
    LET m == m0 IN
    /\ work = "hash" => \A k \in Both, f \in 1 .. 3 :
          HashGet(m, k, f) = IF f \in DOMAIN HashItems(m, k) THEN {HashItems(m, k)[f]} ELSE {}
    /\ work = "zset" => \A k \in Both :
          LET items == ZItems(m, k) n == Len(items) scores == zsetLiveScores(m, k) IN
          /\ \A e \in Range(items), back \in {0, n} : ByRank(items, Rank(items, e) - back, Rank(items, e) - back) = <<e>>
          /\ \A desc \in BOOLEAN, size \in {1, 2}, top \in 1 .. 3 :
                LET sel == ByScore(items, scores, 1, top) IN
                FlattenSeq([i \in 1 .. n |-> applyRange(sel, desc, size * (i - 1), size)]) = applyRange(sel, desc, 0, 0)
    /\ work = "list" => \A k \in Both :
          LET n == Len(ListItems(m, k)) IN
          \A i \in 0 .. n : ListRange(m, k, 0, i - n - 1) \o ListRange(m, k, i, -1) = ListItems(m, k)
    /\ work = "stream" => \A k \in Both, rev \in BOOLEAN :
          LET span(lo, hi, count) == IF rev THEN StreamRange(m, k, hi, lo, count, TRUE)
                                     ELSE StreamRange(m, k, lo, hi, count, FALSE)
              stop == <<IF rev THEN NoID ELSE streamLast(m, k), FALSE>>
              all == StreamRange(m, k, <<NoID, FALSE>>, <<streamLast(m, k), FALSE>>, 0, rev)
          IN  /\ Range(all) = Entries(m, k)
              /\ \A i \in DOMAIN all : span(<<all[i], TRUE>>, stop, 1) = IF i < Len(all) THEN <<all[i + 1]>> ELSE <<>>
=============================================================================
