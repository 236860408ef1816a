------------------------------- MODULE Redis -------------------------------
(***************************************************************************)
(* What a client of one server is promised: the commands of Redis on a      *)
(* database of typed values.  A value is <<type, content, expiry>>; cmd is  *)
(* the last command that was carried out.  A command that is refused is no  *)
(* step.  The module says nothing about how a server keeps its data.        *)
(***************************************************************************)
EXTENDS Integers, FiniteSets, FiniteSetsExt, SequencesExt, Functions

CONSTANTS Key, ByteBits

VARIABLES db, cmd

None == <<"none", 0, 0>>
Content(k, empty) == IF db[k] = None THEN empty ELSE db[k][2]
Expiry(k) == IF db[k] = None THEN 0 ELSE db[k][3]

Is(k, v) == [db EXCEPT ![k] = v]
Write(k, type, new) == Is(k, <<type, new, Expiry(k)>>)
Gone(k) == Is(k, None)
WriteOr(k, type, new, empty) == IF new = empty THEN Gone(k) ELSE Write(k, type, new)

-----------------------------------------------------------------------------
(* Strings, counters, HyperLogLogs and keys.                               *)

BitsWith(bits, o, b) ==
    LET n == Max({Len(bits), (o \div ByteBits + 1) * ByteBits}) IN
    [i \in 1 .. n |-> IF i = o + 1 THEN b ELSE IF i <= Len(bits) THEN bits[i] ELSE 0]

KeyEffect(c) ==
    LET k == c[2] IN
    CASE c[1] = "set" -> Is(k, <<"bits", c[3], c[4]>>)
      [] c[1] = "setkeepttl" -> Write(k, "bits", c[3])
      [] c[1] = "setbit" -> Write(k, "bits", BitsWith(Content(k, <<>>), c[3], c[4]))
      [] c[1] = "incr" -> Write(k, "counter", Content(k, 0) + c[3])
      [] c[1] = "pfadd" ->
            LET old == Content(k, [i \in c[4] |-> 0]) IN
            Write(k, "hll", [old EXCEPT ![c[3][1]] = Max({@, c[3][2]})])
      [] c[1] = "del" -> Gone(k)
      [] c[1] = "expire" -> Is(k, <<db[k][1], db[k][2], c[3]>>)
      [] c[1] = "rename" -> [db EXCEPT ![c[3]] = db[k], ![k] = None]
      [] c[1] = "store" -> Is(k, c[3])
      [] c[1] = "tick" ->
            [x \in Key |-> IF db[x][3] > 0 /\ db[x][3] <= c[2] THEN None ELSE db[x]]

-----------------------------------------------------------------------------
(* Sets, hashes, sorted sets                                               *)

Ranked(scores, start, stop) ==
    LET n == Cardinality(DOMAIN scores)
        rank(e) == Cardinality({f \in DOMAIN scores :
                        scores[f] < scores[e] \/ (scores[f] = scores[e] /\ f < e)})
        from == IF start < 0 THEN n + start ELSE start
        to == IF stop < 0 THEN n + stop ELSE stop
    IN  {e \in DOMAIN scores : from <= rank(e) /\ rank(e) <= to}
Drop(f, S) == Restrict(f, DOMAIN f \ S)

CollectionEffect(c) ==
    LET k == c[2]
        set == Content(k, {})
        map == Content(k, <<>>)
    IN
    CASE c[1] = "sadd" -> Write(k, "set", set \cup c[3])
      [] c[1] = "srem" -> WriteOr(k, "set", set \ c[3], {})
      [] c[1] = "smove" ->
            [WriteOr(k, "set", set \ {c[4]}, {}) EXCEPT
                ![c[3]] = <<"set", Content(c[3], {}) \cup {c[4]}, Expiry(c[3])>>]
      [] c[1] = "hset" -> Write(k, "hash", [f \in c[3] |-> c[4]] @@ map)
      [] c[1] = "hdel" -> WriteOr(k, "hash", Drop(map, c[3]), <<>>)
      [] c[1] = "hincr" ->
            LET old == IF c[3] \in DOMAIN map THEN map[c[3]] ELSE 0 IN
            Write(k, "hash", (c[3] :> old + c[4]) @@ map)
      [] c[1] = "zadd" -> Write(k, "zset", (c[3] :> c[4]) @@ map)
      [] c[1] = "zincr" ->
            LET old == IF c[3] \in DOMAIN map THEN map[c[3]] ELSE 0 IN
            Write(k, "zset", (c[3] :> old + c[4]) @@ map)
      [] c[1] = "zrem" -> WriteOr(k, "zset", Drop(map, c[3]), <<>>)
      [] c[1] = "zremrank" -> WriteOr(k, "zset", Drop(map, Ranked(map, c[3], c[4])), <<>>)

-----------------------------------------------------------------------------
(* Lists                                                                   *)

At(s, i) == IF i < 0 THEN Len(s) + i + 1 ELSE i + 1
Removed(s, v, count) ==
    LET hit == {i \in DOMAIN s : s[i] = v}
        before(i) == Cardinality({j \in hit : j < i})
        after(i) == Cardinality({j \in hit : j > i})
        gone == {i \in hit : (count > 0 => before(i) < count) /\ (count < 0 => after(i) < -count)}
    IN  FoldLeft(LAMBDA t, i : IF i \in gone THEN t ELSE Append(t, s[i]), <<>>, [i \in DOMAIN s |-> i])

ListEffect(c) ==
    LET k == c[2]
        s == Content(k, <<>>)
        pivot == Min({i \in DOMAIN s : s[i] = c[3]})
    IN
    CASE c[1] = "lpush" -> Write(k, "list", <<c[3]>> \o s)
      [] c[1] = "rpush" -> Write(k, "list", Append(s, c[3]))
      [] c[1] = "lpop" -> WriteOr(k, "list", Tail(s), <<>>)
      [] c[1] = "rpop" -> WriteOr(k, "list", Front(s), <<>>)
      [] c[1] = "lset" -> Write(k, "list", [s EXCEPT ![At(s, c[3])] = c[4]])
      [] c[1] = "linsert" -> Write(k, "list", InsertAt(s, IF c[5] THEN pivot ELSE pivot + 1, c[4]))
      [] c[1] = "lrem" -> WriteOr(k, "list", Removed(s, c[3], c[4]), <<>>)
      [] c[1] = "ltrim" -> WriteOr(k, "list", SubSeq(s, Max({1, At(s, c[3])}), Min({Len(s), At(s, c[4])})), <<>>)

-----------------------------------------------------------------------------
(* Streams: [ids, top, groups]; a group is [pos, pel, consumers].           *)

Above(a, b) == \E i \in 1 .. 3 : a[i] > b[i] /\ \A j \in 1 .. i - 1 : a[j] = b[j]
Newest(S) == CHOOSE a \in S : \A b \in S \ {a} : Above(a, b)
Longest(ids, n) == {a \in ids : Cardinality({b \in ids : Above(b, a)}) < n}
NewStream == [ids |-> {}, top |-> <<0, 0, 0>>, groups |-> <<>>]

StreamEffect(c) ==
    LET k == c[2]
        x == Content(k, NewStream)
        g == x.groups[c[3]]
        WriteG(new) == Write(k, "stream", [x EXCEPT !.groups[c[3]] = new])
        after == {i \in x.ids : Above(i, g.pos)}
        out == {i \in after : Cardinality({j \in after : Above(i, j)}) < c[5]}
        joined == [g EXCEPT !.consumers = @ \cup {c[4]}]
        held(i) == i \in DOMAIN g.pel
    IN
    CASE c[1] = "xadd" ->
            LET ids == x.ids \cup {c[3]} IN
            Write(k, "stream", [x EXCEPT !.ids = IF c[4] = 0 THEN ids ELSE Longest(ids, c[4]), !.top = c[3]])
      [] c[1] = "xdel" -> Write(k, "stream", [x EXCEPT !.ids = @ \ c[3]])
      [] c[1] = "xtrim" -> Write(k, "stream", [x EXCEPT !.ids = {i \in @ : ~Above(c[3], i)}])
      [] c[1] = "xgroup" ->
            Write(k, "stream", IF c[3] \in DOMAIN x.groups THEN x
                               ELSE [x EXCEPT !.groups = (c[3] :> [pos |-> c[4], pel |-> <<>>, consumers |-> {}]) @@ @])
      [] c[1] = "xdestroy" -> Write(k, "stream", [x EXCEPT !.groups = Drop(@, {c[3]})])
      [] c[1] = "xsetid" -> WriteG([g EXCEPT !.pos = c[4]])
      [] c[1] = "xjoin" -> WriteG(joined)
      [] c[1] = "xleave" ->
            WriteG([g EXCEPT !.consumers = @ \ {c[4]}, !.pel = Drop(@, {i \in DOMAIN @ : @[i] = c[4]})])
      [] c[1] = "xread" ->
            WriteG(IF out = {} THEN joined
                   ELSE [joined EXCEPT !.pos = Newest(out),
                                       !.pel = IF c[6] THEN @ ELSE [i \in out |-> c[4]] @@ @])
      [] c[1] = "xack" -> WriteG([g EXCEPT !.pel = Drop(@, c[4])])
      [] c[1] = "xclaim" ->
            WriteG([joined EXCEPT !.pel = CASE held(c[5]) /\ c[5] \notin x.ids -> Drop(@, {c[5]})
                                            [] c[5] \in x.ids /\ (held(c[5]) \/ c[6]) -> (c[5] :> c[4]) @@ @
                                            [] OTHER -> @])

-----------------------------------------------------------------------------
(* Documents: a function from paths of names <<"f", name>> and indices      *)
(* <<"a", i>> to nodes <<kind, value>>.                                    *)

Size(doc, p) == Cardinality({q \in DOMAIN doc : IsPrefix(p, q) /\ Len(q) = Len(p) + 1})
Piece(doc, p, i, j, st) ==
    LET index == IF st[2] < 0 THEN Size(doc, SubSeq(p, 1, i)) + st[2] ELSE st[2] IN
    CASE st[1] = "field" -> j = i + 1 /\ p[j] = <<"f", st[2]>>
      [] st[1] = "index" -> j = i + 1 /\ p[j] = <<"a", index>>
      [] st[1] = "wildcard" -> j = i + 1
      [] st[1] = "recfield" -> j > i /\ p[j] = <<"f", st[2]>>
      [] st[1] = "recwildcard" -> j > i
Match(doc, path) ==
    {p \in DOMAIN doc : \E cut \in [0 .. Len(path) -> 0 .. Len(p)] :
        /\ cut[0] = 0 /\ cut[Len(path)] = Len(p)
        /\ \A n \in DOMAIN path : Piece(doc, p, cut[n - 1], cut[n], path[n])}
OfKind(doc, path, kind) == {p \in Match(doc, path) : doc[p][1] = kind}

Within(ps, q) == \E p \in ps : IsPrefix(p, q)
Cut(doc, gone) ==
    LET kept == {q \in DOMAIN doc : ~Within(gone, q)}
        shift(q, d) == Cardinality({p \in gone : Len(p) = d /\ Front(p) = SubSeq(q, 1, d - 1) /\ p[d][2] < q[d][2]})
        to(q) == [d \in DOMAIN q |-> IF q[d][1] = "f" THEN q[d] ELSE <<"a", q[d][2] - shift(q, d)>>]
    IN  [x \in {to(q) : q \in kept} |-> doc[CHOOSE q \in kept : to(q) = x]]
Inserted(doc, arr, i, node) ==
    LET d == Len(arr) + 1
        after(q) == IsPrefix(arr, q) /\ Len(q) >= d /\ q[d][2] >= i
        to(q) == IF after(q) THEN [q EXCEPT ![d] = <<"a", @[2] + 1>>] ELSE q
    IN  (Append(arr, <<"a", i>>) :> node)
            @@ [x \in {to(q) : q \in DOMAIN doc} |-> doc[CHOOSE q \in DOMAIN doc : to(q) = x]]
Replaced(doc, at, tree) ==
    LET top == {p \in at : ~\E q \in at \ {p} : IsPrefix(q, p)}
        kept == {q \in DOMAIN doc : ~Within(top, q)}
    IN  [x \in kept \cup UNION {{p \o q : q \in DOMAIN tree} : p \in top} |->
            IF x \in kept THEN doc[x] ELSE tree[CHOOSE q \in DOMAIN tree : \E p \in top : x = p \o q]]

DocOf(c) ==
    LET doc == Content(c[2], <<>>)
        arr == CHOOSE p \in OfKind(doc, c[3], "array") : TRUE
        at == Match(doc, c[3])
        fields == {Append(p, <<"f", Last(c[3])[2]>>) : p \in OfKind(doc, Front(c[3]), "object")}
        index(p, i) == IF i < 0 THEN Size(doc, p) + i ELSE i
        into(lo, x, hi) == Max({lo, Min({x, hi})})
    IN
    CASE c[1] = "jset" ->
            (CASE doc = <<>> -> IF c[6] THEN doc ELSE c[4]
               [] doc # <<>> /\ ((c[5] /\ at # {}) \/ (c[6] /\ at = {})) -> doc
               [] OTHER -> Replaced(doc, IF at = {} THEN fields ELSE at, c[4]))
      [] c[1] = "jdel" -> Cut(doc, at)
      [] c[1] = "jnum" ->
            [p \in DOMAIN doc |-> IF p \notin OfKind(doc, c[3], "number") THEN doc[p]
                                  ELSE <<"number", IF c[5] THEN doc[p][2] * c[4] ELSE doc[p][2] + c[4]>>]
      [] c[1] = "jtoggle" ->
            [p \in DOMAIN doc |-> IF p \in OfKind(doc, c[3], "bool") THEN <<"bool", ~doc[p][2]>> ELSE doc[p]]
      [] c[1] = "jclear" ->
            [p \in {q \in DOMAIN doc : ~Within(at \ {q}, q)} |->
                IF p \in OfKind(doc, c[3], "number") THEN <<"number", 0>> ELSE doc[p]]
      [] c[1] = "jappend" -> Inserted(doc, arr, Size(doc, arr), c[4])
      [] c[1] = "jinsert" -> Inserted(doc, arr, index(arr, c[4]), c[5])
      [] c[1] = "jpop" ->
            Cut(doc, {Append(p, <<"a", into(0, index(p, c[4]), Size(doc, p) - 1)>>) : p \in OfKind(doc, c[3], "array")})
      [] c[1] = "jtrim" ->
            Cut(doc, {q \in DOMAIN doc : \E p \in OfKind(doc, c[3], "array") :
                        IsPrefix(p, q) /\ Len(q) = Len(p) + 1
                            /\ ~(index(p, c[4]) <= q[Len(q)][2] /\ q[Len(q)][2] <= index(p, c[5]))})

-----------------------------------------------------------------------------
KeyCommand == {"set", "setkeepttl", "setbit", "incr", "pfadd", "del", "expire", "rename", "store", "tick"}
ListCommand == {"lpush", "rpush", "lpop", "rpop", "lset", "linsert", "lrem", "ltrim"}
StreamCommand ==
    {"xadd", "xdel", "xtrim", "xgroup", "xdestroy", "xsetid", "xjoin", "xleave", "xread", "xack", "xclaim"}
DocCommand ==
    {"jset", "jdel", "jnum", "jtoggle", "jclear", "jappend", "jinsert", "jpop", "jtrim"}

Effect(c) ==
    CASE c[1] \in {"read", "sread", "zread"} -> db
      [] c[1] \in KeyCommand -> KeyEffect(c)
      [] c[1] \in ListCommand -> ListEffect(c)
      [] c[1] \in StreamCommand -> StreamEffect(c)
      [] c[1] \in DocCommand -> WriteOr(c[2], "json", DocOf(c), <<>>)
      [] OTHER -> CollectionEffect(c)

(***************************************************************************)
(* What the commands that read several keys find: c[2] is the operation,    *)
(* c[3] the keys and the last component what was found.                    *)
(***************************************************************************)
Reply(c) ==
    CASE c[1] = "sread" ->
            LET at(i) == Content(c[3][i], {}) IN
            c[4] = (CASE c[2] = "diff" -> at(1) \ at(2)
                      [] c[2] = "inter" -> at(1) \cap at(2)
                      [] c[2] = "union" -> at(1) \cup at(2))
      [] c[1] = "zread" ->
            LET f == Content(c[3][1], <<>>)
                g == Content(c[3][2], <<>>)
                score(e) == {h[e] : h \in {x \in {f, g} : e \in DOMAIN x}}
                all == IF c[2] = "union" THEN DOMAIN f \cup DOMAIN g ELSE DOMAIN f \cap DOMAIN g
                sum(e) == IF e \in DOMAIN f /\ e \in DOMAIN g THEN f[e] + g[e] ELSE Max(score(e))
            IN  c[5] = [e \in all |-> CASE c[4] = "min" -> Min(score(e)) [] c[4] = "max" -> Max(score(e))
                                         [] c[4] = "sum" -> sum(e)]
      [] OTHER -> TRUE

Init == db = [k \in Key |-> None] /\ cmd = <<"read">>
Next == db' = Effect(cmd') /\ Reply(cmd')
Spec == Init /\ [][Next]_<<db, cmd>>
=============================================================================
