------------------------------- MODULE Server -------------------------------
(***************************************************************************)
(* The server around the commands: connections and their transactions       *)
(* (server/handlers.go, state.go; crdtstore/txn.go; the batches of           *)
(* engine/engine.go; scripts run as transactions), the cursors of SCAN and   *)
(* its kin (crdtstore/scan.go, rkey.go), the per-key locks (module Locks)    *)
(* and publish/subscribe (server/bus.go).                                   *)
(*                                                                         *)
(* It extends Node with workloads of its own; those of Node stay as they    *)
(* are.  A logical key is a database number and a name.                     *)
(***************************************************************************)
EXTENDS Node, Locks

CONSTANTS
    Command,      \* what clients send in the transactions: pairs <<command, name>>
    Bucket(_),    \* the partition of a logical key
    NumBuckets,
    Apart,        \* whether clients keep off the keys of a running transaction
    MaxGen,       \* bound: rotations of a partition
    CursorTTL     \* how long an idle cursor lives

VARIABLES
    conn,     \* conn[c]: [db, inMulti, aborted, cmds], a connState
    txn,      \* txn[c]: the transaction c's EXEC or EVAL is in, or NoTxn
    gen,      \* gen[p]: the generation of partition p at r0
    told,     \* told[k]: the increments of k that were answered without an error
    resume,   \* [next, table]: the resumeTable
    scan,     \* the client's scan: [cursor, page, pat, got, steady, over]
    sub,      \* the replicas with a subscriber
    bus,      \* the frames in flight: <<origin, message, receiver>>
    heard     \* heard[r]: the messages r's subscriber was sent, in order

txnVars == <<conn, txn, gen, told>>
scanVars == <<resume, scan>>
pubVars == <<sub, bus, heard>>
serverVars == <<txnVars, scanVars, lock, pubVars>>
nodeVars == <<listVars, work, cmd, view>>

-----------------------------------------------------------------------------
(* Transactions: a batch per partition and an overlay on what r0 reads.     *)

NoTxn == <<>>
KeyAt(db, name) == 2 * db + name
NewConn == [db |-> 0, inMulti |-> FALSE, aborted |-> FALSE, cmds |-> <<>>]

(***************************************************************************)
(* txn.go get, has, query: the base without what the transaction deleted,   *)
(* under what it put.                                                      *)
(***************************************************************************)
OverlaidLate(m, t) == m
Overlaid(m, t) ==
    FoldSet(LAMBDA p, acc : t.subs[p].puts @@ acc, Restrict(m, DOMAIN m \ t.gone), DOMAIN t.subs)

(***************************************************************************)
(* txn.go put, del: the write goes to the batch of its partition, opened at *)
(* the first one, and to the overlay.  A delete names the elements of the   *)
(* key that r0 has when it is staged.                                      *)
(***************************************************************************)
Stage(t, ops) ==
    LET Into(acc, i) ==
            LET o == ops[i]
                b == Block(r0, ops, i)
                p == Bucket(o.key[2])
                s == IF p \in DOMAIN acc.subs THEN acc.subs[p]
                     ELSE [puts |-> <<>>, dels |-> {}, gen |-> gen[p]]
            IN  IF o.op = "del"
                THEN [acc EXCEPT !.gone = @ \cup {o.key},
                                 !.subs = (p :> [s EXCEPT !.puts = Restrict(@, DOMAIN @ \ {o.key}),
                                                          !.dels = @ \cup b.dels]) @@ @]
                ELSE [acc EXCEPT !.gone = @ \ DOMAIN b.puts,
                                 !.subs = (p :> [s EXCEPT !.puts = b.puts @@ @]) @@ @]
    IN  FoldLeft(Into, t, [i \in DOMAIN ops |-> i])

(***************************************************************************)
(* What a command writes when it finds m, and whether it fails on it.      *)
(***************************************************************************)
Fails(m, k, c) ==
    CASE c = "incr" -> ~counterFlavor(m, k, "counter")
      [] c = "set" -> ~NotCounter(m, k)
      [] c = "del" -> FALSE
OpsOf(m, k, c) ==
    CASE Fails(m, k, c) -> <<>>
      [] c = "incr" -> incr(m, r0, k, 1, "counter")
      [] c = "set" -> writeString(m, r0, k, Plain(<<1, 0>>), 0, FALSE)
      [] c = "del" -> IF probe(m, k) THEN deleteKey(m, k, readMeta(m, k).type) ELSE <<>>
Tell(m, k, c) == told' = [told EXCEPT ![k] = IF c = "incr" /\ ~Fails(m, k, c) THEN @ + 1 ELSE @]

Begin(db, cmds, script) ==
    [db |-> db, left |-> cmds, script |-> script, subs |-> <<>>, gone |-> {},
     cmds |-> cmds, base |-> View, gen |-> gen]

-----------------------------------------------------------------------------
(* handlers.go: what a connection may send while no transaction of it runs. *)

Sends(c, n) == togo >= n /\ txn[c] = NoTxn /\ togo' = togo - n /\ UNCHANGED <<log, seen, kv, last, now, pend, fresh>>

(***************************************************************************)
(* A command outside MULTI, under the lock of its key.                     *)
(***************************************************************************)
Direct(c, x) ==
    LET m == Data(r0) k == KeyAt(conn[c].db, x[2]) IN
    /\ txn[c] = NoTxn /\ ~conn[c].inMulti
    /\ Do(r0, OpsOf(m, k, x[1]))
    /\ Tell(m, k, x[1])
    /\ UNCHANGED <<conn, txn, gen>>
doSelect(c, db) ==
    /\ Sends(c, 1) /\ db # conn[c].db
    /\ conn' = [conn EXCEPT ![c].db = db]
    /\ UNCHANGED <<txn, gen, told>>
doMulti(c) ==
    /\ togo > 0 /\ txn[c] = NoTxn /\ ~conn[c].inMulti
    /\ conn' = [conn EXCEPT ![c] = [@ EXCEPT !.inMulti = TRUE, !.aborted = FALSE, !.cmds = <<>>]]
    /\ UNCHANGED <<store, txn, gen, told>>
Queue(c, x) ==
    /\ Sends(c, 1) /\ conn[c].inMulti
    /\ conn' = [conn EXCEPT ![c].cmds = Append(@, x)]
    /\ UNCHANGED <<txn, gen, told>>
ParseError(c) ==
    /\ Sends(c, 1) /\ conn[c].inMulti
    /\ conn' = [conn EXCEPT ![c].aborted = TRUE]
    /\ UNCHANGED <<txn, gen, told>>
Closed(s) == [s EXCEPT !.inMulti = FALSE, !.aborted = FALSE, !.cmds = <<>>]
doDiscard(c) ==
    /\ txn[c] = NoTxn /\ conn[c].inMulti
    /\ conn' = [conn EXCEPT ![c] = Closed(@)]
    /\ UNCHANGED <<store, txn, gen, told>>
doExec(c) ==
    /\ txn[c] = NoTxn /\ conn[c].inMulti
    /\ conn' = [conn EXCEPT ![c] = Closed(@)]
    /\ txn' = [txn EXCEPT ![c] = IF conn[c].aborted THEN NoTxn ELSE Begin(conn[c].db, conn[c].cmds, FALSE)]
    /\ UNCHANGED <<store, gen, told>>

(***************************************************************************)
(* EVAL: a script that calls two commands; redis.call raises an error.     *)
(***************************************************************************)
Eval(c, x, y) ==
    /\ Sends(c, 2) /\ ~conn[c].inMulti
    /\ txn' = [txn EXCEPT ![c] = Begin(conn[c].db, <<x, y>>, TRUE)]
    /\ UNCHANGED <<conn, gen, told>>

(***************************************************************************)
(* A transaction's next command, under the lock of its key.                *)
(***************************************************************************)
RunNext(c) ==
    /\ txn[c] # NoTxn /\ txn[c].left # <<>>
    /\ LET t == txn[c]
           x == Head(t.left)
           k == KeyAt(t.db, x[2])
           m == Overlaid(Data(r0), t)
           ops == OpsOf(m, k, x[1])
       IN  /\ txn' = [txn EXCEPT ![c] = [Stage(t, ops) EXCEPT
                        !.left = IF t.script /\ Fails(m, k, x[1]) THEN <<>> ELSE Tail(@)]]
           /\ last' = IF SlotWrites(ops) = <<>> THEN last
                      ELSE [last EXCEPT ![r0] = StampOf(r0, Len(SlotWrites(ops)))]
           /\ Tell(m, k, x[1])
    /\ UNCHANGED <<log, seen, kv, now, togo, pend, fresh, conn, gen>>

(***************************************************************************)
(* multiBatch.Commit, one partition: one block, or nothing of this and the  *)
(* partitions after it once this one has rotated.  The error is dropped.   *)
(* So is the one of a gate that stays closed (beginWrite), which leaves the *)
(* same behind and is not told apart.                                      *)
(***************************************************************************)
Commit(c, p) ==
    LET t == txn[c] IN
    /\ t # NoTxn /\ t.left = <<>> /\ p \in DOMAIN t.subs
    /\ IF t.subs[p].gen = gen[p]
       THEN /\ log' = [log EXCEPT ![r0] = Append(@, [puts |-> t.subs[p].puts, dels |-> t.subs[p].dels,
                                                    height |-> HeightOf(seen[r0]) + 1])]
            /\ seen' = [seen EXCEPT ![r0] = @ \cup {<<r0, Len(log'[r0])>>}]
            /\ kv' = [kv EXCEPT ![r0] = Content(seen[r0])']
            /\ txn' = [txn EXCEPT ![c] = [@ EXCEPT !.subs = Restrict(@, DOMAIN @ \ {p})]]
       ELSE txn' = [txn EXCEPT ![c] = NoTxn] /\ UNCHANGED <<log, seen, kv>>
    /\ UNCHANGED <<last, now, togo, pend, fresh, conn, gen, told>>
Committed(c) ==
    /\ txn[c] # NoTxn /\ txn[c].left = <<>> /\ txn[c].subs = <<>>
    /\ txn' = [txn EXCEPT ![c] = NoTxn]
    /\ UNCHANGED <<store, conn, gen, told>>

KeysOf(t) == {KeyAt(t.db, x[2]) : x \in Range(t.cmds)}
InTxn(k) == \E c \in Client : txn[c] # NoTxn /\ k \in KeysOf(txn[c])

(***************************************************************************)
(* A rotation of a partition, as the clients of r0 meet it (module Gate); *)
(* one that no transaction straddles changes nothing for them.             *)
(***************************************************************************)
Rotate(p) ==
    /\ gen[p] < MaxGen /\ \E k \in Key : Bucket(k) = p /\ InTxn(k)
    /\ gen' = [gen EXCEPT ![p] = @ + 1]
    /\ UNCHANGED <<store, conn, txn, told>>

(***************************************************************************)
(* One connection uses transactions, all of them send plain commands; when  *)
(* Apart, not on a key of a transaction under way.                         *)
(***************************************************************************)
TxnStep ==
    \/ \E c \in Client, x \in Command : (Apart => ~InTxn(KeyAt(conn[c].db, x[2]))) /\ Direct(c, x)
    \/ \E c \in {Min(Client)} :
          \/ \E x \in Command : Queue(c, x)
          \/ \E x, y \in Command : Eval(c, x, y)
          \/ \E db \in {0, 1} : doSelect(c, db)
          \/ doMulti(c) \/ doDiscard(c) \/ doExec(c) \/ ParseError(c)
          \/ RunNext(c) \/ Committed(c)
          \/ \E p \in 0 .. NumBuckets - 1 : Commit(c, p)
    \/ \E p \in 0 .. NumBuckets - 1 : Rotate(p)
-----------------------------------------------------------------------------
(* Cursors: the resumeTable.  The table is shared by all scans of the node. *)

NoLast == <<>>
NoPage == <<>>
Unexpired(f) == Restrict(f, {t \in DOMAIN f : f[t].expires > now})
ResumeAt(tok, scope) ==
    LET live == Unexpired(resume.table) IN
    IF tok \in DOMAIN live /\ live[tok].scope = scope THEN live[tok]
    ELSE [scope |-> scope, partition |-> 0, last |-> NoLast, expires |-> 0]
Got(tok) ==   \* get: an entry that expired goes, one that did not lives on
    LET e == resume.table IN
    IF tok \notin DOMAIN e THEN e
    ELSE IF tok \in DOMAIN Unexpired(e) THEN [e EXCEPT ![tok].expires = now + CursorTTL]
    ELSE Restrict(e, DOMAIN e \ {tok})
Alloc(table, scope, p, pos) ==
    [next |-> resume.next + 1,
     table |-> ((resume.next + 1) :> [scope |-> scope, partition |-> p, last |-> pos, expires |-> now + CursorTTL])
                    @@ Unexpired(table)]
Free(table, tok) == [resume EXCEPT !.table = Restrict(table, DOMAIN table \ {tok})]

-----------------------------------------------------------------------------
(* SCAN: a page is read partition by partition, and each key is looked up   *)
(* in its turn, while other clients and other replicas go on writing.       *)

Reads == fresh \in {NoReplica, r0} /\ fresh' = NoReplica /\ UNCHANGED <<log, seen, kv, last, now, togo>>
MetaKey(k, q) == <<Bucket(k), k, q>>
Follows(a, b) == b = NoLast \/ \E i \in 1 .. 3 : a[i] > b[i] /\ \A j \in 1 .. i - 1 : a[j] = b[j]
MetaKeys(m, p) ==
    {MetaKey(k, q) : k \in {x \in Key : Bucket(x) = p}, q \in Replica}
        \cap {MetaKey(s[2], s[3]) : s \in {x \in DOMAIN m : x[1] = "m"}}
Sorted(S) == [i \in 1 .. Cardinality(S) |-> CHOOSE x \in S : Cardinality({y \in S : Follows(x, y)}) = i - 1]

Scan(pat) ==
    /\ Reads /\ scan.page = NoPage /\ ~scan.over
    /\ LET e == ResumeAt(scan.cursor, "keys") first == scan.cursor = 0 IN
       /\ scan' = [scan EXCEPT
            !.page = [start |-> e.partition, last |-> e.last, p |-> e.partition, raw |-> <<>>,
                      cur |-> 0, consumed |-> e.last, keys |-> {}],
            !.pat = IF first THEN pat ELSE @,
            !.steady = IF first THEN listKeys(Data(r0)) ELSE @]
       /\ resume' = IF first THEN resume ELSE [resume EXCEPT !.table = Got(scan.cursor)]
    /\ pend' = [pend EXCEPT ![r0] = <<"scan">>]

(***************************************************************************)
(* scanKeys: the meta keys of the next partition, sorted.                  *)
(***************************************************************************)
ScanQuery ==
    /\ Reads /\ scan.page # NoPage /\ scan.page.raw = <<>> /\ scan.page.p < NumBuckets
    /\ LET g == scan.page
           found == {x \in MetaKeys(Data(r0), g.p) : g.p = g.start => Follows(x, g.last)}
       IN  scan' = [scan EXCEPT !.page.raw = Sorted(found), !.page.p = @ + 1]
    /\ UNCHANGED <<resume, pend>>

(***************************************************************************)
(* One meta key.  The first of a logical key looks the key up, unless the   *)
(* page is full: then the next page resumes after what was consumed.        *)
(***************************************************************************)
ResumePosAhead(g) == Head(g.raw)
ResumePos(g) == g.consumed
ScanEntry(count) ==
    /\ Reads /\ scan.page # NoPage /\ scan.page.raw # <<>>
    /\ LET g == scan.page
           x == Head(g.raw)
           new == x[2] # g.cur
           kept == new /\ x[2] \in scan.pat /\ probe(Data(r0), x[2])
       IN  IF new /\ Cardinality(g.keys) >= count
           THEN /\ resume' = Alloc(resume.table, "keys", g.p - 1, ResumePos(g))
                /\ scan' = [scan EXCEPT !.cursor = resume'.next, !.page = NoPage, !.got = @ \cup g.keys]
           ELSE /\ scan' = [scan EXCEPT !.page = [g EXCEPT !.raw = Tail(@), !.cur = x[2], !.consumed = x,
                                                          !.keys = IF kept THEN @ \cup {x[2]} ELSE @]]
                /\ UNCHANGED resume
    /\ UNCHANGED pend

ScanDone ==
    /\ Reads /\ scan.page # NoPage /\ scan.page.raw = <<>> /\ scan.page.p = NumBuckets
    /\ scan' = [scan EXCEPT !.cursor = 0, !.page = NoPage, !.got = @ \cup scan.page.keys, !.over = TRUE]
    /\ resume' = Free(resume.table, scan.cursor)
    /\ pend' = [pend EXCEPT ![r0] = Idle]

(***************************************************************************)
(* SSCAN, as HSCAN and ZSCAN, pages through the members in their order.     *)
(***************************************************************************)
scanPage(names, pos, count, pat) ==
    LET hits == {e \in names : e \in pat /\ (pos = NoLast \/ e > pos[1])} IN
    {e \in hits : Cardinality({f \in hits : f < e}) < count}
SScan(k, pat, count) ==
    /\ Reads /\ ~scan.over
    /\ \E names \in {Items(Data(r0), k)}, ours \in {IF scan.cursor = 0 THEN pat ELSE scan.pat} :
       \E page \in {scanPage(names, ResumeAt(scan.cursor, "members").last, count, ours)} :
       LET done == Cardinality(page) < count \/ Max(page) = Max(names)
           table == Restrict(resume.table, DOMAIN resume.table \ {scan.cursor})
       IN  /\ resume' = IF done THEN [resume EXCEPT !.table = table]
                        ELSE Alloc(table, "members", 0, <<Max(page)>>)
           /\ scan' = [scan EXCEPT !.cursor = IF done THEN 0 ELSE resume'.next, !.over = done, !.pat = ours,
                                   !.got = @ \cup page, !.steady = IF scan.cursor = 0 THEN names ELSE @]
           /\ pend' = [pend EXCEPT ![r0] = IF done THEN Idle ELSE <<"scan">>]

(***************************************************************************)
(* What goes on meanwhile; steady drops what is not there at some moment.   *)
(* The clock matters to a cursor between two calls.                        *)
(***************************************************************************)
Fill(ops) ==   \* what the scan is to find, on every replica
    /\ log[r0] = <<>>
    /\ log' = [log EXCEPT ![r0] = [i \in DOMAIN ops |-> Block(r0, ops, i)]]
    /\ seen' = [p \in Replica |-> {<<r0, i>> : i \in DOMAIN ops}]
    /\ kv' = [p \in Replica |-> Overlay(<<>>, r0, ops)]
    /\ last' = [last EXCEPT ![r0] = StampOf(r0, Len(SlotWrites(ops)))]
    /\ UNCHANGED <<now, togo, pend, fresh, scanVars>>
Meanwhile(Here(_)) == scan' = [scan EXCEPT !.steady = @ \cap Here(kv'[r0])] /\ UNCHANGED resume

Unsought == k1 + 1
Sought == Key \ {Unsought}
Gone(r) == IF r = r0 THEN k1 ELSE k2
Goes(Here(_), Changes) ==
    /\ Changes \/ Deliver(r0) \/ (scan.page = NoPage /\ Tick)
    /\ Meanwhile(Here)
ScanStep ==
    \/ Fill(Each(Sought, LAMBDA k : Put(setMember(k, 1), "presence")) \o Each(Sought, LAMBDA k : writeMeta(k, MetaOf("set"))))
    \/ /\ log[r0] # <<>>
       /\ \/ Scan(Key \ {k2})
          \/ ScanQuery \/ ScanEntry(1) \/ ScanDone
          \/ Goes(listKeys, \E r \in Replica : SetAdd(r, Unsought, {1}) \/ Delete(r, Gone(r)))
SScanStep ==
    \/ Fill(Append(Each(Sought, LAMBDA e : Put(setMember(k1, e), "presence")), writeMeta(k1, MetaOf("set"))))
    \/ /\ log[r0] # <<>>
       /\ \/ \E pat \in {Key, Both}, count \in {1, 2} : SScan(k1, pat, count)
          \/ Goes(LAMBDA m : Items(m, k1),
                  \E r \in Replica : SetAdd(r, k1, {Unsought}) \/ SetDelete(r, k1, {Gone(r)}))

-----------------------------------------------------------------------------
(* Publish/subscribe.  A frame reaches every node, its origin too, at most  *)
(* once and in any order; one that is lost stays in flight.                 *)

Hear(r, msg) == heard' = IF r \in sub THEN [heard EXCEPT ![r] = Append(@, msg)] ELSE heard
doSubscribe(r) == r \notin sub /\ sub' = sub \cup {r} /\ UNCHANGED <<store, bus, heard>>
doPublish(r) ==
    LET msg == togo IN
    /\ togo > 0 /\ togo' = togo - 1
    /\ Hear(r, msg)
    /\ bus' = bus \cup {<<r, msg, q>> : q \in Replica}
    /\ UNCHANGED <<log, seen, kv, last, now, pend, fresh, sub>>
runBusAll(f) == bus' = bus \ {f} /\ Hear(f[3], f[2]) /\ UNCHANGED <<store, sub>>
runBus(f) ==
    /\ bus' = bus \ {f}
    /\ IF f[1] = f[3] THEN UNCHANGED heard ELSE Hear(f[3], f[2])
    /\ UNCHANGED <<store, sub>>
PubStep == (\E r \in Replica : doSubscribe(r) \/ doPublish(r)) \/ \E f \in bus : runBus(f)

-----------------------------------------------------------------------------
(* The specification                                                       *)

TxnInit ==
    /\ conn = [c \in Client |-> NewConn]
    /\ txn = [c \in Client |-> NoTxn]
    /\ gen = [p \in 0 .. NumBuckets - 1 |-> 0]
    /\ told = [k \in Key |-> 0]

ServerInit ==
    /\ Init
    /\ TxnInit
    /\ resume = [next |-> 0, table |-> <<>>]
    /\ scan = [cursor |-> 0, page |-> NoPage, pat |-> {}, got |-> {}, steady |-> {}, over |-> FALSE]
    /\ LockInit
    /\ sub = {} /\ bus = {} /\ heard = [r \in Replica |-> <<>>]

ServerNext ==
    \/ Next /\ UNCHANGED serverVars
    \/ work = "txn" /\ TxnStep /\ UNCHANGED <<nodeVars, scanVars, lock, pubVars>>
    \/ work = "scan" /\ ScanStep /\ UNCHANGED <<nodeVars, txnVars, lock, pubVars>>
    \/ work = "sscan" /\ SScanStep /\ UNCHANGED <<nodeVars, txnVars, lock, pubVars>>
    \/ work = "lock" /\ LockStep /\ UNCHANGED <<store, nodeVars, txnVars, scanVars, pubVars>>
    \/ work = "pubsub" /\ PubStep /\ UNCHANGED <<nodeVars, txnVars, scanVars, lock>>

ServerSpec == ServerInit /\ [][ServerNext]_<<vars, serverVars>>

-----------------------------------------------------------------------------
(* Properties                                                              *)

On(v) == INSTANCE Redis WITH db <- v, cmd <- <<"read">>
Then(v, k, c) ==
    CASE c = "incr" -> On(v)!Effect(<<"incr", k, 1>>)
      [] c = "set" -> On(v)!Effect(<<"set", k, <<1, 0>>, 0>>)
      [] c = "del" -> On(v)!Effect(<<"del", k>>)
Refused(v, k, c) == c # "del" /\ v[k][1] = (IF c = "incr" THEN "bits" ELSE "counter")
OneByOne(t) ==
    LET After(acc, x) ==
            LET k == KeyAt(t.db, x[2]) IN
            CASE acc.stop -> acc
              [] ~acc.stop /\ Refused(acc.v, k, x[1]) -> [acc EXCEPT !.stop = t.script]
              [] OTHER -> [acc EXCEPT !.v = Then(@, k, x[1])]
    IN  FoldLeft(After, [v |-> t.base, stop |-> FALSE], t.cmds).v

(***************************************************************************)
(* A transaction whose keys nobody else writes, in partitions that do not   *)
(* rotate meanwhile, leaves them as its commands leave them when they run   *)
(* one by one, in the database selected at EXEC: a command sees what the    *)
(* earlier ones wrote though none of it is in the store, whatever the       *)
(* others do and in whatever order the partitions commit.  A script stops   *)
(* at the first error and what it wrote until then stays.                  *)
(***************************************************************************)
ExecSequential ==
    [][\A c \in Client :
        LET t == txn[c] IN
        (t # NoTxn /\ txn'[c] = NoTxn /\ gen = t.gen) => \A k \in KeysOf(t) : View'[k] = OneByOne(t)[k]]_txn

(***************************************************************************)
(* No increment that was answered is lost: with no transaction under way, a *)
(* counter is the number of its INCRs that returned no error, queued ones   *)
(* and direct ones, of every client.                                       *)
(***************************************************************************)
IncrementsKept ==
    (\A c \in Client : txn[c] = NoTxn) => \A k \in Key : counterSum(Data(r0), k) = told[k]

(***************************************************************************)
(* A scan returns every key, or member, that is there from its first call   *)
(* to its last and matches its pattern, whatever is added, deleted, merged  *)
(* from other replicas or expires from the cursor table meanwhile.          *)
(***************************************************************************)
ScanComplete == scan.over => scan.steady \cap scan.pat \subseteq scan.got

(***************************************************************************)
(* A subscriber is sent a published message once at the most, by its own    *)
(* node or from the bus, which brings a node its own messages back.        *)
(***************************************************************************)
HeardOnce == \A r \in Replica : IsInjective(heard[r])
=============================================================================
