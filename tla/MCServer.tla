------------------------------ MODULE MCServer ------------------------------
(***************************************************************************)
(* Small instances of a server: two databases of two names, two partitions.*)
(***************************************************************************)
EXTENDS Server

Two == 1 .. 2
Three == 1 .. 3
Keys == 1 .. 4
Sketched == {<<1, 1>>, <<2, 2>>}
DiscOf(r) == r
BloomBits(x, l) == {x}
CellOf(x, row) == x
Commands(w) ==
    CASE w \in {"scan", "sscan"} -> 2
      [] w \in {"string", "hash", "zset", "json", "txn", "pubsub"} -> 3
      [] w = "stream" -> 5
      [] OTHER -> 4

Sent == {<<"incr", 1>>, <<"incr", 2>>, <<"set", 1>>, <<"del", 1>>}
Increments == {<<"incr", 1>>}
PartitionOf(k) == k % 2
Ordered == {<<1, 2>>, <<2, 1>>, <<2, 3>>, <<3, 1>>}
SameTwice == {<<1, 1>>}
OneEach(k) == k
Sharing(k) == k % 2
=============================================================================
