------------------------------ MODULE MCStore ------------------------------
(***************************************************************************)
(* Small instances of the store: two replicas, two keys, a workload each.  *)
(***************************************************************************)
EXTENDS Store

Replicas == 1 .. 2
Keys == 1 .. 2
Two == 1 .. 2
Sketched == {<<1, 1>>, <<1, 2>>, <<2, 1>>}
DiscOf(r) == r
BloomBits(x, l) == IF l = 0 THEN {x, x + 1} ELSE {x}
CellOf(x, row) == IF row = 2 THEN 1 ELSE 10 + x
Commands(w) == CASE w = "cms" -> 5 [] w = "groups" -> 5 [] w \in {"moves", "topk"} -> 4 [] OTHER -> 3
Writers(w) == Replicas
=============================================================================
