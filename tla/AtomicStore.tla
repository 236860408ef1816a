----------------------------- MODULE AtomicStore -----------------------------
(***************************************************************************)
(* What a partition promises its clients: a set of writes that only grows, *)
(* one write at a time.  There are no generations here, so a rotation that *)
(* loses, undoes or repeats a write is not a step of this specification.   *)
(***************************************************************************)
CONSTANT Write

VARIABLE data

Init == data = {}

Put(w) == w \notin data /\ data' = data \cup {w}

Next == \E w \in Write : Put(w)

Spec == Init /\ [][Next]_data
=============================================================================
