------------------------------- MODULE MCGate -------------------------------
(***************************************************************************)
(* Small instances of Gate.                                                *)
(***************************************************************************)
EXTENDS Gate, TLC

CONSTANTS w1, w2, b1, b2, r1

Singles == {w1, w2}
Batches == {b1, b2}
Readers == {r1}
=============================================================================
