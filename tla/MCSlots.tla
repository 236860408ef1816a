------------------------------ MODULE MCSlots ------------------------------
(***************************************************************************)
(* Small instances of Slots: the instances differ in their bounds only.    *)
(***************************************************************************)
EXTENDS Slots

Replicas == 1 .. 2
=============================================================================
