----------------------------- MODULE MCRotation -----------------------------
(* Instances of Rotation for TLC.                                          *)
EXTENDS RotationInvariants, TLC

CONSTANTS a, b, c

Two   == {a, b}
Three == {a, b, c}
OnlyA == {a}
AllKnown == [n \in Node |-> Node \ {n}]
OnlyAKnows == [n \in Node |-> IF n = a THEN Node \ {n} ELSE {}]

\* The participants other than a are interchangeable.
Participants == Permutations({b, c})

(***************************************************************************)
(* A start in the middle of a deployment: b crashed after it had switched, *)
(* the others gave the round up and forgot it, and b is back, in doubt.    *)
(***************************************************************************)
LeftOnDisk(n) ==
    IF n = b THEN [gen |-> 1, prev |-> 0] ELSE [gen |-> 0, prev |-> NoGen]

InitInDoubt ==
    /\ up = [n \in Node |-> TRUE]
    /\ disk = [n \in Node |-> LeftOnDisk(n)]
    /\ eng = [n \in Node |-> Restored(disk[n])]
    /\ part = [n \in Node |-> Resumed(disk[n])]
    /\ ns = [n \in Node |-> [g \in Gens |-> {}]]
    /\ pc = [n \in Node |-> "idle"]
    /\ co = [n \in Node |-> NoFrame]
    /\ members = InitMembers
    /\ replies = [n \in Node |-> NoReplies]
    /\ waiting = [n \in Node |-> {}]
    /\ msgs = {}
    /\ round = 0
    /\ left = [n \in Node |-> {}]
    /\ crashes = 0
    /\ putGen = [i \in Id |-> NoGen]
    /\ delGen = [i \in Id |-> NoGen]

DoubtSpec == InitInDoubt /\ [][Next /\ OutcomesHeard]_vars
=============================================================================
