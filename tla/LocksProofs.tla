---------------------------- MODULE LocksProofs -----------------------------
(***************************************************************************)
(* Locking two keys in their order is free of deadlock when every key has a *)
(* mutex of its own, for any number of connections and any finite number of *)
(* keys.                                                                   *)
(***************************************************************************)
EXTENDS Locks, Maxima

(***************************************************************************)
(* The states of one connection: it waits for its only key, or for two, or  *)
(* it holds the mutex of the lower and waits for the higher.               *)
(***************************************************************************)
Waiting(l, k) ==
    \/ l = [want |-> <<k>>, held |-> {}]
    \/ \E b \in LogicalKey : k < b /\ l = [want |-> <<k, b>>, held |-> {}]
    \/ \E a \in LogicalKey : a < k /\ l = [want |-> <<k>>, held |-> {Shard(a)}]
Stage(l) == l.want = <<>> \/ \E k \in LogicalKey : Waiting(l, k)

IInv == lock = [c \in Client |-> lock[c]] /\ \A c \in Client : Stage(lock[c])

(***************************************************************************)
(* The heads and tails of the two kinds of requests.                       *)
(***************************************************************************)
LEMMA Requests ==
    ASSUME NEW a, NEW b
    PROVE  /\ Head(<<a>>) = a /\ Tail(<<a>>) = <<>> /\ <<a>> # <<>>
           /\ Head(<<a, b>>) = a /\ Tail(<<a, b>>) = <<b>> /\ <<a, b>> # <<>>
OBVIOUS

LEMMA WaitingHead ==
    ASSUME NEW l, NEW k \in LogicalKey, Waiting(l, k)
    PROVE  l.want # <<>> /\ Head(l.want) = k
BY Requests DEF Waiting

LEMMA InOrder ==
    ASSUME NEW a \in LogicalKey, NEW b \in LogicalKey, a # b
    PROVE  \E lo, hi \in LogicalKey : lo < hi /\ LockOrder(a, b) = <<lo, hi>>
<1>1. a \in Nat /\ b \in Nat
  BY LockAssumption, ZenonT(40) DEF LockAssumption
<1>2. CASE a > b
  BY <1>1, <1>2, ZenonT(40) DEF LockOrder
<1>3. CASE ~(a > b)
  <2>1. a < b
    BY <1>1, <1>3
  <2>. QED BY <1>3, <2>1, ZenonT(40) DEF LockOrder
<1>. QED BY <1>2, <1>3, ZenonT(40)

LEMMA WantsIs ==
    ASSUME NEW c \in Client, NEW keys, lock = [d \in Client |-> lock[d]], Wants(c, keys)
    PROVE  lock' = [lock EXCEPT ![c] = [want |-> keys, held |-> {}]]
<1>1. lock[c] = [want |-> <<>>, held |-> {}]
  BY ZenonT(40) DEF Wants, NoLock
<1>2. [lock[c] EXCEPT !.want = keys] = [want |-> keys, held |-> {}]
  BY <1>1
<1>3. lock' = [lock EXCEPT ![c] = [lock[c] EXCEPT !.want = keys]]
  BY ZenonT(40) DEF Wants
<1>. QED BY <1>2, <1>3, ZenonT(40)

LEMMA StageStep ==
    ASSUME Unshared, IInv, [LockStep]_lock
    PROVE  IInv'
<1>. USE LockAssumption DEF LockAssumption
<1>1. CASE UNCHANGED lock
  BY <1>1, ZenonT(40) DEF IInv, Stage, Waiting
<1>2. ASSUME NEW c \in Client, NEW x \in Pairs, Wants(c, LockOrder(x[1], x[2]))
      PROVE  IInv'
  <2>1. x[1] \in LogicalKey /\ x[2] \in LogicalKey /\ x[1] # x[2]
    BY ZenonT(40) DEF Unshared
  <2>3. PICK a, b \in LogicalKey : a < b /\ LockOrder(x[1], x[2]) = <<a, b>>
    BY <2>1, InOrder, ZenonT(40)
  <2>4. lock' = [lock EXCEPT ![c] = [want |-> <<a, b>>, held |-> {}]]
    BY <1>2, <2>3, WantsIs, ZenonT(40) DEF IInv
  <2>5. Waiting([want |-> <<a, b>>, held |-> {}], a)
    BY <2>3, ZenonT(40) DEF Waiting
  <2>. QED BY <2>4, <2>5, ZenonT(40) DEF IInv, Stage
<1>3. ASSUME NEW c \in Client, NEW k \in LogicalKey, Wants(c, <<k>>)
      PROVE  IInv'
  <2>1. lock' = [lock EXCEPT ![c] = [want |-> <<k>>, held |-> {}]]
    BY <1>3, WantsIs, ZenonT(40) DEF IInv
  <2>2. Waiting([want |-> <<k>>, held |-> {}], k)
    BY ZenonT(40) DEF Waiting
  <2>. QED BY <2>1, <2>2, ZenonT(40) DEF IInv, Stage
<1>4. ASSUME NEW c \in Client, Acquire(c)
      PROVE  IInv'
  <2>1. PICK k \in LogicalKey : Waiting(lock[c], k)
    BY <1>4, ZenonT(40) DEF Acquire, IInv, Stage
  <2>. DEFINE new == [want |-> Tail(lock[c].want), held |-> lock[c].held \cup {Shard(k)}]
  <2>2. lock' = [lock EXCEPT ![c] = new]
    BY <1>4, <2>1, WaitingHead, ZenonT(40) DEF Acquire
  <2>3. Stage(new)
    <3>1. ASSUME lock[c].want = <<k>>
          PROVE  Stage(new)
      BY <3>1, Requests, ZenonT(40) DEF Stage
    <3>2. ASSUME NEW b \in LogicalKey, k < b, lock[c] = [want |-> <<k, b>>, held |-> {}]
          PROVE  Stage(new)
      <4>1. new = [want |-> <<b>>, held |-> {Shard(k)}]
        BY <3>2, Requests
      <4>. QED BY <3>2, <4>1, ZenonT(40) DEF Stage, Waiting
    <3>3. \/ lock[c].want = <<k>>
          \/ \E b \in LogicalKey : k < b /\ lock[c] = [want |-> <<k, b>>, held |-> {}]
      <4>1. CASE lock[c] = [want |-> <<k>>, held |-> {}]
        BY <4>1
      <4>2. ASSUME NEW a \in LogicalKey, lock[c] = [want |-> <<k>>, held |-> {Shard(a)}]
            PROVE  lock[c].want = <<k>>
        BY <4>2
      <4>. QED BY <2>1, <4>1, <4>2, Zenon, ZenonT(40) DEF Waiting
    <3>. HIDE DEF new
    <3>. QED BY <3>1, <3>2, <3>3, Zenon, ZenonT(40)
  <2>. HIDE DEF new
  <2>. QED BY <2>2, <2>3, ZenonT(40) DEF IInv
<1>5. ASSUME NEW c \in Client, Unlock(c)
      PROVE  IInv'
  <2>1. Stage(NoLock)
    BY ZenonT(40) DEF Stage, NoLock
  <2>. QED BY <1>5, <2>1, ZenonT(40) DEF Unlock, IInv
<1>. QED BY <1>1, <1>2, <1>3, <1>4, <1>5, ZenonT(40) DEF LockStep

(***************************************************************************)
(* Whoever waits, waits for one who waits for a higher key.                *)
(***************************************************************************)
LEMMA WaitsHigher ==
    ASSUME Unshared, IInv, NEW c \in Client, NEW d \in Client,
           lock[c].want # <<>>, lock[d].want # <<>>,
           Shard(Head(lock[c].want)) \in lock[d].held
    PROVE  /\ Head(lock[c].want) \in LogicalKey /\ Head(lock[d].want) \in LogicalKey
           /\ Head(lock[c].want) < Head(lock[d].want)
<1>1. PICK k \in LogicalKey : Waiting(lock[c], k)
  BY ZenonT(40) DEF IInv, Stage
<1>2. PICK j \in LogicalKey : Waiting(lock[d], j)
  BY ZenonT(40) DEF IInv, Stage
<1>3. Head(lock[c].want) = k /\ Head(lock[d].want) = j
  BY <1>1, <1>2, WaitingHead, ZenonT(40)
<1>4. PICK a \in LogicalKey : a < j /\ lock[d] = [want |-> <<j>>, held |-> {Shard(a)}]
  <2>1. lock[d] # [want |-> <<j>>, held |-> {}]
    OBVIOUS
  <2>2. \A b : lock[d] # [want |-> <<j, b>>, held |-> {}]
    OBVIOUS
  <2>. QED BY <1>2, <2>1, <2>2, Zenon, ZenonT(40) DEF Waiting
<1>5. k = a
  <2>1. Shard(k) \in {Shard(a)}
    BY <1>3, <1>4
  <2>. QED BY <2>1, ZenonT(40) DEF Unshared
<1>. QED BY <1>3, <1>4, <1>5, Zenon, ZenonT(40)

LEMMA NoCycle ==
    ASSUME Unshared, IInv, NEW N \in Nat, LogicalKey \subseteq 0 .. N
    PROVE  NoWaitCycle
<1>. SUFFICES ASSUME NEW S \in SUBSET Client, S # {},
                     \A c \in S : /\ lock[c].want # <<>>
                                  /\ \E d \in S : Shard(Head(lock[c].want)) \in lock[d].held
              PROVE  FALSE
  BY ZenonT(40) DEF NoWaitCycle
<1>. DEFINE Want(c) == Head(lock[c].want)
            T == {Want(c) : c \in S}
<1>1. \A c \in S : \E d \in S : Want(c) \in 0 .. N /\ Want(d) \in 0 .. N /\ Want(c) < Want(d)
  BY WaitsHigher, ZenonT(40)
<1>. HIDE DEF Want
<1>2. T \subseteq 0 .. N /\ T # {}
  BY <1>1, Zenon, ZenonT(40)
<1>3. PICK c \in S : \A d \in S : Want(d) <= Want(c)
  <2>1. \E x \in T : \A y \in T : y <= x
    <3>. HIDE DEF T
    <3>. QED BY <1>2, Largest, Zenon, ZenonT(40)
  <2>. QED BY <2>1, ZenonT(40)
<1>4. PICK d \in S : Want(c) \in 0 .. N /\ Want(d) \in 0 .. N /\ Want(c) < Want(d)
  BY <1>1, Zenon, ZenonT(40)
<1>5. Want(d) <= Want(c)
  BY <1>3, Zenon, ZenonT(40)
<1>. QED BY <1>4, <1>5

(***************************************************************************)
(* RENAME and SMOVE lock in the order of the keys ("Lock both keys in a      *)
(* stable order to avoid deadlock", rkey.go): with a mutex for every key    *)
(* nobody waits in a cycle.  The mutexes are shared by hash, so the          *)
(* condition is not the code's to keep.                                    *)
(***************************************************************************)
THEOREM NoWaitCycleUnshared ==
    ASSUME Unshared, NEW N \in Nat, LogicalKey \subseteq 0 .. N
    PROVE  LockSpec => []NoWaitCycle
<1>1. LockInit => IInv
  BY DEF LockInit, IInv, Stage, NoLock
<1>2. IInv /\ [LockStep]_lock => IInv'
  BY StageStep, ZenonT(40)
<1>3. IInv => NoWaitCycle
  BY NoCycle, ZenonT(40)
<1>. QED BY <1>1, <1>2, <1>3, PTL DEF LockSpec
=============================================================================
