------------------------------- MODULE Locks --------------------------------
(***************************************************************************)
(* The per-key locks of a node (crdtstore/locks.go): a fixed array of       *)
(* mutexes, a key's mutex chosen by hash.  A command locks its key; RENAME   *)
(* (rkey.go) and SMOVE (rset.go) lock two, in the order of the keys.  Keys   *)
(* are numbered in that order.                                             *)
(***************************************************************************)
EXTENDS Naturals, Sequences

CONSTANTS
    Client,       \* connections, each with one command at a time
    LogicalKey,   \* what lockKey makes of a database and a name
    Pairs,        \* pairs of keys that RENAME and SMOVE are called with
    Shard(_)      \* the mutex of a logical key

ASSUME LockAssumption == LogicalKey \subseteq Nat /\ Pairs \subseteq LogicalKey \X LogicalKey

VARIABLE lock     \* lock[c]: [want, held], the logical keys left to lock and the mutexes held

NoLock == [want |-> <<>>, held |-> {}]
LockInit == lock = [c \in Client |-> NoLock]

LockOrderGiven(a, b) == <<a, b>>
LockOrder(a, b) == IF a > b THEN <<b, a>> ELSE <<a, b>>
Wants(c, keys) == lock[c] = NoLock /\ lock' = [lock EXCEPT ![c].want = keys]
Acquire(c) ==
    /\ lock[c].want # <<>>
    /\ LET mu == Shard(Head(lock[c].want)) IN
       /\ \A d \in Client : mu \notin lock[d].held
       /\ lock' = [lock EXCEPT ![c] = [want |-> Tail(@.want), held |-> @.held \cup {mu}]]
Unlock(c) == lock[c].want = <<>> /\ lock[c].held # {} /\ lock' = [lock EXCEPT ![c] = NoLock]
LockStep ==
    \E c \in Client :
        \/ \E x \in Pairs : Wants(c, LockOrder(x[1], x[2]))
        \/ \E k \in LogicalKey : Wants(c, <<k>>)
        \/ Acquire(c) \/ Unlock(c)
LockSpec == LockInit /\ [][LockStep]_lock

(***************************************************************************)
(* No set of connections waits for mutexes that they hold among themselves: *)
(* the commands on two keys, in either order of their arguments, and those  *)
(* on one never block each other for good.                                 *)
(***************************************************************************)
NoWaitCycle ==
    ~\E S \in (SUBSET Client) \ {{}} :
        \A c \in S : lock[c].want # <<>> /\ \E d \in S : Shard(Head(lock[c].want)) \in lock[d].held

(***************************************************************************)
(* What the order of the keys is good for: no two keys of these commands    *)
(* share a mutex, and no command names one key twice.                      *)
(***************************************************************************)
Unshared ==
    /\ \A a, b \in LogicalKey : Shard(a) = Shard(b) => a = b
    /\ \A x \in Pairs : x[1] # x[2]
=============================================================================
