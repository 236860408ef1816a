------------------------------ MODULE Rotation ------------------------------
(***************************************************************************)
(* Cluster-coordinated compaction of one partition: package rotation over  *)
(* the generation bookkeeping of engine/rotation.go.                       *)
(*                                                                         *)
(* A node's handlers (onPrepare, onSwitch, finish, onStatus, onOutcome)    *)
(* run under the partition mutex pmu, so each one is a single action;      *)
(* Compact holds pmu from its first line to its last, so none of them is   *)
(* enabled on a node whose own Compact is running.  Compact itself is cut  *)
(* into the steps between its sends and its writes, so that a crash, or    *)
(* another node, can come between them.                                    *)
(*                                                                         *)
(* Control messages are broadcast and may be lost, delayed, reordered or   *)
(* seen again: msgs holds what was sent and a handler may take any of it   *)
(* at any time or never.  The repeated sends of the code (prepare and      *)
(* switch each poll, three aborts and dones, a status each heartbeat) are  *)
(* the repeated receipts of one element of msgs.                           *)
(*                                                                         *)
(* Data is abstract: a block is a put or a delete of one id, or the seed   *)
(* of a generation, which holds a set of ids.  A namespace is the set of   *)
(* blocks processed in it.                                                 *)
(***************************************************************************)
EXTENDS Integers, FiniteSets

CONSTANTS
    Node,          \* replicas
    Coordinators,  \* the nodes REDGEO.COMPACT is called on
    InitMembers,   \* [Node -> SUBSET Node]: whom each node knows at start
    Id,            \* values a client may put
    MaxRounds,     \* bound: number of Compact calls
    MaxGen,        \* bound: the last generation a partition may reach
    Mortal,        \* bound: the nodes that may crash
    MaxCrashes,    \* bound: number of crashes
    Torn,          \* the calls of persistGen a crash may cut between its two writes
    Linger,        \* TRUE: control messages outlive their round and a restart
    DiskFails,     \* TRUE: Stage and the writes of persistGen may fail
    RegistryHere   \* TRUE: this is the partition RegisterSelf writes to

ASSUME CoordinatorsAssumption == Coordinators \subseteq Node /\ Mortal \subseteq Node
ASSUME MembersAssumption ==
    /\ InitMembers \in [Node -> SUBSET Node]
    /\ \A n \in Node : n \notin InitMembers[n]
ASSUME BoundsAssumption == MaxRounds \in Nat /\ MaxGen \in Nat /\ MaxCrashes \in Nat
ASSUME FlagsAssumption ==
    /\ Torn \subseteq {"activate", "rollback"}
    /\ {Linger, DiskFails, RegistryHere} \subseteq BOOLEAN

NoGen   == -1
NoRound == 0
NoSeed  == <<"none", {}>>

VARIABLES
    up,       \* up[n]: the process runs
    eng,      \* eng[n]: the engine's partition (generation, previous one, gate)
    disk,     \* disk[n]: what persistGen has written
    ns,       \* ns[n][g]: blocks in generation g's namespace on n's disk
    part,     \* part[n]: the participant state n.parts[part]
    pc,       \* pc[n]: where n's Compact is, "idle" when none runs
    co,       \* co[n]: the locals of that Compact
    members,  \* members[n]: the other replicas n knows
    replies,  \* replies[n]: statusReplies, the answers to n's last status
    waiting,  \* waiting[n]: WaitSeed goroutines
    msgs,     \* control messages sent
    round,    \* rounds started so far
    left,     \* left[n]: rounds whose outcome n has applied
    crashes,  \* crashes so far
    putGen,   \* putGen[i]: generation in which the put of i was acknowledged, or NoGen
    delGen    \* delGen[i]: generation in which i was deleted, or NoGen

vars == <<up, eng, disk, ns, part, pc, co, members, replies, waiting, msgs, round,
          left, crashes, putGen, delGen>>

Gens   == 0 .. MaxGen
Blocks == ({"put", "del"} \X {{i} : i \in Id}) \cup ({"seed"} \X SUBSET Id)
Genesis == ({"seed"} \X SUBSET Id) \cup {NoSeed}
Put(i) == <<"put", {i}>>
Del(i) == <<"del", {i}>>
Seed(ids) == IF ids = {} THEN NoSeed ELSE <<"seed", ids>>

(***************************************************************************)
(* The ids a query of the namespace returns: put or seeded, and not        *)
(* tombstoned.                                                             *)
(***************************************************************************)
Live(blocks) == {i \in Id : /\ Del(i) \notin blocks
                            /\ \E b \in blocks : b[1] # "del" /\ i \in b[2]}

NoPart == [phase |-> "none", round |-> NoRound, genesis |-> NoSeed]
Prepared(r) == [phase |-> "prepared", round |-> r, genesis |-> NoSeed]
Switched(r, genesis) == [phase |-> "switched", round |-> r, genesis |-> genesis]
Frame(r, ms) == [round |-> r, union |-> {}, stable |-> 0, ready |-> {},
                 genesis |-> NoSeed, members |-> ms]
NoFrame == Frame(NoRound, {})
Stabler(f) == [f EXCEPT !.stable = f.stable + 1]
WithUnion(f, union) == [f EXCEPT !.union = union]
WithReady(f, ready) == [f EXCEPT !.ready = ready]
WithGenesis(f, genesis) == [f EXCEPT !.genesis = genesis]

SeedWait(r, genesis) == [round |-> r, genesis |-> genesis]
NoReplies == [asked |-> FALSE, got |-> {}]
Answers(got) == [asked |-> TRUE, got |-> got]

InDoubt(n) == eng[n].prev # NoGen
Coordinating(n) == pc[n] # "idle"
Data(n) == ns[n][eng[n].gen]

Init ==
    /\ up = [n \in Node |-> TRUE]
    /\ eng = [n \in Node |-> [gen |-> 0, prev |-> NoGen, frozen |-> FALSE, noreads |-> FALSE]]
    /\ disk = [n \in Node |-> [gen |-> 0, prev |-> NoGen]]
    /\ ns = [n \in Node |-> [g \in Gens |-> {}]]
    /\ part = [n \in Node |-> NoPart]
    /\ pc = [n \in Node |-> "idle"]
    /\ co = [n \in Node |-> NoFrame]
    /\ members = InitMembers
    /\ replies = [n \in Node |-> NoReplies]
    /\ waiting = [n \in Node |-> {}]
    /\ msgs = {}
    /\ round = 0
    /\ left = [n \in Node |-> {}]
    /\ crashes = 0
    /\ putGen = [i \in Id |-> NoGen]
    /\ delGen = [i \in Id |-> NoGen]

-----------------------------------------------------------------------------
(* The engine (engine/rotation.go)                                         *)

Frozen(e) == [e EXCEPT !.frozen = TRUE]
ReadsOpen(e) == [e EXCEPT !.noreads = FALSE]
Unfrozen(e) == [gen |-> e.gen, prev |-> e.prev, frozen |-> FALSE, noreads |-> FALSE]

(***************************************************************************)
(* Activate: the staged generation becomes current, the old one is kept.   *)
(* With waitSeed the reads are closed as well.                             *)
(***************************************************************************)
Activated(e) == [gen |-> e.gen + 1, prev |-> e.gen, frozen |-> e.frozen, noreads |-> e.noreads]
ReadsLeftOpen(e) == e
ReadsClosed(e) == [e EXCEPT !.noreads = TRUE]

Committed(e) == [gen |-> e.gen, prev |-> NoGen, frozen |-> e.frozen, noreads |-> e.noreads]
RolledBack(e) == [gen |-> e.prev, prev |-> NoGen, frozen |-> e.frozen, noreads |-> FALSE]

(***************************************************************************)
(* restoreGen: a pending previous generation brings the gate up closed to  *)
(* writes; reads are open.                                                 *)
(***************************************************************************)
RestoredOpen(d) == [gen |-> d.gen, prev |-> d.prev, frozen |-> FALSE, noreads |-> FALSE]
Restored(d) == [gen |-> d.gen, prev |-> d.prev, frozen |-> d.prev # NoGen, noreads |-> FALSE]

PersistedAlone(e) == [gen |-> e.gen, prev |-> NoGen]
Persisted(e) == [gen |-> e.gen, prev |-> e.prev]

(***************************************************************************)
(* persistGen writes the generation and then, separately, writes or        *)
(* deletes the previous one: a crash or an error after the first write.    *)
(***************************************************************************)
TornWrite(n, e) == disk' = [disk EXCEPT ![n] = [gen |-> e.gen, prev |-> disk[n].prev]]

Saved(n, e) == disk' = [disk EXCEPT ![n] = Persisted(e)]
Unsaved(n, e) == DiskFails /\ (UNCHANGED disk \/ TornWrite(n, e))

(***************************************************************************)
(* Commit and Rollback change the memory, the namespaces and the gate,     *)
(* whatever persistGen returns.  A Rollback with nothing staged and        *)
(* nothing activated only writes the generation again.  The Unfreeze that  *)
(* follows each of them is included.                                       *)
(***************************************************************************)
Commit(n) ==
    /\ eng' = [eng EXCEPT ![n] = Unfrozen(Committed(@))]
    /\ Saved(n, Committed(eng[n])) \/ Unsaved(n, Committed(eng[n]))
    /\ ns' = [ns EXCEPT ![n][eng[n].prev] = {}]

Rollback(n) ==
    /\ eng' = [eng EXCEPT ![n] = Unfrozen(RolledBack(@))]
    /\ Saved(n, RolledBack(eng[n])) \/ Unsaved(n, RolledBack(eng[n]))
    /\ ns' = [ns EXCEPT ![n][eng[n].gen] = {}]

NoUnfreeze(n) == UNCHANGED <<eng, disk, ns>>
Unfreeze(n) ==
    /\ eng' = [eng EXCEPT ![n] = Unfrozen(@)]
    /\ Saved(n, eng[n]) \/ Unsaved(n, eng[n])
    /\ UNCHANGED ns

-----------------------------------------------------------------------------
(* Clients and replication                                                 *)

PutKey(n, i) ==
    /\ up[n] /\ ~eng[n].frozen
    /\ putGen[i] = NoGen
    /\ putGen' = [putGen EXCEPT ![i] = eng[n].gen]
    /\ ns' = [ns EXCEPT ![n][eng[n].gen] = @ \cup {Put(i)}]
    /\ UNCHANGED <<up, eng, disk, part, pc, co, members, replies, waiting, msgs,
                   round, left, crashes, delGen>>

DeleteKey(n, i) ==
    /\ up[n] /\ ~eng[n].frozen
    /\ i \in Live(Data(n))
    /\ delGen[i] = NoGen
    /\ ns' = [ns EXCEPT ![n][eng[n].gen] = @ \cup {Del(i)}]
    /\ delGen' = [delGen EXCEPT ![i] = eng[n].gen]
    /\ UNCHANGED <<up, eng, disk, part, pc, co, members, replies, waiting, msgs,
                   round, left, crashes, putGen>>

(***************************************************************************)
(* A block of generation g travels from m to n.  The switch broadcaster    *)
(* hands n only the traffic of its current generation; m still serves its  *)
(* previous generation, whose datastore stays open until Commit.           *)
(***************************************************************************)
Replicate(m, n) ==
    /\ up[m] /\ up[n] /\ m # n
    /\ eng[n].gen \in {eng[m].gen, eng[m].prev}
    /\ \E b \in ns[m][eng[n].gen] \ Data(n) :
          ns' = [ns EXCEPT ![n][eng[n].gen] = @ \cup {b}]
    /\ UNCHANGED <<up, eng, disk, part, pc, co, members, replies, waiting, msgs,
                   round, left, crashes, delGen, putGen>>

-----------------------------------------------------------------------------
(* Membership                                                              *)

Learn(n, m) == members' = [members EXCEPT ![n] = @ \cup ({m} \ {n})]

Hello(m, n) ==
    /\ up[m] /\ up[n] /\ m # n /\ m \notin members[n]
    /\ Learn(n, m)
    /\ UNCHANGED <<up, eng, disk, ns, part, pc, co, replies, waiting, msgs, round, left,
                   crashes, delGen, putGen>>

-----------------------------------------------------------------------------
(* Participant                                                             *)

PrepareMsg(n) == [t |-> "prepare", from |-> n, round |-> co[n].round, union |-> co[n].union]
SwitchMsg(n) == [t |-> "switch", from |-> n, round |-> co[n].round, genesis |-> co[n].genesis]
Decision(n, type) == [t |-> type, from |-> n, round |-> co[n].round]
PreparedReply(n, r, union) ==
    [t |-> "prepared", from |-> n, round |-> r, ok |-> TRUE,
     heads |-> Data(n), missing |-> union \ Data(n)]
PreparedRefusal(n, r) ==
    [t |-> "prepared", from |-> n, round |-> r, ok |-> FALSE, heads |-> {}, missing |-> {}]
Ready(n, r) == [t |-> "ready", from |-> n, round |-> r, ok |-> TRUE]
NotReady(n, r) == [t |-> "ready", from |-> n, round |-> r, ok |-> FALSE]
Status(n) == [t |-> "status", from |-> n]
Outcome(n) ==
    [t |-> "outcome", from |-> n, gen |-> eng[n].gen,
     idle |-> part[n].phase = "none" /\ ~InDoubt(n)]

Send(m) == msgs' = msgs \cup {m}

(***************************************************************************)
(* prepared and ready reach the coordinator through waiters[round], which  *)
(* exists while its Compact runs; outside it handle drops them.            *)
(***************************************************************************)
IsReply(m, r) == m.t \in {"prepared", "ready"} /\ m.round = r
Reply(m) == msgs' = IF \E k \in Node : co[k].round = m.round THEN msgs \cup {m} ELSE msgs
WithoutWaiter(n) == {m \in msgs : ~IsReply(m, co[n].round)}

Inbox(n, type) == {m \in msgs : m.t = type /\ m.from # n}

(***************************************************************************)
(* The handlers of handle that take pmu wait while Compact holds it.       *)
(***************************************************************************)
Handles(n, m) == up[n] /\ ~Coordinating(n) /\ Learn(n, m.from)

OnPrepare(n) ==
    /\ \E m \in Inbox(n, "prepare") :
          /\ Handles(n, m)
          /\ Linger \/ m.round \notin left[n]
          /\ \/ \* a retransmission: answer with the current digest
                /\ part[n].phase = "prepared" /\ part[n].round = m.round
                /\ Reply(PreparedReply(n, m.round, m.union))
                /\ UNCHANGED <<eng, part>>
             \/ \* another round, or in doubt
                /\ part[n].phase # "none" \/ InDoubt(n)
                /\ ~(part[n].phase = "prepared" /\ part[n].round = m.round)
                /\ Reply(PreparedRefusal(n, m.round))
                /\ UNCHANGED <<eng, part>>
             \/ \* freeze and join the round
                /\ part[n].phase = "none" /\ ~InDoubt(n)
                /\ eng' = [eng EXCEPT ![n] = Frozen(@)]
                /\ part' = [part EXCEPT ![n] = Prepared(m.round)]
                /\ Reply(PreparedReply(n, m.round, m.union))
             \/ \* the writes in flight did not drain in time
                /\ part[n].phase = "none" /\ ~InDoubt(n)
                /\ Reply(PreparedRefusal(n, m.round))
                /\ UNCHANGED <<eng, part>>
    /\ UNCHANGED <<up, disk, ns, pc, co, replies, waiting, round, left, crashes, delGen, putGen>>

OnSwitch(n) ==
    /\ \E m \in Inbox(n, "switch") :
          /\ Handles(n, m)
          /\ \/ \* not prepared for this round
                /\ part[n].phase = "none" \/ part[n].round # m.round
                /\ Reply(NotReady(n, m.round))
                /\ UNCHANGED <<eng, disk, part, waiting>>
             \/ \* stage the next generation (or reopen what is left of it) and activate it
                /\ part[n].phase = "prepared" /\ part[n].round = m.round
                /\ eng[n].gen < MaxGen
                /\ eng' = [eng EXCEPT ![n] = ReadsClosed(Activated(@))]
                /\ disk' = [disk EXCEPT ![n] = Persisted(Activated(eng[n]))]
                /\ part' = [part EXCEPT ![n] = Switched(m.round, m.genesis)]
                /\ waiting' = [waiting EXCEPT ![n] = @ \cup {SeedWait(m.round, m.genesis)}]
                /\ UNCHANGED msgs
             \/ \* a retransmission: wait for the seed again
                /\ part[n].phase = "switched" /\ part[n].round = m.round
                /\ waiting' = [waiting EXCEPT ![n] = @ \cup {SeedWait(m.round, part[n].genesis)}]
                /\ UNCHANGED <<eng, disk, part, msgs>>
    /\ UNCHANGED <<up, ns, pc, co, replies, round, left, crashes, delGen, putGen>>

(***************************************************************************)
(* onSwitch's error returns: Stage fails, or Activate does and Rollback    *)
(* takes it back.  The participant stays prepared.                         *)
(***************************************************************************)
SwitchFails(n) ==
    /\ DiskFails
    /\ \E m \in Inbox(n, "switch") :
          /\ Handles(n, m)
          /\ part[n].phase = "prepared" /\ part[n].round = m.round
          /\ Reply(NotReady(n, m.round))
    /\ \/ UNCHANGED <<disk, ns>>
       \/ /\ eng[n].gen < MaxGen
          /\ Unsaved(n, Activated(eng[n]))
          /\ ns' = [ns EXCEPT ![n][eng[n].gen + 1] = {}]
    /\ UNCHANGED <<up, eng, part, pc, co, replies, waiting, round, left, crashes, delGen, putGen>>

(***************************************************************************)
(* The goroutine onSwitch starts: the seed has arrived, or it never came.  *)
(***************************************************************************)
SeedArrived(n) ==
    /\ up[n]
    /\ \E w \in waiting[n] :
          /\ w.genesis = NoSeed \/ w.genesis \in Data(n)
          /\ eng' = [eng EXCEPT ![n] = ReadsOpen(@)]
          /\ waiting' = [waiting EXCEPT ![n] = @ \ {w}]
          /\ Reply(Ready(n, w.round))
    /\ UNCHANGED <<up, disk, ns, part, pc, co, members, replies, round, left, crashes, delGen,
                   putGen>>

SeedTimeout(n) ==
    /\ up[n]
    /\ \E w \in waiting[n] :
          /\ w.genesis # NoSeed /\ w.genesis \notin Data(n)
          /\ waiting' = [waiting EXCEPT ![n] = @ \ {w}]
          /\ Reply(NotReady(n, w.round))
    /\ UNCHANGED <<up, eng, disk, ns, part, pc, co, members, replies, round, left, crashes,
                   delGen, putGen>>

(***************************************************************************)
(* finish: apply a round's outcome to the participant state it concerns.   *)
(***************************************************************************)
FinishRollsBack(n, commit) ==
    /\ part' = [part EXCEPT ![n] = NoPart]
    /\ left' = [left EXCEPT ![n] = @ \cup {part[n].round}]
    /\ \/ commit /\ part[n].phase = "switched" /\ Commit(n)
       \/ ~(commit /\ part[n].phase = "switched") /\ Rollback(n)

Finish(n, commit) ==
    /\ part' = [part EXCEPT ![n] = NoPart]
    /\ left' = [left EXCEPT ![n] = @ \cup {part[n].round}]
    /\ \/ commit /\ part[n].phase = "switched" /\ Commit(n)
       \/ ~(commit /\ part[n].phase = "switched") /\ InDoubt(n) /\ Rollback(n)
       \/ ~(commit /\ part[n].phase = "switched") /\ ~InDoubt(n) /\ Unfreeze(n)

Concerns(n, r) == part[n].phase # "none" /\ part[n].round = r

OnDone(n) ==
    /\ \E m \in Inbox(n, "done") :
          /\ Handles(n, m)
          /\ Concerns(n, m.round)
          /\ Finish(n, TRUE)
    /\ UNCHANGED <<up, pc, co, replies, waiting, msgs, round, crashes, delGen, putGen>>

OnAbort(n) ==
    /\ \E m \in Inbox(n, "abort") :
          /\ Handles(n, m)
          /\ Concerns(n, m.round)
          /\ Finish(n, FALSE)
    /\ UNCHANGED <<up, pc, co, replies, waiting, msgs, round, crashes, delGen, putGen>>

(***************************************************************************)
(* watchdog: a prepared participant whose round went silent thaws.  The    *)
(* idle timeout (3 min) exceeds the coordinator's own deadlines (30 s and  *)
(* 60 s), so it fires only when no Compact of that round is running.       *)
(***************************************************************************)
WatchdogIdle(n) ==
    /\ up[n] /\ ~Coordinating(n)
    /\ part[n].phase = "prepared"
    /\ \A c \in Node : co[c].round # part[n].round
    /\ Finish(n, FALSE)
    /\ UNCHANGED <<up, pc, co, members, replies, waiting, msgs, round, crashes, delGen, putGen>>

(***************************************************************************)
(* watchdog: a switched participant asks how the round ended.              *)
(***************************************************************************)
WatchdogStatus(n) ==
    /\ up[n] /\ ~Coordinating(n)
    /\ part[n].phase = "switched"
    /\ replies' = [replies EXCEPT ![n] = Answers({})]
    /\ Send(Status(n))
    /\ UNCHANGED <<up, eng, disk, ns, part, pc, co, members, waiting, round, left, crashes,
                   delGen, putGen>>

OnStatus(n) ==
    /\ \E m \in Inbox(n, "status") :
          /\ Handles(n, m)
          /\ Send(Outcome(n))
    /\ UNCHANGED <<up, eng, disk, ns, part, pc, co, replies, waiting, round, left, crashes,
                   delGen, putGen>>

(***************************************************************************)
(* Every member known to n has answered that it is in doubt about the      *)
(* generation n is on.                                                     *)
(***************************************************************************)
AllBehind(n, got, known) ==
    known # {} /\ \A id \in known : \E r \in got : r.from = id /\ ~r.idle /\ r.gen < eng[n].gen
SomeInDoubt(n, got, known) ==
    \E id \in known : \E r \in got : r.from = id /\ ~r.idle /\ r.gen = eng[n].gen
AllInDoubt(n, got, known) ==
    /\ known # {}
    /\ \A id \in known : \E r \in got : r.from = id /\ ~r.idle /\ r.gen = eng[n].gen

Recorded(n, m) ==
    IF replies[n].asked
    THEN Answers({r \in replies[n].got : r.from # m.from} \cup {m})
    ELSE replies[n]

PeerAhead(n, m) == m.gen > eng[n].gen
PeerCommitted(n, m) == m.gen >= eng[n].gen

OnOutcome(n) ==
    /\ \E m \in Inbox(n, "outcome") :
          /\ Handles(n, m)
          /\ part[n].phase = "switched"
          /\ replies' = [replies EXCEPT ![n] = Recorded(n, m)]
          /\ \/ m.idle /\ PeerCommitted(n, m) /\ Finish(n, TRUE)
             \/ m.idle /\ ~PeerCommitted(n, m) /\ Finish(n, FALSE)
             \/ ~m.idle /\ AllInDoubt(n, replies'[n].got, members'[n]) /\ Finish(n, FALSE)
             \/ /\ ~m.idle /\ ~AllInDoubt(n, replies'[n].got, members'[n])
                /\ UNCHANGED <<eng, disk, ns, part, left>>
    /\ UNCHANGED <<up, pc, co, waiting, msgs, round, crashes, delGen, putGen>>

-----------------------------------------------------------------------------
(* Coordinator: the steps of Compact                                       *)

(***************************************************************************)
(* Without Linger, a new round or a restart finds no control message in    *)
(* flight, and no WaitSeed goroutine that has nothing to wait for.         *)
(***************************************************************************)
InFlight == IF Linger THEN msgs ELSE {}
Pending(n) == IF Linger THEN waiting[n] ELSE {w \in waiting[n] : w.genesis # NoSeed}

(***************************************************************************)
(* Entry: learn the members the registry shows (whatever part of it has    *)
(* replicated here), refuse when busy, claim the partition, close the      *)
(* gate.                                                                   *)
(***************************************************************************)
Compact(n) ==
    /\ up[n] /\ ~Coordinating(n) /\ n \in Coordinators
    /\ round < MaxRounds
    /\ part[n].phase = "none" /\ ~InDoubt(n)
    /\ \E ids \in SUBSET (Node \ {n}) : members' = [members EXCEPT ![n] = @ \cup ids]
    /\ round' = round + 1
    /\ part' = [part EXCEPT ![n] = Prepared(round')]
    /\ eng' = [eng EXCEPT ![n] = Frozen(@)]
    /\ pc' = [pc EXCEPT ![n] = "freeze"]
    /\ co' = [co EXCEPT ![n] = Frame(round', members'[n])]
    /\ msgs' = InFlight
    /\ waiting' = [k \in Node |-> Pending(k)]
    /\ UNCHANGED <<up, disk, ns, replies, left, crashes, delGen, putGen>>

(***************************************************************************)
(* The deferred function on error: give the partition up, tell the others, *)
(* roll back what was activated (a step of its own), thaw.                 *)
(***************************************************************************)
GiveUp(n) ==
    /\ part' = [part EXCEPT ![n] = NoPart]
    /\ msgs' = WithoutWaiter(n) \cup {Decision(n, "abort")}
    /\ co' = [co EXCEPT ![n] = NoFrame]
    /\ \/ /\ InDoubt(n)
          /\ pc' = [pc EXCEPT ![n] = "rollback"]
          /\ UNCHANGED eng
       \/ /\ ~InDoubt(n)
          /\ pc' = [pc EXCEPT ![n] = "idle"]
          /\ eng' = [eng EXCEPT ![n] = Unfrozen(@)]

Running(n, at) == up[n] /\ pc[n] = at

(***************************************************************************)
(* Freeze returns: the writes in flight drained, or they did not.          *)
(***************************************************************************)
Freeze(n) ==
    /\ Running(n, "freeze")
    /\ \/ /\ pc' = [pc EXCEPT ![n] = "prepare"]
          /\ co' = [co EXCEPT ![n] = WithUnion(@, Data(n))]
          /\ UNCHANGED <<eng, part, msgs>>
       \/ GiveUp(n)
    /\ UNCHANGED <<up, disk, ns, members, replies, waiting, round, left, crashes, delGen, putGen>>

SendPrepare(n) ==
    /\ Running(n, "prepare")
    /\ Send(PrepareMsg(n))
    /\ pc' = [pc EXCEPT ![n] = "collect"]
    /\ UNCHANGED <<up, eng, disk, ns, part, co, members, replies, waiting, round, left,
                   crashes, delGen, putGen>>

Replies(n, type) == {m \in msgs : m.t = type /\ m.round = co[n].round /\ m.from \in co[n].members}

Union(n, got) == co[n].union \cup Data(n) \cup UNION {r.heads : r \in got}

(***************************************************************************)
(* Every member has answered, nobody lacks a block of the union, and it    *)
(* did not grow.                                                           *)
(***************************************************************************)
AgreedButSelf(n, got) ==
    /\ {r.from : r \in got} = co[n].members /\ \A r \in got : r.missing = {}
    /\ Union(n, got) = co[n].union
AgreedByAny(n, got) ==
    /\ \A r \in got : r.missing = {}
    /\ Union(n, got) = co[n].union
    /\ Union(n, got) \subseteq Data(n)
Agreed(n, got) ==
    /\ {r.from : r \in got} = co[n].members
    /\ \A r \in got : r.missing = {}
    /\ Union(n, got) = co[n].union
    /\ Union(n, got) \subseteq Data(n)

(***************************************************************************)
(* One evaluation of the prepare loop.  got is what collect gathered: at   *)
(* most one reply per member, any of those sent for this round; a reply    *)
(* counts for one evaluation.                                              *)
(***************************************************************************)
EvalPrepare(n) ==
    /\ Running(n, "collect")
    /\ \E got \in SUBSET Replies(n, "prepared") :
          /\ \A r, q \in got : r.from = q.from => r = q
          /\ \/ \* a member refused
                /\ \E r \in got : ~r.ok
                /\ GiveUp(n)
             \/ \* a stable round; the second one in a row is the cut
                /\ \A r \in got : r.ok
                /\ Agreed(n, got)
                /\ pc' = [pc EXCEPT ![n] = IF co[n].stable = 1 THEN "stage" ELSE "prepare"]
                /\ co' = [co EXCEPT ![n] = Stabler(@)]
                /\ msgs' = msgs \ got
                /\ UNCHANGED <<eng, part>>
             \/ \* poll again
                /\ \A r \in got : r.ok
                /\ ~Agreed(n, got)
                /\ pc' = [pc EXCEPT ![n] = "prepare"]
                /\ co' = [co EXCEPT ![n] = WithUnion(Frame(@.round, @.members), Union(n, got))]
                /\ msgs' = msgs \ got
                /\ UNCHANGED <<eng, part>>
    /\ UNCHANGED <<up, disk, ns, members, replies, waiting, round, left, crashes, delGen, putGen>>

PrepareDeadline(n) ==
    /\ Running(n, "collect")
    /\ GiveUp(n)
    /\ UNCHANGED <<up, disk, ns, members, replies, waiting, round, left, crashes, delGen, putGen>>

(***************************************************************************)
(* Stage opens the next namespace, with whatever an earlier attempt left   *)
(* in it, and commits the live state of the current one as its seed.  The  *)
(* genesis is the head of that namespace: when there was nothing to seed,  *)
(* a head left there, if any.                                              *)
(***************************************************************************)
Heads(n, g, seed) ==
    IF seed = NoSeed /\ ns[n][g] \cap Genesis # {} THEN ns[n][g] \cap Genesis ELSE {seed}

Stage(n) ==
    /\ Running(n, "stage") /\ eng[n].gen < MaxGen
    /\ LET seed == Seed(Live(Data(n)))
       IN /\ ns' = [ns EXCEPT ![n][eng[n].gen + 1] = @ \cup ({seed} \ {NoSeed})]
          /\ \E genesis \in Heads(n, eng[n].gen + 1, seed) :
                co' = [co EXCEPT ![n] = WithGenesis(@, genesis)]
    /\ pc' = [pc EXCEPT ![n] = "activate"]
    /\ UNCHANGED <<up, eng, disk, part, members, replies, waiting, msgs, round, left, crashes,
                   delGen, putGen>>

Activate(n) ==
    /\ Running(n, "activate")
    /\ eng' = [eng EXCEPT ![n] = Activated(@)]
    /\ disk' = [disk EXCEPT ![n] = Persisted(Activated(eng[n]))]
    /\ pc' = [pc EXCEPT ![n] = "switch"]
    /\ UNCHANGED <<up, ns, part, co, members, replies, waiting, msgs, round, left, crashes,
                   delGen, putGen>>

(***************************************************************************)
(* The error returns of the two: nothing is staged, or Rollback takes the  *)
(* activation back at once.                                                *)
(***************************************************************************)
StageFails(n) ==
    /\ DiskFails /\ Running(n, "stage")
    /\ GiveUp(n)
    /\ UNCHANGED <<up, disk, ns, members, replies, waiting, round, left, crashes, delGen, putGen>>

ActivateFails(n) ==
    /\ Running(n, "activate")
    /\ GiveUp(n)
    /\ Unsaved(n, Activated(eng[n]))
    /\ ns' = [ns EXCEPT ![n][eng[n].gen + 1] = {}]
    /\ UNCHANGED <<up, members, replies, waiting, round, left, crashes, delGen, putGen>>

SendSwitch(n) ==
    /\ Running(n, "switch")
    /\ Send(SwitchMsg(n))
    /\ pc' = [pc EXCEPT ![n] = "ready"]
    /\ UNCHANGED <<up, eng, disk, ns, part, co, members, replies, waiting, round, left,
                   crashes, delGen, putGen>>

(***************************************************************************)
(* One evaluation of the switch loop; the ready answers accumulate.        *)
(***************************************************************************)
EvalReady(n) ==
    /\ Running(n, "ready")
    /\ \/ \* a member failed to switch
          /\ \E r \in Replies(n, "ready") : ~r.ok
          /\ GiveUp(n)
       \/ \E got \in SUBSET {r.from : r \in {q \in Replies(n, "ready") : q.ok}} :
             LET ready == co[n].ready \cup got
             IN \/ /\ ready = co[n].members
                   /\ pc' = [pc EXCEPT ![n] = "done"]
                   /\ UNCHANGED <<co, eng, part, msgs>>
                \/ /\ ready # co[n].members
                   /\ pc' = [pc EXCEPT ![n] = "switch"]
                   /\ co' = [co EXCEPT ![n] = WithReady(@, ready)]
                   /\ UNCHANGED <<eng, part, msgs>>
    /\ UNCHANGED <<up, disk, ns, members, replies, waiting, round, left, crashes, delGen, putGen>>

LateDeadline(n) ==
    /\ Running(n, "commit")
    /\ GiveUp(n)
    /\ UNCHANGED <<up, disk, ns, members, replies, waiting, round, left, crashes, delGen, putGen>>

SwitchDeadline(n) ==
    /\ Running(n, "ready")
    /\ co[n].members # {}
    /\ GiveUp(n)
    /\ UNCHANGED <<up, disk, ns, members, replies, waiting, round, left, crashes, delGen, putGen>>

SendDone(n) ==
    /\ Running(n, "done")
    /\ Send(Decision(n, "done"))
    /\ pc' = [pc EXCEPT ![n] = "commit"]
    /\ UNCHANGED <<up, eng, disk, ns, part, co, members, replies, waiting, round, left,
                   crashes, delGen, putGen>>

(***************************************************************************)
(* The last line of Compact, and its deferred cleanup.                     *)
(***************************************************************************)
CommitRound(n) ==
    /\ Running(n, "commit")
    /\ Commit(n) /\ Saved(n, Committed(eng[n]))
    /\ part' = [part EXCEPT ![n] = NoPart]
    /\ pc' = [pc EXCEPT ![n] = "idle"]
    /\ co' = [co EXCEPT ![n] = NoFrame]
    /\ msgs' = WithoutWaiter(n)
    /\ UNCHANGED <<up, members, replies, waiting, round, left, crashes, delGen, putGen>>

(***************************************************************************)
(* Commit returns the error of persistGen: the previous generation is gone *)
(* from memory and its namespace purged, and the deferred function aborts. *)
(***************************************************************************)
CommitFails(n) ==
    /\ Running(n, "commit")
    /\ Commit(n) /\ Unsaved(n, Committed(eng[n]))
    /\ part' = [part EXCEPT ![n] = NoPart]
    /\ pc' = [pc EXCEPT ![n] = "idle"]
    /\ co' = [co EXCEPT ![n] = NoFrame]
    /\ msgs' = WithoutWaiter(n) \cup {Decision(n, "abort")}
    /\ UNCHANGED <<up, members, replies, waiting, round, left, crashes, delGen, putGen>>

RollbackRound(n) ==
    /\ Running(n, "rollback")
    /\ Rollback(n)
    /\ pc' = [pc EXCEPT ![n] = "idle"]
    /\ co' = [co EXCEPT ![n] = NoFrame]
    /\ UNCHANGED <<up, part, members, replies, waiting, msgs, round, left, crashes, delGen, putGen>>

-----------------------------------------------------------------------------
(* Crash and restart                                                       *)

Dies(n) ==
    /\ up[n] /\ n \in Mortal /\ crashes < MaxCrashes
    /\ crashes' = crashes + 1
    /\ up' = [up EXCEPT ![n] = FALSE]
    /\ part' = [part EXCEPT ![n] = NoPart]
    /\ pc' = [pc EXCEPT ![n] = "idle"]
    /\ co' = [co EXCEPT ![n] = NoFrame]
    /\ replies' = [replies EXCEPT ![n] = NoReplies]
    /\ waiting' = [waiting EXCEPT ![n] = {}]
    /\ msgs' = WithoutWaiter(n)
    /\ UNCHANGED <<eng, ns, members, round, left, delGen, putGen>>

Crash(n) == Dies(n) /\ UNCHANGED disk

(***************************************************************************)
(* A crash between the two writes of persistGen.                           *)
(***************************************************************************)
CrashInActivate(n) ==
    /\ "activate" \in Torn /\ Dies(n)
    /\ \/ pc[n] = "activate"
       \/ /\ ~Coordinating(n) /\ part[n].phase = "prepared"
          /\ eng[n].gen < MaxGen
          /\ \E m \in msgs : m.t = "switch" /\ m.round = part[n].round
    /\ TornWrite(n, Activated(eng[n]))

CrashInRollback(n) ==
    /\ "rollback" \in Torn /\ Dies(n)
    /\ \/ pc[n] = "rollback"
       \/ /\ ~Coordinating(n) /\ part[n].phase = "switched"
          /\ \E m \in msgs :
                \/ m.t = "abort" /\ m.round = part[n].round
                \/ m.t = "outcome" /\ m.idle /\ m.gen < eng[n].gen
                \/ m.t = "outcome" /\ ~m.idle /\ AllInDoubt(n, Recorded(n, m).got, members[n])
    /\ TornWrite(n, RolledBack(eng[n]))

(***************************************************************************)
(* restoreGen and Start: a partition with a previous generation on disk    *)
(* comes back frozen and in doubt.  main registers the replica before it   *)
(* starts the rotation node, and exits when that write is refused.         *)
(***************************************************************************)
NotResumed(d) == NoPart
Resumed(d) == IF d.prev = NoGen THEN NoPart ELSE Switched(NoRound, NoSeed)

Restart(n) ==
    /\ ~up[n]
    /\ RegistryHere => disk[n].prev = NoGen
    /\ up' = [up EXCEPT ![n] = TRUE]
    /\ eng' = [eng EXCEPT ![n] = Restored(disk[n])]
    /\ part' = [part EXCEPT ![n] = Resumed(disk[n])]
    /\ msgs' = InFlight
    /\ UNCHANGED <<disk, ns, pc, co, members, replies, waiting, round, left, crashes, delGen,
                   putGen>>

-----------------------------------------------------------------------------
Client(n) == \E i \in Id : PutKey(n, i) \/ DeleteKey(n, i)

Peer(n) == \E m \in Node : Replicate(m, n) \/ Hello(m, n)

Handler(n) ==
    \/ OnPrepare(n) \/ OnSwitch(n) \/ OnDone(n) \/ OnAbort(n) \/ OnStatus(n) \/ OnOutcome(n)
    \/ SwitchFails(n) \/ SeedArrived(n) \/ SeedTimeout(n)

Watchdog(n) == WatchdogIdle(n) \/ WatchdogStatus(n)

Coordinator(n) ==
    \/ Freeze(n) \/ SendPrepare(n) \/ EvalPrepare(n) \/ PrepareDeadline(n)
    \/ Stage(n) \/ StageFails(n) \/ Activate(n) \/ ActivateFails(n)
    \/ SendSwitch(n) \/ EvalReady(n) \/ SwitchDeadline(n)
    \/ SendDone(n) \/ CommitRound(n) \/ CommitFails(n) \/ RollbackRound(n)

Fault(n) == Crash(n) \/ CrashInActivate(n) \/ CrashInRollback(n) \/ Restart(n)

Next ==
    \E n \in Node : \/ Client(n) \/ Peer(n) \/ Handler(n) \/ Watchdog(n)
                    \/ Compact(n) \/ Coordinator(n) \/ Fault(n)

Spec == Init /\ [][Next]_vars

Resolves(n) == OnOutcome(n) /\ part'[n] = NoPart

(***************************************************************************)
(* Compact runs to its end: every step is local and its two loops have a   *)
(* deadline.  The ticker keeps calling watchdog, a peer that hears status  *)
(* again and again answers, and an answer that would settle the doubt and  *)
(* is sent again and again is heard.  A crashed process is restarted.      *)
(* Nothing is assumed of prepare, switch, done and abort: all may be lost. *)
(***************************************************************************)
Fairness ==
    \A n \in Node :
        /\ WF_vars(Coordinator(n))
        /\ SF_vars(PrepareDeadline(n)) /\ SF_vars(SwitchDeadline(n))
        /\ WF_vars(WatchdogIdle(n)) /\ WF_vars(WatchdogStatus(n))
        /\ WF_vars(OnStatus(n))
        /\ SF_vars(Resolves(n))
        /\ WF_vars(Restart(n))

FairSpec == Spec /\ Fairness

-----------------------------------------------------------------------------
MaybeGen == Gens \cup {NoGen}
Phases == {"none", "prepared", "switched"}
Activating == {"switch", "ready", "done", "commit", "rollback"}
PCs == {"idle", "freeze", "prepare", "collect", "stage", "activate"} \cup Activating

Engine == [gen : Gens, prev : MaybeGen, frozen : BOOLEAN, noreads : BOOLEAN]
OnDisk == [gen : Gens, prev : MaybeGen]
Participant == [phase : Phases, round : Nat, genesis : Genesis]
Locals == [round : Nat, union : SUBSET Blocks, stable : Nat, ready : SUBSET Node,
           genesis : Genesis, members : SUBSET Node]

Message ==
         [t : {"prepare"}, from : Node, round : Nat, union : SUBSET Blocks]
    \cup [t : {"prepared"}, from : Node, round : Nat, ok : BOOLEAN,
          heads : SUBSET Blocks, missing : SUBSET Blocks]
    \cup [t : {"switch"}, from : Node, round : Nat, genesis : Genesis]
    \cup [t : {"ready"}, from : Node, round : Nat, ok : BOOLEAN]
    \cup [t : {"done", "abort"}, from : Node, round : Nat]
    \cup [t : {"status"}, from : Node]
    \cup [t : {"outcome"}, from : Node, gen : Gens, idle : BOOLEAN]

TypeOK ==
    /\ up \in [Node -> BOOLEAN]
    /\ eng \in [Node -> Engine]
    /\ disk \in [Node -> OnDisk]
    /\ ns \in [Node -> [Gens -> SUBSET Blocks]]
    /\ part \in [Node -> Participant]
    /\ pc \in [Node -> PCs]
    /\ co \in [Node -> Locals]
    /\ members \in [Node -> SUBSET Node]
    /\ replies \in [Node -> [asked : BOOLEAN, got : SUBSET Message]]
    /\ waiting \in [Node -> SUBSET [round : Nat, genesis : Genesis]]
    /\ msgs \subseteq Message
    /\ round \in Nat
    /\ left \in [Node -> SUBSET Nat]
    /\ crashes \in Nat
    /\ putGen \in [Id -> MaybeGen]
    /\ delGen \in [Id -> MaybeGen]

Settled(n) == up[n] /\ part[n].phase = "none" /\ ~Coordinating(n) /\ ~InDoubt(n)

\* GenAgreement: any two replicas that are up and take part in no round are on the
\* same generation: a round ends the same way everywhere (done/abort, onOutcome).
\* With one coordinator and one participant TLC needs nothing else.  From three
\* replicas on it takes OutcomesHeard (RotationInvariants): an answer about an
\* earlier round settles the next one otherwise.
GenAgreement == \A m, n \in Node : Settled(m) /\ Settled(n) => eng[m].gen = eng[n].gen

\* NoLostWrite: a replica settled on a generation shows every undeleted key whose
\* write was acknowledged, by any replica, in an earlier one: the cut of Compact's
\* first phase and the seed of Stage lose nothing.
NoLostWrite ==
    \A n \in Node, i \in Id :
        Settled(n) /\ putGen[i] \in 0 .. eng[n].gen - 1 /\ delGen[i] = NoGen
            => i \in Live(Data(n))

\* NoResurrection: a key deleted in an earlier generation, by any replica, is not
\* brought back by the seed or by what an earlier attempt left in the namespace.
NoResurrection ==
    \A n \in Node, i \in Id :
        Settled(n) /\ delGen[i] \in 0 .. eng[n].gen - 1 => i \notin Live(Data(n))

Unbroken(n) ==
    up[n] /\ InDoubt(n) /\ ~eng[n].noreads
        => \A i \in Live(ns[n][eng[n].prev]) : i \in Live(Data(n)) \/ Del(i) \in Data(n)

\* ReadsUnbroken: a replica that has activated a generation and answers reads from
\* it (waitReadable lets them through) shows every key its previous generation
\* showed, unless it was deleted since: the switch hides nothing from a reader.
ReadsUnbroken == \A n \in Node : Unbroken(n)

\* ReadsUnbrokenInRound: the same, for the replicas of a round whose Compact is
\* running and has not given up.
ReadsUnbrokenInRound ==
    \A n, k \in Node :
        co[k].round # NoRound /\ co[k].round = part[n].round => Unbroken(n)

\* SeedUndoesNoDelete: NoResurrection as long as no process has crashed; a crash of
\* the coordinator after Stage leaves a seed behind that the next round reopens.
SeedUndoesNoDelete == crashes = 0 => NoResurrection

\* SwitchHidesNothing: ReadsUnbrokenInRound as long as no process has crashed; a
\* restart before the seed reopens the reads that onSwitch had closed.
SwitchHidesNothing == crashes = 0 => ReadsUnbrokenInRound

\* FrozenOwned: a running replica refuses writes exactly while a round of its own,
\* or one it takes part in, is there to thaw it again: no path through the handlers
\* leaves the gate closed for nobody, or open under a round.
FrozenOwned ==
    \A n \in Node : up[n] => (eng[n].frozen <=> part[n].phase # "none" \/ Coordinating(n))

\* DoubtOwned: a running replica is on a generation that is not committed exactly
\* while it has the participant state that makes watchdog ask for the outcome, or
\* a Compact past Activate that will settle it: no doubt is forgotten.
DoubtOwned ==
    \A n \in Node :
        up[n] => (InDoubt(n) <=> part[n].phase = "switched" \/ pc[n] \in Activating)

\* OneOutcome: a round is never announced both done and aborted, whatever crashes
\* and however its Compact ends.
OneOutcome ==
    \A m, k \in msgs : m.t = "done" /\ k.t = "abort" => m.round # k.round

StaysFrozen ==
    \A n \in Node :
        /\ ~up[n] /\ up'[n]
        /\ eng[n].prev # NoGen \/ disk[n].gen # eng[n].gen
        => eng'[n].frozen

\* RestartStaysFrozen: a process that died after its replica activated a generation
\* and before the round was settled comes back refusing writes (restoreGen).
RestartStaysFrozen == [][StaysFrozen]_vars

\* Thaws: no replica is frozen, or down, for ever: a prepared one times out, an
\* undecided one learns the outcome from its peers (watchdog, onOutcome).
Thaws == \A n \in Node : []<>(up[n] /\ ~eng[n].frozen)
=============================================================================
