# redgeo in TLA+

Specifications of redgeo, a Redis-compatible server whose replicas all accept
writes and converge through go-ds-crdt. Paths are relative to the repository
(`src/`). The specifications follow the code; where a comment or DESIGN.md says
something else, the difference is recorded as a finding.

## The system

| part | module | hard behaviour |
|---|---|---|
| rotation (`rotation/rotation.go`), generations (`engine/rotation.go`) | `Rotation` | lost, late and repeated messages; crashes; rival coordinators; timeouts; torn disk writes |
| gate and engine (`engine/gate.go`, `engine/engine.go`) | `Gate`, implementing `AtomicStore` | writes, batches and reads racing a swap of datastores |
| clock and slots (`hlc`, `crdtstore/slot.go`) | `Registers`, `Slots` | skew, clocks set back, restart, merge order |
| go-ds-crdt under `crdtstore/store.go`, `txn.go` | `Datastore` | add-wins merge of blocks in any order |
| meta, TTL, existence (`meta.go`, `probe.go`, `keys.go`) | `Keyspace` | a type and an expiry that replicate apart from the data |
| sets, hashes, sorted sets | `Collections` | two replicas changing one key; commands that read before they lock |
| strings, counters, HyperLogLog, bitmaps | `Strings`, `BitStrings` | per-replica components; flavours; ranges |
| lists, streams and groups, sketches, JSON | `Lists`, `Streams`, `Sketches`, `Documents` | positions, IDs, pending entries, merge algebra, partial documents |
| DEL, EXPIRE, RENAME, sweeper (`rkey.go`, `keyops.go`, `expire.go`) | `KeyCommands` | deleting and copying every type part by part |
| a node seen by its clients | `Node`, implementing `Redis` | every command against its Redis meaning |
| connections, transactions, SCAN, pub/sub (`server`, `txn.go`, `scan.go`) | `Server` | commit refused after the replies; stale cursors; the bus echo |
| sharded key locks (`locks.go`) | `Locks` | lock order against shared mutexes |

A command goes through a transaction overlay to the engine, which routes the key
to a partition; the partition's gate admits it; go-ds-crdt replicates the block;
rotation replaces the partition's history, on all replicas at once, by a snapshot.
Rotation is the one part in which replicas must *agree*: everything else merges.

## Modules

**Rotation** models one partition on every replica. `eng[n]` is the partition in
memory (generation, previous one, gate), `disk[n]` the two keys of `persistGen`,
`ns[n][g]` the blocks in a generation's namespace, `part[n]` the entry of `n.parts`,
`pc[n]`/`co[n]` the position and locals of a running `Compact`. Handlers run under
`pmu` and are one action each. `Compact` holds `pmu` throughout but is cut at its
sends and disk writes, so that crashes and other nodes come in between. `msgs` is
the set of messages sent: any may be received at any time, repeatedly, or never.
A block is a put, a delete or a seed. `Finish`, `Commit`, `Rollback` include the
`persistGen` and `Unfreeze` that follow them. `putGen`, `delGen`, `left` are history
variables: when a key was acknowledged and deleted, which rounds a replica has left.
Without `Linger` messages do not outlive their round: a new round or a restart
finds none in flight, and `left` keeps a finished round's `prepare` from being seen
again. This assumption is about gossip delay against a human-scale interval between
compactions; the code itself does not enforce it (see *Instances outside the runs*).

**Gate** models one partition on one node at the grain of its mutexes: a single write
is admit, apply, end; a batch is pass, open, admit, compare, apply, end; a read is
pass, then read. `Participant` says whether the new generation is seeded here
(`Compact`, `RotatePartition`) or arrives (`onSwitch`). **AtomicStore** is what it
promises: a set to which each write is added once, atomically, and from which nothing
is taken. The refinement mapping takes the datastore that would survive a rollback.

**Registers** holds the clock's `Now` and the choice between slots; **Slots** is one
register over it: a slot per replica stamped by that replica's clock. Wall clocks are
independent, and are set back freely under a running process. The logical counter
keeps its modulus.

**Datastore** is the replicated key-value store. `log[r]` is the blocks replica `r`
wrote, `seen[r]` those it has merged, `kv[r]` what they amount to (`Content`: an element
is live until a block that had seen it deletes it; of several live elements of a key the
one of the highest priority, then the larger value, shows). A ds.Key is a tuple. A read
is an operator over `Data(r)`; a command yields the sequence of its writes, and `Do`
carries them out in one step, since it holds its key's lock and other replicas see
blocks and not commands: each write is a block of its own that is merged on its own.
Commands that read before they lock are two actions, `Ask` and `Answer`, through `pend`.
`Keyspace`, `Collections`, `BitStrings`, `Strings`, `Lists`, `Streams`, `Sketches`,
`Documents` and `KeyCommands` are the repositories of `crdtstore`, one operator per
function and mostly under its name. What is hashed there is a constant here (`Disc`,
`Positions`, `Cell`); floats are integers; a text is a value.

**Store** composes them for two replicas that write the same keys and merge in any
order. A behaviour has one workload (`work`), the commands that share a type; `hist`
is what the clients were told.

**Node** runs the commands of every type on one replica, with all the interleavings of
those that take two steps. **Redis** is the abstract specification: a database of plain
values and the effect of each command on it, written without slots, components,
positions or meta. The refinement mapping `View` reads each key as the read commands
do. The code is no Redis in a few places, and there the refinement does not go: RENAME
to a key in use merges into it, HDEL leaves a counter field, a command on an expired
collection brings its members back, SADD and its kin drop a TTL.

**Server** adds what surrounds the commands: connections and transactions (overlay,
one batch per partition, partitions committed one by one against rotations), the
cursor table with SCAN cut at every lookup, publish/subscribe. It extends **Locks**:
each connection's wanted keys and held mutexes, `Shard` the hash.

**MCRotation, MCGate, MCSlots, MCStore, MCServer** give constants their values.
**RotationInvariants** names the invariants of `Rotation`; **RotationProofs** (control
state, disk, what is announced), **AgreeProofs** (the steps of participants and clients)
and **LeadProofs** (the steps of `Compact`) prove them. **GateProofs, SlotsProofs,
LocksProofs** and **Maxima** (least and largest elements) hold the other proofs.
Operators placed just before a definition and named for a deviation (`AgreedButSelf`,
`NowUnbumped`, ...) are faulty variants of it, used to confirm that a property notices
the fault.

## Runs

| run | instance | shows |
|---|---|---|
| RotationData | 2 replicas, 2 rounds, one key, 2 crashes anywhere | rounds end alike, no write is lost, a restart in doubt is frozen; until a first crash the cut resurrects nothing and readers see no gap |
| RotationAgree | 3 replicas, one back from a crash and in doubt about an earlier round, 1 round | rounds end alike among three, if late answers are heard before the cut |
| RotationLive | 2 rival coordinators, 1 crash, fairness | nobody is frozen for ever; one outcome per round |
| RotationHostile | rivals, 2 crashes, torn and failing disk writes | frozen and in doubt always have an owner |
| GateLocal | 2 writes, 2 batches, 1 read, 2 rotations | the fence; refinement of AtomicStore; reads lose nothing |
| GateMember | the same on a participant, whose seed arrives after the switch | refinement of AtomicStore (the fence is proved for both kinds) |
| SlotsLww | 2 replicas, 3 readings of the clock, 3 writes, 1 restart | last writer wins, reads and slots do not go back |
| Store | 2 replicas, 2 keys, 11 workloads of 3 to 5 commands | see below |
| Server | 1 node (2 for SCAN and pub/sub), 3 clients, 2 databases, 2 partitions, 13 workloads | see below |

**Store**, with the replicas' blocks delivered in any order: counters and hash counters
add up to the acknowledged increments (`CountersExact`); HyperLogLogs join to the sketch
of all additions though PFADD writes only what is new (`SketchOfAll`); bits in chunks one
replica alone writes keep their last value (`ChunksMerge`); BITCOUNT and BITPOS agree with
a bit-by-bit reading on all strings of up to three bytes (`BitsOfRange`); a moved element
is never lost (`MovesConserve`); no false negative in a Bloom filter (`NoFalseNegative`);
count-min cells are exact under a merge racing increments (`CellsExact`); the bounds of
Space-Saving (`SpaceSaving`); list inserts land where they were aimed (`InsertsLand`);
stream IDs grow and do not collide (`StreamIDsGrow`); a node hands out an entry once
(`DeliveredOnce`) and an unsettled entry stays pending (`UnackedPending`); RENAME keeps
what a key of any type shows, a hash with a field that several replicas have written
excepted (`RenameKeeps`); DEL and the sweeper leave nothing (`RemovedClean`).

**Server**: the node implements `Redis` (`IsRedis`): effects of the commands that are
carried out, and of the replies those of the reads that SDIFFSTORE, ZUNIONSTORE and their
kin begin with; reads of a part agree with reads of the whole (`PartsMakeWhole`, without
HMGET, which does not look at counter fields, and ZREVRANGE by rank, which selects before
it reverses, `rzset.go:527`); a transaction leaves its keys as its commands one by one
would, whatever partitions they are in (`ExecSequential`); SCAN and SSCAN return all that
stays, against writes, merges and expiring cursors (`ScanComplete`); two-key commands do
not deadlock when keys have mutexes of their own (`NoWaitCycle`); a subscriber hears a
message once (`HeardOnce`).

Findings (the run stops at a counterexample):

| run | property | what happens |
|---|---|---|
| RotationResurrect | NoResurrection | `Stage` reopens a namespace in which a crashed attempt left its seed; a key deleted since returns |
| ServerTryAgain | IncrementsKept | a partition rotates between a transaction's write and its commit; the replies are out, the TRYAGAIN is dropped (`server/handlers.go:165`, `:112`), the increments are gone |
| ServerLocks | NoWaitCycle | locks are ordered by key, mutexes are shared by hash: a RENAME or SMOVE waits for itself, or two for each other |

### Instances outside the runs

Further configurations reproduce what the hazards of PROJECT.json describe. They stop at
a counterexample:

| configuration | property | what happens |
|---|---|---|
| RotationRivals | GenAgreement | `onStatus` answers `indoubt` for a replica merely prepared for another round, and the asker rolls back what was committed |
| RotationPurge | NoLostWrite | `persistGen` cut in two in `Rollback` leaves a generation its own predecessor; settling it purges the live namespace |
| RotationDelayed | GenAgreement | messages of a finished round seen late |
| RotationStale | GenAgreement | an `idle` answered to a replica in doubt about an aborted round is handled after that replica has switched, and said ready, in the next one: it rolls back what is then committed |
| RotationReads | ReadsUnbroken | a restart before the seed |
| RotationRegistry | Thaws | `RegisterSelf` before the rotation node |
| RotationCommitFails | OneOutcome | the error of `Commit` after `done` |
| GateReads | ReadsKeep | a read passes the gate before `Activate` and takes the unseeded datastore after it |
| SlotsStepBack | SlotsGrow | a restart over a clock set back |
| SlotsOwnWrite | OwnWriteWins | `Observe` is never called: a lagging replica's write loses at once |
| StoreRename | RenameKeepsShared | `copyHashData` copies every replica's present slot of a field, not the winner (its comment: "copies a hash's live data", `rhash.go:131`): an overwritten or deleted value shows under the new name |
| ServerLostUpdate | IncrementsKept | a plain INCR of a key that a transaction has staged is overwritten by the commit |
| ServerSameKey | NoWaitCycle | `SMOVE k k` locks its mutex twice |

### Bounds

Two replicas are a coordinator and a participant, and are all that `RotationData`
says anything about; the third, in `RotationAgree`, is a peer whose answer differs from
the coordinator's. That run starts where an earlier round has left its traces (`InitInDoubt`:
one replica restarted in doubt, the others back on the old generation) instead of running
that round, and takes the same `OutcomesHeard` as the proof: without it three replicas
disagree, as `RotationStale` shows. Two rounds let a round meet the remains of another; a generation
bound above the number of rounds keeps `MaxGen` from cutting a round short. One key,
put and deleted once, shows a lost or resurrected write, because keys do not
interact. Two crashes allow a crash during recovery. Two datastores beyond the first
allow a batch opened two generations ago. Three readings of the clock allow equal,
ahead and behind.

In `Store` and `Server`, `Budget` bounds the commands of a workload: three are enough
for write, concurrent write and overwrite (or fill, expire, sweep); count-min needs two
reservations besides, groups an entry, a group, two deliveries and a claim, streams on a
node five. Two replicas suffice because components and slots are merged pairwise. Two
keys are a source and a destination; the server's four are two names in two databases
and fall into two partitions. Chunks hold one byte of two bits (`ByteBits`), so that
every string of three bytes can be enumerated; Bloom layers hold one and two items, so
that a second layer is opened; `MaxCell` lets a cell overflow; a top-k has two slots for
three items; `Unit` leaves two insertions between neighbours, and the third finds no
room. `CursorTTL` of one lets a cursor expire between two pages. Deadlock is not checked:
the bounded instances end.

### Fairness

`Fairness` assumes what the process itself provides: `Compact` runs to its end (its
loops have deadlines), the ticker keeps calling `watchdog`, a status sent for ever is
answered, an answer that would settle a doubt and is offered again and again is
heard (gossip repeated every heartbeat), and a crashed process is restarted. Nothing
is assumed of `prepare`, `switch`, `done` and `abort`. `WatchdogIdle` fires only when
the round's `Compact` has ended: the idle timeout (3 minutes in `defaults`, although
the field's comment says 90 s) exceeds the coordinator's two deadlines together.

## Proofs

All proofs hold for any bounds and, except where said, any finite or infinite set of
replicas, from the named assumptions on the constants.

- `TypeCorrect`, `FrozenOwnedAlways`, `DoubtOwnedAlways`: for every `Torn`, `Linger`,
  `DiskFails`. The two ownership invariants are proved together with the shape of a
  running `Compact` (which `pc` go with which participant phase); the argument is
  per replica, as an action changes the state of one replica only.
- `RestartStaysFrozenSound`: if no write of `persistGen` fails or is cut, memory and
  disk agree (`Synced`), hence the restarted gate is closed.
- `OneOutcomeAlways`: if the disk does not fail. The invariant adds that a round has
  one coordinator, that `done` was sent only by a `Compact` at its commit or by one
  that is over, and that `abort` ends a `Compact`.
- `GenAgreementAlways`: for any set of replicas, any number of rounds and of crashes of
  participants, whatever is lost, delayed or repeated of `prepare`, `prepared`, `switch`,
  `ready`, `done` and `abort`, for late answers and idle timeouts. `Steady` says what is
  assumed: one coordinator, which does not crash and knows all replicas, a disk that
  does not fail, messages that do not outlive their round. `OutcomesHeard` adds that no
  answer to a status question of an earlier round is under way when a cut is taken;
  `RotationStale` shows that it cannot go. GenAgreement is far from inductive. The
  invariant (`AgreeInv`) places every replica relative to the coordinator's generation
  (`On`, `Ahead`, `Late`, `Past`) at every point of `Compact` (`Placed`), says what can
  have been sent there (`Announced`, `Fresh`), who is still in the round (`Joined`,
  `NoRejoin`), what a settled replica may have told one in doubt (`Outcomes`), and that
  past the cut each member has switched, still can, or is lost to the round
  (`Accounted`). A lost member stays lost (`LostStays`) and is never ready, so the round
  is not committed; hence whoever rolls back alone rolls back to where all go.
- `FencedCutAlways`, `AckedKeptAlways`, `RotationInvisibleAlways`, `ReadsKeepSeeded`:
  the inductive invariant says that `inflight` counts the admitted writes, that the
  gate is closed from freeze to thaw, which datastores exist at each step of the
  rotation, and that a checked batch holds the current datastore. `FencedCut` alone is
  not inductive: it needs the count. Every step then maps to a step of `AtomicStore`
  or to a stutter. `ReadsKeepSeeded` needs `~Participant`; `GateReads` shows why.
- `SlotsGrowAlways`: if no process restarts over a clock set back (`Steady`). The
  invariant says that the versions of a slot are ordered by stamp and that the owner's
  next stamp is above its slot, because its clock remembers it or the wall clock has
  passed it. `WidthAssumption` keeps the counter from wrapping.
- `LastWriterWinsAlways`, `MonotoneReadAlways`: also under `Steady`, for replicas
  numbered up to any `N` (a largest slot exists among finitely many; `Maxima` derives
  it from the well-foundedness of the naturals). The invariant adds that a slot carries
  its replica's name, that every slot was written, and that each write is at most its
  replica's current slot, so that an overwritten slot would not have won.
- `NoWaitCycleUnshared`: for any number of connections and keys, if no two keys share
  a mutex and no command names a key twice (`Unshared`). The invariant says what a
  connection may still want and hold at each stage; of a set of connections that wait
  for each other, the one that waits for the largest key is waited for by nobody's
  larger one, a contradiction. `ServerLocks` and `ServerSameKey` show that neither half
  of `Unshared` can go.

Only model-checked: `Thaws` (liveness is out of the prover's reach), `NoLostWrite`,
`SeedUndoesNoDelete`, `SwitchHidesNothing` (they need, on top of `AgreeInv`, an account of
what every namespace holds at every point of a round), and all properties of `Store` and of `Server` but
`NoWaitCycle`: what a key shows is a fold over blocks, and facts about folds for every
input need induction over data, which the prover does not do.

## Not modelled

- Rotation: `Forget` (an operator's act), `CompactAll` (a loop over `Compact`), a node
  without a transport, a failing reopen in `Rollback`, a `Stage` that fails halfway
  through its batch, a replica that joins with an empty disk.
- go-ds-crdt itself (external): its replication is `Replicate` of `Rotation` and
  `Deliver` of `Datastore`, its set semantics `Content`.
- Encodings: stamps, slots, paths, HyperLogLog wire formats, JSON texts and paths,
  RESP and Lua values. The estimate of PFCOUNT, geohash and float rounding
  (floating-point arithmetic).
- Errors of the datastore inside a command, and a crash between two writes of one.
- Several items in one CMS.INCRBY, several values or arrays in one JSON.ARRAPPEND or
  JSON.ARRINSERT, the options TIME, IDLE and RETRYCOUNT of XCLAIM. The midpoint of two
  list positions without room rounds down; the code's float may round up to the upper one.
- `beginWrite`'s error in a commit (the gate stays closed) is not told apart from
  `ErrGenerationChanged`: both leave the rest of the batch unwritten.
- JSON.STRAPPEND and JSON.MSET; ZREMRANGEBYSCORE as a command of its own; commands that
  are a read and a write of the command layer (APPEND, SETRANGE, GETSET, ...).
- Blocking reads (XREAD BLOCK polls), pattern subscriptions, authentication, metrics,
  INFO, argument parsing: I/O without a state to check.
- `crdtstore/watermark.go` and `crdtstore/compact.go`: `NewWatermark` and `NewCompactor`
  have no caller outside tests.
