--------------------------- MODULE RotationProofs ---------------------------
(***************************************************************************)
(* What holds of Rotation for every set of nodes, every number of rounds   *)
(* and crashes, torn writes and lingering messages included.               *)
(***************************************************************************)
EXTENDS RotationInvariants, TLAPS

(***************************************************************************)
(* What a received message carries.                                        *)
(***************************************************************************)
LEMMA MessageFields ==
    ASSUME NEW m \in Message
    PROVE  /\ m.from \in Node
           /\ m.t = "prepare" => m.round \in Nat /\ m.union \in SUBSET Blocks
           /\ m.t = "prepared" => /\ m.round \in Nat /\ m.ok \in BOOLEAN
                                  /\ m.heads \in SUBSET Blocks /\ m.missing \in SUBSET Blocks
           /\ m.t = "switch" => m.round \in Nat /\ m.genesis \in Genesis
           /\ m.t = "ready" => m.round \in Nat /\ m.ok \in BOOLEAN
           /\ m.t \in {"done", "abort"} => m.round \in Nat
           /\ m.t = "outcome" => m.gen \in Gens /\ m.idle \in BOOLEAN
BY ZenonT(40) DEF Message

LEMMA EngineTypes ==
    ASSUME NEW e \in Engine
    PROVE  /\ e.gen \in Gens /\ e.prev \in MaybeGen
           /\ Unfrozen(e) \in Engine /\ Committed(e) \in Engine
           /\ Frozen(e) \in Engine /\ ReadsOpen(e) \in Engine /\ ReadsClosed(e) \in Engine
           /\ e.gen < MaxGen => Activated(e) \in Engine
           /\ e.prev # NoGen => RolledBack(e) \in Engine /\ e.prev \in Gens
           /\ Persisted(e) \in OnDisk
<1>1. /\ e.gen \in Gens /\ e.prev \in MaybeGen
      /\ Unfrozen(e) \in Engine /\ Committed(e) \in Engine
      /\ e.gen < MaxGen => Activated(e) \in Engine
      /\ e.prev # NoGen => RolledBack(e) \in Engine /\ e.prev \in Gens
      /\ Persisted(e) \in OnDisk
  BY BoundsAssumption
     DEF BoundsAssumption, Unfrozen, Committed, Activated, RolledBack, Persisted, Engine, OnDisk,
         MaybeGen, Gens, NoGen
<1>2. Frozen(e) \in Engine /\ ReadsOpen(e) \in Engine /\ ReadsClosed(e) \in Engine
  BY ZenonT(40) DEF Frozen, ReadsOpen, ReadsClosed, Engine
<1> QED BY <1>1, <1>2, ZenonT(40)

LEMMA FrozenFields ==
    ASSUME NEW e \in Engine
    PROVE  Frozen(e).frozen /\ Frozen(e).prev = e.prev /\ Frozen(e).gen = e.gen
BY ZenonT(40) DEF Frozen, Engine

LEMMA ReadsFields ==
    ASSUME NEW e \in Engine
    PROVE  /\ ReadsOpen(e).frozen = e.frozen /\ ReadsOpen(e).prev = e.prev
           /\ ReadsOpen(e).gen = e.gen
           /\ ReadsClosed(e).frozen = e.frozen /\ ReadsClosed(e).prev = e.prev
BY ZenonT(40) DEF ReadsOpen, ReadsClosed, Engine

LEMMA ActivatedFields ==
    ASSUME NEW e \in Engine
    PROVE  Activated(e).prev # NoGen /\ Activated(e).frozen = e.frozen
BY BoundsAssumption DEF BoundsAssumption, Activated, Engine, Gens, NoGen

LEMMA ThawFields ==
    ASSUME NEW e \in Engine
    PROVE  /\ ~Unfrozen(e).frozen /\ Unfrozen(e).prev = e.prev
           /\ Committed(e).prev = NoGen /\ RolledBack(e).prev = NoGen
BY ZenonT(40) DEF Unfrozen, Committed, RolledBack

LEMMA DiskTypes ==
    ASSUME NEW d \in OnDisk
    PROVE  /\ Restored(d) \in Engine /\ d.gen \in Gens /\ d.prev \in MaybeGen
           /\ Restored(d).prev = d.prev
           /\ Restored(d).frozen = (d.prev # NoGen)
           /\ \A g \in Gens : [gen |-> g, prev |-> d.prev] \in OnDisk
BY ZenonT(40) DEF Restored, Engine, OnDisk

LEMMA TornWriteTypes ==
    ASSUME TypeOK, NEW n \in Node, NEW e, e.gen \in Gens, TornWrite(n, e)
    PROVE  disk' \in [Node -> OnDisk]
<1>1. [gen |-> e.gen, prev |-> disk[n].prev] \in OnDisk
  BY DiskTypes, ZenonT(40) DEF TypeOK
<1> QED BY <1>1, ZenonT(40) DEF TypeOK, TornWrite

LEMMA SaveTypes ==
    ASSUME TypeOK, NEW n \in Node, NEW e, e.gen \in Gens, Persisted(e) \in OnDisk,
           Saved(n, e) \/ Unsaved(n, e)
    PROVE  disk' \in [Node -> OnDisk]
<1>1. CASE Saved(n, e)
  BY <1>1, ZenonT(40) DEF TypeOK, Saved
<1>2. CASE UNCHANGED disk
  BY <1>2, ZenonT(40) DEF TypeOK
<1>3. CASE TornWrite(n, e)
  BY <1>3, TornWriteTypes, ZenonT(40)
<1> QED BY <1>1, <1>2, <1>3, ZenonT(40) DEF Unsaved

LEMMA PartTypes ==
    /\ NoPart \in Participant /\ NoPart.phase = "none"
    /\ NoSeed \in Genesis /\ NoRound \in Nat
    /\ \A r \in Nat : Prepared(r) \in Participant /\ Prepared(r).phase = "prepared"
    /\ \A r \in Nat, g \in Genesis :
          /\ Switched(r, g) \in Participant /\ Switched(r, g).phase = "switched"
          /\ SeedWait(r, g) \in [round : Nat, genesis : Genesis]
BY ZenonT(40)
   DEF NoPart, Prepared, Switched, Participant, Phases, Genesis, NoSeed, NoRound, SeedWait

LEMMA FrameTypes ==
    /\ NoFrame \in Locals
    /\ \A r \in Nat, ms \in SUBSET Node : Frame(r, ms) \in Locals
    /\ \A f \in Locals : /\ Stabler(f) \in Locals
                         /\ \A bs \in SUBSET Blocks : WithUnion(f, bs) \in Locals
                         /\ \A ms \in SUBSET Node : WithReady(f, ms) \in Locals
                         /\ \A g \in Genesis : WithGenesis(f, g) \in Locals
<1>1. NoFrame \in Locals /\ \A r \in Nat, ms \in SUBSET Node : Frame(r, ms) \in Locals
  BY ZenonT(40) DEF Locals, NoFrame, Frame, NoRound, NoSeed, Genesis
<1>2. \A f \in Locals : Stabler(f) \in Locals
  BY DEF Locals, Stabler
<1>3. \A f \in Locals, bs \in SUBSET Blocks : WithUnion(f, bs) \in Locals
  BY ZenonT(40) DEF Locals, WithUnion
<1>4. \A f \in Locals, ms \in SUBSET Node : WithReady(f, ms) \in Locals
  BY ZenonT(40) DEF Locals, WithReady
<1>5. \A f \in Locals, g \in Genesis : WithGenesis(f, g) \in Locals
  BY ZenonT(40) DEF Locals, WithGenesis
<1> QED BY <1>1, <1>2, <1>3, <1>4, <1>5, ZenonT(40)

LEMMA RecordFields ==
    /\ \A q \in Participant : q.phase \in Phases /\ q.round \in Nat /\ q.genesis \in Genesis
    /\ \A f \in Locals : /\ f.round \in Nat /\ f.union \in SUBSET Blocks /\ f.ready \in SUBSET Node
                         /\ f.genesis \in Genesis /\ f.members \in SUBSET Node /\ f.stable \in Nat
BY ZenonT(40) DEF Participant, Locals

LEMMA DataTypes ==
    ASSUME TypeOK, NEW n \in Node
    PROVE  /\ Data(n) \in SUBSET Blocks
           /\ \A i \in Id : Put(i) \in Blocks /\ Del(i) \in Blocks
           /\ \A ids \in SUBSET Id : /\ Seed(ids) \in Genesis
                                     /\ ({Seed(ids)} \ {NoSeed}) \in SUBSET Blocks
           /\ \A bs \in SUBSET Blocks : Live(bs) \in SUBSET Id
<1>0. eng[n] \in Engine
  BY ZenonT(40) DEF TypeOK
<1>1. Data(n) \in SUBSET Blocks
  BY <1>0, EngineTypes DEF TypeOK, Data
<1>2. \A i \in Id : Put(i) \in Blocks /\ Del(i) \in Blocks
  BY ZenonT(40) DEF Put, Del, Blocks
<1>3. \A ids \in SUBSET Id : Seed(ids) \in Genesis /\ ({Seed(ids)} \ {NoSeed}) \in SUBSET Blocks
  BY DEF Seed, Genesis, Blocks, NoSeed
<1>4. \A bs \in SUBSET Blocks : Live(bs) \in SUBSET Id
  BY ZenonT(40) DEF Live
<1> QED BY <1>1, <1>2, <1>3, <1>4, ZenonT(40)

LEMMA MessageTypes ==
    ASSUME TypeOK, NEW n \in Node
    PROVE  /\ PrepareMsg(n) \in Message /\ SwitchMsg(n) \in Message
           /\ Decision(n, "done") \in Message /\ Decision(n, "abort") \in Message
           /\ \A r \in Nat : /\ \A bs \in SUBSET Blocks : PreparedReply(n, r, bs) \in Message
                             /\ PreparedRefusal(n, r) \in Message
                             /\ Ready(n, r) \in Message /\ NotReady(n, r) \in Message
           /\ Status(n) \in Message /\ Outcome(n) \in Message
<1>1. co[n].round \in Nat /\ co[n].union \in SUBSET Blocks /\ co[n].genesis \in Genesis
  BY RecordFields, ZenonT(40) DEF TypeOK
<1>2. eng[n].gen \in Gens /\ Data(n) \in SUBSET Blocks
  BY EngineTypes, DataTypes, ZenonT(40) DEF TypeOK
<1>3. /\ PrepareMsg(n) \in Message /\ SwitchMsg(n) \in Message
      /\ Decision(n, "done") \in Message /\ Decision(n, "abort") \in Message
  BY <1>1, ZenonT(40) DEF PrepareMsg, SwitchMsg, Decision, Message
<1>4. \A r \in Nat : /\ \A bs \in SUBSET Blocks : PreparedReply(n, r, bs) \in Message
                     /\ PreparedRefusal(n, r) \in Message
  BY <1>2, ZenonT(40) DEF PreparedReply, PreparedRefusal, Message
<1>5. /\ \A r \in Nat : Ready(n, r) \in Message /\ NotReady(n, r) \in Message
      /\ Status(n) \in Message /\ Outcome(n) \in Message
  BY <1>2, ZenonT(40) DEF Ready, NotReady, Status, Outcome, Message
<1> QED BY <1>3, <1>4, <1>5, ZenonT(40)

LEMMA NsUpdate ==
    ASSUME TypeOK, NEW n \in Node, NEW g \in Gens, NEW bs \in SUBSET Blocks
    PROVE  [ns EXCEPT ![n][g] = bs] \in [Node -> [Gens -> SUBSET Blocks]]
BY ZenonT(40) DEF TypeOK

(***************************************************************************)
(* A step that touches the control state of one node only has to preserve  *)
(* Owned there.                                                            *)
(***************************************************************************)
LEMMA Locality ==
    ASSUME Sane, NEW n \in Node, TypeOK', Owned(n)',
           \A k \in Node \ {n} : /\ up'[k] = up[k] /\ eng'[k] = eng[k]
                                 /\ part'[k] = part[k] /\ pc'[k] = pc[k]
    PROVE  Sane'
BY DEF Sane, ControlInv, Owned

(***************************************************************************)
(* What a state that satisfies ControlInv says of one node.                *)
(***************************************************************************)
LEMMA AtNode ==
    ASSUME Sane, NEW n \in Node
    PROVE  /\ TypeOK /\ Owned(n)
           /\ eng[n] \in Engine /\ disk[n] \in OnDisk /\ part[n] \in Participant
           /\ co[n] \in Locals /\ Data(n) \in SUBSET Blocks
BY DataTypes, ZenonT(40) DEF Sane, ControlInv, TypeOK

LEMMA Opened ==
    ASSUME Before
    PROVE  /\ Steady /\ Lead \in Node /\ ~DiskFails /\ Torn = {}
           /\ Sane /\ ControlInv /\ TypeOK /\ Synced /\ RoundInv /\ AgreeInv
BY ZenonT(40) DEF Before, Steady, Inv, Sane, ControlInv, Sound

LEMMA Senders ==
    /\ TypeOK => \A m \in msgs : m.from \in Node
    /\ Sane' => \A m \in msgs' : m.from \in Node
BY MessageFields, ZenonT(40) DEF Sane, ControlInv, TypeOK

LEMMA Numbers ==
    ASSUME ControlInv, Lead \in Node
    PROVE  /\ \A n \in Node : /\ eng[n].gen \in Nat /\ eng[n].prev \in Int /\ eng[n].prev >= NoGen
                              /\ part[n].round \in Nat
           /\ \A n \in Node : \A w \in waiting[n] : w.round \in Nat
           /\ round \in Nat /\ NoGen = -1 /\ NoRound = 0
           /\ Base \in Nat
<1>1. \A n \in Node : eng[n].gen \in Nat /\ eng[n].prev \in Int /\ eng[n].prev >= NoGen
  <2> TAKE n \in Node
  <2>1. eng[n].gen \in Gens /\ eng[n].prev \in MaybeGen
    BY AtNode, EngineTypes, ZenonT(40) DEF Sane
  <2> QED BY <2>1, BoundsAssumption DEF BoundsAssumption, Gens, MaybeGen, NoGen
<1>2. \A n \in Node : part[n].round \in Nat
  BY AtNode, RecordFields, ZenonT(40) DEF Sane
<1>3. \A n \in Node : \A w \in waiting[n] : w.round \in Nat
  BY DEF ControlInv, TypeOK
<1>4. round \in Nat /\ NoGen = -1 /\ NoRound = 0
  BY ZenonT(40) DEF ControlInv, TypeOK, NoGen, NoRound
<1>5. Base \in Nat
  BY <1>1, <1>4 DEF Base
<1> QED BY <1>1, <1>2, <1>3, <1>4, <1>5, ZenonT(40)

LEMMA Standing ==
    ASSUME ControlInv, Lead \in Node, NEW n \in Node
    PROVE  /\ Ahead(n) => InDoubt(n) /\ ~Late(n)
           /\ Late(n) => InDoubt(n)
           /\ On(n) \/ Past(n) => ~InDoubt(n)
           /\ Base + 1 # Base /\ NoRound <= round /\ round <= round
BY Numbers DEF On, Ahead, Late, Past, InDoubt

(***************************************************************************)
(* Where Lead stands: on Base, or activated past it.                       *)
(***************************************************************************)
LEMMA AtLead ==
    ASSUME Before
    PROVE  /\ pc[Lead] \in Activating =>
                 eng[Lead].gen = Base + 1 /\ eng[Lead].prev = Base /\ InDoubt(Lead)
           /\ pc[Lead] \notin Activating =>
                 eng[Lead].gen = Base /\ eng[Lead].prev = NoGen /\ ~InDoubt(Lead)
           /\ pc[Lead] \in {"idle", "rollback"} <=> co[Lead].round = NoRound
           /\ pc[Lead] \notin {"idle", "rollback"} => co[Lead].round = round /\ round # NoRound
           /\ pc[Lead] \in PCs /\ up[Lead]
<1>1. Owned(Lead) /\ Framed(Lead) /\ Alone /\ pc[Lead] \in PCs
  BY Opened, ZenonT(40) DEF AgreeInv, ControlInv, RoundInv, TypeOK
<1>2. part[Lead].phase # "switched"
  BY <1>1, ZenonT(40) DEF Owned, Alone
<1> QED BY Opened, <1>1, <1>2, Numbers, ZenonT(40)
           DEF Owned, Framed, Alone, Base, InDoubt, Activating

-----------------------------------------------------------------------------
LEMMA InitControl == Init => ControlInv
BY MembersAssumption, BoundsAssumption
   DEF MembersAssumption, BoundsAssumption, Init, ControlInv, TypeOK, Owned, NoPart, NoFrame,
       Frame, NoReplies, Genesis, MaybeGen, Gens, Phases, PCs, Activating, NoGen, NoRound,
       NoSeed, Message, Engine, OnDisk, Participant, Locals

-----------------------------------------------------------------------------
(* Clients and replication                                                 *)

LEMMA PutKeyControl ==
    ASSUME Sane, NEW n \in Node, NEW i \in Id, PutKey(n, i)
    PROVE  Sane'
<1>1. TypeOK /\ Owned(n) /\ eng[n].gen \in Gens /\ ns[n][eng[n].gen] \in SUBSET Blocks
  BY AtNode, EngineTypes, ZenonT(40) DEF Data
<1>2. Put(i) \in Blocks
  BY <1>1, DataTypes, ZenonT(40)
<1>3. ns' \in [Node -> [Gens -> SUBSET Blocks]]
  BY <1>1, <1>2, NsUpdate, ZenonT(40) DEF PutKey
<1>4. TypeOK'
  BY <1>1, <1>3, ZenonT(40) DEF TypeOK, PutKey, MaybeGen
<1> QED BY <1>1, <1>4, Locality, ZenonT(40) DEF PutKey, Owned

LEMMA DeleteKeyControl ==
    ASSUME Sane, NEW n \in Node, NEW i \in Id, DeleteKey(n, i)
    PROVE  Sane'
<1>1. TypeOK /\ Owned(n) /\ eng[n].gen \in Gens /\ ns[n][eng[n].gen] \in SUBSET Blocks
  BY AtNode, EngineTypes, ZenonT(40) DEF Data
<1>2. Del(i) \in Blocks
  BY <1>1, DataTypes, ZenonT(40)
<1>3. ns' \in [Node -> [Gens -> SUBSET Blocks]]
  BY <1>1, <1>2, NsUpdate, ZenonT(40) DEF DeleteKey
<1>4. TypeOK'
  BY <1>1, <1>3, ZenonT(40) DEF TypeOK, DeleteKey, MaybeGen
<1> QED BY <1>1, <1>4, Locality, ZenonT(40) DEF DeleteKey, Owned

LEMMA ReplicateControl ==
    ASSUME Sane, NEW n \in Node, NEW m \in Node, Replicate(m, n)
    PROVE  Sane'
<1>1. TypeOK /\ Owned(n) /\ eng[n].gen \in Gens /\ ns[n][eng[n].gen] \in SUBSET Blocks
  BY AtNode, EngineTypes, ZenonT(40) DEF Data
<1>2. PICK b \in ns[m][eng[n].gen] : ns' = [ns EXCEPT ![n][eng[n].gen] = @ \cup {b}]
  BY ZenonT(40) DEF Replicate
<1>3. b \in Blocks
  BY <1>1, <1>2 DEF TypeOK
<1>4. ns' \in [Node -> [Gens -> SUBSET Blocks]]
  BY <1>1, <1>2, <1>3, NsUpdate, ZenonT(40)
<1>5. TypeOK'
  BY <1>1, <1>4, ZenonT(40) DEF TypeOK, Replicate
<1> QED BY <1>1, <1>5, Locality, ZenonT(40) DEF Replicate, Owned

LEMMA HelloControl ==
    ASSUME Sane, NEW n \in Node, NEW m \in Node, Hello(m, n)
    PROVE  Sane'
<1>1. TypeOK /\ Owned(n)
  BY AtNode, ZenonT(40)
<1>2. TypeOK'
  BY <1>1, ZenonT(40) DEF TypeOK, Hello, Learn
<1> QED BY <1>1, <1>2, Locality, ZenonT(40) DEF Hello, Owned

-----------------------------------------------------------------------------
(* Participant                                                             *)

LEMMA HandlesTypes ==
    ASSUME TypeOK, NEW n \in Node, NEW m \in msgs, Handles(n, m)
    PROVE  /\ members' \in [Node -> SUBSET Node]
           /\ m \in Message /\ up[n] /\ pc[n] = "idle"
BY MessageFields DEF TypeOK, Handles, Learn, Coordinating

LEMMA ReplyTypes ==
    ASSUME TypeOK, NEW m \in Message, Reply(m)
    PROVE  msgs' \subseteq Message
BY ZenonT(40) DEF TypeOK, Reply

LEMMA OnPrepareControl ==
    ASSUME Sane, NEW n \in Node, OnPrepare(n)
    PROVE  Sane'
<1>1. TypeOK /\ Owned(n) /\ eng[n] \in Engine /\ part[n] \in Participant
  BY AtNode, ZenonT(40)
<1>2. PICK m \in Inbox(n, "prepare") : OnPrepare(n)!1!(m)
  BY ZenonT(40) DEF OnPrepare
<1>3. m \in msgs /\ m.t = "prepare" /\ m \in Message
  BY <1>1, <1>2, ZenonT(40) DEF Inbox, TypeOK
<1>4. m.round \in Nat /\ m.union \in SUBSET Blocks
  BY <1>3, MessageFields, ZenonT(40)
<1>5. members' \in [Node -> SUBSET Node] /\ up[n] /\ pc[n] = "idle"
  BY <1>1, <1>2, <1>3, HandlesTypes, ZenonT(40)
<1>6. msgs' \subseteq Message
  BY <1>1, <1>2, <1>4, MessageTypes, ReplyTypes, ZenonT(40)
<1>7. CASE UNCHANGED <<eng, part>>
  <2>1. TypeOK'
    BY <1>1, <1>5, <1>6, <1>7, ZenonT(40) DEF TypeOK, OnPrepare
  <2> QED BY <1>1, <1>7, <2>1, Locality, ZenonT(40) DEF OnPrepare, Owned
<1>8. CASE /\ part[n].phase = "none" /\ ~InDoubt(n)
           /\ eng' = [eng EXCEPT ![n] = Frozen(@)]
           /\ part' = [part EXCEPT ![n] = Prepared(m.round)]
  <2>1. /\ Frozen(eng[n]) \in Engine /\ Prepared(m.round) \in Participant
        /\ Prepared(m.round).phase = "prepared"
    BY <1>1, <1>4, EngineTypes, PartTypes, ZenonT(40)
  <2>2. TypeOK'
    BY <1>1, <1>5, <1>6, <1>8, <2>1, ZenonT(40) DEF TypeOK, OnPrepare
  <2>3. Owned(n)'
    <3>1. /\ eng'[n] = Frozen(eng[n]) /\ part'[n] = Prepared(m.round)
          /\ pc'[n] = "idle" /\ up'[n] /\ eng[n].prev = NoGen
      BY <1>1, <1>5, <1>8, ZenonT(40) DEF OnPrepare, TypeOK, InDoubt
    <3>2. eng'[n].frozen /\ eng'[n].prev = NoGen
      BY <1>1, <3>1, FrozenFields, ZenonT(40)
    <3> QED BY <2>1, <3>1, <3>2, ZenonT(40) DEF Owned, Activating
  <2> QED BY <1>8, <2>2, <2>3, Locality, ZenonT(40) DEF OnPrepare, TypeOK
<1> QED BY <1>2, <1>7, <1>8, ZenonT(40)

LEMMA OnSwitchControl ==
    ASSUME Sane, NEW n \in Node, OnSwitch(n)
    PROVE  Sane'
<1>1. TypeOK /\ Owned(n) /\ eng[n] \in Engine /\ part[n] \in Participant
  BY AtNode, ZenonT(40)
<1>2. PICK m \in Inbox(n, "switch") : OnSwitch(n)!1!(m)
  BY ZenonT(40) DEF OnSwitch
<1>3. m \in msgs /\ m.t = "switch" /\ m \in Message
  BY <1>1, <1>2 DEF Inbox, TypeOK
<1>4. m.round \in Nat /\ m.genesis \in Genesis /\ part[n].genesis \in Genesis
  BY <1>1, <1>3, MessageFields, RecordFields, ZenonT(40)
<1>5. members' \in [Node -> SUBSET Node] /\ up[n] /\ pc[n] = "idle"
  BY <1>1, <1>2, <1>3, HandlesTypes
<1>6. /\ SeedWait(m.round, m.genesis) \in [round : Nat, genesis : Genesis]
      /\ SeedWait(m.round, part[n].genesis) \in [round : Nat, genesis : Genesis]
      /\ Switched(m.round, m.genesis) \in Participant
      /\ Switched(m.round, m.genesis).phase = "switched"
  BY <1>4, PartTypes, ZenonT(40)
<1>7. CASE Reply(NotReady(n, m.round)) /\ UNCHANGED <<eng, disk, part, waiting>>
  <2>1. msgs' \subseteq Message
    BY <1>1, <1>4, <1>7, MessageTypes, ReplyTypes, ZenonT(40)
  <2>2. TypeOK'
    BY <1>1, <1>5, <1>7, <2>1, ZenonT(40) DEF TypeOK, OnSwitch
  <2> QED BY <1>1, <1>7, <2>2, Locality, ZenonT(40) DEF OnSwitch, Owned
<1>8. CASE /\ part[n].phase = "prepared" /\ eng[n].gen < MaxGen
           /\ eng' = [eng EXCEPT ![n] = ReadsClosed(Activated(@))]
           /\ disk' = [disk EXCEPT ![n] = Persisted(Activated(eng[n]))]
           /\ part' = [part EXCEPT ![n] = Switched(m.round, m.genesis)]
           /\ waiting' = [waiting EXCEPT ![n] = @ \cup {SeedWait(m.round, m.genesis)}]
           /\ UNCHANGED msgs
  <2>1. /\ Activated(eng[n]) \in Engine /\ ReadsClosed(Activated(eng[n])) \in Engine
        /\ Persisted(Activated(eng[n])) \in OnDisk
    BY <1>1, <1>8, EngineTypes, ZenonT(40)
  <2>2. waiting' \in [Node -> SUBSET [round : Nat, genesis : Genesis]]
    BY <1>1, <1>6, <1>8, ZenonT(40) DEF TypeOK
  <2>3. TypeOK'
    BY <1>1, <1>5, <1>6, <1>8, <2>1, <2>2, ZenonT(40) DEF TypeOK, OnSwitch
  <2>4. Owned(n)'
    <3>1. /\ eng'[n] = ReadsClosed(Activated(eng[n])) /\ part'[n].phase = "switched"
          /\ pc'[n] = "idle" /\ up'[n]
      BY <1>1, <1>5, <1>6, <1>8, ZenonT(40) DEF OnSwitch, TypeOK
    <3>2. eng[n].frozen
      BY <1>1, <1>5, <1>8, ZenonT(40) DEF Owned
    <3>3. eng'[n].frozen /\ eng'[n].prev # NoGen
      BY <1>1, <2>1, <3>1, <3>2, ActivatedFields, ReadsFields, ZenonT(40)
    <3> QED BY <3>1, <3>3, ZenonT(40) DEF Owned
  <2> QED BY <1>8, <2>3, <2>4, Locality, ZenonT(40) DEF OnSwitch, TypeOK
<1>9. CASE /\ waiting' = [waiting EXCEPT ![n] = @ \cup {SeedWait(m.round, part[n].genesis)}]
           /\ UNCHANGED <<eng, disk, part, msgs>>
  <2>1. waiting' \in [Node -> SUBSET [round : Nat, genesis : Genesis]]
    BY <1>1, <1>6, <1>9, ZenonT(40) DEF TypeOK
  <2>2. TypeOK'
    BY <1>1, <1>5, <1>9, <2>1, ZenonT(40) DEF TypeOK, OnSwitch
  <2> QED BY <1>1, <1>9, <2>2, Locality, ZenonT(40) DEF OnSwitch, Owned
<1> QED BY <1>2, <1>7, <1>8, <1>9, ZenonT(40)

LEMMA SeedArrivedControl ==
    ASSUME Sane, NEW n \in Node, SeedArrived(n)
    PROVE  Sane'
<1>1. TypeOK /\ Owned(n) /\ eng[n] \in Engine
  BY AtNode, ZenonT(40)
<1>2. PICK w \in waiting[n] : SeedArrived(n)!2!(w)
  BY ZenonT(40) DEF SeedArrived
<1>3. w.round \in Nat
  BY <1>1 DEF TypeOK
<1>4. msgs' \subseteq Message
  BY <1>1, <1>2, <1>3, MessageTypes, ReplyTypes, ZenonT(40)
<1>5. /\ ReadsOpen(eng[n]) \in Engine /\ ReadsOpen(eng[n]).frozen = eng[n].frozen
      /\ ReadsOpen(eng[n]).prev = eng[n].prev /\ ReadsOpen(eng[n]).gen = eng[n].gen
  BY <1>1, EngineTypes, ReadsFields, ZenonT(40)
<1>6. waiting' \in [Node -> SUBSET [round : Nat, genesis : Genesis]]
  BY <1>1, <1>2, ZenonT(40) DEF TypeOK
<1>7. TypeOK'
  BY <1>1, <1>2, <1>4, <1>5, <1>6, ZenonT(40) DEF TypeOK, SeedArrived
<1>8. Owned(n)'
  BY <1>1, <1>2, <1>5, ZenonT(40) DEF Owned, TypeOK, SeedArrived
<1> QED BY <1>2, <1>7, <1>8, Locality, ZenonT(40) DEF SeedArrived, TypeOK

LEMMA SeedTimeoutControl ==
    ASSUME Sane, NEW n \in Node, SeedTimeout(n)
    PROVE  Sane'
<1>1. TypeOK /\ Owned(n)
  BY AtNode, ZenonT(40)
<1>2. PICK w \in waiting[n] : SeedTimeout(n)!2!(w)
  BY ZenonT(40) DEF SeedTimeout
<1>3. w.round \in Nat
  BY <1>1 DEF TypeOK
<1>4. msgs' \subseteq Message
  BY <1>1, <1>2, <1>3, MessageTypes, ReplyTypes, ZenonT(40)
<1>5. waiting' \in [Node -> SUBSET [round : Nat, genesis : Genesis]]
  BY <1>1, <1>2, ZenonT(40) DEF TypeOK
<1>6. TypeOK'
  BY <1>1, <1>4, <1>5, ZenonT(40) DEF TypeOK, SeedTimeout
<1> QED BY <1>1, <1>6, Locality, ZenonT(40) DEF SeedTimeout, Owned

(***************************************************************************)
(* The three ways to end a round leave the engine thawed and settled.      *)
(***************************************************************************)
EngineTyped ==
    /\ eng \in [Node -> Engine] /\ disk \in [Node -> OnDisk]
    /\ ns \in [Node -> [Gens -> SUBSET Blocks]]

Thawed(n) == ~eng[n].frozen /\ eng[n].prev = NoGen

LEMMA CommitThaws ==
    ASSUME TypeOK, NEW n \in Node, eng[n].prev # NoGen, Commit(n)
    PROVE  EngineTyped' /\ Thawed(n)' /\ \A k \in Node \ {n} : eng'[k] = eng[k]
<1>1. eng[n] \in Engine
  BY ZenonT(40) DEF TypeOK
<1>2. Committed(eng[n]) \in Engine /\ eng[n].prev \in Gens
  BY <1>1, EngineTypes, ZenonT(40)
<1>3. Unfrozen(Committed(eng[n])) \in Engine /\ Persisted(Committed(eng[n])) \in OnDisk
  BY <1>2, EngineTypes, ZenonT(40)
<1>4. ~Unfrozen(Committed(eng[n])).frozen /\ Unfrozen(Committed(eng[n])).prev = NoGen
  BY <1>1, <1>2, ThawFields, ZenonT(40)
<1>5. ns' \in [Node -> [Gens -> SUBSET Blocks]]
  BY <1>2, NsUpdate, ZenonT(40) DEF Commit
<1>6. disk' \in [Node -> OnDisk]
  BY <1>2, <1>3, EngineTypes, SaveTypes, ZenonT(40) DEF Commit
<1> QED BY <1>3, <1>4, <1>5, <1>6, ZenonT(40) DEF Commit, TypeOK, EngineTyped, Thawed

LEMMA RollbackThaws ==
    ASSUME TypeOK, NEW n \in Node, eng[n].prev # NoGen, Rollback(n)
    PROVE  EngineTyped' /\ Thawed(n)' /\ \A k \in Node \ {n} : eng'[k] = eng[k]
<1>1. eng[n] \in Engine
  BY ZenonT(40) DEF TypeOK
<1>2. RolledBack(eng[n]) \in Engine /\ eng[n].gen \in Gens
  BY <1>1, EngineTypes, ZenonT(40)
<1>3. Unfrozen(RolledBack(eng[n])) \in Engine /\ Persisted(RolledBack(eng[n])) \in OnDisk
  BY <1>2, EngineTypes, ZenonT(40)
<1>4. ~Unfrozen(RolledBack(eng[n])).frozen /\ Unfrozen(RolledBack(eng[n])).prev = NoGen
  BY <1>1, <1>2, ThawFields, ZenonT(40)
<1>5. ns' \in [Node -> [Gens -> SUBSET Blocks]]
  BY <1>2, NsUpdate, ZenonT(40) DEF Rollback
<1>6. disk' \in [Node -> OnDisk]
  BY <1>2, <1>3, EngineTypes, SaveTypes, ZenonT(40) DEF Rollback
<1> QED BY <1>3, <1>4, <1>5, <1>6, ZenonT(40) DEF Rollback, TypeOK, EngineTyped, Thawed

LEMMA UnfreezeThaws ==
    ASSUME TypeOK, NEW n \in Node, eng[n].prev = NoGen, Unfreeze(n)
    PROVE  EngineTyped' /\ Thawed(n)' /\ \A k \in Node \ {n} : eng'[k] = eng[k]
<1>1. eng[n] \in Engine
  BY ZenonT(40) DEF TypeOK
<1>2. Unfrozen(eng[n]) \in Engine /\ ~Unfrozen(eng[n]).frozen /\ Unfrozen(eng[n]).prev = NoGen
  BY <1>1, EngineTypes, ThawFields, ZenonT(40)
<1>3. disk' \in [Node -> OnDisk]
  BY <1>1, EngineTypes, SaveTypes, ZenonT(40) DEF Unfreeze
<1> QED BY <1>2, <1>3, ZenonT(40) DEF Unfreeze, TypeOK, EngineTyped, Thawed

LEMMA FinishControl ==
    ASSUME Sane, NEW n \in Node, NEW commit \in BOOLEAN, Finish(n, commit),
           pc[n] = "idle", up[n]
    PROVE  /\ EngineTyped' /\ Thawed(n)' /\ \A k \in Node \ {n} : eng'[k] = eng[k]
           /\ part' \in [Node -> Participant] /\ part'[n].phase = "none"
           /\ \A k \in Node \ {n} : part'[k] = part[k]
           /\ left' \in [Node -> SUBSET Nat]
<1>1. TypeOK /\ Owned(n) /\ part[n] \in Participant
  BY AtNode, ZenonT(40)
<1>2. part[n].round \in Nat
  BY <1>1, RecordFields, ZenonT(40)
<1>3. EngineTyped' /\ Thawed(n)' /\ \A k \in Node \ {n} : eng'[k] = eng[k]
  <2>1. CASE part[n].phase = "switched" /\ Commit(n)
    <3>1. eng[n].prev # NoGen
      BY <1>1, <2>1, ZenonT(40) DEF Owned
    <3> QED BY <1>1, <2>1, <3>1, CommitThaws, ZenonT(40)
  <2>2. CASE InDoubt(n) /\ Rollback(n)
    BY <1>1, <2>2, RollbackThaws, ZenonT(40) DEF InDoubt
  <2>3. CASE ~InDoubt(n) /\ Unfreeze(n)
    BY <1>1, <2>3, UnfreezeThaws, ZenonT(40) DEF InDoubt
  <2> QED BY <2>1, <2>2, <2>3, ZenonT(40) DEF Finish
<1>4. /\ part' \in [Node -> Participant] /\ part'[n].phase = "none"
      /\ \A k \in Node \ {n} : part'[k] = part[k]
  BY <1>1, PartTypes, ZenonT(40) DEF Finish, TypeOK
<1>5. left' \in [Node -> SUBSET Nat]
  BY <1>1, <1>2, ZenonT(40) DEF Finish, TypeOK
<1> QED BY <1>3, <1>4, <1>5, ZenonT(40)

LEMMA OnDoneControl ==
    ASSUME Sane, NEW n \in Node, OnDone(n)
    PROVE  Sane'
<1>1. TypeOK
  BY AtNode, ZenonT(40)
<1>2. PICK m \in Inbox(n, "done") : Handles(n, m) /\ Finish(n, TRUE)
  BY ZenonT(40) DEF OnDone
<1>3. members' \in [Node -> SUBSET Node] /\ up[n] /\ pc[n] = "idle"
  BY <1>1, <1>2, HandlesTypes, ZenonT(40) DEF Inbox
<1>4. /\ EngineTyped' /\ Thawed(n)' /\ \A k \in Node \ {n} : eng'[k] = eng[k]
      /\ part' \in [Node -> Participant] /\ part'[n].phase = "none"
      /\ \A k \in Node \ {n} : part'[k] = part[k]
      /\ left' \in [Node -> SUBSET Nat]
  BY <1>2, <1>3, FinishControl, Zenon, ZenonT(40)
<1>5. TypeOK'
  BY <1>1, <1>3, <1>4, ZenonT(40) DEF TypeOK, EngineTyped, OnDone
<1>6. Owned(n)'
  BY <1>3, <1>4, ZenonT(40) DEF Owned, Thawed, OnDone, Activating
<1> QED BY <1>4, <1>5, <1>6, Locality, ZenonT(40) DEF OnDone

LEMMA OnAbortControl ==
    ASSUME Sane, NEW n \in Node, OnAbort(n)
    PROVE  Sane'
<1>1. TypeOK
  BY AtNode, ZenonT(40)
<1>2. PICK m \in Inbox(n, "abort") : Handles(n, m) /\ Finish(n, FALSE)
  BY ZenonT(40) DEF OnAbort
<1>3. members' \in [Node -> SUBSET Node] /\ up[n] /\ pc[n] = "idle"
  BY <1>1, <1>2, HandlesTypes, ZenonT(40) DEF Inbox
<1>4. /\ EngineTyped' /\ Thawed(n)' /\ \A k \in Node \ {n} : eng'[k] = eng[k]
      /\ part' \in [Node -> Participant] /\ part'[n].phase = "none"
      /\ \A k \in Node \ {n} : part'[k] = part[k]
      /\ left' \in [Node -> SUBSET Nat]
  BY <1>2, <1>3, FinishControl, Zenon, ZenonT(40)
<1>5. TypeOK'
  BY <1>1, <1>3, <1>4, ZenonT(40) DEF TypeOK, EngineTyped, OnAbort
<1>6. Owned(n)'
  BY <1>3, <1>4, ZenonT(40) DEF Owned, Thawed, OnAbort, Activating
<1> QED BY <1>4, <1>5, <1>6, Locality, ZenonT(40) DEF OnAbort

LEMMA WatchdogIdleControl ==
    ASSUME Sane, NEW n \in Node, WatchdogIdle(n)
    PROVE  Sane'
<1>1. TypeOK /\ up[n] /\ pc[n] = "idle"
  BY AtNode, ZenonT(40) DEF WatchdogIdle, Coordinating
<1>2. /\ EngineTyped' /\ Thawed(n)' /\ \A k \in Node \ {n} : eng'[k] = eng[k]
      /\ part' \in [Node -> Participant] /\ part'[n].phase = "none"
      /\ \A k \in Node \ {n} : part'[k] = part[k]
      /\ left' \in [Node -> SUBSET Nat]
  <2>1. Finish(n, FALSE)
    BY ZenonT(40) DEF WatchdogIdle
  <2> QED BY <1>1, <2>1, FinishControl, Zenon, ZenonT(40)
<1>3. TypeOK'
  BY <1>1, <1>2, ZenonT(40) DEF TypeOK, EngineTyped, WatchdogIdle
<1>4. Owned(n)'
  BY <1>1, <1>2, ZenonT(40) DEF Owned, Thawed, WatchdogIdle, Activating
<1> QED BY <1>2, <1>3, <1>4, Locality, ZenonT(40) DEF WatchdogIdle

LEMMA WatchdogStatusControl ==
    ASSUME Sane, NEW n \in Node, WatchdogStatus(n)
    PROVE  Sane'
<1>1. TypeOK /\ Owned(n)
  BY AtNode, ZenonT(40)
<1>2. msgs' \subseteq Message
  BY <1>1, MessageTypes, ZenonT(40) DEF WatchdogStatus, Send, TypeOK
<1>3. replies' \in [Node -> [asked : BOOLEAN, got : SUBSET Message]]
  BY <1>1, ZenonT(40) DEF WatchdogStatus, Answers, TypeOK
<1>4. TypeOK'
  BY <1>1, <1>2, <1>3, ZenonT(40) DEF TypeOK, WatchdogStatus
<1> QED BY <1>1, <1>4, Locality DEF WatchdogStatus, Owned

LEMMA OnStatusControl ==
    ASSUME Sane, NEW n \in Node, OnStatus(n)
    PROVE  Sane'
<1>1. TypeOK /\ Owned(n)
  BY AtNode, ZenonT(40)
<1>2. PICK m \in Inbox(n, "status") : Handles(n, m) /\ Send(Outcome(n))
  BY ZenonT(40) DEF OnStatus
<1>3. members' \in [Node -> SUBSET Node] /\ msgs' \subseteq Message
  BY <1>1, <1>2, HandlesTypes, MessageTypes, ZenonT(40) DEF Inbox, Send, TypeOK
<1>4. TypeOK'
  BY <1>1, <1>3, ZenonT(40) DEF TypeOK, OnStatus
<1> QED BY <1>1, <1>4, Locality DEF OnStatus, Owned

LEMMA OnOutcomeControl ==
    ASSUME Sane, NEW n \in Node, OnOutcome(n)
    PROVE  Sane'
<1>1. TypeOK /\ Owned(n)
  BY AtNode, ZenonT(40)
<1>2. PICK m \in Inbox(n, "outcome") :
          /\ Handles(n, m)
          /\ replies' = [replies EXCEPT ![n] = Recorded(n, m)]
          /\ Finish(n, TRUE) \/ Finish(n, FALSE) \/ UNCHANGED <<eng, disk, ns, part, left>>
  BY ZenonT(40) DEF OnOutcome
<1>3. members' \in [Node -> SUBSET Node] /\ up[n] /\ pc[n] = "idle" /\ m \in Message
  BY <1>1, <1>2, HandlesTypes DEF Inbox
<1>4. replies' \in [Node -> [asked : BOOLEAN, got : SUBSET Message]]
  BY <1>1, <1>2, <1>3, ZenonT(40) DEF TypeOK, Recorded, Answers
<1>5. CASE Finish(n, TRUE) \/ Finish(n, FALSE)
  <2>1. /\ EngineTyped' /\ Thawed(n)' /\ \A k \in Node \ {n} : eng'[k] = eng[k]
        /\ part' \in [Node -> Participant] /\ part'[n].phase = "none"
        /\ \A k \in Node \ {n} : part'[k] = part[k]
        /\ left' \in [Node -> SUBSET Nat]
    BY <1>3, <1>5, FinishControl, Zenon, ZenonT(40)
  <2>2. TypeOK'
    BY <1>1, <1>3, <1>4, <2>1, ZenonT(40) DEF TypeOK, EngineTyped, OnOutcome
  <2>3. Owned(n)'
    BY <1>3, <2>1, ZenonT(40) DEF Owned, Thawed, OnOutcome, Activating
  <2> QED BY <2>1, <2>2, <2>3, Locality, ZenonT(40) DEF OnOutcome
<1>6. CASE UNCHANGED <<eng, disk, ns, part, left>>
  <2>1. TypeOK'
    BY <1>1, <1>3, <1>4, <1>6, ZenonT(40) DEF TypeOK, OnOutcome
  <2> QED BY <1>1, <1>6, <2>1, Locality, ZenonT(40) DEF OnOutcome, Owned
<1> QED BY <1>2, <1>5, <1>6, ZenonT(40)

-----------------------------------------------------------------------------
(* Coordinator                                                             *)

LEMMA CompactControl ==
    ASSUME Sane, NEW n \in Node, Compact(n)
    PROVE  Sane'
<1>1. TypeOK /\ Owned(n) /\ eng[n] \in Engine /\ up[n] /\ pc[n] = "idle" /\ eng[n].prev = NoGen
  BY AtNode, ZenonT(40) DEF Compact, Coordinating, InDoubt
<1>2. members' \in [Node -> SUBSET Node] /\ round' \in Nat
  BY <1>1 DEF Compact, TypeOK
<1>3. /\ Prepared(round') \in Participant /\ Prepared(round').phase = "prepared"
      /\ Frame(round', members'[n]) \in Locals
  BY <1>2, PartTypes, FrameTypes, ZenonT(40)
<1>4. Frozen(eng[n]) \in Engine /\ Frozen(eng[n]).frozen /\ Frozen(eng[n]).prev = NoGen
  BY <1>1, EngineTypes, FrozenFields, ZenonT(40)
<1>5. msgs' \subseteq Message /\ waiting' \in [Node -> SUBSET [round : Nat, genesis : Genesis]]
  BY <1>1, ZenonT(40) DEF Compact, InFlight, Pending, TypeOK
<1>6. TypeOK'
  BY <1>1, <1>2, <1>3, <1>4, <1>5, ZenonT(40) DEF TypeOK, Compact, PCs
<1>7. Owned(n)'
  BY <1>1, <1>3, <1>4, ZenonT(40) DEF TypeOK, Compact, Owned, Activating
<1> QED BY <1>6, <1>7, Locality, ZenonT(40) DEF Compact, TypeOK

LEMMA GiveUpWith ==
    ASSUME Sane, NEW n \in Node, GiveUp(n), up[n], pc[n] \notin {"idle", "rollback"},
           disk' \in [Node -> OnDisk], ns' \in [Node -> [Gens -> SUBSET Blocks]],
           UNCHANGED <<up, members, replies, waiting, round, left, crashes, delGen, putGen>>
    PROVE  Sane'
<1>1. TypeOK /\ Owned(n) /\ eng[n] \in Engine
  BY AtNode
<1>2. NoPart \in Participant /\ NoPart.phase = "none" /\ NoFrame \in Locals
  BY PartTypes, FrameTypes
<1>3. msgs' \subseteq Message
  BY <1>1, MessageTypes, ZenonT(40) DEF GiveUp, WithoutWaiter, TypeOK
<1>4. eng[n].frozen
  BY <1>1 DEF Owned
<1>5. CASE InDoubt(n) /\ pc' = [pc EXCEPT ![n] = "rollback"] /\ UNCHANGED eng
  <2>1. TypeOK'
    BY <1>1, <1>2, <1>3, <1>5, ZenonT(40) DEF TypeOK, GiveUp, PCs, Activating
  <2>2. Owned(n)'
    BY <1>1, <1>2, <1>4, <1>5, ZenonT(40) DEF TypeOK, GiveUp, Owned, Activating, InDoubt
  <2> QED BY <1>1, <1>5, <2>1, <2>2, Locality, ZenonT(40) DEF GiveUp, TypeOK
<1>6. CASE /\ ~InDoubt(n) /\ pc' = [pc EXCEPT ![n] = "idle"]
           /\ eng' = [eng EXCEPT ![n] = Unfrozen(@)]
  <2>1. Unfrozen(eng[n]) \in Engine /\ ~Unfrozen(eng[n]).frozen /\ Unfrozen(eng[n]).prev = NoGen
    BY <1>1, <1>6, EngineTypes, ThawFields, ZenonT(40) DEF InDoubt
  <2>2. TypeOK'
    BY <1>1, <1>2, <1>3, <1>6, <2>1, ZenonT(40) DEF TypeOK, GiveUp, PCs
  <2>3. Owned(n)'
    BY <1>1, <1>2, <1>6, <2>1, ZenonT(40) DEF TypeOK, GiveUp, Owned, Activating
  <2> QED BY <1>1, <1>6, <2>2, <2>3, Locality, ZenonT(40) DEF GiveUp, TypeOK
<1> QED BY <1>5, <1>6, ZenonT(40) DEF GiveUp

LEMMA GiveUpControl ==
    ASSUME Sane, NEW n \in Node, GiveUp(n), up[n], pc[n] \notin {"idle", "rollback"},
           UNCHANGED <<up, disk, ns, members, replies, waiting, round, left, crashes, delGen, putGen>>
    PROVE  Sane'
<1>1. disk' \in [Node -> OnDisk] /\ ns' \in [Node -> [Gens -> SUBSET Blocks]]
  BY AtNode, ZenonT(40) DEF TypeOK
<1> QED BY <1>1, GiveUpWith, ZenonT(40)

(***************************************************************************)
(* A step of Compact that moves on before Activate, or moves on after it,  *)
(* and touches neither the engine nor the participant state.               *)
(***************************************************************************)
LEMMA AdvanceControl ==
    ASSUME Sane, NEW n \in Node, up[n], TypeOK', UNCHANGED <<up, eng, part>>,
           NEW at \in PCs, pc' = [pc EXCEPT ![n] = at],
           pc[n] \notin {"idle", "rollback"}, at \notin {"idle", "rollback"},
           pc[n] \in Activating <=> at \in Activating,
           at = "activate" => eng[n].gen < MaxGen
    PROVE  Sane'
<1>1. TypeOK /\ Owned(n)
  BY AtNode, ZenonT(40)
<1>2. Owned(n)'
  BY <1>1, ZenonT(40) DEF TypeOK, Owned, Activating
<1> QED BY <1>1, <1>2, Locality, ZenonT(40) DEF TypeOK

LEMMA FreezeControl ==
    ASSUME Sane, NEW n \in Node, Freeze(n)
    PROVE  Sane'
<1>1. TypeOK /\ co[n] \in Locals /\ Data(n) \in SUBSET Blocks /\ up[n] /\ pc[n] = "freeze"
  BY AtNode, ZenonT(40) DEF Freeze, Running
<1>2. CASE /\ pc' = [pc EXCEPT ![n] = "prepare"]
           /\ co' = [co EXCEPT ![n] = WithUnion(@, Data(n))]
           /\ UNCHANGED <<eng, part, msgs>>
  <2>1. WithUnion(co[n], Data(n)) \in Locals
    BY <1>1, FrameTypes, ZenonT(40)
  <2>2. TypeOK'
    BY <1>1, <1>2, <2>1, ZenonT(40) DEF TypeOK, Freeze, PCs
  <2> QED BY <1>1, <1>2, <2>2, AdvanceControl, ZenonT(40) DEF Freeze, PCs, Activating
<1>3. CASE GiveUp(n)
  BY <1>1, <1>3, GiveUpControl, ZenonT(40) DEF Freeze
<1> QED BY <1>2, <1>3, ZenonT(40) DEF Freeze

LEMMA SendPrepareControl ==
    ASSUME Sane, NEW n \in Node, SendPrepare(n)
    PROVE  Sane'
<1>1. TypeOK /\ up[n] /\ pc[n] = "prepare"
  BY AtNode, ZenonT(40) DEF SendPrepare, Running
<1>2. msgs' \subseteq Message
  BY <1>1, MessageTypes, ZenonT(40) DEF SendPrepare, Send, TypeOK
<1>3. TypeOK'
  BY <1>1, <1>2, ZenonT(40) DEF TypeOK, SendPrepare, PCs
<1> QED BY <1>1, <1>3, AdvanceControl, ZenonT(40) DEF SendPrepare, PCs, Activating

LEMMA EvalPrepareControl ==
    ASSUME Sane, NEW n \in Node, EvalPrepare(n)
    PROVE  Sane'
<1>1. TypeOK /\ co[n] \in Locals /\ Data(n) \in SUBSET Blocks /\ up[n] /\ pc[n] = "collect"
  BY AtNode, ZenonT(40) DEF EvalPrepare, Running
<1>2. UNCHANGED <<up, disk, ns, members, replies, waiting, round, left, crashes, delGen, putGen>>
  BY ZenonT(40) DEF EvalPrepare
<1> DEFINE Stable(g) == /\ pc' = [pc EXCEPT ![n] = IF co[n].stable = 1 THEN "stage" ELSE "prepare"]
                        /\ co' = [co EXCEPT ![n] = Stabler(@)]
                        /\ msgs' = msgs \ g
                        /\ UNCHANGED <<eng, part>>
           Again(g)  == /\ pc' = [pc EXCEPT ![n] = "prepare"]
                        /\ co' = [co EXCEPT ![n] = WithUnion(Frame(@.round, @.members), Union(n, g))]
                        /\ msgs' = msgs \ g
                        /\ UNCHANGED <<eng, part>>
<1>3. PICK got \in SUBSET Replies(n, "prepared") : GiveUp(n) \/ Stable(got) \/ Again(got)
  BY Zenon, ZenonT(40) DEF EvalPrepare
<1>4. Union(n, got) \in SUBSET Blocks
  <2>1. \A r \in got : r.heads \in SUBSET Blocks
    BY <1>1, MessageFields, ZenonT(40) DEF Replies, TypeOK
  <2>2. co[n].union \in SUBSET Blocks
    BY <1>1, RecordFields, ZenonT(40)
  <2> QED BY <1>1, <2>1, <2>2, ZenonT(40) DEF Union
<1> HIDE DEF Stable, Again
<1>5. CASE GiveUp(n)
  BY <1>1, <1>2, <1>5, GiveUpControl, ZenonT(40)
<1>6. CASE Stable(got)
  <2>1. Stabler(co[n]) \in Locals
    BY <1>1, FrameTypes, ZenonT(40)
  <2>2. TypeOK'
    BY <1>1, <1>2, <1>6, <2>1, ZenonT(40) DEF TypeOK, Stable, PCs
  <2>3. UNCHANGED <<up, eng, part>>
    BY <1>2, <1>6, ZenonT(40) DEF Stable
  <2>4. CASE co[n].stable = 1
    <3>1. pc' = [pc EXCEPT ![n] = "stage"]
      BY <1>6, <2>4, ZenonT(40) DEF Stable
    <3> QED BY <1>1, <2>2, <2>3, <3>1, AdvanceControl, ZenonT(40) DEF PCs, Activating
  <2>5. CASE co[n].stable # 1
    <3>1. pc' = [pc EXCEPT ![n] = "prepare"]
      BY <1>6, <2>5, ZenonT(40) DEF Stable
    <3> QED BY <1>1, <2>2, <2>3, <3>1, AdvanceControl, ZenonT(40) DEF PCs, Activating
  <2> QED BY <2>4, <2>5, ZenonT(40)
<1>7. CASE Again(got)
  <2>1. Frame(co[n].round, co[n].members) \in Locals
    BY <1>1, FrameTypes, RecordFields, ZenonT(40)
  <2>2. WithUnion(Frame(co[n].round, co[n].members), Union(n, got)) \in Locals
    BY <1>4, <2>1, FrameTypes, ZenonT(40)
  <2>3. TypeOK'
    BY <1>1, <1>2, <1>7, <2>2, ZenonT(40) DEF TypeOK, Again, PCs
  <2> QED BY <1>1, <1>2, <1>7, <2>3, AdvanceControl, ZenonT(40) DEF Again, PCs, Activating
<1> QED BY <1>3, <1>5, <1>6, <1>7, ZenonT(40)

LEMMA PrepareDeadlineControl ==
    ASSUME Sane, NEW n \in Node, PrepareDeadline(n)
    PROVE  Sane'
BY GiveUpControl, ZenonT(40) DEF PrepareDeadline, Running

LEMMA StageControl ==
    ASSUME Sane, NEW n \in Node, Stage(n)
    PROVE  Sane'
<1> DEFINE seed == Seed(Live(Data(n)))
<1>1. /\ TypeOK /\ co[n] \in Locals /\ eng[n] \in Engine /\ Data(n) \in SUBSET Blocks
      /\ up[n] /\ pc[n] = "stage" /\ eng[n].gen < MaxGen
  BY AtNode, ZenonT(40) DEF Stage, Running
<1>2. seed \in Genesis /\ {seed} \ {NoSeed} \in SUBSET Blocks
  BY <1>1, DataTypes
<1>3. eng[n].gen + 1 \in Gens
  <2>1. eng[n].gen \in Gens
    BY <1>1, EngineTypes
  <2> QED BY <1>1, <2>1, BoundsAssumption DEF BoundsAssumption, Gens
<1>4. ns[n][eng[n].gen + 1] \cup ({seed} \ {NoSeed}) \in SUBSET Blocks
  BY <1>1, <1>2, <1>3 DEF TypeOK
<1>5. ns' \in [Node -> [Gens -> SUBSET Blocks]]
  BY <1>1, <1>3, <1>4, NsUpdate, ZenonT(40) DEF Stage
<1>6. PICK genesis \in Heads(n, eng[n].gen + 1, seed) :
               co' = [co EXCEPT ![n] = WithGenesis(@, genesis)]
  BY ZenonT(40) DEF Stage
<1>7. genesis \in Genesis
  BY <1>2, <1>6, ZenonT(40) DEF Heads
<1>8. WithGenesis(co[n], genesis) \in Locals
  BY <1>1, <1>7, FrameTypes, ZenonT(40)
<1>9. co' \in [Node -> Locals]
  BY <1>1, <1>6, <1>8, ZenonT(40) DEF TypeOK
<1>10. TypeOK'
  BY <1>1, <1>5, <1>9, ZenonT(40) DEF TypeOK, Stage, PCs
<1>11. UNCHANGED <<up, eng, part>> /\ pc' = [pc EXCEPT ![n] = "activate"]
  BY ZenonT(40) DEF Stage
<1>12. {"stage", "activate"} \subseteq PCs /\ {"stage", "activate"} \cap Activating = {}
  BY ZenonT(40) DEF PCs, Activating
<1> QED BY <1>1, <1>10, <1>11, <1>12, AdvanceControl, ZenonT(40)

LEMMA ActivateControl ==
    ASSUME Sane, NEW n \in Node, Activate(n)
    PROVE  Sane'
<1>1. TypeOK /\ Owned(n)
  BY AtNode, ZenonT(40)
<1>2. eng[n] \in Engine /\ eng[n].gen < MaxGen
  BY <1>1, ZenonT(40) DEF TypeOK, Owned, Activate, Running
<1>3. Activated(eng[n]) \in Engine /\ Persisted(Activated(eng[n])) \in OnDisk
  BY <1>2, EngineTypes, ZenonT(40)
<1>4. TypeOK'
  BY <1>1, <1>3, ZenonT(40) DEF TypeOK, Activate, PCs, Activating
<1>5. Owned(n)'
  <2>1. /\ up[n] /\ up'[n] /\ pc[n] = "activate" /\ pc'[n] = "switch" /\ part' = part
        /\ eng'[n] = Activated(eng[n])
    BY <1>1, ZenonT(40) DEF TypeOK, Activate, Running
  <2>2. eng'[n].prev # NoGen /\ eng'[n].frozen = eng[n].frozen
    BY <1>2, <2>1, ActivatedFields, ZenonT(40)
  <2> QED BY <1>1, <2>1, <2>2, ZenonT(40) DEF Owned, Activating
<1> QED BY <1>1, <1>4, <1>5, Locality, ZenonT(40) DEF TypeOK, Activate

LEMMA StageFailsControl ==
    ASSUME Sane, NEW n \in Node, StageFails(n)
    PROVE  Sane'
BY GiveUpControl DEF StageFails, Running

(***************************************************************************)
(* Taking an activation back, on disk and in the namespace.                *)
(***************************************************************************)
LEMMA TakenBack ==
    ASSUME TypeOK, NEW n \in Node, eng[n].gen < MaxGen, Unsaved(n, Activated(eng[n])),
           ns' = [ns EXCEPT ![n][eng[n].gen + 1] = {}]
    PROVE  disk' \in [Node -> OnDisk] /\ ns' \in [Node -> [Gens -> SUBSET Blocks]]
<1>1. eng[n] \in Engine
  BY ZenonT(40) DEF TypeOK
<1>2. Activated(eng[n]) \in Engine
  BY <1>1, EngineTypes, ZenonT(40)
<1>3. disk' \in [Node -> OnDisk]
  BY <1>2, EngineTypes, SaveTypes, ZenonT(40)
<1>4. eng[n].gen + 1 \in Gens
  <2>1. eng[n].gen \in Gens
    BY <1>1, EngineTypes, ZenonT(40)
  <2> QED BY <2>1, BoundsAssumption DEF BoundsAssumption, Gens
<1> QED BY <1>3, <1>4, NsUpdate, ZenonT(40)

LEMMA ActivateFailsControl ==
    ASSUME Sane, NEW n \in Node, ActivateFails(n)
    PROVE  Sane'
<1>1. TypeOK /\ Owned(n) /\ up[n] /\ pc[n] = "activate"
  BY AtNode, ZenonT(40) DEF ActivateFails, Running
<1>2. eng[n].gen < MaxGen
  BY <1>1, ZenonT(40) DEF Owned
<1>3. disk' \in [Node -> OnDisk] /\ ns' \in [Node -> [Gens -> SUBSET Blocks]]
  BY <1>1, <1>2, TakenBack, ZenonT(40) DEF ActivateFails
<1> QED BY <1>1, <1>3, GiveUpWith, ZenonT(40) DEF ActivateFails

LEMMA SwitchFailsControl ==
    ASSUME Sane, NEW n \in Node, SwitchFails(n)
    PROVE  Sane'
<1>1. TypeOK /\ Owned(n)
  BY AtNode, ZenonT(40)
<1>2. PICK m \in Inbox(n, "switch") : Handles(n, m) /\ Reply(NotReady(n, m.round))
  BY ZenonT(40) DEF SwitchFails
<1>3. m \in msgs /\ m.t = "switch" /\ m \in Message
  BY <1>1, <1>2, ZenonT(40) DEF Inbox, TypeOK
<1>4. members' \in [Node -> SUBSET Node]
  BY <1>1, <1>2, <1>3, HandlesTypes, ZenonT(40)
<1>5. msgs' \subseteq Message
  <2>1. m.round \in Nat
    BY <1>3, MessageFields, ZenonT(40)
  <2> QED BY <1>1, <1>2, <2>1, MessageTypes, ReplyTypes, ZenonT(40)
<1>6. disk' \in [Node -> OnDisk] /\ ns' \in [Node -> [Gens -> SUBSET Blocks]]
  <2>1. CASE UNCHANGED <<disk, ns>>
    BY <1>1, <2>1, ZenonT(40) DEF TypeOK
  <2>2. CASE /\ eng[n].gen < MaxGen
             /\ Unsaved(n, Activated(eng[n]))
             /\ ns' = [ns EXCEPT ![n][eng[n].gen + 1] = {}]
    BY <1>1, <2>2, TakenBack, ZenonT(40)
  <2> QED BY <2>1, <2>2, ZenonT(40) DEF SwitchFails
<1>7. UNCHANGED <<up, eng, part, pc, co, replies, waiting, round, left, crashes, delGen, putGen>>
  BY ZenonT(40) DEF SwitchFails
<1>8. TypeOK'
  BY <1>1, <1>4, <1>5, <1>6, <1>7, ZenonT(40) DEF TypeOK
<1> QED BY <1>1, <1>7, <1>8, Locality, ZenonT(40) DEF Owned

LEMMA SendSwitchControl ==
    ASSUME Sane, NEW n \in Node, SendSwitch(n)
    PROVE  Sane'
<1>1. TypeOK /\ up[n] /\ pc[n] = "switch"
  BY AtNode, ZenonT(40) DEF SendSwitch, Running
<1>2. msgs' \subseteq Message
  BY <1>1, MessageTypes, ZenonT(40) DEF SendSwitch, Send, TypeOK
<1>3. TypeOK'
  BY <1>1, <1>2, ZenonT(40) DEF TypeOK, SendSwitch, PCs, Activating
<1> QED BY <1>1, <1>3, AdvanceControl, ZenonT(40) DEF SendSwitch, PCs, Activating

LEMMA EvalReadyControl ==
    ASSUME Sane, NEW n \in Node, EvalReady(n)
    PROVE  Sane'
<1>1. TypeOK /\ co[n] \in Locals /\ up[n] /\ pc[n] = "ready"
  BY AtNode, ZenonT(40) DEF EvalReady, Running
<1>2. UNCHANGED <<up, disk, ns, members, replies, waiting, round, left, crashes, delGen, putGen>>
  BY SMTT(40) DEF EvalReady
<1> DEFINE Oks == {r.from : r \in {q \in Replies(n, "ready") : q.ok}}
           All == pc' = [pc EXCEPT ![n] = "done"] /\ UNCHANGED <<co, eng, part, msgs>>
           Again(g) == /\ pc' = [pc EXCEPT ![n] = "switch"]
                       /\ co' = [co EXCEPT ![n] = WithReady(@, co[n].ready \cup g)]
                       /\ UNCHANGED <<eng, part, msgs>>
<1>3. \/ GiveUp(n)
      \/ All
      \/ \E got \in SUBSET Oks : Again(got)
  BY Zenon, ZenonT(40) DEF EvalReady
<1> HIDE DEF Oks, All, Again
<1>4. CASE GiveUp(n)
  BY <1>1, <1>2, <1>4, GiveUpControl, ZenonT(40)
<1>5. CASE All
  <2>1. TypeOK'
    BY <1>1, <1>2, <1>5, ZenonT(40) DEF TypeOK, All, PCs, Activating
  <2> QED BY <1>1, <1>2, <1>5, <2>1, AdvanceControl, ZenonT(40) DEF All, PCs, Activating
<1>6. CASE \E got \in SUBSET Oks : Again(got)
  <2>1. PICK got \in SUBSET Oks : Again(got)
    BY <1>6, ZenonT(40)
  <2>2. got \in SUBSET Node
    <3>1. \A q \in Replies(n, "ready") : q.from \in Node
      BY <1>1, MessageFields, ZenonT(40) DEF Replies, TypeOK
    <3> QED BY <3>1, ZenonT(40) DEF Oks
  <2>3. WithReady(co[n], co[n].ready \cup got) \in Locals
    <3>1. co[n].ready \cup got \in SUBSET Node
      BY <1>1, <2>2, RecordFields, ZenonT(40)
    <3> QED BY <1>1, <3>1, FrameTypes, ZenonT(40)
  <2>4. TypeOK'
    BY <1>1, <1>2, <2>1, <2>3, ZenonT(40) DEF TypeOK, Again, PCs, Activating
  <2> QED BY <1>1, <1>2, <2>1, <2>4, AdvanceControl, ZenonT(40) DEF Again, PCs, Activating
<1> QED BY <1>3, <1>4, <1>5, <1>6, ZenonT(40)

LEMMA SwitchDeadlineControl ==
    ASSUME Sane, NEW n \in Node, SwitchDeadline(n)
    PROVE  Sane'
BY GiveUpControl, ZenonT(40) DEF SwitchDeadline, Running

LEMMA SendDoneControl ==
    ASSUME Sane, NEW n \in Node, SendDone(n)
    PROVE  Sane'
<1>1. TypeOK /\ up[n] /\ pc[n] = "done"
  BY AtNode, ZenonT(40) DEF SendDone, Running
<1>2. msgs' \subseteq Message
  BY <1>1, MessageTypes, ZenonT(40) DEF SendDone, Send, TypeOK
<1>3. TypeOK'
  BY <1>1, <1>2, ZenonT(40) DEF TypeOK, SendDone, PCs, Activating
<1> QED BY <1>1, <1>3, AdvanceControl, ZenonT(40) DEF SendDone, PCs, Activating

LEMMA CommitRoundControl ==
    ASSUME Sane, NEW n \in Node, CommitRound(n)
    PROVE  Sane'
<1>1. TypeOK /\ Owned(n) /\ up[n] /\ pc[n] = "commit"
  BY AtNode, ZenonT(40) DEF CommitRound, Running
<1>2. EngineTyped' /\ Thawed(n)' /\ \A k \in Node \ {n} : eng'[k] = eng[k]
  BY <1>1, CommitThaws, ZenonT(40) DEF CommitRound, Owned, Activating
<1>3. NoPart \in Participant /\ NoPart.phase = "none" /\ NoFrame \in Locals
  BY PartTypes, FrameTypes, ZenonT(40)
<1>4. TypeOK'
  BY <1>1, <1>2, <1>3, ZenonT(40) DEF TypeOK, EngineTyped, CommitRound, WithoutWaiter, PCs
<1>5. Owned(n)'
  BY <1>1, <1>2, <1>3, ZenonT(40) DEF TypeOK, CommitRound, Owned, Thawed, Activating
<1> QED BY <1>1, <1>2, <1>4, <1>5, Locality, ZenonT(40) DEF CommitRound, TypeOK

LEMMA CommitFailsControl ==
    ASSUME Sane, NEW n \in Node, CommitFails(n)
    PROVE  Sane'
<1>1. TypeOK /\ Owned(n) /\ up[n] /\ pc[n] = "commit"
  BY AtNode, ZenonT(40) DEF CommitFails, Running
<1>2. EngineTyped' /\ Thawed(n)' /\ \A k \in Node \ {n} : eng'[k] = eng[k]
  BY <1>1, CommitThaws, ZenonT(40) DEF CommitFails, Owned, Activating
<1>3. NoPart \in Participant /\ NoPart.phase = "none" /\ NoFrame \in Locals
  BY PartTypes, FrameTypes, ZenonT(40)
<1>4. msgs' \subseteq Message
  BY <1>1, MessageTypes, ZenonT(40) DEF CommitFails, WithoutWaiter, TypeOK
<1>5. TypeOK'
  BY <1>1, <1>2, <1>3, <1>4, ZenonT(40) DEF TypeOK, EngineTyped, CommitFails, PCs
<1>6. Owned(n)'
  BY <1>1, <1>2, <1>3, ZenonT(40) DEF TypeOK, CommitFails, Owned, Thawed, Activating
<1> QED BY <1>1, <1>2, <1>5, <1>6, Locality, ZenonT(40) DEF CommitFails, TypeOK

LEMMA RollbackRoundControl ==
    ASSUME Sane, NEW n \in Node, RollbackRound(n)
    PROVE  Sane'
<1>1. TypeOK /\ Owned(n) /\ up[n] /\ pc[n] = "rollback"
  BY AtNode DEF RollbackRound, Running
<1>2. EngineTyped' /\ Thawed(n)' /\ \A k \in Node \ {n} : eng'[k] = eng[k]
  BY <1>1, RollbackThaws, ZenonT(40) DEF RollbackRound, Owned, Activating
<1>3. NoFrame \in Locals
  BY FrameTypes, ZenonT(40)
<1>4. TypeOK'
  BY <1>1, <1>2, <1>3, ZenonT(40) DEF TypeOK, EngineTyped, RollbackRound, PCs
<1>5. Owned(n)'
  BY <1>1, <1>2, ZenonT(40) DEF TypeOK, RollbackRound, Owned, Thawed, Activating
<1> QED BY <1>1, <1>2, <1>4, <1>5, Locality, ZenonT(40) DEF RollbackRound, TypeOK

-----------------------------------------------------------------------------
(* Crash and restart                                                       *)

LEMMA DiesControl ==
    ASSUME Sane, NEW n \in Node, Dies(n), disk' \in [Node -> OnDisk]
    PROVE  Sane'
<1>1. TypeOK /\ Owned(n)
  BY AtNode
<1>2. NoPart \in Participant /\ NoPart.phase = "none" /\ NoFrame \in Locals
  BY PartTypes, FrameTypes, ZenonT(40)
<1>3. replies' \in [Node -> [asked : BOOLEAN, got : SUBSET Message]] /\ msgs' \subseteq Message
  BY <1>1, ZenonT(40) DEF TypeOK, Dies, NoReplies, WithoutWaiter
<1>4. TypeOK'
  <2>1. part' \in [Node -> Participant] /\ co' \in [Node -> Locals]
    <3>1. part \in [Node -> Participant] /\ co \in [Node -> Locals]
      BY <1>1, ZenonT(40) DEF TypeOK
    <3>2. part' = [part EXCEPT ![n] = NoPart] /\ co' = [co EXCEPT ![n] = NoFrame]
      BY ZenonT(40) DEF Dies
    <3> QED BY <1>2, <3>1, <3>2, ZenonT(40)
  <2>2. up' \in [Node -> BOOLEAN] /\ pc' \in [Node -> PCs] /\ crashes' \in Nat
    BY <1>1 DEF TypeOK, Dies, PCs
  <2>4. waiting' \in [Node -> SUBSET [round : Nat, genesis : Genesis]]
    BY <1>1, ZenonT(40) DEF TypeOK, Dies
  <2>3. UNCHANGED <<eng, ns, members, round, left, delGen, putGen>>
    BY ZenonT(40) DEF Dies
  <2> QED BY <1>1, <1>3, <2>1, <2>2, <2>3, <2>4, ZenonT(40) DEF TypeOK
<1>5. ~up'[n] /\ pc'[n] = "idle" /\ part'[n] = NoPart
  BY <1>1, ZenonT(40) DEF TypeOK, Dies
<1>6. Owned(n)'
  BY <1>2, <1>5, ZenonT(40) DEF Owned
<1> QED BY <1>1, <1>4, <1>6, Locality, ZenonT(40) DEF Dies, TypeOK

LEMMA CrashControl ==
    ASSUME Sane, NEW n \in Node, Crash(n)
    PROVE  Sane'
<1>1. disk' \in [Node -> OnDisk]
  BY AtNode, ZenonT(40) DEF TypeOK, Crash
<1> QED BY <1>1, DiesControl, ZenonT(40) DEF Crash

LEMMA CrashInActivateControl ==
    ASSUME Sane, NEW n \in Node, CrashInActivate(n)
    PROVE  Sane'
<1>1. TypeOK /\ Owned(n) /\ eng[n] \in Engine
  BY AtNode, ZenonT(40)
<1>2. eng[n].gen < MaxGen
  BY <1>1 DEF CrashInActivate, Owned
<1>3. Activated(eng[n]).gen \in Gens
  <2>1. Activated(eng[n]) \in Engine
    BY <1>1, <1>2, EngineTypes, ZenonT(40)
  <2> QED BY <2>1, EngineTypes, ZenonT(40)
<1>4. disk' \in [Node -> OnDisk]
  BY <1>1, <1>3, TornWriteTypes, ZenonT(40) DEF CrashInActivate
<1> QED BY <1>4, DiesControl, ZenonT(40) DEF CrashInActivate

LEMMA CrashInRollbackControl ==
    ASSUME Sane, NEW n \in Node, CrashInRollback(n)
    PROVE  Sane'
<1>1. TypeOK /\ Owned(n) /\ eng[n] \in Engine
  BY AtNode, ZenonT(40)
<1>2. eng[n].prev # NoGen
  BY <1>1, ZenonT(40) DEF CrashInRollback, Dies, Owned, Activating
<1>3. RolledBack(eng[n]).gen \in Gens
  <2>1. RolledBack(eng[n]) \in Engine
    BY <1>1, <1>2, EngineTypes, ZenonT(40)
  <2> QED BY <2>1, EngineTypes, ZenonT(40)
<1>4. disk' \in [Node -> OnDisk]
  BY <1>1, <1>3, TornWriteTypes, ZenonT(40) DEF CrashInRollback
<1> QED BY <1>4, DiesControl, ZenonT(40) DEF CrashInRollback

LEMMA RestartControl ==
    ASSUME Sane, NEW n \in Node, Restart(n)
    PROVE  Sane'
<1>1. TypeOK /\ Owned(n) /\ disk[n] \in OnDisk
  BY AtNode, ZenonT(40)
<1>2. /\ Restored(disk[n]) \in Engine /\ Restored(disk[n]).prev = disk[n].prev
      /\ Restored(disk[n]).frozen <=> disk[n].prev # NoGen
  BY <1>1, DiskTypes, ZenonT(40)
<1>3. /\ NoPart \in Participant /\ NoPart.phase = "none"
      /\ Switched(NoRound, NoSeed) \in Participant /\ Switched(NoRound, NoSeed).phase = "switched"
  BY PartTypes, ZenonT(40)
<1>4. msgs' \subseteq Message
  BY <1>1, ZenonT(40) DEF TypeOK, Restart, InFlight
<1>5. TypeOK'
  BY <1>1, <1>2, <1>3, <1>4, ZenonT(40) DEF TypeOK, Restart, Resumed
<1>6. Owned(n)'
  <2>1. up'[n] /\ eng'[n] = Restored(disk[n]) /\ pc'[n] = "idle"
    BY <1>1, ZenonT(40) DEF TypeOK, Restart, Owned
  <2>2. part'[n].phase = "switched" <=> disk[n].prev # NoGen
    BY <1>1, <1>3, ZenonT(40) DEF TypeOK, Restart, Resumed
  <2>3. part'[n].phase \in {"none", "switched"}
    BY <1>1, <1>3, ZenonT(40) DEF TypeOK, Restart, Resumed
  <2> QED BY <1>2, <2>1, <2>2, <2>3, ZenonT(40) DEF Owned, Activating
<1> QED BY <1>1, <1>5, <1>6, Locality, ZenonT(40) DEF Restart, TypeOK

-----------------------------------------------------------------------------
LEMMA NextControl == ControlInv /\ [Next]_vars => ControlInv'
<1> SUFFICES ASSUME Sane, [Next]_vars PROVE Sane'
  BY ZenonT(40) DEF Sane
<1>1. CASE UNCHANGED vars
  BY <1>1, ZenonT(40) DEF vars, Sane, ControlInv, TypeOK, Owned
<1>2. CASE Next
  <2> SUFFICES ASSUME NEW n \in Node,
                      \/ Client(n) \/ Peer(n) \/ Handler(n) \/ Watchdog(n)
                      \/ Compact(n) \/ Coordinator(n) \/ Fault(n)
               PROVE  Sane'
    BY <1>2, ZenonT(40) DEF Next
  <2>1. CASE Client(n)
    BY <2>1, PutKeyControl, DeleteKeyControl, ZenonT(40) DEF Client
  <2>2. CASE Peer(n)
    BY <2>2, ReplicateControl, HelloControl, ZenonT(40) DEF Peer
  <2>3. CASE Handler(n)
    BY <2>3, OnPrepareControl, OnSwitchControl, OnDoneControl, OnAbortControl, OnStatusControl,
       OnOutcomeControl, SwitchFailsControl, SeedArrivedControl, SeedTimeoutControl, ZenonT(40) DEF Handler
  <2>4. CASE Watchdog(n)
    BY <2>4, WatchdogIdleControl, WatchdogStatusControl, ZenonT(40) DEF Watchdog
  <2>5. CASE Compact(n)
    BY <2>5, CompactControl, ZenonT(40)
  <2>6. CASE Coordinator(n)
    BY <2>6, FreezeControl, SendPrepareControl, EvalPrepareControl, PrepareDeadlineControl,
       StageControl, StageFailsControl, ActivateControl, ActivateFailsControl,
       SendSwitchControl, EvalReadyControl, SwitchDeadlineControl,
       SendDoneControl, CommitRoundControl, CommitFailsControl,
       RollbackRoundControl, ZenonT(40) DEF Coordinator
  <2>7. CASE Fault(n)
    BY <2>7, CrashControl, CrashInActivateControl, CrashInRollbackControl, RestartControl,
       ZenonT(40) DEF Fault
  <2> QED BY <2>1, <2>2, <2>3, <2>4, <2>5, <2>6, <2>7, ZenonT(40)
<1> QED BY <1>1, <1>2, ZenonT(40)

LEMMA ControlInvariant == Spec => []ControlInv
BY InitControl, NextControl, PTL DEF Spec

(***************************************************************************)
(* The state of the protocol is well formed: no handler, no step of        *)
(* Compact and no crash leaves a generation, a phase or a message outside  *)
(* its range.                                                              *)
(***************************************************************************)
THEOREM TypeCorrect == Spec => []TypeOK
<1>1. ControlInv => TypeOK
  BY ZenonT(40) DEF ControlInv
<1> QED BY <1>1, ControlInvariant, PTL

(***************************************************************************)
(* A running replica refuses writes exactly while a round is there to thaw *)
(* it (engine.Freeze against n.parts and Compact), with any number of      *)
(* replicas, coordinators, rounds and crashes.                             *)
(***************************************************************************)
THEOREM FrozenOwnedAlways == Spec => []FrozenOwned
<1>1. ControlInv => FrozenOwned
  BY ZenonT(40) DEF ControlInv, Owned, FrozenOwned, Coordinating
<1> QED BY <1>1, ControlInvariant, PTL

(***************************************************************************)
(* A running replica keeps a previous generation exactly while it has a    *)
(* participant state in phase switched, or a Compact past Activate: no     *)
(* doubt is forgotten (engine.InDoubt against n.parts and Compact).        *)
(***************************************************************************)
THEOREM DoubtOwnedAlways == Spec => []DoubtOwned
<1>1. ControlInv => DoubtOwned
  BY ZenonT(40) DEF ControlInv, Owned, DoubtOwned, InDoubt
<1> QED BY <1>1, ControlInvariant, PTL

-----------------------------------------------------------------------------
(* What is on disk                                                         *)

LEMMA PersistedSame ==
    ASSUME NEW e \in Engine
    PROVE  /\ Persisted(Frozen(e)) = Persisted(e) /\ Persisted(ReadsOpen(e)) = Persisted(e)
           /\ Persisted(ReadsClosed(e)) = Persisted(e) /\ Persisted(Unfrozen(e)) = Persisted(e)
<1>1. Persisted(Unfrozen(e)) = Persisted(e)
  BY ZenonT(40) DEF Persisted, Unfrozen
<1> QED BY <1>1, ZenonT(40) DEF Persisted, Frozen, ReadsOpen, ReadsClosed, Engine

LEMMA RestoredSame == \A d \in OnDisk : Persisted(Restored(d)) = d
BY DEF Persisted, Restored, OnDisk

(***************************************************************************)
(* What a step of n other than Restart does to its engine and its disk.    *)
(***************************************************************************)
Sets(n, e) == eng' = [eng EXCEPT ![n] = e]

Moves(n) ==
    \/ UNCHANGED <<eng, disk>>
    \/ Sets(n, Frozen(eng[n])) /\ UNCHANGED disk
    \/ Sets(n, ReadsOpen(eng[n])) /\ UNCHANGED disk
    \/ Sets(n, Unfrozen(eng[n])) /\ (UNCHANGED disk \/ Saved(n, eng[n]))
    \/ Sets(n, ReadsClosed(Activated(eng[n]))) /\ Saved(n, Activated(eng[n])) /\ eng[n].gen < MaxGen
    \/ Sets(n, Activated(eng[n])) /\ Saved(n, Activated(eng[n])) /\ eng[n].gen < MaxGen
    \/ Sets(n, Unfrozen(Committed(eng[n]))) /\ Saved(n, Committed(eng[n]))
    \/ Sets(n, Unfrozen(RolledBack(eng[n]))) /\ Saved(n, RolledBack(eng[n])) /\ eng[n].prev # NoGen

LEMMA MovesSynced ==
    ASSUME TypeOK, Synced, NEW n \in Node, Moves(n)
    PROVE  Synced'
<1>1. eng[n] \in Engine /\ eng \in [Node -> Engine] /\ disk \in [Node -> OnDisk]
  BY ZenonT(40) DEF TypeOK
<1>2. CASE UNCHANGED <<eng, disk>>
  BY <1>2, ZenonT(40) DEF Synced
<1>3. ASSUME NEW e \in {Frozen(eng[n]), ReadsOpen(eng[n]), Unfrozen(eng[n])}, Sets(n, e),
             UNCHANGED disk \/ Saved(n, eng[n])
      PROVE  Synced'
  <2>1. Persisted(e) = Persisted(eng[n])
    BY <1>1, PersistedSame, ZenonT(40)
  <2>2. disk' = disk
    BY <1>1, <1>3, ZenonT(40) DEF Saved, Synced
  <2> QED BY <1>1, <1>3, <2>1, <2>2, ZenonT(40) DEF Sets, Synced
<1>4. ASSUME NEW e \in Engine, NEW f \in {e, Unfrozen(e), ReadsClosed(e)}, Sets(n, f), Saved(n, e)
      PROVE  Synced'
  <2>1. Persisted(f) = Persisted(e)
    BY PersistedSame, ZenonT(40)
  <2> QED BY <1>1, <1>4, <2>1, ZenonT(40) DEF Sets, Saved, Synced
<1>5. /\ eng[n].gen < MaxGen => Activated(eng[n]) \in Engine
      /\ Committed(eng[n]) \in Engine
      /\ eng[n].prev # NoGen => RolledBack(eng[n]) \in Engine
  BY <1>1, EngineTypes, ZenonT(40)
<1> QED BY <1>2, <1>3, <1>4, <1>5, ZenonT(40) DEF Moves

LEMMA FinishMoves ==
    ASSUME Sound, NEW n \in Node, NEW commit, Finish(n, commit)
    PROVE  Moves(n)
BY SMTT(40) DEF Sound, Finish, Commit, Rollback, Unfreeze, Unsaved, InDoubt, Moves, Sets

LEMMA HandlerMoves ==
    ASSUME Sound, NEW n \in Node, Handler(n) \/ Watchdog(n)
    PROVE  Moves(n) /\ UNCHANGED up
<1>1. CASE OnPrepare(n) \/ OnStatus(n) \/ SeedArrived(n) \/ SeedTimeout(n) \/ WatchdogStatus(n)
  BY <1>1, ZenonT(40)
     DEF OnPrepare, OnStatus, SeedArrived, SeedTimeout, WatchdogStatus, Moves, Sets
<1>2. CASE OnSwitch(n)
  BY <1>2, ZenonT(40) DEF OnSwitch, Moves, Sets, Saved
<1>3. CASE SwitchFails(n)
  BY <1>3, ZenonT(40) DEF SwitchFails, Sound
<1>4. CASE OnDone(n) \/ OnAbort(n) \/ WatchdogIdle(n)
  <2>1. PICK commit : Finish(n, commit)
    BY <1>4, ZenonT(40) DEF OnDone, OnAbort, WatchdogIdle
  <2> QED BY <1>4, <2>1, FinishMoves, ZenonT(40) DEF OnDone, OnAbort, WatchdogIdle
<1>5. CASE OnOutcome(n)
  <2>1. (\E commit : Finish(n, commit)) \/ UNCHANGED <<eng, disk>>
    BY <1>5, ZenonT(40) DEF OnOutcome
  <2>2. CASE \E commit : Finish(n, commit)
    BY <1>5, <2>2, FinishMoves, ZenonT(40) DEF OnOutcome
  <2>3. CASE UNCHANGED <<eng, disk>>
    BY <1>5, <2>3, ZenonT(40) DEF OnOutcome, Moves
  <2> QED BY <2>1, <2>2, <2>3, ZenonT(40)
<1> QED BY <1>1, <1>2, <1>3, <1>4, <1>5, ZenonT(40) DEF Handler, Watchdog

LEMMA CoordinatorMoves ==
    ASSUME Sound, ControlInv, NEW n \in Node, Coordinator(n) \/ Compact(n)
    PROVE  Moves(n) /\ UNCHANGED up
<1>1. GiveUp(n) /\ UNCHANGED disk => Moves(n)
  BY ZenonT(40) DEF GiveUp, Moves, Sets
<1>2. CASE Freeze(n) \/ PrepareDeadline(n) \/ SwitchDeadline(n)
  BY <1>1, <1>2, ZenonT(40) DEF Freeze, PrepareDeadline, SwitchDeadline, Moves
<1>3. CASE EvalPrepare(n)
  <2>1. GiveUp(n) \/ UNCHANGED eng
    BY <1>3, Zenon, ZenonT(40) DEF EvalPrepare
  <2> QED BY <1>1, <1>3, <2>1, ZenonT(40) DEF EvalPrepare, Moves
<1>4. CASE EvalReady(n)
  <2>1. GiveUp(n) \/ UNCHANGED eng
    BY <1>4, Zenon, ZenonT(40) DEF EvalReady
  <2> QED BY <1>1, <1>4, <2>1, ZenonT(40) DEF EvalReady, Moves
<1>5. CASE SendPrepare(n) \/ Stage(n) \/ SendSwitch(n) \/ SendDone(n)
  BY <1>5 DEF SendPrepare, Stage, SendSwitch, SendDone, Moves
<1>6. CASE Compact(n)
  BY <1>6, ZenonT(40) DEF Compact, Moves, Sets
<1>7. CASE Activate(n)
  <2>1. eng[n].gen < MaxGen
    BY <1>7, ZenonT(40) DEF ControlInv, Owned, Activate, Running
  <2> QED BY <1>7, <2>1, ZenonT(40) DEF Activate, Moves, Sets, Saved
<1>8. CASE CommitRound(n)
  BY <1>8, ZenonT(40) DEF CommitRound, Commit, Moves, Sets
<1>9. CASE RollbackRound(n)
  <2>1. eng[n].prev # NoGen
    BY <1>9, ZenonT(40) DEF ControlInv, Owned, RollbackRound, Running, Activating
  <2> QED BY <1>9, <2>1, ZenonT(40) DEF RollbackRound, Rollback, Unsaved, Sound, Moves, Sets
<1>10. ~CommitFails(n) /\ ~StageFails(n) /\ ~ActivateFails(n)
  BY ZenonT(40) DEF CommitFails, StageFails, ActivateFails, Unsaved, Sound
<1> QED BY <1>2, <1>3, <1>4, <1>5, <1>6, <1>7, <1>8, <1>9, <1>10, ZenonT(40) DEF Coordinator

LEMMA NextSynced ==
    ASSUME Sound, ControlInv, Synced, [Next]_vars
    PROVE  Synced' /\ StaysFrozen
<1>1. TypeOK
  BY ZenonT(40) DEF ControlInv
<1>2. CASE UNCHANGED vars
  BY <1>2, ZenonT(40) DEF vars, Synced, StaysFrozen
<1>3. CASE Next
  <2> SUFFICES ASSUME NEW n \in Node,
                      \/ Client(n) \/ Peer(n) \/ Handler(n) \/ Watchdog(n)
                      \/ Compact(n) \/ Coordinator(n) \/ Fault(n)
               PROVE  Synced' /\ StaysFrozen
    BY <1>3, ZenonT(40) DEF Next
  <2>1. Moves(n) /\ (\A k \in Node : up'[k] => up[k]) => Synced' /\ StaysFrozen
    BY <1>1, MovesSynced, ZenonT(40) DEF StaysFrozen
  <2>2. CASE Client(n) \/ Peer(n)
    BY <2>1, <2>2, ZenonT(40) DEF Client, Peer, PutKey, DeleteKey, Replicate, Hello, Moves
  <2>3. CASE Handler(n) \/ Watchdog(n)
    BY <2>1, <2>3, HandlerMoves, ZenonT(40)
  <2>4. CASE Compact(n) \/ Coordinator(n)
    BY <2>1, <2>4, CoordinatorMoves, ZenonT(40)
  <2>5. CASE Crash(n)
    BY <1>1, <2>1, <2>5, ZenonT(40) DEF Crash, Dies, Moves, TypeOK
  <2>6. CASE Restart(n)
    <3>1. disk[n] \in OnDisk /\ disk[n] = Persisted(eng[n]) /\ eng[n] \in Engine
      BY <1>1, ZenonT(40) DEF TypeOK, Synced
    <3>2. Persisted(Restored(disk[n])) = disk[n] /\ Restored(disk[n]).frozen = (disk[n].prev # NoGen)
      BY <3>1, RestoredSame, DiskTypes, ZenonT(40)
    <3>3. disk[n].prev = eng[n].prev /\ disk[n].gen = eng[n].gen
      <4>1. \A e : Persisted(e).prev = e.prev /\ Persisted(e).gen = e.gen
        BY ZenonT(40) DEF Persisted
      <4> QED BY <3>1, <4>1, ZenonT(40)
    <3>4. /\ disk' = disk /\ eng'[n] = Restored(disk[n])
          /\ \A k \in Node \ {n} : eng'[k] = eng[k] /\ up'[k] = up[k]
      BY <1>1, <2>6, ZenonT(40) DEF Restart, TypeOK
    <3>5. Synced'
      BY <1>1, <3>2, <3>4, ZenonT(40) DEF Synced
    <3>6. StaysFrozen
      BY <3>2, <3>3, <3>4, ZenonT(40) DEF StaysFrozen
    <3> QED BY <3>5, <3>6, ZenonT(40)
  <2>7. ~CrashInActivate(n) /\ ~CrashInRollback(n)
    BY ZenonT(40) DEF CrashInActivate, CrashInRollback, Sound
  <2> QED BY <2>2, <2>3, <2>4, <2>5, <2>6, <2>7, ZenonT(40) DEF Fault
<1> QED BY <1>2, <1>3, ZenonT(40)

(***************************************************************************)
(* A process that dies after its replica activated a generation, and       *)
(* before the round is settled, comes back refusing writes, whatever else  *)
(* crashes: restoreGen finds on disk what Activate, Commit and Rollback    *)
(* left in memory.  persistGen must neither fail nor be cut in two.        *)
(***************************************************************************)
THEOREM RestartStaysFrozenSound == Sound => (Spec => RestartStaysFrozen)
<1> SUFFICES ASSUME Sound PROVE Spec => RestartStaysFrozen
  BY ZenonT(40)
<1>1. Init => Synced
  <2> DEFINE E == [gen |-> 0, prev |-> NoGen, frozen |-> FALSE, noreads |-> FALSE]
  <2>1. Persisted(E) = [gen |-> 0, prev |-> NoGen]
    BY ZenonT(40) DEF Persisted
  <2> SUFFICES ASSUME Init, NEW n \in Node PROVE disk[n] = Persisted(eng[n])
    BY ZenonT(40) DEF Synced
  <2>2. eng = [k \in Node |-> E] /\ disk = [k \in Node |-> [gen |-> 0, prev |-> NoGen]]
    BY ZenonT(40) DEF Init
  <2>3. disk = [k \in Node |-> Persisted(E)]
    BY <2>1, <2>2, ZenonT(40)
  <2> HIDE DEF E
  <2> QED BY <2>2, <2>3, ZenonT(40)
<1>2. ControlInv /\ Synced /\ [Next]_vars => Synced' /\ StaysFrozen
  BY NextSynced, ZenonT(40)
<1>3. StaysFrozen => [StaysFrozen]_vars
  BY ZenonT(40)
<1> QED BY <1>1, <1>2, <1>3, ControlInvariant, PTL DEF Spec, RestartStaysFrozen

-----------------------------------------------------------------------------
(***************************************************************************)
(* A round is announced done or aborted, never both, for every number of   *)
(* nodes, coordinators, rounds and crashes, as long as the Commit that     *)
(* ends a Compact does not fail.                                           *)
(***************************************************************************)
(***************************************************************************)
(* A step that announces no decision and moves no frame into or out of the *)
(* protocol.                                                               *)
(***************************************************************************)
NoNewDecision == \A m \in msgs' : m.t \in {"done", "abort"} => m \in msgs

LEMMA Quiet ==
    ASSUME RoundInv, round' = round, NoNewDecision,
           \A n \in Node : /\ co'[n].round = co[n].round
                           /\ pc'[n] \in {"idle", "rollback"} <=> pc[n] \in {"idle", "rollback"}
                           /\ pc[n] = "commit" => pc'[n] = "commit"
    PROVE  RoundInv'
<1>1. (\A n \in Node : Framed(n))' /\ Apart'
  BY DEF RoundInv, Framed, Apart
<1>2. DoneLast' /\ AbortLast'
  BY ZenonT(40) DEF RoundInv, NoNewDecision, DoneLast, AbortLast, Decided
<1>3. OneOutcome'
  BY ZenonT(40) DEF RoundInv, NoNewDecision, OneOutcome
<1> QED BY <1>1, <1>2, <1>3, ZenonT(40) DEF RoundInv

LEMMA Stutter ==
    ASSUME RoundInv, UNCHANGED <<co, pc, round>>, NoNewDecision
    PROVE  RoundInv'
BY Quiet, ZenonT(40)

(***************************************************************************)
(* A frame ends without an announcement.                                   *)
(***************************************************************************)
LEMMA Dropped ==
    ASSUME RoundInv, TypeOK, NEW n \in Node, round' = round, NoNewDecision,
           co' = [co EXCEPT ![n] = NoFrame], pc' = [pc EXCEPT ![n] = "idle"]
    PROVE  RoundInv'
<1>1. /\ co'[n].round = NoRound /\ pc'[n] = "idle"
      /\ \A k \in Node \ {n} : co'[k] = co[k] /\ pc'[k] = pc[k]
  BY ZenonT(40) DEF TypeOK, NoFrame, Frame
<1>2. NoRound <= round
  BY DEF TypeOK, NoRound
<1>3. (\A k \in Node : Framed(k))' /\ Apart'
  BY <1>1, <1>2 DEF RoundInv, Framed, Apart
<1>4. DoneLast' /\ AbortLast'
  BY <1>1 DEF RoundInv, NoNewDecision, DoneLast, AbortLast, Decided
<1>5. OneOutcome'
  BY ZenonT(40) DEF RoundInv, NoNewDecision, OneOutcome
<1> QED BY <1>3, <1>4, <1>5, ZenonT(40) DEF RoundInv

(***************************************************************************)
(* GiveUp announces an abort: its frame has not announced done, because    *)
(* only a frame about to commit has.                                       *)
(***************************************************************************)
LEMMA GiveUpRounds ==
    ASSUME RoundInv, TypeOK, NEW n \in Node, GiveUp(n), round' = round,
           pc[n] \notin {"idle", "rollback", "commit"}
    PROVE  RoundInv'
<1> DEFINE r == co[n].round
           d == Decision(n, "abort")
<1>1. /\ co'[n].round = NoRound /\ pc'[n] \in {"idle", "rollback"}
      /\ \A k \in Node \ {n} : co'[k] = co[k] /\ pc'[k] = pc[k]
  BY ZenonT(40) DEF TypeOK, GiveUp, NoFrame, Frame
<1>2. /\ r # NoRound /\ r <= round /\ \A k \in Node \ {n} : co[k].round # r
      /\ d.t = "abort" /\ d.round = r
  BY ZenonT(40) DEF RoundInv, Framed, Apart, Decision
<1>3. \A m \in msgs' : m.t \in {"done", "abort"} => m \in msgs \/ m = d
  BY ZenonT(40) DEF GiveUp, WithoutWaiter
<1>4. \A m \in msgs : m.t = "done" => m.round # r
  BY ZenonT(40) DEF RoundInv, DoneLast
<1>5. NoRound <= round
  BY DEF TypeOK, NoRound
<1> HIDE DEF r, d
<1>6. (\A k \in Node : Framed(k))' /\ Apart'
  BY <1>1, <1>5, ZenonT(40) DEF RoundInv, Framed, Apart
<1>7. DoneLast'
  BY <1>1, <1>2, <1>3 DEF RoundInv, DoneLast, Decided
<1>8. AbortLast'
  BY <1>1, <1>2, <1>3, ZenonT(40) DEF RoundInv, AbortLast, Decided
<1>9. OneOutcome'
  BY <1>2, <1>3, <1>4, ZenonT(40) DEF RoundInv, OneOutcome
<1> QED BY <1>6, <1>7, <1>8, <1>9, ZenonT(40) DEF RoundInv

(***************************************************************************)
(* SendDone: no abort of this round is in flight, since it has a frame.    *)
(***************************************************************************)
LEMMA SendDoneRounds ==
    ASSUME RoundInv, TypeOK, NEW n \in Node, SendDone(n)
    PROVE  RoundInv'
<1> DEFINE r == co[n].round
           d == Decision(n, "done")
<1>1. /\ pc[n] = "done" /\ pc'[n] = "commit" /\ co' = co /\ round' = round
      /\ \A k \in Node \ {n} : pc'[k] = pc[k]
  BY ZenonT(40) DEF TypeOK, SendDone, Running
<1>2. /\ r # NoRound /\ r <= round /\ \A k \in Node \ {n} : co[k].round # r
      /\ d.t = "done" /\ d.round = r
  BY <1>1, ZenonT(40) DEF RoundInv, Framed, Apart, Decision
<1>3. \A m \in msgs' : m \in msgs \/ m = d
  BY ZenonT(40) DEF SendDone, Send
<1>4. \A m \in msgs : m.t = "abort" => m.round # r
  BY ZenonT(40) DEF RoundInv, AbortLast
<1> HIDE DEF d
<1>5. (\A k \in Node : Framed(k))' /\ Apart'
  BY <1>1, ZenonT(40) DEF RoundInv, Framed, Apart
<1>6. DoneLast'
  BY <1>1, <1>2, <1>3, ZenonT(40) DEF RoundInv, DoneLast, Decided
<1>7. AbortLast'
  BY <1>1, <1>2, <1>3, ZenonT(40) DEF RoundInv, AbortLast, Decided
<1>8. OneOutcome'
  BY <1>2, <1>3, <1>4, ZenonT(40) DEF RoundInv, OneOutcome
<1> QED BY <1>5, <1>6, <1>7, <1>8, ZenonT(40) DEF RoundInv

(***************************************************************************)
(* Compact starts a round above every round seen so far.                   *)
(***************************************************************************)
LEMMA CompactRounds ==
    ASSUME RoundInv, TypeOK, NEW n \in Node, Compact(n)
    PROVE  RoundInv'
<1>1. /\ round \in Nat /\ round' = round + 1
      /\ co'[n].round = round' /\ pc'[n] = "freeze"
      /\ \A k \in Node \ {n} : co'[k] = co[k] /\ pc'[k] = pc[k]
  BY ZenonT(40) DEF TypeOK, Compact, Frame
<1>2. NoNewDecision
  BY ZenonT(40) DEF Compact, InFlight, NoNewDecision
<1>3. \A k \in Node : co[k].round \in Nat
  BY RecordFields, ZenonT(40) DEF TypeOK
<1>4. (\A k \in Node : Framed(k))'
  BY <1>1, <1>3 DEF RoundInv, Framed, NoRound
<1>5. Apart'
  BY <1>1, <1>3 DEF RoundInv, Framed, Apart
<1>6. \A m \in msgs : m.t \in {"done", "abort"} => m.round \in Nat
  BY MessageFields, ZenonT(40) DEF TypeOK
<1>7. DoneLast'
  BY <1>1, <1>2, <1>6 DEF RoundInv, NoNewDecision, DoneLast, Decided
<1>8. AbortLast'
  BY <1>1, <1>2, <1>6 DEF RoundInv, NoNewDecision, AbortLast, Decided
<1>9. OneOutcome'
  BY <1>2, ZenonT(40) DEF RoundInv, NoNewDecision, OneOutcome
<1> QED BY <1>4, <1>5, <1>7, <1>8, <1>9, ZenonT(40) DEF RoundInv

LEMMA ClientRounds ==
    ASSUME RoundInv, NEW n \in Node, Client(n) \/ Peer(n)
    PROVE  RoundInv'
<1>1. UNCHANGED <<co, pc, round>> /\ msgs' = msgs
  BY ZenonT(40) DEF Client, Peer, PutKey, DeleteKey, Replicate, Hello
<1> QED BY <1>1, Stutter, ZenonT(40) DEF NoNewDecision

(***************************************************************************)
(* A handler sends replies, a watchdog asks: neither decides.              *)
(***************************************************************************)
LEMMA HandlerRounds ==
    ASSUME RoundInv, NEW n \in Node, Handler(n) \/ Watchdog(n)
    PROVE  RoundInv'
<1>1. UNCHANGED <<co, pc, round>>
  BY ZenonT(40)
     DEF Handler, Watchdog, OnPrepare, OnSwitch, SwitchFails, OnDone, OnAbort, OnStatus,
         OnOutcome,
         SeedArrived, SeedTimeout, WatchdogIdle, WatchdogStatus
<1>2. NoNewDecision
  <2>1. CASE OnPrepare(n)
    <3>1. PICK r, u : Reply(PreparedReply(n, r, u)) \/ Reply(PreparedRefusal(n, r))
      BY <2>1, ZenonT(40) DEF OnPrepare
    <3> QED BY <3>1 DEF Reply, PreparedReply, PreparedRefusal, NoNewDecision
  <2>2. CASE OnSwitch(n) \/ SwitchFails(n) \/ SeedArrived(n) \/ SeedTimeout(n)
    <3>1. PICK r : Reply(Ready(n, r)) \/ Reply(NotReady(n, r)) \/ UNCHANGED msgs
      BY <2>2, ZenonT(40) DEF OnSwitch, SwitchFails, SeedArrived, SeedTimeout
    <3> QED BY <3>1 DEF Reply, Ready, NotReady, NoNewDecision
  <2>3. CASE OnStatus(n)
    BY <2>3 DEF OnStatus, Send, Outcome, NoNewDecision
  <2>4. CASE WatchdogStatus(n)
    BY <2>4 DEF WatchdogStatus, Send, Status, NoNewDecision
  <2>5. CASE OnDone(n) \/ OnAbort(n) \/ OnOutcome(n) \/ WatchdogIdle(n)
    <3>1. UNCHANGED msgs
      BY <2>5, ZenonT(40) DEF OnDone, OnAbort, OnOutcome, WatchdogIdle
    <3> QED BY <3>1, ZenonT(40) DEF NoNewDecision
  <2> QED BY <2>1, <2>2, <2>3, <2>4, <2>5, ZenonT(40) DEF Handler, Watchdog
<1> QED BY <1>1, <1>2, Stutter, ZenonT(40)

(***************************************************************************)
(* A step of Compact that moves on keeps its round.                        *)
(***************************************************************************)
LEMMA Advance ==
    ASSUME RoundInv, TypeOK, NEW n \in Node, NEW at, pc' = [pc EXCEPT ![n] = at],
           pc[n] \notin {"idle", "rollback", "commit"}, at \notin {"idle", "rollback"},
           \A k \in Node : co'[k].round = co[k].round,
           round' = round, NoNewDecision
    PROVE  RoundInv'
<1>1. \A k \in Node : /\ pc'[k] \in {"idle", "rollback"} <=> pc[k] \in {"idle", "rollback"}
                      /\ pc[k] = "commit" => pc'[k] = "commit"
  BY ZenonT(40) DEF TypeOK
<1> QED BY <1>1, Quiet, ZenonT(40)

LEMMA SameRound ==
    ASSUME TypeOK, NEW n \in Node, NEW f, co' = [co EXCEPT ![n] = f], f.round = co[n].round
    PROVE  \A k \in Node : co'[k].round = co[k].round
BY ZenonT(40) DEF TypeOK

LEMMA FrameRounds ==
    ASSUME NEW f \in Locals
    PROVE  /\ Stabler(f).round = f.round
           /\ \A u : WithUnion(f, u).round = f.round
           /\ \A g : WithReady(f, g).round = f.round
           /\ \A g : WithGenesis(f, g).round = f.round
<1>1. Stabler(f).round = f.round
  BY ZenonT(40) DEF Locals, Stabler
<1>2. \A u : WithUnion(f, u).round = f.round
  BY ZenonT(40) DEF Locals, WithUnion
<1>3. \A g : WithReady(f, g).round = f.round
  BY ZenonT(40) DEF Locals, WithReady
<1>4. \A g : WithGenesis(f, g).round = f.round
  BY ZenonT(40) DEF Locals, WithGenesis
<1> QED BY <1>1, <1>2, <1>3, <1>4, ZenonT(40)

LEMMA CoordinatorRounds ==
    ASSUME ~DiskFails, RoundInv, TypeOK, NEW n \in Node, Coordinator(n)
    PROVE  RoundInv'
<1>0. co[n] \in Locals
  BY ZenonT(40) DEF TypeOK
<1>1. CASE Freeze(n)
  <2>1. pc[n] = "freeze" /\ round' = round
    BY <1>1, ZenonT(40) DEF Freeze, Running
  <2>2. CASE /\ pc' = [pc EXCEPT ![n] = "prepare"]
             /\ co' = [co EXCEPT ![n] = WithUnion(@, Data(n))] /\ UNCHANGED msgs
    <3>1. \A k \in Node : co'[k].round = co[k].round
      BY <1>0, <2>2, FrameRounds, ZenonT(40) DEF TypeOK
    <3>2. NoNewDecision
      BY <2>2, ZenonT(40) DEF NoNewDecision
    <3>3. pc' = [pc EXCEPT ![n] = "prepare"]
      BY <2>2, ZenonT(40)
    <3> QED BY <2>1, <3>1, <3>2, <3>3, Advance, ZenonT(40)
  <2>3. CASE GiveUp(n)
    BY <2>1, <2>3, GiveUpRounds, ZenonT(40)
  <2> QED BY <1>1, <2>2, <2>3, ZenonT(40) DEF Freeze
<1>2. CASE SendPrepare(n)
  <2>1. /\ pc[n] = "prepare" /\ pc' = [pc EXCEPT ![n] = "collect"] /\ round' = round
        /\ UNCHANGED co /\ NoNewDecision
    BY <1>2 DEF SendPrepare, Running, Send, PrepareMsg, NoNewDecision
  <2> QED BY <2>1, Advance, ZenonT(40)
<1>3. CASE EvalPrepare(n)
  <2>1. pc[n] = "collect" /\ round' = round
    BY <1>3, ZenonT(40) DEF EvalPrepare, Running
  <2>2. \/ GiveUp(n)
        \/ /\ \E got : msgs' = msgs \ got
           /\ pc' = [pc EXCEPT ![n] = IF co[n].stable = 1 THEN "stage" ELSE "prepare"]
           /\ co' = [co EXCEPT ![n] = Stabler(@)]
        \/ /\ \E got : msgs' = msgs \ got
           /\ pc' = [pc EXCEPT ![n] = "prepare"]
           /\ \E u : co' = [co EXCEPT ![n] = WithUnion(Frame(@.round, @.members), u)]
    BY <1>3, Zenon, ZenonT(40) DEF EvalPrepare
  <2>3. CASE GiveUp(n)
    BY <2>1, <2>3, GiveUpRounds, ZenonT(40)
  <2>4. CASE /\ \E got : msgs' = msgs \ got
             /\ pc' = [pc EXCEPT ![n] = IF co[n].stable = 1 THEN "stage" ELSE "prepare"]
             /\ co' = [co EXCEPT ![n] = Stabler(@)]
    <3>1. \A k \in Node : co'[k].round = co[k].round
      BY <1>0, <2>4, FrameRounds, ZenonT(40) DEF TypeOK
    <3>2. NoNewDecision
      BY <2>4, ZenonT(40) DEF NoNewDecision
    <3>3. PICK at \in {"stage", "prepare"} : pc' = [pc EXCEPT ![n] = at]
      BY <2>4, ZenonT(40)
    <3> QED BY <2>1, <3>1, <3>2, <3>3, Advance, ZenonT(40)
  <2>5. CASE /\ \E got : msgs' = msgs \ got
             /\ pc' = [pc EXCEPT ![n] = "prepare"]
             /\ \E u : co' = [co EXCEPT ![n] = WithUnion(Frame(@.round, @.members), u)]
    <3>0. PICK u : co' = [co EXCEPT ![n] = WithUnion(Frame(co[n].round, co[n].members), u)]
      BY <2>5, ZenonT(40)
    <3>1. \A k \in Node : co'[k].round = co[k].round
      <4>1. WithUnion(Frame(co[n].round, co[n].members), u).round = co[n].round
        BY ZenonT(40) DEF WithUnion, Frame
      <4> QED BY <3>0, <4>1, ZenonT(40) DEF TypeOK
    <3>2. NoNewDecision
      BY <2>5, ZenonT(40) DEF NoNewDecision
    <3>3. pc' = [pc EXCEPT ![n] = "prepare"]
      BY <2>5, ZenonT(40)
    <3> QED BY <2>1, <3>1, <3>2, <3>3, Advance, ZenonT(40)
  <2> QED BY <2>2, <2>3, <2>4, <2>5, ZenonT(40)
<1>4. CASE PrepareDeadline(n) \/ SwitchDeadline(n)
  BY <1>4, GiveUpRounds, ZenonT(40) DEF PrepareDeadline, SwitchDeadline, Running
<1>5. CASE Stage(n)
  <2>1. /\ pc[n] = "stage" /\ pc' = [pc EXCEPT ![n] = "activate"] /\ round' = round
        /\ UNCHANGED msgs
        /\ \E g : co' = [co EXCEPT ![n] = WithGenesis(co[n], g)]
    BY <1>5, ZenonT(40) DEF Stage, Running
  <2>2. \A k \in Node : co'[k].round = co[k].round
    <3>1. PICK g : co' = [co EXCEPT ![n] = WithGenesis(co[n], g)]
      BY <2>1, ZenonT(40)
    <3>2. WithGenesis(co[n], g).round = co[n].round
      BY <1>0, FrameRounds, ZenonT(40) DEF TypeOK
    <3> QED BY <1>0, <3>1, <3>2, SameRound, ZenonT(40)
  <2>3. NoNewDecision
    BY <2>1, ZenonT(40) DEF NoNewDecision
  <2>4. /\ pc' = [pc EXCEPT ![n] = "activate"] /\ round' = round
        /\ pc[n] \notin {"idle", "rollback", "commit"}
        /\ "activate" \notin {"idle", "rollback"}
    BY <2>1, ZenonT(40)
  <2> QED BY <1>0, <2>2, <2>3, <2>4, Advance, ZenonT(40)
<1>6. CASE Activate(n)
  <2>1. /\ pc[n] = "activate" /\ pc' = [pc EXCEPT ![n] = "switch"] /\ round' = round
        /\ UNCHANGED co /\ NoNewDecision
    BY <1>6, ZenonT(40) DEF Activate, Running, NoNewDecision
  <2> QED BY <2>1, Advance, ZenonT(40)
<1>7. CASE SendSwitch(n)
  <2>1. /\ pc[n] = "switch" /\ pc' = [pc EXCEPT ![n] = "ready"] /\ round' = round
        /\ UNCHANGED co /\ NoNewDecision
    BY <1>7 DEF SendSwitch, Running, Send, SwitchMsg, NoNewDecision
  <2> QED BY <2>1, Advance, ZenonT(40)
<1>8. CASE EvalReady(n)
  <2>1. pc[n] = "ready" /\ round' = round
    BY <1>8, ZenonT(40) DEF EvalReady, Running
  <2>2. \/ GiveUp(n)
        \/ pc' = [pc EXCEPT ![n] = "done"] /\ UNCHANGED <<co, msgs>>
        \/ /\ pc' = [pc EXCEPT ![n] = "switch"] /\ UNCHANGED msgs
           /\ \E g : co' = [co EXCEPT ![n] = WithReady(@, g)]
    BY <1>8, Zenon, ZenonT(40) DEF EvalReady
  <2>3. CASE GiveUp(n)
    BY <2>1, <2>3, GiveUpRounds, ZenonT(40)
  <2>4. CASE pc' = [pc EXCEPT ![n] = "done"] /\ UNCHANGED <<co, msgs>>
    <3>1. NoNewDecision
      BY <2>4, ZenonT(40) DEF NoNewDecision
    <3> QED BY <2>1, <2>4, <3>1, Advance, ZenonT(40)
  <2>5. CASE /\ pc' = [pc EXCEPT ![n] = "switch"] /\ UNCHANGED msgs
             /\ \E g : co' = [co EXCEPT ![n] = WithReady(@, g)]
    <3>0. PICK g : co' = [co EXCEPT ![n] = WithReady(co[n], g)]
      BY <2>5, ZenonT(40)
    <3>1. \A k \in Node : co'[k].round = co[k].round
      <4>1. WithReady(co[n], g).round = co[n].round
        BY <1>0, FrameRounds, ZenonT(40) DEF TypeOK
      <4> QED BY <1>0, <3>0, <4>1, SameRound, ZenonT(40)
    <3>2. NoNewDecision
      BY <2>5, ZenonT(40) DEF NoNewDecision
    <3>3. pc' = [pc EXCEPT ![n] = "switch"]
      BY <2>5, ZenonT(40)
    <3> QED BY <2>1, <3>1, <3>2, <3>3, Advance, ZenonT(40)
  <2> QED BY <2>2, <2>3, <2>4, <2>5, ZenonT(40)
<1>9. CASE SendDone(n)
  BY <1>9, SendDoneRounds, ZenonT(40)
<1>10. CASE CommitRound(n) \/ RollbackRound(n)
  <2>1. /\ round' = round /\ co' = [co EXCEPT ![n] = NoFrame] /\ pc' = [pc EXCEPT ![n] = "idle"]
        /\ NoNewDecision
    BY <1>10, ZenonT(40) DEF CommitRound, RollbackRound, WithoutWaiter, NoNewDecision
  <2> QED BY <2>1, Dropped, ZenonT(40)
<1>11. ~CommitFails(n) /\ ~StageFails(n) /\ ~ActivateFails(n)
  BY ZenonT(40) DEF CommitFails, StageFails, ActivateFails, Unsaved
<1> QED BY <1>1, <1>2, <1>3, <1>4, <1>5, <1>6, <1>7, <1>8, <1>9, <1>10, <1>11, ZenonT(40)
           DEF Coordinator

LEMMA FaultRounds ==
    ASSUME RoundInv, TypeOK, NEW n \in Node, Fault(n)
    PROVE  RoundInv'
<1>1. CASE Dies(n)
  <2>1. /\ round' = round /\ co' = [co EXCEPT ![n] = NoFrame] /\ pc' = [pc EXCEPT ![n] = "idle"]
        /\ NoNewDecision
    BY <1>1, ZenonT(40) DEF Dies, WithoutWaiter, NoNewDecision
  <2> QED BY <2>1, Dropped, ZenonT(40)
<1>2. CASE Restart(n)
  <2>1. UNCHANGED <<co, pc, round>> /\ NoNewDecision
    BY <1>2, ZenonT(40) DEF Restart, InFlight, NoNewDecision
  <2> QED BY <2>1, Stutter, ZenonT(40)
<1> QED BY <1>1, <1>2, ZenonT(40) DEF Fault, Crash, CrashInActivate, CrashInRollback

-----------------------------------------------------------------------------
LEMMA InitRounds == Init => RoundInv
BY DEF Init, RoundInv, Framed, Apart, DoneLast, AbortLast, OneOutcome, NoFrame, Frame, NoRound

LEMMA NextRounds == ~DiskFails /\ TypeOK /\ RoundInv /\ [Next]_vars => RoundInv'
<1> SUFFICES ASSUME ~DiskFails, TypeOK, RoundInv, [Next]_vars PROVE RoundInv'
  BY ZenonT(40)
<1>1. CASE UNCHANGED vars
  <2>1. UNCHANGED <<co, pc, round>> /\ NoNewDecision
    BY <1>1, ZenonT(40) DEF vars, NoNewDecision
  <2> QED BY <2>1, Stutter, ZenonT(40)
<1>2. CASE Next
  BY <1>2, ClientRounds, HandlerRounds, CompactRounds, CoordinatorRounds, FaultRounds, ZenonT(40)
     DEF Next
<1> QED BY <1>1, <1>2, ZenonT(40)

(***************************************************************************)
(* No round is announced both done and aborted: Compact sends done only    *)
(* where its deferred abort can no longer run, and no later Compact reuses *)
(* the round.  The Commit that follows done must not fail: see CommitFails.*)
(***************************************************************************)
THEOREM OneOutcomeAlways == ~DiskFails => (Spec => []OneOutcome)
<1> SUFFICES ASSUME ~DiskFails PROVE Spec => []OneOutcome
  BY ZenonT(40)
<1>0. TypeOK /\ RoundInv /\ [Next]_vars => RoundInv'
  BY NextRounds, ZenonT(40)
<1>1. RoundInv => OneOutcome
  BY ZenonT(40) DEF RoundInv
<1> QED BY <1>0, <1>1, InitRounds, TypeCorrect, PTL DEF Spec

=============================================================================
