------------------------- MODULE RotationInvariants -------------------------
(***************************************************************************)
(* The inductive invariants of Rotation: what ties the state of a node     *)
(* together, what a round has announced, where the replicas stand with     *)
(* respect to the coordinator.                                             *)
(***************************************************************************)
EXTENDS Rotation

(***************************************************************************)
(* What ties the gate, the generations, the participant state and the      *)
(* frame of Compact together on one node; what a dead process leaves.      *)
(***************************************************************************)
Owned(n) ==
    /\ up[n] => (eng[n].frozen <=> part[n].phase # "none" \/ pc[n] # "idle")
    /\ up[n] => (eng[n].prev # NoGen <=> part[n].phase = "switched" \/ pc[n] \in Activating)
    /\ ~up[n] => pc[n] = "idle" /\ part[n].phase = "none"
    /\ pc[n] = "rollback" => part[n].phase = "none"
    /\ pc[n] \notin {"idle", "rollback"} => part[n].phase = "prepared"
    /\ pc[n] = "activate" => eng[n].gen < MaxGen

ControlInv == TypeOK /\ \A n \in Node : Owned(n)

(***************************************************************************)
(* Every running Compact has a round of its own; a decision in flight is   *)
(* of a round some Compact has had, a done is that of a frame about to     *)
(* commit or of none at all, an abort is that of no frame.                 *)
(***************************************************************************)
Framed(n) ==
    /\ co[n].round <= round
    /\ co[n].round = NoRound <=> pc[n] \in {"idle", "rollback"}

Apart == \A m, n \in Node : co[m].round # NoRound /\ co[m].round = co[n].round => m = n

Decided(r) == r # NoRound /\ r <= round

DoneLast ==
    \A m \in msgs : m.t = "done" => /\ Decided(m.round)
                                    /\ \A n \in Node : co[n].round = m.round => pc[n] = "commit"

AbortLast ==
    \A m \in msgs : m.t = "abort" => /\ Decided(m.round)
                                     /\ \A n \in Node : co[n].round # m.round

RoundInv == (\A n \in Node : Framed(n)) /\ Apart /\ DoneLast /\ AbortLast /\ OneOutcome

(***************************************************************************)
(* Without a crash or an error inside persistGen, the disk holds the       *)
(* generation and the previous one that the memory holds (or held, when    *)
(* the process is down).                                                   *)
(***************************************************************************)
Sound == Torn = {} /\ ~DiskFails
Synced == \A n \in Node : disk[n] = Persisted(eng[n])

-----------------------------------------------------------------------------
Lead == CHOOSE n \in Node : Coordinators = {n}
Others == Node \ {Lead}

(***************************************************************************)
(* The deployments the results are about: one coordinator, which does not  *)
(* crash and knows every replica; control messages do not outlive their    *)
(* round; the disk works.                                                  *)
(***************************************************************************)
Steady ==
    /\ Lead \in Node /\ Coordinators = {Lead}
    /\ Lead \notin Mortal \/ MaxCrashes = 0
    /\ InitMembers[Lead] = Others
    /\ ~Linger /\ Sound

(***************************************************************************)
(* What is assumed of delivery: when the cut is taken, no answer to an     *)
(* earlier status question is still on its way.                            *)
(***************************************************************************)
OutcomesHeard ==
    \A n \in Node : pc[n] = "collect" /\ pc'[n] = "stage"
                        => ~\E m \in msgs : m.t = "outcome" /\ m.idle

(***************************************************************************)
(* The generation a round starts from, and where a replica stands with     *)
(* respect to it: on it, activated past it, still in doubt about it,       *)
(* committed past it.                                                      *)
(***************************************************************************)
Base == IF eng[Lead].prev = NoGen THEN eng[Lead].gen ELSE eng[Lead].prev
On(n)    == eng[n].gen = Base /\ eng[n].prev = NoGen
Ahead(n) == eng[n].gen = Base + 1 /\ eng[n].prev = Base
Late(n)  == eng[n].gen = Base /\ eng[n].prev = Base - 1 /\ eng[n].prev # NoGen
Past(n)  == eng[n].gen = Base + 1 /\ eng[n].prev = NoGen

Gathering == {"freeze", "prepare", "collect"}
Cutting   == {"stage", "activate"}
Switching == {"switch", "ready"}
Ending    == {"done", "commit"}
Open      == Cutting \cup Switching

Sent(type) == \E m \in msgs : m.t = type
ReadyOK(n) == \E m \in msgs : m.t = "ready" /\ m.ok /\ m.from = n

(***************************************************************************)
(* Nobody but Lead coordinates, and its frame is that of the last round.   *)
(***************************************************************************)
Alone ==
    /\ up[Lead] /\ waiting[Lead] = {} /\ members[Lead] = Others
    /\ \A n \in Others : pc[n] = "idle" /\ co[n] = NoFrame
    /\ pc[Lead] = "idle" => part[Lead].phase = "none"
    /\ pc[Lead] \in Activating => eng[Lead].gen = eng[Lead].prev + 1
    /\ co[Lead].round # NoRound => co[Lead].members = Others /\ co[Lead].round = round

(***************************************************************************)
(* A replica that takes part knows the coordinator, whose answers about an *)
(* outcome are always definite.                                            *)
(***************************************************************************)
Informed ==
    /\ \A n \in Others : part[n].phase # "none" \/ InDoubt(n) => Lead \in members[n]
    /\ \A n \in Node : \A r \in replies[n].got : r.from = Lead => r.idle
    /\ \A m \in msgs : m.t = "outcome" /\ m.from = Lead => m.idle

(***************************************************************************)
(* What is in flight belongs to the last round.                            *)
(***************************************************************************)
Fresh ==
    /\ \A n \in Node : /\ part[n].round <= round
                       /\ \A w \in waiting[n] : w.round # NoRound /\ w.round <= round
    /\ \A m \in msgs :
          /\ m.t \in {"prepare", "switch", "done", "abort"} => m.from = Lead
          /\ m.t \in {"prepared", "ready"} => m.from # Lead
          /\ m.t \in {"prepare", "switch", "done", "abort", "prepared", "ready"}
                => m.round = round /\ round # NoRound

(***************************************************************************)
(* What may have been sent at each point of Compact.                       *)
(***************************************************************************)
Announced ==
    /\ pc[Lead] \in Gathering \cup Cutting =>
          /\ ~Sent("switch") /\ ~Sent("ready") /\ co[Lead].ready = {}
          /\ \A n \in Node : \A w \in waiting[n] : w.round # round
    /\ Sent("done") => pc[Lead] \in {"commit", "idle"}
    /\ Sent("abort") => pc[Lead] \in {"idle", "rollback"}
    /\ pc[Lead] \in {"idle", "rollback"} /\ (Sent("prepare") \/ Sent("switch"))
          => Sent("done") \/ Sent("abort")
    /\ pc[Lead] = "commit" /\ (Sent("prepare") \/ Sent("switch")) => Sent("done")

(***************************************************************************)
(* A member that has not said ready and has no goroutine that will; one    *)
(* that was lost to the round on top of that.                              *)
(***************************************************************************)
NotYet(n) == /\ n \notin co[Lead].ready /\ ~ReadyOK(n)
             /\ \A w \in waiting[n] : w.round # round
Lost(n) == On(n) /\ part[n].phase = "none" /\ NotYet(n)
SomeLost == \E n \in Others : Lost(n)

Placed(n) ==
    /\ pc[Lead] \in {"idle"} \cup Gathering => On(n) \/ Ahead(n) \/ Late(n)
    /\ pc[Lead] = "idle" /\ Sent("done") => On(n) \/ Late(n)
    /\ pc[Lead] \in Cutting => On(n)
    /\ pc[Lead] \in Switching \cup {"rollback"} => On(n) \/ Ahead(n)
    /\ pc[Lead] = "done" => Ahead(n)
    /\ pc[Lead] = "commit" => Ahead(n) \/ Past(n)
    /\ Late(n) /\ part[n].round = round /\ round # NoRound
          => pc[Lead] = "idle" /\ ~Sent("abort")
Generations == \A n \in Others : Placed(n)

(***************************************************************************)
(* What a settled replica may have told one in doubt.                      *)
(***************************************************************************)
Told(m) ==
    /\ pc[Lead] \in Open => SomeLost
    /\ pc[Lead] # "done"
    /\ m.gen = IF pc[Lead] = "commit" THEN Base + 1 ELSE Base
Outcomes == \A m \in msgs : m.t = "outcome" /\ m.idle => Told(m)

(***************************************************************************)
(* A member that joined the gathering is still in it, unless it died; once *)
(* the cut is taken nobody joins it any more.                              *)
(***************************************************************************)
InRound(n) == part[n].phase = "prepared" /\ part[n].round = round
Joined ==
    pc[Lead] \in Gathering =>
        \A m \in msgs : m.t = "prepared" /\ m.ok => On(m.from) /\ (up[m.from] => InRound(m.from))

NoRejoin ==
    pc[Lead] \in Open \cup Ending \/ Sent("done") =>
        \A n \in Others :
            up[n] /\ Sent("prepare") =>
                IF part[n].phase = "none" THEN round \in left[n] ELSE part[n].round = round

(***************************************************************************)
(* Past the cut every member has switched, still can, or is lost: a round  *)
(* with a lost member cannot be committed.                                 *)
(***************************************************************************)
Accounted ==
    /\ pc[Lead] \in Open =>
          /\ \A n \in Others : part[n].phase = "prepared" => NotYet(n) /\ part[n].round = round
          /\ SomeLost \/ \A n \in Others : Ahead(n) \/ part[n].phase = "prepared"
    /\ pc[Lead] \in Ending \/ Sent("done") => \A n \in Others : part[n].phase # "prepared"

AgreeInv == /\ Alone /\ Informed /\ Fresh /\ Announced
            /\ Generations /\ Outcomes /\ Joined /\ NoRejoin /\ Accounted

Inv == ControlInv /\ Synced /\ RoundInv /\ AgreeInv

(***************************************************************************)
(* A round that has lost a member stays without it.                        *)
(***************************************************************************)
LostStays == pc[Lead] \in Open /\ pc'[Lead] \in Open /\ SomeLost => SomeLost'

(***************************************************************************)
(* What the lemmas about one step assume and prove.                        *)
(***************************************************************************)
Before    == Steady /\ Inv
Sane      == ControlInv
Preserved == AgreeInv' /\ LostStays

=============================================================================
