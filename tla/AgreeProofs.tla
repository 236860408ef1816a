----------------------------- MODULE AgreeProofs -----------------------------
(***************************************************************************)
(* One step of a client, a participant or its failure keeps every replica  *)
(* where the coordinator's round accounts for it.                          *)
(***************************************************************************)
EXTENDS RotationProofs

(***************************************************************************)
(* A message that changes nothing of the above.                            *)
(***************************************************************************)
Harmless(m) ==
    \/ m.t = "status"
    \/ m.t = "outcome" /\ (m.from = Lead => m.idle) /\ (m.idle => Told(m))
    \/ /\ m.t = "prepared" /\ m.from # Lead /\ m.round = round /\ round # NoRound
       /\ m.ok => On(m.from) /\ InRound(m.from)
    \/ /\ m.t = "ready" /\ m.from # Lead /\ m.round = round /\ round # NoRound
       /\ pc[Lead] \notin Gathering \cup Cutting
       /\ m.ok => ~NotYet(m.from)

QuietStep ==
    /\ UNCHANGED <<up, pc, co, round, left>>
    /\ \A n \in Node : /\ eng'[n].gen = eng[n].gen /\ eng'[n].prev = eng[n].prev
                       /\ part'[n].phase = part[n].phase /\ part'[n].round = part[n].round
                       /\ members[n] \subseteq members'[n]
    /\ members'[Lead] = members[Lead] /\ waiting'[Lead] = waiting[Lead]
    /\ \A n \in Node : \A w \in waiting'[n] :
          \/ w \in waiting[n]
          \/ /\ w.round = round /\ round # NoRound /\ part[n].phase = "switched"
             /\ pc[Lead] \notin Gathering \cup Cutting
    /\ \A n \in Node : \A r \in replies'[n].got : r.from = Lead => r.idle
    /\ msgs \subseteq msgs' /\ \A m \in msgs' : m \in msgs \/ Harmless(m)

LEMMA QuietAgree ==
    ASSUME Before, Sane', QuietStep
    PROVE  Preserved
<1> USE DEF QuietStep
<1>0. /\ Lead \in Node /\ ControlInv /\ Alone /\ Informed /\ Fresh /\ Announced /\ Generations
      /\ Outcomes /\ Joined /\ NoRejoin /\ Accounted
  BY Opened, ZenonT(40) DEF AgreeInv, Steady
<1>1. /\ Base' = Base
      /\ \A n \in Node : /\ On(n)' = On(n) /\ Ahead(n)' = Ahead(n) /\ Late(n)' = Late(n)
                         /\ Past(n)' = Past(n) /\ InRound(n)' = InRound(n)
                         /\ InDoubt(n)' = InDoubt(n)
  BY <1>0, ZenonT(40) DEF Base, On, Ahead, Late, Past, InRound, InDoubt
<1>2. \A type \in {"prepare", "switch", "done", "abort"} : Sent(type)' = Sent(type)
  BY ZenonT(40) DEF Sent, Harmless
<1>3. \A n \in Others : part[n].phase # "switched" /\ NotYet(n) => NotYet(n)'
  BY <1>0 DEF NotYet, ReadyOK, Harmless, Others
<1>4. SomeLost => SomeLost'
  BY <1>0, <1>1, <1>3, ZenonT(40) DEF SomeLost, Lost, Others
<1>5. Alone' /\ Informed' /\ Fresh'
  BY <1>0, <1>1, Numbers DEF Alone, Informed, Fresh, Others, Harmless
<1>6. Announced'
  BY <1>0, <1>2 DEF Announced, Harmless, Sent
<1>7. Generations'
  BY <1>0, <1>1, <1>2, ZenonT(40) DEF Generations, Placed, Others
<1>8. Outcomes'
  BY <1>0, <1>1, <1>4, ZenonT(40) DEF Outcomes, Told, Harmless
<1>9. Joined'
  <2>1. \A m \in msgs' : m.from \in Node
    BY Senders, ZenonT(40)
  <2> QED BY <1>0, <1>1, <2>1, ZenonT(40) DEF Joined, Harmless, InRound
<1>11. NoRejoin'
  BY <1>0, <1>2, ZenonT(120) DEF NoRejoin, Others
<1>10. Accounted'
  BY <1>0, <1>1, <1>2, <1>3, <1>4 DEF Accounted, Others
<1> QED BY <1>4, <1>5, <1>6, <1>7, <1>8, <1>9, <1>10, <1>11, ZenonT(40)
           DEF Preserved, AgreeInv, LostStays

(***************************************************************************)
(* What a handler learns, and what becomes of a reply.                     *)
(***************************************************************************)
LEMMA Handled ==
    ASSUME Before, NEW n \in Node, NEW m \in msgs, Handles(n, m)
    PROVE  /\ up[n] /\ pc[n] = "idle" /\ m \in Message /\ m.from \in Node
           /\ \A k \in Node : members[k] \subseteq members'[k]
           /\ members'[Lead] = members[Lead]
           /\ m.from # n => m.from \in members'[n]
<1>1. m \in Message /\ m.from \in Node /\ members \in [Node -> SUBSET Node]
  BY Opened, MessageFields, ZenonT(40) DEF ControlInv, TypeOK
<1>2. Lead \in Node /\ members[Lead] = Others
  BY Opened, ZenonT(40) DEF Steady, AgreeInv, Alone
<1> QED BY <1>1, <1>2, ZenonT(40) DEF Handles, Learn, Coordinating, Others

LEMMA Replied ==
    ASSUME Before, NEW m, m.round # NoRound, Reply(m)
    PROVE  /\ msgs \subseteq msgs'
           /\ \A q \in msgs' : \/ q \in msgs
                               \/ /\ q = m /\ m.round = round /\ round # NoRound
                                  /\ pc[Lead] \notin {"idle", "rollback"}
<1>1. CASE \E k \in Node : co[k].round = m.round
  <2>1. PICK k \in Node : co[k].round = m.round
    BY <1>1, ZenonT(40)
  <2>2. k = Lead
    BY Opened, <2>1 DEF AgreeInv, Alone, Others, NoFrame, Frame
  <2>3. m.round = round /\ round # NoRound /\ pc[Lead] \notin {"idle", "rollback"}
    BY Opened, <2>1, <2>2, AtLead, ZenonT(40) DEF AgreeInv, Alone
  <2> QED BY <1>1, <2>3, ZenonT(40) DEF Reply
<1> QED BY <1>1, ZenonT(40) DEF Reply

LEMMA ClientAgree ==
    ASSUME Before, Sane', NEW n \in Node, Client(n)
    PROVE  Preserved
<1>1. UNCHANGED <<up, eng, part, pc, co, members, replies, waiting, msgs, round, left>>
  BY ZenonT(40) DEF Client, PutKey, DeleteKey
<1>2. \A k \in Node : \A r \in replies'[k].got : r.from = Lead => r.idle
  BY Opened, <1>1, ZenonT(40) DEF AgreeInv, Informed
<1> QED BY <1>1, <1>2, QuietAgree, ZenonT(40) DEF QuietStep

LEMMA PeerAgree ==
    ASSUME Before, Sane', NEW n \in Node, Peer(n)
    PROVE  Preserved
<1>1. UNCHANGED <<up, eng, part, pc, co, replies, waiting, msgs, round, left>>
  BY ZenonT(40) DEF Peer, Replicate, Hello
<1>2. /\ \A k \in Node : members[k] \subseteq members'[k]
      /\ members'[Lead] = members[Lead]
  <2>1. CASE UNCHANGED members
    BY <2>1, ZenonT(40)
  <2>2. CASE \E m \in Node : m # n /\ m \notin members[n] /\ Learn(n, m)
    BY Opened, <2>2 DEF Learn, ControlInv, TypeOK, AgreeInv, Alone, Others, Steady
  <2> QED BY <2>1, <2>2, ZenonT(40) DEF Peer, Replicate, Hello
<1>3. \A k \in Node : \A r \in replies'[k].got : r.from = Lead => r.idle
  BY Opened, <1>1, ZenonT(40) DEF AgreeInv, Informed
<1> QED BY <1>1, <1>2, <1>3, QuietAgree, ZenonT(40) DEF QuietStep

(***************************************************************************)
(* onPrepare.  Whoever joins does so before the cut, or after the round is *)
(* given up: past the cut every member has joined, or died.                *)
(***************************************************************************)
JoinStep(n) ==
    /\ n \in Others /\ up[n] /\ part[n].phase = "none" /\ ~InDoubt(n)
    /\ round \notin left[n] /\ Sent("prepare")
    /\ UNCHANGED <<up, pc, co, round, left, waiting, replies>>
    /\ \A k \in Node : /\ eng'[k].gen = eng[k].gen /\ eng'[k].prev = eng[k].prev
                       /\ members[k] \subseteq members'[k]
    /\ part'[n].phase = "prepared" /\ part'[n].round = round
    /\ \A k \in Node \ {n} : part'[k] = part[k]
    /\ members'[Lead] = members[Lead] /\ Lead \in members'[n]
    /\ msgs \subseteq msgs'
    /\ \A q \in msgs' : \/ q \in msgs
                        \/ q.t = "prepared" /\ q.from = n /\ q.round = round /\ round # NoRound

LEMMA JoinAgree ==
    ASSUME Before, Sane', NEW n, JoinStep(n)
    PROVE  Preserved
<1> USE DEF JoinStep
<1>0. /\ Lead \in Node /\ n \in Node /\ n # Lead /\ ControlInv /\ Alone /\ Informed /\ Fresh
      /\ Announced /\ Generations /\ Outcomes /\ Joined /\ NoRejoin
  BY Opened, ZenonT(40) DEF AgreeInv, Steady, Others
<1>1. /\ Base' = Base
      /\ \A k \in Node : /\ On(k)' = On(k) /\ Ahead(k)' = Ahead(k) /\ Late(k)' = Late(k)
                         /\ Past(k)' = Past(k) /\ InDoubt(k)' = InDoubt(k)
  BY <1>0, ZenonT(40) DEF Base, On, Ahead, Late, Past, InDoubt
<1>2. \A type \in {"prepare", "switch", "done", "abort", "ready", "outcome"} : Sent(type)' = Sent(type)
  BY ZenonT(40) DEF Sent
<1>3. pc[Lead] \in Gathering \cup {"idle", "rollback"} /\ ~Sent("done")
  <2>1. pc[Lead] \in PCs
    BY <1>0, AtLead, ZenonT(40)
  <2> QED BY <1>0, <2>1, ZenonT(40)
             DEF NoRejoin, Open, Cutting, Switching, Ending, Gathering, PCs, Activating
<1>4. Alone' /\ Informed'
  <2>1. Alone'
    BY <1>0, <1>1, ZenonT(40) DEF Alone, Others
  <2>2. Informed'
    BY <1>0, <1>1, ZenonT(40) DEF Informed, Others
  <2> QED BY <2>1, <2>2
<1>12. Fresh'
  <2>1. \A k \in Node : part'[k].round <= round
    BY <1>0, Standing, ZenonT(40) DEF Fresh
  <2>2. \A k \in Node : \A w \in waiting'[k] : w.round # NoRound /\ w.round <= round
    BY <1>0, ZenonT(40) DEF Fresh
  <2>3. ASSUME NEW m \in msgs'
        PROVE  /\ m.t \in {"prepare", "switch", "done", "abort"} => m.from = Lead
               /\ m.t \in {"prepared", "ready"} => m.from # Lead
               /\ m.t \in {"prepare", "switch", "done", "abort", "prepared", "ready"}
                     => m.round = round /\ round # NoRound
    <3>1. CASE m \in msgs
      BY <1>0, <3>1, ZenonT(40) DEF Fresh
    <3>2. CASE m \notin msgs
      BY <1>0, <3>2, ZenonT(40)
    <3> QED BY <3>1, <3>2
  <2>4. round' = round
    BY ZenonT(40)
  <2> HIDE DEF JoinStep
  <2> QED BY <2>1, <2>2, <2>3, <2>4, ZenonT(40) DEF Fresh
<1>5. Announced'
  BY <1>0, <1>2, ZenonT(40) DEF Announced
<1>6. On(n) \/ pc[Lead] \notin Gathering
  BY <1>0, Standing, ZenonT(40) DEF Generations, Placed
<1>7. Generations'
  <2>1. ~Late(n)
    BY <1>0, Standing, ZenonT(40)
  <2>2. ASSUME NEW k \in Others PROVE Placed(k)'
    <3>1. k \in Node /\ Placed(k) /\ pc' = pc /\ round' = round
      BY <1>0, ZenonT(40) DEF Generations, Others
    <3>2. Late(k) => part'[k] = part[k]
      BY <3>1, <2>1, ZenonT(40)
    <3> QED BY <1>1, <1>2, <3>1, <3>2, ZenonT(40) DEF Placed
  <2> QED BY <2>2, ZenonT(40) DEF Generations
<1>8. Outcomes'
  BY <1>0, <1>1, <1>3, ZenonT(40) DEF Outcomes, Told, Open, Cutting, Switching, Gathering
<1>9. Joined'
  <2>1. \A m \in msgs' : m.from \in Node
    BY Senders, ZenonT(40)
  <2> QED BY <1>0, <1>1, <1>6, <2>1 DEF Joined, InRound
<1>10. NoRejoin' /\ Accounted'
  BY <1>2, <1>3, ZenonT(40) DEF NoRejoin, Accounted, Open, Cutting, Switching, Ending, Gathering
<1>11. LostStays
  BY <1>3, ZenonT(40) DEF LostStays, Open, Cutting, Switching, Gathering
<1> QED BY <1>4, <1>5, <1>7, <1>8, <1>9, <1>10, <1>11, <1>12, ZenonT(40) DEF Preserved, AgreeInv

LEMMA OnPrepareAgree ==
    ASSUME Before, Sane', NEW n \in Node, OnPrepare(n)
    PROVE  Preserved
<1>0. Lead \in Node /\ ControlInv /\ Informed /\ Fresh /\ Generations /\ Accounted /\ TypeOK
  BY Opened, ZenonT(40) DEF AgreeInv, Steady, ControlInv
<1>1. PICK m \in Inbox(n, "prepare") : OnPrepare(n)!1!(m)
  BY ZenonT(40) DEF OnPrepare
<1>2. /\ m \in msgs /\ m.t = "prepare" /\ m.from # n /\ m.from = Lead /\ m.round = round
      /\ round # NoRound
  BY <1>0, <1>1, ZenonT(40) DEF Inbox, Fresh
<1>3. /\ n \in Others /\ up[n] /\ pc[n] = "idle" /\ Lead \in members'[n]
      /\ \A k \in Node : members[k] \subseteq members'[k]
      /\ members'[Lead] = members[Lead] /\ Sent("prepare")
  BY <1>0, <1>1, <1>2, Handled, ZenonT(40) DEF Others, Sent
<1>4. UNCHANGED <<up, pc, co, round, left, waiting, replies>>
  BY ZenonT(40) DEF OnPrepare
<1>5. \A k \in Node : \A r \in replies'[k].got : r.from = Lead => r.idle
  BY <1>0, <1>4, ZenonT(40) DEF Informed
<1>6. round \notin left[n]
  BY Opened, <1>1, <1>2, ZenonT(40) DEF Steady
<1> DEFINE yes == PreparedReply(n, m.round, m.union)
           no == PreparedRefusal(n, m.round)
<1>7. /\ yes.t = "prepared" /\ yes.from = n /\ yes.round = round /\ yes.ok
      /\ no.t = "prepared" /\ no.from = n /\ no.round = round /\ ~no.ok
  BY <1>2, ZenonT(40) DEF PreparedReply, PreparedRefusal
<1> HIDE DEF yes, no
<1>8. CASE part[n].phase = "prepared" /\ part[n].round = m.round /\ Reply(yes) /\ UNCHANGED <<eng, part>>
  <2>1. /\ msgs \subseteq msgs'
        /\ \A q \in msgs' : q \in msgs \/ (q = yes /\ pc[Lead] \notin {"idle", "rollback"})
    BY <1>2, <1>7, <1>8, Replied, ZenonT(40)
  <2>2. pc[Lead] \in Open \cup Gathering => On(n)
    <3>1. eng[n].prev = NoGen
      BY <1>0, <1>3, <1>8, ZenonT(40) DEF ControlInv, Owned, Activating
    <3> QED BY <1>0, <1>3, <3>1, Numbers
               DEF Generations, Placed, Ahead, Late, Open, Cutting, Switching
  <2>3. pc[Lead] \notin Ending
    BY <1>0, <1>3, <1>8, ZenonT(40) DEF Accounted
  <2>4. \A q \in msgs' : q \in msgs \/ Harmless(q)
    BY <1>0, <1>2, <1>3, <1>7, <1>8, <2>1, <2>2, <2>3, AtLead, ZenonT(40)
       DEF Harmless, InRound, Others, PCs, Activating, Ending, Open, Cutting, Switching, Gathering
  <2> QED BY <1>3, <1>4, <1>5, <1>8, <2>1, <2>4, QuietAgree, ZenonT(40) DEF QuietStep
<1>9. CASE Reply(no) /\ UNCHANGED <<eng, part>>
  <2>1. msgs \subseteq msgs' /\ \A q \in msgs' : q \in msgs \/ Harmless(q)
    BY <1>2, <1>3, <1>7, <1>9, Replied, ZenonT(40) DEF Harmless, Others
  <2> QED BY <1>3, <1>4, <1>5, <1>9, <2>1, QuietAgree, ZenonT(40) DEF QuietStep
<1>10. CASE /\ part[n].phase = "none" /\ ~InDoubt(n)
            /\ eng' = [eng EXCEPT ![n] = Frozen(@)]
            /\ part' = [part EXCEPT ![n] = Prepared(m.round)] /\ Reply(yes)
  <2>1. /\ msgs \subseteq msgs'
        /\ \A q \in msgs' : \/ q \in msgs
                            \/ q.t = "prepared" /\ q.from = n /\ q.round = round /\ round # NoRound
    BY <1>2, <1>7, <1>10, Replied, ZenonT(40)
  <2>2. /\ part'[n].phase = "prepared" /\ part'[n].round = round
        /\ \A k \in Node \ {n} : part'[k] = part[k]
    BY <1>0, <1>2, <1>3, <1>10, ZenonT(40) DEF TypeOK, Prepared
  <2>3. \A k \in Node : eng'[k].gen = eng[k].gen /\ eng'[k].prev = eng[k].prev
    <3>1. Frozen(eng[n]).gen = eng[n].gen /\ Frozen(eng[n]).prev = eng[n].prev
      BY Opened, AtNode, FrozenFields, ZenonT(40)
    <3> QED BY <1>0, <1>10, <3>1, ZenonT(40) DEF TypeOK
  <2> QED BY <1>3, <1>4, <1>6, <1>10, <2>1, <2>2, <2>3, JoinAgree, ZenonT(40) DEF JoinStep
<1> QED BY <1>1, <1>8, <1>9, <1>10, ZenonT(40) DEF yes, no

(***************************************************************************)
(* onSwitch.  A prepared participant that hears the switch is on Base, and *)
(* the round is not over, or was given up.                                 *)
(***************************************************************************)
SwitchStep(n) ==
    /\ n \in Others /\ up[n] /\ part[n].phase = "prepared"
    /\ part[n].round = round /\ round # NoRound /\ Sent("switch")
    /\ UNCHANGED <<up, pc, co, round, left, msgs, replies>>
    /\ eng'[n].gen = eng[n].gen + 1 /\ eng'[n].prev = eng[n].gen
    /\ part'[n].phase = "switched" /\ part'[n].round = round
    /\ \A w \in waiting'[n] : w \in waiting[n] \/ w.round = round
    /\ \A k \in Node \ {n} : eng'[k] = eng[k] /\ part'[k] = part[k] /\ waiting'[k] = waiting[k]
    /\ \A k \in Node : members[k] \subseteq members'[k]
    /\ members'[Lead] = members[Lead]

LEMMA SwitchAgree ==
    ASSUME Before, Sane', NEW n, SwitchStep(n)
    PROVE  Preserved
<1> USE DEF SwitchStep
<1>0. /\ Lead \in Node /\ n \in Node /\ n # Lead /\ ControlInv /\ Alone /\ Informed /\ Fresh
      /\ Announced /\ Generations /\ Outcomes /\ Joined /\ NoRejoin /\ Accounted
  BY Opened, ZenonT(40) DEF AgreeInv, Steady, Others
<1>1. /\ Base' = Base
      /\ \A k \in Node \ {n} : /\ On(k)' = On(k) /\ Ahead(k)' = Ahead(k) /\ Late(k)' = Late(k)
                               /\ Past(k)' = Past(k) /\ InDoubt(k)' = InDoubt(k)
                               /\ InRound(k)' = InRound(k)
  <2>1. Base' = Base
    BY <1>0, ZenonT(40) DEF Base
  <2> QED BY <1>0, <2>1, ZenonT(40) DEF On, Ahead, Late, Past, InDoubt, InRound
<1>2. \A type : Sent(type)' = Sent(type)
  BY ZenonT(40) DEF Sent
<1>3. pc[Lead] \in Switching \cup {"idle", "rollback"} /\ ~Sent("done")
  BY <1>0, AtLead, ZenonT(40)
     DEF Announced, Accounted, Gathering, Cutting, Switching, Ending, PCs, Activating
<1>4. Ahead(n)' /\ ~Late(n)'
  <2>1. eng[n].prev = NoGen
    BY <1>0, ZenonT(40) DEF ControlInv, Owned, Activating, Alone
  <2>2. On(n)
    BY <1>0, <1>3, <2>1, Standing, ZenonT(40) DEF Generations, Placed, InDoubt
  <2>3. Ahead(n)' /\ ~Late(n)'
    BY <1>0, <1>1, <2>2, Standing, ZenonT(40) DEF On, Ahead, Late
  <2> QED BY <2>3
<1>5. Alone'
  BY <1>0, <1>1, ZenonT(40) DEF Alone, Others
<1>6. Informed'
  BY <1>0, <1>1, ZenonT(40) DEF Informed, Others
<1>14. Fresh'
  <2>1. \A k \in Node : part'[k].round <= round
    BY <1>0, Standing, ZenonT(40) DEF Fresh
  <2>2. \A k \in Node : \A w \in waiting'[k] : w.round # NoRound /\ w.round <= round
    BY <1>0, Standing, ZenonT(40) DEF Fresh
  <2> QED BY <1>0, <2>1, <2>2, ZenonT(40) DEF Fresh
<1>7. Announced'
  BY <1>0, <1>2, <1>3, ZenonT(40) DEF Announced, Gathering, Cutting, Switching
<1>8. Generations'
  BY <1>0, <1>1, <1>2, <1>3, <1>4, Numbers, ZenonT(40)
     DEF Generations, Placed, Others, Gathering, Cutting, Switching
<1>9. \A k \in Others \ {n} : NotYet(k)' = NotYet(k) /\ Lost(k)' = Lost(k)
  BY <1>0, <1>1, ZenonT(40) DEF NotYet, Lost, ReadyOK, Others
<1>10. ~Lost(n) /\ (SomeLost => SomeLost')
  BY <1>0, <1>9, ZenonT(40) DEF SomeLost, Lost
<1>11. Outcomes'
  BY <1>0, <1>1, <1>10, ZenonT(40) DEF Outcomes, Told
<1>12. Joined' /\ NoRejoin'
  BY <1>0, <1>2, <1>3, ZenonT(40) DEF Joined, NoRejoin, Gathering, Switching, Others
<1>13. Accounted'
  BY <1>0, <1>1, <1>2, <1>3, <1>4, <1>9, <1>10, ZenonT(120)
     DEF Accounted, Open, Cutting, Switching, Ending, Others
<1> QED BY <1>5, <1>6, <1>7, <1>8, <1>10, <1>11, <1>12, <1>13, <1>14, ZenonT(40)
           DEF Preserved, AgreeInv, LostStays

LEMMA OnSwitchAgree ==
    ASSUME Before, Sane', NEW n \in Node, OnSwitch(n)
    PROVE  Preserved
<1>0. Lead \in Node /\ ControlInv /\ Informed /\ Fresh /\ Announced /\ TypeOK /\ eng[n] \in Engine
  BY Opened, AtNode, ZenonT(40) DEF AgreeInv, Steady, ControlInv
<1>1. PICK m \in Inbox(n, "switch") : OnSwitch(n)!1!(m)
  BY ZenonT(40) DEF OnSwitch
<1>2. /\ m \in msgs /\ m.t = "switch" /\ m.from # n /\ m.from = Lead /\ m.round = round
      /\ round # NoRound
  BY <1>0, <1>1, ZenonT(40) DEF Inbox, Fresh
<1>3. /\ n \in Others /\ up[n] /\ pc[n] = "idle" /\ Lead \in members'[n]
      /\ \A k \in Node : members[k] \subseteq members'[k]
      /\ members'[Lead] = members[Lead] /\ Sent("switch")
  BY <1>0, <1>1, <1>2, Handled, ZenonT(40) DEF Others, Sent
<1>4. UNCHANGED <<up, pc, co, round, left, replies>>
  BY ZenonT(40) DEF OnSwitch
<1>5. \A k \in Node : \A r \in replies'[k].got : r.from = Lead => r.idle
  BY <1>0, <1>4, ZenonT(40) DEF Informed
<1>6. pc[Lead] \notin Gathering \cup Cutting
  BY <1>0, <1>3, ZenonT(40) DEF Announced
<1> DEFINE no == NotReady(n, m.round)
           w0 == SeedWait(m.round, part[n].genesis)
<1>7. no.t = "ready" /\ no.from = n /\ no.round = round /\ ~no.ok /\ w0.round = round
  BY <1>2, ZenonT(40) DEF NotReady, SeedWait
<1> HIDE DEF no, w0
<1>8. CASE Reply(no) /\ UNCHANGED <<eng, part, waiting>>
  <2>1. msgs \subseteq msgs' /\ \A q \in msgs' : q \in msgs \/ Harmless(q)
    BY <1>2, <1>3, <1>6, <1>7, <1>8, Replied, ZenonT(40) DEF Harmless, Others
  <2> QED BY <1>3, <1>4, <1>5, <1>8, <2>1, QuietAgree, ZenonT(40) DEF QuietStep
<1>9. CASE /\ part[n].phase = "prepared" /\ part[n].round = m.round
           /\ eng' = [eng EXCEPT ![n] = ReadsClosed(Activated(@))]
           /\ part' = [part EXCEPT ![n] = Switched(m.round, m.genesis)]
           /\ waiting' = [waiting EXCEPT ![n] = @ \cup {SeedWait(m.round, m.genesis)}]
           /\ UNCHANGED msgs
  <2>1. eng'[n].gen = eng[n].gen + 1 /\ eng'[n].prev = eng[n].gen
    <3>1. eng'[n] = ReadsClosed(Activated(eng[n]))
      BY <1>0, <1>9, ZenonT(40) DEF TypeOK
    <3> QED BY <3>1, ZenonT(40) DEF ReadsClosed, Activated
  <2>2. /\ part'[n].phase = "switched" /\ part'[n].round = round
        /\ \A w \in waiting'[n] : w \in waiting[n] \/ w.round = round
    <3> DEFINE q == Switched(m.round, m.genesis)
               v == SeedWait(m.round, m.genesis)
    <3>1. q.phase = "switched" /\ q.round = m.round /\ v.round = m.round
      BY ZenonT(40) DEF Switched, SeedWait
    <3> HIDE DEF q, v
    <3>2. part'[n] = q /\ waiting'[n] = waiting[n] \cup {v}
      BY <1>0, <1>9, ZenonT(40) DEF TypeOK, q, v
    <3> QED BY <1>2, <3>1, <3>2, ZenonT(40)
  <2>3. \A k \in Node \ {n} : eng'[k] = eng[k] /\ part'[k] = part[k] /\ waiting'[k] = waiting[k]
    BY <1>0, <1>9, ZenonT(40) DEF TypeOK
  <2> QED BY <1>2, <1>3, <1>4, <1>9, <2>1, <2>2, <2>3, SwitchAgree, ZenonT(40) DEF SwitchStep
<1>10. CASE /\ part[n].phase = "switched" /\ part[n].round = m.round
            /\ waiting' = [waiting EXCEPT ![n] = @ \cup {w0}]
            /\ UNCHANGED <<eng, part, msgs>>
  <2>1. /\ \A k \in Node : \A w \in waiting'[k] :
                 \/ w \in waiting[k]
                 \/ w.round = round /\ part[k].phase = "switched"
        /\ waiting'[Lead] = waiting[Lead]
    BY <1>0, <1>3, <1>7, <1>10, ZenonT(40) DEF TypeOK, Others
  <2> QED BY <1>2, <1>3, <1>4, <1>5, <1>6, <1>10, <2>1, QuietAgree, ZenonT(40) DEF QuietStep
<1> QED BY <1>1, <1>8, <1>9, <1>10, ZenonT(40) DEF no, w0

(***************************************************************************)
(* The goroutine that waits for the seed: it belongs to a member that is   *)
(* not lost.                                                               *)
(***************************************************************************)
LEMMA SeedAgree ==
    ASSUME Before, Sane', NEW n \in Node, SeedArrived(n) \/ SeedTimeout(n)
    PROVE  Preserved
<1>0. /\ Lead \in Node /\ ControlInv /\ Alone /\ Informed /\ Fresh /\ Announced /\ TypeOK
      /\ eng[n] \in Engine
  BY Opened, AtNode, ZenonT(40) DEF AgreeInv, Steady, ControlInv
<1>1. UNCHANGED <<up, part, pc, co, members, replies, round, left>>
  BY ZenonT(40) DEF SeedArrived, SeedTimeout
<1>2. PICK w \in waiting[n] : /\ waiting' = [waiting EXCEPT ![n] = @ \ {w}]
                              /\ Reply(Ready(n, w.round)) \/ Reply(NotReady(n, w.round))
  BY ZenonT(40) DEF SeedArrived, SeedTimeout
<1>3. \A k \in Node : eng'[k].gen = eng[k].gen /\ eng'[k].prev = eng[k].prev
  <2>1. eng' = eng \/ eng' = [eng EXCEPT ![n] = ReadsOpen(@)]
    BY ZenonT(40) DEF SeedArrived, SeedTimeout
  <2>2. ReadsOpen(eng[n]).gen = eng[n].gen /\ ReadsOpen(eng[n]).prev = eng[n].prev
    BY <1>0, ReadsFields, ZenonT(40)
  <2> QED BY <1>0, <2>1, <2>2, ZenonT(40) DEF TypeOK
<1>4. /\ \A k \in Node : waiting'[k] \subseteq waiting[k]
      /\ w.round # NoRound /\ n \in Others /\ waiting'[Lead] = waiting[Lead]
  BY <1>0, <1>2, ZenonT(40) DEF TypeOK, Alone, Fresh, Others
<1>5. PICK q : /\ q.t = "ready" /\ q.from = n /\ q.round = w.round /\ Reply(q)
  BY <1>2, ZenonT(40) DEF Ready, NotReady
<1>6. msgs \subseteq msgs' /\ \A x \in msgs' : x \in msgs \/ Harmless(x)
  <2>1. /\ msgs \subseteq msgs'
        /\ \A x \in msgs' : x \in msgs \/ (x = q /\ w.round = round /\ round # NoRound)
    BY <1>4, <1>5, Replied, ZenonT(40)
  <2>2. w.round = round => ~NotYet(n) /\ pc[Lead] \notin Gathering \cup Cutting
    BY <1>0, <1>2, ZenonT(40) DEF NotYet, Announced
  <2> QED BY <1>4, <1>5, <2>1, <2>2, ZenonT(40) DEF Harmless, Others
<1>7. \A k \in Node : \A r \in replies'[k].got : r.from = Lead => r.idle
  BY <1>0, <1>1, ZenonT(40) DEF Informed
<1> QED BY <1>1, <1>3, <1>4, <1>6, <1>7, QuietAgree, ZenonT(40) DEF QuietStep

(***************************************************************************)
(* Questions about an outcome, and the answers to them: a replica answers  *)
(* that it is settled only where that is no contradiction to the round.    *)
(***************************************************************************)
LEMMA StatusAgree ==
    ASSUME Before, Sane', NEW n \in Node, WatchdogStatus(n) \/ OnStatus(n)
    PROVE  Preserved
<1>0. Lead \in Node /\ ControlInv /\ Alone /\ Informed /\ Generations /\ Accounted /\ TypeOK /\ Owned(n)
  BY Opened, AtNode, ZenonT(40) DEF AgreeInv, Steady, ControlInv
<1>1. UNCHANGED <<up, eng, part, pc, co, waiting, round, left>>
  BY ZenonT(40) DEF WatchdogStatus, OnStatus
<1>2. CASE WatchdogStatus(n)
  <2>1. UNCHANGED members /\ msgs' = msgs \cup {Status(n)} /\ Status(n).t = "status"
    BY <1>2, ZenonT(40) DEF WatchdogStatus, Send, Status
  <2>2. \A k \in Node : \A r \in replies'[k].got : r.from = Lead => r.idle
    BY <1>0, <1>2, ZenonT(40) DEF WatchdogStatus, Informed, Answers, TypeOK
  <2>3. msgs \subseteq msgs' /\ \A x \in msgs' : x \in msgs \/ Harmless(x)
    BY <2>1, ZenonT(40) DEF Harmless
  <2> QED BY <1>1, <2>1, <2>2, <2>3, QuietAgree, ZenonT(40) DEF QuietStep
<1>3. CASE OnStatus(n)
  <2>1. PICK m \in Inbox(n, "status") : Handles(n, m) /\ msgs' = msgs \cup {Outcome(n)}
    BY <1>3, ZenonT(40) DEF OnStatus, Send
  <2>2. /\ up[n] /\ pc[n] = "idle" /\ members'[Lead] = members[Lead]
        /\ \A k \in Node : members[k] \subseteq members'[k]
    BY <2>1, Handled, ZenonT(40) DEF Inbox
  <2> DEFINE x == Outcome(n)
             settled == part[n].phase = "none" /\ ~InDoubt(n)
  <2>3. x.t = "outcome" /\ x.from = n /\ x.gen = eng[n].gen /\ x.idle = settled
    BY ZenonT(40) DEF Outcome
  <2> HIDE DEF x
  <2>4. n = Lead => settled
    BY <1>0, <2>2, ZenonT(40) DEF Alone, Owned, InDoubt, Activating
  <2>5. settled => Told(x)
    <3> SUFFICES ASSUME settled PROVE Told(x)
      BY ZenonT(40)
    <3>1. CASE n = Lead
      BY <1>0, <2>2, <2>3, <3>1, AtLead, ZenonT(40) DEF Told, Open, Cutting, Switching, Activating
    <3>2. CASE n \in Others
      BY <1>0, <2>3, <3>2, AtLead, Numbers
         DEF Generations, Placed, Accounted, InDoubt, Told, On, Ahead, Late, Past, Open, Cutting,
             Switching, Gathering, PCs, Activating
    <3> QED BY <3>1, <3>2, ZenonT(40) DEF Others
  <2>6. msgs \subseteq msgs' /\ \A q \in msgs' : q \in msgs \/ Harmless(q)
    <3>1. msgs' = msgs \cup {x}
      BY <2>1, ZenonT(40) DEF x
    <3>2. Harmless(x)
      BY <2>3, <2>4, <2>5, ZenonT(40) DEF Harmless
    <3> QED BY <3>1, <3>2, ZenonT(40)
  <2>7. \A k \in Node : \A r \in replies'[k].got : r.from = Lead => r.idle
    BY <1>0, <1>3, ZenonT(40) DEF OnStatus, Informed
  <2> QED BY <1>1, <2>2, <2>6, <2>7, QuietAgree, ZenonT(40) DEF QuietStep
<1> QED BY <1>2, <1>3, ZenonT(40)

(***************************************************************************)
(* finish.  A participant commits when the round is being committed, or    *)
(* was: then it is the one still in doubt about Lead's own generation.     *)
(***************************************************************************)
Settles(n) ==
    /\ n \in Others /\ UNCHANGED <<up, pc, co, round, msgs, waiting, putGen, delGen>>
    /\ eng'[n].prev = NoGen /\ part'[n] = NoPart
    /\ left'[n] = left[n] \cup {part[n].round}
    /\ \A k \in Node \ {n} : /\ eng'[k] = eng[k] /\ part'[k] = part[k]
                             /\ left'[k] = left[k] /\ ns'[k] = ns[k]
    /\ \A k \in Node : members[k] \subseteq members'[k]
    /\ members'[Lead] = members[Lead]
    /\ \A k \in Node : \A r \in replies'[k].got : r.from = Lead => r.idle

CommitStep(n) ==
    /\ Settles(n) /\ part[n].phase = "switched"
    /\ \/ pc[Lead] = "commit" /\ Ahead(n)
       \/ pc[Lead] \in {"idle"} \cup Gathering /\ Late(n)
    /\ eng'[n].gen = eng[n].gen
    /\ \A g \in Gens : ns'[n][g] = IF g = eng[n].prev THEN {} ELSE ns[n][g]

LEMMA FreshStays ==
    ASSUME Fresh, UNCHANGED <<msgs, waiting, round>>, \A k \in Node : part'[k].round <= round
    PROVE  Fresh'
BY ZenonT(40) DEF Fresh

LEMMA NoRejoinStays ==
    ASSUME NoRejoin, NEW n \in Others, UNCHANGED <<up, pc, round, msgs>>,
           part[n].phase # "none", part'[n] = NoPart, left'[n] = left[n] \cup {part[n].round},
           \A k \in Others \ {n} : part'[k] = part[k] /\ left'[k] = left[k]
    PROVE  NoRejoin'
<1>1. NoPart.phase = "none" /\ \A type : Sent(type)' = Sent(type)
  BY ZenonT(40) DEF Sent, NoPart
<1>2. SUFFICES ASSUME pc[Lead] \in Open \cup Ending \/ Sent("done"), NEW k \in Others,
                      up[k], Sent("prepare")
               PROVE  IF part'[k].phase = "none" THEN round \in left'[k] ELSE part'[k].round = round
  BY <1>1, ZenonT(40) DEF NoRejoin
<1>3. IF part[k].phase = "none" THEN round \in left[k] ELSE part[k].round = round
  BY <1>2, ZenonT(40) DEF NoRejoin
<1>4. CASE k = n
  BY <1>1, <1>3, <1>4, ZenonT(40)
<1>5. CASE k # n
  BY <1>3, <1>5, ZenonT(40)
<1> QED BY <1>4, <1>5

LEMMA AnnouncedStays ==
    ASSUME Announced, UNCHANGED <<pc, co, msgs, waiting, round>>
    PROVE  Announced'
BY ZenonT(40) DEF Announced, Sent

LEMMA AccountedStays ==
    ASSUME Accounted, NEW n \in Others, UNCHANGED <<pc, co, msgs, waiting, round>>,
           part'[n] = NoPart, \A k \in Others \ {n} : part'[k] = part[k],
           pc[Lead] \in Open => SomeLost'
    PROVE  Accounted'
<1>0. NoPart.phase = "none"
  BY ZenonT(40) DEF NoPart
<1>1. part'[n].phase = "none" /\ \A type : Sent(type)' = Sent(type)
  BY <1>0, ZenonT(40) DEF Sent
<1>2. \A k : NotYet(k)' = NotYet(k)
  BY ZenonT(40) DEF NotYet, ReadyOK
<1>3. \A k \in Others : part'[k].phase = "prepared" => part'[k] = part[k]
  BY <1>1, ZenonT(40)
<1>4. pc[Lead] \in Open => \A k \in Others : part'[k].phase = "prepared" => NotYet(k)' /\ part'[k].round = round
  BY <1>2, <1>3, ZenonT(40) DEF Accounted
<1>5. pc[Lead] \in Ending \/ Sent("done") => \A k \in Others : part'[k].phase # "prepared"
  BY <1>3, ZenonT(40) DEF Accounted
<1> QED BY <1>1, <1>4, <1>5, ZenonT(40) DEF Accounted

LEMMA CommitAgree ==
    ASSUME Before, Sane', NEW n, CommitStep(n)
    PROVE  Preserved
<1> USE DEF CommitStep, Settles
<1>0. /\ Lead \in Node /\ n \in Node /\ n # Lead /\ ControlInv /\ Alone /\ Informed /\ Fresh
      /\ Announced /\ Generations /\ Outcomes /\ Joined /\ NoRejoin /\ Accounted
      /\ NoPart.phase = "none" /\ NoPart.round = NoRound
  BY Opened, ZenonT(40) DEF AgreeInv, Steady, Others, NoPart
<1>1. /\ Base' = Base
      /\ \A k \in Node \ {n} : /\ On(k)' = On(k) /\ Ahead(k)' = Ahead(k) /\ Late(k)' = Late(k)
                               /\ Past(k)' = Past(k) /\ InDoubt(k)' = InDoubt(k)
                               /\ InRound(k)' = InRound(k)
  <2>1. Base' = Base
    BY <1>0, ZenonT(40) DEF Base
  <2> QED BY <1>0, <2>1, ZenonT(40) DEF On, Ahead, Late, Past, InDoubt, InRound
<1>2. \A type : Sent(type)' = Sent(type)
  BY ZenonT(40) DEF Sent
<1>3. /\ pc[Lead] = "commit" => Past(n)'
      /\ pc[Lead] # "commit" => On(n)' /\ ~On(n)
      /\ ~Late(n)' /\ ~InDoubt(n)' /\ ~Lost(n)
  BY <1>0, <1>1, Numbers, ZenonT(40) DEF On, Ahead, Late, Past, InDoubt, Lost, Gathering
<1>4. Alone'
  BY <1>0, ZenonT(40) DEF Alone, Others
<1>5. Informed'
  BY <1>0, <1>1, <1>3, ZenonT(40) DEF Informed, Others
<1>15. Fresh'
  <2>1. NoRound <= round
    BY <1>0, Numbers
  <2>2. \A k \in Node : part'[k].round <= round
    BY <1>0, <2>1, ZenonT(40) DEF Fresh
  <2>3. UNCHANGED <<msgs, waiting, round>>
    BY ZenonT(40)
  <2> QED BY <1>0, <2>2, <2>3, FreshStays, ZenonT(40)
<1>6. Announced'
  BY <1>0, AnnouncedStays, ZenonT(40)
<1>7. Generations'
  <2>1. Placed(n)'
    BY <1>0, <1>3, ZenonT(40) DEF Placed, Gathering, Cutting, Switching
  <2>2. \A k \in Others \ {n} : Placed(k) => Placed(k)'
    BY <1>0, <1>1, <1>2, ZenonT(40) DEF Placed, Others
  <2> QED BY <1>0, <2>1, <2>2, ZenonT(40) DEF Generations
<1>8. Outcomes'
  BY <1>0, <1>1, ZenonT(40) DEF Outcomes, Told, Open, Cutting, Switching, Gathering
<1>9. Joined'
  <2>1. \A m \in msgs : m.from \in Node
    BY Opened, Senders, ZenonT(40)
  <2>2. pc[Lead] \in Gathering => \A m \in msgs : m.t = "prepared" /\ m.ok => m.from # n
    <3>1. pc[Lead] \in Gathering => Late(n) /\ ~On(n)
      BY <1>3, ZenonT(40) DEF Gathering
    <3> HIDE DEF CommitStep
    <3> QED BY <1>0, <3>1, ZenonT(40) DEF Joined
  <2> QED BY <1>0, <1>1, <2>1, <2>2, ZenonT(40) DEF Joined
<1>16. pc[Lead] \notin Open
  BY ZenonT(40) DEF Open, Cutting, Switching, Gathering
<1>10. NoRejoin' /\ Accounted'
  <2>0. part[n].phase # "none" /\ \A k \in Others \ {n} : part'[k] = part[k] /\ left'[k] = left[k]
    BY ZenonT(40) DEF Others
  <2>1. NoRejoin'
    BY <1>0, <2>0, NoRejoinStays, ZenonT(40)
  <2>2. Accounted'
    BY <1>0, <1>16, <2>0, AccountedStays, ZenonT(40)
  <2> QED BY <2>1, <2>2
<1>11. LostStays
  BY ZenonT(40) DEF LostStays, Open, Cutting, Switching, Gathering
<1> QED BY <1>4, <1>5, <1>15, <1>6, <1>7, <1>8, <1>9, <1>10, <1>11, ZenonT(40)
           DEF Preserved, AgreeInv

(***************************************************************************)
(* A participant goes back to Base when its round is over and was not      *)
(* done, or while it cannot be committed any more.                         *)
(***************************************************************************)
BackStep(n) ==
    /\ Settles(n) /\ part[n].phase # "none" /\ (InDoubt(n) => Ahead(n))
    /\ \/ pc[Lead] \in {"idle", "rollback"} /\ ~Sent("done")
       \/ pc[Lead] \in Gathering /\ up[n] /\ ~InRound(n)
       \/ pc[Lead] \in Switching /\ SomeLost /\ part[n].phase = "switched"
    /\ eng'[n].gen = Base
    /\ \A g \in Gens : ns'[n][g] = IF InDoubt(n) /\ g = eng[n].gen THEN {} ELSE ns[n][g]

LEMMA BackAgree ==
    ASSUME Before, Sane', NEW n, BackStep(n)
    PROVE  Preserved
<1> USE DEF BackStep, Settles
<1>0. /\ Lead \in Node /\ n \in Node /\ n # Lead /\ ControlInv /\ Alone /\ Informed /\ Fresh
      /\ Announced /\ Generations /\ Outcomes /\ Joined /\ NoRejoin /\ Accounted
      /\ NoPart.phase = "none" /\ NoPart.round = NoRound
  BY Opened, ZenonT(40) DEF AgreeInv, Steady, Others, NoPart
<1>1. /\ Base' = Base
      /\ \A k \in Node \ {n} : /\ On(k)' = On(k) /\ Ahead(k)' = Ahead(k) /\ Late(k)' = Late(k)
                               /\ Past(k)' = Past(k) /\ InDoubt(k)' = InDoubt(k)
                               /\ InRound(k)' = InRound(k)
  <2>1. Base' = Base
    BY <1>0, ZenonT(40) DEF Base
  <2> QED BY <1>0, <2>1, ZenonT(40) DEF On, Ahead, Late, Past, InDoubt, InRound
<1>2. \A type : Sent(type)' = Sent(type)
  BY ZenonT(40) DEF Sent
<1>3. On(n)' /\ ~Late(n)' /\ ~InDoubt(n)' /\ ~Lost(n)
  BY <1>0, <1>1, ZenonT(40) DEF On, Late, InDoubt, Lost
<1>4. Alone'
  BY <1>0, ZenonT(40) DEF Alone, Others
<1>5. Informed'
  BY <1>0, <1>1, <1>3, ZenonT(40) DEF Informed, Others
<1>15. Fresh'
  <2>1. NoRound <= round
    BY <1>0, Numbers
  <2>2. \A k \in Node : part'[k].round <= round
    BY <1>0, <2>1, ZenonT(40) DEF Fresh
  <2>3. UNCHANGED <<msgs, waiting, round>>
    BY ZenonT(40)
  <2> QED BY <1>0, <2>2, <2>3, FreshStays, ZenonT(40)
<1>6. Announced'
  BY <1>0, AnnouncedStays, ZenonT(40)
<1>7. Generations'
  <2>1. Placed(n)'
    BY <1>0, <1>3, ZenonT(40) DEF Placed, Gathering, Cutting, Switching
  <2>2. \A k \in Others \ {n} : Placed(k) => Placed(k)'
    BY <1>0, <1>1, <1>2, ZenonT(40) DEF Placed, Others
  <2> QED BY <1>0, <2>1, <2>2, ZenonT(40) DEF Generations
<1>8. \A k \in Others \ {n} : NotYet(k)' = NotYet(k) /\ Lost(k)' = Lost(k)
  BY <1>0, <1>1, ZenonT(40) DEF NotYet, Lost, ReadyOK, Others
<1>9. SomeLost => SomeLost'
  BY <1>0, <1>3, <1>8, ZenonT(40) DEF SomeLost
<1>10. Outcomes'
  BY <1>0, <1>1, <1>9, ZenonT(40) DEF Outcomes, Told
<1>11. Joined'
  <2>1. \A m \in msgs : m.from \in Node
    BY Opened, Senders, ZenonT(40)
  <2>2. pc[Lead] \in Gathering => \A m \in msgs : m.t = "prepared" /\ m.ok => m.from # n
    BY <1>0, ZenonT(40) DEF Joined, Gathering, Switching
  <2> QED BY <1>0, <1>1, <2>1, <2>2, ZenonT(40) DEF Joined
<1>12. ~Sent("done") /\ pc[Lead] \notin Ending
  BY <1>0, ZenonT(40) DEF Announced, Gathering, Switching, Ending
<1>16. pc[Lead] \in Open => SomeLost
  BY ZenonT(40) DEF Open, Cutting, Switching, Gathering
<1>13. NoRejoin'
  <2>1. \A k \in Others \ {n} : part'[k] = part[k] /\ left'[k] = left[k]
    BY <1>0, ZenonT(40) DEF Others
  <2> QED BY <1>0, <2>1, NoRejoinStays, ZenonT(40)
<1>14. Accounted'
  <2>1. \A k \in Others \ {n} : part'[k] = part[k]
    BY ZenonT(40) DEF Others
  <2> QED BY <1>0, <1>9, <1>16, <2>1, AccountedStays, ZenonT(40)
<1> QED BY <1>4, <1>5, <1>15, <1>6, <1>7, <1>9, <1>10, <1>11, <1>13, <1>14, ZenonT(40)
           DEF Preserved, AgreeInv, LostStays

(***************************************************************************)
(* What finish leaves behind.                                              *)
(***************************************************************************)
Finished(n, commit) ==
    /\ part'[n] = NoPart /\ left'[n] = left[n] \cup {part[n].round}
    /\ \A k \in Node \ {n} : /\ eng'[k] = eng[k] /\ part'[k] = part[k]
                             /\ left'[k] = left[k] /\ ns'[k] = ns[k]
    /\ eng'[n].prev = NoGen
    /\ commit /\ part[n].phase = "switched" =>
          /\ eng'[n].gen = eng[n].gen
          /\ \A g \in Gens : ns'[n][g] = IF g = eng[n].prev THEN {} ELSE ns[n][g]
    /\ ~(commit /\ part[n].phase = "switched") =>
          /\ eng'[n].gen = IF InDoubt(n) THEN eng[n].prev ELSE eng[n].gen
          /\ \A g \in Gens : ns'[n][g] = IF InDoubt(n) /\ g = eng[n].gen THEN {} ELSE ns[n][g]

LEMMA FinishEffect ==
    ASSUME ControlInv, NEW n \in Node, NEW commit \in BOOLEAN, Finish(n, commit)
    PROVE  Finished(n, commit)
<1>0. TypeOK
  BY ZenonT(40) DEF ControlInv
<1>1. /\ part'[n] = NoPart /\ left'[n] = left[n] \cup {part[n].round}
      /\ \A k \in Node \ {n} : part'[k] = part[k] /\ left'[k] = left[k]
  BY <1>0, ZenonT(40) DEF Finish, TypeOK
<1>2. CASE commit /\ part[n].phase = "switched"
  <2>1. eng' = [eng EXCEPT ![n] = Unfrozen(Committed(@))]
    BY <1>2, ZenonT(40) DEF Finish, Commit
  <2>2. eng'[n] = Unfrozen(Committed(eng[n])) /\ \A k \in Node \ {n} : eng'[k] = eng[k]
    BY <1>0, <2>1, ZenonT(40) DEF TypeOK
  <2>3. /\ \A g \in Gens : ns'[n][g] = IF g = eng[n].prev THEN {} ELSE ns[n][g]
        /\ \A k \in Node \ {n} : ns'[k] = ns[k]
    <3>1. ns' = [ns EXCEPT ![n][eng[n].prev] = {}]
      BY <1>2, ZenonT(40) DEF Finish, Commit
    <3> QED BY <1>0, <3>1, ZenonT(40) DEF TypeOK
  <2>4. eng'[n].gen = eng[n].gen /\ eng'[n].prev = NoGen
    <3>1. /\ Unfrozen(Committed(eng[n])).gen = eng[n].gen
          /\ Unfrozen(Committed(eng[n])).prev = NoGen
      BY DEF Unfrozen, Committed
    <3> QED BY <2>2, <3>1, ZenonT(40)
  <2> QED BY <1>1, <1>2, <2>2, <2>3, <2>4, ZenonT(40) DEF Finished
<1>3. CASE ~(commit /\ part[n].phase = "switched") /\ InDoubt(n)
  <2>1. eng' = [eng EXCEPT ![n] = Unfrozen(RolledBack(@))]
    BY <1>3, ZenonT(40) DEF Finish, Rollback
  <2>2. eng'[n] = Unfrozen(RolledBack(eng[n])) /\ \A k \in Node \ {n} : eng'[k] = eng[k]
    BY <1>0, <2>1, ZenonT(40) DEF TypeOK
  <2>3. /\ \A g \in Gens : ns'[n][g] = IF g = eng[n].gen THEN {} ELSE ns[n][g]
        /\ \A k \in Node \ {n} : ns'[k] = ns[k]
    <3>1. ns' = [ns EXCEPT ![n][eng[n].gen] = {}]
      BY <1>3, ZenonT(40) DEF Finish, Rollback
    <3> QED BY <1>0, <3>1, ZenonT(40) DEF TypeOK
  <2>4. eng'[n].gen = eng[n].prev /\ eng'[n].prev = NoGen
    <3>1. /\ Unfrozen(RolledBack(eng[n])).gen = eng[n].prev
          /\ Unfrozen(RolledBack(eng[n])).prev = NoGen
      BY DEF Unfrozen, RolledBack
    <3> QED BY <2>2, <3>1, ZenonT(40)
  <2> QED BY <1>1, <1>3, <2>2, <2>3, <2>4, ZenonT(40) DEF Finished
<1>4. CASE ~(commit /\ part[n].phase = "switched") /\ ~InDoubt(n)
  <2>1. eng' = [eng EXCEPT ![n] = Unfrozen(@)]
    BY <1>4, ZenonT(40) DEF Finish, Unfreeze
  <2>2. eng'[n] = Unfrozen(eng[n]) /\ \A k \in Node \ {n} : eng'[k] = eng[k]
    BY <1>0, <2>1, ZenonT(40) DEF TypeOK
  <2>3. ns' = ns
    BY <1>4, ZenonT(40) DEF Finish, Unfreeze
  <2>4. eng'[n].gen = eng[n].gen /\ eng'[n].prev = NoGen
    <3>1. Unfrozen(eng[n]).gen = eng[n].gen /\ Unfrozen(eng[n]).prev = eng[n].prev
      BY DEF Unfrozen
    <3> QED BY <1>4, <2>2, <3>1, ZenonT(40) DEF InDoubt
  <2> QED BY <1>1, <1>4, <2>2, <2>3, <2>4, ZenonT(40) DEF Finished
<1> QED BY <1>2, <1>3, <1>4, ZenonT(40)

LEMMA Undecided ==
    ASSUME Before, NEW n \in Others, up[n]
    PROVE  /\ InDoubt(n) <=> part[n].phase = "switched"
           /\ part[n].phase \in Phases
<1>1. /\ n \in Node /\ Owned(n) /\ pc[n] = "idle" /\ part[n] \in Participant
  BY Opened, AtNode, ZenonT(40) DEF AgreeInv, Alone, Others
<1> QED BY <1>1, RecordFields, ZenonT(40) DEF Owned, InDoubt, Activating

LEMMA OnDoneCommits ==
    ASSUME Before, NEW n \in Node, OnDone(n)
    PROVE  CommitStep(n)
<1>0. Lead \in Node /\ ControlInv /\ Informed /\ Fresh /\ Announced /\ Generations /\ Accounted
  BY Opened, ZenonT(40) DEF AgreeInv, Steady
<1>1. PICK m \in Inbox(n, "done") : Handles(n, m) /\ Concerns(n, m.round) /\ Finish(n, TRUE)
  BY ZenonT(40) DEF OnDone
<1>2. m \in msgs /\ m.t = "done" /\ m.from # n /\ m.from = Lead /\ Sent("done")
  BY <1>0, <1>1, ZenonT(40) DEF Inbox, Fresh, Sent
<1>3. /\ n \in Others /\ up[n]
      /\ \A k \in Node : members[k] \subseteq members'[k]
      /\ members'[Lead] = members[Lead]
  BY <1>1, <1>2, Handled, ZenonT(40) DEF Others
<1>4. part[n].phase = "switched" /\ InDoubt(n)
  BY <1>0, <1>1, <1>2, <1>3, Undecided, ZenonT(40) DEF Concerns, Accounted, Phases
<1>5. \/ pc[Lead] = "commit" /\ Ahead(n)
      \/ pc[Lead] = "idle" /\ Late(n)
  BY <1>0, <1>2, <1>3, <1>4, ZenonT(40) DEF Announced, Generations, Placed, InDoubt, On, Past
<1>6. UNCHANGED <<up, pc, co, round, msgs, waiting, replies, putGen, delGen>>
  BY ZenonT(40) DEF OnDone
<1>7. \A k \in Node : \A r \in replies'[k].got : r.from = Lead => r.idle
  BY <1>0, <1>6, ZenonT(40) DEF Informed
<1>8. /\ eng'[n].gen = eng[n].gen /\ eng'[n].prev = NoGen /\ part'[n] = NoPart
      /\ left'[n] = left[n] \cup {part[n].round}
      /\ \A g \in Gens : ns'[n][g] = IF g = eng[n].prev THEN {} ELSE ns[n][g]
      /\ \A k \in Node \ {n} : /\ eng'[k] = eng[k] /\ part'[k] = part[k]
                               /\ left'[k] = left[k] /\ ns'[k] = ns[k]
  <2>1. Finished(n, TRUE)
    BY <1>0, <1>1, FinishEffect, ZenonT(40)
  <2> QED BY <1>4, <2>1, ZenonT(40) DEF Finished
<1> QED BY <1>3, <1>4, <1>5, <1>6, <1>7, <1>8, ZenonT(40) DEF CommitStep, Settles, Gathering

LEMMA OnAbortBacks ==
    ASSUME Before, NEW n \in Node, OnAbort(n)
    PROVE  BackStep(n)
<1>0. Lead \in Node /\ ControlInv /\ Informed /\ Fresh /\ Announced /\ Generations
  BY Opened, ZenonT(40) DEF AgreeInv, Steady
<1>1. PICK m \in Inbox(n, "abort") : Handles(n, m) /\ Concerns(n, m.round) /\ Finish(n, FALSE)
  BY ZenonT(40) DEF OnAbort
<1>2. /\ m \in msgs /\ m.t = "abort" /\ m.from # n /\ m.from = Lead
      /\ m.round = round /\ round # NoRound /\ Sent("abort")
  BY <1>0, <1>1, ZenonT(40) DEF Inbox, Fresh, Sent
<1>3. /\ n \in Others /\ up[n]
      /\ \A k \in Node : members[k] \subseteq members'[k]
      /\ members'[Lead] = members[Lead]
  BY <1>1, <1>2, Handled, ZenonT(40) DEF Others
<1>4. pc[Lead] \in {"idle", "rollback"} /\ ~Sent("done")
  BY Opened, <1>0, <1>2, ZenonT(40) DEF Announced, Fresh, Sent, RoundInv, OneOutcome
<1>5. part[n].phase # "none" /\ (On(n) \/ Ahead(n)) /\ (InDoubt(n) <=> ~On(n))
  BY <1>0, <1>1, <1>2, <1>3, <1>4, Numbers DEF Concerns, Generations, Placed, On, Ahead, InDoubt
<1>6. UNCHANGED <<up, pc, co, round, msgs, waiting, replies, putGen, delGen>>
  BY ZenonT(40) DEF OnAbort
<1>7. \A k \in Node : \A r \in replies'[k].got : r.from = Lead => r.idle
  BY <1>0, <1>6, ZenonT(40) DEF Informed
<1>8. /\ eng'[n].gen = Base /\ eng'[n].prev = NoGen /\ part'[n] = NoPart
      /\ left'[n] = left[n] \cup {part[n].round}
      /\ \A g \in Gens : ns'[n][g] = IF InDoubt(n) /\ g = eng[n].gen THEN {} ELSE ns[n][g]
      /\ \A k \in Node \ {n} : /\ eng'[k] = eng[k] /\ part'[k] = part[k]
                               /\ left'[k] = left[k] /\ ns'[k] = ns[k]
  <2>1. Finished(n, FALSE)
    BY <1>0, <1>1, FinishEffect, ZenonT(40)
  <2> QED BY <1>5, <2>1, ZenonT(40) DEF Finished, On, Ahead
<1> QED BY <1>3, <1>4, <1>5, <1>6, <1>7, <1>8, ZenonT(40) DEF BackStep, Settles

LEMMA IdleBacks ==
    ASSUME Before, NEW n \in Node, WatchdogIdle(n)
    PROVE  BackStep(n)
<1>0. Lead \in Node /\ ControlInv /\ Alone /\ Informed /\ Generations /\ Accounted
  BY Opened, ZenonT(40) DEF AgreeInv, Steady
<1>1. /\ up[n] /\ pc[n] = "idle" /\ part[n].phase = "prepared" /\ Finish(n, FALSE)
      /\ co[Lead].round # part[n].round
      /\ UNCHANGED <<up, pc, co, round, msgs, waiting, replies, members, putGen, delGen>>
  BY <1>0, ZenonT(40) DEF WatchdogIdle, Coordinating
<1>2. n \in Others
  BY <1>0, <1>1, ZenonT(40) DEF Alone, Others
<1>3. /\ pc[Lead] \in Gathering \cup {"idle", "rollback"} /\ ~Sent("done")
      /\ pc[Lead] \in Gathering => ~InRound(n)
  BY <1>0, <1>1, <1>2, AtLead, ZenonT(40)
     DEF Accounted, InRound, Open, Cutting, Switching, Ending, Gathering, PCs, Activating
<1>4. On(n) /\ ~InDoubt(n)
  <2>1. ~InDoubt(n)
    BY <1>0, <1>1, <1>2, Undecided, ZenonT(40)
  <2> QED BY <1>0, <1>2, <1>3, <2>1, Numbers
             DEF Generations, Placed, On, Ahead, Late, InDoubt, Gathering
<1>5. \A k \in Node : \A r \in replies'[k].got : r.from = Lead => r.idle
  BY <1>0, <1>1, ZenonT(40) DEF Informed
<1>6. /\ eng'[n].gen = Base /\ eng'[n].prev = NoGen /\ part'[n] = NoPart
      /\ left'[n] = left[n] \cup {part[n].round}
      /\ \A g \in Gens : ns'[n][g] = IF InDoubt(n) /\ g = eng[n].gen THEN {} ELSE ns[n][g]
      /\ \A k \in Node \ {n} : /\ eng'[k] = eng[k] /\ part'[k] = part[k]
                               /\ left'[k] = left[k] /\ ns'[k] = ns[k]
  <2>1. Finished(n, FALSE)
    BY <1>0, <1>1, FinishEffect, ZenonT(40)
  <2> QED BY <1>4, <2>1, ZenonT(40) DEF Finished, On
<1> QED BY <1>1, <1>2, <1>3, <1>4, <1>5, <1>6, ZenonT(40) DEF BackStep, Settles

(***************************************************************************)
(* onOutcome.  Every member of the doubtful replica answering in doubt is  *)
(* impossible, since Lead's answers are definite; a settled peer's answer  *)
(* sends it where the round went.                                          *)
(***************************************************************************)
LEMMA OnOutcomeSettles ==
    ASSUME Before, NEW n \in Node, OnOutcome(n)
    PROVE  \/ CommitStep(n) \/ BackStep(n)
           \/ QuietStep /\ UNCHANGED <<eng, ns, part, waiting, msgs, putGen, delGen>>
<1>0. /\ Lead \in Node /\ ControlInv /\ Alone /\ Informed /\ Announced /\ Generations /\ Outcomes
      /\ TypeOK
  BY Opened, ZenonT(40) DEF AgreeInv, Steady, ControlInv
<1>1. PICK m \in Inbox(n, "outcome") : OnOutcome(n)!1!(m)
  BY ZenonT(40) DEF OnOutcome
<1>2. m \in msgs /\ m.t = "outcome" /\ m.from # n /\ (m.from = Lead => m.idle)
  BY <1>0, <1>1, ZenonT(40) DEF Inbox, Informed
<1>3. /\ up[n] /\ pc[n] = "idle" /\ m \in Message
      /\ \A k \in Node : members[k] \subseteq members'[k]
      /\ members'[Lead] = members[Lead]
  BY <1>1, <1>2, Handled, ZenonT(40)
<1>4. n \in Others /\ part[n].phase = "switched" /\ InDoubt(n) /\ Lead \in members'[n]
  <2>1. part[n].phase = "switched"
    BY <1>1, ZenonT(40)
  <2>2. n \in Others
    BY <1>0, <1>3, <2>1, ZenonT(40) DEF Alone, Others
  <2> QED BY <1>0, <1>3, <2>1, <2>2, Undecided, ZenonT(40) DEF Informed
<1>5. UNCHANGED <<up, pc, co, round, msgs, waiting, putGen, delGen>>
  BY ZenonT(40) DEF OnOutcome
<1>6. \A k \in Node : \A r \in replies'[k].got : r.from = Lead => r.idle
  <2>1. replies' = [replies EXCEPT ![n] = Recorded(n, m)]
    BY <1>1, ZenonT(40)
  <2>2. \A r \in Recorded(n, m).got : r \in replies[n].got \/ r = m
    BY ZenonT(40) DEF Recorded, Answers
  <2> QED BY <1>0, <1>2, <2>1, <2>2, ZenonT(40) DEF TypeOK, Informed
<1>7. ~AllInDoubt(n, replies'[n].got, members'[n])
  BY <1>4, <1>6, ZenonT(40) DEF AllInDoubt
<1>8. m.idle => Told(m) /\ m.gen \in Nat
  BY <1>0, <1>2, <1>3, MessageFields, BoundsAssumption DEF Outcomes, Gens, BoundsAssumption
<1>9. CASE m.idle /\ PeerCommitted(n, m) /\ Finish(n, TRUE)
  <2>1. \/ pc[Lead] = "commit" /\ Ahead(n)
        \/ pc[Lead] \in {"idle"} \cup Gathering /\ Late(n)
    BY <1>0, <1>4, <1>8, <1>9, AtLead, Numbers
       DEF Generations, Placed, Told, PeerCommitted, InDoubt, On, Ahead, Late, Past, Gathering,
           Cutting, Switching, PCs, Activating
  <2>2. /\ eng'[n].gen = eng[n].gen /\ eng'[n].prev = NoGen /\ part'[n] = NoPart
        /\ left'[n] = left[n] \cup {part[n].round}
        /\ \A g \in Gens : ns'[n][g] = IF g = eng[n].prev THEN {} ELSE ns[n][g]
        /\ \A k \in Node \ {n} : /\ eng'[k] = eng[k] /\ part'[k] = part[k]
                                 /\ left'[k] = left[k] /\ ns'[k] = ns[k]
    <3>1. Finished(n, TRUE)
      BY <1>0, <1>9, FinishEffect, ZenonT(40)
    <3> QED BY <1>4, <3>1, ZenonT(40) DEF Finished
  <2> QED BY <1>3, <1>4, <1>5, <1>6, <2>1, <2>2, ZenonT(40) DEF CommitStep, Settles
<1>10. CASE m.idle /\ ~PeerCommitted(n, m) /\ Finish(n, FALSE)
  <2>1. Ahead(n) /\ pc[Lead] \notin Ending \cup Cutting /\ (pc[Lead] \in Switching => SomeLost)
    BY <1>0, <1>4, <1>8, <1>10, AtLead, Numbers
       DEF Generations, Placed, Told, PeerCommitted, InDoubt, On, Ahead, Late, Past, Gathering,
           Open, Cutting, Switching, Ending, PCs, Activating
  <2>2. /\ eng'[n].gen = Base /\ eng'[n].prev = NoGen /\ part'[n] = NoPart
        /\ left'[n] = left[n] \cup {part[n].round}
        /\ \A g \in Gens : ns'[n][g] = IF InDoubt(n) /\ g = eng[n].gen THEN {} ELSE ns[n][g]
        /\ \A k \in Node \ {n} : /\ eng'[k] = eng[k] /\ part'[k] = part[k]
                                 /\ left'[k] = left[k] /\ ns'[k] = ns[k]
    <3>1. Finished(n, FALSE)
      BY <1>0, <1>10, FinishEffect, ZenonT(40)
    <3> QED BY <1>4, <2>1, <3>1, ZenonT(40) DEF Finished, Ahead
  <2>3. \/ pc[Lead] \in {"idle", "rollback"} /\ ~Sent("done")
        \/ pc[Lead] \in Gathering /\ up[n] /\ ~InRound(n)
        \/ pc[Lead] \in Switching /\ SomeLost /\ part[n].phase = "switched"
    <3>1. pc[Lead] \in {"idle", "rollback"} \cup Gathering \cup Switching
      BY <2>1, AtLead, ZenonT(40) DEF Gathering, Cutting, Switching, Ending, PCs, Activating
    <3>2. pc[Lead] = "idle" => ~Sent("done")
      BY <1>0, <1>4, <2>1, Standing, ZenonT(40) DEF Generations, Placed
    <3> QED BY <1>0, <1>3, <1>4, <2>1, <3>1, <3>2, ZenonT(40) DEF Announced, InRound
  <2> QED BY <1>3, <1>4, <1>5, <1>6, <2>1, <2>2, <2>3, ZenonT(40) DEF BackStep, Settles
<1>11. CASE UNCHANGED <<eng, disk, ns, part, left>>
  BY <1>3, <1>5, <1>6, <1>11, ZenonT(40) DEF QuietStep
<1> QED BY <1>1, <1>7, <1>9, <1>10, <1>11, ZenonT(40)

-----------------------------------------------------------------------------
(* Crash and restart                                                       *)

(***************************************************************************)
(* A participant dies.  If it was prepared past the cut, it is lost.       *)
(***************************************************************************)
LEMMA CrashAgree ==
    ASSUME Before, Sane', NEW n \in Node, Dies(n)
    PROVE  Preserved
<1>0. /\ Lead \in Node /\ ControlInv /\ Alone /\ Informed /\ Fresh /\ Announced /\ Generations
      /\ Outcomes /\ Joined /\ NoRejoin /\ Accounted /\ TypeOK
      /\ NoPart.phase = "none" /\ NoPart.round = NoRound
  BY Opened, ZenonT(40) DEF AgreeInv, Steady, ControlInv, NoPart
<1>1. n \in Others
  <2>1. n \in Mortal /\ MaxCrashes # 0
    <3>1. n \in Mortal /\ crashes < MaxCrashes
      BY ZenonT(40) DEF Dies
    <3>2. crashes \in Nat
      BY <1>0, ZenonT(40) DEF TypeOK
    <3> QED BY <3>1, <3>2
  <2> QED BY Opened, <2>1, ZenonT(40) DEF Steady, Others
<1>2. co[n] = NoFrame /\ NoFrame.round = NoRound /\ pc[n] = "idle" /\ n # Lead /\ up[n]
  <2>1. co[n] = NoFrame /\ pc[n] = "idle" /\ n # Lead
    BY <1>0, <1>1, ZenonT(40) DEF Alone, Others
  <2>2. NoFrame.round = NoRound /\ up[n]
    BY ZenonT(40) DEF NoFrame, Frame, Dies
  <2> QED BY <2>1, <2>2, ZenonT(40)
<1>3. msgs' = msgs
  BY <1>0, <1>2, ZenonT(40) DEF Dies, WithoutWaiter, IsReply, Fresh
<1>4. /\ UNCHANGED <<eng, members, round, left>>
      /\ co' = co /\ pc' = pc
      /\ part'[n] = NoPart /\ waiting'[n] = {} /\ ~up'[n] /\ replies'[n] = NoReplies
      /\ \A k \in Node \ {n} : /\ up'[k] = up[k] /\ part'[k] = part[k]
                               /\ waiting'[k] = waiting[k] /\ replies'[k] = replies[k]
  BY <1>0, <1>2, ZenonT(40) DEF Dies, TypeOK
<1>5. /\ Base' = Base
      /\ \A k \in Node : /\ On(k)' = On(k) /\ Ahead(k)' = Ahead(k) /\ Late(k)' = Late(k)
                         /\ Past(k)' = Past(k) /\ InDoubt(k)' = InDoubt(k)
      /\ \A k \in Node \ {n} : InRound(k)' = InRound(k)
  BY <1>0, <1>4, ZenonT(40) DEF Base, On, Ahead, Late, Past, InDoubt, InRound
<1>6. \A type : Sent(type)' = Sent(type)
  BY <1>3, ZenonT(40) DEF Sent
<1>7. \A k \in Others : /\ NotYet(k) => NotYet(k)'
                        /\ Lost(k) => Lost(k)'
  BY <1>0, <1>3, <1>4, <1>5, ZenonT(40) DEF NotYet, Lost, ReadyOK, Others
<1>8. pc[Lead] \in Open /\ part[n].phase = "prepared" => Lost(n)'
  <2> SUFFICES ASSUME pc[Lead] \in Open, part[n].phase = "prepared" PROVE Lost(n)'
    BY ZenonT(40)
  <2>1. ~InDoubt(n)
    BY <1>0, <1>1, <1>2, Undecided, ZenonT(40)
  <2>2. On(n) /\ NotYet(n)
    BY <1>0, <1>1, <2>1, Numbers
       DEF Generations, Placed, Accounted, InDoubt, Ahead, Open, Cutting, Switching
  <2> QED BY <1>0, <1>1, <1>4, <1>5, <1>7, <2>2, ZenonT(40) DEF Lost
<1>9. SomeLost => SomeLost'
  BY <1>7, ZenonT(40) DEF SomeLost
<1>10. Alone'
  BY <1>0, <1>1, <1>2, <1>4, ZenonT(40) DEF Alone, Others
<1>11. Informed' /\ Fresh'
  <2>1. NoReplies.got = {}
    BY ZenonT(40) DEF NoReplies
  <2>2. \A k \in Node : /\ part'[k].round <= round
                        /\ \A w \in waiting'[k] : w.round # NoRound /\ w.round <= round
    BY <1>0, <1>4, Standing, ZenonT(40) DEF Fresh
  <2>3. Fresh'
    BY <1>0, <1>3, <1>4, <2>2, ZenonT(40) DEF Fresh
  <2>4. Informed'
    BY <1>0, <1>1, <1>2, <1>3, <1>4, <1>5, <2>1, ZenonT(40) DEF Informed, Others
  <2> QED BY <2>3, <2>4
<1>12. Announced'
  BY <1>0, <1>4, <1>6, ZenonT(40) DEF Announced
<1>13. Generations'
  BY <1>0, <1>2, <1>4, <1>5, <1>6, ZenonT(40) DEF Generations, Placed, Others
<1>14. Outcomes'
  BY <1>0, <1>3, <1>4, <1>5, <1>9, ZenonT(40) DEF Outcomes, Told
<1>15. Joined'
  <2>1. \A m \in msgs : m.from \in Node
    BY Opened, Senders, ZenonT(40)
  <2> QED BY <1>0, <1>3, <1>4, <1>5, <2>1, ZenonT(40) DEF Joined
<1>16. NoRejoin'
  BY <1>0, <1>4, <1>6, ZenonT(40) DEF NoRejoin, Others
<1>17. Accounted'
  BY <1>0, <1>1, <1>4, <1>5, <1>6, <1>7, <1>8, <1>9, ZenonT(40) DEF Accounted, SomeLost, Others
<1> QED BY <1>10, <1>11, <1>12, <1>13, <1>14, <1>15, <1>16, <1>9, <1>17, ZenonT(40)
           DEF Preserved, AgreeInv, LostStays

(***************************************************************************)
(* A restart finds no control message; what was persisted is what the      *)
(* replica was on.                                                         *)
(***************************************************************************)
LEMMA RestartAgree ==
    ASSUME Before, Sane', NEW n \in Node, Restart(n)
    PROVE  Preserved
<1>0. /\ Lead \in Node /\ ControlInv /\ Alone /\ Informed /\ Fresh /\ Announced /\ Generations
      /\ Outcomes /\ Joined /\ NoRejoin /\ Accounted /\ TypeOK
  BY Opened, ZenonT(40) DEF AgreeInv, Steady, ControlInv
<1>1. /\ n \in Others /\ n # Lead /\ ~up[n] /\ part[n].phase = "none"
  BY <1>0, ZenonT(40) DEF Restart, Alone, Others, ControlInv, Owned
<1>2. msgs' = {}
  BY Opened, ZenonT(40) DEF Restart, InFlight, Steady
<1>3. /\ UNCHANGED <<pc, co, members, replies, waiting, round, left>>
      /\ eng'[n] = Restored(disk[n]) /\ part'[n] = Resumed(disk[n]) /\ up'[n]
      /\ \A k \in Node \ {n} : up'[k] = up[k] /\ eng'[k] = eng[k] /\ part'[k] = part[k]
  BY <1>0, ZenonT(40) DEF Restart, TypeOK
<1>4. /\ eng'[n].gen = eng[n].gen /\ eng'[n].prev = eng[n].prev
      /\ part'[n].phase = IF eng[n].prev = NoGen THEN "none" ELSE "switched"
      /\ part'[n].round = NoRound
  <2>1. disk[n] = Persisted(eng[n])
    BY Opened, ZenonT(40) DEF Synced
  <2>2. disk[n].gen = eng[n].gen /\ disk[n].prev = eng[n].prev
    BY <2>1 DEF Persisted
  <2>3. eng'[n].gen = disk[n].gen /\ eng'[n].prev = disk[n].prev
    <3>1. Restored(disk[n]).gen = disk[n].gen /\ Restored(disk[n]).prev = disk[n].prev
      BY DEF Restored
    <3> QED BY <1>3, <3>1, ZenonT(40)
  <2>4. /\ part'[n].phase = IF disk[n].prev = NoGen THEN "none" ELSE "switched"
        /\ part'[n].round = NoRound
    <3>1. /\ Resumed(disk[n]).phase = IF disk[n].prev = NoGen THEN "none" ELSE "switched"
          /\ Resumed(disk[n]).round = NoRound
      BY DEF Resumed, NoPart, Switched
    <3> QED BY <1>3, <3>1, ZenonT(40)
  <2> QED BY <2>2, <2>3, <2>4, ZenonT(40)
<1>5. /\ Base' = Base
      /\ \A k \in Node : /\ On(k)' = On(k) /\ Ahead(k)' = Ahead(k) /\ Late(k)' = Late(k)
                         /\ Past(k)' = Past(k) /\ InDoubt(k)' = InDoubt(k)
  BY <1>0, <1>1, <1>3, <1>4, ZenonT(120) DEF Base, On, Ahead, Late, Past, InDoubt
<1>6. \A type : ~Sent(type)'
  BY <1>2, ZenonT(40) DEF Sent
<1>7. \A k \in Others : /\ NotYet(k) => NotYet(k)'
                        /\ Lost(k) => Lost(k)'
  BY <1>0, <1>2, <1>3, <1>4, <1>5, ZenonT(40) DEF NotYet, Lost, On, ReadyOK, Others
<1>8. SomeLost => SomeLost'
  BY <1>7, ZenonT(40) DEF SomeLost
<1>9. Alone'
  BY <1>0, <1>1, <1>3, ZenonT(40) DEF Alone, Others
<1>10. Informed' /\ Fresh'
  <2>1. \A k \in Node : part'[k].round <= round
    BY <1>0, <1>3, <1>4, Standing, ZenonT(40) DEF Fresh
  <2>2. Fresh'
    BY <1>0, <1>2, <1>3, <2>1, ZenonT(40) DEF Fresh
  <2>3. Informed'
    BY <1>0, <1>1, <1>2, <1>3, <1>4, <1>5, ZenonT(40) DEF Informed, Others, InDoubt
  <2> QED BY <2>2, <2>3
<1>11. Announced' /\ Outcomes' /\ Joined' /\ NoRejoin'
  BY <1>0, <1>2, <1>3, <1>6, ZenonT(40) DEF Announced, Outcomes, Joined, NoRejoin
<1>12. Generations'
  BY <1>0, <1>1, <1>3, <1>4, <1>5, <1>6, ZenonT(40) DEF Generations, Placed, Others
<1>13. Accounted'
  <2>1. ASSUME NEW k \in Others PROVE part'[k].phase = "prepared" => part'[k] = part[k]
    BY <1>3, <1>4, ZenonT(40) DEF Others
  <2>2. pc[Lead] \in Open /\ ~SomeLost => \A k \in Others : part[k] = part'[k] \/ Ahead(k)
    BY <1>0, <1>1, <1>3, ZenonT(40) DEF Accounted, Others
  <2>3. \A k \in Others : Ahead(k)' = Ahead(k)
    BY <1>5, ZenonT(40) DEF Others
  <2> QED BY <1>0, <1>3, <1>6, <1>7, <1>8, <2>1, <2>2, <2>3, ZenonT(40) DEF Accounted
<1> QED BY <1>9, <1>10, <1>11, <1>12, <1>8, <1>13, ZenonT(40) DEF Preserved, AgreeInv, LostStays

=============================================================================
