----------------------------- MODULE LeadProofs -----------------------------
(***************************************************************************)
(* One step of Compact keeps every replica where the coordinator's round   *)
(* accounts for it.                                                        *)
(***************************************************************************)
EXTENDS AgreeProofs

LEMMA CompactAgree ==
    ASSUME Before, Sane', NEW n \in Node, Compact(n)
    PROVE  Preserved
<1>0. /\ Lead \in Node /\ ControlInv /\ Alone /\ Informed /\ Fresh /\ Generations /\ TypeOK
      /\ eng[n] \in Engine
  BY Opened, AtNode, ZenonT(40) DEF AgreeInv, Steady, ControlInv
<1>1. n = Lead /\ up[Lead] /\ pc[Lead] = "idle" /\ eng[Lead].prev = NoGen
  BY Opened, <1>0, ZenonT(40) DEF Compact, Steady, InDoubt, Coordinating
<1>2. /\ UNCHANGED <<up, replies, left>> /\ msgs' = {} /\ round' = round + 1
      /\ members' \in [Node -> SUBSET Node]
      /\ members'[Lead] = Others /\ \A k \in Others : members'[k] = members[k]
  <2>1. PICK ids \in SUBSET (Node \ {n}) : members' = [members EXCEPT ![n] = @ \cup ids]
    BY ZenonT(40) DEF Compact
  <2>2. members[Lead] = Others /\ members \in [Node -> SUBSET Node]
    BY <1>0, ZenonT(40) DEF Alone, TypeOK
  <2>3. /\ members' \in [Node -> SUBSET Node]
        /\ members'[Lead] = Others /\ \A k \in Others : members'[k] = members[k]
    BY <1>1, <2>1, <2>2, ZenonT(40) DEF Others
  <2>4. UNCHANGED <<up, replies, left>> /\ msgs' = {} /\ round' = round + 1
    BY Opened, ZenonT(40) DEF Compact, InFlight, Steady
  <2> QED BY <2>3, <2>4, ZenonT(40)
<1>3. /\ part'[Lead] = Prepared(round') /\ eng'[Lead] = Frozen(eng[Lead])
      /\ pc'[Lead] = "freeze" /\ co'[Lead] = Frame(round', Others)
      /\ \A k \in Others : part'[k] = part[k] /\ eng'[k] = eng[k] /\ pc'[k] = pc[k] /\ co'[k] = co[k]
      /\ \A k \in Node : waiting'[k] \subseteq waiting[k]
  <2>1. /\ part' = [part EXCEPT ![Lead] = Prepared(round')]
        /\ eng' = [eng EXCEPT ![Lead] = Frozen(@)]
        /\ pc' = [pc EXCEPT ![Lead] = "freeze"]
        /\ co' = [co EXCEPT ![Lead] = Frame(round', members'[Lead])]
        /\ waiting' = [k \in Node |-> Pending(k)]
    BY <1>1, ZenonT(40) DEF Compact
  <2>2. \A k \in Node : Pending(k) \subseteq waiting[k]
    BY ZenonT(40) DEF Pending
  <2> QED BY <1>0, <1>2, <2>1, <2>2, ZenonT(40) DEF TypeOK, Others
<1>4. /\ eng'[Lead].gen = eng[Lead].gen /\ eng'[Lead].prev = NoGen
      /\ co'[Lead].round = round' /\ co'[Lead].members = Others /\ co'[Lead].ready = {}
      /\ part'[Lead].round = round' /\ round \in Nat
  BY <1>0, <1>1, <1>3, FrozenFields, Numbers DEF Frame, Prepared
<1>11. /\ \A k \in Node : \A w \in waiting'[k] : w.round # round'
       /\ \A k \in Others : part'[k].round # round'
  BY <1>0, <1>2, <1>3, <1>4, Numbers DEF Fresh, Others
<1>5. /\ Base' = Base
      /\ \A k \in Others : /\ On(k)' = On(k) /\ Ahead(k)' = Ahead(k) /\ Late(k)' = Late(k)
                           /\ InDoubt(k)' = InDoubt(k)
  BY <1>0, <1>1, <1>3, <1>4, ZenonT(40) DEF Base, On, Ahead, Late, InDoubt
<1>6. \A type : ~Sent(type)'
  BY <1>2, ZenonT(40) DEF Sent
<1>7. Alone'
  BY <1>0, <1>1, <1>2, <1>3, <1>4, ZenonT(40) DEF Alone, Activating
<1>8. Informed' /\ Fresh'
  BY <1>0, <1>2, <1>3, <1>4, <1>5, Numbers DEF Informed, Fresh, Others
<1>9. Announced' /\ Outcomes' /\ Joined'
  BY <1>2, <1>3, <1>4, <1>6, <1>11, ZenonT(40) DEF Announced, Outcomes, Joined
<1>12. NoRejoin' /\ Accounted'
  BY <1>3, <1>6, ZenonT(40) DEF NoRejoin, Accounted, Open, Cutting, Switching, Ending
<1>10. Generations'
  BY <1>0, <1>1, <1>3, <1>5, <1>6, <1>11, ZenonT(40) DEF Generations, Placed, Cutting, Switching
<1>20. LostStays
  BY <1>1, ZenonT(40) DEF LostStays, Open, Cutting, Switching
<1> QED BY <1>7, <1>8, <1>9, <1>10, <1>12, <1>20, ZenonT(40) DEF Preserved, AgreeInv

(***************************************************************************)
(* A step that stays in the same part of Compact.                          *)
(***************************************************************************)
LEMMA StepAgree ==
    ASSUME Before, Sane', UNCHANGED <<up, eng, part, members, replies, waiting, round, left>>,
           \/ pc[Lead] \in Gathering /\ pc'[Lead] \in Gathering
           \/ pc[Lead] \in Cutting /\ pc'[Lead] \in Cutting
           \/ pc[Lead] \in Switching /\ pc'[Lead] \in Switching,
           \A k \in Others : pc'[k] = pc[k] /\ co'[k] = co[k],
           co'[Lead].round = co[Lead].round, co'[Lead].members = co[Lead].members,
           pc[Lead] \in Gathering \cup Cutting => co'[Lead].ready = {},
           \A k \in co'[Lead].ready : k \in co[Lead].ready \/ ReadyOK(k),
           \A m \in msgs : m \in msgs' \/ m.t = "prepared",
           \A m \in msgs' : \/ m \in msgs
                            \/ /\ m.from = Lead /\ m.round = round
                               /\ \/ m.t = "prepare" /\ pc[Lead] \in Gathering
                                  \/ m.t = "switch" /\ pc[Lead] \in Switching
    PROVE  Preserved
<1>0. /\ Lead \in Node /\ ControlInv /\ Alone /\ Informed /\ Fresh /\ Announced /\ Generations
      /\ Outcomes /\ Joined /\ NoRejoin /\ Accounted
  BY Opened, ZenonT(40) DEF AgreeInv, Steady
<1>1. /\ pc[Lead] \in Gathering \cup Open /\ round # NoRound /\ ~Sent("done") /\ ~Sent("abort")
      /\ pc[Lead] \in Gathering <=> pc'[Lead] \in Gathering
      /\ pc[Lead] \in Cutting <=> pc'[Lead] \in Cutting
      /\ pc[Lead] \in Switching <=> pc'[Lead] \in Switching
      /\ pc[Lead] \in Activating <=> pc'[Lead] \in Activating
      /\ pc[Lead] \notin {"idle", "rollback", "done", "commit"}
      /\ pc'[Lead] \notin {"idle", "rollback", "done", "commit"}
  BY <1>0, AtLead, ZenonT(40) DEF Announced, Open, Gathering, Cutting, Switching, Activating
<1>2. /\ Base' = Base
      /\ \A k \in Node : /\ On(k)' = On(k) /\ Ahead(k)' = Ahead(k) /\ Late(k)' = Late(k)
                         /\ Past(k)' = Past(k) /\ InDoubt(k)' = InDoubt(k)
                         /\ InRound(k)' = InRound(k)
  BY <1>0, ZenonT(40) DEF Base, On, Ahead, Late, Past, InDoubt, InRound
<1>3. /\ \A type \in {"done", "abort", "ready"} : Sent(type)' = Sent(type)
      /\ pc[Lead] \notin Switching => Sent("switch")' = Sent("switch")
      /\ pc[Lead] \notin Gathering => Sent("prepare")' = Sent("prepare")
  BY ZenonT(40) DEF Sent
<1>4. \A k \in Others : /\ ReadyOK(k)' = ReadyOK(k)
                        /\ NotYet(k) => NotYet(k)'
                        /\ Lost(k) => Lost(k)'
  BY <1>0, <1>2, ZenonT(40) DEF NotYet, ReadyOK, Lost, Others
<1>5. SomeLost => SomeLost'
  BY <1>4, ZenonT(40) DEF SomeLost
<1>6. Alone'
  BY <1>0, <1>1, ZenonT(40) DEF Alone
<1>7. Informed'
  BY <1>0, <1>2, ZenonT(40) DEF Informed, Others
<1>14. Fresh'
  BY <1>0, <1>1, ZenonT(40) DEF Fresh
<1>8. Announced'
  BY <1>0, <1>1, <1>3, ZenonT(40) DEF Announced, Gathering, Cutting, Switching
<1>9. Generations'
  BY <1>0, <1>1, <1>2, <1>3, ZenonT(40) DEF Generations, Placed, Others
<1>10. Outcomes'
  BY <1>0, <1>1, <1>2, <1>5, ZenonT(40) DEF Outcomes, Told, Open, Gathering
<1>11. Joined'
  <2>1. \A m \in msgs : m.from \in Node
    BY Opened, Senders, ZenonT(40)
  <2> QED BY <1>0, <1>1, <1>2, <2>1, ZenonT(40) DEF Joined
<1>12. NoRejoin'
  BY <1>0, <1>1, <1>3, ZenonT(40) DEF NoRejoin, Open, Ending, Gathering, Cutting, Switching
<1>13. Accounted'
  BY <1>0, <1>1, <1>2, <1>3, <1>4, <1>5, ZenonT(40) DEF Accounted, Open, Ending, Others
<1> QED BY <1>6, <1>7, <1>8, <1>9, <1>10, <1>11, <1>12, <1>13, <1>14, <1>5, ZenonT(40)
           DEF Preserved, AgreeInv, LostStays

(***************************************************************************)
(* A step of Compact is a step of Lead's.                                  *)
(***************************************************************************)
LEMMA LeadSteps ==
    ASSUME Before, NEW n \in Node, pc[n] # "idle"
    PROVE  n = Lead
BY Opened, ZenonT(40) DEF AgreeInv, Alone, Others

LEMMA GiveUpAgree ==
    ASSUME Before, Sane', GiveUp(Lead), pc[Lead] \in Gathering \cup Switching,
           UNCHANGED <<up, members, replies, waiting, round, left>>
    PROVE  Preserved
<1>0. /\ Lead \in Node /\ ControlInv /\ Alone /\ Informed /\ Fresh /\ Announced /\ Generations
      /\ Outcomes /\ TypeOK
      /\ NoPart.phase = "none" /\ NoPart.round = NoRound
      /\ NoFrame.round = NoRound
  BY Opened, ZenonT(40) DEF AgreeInv, Steady, ControlInv, NoPart, NoFrame, Frame
<1> DEFINE d == Decision(Lead, "abort")
<1>1. /\ co[Lead].round = round /\ round # NoRound /\ ~Sent("done") /\ ~Sent("abort")
      /\ d.t = "abort" /\ d.from = Lead /\ d.round = round
  BY <1>0, AtLead, ZenonT(40) DEF Announced, Gathering, Switching, Activating, Decision
<1> HIDE DEF d
<1>2. /\ part'[Lead] = NoPart /\ co'[Lead] = NoFrame
      /\ pc'[Lead] = IF pc[Lead] \in Switching THEN "rollback" ELSE "idle"
      /\ eng'[Lead].gen = eng[Lead].gen /\ eng'[Lead].prev = eng[Lead].prev
      /\ \A k \in Others : part'[k] = part[k] /\ co'[k] = co[k] /\ pc'[k] = pc[k] /\ eng'[k] = eng[k]
  <2>1. InDoubt(Lead) <=> pc[Lead] \in Switching
    BY <1>0, AtLead, ZenonT(40) DEF Activating, Gathering, Switching
  <2>2. /\ part' = [part EXCEPT ![Lead] = NoPart] /\ co' = [co EXCEPT ![Lead] = NoFrame]
        /\ pc' = [pc EXCEPT ![Lead] = IF pc[Lead] \in Switching THEN "rollback" ELSE "idle"]
        /\ eng' = eng \/ eng' = [eng EXCEPT ![Lead] = Unfrozen(@)]
    BY <2>1, ZenonT(40) DEF GiveUp
  <2> QED BY <1>0, <2>2 DEF TypeOK, Unfrozen, Others
<1>3. /\ \A m \in msgs' : \/ m \in msgs /\ m.t \notin {"prepared", "ready"}
                          \/ m = d
      /\ \A m \in msgs : m.t \notin {"prepared", "ready"} => m \in msgs'
      /\ d \in msgs'
  BY <1>0, <1>1, ZenonT(40) DEF GiveUp, WithoutWaiter, IsReply, d, Fresh
<1>4. /\ Base' = Base
      /\ \A k \in Node : /\ On(k)' = On(k) /\ Ahead(k)' = Ahead(k) /\ Late(k)' = Late(k)
                         /\ InDoubt(k)' = InDoubt(k)
  BY <1>0, <1>2, ZenonT(40) DEF Base, On, Ahead, Late, InDoubt, Others
<1>5. Sent("abort")' /\ ~Sent("done")'
  BY <1>1, <1>3, ZenonT(40) DEF Sent
<1>6. Alone'
  BY <1>0, <1>2, ZenonT(40) DEF Alone, Switching, Gathering, Activating
<1>7. Informed'
  BY <1>0, <1>1, <1>2, <1>3, <1>4, ZenonT(40) DEF Informed, Others
<1>8. Fresh'
  BY <1>0, <1>1, <1>2, <1>3, Numbers DEF Fresh, Others
<1>9. Announced'
  BY <1>0, <1>2, <1>5, ZenonT(40) DEF Announced, Switching, Gathering, Cutting
<1>10. Generations'
  BY <1>0, <1>1, <1>2, <1>4, <1>5, ZenonT(40)
     DEF Generations, Placed, Others, Switching, Gathering, Cutting
<1>11. Outcomes'
  BY <1>0, <1>1, <1>2, <1>3, <1>4, ZenonT(40)
     DEF Outcomes, Told, Open, Switching, Gathering, Cutting
<1>12. Joined' /\ NoRejoin' /\ Accounted'
  BY <1>2, <1>5, ZenonT(40)
     DEF Joined, NoRejoin, Accounted, Open, Switching, Gathering, Cutting, Ending
<1>20. LostStays
  BY <1>2, ZenonT(40) DEF LostStays, Open, Cutting, Switching, Gathering
<1> QED BY <1>6, <1>7, <1>8, <1>9, <1>10, <1>11, <1>12, <1>20, ZenonT(40) DEF Preserved, AgreeInv

(***************************************************************************)
(* The cut: every member has answered prepared twice, so it is on Base and *)
(* in the round, or died since.                                            *)
(***************************************************************************)
LEMMA CutAgree ==
    ASSUME Before, Sane', OutcomesHeard,
           pc[Lead] = "collect", pc'[Lead] = "stage",
           UNCHANGED <<up, eng, part, members, replies, waiting, round, left>>,
           \A k \in Others : pc'[k] = pc[k] /\ co'[k] = co[k],
           co'[Lead].round = co[Lead].round, co'[Lead].members = co[Lead].members,
           co'[Lead].ready = co[Lead].ready, msgs' \subseteq msgs,
           \A k \in Others : \E m \in msgs : m.t = "prepared" /\ m.ok /\ m.from = k
    PROVE  Preserved
<1>0. /\ Lead \in Node /\ ControlInv /\ Alone /\ Informed /\ Fresh /\ Announced /\ Generations
      /\ Joined
  BY Opened, ZenonT(40) DEF AgreeInv, Steady
<1>1. /\ round # NoRound /\ co[Lead].ready = {} /\ ~Sent("switch") /\ ~Sent("ready")
      /\ ~Sent("done") /\ ~Sent("abort")
      /\ \A k \in Node : \A w \in waiting[k] : w.round # round
  BY <1>0, AtLead, ZenonT(40) DEF Announced, Gathering
<1>2. /\ Base' = Base
      /\ \A k \in Node : /\ On(k)' = On(k) /\ Ahead(k)' = Ahead(k) /\ Late(k)' = Late(k)
                         /\ InDoubt(k)' = InDoubt(k)
  BY <1>0, ZenonT(40) DEF Base, On, Ahead, Late, InDoubt
<1>3. \A k \in Others : On(k) /\ (up[k] => InRound(k))
  BY <1>0, ZenonT(40) DEF Joined, Gathering
<1>4. \A k \in Others : ~up[k] => part[k].phase = "none"
  BY <1>0, ZenonT(40) DEF ControlInv, Owned, Others
<1>5. /\ ~Sent("switch")' /\ ~Sent("ready")' /\ ~Sent("done")' /\ ~Sent("abort")'
      /\ \A k \in Others : NotYet(k)'
  BY <1>0, <1>1, ZenonT(40) DEF Sent, NotYet, ReadyOK, Others
<1>6. Alone'
  BY <1>0 DEF Alone, Activating
<1>7. Informed' /\ Fresh'
  BY <1>0, <1>2, ZenonT(40) DEF Informed, Fresh, Others
<1>8. Announced'
  BY <1>0, <1>1, <1>5, ZenonT(40) DEF Announced
<1>9. Generations'
  BY <1>0, <1>1, <1>2, <1>3, ZenonT(40)
     DEF Generations, Placed, Others, Cutting, Switching, Gathering
<1>10. Outcomes' /\ Joined'
  BY <1>0, ZenonT(40) DEF OutcomesHeard, Outcomes, Joined, Gathering
<1>11. NoRejoin'
  BY <1>0, <1>3, ZenonT(40) DEF NoRejoin, InRound, Others
<1>12. Accounted'
  BY <1>0, <1>2, <1>3, <1>4, <1>5, ZenonT(40)
     DEF Accounted, SomeLost, Lost, InRound, Others, Ending
<1>20. LostStays
  BY ZenonT(40) DEF LostStays, Open, Cutting, Switching
<1> QED BY <1>6, <1>7, <1>8, <1>9, <1>10, <1>11, <1>12, <1>20, ZenonT(40) DEF Preserved, AgreeInv

LEMMA ActivateAgree ==
    ASSUME Before, Sane', Activate(Lead)
    PROVE  Preserved
<1>0. /\ Lead \in Node /\ ControlInv /\ Alone /\ Informed /\ Fresh /\ Announced /\ Generations
      /\ Outcomes /\ Joined /\ NoRejoin /\ Accounted /\ TypeOK
  BY Opened, ZenonT(40) DEF AgreeInv, Steady, ControlInv
<1>1. /\ pc[Lead] = "activate" /\ pc'[Lead] = "switch"
      /\ UNCHANGED <<up, part, co, members, replies, waiting, msgs, round, left>>
      /\ eng'[Lead] = Activated(eng[Lead])
      /\ \A k \in Others : pc'[k] = pc[k] /\ eng'[k] = eng[k]
  BY <1>0, ZenonT(40) DEF Activate, Running, TypeOK, Others
<1>2. /\ eng[Lead].prev = NoGen
      /\ eng'[Lead].gen = eng[Lead].gen + 1 /\ eng'[Lead].prev = eng[Lead].gen
  BY <1>0, <1>1, AtLead DEF Activated, Activating
<1>3. /\ Base' = Base
      /\ \A k \in Others : /\ On(k)' = On(k) /\ Ahead(k)' = Ahead(k) /\ Late(k)' = Late(k)
                           /\ InDoubt(k)' = InDoubt(k)
  BY <1>0, <1>1, <1>2, Numbers DEF Base, On, Ahead, Late, InDoubt
<1>4. \A type : Sent(type)' = Sent(type)
  BY <1>1, ZenonT(40) DEF Sent
<1>5. \A k \in Others : NotYet(k)' = NotYet(k) /\ Lost(k)' = Lost(k)
  BY <1>0, <1>1, <1>3, ZenonT(40) DEF NotYet, Lost, ReadyOK, Others
<1>6. SomeLost' = SomeLost
  BY <1>5, ZenonT(40) DEF SomeLost
<1>7. Alone'
  BY <1>0, <1>1, <1>2, ZenonT(40) DEF Alone
<1>8. Informed' /\ Fresh'
  BY <1>0, <1>1, <1>3, ZenonT(40) DEF Informed, Fresh
<1>9. Announced' /\ Joined'
  BY <1>0, <1>1, <1>4, ZenonT(40) DEF Announced, Joined, Gathering, Cutting
<1>10. Generations'
  BY <1>0, <1>1, <1>3, ZenonT(40) DEF Generations, Placed, Gathering, Cutting, Switching
<1>11. Outcomes'
  BY <1>0, <1>1, <1>3, <1>6, ZenonT(40) DEF Outcomes, Told, Open, Cutting
<1>12. NoRejoin'
  BY <1>0, <1>1, <1>4, ZenonT(40) DEF NoRejoin, Open, Cutting
<1>13. Accounted'
  BY <1>0, <1>1, <1>3, <1>4, <1>5, <1>6, ZenonT(40)
     DEF Accounted, Open, Cutting, Switching, Ending
<1> QED BY <1>7, <1>8, <1>9, <1>10, <1>11, <1>12, <1>13, <1>6, ZenonT(40)
           DEF Preserved, AgreeInv, LostStays

(***************************************************************************)
(* Everyone has said ready: nobody is lost, and nobody is prepared.        *)
(***************************************************************************)
LEMMA ReadyAgree ==
    ASSUME Before, Sane', pc[Lead] = "ready", pc'[Lead] = "done",
           UNCHANGED <<up, eng, part, co, msgs, members, replies, waiting, round, left>>,
           \A k \in Others : pc'[k] = pc[k],
           \A k \in Others : k \in co[Lead].ready \/ ReadyOK(k)
    PROVE  Preserved
<1>0. /\ Lead \in Node /\ ControlInv /\ Alone /\ Informed /\ Fresh /\ Announced /\ Generations
      /\ Outcomes /\ Joined /\ NoRejoin /\ Accounted
  BY Opened, ZenonT(40) DEF AgreeInv, Steady
<1>1. ~SomeLost /\ \A k \in Others : Ahead(k) /\ part[k].phase # "prepared"
  BY <1>0, ZenonT(40) DEF Accounted, SomeLost, Lost, NotYet, Open, Switching
<1>2. /\ Base' = Base
      /\ \A k \in Node : /\ On(k)' = On(k) /\ Ahead(k)' = Ahead(k) /\ Late(k)' = Late(k)
                         /\ InDoubt(k)' = InDoubt(k)
  BY <1>0, ZenonT(40) DEF Base, On, Ahead, Late, InDoubt
<1>3. \A type : Sent(type)' = Sent(type)
  BY ZenonT(40) DEF Sent
<1>4. Alone'
  BY <1>0, ZenonT(40) DEF Alone, Activating
<1>5. Informed' /\ Fresh'
  BY <1>0, <1>2, ZenonT(40) DEF Informed, Fresh, Others
<1>6. Announced' /\ Joined'
  BY <1>0, <1>3, ZenonT(40) DEF Announced, Joined, Gathering, Cutting
<1>7. Generations'
  BY <1>0, <1>1, <1>2, ZenonT(40) DEF Generations, Placed, Gathering, Cutting, Switching, Others
<1>8. Outcomes'
  BY <1>0, <1>1, ZenonT(40) DEF Outcomes, Told, Open, Switching
<1>9. NoRejoin'
  BY <1>0, <1>3, ZenonT(40) DEF NoRejoin, Open, Switching
<1>10. Accounted'
  BY <1>1, ZenonT(40) DEF Accounted, Open, Cutting, Switching
<1>20. LostStays
  BY ZenonT(40) DEF LostStays, Open, Cutting, Switching
<1> QED BY <1>4, <1>5, <1>6, <1>7, <1>8, <1>9, <1>10, <1>20, ZenonT(40) DEF Preserved, AgreeInv

LEMMA SendDoneAgree ==
    ASSUME Before, Sane', SendDone(Lead)
    PROVE  Preserved
<1>0. /\ Lead \in Node /\ ControlInv /\ Alone /\ Informed /\ Fresh /\ Announced /\ Generations
      /\ Outcomes /\ Joined /\ NoRejoin /\ Accounted /\ TypeOK
  BY Opened, ZenonT(40) DEF AgreeInv, Steady, ControlInv
<1> DEFINE d == Decision(Lead, "done")
<1>1. /\ pc[Lead] = "done" /\ pc'[Lead] = "commit" /\ msgs' = msgs \cup {d}
      /\ UNCHANGED <<up, eng, part, co, members, replies, waiting, round, left>>
      /\ \A k \in Others : pc'[k] = pc[k]
  BY <1>0, ZenonT(40) DEF SendDone, Running, TypeOK, Others, Send
<1>2. d.t = "done" /\ d.from = Lead /\ d.round = round /\ round # NoRound
  BY <1>0, <1>1, AtLead, ZenonT(40) DEF Decision
<1> HIDE DEF d
<1>3. /\ Base' = Base
      /\ \A k \in Node : /\ On(k)' = On(k) /\ Ahead(k)' = Ahead(k) /\ Late(k)' = Late(k)
                         /\ InDoubt(k)' = InDoubt(k)
  BY <1>0, <1>1, ZenonT(40) DEF Base, On, Ahead, Late, InDoubt
<1>4. Sent("done")' /\ \A type \in {"prepare", "switch", "abort"} : Sent(type)' = Sent(type)
  BY <1>1, <1>2, ZenonT(40) DEF Sent
<1>5. Alone'
  BY <1>0, <1>1, ZenonT(40) DEF Alone, Activating
<1>6. Informed' /\ Fresh'
  BY <1>0, <1>1, <1>2, <1>3, ZenonT(40) DEF Informed, Fresh, Others
<1>7. Announced' /\ Joined'
  BY <1>0, <1>1, <1>4, ZenonT(40) DEF Announced, Joined, Gathering, Cutting
<1>8. Generations'
  BY <1>0, <1>1, <1>3, ZenonT(40) DEF Generations, Placed, Gathering, Cutting, Switching, Others
<1>9. Outcomes'
  BY <1>0, <1>1, <1>2, ZenonT(40) DEF Outcomes, Told
<1>10. NoRejoin' /\ Accounted'
  BY <1>0, <1>1, <1>4, ZenonT(40) DEF NoRejoin, Accounted, Open, Cutting, Switching, Ending
<1>20. LostStays
  BY <1>1, ZenonT(40) DEF LostStays, Open, Cutting, Switching
<1> QED BY <1>5, <1>6, <1>7, <1>8, <1>9, <1>10, <1>20, ZenonT(40) DEF Preserved, AgreeInv

(***************************************************************************)
(* Lead commits: Base moves on, who was ahead of it is late, who was past  *)
(* it is on it.                                                            *)
(***************************************************************************)
LEMMA CommitRoundAgree ==
    ASSUME Before, Sane', CommitRound(Lead)
    PROVE  Preserved
<1>0. /\ Lead \in Node /\ ControlInv /\ Alone /\ Informed /\ Fresh /\ Announced /\ Generations
      /\ Outcomes /\ Joined /\ NoRejoin /\ Accounted /\ TypeOK
      /\ NoPart.phase = "none" /\ NoPart.round = NoRound /\ NoFrame.round = NoRound
  BY Opened, ZenonT(40) DEF AgreeInv, Steady, ControlInv, NoPart, NoFrame, Frame
<1>1. /\ pc[Lead] = "commit" /\ pc'[Lead] = "idle" /\ part'[Lead] = NoPart /\ co'[Lead] = NoFrame
      /\ UNCHANGED <<up, members, replies, waiting, round, left>>
      /\ eng'[Lead] = Unfrozen(Committed(eng[Lead]))
      /\ \A k \in Others : pc'[k] = pc[k] /\ eng'[k] = eng[k] /\ part'[k] = part[k] /\ co'[k] = co[k]
  <2>1. /\ pc[Lead] = "commit" /\ pc' = [pc EXCEPT ![Lead] = "idle"]
        /\ part' = [part EXCEPT ![Lead] = NoPart] /\ co' = [co EXCEPT ![Lead] = NoFrame]
        /\ UNCHANGED <<up, members, replies, waiting, round, left>>
        /\ eng' = [eng EXCEPT ![Lead] = Unfrozen(Committed(@))]
    BY ZenonT(40) DEF CommitRound, Commit, Running
  <2> QED BY <1>0, <2>1, ZenonT(40) DEF TypeOK, Others
<1>2. /\ eng[Lead].gen = Base + 1 /\ co[Lead].round = round /\ round # NoRound
      /\ eng'[Lead].gen = eng[Lead].gen /\ eng'[Lead].prev = NoGen
  BY <1>0, <1>1, AtLead DEF Unfrozen, Committed, Activating
<1>3. \A m : m \in msgs' <=> m \in msgs /\ m.t \notin {"prepared", "ready"}
  BY <1>0, <1>2, ZenonT(40) DEF CommitRound, WithoutWaiter, IsReply, Fresh
<1>4. /\ Base' = Base + 1
      /\ \A k \in Others : /\ Ahead(k) => Late(k)'
                           /\ Past(k) => On(k)' /\ ~Late(k)'
                           /\ InDoubt(k)' = InDoubt(k)
  BY <1>0, <1>1, <1>2, Numbers DEF Base, On, Ahead, Late, Past, InDoubt
<1>5. \A type \in {"prepare", "switch", "done", "abort"} : Sent(type)' = Sent(type)
  BY <1>3, ZenonT(40) DEF Sent
<1>6. Alone'
  BY <1>0, <1>1 DEF Alone, Activating
<1>7. Informed'
  BY <1>0, <1>1, <1>3, <1>4, ZenonT(40) DEF Informed
<1>8. Fresh'
  BY <1>0, <1>1, <1>3, Numbers DEF Fresh, Others
<1>9. Announced' /\ Joined'
  BY <1>0, <1>1, <1>5, ZenonT(40) DEF Announced, Joined, Gathering, Cutting
<1>10. Generations'
  BY <1>0, <1>1, <1>4, <1>5, ZenonT(40)
     DEF Announced, Generations, Placed, Gathering, Cutting, Switching
<1>11. Outcomes'
  BY <1>0, <1>1, <1>3, <1>4, ZenonT(40) DEF Outcomes, Told, Open, Cutting, Switching
<1>12. NoRejoin' /\ Accounted'
  BY <1>0, <1>1, <1>5, ZenonT(40)
     DEF NoRejoin, Accounted, Open, Cutting, Switching, Ending, Others
<1>20. LostStays
  BY <1>1, ZenonT(40) DEF LostStays, Open, Cutting, Switching
<1> QED BY <1>6, <1>7, <1>8, <1>9, <1>10, <1>11, <1>12, <1>20, ZenonT(40) DEF Preserved, AgreeInv

LEMMA RollbackRoundAgree ==
    ASSUME Before, Sane', RollbackRound(Lead)
    PROVE  Preserved
<1>0. /\ Lead \in Node /\ ControlInv /\ Alone /\ Informed /\ Fresh /\ Announced /\ Generations
      /\ Outcomes /\ Joined /\ TypeOK /\ NoFrame.round = NoRound
  BY Opened, ZenonT(40) DEF AgreeInv, Steady, ControlInv, NoFrame, Frame
<1>1. /\ pc[Lead] = "rollback" /\ pc'[Lead] = "idle" /\ co'[Lead] = NoFrame
      /\ UNCHANGED <<up, part, members, replies, waiting, msgs, round, left>>
      /\ eng'[Lead] = Unfrozen(RolledBack(eng[Lead]))
      /\ \A k \in Others : pc'[k] = pc[k] /\ eng'[k] = eng[k] /\ co'[k] = co[k]
  <2>1. /\ pc[Lead] = "rollback" /\ pc' = [pc EXCEPT ![Lead] = "idle"]
        /\ co' = [co EXCEPT ![Lead] = NoFrame]
        /\ UNCHANGED <<up, part, members, replies, waiting, msgs, round, left>>
        /\ eng' = [eng EXCEPT ![Lead] = Unfrozen(RolledBack(@))]
    BY ZenonT(40) DEF RollbackRound, Rollback, Running
  <2> QED BY <1>0, <2>1, ZenonT(40) DEF TypeOK, Others
<1>2. eng'[Lead].gen = Base /\ eng'[Lead].prev = NoGen
  BY <1>0, <1>1, AtLead DEF Unfrozen, RolledBack, Activating
<1>3. /\ Base' = Base
      /\ \A k \in Others : /\ On(k)' = On(k) /\ Ahead(k)' = Ahead(k) /\ Late(k)' = Late(k)
                           /\ InDoubt(k)' = InDoubt(k)
  BY <1>0, <1>1, <1>2, ZenonT(40) DEF Base, On, Ahead, Late, InDoubt
<1>4. \A type : Sent(type)' = Sent(type)
  BY <1>1, ZenonT(40) DEF Sent
<1>5. ~Sent("done") /\ (Sent("prepare") \/ Sent("switch") => Sent("abort"))
  BY <1>0, <1>1, ZenonT(40) DEF Announced
<1>6. Alone'
  BY Opened, <1>0, <1>1 DEF Alone, Activating, ControlInv, Owned
<1>7. Informed' /\ Fresh'
  BY <1>0, <1>1, <1>3, ZenonT(40) DEF Informed, Fresh
<1>8. Announced' /\ Joined'
  BY <1>0, <1>1, <1>4, <1>5, ZenonT(40) DEF Announced, Joined, Gathering, Cutting
<1>9. Generations'
  BY <1>0, <1>1, <1>3, <1>4, <1>5, ZenonT(40)
     DEF Generations, Placed, Gathering, Cutting, Switching
<1>10. Outcomes'
  BY <1>0, <1>1, <1>3, ZenonT(40) DEF Outcomes, Told, Open, Cutting, Switching
<1>11. NoRejoin' /\ Accounted'
  BY <1>1, <1>4, <1>5, ZenonT(40) DEF NoRejoin, Accounted, Open, Cutting, Switching, Ending
<1>20. LostStays
  BY <1>1, ZenonT(40) DEF LostStays, Open, Cutting, Switching
<1> QED BY <1>6, <1>7, <1>8, <1>9, <1>10, <1>11, <1>20, ZenonT(40) DEF Preserved, AgreeInv

LEMMA CoordinatorAgree ==
    ASSUME Before, Sane', OutcomesHeard, NEW n \in Node, Coordinator(n)
    PROVE  Preserved
<1>0. /\ Lead \in Node /\ ControlInv /\ Alone /\ Announced /\ TypeOK /\ co[Lead] \in Locals
      /\ ~DiskFails
  BY Opened, AtNode, ZenonT(40) DEF AgreeInv, Steady, ControlInv, Sound
<1>1. n = Lead
  <2>1. \E at \in PCs \ {"idle"} : Running(n, at)
    BY ZenonT(40)
       DEF Coordinator, Freeze, SendPrepare, EvalPrepare, PrepareDeadline, Stage, StageFails,
           Activate, ActivateFails, SendSwitch, EvalReady, SwitchDeadline, SendDone, CommitRound,
           CommitFails, RollbackRound, PCs, Activating
  <2> QED BY <2>1, LeadSteps, ZenonT(40) DEF Running
<1>2. CASE Freeze(Lead)
  <2>1. pc[Lead] = "freeze" /\ UNCHANGED <<up, members, replies, waiting, round, left>>
    BY <1>2, ZenonT(40) DEF Freeze, Running
  <2>2. CASE /\ pc' = [pc EXCEPT ![Lead] = "prepare"]
             /\ co' = [co EXCEPT ![Lead] = WithUnion(@, Data(Lead))]
             /\ UNCHANGED <<eng, part, msgs>>
    <3>1. /\ pc'[Lead] = "prepare" /\ co'[Lead] = WithUnion(co[Lead], Data(Lead))
          /\ \A k \in Others : pc'[k] = pc[k] /\ co'[k] = co[k]
      BY <1>0, <2>2, ZenonT(40) DEF TypeOK, Others
    <3>2. /\ co'[Lead].round = co[Lead].round /\ co'[Lead].members = co[Lead].members
          /\ co'[Lead].ready = co[Lead].ready /\ co[Lead].ready = {}
      BY <1>0, <2>1, <3>1, ZenonT(40) DEF WithUnion, Locals, Announced, Gathering
    <3> QED BY <2>1, <2>2, <3>1, <3>2, StepAgree, ZenonT(40) DEF Gathering
  <2>3. CASE GiveUp(Lead)
    BY <2>1, <2>3, GiveUpAgree, ZenonT(40) DEF Gathering
  <2> QED BY <1>2, <2>2, <2>3, ZenonT(40) DEF Freeze
<1>3. CASE SendPrepare(Lead)
  <2> DEFINE d == PrepareMsg(Lead)
  <2>1. /\ pc[Lead] = "prepare"
        /\ UNCHANGED <<up, eng, part, co, members, replies, waiting, round, left>>
        /\ pc'[Lead] = "collect" /\ \A k \in Others : pc'[k] = pc[k]
        /\ msgs' = msgs \cup {d}
    BY <1>0, <1>3, ZenonT(40) DEF SendPrepare, Running, TypeOK, Others, Send
  <2>2. /\ d.t = "prepare" /\ d.from = Lead /\ d.round = round
        /\ co[Lead].ready = {}
    BY <1>0, <2>1, AtLead, ZenonT(40) DEF PrepareMsg, Announced, Gathering
  <2> HIDE DEF d
  <2> QED BY <2>1, <2>2, StepAgree, ZenonT(40) DEF Gathering
<1>4. CASE EvalPrepare(Lead)
  <2>1. pc[Lead] = "collect" /\ UNCHANGED <<up, members, replies, waiting, round, left>>
    BY <1>4, ZenonT(40) DEF EvalPrepare, Running
  <2>2. PICK got \in SUBSET Replies(Lead, "prepared") :
              \/ GiveUp(Lead)
              \/ /\ \A r \in got : r.ok
                 /\ Agreed(Lead, got)
                 /\ pc' = [pc EXCEPT ![Lead] = IF co[Lead].stable = 1 THEN "stage" ELSE "prepare"]
                 /\ co' = [co EXCEPT ![Lead] = Stabler(@)]
                 /\ msgs' = msgs \ got
                 /\ UNCHANGED <<eng, part>>
              \/ /\ pc' = [pc EXCEPT ![Lead] = "prepare"]
                 /\ co' = [co EXCEPT ![Lead] = WithUnion(Frame(@.round, @.members), Union(Lead, got))]
                 /\ msgs' = msgs \ got
                 /\ UNCHANGED <<eng, part>>
    BY <1>4, ZenonT(40) DEF EvalPrepare
  <2>3. \A r \in got : r \in msgs /\ r.t = "prepared"
    BY <2>2, ZenonT(40) DEF Replies
  <2>4. CASE GiveUp(Lead)
    BY <2>1, <2>4, GiveUpAgree, ZenonT(40) DEF Gathering
  <2>5. CASE /\ \A r \in got : r.ok
             /\ Agreed(Lead, got)
             /\ pc' = [pc EXCEPT ![Lead] = IF co[Lead].stable = 1 THEN "stage" ELSE "prepare"]
             /\ co' = [co EXCEPT ![Lead] = Stabler(@)]
             /\ msgs' = msgs \ got
             /\ UNCHANGED <<eng, part>>
    <3>1. /\ pc'[Lead] \in {"stage", "prepare"} /\ co'[Lead] = Stabler(co[Lead])
          /\ \A k \in Others : pc'[k] = pc[k] /\ co'[k] = co[k]
      BY <1>0, <2>5, ZenonT(40) DEF TypeOK, Others
    <3>2. /\ co'[Lead].round = co[Lead].round /\ co'[Lead].members = co[Lead].members
          /\ co'[Lead].ready = co[Lead].ready /\ co[Lead].ready = {}
      BY <1>0, <2>1, <3>1, ZenonT(40) DEF Stabler, Locals, Announced, Gathering
    <3>3. CASE pc'[Lead] = "prepare"
      BY <2>1, <2>3, <2>5, <3>1, <3>2, <3>3, StepAgree, ZenonT(40) DEF Gathering
    <3>4. CASE pc'[Lead] = "stage"
      <4>1. co[Lead].members = Others
        BY <1>0, <2>1, AtLead, ZenonT(40) DEF Alone
      <4>2. \A k \in Others : \E m \in msgs : m.t = "prepared" /\ m.ok /\ m.from = k
        BY <2>3, <2>5, <4>1, ZenonT(40) DEF Agreed
      <4> QED BY <2>1, <2>3, <2>5, <3>1, <3>2, <3>4, <4>2, CutAgree, ZenonT(40)
    <3> QED BY <3>1, <3>3, <3>4, ZenonT(40)
  <2>6. CASE /\ pc' = [pc EXCEPT ![Lead] = "prepare"]
             /\ co' = [co EXCEPT ![Lead] = WithUnion(Frame(@.round, @.members), Union(Lead, got))]
             /\ msgs' = msgs \ got
             /\ UNCHANGED <<eng, part>>
    <3>1. /\ pc'[Lead] = "prepare"
          /\ co'[Lead] = WithUnion(Frame(co[Lead].round, co[Lead].members), Union(Lead, got))
          /\ \A k \in Others : pc'[k] = pc[k] /\ co'[k] = co[k]
      BY <1>0, <2>6, ZenonT(40) DEF TypeOK, Others
    <3>2. /\ co'[Lead].round = co[Lead].round /\ co'[Lead].members = co[Lead].members
          /\ co'[Lead].ready = {}
      BY <3>1, ZenonT(40) DEF WithUnion, Frame
    <3> QED BY <2>1, <2>3, <2>6, <3>1, <3>2, StepAgree, ZenonT(40) DEF Gathering
  <2> QED BY <2>2, <2>4, <2>5, <2>6, ZenonT(40)
<1>5. CASE PrepareDeadline(Lead)
  BY <1>5, GiveUpAgree, ZenonT(40) DEF PrepareDeadline, Running, Gathering
<1>6. CASE Stage(Lead)
  <2>1. PICK seed : /\ pc[Lead] = "stage" /\ pc' = [pc EXCEPT ![Lead] = "activate"]
                    /\ co' = [co EXCEPT ![Lead] = WithGenesis(@, seed)]
                    /\ UNCHANGED <<up, eng, part, members, replies, waiting, msgs, round, left>>
    BY <1>6, ZenonT(40) DEF Stage, Running
  <2>2. /\ pc'[Lead] = "activate" /\ co'[Lead] = WithGenesis(co[Lead], seed)
        /\ \A k \in Others : pc'[k] = pc[k] /\ co'[k] = co[k]
    BY <1>0, <2>1, ZenonT(40) DEF TypeOK, Others
  <2>3. /\ co'[Lead].round = co[Lead].round /\ co'[Lead].members = co[Lead].members
        /\ co'[Lead].ready = co[Lead].ready /\ co[Lead].ready = {}
    BY <1>0, <2>1, <2>2 DEF WithGenesis, Locals, Announced, Cutting
  <2> QED BY <2>1, <2>2, <2>3, StepAgree, ZenonT(40) DEF Cutting
<1>7. CASE Activate(Lead)
  BY <1>7, ActivateAgree, ZenonT(40)
<1>8. CASE SendSwitch(Lead)
  <2> DEFINE d == SwitchMsg(Lead)
  <2>1. /\ pc[Lead] = "switch"
        /\ UNCHANGED <<up, eng, part, co, members, replies, waiting, round, left>>
        /\ pc'[Lead] = "ready" /\ \A k \in Others : pc'[k] = pc[k]
        /\ msgs' = msgs \cup {d}
    BY <1>0, <1>8, ZenonT(40) DEF SendSwitch, Running, TypeOK, Others, Send
  <2>2. d.t = "switch" /\ d.from = Lead /\ d.round = round
    BY <1>0, <2>1, AtLead, ZenonT(40) DEF SwitchMsg
  <2> HIDE DEF d
  <2> QED BY <2>1, <2>2, StepAgree, ZenonT(40) DEF Switching, Gathering, Cutting
<1>9. CASE EvalReady(Lead)
  <2>1. pc[Lead] = "ready" /\ UNCHANGED <<up, members, replies, waiting, round, left>>
    BY <1>9, ZenonT(40) DEF EvalReady, Running
  <2> DEFINE all == {r.from : r \in {q \in Replies(Lead, "ready") : q.ok}}
  <2>2. PICK got \in SUBSET all :
              \/ GiveUp(Lead)
              \/ /\ co[Lead].ready \cup got = co[Lead].members
                 /\ pc' = [pc EXCEPT ![Lead] = "done"]
                 /\ UNCHANGED <<co, eng, part, msgs>>
              \/ /\ pc' = [pc EXCEPT ![Lead] = "switch"]
                 /\ co' = [co EXCEPT ![Lead] = WithReady(@, co[Lead].ready \cup got)]
                 /\ UNCHANGED <<eng, part, msgs>>
    <3>1. CASE GiveUp(Lead)
      BY <3>1, ZenonT(40)
    <3>2. CASE ~GiveUp(Lead)
      BY <1>9, <3>2, ZenonT(40) DEF EvalReady
    <3> QED BY <3>1, <3>2, ZenonT(40)
  <2>3. \A k \in got : ReadyOK(k)
    BY <2>2, ZenonT(40) DEF Replies, ReadyOK
  <2> HIDE DEF all
  <2>4. CASE GiveUp(Lead)
    BY <2>1, <2>4, GiveUpAgree, ZenonT(40) DEF Switching
  <2>5. CASE /\ co[Lead].ready \cup got = co[Lead].members
             /\ pc' = [pc EXCEPT ![Lead] = "done"]
             /\ UNCHANGED <<co, eng, part, msgs>>
    <3>1. pc'[Lead] = "done" /\ \A k \in Others : pc'[k] = pc[k]
      BY <1>0, <2>5, ZenonT(40) DEF TypeOK, Others
    <3>2. co[Lead].members = Others
      BY <1>0, <2>1, AtLead, ZenonT(40) DEF Alone
    <3>3. \A k \in Others : k \in co[Lead].ready \/ ReadyOK(k)
      BY <2>3, <2>5, <3>2, ZenonT(40)
    <3> QED BY <2>1, <2>5, <3>1, <3>3, ReadyAgree, ZenonT(40)
  <2>6. CASE /\ pc' = [pc EXCEPT ![Lead] = "switch"]
             /\ co' = [co EXCEPT ![Lead] = WithReady(@, co[Lead].ready \cup got)]
             /\ UNCHANGED <<eng, part, msgs>>
    <3>1. /\ pc'[Lead] = "switch" /\ co'[Lead] = WithReady(co[Lead], co[Lead].ready \cup got)
          /\ \A k \in Others : pc'[k] = pc[k] /\ co'[k] = co[k]
      BY <1>0, <2>6, ZenonT(40) DEF TypeOK, Others
    <3>2. /\ co'[Lead].round = co[Lead].round /\ co'[Lead].members = co[Lead].members
          /\ co'[Lead].ready = co[Lead].ready \cup got
      BY <1>0, <3>1, ZenonT(40) DEF WithReady, Locals
    <3> QED BY <2>1, <2>3, <2>6, <3>1, <3>2, StepAgree, ZenonT(40)
               DEF Switching, Gathering, Cutting
  <2> QED BY <2>2, <2>4, <2>5, <2>6, ZenonT(40)
<1>10. CASE SwitchDeadline(Lead)
  BY <1>10, GiveUpAgree, ZenonT(40) DEF SwitchDeadline, Running, Switching
<1>11. CASE SendDone(Lead)
  BY <1>11, SendDoneAgree, ZenonT(40)
<1>12. CASE CommitRound(Lead)
  BY <1>12, CommitRoundAgree, ZenonT(40)
<1>13. CASE RollbackRound(Lead)
  BY <1>13, RollbackRoundAgree, ZenonT(40)
<1>14. ~StageFails(Lead) /\ ~ActivateFails(Lead) /\ ~CommitFails(Lead)
  BY <1>0, ZenonT(40) DEF StageFails, ActivateFails, CommitFails, Unsaved
<1> QED BY <1>1, <1>2, <1>3, <1>4, <1>5, <1>6, <1>7, <1>8, <1>9, <1>10, <1>11, <1>12, <1>13,
           <1>14,
           ZenonT(40) DEF Coordinator

(***************************************************************************)
(* The invariant of the rotation                                           *)
(***************************************************************************)
LEMMA InitAgree == Steady /\ Init => AgreeInv
<1> SUFFICES ASSUME Steady, Init PROVE AgreeInv
  BY ZenonT(40)
<1>1. /\ Lead \in Node /\ NoPart.phase = "none" /\ NoPart.round = NoRound /\ NoRound = 0
      /\ NoFrame.round = NoRound /\ NoGen = -1 /\ NoReplies.got = {}
  BY DEF Steady, NoPart, NoFrame, Frame, NoRound, NoGen, NoReplies
<1>2. /\ \A n \in Node : /\ up[n] /\ eng[n].gen = 0 /\ eng[n].prev = NoGen /\ part[n] = NoPart
                         /\ pc[n] = "idle" /\ co[n] = NoFrame /\ waiting[n] = {}
                         /\ replies[n].got = {}
      /\ members[Lead] = Others /\ msgs = {} /\ round = 0
  BY <1>1 DEF Init, NoReplies, Steady
<1>3. Base = 0 /\ (\A n \in Others : On(n) /\ ~InDoubt(n)) /\ \A type : ~Sent(type)
  BY <1>1, <1>2, ZenonT(40) DEF Base, On, InDoubt, Others, Sent
<1>4. Alone
  BY <1>1, <1>2, ZenonT(40) DEF Alone, Others, Activating
<1>5. Informed /\ Fresh
  <2>1. NoRound <= round
    BY <1>1, <1>2
  <2>2. Informed
    BY <1>1, <1>2, <1>3, ZenonT(40) DEF Informed, Others
  <2>3. Fresh
    BY <1>1, <1>2, <2>1, ZenonT(40) DEF Fresh
  <2> QED BY <2>2, <2>3
<1>6. Announced /\ Outcomes /\ Joined
  BY <1>1, <1>2, <1>3, ZenonT(40) DEF Announced, Outcomes, Joined, Gathering, Cutting
<1>7. NoRejoin /\ Accounted
  BY <1>1, <1>2, <1>3, ZenonT(40) DEF NoRejoin, Accounted, Open, Cutting, Switching, Ending
<1>8. Generations
  <2>1. \A n \in Others : ~Late(n)
    BY <1>2, ZenonT(40) DEF Late, Others
  <2> QED BY <1>1, <1>2, <1>3, <2>1, ZenonT(40)
             DEF Generations, Placed, Cutting, Switching, Others
<1> QED BY <1>4, <1>5, <1>6, <1>7, <1>8, ZenonT(40) DEF AgreeInv

LEMMA InitInv == Steady /\ Init => Inv
<1> SUFFICES ASSUME Steady, Init PROVE Inv
  BY ZenonT(40)
<1>1. Synced
  BY DEF Init, Synced, Persisted
<1> QED BY <1>1, InitControl, InitRounds, InitAgree, ZenonT(40) DEF Inv

LEMMA NextInv ==
    ASSUME Steady, Inv, [Next]_vars, [OutcomesHeard]_vars
    PROVE  Inv' /\ LostStays
<1>0. Before
  BY ZenonT(40) DEF Before
<1>1. Sane' /\ ControlInv' /\ Synced' /\ RoundInv'
  <2>1. Sound /\ ~DiskFails /\ ControlInv /\ Synced /\ RoundInv /\ TypeOK
    BY <1>0, Opened, ZenonT(40) DEF Steady
  <2> QED BY <2>1, NextControl, NextSynced, NextRounds, ZenonT(40) DEF Sane
<1> SUFFICES Preserved
  BY <1>1, ZenonT(40) DEF Inv, Preserved
<1>2. CASE UNCHANGED vars
  <2>1. UNCHANGED <<up, eng, part, pc, co, members, replies, waiting, msgs, round, left>>
    BY <1>2, ZenonT(40) DEF vars
  <2>2. \A k \in Node : \A r \in replies'[k].got : r.from = Lead => r.idle
    BY <1>0, <2>1, Opened, ZenonT(40) DEF AgreeInv, Informed
  <2> QED BY <1>0, <1>1, <2>1, <2>2, QuietAgree, ZenonT(40) DEF QuietStep
<1>3. CASE Next /\ OutcomesHeard
  <2>1. PICK n \in Node : \/ Client(n) \/ Peer(n) \/ Handler(n) \/ Watchdog(n)
                          \/ Compact(n) \/ Coordinator(n) \/ Fault(n)
    BY <1>3, ZenonT(40) DEF Next
  <2>2. ~SwitchFails(n) /\ ~CrashInActivate(n) /\ ~CrashInRollback(n)
    BY ZenonT(40) DEF Steady, Sound, SwitchFails, CrashInActivate, CrashInRollback
  <2>3. CASE Handler(n) \/ Watchdog(n)
    BY <1>0, <1>1, <2>2, <2>3, OnPrepareAgree, OnSwitchAgree, OnDoneCommits, OnAbortBacks,
       StatusAgree, OnOutcomeSettles, SeedAgree, IdleBacks, CommitAgree, BackAgree, QuietAgree,
       ZenonT(40) DEF Handler, Watchdog
  <2>4. CASE Fault(n)
    BY <1>0, <1>1, <2>2, <2>4, CrashAgree, RestartAgree, ZenonT(40) DEF Fault, Crash
  <2>5. CASE Client(n) \/ Peer(n) \/ Compact(n) \/ Coordinator(n)
    BY <1>0, <1>1, <1>3, <2>5, ClientAgree, PeerAgree, CompactAgree, CoordinatorAgree, ZenonT(40)
  <2> QED BY <2>1, <2>3, <2>4, <2>5, ZenonT(40)
<1> QED BY <1>2, <1>3, ZenonT(40)

LEMMA AgreeFromInv == Steady /\ Inv => GenAgreement
<1> SUFFICES ASSUME Before PROVE GenAgreement
  BY ZenonT(40) DEF Before
<1>0. Lead \in Node /\ ControlInv /\ Generations
  BY Opened, ZenonT(40) DEF AgreeInv
<1>1. ASSUME NEW n \in Others, Settled(n)
      PROVE  eng[n].gen = IF pc[Lead] = "commit" THEN Base + 1 ELSE Base
  <2>1. n \in Node /\ Placed(n) /\ ~InDoubt(n) /\ pc[Lead] \in PCs
    BY <1>0, <1>1, AtLead, ZenonT(40) DEF Generations, Others, Settled
  <2>2. ~Ahead(n) /\ ~Late(n)
    BY <1>0, <2>1, Standing, ZenonT(40)
  <2>3. IF pc[Lead] = "commit" THEN Past(n) ELSE On(n)
    BY <2>1, <2>2, ZenonT(40) DEF Placed, Gathering, Cutting, Switching, PCs, Activating
  <2> QED BY <2>3, ZenonT(40) DEF On, Past
<1>2. Settled(Lead) => pc[Lead] = "idle" /\ eng[Lead].gen = Base
  BY <1>0, AtLead, ZenonT(40) DEF Settled, Coordinating, Activating
<1> QED BY <1>0, <1>1, <1>2, ZenonT(40) DEF GenAgreement, Others

(***************************************************************************)
(* GenAgreement for every set of nodes, every number of rounds and every   *)
(* crash of a participant: whatever is lost or delayed of prepare,         *)
(* prepared, switch, ready, done and abort, the replicas that take part in *)
(* no round are on one generation.  The coordinator stays up and knows the *)
(* others (Steady), and an answer to an earlier status question does not   *)
(* reach into the next cut (OutcomesHeard).                                *)
(***************************************************************************)
THEOREM GenAgreementAlways ==
    Steady => (Spec /\ [][OutcomesHeard]_vars => []GenAgreement)
<1> SUFFICES ASSUME Steady PROVE Spec /\ [][OutcomesHeard]_vars => []GenAgreement
  OBVIOUS
<1>1. Init => Inv
  BY InitInv
<1>2. Inv /\ [Next]_vars /\ [OutcomesHeard]_vars => Inv'
  BY NextInv
<1>3. Inv => GenAgreement
  BY AgreeFromInv
<1> QED BY <1>1, <1>2, <1>3, PTL DEF Spec

=============================================================================
