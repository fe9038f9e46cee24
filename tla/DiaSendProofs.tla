---------------------------- MODULE DiaSendProofs ----------------------------
(***************************************************************************)
(* Theorems about DiaSend, for any peers and any requests: senders leave   *)
(* what is proved of the peer groups as it is, and keep to active peers.   *)
(***************************************************************************)
EXTENDS DiaSend, DiaConnMgrProofs

\* The standby group takes requests only as long as no priority peer ever was active.
StandbyFirst == intfState # "priority" => pNextPeer["priority"] = Nobody

SendInv == IInv /\ SendTypeOK /\ StandbyFirst

\* A turn of a sender is a turn of DiaConnMgr, its other steps are none.
LEMMA SendStep == [SendNext]_allVars => [Next]_mgrVars
<1> SUFFICES ASSUME [SendNext]_allVars PROVE [Next]_mgrVars
  OBVIOUS
<1>1. ASSUME NEW r \in Requests, Alive, buildFor(r) \/ noActiveDcb(r) \/ buildFails(r) \/ sendAppMsg(r)
      PROVE  [Next]_mgrVars
  BY <1>1 DEF buildFor, noActiveDcb, buildFails, sendAppMsg, Next
<1>2. CASE Next \/ UNCHANGED allVars
  BY <1>2 DEF allVars
<1> QED
  BY <1>1, <1>2 DEF SendNext

LEMMA StepStandbyFirst ==
  ASSUME SendInv, [Next]_mgrVars
  PROVE  StandbyFirst'
<1>1. ASSUME NEW p \in Peers, Opens(p) PROVE StandbyFirst'
  <2>1. pNextPeer \in [Groups -> Peers \cup {Nobody}]
    BY DEF SendInv, IInv, Shape
  <2> QED
    BY <1>1, <2>1, GroupsApart
       DEF Opens, notifyFailback, SendInv, StandbyFirst, Groups
<1>2. ASSUME NEW p \in Peers, FailsOver(p) PROVE StandbyFirst'
  BY <1>2 DEF FailsOver, notifyFailover, SendInv, StandbyFirst
<1>3. ASSUME NEW p \in Peers, diaConnProv(p) \/ Drifts(p) PROVE StandbyFirst'
  BY <1>3 DEF diaConnProv, Drifts, SendInv, StandbyFirst
<1>4. CASE diaConnGetActiveDcb
  BY <1>4 DEF diaConnGetActiveDcb, SendInv, StandbyFirst, IInv, Shape, Groups
<1>5. CASE UNCHANGED mgrVars
  BY <1>5 DEF mgrVars, SendInv, StandbyFirst
<1> QED
  BY <1>1, <1>2, <1>3, <1>4, <1>5 DEF Next

LEMMA StepSendTypeOK ==
  ASSUME IInv, SendTypeOK, [SendNext]_allVars
  PROVE  SendTypeOK'
<1> USE DEF SendTypeOK
<1>1. /\ \A g \in Groups : pNextPeer[g] \in Peers \cup {Nobody}
      /\ \A g : g \in Groups => g = "priority" \/ g = "standby"
  BY DEF IInv, Shape, Groups
<1>2. ASSUME NEW r \in Requests, buildFor(r) PROVE SendTypeOK'
  BY <1>1, <1>2 DEF buildFor, diaConnGetActiveDcb
<1>3. ASSUME NEW r \in Requests, Refuse(r) PROVE SendTypeOK'
  BY <1>3 DEF Refuse
<1>4. ASSUME NEW r \in Requests, NEW p \in Peers \cup {Nobody}, transport_send(r, p)
      PROVE  SendTypeOK'
  BY <1>3, <1>4 DEF transport_send
<1>5. ASSUME NEW r \in Requests, sendAppMsg(r) PROVE SendTypeOK'
  <2>1. destHost[r] \in Peers \cup {Nobody}
    OBVIOUS
  <2>2. CASE diaConnGetActiveDcb /\ transport_send(r, pNextPeer[intfState])
    <3>1. intfState \in Groups
      BY <2>2 DEF diaConnGetActiveDcb
    <3> QED
      BY <1>1, <1>4, <2>2, <3>1
  <2> QED
    BY <1>3, <1>4, <1>5, <2>1, <2>2 DEF sendAppMsg
<1>6. CASE UNCHANGED sendVars
  BY <1>6 DEF sendVars
<1> QED
  BY <1>2, <1>3, <1>5, <1>6 DEF SendNext, noActiveDcb, buildFails, allVars

LEMMA StepSendInv == SendInv /\ [SendNext]_allVars => SendInv'
BY SendStep, StepIInv, StepSendTypeOK, StepStandbyFirst DEF SendInv

\* The element after one of the active list is in the active list.
LEMMA TurnStaysInRing ==
  ASSUME IInv, NEW g \in Groups, pNextPeer[g] \in Active(g)
  PROVE  getNextElement(g, pNextPeer[g]) \in Active(g)
<1> DEFINE list == activeList[g]
           i == CHOOSE k \in DOMAIN list : list[k] = pNextPeer[g]
<1>1. list \in Seq(Members(g)) /\ pNextPeer[g] \in ToSet(list)
  BY DEF IInv, TypeOK, Active
<1>2. getNextElement(g, pNextPeer[g]) = list[(i % Len(list)) + 1]
  BY <1>1 DEF getNextElement, ListOf
<1> HIDE DEF list
<1>3. Len(list) \in Nat /\ DOMAIN list = 1..Len(list)
  BY <1>1, LenProperties
<1>4. i \in 1..Len(list)
  BY <1>1, <1>3 DEF ToSet
<1> HIDE DEF i
<1>5. (i % Len(list)) + 1 \in 1..Len(list)
  BY <1>3, <1>4
<1> QED
  BY <1>2, <1>3, <1>5 DEF ToSet, Active, list

\* Only the failover of the next peer takes it off the active list.
LEMMA NextStays ==
  ASSUME SendInv, [Next]_mgrVars, NextIsActive, ~NextIsActive'
  PROVE  FailsOver(pNextPeer[intfState])
<1> DEFINE g == intfState
           n == pNextPeer[g]
<1>1. /\ g \in Groups /\ n \in Active(g) /\ n \in Peers /\ GroupOf(n) = g
      /\ pNextPeer \in [Groups -> Peers \cup {Nobody}]
  <2>1. g \in Groups
    BY DEF NextIsActive, SendInv, IInv, TypeOK, Groups
  <2>2. n \in Members(g)
    BY <2>1 DEF NextIsActive, SendInv, IInv, OneListEach
  <2> QED
    BY <2>1, <2>2, GroupsApart DEF NextIsActive, SendInv, IInv, Shape
<1>2. n # Nobody
  BY <1>1, GroupsApart
<1> HIDE DEF n
<1>3. ASSUME NEW p \in Peers, Opens(p) PROVE FALSE
  <2>1. /\ notifyFailback(p) /\ Kept(GroupOf(p))
        /\ ToSet(activeList'[GroupOf(p)]) = Active(GroupOf(p)) \cup {p}
    BY <1>3, FailbackMoves DEF Opens, SendInv
  <2>2. n \in ToSet(activeList'[g])
    BY <1>1, <2>1 DEF Kept, Active
  <2>3. pNextPeer'[g] = n
    BY <1>1, <1>2, <2>1, GroupsApart DEF notifyFailback, n
  <2>4. CASE intfState' = g
    BY <1>1, <2>2, <2>3, <2>4 DEF NextIsActive, Active, Groups
  <2>5. CASE intfState' # g
    <3>1. /\ GroupOf(p) = "priority" /\ intfState' = "priority"
          /\ pNextPeer["priority"] = Nobody
      BY <1>1, <2>1, <2>5 DEF notifyFailback, SendInv, StandbyFirst, Groups
    <3>2. /\ pNextPeer'["priority"] = Head(activeList'["priority"])
          /\ activeList'["priority"] \in Seq(Members("priority"))
          /\ activeList'["priority"] # <<>>
      <4>1. "priority" \in Groups
        BY DEF Groups
      <4>2. Lists("priority") /\ activeList'["priority"] # <<>>
        BY <1>3, <3>1, FailbackMoves DEF Opens, SendInv
      <4> QED
        BY <1>1, <2>1, <3>1, <4>1, <4>2 DEF notifyFailback, Lists
    <3> QED
      BY <3>1, <3>2, InList DEF NextIsActive, Active
  <2> QED
    BY <2>4, <2>5
<1>4. ASSUME NEW p \in Peers, FailsOver(p), p # n PROVE FALSE
  <2>1. /\ notifyFailover(p) /\ Kept(GroupOf(p)) /\ GroupOf(p) \in Groups
        /\ ToSet(activeList'[GroupOf(p)]) = Active(GroupOf(p)) \ {p}
    BY <1>4, FailoverMoves, GroupsApart DEF FailsOver, SendInv
  <2>2. n \in ToSet(activeList'[g])
    BY <1>1, <1>4, <2>1 DEF Kept, Active
  <2>3. pNextPeer' = pNextPeer /\ intfState' = g
    BY <1>1, <1>2, <2>1 DEF notifyFailover, n
  <2> QED
    BY <1>1, <2>2, <2>3 DEF NextIsActive, Active, Groups, n
<1>5. ASSUME UNCHANGED <<activeList, pNextPeer, intfState>> PROVE FALSE
  BY <1>5 DEF NextIsActive, Active
<1>6. CASE diaConnGetActiveDcb
  <2>1. /\ pNextPeer'[g] = getNextElement(g, n)
        /\ activeList' = activeList /\ intfState' = g
    BY <1>1, <1>6 DEF diaConnGetActiveDcb, n
  <2> QED
    BY <1>1, <2>1, TurnStaysInRing DEF NextIsActive, Active, SendInv, n, Groups
<1> QED
  BY <1>3, <1>4, <1>5, <1>6 DEF Next, diaConnProv, Drifts, mgrVars, n

\* Senders add nothing to what the peer groups do: every theorem about DiaConnMgr
\* holds with any number of requests being sent.
THEOREM SendsImplementMgr == SendSpec => Spec
<1>1. SendInit => Init
  BY DEF SendInit
<1> QED
  BY <1>1, SendStep, PTL DEF SendSpec, Spec

\* For any peers and any senders, requests that go to active peers keep to them until
\* the very peer whose turn it is fails over.
THEOREM SendsStay == SendSpec => SendsStayActive
<1>1. SendInit => SendInv
  <2>1. SendInit => StandbyFirst /\ SendTypeOK
    BY DEF SendInit, Init, StandbyFirst, SendTypeOK, Groups
  <2> QED
    BY <2>1, InitIInv DEF SendInit, SendInv
<1> DEFINE Stays == /\ NextIsActive /\ ~NextIsActive' => FailsOver(pNextPeer[intfState])
                    /\ \A r \in Requests \ ByPeer :
                         NextIsActive /\ step[r] = "built" /\ step'[r] = "sent"
                           => carrier'[r] \in Active(intfState)
<1>2. SendInv /\ [SendNext]_allVars => [Stays]_allVars
  <2> SUFFICES ASSUME SendInv, SendNext PROVE Stays
    OBVIOUS
  <2>1. NextIsActive /\ ~NextIsActive' => FailsOver(pNextPeer[intfState])
    BY SendStep, NextStays
  <2>2. ASSUME NEW r \in Requests \ ByPeer, NextIsActive, step[r] = "built", step'[r] = "sent"
        PROVE  carrier'[r] \in Active(intfState)
    <3>1. SendTypeOK /\ intfState \in Groups
      BY <2>2 DEF NextIsActive, SendInv, IInv, TypeOK, Groups
    <3>2. sendAppMsg(r)
      <4>1. PICK q \in Requests : buildFor(q) \/ noActiveDcb(q) \/ buildFails(q) \/ sendAppMsg(q)
        BY <2>2 DEF SendNext, sendVars
      <4>2. q = r
        BY <2>2, <3>1, <4>1
           DEF SendTypeOK, buildFor, noActiveDcb, buildFails, sendAppMsg, transport_send, Refuse
      <4> QED
        BY <2>2, <3>1, <4>1, <4>2
           DEF SendTypeOK, buildFor, noActiveDcb, buildFails, Refuse
    <3>3. ~Refuse(r)
      BY <2>2, <3>1 DEF SendTypeOK, Refuse
    <3>4. transport_send(r, pNextPeer[intfState])
      BY <2>2, <3>2, <3>3 DEF sendAppMsg
    <3> QED
      BY <2>2, <3>1, <3>3, <3>4 DEF SendTypeOK, transport_send, NextIsActive
  <2> QED
    BY <2>1, <2>2
<1> QED
  BY <1>1, <1>2, StepSendInv, PTL DEF SendSpec, SendsStayActive
=============================================================================
