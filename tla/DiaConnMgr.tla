----------------------------- MODULE DiaConnMgr -----------------------------
(***************************************************************************)
(* The peer groups of common/src/diaConnMgr.c: one interface with its      *)
(* priority and standby group, the active and the waiting peer list of     *)
(* each, the peer that takes the next request, and the peers that join and *)
(* leave the lists. A peer lives the life of DiaPeerLife, which            *)
(* DiaConnState implements; here its steps make the calls to               *)
(* diaconnMgr_notifyFailback and diaconnMgr_notifyFailover that move its   *)
(* list element. Everything runs in one thread, so a call is one step.     *)
(***************************************************************************)
EXTENDS Naturals, SequencesExt

CONSTANTS
  Priority,    \* the peers provisioned with isPriority
  Standby,     \* the others
  Nobody       \* the null list element

ASSUME PeersAssumption ==
  /\ Priority \cap Standby = {}
  /\ Nobody \notin Priority \cup Standby

VARIABLES
  phase,       \* where each peer is in its life, "new" before it is provisioned
  activeList,  \* activePeerList of each group
  waitingList, \* waitingPeerList of each group
  pNextPeer,   \* of each group
  intfState,   \* of the interface
  turns        \* how often a peer was picked since its group's lists last moved

mgrVars == <<phase, activeList, waitingList, pNextPeer, intfState, turns>>

Groups == {"priority", "standby"}
Peers == Priority \cup Standby
GroupOf(p) == IF p \in Priority THEN "priority" ELSE "standby"
Members(g) == IF g = "priority" THEN Priority ELSE Standby
Phases == {"new", "closed", "handshake", "open", "failed", "closing", "dead"}

\* The bound on turns: counts that differ by more look alike.
MaxTurns == 2

TypeOK ==
  /\ phase \in [Peers -> Phases]
  /\ \A g \in Groups :
       /\ activeList[g] \in Seq(Members(g)) /\ waitingList[g] \in Seq(Members(g))
       /\ pNextPeer[g] \in Members(g) \cup {Nobody}
  /\ intfState \in {"none", "priority", "standby"}
  /\ turns \in [Peers -> 0..MaxTurns]

(***************************************************************************)
(* The list library (osList), as far as the code relies on it. A peer has  *)
(* one list element, so an element is named by its peer.                   *)
(***************************************************************************)
unlinkElement(list, p) ==
  IF p \in ToSet(list) THEN RemoveAt(list, CHOOSE i \in DOMAIN list : list[i] = p) ELSE list

\* The list that holds p, and the element after p in it: the list is a ring.
ListOf(g, p) == IF p \in ToSet(activeList[g]) THEN activeList[g] ELSE waitingList[g]
getNextElement_Same(g, p) == p

getNextElement(g, p) ==
  LET list == ListOf(g, p)
      i    == CHOOSE k \in DOMAIN list : list[k] = p
  IN  list[(i % Len(list)) + 1]

(***************************************************************************)
(* diaconnMgr_notifyFailback and diaconnMgr_notifyFailover                 *)
(***************************************************************************)
Afresh(g) == [p \in Peers |-> IF GroupOf(p) = g THEN 0 ELSE turns[p]]

notifyFailback_NoNext(p) ==
  LET g == GroupOf(p) IN
  /\ waitingList' = [waitingList EXCEPT ![g] = unlinkElement(@, p)]
  /\ activeList' = [activeList EXCEPT ![g] = Append(unlinkElement(@, p), p)]
  /\ intfState' = IF g = "priority" THEN g ELSE IF intfState = "none" THEN g ELSE intfState
  /\ turns' = Afresh(g)
  /\ UNCHANGED pNextPeer

notifyFailback_Takes(p) ==
  LET g == GroupOf(p) IN
  /\ waitingList' = [waitingList EXCEPT ![g] = unlinkElement(@, p)]
  /\ activeList' = [activeList EXCEPT ![g] = Append(unlinkElement(@, p), p)]
  /\ intfState' = g
  /\ pNextPeer' = [pNextPeer EXCEPT ![g] = IF @ = Nobody THEN Head(activeList'[g]) ELSE @]
  /\ turns' = Afresh(g)

\* From SUSPECT the code calls it twice in a row, which is the same as once.
notifyFailback(p) ==
  LET g == GroupOf(p) IN
  /\ waitingList' = [waitingList EXCEPT ![g] = unlinkElement(@, p)]
  /\ activeList' = [activeList EXCEPT ![g] = Append(unlinkElement(@, p), p)]
  /\ intfState' = IF g = "priority" \/ intfState = "none" THEN g ELSE intfState
  /\ pNextPeer' = [pNextPeer EXCEPT ![g] = IF @ = Nobody THEN Head(activeList'[g]) ELSE @]
  /\ turns' = Afresh(g)

notifyFailover_WrongList(p) ==
  LET g == GroupOf(p) IN
  /\ activeList' = [activeList EXCEPT ![g] = Append(unlinkElement(@, p), p)]
  /\ turns' = Afresh(g)
  /\ UNCHANGED <<waitingList, intfState, pNextPeer>>

notifyFailover_Stays(p) ==
  LET g == GroupOf(p) IN
  /\ waitingList' = [waitingList EXCEPT ![g] = Append(unlinkElement(@, p), p)]
  /\ turns' = Afresh(g)
  /\ UNCHANGED <<activeList, intfState, pNextPeer>>

notifyFailover_Early(p) ==
  LET g == GroupOf(p) IN
  /\ activeList' = [activeList EXCEPT ![g] = unlinkElement(@, p)]
  /\ waitingList' = [waitingList EXCEPT ![g] = Append(unlinkElement(@, p), p)]
  /\ pNextPeer' = [pNextPeer EXCEPT ![g] = Head(activeList[g])]
  /\ turns' = Afresh(g)
  /\ UNCHANGED intfState

\* pNextPeer is read and never moved: it may name the element that has just gone
\* to the waiting list.
notifyFailover(p) ==
  LET g == GroupOf(p) IN
  /\ activeList' = [activeList EXCEPT ![g] = unlinkElement(@, p)]
  /\ waitingList' = [waitingList EXCEPT ![g] = Append(unlinkElement(@, p), p)]
  /\ intfState' = IF pNextPeer[g] = Nobody /\ intfState = g
                    THEN IF g = "priority" THEN "standby" ELSE "none"
                    ELSE intfState
  /\ turns' = Afresh(g)
  /\ UNCHANGED pNextPeer

(***************************************************************************)
(* Provisioning (diaConnProv, diaConnAddNewPeer)                           *)
(***************************************************************************)
diaConnProv_OneGroup(p) ==
  /\ phase[p] = "new"
  /\ phase' = [phase EXCEPT ![p] = "closed"]
  /\ waitingList' = [waitingList EXCEPT !["priority"] = Append(@, p)]
  /\ turns' = Afresh("priority")
  /\ UNCHANGED <<activeList, pNextPeer, intfState>>

diaConnProv(p) ==
  /\ phase[p] = "new"
  /\ phase' = [phase EXCEPT ![p] = "closed"]
  /\ waitingList' = [waitingList EXCEPT ![GroupOf(p)] = Append(@, p)]
  /\ turns' = Afresh(GroupOf(p))
  /\ UNCHANGED <<activeList, pNextPeer, intfState>>

(***************************************************************************)
(* The lives of the peers: the steps of DiaPeerLife.                       *)
(***************************************************************************)
Moves(p, from, to) == phase[p] \in from /\ phase' = [phase EXCEPT ![p] = to]

Opens(p) == Moves(p, {"closed", "handshake", "failed"}, "open") /\ notifyFailback(p)
FailsOver(p) == Moves(p, {"open"}, "failed") /\ notifyFailover(p)

\* The steps that leave the lists alone.
Drifts(p) ==
  /\ \/ Moves(p, {"closed"}, "handshake")
     \/ Moves(p, {"handshake", "failed", "closing"}, "closed")
     \/ Moves(p, {"open"}, "closing")
     \/ Moves(p, {"open"}, "dead")
  /\ UNCHANGED <<activeList, waitingList, pNextPeer, intfState, turns>>

(***************************************************************************)
(* diaConnGetActiveDcb, when it gives a peer.                              *)
(***************************************************************************)
Picked(p) ==
  LET raised == [turns EXCEPT ![p] = IF @ < MaxTurns THEN @ + 1 ELSE @]
      ring   == ToSet(ListOf(GroupOf(p), p))
  IN  IF \A q \in ring : raised[q] > 0
        THEN [q \in Peers |-> IF q \in ring THEN raised[q] - 1 ELSE raised[q]]
        ELSE raised

diaConnGetActiveDcb ==
  \E g \in Groups :
    /\ intfState = g
    /\ pNextPeer[g] # Nobody
    /\ pNextPeer' = [pNextPeer EXCEPT ![g] = getNextElement(g, @)]
    /\ turns' = Picked(pNextPeer[g])
    /\ UNCHANGED <<phase, activeList, waitingList, intfState>>

(***************************************************************************)
(* diaConnMgr_getDcb: the dcb a message of the peer p is handed to. Only   *)
(* the first element of each list is looked at; when none matches, the     *)
(* last one seen is the answer.                                            *)
(***************************************************************************)
getDcb_OneList(p) ==
  IF waitingList[GroupOf(p)] = <<>> THEN Nobody ELSE Head(waitingList[GroupOf(p)])

lookAtHead(p, list, found) == IF found = p \/ list = <<>> THEN found ELSE Head(list)

getDcb(p) ==
  LET look(list, found) == lookAtHead(p, list, found) IN
  look(activeList["standby"],
    look(waitingList["standby"],
      look(activeList["priority"],
        look(waitingList["priority"], Nobody))))

-----------------------------------------------------------------------------
\* diaConnMgr_init
Init ==
  /\ phase = [p \in Peers |-> "new"]
  /\ activeList = [g \in Groups |-> <<>>]
  /\ waitingList = [g \in Groups |-> <<>>]
  /\ pNextPeer = [g \in Groups |-> Nobody]
  /\ intfState = "none"
  /\ turns = [p \in Peers |-> 0]

\* The peers share a process: it stops for all when it dies.
Alive == \A p \in Peers : phase[p] # "dead"

Next ==
  /\ Alive
  /\ \/ \E p \in Peers : diaConnProv(p) \/ Opens(p) \/ FailsOver(p) \/ Drifts(p)
     \/ diaConnGetActiveDcb

Spec == Init /\ [][Next]_mgrVars

-----------------------------------------------------------------------------
Active(g) == ToSet(activeList[g])
Waiting(g) == ToSet(waitingList[g])

\* However peers come and go, the element of a provisioned peer is in exactly one
\* list of its own group, once.
OneListEach ==
  \A g \in Groups :
    /\ Active(g) \cap Waiting(g) = {}
    /\ Active(g) \cup Waiting(g) = {p \in Members(g) : phase[p] # "new"}
    /\ IsInjective(activeList[g]) /\ IsInjective(waitingList[g])

\* While some peer is in an active list a request is given a peer: it is never
\* refused for want of a next peer or of an interface state.
AvailableIfActive ==
  (\E g \in Groups : activeList[g] # <<>>) =>
    intfState # "none" /\ pNextPeer[intfState] # Nobody

\* As soon as one priority peer is active, requests use the priority group.
PriorityPreferred == activeList["priority"] # <<>> => intfState = "priority"

\* Between two moves of the lists, the peers of the ring that is in use have had
\* their turn equally often, give or take one.
EvenTurns ==
  \A g \in Groups :
    pNextPeer[g] # Nobody =>
      \A p, q \in ToSet(ListOf(g, pNextPeer[g])) : turns[p] <= turns[q] + 1

\* The first peer of a list gets the messages it sends.
HeadIsFound ==
  \A g \in Groups :
    /\ waitingList[g] # <<>> => getDcb(Head(waitingList[g])) = Head(waitingList[g])
    /\ activeList[g] # <<>> => getDcb(Head(activeList[g])) = Head(activeList[g])

-----------------------------------------------------------------------------
\* The list moves realise what DiaPeerLife says of each peer.
Life(p) ==
  INSTANCE DiaPeerLife WITH phase <- IF phase[p] = "new" THEN "closed" ELSE phase[p],
                            active <- p \in ToSet(activeList[GroupOf(p)])
LivesOfPeers ==
  /\ \A p \in Peers : Life(p)!LifeInit
  /\ [][\A p \in Peers : [Life(p)!LifeNext]_(Life(p)!lifeVars)]_mgrVars

-----------------------------------------------------------------------------
\* diaConnMgr.h: "traffic always uses priority group connection unless no active
\* connection in the group, then the stby group connection will be used".
StandbyTakesOver ==
  activeList["priority"] = <<>> /\ activeList["standby"] # <<>> => intfState = "standby"
=============================================================================
