-------------------------- MODULE DiaConnMgrProofs --------------------------
(***************************************************************************)
(* Theorems about the peer groups of DiaConnMgr, for any peers.            *)
(***************************************************************************)
EXTENDS DiaConnMgr, SequenceTheorems, TLAPS

(***************************************************************************)
(* Lists of distinct elements.                                             *)
(***************************************************************************)
\* Unlinking an element keeps the others, and leaves a list without it alone.
LEMMA Unlinked ==
  ASSUME NEW S, NEW list \in Seq(S), IsInjective(list), NEW p
  PROVE  /\ unlinkElement(list, p) \in Seq(S)
         /\ IsInjective(unlinkElement(list, p))
         /\ ToSet(unlinkElement(list, p)) = ToSet(list) \ {p}
<1>1. CASE p \notin ToSet(list)
  BY <1>1 DEF unlinkElement
<1>2. CASE p \in ToSet(list)
  <2> DEFINE i == CHOOSE k \in DOMAIN list : list[k] = p
             n == Len(list)
             front == SubSeq(list, 1, i - 1)
             back == SubSeq(list, i + 1, n)
  <2>1. n \in Nat /\ DOMAIN list = 1..n /\ \A k \in 1..n : list[k] \in S
    BY LenProperties, ElementOfSeq
  <2>2. i \in 1..n /\ list[i] = p
    BY <1>2, <2>1 DEF ToSet
  <2> HIDE DEF i, n
  <2>3. /\ front \in Seq(S) /\ Len(front) = i - 1
        /\ \A k \in 1..(i - 1) : front[k] = list[k]
    <3>1. \A k \in 1..(i - 1) : list[k] \in S
      BY <2>1, <2>2
    <3> QED
      BY <2>1, <2>2, <3>1, SubSeqProperties
  <2>4. /\ back \in Seq(S) /\ Len(back) = n - i
        /\ \A k \in 1..(n - i) : back[k] = list[i + k]
    <3>1. \A k \in (i + 1)..n : list[k] \in S
      BY <2>1, <2>2
    <3>2. /\ back \in Seq(S)
          /\ Len(back) = IF i + 1 <= n THEN n - (i + 1) + 1 ELSE 0
          /\ \A k \in 1..(n - (i + 1) + 1) : back[k] = list[i + 1 + k - 1]
      BY <2>1, <2>2, <3>1, SubSeqProperties
    <3> QED
      BY <2>1, <2>2, <3>2
  <2> DEFINE rest == front \o back
  <2>5. /\ rest \in Seq(S) /\ Len(rest) = n - 1
        /\ \A k \in 1..(n - 1) : rest[k] = IF k < i THEN list[k] ELSE list[k + 1]
    <3> HIDE DEF front, back
    <3>1. /\ rest \in Seq(S) /\ Len(rest) = Len(front) + Len(back)
          /\ \A k \in 1..(Len(front) + Len(back)) :
               rest[k] = IF k <= Len(front) THEN front[k] ELSE back[k - Len(front)]
      BY <2>3, <2>4, ConcatProperties
    <3>2. ASSUME NEW k \in 1..(n - 1), k >= i PROVE back[k - (i - 1)] = list[k + 1]
      <4>1. k - (i - 1) \in 1..(n - i) /\ i + (k - (i - 1)) = k + 1
        BY <2>1, <2>2, <3>2
      <4> QED
        BY <2>4, <4>1
    <3> QED
      BY <2>1, <2>2, <2>3, <2>4, <3>1, <3>2
  <2>6. unlinkElement(list, p) = rest
    BY <1>2 DEF unlinkElement, RemoveAt, i, n
  <2> HIDE DEF rest
  <2>7. DOMAIN rest = 1..(n - 1)
    BY <2>1, <2>5, LenProperties
  <2>8. \A k, l \in 1..n : list[k] = list[l] => k = l
    BY <2>1 DEF IsInjective
  <2>9. IsInjective(rest)
    BY <2>1, <2>2, <2>5, <2>7, <2>8 DEF IsInjective
  <2>10. ToSet(rest) = ToSet(list) \ {p}
    <3>1. ASSUME NEW x \in ToSet(rest) PROVE x \in ToSet(list) \ {p}
      <4>1. PICK k \in 1..(n - 1) : x = rest[k]
        BY <2>7 DEF ToSet
      <4>2. PICK l \in 1..n : x = list[l] /\ l # i
        BY <2>1, <2>2, <2>5, <4>1
      <4> QED
        BY <2>1, <2>2, <2>8, <4>2 DEF ToSet
    <3>2. ASSUME NEW x \in ToSet(list) \ {p} PROVE x \in ToSet(rest)
      <4>1. PICK l \in 1..n : x = list[l] /\ l # i
        BY <2>1, <2>2 DEF ToSet
      <4>2. CASE l < i
        BY <2>1, <2>2, <2>5, <2>7, <4>1, <4>2 DEF ToSet
      <4>3. CASE l > i
        <5>1. l - 1 \in 1..(n - 1) /\ rest[l - 1] = list[l]
          BY <2>1, <2>2, <2>5, <4>1, <4>3
        <5> QED
          BY <2>7, <4>1, <5>1 DEF ToSet
      <4> QED
        BY <2>1, <2>2, <4>1, <4>2, <4>3
    <3> QED
      BY <3>1, <3>2
  <2> QED
    BY <2>5, <2>6, <2>9, <2>10
<1> QED
  BY <1>1, <1>2

\* Appending an element that is not in the list.
LEMMA Appended ==
  ASSUME NEW S, NEW list \in Seq(S), IsInjective(list), NEW p \in S, p \notin ToSet(list)
  PROVE  /\ Append(list, p) \in Seq(S)
         /\ IsInjective(Append(list, p))
         /\ ToSet(Append(list, p)) = ToSet(list) \cup {p}
         /\ Append(list, p) # <<>>
<1> DEFINE n == Len(list)
           more == Append(list, p)
<1>1. n \in Nat /\ DOMAIN list = 1..n
  BY LenProperties
<1>2. /\ more \in Seq(S) /\ DOMAIN more = 1..(n + 1)
      /\ \A k \in 1..n : more[k] = list[k]
      /\ more[n + 1] = p
  BY <1>1, AppendProperties, LenProperties
<1> HIDE DEF more, n
<1>3. 1 \in DOMAIN more
  BY <1>1, <1>2
<1>4. IsInjective(more)
  BY <1>1, <1>2 DEF IsInjective, ToSet
<1>5. ToSet(more) = ToSet(list) \cup {p}
  BY <1>1, <1>2 DEF ToSet
<1>6. more # <<>>
  BY <1>3
<1> QED
  BY <1>2, <1>4, <1>5, <1>6 DEF more

LEMMA InList ==
  ASSUME NEW S, NEW list \in Seq(S)
  PROVE  /\ ToSet(list) \subseteq S
         /\ list = <<>> <=> ToSet(list) = {}
         /\ list # <<>> => Head(list) \in ToSet(list)
<1>1. Len(list) \in Nat /\ DOMAIN list = 1..Len(list)
      /\ \A k \in 1..Len(list) : list[k] \in S
  BY LenProperties, ElementOfSeq
<1>2. list # <<>> => Len(list) > 0
  BY EmptySeq
<1>3. list # <<>> => list[1] \in ToSet(list) /\ Head(list) = list[1]
  BY <1>1, <1>2 DEF ToSet
<1>4. list = <<>> => ToSet(list) = {}
  BY <1>1 DEF ToSet
<1> QED
  BY <1>1, <1>3, <1>4 DEF ToSet

-----------------------------------------------------------------------------
(***************************************************************************)
(* The inductive invariant.                                                *)
(***************************************************************************)
Shape ==
  /\ activeList \in [Groups -> Seq(Peers)]
  /\ waitingList \in [Groups -> Seq(Peers)]
  /\ pNextPeer \in [Groups -> Peers \cup {Nobody}]

\* An open peer is in the active list of its group. (Others may be: a peer that is
\* taken down in an orderly way stays.)
OpenIsActive == \A p \in Peers : phase[p] = "open" => p \in Active(GroupOf(p))

\* A group that has an active peer, or takes requests, has a next peer, which has
\* been provisioned.
NextPeerStands ==
  /\ \A g \in Groups :
       /\ activeList[g] # <<>> => pNextPeer[g] # Nobody
       /\ pNextPeer[g] # Nobody => phase[pNextPeer[g]] # "new"
  /\ intfState # "none" => pNextPeer[intfState] # Nobody

IInv ==
  /\ TypeOK
  /\ Shape
  /\ OneListEach
  /\ PriorityPreferred
  /\ AvailableIfActive
  /\ OpenIsActive
  /\ NextPeerStands

LEMMA GroupsApart ==
  /\ \A p \in Peers : GroupOf(p) \in Groups /\ p \in Members(GroupOf(p)) /\ p # Nobody
  /\ \A g \in Groups : Members(g) \subseteq Peers
  /\ \A g \in Groups : \A p \in Members(g) : GroupOf(p) = g
BY PeersAssumption DEF Peers, GroupOf, Members, Groups

LEMMA SeqOfMembers ==
  ASSUME NEW g \in Groups, NEW list \in Seq(Members(g))
  PROVE  list \in Seq(Peers)
BY GroupsApart, SeqMonotonic

LEMMA InitIInv == Init => IInv
<1> SUFFICES ASSUME Init PROVE IInv
  OBVIOUS
<1>1. /\ \A g \in Groups : activeList[g] = <<>> /\ waitingList[g] = <<>>
                           /\ pNextPeer[g] = Nobody
      /\ \A p \in Peers : phase[p] = "new"
      /\ intfState = "none"
  BY DEF Init
<1>2. Shape
  BY EmptySeq DEF Init, Shape
<1>3. TypeOK
  <2>1. phase \in [Peers -> Phases] /\ turns \in [Peers -> 0..MaxTurns]
    BY DEF Init, Phases, MaxTurns
  <2> QED
    BY <1>1, <2>1, EmptySeq DEF TypeOK
<1>4. OneListEach
  <2>1. ToSet(<<>>) = {} /\ IsInjective(<<>>)
    BY DEF ToSet, IsInjective
  <2>2. \A g \in Groups : {p \in Members(g) : phase[p] # "new"} = {}
    BY <1>1, GroupsApart
  <2> QED
    BY <1>1, <2>1, <2>2 DEF OneListEach, Active, Waiting
<1>5. PriorityPreferred /\ AvailableIfActive /\ NextPeerStands
  BY <1>1 DEF PriorityPreferred, AvailableIfActive, NextPeerStands, Groups
<1>6. OpenIsActive
  BY <1>1 DEF OpenIsActive
<1> QED
  BY <1>2, <1>3, <1>4, <1>5, <1>6 DEF IInv

(***************************************************************************)
(* What the calls that move a peer do to the lists of its group.           *)
(***************************************************************************)
Kept(g) ==
  \A h \in Groups : h # g => activeList'[h] = activeList[h] /\ waitingList'[h] = waitingList[h]

Lists(g) ==
  /\ activeList' \in [Groups -> Seq(Peers)] /\ waitingList' \in [Groups -> Seq(Peers)]
  /\ activeList'[g] \in Seq(Members(g)) /\ waitingList'[g] \in Seq(Members(g))
  /\ IsInjective(activeList'[g]) /\ IsInjective(waitingList'[g])

LEMMA FailbackMoves ==
  ASSUME IInv, NEW p \in Peers, NEW g, g = GroupOf(p), notifyFailback(p)
  PROVE  /\ Lists(g) /\ Kept(g)
         /\ ToSet(activeList'[g]) = Active(g) \cup {p}
         /\ ToSet(waitingList'[g]) = Waiting(g) \ {p}
         /\ activeList'[g] # <<>>
<1> DEFINE rest == unlinkElement(activeList[g], p)
           waits == unlinkElement(waitingList[g], p)
<1>1. g \in Groups /\ p \in Members(g)
  BY GroupsApart
<1>2. /\ activeList[g] \in Seq(Members(g)) /\ IsInjective(activeList[g])
      /\ waitingList[g] \in Seq(Members(g)) /\ IsInjective(waitingList[g])
      /\ activeList \in [Groups -> Seq(Peers)] /\ waitingList \in [Groups -> Seq(Peers)]
  BY <1>1 DEF IInv, TypeOK, OneListEach, Shape
<1>3. /\ rest \in Seq(Members(g)) /\ IsInjective(rest) /\ ToSet(rest) = Active(g) \ {p}
      /\ waits \in Seq(Members(g)) /\ IsInjective(waits) /\ ToSet(waits) = Waiting(g) \ {p}
  BY <1>2, Unlinked DEF Active, Waiting
<1>4. /\ activeList' = [activeList EXCEPT ![g] = Append(rest, p)]
      /\ waitingList' = [waitingList EXCEPT ![g] = waits]
  BY <1>1, <1>2 DEF notifyFailback
<1> HIDE DEF rest, waits
<1>5. /\ Append(rest, p) \in Seq(Members(g)) /\ IsInjective(Append(rest, p))
      /\ ToSet(Append(rest, p)) = ToSet(rest) \cup {p} /\ Append(rest, p) # <<>>
  BY <1>1, <1>3, Appended
<1>6. Append(rest, p) \in Seq(Peers) /\ waits \in Seq(Peers)
  BY <1>1, <1>3, <1>5, SeqOfMembers
<1>7. activeList'[g] = Append(rest, p) /\ waitingList'[g] = waits
  BY <1>1, <1>2, <1>4
<1>8. Kept(g)
  BY <1>2, <1>4 DEF Kept
<1>9. Lists(g)
  BY <1>2, <1>3, <1>4, <1>5, <1>6, <1>7 DEF Lists
<1> QED
  BY <1>3, <1>5, <1>7, <1>8, <1>9

LEMMA FailoverMoves ==
  ASSUME IInv, NEW p \in Peers, NEW g, g = GroupOf(p), notifyFailover(p)
  PROVE  /\ Lists(g) /\ Kept(g)
         /\ ToSet(activeList'[g]) = Active(g) \ {p}
         /\ ToSet(waitingList'[g]) = Waiting(g) \cup {p}
<1> DEFINE rest == unlinkElement(activeList[g], p)
           waits == unlinkElement(waitingList[g], p)
<1>1. g \in Groups /\ p \in Members(g)
  BY GroupsApart
<1>2. /\ activeList[g] \in Seq(Members(g)) /\ IsInjective(activeList[g])
      /\ waitingList[g] \in Seq(Members(g)) /\ IsInjective(waitingList[g])
      /\ activeList \in [Groups -> Seq(Peers)] /\ waitingList \in [Groups -> Seq(Peers)]
  BY <1>1 DEF IInv, TypeOK, OneListEach, Shape
<1>3. /\ rest \in Seq(Members(g)) /\ IsInjective(rest) /\ ToSet(rest) = Active(g) \ {p}
      /\ waits \in Seq(Members(g)) /\ IsInjective(waits) /\ ToSet(waits) = Waiting(g) \ {p}
  BY <1>2, Unlinked DEF Active, Waiting
<1>4. /\ activeList' = [activeList EXCEPT ![g] = rest]
      /\ waitingList' = [waitingList EXCEPT ![g] = Append(waits, p)]
  BY <1>1, <1>2 DEF notifyFailover
<1> HIDE DEF rest, waits
<1>5. /\ Append(waits, p) \in Seq(Members(g)) /\ IsInjective(Append(waits, p))
      /\ ToSet(Append(waits, p)) = ToSet(waits) \cup {p}
  BY <1>1, <1>3, Appended
<1>6. Append(waits, p) \in Seq(Peers) /\ rest \in Seq(Peers)
  BY <1>1, <1>3, <1>5, SeqOfMembers
<1>7. activeList'[g] = rest /\ waitingList'[g] = Append(waits, p)
  BY <1>1, <1>2, <1>4
<1>8. Kept(g)
  BY <1>2, <1>4 DEF Kept
<1>9. Lists(g)
  BY <1>2, <1>3, <1>4, <1>5, <1>6, <1>7 DEF Lists
<1> QED
  BY <1>3, <1>5, <1>7, <1>8, <1>9

LEMMA ProvisionMoves ==
  ASSUME IInv, NEW p \in Peers, NEW g, g = GroupOf(p), diaConnProv(p)
  PROVE  /\ Lists(g) /\ Kept(g)
         /\ activeList' = activeList
         /\ ToSet(waitingList'[g]) = Waiting(g) \cup {p}
<1>1. g \in Groups /\ p \in Members(g)
  BY GroupsApart
<1>2. /\ activeList[g] \in Seq(Members(g)) /\ IsInjective(activeList[g])
      /\ waitingList[g] \in Seq(Members(g)) /\ IsInjective(waitingList[g])
      /\ activeList \in [Groups -> Seq(Peers)] /\ waitingList \in [Groups -> Seq(Peers)]
  BY <1>1 DEF IInv, TypeOK, OneListEach, Shape
<1>3. p \notin ToSet(waitingList[g])
  BY <1>1 DEF IInv, OneListEach, Active, Waiting, diaConnProv
<1>4. /\ Append(waitingList[g], p) \in Seq(Members(g))
      /\ IsInjective(Append(waitingList[g], p))
      /\ ToSet(Append(waitingList[g], p)) = Waiting(g) \cup {p}
  BY <1>1, <1>2, <1>3, Appended DEF Waiting
<1>5. Append(waitingList[g], p) \in Seq(Peers)
  BY <1>1, <1>4, SeqOfMembers
<1>6. /\ waitingList' = [waitingList EXCEPT ![g] = Append(waitingList[g], p)]
      /\ activeList' = activeList
  BY <1>1, <1>2 DEF diaConnProv
<1>7. waitingList'[g] = Append(waitingList[g], p)
  BY <1>1, <1>2, <1>6
<1> QED
  BY <1>1, <1>2, <1>4, <1>5, <1>6, <1>7 DEF Lists, Kept

\* A next peer is in a list of its group, and so is the one after it.
LEMMA NextInGroup ==
  ASSUME IInv, NEW g \in Groups, pNextPeer[g] # Nobody
  PROVE  /\ getNextElement(g, pNextPeer[g]) \in Members(g)
         /\ phase[getNextElement(g, pNextPeer[g])] # "new"
<1> DEFINE p == pNextPeer[g]
           list == ListOf(g, p)
           i == CHOOSE k \in DOMAIN list : list[k] = p
<1>1. p \in Members(g) /\ phase[p] # "new"
  BY DEF IInv, TypeOK, NextPeerStands
<1>2. p \in Active(g) \cup Waiting(g)
  BY <1>1 DEF IInv, OneListEach
<1>3. list \in Seq(Members(g)) /\ p \in ToSet(list) /\ ToSet(list) \subseteq Active(g) \cup Waiting(g)
  BY <1>2 DEF ListOf, Active, Waiting, IInv, TypeOK
<1> HIDE DEF list, p
<1>4. Len(list) \in Nat /\ DOMAIN list = 1..Len(list)
  BY <1>3, LenProperties
<1>5. i \in 1..Len(list)
  BY <1>3, <1>4 DEF ToSet
<1> HIDE DEF i
<1>6. (i % Len(list)) + 1 \in 1..Len(list)
  BY <1>4, <1>5
<1>7. getNextElement(g, p) = list[(i % Len(list)) + 1]
  BY DEF getNextElement, list, i
<1>8. getNextElement(g, p) \in ToSet(list)
  BY <1>4, <1>6, <1>7 DEF ToSet
<1>9. getNextElement(g, p) \in {q \in Members(g) : phase[q] # "new"}
  BY <1>3, <1>8 DEF IInv, OneListEach
<1> QED
  BY <1>9 DEF p

-----------------------------------------------------------------------------
(***************************************************************************)
(* Preservation.                                                           *)
(***************************************************************************)
LEMMA TurnsStay ==
  ASSUME TypeOK, NEW g
  PROVE  /\ Afresh(g) \in [Peers -> 0..MaxTurns]
         /\ \A p \in Peers : Picked(p) \in [Peers -> 0..MaxTurns]
<1>1. Afresh(g) \in [Peers -> 0..MaxTurns]
  BY DEF Afresh, TypeOK, MaxTurns
<1>2. ASSUME NEW p \in Peers PROVE Picked(p) \in [Peers -> 0..MaxTurns]
  <2> DEFINE raised == [turns EXCEPT ![p] = IF @ < MaxTurns THEN @ + 1 ELSE @]
             ring == ToSet(ListOf(GroupOf(p), p))
  <2>1. raised \in [Peers -> 0..MaxTurns]
    BY DEF TypeOK, MaxTurns
  <2> HIDE DEF raised, ring
  <2>2. ASSUME \A q \in ring : raised[q] > 0
        PROVE  [q \in Peers |-> IF q \in ring THEN raised[q] - 1 ELSE raised[q]]
                 \in [Peers -> 0..MaxTurns]
    BY <2>1, <2>2 DEF MaxTurns
  <2>3. Picked(p) = IF \A q \in ring : raised[q] > 0
                      THEN [q \in Peers |-> IF q \in ring THEN raised[q] - 1 ELSE raised[q]]
                      ELSE raised
    BY DEF Picked, raised, ring
  <2> QED
    BY <2>1, <2>2, <2>3
<1> QED
  BY <1>1, <1>2

LEMMA StepTypes == IInv /\ [Next]_mgrVars => TypeOK' /\ Shape'
<1> SUFFICES ASSUME IInv, [Next]_mgrVars PROVE TypeOK' /\ Shape'
  OBVIOUS
<1> USE DEF Phases
<1>0. TypeOK /\ Shape
  BY DEF IInv
<1>1. ASSUME NEW p \in Peers, diaConnProv(p) PROVE TypeOK' /\ Shape'
  <2>1. Lists(GroupOf(p)) /\ Kept(GroupOf(p))
    BY <1>1, ProvisionMoves
  <2>2. /\ phase' \in [Peers -> Phases] /\ turns' \in [Peers -> 0..MaxTurns]
        /\ pNextPeer' = pNextPeer /\ intfState' = intfState
    BY <1>0, <1>1, TurnsStay DEF diaConnProv, TypeOK
  <2>3. \A g \in Groups : activeList'[g] \in Seq(Members(g)) /\ waitingList'[g] \in Seq(Members(g))
    BY <1>0, <2>1 DEF Lists, Kept, TypeOK
  <2> QED
    BY <1>0, <2>1, <2>2, <2>3 DEF TypeOK, Shape, Lists
<1>2. ASSUME NEW p \in Peers, Opens(p) PROVE TypeOK' /\ Shape'
  <2> DEFINE g == GroupOf(p)
  <2>1. notifyFailback(p) /\ g \in Groups
    BY <1>2, GroupsApart DEF Opens
  <2>2. Lists(g) /\ Kept(g) /\ activeList'[g] # <<>>
    BY <2>1, FailbackMoves
  <2>3. phase' \in [Peers -> Phases] /\ turns' \in [Peers -> 0..MaxTurns]
    BY <1>0, <1>2, <2>1, TurnsStay DEF Opens, Moves, notifyFailback, TypeOK
  <2>4. intfState' \in {"none", "priority", "standby"}
    BY <1>0, <2>1 DEF notifyFailback, TypeOK, Groups
  <2>5. Head(activeList'[g]) \in Members(g) /\ Members(g) \subseteq Peers
    BY <2>1, <2>2, InList, GroupsApart DEF Lists
  <2>6. pNextPeer' = [pNextPeer EXCEPT ![g] = IF @ = Nobody THEN Head(activeList'[g]) ELSE @]
    BY <2>1 DEF notifyFailback
  <2> HIDE DEF g
  <2>7. /\ pNextPeer' \in [Groups -> Peers \cup {Nobody}]
        /\ \A h \in Groups : pNextPeer'[h] \in Members(h) \cup {Nobody}
    BY <1>0, <2>1, <2>5, <2>6 DEF Shape, TypeOK
  <2>8. \A h \in Groups : activeList'[h] \in Seq(Members(h)) /\ waitingList'[h] \in Seq(Members(h))
    BY <1>0, <2>2 DEF Lists, Kept, TypeOK
  <2> QED
    BY <2>2, <2>3, <2>4, <2>7, <2>8 DEF TypeOK, Shape, Lists
<1>3. ASSUME NEW p \in Peers, FailsOver(p) PROVE TypeOK' /\ Shape'
  <2>1. notifyFailover(p)
    BY <1>3 DEF FailsOver
  <2>2. Lists(GroupOf(p)) /\ Kept(GroupOf(p))
    BY <2>1, FailoverMoves
  <2>3. /\ phase' \in [Peers -> Phases] /\ turns' \in [Peers -> 0..MaxTurns]
        /\ pNextPeer' = pNextPeer
    BY <1>0, <1>3, <2>1, TurnsStay DEF FailsOver, Moves, notifyFailover, TypeOK
  <2>4. intfState' \in {"none", "priority", "standby"}
    BY <1>0, <2>1 DEF notifyFailover, TypeOK
  <2>5. \A g \in Groups : activeList'[g] \in Seq(Members(g)) /\ waitingList'[g] \in Seq(Members(g))
    BY <1>0, <2>2 DEF Lists, Kept, TypeOK
  <2> QED
    BY <1>0, <2>2, <2>3, <2>4, <2>5 DEF TypeOK, Shape, Lists
<1>4. ASSUME NEW p \in Peers, Drifts(p) PROVE TypeOK' /\ Shape'
  <2>1. phase' \in [Peers -> Phases]
    BY <1>0, <1>4 DEF Drifts, Moves, TypeOK
  <2> QED
    BY <1>0, <1>4, <2>1 DEF Drifts, TypeOK, Shape
<1>5. ASSUME diaConnGetActiveDcb PROVE TypeOK' /\ Shape'
  <2>1. PICK g \in Groups :
          /\ pNextPeer[g] # Nobody
          /\ pNextPeer' = [pNextPeer EXCEPT ![g] = getNextElement(g, pNextPeer[g])]
          /\ turns' = Picked(pNextPeer[g])
          /\ UNCHANGED <<phase, activeList, waitingList, intfState>>
    BY <1>0, <1>5 DEF diaConnGetActiveDcb, Shape
  <2>2. getNextElement(g, pNextPeer[g]) \in Members(g) /\ Members(g) \subseteq Peers
    BY <2>1, NextInGroup, GroupsApart
  <2>3. pNextPeer[g] \in Peers
    BY <1>0, <2>1 DEF Shape
  <2>4. turns' \in [Peers -> 0..MaxTurns]
    BY <1>0, <2>1, <2>3, TurnsStay
  <2>5. /\ pNextPeer' \in [Groups -> Peers \cup {Nobody}]
        /\ \A h \in Groups : pNextPeer'[h] \in Members(h) \cup {Nobody}
    BY <1>0, <2>1, <2>2 DEF Shape, TypeOK
  <2> QED
    BY <1>0, <2>1, <2>4, <2>5 DEF TypeOK, Shape
<1>6. CASE UNCHANGED mgrVars
  BY <1>0, <1>6 DEF mgrVars, TypeOK, Shape
<1> QED
  BY <1>1, <1>2, <1>3, <1>4, <1>5, <1>6 DEF Next

\* The lists and the phases.
LEMMA StepLists == IInv /\ [Next]_mgrVars => OneListEach' /\ OpenIsActive'
<1> SUFFICES ASSUME IInv, [Next]_mgrVars PROVE OneListEach' /\ OpenIsActive'
  OBVIOUS
<1> DEFINE Provisioned(g) == {p \in Members(g) : phase[p] # "new"}
<1>0. /\ phase \in [Peers -> Phases] /\ OneListEach /\ OpenIsActive
      /\ \A g \in Groups : Active(g) \cup Waiting(g) = Provisioned(g)
  BY DEF IInv, TypeOK, OneListEach
\* A move within the lists of p's group that leaves p in exactly one of them.
<1>1. ASSUME NEW p \in Peers, NEW to \in Phases \ {"new"},
             Lists(GroupOf(p)), Kept(GroupOf(p)),
             phase' = [phase EXCEPT ![p] = to],
             \/ /\ ToSet(activeList'[GroupOf(p)]) = Active(GroupOf(p)) \cup {p}
                /\ ToSet(waitingList'[GroupOf(p)]) = Waiting(GroupOf(p)) \ {p}
             \/ /\ ToSet(activeList'[GroupOf(p)]) = Active(GroupOf(p)) \ {p}
                /\ ToSet(waitingList'[GroupOf(p)]) = Waiting(GroupOf(p)) \cup {p}
                /\ to # "open"
      PROVE  OneListEach' /\ OpenIsActive'
  <2> DEFINE g == GroupOf(p)
  <2>1. g \in Groups /\ p \in Members(g) /\ (\A h \in Groups : h # g => p \notin Members(h))
    BY GroupsApart
  <2>2. /\ IsInjective(activeList'[g]) /\ IsInjective(waitingList'[g])
        /\ ToSet(activeList'[g]) \cap ToSet(waitingList'[g]) = {}
        /\ ToSet(activeList'[g]) \cup ToSet(waitingList'[g]) = Provisioned(g) \cup {p}
    BY <1>0, <1>1, <2>1 DEF Lists, OneListEach
  <2>3. Provisioned(g) \cup {p} = {q \in Members(g) : phase'[q] # "new"}
    BY <1>0, <1>1, <2>1, GroupsApart
  <2>4. ASSUME NEW h \in Groups, h # g
        PROVE  /\ activeList'[h] = activeList[h] /\ waitingList'[h] = waitingList[h]
               /\ Provisioned(h) = {q \in Members(h) : phase'[q] # "new"}
    BY <1>0, <1>1, <2>1, <2>4, GroupsApart DEF Kept
  <2>5. OneListEach'
    <3>1. ASSUME NEW h \in Groups
          PROVE  /\ ToSet(activeList'[h]) \cap ToSet(waitingList'[h]) = {}
                 /\ ToSet(activeList'[h]) \cup ToSet(waitingList'[h])
                      = {q \in Members(h) : phase'[q] # "new"}
                 /\ IsInjective(activeList'[h]) /\ IsInjective(waitingList'[h])
      <4>1. CASE h = g
        BY <2>2, <2>3, <4>1
      <4>2. CASE h # g
        BY <1>0, <2>4, <4>2 DEF OneListEach, Active, Waiting
      <4> QED
        BY <4>1, <4>2
    <3> QED
      BY <3>1 DEF OneListEach, Active, Waiting
  <2>6. OpenIsActive'
    <3>1. ASSUME NEW q \in Peers, phase'[q] = "open"
          PROVE  q \in ToSet(activeList'[GroupOf(q)])
      <4>0. GroupOf(q) \in Groups
        BY GroupsApart
      <4>1. CASE q = p
        BY <1>0, <1>1, <3>1, <4>1
      <4>2. CASE q # p
        <5>1. q \in Active(GroupOf(q))
          BY <1>0, <1>1, <3>1, <4>2 DEF OpenIsActive
        <5>2. CASE GroupOf(q) = g
          BY <1>1, <4>2, <5>1, <5>2
        <5>3. CASE GroupOf(q) # g
          BY <2>4, <4>0, <5>1, <5>3 DEF Active
        <5> QED
          BY <5>2, <5>3
      <4> QED
        BY <4>1, <4>2
    <3> QED
      BY <3>1 DEF OpenIsActive, Active
  <2> QED
    BY <2>5, <2>6
<1>2. ASSUME NEW p \in Peers, diaConnProv(p) PROVE OneListEach' /\ OpenIsActive'
  <2>1. GroupOf(p) \in Groups /\ p \in Members(GroupOf(p)) /\ phase[p] = "new"
    BY <1>2, GroupsApart DEF diaConnProv
  <2>2. p \notin Active(GroupOf(p))
    BY <1>0, <2>1
  <2>3. /\ Lists(GroupOf(p)) /\ Kept(GroupOf(p)) /\ activeList' = activeList
        /\ ToSet(waitingList'[GroupOf(p)]) = Waiting(GroupOf(p)) \cup {p}
    BY <1>2, ProvisionMoves
  <2>4. ToSet(activeList'[GroupOf(p)]) = Active(GroupOf(p)) \ {p}
    BY <2>2, <2>3 DEF Active
  <2> QED
    BY <1>1, <1>2, <2>3, <2>4 DEF diaConnProv, Phases
<1>3. ASSUME NEW p \in Peers, Opens(p) PROVE OneListEach' /\ OpenIsActive'
  BY <1>1, <1>3, FailbackMoves DEF Opens, Moves, Phases
<1>4. ASSUME NEW p \in Peers, FailsOver(p) PROVE OneListEach' /\ OpenIsActive'
  BY <1>1, <1>4, FailoverMoves DEF FailsOver, Moves, Phases
<1>5. ASSUME NEW p \in Peers, Drifts(p) PROVE OneListEach' /\ OpenIsActive'
  <2>1. PICK to \in {"handshake", "closed", "closing", "dead"} :
          phase' = [phase EXCEPT ![p] = to] /\ phase[p] # "new"
    BY <1>5 DEF Drifts, Moves
  <2>2. \A g \in Groups : Provisioned(g) = {q \in Members(g) : phase'[q] # "new"}
    BY <1>0, <2>1, GroupsApart
  <2>3. activeList' = activeList /\ waitingList' = waitingList
    BY <1>5 DEF Drifts
  <2>4. OneListEach'
    BY <1>0, <2>2, <2>3 DEF OneListEach, Active, Waiting
  <2>5. \A q \in Peers : phase'[q] = "open" => phase[q] = "open"
    BY <1>0, <2>1
  <2>6. OpenIsActive'
    BY <1>0, <2>3, <2>5 DEF OpenIsActive, Active
  <2> QED
    BY <2>4, <2>6
<1>6. ASSUME UNCHANGED <<phase, activeList, waitingList>>
      PROVE  OneListEach' /\ OpenIsActive'
  BY <1>0, <1>6 DEF OneListEach, OpenIsActive, Active, Waiting
<1> QED
  BY <1>2, <1>3, <1>4, <1>5, <1>6 DEF Next, mgrVars, diaConnGetActiveDcb

\* The next peers and the state of the interface.
Chosen == PriorityPreferred /\ AvailableIfActive /\ NextPeerStands

LEMMA StepChosen == IInv /\ [Next]_mgrVars => Chosen'
<1> SUFFICES ASSUME IInv, [Next]_mgrVars PROVE Chosen'
  OBVIOUS
<1>0. /\ phase \in [Peers -> Phases] /\ Shape /\ Chosen
      /\ intfState \in {"none", "priority", "standby"}
      /\ \A g \in Groups : pNextPeer[g] \in Members(g) \cup {Nobody}
      /\ \A g \in Groups : Active(g) \subseteq {p \in Members(g) : phase[p] # "new"}
  BY DEF IInv, Chosen, TypeOK, OneListEach
\* Provisioned peers stay so: all of Chosen holds of lists, next peers and an
\* interface that are left alone.
<1>1. ASSUME \A p \in Peers : phase[p] # "new" => phase'[p] # "new",
             activeList' = activeList, pNextPeer' = pNextPeer, intfState' = intfState
      PROVE  Chosen'
  BY <1>0, <1>1 DEF Chosen, PriorityPreferred, AvailableIfActive, NextPeerStands, Shape
<1>2. ASSUME NEW p \in Peers, diaConnProv(p) PROVE Chosen'
  BY <1>0, <1>1, <1>2 DEF diaConnProv
<1>3. ASSUME NEW p \in Peers, Opens(p) PROVE Chosen'
  <2> DEFINE g == GroupOf(p)
  <2>1. notifyFailback(p) /\ g \in Groups /\ Members(g) \subseteq Peers
    BY <1>3, GroupsApart DEF Opens
  <2>2. /\ Lists(g) /\ Kept(g) /\ activeList'[g] # <<>>
        /\ ToSet(activeList'[g]) = Active(g) \cup {p}
    BY <2>1, FailbackMoves
  <2>3. \A q \in Peers : phase[q] # "new" \/ q = p => phase'[q] # "new"
    BY <1>0, <1>3 DEF Opens, Moves
  <2>4. Head(activeList'[g]) \in Active(g) \cup {p}
    BY <2>2, InList DEF Lists
  <2>5. Head(activeList'[g]) \in Peers /\ phase'[Head(activeList'[g])] # "new"
    BY <1>0, <2>1, <2>3, <2>4
  <2>6. pNextPeer' = [pNextPeer EXCEPT ![g] = IF @ = Nobody THEN Head(activeList'[g]) ELSE @]
    BY <2>1 DEF notifyFailback
  <2>7. intfState' = IF g = "priority" \/ intfState = "none" THEN g ELSE intfState
    BY <2>1 DEF notifyFailback
  <2>8. Nobody \notin Peers
    BY GroupsApart
  <2> HIDE DEF g
  <2>9. \A h \in Groups :
          /\ h = g \/ pNextPeer[h] # Nobody => pNextPeer'[h] # Nobody
          /\ pNextPeer'[h] # Nobody => phase'[pNextPeer'[h]] # "new"
    BY <1>0, <2>1, <2>3, <2>5, <2>6, <2>8 DEF Chosen, NextPeerStands, Shape
  <2>10. NextPeerStands'
    <3>1. \A h \in Groups : activeList'[h] # <<>> => h = g \/ activeList[h] # <<>>
      BY <2>2 DEF Kept
    <3>2. intfState' # "none" => intfState' \in Groups
                                  /\ (intfState' = g \/ pNextPeer[intfState'] # Nobody)
      BY <1>0, <2>1, <2>7 DEF Groups, Chosen, NextPeerStands
    <3> QED
      BY <1>0, <2>9, <3>1, <3>2 DEF Chosen, NextPeerStands
  <2>11. PriorityPreferred'
    BY <1>0, <2>1, <2>2, <2>7 DEF Chosen, PriorityPreferred, Kept, Groups
  <2>12. AvailableIfActive'
    <3>1. intfState' # "none"
      BY <2>1, <2>7 DEF Groups
    <3> QED
      BY <2>10, <3>1 DEF AvailableIfActive, NextPeerStands
  <2> QED
    BY <2>10, <2>11, <2>12 DEF Chosen
<1>4. ASSUME NEW p \in Peers, FailsOver(p) PROVE Chosen'
  <2> DEFINE g == GroupOf(p)
  <2>1. notifyFailover(p) /\ g \in Groups /\ phase[p] = "open"
    BY <1>4, GroupsApart DEF FailsOver, Moves
  <2>2. activeList[g] # <<>>
    <3>1. p \in Active(g)
      BY <2>1 DEF IInv, OpenIsActive
    <3> QED
      BY <3>1, <2>1, InList DEF Active, IInv, TypeOK
  <2>3. pNextPeer[g] # Nobody
    BY <1>0, <2>1, <2>2 DEF Chosen, NextPeerStands
  <2>4. pNextPeer' = pNextPeer /\ intfState' = intfState
    BY <2>1, <2>3 DEF notifyFailover
  <2>5. \A h \in Groups : activeList'[h] # <<>> => activeList[h] # <<>>
    BY <2>1, <2>2, FailoverMoves DEF Kept
  <2>6. \A q \in Peers : phase[q] # "new" => phase'[q] # "new"
    BY <1>0, <1>4 DEF FailsOver, Moves
  <2> QED
    BY <1>0, <2>4, <2>5, <2>6
       DEF Chosen, PriorityPreferred, AvailableIfActive, NextPeerStands, Shape, Groups
<1>5. ASSUME NEW p \in Peers, Drifts(p) PROVE Chosen'
  BY <1>0, <1>1, <1>5 DEF Drifts, Moves
<1>6. ASSUME diaConnGetActiveDcb PROVE Chosen'
  <2>1. PICK g \in Groups :
          /\ pNextPeer[g] # Nobody
          /\ pNextPeer' = [pNextPeer EXCEPT ![g] = getNextElement(g, pNextPeer[g])]
          /\ UNCHANGED <<phase, activeList, waitingList, intfState>>
    BY <1>0, <1>6 DEF diaConnGetActiveDcb, Shape
  <2>2. /\ getNextElement(g, pNextPeer[g]) # Nobody
        /\ phase[getNextElement(g, pNextPeer[g])] # "new"
    BY <2>1, NextInGroup, GroupsApart
  <2>3. \A h \in Groups :
          /\ pNextPeer'[h] # Nobody <=> pNextPeer[h] # Nobody
          /\ pNextPeer'[h] # Nobody => phase'[pNextPeer'[h]] # "new"
    BY <1>0, <2>1, <2>2 DEF Shape, Chosen, NextPeerStands
  <2> QED
    BY <1>0, <2>1, <2>3
       DEF Chosen, PriorityPreferred, AvailableIfActive, NextPeerStands, Groups
<1>7. CASE UNCHANGED mgrVars
  BY <1>1, <1>7 DEF mgrVars
<1> QED
  BY <1>2, <1>3, <1>4, <1>5, <1>6, <1>7 DEF Next

-----------------------------------------------------------------------------
(***************************************************************************)
(* The dcb of a message.                                                   *)
(***************************************************************************)
LEMMA HeadFound == TypeOK => HeadIsFound
<1> SUFFICES ASSUME TypeOK PROVE HeadIsFound
  OBVIOUS
<1>1. "priority" \in Groups /\ "standby" \in Groups
      /\ \A g \in Groups : g = "priority" \/ g = "standby"
  BY DEF Groups
<1>2. ASSUME NEW p \in Peers, NEW list, list # <<>>, Head(list) = p, NEW found
      PROVE  lookAtHead(p, list, found) = p
  BY <1>2 DEF lookAtHead
<1>3. ASSUME NEW p, NEW list PROVE lookAtHead(p, list, p) = p
  BY DEF lookAtHead
<1>4. ASSUME NEW g \in Groups, NEW list \in {waitingList[g], activeList[g]}, list # <<>>
      PROVE  Head(list) \in Peers /\ getDcb(Head(list)) = Head(list)
  <2>1. Head(list) \in Peers
    BY <1>4, InList, GroupsApart DEF TypeOK
  <2>2. getDcb(Head(list)) = Head(list)
    BY <1>1, <1>2, <1>3, <1>4, <2>1 DEF getDcb
  <2> QED
    BY <2>1, <2>2
<1> QED
  BY <1>4 DEF HeadIsFound

-----------------------------------------------------------------------------
(***************************************************************************)
(* The turns of a ring of n elements. The next one is at i; the m before   *)
(* it have had one turn more than the others.                              *)
(***************************************************************************)
Behind(i, j, n) == IF j < i THEN i - j ELSE i - j + n

Around(list, i, had) ==
  \E m \in 0..(Len(list) - 1) :
    \A j \in 1..Len(list) : had[list[j]] = IF Behind(i, j, Len(list)) <= m THEN 1 ELSE 0

\* Before the first turn.
LEMMA NoTurn ==
  ASSUME NEW S, NEW list \in Seq(S), NEW i \in 1..Len(list), NEW had,
         \A j \in 1..Len(list) : had[list[j]] = 0
  PROVE  Around(list, i, had)
<1>1. Len(list) \in Nat /\ 0 \in 0..(Len(list) - 1)
  BY LenProperties
<1>2. \A j \in 1..Len(list) : ~(Behind(i, j, Len(list)) <= 0)
  BY <1>1 DEF Behind
<1> QED
  BY <1>1, <1>2 DEF Around

\* The element at i has a turn more; and all have one less when all have had one.
Raises(list, i, had, raised) ==
  \A j \in 1..Len(list) : raised[list[j]] = IF j = i THEN had[list[j]] + 1 ELSE had[list[j]]

Lowers(list, raised, has) ==
  \A j \in 1..Len(list) :
    has[list[j]] = IF \A k \in 1..Len(list) : raised[list[k]] > 0
                     THEN raised[list[j]] - 1 ELSE raised[list[j]]

\* One turn: the element at i had it, the next is at the position after i.
LEMMA OneTurn ==
  ASSUME NEW S, NEW list \in Seq(S), IsInjective(list), NEW i \in 1..Len(list),
         NEW had, Around(list, i, had), NEW raised, Raises(list, i, had, raised),
         NEW has, Lowers(list, raised, has)
  PROVE  Around(list, (i % Len(list)) + 1, has)
<1> DEFINE n == Len(list)
           next == (i % n) + 1
<1>1. n \in Nat /\ n > 0
  BY LenProperties
<1>2. next = IF i = n THEN 1 ELSE i + 1
  BY <1>1
<1> HIDE DEF n, next
<1>3. i \in 1..n /\ next \in 1..n
  BY <1>1, <1>2 DEF n
<1>4. PICK m \in 0..(n - 1) :
        \A j \in 1..n : had[list[j]] = IF Behind(i, j, n) <= m THEN 1 ELSE 0
  BY DEF Around, n
<1>5. \A j \in 1..n : Behind(next, j, n) = IF j = i THEN 1 ELSE Behind(i, j, n) + 1
  BY <1>1, <1>2, <1>3 DEF Behind
<1>6. \A j \in 1..n : Behind(i, j, n) \in 1..n /\ (Behind(i, j, n) = n <=> j = i)
  BY <1>1, <1>3 DEF Behind
<1> DEFINE lower(j) == Behind(next, j, n) <= m + 1
<1>7. \A j \in 1..n : raised[list[j]] = IF lower(j) THEN 1 ELSE 0
  <2> TAKE j \in 1..n
  <2>1. CASE j = i
    <3>1. had[list[j]] = 0
      BY <1>1, <1>4, <1>6, <2>1
    <3>2. lower(j)
      BY <1>4, <1>5, <2>1
    <3> QED
      BY <2>1, <3>1, <3>2 DEF n, Raises
  <2>2. CASE j # i
    <3>1. raised[list[j]] = had[list[j]]
      BY <2>2 DEF n, Raises
    <3>2. Behind(i, j, n) <= m <=> lower(j)
      BY <1>4, <1>5, <1>6, <2>2
    <3> QED
      BY <1>4, <3>1, <3>2
  <2> QED
    BY <2>1, <2>2
<1>8. \A j \in 1..n : Behind(next, j, n) \in 1..n
  BY <1>1, <1>3 DEF Behind
<1>9. Behind(next, next, n) = n
  BY <1>1, <1>3 DEF Behind
<1>10. CASE m + 1 = n
  <2>1. \A j \in 1..n : raised[list[j]] = 1
    BY <1>7, <1>8, <1>10
  <2>2. \A j \in 1..n : has[list[j]] = 0
    BY <2>1 DEF n, Lowers
  <2> QED
    BY <1>3, <2>2, NoTurn DEF n, next
<1>11. CASE m + 1 # n
  <2>1. m + 1 \in 0..(n - 1)
    BY <1>1, <1>4, <1>11
  <2>2. \E j \in 1..n : ~(raised[list[j]] > 0)
    <3>1. raised[list[next]] = 0
      BY <1>1, <1>3, <1>7, <1>9, <2>1
    <3> QED
      BY <1>3, <3>1
  <2>3. \A j \in 1..n : has[list[j]] = IF lower(j) THEN 1 ELSE 0
    BY <1>7, <2>2 DEF n, Lowers
  <2> QED
    BY <2>1, <2>3 DEF Around, n, next
<1> QED
  BY <1>10, <1>11

\* The turns of each group stand around its next peer.
TurnsAround(g) ==
  pNextPeer[g] # Nobody =>
    LET ring == ListOf(g, pNextPeer[g])
    IN  \A i \in 1..Len(ring) : ring[i] = pNextPeer[g] => Around(ring, i, turns)

\* The ring of a next peer.
LEMMA RingOfNext ==
  ASSUME IInv, NEW g \in Groups, NEW p \in Peers, p = pNextPeer[g]
  PROVE  /\ ListOf(g, p) \in Seq(Members(g)) /\ IsInjective(ListOf(g, p))
         /\ p \in ToSet(ListOf(g, p))
         /\ \A q \in ToSet(ListOf(g, p)) : ListOf(g, q) = ListOf(g, p)
<1>1. p \in Members(g) /\ phase[p] # "new"
  BY GroupsApart DEF IInv, TypeOK, NextPeerStands
<1>2. p \in Active(g) \cup Waiting(g) /\ Active(g) \cap Waiting(g) = {}
  BY <1>1 DEF IInv, OneListEach
<1> QED
  BY <1>2 DEF ListOf, Active, Waiting, IInv, TypeOK, OneListEach

\* A group whose turns start afresh.
LEMMA AfreshAround ==
  ASSUME TypeOK', NEW g \in Groups, turns' = Afresh(g)
  PROVE  TurnsAround(g)'
<1> DEFINE ring == ListOf(g, pNextPeer[g])'
<1>1. ring \in Seq(Members(g))
  BY DEF ListOf, TypeOK
<1>2. \A q \in Members(g) : turns'[q] = 0
  BY GroupsApart DEF Afresh
<1> HIDE DEF ring
<1>3. \A j \in 1..Len(ring) : turns'[ring[j]] = 0
  BY <1>1, <1>2, ElementOfSeq
<1>4. \A i \in 1..Len(ring) : Around(ring, i, turns')
  BY <1>1, <1>3, NoTurn
<1> QED
  BY <1>4 DEF TurnsAround, ring

\* A group that a step leaves alone.
LEMMA OtherAround ==
  ASSUME IInv, NEW g \in Groups, TurnsAround(g),
         activeList'[g] = activeList[g], waitingList'[g] = waitingList[g],
         pNextPeer'[g] = pNextPeer[g], \A q \in Members(g) : turns'[q] = turns[q]
  PROVE  TurnsAround(g)'
<1> DEFINE ring == ListOf(g, pNextPeer[g])
<1>1. ring \in Seq(Members(g)) /\ ListOf(g, pNextPeer[g])' = ring
  BY DEF ListOf, IInv, TypeOK
<1> HIDE DEF ring
<1>2. \A j \in 1..Len(ring) : turns'[ring[j]] = turns[ring[j]]
  BY <1>1, ElementOfSeq
<1>3. \A i \in 1..Len(ring) : Around(ring, i, turns) => Around(ring, i, turns')
  BY <1>2 DEF Around
<1>4. pNextPeer[g] # Nobody =>
        \A i \in 1..Len(ring) : ring[i] = pNextPeer[g] => Around(ring, i, turns)
  BY DEF TurnsAround, ring
<1> QED
  BY <1>1, <1>3, <1>4 DEF TurnsAround

\* The group that gives its next peer.
LEMMA PickedAround ==
  ASSUME IInv, NEW g \in Groups, TurnsAround(g), NEW p \in Peers, p = pNextPeer[g],
         pNextPeer'[g] = getNextElement(g, p), turns' = Picked(p),
         UNCHANGED <<activeList, waitingList>>
  PROVE  /\ TurnsAround(g)'
         /\ \A q \in Peers : GroupOf(q) # g => turns'[q] = turns[q]
<1> DEFINE ring == ListOf(g, p)
           i == CHOOSE k \in DOMAIN ring : ring[k] = p
           raised == [turns EXCEPT ![p] = IF @ < MaxTurns THEN @ + 1 ELSE @]
<1>1. /\ ring \in Seq(Members(g)) /\ IsInjective(ring) /\ p \in ToSet(ring)
      /\ \A q \in ToSet(ring) : ListOf(g, q) = ring
  BY RingOfNext
<1>2. p \in Members(g) /\ GroupOf(p) = g /\ Members(g) \subseteq Peers /\ p # Nobody
  BY <1>1, InList, GroupsApart
<1>3. turns \in [Peers -> 0..MaxTurns]
  BY DEF IInv, TypeOK
<1>4. turns' = IF \A q \in ToSet(ring) : raised[q] > 0
                 THEN [q \in Peers |-> IF q \in ToSet(ring) THEN raised[q] - 1 ELSE raised[q]]
                 ELSE raised
  BY <1>2 DEF Picked
<1>5. getNextElement(g, p) = ring[(i % Len(ring)) + 1]
  BY DEF getNextElement
<1>6. \A k \in 1..Len(ring) : ring[k] = p => Around(ring, k, turns)
  BY <1>2 DEF TurnsAround
<1>7. \A q \in Peers : raised[q] = IF q = p /\ turns[q] < MaxTurns THEN turns[q] + 1 ELSE turns[q]
  BY <1>3
<1>8. \A q \in ToSet(ring) : ListOf(g, q)' = ring
  BY <1>1 DEF ListOf
<1> HIDE DEF ring, raised
<1>9. Len(ring) \in Nat /\ DOMAIN ring = 1..Len(ring)
  BY <1>1, LenProperties
<1>10. i \in 1..Len(ring) /\ ring[i] = p
  BY <1>1, <1>9 DEF ToSet
<1> HIDE DEF i
<1>11. Around(ring, i, turns)
  BY <1>6, <1>10
<1>12. \A j \in 1..Len(ring) : ring[j] \in ToSet(ring) /\ ring[j] \in Peers /\ (ring[j] = p <=> j = i)
  BY <1>1, <1>2, <1>9, <1>10, ElementOfSeq DEF ToSet, IsInjective
<1>13. \A j \in 1..Len(ring) : turns[ring[j]] \in {0, 1}
  BY <1>11 DEF Around
<1>14. Raises(ring, i, turns, raised)
  BY <1>7, <1>12, <1>13 DEF MaxTurns, Raises
<1>15. (\A q \in ToSet(ring) : raised[q] > 0) <=> \A k \in 1..Len(ring) : raised[ring[k]] > 0
  BY <1>9 DEF ToSet
<1>16. Lowers(ring, raised, turns')
  BY <1>4, <1>12, <1>15 DEF Lowers
<1> DEFINE next == (i % Len(ring)) + 1
<1>17. Around(ring, next, turns')
  BY <1>1, <1>10, <1>11, <1>14, <1>16, OneTurn
<1>18. next \in 1..Len(ring)
  BY <1>9, <1>10
<1> HIDE DEF next
<1>19. TurnsAround(g)'
  <2>1. ring[next] = pNextPeer'[g] /\ ListOf(g, pNextPeer[g])' = ring
    BY <1>5, <1>8, <1>12, <1>18 DEF next
  <2>2. \A k \in 1..Len(ring) : ring[k] = ring[next] => k = next
    BY <1>1, <1>9, <1>18 DEF IsInjective
  <2> QED
    BY <1>17, <2>1, <2>2 DEF TurnsAround
<1>20. ASSUME NEW q \in Peers, GroupOf(q) # g PROVE turns'[q] = turns[q]
  <2>1. q # p /\ q \notin ToSet(ring)
    BY <1>1, <1>2, <1>20, InList, GroupsApart
  <2> QED
    BY <1>3, <1>4, <1>7, <2>1
<1> QED
  BY <1>19, <1>20

\* A next peer is followed evenly.
LEMMA AroundIsEven ==
  ASSUME IInv, \A g \in Groups : TurnsAround(g)
  PROVE  EvenTurns
<1> SUFFICES ASSUME NEW g \in Groups, pNextPeer[g] # Nobody,
                    NEW p \in ToSet(ListOf(g, pNextPeer[g])), NEW q \in ToSet(ListOf(g, pNextPeer[g]))
             PROVE  turns[p] <= turns[q] + 1
  BY DEF EvenTurns
<1> DEFINE ring == ListOf(g, pNextPeer[g])
<1>1. pNextPeer[g] \in Peers
  BY DEF IInv, Shape
<1>2. ring \in Seq(Members(g)) /\ pNextPeer[g] \in ToSet(ring)
  BY <1>1, RingOfNext
<1>3. \A i \in 1..Len(ring) : ring[i] = pNextPeer[g] => Around(ring, i, turns)
  BY DEF TurnsAround
<1>4. p \in ToSet(ring) /\ q \in ToSet(ring)
  OBVIOUS
<1> HIDE DEF ring
<1>5. DOMAIN ring = 1..Len(ring)
  BY <1>2, LenProperties
<1>6. PICK i \in 1..Len(ring) : Around(ring, i, turns)
  BY <1>2, <1>3, <1>5 DEF ToSet
<1>7. \A j \in 1..Len(ring) : turns[ring[j]] \in {0, 1}
  BY <1>6 DEF Around
<1>8. turns[p] \in {0, 1} /\ turns[q] \in {0, 1}
  BY <1>4, <1>5, <1>7 DEF ToSet
<1> QED
  BY <1>8

\* Every step but the choice of the next peer starts the turns of its group afresh
\* or touches neither lists nor turns.
LEMMA StepAround ==
  ASSUME IInv, \A g \in Groups : TurnsAround(g), [Next]_mgrVars
  PROVE  \A g \in Groups : TurnsAround(g)'
<1>1. TypeOK'
  BY StepTypes
<1>2. Shape
  BY DEF IInv
\* A step that moves p in the lists of its group.
<1>3. ASSUME NEW p \in Peers, Kept(GroupOf(p)), turns' = Afresh(GroupOf(p)),
             \A h \in Groups : h # GroupOf(p) => pNextPeer'[h] = pNextPeer[h]
      PROVE  \A g \in Groups : TurnsAround(g)'
  <2> TAKE g \in Groups
  <2>1. CASE g = GroupOf(p)
    BY <1>1, <1>3, <2>1, AfreshAround
  <2>2. CASE g # GroupOf(p)
    <3>1. \A q \in Members(g) : turns'[q] = turns[q]
      BY <1>3, <2>2, GroupsApart DEF Afresh
    <3> QED
      BY <1>3, <2>2, <3>1, OtherAround DEF Kept
  <2> QED
    BY <2>1, <2>2
<1>4. ASSUME NEW p \in Peers, diaConnProv(p) PROVE \A g \in Groups : TurnsAround(g)'
  BY <1>3, <1>4, ProvisionMoves DEF diaConnProv
<1>5. ASSUME NEW p \in Peers, Opens(p) PROVE \A g \in Groups : TurnsAround(g)'
  <2>1. notifyFailback(p)
    BY <1>5 DEF Opens
  <2>2. \A h \in Groups : h # GroupOf(p) => pNextPeer'[h] = pNextPeer[h]
    BY <1>2, <2>1 DEF notifyFailback, Shape
  <2> QED
    BY <1>3, <2>1, <2>2, FailbackMoves DEF notifyFailback
<1>6. ASSUME NEW p \in Peers, FailsOver(p) PROVE \A g \in Groups : TurnsAround(g)'
  BY <1>3, <1>6, FailoverMoves DEF FailsOver, notifyFailover
<1>7. ASSUME UNCHANGED <<activeList, waitingList, pNextPeer, turns>>
      PROVE  \A g \in Groups : TurnsAround(g)'
  BY <1>7, OtherAround
<1>8. ASSUME diaConnGetActiveDcb PROVE \A g \in Groups : TurnsAround(g)'
  <2>1. PICK g \in Groups :
          /\ pNextPeer[g] # Nobody
          /\ pNextPeer' = [pNextPeer EXCEPT ![g] = getNextElement(g, pNextPeer[g])]
          /\ turns' = Picked(pNextPeer[g])
          /\ UNCHANGED <<activeList, waitingList>>
    BY <1>2, <1>8 DEF diaConnGetActiveDcb, Shape
  <2>2. /\ TurnsAround(g)'
        /\ \A q \in Peers : GroupOf(q) # g => turns'[q] = turns[q]
    BY <1>2, <2>1, PickedAround DEF Shape
  <2>3. ASSUME NEW h \in Groups, h # g PROVE TurnsAround(h)'
    <3>1. pNextPeer'[h] = pNextPeer[h]
      BY <1>2, <2>1, <2>3 DEF Shape
    <3>2. \A q \in Members(h) : turns'[q] = turns[q]
      BY <2>2, <2>3, GroupsApart
    <3> QED
      BY <2>1, <3>1, <3>2, OtherAround
  <2> QED
    BY <2>2, <2>3
<1> QED
  BY <1>4, <1>5, <1>6, <1>7, <1>8 DEF Next, mgrVars, Drifts

-----------------------------------------------------------------------------
LEMMA StepIInv == IInv /\ [Next]_mgrVars => IInv'
BY StepTypes, StepLists, StepChosen DEF IInv, Chosen

\* IInv is an invariant.
THEOREM Invariance == Spec => []IInv
BY InitIInv, StepIInv, PTL DEF Spec

\* The variables keep their types, for any peers in the two groups.
THEOREM TypeCorrect == Spec => []TypeOK
<1>1. IInv => TypeOK
  BY DEF IInv
<1> QED
  BY <1>1, Invariance, PTL

\* The element of every provisioned peer is in one list of its group, once,
\* whatever diaconnMgr_notifyFailover and notifyFailback are called for.
THEOREM ListsCorrect == Spec => []OneListEach
<1>1. IInv => OneListEach
  BY DEF IInv
<1> QED
  BY <1>1, Invariance, PTL

\* diaConnGetActiveDcb has a peer to give while one is in an active list, and takes
\* the priority group as soon as that one has an active peer.
THEOREM ChoiceCorrect == Spec => [](AvailableIfActive /\ PriorityPreferred)
<1>1. IInv => AvailableIfActive /\ PriorityPreferred
  BY DEF IInv
<1> QED
  BY <1>1, Invariance, PTL

\* Between two moves of the lists diaConnGetActiveDcb serves the peers of the ring in
\* use equally often, give or take one, however long the ring is.
THEOREM TurnsCorrect == Spec => []EvenTurns
<1> DEFINE Turning == IInv /\ \A g \in Groups : TurnsAround(g)
<1>1. Init => Turning
  BY InitIInv DEF Init, TurnsAround
<1>2. Turning /\ [Next]_mgrVars => Turning'
  BY StepIInv, StepAround
<1>3. Turning => EvenTurns
  BY AroundIsEven
<1> QED
  BY <1>1, <1>2, <1>3, PTL DEF Spec

\* diaConnMgr_getDcb finds the first peer of every list, whatever the other lists hold.
THEOREM HeadsFound == Spec => []HeadIsFound
BY TypeCorrect, HeadFound, PTL

\* A step of the groups is a step of the life of each peer, or none.
LEMMA LivesStep ==
  ASSUME IInv, [Next]_mgrVars, NEW q \in Peers
  PROVE  [Life(q)!LifeNext]_(Life(q)!lifeVars)
<1> DEFINE g == GroupOf(q)
           stage == IF phase[q] = "new" THEN "closed" ELSE phase[q]
           listed == q \in ToSet(activeList[g])
           Rests == stage' = stage /\ listed' = listed
<1>0. phase \in [Peers -> Phases] /\ q \in Members(g) /\ g \in Groups
  BY GroupsApart DEF IInv, TypeOK
<1> USE DEF Life!LifeNext, Life!lifeVars
<1>1. ASSUME Rests PROVE [Life(q)!LifeNext]_(Life(q)!lifeVars)
  BY <1>1
<1>2. ASSUME NEW p \in Peers, diaConnProv(p) PROVE Rests
  BY <1>0, <1>2 DEF diaConnProv
<1>3. ASSUME NEW p \in Peers, Opens(p) PROVE [Life(q)!LifeNext]_(Life(q)!lifeVars)
  <2>1. /\ Kept(GroupOf(p)) /\ ToSet(activeList'[GroupOf(p)]) = Active(GroupOf(p)) \cup {p}
        /\ phase[p] \in {"closed", "handshake", "failed"}
        /\ phase' = [phase EXCEPT ![p] = "open"]
    BY <1>3, FailbackMoves DEF Opens, Moves
  <2>2. CASE q = p
    BY <1>0, <2>1, <2>2 DEF Life!Establish, Life!Failback
  <2>3. CASE q # p
    <3>1. q \in ToSet(activeList'[g]) <=> q \in ToSet(activeList[g])
      BY <1>0, <2>1, <2>3 DEF Kept, Active
    <3> QED
      BY <1>0, <1>1, <2>1, <2>3, <3>1
  <2> QED
    BY <2>2, <2>3
<1>4. ASSUME NEW p \in Peers, FailsOver(p) PROVE [Life(q)!LifeNext]_(Life(q)!lifeVars)
  <2>1. /\ Kept(GroupOf(p)) /\ ToSet(activeList'[GroupOf(p)]) = Active(GroupOf(p)) \ {p}
        /\ phase[p] = "open" /\ phase' = [phase EXCEPT ![p] = "failed"]
    BY <1>4, FailoverMoves DEF FailsOver, Moves
  <2>2. CASE q = p
    BY <1>0, <2>1, <2>2 DEF Life!Failover
  <2>3. CASE q # p
    <3>1. q \in ToSet(activeList'[g]) <=> q \in ToSet(activeList[g])
      BY <1>0, <2>1, <2>3 DEF Kept, Active
    <3> QED
      BY <1>0, <1>1, <2>1, <2>3, <3>1
  <2> QED
    BY <2>2, <2>3
<1>5. ASSUME NEW p \in Peers, Drifts(p) PROVE [Life(q)!LifeNext]_(Life(q)!lifeVars)
  <2>1. CASE q = p
    BY <1>0, <1>5, <2>1
       DEF Drifts, Moves, Life!Connect, Life!Abort, Life!GiveUp, Life!Left, Life!Leave, Life!Die
  <2>2. CASE q # p
    BY <1>0, <1>1, <1>5, <2>2 DEF Drifts, Moves
  <2> QED
    BY <2>1, <2>2
<1>6. ASSUME UNCHANGED <<phase, activeList>> PROVE Rests
  BY <1>6
<1> QED
  BY <1>1, <1>2, <1>3, <1>4, <1>5, <1>6 DEF Next, mgrVars, diaConnGetActiveDcb

\* Every peer lives the life that DiaPeerLife describes and DiaConnState implements.
THEOREM ImplementsLives == Spec => LivesOfPeers
<1>1. Init => \A p \in Peers : Life(p)!LifeInit
  <2>1. ToSet(<<>>) = {}
    BY DEF ToSet
  <2> QED
    BY <2>1, GroupsApart DEF Init, Life!LifeInit
<1>2. IInv /\ [Next]_mgrVars
        => [\A p \in Peers : [Life(p)!LifeNext]_(Life(p)!lifeVars)]_mgrVars
  BY LivesStep
<1> QED
  BY <1>1, <1>2, Invariance, PTL DEF Spec, LivesOfPeers
=============================================================================
