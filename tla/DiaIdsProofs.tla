---------------------------- MODULE DiaIdsProofs ----------------------------
(***************************************************************************)
(* Theorems about DiaIds, for any requests: the identifiers differ, and    *)
(* therefore, with one thread, the requests behave as DiaReqMgr says.      *)
(***************************************************************************)
EXTENDS DiaIds, DiaReqMgrProofs

\* The Session-Ids in use are behind the counter, and a thread that has taken a number
\* without printing it is alone with it.
Counted ==
  ~threaded =>
    \A q \in Requests :
      /\ HasId(q) => printed[q] <= optionalValue
      /\ sending[q] = "building" /\ build[q] = "counted" =>
           \A r \in Requests : HasId(r) => printed[r] < optionalValue

\* With one thread at most one request is being sent.
OneAtATime ==
  ~threaded => \A q, r \in Requests : Midway(q) /\ Midway(r) => q = r

\* A request whose building has not begun has no number.
NotBegun == \A r \in Requests : sending[r] = "new" => build[r] = "start"

Numbered ==
  ~wrapped =>
    \A r \in Requests : build[r] = "numbered" => h2hId # 0 /\ h2h[r] <= h2hId

IdsInv ==
  /\ IInv /\ IdsTypeOK
  /\ OneAtATime /\ NotBegun /\ Counted /\ SessionIdsDiffer
  /\ Numbered /\ H2hIdsDiffer

-----------------------------------------------------------------------------
\* The steps of DiaReqMgr that DiaIds takes as they are, and how they move a send.
ReqStep(r) ==
  \/ begin(r) \/ refuse(r) \/ transport_send(r) \/ addUserData(r) \/ startTimer(r)
  \/ Answer(r) \/ Lose(r) \/ onMsg(r) \/ onUnexpected(r) \/ Expire(r)

LEMMA ReqStepIsNext ==
  ASSUME NEW r \in Requests, ReqStep(r), ~crashed
  PROVE  Next
BY DEF ReqStep, Next, Send

\* One answer may end another request that has the same Session-Id.
Mixed == \E q, r \in Requests : onMsg_same(q, r)

LEMMA Steps_of_IdsNext ==
  ASSUME [IdsNext]_idsVars
  PROVE  \/ ~crashed /\ (\E r \in Requests : ReqStep(r)) /\ UNCHANGED idVars
         \/ Mixed /\ UNCHANGED idVars
         \/ \E r \in Requests : encodeSessionId_count(r)
         \/ \E r \in Requests : encodeSessionId_print(r)
         \/ \E r \in Requests : encodeHdr(r)
         \/ encodeHdr_own
         \/ UNCHANGED idsVars
BY DEF IdsNext, SendIds, Handled, ReqStep, onUnexpected_ids, Mixed

LEMMA ThreadedStays == [IdsNext]_idsVars => threaded' = threaded
<1> SUFFICES ASSUME [IdsNext]_idsVars PROVE threaded' = threaded
  OBVIOUS
<1>1. CASE ~crashed /\ \E r \in Requests : ReqStep(r)
  BY <1>1, ReqStepIsNext, ThreadedKept
<1>2. CASE Mixed
  BY <1>2 DEF Mixed, onMsg_same, Ended
<1>3. CASE \/ \E r \in Requests : encodeSessionId_count(r) \/ encodeSessionId_print(r) \/ encodeHdr(r)
           \/ encodeHdr_own \/ UNCHANGED idsVars
  BY <1>3 DEF encodeSessionId_count, encodeSessionId_print, encodeHdr, encodeHdr_own,
              Builds_on, reqVars, idsVars
<1> QED
  BY <1>1, <1>2, <1>3, Steps_of_IdsNext

LEMMA InitIdsInv == IdsInit => IdsInv
<1> SUFFICES ASSUME IdsInit PROVE IdsInv
  OBVIOUS
<1>1. IInv
  BY InitIInv DEF IdsInit
<1>2. 0 \in Ids
  BY IdModAssumption DEF Ids
<1>3. IdsTypeOK
  BY <1>2, IdModAssumption DEF IdsInit, IdsTypeOK, Builds
<1>4. OneAtATime
  BY DEF IdsInit, Init, OneAtATime, Midway
<1>5. \A r \in Requests : build[r] = "start"
  BY DEF IdsInit
<1> QED
  BY <1>1, <1>3, <1>4, <1>5
     DEF IdsInv, NotBegun, Counted, SessionIdsDiffer, SameId, HasId, Numbered, H2hIdsDiffer

-----------------------------------------------------------------------------
\* What a step of DiaReqMgr does to the sends: a request is in the middle of its send
\* only if it was before, or nobody was, and it is building only from the start.
LEMMA SendsMove ==
  ASSUME TypeOK, NEW r \in Requests, ReqStep(r)
  PROVE  /\ \A q \in Requests : Midway(q)' => Midway(q) \/ (q = r /\ Undisturbed)
         /\ \A q \in Requests : sending'[q] = "building" => sending[q] \in {"new", "building"}
         /\ \A q \in Requests : sending'[q] = "new" => sending[q] = "new"
BY DEF TypeOK, Steps, ReqStep, begin, refuse, transport_send, addUserData, startTimer, Answer,
       Lose, onMsg, Ended, onUnexpected, Receives, Expire, onTimeout, onTimeoutIgnored,
       onTimeoutFreed, Midway

LEMMA KeptByReqStep ==
  ASSUME IdsInv, NEW r \in Requests, ReqStep(r), ~crashed, UNCHANGED idVars
  PROVE  IdsInv'
<1>0. /\ build' = build /\ optionalValue' = optionalValue /\ printed' = printed
      /\ h2hId' = h2hId /\ h2h' = h2h /\ wrapped' = wrapped
  BY DEF idVars
<1>1. IInv'
  BY ReqStepIsNext, StepIInv DEF IdsInv
<1>2. threaded' = threaded /\ TypeOK
  BY ReqStepIsNext, ThreadedKept DEF IdsInv, IInv
<1>3. OneAtATime'
  BY <1>2, SendsMove DEF IdsInv, OneAtATime, Undisturbed
<1>4. NotBegun'
  BY <1>0, <1>2, SendsMove DEF IdsInv, NotBegun
<1>5. Counted'
  <2>1. ASSUME NEW q \in Requests, sending'[q] = "building", build[q] = "counted"
        PROVE  sending[q] = "building"
    BY <1>2, <2>1, SendsMove DEF IdsInv, NotBegun
  <2> QED
    BY <1>0, <1>2, <2>1 DEF IdsInv, Counted, HasId
<1>6. IdsTypeOK' /\ SessionIdsDiffer' /\ Numbered' /\ H2hIdsDiffer'
  BY <1>0, <1>2 DEF IdsInv, IdsTypeOK, SessionIdsDiffer, SameId, HasId, Numbered, H2hIdsDiffer
<1> QED
  BY <1>1, <1>3, <1>4, <1>5, <1>6 DEF IdsInv

\* Requests have one Session-Id only when the application has threads, and what
\* DiaReqMgr says of timers and hash data holds whichever request an answer ends.
LEMMA KeptByMixed ==
  ASSUME IdsInv, Mixed, UNCHANGED idVars
  PROVE  IdsInv'
<1>0. /\ build' = build /\ optionalValue' = optionalValue /\ printed' = printed
      /\ h2hId' = h2hId /\ h2h' = h2h /\ wrapped' = wrapped
  BY DEF idVars
<1>1. PICK q, r \in Requests : onMsg_same(q, r)
  BY DEF Mixed
<1>2. threaded /\ threaded' = threaded /\ sending' = sending
  BY <1>1 DEF onMsg_same, Ended, IdsInv, SessionIdsDiffer
<1>3. TypeOK /\ TypeOK'
  BY <1>1, NotifyOnce, ReqAssumption
     DEF onMsg_same, Ended, stopTimer, Receives, IdsInv, IInv, TypeOK, Steps, MaxCalls
<1>4. Structure' /\ Accounted'
  BY <1>1, <1>3, StructureEnded
     DEF onMsg_same, Ended, Receives, IdsInv, IInv, TypeOK, Accounted
<1>5. AtMostOnce' /\ Settled'
  BY <1>2 DEF AtMostOnce, Settled
<1>6. IdsTypeOK' /\ OneAtATime' /\ NotBegun' /\ Counted' /\ SessionIdsDiffer'
  BY <1>0, <1>2 DEF IdsInv, IdsTypeOK, OneAtATime, NotBegun, Counted, SessionIdsDiffer
<1>7. Numbered' /\ H2hIdsDiffer'
  BY <1>0 DEF IdsInv, Numbered, H2hIdsDiffer
<1> QED
  BY <1>3, <1>4, <1>5, <1>6, <1>7 DEF IdsInv, IInv

-----------------------------------------------------------------------------
\* The steps of the encoders leave the requests of DiaReqMgr alone.
LEMMA Unmoved ==
  ASSUME IInv, UNCHANGED reqVars
  PROVE  IInv' /\ threaded' = threaded /\ sending' = sending
BY StepIInv DEF reqVars

LEMMA KeptByCount ==
  ASSUME IdsInv, NEW r \in Requests, encodeSessionId_count(r)
  PROVE  IdsInv'
<1> USE DEF encodeSessionId_count, Builds_on, IdsTypeOK, Builds
<1>1. IInv' /\ threaded' = threaded /\ sending' = sending
  BY Unmoved DEF IdsInv
<1>2. /\ IdsTypeOK /\ IdsTypeOK'
      /\ \A q \in Requests : HasId(q)' <=> HasId(q)
      /\ \A q \in Requests : build'[q] = "numbered" <=> build[q] = "numbered"
  BY DEF IdsInv, HasId
<1>3. OneAtATime' /\ NotBegun' /\ SessionIdsDiffer'
  BY <1>1, <1>2 DEF IdsInv, OneAtATime, NotBegun, SessionIdsDiffer, SameId, Midway
<1>4. Counted'
  <2>1. ASSUME ~threaded, NEW q \in Requests, HasId(q) PROVE printed[q] < optionalValue'
    BY <1>2, <2>1 DEF IdsInv, Counted
  <2> QED
    BY <1>1, <1>2, <2>1 DEF Counted
<1>5. Numbered' /\ H2hIdsDiffer'
  BY <1>2 DEF IdsInv, Numbered, H2hIdsDiffer
<1> QED
  BY <1>1, <1>2, <1>3, <1>4, <1>5 DEF IdsInv

\* Only the request that has taken the last number prints it.
LEMMA KeptByPrint ==
  ASSUME IdsInv, NEW r \in Requests, encodeSessionId_print(r)
  PROVE  IdsInv'
<1> USE DEF encodeSessionId_print, Builds_on, IdsTypeOK, Builds
<1>1. IInv' /\ threaded' = threaded /\ sending' = sending
  BY Unmoved DEF IdsInv
<1>2. /\ IdsTypeOK /\ IdsTypeOK'
      /\ \A q \in Requests : q # r => (HasId(q)' <=> HasId(q)) /\ printed'[q] = printed[q]
      /\ HasId(r)' /\ ~HasId(r) /\ printed'[r] = optionalValue
      /\ \A q \in Requests : build'[q] = "numbered" <=> build[q] = "numbered"
  BY DEF IdsInv, HasId
<1>3. ~threaded => \A q \in Requests : HasId(q) => printed[q] < optionalValue
  BY DEF IdsInv, Counted
<1>4. OneAtATime' /\ NotBegun'
  BY <1>1, <1>2 DEF IdsInv, OneAtATime, NotBegun, Midway
<1>5. SessionIdsDiffer'
  <2> SUFFICES ASSUME ~threaded, NEW p \in Requests, NEW q \in Requests, p # q,
                      HasId(p)', HasId(q)'
               PROVE  printed'[p] # printed'[q]
    BY <1>1 DEF SessionIdsDiffer, SameId
  <2>1. CASE p # r /\ q # r
    BY <1>2, <2>1 DEF IdsInv, SessionIdsDiffer, SameId
  <2>2. CASE p = r \/ q = r
    BY <1>2, <1>3, <2>2
  <2> QED
    BY <2>1, <2>2
<1>6. Counted'
  <2>1. ASSUME ~threaded, NEW q \in Requests, sending[q] = "building"
        PROVE  q = r
    BY <2>1 DEF IdsInv, OneAtATime, Midway
  <2>2. ASSUME ~threaded, NEW q \in Requests, HasId(q)'
        PROVE  printed'[q] <= optionalValue
    BY <1>2, <1>3, <2>2
  <2> QED
    BY <1>1, <1>2, <2>1, <2>2 DEF Counted
<1>7. Numbered' /\ H2hIdsDiffer'
  BY <1>2 DEF IdsInv, Numbered, H2hIdsDiffer
<1> QED
  BY <1>1, <1>2, <1>4, <1>5, <1>6, <1>7 DEF IdsInv

-----------------------------------------------------------------------------
\* Until it wraps the last id only grows.
LEMMA TakesNext ==
  ASSUME IdsTypeOK, takeH2hId
  PROVE  /\ h2hId' \in Ids /\ wrapped' \in BOOLEAN
         /\ ~wrapped' => ~wrapped /\ h2hId' # 0 /\ (h2hId # 0 => h2hId' > h2hId)
<1>1. PICK id \in (IF h2hId = 0 THEN InitH2hId ELSE {h2hId}) : h2hId' = nextH2hId(id)
  BY DEF takeH2hId
<1>2. id \in Ids /\ (h2hId # 0 => id = h2hId)
  BY <1>1 DEF IdsTypeOK, InitH2hId
<1>3. nextH2hId(id) \in Ids /\ (nextH2hId(id) = 0 \/ nextH2hId(id) = id + 1)
  BY <1>2, IdModAssumption DEF nextH2hId, Ids
<1>4. id \in Nat
  BY <1>2, IdModAssumption DEF Ids
<1>5. /\ h2hId' \in Ids
      /\ h2hId' # 0 => (h2hId # 0 => h2hId' > h2hId)
  BY <1>1, <1>2, <1>3, <1>4
<1>6. (wrapped' <=> (wrapped \/ h2hId' = 0)) /\ wrapped' \in BOOLEAN
  BY DEF takeH2hId, IdsTypeOK
<1> QED
  BY <1>5, <1>6

LEMMA KeptByHdr ==
  ASSUME IdsInv, NEW r \in Requests, encodeHdr(r)
  PROVE  IdsInv'
<1> USE DEF encodeHdr, Builds_on, Builds
<1>1. IInv' /\ threaded' = threaded /\ sending' = sending
  BY Unmoved DEF IdsInv
<1>2. /\ h2hId' \in Ids /\ wrapped' \in BOOLEAN
      /\ ~wrapped' => ~wrapped /\ h2hId' # 0 /\ (h2hId # 0 => h2hId' > h2hId)
  BY TakesNext DEF IdsInv
<1>3. IdsTypeOK /\ IdsTypeOK'
  BY <1>2 DEF IdsInv, IdsTypeOK
<1>4. /\ \A q \in Requests : (HasId(q)' <=> HasId(q)) /\ printed'[q] = printed[q]
      /\ \A q \in Requests : build'[q] = "counted" <=> build[q] = "counted"
      /\ \A q \in Requests : q # r =>
           h2h'[q] = h2h[q] /\ (build'[q] = "numbered" <=> build[q] = "numbered")
      /\ build'[r] = "numbered" /\ h2h'[r] = h2hId'
  BY <1>3 DEF HasId, IdsTypeOK
<1>5. OneAtATime' /\ NotBegun' /\ SessionIdsDiffer' /\ Counted'
  <2>1. optionalValue' = optionalValue
    OBVIOUS
  <2>2. NotBegun'
    BY <1>1, <1>3 DEF IdsInv, NotBegun, IdsTypeOK
  <2> QED
    BY <1>1, <1>4, <2>1, <2>2
       DEF IdsInv, OneAtATime, SessionIdsDiffer, SameId, Counted, Midway
<1>6. \A q \in Requests : h2h[q] \in Ids /\ h2h'[q] \in Ids /\ h2hId \in Ids
  BY <1>3 DEF IdsTypeOK
<1>7. \A id \in Ids : id \in Nat
  BY IdModAssumption DEF Ids
<1>8. ASSUME ~wrapped', NEW q \in Requests, q # r, build'[q] = "numbered"
      PROVE  h2h'[q] < h2hId'
  <2>1. h2hId # 0 /\ h2h[q] <= h2hId
    BY <1>2, <1>4, <1>8 DEF IdsInv, Numbered
  <2> QED
    BY <1>2, <1>4, <1>6, <1>7, <1>8, <2>1
<1>9. Numbered'
  <2> SUFFICES ASSUME ~wrapped', NEW q \in Requests, build'[q] = "numbered"
               PROVE  h2hId' # 0 /\ h2h'[q] <= h2hId'
    BY DEF Numbered
  <2>1. CASE q = r
    BY <1>2, <1>4, <1>7, <2>1
  <2>2. CASE q # r
    BY <1>2, <1>6, <1>7, <1>8, <2>2
  <2> QED
    BY <2>1, <2>2
<1>10. H2hIdsDiffer'
  <2> SUFFICES ASSUME ~wrapped', NEW p \in Requests, NEW q \in Requests, p # q,
                      build'[p] = "numbered", build'[q] = "numbered"
               PROVE  h2h'[p] # h2h'[q]
    BY DEF H2hIdsDiffer
  <2>1. CASE p = r
    BY <1>2, <1>4, <1>6, <1>7, <1>8, <2>1
  <2>2. CASE q = r
    BY <1>2, <1>4, <1>6, <1>7, <1>8, <2>2
  <2>3. CASE p # r /\ q # r
    BY <1>2, <1>4, <2>3 DEF IdsInv, H2hIdsDiffer
  <2> QED
    BY <2>1, <2>2, <2>3
<1> QED
  BY <1>1, <1>3, <1>5, <1>9, <1>10 DEF IdsInv

LEMMA KeptByOwn ==
  ASSUME IdsInv, encodeHdr_own
  PROVE  IdsInv'
<1> USE DEF encodeHdr_own
<1>1. IInv' /\ threaded' = threaded /\ sending' = sending
  BY Unmoved DEF IdsInv
<1>2. /\ h2hId' \in Ids /\ wrapped' \in BOOLEAN
      /\ ~wrapped' => ~wrapped /\ h2hId' # 0 /\ (h2hId # 0 => h2hId' > h2hId)
  BY TakesNext DEF IdsInv
<1>3. IdsTypeOK /\ IdsTypeOK'
  BY <1>2 DEF IdsInv, IdsTypeOK
<1>4. OneAtATime' /\ NotBegun' /\ SessionIdsDiffer' /\ Counted'
  BY <1>1 DEF IdsInv, OneAtATime, NotBegun, SessionIdsDiffer, SameId, HasId, Counted, Midway
<1>5. H2hIdsDiffer'
  BY <1>2 DEF IdsInv, H2hIdsDiffer
<1>6. Numbered'
  <2> SUFFICES ASSUME ~wrapped', NEW q \in Requests, build[q] = "numbered"
               PROVE  h2hId' # 0 /\ h2h[q] <= h2hId'
    BY DEF Numbered
  <2>1. h2hId # 0 /\ h2h[q] <= h2hId /\ h2hId' > h2hId
    BY <1>2 DEF IdsInv, Numbered
  <2>2. h2h[q] \in Nat /\ h2hId \in Nat /\ h2hId' \in Nat
    BY <1>2, <1>3, IdModAssumption DEF IdsTypeOK, Ids
  <2> QED
    BY <1>2, <2>1, <2>2
<1> QED
  BY <1>1, <1>3, <1>4, <1>5, <1>6 DEF IdsInv

-----------------------------------------------------------------------------
LEMMA StepIdsInv == IdsInv /\ [IdsNext]_idsVars => IdsInv'
<1> SUFFICES ASSUME IdsInv, [IdsNext]_idsVars PROVE IdsInv'
  OBVIOUS
<1>1. ASSUME ~crashed, UNCHANGED idVars, NEW r \in Requests, ReqStep(r) PROVE IdsInv'
  BY <1>1, KeptByReqStep
<1>2. ASSUME Mixed, UNCHANGED idVars PROVE IdsInv'
  BY <1>2, KeptByMixed
<1>3. ASSUME NEW r \in Requests, encodeSessionId_count(r) PROVE IdsInv'
  BY <1>3, KeptByCount
<1>4. ASSUME NEW r \in Requests, encodeSessionId_print(r) PROVE IdsInv'
  BY <1>4, KeptByPrint
<1>5. ASSUME NEW r \in Requests, encodeHdr(r) PROVE IdsInv'
  BY <1>5, KeptByHdr
<1>6. CASE encodeHdr_own
  BY <1>6, KeptByOwn
<1>7. CASE UNCHANGED idsVars
  <2>1. IInv'
    BY <1>7, Unmoved DEF IdsInv, idsVars
  <2> QED
    BY <1>7, <2>1 DEF IdsInv, idsVars, idVars, reqVars, IdsTypeOK, OneAtATime, NotBegun, Counted,
                      SessionIdsDiffer, SameId, HasId, Numbered, H2hIdsDiffer, Midway
<1> QED
  BY <1>1, <1>2, <1>3, <1>4, <1>5, <1>6, <1>7, Steps_of_IdsNext

\* IdsInv is an invariant.
THEOREM IdsInvariance == IdsSpec => []IdsInv
BY InitIdsInv, StepIdsInv, PTL DEF IdsSpec

\* Requests that one thread sends have Session-Ids of their own, however many there
\* are, and until they wrap the hop-by-hop ids differ, whatever the first one is.
THEOREM IdsDiffer == IdsSpec => [](SessionIdsDiffer /\ H2hIdsDiffer)
<1>1. IdsInv => SessionIdsDiffer /\ H2hIdsDiffer
  BY DEF IdsInv
<1> QED
  BY <1>1, IdsInvariance, PTL

\* With the identifiers, and with answers that end another request, the application
\* still hears once from one thread, and in any threads what waits is still timed and a
\* late expiry still ends no request.
THEOREM RequestsHold ==
  IdsSpec => [](AtMostOnce /\ LateExpiryIsRefused /\ PendingIsTimed /\ TimedIsPending)
<1>1. IdsInv => AtMostOnce /\ LateExpiryIsRefused /\ PendingIsTimed /\ TimedIsPending
  BY DEF IdsInv, IInv, Structure, Settled, TimedIsPending, TypeOK
<1> QED
  BY <1>1, IdsInvariance, PTL

\* With one thread DiaIds implements DiaReqMgr: the Session-Ids differ, so no answer
\* ends another request, and every step is one of DiaReqMgr or leaves it alone.
THEOREM ImplementsReqMgr == IdsSpec /\ ~threaded => Spec
<1>1. IdsInv /\ ~threaded /\ [IdsNext]_idsVars => [Next]_reqVars
  <2> SUFFICES ASSUME IdsInv, ~threaded, [IdsNext]_idsVars PROVE [Next]_reqVars
    OBVIOUS
  <2>1. ~Mixed
    BY DEF Mixed, onMsg_same, IdsInv, SessionIdsDiffer
  <2>2. CASE ~crashed /\ \E r \in Requests : ReqStep(r)
    BY <2>2, ReqStepIsNext
  <2>3. CASE \/ \E r \in Requests : encodeSessionId_count(r) \/ encodeSessionId_print(r) \/ encodeHdr(r)
             \/ encodeHdr_own \/ UNCHANGED idsVars
    BY <2>3 DEF encodeSessionId_count, encodeSessionId_print, encodeHdr, encodeHdr_own,
                Builds_on, idsVars
  <2> QED
    BY <2>1, <2>2, <2>3, Steps_of_IdsNext
<1>2. ~threaded /\ [IdsNext]_idsVars => ~threaded'
  BY ThreadedStays
<1>3. IdsInit => Init
  BY DEF IdsInit
<1> QED
  BY <1>1, <1>2, <1>3, IdsInvariance, PTL DEF IdsSpec, Spec
=============================================================================
