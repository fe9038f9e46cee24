-------------------------- MODULE DiaReqMgrProofs --------------------------
(***************************************************************************)
(* Theorems about DiaReqMgr, for every set of requests, with and without   *)
(* threads of the application.                                             *)
(***************************************************************************)
EXTENDS DiaReqMgr, TLAPS

AddedSteps == {"added", "returned"}

\* Answers on their way have been given.
Accounted == \A r \in Requests : coming[r] <= given[r]

\* What is in the hash was added, and a timer is started when the send returns.
Begun ==
  /\ \A r \in diaHash : sending[r] \in AddedSteps
  /\ \A r \in running \cup late : sending[r] = "returned"

\* Hash data stands in one place: that of a request in the hash is its own, and only
\* the data of a request that was added stands where another's was.
Placed ==
  \A r \in Requests :
    /\ r \in diaHash \/ sending[r] \notin AddedSteps => pDiaHashData[r] = r
    /\ pDiaHashData[r] # r => sending[pDiaHashData[r]] \in AddedSteps
    /\ pDiaHashData[pDiaHashData[r]] = pDiaHashData[r]

\* A timer id stands in the hash data only of a timer that was started, and that has the
\* address of this data.
Written ==
  \A b \in Requests :
    LET id == waitRespTimerId[b] IN
    id # NoTimer =>
      /\ sending[b] \in AddedSteps /\ sending[id] = "returned"
      /\ pDiaHashData[b] = b => pDiaHashData[id] = b

Structure == Begun /\ Placed /\ Written /\ LateExpiryIsRefused /\ PendingIsTimed

\* With one thread nothing leaves the hash while its request is being sent, what has
\* been reported is over, and the timers that run are those of requests that wait.
Settled ==
  ~threaded =>
    \A r \in Requests :
      /\ sending[r] = "added" => r \in diaHash
      /\ notified[r] > 0 => sending[r] = "returned" /\ r \notin diaHash
      /\ r \in running => r \in diaHash /\ waitRespTimerId[r] = r

IInv ==
  /\ TypeOK
  /\ Structure
  /\ Accounted
  /\ Settled
  /\ AtMostOnce

LEMMA InitIInv == Init => IInv
<1> SUFFICES ASSUME Init PROVE IInv
  OBVIOUS
<1>1. TypeOK
  <2>1. 0 \in 0..MaxAnswers /\ 0 \in 0..MaxCalls
    BY ReqAssumption DEF MaxCalls
  <2> QED
    BY <2>1, Zenon DEF Init, TypeOK, Steps
<1>2. Begun /\ Placed /\ Written
  BY DEF Init, Begun, Placed, Written, AddedSteps
<1>3. LateExpiryIsRefused /\ PendingIsTimed
  BY DEF Init, LateExpiryIsRefused, PendingIsTimed
<1>4. AtMostOnce /\ Accounted /\ Settled
  BY DEF Init, AtMostOnce, Accounted, Settled
<1> QED
  BY <1>1, <1>2, <1>3, <1>4 DEF IInv, Structure

\* A callback is counted once at most, and only for a request that listens.
LEMMA NotifyOnce ==
  ASSUME TypeOK, NEW r \in Requests, notifyApp(r)
  PROVE  /\ notified' \in [Requests -> 0..MaxCalls]
         /\ \A q \in Requests : q # r => notified'[q] = notified[q]
         /\ notified'[r] <= notified[r] + 1
         /\ r \notin Listens => notified'[r] = notified[r]
BY DEF TypeOK, notifyApp, MaxCalls

LEMMA StepTypeOK == IInv /\ [Next]_reqVars => TypeOK'
<1> SUFFICES ASSUME TypeOK, Accounted, [Next]_reqVars
             PROVE  TypeOK'
  BY DEF IInv
<1> USE ReqAssumption DEF TypeOK, Steps, MaxCalls, timers, hashData
<1>0. ASSUME NEW r \in Requests, begin(r) PROVE TypeOK'
  BY <1>0 DEF begin
<1>1. ASSUME NEW r \in Requests, refuse(r) PROVE TypeOK'
  BY <1>1 DEF refuse
<1>2. ASSUME NEW r \in Requests, transport_send(r) PROVE TypeOK'
  BY <1>2 DEF transport_send
<1>3. ASSUME NEW r \in Requests, addUserData(r) PROVE TypeOK'
  <2>1. Freed \subseteq Requests
    BY DEF Freed
  <2>2. pDiaHashData' \in [Requests -> Requests]
    BY <1>3, <2>1 DEF addUserData
  <2>3. waitRespTimerId' \in [Requests -> Requests \cup {NoTimer}]
    BY <1>3, <2>1 DEF addUserData
  <2> QED
    BY <1>3, <2>2, <2>3 DEF addUserData
<1>4. ASSUME NEW r \in Requests, startTimer(r) PROVE TypeOK'
  BY <1>4 DEF startTimer
<1>5. ASSUME NEW r \in Requests, Answer(r) PROVE TypeOK'
  BY <1>5 DEF Answer, Accounted
<1>6. ASSUME NEW r \in Requests, Lose(r) PROVE TypeOK'
  BY <1>6 DEF Lose
<1>7. ASSUME NEW r \in Requests, onMsg(r) PROVE TypeOK'
  BY <1>7, NotifyOnce DEF onMsg, Ended, stopTimer, Receives
<1>8. ASSUME NEW r \in Requests, onUnexpected(r) PROVE TypeOK'
  BY <1>8 DEF onUnexpected, Receives
<1>9. ASSUME NEW r \in Requests, onTimeout(r) PROVE TypeOK'
  BY <1>9, NotifyOnce DEF onTimeout, Expires
<1>10. ASSUME NEW r \in Requests, onTimeoutIgnored(r) PROVE TypeOK'
  BY <1>10 DEF onTimeoutIgnored, Expires
<1>11. ASSUME NEW r \in Requests, onTimeoutFreed(r) PROVE TypeOK'
  BY <1>11, NotifyOnce DEF onTimeoutFreed, Expires
<1>12. CASE UNCHANGED reqVars
  BY <1>12 DEF reqVars
<1> QED
  BY <1>0, <1>1, <1>2, <1>3, <1>4, <1>5, <1>6, <1>7, <1>8, <1>9, <1>10, <1>11, <1>12
  DEF Next, Send, Expire

-----------------------------------------------------------------------------
\* What says nothing of answers and callbacks.
LEMMA StructureMoves ==
  ASSUME TypeOK, Structure, UNCHANGED <<diaHash, timers, hashData>>,
         sending' \in [Requests -> Steps],
         \A r \in Requests : sending[r] \in AddedSteps \/ sending'[r] \in AddedSteps
                               => sending'[r] = sending[r]
  PROVE  Structure'
BY DEF TypeOK, Structure, Begun, Placed, Written, LateExpiryIsRefused, ForIts, PendingIsTimed,
       AddedSteps, timers, hashData

LEMMA StructureAdded ==
  ASSUME TypeOK, Structure, NEW r \in Requests, addUserData(r)
  PROVE  Structure'
<1> USE DEF AddedSteps, timers, hashData
<1>1. /\ sending[r] = "sent" /\ r \notin diaHash /\ r \notin running \cup late
      /\ pDiaHashData[r] = r /\ waitRespTimerId[r] = NoTimer
      /\ \A q \in Requests : pDiaHashData[q] = r => q = r
      /\ \A q \in Requests : waitRespTimerId[q] # r
  BY ReqAssumption DEF addUserData, Structure, Begun, Placed, Written, TypeOK
<1>2. /\ \A q \in Requests : q # r => sending'[q] = sending[q]
      /\ sending'[r] = "added"
      /\ diaHash' = diaHash \cup {r} /\ running' = running /\ late' = late
  BY DEF addUserData, TypeOK
<1>3. Begun'
  BY <1>1, <1>2 DEF Structure, Begun, TypeOK
<1>4. CASE UNCHANGED hashData
  <2>1. Placed'
    BY <1>1, <1>2, <1>4 DEF Structure, Placed, TypeOK
  <2>2. Written'
    BY <1>1, <1>2, <1>4 DEF Structure, Written, TypeOK
  <2>3. LateExpiryIsRefused' /\ PendingIsTimed'
    BY <1>1, <1>2, <1>4
       DEF Structure, LateExpiryIsRefused, ForIts, PendingIsTimed, TypeOK
  <2> QED
    BY <1>3, <2>1, <2>2, <2>3 DEF Structure
<1>5. ASSUME NEW b \in Freed,
             pDiaHashData' = [q \in Requests |-> IF pDiaHashData[q] = b THEN r
                                                                     ELSE pDiaHashData[q]],
             waitRespTimerId' = [waitRespTimerId EXCEPT ![r] = waitRespTimerId[b]]
      PROVE  Structure'
  <2>1. /\ b \in Requests /\ b \notin diaHash /\ b # r
        /\ pDiaHashData[b] = b
    BY <1>1 DEF Freed, Structure, Begun, Placed, TypeOK
  <2>2. \A q \in Requests :
          /\ pDiaHashData[q] = b => pDiaHashData'[q] = r
          /\ pDiaHashData[q] # b => pDiaHashData'[q] = pDiaHashData[q]
    BY <1>5
  <2>3. /\ waitRespTimerId'[r] = waitRespTimerId[b]
        /\ \A q \in Requests : q # r => waitRespTimerId'[q] = waitRespTimerId[q]
    BY <1>5 DEF TypeOK
  <2>4. pDiaHashData'[r] = r
    BY <1>1, <2>1, <2>2
  <2>5. Placed'
    <3> SUFFICES ASSUME NEW q \in Requests
                 PROVE  /\ q \in diaHash' \/ sending'[q] \notin AddedSteps => pDiaHashData'[q] = q
                        /\ pDiaHashData'[q] # q => sending'[pDiaHashData'[q]] \in AddedSteps
                        /\ pDiaHashData'[pDiaHashData'[q]] = pDiaHashData'[q]
      BY DEF Placed
    <3>1. /\ q \in diaHash \/ sending[q] \notin AddedSteps => pDiaHashData[q] = q
          /\ pDiaHashData[q] # q => sending[pDiaHashData[q]] \in AddedSteps
          /\ pDiaHashData[pDiaHashData[q]] = pDiaHashData[q]
          /\ pDiaHashData[q] \in Requests
      BY DEF Structure, Placed, TypeOK
    <3>2. sending[b] \in AddedSteps
      BY <2>1 DEF Freed, Structure, Begun, Placed, TypeOK
    <3>3. CASE pDiaHashData[q] = b
      BY <1>1, <1>2, <2>1, <2>2, <2>4, <3>1, <3>2, <3>3
    <3>4. CASE pDiaHashData[q] # b
      BY <1>1, <1>2, <2>1, <2>2, <2>4, <3>1, <3>4
    <3> QED
      BY <3>3, <3>4
  <2>6. Written'
    <3> SUFFICES ASSUME NEW q \in Requests, waitRespTimerId'[q] # NoTimer
                 PROVE  /\ sending'[q] \in AddedSteps /\ sending'[waitRespTimerId'[q]] = "returned"
                        /\ pDiaHashData'[q] = q => pDiaHashData'[waitRespTimerId'[q]] = q
      BY DEF Written
    <3>1. \A p \in Requests : waitRespTimerId[p] # NoTimer =>
            /\ waitRespTimerId[p] \in Requests /\ waitRespTimerId[p] # r
            /\ sending[p] \in AddedSteps /\ sending[waitRespTimerId[p]] = "returned"
            /\ pDiaHashData[p] = p => pDiaHashData[waitRespTimerId[p]] = p
      BY <1>1 DEF Structure, Written, TypeOK
    <3>2. CASE q = r
      BY <1>2, <2>1, <2>2, <2>3, <3>1, <3>2
    <3>3. CASE q # r
      BY <1>2, <2>1, <2>2, <2>3, <3>1, <3>3
    <3> QED
      BY <3>2, <3>3
  <2>7. LateExpiryIsRefused'
    BY <1>1, <1>2, <2>1, <2>2, <2>3 DEF Structure, LateExpiryIsRefused, ForIts, TypeOK
  <2>8. PendingIsTimed'
    BY <1>1, <1>2, <2>1, <2>2, <2>3 DEF Structure, PendingIsTimed, ForIts, TypeOK
  <2> QED
    BY <1>3, <2>5, <2>6, <2>7, <2>8 DEF Structure
<1> QED
  BY <1>4, <1>5 DEF addUserData

LEMMA StructureStarted ==
  ASSUME TypeOK, Structure, NEW r \in Requests, startTimer(r)
  PROVE  Structure'
<1> DEFINE b == pDiaHashData[r]
<1> USE DEF AddedSteps
<1>1. /\ sending[r] = "added" /\ b \in Requests
      /\ \A q \in Requests : q # r => sending'[q] = sending[q]
      /\ sending'[r] = "returned"
      /\ diaHash' = diaHash /\ running' = running \cup {r} /\ late' = late
      /\ pDiaHashData' = pDiaHashData
      /\ waitRespTimerId'[b] = r
      /\ \A q \in Requests : q # b => waitRespTimerId'[q] = waitRespTimerId[q]
  BY DEF startTimer, TypeOK
<1>2. \A q \in diaHash : pDiaHashData[q] = q
  BY DEF Structure, Placed, TypeOK
<1>3. sending[b] \in AddedSteps
  BY <1>1 DEF Structure, Placed
<1>4. Begun' /\ Placed'
  BY <1>1 DEF Structure, Begun, Placed, TypeOK
<1>5. Written'
  BY <1>1, <1>3 DEF Structure, Written, TypeOK
<1>6. LateExpiryIsRefused'
  BY <1>1 DEF Structure, Begun, LateExpiryIsRefused, ForIts, TypeOK
<1>7. PendingIsTimed'
  <2> SUFFICES ASSUME NEW q \in Listens \cap diaHash
               PROVE  \/ sending'[q] = "added"
                      \/ \E p \in running' : pDiaHashData'[p] = q /\ waitRespTimerId'[q] = p
    BY <1>1 DEF PendingIsTimed, ForIts
  <2>1. CASE q = b
    BY <1>1, <2>1
  <2>2. CASE q # b
    <3>1. q # r
      BY <1>2, <2>2
    <3> QED
      BY <1>1, <2>2, <3>1 DEF Structure, PendingIsTimed, ForIts, TypeOK
  <2> QED
    BY <2>1, <2>2
<1> QED
  BY <1>4, <1>5, <1>6, <1>7 DEF Structure

\* The timer that is stopped for a request is the one whose expiry would end it.
LEMMA StructureEnded ==
  ASSUME TypeOK, Structure, NEW r \in Requests, Ended(r)
  PROVE  Structure'
<1> DEFINE id == waitRespTimerId[r]
<1> USE DEF AddedSteps
<1>1. /\ r \in diaHash /\ pDiaHashData[r] = r
      /\ sending' = sending /\ pDiaHashData' = pDiaHashData /\ diaHash' = diaHash \ {r}
      /\ running' = running \ {id}
      /\ late' = late \/ (id \in running /\ late' = late \cup {id})
      /\ waitRespTimerId'[r] = NoTimer
      /\ \A q \in Requests : q # r => waitRespTimerId'[q] = waitRespTimerId[q]
  BY DEF Ended, stopTimer, Structure, Placed, TypeOK
<1>2. id # NoTimer => id \in Requests /\ pDiaHashData[id] = r
  BY <1>1 DEF Structure, Written, TypeOK
<1>3. Begun' /\ Placed'
  BY <1>1 DEF Structure, Begun, Placed, TypeOK
<1>4. Written'
  BY <1>1 DEF Structure, Written
<1>5. LateExpiryIsRefused'
  BY <1>1, <1>2, ReqAssumption DEF Structure, LateExpiryIsRefused, ForIts, TypeOK
<1>6. PendingIsTimed'
  BY <1>1, <1>2, ReqAssumption DEF Structure, PendingIsTimed, ForIts, TypeOK
<1> QED
  BY <1>3, <1>4, <1>5, <1>6 DEF Structure

LEMMA StructureExpired ==
  ASSUME TypeOK, Structure, NEW r \in Requests, Expire(r)
  PROVE  Structure'
<1> USE DEF AddedSteps, hashData
<1>1. /\ sending' = sending /\ pDiaHashData' = pDiaHashData
      /\ waitRespTimerId' = waitRespTimerId
      /\ running' = running \ {r} /\ late' = late \ {r}
      /\ diaHash' \subseteq diaHash
  BY DEF Expire, onTimeout, onTimeoutIgnored, onTimeoutFreed, Expires
<1>2. ForIts(r) /\ pDiaHashData[r] \in Listens => pDiaHashData[r] \notin diaHash'
  BY DEF Expire, onTimeout, onTimeoutIgnored, onTimeoutFreed
<1>3. Begun' /\ Placed' /\ Written'
  BY <1>1 DEF Structure, Begun, Placed, Written, TypeOK
<1>4. LateExpiryIsRefused'
  BY <1>1 DEF Structure, LateExpiryIsRefused, ForIts
<1>5. PendingIsTimed'
  BY <1>1, <1>2 DEF Structure, PendingIsTimed, ForIts, TypeOK
<1> QED
  BY <1>3, <1>4, <1>5 DEF Structure

LEMMA StepStructure == IInv /\ [Next]_reqVars => Structure'
<1> SUFFICES ASSUME TypeOK, Structure, [Next]_reqVars
             PROVE  Structure'
  BY DEF IInv
<1>1. ASSUME NEW r \in Requests, begin(r) \/ refuse(r) \/ transport_send(r) PROVE Structure'
  BY <1>1, StructureMoves DEF begin, refuse, transport_send, TypeOK, Steps, AddedSteps
<1>2. ASSUME NEW r \in Requests, Answer(r) \/ Lose(r) \/ onUnexpected(r) PROVE Structure'
  BY <1>2, StructureMoves DEF Answer, Lose, onUnexpected, TypeOK
<1>3. CASE UNCHANGED reqVars
  BY <1>3, StructureMoves DEF reqVars, TypeOK
<1> QED
  BY <1>1, <1>2, <1>3, StructureAdded, StructureStarted, StructureEnded, StructureExpired
  DEF Next, Send, onMsg

LEMMA StepAccounted == IInv /\ [Next]_reqVars => Accounted'
<1> SUFFICES ASSUME TypeOK, Accounted, [Next]_reqVars
             PROVE  Accounted'
  BY DEF IInv
<1> USE ReqAssumption DEF TypeOK, Accounted
<1>1. ASSUME NEW r \in Requests, Send(r) \/ Expire(r) PROVE Accounted'
  BY <1>1 DEF Send, begin, refuse, transport_send, addUserData, startTimer, Expire, onTimeout,
              onTimeoutIgnored, onTimeoutFreed
<1>2. ASSUME NEW r \in Requests, Answer(r) PROVE Accounted'
  BY <1>2 DEF Answer
<1>3. ASSUME NEW r \in Requests, Lose(r) \/ onMsg(r) \/ onUnexpected(r) PROVE Accounted'
  BY <1>3 DEF Lose, onMsg, Ended, onUnexpected, Receives
<1>4. CASE UNCHANGED reqVars
  BY <1>4 DEF reqVars
<1> QED
  BY <1>1, <1>2, <1>3, <1>4 DEF Next

-----------------------------------------------------------------------------
\* Who calls diaSendAppMsg does not change.
LEMMA ThreadedKept == [Next]_reqVars => threaded' = threaded
BY DEF Next, Send, Expire, begin, refuse, transport_send, addUserData, startTimer, Answer,
       Lose, onMsg, Ended, onUnexpected, onTimeout, onTimeoutIgnored, onTimeoutFreed, reqVars

\* With one thread freed hash data is never taken for a request's own.
LEMMA NoneFreed ==
  ASSUME TypeOK, Structure, Settled, ~threaded, NEW r \in Requests
  PROVE  ~onTimeoutFreed(r)
BY DEF onTimeoutFreed, Expires, Structure, LateExpiryIsRefused, Placed, Settled, TypeOK

LEMMA StepSettled == IInv /\ [Next]_reqVars => Settled'
<1> SUFFICES ASSUME TypeOK, Structure, Settled, ~threaded, [Next]_reqVars
             PROVE  Settled'
  BY ThreadedKept DEF IInv, Settled
<1> USE DEF TypeOK, Steps, Settled, timers, hashData
<1>0. ASSUME NEW r \in Requests, begin(r) PROVE Settled'
  BY <1>0 DEF begin, Structure, Begun
<1>1. ASSUME NEW r \in Requests, refuse(r) PROVE Settled'
  BY <1>1 DEF refuse
<1>2. ASSUME NEW r \in Requests, transport_send(r) PROVE Settled'
  BY <1>2 DEF transport_send
<1>3. ASSUME NEW r \in Requests, addUserData(r) PROVE Settled'
  <2>1. /\ r \notin running /\ running' = running /\ notified' = notified
        /\ diaHash' = diaHash \cup {r}
        /\ \A q \in Requests : q # r => waitRespTimerId'[q] = waitRespTimerId[q]
        /\ \A q \in Requests : q # r => sending'[q] = sending[q]
        /\ sending[r] = "sent"
    BY <1>3 DEF addUserData, Structure, Begun
  <2> QED
    BY <2>1
<1>4. ASSUME NEW r \in Requests, startTimer(r) PROVE Settled'
  <2>1. r \in diaHash /\ pDiaHashData[r] = r
    BY <1>4 DEF startTimer, Structure, Placed
  <2> QED
    BY <1>4, <2>1 DEF startTimer
<1>5. ASSUME NEW r \in Requests, Answer(r) PROVE Settled'
  BY <1>5 DEF Answer
<1>6. ASSUME NEW r \in Requests, Lose(r) PROVE Settled'
  BY <1>6 DEF Lose
<1>7. ASSUME NEW r \in Requests, onMsg(r) PROVE Settled'
  <2>1. sending[r] = "returned"
    BY <1>7 DEF onMsg, Ended, Receives, Undisturbed, Midway, Structure, Begun, AddedSteps
  <2>2. /\ sending' = sending /\ diaHash' = diaHash \ {r}
        /\ running' = running \ {waitRespTimerId[r]}
        /\ \A q \in Requests : q # r => waitRespTimerId'[q] = waitRespTimerId[q]
        /\ notifyApp(r)
    BY <1>7 DEF onMsg, Ended, stopTimer
  <2> QED
    BY <2>1, <2>2, NotifyOnce
<1>8. ASSUME NEW r \in Requests, onUnexpected(r) PROVE Settled'
  BY <1>8 DEF onUnexpected
<1>9. ASSUME NEW r \in Requests, onTimeout(r) PROVE Settled'
  <2> DEFINE b == pDiaHashData[r]
  <2>1. /\ b \in diaHash /\ b \in Requests /\ waitRespTimerId[b] = r
        /\ sending' = sending /\ waitRespTimerId' = waitRespTimerId
        /\ running' = running \ {r}
        /\ diaHash' = IF b \in Listens THEN diaHash \ {b} ELSE diaHash
        /\ notifyApp(b)
    BY <1>9 DEF onTimeout, Expires, ForIts
  <2>2. sending[b] = "returned"
    BY <1>9, <2>1 DEF onTimeout, Expires, Undisturbed, Midway, Structure, Begun, AddedSteps
  <2> HIDE DEF b
  <2>3. CASE b \in Listens
    BY <2>1, <2>2, <2>3, NotifyOnce
  <2>4. CASE b \notin Listens
    BY <2>1, <2>2, <2>4, NotifyOnce
  <2> QED
    BY <2>3, <2>4
<1>10. ASSUME NEW r \in Requests, onTimeoutIgnored(r) PROVE Settled'
  BY <1>10 DEF onTimeoutIgnored, Expires
<1>11. CASE UNCHANGED reqVars
  BY <1>11 DEF reqVars
<1> QED
  BY <1>0, <1>1, <1>2, <1>3, <1>4, <1>5, <1>6, <1>7, <1>8, <1>9, <1>10, <1>11, NoneFreed
  DEF Next, Send, Expire

\* Only the two handlers that end a request in the hash call the application.
LEMMA StepAtMostOnce == IInv /\ [Next]_reqVars => AtMostOnce'
<1> SUFFICES ASSUME TypeOK, Structure, Settled, AtMostOnce, ~threaded, [Next]_reqVars,
                    NEW q \in Requests
             PROVE  notified'[q] <= 1
  BY ThreadedKept DEF IInv, AtMostOnce
<1>1. ASSUME NEW b \in diaHash, notifyApp(b) PROVE notified'[q] <= 1
  <2>1. b \in Requests /\ ~(notified[b] > 0)
    BY DEF Settled, TypeOK
  <2> QED
    BY <1>1, <2>1, NotifyOnce DEF TypeOK, AtMostOnce, MaxCalls
<1>2. ASSUME NEW r \in Requests, onMsg(r) \/ onTimeout(r) PROVE notified'[q] <= 1
  BY <1>1, <1>2 DEF onMsg, Ended, onTimeout
<1>3. ASSUME NEW r \in Requests,
             Send(r) \/ Answer(r) \/ Lose(r) \/ onUnexpected(r) \/ onTimeoutIgnored(r)
      PROVE  UNCHANGED notified
  BY <1>3 DEF Send, begin, refuse, transport_send, addUserData, startTimer, Answer, Lose,
              onUnexpected, onTimeoutIgnored
<1>4. CASE UNCHANGED reqVars
  BY <1>4 DEF reqVars, AtMostOnce
<1> QED
  BY <1>2, <1>3, <1>4, NoneFreed DEF Next, Expire, AtMostOnce

LEMMA StepIInv == IInv /\ [Next]_reqVars => IInv'
BY StepTypeOK, StepStructure, StepAccounted, StepSettled, StepAtMostOnce DEF IInv

\* IInv is an invariant.
THEOREM Invariance == Spec => []IInv
BY InitIInv, StepIInv, PTL DEF Spec

\* The variables keep their types, for any requests and any number of answers.
THEOREM TypeCorrect == Spec => []TypeOK
<1>1. IInv => TypeOK
  BY DEF IInv
<1> QED
  BY <1>1, Invariance, PTL

\* With one thread the application hears of a request once, whatever answers come
\* and whenever its timer expires (dia_onTimeout and diaMgr_onMsg end it for each
\* other).
THEOREM HeardOnce == Spec => []AtMostOnce
<1>1. IInv => AtMostOnce
  BY DEF IInv
<1> QED
  BY <1>1, Invariance, PTL

\* With any threads, an expiry that comes after its timer was stopped ends no request,
\* also when the hash data of another request stands where its own was.
THEOREM LateExpiriesRefused == Spec => []LateExpiryIsRefused
<1>1. IInv => LateExpiryIsRefused
  BY DEF IInv, Structure
<1> QED
  BY <1>1, Invariance, PTL

\* With any threads, a request that waits and is listened to has a timer whose expiry
\* will be taken for its own, or is about to get it, whatever sender writes its timer id
\* into hash data that is no longer its own.
THEOREM PendingAreTimed == Spec => []PendingIsTimed
<1>1. IInv => PendingIsTimed
  BY DEF IInv, Structure
<1> QED
  BY <1>1, Invariance, PTL

\* With one thread, a timer runs only for a request that waits.
THEOREM TimersMatchHash == Spec => []TimedIsPending
<1>1. IInv => TimedIsPending
  BY DEF IInv, Settled, TimedIsPending, TypeOK
<1> QED
  BY <1>1, Invariance, PTL
=============================================================================
