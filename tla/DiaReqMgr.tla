----------------------------- MODULE DiaReqMgr -----------------------------
(***************************************************************************)
(* The pending application requests of common/src/diaMgr.c: diaSendAppMsg  *)
(* sends a request, then adds it to diaHash under its Session-Id, then     *)
(* starts its timer; diaMgr_onMsg ends it with the answer of the peer,     *)
(* dia_onTimeout without one. Messages and expiries are handled one at a   *)
(* time. The application may send from a thread of its own (the message    *)
(* encoders lock for it, diaHash does not), and then an answer or an       *)
(* expiry comes between any two steps of building and sending a request.   *)
(***************************************************************************)
EXTENDS Naturals, FiniteSets

CONSTANTS
  Requests,     \* each with a Session-Id of its own
  Listens,      \* those sent with an appCallback; diaNotifyApp is never set
  LateExpiry,   \* a timer that is stopped may have expired already
  NoTimer,      \* no timer id
  MaxAnswers    \* bound: answers the peer gives to one request

ASSUME ReqAssumption ==
  /\ Listens \subseteq Requests
  /\ LateExpiry \in BOOLEAN
  /\ NoTimer \notin Requests
  /\ MaxAnswers \in Nat

VARIABLES
  threaded,   \* the application sends from its own threads; never changes
  sending,    \* how far diaSendAppMsg is with each request
  diaHash,    \* the requests that are in the hash
  running,    \* requests whose wait-for-response timer runs
  late,       \* requests whose timer was stopped too late: it has expired
  pDiaHashData,    \* whose hash data stands where that of each request was put
  waitRespTimerId, \* the timer id in the hash data of each request
  coming,     \* answers on their way, of each request
  given,      \* answers the peer has given, of each request
  notified,   \* calls of the application's callback, of each request
  crashed     \* freed memory was used and the process died of it

hashData == <<pDiaHashData, waitRespTimerId>>
timers == <<running, late>>
reqVars == <<threaded, sending, diaHash, timers, hashData, coming, given, notified, crashed>>

Steps == {"new", "building", "refused", "sent", "added", "returned"}

\* The bound on notified: more than two calls look like two.
MaxCalls == 2

TypeOK ==
  /\ threaded \in BOOLEAN
  /\ sending \in [Requests -> Steps]
  /\ diaHash \subseteq Requests
  /\ running \subseteq Requests
  /\ late \subseteq Requests
  /\ pDiaHashData \in [Requests -> Requests]
  /\ waitRespTimerId \in [Requests -> Requests \cup {NoTimer}]
  /\ coming \in [Requests -> 0..MaxAnswers]
  /\ given \in [Requests -> 0..MaxAnswers]
  /\ notified \in [Requests -> 0..MaxCalls]
  /\ crashed \in BOOLEAN

\* Without a thread of its own the application is not left in the middle of a send.
Midway(r) == sending[r] \in {"building", "sent", "added"}
Undisturbed == threaded \/ \A r \in Requests : ~Midway(r)

\* The application's callback, if there is one.
notifyApp_Never(r) == UNCHANGED notified

notifyApp(r) ==
  notified' = IF r \in Listens /\ notified[r] < MaxCalls
                THEN [notified EXCEPT ![r] = @ + 1] ELSE notified

(***************************************************************************)
(* diaSendAppMsg                                                           *)
(***************************************************************************)
\* diaCx_sendUAR, diaCx_sendLIR or diaCx_sendSAR has a connection and builds the
\* request.
begin(r) ==
  /\ sending[r] = "new" /\ Undisturbed
  /\ sending' = [sending EXCEPT ![r] = "building"]
  /\ UNCHANGED <<threaded, diaHash, timers, hashData, coming, given, notified, crashed>>

\* No active connection, an AVP that cannot be encoded, or a send status other than
\* TCP_OK: the caller is told.
refuse(r) ==
  /\ sending[r] = "building" \/ (sending[r] = "new" /\ Undisturbed)
  /\ sending' = [sending EXCEPT ![r] = "refused"]
  /\ UNCHANGED <<threaded, diaHash, timers, hashData, coming, given, notified, crashed>>

transport_send(r) ==
  /\ sending[r] = "building"
  /\ sending' = [sending EXCEPT ![r] = "sent"]
  /\ UNCHANGED <<threaded, diaHash, timers, hashData, coming, given, notified, crashed>>

\* Freed hash data that a sender or a timer still has the address of.
Freed ==
  {pDiaHashData[q] : q \in {q \in Requests : q \in running \cup late \/ sending[q] = "added"}}
    \ diaHash

\* The new hash data, and with it the hash element, is put where there was none or where
\* that of an ended request was: its timer id is not initialized, so it keeps what stands
\* there, and whoever has the old address has this one.
addUserData(r) ==
  /\ sending[r] = "sent"
  /\ sending' = [sending EXCEPT ![r] = "added"]
  /\ diaHash' = diaHash \cup {r}
  /\ \/ UNCHANGED hashData
     \/ \E b \in Freed :
          /\ pDiaHashData' = [q \in Requests |-> IF pDiaHashData[q] = b THEN r
                                                                     ELSE pDiaHashData[q]]
          /\ waitRespTimerId' = [waitRespTimerId EXCEPT ![r] = waitRespTimerId[b]]
  /\ UNCHANGED <<threaded, timers, coming, given, notified, crashed>>

startTimer_Skipped(r) ==
  /\ sending[r] = "added"
  /\ sending' = [sending EXCEPT ![r] = "returned"]
  /\ UNCHANGED <<threaded, diaHash, timers, hashData, coming, given, notified, crashed>>

\* The timer is started and its id written whether or not the answer has come first:
\* then the data is freed, or that of another request. (Harm done to memory that is no
\* hash data shows as a crash here and not later.)
startTimer(r) ==
  LET b == pDiaHashData[r] IN
  /\ sending[r] = "added"
  /\ sending' = [sending EXCEPT ![r] = "returned"]
  /\ running' = running \cup {r}
  /\ waitRespTimerId' = [waitRespTimerId EXCEPT ![b] = r]
  /\ IF b \in diaHash THEN UNCHANGED crashed ELSE crashed' \in BOOLEAN
  /\ UNCHANGED <<threaded, diaHash, late, pDiaHashData, coming, given, notified>>

(***************************************************************************)
(* The peer, and the way back                                              *)
(***************************************************************************)
Answer(r) ==
  /\ sending[r] \notin {"new", "building", "refused"}
  /\ given[r] < MaxAnswers
  /\ given' = [given EXCEPT ![r] = @ + 1]
  /\ coming' = [coming EXCEPT ![r] = @ + 1]
  /\ UNCHANGED <<threaded, sending, diaHash, timers, hashData, notified, crashed>>

\* The connection broke, or the answer does not begin with its Session-Id.
Lose(r) ==
  /\ coming[r] > 0
  /\ coming' = [coming EXCEPT ![r] = @ - 1]
  /\ UNCHANGED <<threaded, sending, diaHash, timers, hashData, given, notified, crashed>>

(***************************************************************************)
(* diaMgr_onMsg, for an answer                                             *)
(***************************************************************************)
Receives_Spurious(r) == Undisturbed /\ coming' = [coming EXCEPT ![r] = @ - 1]

Receives(r) == coming[r] > 0 /\ Undisturbed /\ coming' = [coming EXCEPT ![r] = @ - 1]

\* There is no request record: ignored.
onUnexpected(r) ==
  /\ Receives(r) /\ r \notin diaHash
  /\ UNCHANGED <<threaded, sending, diaHash, timers, hashData, given, notified, crashed>>

stopTimer_Skipped(r) == UNCHANGED <<timers, waitRespTimerId>>

stopTimer_IdKept(r) ==
  /\ running' = running \ {waitRespTimerId[r]}
  /\ late' = IF LateExpiry THEN late \cup (running \cap {waitRespTimerId[r]}) ELSE late
  /\ UNCHANGED waitRespTimerId

\* A timer that has expired and been handled is not stopped again; the id is cleared.
stopTimer(r) ==
  LET id == waitRespTimerId[r] IN
  /\ running' = running \ {id}
  /\ \/ UNCHANGED late
     \/ LateExpiry /\ id \in running /\ late' = late \cup {id}
  /\ waitRespTimerId' = [waitRespTimerId EXCEPT ![r] = NoTimer]

\* Before the timer is started its id is uninitialized: stopping it may do harm.
Ended(r) ==
  /\ r \in diaHash
  /\ stopTimer(r)
  /\ notifyApp(r)
  /\ diaHash' = diaHash \ {r}
  /\ IF sending[r] = "added" THEN crashed' \in BOOLEAN ELSE UNCHANGED crashed
  /\ UNCHANGED <<threaded, sending, pDiaHashData, given>>

onMsg(r) == Receives(r) /\ Ended(r)

(***************************************************************************)
(* dia_onTimeout                                                           *)
(***************************************************************************)
\* The expiry of r's timer is handled: it goes by the hash data that stands where that
\* of r was put, and by the timer id in it.
Expires(r) ==
  /\ r \in running \cup late /\ Undisturbed
  /\ running' = running \ {r} /\ late' = late \ {r}

ForIts(r) == waitRespTimerId[pDiaHashData[r]] = r

onTimeout_Keeps(r) ==
  /\ Expires(r) /\ ForIts(r) /\ pDiaHashData[r] \in diaHash
  /\ notifyApp(pDiaHashData[r])
  /\ UNCHANGED <<threaded, sending, diaHash, hashData, coming, given, crashed>>

\* Without anyone to notify it returns before it deletes the hash node.
onTimeout(r) ==
  LET b == pDiaHashData[r] IN
  /\ Expires(r) /\ ForIts(r) /\ b \in diaHash
  /\ notifyApp(b)
  /\ diaHash' = IF b \in Listens THEN diaHash \ {b} ELSE diaHash
  /\ UNCHANGED <<threaded, sending, hashData, coming, given, crashed>>

\* The hash data has another timer id, or none.
onTimeoutIgnored(r) ==
  /\ Expires(r) /\ ~ForIts(r)
  /\ IF pDiaHashData[r] \in diaHash THEN UNCHANGED crashed ELSE crashed' \in BOOLEAN
  /\ UNCHANGED <<threaded, sending, diaHash, hashData, coming, given, notified>>

\* The hash data was freed before its timer was started. What is freed may be anything
\* by now: the expiry is ignored, or taken for the request's own, or kills the process.
onTimeoutFreed(r) ==
  /\ Expires(r) /\ ForIts(r) /\ pDiaHashData[r] \notin diaHash
  /\ UNCHANGED notified \/ notifyApp(pDiaHashData[r])
  /\ crashed' \in BOOLEAN
  /\ UNCHANGED <<threaded, sending, diaHash, hashData, coming, given>>

-----------------------------------------------------------------------------
Init ==
  /\ threaded \in BOOLEAN
  /\ sending = [r \in Requests |-> "new"]
  /\ diaHash = {}
  /\ running = {}
  /\ late = {}
  /\ pDiaHashData = [r \in Requests |-> r]
  /\ waitRespTimerId = [r \in Requests |-> NoTimer]
  /\ coming = [r \in Requests |-> 0]
  /\ given = [r \in Requests |-> 0]
  /\ notified = [r \in Requests |-> 0]
  /\ crashed = FALSE

Send(r) == begin(r) \/ refuse(r) \/ transport_send(r) \/ addUserData(r) \/ startTimer(r)
Expire(r) == onTimeout(r) \/ onTimeoutIgnored(r) \/ onTimeoutFreed(r)

Next ==
  /\ ~crashed
  /\ \E r \in Requests :
       Send(r) \/ Answer(r) \/ Lose(r) \/ onMsg(r) \/ onUnexpected(r) \/ Expire(r)

Spec == Init /\ [][Next]_reqVars

\* A send that has begun ends, and timers fire.
FairSpec ==
  /\ Spec
  /\ \A r \in Requests :
       /\ WF_reqVars(~crashed /\ Midway(r) /\ Send(r))
       /\ WF_reqVars(~crashed /\ Expire(r))

-----------------------------------------------------------------------------
\* The application hears of a request once: of its answer or of its timeout, never
\* of both and never twice, however many answers come and whenever the timer fires.
AtMostOnce == ~threaded => \A r \in Requests : notified[r] <= 1

\* An expiry that comes after its timer was stopped finds hash data with another timer
\* id or none, wherever that data stands by now, so it ends no request.
LateExpiryIsRefused == \A r \in late : ~ForIts(r)

\* A request that waits in the hash will be ended: a timer runs whose expiry will be
\* taken for its own, or the sender is about to start it; only one that nobody listens
\* to may stay. The timer may be that of an ended request, whose sender wrote its id
\* into the data.
PendingIsTimed ==
  \A r \in Listens \cap diaHash :
    \/ sending[r] = "added"
    \/ \E q \in running : pDiaHashData[q] = r /\ ForIts(q)

\* With one thread a timer runs only for a request that waits. (With threads the timer
\* of a request whose answer came first runs for nothing.)
TimedIsPending == ~threaded => running \subseteq diaHash

\* Every request the stack accepts is reported back to the application: by its
\* answer or by its timeout, also when the answer overtakes the hash entry.
AlwaysNotified ==
  \A r \in Listens : sending[r] = "sent" ~> notified[r] > 0 \/ crashed

\* A request that somebody listens to does not stay in the hash.
HashIsEmptied == \A r \in Listens : r \in diaHash ~> r \notin diaHash \/ crashed
=============================================================================
