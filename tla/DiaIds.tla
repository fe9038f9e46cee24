------------------------------- MODULE DiaIds -------------------------------
(***************************************************************************)
(* The identifiers of a request, put together with the requests of         *)
(* DiaReqMgr: its Session-Id, under which it waits in diaHash              *)
(* (diaAvp_encodeSessionId of common/src/diaCommonAvpEncode.c), and the    *)
(* hop-by-hop id of its header (diaMsg_encodeHdr of common/src/diaMsg.c).  *)
(* A Session-Id is the host, the clock and a counter; two threads may read *)
(* the same clock, so only the counter is kept of it here.                 *)
(***************************************************************************)
EXTENDS DiaReqMgr

CONSTANT IdMod     \* hop-by-hop ids are 0..IdMod-1; 2^32 in the code

ASSUME IdModAssumption == IdMod \in Nat \ {0}

VARIABLES
  build,          \* how far the encoding of each request is
  optionalValue,  \* the counter of Session-Ids; not wrapped, as 2^32 sends take seconds
  printed,        \* the counter in the Session-Id of each request
  h2hId,          \* the last hop-by-hop id
  h2h,            \* the hop-by-hop id of each request
  wrapped         \* h2hId has become 0, which reads as never set

idVars == <<build, optionalValue, printed, h2hId, h2h, wrapped>>
idsVars == <<reqVars, idVars>>

Builds == {"start", "counted", "printed", "numbered"}
Ids == 0..(IdMod - 1)

IdsTypeOK ==
  /\ build \in [Requests -> Builds]
  /\ optionalValue \in Nat
  /\ printed \in [Requests -> Nat]
  /\ h2hId \in Ids
  /\ h2h \in [Requests -> Ids]
  /\ wrapped \in BOOLEAN

Builds_on(r, from, to) ==
  /\ sending[r] = "building" /\ build[r] = from
  /\ build' = [build EXCEPT ![r] = to]
  /\ UNCHANGED reqVars

(***************************************************************************)
(* diaAvp_encodeSessionId                                                  *)
(***************************************************************************)
encodeSessionId_count_Still(r) ==
  /\ Builds_on(r, "start", "counted")
  /\ UNCHANGED <<optionalValue, printed, h2hId, h2h, wrapped>>

\* With ovMutex held: value = optionalValue++.
encodeSessionId_count(r) ==
  /\ Builds_on(r, "start", "counted")
  /\ optionalValue' = optionalValue + 1
  /\ UNCHANGED <<printed, h2hId, h2h, wrapped>>

\* With ovMutex released optionalValue is printed, not the value that was taken.
encodeSessionId_print(r) ==
  /\ Builds_on(r, "counted", "printed")
  /\ printed' = [printed EXCEPT ![r] = optionalValue]
  /\ UNCHANGED <<optionalValue, h2hId, h2h, wrapped>>

(***************************************************************************)
(* diaMsg_encodeHdr                                                        *)
(***************************************************************************)
\* diaMgr_getInitH2hId returns nothing: what is read is whatever the register holds.
InitH2hId == Ids

nextH2hId(id) == IF id + 1 = IdMod THEN 0 ELSE id + 1

takeH2hId_Reseeds ==
  /\ \E id \in (IF h2hId # 0 THEN InitH2hId ELSE {h2hId}) : h2hId' = nextH2hId(id)
  /\ wrapped' = (wrapped \/ h2hId' = 0)

\* With h2hMutex held.
takeH2hId ==
  /\ \E id \in (IF h2hId = 0 THEN InitH2hId ELSE {h2hId}) : h2hId' = nextH2hId(id)
  /\ wrapped' = (wrapped \/ h2hId' = 0)

encodeHdr(r) ==
  /\ Builds_on(r, "printed", "numbered")
  /\ takeH2hId
  /\ h2h' = [h2h EXCEPT ![r] = h2hId']
  /\ UNCHANGED <<optionalValue, printed>>

\* The stack's own CER and DWR take their ids from the same counter, in any thread.
\* Bound: only while an id that is still to be taken can tell.
encodeHdr_own ==
  /\ ~wrapped /\ \E r \in Requests : sending[r] \in {"new", "building"}
  /\ takeH2hId
  /\ UNCHANGED <<reqVars, build, optionalValue, printed, h2h>>

-----------------------------------------------------------------------------
\* transport_send is called with the whole message.
SendIds(r) ==
  \/ encodeSessionId_count(r)
  \/ encodeSessionId_print(r)
  \/ encodeHdr(r)
  \/ transport_send(r) /\ build[r] = "numbered" /\ UNCHANGED idVars
  \/ (begin(r) \/ refuse(r) \/ addUserData(r) \/ startTimer(r)) /\ UNCHANGED idVars

HasId(r) == build[r] \in {"printed", "numbered"}
SameId(q, r) == HasId(q) /\ HasId(r) /\ printed[q] = printed[r]

\* diaMgr_onMsg, when two requests have one Session-Id: the hash gives the entry of
\* either, and the answer to q may end r.
onMsg_same(q, r) == q # r /\ SameId(q, r) /\ Receives(q) /\ Ended(r)

onUnexpected_ids(q) ==
  /\ \A r \in diaHash : ~SameId(q, r)
  /\ onUnexpected(q)

IdsInit ==
  /\ Init
  /\ build = [r \in Requests |-> "start"]
  /\ optionalValue = 0
  /\ printed = [r \in Requests |-> 0]
  /\ h2hId = 0
  /\ h2h = [r \in Requests |-> 0]
  /\ wrapped = FALSE

Handled(r) ==
  /\ \/ Answer(r) \/ Lose(r) \/ onMsg(r) \/ onUnexpected_ids(r) \/ Expire(r)
     \/ \E q \in Requests : onMsg_same(q, r)
  /\ UNCHANGED idVars

IdsNext ==
  /\ ~crashed
  /\ \/ \E r \in Requests : SendIds(r) \/ Handled(r)
     \/ encodeHdr_own

IdsSpec == IdsInit /\ [][IdsNext]_idsVars

\* A send that has begun ends, and timers fire.
IdsFairSpec ==
  /\ IdsSpec
  /\ \A r \in Requests :
       /\ WF_idsVars(~crashed /\ Midway(r) /\ SendIds(r))
       /\ WF_idsVars(~crashed /\ Expire(r) /\ UNCHANGED idVars)

-----------------------------------------------------------------------------
\* While the application sends from one thread, no two requests have the same
\* Session-Id, so an answer cannot end the request of another, although the number
\* printed is not the one that was taken.
SessionIdsDiffer ==
  ~threaded => \A q, r \in Requests : q # r => ~SameId(q, r)

\* Until h2hId wraps to 0 no two requests have the same hop-by-hop id, whatever
\* the first one is and however many threads encode.
H2hIdsDiffer ==
  ~wrapped =>
    \A q, r \in Requests :
      q # r /\ build[q] = "numbered" /\ build[r] = "numbered" => h2h[q] # h2h[r]
=============================================================================
