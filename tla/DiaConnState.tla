---------------------------- MODULE DiaConnState ----------------------------
(***************************************************************************)
(* The peer connection state machine of common/src/diaConnState.c: one     *)
(* diaConnBlock_t (a dcb), every message diaConnState_onMsg dispatches to  *)
(* it, the four timer slots it owns, the list its element is in, and the   *)
(* transport and the peer that drive it.                                   *)
(*                                                                         *)
(* A handler runs to completion (nothing in the file blocks), so there is  *)
(* one action per state and message. A message a state ignores changes     *)
(* nothing and is left out, unless it is a transport report or an expiry,  *)
(* which change the environment.                                           *)
(***************************************************************************)
EXTENDS Naturals

CONSTANTS
  IsServer,         \* pConnProv->isServer, the role the peer is provisioned in
  UserStops,        \* the user may disable and enable the connection
  PeerDisconnects,  \* the peer may send a DPR
  UnsolicitedDwa,   \* the peer may send a DWA nobody asked for
  LateExpiry,       \* a timer that is stopped may have expired already
  RestartMayFail,   \* restarting an expired timer may give no timer
  StartStatus,      \* what transport_send may answer to a connect request
  MaxDwr            \* bound: more unanswered DWRs are counted as MaxDwr

ASSUME ConnStateAssumption ==
  /\ IsServer \in BOOLEAN
  /\ UserStops \in BOOLEAN
  /\ PeerDisconnects \in BOOLEAN
  /\ UnsolicitedDwa \in BOOLEAN
  /\ LateExpiry \in BOOLEAN
  /\ RestartMayFail \in BOOLEAN
  /\ StartStatus \subseteq {"TCP_CONN", "TCP_OK", "FAIL"}
  /\ MaxDwr \in Nat \ {0}

VARIABLES
  connState,   \* pDcb->connState, or "CRASHED" once the process has died
  isWaitDwa,   \* pDcb->isWaitDwa
  numDwa,      \* pDcb->numDwa
  timer,       \* the slots timerId_* of the dcb
  stray,       \* an expiry may come that no slot names any more
  listed,      \* the peer list of its group that holds the dcb
  tp,          \* the transport of this peer, as far as it has reported
  dwrOut       \* DWRs of this TCP connection the peer has not answered

vars == <<connState, isWaitDwa, numDwa, timer, stray, listed, tp, dwrOut>>
watch == <<isWaitDwa, numDwa>>

(***************************************************************************)
(* A slot is "none" (the field is 0), "running", or "stale": the field     *)
(* holds the id of a timer that has expired. "closing" is a connection the *)
(* stack has closed whose end the transport has yet to report.             *)
(***************************************************************************)
ConnStates == {"CLIENT_CLOSED", "CLIENT_WAIT_CEA", "SERVER_CLOSED", "OPEN",
               "SUSPECT", "DOWN", "REOPEN", "CLOSING"}
Slots == {"tpWaitConn", "tpRetryConn", "watchdog", "twt"}
SlotValues == {"none", "running", "stale"}
TpStates == {"idle", "connecting", "up", "closing"}

TypeOK ==
  /\ connState \in ConnStates \cup {"CRASHED"}
  /\ isWaitDwa \in BOOLEAN
  /\ numDwa \in 0..2
  /\ timer \in [Slots -> SlotValues]
  /\ stray \in BOOLEAN
  /\ listed \in {"waiting", "active"}
  /\ tp \in TpStates
  /\ dwrOut \in 0..MaxDwr

(***************************************************************************)
(* Definitions named X_Y change X the way a bug in it would; the runs'     *)
(* mutants use them.                                                       *)
(***************************************************************************)
\* diaConnAddNewPeer never copies the provisioned role into pDcb->isServer, and
\* the block is zero-allocated.
isServer == FALSE

\* osStartTimer, osStopTimer (which answers 0) and osRestartTimer on a slot.
Started(t, s) == [t EXCEPT ![s] = "running"]
Cleared(t, s) == [t EXCEPT ![s] = "none"]
Restarted_Stops(t, s) == {Cleared(t, s)}

Restarted(t, s) ==
  CASE t[s] = "running" -> {t}
    [] t[s] = "stale"   -> {Started(t, s)}
                             \cup (IF RestartMayFail THEN {Cleared(t, s)} ELSE {})
    [] t[s] = "none"    -> {t}
\* "if(slot) restart else start"
RestartedOrStarted(t, s) ==
  IF t[s] = "none" THEN {Started(t, s)} ELSE Restarted(t, s)

\* Overwriting or clearing the id of a running timer leaves an expiry to come
\* that no slot names; so may stopping it, under LateExpiry.
Strays(t, lost, stopped) ==
  {stray \/ \E s \in lost : t[s] = "running"}
    \cup (IF LateExpiry /\ \E s \in stopped : t[s] = "running" THEN {TRUE} ELSE {})

(***************************************************************************)
(* State entry (diaConnStateEnterState) with the list moves of             *)
(* diaconnMgr_notifyFailback and diaconnMgr_notifyFailover.                *)
(***************************************************************************)
EnterState(s) ==
  /\ connState' = s
  /\ listed' = IF s = "OPEN" /\ connState # "OPEN" THEN "active" ELSE listed

FailoverTo_KeepsList(s) == EnterState(s)

FailoverTo(s) == connState' = s /\ listed' = "waiting"

ClosedState == IF isServer THEN "SERVER_CLOSED" ELSE "CLIENT_CLOSED"

(***************************************************************************)
(* What reaches the handlers, and what they ask of the transport.          *)
(***************************************************************************)
\* TRANSPORT_READY: our own attempt succeeded, or the peer of a server dialled.
TransportReady ==
  /\ \/ tp = "connecting"
     \/ IsServer /\ tp \in {"idle", "closing"}
  /\ tp' = "up"

\* TRANSPORT_DOWN: the attempt failed, the connection broke, or the end of a
\* connection we closed is reported.
TransportDown == tp # "idle" /\ tp' = "idle" /\ UNCHANGED dwrOut

\* A message of the peer other than a DWA, and a DWA.
Heard == tp = "up" /\ UNCHANGED <<tp, dwrOut>>
HeardDwa ==
  /\ tp = "up" /\ UNCHANGED tp
  /\ dwrOut > 0 \/ UnsolicitedDwa
  /\ dwrOut' = IF dwrOut > 0 THEN dwrOut - 1 ELSE 0

SendDwr_NotSent == UNCHANGED dwrOut

SendDwr == dwrOut' = IF dwrOut < MaxDwr THEN dwrOut + 1 ELSE MaxDwr

\* diaConnMgr_startConn and the status transport_send answers. "TCP_OK" stands
\* for every status the callers have no case for: a report is still to come.
startConn(status) == tp' = IF status = "FAIL" THEN tp ELSE "connecting"

stopConn_Forgotten == UNCHANGED tp

\* diaConnMgr_stopConn: whether the transport reports the close is left open.
stopConn ==
  IF tp \in {"connecting", "up"} THEN tp' \in {"idle", "closing"} ELSE UNCHANGED tp

\* The expiry of slot id, or of a timer no slot names ("stray").
Expires(id) == IF id = "stray" THEN stray ELSE timer[id] = "running"
AfterExpiry(id) == IF id = "stray" THEN timer ELSE [timer EXCEPT ![id] = "stale"]
Expiries == Slots \cup {"stray"}
StraysAfter(id, lost) ==
  Strays(AfterExpiry(id), lost, {}) \cup (IF id = "stray" THEN BOOLEAN ELSE {})
IgnoreExpiry(id) ==
  /\ timer' = AfterExpiry(id)
  /\ stray' \in StraysAfter(id, {})
  /\ UNCHANGED <<connState, watch, listed, tp, dwrOut>>

(***************************************************************************)
(* CLIENT_CLOSED                                                           *)
(***************************************************************************)
\* Comparing a transport status with OS_STATUS_OK may go either way.
ClientForced(t) ==
  /\ stray' \in Strays(t, {}, {"tpRetryConn"})
  /\ IF t["tpWaitConn"] # "none"
       THEN timer' = Cleared(t, "tpRetryConn") /\ UNCHANGED tp
       ELSE \E status \in StartStatus, s \in {"tpWaitConn", "tpRetryConn"} :
              /\ startConn(status)
              /\ timer' = Started(Cleared(t, "tpRetryConn"), s)

ClientClosedForce ==
  /\ UserStops
  /\ connState = "CLIENT_CLOSED"
  /\ ClientForced(timer)
  /\ UNCHANGED <<connState, watch, listed, dwrOut>>

ClientClosedReady_NoTimers ==
  /\ connState = "CLIENT_CLOSED"
  /\ TransportReady
  /\ EnterState("CLIENT_WAIT_CEA")
  /\ dwrOut' = 0
  /\ UNCHANGED <<watch, timer, stray>>

ClientClosedReady ==
  /\ connState = "CLIENT_CLOSED"
  /\ TransportReady
  /\ timer' = Started(Cleared(Cleared(timer, "tpWaitConn"), "tpRetryConn"), "twt")
  /\ stray' \in Strays(timer, {"twt"}, {"tpWaitConn", "tpRetryConn"})
  /\ EnterState("CLIENT_WAIT_CEA")
  /\ dwrOut' = 0
  /\ UNCHANGED watch

ClientClosedDown_NoRetry ==
  /\ connState = "CLIENT_CLOSED"
  /\ TransportDown
  /\ timer' = Cleared(timer, "tpWaitConn")
  /\ stray' \in Strays(timer, {}, {"tpWaitConn"})
  /\ UNCHANGED <<connState, watch, listed>>

ClientClosedDown ==
  /\ connState = "CLIENT_CLOSED"
  /\ TransportDown
  /\ timer' = LET t == Cleared(timer, "tpWaitConn")
              IN  IF t["tpRetryConn"] = "none" THEN Started(t, "tpRetryConn") ELSE t
  /\ stray' \in Strays(timer, {}, {"tpWaitConn"})
  /\ UNCHANGED <<connState, watch, listed>>

ClientClosedStop ==
  /\ UserStops
  /\ connState = "CLIENT_CLOSED"
  /\ timer' = Cleared(Cleared(timer, "tpRetryConn"), "tpWaitConn")
  /\ stray' \in Strays(timer, {}, {"tpRetryConn", "tpWaitConn"})
  /\ IF timer["tpWaitConn"] # "none" THEN stopConn ELSE UNCHANGED tp
  /\ UNCHANGED <<connState, watch, listed, dwrOut>>

\* "if(timerId = pDcb->timerId_x)" assigns: it asks whether the slot is set, not
\* whether the slot expired.
ClientClosedTimeout(id) ==
  /\ connState = "CLIENT_CLOSED"
  /\ Expires(id)
  /\ LET t == AfterExpiry(id) IN
       \/ /\ t["tpWaitConn"] # "none"
          /\ timer' = Started(Cleared(t, "tpWaitConn"), "tpRetryConn")
          /\ stray' \in StraysAfter(id, {"tpWaitConn", "tpRetryConn"})
          /\ UNCHANGED tp
       \/ /\ t["tpWaitConn"] = "none" /\ t["tpRetryConn"] # "none"
          /\ \E status \in StartStatus :
               /\ startConn(status)
               /\ CASE status = "TCP_CONN" ->
                         /\ timer' = Started(Cleared(t, "tpRetryConn"), "tpWaitConn")
                         /\ stray' \in StraysAfter(id, {"tpRetryConn"})
                    [] status = "FAIL" ->
                         /\ timer' = Started(t, "tpRetryConn")
                         /\ stray' \in StraysAfter(id, {"tpRetryConn"})
                    [] OTHER ->
                         timer' = t /\ stray' \in StraysAfter(id, {})
       \/ /\ t["tpWaitConn"] = "none" /\ t["tpRetryConn"] = "none"
          /\ timer' = Started(t, "tpRetryConn")
          /\ stray' \in StraysAfter(id, {})
          /\ UNCHANGED tp
  /\ UNCHANGED <<connState, watch, listed, dwrOut>>

(***************************************************************************)
(* SERVER_CLOSED: FORCE_CONN does nothing, the report of a connection      *)
(* neither. It is only the initial state, so no timer is set in it.        *)
(***************************************************************************)
ServerClosedCer ==
  /\ connState = "SERVER_CLOSED"
  /\ Heard
  /\ timer' = Started(timer, "watchdog")
  /\ stray' \in Strays(timer, {"watchdog"}, {})
  /\ isWaitDwa' = FALSE
  /\ EnterState("OPEN")
  /\ UNCHANGED numDwa

ServerClosedStop ==
  /\ UserStops
  /\ connState = "SERVER_CLOSED"
  /\ stopConn
  /\ UNCHANGED <<connState, watch, timer, stray, listed, dwrOut>>

(***************************************************************************)
(* CLIENT_WAIT_CEA                                                         *)
(***************************************************************************)
WaitCeaCea ==
  /\ connState = "CLIENT_WAIT_CEA"
  /\ tp = "up"
  /\ stray' \in Strays(timer, {}, {"twt"})
  /\ \/ /\ timer' = Started(Cleared(timer, "twt"), "watchdog")
        /\ isWaitDwa' = FALSE
        /\ EnterState("OPEN")
        /\ UNCHANGED tp
     \/ /\ stopConn
        /\ timer' = Started(Cleared(timer, "twt"), "tpRetryConn")
        /\ EnterState("CLIENT_CLOSED")
        /\ UNCHANGED isWaitDwa
  /\ UNCHANGED <<numDwa, dwrOut>>

\* The expired slot twt is not reset; "timerId = pDcb->timerId_twt" again.
WaitCeaTimeout(id) ==
  /\ connState = "CLIENT_WAIT_CEA"
  /\ Expires(id)
  /\ LET t == AfterExpiry(id) IN
       IF t["twt"] # "none"
         THEN /\ stopConn
              /\ timer' = Started(t, "tpRetryConn")
              /\ stray' \in StraysAfter(id, {"tpRetryConn"})
              /\ EnterState(ClosedState)
              /\ UNCHANGED <<watch, dwrOut>>
         ELSE IgnoreExpiry(id)

WaitCeaStop ==
  /\ UserStops
  /\ connState = "CLIENT_WAIT_CEA"
  /\ timer' = Cleared(timer, "twt")
  /\ stray' \in Strays(timer, {}, {"twt"})
  /\ stopConn
  /\ EnterState("OPEN")
  /\ UNCHANGED <<watch, dwrOut>>

\* The code stops the connection here; it has already gone, so that changes nothing.
WaitCeaDown ==
  /\ connState = "CLIENT_WAIT_CEA"
  /\ TransportDown
  /\ timer' = Started(Cleared(timer, "twt"), "tpRetryConn")
  /\ stray' \in Strays(timer, {"tpRetryConn"}, {"twt"})
  /\ EnterState("CLIENT_CLOSED")
  /\ UNCHANGED watch

(***************************************************************************)
(* OPEN                                                                    *)
(***************************************************************************)
\* A DWA, or application traffic that diaMgr_onMsg passes on.
OpenHeard ==
  /\ connState = "OPEN"
  /\ HeardDwa \/ Heard
  /\ timer' \in Restarted(timer, "watchdog")
  /\ isWaitDwa' = FALSE
  /\ UNCHANGED <<connState, numDwa, stray, listed>>

OpenDwr ==
  /\ connState = "OPEN"
  /\ Heard
  /\ timer' \in RestartedOrStarted(timer, "watchdog")
  /\ isWaitDwa' = FALSE
  /\ UNCHANGED <<connState, numDwa, stray, listed>>

OpenTimeout(id) ==
  /\ connState = "OPEN"
  /\ Expires(id)
  /\ \/ /\ id = "watchdog"
        /\ timer' = Started(AfterExpiry(id), "watchdog")
        /\ stray' \in StraysAfter(id, {})
        /\ IF isWaitDwa
             THEN FailoverTo("SUSPECT") /\ isWaitDwa' = FALSE /\ UNCHANGED dwrOut
             ELSE SendDwr /\ isWaitDwa' = TRUE /\ UNCHANGED <<connState, listed>>
        /\ UNCHANGED <<numDwa, tp>>
     \/ id # "watchdog" /\ IgnoreExpiry(id)

\* diaSendCommonMsg builds no DPR and reads through the null buffer (diaMgr.c:252),
\* which an ordinary build does not survive. The read is undefined: that the handler
\* goes on is kept beside it, as the rest of the code is written for it.
LeaveForDisconnect ==
  \/ /\ connState' = "CRASHED"
     /\ UNCHANGED <<watch, timer, stray, listed>>
  \/ /\ timer' = Started(Cleared(timer, "watchdog"), "twt")
     /\ stray' \in Strays(timer, {"twt"}, {"watchdog"})
     /\ isWaitDwa' = FALSE
     /\ EnterState("CLOSING")
     /\ UNCHANGED numDwa

OpenStop ==
  /\ UserStops
  /\ connState = "OPEN"
  /\ LeaveForDisconnect
  /\ UNCHANGED <<tp, dwrOut>>

OpenDpr ==
  /\ PeerDisconnects
  /\ connState = "OPEN"
  /\ Heard
  /\ LeaveForDisconnect

OpenDown ==
  /\ connState = "OPEN"
  /\ TransportDown
  /\ timer' = Started(Cleared(timer, "watchdog"), "watchdog")
  /\ stray' \in Strays(timer, {}, {"watchdog"})
  /\ isWaitDwa' = FALSE
  /\ FailoverTo("DOWN")
  /\ UNCHANGED numDwa

(***************************************************************************)
(* SUSPECT                                                                 *)
(***************************************************************************)
SuspectHeard ==
  /\ connState = "SUSPECT"
  /\ HeardDwa \/ Heard
  /\ timer' \in Restarted(timer, "watchdog")
  /\ isWaitDwa' = FALSE
  /\ EnterState("OPEN")
  /\ UNCHANGED <<numDwa, stray>>

SuspectDown ==
  /\ connState = "SUSPECT"
  /\ TransportDown
  /\ timer' \in RestartedOrStarted(timer, "watchdog")
  /\ EnterState("DOWN")
  /\ UNCHANGED <<watch, stray>>

SuspectStop ==
  /\ UserStops
  /\ connState = "SUSPECT"
  /\ timer' = Cleared(timer, "watchdog")
  /\ stray' \in Strays(timer, {}, {"watchdog"})
  /\ stopConn
  /\ EnterState(ClosedState)
  /\ UNCHANGED <<watch, dwrOut>>

\* "timerId = pDcb->timerId_watchdog": any expiry counts while the slot is set.
SuspectTimeout(id) ==
  /\ connState = "SUSPECT"
  /\ Expires(id)
  /\ LET t == AfterExpiry(id) IN
       IF t["watchdog"] # "none"
         THEN /\ stopConn
              /\ timer' = Started(t, "watchdog")
              /\ stray' \in StraysAfter(id, {"watchdog"})
              /\ EnterState("DOWN")
              /\ UNCHANGED <<watch, dwrOut>>
         ELSE IgnoreExpiry(id)

(***************************************************************************)
(* DOWN: the report of a failed attempt is ignored.                        *)
(***************************************************************************)
DownTimeout(id) ==
  /\ connState = "DOWN"
  /\ Expires(id)
  /\ LET t == AfterExpiry(id) IN
       \/ /\ id \in {"watchdog", "tpWaitConn"}
          /\ IF isServer
               THEN /\ timer' = Cleared(Cleared(t, "watchdog"), "tpWaitConn")
                    /\ stray' \in StraysAfter(id, {"watchdog", "tpWaitConn"})
                    /\ UNCHANGED tp
               ELSE IF id = "tpWaitConn"
                 THEN /\ timer' = Started(Cleared(t, "tpWaitConn"), "watchdog")
                      /\ stray' \in StraysAfter(id, {"watchdog"})
                      /\ UNCHANGED tp
                 ELSE /\ \E status \in StartStatus : startConn(status)
                      /\ timer' = Started(Cleared(t, "watchdog"), "tpWaitConn")
                      /\ stray' \in StraysAfter(id, {"tpWaitConn"})
          /\ UNCHANGED <<connState, watch, listed, dwrOut>>
       \/ id \notin {"watchdog", "tpWaitConn"} /\ IgnoreExpiry(id)

DownReady_NoStop ==
  /\ connState = "DOWN"
  /\ TransportReady
  /\ timer' = Started(Cleared(timer, "tpWaitConn"), "watchdog")
  /\ stray' \in Strays(timer, {"watchdog"}, {"tpWaitConn"})
  /\ dwrOut' = 1 /\ numDwa' = 0 /\ isWaitDwa' = TRUE
  /\ EnterState("REOPEN")

DownReady ==
  /\ connState = "DOWN"
  /\ TransportReady
  /\ timer' = Started(Cleared(timer, "tpWaitConn"), "watchdog")
  /\ stray' \in Strays(timer, {}, {"tpWaitConn", "watchdog"})
  /\ dwrOut' = 1
  /\ numDwa' = 0
  /\ isWaitDwa' = TRUE
  /\ EnterState("REOPEN")

DownStop ==
  /\ UserStops
  /\ connState = "DOWN"
  /\ timer' = Cleared(Cleared(timer, "tpWaitConn"), "watchdog")
  /\ stray' \in Strays(timer, {}, {"tpWaitConn", "watchdog"})
  /\ IF timer["tpWaitConn"] # "none" THEN stopConn ELSE UNCHANGED tp
  /\ EnterState(ClosedState)
  /\ UNCHANGED <<watch, dwrOut>>

(***************************************************************************)
(* REOPEN: the expiry is compared with isWaitDwa, a boolean that no timer  *)
(* id equals, so every expiry is ignored.                                  *)
(***************************************************************************)
DwasToReopen_Three == 3
DwasToReopen == 2

ReopenDwa ==
  /\ connState = "REOPEN"
  /\ HeardDwa
  /\ numDwa' = numDwa + 1
  /\ isWaitDwa' = FALSE
  /\ IF numDwa' = DwasToReopen
       THEN EnterState("OPEN") /\ timer' \in Restarted(timer, "watchdog")
       ELSE UNCHANGED <<connState, listed, timer>>
  /\ UNCHANGED stray

ReopenTimeout(id) ==
  /\ connState = "REOPEN"
  /\ Expires(id)
  /\ IgnoreExpiry(id)

ReopenDown ==
  /\ connState = "REOPEN"
  /\ TransportDown
  /\ timer' \in RestartedOrStarted(timer, "watchdog")
  /\ EnterState("DOWN")
  /\ UNCHANGED <<watch, stray>>

ReopenStop ==
  /\ UserStops
  /\ connState = "REOPEN"
  /\ timer' = Cleared(timer, "watchdog")
  /\ stray' \in Strays(timer, {}, {"watchdog"})
  /\ stopConn
  /\ EnterState(ClosedState)
  /\ UNCHANGED <<watch, dwrOut>>

(***************************************************************************)
(* CLOSING                                                                 *)
(***************************************************************************)
ClosingTimeout(id) ==
  /\ connState = "CLOSING"
  /\ Expires(id)
  /\ \/ /\ id = "twt"
        /\ timer' = Cleared(timer, "twt")
        /\ stray' \in StraysAfter(id, {})
        /\ EnterState("CLIENT_CLOSED")
        /\ UNCHANGED <<watch, tp, dwrOut>>
     \/ id # "twt" /\ IgnoreExpiry(id)

\* RCV_DPA, or the end of the transport connection.
ClosingDone ==
  /\ connState = "CLOSING"
  /\ Heard \/ TransportDown
  /\ timer' = Cleared(timer, "twt")
  /\ stray' \in Strays(timer, {}, {"twt"})
  /\ EnterState("CLIENT_CLOSED")
  /\ UNCHANGED watch

(***************************************************************************)
(* Reports a state ignores still change the transport.                     *)
(***************************************************************************)
ReadyIgnored ==
  /\ connState \in {"SERVER_CLOSED", "CLIENT_WAIT_CEA", "OPEN", "SUSPECT", "REOPEN",
                    "CLOSING"}
  /\ TransportReady
  /\ dwrOut' = 0
  /\ UNCHANGED <<connState, watch, timer, stray, listed>>

DownIgnored ==
  /\ connState \in {"SERVER_CLOSED", "DOWN"}
  /\ TransportDown
  /\ UNCHANGED <<connState, watch, timer, stray, listed>>

-----------------------------------------------------------------------------
(***************************************************************************)
(* diaConnAddNewPeer and diaConnState_init: the dcb is appended to the     *)
(* waiting list and, being enabled, is forced to connect.                  *)
(***************************************************************************)
NoTimers == [s \in Slots |-> "none"]

Init ==
  /\ connState = IF IsServer THEN "SERVER_CLOSED" ELSE "CLIENT_CLOSED"
  /\ isWaitDwa = FALSE
  /\ numDwa = 0
  /\ stray = FALSE
  /\ listed = "waiting"
  /\ dwrOut = 0
  /\ IF IsServer
       THEN timer = NoTimers /\ tp = "idle"
       ELSE /\ timer \in {Started(NoTimers, "tpWaitConn"), Started(NoTimers, "tpRetryConn")}
            /\ tp \in {"idle", "connecting"}

\* One expiry, whatever the state makes of it.
Timeout(id) ==
  \/ ClientClosedTimeout(id)
  \/ WaitCeaTimeout(id)
  \/ OpenTimeout(id)
  \/ SuspectTimeout(id)
  \/ DownTimeout(id)
  \/ ReopenTimeout(id)
  \/ ClosingTimeout(id)

OnReady == ClientClosedReady \/ DownReady \/ ReadyIgnored

OnDown ==
  \/ ClientClosedDown \/ WaitCeaDown \/ OpenDown \/ SuspectDown
  \/ ReopenDown \/ DownIgnored

OnPeerMsg ==
  \/ ServerClosedCer \/ WaitCeaCea
  \/ OpenHeard \/ OpenDwr \/ OpenDpr
  \/ SuspectHeard \/ ReopenDwa \/ ClosingDone

OnUser ==
  \/ ClientClosedForce \/ ClientClosedStop \/ ServerClosedStop \/ WaitCeaStop
  \/ OpenStop \/ SuspectStop \/ DownStop \/ ReopenStop

Next ==
  \/ \E id \in Expiries : Timeout(id)
  \/ OnReady
  \/ OnDown
  \/ OnPeerMsg
  \/ OnUser

Spec == Init /\ [][Next]_vars

\* Timers fire, the transport reports how an attempt or a close ended, and it
\* does not refuse every connect request for ever.
Reports == tp \in {"connecting", "closing"} /\ (OnReady \/ OnDown)
Accepts(id) == Timeout(id) /\ tp' = "connecting"
FairSpec ==
  /\ Spec
  /\ \A id \in Slots : WF_vars(Timeout(id))
  /\ \A id \in {"tpRetryConn", "watchdog"} : SF_vars(Accepts(id))
  /\ WF_vars(Reports)

-----------------------------------------------------------------------------
(***************************************************************************)
(* Safety.                                                                 *)
(***************************************************************************)
Runs(s) == timer[s] = "running"

\* The peer list that holds the dcb agrees with its state: an open connection is
\* in the active list, one that has failed over is in the waiting list until it
\* is open again (diaconnMgr_notifyFailover and notifyFailback are called on
\* every path in and out of OPEN that a failure takes).
ListsFollowState ==
  /\ connState = "OPEN" => listed = "active"
  /\ connState \in {"SUSPECT", "DOWN", "REOPEN"} => listed = "waiting"

\* Without orderly disconnects the active list holds open connections only.
ActiveMeansOpen ==
  ~UserStops /\ ~PeerDisconnects => (listed = "active" => connState = "OPEN")

\* A state that waits for the peer is timed: a peer that never answers cannot
\* hold the connection in CLIENT_WAIT_CEA, SUSPECT or CLOSING, and a connection
\* in DOWN will be dialled again.
WaitsAreTimed ==
  /\ connState \in {"CLIENT_WAIT_CEA", "CLOSING"} => Runs("twt")
  /\ connState = "SUSPECT" => Runs("watchdog")
  /\ connState = "DOWN" /\ ~RestartMayFail => Runs("watchdog") \/ Runs("tpWaitConn")

\* Handlers never overwrite or clear the id of a timer that still runs: all
\* expiries that come without a slot naming them are from stopped timers.
NoTimerLost == LateExpiry \/ ~stray

\* A timer runs only in the states that own it, and a client never waits for a
\* connection attempt and for the time to retry it at once.
TimersFollowState ==
  /\ ~(Runs("tpWaitConn") /\ (Runs("tpRetryConn") \/ Runs("watchdog")))
  /\ Runs("tpRetryConn") => connState = "CLIENT_CLOSED"
  /\ Runs("tpWaitConn") => connState \in {"CLIENT_CLOSED", "DOWN"}
  /\ Runs("watchdog") => connState \in {"OPEN", "SUSPECT", "DOWN", "REOPEN", "CRASHED"}

\* The states that stand for a connection have one, DOWN has none; OPEN has one
\* unless the user stopped it during the capability exchange.
TransportFollowsState ==
  /\ connState \in {"CLIENT_WAIT_CEA", "SUSPECT", "REOPEN"} => tp = "up"
  /\ connState = "OPEN" /\ ~UserStops => tp = "up"
  /\ connState = "DOWN" => tp # "up"

\* Nobody who keeps the protocol loses an open connection's watchdog.
OpenIsSupervised ==
  ~UserStops /\ ~UnsolicitedDwa => (connState = "OPEN" => Runs("watchdog"))

\* A peer fails over on evidence only: it owes an answer to a DWR sent on this
\* connection, or the transport reported the connection's end.
FailoverOnEvidence ==
  [][listed = "active" /\ listed' = "waiting" => dwrOut > 0 \/ tp' = "idle"]_vars

\* A closed client will act again: a timer runs or the transport owes a report.
NeverStranded ==
  connState = "CLIENT_CLOSED" =>
    Runs("tpRetryConn") \/ Runs("tpWaitConn") \/ tp # "idle"

(***************************************************************************)
(* Liveness, under FairSpec.                                               *)
(***************************************************************************)
\* A connection whose peer falls silent does not stay open.
SilentPeerDetected ==
  (connState = "OPEN" ~> connState # "OPEN") \/ []<><<OnPeerMsg>>_vars

\* A client never gives up on its peer: again and again it has a connection or
\* an attempt under way, however often attempts fail and connections break.
NeverGivesUp == []<>(tp # "idle")

-----------------------------------------------------------------------------
(***************************************************************************)
(* The dcb lives the life DiaPeerLife promises.                            *)
(***************************************************************************)
Phase ==
  CASE connState \in {"CLIENT_CLOSED", "SERVER_CLOSED"} -> "closed"
    [] connState = "CLIENT_WAIT_CEA"                    -> "handshake"
    [] connState = "OPEN"                               -> "open"
    [] connState \in {"SUSPECT", "DOWN", "REOPEN"}      -> "failed"
    [] connState = "CLOSING"                            -> "closing"
    [] connState = "CRASHED"                            -> "dead"

Life == INSTANCE DiaPeerLife WITH phase <- Phase, active <- (listed = "active")

\* Every step of the state machine is a step of the abstract life, or none.
LifeOfPeer == Life!LifeSpec

-----------------------------------------------------------------------------
(***************************************************************************)
(* What the repository's comments say and the code does not do.            *)
(***************************************************************************)
\* diaConnState.h: isServer says "if function as diam server, or client". A server
\* waits for its peer to connect and never dials itself. The handler of DOWN asks the
\* field before it dials, but nothing ever sets it.
ServerNeverDials == IsServer => tp # "connecting"

\* diaConnState.h: timerId_watchdog is the "timer to start DWR, and wait for
\* DWA": its expiry sends a DWR or moves the state, never nothing.
WatchdogActs == [][timer["watchdog"] = "running" => timer'["watchdog"] # "stale"]_vars
=============================================================================
