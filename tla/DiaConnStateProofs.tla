------------------------ MODULE DiaConnStateProofs ------------------------
(***************************************************************************)
(* Theorems about DiaConnState, for every value of its constants.          *)
(***************************************************************************)
EXTENDS DiaConnState, TLAPS

(***************************************************************************)
(* The inductive invariant: the safety invariants of DiaConnState and what *)
(* keeps them true from one step to the next.                              *)
(***************************************************************************)
\* Facts about single states that later steps of the machine build on.
Strengthening ==
  /\ connState = "REOPEN" => timer["watchdog"] # "none"
  /\ connState = "OPEN" /\ Runs("watchdog") => tp = "up"
  /\ connState = "OPEN" /\ Runs("watchdog") /\ isWaitDwa => dwrOut > 0
  /\ connState = "REOPEN" /\ ~UnsolicitedDwa => numDwa + dwrOut <= 1
  /\ connState = "REOPEN" => numDwa < DwasToReopen
  /\ Runs("twt") /\ ~LateExpiry => connState \in {"CLIENT_WAIT_CEA", "CLOSING"}

\* Nobody ends the connection in an orderly way, and transport_send answers every
\* connect request with one of the two statuses the handlers have a case for.
OnlyFailures == ~UserStops /\ ~PeerDisconnects /\ "TCP_OK" \notin StartStatus

\* A retry timer that has expired is started again before CLIENT_CLOSED goes on:
\* ClientClosedDown starts it only when its slot is empty.
RetryAhead ==
  OnlyFailures =>
    /\ connState # "CLOSING"
    /\ connState = "CLIENT_CLOSED" => timer["tpRetryConn"] # "stale"
    /\ NeverStranded

IInv ==
  /\ TypeOK
  /\ ListsFollowState
  /\ ActiveMeansOpen
  /\ WaitsAreTimed
  /\ TimersFollowState
  /\ TransportFollowsState
  /\ OpenIsSupervised
  /\ NoTimerLost
  /\ Strengthening
  /\ RetryAhead

(***************************************************************************)
(* Preservation, one lemma per conjunct. Every lemma has one step per      *)
(* action of the state machine.                                            *)
(***************************************************************************)
LEMMA DwrCount ==
  /\ 0 \in 0..MaxDwr /\ 1 \in 0..MaxDwr
  /\ \A d \in 0..MaxDwr : /\ (IF d < MaxDwr THEN d + 1 ELSE MaxDwr) \in 0..MaxDwr
                          /\ (IF d > 0 THEN d - 1 ELSE 0) \in 0..MaxDwr
BY ConnStateAssumption

LEMMA TypeStep == IInv /\ [Next]_vars => TypeOK'
<1> SUFFICES ASSUME TypeOK, connState = "REOPEN" => numDwa < DwasToReopen, [Next]_vars
             PROVE  TypeOK'
  BY DEF IInv, Strengthening
<1> USE DwrCount DEF TypeOK, ConnStates, Slots, SlotValues, TpStates, vars, watch
<1> USE DEF Started, Cleared, Restarted, RestartedOrStarted, Strays, EnterState, FailoverTo,
              ClosedState, isServer, TransportReady, TransportDown, Heard, HeardDwa, SendDwr,
              startConn, stopConn, Expires, AfterExpiry, Expiries, StraysAfter, IgnoreExpiry,
              DwasToReopen
<1>1. CASE ClientClosedForce
  BY <1>1 DEF ClientClosedForce, ClientForced
<1>2. CASE ClientClosedReady
  BY <1>2 DEF ClientClosedReady
<1>3. CASE ClientClosedDown
  BY <1>3 DEF ClientClosedDown
<1>4. CASE ClientClosedStop
  BY <1>4 DEF ClientClosedStop
<1>5. CASE ServerClosedCer
  BY <1>5 DEF ServerClosedCer
<1>6. CASE ServerClosedStop
  BY <1>6 DEF ServerClosedStop
<1>7. CASE WaitCeaCea
  BY <1>7 DEF WaitCeaCea
<1>8. CASE WaitCeaStop
  BY <1>8 DEF WaitCeaStop
<1>9. CASE WaitCeaDown
  BY <1>9 DEF WaitCeaDown
<1>10. CASE OpenHeard
  BY <1>10 DEF OpenHeard
<1>11. CASE OpenDwr
  BY <1>11 DEF OpenDwr
<1>12. CASE OpenStop
  BY <1>12 DEF OpenStop, LeaveForDisconnect
<1>13. CASE OpenDpr
  BY <1>13 DEF OpenDpr, LeaveForDisconnect
<1>14. CASE OpenDown
  BY <1>14 DEF OpenDown
<1>15. CASE SuspectHeard
  BY <1>15 DEF SuspectHeard
<1>16. CASE SuspectDown
  BY <1>16 DEF SuspectDown
<1>17. CASE SuspectStop
  BY <1>17 DEF SuspectStop
<1>18. CASE DownReady
  <2>1. /\ connState' \in ConnStates /\ listed' \in {"waiting", "active"}
        /\ timer' \in [Slots -> SlotValues] /\ stray' \in BOOLEAN /\ tp' \in TpStates
    BY <1>18 DEF DownReady
  <2>2. dwrOut' \in 0..MaxDwr /\ numDwa' \in 0..2 /\ isWaitDwa' \in BOOLEAN
    BY <1>18 DEF DownReady
  <2> QED
    BY <2>1, <2>2
<1>19. CASE DownStop
  BY <1>19 DEF DownStop
<1>20. CASE ReopenDwa
  <2>1. numDwa' \in 0..2
    <3>1. numDwa \in 0..2 /\ numDwa < 2 /\ numDwa' = numDwa + 1
      BY <1>20 DEF ReopenDwa
    <3> HIDE DEF TypeOK
    <3> QED
      BY <3>1
  <2>2. /\ connState' \in ConnStates /\ listed' \in {"waiting", "active"}
        /\ timer' \in [Slots -> SlotValues] /\ stray' \in BOOLEAN /\ tp' \in TpStates
        /\ isWaitDwa' \in BOOLEAN
    BY <1>20 DEF ReopenDwa
  <2>3. dwrOut' \in 0..MaxDwr
    BY <1>20 DEF ReopenDwa
  <2> QED
    BY <2>1, <2>2, <2>3
<1>21. CASE ReopenDown
  BY <1>21 DEF ReopenDown
<1>22. CASE ReopenStop
  BY <1>22 DEF ReopenStop
<1>23. CASE ClosingDone
  BY <1>23 DEF ClosingDone
<1>24. CASE ReadyIgnored
  BY <1>24 DEF ReadyIgnored
<1>25. CASE DownIgnored
  BY <1>25 DEF DownIgnored
<1>26. ASSUME NEW id \in Expiries, ClientClosedTimeout(id) PROVE TypeOK'
  BY <1>26 DEF ClientClosedTimeout
<1>27. ASSUME NEW id \in Expiries, WaitCeaTimeout(id) PROVE TypeOK'
  BY <1>27 DEF WaitCeaTimeout
<1>28. ASSUME NEW id \in Expiries, OpenTimeout(id) PROVE TypeOK'
  BY <1>28 DEF OpenTimeout
<1>29. ASSUME NEW id \in Expiries, SuspectTimeout(id) PROVE TypeOK'
  BY <1>29 DEF SuspectTimeout
<1>30. ASSUME NEW id \in Expiries, DownTimeout(id) PROVE TypeOK'
  BY <1>30 DEF DownTimeout
<1>31. ASSUME NEW id \in Expiries, ReopenTimeout(id) PROVE TypeOK'
  BY <1>31 DEF ReopenTimeout
<1>32. ASSUME NEW id \in Expiries, ClosingTimeout(id) PROVE TypeOK'
  BY <1>32 DEF ClosingTimeout
<1>33. CASE UNCHANGED vars
  BY <1>33
<1> QED
  BY <1>1, <1>2, <1>3, <1>4, <1>5, <1>6, <1>7, <1>8, <1>9, <1>10, <1>11, <1>12, <1>13, <1>14, <1>15, <1>16, <1>17, <1>18, <1>19, <1>20, <1>21, <1>22, <1>23, <1>24, <1>25, <1>26, <1>27, <1>28, <1>29, <1>30, <1>31, <1>32, <1>33 DEF Next, Timeout, OnReady, OnDown, OnPeerMsg, OnUser

LEMMA ListsFollowStateStep == IInv /\ [Next]_vars => ListsFollowState'
<1> SUFFICES ASSUME TypeOK, ListsFollowState, [Next]_vars
             PROVE  ListsFollowState'
  BY DEF IInv, Strengthening
<1> USE DEF TypeOK, ConnStates, Slots, SlotValues, TpStates, vars, watch
<1> USE DEF Started, Cleared, Restarted, RestartedOrStarted, Strays, EnterState, FailoverTo,
              ClosedState, isServer, TransportReady, TransportDown, Heard, HeardDwa, SendDwr,
              startConn, stopConn, Expires, AfterExpiry, Expiries, StraysAfter, IgnoreExpiry,
              DwasToReopen
<1> USE DEF ListsFollowState
<1>1. CASE ClientClosedForce
  BY <1>1 DEF ClientClosedForce, ClientForced
<1>2. CASE ClientClosedReady
  BY <1>2 DEF ClientClosedReady
<1>3. CASE ClientClosedDown
  BY <1>3 DEF ClientClosedDown
<1>4. CASE ClientClosedStop
  BY <1>4 DEF ClientClosedStop
<1>5. CASE ServerClosedCer
  BY <1>5 DEF ServerClosedCer
<1>6. CASE ServerClosedStop
  BY <1>6 DEF ServerClosedStop
<1>7. CASE WaitCeaCea
  BY <1>7 DEF WaitCeaCea
<1>8. CASE WaitCeaStop
  BY <1>8 DEF WaitCeaStop
<1>9. CASE WaitCeaDown
  BY <1>9 DEF WaitCeaDown
<1>10. CASE OpenHeard
  BY <1>10 DEF OpenHeard
<1>11. CASE OpenDwr
  BY <1>11 DEF OpenDwr
<1>12. CASE OpenStop
  BY <1>12 DEF OpenStop, LeaveForDisconnect
<1>13. CASE OpenDpr
  BY <1>13 DEF OpenDpr, LeaveForDisconnect
<1>14. CASE OpenDown
  BY <1>14 DEF OpenDown
<1>15. CASE SuspectHeard
  BY <1>15 DEF SuspectHeard
<1>16. CASE SuspectDown
  BY <1>16 DEF SuspectDown
<1>17. CASE SuspectStop
  BY <1>17 DEF SuspectStop
<1>18. CASE DownReady
  BY <1>18 DEF DownReady
<1>19. CASE DownStop
  BY <1>19 DEF DownStop
<1>20. CASE ReopenDwa
  BY <1>20 DEF ReopenDwa
<1>21. CASE ReopenDown
  BY <1>21 DEF ReopenDown
<1>22. CASE ReopenStop
  BY <1>22 DEF ReopenStop
<1>23. CASE ClosingDone
  BY <1>23 DEF ClosingDone
<1>24. CASE ReadyIgnored
  BY <1>24 DEF ReadyIgnored
<1>25. CASE DownIgnored
  BY <1>25 DEF DownIgnored
<1>26. ASSUME NEW id \in Expiries, ClientClosedTimeout(id) PROVE ListsFollowState'
  BY <1>26 DEF ClientClosedTimeout
<1>27. ASSUME NEW id \in Expiries, WaitCeaTimeout(id) PROVE ListsFollowState'
  BY <1>27 DEF WaitCeaTimeout
<1>28. ASSUME NEW id \in Expiries, OpenTimeout(id) PROVE ListsFollowState'
  BY <1>28 DEF OpenTimeout
<1>29. ASSUME NEW id \in Expiries, SuspectTimeout(id) PROVE ListsFollowState'
  BY <1>29 DEF SuspectTimeout
<1>30. ASSUME NEW id \in Expiries, DownTimeout(id) PROVE ListsFollowState'
  BY <1>30 DEF DownTimeout
<1>31. ASSUME NEW id \in Expiries, ReopenTimeout(id) PROVE ListsFollowState'
  BY <1>31 DEF ReopenTimeout
<1>32. ASSUME NEW id \in Expiries, ClosingTimeout(id) PROVE ListsFollowState'
  BY <1>32 DEF ClosingTimeout
<1>33. CASE UNCHANGED vars
  BY <1>33
<1> QED
  BY <1>1, <1>2, <1>3, <1>4, <1>5, <1>6, <1>7, <1>8, <1>9, <1>10, <1>11, <1>12, <1>13, <1>14, <1>15, <1>16, <1>17, <1>18, <1>19, <1>20, <1>21, <1>22, <1>23, <1>24, <1>25, <1>26, <1>27, <1>28, <1>29, <1>30, <1>31, <1>32, <1>33 DEF Next, Timeout, OnReady, OnDown, OnPeerMsg, OnUser

LEMMA ActiveMeansOpenStep == IInv /\ [Next]_vars => ActiveMeansOpen'
<1> SUFFICES ASSUME TypeOK, ListsFollowState, ActiveMeansOpen, [Next]_vars
             PROVE  ActiveMeansOpen'
  BY DEF IInv, Strengthening
<1> USE DEF TypeOK, ConnStates, Slots, SlotValues, TpStates, vars, watch
<1> USE DEF Started, Cleared, Restarted, RestartedOrStarted, Strays, EnterState, FailoverTo,
              ClosedState, isServer, TransportReady, TransportDown, Heard, HeardDwa, SendDwr,
              startConn, stopConn, Expires, AfterExpiry, Expiries, StraysAfter, IgnoreExpiry,
              DwasToReopen
<1> USE DEF ListsFollowState, ActiveMeansOpen
<1>1. CASE ClientClosedForce
  BY <1>1 DEF ClientClosedForce, ClientForced
<1>2. CASE ClientClosedReady
  BY <1>2 DEF ClientClosedReady
<1>3. CASE ClientClosedDown
  BY <1>3 DEF ClientClosedDown
<1>4. CASE ClientClosedStop
  BY <1>4 DEF ClientClosedStop
<1>5. CASE ServerClosedCer
  BY <1>5 DEF ServerClosedCer
<1>6. CASE ServerClosedStop
  BY <1>6 DEF ServerClosedStop
<1>7. CASE WaitCeaCea
  BY <1>7 DEF WaitCeaCea
<1>8. CASE WaitCeaStop
  BY <1>8 DEF WaitCeaStop
<1>9. CASE WaitCeaDown
  BY <1>9 DEF WaitCeaDown
<1>10. CASE OpenHeard
  BY <1>10 DEF OpenHeard
<1>11. CASE OpenDwr
  BY <1>11 DEF OpenDwr
<1>12. CASE OpenStop
  BY <1>12 DEF OpenStop, LeaveForDisconnect
<1>13. CASE OpenDpr
  BY <1>13 DEF OpenDpr, LeaveForDisconnect
<1>14. CASE OpenDown
  BY <1>14 DEF OpenDown
<1>15. CASE SuspectHeard
  BY <1>15 DEF SuspectHeard
<1>16. CASE SuspectDown
  BY <1>16 DEF SuspectDown
<1>17. CASE SuspectStop
  BY <1>17 DEF SuspectStop
<1>18. CASE DownReady
  BY <1>18 DEF DownReady
<1>19. CASE DownStop
  BY <1>19 DEF DownStop
<1>20. CASE ReopenDwa
  BY <1>20 DEF ReopenDwa
<1>21. CASE ReopenDown
  BY <1>21 DEF ReopenDown
<1>22. CASE ReopenStop
  BY <1>22 DEF ReopenStop
<1>23. CASE ClosingDone
  BY <1>23 DEF ClosingDone
<1>24. CASE ReadyIgnored
  BY <1>24 DEF ReadyIgnored
<1>25. CASE DownIgnored
  BY <1>25 DEF DownIgnored
<1>26. ASSUME NEW id \in Expiries, ClientClosedTimeout(id) PROVE ActiveMeansOpen'
  BY <1>26 DEF ClientClosedTimeout
<1>27. ASSUME NEW id \in Expiries, WaitCeaTimeout(id) PROVE ActiveMeansOpen'
  BY <1>27 DEF WaitCeaTimeout
<1>28. ASSUME NEW id \in Expiries, OpenTimeout(id) PROVE ActiveMeansOpen'
  BY <1>28 DEF OpenTimeout
<1>29. ASSUME NEW id \in Expiries, SuspectTimeout(id) PROVE ActiveMeansOpen'
  BY <1>29 DEF SuspectTimeout
<1>30. ASSUME NEW id \in Expiries, DownTimeout(id) PROVE ActiveMeansOpen'
  BY <1>30 DEF DownTimeout
<1>31. ASSUME NEW id \in Expiries, ReopenTimeout(id) PROVE ActiveMeansOpen'
  BY <1>31 DEF ReopenTimeout
<1>32. ASSUME NEW id \in Expiries, ClosingTimeout(id) PROVE ActiveMeansOpen'
  BY <1>32 DEF ClosingTimeout
<1>33. CASE UNCHANGED vars
  BY <1>33
<1> QED
  BY <1>1, <1>2, <1>3, <1>4, <1>5, <1>6, <1>7, <1>8, <1>9, <1>10, <1>11, <1>12, <1>13, <1>14, <1>15, <1>16, <1>17, <1>18, <1>19, <1>20, <1>21, <1>22, <1>23, <1>24, <1>25, <1>26, <1>27, <1>28, <1>29, <1>30, <1>31, <1>32, <1>33 DEF Next, Timeout, OnReady, OnDown, OnPeerMsg, OnUser

LEMMA WaitsAreTimedStep == IInv /\ [Next]_vars => WaitsAreTimed'
<1> SUFFICES ASSUME TypeOK, WaitsAreTimed, connState = "REOPEN" => timer["watchdog"] # "none", [Next]_vars
             PROVE  WaitsAreTimed'
  BY DEF IInv, Strengthening
<1> USE DEF TypeOK, ConnStates, Slots, SlotValues, TpStates, vars, watch
<1> USE DEF Started, Cleared, Restarted, RestartedOrStarted, Strays, EnterState, FailoverTo,
              ClosedState, isServer, TransportReady, TransportDown, Heard, HeardDwa, SendDwr,
              startConn, stopConn, Expires, AfterExpiry, Expiries, StraysAfter, IgnoreExpiry,
              DwasToReopen
<1> USE DEF WaitsAreTimed, Runs
<1>1. CASE ClientClosedForce
  BY <1>1 DEF ClientClosedForce, ClientForced
<1>2. CASE ClientClosedReady
  BY <1>2 DEF ClientClosedReady
<1>3. CASE ClientClosedDown
  BY <1>3 DEF ClientClosedDown
<1>4. CASE ClientClosedStop
  BY <1>4 DEF ClientClosedStop
<1>5. CASE ServerClosedCer
  BY <1>5 DEF ServerClosedCer
<1>6. CASE ServerClosedStop
  BY <1>6 DEF ServerClosedStop
<1>7. CASE WaitCeaCea
  BY <1>7 DEF WaitCeaCea
<1>8. CASE WaitCeaStop
  BY <1>8 DEF WaitCeaStop
<1>9. CASE WaitCeaDown
  BY <1>9 DEF WaitCeaDown
<1>10. CASE OpenHeard
  BY <1>10 DEF OpenHeard
<1>11. CASE OpenDwr
  BY <1>11 DEF OpenDwr
<1>12. CASE OpenStop
  BY <1>12 DEF OpenStop, LeaveForDisconnect
<1>13. CASE OpenDpr
  BY <1>13 DEF OpenDpr, LeaveForDisconnect
<1>14. CASE OpenDown
  BY <1>14 DEF OpenDown
<1>15. CASE SuspectHeard
  BY <1>15 DEF SuspectHeard
<1>16. CASE SuspectDown
  BY <1>16 DEF SuspectDown
<1>17. CASE SuspectStop
  BY <1>17 DEF SuspectStop
<1>18. CASE DownReady
  BY <1>18 DEF DownReady
<1>19. CASE DownStop
  BY <1>19 DEF DownStop
<1>20. CASE ReopenDwa
  BY <1>20 DEF ReopenDwa
<1>21. CASE ReopenDown
  BY <1>21 DEF ReopenDown
<1>22. CASE ReopenStop
  BY <1>22 DEF ReopenStop
<1>23. CASE ClosingDone
  BY <1>23 DEF ClosingDone
<1>24. CASE ReadyIgnored
  BY <1>24 DEF ReadyIgnored
<1>25. CASE DownIgnored
  BY <1>25 DEF DownIgnored
<1>26. ASSUME NEW id \in Expiries, ClientClosedTimeout(id) PROVE WaitsAreTimed'
  BY <1>26 DEF ClientClosedTimeout
<1>27. ASSUME NEW id \in Expiries, WaitCeaTimeout(id) PROVE WaitsAreTimed'
  BY <1>27 DEF WaitCeaTimeout
<1>28. ASSUME NEW id \in Expiries, OpenTimeout(id) PROVE WaitsAreTimed'
  BY <1>28 DEF OpenTimeout
<1>29. ASSUME NEW id \in Expiries, SuspectTimeout(id) PROVE WaitsAreTimed'
  BY <1>29 DEF SuspectTimeout
<1>30. ASSUME NEW id \in Expiries, DownTimeout(id) PROVE WaitsAreTimed'
  BY <1>30 DEF DownTimeout
<1>31. ASSUME NEW id \in Expiries, ReopenTimeout(id) PROVE WaitsAreTimed'
  BY <1>31 DEF ReopenTimeout
<1>32. ASSUME NEW id \in Expiries, ClosingTimeout(id) PROVE WaitsAreTimed'
  BY <1>32 DEF ClosingTimeout
<1>33. CASE UNCHANGED vars
  BY <1>33
<1> QED
  BY <1>1, <1>2, <1>3, <1>4, <1>5, <1>6, <1>7, <1>8, <1>9, <1>10, <1>11, <1>12, <1>13, <1>14, <1>15, <1>16, <1>17, <1>18, <1>19, <1>20, <1>21, <1>22, <1>23, <1>24, <1>25, <1>26, <1>27, <1>28, <1>29, <1>30, <1>31, <1>32, <1>33 DEF Next, Timeout, OnReady, OnDown, OnPeerMsg, OnUser

LEMMA TimersFollowStateStep == IInv /\ [Next]_vars => TimersFollowState'
<1> SUFFICES ASSUME TypeOK, TimersFollowState, WaitsAreTimed, [Next]_vars
             PROVE  TimersFollowState'
  BY DEF IInv, Strengthening
<1> USE DEF TypeOK, ConnStates, Slots, SlotValues, TpStates, vars, watch
<1> USE DEF Started, Cleared, Restarted, RestartedOrStarted, Strays, EnterState, FailoverTo,
              ClosedState, isServer, TransportReady, TransportDown, Heard, HeardDwa, SendDwr,
              startConn, stopConn, Expires, AfterExpiry, Expiries, StraysAfter, IgnoreExpiry,
              DwasToReopen
<1> USE DEF TimersFollowState, WaitsAreTimed, Runs
<1>1. CASE ClientClosedForce
  BY <1>1 DEF ClientClosedForce, ClientForced
<1>2. CASE ClientClosedReady
  BY <1>2 DEF ClientClosedReady
<1>3. CASE ClientClosedDown
  BY <1>3 DEF ClientClosedDown
<1>4. CASE ClientClosedStop
  BY <1>4 DEF ClientClosedStop
<1>5. CASE ServerClosedCer
  BY <1>5 DEF ServerClosedCer
<1>6. CASE ServerClosedStop
  BY <1>6 DEF ServerClosedStop
<1>7. CASE WaitCeaCea
  BY <1>7 DEF WaitCeaCea
<1>8. CASE WaitCeaStop
  BY <1>8 DEF WaitCeaStop
<1>9. CASE WaitCeaDown
  BY <1>9 DEF WaitCeaDown
<1>10. CASE OpenHeard
  BY <1>10 DEF OpenHeard
<1>11. CASE OpenDwr
  BY <1>11 DEF OpenDwr
<1>12. CASE OpenStop
  BY <1>12 DEF OpenStop, LeaveForDisconnect
<1>13. CASE OpenDpr
  BY <1>13 DEF OpenDpr, LeaveForDisconnect
<1>14. CASE OpenDown
  BY <1>14 DEF OpenDown
<1>15. CASE SuspectHeard
  BY <1>15 DEF SuspectHeard
<1>16. CASE SuspectDown
  BY <1>16 DEF SuspectDown
<1>17. CASE SuspectStop
  BY <1>17 DEF SuspectStop
<1>18. CASE DownReady
  BY <1>18 DEF DownReady
<1>19. CASE DownStop
  BY <1>19 DEF DownStop
<1>20. CASE ReopenDwa
  BY <1>20 DEF ReopenDwa
<1>21. CASE ReopenDown
  BY <1>21 DEF ReopenDown
<1>22. CASE ReopenStop
  BY <1>22 DEF ReopenStop
<1>23. CASE ClosingDone
  BY <1>23 DEF ClosingDone
<1>24. CASE ReadyIgnored
  BY <1>24 DEF ReadyIgnored
<1>25. CASE DownIgnored
  BY <1>25 DEF DownIgnored
<1>26. ASSUME NEW id \in Expiries, ClientClosedTimeout(id) PROVE TimersFollowState'
  BY <1>26 DEF ClientClosedTimeout
<1>27. ASSUME NEW id \in Expiries, WaitCeaTimeout(id) PROVE TimersFollowState'
  BY <1>27 DEF WaitCeaTimeout
<1>28. ASSUME NEW id \in Expiries, OpenTimeout(id) PROVE TimersFollowState'
  BY <1>28 DEF OpenTimeout
<1>29. ASSUME NEW id \in Expiries, SuspectTimeout(id) PROVE TimersFollowState'
  BY <1>29 DEF SuspectTimeout
<1>30. ASSUME NEW id \in Expiries, DownTimeout(id) PROVE TimersFollowState'
  BY <1>30 DEF DownTimeout
<1>31. ASSUME NEW id \in Expiries, ReopenTimeout(id) PROVE TimersFollowState'
  BY <1>31 DEF ReopenTimeout
<1>32. ASSUME NEW id \in Expiries, ClosingTimeout(id) PROVE TimersFollowState'
  BY <1>32 DEF ClosingTimeout
<1>33. CASE UNCHANGED vars
  BY <1>33
<1> QED
  BY <1>1, <1>2, <1>3, <1>4, <1>5, <1>6, <1>7, <1>8, <1>9, <1>10, <1>11, <1>12, <1>13, <1>14, <1>15, <1>16, <1>17, <1>18, <1>19, <1>20, <1>21, <1>22, <1>23, <1>24, <1>25, <1>26, <1>27, <1>28, <1>29, <1>30, <1>31, <1>32, <1>33 DEF Next, Timeout, OnReady, OnDown, OnPeerMsg, OnUser

LEMMA TransportFollowsStateStep == IInv /\ [Next]_vars => TransportFollowsState'
<1> SUFFICES ASSUME TypeOK, TransportFollowsState, Strengthening, [Next]_vars
             PROVE  TransportFollowsState'
  BY DEF IInv, Strengthening
<1> USE DEF TypeOK, ConnStates, Slots, SlotValues, TpStates, vars, watch
<1> USE DEF Started, Cleared, Restarted, RestartedOrStarted, Strays, EnterState, FailoverTo,
              ClosedState, isServer, TransportReady, TransportDown, Heard, HeardDwa, SendDwr,
              startConn, stopConn, Expires, AfterExpiry, Expiries, StraysAfter, IgnoreExpiry,
              DwasToReopen
<1> USE DEF TransportFollowsState, Strengthening, Runs
<1>1. CASE ClientClosedForce
  BY <1>1 DEF ClientClosedForce, ClientForced
<1>2. CASE ClientClosedReady
  BY <1>2 DEF ClientClosedReady
<1>3. CASE ClientClosedDown
  BY <1>3 DEF ClientClosedDown
<1>4. CASE ClientClosedStop
  BY <1>4 DEF ClientClosedStop
<1>5. CASE ServerClosedCer
  BY <1>5 DEF ServerClosedCer
<1>6. CASE ServerClosedStop
  BY <1>6 DEF ServerClosedStop
<1>7. CASE WaitCeaCea
  BY <1>7 DEF WaitCeaCea
<1>8. CASE WaitCeaStop
  BY <1>8 DEF WaitCeaStop
<1>9. CASE WaitCeaDown
  BY <1>9 DEF WaitCeaDown
<1>10. CASE OpenHeard
  BY <1>10 DEF OpenHeard
<1>11. CASE OpenDwr
  BY <1>11 DEF OpenDwr
<1>12. CASE OpenStop
  BY <1>12 DEF OpenStop, LeaveForDisconnect
<1>13. CASE OpenDpr
  BY <1>13 DEF OpenDpr, LeaveForDisconnect
<1>14. CASE OpenDown
  BY <1>14 DEF OpenDown
<1>15. CASE SuspectHeard
  BY <1>15 DEF SuspectHeard
<1>16. CASE SuspectDown
  BY <1>16 DEF SuspectDown
<1>17. CASE SuspectStop
  BY <1>17 DEF SuspectStop
<1>18. CASE DownReady
  BY <1>18 DEF DownReady
<1>19. CASE DownStop
  BY <1>19 DEF DownStop
<1>20. CASE ReopenDwa
  BY <1>20 DEF ReopenDwa
<1>21. CASE ReopenDown
  BY <1>21 DEF ReopenDown
<1>22. CASE ReopenStop
  BY <1>22 DEF ReopenStop
<1>23. CASE ClosingDone
  BY <1>23 DEF ClosingDone
<1>24. CASE ReadyIgnored
  BY <1>24 DEF ReadyIgnored
<1>25. CASE DownIgnored
  BY <1>25 DEF DownIgnored
<1>26. ASSUME NEW id \in Expiries, ClientClosedTimeout(id) PROVE TransportFollowsState'
  BY <1>26 DEF ClientClosedTimeout
<1>27. ASSUME NEW id \in Expiries, WaitCeaTimeout(id) PROVE TransportFollowsState'
  BY <1>27 DEF WaitCeaTimeout
<1>28. ASSUME NEW id \in Expiries, OpenTimeout(id) PROVE TransportFollowsState'
  BY <1>28 DEF OpenTimeout
<1>29. ASSUME NEW id \in Expiries, SuspectTimeout(id) PROVE TransportFollowsState'
  BY <1>29 DEF SuspectTimeout
<1>30. ASSUME NEW id \in Expiries, DownTimeout(id) PROVE TransportFollowsState'
  BY <1>30 DEF DownTimeout
<1>31. ASSUME NEW id \in Expiries, ReopenTimeout(id) PROVE TransportFollowsState'
  BY <1>31 DEF ReopenTimeout
<1>32. ASSUME NEW id \in Expiries, ClosingTimeout(id) PROVE TransportFollowsState'
  BY <1>32 DEF ClosingTimeout
<1>33. CASE UNCHANGED vars
  BY <1>33
<1> QED
  BY <1>1, <1>2, <1>3, <1>4, <1>5, <1>6, <1>7, <1>8, <1>9, <1>10, <1>11, <1>12, <1>13, <1>14, <1>15, <1>16, <1>17, <1>18, <1>19, <1>20, <1>21, <1>22, <1>23, <1>24, <1>25, <1>26, <1>27, <1>28, <1>29, <1>30, <1>31, <1>32, <1>33 DEF Next, Timeout, OnReady, OnDown, OnPeerMsg, OnUser

LEMMA OpenIsSupervisedStep == IInv /\ [Next]_vars => OpenIsSupervised'
<1> SUFFICES ASSUME TypeOK, OpenIsSupervised, WaitsAreTimed, Strengthening, [Next]_vars
             PROVE  OpenIsSupervised'
  BY DEF IInv, Strengthening
<1> USE DEF TypeOK, ConnStates, Slots, SlotValues, TpStates, vars, watch
<1> USE DEF Started, Cleared, Restarted, RestartedOrStarted, Strays, EnterState, FailoverTo,
              ClosedState, isServer, TransportReady, TransportDown, Heard, HeardDwa, SendDwr,
              startConn, stopConn, Expires, AfterExpiry, Expiries, StraysAfter, IgnoreExpiry,
              DwasToReopen
<1> USE DEF OpenIsSupervised, WaitsAreTimed, Strengthening, Runs
<1>1. CASE ClientClosedForce
  BY <1>1 DEF ClientClosedForce, ClientForced
<1>2. CASE ClientClosedReady
  BY <1>2 DEF ClientClosedReady
<1>3. CASE ClientClosedDown
  BY <1>3 DEF ClientClosedDown
<1>4. CASE ClientClosedStop
  BY <1>4 DEF ClientClosedStop
<1>5. CASE ServerClosedCer
  BY <1>5 DEF ServerClosedCer
<1>6. CASE ServerClosedStop
  BY <1>6 DEF ServerClosedStop
<1>7. CASE WaitCeaCea
  BY <1>7 DEF WaitCeaCea
<1>8. CASE WaitCeaStop
  BY <1>8 DEF WaitCeaStop
<1>9. CASE WaitCeaDown
  BY <1>9 DEF WaitCeaDown
<1>10. CASE OpenHeard
  BY <1>10 DEF OpenHeard
<1>11. CASE OpenDwr
  BY <1>11 DEF OpenDwr
<1>12. CASE OpenStop
  BY <1>12 DEF OpenStop, LeaveForDisconnect
<1>13. CASE OpenDpr
  BY <1>13 DEF OpenDpr, LeaveForDisconnect
<1>14. CASE OpenDown
  BY <1>14 DEF OpenDown
<1>15. CASE SuspectHeard
  BY <1>15 DEF SuspectHeard
<1>16. CASE SuspectDown
  BY <1>16 DEF SuspectDown
<1>17. CASE SuspectStop
  BY <1>17 DEF SuspectStop
<1>18. CASE DownReady
  BY <1>18 DEF DownReady
<1>19. CASE DownStop
  BY <1>19 DEF DownStop
<1>20. CASE ReopenDwa
  BY <1>20 DEF ReopenDwa
<1>21. CASE ReopenDown
  BY <1>21 DEF ReopenDown
<1>22. CASE ReopenStop
  BY <1>22 DEF ReopenStop
<1>23. CASE ClosingDone
  BY <1>23 DEF ClosingDone
<1>24. CASE ReadyIgnored
  BY <1>24 DEF ReadyIgnored
<1>25. CASE DownIgnored
  BY <1>25 DEF DownIgnored
<1>26. ASSUME NEW id \in Expiries, ClientClosedTimeout(id) PROVE OpenIsSupervised'
  BY <1>26 DEF ClientClosedTimeout
<1>27. ASSUME NEW id \in Expiries, WaitCeaTimeout(id) PROVE OpenIsSupervised'
  BY <1>27 DEF WaitCeaTimeout
<1>28. ASSUME NEW id \in Expiries, OpenTimeout(id) PROVE OpenIsSupervised'
  BY <1>28 DEF OpenTimeout
<1>29. ASSUME NEW id \in Expiries, SuspectTimeout(id) PROVE OpenIsSupervised'
  BY <1>29 DEF SuspectTimeout
<1>30. ASSUME NEW id \in Expiries, DownTimeout(id) PROVE OpenIsSupervised'
  BY <1>30 DEF DownTimeout
<1>31. ASSUME NEW id \in Expiries, ReopenTimeout(id) PROVE OpenIsSupervised'
  BY <1>31 DEF ReopenTimeout
<1>32. ASSUME NEW id \in Expiries, ClosingTimeout(id) PROVE OpenIsSupervised'
  BY <1>32 DEF ClosingTimeout
<1>33. CASE UNCHANGED vars
  BY <1>33
<1> QED
  BY <1>1, <1>2, <1>3, <1>4, <1>5, <1>6, <1>7, <1>8, <1>9, <1>10, <1>11, <1>12, <1>13, <1>14, <1>15, <1>16, <1>17, <1>18, <1>19, <1>20, <1>21, <1>22, <1>23, <1>24, <1>25, <1>26, <1>27, <1>28, <1>29, <1>30, <1>31, <1>32, <1>33 DEF Next, Timeout, OnReady, OnDown, OnPeerMsg, OnUser

LEMMA NoTimerLostStep == IInv /\ [Next]_vars => NoTimerLost'
<1> SUFFICES ASSUME TypeOK, NoTimerLost, TimersFollowState, Strengthening, [Next]_vars
             PROVE  NoTimerLost'
  BY DEF IInv, Strengthening
<1> USE DEF TypeOK, ConnStates, Slots, SlotValues, TpStates, vars, watch
<1> USE DEF Started, Cleared, Restarted, RestartedOrStarted, Strays, EnterState, FailoverTo,
              ClosedState, isServer, TransportReady, TransportDown, Heard, HeardDwa, SendDwr,
              startConn, stopConn, Expires, AfterExpiry, Expiries, StraysAfter, IgnoreExpiry,
              DwasToReopen
<1> USE DEF NoTimerLost, TimersFollowState, Strengthening, Runs
<1>1. CASE ClientClosedForce
  BY <1>1 DEF ClientClosedForce, ClientForced
<1>2. CASE ClientClosedReady
  BY <1>2 DEF ClientClosedReady
<1>3. CASE ClientClosedDown
  BY <1>3 DEF ClientClosedDown
<1>4. CASE ClientClosedStop
  BY <1>4 DEF ClientClosedStop
<1>5. CASE ServerClosedCer
  BY <1>5 DEF ServerClosedCer
<1>6. CASE ServerClosedStop
  BY <1>6 DEF ServerClosedStop
<1>7. CASE WaitCeaCea
  BY <1>7 DEF WaitCeaCea
<1>8. CASE WaitCeaStop
  BY <1>8 DEF WaitCeaStop
<1>9. CASE WaitCeaDown
  BY <1>9 DEF WaitCeaDown
<1>10. CASE OpenHeard
  BY <1>10 DEF OpenHeard
<1>11. CASE OpenDwr
  BY <1>11 DEF OpenDwr
<1>12. CASE OpenStop
  BY <1>12 DEF OpenStop, LeaveForDisconnect
<1>13. CASE OpenDpr
  BY <1>13 DEF OpenDpr, LeaveForDisconnect
<1>14. CASE OpenDown
  BY <1>14 DEF OpenDown
<1>15. CASE SuspectHeard
  BY <1>15 DEF SuspectHeard
<1>16. CASE SuspectDown
  BY <1>16 DEF SuspectDown
<1>17. CASE SuspectStop
  BY <1>17 DEF SuspectStop
<1>18. CASE DownReady
  BY <1>18 DEF DownReady
<1>19. CASE DownStop
  BY <1>19 DEF DownStop
<1>20. CASE ReopenDwa
  BY <1>20 DEF ReopenDwa
<1>21. CASE ReopenDown
  BY <1>21 DEF ReopenDown
<1>22. CASE ReopenStop
  BY <1>22 DEF ReopenStop
<1>23. CASE ClosingDone
  BY <1>23 DEF ClosingDone
<1>24. CASE ReadyIgnored
  BY <1>24 DEF ReadyIgnored
<1>25. CASE DownIgnored
  BY <1>25 DEF DownIgnored
<1>26. ASSUME NEW id \in Expiries, ClientClosedTimeout(id) PROVE NoTimerLost'
  BY <1>26 DEF ClientClosedTimeout
<1>27. ASSUME NEW id \in Expiries, WaitCeaTimeout(id) PROVE NoTimerLost'
  BY <1>27 DEF WaitCeaTimeout
<1>28. ASSUME NEW id \in Expiries, OpenTimeout(id) PROVE NoTimerLost'
  BY <1>28 DEF OpenTimeout
<1>29. ASSUME NEW id \in Expiries, SuspectTimeout(id) PROVE NoTimerLost'
  BY <1>29 DEF SuspectTimeout
<1>30. ASSUME NEW id \in Expiries, DownTimeout(id) PROVE NoTimerLost'
  BY <1>30 DEF DownTimeout
<1>31. ASSUME NEW id \in Expiries, ReopenTimeout(id) PROVE NoTimerLost'
  BY <1>31 DEF ReopenTimeout
<1>32. ASSUME NEW id \in Expiries, ClosingTimeout(id) PROVE NoTimerLost'
  BY <1>32 DEF ClosingTimeout
<1>33. CASE UNCHANGED vars
  BY <1>33
<1> QED
  BY <1>1, <1>2, <1>3, <1>4, <1>5, <1>6, <1>7, <1>8, <1>9, <1>10, <1>11, <1>12, <1>13, <1>14, <1>15, <1>16, <1>17, <1>18, <1>19, <1>20, <1>21, <1>22, <1>23, <1>24, <1>25, <1>26, <1>27, <1>28, <1>29, <1>30, <1>31, <1>32, <1>33 DEF Next, Timeout, OnReady, OnDown, OnPeerMsg, OnUser

LEMMA StrengtheningStep == IInv /\ [Next]_vars => Strengthening'
<1> SUFFICES ASSUME TypeOK, TransportFollowsState, TimersFollowState, NoTimerLost,
                    Strengthening, [Next]_vars
             PROVE  Strengthening'
  BY DEF IInv
<1> USE DwrCount DEF TypeOK, ConnStates, Slots, SlotValues, TpStates, vars, watch
<1> USE DEF Started, Cleared, Restarted, RestartedOrStarted, Strays, EnterState, FailoverTo,
              ClosedState, isServer, TransportReady, TransportDown, Heard, HeardDwa, SendDwr,
              startConn, stopConn, Expires, AfterExpiry, Expiries, StraysAfter, IgnoreExpiry,
              DwasToReopen
<1> USE DEF TransportFollowsState, TimersFollowState, Strengthening, Runs
<1>1. CASE ClientClosedForce
  BY <1>1 DEF ClientClosedForce, ClientForced
<1>2. CASE ClientClosedReady
  BY <1>2 DEF ClientClosedReady
<1>3. CASE ClientClosedDown
  BY <1>3 DEF ClientClosedDown
<1>4. CASE ClientClosedStop
  BY <1>4 DEF ClientClosedStop
<1>5. CASE ServerClosedCer
  BY <1>5 DEF ServerClosedCer
<1>6. CASE ServerClosedStop
  BY <1>6 DEF ServerClosedStop
<1>7. CASE WaitCeaCea
  BY <1>7 DEF WaitCeaCea
<1>8. CASE WaitCeaStop
  BY <1>8 DEF WaitCeaStop
<1>9. CASE WaitCeaDown
  BY <1>9 DEF WaitCeaDown
<1>10. CASE OpenHeard
  BY <1>10 DEF OpenHeard
<1>11. CASE OpenDwr
  BY <1>11 DEF OpenDwr
<1>12. CASE OpenStop
  BY <1>12 DEF OpenStop, LeaveForDisconnect
<1>13. CASE OpenDpr
  BY <1>13 DEF OpenDpr, LeaveForDisconnect
<1>14. CASE OpenDown
  BY <1>14 DEF OpenDown
<1>15. CASE SuspectHeard
  BY <1>15 DEF SuspectHeard
<1>16. CASE SuspectDown
  BY <1>16 DEF SuspectDown
<1>17. CASE SuspectStop
  BY <1>17 DEF SuspectStop
<1>18. CASE DownReady
  BY <1>18 DEF DownReady
<1>19. CASE DownStop
  BY <1>19 DEF DownStop
<1>20. CASE ReopenDwa
  BY <1>20 DEF ReopenDwa
<1>21. CASE ReopenDown
  BY <1>21 DEF ReopenDown
<1>22. CASE ReopenStop
  BY <1>22 DEF ReopenStop
<1>23. CASE ClosingDone
  BY <1>23 DEF ClosingDone
<1>24. CASE ReadyIgnored
  BY <1>24 DEF ReadyIgnored
<1>25. CASE DownIgnored
  BY <1>25 DEF DownIgnored
<1>26. ASSUME NEW id \in Expiries, ClientClosedTimeout(id) PROVE Strengthening'
  BY <1>26 DEF ClientClosedTimeout
<1>27. ASSUME NEW id \in Expiries, WaitCeaTimeout(id) PROVE Strengthening'
  <2>1. CASE AfterExpiry(id)["twt"] # "none"
    BY <1>27, <2>1 DEF WaitCeaTimeout, NoTimerLost
  <2>2. CASE AfterExpiry(id)["twt"] = "none"
    BY <1>27, <2>2 DEF WaitCeaTimeout
  <2> QED
    BY <2>1, <2>2
<1>28. ASSUME NEW id \in Expiries, OpenTimeout(id) PROVE Strengthening'
  BY <1>28 DEF OpenTimeout
<1>29. ASSUME NEW id \in Expiries, SuspectTimeout(id) PROVE Strengthening'
  BY <1>29 DEF SuspectTimeout
<1>30. ASSUME NEW id \in Expiries, DownTimeout(id) PROVE Strengthening'
  BY <1>30 DEF DownTimeout
<1>31. ASSUME NEW id \in Expiries, ReopenTimeout(id) PROVE Strengthening'
  BY <1>31 DEF ReopenTimeout
<1>32. ASSUME NEW id \in Expiries, ClosingTimeout(id) PROVE Strengthening'
  BY <1>32 DEF ClosingTimeout
<1>33. CASE UNCHANGED vars
  BY <1>33
<1> QED
  BY <1>1, <1>2, <1>3, <1>4, <1>5, <1>6, <1>7, <1>8, <1>9, <1>10, <1>11, <1>12, <1>13, <1>14, <1>15, <1>16, <1>17, <1>18, <1>19, <1>20, <1>21, <1>22, <1>23, <1>24, <1>25, <1>26, <1>27, <1>28, <1>29, <1>30, <1>31, <1>32, <1>33 DEF Next, Timeout, OnReady, OnDown, OnPeerMsg, OnUser

LEMMA RetryAheadStep == IInv /\ [Next]_vars => RetryAhead'
<1> SUFFICES ASSUME TypeOK, TransportFollowsState, TimersFollowState, RetryAhead,
                    [Next]_vars
             PROVE  RetryAhead'
  BY DEF IInv
<1> USE DwrCount DEF TypeOK, ConnStates, Slots, SlotValues, TpStates, vars, watch
<1> USE DEF Started, Cleared, Restarted, RestartedOrStarted, Strays, EnterState, FailoverTo,
              ClosedState, isServer, TransportReady, TransportDown, Heard, HeardDwa, SendDwr,
              startConn, stopConn, Expires, AfterExpiry, Expiries, StraysAfter, IgnoreExpiry,
              DwasToReopen
<1> USE DEF TransportFollowsState, TimersFollowState, RetryAhead, OnlyFailures, NeverStranded,
              Runs
<1>1. CASE ClientClosedForce
  BY <1>1 DEF ClientClosedForce, ClientForced
<1>2. CASE ClientClosedReady
  BY <1>2 DEF ClientClosedReady
<1>3. CASE ClientClosedDown
  BY <1>3 DEF ClientClosedDown
<1>4. CASE ClientClosedStop
  BY <1>4 DEF ClientClosedStop
<1>5. CASE ServerClosedCer
  BY <1>5 DEF ServerClosedCer
<1>6. CASE ServerClosedStop
  BY <1>6 DEF ServerClosedStop
<1>7. CASE WaitCeaCea
  BY <1>7 DEF WaitCeaCea
<1>8. CASE WaitCeaStop
  BY <1>8 DEF WaitCeaStop
<1>9. CASE WaitCeaDown
  BY <1>9 DEF WaitCeaDown
<1>10. CASE OpenHeard
  BY <1>10 DEF OpenHeard
<1>11. CASE OpenDwr
  BY <1>11 DEF OpenDwr
<1>12. CASE OpenStop
  BY <1>12 DEF OpenStop, LeaveForDisconnect
<1>13. CASE OpenDpr
  BY <1>13 DEF OpenDpr, LeaveForDisconnect
<1>14. CASE OpenDown
  BY <1>14 DEF OpenDown
<1>15. CASE SuspectHeard
  BY <1>15 DEF SuspectHeard
<1>16. CASE SuspectDown
  BY <1>16 DEF SuspectDown
<1>17. CASE SuspectStop
  BY <1>17 DEF SuspectStop
<1>18. CASE DownReady
  BY <1>18 DEF DownReady
<1>19. CASE DownStop
  BY <1>19 DEF DownStop
<1>20. CASE ReopenDwa
  BY <1>20 DEF ReopenDwa
<1>21. CASE ReopenDown
  BY <1>21 DEF ReopenDown
<1>22. CASE ReopenStop
  BY <1>22 DEF ReopenStop
<1>23. CASE ClosingDone
  BY <1>23 DEF ClosingDone
<1>24. CASE ReadyIgnored
  BY <1>24 DEF ReadyIgnored
<1>25. CASE DownIgnored
  BY <1>25 DEF DownIgnored
<1>26. ASSUME NEW id \in Expiries, ClientClosedTimeout(id) PROVE RetryAhead'
  <2> DEFINE t == AfterExpiry(id)
  <2>1. CASE t["tpWaitConn"] # "none"
    BY <1>26, <2>1 DEF ClientClosedTimeout
  <2>2. CASE t["tpWaitConn"] = "none" /\ t["tpRetryConn"] # "none"
    <3>1. SUFFICES ASSUME OnlyFailures PROVE RetryAhead'
      OBVIOUS
    <3>2. PICK status \in StartStatus :
            CASE status = "TCP_CONN" -> timer' = Started(Cleared(t, "tpRetryConn"), "tpWaitConn")
              [] status = "FAIL"     -> timer' = Started(t, "tpRetryConn")
              [] OTHER               -> timer' = t
      BY <1>26, <2>2 DEF ClientClosedTimeout
    <3>3. status \in {"TCP_CONN", "FAIL"}
      BY <3>1, ConnStateAssumption
    <3>4. Runs("tpWaitConn")' \/ Runs("tpRetryConn")'
      BY <3>2, <3>3
    <3>5. timer'["tpRetryConn"] # "stale" /\ connState' = "CLIENT_CLOSED"
      BY <1>26, <3>2, <3>3 DEF ClientClosedTimeout
    <3> QED
      BY <3>4, <3>5
  <2>3. CASE t["tpWaitConn"] = "none" /\ t["tpRetryConn"] = "none"
    BY <1>26, <2>3 DEF ClientClosedTimeout
  <2> QED
    BY <2>1, <2>2, <2>3
<1>27. ASSUME NEW id \in Expiries, WaitCeaTimeout(id) PROVE RetryAhead'
  <2>1. CASE AfterExpiry(id)["twt"] # "none"
    BY <1>27, <2>1 DEF WaitCeaTimeout
  <2>2. CASE AfterExpiry(id)["twt"] = "none"
    BY <1>27, <2>2 DEF WaitCeaTimeout
  <2> QED
    BY <2>1, <2>2
<1>28. ASSUME NEW id \in Expiries, OpenTimeout(id) PROVE RetryAhead'
  BY <1>28 DEF OpenTimeout
<1>29. ASSUME NEW id \in Expiries, SuspectTimeout(id) PROVE RetryAhead'
  BY <1>29 DEF SuspectTimeout
<1>30. ASSUME NEW id \in Expiries, DownTimeout(id) PROVE RetryAhead'
  BY <1>30 DEF DownTimeout
<1>31. ASSUME NEW id \in Expiries, ReopenTimeout(id) PROVE RetryAhead'
  BY <1>31 DEF ReopenTimeout
<1>32. ASSUME NEW id \in Expiries, ClosingTimeout(id) PROVE RetryAhead'
  BY <1>32 DEF ClosingTimeout
<1>33. CASE UNCHANGED vars
  BY <1>33
<1> QED
  BY <1>1, <1>2, <1>3, <1>4, <1>5, <1>6, <1>7, <1>8, <1>9, <1>10, <1>11, <1>12, <1>13, <1>14, <1>15, <1>16, <1>17, <1>18, <1>19, <1>20, <1>21, <1>22, <1>23, <1>24, <1>25, <1>26, <1>27, <1>28, <1>29, <1>30, <1>31, <1>32, <1>33 DEF Next, Timeout, OnReady, OnDown, OnPeerMsg, OnUser

-----------------------------------------------------------------------------
(***************************************************************************)
(* The theorems.                                                           *)
(***************************************************************************)
LEMMA InitIInv == Init => IInv
<1> SUFFICES ASSUME Init PROVE IInv
  OBVIOUS
<1>1. timer \in [Slots -> SlotValues]
  BY DEF Init, NoTimers, Started, Slots, SlotValues
<1>2. TypeOK
  <2>1. connState \in ConnStates /\ tp \in TpStates
    BY DEF Init, ConnStates, TpStates
  <2>2. numDwa \in 0..2 /\ dwrOut \in 0..MaxDwr
    BY DwrCount DEF Init
  <2> QED
    BY <1>1, <2>1, <2>2 DEF Init, TypeOK
<1>3. connState \in {"SERVER_CLOSED", "CLIENT_CLOSED"} /\ listed = "waiting" /\ stray = FALSE
  BY DEF Init
<1>7. ListsFollowState /\ ActiveMeansOpen
  BY <1>3 DEF ListsFollowState, ActiveMeansOpen
<1>8. WaitsAreTimed /\ OpenIsSupervised /\ NoTimerLost
  BY <1>3 DEF WaitsAreTimed, OpenIsSupervised, NoTimerLost
<1>4. TimersFollowState
  BY DEF Init, NoTimers, Started, Slots, Runs, TimersFollowState
<1>5. TransportFollowsState
  BY DEF Init, TransportFollowsState
<1>6. Strengthening
  BY DEF Init, NoTimers, Started, Slots, Runs, Strengthening
<1>9. RetryAhead
  BY DEF Init, NoTimers, Started, Slots, Runs, RetryAhead, NeverStranded
<1> QED
  BY <1>2, <1>4, <1>5, <1>6, <1>7, <1>8, <1>9 DEF IInv

LEMMA StepIInv == IInv /\ [Next]_vars => IInv'
BY TypeStep, ListsFollowStateStep, ActiveMeansOpenStep, WaitsAreTimedStep, TimersFollowStateStep,
   TransportFollowsStateStep, OpenIsSupervisedStep, NoTimerLostStep, StrengtheningStep,
   RetryAheadStep DEF IInv

\* The invariant holds in every reachable state of the state machine.
THEOREM Invariance == Spec => []IInv
BY InitIInv, StepIInv, PTL DEF Spec

\* The variables keep their types.
THEOREM TypeCorrect == Spec => []TypeOK
<1>1. IInv => TypeOK
  BY DEF IInv
<1> QED
  BY Invariance, <1>1, PTL

\* The peer lists follow the state: what has failed over waits, what is open is
\* active.
THEOREM ListsCorrect == Spec => [](ListsFollowState /\ ActiveMeansOpen)
<1>1. IInv => ListsFollowState /\ ActiveMeansOpen
  BY DEF IInv
<1> QED
  BY Invariance, <1>1, PTL

\* No state waits for the peer without a timer, and an open connection of a peer
\* that keeps the protocol has its watchdog.
THEOREM TimersCorrect == Spec => [](WaitsAreTimed /\ TimersFollowState /\ OpenIsSupervised)
<1>1. IInv => WaitsAreTimed /\ TimersFollowState /\ OpenIsSupervised
  BY DEF IInv
<1> QED
  BY Invariance, <1>1, PTL

\* No handler loses the id of a running timer.
THEOREM TimersKept == Spec => []NoTimerLost
<1>1. IInv => NoTimerLost
  BY DEF IInv
<1> QED
  BY Invariance, <1>1, PTL

\* A client whose connection only ever fails is never stranded: in CLIENT_CLOSED
\* a timer of its own runs or the transport owes it a report.
THEOREM NeverStrandedByFailures == ASSUME OnlyFailures PROVE Spec => []NeverStranded
<1>1. IInv => NeverStranded
  BY DEF IInv, RetryAhead
<1> QED
  BY Invariance, <1>1, PTL

\* States that stand for a connection have one.
THEOREM TransportCorrect == Spec => []TransportFollowsState
<1>1. IInv => TransportFollowsState
  BY DEF IInv
<1> QED
  BY Invariance, <1>1, PTL

(***************************************************************************)
(* A failover has a reason.                                                *)
(***************************************************************************)
LEMMA FailoverSteps ==
  ASSUME Next, listed = "active", listed' = "waiting"
  PROVE  OpenDown \/ (OpenTimeout("watchdog") /\ isWaitDwa /\ UNCHANGED dwrOut)
<1> USE DEF EnterState, IgnoreExpiry, FailoverTo, LeaveForDisconnect, ClosedState
<1>1. CASE OnReady
  BY <1>1 DEF OnReady, ClientClosedReady, DownReady, ReadyIgnored
<1>2. CASE OnDown
  <2>1. CASE ClientClosedDown \/ WaitCeaDown \/ DownIgnored
    BY <2>1 DEF ClientClosedDown, WaitCeaDown, DownIgnored
  <2>2. CASE SuspectDown
    BY <2>2 DEF SuspectDown
  <2>3. CASE ReopenDown
    BY <2>3 DEF ReopenDown
  <2> QED
    BY <1>2, <2>1, <2>2, <2>3 DEF OnDown
<1>3. CASE OnPeerMsg
  BY <1>3 DEF OnPeerMsg, ServerClosedCer, WaitCeaCea, OpenHeard, OpenDwr, OpenDpr,
              SuspectHeard, ReopenDwa, ClosingDone
<1>4. CASE OnUser
  BY <1>4 DEF OnUser, ClientClosedForce, ClientClosedStop, ServerClosedStop, WaitCeaStop,
              OpenStop, SuspectStop, DownStop, ReopenStop
<1>5. ASSUME NEW id \in Expiries, Timeout(id)
      PROVE  OpenTimeout("watchdog") /\ isWaitDwa /\ UNCHANGED dwrOut
  BY <1>5 DEF Timeout, ClientClosedTimeout, WaitCeaTimeout, OpenTimeout, SuspectTimeout,
              DownTimeout, ReopenTimeout, ClosingTimeout
<1> QED
  BY <1>1, <1>2, <1>3, <1>4, <1>5 DEF Next

\* A connection leaves the active list only when its peer owes an answer to a DWR
\* or the transport has reported the connection's end.
THEOREM FailoverJustified == Spec => FailoverOnEvidence
<1>1. IInv /\ [Next]_vars =>
        [listed = "active" /\ listed' = "waiting" => dwrOut > 0 \/ tp' = "idle"]_vars
  <2> SUFFICES ASSUME IInv, Next, listed = "active", listed' = "waiting"
               PROVE  dwrOut > 0 \/ tp' = "idle"
    BY DEF vars
  <2>1. CASE OpenDown
    BY <2>1 DEF OpenDown, TransportDown
  <2>2. CASE OpenTimeout("watchdog") /\ isWaitDwa
    BY <2>2 DEF OpenTimeout, Expires, IInv, Strengthening, Runs
  <2> QED
    BY FailoverSteps, <2>1, <2>2
<1> QED
  BY Invariance, <1>1, PTL DEF Spec, FailoverOnEvidence

(***************************************************************************)
(* The dcb implements DiaPeerLife.                                         *)
(***************************************************************************)
LEMMA LifeStep == IInv /\ [Next]_vars => [Life!LifeNext]_(Life!lifeVars)
<1> SUFFICES ASSUME ListsFollowState, [Next]_vars PROVE [Life!LifeNext]_(Life!lifeVars)
  BY DEF IInv
<1> USE DEF ListsFollowState, Phase, Life!lifeVars, EnterState, FailoverTo, ClosedState, isServer
<1> USE DEF Life!LifeNext, Life!Connect, Life!Abort, Life!Establish, Life!Failover, Life!Failback,
            Life!GiveUp, Life!Leave, Life!Left, Life!Die
<1>1. CASE OnReady
  BY <1>1 DEF OnReady, ClientClosedReady, DownReady, ReadyIgnored
<1>2. CASE OnDown
  BY <1>2 DEF OnDown, ClientClosedDown, WaitCeaDown, OpenDown, SuspectDown, ReopenDown, DownIgnored
<1>3. CASE OnPeerMsg
  BY <1>3 DEF OnPeerMsg, ServerClosedCer, WaitCeaCea, OpenHeard, OpenDwr, OpenDpr,
              SuspectHeard, ReopenDwa, ClosingDone, LeaveForDisconnect
<1>4. CASE OnUser
  BY <1>4 DEF OnUser, ClientClosedForce, ClientClosedStop, ServerClosedStop, WaitCeaStop,
              OpenStop, SuspectStop, DownStop, ReopenStop, LeaveForDisconnect
<1>5. ASSUME NEW id \in Expiries, Timeout(id) PROVE [Life!LifeNext]_(Life!lifeVars)
  BY <1>5 DEF Timeout, ClientClosedTimeout, WaitCeaTimeout, OpenTimeout, SuspectTimeout,
              DownTimeout, ReopenTimeout, ClosingTimeout, IgnoreExpiry
<1>6. CASE UNCHANGED vars
  BY <1>6 DEF vars
<1> QED
  BY <1>1, <1>2, <1>3, <1>4, <1>5, <1>6 DEF Next

\* Every behaviour of the state machine, seen through Phase and the list that
\* holds the dcb, is a behaviour of the abstract peer life.
THEOREM ImplementsLife == Spec => LifeOfPeer
<1>1. Init => Life!LifeInit
  BY DEF Init, Phase, Life!LifeInit
<1> QED
  BY <1>1, LifeStep, Invariance, PTL DEF Spec, LifeOfPeer, Life!LifeSpec
=============================================================================
