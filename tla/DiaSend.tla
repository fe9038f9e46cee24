------------------------------ MODULE DiaSend ------------------------------
(***************************************************************************)
(* How a Cx request finds its connection: the turns that diaCx_sendUAR,    *)
(* diaCx_sendLIR and diaCx_sendSAR take in the peer groups of DiaConnMgr,  *)
(* and the one diaSendAppMsg takes when it is passed no connection. The    *)
(* application may send from threads of its own: a peer joins or leaves    *)
(* the lists, or another request takes a turn, while one is being built. A *)
(* turn is one step.                                                       *)
(***************************************************************************)
EXTENDS DiaConnMgr

CONSTANTS
  Requests,
  ByPeer      \* LIR and SAR, which pass on the peer they name; a UAR passes NULL

ASSUME ByPeerAssumption == ByPeer \subseteq Requests

VARIABLES
  step,      \* of each request
  destHost,  \* the peer it names in Destination-Host
  carrier    \* the peer whose connection it is sent on

sendVars == <<step, destHost, carrier>>
allVars == <<mgrVars, sendVars>>

SendTypeOK ==
  /\ step \in [Requests -> {"new", "built", "sent", "refused"}]
  /\ destHost \in [Requests -> Peers \cup {Nobody}]
  /\ carrier \in [Requests -> Peers \cup {Nobody}]

\* A socket takes the message: from the TCP handshake until it is closed.
Connected(p) == phase[p] \in {"handshake", "open", "failed", "closing"}

NoPeer == \A g \in Groups : intfState = g => pNextPeer[g] = Nobody

Refuse(r) ==
  /\ step' = [step EXCEPT ![r] = "refused"]
  /\ destHost' = [destHost EXCEPT ![r] = Nobody]
  /\ UNCHANGED carrier

(***************************************************************************)
(* diaCx_sendUAR, diaCx_sendLIR and diaCx_sendSAR                          *)
(***************************************************************************)
\* The first turn: the request is built with the host and realm of its peer.
buildFor(r) ==
  /\ step[r] = "new" /\ step' = [step EXCEPT ![r] = "built"]
  /\ diaConnGetActiveDcb
  /\ destHost' = [destHost EXCEPT ![r] = pNextPeer[intfState]]
  /\ UNCHANGED carrier

\* There is no connection.
noActiveDcb(r) ==
  /\ step[r] = "new" /\ NoPeer
  /\ Refuse(r)
  /\ UNCHANGED mgrVars

\* An AVP cannot be encoded.
buildFails(r) == step[r] = "built" /\ Refuse(r) /\ UNCHANGED mgrVars

(***************************************************************************)
(* diaSendAppMsg                                                           *)
(***************************************************************************)
transport_send(r, p) ==
  \/ /\ Connected(p)
     /\ step' = [step EXCEPT ![r] = "sent"]
     /\ carrier' = [carrier EXCEPT ![r] = p]
     /\ UNCHANGED destHost
  \/ Refuse(r)

\* Without a connection from its caller it takes a turn of its own.
sendAppMsg(r) ==
  /\ step[r] = "built"
  /\ IF r \in ByPeer
       THEN transport_send(r, destHost[r]) /\ UNCHANGED mgrVars
       ELSE \/ diaConnGetActiveDcb /\ transport_send(r, pNextPeer[intfState])
            \/ NoPeer /\ Refuse(r) /\ UNCHANGED mgrVars

-----------------------------------------------------------------------------
SendInit ==
  /\ Init
  /\ step = [r \in Requests |-> "new"]
  /\ destHost = [r \in Requests |-> Nobody]
  /\ carrier = [r \in Requests |-> Nobody]

SendNext ==
  \/ Next /\ UNCHANGED sendVars
  \/ /\ Alive
     /\ \E r \in Requests :
          buildFor(r) \/ noActiveDcb(r) \/ buildFails(r) \/ sendAppMsg(r)

SendSpec == SendInit /\ [][SendNext]_allVars

-----------------------------------------------------------------------------
\* The peer that takes the next request is in an active list.
NextIsActive == intfState # "none" /\ pNextPeer[intfState] \in Active(intfState)

\* Once requests go to active peers they do so until the very peer whose turn it is fails
\* over: no failover of another peer, no peer that joins, no change of group and no turn
\* of another sender takes them off. Until then a UAR leaves on the connection of an
\* active peer, also when the peer of its first turn has failed in between.
SendsStayActive ==
  [][/\ NextIsActive /\ ~NextIsActive' => FailsOver(pNextPeer[intfState])
     /\ \A r \in Requests \ ByPeer :
          NextIsActive /\ step[r] = "built" /\ step'[r] = "sent"
            => carrier'[r] \in Active(intfState)]_allVars
=============================================================================
