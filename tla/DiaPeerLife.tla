---------------------------- MODULE DiaPeerLife ----------------------------
(***************************************************************************)
(* What a peer connection promises the rest of the stack, whatever timers  *)
(* and messages drive it: the phases it goes through, and that it takes    *)
(* its element out of and into the active peer list with them. The list    *)
(* moves only on the three steps below that say so.                        *)
(*                                                                         *)
(* DiaConnState implements this for one dcb; DiaConnMgr builds its peer    *)
(* groups from peers that live like this.                                  *)
(***************************************************************************)

VARIABLES
  phase,    \* where the peer is in its life
  active    \* whether its element is in the active list of its group

lifeVars == <<phase, active>>

Phases == {"closed", "handshake", "open", "failed", "closing", "dead"}

\* The capability exchange begins, and is given up.
Connect == phase = "closed" /\ phase' = "handshake" /\ UNCHANGED active
Abort == phase = "handshake" /\ phase' = "closed" /\ UNCHANGED active

\* It succeeds (a server goes straight from closed to open).
Establish == phase \in {"closed", "handshake"} /\ phase' = "open" /\ active' = TRUE

\* The peer fails: its traffic goes elsewhere until it has proved itself.
Failover == phase = "open" /\ phase' = "failed" /\ active' = FALSE
Failback == phase = "failed" /\ phase' = "open" /\ active' = TRUE
GiveUp == phase = "failed" /\ phase' = "closed" /\ UNCHANGED active

\* The connection is taken down in an orderly way. The code moves no list
\* element here.
Leave == phase = "open" /\ phase' = "closing" /\ UNCHANGED active
Left == phase = "closing" /\ phase' = "closed" /\ UNCHANGED active
Die == phase = "open" /\ phase' = "dead" /\ UNCHANGED active

LifeInit == phase = "closed" /\ active = FALSE

LifeNext ==
  \/ Connect \/ Abort \/ Establish
  \/ Failover \/ Failback \/ GiveUp
  \/ Leave \/ Left \/ Die

LifeSpec == LifeInit /\ [][LifeNext]_lifeVars
=============================================================================
