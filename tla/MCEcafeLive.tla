----------------------------- MODULE MCEcafeLive -----------------------------
(***************************************************************************)
(* The fair programs in two small instances, of which each behaviour has   *)
(* one: a PC that may come back and two requests, timers among them, or    *)
(* two PCs that come once, beside a request without a timer.  The bounds   *)
(* are on joining, starting and asking only, of which nothing fair is      *)
(* assumed: no step of the server, an agent or time meets them.            *)
(***************************************************************************)
EXTENDS MCEcafe

VARIABLE instance

ConnectionsOf(peer) == {c \in 1..nconn' : conn'[c].peer = peer}

OnePC == nconn' <= 2 /\ ConnectionsOf(m2) = {}

\* The PCs are interchangeable, so the first to join may as well be m1.
TwoPCs ==
    /\ nreq' <= 1
    /\ \A c \in 1..nconn' : \A n \in DOMAIN conn'[c].up : conn'[c].up[n].uri # "timer"
    /\ \A peer \in Machine \cup Controller : Cardinality(ConnectionsOf(peer)) <= 1
    /\ \A c \in ConnectionsOf(m2) : \E d \in ConnectionsOf(m1) : d < c

Within == IF instance = "one" THEN OnePC ELSE TwoPCs

LiveInit == Init /\ instance \in {"one", "two"}

LiveNext == Next /\ Within /\ UNCHANGED instance

\* The fairness of Ecafe!Spec.
LiveSpec ==
    /\ LiveInit /\ [][LiveNext]_<<vars, instance>>
    /\ WF_vars(ServerStep /\ UNCHANGED <<executed, controllerVars>>)
    /\ WF_vars(TimePasses /\ UNCHANGED <<executed, controllerVars>>)
    /\ \A c \in Conn :
         WF_vars(/\ c \in AgentConn /\ AgentRequest(c)
                 /\ UNCHANGED <<serverVars, controllerVars>>)
=============================================================================
