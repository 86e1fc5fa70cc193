---------------------------- MODULE RemoteControl ----------------------------
(***************************************************************************)
(* What the system promises about a request that a controller makes: it is *)
(* on its way, is then carried out once or answered without that, and its  *)
(* answer is on its way back - or it gets lost at either stage.  It never  *)
(* goes back a stage, so that nothing is carried out or answered twice.    *)
(* One step may move several requests: a read takes all that has arrived.  *)
(***************************************************************************)
CONSTANT Asked      \* the requests

VARIABLES
    stage,      \* where each request is
    done        \* the requests that a PC has carried out

controlVars == <<stage, done>>

Stages == {"unasked", "asked", "answered", "over"}

ControlInit == stage = [t \in Asked |-> "unasked"] /\ done = {}

Moves(t, from, to) == stage[t] = from /\ stage'[t] = to

Ask(t)      == Moves(t, "unasked", "asked")    /\ (t \in done' <=> t \in done)
CarryOut(t) == Moves(t, "asked", "answered")   /\ t \in done' \ done
Refuse(t)   == Moves(t, "asked", "answered")   /\ (t \in done' <=> t \in done)
Lose(t)     == stage[t] \in {"asked", "answered"} /\ stage'[t] = "over"
                                               /\ (t \in done' <=> t \in done)
Stay(t)     == stage'[t] = stage[t]            /\ (t \in done' <=> t \in done)

ControlNext ==
    /\ DOMAIN stage' = Asked /\ done' \subseteq Asked
    /\ \A t \in Asked : Stay(t) \/ Ask(t) \/ CarryOut(t) \/ Refuse(t) \/ Lose(t)

ControlSpec == ControlInit /\ [][ControlNext]_controlVars
=============================================================================
