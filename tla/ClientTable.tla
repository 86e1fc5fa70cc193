----------------------------- MODULE ClientTable -----------------------------
(***************************************************************************)
(* What the server promises about the PCs it lists, whatever connections   *)
(* come and go and whatever the loop finds: a PC joins under a number of   *)
(* its own, is online or not as it last answered, and has one timer at     *)
(* most, which goes through its life in order - set, due, issued, answered *)
(* - and keeps its action all the way.                                     *)
(***************************************************************************)
EXTENDS Naturals

CONSTANTS
    Action,     \* what a timer can be set to do
    NoAction    \* not one of them: what a PC has without a timer

VARIABLES
    table,      \* the PCs that are listed, by their number
    given       \* the number given last

tableVars == <<table, given>>

(* "broken": a timer that was given no action, and none after it.          *)
Life == {"idle", "set", "due", "issued", "broken"}

Entry == [online : BOOLEAN, life : Life, action : Action \cup {NoAction}]

TableInit == table = [n \in {} |-> 0] /\ given = 0

Fresh == [online |-> TRUE, life |-> "idle", action |-> NoAction]

Join ==
    /\ given' = given + 1
    /\ table' = [n \in DOMAIN table \cup {given'} |->
                    IF n = given' THEN Fresh ELSE table[n]]

Leave(n) == table' = [k \in DOMAIN table \ {n} |-> table[k]]

(* The answer to an action that was issued by a timer makes room for the   *)
(* next timer.                                                             *)
Answer(n) ==
    \E b \in BOOLEAN :
        table' = [table EXCEPT
                    ![n].online = b,
                    ![n].life   = IF @ = "issued" THEN "idle" ELSE @,
                    ![n].action = IF table[n].life = "issued" THEN NoAction ELSE @]

SetTimer(n) ==
    /\ table[n].life = "idle"
    /\ \E a \in Action : table' = [table EXCEPT ![n].life = "set", ![n].action = a]

Spoil(n) ==
    /\ table[n].life = "idle"
    /\ table' = [table EXCEPT ![n].life = "broken"]

Expire(n) ==
    /\ table[n].life = "set"
    /\ table' = [table EXCEPT ![n].life = "due"]

Issue(n) ==
    /\ table[n].life = "due"
    /\ table' = [table EXCEPT ![n].life = "issued"]

Change(n) ==
    \/ Leave(n) \/ Answer(n) \/ SetTimer(n) \/ Spoil(n) \/ Expire(n) \/ Issue(n)

TableNext ==
    \/ Join
    \/ \E n \in DOMAIN table : Change(n) /\ UNCHANGED given

TableSpec == TableInit /\ [][TableNext]_tableVars
=============================================================================
