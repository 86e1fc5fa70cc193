--------------------------- MODULE EcafeRefinement ---------------------------
(***************************************************************************)
(* The system of module Ecafe implements what two smaller specifications   *)
(* promise: ClientTable, of the PCs the server lists, and RemoteControl, of*)
(* the requests the controllers make.                                      *)
(***************************************************************************)
EXTENDS Ecafe

(* The life of a client's timer, from the two fields that the code keeps:  *)
(* an action whose timer is gone was issued, a timer without an action was *)
(* never filled in.                                                        *)
LifeOf(client) ==
    CASE client.timer = "none" /\ client.timer_uri = NoUri -> "idle"
      [] client.timer = "none" /\ client.timer_uri # NoUri -> "issued"
      [] client.timer # "none" /\ client.timer_uri = NoUri -> "broken"
      [] client.timer = "due"  /\ client.timer_uri # NoUri -> "due"
      [] OTHER -> "set"

EntryOf(client) ==
    [online |-> client.is_online, life |-> LifeOf(client), action |-> client.timer_uri]

TableOf(cl) == [n \in Ids(cl) |-> EntryOf(cl[client_get(cl, n)])]

Table == INSTANCE ClientTable WITH
            Action <- Uri \ {NoUri}, NoAction <- NoUri,
            table <- TableOf(clients), given <- last_id

(* The server's list of clients, with the pointers, descriptors and flags  *)
(* around it, is the table that ClientTable promises: numbers are given    *)
(* once, and each timer is set, falls due, is issued and is answered in    *)
(* this order, once, with the action it was set for - although the code    *)
(* keeps no such state and tells the stages apart by two fields.           *)
ImplementsTable == Table!TableSpec

-----------------------------------------------------------------------------
AnyInFlight(kind, t) ==
    \E c \in Conn : \E m \in InFlight(conn[c].up) \cup InFlight(conn[c].down) :
        m.kind = kind /\ m.tag = t

StageOf(t) ==
    IF AnyInFlight("request", t) THEN "asked"
    ELSE IF AnyInFlight("response", t) THEN "answered"
    ELSE IF t <= nreq THEN "over" ELSE "unasked"

(* The messages of a queue about request t, by their places.               *)
OfTag(queue, t) == {n \in DOMAIN queue : queue[n].tag = t}
Bare(x, t) == OfTag(x.up, t) = {} /\ OfTag(x.down, t) = {}
Absent(cn, t) == \A c \in Conn : Bare(cn[c], t)

(* There is one message about it at most, on all connections together.     *)
Single(cn, t) ==
    /\ \A c \in Conn :
         /\ \A j, k \in OfTag(cn[c].up, t) : j = k
         /\ \A j, k \in OfTag(cn[c].down, t) : j = k
         /\ OfTag(cn[c].up, t) = {} \/ OfTag(cn[c].down, t) = {}
    /\ \A c, d \in Conn : c = d \/ Bare(cn[c], t) \/ Bare(cn[d], t)

(* What is proved of every request: there is one message about it at most, *)
(* none and no trace before it is made, and while it is a request nobody   *)
(* has carried it out.                                                     *)
Traced(t) ==
    /\ Single(conn, t)
    /\ t > nreq => Absent(conn, t) /\ ~CarriedOut(t)
    /\ AnyInFlight("request", t) => ~CarriedOut(t)

ControlInv == \A t \in ReqTag : Traced(t)

Control == INSTANCE RemoteControl WITH
            Asked <- ReqTag,
            stage <- [t \in ReqTag |-> StageOf(t)],
            done <- {x.tag : x \in executed} \cap ReqTag

(* Whatever is relayed, refused, merged by a read or written to a stale    *)
(* descriptor, a request is carried out once at most and never again once  *)
(* it was answered, and its answer is not multiplied.                      *)
ImplementsControl == Control!ControlSpec
=============================================================================
