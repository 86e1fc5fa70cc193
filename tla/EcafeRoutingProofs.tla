------------------------- MODULE EcafeRoutingProofs -------------------------
(***************************************************************************)
(* Proofs about the list of clients and about where requests and answers   *)
(* go, for any number of PCs, controllers, connections and requests.       *)
(* First that the list implements the table that ClientTable promises, and *)
(* that no timer's action is issued twice, for which the positions of the  *)
(* list whose timer has yet to fire are counted.  Then RoutingInv is shown *)
(* to be inductive, action by action, and with it the properties of Ecafe  *)
(* that rest on it.                                                        *)
(***************************************************************************)
EXTENDS EcafeRefinement, EcafeProofs

(* The list is in the order of the ids.                                    *)
Ascending(cl) == \A j, k \in 1..Len(cl) : j < k => cl[j].id < cl[k].id

(* A client is shown as an entry of the table.                             *)
LEMMA EntryIsEntry ==
    ASSUME NEW client \in Client
    PROVE  /\ EntryOf(client) \in Table!Entry
           /\ EntryOf(client).online = client.is_online
           /\ EntryOf(client).life = LifeOf(client)
           /\ EntryOf(client).action = client.timer_uri
<1>1. LifeOf(client) \in Table!Life
    BY DEF LifeOf, Table!Life, Client, Timer
<1>. QED
    BY <1>1 DEF EntryOf, Table!Entry, Client

(* The table has, under the id of each client of the list, its entry.      *)
LEMMA TableSays ==
    ASSUME NEW cl \in Seq(Client), Ascending(cl)
    PROVE  /\ TableOf(cl) \in [Ids(cl) -> Table!Entry]
           /\ \A k \in 1..Len(cl) : /\ cl[k].id \in Ids(cl)
                                    /\ TableOf(cl)[cl[k].id] = EntryOf(cl[k])
           /\ \A n \in Ids(cl) : \E k \in 1..Len(cl) : n = cl[k].id
<1>1. DOMAIN cl = 1..Len(cl)
    BY LenProperties
<1>2. \A n \in Ids(cl) : \E k \in 1..Len(cl) : n = cl[k].id
    BY <1>1 DEF Ids
<1>3. \A k \in 1..Len(cl) : cl[k].id \in Ids(cl)
    BY <1>1 DEF Ids
<1>4. ASSUME NEW n \in Ids(cl) PROVE EntryOf(cl[client_get(cl, n)]) \in Table!Entry
    BY ClientGetFinds, EntryIsEntry
<1>5. TableOf(cl) \in [Ids(cl) -> Table!Entry]
    BY <1>4 DEF TableOf
<1>6. ASSUME NEW k \in 1..Len(cl) PROVE TableOf(cl)[cl[k].id] = EntryOf(cl[k])
    <2>1. client_get(cl, cl[k].id) = k
        BY ClientGetIsUnique DEF Ascending
    <2>. QED
        BY <1>3, <2>1 DEF TableOf
<1>. QED
    BY <1>2, <1>3, <1>5, <1>6

(* Two lists with the same clients are tables with the same ids.           *)
LEMMA SameIds ==
    ASSUME NEW cl \in Seq(Client), NEW cl1, SameClients(cl, cl1), Ascending(cl)
    PROVE  /\ cl1 \in Seq(Client) /\ Ascending(cl1) /\ Len(cl1) = Len(cl)
           /\ Ids(cl1) = Ids(cl)
<1>1. /\ cl1 \in Seq(Client) /\ Len(cl1) = Len(cl)
      /\ DOMAIN cl = 1..Len(cl) /\ DOMAIN cl1 = 1..Len(cl1)
    BY LenProperties DEF SameClients
<1>2. \A k \in 1..Len(cl) : cl1[k].id = cl[k].id
    BY DEF SameClients
<1>3. Ids(cl1) = Ids(cl)
    BY <1>1, <1>2 DEF Ids
<1>4. Ascending(cl1)
    BY <1>1, <1>2 DEF Ascending
<1>. QED
    BY <1>1, <1>3, <1>4

(* A change of one client is a change of its entry.                        *)
LEMMA OneEntry ==
    ASSUME NEW cl \in Seq(Client), Ascending(cl), NEW j \in 1..Len(cl),
           NEW x \in Client, x.id = cl[j].id, x.fd = cl[j].fd
    PROVE  TableOf([cl EXCEPT ![j] = x]) = [TableOf(cl) EXCEPT ![cl[j].id] = EntryOf(x)]
<1>. DEFINE cl1 == [cl EXCEPT ![j] = x]
            T   == TableOf(cl)
            T1  == TableOf(cl1)
            id  == cl[j].id
<1>1. SameClients(cl, cl1)
    BY SetClient
<1>2. DOMAIN cl = 1..Len(cl)
    BY LenProperties
<1>3. cl1[j] = x /\ \A k \in 1..Len(cl) : k # j => cl1[k] = cl[k]
    BY <1>2
<1>. HIDE DEF cl1
<1>4. /\ cl1 \in Seq(Client) /\ Ascending(cl1) /\ Len(cl1) = Len(cl)
      /\ Ids(cl1) = Ids(cl)
    BY <1>1, SameIds
<1>5. /\ T \in [Ids(cl) -> Table!Entry]
      /\ \A k \in 1..Len(cl) : cl[k].id \in Ids(cl) /\ T[cl[k].id] = EntryOf(cl[k])
      /\ \A n \in Ids(cl) : \E k \in 1..Len(cl) : n = cl[k].id
    BY TableSays
<1>6. /\ T1 \in [Ids(cl) -> Table!Entry]
      /\ \A k \in 1..Len(cl) : T1[cl1[k].id] = EntryOf(cl1[k])
    BY <1>4, TableSays
<1>. HIDE DEF T, T1
<1>7. T1[id] = EntryOf(x)
    BY <1>3, <1>6
<1>8. ASSUME NEW n \in Ids(cl), n # id PROVE T1[n] = T[n]
    <2>1. PICK k \in 1..Len(cl) : n = cl[k].id
        BY <1>5
    <2>2. k # j
        BY <1>8, <2>1
    <2>. QED
        BY <1>3, <1>5, <1>6, <2>1, <2>2
<1>9. T1 = [T EXCEPT ![id] = EntryOf(x)]
    BY <1>5, <1>6, <1>7, <1>8
<1>. QED
    BY <1>9 DEF T, T1, cl1

-----------------------------------------------------------------------------
(* What a handler of a request may do to the list of clients: only that of *)
(* "timer" changes it, in one client that had no timer.                    *)
TimerGiven(cl, req, cl1) ==
    /\ req.uri = "timer" /\ MayArm(cl, req)
    /\ LET k == client_get(cl, req.id)
       IN  \/ \E t \in {"armed", "due", "never"} : cl1 = [cl EXCEPT ![k].timer = t]
           \/ /\ req.action \in ServerCommand
              /\ cl1 = [cl EXCEPT ![k].timer = "armed", ![k].timer_uri = req.action]

(* A write, a refusal and a consent leave the list as it was given to them.*)
LEMMA WritesKeepList ==
    ASSUME NEW cn, NEW cl, NEW f
    PROVE  /\ \A m : \A o \in Send(cn, cl, f, m) : o.clients = cl
           /\ \A req : \A o \in Refuse(cn, cl, f, req) \cup Agree(cn, cl, f, req) :
                 o.clients = cl
<1>1. ASSUME NEW m, NEW o \in Send(cn, cl, f, m) PROVE o.clients = cl
    BY DEF Send, Outcome
<1>2. ASSUME NEW req, NEW o \in Refuse(cn, cl, f, req) \cup Agree(cn, cl, f, req)
      PROVE  o.clients = cl
    <2>1. \/ o \in Send(cn, cl, f, MakeResponse(req.uri, 400, FALSE, req.tag))
          \/ o \in Send(cn, cl, f, MakeResponse(req.uri, 200, FALSE, req.tag))
        BY <1>2 DEF Refuse, Agree, Answer
    <2>. QED
        BY <1>1, <2>1
<1>. QED
    BY <1>1, <1>2

(* A request leaves the list alone, or gives one client a timer.           *)
LEMMA RequestChanges ==
    ASSUME NEW cn, NEW cl, NEW req, NEW f,
           NEW o \in ecafe_request_handle(cn, cl, req, f)
    PROVE  o.clients = cl \/ TimerGiven(cl, req, o.clients)
<1>1. CASE req.uri = "clientall"
    <2>1. o \in ecafe_clientall(cn, cl, req, f)
        BY <1>1 DEF ecafe_request_handle, RelayedCommand
    <2>. QED
        BY <2>1, WritesKeepList DEF ecafe_clientall, Answer, Outcome
<1>2. CASE req.uri = "client"
    <2>1. o \in ecafe_client(cn, cl, req, f)
        BY <1>2 DEF ecafe_request_handle, RelayedCommand
    <2>2. CASE req.id \notin Ids(cl)
        BY <2>1, <2>2, WritesKeepList DEF ecafe_client
    <2>3. CASE req.id \in Ids(cl)
        <3>1. PICK w \in Write(cn, cl[client_get(cl, req.id)].fd, req) :
                  o \in IF w.rv = "failed" THEN Refuse(w.conn, cl, f, req)
                        ELSE {Outcome(w.conn, cl, Fate(w))}
            BY <2>1, <2>3 DEF ecafe_client
        <3>. QED
            BY <3>1, WritesKeepList DEF Outcome
    <2>. QED
        BY <2>2, <2>3
<1>3. CASE req.uri = "timer"
    <2>. DEFINE k == client_get(cl, req.id)
    <2>1. o \in ecafe_timer(cn, cl, req, f)
        BY <1>3 DEF ecafe_request_handle, RelayedCommand
    <2>2. CASE ~MayArm(cl, req)
        BY <2>1, <2>2, WritesKeepList DEF ecafe_timer
    <2>3. CASE MayArm(cl, req) /\ ~Arms(cl, req)
        <3>. DEFINE Bad(t) == Refuse(cn, [cl EXCEPT ![k].timer = t], f, req)
        <3>1. o \in UNION {Bad(t) : t \in {"armed", "due", "never"}}
            BY <2>1, <2>3 DEF ecafe_timer
        <3>2. PICK t \in {"armed", "due", "never"} : o \in Bad(t)
            <4>. HIDE DEF Bad
            <4>. QED
                BY <3>1
        <3>3. o.clients = [cl EXCEPT ![k].timer = t]
            BY <3>2, WritesKeepList
        <3>. QED
            BY <1>3, <2>3, <3>3 DEF TimerGiven
    <2>4. CASE Arms(cl, req)
        <3>. DEFINE cl1 == [cl EXCEPT ![k].timer = "armed", ![k].timer_uri = req.action]
        <3>1. o \in Agree(cn, cl1, f, req)
            BY <2>1, <2>4 DEF ecafe_timer, Arms
        <3>. HIDE DEF cl1
        <3>2. o.clients = cl1
            BY <3>1, WritesKeepList
        <3>. QED
            BY <1>3, <2>4, <3>2 DEF TimerGiven, Arms, cl1
    <2>. QED
        BY <2>2, <2>3, <2>4
<1>4. CASE req.uri \in RelayedCommand \cup {"getdetails", "screenshot"}
    <2>1. o \in Relay(cn, cl, req)
        BY <1>4 DEF ecafe_request_handle, RelayedCommand
    <2>. QED
        BY <2>1, WritesKeepList DEF Relay, Outcome
<1>5. CASE req.uri \notin RelayedCommand \cup {"getdetails", "screenshot",
                                              "clientall", "client", "timer"}
    <2>1. o = Outcome(cn, cl, "running")
        BY <1>5 DEF ecafe_request_handle
    <2>. QED
        BY <2>1 DEF Outcome
<1>. QED
    BY <1>1, <1>2, <1>3, <1>4, <1>5

(* What a handler of a response may do to the list: say that the client    *)
(* that it came from is online or not, and forget a timer that was issued. *)
AnswerNoted(cl, k, res, cl1) ==
    \E b \in BOOLEAN :
       /\ b \/ ~cl[k].is_online \/ res.uri = "lock"
       /\ LET x == [cl[k] EXCEPT !.is_online = b]
          IN  \/ ~FromTimer(cl[k]) /\ cl1 = [cl EXCEPT ![k] = x]
              \/ FromTimer(cl[k]) /\ cl1 = [cl EXCEPT ![k] = [x EXCEPT !.timer_uri = NoUri]]

(* A response leaves the list alone, or notes the answer of its client.    *)
LEMMA ResponseChanges ==
    ASSUME NEW cn, NEW cl \in Seq(Client), NEW k \in 1..Len(cl), NEW res, NEW f,
           NEW o \in ecafe_response_handle(cn, cl, k, res, f)
    PROVE  o.clients = cl \/ AnswerNoted(cl, k, res, o.clients)
<1>. DEFINE noted == Noted(cl, k, res)
            kept  == [noted EXCEPT ![k].timer_uri = NoUri]
<1>1. DOMAIN cl = 1..Len(cl) /\ cl[k] \in Client
    BY LenProperties, ElementOfSeq
<1>2. \E b \in BOOLEAN : /\ b \/ ~cl[k].is_online \/ res.uri = "lock"
                         /\ noted = [cl EXCEPT ![k] = [cl[k] EXCEPT !.is_online = b]]
    <2>1. cl[k].is_online \in BOOLEAN /\ cl[k] = [cl[k] EXCEPT !.is_online = cl[k].is_online]
        BY <1>1 DEF Client
    <2>2. cl = [cl EXCEPT ![k] = cl[k]]
        BY <1>1, ExceptSeq
    <2>. QED
        BY <2>1, <2>2 DEF Noted
<1>3. PICK b \in BOOLEAN : /\ b \/ ~cl[k].is_online \/ res.uri = "lock"
                           /\ noted = [cl EXCEPT ![k] = [cl[k] EXCEPT !.is_online = b]]
    BY <1>2
<1>. DEFINE x == [cl[k] EXCEPT !.is_online = b]
<1>4. kept = [cl EXCEPT ![k] = [x EXCEPT !.timer_uri = NoUri]]
    BY <1>1, <1>3
<1>. HIDE DEF noted, kept
<1>5. \/ o \in {Outcome(cn, cl, "running"), Outcome(cn, cl, "null_timer")}
      \/ FromTimer(cl[k]) /\ o = Outcome(cn, kept, "running")
      \/ ~FromTimer(cl[k]) /\ o \in Send(cn, noted, f, res)
    BY DEF ecafe_response_handle, noted, kept
<1>6. CASE o \in {Outcome(cn, cl, "running"), Outcome(cn, cl, "null_timer")}
    <2>1. o.clients = cl
        BY <1>6 DEF Outcome
    <2>. QED
        BY <2>1
<1>7. CASE FromTimer(cl[k]) /\ o = Outcome(cn, kept, "running")
    BY <1>3, <1>4, <1>7 DEF AnswerNoted, Outcome
<1>8. CASE ~FromTimer(cl[k]) /\ o \in Send(cn, noted, f, res)
    <2>1. o.clients = noted
        BY <1>8, WritesKeepList
    <2>. QED
        BY <1>3, <1>8, <2>1 DEF AnswerNoted
<1>. QED
    BY <1>5, <1>6, <1>7, <1>8

-----------------------------------------------------------------------------
(* The steps of the server, seen as steps of the table.                    *)
TableStep == \/ Table!TableNext
             \/ UNCHANGED <<TableOf(clients), last_id>>

(* A step that leaves the list alone leaves the table alone.               *)
LEMMA ListAlone ==
    ASSUME UNCHANGED <<clients, last_id>>
    PROVE  TableStep
BY DEF TableStep, TableOf, EntryOf, LifeOf, Ids, client_get

(* A step that changes one client changes one entry.                       *)
LEMMA OneChanges ==
    ASSUME IInv, NEW j \in 1..Len(clients), NEW x \in Client,
           x.id = clients[j].id, x.fd = clients[j].fd,
           clients' = [clients EXCEPT ![j] = x]
    PROVE  /\ clients[j] \in Client
           /\ TableOf(clients) \in [Ids(clients) -> Table!Entry]
           /\ clients[j].id \in Ids(clients)
           /\ TableOf(clients)[clients[j].id] = EntryOf(clients[j])
           /\ TableOf(clients') = [TableOf(clients) EXCEPT ![clients[j].id] = EntryOf(x)]
<1>1. clients \in Seq(Client) /\ Ascending(clients)
    BY DEF IInv, TypeOK, ServerTypeOK, IdsInJoinOrder, Ascending
<1>2. TableOf(clients') = [TableOf(clients) EXCEPT ![clients[j].id] = EntryOf(x)]
    BY <1>1, OneEntry
<1>. QED
    BY <1>1, <1>2, ElementOfSeq, TableSays

(* A timer that falls due, is issued, is set or is left broken; an answer. *)
LEMMA EntryStep ==
    ASSUME IInv, NEW j \in 1..Len(clients), NEW x \in Client,
           x.id = clients[j].id, x.fd = clients[j].fd,
           clients' = [clients EXCEPT ![j] = x], last_id' = last_id,
           LET y == clients[j]
               SameState == x.is_online = y.is_online
               SameAction == x.timer_uri = y.timer_uri
           IN  \/ SameState /\ SameAction /\ y.timer = "armed" /\ x.timer = "due"
               \/ SameState /\ SameAction /\ y.timer_uri # NoUri /\ y.timer = "due" /\ x.timer = "none"
               \/ /\ SameState /\ y.timer = "none" /\ y.timer_uri = NoUri
                  /\ \/ x.timer \in {"armed", "due", "never"} /\ x.timer_uri = NoUri
                     \/ x.timer = "armed" /\ x.timer_uri \in ServerCommand
               \/ x.timer = y.timer /\ IF FromTimer(y) THEN x.timer_uri = NoUri ELSE SameAction
    PROVE  TableStep
<1>. DEFINE y == clients[j]
            n == y.id
            T == TableOf(clients)
<1>1. /\ y \in Client /\ T \in [Ids(clients) -> Table!Entry] /\ n \in Ids(clients)
      /\ T[n] = EntryOf(y) /\ TableOf(clients') = [T EXCEPT ![n] = EntryOf(x)]
    BY OneChanges
<1>2. SUFFICES ASSUME TRUE
               PROVE  Table!Change(n) \/ TableOf(clients') = T
    <2>1. TableOf(clients') = TableOf(clients)'
        OBVIOUS
    <2>2. n \in DOMAIN T
        BY <1>1
    <2>. QED
        BY <1>2, <2>1, <2>2 DEF TableStep, Table!TableNext
<1>3. CASE /\ y.timer = "armed" /\ x.timer = "due" /\ y.timer_uri = NoUri
           /\ x.is_online = y.is_online /\ x.timer_uri = y.timer_uri
    <2>1. EntryOf(x) = EntryOf(y)
        BY <1>3 DEF EntryOf, LifeOf
    <2>. QED
        BY <1>1, <2>1
<1>4. CASE /\ y.timer = "armed" /\ x.timer = "due" /\ y.timer_uri # NoUri
           /\ x.is_online = y.is_online /\ x.timer_uri = y.timer_uri
    <2>1. T[n].life = "set" /\ EntryOf(x) = [T[n] EXCEPT !.life = "due"]
        BY <1>1, <1>4 DEF EntryOf, LifeOf
    <2>2. Table!Expire(n)
        BY <1>1, <2>1 DEF Table!Expire
    <2>. QED
        BY <2>2 DEF Table!Change
<1>5. CASE /\ y.timer_uri # NoUri /\ y.timer = "due" /\ x.timer = "none"
           /\ x.is_online = y.is_online /\ x.timer_uri = y.timer_uri
    <2>1. T[n].life = "due" /\ EntryOf(x) = [T[n] EXCEPT !.life = "issued"]
        BY <1>1, <1>5 DEF EntryOf, LifeOf
    <2>2. Table!Issue(n)
        BY <1>1, <2>1 DEF Table!Issue
    <2>. QED
        BY <2>2 DEF Table!Change
<1>6. CASE /\ x.is_online = y.is_online /\ y.timer = "none" /\ y.timer_uri = NoUri
           /\ x.timer \in {"armed", "due", "never"} /\ x.timer_uri = NoUri
    <2>1. T[n].life = "idle" /\ EntryOf(x) = [T[n] EXCEPT !.life = "broken"]
        BY <1>1, <1>6 DEF EntryOf, LifeOf
    <2>2. Table!Spoil(n)
        BY <1>1, <2>1 DEF Table!Spoil
    <2>. QED
        BY <2>2 DEF Table!Change
<1>7. CASE /\ x.is_online = y.is_online /\ y.timer = "none" /\ y.timer_uri = NoUri
           /\ x.timer = "armed" /\ x.timer_uri \in ServerCommand
    <2>0. x.timer_uri \in Uri \ {NoUri}
        BY <1>7 DEF Uri, ServerCommand, RelayedCommand, NoUri
    <2>1. /\ T[n].life = "idle" /\ EntryOf(x).online = T[n].online
          /\ EntryOf(x).life = "set" /\ EntryOf(x).action = x.timer_uri
        BY <1>1, <1>7, <2>0 DEF EntryOf, LifeOf
    <2>2. [T EXCEPT ![n].life = "set", ![n].action = x.timer_uri] = [T EXCEPT ![n] = EntryOf(x)]
        <3>1. EntryOf(x) \in Table!Entry
            BY EntryIsEntry
        <3>. HIDE DEF T, n
        <3>2. [T[n] EXCEPT !.life = "set", !.action = x.timer_uri] = EntryOf(x)
            BY <1>1, <2>1, <3>1 DEF Table!Entry
        <3>. QED
            BY <1>1, <3>2
    <2>3. Table!SetTimer(n)
        BY <1>1, <2>0, <2>1, <2>2 DEF Table!SetTimer
    <2>. QED
        BY <2>3 DEF Table!Change
<1>8. CASE x.timer = y.timer /\ IF FromTimer(y) THEN x.timer_uri = NoUri
                               ELSE x.timer_uri = y.timer_uri
    <2>1. /\ EntryOf(x).online = x.is_online
          /\ FromTimer(y) <=> T[n].life = "issued"
          /\ FromTimer(y) => EntryOf(x).life = "idle" /\ EntryOf(x).action = NoUri
          /\ ~FromTimer(y) => /\ EntryOf(x).life = T[n].life
                             /\ EntryOf(x).action = T[n].action
        BY <1>1, <1>8 DEF EntryOf, LifeOf, FromTimer, Client, Timer
    <2>2. x.is_online \in BOOLEAN
        BY DEF Client
    <2>. DEFINE life   == IF T[n].life = "issued" THEN "idle" ELSE T[n].life
                action == IF T[n].life = "issued" THEN NoUri ELSE T[n].action
    <2>3. EntryOf(x).life = life /\ EntryOf(x).action = action
        BY <2>1
    <2>4. [T EXCEPT ![n].online = x.is_online, ![n].life = life, ![n].action = action]
          = [T EXCEPT ![n] = EntryOf(x)]
        <3>1. EntryOf(x) \in Table!Entry
            BY EntryIsEntry
        <3>. HIDE DEF T, n, life, action
        <3>2. [T[n] EXCEPT !.online = x.is_online, !.life = life, !.action = action]
              = EntryOf(x)
            BY <1>1, <2>1, <2>3, <3>1 DEF Table!Entry
        <3>. QED
            BY <1>1, <3>2
    <2>5. TableOf(clients') = [T EXCEPT ![n].online = x.is_online,
                                        ![n].life   = IF @ = "issued" THEN "idle" ELSE @,
                                        ![n].action = IF T[n].life = "issued" THEN NoUri ELSE @]
        BY <1>1, <2>4
    <2>6. Table!Answer(n)
        BY <2>2, <2>5 DEF Table!Answer
    <2>. QED
        BY <2>6 DEF Table!Change
<1>. QED
    BY <1>3, <1>4, <1>5, <1>6, <1>7, <1>8

(* The invariant says of the list what the lemmas above ask.               *)
LEMMA ListInOrder ==
    ASSUME IInv
    PROVE  /\ clients \in Seq(Client) /\ Ascending(clients) /\ Len(clients) \in Nat
           /\ last_id \in Nat /\ \A n \in Ids(clients) : n \in 1..last_id
<1>1. clients \in Seq(Client) /\ last_id \in Nat /\ Ascending(clients)
    BY DEF IInv, TypeOK, ServerTypeOK, IdsInJoinOrder, Ascending
<1>2. \A n \in Ids(clients) : n \in 1..last_id
    BY <1>1, TableSays DEF IInv, IdsInJoinOrder
<1>. QED
    BY <1>1, <1>2, LenProperties

(* A client that is accepted joins the table.                              *)
LEMMA JoinStep ==
    ASSUME IInv, IInv', AcceptClient
    PROVE  TableStep
<1>. DEFINE T  == TableOf(clients)
            T1 == TableOf(clients')
            id == last_id + 1
            new == [id |-> id, fd |-> LowestFreeFd, is_online |-> TRUE,
                    timer |-> "none", timer_uri |-> NoUri]
            L == Len(clients)
<1>1. clients' = Append(clients, new) /\ last_id' = id
    BY DEF AcceptClient, NextId
<1>2. /\ clients \in Seq(Client) /\ Ascending(clients) /\ L \in Nat /\ last_id \in Nat
      /\ \A n \in Ids(clients) : n \in 1..last_id
    BY ListInOrder
<1>3. clients' \in Seq(Client) /\ Ascending(clients')
    BY DEF IInv, TypeOK, ServerTypeOK, IdsInJoinOrder, Ascending
<1>. HIDE DEF new
<1>4. /\ Len(clients') = L + 1 /\ clients'[L + 1] = new
      /\ \A k \in 1..L : clients'[k] = clients[k]
    BY <1>1, <1>2, AppendProperties
<1>5. EntryOf(new) = Table!Fresh
    BY DEF new, EntryOf, LifeOf, Table!Fresh
<1>6. /\ T \in [Ids(clients) -> Table!Entry]
      /\ \A k \in 1..L : clients[k].id \in Ids(clients) /\ T[clients[k].id] = EntryOf(clients[k])
      /\ \A n \in Ids(clients) : \E k \in 1..L : n = clients[k].id
    BY <1>2, TableSays
<1>7. /\ T1 \in [Ids(clients') -> Table!Entry]
      /\ \A k \in 1..(L + 1) : /\ clients'[k].id \in Ids(clients')
                               /\ T1[clients'[k].id] = EntryOf(clients'[k])
      /\ \A n \in Ids(clients') : \E k \in 1..(L + 1) : n = clients'[k].id
    BY <1>3, <1>4, TableSays
<1>8. new.id = id
    BY DEF new
<1>. HIDE DEF T, T1, id, L
<1>9. Ids(clients') = Ids(clients) \cup {id}
    <2>1. ASSUME NEW n \in Ids(clients') PROVE n \in Ids(clients) \cup {id}
        <3>1. PICK k \in 1..(L + 1) : n = clients'[k].id
            BY <1>7
        <3>2. k \in 1..L \/ k = L + 1
            BY <1>2
        <3>. QED
            BY <1>4, <1>6, <1>8, <3>1, <3>2
    <2>2. ASSUME NEW n \in Ids(clients) PROVE n \in Ids(clients')
        <3>1. PICK k \in 1..L : n = clients[k].id
            BY <1>6
        <3>2. k \in 1..(L + 1)
            BY <1>2
        <3>. QED
            BY <1>4, <1>7, <3>1, <3>2
    <2>3. L + 1 \in 1..(L + 1)
        BY <1>2
    <2>4. id \in Ids(clients')
        BY <1>4, <1>7, <1>8, <2>3
    <2>. QED
        BY <2>1, <2>2, <2>4
<1>10. T1[id] = Table!Fresh
    <2>1. L + 1 \in 1..(L + 1)
        BY <1>2
    <2>. QED
        BY <1>4, <1>5, <1>7, <1>8, <2>1
<1>11. ASSUME NEW n \in Ids(clients) PROVE n # id /\ T1[n] = T[n]
    <2>1. n # id
        BY <1>2 DEF id
    <2>2. PICK k \in 1..L : n = clients[k].id
        BY <1>6
    <2>3. k \in 1..(L + 1)
        BY <1>2
    <2>. QED
        BY <1>4, <1>6, <1>7, <2>1, <2>2, <2>3
<1>12. T1 = [n \in Ids(clients) \cup {id} |-> IF n = id THEN Table!Fresh ELSE T[n]]
    BY <1>7, <1>9, <1>10, <1>11
<1>13. DOMAIN T = Ids(clients)
    BY <1>6
<1>14. /\ last_id' = last_id + 1 /\ last_id' = id
       /\ T1 = [n \in DOMAIN T \cup {last_id'} |-> IF n = last_id' THEN Table!Fresh ELSE T[n]]
    BY <1>1, <1>12, <1>13 DEF id
<1>. QED
    BY <1>14 DEF T, T1, TableStep, Table!TableNext, Table!Join

(* A client that is removed leaves the table.                              *)
LEMMA LeaveStep ==
    ASSUME IInv, IInv', NEW k \in 1..Len(clients), last_id' = last_id,
           clients' = client_remove(clients, clients[k].id)
    PROVE  TableStep
<1>. DEFINE T  == TableOf(clients)
            T1 == TableOf(clients')
            id == clients[k].id
            L == Len(clients)
<1>1. clients \in Seq(Client) /\ Ascending(clients) /\ L \in Nat
    BY ListInOrder
<1>2. clients' \in Seq(Client) /\ Ascending(clients')
    BY DEF IInv, TypeOK, ServerTypeOK, IdsInJoinOrder, Ascending
<1>3. clients' = RemoveAt(clients, k)
    <2>1. client_get(clients, id) = k
        BY <1>1, ClientGetIsUnique DEF Ascending
    <2>. QED
        BY <2>1 DEF client_remove
<1>4. /\ Len(clients') = L - 1
      /\ \A j \in 1..(L - 1) : clients'[j] = IF j < k THEN clients[j] ELSE clients[j + 1]
    <2>. DEFINE r == RemoveAt(clients, k)
    <2>1. /\ Len(r) = L - 1
          /\ \A j \in 1..(L - 1) : r[j] = IF j < k THEN clients[j] ELSE clients[j + 1]
        BY <1>1, Removed
    <2>. HIDE DEF r
    <2>2. clients' = r
        BY <1>3 DEF r
    <2>. QED
        BY <2>1, <2>2
<1>5. /\ T \in [Ids(clients) -> Table!Entry]
      /\ \A j \in 1..L : clients[j].id \in Ids(clients) /\ T[clients[j].id] = EntryOf(clients[j])
      /\ \A n \in Ids(clients) : \E j \in 1..L : n = clients[j].id
    BY <1>1, TableSays
<1>6. /\ T1 \in [Ids(clients') -> Table!Entry]
      /\ \A j \in 1..(L - 1) : /\ clients'[j].id \in Ids(clients')
                               /\ T1[clients'[j].id] = EntryOf(clients'[j])
      /\ \A n \in Ids(clients') : \E j \in 1..(L - 1) : n = clients'[j].id
    <2>1. /\ T1 \in [Ids(clients') -> Table!Entry]
          /\ \A j \in 1..Len(clients') : /\ clients'[j].id \in Ids(clients')
                                         /\ T1[clients'[j].id] = EntryOf(clients'[j])
          /\ \A n \in Ids(clients') : \E j \in 1..Len(clients') : n = clients'[j].id
        BY <1>2, TableSays
    <2>. HIDE DEF T1
    <2>. QED
        BY <1>4, <2>1
<1>7. /\ \A i1, j \in 1..L : i1 < j => clients[i1].id < clients[j].id
      /\ \A j \in 1..L : clients[j].id \in Nat
    BY <1>1, Members DEF Ascending
<1>. HIDE DEF T, T1, L
<1>8. ASSUME NEW n \in Ids(clients') PROVE n \in Ids(clients) \ {id} /\ T1[n] = T[n]
    <2>1. PICK j \in 1..(L - 1) : n = clients'[j].id
        BY <1>6
    <2>2. CASE j < k
        <3>1. j \in 1..L /\ clients'[j] = clients[j]
            BY <1>1, <1>4, <2>2
        <3>2. clients[j].id < clients[k].id /\ clients[j].id \in Nat /\ clients[k].id \in Nat
            BY <1>7, <2>2, <3>1 DEF L
        <3>3. clients[j].id # clients[k].id
            BY <3>2
        <3>4. n = clients[j].id /\ n \in Ids(clients) \ {id}
            BY <1>5, <2>1, <3>1, <3>3
        <3>5. T1[n] = EntryOf(clients[j]) /\ T[n] = EntryOf(clients[j])
            BY <1>5, <1>6, <2>1, <3>1, <3>4
        <3>. QED
            BY <3>4, <3>5
    <2>3. CASE ~(j < k)
        <3>1. j + 1 \in 1..L /\ k < j + 1 /\ clients'[j] = clients[j + 1]
            BY <1>1, <1>4, <2>3 DEF L
        <3>2. /\ clients[k].id < clients[j + 1].id
              /\ clients[j + 1].id \in Nat /\ clients[k].id \in Nat
            BY <1>7, <3>1 DEF L
        <3>3. clients[j + 1].id # clients[k].id
            BY <3>2
        <3>. QED
            BY <1>5, <1>6, <2>1, <3>1, <3>3
    <2>. QED
        BY <2>2, <2>3
<1>9. ASSUME NEW n \in Ids(clients) \ {id} PROVE n \in Ids(clients')
    <2>1. PICK j \in 1..L : n = clients[j].id
        BY <1>5
    <2>2. j # k
        BY <2>1
    <2>3. CASE j < k
        <3>1. j \in 1..(L - 1) /\ clients'[j] = clients[j]
            BY <1>1, <1>4, <2>3 DEF L
        <3>. QED
            BY <1>6, <2>1, <3>1
    <2>4. CASE ~(j < k)
        <3>1. /\ j - 1 \in 1..(L - 1) /\ ~(j - 1 < k) /\ (j - 1) + 1 = j
            BY <1>1, <2>2, <2>4 DEF L
        <3>2. clients'[j - 1] = clients[j]
            BY <1>4, <3>1
        <3>. QED
            BY <1>6, <2>1, <3>1, <3>2
    <2>. QED
        BY <2>3, <2>4
<1>10. DOMAIN T = Ids(clients) /\ Ids(clients') = Ids(clients) \ {id}
    BY <1>5, <1>8, <1>9
<1>11. T1 = [n \in DOMAIN T \ {id} |-> T[n]]
    BY <1>6, <1>8, <1>10
<1>12. id \in DOMAIN T
    BY <1>5, <1>10 DEF L
<1>13. Table!Leave(id)
    BY <1>11 DEF T, T1, Table!Leave
<1>. QED
    BY <1>12, <1>13 DEF T, TableStep, Table!TableNext, Table!Change

(* A timer that a handler gives a client is set in the table, or broken.   *)
LEMMA GivenStep ==
    ASSUME IInv, NEW req, TimerGiven(clients, req, clients'), last_id' = last_id
    PROVE  TableStep
<1>. DEFINE k == client_get(clients, req.id)
<1>1. clients \in Seq(Client) /\ DOMAIN clients = 1..Len(clients)
    BY LenProperties DEF IInv, TypeOK, ServerTypeOK
<1>2. req.id \in Ids(clients) /\ clients[k].timer = "none" /\ clients[k].timer_uri = NoUri
    BY DEF TimerGiven, MayArm
<1>3. k \in 1..Len(clients) /\ clients[k] \in Client
    BY <1>1, <1>2, ClientGetFinds
<1>4. \/ \E t \in {"armed", "due", "never"} : clients' = [clients EXCEPT ![k].timer = t]
      \/ /\ req.action \in ServerCommand
         /\ clients' = [clients EXCEPT ![k].timer = "armed", ![k].timer_uri = req.action]
    BY DEF TimerGiven
<1>. HIDE DEF k
<1>5. ASSUME NEW t \in {"armed", "due", "never"}, clients' = [clients EXCEPT ![k].timer = t]
      PROVE  TableStep
    <2>. DEFINE x == [clients[k] EXCEPT !.timer = t]
    <2>1. /\ x \in Client /\ x.id = clients[k].id /\ x.fd = clients[k].fd
          /\ x.is_online = clients[k].is_online /\ x.timer = t /\ x.timer_uri = NoUri
        BY <1>2, <1>3 DEF Client, Timer
    <2>2. clients' = [clients EXCEPT ![k] = x]
        BY <1>1, <1>5
    <2>. HIDE DEF x
    <2>. QED
        BY <1>2, <1>3, <2>1, <2>2, EntryStep
<1>6. CASE /\ req.action \in ServerCommand
           /\ clients' = [clients EXCEPT ![k].timer = "armed", ![k].timer_uri = req.action]
    <2>. DEFINE x == [clients[k] EXCEPT !.timer = "armed", !.timer_uri = req.action]
    <2>0. req.action \in Uri
        BY <1>6 DEF Uri
    <2>1. /\ x \in Client /\ x.id = clients[k].id /\ x.fd = clients[k].fd
          /\ x.is_online = clients[k].is_online /\ x.timer = "armed"
          /\ x.timer_uri = req.action
        BY <1>3, <2>0 DEF Client, Timer
    <2>2. clients' = [clients EXCEPT ![k] = x]
        BY <1>1, <1>6
    <2>. HIDE DEF x
    <2>. QED
        BY <1>2, <1>3, <1>6, <2>1, <2>2, EntryStep
<1>. QED
    BY <1>4, <1>5, <1>6

(* What the loop does with what it reads from a controller.                *)
LEMMA WebTableStep ==
    ASSUME IInv, ServeWeb
    PROVE  TableStep
<1>. DEFINE c == fdtab[s_connfd]
<1>1. /\ last_id' = last_id
      /\ ServeWebData(c) \/ UNCHANGED clients
    BY DEF ServeWeb
<1>. HIDE DEF c
<1>2. CASE UNCHANGED clients
    BY <1>1, <1>2, ListAlone
<1>3. CASE ServeWebData(c)
    <2>1. \/ UNCHANGED clients
          \/ \E cn, req : \E o \in ecafe_request_handle(cn, clients, req, s_connfd) : Handled(o)
        BY <1>3 DEF ServeWebData
    <2>2. ASSUME NEW cn, NEW req,
                 NEW o \in ecafe_request_handle(cn, clients, req, s_connfd), Handled(o)
          PROVE  TableStep
        <3>1. clients' = clients \/ TimerGiven(clients, req, clients')
            BY <2>2, RequestChanges DEF Handled
        <3>. QED
            BY <1>1, <3>1, ListAlone, GivenStep
    <2>. QED
        BY <1>2, <2>1, <2>2
<1>. QED
    BY <1>1, <1>2, <1>3

(* So is an answer that a handler takes note of an answer in the table.    *)
LEMMA AnswerStep ==
    ASSUME IInv, NEW j \in 1..Len(clients), NEW res, AnswerNoted(clients, j, res, clients'),
           last_id' = last_id
    PROVE  TableStep
<1>1. clients[j] \in Client /\ DOMAIN clients = 1..Len(clients)
    BY ElementOfSeq, LenProperties DEF IInv, TypeOK, ServerTypeOK
<1>2. PICK b \in BOOLEAN :
        LET x == [clients[j] EXCEPT !.is_online = b]
        IN  \/ ~FromTimer(clients[j]) /\ clients' = [clients EXCEPT ![j] = x]
            \/ /\ FromTimer(clients[j])
               /\ clients' = [clients EXCEPT ![j] = [x EXCEPT !.timer_uri = NoUri]]
    BY DEF AnswerNoted
<1>. DEFINE x == [clients[j] EXCEPT !.is_online = b]
            z == IF FromTimer(clients[j]) THEN [x EXCEPT !.timer_uri = NoUri] ELSE x
<1>3. /\ z \in Client /\ z.id = clients[j].id /\ z.fd = clients[j].fd
      /\ z.timer = clients[j].timer
      /\ IF FromTimer(clients[j]) THEN z.timer_uri = NoUri
         ELSE z.timer_uri = clients[j].timer_uri
    BY <1>1 DEF Client, Uri
<1>4. clients' = [clients EXCEPT ![j] = z]
    BY <1>2
<1>. HIDE DEF z
<1>. QED
    BY <1>1, <1>3, <1>4, EntryStep

(* What the loop does with what it reads from a PC.                        *)
LEMMA ClientTableStep ==
    ASSUME IInv, IInv', ServeClient
    PROVE  TableStep
<1>. DEFINE j  == FirstOf(LoopTargets)
            id == client_array[j]
            fd == FdAt(j)
            c  == fdtab[fd]
<1>1. /\ LoopTargets # {} /\ last_id' = last_id
      /\ \/ ServeClientData(c, client_get(clients, id))
         \/ ServeClientEof(c, id, fd)
         \/ UNCHANGED clients
    BY DEF ServeClient
<1>2. j \in Nat /\ j >= 1 /\ j <= nclients
    <2>1. LoopTargets \subseteq i..nclients
        BY DEF LoopTargets
    <2>. QED
        BY <1>1, <2>1, FirstPosition
<1>. HIDE DEF j
<1>3. /\ j \in 1..Len(clients) /\ id = clients[j].id /\ client_get(clients, id) = j
      /\ clients[j] \in Client /\ clients \in Seq(Client)
    BY <1>2, Position DEF IInv, TypeOK, ServerTypeOK
<1>. HIDE DEF id, fd, c
<1>4. CASE UNCHANGED clients
    BY <1>1, <1>4, ListAlone
<1>5. CASE ServeClientEof(c, id, fd)
    <2>1. clients' = client_remove(clients, clients[j].id)
        BY <1>3, <1>5 DEF ServeClientEof
    <2>. QED
        BY <1>1, <1>3, <2>1, LeaveStep
<1>6. CASE ServeClientData(c, client_get(clients, id))
    <2>1. \/ UNCHANGED clients
          \/ \E cn, res : \E o \in ecafe_response_handle(cn, clients, j, res, s_connfd) :
                Handled(o)
        BY <1>3, <1>6 DEF ServeClientData
    <2>2. ASSUME NEW cn, NEW res,
                 NEW o \in ecafe_response_handle(cn, clients, j, res, s_connfd), Handled(o)
          PROVE  TableStep
        <3>1. clients' = clients \/ AnswerNoted(clients, j, res, clients')
            BY <1>3, <2>2, ResponseChanges DEF Handled
        <3>. QED
            BY <1>1, <1>3, <3>1, ListAlone, AnswerStep
    <2>. QED
        BY <1>3, <1>4, <2>1, <2>2
<1>. QED
    BY <1>1, <1>3, <1>4, <1>5, <1>6

(* A timer that is due is issued, and keeps its action until the answer; a *)
(* timer without one ends the server.                                      *)
LEMMA TimeoutTableStep ==
    ASSUME IInv, CheckTimeout
    PROVE  TableStep
<1>. DEFINE j   == FirstOf(Expired)
            k   == client_get(clients, client_array[j])
            uri == clients[k].timer_uri
            req == MakeRequest(uri, clients[k].id, {}, TimerTag)
<1>1. /\ Expired # {} /\ last_id' = last_id
      /\ \/ UNCHANGED clients
         \/ /\ uri # NoUri
            /\ \E o \in ecafe_request_handle(conn, clients, req, 0) :
                  clients' = [o.clients EXCEPT ![k].timer = "none"]
    BY DEF CheckTimeout
<1>2. Expired \subseteq i..nclients /\ \A n \in Expired : TimerAt(n) = "due"
    BY DEF Expired
<1>3. i \in Nat
    BY DEF IInv, TypeOK, ServerTypeOK
<1>4. j \in Expired
    <2>1. Expired \in SUBSET Nat
        BY <1>2, <1>3
    <2>. QED
        BY <1>1, <2>1, FirstOfIsLeast
<1>5. j \in Nat /\ j >= 1 /\ j <= nclients
    BY <1>1, <1>2, FirstPosition
<1>6. clients[k].timer = "due"
    BY <1>2, <1>4 DEF TimerAt
<1>. HIDE DEF j
<1>7. /\ k \in 1..Len(clients) /\ clients[k] \in Client
      /\ clients \in Seq(Client) /\ DOMAIN clients = 1..Len(clients)
    BY <1>5, Position, LenProperties DEF IInv, TypeOK, ServerTypeOK
<1>. HIDE DEF k
<1>8. CASE UNCHANGED clients
    BY <1>1, <1>8, ListAlone
<1>9. ASSUME uri # NoUri,
             NEW o \in ecafe_request_handle(conn, clients, req, 0),
             clients' = [o.clients EXCEPT ![k].timer = "none"]
      PROVE  TableStep
    <2>1. req.duration = "none"
        BY DEF MakeRequest
    <2>. HIDE DEF req
    <2>2. ~TimerGiven(clients, req, o.clients)
        BY <2>1 DEF TimerGiven, MayArm
    <2>3. o.clients = clients
        BY <1>9, <2>2, RequestChanges
    <2>. DEFINE x == [clients[k] EXCEPT !.timer = "none"]
    <2>4. /\ x \in Client /\ x.id = clients[k].id /\ x.fd = clients[k].fd
          /\ x.is_online = clients[k].is_online /\ x.timer = "none"
          /\ x.timer_uri = clients[k].timer_uri
        BY <1>7 DEF Client, Timer
    <2>5. clients' = [clients EXCEPT ![k] = x]
        BY <1>7, <1>9, <2>3
    <2>. HIDE DEF x
    <2>. QED
        BY <1>1, <1>6, <1>7, <1>9, <2>4, <2>5, EntryStep
<1>. HIDE DEF req, uri
<1>. QED
    BY <1>1, <1>8, <1>9

(* The time that passes makes a timer fall due.                            *)
LEMMA DueTableStep ==
    ASSUME IInv, TimePasses
    PROVE  TableStep
<1>1. PICK k \in DOMAIN clients : /\ clients[k].timer = "armed"
                                  /\ clients' = [clients EXCEPT ![k].timer = "due"]
    BY DEF TimePasses
<1>2. last_id' = last_id
    BY DEF TimePasses
<1>3. /\ k \in 1..Len(clients) /\ clients[k] \in Client /\ DOMAIN clients = 1..Len(clients)
    BY ElementOfSeq, LenProperties DEF IInv, TypeOK, ServerTypeOK
<1>. DEFINE x == [clients[k] EXCEPT !.timer = "due"]
<1>4. /\ x \in Client /\ x.id = clients[k].id /\ x.fd = clients[k].fd
      /\ x.is_online = clients[k].is_online /\ x.timer = "due"
      /\ x.timer_uri = clients[k].timer_uri
    BY <1>3 DEF Client, Timer
<1>5. clients' = [clients EXCEPT ![k] = x]
    BY <1>1, <1>3
<1>. HIDE DEF x
<1>. QED
    BY <1>1, <1>2, <1>3, <1>4, <1>5, EntryStep

(* Every step of the system is a step of the table, or leaves it alone.    *)
LEMMA NextTableStep ==
    ASSUME IInv, IInv', [Next]_vars
    PROVE  TableStep
<1>1. CASE AcceptClient
    BY <1>1, JoinStep
<1>2. CASE ServeWeb
    BY <1>2, WebTableStep
<1>3. CASE ServeClient
    BY <1>3, ClientTableStep
<1>4. CASE CheckTimeout
    BY <1>4, TimeoutTableStep
<1>5. CASE TimePasses
    BY <1>5, DueTableStep
<1>6. CASE Select \/ AcceptServer \/ EndRound \/ EndTimeout
    <2>1. UNCHANGED <<clients, last_id>>
        BY <1>6 DEF Select, AcceptServer, EndRound, EndTimeout
    <2>. QED
        BY <2>1, ListAlone
<1>7. CASE Agent \/ Web \/ UNCHANGED vars
    <2>1. UNCHANGED <<clients, last_id>>
        BY <1>7 DEF Agent, Web, vars, serverVars
    <2>. QED
        BY <2>1, ListAlone
<1>. QED
    BY <1>1, <1>2, <1>3, <1>4, <1>5, <1>6, <1>7 DEF Next, Server, ServerStep

-----------------------------------------------------------------------------
(* The server's list of clients is the table that ClientTable promises:    *)
(* numbers are given once, a PC's entry is touched only while it is listed,*)
(* and each timer is set, falls due, is issued and is answered in this     *)
(* order, with the action it was set for, though the code tells the stages *)
(* apart by two fields.                                                    *)
THEOREM TableIsImplemented == Safe => ImplementsTable
<1>1. Init => Table!TableInit
    <2>1. ASSUME clients = <<>> PROVE TableOf(clients) = [n \in {} |-> 0]
        <3>1. DOMAIN clients = {}
            BY <2>1
        <3>2. Ids(clients) = {}
            BY <3>1 DEF Ids
        <3>. QED
            BY <3>2 DEF TableOf
    <2>. QED
        BY <2>1 DEF Init, ServerInit, Table!TableInit
<1>2. IInv /\ IInv' /\ [Next]_vars => [Table!TableNext]_(Table!tableVars)
    BY NextTableStep DEF TableStep, Table!tableVars
<1>. QED
    BY <1>1, <1>2, Invariance, PTL DEF Safe, ImplementsTable, Table!TableSpec

-----------------------------------------------------------------------------
(* The client has a timer that has yet to fire, with an action.            *)
Awaited(client) == client.timer \in {"armed", "due"} /\ client.timer_uri # NoUri

(* The positions whose timer has yet to fire.                              *)
Pending(cl) == {k \in 1..Len(cl) : Awaited(cl[k])}

(* The pending timers are finitely many, and no more than those they are   *)
(* among.                                                                  *)
LEMMA PendingCount ==
    ASSUME NEW cl \in Seq(Client)
    PROVE  /\ IsFiniteSet(Pending(cl)) /\ Cardinality(Pending(cl)) \in Nat
           /\ \A S : S \subseteq Pending(cl) => /\ IsFiniteSet(S)
                                                /\ Cardinality(S) \in Nat
                                                /\ Cardinality(S) <= Cardinality(Pending(cl))
<1>1. Len(cl) \in Int /\ 1 \in Int
    BY LenProperties
<1>2. IsFiniteSet(1..Len(cl))
    BY <1>1, FS_Interval
<1>3. IsFiniteSet(Pending(cl))
    BY <1>2, FS_Subset DEF Pending
<1>. QED
    BY <1>3, FS_Subset, FS_CardinalityType

(* Setting one client makes one timer more pending at most; one that is    *)
(* not awaited any more makes them one less.                               *)
LEMMA PendingSet ==
    ASSUME NEW cl \in Seq(Client), NEW k \in 1..Len(cl), NEW x \in Client,
           NEW cl1, cl1 = [cl EXCEPT ![k] = x]
    PROVE  LET n == Cardinality(Pending(cl))
               n1 == Cardinality(Pending(cl1))
           IN  /\ n \in Nat /\ n1 \in Nat
               /\ n1 <= n + 1
               /\ (Awaited(x) => Awaited(cl[k])) => n1 <= n
               /\ Awaited(cl[k]) /\ ~Awaited(x) => n1 + 1 <= n
<1>1. /\ cl1 \in Seq(Client) /\ DOMAIN cl = 1..Len(cl) /\ Len(cl1) = Len(cl)
      /\ cl1[k] = x /\ \A j \in 1..Len(cl) : j # k => cl1[j] = cl[j]
    BY ExceptSeq, LenProperties
<1>2. /\ Pending(cl1) = IF Awaited(x) THEN Pending(cl) \cup {k} ELSE Pending(cl) \ {k}
      /\ k \in Pending(cl) <=> Awaited(cl[k])
    BY <1>1 DEF Pending
<1>3. /\ IsFiniteSet(Pending(cl)) /\ Cardinality(Pending(cl)) \in Nat
      /\ Cardinality(Pending(cl1)) \in Nat
    BY <1>1, PendingCount
<1>4. /\ Cardinality(Pending(cl) \cup {k}) =
           IF k \in Pending(cl) THEN Cardinality(Pending(cl)) ELSE Cardinality(Pending(cl)) + 1
      /\ Cardinality(Pending(cl) \ {k}) =
           IF k \in Pending(cl) THEN Cardinality(Pending(cl)) - 1 ELSE Cardinality(Pending(cl))
    BY <1>3, FS_AddElement, FS_RemoveElement
<1>. DEFINE n  == Cardinality(Pending(cl))
            n1 == Cardinality(Pending(cl1))
<1>5. CASE Awaited(x)
    <2>1. Pending(cl1) = Pending(cl) \cup {k}
        BY <1>2, <1>5
    <2>2. n1 = IF k \in Pending(cl) THEN n ELSE n + 1
        BY <1>4, <2>1
    <2>3. n \in Nat /\ n1 \in Nat
        BY <1>3
    <2>. HIDE DEF n, n1
    <2>4. n1 <= n + 1 /\ (k \in Pending(cl) => n1 <= n)
        BY <2>2, <2>3
    <2>. QED
        BY <1>2, <1>5, <2>3, <2>4 DEF n, n1
<1>6. CASE ~Awaited(x)
    <2>1. Pending(cl1) = Pending(cl) \ {k}
        BY <1>2, <1>6
    <2>2. n1 = IF k \in Pending(cl) THEN n - 1 ELSE n
        BY <1>4, <2>1
    <2>3. n \in Nat /\ n1 \in Nat
        BY <1>3
    <2>. HIDE DEF n, n1
    <2>4. n1 <= n + 1 /\ n1 <= n /\ (k \in Pending(cl) => n1 + 1 <= n)
        BY <2>2, <2>3
    <2>. QED
        BY <1>2, <1>6, <2>3, <2>4 DEF n, n1
<1>. QED
    BY <1>5, <1>6

(* A client that leaves takes its timer with it and adds none.             *)
LEMMA PendingRemoved ==
    ASSUME NEW cl \in Seq(Client), NEW k \in 1..Len(cl)
    PROVE  Cardinality(Pending(RemoveAt(cl, k))) <= Cardinality(Pending(cl))
<1>. DEFINE r == RemoveAt(cl, k)
            f == [n \in Pending(r) |-> IF n < k THEN n ELSE n + 1]
<1>1. /\ Len(cl) \in Nat /\ Len(r) = Len(cl) - 1
      /\ \A j \in 1..(Len(cl) - 1) : r[j] = IF j < k THEN cl[j] ELSE cl[j + 1]
    BY Removed, LenProperties
<1>. HIDE DEF r
<1>2. \A n \in Pending(r) : n \in 1..(Len(cl) - 1) /\ Awaited(r[n])
    BY <1>1 DEF Pending
<1>3. \A n \in Pending(r) : (IF n < k THEN n ELSE n + 1) \in Pending(cl)
    <2>1. TAKE n \in Pending(r)
    <2>2. n \in 1..(Len(cl) - 1) /\ Awaited(r[n])
        BY <1>2
    <2>3. CASE n < k
        BY <1>1, <2>2, <2>3 DEF Pending
    <2>4. CASE ~(n < k)
        BY <1>1, <2>2, <2>4 DEF Pending
    <2>. QED
        BY <2>3, <2>4
<1>4. \A m, n \in Pending(r) : f[m] = f[n] => m = n
    BY <1>2
<1>5. f \in [Pending(r) -> Pending(cl)]
    BY <1>3
<1>6. f \in Injection(Pending(r), Pending(cl))
    BY <1>4, <1>5 DEF Injection, IsInjective
<1>7. IsFiniteSet(Pending(cl))
    BY PendingCount
<1>. QED
    BY <1>6, <1>7, FS_Injection DEF r

(* A client that joins has no timer.                                       *)
LEMMA PendingAppended ==
    ASSUME NEW cl \in Seq(Client), NEW x, x.timer = "none"
    PROVE  Pending(Append(cl, x)) = Pending(cl)
<1>1. /\ Len(cl) \in Nat /\ DOMAIN cl = 1..Len(cl)
      /\ Len(Append(cl, x)) = Len(cl) + 1 /\ Append(cl, x)[Len(cl) + 1] = x
      /\ \A k \in 1..Len(cl) : Append(cl, x)[k] = cl[k]
    BY LenProperties
<1>2. ~Awaited(x)
    BY DEF Awaited
<1>3. ASSUME NEW k PROVE k \in Pending(Append(cl, x)) <=> k \in Pending(cl)
    <2>1. CASE k \in 1..Len(cl)
        <3>1. k \in 1..(Len(cl) + 1)
            BY <1>1, <2>1
        <3>. QED
            BY <1>1, <2>1, <3>1 DEF Pending
    <2>2. CASE k \notin 1..Len(cl)
        <3>1. k \in 1..(Len(cl) + 1) => k = Len(cl) + 1
            BY <1>1, <2>2
        <3>. QED
            BY <1>1, <1>2, <2>2, <3>1 DEF Pending
    <2>. QED
        BY <2>1, <2>2
<1>. QED
    BY <1>3

-----------------------------------------------------------------------------
(* The steps, first those that neither arm nor fire a timer.               *)

(* Fewer timers pending, and no fewer accepted, is as good.                *)
LEMMA NoMorePending ==
    ASSUME IInv, TimerFiresOnce, fired' = fired, armed' \in Nat, armed <= armed',
           Cardinality(Pending(clients')) \in Nat,
           Cardinality(Pending(clients')) <= Cardinality(Pending(clients))
    PROVE  TimerFiresOnce'
<1>1. armed \in Nat /\ fired \in Nat /\ Cardinality(Pending(clients)) \in Nat
    BY PendingCount DEF IInv, TypeOK, ServerTypeOK
<1>2. fired + Cardinality(Pending(clients)) <= armed
    BY DEF TimerFiresOnce, Pending, Awaited
<1>3. fired' + Cardinality(Pending(clients')) <= armed'
    BY <1>1, <1>2
<1>. QED
    BY <1>3 DEF TimerFiresOnce, Pending, Awaited

(* Nothing is counted where the list and the counters stay.                *)
LEMMA ListStaysCounts ==
    ASSUME TimerFiresOnce, UNCHANGED <<clients, armed, fired>>
    PROVE  TimerFiresOnce'
BY DEF TimerFiresOnce

(* A controller's request arms one timer, and counts it, or none.          *)
LEMMA WebCounts ==
    ASSUME IInv, TimerFiresOnce, ServeWeb
    PROVE  TimerFiresOnce'
<1>1. fired' = fired
    BY DEF ServeWeb
<1>2. /\ clients \in Seq(Client) /\ DOMAIN clients = 1..Len(clients)
      /\ armed \in Nat /\ fired \in Nat /\ Cardinality(Pending(clients)) \in Nat
    BY PendingCount, LenProperties DEF IInv, TypeOK, ServerTypeOK
<1>3. \/ UNCHANGED <<clients, armed>>
      \/ \E cn, req : \E o \in ecafe_request_handle(cn, clients, req, s_connfd) :
            /\ clients' = o.clients
            /\ armed' = IF req.uri = "timer" /\ Arms(clients, req) THEN armed + 1 ELSE armed
    BY DEF ServeWeb, ServeWebData, Handled
<1>4. CASE UNCHANGED <<clients, armed>>
    BY <1>1, <1>4, ListStaysCounts
<1>5. ASSUME NEW cn, NEW req, NEW o \in ecafe_request_handle(cn, clients, req, s_connfd),
             clients' = o.clients,
             armed' = IF req.uri = "timer" /\ Arms(clients, req) THEN armed + 1 ELSE armed
      PROVE  TimerFiresOnce'
    <2>1. clients' = clients \/ TimerGiven(clients, req, clients')
        BY <1>5, RequestChanges
    <2>2. armed' \in Nat /\ armed <= armed'
        BY <1>2, <1>5
    <2>3. CASE clients' = clients
        <3>1. Pending(clients') = Pending(clients)
            BY <2>3
        <3>. QED
            BY <1>1, <1>2, <2>2, <3>1, NoMorePending
    <2>4. CASE TimerGiven(clients, req, clients')
        <3>. DEFINE k == client_get(clients, req.id)
        <3>1. /\ req.uri = "timer" /\ MayArm(clients, req) /\ k \in 1..Len(clients)
              /\ clients[k] \in Client /\ clients[k].timer_uri = NoUri
              /\ \/ \E t \in {"armed", "due", "never"} : clients' = [clients EXCEPT ![k].timer = t]
                 \/ /\ req.action \in ServerCommand
                    /\ clients' = [clients EXCEPT ![k].timer = "armed",
                                                  ![k].timer_uri = req.action]
            BY <1>2, <2>4, ClientGetFinds DEF TimerGiven, MayArm
        <3>. HIDE DEF k
        <3>2. ASSUME NEW t \in {"armed", "due", "never"},
                     clients' = [clients EXCEPT ![k].timer = t]
              PROVE  TimerFiresOnce'
            <4>. DEFINE x == [clients[k] EXCEPT !.timer = t]
            <4>1. clients' = [clients EXCEPT ![k] = x]
                BY <1>2, <3>1, <3>2
            <4>2. x \in Client /\ ~Awaited(x)
                BY <3>1, <3>2 DEF Client, Timer, Awaited
            <4>. HIDE DEF x
            <4>3. /\ Cardinality(Pending(clients')) \in Nat
                  /\ Cardinality(Pending(clients')) <= Cardinality(Pending(clients))
                BY <1>2, <3>1, <4>1, <4>2, PendingSet
            <4>. QED
                BY <1>1, <2>2, <4>3, NoMorePending
        <3>3. ASSUME req.action \in ServerCommand,
                     clients' = [clients EXCEPT ![k].timer = "armed", ![k].timer_uri = req.action]
              PROVE  TimerFiresOnce'
            <4>. DEFINE x == [clients[k] EXCEPT !.timer = "armed", !.timer_uri = req.action]
            <4>1. clients' = [clients EXCEPT ![k] = x]
                BY <1>2, <3>1, <3>3
            <4>2. x \in Client
                BY <3>1, <3>3 DEF Client, Timer, Uri
            <4>. HIDE DEF x
            <4>3. /\ Cardinality(Pending(clients')) \in Nat
                  /\ Cardinality(Pending(clients')) <= Cardinality(Pending(clients)) + 1
                BY <1>2, <3>1, <4>1, <4>2, PendingSet
            <4>4. armed' = armed + 1
                BY <1>5, <3>1, <3>3 DEF Arms
            <4>5. fired + Cardinality(Pending(clients)) <= armed
                BY DEF TimerFiresOnce, Pending, Awaited
            <4>6. fired' + Cardinality(Pending(clients')) <= armed'
                BY <1>1, <1>2, <4>3, <4>4, <4>5
            <4>. QED
                BY <4>6 DEF TimerFiresOnce, Pending, Awaited
        <3>. QED
            BY <3>1, <3>2, <3>3
    <2>. QED
        BY <2>1, <2>3, <2>4
<1>. QED
    BY <1>3, <1>4, <1>5

(* A client's answer takes an action away at most, and so does its end.    *)
LEMMA ClientCounts ==
    ASSUME IInv, TimerFiresOnce, ServeClient
    PROVE  TimerFiresOnce'
<1>. DEFINE j  == FirstOf(LoopTargets)
            id == client_array[j]
            c  == fdtab[FdAt(j)]
<1>1. /\ LoopTargets # {} /\ UNCHANGED <<armed, fired>>
      /\ \/ ServeClientData(c, client_get(clients, id))
         \/ clients' = client_remove(clients, id)
         \/ UNCHANGED clients
    BY DEF ServeClient, ServeClientEof
<1>2. /\ clients \in Seq(Client) /\ DOMAIN clients = 1..Len(clients)
      /\ armed \in Nat /\ Cardinality(Pending(clients)) \in Nat
    BY PendingCount, LenProperties DEF IInv, TypeOK, ServerTypeOK
<1>3. j \in Nat /\ j >= 1 /\ j <= nclients
    <2>1. LoopTargets \subseteq i..nclients
        BY DEF LoopTargets
    <2>. QED
        BY <1>1, <2>1, FirstPosition
<1>. HIDE DEF j
<1>4. /\ j \in 1..Len(clients) /\ clients[j] \in Client
      /\ client_get(clients, id) = j
    BY <1>3, Position
<1>. HIDE DEF id, c
<1>5. CASE UNCHANGED clients
    BY <1>1, <1>5, ListStaysCounts
<1>6. CASE clients' = client_remove(clients, id)
    <2>1. clients' = RemoveAt(clients, j)
        BY <1>4, <1>6 DEF client_remove
    <2>2. Cardinality(Pending(clients')) \in Nat
        BY <1>2, <1>4, <2>1, Removed, PendingCount
    <2>3. Cardinality(Pending(clients')) <= Cardinality(Pending(clients))
        BY <1>2, <1>4, <2>1, PendingRemoved
    <2>4. armed' \in Nat /\ armed <= armed' /\ fired' = fired
        BY <1>1, <1>2
    <2>. QED
        BY <2>2, <2>3, <2>4, NoMorePending
<1>7. CASE ServeClientData(c, client_get(clients, id))
    <2>1. \/ UNCHANGED clients
          \/ \E cn, res : \E o \in ecafe_response_handle(cn, clients, j, res, s_connfd) :
                clients' = o.clients
        BY <1>4, <1>7 DEF ServeClientData, Handled
    <2>2. ASSUME NEW res, AnswerNoted(clients, j, res, clients') PROVE TimerFiresOnce'
        <3>1. PICK b \in BOOLEAN :
                LET y == [clients[j] EXCEPT !.is_online = b]
                IN  \/ clients' = [clients EXCEPT ![j] = y]
                    \/ clients' = [clients EXCEPT ![j] = [y EXCEPT !.timer_uri = NoUri]]
            BY <2>2 DEF AnswerNoted
        <3>. DEFINE y == [clients[j] EXCEPT !.is_online = b]
                    z == [y EXCEPT !.timer_uri = NoUri]
        <3>2. /\ y \in Client
              /\ Awaited(y) => Awaited(clients[j])
              /\ z \in Client /\ ~Awaited(z)
            <4>1. y \in Client /\ y.timer = clients[j].timer /\ y.timer_uri = clients[j].timer_uri
                BY <1>4 DEF Client
            <4>2. z \in Client /\ z.timer_uri = NoUri
                BY <4>1 DEF Client, Uri
            <4>. QED
                BY <4>1, <4>2 DEF Awaited
        <3>3. \/ clients' = [clients EXCEPT ![j] = y]
              \/ clients' = [clients EXCEPT ![j] = z]
            BY <3>1
        <3>. HIDE DEF y, z
        <3>4. /\ Cardinality(Pending(clients')) \in Nat
              /\ Cardinality(Pending(clients')) <= Cardinality(Pending(clients))
            <4>1. CASE clients' = [clients EXCEPT ![j] = y]
                BY <1>2, <1>4, <3>2, <4>1, PendingSet
            <4>2. CASE clients' = [clients EXCEPT ![j] = z]
                BY <1>2, <1>4, <3>2, <4>2, PendingSet
            <4>. QED
                BY <3>3, <4>1, <4>2
        <3>5. armed' \in Nat /\ armed <= armed' /\ fired' = fired
            BY <1>1, <1>2
        <3>. QED
            BY <3>4, <3>5, NoMorePending
    <2>3. ASSUME NEW cn, NEW res, NEW o \in ecafe_response_handle(cn, clients, j, res, s_connfd),
                 clients' = o.clients
          PROVE  TimerFiresOnce'
        <3>1. o.clients = clients \/ AnswerNoted(clients, j, res, o.clients)
            BY <1>2, <1>4, ResponseChanges
        <3>2. CASE o.clients = clients
            BY <1>1, <2>3, <3>2, ListStaysCounts
        <3>. QED
            BY <2>2, <2>3, <3>1, <3>2
    <2>. QED
        BY <1>5, <2>1, <2>3
<1>. QED
    BY <1>1, <1>5, <1>6, <1>7

(* server_check_timeout issues the action of a timer and frees the timer.  *)
LEMMA TimeoutCounts ==
    ASSUME IInv, TimerFiresOnce, CheckTimeout
    PROVE  TimerFiresOnce'
<1>. DEFINE j   == FirstOf(Expired)
            k   == client_get(clients, client_array[j])
            uri == clients[k].timer_uri
            req == MakeRequest(uri, clients[k].id, {}, TimerTag)
<1>1. /\ Expired # {} /\ armed' = armed
      /\ \/ UNCHANGED <<clients, fired>>
         \/ /\ uri # NoUri /\ fired' = fired + 1
            /\ \E o \in ecafe_request_handle(conn, clients, req, 0) :
                  clients' = [o.clients EXCEPT ![k].timer = "none"]
    BY DEF CheckTimeout
<1>2. Expired \subseteq i..nclients
    BY DEF Expired
<1>3. j \in Nat /\ j >= 1 /\ j <= nclients
    BY <1>1, <1>2, FirstPosition
<1>4. clients[k].timer = "due"
    <2>1. i \in Nat /\ nclients \in Nat
        BY DEF IInv, TypeOK, ServerTypeOK
    <2>2. j \in Expired
        BY <1>1, <1>2, <2>1, FirstOfIsLeast
    <2>. QED
        BY <2>2 DEF Expired, TimerAt
<1>. HIDE DEF j
<1>5. /\ k \in 1..Len(clients) /\ clients[k] \in Client
      /\ clients \in Seq(Client) /\ DOMAIN clients = 1..Len(clients)
      /\ armed \in Nat /\ fired \in Nat
    BY <1>3, Position, LenProperties DEF IInv, TypeOK, ServerTypeOK
<1>. HIDE DEF k
<1>6. CASE UNCHANGED <<clients, fired>>
    BY <1>1, <1>6, ListStaysCounts
<1>7. ASSUME uri # NoUri, fired' = fired + 1,
             NEW o \in ecafe_request_handle(conn, clients, req, 0),
             clients' = [o.clients EXCEPT ![k].timer = "none"]
      PROVE  TimerFiresOnce'
    <2>1. req.duration = "none"
        BY DEF MakeRequest
    <2>. HIDE DEF req
    <2>2. o.clients = clients
        BY <1>7, <2>1, RequestChanges DEF TimerGiven, MayArm
    <2>. DEFINE x == [clients[k] EXCEPT !.timer = "none"]
    <2>3. clients' = [clients EXCEPT ![k] = x]
        BY <1>5, <1>7, <2>2
    <2>4. x \in Client /\ ~Awaited(x) /\ Awaited(clients[k])
        BY <1>4, <1>5, <1>7 DEF Client, Timer, Awaited
    <2>. HIDE DEF x
    <2>5. /\ Cardinality(Pending(clients)) \in Nat /\ Cardinality(Pending(clients')) \in Nat
          /\ Cardinality(Pending(clients')) + 1 <= Cardinality(Pending(clients))
        BY <1>5, <2>3, <2>4, PendingSet
    <2>6. fired + Cardinality(Pending(clients)) <= armed
        BY DEF TimerFiresOnce, Pending, Awaited
    <2>7. fired' + Cardinality(Pending(clients')) <= armed'
        BY <1>1, <1>5, <1>7, <2>5, <2>6
    <2>. QED
        BY <2>7 DEF TimerFiresOnce, Pending, Awaited
<1>. HIDE DEF req, uri
<1>. QED
    BY <1>1, <1>6, <1>7

(* Every step of the system.                                               *)
LEMMA NextCounts ==
    ASSUME IInv, TimerFiresOnce, [Next]_vars
    PROVE  TimerFiresOnce'
<1>1. CASE UNCHANGED <<clients, armed, fired>>
    BY <1>1, ListStaysCounts
<1>2. CASE \/ Select \/ AcceptServer \/ EndRound \/ EndTimeout \/ Agent \/ Web
           \/ UNCHANGED vars
    BY <1>1, <1>2 DEF Select, AcceptServer, EndRound, EndTimeout, Agent, Web, vars, serverVars
<1>3. /\ clients \in Seq(Client) /\ DOMAIN clients = 1..Len(clients)
      /\ armed \in Nat /\ armed <= armed /\ Cardinality(Pending(clients)) \in Nat
    BY PendingCount, LenProperties DEF IInv, TypeOK, ServerTypeOK
<1>4. CASE AcceptClient
    <2>. DEFINE x == [id |-> NextId, fd |-> LowestFreeFd, is_online |-> TRUE,
                      timer |-> "none", timer_uri |-> NoUri]
    <2>1. clients' = Append(clients, x) /\ UNCHANGED <<armed, fired>>
        BY <1>4 DEF AcceptClient
    <2>2. x.timer = "none"
        OBVIOUS
    <2>. HIDE DEF x
    <2>3. Pending(clients') = Pending(clients)
        BY <1>3, <2>1, <2>2, PendingAppended
    <2>. QED
        BY <1>3, <2>1, <2>3, NoMorePending
<1>5. CASE TimePasses
    <2>1. PICK k \in 1..Len(clients) : /\ clients[k].timer = "armed"
                                       /\ clients' = [clients EXCEPT ![k].timer = "due"]
        BY <1>3, <1>5 DEF TimePasses
    <2>2. UNCHANGED <<armed, fired>>
        BY <1>5 DEF TimePasses
    <2>. DEFINE x == [clients[k] EXCEPT !.timer = "due"]
    <2>3. clients' = [clients EXCEPT ![k] = x]
        BY <1>3, <2>1
    <2>4. x \in Client /\ (Awaited(x) => Awaited(clients[k]))
        <3>1. clients[k] \in Client
            BY <1>3, Members
        <3>. QED
            BY <2>1, <3>1 DEF Client, Timer, Awaited
    <2>. HIDE DEF x
    <2>5. /\ Cardinality(Pending(clients')) \in Nat
          /\ Cardinality(Pending(clients')) <= Cardinality(Pending(clients))
        BY <1>3, <2>3, <2>4, PendingSet
    <2>. QED
        BY <1>3, <2>2, <2>5, NoMorePending
<1>. QED
    BY <1>2, <1>4, <1>5, WebCounts, ClientCounts, TimeoutCounts DEF Next, Server, ServerStep

(* Of the timers that were accepted, as many at most have fired as do not  *)
(* wait any more: no timer's action is issued twice, whatever the handlers *)
(* make of requests and answers, and whoever leaves.                       *)
THEOREM NoTimerFiresTwice == Safe => []TimerFiresOnce
<1>1. Init => TimerFiresOnce
    <2>1. SUFFICES ASSUME Init PROVE TimerFiresOnce
        OBVIOUS
    <2>2. clients = <<>> /\ armed = 0 /\ fired = 0
        BY <2>1 DEF Init, ServerInit
    <2>3. Pending(clients) = {}
        BY <2>2 DEF Pending
    <2>4. fired + Cardinality(Pending(clients)) <= armed
        BY <2>2, <2>3, FS_EmptySet
    <2>. QED
        BY <2>4 DEF TimerFiresOnce, Pending, Awaited
<1>2. IInv /\ TimerFiresOnce /\ [Next]_vars => TimerFiresOnce'
    BY NextCounts
<1>. QED
    BY <1>1, <1>2, Invariance, PTL DEF Safe

-----------------------------------------------------------------------------

(* Who is at the ends of the connections, and with which client id: peers  *)
(* may close, but nothing else changes.                                    *)
SameEnds(cn, cn1) ==
    \A c \in Conn : /\ cn1[c].peer = cn[c].peer
                    /\ cn1[c].srv = cn[c].srv
                    /\ cn1[c].id = cn[c].id
                    /\ cn1[c].link = "up" => cn[c].link = "up"

(* Nothing was taken from, or added to, what peers sent.                   *)
SameUps(cn, cn1) == \A c \in Conn : cn1[c].up = cn[c].up

(* What a write leaves: nothing is taken from what peers sent, and if the  *)
(* clients are registered, requests are still on their way to the right    *)
(* ones.                                                                   *)
Carried(cn, cl, cn1) ==
    /\ SameUps(cn, cn1)
    /\ Registered(cn, cl) /\ Addressed(cn) => Registered(cn1, cl) /\ Addressed(cn1)

-----------------------------------------------------------------------------
(* What is in flight in a queue to which a message was appended, and in    *)
(* one from which some were read.                                          *)
LEMMA AppendInFlight ==
    ASSUME NEW q \in Seq(Message), NEW m \in Message
    PROVE  /\ Append(q, m) \in Seq(Message)
           /\ InFlight(Append(q, m)) = InFlight(q) \cup {m}
<1>1. /\ Append(q, m) \in Seq(Message) /\ Len(Append(q, m)) = Len(q) + 1
      /\ Append(q, m)[Len(q) + 1] = m
      /\ \A k \in 1..Len(q) : Append(q, m)[k] = q[k]
      /\ Len(q) \in Nat
    BY AppendProperties, LenProperties
<1>. DEFINE r == Append(q, m)
<1>2. DOMAIN q = 1..Len(q) /\ DOMAIN r = 1..(Len(q) + 1)
    BY <1>1, LenProperties
<1>. HIDE DEF r
<1>3. 1..(Len(q) + 1) = 1..Len(q) \cup {Len(q) + 1}
    BY <1>1
<1>4. InFlight(r) = InFlight(q) \cup {m}
    BY <1>1, <1>2, <1>3 DEF InFlight, r
<1>. QED
    BY <1>1, <1>4 DEF r

(* What one read() takes, and what it leaves, was in flight.               *)
LEMMA ReadInFlight ==
    ASSUME NEW q \in Seq(Message), NEW n \in 1..Len(q)
    PROVE  /\ \A k \in 1..n : SubSeq(q, 1, n)[k] \in InFlight(q)
           /\ DOMAIN SubSeq(q, 1, n) = 1..n
           /\ InFlight(SubSeq(q, n + 1, Len(q))) \subseteq InFlight(q)
<1>1. Len(q) \in Nat /\ DOMAIN q = 1..Len(q)
    BY LenProperties
<1>2. \A k \in 1..Len(q) : q[k] \in InFlight(q)
    BY <1>1 DEF InFlight
<1>3. /\ DOMAIN SubSeq(q, 1, n) = 1..n
      /\ \A k \in 1..n : SubSeq(q, 1, n)[k] = q[k]
    BY <1>1
<1>. DEFINE left == SubSeq(q, n + 1, Len(q))
<1>4. /\ DOMAIN left = 1..(Len(q) - n)
      /\ \A k \in 1..(Len(q) - n) : left[k] = q[n + k] /\ n + k \in 1..Len(q)
    BY <1>1
<1>. HIDE DEF left
<1>5. InFlight(left) \subseteq InFlight(q)
    BY <1>2, <1>4 DEF InFlight
<1>. QED
    BY <1>1, <1>2, <1>3, <1>5 DEF left

(* A batch that parses to a request with an id has a request with that id. *)
LEMMA ParsedId ==
    ASSUME NEW batch \in Seq(Message), Len(batch) # 0, IsRequest(batch),
           request_parse(batch).id # 0
    PROVE  \E k \in DOMAIN batch : /\ batch[k].kind = "request" /\ batch[k].id # 0
                                   /\ request_parse(batch).id = batch[k].id
<1>. DEFINE requests == {k \in DOMAIN batch : batch[k].kind = "request"}
            ids      == {k \in requests : batch[k].id # 0}
<1>1. Len(batch) \in Nat /\ DOMAIN batch = 1..Len(batch)
    BY LenProperties
<1>2. 1 \in DOMAIN batch /\ batch[1] \in Message
    BY <1>1, ElementOfSeq
<1>3. batch[1] \in Request
    BY <1>2 DEF IsRequest, Message, Request, Response
<1>4. request_parse(batch).id = IF ids = {} THEN batch[1].id ELSE batch[LastOf(ids)].id
    BY <1>3 DEF request_parse, Request
<1>5. ids # {}
    BY <1>2, <1>4 DEF IsRequest
<1>6. LastOf(ids) \in ids
    <2>1. ids \in SUBSET (1..Len(batch))
        BY <1>1
    <2>. QED
        BY <1>1, <1>5, <2>1, LastOfIsGreatest
<1>. QED
    BY <1>4, <1>5, <1>6

-----------------------------------------------------------------------------
(* A write to a connection adds what is written to what is in flight there,*)
(* or nothing.                                                             *)
LEMMA WriteToCarries ==
    ASSUME NEW cn \in [Conn -> Connection], NEW c \in Conn, NEW m \in Message,
           NEW w \in WriteTo(cn, c, m)
    PROVE  /\ SameUps(cn, w.conn)
           /\ \A d \in Conn : InFlight(w.conn[d].down) \subseteq
                                 InFlight(cn[d].down) \cup (IF d = c THEN {m} ELSE {})
<1>1. cn[c].link \in {"up", "fin", "rst", "hup"} /\ cn[c].down \in Seq(Message)
    BY DEF Connection
<1>2. CASE cn[c].link = "up"
    <2>1. w.conn = [cn EXCEPT ![c].down = Append(@, m)]
        BY <1>2 DEF WriteTo
    <2>2. InFlight(Append(cn[c].down, m)) = InFlight(cn[c].down) \cup {m}
        BY <1>1, AppendInFlight
    <2>. DEFINE q == Append(cn[c].down, m)
    <2>3. w.conn = [cn EXCEPT ![c] = [cn[c] EXCEPT !.down = q]]
        BY <2>1
    <2>. HIDE DEF q
    <2>4. /\ w.conn[c].down = q /\ w.conn[c].up = cn[c].up
          /\ \A d \in Conn : d # c => w.conn[d] = cn[d]
        BY <2>3 DEF Connection
    <2>. QED
        BY <2>2, <2>4 DEF q, SameUps
<1>3. CASE cn[c].link # "up"
    <2>1. w.conn = cn \/ \E l \in {"rst", "hup"} : w.conn = [cn EXCEPT ![c].link = l]
        <3>1. CASE cn[c].link = "fin"
            BY <3>1 DEF WriteTo
        <3>2. CASE cn[c].link = "rst"
            <4>. DEFINE y == [cn EXCEPT ![c].link = "hup"]
            <4>1. \/ w = [conn |-> cn, rv |-> "sent"]
                  \/ w = [conn |-> y, rv |-> "failed"]
                  \/ w = [conn |-> cn, rv |-> "killed"]
                BY <3>2 DEF WriteTo
            <4>. HIDE DEF y
            <4>2. w.conn = cn \/ w.conn = y
                BY <4>1
            <4>. QED
                BY <4>2 DEF y
        <3>3. CASE cn[c].link = "hup"
            BY <3>3 DEF WriteTo
        <3>. QED
            BY <1>1, <1>3, <3>1, <3>2, <3>3
    <2>2. \A d \in Conn : w.conn[d].up = cn[d].up /\ w.conn[d].down = cn[d].down
        <3>1. ASSUME NEW l \in {"rst", "hup"}, w.conn = [cn EXCEPT ![c].link = l],
                     NEW d \in Conn
              PROVE  w.conn[d].up = cn[d].up /\ w.conn[d].down = cn[d].down
            <4>1. w.conn[d] = cn[d] \/ w.conn[d] = [cn[d] EXCEPT !.link = l]
                BY <3>1
            <4>2. cn[d] \in Connection
                OBVIOUS
            <4>. QED
                BY <4>1, <4>2 DEF Connection
        <3>. QED
            BY <2>1, <3>1
    <2>. QED
        BY <2>2 DEF SameUps
<1>. QED
    BY <1>2, <1>3

(* A response may be written anywhere, a request that names a client to    *)
(* that client's descriptor.                                               *)
Toward(cl, f, m) ==
    m.kind = "request" /\ m.id # 0 => \E k \in 1..Len(cl) : f = cl[k].fd /\ m.id = cl[k].id

(* A write to a descriptor carries, if what it says to a client is written *)
(* to that client.                                                         *)
LEMMA WriteCarries ==
    ASSUME NetTypeOK, NEW cn \in [Conn -> Connection], NEW cl \in Seq(Client), NEW f,
           NEW m \in Message, Toward(cl, f, m), NEW w \in Write(cn, f, m)
    PROVE  Carried(cn, cl, w.conn)
<1>0. \A k \in 1..Len(cl) : cl[k].fd \in Fd
    BY Members
<1>1. CASE f \in Fd /\ fdtab[f] # 0
    <2>1. fdtab[f] \in Conn
        BY <1>1, MaxConnAssumption DEF NetTypeOK, Conn
    <2>2. w \in WriteTo(cn, fdtab[f], m)
        BY <1>1 DEF Write
    <2>3. /\ SameUps(cn, w.conn)
          /\ \A d \in Conn : InFlight(w.conn[d].down) \subseteq
                                InFlight(cn[d].down) \cup (IF d = fdtab[f] THEN {m} ELSE {})
        BY <2>1, <2>2, WriteToCarries
    <2>4. Alike(cn, w.conn)
        BY <2>1, <2>2, WriteToOutcomes
    <2>5. ASSUME Registered(cn, cl), Addressed(cn)
          PROVE  Registered(w.conn, cl) /\ Addressed(w.conn)
        <3>1. Registered(w.conn, cl)
            <4>1. \A k \in 1..Len(cl) : fdtab[cl[k].fd] # 0 => fdtab[cl[k].fd] \in Conn
                BY <1>0, MaxConnAssumption DEF NetTypeOK, Conn
            <4>. QED
                BY <2>4, <2>5, <4>1 DEF Registered, Alike
        <3>2. ASSUME m.kind = "request", m.id # 0 PROVE cn[fdtab[f]].id = m.id
            BY <2>5, <3>2 DEF Toward, Registered
        <3>3. ASSUME NEW d \in Conn, NEW m1 \in InFlight(w.conn[d].down),
                     m1.kind = "request", m1.id # 0
              PROVE  w.conn[d].id = m1.id
            <4>1. w.conn[d].id = cn[d].id
                BY <2>4 DEF Alike
            <4>2. CASE m1 \in InFlight(cn[d].down)
                BY <2>5, <3>3, <4>1, <4>2 DEF Addressed
            <4>3. CASE d = fdtab[f] /\ m1 = m
                BY <3>2, <3>3, <4>1, <4>3
            <4>. QED
                BY <2>3, <4>2, <4>3
        <3>. QED
            BY <3>1, <3>3 DEF Addressed
    <2>. QED
        BY <2>3, <2>5 DEF Carried
<1>2. CASE ~(f \in Fd /\ fdtab[f] # 0)
    BY <1>2 DEF Write, Carried, SameUps
<1>. QED
    BY <1>1, <1>2

(* Of two writes that each carry what they should, so do both together.    *)
LEMMA CarriedTransitive ==
    ASSUME NEW cn, NEW cl, NEW cn1, NEW cn2, Carried(cn, cl, cn1), Carried(cn1, cl, cn2)
    PROVE  Carried(cn, cl, cn2)
BY DEF Carried, SameUps

(* A message that is sent, with whatever list.                             *)
LEMMA SendCarries ==
    ASSUME NetTypeOK, NEW cn \in [Conn -> Connection], NEW cl \in Seq(Client), NEW cl1,
           NEW f, NEW m \in Message, Toward(cl, f, m), NEW o \in Send(cn, cl1, f, m)
    PROVE  Carried(cn, cl, o.conn)
<1>1. PICK w \in Write(cn, f, m) : o = Outcome(w.conn, cl1, Fate(w))
    BY DEF Send
<1>2. Carried(cn, cl, w.conn)
    BY WriteCarries
<1>3. o.conn = w.conn
    BY <1>1 DEF Outcome
<1>. QED
    BY <1>2, <1>3

(* An answer of the server's own goes anywhere: a refusal, a consent, what *)
(* clientall gives.                                                        *)
LEMMA ResponseSent ==
    ASSUME NetTypeOK, NEW cn \in [Conn -> Connection], NEW cl \in Seq(Client), NEW cl1,
           NEW f, NEW m \in Response, NEW o \in Send(cn, cl1, f, m)
    PROVE  Carried(cn, cl, o.conn)
<1>1. m \in Message /\ Toward(cl, f, m)
    BY DEF Message, Response, Toward
<1>. QED
    BY <1>1, SendCarries

(* An answer names no client, and carries wherever it is written.          *)
LEMMA AnswerCarries ==
    ASSUME NetTypeOK, NEW cn \in [Conn -> Connection], NEW cl \in Seq(Client), NEW cl1,
           NEW f, NEW req \in Request,
           NEW o \in Refuse(cn, cl1, f, req) \cup Agree(cn, cl1, f, req)
    PROVE  Carried(cn, cl, o.conn)
<1>. DEFINE no  == MakeResponse(req.uri, 400, FALSE, req.tag)
            yes == MakeResponse(req.uri, 200, FALSE, req.tag)
<1>1. no \in Response /\ yes \in Response
    BY DEF MakeResponse, Response, Request
<1>2. o \in Send(cn, cl1, f, no) \/ o \in Send(cn, cl1, f, yes)
    BY DEF Refuse, Agree, Answer
<1>. HIDE DEF no, yes
<1>. QED
    BY <1>1, <1>2, ResponseSent

(* The handlers of requests send a request that names a client to that     *)
(* client, or to nobody.                                                   *)
LEMMA RequestCarries ==
    ASSUME NetTypeOK, NEW cn \in [Conn -> Connection], NEW cl \in Seq(Client),
           NEW req \in Request, NEW f, NEW o \in ecafe_request_handle(cn, cl, req, f)
    PROVE  Carried(cn, cl, o.conn)
<1>0. Carried(cn, cl, cn)
    BY DEF Carried, SameUps
<1>1. CASE req.uri = "clientall"
    <2>1. o \in ecafe_clientall(cn, cl, req, f)
        BY <1>1 DEF ecafe_request_handle, RelayedCommand
    <2>. DEFINE m == MakeResponse(req.uri, 200, cl # <<>>, req.tag)
    <2>2. m \in Response
        BY DEF MakeResponse, Response, Request
    <2>3. o = Outcome(cn, cl, "null_timer") \/ o \in Send(cn, cl, f, m)
        BY <2>1 DEF ecafe_clientall, Answer
    <2>. HIDE DEF m
    <2>. QED
        BY <1>0, <2>2, <2>3, ResponseSent DEF Outcome
<1>2. CASE req.uri = "client"
    <2>. DEFINE k  == client_get(cl, req.id)
                fd == cl[k].fd
    <2>1. o \in ecafe_client(cn, cl, req, f)
        BY <1>2 DEF ecafe_request_handle, RelayedCommand
    <2>2. CASE req.id \notin Ids(cl)
        <3>1. o \in Refuse(cn, cl, f, req)
            BY <2>1, <2>2 DEF ecafe_client
        <3>. QED
            BY <3>1, AnswerCarries
    <2>3. CASE req.id \in Ids(cl)
        <3>1. PICK w \in Write(cn, fd, req) :
                  o \in IF w.rv = "failed" THEN Refuse(w.conn, cl, f, req)
                        ELSE {Outcome(w.conn, cl, Fate(w))}
            BY <2>1, <2>3 DEF ecafe_client
        <3>2. k \in 1..Len(cl) /\ cl[k].id = req.id
            BY <2>3, ClientGetFinds
        <3>3. Toward(cl, fd, req)
            BY <3>2 DEF Toward
        <3>. HIDE DEF fd, k
        <3>4. w.conn \in [Conn -> Connection] /\ Carried(cn, cl, w.conn)
            BY <3>3, WriteOutcomes, WriteCarries DEF Message
        <3>5. CASE o \in Refuse(w.conn, cl, f, req)
            BY <3>4, <3>5, AnswerCarries, CarriedTransitive
        <3>6. CASE o = Outcome(w.conn, cl, Fate(w))
            BY <3>4, <3>6 DEF Outcome
        <3>. QED
            BY <3>1, <3>5, <3>6
    <2>. QED
        BY <2>2, <2>3
<1>3. CASE req.uri = "timer"
    <2>. DEFINE k == client_get(cl, req.id)
    <2>1. o \in ecafe_timer(cn, cl, req, f)
        BY <1>3 DEF ecafe_request_handle, RelayedCommand
    <2>2. \E cl1 : o \in Refuse(cn, cl1, f, req) \cup Agree(cn, cl1, f, req)
        <3>1. CASE ~MayArm(cl, req)
            BY <2>1, <3>1 DEF ecafe_timer
        <3>2. CASE MayArm(cl, req) /\ ~Arms(cl, req)
            <4>. DEFINE Bad(t) == Refuse(cn, [cl EXCEPT ![k].timer = t], f, req)
            <4>1. o \in UNION {Bad(t) : t \in {"armed", "due", "never"}}
                BY <2>1, <3>2 DEF ecafe_timer
            <4>2. PICK t \in {"armed", "due", "never"} : o \in Bad(t)
                <5>. HIDE DEF Bad
                <5>. QED
                    BY <4>1
            <4>. QED
                BY <4>2
        <3>3. CASE Arms(cl, req)
            <4>1. o \in Agree(cn, [cl EXCEPT ![k].timer = "armed",
                                             ![k].timer_uri = req.action], f, req)
                BY <2>1, <3>3 DEF ecafe_timer, Arms
            <4>. QED
                BY <4>1
        <3>. QED
            BY <3>1, <3>2, <3>3
    <2>. QED
        BY <2>2, AnswerCarries
<1>4. CASE req.uri \in RelayedCommand \cup {"getdetails", "screenshot"}
    <2>. DEFINE k  == client_get(cl, req.id)
                fd == cl[k].fd
                m  == Rewritten(req)
    <2>1. o \in Relay(cn, cl, req)
        BY <1>4 DEF ecafe_request_handle, RelayedCommand
    <2>2. CASE req.id = 0 \/ req.id \notin Ids(cl)
        BY <1>0, <2>1, <2>2 DEF Relay, Outcome
    <2>3. CASE ~(req.id = 0 \/ req.id \notin Ids(cl))
        <3>1. m \in Message /\ m.id = req.id
            BY DEF Rewritten, Message, Request, Param
        <3>2. o \in Send(cn, cl, fd, m)
            BY <2>1, <2>3 DEF Relay
        <3>3. k \in 1..Len(cl) /\ cl[k].id = req.id
            BY <2>3, ClientGetFinds
        <3>. HIDE DEF m
        <3>4. Toward(cl, fd, m)
            BY <3>1, <3>3 DEF Toward
        <3>. HIDE DEF fd, k
        <3>. QED
            BY <3>1, <3>2, <3>4, SendCarries
    <2>. QED
        BY <2>2, <2>3
<1>5. CASE req.uri \notin RelayedCommand \cup {"getdetails", "screenshot",
                                              "clientall", "client", "timer"}
    <2>1. o = Outcome(cn, cl, "running")
        BY <1>5 DEF ecafe_request_handle
    <2>. QED
        BY <1>0, <2>1 DEF Outcome
<1>. QED
    BY <1>1, <1>2, <1>3, <1>4, <1>5

(* The handlers of responses send no request at all.                       *)
LEMMA ResponseCarries ==
    ASSUME NetTypeOK, NEW cn \in [Conn -> Connection], NEW cl \in Seq(Client), NEW k,
           NEW res \in Response, NEW f, NEW o \in ecafe_response_handle(cn, cl, k, res, f)
    PROVE  Carried(cn, cl, o.conn)
<1>1. Carried(cn, cl, cn)
    BY DEF Carried, SameUps
<1>2. res \in Message /\ Toward(cl, f, res)
    BY DEF Message, Response, Toward
<1>3. o.conn = cn \/ \E cl1 : o \in Send(cn, cl1, f, res)
    BY DEF ecafe_response_handle, Outcome
<1>. QED
    BY <1>1, <1>2, <1>3, SendCarries

-----------------------------------------------------------------------------
(* What a step keeps that changes neither the ends of the connections nor  *)
(* the descriptors nor who is in the list.                                 *)
LEMMA EndsFrame ==
    ASSUME IInv, RoutingInv, SameEnds(conn, conn'), SameClients(clients, clients'),
           UNCHANGED <<nconn, fdtab, s_connfd>>
    PROVE  /\ NumbersOK'
           /\ WebClosed => WebClosed'
           /\ ~WebClosed' => Registered(conn, clients)' /\ OwnSocket'
<1>1. \A f \in Fd : fdtab[f] # 0 => fdtab[f] \in Conn
    BY MaxConnAssumption DEF IInv, TypeOK, NetTypeOK, Conn
<1>2. /\ \A k \in 1..Len(clients) : clients[k].fd \in Fd
      /\ s_connfd # 0 => s_connfd \in Fd
    BY Members DEF IInv, TypeOK, ServerTypeOK
<1>3. NumbersOK'
    BY DEF RoutingInv, NumbersOK, SameEnds
<1>4. WebClosed => WebClosed'
    BY DEF WebClosed, SameEnds
<1>5. ASSUME ~WebClosed' PROVE Registered(conn, clients)' /\ OwnSocket'
    <2>1. Registered(conn, clients) /\ OwnSocket
        BY <1>4, <1>5 DEF RoutingInv
    <2>2. Registered(conn, clients)'
        BY <1>1, <1>2, <2>1 DEF Registered, SameEnds, SameClients
    <2>3. OwnSocket'
        BY <1>1, <1>2, <2>1 DEF OwnSocket, SameEnds
    <2>. QED
        BY <2>2, <2>3
<1>. QED
    BY <1>3, <1>4, <1>5

(* A queue with something in it has something in flight.                   *)
LEMMA NotEmpty ==
    ASSUME NEW q \in Seq(Message)
    PROVE  q # <<>> <=> InFlight(q) # {}
<1>1. Len(q) \in Nat /\ DOMAIN q = 1..Len(q)
    BY LenProperties
<1>2. ASSUME q # <<>> PROVE InFlight(q) # {}
    <2>1. Len(q) # 0
        BY <1>2, EmptySeq
    <2>2. 1 \in DOMAIN q
        BY <1>1, <2>1
    <2>. QED
        BY <2>2 DEF InFlight
<1>3. ASSUME q = <<>> PROVE InFlight(q) = {}
    BY <1>3 DEF InFlight
<1>. QED
    BY <1>2, <1>3

(* What an agent or a controller may do to the connections and to the      *)
(* history: send a request, answer a lock that was carried out, take       *)
(* messages, close.                                                        *)
PeerActs ==
    /\ SameEnds(conn, conn') /\ conn' \in [Conn -> Connection]
    /\ UNCHANGED <<nconn, fdtab>> /\ UNCHANGED serverVars
    /\ \A c \in Conn :
        /\ InFlight(conn'[c].down) \subseteq InFlight(conn[c].down)
        /\ InFlight(conn[c].up) \subseteq InFlight(conn'[c].up)
        /\ \A m \in InFlight(conn'[c].up) \ InFlight(conn[c].up) :
              m.kind = "response" /\ m.uri = "lock" =>
                  \E x \in executed' : x.uri = "lock" /\ x.conn = c
    /\ executed \subseteq executed'
    /\ ~WebClosed => \A x \in executed' \ executed : x.id # 0 => conn[x.conn].id = x.id

(* What agents and controllers do between joining and leaving keeps what   *)
(* is said of routing.                                                     *)
LEMMA PeerKeepsRouting ==
    ASSUME IInv, IInv', RoutingInv, PeerActs
    PROVE  RoutingInv'
<1>0. /\ \A c \in Conn : conn[c].up \in Seq(Message) /\ conn'[c].up \in Seq(Message)
      /\ \A x \in executed' : x.conn \in Conn
      /\ clients \in Seq(Client)
    BY DEF IInv, TypeOK, NetTypeOK, Connection, AgentTypeOK, ServerTypeOK
<1>1. /\ SameEnds(conn, conn') /\ UNCHANGED <<nconn, fdtab>> /\ UNCHANGED serverVars
      /\ executed \subseteq executed'
      /\ \A c \in Conn : InFlight(conn'[c].down) \subseteq InFlight(conn[c].down)
    BY DEF PeerActs
<1>2. SameClients(clients, clients')
    BY <1>0, <1>1, SameAgain DEF serverVars
<1>3. /\ NumbersOK'
      /\ WebClosed => WebClosed'
      /\ ~WebClosed' => Registered(conn, clients)' /\ OwnSocket'
    BY <1>1, <1>2, EndsFrame DEF serverVars
<1>4. LockAnswers'
    <2>1. SUFFICES ASSUME NEW c \in Conn, NEW m \in InFlight(conn'[c].up),
                          m.kind = "response", m.uri = "lock"
                   PROVE  \E x \in executed' : x.uri = "lock" /\ x.conn = c
        BY DEF LockAnswers
    <2>2. CASE m \in InFlight(conn[c].up)
        BY <1>1, <2>1, <2>2 DEF RoutingInv, LockAnswers
    <2>3. CASE m \notin InFlight(conn[c].up)
        BY <2>1, <2>3 DEF PeerActs
    <2>. QED
        BY <2>2, <2>3
<1>5. RequestsReachAddressee'
    <2>1. SUFFICES ASSUME ~WebClosed'
                   PROVE  /\ Addressed(conn)'
                          /\ \A x \in executed' : x.id # 0 => conn'[x.conn].id = x.id
        BY DEF RequestsReachAddressee, Addressed
    <2>2. /\ ~WebClosed /\ Addressed(conn)
          /\ \A x \in executed : x.id # 0 => conn[x.conn].id = x.id
        BY <1>3, <2>1 DEF RoutingInv, RequestsReachAddressee, Addressed
    <2>3. Addressed(conn)'
        BY <1>1, <2>2 DEF Addressed, SameEnds
    <2>4. \A x \in executed' : x.id # 0 => conn[x.conn].id = x.id
        BY <2>2 DEF PeerActs
    <2>. QED
        BY <1>0, <1>1, <2>3, <2>4 DEF SameEnds
<1>6. OfflineMeansLocked'
    <2>1. \A x \in executed : x.conn \in Conn /\ conn'[x.conn].id = conn[x.conn].id
        BY <1>0, <1>1 DEF SameEnds
    <2>. QED
        BY <1>1, <1>3, <2>1 DEF RoutingInv, OfflineMeansLocked, serverVars
<1>7. ASSUME ~WebClosed' PROVE StillReadable'
    <2>1. StillReadable
        BY <1>3, <1>7 DEF RoutingInv
    <2>2. \A c \in Conn : /\ conn[c].up # <<>> => conn'[c].up # <<>>
                          /\ conn[c].link # "up" => conn'[c].link # "up"
        BY <1>0, NotEmpty DEF PeerActs, SameEnds
    <2>3. \A f \in Fd : Readable(conn, f) => Readable(conn, f)'
        BY <1>1, <2>2, MaxConnAssumption DEF Readable, IInv, TypeOK, NetTypeOK, Conn
    <2>4. \A k \in 1..Len(clients) : clients[k].fd \in Fd
        BY <1>0, Members
    <2>5. i \in Nat /\ i >= 1
        BY DEF IInv, TypeOK, ServerTypeOK, LoopOK
    <2>6. \A k \in i..Len(clients) : clients[k].fd \in Fd
        BY <1>0, <2>4, <2>5, LenProperties
    <2>7. s_connfd \in rset /\ Readable(conn, s_connfd) => s_connfd \in Fd \cup {0}
        BY DEF IInv, TypeOK, ServerTypeOK
    <2>8. 0 \notin rset
        BY Descriptors DEF IInv, TypeOK, ServerTypeOK
    <2>. QED
        BY <1>1, <2>1, <2>3, <2>6, <2>7, <2>8 DEF StillReadable, serverVars
<1>. QED
    BY <1>3, <1>4, <1>5, <1>6, <1>7 DEF RoutingInv

(* A step of the peer of one connection.                                   *)
LEMMA OnePeerActs ==
    ASSUME IInv, NEW c \in Conn, NEW x \in Connection,
           x.peer = conn[c].peer, x.srv = conn[c].srv, x.id = conn[c].id,
           x.link = "up" => conn[c].link = "up",
           InFlight(x.down) \subseteq InFlight(conn[c].down),
           InFlight(conn[c].up) \subseteq InFlight(x.up),
           \A m \in InFlight(x.up) \ InFlight(conn[c].up) :
              m.kind = "response" /\ m.uri = "lock" =>
                  \E y \in executed' : y.uri = "lock" /\ y.conn = c,
           conn' = [conn EXCEPT ![c] = x],
           UNCHANGED <<nconn, fdtab>>, UNCHANGED serverVars,
           executed \subseteq executed',
           ~WebClosed => \A y \in executed' \ executed : y.id # 0 => conn[y.conn].id = y.id
    PROVE  PeerActs
<1>1. conn \in [Conn -> Connection]
    BY DEF IInv, TypeOK, NetTypeOK
<1>2. conn'[c] = x /\ \A d \in Conn : d # c => conn'[d] = conn[d]
    BY <1>1
<1>3. conn' \in [Conn -> Connection]
    BY <1>1
<1>. QED
    BY <1>2, <1>3 DEF PeerActs, SameEnds

(* An agent that answers carries out what was sent to it, and only that.   *)
LEMMA AgentRequestActs ==
    ASSUME IInv, RoutingInv, NEW c \in AgentConn, AgentRequest(c), UNCHANGED serverVars
    PROVE  PeerActs
<1>0. conn \in [Conn -> Connection] /\ c \in Conn /\ conn[c] \in Connection
    BY MaxConnAssumption DEF IInv, TypeOK, NetTypeOK, AgentConn, Conn
<1>1. conn[c].down \in Seq(Message) /\ conn[c].up \in Seq(Message)
    BY <1>0 DEF Connection
<1>. PICK n \in 1..Len(conn[c].down) :
        LET batch == SubSeq(conn[c].down, 1, n)
            rest  == [conn EXCEPT ![c].down = SubSeq(@, n + 1, Len(@))]
            req   == request_parse(batch)
            died  == IF n < Len(conn[c].down) THEN "rst" ELSE "fin"
        IN  IF IsRequest(batch) /\ Handles(req)
            THEN /\ executed' = executed \cup
                       {[conn |-> c, uri |-> req.uri, id |-> req.id, tag |-> req.tag]}
                 /\ conn' = [rest EXCEPT ![c].up = Append(@,
                               MakeResponse(req.uri, Status(req.uri),
                                            HasRecords(req.uri), req.tag))]
            ELSE /\ conn' = [rest EXCEPT ![c].link = died, ![c].down = <<>>]
                 /\ UNCHANGED executed
    BY DEF AgentRequest
<1>. DEFINE batch == SubSeq(conn[c].down, 1, n)
            left  == SubSeq(conn[c].down, n + 1, Len(conn[c].down))
            rest  == [conn EXCEPT ![c].down = SubSeq(@, n + 1, Len(@))]
            req   == request_parse(batch)
            died  == IF n < Len(conn[c].down) THEN "rst" ELSE "fin"
            res   == MakeResponse(req.uri, Status(req.uri), HasRecords(req.uri), req.tag)
<1>2. /\ batch \in Seq(Message) /\ Len(batch) # 0 /\ left \in Seq(Message)
      /\ \A k \in DOMAIN batch : batch[k] \in InFlight(conn[c].down)
      /\ InFlight(left) \subseteq InFlight(conn[c].down)
    <2>1. Len(conn[c].down) \in Nat
        BY <1>1, LenProperties
    <2>2. batch \in Seq(Message) /\ Len(batch) = n /\ left \in Seq(Message)
        BY <1>1, Batches
    <2>3. /\ DOMAIN batch = 1..n
          /\ \A k \in 1..n : batch[k] \in InFlight(conn[c].down)
          /\ InFlight(left) \subseteq InFlight(conn[c].down)
        BY <1>1, ReadInFlight
    <2>. HIDE DEF batch, left
    <2>. QED
        BY <2>1, <2>2, <2>3
<1>3. UNCHANGED <<nconn, fdtab>>
    BY DEF AgentRequest
<1>4. CASE IsRequest(batch) /\ Handles(req)
    <2>. DEFINE done == [conn |-> c, uri |-> req.uri, id |-> req.id, tag |-> req.tag]
    <2>1. req \in Request
        BY <1>2, <1>4, ParsedRequest
    <2>2. ASSUME ~WebClosed, req.id # 0 PROVE conn[c].id = req.id
        <3>1. PICK k \in DOMAIN batch : /\ batch[k].kind = "request" /\ batch[k].id # 0
                                        /\ req.id = batch[k].id
            BY <1>2, <1>4, <2>2, ParsedId
        <3>2. batch[k] \in InFlight(conn[c].down)
            BY <1>2
        <3>. HIDE DEF batch, req
        <3>. QED
            BY <1>0, <2>2, <3>1, <3>2 DEF RoutingInv, RequestsReachAddressee
    <2>. HIDE DEF req
    <2>3. res \in Message /\ res.uri = req.uri
        BY <2>1 DEF Message, MakeResponse, Response, Request, Status, HasRecords
    <2>. HIDE DEF res, batch
    <2>4. executed' = executed \cup {done}
        BY <1>4 DEF req, batch
    <2>5. done.conn = c /\ done.uri = req.uri /\ done.id = req.id
        OBVIOUS
    <2>. HIDE DEF done
    <2>6. conn' = [rest EXCEPT ![c].up = Append(@, res)]
        BY <1>4 DEF req, batch, res
    <2>7. rest = [conn EXCEPT ![c] = [conn[c] EXCEPT !.down = left]]
        BY <1>0
    <2>8. /\ Append(conn[c].up, res) \in Seq(Message)
          /\ InFlight(Append(conn[c].up, res)) = InFlight(conn[c].up) \cup {res}
        BY <1>1, <2>3, AppendInFlight
    <2>. DEFINE x == [conn[c] EXCEPT !.down = left, !.up = Append(conn[c].up, res)]
    <2>. HIDE DEF left
    <2>9. conn' = [conn EXCEPT ![c] = x]
        BY <1>0, <2>6, <2>7 DEF Connection
    <2>10. /\ x \in Connection /\ x.peer = conn[c].peer /\ x.srv = conn[c].srv
           /\ x.link = conn[c].link /\ x.id = conn[c].id
           /\ x.down = left /\ x.up = Append(conn[c].up, res)
        BY <1>0, <1>2, <2>8 DEF Connection
    <2>. HIDE DEF x
    <2>11. \A m \in InFlight(x.up) \ InFlight(conn[c].up) :
              m.kind = "response" /\ m.uri = "lock" =>
                  \E y \in executed' : y.uri = "lock" /\ y.conn = c
        BY <2>3, <2>4, <2>5, <2>8, <2>10
    <2>12. ~WebClosed => \A y \in executed' \ executed : y.id # 0 => conn[y.conn].id = y.id
        BY <2>2, <2>4, <2>5
    <2>13. executed \subseteq executed'
        BY <2>4
    <2>. QED
        BY <1>0, <1>2, <1>3, <2>8, <2>9, <2>10, <2>11, <2>12, <2>13, OnePeerActs
<1>5. CASE ~(IsRequest(batch) /\ Handles(req))
    <2>1. conn' = [rest EXCEPT ![c].link = died, ![c].down = <<>>] /\ executed' = executed
        BY <1>5
    <2>2. died \in {"rst", "fin"} /\ <<>> \in Seq(Message)
        OBVIOUS
    <2>. DEFINE x == [conn[c] EXCEPT !.link = died, !.down = <<>>]
    <2>. HIDE DEF died, batch, req
    <2>3. conn' = [conn EXCEPT ![c] = x]
        <3>1. rest = [conn EXCEPT ![c] = [conn[c] EXCEPT !.down = left]]
            BY <1>0
        <3>. HIDE DEF rest, left
        <3>2. conn' = [conn EXCEPT ![c] = [rest[c] EXCEPT !.link = died, !.down = <<>>]]
            BY <1>0, <2>1, <3>1
        <3>3. rest[c] = [conn[c] EXCEPT !.down = left]
            BY <1>0, <3>1
        <3>4. [rest[c] EXCEPT !.link = died, !.down = <<>>] = x
            BY <1>0, <3>3 DEF Connection
        <3>. QED
            BY <3>2, <3>4
    <2>4. /\ x \in Connection /\ x.peer = conn[c].peer /\ x.srv = conn[c].srv
          /\ x.id = conn[c].id /\ x.link # "up" /\ x.down = <<>> /\ x.up = conn[c].up
        BY <1>0, <2>2 DEF Connection
    <2>. HIDE DEF x
    <2>5. InFlight(x.down) \subseteq InFlight(conn[c].down)
        BY <2>4 DEF InFlight
    <2>. QED
        BY <1>0, <1>3, <2>1, <2>3, <2>4, <2>5, OnePeerActs
<1>. QED
    BY <1>4, <1>5

(* A peer that closes.                                                     *)
LEMMA PeerClosedActs ==
    ASSUME IInv, NEW c \in Conn, conn' = PeerClosed(c), UNCHANGED <<nconn, fdtab>>,
           UNCHANGED serverVars, UNCHANGED executed
    PROVE  PeerActs
<1>. DEFINE l == IF conn[c].down # <<>> THEN "rst"
                 ELSE IF conn[c].peer \in Controller THEN "hup" ELSE "fin"
<1>1. conn' = [conn EXCEPT ![c].link = l, ![c].down = <<>>]
    BY DEF PeerClosed
<1>2. l \in {"fin", "rst", "hup"} /\ <<>> \in Seq(Message)
    OBVIOUS
<1>. HIDE DEF l
<1>3. conn \in [Conn -> Connection]
    BY DEF IInv, TypeOK, NetTypeOK
<1>. DEFINE x == [conn[c] EXCEPT !.link = l, !.down = <<>>]
<1>4. /\ x \in Connection /\ x.peer = conn[c].peer /\ x.srv = conn[c].srv /\ x.link # "up"
      /\ x.id = conn[c].id /\ x.down = <<>> /\ x.up = conn[c].up
    BY <1>2, <1>3 DEF Connection
<1>5. conn' = [conn EXCEPT ![c] = x]
    BY <1>1, <1>3
<1>. HIDE DEF x
<1>6. InFlight(x.down) \subseteq InFlight(conn[c].down)
    BY <1>4 DEF InFlight
<1>. QED
    BY <1>4, <1>5, <1>6, OnePeerActs

(* A page that asks sends a request, one that reads takes an answer.       *)
LEMMA ControllerActs ==
    ASSUME IInv, NEW w \in Controller, Stop(w) \/ Ask(w) \/ Receive(w) \/ ServerGone(w),
           UNCHANGED serverVars, UNCHANGED executed
    PROVE  PeerActs
<1>0. /\ conn \in [Conn -> Connection] /\ MaxReq \in Nat /\ nreq \in Nat
      /\ web[w].conn # 0 => web[w].conn \in Conn /\ conn[web[w].conn] \in Connection
      /\ web[w].tag # 0 => web[w].conn # 0
    BY MaxConnAssumption, MaxReqAssumption
       DEF IInv, TypeOK, NetTypeOK, ControllerTypeOK, WaitsOnConnection, Conn
<1>1. CASE Stop(w)
    BY <1>0, <1>1, PeerClosedActs DEF Stop
<1>2. CASE Ask(w)
    <2>. DEFINE c == web[w].conn
    <2>1. /\ c \in Conn /\ conn[c] \in Connection /\ nreq + 1 \in Tag
          /\ UNCHANGED <<nconn, fdtab>>
        BY <1>0, <1>2 DEF Ask, Tag, IInv, TypeOK, ControllerTypeOK
    <2>2. PICK req \in PageRequest(nreq + 1) :
              conn' = [conn EXCEPT ![c].up = Append(@, req)]
        BY <1>2 DEF Ask
    <2>. HIDE DEF c
    <2>3. req \in Message /\ req.kind = "request"
        BY <2>1, <2>2, PagesRequest DEF Message, Request
    <2>. DEFINE q == Append(conn[c].up, req)
    <2>4. q \in Seq(Message) /\ InFlight(q) = InFlight(conn[c].up) \cup {req}
        BY <2>1, <2>3, AppendInFlight DEF Connection
    <2>5. conn' = [conn EXCEPT ![c] = [conn[c] EXCEPT !.up = q]]
        BY <1>0, <2>1, <2>2
    <2>. HIDE DEF q
    <2>. DEFINE x == [conn[c] EXCEPT !.up = q]
    <2>6. /\ x \in Connection /\ x.peer = conn[c].peer /\ x.srv = conn[c].srv
          /\ x.link = conn[c].link /\ x.id = conn[c].id
          /\ x.down = conn[c].down /\ x.up = q
        BY <2>1, <2>4 DEF Connection
    <2>. HIDE DEF x
    <2>7. \A m \in InFlight(x.up) \ InFlight(conn[c].up) : m.kind # "response"
        BY <2>3, <2>4, <2>6
    <2>. QED
        BY <2>1, <2>4, <2>5, <2>6, <2>7, OnePeerActs DEF x
<1>3. CASE Receive(w)
    <2>. DEFINE c == web[w].conn
    <2>1. c \in Conn /\ conn[c] \in Connection /\ UNCHANGED <<nconn, fdtab>>
        BY <1>0, <1>3 DEF Receive
    <2>2. PICK n \in 1..Len(conn[c].down) :
              conn' = [conn EXCEPT ![c].down = SubSeq(@, n + 1, Len(@))]
        BY <1>3 DEF Receive
    <2>. HIDE DEF c
    <2>. DEFINE q == SubSeq(conn[c].down, n + 1, Len(conn[c].down))
    <2>3. q \in Seq(Message) /\ InFlight(q) \subseteq InFlight(conn[c].down)
        BY <2>1, Batches, ReadInFlight DEF Connection
    <2>4. conn' = [conn EXCEPT ![c] = [conn[c] EXCEPT !.down = q]]
        BY <1>0, <2>1, <2>2
    <2>. HIDE DEF q
    <2>. DEFINE x == [conn[c] EXCEPT !.down = q]
    <2>5. /\ x \in Connection /\ x.peer = conn[c].peer /\ x.srv = conn[c].srv
          /\ x.link = conn[c].link /\ x.id = conn[c].id
          /\ x.down = q /\ x.up = conn[c].up
        BY <2>1, <2>3 DEF Connection
    <2>. HIDE DEF x
    <2>. QED
        BY <2>1, <2>3, <2>4, <2>5, OnePeerActs DEF x
<1>4. CASE ServerGone(w)
    BY <1>0, <1>4 DEF ServerGone, netVars, PeerActs, SameEnds
<1>. QED
    BY <1>1, <1>2, <1>3, <1>4

(* A connection that is made is not the server's yet, and has no client id.*)
LEMMA ConnectKeepsRouting ==
    ASSUME IInv, IInv', RoutingInv, NEW p \in Machine \cup Controller, Connect(p),
           UNCHANGED serverVars, UNCHANGED executed
    PROVE  RoutingInv'
<1>. DEFINE new == [Unused EXCEPT !.peer = p, !.srv = "backlog"]
            c0  == nconn + 1
<1>1. /\ nconn \in Nat /\ c0 \in Conn /\ nconn' = c0 /\ fdtab' = fdtab
      /\ conn' = [conn EXCEPT ![c0] = new] /\ conn \in [Conn -> Connection]
    BY MaxConnAssumption DEF Connect, IInv, TypeOK, NetTypeOK, Conn
<1>2. /\ new.srv = "backlog" /\ new.id = 0 /\ new.up = <<>> /\ new.down = <<>>
    BY DEF Unused
<1>. HIDE DEF new
<1>3. conn'[c0] = new /\ \A c \in Conn : c # c0 => conn'[c] = conn[c]
    BY <1>1
<1>4. conn[c0].srv = "none" /\ conn[c0].id = 0
    BY <1>1 DEF RoutingInv, NumbersOK
<1>5. /\ \A f \in Fd : fdtab[f] # 0 => fdtab[f] \in Conn /\ fdtab[f] # c0
      /\ \A x \in executed : x.conn \in Conn
      /\ clients \in Seq(Client)
    <2>1. \A f \in Fd : fdtab[f] # 0 => fdtab[f] \in Conn
        BY MaxConnAssumption DEF IInv, TypeOK, NetTypeOK, Conn
    <2>2. \A f \in Fd : fdtab[f] # 0 => fdtab[f] # c0
        BY <1>4 DEF IInv, DescriptorsOK
    <2>3. \A x \in executed : x.conn \in Conn
        BY DEF IInv, TypeOK, AgentTypeOK
    <2>4. clients \in Seq(Client)
        BY DEF IInv, TypeOK, ServerTypeOK
    <2>. QED
        BY <2>1, <2>2, <2>3, <2>4
<1>6. \A c \in Conn : conn'[c].id = conn[c].id
    BY <1>2, <1>3, <1>4
<1>7. InFlight(new.up) = {} /\ InFlight(new.down) = {}
    BY <1>2 DEF InFlight
<1>8. \A f \in Fd : fdtab[f] # 0 => conn'[fdtab[f]] = conn[fdtab[f]]
    BY <1>3, <1>5
<1>9. WebClosed => WebClosed'
    BY <1>3, <1>4 DEF WebClosed
<1>10. NumbersOK'
    <2>1. \A c \in Conn : c > c0 => c > nconn /\ c # c0
        BY <1>1 DEF Conn
    <2>. QED
        BY <1>1, <1>2, <1>3, <2>1 DEF RoutingInv, NumbersOK
<1>11. LockAnswers'
    BY <1>3, <1>7 DEF RoutingInv, LockAnswers
<1>12. RequestsReachAddressee'
    BY <1>3, <1>5, <1>6, <1>7, <1>9 DEF RoutingInv, RequestsReachAddressee
<1>13. OfflineMeansLocked'
    BY <1>5, <1>6, <1>9 DEF RoutingInv, OfflineMeansLocked, serverVars
<1>14. ASSUME ~WebClosed' PROVE Registered(conn, clients)' /\ OwnSocket' /\ StillReadable'
    <2>1. Registered(conn, clients) /\ OwnSocket /\ StillReadable
        BY <1>9, <1>14 DEF RoutingInv
    <2>2. /\ \A k \in 1..Len(clients) : clients[k].fd \in Fd
          /\ s_connfd \in Fd \cup {0} /\ i \in Nat /\ i >= 1 /\ Len(clients) \in Nat
          /\ 0 \notin rset
        BY <1>5, Members, LenProperties, Descriptors
           DEF IInv, TypeOK, ServerTypeOK, LoopOK
    <2>3. Registered(conn, clients)'
        BY <1>1, <1>8, <2>1, <2>2 DEF Registered, serverVars
    <2>4. OwnSocket'
        BY <1>1, <1>8, <2>1, <2>2 DEF OwnSocket, serverVars
    <2>5. \A f \in Fd : Readable(conn, f) => Readable(conn, f)'
        BY <1>1, <1>8 DEF Readable
    <2>6. \A k \in i..Len(clients) : clients[k].fd \in Fd
        BY <2>2
    <2>7. StillReadable'
        BY <2>1, <2>2, <2>5, <2>6 DEF StillReadable, serverVars
    <2>. QED
        BY <2>3, <2>4, <2>7
<1>. QED
    BY <1>10, <1>11, <1>12, <1>13, <1>14 DEF RoutingInv

(* The agents' and the controllers' steps keep all that is said of routing.*)
LEMMA AgentRoutes ==
    ASSUME IInv, IInv', RoutingInv, Agent
    PROVE  RoutingInv'
<1>0. UNCHANGED serverVars
    BY DEF Agent
<1>1. CASE \E m \in Machine : AgentJoin(m)
    BY <1>0, <1>1, ConnectKeepsRouting DEF AgentJoin
<1>2. CASE \E c \in AgentConn : AgentRequest(c) \/ AgentExit(c) \/ AgentEof(c)
    <2>1. PICK c \in AgentConn : AgentRequest(c) \/ AgentExit(c) \/ AgentEof(c)
        BY <1>2
    <2>2. c \in Conn
        BY MaxConnAssumption DEF IInv, TypeOK, NetTypeOK, AgentConn, Conn
    <2>3. PeerActs
        <3>1. CASE AgentRequest(c)
            BY <1>0, <3>1, AgentRequestActs
        <3>2. CASE AgentExit(c) \/ AgentEof(c)
            BY <1>0, <2>2, <3>2, PeerClosedActs DEF AgentExit, AgentEof
        <3>. QED
            BY <2>1, <3>1, <3>2
    <2>. QED
        BY <2>3, PeerKeepsRouting
<1>. QED
    BY <1>1, <1>2 DEF Agent

(* Every step of a controller keeps what is said of routing.               *)
LEMMA WebRoutes ==
    ASSUME IInv, IInv', RoutingInv, Web
    PROVE  RoutingInv'
<1>0. UNCHANGED serverVars /\ UNCHANGED executed
    BY DEF Web
<1>1. CASE \E w \in Controller : Start(w)
    BY <1>0, <1>1, ConnectKeepsRouting DEF Start
<1>2. CASE \E w \in Controller : Stop(w) \/ Ask(w) \/ Receive(w) \/ ServerGone(w)
    BY <1>0, <1>2, ControllerActs, PeerKeepsRouting
<1>. QED
    BY <1>1, <1>2 DEF Web

-----------------------------------------------------------------------------
(* A PC was locked under this client id.                                   *)
Locked(id) == \E x \in executed : x.uri = "lock" /\ conn[x.conn].id = id

(* A server's step that changes neither who is at the ends of which        *)
(* descriptors nor who is in the list keeps what is said of routing, if    *)
(* what it sends and notes does.                                           *)
LEMMA ServedRoutes ==
    ASSUME IInv, RoutingInv, SameEnds(conn, conn'), SameClients(clients, clients'),
           UNCHANGED <<nconn, fdtab, s_connfd>>, UNCHANGED executed,
           \A c \in Conn : InFlight(conn'[c].up) \subseteq InFlight(conn[c].up),
           ~WebClosed => Addressed(conn)',
           ~WebClosed => \A k \in 1..Len(clients) :
               clients'[k].is_online \/ ~clients[k].is_online \/ Locked(clients[k].id),
           ~WebClosed => StillReadable'
    PROVE  RoutingInv'
<1>1. /\ NumbersOK'
      /\ WebClosed => WebClosed'
      /\ ~WebClosed' => Registered(conn, clients)' /\ OwnSocket'
    BY EndsFrame
<1>2. \A x \in executed : x.conn \in Conn /\ conn'[x.conn].id = conn[x.conn].id
    BY DEF IInv, TypeOK, AgentTypeOK, SameEnds
<1>3. LockAnswers'
    BY DEF RoutingInv, LockAnswers
<1>4. RequestsReachAddressee'
    BY <1>1, <1>2 DEF RoutingInv, RequestsReachAddressee, Addressed
<1>5. OfflineMeansLocked'
    <2>1. SUFFICES ASSUME ~WebClosed, NEW k \in 1..Len(clients), ~clients'[k].is_online
                   PROVE  \E x \in executed : /\ x.uri = "lock"
                                              /\ conn'[x.conn].id = clients'[k].id
        BY <1>1 DEF OfflineMeansLocked, SameClients
    <2>2. Locked(clients[k].id)
        BY <2>1 DEF RoutingInv, OfflineMeansLocked, Locked
    <2>. QED
        BY <1>2, <2>1, <2>2 DEF Locked, SameClients
<1>. QED
    BY <1>1, <1>3, <1>4, <1>5 DEF RoutingInv

(* A step that leaves the connections alone, and the clients what they say,*)
(* needs only be asked what it says of what select() reported.             *)
LEMMA IdleRoutes ==
    ASSUME IInv, RoutingInv, SameClients(clients, clients'),
           UNCHANGED <<conn, nconn, fdtab, s_connfd>>, UNCHANGED executed,
           \A k \in 1..Len(clients) : clients'[k].is_online = clients[k].is_online,
           ~WebClosed => StillReadable'
    PROVE  RoutingInv'
<1>1. ~WebClosed => Addressed(conn)'
    BY DEF RoutingInv, RequestsReachAddressee, Addressed
<1>. QED
    BY <1>1, ServedRoutes DEF SameEnds

(* select() reports what is readable, and the round begins.                *)
LEMMA SelectRoutes ==
    ASSUME IInv, RoutingInv, Select, UNCHANGED executed
    PROVE  RoutingInv'
<1>. DEFINE ready == {f \in allset : Ready(f)}
<1>1. /\ rset' = ready /\ i' = 1
      /\ UNCHANGED <<clients, s_connfd, conn, nconn, fdtab>>
    BY DEF Select, netVars
<1>2. /\ clients \in Seq(Client) /\ Len(clients) \in Nat /\ s_connfd \in Fd \cup {0}
      /\ allset \subseteq {S_LISTENFD, C_LISTENFD} \cup Fd
    BY LenProperties DEF IInv, TypeOK, ServerTypeOK
<1>3. \A f \in Fd : f \in ready => Readable(conn, f)
    BY Descriptors DEF Ready
<1>4. 0 \notin ready
    BY <1>2, Descriptors
<1>. HIDE DEF ready
<1>5. \A k \in 1..Len(clients) : clients[k].fd \in Fd
    BY <1>2, Members
<1>6. StillReadable'
    BY <1>1, <1>2, <1>3, <1>4, <1>5 DEF StillReadable, Readable
<1>. QED
    BY <1>1, <1>2, <1>6, SameAgain, IdleRoutes

(* The steps that only move on.                                            *)
LEMMA EndRoutes ==
    ASSUME IInv, RoutingInv, EndRound \/ EndTimeout, UNCHANGED executed
    PROVE  RoutingInv'
<1>1. pc' = "select" /\ UNCHANGED <<clients, s_connfd, conn, nconn, fdtab>>
    BY DEF EndRound, EndTimeout, netVars
<1>2. StillReadable'
    BY <1>1 DEF StillReadable
<1>3. SameClients(clients, clients')
    BY <1>1, SameAgain DEF IInv, TypeOK, ServerTypeOK
<1>. QED
    BY <1>1, <1>2, <1>3, IdleRoutes

(* A round goes on as it was if the same clients are on the same           *)
(* descriptors.                                                            *)
LEMMA TimeRoutes ==
    ASSUME IInv, RoutingInv, TimePasses, UNCHANGED executed
    PROVE  RoutingInv'
<1>1. PICK j \in DOMAIN clients : clients' = [clients EXCEPT ![j].timer = "due"]
    BY DEF TimePasses
<1>2. UNCHANGED <<s_connfd, rset, i, pc, conn, nconn, fdtab>>
    BY DEF TimePasses, netVars
<1>3. /\ clients \in Seq(Client) /\ j \in 1..Len(clients) /\ Len(clients) \in Nat
      /\ DOMAIN clients = 1..Len(clients) /\ i \in Nat /\ i >= 1
    BY LenProperties DEF IInv, TypeOK, ServerTypeOK, LoopOK
<1>4. SameClients(clients, clients')
    BY <1>1, <1>3, TimerSet DEF Timer, Uri
<1>5. \A k \in 1..Len(clients) : clients'[k].is_online = clients[k].is_online
    <2>1. clients[j] \in Client
        BY <1>3, Members
    <2>. QED
        BY <1>1, <1>3, <2>1 DEF Client
<1>6. \A k \in i..Len(clients) : clients'[k].fd = clients[k].fd
    BY <1>3, <1>4 DEF SameClients
<1>7. ~WebClosed => StillReadable'
    BY <1>2, <1>4, <1>6 DEF RoutingInv, StillReadable, SameClients, Readable
<1>. QED
    BY <1>2, <1>4, <1>5, <1>7, IdleRoutes

(* Where nothing changes, nothing is lost.                                 *)
LEMMA StutterRoutes ==
    ASSUME IInv, RoutingInv, UNCHANGED vars
    PROVE  RoutingInv'
<1>1. /\ UNCHANGED <<clients, s_connfd, rset, i, pc, conn, nconn, fdtab>>
      /\ UNCHANGED executed
    BY DEF vars, serverVars, netVars
<1>2. SameClients(clients, clients')
    BY <1>1, SameAgain DEF IInv, TypeOK, ServerTypeOK
<1>3. ~WebClosed => StillReadable'
    BY <1>1 DEF RoutingInv, StillReadable, Readable
<1>. QED
    BY <1>1, <1>2, <1>3, IdleRoutes

(* What a handler of a request leaves of who is online: all of it.         *)
LEMMA RequestKeepsOnline ==
    ASSUME NEW cn, NEW cl \in Seq(Client), NEW req, NEW f,
           NEW o \in ecafe_request_handle(cn, cl, req, f), NEW k \in 1..Len(cl)
    PROVE  o.clients[k].is_online = cl[k].is_online
<1>1. cl[k] \in Client /\ DOMAIN cl = 1..Len(cl)
    BY Members, LenProperties
<1>2. CASE o.clients = cl
    BY <1>2
<1>3. CASE TimerGiven(cl, req, o.clients)
    <2>. DEFINE j == client_get(cl, req.id)
    <2>1. j \in 1..Len(cl) /\ cl[j] \in Client
        BY <1>3, ClientGetFinds DEF TimerGiven, MayArm
    <2>2. \/ \E t \in {"armed", "due", "never"} : o.clients = [cl EXCEPT ![j].timer = t]
          \/ o.clients = [cl EXCEPT ![j].timer = "armed", ![j].timer_uri = req.action]
        BY <1>3 DEF TimerGiven
    <2>. HIDE DEF j
    <2>3. ASSUME NEW t, o.clients = [cl EXCEPT ![j].timer = t]
          PROVE  o.clients[k].is_online = cl[k].is_online
        BY <1>1, <2>1, <2>3 DEF Client
    <2>4. ASSUME o.clients = [cl EXCEPT ![j].timer = "armed", ![j].timer_uri = req.action]
          PROVE  o.clients[k].is_online = cl[k].is_online
        <3>. DEFINE x == [cl[j] EXCEPT !.timer = "armed", !.timer_uri = req.action]
        <3>1. o.clients = [cl EXCEPT ![j] = x]
            BY <1>1, <2>1, <2>4
        <3>2. x.is_online = cl[j].is_online
            BY <2>1 DEF Client
        <3>. HIDE DEF x
        <3>. QED
            BY <1>1, <2>1, <3>1, <3>2
    <2>. QED
        BY <2>2, <2>3, <2>4
<1>. QED
    BY <1>2, <1>3, RequestChanges

(* What a connection was read from, and what was written afterwards: the   *)
(* others are as they were, and nothing came in.                           *)
Served(c, cn1) ==
    /\ SameEnds(conn, cn1)
    /\ \A d \in Conn : /\ InFlight(cn1[d].up) \subseteq InFlight(conn[d].up)
                       /\ d # c => /\ cn1[d].up = conn[d].up
                                   /\ cn1[d].link = "up" <=> conn[d].link = "up"
    /\ ~WebClosed => Addressed(cn1)

(* A read() from a connection, and then writes that carry, serve it.       *)
LEMMA ReadThenWritten ==
    ASSUME IInv, RoutingInv, NEW c \in Conn, NEW n \in 1..Len(conn[c].up)
    PROVE  LET batch == SubSeq(conn[c].up, 1, n)
               rest  == [conn EXCEPT ![c].up = SubSeq(@, n + 1, Len(@))]
           IN  /\ \A k \in DOMAIN batch : batch[k] \in InFlight(conn[c].up)
               /\ 1 \in DOMAIN batch
               /\ \A cn1 : Carried(rest, clients, cn1) /\ Alike(rest, cn1) => Served(c, cn1)
<1>. DEFINE batch == SubSeq(conn[c].up, 1, n)
            left  == SubSeq(conn[c].up, n + 1, Len(conn[c].up))
            rest  == [conn EXCEPT ![c].up = SubSeq(@, n + 1, Len(@))]
<1>0. /\ conn \in [Conn -> Connection] /\ conn[c] \in Connection
      /\ conn[c].up \in Seq(Message) /\ Len(conn[c].up) \in Nat
      /\ clients \in Seq(Client)
    BY LenProperties DEF IInv, TypeOK, NetTypeOK, ServerTypeOK, Connection
<1>1. /\ \A k \in 1..n : batch[k] \in InFlight(conn[c].up)
      /\ DOMAIN batch = 1..n /\ 1 \in DOMAIN batch
      /\ InFlight(left) \subseteq InFlight(conn[c].up)
    BY <1>0, ReadInFlight
<1>2. Alike(conn, rest)
    BY Taken
<1>3. rest = [conn EXCEPT ![c] = [conn[c] EXCEPT !.up = left]]
    BY <1>0
<1>. HIDE DEF left, rest, batch
<1>4. /\ rest[c].up = left /\ rest[c].down = conn[c].down
      /\ \A d \in Conn : d # c => rest[d] = conn[d]
    BY <1>0, <1>3 DEF Connection
<1>5. ASSUME ~WebClosed PROVE Registered(rest, clients) /\ Addressed(rest)
    <2>1. Registered(conn, clients) /\ Addressed(conn)
        BY <1>5 DEF RoutingInv, RequestsReachAddressee, Addressed
    <2>2. \A k \in 1..Len(clients) : fdtab[clients[k].fd] # 0 => fdtab[clients[k].fd] \in Conn
        BY <1>0, Members, MaxConnAssumption DEF IInv, TypeOK, NetTypeOK, Conn
    <2>3. Registered(rest, clients)
        BY <1>2, <2>1, <2>2 DEF Registered, Alike
    <2>4. \A d \in Conn : rest[d].down = conn[d].down /\ rest[d].id = conn[d].id
        BY <1>2, <1>4 DEF Alike
    <2>. QED
        BY <2>1, <2>3, <2>4 DEF Addressed
<1>6. ASSUME NEW cn1, Carried(rest, clients, cn1), Alike(rest, cn1)
      PROVE  Served(c, cn1)
    <2>1. Alike(conn, cn1)
        BY <1>2, <1>6, AlikeTransitive
    <2>2. \A d \in Conn : /\ InFlight(cn1[d].up) \subseteq InFlight(conn[d].up)
                          /\ d # c => cn1[d].up = conn[d].up
        BY <1>1, <1>4, <1>6 DEF Carried, SameUps
    <2>3. /\ SameEnds(conn, cn1)
          /\ \A d \in Conn : cn1[d].link = "up" <=> conn[d].link = "up"
        BY <2>1 DEF SameEnds, Alike
    <2>4. ~WebClosed => Addressed(cn1)
        BY <1>5, <1>6 DEF Carried
    <2>. QED
        BY <2>2, <2>3, <2>4 DEF Served
<1>. QED
    BY <1>1, <1>6 DEF batch, rest

(* A read() that fails serves the connection.                              *)
LEMMA ErrorServed ==
    ASSUME IInv, RoutingInv, NEW c \in Conn, ReadError(c)
    PROVE  Served(c, conn')
<1>0. conn \in [Conn -> Connection] /\ conn[c].link # "up"
    BY DEF IInv, TypeOK, NetTypeOK, ReadError, AtEof
<1>. DEFINE x == [conn[c] EXCEPT !.link = "hup"]
<1>1. /\ x.peer = conn[c].peer /\ x.srv = conn[c].srv /\ x.link = "hup"
      /\ x.id = conn[c].id /\ x.up = conn[c].up /\ x.down = conn[c].down
    BY <1>0 DEF Connection
<1>2. conn' = [conn EXCEPT ![c] = x]
    BY <1>0 DEF ReadError
<1>. HIDE DEF x
<1>3. \A d \in Conn : /\ conn'[d].peer = conn[d].peer /\ conn'[d].srv = conn[d].srv
                      /\ conn'[d].id = conn[d].id /\ conn'[d].up = conn[d].up
                      /\ conn'[d].down = conn[d].down
                      /\ conn'[d].link = "up" <=> conn[d].link = "up"
    BY <1>0, <1>1, <1>2
<1>4. ASSUME ~WebClosed PROVE Addressed(conn')
    <2>1. Addressed(conn)
        BY <1>4 DEF RoutingInv, RequestsReachAddressee, Addressed
    <2>. QED
        BY <1>3, <2>1 DEF Addressed
<1>5. SameEnds(conn, conn')
    BY <1>3 DEF SameEnds
<1>6. \A d \in Conn : InFlight(conn'[d].up) \subseteq InFlight(conn[d].up)
    BY <1>3
<1>. QED
    BY <1>3, <1>4, <1>5, <1>6 DEF Served

(* The loop serves the controller.                                         *)
LEMMA ServeWebRoutes ==
    ASSUME IInv, IInv', RoutingInv, ServeWeb, UNCHANGED executed
    PROVE  RoutingInv'
<1>. DEFINE c == fdtab[s_connfd]
<1>1. /\ pc = "web"
      /\ UNCHANGED <<nconn, s_connfd, rset, i>>
      /\ \/ ServeWebData(c) /\ UNCHANGED <<fdtab, allset>>
         \/ ServeWebEof(c) /\ pc' = "clients" /\ UNCHANGED <<clients, armed>>
         \/ ReadError(c) /\ pc' = "clients" /\ UNCHANGED <<clients, fdtab, allset, armed>>
    BY DEF ServeWeb
<1>2. s_connfd \in Fd /\ c # 0 /\ c \in Conn
    <2>1. s_connfd \in Fd /\ s_connfd \in allset
        BY <1>1, Descriptors DEF IInv, TypeOK, LoopOK, ServerTypeOK
    <2>. QED
        BY <2>1, Descriptors, MaxConnAssumption
           DEF IInv, TypeOK, SelectNeverFails, NetTypeOK, Conn
<1>3. /\ clients \in Seq(Client) /\ conn \in [Conn -> Connection] /\ NetTypeOK
      /\ \A k \in 1..Len(clients) : clients[k].fd \in Fd
      /\ Len(clients) \in Nat /\ i \in Nat /\ i >= 1
    BY Members, LenProperties DEF IInv, TypeOK, NetTypeOK, ServerTypeOK, LoopOK
<1>4. ASSUME ~WebClosed
      PROVE  /\ conn[c].peer \in Controller
             /\ \A k \in 1..Len(clients) : fdtab[clients[k].fd] # c
    BY <1>2, <1>4, Descriptors, PeersAssumption DEF RoutingInv, OwnSocket, Registered
<1>. HIDE DEF c
<1>5. ASSUME Served(c, conn'), SameClients(clients, clients'), UNCHANGED fdtab,
             pc' \in {"clients"} \cup Death,
             \A k \in 1..Len(clients) : clients'[k].is_online = clients[k].is_online
      PROVE  RoutingInv'
    <2>1. ASSUME ~WebClosed PROVE StillReadable'
        <3>1. SUFFICES ASSUME NEW k \in i..Len(clients), clients[k].fd \in rset
                       PROVE  Readable(conn', clients[k].fd)
            <4>1. \A k \in i..Len(clients) : clients'[k].fd = clients[k].fd
                BY <1>3, <1>5 DEF SameClients
            <4>. QED
                BY <1>1, <1>5, <3>1, <4>1 DEF StillReadable, SameClients, Death, Readable
        <3>2. k \in 1..Len(clients) /\ Readable(conn, clients[k].fd)
            BY <1>1, <1>3, <2>1, <3>1 DEF RoutingInv, StillReadable
        <3>. DEFINE d == fdtab[clients[k].fd]
        <3>3. d # 0 /\ d # c /\ d \in Conn
            BY <1>3, <1>4, <2>1, <3>2, MaxConnAssumption DEF Readable, NetTypeOK, Conn
        <3>4. conn'[d].up = conn[d].up /\ (conn'[d].link = "up" <=> conn[d].link = "up")
            BY <1>5, <3>3 DEF Served
        <3>5. fdtab' = fdtab /\ clients'[k].fd = clients[k].fd
            BY <1>5, <3>2 DEF SameClients
        <3>. QED
            BY <3>2, <3>4, <3>5 DEF Readable
    <2>. QED
        BY <1>1, <1>5, <2>1, ServedRoutes DEF Served
<1>6. CASE ServeWebData(c) /\ UNCHANGED <<fdtab, allset>>
    <2>1. PICK n \in 1..Len(conn[c].up) :
            LET batch == SubSeq(conn[c].up, 1, n)
                rest  == [conn EXCEPT ![c].up = SubSeq(@, n + 1, Len(@))]
                req   == request_parse(batch)
            IN  IF IsRequest(batch)
                THEN \E o \in ecafe_request_handle(rest, clients, req, s_connfd) :
                        /\ Handled(o)
                        /\ pc' = IF o.fate = "running" THEN "clients" ELSE o.fate
                ELSE conn' = rest /\ pc' = "clients" /\ UNCHANGED clients
        BY <1>6 DEF ServeWebData
    <2>. DEFINE batch == SubSeq(conn[c].up, 1, n)
                rest  == [conn EXCEPT ![c].up = SubSeq(@, n + 1, Len(@))]
                req   == request_parse(batch)
    <2>2. /\ batch \in Seq(Message) /\ Len(batch) # 0
          /\ rest \in [Conn -> Connection]
          /\ \A cn1 : Carried(rest, clients, cn1) /\ Alike(rest, cn1) => Served(c, cn1)
        BY <1>2, Taken, ReadThenWritten
    <2>. HIDE DEF batch, rest
    <2>3. CASE IsRequest(batch)
        <3>1. PICK o \in ecafe_request_handle(rest, clients, req, s_connfd) :
                /\ Handled(o)
                /\ pc' = IF o.fate = "running" THEN "clients" ELSE o.fate
            BY <2>1, <2>3 DEF batch, rest
        <3>2. req \in Request
            BY <2>2, <2>3, ParsedRequest
        <3>. HIDE DEF req
        <3>3. Sound(o, rest, clients) /\ Carried(rest, clients, o.conn)
            BY <1>3, <2>2, <3>1, <3>2, RequestSound, RequestCarries
        <3>4. Served(c, conn') /\ SameClients(clients, clients')
            BY <2>2, <3>1, <3>3 DEF Sound, Handled
        <3>5. \A k \in 1..Len(clients) : clients'[k].is_online = clients[k].is_online
            BY <1>3, <3>1, RequestKeepsOnline DEF Handled
        <3>6. pc' \in {"clients"} \cup Death
            BY <3>1, <3>3 DEF Sound
        <3>. QED
            BY <1>5, <1>6, <3>4, <3>5, <3>6
    <2>4. CASE ~IsRequest(batch)
        <3>1. conn' = rest /\ pc' = "clients" /\ UNCHANGED clients
            BY <2>1, <2>4 DEF batch, rest
        <3>2. Served(c, conn')
            BY <2>2, <3>1 DEF Carried, SameUps, Alike
        <3>. QED
            BY <1>3, <1>5, <1>6, <3>1, <3>2, SameAgain
    <2>. QED
        BY <2>3, <2>4
<1>7. CASE ReadError(c) /\ pc' = "clients" /\ UNCHANGED <<clients, fdtab, allset, armed>>
    BY <1>2, <1>3, <1>5, <1>7, ErrorServed, SameAgain
<1>8. CASE ServeWebEof(c) /\ pc' = "clients" /\ UNCHANGED <<clients, armed>>
    <2>1. conn' = ServerClosed(conn, c)
        BY <1>8 DEF ServeWebEof
    <2>2. /\ conn'[c].srv = "closed" /\ conn'[c].up = <<>>
          /\ conn'[c].peer = conn[c].peer /\ conn'[c].id = conn[c].id
          /\ \A d \in Conn : d # c => conn'[d] = conn[d]
        BY <1>2, <1>3, <2>1 DEF ServerClosed, Connection
    <2>3. WebClosed'
        <3>1. CASE WebClosed
            BY <2>2, <3>1 DEF WebClosed
        <3>2. CASE ~WebClosed
            BY <1>2, <1>4, <2>2, <3>2 DEF WebClosed
        <3>. QED
            BY <3>1, <3>2
    <2>4. NumbersOK'
        <3>1. c <= nconn
            BY <1>2 DEF c, IInv, DescriptorsOK
        <3>2. \A d \in Conn : d > nconn => d # c
            BY <3>1, MaxConnAssumption DEF Conn, IInv, TypeOK, NetTypeOK
        <3>. QED
            BY <1>1, <2>2, <3>2 DEF RoutingInv, NumbersOK
    <2>5. LockAnswers'
        BY <2>2 DEF RoutingInv, LockAnswers, InFlight
    <2>. QED
        BY <2>3, <2>4, <2>5 DEF RoutingInv, RequestsReachAddressee, OfflineMeansLocked
<1>. QED
    BY <1>1, <1>6, <1>7, <1>8

(* The loop looks at a timer that is due.                                  *)
LEMMA TimeoutRoutes ==
    ASSUME IInv, IInv', RoutingInv, CheckTimeout, UNCHANGED executed
    PROVE  RoutingInv'
<1>. DEFINE j   == FirstOf(Expired)
            k   == client_get(clients, client_array[j])
            uri == clients[k].timer_uri
            req == MakeRequest(uri, clients[k].id, {}, TimerTag)
<1>1. /\ pc = "timeout" /\ Expired # {}
      /\ IF uri = NoUri
         THEN pc' = "null_uri" /\ UNCHANGED <<conn, clients>>
         ELSE \E o \in ecafe_request_handle(conn, clients, req, 0) :
                /\ conn' = o.conn
                /\ clients' = [o.clients EXCEPT ![k].timer = "none"]
                /\ pc' = IF o.fate = "running" THEN pc ELSE o.fate
      /\ UNCHANGED <<nconn, fdtab, s_connfd>>
    BY DEF CheckTimeout
<1>2. j \in Nat /\ j >= 1 /\ j <= nclients
    <2>1. Expired \subseteq i..nclients
        BY DEF Expired
    <2>. QED
        BY <1>1, <2>1, FirstPosition
<1>. HIDE DEF j
<1>3. /\ k \in 1..Len(clients) /\ clients[k] \in Client /\ clients \in Seq(Client)
      /\ conn \in [Conn -> Connection] /\ NetTypeOK
    BY <1>2, Position DEF IInv, TypeOK, NetTypeOK, ServerTypeOK
<1>. HIDE DEF k
<1>4. CASE uri = NoUri
    <2>1. pc' = "null_uri" /\ UNCHANGED <<conn, clients>>
        BY <1>1, <1>4
    <2>2. StillReadable'
        BY <2>1 DEF StillReadable
    <2>. QED
        BY <1>1, <1>3, <2>1, <2>2, SameAgain, IdleRoutes
<1>5. CASE uri # NoUri
    <2>1. req \in Request
        <3>1. uri \in Uri /\ clients[k].id \in Nat /\ TimerTag \in Tag
            BY <1>3, MaxReqAssumption DEF Client, TimerTag, Tag
        <3>. QED
            BY <3>1 DEF MakeRequest, Request, NoUri, Uri
    <2>2. PICK o \in ecafe_request_handle(conn, clients, req, 0) :
            /\ conn' = o.conn
            /\ clients' = [o.clients EXCEPT ![k].timer = "none"]
            /\ pc' = IF o.fate = "running" THEN pc ELSE o.fate
        BY <1>1, <1>5
    <2>. HIDE DEF req
    <2>3. Sound(o, conn, clients) /\ Carried(conn, clients, o.conn)
        BY <1>3, <2>1, <2>2, RequestSound, RequestCarries
    <2>4. /\ o.clients \in Seq(Client) /\ k \in 1..Len(o.clients)
          /\ Len(o.clients) = Len(clients) /\ DOMAIN o.clients = 1..Len(o.clients)
          /\ "none" \in Timer /\ NoUri \in Uri
        BY <1>3, <2>3, LenProperties DEF Sound, SameClients, Timer, Uri
    <2>5. SameClients(clients, clients')
        <3>1. SameClients(o.clients, clients')
            BY <2>2, <2>4, TimerSet
        <3>. QED
            BY <2>3, <3>1 DEF Sound, SameClients
    <2>6. \A n \in 1..Len(clients) : clients'[n].is_online = clients[n].is_online
        <3>1. \A n \in 1..Len(clients) : o.clients[n].is_online = clients[n].is_online
            BY <1>3, <2>2, RequestKeepsOnline
        <3>2. o.clients[k] \in Client
            BY <2>4, Members
        <3>3. \A n \in 1..Len(clients) : clients'[n].is_online = o.clients[n].is_online
            BY <2>2, <2>4, <3>2 DEF Client
        <3>. QED
            BY <3>1, <3>3
    <2>7. StillReadable'
        BY <1>1, <2>2, <2>3 DEF StillReadable, Sound, Death
    <2>8. SameEnds(conn, conn')
        BY <2>2, <2>3 DEF Sound, Alike, SameEnds
    <2>9. ~WebClosed => Addressed(conn')
        BY <2>2, <2>3 DEF RoutingInv, RequestsReachAddressee, Addressed, Carried
    <2>10. \A c \in Conn : InFlight(conn'[c].up) \subseteq InFlight(conn[c].up)
        BY <2>2, <2>3 DEF Carried, SameUps
    <2>. QED
        BY <1>1, <2>5, <2>6, <2>7, <2>8, <2>9, <2>10, ServedRoutes
<1>. QED
    BY <1>4, <1>5

(* A PC is shown as offline only when it answers a lock.                   *)
LEMMA AnswerKeepsOnline ==
    ASSUME NEW cl \in Seq(Client), NEW k \in 1..Len(cl), NEW res, NEW cl1,
           AnswerNoted(cl, k, res, cl1), NEW n \in 1..Len(cl)
    PROVE  cl1[n].is_online \/ ~cl[n].is_online \/ (n = k /\ res.uri = "lock")
<1>1. cl[k] \in Client /\ cl[n] \in Client /\ DOMAIN cl = 1..Len(cl)
    BY Members, LenProperties
<1>2. PICK b \in BOOLEAN :
        /\ b \/ ~cl[k].is_online \/ res.uri = "lock"
        /\ LET x == [cl[k] EXCEPT !.is_online = b]
           IN  \/ cl1 = [cl EXCEPT ![k] = x]
               \/ cl1 = [cl EXCEPT ![k] = [x EXCEPT !.timer_uri = NoUri]]
    BY DEF AnswerNoted
<1>. DEFINE x == [cl[k] EXCEPT !.is_online = b]
            y == [x EXCEPT !.timer_uri = NoUri]
<1>3. x.is_online = b /\ y.is_online = b
    BY <1>1 DEF Client
<1>4. cl1 = [cl EXCEPT ![k] = x] \/ cl1 = [cl EXCEPT ![k] = y]
    BY <1>2
<1>. HIDE DEF x, y
<1>5. cl1[k].is_online = b /\ (n # k => cl1[n] = cl[n])
    BY <1>1, <1>3, <1>4
<1>6. CASE n = k
    BY <1>2, <1>5, <1>6
<1>7. CASE n # k
    BY <1>1, <1>5, <1>7 DEF Client
<1>. QED
    BY <1>6, <1>7

(* The loop finds that a PC has gone: the others are as they were.         *)
LEMMA LeaveRoutes ==
    ASSUME IInv, IInv', RoutingInv, NEW j \in 1..Len(clients), j >= i, i' = j + 1,
           pc = "clients", pc' = "clients",
           fdtab[clients[j].fd] # 0,
           conn' = ServerClosed(conn, fdtab[clients[j].fd]),
           fdtab' = [fdtab EXCEPT ![clients[j].fd] = 0],
           clients' = client_remove(clients, clients[j].id),
           UNCHANGED <<nconn, s_connfd, rset>>, UNCHANGED executed
    PROVE  RoutingInv'
<1>. DEFINE fd == clients[j].fd
            c  == fdtab[fd]
            L  == Len(clients)
<1>1. /\ clients \in Seq(Client) /\ L \in Nat /\ j \in 1..L /\ i \in Nat /\ i >= 1
      /\ conn \in [Conn -> Connection] /\ fdtab \in [Fd -> 0..MaxConn]
      /\ s_connfd \in Fd \cup {0}
      /\ \A k \in 1..L : clients[k] \in Client /\ clients[k].fd \in Fd
    BY Members, LenProperties DEF IInv, TypeOK, NetTypeOK, ServerTypeOK, LoopOK
<1>2. fd \in Fd /\ c # 0 /\ c \in Conn /\ c <= nconn
    <2>1. fd \in Fd /\ c # 0
        BY <1>1
    <2>2. c \in Conn
        BY <1>1, <2>1, MaxConnAssumption DEF Conn
    <2>3. c <= nconn
        BY <2>1 DEF IInv, DescriptorsOK
    <2>. QED
        BY <2>1, <2>2, <2>3
<1>3. \A f \in Fd : f # fd => fdtab'[f] = fdtab[f] /\ fdtab[f] # c
    BY <1>1, <1>2 DEF IInv, DescriptorsOK
<1>4. /\ conn'[c].srv = "closed" /\ conn'[c].up = <<>> /\ conn'[c].down = conn[c].down
      /\ conn'[c].peer = conn[c].peer /\ conn'[c].id = conn[c].id
      /\ \A d \in Conn : d # c => conn'[d] = conn[d]
    BY <1>1, <1>2 DEF ServerClosed, Connection
<1>5. \A k, n \in 1..L : k # n => clients[k].id # clients[n].id
    <2>1. \A k, n \in 1..L : k < n => clients[k].id < clients[n].id
        BY DEF IInv, IdsInJoinOrder
    <2>2. \A k \in 1..L : clients[k].id \in Nat
        BY <1>1 DEF Client
    <2>3. TAKE k, n \in 1..L
    <2>. HIDE DEF L
    <2>4. k # n => k < n \/ n < k
        BY <1>1
    <2>. QED
        BY <2>1, <2>2, <2>4
<1>6. \A k \in 1..L : k < L + 1
    BY <1>1
<1>. DEFINE was(k) == IF k < j THEN k ELSE k + 1
<1>7. /\ Len(clients') = L - 1
      /\ \A k \in 1..(L - 1) : /\ clients'[k] = clients[was(k)]
                               /\ was(k) \in 1..L /\ was(k) # j
                               /\ k >= i' => was(k) >= i
    <2>1. client_get(clients, clients[j].id) = j
        BY <1>1, ClientGetIsUnique DEF IInv, IdsInJoinOrder
    <2>. DEFINE r == RemoveAt(clients, j)
    <2>2. /\ Len(r) = L - 1
          /\ \A k \in 1..(L - 1) : r[k] = IF k < j THEN clients[k] ELSE clients[k + 1]
        BY <1>1, Removed
    <2>3. clients' = r
        BY <2>1 DEF client_remove
    <2>. HIDE DEF r
    <2>4. \A k \in 1..(L - 1) : /\ was(k) \in 1..L /\ was(k) # j
                                /\ k >= i' => was(k) >= i
        BY <1>1
    <2>. QED
        BY <2>2, <2>3, <2>4
<1>. HIDE DEF was, L, c, fd
<1>8. \A d \in Conn : /\ conn'[d].id = conn[d].id /\ conn'[d].down = conn[d].down
                      /\ conn'[d].peer = conn[d].peer
    BY <1>4
<1>9. WebClosed => WebClosed'
    BY <1>4 DEF WebClosed
<1>10. NumbersOK'
    <2>1. c \in Nat /\ nconn \in Nat
        BY <1>2, MaxConnAssumption DEF Conn, IInv, TypeOK, NetTypeOK
    <2>2. \A d \in Conn : d > nconn => d # c
        BY <1>2, <2>1 DEF Conn
    <2>. QED
        BY <1>4, <2>2 DEF RoutingInv, NumbersOK
<1>11. LockAnswers'
    BY <1>4 DEF RoutingInv, LockAnswers, InFlight
<1>12. RequestsReachAddressee'
    BY <1>8, <1>9 DEF RoutingInv, RequestsReachAddressee, IInv, TypeOK, AgentTypeOK
<1>13. OfflineMeansLocked'
    <2>1. SUFFICES ASSUME ~WebClosed, NEW k \in 1..Len(clients'), ~clients'[k].is_online
                   PROVE  \E x \in executed : /\ x.uri = "lock"
                                              /\ conn'[x.conn].id = clients'[k].id
        BY <1>9 DEF OfflineMeansLocked
    <2>2. PICK x \in executed : x.uri = "lock" /\ conn[x.conn].id = clients[was(k)].id
        BY <1>7, <2>1 DEF RoutingInv, OfflineMeansLocked, L
    <2>3. x.conn \in Conn
        BY DEF IInv, TypeOK, AgentTypeOK
    <2>. QED
        BY <1>7, <1>8, <2>1, <2>2, <2>3
<1>14. ASSUME ~WebClosed' PROVE Registered(conn, clients)' /\ OwnSocket' /\ StillReadable'
    <2>1. Registered(conn, clients) /\ OwnSocket /\ StillReadable
        BY <1>9, <1>14 DEF RoutingInv
    <2>2. /\ \A k \in 1..L : fdtab[clients[k].fd] # 0
          /\ \A k \in 1..L : conn[fdtab[clients[k].fd]].id = clients[k].id
          /\ \A k \in 1..L : conn[fdtab[clients[k].fd]].peer \in Machine
        BY <2>1 DEF Registered, L
    <2>3. \A k \in 1..L : k # j => clients[k].fd # fd
        BY <1>1, <1>5, <2>2 DEF fd
    <2>4. \A k \in 1..L : k # j =>
              /\ fdtab'[clients[k].fd] = fdtab[clients[k].fd]
              /\ fdtab[clients[k].fd] # c /\ fdtab[clients[k].fd] \in Conn
        BY <1>1, <1>3, <2>2, <2>3, MaxConnAssumption DEF Conn
    <2>5. Registered(conn, clients)'
        BY <1>7, <1>8, <2>2, <2>4 DEF Registered
    <2>6. OwnSocket'
        <3>1. SUFFICES ASSUME s_connfd # 0
                       PROVE  fdtab'[s_connfd] # 0 /\ conn'[fdtab'[s_connfd]].peer \in Controller
            BY DEF OwnSocket
        <3>2. s_connfd \in Fd /\ fdtab[s_connfd] # 0 /\ conn[fdtab[s_connfd]].peer \in Controller
            BY <1>1, <2>1, <3>1 DEF OwnSocket
        <3>3. s_connfd # fd
            BY <1>1, <2>2, <3>2, PeersAssumption DEF fd
        <3>4. fdtab[s_connfd] \in Conn
            BY <1>1, <3>2, MaxConnAssumption DEF Conn
        <3>. QED
            BY <1>3, <1>8, <3>2, <3>3, <3>4
    <2>7. StillReadable'
        <3>1. SUFFICES ASSUME NEW k \in i'..Len(clients'), clients'[k].fd \in rset
                       PROVE  Readable(conn, clients[k].fd)'
            BY DEF StillReadable
        <3>2. k \in 1..(L - 1) /\ k >= i'
            BY <1>1, <1>7, <3>1
        <3>. DEFINE n == was(k)
        <3>3. n \in 1..L /\ n # j /\ n >= i /\ clients'[k] = clients[n]
            BY <1>7, <3>2
        <3>. HIDE DEF n
        <3>4. n \in i..L
            BY <1>1, <3>3
        <3>5. Readable(conn, clients[n].fd)
            BY <2>1, <3>1, <3>3, <3>4 DEF StillReadable, L
        <3>. QED
            BY <1>4, <2>4, <3>3, <3>5 DEF Readable
    <2>. QED
        BY <2>5, <2>6, <2>7
<1>. QED
    BY <1>10, <1>11, <1>12, <1>13, <1>14 DEF RoutingInv

(* The loop serves a PC.                                                   *)
LEMMA ServeClientRoutes ==
    ASSUME IInv, IInv', RoutingInv, ServeClient, UNCHANGED executed
    PROVE  RoutingInv'
<1>. DEFINE j  == FirstOf(LoopTargets)
            id == client_array[j]
            fd == FdAt(j)
            c  == fdtab[fd]
<1>1. /\ pc = "clients" /\ LoopTargets # {}
      /\ \/ /\ c # 0
            /\ ServeClientData(c, client_get(clients, id))
            /\ UNCHANGED fdtab
         \/ c # 0 /\ ServeClientEof(c, id, fd) /\ UNCHANGED pc
         \/ c # 0 /\ ReadError(c) /\ UNCHANGED <<clients, fdtab, pc>>
         \/ c = 0 /\ UNCHANGED <<conn, clients, fdtab, pc>>
      /\ i' = j + 1
      /\ UNCHANGED <<nconn, s_connfd, rset>>
    BY DEF ServeClient
<1>2. j \in Nat /\ j >= 1 /\ j <= nclients /\ j >= i
    <2>1. LoopTargets \subseteq i..nclients /\ i \in Nat /\ nclients \in Nat
        BY DEF LoopTargets, IInv, TypeOK, ServerTypeOK
    <2>2. j \in LoopTargets
        BY <1>1, <2>1, FirstOfIsLeast
    <2>. HIDE DEF j
    <2>3. j \in i..nclients
        BY <2>1, <2>2
    <2>. QED
        BY <1>1, <2>1, <2>3 DEF IInv, LoopOK
<1>. HIDE DEF j
<1>3. /\ j \in 1..Len(clients) /\ id = clients[j].id /\ client_get(clients, id) = j
      /\ clients[j] \in Client /\ clients \in Seq(Client) /\ fd = clients[j].fd
    BY <1>2, Position DEF IInv, TypeOK, ServerTypeOK, FdAt
<1>4. /\ conn \in [Conn -> Connection] /\ NetTypeOK /\ fd \in Fd
      /\ c # 0 => c \in Conn
      /\ Len(clients) \in Nat /\ i \in Nat /\ i >= 1
      /\ \A k \in 1..Len(clients) : clients[k].fd \in Fd
    <2>1. fd \in Fd
        BY <1>3, Members
    <2>. HIDE DEF fd, id
    <2>2. c # 0 => c \in Conn
        BY <2>1, MaxConnAssumption DEF Conn, IInv, TypeOK, NetTypeOK
    <2>3. conn \in [Conn -> Connection] /\ NetTypeOK /\ i \in Nat /\ i >= 1
        BY DEF IInv, TypeOK, NetTypeOK, ServerTypeOK, LoopOK
    <2>. QED
        BY <1>3, <2>1, <2>2, <2>3, Members, LenProperties
<1>5. ASSUME ~WebClosed
      PROVE  /\ conn[c].id = clients[j].id
             /\ \A k \in 1..Len(clients) : k # j => fdtab[clients[k].fd] # c
    <2>1. \A k \in 1..Len(clients) : k # j => clients[k].id # clients[j].id
        BY <1>3, Members DEF IInv, IdsInJoinOrder
    <2>. QED
        BY <1>3, <1>5, <2>1 DEF RoutingInv, Registered
<1>. HIDE DEF c, fd, id
<1>6. ASSUME c # 0, Served(c, conn'), SameClients(clients, clients'), UNCHANGED fdtab,
             pc' \in {"clients"} \cup Death,
             ~WebClosed => \A k \in 1..Len(clients) :
                 clients'[k].is_online \/ ~clients[k].is_online \/ Locked(clients[k].id)
      PROVE  RoutingInv'
    <2>1. ASSUME ~WebClosed PROVE StillReadable'
        <3>1. SUFFICES ASSUME NEW k \in i'..Len(clients), clients[k].fd \in rset
                       PROVE  Readable(conn', clients[k].fd)
            <4>1. \A k \in i'..Len(clients) : clients'[k].fd = clients[k].fd
                BY <1>1, <1>2, <1>4, <1>6 DEF SameClients
            <4>. QED
                BY <1>1, <1>6, <3>1, <4>1 DEF StillReadable, SameClients, Death, Readable
        <3>2. k \in i..Len(clients) /\ k \in 1..Len(clients) /\ k # j
            BY <1>1, <1>2, <1>4, <3>1
        <3>3. Readable(conn, clients[k].fd)
            BY <1>1, <2>1, <3>1, <3>2 DEF RoutingInv, StillReadable
        <3>. DEFINE d == fdtab[clients[k].fd]
        <3>4. d # 0 /\ d # c /\ d \in Conn
            BY <1>4, <1>5, <2>1, <3>2, <3>3, MaxConnAssumption DEF Readable, NetTypeOK, Conn
        <3>5. conn'[d].up = conn[d].up /\ (conn'[d].link = "up" <=> conn[d].link = "up")
            BY <1>6, <3>4 DEF Served
        <3>6. fdtab' = fdtab
            BY <1>6
        <3>. QED
            BY <3>3, <3>5, <3>6 DEF Readable
    <2>. QED
        BY <1>1, <1>6, <2>1, ServedRoutes DEF Served
<1>7. CASE /\ c # 0
           /\ ServeClientData(c, client_get(clients, id))
           /\ UNCHANGED fdtab
    <2>1. PICK n \in 1..Len(conn[c].up) :
            LET batch == SubSeq(conn[c].up, 1, n)
                rest  == [conn EXCEPT ![c].up = SubSeq(@, n + 1, Len(@))]
            IN  IF ResponseParses(batch)
                THEN \E o \in ecafe_response_handle(rest, clients, j, response_parse(batch),
                                                    s_connfd) :
                        /\ Handled(o)
                        /\ pc' = IF o.fate = "running" THEN pc ELSE o.fate
                ELSE conn' = rest /\ UNCHANGED <<clients, pc>>
        BY <1>3, <1>7 DEF ServeClientData
    <2>. DEFINE batch == SubSeq(conn[c].up, 1, n)
                rest  == [conn EXCEPT ![c].up = SubSeq(@, n + 1, Len(@))]
    <2>2. /\ batch \in Seq(Message) /\ Len(batch) # 0 /\ batch[1] \in InFlight(conn[c].up)
          /\ rest \in [Conn -> Connection]
          /\ \A cn1 : Carried(rest, clients, cn1) /\ Alike(rest, cn1) => Served(c, cn1)
        BY <1>4, <1>7, Taken, ReadThenWritten
    <2>. HIDE DEF batch, rest
    <2>3. CASE ResponseParses(batch)
        <3>. DEFINE res == response_parse(batch)
        <3>1. PICK o \in ecafe_response_handle(rest, clients, j, res, s_connfd) :
                /\ Handled(o)
                /\ pc' = IF o.fate = "running" THEN pc ELSE o.fate
            BY <2>1, <2>3 DEF batch, rest
        <3>2. res \in Response
            BY <2>2, <2>3, ParsedResponse
        <3>3. batch[1].kind = "response" /\ res.uri = batch[1].uri
            <4>1. batch[1] \in Message
                BY <2>2, ElementOfSeq, LenProperties
            <4>2. batch[1].kind = "response"
                BY <2>3 DEF ResponseParses
            <4>3. batch[1] \in Response
                BY <4>1, <4>2 DEF Message, Request
            <4>. QED
                BY <4>2, <4>3 DEF response_parse, Response
        <3>. HIDE DEF res
        <3>4. Sound(o, rest, clients) /\ Carried(rest, clients, o.conn)
            BY <1>3, <1>4, <2>2, <3>1, <3>2, ResponseSound, ResponseCarries
        <3>5. Served(c, conn') /\ SameClients(clients, clients')
            BY <2>2, <3>1, <3>4 DEF Sound, Handled
        <3>6. pc' \in {"clients"} \cup Death
            BY <1>1, <3>1, <3>4 DEF Sound
        <3>7. ASSUME ~WebClosed, NEW k \in 1..Len(clients)
              PROVE  clients'[k].is_online \/ ~clients[k].is_online \/ Locked(clients[k].id)
            <4>1. CASE clients' = clients
                <5>1. clients[k].is_online \in BOOLEAN
                    BY <1>3, Members DEF Client
                <5>. QED
                    BY <4>1, <5>1
            <4>2. CASE AnswerNoted(clients, j, res, clients')
                <5>1. \/ clients'[k].is_online \/ ~clients[k].is_online
                      \/ k = j /\ res.uri = "lock"
                    BY <1>3, <4>2, AnswerKeepsOnline
                <5>2. ASSUME k = j, res.uri = "lock" PROVE Locked(clients[k].id)
                    <6>1. PICK x \in executed : x.uri = "lock" /\ x.conn = c
                        BY <1>4, <1>7, <2>2, <3>3, <5>2 DEF RoutingInv, LockAnswers
                    <6>. QED
                        BY <1>5, <3>7, <5>2, <6>1 DEF Locked
                <5>. QED
                    BY <5>1, <5>2
            <4>. QED
                BY <1>3, <3>1, <4>1, <4>2, ResponseChanges DEF Handled
        <3>. QED
            BY <1>6, <1>7, <3>5, <3>6, <3>7
    <2>4. CASE ~ResponseParses(batch)
        <3>1. conn' = rest /\ UNCHANGED <<clients, pc>>
            BY <2>1, <2>4 DEF batch, rest
        <3>2. Served(c, conn') /\ SameClients(clients, clients')
            BY <1>3, <2>2, <3>1, SameAgain DEF Carried, SameUps, Alike
        <3>3. \A k \in 1..Len(clients) : clients[k].is_online \in BOOLEAN
            BY <1>3, Members DEF Client
        <3>4. \A k \in 1..Len(clients) : clients'[k].is_online \/ ~clients[k].is_online
            BY <3>1, <3>3
        <3>. QED
            BY <1>1, <1>6, <1>7, <3>1, <3>2, <3>4
    <2>. QED
        BY <2>3, <2>4
<1>8. CASE c # 0 /\ ServeClientEof(c, id, fd) /\ UNCHANGED pc
    BY <1>1, <1>2, <1>3, <1>8, LeaveRoutes DEF ServeClientEof, c
<1>9. CASE c # 0 /\ ReadError(c) /\ UNCHANGED <<clients, fdtab, pc>>
    <2>1. \A k \in 1..Len(clients) : clients'[k].is_online \/ ~clients[k].is_online
        <3>1. \A k \in 1..Len(clients) : clients[k].is_online \in BOOLEAN
            BY <1>3, Members DEF Client
        <3>. QED
            BY <1>9, <3>1
    <2>2. Served(c, conn') /\ SameClients(clients, clients')
        BY <1>3, <1>4, <1>9, ErrorServed, SameAgain
    <2>. QED
        BY <1>1, <1>6, <1>9, <2>1, <2>2
<1>10. CASE c = 0 /\ UNCHANGED <<conn, clients, fdtab, pc>>
    <2>1. i' >= i /\ i' \in Nat
        BY <1>1, <1>2, <1>4
    <2>2. \A k \in i'..Len(clients) : k \in i..Len(clients)
        BY <1>4, <2>1
    <2>3. ~WebClosed => StillReadable'
        BY <1>1, <1>10, <2>2 DEF RoutingInv, StillReadable, Readable
    <2>. QED
        BY <1>1, <1>3, <1>10, <2>3, SameAgain, IdleRoutes
<1>. QED
    BY <1>1, <1>7, <1>8, <1>9, <1>10

(* A connection that is accepted had no client id and no client, so that   *)
(* nothing was on its way to it under one, and it has a descriptor that    *)
(* nobody else had.                                                        *)
LEMMA AcceptedRoutes ==
    ASSUME IInv, RoutingInv, NEW c \in 1..nconn, conn[c].srv = "backlog",
           pc \in {"accept_s", "accept_c"},
           conn' \in [Conn -> Connection], Opened(conn', c), UNCHANGED <<nconn, i>>,
           fdtab' = [fdtab EXCEPT ![LowestFreeFd] = c], LowestFreeFd \in Fd,
           UNCHANGED executed, rset' \subseteq rset, clients' \in Seq(Client),
           \A d \in Conn : /\ d # c => conn'[d].id = conn[d].id
                           /\ conn'[d].up = conn[d].up
                           /\ \A m \in InFlight(conn'[d].down) :
                                 m \in InFlight(conn[d].down) \/ m.id = 0,
           \A k \in 1..Len(clients') :
               \/ k \in 1..Len(clients) /\ clients'[k] = clients[k]
               \/ /\ clients'[k].fd = LowestFreeFd /\ clients'[k].is_online
                  /\ conn[c].peer \in Machine /\ clients'[k].id = conn'[c].id,
           \/ s_connfd' = s_connfd /\ s_connfd \in Fd \cup {0}
           \/ s_connfd' = LowestFreeFd /\ conn[c].peer \in Controller
    PROVE  RoutingInv'
<1>. DEFINE fd == LowestFreeFd
<1>1. /\ c \in Conn /\ c # 0 /\ c <= nconn /\ nconn \in Nat
      /\ clients \in Seq(Client) /\ Len(clients) \in Nat /\ i \in Nat /\ i >= 1
      /\ \A k \in 1..Len(clients) : clients[k].fd \in Fd
      /\ fdtab \in [Fd -> 0..MaxConn]
    BY MaxConnAssumption, Members, LenProperties
       DEF Conn, IInv, TypeOK, NetTypeOK, ServerTypeOK, LoopOK
<1>2. fdtab[fd] = 0
    BY <1>1, FreeDescriptor DEF IInv, TypeOK, DescriptorsOK
<1>3. rset \subseteq allset /\ fd \notin rset /\ 0 \notin rset
    BY <1>2, Descriptors DEF IInv, TypeOK, ServerTypeOK, LoopOK, SelectNeverFails
<1>. HIDE DEF fd
<1>4. /\ fd \in Fd /\ fdtab' = [fdtab EXCEPT ![fd] = c] /\ fdtab'[fd] = c
      /\ \A f \in Fd : f # fd => fdtab'[f] = fdtab[f]
      /\ \A f \in Fd : fdtab[f] # 0 => f # fd /\ fdtab[f] # c /\ fdtab[f] \in Conn
    BY <1>1, <1>2, MaxConnAssumption DEF fd, Conn, IInv, DescriptorsOK
<1>5. conn[c].id = 0 /\ conn'[c].srv = "open"
    BY <1>1 DEF RoutingInv, NumbersOK, Opened
<1>6. WebClosed => WebClosed'
    BY DEF WebClosed, Opened
<1>7. NumbersOK'
    <2>1. \A d \in Conn : d > nconn => d # c
        BY <1>1, MaxConnAssumption DEF Conn
    <2>2. \A d \in Conn : d # c => conn'[d].srv = conn[d].srv
        BY DEF Opened
    <2>. QED
        BY <1>5, <2>1, <2>2 DEF RoutingInv, NumbersOK
<1>8. LockAnswers'
    BY DEF RoutingInv, LockAnswers
<1>9. RequestsReachAddressee'
    <2>1. SUFFICES ASSUME ~WebClosed
                   PROVE  /\ Addressed(conn')
                          /\ \A x \in executed : x.id # 0 => conn'[x.conn].id = x.id
        BY <1>6 DEF RequestsReachAddressee, Addressed
    <2>2. Addressed(conn) /\ \A x \in executed : x.id # 0 => conn[x.conn].id = x.id
        BY <2>1 DEF RoutingInv, RequestsReachAddressee, Addressed
    <2>3. Addressed(conn')
        BY <1>5, <2>2 DEF Addressed
    <2>4. \A x \in executed : x.conn \in Conn
        BY DEF IInv, TypeOK, AgentTypeOK
    <2>. QED
        BY <1>5, <2>2, <2>3, <2>4
<1>10. OfflineMeansLocked'
    <2>1. SUFFICES ASSUME ~WebClosed, NEW k \in 1..Len(clients'), ~clients'[k].is_online
                   PROVE  \E x \in executed : /\ x.uri = "lock"
                                              /\ conn'[x.conn].id = clients'[k].id
        BY <1>6 DEF OfflineMeansLocked
    <2>2. k \in 1..Len(clients) /\ clients'[k] = clients[k]
        BY <2>1
    <2>3. PICK x \in executed : x.uri = "lock" /\ conn[x.conn].id = clients[k].id
        BY <2>1, <2>2 DEF RoutingInv, OfflineMeansLocked
    <2>4. x.conn \in Conn
        BY DEF IInv, TypeOK, AgentTypeOK
    <2>5. clients[k].id # 0
        BY <2>2 DEF IInv, IdsInJoinOrder
    <2>. QED
        BY <1>5, <2>2, <2>3, <2>4, <2>5
<1>11. ASSUME ~WebClosed' PROVE Registered(conn, clients)' /\ OwnSocket' /\ StillReadable'
    <2>1. Registered(conn, clients) /\ OwnSocket /\ StillReadable
        BY <1>6, <1>11 DEF RoutingInv
    <2>2. Registered(conn, clients)'
        <3>1. SUFFICES ASSUME NEW k \in 1..Len(clients')
                       PROVE  LET d == fdtab'[clients'[k].fd]
                              IN  /\ d # 0 /\ conn'[d].peer \in Machine
                                  /\ conn'[d].id = clients'[k].id
            BY DEF Registered
        <3>2. CASE k \in 1..Len(clients) /\ clients'[k] = clients[k]
            <4>. DEFINE d == fdtab[clients[k].fd]
            <4>1. d # 0 /\ conn[d].peer \in Machine /\ conn[d].id = clients[k].id
                BY <2>1, <3>2 DEF Registered
            <4>2. d \in Conn /\ d # c /\ fdtab'[clients[k].fd] = d
                BY <1>1, <1>4, <3>2, <4>1
            <4>3. conn'[d].peer = conn[d].peer /\ conn'[d].id = conn[d].id
                BY <4>2 DEF Opened
            <4>. HIDE DEF d
            <4>. QED
                BY <3>2, <4>1, <4>2, <4>3
        <3>3. CASE /\ clients'[k].fd = fd
                   /\ conn[c].peer \in Machine /\ clients'[k].id = conn'[c].id
            BY <1>1, <1>4, <3>3 DEF Opened
        <3>. QED
            BY <3>1, <3>2, <3>3 DEF fd
    <2>3. OwnSocket'
        <3>1. CASE s_connfd' = s_connfd /\ s_connfd \in Fd \cup {0}
            BY <1>4, <2>1, <3>1 DEF OwnSocket, Opened
        <3>2. CASE s_connfd' = fd /\ conn[c].peer \in Controller
            BY <1>1, <1>4, <3>2 DEF OwnSocket, Opened
        <3>. QED
            BY <3>1, <3>2 DEF fd
    <2>4. ASSUME NEW f \in Fd, Readable(conn, f) PROVE Readable(conn, f)'
        <3>1. fdtab[f] \in Conn /\ fdtab'[f] = fdtab[f] /\ fdtab[f] # 0
            BY <1>4, <2>4 DEF Readable
        <3>. QED
            BY <2>4, <3>1 DEF Readable, Opened
    <2>5. ASSUME NEW k \in i'..Len(clients'), clients'[k].fd \in rset'
          PROVE  Readable(conn, clients[k].fd)'
        <3>1. k \in 1..Len(clients') /\ k >= i
            BY <1>1, <2>5, LenProperties
        <3>2. clients'[k].fd # fd
            BY <1>3, <2>5
        <3>3. k \in i..Len(clients) /\ clients'[k] = clients[k] /\ clients[k].fd \in Fd
            BY <1>1, <3>1, <3>2 DEF fd
        <3>4. Readable(conn, clients[k].fd)
            BY <2>1, <2>5, <3>3 DEF StillReadable
        <3>5. Readable(conn, clients[k].fd)'
            <4>. DEFINE d == fdtab[clients[k].fd]
            <4>1. d # 0 /\ d \in Conn /\ fdtab'[clients[k].fd] = d
                BY <1>4, <3>3, <3>4 DEF Readable
            <4>. QED
                BY <3>3, <3>4, <4>1 DEF Readable, Opened
        <3>. QED
            BY <3>5
    <2>6. ASSUME s_connfd' \in rset' PROVE Readable(conn, s_connfd)'
        <3>1. s_connfd' = s_connfd /\ s_connfd \in Fd
            BY <1>3, <2>6 DEF fd
        <3>2. Readable(conn, s_connfd)
            BY <2>1, <2>6, <3>1 DEF StillReadable
        <3>. QED
            BY <1>4, <3>1, <3>2 DEF Readable, Opened
    <2>7. StillReadable'
        BY <2>5, <2>6 DEF StillReadable
    <2>. QED
        BY <2>2, <2>3, <2>7
<1>. QED
    BY <1>7, <1>8, <1>9, <1>10, <1>11 DEF RoutingInv

(* Accepting a controller sets s_connfd to that controller's connection.   *)
LEMMA AcceptServerRoutes ==
    ASSUME IInv, RoutingInv, AcceptServer, UNCHANGED executed
    PROVE  RoutingInv'
<1>. DEFINE c  == FirstOf(Backlog(Controller))
            fd == LowestFreeFd
<1>1. /\ pc = "accept_s"
      /\ conn' = [conn EXCEPT ![c].srv = "open"]
      /\ fdtab' = [fdtab EXCEPT ![fd] = c]
      /\ s_connfd' = fd /\ rset' = rset \ {S_LISTENFD}
      /\ UNCHANGED <<nconn, clients, i>>
    BY DEF AcceptServer
<1>2. /\ c \in 1..nconn /\ c \in Conn /\ conn[c].srv = "backlog"
      /\ conn[c].peer \in Controller
    BY <1>1, FirstWaiting DEF IInv, LoopOK
<1>. HIDE DEF c
<1>3. /\ conn \in [Conn -> Connection] /\ clients \in Seq(Client)
      /\ \A d \in Conn : InFlight(conn[d].down) \subseteq InFlight(conn[d].down)
    BY DEF IInv, TypeOK, NetTypeOK, ServerTypeOK
<1>4. fd \in Fd /\ fdtab[fd] = 0
    BY <1>2, FreeDescriptor DEF IInv, TypeOK, DescriptorsOK
<1>. DEFINE x == [conn[c] EXCEPT !.srv = "open"]
<1>5. /\ x \in Connection /\ x.peer = conn[c].peer /\ x.srv = "open"
      /\ x.link = conn[c].link /\ x.up = conn[c].up /\ x.down = conn[c].down
      /\ x.id = conn[c].id
    BY <1>2, <1>3 DEF Connection
<1>6. conn' = [conn EXCEPT ![c] = x]
    BY <1>1, <1>2, <1>3
<1>. HIDE DEF x, fd
<1>7. conn' \in [Conn -> Connection] /\ Opened(conn', c)
    BY <1>2, <1>3, <1>5, <1>6 DEF Opened
<1>8. \A d \in Conn : /\ conn'[d].id = conn[d].id /\ conn'[d].up = conn[d].up
                      /\ conn'[d].down = conn[d].down
    BY <1>2, <1>3, <1>5, <1>6
<1>. QED
    BY <1>1, <1>2, <1>3, <1>4, <1>7, <1>8, AcceptedRoutes DEF fd

(* Accepting a PC adds a client that is registered under the new           *)
(* descriptor, whose number nothing in flight names yet.                   *)
LEMMA AcceptClientRoutes ==
    ASSUME IInv, RoutingInv, AcceptClient, UNCHANGED executed
    PROVE  RoutingInv'
<1>. DEFINE c    == FirstOf(Backlog(Machine))
            fd   == LowestFreeFd
            id   == last_id + 1
            new  == [id |-> id, fd |-> fd, is_online |-> TRUE,
                     timer |-> "none", timer_uri |-> NoUri]
            open == [conn EXCEPT ![c].srv = "open", ![c].id = id]
<1>1. /\ pc = "accept_c"
      /\ clients' = Append(clients, new)
      /\ fdtab' = [fdtab EXCEPT ![fd] = c]
      /\ rset' = rset \ {C_LISTENFD}
      /\ UNCHANGED <<nconn, s_connfd, i>>
    BY DEF AcceptClient, NextId
<1>2. PICK w \in WriteTo(open, c, Details) : conn' = w.conn
    BY DEF AcceptClient, NextId
<1>3. /\ c \in 1..nconn /\ c \in Conn /\ conn[c].srv = "backlog"
      /\ conn[c].peer \in Machine
    BY <1>1, FirstWaiting DEF IInv, LoopOK
<1>. HIDE DEF c
<1>4. /\ conn \in [Conn -> Connection] /\ clients \in Seq(Client) /\ Len(clients) \in Nat
      /\ last_id \in Nat /\ id \in Nat /\ s_connfd \in Fd \cup {0}
    BY LenProperties DEF IInv, TypeOK, NetTypeOK, ServerTypeOK
<1>5. fd \in Fd /\ fdtab[fd] = 0
    BY <1>3, FreeDescriptor DEF IInv, TypeOK, DescriptorsOK
<1>. HIDE DEF fd, id
<1>6. Details \in Message /\ Details.id = 0
    <2>1. "getdetails" \in Uri /\ NoUri \in Uri /\ JoinTag \in Tag /\ {} \in SUBSET Param
        BY MaxReqAssumption DEF Uri, ServerCommand, JoinTag, Tag
    <2>. QED
        BY <2>1 DEF Details, MakeRequest, Message, Request
<1>. DEFINE x == [conn[c] EXCEPT !.srv = "open", !.id = id]
<1>7. /\ x \in Connection /\ x.peer = conn[c].peer /\ x.srv = "open" /\ x.id = id
      /\ x.link = conn[c].link /\ x.up = conn[c].up /\ x.down = conn[c].down
    BY <1>3, <1>4 DEF Connection
<1>8. open = [conn EXCEPT ![c] = x]
    BY <1>3, <1>4
<1>. HIDE DEF x, open
<1>9. open \in [Conn -> Connection] /\ Opened(open, c) /\ open[c] = x
    BY <1>3, <1>4, <1>7, <1>8 DEF Opened
<1>10. /\ conn' \in [Conn -> Connection] /\ Alike(open, conn') /\ SameUps(open, conn')
       /\ \A d \in Conn : InFlight(conn'[d].down) \subseteq
                            InFlight(open[d].down) \cup (IF d = c THEN {Details} ELSE {})
    BY <1>2, <1>3, <1>6, <1>9, WriteToOutcomes, WriteToCarries
<1>11. Opened(conn', c)
    BY <1>9, <1>10 DEF Alike, Opened
<1>12. \A d \in Conn : /\ d # c => open[d].id = conn[d].id
                       /\ open[d].up = conn[d].up /\ open[d].down = conn[d].down
    BY <1>3, <1>4, <1>7, <1>8
<1>13. \A d \in Conn : /\ d # c => conn'[d].id = conn[d].id
                       /\ conn'[d].up = conn[d].up
                       /\ \A m \in InFlight(conn'[d].down) :
                             m \in InFlight(conn[d].down) \/ m.id = 0
    BY <1>6, <1>10, <1>12 DEF Alike, SameUps
<1>14. conn'[c].id = id
    BY <1>3, <1>7, <1>9, <1>10 DEF Alike
<1>15. new \in Client /\ new.id = id /\ new.fd = fd /\ new.is_online
    BY <1>4, <1>5 DEF Client, Timer, NoUri, Uri
<1>. HIDE DEF new
<1>16. /\ clients' \in Seq(Client) /\ Len(clients') = Len(clients) + 1
       /\ \A k \in 1..Len(clients) : clients'[k] = clients[k]
       /\ clients'[Len(clients) + 1] = new
    BY <1>1, <1>4, <1>15, AppendProperties
<1>17. \A k \in 1..Len(clients') :
          \/ k \in 1..Len(clients) /\ clients'[k] = clients[k]
          \/ /\ clients'[k].fd = fd /\ clients'[k].is_online
             /\ conn[c].peer \in Machine /\ clients'[k].id = conn'[c].id
    <2>1. \A k \in 1..(Len(clients) + 1) : k \in 1..Len(clients) \/ k = Len(clients) + 1
        BY <1>4
    <2>. QED
        BY <1>3, <1>14, <1>15, <1>16, <2>1
<1>. QED
    BY <1>1, <1>3, <1>4, <1>5, <1>10, <1>11, <1>13, <1>16, <1>17, AcceptedRoutes DEF fd

-----------------------------------------------------------------------------
(* There is nothing yet that could go to the wrong place.                  *)
LEMMA InitRoutes == Init => RoutingInv
<1>. SUFFICES ASSUME Init PROVE RoutingInv
    OBVIOUS
<1>1. /\ conn = [c \in Conn |-> Unused] /\ nconn = 0 /\ clients = <<>>
      /\ s_connfd = 0 /\ pc = "select" /\ executed = {}
    BY DEF Init, NetInit, ServerInit, AgentInit
<1>2. \A c \in Conn : /\ conn[c].srv = "none" /\ conn[c].id = 0
                      /\ conn[c].up = <<>> /\ conn[c].down = <<>>
    BY <1>1 DEF Unused
<1>3. Len(clients) = 0 /\ InFlight(<<>>) = {}
    BY <1>1 DEF InFlight
<1>4. NumbersOK /\ LockAnswers /\ RequestsReachAddressee
    BY <1>1, <1>2, <1>3 DEF NumbersOK, LockAnswers, RequestsReachAddressee
<1>5. OfflineMeansLocked /\ Registered(conn, clients) /\ OwnSocket /\ StillReadable
    BY <1>1, <1>3 DEF OfflineMeansLocked, Registered, OwnSocket, StillReadable
<1>. QED
    BY <1>4, <1>5 DEF RoutingInv

(* Every step of the system keeps what is said of routing.                 *)
LEMMA NextRoutes ==
    ASSUME IInv, IInv', RoutingInv, [Next]_vars
    PROVE  RoutingInv'
<1>1. CASE Agent
    BY <1>1, AgentRoutes
<1>2. CASE Web
    BY <1>2, WebRoutes
<1>3. CASE Server
    <2>1. UNCHANGED executed
        BY <1>3 DEF Server
    <2>2. CASE Select
        BY <2>1, <2>2, SelectRoutes
    <2>3. CASE AcceptServer
        BY <2>1, <2>3, AcceptServerRoutes
    <2>4. CASE AcceptClient
        BY <2>1, <2>4, AcceptClientRoutes
    <2>5. CASE ServeWeb
        BY <2>1, <2>5, ServeWebRoutes
    <2>6. CASE ServeClient
        BY <2>1, <2>6, ServeClientRoutes
    <2>7. CASE EndRound \/ EndTimeout
        BY <2>1, <2>7, EndRoutes
    <2>8. CASE CheckTimeout
        BY <2>1, <2>8, TimeoutRoutes
    <2>9. CASE TimePasses
        BY <2>1, <2>9, TimeRoutes
    <2>. QED
        BY <1>3, <2>2, <2>3, <2>4, <2>5, <2>6, <2>7, <2>8, <2>9 DEF Server, ServerStep
<1>4. CASE UNCHANGED vars
    BY <1>4, StutterRoutes
<1>. QED
    BY <1>1, <1>2, <1>3, <1>4 DEF Next

-----------------------------------------------------------------------------
(* No step takes a client off the list, but one that finds its PC gone.    *)
Stay == Ids(clients) \subseteq Ids(clients')

(* Setting a client that keeps its id drops no client.                     *)
LEMMA OneClientSet ==
    ASSUME NEW cl \in Seq(Client), NEW k \in 1..Len(cl), NEW x, x.id = cl[k].id,
           NEW cl1, cl1 = [cl EXCEPT ![k] = x]
    PROVE  Ids(cl) \subseteq Ids(cl1)
<1>1. DOMAIN cl = 1..Len(cl) /\ DOMAIN cl1 = DOMAIN cl
    BY LenProperties
<1>2. \A n \in DOMAIN cl : cl1[n].id = cl[n].id
    BY <1>1
<1>. QED
    BY <1>1, <1>2 DEF Ids

(* The same clients: nobody has left.                                      *)
LEMMA SameStay ==
    ASSUME clients \in Seq(Client), SameClients(clients, clients')
    PROVE  Stay
<1>1. /\ DOMAIN clients = 1..Len(clients) /\ DOMAIN clients' = 1..Len(clients')
      /\ Len(clients') = Len(clients)
      /\ \A k \in 1..Len(clients) : clients'[k].id = clients[k].id
    BY LenProperties DEF SameClients
<1>. QED
    BY <1>1 DEF Stay, Ids

(* What a handler of a request leaves of the list: everyone.               *)
LEMMA RequestStay ==
    ASSUME NEW cn, NEW cl \in Seq(Client), NEW req, NEW f,
           NEW o \in ecafe_request_handle(cn, cl, req, f)
    PROVE  SameClients(cl, o.clients)
<1>1. CASE o.clients = cl
    BY <1>1, SameAgain
<1>2. CASE TimerGiven(cl, req, o.clients)
    <2>. DEFINE j == client_get(cl, req.id)
    <2>1. j \in 1..Len(cl)
        BY <1>2, ClientGetFinds DEF TimerGiven, MayArm
    <2>2. \/ \E t \in {"armed", "due", "never"} : o.clients = [cl EXCEPT ![j].timer = t]
          \/ /\ req.action \in ServerCommand
             /\ o.clients = [cl EXCEPT ![j].timer = "armed", ![j].timer_uri = req.action]
        BY <1>2 DEF TimerGiven
    <2>. HIDE DEF j
    <2>3. CASE \E t \in {"armed", "due", "never"} : o.clients = [cl EXCEPT ![j].timer = t]
        <3>1. PICK t \in {"armed", "due", "never"} : o.clients = [cl EXCEPT ![j].timer = t]
            BY <2>3
        <3>2. t \in Timer /\ NoUri \in Uri
            BY <3>1 DEF Timer, Uri
        <3>3. SameClients(cl, [cl EXCEPT ![j].timer = t])
            BY <2>1, <3>2, TimerSet
        <3>. QED
            BY <3>1, <3>3
    <2>4. CASE /\ req.action \in ServerCommand
               /\ o.clients = [cl EXCEPT ![j].timer = "armed", ![j].timer_uri = req.action]
        <3>1. "armed" \in Timer /\ req.action \in Uri
            BY <2>4 DEF Timer, Uri
        <3>2. SameClients(cl, [cl EXCEPT ![j].timer = "armed", ![j].timer_uri = req.action])
            BY <2>1, <3>1, TimerSet
        <3>. QED
            BY <2>4, <3>2
    <2>. QED
        BY <2>2, <2>3, <2>4
<1>. QED
    BY <1>1, <1>2, RequestChanges

(* Everyone stays but in one branch of the loop.                           *)
LEMMA OthersStay ==
    ASSUME IInv, [Next]_vars, ~ServeClient
    PROVE  Stay
<1>0. clients \in Seq(Client)
    BY DEF IInv, TypeOK, ServerTypeOK
<1>1. CASE UNCHANGED clients
    BY <1>1 DEF Stay
<1>2. CASE AcceptClient
    <2>. DEFINE new == [id |-> NextId, fd |-> LowestFreeFd, is_online |-> TRUE,
                        timer |-> "none", timer_uri |-> NoUri]
    <2>1. clients' = Append(clients, new)
        BY <1>2 DEF AcceptClient
    <2>. HIDE DEF new
    <2>2. /\ DOMAIN clients = 1..Len(clients) /\ Len(clients) \in Nat
          /\ DOMAIN clients' = 1..(Len(clients) + 1)
          /\ \A k \in 1..Len(clients) : clients'[k] = clients[k]
        BY <1>0, <2>1, LenProperties
    <2>3. 1..Len(clients) \subseteq 1..(Len(clients) + 1)
        BY <2>2
    <2>. QED
        BY <2>2, <2>3 DEF Stay, Ids
<1>3. CASE ServeWeb
    <2>1. \/ UNCHANGED clients
          \/ \E cn, req : \E o \in ecafe_request_handle(cn, clients, req, s_connfd) : Handled(o)
        BY <1>3 DEF ServeWeb, ServeWebData
    <2>2. SameClients(clients, clients')
        BY <1>0, <2>1, RequestStay, SameAgain DEF Handled
    <2>. QED
        BY <1>0, <2>2, SameStay
<1>4. CASE CheckTimeout
    <2>. DEFINE j   == FirstOf(Expired)
                k   == client_get(clients, client_array[j])
                req == MakeRequest(clients[k].timer_uri, clients[k].id, {}, TimerTag)
    <2>1. /\ Expired # {}
          /\ \/ UNCHANGED clients
             \/ \E o \in ecafe_request_handle(conn, clients, req, 0) :
                   clients' = [o.clients EXCEPT ![k].timer = "none"]
        BY <1>4 DEF CheckTimeout
    <2>2. j \in Nat /\ j >= 1 /\ j <= nclients
        <3>1. Expired \subseteq i..nclients
            BY DEF Expired
        <3>. QED
            BY <2>1, <3>1, FirstPosition
    <2>. HIDE DEF j
    <2>3. k \in 1..Len(clients)
        BY <2>2, Position
    <2>. HIDE DEF k, req
    <2>4. ASSUME NEW o \in ecafe_request_handle(conn, clients, req, 0),
                 clients' = [o.clients EXCEPT ![k].timer = "none"]
          PROVE  Stay
        <3>1. SameClients(clients, o.clients)
            BY <1>0, RequestStay
        <3>2. /\ o.clients \in Seq(Client) /\ k \in 1..Len(o.clients)
              /\ "none" \in Timer /\ NoUri \in Uri
            BY <2>3, <3>1 DEF SameClients, Timer, Uri
        <3>3. SameClients(o.clients, clients')
            BY <2>4, <3>2, TimerSet
        <3>4. SameClients(clients, clients')
            BY <3>1, <3>3 DEF SameClients
        <3>. QED
            BY <1>0, <3>4, SameStay
    <2>. QED
        BY <1>1, <2>1, <2>4
<1>5. CASE TimePasses
    <2>1. PICK k \in 1..Len(clients) : clients' = [clients EXCEPT ![k].timer = "due"]
        BY <1>0, <1>5, LenProperties DEF TimePasses
    <2>2. SameClients(clients, clients')
        BY <1>0, <2>1, TimerSet DEF Timer, Uri
    <2>. QED
        BY <1>0, <2>2, SameStay
<1>6. CASE \/ Select \/ AcceptServer \/ EndRound \/ EndTimeout \/ Agent \/ Web
           \/ UNCHANGED vars
    BY <1>1, <1>6 DEF Select, AcceptServer, EndRound, EndTimeout, Agent, Web, vars, serverVars
<1>. QED
    BY <1>2, <1>3, <1>4, <1>5, <1>6 DEF Next, Server, ServerStep

(* The branch that serves clients drops only one that is at its end.       *)
LEMMA ServedStay ==
    ASSUME IInv, RoutingInv, ServeClient, ~WebClosed, NEW gone \in Ids(clients),
           gone \notin Ids(clients')
    PROVE  \E c \in Conn : conn[c].id = gone /\ AtEof(c)
<1>. DEFINE j  == FirstOf(LoopTargets)
            id == client_array[j]
            fd == FdAt(j)
            c  == fdtab[fd]
<1>1. /\ LoopTargets # {}
      /\ \/ ServeClientData(c, client_get(clients, id))
         \/ ServeClientEof(c, id, fd)
         \/ UNCHANGED clients
    BY DEF ServeClient
<1>2. j \in Nat /\ j >= 1 /\ j <= nclients
    <2>1. LoopTargets \subseteq i..nclients
        BY DEF LoopTargets
    <2>. QED
        BY <1>1, <2>1, FirstPosition
<1>. HIDE DEF j
<1>3. /\ j \in 1..Len(clients) /\ id = clients[j].id /\ client_get(clients, id) = j
      /\ clients \in Seq(Client) /\ fd = clients[j].fd
    BY <1>2, Position DEF IInv, TypeOK, ServerTypeOK, FdAt
<1>. HIDE DEF id, fd
<1>4. c \in Conn /\ conn[c].id = clients[j].id
    <2>1. c # 0 /\ conn[c].id = clients[j].id
        BY <1>3 DEF RoutingInv, Registered
    <2>2. fd \in Fd
        BY <1>3, Members
    <2>. QED
        BY <2>1, <2>2, MaxConnAssumption DEF IInv, TypeOK, NetTypeOK, Conn
<1>. HIDE DEF c
<1>5. CASE UNCHANGED clients
    BY <1>5
<1>6. CASE ServeClientData(c, client_get(clients, id))
    <2>1. \/ UNCHANGED clients
          \/ \E cn, res : \E o \in ecafe_response_handle(cn, clients, j, res, s_connfd) :
                Handled(o)
        BY <1>3, <1>6 DEF ServeClientData
    <2>2. ASSUME NEW res, AnswerNoted(clients, j, res, clients') PROVE FALSE
        <3>1. PICK b \in BOOLEAN :
                LET x == [clients[j] EXCEPT !.is_online = b]
                IN  \/ clients' = [clients EXCEPT ![j] = x]
                    \/ clients' = [clients EXCEPT ![j] = [x EXCEPT !.timer_uri = NoUri]]
            BY <2>2 DEF AnswerNoted
        <3>. DEFINE x == [clients[j] EXCEPT !.is_online = b]
                    y == [x EXCEPT !.timer_uri = NoUri]
        <3>2. clients[j] \in Client
            BY <1>3, Members
        <3>3. x.id = clients[j].id /\ y.id = clients[j].id
            BY <3>2 DEF Client
        <3>4. clients' = [clients EXCEPT ![j] = x] \/ clients' = [clients EXCEPT ![j] = y]
            BY <3>1
        <3>. HIDE DEF x, y
        <3>5. Ids(clients) \subseteq Ids(clients')
            BY <1>3, <3>3, <3>4, OneClientSet
        <3>. QED
            BY <3>5
    <2>3. ASSUME NEW cn, NEW res,
                 NEW o \in ecafe_response_handle(cn, clients, j, res, s_connfd), Handled(o)
          PROVE  FALSE
        <3>1. clients' = clients \/ AnswerNoted(clients, j, res, clients')
            BY <1>3, <2>3, ResponseChanges DEF Handled
        <3>. QED
            BY <2>2, <3>1
    <2>. QED
        BY <2>1, <2>3
<1>7. CASE ServeClientEof(c, id, fd)
    <2>1. AtEof(c) /\ clients' = client_remove(clients, clients[j].id)
        BY <1>3, <1>7 DEF ServeClientEof
    <2>. DEFINE r == RemoveAt(clients, j)
                L == Len(clients)
    <2>2. clients' = r
        BY <1>3, <2>1 DEF client_remove
    <2>3. /\ r \in Seq(Client) /\ Len(r) = L - 1 /\ L \in Nat
          /\ \A k \in 1..(L - 1) : r[k] = IF k < j THEN clients[k] ELSE clients[k + 1]
        BY <1>3, Removed, LenProperties
    <2>. HIDE DEF r
    <2>4. DOMAIN clients = 1..L /\ DOMAIN r = 1..(L - 1)
        BY <1>3, <2>3, LenProperties
    <2>. HIDE DEF L
    <2>5. ASSUME NEW k \in 1..L, k # j PROVE clients[k].id \in Ids(r)
        <3>1. CASE k < j
            <4>1. k \in 1..(L - 1) /\ r[k] = clients[k]
                BY <1>3, <2>3, <3>1 DEF L
            <4>. QED
                BY <2>4, <4>1 DEF Ids
        <3>2. CASE ~(k < j)
            <4>1. k - 1 \in 1..(L - 1) /\ r[k - 1] = clients[k]
                BY <1>3, <2>3, <2>5, <3>2 DEF L
            <4>. QED
                BY <2>4, <4>1 DEF Ids
        <3>. QED
            BY <3>1, <3>2
    <2>6. gone = clients[j].id
        BY <2>2, <2>4, <2>5 DEF Ids
    <2>. QED
        BY <1>4, <2>1, <2>6
<1>. QED
    BY <1>1, <1>5, <1>6, <1>7

-----------------------------------------------------------------------------
(* What is said of routing is inductive, given the invariant of the loop.  *)
THEOREM RoutingInvariance == Safe => []RoutingInv
<1>1. IInv /\ IInv' /\ RoutingInv /\ [Next]_vars => RoutingInv'
    BY NextRoutes
<1>. QED
    BY InitRoutes, Invariance, <1>1, PTL DEF Safe

(* Until a controller's connection was closed, a request that names a      *)
(* client is in flight to, and was carried out by, only the PC that has    *)
(* that id, whatever clients come and go and whatever reads return.        *)
THEOREM RequestsReachTheirPC == Safe => []RequestsReachAddressee
<1>1. RoutingInv => RequestsReachAddressee
    BY DEF RoutingInv
<1>. QED
    BY <1>1, RoutingInvariance, PTL

(* Until then, a PC that the server shows as offline did carry out a lock. *)
THEOREM OfflineIsLocked == Safe => []OfflineMeansLocked
<1>1. RoutingInv => OfflineMeansLocked
    BY DEF RoutingInv
<1>. QED
    BY <1>1, RoutingInvariance, PTL

(* Until then, no read() of the loop blocks: what select() reported is     *)
(* still there when the loop comes to it.                                  *)
THEOREM LoopNeverBlocks == Safe => []ReadsNeverBlock
<1>1. ASSUME IInv, RoutingInv PROVE ReadsNeverBlock
    <2>1. SUFFICES ASSUME ~WebClosed
                   PROVE  /\ pc = "web" => Readable(conn, s_connfd)
                          /\ pc = "clients" /\ LoopTargets # {} =>
                               Readable(conn, FdAt(FirstOf(LoopTargets)))
        BY DEF ReadsNeverBlock
    <2>2. StillReadable
        BY <1>1, <2>1 DEF RoutingInv
    <2>3. ASSUME pc = "web" PROVE Readable(conn, s_connfd)
        BY <1>1, <2>2, <2>3 DEF StillReadable, IInv, LoopOK
    <2>4. ASSUME pc = "clients", LoopTargets # {}
          PROVE  Readable(conn, FdAt(FirstOf(LoopTargets)))
        <3>. DEFINE j == FirstOf(LoopTargets)
        <3>1. LoopTargets \subseteq i..nclients /\ i \in Nat /\ nclients \in Nat
            BY <1>1 DEF LoopTargets, IInv, TypeOK, ServerTypeOK
        <3>2. j \in LoopTargets
            BY <2>4, <3>1, FirstOfIsLeast
        <3>3. j \in Nat /\ j >= 1 /\ j <= nclients
            BY <1>1, <2>4, <3>1, FirstPosition
        <3>. HIDE DEF j
        <3>4. FdAt(j) = clients[j].fd /\ FdAt(j) \in rset /\ nclients = Len(clients)
            BY <1>1, <3>2, <3>3, Position DEF FdAt, LoopTargets, IInv, ArrayMirrorsList
        <3>5. j \in i..Len(clients)
            BY <3>1, <3>2, <3>4
        <3>. QED
            BY <2>2, <2>4, <3>4, <3>5 DEF StillReadable, j
    <2>. QED
        BY <2>3, <2>4
<1>. QED
    BY <1>1, Invariance, RoutingInvariance, PTL

(* Until then, a client leaves the list only when its own agent has closed *)
(* and every answer that it had sent was read.                             *)
THEOREM OnlyTheGoneLeave == Safe => LeavesOnlyAtEof
<1>. DEFINE Leaves == \A id \in Ids(clients) \ Ids(clients') :
                         ~WebClosed => \E c \in Conn : conn[c].id = id /\ AtEof(c)
<1>1. ASSUME IInv, RoutingInv, [Next]_vars PROVE [Leaves]_vars
    <2>1. CASE ServeClient
        BY <1>1, <2>1, ServedStay
    <2>2. CASE ~ServeClient
        BY <1>1, <2>2, OthersStay DEF Stay
    <2>. QED
        BY <2>1, <2>2
<1>. QED
    BY <1>1, Invariance, RoutingInvariance, PTL DEF Safe, LeavesOnlyAtEof
=============================================================================
