----------------------------- MODULE EcafeServer -----------------------------
(***************************************************************************)
(* ecafe_server: one thread in a select() loop between the controllers     *)
(* and the agents.  One action per branch of the loop; the handlers that a *)
(* branch calls are operators that give the set of their outcomes.         *)
(***************************************************************************)
EXTENDS EcafeNet, SequencesExt

VARIABLES
    clients,        \* the list of clients, in the order they joined
    client_array,   \* the array of pointers into the list, here the ids
    nclients,
    last_id,        \* the id that main() gave last
    s_connfd,       \* the descriptor of the latest controller
    allset, rset, nready,   \* what select() is asked and what it answered
    i,              \* the index of the for loop that runs
    pc,             \* the branch that runs next, or why the process died
    armed, fired    \* ghosts: timers accepted, timers whose action was issued

serverVars == <<clients, client_array, nclients, last_id, s_connfd,
                allset, rset, nready, i, pc, armed, fired>>

(* A timer is unset, running, past its expiry, or has an expiry that never *)
(* comes: the times of one that was not filled in are any.                 *)
Timer == {"none", "armed", "due", "never"}

Client == [id : Nat, fd : Fd, is_online : BOOLEAN, timer : Timer, timer_uri : Uri]

Stage == {"select", "accept_s", "accept_c", "web", "clients", "timeout"}

(* Dereferences of NULL, by what was NULL, and the signal.                 *)
Death == {"null_client", "null_timer", "null_uri", "sigpipe"}

Running == pc \in Stage

ServerTypeOK ==
    /\ clients \in Seq(Client)
    /\ client_array \in Seq(Nat)
    /\ nclients \in Nat
    /\ last_id \in Nat
    /\ s_connfd \in Fd \cup {0}
    /\ allset \subseteq {S_LISTENFD, C_LISTENFD} \cup Fd
    /\ rset \subseteq {S_LISTENFD, C_LISTENFD} \cup Fd
    /\ nready \in Int
    /\ i \in Nat
    /\ pc \in Stage \cup Death
    /\ armed \in Nat /\ fired \in Nat

ServerInit ==
    /\ clients = <<>> /\ client_array = <<>> /\ nclients = 0 /\ last_id = 0
    /\ s_connfd = 0
    /\ allset = {S_LISTENFD, C_LISTENFD} /\ rset = {} /\ nready = 0
    /\ i = 1 /\ pc = "select"
    /\ armed = 0 /\ fired = 0

-----------------------------------------------------------------------------
(* The list of clients.                                                    *)

Ids(cl) == {cl[k].id : k \in DOMAIN cl}

(* client_get: where the client is whose id is given.                      *)
client_get(cl, id) == CHOOSE k \in DOMAIN cl : cl[k].id = id

client_getall(cl) == [k \in DOMAIN cl |-> cl[k].id]

(* Fault: the node that is unlinked is the head. *)
client_remove_Head(cl, id) == Tail(cl)

client_remove(cl, id) == RemoveAt(cl, client_get(cl, id))

is_client_timerset == \E k \in DOMAIN clients : clients[k].timer # "none"

-----------------------------------------------------------------------------
(* The handlers.  An outcome is the connections and the list of clients    *)
(* afterwards, and how the process fares.                                  *)

Outcome(cn, cl, fate) == [conn |-> cn, clients |-> cl, fate |-> fate]

Fate(w) == IF w.rv = "killed" THEN "sigpipe" ELSE "running"

(* ecafe_request_send and ecafe_response_send, result ignored.             *)
Send(cn, cl, f, m) == {Outcome(w.conn, cl, Fate(w)) : w \in Write(cn, f, m)}

Answer(cn, cl, f, req, status, records) ==
    Send(cn, cl, f, MakeResponse(req.uri, status, records, req.tag))

Refuse(cn, cl, f, req) == Answer(cn, cl, f, req, 400, FALSE)
Agree(cn, cl, f, req) == Answer(cn, cl, f, req, 200, FALSE)

(* ecafe_response_prepare_client reads the timer of a client whose uri of  *)
(* a timer is set: NULL once the timer has fired.                          *)
CannotBeShown(client) == client.timer_uri # NoUri /\ client.timer = "none"

ecafe_clientall(cn, cl, req, f) ==
    IF \E k \in DOMAIN cl : CannotBeShown(cl[k]) THEN {Outcome(cn, cl, "null_timer")}
    ELSE Answer(cn, cl, f, req, 200, cl # <<>>)

ecafe_client(cn, cl, req, f) ==
    IF req.id \notin Ids(cl) THEN Refuse(cn, cl, f, req)
    ELSE UNION { IF w.rv = "failed" THEN Refuse(w.conn, cl, f, req)
                 ELSE {Outcome(w.conn, cl, Fate(w))} :
                    w \in Write(cn, cl[client_get(cl, req.id)].fd, req) }

(* ecafe_timer.  An action that is no command leaves a timer that was      *)
(* allocated and not filled in.                                            *)
MayArm(cl, req) ==
    /\ req.id \in Ids(cl)
    /\ req.duration = "some"
    /\ req.action # NoUri
    /\ LET client == cl[client_get(cl, req.id)]
       IN  client.timer = "none" /\ client.timer_uri = NoUri

Arms(cl, req) == MayArm(cl, req) /\ req.action \in ServerCommand

ecafe_timer(cn, cl, req, f) ==
    LET k == client_get(cl, req.id)
    IN  IF ~MayArm(cl, req) THEN Refuse(cn, cl, f, req)
        ELSE IF ~Arms(cl, req)
        THEN UNION { Refuse(cn, [cl EXCEPT ![k].timer = t], f, req) :
                        t \in {"armed", "due", "never"} }
        ELSE Agree(cn, [cl EXCEPT ![k].timer = "armed", ![k].timer_uri = req.action], f, req)

(* The request handlers of the command table only rewrite the request;     *)
(* that of "action" adds the parameters the agent asks for.                *)
Rewritten(req) ==
    IF req.uri = "action" THEN [req EXCEPT !.params = @ \cup {"prog"}] ELSE req

(* Fault: the request goes to the client that joined last, the main loop's *)
(* "temp".                                                                 *)
Relay_Latest(cn, cl, req) ==
    IF req.id \notin Ids(cl) THEN {Outcome(cn, cl, "null_client")}
    ELSE Send(cn, cl, cl[Len(cl)].fd, Rewritten(req))

(* Fault: the request is sent a second time. *)
Relay_Twice(cn, cl, req) ==
    IF req.id \notin Ids(cl) THEN {Outcome(cn, cl, "null_client")}
    ELSE LET f == cl[client_get(cl, req.id)].fd
         IN  UNION {Send(w.conn, cl, f, Rewritten(req)) : w \in Write(cn, f, Rewritten(req))}

Relay(cn, cl, req) ==
    IF req.id = 0 THEN {Outcome(cn, cl, "running")}
    ELSE IF req.id \notin Ids(cl) THEN {Outcome(cn, cl, "null_client")}
    ELSE Send(cn, cl, cl[client_get(cl, req.id)].fd, Rewritten(req))

(* f is where an answer goes that the server itself gives.  A uri that the *)
(* table does not have gets none.                                          *)
ecafe_request_handle(cn, cl, req, f) ==
    CASE req.uri = "clientall" -> ecafe_clientall(cn, cl, req, f)
      [] req.uri = "client"    -> ecafe_client(cn, cl, req, f)
      [] req.uri = "timer"     -> ecafe_timer(cn, cl, req, f)
      [] req.uri \in RelayedCommand \cup {"getdetails", "screenshot"} -> Relay(cn, cl, req)
      [] OTHER -> {Outcome(cn, cl, "running")}

(* Fault: the active client is not set again for each client of a round. *)
Noted_First(cl, k, res) ==
    CASE res.uri = "lock"   -> [cl EXCEPT ![1].is_online = FALSE]
      [] res.uri = "unlock" -> [cl EXCEPT ![1].is_online = TRUE]
      [] OTHER -> cl

(* The effect on the active client, cl[k], of the response handlers.       *)
Noted(cl, k, res) ==
    CASE res.uri = "lock"   -> [cl EXCEPT ![k].is_online = FALSE]
      [] res.uri = "unlock" -> [cl EXCEPT ![k].is_online = TRUE]
      [] OTHER -> cl

(* Fault: that the timer has fired is not tested. *)
FromTimer_Armed(client) == client.timer_uri # NoUri

(* Whether an answer is taken for that to a timer's action.                *)
FromTimer(client) == client.timer_uri # NoUri /\ client.timer = "none"

(* Fault: responses with a special handler are passed on like the others. *)
ecafe_response_handle_All(cn, cl, k, res, f) == Send(cn, Noted(cl, k, res), f, res)

(* No agent answers with the uri of "timer" or "clientall".                *)
ecafe_response_handle(cn, cl, k, res, f) ==
    LET noted == Noted(cl, k, res)
    IN  IF res.uri \notin RelayedCommand \cup {"client"} \/ res.status >= 400
        THEN {Outcome(cn, cl, "running")}
        ELSE IF res.uri = "client" /\ CannotBeShown(cl[k])
        THEN {Outcome(cn, cl, "null_timer")}
        ELSE IF FromTimer(cl[k])
        THEN {Outcome(cn, [noted EXCEPT ![k].timer_uri = NoUri], "running")}
        ELSE Send(cn, noted, f, res)

-----------------------------------------------------------------------------
(* The loop.                                                               *)

(* The next branch whose FD_ISSET holds; a listening socket is taken out   *)
(* of rs once it is served.                                                *)
Branch(rs, fd) ==
    IF S_LISTENFD \in rs THEN "accept_s"
    ELSE IF C_LISTENFD \in rs THEN "accept_c"
    ELSE IF fd \in rs THEN "web" ELSE "clients"

Ready(f) ==
    CASE f = S_LISTENFD -> Backlog(Controller) # {}
      [] f = C_LISTENFD -> Backlog(Machine) # {}
      [] OTHER -> Readable(conn, f)

Select ==
    /\ pc = "select"
    /\ LET ready == {f \in allset : Ready(f)}
       IN  /\ ready # {} \/ is_client_timerset
           /\ rset' = ready
           /\ nready' = Cardinality(ready)
           /\ pc' = IF ready = {} THEN "timeout" ELSE Branch(ready, s_connfd)
    /\ i' = 1
    /\ UNCHANGED <<clients, client_array, nclients, last_id, s_connfd, allset,
                   armed, fired, netVars>>

(* The controller's connection replaces the one before, which stays open   *)
(* and in allset if its end was not read.                                  *)
AcceptServer ==
    /\ pc = "accept_s"
    /\ LET c == FirstOf(Backlog(Controller))
           fd == LowestFreeFd
       IN  /\ conn' = [conn EXCEPT ![c].srv = "open"]
           /\ fdtab' = [fdtab EXCEPT ![fd] = c]
           /\ s_connfd' = fd
           /\ allset' = allset \cup {fd}
           /\ rset' = rset \ {S_LISTENFD}
           /\ nready' = nready - 1
           /\ pc' = IF nready' = 0 THEN "select" ELSE Branch(rset', fd)
    /\ UNCHANGED <<nconn, clients, client_array, nclients, last_id, i, armed, fired>>

(* ecafe_getdetails: the first request to a new client.                    *)
Details == MakeRequest("getdetails", 0, {}, JoinTag)

(* Fault: the next id is the number of clients plus one. *)
NextId_Count == nclients + 1

NextId == last_id + 1

AcceptClient ==
    /\ pc = "accept_c"
    /\ LET c  == FirstOf(Backlog(Machine))
           fd == LowestFreeFd
           id == NextId
       IN  /\ clients' = Append(clients, [id |-> id, fd |-> fd, is_online |-> TRUE,
                                          timer |-> "none", timer_uri |-> NoUri])
           /\ client_array' = client_getall(clients')
           /\ nclients' = nclients + 1
           /\ last_id' = id
           /\ fdtab' = [fdtab EXCEPT ![fd] = c]
           /\ allset' = allset \cup {fd}
           /\ rset' = rset \ {C_LISTENFD}
           /\ nready' = nready - 1
           /\ \E w \in WriteTo([conn EXCEPT ![c].srv = "open", ![c].id = id], c, Details) :
                /\ conn' = w.conn
                /\ pc' = IF w.rv = "killed" THEN "sigpipe"
                         ELSE IF nready' = 0 THEN "select" ELSE Branch(rset', s_connfd)
    /\ UNCHANGED <<nconn, s_connfd, i, armed, fired>>

(* The connections and the list are what the outcome o of a handler says.  *)
Handled(o) == conn' = o.conn /\ clients' = o.clients

ServeWebData(c) ==
    \E n \in 1..Len(conn[c].up) :
        LET batch == SubSeq(conn[c].up, 1, n)
            rest  == [conn EXCEPT ![c].up = SubSeq(@, n + 1, Len(@))]
            req   == request_parse(batch)
        IN  IF IsRequest(batch)
            THEN \E o \in ecafe_request_handle(rest, clients, req, s_connfd) :
                    /\ Handled(o)
                    /\ pc' = IF o.fate = "running" THEN "clients" ELSE o.fate
                    /\ armed' = IF req.uri = "timer" /\ Arms(clients, req)
                                THEN armed + 1 ELSE armed
            ELSE conn' = rest /\ pc' = "clients" /\ UNCHANGED <<clients, armed>>

(* Fault: the descriptor stays in allset. *)
ServeWebEof_NoClr(c) ==
    /\ AtEof(c)
    /\ conn' = ServerClosed(conn, c)
    /\ fdtab' = [fdtab EXCEPT ![s_connfd] = 0]
    /\ UNCHANGED allset

ServeWebEof(c) ==
    /\ AtEof(c)
    /\ conn' = ServerClosed(conn, c)
    /\ fdtab' = [fdtab EXCEPT ![s_connfd] = 0]
    /\ allset' = allset \ {s_connfd}

(* A reset that is not yet reported makes the read fail once.              *)
ReadError(c) ==
    /\ AtEof(c) /\ conn[c].link = "rst"
    /\ conn' = [conn EXCEPT ![c].link = "hup"]

(* s_connfd keeps its value when the connection is closed.                 *)
ServeWeb ==
    /\ pc = "web"
    /\ LET c == fdtab[s_connfd]
       IN  \/ ServeWebData(c) /\ UNCHANGED <<fdtab, allset>>
           \/ ServeWebEof(c) /\ pc' = "clients" /\ UNCHANGED <<clients, armed>>
           \/ ReadError(c) /\ pc' = "clients" /\ UNCHANGED <<clients, fdtab, allset, armed>>
    /\ nready' = nready - 1
    /\ UNCHANGED <<nconn, client_array, nclients, last_id, s_connfd, rset, i, fired>>

FdAt(k) == clients[client_get(clients, client_array[k])].fd
(* Faults: FD_ISSET on allset, and one client too few. *)
LoopTargets_Allset == {k \in i..nclients : FdAt(k) \in allset}
LoopTargets_Short == {k \in i..(nclients - 1) : FdAt(k) \in rset}

(* The positions, from the loop's index on, whose descriptor is in rset.   *)
LoopTargets == {k \in i..nclients : FdAt(k) \in rset}

ServeClientData(c, k) ==
    \E n \in 1..Len(conn[c].up) :
        LET batch == SubSeq(conn[c].up, 1, n)
            rest  == [conn EXCEPT ![c].up = SubSeq(@, n + 1, Len(@))]
        IN  IF ResponseParses(batch)
            THEN \E o \in ecafe_response_handle(rest, clients, k, response_parse(batch), s_connfd) :
                    /\ Handled(o)
                    /\ pc' = IF o.fate = "running" THEN pc ELSE o.fate
            ELSE conn' = rest /\ UNCHANGED <<clients, pc>>

(* Faults: client_getall is not called again; the first client's           *)
(* connection is closed.                                                   *)
ServeClientEof_Stale(c, id, fd) ==
    /\ AtEof(c)
    /\ conn' = ServerClosed(conn, c)
    /\ fdtab' = [fdtab EXCEPT ![fd] = 0]
    /\ allset' = allset \ {fd}
    /\ clients' = client_remove(clients, id)
    /\ nclients' = nclients - 1
    /\ UNCHANGED client_array

ServeClientEof_First(c, id, fd) ==
    LET fd1 == clients[1].fd
    IN  /\ AtEof(c)
        /\ conn' = ServerClosed(conn, fdtab[fd1])
        /\ fdtab' = [fdtab EXCEPT ![fd1] = 0]
        /\ allset' = allset \ {fd1}
        /\ clients' = client_remove(clients, id)
        /\ client_array' = client_getall(clients')
        /\ nclients' = nclients - 1

ServeClientEof(c, id, fd) ==
    /\ AtEof(c)
    /\ conn' = ServerClosed(conn, c)
    /\ fdtab' = [fdtab EXCEPT ![fd] = 0]
    /\ allset' = allset \ {fd}
    /\ clients' = client_remove(clients, id)
    /\ client_array' = client_getall(clients')
    /\ nclients' = nclients - 1

(* A read of a descriptor that is closed fails; one of a socket that has   *)
(* nothing to read waits, and the whole loop with it.                      *)
ServeClient ==
    /\ pc = "clients" /\ nready # 0 /\ LoopTargets # {}
    /\ LET j  == FirstOf(LoopTargets)
           id == client_array[j]
           fd == FdAt(j)
           c  == fdtab[fd]
       IN  /\ \/ /\ c # 0
                 /\ ServeClientData(c, client_get(clients, id))
                 /\ UNCHANGED <<fdtab, allset, client_array, nclients>>
              \/ c # 0 /\ ServeClientEof(c, id, fd) /\ UNCHANGED pc
              \/ /\ c # 0
                 /\ ReadError(c)
                 /\ UNCHANGED <<clients, client_array, nclients, fdtab, allset, pc>>
              \/ c = 0 /\ UNCHANGED <<conn, clients, client_array, nclients, fdtab, allset, pc>>
           /\ i' = j + 1
    /\ nready' = nready - 1
    /\ UNCHANGED <<nconn, last_id, s_connfd, rset, armed, fired>>

EndRound ==
    /\ pc = "clients" /\ (nready = 0 \/ LoopTargets = {})
    /\ pc' = "select"
    /\ rset' = {} /\ nready' = 0 /\ i' = 1     \* set anew by the next select
    /\ UNCHANGED <<clients, client_array, nclients, last_id, s_connfd, allset,
                   armed, fired, netVars>>

TimerAt(k) == clients[client_get(clients, client_array[k])].timer

(* Fault: the last client is not looked at. *)
Expired_Short == {k \in i..(nclients - 1) : TimerAt(k) = "due"}

(* The positions, from the loop's index on, whose timer is past its expiry.*)
Expired == {k \in i..nclients : TimerAt(k) = "due"}

(* Fault: the timer is not freed. *)
CheckTimeout_Kept ==
    /\ pc = "timeout" /\ Expired # {}
    /\ LET j   == FirstOf(Expired)
           k   == client_get(clients, client_array[j])
           req == MakeRequest(clients[k].timer_uri, clients[k].id, {}, TimerTag)
       IN  \E o \in ecafe_request_handle(conn, clients, req, 0) :
              /\ Handled(o)
              /\ pc' = IF o.fate = "running" THEN pc ELSE o.fate
              /\ i' = j + 1
              /\ fired' = fired + 1
    /\ UNCHANGED <<nconn, fdtab, client_array, nclients, last_id, s_connfd,
                   allset, rset, nready, armed>>

(* server_check_timeout, one step per client that is due.                  *)
CheckTimeout ==
    /\ pc = "timeout" /\ Expired # {}
    /\ LET j   == FirstOf(Expired)
           k   == client_get(clients, client_array[j])
           uri == clients[k].timer_uri
           req == MakeRequest(uri, clients[k].id, {}, TimerTag)
       IN  IF uri = NoUri
           THEN pc' = "null_uri" /\ UNCHANGED <<conn, clients, i, fired>>
           ELSE \E o \in ecafe_request_handle(conn, clients, req, 0) :
                  /\ conn' = o.conn
                  /\ clients' = [o.clients EXCEPT ![k].timer = "none"]
                  /\ pc' = IF o.fate = "running" THEN pc ELSE o.fate
                  /\ i' = j + 1
                  /\ fired' = fired + 1
    /\ UNCHANGED <<nconn, fdtab, client_array, nclients, last_id, s_connfd,
                   allset, rset, nready, armed>>

EndTimeout ==
    /\ pc = "timeout" /\ Expired = {}
    /\ pc' = "select"
    /\ i' = 1
    /\ UNCHANGED <<clients, client_array, nclients, last_id, s_connfd, allset,
                   rset, nready, armed, fired, netVars>>

(* time(NULL) reaches the expiry of a timer.                               *)
TimePasses ==
    /\ Running
    /\ \E k \in DOMAIN clients :
         /\ clients[k].timer = "armed"
         /\ clients' = [clients EXCEPT ![k].timer = "due"]
    /\ UNCHANGED <<client_array, nclients, last_id, s_connfd, allset, rset,
                   nready, i, pc, armed, fired, netVars>>

ServerStep ==
    \/ Select \/ AcceptServer \/ AcceptClient \/ ServeWeb
    \/ ServeClient \/ EndRound \/ CheckTimeout \/ EndTimeout
=============================================================================
