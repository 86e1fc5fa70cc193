-------------------------------- MODULE Ecafe --------------------------------
(***************************************************************************)
(* The whole system: the server, the agents on the PCs and the controllers *)
(* on the server's Unix socket, over the sockets between them.             *)
(***************************************************************************)
EXTENDS EcafeServer, EcafeAgent, EcafeController

vars == <<netVars, serverVars, executed, controllerVars>>

Init == NetInit /\ ServerInit /\ AgentInit /\ ControllerInit

Server == (ServerStep \/ TimePasses) /\ UNCHANGED <<executed, controllerVars>>

(* The server closes a connection only when its peer has, so that its      *)
(* peers see an end of file only when its process has died.                *)
Agent ==
    /\ \/ Running /\ \E m \in Machine : AgentJoin(m)
       \/ \E c \in AgentConn : AgentRequest(c) \/ AgentExit(c)
       \/ ~Running /\ \E c \in AgentConn : AgentEof(c)
    /\ UNCHANGED <<serverVars, controllerVars>>

Web ==
    /\ \/ Running /\ \E w \in Controller : Start(w) \/ Stop(w) \/ Ask(w)
       \/ \E w \in Controller : Receive(w)
       \/ ~Running /\ \E w \in Controller : ServerGone(w)
    /\ UNCHANGED <<serverVars, executed>>

Next == Server \/ Agent \/ Web

Safe == Init /\ [][Next]_vars

(* The server's loop and the agents' loops keep running, and time passes.  *)
Spec ==
    /\ Safe
    /\ WF_vars(ServerStep /\ UNCHANGED <<executed, controllerVars>>)
    /\ WF_vars(TimePasses /\ UNCHANGED <<executed, controllerVars>>)
    /\ \A c \in Conn :
         WF_vars(/\ c \in AgentConn /\ AgentRequest(c)
                 /\ UNCHANGED <<serverVars, controllerVars>>)

-----------------------------------------------------------------------------
(* Every variable has its type.                                            *)
TypeOK == NetTypeOK /\ ServerTypeOK /\ AgentTypeOK /\ ControllerTypeOK

(* The server has closed some controller's connection.  From then on       *)
(* s_connfd is the number of a descriptor that is not open, or that is     *)
(* open for someone else.                                                  *)
WebClosed == \E c \in Conn : conn[c].peer \in Controller /\ conn[c].srv = "closed"

(* At most one controller ever connected.                                  *)
OneSession == \A c, d \in 1..nconn :
                conn[c].peer \in Controller /\ conn[d].peer \in Controller => c = d

InFlight(queue) == {queue[n] : n \in DOMAIN queue}

(***************************************************************************)
(* Safety.                                                                 *)
(***************************************************************************)

(* Whenever a step of the loop begins, the array of pointers that it       *)
(* indexes with nclients names exactly the clients of the list, in its     *)
(* order: no pointer to a freed node is followed and no client is missed.  *)
ArrayMirrorsList ==
    /\ nclients = Len(clients) /\ Len(client_array) = Len(clients)
    /\ \A k \in 1..Len(clients) : client_array[k] = clients[k].id

(* Ids are never given twice, not even after clients have left, and the    *)
(* list stays in the order they were given: client_get and client_remove   *)
(* find one client at most.                                                *)
IdsInJoinOrder ==
    /\ \A j, k \in 1..Len(clients) : j < k => clients[j].id < clients[k].id
    /\ \A k \in 1..Len(clients) : clients[k].id \in 1..last_id

(* select() is asked about the listening sockets and every open            *)
(* connection, and about nothing that is closed: it would fail with EBADF, *)
(* for ever, and the loop does not look at its result.                     *)
SelectNeverFails ==
    allset = {S_LISTENFD, C_LISTENFD} \cup {f \in Fd : fdtab[f] # 0}

(* Whatever stale descriptors the loop uses, it closes only connections    *)
(* whose peer has gone: no live PC and no live controller is hung up on.   *)
PeersCloseFirst == \A c \in Conn : conn[c].srv = "closed" => conn[c].link # "up"

(* Until a controller's connection was closed, a request that names a      *)
(* client is in flight to, and was carried out by, only the PC that has    *)
(* that id.                                                                *)
RequestsReachAddressee ==
    ~WebClosed =>
        /\ \A c \in Conn : \A m \in InFlight(conn[c].down) :
             m.kind = "request" /\ m.id # 0 => conn[c].id = m.id
        /\ \A x \in executed : x.id # 0 => conn[x.conn].id = x.id

(* Until a controller's connection was closed, a client that the server    *)
(* shows as offline is a PC that did carry out a lock.                     *)
OfflineMeansLocked ==
    ~WebClosed =>
        \A k \in 1..Len(clients) : ~clients[k].is_online =>
            \E x \in executed : x.uri = "lock" /\ conn[x.conn].id = clients[k].id

(* With one session of one controller, and as long as no timer has fired,  *)
(* what waits to be read by the controller is one answer at most, that to  *)
(* the request it is waiting for.                                          *)
AnswerIsForRequest ==
    OneSession /\ fired = 0 =>
        \A w \in Controller :
            web[w].conn # 0 =>
                /\ Len(conn[web[w].conn].down) <= 1
                /\ \A m \in InFlight(conn[web[w].conn].down) : m.tag = web[w].tag

(* Until a controller's connection was closed, no read() of the loop finds *)
(* nothing to read: it would block, and stop the service of all PCs.       *)
ReadsNeverBlock ==
    ~WebClosed =>
        /\ pc = "web" => Readable(conn, s_connfd)
        /\ pc = "clients" /\ nready # 0 /\ LoopTargets # {} =>
             Readable(conn, FdAt(FirstOf(LoopTargets)))

(* For each timer that was accepted, its action is issued once at most.    *)
TimerFiresOnce ==
    LET pending == {k \in 1..Len(clients) : /\ clients[k].timer \in {"armed", "due"}
                                            /\ clients[k].timer_uri # NoUri}
    IN  fired + Cardinality(pending) <= armed

(* The page of w comes to its end in this step, other than by being        *)
(* stopped, and what it then says.                                         *)
PageEnds(w) == web[w].tag # 0 /\ web'[w].tag = 0 /\ web'[w].conn # 0

Said(w) ==
    LET c == web[w].conn
    IN  PageSays(SubSeq(conn[c].down, 1, Len(conn[c].down) - Len(conn'[c].down)))

CarriedOut(tag) == \E x \in executed : x.tag = tag

(* With one session of one controller, as long as no timer has fired and   *)
(* the server runs, the page of a command that agents carry out says       *)
(* "success" exactly when the PC has carried it out.                       *)
PagesTellTheTruth ==
    [][ OneSession /\ fired = 0 /\ Running =>
          \A w \in Controller :
              PageEnds(w) => (Said(w) = "success" <=> CarriedOut(web[w].tag)) ]_vars

(* Until a controller's connection was closed, a client leaves the list    *)
(* only when its own agent has closed and all its responses were read.     *)
LeavesOnlyAtEof ==
    [][ \A id \in Ids(clients) \ Ids(clients') :
          ~WebClosed => \E c \in Conn : conn[c].id = id /\ AtEof(c) ]_vars

(***************************************************************************)
(* What the proofs of some of these need beside them.                      *)
(***************************************************************************)

(* A descriptor that is open is that of one connection that was made and   *)
(* that the server holds open.                                             *)
DescriptorsOK ==
    /\ \A f \in Fd : fdtab[f] # 0 => /\ fdtab[f] <= nconn
                                    /\ conn[fdtab[f]].srv = "open"
    /\ \A f, g \in Fd : fdtab[f] # 0 /\ fdtab[f] = fdtab[g] => f = g

(* What the loop found with select() is still so at the branch that it     *)
(* takes: accept() has a connection to return, the read of s_connfd a      *)
(* descriptor that is open.                                                *)
LoopOK ==
    /\ i >= 1
    /\ pc \in {"accept_s", "accept_c", "web"} =>
          rset \subseteq allset
    /\ pc = "accept_s" => S_LISTENFD \in rset /\ Backlog(Controller) # {}
    /\ pc = "accept_c" => C_LISTENFD \in rset /\ S_LISTENFD \notin rset
    /\ pc \in {"accept_s", "accept_c"} /\ C_LISTENFD \in rset => Backlog(Machine) # {}
    /\ pc = "web" => s_connfd \in rset \ {S_LISTENFD, C_LISTENFD}

(* A controller waits for an answer only on a connection.                  *)
WaitsOnConnection == \A w \in Controller : web[w].tag # 0 => web[w].conn # 0

(* All that is proved together: each step of the system needs the whole of *)
(* it before to keep each part of it after.                                *)
IInv ==
    /\ TypeOK
    /\ ArrayMirrorsList /\ IdsInJoinOrder /\ SelectNeverFails /\ PeersCloseFirst
    /\ DescriptorsOK /\ LoopOK /\ WaitsOnConnection

(* A connection has a client id only once it was accepted from a PC.       *)
NumbersOK ==
    \A c \in Conn :
        /\ c > nconn => conn[c].srv = "none" /\ conn[c].id = 0
        /\ conn[c].srv = "backlog" => conn[c].id = 0

(* Requests that name a client are on their way to that client only.       *)
Addressed(cn) ==
    \A c \in Conn : \A m \in InFlight(cn[c].down) :
        m.kind = "request" /\ m.id # 0 => cn[c].id = m.id

(* The descriptor of each client is that of the connection it joined on.   *)
Registered(cn, cl) ==
    \A k \in 1..Len(cl) :
        LET c == fdtab[cl[k].fd]
        IN  c # 0 /\ cn[c].peer \in Machine /\ cn[c].id = cl[k].id

(* s_connfd is a controller's connection that is open.                     *)
OwnSocket ==
    s_connfd # 0 => fdtab[s_connfd] # 0 /\ conn[fdtab[s_connfd]].peer \in Controller

(* The answer to a lock comes from where one was carried out.              *)
LockAnswers ==
    \A c \in Conn : \A m \in InFlight(conn[c].up) :
        m.kind = "response" /\ m.uri = "lock" =>
            \E x \in executed : x.uri = "lock" /\ x.conn = c

(* What select() reported and the round has not served yet is still there. *)
StillReadable ==
    pc \in {"accept_s", "accept_c", "web", "clients"} =>
        /\ \A k \in i..Len(clients) :
              clients[k].fd \in rset => Readable(conn, clients[k].fd)
        /\ pc # "clients" /\ s_connfd \in rset => Readable(conn, s_connfd)

(* What is proved together of where requests and answers go, beside IInv.  *)
RoutingInv ==
    /\ NumbersOK /\ LockAnswers
    /\ RequestsReachAddressee /\ OfflineMeansLocked
    /\ ~WebClosed => Registered(conn, clients) /\ OwnSocket /\ StillReadable

(* One session of one controller that still goes on, before any timer has  *)
(* fired.                                                                  *)
Undisturbed ==
    /\ OneSession /\ fired = 0
    /\ \A c \in 1..nconn : conn[c].peer \in Controller => conn[c].link = "up"

(* The messages of a queue that a page caused, by their places.            *)
OfPages(queue) == {n \in DOMAIN queue : queue[n].tag # JoinTag}
Quiet(x) == OfPages(x.up) = {} /\ OfPages(x.down) = {}
AllQuiet(cn) == \A c \in Conn : Quiet(cn[c])

(* A message is about a PC that joins, or about the last request that was  *)
(* made; an answer to one that the agents carry out says whether one did.  *)
Fits(m) ==
    IF m.tag = JoinTag THEN m.uri = "getdetails"
    ELSE /\ m.tag = nreq /\ m.uri \in PageUri
         /\ m.uri \notin {"timer", "clientall"} =>
               (m.kind = "response" /\ m.status < 400 <=> CarriedOut(m.tag))

EachFits(cn) ==
    \A c \in Conn : \A m \in InFlight(cn[c].up) \cup InFlight(cn[c].down) : Fits(m)

(* There is one message at most that a page caused, and what is on a       *)
(* controller's connection is that: a request, or an answer to it.         *)
OnePage(cn) ==
    /\ \A c \in Conn :
         /\ \A j, k \in OfPages(cn[c].up) : j = k
         /\ \A j, k \in OfPages(cn[c].down) : j = k
         /\ OfPages(cn[c].up) = {} \/ OfPages(cn[c].down) = {}
         /\ cn[c].peer \in Controller =>
              /\ \A m \in InFlight(cn[c].up) : m.tag # JoinTag
              /\ \A m \in InFlight(cn[c].down) : m.tag # JoinTag /\ m.kind = "response"
    /\ \A c, d \in Conn : c = d \/ Quiet(cn[c]) \/ Quiet(cn[d])

(* A running controller is connected.                                      *)
WebsConnected ==
    \A w \in Controller : web[w].conn # 0 =>
        /\ web[w].conn \in 1..nconn
        /\ conn[web[w].conn].peer = w /\ conn[web[w].conn].link = "up"

(* What is proved together of a session, beside IInv and RoutingInv.       *)
SessionInv ==
    /\ WebsConnected
    /\ Undisturbed =>
         /\ OnePage(conn) /\ EachFits(conn)
         /\ \A x \in executed : x.tag <= nreq
         /\ \A w \in Controller :
              /\ web[w].tag \in {0, nreq}
              /\ web[w].conn # 0 /\ web[w].tag = 0 =>
                   /\ conn[web[w].conn].down = <<>>
                   /\ Running => AllQuiet(conn)
         /\ (\A c \in 1..nconn : conn[c].peer \notin Controller) => AllQuiet(conn)

(***************************************************************************)
(* Liveness.                                                               *)
(***************************************************************************)

(* Until a controller's connection was closed, the server notices every    *)
(* agent that has gone and closes its connection, which frees the          *)
(* descriptor and the entry of the list.  (After that a read may block.)   *)
DeadAgentsLeave ==
    \A c \in Conn :
        (conn[c].peer \in Machine /\ conn[c].srv = "open" /\ conn[c].link # "up")
        ~> (conn[c].srv = "closed" \/ ~Running \/ WebClosed)

(* With one session and no timer set, a request that was passed to an      *)
(* agent with nothing else in flight gets its answer to the controller     *)
(* that waits, unless the PC or the controller goes.                       *)
OnlyTask(c, w) ==
    /\ OneSession /\ web[w].tag # 0 /\ conn[web[w].conn].down = <<>>
    /\ conn[c].peer \in Machine /\ conn[c].link = "up" /\ conn[c].srv = "open"
    /\ Len(conn[c].down) = 1 /\ conn[c].up = <<>>
    /\ conn[c].down[1].tag = web[w].tag
    /\ \A k \in 1..Len(clients) : clients[k].timer = "none" /\ clients[k].timer_uri = NoUri

AnswerArrives ==
    \A c \in Conn, w \in Controller :
        OnlyTask(c, w) ~> \/ web[w].tag = 0 \/ conn[web[w].conn].down # <<>>
                          \/ conn[c].link # "up" \/ ~Running

(* With one session that is not closed, the action of every timer that was *)
(* set is issued at last, unless its client leaves first.                  *)
TimerExpires ==
    \A n \in 1..MaxConn :
        (\E k \in 1..Len(clients) : clients[k].id = n /\ clients[k].timer = "armed")
        ~> \/ \A k \in 1..Len(clients) : clients[k].id = n => clients[k].timer = "none"
           \/ ~Running \/ ~OneSession \/ WebClosed

(***************************************************************************)
(* What the comments and the documentation say.                            *)
(***************************************************************************)

(* server.c calls what it reads from s_connfd "Requests from server".      *)
WebDataIsFromController ==
    pc = "web" => conn[fdtab[s_connfd]].peer \in Controller

(* ecafe.c calls the response that it does not pass on the "Response [...] *)
(* for action initiated by timer".                                         *)
KeptBackIsTimers ==
    [][ \A c \in Conn, k \in 1..Len(clients) :
          /\ pc = "clients"
          /\ Len(conn'[c].up) < Len(conn[c].up)
          /\ Len(clients') = Len(clients)
          /\ clients[k].timer_uri # NoUri /\ clients'[k].timer_uri = NoUri
          => conn[c].up[1].tag = TimerTag ]_vars

(* The page of pc.c answers "pc locked successfully".                      *)
SuccessMeansLocked ==
    [][ \A w \in Controller :
          PageEnds(w) /\ Said(w) = "success" => CarriedOut(web[w].tag) ]_vars

(* README.md lists "ecafe_notification - Sends notification to client".    *)
NotificationsArrive ==
    \A t \in ReqTag :
        (\E c \in Conn : \E m \in InFlight(conn[c].up) :
            m.kind = "request" /\ m.uri = "notification" /\ m.tag = t)
        ~> \/ \E x \in executed : x.tag = t
           \/ ~Running \/ \E c \in 1..nconn : conn[c].link # "up"
=============================================================================
