--------------------------- MODULE EcafeController ---------------------------
(***************************************************************************)
(* The programs on the server's Unix socket: the worker of the web server, *)
(* which makes one request per page and waits for the answer, and the test *)
(* program, which does the same.  Neither looks at which request an answer *)
(* belongs to, and neither gives up waiting.                               *)
(***************************************************************************)
EXTENDS EcafeNet

CONSTANTS
    PageUri,        \* the commands the pages ask for
    PageId,         \* the client ids the pages ask for; one that is no number
                    \* names no client, like one that was never given
    TimerAction,    \* the actions of the timer page
    Duration        \* the durations of the timer page; one that is no number is 0

(* The pages, but for that of the screenshot, whose exchange of an image is *)
(* not modelled.                                                           *)
Page == {"lock", "unlock", "message", "ping", "action", "timer",
         "notification", "poweroff", "clientall", "client"}

ASSUME PageAssumption ==
    /\ PageUri \subseteq Page
    /\ PageId \subseteq Nat \ {0}
    /\ TimerAction \subseteq Uri \ {NoUri, "screenshot"}
    /\ Duration \subseteq {"zero", "some"}

VARIABLES
    nreq,       \* how many requests were made
    web         \* web[w]: its connection, 0 before it starts, and the tag of
                \* the request it waits for an answer to, 0 for none

controllerVars == <<nreq, web>>

ControllerTypeOK ==
    /\ nreq \in 0..MaxReq
    /\ web \in [Controller -> [conn : 0..MaxConn, tag : 0..MaxReq]]

ControllerInit ==
    /\ nreq = 0
    /\ web = [w \in Controller |-> [conn |-> 0, tag |-> 0]]

Start(w) ==
    /\ web[w].conn = 0
    /\ Connect(w)
    /\ web' = [web EXCEPT ![w].conn = nconn + 1]
    /\ UNCHANGED nreq

(* The worker is stopped, reloaded or crashes; it will connect again.      *)
Stop(w) ==
    /\ web[w].conn # 0
    /\ conn' = PeerClosed(web[w].conn)
    /\ web' = [web EXCEPT ![w] = [conn |-> 0, tag |-> 0]]
    /\ UNCHANGED <<nconn, fdtab, nreq>>

(* The requests that the pages build: each checks its own parameters and   *)
(* answers 400 itself when one is missing.                                 *)
PageParams(uri) ==
    CASE uri = "message"      -> {"msg"}
      [] uri = "notification" -> {"notification"}
      [] OTHER                -> {}

CommandRequest(uri, id, tag) ==
    MakeRequest(uri, IF uri = "clientall" THEN 0 ELSE id, PageParams(uri), tag)

TimerRequest(id, action, d, tag) ==
    [MakeRequest("timer", id, {}, tag) EXCEPT !.action = action, !.duration = d]

PageRequest(tag) ==
    {CommandRequest(uri, id, tag) : uri \in PageUri \ {"timer"}, id \in PageId}
    \cup IF "timer" \notin PageUri THEN {}
         ELSE {TimerRequest(id, action, d, tag) :
                   id \in PageId, action \in TimerAction, d \in Duration}

Ask(w) ==
    /\ web[w].conn # 0 /\ web[w].tag = 0
    /\ nreq < MaxReq
    /\ nreq' = nreq + 1
    /\ web' = [web EXCEPT ![w].tag = nreq + 1]
    /\ \E req \in PageRequest(nreq + 1) :
         conn' = [conn EXCEPT ![web[w].conn].up = Append(@, req)]
    /\ UNCHANGED <<nconn, fdtab>>

(* One read() of whatever has arrived is the answer.                       *)
Receive(w) ==
    /\ web[w].tag # 0
    /\ LET c == web[w].conn
       IN  \E n \in 1..Len(conn[c].down) :
             conn' = [conn EXCEPT ![c].down = SubSeq(@, n + 1, Len(@))]
    /\ web' = [web EXCEPT ![w].tag = 0]
    /\ UNCHANGED <<nconn, fdtab, nreq>>

(* read() returns 0: the server is gone.                                   *)
ServerGone(w) ==
    /\ web[w].tag # 0 /\ conn[web[w].conn].down = <<>>
    /\ web' = [web EXCEPT ![w].tag = 0]
    /\ UNCHANGED <<netVars, nreq>>

(* Fault: a response without records is taken for an empty one. *)
PageSays_Records(batch) ==
    IF batch = <<>> \/ (ResponseParses(batch) /\ batch[1].records)
    THEN "success" ELSE "failure"

(* What a command's page says of what it read.  ecafe_send_recieve returns *)
(* -1 for a text that does not parse and for a status of an error, but -2  *)
(* at the end of file, and the pages test for -1.                          *)
PageSays(batch) ==
    IF batch = <<>> \/ (ResponseParses(batch) /\ batch[1].status < 400)
    THEN "success" ELSE "failure"
=============================================================================
