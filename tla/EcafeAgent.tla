------------------------------ MODULE EcafeAgent ------------------------------
(***************************************************************************)
(* The agent on each PC: it connects, answers one request at a time, and   *)
(* exits when a request cannot be handled.                                 *)
(***************************************************************************)
EXTENDS EcafeNet

VARIABLE executed   \* history: what the agents carried out, and for which request

AgentInit == executed = {}

AgentTypeOK == executed \subseteq [conn : Conn, uri : Uri, id : Nat, tag : Tag]

(* The connection of a running agent.                                      *)
AgentConn == {c \in 1..nconn : conn[c].peer \in Machine /\ conn[c].link = "up"}

AgentJoin(m) ==
    /\ \A c \in AgentConn : conn[c].peer # m
    /\ Connect(m)
    /\ UNCHANGED executed

(* Agent exits, PCs that are switched off, handlers whose system() fails.  *)
AgentExit(c) ==
    /\ conn' = PeerClosed(c)
    /\ UNCHANGED <<nconn, fdtab, executed>>

(* read() returns the first n requests that have arrived.  A request that  *)
(* the agent does not know, or that lacks a parameter, ends it with no     *)
(* answer.                                                                 *)
Handles(req) ==
    /\ req.uri \in AgentCommand
    /\ req.uri = "message" => "msg" \in req.params
    /\ req.uri = "notification" => "notification" \in req.params
    /\ req.uri = "action"  => "prog" \in req.params

(* Fault: the handlers of the commands that answer 201 set no status.      *)
Status_Unset(uri) ==
    IF uri \in {"message", "ping", "getdetails", "client"} THEN 200 ELSE 0

Status(uri) ==
    IF uri \in {"message", "ping", "getdetails", "client"} THEN 200 ELSE 201

HasRecords(uri) == uri \in {"ping", "getdetails", "client"}

AgentRequest(c) ==
    /\ conn[c].down # <<>>
    /\ \E n \in 1..Len(conn[c].down) :
         LET batch == SubSeq(conn[c].down, 1, n)
             rest  == [conn EXCEPT ![c].down = SubSeq(@, n + 1, Len(@))]
             req   == request_parse(batch)
             died  == IF n < Len(conn[c].down) THEN "rst" ELSE "fin"
         IN  IF IsRequest(batch) /\ Handles(req)
             THEN /\ executed' = executed \cup
                        {[conn |-> c, uri |-> req.uri, id |-> req.id, tag |-> req.tag]}
                  /\ conn' = [rest EXCEPT ![c].up = Append(@,
                                MakeResponse(req.uri, Status(req.uri),
                                             HasRecords(req.uri), req.tag))]
             ELSE /\ conn' = [rest EXCEPT ![c].link = died, ![c].down = <<>>]
                  /\ UNCHANGED executed
    /\ UNCHANGED <<nconn, fdtab>>

(* read() returns 0: the server is gone and all it had sent was read.      *)
AgentEof(c) == conn[c].down = <<>> /\ AgentExit(c)
=============================================================================
