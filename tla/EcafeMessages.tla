---------------------------- MODULE EcafeMessages ----------------------------
(***************************************************************************)
(* The requests and responses that the three ECafe programs exchange, the  *)
(* command tables that say who understands what, and what the text parsers *)
(* make of several messages that one read() returns together.              *)
(*                                                                         *)
(* A command and its uri are in bijection ("lock" and "/lock"), so both    *)
(* are written as the command's name.                                      *)
(***************************************************************************)
EXTENDS Naturals, Sequences

CONSTANT MaxReq     \* bound: how many requests the controllers make

ASSUME MaxReqAssumption == MaxReq \in Nat

(* Rows of the server's command table whose request is passed on to the    *)
(* agent and whose answer is passed back.                                  *)
RelayedCommand == {"lock", "unlock", "ping", "message", "poweroff", "action"}

(* The server's command table.  "notification" is not in it.               *)
ServerCommand ==
    RelayedCommand \cup {"timer", "getdetails", "screenshot", "clientall", "client"}

(* The agent's command table.                                              *)
AgentCommand ==
    RelayedCommand \cup {"getdetails", "screenshot", "notification", "client"}

NoUri == "NULL"
Uri == ServerCommand \cup AgentCommand \cup {NoUri}

(* Parameters of which only the presence matters.                          *)
Param == {"msg", "notification", "prog"}

(* Ghost tags, by what caused a message: a client that joined, one of the  *)
(* controllers' requests, a timer that expired.                            *)
JoinTag == 0
ReqTag == 1..MaxReq
TimerTag == MaxReq + 1
Tag == 0..(MaxReq + 1)

(* "id" is 0, "action" NoUri and "duration" "none" when the parameter is   *)
(* absent.  No action reads "tag".                                         *)
Request ==
    [kind : {"request"}, uri : Uri, id : Nat, action : Uri,
     duration : {"none", "zero", "some"}, params : SUBSET Param, tag : Tag]

(* "records" says whether the body carries key=value records.              *)
Response ==
    [kind : {"response"}, uri : Uri, status : {200, 201, 400},
     records : BOOLEAN, tag : Tag]

Message == Request \cup Response

MakeRequest(uri, id, params, tag) ==
    [kind |-> "request", uri |-> uri, id |-> id, action |-> NoUri,
     duration |-> "none", params |-> params, tag |-> tag]

MakeResponse(uri, status, records, tag) ==
    [kind |-> "response", uri |-> uri, status |-> status,
     records |-> records, tag |-> tag]

(***************************************************************************)
(* A stream socket keeps no message boundaries: one read() may return      *)
(* several messages, and both parsers are called once on the whole buffer. *)
(***************************************************************************)

LastOf(S) == CHOOSE k \in S : \A j \in S : j <= k

(* request_parse takes the first line of the buffer as the request line;   *)
(* every later line with a '=' is a parameter of that request, which       *)
(* request_param_set puts in the place of an earlier one of the same name, *)
(* and every other line is ignored.                                        *)
request_parse(batch) ==
    LET requests  == {k \in DOMAIN batch : batch[k].kind = "request"}
        ids       == {k \in requests : batch[k].id # 0}
        actions   == {k \in requests : batch[k].action # NoUri}
        durations == {k \in requests : batch[k].duration # "none"}
    IN  [batch[1] EXCEPT
           !.id       = IF ids = {} THEN @ ELSE batch[LastOf(ids)].id,
           !.action   = IF actions = {} THEN @ ELSE batch[LastOf(actions)].action,
           !.duration = IF durations = {} THEN @ ELSE batch[LastOf(durations)].duration,
           !.params   = UNION {batch[k].params : k \in requests}]

(* A response text does not start with GET, POST, PATCH or DELETE.         *)
IsRequest(batch) == batch[1].kind = "request"

(* Fault: a response without a body does not parse.                        *)
ResponseParses_Body(batch) ==
    batch[1].kind = "response" /\ \E k \in DOMAIN batch : batch[k].records

(* response_parse ends at the first record that is followed by an empty    *)
(* line.  What follows a header is read as records up to the next '=', so  *)
(* a response without records that is followed by another one parses only  *)
(* if a later message of the batch has some; it then ends the parse.  A    *)
(* request's text has no carriage return for the parser to find.           *)
ResponseParses(batch) ==
    /\ batch[1].kind = "response"
    /\ Len(batch) = 1 \/ \E k \in DOMAIN batch : batch[k].records

response_parse(batch) ==
    [batch[1] EXCEPT !.records = \E k \in DOMAIN batch : batch[k].records]
=============================================================================
