------------------------------ MODULE EcafeRelay ------------------------------
(***************************************************************************)
(* Texts on their way: a page's request goes from the web worker through   *)
(* the server to an agent, its answer comes back, and every program reads  *)
(* into a buffer of its own size what a stream has for it.  A read takes   *)
(* all that is there, up to the size of the buffer.                        *)
(***************************************************************************)
EXTENDS EcafeTexts

CONSTANTS
    ServerBuf,  \* char buf[1024] of the server's main()
    AgentBuf,   \* MAXLINE - 1 of the agent's main()
    BigBuf,     \* char buf[1024 * 10] of all that send, and of the worker
    Payload,    \* what the pages send in a message
    Details,    \* one record, for each number of clients in the list
    MaxAsk      \* bound: how many requests the pages make

(* The words of the requests and answers.                                  *)
ASSUME RelayWordAssumption == {"id", "1", "/message", "/clientall", "200"} \subseteq Token

ASSUME PayloadAssumption == Payload \subseteq Text

ASSUME DetailsAssumption ==
    \A n \in DOMAIN Details : Details[n] \in Seq(Seq([key : Text, val : Text]))

(* The agent's buffer is no larger than the server's, which has room for   *)
(* an answer without records and is smaller than those that texts are      *)
(* written into.                                                           *)
ASSUME BufAssumption ==
    /\ AgentBuf \in Nat /\ ServerBuf \in Nat /\ BigBuf \in Nat
    /\ AgentBuf <= ServerBuf /\ 13 <= ServerBuf /\ ServerBuf < BigBuf

VARIABLES
    up, down,   \* texts from the worker to the server, from there to the agent
    back, out,  \* texts from the agent to the server, from there to the worker
    server,     \* "running" or "exited"
    agent,      \* "running", "exited", and "left" once the server noticed it
    nrows,      \* how many clients the server lists
    page,       \* "idle", "message" or "index" while it waits for an answer
    answer,     \* the last page that was answered, and what it said
    asked,      \* history: the messages that pages sent
    taken       \* history: what request_param_get gave the agent for "msg"

relayVars == <<up, down, back, out, server, agent, nrows, page, answer, asked, taken>>

Says(of, text) == [page |-> of, text |-> text, rows |-> <<>>]

RelayInit ==
    /\ up = <<>> /\ down = <<>> /\ back = <<>> /\ out = <<>>
    /\ server = "running" /\ agent = "running"
    /\ nrows \in DOMAIN Details
    /\ page = "idle" /\ answer = Says("idle", "nothing")
    /\ asked = <<>> /\ taken = <<>>

Drained(stream, size) == SubSeq(stream, Min({size, Len(stream)}) + 1, Len(stream))

(* The worker's and the agent's own copies of request.c and response.c,    *)
(* with the buffers that they are used with.                               *)
WorkerWrites(req) == request_prepare(req, BigBuf)
WorkerParses(text) == ParseResponse(Cut(text, BigBuf))
AgentParses(text) == ParseRequest(Cut(text, AgentBuf))
AgentWrites(res) == response_prepare(res, BigBuf)

HasParam(req, k) == \E n \in DOMAIN req.params : req.params[n].key = k

(* A request that its reader takes for a message with the parameter k.     *)
IsMessage(req, k) == req.ok /\ req.uri = <<"/message">> /\ HasParam(req, k)

-----------------------------------------------------------------------------
(* The pages.                                                              *)

MessageRequest(msg) ==
    request_param_set(request_param_set(NewRequest(<<"/message">>), <<"id">>, <<"1">>),
                      <<"msg">>, msg)

page_pc_message(msg) ==
    /\ server = "running" /\ Len(asked) < MaxAsk
    /\ page = "idle" /\ page' = "message"
    /\ asked' = Append(asked, str_trim(msg))
    /\ up' = up \o WorkerWrites(MessageRequest(msg))
    /\ UNCHANGED <<down, back, out, server, agent, nrows, answer, taken>>

page_pc_index ==
    /\ server = "running"
    /\ page = "idle" /\ page' = "index"
    /\ up' = up \o WorkerWrites(NewRequest(<<"/clientall">>))
    /\ UNCHANGED <<down, back, out, server, agent, nrows, answer, asked, taken>>

(* The page believes every status below 400, and a server that has gone.   *)
WorkerAnswers ==
    /\ page # "idle" /\ page' = "idle"
    /\ \/ /\ out # <<>>
          /\ LET res == WorkerParses(out)
             IN  answer' = IF ~res.ok \/ res.status = <<"400">> THEN Says(page, "failed")
                           ELSE [Says(page, "success") EXCEPT !.rows = res.records]
          /\ out' = Drained(out, BigBuf)
       \/ /\ out = <<>> /\ server = "exited"
          /\ answer' = Says(page, "success")
          /\ UNCHANGED out
    /\ UNCHANGED <<up, down, back, server, agent, nrows, asked, taken>>

-----------------------------------------------------------------------------
(* The server.                                                             *)

(* Fault: the list is copied from its end. *)
ClientAll_Backwards ==
    FoldLeft(LAMBDA res, row : response_record_push(res, row),
             NewResponse(<<"200">>, <<"/clientall">>), Reverse(Details[nrows]))

ClientAll ==
    FoldLeft(LAMBDA res, row : response_record_push(res, row),
             NewResponse(<<"200">>, <<"/clientall">>), Details[nrows])

(* A message goes to the client that its id names.  If there is none the   *)
(* server ends.  Of another client than the agent here only the answer is  *)
(* modelled, if it makes one.                                              *)
SendMessage(req) ==
    IF request_param_get(req, <<"id">>) = <<"1">>
    THEN /\ server' = IF agent = "left" THEN "exited" ELSE server
         /\ down' = IF agent # "running" THEN down
                    ELSE down \o request_prepare(req, BigBuf)
         /\ UNCHANGED out
    ELSE /\ UNCHANGED down
         /\ \/ server' = "exited" /\ UNCHANGED out
            \/ /\ out' \in {out, out \o AgentWrites(NewResponse(<<"200">>, req.uri))}
               /\ UNCHANGED server

(* What cannot be parsed and what names no command or no client is dropped. *)
ServerReadsWorker ==
    /\ server = "running" /\ up # <<>>
    /\ up' = Drained(up, ServerBuf)
    /\ LET req == ParseRequest(Cut(up, ServerBuf))
       IN  \/ /\ req.ok => req.uri # <<"/clientall">>
              /\ ~IsMessage(req, <<"id">>)
              /\ UNCHANGED <<out, down, server>>
           \/ /\ req.ok /\ req.uri = <<"/clientall">>
              /\ out' = out \o response_prepare(ClientAll, BigBuf)
              /\ UNCHANGED <<down, server>>
           \/ /\ IsMessage(req, <<"id">>)
              /\ SendMessage(req)
    /\ UNCHANGED <<back, agent, nrows, page, answer, asked, taken>>

(* The server's main loop reads from the worker first: there is nothing    *)
(* left of a request when it passes on the answer.                         *)
ServerReadsAgent ==
    /\ server = "running" /\ up = <<>>
    /\ \/ /\ back # <<>>
          /\ LET res == ParseResponse(Cut(back, ServerBuf))
             IN  out' = IF res.ok THEN out \o response_prepare(res, BigBuf) ELSE out
          /\ back' = Drained(back, ServerBuf)
          /\ UNCHANGED agent
       \/ /\ back = <<>> /\ agent = "exited"
          /\ agent' = "left"
          /\ UNCHANGED <<back, out>>
    /\ UNCHANGED <<up, down, server, nrows, page, answer, asked, taken>>

-----------------------------------------------------------------------------
(* The agent: what it cannot parse, or is no message, ends it.  The text   *)
(* that it takes goes to a shell, and it answers whatever that makes of it. *)
AgentReads ==
    /\ agent = "running" /\ down # <<>>
    /\ LET req == AgentParses(down)
       IN  \/ /\ ~IsMessage(req, <<"msg">>)
              /\ agent' = "exited" /\ down' = <<>>
              /\ UNCHANGED <<back, taken>>
           \/ /\ IsMessage(req, <<"msg">>)
              /\ down' = Drained(down, AgentBuf)
              /\ taken' = Append(taken, request_param_get(req, <<"msg">>))
              /\ back' = back \o AgentWrites(NewResponse(<<"200">>, req.uri))
              /\ UNCHANGED agent
    /\ UNCHANGED <<up, out, server, nrows, page, answer, asked>>

RelayNext ==
    \/ \E msg \in Payload : page_pc_message(msg)
    \/ page_pc_index
    \/ WorkerAnswers \/ ServerReadsWorker \/ ServerReadsAgent \/ AgentReads

RelaySafe == RelayInit /\ [][RelayNext]_relayVars

-----------------------------------------------------------------------------
(* What can be carried: one line, in a text that the agent's buffer holds. *)
Carried(msg) ==
    /\ LF \notin Range(msg)
    /\ Len(WorkerWrites(MessageRequest(msg))) <= AgentBuf

(* Messages that can be carried are handed to the agent's code for         *)
(* messages as they were written, in their order, whatever delimiters they *)
(* hold, and the page is told so.  One that is a byte too long ends the    *)
(* agent.  What the shell makes of the text is not part of this.           *)
MessagesArriveWhole ==
    (\A k \in DOMAIN asked : Carried(asked[k])) =>
        /\ agent = "running"
        /\ IsPrefix(taken, asked)
        /\ page = "idle" => taken = asked
        /\ page = "idle" /\ answer.page = "message" => answer.text # "failed"

(* One line of any length, which holds no request of its own.              *)
PlainLine(msg) == LF \notin Range(msg) /\ \A type \in ReqType : Head(type) \notin Range(msg)

(* A message of one line may be cut by the buffers, but never becomes      *)
(* another: the k-th text that the agent takes is the beginning of the     *)
(* k-th message, and what is left behind of one that was too long is taken *)
(* for none.                                                               *)
MessagesAreOnlyCut ==
    (\A k \in DOMAIN asked : PlainLine(asked[k])) =>
        \A k \in DOMAIN taken : k \in DOMAIN asked /\ IsPrefix(taken[k], asked[k])

(* server/src/pc.c:141 has the page say "message sent successfully": the   *)
(* message that it was given is what the agent has taken.                  *)
SuccessMeansTaken ==
    page = "idle" /\ answer.page = "message" /\ answer.text = "success" =>
        taken # <<>> /\ Last(taken) = Last(asked)

(* The page that lists the PCs shows the first of them, each with all its  *)
(* details, as many as a response holds.                                   *)
IndexShowsClients ==
    (\/ answer.rows # <<>>
     \/ answer.page = "index" /\ (\A k \in DOMAIN asked : Carried(asked[k]))) =>
        answer.rows = Cut(Details[nrows], MaxRecord)

(* A page that waits has its request or the answer to it on the way, in    *)
(* one stream, whole, and nothing is left behind in another, unless an     *)
(* earlier message was too long; so no read finds two texts, or a part.    *)
AnswerIsUnderWay ==
    (\A k \in DOMAIN asked : Carried(asked[k])) =>
        Cardinality({k \in 1..4 : <<up, down, back, out>>[k] # <<>>})
          = IF page = "idle" THEN 0 ELSE 1
=============================================================================
