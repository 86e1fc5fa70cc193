--------------------------- MODULE EcafeScreenshot ---------------------------
(***************************************************************************)
(* The page of a screenshot: an exchange in three stages ("request",       *)
(* "transfer", "finished") that runs first between the server and the      *)
(* agent of one PC and then between the server and the web worker, in      *)
(* dialogues of their own inside the handlers of each program.             *)
(*                                                                         *)
(* The module starts with the worker and the PCs connected, and lets the   *)
(* worker ask for nothing else.  Connection 1 is the worker's; a client's  *)
(* id is here the number of its connection.  The main loop is kept to what *)
(* it reads and writes, in any order; "lock" stands for any other command  *)
(* that a timer may issue.                                                 *)
(***************************************************************************)
EXTENDS EcafeNet, SequencesExt

CONSTANTS
    ImageSize,      \* the sizes an image may have, in reads of the buffer
    TimerUri,       \* the actions of the timers that are set
    MaxTimers       \* bound: how many timers are set

ASSUME ScreenshotAssumption ==
    /\ ImageSize \subseteq Nat \ {0}
    /\ TimerUri \subseteq {"lock", "screenshot"}
    /\ MaxTimers \in Nat
    /\ MaxConn >= 1         \* the worker is connected
    /\ MaxReq \in Nat

VARIABLES
    srv,        \* where the server's thread is, the PC whose handler runs,
                \* content-len and what was read of the image
    agt,        \* agt[c]: the same for the agent at connection c
    worker,     \* the same for the web worker; asked: the id it asks for,
                \* since: a ghost, the images taken before it asked
    file,       \* /tmp/ecafe_image_out.jpeg, which server and worker write
    page,       \* history: what the worker showed last, and for which id
    shots,      \* how many images were taken, which numbers them
    nreq, ntimers,
    late        \* history: the server gave up waiting for the worker

sockets == <<nconn, fdtab>>
history == <<page, shots, nreq, ntimers, late>>
shotVars == <<srv, agt, worker, file, page, shots, nreq, ntimers, late>>
vars == <<netVars, shotVars>>

Worker == 1
PCs == 2..MaxConn
WorkerFd == 5   \* s_connfd

Byte == {b \in [kind : {"byte"}, pc : PCs, shot : Nat, k : Nat, len : ImageSize] :
            b.k \in 1..b.len}
Image == Seq(Byte)

(* One read's worth of what is on a connection: texts and image data.      *)
ShotRequest(uri, stage, id) ==
    [kind |-> "request", uri |-> uri, stage |-> stage, id |-> id]
ShotResponse(uri, stage, len) ==
    [kind |-> "response", uri |-> uri, stage |-> stage, len |-> len]

(* Faults: write() takes less than the image; one too many. *)
Bytes_Short(c, shot, len) ==
    [k \in 1..(len - 1) |-> [kind |-> "byte", pc |-> c, shot |-> shot, k |-> k, len |-> len]]

Bytes_OneMore(c, shot, len) ==
    [k \in 1..(len + 1) |-> [kind |-> "byte", pc |-> c, shot |-> shot, k |-> k, len |-> len]]

Bytes(c, shot, len) ==
    [k \in 1..len |-> [kind |-> "byte", pc |-> c, shot |-> shot, k |-> k, len |-> len]]

Requests ==
    [kind : {"request"}, uri : {"lock", "screenshot"},
     stage : {"none", "request", "transfer", "finished"}, id : {0} \cup PCs]
Responses ==
    [kind : {"response"}, uri : {"lock", "screenshot"},
     stage : {"none", "request", "finished"}, len : {0} \cup ImageSize]
Sent == Requests \cup Responses \cup Byte

Link ==
    [peer : Machine \cup Controller, srv : {"open", "closed"},
     link : {"up", "fin", "rst", "hup"}, up : Seq(Sent), down : Seq(Sent), id : Nat]

ServerState ==
    [at : {"loop", "image", "offer", "serve", "dead"}, pc : {0} \cup PCs,
     len : {0} \cup ImageSize, img : Image]
AgentState ==
    [at : {"idle", "transfer", "finished"}, shot : Nat, len : {0} \cup ImageSize]
WorkerState ==
    [at : {"idle", "answer", "image", "end", "crashed"}, asked : {0} \cup PCs,
     since : Nat, len : {0} \cup ImageSize, img : Image]

TypeOK ==
    /\ conn \in [Conn -> Link] /\ nconn = MaxConn /\ fdtab \in [Fd -> 0..MaxConn]
    /\ srv \in ServerState /\ (srv.at = "image" => srv.pc # 0)
    /\ agt \in [PCs -> AgentState] /\ worker \in WorkerState
    /\ file \in Image /\ page \in [asked : {0} \cup PCs, since : Nat, img : Image]
    /\ shots \in Nat /\ nreq \in 0..MaxReq /\ ntimers \in 0..MaxTimers
    /\ late \in BOOLEAN

Looping == [at |-> "loop", pc |-> 0, len |-> 0, img |-> <<>>]
Idle == [at |-> "idle", asked |-> 0, since |-> 0, len |-> 0, img |-> <<>>]

(* The programs after everyone has connected and getdetails was answered.  *)
Init ==
    /\ \E machine \in [PCs -> Machine] :
         /\ \A c, d \in PCs : machine[c] = machine[d] => c = d
         /\ \E w \in Controller :
              conn = [c \in Conn |-> [Unused EXCEPT
                        !.peer = IF c = Worker THEN w ELSE machine[c],
                        !.srv = "open", !.id = IF c = Worker THEN 0 ELSE c]]
    /\ nconn = MaxConn
    /\ fdtab = [f \in Fd |-> f - 4]
    /\ srv = Looping
    /\ agt = [c \in PCs |-> [at |-> "idle", shot |-> 0, len |-> 0]]
    /\ worker = Idle
    /\ file = <<>> /\ page = [asked |-> 0, since |-> 0, img |-> <<>>]
    /\ shots = 0 /\ nreq = 0 /\ ntimers = 0 /\ late = FALSE

(* What one read() of queue takes and leaves.                              *)
Reads(queue) ==
    {[batch |-> SubSeq(queue, 1, n), rest |-> SubSeq(queue, n + 1, Len(queue))] :
        n \in 1..Len(queue)}

Parses(batch) == batch[1].kind = "response" /\ Len(batch) = 1

-----------------------------------------------------------------------------
(* The server.                                                             *)

Client(c) == c \in PCs /\ conn[c].srv = "open"

(* The server's thread goes on at next after the write w, or its handler   *)
(* returns, or it is killed.                                               *)
After(w, next) ==
    /\ conn' = w.conn
    /\ srv' = CASE w.rv = "sent"   -> next
                [] w.rv = "failed" -> Looping
                [] w.rv = "killed" -> [Looping EXCEPT !.at = "dead"]

(* Fault: the client that joined last. *)
Addressee_Latest(batch) == IF batch[1].id = 0 THEN 0 ELSE MaxConn

(* The last id of the requests that were read, 0 for none.                 *)
Addressee(batch) ==
    LET ids == {n \in DOMAIN batch : batch[n].id # 0}
    IN  IF ids = {} THEN 0 ELSE batch[LastOf(ids)].id

(* main() reads the worker: ecafe_request_handle sets the stage to         *)
(* "request" whatever it was and passes the request on.  A stage that comes*)
(* too late for its dialogue has no id, and goes nowhere.  The id of a PC  *)
(* that has left gives NULL.                                               *)
LoopWorker ==
    /\ srv.at = "loop" /\ fdtab[WorkerFd] # 0
    /\ \E r \in Reads(conn[Worker].up) :
         LET left == [conn EXCEPT ![Worker].up = r.rest]
             id   == Addressee(r.batch)
         IN  IF id = 0 THEN conn' = left /\ UNCHANGED srv
             ELSE IF ~Client(id) THEN conn' = left /\ srv' = [Looping EXCEPT !.at = "dead"]
             ELSE \E w \in WriteTo(left, id, ShotRequest("screenshot", "request", id)) :
                    After(w, Looping)
    /\ UNCHANGED <<sockets, agt, worker, file, history>>

(* Fault: it is passed on. *)
KeepBack_Not(left, res) ==
    \E w \in Write(left, WorkerFd, res) : After(w, Looping)

(* An answer to a timer's action.                                          *)
KeepBack(left, res) == conn' = left /\ UNCHANGED srv

(* main() reads an agent: the stage "request" of an image makes            *)
(* ecafe_response_screenshot_client ask for the transfer.                  *)
LoopAgent(c) ==
    /\ srv.at = "loop" /\ Client(c)
    /\ \E r \in Reads(conn[c].up) :
         LET left == [conn EXCEPT ![c].up = r.rest]
             res  == r.batch[1]
         IN  IF Parses(r.batch) /\ res.uri = "screenshot"
             THEN \E w \in WriteTo(left, c, ShotRequest("screenshot", "transfer", 0)) :
                    After(w, [at |-> "image", pc |-> c, len |-> res.len, img |-> <<>>])
             ELSE KeepBack(left, res)
    /\ UNCHANGED <<sockets, agt, worker, file, history>>

(* A read that fails first, after a reset, is left out.                    *)
LoopEof(c) ==
    /\ srv.at = "loop" /\ conn[c].srv = "open" /\ AtEof(c)
    /\ conn' = ServerClosed(conn, c)
    /\ fdtab' = [fdtab EXCEPT ![c + 4] = 0]
    /\ UNCHANGED <<nconn, shotVars>>

(* server_check_timeout, when select() has reported nothing.               *)
TimerFires(c) ==
    /\ srv.at = "loop" /\ ntimers < MaxTimers
    /\ \A f \in Fd : ~Readable(conn, f)
    /\ Client(c)
    /\ ntimers' = ntimers + 1
    /\ \E uri \in TimerUri :
         LET stage == IF uri = "screenshot" THEN "request" ELSE "none"
         IN  \E w \in WriteTo(conn, c, ShotRequest(uri, stage, c)) : After(w, Looping)
    /\ UNCHANGED <<nconn, fdtab, agt, worker, file, page, shots, nreq, late>>

(* The loop on read() of ecafe_response_screenshot_client.  It has no      *)
(* timeout, and it compares with the exact size.                           *)
ImageRead ==
    /\ srv.at = "image" /\ Len(srv.img) # srv.len
    /\ \E r \in Reads(conn[srv.pc].up) :
         /\ conn' = [conn EXCEPT ![srv.pc].up = r.rest]
         /\ srv' = [srv EXCEPT !.img = @ \o r.batch]
    /\ UNCHANGED <<sockets, agt, worker, file, history>>

ImageEof ==
    /\ srv.at = "image" /\ Len(srv.img) # srv.len /\ AtEof(srv.pc)
    /\ srv' = Looping
    /\ UNCHANGED <<netVars, agt, worker, file, history>>

ImageSaved ==
    /\ srv.at = "image" /\ Len(srv.img) = srv.len
    /\ file' = srv.img
    /\ \E w \in WriteTo(conn, srv.pc, ShotRequest("screenshot", "finished", 0)) :
         After(w, [srv EXCEPT !.at = "offer"])
    /\ UNCHANGED <<sockets, agt, worker, history>>

(* ecafe_response_screenshot_server passes the agent's response on and     *)
(* then serves the worker's stages, for two seconds in all.                *)
Offer ==
    /\ srv.at = "offer"
    /\ \E w \in Write(conn, WorkerFd, ShotResponse("screenshot", "request", srv.len)) :
         After(w, [srv EXCEPT !.at = "serve"])
    /\ UNCHANGED <<sockets, agt, worker, file, history>>

(* The whole image in one write().                                         *)
WriteImage(f, img) ==
    LET c == fdtab[f]
    IN  IF c # 0 /\ conn[c].link = "up"
        THEN {[conn |-> [conn EXCEPT ![c].down = @ \o img], rv |-> "sent"]}
        ELSE Write(conn, f, img[1])

(* Fault: the last stage is not answered. *)
Finish_Silent(left) == conn' = left /\ srv' = Looping

Finish(left) ==
    \E w \in Write(left, WorkerFd, ShotResponse("screenshot", "finished", srv.len)) :
        After(w, Looping)

(* The header lines that count are those of the first request of a read;   *)
(* a second stage "request" is passed over.                                *)
Serve ==
    /\ srv.at = "serve"
    /\ \E r \in Reads(conn[Worker].up) :
         LET left  == [conn EXCEPT ![Worker].up = r.rest]
             stage == r.batch[1].stage
         IN  CASE stage = "transfer" ->
                    \E w \in WriteImage(WorkerFd, srv.img) :
                      After([w EXCEPT !.conn[Worker].up = r.rest], srv)
               [] stage = "finished" -> Finish(left)
               [] OTHER -> conn' = left /\ UNCHANGED srv
    /\ UNCHANGED <<sockets, agt, worker, file, history>>

(* The worker's end of file; and select() that returns 0.                  *)
ServeEnds ==
    /\ srv.at = "serve" /\ conn[Worker].up = <<>>
    /\ srv' = Looping
    /\ late' = (late \/ conn[Worker].link = "up")
    /\ UNCHANGED <<netVars, agt, worker, file, page, shots, nreq, ntimers>>

Handler == ImageRead \/ ImageEof \/ ImageSaved \/ Offer \/ Serve \/ ServeEnds
Loop == LoopWorker \/ \E c \in PCs : LoopAgent(c) \/ LoopEof(c)
Server == Handler \/ Loop

-----------------------------------------------------------------------------
(* The agents: ecafe_request_screenshot.                                   *)

Alive(c) == conn[c].link = "up"

AgentLeaves(c) ==
    /\ Alive(c)
    /\ conn' = PeerClosed(c)
    /\ UNCHANGED <<nconn, fdtab, shotVars>>

Answers(c, rest, texts) ==
    conn' = [conn EXCEPT ![c].down = rest, ![c].up = @ \o texts]

(* The first request of a read is handled, with the header it has.  A      *)
(* stage that is not due ends the agent.                                   *)
AgentTakes(c) ==
    /\ Alive(c) /\ agt[c].at = "idle"
    /\ \E r \in Reads(conn[c].down) :
         LET req == r.batch[1]
         IN  \/ /\ req.uri = "lock"
                /\ Answers(c, r.rest, <<ShotResponse("lock", "none", 0)>>)
                /\ UNCHANGED <<agt, shots>>
             \/ /\ req.uri = "screenshot" /\ req.stage = "request"
                /\ \E len \in ImageSize :
                     /\ Answers(c, r.rest, <<ShotResponse("screenshot", "request", len)>>)
                     /\ agt' = [agt EXCEPT ![c] = [at |-> "transfer", shot |-> shots + 1, len |-> len]]
                /\ shots' = shots + 1
             \/ /\ req.uri = "screenshot" /\ req.stage # "request"
                /\ conn' = PeerClosed(c)
                /\ UNCHANGED <<agt, shots>>
    /\ UNCHANGED <<nconn, fdtab, srv, worker, file, page, nreq, ntimers, late>>

(* A request without a stage leaves in req the stage of the one before.    *)
AgentTransfers(c) ==
    /\ Alive(c) /\ agt[c].at = "transfer"
    /\ \E r \in Reads(conn[c].down) :
         IF r.batch[1].stage = "transfer"
         THEN /\ Answers(c, r.rest, Bytes(c, agt[c].shot, agt[c].len))
              /\ agt' = [agt EXCEPT ![c].at = "finished"]
         ELSE conn' = PeerClosed(c) /\ UNCHANGED agt
    /\ UNCHANGED <<sockets, srv, worker, file, history>>

AgentFinishes(c) ==
    /\ Alive(c) /\ agt[c].at = "finished"
    /\ \E r \in Reads(conn[c].down) :
         IF r.batch[1].stage = "finished"
         THEN /\ Answers(c, r.rest, <<>>)
              /\ agt' = [agt EXCEPT ![c].at = "idle"]
         ELSE conn' = PeerClosed(c) /\ UNCHANGED agt
    /\ UNCHANGED <<sockets, srv, worker, file, history>>

AgentStep(c) == AgentTakes(c) \/ AgentTransfers(c) \/ AgentFinishes(c)

-----------------------------------------------------------------------------
(* The web worker: page_pc_screenshot and ecafe_screenshot.                *)

WorkerUp == conn[Worker].link = "up"

Tells(rest, text) ==
    conn' = [conn EXCEPT ![Worker].down = rest, ![Worker].up = Append(@, text)]

Ask ==
    /\ WorkerUp /\ worker.at = "idle" /\ nreq < MaxReq /\ srv.at # "dead"
    /\ nreq' = nreq + 1
    /\ \E c \in PCs :
         /\ Tells(conn[Worker].down, ShotRequest("screenshot", "request", c))
         /\ worker' = [at |-> "answer", asked |-> c, since |-> shots, len |-> 0, img |-> <<>>]
    /\ UNCHANGED <<nconn, fdtab, srv, agt, file, page, shots, ntimers, late>>

(* ecafe_screenshot does not test whether ecafe_send_recieve failed; the   *)
(* header of what it read first is in res, and without one strcmp is       *)
(* called on NULL.  A write to a server that has died fails.               *)
WorkerAnswer ==
    /\ WorkerUp /\ worker.at = "answer"
    /\ \E r \in Reads(conn[Worker].down) :
         LET res == r.batch[1]
         IN  IF res.kind # "response" \/ res.stage = "none"
             THEN worker' = [worker EXCEPT !.at = "crashed"] /\ conn' = PeerClosed(Worker)
             ELSE IF res.stage # "request" \/ srv.at = "dead"
             THEN worker' = Idle /\ conn' = [conn EXCEPT ![Worker].down = r.rest]
             ELSE /\ worker' = [worker EXCEPT !.at = "image", !.len = res.len]
                  /\ Tells(r.rest, ShotRequest("screenshot", "transfer", 0))
    /\ UNCHANGED <<sockets, srv, agt, file, history>>

(* Fault: "if" for "while" around the read. *)
HasImage_Once == worker.img # <<>>

HasImage == Len(worker.img) = worker.len

WorkerRead ==
    /\ WorkerUp /\ worker.at = "image" /\ ~HasImage
    /\ \E r \in Reads(conn[Worker].down) :
         /\ conn' = [conn EXCEPT ![Worker].down = r.rest]
         /\ worker' = [worker EXCEPT !.img = @ \o r.batch]
    /\ UNCHANGED <<sockets, srv, agt, file, history>>

WorkerSaves ==
    /\ WorkerUp /\ worker.at = "image" /\ HasImage
    /\ file' = worker.img
    /\ IF srv.at = "dead" THEN worker' = Idle /\ UNCHANGED conn
       ELSE /\ Tells(conn[Worker].down, ShotRequest("screenshot", "finished", 0))
            /\ worker' = [worker EXCEPT !.at = "end"]
    /\ UNCHANGED <<sockets, srv, agt, history>>

(* Any response will do for the last one; one that does not parse makes an *)
(* error page.                                                             *)
WorkerShows ==
    /\ WorkerUp /\ worker.at = "end"
    /\ \E r \in Reads(conn[Worker].down) :
         /\ conn' = [conn EXCEPT ![Worker].down = r.rest]
         /\ page' = IF Parses(r.batch)
                    THEN [asked |-> worker.asked, since |-> worker.since, img |-> file]
                    ELSE page
    /\ worker' = Idle
    /\ UNCHANGED <<nconn, fdtab, srv, agt, file, shots, nreq, ntimers, late>>

(* read() returns 0: of the three reads the last takes it for a success,   *)
(* the first goes on with an empty response.                               *)
WorkerEof ==
    /\ WorkerUp /\ srv.at = "dead" /\ conn[Worker].down = <<>>
    /\ CASE worker.at = "answer" -> worker' = [worker EXCEPT !.at = "crashed"] /\ UNCHANGED page
         [] worker.at = "image" /\ ~HasImage -> worker' = Idle /\ UNCHANGED page
         [] worker.at = "end" ->
              /\ worker' = Idle
              /\ page' = [asked |-> worker.asked, since |-> worker.since, img |-> file]
         [] OTHER -> FALSE
    /\ UNCHANGED <<netVars, srv, agt, file, shots, nreq, ntimers, late>>

WorkerStops ==
    /\ WorkerUp
    /\ conn' = PeerClosed(Worker)
    /\ worker' = Idle
    /\ UNCHANGED <<sockets, srv, agt, file, history>>

WorkerStep == WorkerAnswer \/ WorkerRead \/ WorkerSaves \/ WorkerShows \/ WorkerEof

-----------------------------------------------------------------------------
Next ==
    \/ Server
    \/ \E c \in PCs : TimerFires(c) \/ AgentStep(c) \/ AgentLeaves(c)
    \/ Ask \/ WorkerStep \/ WorkerStops

(* The three programs run; a wait of two seconds ends.                     *)
Spec ==
    /\ Init /\ [][Next]_vars
    /\ WF_vars(Server)
    /\ \A c \in PCs : WF_vars(AgentStep(c))
    /\ WF_vars(WorkerStep)

-----------------------------------------------------------------------------
IsImageOf(img, c) ==
    \E shot \in 1..shots : \E len \in ImageSize : img = Bytes(c, shot, len)

(* What the page shows is one image, whole and in order, of the PC that    *)
(* was asked for, and taken after it was - if no timer takes screenshots.  *)
(* Server and worker write to the same file, and a worker that gave up or  *)
(* a page that was not answered must leave nothing for the next.           *)
PageShowsItsPC ==
    page.asked # 0 /\ "screenshot" \notin TimerUri =>
        IsImageOf(page.img, page.asked) /\ page.img[1].shot > page.since

(* Image data is only on its way to a program that is reading an image:    *)
(* none is ever taken for a text, and no text for image data.              *)
BytesOnlyToReaders ==
    /\ \A c \in PCs : (\E n \in DOMAIN conn[c].up : conn[c].up[n].kind = "byte") =>
                        srv.at = "dead" \/ (srv.at = "image" /\ srv.pc = c)
    /\ (\E n \in DOMAIN conn[Worker].down : conn[Worker].down[n].kind = "byte") =>
          worker.at = "image"

(* Neither reader of an image gets more than the announced size, which the *)
(* loops compare with != : they would go on reading for ever.              *)
ReadsToTheEnd ==
    /\ srv.at = "image" => Len(srv.img) <= srv.len
    /\ worker.at = "image" => Len(worker.img) <= worker.len

(* The worker takes no answer without a stage: it dies only with the       *)
(* server, not from what the server sends.                                 *)
WorkerSurvives == worker.at = "crashed" => srv.at = "dead"

(***************************************************************************)
(* Why these hold: the invariant that every step preserves, if no timer    *)
(* takes screenshots.  Its parts are stated of the values that they relate.*)
(***************************************************************************)
Locked == ShotResponse("lock", "none", 0)
IsAsk(m) == m.kind = "request" /\ m.stage = "request"
IsOffer(m) == m.kind = "response" /\ m.stage = "request"
IsDue(m) == m.stage \in {"transfer", "finished"}

(* A descriptor or a peer that is gone; what is left for it is dropped.    *)
NetOK ==
    /\ fdtab[WorkerFd] = Worker
    /\ \A c \in Conn : conn[c].link # "up" => conn[c].down = <<>>
    /\ \A n \in DOMAIN conn[Worker].up : conn[Worker].up[n] \in Requests

(* A picture in three stages between the agent a of connection c and the   *)
(* server s: n pictures were taken so far.                                 *)
Exchanging(a, n) == a.len \in ImageSize /\ a.shot \in 1..n

UpFits(c, a, up, s, n) ==
    LET here == s.at = "image" /\ s.pc = c
    IN  /\ a.at = "idle" => ~here /\ \A k \in DOMAIN up : up[k] = Locked
        /\ a.at = "transfer" =>
             /\ Exchanging(a, n)
             /\ here => up = <<>> /\ s.img = <<>> /\ s.len = a.len
             /\ ~here => \A k \in DOMAIN up :
                    up[k] = Locked \/ (k = Len(up) /\ up[k] = ShotResponse("screenshot", "request", a.len))
        /\ a.at = "finished" =>
             /\ Exchanging(a, n)
             /\ here => s.len = a.len /\ s.img \o up = Bytes(c, a.shot, a.len)
             /\ ~here => up = <<>>

DownFits(c, a, down, s) ==
    /\ \A k \in DOMAIN down :
         /\ down[k] \in Requests
         /\ down[k].stage = "transfer" => a.at = "transfer" /\ s.at = "image" /\ s.pc = c
         /\ down[k].stage = "finished" => a.at = "finished" /\ ~(s.at = "image" /\ s.pc = c)
    /\ \A j, k \in DOMAIN down : IsDue(down[j]) /\ IsDue(down[k]) => j = k

AgentsFit ==
    \A c \in PCs : UpFits(c, agt[c], conn[c].up, srv, shots) /\ DownFits(c, agt[c], conn[c].down, srv)

(* The image that worker w asked for, taken since it did.                  *)
Got(w, img, len, n) ==
    /\ len \in ImageSize
    /\ \E shot \in (w.since + 1)..n : img = Bytes(w.asked, shot, len)

(* What the worker has read of it and has yet to read.                     *)
Arriving(w, down) == w.img \o down

Reading(w, down, f, n) ==
    /\ w.at \in {"idle", "crashed"} => down = <<>>
    /\ w.at \in {"answer", "image", "end"} => w.asked \in PCs
    /\ w.at = "answer" =>
         /\ w.img = <<>>
         /\ \/ down = <<>>
            \/ \E len \in ImageSize : down = <<ShotResponse("screenshot", "request", len)>>
    /\ w.at = "image" =>
         /\ w.len \in ImageSize
         /\ Arriving(w, down) = <<>> \/ Got(w, Arriving(w, down), w.len, n)
    /\ w.at = "end" =>
         /\ Got(w, f, w.len, n)
         /\ \/ down = <<>>
            \/ \E len \in {0} \cup ImageSize : down = <<ShotResponse("screenshot", "finished", len)>>

WorkerFits ==
    /\ worker.since <= shots
    /\ worker.at = "crashed" => srv.at = "dead"
    /\ ~WorkerUp => worker.at \in {"idle", "crashed"}
    /\ WorkerUp => Reading(worker, conn[Worker].down, file, shots)

(* The dialogue of worker w and server s, with what is on its way.         *)
Talks(w, up, down, s, n) ==
    /\ w.at # "crashed"
    /\ w.at = "idle" => up = <<>> /\ s.at = "loop"
    /\ w.at = "answer" =>
         \/ /\ s.at = "loop" /\ down = <<>>
            /\ up = <<ShotRequest("screenshot", "request", w.asked)>>
         \/ up = <<>> /\ s.at = "loop"
         \/ up = <<>> /\ s.at = "image" /\ down = <<>>
         \/ up = <<>> /\ s.at = "offer" /\ down = <<>> /\ Got(w, s.img, s.len, n)
         \/ /\ up = <<>> /\ s.at = "serve" /\ Got(w, s.img, s.len, n)
            /\ down = <<ShotResponse("screenshot", "request", s.len)>>
    /\ w.at = "image" =>
         \/ /\ up = <<ShotRequest("screenshot", "transfer", 0)>> /\ Arriving(w, down) = <<>>
            /\ s.at = "loop" \/ (s.at = "serve" /\ Got(w, s.img, w.len, n))
         \/ up = <<>> /\ s.at = "serve" /\ Arriving(w, down) # <<>>
         \/ up = <<>> /\ s.at = "loop"
    /\ w.at = "end" =>
         \/ /\ up = <<ShotRequest("screenshot", "finished", 0)>> /\ down = <<>>
            /\ s.at \in {"serve", "loop"}
         \/ up = <<>> /\ s.at = "loop"

Dialogue ==
    WorkerUp /\ srv.at # "dead" =>
        Talks(worker, conn[Worker].up, conn[Worker].down, srv, shots)

(* No PC has a request for a picture to take or an offer of one to send,   *)
(* but one that the worker still waits for.                                *)
NoAsk(down) == \A k \in DOMAIN down : ~IsAsk(down[k])
NoOffer(up) == \A k \in DOMAIN up : ~IsOffer(up[k])
OneAsk(down) == \A j, k \in DOMAIN down : IsAsk(down[j]) /\ IsAsk(down[k]) => j = k

Waiting ==
    /\ worker.at = "answer" /\ srv.at = "loop"
    /\ conn[Worker].up = <<>> /\ conn[Worker].down = <<>>

OnePicture ==
    WorkerUp /\ srv.at # "dead" =>
        /\ \A c \in PCs : ~(Waiting /\ c = worker.asked) =>
                            NoAsk(conn[c].down) /\ NoOffer(conn[c].up)
        /\ Waiting => \/ NoOffer(conn[worker.asked].up) /\ OneAsk(conn[worker.asked].down)
                      \/ NoAsk(conn[worker.asked].down) /\ agt[worker.asked].shot > worker.since
        /\ worker.at = "answer" /\ srv.at = "image" =>
                srv.pc = worker.asked /\ agt[worker.asked].shot > worker.since

PageOK ==
    page.asked # 0 => IsImageOf(page.img, page.asked) /\ page.img[1].shot > page.since

IInv == TypeOK /\ NetOK /\ AgentsFit /\ WorkerFits /\ Dialogue /\ OnePicture /\ PageOK

ExchangeInv == "screenshot" \notin TimerUri => IInv

(* Whatever the PC and the worker do, leave or come late, the server comes *)
(* back to its loop from the dialogue: service of the others goes on.      *)
HandlerReturns == srv.at \in {"image", "offer", "serve"} ~> srv.at \in {"loop", "dead"}

(* A page whose PC has ended the exchange before, and has nothing else to  *)
(* read, comes to an end - the worker is free again -, if nobody leaves,   *)
(* the server need not give up waiting and no timer fires.                 *)
Asked ==
    /\ worker.at = "answer" /\ conn[Worker].up # <<>>
    /\ agt[worker.asked].at = "idle" /\ conn[worker.asked].down = <<>>

PageAnswered ==
    Asked ~> \/ worker.at = "idle" \/ late \/ ntimers > 0
             \/ \E c \in Conn : conn[c].link # "up"

(* README.md lists "ecafe_screenshot - Screenshots client system", and the *)
(* page of a PC shows its picture: <img :src="'/client/screenshot?id='+    *)
(* client.id">.                                                            *)
ShowsAskedPC == page.asked # 0 => IsImageOf(page.img, page.asked)
=============================================================================
