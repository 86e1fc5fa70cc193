# ECafe in TLA+

ECafe lets the owner of an internet café lock, unlock, message, time and power
off the PCs from a web page. This directory models the three programs that do
that and the sockets between them, checks small instances with TLC and proves
safety properties for instances of any size with TLAPS.

## 1. Inventory

Paths are relative to `src/`.

| Part | State it keeps | Operations | Where |
|---|---|---|---|
| **Server** (`ecafe_server/server.c`, `src/ecafe.c`, `src/ecafe_request.c`, `src/ecafe_response.c`, `src/command.c`) | list of clients, the array `client_array` of pointers into it, `nclients`, `last_id`, `s_connfd`, the `fd_set`s, per client `is_online`, `timer`, `timer_uri` | one thread in a `select()` loop: accept a controller, accept an agent, serve the controller, serve each ready agent, fire timers when `select()` reports nothing | `EcafeServer` |
| **Table of clients** (`src/client.c`) | the list, the array of pointers | add, get, getall, remove, is_client_timerset | `EcafeServer` (as a sequence) |
| **List library** (`libs/list.c`, `libs/iter.c`) | nodes in memory that is allocated and freed, `head`, `tail`, `size`, the node a walk stands on | push, pop, search, remove, reverse, destroy, iterate | `LinkedList` |
| **Agent** on each PC (`client/client.c`, `src/ecafe.c`, `src/ecafe_request.c`) | its socket, the state of the PC | connect, answer one request at a time, exit when a request cannot be handled | `EcafeAgent` |
| **Web worker** (`server/src/browser.c`, `pc.c`, `ecafe.c`) and **test program** (`ecafe_server/test_server.c`) | a Unix socket, the request it waits for | one request per page, one `read()` for its answer | `EcafeController` |
| **Message texts** (`libs/request.c`, `libs/response.c`, three copies) | tables of parameters, headers, keyvals and records | set, get, push, prepare, parse | `EcafeTexts`, `MessageTables`; in short form `EcafeMessages` |
| **Buffers** of the three programs' `read()`s and `write()`s | what a stream holds, what a read cuts off | read, parse, pass on | `EcafeRelay` |
| **Starting and finding each other** (`libs/sock_lib.c`, the beginnings of the three `main()`s) | the name of the Unix socket, the port, who listens, who is connected where | `Uxd_listen`, `tcp_listen`, `Uxd_connect`, `tcp_connect`, and being stopped at any time | `EcafeStartup` |
| **Sockets** (the kernel) | connections, queues, descriptors | accept, read, write, close, select | `EcafeNet` (external) |
| **Screenshot exchange** (`ecafe_response.c`, `ecafe_request.c`, `server/src/ecafe.c`) | a transfer in three stages | runs a dialogue of its own inside a handler of each program | `EcafeScreenshot` |
| Commands on the PC, static pages, browser application, string helpers | - | - | not modelled |

The controller sends a request to the server over the Unix socket; the server
answers `clientall`, `client` (refusals), `timer` itself and passes everything
else to the agent whose id the request names; the agent's answer is passed back
to `s_connfd`. A timer keeps a command that the server issues itself, later,
through the same handler with descriptor 0, and whose answer it keeps back.
Between the parts there is nothing but these messages: no sequence number, no
timeout, no acknowledgement. Inside the server the parts share globals (the
array, the active client, `s_connfd`).

What makes the behaviour hard:

* **stale values** - `s_connfd` after its connection was closed, pointers in
  `client_array` after a node was freed, `timer_uri` after the timer was;
* **matching answers to requests** without a number on either;
* **indices over a list that shrinks** while it is walked, several clients per
  round, `nready` counted down at each branch;
* **descriptors that are handed out again** at once;
* **peers that vanish** between `select()` and `write()`: lost writes, resets,
  `SIGPIPE`;
* **stream sockets**: a read returns several messages, the parsers take one;
* **timers that fire only when the loop is idle**;
* **buffers of different sizes** along one way: a text that one program passes on
  may be longer than the next one reads;
* **pointers of a list that is changed while it is walked**;
* **what an earlier server left**: a name in the file system, connections that
  hold the port, workers that never look whether their server still runs.

What makes each part correct: the server keeps its copies of the table in step,
asks `select()` about what is open, reads only what is ready, hangs up only on
peers that have gone, delivers a request to the PC it names, an answer to the
request it answers, and each timer's action once; agents that go are noticed;
ids are never used again; the list's pointers spell one sequence in both
directions; a text reads back as it was filled in, up to limits that are known;
a server that is started again is found again. `PROJECT.json` lists, line by line, where each of
these could fail (`hazards`).

## 2. The modules

| Module | Models | Actions |
|---|---|---|
| `EcafeMessages` | requests, responses, the two command tables, what the parsers make of a batch | - |
| `EcafeNet` | connections, backlog, descriptors, outcomes of a write | `Connect` |
| `EcafeServer` | the loop and its handlers | `Select`, `AcceptServer`, `AcceptClient`, `ServeWeb`, `ServeClient`, `EndRound`, `CheckTimeout`, `EndTimeout`, `TimePasses` |
| `EcafeAgent` | the agents | `AgentJoin`, `AgentExit`, `AgentRequest`, `AgentEof` |
| `EcafeController` | the programs on the Unix socket | `Start`, `Stop`, `Ask`, `Receive`, `ServerGone` |
| `Ecafe` | their composition, all properties | `Next` |
| `ClientTable` | abstract: what the server promises of the PCs it lists | `Join`, `Leave`, `Answer`, `SetTimer`, `Spoil`, `Expire`, `Issue` |
| `RemoteControl` | abstract: what the system promises of a request | `Ask`, `CarryOut`, `Refuse`, `Lose` |
| `EcafeRefinement` | the two refinement mappings, over `Ecafe` | - |
| `EcafeScreenshot` | the screenshot's dialogue in all three programs, over `EcafeNet` | server: `LoopWorker`, `LoopAgent`, `LoopEof`, `TimerFires`, `ImageRead`, `ImageEof`, `ImageSaved`, `Offer`, `Serve`, `ServeEnds`; agent: `AgentTakes`, `AgentTransfers`, `AgentFinishes`, `AgentLeaves`; worker: `Ask`, `WorkerAnswer`, `WorkerRead`, `WorkerSaves`, `WorkerShows`, `WorkerEof`, `WorkerStops` |
| `ItemList` | abstract: what the list library promises of each function | `PushFront`, `PushBack`, `PopFront`, `PopBack`, `RemoveAll`, `TurnRound`, `Clear`, `Find`, `GetAll` |
| `LinkedList` | `list.c`, `iter.c` and `client_getall`, node by node; the mapping to `ItemList` | `list_pushfront`, `list_pushback`, `list_popfront`, `list_popback`, `list_search`, `list_remove`, `list_reverse`, `list_destroy`, `client_getall`; the walks' steps `SearchStep`, `NotFound`, `RemoveStep`, `ReverseStep`, `DestroyStep`, `Renew`, `iter_next`, `WalkEnds` |
| `EcafeTexts` | the tables, and the texts that are written and parsed | - |
| `MessageTables` | programs that fill in tables, over `EcafeTexts` | `SetParam`, `SetHeader`, `PushRecord` |
| `EcafeBatches` | several messages in one read: `EcafeMessages` compared with `EcafeTexts` | `Arrive` |
| `EcafeRelay` | texts on their way through buffers of three programs | `page_pc_message`, `page_pc_index`, `WorkerAnswers`, `ServerReadsWorker`, `ServerReadsAgent`, `AgentReads` |
| `EcafeStartup` | starting, stopping and starting again | `Begin_Server`, `Unlink`, `BindPath`, `ListenPath`, `BindPort`, `ListenPort`, `Stop_Server`, `LingerEnds`, `AgentStarts`, `AgentSeesEof`, `WorkerStarts`, `WorkerStops` |
| `MCEcafe`, `MCEcafeTwo`, `MCEcafeLive`, `MCEcafeScreenshot`, `MCEcafeParts`, `MC*.cfg` | instances for TLC | - |
| `EcafeProofs` | facts about the operators of the server, the inductive invariant, theorems | - |
| `EcafeStartupProofs` | the inductive invariant of starting and stopping, theorems | - |
| `LinkedListProofs` | the same for the list, and that it implements `ItemList` | - |
| `MessageTablesProofs` | that the texts of requests and of responses read back: facts about the texts, inductive invariants and theorems | - |
| `EcafeTextsProofs` | that several requests, or responses, in one read are read as `EcafeMessages` says, and that `EcafeRelay` carries messages whole: facts about texts in a row, two inductive invariants and theorems | - |
| `EcafeRoutingProofs` | that the list of clients implements `ClientTable`, that no timer fires twice, and where requests and answers go: inductive invariants and theorems | - |
| `EcafeRequestProofs` | what the page of a session reads, and that the system implements `RemoteControl`: two inductive invariants and theorems | - |
| `EcafeScreenshotProofs` | the invariant of the screenshot's dialogue and theorems | - |

`Ecafe` composes server, agents, controllers and network. The modules below the
loops stand beside it: `LinkedList` shows that the sequence in `EcafeServer` is
what the pointers of `list.c` give, `EcafeBatches` that `request_parse` and
`response_parse` of `EcafeMessages` are what the parsers make of the texts,
`EcafeStartup` how the connections that `EcafeNet` begins with come about.
`MCEcafeParts` runs the other parts one beside the other in one run: a behaviour is
one of a single part, which the variable `part` names.

**Server.** `pc` says which branch of `main()` runs next; `Branch` is the chain
of `FD_ISSET` tests, `nready` is counted down as in the code, `i` is the loop's
index. A handler is an operator whose value is the set of its outcomes: the
connections afterwards, the list afterwards, and whether the process lives. A
dereference of `NULL` or a `SIGPIPE` sets `pc` to the reason, after which no
server action is enabled and the peers see an end of file. The list is a
sequence of records; `client_array` holds ids in place of pointers. The ghost
variables `armed` and `fired` count timers accepted and actions issued.

**Undefined behaviour.** A timer whose action is no command is allocated and
not filled in (`ecafe.c:219-240`): its times may lie ahead, in the past or never
come, and the model takes each.

**Network.** A connection is named by a number in the order of connecting, so
that a descriptor that is handed out again names a new one; `fdtab` is the
table. `link` is what the server's kernel knows of the peer: `up`, closed (`fin`),
reset and not reported (`rst`), reset and reported (`hup`). `WriteTo` gives what a
write does in each: taken, taken and lost, failed, `SIGPIPE`. A close with unread
data is a reset. The module is the environment's, modelled from how the server
uses it.

**Messages** are records with the fields the programs read. One `read()` takes
any number of the messages that wait; `request_parse` and `response_parse` give
what the parsers make of the batch: the request line of the first request, the
parameters of all, the last of those with the same name; the first response, and
records from later ones. The field `tag` names what caused a message and is read
by properties only.

**Agents** answer, or exit without an answer when a request is not in their
table or lacks a parameter. `executed` is a history of the commands whose handler
the agent ran; whether `loginctl` or another program that the handler starts did its
work is not modelled, and the agent does not look (only the result -1 of `system()`
counts as a failure).

**Controllers** make requests as the pages do, wait for one read, and may stop
at any time and come back.

**The list** is in `heap`, cells at addresses that `malloc()` gives and `free()`
takes back. A function without a loop is one action; one that walks takes a step
for each node it stands on, so that a walk over nodes it frees or turns is seen
half way. `list_remove` reads `node->next` after it freed the node. That is
undefined in C; the model takes what glibc does, which overwrites the first two
words of a freed cell, `data` and `prev`, and leaves the third. `nodes` and `at`
are ghosts, and `call` is a history: the function that the program called last, and
with which datum, so that an effect can be told from that of another function.
`list_remove` without a callback takes out the first match only, which the comment at
`list.c:333` calls a bug (finding `firstmatch`); `list_destroy` is followed by the `list_new` of
whoever needs a list again.

**Texts** are sequences of tokens, one for each byte that matters: delimiters, and
words of which only equality does. `EcafeTexts` keeps where the parsers look and
in which order, what the tables refuse when full, and what `snprintf` cuts off;
the three copies of `request.c` and `response.c` are the same but for a line
that only prints. `EcafeRelay` joins them: every stream is the text it holds, and a
read takes what is there up to the reader's buffer. `taken` is a history of what
`request_param_get` gave the agent's `ecafe_request_message` for "msg"; the text then goes
through a shell to `notify-send` (`system_linux.c:29-38`), which is left out. A line end in a
message may begin another `id`: of the PC that it names only the answer is modelled.

**Startup.** Each system call before the main loop is a step, and between any two of
them the process may be stopped; `path` and `port` are what the kernel keeps,
with the rules of Linux for `SO_REUSEADDR`. `met` is a ghost: the
servers that ran at the same time as another.

**Screenshots** are a module of their own beside `Ecafe`, which leaves their
request out. The dialogue blocks each program inside a handler: `srv`, `agt` and
`worker` say at which `read()` it stands and what it has read, so that a message
that comes early, late or together with another meets the handler that is really
running. Image data are items of their own on the connection, one for each
buffer's worth, named by PC, picture and place; what reads them by mistake, or
reads a text in their place, can be told. The module begins when the worker
(connection 1) and the PCs have connected; a client's id is the number of its
connection. The main loop is reduced to what it reads and writes, in any order,
which includes the order of the code; a timer fires only when no descriptor is
readable, and "lock" stands for every other command whose answer is kept back.
`page`, `since`, `shots` and `late` are histories that only properties read. Left
out: a second worker, PCs and workers that connect again, and the read that
fails once, after a reset, before the end of file.

## 3. Properties and runs

The runs are over `MCEcafe`, those with `shot` in their name over
`MCEcafeScreenshot`, and `parts`, `firstmatch` and `twolines` over `MCEcafeParts`.
`routing` is over `MCEcafeTwo`, which runs the batches of `EcafeBatches` beside the
three programs, and `liveness` over `MCEcafeLive`, which puts two small instances of
the fair programs into one run. All are exhaustive within their bounds.

| Run | Instance | Properties |
|---|---|---|
| `routing` | 2 PCs and 2 controllers at once (both symmetric), 3 connections, 2 requests: lock, unlock to ids 1, 2; batches: 5 requests or 3 responses, up to 4 in one read, tables of room for 10 parameters | `TypeOK`, `IInv`, `RoutingInv`, `ArrayMirrorsList`, `IdsInJoinOrder`, `SelectNeverFails`, `RequestsReachAddressee`, `OfflineMeansLocked`, `ReadsNeverBlock`, `PeersCloseFirst`, `LeavesOnlyAtEof`, `PagesTellTheTruth`, `ImplementsControl`; `RequestsAgree`, `ResponsesAgree` |
| `commands` | 1 PC, 1 controller, 2 connections, 3 requests of every kind, timers with four actions, one no command | `AnswerIsForRequest`, `TimerFiresOnce`, `ImplementsTable` |
| `liveness` | 1 controller; fair. Either 1 PC, 2 connections, 2 requests: lock, timer; or 2 PCs, 3 connections, 1 request: lock | `AnswerArrives`, `TimerExpires`, `DeadAgentsLeave` |
| `shots` | 2 PCs, 1 worker, 2 pages, images of 1 or 2 reads, 1 timer with lock, fair | `ExchangeInv`, `PageShowsItsPC`, `BytesOnlyToReaders`, `ReadsToTheEnd`, `WorkerSurvives`, `HandlerReturns`, `PageAnswered` |
| `parts` | list: 3 addresses, 2 data; tables: room for 3, 3 keys, 2 values, 4 writes, 12 sizes of buffer; relay: buffers of 16, 15 and 100, 12 messages, two of them with a parameter in their second line, 2 pages that send one, up to 4 clients; startup: 3 servers, 1 agent, 1 worker; fair | `Linked`, `ArrayHasRoom`, `WalksEnd`, `ImplementsItems`; `RequestReadsBack`, `ResponseReadsBack`; `MessagesArriveWhole`, `MessagesAreOnlyCut`, `IndexShowsClients`, `AnswerIsUnderWay`; `LoneServerServes`, `NewWorkersReachServer` |
| `webdata`, `keptback`, `notification`, `reports`, `shotpc` | findings, see below | one each, violated |
| `firstmatch`, `twolines` | findings over `MCEcafeParts`: the list and the relay of `parts`, `twolines` with one message of two lines and larger buffers | one each, violated |

What they show, in the words of the code:

* the array that every loop indexes names exactly the clients of the list, also
  in the middle of a round in which clients leave (`ArrayMirrorsList`);
* `select()` never gets a closed descriptor, so it never fails, whatever
  `s_connfd` has become (`SelectNeverFails`), and only peers that have gone are
  hung up on (`PeersCloseFirst`);
* a request is in flight to, and carried out by, only the PC that has the id it
  names (`RequestsReachAddressee`), and a client shown as offline did carry out a
  lock (`OfflineMeansLocked`), also when several clients are served per round;
* a client leaves the list only when its own agent has closed and all its
  answers were read (`LeavesOnlyAtEof`), and every agent that has gone does
  leave (`DeadAgentsLeave`);
* within one session and as long as no timer has fired, the answer that waits
  for a controller is the one to its request (`AnswerIsForRequest`);
* each timer's action is issued at most once (`TimerFiresOnce`) and is issued in
  the end (`TimerExpires`);
* the list, with the descriptors, flags and pointers around it, is a table in
  which a PC joins under a number of its own and has one timer at most, which is
  set, falls due, is issued and is answered in this order, with the action it was
  set for (`ImplementsTable`), although the code keeps no such state and tells the
  stages apart by two fields;
* a request is carried out at most once, and never after it was answered, and its
  answer is not multiplied, with two controllers and also after their connections
  were closed and `s_connfd` is stale (`ImplementsControl`);
* within one session and as long as no timer has fired and the server runs, the
  page says "success" exactly when the PC has carried the command out
  (`PagesTellTheTruth`);
* the page shows one whole picture of the PC it asked for, taken after it asked,
  although server and worker write the same file and either may have given up on
  the picture before (`PageShowsItsPC`);
* image data never meet a program that expects a text, nor the reverse
  (`BytesOnlyToReaders`), and the loops that compare with the exact size are
  never carried past it (`ReadsToTheEnd`);
* nothing the server sends kills the worker, which reads a missing stage as a
  string (`WorkerSurvives`);
* the server always comes back from the dialogue, whoever leaves or is late
  (`HandlerReturns`), and a page that finds its PC at rest is answered
  (`PageAnswered`).

Of the parts:

* the pointers of the list spell the allocated nodes in both directions, also in
  the middle of a removal that walks on from a node it has freed and of a reversal
  that has turned half of them (`Linked`); the array of `client_getall` has room for
  what the walk writes (`ArrayHasRoom`); walks end (`WalksEnd`), and each function that
  is called does to the items what `list.h` says of this function (`ImplementsItems`),
  except `list_remove` without a callback, of which the property says what it does: it
  takes out the first match only (`RemoveFirstOnly`, finding `firstmatch`);
* the text of a request, if it is shorter than the buffer, is read as that request,
  values may hold delimiters, and while there is room a lookup returns what was set
  last (`RequestReadsBack`); of a response the reader finds whole records in
  their order, for any size of the buffer, and all of them if the text fits
  (`ResponseReadsBack`). A table of
  parameters holds one entry less than its size, a record that is full has keys
  that `response_keyval_get` does not find, and a text that is cut just behind a
  record is not an error: the last records are missing and the reader cannot tell;
* `EcafeMessages` is right about reads of several messages (`RequestsAgree`,
  `ResponsesAgree`), with the tables' real sizes;
* a message of one line that fits the agent's buffer comes to the agent's handler as it
  was written and the page is told so (`MessagesArriveWhole`); as long as messages are of
  one line, the handler gets the beginning of each in turn and no other text, however
  long they are (`MessagesAreOnlyCut`). Both end at the handler, not on the screen. A page that waits has its
  request or its answer on exactly one of the streams (`AnswerIsUnderWay`); the index
  lists the first clients, whole (`IndexShowsClients`). A message of several lines
  loses all but the first, and a further one of the form `msg=...` takes the place of the
  first (finding `twolines`). The server passes on 1024 bytes and the agent reads
  1023: the byte that is too many is read as a request of its own and ends the
  agent, after the page was told of success;
* a server that is started alone gets to its loop, whatever an earlier one left
  and wherever that was stopped (`LoneServerServes`), and as long as nobody starts a
  second beside it, the name leads to it and connected agents are with it
  (`NewWorkersReachServer`). A server that is started beside another takes the
  Unix socket's name from it and then ends at the port: no worker that starts
  later finds the one that still runs.

**Conditions in properties.** Some of the above fail in the code in states that
the model has, and are stated for the rest:

* `~WebClosed`: once a controller's connection was closed, `s_connfd` may name a
  PC (finding `webdata`). Then requests, states and reads can all go wrong. The
  runs contain these states; the properties that hold regardless are
  `ArrayMirrorsList`, `IdsInJoinOrder`, `SelectNeverFails`, `PeersCloseFirst`,
  `TimerFiresOnce`, `ImplementsTable`, `ImplementsControl`.
* `OneSession`, `fired = 0`: with an earlier session or a fired timer an answer
  may be that to an older request (finding `keptback`); with a second controller,
  the first one's connection stays readable for ever and `select()` never
  reports nothing again, so that no timer fires.
* `Carried`: a message of one line that the agent's buffer holds. Of one that is longer,
  `MessagesAreOnlyCut` is promised.
* `PlainLine`: one line without a word that a request begins with ("GET ", "POST "...);
  such a word behind the cut of a long message would begin a request of its own.
  Nothing is promised of messages of several lines: the parsers take each line for a
  parameter (finding `twolines`).
* `RemoveFirstOnly`: `ImplementsItems` names the one step that is not `ItemList`'s.
* `s \notin met`: a server that ran beside another is not found, see above.
* `~Running`: the process has died. Ids that are not in the list, and `clientall`
  between a timer's firing and its answer, dereference `NULL`.
* `"screenshot" \notin TimerUri`: a timer may take a screenshot that no page
  asked for (finding `shotpc`).
* `PageAnswered` is stated for a PC that has read the "finished" of the exchange
  before: if the next request comes first, the agent reads both at once, takes
  the first and the page waits. It excludes timers, which may meet the agent in
  the middle of an exchange and end it, a wait of two seconds that ends, and
  peers that leave.

**Bounds.** `MaxConn` bounds connections ever made, `MaxReq` requests ever made;
both are guards of `Connect` and `Ask`. Three connections let a PC leave and
another peer get its descriptor while a third is served; four (`webdata`) let a
controller leave, a PC take its descriptor, the PC leave and another come. Two requests
give an answer that overtakes, a batch of two, a request in flight when a timer
fires; three give timer, expiry, timer again. Two PCs give two ready clients in
one round, which is where the index and the active client matter. Two pages
let a late stage of the first meet the second, and images of two reads can
arrive in part; `MaxTimers` bounds the timers set, one of which can strike in
each stage. Descriptors are never the limit: there is one for each connection.

Of the parts: three nodes give a first, a middle and a last one, and two data a
match beside what does not match; three addresses have the fourth push wait for
memory and let freed cells be used again. The tables' limits are 3 where the code
has 10 and 20, `MaxSet` lets one be written to once more than it holds, and
`TextSize` has a size for every place where a text can be cut. In the relay 16, 15
and 100 stand for 1024, 1023 (`MAXLINE - 1`) and 10240: what matters is that the
second is one less than the first, that messages of every length around both are
sent, and that the third holds every text. `MaxAsk` is two, so that what is left of
a long message meets the next. Three servers, each started once, give one that
left something behind, one that runs and one that is started beside it.

In `liveness` the instances are told apart when joining, starting and asking, of
which nothing fair is assumed; in the one with two PCs each peer connects once, and
the first PC to join is `m1`, as the PCs are interchangeable.

**Symmetry** is used in `routing` only, over the PCs and over the controllers; no
action names one, and that run has no liveness property.

**Fairness** (`Spec`) is weak fairness of the server's loop, of each agent's
loop and of time: each is a `while (1)` around a system call that returns when
there is something to return, and a branch that is enabled stays so until it is
taken. Nothing is assumed of controllers, of joins or of exits, nor of which of
several results a read or write has. Of the parts, a function that walks the list goes on, a
server that starts makes its next call, and an agent sees the end of its
connection: nothing there waits for anyone. The properties of the other parts need no
fairness. In `EcafeScreenshot` it is the same of
`Server`, each `AgentStep` and `WorkerStep`, the worker being blocked in `read()`
inside a page; nothing is assumed of asking, stopping, leaving and timers.

**Deadlock** is not checked: the system rests when every peer waits, and the
server process may die; each of the parts, and a read of several messages, stops at its bounds.

### Findings

* `webdata`: `server.c:121` says "Requests from server" of data that may come
  from a PC: `s_connfd` keeps its number after `close`.
* `keptback`: `ecafe.c:88` says that the response kept back is the answer to a
  timer's action; it is the client's next response, whatever it answers.
* `reports`: `server/src/pc.c:94` has the page say "pc locked successfully" unless
  `ecafe_lock` returns -1; the end of the server gives -2 (`server/src/ecafe.c:248`),
  so that a page whose PC has left, which ends the server, reports success.
* `notification`: `README.md:22` offers `ecafe_notification`; the server's
  command table has no such row, the request is dropped without an answer and
  the page waits for ever.
* `shotpc`: `README.md:21` lists screenshots and `ecafe-fe/src/components/PcBlock.vue:4` shows that of a
  client's id; `ecafe_response.c:315` offers every image that came, also one that
  a timer caused, to the worker, which takes it for the picture of the PC it has
  just asked for.
* `firstmatch`: `list.h:166` says that `list_remove` "Deletes all the list node and user
  data that matches given needle". Without a callback it removes one node and returns
  (`list.c:335-345`); `list.c:333` marks it "TODO: BUG". `NoMatchIsLeft` says what
  `list.h` does, and is violated by a list with two equal items. The program's one call
  (`client.c:65`) passes a callback and is not concerned.
* `twolines`: `server/src/pc.c:141` has the page say "message sent successfully".
  `request_prepare` writes a value as it is (`server/src/request.c:433`), so that the
  second line of the message "x", "msg=y" is a parameter of its own to the parsers of
  server and agent, `request_param_set` lets the last `msg` win, and "y" is what the agent
  takes while the page reports success. A line "id=2" sends the message to another PC in
  the same way; the run `parts` has it among its messages.

## 4. Proofs

`EcafeProofs` proves, for every set of PCs and controllers and every `MaxConn`
and `MaxReq`:

| Theorem | States |
|---|---|
| `Invariance` | `Safe => []IInv` |
| `TypeCorrect` | `Safe => []TypeOK` |
| `ArrayIsList` | `Safe => []ArrayMirrorsList` |
| `IdsAreUnique` | `Safe => []IdsInJoinOrder` |
| `SelectSound` | `Safe => []SelectNeverFails` |
| `NoLivePeerDropped` | `Safe => []PeersCloseFirst` |

`LinkedListProofs` proves, for every set of addresses and data:

| Theorem | States |
|---|---|
| `ListInvariance` | `ListSafe => []ListInv` |
| `PointersSpellTheList` | `ListSafe => []Linked` |
| `ArrayIsLargeEnough` | `ListSafe => []ArrayHasRoom` |
| `ItemsAreImplemented` | `ListSafe => ImplementsItems` |

`MessageTablesProofs` proves, for every set of keys and values that the assumptions
allow, any number of writes and any size of the tables and buffers:

| Theorem | States |
|---|---|
| `TableInvariance` | `TableSafe => []TableInv` |
| `RequestsAreReadBack` | `TableSafe => []RequestReadsBack` |
| `ResponseInvariance` | `TableSafe => []ResponseInv` |
| `ResponsesAreReadBack` | `TableSafe => []ResponseReadsBack` |

`EcafeTextsProofs` proves, for every set of messages, any number of them in one
read and any table with room for the parameters there are, and for the relay for any
messages that pages send, any list of clients and any sizes of the buffers that
`BufAssumption` allows:

| Theorem | States |
|---|---|
| `BatchInvariance` | `BatchSafe => []BatchInv` |
| `RequestsOfABatchAgree` | `BatchSafe => []RequestsAgree` |
| `ResponsesOfABatchAgree` | `BatchSafe => []ResponsesAgree` |
| `RelayInvariance` | `RelaySafe => []RelayInv` |
| `MessagesAreCarried` | `RelaySafe => []MessagesArriveWhole` |
| `AnswersAreUnderWay` | `RelaySafe => []AnswerIsUnderWay` |

`EcafeStartupProofs` proves, for every set of servers, agents and workers:

| Theorem | States |
|---|---|
| `StartInvariance` | `StartSafe => []StartInv` |
| `OneServerServes` | `StartSafe => []NewWorkersReachServer` |

`EcafeRoutingProofs` proves, with the same constants:

| Theorem | States |
|---|---|
| `TableIsImplemented` | `Safe => ImplementsTable` |
| `NoTimerFiresTwice` | `Safe => []TimerFiresOnce` |
| `RoutingInvariance` | `Safe => []RoutingInv` |
| `RequestsReachTheirPC` | `Safe => []RequestsReachAddressee` |
| `OfflineIsLocked` | `Safe => []OfflineMeansLocked` |
| `LoopNeverBlocks` | `Safe => []ReadsNeverBlock` |
| `OnlyTheGoneLeave` | `Safe => LeavesOnlyAtEof` |

`EcafeRequestProofs` proves, with the same constants:

| Theorem | States |
|---|---|
| `SessionInvariance` | `Safe => []SessionInv` |
| `AnswersMatch` | `Safe => []AnswerIsForRequest` |
| `PagesAreTruthful` | `Safe => PagesTellTheTruth`, if pages ask neither for "timer" nor for "clientall" |
| `ControlInvariance` | `Safe => []ControlInv` |
| `ControlIsImplemented` | `Safe => ImplementsControl` |

`EcafeScreenshotProofs` proves, for any number of PCs, pages and timers and any
set of sizes of an image:

| Theorem | States |
|---|---|
| `ExchangeKept` | `Spec => []ExchangeInv` |
| `PageKept` | `Spec => []PageShowsItsPC` |
| `BytesKept` | `Spec => []BytesOnlyToReaders`, if no timer takes screenshots |
| `ReadsKept` | `Spec => []ReadsToTheEnd`, if no timer takes screenshots |
| `WorkerKept` | `Spec => []WorkerSurvives`, if no timer takes screenshots |

**Assumptions** are those of the constants: PCs and controllers are different
(`PeersAssumption`), the bounds are natural numbers (`MaxConnAssumption`,
`MaxReqAssumption`), the pages ask for known commands (`PageAssumption`), `NULL` is
no address (`NullAssumption`) and "nobody" no server (`NobodyAssumption`); for the
screenshots, that an image is never empty, the worker is connected and timers
have one of the two actions modelled (`ScreenshotAssumption`); for the texts, that
the delimiters and the words of the programs are tokens (`TokenAssumption`,
`WordAssumption`, `BatchWordAssumption`), a key is trimmed and holds neither
delimiter nor line feed (`KeyAssumption`: the programs' keys are identifiers in
their source), a value is one line (`ValueAssumption`: a line feed in a value does
begin a line of its own), no key is "content-type" (`NoBinaryBody`), and that a table
has an entry (`TableAssumption`); and for several messages in one read that the
tables have room for the parameters there are (`RoomAssumption`; the code's have
`REQ_MAX_PARAM_LEN`), and that they are messages of the programs (`BatchAssumption`);
for the relay, that messages and the clients' details are texts (`PayloadAssumption`,
`DetailsAssumption`), the words of its requests are tokens (`RelayWordAssumption`),
and that the agent's buffer is no larger than the server's, which has room for the
13 tokens of an answer without records and is smaller than those that texts are written
into (`BufAssumption`: 1023, 1024 and 10240 in the code). The relay's theorems share
`RoomAssumption` with those on several messages; its proof uses that a table has room for
two parameters, which the smaller table of the run `parts` has as well.

**The invariant of the server.** None of the five properties is inductive alone:

* `accept()` must have a connection to return and a descriptor to return it
  under, or the new client's record has no type. The first needs `LoopOK`: what
  `select()` found is still there at the branch (backlogs only grow until the
  branch that serves them). The second is a pigeonhole argument
  (`FreeDescriptor`) from `DescriptorsOK`: as many descriptors as connections,
  each used for a different open one, and the connection that waits has none.
* Serving the controller reads `fdtab[s_connfd]`, which must be open:
  `LoopOK` says that `s_connfd` is in `rset`, `rset` within `allset`, and
  `SelectNeverFails` that `allset` is what is open. That is why the stale
  `s_connfd` does no harm *here*.
* An end of file closes `client_get(client_array[i])`. That the array mirrors
  the list and the ids ascend (`ClientGetIsUnique`) makes it the `i`-th client,
  so that removing it keeps both (`RemoveKeeps`).
* That only peers that have gone are hung up on needs that no handler brings a
  peer back.

**The argument.** `EcafeProofs` first shows of every handler, outcome by outcome, that
it is *sound*: connections keep their peers and ends, the list keeps who is in
it and on which descriptor (`Sound`, `RequestSound`, `ResponseSound`).
It turns that into frame lemmas (`ConnFrame`, `ListFrame`,
`HandledKeeps`, `Accepted`, `ClosedKeeps`), one lemma per action, and
`Invariance`.

**The refinement.** A list in the order of the ids is a function from ids
(`TableSays`, from `ClientGetIsUnique`), so that a step of the server is a step of
the table in one of four ways: the list is left alone (`ListAlone`), grows
(`JoinStep`), loses a client (`LeaveStep`) or has one client changed (`OneEntry`,
`EntryStep`). Of the handlers of requests only that of "timer" changes a client,
and only one that has neither timer nor action (`RequestChanges`, `GivenStep`); a
response changes the client it came from (`ResponseChanges`, `AnswerStep`). The
two fields `timer` and `timer_uri` tell the five stages of a timer apart because
no handler clears the action before the timer. `IInv` of both states of a step is
what the argument rests on, and `Invariance` gives it.

**Routing.** That a request reaches the PC it names is a chain: the page's id is
that of an entry of the list (`client_get`), the entry's descriptor is that of the
connection its PC joined on (`Registered`), that connection has that id from its
acceptance on (`NumbersOK`), so what is written to it is `Addressed`, and so is
what the agent's parser makes of any number of requests it reads at once. The
answers' way back is shorter: an answer to a lock is in flight only where one was
carried out (`LockAnswers`), and what it changes is the client that it was read
from. `StillReadable` is what a round rests on: between `select()` and the branch
that serves a descriptor peers only add to it, and no other branch reads it; for
`s_connfd` that needs that it is no PC's (`OwnSocket`). All of this is lost once a
controller's connection was closed (finding `webdata`), hence `~WebClosed`, except
`NumbersOK` and `LockAnswers`, which hold regardless. `RoutingInv` joins the six;
writes are dealt with once (`WriteCarries`), then each branch.

**A session.** `AnswerIsForRequest` and `PagesTellTheTruth` speak of one session of
one controller before a timer fires (`Undisturbed`). Neither is inductive: what a
page reads depends on what server and agents still have to read. `SessionInv`
says of all queues together that

* there is one message at most that a page caused, a request or the answer to one
  (`OnePage`); the others are the `getdetails` of PCs that join, and their answers;
* it is about the latest request, and unless the server itself answers, it is an
  answer of success exactly if an agent has carried the request out (`EachFits`);
* a controller that waits for nothing has nothing to read, and while the server
  runs nothing that a page caused is on its way anywhere;
* a controller that runs is at the end of its own connection (`WebsConnected`; this
  holds in every state).

A read takes the page's message away, if it is in that queue (`TakePages`), and a
handler sends at most one because of it, to one peer (`RequestMoves`,
`ResponseMoves`, `ReadAndSent`), so that their number never grows; a request is only
made when there is none. `SessionFrame` deals with the steps that move no message.
`IInv` and `RoutingInv` of the state before are used for who reads from whom. The
condition of `PagesAreTruthful` is that of the run `routing`: "timer" and
"clientall" are answered by the server with success, and no PC carries them out,
so that the equivalence is not what the code promises of them.

**Requests.** `ImplementsControl` speaks of every request, with any number of
controllers, also when descriptors are stale. That a request never goes back a
stage is not visible in one queue: the message about it might be in another one as
well. `ControlInv` therefore says, for each number, that over all queues there is
one message about it at most (`Single`), none and no trace before the request is
made, and that nobody has carried it out while a message asks for it. A read takes
the one message out of its queue, if it is the one the parser goes by
(`TagTaken`); a handler then sends at most one with its number (`TakenAndSent`);
requests that a read merged behind the first are lost. So each step, seen from one
request, leaves less about it or turns the one message into one message of the
same or a later kind (`ServerAlters`, `AgentFollows`, `WebFollows`), which keeps
`Traced` and is one of `RemoteControl`'s steps for that request (`FollowsKeeps`,
`AskProceeds`). As `ControlNext` moves all requests at once, that is enough for the
refinement. It needs of `IInv` only the types and who waits on which connection,
and nothing about where a message goes: unlike routing it survives `WebClosed`.

**Timers.** `TimerFiresOnce` is inductive with `IInv`: the positions whose timer has
yet to fire are counted before and after a client is set (`PendingSet`), removed
(`PendingRemoved`, by an injection of positions) or appended (`PendingAppended`). A
timer without a command never becomes one with a command, since `ecafe_timer`
refuses a client that has a timer, and an answer can take an action away and
gives none.

**The list.** `Linked` is inductive with the types and with `ArrayFollows`: while
`client_getall` walks, the array holds as much as the walk has passed, from which
`ArrayHasRoom` follows. That the walk of `list_remove` may go on from a freed node
needs that the node's third word still points to what is now at its place. Lemmas
about sequences (a node removed, a sequence reversed, an end taken off) say
what becomes of `NodeAt`; each action has a lemma, and under it a case for each of
the neighbours a pointer write touches.

`ImplementsItems` follows with `ListInv` and nothing stronger: each call is the step
of `ItemList` it is named for (`call` has to agree), seen as a whole from the moment it
begins, and each step of a walk changes neither `Outcome` nor `Result` (`SameItems`). The
exception is `list_remove` without a callback, for which `ItemList` has no step: the
property lets it take out the first match, `RemoveFirstOnly`, and no more. A step takes the first item
from those ahead and moves it behind, copies it or drops it; so what has to be
known of a walk is what it makes of a first item and the others (`UnmatchedFirst`,
`RemoveFirstFirst`) and of none. `Unmatched` is a fold over a sequence of any
length. The library's induction theorems cannot be used here, but that `<` is
well-founded can: a set of numbers has a least one (`LeastNat`), so what passes
from each number to the next holds up to any (`UpTo`); with that the function
behind the fold exists for every length (`UnfoldExists`), and the fold is what one
gets item by item (`UnmatchedSteps`).

**A request's text.** `RequestReadsBack` is about folds over texts of any length, so
each fold is first shown to be what its step does, one element after the other
(`LinesAre`, `FlattenAre`, `KeptAre`, `ExtractAre`), from one lemma: the function by
recursion over sets of positions that the folds of the community modules choose
exists (`RecursionExists`), again by the well-foundedness of `<`. On that rest

* what the text is made of: a piece `Splits` if, whatever comes after it, its lines
  are known and what comes after begins a new one. A table's text splits into one
  line for each entry (`SpelledLines`), and so the whole text into the first line,
  the headers, an empty line and the parameters (`RequestLines`);
* where the reader cuts: no header's line is empty, so the first empty line is the
  one written behind them (`LinesOfMessage`);
* what one line says: a key holds neither delimiter, so the first one in its line is
  the one that was written, and `str_trim` takes away the blank that was added and
  nothing else (`LineSaysEntry`);
* that no line is lost or moved: keys are different and there are less than
  `MaxParam` of them, so `PutLast` appends each (`TableReadsBack`).

These need of a table that it is `Good`, which is a part of `TableInv`. The other part
says that the keys in a table are among those that were set, and are all there with
their last value while there is room (`HasRoom`). That is inductive because the keys
are different: if there is room for a key more, the table without that key has
less entries than keys were set, so the table is not full (`KeysCount`, `TableStep`);
and once a key was refused there is never room again.

**What the reader makes of a response.** Here the text may be cut: `response_prepare`
gives back the last line feed of a record before it looks for room, and tests for an
error only afterwards. The argument has three parts.

* *The whole text* (`WholeRun`, `WholeText`): status and header (`Opening`), and a block
  of lines for each record, which ends in an empty line. Of it `Wholly` says where
  each block begins.
* *What is written* (`Prepared`): the whole text, if that fits the buffer; otherwise
  as much of it as fits, up to two tokens; or, if a record's end falls on the end of
  the buffer, all of it up to there and a last token that is wrong (`Spoiled`). The
  induction goes over the records (`RecordsWritten`): `OneMoreWritten` says that the
  five cases of `Sofar` lead to one another. `response_prepare` is an error only if
  the text does not fit (`WholeIsPrepared`).
* *What is read*: the parsers' functions are first shown to satisfy their equations
  (`ChainExists`, `KeyvalsAre`, `RecordsAre`, `HeadersAre`), which the provers do not have
  of a recursive function. Each text that is written says some records whole, and
  behind them nothing, the empty line, or a part of a record that the parser
  refuses (`UpToRecord`, `CutIsUpTo`, `SpoiledIsUpTo`); and of such a text the parser
  returns these records or gives up (`UpToRecordIsRead`).

`ResponseInv` says that status and header stay and that the records are the first of
those that were to be told, each with its first keyvals. That keys are found
needs that those of a record differ.

**Several messages in one read.** What a buffer with several requests is parsed to
is what the model of the loops takes for granted (`request_parse` of `EcafeMessages`).
Each text splits into its first line, an empty one and a line for each parameter
(`TextFacts`), texts in a row split into the lines of each (`SplitsInARow`), and what
`request_parse` does with lines in a row is what it does with the first and then
with the others (`Reads`, `ReadsInARow`). A first line or an empty one leaves the table
alone (`ReadsNoEq`), and the lines of a table put each entry in the place of an earlier
one of its key (`ReadsTable`), for which there is room since the keys are five. The
induction over the requests (`BatchTexts`) then has as its hypothesis that the table
holds of each parameter what was told last (`Told`).

Of several responses the parser reads less than there is. Each text begins with
status and header and has a record behind them or none (`Spoken`, `ResponseTextIs`).
The induction (`SpokeAll`) says three things of all of them in a row (`Spoke`): they
begin as the first does; they have no `=` if no response has a record; and otherwise
the first `=` is in a record that ends in an empty line, which is where
`response_parse` stops (`RecordAt`). So if there is a record it is found, with the
texts in front of it in its key (`RecordIsFound`); if there is none, the parser is at
the end behind the header of a single response, and fails on what follows it in a
longer batch (`NoRecordIsFound`).

**The relay.** `MessagesArriveWhole` is not inductive: that the page may believe in
success needs to know what is on the streams. `RelayInv` says that while every message
asked for can be carried, nobody has ended and the system is in one of four phases:
nothing is on its way and all that was asked for was taken (`IdlePhase`); one message
more than was taken is on its way to the server or to the agent (`AskPhase`); the answer
is on its way back (`DonePhase`); or the list is asked for or listed (`IndexPhase`). It
names the very text that the stream holds, and the other streams are empty. A step
then needs of the text that the reader's buffer holds all of it (`WholeDrained`), that it
is read as it was written, with "1" for its "id" so that the server finds the agent, and
that writing it again, as the server does, gives the
same text: `AskFacts` for a message (from `ReadsBack`, and since `str_trim` was applied
before, `AskTrims`), `DoneFacts` for the answer (`PlainResponse`, `PlainIsRead`),
`IndexFacts` and `ListFacts` for the list, of which nothing is needed but that its text
is neither empty nor longer than the worker's buffer. That a message can be carried is
about the text that the worker writes; a message asked for later does not make an
earlier one shorter, so that nothing has to be known of the time after one was too
long (`AskedGrows`).

**Startup.** `NewWorkersReachServer` needs that who serves holds the port
(`PortIsServers`), that agents are only ever with servers that served
(`AgentsWereServed`), that two servers alive at once have both met (`AllMet`),
and that one which has met nobody keeps the name from `bind()` on (`NameIsKept`).

**Screenshots.** `IInv` of `EcafeScreenshot` is a statement about who waits for
what; `ExchangeInv` is the same where no timer takes screenshots. None of its
parts is inductive alone:

* `AgentsFit`: what an agent has sent and not yet seen read is what its stage
  says: nothing but answers to locks while it rests, the offer of an image as the
  last thing after it was taken, and after it was sent exactly the rest of it,
  which with what the server has read makes the image (`UpFits`). Of the texts on
  their way to it at most one is a late stage, and that of the exchange it is in
  (`DownFits`); without that an agent could send an image twice.
* `WorkerFits` and `Dialogue`: the same between server and worker. What the worker
  has read and what is on its way to it make one image of the PC it asked for,
  taken after it asked (`Got`, `Arriving`), and each of the worker's stages meets
  one of a few of the server's (`Talks`).
* `OnePicture`: no PC has a request for an image to take, or an offer of one to
  send, unless the worker still waits for it. A worker that asks is why a request
  is written, the server forgets it only by offering what came of it, and the
  server serves nobody else in between. Hence an image that
  comes was asked for by the page that waits now, and not by an earlier one: it is
  newer than the page (`agt[c].shot > worker.since`).
* `NetOK`: what is written to a peer that has gone is dropped, so that an exchange
  that was broken off leaves nothing for the next one.
* `PageOK` is `PageShowsItsPC` without its condition.

There is one lemma for each action (`...Keeps`), under each a step for each of the
parts, and lemmas about what the step does to one connection (`Alters`) and to its
queue. `BytesOnlyToReaders` and `ReadsToTheEnd` follow from `AgentsFit` and
`WorkerFits` (`BytesOfInvariant`, `ReadsOfInvariant`). The condition on timers is
needed: with a timer that takes screenshots the server offers the worker an
image that no page asked for (finding `shotpc`), and with two such timers, three
pages and images of one and three reads TLC finds each of `BytesOnlyToReaders`,
`ReadsToTheEnd` and `WorkerSurvives` violated. `Dialogue` and `OnePicture` say
nothing once the worker has stopped or the server has died, since then nobody goes on.

**Only model-checked**: `MessagesAreOnlyCut` and `IndexShowsClients` of `EcafeRelay`;
liveness and anything that needs `ENABLED`, which TLAPS does not do. The first is checked
for the messages that its run names, of which those of one line count; a proof would have
to follow what is left behind every cut. The second is checked for the clients' details of
its run: with line ends and delimiters in arbitrary places it is not true, and the code
excludes none, so a theorem would need an assumption that the code does not justify. `ListTypeOK`, as a part of `ListInv`,
`TableInv`, `ResponseInv`, `BatchInv`, `RelayInv`, `SessionInv` and `ControlInv` are
proved and are in no run.

## 5. Not modelled, and why

* **A text that arrives in parts**: texts are written with one call and far below a
  segment; a read gives all of them or what the buffer holds.
* **Buffers' last byte**: `buf[nbytes] = 0` after a read of 1024 bytes writes one
  byte behind the server's array. No step depends on it.
* **Binary bodies** in `request.c` and `response.c`: no program sets the header
  "content-type" that announces one; the screenshot sends its image by itself, and is
  modelled so.
* **Callers that hold `inet_ip`'s static buffer** (`server.c:170`): what a page shows
  as a PC's address; so for hostname and uptime. No step depends on them.
* **Failures of `malloc`**: nothing tests for them.
* **What the shell makes of a message**: `system_linux_notify` puts the text between
  quotes in a command, unescaped, and the comment at `system_linux.c:33` says that bash
  "will get confused" by quotes within. The properties about messages end at
  `ecafe_request_message`, which has the text; that the PC shows it is not claimed. The
  handler takes every result of `system()` but -1 for success, and so does the model.
* **Another PC's handling of a message** that names it in a second line: only its answer
  to the server is in `EcafeRelay`.
* **Dumps, JSON of the pages, string and validation helpers, commands on the PC**
  (`system_linux.c`), **static pages, the browser application**: no state that the
  rest reads. The **daemon helpers** of `sock_lib.c` are not called.
* **`sqlite3.h`**, half of the repository's lines of C, is a vendored header that
  nothing here uses.

Of the hazards in `PROJECT.json` four have no property: that timers starve while an
overwritten controller stays readable and that `clientall` dereferences a fired
timer are behaviours of the model, about which the repository promises
nothing; the static buffer and the shell on the PC are not modelled.

## 6. What is left

1. `EcafeScreenshot` with two workers, and with workers and PCs that connect again.
2. A proof that the index shows the clients (`IndexShowsClients`) while every message
   can be carried, for details without delimiters that fit a response: `ListFacts` says
   nothing yet of what the list's text holds.
