------------------------------- MODULE EcafeNet -------------------------------
(***************************************************************************)
(* The sockets that the server holds, as the kernel keeps them for it: TCP *)
(* connections from the agents on the PCs, Unix-domain connections from    *)
(* the controllers (the web worker, the test program), the table of file   *)
(* descriptors, and what a write to each connection does.                  *)
(*                                                                         *)
(* A connection is named by a number in the order the peers connected, so  *)
(* that a descriptor that the kernel hands out again names a new one.      *)
(***************************************************************************)
EXTENDS EcafeMessages, FiniteSets

CONSTANTS
    Machine,        \* the PCs, each running the agent
    Controller,     \* the programs that connect to the server's Unix socket
    MaxConn         \* bound: how many connections are ever made

ASSUME PeersAssumption == Machine \cap Controller = {}
ASSUME MaxConnAssumption == MaxConn \in Nat

VARIABLES
    conn,           \* conn[c]: both ends of connection c
    nconn,          \* how many connections were made
    fdtab           \* fdtab[f]: the connection behind descriptor f, 0 for none

netVars == <<conn, nconn, fdtab>>

Conn == 1..MaxConn

(* 0, 1 and 2 are the standard streams; the two listening sockets take 3   *)
(* and 4 before the loop starts, and connections what is left.             *)
S_LISTENFD == 3
C_LISTENFD == 4
Fd == 5..(MaxConn + 4)

NoPeer == "none"

(* peer: who connected.  srv: the server's end.  link: the peer's end as   *)
(* the server's kernel sees it: "up"; "fin", closed by the peer; "rst",    *)
(* reset, the error not yet reported to the server; "hup", reset and       *)
(* reported.  up and down: sent to and by the server, not read yet.        *)
(* id: a ghost, the client id that the server gave the connection.         *)
Connection ==
    [peer : Machine \cup Controller \cup {NoPeer},
     srv : {"none", "backlog", "open", "closed"},
     link : {"up", "fin", "rst", "hup"},
     up : Seq(Message), down : Seq(Message), id : Nat]

Unused == [peer |-> NoPeer, srv |-> "none", link |-> "up",
           up |-> <<>>, down |-> <<>>, id |-> 0]

NetTypeOK ==
    /\ conn \in [Conn -> Connection]
    /\ nconn \in 0..MaxConn
    /\ fdtab \in [Fd -> 0..MaxConn]

NetInit ==
    /\ conn = [c \in Conn |-> Unused]
    /\ nconn = 0
    /\ fdtab = [f \in Fd |-> 0]

-----------------------------------------------------------------------------
(* The peers' ends.                                                        *)

(* A connection is established, and may be written to, before the server   *)
(* accepts it.                                                             *)
Connect(p) ==
    /\ nconn < MaxConn
    /\ nconn' = nconn + 1
    /\ conn' = [conn EXCEPT ![nconn + 1] =
                    [Unused EXCEPT !.peer = p, !.srv = "backlog"]]
    /\ UNCHANGED fdtab

(* What the peer's close does.  Data that it had not read makes it a reset.*)
(* A Unix socket refuses writes at once; TCP takes the first one.          *)
PeerClosed(c) ==
    LET unread == conn[c].down # <<>>
        local  == conn[c].peer \in Controller
    IN  [conn EXCEPT ![c].link = IF unread THEN "rst" ELSE IF local THEN "hup" ELSE "fin",
                     ![c].down = <<>>]

-----------------------------------------------------------------------------
(* The server's end.                                                       *)

Backlog(peers) == {c \in 1..nconn : conn[c].srv = "backlog" /\ conn[c].peer \in peers}

(* accept() returns the connections of a listening socket in the order     *)
(* they were made, each under the lowest descriptor that is free.          *)
FirstOf(S) == CHOOSE c \in S : \A d \in S : c <= d
FreeFd == {f \in Fd : fdtab[f] = 0}
LowestFreeFd == FirstOf(FreeFd)

(* select() reports a descriptor on which a read would not block.          *)
Readable(cn, f) ==
    LET c == fdtab[f] IN c # 0 /\ (cn[c].up # <<>> \/ cn[c].link # "up")

AtEof(c) == conn[c].up = <<>> /\ conn[c].link # "up"

(* The outcomes of writing m to connection c: the connections afterwards   *)
(* and whether the message was taken ("sent", which a dead peer will never *)
(* read), the call failed, or SIGPIPE, which the server does not ignore,   *)
(* killed it.                                                              *)
WriteTo(cn, c, m) ==
    CASE cn[c].link = "up"  -> {[conn |-> [cn EXCEPT ![c].down = Append(@, m)], rv |-> "sent"]}
      [] cn[c].link = "fin" -> {[conn |-> [cn EXCEPT ![c].link = "rst"], rv |-> "sent"]}
      [] cn[c].link = "rst" -> {[conn |-> cn, rv |-> "sent"],
                                [conn |-> [cn EXCEPT ![c].link = "hup"], rv |-> "failed"],
                                [conn |-> cn, rv |-> "killed"]}
      [] cn[c].link = "hup" -> {[conn |-> cn, rv |-> "killed"]}

(* The same through descriptor f, which need not be the socket it was when *)
(* the server kept its number.  0 is the terminal the server runs on.      *)
Write(cn, f, m) ==
    IF f \notin Fd THEN {[conn |-> cn, rv |-> "sent"]}
    ELSE IF fdtab[f] = 0 THEN {[conn |-> cn, rv |-> "failed"]}
    ELSE WriteTo(cn, fdtab[f], m)

(* close(): the agent or controller will read what is left, then 0.        *)
ServerClosed(cn, c) ==
    [cn EXCEPT ![c].srv = "closed", ![c].up = <<>>]
=============================================================================
