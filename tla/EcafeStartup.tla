----------------------------- MODULE EcafeStartup -----------------------------
(***************************************************************************)
(* How the programs find each other: a server takes the name of the Unix   *)
(* socket and then the TCP port, one system call after the other, and any  *)
(* of the programs may be stopped and started again, also while the        *)
(* kernel still holds what an earlier server left behind.                  *)
(***************************************************************************)
EXTENDS FiniteSets, Naturals

CONSTANTS
    Instance,   \* the processes of the server, each started once
    Agent, Worker,
    Nobody

ASSUME NobodyAssumption == Nobody \notin Instance

VARIABLES
    stage,      \* stage[s]: the call that the server s makes next
    path,       \* whose socket the name stands for, which may have gone
    bound,      \* the servers that hold a socket bound to the port
    port,       \* the server that listens at the port
    lingering,  \* connections of an earlier server still hold the port
    agentAt,    \* agentAt[a]: the server that a is connected to
    workerAt,   \* workerAt[w]: the server that w is connected to
    met         \* ghost: the servers that ran at the same time as another

startVars == <<stage, path, bound, port, lingering, agentAt, workerAt, met>>

Stage == {"off", "unlink", "bind_path", "listen_path", "bind_port",
          "listen_port", "serving", "exited", "stopped"}

StartInit ==
    /\ stage = [s \in Instance |-> "off"]
    /\ path = Nobody /\ bound = {} /\ port = Nobody /\ lingering = FALSE
    /\ agentAt = [a \in Agent |-> Nobody]
    /\ workerAt = [w \in Worker |-> Nobody]
    /\ met = {}

Alive(s) == s # Nobody /\ stage[s] \notin {"off", "exited", "stopped"}

Peers == UNCHANGED <<agentAt, workerAt>>

-----------------------------------------------------------------------------
(* The server's first steps.                                               *)

At(s, now, next) == stage[s] = now /\ stage' = [stage EXCEPT ![s] = next]

(* The end of a process closes its sockets; the name of the Unix socket    *)
(* stays.                                                                  *)
End(s, how) ==
    /\ stage' = [stage EXCEPT ![s] = how]
    /\ bound' = bound \ {s}
    /\ port' = IF port = s THEN Nobody ELSE port

Exit(s) == End(s, "exited")

Begin_Server(s) ==
    /\ At(s, "off", "unlink")
    /\ LET others == {t \in Instance : Alive(t)}
       IN  met' = IF others = {} THEN met ELSE met \cup others \cup {s}
    /\ UNCHANGED <<path, bound, port, lingering>> /\ Peers

(* Fault: the name that an earlier server left is kept. *)
Unlink_Kept(s) ==
    /\ At(s, "unlink", "bind_path")
    /\ UNCHANGED <<path, bound, port, lingering, met>> /\ Peers

(* Uxd_listen                                                              *)
Unlink(s) ==
    /\ At(s, "unlink", "bind_path")
    /\ path' = Nobody
    /\ UNCHANGED <<bound, port, lingering, met>> /\ Peers

BindPath(s) ==
    /\ stage[s] = "bind_path"
    /\ \/ /\ path = Nobody
          /\ path' = s /\ At(s, "bind_path", "listen_path")
          /\ UNCHANGED <<bound, port>>
       \/ /\ path # Nobody
          /\ Exit(s)
          /\ UNCHANGED path
    /\ UNCHANGED <<lingering, met>> /\ Peers

ListenPath(s) ==
    /\ At(s, "listen_path", "bind_port")
    /\ UNCHANGED <<path, bound, port, lingering, met>> /\ Peers

(* With SO_REUSEADDR connections that linger do not matter, nor a socket   *)
(* that is bound and does not listen yet.                                  *)
MayBind == port = Nobody

(* tcp_listen                                                              *)
BindPort(s) ==
    /\ stage[s] = "bind_port"
    /\ \/ /\ MayBind
          /\ At(s, "bind_port", "listen_port")
          /\ bound' = bound \cup {s}
          /\ UNCHANGED port
       \/ ~MayBind /\ Exit(s)
    /\ UNCHANGED <<path, lingering, met>> /\ Peers

(* Fault: the result of listen() is not looked at. *)
ListenPort_Ignored(s) ==
    /\ At(s, "listen_port", "serving")
    /\ port' = IF port = Nobody THEN s ELSE port
    /\ UNCHANGED bound
    /\ UNCHANGED <<path, lingering, met>> /\ Peers

ListenPort(s) ==
    /\ stage[s] = "listen_port"
    /\ \/ /\ port = Nobody
          /\ At(s, "listen_port", "serving")
          /\ port' = s
          /\ UNCHANGED bound
       \/ port # Nobody /\ Exit(s)
    /\ UNCHANGED <<path, lingering, met>> /\ Peers

(* A crash, or whoever started it: at any time.  A server that has agents  *)
(* leaves connections behind.                                              *)
Stop_Server(s) ==
    /\ Alive(s)
    /\ End(s, "stopped")
    /\ lingering' = (lingering \/ \E a \in Agent : agentAt[a] = s)
    /\ UNCHANGED <<path, met>> /\ Peers

LingerEnds ==
    /\ lingering /\ lingering' = FALSE
    /\ UNCHANGED <<stage, path, bound, port, met>> /\ Peers

-----------------------------------------------------------------------------
(* The others.  Who cannot connect exits and may be started again.         *)

(* tcp_connect                                                             *)
AgentStarts(a) ==
    /\ agentAt[a] = Nobody /\ port # Nobody
    /\ agentAt' = [agentAt EXCEPT ![a] = port]
    /\ UNCHANGED <<stage, path, bound, port, lingering, workerAt, met>>

AgentSeesEof(a) ==
    /\ agentAt[a] # Nobody /\ ~Alive(agentAt[a])
    /\ agentAt' = [agentAt EXCEPT ![a] = Nobody]
    /\ UNCHANGED <<stage, path, bound, port, lingering, workerAt, met>>

(* The server's socket accepts connections once it listens, before there   *)
(* is a main loop.                                                         *)
Listens(s) == Alive(s) /\ stage[s] \in {"bind_port", "listen_port", "serving"}

(* Uxd_connect                                                             *)
WorkerStarts(w) ==
    /\ workerAt[w] = Nobody /\ Listens(path)
    /\ workerAt' = [workerAt EXCEPT ![w] = path]
    /\ UNCHANGED <<stage, path, bound, port, lingering, agentAt, met>>

(* The web server is stopped: only so does a worker leave a server that    *)
(* has gone.                                                               *)
WorkerStops(w) ==
    /\ workerAt[w] # Nobody
    /\ workerAt' = [workerAt EXCEPT ![w] = Nobody]
    /\ UNCHANGED <<stage, path, bound, port, lingering, agentAt, met>>

StartStep(s) ==
    Unlink(s) \/ BindPath(s) \/ ListenPath(s) \/ BindPort(s) \/ ListenPort(s)

StartNext ==
    \/ \E s \in Instance : Begin_Server(s) \/ StartStep(s) \/ Stop_Server(s)
    \/ LingerEnds
    \/ \E a \in Agent : AgentStarts(a) \/ AgentSeesEof(a)
    \/ \E w \in Worker : WorkerStarts(w) \/ WorkerStops(w)

StartSafe == StartInit /\ [][StartNext]_startVars

(* A server that starts and an agent that sees the end of file go on.      *)
StartSpec ==
    /\ StartSafe
    /\ \A s \in Instance : WF_startVars(StartStep(s))
    /\ \A a \in Agent : WF_startVars(AgentSeesEof(a))

-----------------------------------------------------------------------------
(* A server that is started while no other runs, and is not stopped, gets  *)
(* to its main loop, whatever an earlier one left behind, wherever it was  *)
(* stopped: a name in the file system, connections, agents and workers.    *)
LoneServerServes ==
    \A s \in Instance :
        stage[s] = "unlink" /\ s \notin met ~>
            stage[s] \in {"serving", "stopped"} \/ s \in met

(* As long as nobody started a second server next to the one that serves,  *)
(* the name leads to it, so that a web server finds it that is restarted;  *)
(* and agents and workers that are connected at all are with this server.  *)
NewWorkersReachServer ==
    \A s \in Instance :
        stage[s] = "serving" =>
            /\ \A t \in Instance : stage[t] = "serving" => t = s
            /\ s \notin met => path = s
            /\ \A a \in Agent : Alive(agentAt[a]) => agentAt[a] = s
=============================================================================
