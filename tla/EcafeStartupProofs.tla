-------------------------- MODULE EcafeStartupProofs --------------------------
(***************************************************************************)
(* However many servers, agents and workers are started, crash and are     *)
(* started again, NewWorkersReachServer holds.                             *)
(***************************************************************************)
EXTENDS EcafeStartup, TLAPS

StartTypeOK ==
    /\ stage \in [Instance -> Stage]
    /\ path \in Instance \cup {Nobody}
    /\ port \in Instance \cup {Nobody}
    /\ agentAt \in [Agent -> Instance \cup {Nobody}]

(* The stages in which a server has put its name to the Unix socket.       *)
Named == {"listen_path", "bind_port", "listen_port", "serving"}

(* Who serves listens at the port, and nobody else does.                   *)
PortIsServers == \A s \in Instance : stage[s] = "serving" <=> port = s

(* An agent is with a server that serves or has served.                    *)
AgentsWereServed ==
    \A a \in Agent : agentAt[a] # Nobody => stage[agentAt[a]] \in {"serving", "stopped"}

(* Two that run at the same time have met.                                 *)
AllMet ==
    \A s, t \in Instance : s # t /\ Alive(s) /\ Alive(t) => s \in met

(* A server that has met nobody still has its name.                        *)
NameIsKept == \A s \in Instance : stage[s] \in Named /\ s \notin met => path = s

StartInv ==
    StartTypeOK /\ PortIsServers /\ AgentsWereServed /\ AllMet /\ NameIsKept

-----------------------------------------------------------------------------
(* The stages that a server which is running can be in.                    *)
LEMMA AliveStages ==
    ASSUME NEW s \in Instance
    PROVE  Alive(s) <=> stage[s] \notin {"off", "exited", "stopped"}
BY NobodyAssumption DEF Alive

LEMMA BeginKeeps ==
    ASSUME StartInv, NEW s \in Instance, Begin_Server(s)
    PROVE  StartInv'
<1>. USE NobodyAssumption
<1>1. /\ stage[s] = "off" /\ stage' = [stage EXCEPT ![s] = "unlink"]
      /\ met' = IF {t \in Instance : Alive(t)} = {} THEN met
                ELSE met \cup {t \in Instance : Alive(t)} \cup {s}
      /\ UNCHANGED <<path, port, agentAt>>
    BY DEF Begin_Server, At, Peers
<1>2. /\ stage \in [Instance -> Stage] /\ stage'[s] = "unlink"
      /\ \A t \in Instance : t # s => stage'[t] = stage[t]
    BY <1>1 DEF StartInv, StartTypeOK
<1>3. StartTypeOK'
    BY <1>1 DEF StartInv, StartTypeOK, Stage
<1>4. PortIsServers'
    BY <1>1, <1>2 DEF StartInv, PortIsServers
<1>5. AgentsWereServed'
    BY <1>1, <1>2 DEF StartInv, StartTypeOK, AgentsWereServed
<1>6. AllMet'
    <2>. SUFFICES ASSUME NEW t \in Instance, NEW u \in Instance, t # u, Alive(t)', Alive(u)'
                  PROVE  t \in met'
        BY DEF AllMet
    <2>1. met \subseteq met'
        BY <1>1
    <2>2. CASE t # s /\ u # s
        BY <1>2, <2>1, <2>2 DEF StartInv, AllMet, Alive
    <2>3. CASE t = s \/ u = s
        <3>1. \E v \in {t, u} : v # s /\ Alive(v)
            BY <1>2, <2>3 DEF Alive
        <3>. QED
            BY <1>1, <2>3, <3>1
    <2>. QED
        BY <2>2, <2>3
<1>7. NameIsKept'
    <2>1. met \subseteq met'
        BY <1>1
    <2>. QED
        BY <1>1, <1>2, <2>1 DEF StartInv, NameIsKept, Named
<1>. QED
    BY <1>3, <1>4, <1>5, <1>6, <1>7 DEF StartInv

(* A step of a server that stays away from the port.                       *)
LEMMA QuietStep ==
    ASSUME StartInv, NEW s \in Instance, NEW next \in Stage,
           stage[s] \notin {"off", "serving", "exited", "stopped"},
           next \notin {"off", "serving"},
           stage' = [stage EXCEPT ![s] = next],
           UNCHANGED <<port, agentAt, met>>, path' \in Instance \cup {Nobody}
    PROVE  StartTypeOK' /\ PortIsServers' /\ AgentsWereServed' /\ AllMet'
<1>. USE NobodyAssumption
<1>1. /\ stage \in [Instance -> Stage] /\ stage'[s] = next
      /\ \A t \in Instance : t # s => stage'[t] = stage[t]
    BY DEF StartInv, StartTypeOK
<1>2. StartTypeOK'
    BY DEF StartInv, StartTypeOK
<1>3. PortIsServers'
    BY <1>1 DEF StartInv, PortIsServers
<1>4. AgentsWereServed'
    BY <1>1 DEF StartInv, StartTypeOK, AgentsWereServed
<1>5. AllMet'
    BY <1>1 DEF StartInv, AllMet, Alive
<1>. QED
    BY <1>2, <1>3, <1>4, <1>5

(* Whoever runs next to s has met it, so that s may take the name.         *)
LEMMA NameTaken ==
    ASSUME StartInv, NEW s \in Instance, Alive(s), NEW next,
           stage' = [stage EXCEPT ![s] = next], next \in Named => path' = s,
           UNCHANGED met
    PROVE  NameIsKept'
<1>. SUFFICES ASSUME NEW t \in Instance, stage'[t] \in Named, t \notin met
              PROVE  path' = t
    BY DEF NameIsKept
<1>1. CASE t = s
    BY <1>1 DEF StartInv, StartTypeOK
<1>2. CASE t # s
    <2>1. stage[t] \in Named
        BY <1>2 DEF StartInv, StartTypeOK
    <2>2. Alive(t)
        BY <2>1, AliveStages DEF Named
    <2>. QED
        BY <1>2, <2>2 DEF StartInv, AllMet
<1>. QED
    BY <1>1, <1>2

(* A server that goes on or ends, with its name where it was.              *)
LEMMA NameLeft ==
    ASSUME StartInv, NEW s \in Instance, NEW next,
           stage' = [stage EXCEPT ![s] = next],
           next \in Named => stage[s] \in Named,
           UNCHANGED <<met, path>>
    PROVE  NameIsKept'
BY DEF StartInv, StartTypeOK, NameIsKept

LEMMA StepKeeps ==
    ASSUME StartInv, NEW s \in Instance, StartStep(s)
    PROVE  StartInv'
<1>. USE NobodyAssumption
<1>1. CASE Unlink(s)
    <2>1. /\ stage[s] = "unlink" /\ stage' = [stage EXCEPT ![s] = "bind_path"]
          /\ path' = Nobody /\ UNCHANGED <<port, agentAt, met>>
        BY <1>1 DEF Unlink, At, Peers
    <2>2. Alive(s) /\ "bind_path" \notin Named /\ "bind_path" \in Stage
        BY <2>1, AliveStages DEF Named, Stage
    <2>. QED
        BY <2>1, <2>2, QuietStep, NameTaken DEF StartInv
<1>2. CASE BindPath(s)
    <2>1. /\ stage[s] = "bind_path" /\ UNCHANGED <<agentAt, met>>
          /\ \/ /\ stage' = [stage EXCEPT ![s] = "listen_path"]
                /\ path' = s /\ UNCHANGED port
             \/ /\ stage' = [stage EXCEPT ![s] = "exited"]
                /\ port' = (IF port = s THEN Nobody ELSE port) /\ UNCHANGED path
        BY <1>2 DEF BindPath, At, Exit, End, Peers
    <2>2. port # s
        BY <2>1 DEF StartInv, PortIsServers
    <2>3. Alive(s) /\ {"listen_path", "exited"} \subseteq Stage /\ "exited" \notin Named
        BY <2>1, AliveStages DEF Named, Stage
    <2>4. CASE stage' = [stage EXCEPT ![s] = "listen_path"] /\ path' = s /\ UNCHANGED port
        BY <2>1, <2>3, <2>4, QuietStep, NameTaken DEF StartInv
    <2>5. CASE stage' = [stage EXCEPT ![s] = "exited"] /\ UNCHANGED <<port, path>>
        <3>1. path' \in Instance \cup {Nobody}
            BY <2>5 DEF StartInv, StartTypeOK
        <3>. QED
            BY <2>1, <2>3, <2>5, <3>1, QuietStep, NameLeft DEF StartInv
    <2>. QED
        BY <2>1, <2>2, <2>4, <2>5
<1>3. CASE ListenPath(s)
    <2>1. /\ stage[s] = "listen_path" /\ stage' = [stage EXCEPT ![s] = "bind_port"]
          /\ UNCHANGED <<path, port, agentAt, met>>
        BY <1>3 DEF ListenPath, At, Peers
    <2>2. stage[s] \in Named /\ "bind_port" \in Stage /\ path' \in Instance \cup {Nobody}
        BY <2>1 DEF Named, Stage, StartInv, StartTypeOK
    <2>. QED
        BY <2>1, <2>2, QuietStep, NameLeft DEF StartInv
<1>4. CASE BindPort(s)
    <2>1. /\ stage[s] = "bind_port" /\ UNCHANGED <<path, agentAt, met>>
          /\ \/ stage' = [stage EXCEPT ![s] = "listen_port"] /\ UNCHANGED port
             \/ /\ stage' = [stage EXCEPT ![s] = "exited"]
                /\ port' = IF port = s THEN Nobody ELSE port
        BY <1>4 DEF BindPort, At, Exit, End, Peers
    <2>2. port # s
        BY <2>1 DEF StartInv, PortIsServers
    <2>3. /\ stage[s] \in Named /\ {"listen_port", "exited"} \subseteq Stage
          /\ path' \in Instance \cup {Nobody}
        BY <2>1 DEF Named, Stage, StartInv, StartTypeOK
    <2>4. PICK next \in {"listen_port", "exited"} : stage' = [stage EXCEPT ![s] = next]
        BY <2>1
    <2>. QED
        BY <2>1, <2>2, <2>3, <2>4, QuietStep, NameLeft DEF StartInv
<1>5. CASE ListenPort(s)
    <2>1. /\ stage[s] = "listen_port" /\ UNCHANGED <<path, agentAt, met>>
          /\ \/ /\ stage' = [stage EXCEPT ![s] = "serving"]
                /\ port = Nobody /\ port' = s
             \/ /\ stage' = [stage EXCEPT ![s] = "exited"]
                /\ port' = IF port = s THEN Nobody ELSE port
        BY <1>5 DEF ListenPort, At, Exit, End, Peers
    <2>2. port # s
        BY <2>1 DEF StartInv, PortIsServers
    <2>3. /\ stage[s] \in Named /\ {"serving", "exited"} \subseteq Stage
          /\ path' \in Instance \cup {Nobody}
        BY <2>1 DEF Named, Stage, StartInv, StartTypeOK
    <2>4. CASE stage' = [stage EXCEPT ![s] = "exited"] /\ UNCHANGED port
        BY <2>1, <2>3, <2>4, QuietStep, NameLeft DEF StartInv
    <2>5. CASE stage' = [stage EXCEPT ![s] = "serving"] /\ port = Nobody /\ port' = s
        <3>1. /\ stage \in [Instance -> Stage] /\ stage'[s] = "serving"
              /\ \A t \in Instance : t # s => stage'[t] = stage[t]
            BY <2>5 DEF StartInv, StartTypeOK
        <3>2. StartTypeOK'
            BY <2>1, <2>3, <2>5 DEF StartInv, StartTypeOK
        <3>3. PortIsServers'
            BY <2>5, <3>1 DEF StartInv, PortIsServers
        <3>4. AgentsWereServed'
            BY <2>1, <3>1 DEF StartInv, StartTypeOK, AgentsWereServed
        <3>5. AllMet'
            BY <2>1, <3>1 DEF StartInv, AllMet, Alive
        <3>. QED
            BY <2>1, <2>3, <2>5, <3>2, <3>3, <3>4, <3>5, NameLeft DEF StartInv
    <2>. QED
        BY <2>1, <2>2, <2>4, <2>5
<1>. QED
    BY <1>1, <1>2, <1>3, <1>4, <1>5 DEF StartStep

LEMMA StopKeeps ==
    ASSUME StartInv, NEW s \in Instance, Stop_Server(s)
    PROVE  StartInv'
<1>. USE NobodyAssumption
<1>1. /\ Alive(s) /\ stage' = [stage EXCEPT ![s] = "stopped"]
      /\ port' = (IF port = s THEN Nobody ELSE port) /\ UNCHANGED <<path, agentAt, met>>
    BY DEF Stop_Server, End, Peers
<1>2. /\ stage \in [Instance -> Stage] /\ stage'[s] = "stopped"
      /\ \A t \in Instance : t # s => stage'[t] = stage[t]
    BY <1>1 DEF StartInv, StartTypeOK
<1>3. StartTypeOK'
    BY <1>1 DEF StartInv, StartTypeOK, Stage
<1>4. PortIsServers'
    BY <1>1, <1>2 DEF StartInv, PortIsServers
<1>5. AgentsWereServed'
    BY <1>1, <1>2 DEF StartInv, StartTypeOK, AgentsWereServed
<1>6. AllMet'
    BY <1>1, <1>2 DEF StartInv, AllMet, Alive
<1>7. NameIsKept'
    BY <1>1, NameLeft DEF Named
<1>. QED
    BY <1>3, <1>4, <1>5, <1>6, <1>7 DEF StartInv

LEMMA AgentKeeps ==
    ASSUME StartInv, NEW a \in Agent, AgentStarts(a) \/ AgentSeesEof(a)
    PROVE  StartInv'
<1>. USE NobodyAssumption
<1>1. /\ UNCHANGED <<stage, path, port, met>>
      /\ \/ port # Nobody /\ agentAt' = [agentAt EXCEPT ![a] = port]
         \/ agentAt' = [agentAt EXCEPT ![a] = Nobody]
    BY DEF AgentStarts, AgentSeesEof
<1>2. StartTypeOK'
    BY <1>1 DEF StartInv, StartTypeOK
<1>3. AgentsWereServed'
    BY <1>1 DEF StartInv, StartTypeOK, PortIsServers, AgentsWereServed
<1>. QED
    BY <1>1, <1>2, <1>3
       DEF StartInv, PortIsServers, AllMet, NameIsKept, Alive

(* Every step of a server, an agent or a worker preserves the invariant.   *)
THEOREM StartInvariance == StartSafe => []StartInv
<1>1. StartInit => StartInv
    BY NobodyAssumption
       DEF StartInit, StartInv, StartTypeOK, Stage, PortIsServers, AgentsWereServed,
           AllMet, Alive, NameIsKept, Named
<1>2. StartInv /\ [StartNext]_startVars => StartInv'
    <2>. SUFFICES ASSUME StartInv, [StartNext]_startVars
                  PROVE  StartInv'
        OBVIOUS
    <2>1. CASE UNCHANGED <<stage, path, port, agentAt, met>>
        BY <2>1 DEF StartInv, StartTypeOK, PortIsServers, AgentsWereServed, AllMet,
                    Alive, NameIsKept
    <2>2. CASE UNCHANGED startVars
        BY <2>1, <2>2 DEF startVars
    <2>3. CASE LingerEnds
        BY <2>1, <2>3 DEF LingerEnds, Peers
    <2>4. ASSUME NEW w \in Worker, WorkerStarts(w) \/ WorkerStops(w)
          PROVE  StartInv'
        BY <2>1, <2>4 DEF WorkerStarts, WorkerStops
    <2>. QED
        BY <2>2, <2>3, <2>4, BeginKeeps, StepKeeps, StopKeeps, AgentKeeps DEF StartNext
<1>. QED
    BY <1>1, <1>2, PTL DEF StartSafe

(* One server at most serves, the name leads to it unless a second one was *)
(* started next to it, and the agents are with it.                         *)
THEOREM OneServerServes == StartSafe => []NewWorkersReachServer
<1>1. StartInv => NewWorkersReachServer
    <2>. SUFFICES ASSUME StartInv, NEW s \in Instance, stage[s] = "serving"
                  PROVE  /\ \A t \in Instance : stage[t] = "serving" => t = s
                         /\ s \notin met => path = s
                         /\ \A a \in Agent : Alive(agentAt[a]) => agentAt[a] = s
        BY DEF NewWorkersReachServer
    <2>1. port = s
        BY DEF StartInv, PortIsServers
    <2>2. \A t \in Instance : stage[t] = "serving" => t = s
        BY <2>1 DEF StartInv, PortIsServers
    <2>3. s \notin met => path = s
        BY DEF StartInv, NameIsKept, Named
    <2>4. ASSUME NEW a \in Agent, Alive(agentAt[a])
          PROVE  agentAt[a] = s
        <3>1. agentAt[a] \in Instance /\ stage[agentAt[a]] = "serving"
            BY <2>4 DEF StartInv, StartTypeOK, AgentsWereServed, Alive
        <3>. QED
            BY <2>2, <3>1
    <2>. QED
        BY <2>2, <2>3, <2>4
<1>. QED
    BY <1>1, StartInvariance, PTL
=============================================================================
