------------------------- MODULE EcafeRequestProofs -------------------------
(***************************************************************************)
(* What becomes of a request, for any number of PCs, connections and       *)
(* requests.  First a session of one controller: there is one message at   *)
(* most that a page caused, so that the answer a page reads is the one to  *)
(* its own request and says what became of it (SessionInv, given IInv and  *)
(* RoutingInv).  Then every request of every controller: there is one      *)
(* message at most about it, which goes only forward (ControlInv, given    *)
(* IInv), so that the system implements RemoteControl.                     *)
(***************************************************************************)
EXTENDS EcafeRoutingProofs

(* A queue after some of it was read: it has no page's message that it had *)
(* not before.                                                             *)
One(q) == \A j, k \in OfPages(q) : j = k

Reduced(q, q1) ==
    /\ One(q) => One(q1)
    /\ OfPages(q) = {} => OfPages(q1) = {}
    /\ InFlight(q1) \subseteq InFlight(q)

Fewer(cn, cn1) ==
    \A c \in Conn : /\ cn1[c].peer = cn[c].peer
                    /\ Reduced(cn[c].up, cn1[c].up)
                    /\ Reduced(cn[c].down, cn1[c].down)

(* Connections between which no message has moved.                         *)
SameQueues(cn, cn1) ==
    \A c \in Conn : /\ cn1[c].peer = cn[c].peer
                    /\ cn1[c].up = cn[c].up /\ cn1[c].down = cn[c].down

(* One message was sent on connection d: to the server, or by it.          *)
SentUp(cn, cn1, d, m) ==
    \A c \in Conn : /\ cn1[c].peer = cn[c].peer
                    /\ cn1[c].down = cn[c].down
                    /\ cn1[c].up = IF c = d THEN Append(cn[c].up, m) ELSE cn[c].up

SentDown(cn, cn1, d, m) ==
    \A c \in Conn : /\ cn1[c].peer = cn[c].peer
                    /\ cn1[c].up = cn[c].up
                    /\ cn1[c].down = IF c = d THEN Append(cn[c].down, m) ELSE cn[c].down

-----------------------------------------------------------------------------
(* The places of pages' messages in a queue to which one was appended.     *)
LEMMA AppendPages ==
    ASSUME NEW q \in Seq(Message), NEW m \in Message
    PROVE  /\ m.tag = JoinTag => OfPages(Append(q, m)) = OfPages(q)
           /\ OfPages(q) = {} => One(Append(q, m))
<1>. DEFINE r == Append(q, m)
            L == Len(q)
<1>1. /\ L \in Nat /\ DOMAIN q = 1..L /\ DOMAIN r = 1..(L + 1)
      /\ r[L + 1] = m /\ \A k \in 1..L : r[k] = q[k]
    BY LenProperties, AppendProperties
<1>. HIDE DEF r, L
<1>2. OfPages(r) = OfPages(q) \cup {n \in {L + 1} : m.tag # JoinTag}
    BY <1>1 DEF OfPages
<1>3. m.tag = JoinTag => OfPages(r) = OfPages(q)
    BY <1>2
<1>4. OfPages(q) = {} => \A j, k \in OfPages(r) : j = k
    BY <1>2
<1>. QED
    BY <1>3, <1>4 DEF One, r

(* A read() of n messages reduces a queue; if it took a page's message     *)
(* where there was one at most, it leaves none.                            *)
LEMMA ReadReduces ==
    ASSUME NEW q \in Seq(Message), NEW n \in 1..Len(q)
    PROVE  LET left == SubSeq(q, n + 1, Len(q))
           IN  /\ Reduced(q, left)
               /\ One(q) /\ (\E k \in 1..n : q[k].tag # JoinTag) => OfPages(left) = {}
<1>. DEFINE left == SubSeq(q, n + 1, Len(q))
            L    == Len(q)
<1>1. /\ L \in Nat /\ DOMAIN q = 1..L
      /\ DOMAIN left = 1..(L - n)
      /\ \A k \in 1..(L - n) : left[k] = q[n + k] /\ n + k \in 1..L
    <2>1. L \in Nat /\ DOMAIN q = 1..L
        BY LenProperties
    <2>. QED
        BY <2>1
<1>2. InFlight(left) \subseteq InFlight(q)
    BY ReadInFlight
<1>. HIDE DEF left, L
<1>3. \A k \in OfPages(left) : k \in Nat /\ k > 0 /\ n + k \in OfPages(q)
    BY <1>1 DEF OfPages
<1>4. ASSUME One(q), NEW k \in OfPages(left), NEW j \in OfPages(left) PROVE j = k
    <2>1. n + k = n + j /\ n \in Nat
        BY <1>1, <1>3, <1>4 DEF One, L
    <2>. QED
        BY <1>3, <2>1
<1>5. ASSUME One(q), NEW j \in 1..n, q[j].tag # JoinTag, NEW k \in OfPages(left)
      PROVE  FALSE
    <2>1. j \in OfPages(q)
        BY <1>1, <1>5 DEF OfPages, L
    <2>2. j = n + k
        BY <1>3, <1>5, <2>1 DEF One
    <2>. QED
        BY <1>3, <2>2
<1>6. OfPages(q) = {} => OfPages(left) = {}
    BY <1>3
<1>. QED
    BY <1>2, <1>4, <1>5, <1>6 DEF Reduced, One, left

(* So does a close, which empties it, and of course what leaves it alone.  *)
LEMMA EmptyReduces ==
    ASSUME NEW q
    PROVE  Reduced(q, <<>>) /\ Reduced(q, q)
<1>1. OfPages(<<>>) = {} /\ InFlight(<<>>) = {}
    BY DEF OfPages, InFlight
<1>. QED
    BY <1>1 DEF Reduced, One

(* With fewer messages there still is one page's message at most.          *)
LEMMA FewerPages ==
    ASSUME NEW cn, NEW cn1, Fewer(cn, cn1)
    PROVE  /\ OnePage(cn) => OnePage(cn1)
           /\ EachFits(cn) => EachFits(cn1)
           /\ \A c \in Conn : Quiet(cn[c]) => Quiet(cn1[c])
<1>1. \A c \in Conn : Quiet(cn[c]) => Quiet(cn1[c])
    BY DEF Fewer, Reduced, Quiet
<1>2. \A c \in Conn : /\ InFlight(cn1[c].up) \subseteq InFlight(cn[c].up)
                      /\ InFlight(cn1[c].down) \subseteq InFlight(cn[c].down)
                      /\ cn1[c].peer = cn[c].peer
    BY DEF Fewer, Reduced
<1>3. EachFits(cn) => EachFits(cn1)
    BY <1>2 DEF EachFits
<1>4. ASSUME OnePage(cn), NEW c \in Conn
      PROVE  /\ One(cn1[c].up) /\ One(cn1[c].down)
             /\ OfPages(cn1[c].up) = {} \/ OfPages(cn1[c].down) = {}
    BY <1>4 DEF OnePage, Fewer, Reduced, One
<1>5. OnePage(cn) => OnePage(cn1)
    BY <1>1, <1>2, <1>4 DEF OnePage, One
<1>. QED
    BY <1>1, <1>3, <1>5

(* Connections between which nothing has moved are fewer, both ways.       *)
LEMMA SameIsFewer ==
    ASSUME NEW cn, NEW cn1, SameQueues(cn, cn1)
    PROVE  Fewer(cn, cn1)
BY EmptyReduces DEF SameQueues, Fewer

(* One message more: still one page's at most, when it is about a PC that  *)
(* joins or there was none.                                                *)
LEMMA SentPages ==
    ASSUME NEW cn \in [Conn -> Connection], NEW cn1, NEW d \in Conn, NEW m \in Message,
           SentUp(cn, cn1, d, m) \/ (SentDown(cn, cn1, d, m)
                                     /\ (cn[d].peer \in Controller => m.kind = "response")),
           m.tag = JoinTag \/ AllQuiet(cn),
           cn[d].peer \in Controller => m.tag # JoinTag
    PROVE  /\ OnePage(cn) => OnePage(cn1)
           /\ EachFits(cn) /\ Fits(m) => EachFits(cn1)
           /\ m.tag = JoinTag /\ AllQuiet(cn) => AllQuiet(cn1)
<1>1. cn[d].up \in Seq(Message) /\ cn[d].down \in Seq(Message)
    BY DEF Connection
<1>. DEFINE u == Append(cn[d].up, m)
            v == Append(cn[d].down, m)
<1>2. /\ m.tag = JoinTag => OfPages(u) = OfPages(cn[d].up) /\ OfPages(v) = OfPages(cn[d].down)
      /\ OfPages(cn[d].up) = {} => One(u)
      /\ OfPages(cn[d].down) = {} => One(v)
      /\ InFlight(u) = InFlight(cn[d].up) \cup {m}
      /\ InFlight(v) = InFlight(cn[d].down) \cup {m}
    BY <1>1, AppendPages, AppendInFlight
<1>. HIDE DEF u, v
<1>3. /\ \A c \in Conn : cn1[c].peer = cn[c].peer
      /\ \A c \in Conn : c # d => cn1[c].up = cn[c].up /\ cn1[c].down = cn[c].down
      /\ \/ cn1[d].up = u /\ cn1[d].down = cn[d].down
         \/ /\ cn1[d].up = cn[d].up /\ cn1[d].down = v
            /\ cn[d].peer \in Controller => m.kind = "response"
    BY DEF SentUp, SentDown, u, v
<1>4. EachFits(cn) /\ Fits(m) => EachFits(cn1)
    BY <1>2, <1>3 DEF EachFits
<1>5. \A c \in Conn : c # d => (Quiet(cn[c]) => Quiet(cn1[c]))
    BY <1>3 DEF Quiet
<1>6. m.tag = JoinTag => (Quiet(cn[d]) => Quiet(cn1[d]))
    BY <1>2, <1>3 DEF Quiet
<1>7. m.tag = JoinTag /\ AllQuiet(cn) => AllQuiet(cn1)
    BY <1>5, <1>6 DEF AllQuiet
<1>8. ASSUME OnePage(cn) PROVE OnePage(cn1)
    <2>1. \A c \in Conn : cn1[c].peer \in Controller =>
            /\ \A x \in InFlight(cn1[c].up) : x.tag # JoinTag
            /\ \A x \in InFlight(cn1[c].down) : x.tag # JoinTag /\ x.kind = "response"
        BY <1>2, <1>3, <1>8 DEF OnePage
    <2>2. \A c, e \in Conn : c = e \/ Quiet(cn1[c]) \/ Quiet(cn1[e])
        BY <1>5, <1>6, <1>8 DEF OnePage, AllQuiet
    <2>3. ASSUME NEW c \in Conn
          PROVE  /\ One(cn1[c].up) /\ One(cn1[c].down)
                 /\ OfPages(cn1[c].up) = {} \/ OfPages(cn1[c].down) = {}
        <3>1. /\ One(cn[c].up) /\ One(cn[c].down)
              /\ OfPages(cn[c].up) = {} \/ OfPages(cn[c].down) = {}
            BY <1>8 DEF OnePage, One
        <3>2. CASE c # d
            BY <1>3, <3>1, <3>2
        <3>3. CASE c = d /\ m.tag = JoinTag
            BY <1>2, <1>3, <3>1, <3>3 DEF One
        <3>4. CASE c = d /\ AllQuiet(cn)
            <4>1. OfPages(cn[d].up) = {} /\ OfPages(cn[d].down) = {}
                BY <3>4 DEF AllQuiet, Quiet
            <4>. QED
                BY <1>2, <1>3, <3>1, <3>4, <4>1
        <3>. QED
            BY <3>2, <3>3, <3>4
    <2>. QED
        BY <2>1, <2>2, <2>3 DEF OnePage, One
<1>. QED
    BY <1>4, <1>7, <1>8

-----------------------------------------------------------------------------
(* m was sent through descriptor f, or nothing was sent.                   *)
Moves(cn, cn1, f, m) ==
    \/ SameQueues(cn, cn1)
    \/ f \in Fd /\ fdtab[f] # 0 /\ SentDown(cn, cn1, fdtab[f], m)

(* A write to a connection moves what is written, or nothing; nothing when *)
(* it fails.                                                               *)
LEMMA WriteToMoves ==
    ASSUME NEW cn \in [Conn -> Connection], NEW c \in Conn, NEW m \in Message,
           NEW w \in WriteTo(cn, c, m)
    PROVE  /\ SameQueues(cn, w.conn) \/ SentDown(cn, w.conn, c, m)
           /\ w.rv = "failed" => SameQueues(cn, w.conn)
<1>1. cn[c] \in Connection /\ cn[c].link \in {"up", "fin", "rst", "hup"}
    BY DEF Connection
<1>2. CASE cn[c].link = "up"
    <2>. DEFINE x == [cn[c] EXCEPT !.down = Append(cn[c].down, m)]
    <2>1. w = [conn |-> [cn EXCEPT ![c].down = Append(@, m)], rv |-> "sent"]
        BY <1>2 DEF WriteTo
    <2>2. w.conn = [cn EXCEPT ![c] = x] /\ w.rv = "sent"
        BY <2>1
    <2>3. x.peer = cn[c].peer /\ x.up = cn[c].up /\ x.down = Append(cn[c].down, m)
        BY <1>1 DEF Connection
    <2>. HIDE DEF x
    <2>. QED
        BY <2>2, <2>3 DEF SentDown
<1>3. CASE cn[c].link # "up"
    <2>1. w.conn = cn \/ \E l \in {"rst", "hup"} : w.conn = [cn EXCEPT ![c].link = l]
        <3>1. CASE cn[c].link = "fin"
            BY <3>1 DEF WriteTo
        <3>2. CASE cn[c].link = "rst"
            <4>. DEFINE y == [cn EXCEPT ![c].link = "hup"]
            <4>1. \/ w = [conn |-> cn, rv |-> "sent"]
                  \/ w = [conn |-> y, rv |-> "failed"]
                  \/ w = [conn |-> cn, rv |-> "killed"]
                BY <3>2 DEF WriteTo
            <4>. HIDE DEF y
            <4>2. w.conn = cn \/ w.conn = y
                BY <4>1
            <4>. QED
                BY <4>2 DEF y
        <3>3. CASE cn[c].link = "hup"
            BY <3>3 DEF WriteTo
        <3>. QED
            BY <1>1, <1>3, <3>1, <3>2, <3>3
    <2>2. ASSUME NEW l \in {"rst", "hup"}, w.conn = [cn EXCEPT ![c].link = l]
          PROVE  SameQueues(cn, w.conn)
        <3>. DEFINE x == [cn[c] EXCEPT !.link = l]
        <3>1. /\ x.peer = cn[c].peer /\ x.up = cn[c].up /\ x.down = cn[c].down
              /\ w.conn = [cn EXCEPT ![c] = x]
            BY <1>1, <2>2 DEF Connection
        <3>. HIDE DEF x
        <3>. QED
            BY <3>1 DEF SameQueues
    <2>. QED
        BY <2>1, <2>2 DEF SameQueues
<1>. QED
    BY <1>2, <1>3

(* So does one through a descriptor.                                       *)
LEMMA WriteMoves ==
    ASSUME NetTypeOK, NEW cn \in [Conn -> Connection], NEW f, NEW m \in Message,
           NEW w \in Write(cn, f, m)
    PROVE  /\ Moves(cn, w.conn, f, m)
           /\ w.rv = "failed" => SameQueues(cn, w.conn)
<1>1. CASE ~(f \in Fd /\ fdtab[f] # 0)
    BY <1>1 DEF Write, Moves, SameQueues
<1>2. CASE f \in Fd /\ fdtab[f] # 0
    <2>1. fdtab[f] \in Conn /\ w \in WriteTo(cn, fdtab[f], m)
        BY <1>2, MaxConnAssumption DEF NetTypeOK, Conn, Write
    <2>. QED
        BY <1>2, <2>1, WriteToMoves DEF Moves
<1>. QED
    BY <1>1, <1>2

(* So does what is sent with its result ignored.                           *)
LEMMA SendMoves ==
    ASSUME NetTypeOK, NEW cn \in [Conn -> Connection], NEW cl, NEW f, NEW m \in Message,
           NEW o \in Send(cn, cl, f, m)
    PROVE  Moves(cn, o.conn, f, m)
<1>1. PICK w \in Write(cn, f, m) : o = Outcome(w.conn, cl, Fate(w))
    BY DEF Send
<1>. QED
    BY <1>1, WriteMoves DEF Outcome

(* What comes before a step that moves nothing does not matter.            *)
LEMMA MovesAfter ==
    ASSUME NEW cn, NEW cn1, NEW cn2, NEW f, NEW m, SameQueues(cn, cn1), Moves(cn1, cn2, f, m)
    PROVE  Moves(cn, cn2, f, m)
BY DEF Moves, SameQueues, SentDown

(* What the server sends for a request: an answer of its own, which is a   *)
(* refusal unless the command is one that it carries out itself, to where  *)
(* answers go; or the request, to a client.                                *)
Given(cl, f, req, g, m) ==
    /\ m \in Message /\ m.tag = req.tag /\ m.uri = req.uri
    /\ \/ /\ g = f /\ m.kind = "response"
          /\ m.status >= 400 \/ m.uri \in {"timer", "clientall"}
       \/ m.kind = "request" /\ \E k \in 1..Len(cl) : g = cl[k].fd

(* The handlers of requests send one message at most.                      *)
LEMMA RequestMoves ==
    ASSUME NetTypeOK, NEW cn \in [Conn -> Connection], NEW cl \in Seq(Client),
           NEW req \in Request, NEW f, NEW o \in ecafe_request_handle(cn, cl, req, f)
    PROVE  \/ SameQueues(cn, o.conn)
           \/ \E g, m : Given(cl, f, req, g, m) /\ Moves(cn, o.conn, g, m)
<1>0. SameQueues(cn, cn)
    BY DEF SameQueues
<1>. DEFINE no  == MakeResponse(req.uri, 400, FALSE, req.tag)
            yes(r) == MakeResponse(req.uri, 200, r, req.tag)
<1>a. Given(cl, f, req, f, no)
    BY DEF Given, MakeResponse, Message, Response, Request
<1>b. ASSUME req.uri \in {"timer", "clientall"}, NEW r \in BOOLEAN
      PROVE  Given(cl, f, req, f, yes(r))
    BY <1>b DEF Given, MakeResponse, Message, Response, Request
<1>c. no \in Message /\ \A r \in BOOLEAN : yes(r) \in Message
    BY DEF MakeResponse, Message, Response, Request
<1>d. ASSUME NEW cn1 \in [Conn -> Connection], NEW cl1, NEW o1 \in Refuse(cn1, cl1, f, req)
      PROVE  Moves(cn1, o1.conn, f, no)
    <2>1. o1 \in Send(cn1, cl1, f, no)
        BY <1>d DEF Refuse, Answer
    <2>. HIDE DEF no
    <2>. QED
        BY <1>c, <2>1, SendMoves
<1>e. ASSUME NEW cl1, NEW r \in BOOLEAN, o \in Send(cn, cl1, f, yes(r)),
             req.uri \in {"timer", "clientall"}
      PROVE  \E g, m : Given(cl, f, req, g, m) /\ Moves(cn, o.conn, g, m)
    <2>. DEFINE m == yes(r)
    <2>1. Given(cl, f, req, f, m) /\ m \in Message
        BY <1>b, <1>c, <1>e
    <2>. HIDE DEF yes
    <2>2. Moves(cn, o.conn, f, m)
        BY <1>e, <2>1, SendMoves
    <2>. QED
        BY <2>1, <2>2
<1>1. CASE req.uri = "clientall"
    <2>1. o \in ecafe_clientall(cn, cl, req, f)
        BY <1>1 DEF ecafe_request_handle, RelayedCommand
    <2>. DEFINE r == cl # <<>>
    <2>2. o = Outcome(cn, cl, "null_timer") \/ o \in Send(cn, cl, f, yes(r))
        BY <2>1 DEF ecafe_clientall, Answer
    <2>3. r \in BOOLEAN
        OBVIOUS
    <2>. HIDE DEF r, yes
    <2>. QED
        BY <1>0, <1>1, <1>e, <2>2, <2>3 DEF Outcome
<1>2. CASE req.uri = "client"
    <2>. DEFINE k  == client_get(cl, req.id)
                fd == cl[k].fd
    <2>1. o \in ecafe_client(cn, cl, req, f)
        BY <1>2 DEF ecafe_request_handle, RelayedCommand
    <2>. HIDE DEF no, yes
    <2>2. CASE req.id \notin Ids(cl)
        <3>1. o \in Refuse(cn, cl, f, req)
            BY <2>1, <2>2 DEF ecafe_client
        <3>. QED
            BY <1>a, <1>d, <3>1
    <2>3. CASE req.id \in Ids(cl)
        <3>1. PICK w \in Write(cn, fd, req) :
                  o \in IF w.rv = "failed" THEN Refuse(w.conn, cl, f, req)
                        ELSE {Outcome(w.conn, cl, Fate(w))}
            BY <2>1, <2>3 DEF ecafe_client
        <3>2. k \in 1..Len(cl)
            BY <2>3, ClientGetFinds
        <3>3. req \in Message /\ Given(cl, f, req, fd, req)
            BY <3>2 DEF Given, Message, Request
        <3>. HIDE DEF fd, k
        <3>4. /\ w.conn \in [Conn -> Connection] /\ Moves(cn, w.conn, fd, req)
              /\ w.rv = "failed" => SameQueues(cn, w.conn)
            BY <3>3, WriteOutcomes, WriteMoves
        <3>5. CASE w.rv = "failed"
            <4>1. Moves(w.conn, o.conn, f, no)
                BY <1>d, <3>1, <3>4, <3>5
            <4>. QED
                BY <1>a, <3>4, <3>5, <4>1, MovesAfter
        <3>6. CASE w.rv # "failed"
            BY <3>1, <3>3, <3>4, <3>6 DEF Outcome
        <3>. QED
            BY <3>5, <3>6
    <2>. QED
        BY <2>2, <2>3
<1>3. CASE req.uri = "timer"
    <2>. DEFINE k == client_get(cl, req.id)
    <2>1. o \in ecafe_timer(cn, cl, req, f)
        BY <1>3 DEF ecafe_request_handle, RelayedCommand
    <2>2. \E cl1 : o \in Refuse(cn, cl1, f, req) \/ o \in Send(cn, cl1, f, yes(FALSE))
        <3>1. CASE ~MayArm(cl, req)
            BY <2>1, <3>1 DEF ecafe_timer
        <3>2. CASE MayArm(cl, req) /\ ~Arms(cl, req)
            <4>. DEFINE Bad(t) == Refuse(cn, [cl EXCEPT ![k].timer = t], f, req)
            <4>1. o \in UNION {Bad(t) : t \in {"armed", "due", "never"}}
                BY <2>1, <3>2 DEF ecafe_timer
            <4>2. PICK t \in {"armed", "due", "never"} : o \in Bad(t)
                <5>. HIDE DEF Bad
                <5>. QED
                    BY <4>1
            <4>. QED
                BY <4>2
        <3>3. CASE Arms(cl, req)
            <4>1. o \in Agree(cn, [cl EXCEPT ![k].timer = "armed",
                                             ![k].timer_uri = req.action], f, req)
                BY <2>1, <3>3 DEF ecafe_timer, Arms
            <4>. QED
                BY <4>1 DEF Agree, Answer
        <3>. QED
            BY <3>1, <3>2, <3>3
    <2>. HIDE DEF no, yes
    <2>3. PICK cl1 : o \in Refuse(cn, cl1, f, req) \/ o \in Send(cn, cl1, f, yes(FALSE))
        BY <2>2
    <2>4. CASE o \in Refuse(cn, cl1, f, req)
        BY <1>a, <1>d, <2>4
    <2>5. CASE o \in Send(cn, cl1, f, yes(FALSE))
        BY <1>3, <1>e, <2>5
    <2>. QED
        BY <2>3, <2>4, <2>5
<1>4. CASE req.uri \in RelayedCommand \cup {"getdetails", "screenshot"}
    <2>. DEFINE k  == client_get(cl, req.id)
                fd == cl[k].fd
                m  == Rewritten(req)
    <2>1. o \in Relay(cn, cl, req)
        BY <1>4 DEF ecafe_request_handle, RelayedCommand
    <2>2. CASE req.id = 0 \/ req.id \notin Ids(cl)
        BY <1>0, <2>1, <2>2 DEF Relay, Outcome
    <2>3. CASE ~(req.id = 0 \/ req.id \notin Ids(cl))
        <3>1. m \in Message /\ m.tag = req.tag /\ m.uri = req.uri /\ m.kind = "request"
            BY DEF Rewritten, Message, Request, Param
        <3>2. o \in Send(cn, cl, fd, m)
            BY <2>1, <2>3 DEF Relay
        <3>3. k \in 1..Len(cl)
            BY <2>3, ClientGetFinds
        <3>. HIDE DEF m
        <3>4. Given(cl, f, req, fd, m)
            BY <3>1, <3>3 DEF Given
        <3>. HIDE DEF fd, k
        <3>. QED
            BY <3>1, <3>2, <3>4, SendMoves
    <2>. QED
        BY <2>2, <2>3
<1>5. CASE req.uri \notin RelayedCommand \cup {"getdetails", "screenshot",
                                              "clientall", "client", "timer"}
    <2>1. o = Outcome(cn, cl, "running")
        BY <1>5 DEF ecafe_request_handle
    <2>. QED
        BY <1>0, <2>1 DEF Outcome
<1>. QED
    BY <1>1, <1>2, <1>3, <1>4, <1>5

(* The handlers of responses pass on what an agent answered to a command   *)
(* of a page, or nothing.                                                  *)
LEMMA ResponseMoves ==
    ASSUME NetTypeOK, NEW cn \in [Conn -> Connection], NEW cl, NEW k,
           NEW res \in Response, NEW f, NEW o \in ecafe_response_handle(cn, cl, k, res, f)
    PROVE  \/ SameQueues(cn, o.conn)
           \/ res.uri \in RelayedCommand \cup {"client"} /\ Moves(cn, o.conn, f, res)
<1>1. \/ o.conn = cn
      \/ /\ res.uri \in RelayedCommand \cup {"client"}
         /\ \E cl1 : o \in Send(cn, cl1, f, res)
    BY DEF ecafe_response_handle, Outcome
<1>2. res \in Message
    BY DEF Message
<1>. QED
    BY <1>1, <1>2, SendMoves DEF SameQueues

-----------------------------------------------------------------------------
(* A session that goes on has had no controller's connection closed.       *)
LEMMA NoneClosed ==
    ASSUME IInv, RoutingInv, Undisturbed
    PROVE  /\ ~WebClosed
           /\ Registered(conn, clients) /\ OwnSocket
<1>1. \A c \in Conn : conn[c].srv = "closed" => c \in 1..nconn /\ conn[c].link # "up"
    BY DEF RoutingInv, NumbersOK, IInv, PeersCloseFirst, TypeOK, NetTypeOK, Conn
<1>2. ~WebClosed
    BY <1>1 DEF WebClosed, Undisturbed
<1>. QED
    BY <1>2 DEF RoutingInv

(* A queue of pages' messages without one is empty.                        *)
LEMMA NoPages ==
    ASSUME NEW q \in Seq(Message), \A m \in InFlight(q) : m.tag # JoinTag
    PROVE  /\ OfPages(q) = DOMAIN q
           /\ OfPages(q) = {} => q = <<>>
           /\ One(q) => Len(q) <= 1
<1>1. Len(q) \in Nat /\ DOMAIN q = 1..Len(q)
    BY LenProperties
<1>2. OfPages(q) = 1..Len(q)
    BY <1>1 DEF OfPages, InFlight
<1>3. ASSUME OfPages(q) = {} PROVE q = <<>>
    <2>1. Len(q) = 0
        BY <1>1, <1>2, <1>3
    <2>. QED
        BY <2>1, EmptySeq
<1>4. ASSUME One(q), Len(q) > 1 PROVE FALSE
    <2>1. 1 \in OfPages(q) /\ 2 \in OfPages(q)
        BY <1>1, <1>2, <1>4
    <2>. QED
        BY <1>4, <2>1 DEF One
<1>. QED
    BY <1>1, <1>2, <1>3, <1>4

(* What the server and the agents leave alone: who is at the other end,    *)
(* whether a controller has gone, and what the controllers know.           *)
Passes ==
    /\ \A c \in Conn : /\ conn'[c].peer = conn[c].peer
                       /\ conn'[c].link = "up" => conn[c].link = "up"
                       /\ conn[c].peer \in Controller /\ conn[c].link = "up" =>
                             conn'[c].link = "up"
    /\ UNCHANGED <<nconn, controllerVars>>
    /\ fired' = 0 => fired = 0
    /\ Running' => Running

(* What is left to show of a step that does: that it keeps one page's      *)
(* message at most.                                                        *)
LEMMA SessionFrame ==
    ASSUME IInv, IInv', SessionInv, Passes,
           fired' = 0 /\ Undisturbed /\ OnePage(conn) /\ EachFits(conn) =>
               /\ OnePage(conn') /\ EachFits(conn)'
               /\ AllQuiet(conn) => AllQuiet(conn')
               /\ \A x \in executed' \ executed : x.tag <= nreq
               /\ Running \/ \A c \in Conn : conn[c].peer \in Controller =>
                                conn'[c].down = conn[c].down
    PROVE  SessionInv'
<1>0. /\ \A c \in 1..nconn : c \in Conn
      /\ UNCHANGED <<nconn, nreq, web>>
      /\ \A c \in Conn : conn'[c].down \in Seq(Message)
    BY MaxConnAssumption DEF IInv, TypeOK, NetTypeOK, Connection, Passes, controllerVars, Conn
<1>1. WebsConnected'
    BY <1>0 DEF SessionInv, WebsConnected, Passes
<1>2. SUFFICES ASSUME Undisturbed'
               PROVE  /\ OnePage(conn)' /\ EachFits(conn)'
                      /\ \A x \in executed' : x.tag <= nreq'
                      /\ \A w \in Controller :
                           /\ web'[w].tag \in {0, nreq'}
                           /\ web'[w].conn # 0 /\ web'[w].tag = 0 =>
                                /\ conn'[web'[w].conn].down = <<>>
                                /\ Running' => AllQuiet(conn)'
                      /\ (\A c \in 1..nconn' : conn'[c].peer \notin Controller) =>
                             AllQuiet(conn)'
    BY <1>1 DEF SessionInv
<1>3. Undisturbed /\ fired' = 0
    BY <1>0, <1>2 DEF Undisturbed, OneSession, Passes
<1>4. /\ OnePage(conn) /\ EachFits(conn)
      /\ \A x \in executed : x.tag <= nreq
      /\ \A w \in Controller :
           /\ web[w].tag \in {0, nreq}
           /\ web[w].conn # 0 /\ web[w].tag = 0 =>
                conn[web[w].conn].down = <<>> /\ (Running => AllQuiet(conn))
      /\ (\A c \in 1..nconn : conn[c].peer \notin Controller) => AllQuiet(conn)
    BY <1>3 DEF SessionInv
<1>5. /\ OnePage(conn') /\ EachFits(conn)'
      /\ AllQuiet(conn) => AllQuiet(conn')
      /\ \A x \in executed' \ executed : x.tag <= nreq
      /\ Running \/ \A c \in Conn : conn[c].peer \in Controller =>
                       conn'[c].down = conn[c].down
    BY <1>3, <1>4
<1>6. ASSUME NEW w \in Controller, web[w].conn # 0, web[w].tag = 0
      PROVE  conn'[web[w].conn].down = <<>> /\ (Running' => AllQuiet(conn'))
    <2>. DEFINE c == web[w].conn
    <2>1. c \in Conn /\ conn[c].peer \in Controller
        BY <1>0, <1>6 DEF SessionInv, WebsConnected
    <2>2. CASE Running
        <3>1. AllQuiet(conn')
            BY <1>4, <1>5, <1>6, <2>2
        <3>2. \A m \in InFlight(conn'[c].down) : m.tag # JoinTag
            BY <1>5, <2>1 DEF OnePage, Passes
        <3>3. OfPages(conn'[c].down) = {}
            BY <2>1, <3>1 DEF AllQuiet, Quiet
        <3>. QED
            BY <1>0, <2>1, <3>1, <3>2, <3>3, NoPages
    <2>3. CASE ~Running
        BY <1>4, <1>5, <1>6, <2>1, <2>3 DEF Passes
    <2>. QED
        BY <2>2, <2>3
<1>7. (\A c \in 1..nconn : conn'[c].peer \notin Controller) => AllQuiet(conn')
    BY <1>0, <1>4, <1>5 DEF Passes
<1>. QED
    BY <1>0, <1>4, <1>5, <1>6, <1>7

(* In particular of a step of the server.                                  *)
LEMMA ServerFrame ==
    ASSUME IInv, IInv', SessionInv, Running, \A c \in Conn : conn'[c].peer = conn[c].peer,
           \A c \in Conn : conn'[c].link = "up" <=> conn[c].link = "up",
           UNCHANGED <<nconn, executed, controllerVars>>, fired' = 0 => fired = 0,
           fired' = 0 /\ Undisturbed /\ OnePage(conn) /\ EachFits(conn) =>
               /\ OnePage(conn') /\ EachFits(conn')
               /\ AllQuiet(conn) => AllQuiet(conn')
    PROVE  SessionInv'
<1>1. Passes
    BY DEF Passes
<1>2. EachFits(conn') => EachFits(conn)'
    BY DEF EachFits, Fits, CarriedOut, controllerVars
<1>. QED
    BY <1>1, <1>2, SessionFrame

-----------------------------------------------------------------------------
(* One queue of connection c, which was q, becomes left.                   *)
Becomes(cn, cn1, c, q, left) ==
    /\ \A d \in Conn : /\ cn1[d].peer = cn[d].peer
                       /\ d # c => cn1[d].up = cn[d].up /\ cn1[d].down = cn[d].down
    /\ \/ q = cn[c].up /\ cn1[c].up = left /\ cn1[c].down = cn[c].down
       \/ q = cn[c].down /\ cn1[c].down = left /\ cn1[c].up = cn[c].up

(* A read() of n messages from one queue of connection c: if it took the   *)
(* one page's message there was, there is none left anywhere.              *)
LEMMA TakePages ==
    ASSUME NEW cn, NEW cn1, NEW c \in Conn, NEW q \in Seq(Message), NEW n \in 1..Len(q),
           Becomes(cn, cn1, c, q, SubSeq(q, n + 1, Len(q)))
    PROVE  /\ Fewer(cn, cn1)
           /\ OnePage(cn) /\ (\E k \in 1..n : q[k].tag # JoinTag) => AllQuiet(cn1)
           /\ q[1] \in InFlight(q)
           /\ q[1].tag # JoinTag => 1 \in OfPages(q)
<1>. DEFINE left == SubSeq(q, n + 1, Len(q))
<1>0. Becomes(cn, cn1, c, q, left)
    OBVIOUS
<1>1. /\ Reduced(q, left)
      /\ One(q) /\ (\E k \in 1..n : q[k].tag # JoinTag) => OfPages(left) = {}
    BY ReadReduces
<1>2. DOMAIN q = 1..Len(q) /\ Len(q) \in Nat
    BY LenProperties
<1>3. q[1] \in InFlight(q) /\ 1 \in DOMAIN q
    BY <1>2 DEF InFlight
<1>. HIDE DEF left
<1>4. Fewer(cn, cn1)
    BY <1>0, <1>1, EmptyReduces DEF Fewer, Becomes
<1>5. ASSUME OnePage(cn), NEW k \in 1..n, q[k].tag # JoinTag PROVE AllQuiet(cn1)
    <2>1. k \in OfPages(q)
        BY <1>2, <1>5 DEF OfPages
    <2>2. One(q) /\ ~Quiet(cn[c])
        <3>1. q = cn[c].up \/ q = cn[c].down
            BY DEF Becomes
        <3>. QED
            BY <1>5, <2>1, <3>1 DEF OnePage, One, Quiet
    <2>3. \A d \in Conn : d # c => Quiet(cn1[d])
        <3>1. \A d \in Conn : d # c => Quiet(cn[d])
            BY <1>5, <2>2 DEF OnePage
        <3>. QED
            BY <1>0, <3>1 DEF Quiet, Becomes
    <2>4. OfPages(left) = {}
        BY <1>1, <1>5, <2>2
    <2>5. Quiet(cn1[c])
        BY <1>0, <1>5, <2>1, <2>4 DEF OnePage, Quiet, Becomes
    <2>. QED
        BY <2>3, <2>5 DEF AllQuiet
<1>6. q[1].tag # JoinTag => 1 \in OfPages(q)
    BY <1>3 DEF OfPages
<1>. QED
    BY <1>3, <1>4, <1>5, <1>6

(* What the loop does for one connection: it reads from it, and then sends *)
(* nothing, or one message because of a page's.                            *)
LEMMA ReadAndSent ==
    ASSUME IInv, NEW c \in Conn, NEW n \in 1..Len(conn[c].up), NEW rest, NEW cn1,
           OnePage(conn), EachFits(conn),
           rest = [conn EXCEPT ![c].up = SubSeq(@, n + 1, Len(@))],
           \/ SameQueues(rest, cn1)
           \/ \E d \in Conn, m \in Message :
                 /\ SentDown(rest, cn1, d, m)
                 /\ conn[c].up[1].tag # JoinTag
                 /\ m.tag # JoinTag /\ Fits(m)
                 /\ conn[d].peer \in Controller => m.kind = "response"
    PROVE  OnePage(cn1) /\ EachFits(cn1) /\ (AllQuiet(conn) => AllQuiet(cn1))
<1>. DEFINE q    == conn[c].up
            left == SubSeq(q, n + 1, Len(q))
            x    == [conn[c] EXCEPT !.up = left]
<1>1. conn \in [Conn -> Connection] /\ q \in Seq(Message) /\ conn[c] \in Connection
    BY DEF IInv, TypeOK, NetTypeOK, Connection
<1>2. rest \in [Conn -> Connection]
    BY Taken
<1>3. /\ rest[c].up = left /\ rest[c].down = conn[c].down /\ rest[c].peer = conn[c].peer
      /\ \A d \in Conn : d # c => rest[d] = conn[d]
    <2>1. rest = [conn EXCEPT ![c] = x]
        BY <1>1
    <2>2. x.up = left /\ x.down = conn[c].down /\ x.peer = conn[c].peer
        BY <1>1 DEF Connection
    <2>. HIDE DEF x, left
    <2>. QED
        BY <1>1, <2>1, <2>2
<1>4. /\ Fewer(conn, rest)
      /\ OnePage(conn) /\ (\E k \in 1..n : q[k].tag # JoinTag) => AllQuiet(rest)
      /\ q[1].tag # JoinTag => 1 \in OfPages(q)
    <2>1. Becomes(conn, rest, c, q, left)
        BY <1>3 DEF Becomes
    <2>2. n \in 1..Len(q)
        OBVIOUS
    <2>. HIDE DEF q
    <2>. QED
        BY <1>1, <2>1, <2>2, TakePages
<1>5. /\ OnePage(rest) /\ EachFits(rest)
      /\ AllQuiet(conn) => AllQuiet(rest)
    BY <1>4, FewerPages DEF AllQuiet
<1>6. CASE SameQueues(rest, cn1)
    <2>1. Fewer(rest, cn1)
        BY <1>6, SameIsFewer
    <2>. QED
        BY <1>5, <2>1, FewerPages DEF AllQuiet
<1>7. ASSUME NEW d \in Conn, NEW m \in Message, SentDown(rest, cn1, d, m),
             q[1].tag # JoinTag, m.tag # JoinTag, Fits(m),
             conn[d].peer \in Controller => m.kind = "response"
      PROVE  OnePage(cn1) /\ EachFits(cn1) /\ ~AllQuiet(conn)
    <2>1. 1 \in 1..n
        BY <1>1, LenProperties
    <2>2. AllQuiet(rest)
        BY <1>4, <1>7, <2>1
    <2>3. ~AllQuiet(conn)
        BY <1>4, <1>7 DEF AllQuiet, Quiet
    <2>4. rest[d].peer = conn[d].peer
        BY <1>3
    <2>5. OnePage(cn1) /\ EachFits(cn1)
        BY <1>2, <1>5, <1>7, <2>2, <2>4, SentPages
    <2>. QED
        BY <2>3, <2>5
<1>. QED
    BY <1>6, <1>7

(* A close by the server leaves fewer messages.                            *)
LEMMA ClosedPages ==
    ASSUME IInv, NEW c \in Conn, conn' = ServerClosed(conn, c)
    PROVE  /\ \A d \in Conn : /\ conn'[d].peer = conn[d].peer
                              /\ conn'[d].link = "up" <=> conn[d].link = "up"
           /\ OnePage(conn) => OnePage(conn')
           /\ EachFits(conn) => EachFits(conn')
           /\ AllQuiet(conn) => AllQuiet(conn')
<1>1. conn \in [Conn -> Connection] /\ conn[c] \in Connection
    BY DEF IInv, TypeOK, NetTypeOK
<1>2. /\ conn'[c].peer = conn[c].peer /\ conn'[c].link = conn[c].link
      /\ conn'[c].up = <<>> /\ conn'[c].down = conn[c].down
      /\ \A d \in Conn : d # c => conn'[d] = conn[d]
    BY <1>1 DEF ServerClosed, Connection
<1>3. Fewer(conn, conn')
    BY <1>2, EmptyReduces DEF Fewer
<1>. QED
    BY <1>2, <1>3, FewerPages DEF AllQuiet

(* So does, of course, a read() that fails.                                *)
LEMMA ErrorPages ==
    ASSUME IInv, NEW c \in Conn, ReadError(c)
    PROVE  /\ \A d \in Conn : /\ conn'[d].peer = conn[d].peer
                              /\ conn'[d].link = "up" <=> conn[d].link = "up"
           /\ OnePage(conn) => OnePage(conn')
           /\ EachFits(conn) => EachFits(conn')
           /\ AllQuiet(conn) => AllQuiet(conn')
<1>0. conn \in [Conn -> Connection] /\ conn[c].link # "up"
    BY DEF IInv, TypeOK, NetTypeOK, ReadError, AtEof
<1>. DEFINE x == [conn[c] EXCEPT !.link = "hup"]
<1>1. /\ x.peer = conn[c].peer /\ x.link = "hup"
      /\ x.up = conn[c].up /\ x.down = conn[c].down
    BY <1>0 DEF Connection
<1>2. conn' = [conn EXCEPT ![c] = x]
    BY <1>0 DEF ReadError
<1>. HIDE DEF x
<1>3. SameQueues(conn, conn')
    BY <1>0, <1>1, <1>2 DEF SameQueues
<1>4. Fewer(conn, conn')
    BY <1>3, SameIsFewer
<1>. QED
    BY <1>0, <1>1, <1>2, <1>4, FewerPages DEF AllQuiet

(* The loop serves the controller.                                         *)
LEMMA ServeWebSession ==
    ASSUME IInv, IInv', RoutingInv, SessionInv, ServeWeb,
           UNCHANGED <<executed, controllerVars>>
    PROVE  SessionInv'
<1>. DEFINE c == fdtab[s_connfd]
<1>1. /\ pc = "web" /\ UNCHANGED <<nconn, fired>>
      /\ ServeWebData(c) \/ ServeWebEof(c) \/ ReadError(c)
    BY DEF ServeWeb
<1>2. /\ s_connfd \in Fd /\ c # 0 /\ c \in Conn /\ conn \in [Conn -> Connection]
      /\ conn[c] \in Connection /\ NetTypeOK /\ clients \in Seq(Client)
    <2>1. s_connfd \in Fd /\ s_connfd \in allset
        BY <1>1, Descriptors DEF IInv, TypeOK, LoopOK, ServerTypeOK
    <2>2. c # 0 /\ c \in 0..MaxConn
        BY <2>1, Descriptors DEF IInv, TypeOK, SelectNeverFails, NetTypeOK
    <2>3. c \in Conn
        BY <2>2, MaxConnAssumption DEF Conn
    <2>. QED
        BY <2>1, <2>2, <2>3 DEF IInv, TypeOK, NetTypeOK, ServerTypeOK
<1>3. Undisturbed => conn[c].peer \in Controller
    BY <1>2, Descriptors, NoneClosed DEF OwnSocket
<1>. HIDE DEF c
<1>4. SUFFICES /\ \A d \in Conn : /\ conn'[d].peer = conn[d].peer
                                  /\ conn'[d].link = "up" <=> conn[d].link = "up"
               /\ Undisturbed /\ OnePage(conn) /\ EachFits(conn) =>
                     /\ OnePage(conn') /\ EachFits(conn')
                     /\ AllQuiet(conn) => AllQuiet(conn')
    BY <1>1, ServerFrame DEF Running, Stage
<1>5. CASE ServeWebData(c)
    <2>1. PICK n \in 1..Len(conn[c].up) :
            LET batch == SubSeq(conn[c].up, 1, n)
                rest  == [conn EXCEPT ![c].up = SubSeq(@, n + 1, Len(@))]
                req   == request_parse(batch)
            IN  IF IsRequest(batch)
                THEN \E o \in ecafe_request_handle(rest, clients, req, s_connfd) : Handled(o)
                ELSE conn' = rest
        BY <1>5 DEF ServeWebData
    <2>. DEFINE batch == SubSeq(conn[c].up, 1, n)
                rest  == [conn EXCEPT ![c].up = SubSeq(@, n + 1, Len(@))]
                req   == request_parse(batch)
    <2>2. /\ batch \in Seq(Message) /\ Len(batch) # 0
          /\ rest \in [Conn -> Connection] /\ Alike(conn, rest)
        BY <1>2, Taken
    <2>3. batch[1] = conn[c].up[1] /\ conn[c].up[1] \in InFlight(conn[c].up)
        <3>1. conn[c].up \in Seq(Message) /\ Len(conn[c].up) \in Nat
            BY <1>2, LenProperties DEF Connection
        <3>. QED
            BY <3>1, LenProperties DEF InFlight
    <2>. HIDE DEF batch
    <2>4. CASE IsRequest(batch)
        <3>1. PICK o \in ecafe_request_handle(rest, clients, req, s_connfd) : Handled(o)
            BY <2>1, <2>4 DEF batch
        <3>2. req \in Request
            BY <2>2, <2>4, ParsedRequest
        <3>3. /\ req.tag = batch[1].tag /\ req.uri = batch[1].uri
              /\ batch[1].kind = "request"
            <4>1. batch[1] \in Message
                BY <2>2, ElementOfSeq, LenProperties
            <4>2. batch[1] \in Request
                BY <2>4, <4>1 DEF IsRequest, Message, Response
            <4>. QED
                BY <4>2 DEF request_parse, Request
        <3>. HIDE DEF req, rest
        <3>4. Sound(o, rest, clients)
            BY <1>2, <2>2, <3>1, <3>2, RequestSound
        <3>5. Alike(conn, conn')
            BY <2>2, <3>1, <3>4, AlikeTransitive DEF Sound, Handled
        <3>6. ASSUME Undisturbed, OnePage(conn), EachFits(conn)
              PROVE  \/ SameQueues(rest, conn')
                     \/ \E d \in Conn, m \in Message :
                           /\ SentDown(rest, conn', d, m)
                           /\ conn[c].up[1].tag # JoinTag
                           /\ m.tag # JoinTag /\ Fits(m)
                           /\ conn[d].peer \in Controller => m.kind = "response"
            <4>1. \/ SameQueues(rest, conn')
                  \/ \E g, m : /\ Given(clients, s_connfd, req, g, m)
                               /\ Moves(rest, conn', g, m)
                BY <1>2, <2>2, <3>1, <3>2, RequestMoves DEF Handled
            <4>2. SUFFICES ASSUME NEW g, NEW m, Given(clients, s_connfd, req, g, m),
                                  g \in Fd, fdtab[g] # 0,
                                  SentDown(rest, conn', fdtab[g], m)
                           PROVE  \E d \in Conn, m1 \in Message :
                                    /\ SentDown(rest, conn', d, m1)
                                    /\ conn[c].up[1].tag # JoinTag
                                    /\ m1.tag # JoinTag /\ Fits(m1)
                                    /\ conn[d].peer \in Controller => m1.kind = "response"
                BY <4>1 DEF Moves
            <4>3. fdtab[g] \in Conn /\ m \in Message /\ m.tag = req.tag /\ m.uri = req.uri
                BY <1>2, <4>2, MaxConnAssumption DEF NetTypeOK, Conn, Given
            <4>4. batch[1].tag # JoinTag /\ Fits(batch[1])
                BY <1>2, <1>3, <2>3, <3>6 DEF OnePage, EachFits
            <4>5. Fits(m)
                <5>1. m.kind = "response" => m.status \in Nat
                    BY <4>3 DEF Message, Request, Response
                <5>2. \/ m.kind = "response" /\ m.status >= 400
                      \/ m.uri \in {"timer", "clientall"}
                      \/ m.kind = "request"
                    BY <4>2 DEF Given
                <5>. QED
                    BY <3>3, <4>3, <4>4, <5>1, <5>2 DEF Fits
            <4>6. conn[fdtab[g]].peer \in Controller => m.kind = "response"
                BY <3>6, <4>2, NoneClosed, PeersAssumption DEF Given, Registered
            <4>. QED
                BY <2>3, <3>3, <4>2, <4>3, <4>4, <4>5, <4>6
        <3>7. ASSUME Undisturbed, OnePage(conn), EachFits(conn)
              PROVE  /\ OnePage(conn') /\ EachFits(conn')
                     /\ AllQuiet(conn) => AllQuiet(conn')
            BY <1>2, <3>6, <3>7, ReadAndSent DEF rest
        <3>. QED
            BY <3>5, <3>7 DEF Alike
    <2>5. CASE ~IsRequest(batch)
        <3>1. conn' = rest
            BY <2>1, <2>5 DEF batch
        <3>. HIDE DEF rest
        <3>2. SameQueues(rest, conn')
            BY <3>1 DEF SameQueues
        <3>3. ASSUME Undisturbed, OnePage(conn), EachFits(conn)
              PROVE  /\ OnePage(conn') /\ EachFits(conn')
                     /\ AllQuiet(conn) => AllQuiet(conn')
            BY <1>2, <3>2, <3>3, ReadAndSent DEF rest
        <3>. QED
            BY <2>2, <3>1, <3>3 DEF Alike
    <2>. QED
        BY <2>4, <2>5
<1>6. CASE ServeWebEof(c)
    <2>1. conn' = ServerClosed(conn, c)
        BY <1>6 DEF ServeWebEof
    <2>. QED
        BY <1>2, <2>1, ClosedPages
<1>7. CASE ReadError(c)
    BY <1>2, <1>7, ErrorPages
<1>. QED
    BY <1>1, <1>5, <1>6, <1>7
(* The loop serves one client.                                             *)
LEMMA ServeClientSession ==
    ASSUME IInv, IInv', RoutingInv, SessionInv, ServeClient,
           UNCHANGED <<executed, controllerVars>>
    PROVE  SessionInv'
<1>. DEFINE j  == FirstOf(LoopTargets)
            id == client_array[j]
            fd == FdAt(j)
            c  == fdtab[fd]
<1>1. /\ pc = "clients" /\ LoopTargets # {}
      /\ \/ c # 0 /\ ServeClientData(c, client_get(clients, id))
         \/ c # 0 /\ conn' = ServerClosed(conn, c)
         \/ c # 0 /\ ReadError(c)
         \/ UNCHANGED conn
      /\ UNCHANGED <<nconn, fired>>
    BY DEF ServeClient, ServeClientEof
<1>2. j \in Nat /\ j >= 1 /\ j <= nclients
    <2>1. LoopTargets \subseteq i..nclients
        BY DEF LoopTargets
    <2>. QED
        BY <1>1, <2>1, FirstPosition
<1>. HIDE DEF j
<1>3. /\ j \in 1..Len(clients) /\ client_get(clients, id) = j /\ fd = clients[j].fd
      /\ clients \in Seq(Client)
    BY <1>2, Position DEF IInv, TypeOK, ServerTypeOK, FdAt
<1>4. /\ conn \in [Conn -> Connection] /\ NetTypeOK /\ fd \in Fd
      /\ c # 0 => c \in Conn
    <2>1. fd \in Fd
        BY <1>3, Members
    <2>. HIDE DEF fd, id
    <2>2. c # 0 => c \in Conn
        BY <2>1, MaxConnAssumption DEF Conn, IInv, TypeOK, NetTypeOK
    <2>. QED
        BY <2>1, <2>2 DEF IInv, TypeOK, NetTypeOK
<1>. HIDE DEF c, fd
<1>5. SUFFICES /\ \A d \in Conn : /\ conn'[d].peer = conn[d].peer
                                  /\ conn'[d].link = "up" <=> conn[d].link = "up"
               /\ Undisturbed /\ OnePage(conn) /\ EachFits(conn) =>
                     /\ OnePage(conn') /\ EachFits(conn')
                     /\ AllQuiet(conn) => AllQuiet(conn')
    BY <1>1, ServerFrame DEF Running, Stage
<1>6. CASE c # 0 /\ ServeClientData(c, client_get(clients, id))
    <2>1. PICK n \in 1..Len(conn[c].up) :
            LET batch == SubSeq(conn[c].up, 1, n)
                rest  == [conn EXCEPT ![c].up = SubSeq(@, n + 1, Len(@))]
            IN  IF ResponseParses(batch)
                THEN \E o \in ecafe_response_handle(rest, clients, j, response_parse(batch),
                                                    s_connfd) : Handled(o)
                ELSE conn' = rest
        BY <1>3, <1>6 DEF ServeClientData
    <2>. DEFINE batch == SubSeq(conn[c].up, 1, n)
                rest  == [conn EXCEPT ![c].up = SubSeq(@, n + 1, Len(@))]
                res   == response_parse(batch)
    <2>2. /\ batch \in Seq(Message) /\ Len(batch) # 0
          /\ rest \in [Conn -> Connection] /\ Alike(conn, rest)
        BY <1>4, <1>6, Taken
    <2>3. batch[1] = conn[c].up[1] /\ conn[c].up[1] \in InFlight(conn[c].up)
        <3>1. conn[c].up \in Seq(Message) /\ Len(conn[c].up) \in Nat
            BY <1>4, <1>6, LenProperties DEF Connection
        <3>. QED
            BY <3>1, LenProperties DEF InFlight
    <2>. HIDE DEF batch
    <2>4. CASE ResponseParses(batch)
        <3>1. PICK o \in ecafe_response_handle(rest, clients, j, res, s_connfd) : Handled(o)
            BY <2>1, <2>4 DEF batch
        <3>2. res \in Response
            BY <2>2, <2>4, ParsedResponse
        <3>3. /\ res.tag = batch[1].tag /\ res.uri = batch[1].uri
              /\ res.kind = batch[1].kind /\ res.status = batch[1].status
            <4>1. batch[1] \in Message
                BY <2>2, ElementOfSeq, LenProperties
            <4>2. batch[1] \in Response
                BY <2>4, <4>1 DEF ResponseParses, Message, Request
            <4>. QED
                BY <4>2 DEF response_parse, Response
        <3>. HIDE DEF res, rest
        <3>4. Sound(o, rest, clients)
            BY <1>3, <1>4, <2>2, <3>1, <3>2, ResponseSound
        <3>5. Alike(conn, conn')
            BY <2>2, <3>1, <3>4, AlikeTransitive DEF Sound, Handled
        <3>6. ASSUME Undisturbed, OnePage(conn), EachFits(conn)
              PROVE  \/ SameQueues(rest, conn')
                     \/ \E d \in Conn, m \in Message :
                           /\ SentDown(rest, conn', d, m)
                           /\ conn[c].up[1].tag # JoinTag
                           /\ m.tag # JoinTag /\ Fits(m)
                           /\ conn[d].peer \in Controller => m.kind = "response"
            <4>1. \/ SameQueues(rest, conn')
                  \/ /\ res.uri \in RelayedCommand \cup {"client"}
                     /\ Moves(rest, conn', s_connfd, res)
                BY <1>4, <2>2, <3>1, <3>2, ResponseMoves DEF Handled
            <4>2. SUFFICES ASSUME res.uri \in RelayedCommand \cup {"client"},
                                  s_connfd \in Fd, fdtab[s_connfd] # 0,
                                  SentDown(rest, conn', fdtab[s_connfd], res)
                           PROVE  \E d \in Conn, m \in Message :
                                    /\ SentDown(rest, conn', d, m)
                                    /\ conn[c].up[1].tag # JoinTag
                                    /\ m.tag # JoinTag /\ Fits(m)
                                    /\ conn[d].peer \in Controller => m.kind = "response"
                BY <4>1 DEF Moves
            <4>3. fdtab[s_connfd] \in Conn /\ res \in Message /\ res.kind = "response"
                BY <1>4, <3>2, <4>2, MaxConnAssumption DEF NetTypeOK, Conn, Message, Response
            <4>4. Fits(batch[1])
                BY <1>4, <1>6, <2>3, <3>6 DEF EachFits
            <4>5. batch[1].tag # JoinTag
                BY <3>3, <4>2, <4>4 DEF Fits, RelayedCommand
            <4>6. Fits(res)
                BY <3>3, <4>4 DEF Fits
            <4>. QED
                BY <2>3, <3>3, <4>2, <4>3, <4>5, <4>6
        <3>7. ASSUME Undisturbed, OnePage(conn), EachFits(conn)
              PROVE  /\ OnePage(conn') /\ EachFits(conn')
                     /\ AllQuiet(conn) => AllQuiet(conn')
            BY <1>4, <1>6, <3>6, <3>7, ReadAndSent DEF rest
        <3>. QED
            BY <3>5, <3>7 DEF Alike
    <2>5. CASE ~ResponseParses(batch)
        <3>1. conn' = rest
            BY <2>1, <2>5 DEF batch
        <3>. HIDE DEF rest
        <3>2. SameQueues(rest, conn')
            BY <3>1 DEF SameQueues
        <3>3. ASSUME Undisturbed, OnePage(conn), EachFits(conn)
              PROVE  /\ OnePage(conn') /\ EachFits(conn')
                     /\ AllQuiet(conn) => AllQuiet(conn')
            BY <1>4, <1>6, <3>2, <3>3, ReadAndSent DEF rest
        <3>. QED
            BY <2>2, <3>1, <3>3 DEF Alike
    <2>. QED
        BY <2>4, <2>5
<1>7. CASE c # 0 /\ conn' = ServerClosed(conn, c)
    BY <1>4, <1>7, ClosedPages
<1>8. CASE c # 0 /\ ReadError(c)
    BY <1>4, <1>8, ErrorPages
<1>9. CASE UNCHANGED conn
    BY <1>9
<1>. QED
    BY <1>1, <1>6, <1>7, <1>8, <1>9

(* Steps that touch no connection.                                         *)
LEMMA StillSession ==
    ASSUME IInv, IInv', SessionInv, Running' => Running,
           UNCHANGED <<conn, nconn, executed, controllerVars, fired>>
    PROVE  SessionInv'
<1>1. Passes
    BY DEF Passes
<1>2. EachFits(conn) => EachFits(conn)'
    BY DEF EachFits, Fits, CarriedOut, controllerVars
<1>. QED
    BY <1>1, <1>2, SessionFrame

(* A connection whose messages stay in their queues.                       *)
LEMMA SetSame ==
    ASSUME NEW cn \in [Conn -> Connection], NEW c \in Conn, NEW y \in Connection,
           y.peer = cn[c].peer, y.link = cn[c].link, y.up = cn[c].up, y.down = cn[c].down
    PROVE  LET cn1 == [cn EXCEPT ![c] = y]
           IN  /\ cn1 \in [Conn -> Connection] /\ SameQueues(cn, cn1)
               /\ \A d \in Conn : cn1[d].link = cn[d].link
BY DEF SameQueues

(* A controller is accepted.                                               *)
LEMMA AcceptServerSession ==
    ASSUME IInv, IInv', SessionInv, AcceptServer, UNCHANGED <<executed, controllerVars>>
    PROVE  SessionInv'
<1>. DEFINE c == FirstOf(Backlog(Controller))
<1>1. /\ conn' = [conn EXCEPT ![c].srv = "open"] /\ pc = "accept_s"
      /\ UNCHANGED <<nconn, fired>>
    BY DEF AcceptServer
<1>2. c \in Conn /\ conn \in [Conn -> Connection]
    BY <1>1, FirstWaiting DEF IInv, TypeOK, NetTypeOK, LoopOK
<1>. HIDE DEF c
<1>. DEFINE y == [conn[c] EXCEPT !.srv = "open"]
<1>3. /\ y \in Connection /\ y.peer = conn[c].peer /\ y.link = conn[c].link
      /\ y.up = conn[c].up /\ y.down = conn[c].down
    BY <1>2 DEF Connection
<1>4. conn' = [conn EXCEPT ![c] = y]
    BY <1>1, <1>2
<1>. HIDE DEF y
<1>5. SameQueues(conn, conn') /\ \A d \in Conn : conn'[d].link = conn[d].link
    BY <1>2, <1>3, <1>4, SetSame
<1>6. Fewer(conn, conn')
    BY <1>5, SameIsFewer
<1>7. /\ OnePage(conn) => OnePage(conn')
      /\ EachFits(conn) => EachFits(conn')
      /\ AllQuiet(conn) => AllQuiet(conn')
    BY <1>6, FewerPages DEF AllQuiet
<1>. QED
    BY <1>1, <1>5, <1>7, ServerFrame DEF Running, Stage, SameQueues

(* An agent is accepted, and asked who it is.                              *)
LEMMA AcceptClientSession ==
    ASSUME IInv, IInv', SessionInv, AcceptClient, UNCHANGED <<executed, controllerVars>>
    PROVE  SessionInv'
<1>. DEFINE c  == FirstOf(Backlog(Machine))
            y  == [conn[c] EXCEPT !.srv = "open", !.id = NextId]
            cn == [conn EXCEPT ![c] = y]
<1>1. /\ \E w \in WriteTo([conn EXCEPT ![c].srv = "open", ![c].id = NextId], c, Details) :
            conn' = w.conn
      /\ pc = "accept_c" /\ UNCHANGED <<nconn, fired>>
    BY DEF AcceptClient
<1>2. /\ c \in Conn /\ conn[c].peer \in Machine /\ conn \in [Conn -> Connection]
      /\ NextId \in Nat
    <2>1. C_LISTENFD \in rset
        BY <1>1 DEF IInv, LoopOK
    <2>2. Backlog(Machine) # {}
        BY <1>1, <2>1 DEF IInv, LoopOK
    <2>. QED
        BY <2>2, FirstWaiting DEF IInv, TypeOK, NetTypeOK, ServerTypeOK, NextId
<1>. HIDE DEF c
<1>3. /\ y \in Connection /\ y.peer = conn[c].peer /\ y.link = conn[c].link
      /\ y.up = conn[c].up /\ y.down = conn[c].down
    BY <1>2 DEF Connection
<1>4. cn = [conn EXCEPT ![c].srv = "open", ![c].id = NextId]
    BY <1>2
<1>. HIDE DEF y
<1>5. /\ cn \in [Conn -> Connection] /\ SameQueues(conn, cn)
      /\ \A d \in Conn : cn[d].link = conn[d].link
    BY <1>2, <1>3, SetSame
<1>6. PICK w \in WriteTo(cn, c, Details) : conn' = w.conn
    BY <1>1, <1>4
<1>. HIDE DEF cn
<1>7. /\ Details \in Message /\ Details.tag = JoinTag /\ Fits(Details)
    <2>1. JoinTag \in Tag
        BY MaxReqAssumption DEF JoinTag, Tag
    <2>. QED
        BY <2>1 DEF Details, MakeRequest, Message, Request, Fits, Uri, ServerCommand, Param
<1>8. Alike(cn, conn')
    BY <1>2, <1>5, <1>6, <1>7, WriteToOutcomes
<1>9. Fewer(conn, cn)
    BY <1>5, SameIsFewer
<1>10. /\ OnePage(conn) => OnePage(cn)
       /\ EachFits(conn) => EachFits(cn)
       /\ AllQuiet(conn) => AllQuiet(cn)
    BY <1>9, FewerPages DEF AllQuiet
<1>11. /\ OnePage(cn) => OnePage(conn')
       /\ EachFits(cn) => EachFits(conn')
       /\ AllQuiet(cn) => AllQuiet(conn')
    <2>1. SameQueues(cn, conn') \/ SentDown(cn, conn', c, Details)
        BY <1>2, <1>5, <1>6, <1>7, WriteToMoves
    <2>2. CASE SameQueues(cn, conn')
        <3>1. Fewer(cn, conn')
            BY <2>2, SameIsFewer
        <3>. QED
            BY <3>1, FewerPages DEF AllQuiet
    <2>3. CASE SentDown(cn, conn', c, Details)
        <3>1. cn[c].peer \notin Controller
            BY <1>2, <1>5, PeersAssumption DEF SameQueues
        <3>. QED
            BY <1>2, <1>5, <1>7, <2>3, <3>1, SentPages
    <2>. QED
        BY <2>1, <2>2, <2>3
<1>12. \A d \in Conn : /\ conn'[d].peer = conn[d].peer
                       /\ conn'[d].link = "up" <=> conn[d].link = "up"
    BY <1>5, <1>8 DEF SameQueues, Alike
<1>. QED
    BY <1>1, <1>10, <1>11, <1>12, ServerFrame DEF Running, Stage

(* A timer fires: then nothing is said any more of what pages read.        *)
LEMMA TimeoutSession ==
    ASSUME IInv, IInv', SessionInv, CheckTimeout, UNCHANGED <<executed, controllerVars>>
    PROVE  SessionInv'
<1>. DEFINE j   == FirstOf(Expired)
            k   == client_get(clients, client_array[j])
            uri == clients[k].timer_uri
            req == MakeRequest(uri, clients[k].id, {}, TimerTag)
<1>1. /\ pc = "timeout" /\ Expired # {}
      /\ IF uri = NoUri
         THEN UNCHANGED <<conn, fired>>
         ELSE /\ \E o \in ecafe_request_handle(conn, clients, req, 0) : conn' = o.conn
              /\ fired' = fired + 1
      /\ UNCHANGED nconn
    BY DEF CheckTimeout
<1>2. j \in Nat /\ j >= 1 /\ j <= nclients
    <2>1. Expired \subseteq i..nclients
        BY DEF Expired
    <2>. QED
        BY <1>1, <2>1, FirstPosition
<1>. HIDE DEF j
<1>3. /\ clients[k] \in Client /\ clients \in Seq(Client)
      /\ conn \in [Conn -> Connection] /\ NetTypeOK
    BY <1>2, Position DEF IInv, TypeOK, NetTypeOK, ServerTypeOK
<1>. HIDE DEF k
<1>4. CASE uri = NoUri
    BY <1>1, <1>4, StillSession DEF Running, Stage
<1>5. CASE uri # NoUri
    <2>1. req \in Request
        <3>1. uri \in Uri /\ clients[k].id \in Nat /\ TimerTag \in Tag
            BY <1>3, MaxReqAssumption DEF Client, TimerTag, Tag
        <3>. QED
            BY <3>1 DEF MakeRequest, Request, NoUri, Uri
    <2>. HIDE DEF req
    <2>2. Alike(conn, conn')
        BY <1>1, <1>3, <1>5, <2>1, RequestSound DEF Sound
    <2>3. fired' # 0
        BY <1>1, <1>5 DEF IInv, TypeOK, ServerTypeOK
    <2>. QED
        BY <1>1, <2>2, <2>3, ServerFrame DEF Running, Stage, Alike
<1>. QED
    BY <1>4, <1>5

(* Every step of the server.                                               *)
LEMMA ServerSession ==
    ASSUME IInv, IInv', RoutingInv, SessionInv, Server
    PROVE  SessionInv'
<1>1. UNCHANGED <<executed, controllerVars>> /\ (ServerStep \/ TimePasses)
    BY DEF Server
<1>2. CASE Select \/ EndRound \/ EndTimeout \/ TimePasses
    BY <1>1, <1>2, StillSession
       DEF Select, EndRound, EndTimeout, TimePasses, Running, Stage, netVars
<1>. QED
    BY <1>1, <1>2, AcceptServerSession, AcceptClientSession, ServeWebSession,
       ServeClientSession, TimeoutSession DEF ServerStep

-----------------------------------------------------------------------------
(* What the agents do.                                                     *)

(* An agent has gone, with what it had not read.                           *)
LEMMA GoneSession ==
    ASSUME IInv, IInv', SessionInv, NEW c \in Conn, conn[c].peer \in Machine,
           NEW y \in Connection, conn' = [conn EXCEPT ![c] = y],
           y.peer = conn[c].peer, y.up = conn[c].up, y.down = <<>>, y.link # "up",
           UNCHANGED <<nconn, executed>>, UNCHANGED serverVars, UNCHANGED controllerVars
    PROVE  SessionInv'
<1>1. conn'[c] = y /\ \A d \in Conn : d # c => conn'[d] = conn[d]
    BY DEF IInv, TypeOK, NetTypeOK
<1>2. Fewer(conn, conn')
    BY <1>1, EmptyReduces DEF Fewer
<1>3. Passes
    BY <1>1, PeersAssumption DEF Passes, serverVars, Running
<1>4. EachFits(conn') => EachFits(conn)'
    BY DEF EachFits, Fits, CarriedOut, controllerVars
<1>5. \A d \in Conn : conn[d].peer \in Controller => conn'[d].down = conn[d].down
    BY <1>1, PeersAssumption
<1>. QED
    BY <1>2, <1>3, <1>4, <1>5, FewerPages, SessionFrame DEF AllQuiet

(* An agent reads requests, and answers the first or exits.                *)
LEMMA AgentRequestSession ==
    ASSUME IInv, IInv', SessionInv, NEW c \in AgentConn, AgentRequest(c),
           UNCHANGED serverVars, UNCHANGED controllerVars
    PROVE  SessionInv'
<1>. DEFINE q == conn[c].down
<1>1. /\ c \in Conn /\ conn[c].peer \in Machine /\ conn[c].link = "up"
      /\ conn \in [Conn -> Connection] /\ conn[c] \in Connection /\ nreq \in Nat
      /\ q \in Seq(Message) /\ conn[c].up \in Seq(Message)
    <2>1. c \in Conn /\ conn[c].peer \in Machine /\ conn[c].link = "up"
        BY MaxConnAssumption DEF AgentConn, IInv, TypeOK, NetTypeOK, Conn
    <2>2. conn \in [Conn -> Connection] /\ nreq \in Nat
        BY MaxReqAssumption DEF IInv, TypeOK, NetTypeOK, ControllerTypeOK
    <2>. QED
        BY <2>1, <2>2 DEF Connection
<1>2. PICK n \in 1..Len(q) :
         LET batch == SubSeq(q, 1, n)
             rest  == [conn EXCEPT ![c].down = SubSeq(@, n + 1, Len(@))]
             req   == request_parse(batch)
             died  == IF n < Len(q) THEN "rst" ELSE "fin"
         IN  IF IsRequest(batch) /\ Handles(req)
             THEN /\ executed' = executed \cup
                        {[conn |-> c, uri |-> req.uri, id |-> req.id, tag |-> req.tag]}
                  /\ conn' = [rest EXCEPT ![c].up = Append(@,
                                MakeResponse(req.uri, Status(req.uri),
                                             HasRecords(req.uri), req.tag))]
             ELSE /\ conn' = [rest EXCEPT ![c].link = died, ![c].down = <<>>]
                  /\ UNCHANGED executed
    BY DEF AgentRequest
<1>3. UNCHANGED nconn
    BY DEF AgentRequest
<1>. DEFINE batch == SubSeq(q, 1, n)
            left  == SubSeq(q, n + 1, Len(q))
            x     == [conn[c] EXCEPT !.down = left]
            rest  == [conn EXCEPT ![c] = x]
            req   == request_parse(batch)
            died  == IF n < Len(q) THEN "rst" ELSE "fin"
            res   == MakeResponse(req.uri, Status(req.uri), HasRecords(req.uri), req.tag)
<1>4. rest = [conn EXCEPT ![c].down = left]
    BY <1>1
<1>5. /\ left \in Seq(Message) /\ batch \in Seq(Message) /\ Len(batch) # 0
      /\ batch[1] = q[1]
    <2>1. q \in Seq(Message) /\ n \in 1..Len(q) /\ Len(q) \in Nat
        BY <1>1, <1>2, LenProperties
    <2>2. left \in Seq(Message) /\ batch \in Seq(Message) /\ Len(batch) = n
        <3>. HIDE DEF q
        <3>. QED
            BY <2>1, Batches
    <2>3. batch[1] = q[1]
        <3>. HIDE DEF q
        <3>. QED
            BY <2>1
    <2>. QED
        BY <2>1, <2>2, <2>3
<1>6. /\ x \in Connection /\ x.peer = conn[c].peer /\ x.link = conn[c].link
      /\ x.up = conn[c].up /\ x.down = left
    BY <1>1, <1>5 DEF Connection
<1>7. CASE IsRequest(batch) /\ Handles(req)
    <2>1. /\ executed' = executed \cup
                {[conn |-> c, uri |-> req.uri, id |-> req.id, tag |-> req.tag]}
          /\ conn' = [rest EXCEPT ![c].up = Append(@, res)]
        BY <1>2, <1>4, <1>7
    <2>2. req \in Request /\ req.tag = q[1].tag /\ req.uri = q[1].uri
        <3>1. req \in Request
            BY <1>5, <1>7, ParsedRequest
        <3>2. batch[1] \in Message
            BY <1>5, ElementOfSeq, LenProperties
        <3>3. batch[1] \in Request
            BY <1>7, <3>2 DEF IsRequest, Message, Response
        <3>. QED
            BY <1>5, <3>1, <3>3 DEF request_parse, Request
    <2>. HIDE DEF req, batch
    <2>3. /\ res \in Message /\ res.tag = q[1].tag /\ res.uri = q[1].uri
          /\ res.kind = "response" /\ res.status < 400
        BY <2>2 DEF MakeResponse, Status, HasRecords, Message, Response, Request
    <2>. HIDE DEF res, x, left
    <2>4. /\ rest \in [Conn -> Connection] /\ Becomes(conn, rest, c, q, left)
          /\ \A d \in Conn : rest[d].link = conn[d].link
        BY <1>1, <1>6 DEF Becomes
    <2>. DEFINE z == [rest[c] EXCEPT !.up = Append(rest[c].up, res)]
    <2>5. z.peer = rest[c].peer /\ z.link = rest[c].link /\ z.down = rest[c].down
          /\ z.up = Append(rest[c].up, res)
        BY <1>1, <2>4 DEF Connection
    <2>6. conn' = [rest EXCEPT ![c] = z]
        BY <2>1
    <2>. HIDE DEF z
    <2>7. SentUp(rest, conn', c, res) /\ \A d \in Conn : conn'[d].link = conn[d].link
        BY <1>1, <2>4, <2>5, <2>6 DEF SentUp
    <2>. HIDE DEF rest
    <2>8. /\ Fewer(conn, rest)
          /\ OnePage(conn) /\ (\E k \in 1..n : q[k].tag # JoinTag) => AllQuiet(rest)
          /\ q[1] \in InFlight(q)
          /\ q[1].tag # JoinTag => 1 \in OfPages(q)
        <3>1. Becomes(conn, rest, c, q, SubSeq(q, n + 1, Len(q)))
            BY <2>4 DEF left
        <3>. HIDE DEF q
        <3>. QED
            BY <1>1, <1>2, <3>1, TakePages
    <2>9. /\ OnePage(conn) => OnePage(rest)
          /\ EachFits(conn) => EachFits(rest)
          /\ AllQuiet(conn) => AllQuiet(rest)
        BY <2>8, FewerPages DEF AllQuiet
    <2>10. Passes
        BY <1>3, <2>4, <2>7 DEF Passes, serverVars, Running, Becomes, SentUp
    <2>11. \A d \in Conn : conn[d].peer \in Controller => conn'[d].down = conn[d].down
        BY <1>1, <2>4, <2>7, PeersAssumption DEF Becomes, SentUp
    <2>12. rest[c].peer \notin Controller
        BY <1>1, <2>4, PeersAssumption DEF Becomes
    <2>13. ASSUME OnePage(conn), EachFits(conn)
           PROVE  /\ OnePage(conn') /\ EachFits(conn)'
                  /\ AllQuiet(conn) => AllQuiet(conn')
                  /\ \A e \in executed' \ executed : e.tag <= nreq
        <3>1. Fits(q[1])
            BY <1>1, <2>8, <2>13 DEF EachFits
        <3>2. \A e \in executed' \ executed : e.tag <= nreq
            BY <1>1, <2>1, <2>2, <3>1 DEF Fits, JoinTag
        <3>3. CASE q[1].tag = JoinTag
            <4>1. Fits(res)
                BY <2>3, <3>1, <3>3 DEF Fits
            <4>2. /\ OnePage(conn') /\ EachFits(conn')
                  /\ AllQuiet(conn) => AllQuiet(conn')
                BY <1>1, <2>3, <2>4, <2>7, <2>9, <2>12, <2>13, <3>3, <4>1, SentPages
            <4>3. EachFits(conn)'
                BY <2>1, <2>2, <3>3, <4>2 DEF EachFits, Fits, CarriedOut, controllerVars
            <4>. QED
                BY <3>2, <4>2, <4>3
        <3>4. CASE q[1].tag # JoinTag
            <4>1. 1 \in 1..n
                BY <1>1, <1>2, LenProperties
            <4>2. AllQuiet(rest)
                BY <2>8, <2>13, <3>4, <4>1
            <4>3. ~AllQuiet(conn)
                BY <1>1, <2>8, <3>4 DEF AllQuiet, Quiet
            <4>4. OnePage(conn')
                BY <1>1, <2>3, <2>4, <2>7, <2>9, <2>12, <2>13, <4>2, SentPages
            <4>5. \A d \in Conn : \A m \in InFlight(conn'[d].up) \cup InFlight(conn'[d].down) :
                      m = res \/ (m.tag = JoinTag /\ Fits(m))
                <5>1. \A d \in Conn : \A m \in InFlight(rest[d].up) \cup InFlight(rest[d].down) :
                          m.tag = JoinTag
                    BY <4>2 DEF AllQuiet, Quiet, OfPages, InFlight
                <5>2. EachFits(rest)
                    BY <2>9, <2>13
                <5>3. InFlight(Append(rest[c].up, res)) = InFlight(rest[c].up) \cup {res}
                    BY <1>1, <2>3, <2>4, AppendInFlight DEF Connection
                <5>. QED
                    BY <2>7, <5>1, <5>2, <5>3 DEF SentUp, EachFits
            <4>6. ASSUME NEW m, m = res PROVE Fits(m)'
                <5>. DEFINE e == [conn |-> c, uri |-> req.uri, id |-> req.id, tag |-> req.tag]
                <5>0. e \in executed' /\ e.tag = m.tag
                    BY <2>1, <2>2, <2>3, <4>6
                <5>. HIDE DEF e
                <5>1. \E d \in executed' : d.tag = m.tag
                    BY <5>0
                <5>. QED
                    BY <2>3, <3>1, <3>4, <4>6, <5>1 DEF Fits, CarriedOut, controllerVars
            <4>7. EachFits(conn)'
                BY <4>5, <4>6 DEF EachFits, Fits
            <4>. QED
                BY <3>2, <4>3, <4>4, <4>7
        <3>. QED
            BY <3>3, <3>4
    <2>. QED
        BY <2>10, <2>11, <2>13, SessionFrame
<1>8. CASE ~(IsRequest(batch) /\ Handles(req))
    <2>1. conn' = [rest EXCEPT ![c].link = died, ![c].down = <<>>] /\ UNCHANGED executed
        BY <1>2, <1>4, <1>8
    <2>2. died \in {"rst", "fin"}
        OBVIOUS
    <2>. DEFINE y == [x EXCEPT !.link = died, !.down = <<>>]
    <2>. HIDE DEF died, req, batch, x
    <2>3. conn' = [conn EXCEPT ![c] = y]
        BY <1>1, <2>1
    <2>4. /\ y \in Connection /\ y.peer = conn[c].peer /\ y.up = conn[c].up
          /\ y.down = <<>> /\ y.link # "up"
        <3>1. <<>> \in Seq(Message)
            OBVIOUS
        <3>. QED
            BY <1>6, <2>2, <3>1 DEF Connection
    <2>. HIDE DEF y
    <2>. QED
        BY <1>1, <1>3, <2>1, <2>3, <2>4, GoneSession
<1>. QED
    BY <1>7, <1>8

(* An agent exits.                                                         *)
LEMMA AgentExitSession ==
    ASSUME IInv, IInv', SessionInv, NEW c \in AgentConn, AgentExit(c),
           UNCHANGED serverVars, UNCHANGED controllerVars
    PROVE  SessionInv'
<1>1. /\ c \in Conn /\ conn[c].peer \in Machine /\ conn \in [Conn -> Connection]
      /\ conn' = PeerClosed(c) /\ UNCHANGED <<nconn, executed>>
    BY MaxConnAssumption DEF AgentConn, AgentExit, IInv, TypeOK, NetTypeOK, Conn
<1>. DEFINE l == IF conn[c].down # <<>> THEN "rst"
                 ELSE IF conn[c].peer \in Controller THEN "hup" ELSE "fin"
            y == [conn[c] EXCEPT !.link = l, !.down = <<>>]
<1>2. l \in {"fin", "rst", "hup"} /\ <<>> \in Seq(Message)
    OBVIOUS
<1>3. PeerClosed(c) = [conn EXCEPT ![c].link = l, ![c].down = <<>>]
    BY DEF PeerClosed
<1>. HIDE DEF l
<1>4. /\ y \in Connection /\ y.peer = conn[c].peer /\ y.up = conn[c].up
      /\ y.down = <<>> /\ y.link # "up"
    BY <1>1, <1>2 DEF Connection
<1>5. conn' = [conn EXCEPT ![c] = y]
    BY <1>1, <1>3
<1>. HIDE DEF y
<1>. QED
    BY <1>1, <1>4, <1>5, GoneSession

(* A peer that connects has nothing on its way, and nobody else notices.   *)
LEMMA ConnectPages ==
    ASSUME IInv, NEW p \in Machine \cup Controller, Connect(p)
    PROVE  /\ nconn + 1 \in Conn /\ nconn' = nconn + 1 /\ nconn \in Nat
           /\ conn'[nconn + 1].peer = p /\ conn'[nconn + 1].link = "up"
           /\ conn'[nconn + 1].up = <<>> /\ conn'[nconn + 1].down = <<>>
           /\ \A d \in Conn : d # nconn + 1 => conn'[d] = conn[d]
           /\ \A d \in 1..nconn : d \in Conn /\ d # nconn + 1 /\ d \in 1..nconn'
           /\ OnePage(conn) => OnePage(conn')
           /\ EachFits(conn) => EachFits(conn')
           /\ AllQuiet(conn) => AllQuiet(conn')
<1>. DEFINE c   == nconn + 1
            new == [Unused EXCEPT !.peer = p, !.srv = "backlog"]
<1>1. /\ c \in Conn /\ nconn' = c /\ nconn \in Nat
      /\ \A d \in 1..nconn : d \in Conn /\ d # c /\ d \in 1..c
    BY MaxConnAssumption DEF Connect, IInv, TypeOK, NetTypeOK, Conn
<1>2. new.peer = p /\ new.link = "up" /\ new.up = <<>> /\ new.down = <<>>
    BY DEF Unused
<1>3. conn' = [conn EXCEPT ![c] = new]
    BY DEF Connect
<1>. HIDE DEF new
<1>4. conn'[c] = new /\ \A d \in Conn : d # c => conn'[d] = conn[d]
    BY <1>1, <1>3 DEF IInv, TypeOK, NetTypeOK
<1>5. OfPages(<<>>) = {} /\ InFlight(<<>>) = {}
    BY DEF OfPages, InFlight
<1>. HIDE DEF c
<1>6. Quiet(conn'[c])
    BY <1>2, <1>4, <1>5 DEF Quiet
<1>7. OnePage(conn) => OnePage(conn')
    <2>1. SUFFICES ASSUME OnePage(conn) PROVE OnePage(conn')
        OBVIOUS
    <2>2. \A d, e \in Conn : d = e \/ Quiet(conn'[d]) \/ Quiet(conn'[e])
        BY <1>4, <1>6, <2>1 DEF OnePage
    <2>3. ASSUME NEW d \in Conn
          PROVE  /\ \A j, k \in OfPages(conn'[d].up) : j = k
                 /\ \A j, k \in OfPages(conn'[d].down) : j = k
                 /\ OfPages(conn'[d].up) = {} \/ OfPages(conn'[d].down) = {}
                 /\ conn'[d].peer \in Controller =>
                      /\ \A m \in InFlight(conn'[d].up) : m.tag # JoinTag
                      /\ \A m \in InFlight(conn'[d].down) :
                            m.tag # JoinTag /\ m.kind = "response"
        <3>1. CASE d = c
            BY <1>2, <1>4, <1>5, <3>1
        <3>2. CASE d # c
            BY <1>4, <2>1, <3>2 DEF OnePage
        <3>. QED
            BY <3>1, <3>2
    <2>. QED
        BY <2>2, <2>3 DEF OnePage
<1>8. EachFits(conn) => EachFits(conn')
    BY <1>2, <1>4, <1>5 DEF EachFits
<1>9. AllQuiet(conn) => AllQuiet(conn')
    BY <1>4, <1>6 DEF AllQuiet
<1>. QED
    BY <1>1, <1>2, <1>4, <1>7, <1>8, <1>9 DEF c

(* A session goes on after a connection only if it went on before.         *)
LEMMA SessionGoesOn ==
    ASSUME Undisturbed', fired' = fired, nconn \in Nat,
           nconn' = nconn \/ nconn' = nconn + 1,
           \A d \in 1..nconn : /\ conn'[d].peer = conn[d].peer
                               /\ conn'[d].link = "up" => conn[d].link = "up"
    PROVE  Undisturbed
<1>1. \A d \in 1..nconn : d \in 1..nconn'
    OBVIOUS
<1>. QED
    BY <1>1 DEF Undisturbed, OneSession

(* An agent starts.                                                        *)
LEMMA AgentJoinSession ==
    ASSUME IInv, SessionInv, NEW p \in Machine, AgentJoin(p),
           UNCHANGED serverVars, UNCHANGED controllerVars
    PROVE  SessionInv'
<1>1. Connect(p) /\ UNCHANGED <<executed, nreq, web, fired>> /\ (Running' <=> Running)
    BY DEF AgentJoin, serverVars, controllerVars, Running
<1>2. /\ nconn + 1 \in Conn /\ nconn' = nconn + 1 /\ nconn \in Nat
      /\ \A d \in Conn : d # nconn + 1 => conn'[d] = conn[d]
      /\ \A d \in 1..nconn : d \in Conn /\ d # nconn + 1 /\ d \in 1..nconn'
      /\ OnePage(conn) => OnePage(conn')
      /\ EachFits(conn) => EachFits(conn')
      /\ AllQuiet(conn) => AllQuiet(conn')
    BY <1>1, ConnectPages
<1>3. \A d \in 1..nconn : d \in Conn /\ d \in 1..nconn' /\ conn'[d] = conn[d]
    BY <1>2
<1>4. WebsConnected'
    BY <1>1, <1>3 DEF SessionInv, WebsConnected
<1>5. Undisturbed' => Undisturbed
    BY <1>1, <1>2, <1>3, SessionGoesOn
<1>6. ASSUME Undisturbed'
      PROVE  /\ OnePage(conn)' /\ EachFits(conn)'
             /\ \A x \in executed' : x.tag <= nreq'
             /\ \A w \in Controller :
                  /\ web'[w].tag \in {0, nreq'}
                  /\ web'[w].conn # 0 /\ web'[w].tag = 0 =>
                       /\ conn'[web'[w].conn].down = <<>>
                       /\ Running' => AllQuiet(conn)'
             /\ (\A d \in 1..nconn' : conn'[d].peer \notin Controller) => AllQuiet(conn)'
    <2>1. /\ OnePage(conn) /\ EachFits(conn)
          /\ \A x \in executed : x.tag <= nreq
          /\ \A w \in Controller :
               /\ web[w].tag \in {0, nreq}
               /\ web[w].conn # 0 /\ web[w].tag = 0 =>
                    conn[web[w].conn].down = <<>> /\ (Running => AllQuiet(conn))
          /\ (\A d \in 1..nconn : conn[d].peer \notin Controller) => AllQuiet(conn)
        BY <1>5, <1>6 DEF SessionInv
    <2>2. EachFits(conn)'
        BY <1>1, <1>2, <2>1 DEF EachFits, Fits, CarriedOut
    <2>3. (\A d \in 1..nconn' : conn'[d].peer \notin Controller) => AllQuiet(conn')
        BY <1>2, <1>3, <2>1
    <2>4. \A w \in Controller : web[w].conn # 0 => conn'[web[w].conn] = conn[web[w].conn]
        BY <1>3 DEF SessionInv, WebsConnected
    <2>. QED
        BY <1>1, <1>2, <2>1, <2>2, <2>3, <2>4
<1>. QED
    BY <1>4, <1>6 DEF SessionInv

(* Every step of the agents.                                               *)
LEMMA AgentSession ==
    ASSUME IInv, IInv', SessionInv, Agent
    PROVE  SessionInv'
BY AgentJoinSession, AgentRequestSession, AgentExitSession DEF Agent, AgentEof

-----------------------------------------------------------------------------
(* What the controllers do.                                                *)

(* A controller starts: in a session it is the first.                      *)
LEMMA StartSession ==
    ASSUME IInv, SessionInv, NEW v \in Controller, Start(v),
           UNCHANGED serverVars, UNCHANGED executed
    PROVE  SessionInv'
<1>1. /\ Connect(v) /\ UNCHANGED <<executed, nreq, fired>> /\ (Running' <=> Running)
      /\ web[v].conn = 0 /\ web[v].tag = 0
      /\ \A w \in Controller : w # v => web'[w] = web[w]
      /\ web'[v].conn = nconn + 1 /\ web'[v].tag = 0
    BY DEF Start, serverVars, Running, IInv, TypeOK, ControllerTypeOK, WaitsOnConnection
<1>2. /\ nconn + 1 \in Conn /\ nconn' = nconn + 1 /\ nconn \in Nat
      /\ conn'[nconn + 1].peer = v /\ conn'[nconn + 1].link = "up"
      /\ conn'[nconn + 1].down = <<>>
      /\ \A d \in Conn : d # nconn + 1 => conn'[d] = conn[d]
      /\ \A d \in 1..nconn : d \in Conn /\ d # nconn + 1 /\ d \in 1..nconn'
      /\ OnePage(conn) => OnePage(conn')
      /\ EachFits(conn) => EachFits(conn')
      /\ AllQuiet(conn) => AllQuiet(conn')
    BY <1>1, ConnectPages
<1>3. /\ \A d \in 1..nconn : d \in Conn /\ d # nconn + 1 /\ d \in 1..nconn'
                             /\ conn'[d] = conn[d]
      /\ nconn + 1 \in 1..nconn'
    BY <1>2
<1>4. WebsConnected'
    BY <1>1, <1>2, <1>3 DEF SessionInv, WebsConnected
<1>5. Undisturbed' => Undisturbed
    BY <1>1, <1>2, <1>3, SessionGoesOn
<1>6. ASSUME Undisturbed'
      PROVE  /\ OnePage(conn)' /\ EachFits(conn)'
             /\ \A x \in executed' : x.tag <= nreq'
             /\ \A w \in Controller :
                  /\ web'[w].tag \in {0, nreq'}
                  /\ web'[w].conn # 0 /\ web'[w].tag = 0 =>
                       /\ conn'[web'[w].conn].down = <<>>
                       /\ Running' => AllQuiet(conn)'
             /\ (\A d \in 1..nconn' : conn'[d].peer \notin Controller) => AllQuiet(conn)'
    <2>1. \A d \in 1..nconn : conn[d].peer \notin Controller
        BY <1>2, <1>3, <1>6 DEF Undisturbed, OneSession
    <2>2. /\ OnePage(conn) /\ EachFits(conn)
          /\ \A x \in executed : x.tag <= nreq
          /\ \A w \in Controller : web[w].tag \in {0, nreq}
          /\ AllQuiet(conn)
        BY <1>5, <1>6, <2>1 DEF SessionInv
    <2>3. EachFits(conn)'
        BY <1>1, <1>2, <2>2 DEF EachFits, Fits, CarriedOut
    <2>4. \A w \in Controller : web[w].conn = 0
        BY <2>1 DEF SessionInv, WebsConnected
    <2>5. \A w \in Controller : w # v => web'[w].conn = 0 /\ web'[w].tag \in {0, nreq}
        BY <1>1, <2>2, <2>4
    <2>. QED
        BY <1>1, <1>2, <2>2, <2>3, <2>5
<1>. QED
    BY <1>4, <1>6 DEF SessionInv

(* A controller is stopped: that ends the session.                         *)
LEMMA StopSession ==
    ASSUME IInv, SessionInv, NEW v \in Controller, Stop(v),
           UNCHANGED serverVars, UNCHANGED executed
    PROVE  SessionInv'
<1>. DEFINE c == web[v].conn
<1>1. /\ c # 0 /\ conn' = PeerClosed(c) /\ UNCHANGED nconn
      /\ \A w \in Controller : w # v => web'[w] = web[w]
      /\ web'[v].conn = 0
    BY DEF Stop, IInv, TypeOK, ControllerTypeOK
<1>2. c \in 1..nconn /\ conn[c].peer = v
    BY <1>1 DEF SessionInv, WebsConnected
<1>3. conn \in [Conn -> Connection] /\ \A d \in 1..nconn : d \in Conn
    BY MaxConnAssumption DEF IInv, TypeOK, NetTypeOK, Conn
<1>4. Kept(conn, conn') /\ conn' \in [Conn -> Connection]
    BY <1>1, <1>2, <1>3, PeerClosedKept
<1>. HIDE DEF c
<1>5. \A d \in Conn : d # c => conn'[d] = conn[d]
    BY <1>1, <1>2, <1>3 DEF PeerClosed
<1>6. conn'[c].link # "up" /\ conn'[c].peer = v
    <2>. DEFINE l == IF conn[c].down # <<>> THEN "rst"
                     ELSE IF conn[c].peer \in Controller THEN "hup" ELSE "fin"
    <2>1. conn' = [conn EXCEPT ![c].link = l, ![c].down = <<>>]
        BY <1>1 DEF PeerClosed
    <2>2. l # "up"
        OBVIOUS
    <2>. HIDE DEF l
    <2>. QED
        BY <1>2, <1>3, <2>1, <2>2 DEF Connection
<1>7. ~Undisturbed'
    BY <1>1, <1>2, <1>6 DEF Undisturbed
<1>8. WebsConnected'
    BY <1>1, <1>2, <1>3, <1>5 DEF SessionInv, WebsConnected
<1>. QED
    BY <1>7, <1>8 DEF SessionInv

(* A page makes its request, when the one before is over.                  *)
LEMMA AskSession ==
    ASSUME IInv, SessionInv, NEW v \in Controller, Running, Ask(v),
           UNCHANGED serverVars, UNCHANGED executed
    PROVE  SessionInv'
<1>. DEFINE c == web[v].conn
<1>1. PICK req \in PageRequest(nreq + 1) : conn' = [conn EXCEPT ![c].up = Append(@, req)]
    BY DEF Ask
<1>2. /\ c # 0 /\ web[v].tag = 0 /\ nreq \in Nat /\ nreq' = nreq + 1
      /\ nreq + 1 \in Tag /\ nconn' = nconn /\ fired' = fired /\ nconn \in Nat
      /\ \A w \in Controller : w # v => web'[w] = web[w]
      /\ web'[v].conn = c /\ web'[v].tag = nreq + 1
    BY MaxReqAssumption
       DEF Ask, serverVars, IInv, TypeOK, ControllerTypeOK, NetTypeOK, Tag
<1>3. c \in 1..nconn /\ conn[c].peer = v /\ conn[c].link = "up"
    BY <1>2 DEF SessionInv, WebsConnected
<1>4. /\ conn \in [Conn -> Connection] /\ \A d \in 1..nconn : d \in Conn
      /\ \A x \in executed : x.tag \in Nat
    BY MaxConnAssumption DEF IInv, TypeOK, NetTypeOK, Conn, AgentTypeOK, Tag
<1>5. /\ req \in Message /\ req.kind = "request" /\ req.tag = nreq + 1
      /\ req.uri \in PageUri
    <2>1. req \in Request
        BY <1>1, <1>2, PagesRequest
    <2>2. CASE \E uri \in PageUri \ {"timer"}, id \in PageId :
                   req = CommandRequest(uri, id, nreq + 1)
        BY <2>1, <2>2 DEF CommandRequest, MakeRequest, Message
    <2>3. CASE /\ "timer" \in PageUri
               /\ \E id \in PageId, action \in TimerAction, d \in Duration :
                     req = TimerRequest(id, action, d, nreq + 1)
        <3>1. PICK id \in PageId, action \in TimerAction, d \in Duration :
                 req = TimerRequest(id, action, d, nreq + 1)
            BY <2>3
        <3>2. /\ req.kind = "request" /\ req.uri = "timer" /\ req.tag = nreq + 1
            BY <3>1 DEF TimerRequest, MakeRequest
        <3>. QED
            BY <2>1, <2>3, <3>2 DEF Message
    <2>. QED
        BY <1>1, <2>2, <2>3 DEF PageRequest
<1>. HIDE DEF c
<1>6. SentUp(conn, conn', c, req) /\ \A d \in Conn : conn'[d].link = conn[d].link
    <2>. DEFINE x == [conn[c] EXCEPT !.up = Append(conn[c].up, req)]
    <2>1. x.peer = conn[c].peer /\ x.link = conn[c].link /\ x.down = conn[c].down
          /\ x.up = Append(conn[c].up, req)
        BY <1>3, <1>4 DEF Connection
    <2>2. conn' = [conn EXCEPT ![c] = x]
        BY <1>1, <1>3, <1>4
    <2>. HIDE DEF x
    <2>. QED
        BY <1>3, <1>4, <2>1, <2>2 DEF SentUp
<1>7. WebsConnected'
    BY <1>2, <1>3, <1>4, <1>6 DEF SessionInv, WebsConnected, SentUp
<1>8. ASSUME Undisturbed'
      PROVE  /\ OnePage(conn)' /\ EachFits(conn)'
             /\ \A x \in executed' : x.tag <= nreq'
             /\ \A w \in Controller :
                  /\ web'[w].tag \in {0, nreq'}
                  /\ web'[w].conn # 0 /\ web'[w].tag = 0 =>
                       /\ conn'[web'[w].conn].down = <<>>
                       /\ Running' => AllQuiet(conn)'
             /\ (\A d \in 1..nconn' : conn'[d].peer \notin Controller) => AllQuiet(conn)'
    <2>1. Undisturbed
        BY <1>2, <1>4, <1>6, <1>8, SessionGoesOn DEF SentUp
    <2>2. /\ OnePage(conn) /\ EachFits(conn)
          /\ \A x \in executed : x.tag <= nreq
          /\ AllQuiet(conn)
        BY <1>2, <2>1 DEF SessionInv, c
    <2>3. req.tag # JoinTag
        BY <1>2, <1>5 DEF JoinTag
    <2>4. OnePage(conn')
        BY <1>3, <1>4, <1>5, <1>6, <2>2, <2>3, SentPages
    <2>5. \A d \in Conn : \A m \in InFlight(conn'[d].up) \cup InFlight(conn'[d].down) :
              m = req \/ (m.tag = JoinTag /\ Fits(m))
        <3>1. \A d \in Conn : \A m \in InFlight(conn[d].up) \cup InFlight(conn[d].down) :
                  m.tag = JoinTag /\ Fits(m)
            BY <2>2 DEF AllQuiet, Quiet, OfPages, InFlight, EachFits
        <3>2. InFlight(Append(conn[c].up, req)) = InFlight(conn[c].up) \cup {req}
            BY <1>3, <1>4, <1>5, AppendInFlight DEF Connection
        <3>. QED
            BY <1>6, <3>1, <3>2 DEF SentUp
    <2>6. Fits(req)'
        <3>1. ~CarriedOut(req.tag)'
            BY <1>2, <1>4, <1>5, <2>2 DEF CarriedOut
        <3>. QED
            BY <1>2, <1>5, <2>3, <3>1 DEF Fits
    <2>7. EachFits(conn)'
        BY <2>5, <2>6 DEF EachFits, Fits
    <2>8. \A x \in executed' : x.tag <= nreq'
        BY <1>2, <1>4, <2>2
    <2>9. \A w \in Controller : w # v => web'[w].conn = 0 /\ web'[w].tag = 0
        <3>1. SUFFICES ASSUME NEW w \in Controller, w # v, web[w].conn # 0 PROVE FALSE
            BY <1>2 DEF IInv, WaitsOnConnection
        <3>2. web[w].conn \in 1..nconn /\ conn[web[w].conn].peer = w
            BY <3>1 DEF SessionInv, WebsConnected
        <3>. QED
            BY <1>3, <2>1, <3>1, <3>2 DEF Undisturbed, OneSession
    <2>10. \E d \in 1..nconn' : conn'[d].peer \in Controller
        BY <1>2, <1>3, <1>4, <1>6 DEF SentUp
    <2>. QED
        BY <1>2, <2>4, <2>7, <2>8, <2>9, <2>10
<1>. QED
    BY <1>7, <1>8 DEF SessionInv

(* A page reads its answer, which is all there is to read.                 *)
LEMMA ReceiveSession ==
    ASSUME IInv, SessionInv, NEW v \in Controller, Receive(v),
           UNCHANGED serverVars, UNCHANGED executed
    PROVE  /\ SessionInv'
           /\ Undisturbed =>
                LET q == conn[web[v].conn].down
                IN  Len(q) = 1 /\ conn'[web[v].conn].down = <<>>
                    /\ q[1] \in Response /\ q[1].tag = web[v].tag /\ Fits(q[1])
                    /\ q[1].tag # JoinTag
<1>. DEFINE c == web[v].conn
            q == conn[c].down
<1>1. PICK n \in 1..Len(q) : conn' = [conn EXCEPT ![c].down = SubSeq(@, n + 1, Len(@))]
    BY DEF Receive
<1>. DEFINE left == SubSeq(q, n + 1, Len(q))
<1>2. /\ c # 0 /\ web[v].tag # 0 /\ nreq' = nreq
      /\ nconn' = nconn /\ fired' = fired /\ nconn \in Nat
      /\ \A w \in Controller : w # v => web'[w] = web[w]
      /\ web'[v].conn = c /\ web'[v].tag = 0
    BY DEF Receive, serverVars, IInv, TypeOK, ControllerTypeOK, NetTypeOK, WaitsOnConnection
<1>3. c \in 1..nconn /\ conn[c].peer = v /\ conn[c].link = "up"
    BY <1>2 DEF SessionInv, WebsConnected
<1>4. /\ conn \in [Conn -> Connection] /\ \A d \in 1..nconn : d \in Conn
    BY MaxConnAssumption DEF IInv, TypeOK, NetTypeOK, Conn
<1>5. c \in Conn /\ q \in Seq(Message) /\ Len(q) \in Nat /\ DOMAIN q = 1..Len(q)
    BY <1>3, <1>4, LenProperties DEF Connection
<1>. HIDE DEF c
<1>6. /\ Becomes(conn, conn', c, q, left) /\ conn'[c].down = left
      /\ \A d \in Conn : conn'[d].link = conn[d].link
    <2>. DEFINE x == [conn[c] EXCEPT !.down = left]
    <2>1. x.peer = conn[c].peer /\ x.link = conn[c].link /\ x.up = conn[c].up
          /\ x.down = left
        BY <1>4, <1>5 DEF Connection
    <2>2. conn' = [conn EXCEPT ![c] = x]
        BY <1>1, <1>4, <1>5
    <2>. HIDE DEF x, left
    <2>. QED
        BY <1>4, <1>5, <2>1, <2>2 DEF Becomes
<1>7. /\ Fewer(conn, conn')
      /\ OnePage(conn) /\ (\E k \in 1..n : q[k].tag # JoinTag) => AllQuiet(conn')
      /\ q[1] \in InFlight(q)
    <2>1. n \in 1..Len(q)
        OBVIOUS
    <2>. HIDE DEF q
    <2>. QED
        BY <1>5, <1>6, <2>1, TakePages
<1>8. WebsConnected'
    BY <1>2, <1>3, <1>4, <1>6 DEF SessionInv, WebsConnected, Becomes
<1>9. Undisturbed' => Undisturbed
    BY <1>2, <1>4, <1>6, SessionGoesOn DEF Becomes
<1>10. ASSUME Undisturbed
       PROVE  /\ Len(q) = 1 /\ left = <<>>
              /\ q[1] \in Response /\ q[1].tag = web[v].tag /\ Fits(q[1])
              /\ q[1].tag # JoinTag /\ AllQuiet(conn')
    <2>1. /\ OnePage(conn) /\ EachFits(conn) /\ web[v].tag \in {0, nreq}
        BY <1>10 DEF SessionInv
    <2>2. /\ \A m \in InFlight(q) : m.tag # JoinTag /\ m.kind = "response"
          /\ One(q)
        BY <1>3, <1>5, <2>1 DEF OnePage, One
    <2>0. n \in 1..Len(q)
        OBVIOUS
    <2>. HIDE DEF q
    <2>3. Len(q) <= 1
        BY <1>5, <2>2, NoPages
    <2>4. Len(q) = 1 /\ n = 1
        BY <1>5, <2>3, <2>0
    <2>5. q[1].tag # JoinTag /\ q[1].kind = "response" /\ q[1] \in Message
        BY <1>5, <1>7, <2>2, <2>4, ElementOfSeq
    <2>6. AllQuiet(conn')
        BY <1>7, <2>1, <2>4, <2>5
    <2>7. Fits(q[1])
        BY <1>5, <1>7, <2>1 DEF EachFits, q
    <2>8. left = <<>>
        <3>1. left \in Seq(Message) /\ Len(left) = 0
            BY <1>5, <2>4
        <3>. QED
            BY <3>1, EmptySeq
    <2>. QED
        BY <1>2, <2>1, <2>4, <2>5, <2>6, <2>7, <2>8 DEF Fits, Message, Request
<1>11. ASSUME Undisturbed'
       PROVE  /\ OnePage(conn)' /\ EachFits(conn)'
              /\ \A x \in executed' : x.tag <= nreq'
              /\ \A w \in Controller :
                   /\ web'[w].tag \in {0, nreq'}
                   /\ web'[w].conn # 0 /\ web'[w].tag = 0 =>
                        /\ conn'[web'[w].conn].down = <<>>
                        /\ Running' => AllQuiet(conn)'
              /\ (\A d \in 1..nconn' : conn'[d].peer \notin Controller) => AllQuiet(conn)'
    <2>1. /\ OnePage(conn) /\ EachFits(conn)
          /\ \A x \in executed : x.tag <= nreq
          /\ \A w \in Controller :
               /\ web[w].tag \in {0, nreq}
               /\ web[w].conn # 0 /\ web[w].tag = 0 => conn[web[w].conn].down = <<>>
        BY <1>9, <1>11 DEF SessionInv
    <2>2. OnePage(conn') /\ EachFits(conn')
        BY <1>7, <2>1, FewerPages
    <2>3. EachFits(conn)'
        BY <1>2, <2>2 DEF EachFits, Fits, CarriedOut
    <2>4. AllQuiet(conn') /\ left = <<>>
        BY <1>9, <1>10, <1>11
    <2>5. conn'[c].down = <<>>
        BY <1>6, <2>4
    <2>6. \A w \in Controller : w # v /\ web[w].conn # 0 =>
              conn'[web[w].conn].down = conn[web[w].conn].down
        BY <1>3, <1>4, <1>6 DEF SessionInv, WebsConnected, Becomes
    <2>. QED
        BY <1>2, <2>1, <2>2, <2>3, <2>4, <2>5, <2>6
<1>12. Undisturbed => conn'[c].down = <<>>
    BY <1>6, <1>10
<1>13. SessionInv'
    BY <1>8, <1>11 DEF SessionInv
<1>. QED
    BY <1>10, <1>12, <1>13 DEF c

(* A page finds that the server is gone.                                   *)
LEMMA ServerGoneSession ==
    ASSUME IInv, SessionInv, NEW v \in Controller, ~Running, ServerGone(v),
           UNCHANGED serverVars, UNCHANGED executed
    PROVE  SessionInv'
<1>1. /\ UNCHANGED <<conn, nconn, nreq, fired>> /\ ~Running'
      /\ conn[web[v].conn].down = <<>>
      /\ \A w \in Controller : w # v => web'[w] = web[w]
      /\ web'[v].conn = web[v].conn /\ web'[v].tag = 0
    BY DEF ServerGone, netVars, serverVars, Running, IInv, TypeOK, ControllerTypeOK
<1>2. WebsConnected'
    BY <1>1 DEF SessionInv, WebsConnected
<1>3. Undisturbed' => Undisturbed
    BY <1>1 DEF Undisturbed, OneSession
<1>4. EachFits(conn) => EachFits(conn)'
    BY <1>1 DEF EachFits, Fits, CarriedOut
<1>5. OnePage(conn) => OnePage(conn)'
    BY <1>1
<1>6. AllQuiet(conn) => AllQuiet(conn)'
    BY <1>1
<1>7. ASSUME Undisturbed', NEW w \in Controller
      PROVE  /\ web'[w].tag \in {0, nreq'}
             /\ web'[w].conn # 0 /\ web'[w].tag = 0 => conn'[web'[w].conn].down = <<>>
    BY <1>1, <1>3, <1>7 DEF SessionInv
<1>. QED
    BY <1>1, <1>2, <1>3, <1>4, <1>5, <1>6, <1>7 DEF SessionInv

(* Every step of the controllers.                                          *)
LEMMA WebSession ==
    ASSUME IInv, SessionInv, Web
    PROVE  SessionInv'
<1>1. UNCHANGED serverVars /\ UNCHANGED executed
    BY DEF Web
<1>. QED
    BY <1>1, StartSession, StopSession, AskSession, ReceiveSession, ServerGoneSession
       DEF Web

-----------------------------------------------------------------------------
(* Before anyone has connected.                                            *)
LEMMA InitSession == Init => SessionInv
<1>. SUFFICES ASSUME Init PROVE SessionInv
    OBVIOUS
<1>1. /\ conn = [c \in Conn |-> Unused] /\ nconn = 0 /\ executed = {}
      /\ \A w \in Controller : web[w].conn = 0 /\ web[w].tag = 0
    BY DEF Init, NetInit, AgentInit, ControllerInit
<1>2. OfPages(<<>>) = {} /\ InFlight(<<>>) = {}
    BY DEF OfPages, InFlight
<1>3. \A c \in Conn : conn[c].up = <<>> /\ conn[c].down = <<>>
    BY <1>1 DEF Unused
<1>4. AllQuiet(conn)
    BY <1>2, <1>3 DEF AllQuiet, Quiet
<1>5. OnePage(conn)
    BY <1>2, <1>3, <1>4 DEF OnePage, AllQuiet
<1>6. EachFits(conn)
    BY <1>2, <1>3 DEF EachFits
<1>. QED
    BY <1>1, <1>4, <1>5, <1>6 DEF SessionInv, WebsConnected

(* A step that changes nothing.                                            *)
LEMMA StutterSession ==
    ASSUME IInv, IInv', SessionInv, UNCHANGED vars
    PROVE  SessionInv'
BY StillSession DEF vars, netVars, serverVars, controllerVars, Running

(* In every reachable state, in a session of one controller that goes on,  *)
(* before any timer has fired, there is one message at most that a page    *)
(* caused; it belongs to the page's latest request, and an answer to a     *)
(* command says whether an agent carried that out (SessionInv).            *)
THEOREM SessionInvariance == Safe => []SessionInv
<1>1. Init => SessionInv
    BY InitSession
<1>2. IInv /\ IInv' /\ RoutingInv /\ SessionInv /\ [Next]_vars => SessionInv'
    BY ServerSession, AgentSession, WebSession, StutterSession DEF Next
<1>3. Safe => []IInv
    BY Invariance
<1>4. Safe => []RoutingInv
    BY RoutingInvariance
<1>. QED
    BY <1>1, <1>2, <1>3, <1>4, PTL DEF Safe

(* With one session, the connection of its one controller is up for as     *)
(* long as the controller has not been stopped.                            *)
LEMMA SessionUndisturbed ==
    ASSUME SessionInv, OneSession, fired = 0, NEW w \in Controller, web[w].conn # 0
    PROVE  Undisturbed
BY DEF SessionInv, WebsConnected, OneSession, Undisturbed

(* With one session of one controller, and as long as no timer has fired,  *)
(* what waits to be read by the controller is one answer at most, that to  *)
(* the request it is waiting for: a page, which matches nothing, reads no  *)
(* answer that is not its own (web worker, ecafe_send_recieve).            *)
THEOREM AnswersMatch == Safe => []AnswerIsForRequest
<1>1. ASSUME IInv, SessionInv, OneSession, fired = 0,
             NEW w \in Controller, web[w].conn # 0
      PROVE  /\ Len(conn[web[w].conn].down) <= 1
             /\ \A m \in InFlight(conn[web[w].conn].down) : m.tag = web[w].tag
    <2>. DEFINE c == web[w].conn
    <2>1. c \in Conn /\ conn[c].peer \in Controller /\ conn[c].down \in Seq(Message)
        <3>1. c \in 1..nconn /\ conn[c].peer = w
            BY <1>1 DEF SessionInv, WebsConnected
        <3>2. c \in Conn /\ conn \in [Conn -> Connection]
            BY <1>1, <3>1, MaxConnAssumption DEF IInv, TypeOK, NetTypeOK, Conn
        <3>. QED
            BY <3>1, <3>2 DEF Connection
    <2>2. /\ OnePage(conn) /\ EachFits(conn) /\ web[w].tag \in {0, nreq}
          /\ web[w].tag = 0 => conn[c].down = <<>>
        BY <1>1, SessionUndisturbed DEF SessionInv
    <2>. HIDE DEF c
    <2>3. \A m \in InFlight(conn[c].down) : m.tag # JoinTag /\ Fits(m)
        BY <2>1, <2>2 DEF OnePage, EachFits
    <2>4. One(conn[c].down)
        BY <2>1, <2>2 DEF OnePage, One
    <2>5. Len(conn[c].down) <= 1
        BY <2>1, <2>3, <2>4, NoPages
    <2>6. \A m \in InFlight(conn[c].down) : m.tag = web[w].tag
        BY <2>2, <2>3 DEF Fits, InFlight
    <2>. QED
        BY <2>5, <2>6 DEF c
<1>2. IInv /\ SessionInv => AnswerIsForRequest
    BY <1>1 DEF AnswerIsForRequest
<1>. QED
    BY <1>2, Invariance, SessionInvariance, PTL

(* What a page says of an answer that it read alone.                       *)
LEMMA PageSaysOfOne ==
    ASSUME NEW q \in Seq(Message), Len(q) = 1, q[1] \in Response
    PROVE  PageSays(SubSeq(q, 1, 1)) = "success" <=> q[1].status < 400
<1>. DEFINE b == SubSeq(q, 1, 1)
<1>1. b \in Seq(Message) /\ Len(b) = 1 /\ b[1] = q[1]
    OBVIOUS
<1>. HIDE DEF b
<1>2. b # <<>>
    BY <1>1
<1>3. ResponseParses(b)
    BY <1>1 DEF ResponseParses, Response
<1>4. PageSays(b) = IF b[1].status < 400 THEN "success" ELSE "failure"
    BY <1>2, <1>3 DEF PageSays
<1>. QED
    BY <1>1, <1>4 DEF b

(* With one session of one controller, as long as no timer has fired and   *)
(* the server runs, a page that asks for a command that the agents carry   *)
(* out ("timer" and "clientall" are the server's own) says "success"       *)
(* exactly when the PC carried it out (the pages of the web worker).       *)
THEOREM PagesAreTruthful ==
    ASSUME PageUri \cap {"timer", "clientall"} = {}
    PROVE  Safe => PagesTellTheTruth
<1>1. ASSUME IInv, SessionInv, Next, OneSession, fired = 0, Running,
             NEW w \in Controller, PageEnds(w)
      PROVE  Said(w) = "success" <=> CarriedOut(web[w].tag)
    <2>. DEFINE c == web[w].conn
                q == conn[c].down
    <2>1. c # 0 /\ Undisturbed
        BY <1>1, SessionUndisturbed DEF PageEnds, IInv, WaitsOnConnection
    <2>2. Receive(w) /\ UNCHANGED serverVars /\ UNCHANGED executed
        <3>1. web' # web
            BY <1>1 DEF PageEnds
        <3>2. Web
            BY <1>1, <3>1 DEF Next, Server, Agent, controllerVars
        <3>3. PICK v \in Controller : Start(v) \/ Stop(v) \/ Ask(v) \/ Receive(v)
            BY <1>1, <3>2 DEF Web
        <3>4. v = w
            BY <1>1, <3>3 DEF Start, Stop, Ask, Receive, PageEnds, IInv, TypeOK, ControllerTypeOK
        <3>5. ~Start(w) /\ ~Stop(w) /\ ~Ask(w)
            BY <1>1, <2>1 DEF Start, Stop, Ask, PageEnds, IInv, TypeOK, ControllerTypeOK
        <3>. QED
            BY <3>2, <3>3, <3>4, <3>5 DEF Web
    <2>3. /\ Len(q) = 1 /\ conn'[c].down = <<>>
          /\ q[1] \in Response /\ q[1].tag = web[w].tag /\ Fits(q[1])
          /\ q[1].tag # JoinTag
        BY <1>1, <2>1, <2>2, ReceiveSession
    <2>4. q \in Seq(Message)
        <3>1. c \in 1..nconn
            BY <1>1, <2>1 DEF SessionInv, WebsConnected
        <3>2. c \in Conn /\ conn \in [Conn -> Connection]
            BY <1>1, <3>1, MaxConnAssumption DEF IInv, TypeOK, NetTypeOK, Conn
        <3>. QED
            BY <3>2 DEF Connection
    <2>5. Said(w) = PageSays(SubSeq(q, 1, 1))
        BY <2>3 DEF Said
    <2>. HIDE DEF q
    <2>6. Said(w) = "success" <=> q[1].status < 400
        BY <2>3, <2>4, <2>5, PageSaysOfOne
    <2>7. q[1].status < 400 <=> CarriedOut(q[1].tag)
        BY <2>3 DEF Fits, Response
    <2>. QED
        BY <2>3, <2>6, <2>7
<1>2. IInv /\ SessionInv /\ [Next]_vars =>
        [ OneSession /\ fired = 0 /\ Running =>
            \A w \in Controller :
                PageEnds(w) => (Said(w) = "success" <=> CarriedOut(web[w].tag)) ]_vars
    BY <1>1
<1>. QED
    BY <1>2, Invariance, SessionInvariance, PTL DEF Safe, PagesTellTheTruth

-----------------------------------------------------------------------------
(* A queue in which there is no message about t that there was not before, *)
(* nor one more.                                                           *)
OneOf(q, t) == \A j, k \in OfTag(q, t) : j = k

Lowered(q, q1, t) ==
    /\ OneOf(q, t) => OneOf(q1, t)
    /\ OfTag(q, t) = {} => OfTag(q1, t) = {}
    /\ \A m \in InFlight(q1) : m.tag = t => m \in InFlight(q)

(* So are all queues.                                                      *)
Less(cn, cn1, t) ==
    \A c \in Conn : Lowered(cn[c].up, cn1[c].up, t) /\ Lowered(cn[c].down, cn1[c].down, t)

(* There is a message of that kind about t.                                *)
Has(cn, kind, t) ==
    \E c \in Conn : \E m \in InFlight(cn[c].up) \cup InFlight(cn[c].down) :
        m.kind = kind /\ m.tag = t

(* The one message about t is of that kind.                                *)
Only(cn, kind, t) ==
    Single(cn, t) /\ Has(cn, kind, t) /\ \A other : Has(cn, other, t) => other = kind

(* One was appended to a queue: about something else, or about t when      *)
(* there was none.                                                         *)
LEMMA AppendTag ==
    ASSUME NEW t, NEW q \in Seq(Message), NEW m \in Message
    PROVE  /\ m.tag # t => Lowered(q, Append(q, m), t)
           /\ OfTag(q, t) = {} => OneOf(Append(q, m), t)
           /\ m \in InFlight(Append(q, m))
           /\ OfTag(q, t) = {} => \A x \in InFlight(Append(q, m)) : x.tag = t => x = m
<1>. DEFINE r == Append(q, m)
            L == Len(q)
<1>1. /\ L \in Nat /\ DOMAIN q = 1..L /\ DOMAIN r = 1..(L + 1)
      /\ r[L + 1] = m /\ \A k \in 1..L : r[k] = q[k]
    BY LenProperties, AppendProperties
<1>2. InFlight(r) = InFlight(q) \cup {m}
    BY AppendInFlight
<1>. HIDE DEF r, L
<1>3. OfTag(r, t) = OfTag(q, t) \cup {n \in {L + 1} : m.tag = t}
    BY <1>1 DEF OfTag
<1>4. m.tag # t => Lowered(q, r, t)
    BY <1>2, <1>3 DEF Lowered, OneOf
<1>5. OfTag(q, t) = {} => \A j, k \in OfTag(r, t) : j = k
    BY <1>3
<1>6. OfTag(q, t) = {} => \A x \in InFlight(q) : x.tag # t
    BY DEF OfTag, InFlight
<1>. QED
    BY <1>2, <1>4, <1>5, <1>6 DEF OneOf, r

(* Some were read from a queue: if the one about t was among them, it has  *)
(* none any more.                                                          *)
LEMMA ReadTag ==
    ASSUME NEW t, NEW q \in Seq(Message), NEW n \in 1..Len(q)
    PROVE  LET left == SubSeq(q, n + 1, Len(q))
           IN  /\ Lowered(q, left, t)
               /\ OneOf(q, t) /\ (\E k \in 1..n : q[k].tag = t) => OfTag(left, t) = {}
<1>. DEFINE left == SubSeq(q, n + 1, Len(q))
            L    == Len(q)
<1>1. /\ L \in Nat /\ DOMAIN q = 1..L
      /\ DOMAIN left = 1..(L - n)
      /\ \A k \in 1..(L - n) : left[k] = q[n + k] /\ n + k \in 1..L
    <2>1. L \in Nat /\ DOMAIN q = 1..L
        BY LenProperties
    <2>. QED
        BY <2>1
<1>2. InFlight(left) \subseteq InFlight(q)
    BY ReadInFlight
<1>. HIDE DEF left, L
<1>3. \A k \in OfTag(left, t) : k \in Nat /\ k > 0 /\ n + k \in OfTag(q, t)
    BY <1>1 DEF OfTag
<1>4. ASSUME OneOf(q, t), NEW k \in OfTag(left, t), NEW j \in OfTag(left, t) PROVE j = k
    <2>1. n + k = n + j /\ n \in Nat
        BY <1>1, <1>3, <1>4 DEF OneOf, L
    <2>. QED
        BY <1>3, <2>1
<1>5. ASSUME OneOf(q, t), NEW j \in 1..n, q[j].tag = t, NEW k \in OfTag(left, t)
      PROVE  FALSE
    <2>1. j \in OfTag(q, t)
        BY <1>1, <1>5 DEF OfTag, L
    <2>2. j = n + k
        BY <1>3, <1>5, <2>1 DEF OneOf
    <2>. QED
        BY <1>3, <2>2
<1>6. OfTag(q, t) = {} => OfTag(left, t) = {}
    BY <1>3
<1>. QED
    BY <1>2, <1>4, <1>5, <1>6 DEF Lowered, OneOf, left

(* A queue that is emptied, or left alone.                                 *)
LEMMA EmptyTag ==
    ASSUME NEW t, NEW q
    PROVE  Lowered(q, <<>>, t) /\ Lowered(q, q, t)
<1>1. OfTag(<<>>, t) = {} /\ InFlight(<<>>) = {}
    BY DEF OfTag, InFlight
<1>. QED
    BY <1>1 DEF Lowered, OneOf

(* What holds where there is less.                                         *)
LEMMA LessKeeps ==
    ASSUME NEW t, NEW cn, NEW cn1, Less(cn, cn1, t)
    PROVE  /\ Single(cn, t) => Single(cn1, t)
           /\ Absent(cn, t) => Absent(cn1, t)
           /\ \A kind : Has(cn1, kind, t) => Has(cn, kind, t)
<1>1. \A c \in Conn : Bare(cn[c], t) => Bare(cn1[c], t)
    BY DEF Less, Lowered, Bare
<1>2. Absent(cn, t) => Absent(cn1, t)
    BY <1>1 DEF Absent
<1>3. \A kind : Has(cn1, kind, t) => Has(cn, kind, t)
    BY DEF Less, Lowered, Has
<1>4. ASSUME Single(cn, t), NEW c \in Conn
      PROVE  /\ OneOf(cn1[c].up, t) /\ OneOf(cn1[c].down, t)
             /\ OfTag(cn1[c].up, t) = {} \/ OfTag(cn1[c].down, t) = {}
    BY <1>4 DEF Single, Less, Lowered, OneOf
<1>5. Single(cn, t) => Single(cn1, t)
    BY <1>1, <1>4 DEF Single, OneOf
<1>. QED
    BY <1>2, <1>3, <1>5

(* Less of less is less.                                                   *)
LEMMA LessOfLess ==
    ASSUME NEW t, NEW cn, NEW cn1, NEW cn2, Less(cn, cn1, t), Less(cn1, cn2, t)
    PROVE  Less(cn, cn2, t)
BY DEF Less, Lowered

(* Connections between which nothing has moved.                            *)
LEMMA SameIsLess ==
    ASSUME NEW t, NEW cn, NEW cn1, SameQueues(cn, cn1)
    PROVE  Less(cn, cn1, t)
BY EmptyTag DEF SameQueues, Less

(* A single message is of one kind; where there is none there is no kind.  *)
LEMMA OneKind ==
    ASSUME NEW t, NEW cn
    PROVE  /\ Single(cn, t) => \A k1, k2 : Has(cn, k1, t) /\ Has(cn, k2, t) => k1 = k2
           /\ Absent(cn, t) => \A kind : ~Has(cn, kind, t)
<1>1. ASSUME NEW c \in Conn, NEW m \in InFlight(cn[c].up) \cup InFlight(cn[c].down),
             m.tag = t
      PROVE  /\ ~Bare(cn[c], t)
             /\ \/ \E j \in OfTag(cn[c].up, t) : m = cn[c].up[j]
                \/ \E j \in OfTag(cn[c].down, t) : m = cn[c].down[j]
    <2>1. CASE m \in InFlight(cn[c].up)
        <3>1. PICK j \in DOMAIN cn[c].up : m = cn[c].up[j]
            BY <2>1 DEF InFlight
        <3>. QED
            BY <1>1, <3>1 DEF OfTag, Bare
    <2>2. CASE m \in InFlight(cn[c].down)
        <3>1. PICK j \in DOMAIN cn[c].down : m = cn[c].down[j]
            BY <2>2 DEF InFlight
        <3>. QED
            BY <1>1, <3>1 DEF OfTag, Bare
    <2>. QED
        BY <2>1, <2>2
<1>2. Absent(cn, t) => \A kind : ~Has(cn, kind, t)
    BY <1>1 DEF Absent, Has
<1>3. ASSUME Single(cn, t), NEW k1, NEW k2, Has(cn, k1, t), Has(cn, k2, t)
      PROVE  k1 = k2
    <2>1. PICK c \in Conn : \E x \in InFlight(cn[c].up) \cup InFlight(cn[c].down) :
              x.kind = k1 /\ x.tag = t
        BY <1>3 DEF Has
    <2>2. PICK d \in Conn : \E y \in InFlight(cn[d].up) \cup InFlight(cn[d].down) :
              y.kind = k2 /\ y.tag = t
        BY <1>3 DEF Has
    <2>3. ~Bare(cn[c], t) /\ ~Bare(cn[d], t)
        BY <1>1, <2>1, <2>2
    <2>4. c = d
        BY <1>3, <2>3 DEF Single
    <2>. QED
        BY <1>1, <1>3, <2>1, <2>2, <2>4 DEF Single
<1>. QED
    BY <1>2, <1>3

(* One message more.                                                       *)
LEMMA SentTag ==
    ASSUME NEW t, NEW cn \in [Conn -> Connection], NEW cn1, NEW d \in Conn,
           NEW m \in Message, SentUp(cn, cn1, d, m) \/ SentDown(cn, cn1, d, m)
    PROVE  /\ m.tag # t => Less(cn, cn1, t)
           /\ m.tag = t /\ Absent(cn, t) => Only(cn1, m.kind, t)
<1>1. cn[d].up \in Seq(Message) /\ cn[d].down \in Seq(Message)
    BY DEF Connection
<1>. DEFINE u == Append(cn[d].up, m)
            v == Append(cn[d].down, m)
<1>2. /\ m.tag # t => Lowered(cn[d].up, u, t) /\ Lowered(cn[d].down, v, t)
      /\ OfTag(cn[d].up, t) = {} => OneOf(u, t)
      /\ OfTag(cn[d].down, t) = {} => OneOf(v, t)
      /\ m \in InFlight(u) /\ m \in InFlight(v)
      /\ OfTag(cn[d].up, t) = {} => \A x \in InFlight(u) : x.tag = t => x = m
      /\ OfTag(cn[d].down, t) = {} => \A x \in InFlight(v) : x.tag = t => x = m
    BY <1>1, AppendTag
<1>. HIDE DEF u, v
<1>3. /\ \A c \in Conn : c # d => cn1[c].up = cn[c].up /\ cn1[c].down = cn[c].down
      /\ \/ cn1[d].up = u /\ cn1[d].down = cn[d].down
         \/ cn1[d].up = cn[d].up /\ cn1[d].down = v
    BY DEF SentUp, SentDown, u, v
<1>4. m.tag # t => Less(cn, cn1, t)
    BY <1>2, <1>3, EmptyTag DEF Less
<1>5. ASSUME m.tag = t, Absent(cn, t) PROVE Only(cn1, m.kind, t)
    <2>1. \A c \in Conn : OfTag(cn[c].up, t) = {} /\ OfTag(cn[c].down, t) = {}
        BY <1>5 DEF Absent, Bare
    <2>2. \A c \in Conn : c # d => Bare(cn1[c], t)
        BY <1>3, <2>1 DEF Bare
    <2>3. /\ OneOf(cn1[d].up, t) /\ OneOf(cn1[d].down, t)
          /\ OfTag(cn1[d].up, t) = {} \/ OfTag(cn1[d].down, t) = {}
        BY <1>2, <1>3, <2>1 DEF OneOf
    <2>4. Single(cn1, t)
        BY <2>2, <2>3 DEF Single, OneOf, Bare
    <2>5. Has(cn1, m.kind, t)
        BY <1>2, <1>3, <1>5 DEF Has
    <2>6. \A c \in Conn : \A x \in InFlight(cn[c].up) \cup InFlight(cn[c].down) : x.tag # t
        BY <2>1 DEF OfTag, InFlight
    <2>7. ASSUME NEW c \in Conn, NEW x \in InFlight(cn1[c].up) \cup InFlight(cn1[c].down),
                 x.tag = t
          PROVE  x = m
        BY <1>2, <1>3, <2>1, <2>6, <2>7
    <2>. QED
        BY <2>4, <2>5, <2>7 DEF Only, Has
<1>. QED
    BY <1>4, <1>5

-----------------------------------------------------------------------------
(* What the server may do to the message about t: lose it, pass it on, or  *)
(* answer it.                                                              *)
Answered == {<<"request", "request">>, <<"request", "response">>, <<"response", "response">>}

Alters(cn, cn1, t) ==
    \/ Less(cn, cn1, t)
    \/ \E p \in Answered : Has(cn, p[1], t) /\ Only(cn1, p[2], t)

(* Some messages were read from a queue: if the first is about t, no other *)
(* message is.                                                             *)
LEMMA TagTaken ==
    ASSUME NEW t, NEW cn, NEW cn1, NEW c \in Conn, NEW q \in Seq(Message),
           NEW n \in 1..Len(q), Becomes(cn, cn1, c, q, SubSeq(q, n + 1, Len(q)))
    PROVE  /\ Less(cn, cn1, t)
           /\ Single(cn, t) /\ q[1].tag = t =>
                Absent(cn1, t) /\ Has(cn, q[1].kind, t)
<1>. DEFINE left == SubSeq(q, n + 1, Len(q))
<1>0. Becomes(cn, cn1, c, q, left)
    OBVIOUS
<1>1. /\ Lowered(q, left, t)
      /\ OneOf(q, t) /\ (\E k \in 1..n : q[k].tag = t) => OfTag(left, t) = {}
    BY ReadTag
<1>2. DOMAIN q = 1..Len(q) /\ Len(q) \in Nat
    BY LenProperties
<1>3. q[1] \in InFlight(q) /\ 1 \in DOMAIN q /\ 1 \in 1..n
    BY <1>2 DEF InFlight
<1>. HIDE DEF left
<1>4. Less(cn, cn1, t)
    BY <1>0, <1>1, EmptyTag DEF Less, Becomes
<1>5. ASSUME Single(cn, t), q[1].tag = t PROVE Absent(cn1, t) /\ Has(cn, q[1].kind, t)
    <2>1. q = cn[c].up \/ q = cn[c].down
        BY <1>0 DEF Becomes
    <2>2. Has(cn, q[1].kind, t)
        BY <1>3, <1>5, <2>1 DEF Has
    <2>3. 1 \in OfTag(q, t)
        BY <1>3, <1>5 DEF OfTag
    <2>4. OneOf(q, t) /\ ~Bare(cn[c], t)
        BY <1>5, <2>1, <2>3 DEF Single, OneOf, Bare
    <2>5. OfTag(left, t) = {}
        BY <1>1, <1>3, <1>5, <2>4
    <2>6. Bare(cn1[c], t)
        BY <1>0, <1>5, <2>3, <2>5 DEF Single, Bare, Becomes
    <2>7. \A d \in Conn : d # c => Bare(cn1[d], t)
        <3>1. \A d \in Conn : d # c => Bare(cn[d], t)
            BY <1>5, <2>4 DEF Single
        <3>. QED
            BY <1>0, <3>1 DEF Bare, Becomes
    <2>. QED
        BY <2>2, <2>6, <2>7 DEF Absent
<1>. QED
    BY <1>4, <1>5

(* Then one message was sent because of the first.                         *)
LEMMA TakenAndSent ==
    ASSUME NEW t, NEW cn, NEW cn1 \in [Conn -> Connection], NEW cn2,
           NEW c \in Conn, NEW q \in Seq(Message), NEW n \in 1..Len(q),
           Becomes(cn, cn1, c, q, SubSeq(q, n + 1, Len(q))),
           NEW d \in Conn, NEW m \in Message, m.tag = q[1].tag,
           SentUp(cn1, cn2, d, m) \/ SentDown(cn1, cn2, d, m)
    PROVE  /\ m.tag # t => Less(cn, cn2, t)
           /\ m.tag = t /\ Single(cn, t) => Has(cn, q[1].kind, t) /\ Only(cn2, m.kind, t)
<1>1. /\ Less(cn, cn1, t)
      /\ Single(cn, t) /\ q[1].tag = t => Absent(cn1, t) /\ Has(cn, q[1].kind, t)
    BY TagTaken
<1>2. /\ m.tag # t => Less(cn1, cn2, t)
      /\ m.tag = t /\ Absent(cn1, t) => Only(cn2, m.kind, t)
    BY SentTag
<1>. QED
    BY <1>1, <1>2, LessOfLess

(* What the loop reads and sends, in one branch.                           *)
LEMMA ReadAlters ==
    ASSUME NEW t, IInv, NEW c \in Conn,
           NEW n \in 1..Len(conn[c].up), NEW rest, NEW cn1, Single(conn, t),
           rest = [conn EXCEPT ![c].up = SubSeq(@, n + 1, Len(@))],
           \/ SameQueues(rest, cn1)
           \/ \E d \in Conn, m \in Message :
                 /\ SentDown(rest, cn1, d, m)
                 /\ m.tag = conn[c].up[1].tag
                 /\ <<conn[c].up[1].kind, m.kind>> \in Answered
    PROVE  Alters(conn, cn1, t)
<1>. DEFINE q    == conn[c].up
            left == SubSeq(q, n + 1, Len(q))
            x    == [conn[c] EXCEPT !.up = left]
<1>0. conn \in [Conn -> Connection]
    BY DEF IInv, TypeOK, NetTypeOK
<1>1. q \in Seq(Message) /\ conn[c] \in Connection /\ n \in 1..Len(q)
    BY <1>0 DEF Connection
<1>2. rest \in [Conn -> Connection]
    BY Taken
<1>3. Becomes(conn, rest, c, q, left)
    <2>1. rest = [conn EXCEPT ![c] = x]
        BY <1>0
    <2>2. x.up = left /\ x.down = conn[c].down /\ x.peer = conn[c].peer
        BY <1>1 DEF Connection
    <2>. HIDE DEF x, left
    <2>. QED
        BY <1>0, <1>1, <2>1, <2>2 DEF Becomes
<1>4. CASE SameQueues(rest, cn1)
    <2>1. Less(conn, rest, t)
        <3>. HIDE DEF q
        <3>. QED
            BY <1>1, <1>3, TagTaken
    <2>2. Less(rest, cn1, t)
        BY <1>4, SameIsLess
    <2>. QED
        BY <2>1, <2>2, LessOfLess DEF Alters
<1>5. ASSUME NEW d \in Conn, NEW m \in Message, SentDown(rest, cn1, d, m),
             m.tag = q[1].tag, <<q[1].kind, m.kind>> \in Answered
      PROVE  Alters(conn, cn1, t)
    <2>. HIDE DEF q
    <2>1. /\ m.tag # t => Less(conn, cn1, t)
          /\ m.tag = t => Has(conn, q[1].kind, t) /\ Only(cn1, m.kind, t)
        BY <1>1, <1>2, <1>3, <1>5, TakenAndSent
    <2>2. CASE m.tag = t
        <3>. DEFINE p == <<q[1].kind, m.kind>>
        <3>1. p \in Answered /\ p[1] = q[1].kind /\ p[2] = m.kind
            BY <1>5
        <3>. HIDE DEF p
        <3>. QED
            BY <2>1, <2>2, <3>1 DEF Alters
    <2>. QED
        BY <2>1, <2>2 DEF Alters
<1>. QED
    BY <1>4, <1>5

(* A close, and a read that fails.                                         *)
LEMMA ClosedAlters ==
    ASSUME NEW t, IInv, NEW c \in Conn,
           conn' = ServerClosed(conn, c) \/ ReadError(c)
    PROVE  Alters(conn, conn', t)
<1>0. conn \in [Conn -> Connection]
    BY DEF IInv, TypeOK, NetTypeOK
<1>1. CASE conn' = ServerClosed(conn, c)
    <2>1. /\ conn'[c].up = <<>> /\ conn'[c].down = conn[c].down
          /\ \A d \in Conn : d # c => conn'[d] = conn[d]
        BY <1>0, <1>1 DEF ServerClosed, Connection
    <2>. QED
        BY <2>1, EmptyTag DEF Less, Alters
<1>2. CASE ReadError(c)
    <2>. DEFINE x == [conn[c] EXCEPT !.link = "hup"]
    <2>1. x.up = conn[c].up /\ x.down = conn[c].down
        BY <1>0 DEF Connection
    <2>2. conn' = [conn EXCEPT ![c] = x]
        BY <1>0, <1>2 DEF ReadError
    <2>. HIDE DEF x
    <2>3. /\ conn'[c].up = conn[c].up /\ conn'[c].down = conn[c].down
          /\ \A d \in Conn : d # c => conn'[d] = conn[d]
        BY <1>0, <2>1, <2>2
    <2>. QED
        BY <2>3, EmptyTag DEF Less, Alters
<1>. QED
    BY <1>1, <1>2

-----------------------------------------------------------------------------
(* What each step of the server does to the message about t.               *)

(* The loop serves the connection that the latest controller's descriptor  *)
(* names.                                                                  *)
LEMMA ServeWebAlters ==
    ASSUME NEW t, IInv, ServeWeb, Single(conn, t)
    PROVE  Alters(conn, conn', t)
<1>. DEFINE c == fdtab[s_connfd]
<1>1. /\ pc = "web"
      /\ ServeWebData(c) \/ ServeWebEof(c) \/ ReadError(c)
    BY DEF ServeWeb
<1>2. /\ s_connfd \in Fd /\ c # 0 /\ c \in Conn /\ conn \in [Conn -> Connection]
      /\ conn[c] \in Connection /\ NetTypeOK /\ clients \in Seq(Client)
    <2>1. s_connfd \in Fd /\ s_connfd \in allset
        BY <1>1, Descriptors DEF IInv, TypeOK, LoopOK, ServerTypeOK
    <2>2. c # 0 /\ c \in 0..MaxConn
        BY <2>1, Descriptors DEF IInv, TypeOK, SelectNeverFails, NetTypeOK
    <2>3. c \in Conn
        BY <2>2, MaxConnAssumption DEF Conn
    <2>. QED
        BY <2>1, <2>2, <2>3 DEF IInv, TypeOK, NetTypeOK, ServerTypeOK
<1>. HIDE DEF c
<1>3. CASE ServeWebData(c)
    <2>1. PICK n \in 1..Len(conn[c].up) :
            LET batch == SubSeq(conn[c].up, 1, n)
                rest  == [conn EXCEPT ![c].up = SubSeq(@, n + 1, Len(@))]
                req   == request_parse(batch)
            IN  IF IsRequest(batch)
                THEN \E o \in ecafe_request_handle(rest, clients, req, s_connfd) : Handled(o)
                ELSE conn' = rest
        BY <1>3 DEF ServeWebData
    <2>. DEFINE batch == SubSeq(conn[c].up, 1, n)
                rest  == [conn EXCEPT ![c].up = SubSeq(@, n + 1, Len(@))]
                req   == request_parse(batch)
    <2>2. /\ batch \in Seq(Message) /\ Len(batch) # 0
          /\ rest \in [Conn -> Connection]
        BY <1>2, Taken
    <2>3. batch[1] = conn[c].up[1]
        <3>1. conn[c].up \in Seq(Message) /\ Len(conn[c].up) \in Nat
            BY <1>2, LenProperties DEF Connection
        <3>. QED
            BY <3>1
    <2>. HIDE DEF batch
    <2>4. CASE IsRequest(batch)
        <3>1. PICK o \in ecafe_request_handle(rest, clients, req, s_connfd) : Handled(o)
            BY <2>1, <2>4 DEF batch
        <3>2. req \in Request
            BY <2>2, <2>4, ParsedRequest
        <3>3. req.tag = batch[1].tag /\ batch[1].kind = "request"
            <4>1. batch[1] \in Message
                BY <2>2, ElementOfSeq, LenProperties
            <4>2. batch[1] \in Request
                BY <2>4, <4>1 DEF IsRequest, Message, Response
            <4>. QED
                BY <4>2 DEF request_parse, Request
        <3>. HIDE DEF req, rest
        <3>4. \/ SameQueues(rest, conn')
              \/ \E g, m : /\ Given(clients, s_connfd, req, g, m)
                           /\ Moves(rest, conn', g, m)
            BY <1>2, <2>2, <3>1, <3>2, RequestMoves DEF Handled
        <3>5. ASSUME NEW g, NEW m, Given(clients, s_connfd, req, g, m),
                     Moves(rest, conn', g, m), ~SameQueues(rest, conn')
              PROVE  \E d \in Conn, m1 \in Message :
                        /\ SentDown(rest, conn', d, m1)
                        /\ m1.tag = conn[c].up[1].tag
                        /\ <<conn[c].up[1].kind, m1.kind>> \in Answered
            <4>1. g \in Fd /\ fdtab[g] # 0 /\ SentDown(rest, conn', fdtab[g], m)
                BY <3>5 DEF Moves
            <4>2. fdtab[g] \in Conn /\ m \in Message /\ m.tag = req.tag
                BY <1>2, <3>5, <4>1, MaxConnAssumption DEF NetTypeOK, Conn, Given
            <4>3. m.kind \in {"request", "response"}
                BY <4>2 DEF Message, Request, Response
            <4>4. <<batch[1].kind, m.kind>> \in Answered
                BY <3>3, <4>3 DEF Answered
            <4>. QED
                BY <2>3, <3>3, <4>1, <4>2, <4>4
        <3>. QED
            BY <1>2, <3>4, <3>5, ReadAlters DEF rest
    <2>5. CASE ~IsRequest(batch)
        <3>1. SameQueues(rest, conn')
            BY <2>1, <2>5 DEF batch, SameQueues
        <3>. QED
            BY <1>2, <3>1, ReadAlters
    <2>. QED
        BY <2>4, <2>5
<1>4. CASE ServeWebEof(c) \/ ReadError(c)
    <2>1. conn' = ServerClosed(conn, c) \/ ReadError(c)
        BY <1>4 DEF ServeWebEof
    <2>. QED
        BY <1>2, <2>1, ClosedAlters
<1>. QED
    BY <1>1, <1>3, <1>4

(* The loop serves one client.                                             *)
LEMMA ServeClientAlters ==
    ASSUME NEW t, IInv, ServeClient, Single(conn, t)
    PROVE  Alters(conn, conn', t)
<1>. DEFINE j  == FirstOf(LoopTargets)
            id == client_array[j]
            fd == FdAt(j)
            c  == fdtab[fd]
<1>1. /\ pc = "clients" /\ LoopTargets # {}
      /\ \/ c # 0 /\ ServeClientData(c, client_get(clients, id))
         \/ c # 0 /\ (conn' = ServerClosed(conn, c) \/ ReadError(c))
         \/ UNCHANGED conn
    BY DEF ServeClient, ServeClientEof
<1>2. j \in Nat /\ j >= 1 /\ j <= nclients
    <2>1. LoopTargets \subseteq i..nclients
        BY DEF LoopTargets
    <2>. QED
        BY <1>1, <2>1, FirstPosition
<1>. HIDE DEF j
<1>3. j \in 1..Len(clients) /\ fd = clients[j].fd /\ clients \in Seq(Client)
    BY <1>2, Position DEF IInv, TypeOK, ServerTypeOK, FdAt
<1>4. /\ conn \in [Conn -> Connection] /\ NetTypeOK /\ fd \in Fd
      /\ c # 0 => c \in Conn
    <2>1. fd \in Fd
        BY <1>3, Members
    <2>. HIDE DEF fd, id
    <2>2. c # 0 => c \in Conn
        BY <2>1, MaxConnAssumption DEF Conn, IInv, TypeOK, NetTypeOK
    <2>. QED
        BY <2>1, <2>2 DEF IInv, TypeOK, NetTypeOK
<1>. HIDE DEF c, fd
<1>5. CASE c # 0 /\ ServeClientData(c, client_get(clients, id))
    <2>. DEFINE k == client_get(clients, id)
    <2>1. PICK n \in 1..Len(conn[c].up) :
            LET batch == SubSeq(conn[c].up, 1, n)
                rest  == [conn EXCEPT ![c].up = SubSeq(@, n + 1, Len(@))]
            IN  IF ResponseParses(batch)
                THEN \E o \in ecafe_response_handle(rest, clients, k, response_parse(batch),
                                                    s_connfd) : Handled(o)
                ELSE conn' = rest
        BY <1>5 DEF ServeClientData
    <2>. DEFINE batch == SubSeq(conn[c].up, 1, n)
                rest  == [conn EXCEPT ![c].up = SubSeq(@, n + 1, Len(@))]
                res   == response_parse(batch)
    <2>2. /\ batch \in Seq(Message) /\ Len(batch) # 0
          /\ rest \in [Conn -> Connection]
        BY <1>4, <1>5, Taken
    <2>3. batch[1] = conn[c].up[1]
        <3>1. conn[c].up \in Seq(Message) /\ Len(conn[c].up) \in Nat
            BY <1>4, <1>5, LenProperties DEF Connection
        <3>. QED
            BY <3>1
    <2>. HIDE DEF batch, k
    <2>4. CASE ResponseParses(batch)
        <3>1. PICK o \in ecafe_response_handle(rest, clients, k, res, s_connfd) : Handled(o)
            BY <2>1, <2>4 DEF batch
        <3>2. res \in Response
            BY <2>2, <2>4, ParsedResponse
        <3>3. res.tag = batch[1].tag /\ res.kind = batch[1].kind /\ res.kind = "response"
            <4>1. batch[1] \in Message
                BY <2>2, ElementOfSeq, LenProperties
            <4>2. batch[1] \in Response
                BY <2>4, <4>1 DEF ResponseParses, Message, Request
            <4>. QED
                BY <4>2 DEF response_parse, Response
        <3>. HIDE DEF res, rest
        <3>4. SameQueues(rest, conn') \/ Moves(rest, conn', s_connfd, res)
            BY <1>4, <2>2, <3>1, <3>2, ResponseMoves DEF Handled
        <3>5. ASSUME Moves(rest, conn', s_connfd, res), ~SameQueues(rest, conn')
              PROVE  \E d \in Conn, m \in Message :
                        /\ SentDown(rest, conn', d, m)
                        /\ m.tag = conn[c].up[1].tag
                        /\ <<conn[c].up[1].kind, m.kind>> \in Answered
            <4>1. /\ s_connfd \in Fd /\ fdtab[s_connfd] # 0
                  /\ SentDown(rest, conn', fdtab[s_connfd], res)
                BY <3>5 DEF Moves
            <4>2. fdtab[s_connfd] \in Conn /\ res \in Message
                BY <1>4, <3>2, <4>1, MaxConnAssumption DEF NetTypeOK, Conn, Message
            <4>3. <<batch[1].kind, res.kind>> \in Answered
                BY <3>3 DEF Answered
            <4>. QED
                BY <2>3, <3>3, <4>1, <4>2, <4>3
        <3>. QED
            BY <1>4, <1>5, <3>4, <3>5, ReadAlters DEF rest
    <2>5. CASE ~ResponseParses(batch)
        <3>1. SameQueues(rest, conn')
            BY <2>1, <2>5 DEF batch, SameQueues
        <3>. QED
            BY <1>4, <1>5, <3>1, ReadAlters
    <2>. QED
        BY <2>4, <2>5
<1>6. CASE c # 0 /\ (conn' = ServerClosed(conn, c) \/ ReadError(c))
    BY <1>4, <1>6, ClosedAlters
<1>7. CASE UNCHANGED conn
    BY <1>7, EmptyTag DEF Less, Alters
<1>. QED
    BY <1>1, <1>5, <1>6, <1>7

(* A controller is accepted.                                               *)
LEMMA AcceptServerAlters ==
    ASSUME NEW t, IInv, AcceptServer
    PROVE  Alters(conn, conn', t)
<1>. DEFINE c == FirstOf(Backlog(Controller))
            y == [conn[c] EXCEPT !.srv = "open"]
<1>1. conn' = [conn EXCEPT ![c].srv = "open"] /\ pc = "accept_s"
    BY DEF AcceptServer
<1>2. c \in Conn /\ conn \in [Conn -> Connection]
    BY <1>1, FirstWaiting DEF IInv, TypeOK, NetTypeOK, LoopOK
<1>. HIDE DEF c
<1>3. /\ y \in Connection /\ y.peer = conn[c].peer /\ y.link = conn[c].link
      /\ y.up = conn[c].up /\ y.down = conn[c].down
    BY <1>2 DEF Connection
<1>4. conn' = [conn EXCEPT ![c] = y]
    BY <1>1, <1>2
<1>. HIDE DEF y
<1>5. SameQueues(conn, conn')
    BY <1>2, <1>3, <1>4, SetSame
<1>. QED
    BY <1>5, SameIsLess DEF Alters

(* An agent is accepted, and asked who it is.                              *)
LEMMA AcceptClientAlters ==
    ASSUME NEW t \in ReqTag, IInv, AcceptClient
    PROVE  Alters(conn, conn', t)
<1>. DEFINE c  == FirstOf(Backlog(Machine))
            y  == [conn[c] EXCEPT !.srv = "open", !.id = NextId]
            cn == [conn EXCEPT ![c] = y]
<1>1. /\ \E w \in WriteTo([conn EXCEPT ![c].srv = "open", ![c].id = NextId], c, Details) :
            conn' = w.conn
      /\ pc = "accept_c"
    BY DEF AcceptClient
<1>2. /\ c \in Conn /\ conn \in [Conn -> Connection] /\ NextId \in Nat
    <2>1. C_LISTENFD \in rset
        BY <1>1 DEF IInv, LoopOK
    <2>2. Backlog(Machine) # {}
        BY <1>1, <2>1 DEF IInv, LoopOK
    <2>. QED
        BY <2>2, FirstWaiting DEF IInv, TypeOK, NetTypeOK, ServerTypeOK, NextId
<1>. HIDE DEF c
<1>3. /\ y \in Connection /\ y.peer = conn[c].peer /\ y.link = conn[c].link
      /\ y.up = conn[c].up /\ y.down = conn[c].down
    BY <1>2 DEF Connection
<1>4. cn = [conn EXCEPT ![c].srv = "open", ![c].id = NextId]
    BY <1>2
<1>. HIDE DEF y
<1>5. cn \in [Conn -> Connection] /\ SameQueues(conn, cn)
    BY <1>2, <1>3, SetSame
<1>6. PICK w \in WriteTo(cn, c, Details) : conn' = w.conn
    BY <1>1, <1>4
<1>. HIDE DEF cn
<1>7. Details \in Message /\ Details.tag # t
    <2>1. JoinTag \in Tag /\ JoinTag # t
        BY MaxReqAssumption DEF JoinTag, Tag, ReqTag
    <2>. QED
        BY <2>1 DEF Details, MakeRequest, Message, Request, Uri, ServerCommand, Param
<1>8. Less(conn, cn, t)
    BY <1>5, SameIsLess
<1>9. Less(cn, conn', t)
    <2>1. SameQueues(cn, conn') \/ SentDown(cn, conn', c, Details)
        BY <1>2, <1>5, <1>6, <1>7, WriteToMoves
    <2>. QED
        BY <1>2, <1>5, <1>7, <2>1, SameIsLess, SentTag
<1>. QED
    BY <1>8, <1>9, LessOfLess DEF Alters

(* A timer fires: what is sent is about the timer.                         *)
LEMMA TimeoutAlters ==
    ASSUME NEW t \in ReqTag, IInv, CheckTimeout
    PROVE  Alters(conn, conn', t)
<1>. DEFINE j   == FirstOf(Expired)
            k   == client_get(clients, client_array[j])
            uri == clients[k].timer_uri
            req == MakeRequest(uri, clients[k].id, {}, TimerTag)
<1>1. /\ Expired # {}
      /\ IF uri = NoUri THEN UNCHANGED conn
         ELSE \E o \in ecafe_request_handle(conn, clients, req, 0) : conn' = o.conn
    BY DEF CheckTimeout
<1>2. j \in Nat /\ j >= 1 /\ j <= nclients
    <2>1. Expired \subseteq i..nclients
        BY DEF Expired
    <2>. QED
        BY <1>1, <2>1, FirstPosition
<1>. HIDE DEF j
<1>3. /\ clients[k] \in Client /\ clients \in Seq(Client)
      /\ conn \in [Conn -> Connection] /\ NetTypeOK
    BY <1>2, Position DEF IInv, TypeOK, NetTypeOK, ServerTypeOK
<1>. HIDE DEF k
<1>4. CASE uri = NoUri
    BY <1>1, <1>4, EmptyTag DEF Less, Alters
<1>5. CASE uri # NoUri
    <2>1. req \in Request /\ req.tag # t
        <3>1. uri \in Uri /\ clients[k].id \in Nat /\ TimerTag \in Tag /\ TimerTag # t
            BY <1>3, MaxReqAssumption DEF Client, TimerTag, Tag, ReqTag
        <3>. QED
            BY <3>1 DEF MakeRequest, Request, NoUri, Uri
    <2>. HIDE DEF req
    <2>2. PICK o \in ecafe_request_handle(conn, clients, req, 0) : conn' = o.conn
        BY <1>1, <1>5
    <2>3. \/ SameQueues(conn, conn')
          \/ \E g, m : Given(clients, 0, req, g, m) /\ Moves(conn, conn', g, m)
        BY <1>3, <2>1, <2>2, RequestMoves
    <2>4. ASSUME NEW g, NEW m, Given(clients, 0, req, g, m), Moves(conn, conn', g, m),
                 ~SameQueues(conn, conn')
          PROVE  Less(conn, conn', t)
        <3>1. g \in Fd /\ fdtab[g] # 0 /\ SentDown(conn, conn', fdtab[g], m)
            BY <2>4 DEF Moves
        <3>2. fdtab[g] \in Conn /\ m \in Message /\ m.tag # t
            BY <1>3, <2>1, <2>4, <3>1, MaxConnAssumption DEF NetTypeOK, Conn, Given
        <3>. QED
            BY <1>3, <3>1, <3>2, SentTag
    <2>. QED
        BY <2>3, <2>4, SameIsLess DEF Alters
<1>. QED
    BY <1>4, <1>5

(* Every step of the server.                                               *)
LEMMA ServerAlters ==
    ASSUME NEW t \in ReqTag, IInv, Server, Single(conn, t)
    PROVE  Alters(conn, conn', t)
<1>1. ServerStep \/ TimePasses
    BY DEF Server
<1>2. CASE Select \/ EndRound \/ EndTimeout \/ TimePasses
    <2>1. UNCHANGED conn
        BY <1>2 DEF Select, EndRound, EndTimeout, TimePasses, netVars
    <2>. QED
        BY <2>1, EmptyTag DEF Less, Alters
<1>. QED
    BY <1>1, <1>2, AcceptServerAlters, AcceptClientAlters, ServeWebAlters,
       ServeClientAlters, TimeoutAlters DEF ServerStep

-----------------------------------------------------------------------------
(* A step, seen from request t: the message about it is lost, passed on or *)
(* answered, and if it is carried out then it is answered by that.         *)
Follows(t) ==
    /\ t <= nreq' <=> t <= nreq
    /\ \/ Alters(conn, conn', t) /\ (CarriedOut(t)' <=> CarriedOut(t))
       \/ Has(conn, "request", t) /\ Only(conn', "response", t) /\ CarriedOut(t)'

(* So it keeps what is proved of t, and is a step that RemoteControl       *)
(* allows.                                                                 *)
LEMMA FollowsKeeps ==
    ASSUME NEW t \in ReqTag, Traced(t), nreq \in Nat, nreq' \in Nat, Follows(t)
    PROVE  /\ Traced(t)'
           /\ \/ StageOf(t)' = StageOf(t) /\ (CarriedOut(t)' <=> CarriedOut(t))
              \/ StageOf(t) = "asked" /\ StageOf(t)' = "answered" /\ ~CarriedOut(t)
              \/ /\ StageOf(t) \in {"asked", "answered"} /\ StageOf(t)' = "over"
                 /\ CarriedOut(t)' <=> CarriedOut(t)
<1>. DEFINE R  == Has(conn, "request", t)
            A  == Has(conn, "response", t)
            R1 == Has(conn', "request", t)
            A1 == Has(conn', "response", t)
<1>1. /\ AnyInFlight("request", t) <=> R
      /\ AnyInFlight("response", t) <=> A
      /\ AnyInFlight("request", t)' <=> R1
      /\ AnyInFlight("response", t)' <=> A1
    BY DEF AnyInFlight, Has
<1>2. /\ Single(conn, t) /\ (t > nreq => Absent(conn, t) /\ ~CarriedOut(t))
      /\ R => ~CarriedOut(t)
    BY <1>1 DEF Traced
<1>3. /\ ~(R /\ A) /\ (Absent(conn, t) => ~R /\ ~A)
      /\ Single(conn', t) => ~(R1 /\ A1)
      /\ t \in Nat
    BY <1>2, OneKind, MaxReqAssumption DEF ReqTag
<1>4. Traced(t)' <=> /\ Single(conn', t)
                     /\ t > nreq' => Absent(conn', t) /\ ~CarriedOut(t)'
                     /\ R1 => ~CarriedOut(t)'
    BY <1>1 DEF Traced, Single, Absent, Bare
<1>5. /\ R => StageOf(t) = "asked"
      /\ ~R /\ A => StageOf(t) = "answered"
      /\ ~R /\ ~A /\ t <= nreq => StageOf(t) = "over"
      /\ ~R /\ ~A /\ ~(t <= nreq) => StageOf(t) = "unasked"
    BY <1>1 DEF StageOf
<1>6. /\ R1 => StageOf(t)' = "asked"
      /\ ~R1 /\ A1 => StageOf(t)' = "answered"
      /\ ~R1 /\ ~A1 /\ t <= nreq' => StageOf(t)' = "over"
      /\ ~R1 /\ ~A1 /\ ~(t <= nreq') => StageOf(t)' = "unasked"
    BY <1>1 DEF StageOf
<1>7. CASE Less(conn, conn', t) /\ (CarriedOut(t)' <=> CarriedOut(t))
    <2>1. /\ Single(conn', t) /\ (Absent(conn, t) => Absent(conn', t))
          /\ R1 => R
          /\ A1 => A
        BY <1>2, <1>7, LessKeeps
    <2>. HIDE DEF R, A, R1, A1
    <2>2. Traced(t)'
        BY <1>2, <1>3, <1>4, <1>7, <2>1 DEF Follows
    <2>3. R \/ A => t <= nreq
        BY <1>2, <1>3
    <2>4. \/ StageOf(t)' = StageOf(t)
          \/ StageOf(t) \in {"asked", "answered"} /\ StageOf(t)' = "over"
        BY <1>3, <1>5, <1>6, <2>1, <2>3 DEF Follows
    <2>. QED
        BY <1>7, <2>2, <2>4
<1>8. ASSUME NEW p \in Answered, Has(conn, p[1], t), Only(conn', p[2], t),
             CarriedOut(t)' <=> CarriedOut(t)
      PROVE  /\ Traced(t)'
             /\ \/ StageOf(t)' = StageOf(t)
                \/ StageOf(t) = "asked" /\ StageOf(t)' = "answered" /\ ~CarriedOut(t)
    <2>1. t <= nreq /\ t <= nreq'
        BY <1>2, <1>3, <1>8, OneKind DEF Follows
    <2>2. /\ Single(conn', t)
          /\ \/ R /\ R1 /\ ~A1
             \/ R /\ A1 /\ ~R1
             \/ A /\ A1 /\ ~R1
        BY <1>8 DEF Answered, Only
    <2>. HIDE DEF R, A, R1, A1
    <2>3. Traced(t)'
        BY <1>2, <1>3, <1>4, <1>8, <2>1, <2>2
    <2>. QED
        BY <1>2, <1>3, <1>5, <1>6, <2>2, <2>3
<1>9. CASE Has(conn, "request", t) /\ Only(conn', "response", t) /\ CarriedOut(t)'
    <2>1. t <= nreq /\ t <= nreq'
        BY <1>2, <1>3, <1>9 DEF Follows
    <2>2. Single(conn', t) /\ R /\ A1 /\ ~R1
        BY <1>9 DEF Only
    <2>. HIDE DEF R, A, R1, A1
    <2>3. Traced(t)'
        BY <1>3, <1>4, <2>1, <2>2
    <2>. QED
        BY <1>2, <1>5, <1>6, <2>2, <2>3
<1>. QED
    BY <1>7, <1>8, <1>9 DEF Follows, Alters

-----------------------------------------------------------------------------
(* A peer connects, with nothing on its way, or goes.                      *)
LEMMA PeerLess ==
    ASSUME NEW t, IInv,
           \/ \E p \in Machine \cup Controller : Connect(p)
           \/ \E c \in Conn : conn' = PeerClosed(c)
    PROVE  Less(conn, conn', t)
<1>0. conn \in [Conn -> Connection]
    BY DEF IInv, TypeOK, NetTypeOK
<1>1. ASSUME NEW p \in Machine \cup Controller, Connect(p) PROVE Less(conn, conn', t)
    <2>1. /\ nconn + 1 \in Conn
          /\ conn'[nconn + 1].up = <<>> /\ conn'[nconn + 1].down = <<>>
          /\ \A d \in Conn : d # nconn + 1 => conn'[d] = conn[d]
        BY <1>1, ConnectPages
    <2>. QED
        BY <2>1, EmptyTag DEF Less
<1>2. ASSUME NEW c \in Conn, conn' = PeerClosed(c) PROVE Less(conn, conn', t)
    <2>. DEFINE l == IF conn[c].down # <<>> THEN "rst"
                     ELSE IF conn[c].peer \in Controller THEN "hup" ELSE "fin"
                y == [conn[c] EXCEPT !.link = l, !.down = <<>>]
    <2>1. conn' = [conn EXCEPT ![c].link = l, ![c].down = <<>>]
        BY <1>2 DEF PeerClosed
    <2>. HIDE DEF l
    <2>2. y.up = conn[c].up /\ y.down = <<>>
        BY <1>0 DEF Connection
    <2>3. conn' = [conn EXCEPT ![c] = y]
        BY <1>0, <2>1
    <2>. HIDE DEF y
    <2>4. /\ conn'[c].up = conn[c].up /\ conn'[c].down = <<>>
          /\ \A d \in Conn : d # c => conn'[d] = conn[d]
        BY <1>0, <2>2, <2>3
    <2>. QED
        BY <2>4, EmptyTag DEF Less
<1>. QED
    BY <1>1, <1>2

(* An agent reads requests, and carries out the first or exits.            *)
LEMMA AgentRequestFollows ==
    ASSUME NEW t, IInv, NEW c \in AgentConn, AgentRequest(c), Single(conn, t),
           UNCHANGED nreq
    PROVE  Follows(t)
<1>. DEFINE q == conn[c].down
<1>1. /\ c \in Conn /\ conn \in [Conn -> Connection] /\ conn[c] \in Connection
      /\ q \in Seq(Message) /\ conn[c].up \in Seq(Message)
    <2>1. c \in Conn /\ conn \in [Conn -> Connection]
        BY MaxConnAssumption DEF AgentConn, IInv, TypeOK, NetTypeOK, Conn
    <2>. QED
        BY <2>1 DEF Connection
<1>2. PICK n \in 1..Len(q) :
         LET batch == SubSeq(q, 1, n)
             rest  == [conn EXCEPT ![c].down = SubSeq(@, n + 1, Len(@))]
             req   == request_parse(batch)
             died  == IF n < Len(q) THEN "rst" ELSE "fin"
         IN  IF IsRequest(batch) /\ Handles(req)
             THEN /\ executed' = executed \cup
                        {[conn |-> c, uri |-> req.uri, id |-> req.id, tag |-> req.tag]}
                  /\ conn' = [rest EXCEPT ![c].up = Append(@,
                                MakeResponse(req.uri, Status(req.uri),
                                             HasRecords(req.uri), req.tag))]
             ELSE /\ conn' = [rest EXCEPT ![c].link = died, ![c].down = <<>>]
                  /\ UNCHANGED executed
    BY DEF AgentRequest
<1>. DEFINE batch == SubSeq(q, 1, n)
            left  == SubSeq(q, n + 1, Len(q))
            x     == [conn[c] EXCEPT !.down = left]
            rest  == [conn EXCEPT ![c] = x]
            req   == request_parse(batch)
            died  == IF n < Len(q) THEN "rst" ELSE "fin"
            res   == MakeResponse(req.uri, Status(req.uri), HasRecords(req.uri), req.tag)
<1>3. rest = [conn EXCEPT ![c].down = left]
    BY <1>1
<1>4. /\ left \in Seq(Message) /\ batch \in Seq(Message) /\ Len(batch) # 0
      /\ batch[1] = q[1]
    BY <1>1, <1>2, Batches, LenProperties
<1>5. /\ x \in Connection /\ x.peer = conn[c].peer /\ x.up = conn[c].up /\ x.down = left
    BY <1>1, <1>4 DEF Connection
<1>6. CASE IsRequest(batch) /\ Handles(req)
    <2>1. /\ executed' = executed \cup
                {[conn |-> c, uri |-> req.uri, id |-> req.id, tag |-> req.tag]}
          /\ conn' = [rest EXCEPT ![c].up = Append(@, res)]
        BY <1>2, <1>3, <1>6
    <2>2. req \in Request /\ req.tag = q[1].tag /\ q[1].kind = "request"
        <3>1. req \in Request
            BY <1>4, <1>6, ParsedRequest
        <3>2. batch[1] \in Message
            BY <1>4, ElementOfSeq, LenProperties
        <3>3. batch[1] \in Request
            BY <1>6, <3>2 DEF IsRequest, Message, Response
        <3>. QED
            BY <1>4, <3>1, <3>3 DEF request_parse, Request
    <2>. HIDE DEF req, batch
    <2>3. res \in Message /\ res.tag = q[1].tag /\ res.kind = "response"
        BY <2>2 DEF MakeResponse, Status, HasRecords, Message, Response, Request
    <2>. HIDE DEF res, x, left
    <2>4. rest \in [Conn -> Connection] /\ Becomes(conn, rest, c, q, left)
        BY <1>1, <1>5 DEF Becomes
    <2>. DEFINE z == [rest[c] EXCEPT !.up = Append(rest[c].up, res)]
    <2>5. z.peer = rest[c].peer /\ z.down = rest[c].down /\ z.up = Append(rest[c].up, res)
        BY <1>1, <2>4 DEF Connection
    <2>6. conn' = [rest EXCEPT ![c] = z]
        BY <2>1
    <2>. HIDE DEF z
    <2>7. SentUp(rest, conn', c, res)
        BY <1>1, <2>4, <2>5, <2>6 DEF SentUp
    <2>. HIDE DEF rest
    <2>8. /\ res.tag # t => Less(conn, conn', t)
          /\ res.tag = t => Has(conn, q[1].kind, t) /\ Only(conn', res.kind, t)
        <3>1. n \in 1..Len(q) /\ Becomes(conn, rest, c, q, SubSeq(q, n + 1, Len(q)))
            BY <2>4 DEF left
        <3>2. q \in Seq(Message)
            BY <1>1
        <3>. HIDE DEF q
        <3>. QED
            BY <1>1, <2>3, <2>4, <2>7, <3>1, <3>2, TakenAndSent
    <2>. DEFINE e == [conn |-> c, uri |-> req.uri, id |-> req.id, tag |-> req.tag]
    <2>9. executed' = executed \cup {e} /\ e.tag = res.tag
        BY <2>1, <2>2, <2>3
    <2>. HIDE DEF e
    <2>10. CarriedOut(t)' <=> CarriedOut(t) \/ res.tag = t
        BY <2>9 DEF CarriedOut
    <2>. HIDE DEF q
    <2>. QED
        BY <2>2, <2>3, <2>8, <2>10 DEF Follows, Alters
<1>7. CASE ~(IsRequest(batch) /\ Handles(req))
    <2>1. conn' = [rest EXCEPT ![c].link = died, ![c].down = <<>>] /\ UNCHANGED executed
        BY <1>2, <1>3, <1>7
    <2>. DEFINE y == [x EXCEPT !.link = died, !.down = <<>>]
    <2>. HIDE DEF died, req, batch, x
    <2>2. conn' = [conn EXCEPT ![c] = y]
        BY <1>1, <2>1
    <2>3. y.up = conn[c].up /\ y.down = <<>>
        BY <1>5 DEF Connection
    <2>. HIDE DEF y
    <2>4. Less(conn, conn', t)
        BY <1>1, <2>2, <2>3, EmptyTag DEF Less
    <2>. QED
        BY <2>1, <2>4 DEF Follows, Alters, CarriedOut
<1>. QED
    BY <1>6, <1>7

(* Every step of the agents.                                               *)
LEMMA AgentFollows ==
    ASSUME NEW t, IInv, Agent, Single(conn, t)
    PROVE  Follows(t)
<1>1. UNCHANGED nreq
    BY DEF Agent, controllerVars
<1>2. ASSUME NEW c \in AgentConn, AgentRequest(c) PROVE Follows(t)
    BY <1>1, <1>2, AgentRequestFollows
<1>3. ASSUME \/ \E p \in Machine : AgentJoin(p)
             \/ \E c \in AgentConn : AgentExit(c) \/ AgentEof(c)
      PROVE  Follows(t)
    <2>1. UNCHANGED executed
        BY <1>3 DEF AgentJoin, AgentExit, AgentEof
    <2>2. \/ \E p \in Machine \cup Controller : Connect(p)
          \/ \E c \in Conn : conn' = PeerClosed(c)
        BY <1>3, MaxConnAssumption
           DEF AgentJoin, AgentExit, AgentEof, AgentConn, IInv, TypeOK, NetTypeOK, Conn
    <2>3. Less(conn, conn', t)
        BY <2>2, PeerLess
    <2>. QED
        BY <1>1, <2>1, <2>3 DEF Follows, Alters, CarriedOut
<1>. QED
    BY <1>2, <1>3 DEF Agent

(* A step of the controllers that makes no request.                        *)
LEMMA WebFollows ==
    ASSUME NEW t, IInv, NEW w \in Controller,
           Start(w) \/ Stop(w) \/ Receive(w) \/ ServerGone(w),
           UNCHANGED executed, Single(conn, t)
    PROVE  Follows(t)
<1>0. conn \in [Conn -> Connection] /\ web[w].conn \in 0..MaxConn
    BY DEF IInv, TypeOK, NetTypeOK, ControllerTypeOK
<1>1. UNCHANGED nreq
    BY DEF Start, Stop, Receive, ServerGone
<1>2. SUFFICES Less(conn, conn', t)
    BY <1>1 DEF Follows, Alters, CarriedOut
<1>3. CASE Start(w) \/ Stop(w)
    <2>1. \/ \E p \in Machine \cup Controller : Connect(p)
          \/ \E c \in Conn : conn' = PeerClosed(c)
        BY <1>0, <1>3, MaxConnAssumption DEF Start, Stop, Conn
    <2>. QED
        BY <2>1, PeerLess
<1>4. CASE Receive(w)
    <2>. DEFINE c == web[w].conn
                q == conn[c].down
    <2>1. PICK n \in 1..Len(q) : conn' = [conn EXCEPT ![c].down = SubSeq(@, n + 1, Len(@))]
        BY <1>4 DEF Receive
    <2>. DEFINE left == SubSeq(q, n + 1, Len(q))
                x == [conn[c] EXCEPT !.down = left]
    <2>2. c \in Conn
        BY <1>0, <1>4, MaxConnAssumption DEF Receive, IInv, WaitsOnConnection, Conn
    <2>. HIDE DEF c
    <2>3. q \in Seq(Message)
        BY <1>0, <2>2 DEF Connection
    <2>4. x.peer = conn[c].peer /\ x.up = conn[c].up /\ x.down = left
        BY <1>0, <2>2 DEF Connection
    <2>5. conn' = [conn EXCEPT ![c] = x]
        BY <1>0, <2>1, <2>2
    <2>. HIDE DEF x, left
    <2>6. Becomes(conn, conn', c, q, left)
        BY <1>0, <2>2, <2>4, <2>5 DEF Becomes
    <2>7. n \in 1..Len(q) /\ Becomes(conn, conn', c, q, SubSeq(q, n + 1, Len(q)))
        BY <2>6 DEF left
    <2>. HIDE DEF q
    <2>. QED
        BY <2>2, <2>3, <2>7, TagTaken
<1>5. CASE ServerGone(w)
    <2>1. UNCHANGED conn
        BY <1>5 DEF ServerGone, netVars
    <2>. QED
        BY <2>1, EmptyTag DEF Less
<1>. QED
    BY <1>3, <1>4, <1>5

-----------------------------------------------------------------------------
(* The connections after a request was made: one message more, with a      *)
(* number that no message had.                                             *)
LEMMA AskSends ==
    ASSUME IInv, NEW w \in Controller, Ask(w)
    PROVE  /\ nreq \in Nat /\ nreq' = nreq + 1
           /\ \E d \in Conn, m \in Message :
                 SentUp(conn, conn', d, m) /\ m.tag = nreq + 1 /\ m.kind = "request"
<1>. DEFINE c == web[w].conn
<1>1. PICK req \in PageRequest(nreq + 1) : conn' = [conn EXCEPT ![c].up = Append(@, req)]
    BY DEF Ask
<1>2. /\ c \in Conn /\ nreq \in Nat /\ nreq' = nreq + 1 /\ nreq + 1 \in Tag
      /\ conn \in [Conn -> Connection]
    BY MaxReqAssumption, MaxConnAssumption
       DEF Ask, IInv, TypeOK, ControllerTypeOK, NetTypeOK, Tag, Conn
<1>3. req \in Message /\ req.kind = "request" /\ req.tag = nreq + 1
    <2>1. req \in Request
        BY <1>1, <1>2, PagesRequest
    <2>2. CASE \E uri \in PageUri \ {"timer"}, id \in PageId :
                   req = CommandRequest(uri, id, nreq + 1)
        BY <2>1, <2>2 DEF CommandRequest, MakeRequest, Message
    <2>3. CASE /\ "timer" \in PageUri
               /\ \E id \in PageId, action \in TimerAction, d \in Duration :
                     req = TimerRequest(id, action, d, nreq + 1)
        <3>1. PICK id \in PageId, action \in TimerAction, d \in Duration :
                 req = TimerRequest(id, action, d, nreq + 1)
            BY <2>3
        <3>2. req.kind = "request" /\ req.tag = nreq + 1
            BY <3>1 DEF TimerRequest, MakeRequest
        <3>. QED
            BY <2>1, <3>2 DEF Message
    <2>. QED
        BY <1>1, <2>2, <2>3 DEF PageRequest
<1>. HIDE DEF c
<1>. DEFINE x == [conn[c] EXCEPT !.up = Append(conn[c].up, req)]
<1>4. x.peer = conn[c].peer /\ x.down = conn[c].down /\ x.up = Append(conn[c].up, req)
    BY <1>2 DEF Connection
<1>5. conn' = [conn EXCEPT ![c] = x]
    BY <1>1, <1>2
<1>. HIDE DEF x
<1>6. SentUp(conn, conn', c, req)
    BY <1>2, <1>4, <1>5 DEF SentUp
<1>. QED
    BY <1>2, <1>3, <1>6

(* A step, seen from request t: RemoteControl's steps for one request.     *)
Proceeds(t) ==
    \/ StageOf(t)' = StageOf(t) /\ (CarriedOut(t)' <=> CarriedOut(t))
    \/ /\ StageOf(t) = "unasked" /\ StageOf(t)' = "asked"
       /\ CarriedOut(t)' <=> CarriedOut(t)
    \/ StageOf(t) = "asked" /\ StageOf(t)' = "answered" /\ ~CarriedOut(t)
    \/ /\ StageOf(t) \in {"asked", "answered"} /\ StageOf(t)' = "over"
       /\ CarriedOut(t)' <=> CarriedOut(t)

(* The request that is made was none before; the others are let alone.     *)
LEMMA AskProceeds ==
    ASSUME NEW t \in ReqTag, IInv, NEW w \in Controller, Ask(w), UNCHANGED executed,
           Traced(t)
    PROVE  Traced(t)' /\ Proceeds(t)
<1>0. conn \in [Conn -> Connection] /\ t \in Nat
    BY MaxReqAssumption DEF IInv, TypeOK, NetTypeOK, ReqTag
<1>1. /\ nreq \in Nat /\ nreq' = nreq + 1 /\ nreq' \in Nat
      /\ \E d \in Conn, m \in Message :
            SentUp(conn, conn', d, m) /\ m.tag = nreq + 1 /\ m.kind = "request"
    BY AskSends
<1>2. CarriedOut(t)' <=> CarriedOut(t)
    BY DEF CarriedOut
<1>3. PICK d \in Conn, m \in Message :
          SentUp(conn, conn', d, m) /\ m.tag = nreq + 1 /\ m.kind = "request"
    BY <1>1
<1>4. /\ m.tag # t => Less(conn, conn', t)
      /\ m.tag = t /\ Absent(conn, t) => Only(conn', m.kind, t)
    BY <1>0, <1>3, SentTag
<1>5. CASE t # nreq + 1
    <2>1. Follows(t)
        BY <1>0, <1>1, <1>2, <1>3, <1>4, <1>5 DEF Follows, Alters
    <2>. QED
        BY <1>1, <2>1, FollowsKeeps DEF Proceeds
<1>6. CASE t = nreq + 1
    <2>1. t > nreq /\ ~(t <= nreq) /\ ~(t > nreq')
        BY <1>0, <1>1, <1>6
    <2>2. Absent(conn, t) /\ ~CarriedOut(t)
        BY <2>1 DEF Traced
    <2>3. Only(conn', "request", t)
        BY <1>3, <1>4, <1>6, <2>2
    <2>4. Single(conn', t) /\ Has(conn', "request", t)
        BY <2>3 DEF Only
    <2>5. ~Has(conn, "request", t) /\ ~Has(conn, "response", t)
        BY <2>2, OneKind
    <2>6. StageOf(t) = "unasked"
        BY <2>1, <2>5 DEF StageOf, AnyInFlight, Has
    <2>7. StageOf(t)' = "asked"
        BY <2>4 DEF StageOf, AnyInFlight, Has
    <2>8. Traced(t)'
        BY <1>2, <2>1, <2>2, <2>4 DEF Traced, Single, Absent, Bare
    <2>. QED
        BY <1>2, <2>6, <2>7, <2>8 DEF Proceeds
<1>. QED
    BY <1>5, <1>6

(* So does every step.                                                     *)
LEMMA NextProceeds ==
    ASSUME NEW t \in ReqTag, IInv, IInv', Traced(t), [Next]_vars
    PROVE  Traced(t)' /\ Proceeds(t)
<1>1. nreq \in Nat /\ nreq' \in Nat /\ Single(conn, t)
    BY MaxReqAssumption DEF IInv, TypeOK, ControllerTypeOK, Traced
<1>2. ASSUME Follows(t) PROVE Traced(t)' /\ Proceeds(t)
    BY <1>1, <1>2, FollowsKeeps DEF Proceeds
<1>3. CASE Server
    <2>1. UNCHANGED <<executed, nreq>>
        BY <1>3 DEF Server, controllerVars
    <2>2. Alters(conn, conn', t)
        BY <1>1, <1>3, ServerAlters
    <2>. QED
        BY <1>2, <2>1, <2>2 DEF Follows, CarriedOut
<1>4. CASE Agent
    BY <1>1, <1>2, <1>4, AgentFollows
<1>5. CASE Web
    <2>1. UNCHANGED executed
        BY <1>5 DEF Web
    <2>2. PICK w \in Controller :
              Start(w) \/ Stop(w) \/ Ask(w) \/ Receive(w) \/ ServerGone(w)
        BY <1>5 DEF Web
    <2>3. CASE Ask(w)
        BY <2>1, <2>3, AskProceeds
    <2>4. CASE ~Ask(w)
        BY <1>1, <1>2, <2>1, <2>2, <2>4, WebFollows
    <2>. QED
        BY <2>3, <2>4
<1>6. CASE UNCHANGED vars
    <2>1. UNCHANGED <<conn, executed, nreq>>
        BY <1>6 DEF vars, netVars, controllerVars
    <2>2. Less(conn, conn', t)
        BY <2>1, EmptyTag DEF Less
    <2>. QED
        BY <1>2, <2>1, <2>2 DEF Follows, Alters, CarriedOut
<1>. QED
    BY <1>3, <1>4, <1>5, <1>6 DEF Next

(* Before anyone has connected.                                            *)
LEMMA InitControl ==
    ASSUME Init
    PROVE  ControlInv /\ Control!ControlInit
<1>1. conn = [c \in Conn |-> Unused] /\ executed = {} /\ nreq = 0
    BY DEF Init, NetInit, AgentInit, ControllerInit
<1>2. \A c \in Conn : conn[c].up = <<>> /\ conn[c].down = <<>>
    BY <1>1 DEF Unused
<1>3. ASSUME NEW t \in ReqTag
      PROVE  Traced(t) /\ StageOf(t) = "unasked" /\ ~CarriedOut(t)
    <2>1. t \in Nat /\ ~(t <= nreq)
        BY <1>1, MaxReqAssumption DEF ReqTag
    <2>2. ~CarriedOut(t)
        BY <1>1 DEF CarriedOut
    <2>3. OfTag(<<>>, t) = {} /\ InFlight(<<>>) = {}
        BY DEF OfTag, InFlight
    <2>4. Absent(conn, t) /\ Single(conn, t)
        BY <1>2, <2>3 DEF Absent, Single, Bare
    <2>5. ~AnyInFlight("request", t) /\ ~AnyInFlight("response", t)
        BY <1>2, <2>3 DEF AnyInFlight
    <2>. QED
        BY <2>1, <2>2, <2>4, <2>5 DEF Traced, StageOf
<1>. QED
    BY <1>1, <1>3 DEF ControlInv, Control!ControlInit

(* In every reachable state there is one message at most about each        *)
(* request, over all connections, none before the request is made, and     *)
(* while it is still a request nobody has carried it out (ControlInv).     *)
THEOREM ControlInvariance == Safe => []ControlInv
<1>1. Init => ControlInv
    BY InitControl
<1>2. IInv /\ IInv' /\ ControlInv /\ [Next]_vars => ControlInv'
    <2>. SUFFICES ASSUME IInv, IInv', ControlInv, [Next]_vars PROVE ControlInv'
        OBVIOUS
    <2>1. ASSUME NEW t \in ReqTag PROVE Traced(t)'
        BY <2>1, NextProceeds DEF ControlInv
    <2>. QED
        BY <2>1 DEF ControlInv
<1>. QED
    BY <1>1, <1>2, Invariance, PTL DEF Safe

(* Whatever is relayed, refused, merged by a read or written to a stale    *)
(* descriptor, a request that a controller makes is carried out once at    *)
(* most, and never again once it was answered or lost, and its  *)
(* answer is not multiplied: the system implements RemoteControl.          *)
THEOREM ControlIsImplemented == Safe => ImplementsControl
<1>1. Init => Control!ControlInit
    BY InitControl
<1>2. IInv /\ IInv' /\ ControlInv /\ [Next]_vars
         => [Control!ControlNext]_(Control!controlVars)
    <2>. SUFFICES ASSUME IInv, IInv', ControlInv, [Next]_vars PROVE Control!ControlNext
        BY DEF Control!controlVars
    <2>. DEFINE stage == [t \in ReqTag |-> StageOf(t)]
                done  == {x.tag : x \in executed} \cap ReqTag
    <2>1. DOMAIN stage' = ReqTag /\ done' \subseteq ReqTag
        OBVIOUS
    <2>2. ASSUME NEW t \in ReqTag
          PROVE  /\ stage[t] = StageOf(t) /\ stage'[t] = StageOf(t)'
                 /\ t \in done <=> CarriedOut(t)
                 /\ t \in done' <=> CarriedOut(t)'
        BY <2>2 DEF CarriedOut
    <2>3. ASSUME NEW t \in ReqTag PROVE Proceeds(t)
        BY <2>3, NextProceeds DEF ControlInv
    <2>. QED
        BY <2>1, <2>2, <2>3
           DEF Proceeds, Control!ControlNext, Control!Stay, Control!Ask, Control!CarryOut,
               Control!Refuse, Control!Lose, Control!Moves
<1>. QED
    BY <1>1, <1>2, Invariance, ControlInvariance, PTL
       DEF Safe, ImplementsControl, Control!ControlSpec
=============================================================================
