----------------------------- MODULE EcafeProofs -----------------------------
(***************************************************************************)
(* Proofs about the whole system, for any number of PCs, controllers,      *)
(* connections and requests.  First facts about the operators that the     *)
(* model is built from: which element FirstOf and LastOf choose, what the  *)
(* parsers, the writes and the handlers return and leave alone, and that   *)
(* accept() finds a free descriptor.  Then IInv is shown to be inductive,  *)
(* action by action; the theorems at the end are its conjuncts.            *)
(***************************************************************************)
EXTENDS Ecafe, TLAPS, FiniteSetTheorems, WellFoundedInduction, SequenceTheorems

(* Every set of natural numbers that is not empty has a least element; by  *)
(* the well-foundedness of the initial segments 0..n under inclusion.      *)
LEMMA MinExists ==
    ASSUME NEW S \in SUBSET Nat, S # {}
    PROVE  \E x \in S : \A y \in S : x <= y
<1>. DEFINE T == {0..n : n \in S}
<1>1. T \subseteq FiniteSubsetsOf(Nat) /\ T # {}
    <2>1. \A n \in Nat : 0..n \in SUBSET Nat /\ IsFiniteSet(0..n)
        BY FS_Interval
    <2>. QED
        BY <2>1 DEF FiniteSubsetsOf
<1>2. \E x \in T : \A y \in T : <<y, x>> \notin StrictSubsetOrdering(Nat)
    BY <1>1, WFMin, FS_StrictSubsetOrderingWellFounded
<1>3. PICK m \in S : \A n \in S : <<0..n, 0..m>> \notin StrictSubsetOrdering(Nat)
    BY <1>2
<1>4. ASSUME NEW n \in S PROVE m <= n
    <2>1. SUFFICES ASSUME n < m PROVE FALSE
        OBVIOUS
    <2>2. m \in 0..m /\ m \notin 0..n
        BY <2>1
    <2>3. 0..n \subseteq 0..m /\ 0..n # 0..m
        BY <2>1, <2>2
    <2>4. <<0..n, 0..m>> \in (SUBSET Nat) \X (SUBSET Nat)
        OBVIOUS
    <2>. QED
        BY <2>3, <2>4, <1>3 DEF StrictSubsetOrdering
<1>. QED
    BY <1>4

(* FirstOf chooses the least element: accept() and the loops take one that *)
(* is there.                                                               *)
LEMMA FirstOfIsLeast ==
    ASSUME NEW S \in SUBSET Nat, S # {}
    PROVE  FirstOf(S) \in S /\ \A y \in S : FirstOf(S) <= y
BY MinExists DEF FirstOf

(* LastOf chooses the greatest of some positions of a sequence.            *)
LEMMA LastOfIsGreatest ==
    ASSUME NEW n \in Nat, NEW S \in SUBSET (1..n), S # {}
    PROVE  LastOf(S) \in S /\ \A y \in S : y <= LastOf(S)
<1>. DEFINE T == {n - k : k \in S}
<1>1. PICK x \in T : \A y \in T : x <= y
    <2>1. \A k \in 1..n : n - k \in Nat
        OBVIOUS
    <2>2. T \in SUBSET Nat /\ T # {}
        BY <2>1
    <2>. QED
        BY <2>2, MinExists
<1>2. PICK k \in S : x = n - k
    BY <1>1
<1>3. ASSUME NEW j \in S PROVE j <= k
    <2>1. n - k <= n - j
        BY <1>1, <1>2
    <2>. QED
        BY <2>1
<1>. QED
    BY <1>3 DEF LastOf

-----------------------------------------------------------------------------
(* What a read() returns and what it leaves are sequences of messages.     *)
LEMMA Batches ==
    ASSUME NEW q \in Seq(Message), NEW n \in 1..Len(q)
    PROVE  /\ SubSeq(q, 1, n) \in Seq(Message)
           /\ Len(SubSeq(q, 1, n)) = n
           /\ SubSeq(q, n + 1, Len(q)) \in Seq(Message)
<1>1. Len(q) \in Nat /\ \A k \in 1..Len(q) : q[k] \in Message
    BY ElementOfSeq, LenProperties
<1>2. /\ \A k \in 1..n : q[k] \in Message
      /\ \A k \in (n + 1)..Len(q) : q[k] \in Message
    BY <1>1
<1>3. SubSeq(q, 1, n) \in Seq(Message) /\ Len(SubSeq(q, 1, n)) = n
    BY <1>1, <1>2, SubSeqProperties
<1>4. SubSeq(q, n + 1, Len(q)) \in Seq(Message)
    BY <1>1, <1>2, SubSeqProperties
<1>. QED
    BY <1>3, <1>4

(* A batch that begins with a request parses to a request.                 *)
LEMMA ParsedRequest ==
    ASSUME NEW batch \in Seq(Message), Len(batch) # 0, IsRequest(batch)
    PROVE  request_parse(batch) \in Request
<1>. DEFINE requests  == {k \in DOMAIN batch : batch[k].kind = "request"}
            ids       == {k \in requests : batch[k].id # 0}
            actions   == {k \in requests : batch[k].action # NoUri}
            durations == {k \in requests : batch[k].duration # "none"}
            theId     == IF ids = {} THEN batch[1].id ELSE batch[LastOf(ids)].id
            theAction == IF actions = {} THEN batch[1].action
                         ELSE batch[LastOf(actions)].action
            theDuration == IF durations = {} THEN batch[1].duration
                           ELSE batch[LastOf(durations)].duration
            theParams == UNION {batch[k].params : k \in requests}
<1>1. Len(batch) \in Nat /\ DOMAIN batch = 1..Len(batch)
    BY LenProperties
<1>2. \A k \in requests : batch[k] \in Request
    <2>1. \A k \in 1..Len(batch) : batch[k] \in Message
        BY ElementOfSeq
    <2>. QED
        BY <1>1, <2>1 DEF Message, Request, Response
<1>3. batch[1] \in Request
    BY <1>1, <1>2 DEF IsRequest
<1>4. ASSUME NEW S \in SUBSET requests, S # {}
      PROVE  batch[LastOf(S)] \in Request
    <2>1. S \in SUBSET (1..Len(batch))
        BY <1>1
    <2>2. LastOf(S) \in S
        BY <1>1, <2>1, <1>4, LastOfIsGreatest
    <2>. QED
        BY <1>2, <2>2
<1>5. theId \in Nat
    BY <1>3, <1>4 DEF Request
<1>6. theAction \in Uri
    BY <1>3, <1>4 DEF Request
<1>7. theDuration \in {"none", "zero", "some"}
    BY <1>3, <1>4 DEF Request
<1>8. theParams \in SUBSET Param
    BY <1>2 DEF Request
<1>9. request_parse(batch) = [batch[1] EXCEPT !.id = theId, !.action = theAction,
                                !.duration = theDuration, !.params = theParams]
    BY DEF request_parse
<1>. HIDE DEF theId, theAction, theDuration, theParams
<1>. QED
    BY <1>3, <1>5, <1>6, <1>7, <1>8, <1>9 DEF Request

(* A batch that parses as a response does to a response.                   *)
LEMMA ParsedResponse ==
    ASSUME NEW batch \in Seq(Message), Len(batch) # 0, ResponseParses(batch)
    PROVE  response_parse(batch) \in Response
<1>1. batch[1] \in Message
    <2>1. Len(batch) \in Nat
        BY LenProperties
    <2>. QED
        BY <2>1, ElementOfSeq
<1>2. batch[1] \in Response
    BY <1>1 DEF ResponseParses, Message, Request, Response
<1>. DEFINE records == \E k \in DOMAIN batch : batch[k].records
<1>3. records \in BOOLEAN
    OBVIOUS
<1>4. response_parse(batch) = [batch[1] EXCEPT !.records = records]
    BY DEF response_parse
<1>. HIDE DEF records
<1>. QED
    BY <1>2, <1>3, <1>4 DEF Response

-----------------------------------------------------------------------------
(* What no write and no handler changes of the connections: who is at the  *)
(* other end, whether the server holds them open, whether the peer has     *)
(* closed, the client ids.                                                 *)
Alike(cn, cn1) ==
    \A c \in Conn : /\ cn1[c].peer = cn[c].peer
                    /\ cn1[c].srv = cn[c].srv
                    /\ cn1[c].id = cn[c].id
                    /\ cn1[c].link = "up" <=> cn[c].link = "up"

(* Of two changes that each leave the connections alike, so does the one   *)
(* after the other.                                                        *)
LEMMA AlikeTransitive ==
    ASSUME NEW cn, NEW cn1, NEW cn2, Alike(cn, cn1), Alike(cn1, cn2)
    PROVE  Alike(cn, cn2)
BY DEF Alike

(* Changing one connection in none of this leaves all of them alike.       *)
LEMMA SetConnection ==
    ASSUME NEW cn \in [Conn -> Connection], NEW c \in Conn, NEW x \in Connection,
           x.peer = cn[c].peer, x.srv = cn[c].srv, x.id = cn[c].id,
           x.link = "up" <=> cn[c].link = "up"
    PROVE  /\ [cn EXCEPT ![c] = x] \in [Conn -> Connection]
           /\ Alike(cn, [cn EXCEPT ![c] = x])
BY DEF Alike

(* A write to a connection leaves every connection alike.                  *)
LEMMA WriteToOutcomes ==
    ASSUME NEW cn \in [Conn -> Connection], NEW c \in Conn, NEW m \in Message,
           NEW w \in WriteTo(cn, c, m)
    PROVE  /\ w.conn \in [Conn -> Connection]
           /\ Alike(cn, w.conn)
           /\ w.rv \in {"sent", "failed", "killed"}
<1>1. cn[c].link \in {"up", "fin", "rst", "hup"} /\ cn[c].down \in Seq(Message)
    BY DEF Connection
<1>2. CASE cn[c].link = "up"
    <2>1. w = [conn |-> [cn EXCEPT ![c].down = Append(@, m)], rv |-> "sent"]
        BY <1>2 DEF WriteTo
    <2>2. Append(cn[c].down, m) \in Seq(Message)
        BY <1>1
    <2>. DEFINE x == [cn[c] EXCEPT !.down = Append(cn[c].down, m)]
    <2>3. /\ x \in Connection /\ x.peer = cn[c].peer /\ x.srv = cn[c].srv
          /\ x.id = cn[c].id /\ x.link = cn[c].link
        BY <2>2 DEF Connection
    <2>4. w.conn = [cn EXCEPT ![c] = x] /\ w.rv = "sent"
        BY <2>1
    <2>. HIDE DEF x
    <2>. QED
        <3>1. x.link = "up" <=> cn[c].link = "up"
            BY <2>3
        <3>2. /\ [cn EXCEPT ![c] = x] \in [Conn -> Connection]
              /\ Alike(cn, [cn EXCEPT ![c] = x])
            BY <2>3, <3>1, SetConnection
        <3>. QED
            BY <2>4, <3>2
<1>3. CASE cn[c].link = "fin"
    <2>1. w = [conn |-> [cn EXCEPT ![c].link = "rst"], rv |-> "sent"]
        BY <1>3 DEF WriteTo
    <2>. DEFINE x == [cn[c] EXCEPT !.link = "rst"]
    <2>5. /\ x \in Connection /\ x.peer = cn[c].peer /\ x.srv = cn[c].srv
          /\ x.id = cn[c].id /\ x.link = "rst"
        BY DEF Connection
    <2>6. w.conn = [cn EXCEPT ![c] = x]
        BY <1>3, <2>1
    <2>. HIDE DEF x
    <2>. QED
        BY <1>3, <2>1, <2>5, <2>6, SetConnection
<1>4. CASE cn[c].link = "rst"
    <2>1. \/ w = [conn |-> cn, rv |-> "sent"]
          \/ w = [conn |-> [cn EXCEPT ![c].link = "hup"], rv |-> "failed"]
          \/ w = [conn |-> cn, rv |-> "killed"]
        BY <1>4 DEF WriteTo
    <2>2. CASE w.conn = cn /\ w.rv \in {"sent", "killed"}
        BY <2>2 DEF Alike
    <2>3. CASE w = [conn |-> [cn EXCEPT ![c].link = "hup"], rv |-> "failed"]
        <3>. DEFINE x == [cn[c] EXCEPT !.link = "hup"]
        <3>5. /\ x \in Connection /\ x.peer = cn[c].peer /\ x.srv = cn[c].srv
              /\ x.id = cn[c].id /\ x.link = "hup"
            BY DEF Connection
        <3>6. w.conn = [cn EXCEPT ![c] = x]
            BY <1>4, <2>3
        <3>. HIDE DEF x
        <3>. QED
            BY <1>4, <2>3, <3>5, <3>6, SetConnection
    <2>. QED
        BY <2>1, <2>2, <2>3
<1>5. CASE cn[c].link = "hup"
    <2>1. w = [conn |-> cn, rv |-> "killed"]
        BY <1>5 DEF WriteTo
    <2>. QED
        BY <2>1 DEF Connection, Alike
<1>. QED
    BY <1>1, <1>2, <1>3, <1>4, <1>5

(* So does a write through a descriptor, whatever it has become.           *)
LEMMA WriteOutcomes ==
    ASSUME NetTypeOK,
           NEW cn \in [Conn -> Connection], NEW f, NEW m \in Message,
           NEW w \in Write(cn, f, m)
    PROVE  /\ w.conn \in [Conn -> Connection]
           /\ Alike(cn, w.conn)
           /\ w.rv \in {"sent", "failed", "killed"}
<1>1. CASE f \in Fd /\ fdtab[f] # 0
    <2>1. fdtab[f] \in Conn
        BY <1>1, MaxConnAssumption DEF NetTypeOK, Conn
    <2>2. w \in WriteTo(cn, fdtab[f], m)
        BY <1>1 DEF Write
    <2>. QED
        BY <2>1, <2>2, WriteToOutcomes
<1>2. CASE ~(f \in Fd /\ fdtab[f] # 0)
    BY <1>2 DEF Write, Alike
<1>. QED
    BY <1>1, <1>2

-----------------------------------------------------------------------------
(* What no handler changes of the list of clients: who is in it, in which  *)
(* order, and on which descriptors.                                        *)
SameClients(cl, cl1) ==
    /\ cl1 \in Seq(Client)
    /\ Len(cl1) = Len(cl)
    /\ \A k \in 1..Len(cl) : cl1[k].id = cl[k].id /\ cl1[k].fd = cl[k].fd

(* What every outcome of every handler is.                                 *)
Sound(o, cn, cl) ==
    /\ o.conn \in [Conn -> Connection]
    /\ Alike(cn, o.conn)
    /\ SameClients(cl, o.clients)
    /\ o.fate \in {"running"} \cup Death

(* Changing a client of the list in what is neither its id nor its         *)
(* descriptor keeps the list.                                              *)
LEMMA SetClient ==
    ASSUME NEW cl \in Seq(Client), NEW k \in 1..Len(cl), NEW c \in Client,
           c.id = cl[k].id, c.fd = cl[k].fd
    PROVE  SameClients(cl, [cl EXCEPT ![k] = c])
BY ExceptSeq, ElementOfSeq, LenProperties DEF SameClients

(* Sending a message, to whatever descriptor, is sound.                    *)
LEMMA SendSound ==
    ASSUME NetTypeOK, NEW cn \in [Conn -> Connection], NEW cl0, NEW cl,
           SameClients(cl0, cl), NEW f, NEW m \in Message, NEW o \in Send(cn, cl, f, m)
    PROVE  Sound(o, cn, cl0)
<1>1. PICK w \in Write(cn, f, m) : o = Outcome(w.conn, cl, Fate(w))
    BY DEF Send
<1>2. w.conn \in [Conn -> Connection] /\ Alike(cn, w.conn)
    BY WriteOutcomes
<1>. QED
    BY <1>1, <1>2 DEF Sound, Outcome, Fate, Death

(* Refusing a request is sound.                                            *)
LEMMA RefusalSound ==
    ASSUME NetTypeOK, NEW cn \in [Conn -> Connection], NEW cl0, NEW cl,
           SameClients(cl0, cl), NEW f, NEW req \in Request,
           NEW o \in Refuse(cn, cl, f, req)
    PROVE  Sound(o, cn, cl0)
<1>. DEFINE m == MakeResponse(req.uri, 400, FALSE, req.tag)
<1>1. m \in Message
    BY DEF MakeResponse, Message, Response, Request
<1>2. o \in Send(cn, cl, f, m)
    BY DEF Refuse, Answer
<1>. HIDE DEF m
<1>. QED
    BY <1>1, <1>2, SendSound

(* So is agreeing to one.                                                  *)
LEMMA ConsentSound ==
    ASSUME NetTypeOK, NEW cn \in [Conn -> Connection], NEW cl0, NEW cl,
           SameClients(cl0, cl), NEW f, NEW req \in Request,
           NEW o \in Agree(cn, cl, f, req)
    PROVE  Sound(o, cn, cl0)
<1>. DEFINE m == MakeResponse(req.uri, 200, FALSE, req.tag)
<1>1. m \in Message
    BY DEF MakeResponse, Message, Response, Request
<1>2. o \in Send(cn, cl, f, m)
    BY DEF Agree, Answer
<1>. HIDE DEF m
<1>. QED
    BY <1>1, <1>2, SendSound

(* client_get finds a client whose id is in the list.                      *)
LEMMA ClientGetFinds ==
    ASSUME NEW cl \in Seq(Client), NEW id \in Ids(cl)
    PROVE  /\ client_get(cl, id) \in 1..Len(cl)
           /\ cl[client_get(cl, id)].id = id
           /\ cl[client_get(cl, id)] \in Client
<1>1. DOMAIN cl = 1..Len(cl)
    BY LenProperties
<1>2. \E k \in DOMAIN cl : cl[k].id = id
    BY DEF Ids
<1>3. client_get(cl, id) \in DOMAIN cl /\ cl[client_get(cl, id)].id = id
    BY <1>2 DEF client_get
<1>. QED
    BY <1>1, <1>3, ElementOfSeq

(* A list of clients is the same as itself.                                *)
LEMMA SameAgain ==
    ASSUME NEW cl \in Seq(Client)
    PROVE  SameClients(cl, cl)
BY DEF SameClients

(* Every outcome of the clientall handler is sound.                        *)
LEMMA ClientallSound ==
    ASSUME NetTypeOK, NEW cn \in [Conn -> Connection], NEW cl \in Seq(Client),
           NEW req \in Request, NEW f, NEW o \in ecafe_clientall(cn, cl, req, f)
    PROVE  Sound(o, cn, cl)
<1>1. SameClients(cl, cl)
    BY SameAgain
<1>2. CASE \E k \in DOMAIN cl : CannotBeShown(cl[k])
    BY <1>1, <1>2 DEF ecafe_clientall, Outcome, Sound, Alike, Death
<1>3. CASE ~\E k \in DOMAIN cl : CannotBeShown(cl[k])
    <2>. DEFINE m == MakeResponse(req.uri, 200, cl # <<>>, req.tag)
    <2>1. o \in Send(cn, cl, f, m)
        BY <1>3 DEF ecafe_clientall, Answer
    <2>2. m \in Message
        BY DEF MakeResponse, Message, Response, Request
    <2>. HIDE DEF m
    <2>. QED
        BY <1>1, <2>1, <2>2, SendSound
<1>. QED
    BY <1>2, <1>3

(* Every outcome of the client handler is sound, the retry with a refusal  *)
(* after a failed write included.                                          *)
LEMMA ClientSound ==
    ASSUME NetTypeOK, NEW cn \in [Conn -> Connection], NEW cl \in Seq(Client),
           NEW req \in Request, NEW f, NEW o \in ecafe_client(cn, cl, req, f)
    PROVE  Sound(o, cn, cl)
<1>1. SameClients(cl, cl)
    BY SameAgain
<1>2. CASE req.id \notin Ids(cl)
    <2>1. o \in Refuse(cn, cl, f, req)
        BY <1>2 DEF ecafe_client
    <2>. QED
        BY <1>1, <2>1, RefusalSound
<1>3. CASE req.id \in Ids(cl)
    <2>. DEFINE fd == cl[client_get(cl, req.id)].fd
    <2>1. PICK w \in Write(cn, fd, req) :
              o \in IF w.rv = "failed" THEN Refuse(w.conn, cl, f, req)
                    ELSE {Outcome(w.conn, cl, Fate(w))}
        BY <1>3 DEF ecafe_client
    <2>. HIDE DEF fd
    <2>2. w.conn \in [Conn -> Connection] /\ Alike(cn, w.conn)
        BY WriteOutcomes DEF Message
    <2>3. CASE w.rv = "failed"
        <3>1. o \in Refuse(w.conn, cl, f, req)
            BY <2>1, <2>3
        <3>2. Sound(o, w.conn, cl)
            BY <1>1, <2>2, <3>1, RefusalSound
        <3>. QED
            BY <2>2, <3>2, AlikeTransitive DEF Sound
    <2>4. CASE w.rv # "failed"
        BY <1>1, <2>1, <2>2, <2>4 DEF Outcome, Sound, Fate, Death
    <2>. QED
        BY <2>3, <2>4
<1>. QED
    BY <1>2, <1>3

(* Setting a client's timer, or the uri of its timer, or its state, keeps  *)
(* the list.                                                               *)
LEMMA TimerSet ==
    ASSUME NEW cl \in Seq(Client), NEW k \in 1..Len(cl), NEW t \in Timer, NEW u \in Uri
    PROVE  /\ SameClients(cl, [cl EXCEPT ![k].timer = t])
           /\ SameClients(cl, [cl EXCEPT ![k].timer_uri = u])
           /\ SameClients(cl, [cl EXCEPT ![k].timer = t, ![k].timer_uri = u])
<1>1. cl[k] \in Client
    BY ElementOfSeq
<1>. DEFINE a == [cl[k] EXCEPT !.timer = t]
            b == [cl[k] EXCEPT !.timer_uri = u]
            c == [cl[k] EXCEPT !.timer = t, !.timer_uri = u]
<1>2. /\ a \in Client /\ a.id = cl[k].id /\ a.fd = cl[k].fd
      /\ b \in Client /\ b.id = cl[k].id /\ b.fd = cl[k].fd
      /\ c \in Client /\ c.id = cl[k].id /\ c.fd = cl[k].fd
    BY <1>1 DEF Client
<1>3. DOMAIN cl = 1..Len(cl)
    BY LenProperties
<1>4. /\ [cl EXCEPT ![k].timer = t] = [cl EXCEPT ![k] = a]
      /\ [cl EXCEPT ![k].timer_uri = u] = [cl EXCEPT ![k] = b]
      /\ [cl EXCEPT ![k].timer = t, ![k].timer_uri = u] = [cl EXCEPT ![k] = c]
    BY <1>3
<1>. HIDE DEF a, b, c
<1>5. SameClients(cl, [cl EXCEPT ![k] = a])
    BY <1>2, SetClient
<1>6. SameClients(cl, [cl EXCEPT ![k] = b])
    BY <1>2, SetClient
<1>7. SameClients(cl, [cl EXCEPT ![k] = c])
    BY <1>2, SetClient
<1>. QED
    BY <1>4, <1>5, <1>6, <1>7

(* Every outcome of the timer handler is sound, whatever is in a timer     *)
(* that was not filled in.                                                 *)
LEMMA TimerSound ==
    ASSUME NetTypeOK, NEW cn \in [Conn -> Connection], NEW cl \in Seq(Client),
           NEW req \in Request, NEW f, NEW o \in ecafe_timer(cn, cl, req, f)
    PROVE  Sound(o, cn, cl)
<1>. DEFINE k == client_get(cl, req.id)
<1>1. SameClients(cl, cl)
    BY SameAgain
<1>2. CASE ~MayArm(cl, req)
    <2>1. o \in Refuse(cn, cl, f, req)
        BY <1>2 DEF ecafe_timer
    <2>. QED
        BY <1>1, <2>1, RefusalSound
<1>3. CASE MayArm(cl, req)
    <2>1. k \in 1..Len(cl)
        BY <1>3, ClientGetFinds DEF MayArm
    <2>2. CASE ~Arms(cl, req)
        <3>. DEFINE Bad(t) == Refuse(cn, [cl EXCEPT ![k].timer = t], f, req)
        <3>0. o \in UNION {Bad(t) : t \in {"armed", "due", "never"}}
            BY <1>3, <2>2 DEF ecafe_timer
        <3>1. PICK t \in {"armed", "due", "never"} :
                  o \in Refuse(cn, [cl EXCEPT ![k].timer = t], f, req)
            <4>. HIDE DEF Bad
            <4>1. PICK t \in {"armed", "due", "never"} : o \in Bad(t)
                BY <3>0
            <4>. QED
                BY <4>1 DEF Bad
        <3>2. SameClients(cl, [cl EXCEPT ![k].timer = t])
            <4>1. t \in Timer /\ NoUri \in Uri
                BY DEF Timer, Uri
            <4>. HIDE DEF k
            <4>. QED
                BY <2>1, <4>1, TimerSet
        <3>. HIDE DEF k
        <3>. QED
            BY <1>1, <3>1, <3>2, RefusalSound
    <2>3. CASE Arms(cl, req)
        <3>0. PICK cl1 : cl1 = [cl EXCEPT ![k].timer = "armed", ![k].timer_uri = req.action]
            OBVIOUS
        <3>1. o \in Agree(cn, cl1, f, req)
            BY <1>3, <2>3, <3>0 DEF ecafe_timer
        <3>2. SameClients(cl, cl1)
            <4>1. "armed" \in Timer /\ req.action \in Uri
                BY DEF Timer, Request
            <4>. HIDE DEF k
            <4>. QED
                BY <2>1, <3>0, <4>1, TimerSet
        <3>. QED
            BY <3>1, <3>2, ConsentSound
    <2>. QED
        BY <2>2, <2>3
<1>. QED
    BY <1>2, <1>3

(* Every outcome of passing a request on is sound.                         *)
LEMMA RelaySound ==
    ASSUME NetTypeOK, NEW cn \in [Conn -> Connection], NEW cl \in Seq(Client),
           NEW req \in Request, NEW o \in Relay(cn, cl, req)
    PROVE  Sound(o, cn, cl)
<1>1. SameClients(cl, cl) /\ Alike(cn, cn)
    BY SameAgain DEF Alike
<1>2. CASE req.id = 0 \/ req.id \notin Ids(cl)
    BY <1>1, <1>2 DEF Relay, Outcome, Sound, Death
<1>3. CASE ~(req.id = 0 \/ req.id \notin Ids(cl))
    <2>1. Rewritten(req) \in Message
        BY DEF Rewritten, Message, Request, Param
    <2>2. o \in Send(cn, cl, cl[client_get(cl, req.id)].fd, Rewritten(req))
        BY <1>3 DEF Relay
    <2>. QED
        BY <1>1, <2>1, <2>2, SendSound
<1>. QED
    BY <1>2, <1>3

(* Every outcome of handling a request is sound.                           *)
LEMMA RequestSound ==
    ASSUME NetTypeOK, NEW cn \in [Conn -> Connection], NEW cl \in Seq(Client),
           NEW req \in Request, NEW f, NEW o \in ecafe_request_handle(cn, cl, req, f)
    PROVE  Sound(o, cn, cl)
<1>1. CASE req.uri = "clientall"
    <2>1. o \in ecafe_clientall(cn, cl, req, f)
        BY <1>1 DEF ecafe_request_handle, RelayedCommand
    <2>. QED
        BY <2>1, ClientallSound
<1>2. CASE req.uri = "client"
    <2>1. o \in ecafe_client(cn, cl, req, f)
        BY <1>2 DEF ecafe_request_handle, RelayedCommand
    <2>. QED
        BY <2>1, ClientSound
<1>3. CASE req.uri = "timer"
    <2>1. o \in ecafe_timer(cn, cl, req, f)
        BY <1>3 DEF ecafe_request_handle, RelayedCommand
    <2>. QED
        BY <2>1, TimerSound
<1>4. CASE req.uri \in RelayedCommand \cup {"getdetails", "screenshot"}
    <2>1. o \in Relay(cn, cl, req)
        BY <1>4 DEF ecafe_request_handle, RelayedCommand
    <2>. QED
        BY <2>1, RelaySound
<1>5. CASE req.uri \notin RelayedCommand \cup {"getdetails", "screenshot",
                                              "clientall", "client", "timer"}
    <2>1. o = Outcome(cn, cl, "running")
        BY <1>5 DEF ecafe_request_handle
    <2>. QED
        BY <2>1, SameAgain DEF Outcome, Sound, Alike
<1>. QED
    BY <1>1, <1>2, <1>3, <1>4, <1>5

(* The effect of a response on the active client keeps the list.           *)
LEMMA NotedSame ==
    ASSUME NEW cl \in Seq(Client), NEW k \in 1..Len(cl), NEW res \in Response
    PROVE  SameClients(cl, Noted(cl, k, res))
<1>1. cl[k] \in Client
    BY ElementOfSeq
<1>. DEFINE a == [cl[k] EXCEPT !.is_online = FALSE]
            b == [cl[k] EXCEPT !.is_online = TRUE]
<1>2. /\ a \in Client /\ a.id = cl[k].id /\ a.fd = cl[k].fd
      /\ b \in Client /\ b.id = cl[k].id /\ b.fd = cl[k].fd
    BY <1>1 DEF Client
<1>3. \/ Noted(cl, k, res) = [cl EXCEPT ![k] = a]
      \/ Noted(cl, k, res) = [cl EXCEPT ![k] = b]
      \/ Noted(cl, k, res) = cl
    BY LenProperties DEF Noted
<1>. HIDE DEF a, b
<1>. QED
    BY <1>2, <1>3, SetClient, SameAgain

(* Every outcome of handling a response of a client of the list is sound.  *)
LEMMA ResponseSound ==
    ASSUME NetTypeOK, NEW cn \in [Conn -> Connection], NEW cl \in Seq(Client),
           NEW k \in 1..Len(cl), NEW res \in Response, NEW f,
           NEW o \in ecafe_response_handle(cn, cl, k, res, f)
    PROVE  Sound(o, cn, cl)
<1>. DEFINE noted == Noted(cl, k, res)
            kept == [noted EXCEPT ![k].timer_uri = NoUri]
<1>1. SameClients(cl, cl) /\ SameClients(cl, noted) /\ Alike(cn, cn)
    BY SameAgain, NotedSame DEF Alike
<1>2. SameClients(cl, kept)
    <2>1. noted \in Seq(Client) /\ k \in 1..Len(noted) /\ "none" \in Timer /\ NoUri \in Uri
        BY <1>1 DEF SameClients, Timer, Uri
    <2>. HIDE DEF noted
    <2>2. SameClients(noted, kept)
        BY <2>1, TimerSet
    <2>. QED
        BY <1>1, <2>2 DEF SameClients
<1>3. res \in Message
    BY DEF Message
<1>. HIDE DEF noted, kept
<1>4. \/ o \in {Outcome(cn, cl, "running"), Outcome(cn, cl, "null_timer"),
                Outcome(cn, kept, "running")}
      \/ o \in Send(cn, noted, f, res)
    BY DEF ecafe_response_handle, noted, kept
<1>5. CASE o \in Send(cn, noted, f, res)
    BY <1>1, <1>3, <1>5, SendSound
<1>6. CASE o \in {Outcome(cn, cl, "running"), Outcome(cn, cl, "null_timer"),
                  Outcome(cn, kept, "running")}
    BY <1>1, <1>2, <1>6 DEF Outcome, Sound, Death
<1>. QED
    BY <1>4, <1>5, <1>6

-----------------------------------------------------------------------------
(* What the sets of the model look like to the provers: the descriptors    *)
(* are numbers, there are as many of them as connections may be made.      *)
LEMMA Descriptors ==
    /\ Fd \in SUBSET Nat
    /\ IsFiniteSet(Fd) /\ IsFiniteSet(Conn)
    /\ Cardinality(Fd) = MaxConn /\ Cardinality(Conn) = MaxConn
    /\ S_LISTENFD \notin Fd /\ C_LISTENFD \notin Fd /\ 0 \notin Fd
    /\ S_LISTENFD # C_LISTENFD /\ S_LISTENFD # 0 /\ C_LISTENFD # 0
<1>1. MaxConn \in Nat
    BY MaxConnAssumption
<1>2. IsFiniteSet(5..(MaxConn + 4)) /\ Cardinality(5..(MaxConn + 4)) = MaxConn
    BY <1>1, FS_Interval
<1>3. IsFiniteSet(1..MaxConn) /\ Cardinality(1..MaxConn) = MaxConn
    BY <1>1, FS_Interval
<1>. QED
    BY <1>1, <1>2, <1>3 DEF Fd, Conn, S_LISTENFD, C_LISTENFD

(* accept() finds a free descriptor: there is one for every connection     *)
(* that can be made, and the one that waits has none.                      *)
LEMMA FreeDescriptor ==
    ASSUME NetTypeOK,
           \A f \in Fd : fdtab[f] # 0 => conn[fdtab[f]].srv = "open",
           \A f, g \in Fd : fdtab[f] # 0 /\ fdtab[f] = fdtab[g] => f = g,
           NEW c \in Conn, conn[c].srv = "backlog"
    PROVE  LowestFreeFd \in Fd /\ fdtab[LowestFreeFd] = 0
<1>1. FreeFd # {}
    <2>1. SUFFICES ASSUME \A f \in Fd : fdtab[f] # 0 PROVE FALSE
        BY DEF FreeFd
    <2>2. fdtab \in [Fd -> Conn \ {c}]
        <3>1. \A f \in Fd : fdtab[f] \in Conn \ {c}
            BY <2>1, MaxConnAssumption DEF NetTypeOK, Conn
        <3>. QED
            BY <3>1 DEF NetTypeOK
    <2>3. IsFiniteSet(Conn \ {c}) /\ Cardinality(Conn \ {c}) = MaxConn - 1
        BY Descriptors, FS_RemoveElement
    <2>4. Cardinality(Conn \ {c}) < Cardinality(Fd)
        BY <2>3, Descriptors, MaxConnAssumption
    <2>5. IsFiniteSet(Fd)
        BY Descriptors
    <2>6. \E f, g \in Fd : f # g /\ fdtab[f] = fdtab[g]
        BY <2>2, <2>3, <2>4, <2>5, FS_PigeonHole, SMTT(30)
    <2>. QED
        BY <2>1, <2>6
<1>2. FreeFd \in SUBSET Nat
    BY Descriptors DEF FreeFd
<1>3. LowestFreeFd \in FreeFd
    BY <1>1, <1>2, FirstOfIsLeast DEF LowestFreeFd
<1>. QED
    BY <1>3 DEF FreeFd

(* The clients of a list.                                                  *)
LEMMA Members ==
    ASSUME NEW cl \in Seq(Client), NEW k \in 1..Len(cl)
    PROVE  /\ cl[k] \in Client /\ cl[k].id \in Nat /\ cl[k].fd \in Fd
           /\ cl[k].timer_uri \in Uri
<1>1. cl[k] \in Client
    BY ElementOfSeq
<1>. QED
    BY <1>1 DEF Client

(* What client_getall returns.                                             *)
LEMMA Getall ==
    ASSUME NEW cl \in Seq(Client)
    PROVE  /\ client_getall(cl) \in Seq(Nat)
           /\ Len(client_getall(cl)) = Len(cl)
           /\ \A k \in 1..Len(cl) : client_getall(cl)[k] = cl[k].id
<1>1. Len(cl) \in Nat /\ DOMAIN cl = 1..Len(cl)
    BY LenProperties
<1>2. \A k \in 1..Len(cl) : cl[k].id \in Nat
    BY Members
<1>3. client_getall(cl) \in [1..Len(cl) -> Nat]
    BY <1>1, <1>2 DEF client_getall
<1>4. client_getall(cl) \in Seq(Nat)
    BY <1>1, <1>3, SeqDef
<1>. QED
    BY <1>1, <1>3, <1>4, LenProperties DEF client_getall

(* What is left of a list from which the k-th client is removed.           *)
LEMMA Removed ==
    ASSUME NEW cl \in Seq(Client), NEW k \in 1..Len(cl)
    PROVE  /\ RemoveAt(cl, k) \in Seq(Client)
           /\ Len(RemoveAt(cl, k)) = Len(cl) - 1
           /\ \A j \in 1..(Len(cl) - 1) :
                 RemoveAt(cl, k)[j] = IF j < k THEN cl[j] ELSE cl[j + 1]
<1>. DEFINE s1 == SubSeq(cl, 1, k - 1)
            s2 == SubSeq(cl, k + 1, Len(cl))
<1>1. Len(cl) \in Nat /\ \A j \in 1..Len(cl) : cl[j] \in Client
    BY LenProperties, ElementOfSeq
<1>2. /\ s1 \in Seq(Client) /\ Len(s1) = k - 1
      /\ \A j \in 1..(k - 1) : s1[j] = cl[j]
    <2>1. \A j \in 1..(k - 1) : cl[j] \in Client
        BY <1>1
    <2>. QED
        BY <1>1, <2>1, SubSeqProperties
<1>3. /\ s2 \in Seq(Client) /\ Len(s2) = Len(cl) - k
      /\ \A j \in 1..(Len(cl) - k) : s2[j] = cl[k + j]
    <2>1. \A j \in (k + 1)..Len(cl) : cl[j] \in Client
        BY <1>1
    <2>2. /\ s2 \in Seq(Client)
          /\ Len(s2) = IF k + 1 <= Len(cl) THEN Len(cl) - (k + 1) + 1 ELSE 0
          /\ \A j \in 1..(Len(cl) - (k + 1) + 1) : s2[j] = cl[(k + 1) + j - 1]
        BY <1>1, <2>1, SubSeqProperties
    <2>. HIDE DEF s2
    <2>. QED
        BY <1>1, <2>2
<1>4. RemoveAt(cl, k) = s1 \o s2
    BY DEF RemoveAt
<1>. HIDE DEF s1, s2
<1>5. /\ s1 \o s2 \in Seq(Client)
      /\ Len(s1 \o s2) = Len(cl) - 1
      /\ \A j \in 1..(Len(cl) - 1) :
            (s1 \o s2)[j] = IF j <= k - 1 THEN s1[j] ELSE s2[j - (k - 1)]
    BY <1>1, <1>2, <1>3, ConcatProperties
<1>6. ASSUME NEW j \in 1..(Len(cl) - 1)
      PROVE  (s1 \o s2)[j] = IF j < k THEN cl[j] ELSE cl[j + 1]
    <2>1. CASE j < k
        BY <1>1, <1>2, <1>5, <2>1
    <2>2. CASE ~(j < k)
        <3>1. j - (k - 1) \in 1..(Len(cl) - k) /\ k + (j - (k - 1)) = j + 1
            BY <1>1, <2>2
        <3>. QED
            BY <1>1, <1>3, <1>5, <2>2, <3>1
    <2>. QED
        BY <2>1, <2>2
<1>. QED
    BY <1>4, <1>5, <1>6

(* When the ids are in the order of the list, client_get finds the one     *)
(* client that has an id.                                                  *)
LEMMA ClientGetIsUnique ==
    ASSUME NEW cl \in Seq(Client),
           \A j, k \in 1..Len(cl) : j < k => cl[j].id < cl[k].id,
           NEW k \in 1..Len(cl)
    PROVE  client_get(cl, cl[k].id) = k
<1>1. Len(cl) \in Nat /\ DOMAIN cl = 1..Len(cl)
    BY LenProperties
<1>2. \A j \in 1..Len(cl) : cl[j].id \in Nat
    BY Members
<1>3. \A j \in 1..Len(cl) : cl[j].id = cl[k].id => j = k
    BY <1>1, <1>2
<1>4. cl[k].id \in Ids(cl)
    BY <1>1 DEF Ids
<1>5. /\ client_get(cl, cl[k].id) \in 1..Len(cl)
      /\ cl[client_get(cl, cl[k].id)].id = cl[k].id
    BY <1>4, ClientGetFinds
<1>. QED
    BY <1>3, <1>5

(* What the environment and the handlers may do to the connections: peers  *)
(* may close, but none comes back, and the server's ends stay as they are. *)
Kept(cn, cn1) ==
    \A c \in Conn : /\ cn1[c].peer = cn[c].peer
                    /\ cn1[c].srv = cn[c].srv
                    /\ cn1[c].link = "up" => cn[c].link = "up"

(* Handlers and writes keep the connections in that sense.                 *)
LEMMA AlikeIsKept ==
    ASSUME NEW cn, NEW cn1, Alike(cn, cn1)
    PROVE  Kept(cn, cn1)
BY DEF Alike, Kept

(* Every conjunct that speaks of the connections outlives a step that      *)
(* keeps them and the table of descriptors.                                *)
LEMMA ConnFrame ==
    ASSUME IInv, conn' \in [Conn -> Connection], Kept(conn, conn'),
           UNCHANGED <<nconn, fdtab>>
    PROVE  /\ NetTypeOK' /\ DescriptorsOK' /\ PeersCloseFirst'
           /\ Backlog(Controller)' = Backlog(Controller)
           /\ Backlog(Machine)' = Backlog(Machine)
<1>. USE DEF IInv, TypeOK
<1>1. nconn \in Nat /\ 1..nconn \subseteq Conn
    BY MaxConnAssumption DEF NetTypeOK, Conn
<1>2. NetTypeOK'
    BY DEF NetTypeOK
<1>3. DescriptorsOK'
    <2>1. \A f \in Fd : fdtab[f] # 0 => fdtab[f] \in Conn
        BY MaxConnAssumption DEF NetTypeOK, Conn
    <2>. QED
        BY <2>1 DEF DescriptorsOK, Kept
<1>4. PeersCloseFirst'
    BY DEF PeersCloseFirst, Kept
<1>5. ASSUME NEW P
      PROVE  {c \in 1..nconn' : conn'[c].srv = "backlog" /\ conn'[c].peer \in P}
             = {c \in 1..nconn : conn[c].srv = "backlog" /\ conn[c].peer \in P}
    BY <1>1 DEF Kept
<1>. QED
    BY <1>2, <1>3, <1>4, <1>5 DEF Backlog

(* Every conjunct that speaks of the list of clients outlives a step that  *)
(* keeps who is in it.                                                     *)
LEMMA ListFrame ==
    ASSUME IInv, SameClients(clients, clients'),
           UNCHANGED <<client_array, nclients, last_id>>
    PROVE  clients' \in Seq(Client) /\ ArrayMirrorsList' /\ IdsInJoinOrder'
BY DEF IInv, SameClients, ArrayMirrorsList, IdsInJoinOrder

(* The position that an index of the for loops stands for.                 *)
LEMMA Position ==
    ASSUME IInv, NEW k \in Nat, k >= 1, k <= nclients
    PROVE  /\ k \in 1..Len(clients)
           /\ client_array[k] = clients[k].id
           /\ client_get(clients, client_array[k]) = k
           /\ clients[k] \in Client
<1>1. clients \in Seq(Client) /\ nclients = Len(clients)
    BY DEF IInv, TypeOK, ServerTypeOK, ArrayMirrorsList
<1>2. k \in 1..Len(clients)
    BY <1>1, LenProperties
<1>3. client_array[k] = clients[k].id
    BY <1>2 DEF IInv, ArrayMirrorsList
<1>4. \A j, n \in 1..Len(clients) : j < n => clients[j].id < clients[n].id
    BY DEF IInv, IdsInJoinOrder
<1>5. client_get(clients, clients[k].id) = k
    BY <1>1, <1>2, <1>4, ClientGetIsUnique
<1>. QED
    BY <1>1, <1>2, <1>3, <1>5, Members

(* Which branch of the loop is taken.                                      *)
LEMMA BranchTaken ==
    ASSUME NEW rs, NEW fd
    PROVE  /\ Branch(rs, fd) \in Stage
           /\ Branch(rs, fd) = "accept_s" => S_LISTENFD \in rs
           /\ Branch(rs, fd) = "accept_c" => C_LISTENFD \in rs /\ S_LISTENFD \notin rs
           /\ Branch(rs, fd) = "web" => fd \in rs \ {S_LISTENFD, C_LISTENFD}
BY DEF Branch, Stage

(* A step that changes none of the variables of the model.                 *)
LEMMA Stutter ==
    ASSUME IInv, UNCHANGED vars
    PROVE  IInv'
BY DEF IInv, vars, netVars, serverVars, controllerVars, TypeOK, NetTypeOK, ServerTypeOK,
       AgentTypeOK, ControllerTypeOK, ArrayMirrorsList, IdsInJoinOrder, SelectNeverFails,
       PeersCloseFirst, DescriptorsOK, LoopOK, Backlog, WaitsOnConnection

-----------------------------------------------------------------------------
(* Init establishes the invariant: there is nothing yet.                   *)
LEMMA InitIInv == Init => IInv
<1>. SUFFICES ASSUME Init PROVE IInv
    OBVIOUS
<1>. USE DEF Init, NetInit, ServerInit, AgentInit, ControllerInit
<1>1. NetTypeOK
    <2>1. Unused \in Connection
        BY DEF Unused, Connection, NoPeer
    <2>. QED
        BY <2>1, MaxConnAssumption DEF NetTypeOK
<1>2. ServerTypeOK
    BY DEF ServerTypeOK, Stage
<1>3. AgentTypeOK
    BY DEF AgentTypeOK
<1>4. ControllerTypeOK
    BY MaxReqAssumption, MaxConnAssumption DEF ControllerTypeOK
<1>5. ArrayMirrorsList /\ IdsInJoinOrder
    BY DEF ArrayMirrorsList, IdsInJoinOrder
<1>6. SelectNeverFails
    BY DEF SelectNeverFails
<1>7. PeersCloseFirst
    BY DEF PeersCloseFirst, Unused
<1>8. DescriptorsOK
    BY DEF DescriptorsOK
<1>9. LoopOK
    BY DEF LoopOK
<1>10. WaitsOnConnection
    BY DEF WaitsOnConnection
<1>. QED
    BY <1>1, <1>2, <1>3, <1>4, <1>5, <1>6, <1>7, <1>8, <1>9, <1>10 DEF IInv, TypeOK

-----------------------------------------------------------------------------
(* The environment of the server, seen from the server: its variables      *)
(* stay as they are, and new connections only add to the backlogs.         *)
LEMMA ServerAtRest ==
    ASSUME IInv, UNCHANGED serverVars, fdtab' = fdtab,
           Backlog(Controller) \subseteq Backlog(Controller)',
           Backlog(Machine) \subseteq Backlog(Machine)'
    PROVE  /\ ServerTypeOK' /\ ArrayMirrorsList' /\ IdsInJoinOrder'
           /\ SelectNeverFails' /\ LoopOK'
<1>1. ServerTypeOK' /\ ArrayMirrorsList' /\ IdsInJoinOrder'
    BY DEF IInv, TypeOK, serverVars, ServerTypeOK, ArrayMirrorsList, IdsInJoinOrder
<1>2. SelectNeverFails'
    BY DEF IInv, serverVars, SelectNeverFails
<1>3. LoopOK'
    BY DEF IInv, serverVars, LoopOK
<1>. QED
    BY <1>1, <1>2, <1>3

(* What the connection of a peer is when it is made.                       *)
LEMMA NewConnection ==
    ASSUME NEW p \in Machine \cup Controller
    PROVE  LET new == [Unused EXCEPT !.peer = p, !.srv = "backlog"]
           IN  new \in Connection /\ new.srv = "backlog"
<1>. DEFINE new == [Unused EXCEPT !.peer = p, !.srv = "backlog"]
<1>1. Unused \in Connection
    BY DEF Unused, Connection, NoPeer
<1>2. new \in Connection /\ new.srv = "backlog"
    BY <1>1 DEF Connection
<1>. HIDE DEF new
<1>. QED
    BY <1>2 DEF new

(* A peer connects.                                                        *)
LEMMA ConnectKeeps ==
    ASSUME IInv, NEW p \in Machine \cup Controller, Connect(p)
    PROVE  /\ NetTypeOK' /\ DescriptorsOK' /\ PeersCloseFirst' /\ fdtab' = fdtab
           /\ Backlog(Controller) \subseteq Backlog(Controller)'
           /\ Backlog(Machine) \subseteq Backlog(Machine)'
<1>. USE DEF IInv, TypeOK, Connect
<1>. DEFINE new == [Unused EXCEPT !.peer = p, !.srv = "backlog"]
<1>1. /\ nconn \in Nat /\ nconn + 1 \in Conn /\ nconn' = nconn + 1
      /\ nconn + 1 \in 0..MaxConn /\ 1..nconn \subseteq Conn
    BY MaxConnAssumption DEF NetTypeOK, Conn
<1>2. new \in Connection /\ new.srv = "backlog"
    BY NewConnection
<1>3. conn' = [conn EXCEPT ![nconn + 1] = new]
    OBVIOUS
<1>. HIDE DEF new
<1>4. NetTypeOK'
    BY <1>1, <1>2, <1>3 DEF NetTypeOK
<1>5. \A c \in 1..nconn : conn'[c] = conn[c]
    BY <1>1, <1>3 DEF NetTypeOK
<1>6. DescriptorsOK'
    <2>1. \A f \in Fd : fdtab[f] # 0 => fdtab[f] \in 1..nconn
        BY <1>1, MaxConnAssumption DEF NetTypeOK, DescriptorsOK
    <2>2. \A f \in Fd : fdtab[f] # 0 => conn'[fdtab[f]].srv = "open"
        BY <1>5, <2>1 DEF DescriptorsOK
    <2>3. \A f \in Fd : fdtab[f] # 0 => fdtab[f] <= nconn + 1
        BY <1>1, <2>1
    <2>. QED
        BY <1>1, <2>2, <2>3 DEF DescriptorsOK
<1>7. PeersCloseFirst'
    BY <1>1, <1>2, <1>3 DEF PeersCloseFirst, NetTypeOK
<1>8. /\ Backlog(Controller) \subseteq Backlog(Controller)'
      /\ Backlog(Machine) \subseteq Backlog(Machine)'
    BY <1>1, <1>5 DEF Backlog
<1>. QED
    BY <1>4, <1>6, <1>7, <1>8

(* A peer closes.                                                          *)
LEMMA PeerClosedKept ==
    ASSUME IInv, NEW c \in Conn
    PROVE  PeerClosed(c) \in [Conn -> Connection] /\ Kept(conn, PeerClosed(c))
<1>. DEFINE l == IF conn[c].down # <<>> THEN "rst"
                 ELSE IF conn[c].peer \in Controller THEN "hup" ELSE "fin"
<1>1. PeerClosed(c) = [conn EXCEPT ![c].link = l, ![c].down = <<>>]
    BY DEF PeerClosed
<1>2. l \in {"fin", "rst", "hup"} /\ <<>> \in Seq(Message)
    OBVIOUS
<1>. HIDE DEF l
<1>3. conn \in [Conn -> Connection]
    BY DEF IInv, TypeOK, NetTypeOK
<1>. DEFINE x == [conn[c] EXCEPT !.link = l, !.down = <<>>]
<1>4. x \in Connection /\ x.peer = conn[c].peer /\ x.srv = conn[c].srv /\ x.link # "up"
    BY <1>2, <1>3 DEF Connection
<1>5. PeerClosed(c) = [conn EXCEPT ![c] = x]
    BY <1>1, <1>3
<1>. HIDE DEF x
<1>. QED
    BY <1>3, <1>4, <1>5 DEF Kept

(* A step of a peer that keeps the connections leaves the server as it is. *)
LEMMA PeerFrame ==
    ASSUME IInv, conn' \in [Conn -> Connection], Kept(conn, conn'),
           UNCHANGED <<nconn, fdtab>>, UNCHANGED serverVars
    PROVE  /\ NetTypeOK' /\ DescriptorsOK' /\ PeersCloseFirst'
           /\ ServerTypeOK' /\ ArrayMirrorsList' /\ IdsInJoinOrder'
           /\ SelectNeverFails' /\ LoopOK'
<1>1. /\ NetTypeOK' /\ DescriptorsOK' /\ PeersCloseFirst'
      /\ Backlog(Controller)' = Backlog(Controller)
      /\ Backlog(Machine)' = Backlog(Machine)
    BY ConnFrame
<1>. QED
    BY <1>1, ServerAtRest

(* An agent reads requests, and answers the first or exits.                *)
LEMMA AgentRequestKept ==
    ASSUME IInv, NEW c \in AgentConn, AgentRequest(c)
    PROVE  conn' \in [Conn -> Connection] /\ Kept(conn, conn') /\ AgentTypeOK'
<1>0. conn \in [Conn -> Connection] /\ c \in Conn /\ conn[c] \in Connection
    BY MaxConnAssumption DEF IInv, TypeOK, NetTypeOK, AgentConn, Conn
<1>1. conn[c].down \in Seq(Message) /\ conn[c].up \in Seq(Message)
    BY <1>0 DEF Connection
<1>. PICK n \in 1..Len(conn[c].down) :
        LET batch == SubSeq(conn[c].down, 1, n)
            rest  == [conn EXCEPT ![c].down = SubSeq(@, n + 1, Len(@))]
            req   == request_parse(batch)
            died  == IF n < Len(conn[c].down) THEN "rst" ELSE "fin"
        IN  IF IsRequest(batch) /\ Handles(req)
            THEN /\ executed' = executed \cup
                       {[conn |-> c, uri |-> req.uri, id |-> req.id, tag |-> req.tag]}
                 /\ conn' = [rest EXCEPT ![c].up = Append(@,
                               MakeResponse(req.uri, Status(req.uri),
                                            HasRecords(req.uri), req.tag))]
            ELSE /\ conn' = [rest EXCEPT ![c].link = died, ![c].down = <<>>]
                 /\ UNCHANGED executed
    BY DEF AgentRequest
<1>. DEFINE batch == SubSeq(conn[c].down, 1, n)
            left  == SubSeq(conn[c].down, n + 1, Len(conn[c].down))
            rest  == [conn EXCEPT ![c].down = SubSeq(@, n + 1, Len(@))]
            req   == request_parse(batch)
            died  == IF n < Len(conn[c].down) THEN "rst" ELSE "fin"
            res   == MakeResponse(req.uri, Status(req.uri), HasRecords(req.uri), req.tag)
<1>2. /\ batch \in Seq(Message) /\ Len(batch) # 0 /\ left \in Seq(Message)
    <2>1. Len(conn[c].down) \in Nat
        BY <1>1, LenProperties
    <2>. QED
        BY <1>1, <2>1, Batches
<1>3. CASE IsRequest(batch) /\ Handles(req)
    <2>1. req \in Request
        BY <1>2, <1>3, ParsedRequest
    <2>. HIDE DEF req
    <2>2. res \in Message
        BY <2>1 DEF Message, MakeResponse, Response, Request, Status, HasRecords
    <2>. HIDE DEF res, batch
    <2>3. executed' = executed \cup
              {[conn |-> c, uri |-> req.uri, id |-> req.id, tag |-> req.tag]}
        BY <1>3 DEF req, batch
    <2>4. AgentTypeOK'
        BY <1>0, <2>1, <2>3 DEF IInv, TypeOK, AgentTypeOK, Request
    <2>5. conn' = [rest EXCEPT ![c].up = Append(@, res)]
        BY <1>3 DEF req, batch, res
    <2>6. rest = [conn EXCEPT ![c] = [conn[c] EXCEPT !.down = left]]
        BY <1>0
    <2>7. [conn[c] EXCEPT !.down = left] \in Connection
        BY <1>0, <1>2 DEF Connection
    <2>8. Append(conn[c].up, res) \in Seq(Message)
        BY <1>1, <2>2
    <2>. DEFINE x == [conn[c] EXCEPT !.down = left, !.up = Append(conn[c].up, res)]
    <2>. HIDE DEF left
    <2>9. conn' = [conn EXCEPT ![c] = x]
        BY <1>0, <2>5, <2>6 DEF Connection
    <2>10. /\ x \in Connection /\ x.peer = conn[c].peer /\ x.srv = conn[c].srv
           /\ x.link = conn[c].link
        BY <1>0, <1>2, <2>8 DEF Connection
    <2>. HIDE DEF x
    <2>. QED
        BY <1>0, <2>4, <2>9, <2>10 DEF Kept
<1>4. CASE ~(IsRequest(batch) /\ Handles(req))
    <2>1. conn' = [rest EXCEPT ![c].link = died, ![c].down = <<>>] /\ executed' = executed
        BY <1>4
    <2>2. died \in {"rst", "fin"} /\ <<>> \in Seq(Message)
        OBVIOUS
    <2>. DEFINE x == [conn[c] EXCEPT !.link = died, !.down = <<>>]
    <2>. HIDE DEF died, batch, req
    <2>3. conn' = [conn EXCEPT ![c] = x]
        <3>1. rest = [conn EXCEPT ![c] = [conn[c] EXCEPT !.down = left]]
            BY <1>0
        <3>. HIDE DEF rest, left
        <3>2. conn' = [conn EXCEPT ![c] = [rest[c] EXCEPT !.link = died, !.down = <<>>]]
            BY <1>0, <2>1, <3>1
        <3>3. rest[c] = [conn[c] EXCEPT !.down = left]
            BY <1>0, <3>1
        <3>4. [rest[c] EXCEPT !.link = died, !.down = <<>>] = x
            BY <1>0, <3>3 DEF Connection
        <3>. QED
            BY <3>2, <3>4
    <2>4. /\ x \in Connection /\ x.peer = conn[c].peer /\ x.srv = conn[c].srv
          /\ x.link # "up"
        BY <1>0, <2>2 DEF Connection
    <2>. HIDE DEF x
    <2>5. conn' \in [Conn -> Connection] /\ Kept(conn, conn')
        BY <1>0, <2>3, <2>4 DEF Kept
    <2>. QED
        BY <2>1, <2>5 DEF IInv, TypeOK, AgentTypeOK
<1>. QED
    BY <1>3, <1>4

(* The agents' steps preserve the invariant.                               *)
LEMMA AgentStep ==
    ASSUME IInv, Agent
    PROVE  IInv'
<1>. USE DEF IInv, TypeOK
<1>1. ControllerTypeOK' /\ WaitsOnConnection'
    BY DEF Agent, controllerVars, ControllerTypeOK, WaitsOnConnection
<1>2. CASE \E m \in Machine : AgentJoin(m)
    <2>1. PICK m \in Machine : AgentJoin(m)
        BY <1>2
    <2>2. AgentTypeOK' /\ Connect(m)
        BY <2>1 DEF AgentJoin, AgentTypeOK
    <2>3. /\ NetTypeOK' /\ DescriptorsOK' /\ PeersCloseFirst' /\ fdtab' = fdtab
          /\ Backlog(Controller) \subseteq Backlog(Controller)'
          /\ Backlog(Machine) \subseteq Backlog(Machine)'
        BY <2>2, ConnectKeeps
    <2>4. UNCHANGED serverVars
        BY DEF Agent
    <2>5. /\ ServerTypeOK' /\ ArrayMirrorsList' /\ IdsInJoinOrder'
          /\ SelectNeverFails' /\ LoopOK'
        BY <2>3, <2>4, ServerAtRest
    <2>. QED
        BY <1>1, <2>2, <2>3, <2>5
<1>3. CASE \E c \in AgentConn : AgentRequest(c) \/ AgentExit(c) \/ AgentEof(c)
    <2>1. PICK c \in AgentConn : AgentRequest(c) \/ AgentExit(c) \/ AgentEof(c)
        BY <1>3
    <2>2. c \in Conn
        BY MaxConnAssumption DEF NetTypeOK, AgentConn, Conn
    <2>3. /\ conn' \in [Conn -> Connection] /\ Kept(conn, conn') /\ AgentTypeOK'
          /\ UNCHANGED <<nconn, fdtab>>
        <3>1. CASE AgentRequest(c)
            BY <3>1, AgentRequestKept DEF AgentRequest
        <3>2. CASE AgentExit(c) \/ AgentEof(c)
            BY <2>2, <3>2, PeerClosedKept DEF AgentExit, AgentEof, AgentTypeOK
        <3>. QED
            BY <2>1, <3>1, <3>2
    <2>4. UNCHANGED serverVars
        BY DEF Agent
    <2>. QED
        BY <1>1, <2>3, <2>4, PeerFrame
<1>. QED
    BY <1>2, <1>3 DEF Agent

(* The pages make requests.                                                *)
LEMMA PagesRequest ==
    ASSUME NEW t \in Tag, NEW req \in PageRequest(t)
    PROVE  req \in Request
<1>1. Page \subseteq Uri
    BY DEF Page, Uri, ServerCommand, AgentCommand, RelayedCommand
<1>2. ASSUME NEW uri \in PageUri, NEW id \in PageId
      PROVE  CommandRequest(uri, id, t) \in Request
    <2>1. (IF uri = "clientall" THEN 0 ELSE id) \in Nat /\ uri \in Uri /\ NoUri \in Uri
        BY <1>1, PageAssumption DEF Uri
    <2>2. PageParams(uri) \in SUBSET Param
        BY DEF PageParams, Param
    <2>. QED
        BY <2>1, <2>2 DEF CommandRequest, MakeRequest, Request
<1>3. ASSUME NEW id \in PageId, NEW action \in TimerAction, NEW d \in Duration
      PROVE  TimerRequest(id, action, d, t) \in Request
    <2>1. id \in Nat /\ action \in Uri /\ d \in {"none", "zero", "some"}
        BY PageAssumption
    <2>2. MakeRequest("timer", id, {}, t) \in Request
        BY <2>1 DEF MakeRequest, Request, Uri, ServerCommand, Param
    <2>. QED
        BY <2>1, <2>2 DEF Request, TimerRequest
<1>. QED
    BY <1>2, <1>3 DEF PageRequest

(* A peer that sends or reads keeps the connections.                       *)
LEMMA QueuesKept ==
    ASSUME IInv, NEW c \in Conn, NEW q \in Seq(Message)
    PROVE  /\ [conn EXCEPT ![c].up = q] \in [Conn -> Connection]
           /\ Alike(conn, [conn EXCEPT ![c].up = q])
           /\ [conn EXCEPT ![c].down = q] \in [Conn -> Connection]
           /\ Alike(conn, [conn EXCEPT ![c].down = q])
<1>1. conn \in [Conn -> Connection] /\ conn[c] \in Connection
    BY DEF IInv, TypeOK, NetTypeOK
<1>. DEFINE x == [conn[c] EXCEPT !.up = q]
            y == [conn[c] EXCEPT !.down = q]
<1>2. /\ x \in Connection /\ x.peer = conn[c].peer /\ x.srv = conn[c].srv
      /\ x.link = conn[c].link /\ x.id = conn[c].id
    BY <1>1 DEF Connection
<1>3. /\ y \in Connection /\ y.peer = conn[c].peer /\ y.srv = conn[c].srv
      /\ y.link = conn[c].link /\ y.id = conn[c].id
    BY <1>1 DEF Connection
<1>4. /\ [conn EXCEPT ![c].up = q] = [conn EXCEPT ![c] = x]
      /\ [conn EXCEPT ![c].down = q] = [conn EXCEPT ![c] = y]
    BY <1>1
<1>. HIDE DEF x, y
<1>. QED
    BY <1>1, <1>2, <1>3, <1>4 DEF Alike

(* The controllers' steps preserve the invariant.                          *)
LEMMA WebStep ==
    ASSUME IInv, Web
    PROVE  IInv'
<1>. USE DEF IInv, TypeOK
<1>0. UNCHANGED serverVars /\ AgentTypeOK' /\ nreq \in Nat /\ MaxConn \in Nat /\ MaxReq \in Nat
    BY MaxConnAssumption, MaxReqAssumption DEF Web, AgentTypeOK, ControllerTypeOK
<1>1. CASE \E w \in Controller : Start(w)
    <2>1. PICK w \in Controller : Start(w)
        BY <1>1
    <2>2. /\ NetTypeOK' /\ DescriptorsOK' /\ PeersCloseFirst' /\ fdtab' = fdtab
          /\ Backlog(Controller) \subseteq Backlog(Controller)'
          /\ Backlog(Machine) \subseteq Backlog(Machine)'
        BY <2>1, ConnectKeeps DEF Start
    <2>3. ControllerTypeOK' /\ WaitsOnConnection'
        BY <1>0, <2>1 DEF Start, Connect, ControllerTypeOK, WaitsOnConnection, NetTypeOK
    <2>4. /\ ServerTypeOK' /\ ArrayMirrorsList' /\ IdsInJoinOrder'
          /\ SelectNeverFails' /\ LoopOK'
        BY <1>0, <2>2, ServerAtRest
    <2>. QED
        BY <1>0, <2>2, <2>3, <2>4
<1>2. ASSUME NEW w \in Controller, Stop(w) \/ Ask(w) \/ Receive(w) \/ ServerGone(w)
      PROVE  /\ conn' \in [Conn -> Connection] /\ Kept(conn, conn')
             /\ UNCHANGED <<nconn, fdtab>> /\ ControllerTypeOK' /\ WaitsOnConnection'
    <2>0. /\ conn \in [Conn -> Connection]
          /\ web[w].conn # 0 => web[w].conn \in Conn
          /\ web[w].tag # 0 => web[w].conn # 0
        BY <1>0 DEF NetTypeOK, ControllerTypeOK, WaitsOnConnection, Conn
    <2>1. CASE Stop(w)
        BY <1>0, <2>0, <2>1, PeerClosedKept DEF Stop, ControllerTypeOK, WaitsOnConnection
    <2>2. CASE Ask(w)
        <3>1. web[w].conn \in Conn /\ nreq + 1 \in Tag /\ nreq + 1 \in 0..MaxReq
            BY <1>0, <2>0, <2>2 DEF Ask, Tag
        <3>2. PICK req \in PageRequest(nreq + 1) :
                 conn' = [conn EXCEPT ![web[w].conn].up = Append(@, req)]
            BY <2>2 DEF Ask
        <3>3. req \in Message
            BY <3>1, <3>2, PagesRequest DEF Message
        <3>4. Append(conn[web[w].conn].up, req) \in Seq(Message)
            BY <2>0, <3>1, <3>3 DEF Connection
        <3>5. conn' \in [Conn -> Connection] /\ Alike(conn, conn')
            BY <3>1, <3>2, <3>4, QueuesKept
        <3>6. ControllerTypeOK' /\ WaitsOnConnection'
            BY <1>0, <2>2, <3>1 DEF Ask, ControllerTypeOK, WaitsOnConnection
        <3>. QED
            BY <2>2, <3>5, <3>6, AlikeIsKept DEF Ask
    <2>3. CASE Receive(w)
        <3>. DEFINE c == web[w].conn
        <3>1. c \in Conn
            BY <2>0, <2>3 DEF Receive
        <3>2. PICK n \in 1..Len(conn[c].down) :
                 conn' = [conn EXCEPT ![c].down = SubSeq(@, n + 1, Len(@))]
            BY <2>3 DEF Receive
        <3>3. SubSeq(conn[c].down, n + 1, Len(conn[c].down)) \in Seq(Message)
            BY <2>0, <3>1, Batches DEF Connection
        <3>. HIDE DEF c
        <3>4. conn' \in [Conn -> Connection] /\ Alike(conn, conn')
            BY <3>1, <3>2, <3>3, QueuesKept
        <3>5. ControllerTypeOK' /\ WaitsOnConnection'
            BY <1>0, <2>3 DEF Receive, ControllerTypeOK, WaitsOnConnection
        <3>. QED
            BY <2>3, <3>4, <3>5, AlikeIsKept DEF Receive
    <2>4. CASE ServerGone(w)
        BY <1>0, <2>0, <2>4
           DEF ServerGone, netVars, Kept, ControllerTypeOK, WaitsOnConnection
    <2>. QED
        BY <1>2, <2>1, <2>2, <2>3, <2>4
<1>3. CASE \E w \in Controller : Stop(w) \/ Ask(w) \/ Receive(w) \/ ServerGone(w)
    BY <1>0, <1>2, <1>3, PeerFrame
<1>. QED
    BY <1>1, <1>3 DEF Web

-----------------------------------------------------------------------------
(* The server's steps are not the peers'.                                  *)
LEMMA PeersAtRest ==
    ASSUME IInv, UNCHANGED <<executed, controllerVars>>
    PROVE  AgentTypeOK' /\ ControllerTypeOK' /\ WaitsOnConnection'
BY DEF IInv, TypeOK, controllerVars, AgentTypeOK, ControllerTypeOK, WaitsOnConnection

(* select() returns.                                                       *)
LEMMA SelectStep ==
    ASSUME IInv, Select, UNCHANGED <<executed, controllerVars>>
    PROVE  IInv'
<1>. USE DEF IInv, TypeOK
<1>. DEFINE ready == {f \in allset : Ready(f)}
<1>1. IsFiniteSet({S_LISTENFD, C_LISTENFD} \cup Fd)
    <2>1. IsFiniteSet(0..(MaxConn + 4))
        BY MaxConnAssumption, FS_Interval
    <2>2. {S_LISTENFD, C_LISTENFD} \cup Fd \in SUBSET (0..(MaxConn + 4))
        BY MaxConnAssumption DEF S_LISTENFD, C_LISTENFD, Fd
    <2>. QED
        BY <2>1, <2>2, FS_Subset
<1>2. ready \in SUBSET ({S_LISTENFD, C_LISTENFD} \cup Fd)
    BY DEF ServerTypeOK
<1>3. Cardinality(ready) \in Nat
    BY <1>1, <1>2, FS_Subset, FS_CardinalityType
<1>4. /\ rset' = ready /\ nready' = Cardinality(ready) /\ i' = 1
      /\ pc' = IF ready = {} THEN "timeout" ELSE Branch(ready, s_connfd)
      /\ UNCHANGED <<clients, client_array, nclients, last_id, s_connfd, allset,
                     armed, fired, conn, nconn, fdtab>>
    BY DEF Select, netVars
<1>5. ready \subseteq allset
    OBVIOUS
<1>6. /\ S_LISTENFD \in ready => Backlog(Controller) # {}
      /\ C_LISTENFD \in ready => Backlog(Machine) # {}
    BY DEF Ready, S_LISTENFD, C_LISTENFD
<1>. HIDE DEF ready
<1>7. pc' \in Stage
    BY <1>4, BranchTaken DEF Stage
<1>8. ServerTypeOK'
    BY <1>2, <1>3, <1>4, <1>7 DEF ServerTypeOK
<1>9. NetTypeOK' /\ DescriptorsOK' /\ PeersCloseFirst' /\ SelectNeverFails'
    BY <1>4 DEF NetTypeOK, DescriptorsOK, PeersCloseFirst, SelectNeverFails
<1>10. ArrayMirrorsList' /\ IdsInJoinOrder'
    BY <1>4 DEF ArrayMirrorsList, IdsInJoinOrder
<1>11. LoopOK'
    <2>1. /\ Backlog(Controller)' = Backlog(Controller)
          /\ Backlog(Machine)' = Backlog(Machine)
        BY <1>4 DEF Backlog
    <2>2. /\ pc' = "accept_s" => S_LISTENFD \in ready
          /\ pc' = "accept_c" => C_LISTENFD \in ready /\ S_LISTENFD \notin ready
          /\ pc' = "web" => s_connfd \in ready \ {S_LISTENFD, C_LISTENFD}
        BY <1>4, BranchTaken
    <2>. QED
        BY <1>4, <1>5, <1>6, <2>1, <2>2 DEF LoopOK
<1>. QED
    BY <1>8, <1>9, <1>10, <1>11, PeersAtRest

(* What accept() does to the connections.                                  *)
Opened(cn1, c) ==
    \A d \in Conn : /\ cn1[d].peer = conn[d].peer
                    /\ cn1[d].srv = IF d = c THEN "open" ELSE conn[d].srv
                    /\ cn1[d].link = "up" => conn[d].link = "up"

(* Accepting a connection keeps what is said of the descriptors.           *)
LEMMA Accepted ==
    ASSUME IInv, NEW c \in 1..nconn, conn[c].srv = "backlog",
           conn' \in [Conn -> Connection], Opened(conn', c), nconn' = nconn,
           fdtab' = [fdtab EXCEPT ![LowestFreeFd] = c],
           allset' = allset \cup {LowestFreeFd}
    PROVE  /\ LowestFreeFd \in Fd
           /\ NetTypeOK' /\ DescriptorsOK' /\ PeersCloseFirst' /\ SelectNeverFails'
<1>. USE DEF IInv, TypeOK
<1>1. c \in Conn /\ c \in 0..MaxConn /\ c # 0
    BY MaxConnAssumption DEF NetTypeOK, Conn
<1>2. LowestFreeFd \in Fd /\ fdtab[LowestFreeFd] = 0
    BY <1>1, FreeDescriptor DEF DescriptorsOK
<1>. DEFINE fd == LowestFreeFd
<1>. HIDE DEF fd
<1>3. /\ fd \in Fd /\ fdtab[fd] = 0 /\ fdtab' = [fdtab EXCEPT ![fd] = c]
      /\ allset' = allset \cup {fd}
    BY <1>2 DEF fd
<1>4. NetTypeOK'
    BY <1>1, <1>3 DEF NetTypeOK
<1>5. \A f \in Fd : fdtab[f] # 0 => fdtab[f] \in Conn /\ fdtab[f] # c
    BY MaxConnAssumption DEF NetTypeOK, DescriptorsOK, Conn
<1>6. \A f \in Fd : fdtab'[f] = IF f = fd THEN c ELSE fdtab[f]
    BY <1>3 DEF NetTypeOK
<1>7. DescriptorsOK'
    <2>1. \A f \in Fd : fdtab'[f] # 0 => /\ fdtab'[f] <= nconn'
                                         /\ conn'[fdtab'[f]].srv = "open"
        BY <1>1, <1>5, <1>6 DEF NetTypeOK, DescriptorsOK, Opened
    <2>2. \A f, g \in Fd : fdtab'[f] # 0 /\ fdtab'[f] = fdtab'[g] => f = g
        BY <1>1, <1>5, <1>6 DEF DescriptorsOK
    <2>. QED
        BY <2>1, <2>2 DEF DescriptorsOK
<1>8. PeersCloseFirst'
    BY DEF PeersCloseFirst, Opened
<1>9. SelectNeverFails'
    BY <1>1, <1>3, <1>6 DEF SelectNeverFails
<1>. QED
    BY <1>2, <1>4, <1>7, <1>8, <1>9

(* The first of those that wait on a listening socket.                     *)
LEMMA FirstWaiting ==
    ASSUME IInv, NEW P, Backlog(P) # {}
    PROVE  /\ FirstOf(Backlog(P)) \in 1..nconn /\ FirstOf(Backlog(P)) \in Conn
           /\ conn[FirstOf(Backlog(P))].srv = "backlog"
           /\ conn[FirstOf(Backlog(P))].peer \in P
<1>1. Backlog(P) \in SUBSET Nat
    BY DEF Backlog
<1>2. FirstOf(Backlog(P)) \in Backlog(P)
    BY <1>1, FirstOfIsLeast
<1>3. 1..nconn \subseteq Conn
    BY MaxConnAssumption DEF IInv, TypeOK, NetTypeOK, Conn
<1>. QED
    BY <1>2, <1>3 DEF Backlog

(* The server accepts a controller.                                        *)
LEMMA AcceptServerStep ==
    ASSUME IInv, AcceptServer, UNCHANGED <<executed, controllerVars>>
    PROVE  IInv'
<1>. USE DEF IInv, TypeOK
<1>. DEFINE c == FirstOf(Backlog(Controller))
            fd == LowestFreeFd
<1>1. /\ pc = "accept_s"
      /\ conn' = [conn EXCEPT ![c].srv = "open"]
      /\ fdtab' = [fdtab EXCEPT ![fd] = c]
      /\ s_connfd' = fd
      /\ allset' = allset \cup {fd}
      /\ rset' = rset \ {S_LISTENFD}
      /\ nready' = nready - 1
      /\ pc' = IF nready' = 0 THEN "select" ELSE Branch(rset', fd)
      /\ UNCHANGED <<nconn, clients, client_array, nclients, last_id, i, armed, fired>>
    BY DEF AcceptServer
<1>2. Backlog(Controller) # {}
    BY <1>1 DEF LoopOK
<1>3. /\ c \in 1..nconn /\ c \in Conn /\ conn[c].srv = "backlog"
      /\ conn[c].peer \in Controller
    BY <1>2, FirstWaiting
<1>. HIDE DEF c
<1>4. conn' \in [Conn -> Connection] /\ Opened(conn', c)
    <2>1. conn \in [Conn -> Connection]
        BY DEF NetTypeOK
    <2>. DEFINE x == [conn[c] EXCEPT !.srv = "open"]
    <2>2. /\ x \in Connection /\ x.peer = conn[c].peer /\ x.srv = "open"
          /\ x.link = conn[c].link
        BY <1>3, <2>1 DEF Connection
    <2>3. conn' = [conn EXCEPT ![c] = x]
        BY <1>1, <1>3, <2>1
    <2>. HIDE DEF x
    <2>. QED
        BY <1>3, <2>1, <2>2, <2>3 DEF Opened
<1>5. fd \in Fd /\ NetTypeOK' /\ DescriptorsOK' /\ PeersCloseFirst' /\ SelectNeverFails'
    BY <1>1, <1>3, <1>4, Accepted
<1>6. ArrayMirrorsList' /\ IdsInJoinOrder'
    BY <1>1 DEF ArrayMirrorsList, IdsInJoinOrder
<1>. HIDE DEF fd
<1>7. ServerTypeOK'
    <2>1. pc' \in Stage
        BY <1>1, BranchTaken DEF Stage
    <2>. QED
        BY <1>1, <1>5, <2>1 DEF ServerTypeOK
<1>8. LoopOK'
    <2>1. Backlog(Machine) # {} => Backlog(Machine)' # {}
        BY <1>1, <1>3, <1>4, PeersAssumption, MaxConnAssumption
           DEF Backlog, Opened, NetTypeOK, Conn
    <2>2. /\ pc' # "accept_s"
          /\ pc' = "accept_c" => C_LISTENFD \in rset' /\ S_LISTENFD \notin rset'
          /\ pc' = "web" => fd \in rset' \ {S_LISTENFD, C_LISTENFD}
        BY <1>1, BranchTaken
    <2>. QED
        BY <1>1, <2>1, <2>2 DEF LoopOK
<1>. QED
    BY <1>5, <1>6, <1>7, <1>8, PeersAtRest

(* The server accepts an agent, adds it to the list under the next id, and *)
(* asks it for its details.                                                *)
LEMMA AcceptClientStep ==
    ASSUME IInv, AcceptClient, UNCHANGED <<executed, controllerVars>>
    PROVE  IInv'
<1>. USE DEF IInv, TypeOK
<1>. DEFINE c  == FirstOf(Backlog(Machine))
            fd == LowestFreeFd
            id == last_id + 1
            new == [id |-> id, fd |-> fd, is_online |-> TRUE,
                    timer |-> "none", timer_uri |-> NoUri]
            open == [conn EXCEPT ![c].srv = "open", ![c].id = id]
<1>1. /\ pc = "accept_c"
      /\ clients' = Append(clients, new)
      /\ client_array' = client_getall(clients')
      /\ nclients' = nclients + 1
      /\ last_id' = id
      /\ fdtab' = [fdtab EXCEPT ![fd] = c]
      /\ allset' = allset \cup {fd}
      /\ rset' = rset \ {C_LISTENFD}
      /\ nready' = nready - 1
      /\ UNCHANGED <<nconn, s_connfd, i, armed, fired>>
    BY DEF AcceptClient, NextId
<1>2. PICK w \in WriteTo(open, c, Details) :
         /\ conn' = w.conn
         /\ pc' = IF w.rv = "killed" THEN "sigpipe"
                  ELSE IF nready' = 0 THEN "select" ELSE Branch(rset', s_connfd)
    BY DEF AcceptClient, NextId
<1>3. Backlog(Machine) # {} /\ C_LISTENFD \in rset /\ S_LISTENFD \notin rset
    BY <1>1 DEF LoopOK
<1>4. /\ c \in 1..nconn /\ c \in Conn /\ conn[c].srv = "backlog"
      /\ conn[c].peer \in Machine
    BY <1>3, FirstWaiting
<1>5. /\ clients \in Seq(Client) /\ Len(clients) \in Nat /\ nclients = Len(clients)
      /\ id \in Nat /\ last_id \in Nat
    BY LenProperties DEF ServerTypeOK, ArrayMirrorsList
<1>. HIDE DEF c, id
<1>6. open \in [Conn -> Connection] /\ Opened(open, c)
    <2>1. conn \in [Conn -> Connection]
        BY DEF NetTypeOK
    <2>. DEFINE x == [conn[c] EXCEPT !.srv = "open", !.id = id]
    <2>2. /\ x \in Connection /\ x.peer = conn[c].peer /\ x.srv = "open"
          /\ x.link = conn[c].link
        BY <1>4, <1>5, <2>1 DEF Connection
    <2>3. open = [conn EXCEPT ![c] = x]
        BY <1>4, <2>1
    <2>. HIDE DEF x, open
    <2>. QED
        BY <1>4, <2>1, <2>2, <2>3 DEF Opened
<1>7. Details \in Message
    <2>1. "getdetails" \in Uri /\ NoUri \in Uri /\ JoinTag \in Tag /\ {} \in SUBSET Param
        BY MaxReqAssumption DEF Uri, ServerCommand, JoinTag, Tag
    <2>. QED
        BY <2>1 DEF Details, MakeRequest, Message, Request
<1>. HIDE DEF open
<1>8. /\ conn' \in [Conn -> Connection] /\ Alike(open, conn')
      /\ w.rv \in {"sent", "failed", "killed"}
    BY <1>2, <1>4, <1>6, <1>7, WriteToOutcomes
<1>9. Opened(conn', c)
    BY <1>6, <1>8 DEF Alike, Opened
<1>10. fd \in Fd /\ NetTypeOK' /\ DescriptorsOK' /\ PeersCloseFirst' /\ SelectNeverFails'
    BY <1>1, <1>4, <1>8, <1>9, Accepted
<1>. HIDE DEF fd
<1>11. new \in Client /\ new.id = id
    BY <1>5, <1>10 DEF Client, Timer, NoUri, Uri
<1>. HIDE DEF new
<1>12. /\ clients' \in Seq(Client) /\ Len(clients') = Len(clients) + 1
       /\ \A k \in 1..Len(clients) : clients'[k] = clients[k]
       /\ clients'[Len(clients) + 1].id = id
    BY <1>1, <1>5, <1>11, AppendProperties
<1>13. ArrayMirrorsList'
    BY <1>1, <1>5, <1>12, Getall DEF ArrayMirrorsList
<1>14. IdsInJoinOrder'
    <2>1. \A k \in 1..Len(clients) : clients[k].id \in 1..last_id
        BY DEF IdsInJoinOrder
    <2>2. id = last_id + 1
        BY DEF id
    <2>3. \A k \in 1..Len(clients') : clients'[k].id \in 1..last_id'
        BY <1>1, <1>5, <1>12, <2>1, <2>2
    <2>4. ASSUME NEW j \in 1..Len(clients'), NEW k \in 1..Len(clients'), j < k
          PROVE  clients'[j].id < clients'[k].id
        <3>1. j \in 1..Len(clients) /\ clients'[j] = clients[j]
            BY <1>5, <1>12, <2>4
        <3>2. CASE k = Len(clients) + 1
            <4>1. clients'[j].id \in 1..last_id
                BY <2>1, <3>1
            <4>2. clients'[k].id = last_id + 1
                BY <1>12, <2>2, <3>2
            <4>3. last_id \in Nat
                BY DEF ServerTypeOK
            <4>. QED
                BY <4>1, <4>2, <4>3
        <3>3. CASE k # Len(clients) + 1
            <4>1. k \in 1..Len(clients) /\ clients'[k] = clients[k]
                BY <1>5, <1>12, <3>3
            <4>. QED
                BY <2>4, <3>1, <4>1 DEF IdsInJoinOrder
        <3>. QED
            BY <3>2, <3>3
    <2>. QED
        BY <2>3, <2>4 DEF IdsInJoinOrder
<1>15. pc' \in Stage \cup Death
    BY <1>2, BranchTaken DEF Stage, Death
<1>16. ServerTypeOK'
    <2>1. client_array' \in Seq(Nat)
        BY <1>1, <1>12, Getall
    <2>2. rset' \subseteq rset /\ nclients' \in Nat /\ nready' \in Int
        BY <1>1, <1>5 DEF ServerTypeOK
    <2>. QED
        BY <1>1, <1>5, <1>10, <1>12, <1>15, <2>1, <2>2 DEF ServerTypeOK
<1>17. LoopOK'
    <2>1. /\ pc' # "accept_s" /\ pc' # "accept_c"
          /\ pc' = "web" => s_connfd \in rset' \ {S_LISTENFD, C_LISTENFD}
        BY <1>1, <1>2, <1>3, BranchTaken
    <2>. QED
        BY <1>1, <2>1 DEF LoopOK
<1>. QED
    BY <1>10, <1>13, <1>14, <1>16, <1>17, PeersAtRest

(* Whatever a handler did, what is said of the connections and of the list *)
(* still holds.                                                            *)
LEMMA HandledKeeps ==
    ASSUME IInv, NEW rest, Alike(conn, rest), NEW o, Sound(o, rest, clients), Handled(o),
           UNCHANGED <<nconn, fdtab, client_array, nclients, last_id>>
    PROVE  /\ NetTypeOK' /\ DescriptorsOK' /\ PeersCloseFirst'
           /\ clients' \in Seq(Client) /\ ArrayMirrorsList' /\ IdsInJoinOrder'
<1>1. conn' \in [Conn -> Connection] /\ Alike(rest, conn')
    BY DEF Sound, Handled
<1>2. Alike(conn, conn')
    BY <1>1, AlikeTransitive
<1>3. Kept(conn, conn')
    BY <1>2, AlikeIsKept
<1>4. SameClients(clients, clients')
    BY DEF Sound, Handled
<1>. QED
    BY <1>1, <1>3, <1>4, ConnFrame, ListFrame

(* A step that closes one descriptor whose peer has gone, and takes it out *)
(* of the set that select() is asked about.                                *)
LEMMA ClosedKeeps ==
    ASSUME IInv, NEW f \in Fd, fdtab[f] # 0, AtEof(fdtab[f]),
           conn' = ServerClosed(conn, fdtab[f]), nconn' = nconn,
           fdtab' = [fdtab EXCEPT ![f] = 0], allset' = allset \ {f}
    PROVE  NetTypeOK' /\ DescriptorsOK' /\ PeersCloseFirst' /\ SelectNeverFails'
<1>. USE DEF IInv, TypeOK
<1>. DEFINE c == fdtab[f]
<1>1. c \in Conn /\ conn \in [Conn -> Connection] /\ conn[c].link # "up"
    BY MaxConnAssumption DEF NetTypeOK, Conn, AtEof
<1>. DEFINE x == [conn[c] EXCEPT !.srv = "closed", !.up = <<>>]
<1>2. x \in Connection /\ x.link = conn[c].link
    <2>1. <<>> \in Seq(Message)
        OBVIOUS
    <2>. HIDE DEF c
    <2>. QED
        BY <1>1, <2>1 DEF Connection
<1>3. conn' = [conn EXCEPT ![c] = x]
    BY <1>1 DEF ServerClosed
<1>. HIDE DEF x
<1>4. NetTypeOK'
    BY <1>1, <1>2, <1>3, MaxConnAssumption DEF NetTypeOK
<1>5. PeersCloseFirst'
    BY <1>1, <1>2, <1>3 DEF PeersCloseFirst
<1>6. \A g \in Fd : /\ fdtab'[g] = IF g = f THEN 0 ELSE fdtab[g]
                    /\ fdtab'[g] # 0 => fdtab'[g] # c /\ fdtab'[g] \in Conn
    BY MaxConnAssumption DEF NetTypeOK, DescriptorsOK, Conn
<1>7. DescriptorsOK'
    BY <1>1, <1>3, <1>6 DEF DescriptorsOK
<1>8. SelectNeverFails'
    BY <1>6, Descriptors DEF SelectNeverFails
<1>. QED
    BY <1>4, <1>5, <1>7, <1>8

(* A read that fails reports the reset.                                    *)
LEMMA ReadErrorKept ==
    ASSUME IInv, NEW c \in Conn, ReadError(c)
    PROVE  conn' \in [Conn -> Connection] /\ Kept(conn, conn')
<1>1. conn \in [Conn -> Connection] /\ conn' = [conn EXCEPT ![c].link = "hup"]
    BY DEF IInv, TypeOK, NetTypeOK, ReadError
<1>. DEFINE x == [conn[c] EXCEPT !.link = "hup"]
<1>2. /\ x \in Connection /\ x.peer = conn[c].peer /\ x.srv = conn[c].srv
      /\ x.link # "up"
    BY <1>1 DEF Connection
<1>3. conn' = [conn EXCEPT ![c] = x]
    BY <1>1
<1>. HIDE DEF x
<1>. QED
    BY <1>1, <1>2, <1>3 DEF Kept

(* What the loop takes from the queue of a connection, and what is left.   *)
LEMMA Taken ==
    ASSUME IInv, NEW c \in Conn, NEW n \in 1..Len(conn[c].up)
    PROVE  LET batch == SubSeq(conn[c].up, 1, n)
               rest  == [conn EXCEPT ![c].up = SubSeq(@, n + 1, Len(@))]
           IN  /\ batch \in Seq(Message) /\ Len(batch) # 0
               /\ rest \in [Conn -> Connection] /\ Alike(conn, rest)
<1>1. conn[c].up \in Seq(Message)
    BY DEF IInv, TypeOK, NetTypeOK, Connection
<1>2. Len(conn[c].up) \in Nat
    BY <1>1, LenProperties
<1>3. /\ SubSeq(conn[c].up, 1, n) \in Seq(Message)
      /\ Len(SubSeq(conn[c].up, 1, n)) = n
      /\ SubSeq(conn[c].up, n + 1, Len(conn[c].up)) \in Seq(Message)
    BY <1>1, Batches
<1>. DEFINE left == SubSeq(conn[c].up, n + 1, Len(conn[c].up))
<1>4. left \in Seq(Message)
    BY <1>3
<1>. HIDE DEF left
<1>5. /\ [conn EXCEPT ![c].up = left] \in [Conn -> Connection]
      /\ Alike(conn, [conn EXCEPT ![c].up = left])
    BY <1>4, QueuesKept
<1>. QED
    BY <1>2, <1>3, <1>5 DEF left

(* The loop serves what it takes for the controller.                       *)
LEMMA ServeWebStep ==
    ASSUME IInv, ServeWeb, UNCHANGED <<executed, controllerVars>>
    PROVE  IInv'
<1>. USE DEF IInv, TypeOK
<1>. DEFINE c == fdtab[s_connfd]
<1>1. /\ pc = "web" /\ nready' = nready - 1
      /\ UNCHANGED <<nconn, client_array, nclients, last_id, s_connfd, rset, i, fired>>
      /\ \/ ServeWebData(c) /\ UNCHANGED <<fdtab, allset>>
         \/ ServeWebEof(c) /\ pc' = "clients" /\ UNCHANGED <<clients, armed>>
         \/ ReadError(c) /\ pc' = "clients" /\ UNCHANGED <<clients, fdtab, allset, armed>>
    BY DEF ServeWeb
<1>2. s_connfd \in Fd /\ c # 0 /\ c \in Conn
    <2>1. s_connfd \in Fd /\ s_connfd \in allset
        BY <1>1, Descriptors DEF LoopOK, ServerTypeOK
    <2>. QED
        BY <2>1, Descriptors, MaxConnAssumption DEF SelectNeverFails, NetTypeOK, Conn
<1>3. SUFFICES ASSUME TRUE
               PROVE  /\ NetTypeOK' /\ DescriptorsOK' /\ PeersCloseFirst' /\ SelectNeverFails'
                      /\ ArrayMirrorsList' /\ IdsInJoinOrder' /\ clients' \in Seq(Client)
                      /\ pc' \in {"clients"} \cup Death /\ armed' \in Nat
                      /\ allset' \subseteq allset
    <2>1. ServerTypeOK'
        BY <1>1, <1>3 DEF ServerTypeOK, Stage
    <2>2. LoopOK'
        BY <1>1, <1>3 DEF LoopOK, Death
    <2>. QED
        BY <1>3, <2>1, <2>2, PeersAtRest
<1>4. CASE ServeWebData(c) /\ UNCHANGED <<fdtab, allset>>
    <2>. HIDE DEF c
    <2>1. PICK n \in 1..Len(conn[c].up) :
            LET batch == SubSeq(conn[c].up, 1, n)
                rest  == [conn EXCEPT ![c].up = SubSeq(@, n + 1, Len(@))]
                req   == request_parse(batch)
            IN  IF IsRequest(batch)
                THEN \E o \in ecafe_request_handle(rest, clients, req, s_connfd) :
                        /\ Handled(o)
                        /\ pc' = IF o.fate = "running" THEN "clients" ELSE o.fate
                        /\ armed' = IF req.uri = "timer" /\ Arms(clients, req)
                                    THEN armed + 1 ELSE armed
                ELSE conn' = rest /\ pc' = "clients" /\ UNCHANGED <<clients, armed>>
        BY <1>4 DEF ServeWebData
    <2>. DEFINE batch == SubSeq(conn[c].up, 1, n)
                rest  == [conn EXCEPT ![c].up = SubSeq(@, n + 1, Len(@))]
                req   == request_parse(batch)
    <2>2. /\ batch \in Seq(Message) /\ Len(batch) # 0
          /\ rest \in [Conn -> Connection] /\ Alike(conn, rest)
        BY <1>2, Taken
    <2>. HIDE DEF batch, rest
    <2>3. CASE IsRequest(batch)
        <3>1. PICK o \in ecafe_request_handle(rest, clients, req, s_connfd) :
                /\ Handled(o)
                /\ pc' = IF o.fate = "running" THEN "clients" ELSE o.fate
                /\ armed' = IF req.uri = "timer" /\ Arms(clients, req)
                            THEN armed + 1 ELSE armed
            BY <2>1, <2>3 DEF batch, rest
        <3>2. req \in Request
            BY <2>2, <2>3, ParsedRequest
        <3>. HIDE DEF req
        <3>3. Sound(o, rest, clients)
            BY <2>2, <3>1, <3>2, RequestSound DEF ServerTypeOK
        <3>4. /\ NetTypeOK' /\ DescriptorsOK' /\ PeersCloseFirst'
              /\ clients' \in Seq(Client) /\ ArrayMirrorsList' /\ IdsInJoinOrder'
            BY <1>1, <1>4, <2>2, <3>1, <3>3, HandledKeeps
        <3>5. pc' \in {"clients"} \cup Death /\ armed' \in Nat
            BY <3>1, <3>3 DEF Sound, ServerTypeOK
        <3>. QED
            BY <1>4, <3>4, <3>5 DEF SelectNeverFails
    <2>4. CASE ~IsRequest(batch)
        <3>1. conn' = rest /\ pc' = "clients" /\ UNCHANGED <<clients, armed>>
            BY <2>1, <2>4 DEF batch, rest
        <3>2. Kept(conn, conn') /\ SameClients(clients, clients')
            BY <2>2, <3>1, AlikeIsKept, SameAgain DEF ServerTypeOK
        <3>3. /\ NetTypeOK' /\ DescriptorsOK' /\ PeersCloseFirst'
              /\ clients' \in Seq(Client) /\ ArrayMirrorsList' /\ IdsInJoinOrder'
            BY <1>1, <1>4, <2>2, <3>1, <3>2, ConnFrame, ListFrame
        <3>. QED
            BY <1>4, <3>1, <3>3 DEF SelectNeverFails, ServerTypeOK
    <2>. QED
        BY <2>3, <2>4
<1>5. CASE \/ ServeWebEof(c) /\ pc' = "clients" /\ UNCHANGED <<clients, armed>>
           \/ ReadError(c) /\ pc' = "clients" /\ UNCHANGED <<clients, fdtab, allset, armed>>
    <2>1. ArrayMirrorsList' /\ IdsInJoinOrder'
        BY <1>1, <1>5 DEF ArrayMirrorsList, IdsInJoinOrder
    <2>2. NetTypeOK' /\ DescriptorsOK' /\ PeersCloseFirst' /\ SelectNeverFails'
        <3>1. CASE ServeWebEof(c)
            BY <1>1, <1>2, <3>1, ClosedKeeps DEF ServeWebEof
        <3>2. CASE ReadError(c) /\ UNCHANGED <<fdtab, allset>>
            BY <1>1, <1>2, <3>2, ReadErrorKept, ConnFrame DEF SelectNeverFails
        <3>. QED
            BY <1>5, <3>1, <3>2
    <2>. QED
        BY <1>5, <2>1, <2>2 DEF ServeWebEof, ServerTypeOK
<1>. QED
    BY <1>1, <1>4, <1>5

(* Where the for loops take their next position from.                      *)
LEMMA FirstPosition ==
    ASSUME IInv, NEW S, S \subseteq i..nclients, S # {}
    PROVE  FirstOf(S) \in Nat /\ FirstOf(S) >= 1 /\ FirstOf(S) <= nclients
<1>1. i \in Nat /\ i >= 1 /\ nclients \in Nat
    BY DEF IInv, TypeOK, ServerTypeOK, LoopOK
<1>2. S \in SUBSET Nat
    BY <1>1
<1>3. FirstOf(S) \in S
    BY <1>2, FirstOfIsLeast
<1>. DEFINE x == FirstOf(S)
<1>4. x \in i..nclients
    BY <1>3
<1>. HIDE DEF x
<1>5. x \in Nat /\ x >= 1 /\ x <= nclients
    BY <1>1, <1>4
<1>. QED
    BY <1>5 DEF x

(* A client leaves: the list, the array and the count follow.              *)
LEMMA RemoveKeeps ==
    ASSUME IInv, NEW k \in 1..Len(clients),
           clients' = client_remove(clients, clients[k].id),
           client_array' = client_getall(clients'),
           nclients' = nclients - 1, last_id' = last_id
    PROVE  /\ clients' \in Seq(Client) /\ client_array' \in Seq(Nat) /\ nclients' \in Nat
           /\ ArrayMirrorsList' /\ IdsInJoinOrder'
<1>1. /\ clients \in Seq(Client) /\ Len(clients) \in Nat /\ nclients = Len(clients)
      /\ \A j, n \in 1..Len(clients) : j < n => clients[j].id < clients[n].id
      /\ \A j \in 1..Len(clients) : clients[j].id \in 1..last_id
    BY LenProperties
       DEF IInv, TypeOK, ServerTypeOK, ArrayMirrorsList, IdsInJoinOrder
<1>2. client_get(clients, clients[k].id) = k
    BY <1>1, ClientGetIsUnique
<1>3. /\ clients' \in Seq(Client) /\ Len(clients') = Len(clients) - 1
      /\ \A j \in 1..(Len(clients) - 1) :
            clients'[j] = IF j < k THEN clients[j] ELSE clients[j + 1]
    <2>1. clients' = RemoveAt(clients, k)
        BY <1>2 DEF client_remove
    <2>. DEFINE r == RemoveAt(clients, k)
    <2>2. /\ r \in Seq(Client) /\ Len(r) = Len(clients) - 1
          /\ \A j \in 1..(Len(clients) - 1) :
                r[j] = IF j < k THEN clients[j] ELSE clients[j + 1]
        BY <1>1, Removed
    <2>. HIDE DEF r
    <2>3. clients' = r
        BY <2>1 DEF r
    <2>. QED
        BY <2>2, <2>3
<1>4. /\ client_array' \in Seq(Nat) /\ Len(client_array') = Len(clients')
      /\ \A j \in 1..Len(clients') : client_array'[j] = clients'[j].id
    BY <1>3, Getall
<1>5. ArrayMirrorsList'
    BY <1>1, <1>3, <1>4 DEF ArrayMirrorsList
<1>6. \A j, n \in 1..Len(clients') : j < n => clients'[j].id < clients'[n].id
    <2>1. SUFFICES ASSUME NEW j \in 1..Len(clients'), NEW n \in 1..Len(clients'), j < n
                   PROVE  clients'[j].id < clients'[n].id
        OBVIOUS
    <2>. DEFINE was(x) == IF x < k THEN x ELSE x + 1
    <2>2. /\ was(j) \in 1..Len(clients) /\ was(n) \in 1..Len(clients)
          /\ was(j) < was(n)
        BY <1>1, <1>3, <2>1
    <2>3. clients'[j] = clients[was(j)] /\ clients'[n] = clients[was(n)]
        BY <1>1, <1>3
    <2>. HIDE DEF was
    <2>. QED
        BY <1>1, <2>2, <2>3
<1>7. \A j \in 1..Len(clients') : clients'[j].id \in 1..last_id
    BY <1>1, <1>3
<1>8. IdsInJoinOrder'
    BY <1>6, <1>7 DEF IdsInJoinOrder
<1>. QED
    BY <1>1, <1>3, <1>4, <1>5, <1>8

(* The loop serves one client.                                             *)
LEMMA ServeClientStep ==
    ASSUME IInv, ServeClient, UNCHANGED <<executed, controllerVars>>
    PROVE  IInv'
<1>. USE DEF IInv, TypeOK
<1>. DEFINE j  == FirstOf(LoopTargets)
            id == client_array[j]
            fd == FdAt(j)
            c  == fdtab[fd]
<1>1. /\ pc = "clients" /\ LoopTargets # {}
      /\ \/ /\ c # 0
            /\ ServeClientData(c, client_get(clients, id))
            /\ UNCHANGED <<fdtab, allset, client_array, nclients>>
         \/ c # 0 /\ ServeClientEof(c, id, fd) /\ UNCHANGED pc
         \/ /\ c # 0
            /\ ReadError(c)
            /\ UNCHANGED <<clients, client_array, nclients, fdtab, allset, pc>>
         \/ c = 0 /\ UNCHANGED <<conn, clients, client_array, nclients, fdtab, allset, pc>>
      /\ i' = j + 1 /\ nready' = nready - 1
      /\ UNCHANGED <<nconn, last_id, s_connfd, rset, armed, fired>>
    BY DEF ServeClient
<1>2. j \in Nat /\ j >= 1 /\ j <= nclients
    <2>1. LoopTargets \subseteq i..nclients
        BY DEF LoopTargets
    <2>. QED
        BY <1>1, <2>1, FirstPosition
<1>. HIDE DEF j
<1>3. /\ j \in 1..Len(clients) /\ id = clients[j].id /\ client_get(clients, id) = j
      /\ clients[j] \in Client /\ clients \in Seq(Client)
    BY <1>2, Position DEF ServerTypeOK
<1>4. fd \in Fd /\ c \in 0..MaxConn
    BY <1>3 DEF FdAt, Client, NetTypeOK
<1>5. c # 0 => c \in Conn
    BY <1>4, MaxConnAssumption DEF Conn
<1>. HIDE DEF id, fd
<1>6. SUFFICES ASSUME TRUE
               PROVE  /\ NetTypeOK' /\ DescriptorsOK' /\ PeersCloseFirst' /\ SelectNeverFails'
                      /\ ArrayMirrorsList' /\ IdsInJoinOrder' /\ clients' \in Seq(Client)
                      /\ client_array' \in Seq(Nat) /\ nclients' \in Nat
                      /\ pc' \in {"clients"} \cup Death
                      /\ allset' \subseteq allset
    <2>1. ServerTypeOK'
        BY <1>1, <1>2, <1>6 DEF ServerTypeOK, Stage
    <2>2. LoopOK'
        BY <1>1, <1>2, <1>6 DEF LoopOK, Death
    <2>. QED
        BY <1>6, <2>1, <2>2, PeersAtRest
<1>7. CASE /\ c # 0
           /\ ServeClientData(c, client_get(clients, id))
           /\ UNCHANGED <<fdtab, allset, client_array, nclients>>
    <2>. HIDE DEF c
    <2>1. PICK n \in 1..Len(conn[c].up) :
            LET batch == SubSeq(conn[c].up, 1, n)
                rest  == [conn EXCEPT ![c].up = SubSeq(@, n + 1, Len(@))]
            IN  IF ResponseParses(batch)
                THEN \E o \in ecafe_response_handle(rest, clients, j, response_parse(batch),
                                                    s_connfd) :
                        /\ Handled(o)
                        /\ pc' = IF o.fate = "running" THEN pc ELSE o.fate
                ELSE conn' = rest /\ UNCHANGED <<clients, pc>>
        BY <1>3, <1>7 DEF ServeClientData
    <2>. DEFINE batch == SubSeq(conn[c].up, 1, n)
                rest  == [conn EXCEPT ![c].up = SubSeq(@, n + 1, Len(@))]
    <2>2. /\ batch \in Seq(Message) /\ Len(batch) # 0
          /\ rest \in [Conn -> Connection] /\ Alike(conn, rest)
        BY <1>5, <1>7, Taken
    <2>. HIDE DEF batch, rest
    <2>3. CASE ResponseParses(batch)
        <3>1. PICK o \in ecafe_response_handle(rest, clients, j, response_parse(batch),
                                               s_connfd) :
                /\ Handled(o)
                /\ pc' = IF o.fate = "running" THEN pc ELSE o.fate
            BY <2>1, <2>3 DEF batch, rest
        <3>2. response_parse(batch) \in Response
            BY <2>2, <2>3, ParsedResponse
        <3>3. Sound(o, rest, clients)
            BY <1>3, <2>2, <3>1, <3>2, ResponseSound
        <3>4. /\ NetTypeOK' /\ DescriptorsOK' /\ PeersCloseFirst'
              /\ clients' \in Seq(Client) /\ ArrayMirrorsList' /\ IdsInJoinOrder'
            BY <1>1, <1>7, <2>2, <3>1, <3>3, HandledKeeps
        <3>5. pc' \in {"clients"} \cup Death
            BY <1>1, <3>1, <3>3 DEF Sound
        <3>. QED
            BY <1>7, <3>4, <3>5 DEF SelectNeverFails, ServerTypeOK
    <2>4. CASE ~ResponseParses(batch)
        <3>1. conn' = rest /\ UNCHANGED <<clients, pc>>
            BY <2>1, <2>4 DEF batch, rest
        <3>2. Kept(conn, conn') /\ SameClients(clients, clients')
            BY <1>3, <2>2, <3>1, AlikeIsKept, SameAgain
        <3>3. /\ NetTypeOK' /\ DescriptorsOK' /\ PeersCloseFirst'
              /\ clients' \in Seq(Client) /\ ArrayMirrorsList' /\ IdsInJoinOrder'
            BY <1>1, <1>7, <2>2, <3>1, <3>2, ConnFrame, ListFrame
        <3>. QED
            BY <1>1, <1>7, <3>1, <3>3 DEF SelectNeverFails, ServerTypeOK
    <2>. QED
        BY <2>3, <2>4
<1>8. CASE c # 0 /\ ServeClientEof(c, id, fd) /\ UNCHANGED pc
    <2>1. NetTypeOK' /\ DescriptorsOK' /\ PeersCloseFirst' /\ SelectNeverFails'
        BY <1>1, <1>4, <1>8, ClosedKeeps DEF ServeClientEof
    <2>2. /\ clients' \in Seq(Client) /\ client_array' \in Seq(Nat) /\ nclients' \in Nat
          /\ ArrayMirrorsList' /\ IdsInJoinOrder'
        BY <1>1, <1>3, <1>8, RemoveKeeps DEF ServeClientEof
    <2>. QED
        BY <1>1, <1>8, <2>1, <2>2 DEF ServeClientEof
<1>9. CASE \/ /\ c # 0
              /\ ReadError(c)
              /\ UNCHANGED <<clients, client_array, nclients, fdtab, allset, pc>>
           \/ c = 0 /\ UNCHANGED <<conn, clients, client_array, nclients, fdtab, allset, pc>>
    <2>1. ArrayMirrorsList' /\ IdsInJoinOrder'
        BY <1>1, <1>9 DEF ArrayMirrorsList, IdsInJoinOrder
    <2>2. conn' \in [Conn -> Connection] /\ Kept(conn, conn')
        BY <1>5, <1>9, ReadErrorKept DEF NetTypeOK, Kept
    <2>3. NetTypeOK' /\ DescriptorsOK' /\ PeersCloseFirst' /\ SelectNeverFails'
        BY <1>1, <1>9, <2>2, ConnFrame DEF SelectNeverFails
    <2>. QED
        BY <1>1, <1>9, <2>1, <2>3 DEF ServerTypeOK
<1>. QED
    BY <1>1, <1>7, <1>8, <1>9

(* A step of the loop that only moves on.                                  *)
LEMMA MovedOn ==
    ASSUME IInv, ServerTypeOK', i' >= 1, pc' \notin {"accept_s", "accept_c", "web"},
           UNCHANGED <<clients, client_array, nclients, last_id, allset>>,
           UNCHANGED <<conn, nconn, fdtab>>, UNCHANGED <<executed, controllerVars>>
    PROVE  IInv'
<1>1. NetTypeOK' /\ DescriptorsOK' /\ PeersCloseFirst' /\ SelectNeverFails'
    BY DEF IInv, TypeOK, NetTypeOK, DescriptorsOK, PeersCloseFirst, SelectNeverFails
<1>2. ArrayMirrorsList' /\ IdsInJoinOrder'
    BY DEF IInv, ArrayMirrorsList, IdsInJoinOrder
<1>3. LoopOK'
    BY DEF LoopOK
<1>. QED
    BY <1>1, <1>2, <1>3, PeersAtRest DEF IInv, TypeOK

(* The end of a round, of either kind.                                     *)
LEMMA EndStep ==
    ASSUME IInv, EndRound \/ EndTimeout, UNCHANGED <<executed, controllerVars>>
    PROVE  IInv'
<1>1. /\ i' = 1 /\ pc' = "select" /\ rset' \subseteq rset /\ nready' \in {0, nready}
      /\ UNCHANGED <<clients, client_array, nclients, last_id, s_connfd, allset, armed,
                     fired, conn, nconn, fdtab>>
    BY DEF EndRound, EndTimeout, netVars
<1>2. ServerTypeOK'
    BY <1>1 DEF IInv, TypeOK, ServerTypeOK, Stage
<1>. QED
    BY <1>1, <1>2, MovedOn

(* The loop looks at a client whose timer is past its expiry.              *)
LEMMA CheckTimeoutStep ==
    ASSUME IInv, CheckTimeout, UNCHANGED <<executed, controllerVars>>
    PROVE  IInv'
<1>. USE DEF IInv, TypeOK
<1>. DEFINE j   == FirstOf(Expired)
            k   == client_get(clients, client_array[j])
            uri == clients[k].timer_uri
            req == MakeRequest(uri, clients[k].id, {}, TimerTag)
<1>1. /\ pc = "timeout" /\ Expired # {}
      /\ IF uri = NoUri
         THEN pc' = "null_uri" /\ UNCHANGED <<conn, clients, i, fired>>
         ELSE \E o \in ecafe_request_handle(conn, clients, req, 0) :
                /\ conn' = o.conn
                /\ clients' = [o.clients EXCEPT ![k].timer = "none"]
                /\ pc' = IF o.fate = "running" THEN pc ELSE o.fate
                /\ i' = j + 1
                /\ fired' = fired + 1
      /\ UNCHANGED <<nconn, fdtab, client_array, nclients, last_id, s_connfd,
                     allset, rset, nready, armed>>
    BY DEF CheckTimeout
<1>2. j \in Nat /\ j >= 1 /\ j <= nclients
    <2>1. Expired \subseteq i..nclients
        BY DEF Expired
    <2>. QED
        BY <1>1, <2>1, FirstPosition
<1>. HIDE DEF j
<1>3. k \in 1..Len(clients) /\ clients[k] \in Client /\ clients \in Seq(Client)
    BY <1>2, Position DEF ServerTypeOK
<1>. HIDE DEF k
<1>4. CASE uri = NoUri
    <2>1. /\ pc' = "null_uri" /\ UNCHANGED <<conn, clients, i, fired>>
        BY <1>1, <1>4
    <2>2. ServerTypeOK' /\ i' >= 1
        BY <1>1, <2>1 DEF ServerTypeOK, Death, LoopOK
    <2>. QED
        BY <1>1, <2>1, <2>2, MovedOn
<1>5. CASE uri # NoUri
    <2>1. req \in Request
        <3>1. uri \in Uri /\ clients[k].id \in Nat /\ TimerTag \in Tag
            BY <1>3, MaxReqAssumption DEF Client, TimerTag, Tag
        <3>. QED
            BY <3>1 DEF MakeRequest, Request, NoUri, Uri
    <2>2. PICK o \in ecafe_request_handle(conn, clients, req, 0) :
            /\ conn' = o.conn
            /\ clients' = [o.clients EXCEPT ![k].timer = "none"]
            /\ pc' = IF o.fate = "running" THEN pc ELSE o.fate
            /\ i' = j + 1
            /\ fired' = fired + 1
        BY <1>1, <1>5
    <2>. HIDE DEF req
    <2>3. conn \in [Conn -> Connection]
        BY DEF NetTypeOK
    <2>4. Sound(o, conn, clients)
        BY <1>3, <2>1, <2>2, <2>3, RequestSound
    <2>5. SameClients(clients, clients')
        <3>1. /\ o.clients \in Seq(Client) /\ k \in 1..Len(o.clients)
              /\ "none" \in Timer /\ NoUri \in Uri
            BY <1>3, <2>4 DEF Sound, SameClients, Timer, Uri
        <3>2. SameClients(o.clients, clients')
            BY <2>2, <3>1, TimerSet
        <3>. QED
            BY <2>4, <3>2 DEF Sound, SameClients
    <2>6. conn' \in [Conn -> Connection] /\ Kept(conn, conn')
        BY <2>2, <2>4, AlikeIsKept DEF Sound
    <2>7. /\ NetTypeOK' /\ DescriptorsOK' /\ PeersCloseFirst'
          /\ clients' \in Seq(Client) /\ ArrayMirrorsList' /\ IdsInJoinOrder'
        BY <1>1, <2>5, <2>6, ConnFrame, ListFrame
    <2>8. pc' \in {"timeout"} \cup Death
        BY <1>1, <2>2, <2>4 DEF Sound
    <2>9. ServerTypeOK'
        <3>1. pc' \in Stage \cup Death /\ i' \in Nat /\ fired' \in Nat
            BY <1>2, <2>2, <2>8 DEF ServerTypeOK, Stage
        <3>2. UNCHANGED <<client_array, nclients, last_id, s_connfd, allset, rset,
                          nready, armed>>
            BY <1>1
        <3>. QED
            BY <2>7, <3>1, <3>2 DEF ServerTypeOK
    <2>10. LoopOK'
        BY <1>2, <2>2, <2>8 DEF LoopOK, Death
    <2>11. SelectNeverFails'
        BY <1>1 DEF SelectNeverFails
    <2>. QED
        BY <2>7, <2>9, <2>10, <2>11, PeersAtRest
<1>. QED
    BY <1>4, <1>5

(* Time passes.                                                            *)
LEMMA TimePassesStep ==
    ASSUME IInv, TimePasses, UNCHANGED <<executed, controllerVars>>
    PROVE  IInv'
<1>. USE DEF IInv, TypeOK
<1>1. PICK k \in DOMAIN clients : clients' = [clients EXCEPT ![k].timer = "due"]
    BY DEF TimePasses
<1>2. UNCHANGED <<client_array, nclients, last_id, s_connfd, allset, rset,
                  nready, i, pc, armed, fired, conn, nconn, fdtab>>
    BY DEF TimePasses, netVars
<1>3. SameClients(clients, clients')
    <2>1. clients \in Seq(Client) /\ k \in 1..Len(clients) /\ "due" \in Timer /\ NoUri \in Uri
        BY LenProperties DEF ServerTypeOK, Timer, Uri
    <2>. QED
        BY <1>1, <2>1, TimerSet
<1>4. clients' \in Seq(Client) /\ ArrayMirrorsList' /\ IdsInJoinOrder'
    BY <1>2, <1>3, ListFrame
<1>5. ServerTypeOK'
    BY <1>2, <1>4 DEF ServerTypeOK
<1>6. NetTypeOK' /\ DescriptorsOK' /\ PeersCloseFirst' /\ SelectNeverFails' /\ LoopOK'
    BY <1>2 DEF NetTypeOK, DescriptorsOK, PeersCloseFirst, SelectNeverFails, LoopOK, Backlog
<1>. QED
    BY <1>4, <1>5, <1>6, PeersAtRest

(* The server's steps preserve the invariant.                              *)
LEMMA ServerStepKeeps ==
    ASSUME IInv, Server
    PROVE  IInv'
<1>1. UNCHANGED <<executed, controllerVars>>
    BY DEF Server
<1>2. CASE Select
    BY <1>1, <1>2, SelectStep
<1>3. CASE AcceptServer
    BY <1>1, <1>3, AcceptServerStep
<1>4. CASE AcceptClient
    BY <1>1, <1>4, AcceptClientStep
<1>5. CASE ServeWeb
    BY <1>1, <1>5, ServeWebStep
<1>6. CASE ServeClient
    BY <1>1, <1>6, ServeClientStep
<1>7. CASE EndRound \/ EndTimeout
    BY <1>1, <1>7, EndStep
<1>8. CASE CheckTimeout
    BY <1>1, <1>8, CheckTimeoutStep
<1>9. CASE TimePasses
    BY <1>1, <1>9, TimePassesStep
<1>. QED
    BY <1>2, <1>3, <1>4, <1>5, <1>6, <1>7, <1>8, <1>9 DEF Server, ServerStep

-----------------------------------------------------------------------------
(* The invariant is inductive.                                             *)
THEOREM Invariance == Safe => []IInv
<1>1. IInv /\ [Next]_vars => IInv'
    BY AgentStep, WebStep, ServerStepKeeps, Stutter DEF Next
<1>. QED
    BY InitIInv, <1>1, PTL DEF Safe

(* Every variable has its type.                                            *)
THEOREM TypeCorrect == Safe => []TypeOK
<1>1. IInv => TypeOK
    BY DEF IInv
<1>. QED
    BY <1>1, Invariance, PTL

(* The array of pointers that the loop indexes names exactly the clients   *)
(* of the list, in its order, however clients join and leave.              *)
THEOREM ArrayIsList == Safe => []ArrayMirrorsList
<1>1. IInv => ArrayMirrorsList
    BY DEF IInv
<1>. QED
    BY <1>1, Invariance, PTL

(* No id is that of two clients, and the list is in the order of the ids,  *)
(* however many clients join and leave.                                    *)
THEOREM IdsAreUnique == Safe => []IdsInJoinOrder
<1>1. IInv => IdsInJoinOrder
    BY DEF IInv
<1>. QED
    BY <1>1, Invariance, PTL

(* select() is never asked about a descriptor that is closed, whatever     *)
(* stale values s_connfd has had, and always about every one that is open. *)
THEOREM SelectSound == Safe => []SelectNeverFails
<1>1. IInv => SelectNeverFails
    BY DEF IInv
<1>. QED
    BY <1>1, Invariance, PTL

(* The server hangs up only on peers that have gone.                       *)
THEOREM NoLivePeerDropped == Safe => []PeersCloseFirst
<1>1. IInv => PeersCloseFirst
    BY DEF IInv
<1>. QED
    BY <1>1, Invariance, PTL
=============================================================================
