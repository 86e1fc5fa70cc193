------------------------ MODULE EcafeScreenshotProofs ------------------------
(***************************************************************************)
(* That the page of a screenshot shows the PC that was asked for, that no  *)
(* image data is taken for a text, and that the readers of an image stop   *)
(* where it ends, for any number of PCs, requests and timers and images of *)
(* any size - if no timer takes screenshots.                               *)
(***************************************************************************)
EXTENDS EcafeScreenshot, SequenceTheorems, TLAPS

(* What the steps do to one connection.                                    *)
Alters(cn, cn1, c, up, down, link) ==
    /\ cn1 \in [Conn -> Link]
    /\ cn1[c].up = up /\ cn1[c].down = down /\ cn1[c].link = link
    /\ \A d \in Conn : d # c => cn1[d] = cn[d]

Broken == {"fin", "rst", "hup"}
Dead == [Looping EXCEPT !.at = "dead"]

(* Two changes of the same connection.                                     *)
LEMMA AltersTwice ==
    ASSUME NEW cn, NEW cn1, NEW cn2, NEW c, NEW up, NEW down, NEW link,
           NEW up2, NEW down2, NEW link2,
           Alters(cn, cn1, c, up, down, link), Alters(cn1, cn2, c, up2, down2, link2)
    PROVE  Alters(cn, cn2, c, up2, down2, link2)
BY DEF Alters

(* Setting one queue of a connection, or both.                             *)
LEMMA SetUp ==
    ASSUME NEW cn \in [Conn -> Link], NEW c \in Conn, NEW q \in Seq(Sent)
    PROVE  Alters(cn, [cn EXCEPT ![c].up = q], c, q, cn[c].down, cn[c].link)
BY DEF Alters, Link

LEMMA SetDown ==
    ASSUME NEW cn \in [Conn -> Link], NEW c \in Conn, NEW q \in Seq(Sent)
    PROVE  Alters(cn, [cn EXCEPT ![c].down = q], c, cn[c].up, q, cn[c].link)
BY DEF Alters, Link

LEMMA SetBoth ==
    ASSUME NEW cn \in [Conn -> Link], NEW c \in Conn,
           NEW q \in Seq(Sent), NEW u \in Seq(Sent)
    PROVE  Alters(cn, [cn EXCEPT ![c].down = q, ![c].up = u], c, u, q, cn[c].link)
<1>. DEFINE mid == [cn EXCEPT ![c].down = q]
<1>1. Alters(cn, mid, c, cn[c].up, q, cn[c].link)
    BY SetDown
<1>. HIDE DEF mid
<1>2. mid \in [Conn -> Link] /\ mid[c].down = q /\ mid[c].link = cn[c].link
    BY <1>1 DEF Alters
<1>3. Alters(mid, [mid EXCEPT ![c].up = u], c, u, q, cn[c].link)
    BY <1>2, SetUp
<1>4. Alters(cn, [mid EXCEPT ![c].up = u], c, u, q, cn[c].link)
    BY <1>1, <1>3, AltersTwice
<1>. QED
    BY <1>4 DEF mid

LEMMA SetLink ==
    ASSUME NEW cn \in [Conn -> Link], NEW c \in Conn, NEW l \in Broken
    PROVE  Alters(cn, [cn EXCEPT ![c].link = l], c, cn[c].up, cn[c].down, l)
<1>. DEFINE x == [cn[c] EXCEPT !.link = l]
<1>1. x \in Link /\ x.up = cn[c].up /\ x.down = cn[c].down /\ x.link = l
    BY DEF Link, Broken
<1>. QED
    BY <1>1 DEF Alters

LEMMA SetServer ==
    ASSUME NEW cn \in [Conn -> Link], NEW c \in Conn
    PROVE  Alters(cn, [cn EXCEPT ![c].srv = "closed"], c, cn[c].up, cn[c].down, cn[c].link)
<1>. DEFINE x == [cn[c] EXCEPT !.srv = "closed"]
<1>1. x \in Link /\ x.up = cn[c].up /\ x.down = cn[c].down /\ x.link = cn[c].link
    BY DEF Link
<1>. QED
    BY <1>1 DEF Alters

(* A write of the server to a peer that has gone changes no queue.         *)
LEMMA FailedSends ==
    ASSUME NEW cn \in [Conn -> Link], NEW c \in Conn, NEW m, NEW w \in WriteTo(cn, c, m),
           cn[c].link # "up"
    PROVE  /\ w = [conn |-> w.conn, rv |-> w.rv] /\ w.rv \in {"sent", "failed", "killed"}
           /\ \E l \in Broken : Alters(cn, w.conn, c, cn[c].up, cn[c].down, l)
<1>1. cn[c].link \in Broken
    BY DEF Link, Broken
<1>2. Alters(cn, cn, c, cn[c].up, cn[c].down, cn[c].link)
    BY DEF Alters
<1>. DEFINE reset == [cn EXCEPT ![c].link = "rst"]
            hung == [cn EXCEPT ![c].link = "hup"]
<1>3. "rst" \in Broken /\ "hup" \in Broken
    BY DEF Broken
<1>4. /\ Alters(cn, reset, c, cn[c].up, cn[c].down, "rst")
      /\ Alters(cn, hung, c, cn[c].up, cn[c].down, "hup")
    BY <1>3, SetLink
<1>. HIDE DEF reset, hung
<1>5. \/ w = [conn |-> reset, rv |-> "sent"]
      \/ w = [conn |-> cn, rv |-> "sent"]
      \/ w = [conn |-> hung, rv |-> "failed"]
      \/ w = [conn |-> cn, rv |-> "killed"]
    <2>1. CASE cn[c].link = "fin"
        BY <2>1 DEF WriteTo, reset
    <2>2. CASE cn[c].link = "rst"
        <3>1. w \in {[conn |-> cn, rv |-> "sent"],
                     [conn |-> hung, rv |-> "failed"],
                     [conn |-> cn, rv |-> "killed"]}
            BY <2>2 DEF WriteTo, hung
        <3>. QED
            BY <3>1
    <2>3. CASE cn[c].link = "hup"
        BY <2>3 DEF WriteTo
    <2>. QED
        BY <1>1, <2>1, <2>2, <2>3 DEF Broken
<1>6. ASSUME NEW cn1, NEW rv \in {"sent", "failed", "killed"}, w = [conn |-> cn1, rv |-> rv],
             NEW l \in Broken, Alters(cn, cn1, c, cn[c].up, cn[c].down, l)
      PROVE  /\ w = [conn |-> w.conn, rv |-> w.rv] /\ w.rv \in {"sent", "failed", "killed"}
             /\ \E k \in Broken : Alters(cn, w.conn, c, cn[c].up, cn[c].down, k)
    <2>1. w.conn = cn1 /\ w.rv = rv
        BY <1>6
    <2>. QED
        BY <1>6, <2>1
<1>. QED
    BY <1>1, <1>2, <1>3, <1>4, <1>5, <1>6

(* What a write of the server does to the connection, and to the server.   *)
LEMMA Sends ==
    ASSUME NEW cn \in [Conn -> Link], NEW c \in Conn, NEW m \in Sent, NEW next,
           NEW w \in WriteTo(cn, c, m), After(w, next)
    PROVE  \/ /\ cn[c].link = "up" /\ srv' = next
              /\ Alters(cn, conn', c, cn[c].up, Append(cn[c].down, m), "up")
           \/ /\ cn[c].link # "up" /\ srv' \in {next, Looping, Dead}
              /\ \E l \in Broken : Alters(cn, conn', c, cn[c].up, cn[c].down, l)
<1>1. cn[c].down \in Seq(Sent)
    BY DEF Link
<1>2. Append(cn[c].down, m) \in Seq(Sent)
    BY <1>1, AppendProperties
<1>3. CASE cn[c].link = "up"
    <2>1. w = [conn |-> [cn EXCEPT ![c].down = Append(@, m)], rv |-> "sent"]
        BY <1>3 DEF WriteTo
    <2>2. conn' = [cn EXCEPT ![c].down = Append(@, m)] /\ srv' = next
        BY <2>1 DEF After
    <2>. QED
        BY <1>3, <2>2, <1>2, SetDown
<1>4. CASE cn[c].link # "up"
    <2>1. /\ w.rv \in {"sent", "failed", "killed"}
          /\ \E l \in Broken : Alters(cn, w.conn, c, cn[c].up, cn[c].down, l)
        BY <1>4, FailedSends
    <2>2. conn' = w.conn /\ srv' \in {next, Looping, Dead}
        BY <2>1 DEF After, Dead
    <2>. QED
        BY <1>4, <2>1, <2>2
<1>. QED
    BY <1>3, <1>4

(* The server closes its end of a connection.                              *)
LEMMA ServerCloses ==
    ASSUME NEW cn \in [Conn -> Link], NEW c \in Conn
    PROVE  Alters(cn, [cn EXCEPT ![c].srv = "closed", ![c].up = <<>>], c, <<>>, cn[c].down, cn[c].link)
<1>. DEFINE mid == [cn EXCEPT ![c].srv = "closed"]
<1>1. Alters(cn, mid, c, cn[c].up, cn[c].down, cn[c].link)
    BY SetServer
<1>. HIDE DEF mid
<1>2. mid \in [Conn -> Link] /\ mid[c].down = cn[c].down /\ mid[c].link = cn[c].link
    BY <1>1 DEF Alters
<1>3. Alters(mid, [mid EXCEPT ![c].up = <<>>], c, <<>>, cn[c].down, cn[c].link)
    BY <1>2, EmptySeq, SetUp
<1>4. Alters(cn, [mid EXCEPT ![c].up = <<>>], c, <<>>, cn[c].down, cn[c].link)
    BY <1>1, <1>3, AltersTwice
<1>. QED
    BY <1>4 DEF mid

(* A peer that leaves.                                                     *)
LEMMA Closes ==
    ASSUME conn \in [Conn -> Link], NEW c \in Conn
    PROVE  \E l \in Broken : Alters(conn, PeerClosed(c), c, conn[c].up, <<>>, l)
<1>. DEFINE l == IF conn[c].down # <<>> THEN "rst"
                 ELSE IF conn[c].peer \in Controller THEN "hup" ELSE "fin"
<1>1. PeerClosed(c) = [conn EXCEPT ![c].link = l, ![c].down = <<>>] /\ l \in Broken
    BY DEF PeerClosed, Broken
<1>. HIDE DEF l
<1>. DEFINE mid == [conn EXCEPT ![c].link = l]
<1>2. Alters(conn, mid, c, conn[c].up, conn[c].down, l)
    BY <1>1, SetLink
<1>. HIDE DEF mid
<1>3. mid \in [Conn -> Link] /\ mid[c].up = conn[c].up /\ mid[c].link = l
    BY <1>2 DEF Alters
<1>4. Alters(mid, [mid EXCEPT ![c].down = <<>>], c, conn[c].up, <<>>, l)
    BY <1>3, EmptySeq, SetDown
<1>5. Alters(conn, [mid EXCEPT ![c].down = <<>>], c, conn[c].up, <<>>, l)
    BY <1>2, <1>4, AltersTwice
<1>6. PeerClosed(c) = [mid EXCEPT ![c].down = <<>>]
    BY <1>1 DEF mid
<1>. QED
    BY <1>1, <1>5, <1>6

(* What one read takes and leaves.                                         *)
Splits(q, b, e) ==
    /\ Len(e) = Len(q) - Len(b)
    /\ \A k \in 1..Len(b) : b[k] = q[k]
    /\ \A k \in 1..Len(e) : e[k] = q[Len(b) + k]

Joined(b, e) == b \o e

LEMMA FirstRead ==
    ASSUME NEW S, NEW q \in Seq(S), NEW b \in Seq(S), NEW e, Len(b) \in 1..Len(q), Splits(q, b, e)
    PROVE  b[1] = q[1] /\ 1 \in DOMAIN q /\ b[1] \in S
<1>1. 1 \in 1..Len(b) /\ 1 \in 1..Len(q)
    OBVIOUS
<1>2. b[1] = q[1]
    BY <1>1 DEF Splits
<1>3. b[1] \in S /\ 1 \in DOMAIN q
    BY <1>1
<1>. QED
    BY <1>2, <1>3

LEMMA ReadsParts ==
    ASSUME NEW S, NEW q \in Seq(S), NEW r \in Reads(q)
    PROVE  /\ r.batch \in Seq(S) /\ r.rest \in Seq(S)
           /\ Len(r.batch) \in 1..Len(q) /\ Splits(q, r.batch, r.rest)
           /\ Joined(r.batch, r.rest) = q
<1>1. PICK n \in 1..Len(q) :
        r = [batch |-> SubSeq(q, 1, n), rest |-> SubSeq(q, n + 1, Len(q))]
    BY DEF Reads
<1>2. r.batch = SubSeq(q, 1, n) /\ r.rest = SubSeq(q, n + 1, Len(q))
    BY <1>1
<1>3. r.batch \in Seq(S) /\ Len(r.batch) = n
    BY <1>2
<1>4. r.rest \in Seq(S) /\ Len(r.rest) = Len(q) - n
    BY <1>2
<1>5. \A k \in 1..n : r.batch[k] = q[k]
    BY <1>2
<1>6. \A k \in 1..(Len(q) - n) : r.rest[k] = q[n + k]
    BY <1>2
<1>7. Joined(r.batch, r.rest) = q
    <2>1. SubSeq(q, 1, n) \o SubSeq(q, n + 1, Len(q)) = q
        OBVIOUS
    <2>. QED
        BY <1>2, <2>1, Zenon DEF Joined
<1>. QED
    BY <1>3, <1>4, <1>5, <1>6, <1>7 DEF Splits

(* A read of a single text takes it.                                       *)
LEMMA Single ==
    ASSUME NEW S, NEW q \in Seq(S), NEW b \in Seq(S), NEW e \in Seq(S), Splits(q, b, e)
    PROVE  Len(q) = 1 /\ Len(b) # 0 => b = q /\ e = <<>>
<1>. SUFFICES ASSUME Len(q) = 1, Len(b) # 0
              PROVE  b = q /\ e = <<>>
    OBVIOUS
<1>1. Len(b) \in Nat /\ Len(e) \in Nat /\ Len(e) = Len(q) - Len(b)
    BY DEF Splits
<1>2. Len(b) = 1 /\ Len(e) = 0
    BY <1>1
<1>3. b[1] = q[1]
    BY <1>2 DEF Splits
<1>4. e = <<>>
    BY <1>2, EmptySeq
<1>5. b = q
    BY <1>2, <1>3, SeqEqual
<1>. QED
    BY <1>4, <1>5

LEMMA ReadsOne ==
    ASSUME NEW S, NEW m \in S, NEW r \in Reads(<<m>>)
    PROVE  r.batch = <<m>> /\ r.rest = <<>> /\ r.batch[1] = m
<1>1. <<m>> \in Seq(S) /\ Len(<<m>>) = 1 /\ <<m>>[1] = m
    OBVIOUS
<1>2. /\ r.batch \in Seq(S) /\ r.rest \in Seq(S) /\ Splits(<<m>>, r.batch, r.rest)
      /\ Len(r.batch) \in 1..Len(<<m>>)
    BY <1>1, ReadsParts
<1>3. Len(r.batch) # 0
    BY <1>2
<1>4. r.batch = <<m>> /\ r.rest = <<>>
    BY <1>1, <1>2, <1>3, Single
<1>. QED
    BY <1>1, <1>4, Zenon

(* Nothing is read from an empty queue.                                    *)
LEMMA ReadsNone == Reads(<<>>) = {}
BY DEF Reads

(* Where what is left was.                                                 *)
LEMMA RestPositions ==
    ASSUME NEW S, NEW q \in Seq(S), NEW b \in Seq(S), NEW e \in Seq(S), Splits(q, b, e)
    PROVE  /\ \A k \in DOMAIN e : /\ Len(b) + k \in DOMAIN q /\ e[k] = q[Len(b) + k]
                                  /\ Len(b) + k = Len(q) <=> k = Len(e)
                                  /\ Len(b) # 0 => Len(b) + k # 1
           /\ \A j, k \in DOMAIN e : Len(b) + j = Len(b) + k => j = k
<1>1. Len(b) \in Nat /\ Len(e) \in Nat /\ Len(q) \in Nat
    BY LenProperties
<1>2. Len(e) = Len(q) - Len(b)
    BY DEF Splits
<1>3. ASSUME NEW k \in 1..Len(e)
      PROVE  /\ Len(b) + k \in 1..Len(q)
             /\ Len(b) + k = Len(q) <=> k = Len(e)
             /\ Len(b) # 0 => Len(b) + k # 1
    BY <1>1, <1>2
<1>4. ASSUME NEW j \in 1..Len(e), NEW k \in 1..Len(e)
      PROVE  Len(b) + j = Len(b) + k => j = k
    BY <1>1
<1>5. \A k \in 1..Len(e) : e[k] = q[Len(b) + k]
    BY DEF Splits
<1>6. DOMAIN e = 1..Len(e) /\ DOMAIN q = 1..Len(q)
    BY LenProperties
<1>. QED
    BY <1>3, <1>4, <1>5, <1>6, Zenon

(* What a reader has and what it has yet to read stay the same together.   *)
LEMMA Rejoined ==
    ASSUME NEW S, NEW img \in Seq(S), NEW q \in Seq(S), NEW b \in Seq(S), NEW e \in Seq(S)
    PROVE  Joined(b, e) = q => Joined(Joined(img, b), e) = Joined(img, q)
<1>1. (img \o b) \o e = img \o (b \o e)
    BY ConcatAssociative, SMTT(30)
<1>. QED
    BY <1>1, Zenon DEF Joined

LEMMA ReadKeeps ==
    ASSUME NEW S, NEW img \in Seq(S), NEW q \in Seq(S), NEW r \in Reads(q)
    PROVE  Joined(Joined(img, r.batch), r.rest) = Joined(img, q) /\ Joined(img, r.batch) \in Seq(S)
<1>1. r.batch \in Seq(S) /\ r.rest \in Seq(S) /\ Joined(r.batch, r.rest) = q
    BY ReadsParts
<1>2. Joined(Joined(img, r.batch), r.rest) = Joined(img, q)
    BY <1>1, Rejoined
<1>3. img \o r.batch \in Seq(S)
    BY <1>1
<1>. QED
    BY <1>2, <1>3 DEF Joined

(* A reader that has the whole of it has nothing left to read.             *)
LEMMA ReadAll ==
    ASSUME NEW S, NEW img \in Seq(S), NEW q \in Seq(S), Len(img) = Len(img \o q)
    PROVE  q = <<>> /\ img \o q = img
OBVIOUS

(* The data of an image.                                                   *)
LEMMA BytesProperties ==
    ASSUME NEW c \in PCs, NEW shot \in Nat, NEW len \in ImageSize
    PROVE  /\ len \in Nat \ {0}
           /\ Bytes(c, shot, len) \in Seq(Byte) /\ Len(Bytes(c, shot, len)) = len
           /\ \A k \in 1..len : Bytes(c, shot, len)[k].kind = "byte"
           /\ Bytes(c, shot, len)[1].shot = shot
           /\ Bytes(c, shot, len) # <<>>
<1>1. len \in Nat \ {0}
    BY ScreenshotAssumption
<1>2. \A k \in 1..len : [kind |-> "byte", pc |-> c, shot |-> shot, k |-> k, len |-> len] \in Byte
    BY <1>1 DEF Byte
<1>3. Bytes(c, shot, len) \in Seq(Byte) /\ Len(Bytes(c, shot, len)) = len
    BY <1>1, <1>2, IsASeq DEF Bytes
<1>. QED
    BY <1>1, <1>3 DEF Bytes

(* Where what is appended goes.                                            *)
LEMMA Appended ==
    ASSUME NEW S, NEW q \in Seq(S), NEW m \in S
    PROVE  /\ Append(q, m) \in Seq(S) /\ Len(Append(q, m)) = Len(q) + 1
           /\ \A k \in DOMAIN Append(q, m) : \/ k \in DOMAIN q /\ Append(q, m)[k] = q[k]
                                             \/ k = Len(q) + 1 /\ Append(q, m)[k] = m
           /\ \A k \in DOMAIN q : k # Len(q) + 1
OBVIOUS

(* The rest of image data is image data.                                   *)
LEMMA ConcatTail ==
    ASSUME NEW S, NEW T, NEW a \in Seq(S), NEW b \in Seq(T), a \o b \in Seq(S)
    PROVE  b \in Seq(S)
<1>. DEFINE q == a \o b
<1>1. Len(q) = Len(a) + Len(b) /\ \A k \in 1..Len(b) : q[Len(a) + k] = b[k]
    OBVIOUS
<1>2. q \in Seq(S)
    OBVIOUS
<1>. HIDE DEF q
<1>3. \A k \in 1..Len(b) : Len(a) + k \in 1..Len(q)
    BY <1>1
<1>4. \A k \in 1..Len(b) : b[k] \in S
    BY <1>1, <1>2, <1>3
<1>. QED
    BY <1>4, IsASeq

-----------------------------------------------------------------------------
(* The agents' part.  Nothing is due when no text of the later stages is   *)
(* on its way to the agent.                                                *)
Here(c, s) == s.at = "image" /\ s.pc = c
NoneDue(down) == \A k \in DOMAIN down : ~IsDue(down[k])

(* The texts that the programs write.                                      *)
IsText(m, kind, stage) ==
    /\ m \in Sent /\ m.kind = kind /\ m.stage = stage
    /\ kind = "request" => m \in Requests

LEMMA RequestsOK ==
    ASSUME NEW c \in {0} \cup PCs
    PROVE  /\ IsText(ShotRequest("lock", "none", c), "request", "none")
           /\ IsText(ShotRequest("screenshot", "request", c), "request", "request")
           /\ IsText(ShotRequest("screenshot", "transfer", c), "request", "transfer")
           /\ IsText(ShotRequest("screenshot", "finished", c), "request", "finished")
           /\ ShotRequest("screenshot", "request", c).id = c
           /\ ShotRequest("screenshot", "transfer", c).id = c
           /\ ShotRequest("screenshot", "finished", c).id = c
BY DEF ShotRequest, Requests, Sent, IsText

LEMMA ResponsesOK ==
    ASSUME NEW len \in {0} \cup ImageSize
    PROVE  /\ IsText(Locked, "response", "none")
           /\ IsText(ShotResponse("screenshot", "request", len), "response", "request")
           /\ IsText(ShotResponse("screenshot", "finished", len), "response", "finished")
           /\ ShotResponse("screenshot", "request", len).len = len
BY DEF ShotResponse, Responses, Sent, IsText, Locked

(* What the agent sent still fits when the server does something else.     *)
LEMMA UpSame ==
    ASSUME NEW c, NEW a, NEW up, NEW s, NEW s1, NEW n \in Nat, NEW n1 \in Nat, n <= n1,
           UpFits(c, a, up, s, n), Here(c, s) <=> Here(c, s1),
           Here(c, s) => s1.img = s.img /\ s1.len = s.len
    PROVE  UpFits(c, a, up, s1, n1)
<1>1. Exchanging(a, n) => Exchanging(a, n1)
    BY DEF Exchanging
<1>. QED
    BY <1>1 DEF UpFits, Here

LEMMA DownSame ==
    ASSUME NEW c, NEW a, NEW down, NEW s, NEW s1,
           DownFits(c, a, down, s), Here(c, s) <=> Here(c, s1)
    PROVE  DownFits(c, a, down, s1)
BY DEF DownFits, Here

(* A server that is not at an image reads, and keeps the text to itself.   *)
LEMMA UpRest ==
    ASSUME NEW c, NEW a, NEW up \in Seq(Sent), NEW s, NEW n \in Nat, ~Here(c, s),
           UpFits(c, a, up, s, n), NEW r \in Reads(up)
    PROVE  UpFits(c, a, r.rest, s, n)
<1>2. \A k \in DOMAIN r.rest :
        /\ Len(r.batch) + k \in DOMAIN up /\ r.rest[k] = up[Len(r.batch) + k]
        /\ Len(r.batch) + k = Len(up) <=> k = Len(r.rest)
    BY ReadsParts, RestPositions
<1>3. CASE a.at = "finished"
    <2>1. up = <<>>
        BY <1>3 DEF UpFits, Here
    <2>. QED
        BY <2>1, ReadsNone
<1>4. CASE a.at = "idle"
    BY <1>2, <1>4 DEF UpFits, Here
<1>5. CASE a.at = "transfer"
    BY <1>2, <1>5 DEF UpFits, Here
<1>6. CASE a.at \notin {"idle", "transfer", "finished"}
    BY <1>6 DEF UpFits
<1>. QED
    BY <1>3, <1>4, <1>5, <1>6

(* It finds the offer of an image alone in what it reads, and last.        *)
LEMMA UpOffer ==
    ASSUME NEW c, NEW a, NEW up \in Seq(Sent), NEW s, NEW n \in Nat, ~Here(c, s),
           a.at \in {"idle", "transfer", "finished"},
           UpFits(c, a, up, s, n), NEW r \in Reads(up),
           Parses(r.batch), r.batch[1].uri = "screenshot"
    PROVE  /\ a.at = "transfer" /\ r.rest = <<>> /\ Exchanging(a, n)
           /\ r.batch[1].len = a.len /\ IsOffer(r.batch[1])
           /\ up[1] = r.batch[1] /\ 1 \in DOMAIN up
<1>1. /\ r.rest \in Seq(Sent) /\ Len(r.rest) = Len(up) - Len(r.batch)
      /\ Len(r.batch) \in 1..Len(up) /\ Len(r.batch) = 1
      /\ \A k \in 1..Len(r.batch) : r.batch[k] = up[k]
    BY ReadsParts DEF Splits, Parses
<1>2. up[1] = r.batch[1] /\ 1 \in DOMAIN up
    BY <1>1
<1>3. up # <<>>
    BY ReadsNone
<1>4. Locked.uri = "lock"
    BY DEF Locked, ShotResponse
<1>5. a.at = "transfer"
    BY <1>2, <1>3, <1>4 DEF UpFits, Here
<1>6. Exchanging(a, n) /\ 1 = Len(up) /\ up[1] = ShotResponse("screenshot", "request", a.len)
    BY <1>2, <1>4, <1>5 DEF UpFits, Here
<1>7. r.rest = <<>>
    BY <1>1, <1>6, EmptySeq
<1>. QED
    BY <1>2, <1>5, <1>6, <1>7 DEF IsOffer, ShotResponse

(* The server asks for the transfer.                                       *)
LEMMA UpStarts ==
    ASSUME NEW c, NEW a, NEW s, NEW n, a.at = "transfer", Exchanging(a, n),
           s = [at |-> "image", pc |-> c, len |-> a.len, img |-> <<>>]
    PROVE  UpFits(c, a, <<>>, s, n)
BY DEF UpFits

(* No image is on its way but to the server that reads it.                 *)
LEMMA UpEmpty ==
    ASSUME NEW c, NEW a, NEW s, NEW n, ~Here(c, s),
           a.at \in {"transfer", "finished"}, Exchanging(a, n)
    PROVE  UpFits(c, a, <<>>, s, n)
BY DEF UpFits, Here

(* What the server has read of the image is a part of it.                  *)
LEMMA UpReads ==
    ASSUME NEW c \in PCs, NEW a, NEW up \in Seq(Sent), NEW s, NEW n \in Nat, s.img \in Image,
           Here(c, s), a.at \in {"idle", "transfer", "finished"},
           UpFits(c, a, up, s, n), NEW r \in Reads(up), NEW s1, s1.at = s.at, s1.pc = s.pc,
           s1.len = s.len, s1.img = Joined(s.img, r.batch)
    PROVE  UpFits(c, a, r.rest, s1, n) /\ s1.img \in Image
<1>1. up # <<>>
    BY ReadsNone
<1>2. a.at = "finished"
    BY <1>1 DEF UpFits, Here
<1>3. Exchanging(a, n) /\ s.len = a.len /\ s.img \o up = Bytes(c, a.shot, a.len)
    BY <1>2 DEF UpFits, Here
<1>7. Exchanging(a, n)
    BY <1>2 DEF UpFits, Here
<1>4. Bytes(c, a.shot, a.len) \in Seq(Byte)
    <2>1. a.shot \in Nat /\ a.len \in ImageSize
        BY <1>7 DEF Exchanging
    <2>. QED
        BY <2>1, BytesProperties
<1>5. up \in Seq(Byte)
    <2>1. s.img \in Seq(Byte)
        BY DEF Image
    <2>2. s.img \o up \in Seq(Byte)
        BY <1>3, <1>4, Zenon
    <2>. QED
        BY <2>1, <2>2, ConcatTail
<1>6. Joined(s1.img, r.rest) = Joined(s.img, up) /\ s1.img \in Seq(Byte)
    <2>1. s.img \in Seq(Byte)
        BY DEF Image
    <2>2. /\ Joined(Joined(s.img, r.batch), r.rest) = Joined(s.img, up)
          /\ Joined(s.img, r.batch) \in Seq(Byte)
        BY <1>5, <2>1, ReadKeeps
    <2>. QED
        BY <2>2, Zenon
<1>. QED
    BY <1>2, <1>3, <1>6 DEF UpFits, Here, Image, Joined

(* When it has read as much as was announced it has the image.             *)
LEMMA UpWhole ==
    ASSUME NEW c \in PCs, NEW a, NEW up \in Seq(Sent), NEW s, NEW n \in Nat, s.img \in Image,
           Here(c, s), a.at \in {"idle", "transfer", "finished"},
           UpFits(c, a, up, s, n), Len(s.img) = s.len
    PROVE  /\ a.at = "finished" /\ up = <<>> /\ Exchanging(a, n)
           /\ s.len = a.len /\ s.img = Bytes(c, a.shot, a.len)
<1>1. a.at = "finished"
    <2>1. a.at = "transfer" => a.len \in ImageSize /\ s.img = <<>> /\ s.len = a.len
        BY DEF UpFits, Here, Exchanging
    <2>2. a.at = "transfer" => s.len # 0
        BY <2>1, ScreenshotAssumption
    <2>3. a.at # "transfer"
        BY <2>1, <2>2, EmptySeq
    <2>. QED
        BY <2>3 DEF UpFits, Here
<1>7. Exchanging(a, n)
    BY <1>1 DEF UpFits, Here
<1>2. Exchanging(a, n) /\ s.len = a.len /\ s.img \o up = Bytes(c, a.shot, a.len)
    BY <1>1 DEF UpFits, Here
<1>3. Bytes(c, a.shot, a.len) \in Seq(Byte) /\ Len(Bytes(c, a.shot, a.len)) = a.len
    <2>1. a.shot \in Nat /\ a.len \in ImageSize
        BY <1>7 DEF Exchanging
    <2>. QED
        BY <2>1, BytesProperties
<1>4. up \in Seq(Byte)
    <2>1. s.img \in Seq(Byte)
        BY DEF Image
    <2>2. s.img \o up \in Seq(Byte)
        BY <1>2, <1>3, Zenon
    <2>. QED
        BY <2>1, <2>2, ConcatTail
<1>5. Len(s.img) = Len(s.img \o up)
    BY <1>2, <1>3, Zenon
<1>6. up = <<>> /\ s.img \o up = s.img
    BY <1>4, <1>5, ReadAll DEF Image
<1>. QED
    BY <1>1, <1>2, <1>6, Zenon

(* The server gives up the image, whose agent has gone.                    *)
LEMMA UpEnds ==
    ASSUME NEW c, NEW a, NEW s, NEW s1, NEW n, UpFits(c, a, <<>>, s, n), ~Here(c, s1)
    PROVE  UpFits(c, a, <<>>, s1, n)
BY DEF UpFits, Here

(* The agent answers a request that is not of a screenshot.                *)
LEMMA UpAnswers ==
    ASSUME NEW c, NEW a, NEW up \in Seq(Sent), NEW s, NEW n, a.at = "idle",
           UpFits(c, a, up, s, n), NEW up1 \in Seq(Sent), up1 = Append(up, Locked)
    PROVE  UpFits(c, a, up1, s, n)
<1>1. \A k \in DOMAIN up1 : (k \in DOMAIN up /\ up1[k] = up[k]) \/ up1[k] = Locked
    OBVIOUS
<1>. QED
    BY <1>1 DEF UpFits, Here

(* It takes a picture and offers it.                                       *)
LEMMA UpOffers ==
    ASSUME NEW c, NEW a, NEW up \in Seq(Sent), NEW s, NEW n, a.at = "idle",
           UpFits(c, a, up, s, n), NEW m \in Sent, NEW a1, NEW n1,
           a1.at = "transfer", m = ShotResponse("screenshot", "request", a1.len),
           Exchanging(a1, n1)
    PROVE  UpFits(c, a1, Append(up, m), s, n1)
<1>1. /\ \A k \in DOMAIN Append(up, m) :
            \/ k \in DOMAIN up /\ Append(up, m)[k] = up[k]
            \/ k = Len(up) + 1 /\ Append(up, m)[k] = m
      /\ Len(Append(up, m)) = Len(up) + 1
    BY Appended
<1>2. ~(s.at = "image" /\ s.pc = c) /\ \A k \in DOMAIN up : up[k] = Locked
    BY DEF UpFits
<1>3. \A k \in DOMAIN Append(up, m) :
        \/ Append(up, m)[k] = Locked
        \/ k = Len(Append(up, m)) /\ Append(up, m)[k] = ShotResponse("screenshot", "request", a1.len)
    BY <1>1, <1>2, Zenon
<1>. QED
    BY <1>2, <1>3, Zenon DEF UpFits

(* It sends the image.                                                     *)
LEMMA UpTransfers ==
    ASSUME NEW c, NEW a, NEW up, NEW s, NEW n, a.at = "transfer", Here(c, s),
           UpFits(c, a, up, s, n), NEW a1, a1.at = "finished", a1.shot = a.shot, a1.len = a.len
    PROVE  up = <<>> /\ UpFits(c, a1, Bytes(c, a.shot, a.len), s, n)
<1>1. up = <<>> /\ s.img = <<>> /\ s.len = a.len /\ Exchanging(a, n)
    BY DEF UpFits, Here
<1>2. Exchanging(a1, n)
    BY <1>1 DEF Exchanging
<1>3. <<>> \o Bytes(c, a.shot, a.len) = Bytes(c, a.shot, a.len)
    BY ConcatEmptySeq, IsASeq DEF Bytes
<1>. QED
    BY <1>1, <1>2, <1>3 DEF UpFits, Here

(* It is done with it.                                                     *)
LEMMA UpFinishes ==
    ASSUME NEW c, NEW a, NEW up, NEW s, NEW n, a.at = "finished", ~Here(c, s),
           UpFits(c, a, up, s, n), NEW a1, a1.at = "idle"
    PROVE  up = <<>> /\ UpFits(c, a1, up, s, n)
BY DEF UpFits, Here

(* What is left of a queue has what it had; nothing more is due.           *)
LEMMA DownRest ==
    ASSUME NEW c, NEW a, NEW down \in Seq(Sent), NEW s, DownFits(c, a, down, s),
           NEW r \in Reads(down)
    PROVE  /\ DownFits(c, a, r.rest, s)
           /\ r.batch[1] = down[1] /\ 1 \in DOMAIN down
           /\ IsDue(down[1]) => NoneDue(r.rest)
<1>1. r.batch \in Seq(Sent) /\ r.rest \in Seq(Sent) /\ Splits(down, r.batch, r.rest)
      /\ Len(r.batch) \in 1..Len(down)
    BY ReadsParts
<1>2. \A k \in DOMAIN r.rest : Len(r.batch) + k \in DOMAIN down /\ r.rest[k] = down[Len(r.batch) + k]
    BY <1>1, RestPositions
<1>3. r.batch[1] = down[1] /\ 1 \in DOMAIN down
    BY <1>1, FirstRead
<1>4. Len(r.batch) # 0
    BY <1>1
<1>5. \A k \in DOMAIN r.rest : Len(r.batch) + k # 1
    BY <1>1, <1>4, RestPositions
<1>6. \A j, k \in DOMAIN r.rest : Len(r.batch) + j = Len(r.batch) + k => j = k
    BY <1>1, RestPositions
<1>7. DownFits(c, a, r.rest, s)
    <2>1. \A k \in DOMAIN r.rest :
            /\ r.rest[k] \in Requests
            /\ r.rest[k].stage = "transfer" => a.at = "transfer" /\ s.at = "image" /\ s.pc = c
            /\ r.rest[k].stage = "finished" => a.at = "finished" /\ ~(s.at = "image" /\ s.pc = c)
        BY <1>2 DEF DownFits
    <2>2. ASSUME NEW j \in DOMAIN r.rest, NEW k \in DOMAIN r.rest,
                 IsDue(r.rest[j]), IsDue(r.rest[k])
          PROVE  j = k
        <3>1. Len(r.batch) + j = Len(r.batch) + k
            BY <1>2, <2>2, Zenon DEF DownFits
        <3>. QED
            BY <1>6, <3>1
    <2>. QED
        BY <2>1, <2>2 DEF DownFits
<1>8. IsDue(down[1]) => NoneDue(r.rest)
    BY <1>2, <1>3, <1>5 DEF DownFits, NoneDue
<1>. QED
    BY <1>3, <1>7, <1>8

(* Requests of which none is due fit any state.                            *)
LEMMA DownNoneDue ==
    ASSUME NEW c, NEW a, NEW a1, NEW down, NEW s, NEW s1, DownFits(c, a, down, s), NoneDue(down)
    PROVE  DownFits(c, a1, down, s1)
BY DEF DownFits, NoneDue, IsDue

(* What is due is due in one state only.                                   *)
LEMMA DownDue ==
    ASSUME NEW c, NEW a, NEW down, NEW s, DownFits(c, a, down, s)
    PROVE  /\ NoneDue(down) \/ (a.at = "transfer" /\ Here(c, s)) \/ (a.at = "finished" /\ ~Here(c, s))
           /\ \A k \in DOMAIN down :
                /\ down[k].stage = "transfer" => a.at = "transfer" /\ Here(c, s)
                /\ down[k].stage = "finished" => a.at = "finished" /\ ~Here(c, s)
BY DEF DownFits, NoneDue, IsDue, Here

(* The server sends a request that is not of the later stages,             *)
LEMMA DownAsks ==
    ASSUME NEW c, NEW a, NEW down \in Seq(Sent), NEW s, DownFits(c, a, down, s),
           NEW m \in Requests, ~IsDue(m), NEW down1, down1 = Append(down, m)
    PROVE  DownFits(c, a, down1, s)
<1>1. \A k \in DOMAIN down1 : (k \in DOMAIN down /\ down1[k] = down[k]) \/ down1[k] = m
    OBVIOUS
<1>. QED
    BY <1>1 DEF DownFits, IsDue

(* or one of them, at its time.                                            *)
LEMMA DownCalls ==
    ASSUME NEW c, NEW a, NEW down \in Seq(Sent), NEW s, DownFits(c, a, down, s), NoneDue(down),
           NEW m \in Requests, NEW s1, NEW down1, down1 = Append(down, m),
           \/ m.stage = "transfer" /\ a.at = "transfer" /\ Here(c, s1)
           \/ m.stage = "finished" /\ a.at = "finished" /\ ~Here(c, s1)
    PROVE  DownFits(c, a, down1, s1)
<1>1. \A k \in DOMAIN down1 :
        \/ k \in DOMAIN down /\ down1[k] = down[k]
        \/ k = Len(down) + 1 /\ down1[k] = m
    <2>1. m \in Sent
        BY DEF Sent
    <2>2. \A k \in DOMAIN Append(down, m) :
            \/ k \in DOMAIN down /\ Append(down, m)[k] = down[k]
            \/ k = Len(down) + 1 /\ Append(down, m)[k] = m
        BY <2>1, Appended
    <2>. QED
        BY <2>2, Zenon
<1>2. m.stage = "transfer" => m.stage # "finished"
    OBVIOUS
<1>3. \A k \in DOMAIN down1 :
         /\ down1[k] \in Requests
         /\ down1[k].stage = "transfer" => a.at = "transfer" /\ s1.at = "image" /\ s1.pc = c
         /\ down1[k].stage = "finished" => a.at = "finished" /\ ~(s1.at = "image" /\ s1.pc = c)
    BY <1>1, <1>2 DEF DownFits, NoneDue, IsDue, Here
<1>4. \A j, k \in DOMAIN down1 : IsDue(down1[j]) /\ IsDue(down1[k]) => j = k
    BY <1>1 DEF NoneDue
<1>. QED
    BY <1>3, <1>4 DEF DownFits

LEMMA DownEmpty ==
    ASSUME NEW c, NEW a, NEW s
    PROVE  DownFits(c, a, <<>>, s)
BY DEF DownFits

-----------------------------------------------------------------------------
(* The worker's part.  What it got stays, as more pictures are taken.      *)
LEMMA GotLater ==
    ASSUME NEW n \in Nat, NEW n1 \in Nat, n <= n1, NEW w, w.since \in Nat
    PROVE  /\ \A img, len : Got(w, img, len, n) => Got(w, img, len, n1)
           /\ \A down, f : Reading(w, down, f, n) => Reading(w, down, f, n1)
           /\ \A up, down, s : Talks(w, up, down, s, n) => Talks(w, up, down, s, n1)
<1>1. (w.since + 1)..n \subseteq (w.since + 1)..n1
    OBVIOUS
<1>2. ASSUME NEW img, NEW len, Got(w, img, len, n)
      PROVE  Got(w, img, len, n1)
    BY <1>1, <1>2, Zenon DEF Got
<1>3. ASSUME NEW down, NEW f, Reading(w, down, f, n)
      PROVE  Reading(w, down, f, n1)
    BY <1>2, <1>3 DEF Reading
<1>4. ASSUME NEW up, NEW down, NEW s, Talks(w, up, down, s, n)
      PROVE  Talks(w, up, down, s, n1)
    BY <1>2, <1>4 DEF Talks
<1>. QED
    BY <1>2, <1>3, <1>4

(* To a server that waits it does not matter what it read last.            *)
LEMMA TalksLooping ==
    ASSUME NEW w, NEW up, NEW down, NEW s, NEW s1, NEW n, Talks(w, up, down, s, n),
           s.at \in {"loop", "image"}, s1.at = s.at
    PROVE  Talks(w, up, down, s1, n)
BY DEF Talks

-----------------------------------------------------------------------------
(* What the steps leave alone.                                             *)
LEMMA Places ==
    /\ Worker \in Conn /\ PCs \subseteq Conn /\ Worker \notin PCs /\ MaxConn \in Nat
    /\ \A c \in Conn : c = Worker \/ c \in PCs
    /\ WorkerFd \in Fd
BY ScreenshotAssumption, MaxConnAssumption DEF Worker, PCs, Conn, WorkerFd, Fd

(* The server does not go on to another part of the dialogue.              *)
SameTalk ==
    \/ srv' = srv
    \/ srv.at = "loop" /\ srv'.at = "loop"
    \/ srv.at = "image" /\ srv'.at = "image" /\ srv'.pc = srv.pc

LEMMA FramePage ==
    ASSUME PageOK, page' = page, shots \in Nat, shots' \in Nat, shots <= shots'
    PROVE  PageOK'
<1>1. 1..shots \subseteq 1..shots'
    OBVIOUS
<1>2. \A img, c : IsImageOf(img, c) => IsImageOf(img, c)'
    BY <1>1, Zenon DEF IsImageOf
<1>. QED
    BY <1>2 DEF PageOK

LEMMA FrameWorker ==
    ASSUME TypeOK, WorkerFits, worker' = worker,
           conn'[Worker].down = conn[Worker].down,
           conn'[Worker].link = "up" <=> conn[Worker].link = "up",
           worker.at = "end" /\ WorkerUp => file' = file,
           srv.at = "dead" => srv'.at = "dead", shots' \in Nat, shots <= shots'
    PROVE  WorkerFits'
<1>1. worker.since \in Nat /\ shots \in Nat
    BY DEF TypeOK, WorkerState
<1>4. worker.since <= shots'
    BY <1>1 DEF WorkerFits
<1>2. CASE WorkerUp
    <2>1. Reading(worker, conn[Worker].down, file, shots')
        BY <1>1, <1>2, GotLater DEF WorkerFits
    <2>2. Reading(worker, conn[Worker].down, file', shots')
        BY <1>2, <2>1 DEF Reading
    <2>. QED
        BY <1>2, <1>4, <2>2 DEF WorkerFits, WorkerUp
<1>3. CASE ~WorkerUp
    BY <1>3, <1>4 DEF WorkerFits, WorkerUp
<1>. QED
    BY <1>2, <1>3

LEMMA FrameDialogue ==
    ASSUME TypeOK, Dialogue, worker' = worker, SameTalk,
           conn'[Worker].up = conn[Worker].up, conn'[Worker].down = conn[Worker].down,
           conn'[Worker].link = "up" <=> conn[Worker].link = "up",
           shots' \in Nat, shots <= shots'
    PROVE  Dialogue'
<1>. SUFFICES ASSUME WorkerUp, srv.at # "dead"
              PROVE  Talks(worker, conn[Worker].up, conn[Worker].down, srv', shots')
    BY DEF Dialogue, WorkerUp, SameTalk
<1>1. worker.since \in Nat /\ shots \in Nat
    BY DEF TypeOK, WorkerState
<1>2. Talks(worker, conn[Worker].up, conn[Worker].down, srv, shots')
    BY <1>1, GotLater DEF Dialogue
<1>. QED
    BY <1>2, TalksLooping DEF SameTalk

LEMMA FramePicture ==
    ASSUME TypeOK, WorkerFits, OnePicture, worker' = worker,
           SameTalk,
           conn'[Worker].up = conn[Worker].up, conn'[Worker].down = conn[Worker].down,
           conn'[Worker].link = "up" <=> conn[Worker].link = "up",
           \A c \in PCs : /\ NoAsk(conn[c].down) => NoAsk(conn'[c].down)
                          /\ OneAsk(conn[c].down) => OneAsk(conn'[c].down)
                          /\ NoOffer(conn[c].up) => NoOffer(conn'[c].up)
                          /\ agt'[c].shot = agt[c].shot
    PROVE  OnePicture'
<1>. SUFFICES ASSUME WorkerUp, srv.at # "dead"
              PROVE  OnePicture'
    BY DEF OnePicture, WorkerUp, SameTalk
<1>1. Waiting' <=> Waiting
    BY DEF Waiting, SameTalk
<1>2. worker.at = "answer" => worker.asked \in PCs
    BY DEF WorkerFits, Reading
<1>3. \A c \in PCs : ~(Waiting /\ c = worker.asked) => NoAsk(conn'[c].down) /\ NoOffer(conn'[c].up)
    BY DEF OnePicture
<1>4. Waiting => \/ NoOffer(conn'[worker.asked].up) /\ OneAsk(conn'[worker.asked].down)
                 \/ NoAsk(conn'[worker.asked].down) /\ agt'[worker.asked].shot > worker.since
    BY <1>2 DEF OnePicture, Waiting
<1>5. worker.at = "answer" /\ srv'.at = "image" =>
            srv'.pc = worker.asked /\ agt'[worker.asked].shot > worker.since
    BY <1>2 DEF OnePicture, SameTalk
<1>. QED
    BY <1>1, <1>3, <1>4, <1>5 DEF OnePicture

LEMMA FrameAgents ==
    ASSUME AgentsFit, TypeOK, shots' = shots,
           \A c \in PCs : /\ conn'[c].up = conn[c].up /\ conn'[c].down = conn[c].down
                          /\ agt'[c] = agt[c]
                          /\ Here(c, srv') <=> Here(c, srv)
                          /\ Here(c, srv) => srv'.img = srv.img /\ srv'.len = srv.len
    PROVE  AgentsFit'
<1>1. ASSUME NEW c \in PCs
      PROVE  UpFits(c, agt[c], conn[c].up, srv', shots) /\ DownFits(c, agt[c], conn[c].down, srv')
    <2>1. shots \in Nat /\ shots <= shots
        BY DEF TypeOK
    <2>2. UpFits(c, agt[c], conn[c].up, srv, shots) /\ DownFits(c, agt[c], conn[c].down, srv)
        BY DEF AgentsFit
    <2>. QED
        BY <2>1, <2>2, UpSame, DownSame
<1>. QED
    BY <1>1 DEF AgentsFit

LEMMA FrameNet ==
    ASSUME NetOK, NEW c \in Conn, NEW up, NEW down, NEW link,
           Alters(conn, conn', c, up, down, link), fdtab'[WorkerFd] = fdtab[WorkerFd],
           link # "up" => down = <<>>,
           c = Worker => \A n \in DOMAIN up : up[n] \in Requests
    PROVE  NetOK'
<1>1. \A d \in Conn : conn'[d].link # "up" => conn'[d].down = <<>>
    BY DEF NetOK, Alters
<1>2. Worker \in Conn
    BY Places
<1>3. CASE c = Worker
    BY <1>1, <1>3 DEF NetOK, Alters
<1>4. CASE c # Worker
    <2>1. conn'[Worker] = conn[Worker]
        BY <1>2, <1>4 DEF Alters
    <2>. QED
        BY <1>1, <2>1 DEF NetOK
<1>. QED
    BY <1>3, <1>4

-----------------------------------------------------------------------------
(* The steps of the agents, and those that end a connection.  The worker   *)
(* and the server's dialogue with it stay as they are.                     *)
LEMMA Frames ==
    ASSUME IInv, UNCHANGED <<worker, file, page>>,
           SameTalk,
           NEW c \in PCs, NEW up, NEW down, NEW link, Alters(conn, conn', c, up, down, link),
           link # "up" => down = <<>>, fdtab'[WorkerFd] = fdtab[WorkerFd],
           shots' \in Nat, shots <= shots'
    PROVE  NetOK' /\ WorkerFits' /\ Dialogue' /\ PageOK'
<1>1. Worker \in Conn /\ c \in Conn /\ c # Worker
    BY Places
<1>2. conn'[Worker] = conn[Worker]
    BY <1>1 DEF Alters
<1>3. TypeOK /\ shots \in Nat
    BY DEF IInv, TypeOK
<1>4. NetOK'
    BY <1>1, FrameNet DEF IInv
<1>5. WorkerFits'
    <2>1. srv.at = "dead" => srv'.at = "dead"
        BY DEF SameTalk
    <2>. QED
        BY <1>2, <1>3, <2>1, FrameWorker DEF IInv
<1>6. Dialogue'
    BY <1>2, <1>3, FrameDialogue DEF IInv, SameTalk
<1>7. PageOK'
    BY <1>3, FramePage DEF IInv
<1>. QED
    BY <1>4, <1>5, <1>6, <1>7

(* A step that only drops what a PC had yet to read or send.               *)
LEMMA Drops ==
    ASSUME IInv, UNCHANGED worker, NEW c \in PCs,
           SameTalk, NEW up, NEW down, NEW link,
           Alters(conn, conn', c, up, down, link),
           NoAsk(conn[c].down) => NoAsk(down), OneAsk(conn[c].down) => OneAsk(down),
           NoOffer(conn[c].up) => NoOffer(up), \A d \in PCs : agt'[d].shot = agt[d].shot
    PROVE  OnePicture'
<1>1. Worker \in Conn /\ c \in Conn /\ c # Worker /\ PCs \subseteq Conn
    BY Places
<1>2. conn'[Worker] = conn[Worker]
    BY <1>1 DEF Alters
<1>3. \A d \in PCs : /\ NoAsk(conn[d].down) => NoAsk(conn'[d].down)
                     /\ OneAsk(conn[d].down) => OneAsk(conn'[d].down)
                     /\ NoOffer(conn[d].up) => NoOffer(conn'[d].up)
                     /\ agt'[d].shot = agt[d].shot
    BY <1>1 DEF Alters
<1>. QED
    BY <1>2, <1>3, FramePicture DEF IInv

(* Only the agent of one PC and its connection are concerned.              *)
LEMMA OneAgent ==
    ASSUME IInv, NEW c \in PCs, NEW up, NEW down, NEW link, Alters(conn, conn', c, up, down, link),
           shots' \in Nat, shots <= shots',
           \A d \in PCs : d # c => /\ agt'[d] = agt[d]
                                   /\ (~Here(d, srv) /\ ~Here(d, srv')) \/ srv' = srv,
           UpFits(c, agt'[c], up, srv', shots'), DownFits(c, agt'[c], down, srv')
    PROVE  AgentsFit'
<1>1. ASSUME NEW d \in PCs
      PROVE  /\ UpFits(d, agt'[d], conn'[d].up, srv', shots')
             /\ DownFits(d, agt'[d], conn'[d].down, srv')
    <2>1. CASE d = c
        BY <2>1 DEF Alters
    <2>2. CASE d # c
        <3>1. conn'[d] = conn[d] /\ agt'[d] = agt[d]
            BY <2>2, Places DEF Alters
        <3>2. UpFits(d, agt[d], conn[d].up, srv, shots) /\ DownFits(d, agt[d], conn[d].down, srv)
            BY DEF IInv, AgentsFit
        <3>3. shots \in Nat
            BY DEF IInv, TypeOK
        <3>4. /\ Here(d, srv) <=> Here(d, srv')
              /\ Here(d, srv) => srv'.img = srv.img /\ srv'.len = srv.len
            BY <2>2
        <3>. QED
            BY <3>1, <3>2, <3>3, <3>4, UpSame, DownSame
    <2>. QED
        BY <2>1, <2>2
<1>. QED
    BY <1>1 DEF AgentsFit

LEMMA NothingAsked ==
    NoAsk(<<>>) /\ OneAsk(<<>>) /\ NoOffer(<<>>)
BY DEF NoAsk, OneAsk, NoOffer

(* What is read is not asked any more.                                     *)
LEMMA AskRest ==
    ASSUME NEW q \in Seq(Sent), NEW r \in Reads(q)
    PROVE  /\ NoAsk(q) => NoAsk(r.rest)
           /\ OneAsk(q) => OneAsk(r.rest)
           /\ OneAsk(q) /\ IsAsk(r.batch[1]) => NoAsk(r.rest)
           /\ NoOffer(q) => NoOffer(r.rest) /\ ~IsOffer(r.batch[1])
           /\ r.batch[1] = q[1] /\ 1 \in DOMAIN q
<1>1. r.batch \in Seq(Sent) /\ r.rest \in Seq(Sent) /\ Splits(q, r.batch, r.rest)
      /\ Len(r.batch) \in 1..Len(q)
    BY ReadsParts
<1>2. \A k \in DOMAIN r.rest : Len(r.batch) + k \in DOMAIN q /\ r.rest[k] = q[Len(r.batch) + k]
    BY <1>1, RestPositions
<1>3. r.batch[1] = q[1] /\ 1 \in DOMAIN q
    BY <1>1, FirstRead
<1>4. Len(r.batch) # 0
    BY <1>1
<1>5. \A k \in DOMAIN r.rest : Len(r.batch) + k # 1
    BY <1>1, <1>4, RestPositions
<1>6. \A j, k \in DOMAIN r.rest : Len(r.batch) + j = Len(r.batch) + k => j = k
    BY <1>1, RestPositions
<1>7. (NoAsk(q) => NoAsk(r.rest)) /\ (NoOffer(q) => NoOffer(r.rest) /\ ~IsOffer(r.batch[1]))
    BY <1>2, <1>3, Zenon DEF NoAsk, NoOffer
<1>8. OneAsk(q) => OneAsk(r.rest)
    BY <1>2, <1>6, Zenon DEF OneAsk
<1>9. OneAsk(q) /\ IsAsk(r.batch[1]) => NoAsk(r.rest)
    BY <1>2, <1>3, <1>5, Zenon DEF OneAsk, NoAsk
<1>. QED
    BY <1>3, <1>7, <1>8, <1>9

(* A request that is not for a picture asks for none.                      *)
LEMMA AskMore ==
    ASSUME NEW q \in Seq(Sent), NEW m \in Sent, ~IsAsk(m)
    PROVE  /\ NoAsk(q) => NoAsk(Append(q, m))
           /\ OneAsk(q) => OneAsk(Append(q, m))
<1>1. \A k \in DOMAIN Append(q, m) : \/ k \in DOMAIN q /\ Append(q, m)[k] = q[k]
                                     \/ Append(q, m)[k] = m
    BY Appended
<1>2. NoAsk(q) => NoAsk(Append(q, m))
    BY <1>1, Zenon DEF NoAsk
<1>3. OneAsk(q) => OneAsk(Append(q, m))
    BY <1>1, Zenon DEF OneAsk
<1>. QED
    BY <1>2, <1>3

LEMMA OfferMore ==
    ASSUME NEW q \in Seq(Sent), NEW m \in Sent, ~IsOffer(m)
    PROVE  NoOffer(q) => NoOffer(Append(q, m))
<1>1. \A k \in DOMAIN Append(q, m) : \/ k \in DOMAIN q /\ Append(q, m)[k] = q[k]
                                     \/ Append(q, m)[k] = m
    BY Appended
<1>. QED
    BY <1>1, Zenon DEF NoOffer

LEMMA LoopingOK ==
    /\ Looping \in ServerState /\ Looping.at = "loop" /\ Looping.pc = 0
    /\ Dead \in ServerState /\ Dead.at = "dead" /\ Dead.pc = 0
<1>1. <<>> \in Image
    BY EmptySeq DEF Image
<1>. QED
    BY <1>1 DEF Looping, Dead, ServerState

(* A write of the looping server to a PC that has gone.                    *)
LEMMA FailedWrite ==
    ASSUME IInv, UNCHANGED <<worker, file, page, agt, shots, fdtab>>, srv.at = "loop",
           srv' \in {Looping, Dead}, NEW c \in PCs, conn[c].down = <<>>, NEW up, NEW l,
           Alters(conn, conn', c, up, <<>>, l), NoOffer(conn[c].up) => NoOffer(up)
    PROVE  NetOK' /\ WorkerFits' /\ PageOK' /\ Dialogue' /\ OnePicture'
<1>1. Worker \in Conn /\ c \in Conn /\ c # Worker
    BY Places
<1>2. conn'[Worker] = conn[Worker]
    BY <1>1 DEF Alters
<1>3. TypeOK /\ shots \in Nat /\ shots' \in Nat /\ shots <= shots'
    BY DEF IInv, TypeOK
<1>4. NetOK' /\ PageOK'
    BY <1>1, <1>3, FrameNet, FramePage DEF IInv
<1>5. WorkerFits'
    BY <1>2, <1>3, FrameWorker DEF IInv
<1>6. CASE srv' = Dead
    <2>1. srv'.at = "dead"
        BY <1>6, LoopingOK
    <2>. QED
        BY <1>4, <1>5, <2>1 DEF Dialogue, OnePicture
<1>7. CASE srv' = Looping
    <2>1. srv'.at = "loop"
        BY <1>7, LoopingOK
    <2>2. Dialogue'
        BY <1>2, <1>3, <2>1, FrameDialogue DEF IInv, SameTalk
    <2>3. OnePicture'
        BY <2>1, Drops DEF SameTalk
    <2>. QED
        BY <1>4, <1>5, <2>2, <2>3
<1>. QED
    BY <1>6, <1>7

(* An agent leaves, or ends because of a request that it did not expect.   *)
LEMMA AgentGoes ==
    ASSUME IInv, NEW c \in PCs, conn' = PeerClosed(c), UNCHANGED <<nconn, fdtab>>,
           UNCHANGED <<srv, agt, worker, file, page, shots, nreq, ntimers, late>>
    PROVE  IInv'
<1>1. c \in Conn /\ conn \in [Conn -> Link]
    BY Places DEF IInv, TypeOK
<1>2. conn' = PeerClosed(c) /\ UNCHANGED <<nconn, fdtab>>
    OBVIOUS
<1>3. UNCHANGED <<srv, agt, worker, file, page, shots, nreq, ntimers, late>>
    OBVIOUS
<1>4. PICK l \in Broken : Alters(conn, conn', c, conn[c].up, <<>>, l)
    BY <1>1, <1>2, Closes
<1>5. shots' \in Nat /\ shots <= shots'
    BY <1>3 DEF IInv, TypeOK
<1>6. TypeOK'
    BY <1>2, <1>3, <1>4 DEF IInv, TypeOK, Alters
<1>7. NetOK' /\ WorkerFits' /\ Dialogue' /\ PageOK'
    BY <1>2, <1>3, <1>4, <1>5, Frames DEF SameTalk
<1>8. AgentsFit'
    <2>1. UpFits(c, agt[c], conn[c].up, srv, shots)
        BY DEF IInv, AgentsFit
    <2>2. DownFits(c, agt[c], <<>>, srv)
        BY DownEmpty
    <2>. QED
        BY <1>3, <1>4, <1>5, <2>1, <2>2, OneAgent
<1>9. OnePicture'
    BY <1>3, <1>4, NothingAsked, Drops DEF SameTalk
<1>. QED
    BY <1>6, <1>7, <1>8, <1>9 DEF IInv

LEMMA AgentLeavesKeeps ==
    ASSUME IInv, NEW c \in PCs, AgentLeaves(c)
    PROVE  IInv'
BY AgentGoes DEF AgentLeaves, shotVars

LEMMA LoopEofKeeps ==
    ASSUME IInv, NEW c \in PCs, LoopEof(c)
    PROVE  IInv'
<1>1. c \in Conn /\ conn \in [Conn -> Link] /\ fdtab \in [Fd -> 0..MaxConn]
    BY Places DEF IInv, TypeOK
<1>2. /\ conn' = ServerClosed(conn, c) /\ fdtab' = [fdtab EXCEPT ![c + 4] = 0]
      /\ conn[c].up = <<>> /\ UNCHANGED nconn
    BY DEF LoopEof, AtEof
<1>3. UNCHANGED <<srv, agt, worker, file, page, shots, nreq, ntimers, late>>
    BY DEF LoopEof, shotVars
<1>4. Alters(conn, conn', c, conn[c].up, conn[c].down, conn[c].link)
    <2>2. conn' = [conn EXCEPT ![c].srv = "closed", ![c].up = <<>>]
        BY <1>2 DEF ServerClosed
    <2>. QED
        BY <1>1, <1>2, <2>2, ServerCloses
<1>5. shots' \in Nat /\ shots <= shots'
    BY <1>3 DEF IInv, TypeOK
<1>6. fdtab' \in [Fd -> 0..MaxConn] /\ fdtab'[WorkerFd] = fdtab[WorkerFd]
    <2>1. c + 4 # WorkerFd /\ 0 \in 0..MaxConn
        BY Places DEF PCs, WorkerFd
    <2>. QED
        BY <1>1, <1>2, <2>1, Places
<1>7. TypeOK'
    BY <1>2, <1>3, <1>4, <1>6 DEF IInv, TypeOK, Alters
<1>8. conn[c].link # "up" => conn[c].down = <<>>
    BY <1>1 DEF IInv, NetOK
<1>9. NetOK' /\ WorkerFits' /\ Dialogue' /\ PageOK'
    BY <1>3, <1>4, <1>5, <1>6, <1>8, Frames DEF SameTalk
<1>10. AgentsFit'
    <2>1. UpFits(c, agt[c], conn[c].up, srv, shots) /\ DownFits(c, agt[c], conn[c].down, srv)
        BY DEF IInv, AgentsFit
    <2>. QED
        BY <1>3, <1>4, <1>5, <2>1, OneAgent
<1>11. OnePicture'
    BY <1>3, <1>4, Drops DEF SameTalk
<1>. QED
    BY <1>7, <1>9, <1>10, <1>11 DEF IInv

(* A timer's action that is not a screenshot.                              *)
LEMMA TimerFiresKeeps ==
    ASSUME "screenshot" \notin TimerUri, IInv, NEW c \in PCs, TimerFires(c)
    PROVE  IInv'
<1>1. c \in Conn /\ conn \in [Conn -> Link]
    BY Places DEF IInv, TypeOK
<1>2. /\ srv.at = "loop" /\ ntimers < MaxTimers /\ ntimers' = ntimers + 1
      /\ UNCHANGED <<nconn, fdtab, agt, worker, file, page, shots, nreq, late>>
    BY DEF TimerFires
<1>. DEFINE m == ShotRequest("lock", "none", c)
<1>3. \E w \in WriteTo(conn, c, m) : After(w, Looping)
    <2>1. PICK uri \in TimerUri :
            LET stage == IF uri = "screenshot" THEN "request" ELSE "none"
            IN  \E w \in WriteTo(conn, c, ShotRequest(uri, stage, c)) : After(w, Looping)
        BY DEF TimerFires
    <2>2. uri = "lock"
        BY ScreenshotAssumption
    <2>. QED
        BY <2>1, <2>2
<1>4. m \in Requests /\ m \in Sent /\ m.kind = "request" /\ m.stage = "none"
    BY RequestsOK DEF IsText
<1>. HIDE DEF m
<1>5. \/ /\ conn[c].link = "up" /\ srv' = Looping
         /\ Alters(conn, conn', c, conn[c].up, Append(conn[c].down, m), "up")
      \/ /\ conn[c].link # "up" /\ srv' \in {Looping, Dead}
         /\ \E l \in Broken : Alters(conn, conn', c, conn[c].up, conn[c].down, l)
    BY <1>1, <1>3, <1>4, Sends
<1>6. shots' \in Nat /\ shots <= shots' /\ fdtab' = fdtab
    BY <1>2 DEF IInv, TypeOK
<1>7. conn' \in [Conn -> Link]
    BY <1>5 DEF Alters
<1>8. srv' \in {Looping, Dead}
    BY <1>5
<1>9. TypeOK'
    <2>1. ntimers' \in 0..MaxTimers
        BY <1>2, ScreenshotAssumption DEF IInv, TypeOK
    <2>. QED
        BY <1>2, <1>7, <1>8, <2>1, LoopingOK DEF IInv, TypeOK
<1>10. UpFits(c, agt[c], conn[c].up, srv, shots) /\ DownFits(c, agt[c], conn[c].down, srv)
    BY DEF IInv, AgentsFit
<1>11. \A d \in PCs : ~Here(d, srv) /\ ~Here(d, srv')
    BY <1>2, <1>8, LoopingOK DEF Here
<1>12. UpFits(c, agt[c], conn[c].up, srv', shots) /\ DownFits(c, agt[c], conn[c].down, srv')
    BY <1>2, <1>6, <1>10, <1>11, UpSame, DownSame
<1>13. CASE conn[c].link = "up" /\ srv' = Looping
                /\ Alters(conn, conn', c, conn[c].up, Append(conn[c].down, m), "up")
    <2>1. conn[c].down \in Seq(Sent)
        BY <1>1 DEF Link
    <2>2. ~IsDue(m) /\ ~IsAsk(m)
        BY <1>4 DEF IsDue, IsAsk
    <2>3. DownFits(c, agt[c], Append(conn[c].down, m), srv')
        BY <1>4, <1>12, <2>1, <2>2, DownAsks
    <2>4. AgentsFit'
        BY <1>2, <1>6, <1>11, <1>12, <1>13, <2>3, OneAgent
    <2>5. /\ NoAsk(conn[c].down) => NoAsk(Append(conn[c].down, m))
          /\ OneAsk(conn[c].down) => OneAsk(Append(conn[c].down, m))
        BY <1>4, <2>1, <2>2, AskMore
    <2>6. srv'.at = "loop"
        BY <1>13, LoopingOK
    <2>7. NetOK' /\ WorkerFits' /\ Dialogue' /\ PageOK'
        BY <1>2, <1>6, <1>13, <2>6, Frames DEF SameTalk
    <2>8. OnePicture'
        BY <1>2, <1>13, <2>5, <2>6, Drops DEF SameTalk
    <2>. QED
        BY <1>9, <2>4, <2>7, <2>8 DEF IInv
<1>14. CASE /\ conn[c].link # "up" /\ srv' \in {Looping, Dead}
            /\ \E l \in Broken : Alters(conn, conn', c, conn[c].up, conn[c].down, l)
    <2>1. PICK l \in Broken : Alters(conn, conn', c, conn[c].up, conn[c].down, l)
        BY <1>14
    <2>2. AgentsFit'
        BY <1>2, <1>6, <1>11, <1>12, <2>1, OneAgent
    <2>3. conn[c].down = <<>>
        BY <1>1, <1>14 DEF IInv, NetOK
    <2>4. NetOK' /\ WorkerFits' /\ PageOK' /\ Dialogue' /\ OnePicture'
        BY <1>2, <1>6, <1>8, <2>1, <2>3, FailedWrite
    <2>. QED
        BY <1>9, <2>2, <2>4 DEF IInv
<1>. QED
    BY <1>5, <1>13, <1>14

-----------------------------------------------------------------------------
(* An agent goes on.                                                       *)
LEMMA SetAgent ==
    ASSUME NEW ag \in [PCs -> AgentState], NEW c \in PCs, NEW at \in {"idle", "transfer", "finished"}
    PROVE  \A ag1 : ag1 = [ag EXCEPT ![c].at = at] =>
               /\ ag1 \in [PCs -> AgentState] /\ ag1[c].at = at
               /\ ag1[c].shot = ag[c].shot /\ ag1[c].len = ag[c].len
               /\ \A d \in PCs : d # c => ag1[d] = ag[d]
BY DEF AgentState

(* The requests an agent takes.                                            *)
LEMMA AgentTakesKeeps ==
    ASSUME IInv, NEW c \in PCs, AgentTakes(c)
    PROVE  IInv'
<1>. DEFINE a == agt[c]
            up == conn[c].up
            down == conn[c].down
<1>1. /\ c \in Conn /\ conn \in [Conn -> Link] /\ agt \in [PCs -> AgentState] /\ shots \in Nat
      /\ up \in Seq(Sent) /\ down \in Seq(Sent)
    BY Places DEF IInv, TypeOK, Link
<1>2. a.at = "idle" /\ UNCHANGED <<nconn, fdtab, srv, worker, file, page, nreq, ntimers, late>>
    BY DEF AgentTakes
<1>3. UpFits(c, a, up, srv, shots) /\ DownFits(c, a, down, srv)
    BY DEF IInv, AgentsFit
<1>4. PICK r \in Reads(down) :
        LET req == r.batch[1]
        IN  \/ /\ req.uri = "lock"
               /\ Answers(c, r.rest, <<Locked>>)
               /\ UNCHANGED <<agt, shots>>
            \/ /\ req.uri = "screenshot" /\ req.stage = "request"
               /\ \E len \in ImageSize :
                    /\ Answers(c, r.rest, <<ShotResponse("screenshot", "request", len)>>)
                    /\ agt' = [agt EXCEPT ![c] = [at |-> "transfer", shot |-> shots + 1, len |-> len]]
               /\ shots' = shots + 1
            \/ /\ req.uri = "screenshot" /\ req.stage # "request"
               /\ conn' = PeerClosed(c)
               /\ UNCHANGED <<agt, shots>>
    BY DEF AgentTakes, Locked
<1>5. r.rest \in Seq(Sent)
    BY <1>1, ReadsParts
<1>6. /\ DownFits(c, a, r.rest, srv) /\ r.batch[1] = down[1] /\ 1 \in DOMAIN down
    BY <1>1, <1>3, DownRest
<1>7. /\ NoAsk(down) => NoAsk(r.rest)
      /\ OneAsk(down) => OneAsk(r.rest)
      /\ OneAsk(down) /\ IsAsk(r.batch[1]) => NoAsk(r.rest)
    BY <1>1, AskRest
<1>8. conn[c].link # "up" => r.rest = <<>>
    <2>1. conn[c].link # "up" => down = <<>>
        BY <1>1 DEF IInv, NetOK
    <2>. QED
        BY <2>1, ReadsNone
<1>9. down[1] \in Requests
    BY <1>3, <1>6 DEF DownFits
<1>. HIDE DEF a, up, down
<1>10. CASE Answers(c, r.rest, <<Locked>>) /\ UNCHANGED <<agt, shots>>
    <2>1. Locked \in Sent /\ ~IsOffer(Locked)
        BY ResponsesOK DEF IsText, IsOffer
    <2>2. Append(up, Locked) \in Seq(Sent) /\ up \o <<Locked>> = Append(up, Locked)
        BY <1>1, <2>1, AppendIsConcat, Appended
    <2>3. Alters(conn, conn', c, Append(up, Locked), r.rest, conn[c].link)
        BY <1>1, <1>5, <1>10, <2>2, SetBoth DEF Answers, up
    <2>4. UpFits(c, a, Append(up, Locked), srv, shots)
        BY <1>1, <1>2, <1>3, <2>2, UpAnswers
    <2>5. NoOffer(up) => NoOffer(Append(up, Locked))
        BY <1>1, <2>1, OfferMore
    <2>6. TypeOK'
        BY <1>2, <1>10, <2>3 DEF IInv, TypeOK, Alters
    <2>7. NetOK' /\ WorkerFits' /\ Dialogue' /\ PageOK'
        BY <1>1, <1>2, <1>8, <1>10, <2>3, Frames DEF SameTalk
    <2>8. AgentsFit'
        BY <1>1, <1>2, <1>6, <1>10, <2>3, <2>4, OneAgent DEF a
    <2>9. OnePicture'
        BY <1>2, <1>7, <1>10, <2>3, <2>5, Drops DEF up, down, SameTalk
    <2>. QED
        BY <2>6, <2>7, <2>8, <2>9 DEF IInv
<1>11. ASSUME down[1].uri = "screenshot", down[1].stage = "request", NEW len \in ImageSize,
              Answers(c, r.rest, <<ShotResponse("screenshot", "request", len)>>),
              agt' = [agt EXCEPT ![c] = [at |-> "transfer", shot |-> shots + 1, len |-> len]],
              shots' = shots + 1
       PROVE  IInv'
    <2>. DEFINE m == ShotResponse("screenshot", "request", len)
    <2>1. m \in Sent
        BY ResponsesOK DEF IsText
    <2>2. Append(up, m) \in Seq(Sent) /\ up \o <<m>> = Append(up, m)
        BY <1>1, <2>1, AppendIsConcat, Appended
    <2>3. Alters(conn, conn', c, Append(up, m), r.rest, conn[c].link)
        BY <1>1, <1>5, <1>11, <2>2, SetBoth DEF Answers, up
    <2>4. agt' \in [PCs -> AgentState] /\ agt'[c].at = "transfer" /\ agt'[c].len = len
          /\ agt'[c].shot = shots + 1 /\ \A d \in PCs : d # c => agt'[d] = agt[d]
        BY <1>1, <1>11 DEF AgentState
    <2>5. Exchanging(agt'[c], shots')
        BY <1>1, <1>11, <2>4 DEF Exchanging
    <2>6. UpFits(c, agt'[c], Append(up, m), srv, shots')
        BY <1>1, <1>2, <1>3, <2>1, <2>4, <2>5, UpOffers
    <2>7. NoneDue(r.rest)
        BY <1>2, <1>6, DownDue
    <2>8. DownFits(c, agt'[c], r.rest, srv)
        BY <1>6, <2>7, DownNoneDue
    <2>9. shots' \in Nat /\ shots <= shots'
        BY <1>1, <1>11
    <2>10. TypeOK'
        BY <1>2, <2>3, <2>4, <2>9 DEF IInv, TypeOK, Alters
    <2>11. NetOK' /\ WorkerFits' /\ Dialogue' /\ PageOK'
        BY <1>2, <1>8, <2>3, <2>9, Frames DEF SameTalk
    <2>12. AgentsFit'
        BY <1>2, <2>3, <2>4, <2>6, <2>8, <2>9, OneAgent
    <2>13. OnePicture'
        <3>. SUFFICES ASSUME WorkerUp', srv'.at # "dead"
                      PROVE  OnePicture'
            BY DEF OnePicture
        <3>1. conn'[Worker] = conn[Worker] /\ \A d \in PCs : d # c => conn'[d] = conn[d]
            BY <2>3, Places DEF Alters
        <3>2. WorkerUp /\ srv.at # "dead" /\ (Waiting' <=> Waiting)
            BY <1>2, <3>1 DEF WorkerUp, Waiting
        <3>3. IsAsk(down[1])
            BY <1>9, <1>11 DEF IsAsk, Requests
        <3>4. ~NoAsk(down)
            BY <1>6, <3>3 DEF NoAsk
        <3>5. Waiting /\ c = worker.asked /\ OneAsk(down)
            BY <3>2, <3>4 DEF IInv, OnePicture, down
        <3>6. NoAsk(r.rest) /\ worker.since <= shots /\ worker.since \in Nat
            BY <1>6, <1>7, <3>3, <3>5 DEF IInv, WorkerFits, TypeOK, WorkerState
        <3>7. agt'[c].shot > worker.since /\ conn'[c].down = r.rest
            BY <1>1, <2>3, <2>4, <3>6 DEF Alters
        <3>8. \A d \in PCs : ~(Waiting /\ d = worker.asked) => NoAsk(conn'[d].down) /\ NoOffer(conn'[d].up)
            BY <3>1, <3>2, <3>5 DEF IInv, OnePicture
        <3>. QED
            BY <1>2, <3>2, <3>5, <3>6, <3>7, <3>8 DEF OnePicture, Waiting
    <2>. QED
        BY <2>10, <2>11, <2>12, <2>13 DEF IInv
<1>12. CASE conn' = PeerClosed(c) /\ UNCHANGED <<agt, shots>>
    BY <1>2, <1>12, AgentGoes
<1>. QED
    BY <1>4, <1>6, <1>10, <1>11, <1>12

LEMMA AgentTransfersKeeps ==
    ASSUME IInv, NEW c \in PCs, AgentTransfers(c)
    PROVE  IInv'
<1>. DEFINE a == agt[c]
            up == conn[c].up
            down == conn[c].down
            image == Bytes(c, a.shot, a.len)
<1>1. /\ c \in Conn /\ conn \in [Conn -> Link] /\ agt \in [PCs -> AgentState] /\ shots \in Nat
      /\ up \in Seq(Sent) /\ down \in Seq(Sent)
    BY Places DEF IInv, TypeOK, Link
<1>2. a.at = "transfer" /\ UNCHANGED <<nconn, fdtab, srv, worker, file, page, shots, nreq, ntimers, late>>
    BY DEF AgentTransfers, sockets, history
<1>3. UpFits(c, a, up, srv, shots) /\ DownFits(c, a, down, srv)
    BY DEF IInv, AgentsFit
<1>4. PICK r \in Reads(down) :
        IF r.batch[1].stage = "transfer"
        THEN Answers(c, r.rest, image) /\ agt' = [agt EXCEPT ![c].at = "finished"]
        ELSE conn' = PeerClosed(c) /\ UNCHANGED agt
    BY DEF AgentTransfers
<1>5. r.rest \in Seq(Sent)
    BY <1>1, ReadsParts
<1>6. /\ DownFits(c, a, r.rest, srv) /\ r.batch[1] = down[1] /\ 1 \in DOMAIN down
      /\ IsDue(down[1]) => NoneDue(r.rest)
    BY <1>1, <1>3, DownRest
<1>7. (NoAsk(down) => NoAsk(r.rest)) /\ (OneAsk(down) => OneAsk(r.rest))
    BY <1>1, AskRest
<1>8. conn[c].link # "up" => r.rest = <<>>
    <2>1. conn[c].link # "up" => down = <<>>
        BY <1>1 DEF IInv, NetOK
    <2>. QED
        BY <2>1, ReadsNone
<1>9. CASE r.batch[1].stage = "transfer"
    <2>1. Here(c, srv) /\ NoneDue(r.rest)
        BY <1>3, <1>6, <1>9, DownDue DEF IsDue
    <2>2. agt' \in [PCs -> AgentState] /\ agt'[c].at = "finished" /\ agt'[c].len = a.len
          /\ agt'[c].shot = a.shot /\ \A d \in PCs : d # c => agt'[d] = agt[d]
        <3>1. agt' = [agt EXCEPT ![c].at = "finished"]
            BY <1>4, <1>9
        <3>. QED
            BY <1>1, <3>1, SetAgent
    <2>3. up = <<>> /\ UpFits(c, agt'[c], image, srv, shots)
        BY <1>2, <1>3, <2>1, <2>2, UpTransfers
    <2>4. a.shot \in Nat /\ a.len \in ImageSize
        BY <1>2, <1>3 DEF UpFits, Exchanging
    <2>5. image \in Seq(Byte) /\ Len(image) = a.len /\ \A k \in 1..a.len : image[k].kind = "byte"
        BY <2>4, BytesProperties
    <2>6. NoOffer(image)
        BY <2>5 DEF NoOffer, IsOffer
    <2>7. image \in Seq(Sent) /\ <<>> \o image = image
        <3>1. Byte \subseteq Sent
            BY DEF Sent
        <3>. QED
            BY <2>5, <3>1, SeqMonotonic, ConcatEmptySeq
    <2>. HIDE DEF image
    <2>8. conn' = [conn EXCEPT ![c].down = r.rest, ![c].up = image]
        BY <1>4, <1>9, <2>3, <2>7 DEF Answers
    <2>9. Alters(conn, conn', c, image, r.rest, conn[c].link)
        BY <1>1, <1>5, <2>7, <2>8, SetBoth
    <2>10. DownFits(c, agt'[c], r.rest, srv)
        BY <1>6, <2>1, DownNoneDue
    <2>11. TypeOK'
        BY <1>2, <2>2, <2>9 DEF IInv, TypeOK, Alters
    <2>12. NetOK' /\ WorkerFits' /\ Dialogue' /\ PageOK'
        BY <1>1, <1>2, <1>8, <2>9, Frames DEF SameTalk
    <2>13. AgentsFit'
        BY <1>1, <1>2, <2>2, <2>3, <2>9, <2>10, OneAgent
    <2>14. OnePicture'
        BY <1>2, <1>7, <2>2, <2>6, <2>9, Drops DEF SameTalk
    <2>. QED
        BY <2>11, <2>12, <2>13, <2>14 DEF IInv
<1>10. CASE r.batch[1].stage # "transfer"
    BY <1>2, <1>4, <1>10, AgentGoes
<1>. QED
    BY <1>9, <1>10

LEMMA AgentFinishesKeeps ==
    ASSUME IInv, NEW c \in PCs, AgentFinishes(c)
    PROVE  IInv'
<1>. DEFINE a == agt[c]
            up == conn[c].up
            down == conn[c].down
<1>1. /\ c \in Conn /\ conn \in [Conn -> Link] /\ agt \in [PCs -> AgentState] /\ shots \in Nat
      /\ up \in Seq(Sent) /\ down \in Seq(Sent)
    BY Places DEF IInv, TypeOK, Link
<1>2. a.at = "finished" /\ UNCHANGED <<nconn, fdtab, srv, worker, file, page, shots, nreq, ntimers, late>>
    BY DEF AgentFinishes, sockets, history
<1>3. UpFits(c, a, up, srv, shots) /\ DownFits(c, a, down, srv)
    BY DEF IInv, AgentsFit
<1>4. PICK r \in Reads(down) :
        IF r.batch[1].stage = "finished"
        THEN Answers(c, r.rest, <<>>) /\ agt' = [agt EXCEPT ![c].at = "idle"]
        ELSE conn' = PeerClosed(c) /\ UNCHANGED agt
    BY DEF AgentFinishes
<1>5. r.rest \in Seq(Sent)
    BY <1>1, ReadsParts
<1>6. /\ DownFits(c, a, r.rest, srv) /\ r.batch[1] = down[1] /\ 1 \in DOMAIN down
      /\ IsDue(down[1]) => NoneDue(r.rest)
    BY <1>1, <1>3, DownRest
<1>7. (NoAsk(down) => NoAsk(r.rest)) /\ (OneAsk(down) => OneAsk(r.rest))
    BY <1>1, AskRest
<1>8. conn[c].link # "up" => r.rest = <<>>
    <2>1. conn[c].link # "up" => down = <<>>
        BY <1>1 DEF IInv, NetOK
    <2>. QED
        BY <2>1, ReadsNone
<1>9. CASE r.batch[1].stage = "finished"
    <2>1. ~Here(c, srv) /\ NoneDue(r.rest)
        BY <1>3, <1>6, <1>9, DownDue DEF IsDue
    <2>2. agt' \in [PCs -> AgentState] /\ agt'[c].at = "idle"
          /\ agt'[c].shot = a.shot /\ \A d \in PCs : d # c => agt'[d] = agt[d]
        <3>1. agt' = [agt EXCEPT ![c].at = "idle"]
            BY <1>4, <1>9
        <3>. QED
            BY <1>1, <3>1, SetAgent
    <2>3. up = <<>> /\ UpFits(c, agt'[c], up, srv, shots)
        BY <1>2, <1>3, <2>1, <2>2, UpFinishes
    <2>4. up \o <<>> = up
        BY <1>1, ConcatEmptySeq
    <2>5. conn' = [conn EXCEPT ![c].down = r.rest, ![c].up = up]
        BY <1>4, <1>9, <2>4 DEF Answers
    <2>6. Alters(conn, conn', c, up, r.rest, conn[c].link)
        BY <1>1, <1>5, <2>5, SetBoth
    <2>7. DownFits(c, agt'[c], r.rest, srv)
        BY <1>6, <2>1, DownNoneDue
    <2>8. TypeOK'
        BY <1>2, <2>2, <2>6 DEF IInv, TypeOK, Alters
    <2>9. NetOK' /\ WorkerFits' /\ Dialogue' /\ PageOK'
        BY <1>1, <1>2, <1>8, <2>6, Frames DEF SameTalk
    <2>10. AgentsFit'
        BY <1>1, <1>2, <2>2, <2>3, <2>6, <2>7, OneAgent
    <2>11. OnePicture'
        BY <1>2, <1>7, <2>2, <2>6, Drops DEF SameTalk
    <2>. QED
        BY <2>8, <2>9, <2>10, <2>11 DEF IInv
<1>10. CASE r.batch[1].stage # "finished"
    BY <1>2, <1>4, <1>10, AgentGoes
<1>. QED
    BY <1>9, <1>10

-----------------------------------------------------------------------------
(* The server's steps.                                                     *)
LEMMA AddresseeOne ==
    ASSUME NEW m
    PROVE  Addressee(<<m>>) = m.id
<1>. DEFINE ids == {n \in DOMAIN <<m>> : <<m>>[n].id # 0}
<1>1. DOMAIN <<m>> = {1} /\ <<m>>[1] = m
    OBVIOUS
<1>2. CASE m.id = 0
    <2>1. ids = {}
        BY <1>1, <1>2
    <2>. QED
        BY <1>2, <2>1 DEF Addressee
<1>3. CASE m.id # 0
    <2>1. ids = {1}
        BY <1>1, <1>3
    <2>2. LastOf({1}) = 1
        BY DEF LastOf
    <2>3. <<m>>[LastOf(ids)].id = m.id /\ ids # {}
        BY <1>1, <2>1, <2>2
    <2>. QED
        BY <2>3 DEF Addressee
<1>. QED
    BY <1>2, <1>3

(* Steps between the server and the worker: the agents and what they are   *)
(* sent stay as they are.                                                  *)
LEMMA WorkerOnly ==
    ASSUME IInv, UNCHANGED <<agt, shots, fdtab>>,
           NEW up, NEW down, NEW link, Alters(conn, conn', Worker, up, down, link),
           link # "up" => down = <<>>, \A n \in DOMAIN up : up[n] \in Requests,
           srv' = srv \/ (srv.at # "image" /\ srv'.at # "image")
    PROVE  NetOK' /\ AgentsFit' /\ \A c \in PCs : conn'[c] = conn[c]
<1>1. \A c \in PCs : conn'[c] = conn[c]
    BY Places DEF Alters
<1>2. Worker \in Conn /\ TypeOK /\ shots \in Nat /\ shots <= shots
    BY Places DEF IInv, TypeOK
<1>3. NetOK'
    BY <1>2, FrameNet DEF IInv
<1>4. AgentsFit'
    <2>1. \A c \in PCs : /\ Here(c, srv') <=> Here(c, srv)
                         /\ Here(c, srv) => srv'.img = srv.img /\ srv'.len = srv.len
        BY DEF Here
    <2>. QED
        BY <1>1, <1>2, <2>1, FrameAgents DEF IInv
<1>. QED
    BY <1>1, <1>3, <1>4

LEMMA WorkerFrames ==
    ASSUME IInv, UNCHANGED <<agt, page, shots, fdtab>>,
           NEW up, NEW down, NEW link, Alters(conn, conn', Worker, up, down, link),
           link # "up" => down = <<>>, \A n \in DOMAIN up : up[n] \in Requests,
           srv' = srv \/ (srv.at # "image" /\ srv'.at # "image")
    PROVE  /\ NetOK' /\ AgentsFit' /\ PageOK'
           /\ \A c \in PCs : conn'[c] = conn[c]
<1>1. NetOK' /\ AgentsFit' /\ \A c \in PCs : conn'[c] = conn[c]
    BY WorkerOnly
<1>2. PageOK'
    BY FramePage DEF IInv, TypeOK
<1>. QED
    BY <1>1, <1>2

(* What the worker sent.                                                   *)
LEMMA WorkerTexts ==
    ASSUME IInv
    PROVE  /\ Worker \in Conn /\ conn \in [Conn -> Link]
           /\ conn[Worker].up \in Seq(Sent) /\ conn[Worker].down \in Seq(Sent)
           /\ \A n \in DOMAIN conn[Worker].up : conn[Worker].up[n] \in Requests
           /\ conn[Worker].link # "up" => conn[Worker].down = <<>>
           /\ \A r \in Reads(conn[Worker].up) :
                /\ r.rest \in Seq(Sent) /\ \A n \in DOMAIN r.rest : r.rest[n] \in Requests
                /\ r.batch[1] \in Requests
<1>1. /\ Worker \in Conn /\ conn \in [Conn -> Link]
      /\ conn[Worker].up \in Seq(Sent) /\ conn[Worker].down \in Seq(Sent)
    BY Places DEF IInv, TypeOK, Link
<1>2. /\ \A n \in DOMAIN conn[Worker].up : conn[Worker].up[n] \in Requests
      /\ conn[Worker].link # "up" => conn[Worker].down = <<>>
    BY <1>1 DEF IInv, NetOK
<1>3. ASSUME NEW r \in Reads(conn[Worker].up)
      PROVE  /\ r.rest \in Seq(Sent) /\ \A n \in DOMAIN r.rest : r.rest[n] \in Requests
             /\ r.batch[1] \in Requests
    <2>1. /\ r.batch \in Seq(Sent) /\ r.rest \in Seq(Sent) /\ Splits(conn[Worker].up, r.batch, r.rest)
          /\ Len(r.batch) \in 1..Len(conn[Worker].up)
        BY <1>1, ReadsParts
    <2>2. \A k \in DOMAIN r.rest : /\ Len(r.batch) + k \in DOMAIN conn[Worker].up
                                   /\ r.rest[k] = conn[Worker].up[Len(r.batch) + k]
        BY <1>1, <2>1, RestPositions
    <2>3. r.batch[1] = conn[Worker].up[1] /\ 1 \in DOMAIN conn[Worker].up
        BY <1>1, <2>1, FirstRead
    <2>. QED
        BY <1>2, <2>1, <2>2, <2>3
<1>. QED
    BY <1>1, <1>2, <1>3

(* What the looping server finds in the worker's queue.                    *)
LEMMA LoopFinds ==
    ASSUME IInv, srv.at = "loop", WorkerUp, NEW r \in Reads(conn[Worker].up)
    PROVE  /\ r.rest = <<>>
           /\ \/ /\ worker.at = "answer" /\ conn[Worker].down = <<>>
                 /\ Addressee(r.batch) = worker.asked /\ worker.asked \in PCs
              \/ worker.at \in {"image", "end"} /\ Addressee(r.batch) = 0
<1>1. conn[Worker].up # <<>>
    BY ReadsNone
<1>2. /\ worker.at \in {"idle", "answer", "image", "end", "crashed"}
      /\ worker.at = "answer" => worker.asked \in PCs
    BY DEF IInv, WorkerFits, Reading, TypeOK, WorkerState
<1>3. Talks(worker, conn[Worker].up, conn[Worker].down, srv, shots)
    BY DEF IInv, Dialogue
<1>4. PICK m \in Sent :
        /\ conn[Worker].up = <<m>>
        /\ \/ /\ worker.at = "answer" /\ conn[Worker].down = <<>> /\ m.id = worker.asked
           \/ worker.at \in {"image", "end"} /\ m.id = 0
    <2>1. CASE worker.at = "answer"
        <3>. DEFINE m == ShotRequest("screenshot", "request", worker.asked)
        <3>1. conn[Worker].up = <<m>> /\ conn[Worker].down = <<>>
            BY <1>1, <1>3, <2>1 DEF Talks
        <3>2. IsText(m, "request", "request") /\ m.id = worker.asked
            BY <1>2, <2>1, RequestsOK
        <3>3. m \in Sent
            BY <3>2 DEF IsText
        <3>. HIDE DEF m
        <3>. QED
            BY <2>1, <3>1, <3>2, <3>3
    <2>2. CASE worker.at = "image"
        <3>1. conn[Worker].up = <<ShotRequest("screenshot", "transfer", 0)>>
            BY <1>1, <1>3, <2>2 DEF Talks
        <3>. QED
            BY <2>2, <3>1, RequestsOK DEF IsText
    <2>3. CASE worker.at = "end"
        <3>1. conn[Worker].up = <<ShotRequest("screenshot", "finished", 0)>>
            BY <1>1, <1>3, <2>3 DEF Talks
        <3>. QED
            BY <2>3, <3>1, RequestsOK DEF IsText
    <2>4. CASE worker.at \in {"idle", "crashed"}
        BY <1>1, <1>3, <2>4 DEF Talks
    <2>. QED
        BY <1>2, <2>1, <2>2, <2>3, <2>4
<1>5. r.batch = <<m>> /\ r.rest = <<>>
    BY <1>4, ReadsOne
<1>6. Addressee(r.batch) = m.id
    BY <1>5, AddresseeOne
<1>. QED
    BY <1>2, <1>4, <1>5, <1>6

(* When the server reads nothing of it the worker's text is lost.          *)
LEMMA LoopWorkerDrops ==
    ASSUME IInv, srv.at = "loop", UNCHANGED <<nconn, sockets, agt, worker, file, history>>,
           NEW r \in Reads(conn[Worker].up), conn' = [conn EXCEPT ![Worker].up = r.rest],
           \/ srv' = srv /\ Addressee(r.batch) = 0
           \/ srv' = Dead
    PROVE  IInv'
<1>1. UNCHANGED <<nconn, fdtab, agt, worker, file, page, shots, nreq, ntimers, late>>
    BY DEF sockets, history
<1>2. /\ Worker \in Conn /\ conn \in [Conn -> Link] /\ r.rest \in Seq(Sent)
      /\ \A n \in DOMAIN r.rest : r.rest[n] \in Requests
      /\ conn[Worker].link # "up" => conn[Worker].down = <<>>
    BY WorkerTexts
<1>3. Alters(conn, conn', Worker, r.rest, conn[Worker].down, conn[Worker].link)
    BY <1>2, SetUp
<1>4. Dead \in ServerState /\ Dead.at = "dead"
    BY LoopingOK
<1>5. TypeOK'
    BY <1>1, <1>3, <1>4 DEF IInv, TypeOK, Alters
<1>6. NetOK' /\ AgentsFit' /\ PageOK' /\ \A c \in PCs : conn'[c] = conn[c]
    BY <1>1, <1>2, <1>3, <1>4, WorkerFrames
<1>7. WorkerFits'
    <2>1. TypeOK /\ shots' \in Nat /\ shots <= shots'
        BY <1>1 DEF IInv, TypeOK
    <2>. QED
        BY <1>1, <1>3, <2>1, FrameWorker DEF IInv, Alters
<1>8. Dialogue' /\ OnePicture'
    <2>. SUFFICES ASSUME WorkerUp, srv' = srv, Addressee(r.batch) = 0
                  PROVE  Dialogue' /\ OnePicture'
        BY <1>3, <1>4 DEF Dialogue, OnePicture, WorkerUp, Alters
    <2>1. r.rest = <<>> /\ worker.at \in {"image", "end"}
        BY LoopFinds, Places DEF PCs
    <2>2. Talks(worker, <<>>, conn[Worker].down, srv, shots)
        BY <2>1 DEF Talks
    <2>3. Dialogue'
        BY <1>1, <1>3, <2>1, <2>2 DEF Dialogue, Alters
    <2>4. OnePicture'
        BY <1>1, <1>6, <2>1 DEF IInv, OnePicture, Waiting
    <2>. QED
        BY <2>3, <2>4
<1>. QED
    BY <1>5, <1>6, <1>7, <1>8 DEF IInv

(* One request for a picture, when there was none.                         *)
LEMMA AskOnce ==
    ASSUME NEW q \in Seq(Sent), NEW m \in Sent
    PROVE  NoAsk(q) => OneAsk(Append(q, m))
<1>1. \A k \in DOMAIN Append(q, m) : \/ k \in DOMAIN q /\ Append(q, m)[k] = q[k]
                                     \/ k = Len(q) + 1 /\ Append(q, m)[k] = m
    BY Appended
<1>. QED
    BY <1>1, Zenon DEF NoAsk, OneAsk

(* It passes the worker's request on.                                      *)
Passed(left, id, m) ==
    \/ /\ conn[id].link = "up" /\ srv' = Looping
       /\ Alters(left, conn', id, conn[id].up, Append(conn[id].down, m), "up")
    \/ /\ conn[id].link # "up" /\ srv' \in {Looping, Dead}
       /\ \E l \in Broken : Alters(left, conn', id, conn[id].up, conn[id].down, l)

LEMMA LoopWorkerPasses ==
    ASSUME IInv, srv.at = "loop", UNCHANGED <<nconn, fdtab, agt, worker, file, page>>,
           UNCHANGED <<shots, nreq, ntimers, late>>,
           NEW r \in Reads(conn[Worker].up), NEW id \in PCs, id = Addressee(r.batch),
           NEW m \in Requests, m \in Sent, ~IsDue(m), NEW left,
           Alters(conn, left, Worker, r.rest, conn[Worker].down, conn[Worker].link),
           Passed(left, id, m)
    PROVE  IInv'
<1>1. /\ Worker \in Conn /\ conn \in [Conn -> Link] /\ r.rest \in Seq(Sent)
      /\ \A n \in DOMAIN r.rest : r.rest[n] \in Requests
      /\ conn[Worker].link # "up" => conn[Worker].down = <<>>
      /\ id \in Conn /\ id # Worker
    BY WorkerTexts, Places
<1>6. /\ conn' \in [Conn -> Link]
      /\ conn'[Worker].up = r.rest /\ conn'[Worker].down = conn[Worker].down
      /\ conn'[Worker].link = conn[Worker].link
      /\ \A d \in PCs : d # id => conn'[d] = conn[d]
      /\ conn'[id].up = conn[id].up
      /\ \/ conn'[id].link = "up" /\ conn'[id].down = Append(conn[id].down, m)
         \/ conn'[id].down = conn[id].down /\ conn[id].link # "up"
    BY <1>1, Places DEF Alters, Passed
<1>7. /\ srv' \in ServerState /\ srv'.at \in {"loop", "dead"} /\ srv'.pc = 0
    BY LoopingOK DEF Passed
<1>8. TypeOK'
    BY <1>6, <1>7 DEF IInv, TypeOK
<1>9. conn[id].down \in Seq(Sent)
    BY <1>1 DEF Link
<1>10. NetOK'
    <2>1. fdtab[WorkerFd] = Worker /\ \A d \in Conn : conn[d].link # "up" => conn[d].down = <<>>
        BY DEF IInv, NetOK
    <2>2. ASSUME NEW d \in Conn
          PROVE  conn'[d].link # "up" => conn'[d].down = <<>>
        <3>1. CASE d = Worker
            BY <1>1, <1>6, <3>1
        <3>2. CASE d = id
            BY <1>1, <1>6, <2>1, <3>2
        <3>3. CASE d # Worker /\ d # id
            BY <1>6, <2>1, <3>3, Places
        <3>. QED
            BY <3>1, <3>2, <3>3
    <2>. QED
        BY <1>1, <1>6, <2>1, <2>2 DEF NetOK
<1>11. AgentsFit'
    <2>1. ASSUME NEW d \in PCs
          PROVE  /\ UpFits(d, agt'[d], conn'[d].up, srv', shots')
                 /\ DownFits(d, agt'[d], conn'[d].down, srv')
        <3>1. UpFits(d, agt[d], conn[d].up, srv, shots) /\ DownFits(d, agt[d], conn[d].down, srv)
            BY DEF IInv, AgentsFit
        <3>2. ~Here(d, srv) /\ ~Here(d, srv') /\ shots \in Nat /\ shots <= shots
            BY <1>7 DEF Here, IInv, TypeOK
        <3>3. UpFits(d, agt[d], conn[d].up, srv', shots) /\ DownFits(d, agt[d], conn[d].down, srv')
            BY <3>1, <3>2, UpSame, DownSame
        <3>4. conn'[d].up = conn[d].up
            BY <1>6
        <3>5. CASE conn'[d].down = conn[d].down
            BY <3>3, <3>4, <3>5
        <3>6. CASE d = id /\ conn'[id].down = Append(conn[id].down, m)
            BY <1>9, <3>3, <3>4, <3>6, DownAsks
        <3>7. conn'[d].down = conn[d].down \/ (d = id /\ conn'[id].down = Append(conn[id].down, m))
            BY <1>6
        <3>. QED
            BY <3>5, <3>6, <3>7, Zenon
    <2>. QED
        BY <2>1, Zenon DEF AgentsFit
<1>12. shots' \in Nat /\ shots <= shots' /\ TypeOK /\ shots \in Nat
    BY DEF IInv, TypeOK
<1>13. WorkerFits'
    BY <1>6, <1>12, FrameWorker DEF IInv
<1>14. PageOK'
    BY <1>12, FramePage DEF IInv
<1>15. Dialogue' /\ OnePicture'
    <2>. SUFFICES ASSUME WorkerUp', srv'.at # "dead"
                  PROVE  Dialogue' /\ OnePicture'
        BY DEF Dialogue, OnePicture
    <2>1. WorkerUp /\ srv'.at = "loop"
        BY <1>6, <1>7 DEF WorkerUp
    <2>2. /\ worker.at = "answer" /\ worker.asked = id /\ worker.asked \in PCs
          /\ r.rest = <<>> /\ conn[Worker].down = <<>> /\ conn[Worker].up # <<>>
        BY <2>1, LoopFinds, ReadsNone, Places DEF PCs
    <2>3. Dialogue'
        BY <1>6, <2>1, <2>2 DEF Dialogue, Talks
    <2>4. \A c \in PCs : NoAsk(conn[c].down) /\ NoOffer(conn[c].up)
        BY <2>1, <2>2 DEF IInv, OnePicture, Waiting
    <2>5. \A c \in PCs : c # id => NoAsk(conn'[c].down) /\ NoOffer(conn'[c].up)
        BY <1>6, <2>4
    <2>6. NoOffer(conn'[id].up)
        BY <1>6, <2>4
    <2>7. OneAsk(conn'[id].down)
        <3>1. OneAsk(Append(conn[id].down, m))
            BY <1>9, <2>4, AskOnce
        <3>2. OneAsk(conn[id].down)
            BY <2>4 DEF NoAsk, OneAsk
        <3>. QED
            BY <1>6, <3>1, <3>2
    <2>8. OnePicture'
        BY <1>6, <2>1, <2>2, <2>5, <2>6, <2>7 DEF OnePicture, Waiting
    <2>. QED
        BY <2>3, <2>8
<1>. QED
    BY <1>8, <1>10, <1>11, <1>13, <1>14, <1>15 DEF IInv

LEMMA LoopWorkerKeeps ==
    ASSUME IInv, LoopWorker
    PROVE  IInv'
<1>1. srv.at = "loop" /\ UNCHANGED <<sockets, agt, worker, file, history>>
    BY DEF LoopWorker
<1>2. UNCHANGED <<nconn, fdtab, agt, worker, file, page>> /\ UNCHANGED <<shots, nreq, ntimers, late>>
    BY <1>1 DEF sockets, history
<1>3. PICK r \in Reads(conn[Worker].up) :
        LET left == [conn EXCEPT ![Worker].up = r.rest]
            id   == Addressee(r.batch)
        IN  IF id = 0 THEN conn' = left /\ UNCHANGED srv
            ELSE IF ~Client(id) THEN conn' = left /\ srv' = Dead
            ELSE \E w \in WriteTo(left, id, ShotRequest("screenshot", "request", id)) :
                   After(w, Looping)
    BY DEF LoopWorker, Dead
<1>4. CASE Addressee(r.batch) = 0 \/ ~Client(Addressee(r.batch))
    BY <1>1, <1>2, <1>3, <1>4, LoopWorkerDrops
<1>5. CASE Addressee(r.batch) # 0 /\ Client(Addressee(r.batch))
    <2>. DEFINE left == [conn EXCEPT ![Worker].up = r.rest]
                id   == Addressee(r.batch)
    <2>1. id \in PCs
        BY <1>5 DEF Client
    <2>. DEFINE m == ShotRequest("screenshot", "request", id)
    <2>2. PICK w \in WriteTo(left, id, m) : After(w, Looping)
        BY <1>3, <1>5
    <2>3. /\ Worker \in Conn /\ conn \in [Conn -> Link] /\ r.rest \in Seq(Sent)
          /\ id \in Conn /\ id # Worker
        BY <2>1, WorkerTexts, Places
    <2>4. Alters(conn, left, Worker, r.rest, conn[Worker].down, conn[Worker].link)
        BY <2>3, SetUp
    <2>5. IsText(m, "request", "request")
        BY <2>1, RequestsOK
    <2>. HIDE DEF id, left, m
    <2>6. m \in Sent /\ m \in Requests /\ ~IsDue(m)
        BY <2>5 DEF IsText, IsDue
    <2>7. left \in [Conn -> Link] /\ left[id] = conn[id]
        BY <2>3, <2>4 DEF Alters
    <2>8. Passed(left, id, m)
        BY <2>2, <2>3, <2>6, <2>7, Sends DEF Passed
    <2>9. id = Addressee(r.batch)
        BY DEF id
    <2>. QED
        BY <1>1, <1>2, <2>1, <2>4, <2>6, <2>8, <2>9, LoopWorkerPasses
<1>. QED
    BY <1>4, <1>5

(* The server reads an answer to a timer's action.                         *)
LEMMA LoopAgentKeepsBack ==
    ASSUME IInv, srv.at = "loop", UNCHANGED <<nconn, fdtab, srv, agt, worker, file, page>>,
           UNCHANGED <<shots, nreq, ntimers, late>>, NEW c \in PCs,
           NEW r \in Reads(conn[c].up), conn' = [conn EXCEPT ![c].up = r.rest]
    PROVE  IInv'
<1>1. c \in Conn /\ conn \in [Conn -> Link] /\ shots \in Nat /\ shots <= shots /\ conn[c].up \in Seq(Sent)
    BY Places DEF IInv, TypeOK, Link
<1>2. r.rest \in Seq(Sent)
    BY <1>1, ReadsParts
<1>3. Alters(conn, conn', c, r.rest, conn[c].down, conn[c].link)
    BY <1>1, <1>2, SetUp
<1>4. TypeOK'
    BY <1>3 DEF IInv, TypeOK, Alters
<1>5. conn[c].link # "up" => conn[c].down = <<>>
    BY <1>1 DEF IInv, NetOK
<1>6. NetOK' /\ WorkerFits' /\ Dialogue' /\ PageOK'
    BY <1>1, <1>3, <1>5, Frames DEF SameTalk
<1>7. AgentsFit'
    <2>1. UpFits(c, agt[c], conn[c].up, srv, shots) /\ DownFits(c, agt[c], conn[c].down, srv)
        BY DEF IInv, AgentsFit
    <2>2. ~Here(c, srv)
        BY DEF Here
    <2>3. UpFits(c, agt[c], r.rest, srv, shots)
        BY <1>1, <2>1, <2>2, UpRest
    <2>. QED
        BY <1>1, <1>3, <2>1, <2>3, OneAgent
<1>8. OnePicture'
    <2>1. NoOffer(conn[c].up) => NoOffer(r.rest)
        BY <1>1, AskRest
    <2>. QED
        BY <1>3, <2>1, Drops DEF SameTalk
<1>. QED
    BY <1>4, <1>6, <1>7, <1>8 DEF IInv

(* The server starts to read the image that an agent has offered it.       *)
LEMMA LoopAgentStarts ==
    ASSUME IInv, srv.at = "loop", UNCHANGED <<nconn, fdtab, agt, worker, file, page>>,
           UNCHANGED <<shots, nreq, ntimers, late>>, NEW c \in PCs,
           srv' = [at |-> "image", pc |-> c, len |-> agt[c].len, img |-> <<>>],
           agt[c].at = "transfer", Exchanging(agt[c], shots), ~NoOffer(conn[c].up),
           NEW down, NEW link, Alters(conn, conn', c, <<>>, down, link),
           link # "up" => down = <<>>, NoAsk(conn[c].down) => NoAsk(down),
           DownFits(c, agt[c], down, srv')
    PROVE  IInv'
<1>1. /\ c \in Conn /\ Worker \in Conn /\ c # Worker
      /\ shots \in Nat /\ shots' \in Nat /\ shots <= shots' /\ TypeOK
    BY Places DEF IInv, TypeOK
<1>2. srv'.at = "image" /\ srv'.pc = c /\ srv' \in ServerState
    <2>1. <<>> \in Image /\ agt[c].len \in ImageSize
        BY EmptySeq DEF Image, Exchanging
    <2>. QED
        BY <2>1 DEF ServerState
<1>3. TypeOK'
    <2>1. c # 0
        BY DEF PCs
    <2>. QED
        BY <1>2, <2>1 DEF IInv, TypeOK, Alters
<1>4. NetOK' /\ PageOK'
    BY <1>1, FrameNet, FramePage DEF IInv
<1>5. conn'[Worker] = conn[Worker] /\ conn'[c].down = down /\ conn'[c].up = <<>>
      /\ \A d \in PCs : d # c => conn'[d] = conn[d]
    BY <1>1, Places DEF Alters
<1>6. WorkerFits'
    BY <1>1, <1>5, FrameWorker DEF IInv
<1>7. AgentsFit'
    <2>1. UpFits(c, agt[c], <<>>, srv', shots)
        BY UpStarts
    <2>2. \A d \in PCs : d # c => ~Here(d, srv) /\ ~Here(d, srv')
        BY <1>2 DEF Here
    <2>. QED
        BY <1>1, <2>1, <2>2, OneAgent
<1>8. Dialogue' /\ OnePicture'
    <2>. SUFFICES ASSUME WorkerUp'
                  PROVE  Dialogue' /\ OnePicture'
        BY DEF Dialogue, OnePicture
    <2>1. WorkerUp
        BY <1>5 DEF WorkerUp
    <2>2. Waiting /\ c = worker.asked /\ NoAsk(conn[c].down) /\ agt[c].shot > worker.since
        BY <2>1 DEF IInv, OnePicture
    <2>3. \A d \in PCs : NoAsk(conn'[d].down) /\ NoOffer(conn'[d].up)
        BY <1>5, <2>1, <2>2, NothingAsked DEF IInv, OnePicture
    <2>4. Dialogue'
        BY <1>2, <1>5, <2>2 DEF Dialogue, Talks, Waiting
    <2>5. OnePicture'
        BY <1>2, <2>2, <2>3 DEF OnePicture, Waiting
    <2>. QED
        BY <2>4, <2>5
<1>. QED
    BY <1>3, <1>4, <1>6, <1>7, <1>8 DEF IInv

LEMMA LoopAgentKeeps ==
    ASSUME IInv, NEW c \in PCs, LoopAgent(c)
    PROVE  IInv'
<1>. DEFINE a == agt[c]
            up == conn[c].up
            down == conn[c].down
            m == ShotRequest("screenshot", "transfer", 0)
<1>1. /\ srv.at = "loop" /\ UNCHANGED <<nconn, fdtab, agt, worker, file, page>>
      /\ UNCHANGED <<shots, nreq, ntimers, late>>
    BY DEF LoopAgent, sockets, history
<1>2. PICK r \in Reads(up) :
        LET left == [conn EXCEPT ![c].up = r.rest]
        IN  IF Parses(r.batch) /\ r.batch[1].uri = "screenshot"
            THEN \E w \in WriteTo(left, c, m) :
                   After(w, [at |-> "image", pc |-> c, len |-> r.batch[1].len, img |-> <<>>])
            ELSE conn' = left /\ UNCHANGED srv
    BY DEF LoopAgent, KeepBack
<1>3. CASE ~(Parses(r.batch) /\ r.batch[1].uri = "screenshot")
    BY <1>1, <1>2, <1>3, LoopAgentKeepsBack
<1>4. CASE Parses(r.batch) /\ r.batch[1].uri = "screenshot"
    <2>. DEFINE left == [conn EXCEPT ![c].up = r.rest]
                next == [at |-> "image", pc |-> c, len |-> a.len, img |-> <<>>]
    <2>1. /\ c \in Conn /\ conn \in [Conn -> Link] /\ shots \in Nat
          /\ up \in Seq(Sent) /\ down \in Seq(Sent) /\ a.at \in {"idle", "transfer", "finished"}
        BY Places DEF IInv, TypeOK, Link, AgentState
    <2>2. UpFits(c, a, up, srv, shots) /\ DownFits(c, a, down, srv) /\ ~Here(c, srv)
        BY <1>1 DEF IInv, AgentsFit, Here
    <2>3. /\ a.at = "transfer" /\ r.rest = <<>> /\ Exchanging(a, shots)
          /\ r.batch[1].len = a.len /\ IsOffer(r.batch[1])
          /\ up[1] = r.batch[1] /\ 1 \in DOMAIN up
        BY <1>4, <2>1, <2>2, UpOffer
    <2>4. ~NoOffer(up)
        BY <2>3 DEF NoOffer
    <2>5. NoneDue(down)
        BY <2>2, <2>3, DownDue
    <2>6. IsText(m, "request", "transfer")
        BY RequestsOK
    <2>7. m \in Sent /\ m \in Requests /\ m.stage = "transfer" /\ ~IsAsk(m)
        BY <2>6 DEF IsText, IsAsk
    <2>8. PICK w \in WriteTo(left, c, m) : After(w, next)
        BY <1>2, <1>4, <2>3
    <2>9. Alters(conn, left, c, <<>>, down, conn[c].link)
        BY <2>1, <2>3, EmptySeq, SetUp
    <2>. HIDE DEF a, up, down, m, left
    <2>10. left \in [Conn -> Link] /\ left[c].link = conn[c].link /\ left[c].up = <<>> /\ left[c].down = down
        BY <2>9 DEF Alters
    <2>11. Here(c, next)
        BY DEF Here
    <2>. HIDE DEF next
    <2>12. \/ /\ srv' = next
              /\ Alters(left, conn', c, <<>>, Append(down, m), "up")
           \/ /\ conn[c].link # "up" /\ srv' \in {next, Looping, Dead}
              /\ \E l \in Broken : Alters(left, conn', c, <<>>, down, l)
        BY <2>1, <2>7, <2>8, <2>10, Sends
    <2>13. CASE srv' = next /\ Alters(left, conn', c, <<>>, Append(down, m), "up")
        <3>1. Alters(conn, conn', c, <<>>, Append(down, m), "up")
            BY <2>9, <2>13, AltersTwice
        <3>2. DownFits(c, a, Append(down, m), next)
            BY <2>1, <2>2, <2>3, <2>5, <2>7, <2>11, DownCalls
        <3>3. NoAsk(down) => NoAsk(Append(down, m))
            BY <2>1, <2>7, AskMore
        <3>. QED
            BY <1>1, <2>3, <2>4, <2>13, <3>1, <3>2, <3>3, LoopAgentStarts DEF next, a, up, down
    <2>14. CASE /\ conn[c].link # "up" /\ srv' \in {next, Looping, Dead}
                /\ \E l \in Broken : Alters(left, conn', c, <<>>, down, l)
        <3>1. down = <<>>
            BY <2>1, <2>14 DEF IInv, NetOK, down
        <3>2. PICK l \in Broken : Alters(left, conn', c, <<>>, <<>>, l)
            BY <2>14, <3>1
        <3>3. Alters(conn, conn', c, <<>>, <<>>, l)
            BY <2>9, <3>2, AltersTwice
        <3>4. CASE srv' = next
            <4>1. DownFits(c, a, <<>>, next)
                BY DownEmpty
            <4>. QED
                BY <1>1, <2>3, <2>4, <3>3, <3>4, <4>1, NothingAsked, LoopAgentStarts DEF next, a, up
        <3>5. CASE srv' \in {Looping, Dead}
            <4>1. srv' \in ServerState /\ srv'.at \in {"loop", "dead"} /\ srv'.pc = 0
                BY <3>5, LoopingOK
            <4>2. TypeOK'
                BY <1>1, <3>3, <4>1 DEF IInv, TypeOK, Alters
            <4>3. NetOK' /\ WorkerFits' /\ PageOK' /\ Dialogue' /\ OnePicture'
                BY <1>1, <3>1, <3>3, <3>5, NothingAsked, FailedWrite DEF down
            <4>4. \A d \in PCs : ~Here(d, srv) /\ ~Here(d, srv')
                BY <1>1, <4>1 DEF Here
            <4>5. UpFits(c, a, <<>>, srv', shots) /\ DownFits(c, a, <<>>, srv')
                BY <2>3, <4>4, UpEmpty, DownEmpty
            <4>6. shots' \in Nat /\ shots <= shots'
                BY <1>1, <2>1
            <4>7. AgentsFit'
                BY <1>1, <3>3, <4>4, <4>5, <4>6, OneAgent DEF a
            <4>. QED
                BY <4>2, <4>3, <4>7 DEF IInv
        <3>. QED
            BY <2>14, <3>4, <3>5
    <2>. QED
        BY <2>12, <2>13, <2>14
<1>. QED
    BY <1>3, <1>4

(* While the server reads an image, the worker that is there waits for it. *)
LEMMA ImageTalk ==
    ASSUME IInv, srv.at = "image"
    PROVE  /\ srv.pc \in PCs
           /\ WorkerUp => /\ worker.at = "answer" /\ worker.asked = srv.pc
                          /\ conn[Worker].up = <<>> /\ conn[Worker].down = <<>>
                          /\ agt[srv.pc].shot > worker.since
                          /\ \A d \in PCs : NoAsk(conn[d].down) /\ NoOffer(conn[d].up)
<1>1. srv.pc \in PCs
    BY DEF IInv, TypeOK, ServerState
<1>2. ASSUME WorkerUp
      PROVE  /\ worker.at = "answer" /\ worker.asked = srv.pc
             /\ conn[Worker].up = <<>> /\ conn[Worker].down = <<>>
             /\ agt[srv.pc].shot > worker.since
             /\ \A d \in PCs : NoAsk(conn[d].down) /\ NoOffer(conn[d].up)
    <2>1. Talks(worker, conn[Worker].up, conn[Worker].down, srv, shots)
        BY <1>2 DEF IInv, Dialogue
    <2>2. worker.at \in {"idle", "answer", "image", "end", "crashed"}
        BY DEF IInv, TypeOK, WorkerState
    <2>3. worker.at = "answer" /\ conn[Worker].up = <<>> /\ conn[Worker].down = <<>>
        BY <2>1, <2>2 DEF Talks
    <2>. QED
        BY <1>2, <2>3 DEF IInv, OnePicture, Waiting
<1>. QED
    BY <1>1, <1>2

LEMMA ImageReadKeeps ==
    ASSUME IInv, ImageRead
    PROVE  IInv'
<1>. DEFINE c == srv.pc
            a == agt[c]
            up == conn[c].up
<1>1. /\ srv.at = "image" /\ UNCHANGED <<nconn, fdtab, agt, worker, file, page>>
      /\ UNCHANGED <<shots, nreq, ntimers, late>>
    BY DEF ImageRead, sockets, history
<1>2. PICK r \in Reads(up) :
        conn' = [conn EXCEPT ![c].up = r.rest] /\ srv' = [srv EXCEPT !.img = @ \o r.batch]
    BY DEF ImageRead
<1>3. /\ c \in PCs /\ c \in Conn /\ conn \in [Conn -> Link] /\ up \in Seq(Sent)
      /\ shots \in Nat /\ shots <= shots /\ a.at \in {"idle", "transfer", "finished"}
      /\ srv \in ServerState /\ srv.img \in Image
    BY <1>1, ImageTalk, Places DEF IInv, TypeOK, Link, AgentState, ServerState
<1>4. /\ srv'.at = "image" /\ srv'.pc = c /\ srv'.len = srv.len
      /\ srv'.img = Joined(srv.img, r.batch)
    BY <1>1, <1>2, <1>3 DEF Joined, ServerState
<1>5. Here(c, srv) /\ Here(c, srv') /\ \A d \in PCs : d # c => ~Here(d, srv) /\ ~Here(d, srv')
    BY <1>1, <1>4 DEF Here
<1>6. UpFits(c, a, up, srv, shots) /\ DownFits(c, a, conn[c].down, srv)
    BY <1>3 DEF IInv, AgentsFit
<1>7. UpFits(c, a, r.rest, srv', shots) /\ srv'.img \in Image
    BY <1>1, <1>3, <1>4, <1>5, <1>6, UpReads
<1>8. DownFits(c, a, conn[c].down, srv')
    BY <1>5, <1>6, DownSame
<1>9. r.rest \in Seq(Sent)
    BY <1>3, ReadsParts
<1>10. Alters(conn, conn', c, r.rest, conn[c].down, conn[c].link)
    BY <1>2, <1>3, <1>9, SetUp
<1>11. NoOffer(up) => NoOffer(r.rest)
    BY <1>3, AskRest
<1>12. srv' \in ServerState
    <2>1. \A i \in Image : [srv EXCEPT !.img = i] \in ServerState /\ [srv EXCEPT !.img = i].img = i
        BY <1>3 DEF ServerState
    <2>2. srv' = [srv EXCEPT !.img = srv.img \o r.batch] /\ srv.img \o r.batch \in Image
        BY <1>2, <1>4, <1>7, Zenon DEF Joined
    <2>. QED
        BY <2>1, <2>2
<1>13. SameTalk
    BY <1>1, <1>4 DEF SameTalk
<1>14. conn[c].link # "up" => conn[c].down = <<>>
    BY <1>3 DEF IInv, NetOK
<1>. HIDE DEF c, a, up
<1>15. TypeOK'
    <2>1. srv'.pc # 0
        BY <1>3, <1>4 DEF PCs
    <2>. QED
        BY <1>1, <1>10, <1>12, <2>1 DEF IInv, TypeOK, Alters
<1>16. NetOK' /\ WorkerFits' /\ Dialogue' /\ PageOK'
    BY <1>1, <1>3, <1>10, <1>13, <1>14, Frames
<1>17. AgentsFit'
    BY <1>1, <1>3, <1>5, <1>7, <1>8, <1>10, OneAgent DEF a
<1>18. OnePicture'
    BY <1>1, <1>3, <1>10, <1>11, <1>13, Drops DEF up
<1>. QED
    BY <1>15, <1>16, <1>17, <1>18 DEF IInv

(* The server leaves an image, whose agent has gone, without offering it.  *)
LEMMA ImageEnds ==
    ASSUME IInv, srv.at = "image", srv' \in {Looping, Dead},
           UNCHANGED <<nconn, fdtab, agt, worker, page, shots, nreq, ntimers, late>>, file' \in Image,
           NEW c, c = srv.pc, conn[c].up = <<>>, conn[c].down = <<>>,
           NEW l, Alters(conn, conn', c, <<>>, <<>>, l)
    PROVE  IInv'
<1>1. /\ c \in PCs /\ c \in Conn /\ Worker \in Conn /\ c # Worker /\ TypeOK
      /\ shots \in Nat /\ shots' \in Nat /\ shots <= shots'
    BY ImageTalk, Places DEF IInv, TypeOK
<1>2. srv' \in ServerState /\ srv'.at \in {"loop", "dead"} /\ srv'.pc = 0
    BY LoopingOK
<1>3. TypeOK'
    BY <1>2 DEF IInv, TypeOK, Alters
<1>4. /\ conn'[Worker] = conn[Worker] /\ conn'[c].up = <<>> /\ conn'[c].down = <<>>
      /\ \A d \in PCs : d # c => conn'[d] = conn[d]
    BY <1>1, Places DEF Alters
<1>5. NetOK' /\ PageOK'
    BY <1>1, FrameNet, FramePage DEF IInv
<1>6. WorkerFits'
    BY <1>1, <1>4, ImageTalk, FrameWorker DEF IInv
<1>7. AgentsFit'
    <2>1. UpFits(c, agt[c], <<>>, srv, shots)
        BY <1>1 DEF IInv, AgentsFit
    <2>2. ~Here(c, srv') /\ \A d \in PCs : d # c => ~Here(d, srv) /\ ~Here(d, srv')
        BY <1>2 DEF Here
    <2>3. UpFits(c, agt[c], <<>>, srv', shots) /\ DownFits(c, agt[c], <<>>, srv')
        BY <2>1, <2>2, UpEnds, DownEmpty
    <2>. QED
        BY <1>1, <2>2, <2>3, OneAgent
<1>8. Dialogue' /\ OnePicture'
    <2>. SUFFICES ASSUME WorkerUp', srv'.at # "dead"
                  PROVE  Dialogue' /\ OnePicture'
        BY DEF Dialogue, OnePicture
    <2>1. /\ worker.at = "answer" /\ worker.asked = c /\ srv'.at = "loop"
          /\ conn[Worker].up = <<>> /\ conn[Worker].down = <<>>
          /\ agt[c].shot > worker.since
          /\ \A d \in PCs : NoAsk(conn[d].down) /\ NoOffer(conn[d].up)
        BY <1>2, <1>4, ImageTalk DEF WorkerUp
    <2>2. Dialogue'
        BY <1>4, <2>1 DEF Dialogue, Talks
    <2>3. \A d \in PCs : NoAsk(conn'[d].down) /\ NoOffer(conn'[d].up)
        BY <1>4, <2>1, NothingAsked
    <2>4. OnePicture'
        <3>1. c \in PCs
            BY <1>1
        <3>. QED
            BY <2>1, <2>3, <3>1 DEF OnePicture, Waiting
    <2>. QED
        BY <2>2, <2>4
<1>. QED
    BY <1>3, <1>5, <1>6, <1>7, <1>8 DEF IInv

LEMMA ImageEofKeeps ==
    ASSUME IInv, ImageEof
    PROVE  IInv'
<1>. DEFINE c == srv.pc
<1>1. /\ srv.at = "image" /\ srv' = Looping /\ conn[c].up = <<>> /\ conn[c].link # "up"
      /\ UNCHANGED <<conn, nconn, fdtab, agt, worker, file, page, shots, nreq, ntimers, late>>
    BY DEF ImageEof, AtEof, netVars, history
<1>2. c \in Conn /\ conn \in [Conn -> Link] /\ file \in Image
    BY <1>1, ImageTalk, Places DEF IInv, TypeOK
<1>3. conn[c].down = <<>>
    BY <1>1, <1>2 DEF IInv, NetOK
<1>4. Alters(conn, conn', c, <<>>, <<>>, conn[c].link)
    BY <1>1, <1>2, <1>3 DEF Alters
<1>. HIDE DEF c
<1>. QED
    BY <1>1, <1>2, <1>3, <1>4, ImageEnds DEF c

(* It has the whole image, and tells the agent.                            *)
LEMMA ImageOffers ==
    ASSUME IInv, srv.at = "image", srv' = [srv EXCEPT !.at = "offer"], Len(srv.img) = srv.len,
           UNCHANGED <<nconn, fdtab, agt, worker, page, shots, nreq, ntimers, late>>, file' = srv.img,
           NEW c, c = srv.pc, NEW down, NEW link, Alters(conn, conn', c, conn[c].up, down, link),
           link # "up" => down = <<>>, NoAsk(conn[c].down) => NoAsk(down),
           DownFits(c, agt[c], down, srv')
    PROVE  IInv'
<1>1. /\ c \in PCs /\ c \in Conn /\ Worker \in Conn /\ c # Worker /\ TypeOK
      /\ shots \in Nat /\ shots' \in Nat /\ shots <= shots'
      /\ conn[c].up \in Seq(Sent) /\ agt[c].at \in {"idle", "transfer", "finished"}
      /\ srv \in ServerState /\ srv.img \in Image
    <2>1. c \in PCs /\ c \in Conn /\ Worker \in Conn /\ c # Worker
        BY ImageTalk, Places
    <2>2. /\ TypeOK /\ shots \in Nat /\ shots' \in Nat /\ shots <= shots'
          /\ srv \in ServerState /\ conn \in [Conn -> Link] /\ agt \in [PCs -> AgentState]
        BY DEF IInv, TypeOK
    <2>3. conn[c].up \in Seq(Sent)
        BY <2>1, <2>2 DEF Link
    <2>4. agt[c].at \in {"idle", "transfer", "finished"}
        BY <2>1, <2>2 DEF AgentState
    <2>5. srv.img \in Image
        BY <2>2 DEF ServerState
    <2>. QED
        BY <2>1, <2>2, <2>3, <2>4, <2>5
<1>2. /\ srv' \in ServerState /\ srv'.at = "offer" /\ srv'.pc = c
      /\ srv'.len = srv.len /\ srv'.img = srv.img
    BY <1>1 DEF ServerState
<1>3. TypeOK'
    BY <1>1, <1>2 DEF IInv, TypeOK, Alters
<1>4. /\ conn'[Worker] = conn[Worker] /\ conn'[c].up = conn[c].up /\ conn'[c].down = down
      /\ \A d \in PCs : d # c => conn'[d] = conn[d]
    BY <1>1, Places DEF Alters
<1>5. NetOK' /\ PageOK'
    BY <1>1, FrameNet, FramePage DEF IInv
<1>6. WorkerFits'
    BY <1>1, <1>4, ImageTalk, FrameWorker DEF IInv
<1>7. Here(c, srv) /\ \A d \in PCs : ~Here(d, srv') /\ (d # c => ~Here(d, srv))
    BY <1>2 DEF Here
<1>8. UpFits(c, agt[c], conn[c].up, srv, shots)
    BY <1>1 DEF IInv, AgentsFit
<1>9. /\ agt[c].at = "finished" /\ conn[c].up = <<>> /\ Exchanging(agt[c], shots)
      /\ srv.len = agt[c].len /\ srv.img = Bytes(c, agt[c].shot, agt[c].len)
    BY <1>1, <1>7, <1>8, UpWhole
<1>10. AgentsFit'
    <2>1. UpFits(c, agt[c], <<>>, srv', shots)
        BY <1>1, <1>7, <1>9, UpEmpty
    <2>. QED
        BY <1>1, <1>7, <1>9, <2>1, OneAgent
<1>11. Dialogue' /\ OnePicture'
    <2>. SUFFICES ASSUME WorkerUp'
                  PROVE  Dialogue' /\ OnePicture'
        BY DEF Dialogue, OnePicture
    <2>1. /\ worker.at = "answer" /\ worker.asked = c
          /\ conn[Worker].up = <<>> /\ conn[Worker].down = <<>>
          /\ agt[c].shot > worker.since
          /\ \A d \in PCs : NoAsk(conn[d].down) /\ NoOffer(conn[d].up)
        BY <1>4, ImageTalk DEF WorkerUp
    <2>2. Got(worker, srv.img, srv.len, shots)
        <3>1. agt[c].len \in ImageSize /\ agt[c].shot \in 1..shots /\ worker.since \in Nat
            BY <1>9 DEF Exchanging, IInv, TypeOK, WorkerState
        <3>2. agt[c].shot \in (worker.since + 1)..shots
            BY <1>1, <2>1, <3>1
        <3>. QED
            BY <1>9, <2>1, <3>1, <3>2 DEF Got
    <2>3. Dialogue'
        BY <1>2, <1>4, <2>1, <2>2 DEF Dialogue, Talks
    <2>4. \A d \in PCs : NoAsk(conn'[d].down) /\ NoOffer(conn'[d].up)
        BY <1>4, <2>1
    <2>5. OnePicture'
        BY <1>2, <2>4 DEF OnePicture, Waiting
    <2>. QED
        BY <2>3, <2>5
<1>. QED
    BY <1>3, <1>5, <1>6, <1>10, <1>11 DEF IInv

LEMMA ImageSavedKeeps ==
    ASSUME IInv, ImageSaved
    PROVE  IInv'
<1>. DEFINE c == srv.pc
            a == agt[c]
            m == ShotRequest("screenshot", "finished", 0)
            next == [srv EXCEPT !.at = "offer"]
<1>1. /\ srv.at = "image" /\ Len(srv.img) = srv.len /\ file' = srv.img
      /\ UNCHANGED <<nconn, fdtab, agt, worker, page, shots, nreq, ntimers, late>>
    BY DEF ImageSaved, sockets, history
<1>2. PICK w \in WriteTo(conn, c, m) : After(w, next)
    BY DEF ImageSaved
<1>3. /\ c \in PCs /\ c \in Conn /\ conn \in [Conn -> Link] /\ shots \in Nat
      /\ conn[c].up \in Seq(Sent) /\ conn[c].down \in Seq(Sent)
      /\ a.at \in {"idle", "transfer", "finished"} /\ srv.img \in Image
    BY <1>1, ImageTalk, Places DEF IInv, TypeOK, Link, AgentState, ServerState
<1>4. UpFits(c, a, conn[c].up, srv, shots) /\ DownFits(c, a, conn[c].down, srv)
    BY <1>3 DEF IInv, AgentsFit
<1>5. Here(c, srv) /\ ~Here(c, next)
    <2>1. next.at = "offer"
        BY DEF IInv, TypeOK, ServerState
    <2>. QED
        BY <1>1, <2>1 DEF Here
<1>6. a.at = "finished" /\ conn[c].up = <<>>
    BY <1>1, <1>3, <1>4, <1>5, UpWhole
<1>7. NoneDue(conn[c].down)
    BY <1>4, <1>5, <1>6, DownDue
<1>8. IsText(m, "request", "finished")
    BY RequestsOK
<1>9. m \in Sent /\ m \in Requests /\ m.stage = "finished" /\ ~IsAsk(m)
    BY <1>8 DEF IsText, IsAsk
<1>. HIDE DEF c, a, m, next
<1>10. \/ srv' = next /\ Alters(conn, conn', c, conn[c].up, Append(conn[c].down, m), "up")
       \/ /\ conn[c].link # "up" /\ srv' \in {next, Looping, Dead}
          /\ \E l \in Broken : Alters(conn, conn', c, conn[c].up, conn[c].down, l)
    BY <1>2, <1>3, <1>9, Sends
<1>11. CASE srv' = next /\ Alters(conn, conn', c, conn[c].up, Append(conn[c].down, m), "up")
    <2>1. DownFits(c, a, Append(conn[c].down, m), next)
        BY <1>3, <1>4, <1>5, <1>6, <1>7, <1>9, DownCalls
    <2>2. NoAsk(conn[c].down) => NoAsk(Append(conn[c].down, m))
        BY <1>3, <1>9, AskMore
    <2>. QED
        BY <1>1, <1>11, <2>1, <2>2, ImageOffers DEF next, a, c
<1>12. CASE /\ conn[c].link # "up" /\ srv' \in {next, Looping, Dead}
            /\ \E l \in Broken : Alters(conn, conn', c, conn[c].up, conn[c].down, l)
    <2>1. conn[c].down = <<>>
        BY <1>3, <1>12 DEF IInv, NetOK
    <2>2. PICK l \in Broken : Alters(conn, conn', c, conn[c].up, <<>>, l)
        BY <1>12, <2>1
    <2>3. CASE srv' = next
        <3>1. DownFits(c, a, <<>>, next)
            BY DownEmpty
        <3>. QED
            BY <1>1, <2>2, <2>3, <3>1, NothingAsked, ImageOffers DEF next, a, c
    <2>4. CASE srv' \in {Looping, Dead}
        BY <1>1, <1>3, <1>6, <2>1, <2>2, <2>4, ImageEnds DEF c
    <2>. QED
        BY <1>12, <2>3, <2>4
<1>. QED
    BY <1>10, <1>11, <1>12

(* A step of the server's dialogue with the worker.                        *)
LEMMA ServerGives ==
    ASSUME IInv, srv.at \in {"offer", "serve"}, srv' \in ServerState, srv'.at # "image",
           UNCHANGED <<nconn, fdtab, agt, worker, file, page, shots, nreq, ntimers>>,
           late' \in BOOLEAN,
           NEW up, NEW down, NEW link, Alters(conn, conn', Worker, up, down, link),
           link # "up" => down = <<>>, \A n \in DOMAIN up : up[n] \in Requests,
           link = "up" <=> WorkerUp,
           WorkerUp => Reading(worker, down, file, shots),
           WorkerUp /\ srv'.at # "dead" => Talks(worker, up, down, srv', shots)
    PROVE  IInv'
<1>1. TypeOK'
    BY DEF IInv, TypeOK, Alters
<1>2. NetOK' /\ AgentsFit' /\ PageOK' /\ \A c \in PCs : conn'[c] = conn[c]
    BY WorkerFrames
<1>3. conn'[Worker].up = up /\ conn'[Worker].down = down /\ conn'[Worker].link = link
    BY DEF Alters
<1>4. WorkerUp' <=> WorkerUp
    BY <1>3 DEF WorkerUp
<1>5. WorkerFits'
    <2>1. worker.at # "crashed"
        BY DEF IInv, WorkerFits
    <2>. QED
        BY <1>3, <1>4, <2>1 DEF IInv, WorkerFits
<1>6. Dialogue'
    BY <1>3, <1>4 DEF Dialogue
<1>7. OnePicture'
    <2>. SUFFICES ASSUME WorkerUp, srv'.at # "dead"
                  PROVE  OnePicture'
        BY <1>4 DEF OnePicture
    <2>1. \A c \in PCs : NoAsk(conn'[c].down) /\ NoOffer(conn'[c].up)
        BY <1>2 DEF IInv, OnePicture, Waiting
    <2>2. worker.at = "answer" => worker.asked \in PCs
        BY DEF Reading
    <2>3. \A q : NoAsk(q) => OneAsk(q)
        BY DEF NoAsk, OneAsk
    <2>. QED
        BY <2>1, <2>2, <2>3 DEF OnePicture, Waiting
<1>. QED
    BY <1>1, <1>2, <1>5, <1>6, <1>7 DEF IInv

(* What goes through the worker's descriptor goes to the worker.           *)
LEMMA ToWorker ==
    ASSUME IInv
    PROVE  \A cn, m : Write(cn, WorkerFd, m) = WriteTo(cn, Worker, m)
<1>1. fdtab[WorkerFd] = Worker /\ WorkerFd \in Fd /\ Worker # 0
    BY Places DEF IInv, NetOK, Worker
<1>. QED
    BY <1>1 DEF Write

LEMMA OfferKeeps ==
    ASSUME IInv, Offer
    PROVE  IInv'
<1>. DEFINE m == ShotResponse("screenshot", "request", srv.len)
            next == [srv EXCEPT !.at = "serve"]
            down == conn[Worker].down
<1>1. /\ srv.at = "offer"
      /\ UNCHANGED <<nconn, fdtab, agt, worker, file, page, shots, nreq, ntimers, late>>
    BY DEF Offer, sockets, history
<1>2. PICK w \in WriteTo(conn, Worker, m) : After(w, next)
    BY ToWorker DEF Offer
<1>3. /\ Worker \in Conn /\ conn \in [Conn -> Link] /\ down \in Seq(Sent)
      /\ \A n \in DOMAIN conn[Worker].up : conn[Worker].up[n] \in Requests
      /\ WorkerUp \/ down = <<>>
    BY WorkerTexts DEF WorkerUp
<1>4. /\ srv \in ServerState /\ late \in BOOLEAN
      /\ worker.at \in {"idle", "answer", "image", "end", "crashed"}
    BY DEF IInv, TypeOK, WorkerState
<1>5. m \in Sent
    BY <1>4, ResponsesOK DEF IsText, ServerState
<1>6. next \in ServerState /\ next.at = "serve" /\ next.img = srv.img /\ next.len = srv.len
    BY <1>4 DEF ServerState
<1>. HIDE DEF next
<1>7. CASE WorkerUp
    <2>1. /\ worker.at = "answer" /\ conn[Worker].up = <<>> /\ down = <<>>
          /\ Got(worker, srv.img, srv.len, shots)
        BY <1>1, <1>4, <1>7 DEF IInv, Dialogue, Talks
    <2>2. Append(down, m) = <<m>>
        BY <2>1
    <2>3. srv' = next /\ Alters(conn, conn', Worker, <<>>, <<m>>, "up")
        BY <1>2, <1>3, <1>5, <1>7, <2>1, <2>2, Sends DEF WorkerUp
    <2>4. Reading(worker, <<m>>, file, shots)
        <3>1. worker.asked \in PCs /\ worker.img = <<>>
            BY <1>7, <2>1 DEF IInv, WorkerFits, Reading
        <3>2. srv.len \in ImageSize
            BY <2>1 DEF Got
        <3>. QED
            BY <2>1, <3>1, <3>2 DEF Reading
    <2>5. Talks(worker, <<>>, <<m>>, next, shots)
        BY <1>6, <2>1 DEF Talks
    <2>. QED
        BY <1>1, <1>4, <1>6, <1>7, <2>3, <2>4, <2>5, ServerGives
<1>8. CASE ~WorkerUp
    <2>1. PICK l \in Broken : Alters(conn, conn', Worker, conn[Worker].up, down, l)
        BY <1>2, <1>3, <1>5, <1>8, Sends DEF WorkerUp
    <2>2. srv' \in {next, Looping, Dead}
        BY <1>2, <1>3, <1>5, <1>8, Sends DEF WorkerUp
    <2>3. srv' \in ServerState /\ srv'.at # "image"
        BY <1>6, <2>2, LoopingOK
    <2>4. l # "up"
        BY DEF Broken
    <2>. QED
        BY <1>1, <1>3, <1>4, <1>8, <2>1, <2>3, <2>4, ServerGives
<1>. QED
    BY <1>7, <1>8

(* A stage that the server finds while it serves the worker.               *)
LEMMA ServeFinds ==
    ASSUME IInv, srv.at = "serve", WorkerUp, NEW r \in Reads(conn[Worker].up)
    PROVE  /\ r.rest = <<>>
           /\ \/ /\ worker.at = "image" /\ r.batch[1].stage = "transfer"
                 /\ worker.img = <<>> /\ conn[Worker].down = <<>>
                 /\ Got(worker, srv.img, worker.len, shots)
              \/ /\ worker.at = "end" /\ r.batch[1].stage = "finished"
                 /\ conn[Worker].down = <<>>
<1>1. conn[Worker].up # <<>>
    BY ReadsNone
<1>2. /\ worker.at \in {"idle", "answer", "image", "end", "crashed"}
      /\ worker.img \in Seq(Byte) /\ conn[Worker].down \in Seq(Sent)
    BY Places DEF IInv, TypeOK, WorkerState, Image, Link
<1>3. Talks(worker, conn[Worker].up, conn[Worker].down, srv, shots)
    BY DEF IInv, Dialogue
<1>4. worker.at = "image" \/ worker.at = "end"
    BY <1>1, <1>2, <1>3 DEF Talks
<1>5. CASE worker.at = "image"
    <2>. DEFINE m == ShotRequest("screenshot", "transfer", 0)
    <2>1. /\ conn[Worker].up = <<m>> /\ Arriving(worker, conn[Worker].down) = <<>>
          /\ Got(worker, srv.img, worker.len, shots)
        BY <1>1, <1>3, <1>5 DEF Talks
    <2>2. IsText(m, "request", "transfer")
        BY RequestsOK
    <2>3. m \in Sent /\ m.stage = "transfer"
        BY <2>2 DEF IsText
    <2>4. r.rest = <<>> /\ r.batch[1] = m
        BY <2>1, <2>3, ReadsOne
    <2>5. worker.img = <<>> /\ conn[Worker].down = <<>>
        <3>1. worker.img \o conn[Worker].down = <<>>
            BY <2>1 DEF Arriving
        <3>. QED
            BY <1>2, <3>1, ConcatEmptySeq
    <2>. QED
        BY <1>5, <2>1, <2>3, <2>4, <2>5
<1>6. CASE worker.at = "end"
    <2>. DEFINE m == ShotRequest("screenshot", "finished", 0)
    <2>1. conn[Worker].up = <<m>> /\ conn[Worker].down = <<>>
        BY <1>1, <1>3, <1>6 DEF Talks
    <2>2. IsText(m, "request", "finished")
        BY RequestsOK
    <2>3. m \in Sent /\ m.stage = "finished"
        BY <2>2 DEF IsText
    <2>4. r.rest = <<>> /\ r.batch[1] = m
        BY <2>1, <2>3, ReadsOne
    <2>. QED
        BY <1>6, <2>1, <2>3, <2>4
<1>. QED
    BY <1>4, <1>5, <1>6

(* An image that was got is data of its bytes.                             *)
LEMMA GotBytes ==
    ASSUME IInv, NEW img, NEW len, Got(worker, img, len, shots), worker.asked \in PCs
    PROVE  /\ len \in ImageSize /\ img \in Seq(Byte) /\ img \in Seq(Sent) /\ img # <<>>
           /\ Len(img) = len /\ IsImageOf(img, worker.asked) /\ img[1].shot > worker.since
<1>1. worker.since \in Nat /\ shots \in Nat
    BY DEF IInv, TypeOK, WorkerState
<1>2. PICK shot \in (worker.since + 1)..shots : img = Bytes(worker.asked, shot, len)
    BY DEF Got
<1>3. len \in ImageSize
    BY DEF Got
<1>4. shot \in 1..shots /\ shot \in Nat /\ shot > worker.since
    BY <1>1
<1>5. img \in Seq(Byte) /\ Len(img) = len /\ img[1].shot = shot /\ img # <<>>
    BY <1>2, <1>3, <1>4, BytesProperties
<1>6. img \in Seq(Sent)
    <2>1. Byte \subseteq Sent
        BY DEF Sent
    <2>. QED
        BY <1>5, <2>1, SeqMonotonic
<1>7. IsImageOf(img, worker.asked)
    BY <1>2, <1>3, <1>4 DEF IsImageOf
<1>. QED
    BY <1>3, <1>4, <1>5, <1>6, <1>7

(* It sends the image, to a worker that is there,                          *)
LEMMA ServeTransfers ==
    ASSUME IInv, srv.at = "serve", WorkerUp, UNCHANGED <<srv, nconn, fdtab, agt, worker, file>>,
           UNCHANGED <<page, shots, nreq, ntimers, late>>,
           worker.at = "image", worker.img = <<>>, Got(worker, srv.img, worker.len, shots),
           Alters(conn, conn', Worker, <<>>, srv.img, "up")
    PROVE  IInv'
<1>1. worker.asked \in PCs
    BY DEF IInv, WorkerFits, Reading
<1>2. worker.len \in ImageSize /\ srv.img \in Seq(Sent) /\ srv.img # <<>>
    BY <1>1, GotBytes
<1>3. Arriving(worker, srv.img) = srv.img
    BY <1>2, ConcatEmptySeq DEF Arriving
<1>4. Reading(worker, srv.img, file, shots)
    BY <1>1, <1>2, <1>3 DEF Reading
<1>5. Talks(worker, <<>>, srv.img, srv', shots')
    BY <1>2, <1>3 DEF Talks
<1>6. srv' \in ServerState /\ srv'.at # "image" /\ late' \in BOOLEAN
    BY DEF IInv, TypeOK
<1>. QED
    BY <1>4, <1>5, <1>6, ServerGives

(* or to one that has gone.                                                *)
LEMMA ServeGone ==
    ASSUME IInv, srv.at = "serve", ~WorkerUp, UNCHANGED <<nconn, fdtab, agt, worker, file>>,
           UNCHANGED <<page, shots, nreq, ntimers, late>>,
           srv' \in {srv, Looping, Dead}, NEW up, NEW link \in Broken,
           Alters(conn, conn', Worker, up, conn[Worker].down, link),
           \A n \in DOMAIN up : up[n] \in Requests
    PROVE  IInv'
<1>1. conn[Worker].down = <<>> /\ link # "up"
    BY WorkerTexts DEF WorkerUp, Broken
<1>2. srv' \in ServerState /\ srv'.at # "image" /\ late \in BOOLEAN
    BY LoopingOK DEF IInv, TypeOK
<1>. QED
    BY <1>1, <1>2, ServerGives

LEMMA ServeKeeps ==
    ASSUME IInv, Serve
    PROVE  IInv'
<1>. DEFINE down == conn[Worker].down
            m == ShotResponse("screenshot", "finished", srv.len)
<1>1. /\ srv.at = "serve" /\ UNCHANGED <<nconn, fdtab, agt, worker, file>>
      /\ UNCHANGED <<page, shots, nreq, ntimers, late>>
    BY DEF Serve, sockets, history
<1>2. PICK r \in Reads(conn[Worker].up) :
         LET left  == [conn EXCEPT ![Worker].up = r.rest]
             stage == r.batch[1].stage
         IN  CASE stage = "transfer" ->
                    \E w \in WriteImage(WorkerFd, srv.img) :
                      After([w EXCEPT !.conn[Worker].up = r.rest], srv)
               [] stage = "finished" -> Finish(left)
               [] OTHER -> conn' = left /\ UNCHANGED srv
    BY DEF Serve
<1>. DEFINE left == [conn EXCEPT ![Worker].up = r.rest]
            stage == r.batch[1].stage
<1>3. /\ Worker \in Conn /\ conn \in [Conn -> Link] /\ down \in Seq(Sent)
      /\ r.rest \in Seq(Sent) /\ \A n \in DOMAIN r.rest : r.rest[n] \in Requests
    BY WorkerTexts
<1>4. Alters(conn, left, Worker, r.rest, down, conn[Worker].link)
    BY <1>3, SetUp
<1>5. srv \in ServerState /\ late \in BOOLEAN
    BY DEF IInv, TypeOK
<1>6. m \in Sent
    BY <1>5, ResponsesOK DEF IsText, ServerState
<1>7. fdtab[WorkerFd] = Worker /\ Worker # 0
    BY DEF IInv, NetOK, Worker
<1>8. CASE stage = "transfer"
    <2>1. PICK w \in WriteImage(WorkerFd, srv.img) : After([w EXCEPT !.conn[Worker].up = r.rest], srv)
        BY <1>2, <1>8
    <2>2. CASE WorkerUp
        <3>. DEFINE cn1 == [conn EXCEPT ![Worker].down = @ \o srv.img]
        <3>1. w = [conn |-> cn1, rv |-> "sent"]
            BY <1>7, <2>2 DEF WriteImage, WorkerUp
        <3>. HIDE DEF cn1
        <3>2. [w EXCEPT !.conn[Worker].up = r.rest] =
                    [conn |-> [cn1 EXCEPT ![Worker].up = r.rest], rv |-> "sent"]
            BY <3>1
        <3>3. conn' = [cn1 EXCEPT ![Worker].up = r.rest] /\ srv' = srv
            BY <2>1, <3>2 DEF After
        <3>4. /\ r.rest = <<>> /\ worker.at = "image" /\ worker.img = <<>> /\ down = <<>>
              /\ Got(worker, srv.img, worker.len, shots)
            BY <1>1, <1>8, <2>2, ServeFinds
        <3>5. srv.img \in Seq(Sent)
            <4>1. worker.asked \in PCs
                BY <2>2, <3>4 DEF IInv, WorkerFits, Reading
            <4>. QED
                BY <3>4, <4>1, GotBytes
        <3>6. cn1 = [conn EXCEPT ![Worker].down = srv.img]
            <4>1. conn[Worker].down \o srv.img = srv.img
                BY <3>4, <3>5, ConcatEmptySeq
            <4>. QED
                BY <4>1 DEF cn1
        <3>7. Alters(conn, cn1, Worker, conn[Worker].up, srv.img, conn[Worker].link)
            BY <1>3, <3>5, <3>6, SetDown
        <3>8. cn1 \in [Conn -> Link] /\ cn1[Worker].down = srv.img /\ cn1[Worker].link = "up"
            BY <2>2, <3>7 DEF Alters, WorkerUp
        <3>9. Alters(cn1, conn', Worker, <<>>, srv.img, "up")
            BY <1>3, <3>3, <3>4, <3>8, SetUp
        <3>10. Alters(conn, conn', Worker, <<>>, srv.img, "up")
            BY <3>7, <3>9, AltersTwice
        <3>. QED
            BY <1>1, <2>2, <3>3, <3>4, <3>10, ServeTransfers
    <2>3. CASE ~WorkerUp
        <3>1. w \in WriteTo(conn, Worker, srv.img[1])
            BY <1>7, <2>3, ToWorker DEF WriteImage, WorkerUp
        <3>2. /\ w = [conn |-> w.conn, rv |-> w.rv] /\ w.rv \in {"sent", "failed", "killed"}
              /\ \E l \in Broken : Alters(conn, w.conn, Worker, conn[Worker].up, down, l)
            BY <1>3, <2>3, <3>1, FailedSends DEF WorkerUp
        <3>3. PICK l \in Broken : Alters(conn, w.conn, Worker, conn[Worker].up, down, l)
            BY <3>2
        <3>. DEFINE w1 == [w EXCEPT !.conn[Worker].up = r.rest]
        <3>4. w1.conn = [w.conn EXCEPT ![Worker].up = r.rest] /\ w1.rv = w.rv
            BY <3>2
        <3>5. After(w1, srv)
            BY <2>1
        <3>. HIDE DEF w1
        <3>6. conn' = [w.conn EXCEPT ![Worker].up = r.rest] /\ srv' \in {srv, Looping, Dead}
            BY <3>2, <3>4, <3>5 DEF After, Dead
        <3>7. w.conn \in [Conn -> Link] /\ w.conn[Worker].down = down /\ w.conn[Worker].link = l
            BY <3>3 DEF Alters
        <3>8. Alters(w.conn, conn', Worker, r.rest, down, l)
            BY <1>3, <3>6, <3>7, SetUp
        <3>9. Alters(conn, conn', Worker, r.rest, down, l)
            BY <3>3, <3>8, AltersTwice
        <3>. QED
            BY <1>1, <1>3, <2>3, <3>6, <3>9, ServeGone
    <2>. QED
        BY <2>2, <2>3
<1>9. CASE stage = "finished"
    <2>1. PICK w \in WriteTo(left, Worker, m) : After(w, Looping)
        BY <1>2, <1>9, ToWorker DEF Finish
    <2>. HIDE DEF left, m
    <2>2. /\ left \in [Conn -> Link] /\ left[Worker].up = r.rest /\ left[Worker].down = down
          /\ left[Worker].link = conn[Worker].link
        BY <1>4 DEF Alters
    <2>3. \/ /\ WorkerUp /\ srv' = Looping
             /\ Alters(left, conn', Worker, r.rest, Append(down, m), "up")
          \/ /\ ~WorkerUp /\ srv' \in {Looping, Dead}
             /\ \E l \in Broken : Alters(left, conn', Worker, r.rest, down, l)
        BY <1>3, <1>6, <2>1, <2>2, Sends DEF WorkerUp
    <2>4. CASE ~WorkerUp
        <3>1. PICK l \in Broken : Alters(left, conn', Worker, r.rest, down, l)
            BY <2>3, <2>4
        <3>2. Alters(conn, conn', Worker, r.rest, down, l)
            BY <1>4, <3>1, AltersTwice
        <3>. QED
            BY <1>1, <1>3, <2>3, <2>4, <3>2, ServeGone
    <2>5. CASE WorkerUp
        <3>1. r.rest = <<>> /\ worker.at = "end" /\ down = <<>>
            BY <1>1, <1>9, <2>5, ServeFinds
        <3>2. Alters(conn, conn', Worker, <<>>, <<m>>, "up")
            <4>1. Append(down, m) = <<m>>
                BY <3>1
            <4>. QED
                BY <1>4, <2>3, <2>5, <3>1, <4>1, AltersTwice
        <3>3. Reading(worker, <<m>>, file, shots)
            <4>1. srv.len \in {0} \cup ImageSize
                BY <1>5 DEF ServerState
            <4>. QED
                BY <2>5, <3>1, <4>1 DEF IInv, WorkerFits, Reading, m
        <3>4. Looping \in ServerState /\ Looping.at = "loop"
            BY LoopingOK
        <3>5. Talks(worker, <<>>, <<m>>, Looping, shots)
            BY <3>1, <3>4 DEF Talks
        <3>. QED
            BY <1>1, <1>5, <2>3, <2>5, <3>2, <3>3, <3>4, <3>5, ServerGives
    <2>. QED
        BY <2>4, <2>5
<1>10. CASE stage # "transfer" /\ stage # "finished"
    <2>1. conn' = left /\ srv' = srv
        BY <1>2, <1>10
    <2>2. ~WorkerUp
        BY <1>1, <1>10, ServeFinds
    <2>3. conn[Worker].link \in Broken
        BY <1>3, <2>2 DEF Link, Broken, WorkerUp
    <2>. HIDE DEF left
    <2>. QED
        BY <1>1, <1>3, <1>4, <2>1, <2>2, <2>3, ServeGone
<1>. QED
    BY <1>8, <1>9, <1>10

LEMMA ServeEndsKeeps ==
    ASSUME IInv, ServeEnds
    PROVE  IInv'
<1>1. /\ srv.at = "serve" /\ conn[Worker].up = <<>> /\ srv' = Looping /\ conn' = conn
      /\ UNCHANGED <<nconn, fdtab, agt, worker, file, page, shots, nreq, ntimers>>
      /\ late' = (late \/ conn[Worker].link = "up")
    BY DEF ServeEnds, netVars
<1>2. /\ Worker \in Conn /\ conn \in [Conn -> Link]
      /\ conn[Worker].link # "up" => conn[Worker].down = <<>>
    BY WorkerTexts
<1>3. Alters(conn, conn', Worker, <<>>, conn[Worker].down, conn[Worker].link)
    BY <1>1, <1>2 DEF Alters
<1>4. late' \in BOOLEAN
    BY <1>1
<1>5. Looping \in ServerState /\ Looping.at = "loop"
    BY LoopingOK
<1>6. ASSUME WorkerUp
      PROVE  /\ Reading(worker, conn[Worker].down, file, shots)
             /\ Talks(worker, <<>>, conn[Worker].down, Looping, shots)
    <2>1. Talks(worker, conn[Worker].up, conn[Worker].down, srv, shots)
        BY <1>1, <1>6 DEF IInv, Dialogue
    <2>2. worker.at # "end"
        BY <1>1, <2>1 DEF Talks
    <2>3. Talks(worker, <<>>, conn[Worker].down, Looping, shots)
        BY <1>1, <1>5, <2>1, <2>2 DEF Talks
    <2>. QED
        BY <1>6, <2>3 DEF IInv, WorkerFits
<1>. QED
    BY <1>1, <1>2, <1>3, <1>4, <1>5, <1>6, ServerGives DEF WorkerUp

-----------------------------------------------------------------------------
(* The worker's steps.                                                     *)
LEMMA WorkerGoes ==
    ASSUME IInv, WorkerUp, UNCHANGED <<nconn, fdtab, srv, agt, shots, ntimers, late>>,
           nreq' \in 0..MaxReq, file' \in Image, worker' \in WorkerState,
           page' \in [asked : {0} \cup PCs, since : Nat, img : Image], PageOK',
           NEW up, NEW down, NEW link, Alters(conn, conn', Worker, up, down, link),
           link # "up" => down = <<>>, \A n \in DOMAIN up : up[n] \in Requests,
           worker'.since <= shots, worker'.at = "crashed" => srv.at = "dead",
           link # "up" => worker'.at \in {"idle", "crashed"},
           link = "up" => Reading(worker', down, file', shots),
           link = "up" /\ srv.at # "dead" =>
               /\ Talks(worker', up, down, srv, shots)
               /\ ~Waiting /\ (worker'.at = "answer" => srv.at = "loop" /\ up # <<>>)
    PROVE  IInv'
<1>1. TypeOK'
    BY DEF IInv, TypeOK, Alters
<1>2. NetOK' /\ AgentsFit' /\ \A c \in PCs : conn'[c] = conn[c]
    BY WorkerOnly
<1>3. conn'[Worker].up = up /\ conn'[Worker].down = down /\ conn'[Worker].link = link
    BY DEF Alters
<1>4. WorkerUp' <=> link = "up"
    BY <1>3 DEF WorkerUp
<1>5. WorkerFits'
    BY <1>3, <1>4 DEF WorkerFits
<1>6. Dialogue'
    BY <1>3, <1>4 DEF Dialogue
<1>7. OnePicture'
    <2>. SUFFICES ASSUME link = "up", srv.at # "dead"
                  PROVE  OnePicture'
        BY <1>4 DEF OnePicture
    <2>1. \A c \in PCs : NoAsk(conn'[c].down) /\ NoOffer(conn'[c].up)
        BY <1>2 DEF IInv, OnePicture
    <2>2. ~Waiting'
        BY <1>3 DEF Waiting
    <2>3. ~(worker'.at = "answer" /\ srv'.at = "image")
        OBVIOUS
    <2>. QED
        BY <2>1, <2>2, <2>3 DEF OnePicture
<1>. QED
    BY <1>1, <1>2, <1>5, <1>6, <1>7 DEF IInv

(* It sends a request, when what it sent before was read.                  *)
LEMMA TellsOne ==
    ASSUME conn \in [Conn -> Link], conn[Worker].up = <<>>, NEW rest \in Seq(Sent),
           NEW m \in Requests, Tells(rest, m)
    PROVE  /\ Alters(conn, conn', Worker, <<m>>, rest, conn[Worker].link)
           /\ \A n \in DOMAIN <<m>> : <<m>>[n] \in Requests
           /\ <<m>> # <<>>
<1>. DEFINE q == <<m>>
<1>1. m \in Sent
    BY DEF Sent
<1>2. q \in Seq(Sent) /\ q # <<>> /\ \A n \in DOMAIN q : q[n] \in Requests
    BY <1>1
<1>3. Append(conn[Worker].up, m) = q
    OBVIOUS
<1>. HIDE DEF q
<1>4. conn' = [conn EXCEPT ![Worker].down = rest, ![Worker].up = q]
    BY <1>3 DEF Tells
<1>5. Alters(conn, conn', Worker, q, rest, conn[Worker].link)
    BY <1>2, <1>4, Places, SetBoth
<1>. QED
    BY <1>2, <1>5 DEF q

LEMMA IdleOK == Idle \in WorkerState /\ Idle.at = "idle" /\ Idle.since = 0
<1>1. <<>> \in Image
    BY EmptySeq DEF Image
<1>. QED
    BY <1>1 DEF Idle, WorkerState

(* A worker that is idle waits for nothing; the page stays.                *)
LEMMA WorkerIdle ==
    ASSUME IInv, WorkerUp, UNCHANGED <<nconn, fdtab, srv, agt, shots, nreq, ntimers, late>>,
           file' \in Image, worker' = Idle,
           page' \in [asked : {0} \cup PCs, since : Nat, img : Image], PageOK',
           NEW link, Alters(conn, conn', Worker, conn[Worker].up, <<>>, link),
           link = "up" /\ srv.at # "dead" => conn[Worker].up = <<>> /\ srv.at = "loop" /\ ~Waiting
    PROVE  IInv'
<1>1. worker' \in WorkerState /\ worker'.at = "idle" /\ worker'.since <= shots
    <2>1. shots \in Nat
        BY DEF IInv, TypeOK
    <2>. QED
        BY <2>1, IdleOK
<1>2. \A n \in DOMAIN conn[Worker].up : conn[Worker].up[n] \in Requests
    BY WorkerTexts
<1>3. Reading(worker', <<>>, file', shots)
    BY <1>1 DEF Reading
<1>4. srv.at = "loop" => Talks(worker', <<>>, <<>>, srv, shots)
    BY <1>1 DEF Talks
<1>5. nreq' \in 0..MaxReq
    BY DEF IInv, TypeOK
<1>. QED
    BY <1>1, <1>2, <1>3, <1>4, <1>5, WorkerGoes

LEMMA WorkerStopsKeeps ==
    ASSUME IInv, WorkerStops
    PROVE  IInv'
<1>1. /\ WorkerUp /\ conn' = PeerClosed(Worker) /\ worker' = Idle
      /\ UNCHANGED <<nconn, fdtab, srv, agt, file, page, shots, nreq, ntimers, late>>
    BY DEF WorkerStops, sockets, history
<1>2. Worker \in Conn /\ conn \in [Conn -> Link]
    BY WorkerTexts
<1>3. PICK l \in Broken : Alters(conn, conn', Worker, conn[Worker].up, <<>>, l)
    BY <1>1, <1>2, Closes
<1>4. PageOK'
    BY <1>1, FramePage DEF IInv, TypeOK
<1>5. l # "up"
    BY DEF Broken
<1>6. /\ file' \in Image
      /\ page' \in [asked : {0} \cup PCs, since : Nat, img : Image]
    BY <1>1 DEF IInv, TypeOK
<1>. QED
    BY <1>1, <1>3, <1>4, <1>5, <1>6, WorkerIdle

(* It asks for a picture.                                                  *)
LEMMA AskKeeps ==
    ASSUME IInv, Ask
    PROVE  IInv'
<1>1. /\ WorkerUp /\ worker.at = "idle" /\ nreq < MaxReq /\ srv.at # "dead" /\ nreq' = nreq + 1
      /\ UNCHANGED <<nconn, fdtab, srv, agt, file, page, shots, ntimers, late>>
    BY DEF Ask
<1>2. PICK c \in PCs :
        /\ Tells(conn[Worker].down, ShotRequest("screenshot", "request", c))
        /\ worker' = [at |-> "answer", asked |-> c, since |-> shots, len |-> 0, img |-> <<>>]
    BY DEF Ask
<1>. DEFINE m == ShotRequest("screenshot", "request", c)
<1>3. /\ Worker \in Conn /\ conn \in [Conn -> Link] /\ shots \in Nat
    BY WorkerTexts DEF IInv, TypeOK
<1>4. conn[Worker].up = <<>> /\ srv.at = "loop" /\ conn[Worker].down = <<>>
    BY <1>1 DEF IInv, Dialogue, Talks, WorkerFits, Reading
<1>5. m \in Requests
    BY RequestsOK DEF IsText
<1>6. Tells(<<>>, m) /\ <<>> \in Seq(Sent)
    BY <1>2, <1>4, EmptySeq
<1>. HIDE DEF m
<1>7. /\ Alters(conn, conn', Worker, <<m>>, <<>>, conn[Worker].link)
      /\ \A n \in DOMAIN <<m>> : <<m>>[n] \in Requests
      /\ <<m>> # <<>>
    BY <1>3, <1>4, <1>5, <1>6, TellsOne
<1>8. Alters(conn, conn', Worker, <<m>>, <<>>, "up")
    BY <1>1, <1>7, Zenon DEF WorkerUp
<1>9. /\ worker' \in WorkerState /\ worker'.at = "answer" /\ worker'.asked = c
      /\ worker'.since = shots /\ worker'.img = <<>>
    <2>1. <<>> \in Image
        BY EmptySeq DEF Image
    <2>. QED
        BY <1>2, <1>3, <2>1 DEF WorkerState
<1>10. Reading(worker', <<>>, file', shots)
    BY <1>9 DEF Reading
<1>11. Talks(worker', <<m>>, <<>>, srv, shots)
    BY <1>4, <1>9 DEF Talks, m
<1>12. PageOK'
    BY <1>1, FramePage DEF IInv, TypeOK
<1>13. /\ nreq' \in 0..MaxReq /\ file' \in Image
       /\ page' \in [asked : {0} \cup PCs, since : Nat, img : Image]
    BY <1>1, ScreenshotAssumption DEF IInv, TypeOK
<1>14. ~Waiting
    BY <1>1 DEF Waiting
<1>15. worker'.since <= shots
    BY <1>3, <1>9
<1>. QED
    BY <1>1, <1>4, <1>7, <1>8, <1>9, <1>10, <1>11, <1>12, <1>13, <1>14, <1>15, WorkerGoes

(* What all of the worker's steps start from.                              *)
LEMMA WorkerThere ==
    ASSUME IInv, WorkerUp
    PROVE  /\ Reading(worker, conn[Worker].down, file, shots)
           /\ srv.at # "dead" => Talks(worker, conn[Worker].up, conn[Worker].down, srv, shots)
           /\ worker \in WorkerState /\ worker.since <= shots /\ file \in Image
           /\ shots \in Nat /\ nreq \in 0..MaxReq
           /\ page \in [asked : {0} \cup PCs, since : Nat, img : Image] /\ PageOK
           /\ conn[Worker].link = "up"
BY DEF IInv, TypeOK, WorkerFits, Dialogue, WorkerUp

(* It has the answer, and asks for the image.                              *)
LEMMA AnswerAsks ==
    ASSUME IInv, WorkerUp, srv.at # "dead", worker.at = "answer",
           UNCHANGED <<nconn, fdtab, srv, agt, file, page, shots, nreq, ntimers, late>>,
           NEW len \in ImageSize, conn[Worker].down = <<ShotResponse("screenshot", "request", len)>>,
           worker' = [worker EXCEPT !.at = "image", !.len = len],
           Tells(<<>>, ShotRequest("screenshot", "transfer", 0))
    PROVE  IInv'
<1>. DEFINE m == ShotRequest("screenshot", "transfer", 0)
            res == ShotResponse("screenshot", "request", len)
<1>1. /\ Reading(worker, conn[Worker].down, file, shots) /\ worker.img = <<>> /\ worker.asked \in PCs
      /\ Talks(worker, conn[Worker].up, conn[Worker].down, srv, shots)
      /\ worker \in WorkerState /\ worker.since <= shots /\ file \in Image /\ conn[Worker].link = "up"
      /\ nreq \in 0..MaxReq /\ PageOK'
      /\ page \in [asked : {0} \cup PCs, since : Nat, img : Image]
    BY WorkerThere, FramePage DEF Reading
<1>2. res.len = len /\ IsText(res, "response", "request")
    BY ResponsesOK
<1>. HIDE DEF res
<1>3. conn[Worker].down # <<>>
    BY DEF res
<1>4. conn[Worker].up = <<>>
    BY <1>1, <1>3 DEF Talks
<1>5. srv.at = "loop" \/ (srv.at = "serve" /\ Got(worker, srv.img, len, shots))
    <2>1. CASE srv.at = "serve" /\ Got(worker, srv.img, srv.len, shots)
                /\ conn[Worker].down = <<ShotResponse("screenshot", "request", srv.len)>>
        <3>1. srv.len \in ImageSize
            BY <2>1 DEF Got
        <3>2. ShotResponse("screenshot", "request", srv.len).len = srv.len
            BY <3>1, ResponsesOK
        <3>3. <<ShotResponse("screenshot", "request", srv.len)>>[1] = ShotResponse("screenshot", "request", srv.len)
            OBVIOUS
        <3>4. <<res>>[1] = res
            OBVIOUS
        <3>5. srv.len = len
            BY <1>2, <2>1, <3>2, <3>3, <3>4 DEF res
        <3>. QED
            BY <2>1, <3>5
    <2>. QED
        BY <1>1, <1>3, <2>1 DEF Talks
<1>6. /\ worker'.at = "image" /\ worker'.len = len /\ worker'.since = worker.since
      /\ worker'.asked = worker.asked /\ worker'.img = <<>> /\ worker' \in WorkerState
    BY <1>1 DEF WorkerState
<1>7. m \in Requests /\ conn \in [Conn -> Link] /\ <<>> \in Seq(Sent)
    BY RequestsOK, EmptySeq DEF IsText, IInv, TypeOK
<1>8. Arriving(worker', <<>>) = <<>>
    BY <1>6, EmptySeq, ConcatEmptySeq DEF Arriving
<1>9. Reading(worker', <<>>, file', shots)
    BY <1>1, <1>6, <1>8 DEF Reading
<1>10. Got(worker, srv.img, len, shots) => Got(worker', srv.img, len, shots)
    BY <1>6 DEF Got
<1>11. Talks(worker', <<m>>, <<>>, srv, shots)
    BY <1>5, <1>6, <1>8, <1>10 DEF Talks
<1>12. Tells(<<>>, m)
    OBVIOUS
<1>. HIDE DEF m
<1>13. Alters(conn, conn', Worker, <<m>>, <<>>, "up") /\ \A n \in DOMAIN <<m>> : <<m>>[n] \in Requests
    BY <1>1, <1>4, <1>7, <1>12, TellsOne
<1>14. ~Waiting
    BY <1>3 DEF Waiting
<1>. QED
    BY <1>1, <1>6, <1>9, <1>11, <1>13, <1>14, WorkerGoes

LEMMA WorkerAnswerKeeps ==
    ASSUME IInv, WorkerAnswer
    PROVE  IInv'
<1>1. /\ WorkerUp /\ worker.at = "answer"
      /\ UNCHANGED <<nconn, fdtab, srv, agt, file, page, shots, nreq, ntimers, late>>
    BY DEF WorkerAnswer, sockets, history
<1>2. PICK r \in Reads(conn[Worker].down) :
         LET res == r.batch[1]
         IN  IF res.kind # "response" \/ res.stage = "none"
             THEN worker' = [worker EXCEPT !.at = "crashed"] /\ conn' = PeerClosed(Worker)
             ELSE IF res.stage # "request" \/ srv.at = "dead"
             THEN worker' = Idle /\ conn' = [conn EXCEPT ![Worker].down = r.rest]
             ELSE /\ worker' = [worker EXCEPT !.at = "image", !.len = res.len]
                  /\ Tells(r.rest, ShotRequest("screenshot", "transfer", 0))
    BY DEF WorkerAnswer
<1>3. Reading(worker, conn[Worker].down, file, shots)
    BY <1>1, WorkerThere
<1>4. PICK len \in ImageSize : conn[Worker].down = <<ShotResponse("screenshot", "request", len)>>
    BY <1>1, <1>3, ReadsNone DEF Reading
<1>. DEFINE res == ShotResponse("screenshot", "request", len)
<1>5. IsText(res, "response", "request") /\ res.len = len
    BY ResponsesOK
<1>. HIDE DEF res
<1>6. r.rest = <<>> /\ r.batch[1] = res
    <2>1. res \in Sent
        BY <1>5 DEF IsText
    <2>. QED
        BY <1>4, <2>1, ReadsOne DEF res
<1>7. res.kind = "response" /\ res.stage = "request"
    BY <1>5 DEF IsText
<1>8. CASE srv.at = "dead"
    <2>1. worker' = Idle /\ conn' = [conn EXCEPT ![Worker].down = <<>>]
        BY <1>2, <1>6, <1>7, <1>8
    <2>2. /\ Worker \in Conn /\ conn \in [Conn -> Link] /\ <<>> \in Seq(Sent)
        BY WorkerTexts, EmptySeq
    <2>3. Alters(conn, conn', Worker, conn[Worker].up, <<>>, conn[Worker].link)
        BY <2>1, <2>2, SetDown
    <2>4. /\ file' \in Image /\ PageOK'
          /\ page' \in [asked : {0} \cup PCs, since : Nat, img : Image]
        BY <1>1, WorkerThere, FramePage
    <2>. QED
        BY <1>1, <1>8, <2>1, <2>3, <2>4, WorkerIdle
<1>9. CASE srv.at # "dead"
    <2>1. /\ worker' = [worker EXCEPT !.at = "image", !.len = len]
          /\ Tells(<<>>, ShotRequest("screenshot", "transfer", 0))
        BY <1>2, <1>5, <1>6, <1>7, <1>9
    <2>. QED
        BY <1>1, <1>4, <1>9, <2>1, AnswerAsks
<1>. QED
    BY <1>8, <1>9

(* What is on its way to a worker that reads an image is the image.        *)
LEMMA ImageArrives ==
    ASSUME IInv, WorkerUp, worker.at = "image"
    PROVE  /\ worker.img \in Seq(Byte) /\ conn[Worker].down \in Seq(Byte)
           /\ worker.asked \in PCs /\ worker.len \in ImageSize
           /\ \/ worker.img = <<>> /\ conn[Worker].down = <<>>
              \/ /\ Got(worker, Arriving(worker, conn[Worker].down), worker.len, shots)
                 /\ Len(Joined(worker.img, conn[Worker].down)) = worker.len
<1>1. /\ worker.asked \in PCs /\ worker.len \in ImageSize
      /\ \/ Arriving(worker, conn[Worker].down) = <<>>
         \/ Got(worker, Arriving(worker, conn[Worker].down), worker.len, shots)
    BY WorkerThere DEF Reading
<1>2. worker.img \in Seq(Byte) /\ conn[Worker].down \in Seq(Sent)
    BY WorkerThere, WorkerTexts DEF WorkerState, Image
<1>3. Arriving(worker, conn[Worker].down) = Joined(worker.img, conn[Worker].down)
    BY DEF Arriving, Joined
<1>4. CASE Arriving(worker, conn[Worker].down) = <<>>
    <2>1. worker.img \o conn[Worker].down = <<>>
        BY <1>4 DEF Arriving
    <2>2. worker.img = <<>> /\ conn[Worker].down = <<>>
        BY <1>2, <2>1, ConcatEmptySeq
    <2>. QED
        BY <1>1, <1>2, <2>2, EmptySeq
<1>5. CASE Got(worker, Arriving(worker, conn[Worker].down), worker.len, shots)
    <2>1. /\ Arriving(worker, conn[Worker].down) \in Seq(Byte)
          /\ Len(Arriving(worker, conn[Worker].down)) = worker.len
        BY <1>1, <1>5, GotBytes
    <2>2. worker.img \o conn[Worker].down \in Seq(Byte)
        BY <2>1 DEF Arriving
    <2>3. conn[Worker].down \in Seq(Byte)
        BY <1>2, <2>2, ConcatTail
    <2>. QED
        BY <1>1, <1>2, <1>3, <1>5, <2>1, <2>3, Zenon
<1>. QED
    BY <1>1, <1>4, <1>5

(* Nothing that the dialogue depends on changes as the worker reads.       *)
LEMMA ReadingOn ==
    ASSUME NEW w, NEW w1, NEW up, NEW down, NEW down1, NEW s, NEW f, NEW n,
           w.at = "image", w1.at = "image", w1.asked = w.asked, w1.since = w.since, w1.len = w.len,
           Arriving(w1, down1) = Arriving(w, down)
    PROVE  /\ Reading(w, down, f, n) => Reading(w1, down1, f, n)
           /\ Talks(w, up, down, s, n) => Talks(w1, up, down1, s, n)
<1>1. \A img : Got(w, img, w.len, n) <=> Got(w1, img, w1.len, n)
    BY DEF Got
<1>2. Reading(w, down, f, n) => Reading(w1, down1, f, n)
    BY <1>1 DEF Reading
<1>3. Talks(w, up, down, s, n) => Talks(w1, up, down1, s, n)
    BY <1>1 DEF Talks
<1>. QED
    BY <1>2, <1>3

LEMMA WorkerReadKeeps ==
    ASSUME IInv, WorkerRead
    PROVE  IInv'
<1>. DEFINE up == conn[Worker].up
            down == conn[Worker].down
<1>1. /\ WorkerUp /\ worker.at = "image"
      /\ UNCHANGED <<nconn, fdtab, srv, agt, file, page, shots, nreq, ntimers, late>>
    BY DEF WorkerRead, sockets, history
<1>2. PICK r \in Reads(down) :
        /\ conn' = [conn EXCEPT ![Worker].down = r.rest]
        /\ worker' = [worker EXCEPT !.img = @ \o r.batch]
    BY DEF WorkerRead
<1>3. /\ Reading(worker, down, file, shots) /\ worker \in WorkerState /\ worker.since <= shots
      /\ srv.at # "dead" => Talks(worker, up, down, srv, shots)
      /\ file \in Image /\ nreq \in 0..MaxReq /\ conn[Worker].link = "up" /\ PageOK'
      /\ page \in [asked : {0} \cup PCs, since : Nat, img : Image]
    BY <1>1, WorkerThere, FramePage
<1>4. worker.img \in Seq(Byte) /\ down \in Seq(Byte)
    BY <1>1, ImageArrives
<1>5. /\ Worker \in Conn /\ conn \in [Conn -> Link] /\ down \in Seq(Sent)
      /\ \A n \in DOMAIN up : up[n] \in Requests
    BY WorkerTexts
<1>6. r.rest \in Seq(Sent)
    BY <1>5, ReadsParts
<1>7. Alters(conn, conn', Worker, up, r.rest, "up")
    <2>1. conn' = [conn EXCEPT ![Worker].down = r.rest]
        BY <1>2
    <2>2. Alters(conn, conn', Worker, conn[Worker].up, r.rest, conn[Worker].link)
        BY <1>5, <1>6, <2>1, SetDown
    <2>. QED
        BY <1>3, <2>2, Zenon
<1>8. /\ Joined(Joined(worker.img, r.batch), r.rest) = Joined(worker.img, down)
      /\ Joined(worker.img, r.batch) \in Image
    BY <1>4, ReadKeeps DEF Image
<1>9. \A i \in Image : LET w1 == [worker EXCEPT !.img = i]
                       IN  /\ w1 \in WorkerState /\ w1.at = worker.at /\ w1.asked = worker.asked
                           /\ w1.since = worker.since /\ w1.len = worker.len /\ w1.img = i
    BY <1>3 DEF WorkerState
<1>10. worker' = [worker EXCEPT !.img = Joined(worker.img, r.batch)]
    BY <1>2 DEF Joined
<1>11. /\ worker' \in WorkerState /\ worker'.at = "image" /\ worker'.asked = worker.asked
       /\ worker'.since = worker.since /\ worker'.len = worker.len
       /\ worker'.img = Joined(worker.img, r.batch)
    BY <1>1, <1>8, <1>9, <1>10
<1>12. Arriving(worker', r.rest) = Arriving(worker, down)
    <2>1. Arriving(worker', r.rest) = Joined(worker'.img, r.rest) /\ Arriving(worker, down) = Joined(worker.img, down)
        BY DEF Arriving, Joined
    <2>. QED
        BY <1>8, <1>11, <2>1, Zenon
<1>. HIDE DEF up, down
<1>13. Reading(worker', r.rest, file, shots) /\ (srv.at # "dead" => Talks(worker', up, r.rest, srv, shots))
    BY <1>1, <1>3, <1>11, <1>12, ReadingOn
<1>14. ~Waiting
    BY <1>1 DEF Waiting
<1>15. file' = file
    BY <1>1
<1>. QED
    BY <1>1, <1>3, <1>5, <1>7, <1>11, <1>13, <1>14, <1>15, WorkerGoes

(* The worker has the whole image: nothing of it is left to read.          *)
LEMMA ImageArrived ==
    ASSUME IInv, WorkerUp, worker.at = "image", HasImage
    PROVE  /\ worker.asked \in PCs /\ worker.len \in ImageSize /\ worker.img \in Image
           /\ conn[Worker].down = <<>> /\ Got(worker, worker.img, worker.len, shots)
           /\ worker.img # <<>>
<1>1. /\ worker.img \in Seq(Byte) /\ conn[Worker].down \in Seq(Byte)
      /\ worker.asked \in PCs /\ worker.len \in ImageSize
    BY ImageArrives
<1>2. Len(worker.img) # 0 /\ Len(worker.img) = worker.len
    BY <1>1, ScreenshotAssumption DEF HasImage
<1>3. worker.img # <<>>
    BY <1>2
<1>4. /\ Got(worker, Arriving(worker, conn[Worker].down), worker.len, shots)
      /\ Len(Joined(worker.img, conn[Worker].down)) = worker.len
    BY <1>3, ImageArrives
<1>5. Len(worker.img) = Len(worker.img \o conn[Worker].down)
    BY <1>2, <1>4 DEF Joined
<1>6. conn[Worker].down = <<>> /\ worker.img \o conn[Worker].down = worker.img
    BY <1>1, <1>5, ReadAll
<1>7. Arriving(worker, conn[Worker].down) = worker.img
    BY <1>6 DEF Arriving
<1>8. Got(worker, worker.img, worker.len, shots)
    BY <1>4, <1>7, Zenon
<1>. QED
    BY <1>1, <1>3, <1>6, <1>8 DEF Image

LEMMA WorkerSavesKeeps ==
    ASSUME IInv, WorkerSaves
    PROVE  IInv'
<1>. DEFINE m == ShotRequest("screenshot", "finished", 0)
<1>1. /\ WorkerUp /\ worker.at = "image" /\ HasImage /\ file' = worker.img
      /\ UNCHANGED <<nconn, fdtab, srv, agt, page, shots, nreq, ntimers, late>>
    BY DEF WorkerSaves, sockets, history
<1>2. /\ worker.asked \in PCs /\ worker.len \in ImageSize /\ file' \in Image
      /\ conn[Worker].down = <<>> /\ Got(worker, worker.img, worker.len, shots)
      /\ worker.img # <<>>
    BY <1>1, ImageArrived
<1>3. /\ worker \in WorkerState /\ worker.since <= shots
      /\ srv.at # "dead" => Talks(worker, conn[Worker].up, conn[Worker].down, srv, shots)
      /\ nreq' \in 0..MaxReq /\ conn[Worker].link = "up" /\ PageOK'
      /\ page' \in [asked : {0} \cup PCs, since : Nat, img : Image]
    BY <1>1, WorkerThere, FramePage
<1>4. Worker \in Conn /\ conn \in [Conn -> Link] /\ <<>> \in Seq(Sent)
    BY WorkerTexts, EmptySeq
<1>5. CASE srv.at = "dead"
    <2>1. worker' = Idle /\ conn' = conn
        BY <1>5 DEF WorkerSaves
    <2>2. Alters(conn, conn', Worker, conn[Worker].up, <<>>, conn[Worker].link)
        BY <1>2, <1>4, <2>1 DEF Alters
    <2>. QED
        BY <1>1, <1>2, <1>3, <1>5, <2>1, <2>2, WorkerIdle
<1>6. CASE srv.at # "dead"
    <2>1. Tells(<<>>, m) /\ worker' = [worker EXCEPT !.at = "end"]
        BY <1>2, <1>6 DEF WorkerSaves
    <2>2. /\ worker' \in WorkerState /\ worker'.at = "end" /\ worker'.asked = worker.asked
          /\ worker'.since = worker.since /\ worker'.len = worker.len
        BY <1>3, <2>1 DEF WorkerState
    <2>3. Arriving(worker, conn[Worker].down) # <<>>
        <3>1. worker.img \o <<>> = worker.img
            BY <1>2, ConcatEmptySeq DEF Image
        <3>. QED
            BY <1>2, <3>1 DEF Arriving
    <2>4. conn[Worker].up = <<>> /\ srv.at \in {"serve", "loop"}
        BY <1>1, <1>3, <1>6, <2>3 DEF Talks
    <2>5. Got(worker', file', worker'.len, shots)
        <3>1. Got(worker', worker.img, worker.len, shots)
            BY <1>2, <2>2 DEF Got
        <3>. QED
            BY <1>1, <2>2, <3>1
    <2>6. Reading(worker', <<>>, file', shots)
        BY <1>2, <2>2, <2>5 DEF Reading
    <2>7. Talks(worker', <<m>>, <<>>, srv, shots)
        BY <2>2, <2>4 DEF Talks
    <2>8. m \in Requests
        BY RequestsOK DEF IsText
    <2>. HIDE DEF m
    <2>9. Alters(conn, conn', Worker, <<m>>, <<>>, "up") /\ \A n \in DOMAIN <<m>> : <<m>>[n] \in Requests
        BY <1>3, <1>4, <2>1, <2>4, <2>8, TellsOne
    <2>10. ~Waiting
        BY <1>1 DEF Waiting
    <2>. QED
        BY <1>1, <1>2, <1>3, <2>2, <2>6, <2>7, <2>9, <2>10, WorkerGoes
<1>. QED
    BY <1>5, <1>6

(* The page that it shows.                                                 *)
LEMMA ShowsPage ==
    ASSUME IInv, WorkerUp, worker.at = "end", UNCHANGED shots,
           \/ page' = page
           \/ page' = [asked |-> worker.asked, since |-> worker.since, img |-> file]
    PROVE  PageOK' /\ page' \in [asked : {0} \cup PCs, since : Nat, img : Image]
<1>1. /\ worker.asked \in PCs /\ Got(worker, file, worker.len, shots)
      /\ worker \in WorkerState /\ file \in Image /\ shots \in Nat
      /\ page \in [asked : {0} \cup PCs, since : Nat, img : Image] /\ PageOK
    BY WorkerThere DEF Reading
<1>2. CASE page' = page
    BY <1>1, <1>2, FramePage
<1>3. CASE page' = [asked |-> worker.asked, since |-> worker.since, img |-> file]
    <2>1. page'.asked = worker.asked /\ page'.since = worker.since /\ page'.img = file
        BY <1>3
    <2>2. IsImageOf(file, worker.asked) /\ file[1].shot > worker.since
        BY <1>1, GotBytes
    <2>3. IsImageOf(page.img, page.asked)'
        BY <2>1, <2>2 DEF IsImageOf
    <2>4. PageOK'
        BY <2>1, <2>2, <2>3 DEF PageOK
    <2>5. page' \in [asked : {0} \cup PCs, since : Nat, img : Image]
        BY <1>1, <1>3 DEF WorkerState
    <2>. QED
        BY <2>4, <2>5
<1>. QED
    BY <1>2, <1>3

LEMMA WorkerShowsKeeps ==
    ASSUME IInv, WorkerShows
    PROVE  IInv'
<1>. DEFINE down == conn[Worker].down
<1>1. /\ WorkerUp /\ worker.at = "end" /\ worker' = Idle
      /\ UNCHANGED <<nconn, fdtab, srv, agt, file, shots, nreq, ntimers, late>>
    BY DEF WorkerShows
<1>2. PICK r \in Reads(down) :
        /\ conn' = [conn EXCEPT ![Worker].down = r.rest]
        /\ page' = IF Parses(r.batch)
                   THEN [asked |-> worker.asked, since |-> worker.since, img |-> file]
                   ELSE page
    BY DEF WorkerShows
<1>3. /\ Reading(worker, down, file, shots) /\ file' \in Image
      /\ srv.at # "dead" => Talks(worker, conn[Worker].up, down, srv, shots)
    BY <1>1, WorkerThere
<1>4. PICK len \in {0} \cup ImageSize : down = <<ShotResponse("screenshot", "finished", len)>>
    BY <1>1, <1>3, ReadsNone DEF Reading
<1>5. r.rest = <<>>
    <2>1. ShotResponse("screenshot", "finished", len) \in Sent
        BY ResponsesOK DEF IsText
    <2>. QED
        BY <1>4, <2>1, ReadsOne
<1>6. down # <<>>
    BY <1>4
<1>7. srv.at # "dead" => conn[Worker].up = <<>> /\ srv.at = "loop"
    BY <1>1, <1>3, <1>6 DEF Talks
<1>8. Alters(conn, conn', Worker, conn[Worker].up, <<>>, conn[Worker].link)
    <2>1. Worker \in Conn /\ conn \in [Conn -> Link] /\ <<>> \in Seq(Sent)
        BY WorkerTexts, EmptySeq
    <2>. QED
        BY <1>2, <1>5, <2>1, SetDown
<1>9. PageOK' /\ page' \in [asked : {0} \cup PCs, since : Nat, img : Image]
    BY <1>1, <1>2, ShowsPage
<1>10. ~Waiting
    BY <1>1 DEF Waiting
<1>. QED
    BY <1>1, <1>3, <1>7, <1>8, <1>9, <1>10, WorkerIdle

LEMMA WorkerEofKeeps ==
    ASSUME IInv, WorkerEof
    PROVE  IInv'
<1>1. /\ WorkerUp /\ srv.at = "dead" /\ conn[Worker].down = <<>>
      /\ UNCHANGED <<conn, nconn, fdtab, srv, agt, file, shots, nreq, ntimers, late>>
    BY DEF WorkerEof, netVars
<1>2. \/ /\ worker.at = "answer" /\ worker' = [worker EXCEPT !.at = "crashed"] /\ UNCHANGED page
      \/ worker.at = "image" /\ worker' = Idle /\ UNCHANGED page
      \/ /\ worker.at = "end" /\ worker' = Idle
         /\ page' = [asked |-> worker.asked, since |-> worker.since, img |-> file]
    BY DEF WorkerEof
<1>3. /\ worker \in WorkerState /\ worker.since <= shots /\ file' \in Image
      /\ nreq' \in 0..MaxReq /\ conn[Worker].link = "up" /\ shots \in Nat /\ PageOK
      /\ page \in [asked : {0} \cup PCs, since : Nat, img : Image]
    BY <1>1, WorkerThere
<1>4. Alters(conn, conn', Worker, conn[Worker].up, <<>>, conn[Worker].link)
    <2>1. Worker \in Conn /\ conn \in [Conn -> Link]
        BY WorkerTexts
    <2>. QED
        BY <1>1, <2>1 DEF Alters
<1>5. PageOK' /\ page' \in [asked : {0} \cup PCs, since : Nat, img : Image]
    <2>1. CASE page' = page
        BY <1>1, <1>3, <2>1, FramePage
    <2>2. CASE page' # page
        BY <1>1, <1>2, <2>2, ShowsPage
    <2>. QED
        BY <2>1, <2>2
<1>6. CASE worker' = Idle
    BY <1>1, <1>3, <1>4, <1>5, <1>6, WorkerIdle
<1>7. CASE worker' = [worker EXCEPT !.at = "crashed"]
    <2>1. worker' \in WorkerState /\ worker'.at = "crashed" /\ worker'.since = worker.since
        BY <1>3, <1>7 DEF WorkerState
    <2>2. Reading(worker', <<>>, file', shots)
        BY <2>1 DEF Reading
    <2>3. \A n \in DOMAIN conn[Worker].up : conn[Worker].up[n] \in Requests
        BY WorkerTexts
    <2>. QED
        BY <1>1, <1>3, <1>4, <1>5, <2>1, <2>2, <2>3, WorkerGoes
<1>. QED
    BY <1>2, <1>6, <1>7

-----------------------------------------------------------------------------
(* The programs that have just connected.                                  *)
Fresh(x, p, i) == x = [Unused EXCEPT !.peer = p, !.srv = "open", !.id = i]

LEMMA Opened ==
    ASSUME NEW p \in Machine \cup Controller, NEW i \in Nat, NEW x, Fresh(x, p, i)
    PROVE  x \in Link /\ x.up = <<>> /\ x.down = <<>> /\ x.link = "up"
<1>. DEFINE All == [peer : Machine \cup Controller \cup {NoPeer}, srv : {"none", "open"},
                    link : {"up"}, up : {<<>>}, down : {<<>>}, id : Nat]
<1>1. Unused \in All
    BY DEF Unused
<1>2. x \in All /\ x.peer = p /\ x.srv = "open"
    BY <1>1 DEF Fresh
<1>3. <<>> \in Seq(Sent)
    BY EmptySeq
<1>. QED
    BY <1>2, <1>3 DEF Link

LEMMA InitOK ==
    ASSUME Init
    PROVE  IInv
<1>1. PICK machine \in [PCs -> Machine], w \in Controller :
        conn = [c \in Conn |-> [Unused EXCEPT
                    !.peer = IF c = Worker THEN w ELSE machine[c],
                    !.srv = "open", !.id = IF c = Worker THEN 0 ELSE c]]
    BY Zenon DEF Init
<1>2. ASSUME NEW c \in Conn
      PROVE  \E p \in Machine \cup Controller, i \in Nat : Fresh(conn[c], p, i)
    <2>. DEFINE p == IF c = Worker THEN w ELSE machine[c]
                i == IF c = Worker THEN 0 ELSE c
    <2>1. p \in Machine \cup Controller /\ i \in Nat
        BY Places DEF Conn
    <2>2. Fresh(conn[c], p, i)
        BY <1>1, <1>2, Zenon DEF Fresh
    <2>. HIDE DEF p, i
    <2>. QED
        BY <2>1, <2>2
<1>3. /\ nconn = MaxConn /\ fdtab = [f \in Fd |-> f - 4] /\ srv = Looping
      /\ agt = [c \in PCs |-> [at |-> "idle", shot |-> 0, len |-> 0]]
      /\ worker = Idle /\ file = <<>> /\ page = [asked |-> 0, since |-> 0, img |-> <<>>]
      /\ shots = 0 /\ nreq = 0 /\ ntimers = 0 /\ late = FALSE
    BY Zenon DEF Init
<1>4. ASSUME NEW c \in Conn
      PROVE  conn[c] \in Link /\ conn[c].up = <<>> /\ conn[c].down = <<>> /\ conn[c].link = "up"
    <2>1. PICK p \in Machine \cup Controller, i \in Nat : Fresh(conn[c], p, i)
        BY <1>2, <1>4, ZenonT(30)
    <2>. QED
        BY <2>1, Opened
<1>5. \A c \in Conn : conn[c].up = <<>> /\ conn[c].down = <<>> /\ conn[c].link = "up"
    BY <1>4
<1>6. conn \in [Conn -> Link]
    <2>1. conn = [c \in Conn |-> conn[c]]
        BY <1>1
    <2>. QED
        BY <1>4, <2>1
<1>7. fdtab \in [Fd -> 0..MaxConn] /\ fdtab[WorkerFd] = Worker
    BY <1>3, Places DEF Fd, WorkerFd, Worker
<1>8. <<>> \in Image
    BY EmptySeq DEF Image
<1>9. agt \in [PCs -> AgentState] /\ \A c \in PCs : agt[c].at = "idle"
    BY <1>3 DEF AgentState
<1>10. TypeOK
    <2>1. page \in [asked : {0} \cup PCs, since : Nat, img : Image]
        BY <1>3, <1>8
    <2>2. nreq \in 0..MaxReq /\ ntimers \in 0..MaxTimers
        BY <1>3, ScreenshotAssumption
    <2>. QED
        BY <1>3, <1>6, <1>7, <1>8, <1>9, <2>1, <2>2, LoopingOK, IdleOK DEF TypeOK
<1>11. Worker \in Conn /\ PCs \subseteq Conn
    BY Places
<1>12. NetOK
    BY <1>5, <1>7, <1>11 DEF NetOK
<1>13. srv.at = "loop" /\ worker.at = "idle" /\ worker.since = 0 /\ page.asked = 0
    BY <1>3, LoopingOK, IdleOK
<1>14. AgentsFit
    <2>1. ASSUME NEW c \in PCs
          PROVE  UpFits(c, agt[c], <<>>, srv, shots) /\ DownFits(c, agt[c], <<>>, srv)
        BY <1>9, <1>13, DownEmpty DEF UpFits
    <2>. QED
        BY <1>5, <1>11, <2>1 DEF AgentsFit
<1>15. WorkerFits
    BY <1>3, <1>5, <1>11, <1>13 DEF WorkerFits, Reading, WorkerUp
<1>16. Dialogue
    BY <1>5, <1>11, <1>13 DEF Dialogue, Talks
<1>17. OnePicture
    BY <1>5, <1>11, <1>13, NothingAsked DEF OnePicture, Waiting
<1>18. PageOK
    BY <1>13 DEF PageOK
<1>. QED
    BY <1>10, <1>12, <1>14, <1>15, <1>16, <1>17, <1>18 DEF IInv

(* A step that changes nothing.                                            *)
LEMMA StutterKeeps ==
    ASSUME IInv, UNCHANGED vars
    PROVE  IInv'
<1>1. UNCHANGED <<conn, nconn, fdtab, srv, agt, worker, file, page, shots, nreq, ntimers, late>>
    BY DEF vars, netVars, shotVars
<1>2. TypeOK' /\ NetOK'
    BY <1>1 DEF IInv, TypeOK, NetOK
<1>3. AgentsFit'
    BY <1>1 DEF IInv, AgentsFit
<1>4. WorkerFits' /\ Dialogue'
    BY <1>1 DEF IInv, WorkerFits, Dialogue, WorkerUp
<1>5. OnePicture'
    BY <1>1 DEF IInv, OnePicture, Waiting, WorkerUp
<1>6. PageOK'
    BY <1>1, FramePage DEF IInv, TypeOK
<1>. QED
    BY <1>2, <1>3, <1>4, <1>5, <1>6 DEF IInv

(* Every step preserves the invariant, if no timer takes screenshots.      *)
LEMMA NextKeeps ==
    ASSUME "screenshot" \notin TimerUri, IInv, [Next]_vars
    PROVE  IInv'
<1>1. CASE LoopWorker
    BY <1>1, LoopWorkerKeeps
<1>2. CASE \E c \in PCs : LoopAgent(c)
    BY <1>2, LoopAgentKeeps
<1>3. CASE \E c \in PCs : LoopEof(c)
    BY <1>3, LoopEofKeeps
<1>4. CASE ImageRead
    BY <1>4, ImageReadKeeps
<1>5. CASE ImageEof
    BY <1>5, ImageEofKeeps
<1>6. CASE ImageSaved
    BY <1>6, ImageSavedKeeps
<1>7. CASE Offer
    BY <1>7, OfferKeeps
<1>8. CASE Serve
    BY <1>8, ServeKeeps
<1>9. CASE ServeEnds
    BY <1>9, ServeEndsKeeps
<1>10. CASE \E c \in PCs : TimerFires(c)
    BY <1>10, TimerFiresKeeps
<1>11. CASE \E c \in PCs : AgentStep(c)
    BY <1>11, AgentTakesKeeps, AgentTransfersKeeps, AgentFinishesKeeps DEF AgentStep
<1>12. CASE \E c \in PCs : AgentLeaves(c)
    BY <1>12, AgentLeavesKeeps
<1>13. CASE Ask
    BY <1>13, AskKeeps
<1>14. CASE WorkerAnswer
    BY <1>14, WorkerAnswerKeeps
<1>15. CASE WorkerRead
    BY <1>15, WorkerReadKeeps
<1>16. CASE WorkerSaves
    BY <1>16, WorkerSavesKeeps
<1>17. CASE WorkerShows
    BY <1>17, WorkerShowsKeeps
<1>18. CASE WorkerEof
    BY <1>18, WorkerEofKeeps
<1>19. CASE WorkerStops
    BY <1>19, WorkerStopsKeeps
<1>20. CASE UNCHANGED vars
    BY <1>20, StutterKeeps
<1>. QED
    BY <1>1, <1>2, <1>3, <1>4, <1>5, <1>6, <1>7, <1>8, <1>9, <1>10, <1>11, <1>12, <1>13,
       <1>14, <1>15, <1>16, <1>17, <1>18, <1>19, <1>20
    DEF Next, Server, Handler, Loop, WorkerStep

-----------------------------------------------------------------------------
(* What the invariant says of the exchange.                                *)
LEMMA BytesOfInvariant ==
    ASSUME IInv
    PROVE  BytesOnlyToReaders
<1>1. ASSUME NEW c \in PCs, NEW n \in DOMAIN conn[c].up, conn[c].up[n].kind = "byte"
      PROVE  srv.at = "image" /\ srv.pc = c
    <2>1. UpFits(c, agt[c], conn[c].up, srv, shots) /\ agt[c].at \in {"idle", "transfer", "finished"}
        BY DEF IInv, AgentsFit, TypeOK, AgentState
    <2>2. Locked.kind = "response" /\ \A len : ShotResponse("screenshot", "request", len).kind = "response"
        BY DEF Locked, ShotResponse
    <2>3. conn[c].up # <<>>
        OBVIOUS
    <2>. QED
        BY <1>1, <2>1, <2>2, <2>3 DEF UpFits
<1>2. ASSUME NEW n \in DOMAIN conn[Worker].down, conn[Worker].down[n].kind = "byte"
      PROVE  worker.at = "image"
    <2>1. conn[Worker].down # <<>>
        BY <1>2
    <2>2. WorkerUp
        BY <2>1, WorkerTexts DEF WorkerUp
    <2>3. worker.at \in {"answer", "image", "end"} /\ Reading(worker, conn[Worker].down, file, shots)
        BY <2>1, <2>2, WorkerThere DEF Reading, WorkerState
    <2>4. ASSUME NEW stage, NEW len, conn[Worker].down = <<ShotResponse("screenshot", stage, len)>>
          PROVE  FALSE
        <3>1. conn[Worker].down[n] = ShotResponse("screenshot", stage, len)
            BY <1>2, <2>4
        <3>2. ShotResponse("screenshot", stage, len).kind = "response"
            BY DEF ShotResponse
        <3>. QED
            BY <1>2, <3>1, <3>2
    <2>. QED
        BY <2>1, <2>3, <2>4 DEF Reading
<1>. QED
    BY <1>1, <1>2 DEF BytesOnlyToReaders

(* A reader has a part of the image that was announced.                    *)
LEMMA ReadsOfInvariant ==
    ASSUME IInv
    PROVE  ReadsToTheEnd
<1>1. ASSUME NEW S, NEW a \in Seq(S), NEW T, NEW b \in Seq(T)
      PROVE  Len(a) <= Len(a \o b)
    OBVIOUS
<1>2. ASSUME srv.at = "image"
      PROVE  Len(srv.img) <= srv.len
    <2>. DEFINE c == srv.pc
                a == agt[c]
    <2>1. c \in PCs /\ c \in Conn
        BY <1>2, ImageTalk, Places
    <2>2. /\ UpFits(c, a, conn[c].up, srv, shots) /\ Here(c, srv)
          /\ a.at \in {"idle", "transfer", "finished"}
          /\ srv.img \in Seq(Byte) /\ conn[c].up \in Seq(Sent)
        BY <1>2, <2>1 DEF IInv, AgentsFit, TypeOK, AgentState, ServerState, Image, Link, Here
    <2>3. CASE a.at = "transfer"
        <3>1. srv.img = <<>> /\ srv.len = a.len /\ a.len \in ImageSize
            BY <2>2, <2>3 DEF UpFits, Here, Exchanging
        <3>2. srv.len \in Nat
            BY <3>1, ScreenshotAssumption
        <3>3. Len(srv.img) = 0
            BY <3>1
        <3>. QED
            BY <3>2, <3>3
    <2>4. CASE a.at = "finished"
        <3>1. Exchanging(a, shots) /\ srv.len = a.len
            BY <2>2, <2>4 DEF UpFits, Here
        <3>2. srv.img \o conn[c].up = Bytes(c, a.shot, a.len)
            BY <2>2, <2>4 DEF UpFits, Here
        <3>3. a.shot \in Nat /\ a.len \in ImageSize
            BY <3>1 DEF Exchanging
        <3>4. Len(Bytes(c, a.shot, a.len)) = a.len
            BY <2>1, <3>3, BytesProperties
        <3>5. Len(srv.img) <= Len(srv.img \o conn[c].up)
            BY <1>1, <2>2
        <3>. QED
            BY <3>1, <3>2, <3>4, <3>5, Zenon
    <2>. QED
        BY <2>2, <2>3, <2>4 DEF UpFits, Here
<1>3. ASSUME worker.at = "image"
      PROVE  Len(worker.img) <= worker.len
    <2>1. WorkerUp
        BY <1>3 DEF IInv, WorkerFits
    <2>2. /\ worker.img \in Seq(Byte) /\ conn[Worker].down \in Seq(Byte) /\ worker.len \in Nat
          /\ worker.img = <<>> \/ Len(Joined(worker.img, conn[Worker].down)) = worker.len
        BY <1>3, <2>1, ImageArrives, ScreenshotAssumption
    <2>3. CASE worker.img = <<>>
        BY <2>2, <2>3
    <2>4. CASE Len(Joined(worker.img, conn[Worker].down)) = worker.len
        <3>1. Len(worker.img) <= Len(worker.img \o conn[Worker].down)
            BY <1>1, <2>2
        <3>. QED
            BY <2>4, <3>1 DEF Joined
    <2>. QED
        BY <2>2, <2>3, <2>4
<1>. QED
    BY <1>2, <1>3 DEF ReadsToTheEnd

(* The three programs never leave the invariant, if no timer takes         *)
(* screenshots: no image is on its way but the one that the worker still   *)
(* waits for, and each of the three knows what the others read next.       *)
THEOREM ExchangeKept == Spec => []ExchangeInv
<1>1. Init => ExchangeInv
    BY InitOK DEF ExchangeInv
<1>2. ExchangeInv /\ [Next]_vars => ExchangeInv'
    BY NextKeeps DEF ExchangeInv
<1>. QED
    BY <1>1, <1>2, PTL DEF Spec

(* The page shows one whole image of the PC that was asked for, taken      *)
(* after it was, if no timer takes screenshots.                            *)
THEOREM PageKept == Spec => []PageShowsItsPC
<1>1. ExchangeInv => PageShowsItsPC
    BY DEF ExchangeInv, IInv, PageOK, PageShowsItsPC
<1>. QED
    BY <1>1, ExchangeKept, PTL

(* No image data is ever taken for a text, and no text for image data, if  *)
(* no timer takes screenshots.                                             *)
THEOREM BytesKept ==
    ASSUME "screenshot" \notin TimerUri
    PROVE  Spec => []BytesOnlyToReaders
<1>1. ExchangeInv => BytesOnlyToReaders
    BY BytesOfInvariant DEF ExchangeInv
<1>. QED
    BY <1>1, ExchangeKept, PTL

(* The loops that read an image and compare with != never pass its end, if *)
(* no timer takes screenshots.                                             *)
THEOREM ReadsKept ==
    ASSUME "screenshot" \notin TimerUri
    PROVE  Spec => []ReadsToTheEnd
<1>1. ExchangeInv => ReadsToTheEnd
    BY ReadsOfInvariant DEF ExchangeInv
<1>. QED
    BY <1>1, ExchangeKept, PTL

(* The server sends the worker nothing that the worker dies of, if no      *)
(* timer takes screenshots.                                                *)
THEOREM WorkerKept ==
    ASSUME "screenshot" \notin TimerUri
    PROVE  Spec => []WorkerSurvives
<1>1. ExchangeInv => WorkerSurvives
    BY DEF ExchangeInv, IInv, WorkerFits, WorkerSurvives
<1>. QED
    BY <1>1, ExchangeKept, PTL
=============================================================================
