-------------------------- MODULE EcafeTextsProofs --------------------------
(***************************************************************************)
(* Two things about texts on their way between the programs.               *)
(*                                                                         *)
(* What the parsers find when one read() returns several messages.         *)
(* EcafeMessages says it of messages, the functions of MessageTables do it *)
(* with texts: for any number of requests, and of responses, the two are   *)
(* shown to agree.  The lines of the text are the lines of each request in *)
(* turn, and the table is built from line to line; by the induction over   *)
(* the requests it holds of each parameter what was given last.  Of the    *)
(* responses it is enough to know how their texts begin, and where the     *)
(* first '=' of all of them is, if there is one.                           *)
(*                                                                         *)
(* And that the relay of EcafeRelay carries every message that the agent's *)
(* buffer has room for.  Each of its four texts is shown to be read as it  *)
(* was written, by every program on its way; the invariant says which one  *)
(* is in which stream.                                                     *)
(***************************************************************************)
EXTENDS MessageTablesProofs, EcafeBatches, EcafeRelay

(* Two texts in a row have the lines of both.                              *)
LEMMA SplitsInARow ==
    ASSUME NEW S, NEW a \in Seq(S), NEW la \in Seq(Seq(S)), Splits(a, la, S),
           NEW b \in Seq(S), NEW lb \in Seq(Seq(S)), Splits(b, lb, S)
    PROVE  Splits(Cat(a, b), Cat(la, lb), S)
<1>. SUFFICES ASSUME NEW r \in Seq(S)
              PROVE  Lines(Cat(Cat(a, b), r)) = Cat(Cat(la, lb), Lines(r))
    BY DEF Splits
<1>. DEFINE z == Lines(r)
<1>1. Cat(b, r) \in Seq(S) /\ Cat(Cat(a, b), r) = Cat(a, Cat(b, r))
    BY CatFacts
<1>2. Lines(Cat(b, r)) = Cat(lb, z)
    BY DEF Splits
<1>3. Lines(Cat(a, Cat(b, r))) = Cat(la, Cat(lb, z))
    BY <1>1, <1>2 DEF Splits
<1>4. z \in Seq(Seq(S))
    BY LinesAreLines
<1>. HIDE DEF z
<1>5. Cat(Cat(la, lb), z) = Cat(la, Cat(lb, z))
    BY <1>4, CatFacts
<1>. QED
    BY <1>1, <1>3, <1>5 DEF z

(* request_parse goes from one table to another over these lines.          *)
Reads(lines, from, to) ==
    \E k : /\ k[0] = from /\ k[Len(lines)] = to
           /\ \A n \in 1..Len(lines) : k[n] = request_extract_key_value(k[n - 1], lines[n], EQ)

(* No line, one line, and lines in a row.                                  *)
LEMMA ReadsNothing ==
    ASSUME NEW table PROVE Reads(<<>>, table, table)
<1>. DEFINE k == [n \in {0} |-> table]
<1>1. Len(<<>>) = 0 /\ k[0] = table /\ 1..0 = {}
    BY EmptySeq
<1>. HIDE DEF k
<1>. QED
    BY <1>1 DEF Reads

(* A line with '=' puts its parameter into the table.                      *)
LEMMA ReadsOne ==
    ASSUME NEW S, NEW line \in S, NEW table
    PROVE  Reads(<<line>>, table, request_extract_key_value(table, line, EQ))
<1>. DEFINE new == request_extract_key_value(table, line, EQ)
            k == [n \in {0, 1} |-> IF n = 0 THEN table ELSE new]
<1>. HIDE DEF new
<1>1. k[0] = table /\ k[1] = new
    OBVIOUS
<1>. HIDE DEF k
<1>2. Len(<<line>>) = 1 /\ <<line>>[1] = line /\ \A n \in 1..1 : n = 1 /\ n - 1 = 0
    OBVIOUS
<1>3. \A n \in 1..1 : k[n] = request_extract_key_value(k[n - 1], <<line>>[n], EQ)
    BY <1>1, <1>2 DEF new
<1>. QED
    BY <1>1, <1>2, <1>3 DEF Reads, new

(* Lines that follow each other put theirs into what the first ones left.  *)
LEMMA ReadsInARow ==
    ASSUME NEW S, NEW la \in Seq(S), NEW lb \in Seq(S), NEW from, NEW mid, NEW to,
           Reads(la, from, mid), Reads(lb, mid, to)
    PROVE  Reads(Cat(la, lb), from, to)
<1>. DEFINE A == Len(la)
            B == Len(lb)
            l == Cat(la, lb)
            Op(t, line) == request_extract_key_value(t, line, EQ)
<1>1. A \in Nat /\ B \in Nat
    BY LenProperties
<1>2. Len(l) = A + B /\ \A n \in 1..(A + B) : l[n] = IF n <= A THEN la[n] ELSE lb[n - A]
    BY ConcatProperties DEF Cat
<1>. HIDE DEF l, Op
<1>3. PICK a : a[0] = from /\ a[A] = mid /\ \A n \in 1..A : a[n] = Op(a[n - 1], la[n])
    BY DEF Reads, Op
<1>4. PICK b : b[0] = mid /\ b[B] = to /\ \A n \in 1..B : b[n] = Op(b[n - 1], lb[n])
    BY DEF Reads, Op
<1>. HIDE DEF A, B
<1>. DEFINE k == [n \in 0..(A + B) |-> IF n <= A THEN a[n] ELSE b[n - A]]
<1>5. \A n \in 0..(A + B) : k[n] = IF n <= A THEN a[n] ELSE b[n - A]
    OBVIOUS
<1>. HIDE DEF k
<1>6. k[0] = from
    <2>1. 0 \in 0..(A + B) /\ 0 <= A
        BY <1>1
    <2>. QED
        BY <1>3, <1>5, <2>1
<1>7. k[A + B] = to
    <2>1. A + B \in 0..(A + B) /\ (A + B) - A = B /\ (A + B <= A => A + B = A /\ B = 0)
        BY <1>1
    <2>. QED
        BY <1>3, <1>4, <1>5, <2>1
<1>8. ASSUME NEW n \in 1..(A + B) PROVE k[n] = Op(k[n - 1], l[n])
    <2>1. n \in 0..(A + B) /\ n - 1 \in 0..(A + B)
        BY <1>1
    <2>2. CASE n <= A
        <3>1. n \in 1..A /\ n - 1 <= A
            BY <1>1, <2>2
        <3>. QED
            BY <1>2, <1>3, <1>5, <2>1, <2>2, <3>1
    <2>3. CASE n = A + 1
        <3>1. ~(n <= A) /\ n - 1 = A /\ n - A = 1 /\ 1 \in 1..B /\ 1 - 1 = 0 /\ A <= A
            BY <1>1, <2>3
        <3>2. k[n] = b[1] /\ k[n - 1] = mid /\ l[n] = lb[1]
            BY <1>2, <1>3, <1>5, <2>1, <3>1
        <3>. QED
            BY <1>4, <3>1, <3>2
    <2>4. CASE n > A + 1
        <3>1. ~(n <= A) /\ ~(n - 1 <= A) /\ n - A \in 1..B /\ (n - 1) - A = (n - A) - 1
            BY <1>1, <2>4
        <3>. QED
            BY <1>2, <1>4, <1>5, <2>1, <3>1
    <2>. QED
        BY <1>1, <2>2, <2>3, <2>4
<1>. QED
    BY <1>2, <1>6, <1>7, <1>8 DEF Reads, Op, l

(* Extract is what request_parse does with an empty table.                 *)
LEMMA ExtractReads ==
    ASSUME NEW lines \in Seq(Text), NEW table, Reads(lines, <<>>, table)
    PROVE  Extract(lines, EQ) = table
<1>1. PICK f : ExtractRun(f, lines, EQ) /\ Extract(lines, EQ) = f[Len(lines)]
    BY ExtractAre
<1>2. PICK k : /\ k[0] = <<>> /\ k[Len(lines)] = table
               /\ \A n \in 1..Len(lines) :
                     k[n] = request_extract_key_value(k[n - 1], lines[n], EQ)
    BY DEF Reads
<1>. DEFINE P == {n \in Nat : f[n] = k[n]}
<1>3. Len(lines) \in Nat
    BY LenProperties
<1>4. 0 \in P
    BY <1>1, <1>2 DEF ExtractRun
<1>5. ASSUME NEW n \in 0..(Len(lines) - 1), n \in P PROVE n + 1 \in P
    <2>1. n + 1 \in 1..Len(lines) /\ (n + 1) - 1 = n /\ n + 1 \in Nat
        BY <1>3
    <2>. QED
        BY <1>1, <1>2, <1>5, <2>1 DEF ExtractRun
<1>. HIDE DEF P
<1>6. \A n \in 0..Len(lines) : n \in P
    BY <1>3, <1>4, <1>5, UpTo
<1>7. Len(lines) \in 0..Len(lines)
    BY <1>3
<1>. QED
    BY <1>1, <1>2, <1>6, <1>7 DEF P

(* A line without an equals sign says nothing.                             *)
LEMMA ReadsNoEq ==
    ASSUME NEW line \in Text, EQ \notin Range(line), NEW table
    PROVE  Reads(<<line>>, table, table)
<1>1. DOMAIN line = 1..Len(line)
    BY LenProperties DEF Text
<1>2. {k \in 1..Len(line) : line[k] = EQ} = {}
    BY <1>1 DEF Range
<1>3. strchr(line, 1, EQ) = 0
    BY <1>2 DEF strchr
<1>4. request_extract_key_value(table, line, EQ) = table
    BY <1>3 DEF request_extract_key_value
<1>. QED
    BY <1>4, ReadsOne

(* A table of different keys, which are among these.                       *)
KeysIn(table, K) == table \in Seq(Item) /\ Distinct(table) /\ \A e \in Range(table) : e.key \in K

(* A lookup, by what the table holds.                                      *)
LEMMA LookupSays ==
    ASSUME NEW table \in Seq(Item), Distinct(table)
    PROVE  /\ \A e \in Range(table) : Lookup(table, e.key) = e.val
           /\ \A x : (\A e \in Range(table) : e.key # x) => Lookup(table, x) = NULL
<1>1. DOMAIN table = 1..Len(table)
    BY LenProperties
<1>2. ASSUME NEW e \in Range(table) PROVE Lookup(table, e.key) = e.val
    <2>1. PICK n \in 1..Len(table) : table[n] = e
        BY <1>1 DEF Range
    <2>. QED
        BY <2>1, LookupFinds
<1>3. ASSUME NEW x, \A e \in Range(table) : e.key # x PROVE Lookup(table, x) = NULL
    <2>1. \A n \in 1..Len(table) : table[n].key # x
        BY <1>1, <1>3 DEF Range
    <2>. QED
        BY <2>1, LookupFindsNone
<1>. QED
    BY <1>2, <1>3

(* While there is room for all keys, what is set is found, and the other   *)
(* keys are found as they were.                                            *)
LEMMA PutLastSays ==
    ASSUME NEW K, IsFiniteSet(K), Cardinality(K) < MaxParam,
           NEW table, KeysIn(table, K), NEW k \in K, k \in Text, NEW v \in Text
    PROVE  /\ KeysIn(PutLast(table, k, v), K)
           /\ \A x : Lookup(PutLast(table, k, v), x) = IF x = k THEN v ELSE Lookup(table, x)
<1>. DEFINE w == Without(table, k)
            e == Entry(k, v)
            t == Append(w, e)
<1>1. table \in Seq(Item) /\ Distinct(table) /\ \A d \in Range(table) : d.key \in K
    BY DEF KeysIn
<1>2. w \in Seq(Item) /\ Range(w) = {d \in Range(table) : d.key # k} /\ Distinct(w)
    BY <1>1, WithoutFacts
<1>3. e \in Item /\ e.key = k /\ e.val = v
    BY DEF Entry, Item
<1>. HIDE DEF w, e
<1>4. Distinct(t) /\ Range(t) = Range(w) \cup {e} /\ t \in Seq(Item)
    BY <1>2, <1>3, AppendDistinct, AppendProperties
<1>5. Len(w) <= Cardinality(K) - 1
    <2>. DEFINE H == K \ {k}
    <2>1. IsFiniteSet(H) /\ Cardinality(H) = Cardinality(K) - 1
        BY FS_RemoveElement
    <2>2. DOMAIN w = 1..Len(w)
        BY <1>2, LenProperties
    <2>3. \A n \in 1..Len(w) : w[n].key \in H
        BY <1>1, <1>2, <2>2 DEF Range
    <2>. HIDE DEF H
    <2>4. Len(w) <= Cardinality(H)
        BY <1>2, <2>1, <2>3, KeysCount
    <2>. QED
        BY <2>1, <2>4
<1>6. PutLast(table, k, v) = t
    <2>1. Len(w) \in Nat /\ Cardinality(K) \in Nat /\ MaxParam \in Nat
        BY <1>2, LenProperties, FS_CardinalityType, TableAssumption
    <2>2. Len(w) # MaxParam - 1
        BY <1>5, <2>1
    <2>. QED
        BY <2>2 DEF PutLast, w, e
<1>. HIDE DEF t
<1>7. KeysIn(t, K)
    BY <1>1, <1>2, <1>3, <1>4 DEF KeysIn
<1>8. ASSUME NEW x PROVE Lookup(t, x) = IF x = k THEN v ELSE Lookup(table, x)
    <2>1. CASE x = k
        BY <1>3, <1>4, <2>1, LookupSays
    <2>2. CASE x # k /\ \E d \in Range(table) : d.key = x
        <3>1. PICK d \in Range(table) : d.key = x
            BY <2>2
        <3>2. d \in Range(t)
            BY <1>2, <1>4, <2>2, <3>1
        <3>3. Lookup(t, d.key) = d.val /\ Lookup(table, d.key) = d.val
            BY <1>1, <1>4, <3>2, LookupSays
        <3>. QED
            BY <2>2, <3>1, <3>3
    <2>3. CASE x # k /\ \A d \in Range(table) : d.key # x
        <3>1. \A d \in Range(t) : d.key # x
            BY <1>2, <1>3, <1>4, <2>3
        <3>2. Lookup(t, x) = NULL /\ Lookup(table, x) = NULL
            BY <1>1, <1>4, <2>3, <3>1, LookupSays
        <3>. QED
            BY <2>3, <3>2
    <2>. QED
        BY <2>1, <2>2, <2>3
<1>. QED
    BY <1>6, <1>7, <1>8

(* The lines of a table, read into another: what the lines say is found,   *)
(* and otherwise what was there before.                                    *)
LEMMA ReadsTable ==
    ASSUME NEW K, IsFiniteSet(K), Cardinality(K) < MaxParam,
           NEW table, KeysIn(table, K), NEW more, KeysIn(more, K),
           \A n \in 1..Len(more) : Fits(more[n]) /\ more[n].val # NULL
    PROVE  \E new : /\ Reads(LinesOf(more, <<EQ>>), table, new)
                    /\ KeysIn(new, K)
                    /\ \A x : Lookup(new, x) = IF Lookup(more, x) = NULL THEN Lookup(table, x)
                                               ELSE Lookup(more, x)
<1>. DEFINE N == Len(more)
            V == Seq(Item)
            F == [p \in (1..N) \X V |-> PutLast(p[2], more[p[1]].key, more[p[1]].val)]
            d == <<(<<EQ>>), EQ>>
            lines == LinesOf(more, <<EQ>>)
<1>1. /\ N \in Nat /\ DOMAIN more = 1..N /\ more \in Seq(Item) /\ Distinct(more) /\ table \in V
      /\ \A n \in 1..N : more[n] \in Item /\ more[n].key \in K /\ more[n].key \in Text
                         /\ more[n].val \in Text
    <2>1. more \in Seq(Item) /\ Distinct(more) /\ table \in V
        BY DEF KeysIn
    <2>2. N \in Nat /\ DOMAIN more = 1..N /\ \A n \in 1..N : more[n] \in Item
        BY <2>1, LenProperties, ElementOfSeq
    <2>3. \A n \in 1..N : more[n].key \in K
        BY <2>2 DEF KeysIn, Range
    <2>. QED
        BY <2>1, <2>2, <2>3 DEF Item
<1>2. d \in Delims /\ d[1] = <<EQ>> /\ d[2] = EQ
    BY DEF Delims
<1>3. F \in [(1..N) \X V -> V]
    BY <1>1, PutLastType
<1>. HIDE DEF N
<1>4. PICK k \in [0..N -> V] : Runs(k, table, F, N)
    BY <1>1, <1>3, RunExists
<1>5. k[0] = table
      /\ \A n \in 1..N : k[n] = PutLast(k[n - 1], more[n].key, more[n].val)
    <2>1. k[0] = table /\ \A n \in 1..N : k[n] = F[<<n, k[n - 1]>>]
        BY <1>4 DEF Runs
    <2>2. \A n \in 1..N : n - 1 \in 0..N
        BY <1>1
    <2>. QED
        BY <2>1, <2>2
<1>. HIDE DEF F
<1>6. Reads(lines, table, k[N])
    <2>1. DOMAIN lines = 1..N /\ \A n \in 1..N : lines[n] = LineOf(more[n], d[1])
        BY <1>1, <1>2 DEF LinesOf
    <2>2. Len(lines) = N
        <3>1. \A n \in 1..N : LineOf(more[n], d[1]) \in Text
            <4>1. d[1] \in Text
                BY <1>2, TokenAssumption DEF Text
            <4>. HIDE DEF d
            <4>. QED
                BY <1>1, <4>1, LineType DEF Item
        <3>2. lines \in [1..N -> Text]
            BY <1>1, <1>2, <3>1 DEF LinesOf
        <3>. HIDE DEF lines
        <3>. QED
            BY <1>1, <3>2, AsSeq
    <2>3. ASSUME NEW n \in 1..N
          PROVE  k[n] = request_extract_key_value(k[n - 1], lines[n], EQ)
        <3>1. request_extract_key_value(k[n - 1], LineOf(more[n], d[1]), d[2])
                = PutLast(k[n - 1], more[n].key, more[n].val)
            BY <1>2, LineSaysEntry DEF N
        <3>. QED
            BY <1>2, <1>5, <2>1, <3>1
    <2>. HIDE DEF lines
    <2>. QED
        BY <1>5, <2>2, <2>3 DEF Reads
<1>. HIDE DEF lines, d
<1>. DEFINE OK(n) == /\ KeysIn(k[n], K)
                     /\ \A i \in 1..n : Lookup(k[n], more[i].key) = more[i].val
                     /\ \A x : (\A i \in 1..n : more[i].key # x) => Lookup(k[n], x) = Lookup(table, x)
            P == {n \in Nat : OK(n)}
<1>7. 0 \in P
    BY <1>5
<1>8. ASSUME NEW n \in 0..(N - 1), n \in P PROVE n + 1 \in P
    <2>. DEFINE m == n + 1
    <2>1. m \in 1..N /\ m - 1 = n /\ m \in Nat /\ \A i \in 1..m : i = m \/ i \in 1..n
        BY <1>1
    <2>2. OK(n)
        BY <1>8
    <2>3. k[m] = PutLast(k[n], more[m].key, more[m].val)
        BY <1>5, <2>1
    <2>4. more[m].key \in K /\ more[m].key \in Text /\ more[m].val \in Text /\ n \in 1..N \cup {0}
        BY <1>1, <2>1
    <2>5. /\ KeysIn(k[m], K)
          /\ \A x : Lookup(k[m], x) = IF x = more[m].key THEN more[m].val ELSE Lookup(k[n], x)
        BY <2>2, <2>3, <2>4, PutLastSays
    <2>. HIDE DEF m
    <2>6. ASSUME NEW i \in 1..m PROVE Lookup(k[m], more[i].key) = more[i].val
        <3>1. CASE i = m
            BY <2>5, <3>1
        <3>2. CASE i # m
            <4>1. i \in 1..n /\ i \in 1..N
                BY <1>1, <2>1, <3>2
            <4>2. more[i].key # more[m].key
                BY <1>1, <2>1, <3>2, <4>1 DEF Distinct, N
            <4>. QED
                BY <2>2, <2>5, <4>1, <4>2
        <3>. QED
            BY <3>1, <3>2
    <2>7. ASSUME NEW x, \A i \in 1..m : more[i].key # x PROVE Lookup(k[m], x) = Lookup(table, x)
        <3>1. m \in 1..m /\ \A i \in 1..n : i \in 1..m
            BY <2>1 DEF m
        <3>. QED
            BY <2>2, <2>5, <2>7, <3>1
    <2>8. OK(m)
        BY <2>5, <2>6, <2>7
    <2>. HIDE DEF OK
    <2>. QED
        BY <2>1, <2>8 DEF m
<1>. HIDE DEF P
<1>9. \A n \in 0..N : n \in P
    BY <1>1, <1>7, <1>8, UpTo
<1>10. OK(N)
    BY <1>1, <1>9 DEF P
<1>11. ASSUME NEW x PROVE Lookup(k[N], x) = IF Lookup(more, x) = NULL THEN Lookup(table, x)
                                            ELSE Lookup(more, x)
    <2>1. CASE \E i \in 1..N : more[i].key = x
        <3>1. PICK i \in 1..N : more[i].key = x
            BY <2>1
        <3>2. Lookup(more, more[i].key) = more[i].val /\ more[i].val # NULL
            BY <1>1, LookupFinds DEF N
        <3>. QED
            BY <1>10, <3>1, <3>2
    <2>2. CASE \A i \in 1..N : more[i].key # x
        <3>1. Lookup(more, x) = NULL
            BY <1>1, <2>2, LookupFindsNone DEF N
        <3>. QED
            BY <1>10, <2>2, <3>1
    <2>. QED
        BY <2>1, <2>2
<1>12. KeysIn(k[N], K)
    BY <1>10
<1>. HIDE DEF OK
<1>. QED
    BY <1>6, <1>11, <1>12 DEF lines

(* The words of the messages are such words.                               *)
LEMMA BatchWords == \A w \in BatchWord : Word(w)
<1>1. \A w \in BatchWord : w \in Token
    BY BatchWordAssumption
<1>2. \A w \in Uri : w \notin {SP, CR, LF, COLON, EQ}
    BY DEF Uri, ServerCommand, AgentCommand, RelayedCommand, NoUri, SP, CR, LF, COLON, EQ
<1>3. \A w \in {"id", "hello", "prog", "Chrome", "duration", "none", "zero", "some", "action",
                "0", "1", "2", "200", "400", "k", "v"} : w \notin {SP, CR, LF, COLON, EQ}
    BY DEF SP, CR, LF, COLON, EQ
<1>4. \A w \in BatchWord : w \notin {SP, CR, LF, COLON, EQ}
    BY <1>2, <1>3 DEF BatchWord
<1>. QED
    BY <1>1, <1>4 DEF Word

(* An entry of two words can be told from its line.                        *)
LEMMA WordsFit ==
    ASSUME NEW k, NEW v, Word(k), Word(v)
    PROVE  Fits(Entry(<<k>>, <<v>>)) /\ <<k>> \in Text /\ <<v>> \in Text
<1>. DEFINE a == <<k>>
            b == <<v>>
<1>1. a \in Text /\ b \in Text
    BY DEF Word, Text
<1>2. Trimmed(a) /\ Trimmed(b)
    <2>1. Len(a) = 1 /\ a[1] = k /\ Len(b) = 1 /\ b[1] = v
        OBVIOUS
    <2>. HIDE DEF a, b
    <2>. QED
        BY <2>1 DEF Word, Trimmed, IsSpace
<1>3. Range(a) = {k} /\ Range(b) = {v}
    <2>1. DOMAIN a = {1} /\ a[1] = k /\ DOMAIN b = {1} /\ b[1] = v
        OBVIOUS
    <2>. HIDE DEF a, b
    <2>. QED
        BY <2>1 DEF Range
<1>. HIDE DEF a, b
<1>4. Entry(a, b) \in Item /\ Entry(a, b).key = a /\ Entry(a, b).val = b
    BY <1>1 DEF Entry, Item
<1>. QED
    BY <1>1, <1>2, <1>3, <1>4 DEF Fits, Word, a, b

(* A parameter that a message gives, or none.                              *)
Given1(b, k, v) == IF b THEN {Entry(<<k>>, <<v>>)} ELSE {}

(* One entry more, or none.                                                *)
LEMMA OneParam ==
    ASSUME NEW w \in Seq(Item), Distinct(w), NEW b, NEW k, NEW v, Word(k), Word(v),
           \A e \in Range(w) : e.key # <<k>>
    PROVE  /\ Cat(w, ParamIf(b, k, v)) \in Seq(Item)
           /\ Distinct(Cat(w, ParamIf(b, k, v)))
           /\ Range(Cat(w, ParamIf(b, k, v)))
                = Range(w) \cup Given1(b, k, v)
           /\ Len(Cat(w, ParamIf(b, k, v))) <= Len(w) + 1
<1>1. Len(w) \in Nat
    BY LenProperties
<1>2. CASE b
    <2>. DEFINE e == Entry(<<k>>, <<v>>)
    <2>1. e \in Item /\ e.key = <<k>>
        BY DEF Entry, Item, Text, Word
    <2>2. ParamIf(b, k, v) = <<e>>
        BY <1>2 DEF ParamIf
    <2>. HIDE DEF e
    <2>3. Cat(w, <<e>>) = Append(w, e)
        BY <2>1, AppendIsConcat DEF Cat
    <2>4. Distinct(Append(w, e)) /\ Range(Append(w, e)) = Range(w) \cup {e}
        BY <2>1, AppendDistinct
    <2>5. Append(w, e) \in Seq(Item) /\ Len(Append(w, e)) = Len(w) + 1
        BY <2>1, AppendProperties
    <2>6. Cat(w, ParamIf(b, k, v)) = Append(w, e)
        BY <2>2, <2>3
    <2>7. Given1(b, k, v) = {e}
        BY <1>2 DEF Given1, e
    <2>8. Len(Append(w, e)) <= Len(w) + 1
        BY <1>1, <2>5
    <2>9. /\ Append(w, e) \in Seq(Item) /\ Distinct(Append(w, e))
          /\ Range(Append(w, e)) = Range(w) \cup Given1(b, k, v)
        BY <2>4, <2>5, <2>7
    <2>. QED
        BY <2>6, <2>8, <2>9
<1>3. CASE ~b
    <2>1. ParamIf(b, k, v) = <<>>
        BY <1>3 DEF ParamIf
    <2>2. Cat(w, <<>>) = w
        BY ConcatEmptySeq DEF Cat
    <2>3. Given1(b, k, v) = {} /\ Range(w) \cup {} = Range(w) /\ Len(w) <= Len(w) + 1
        BY <1>1, <1>3 DEF Given1
    <2>. QED
        BY <2>1, <2>2, <2>3
<1>. QED
    BY <1>2, <1>3

(* The parameters of a message, and what it says of one: a value or NULL.  *)
ParamKey == {"id", "msg", "prog", "duration", "action"}
ParamKeys == {<<"id">>, <<"msg">>, <<"prog">>, <<"duration">>, <<"action">>}

Id(msg) == ParamIf(msg.id # 0, "id", Digit(msg.id))
Msg(msg) == ParamIf("msg" \in msg.params, "msg", "hello")
Prog(msg) == ParamIf("prog" \in msg.params, "prog", "Chrome")
Duration(msg) == ParamIf(msg.duration # "none", "duration", msg.duration)
Action(msg) == ParamIf(msg.action # NoUri, "action", msg.action)
Params(msg) == Cat(Cat(Cat(Cat(Id(msg), Msg(msg)), Prog(msg)), Duration(msg)), Action(msg))

SaysOf(msg, x) ==
    CASE x = "id"       -> IF msg.id # 0 THEN <<Digit(msg.id)>> ELSE NULL
      [] x = "msg"      -> IF "msg" \in msg.params THEN <<"hello">> ELSE NULL
      [] x = "prog"     -> IF "prog" \in msg.params THEN <<"Chrome">> ELSE NULL
      [] x = "duration" -> IF msg.duration # "none" THEN <<msg.duration>> ELSE NULL
      [] OTHER          -> IF msg.action # NoUri THEN <<msg.action>> ELSE NULL

(* One element more.                                                       *)
LEMMA OneElement ==
    ASSUME NEW S, IsFiniteSet(S), NEW n \in Nat, Cardinality(S) <= n, NEW x
    PROVE  IsFiniteSet(S \cup {x}) /\ Cardinality(S \cup {x}) <= n + 1
           /\ Cardinality(S \cup {x}) \in Nat
<1>1. Cardinality(S) \in Nat
    BY FS_CardinalityType
<1>2. IsFiniteSet(S \cup {x})
      /\ Cardinality(S \cup {x}) = IF x \in S THEN Cardinality(S) ELSE Cardinality(S) + 1
    BY FS_AddElement
<1>. QED
    BY <1>1, <1>2

(* There are few parameters, so the table has room for them.               *)
LEMMA FewParams == IsFiniteSet(ParamKeys) /\ Cardinality(ParamKeys) < MaxParam
<1>. DEFINE A == {<<"id">>}
            B == A \cup {<<"msg">>}
            C == B \cup {<<"prog">>}
            D == C \cup {<<"duration">>}
            E == D \cup {<<"action">>}
<1>1. IsFiniteSet(A) /\ Cardinality(A) <= 1
    <2>1. IsFiniteSet(A) /\ Cardinality(A) = 1
        BY FS_Singleton
    <2>. QED
        BY <2>1
<1>. HIDE DEF A
<1>2. IsFiniteSet(B) /\ Cardinality(B) <= 2
    BY <1>1, OneElement, 1 + 1 = 2
<1>. HIDE DEF B
<1>3. IsFiniteSet(C) /\ Cardinality(C) <= 3
    BY <1>2, OneElement, 2 + 1 = 3
<1>. HIDE DEF C
<1>4. IsFiniteSet(D) /\ Cardinality(D) <= 4
    BY <1>3, OneElement, 3 + 1 = 4
<1>. HIDE DEF D
<1>5. IsFiniteSet(E) /\ Cardinality(E) <= 5 /\ Cardinality(E) \in Nat
    BY <1>4, OneElement, 4 + 1 = 5
<1>6. ParamKeys = E
    <2>. DEFINE a == <<"id">>
                b == <<"msg">>
                c == <<"prog">>
                d == <<"duration">>
                e == <<"action">>
    <2>1. ParamKeys = {a, b, c, d, e}
        BY DEF ParamKeys
    <2>2. E = ((({a} \cup {b}) \cup {c}) \cup {d}) \cup {e}
        BY DEF E, D, C, B, A
    <2>. HIDE DEF a, b, c, d, e, E
    <2>. QED
        BY <2>1, <2>2
<1>. QED
    BY <1>5, <1>6, RoomAssumption, TableAssumption

(* Sequences of one word each are told apart by the word.                  *)
LEMMA WordsDiffer ==
    ASSUME NEW x, NEW y PROVE <<x>> = <<y>> <=> x = y
OBVIOUS

(* The words of a request.                                                 *)
LEMMA RequestWords ==
    ASSUME NEW msg \in Request
    PROVE  /\ Word("POST") /\ Word(msg.uri) /\ Word(Digit(msg.id)) /\ Digit(msg.id) # "NULL"
           /\ msg.duration # "NULL" /\ (msg.action # NoUri => msg.action # "NULL")
           /\ Word(msg.duration) /\ Word(msg.action)
           /\ Word("id") /\ Word("msg") /\ Word("prog") /\ Word("duration") /\ Word("action")
           /\ Word("hello") /\ Word("Chrome")
<1>1. msg.uri \in Uri /\ msg.action \in Uri /\ msg.duration \in {"none", "zero", "some"}
    BY DEF Request
<1>2. Digit(msg.id) \in {"0", "1", "2"}
    BY DEF Digit
<1>3. {"0", "1", "2", "none", "zero", "some", "id", "prog", "duration", "action", "hello", "Chrome"}
        \subseteq BatchWord
    BY DEF BatchWord
<1>4. Uri \subseteq BatchWord
    BY DEF BatchWord
<1>5. Word("POST") /\ Word("msg")
    BY TokenAssumption DEF Word, SP, CR, LF, COLON, EQ
<1>. QED
    BY <1>1, <1>2, <1>3, <1>4, <1>5, BatchWords DEF NoUri

(* An entry of two words.                                                  *)
OfWords(e) == Fits(e) /\ e.val # NULL /\ Len(e.key) <= 1 /\ Len(e.val) <= 1

(* What a parameter that is given, or not, holds.                          *)
LEMMA GivenFacts ==
    ASSUME NEW b, NEW k, NEW v, Word(k), Word(v), b => v # "NULL"
    PROVE  /\ \A e \in Given1(b, k, v) : OfWords(e) /\ e.key = <<k>> /\ e.val = <<v>>
           /\ b => \E e \in Given1(b, k, v) : e.key = <<k>>
           /\ \A e \in Given1(b, k, v) : b
<1>1. Fits(Entry(<<k>>, <<v>>))
    BY WordsFit
<1>2. b => <<v>> # NULL
    BY WordsDiffer DEF NULL
<1>. DEFINE a == <<k>>
            c == <<v>>
<1>. HIDE DEF a, c
<1>3. Entry(a, c).key = a /\ Entry(a, c).val = c
    BY DEF Entry
<1>4. Len(a) = 1 /\ Len(c) = 1
    BY DEF a, c
<1>5. Fits(Entry(a, c)) /\ (b => c # NULL)
    BY <1>1, <1>2 DEF a, c
<1>6. OfWords(Entry(a, c)) \/ ~b
    BY <1>3, <1>4, <1>5 DEF OfWords
<1>7. \A e \in Given1(b, k, v) : b /\ e = Entry(a, c)
    BY DEF Given1, a, c
<1>8. b => Entry(a, c) \in Given1(b, k, v)
    BY DEF Given1, a, c
<1>. QED
    BY <1>3, <1>7, <1>8, <1>6 DEF a, c

(* A table with at most n entries, which can be told from their lines, and *)
(* what it holds.                                                          *)
Holds(table, n, E) ==
    /\ table \in Seq(Item) /\ Distinct(table) /\ Range(table) = E /\ Len(table) <= n
    /\ \A e \in E : OfWords(e)

(* One entry more, or none, in such a table; and the empty one.            *)
LEMMA OneHeld ==
    ASSUME NEW n \in Nat, NEW w, NEW E, Holds(w, n, E), NEW b, NEW k, NEW v,
           Word(k), Word(v), b => v # "NULL", \A e \in E : e.key # <<k>>
    PROVE  Holds(Cat(w, ParamIf(b, k, v)), n + 1, E \cup Given1(b, k, v))
<1>1. w \in Seq(Item) /\ Distinct(w) /\ Range(w) = E /\ Len(w) <= n
    BY DEF Holds
<1>. DEFINE t == Cat(w, ParamIf(b, k, v))
            G == Given1(b, k, v)
<1>2. t \in Seq(Item) /\ Distinct(t) /\ Range(t) = Range(w) \cup G /\ Len(t) <= Len(w) + 1
    BY <1>1, OneParam
<1>3. \A e \in G : OfWords(e)
    BY GivenFacts
<1>. HIDE DEF t, G
<1>4. Len(t) \in Nat /\ Len(w) \in Nat
    BY <1>1, <1>2, LenProperties
<1>. QED
    BY <1>1, <1>2, <1>3, <1>4 DEF Holds, t, G

(* No parameter is held before one is given.                               *)
LEMMA NothingHeld == Holds(<<>>, 0, {})
<1>. DEFINE w == <<>>
<1>1. w \in Seq(Item) /\ Distinct(w) /\ Range(w) = {} /\ Len(w) = 0
    BY EmptySeq DEF Distinct, Range
<1>. HIDE DEF w
<1>. QED
    BY <1>1 DEF Holds, w

(* Five parameters, each of which may be given or not.                     *)
Five(b1, k1, v1, b2, k2, v2, b3, k3, v3, b4, k4, v4, b5, k5, v5) ==
    Cat(Cat(Cat(Cat(ParamIf(b1, k1, v1), ParamIf(b2, k2, v2)), ParamIf(b3, k3, v3)),
            ParamIf(b4, k4, v4)), ParamIf(b5, k5, v5))

Found1(table, b, k, v) == Lookup(table, <<k>>) = IF b THEN <<v>> ELSE NULL

(* The keys differ, and what is given is not NULL.                         *)
FiveGiven(b1, k1, v1, b2, k2, v2, b3, k3, v3, b4, k4, v4, b5, k5, v5) ==
    /\ Word(k1) /\ Word(k2) /\ Word(k3) /\ Word(k4) /\ Word(k5)
    /\ Word(v1) /\ Word(v2) /\ Word(v3) /\ Word(v4) /\ Word(v5)
    /\ (b1 => v1 # "NULL") /\ (b2 => v2 # "NULL") /\ (b3 => v3 # "NULL")
    /\ (b4 => v4 # "NULL") /\ (b5 => v5 # "NULL")
    /\ k1 \notin {k2, k3, k4, k5} /\ k2 \notin {k3, k4, k5} /\ k3 \notin {k4, k5} /\ k4 # k5

(* They are found.                                                         *)
FiveFound(P, b1, k1, v1, b2, k2, v2, b3, k3, v3, b4, k4, v4, b5, k5, v5) ==
    /\ KeysIn(P, {<<k1>>, <<k2>>, <<k3>>, <<k4>>, <<k5>>}) /\ Len(P) <= 5
    /\ \A n \in 1..Len(P) : OfWords(P[n])
    /\ Found1(P, b1, k1, v1) /\ Found1(P, b2, k2, v2) /\ Found1(P, b3, k3, v3)
    /\ Found1(P, b4, k4, v4) /\ Found1(P, b5, k5, v5)

(* The table is built from one to the next, and finds each of them.        *)
LEMMA FiveParams ==
    ASSUME NEW b1, NEW k1, NEW v1, NEW b2, NEW k2, NEW v2, NEW b3, NEW k3, NEW v3,
           NEW b4, NEW k4, NEW v4, NEW b5, NEW k5, NEW v5,
           FiveGiven(b1, k1, v1, b2, k2, v2, b3, k3, v3, b4, k4, v4, b5, k5, v5)
    PROVE  FiveFound(Five(b1, k1, v1, b2, k2, v2, b3, k3, v3, b4, k4, v4, b5, k5, v5),
                     b1, k1, v1, b2, k2, v2, b3, k3, v3, b4, k4, v4, b5, k5, v5)
<1>. DEFINE P == Five(b1, k1, v1, b2, k2, v2, b3, k3, v3, b4, k4, v4, b5, k5, v5)
<1>0. /\ Word(k1) /\ Word(k2) /\ Word(k3) /\ Word(k4) /\ Word(k5)
      /\ Word(v1) /\ Word(v2) /\ Word(v3) /\ Word(v4) /\ Word(v5)
      /\ (b1 => v1 # "NULL") /\ (b2 => v2 # "NULL") /\ (b3 => v3 # "NULL")
      /\ (b4 => v4 # "NULL") /\ (b5 => v5 # "NULL")
      /\ k1 \notin {k2, k3, k4, k5} /\ k2 \notin {k3, k4, k5} /\ k3 \notin {k4, k5} /\ k4 # k5
    BY DEF FiveGiven
<1>. DEFINE E1 == Given1(b1, k1, v1)
            E2 == Given1(b2, k2, v2)
            E3 == Given1(b3, k3, v3)
            E4 == Given1(b4, k4, v4)
            E5 == Given1(b5, k5, v5)
            P1 == ParamIf(b1, k1, v1)
            P2 == Cat(P1, ParamIf(b2, k2, v2))
            P3 == Cat(P2, ParamIf(b3, k3, v3))
            P4 == Cat(P3, ParamIf(b4, k4, v4))
            K1 == <<k1>>
            K2 == <<k2>>
            K3 == <<k3>>
            K4 == <<k4>>
            K5 == <<k5>>
            V1 == <<v1>>
            V2 == <<v2>>
            V3 == <<v3>>
            V4 == <<v4>>
            V5 == <<v5>>
<1>1. /\ K1 # K2 /\ K1 # K3 /\ K1 # K4 /\ K1 # K5 /\ K2 # K3 /\ K2 # K4 /\ K2 # K5
      /\ K3 # K4 /\ K3 # K5 /\ K4 # K5
    BY <1>0, WordsDiffer
<1>2. /\ \A e \in E1 : e.key = K1 /\ e.val = V1
      /\ b1 => \E e \in E1 : e.key = K1
      /\ \A e \in E1 : b1
    BY <1>0, GivenFacts
<1>3. /\ \A e \in E2 : e.key = K2 /\ e.val = V2
      /\ b2 => \E e \in E2 : e.key = K2
      /\ \A e \in E2 : b2
    BY <1>0, GivenFacts
<1>4. /\ \A e \in E3 : e.key = K3 /\ e.val = V3
      /\ b3 => \E e \in E3 : e.key = K3
      /\ \A e \in E3 : b3
    BY <1>0, GivenFacts
<1>5. /\ \A e \in E4 : e.key = K4 /\ e.val = V4
      /\ b4 => \E e \in E4 : e.key = K4
      /\ \A e \in E4 : b4
    BY <1>0, GivenFacts
<1>6. /\ \A e \in E5 : e.key = K5 /\ e.val = V5
      /\ b5 => \E e \in E5 : e.key = K5
      /\ \A e \in E5 : b5
    BY <1>0, GivenFacts
<1>7. Holds(P1, 1, E1)
    <2>1. Holds(Cat(<<>>, P1), 0 + 1, {} \cup E1)
        BY <1>0, NothingHeld, OneHeld
    <2>2. P1 \in Seq(Item)
        <3>. DEFINE e == Entry(K1, V1)
        <3>1. e \in Item
            BY <1>0, WordsFit DEF Fits
        <3>2. P1 = IF b1 THEN <<e>> ELSE <<>>
            BY DEF ParamIf
        <3>. HIDE DEF e, P1
        <3>. QED
            BY <3>1, <3>2, EmptySeq
    <2>. HIDE DEF P1, E1
    <2>3. Cat(<<>>, P1) = P1
        BY <2>2, ConcatEmptySeq DEF Cat
    <2>4. {} \cup E1 = E1 /\ 0 + 1 = 1
        OBVIOUS
    <2>. QED
        BY <2>1, <2>3, <2>4
<1>. HIDE DEF P1, E1
<1>8. Holds(P2, 2, E1 \cup E2)
    <2>1. Holds(P2, 1 + 1, E1 \cup E2)
        BY <1>1, <1>2, <1>7, OneHeld, <1>0
    <2>. QED
        BY <2>1, 1 + 1 = 2
<1>. HIDE DEF P2, E2
<1>9. Holds(P3, 3, (E1 \cup E2) \cup E3)
    <2>1. Holds(P3, 2 + 1, (E1 \cup E2) \cup E3)
        BY <1>1, <1>2, <1>3, <1>8, OneHeld, <1>0
    <2>. QED
        BY <2>1, 2 + 1 = 3
<1>. HIDE DEF P3, E3
<1>10. Holds(P4, 4, ((E1 \cup E2) \cup E3) \cup E4)
    <2>1. Holds(P4, 3 + 1, ((E1 \cup E2) \cup E3) \cup E4)
        BY <1>1, <1>2, <1>3, <1>4, <1>9, OneHeld, <1>0
    <2>. QED
        BY <2>1, 3 + 1 = 4
<1>. HIDE DEF P4, E4
<1>11. Holds(P, 5, (((E1 \cup E2) \cup E3) \cup E4) \cup E5)
    <2>1. P = Cat(P4, ParamIf(b5, k5, v5))
        BY DEF Five, P1, P2, P3, P4
    <2>. HIDE DEF P
    <2>2. Holds(P, 4 + 1, (((E1 \cup E2) \cup E3) \cup E4) \cup E5)
        BY <1>1, <1>2, <1>3, <1>4, <1>5, <1>10, <2>1, OneHeld, <1>0
    <2>. QED
        BY <2>2, 4 + 1 = 5
<1>. HIDE DEF P, E5, K1, K2, K3, K4, K5, V1, V2, V3, V4, V5
<1>12. /\ P \in Seq(Item) /\ Distinct(P) /\ Len(P) <= 5
       /\ Range(P) = E1 \cup E2 \cup E3 \cup E4 \cup E5
       /\ \A e \in Range(P) : OfWords(e) /\ e.key \in {K1, K2, K3, K4, K5}
    BY <1>2, <1>3, <1>4, <1>5, <1>6, <1>11 DEF Holds
<1>13. KeysIn(P, {K1, K2, K3, K4, K5})
    BY <1>12 DEF KeysIn
<1>14. \A n \in 1..Len(P) : OfWords(P[n])
    <2>1. DOMAIN P = 1..Len(P)
        BY <1>12, LenProperties
    <2>. QED
        BY <1>12, <2>1 DEF Range
<1>15. /\ \A e \in Range(P) : Lookup(P, e.key) = e.val
       /\ \A x : (\A e \in Range(P) : e.key # x) => Lookup(P, x) = NULL
    BY <1>12, LookupSays
<1>16. Lookup(P, K1) = IF b1 THEN V1 ELSE NULL
    BY <1>1, <1>2, <1>3, <1>4, <1>5, <1>6, <1>12, <1>15
<1>17. Lookup(P, K2) = IF b2 THEN V2 ELSE NULL
    BY <1>1, <1>2, <1>3, <1>4, <1>5, <1>6, <1>12, <1>15
<1>18. Lookup(P, K3) = IF b3 THEN V3 ELSE NULL
    BY <1>1, <1>2, <1>3, <1>4, <1>5, <1>6, <1>12, <1>15
<1>19. Lookup(P, K4) = IF b4 THEN V4 ELSE NULL
    BY <1>1, <1>2, <1>3, <1>4, <1>5, <1>6, <1>12, <1>15
<1>20. Lookup(P, K5) = IF b5 THEN V5 ELSE NULL
    BY <1>1, <1>2, <1>3, <1>4, <1>5, <1>6, <1>12, <1>15
<1>. QED
    BY <1>12, <1>13, <1>14, <1>16, <1>17, <1>18, <1>19, <1>20
       DEF FiveFound, P, Found1, K1, K2, K3, K4, K5, V1, V2, V3, V4, V5

(* What a table says, if it is known which entries it holds.               *)
LEMMA ParamsFacts ==
    ASSUME NEW msg \in Request
    PROVE  /\ KeysIn(Params(msg), ParamKeys) /\ Len(Params(msg)) <= 5
           /\ \A n \in 1..Len(Params(msg)) : OfWords(Params(msg)[n])
           /\ \A x \in ParamKey : Lookup(Params(msg), <<x>>) = SaysOf(msg, x)
<1>. DEFINE b1 == msg.id # 0
            b2 == "msg" \in msg.params
            b3 == "prog" \in msg.params
            b4 == msg.duration # "none"
            b5 == msg.action # NoUri
            v1 == Digit(msg.id)
            v4 == msg.duration
            v5 == msg.action
            P == Params(msg)
<1>1. P = Five(b1, "id", v1, b2, "msg", "hello", b3, "prog", "Chrome",
               b4, "duration", v4, b5, "action", v5)
    BY DEF Params, Id, Msg, Prog, Duration, Action, Five
<1>2. b1 \in BOOLEAN /\ b2 \in BOOLEAN /\ b3 \in BOOLEAN /\ b4 \in BOOLEAN /\ b5 \in BOOLEAN
    OBVIOUS
<1>3. /\ Word("id") /\ Word("msg") /\ Word("prog") /\ Word("duration") /\ Word("action")
      /\ Word("hello") /\ Word("Chrome") /\ Word(v1) /\ Word(v4) /\ Word(v5)
      /\ v1 # "NULL" /\ v4 # "NULL" /\ (b5 => v5 # "NULL")
    BY RequestWords
<1>4. SaysOf(msg, "id") = IF b1 THEN <<v1>> ELSE NULL
    BY DEF SaysOf
<1>5. SaysOf(msg, "msg") = IF b2 THEN <<"hello">> ELSE NULL
    BY DEF SaysOf
<1>6. SaysOf(msg, "prog") = IF b3 THEN <<"Chrome">> ELSE NULL
    BY DEF SaysOf
<1>7. SaysOf(msg, "duration") = IF b4 THEN <<v4>> ELSE NULL
    BY DEF SaysOf
<1>8. SaysOf(msg, "action") = IF b5 THEN <<v5>> ELSE NULL
    BY DEF SaysOf
<1>. HIDE DEF b1, b2, b3, b4, b5, v1, v4, v5, P
<1>9. /\ "id" \notin {"msg", "prog", "duration", "action"}
      /\ "msg" \notin {"prog", "duration", "action"}
      /\ "prog" \notin {"duration", "action"} /\ "duration" # "action"
      /\ "hello" # "NULL" /\ "Chrome" # "NULL"
    OBVIOUS
<1>10. \E k1, k2, k3, k4, k5, v2, v3 :
         /\ k1 = "id" /\ k2 = "msg" /\ k3 = "prog" /\ k4 = "duration" /\ k5 = "action"
         /\ v2 = "hello" /\ v3 = "Chrome"
    OBVIOUS
<1>11. PICK k1, k2, k3, k4, k5, v2, v3 :
         /\ k1 = "id" /\ k2 = "msg" /\ k3 = "prog" /\ k4 = "duration" /\ k5 = "action"
         /\ v2 = "hello" /\ v3 = "Chrome"
    BY <1>10
<1>12. /\ KeysIn(P, {<<k1>>, <<k2>>, <<k3>>, <<k4>>, <<k5>>}) /\ Len(P) <= 5
       /\ \A n \in 1..Len(P) : OfWords(P[n])
       /\ Found1(P, b1, k1, v1) /\ Found1(P, b2, k2, v2) /\ Found1(P, b3, k3, v3)
       /\ Found1(P, b4, k4, v4) /\ Found1(P, b5, k5, v5)
    <2>1. P = Five(b1, k1, v1, b2, k2, v2, b3, k3, v3, b4, k4, v4, b5, k5, v5)
        BY <1>1, <1>11
    <2>2. k1 \notin {k2, k3, k4, k5} /\ k2 \notin {k3, k4, k5} /\ k3 \notin {k4, k5} /\ k4 # k5
        BY <1>9, <1>11
    <2>3. Word(k1) /\ Word(k2) /\ Word(k3) /\ Word(k4) /\ Word(k5) /\ Word(v2) /\ Word(v3)
          /\ v2 # "NULL" /\ v3 # "NULL"
        BY <1>3, <1>9, <1>11
    <2>. QED
        <3>1. FiveGiven(b1, k1, v1, b2, k2, v2, b3, k3, v3, b4, k4, v4, b5, k5, v5)
            BY <1>3, <2>2, <2>3 DEF FiveGiven
        <3>2. FiveFound(P, b1, k1, v1, b2, k2, v2, b3, k3, v3, b4, k4, v4, b5, k5, v5)
            BY <2>1, <3>1, FiveParams
        <3>. QED
            BY <3>2 DEF FiveFound
<1>13. {<<k1>>, <<k2>>, <<k3>>, <<k4>>, <<k5>>} = ParamKeys
    BY <1>11 DEF ParamKeys
<1>14. /\ Lookup(P, <<"id">>) = SaysOf(msg, "id")
       /\ Lookup(P, <<"msg">>) = SaysOf(msg, "msg")
       /\ Lookup(P, <<"prog">>) = SaysOf(msg, "prog")
       /\ Lookup(P, <<"duration">>) = SaysOf(msg, "duration")
       /\ Lookup(P, <<"action">>) = SaysOf(msg, "action")
    <2>1. Lookup(P, <<"id">>) = SaysOf(msg, "id")
        BY <1>4, <1>11, <1>12 DEF Found1
    <2>2. Lookup(P, <<"msg">>) = SaysOf(msg, "msg")
        BY <1>5, <1>11, <1>12 DEF Found1
    <2>3. Lookup(P, <<"prog">>) = SaysOf(msg, "prog")
        BY <1>6, <1>11, <1>12 DEF Found1
    <2>4. Lookup(P, <<"duration">>) = SaysOf(msg, "duration")
        BY <1>7, <1>11, <1>12 DEF Found1
    <2>5. Lookup(P, <<"action">>) = SaysOf(msg, "action")
        BY <1>8, <1>11, <1>12 DEF Found1
    <2>. QED
        BY <2>1, <2>2, <2>3, <2>4, <2>5
<1>15. ASSUME NEW x \in ParamKey PROVE Lookup(P, <<x>>) = SaysOf(msg, x)
    BY <1>14 DEF ParamKey
<1>. QED
    BY <1>12, <1>13, <1>15 DEF P

(* One line and its line feed.                                             *)
LEMMA OneLineSplits ==
    ASSUME NEW S, LF \in S, NEW t \in Seq(S), LF \notin Range(t)
    PROVE  Splits(Cat(t, <<LF>>), <<t>>, S)
<1>. SUFFICES ASSUME NEW r \in Seq(S)
              PROVE  Lines(Cat(Cat(t, <<LF>>), r)) = Cat(<<t>>, Lines(r))
    BY DEF Splits
<1>. DEFINE f == <<LF>>
<1>1. f \in Seq(S)
    OBVIOUS
<1>2. Lines(Cat(t, Cat(f, r))) = Cat(<<t>>, Lines(r))
    BY CatLine
<1>. HIDE DEF f
<1>3. Cat(Cat(t, f), r) = Cat(t, Cat(f, r))
    BY <1>1, CatFacts
<1>. QED
    BY <1>2, <1>3 DEF f

(* The length and the elements of a concatenation.                         *)
LEMMA CatSize ==
    ASSUME NEW S, NEW u \in Seq(S), NEW v \in Seq(S)
    PROVE  /\ Cat(u, v) \in Seq(S) /\ Len(Cat(u, v)) = Len(u) + Len(v)
           /\ Range(Cat(u, v)) = Range(u) \cup Range(v)
<1>1. u \o v \in Seq(S) /\ Len(u \o v) = Len(u) + Len(v)
    BY ConcatProperties
<1>2. Range(u \o v) = Range(u) \cup Range(v)
    BY RangeOfConcat
<1>. QED
    BY <1>1, <1>2 DEF Cat

(* The pieces that a text is flattened from bound its length.              *)
LEMMA FlattenLength ==
    ASSUME NEW S, NEW ss \in Seq(Seq(S)), \A n \in 1..Len(ss) : Len(ss[n]) <= 4
    PROVE  FlattenSeq(ss) \in Seq(S) /\ Len(FlattenSeq(ss)) <= 4 * Len(ss)
<1>1. PICK k \in [0..Len(ss) -> Seq(S)] : FlattenRun(k, ss) /\ FlattenSeq(ss) = k[Len(ss)]
    BY FlattenAre
<1>. DEFINE N == Len(ss)
            P == {n \in Nat : Len(k[n]) <= 4 * n}
<1>2. N \in Nat /\ \A n \in 1..N : ss[n] \in Seq(S)
    BY LenProperties, ElementOfSeq
<1>3. 0 \in P
    BY <1>1, EmptySeq DEF FlattenRun
<1>4. ASSUME NEW n \in 0..(N - 1), n \in P PROVE n + 1 \in P
    <2>. DEFINE s == ss[n + 1]
    <2>1. n + 1 \in 1..N /\ (n + 1) - 1 = n /\ n + 1 \in Nat /\ n \in 0..N
        BY <1>2
    <2>2. k[n + 1] = k[n] \o s /\ s \in Seq(S) /\ k[n] \in Seq(S) /\ Len(s) <= 4
        BY <1>1, <1>2, <2>1 DEF FlattenRun
    <2>. HIDE DEF s
    <2>3. Len(k[n + 1]) = Len(k[n]) + Len(s) /\ Len(k[n]) \in Nat /\ Len(s) \in Nat
        BY <2>2, ConcatProperties, LenProperties
    <2>. QED
        BY <1>4, <2>1, <2>2, <2>3
<1>. HIDE DEF P
<1>5. \A n \in 0..N : n \in P
    BY <1>2, <1>3, <1>4, UpTo
<1>6. N \in P /\ N \in 0..N
    BY <1>2, <1>5
<1>. QED
    BY <1>1, <1>6 DEF P

(* What is written for a table of words.                                   *)
LEMMA SpelledLength ==
    ASSUME NEW table \in Seq(Item),
           \A n \in 1..Len(table) : Len(table[n].key) <= 1 /\ Len(table[n].val) <= 1
    PROVE  Spelled(table, <<EQ>>, <<LF>>) \in Text
           /\ Len(Spelled(table, <<EQ>>, <<LF>>)) <= 4 * Len(table)
<1>. DEFINE ss == [n \in DOMAIN table |-> table[n].key \o <<EQ>> \o table[n].val \o <<LF>>]
            N == Len(table)
<1>1. N \in Nat /\ DOMAIN table = 1..N /\ \A n \in 1..N : table[n] \in Item
    BY LenProperties, ElementOfSeq
<1>2. ASSUME NEW n \in 1..N
      PROVE  ss[n] \in Seq(Token) /\ Len(ss[n]) <= 4
    <2>. DEFINE a == table[n].key
                b == table[n].val
                e == <<EQ>>
                f == <<LF>>
    <2>1. a \in Seq(Token) /\ b \in Seq(Token) /\ Len(a) <= 1 /\ Len(b) <= 1
        BY <1>1 DEF Item, Text
    <2>2. e \in Seq(Token) /\ f \in Seq(Token) /\ Len(e) = 1 /\ Len(f) = 1
        BY TokenAssumption
    <2>3. ss[n] = ((a \o e) \o b) \o f
        BY <1>1
    <2>. HIDE DEF a, b, e, f, ss
    <2>. DEFINE u == a \o e
                v == u \o b
    <2>4. u \in Seq(Token) /\ Len(u) = Len(a) + Len(e)
        BY <2>1, <2>2, ConcatProperties
    <2>. HIDE DEF u
    <2>5. v \in Seq(Token) /\ Len(v) = Len(u) + Len(b)
        BY <2>1, <2>4, ConcatProperties
    <2>. HIDE DEF v
    <2>6. v \o f \in Seq(Token) /\ Len(v \o f) = Len(v) + Len(f)
        BY <2>2, <2>5, ConcatProperties
    <2>7. Len(a) \in Nat /\ Len(b) \in Nat
        BY <2>1, LenProperties
    <2>8. Len(v \o f) <= 4
        BY <2>1, <2>2, <2>4, <2>5, <2>6, <2>7
    <2>. QED
        BY <2>3, <2>6, <2>8 DEF u, v
<1>3. ss \in [1..N -> Seq(Token)]
    BY <1>1, <1>2
<1>4. Spelled(table, <<EQ>>, <<LF>>) = FlattenSeq(ss)
    BY DEF Spelled
<1>. HIDE DEF ss
<1>5. ss \in Seq(Seq(Token)) /\ Len(ss) = N
    BY <1>1, <1>3, AsSeq
<1>6. \A n \in 1..Len(ss) : Len(ss[n]) <= 4
    BY <1>2, <1>5
<1>. QED
    BY <1>4, <1>5, <1>6, FlattenLength DEF Text

(* A text that fits is not cut.                                            *)
LEMMA CutFits ==
    ASSUME NEW S, NEW text \in Seq(S), NEW n \in Nat, Len(text) <= n
    PROVE  Cut(text, n) = text
<1>. DEFINE L == Len(text)
<1>1. L \in Nat
    BY LenProperties
<1>2. {n, L} \in SUBSET Nat /\ L \in {n, L} /\ \A m \in {n, L} : L <= m
    BY <1>1
<1>3. Min({n, L}) = L
    <2>. HIDE DEF L
    <2>. QED
        BY <1>2, LeastIs
<1>. QED
    BY <1>3, Beginnings DEF Cut

(* The first line of a request, and the lines that its text begins with.   *)
FirstLine(msg) == Cat(<<"POST">>, Cat(<<SP>>, <<msg.uri>>))
HeadLines(msg) == Cat(<<FirstLine(msg)>>, <<(<<>>)>>)
ParamLines(msg) == LinesOf(Params(msg), <<EQ>>)

(* The first line has a blank, behind the type and before the uri.         *)
LEMMA FirstLineFacts ==
    ASSUME NEW msg \in Request
    PROVE  /\ FirstLine(msg) \in Seq(Token) /\ Len(FirstLine(msg)) = 3
           /\ LF \notin Range(FirstLine(msg)) /\ EQ \notin Range(FirstLine(msg))
           /\ strchr(FirstLine(msg), 1, SP) # 0
           /\ Before(FirstLine(msg), SP) = <<"POST">>
           /\ After(FirstLine(msg), SP) = <<msg.uri>>
<1>. DEFINE a == <<"POST">>
            b == <<SP>>
            c == <<msg.uri>>
            d == Cat(b, c)
            line == Cat(a, d)
<1>1. Word("POST") /\ Word(msg.uri) /\ SP \in Token /\ SP # LF /\ SP # EQ
    BY RequestWords, TokenAssumption DEF SP, LF, EQ
<1>2. /\ a \in Seq(Token) /\ b \in Seq(Token) /\ c \in Seq(Token)
      /\ Len(a) = 1 /\ Len(b) = 1 /\ Len(c) = 1
    BY <1>1 DEF Word
<1>3. Range(a) = {"POST"} /\ Range(b) = {SP} /\ Range(c) = {msg.uri}
    <2>1. DOMAIN a = {1} /\ a[1] = "POST" /\ DOMAIN b = {1} /\ b[1] = SP
          /\ DOMAIN c = {1} /\ c[1] = msg.uri
        OBVIOUS
    <2>. HIDE DEF a, b, c
    <2>. QED
        BY <2>1 DEF Range
<1>4. line = FirstLine(msg)
    BY DEF FirstLine
<1>5. line = Cat(a, Cat(<<SP>>, c))
    OBVIOUS
<1>. HIDE DEF a, b, c
<1>6. d \in Seq(Token) /\ Len(d) = 2 /\ Range(d) = {SP} \cup {msg.uri}
    <2>1. d \in Seq(Token) /\ Len(d) = Len(b) + Len(c) /\ Range(d) = Range(b) \cup Range(c)
        BY <1>2, CatSize
    <2>. QED
        BY <1>2, <1>3, <2>1
<1>. HIDE DEF d
<1>7. line \in Seq(Token) /\ Len(line) = 3 /\ Range(line) = {"POST"} \cup ({SP} \cup {msg.uri})
    <2>1. /\ line \in Seq(Token) /\ Len(line) = Len(a) + Len(d)
          /\ Range(line) = Range(a) \cup Range(d)
        BY <1>2, <1>6, CatSize
    <2>. QED
        BY <1>2, <1>3, <1>6, <2>1
<1>8. LF \notin Range(line) /\ EQ \notin Range(line)
    BY <1>1, <1>7 DEF Word
<1>9. SP \notin Range(a)
    BY <1>1, <1>3 DEF Word
<1>. HIDE DEF line
<1>10. strchr(line, 1, SP) # 0
    BY <1>1, <1>2, <1>5, <1>9, FirstIsThere
<1>11. Before(line, SP) = a
    BY <1>1, <1>2, <1>5, <1>9, FirstIsThere
<1>12. After(line, SP) = c
    BY <1>1, <1>2, <1>5, <1>9, FirstIsThere
<1>. QED
    BY <1>4, <1>7, <1>8, <1>10, <1>11, <1>12 DEF a, c

(* A request with only a uri and parameters, for any number of tokens.     *)
Posted(uri, p) == [ok |-> TRUE, type |-> <<"POST">>, uri |-> uri, headers |-> <<>>, params |-> p]

(* The fields of a request with the parameters of a message.               *)
LEMMA PostedFields ==
    ASSUME NEW uri, NEW p
    PROVE  /\ [NewRequest(uri) EXCEPT !.params = p] = Posted(uri, p)
           /\ Posted(uri, p).type = <<"POST">> /\ Posted(uri, p).uri = uri
           /\ Posted(uri, p).headers = <<>> /\ Posted(uri, p).params = p
<1>. DEFINE t == <<"POST">>
            h == <<>>
<1>1. \E o : o = TRUE
    OBVIOUS
<1>2. PICK o : o = TRUE
    BY <1>1
<1>3. NewRequest(uri) = [ok |-> o, type |-> t, uri |-> uri, headers |-> h, params |-> h]
    BY <1>2 DEF NewRequest
<1>4. Posted(uri, p) = [ok |-> o, type |-> t, uri |-> uri, headers |-> h, params |-> p]
    BY <1>2 DEF Posted
<1>. HIDE DEF t, h
<1>. DEFINE new == NewRequest(uri)
            end == Posted(uri, p)
<1>. HIDE DEF new, end
<1>5. [[ok |-> o, type |-> t, uri |-> uri, headers |-> h, params |-> h] EXCEPT !.params = p]
         = [ok |-> o, type |-> t, uri |-> uri, headers |-> h, params |-> p]
    OBVIOUS
<1>6. [new EXCEPT !.params = p] = end
    BY <1>3, <1>4, <1>5 DEF new, end
<1>7. end.type = t /\ end.uri = uri /\ end.headers = h /\ end.params = p
    BY <1>4 DEF end
<1>. QED
    BY <1>6, <1>7 DEF new, end, t, h

(* What is written for no entries.                                         *)
LEMMA SpelledNothing ==
    ASSUME NEW delim, NEW end PROVE Spelled(<<>>, delim, end) = <<>>
<1>. DEFINE w == <<>>
            ss == [n \in DOMAIN w |-> w[n].key \o delim \o w[n].val \o end]
<1>1. DOMAIN w = 1..0 /\ 1..0 = {}
    OBVIOUS
<1>2. ss \in [1..0 -> Seq({})]
    BY <1>1
<1>3. Spelled(w, delim, end) = FlattenSeq(ss)
    BY DEF Spelled
<1>. HIDE DEF ss
<1>4. ss \in Seq(Seq({})) /\ Len(ss) = 0
    BY <1>2, AsSeq
<1>5. PICK k \in [0..Len(ss) -> Seq({})] : FlattenRun(k, ss) /\ FlattenSeq(ss) = k[Len(ss)]
    BY <1>4, FlattenAre
<1>. QED
    BY <1>3, <1>4, <1>5 DEF FlattenRun

(* The lines of a request's text.                                          *)
LEMMA TextFacts ==
    ASSUME NEW msg \in Request
    PROVE  /\ RequestText(msg) \in Seq(Token)
           /\ HeadLines(msg) \in Seq(Seq(Token)) /\ ParamLines(msg) \in Seq(Seq(Token))
           /\ Splits(RequestText(msg), Cat(HeadLines(msg), ParamLines(msg)), Token)
<1>. DEFINE p == Params(msg)
            first == FirstLine(msg)
            uri == <<msg.uri>>
            B == Spelled(p, <<EQ>>, <<LF>>)
            f == <<LF>>
            d == <<(<<EQ>>), EQ>>
            w1 == Cat(first, f)
            w2 == Cat(w1, f)
            whole == Cat(w2, B)
            lb == ParamLines(msg)
<1>1. KeysIn(p, ParamKeys) /\ Len(p) <= 5 /\ \A n \in 1..Len(p) : OfWords(p[n])
    BY ParamsFacts
<1>2. p \in Seq(Item) /\ Distinct(p) /\ Len(p) \in Nat
    BY <1>1, LenProperties DEF KeysIn
<1>3. d \in Delims /\ d[1] = <<EQ>>
    BY DEF Delims
<1>4. Good(p)
    BY <1>1, <1>2, RoomAssumption, TableAssumption DEF Good, OfWords
<1>. HIDE DEF d
<1>5. lb \in Seq(Text) /\ B \in Text /\ Splits(B, lb, Token)
    BY <1>3, <1>4, GoodLines DEF ParamLines
<1>6. \A n \in 1..Len(p) : Len(p[n].key) <= 1 /\ Len(p[n].val) <= 1
    BY <1>1 DEF OfWords
<1>7. Len(B) <= 20
    <2>1. Len(B) <= 4 * Len(p)
        BY <1>2, <1>6, SpelledLength
    <2>2. Len(B) \in Nat
        BY <1>5, LenProperties DEF Text
    <2>. QED
        BY <1>1, <1>2, <2>1, <2>2
<1>8. f \in Seq(Token) /\ Len(f) = 1 /\ LF \in Token
    BY TokenAssumption
<1>9. first \in Seq(Token) /\ Len(first) = 3 /\ LF \notin Range(first)
    BY FirstLineFacts
<1>10. B \in Seq(Token) /\ lb \in Seq(Seq(Token))
    BY <1>5 DEF Text
<1>11. RequestText(msg) = Cut(whole, 1000)
    <2>. DEFINE req == [NewRequest(uri) EXCEPT !.params = p]
                t == <<"POST">>
                s == <<SP>>
                y == (((((t \o s) \o uri) \o f) \o <<>>) \o f) \o B
    <2>1. p = ((((Id(msg) \o Msg(msg)) \o Prog(msg)) \o Duration(msg)) \o Action(msg))
        BY DEF Params, Cat
    <2>2. RequestText(msg) = request_prepare(req, 1000)
        BY <2>1 DEF RequestText, Id, Msg, Prog, Duration, Action
    <2>3. req.type = t /\ req.uri = uri /\ req.headers = <<>> /\ req.params = p
        <3>1. req = Posted(uri, p)
            BY PostedFields
        <3>. HIDE DEF req, t
        <3>2. /\ Posted(uri, p).type = t /\ Posted(uri, p).uri = uri
              /\ Posted(uri, p).headers = <<>> /\ Posted(uri, p).params = p
            BY PostedFields DEF t
        <3>. QED
            BY <3>1, <3>2
    <2>4. request_prepare(req, 1000) = Cut(y, 1000)
        BY <2>3, SpelledNothing DEF request_prepare
    <2>5. t \in Seq(Token) /\ s \in Seq(Token) /\ uri \in Seq(Token)
        BY RequestWords, TokenAssumption DEF Word
    <2>6. first = Cat(t, Cat(s, uri))
        BY DEF FirstLine
    <2>. HIDE DEF req, t, s, uri, f, first
    <2>7. (t \o s) \o uri = first
        BY <2>5, <2>6, ConcatAssociative DEF Cat
    <2>8. w1 \o <<>> = w1
        BY <1>8, <1>9, CatFacts, ConcatEmptySeq
    <2>9. y = whole
        BY <2>7, <2>8 DEF Cat
    <2>. HIDE DEF y, whole, B
    <2>. QED
        BY <2>2, <2>4, <2>9
<1>12. Splits(w1, <<first>>, Token)
    BY <1>8, <1>9, OneLineSplits
<1>13. w1 \in Seq(Token) /\ Len(w1) = 4
    <2>1. w1 \in Seq(Token) /\ Len(w1) = Len(first) + Len(f)
        BY <1>8, <1>9, CatSize
    <2>. QED
        BY <1>8, <1>9, <2>1
<1>14. Splits(f, <<(<<>>)>>, Token)
    <2>1. <<>> \in Seq(Token) /\ LF \notin Range(<<>>)
        BY EmptySeq DEF Range
    <2>2. Splits(Cat(<<>>, <<LF>>), <<(<<>>)>>, Token)
        BY <1>8, <2>1, OneLineSplits
    <2>3. Cat(<<>>, f) = f
        <3>. HIDE DEF f
        <3>. QED
            BY <1>8, ConcatEmptySeq DEF Cat
    <2>. QED
        BY <2>2, <2>3
<1>15. <<first>> \in Seq(Seq(Token)) /\ <<(<<>>)>> \in Seq(Seq(Token))
    <2>1. <<>> \in Seq(Token)
        BY EmptySeq
    <2>. DEFINE n == <<>>
    <2>. HIDE DEF n, first
    <2>. QED
        BY <1>9, <2>1 DEF n
<1>. DEFINE E == <<(<<>>)>>
            l1 == <<first>>
<1>. HIDE DEF f, E, l1, w1
<1>16. Splits(w2, Cat(l1, E), Token) /\ w2 \in Seq(Token) /\ Len(w2) = 5
       /\ Cat(l1, E) \in Seq(Seq(Token))
    <2>1. Splits(w2, Cat(l1, E), Token)
        BY <1>8, <1>12, <1>13, <1>14, <1>15, SplitsInARow DEF E, l1
    <2>2. w2 \in Seq(Token) /\ Len(w2) = Len(w1) + Len(f)
        BY <1>8, <1>13, CatSize
    <2>3. Cat(l1, E) \in Seq(Seq(Token))
        BY <1>15, CatSize DEF E, l1
    <2>. QED
        BY <1>8, <1>13, <2>1, <2>2, <2>3
<1>. HIDE DEF w2
<1>17. Splits(whole, Cat(Cat(l1, E), lb), Token) /\ whole \in Seq(Token) /\ Len(whole) <= 1000
    <2>1. Splits(whole, Cat(Cat(l1, E), lb), Token)
        BY <1>5, <1>10, <1>16, SplitsInARow
    <2>2. whole \in Seq(Token) /\ Len(whole) = Len(w2) + Len(B)
        BY <1>10, <1>16, CatSize
    <2>3. Len(B) \in Nat
        BY <1>10, LenProperties
    <2>. QED
        BY <1>7, <1>16, <2>1, <2>2, <2>3
<1>. HIDE DEF whole
<1>18. Cut(whole, 1000) = whole
    BY <1>17, CutFits
<1>19. Cat(l1, E) = HeadLines(msg)
    BY DEF HeadLines, l1, E
<1>. QED
    BY <1>10, <1>11, <1>16, <1>17, <1>18, <1>19

(* Where a parameter is given among the first n, and what is given last.   *)
Gives(b, n, x) == {k \in 1..n : SaysOf(b[k], x) # NULL}
Told(b, n, x) == IF Gives(b, n, x) = {} THEN NULL ELSE SaysOf(b[LastOf(Gives(b, n, x))], x)

(* The last position of a set.                                             *)
LEMMA LastIs ==
    ASSUME NEW T \in SUBSET Nat, NEW n \in T, \A j \in T : j <= n
    PROVE  LastOf(T) = n
<1>1. \E k \in T : \A j \in T : j <= k
    OBVIOUS
<1>2. LastOf(T) \in T /\ \A j \in T : j <= LastOf(T)
    BY <1>1 DEF LastOf
<1>3. LastOf(T) <= n /\ n <= LastOf(T) /\ n \in Nat /\ LastOf(T) \in Nat
    BY <1>2
<1>. QED
    BY <1>3

(* What is told by one message, and by one more.                           *)
LEMMA ToldFirst ==
    ASSUME NEW b, NEW x PROVE Told(b, 1, x) = SaysOf(b[1], x)
<1>. DEFINE G == Gives(b, 1, x)
<1>1. 1..1 = {1}
    OBVIOUS
<1>2. CASE SaysOf(b[1], x) = NULL
    <2>1. G = {}
        BY <1>1, <1>2 DEF Gives
    <2>. QED
        BY <1>2, <2>1 DEF Told
<1>3. CASE SaysOf(b[1], x) # NULL
    <2>1. G = {1}
        BY <1>1, <1>3 DEF Gives
    <2>2. LastOf({1}) = 1
        BY LastIs
    <2>. QED
        BY <2>1, <2>2 DEF Told
<1>. QED
    BY <1>2, <1>3

(* And what one more request says.                                         *)
LEMMA ToldNext ==
    ASSUME NEW b, NEW x, NEW n \in Nat
    PROVE  Told(b, n + 1, x) = IF SaysOf(b[n + 1], x) = NULL THEN Told(b, n, x)
                               ELSE SaysOf(b[n + 1], x)
<1>. DEFINE G == Gives(b, n, x)
            H == Gives(b, n + 1, x)
<1>1. 1..(n + 1) = 1..n \cup {n + 1}
    OBVIOUS
<1>2. CASE SaysOf(b[n + 1], x) = NULL
    <2>1. G = H
        BY <1>1, <1>2 DEF Gives
    <2>. QED
        BY <1>2, <2>1 DEF Told
<1>3. CASE SaysOf(b[n + 1], x) # NULL
    <2>1. H \in SUBSET Nat /\ n + 1 \in H /\ \A j \in H : j <= n + 1
        BY <1>3 DEF Gives
    <2>. HIDE DEF H
    <2>2. LastOf(H) = n + 1
        BY <2>1, LastIs
    <2>. QED
        BY <1>3, <2>1, <2>2 DEF Told, H
<1>. QED
    BY <1>2, <1>3

(* What request_parse finds in lines, from a table on.                     *)
Finds(b, n, text, lines, table) ==
    /\ Splits(text, Cat(HeadLines(b[1]), lines), Token)
    /\ Reads(lines, <<>>, table)
    /\ KeysIn(table, ParamKeys)
    /\ \A x \in ParamKey : Lookup(table, <<x>>) = Told(b, n, x)

(* The lines of one request, read from a table of the parameters on.       *)
LEMMA ReadsParams ==
    ASSUME NEW msg \in Request, NEW table, KeysIn(table, ParamKeys)
    PROVE  \E new : /\ Reads(ParamLines(msg), table, new) /\ KeysIn(new, ParamKeys)
                    /\ \A x \in ParamKey :
                          Lookup(new, <<x>>) = IF SaysOf(msg, x) = NULL THEN Lookup(table, <<x>>)
                                               ELSE SaysOf(msg, x)
<1>. DEFINE p == Params(msg)
<1>1. /\ KeysIn(p, ParamKeys) /\ \A n \in 1..Len(p) : Fits(p[n]) /\ p[n].val # NULL
      /\ \A x \in ParamKey : Lookup(p, <<x>>) = SaysOf(msg, x)
    BY ParamsFacts DEF OfWords
<1>. HIDE DEF p
<1>2. PICK new : /\ Reads(LinesOf(p, <<EQ>>), table, new) /\ KeysIn(new, ParamKeys)
                 /\ \A x : Lookup(new, x) = IF Lookup(p, x) = NULL THEN Lookup(table, x)
                                            ELSE Lookup(p, x)
    BY <1>1, FewParams, ReadsTable
<1>3. \A x \in ParamKey :
        Lookup(new, <<x>>) = IF SaysOf(msg, x) = NULL THEN Lookup(table, <<x>>)
                             ELSE SaysOf(msg, x)
    BY <1>1, <1>2
<1>. QED
    BY <1>2, <1>3 DEF ParamLines, p

(* A table without entries.                                                *)
LEMMA EmptyKeys == KeysIn(<<>>, ParamKeys) /\ \A x : Lookup(<<>>, x) = NULL
<1>. DEFINE w == <<>>
<1>1. w \in Seq(Item) /\ Distinct(w) /\ Range(w) = {}
    BY EmptySeq DEF Distinct, Range
<1>. HIDE DEF w
<1>2. KeysIn(w, ParamKeys)
    BY <1>1 DEF KeysIn
<1>3. \A x : Lookup(w, x) = NULL
    BY <1>1, LookupSays
<1>. QED
    BY <1>2, <1>3 DEF w

(* The texts of a batch, one after the other.                              *)
LEMMA BatchTexts ==
    ASSUME NEW b \in Seq(Request), NEW k, NEW N, N = Len(b), N # 0,
           k \in [0..N -> Seq(Token)],
           k[0] = <<>> /\ \A n \in 1..N : k[n] = Cat(k[n - 1], RequestText(b[n]))
    PROVE  \E lines \in Seq(Seq(Token)) : \E table : Finds(b, N, k[N], lines, table)
<1>. DEFINE P == {n \in Nat : n # 0 => \E lines \in Seq(Seq(Token)) : \E table :
                                          Finds(b, n, k[n], lines, table)}
<1>1. N \in Nat /\ \A n \in 1..N : b[n] \in Request
    BY LenProperties, ElementOfSeq
<1>2. 0 \in P
    OBVIOUS
<1>3. ASSUME NEW n \in 0..(N - 1), n \in P PROVE n + 1 \in P
    <2>. DEFINE m == n + 1
                msg == b[m]
                text == RequestText(msg)
                top == HeadLines(msg)
                own == ParamLines(msg)
    <2>1. m \in 1..N /\ m - 1 = n /\ m \in Nat /\ n \in 0..N /\ n \in Nat /\ m # 0
        BY <1>1
    <2>2. msg \in Request
        BY <1>1, <2>1
    <2>3. text \in Seq(Token) /\ top \in Seq(Seq(Token)) /\ own \in Seq(Seq(Token))
          /\ Splits(text, Cat(top, own), Token)
        BY <2>2, TextFacts
    <2>4. k[m] = Cat(k[n], text) /\ k[n] \in Seq(Token)
        BY <1>1, <2>1
    <2>5. CASE n = 0
        <3>1. m = 1 /\ k[n] = <<>>
            BY <2>5
        <3>2. k[m] = text
            <4>. HIDE DEF text
            <4>. QED
                BY <2>3, <2>4, <3>1, ConcatEmptySeq DEF Cat
        <3>3. PICK new : /\ Reads(own, <<>>, new) /\ KeysIn(new, ParamKeys)
                         /\ \A x \in ParamKey :
                               Lookup(new, <<x>>) = IF SaysOf(msg, x) = NULL
                                                    THEN Lookup(<<>>, <<x>>) ELSE SaysOf(msg, x)
            BY <2>2, EmptyKeys, ReadsParams
        <3>4. \A x \in ParamKey : Lookup(new, <<x>>) = Told(b, m, x)
            BY <3>1, <3>3, EmptyKeys, ToldFirst
        <3>5. Splits(k[m], Cat(HeadLines(b[1]), own), Token)
            BY <2>3, <3>1, <3>2
        <3>. HIDE DEF m, own
        <3>6. Finds(b, m, k[m], own, new)
            BY <3>3, <3>4, <3>5 DEF Finds
        <3>. QED
            BY <2>1, <2>3, <3>6 DEF m
    <2>6. CASE n # 0
        <3>1. PICK lines \in Seq(Seq(Token)) : \E table : Finds(b, n, k[n], lines, table)
            BY <1>3, <2>6
        <3>2. PICK table : Finds(b, n, k[n], lines, table)
            BY <3>1
        <3>3. /\ Splits(k[n], Cat(HeadLines(b[1]), lines), Token) /\ Reads(lines, <<>>, table)
              /\ KeysIn(table, ParamKeys)
              /\ \A x \in ParamKey : Lookup(table, <<x>>) = Told(b, n, x)
            BY <3>2 DEF Finds
        <3>4. PICK new : /\ Reads(own, table, new) /\ KeysIn(new, ParamKeys)
                         /\ \A x \in ParamKey :
                               Lookup(new, <<x>>) = IF SaysOf(msg, x) = NULL
                                                    THEN Lookup(table, <<x>>) ELSE SaysOf(msg, x)
            BY <2>2, <3>3, ReadsParams
        <3>5. ASSUME NEW x \in ParamKey PROVE Lookup(new, <<x>>) = Told(b, m, x)
            BY <2>1, <3>3, <3>4, ToldNext
        <3>6. Reads(top, table, table)
            <4>. DEFINE first == FirstLine(msg)
                        none == <<>>
            <4>1. first \in Text /\ EQ \notin Range(first)
                BY <2>2, FirstLineFacts DEF Text
            <4>2. none \in Text /\ EQ \notin Range(none)
                BY EmptySeq DEF Text, Range
            <4>. HIDE DEF none, first
            <4>3. Reads(<<first>>, table, table) /\ Reads(<<none>>, table, table)
                BY <4>1, <4>2, ReadsNoEq
            <4>4. <<first>> \in Seq(Text) /\ <<none>> \in Seq(Text)
                BY <4>1, <4>2
            <4>5. Reads(Cat(<<first>>, <<none>>), table, table)
                BY <4>3, <4>4, ReadsInARow
            <4>. QED
                BY <4>5 DEF HeadLines, first, none
        <3>. DEFINE more == Cat(top, own)
                    all == Cat(lines, more)
                    h1 == HeadLines(b[1])
        <3>. HIDE DEF top, own, m, text
        <3>7. Reads(more, table, new)
            BY <2>3, <3>4, <3>6, ReadsInARow
        <3>8. more \in Seq(Seq(Token)) /\ all \in Seq(Seq(Token))
            BY <2>3, CatFacts
        <3>9. h1 \in Seq(Seq(Token))
            <4>1. 1 \in 1..N
                BY <1>1, <2>1
            <4>. QED
                BY <1>1, <4>1, TextFacts
        <3>. HIDE DEF more, h1
        <3>10. Reads(all, <<>>, new)
            BY <3>3, <3>7, <3>8, ReadsInARow
        <3>11. Splits(k[m], Cat(Cat(h1, lines), more), Token)
            <4>1. Cat(h1, lines) \in Seq(Seq(Token))
                BY <3>9, CatFacts
            <4>2. Splits(k[n], Cat(h1, lines), Token)
                BY <3>3 DEF h1
            <4>. QED
                BY <2>3, <2>4, <3>8, <4>1, <4>2, SplitsInARow DEF more
        <3>12. Cat(Cat(h1, lines), more) = Cat(h1, all)
            BY <3>8, <3>9, CatFacts
        <3>. HIDE DEF all
        <3>13. Splits(k[m], Cat(h1, all), Token)
            BY <3>11, <3>12
        <3>14. Finds(b, m, k[m], all, new)
            BY <3>4, <3>5, <3>10, <3>13 DEF Finds, h1
        <3>. QED
            BY <2>1, <3>8, <3>14 DEF m
    <2>. QED
        BY <2>5, <2>6
<1>. HIDE DEF P
<1>4. \A n \in 0..N : n \in P
    BY <1>1, <1>2, <1>3, UpTo
<1>5. N \in P
    BY <1>1, <1>4
<1>. QED
    BY <1>5 DEF P

(* What request_parse finds in the texts of a batch.                       *)
LEMMA BatchParsed ==
    ASSUME NEW b \in Seq(Request), b # <<>>, NEW text, NEW all,
           text = [k \in DOMAIN b |-> RequestText(b[k])],
           all = ParseRequest(FlattenSeq(text))
    PROVE  /\ all.ok /\ all.uri = <<b[1].uri>>
           /\ \A x \in ParamKey : Lookup(all.params, <<x>>) = Told(b, Len(b), x)
<1>. DEFINE N == Len(b)
            whole == FlattenSeq(text)
<1>1. N \in Nat /\ N # 0 /\ DOMAIN b = 1..N /\ \A n \in 1..N : b[n] \in Request
    BY LenProperties, ElementOfSeq, EmptySeq
<1>2. text \in [1..N -> Seq(Token)] /\ \A n \in 1..N : text[n] = RequestText(b[n])
    BY <1>1, TextFacts
<1>3. text \in Seq(Seq(Token)) /\ Len(text) = N
    BY <1>1, <1>2, AsSeq
<1>4. PICK k \in [0..Len(text) -> Seq(Token)] : FlattenRun(k, text) /\ FlattenSeq(text) = k[Len(text)]
    BY <1>3, FlattenAre
<1>5. k \in [0..N -> Seq(Token)] /\ whole = k[N]
      /\ k[0] = <<>> /\ \A n \in 1..N : k[n] = Cat(k[n - 1], RequestText(b[n]))
    BY <1>2, <1>3, <1>4 DEF FlattenRun, Cat
<1>. HIDE DEF N, whole
<1>6. PICK lines \in Seq(Seq(Token)) : \E table : Finds(b, N, k[N], lines, table)
    BY <1>1, <1>5, BatchTexts DEF N
<1>7. PICK table : Finds(b, N, k[N], lines, table)
    BY <1>6
<1>8. /\ Splits(whole, Cat(HeadLines(b[1]), lines), Token) /\ Reads(lines, <<>>, table)
      /\ KeysIn(table, ParamKeys)
      /\ \A x \in ParamKey : Lookup(table, <<x>>) = Told(b, N, x)
    BY <1>5, <1>7 DEF Finds
<1>. DEFINE msg == b[1]
            first == FirstLine(msg)
            none == <<>>
            E == <<none>>
            l1 == <<first>>
            ls == Lines(whole)
<1>9. msg \in Request /\ whole \in Seq(Token)
    <2>1. 1 \in 1..N /\ N \in 0..N
        BY <1>1
    <2>. QED
        BY <1>1, <1>5, <2>1
<1>10. /\ first \in Seq(Token) /\ strchr(first, 1, SP) # 0
       /\ Before(first, SP) = <<"POST">> /\ After(first, SP) = <<msg.uri>>
    BY <1>9, FirstLineFacts
<1>11. none \in Seq(Token) /\ EQ \notin Range(none) /\ none \notin Range(none)
    BY EmptySeq DEF Range
<1>12. HeadLines(msg) = Cat(l1, E)
    BY DEF HeadLines
<1>13. ls = Cat(Cat(Cat(l1, E), lines), E)
    <2>1. Lines(Cat(whole, <<>>)) = Cat(Cat(HeadLines(msg), lines), Lines(<<>>))
        BY <1>8, <1>11 DEF Splits
    <2>2. whole \o <<>> = whole
        BY <1>9, ConcatEmptySeq
    <2>. QED
        BY <1>12, <2>1, <2>2, LinesOfNothing DEF Cat
<1>. HIDE DEF msg, first, ls
<1>14. E \in Seq(Seq(Token)) /\ l1 \in Seq(Seq(Token))
    <2>. HIDE DEF none
    <2>. QED
        BY <1>10, <1>11
<1>15. MessageOf(ls, first, none, none, lines)
    <2>. HIDE DEF E, l1
    <2>. DEFINE y == Cat(lines, E)
    <2>1. Cat(l1, E) \in Seq(Seq(Token)) /\ y \in Seq(Seq(Token))
        BY <1>14, CatFacts
    <2>2. ls = Cat(Cat(l1, E), y)
        BY <1>13, <1>14, <2>1, CatFacts
    <2>3. Cat(Cat(l1, E), y) = Cat(l1, Cat(E, y))
        BY <1>14, <2>1, CatFacts
    <2>4. Cat(E, y) \in Seq(Seq(Token))
        BY <1>14, <2>1, CatFacts
    <2>. DEFINE z == Cat(E, y)
    <2>. HIDE DEF z
    <2>5. Cat(<<>>, z) = z
        BY <2>4, ConcatEmptySeq DEF Cat, z
    <2>. USE DEF z
    <2>6. ls = Cat(l1, Cat(none, Cat(E, y)))
        BY <2>2, <2>3, <2>5
    <2>. QED
        BY <2>6 DEF MessageOf, Cat, E, l1
<1>. HIDE DEF none
<1>16. ReadAs(ls, first, none, none, lines)
    <2>1. none \in Seq(Seq(Token)) 
        BY EmptySeq DEF none
    <2>. QED
        BY <1>10, <1>11, <1>15, <2>1, LinesOfMessage
<1>17. ls[1] = first /\ BelowEmpty(ls, none) = Cat(lines, E)
    BY <1>16 DEF ReadAs, Cat
<1>18. Extract(Cat(lines, E), EQ) = table
    <2>1. Reads(E, table, table)
        BY <1>11, ReadsNoEq DEF Text
    <2>. HIDE DEF E
    <2>2. Reads(Cat(lines, E), <<>>, table)
        BY <1>8, <1>14, <2>1, ReadsInARow
    <2>3. Cat(lines, E) \in Seq(Text)
        BY <1>14, CatFacts DEF Text
    <2>. QED
        BY <2>2, <2>3, ExtractReads
<1>19. all = [ok |-> TRUE, type |-> Before(first, SP), uri |-> After(first, SP),
              headers |-> Extract(AboveEmpty(ls, none), COLON),
              params |-> Extract(BelowEmpty(ls, none), EQ)]
    <2>1. ~(strchr(ls[1], 1, SP) = 0 \/ Before(ls[1], SP) \notin ReqType)
        BY <1>10, <1>17 DEF ReqType
    <2>. QED
        BY <1>17, <2>1 DEF ParseRequest, Before, After, ls, none, whole,
                        FirstEmpty, AboveEmpty, BelowEmpty
<1>20. all.ok /\ all.uri = <<msg.uri>> /\ all.params = table
    BY <1>10, <1>17, <1>18, <1>19
<1>. QED
    BY <1>8, <1>20 DEF N, msg

(* Four fields of a request replaced.                                      *)
Refilled(r, i, a, d, p, s) == s = [r EXCEPT !.id = i, !.action = a, !.duration = d, !.params = p]

(* They are what it was given, and the uri stays.                          *)
LEMMA RefilledSays ==
    ASSUME NEW r \in Request, NEW i, NEW a, NEW d, NEW p, NEW s, Refilled(r, i, a, d, p, s)
    PROVE  /\ s.uri = r.uri /\ s.id = i /\ s.action = a /\ s.duration = d
           /\ s.params = p
BY DEF Refilled, Request

(* What EcafeMessages says of a batch of requests.                         *)
LEMMA SaidFacts ==
    ASSUME NEW b \in Seq(Request), b # <<>>, NEW said, said = request_parse(b), NEW N, N = Len(b)
    PROVE  /\ said.uri = b[1].uri
           /\ Told(b, N, "id") = IF said.id = 0 THEN NULL ELSE <<Digit(said.id)>>
           /\ Told(b, N, "duration") = IF said.duration = "none" THEN NULL ELSE <<said.duration>>
           /\ Told(b, N, "action") = IF said.action = NoUri THEN NULL ELSE <<said.action>>
           /\ \A p \in {"msg", "prog"} : p \in said.params <=> Told(b, N, p) # NULL
<1>1. N \in Nat /\ N # 0 /\ DOMAIN b = 1..N /\ 1 \in 1..N /\ \A n \in 1..N : b[n] \in Request
    BY LenProperties, ElementOfSeq, EmptySeq
<1>. DEFINE requests == {k \in DOMAIN b : b[k].kind = "request"}
            ids == {k \in requests : b[k].id # 0}
            actions == {k \in requests : b[k].action # NoUri}
            durations == {k \in requests : b[k].duration # "none"}
            id == IF ids = {} THEN b[1].id ELSE b[LastOf(ids)].id
            action == IF actions = {} THEN b[1].action ELSE b[LastOf(actions)].action
            duration == IF durations = {} THEN b[1].duration ELSE b[LastOf(durations)].duration
            params1 == UNION {b[k].params : k \in requests}
<1>2. requests = 1..N
    BY <1>1 DEF Request
<1>3. Refilled(b[1], id, action, duration, params1, said)
    BY SMT DEF request_parse, Refilled
<1>4. /\ said.uri = b[1].uri /\ said.id = id /\ said.action = action /\ said.duration = duration
      /\ said.params = params1
    <2>. HIDE DEF id, action, duration, params1
    <2>. QED
        BY <1>1, <1>3, RefilledSays
<1>5. \A n \in 1..N : b[n].params \in SUBSET Param
    BY <1>1 DEF Request
<1>6. \A n \in 1..N :
        /\ SaysOf(b[n], "id") # NULL <=> b[n].id # 0
        /\ SaysOf(b[n], "id") = IF b[n].id = 0 THEN NULL ELSE <<Digit(b[n].id)>>
    <2>. TAKE n \in 1..N
    <2>1. SaysOf(b[n], "id") = IF b[n].id # 0 THEN <<Digit(b[n].id)>> ELSE NULL
        BY DEF SaysOf
    <2>2. <<Digit(b[n].id)>> # NULL
        BY <1>1, RequestWords, WordsDiffer DEF NULL
    <2>. QED
        BY <2>1, <2>2
<1>7. \A n \in 1..N :
        /\ SaysOf(b[n], "duration") # NULL <=> b[n].duration # "none"
        /\ SaysOf(b[n], "duration") = IF b[n].duration = "none" THEN NULL ELSE <<b[n].duration>>
    <2>. TAKE n \in 1..N
    <2>1. SaysOf(b[n], "duration") = IF b[n].duration # "none" THEN <<b[n].duration>> ELSE NULL
        BY DEF SaysOf
    <2>2. <<b[n].duration>> # NULL
        BY <1>1, RequestWords, WordsDiffer DEF NULL
    <2>. QED
        BY <2>1, <2>2
<1>8. \A n \in 1..N :
        /\ SaysOf(b[n], "action") # NULL <=> b[n].action # NoUri
        /\ SaysOf(b[n], "action") = IF b[n].action = NoUri THEN NULL ELSE <<b[n].action>>
    <2>. TAKE n \in 1..N
    <2>1. SaysOf(b[n], "action") = IF b[n].action # NoUri THEN <<b[n].action>> ELSE NULL
        BY DEF SaysOf
    <2>2. b[n].action # NoUri => <<b[n].action>> # NULL
        BY <1>1, RequestWords, WordsDiffer DEF NULL
    <2>. QED
        BY <2>1, <2>2
<1>9. \A n \in 1..N : \A p \in {"msg", "prog"} : SaysOf(b[n], p) # NULL <=> p \in b[n].params
    <2>. TAKE n \in 1..N
    <2>1. SaysOf(b[n], "msg") = IF "msg" \in b[n].params THEN <<"hello">> ELSE NULL
        BY DEF SaysOf
    <2>2. SaysOf(b[n], "prog") = IF "prog" \in b[n].params THEN <<"Chrome">> ELSE NULL
        BY DEF SaysOf
    <2>3. <<"hello">> # NULL /\ <<"Chrome">> # NULL
        BY WordsDiffer DEF NULL
    <2>. QED
        BY <2>1, <2>2, <2>3
<1>10. \A T \in SUBSET (1..N) : T # {} => LastOf(T) \in T
    <2>. TAKE T \in SUBSET (1..N)
    <2>1. SUFFICES ASSUME T # {} PROVE LastOf(T) \in T
        OBVIOUS
    <2>2. PICK m \in T : \A j \in T : j <= m
        BY <1>1, <2>1, LastOne
    <2>3. LastOf(T) = m
        BY <1>1, <2>2, LastIs
    <2>. QED
        BY <2>2, <2>3
<1>11. Told(b, N, "id") = IF said.id = 0 THEN NULL ELSE <<Digit(said.id)>>
    <2>1. Gives(b, N, "id") = ids
        BY <1>2, <1>6 DEF Gives
    <2>2. CASE ids = {}
        <3>1. b[1].id = 0 /\ id = b[1].id
            BY <1>1, <1>2, <2>2
        <3>. QED
            BY <1>4, <2>1, <2>2, <3>1 DEF Told
    <2>3. CASE ids # {}
        <3>1. LastOf(ids) \in 1..N /\ b[LastOf(ids)].id # 0
            BY <1>2, <1>10, <2>3
        <3>2. said.id = b[LastOf(ids)].id
            BY <1>4, <2>3
        <3>3. Told(b, N, "id") = SaysOf(b[LastOf(ids)], "id")
            BY <2>1, <2>3 DEF Told
        <3>. HIDE DEF ids
        <3>. QED
            BY <1>6, <3>1, <3>2, <3>3
    <2>. QED
        BY <2>2, <2>3
<1>12. Told(b, N, "duration") = IF said.duration = "none" THEN NULL ELSE <<said.duration>>
    <2>1. Gives(b, N, "duration") = durations
        BY <1>2, <1>7 DEF Gives
    <2>2. CASE durations = {}
        <3>1. b[1].duration = "none" /\ duration = b[1].duration
            BY <1>1, <1>2, <2>2
        <3>. QED
            BY <1>4, <2>1, <2>2, <3>1 DEF Told
    <2>3. CASE durations # {}
        <3>1. LastOf(durations) \in 1..N /\ b[LastOf(durations)].duration # "none"
            BY <1>2, <1>10, <2>3
        <3>2. said.duration = b[LastOf(durations)].duration
            BY <1>4, <2>3
        <3>3. Told(b, N, "duration") = SaysOf(b[LastOf(durations)], "duration")
            BY <2>1, <2>3 DEF Told
        <3>. HIDE DEF durations
        <3>. QED
            BY <1>7, <3>1, <3>2, <3>3
    <2>. QED
        BY <2>2, <2>3
<1>13. Told(b, N, "action") = IF said.action = NoUri THEN NULL ELSE <<said.action>>
    <2>1. Gives(b, N, "action") = actions
        BY <1>2, <1>8 DEF Gives
    <2>2. CASE actions = {}
        <3>1. b[1].action = NoUri /\ action = b[1].action
            BY <1>1, <1>2, <2>2
        <3>. QED
            BY <1>4, <2>1, <2>2, <3>1 DEF Told
    <2>3. CASE actions # {}
        <3>1. LastOf(actions) \in 1..N /\ b[LastOf(actions)].action # NoUri
            BY <1>2, <1>10, <2>3
        <3>2. said.action = b[LastOf(actions)].action
            BY <1>4, <2>3
        <3>3. Told(b, N, "action") = SaysOf(b[LastOf(actions)], "action")
            BY <2>1, <2>3 DEF Told
        <3>. HIDE DEF actions
        <3>. QED
            BY <1>8, <3>1, <3>2, <3>3
    <2>. QED
        BY <2>2, <2>3
<1>14. ASSUME NEW p \in {"msg", "prog"} PROVE p \in said.params <=> Told(b, N, p) # NULL
    <2>1. p \in said.params <=> \E n \in 1..N : p \in b[n].params
        BY <1>2, <1>4
    <2>2. (\E n \in 1..N : p \in b[n].params) <=> Gives(b, N, p) # {}
        BY <1>9 DEF Gives
    <2>3. Gives(b, N, p) # {} => SaysOf(b[LastOf(Gives(b, N, p))], p) # NULL
        <3>1. Gives(b, N, p) \in SUBSET (1..N)
            BY DEF Gives
        <3>2. Gives(b, N, p) # {} => LastOf(Gives(b, N, p)) \in Gives(b, N, p)
            BY <1>10, <3>1
        <3>. QED
            BY <3>2 DEF Gives
    <2>. QED
        BY <2>1, <2>2, <2>3 DEF Told
<1>. QED
    BY <1>4, <1>11, <1>12, <1>13, <1>14

(* The messages that one read() returns are of one kind, all requests or   *)
(* all responses: two peers do not share a descriptor.                     *)
BatchInv ==
    /\ batch \in Seq(BatchMessage)
    /\ \A k \in DOMAIN batch : batch[k].kind = batch[1].kind

(* It is enough for what the parsers are to find in a batch of requests.   *)
LEMMA BatchInvAgrees == BatchInv => RequestsAgree
<1>. SUFFICES ASSUME BatchInv, batch # <<>>, batch[1].kind = "request",
                     NEW got, got = ParseRequest(FlattenSeq([k \in DOMAIN batch |-> RequestText(batch[k])])),
                     NEW said, said = request_parse(batch)
              PROVE  /\ got.ok /\ got.uri = <<said.uri>>
                     /\ ParamOf(got, "id") = IF said.id = 0 THEN NULL ELSE <<Digit(said.id)>>
                     /\ ParamOf(got, "duration")
                          = IF said.duration = "none" THEN NULL ELSE <<said.duration>>
                     /\ ParamOf(got, "action")
                          = IF said.action = NoUri THEN NULL ELSE <<said.action>>
                     /\ \A p \in {"msg", "prog"} : p \in said.params <=> ParamOf(got, p) # NULL
    BY DEF RequestsAgree
<1>1. batch \in Seq(Request)
    <2>. DEFINE N == Len(batch)
    <2>1. N \in Nat /\ DOMAIN batch = 1..N /\ \A n \in 1..N : batch[n] \in BatchMessage
        BY LenProperties, ElementOfSeq DEF BatchInv
    <2>2. ASSUME NEW n \in 1..N PROVE batch[n] \in Request
        <3>1. batch[n] \in Message /\ batch[n].kind = "request"
            BY <2>1, BatchAssumption DEF BatchInv
        <3>. QED
            BY <3>1 DEF Message, Response
    <2>3. batch = [n \in 1..N |-> batch[n]]
        BY <2>1, LenProperties DEF BatchInv
    <2>. HIDE DEF N
    <2>4. batch \in [1..N -> Request]
        BY <2>2, <2>3
    <2>. QED
        BY <2>1, <2>4, AsSeq
<1>. DEFINE N == Len(batch)
<1>2. /\ got.ok /\ got.uri = <<batch[1].uri>>
      /\ \A x \in ParamKey : Lookup(got.params, <<x>>) = Told(batch, N, x)
    <2>. DEFINE text == [k \in DOMAIN batch |-> RequestText(batch[k])]
    <2>1. got = ParseRequest(FlattenSeq(text))
        OBVIOUS
    <2>2. text = [k \in DOMAIN batch |-> RequestText(batch[k])]
        OBVIOUS
    <2>. HIDE DEF text
    <2>. QED
        BY <1>1, <2>1, <2>2, BatchParsed
<1>3. \A x \in {"id", "msg", "prog", "duration", "action"} : ParamOf(got, x) = Told(batch, N, x)
    BY <1>2 DEF ParamOf, request_param_get, ParamKey
<1>4. /\ said.uri = batch[1].uri
      /\ Told(batch, N, "id") = IF said.id = 0 THEN NULL ELSE <<Digit(said.id)>>
      /\ Told(batch, N, "duration") = IF said.duration = "none" THEN NULL ELSE <<said.duration>>
      /\ Told(batch, N, "action") = IF said.action = NoUri THEN NULL ELSE <<said.action>>
      /\ \A p \in {"msg", "prog"} : p \in said.params <=> Told(batch, N, p) # NULL
    BY <1>1, SaidFacts
<1>. QED
    BY <1>2, <1>3, <1>4

-----------------------------------------------------------------------------
(* The headers of a response are put into its table one after the other.   *)
OnePut(table, e) == PutLast(table, e.key, e.val)
HeaderTable(hs) == FoldLeft(LAMBDA table, e : PutLast(table, e.key, e.val), <<>>, hs)

PutRun(k, hs) ==
    /\ k[0] = <<>>
    /\ \A n \in 1..Len(hs) : k[n] = OnePut(k[n - 1], hs[n])

(* It is made from header to header.                                       *)
LEMMA PutsAre ==
    ASSUME NEW S, NEW row \in Seq(S), NEW V, <<>> \in V,
           \A r \in V, n \in 1..Len(row) : OnePut(r, row[n]) \in V
    PROVE  \E k \in [0..Len(row) -> V] : PutRun(k, row) /\ HeaderTable(row) = k[Len(row)]
<1>. DEFINE N == Len(row)
            F == [p \in (1..N) \X V |-> OnePut(p[2], row[p[1]])]
            G(f) == f = [T \in SUBSET (DOMAIN row) |->
                           IF T = {} THEN <<>>
                           ELSE PutLast(f[T \ {Max(T)}], row[Max(T)].key, row[Max(T)].val)]
            g == CHOOSE f : G(f)
<1>1. N \in Nat /\ DOMAIN row = 1..N
    BY LenProperties
<1>2. HeaderTable(row) = g[DOMAIN row]
    BY Zenon DEF HeaderTable, FoldLeft, MapThenFoldSet
<1>. HIDE DEF g
<1>3. F \in [(1..N) \X V -> V]
    BY <1>1
<1>4. PICK f \in [SUBSET (1..N) -> V] : Recurs(f, <<>>, F, N)
    BY <1>1, <1>3, RecursionExists
<1>5. ASSUME NEW T \in SUBSET (1..N)
      PROVE  f[T] = IF T = {} THEN <<>> ELSE OnePut(f[T \ {Max(T)}], row[Max(T)])
    <2>1. CASE T # {}
        <3>1. Max(T) \in 1..N
            BY <1>1, <2>1, LargestOf
        <3>2. f[T \ {Max(T)}] \in V
            OBVIOUS
        <3>. QED
            BY <1>4, <2>1, <3>1, <3>2 DEF Recurs
    <2>2. CASE T = {}
        BY <1>4, <2>2 DEF Recurs
    <2>. QED
        BY <2>1, <2>2
<1>6. G(f)
    <2>1. f = [T \in SUBSET (1..N) |-> f[T]]
        OBVIOUS
    <2>. QED
        BY <1>1, <1>5, <2>1, Zenon DEF OnePut
<1>7. G(g)
    <2>. HIDE DEF G
    <2>. QED
        BY <1>6 DEF g
<1>8. \A T \in SUBSET (1..N) :
         g[T] = IF T = {} THEN <<>> ELSE OnePut(g[T \ {Max(T)}], row[Max(T)])
    BY <1>1, <1>7, Zenon DEF OnePut
<1>. HIDE DEF G
<1>. DEFINE k == [n \in 0..N |-> g[1..n]]
<1>9. k[0] = <<>>
    <2>1. 1..0 = {} /\ {} \in SUBSET (1..N) /\ 0 \in 0..N
        BY <1>1
    <2>. QED
        BY <1>8, <2>1
<1>10. ASSUME NEW n \in 1..N PROVE k[n] = OnePut(k[n - 1], row[n])
    <2>1. n \in Nat \ {0} /\ n \in 0..N /\ n - 1 \in 0..N /\ (1..n) \in SUBSET (1..N)
        BY <1>1
    <2>2. g[1..n] = OnePut(g[1..(n - 1)], row[n])
        BY <1>8, <2>1, UpToSet
    <2>. QED
        BY <2>1, <2>2
<1>11. HeaderTable(row) = k[N]
    BY <1>1, <1>2
<1>12. k = [n \in 0..N |-> k[n]]
    OBVIOUS
<1>. HIDE DEF k
<1>. DEFINE P == {n \in Nat : k[n] \in V}
<1>13. 0 \in P
    BY <1>9
<1>14. ASSUME NEW n \in 0..(N - 1), n \in P PROVE n + 1 \in P
    <2>1. n + 1 \in 1..N /\ (n + 1) - 1 = n /\ n + 1 \in Nat
        BY <1>1
    <2>2. k[n + 1] = OnePut(k[n], row[n + 1]) /\ k[n] \in V
        BY <1>10, <1>14, <2>1
    <2>. QED
        BY <2>1, <2>2
<1>. HIDE DEF P, N
<1>15. \A n \in 0..N : n \in P
    BY <1>1, <1>13, <1>14, UpTo
<1>16. k \in [0..N -> V]
    BY <1>12, <1>15 DEF P
<1>. QED
    BY <1>9, <1>10, <1>11, <1>16 DEF PutRun, N

(* A table is made of one header.                                          *)
LEMMA OneHeaderPut ==
    ASSUME NEW u \in Token
    PROVE  HeaderTable(<<Header(u)>>) = <<Entry(<<"uri">>, <<u>>)>>
<1>. DEFINE h == Header(u)
            key == <<"uri">>
            val == <<u>>
            V == Seq(Item)
            none == <<>>
            e == Entry(key, val)
            hs == <<h>>
<1>1. key \in Text /\ val \in Text
    BY TokenAssumption DEF Text
<1>2. h.key = key /\ h.val = val
    BY DEF Header, Found
<1>3. e \in Item /\ e.key = key /\ e.val = val
    BY <1>1 DEF Entry, Item
<1>4. none \in V /\ Len(none) = 0 /\ Range(none) = {}
    BY EmptySeq DEF Range
<1>5. Append(none, e) = <<e>>
    OBVIOUS
<1>. HIDE DEF key, val, h, none, e
<1>6. hs \in Seq({h}) /\ Len(hs) = 1 /\ \A n \in 1..1 : hs[n] = h
    OBVIOUS
<1>. HIDE DEF hs
<1>7. \A r \in V, n \in 1..Len(hs) : OnePut(r, hs[n]) \in V
    BY <1>1, <1>2, <1>6, PutLastType DEF OnePut
<1>. HIDE DEF V
<1>8. PICK k \in [0..Len(hs) -> V] : PutRun(k, hs) /\ HeaderTable(hs) = k[Len(hs)]
    BY <1>4, <1>6, <1>7, PutsAre DEF none
<1>9. HeaderTable(hs) = OnePut(none, h)
    <2>1. 1 - 1 = 0 /\ 1 \in 1..1
        OBVIOUS
    <2>. QED
        BY <1>6, <1>8, <2>1 DEF PutRun, none
<1>10. Without(none, key) = none
    BY <1>4, WithoutFacts DEF V
<1>11. OnePut(none, h) = Append(none, e)
    <2>1. Len(none) # MaxParam - 1
        BY <1>4, RoomAssumption, TableAssumption
    <2>. QED
        BY <1>2, <1>10, <2>1 DEF OnePut, PutLast, e
<1>. QED
    BY <1>5, <1>9, <1>11 DEF hs, h, key, val, e

(* The uri is found in it.                                                 *)
LEMMA OneHeader ==
    ASSUME NEW u \in Token
    PROVE  Lookup(HeaderTable(<<Header(u)>>), <<"uri">>) = <<u>>
<1>. DEFINE key == <<"uri">>
            val == <<u>>
            e == Entry(key, val)
            t == <<e>>
<1>1. key \in Text /\ val \in Text
    BY TokenAssumption DEF Text
<1>2. e \in Item /\ e.key = key /\ e.val = val
    BY <1>1 DEF Entry, Item
<1>3. HeaderTable(<<Header(u)>>) = t
    BY OneHeaderPut
<1>. HIDE DEF e
<1>4. t \in Seq(Item) /\ Len(t) = 1 /\ t[1] = e
    BY <1>2
<1>. HIDE DEF t
<1>5. Distinct(t) /\ 1 \in 1..Len(t)
    BY <1>4 DEF Distinct
<1>6. Lookup(t, t[1].key) = t[1].val
    BY <1>4, <1>5, LookupFinds
<1>7. Lookup(t, key) = val
    BY <1>2, <1>4, <1>6
<1>. QED
    BY <1>3, <1>7 DEF key, val

(* What response_parse returns, if it found the one header and at most one *)
(* record.                                                                 *)
LEMMA GatheredOne ==
    ASSUME NEW u \in Token, NEW text, NEW S, NEW rs \in Seq(S), Len(rs) <= 1,
           rs # <<>> => rs[1] # <<Broken>>
    PROVE  LET got == Gathered(text, <<Header(u)>>, rs)
           IN  /\ got.ok /\ got.status = <<text[1]>>
               /\ response_header_get(got, <<"uri">>) = <<u>>
               /\ got.records # <<>> <=> rs # <<>>
<1>. DEFINE hs == <<Header(u)>>
            got == Gathered(text, hs, rs)
            res == ResponseOf(<<text[1]>>, hs, rs)
            m == Min({Len(rs), MaxRecord})
<1>1. ~(hs # <<>> /\ Last(hs) = Broken)
    <2>1. Last(hs) = Header(u)
        BY DEF Last
    <2>2. Header(u).end = 10 /\ Broken.end = 0
        BY EndOfBroken DEF Header, Found
    <2>. QED
        BY <2>1, <2>2
<1>2. Len(rs) \in {0, 1} /\ (rs = <<>> <=> Len(rs) = 0)
    <2>. DEFINE n == Len(rs)
    <2>1. n \in Nat /\ n <= 1
        BY LenProperties
    <2>2. rs = <<>> <=> n = 0
        BY EmptySeq
    <2>. HIDE DEF hs, m, res, got, n
    <2>3. n \in {0, 1}
        BY <2>1
    <2>. QED
        BY <2>2, <2>3 DEF n
<1>3. ~(rs # <<>> /\ Last(rs) = <<Broken>>)
    BY <1>2 DEF Last
<1>4. got = res
    BY <1>1, <1>3 DEF Gathered
<1>5. /\ res.ok /\ res.status = <<text[1]>> /\ res.headers = HeaderTable(hs)
      /\ res.records = [n \in 1..m |-> PushAll(<<>>, rs[n])]
    BY DEF ResponseOf, PushAll, HeaderTable
<1>6. m = Len(rs)
    BY <1>2, MinOfTwo, TableAssumption
<1>7. res.records # <<>> <=> rs # <<>>
    <2>1. DOMAIN res.records = 1..Len(rs)
        BY <1>5, <1>6
    <2>2. CASE Len(rs) = 0
        <3>1. res.records = <<>>
            BY <1>5, <1>6, <2>2
        <3>. QED
            BY <1>2, <2>2, <3>1
    <2>3. CASE Len(rs) = 1
        <3>1. 1 \in DOMAIN res.records
            BY <2>1, <2>3
        <3>2. DOMAIN <<>> = {}
            OBVIOUS
        <3>. QED
            BY <1>2, <2>3, <3>1, <3>2
    <2>. QED
        BY <1>2, <2>2, <2>3
<1>8. response_header_get(res, <<"uri">>) = <<u>>
    BY <1>5, OneHeader DEF response_header_get
<1>. QED
    BY <1>4, <1>5, <1>7, <1>8

StatusOf(msg) == IF msg.status = 200 THEN "200" ELSE "400"

(* The text of a response: the line of its status, its header, an empty    *)
(* line, and if it has a record, that and an empty line more.              *)
Spoken(T, s, u, more) ==
    /\ T \in Seq(Token) /\ Len(T) = IF more THEN 20 ELSE 13
    /\ \A i \in 1..13 : T[i] = Opening(s, u)[i]
    /\ more => /\ T[14] = "k" /\ T[15] = EQ /\ T[16] = "v" /\ T[17] = CR /\ T[18] = LF
               /\ T[19] = CR /\ T[20] = LF

(* The words of a response are no delimiters.                              *)
LEMMA ResponseWords ==
    ASSUME NEW msg \in Response
    PROVE  Word(StatusOf(msg)) /\ Word(msg.uri) /\ Word("k") /\ Word("v")
<1>1. msg.uri \in BatchWord /\ StatusOf(msg) \in BatchWord /\ "k" \in BatchWord /\ "v" \in BatchWord
    BY DEF Response, BatchWord, StatusOf
<1>. QED
    BY <1>1, BatchWords

(* A sequence, and one behind it.                                          *)
InARow(c, u, v, S) ==
    /\ c \in Seq(S) /\ Len(c) = Len(u) + Len(v) /\ Len(u) \in Nat /\ Len(v) \in Nat
    /\ \A i \in 1..Len(u) : c[i] = u[i]
    /\ \A i \in 1..Len(v) : c[Len(u) + i] = v[i]

(* What each place of it has.                                              *)
LEMMA CatHas ==
    ASSUME NEW S, NEW u \in Seq(S), NEW v \in Seq(S)
    PROVE  InARow(Cat(u, v), u, v, S)
<1>. DEFINE M == Len(u)
            N == Len(v)
            c == Cat(u, v)
<1>1. c \in Seq(S) /\ Len(c) = M + N
    BY CatAre
<1>2. M \in Nat /\ N \in Nat
    BY LenProperties
<1>3. \A i \in 1..(M + N) : c[i] = IF i <= M THEN u[i] ELSE v[i - M]
    BY CatAt
<1>. HIDE DEF M, N, c
<1>4. \A i \in 1..M : c[i] = u[i]
    BY <1>2, <1>3
<1>5. ASSUME NEW i \in 1..N PROVE c[M + i] = v[i]
    <2>1. M + i \in 1..(M + N) /\ ~(M + i <= M) /\ (M + i) - M = i
        BY <1>2
    <2>. QED
        BY <1>3, <2>1
<1>. QED
    BY <1>1, <1>2, <1>4, <1>5 DEF M, N, c, InARow

(* The block of the one record that the model's responses carry.           *)
LEMMA OneBlock ==
    LET rec == <<Entry(<<"k">>, <<"v">>)>>
    IN  /\ PlainRecord(rec) /\ Block(rec) \in Seq(Token) /\ Len(Block(rec)) = 5
        /\ Block(rec)[1] = "k" /\ Block(rec)[2] = EQ /\ Block(rec)[3] = "v"
        /\ Block(rec)[4] = CR /\ Block(rec)[5] = LF
<1>. DEFINE key == <<"k">>
            val == <<"v">>
            eq == <<EQ>>
            e == Entry(key, val)
            rec == <<e>>
            line == EqLine(e)
            B == Block(rec)
<1>1. Word("k") /\ Word("v") /\ EQ \in Token /\ CR \in Token /\ LF \in Token
    <2>1. "k" \in BatchWord /\ "v" \in BatchWord
        BY DEF BatchWord
    <2>. QED
        BY <2>1, BatchWords, TokenAssumption
<1>2. /\ key \in Seq(Token) /\ Len(key) = 1 /\ key[1] = "k" /\ Range(key) = {"k"}
      /\ val \in Seq(Token) /\ Len(val) = 1 /\ val[1] = "v" /\ Range(val) = {"v"}
      /\ eq \in Seq(Token) /\ Len(eq) = 1 /\ eq[1] = EQ
    BY <1>1 DEF Word, Range
<1>3. e \in Item /\ e.key = key /\ e.val = val
    BY <1>2 DEF Entry, Item, Text
<1>. HIDE DEF key, val, e, eq
<1>4. Plain(e)
    BY <1>1, <1>2, <1>3 DEF Plain, Word
<1>5. PlainRecord(rec)
    <2>1. rec \in Seq(Item) /\ Len(rec) = 1 /\ \A n \in 1..Len(rec) : rec[n] = e
        BY <1>3
    <2>2. rec # <<>>
        BY <2>1
    <2>. HIDE DEF rec
    <2>. QED
        BY <1>4, <2>1, <2>2 DEF PlainRecord
<1>6. line = Cat(Cat(key, eq), val)
    BY <1>3, EqLineIs DEF eq
<1>7. PICK k : /\ SpelledRun(k, rec) /\ Body(rec) = Cat(k[Len(rec) - 1], EqLine(rec[Len(rec)]))
               /\ B = Cat(Body(rec), CRLF)
    BY <1>5, SpelledIs
<1>8. Body(rec) = Cat(<<>>, line)
    <2>1. Len(rec) = 1 /\ 1 - 1 = 0 /\ rec[1] = e
        OBVIOUS
    <2>. HIDE DEF rec
    <2>. QED
        BY <1>7, <2>1 DEF SpelledRun
<1>. DEFINE ke == Cat(key, eq)
<1>9. ke \in Seq(Token) /\ Len(ke) = 2 /\ ke[1] = "k" /\ ke[2] = EQ
    BY <1>2, ConcatProperties DEF Cat
<1>. HIDE DEF ke
<1>. DEFINE kv == Cat(ke, val)
<1>10. kv \in Seq(Token) /\ Len(kv) = 3 /\ kv[1] = "k" /\ kv[2] = EQ /\ kv[3] = "v"
    <2>0. ke \in Seq(Token) /\ val \in Seq(Token)
        BY <1>2, <1>9
    <2>3. InARow(kv, ke, val, Token)
        BY <2>0, CatHas
    <2>1. /\ kv \in Seq(Token) /\ Len(kv) = Len(ke) + Len(val)
          /\ \A i \in 1..Len(ke) : kv[i] = ke[i]
          /\ \A i \in 1..Len(val) : kv[Len(ke) + i] = val[i]
        BY <2>3 DEF InARow
    <2>2. 1 \in 1..2 /\ 2 \in 1..2 /\ 1 \in 1..1 /\ 2 + 1 = 3
        OBVIOUS
    <2>. HIDE DEF kv
    <2>. QED
        BY <1>2, <1>9, <2>1, <2>2
<1>. HIDE DEF kv, line
<1>11. line = kv
    BY <1>6 DEF kv, ke
<1>12. Body(rec) = kv
    BY <1>8, <1>10, <1>11, ConcatEmptySeq DEF Cat
<1>13. CRLF \in Seq(Token) /\ Len(CRLF) = 2 /\ CRLF[1] = CR /\ CRLF[2] = LF
    BY <1>1 DEF CRLF
<1>. DEFINE all == Cat(kv, CRLF)
<1>. HIDE DEF rec
<1>14. /\ all \in Seq(Token) /\ Len(all) = 5 /\ all[1] = "k" /\ all[2] = EQ /\ all[3] = "v"
       /\ all[4] = CR /\ all[5] = LF
    <2>0. kv \in Seq(Token) /\ CRLF \in Seq(Token)
        BY <1>10, <1>13
    <2>3. InARow(all, kv, CRLF, Token)
        BY <2>0, CatHas
    <2>1. /\ all \in Seq(Token) /\ Len(all) = Len(kv) + Len(CRLF)
          /\ \A i \in 1..Len(kv) : all[i] = kv[i]
          /\ \A i \in 1..Len(CRLF) : all[Len(kv) + i] = CRLF[i]
        BY <2>3 DEF InARow
    <2>2. /\ 1 \in 1..2 /\ 2 \in 1..2 /\ 3 + 1 = 4 /\ 3 + 2 = 5
          /\ 1 \in 1..3 /\ 2 \in 1..3 /\ 3 \in 1..3
        OBVIOUS
    <2>. HIDE DEF all
    <2>. QED
        BY <1>10, <1>13, <2>1, <2>2
<1>15. B = all
    BY <1>7, <1>12
<1>. QED
    BY <1>5, <1>14, <1>15 DEF rec, e, key, val

(* A text that fits the buffer is written as it is.                        *)
LEMMA WholeIsWritten ==
    ASSUME NEW s \in Token, NEW u \in Token, NEW R, NEW recs \in Seq(R),
           \A n \in 1..Len(recs) : PlainRecord(recs[n]), NEW k, WholeRun(k, s, u, recs),
           NEW room \in Nat, NEW res, res.status = <<s>>, res.records = recs,
           res.headers = <<Entry(<<"uri">>, <<u>>)>>, Len(WholeText(k, recs)) < room
    PROVE  response_prepare(res, room) = WholeText(k, recs)
<1>. DEFINE F == WholeText(k, recs)
            N == Len(recs)
            text == response_prepare(res, room)
<1>1. text # CutText
    BY WholeIsPrepared
<1>2. Prepared(text, N, k, F, room)
    BY <1>1, PreparedIs
<1>3. Wholly(F, k, N, s, u, recs)
    BY WholeFacts
<1>. HIDE DEF F, N, text
<1>4. /\ N \in Nat /\ Len(F) = IF N = 0 THEN 13 ELSE Len(k[N]) + 2
      /\ \A n \in 0..N : Len(k[n]) \in Nat /\ Len(k[n]) <= Len(k[N])
    BY <1>3 DEF Wholly
<1>5. Len(F) < room
    BY DEF F
<1>6. ASSUME NEW m \in 1..N PROVE Len(k[m]) # room
    <2>1. m \in 0..N /\ N # 0 /\ N \in 0..N
        BY <1>4
    <2>2. Len(k[m]) <= Len(k[N]) /\ Len(F) = Len(k[N]) + 2 /\ Len(k[N]) \in Nat /\ Len(k[m]) \in Nat
        BY <1>4, <2>1
    <2>. DEFINE a == Len(k[m])
                b == Len(k[N])
                c == Len(F)
    <2>3. a <= b /\ c = b + 2 /\ b \in Nat /\ a \in Nat /\ c < room
        BY <1>5, <2>2
    <2>. HIDE DEF a, b, c
    <2>4. a # room
        BY <2>3
    <2>. QED
        BY <2>4 DEF a
<1>7. ~Spoiled(text, N, k, F, room)
    BY <1>6 DEF Spoiled
<1>8. Len(F) \in Nat
    BY <1>4
<1>. QED
    BY <1>2, <1>5, <1>7, <1>8 DEF Prepared, F, text

(* The text that response_prepare writes for a response of the programs.   *)
LEMMA ResponseTextIs ==
    ASSUME NEW msg \in Response
    PROVE  Spoken(ResponseText(msg), StatusOf(msg), msg.uri, msg.records)
<1>. DEFINE s == StatusOf(msg)
            u == msg.uri
            rec == <<Entry(<<"k">>, <<"v">>)>>
            recs == IF msg.records THEN <<rec>> ELSE <<>>
            a == <<s>>
            b == <<Entry(<<"uri">>, <<u>>)>>
            res == [NewResponse(<<IF msg.status = 200 THEN "200" ELSE "400">>, <<msg.uri>>) EXCEPT
                       !.records = IF msg.records THEN <<(<<Entry(<<"k">>, <<"v">>)>>)>> ELSE <<>>]
            room == 1000
            T == ResponseText(msg)
            o == Opening(s, u)
<1>1. s \in Token /\ u \in Token
    BY ResponseWords DEF Word
<1>2. T = response_prepare(res, room)
    BY DEF ResponseText
<1>3. res.status = a /\ res.headers = b /\ res.records = recs
    <2>. DEFINE c == TRUE
                x == <<>>
    <2>1. NewResponse(a, <<u>>) = [ok |-> c, status |-> a, headers |-> b, records |-> x]
        BY DEF NewResponse
    <2>2. res = [NewResponse(a, <<u>>) EXCEPT !.records = recs]
        BY DEF StatusOf
    <2>. HIDE DEF a, b, c, x, recs, res
    <2>3. [NewResponse(a, <<u>>) EXCEPT !.records = recs]
            = [ok |-> c, status |-> a, headers |-> b, records |-> recs]
        BY <2>1, RecordsReplaced
    <2>. QED
        BY <2>2, <2>3
<1>4. /\ PlainRecord(rec) /\ Block(rec) \in Seq(Token) /\ Len(Block(rec)) = 5
      /\ Block(rec)[1] = "k" /\ Block(rec)[2] = EQ /\ Block(rec)[3] = "v"
      /\ Block(rec)[4] = CR /\ Block(rec)[5] = LF
    BY OneBlock
<1>5. o \in Seq(Token) /\ Len(o) = 13
    BY <1>1, OpeningType
<1>6. room \in Nat /\ 13 < room /\ 20 < room
    OBVIOUS
<1>7. CRLF \in Seq(Token) /\ Len(CRLF) = 2 /\ CRLF[1] = CR /\ CRLF[2] = LF
    BY TokenAssumption DEF CRLF
<1>. HIDE DEF rec, o, res, room, T
<1>8. CASE ~msg.records
    <2>1. /\ recs = <<>> /\ recs \in Seq({rec}) /\ Len(recs) = 0
          /\ \A n \in 1..Len(recs) : PlainRecord(recs[n])
        BY <1>8
    <2>. HIDE DEF recs
    <2>5. recs \in Seq({rec})
        BY <2>1
    <2>6. \A n \in 1..Len(recs) : PlainRecord(recs[n])
        BY <2>1
    <2>2. PICK k : WholeRun(k, s, u, recs)
        BY <1>1, <2>5, <2>6, WholeExists
    <2>3. WholeText(k, recs) = o
        BY <2>1, <2>2 DEF WholeText, WholeRun, o
    <2>4. T = WholeText(k, recs)
        <3>1. Len(WholeText(k, recs)) < room
            BY <1>5, <1>6, <2>3
        <3>. QED
            BY <1>1, <1>2, <1>3, <1>6, <2>2, <2>5, <2>6, <3>1, WholeIsWritten
    <2>. QED
        BY <1>5, <1>8, <2>3, <2>4 DEF Spoken, o, T
<1>9. CASE msg.records
    <2>1. recs = <<rec>>
        BY <1>9
    <2>2. recs \in Seq({rec}) /\ Len(recs) = 1 /\ (\A n \in 1..1 : recs[n] = rec) /\ recs # <<>>
        BY <2>1
    <2>. HIDE DEF recs
    <2>3. \A n \in 1..Len(recs) : PlainRecord(recs[n])
        BY <1>4, <2>2
    <2>4. PICK k : WholeRun(k, s, u, recs)
        BY <1>1, <2>2, <2>3, WholeExists
    <2>. DEFINE w == Cat(o, Block(rec))
                F == Cat(w, CRLF)
    <2>5. WholeText(k, recs) = F
        <3>1. 1 \in 1..1 /\ 1 - 1 = 0
            OBVIOUS
        <3>2. k[1] = Cat(k[0], Block(recs[1])) /\ k[0] = o
            BY <2>2, <2>4, <3>1 DEF WholeRun, o
        <3>. QED
            BY <2>2, <3>1, <3>2 DEF WholeText
    <2>6. InARow(w, o, Block(rec), Token)
        BY <1>4, <1>5, CatHas
    <2>. HIDE DEF w
    <2>7. w \in Seq(Token) /\ Len(w) = 18
        BY <1>4, <1>5, <2>6 DEF InARow
    <2>8. InARow(F, w, CRLF, Token)
        BY <1>7, <2>7, CatHas
    <2>. HIDE DEF F
    <2>9. F \in Seq(Token) /\ Len(F) = 20
        BY <1>7, <2>7, <2>8 DEF InARow
    <2>10. \A i \in 1..18 : F[i] = w[i]
        BY <2>7, <2>8 DEF InARow
    <2>11. F[19] = CR /\ F[20] = LF
        <3>1. 1 \in 1..2 /\ 2 \in 1..2 /\ 18 + 1 = 19 /\ 18 + 2 = 20
            OBVIOUS
        <3>. QED
            BY <1>7, <2>7, <2>8, <3>1 DEF InARow
    <2>12. \A i \in 1..13 : w[i] = o[i]
        BY <1>5, <2>6 DEF InARow
    <2>13. \A i \in 1..5 : w[13 + i] = Block(rec)[i]
        BY <1>4, <1>5, <2>6 DEF InARow
    <2>14. F[14] = "k" /\ F[15] = EQ /\ F[16] = "v" /\ F[17] = CR /\ F[18] = LF
        <3>1. /\ 13 + 1 = 14 /\ 13 + 2 = 15 /\ 13 + 3 = 16 /\ 13 + 4 = 17 /\ 13 + 5 = 18
              /\ 1 \in 1..5 /\ 2 \in 1..5 /\ 3 \in 1..5 /\ 4 \in 1..5 /\ 5 \in 1..5
              /\ 14 \in 1..18 /\ 15 \in 1..18 /\ 16 \in 1..18 /\ 17 \in 1..18 /\ 18 \in 1..18
            OBVIOUS
        <3>2. /\ w[14] = Block(rec)[1] /\ w[15] = Block(rec)[2] /\ w[16] = Block(rec)[3]
              /\ w[17] = Block(rec)[4] /\ w[18] = Block(rec)[5]
            BY <2>13, <3>1
        <3>3. /\ F[14] = w[14] /\ F[15] = w[15] /\ F[16] = w[16] /\ F[17] = w[17] /\ F[18] = w[18]
            BY <2>10, <3>1
        <3>. QED
            BY <1>4, <3>2, <3>3
    <2>15. \A i \in 1..13 : F[i] = o[i]
        <3>1. \A i \in 1..13 : i \in 1..18
            OBVIOUS
        <3>. QED
            BY <2>10, <2>12, <3>1
    <2>16. T = F
        <3>1. Len(WholeText(k, recs)) < room
            BY <1>6, <2>5, <2>9
        <3>2. T = WholeText(k, recs)
            BY <1>1, <1>2, <1>3, <1>6, <2>2, <2>3, <2>4, <3>1, WholeIsWritten
        <3>. QED
            BY <2>5, <3>2
    <2>. QED
        BY <1>9, <2>9, <2>11, <2>14, <2>15, <2>16 DEF Spoken, o, T
<1>. QED
    BY <1>8, <1>9

(* The place of the first delimiter of a record, where the record ends in  *)
(* an empty line: one that response_parse stops at.                        *)
RecordAt(T, e) ==
    /\ e \in Nat /\ 15 <= e /\ e + 5 <= Len(T)
    /\ T[e] = EQ /\ \A i \in 1..(e - 1) : T[i] # EQ
    /\ T[e + 1] # LF /\ T[e + 2] = CR /\ T[e + 3] = LF /\ T[e + 4] = CR /\ T[e + 5] = LF

NoRecordIn(T) == \A i \in 1..Len(T) : T[i] # EQ

(* There is no '=' up to the end of the header.                            *)
LEMMA NoDelimiterInFront ==
    ASSUME NEW s, Word(s), NEW u, Word(u)
    PROVE  \A i \in 1..13 : Opening(s, u)[i] # EQ
<1>. DEFINE o == Opening(s, u)
<1>1. /\ o[1] = s /\ o[2] = SP /\ o[3] = "msg" /\ o[4] = CR /\ o[5] = LF /\ o[6] = "uri"
      /\ o[7] = COLON /\ o[8] = SP /\ o[9] = u /\ o[10] = CR /\ o[11] = LF
      /\ o[12] = CR /\ o[13] = LF
    BY DEF Opening
<1>2. /\ s # EQ /\ u # EQ /\ SP # EQ /\ "msg" # EQ /\ CR # EQ /\ LF # EQ /\ "uri" # EQ
      /\ COLON # EQ
    BY DEF Word, SP, CR, LF, COLON, EQ
<1>. HIDE DEF o
<1>3. ASSUME NEW i \in 1..13 PROVE o[i] # EQ
    <2>1. \/ i = 1 \/ i = 2 \/ i = 3 \/ i = 4 \/ i = 5 \/ i = 6 \/ i = 7 \/ i = 8 \/ i = 9
          \/ i = 10 \/ i = 11 \/ i = 12 \/ i = 13
        OBVIOUS
    <2>. QED
        BY <1>1, <1>2, <2>1
<1>. QED
    BY <1>3 DEF o

(* A response with a record has one at its place, another has none.        *)
LEMMA SpokenSays ==
    ASSUME NEW T, NEW s, Word(s), NEW u, Word(u), NEW more \in BOOLEAN, Spoken(T, s, u, more)
    PROVE  /\ more => RecordAt(T, 15) /\ Len(T) = 20
           /\ ~more => NoRecordIn(T) /\ Len(T) = 13
<1>1. \A i \in 1..13 : T[i] # EQ
    <2>1. \A i \in 1..13 : T[i] = Opening(s, u)[i]
        BY DEF Spoken
    <2>2. \A i \in 1..13 : Opening(s, u)[i] # EQ
        BY NoDelimiterInFront
    <2>. QED
        BY <2>1, <2>2
<1>2. ASSUME more PROVE RecordAt(T, 15) /\ Len(T) = 20
    <2>1. /\ Len(T) = 20 /\ T[14] = "k" /\ T[15] = EQ /\ T[16] = "v" /\ T[17] = CR /\ T[18] = LF
          /\ T[19] = CR /\ T[20] = LF
        BY <1>2 DEF Spoken
    <2>2. "k" # EQ /\ "v" # LF
        BY DEF EQ, LF
    <2>3. \A i \in 1..(15 - 1) : T[i] # EQ
        <3>1. \A i \in 1..(15 - 1) : i \in 1..13 \/ i = 14
            OBVIOUS
        <3>. QED
            BY <1>1, <2>1, <2>2, <3>1
    <2>4. 15 + 1 = 16 /\ 15 + 2 = 17 /\ 15 + 3 = 18 /\ 15 + 4 = 19 /\ 15 + 5 = 20
        OBVIOUS
    <2>. QED
        BY <2>1, <2>2, <2>3, <2>4 DEF RecordAt
<1>3. ASSUME ~more PROVE NoRecordIn(T) /\ Len(T) = 13
    BY <1>1, <1>3 DEF NoRecordIn, Spoken
<1>. QED
    BY <1>2, <1>3

(* The first record stays where it is if a text follows.                   *)
LEMMA RecordStays ==
    ASSUME NEW T \in Seq(Token), NEW R \in Seq(Token), NEW e, RecordAt(T, e)
    PROVE  RecordAt(Cat(T, R), e)
<1>. DEFINE c == Cat(T, R)
<1>1. InARow(c, T, R, Token)
    BY CatHas
<1>. HIDE DEF c
<1>2. /\ e \in Nat /\ 15 <= e /\ e + 5 <= Len(T) /\ Len(T) \in Nat /\ Len(c) = Len(T) + Len(R)
      /\ Len(R) \in Nat /\ \A i \in 1..Len(T) : c[i] = T[i]
    BY <1>1 DEF RecordAt, InARow
<1>3. \A j \in 0..5 : e + j \in 1..Len(T) /\ e + j <= Len(c)
    BY <1>2
<1>4. \A j \in 0..5 : c[e + j] = T[e + j]
    BY <1>2, <1>3
<1>5. \A i \in 1..(e - 1) : i \in 1..Len(T)
    BY <1>2
<1>6. 0 \in 0..5 /\ 1 \in 0..5 /\ 2 \in 0..5 /\ 3 \in 0..5 /\ 4 \in 0..5 /\ 5 \in 0..5 /\ e + 0 = e
    BY <1>2
<1>7. /\ c[e] = T[e] /\ c[e + 1] = T[e + 1] /\ c[e + 2] = T[e + 2] /\ c[e + 3] = T[e + 3]
      /\ c[e + 4] = T[e + 4] /\ c[e + 5] = T[e + 5] /\ e + 5 <= Len(c)
    BY <1>3, <1>4, <1>6
<1>8. \A i \in 1..(e - 1) : c[i] = T[i]
    BY <1>2, <1>5
<1>. QED
    BY <1>2, <1>7, <1>8 DEF RecordAt, c

(* Behind a text without a delimiter it is the first.                      *)
LEMMA RecordMoves ==
    ASSUME NEW T \in Seq(Token), NoRecordIn(T), NEW R \in Seq(Token), NEW e, RecordAt(R, e)
    PROVE  RecordAt(Cat(T, R), Len(T) + e)
<1>. DEFINE c == Cat(T, R)
            L == Len(T)
            M == Len(R)
<1>1. InARow(c, T, R, Token)
    BY CatHas
<1>. HIDE DEF c
<1>2. /\ e \in Nat /\ 15 <= e /\ e + 5 <= M /\ L \in Nat /\ Len(c) = L + M /\ M \in Nat
      /\ (\A i \in 1..L : c[i] = T[i]) /\ \A i \in 1..M : c[L + i] = R[i]
    BY <1>1 DEF RecordAt, InARow
<1>3. \A i \in 1..L : T[i] # EQ
    BY DEF NoRecordIn
<1>4. /\ R[e] = EQ /\ (\A i \in 1..(e - 1) : R[i] # EQ)
      /\ R[e + 1] # LF /\ R[e + 2] = CR /\ R[e + 3] = LF /\ R[e + 4] = CR /\ R[e + 5] = LF
    BY DEF RecordAt
<1>. HIDE DEF L, M
<1>5. \A j \in 0..5 : e + j \in 1..M /\ (L + e) + j = L + (e + j)
    BY <1>2
<1>6. \A j \in 0..5 : c[(L + e) + j] = R[e + j]
    BY <1>2, <1>5
<1>7. /\ 0 \in 0..5 /\ 1 \in 0..5 /\ 2 \in 0..5 /\ 3 \in 0..5 /\ 4 \in 0..5 /\ 5 \in 0..5
      /\ e + 0 = e /\ (L + e) + 0 = L + e /\ L + e \in Nat /\ 15 <= L + e /\ (L + e) + 5 <= Len(c)
    BY <1>2
<1>8. /\ c[L + e] = R[e] /\ c[(L + e) + 1] = R[e + 1] /\ c[(L + e) + 2] = R[e + 2]
      /\ c[(L + e) + 3] = R[e + 3] /\ c[(L + e) + 4] = R[e + 4] /\ c[(L + e) + 5] = R[e + 5]
    BY <1>6, <1>7
<1>9. ASSUME NEW i \in 1..((L + e) - 1) PROVE c[i] # EQ
    <2>1. CASE i <= L
        <3>1. i \in 1..L
            BY <1>2, <2>1
        <3>. QED
            BY <1>2, <1>3, <3>1
    <2>2. CASE ~(i <= L)
        <3>1. i - L \in 1..(e - 1) /\ i - L \in 1..M /\ L + (i - L) = i
            BY <1>2, <2>2
        <3>2. c[i] = R[i - L]
            BY <1>2, <3>1
        <3>. QED
            BY <1>4, <3>1, <3>2
    <2>. QED
        BY <2>1, <2>2
<1>. QED
    BY <1>4, <1>7, <1>8, <1>9 DEF RecordAt, c, L

(* Two texts without a delimiter have none together.                       *)
LEMMA NoRecordMore ==
    ASSUME NEW T \in Seq(Token), NoRecordIn(T), NEW R \in Seq(Token), NoRecordIn(R)
    PROVE  NoRecordIn(Cat(T, R))
<1>. DEFINE c == Cat(T, R)
            L == Len(T)
            M == Len(R)
<1>1. InARow(c, T, R, Token)
    BY CatHas
<1>. HIDE DEF c
<1>2. /\ L \in Nat /\ Len(c) = L + M /\ M \in Nat
      /\ (\A i \in 1..L : c[i] = T[i]) /\ \A i \in 1..M : c[L + i] = R[i]
    BY <1>1 DEF InARow
<1>3. (\A i \in 1..L : T[i] # EQ) /\ \A i \in 1..M : R[i] # EQ
    BY DEF NoRecordIn
<1>. HIDE DEF L, M
<1>4. ASSUME NEW i \in 1..Len(c) PROVE c[i] # EQ
    <2>1. CASE i <= L
        <3>1. i \in 1..L
            BY <1>2, <2>1
        <3>. QED
            BY <1>2, <1>3, <3>1
    <2>2. CASE ~(i <= L)
        <3>1. i - L \in 1..M /\ L + (i - L) = i
            BY <1>2, <2>2
        <3>. QED
            BY <1>2, <1>3, <3>1
    <2>. QED
        BY <2>1, <2>2
<1>. QED
    BY <1>4 DEF NoRecordIn, c

(* What is searched from a place on is found where it is, or before.       *)
LEMMA FoundBefore ==
    ASSUME NEW S, NEW text \in Seq(S), NEW p \in Nat \ {0}, NEW q \in p..Len(text), NEW c,
           text[q] = c
    PROVE  strchr(text, p, c) \in p..q
<1>. DEFINE hits == {k \in p..Len(text) : text[k] = c}
<1>1. Len(text) \in Nat
    BY LenProperties
<1>2. q \in hits /\ hits \in SUBSET Nat /\ hits # {}
    BY <1>1
<1>3. strchr(text, p, c) = Min(hits)
    BY <1>2 DEF strchr
<1>4. Min(hits) \in hits /\ \A m \in hits : Min(hits) <= m
    <2>. HIDE DEF hits
    <2>. QED
        BY <1>2, LeastOf
<1>5. Min(hits) \in p..Len(text) /\ Min(hits) <= q
    BY <1>2, <1>4
<1>. HIDE DEF hits
<1>. QED
    BY <1>1, <1>3, <1>5

(* The record is found, whatever was in front of it: the text of other     *)
(* responses becomes part of its key.                                      *)
LEMMA RecordIsFound ==
    ASSUME NEW T \in Text, NEW e, RecordAt(T, e)
    PROVE  \E kv : RecordsFrom(T, 14) = <<kv>> /\ kv # <<Broken>>
<1>. DEFINE L == Len(T)
            kv == KeyvalsFrom(T, 14)
            one == SaidBy(T, 14, LfAt(T, 14) - 2)
            p == 14
<1>1. /\ T \in Seq(Token) /\ L \in Nat /\ e \in Nat /\ 15 <= e /\ e + 5 <= L
      /\ T[e] = EQ /\ (\A i \in 1..(e - 1) : T[i] # EQ)
      /\ T[e + 1] # LF /\ T[e + 2] = CR /\ T[e + 3] = LF /\ T[e + 4] = CR /\ T[e + 5] = LF
    BY LenProperties DEF RecordAt, Text
<1>. HIDE DEF L, kv, one
<1>2. /\ p \in Nat \ {0} /\ p \in 1..(L + 1) /\ ~(p >= L)
      /\ e \in p..L /\ e + 2 \in p..L /\ e + 3 \in e..L /\ e \in Nat \ {0} /\ e + 2 \in Nat \ {0}
    BY <1>1
<1>3. EqAt(T, p) = e
    <2>1. \A i \in p..(e - 1) : T[i] # EQ
        BY <1>1
    <2>. HIDE DEF p
    <2>. QED
        BY <1>1, <1>2, <2>1, FirstFrom DEF EqAt, L
<1>4. LfAt(T, p) = e + 3
    <2>1. Max({1, e}) = e
        BY <1>2, MaxOfTwo
    <2>2. ASSUME NEW i \in e..((e + 3) - 1) PROVE T[i] # LF
        <3>1. i = e \/ i = e + 1 \/ i = e + 2
            BY <1>1
        <3>2. EQ # LF /\ CR # LF
            BY DEF EQ, LF, CR
        <3>. QED
            BY <1>1, <3>1, <3>2
    <2>3. strchr(T, e, LF) = e + 3
        BY <1>1, <1>2, <2>2, FirstFrom DEF L
    <2>. QED
        BY <1>3, <2>1, <2>3 DEF LfAt
<1>5. ~NoLine(T, p) /\ LastLine(T, p)
    <2>1. e # 0 /\ e + 3 # 0 /\ (e + 3) - 1 = e + 2
        BY <1>1
    <2>. HIDE DEF p
    <2>. QED
        BY <1>1, <1>3, <1>4, <2>1 DEF NoLine, LastLine
<1>6. kv = <<one>>
    <2>. HIDE DEF p
    <2>1. KeyvalsFrom(T, p) = <<SaidBy(T, p, LfAt(T, p) - 2)>>
        BY <1>1, <1>2, <1>5, KeyvalsAre DEF L
    <2>. QED
        BY <2>1 DEF kv, one, p
<1>7. one.end = e + 3
    BY <1>4 DEF one, SaidBy, Found
<1>8. EndAt(T, p) = e + 3
    <2>1. Last(<<one>>) = one
        BY DEF Last
    <2>. QED
        BY <1>6, <1>7, <2>1 DEF EndAt, kv
<1>9. strchr(T, p, CR) \in p..(e + 2)
    <2>. HIDE DEF p
    <2>. QED
        BY <1>1, <1>2, FoundBefore DEF L
<1>10. ~NoRecord(T, p)
    <2>1. strchr(T, p, CR) # 0 /\ strchr(T, p, CR) # L /\ e + 3 # 0
        BY <1>1, <1>9
    <2>. QED
        BY <1>8, <2>1 DEF NoRecord, L
<1>11. LastRecord(T, p)
    <2>. DEFINE q == e + 2
    <2>1. /\ q \in Nat \ {0} /\ q + 2 \in Nat \ {0} /\ q + 1 = e + 3 /\ q + 2 = e + 4
          /\ (q + 2) + 1 = e + 5 /\ q + 1 <= L /\ (q + 2) + 1 <= L /\ (e + 3) - 1 = q
        BY <1>1
    <2>2. T[q] = CR /\ T[q + 1] = LF /\ T[q + 2] = CR /\ T[(q + 2) + 1] = LF
        BY <1>1, <2>1
    <2>. HIDE DEF q, p
    <2>3. StartsAt(T, q, CRLF) /\ StartsAt(T, q + 2, CRLF)
        BY <2>1, <2>2, EndSaid DEF L
    <2>4. StartsAt(T, q, CRLF \o CRLF)
        BY <2>1, <2>3, EndSaid
    <2>. QED
        BY <1>8, <2>1, <2>4 DEF LastRecord
<1>12. RecordsFrom(T, p) = <<KeyvalsFrom(T, p)>>
    <2>. HIDE DEF p
    <2>. QED
        BY <1>1, <1>2, <1>10, <1>11, RecordsAre DEF L
<1>13. kv # <<Broken>>
    <2>1. SUFFICES ASSUME <<one>> = <<Broken>> PROVE FALSE
        BY <1>6
    <2>2. one = Broken
        BY <2>1
    <2>3. e + 3 = 0
        BY <1>7, <2>2, EndOfBroken
    <2>. QED
        BY <1>1, <2>3
<1>. QED
    BY <1>12, <1>13 DEF kv

(* Without a record there is an error, unless the text ends with the       *)
(* header.                                                                 *)
LEMMA NoRecordIsFound ==
    ASSUME NEW T \in Text, NoRecordIn(T), 14 < Len(T)
    PROVE  RecordsFrom(T, 14) = <<(<<Broken>>)>>
<1>. DEFINE L == Len(T)
            p == 14
<1>1. T \in Seq(Token) /\ L \in Nat
    BY LenProperties DEF Text
<1>2. p \in Nat \ {0} /\ p \in 1..(L + 1) /\ ~(p >= L)
    BY <1>1
<1>3. \A i \in p..L : T[i] # EQ
    <2>1. \A i \in p..L : i \in 1..L
        BY <1>1
    <2>. QED
        BY <2>1 DEF NoRecordIn
<1>. HIDE DEF L, p
<1>4. EqAt(T, p) = 0
    BY <1>1, <1>2, <1>3, NoneFrom DEF EqAt, L
<1>5. KeyvalsFrom(T, p) = <<Broken>>
    BY <1>1, <1>2, <1>4, KeyvalsAre DEF NoLine, L
<1>6. EndAt(T, p) = 0
    <2>1. Last(<<Broken>>) = Broken
        BY DEF Last
    <2>. QED
        BY <1>5, <2>1, EndOfBroken DEF EndAt
<1>7. NoRecord(T, p)
    BY <1>6 DEF NoRecord
<1>8. RecordsFrom(T, p) = <<(<<Broken>>)>>
    BY <1>1, <1>2, <1>7, RecordsAre DEF L
<1>. QED
    BY <1>8 DEF p

(* The texts of the first n responses of a batch, one after the other:     *)
(* they begin as the first does, and have a record if one of them has.     *)
Spoke(T, b, n) ==
    /\ T \in Seq(Token) /\ Len(T) \in Nat /\ 13 <= Len(T) /\ (n > 1 => 26 <= Len(T))
    /\ \A i \in 1..13 : T[i] = Opening(StatusOf(b[1]), b[1].uri)[i]
    /\ (\A j \in 1..n : ~b[j].records) => NoRecordIn(T) /\ (n = 1 => Len(T) = 13)
    /\ (\E j \in 1..n : b[j].records) => \E e : RecordAt(T, e)

(* The first of them.                                                      *)
LEMMA SpokeFirst ==
    ASSUME NEW b, b[1] \in Response
    PROVE  Spoke(ResponseText(b[1]), b, 1)
<1>. DEFINE msg == b[1]
            T == ResponseText(msg)
            s == StatusOf(msg)
            u == msg.uri
            more == msg.records
<1>1. Word(s) /\ Word(u) /\ more \in BOOLEAN /\ Spoken(T, s, u, more)
    BY ResponseWords, ResponseTextIs DEF Response
<1>. HIDE DEF msg, T, s, u, more
<1>2. /\ more => RecordAt(T, 15) /\ Len(T) = 20
      /\ ~more => NoRecordIn(T) /\ Len(T) = 13
    BY <1>1, SpokenSays
<1>3. T \in Seq(Token) /\ \A i \in 1..13 : T[i] = Opening(s, u)[i]
    BY <1>1 DEF Spoken
<1>4. Len(T) \in Nat /\ 13 <= Len(T)
    <2>1. Len(T) = 20 \/ Len(T) = 13
        BY <1>1, <1>2
    <2>. DEFINE l == Len(T)
    <2>2. l = 20 \/ l = 13
        BY <2>1
    <2>. HIDE DEF l
    <2>3. l \in Nat /\ 13 <= l
        BY <2>2
    <2>. QED
        BY <2>3 DEF l
<1>5. 1 \in 1..1 /\ (\A j \in 1..1 : j = 1) /\ ~(1 > 1)
    OBVIOUS
<1>6. (\A j \in 1..1 : ~b[j].records) => NoRecordIn(T) /\ Len(T) = 13
    BY <1>2, <1>5 DEF more, msg
<1>7. (\E j \in 1..1 : b[j].records) => \E e : RecordAt(T, e)
    BY <1>2, <1>5 DEF more, msg
<1>. QED
    BY <1>3, <1>4, <1>5, <1>6, <1>7 DEF Spoke, T, s, u, msg

(* And one more.                                                           *)
LEMMA SpokeNext ==
    ASSUME NEW b, NEW n \in Nat, n >= 1, NEW T, Spoke(T, b, n), b[n + 1] \in Response
    PROVE  Spoke(Cat(T, ResponseText(b[n + 1])), b, n + 1)
<1>. DEFINE msg == b[n + 1]
            R == ResponseText(msg)
            s == StatusOf(msg)
            u == msg.uri
            more == msg.records
            c == Cat(T, R)
            o == Opening(StatusOf(b[1]), b[1].uri)
            L == Len(T)
            M == Len(R)
            m == n + 1
<1>1. Word(s) /\ Word(u) /\ more \in BOOLEAN /\ Spoken(R, s, u, more)
    BY ResponseWords, ResponseTextIs DEF Response
<1>2. /\ T \in Seq(Token) /\ L \in Nat /\ 13 <= L
      /\ (\A i \in 1..13 : T[i] = o[i])
      /\ ((\A j \in 1..n : ~b[j].records) => NoRecordIn(T))
      /\ ((\E j \in 1..n : b[j].records) => \E e : RecordAt(T, e))
    BY DEF Spoke
<1>. HIDE DEF msg, R, s, u, more, o, m
<1>3. /\ more => RecordAt(R, 15) /\ M = 20
      /\ ~more => NoRecordIn(R) /\ M = 13
    BY <1>1, SpokenSays
<1>4. R \in Seq(Token)
    BY <1>1 DEF Spoken
<1>5. InARow(c, T, R, Token)
    BY <1>2, <1>4, CatHas
<1>. HIDE DEF c
<1>6. /\ c \in Seq(Token) /\ Len(c) = L + M /\ \A i \in 1..L : c[i] = T[i]
    BY <1>5 DEF InARow
<1>. HIDE DEF L, M
<1>7. M = 20 \/ M = 13
    BY <1>1, <1>3
<1>8. Len(c) \in Nat /\ 13 <= Len(c) /\ 26 <= Len(c)
    BY <1>2, <1>6, <1>7
<1>9. \A i \in 1..13 : c[i] = o[i]
    <2>1. \A i \in 1..13 : i \in 1..L
        BY <1>2
    <2>. QED
        BY <1>2, <1>6, <2>1
<1>10. /\ \A j \in 1..m : j \in 1..n \/ j = m
       /\ (\A j \in 1..n : j \in 1..m) /\ m \in 1..m /\ m # 1
    BY DEF m
<1>11. more = b[m].records
    BY DEF more, msg, m
<1>12. (\A j \in 1..m : ~b[j].records) => NoRecordIn(c)
    <2>. SUFFICES ASSUME \A j \in 1..m : ~b[j].records PROVE NoRecordIn(c)
        OBVIOUS
    <2>1. NoRecordIn(T) /\ NoRecordIn(R)
        BY <1>2, <1>3, <1>10, <1>11
    <2>. QED
        BY <1>2, <1>4, <2>1, NoRecordMore DEF c
<1>13. (\E j \in 1..m : b[j].records) => \E e : RecordAt(c, e)
    <2>. SUFFICES ASSUME \E j \in 1..m : b[j].records PROVE \E e : RecordAt(c, e)
        OBVIOUS
    <2>1. CASE \E j \in 1..n : b[j].records
        <3>1. PICK e : RecordAt(T, e)
            BY <1>2, <2>1
        <3>. QED
            BY <1>2, <1>4, <3>1, RecordStays DEF c
    <2>2. CASE ~\E j \in 1..n : b[j].records
        <3>1. more /\ \A j \in 1..n : ~b[j].records
            BY <1>10, <1>11, <2>2
        <3>2. NoRecordIn(T) /\ RecordAt(R, 15)
            BY <1>2, <1>3, <3>1
        <3>. QED
            BY <1>2, <1>4, <3>2, RecordMoves DEF c
    <2>. QED
        BY <2>1, <2>2
<1>14. Spoke(c, b, m)
    BY <1>6, <1>8, <1>9, <1>10, <1>12, <1>13 DEF Spoke, o
<1>. QED
    BY <1>14 DEF c, R, msg, m

(* All of them.                                                            *)
LEMMA SpokeAll ==
    ASSUME NEW b \in Seq(Response), b # <<>>, NEW text,
           text = [k \in DOMAIN b |-> ResponseText(b[k])]
    PROVE  Spoke(FlattenSeq(text), b, Len(b))
<1>. DEFINE N == Len(b)
            whole == FlattenSeq(text)
<1>1. N \in Nat /\ N # 0 /\ DOMAIN b = 1..N /\ \A n \in 1..N : b[n] \in Response
    BY LenProperties, ElementOfSeq, EmptySeq
<1>. HIDE DEF N
<1>2. text \in [1..N -> Seq(Token)] /\ \A n \in 1..N : text[n] = ResponseText(b[n])
    <2>1. \A n \in 1..N : ResponseText(b[n]) \in Seq(Token)
        BY <1>1, ResponseTextIs DEF Spoken
    <2>. QED
        BY <1>1, <2>1
<1>3. text \in Seq(Seq(Token)) /\ Len(text) = N
    BY <1>1, <1>2, AsSeq
<1>4. PICK k \in [0..Len(text) -> Seq(Token)] : FlattenRun(k, text) /\ FlattenSeq(text) = k[Len(text)]
    BY <1>3, FlattenAre
<1>5. k \in [0..N -> Seq(Token)] /\ whole = k[N]
      /\ k[0] = <<>> /\ \A n \in 1..N : k[n] = Cat(k[n - 1], ResponseText(b[n]))
    BY <1>2, <1>3, <1>4 DEF FlattenRun, Cat
<1>. HIDE DEF whole
<1>. DEFINE P == {n \in Nat : n # 0 => Spoke(k[n], b, n)}
<1>6. 0 \in P
    OBVIOUS
<1>7. ASSUME NEW n \in 0..(N - 1), n \in P PROVE n + 1 \in P
    <2>. DEFINE m == n + 1
                R == ResponseText(b[m])
    <2>1. m \in 1..N /\ m - 1 = n /\ n \in Nat /\ m \in Nat /\ n \in 0..N
        BY <1>1
    <2>2. k[m] = Cat(k[n], R) /\ k[n] \in Seq(Token) /\ b[m] \in Response
        BY <1>1, <1>5, <2>1
    <2>3. CASE n = 0
        <3>1. m = 1 /\ k[n] = <<>>
            BY <1>5, <2>3
        <3>2. R \in Seq(Token)
            BY <2>2, ResponseTextIs DEF Spoken
        <3>3. k[m] = R
            <4>. HIDE DEF R
            <4>. QED
                BY <2>2, <3>1, <3>2, ConcatEmptySeq DEF Cat
        <3>4. Spoke(k[m], b, m)
            BY <2>2, <3>1, <3>3, SpokeFirst
        <3>. QED
            BY <2>1, <3>4
    <2>4. CASE n # 0
        <3>1. Spoke(k[n], b, n) /\ n >= 1
            BY <1>7, <2>1, <2>4
        <3>2. Spoke(k[m], b, m)
            BY <2>1, <2>2, <3>1, SpokeNext
        <3>. QED
            BY <2>1, <3>2
    <2>. QED
        BY <2>3, <2>4
<1>. HIDE DEF P
<1>8. \A n \in 0..N : n \in P
    BY <1>1, <1>6, <1>7, UpTo
<1>9. N \in P
    BY <1>1, <1>8
<1>. QED
    BY <1>1, <1>5, <1>9 DEF P, N, whole

(* A response whose record has been replaced by whether one was found.     *)
LEMMA RecordSaid ==
    ASSUME NEW r \in Response, NEW x, NEW said, said = [r EXCEPT !.records = x]
    PROVE  said.uri = r.uri /\ said.status = r.status /\ said.records = x
BY DEF Response

(* What response_parse makes of the texts of a batch.                      *)
LEMMA ResponsesParsed ==
    ASSUME NEW b \in Seq(Response), b # <<>>, NEW text,
           text = [k \in DOMAIN b |-> ResponseText(b[k])],
           NEW got, got = ParseResponse(FlattenSeq(text))
    PROVE  /\ got.ok <=> Len(b) = 1 \/ \E k \in DOMAIN b : b[k].records
           /\ got.ok => /\ response_header_get(got, <<"uri">>) = <<b[1].uri>>
                        /\ got.status = <<StatusOf(b[1])>>
                        /\ got.records # <<>> <=> \E k \in DOMAIN b : b[k].records
<1>. DEFINE N == Len(b)
            T == FlattenSeq(text)
            s == StatusOf(b[1])
            u == b[1].uri
            L == Len(T)
            rs == IF 14 > L THEN <<>> ELSE RecordsFrom(T, 14)
            some == \E k \in DOMAIN b : b[k].records
            hs == <<Header(u)>>
<1>1. N \in Nat /\ N # 0 /\ DOMAIN b = 1..N /\ 1 \in 1..N /\ b[1] \in Response
    <2>1. N \in Nat /\ N # 0 /\ DOMAIN b = 1..N /\ \A n \in 1..N : b[n] \in Response
        BY LenProperties, ElementOfSeq, EmptySeq
    <2>. HIDE DEF N
    <2>. QED
        BY <2>1
<1>2. Word(s) /\ Word(u)
    BY <1>1, ResponseWords
<1>3. Spoke(T, b, N)
    BY SpokeAll
<1>4. /\ T \in Seq(Token) /\ L \in Nat /\ 13 <= L /\ (N > 1 => 26 <= L)
      /\ \A i \in 1..13 : T[i] = Opening(s, u)[i]
    BY <1>3 DEF Spoke
<1>5. /\ ~some => NoRecordIn(T) /\ (N = 1 => L = 13)
      /\ some => \E e : RecordAt(T, e)
    BY <1>1, <1>3 DEF Spoke
<1>. HIDE DEF T, s, u, N, some
<1>6. T \in Text
    BY <1>4 DEF Text
<1>7. Begins(T, s, u) /\ (L >= 13 => T[12] = CR /\ T[13] = LF)
    <2>1. \A i \in 1..13 : i <= Len(T) => T[i] = Opening(s, u)[i]
        BY <1>4
    <2>. QED
        BY <1>6, <2>1, OpeningBegins
<1>. HIDE DEF hs
<1>8. ParseResponse(T) = Gathered(T, hs, rs)
    <2>1. L >= 11
        BY <1>4
    <2>. QED
        BY <1>2, <1>6, <1>7, <2>1, ParseBegins DEF hs
<1>9. got = Gathered(T, hs, rs)
    BY <1>8 DEF T
<1>10. T[1] = s
    <2>1. Opening(s, u)[1] = s
        BY DEF Opening
    <2>2. 1 \in 1..13
        OBVIOUS
    <2>. QED
        BY <1>4, <2>1, <2>2
<1>11. u \in Token
    BY <1>2 DEF Word
<1>. HIDE DEF L
<1>12. CASE some
    <2>1. PICK e : RecordAt(T, e)
        BY <1>5, <1>12
    <2>2. PICK kv : RecordsFrom(T, 14) = <<kv>> /\ kv # <<Broken>>
        BY <1>6, <2>1, RecordIsFound
    <2>3. ~(14 > L)
        BY <1>4, <2>1 DEF RecordAt, L
    <2>4. rs = <<kv>>
        BY <2>2, <2>3
    <2>5. rs \in Seq({kv}) /\ Len(rs) <= 1 /\ rs # <<>> /\ rs[1] # <<Broken>>
        <3>. DEFINE one == <<kv>>
                    torn == <<Broken>>
        <3>1. one \in Seq({kv}) /\ Len(one) = 1 /\ one # <<>> /\ one[1] = kv
            OBVIOUS
        <3>2. rs = one /\ kv # torn
            BY <2>2, <2>4
        <3>. HIDE DEF one, torn, rs
        <3>3. Len(rs) <= 1
            <4>1. Len(rs) = 1
                BY <3>1, <3>2, Zenon
            <4>. QED
                BY <4>1
        <3>. QED
            BY <3>1, <3>2, <3>3 DEF torn
    <2>. HIDE DEF rs
    <2>6. /\ got.ok /\ got.status = <<T[1]>>
          /\ response_header_get(got, <<"uri">>) = <<u>>
          /\ got.records # <<>> <=> rs # <<>>
        <3>1. rs \in Seq({kv})
            BY <2>5
        <3>2. Len(rs) <= 1
            BY <2>5
        <3>3. rs # <<>> => rs[1] # <<Broken>>
            BY <2>5
        <3>4. LET g == Gathered(T, <<Header(u)>>, rs)
              IN  /\ g.ok /\ g.status = <<T[1]>>
                  /\ response_header_get(g, <<"uri">>) = <<u>>
                  /\ g.records # <<>> <=> rs # <<>>
            BY <1>11, <3>1, <3>2, <3>3, GatheredOne
        <3>. QED
            BY <1>9, <3>4 DEF hs
    <2>. QED
        BY <1>10, <1>12, <2>5, <2>6 DEF s, u, some
<1>13. CASE ~some /\ N = 1
    <2>1. L = 13
        BY <1>5, <1>13
    <2>2. rs = <<>>
        BY <2>1
    <2>3. rs \in Seq(Token) /\ Len(rs) <= 1
        <3>. DEFINE none == <<>>
        <3>1. none \in Seq(Token) /\ Len(none) = 0
            BY EmptySeq
        <3>2. rs = none
            BY <2>2
        <3>. HIDE DEF none, rs
        <3>3. Len(rs) <= 1
            BY <3>1, <3>2
        <3>. QED
            BY <3>1, <3>2, <3>3
    <2>. HIDE DEF rs
    <2>4. /\ got.ok /\ got.status = <<T[1]>>
          /\ response_header_get(got, <<"uri">>) = <<u>>
          /\ got.records # <<>> <=> rs # <<>>
        <3>1. rs \in Seq(Token)
            BY <2>3
        <3>2. Len(rs) <= 1
            BY <2>3
        <3>3. rs # <<>> => rs[1] # <<Broken>>
            BY <2>2
        <3>4. LET g == Gathered(T, <<Header(u)>>, rs)
              IN  /\ g.ok /\ g.status = <<T[1]>>
                  /\ response_header_get(g, <<"uri">>) = <<u>>
                  /\ g.records # <<>> <=> rs # <<>>
            BY <1>11, <3>1, <3>2, <3>3, GatheredOne
        <3>. QED
            BY <1>9, <3>4 DEF hs
    <2>. QED
        BY <1>10, <1>13, <2>2, <2>4 DEF s, u, some, N
<1>14. CASE ~some /\ N # 1
    <2>1. N > 1
        BY <1>1, <1>14
    <2>2. 26 <= L
        BY <1>4, <2>1
    <2>3. 14 < L /\ ~(14 > L)
        BY <1>4, <2>2
    <2>4. NoRecordIn(T)
        BY <1>5, <1>14
    <2>5. RecordsFrom(T, 14) = <<(<<Broken>>)>>
        BY <1>6, <2>3, <2>4, NoRecordIsFound DEF L
    <2>6. rs = <<(<<Broken>>)>>
        BY <2>3, <2>5
    <2>7. TornAll(rs)
        BY <2>6 DEF TornAll, Last
    <2>. HIDE DEF rs
    <2>8. got = NoResponse
        BY <1>9, <2>7, GatheredTorn
    <2>9. ~got.ok
        BY <2>8 DEF NoResponse
    <2>. QED
        BY <1>14, <2>9 DEF some, N
<1>. QED
    BY <1>12, <1>13, <1>14

(* It is enough, too, for what response_parse is to find in a batch.       *)
LEMMA BatchInvResponses == BatchInv => ResponsesAgree
<1>. SUFFICES ASSUME BatchInv, batch # <<>>, batch[1].kind = "response",
                     NEW got, got = ParseResponse(FlattenSeq([k \in DOMAIN batch |-> ResponseText(batch[k])])),
                     NEW said, said = response_parse(batch)
              PROVE  /\ got.ok <=> ResponseParses(batch)
                     /\ got.ok => /\ response_header_get(got, <<"uri">>) = <<said.uri>>
                                  /\ got.status = <<IF said.status = 200 THEN "200" ELSE "400">>
                                  /\ got.records # <<>> <=> said.records
    BY DEF ResponsesAgree
<1>. DEFINE N == Len(batch)
            some == \E k \in DOMAIN batch : batch[k].records
<1>1. N \in Nat /\ DOMAIN batch = 1..N /\ \A n \in 1..N : batch[n] \in BatchMessage
    BY LenProperties, ElementOfSeq DEF BatchInv
<1>2. batch \in Seq(Response)
    <2>1. ASSUME NEW n \in 1..N PROVE batch[n] \in Response
        <3>1. batch[n] \in Message /\ batch[n].kind = "response"
            BY <1>1, BatchAssumption DEF BatchInv
        <3>. QED
            BY <3>1 DEF Message, Request
    <2>2. batch = [n \in 1..N |-> batch[n]]
        BY <1>1, LenProperties DEF BatchInv
    <2>. HIDE DEF N
    <2>3. batch \in [1..N -> Response]
        BY <2>1, <2>2
    <2>. QED
        BY <1>1, <2>3, AsSeq
<1>3. batch[1] \in Response
    <2>1. N # 0
        BY <1>2, EmptySeq
    <2>2. 1 \in 1..N
        BY <1>1, <2>1
    <2>. QED
        BY <1>2, <2>2, ElementOfSeq
<1>4. /\ got.ok <=> N = 1 \/ some
      /\ got.ok => /\ response_header_get(got, <<"uri">>) = <<batch[1].uri>>
                   /\ got.status = <<StatusOf(batch[1])>>
                   /\ got.records # <<>> <=> some
    <2>. DEFINE text == [k \in DOMAIN batch |-> ResponseText(batch[k])]
    <2>1. got = ParseResponse(FlattenSeq(text)) /\ text = [k \in DOMAIN batch |-> ResponseText(batch[k])]
        OBVIOUS
    <2>. HIDE DEF text
    <2>. QED
        BY <1>2, <2>1, ResponsesParsed
<1>5. said.uri = batch[1].uri /\ said.status = batch[1].status /\ (said.records <=> some)
    <2>1. said = [batch[1] EXCEPT !.records = some]
        BY DEF response_parse
    <2>. HIDE DEF some
    <2>2. said.uri = batch[1].uri /\ said.status = batch[1].status /\ said.records = some
        BY <1>3, <2>1, RecordSaid
    <2>. QED
        BY <2>2
<1>6. ResponseParses(batch) <=> N = 1 \/ some
    BY DEF ResponseParses
<1>7. StatusOf(batch[1]) = IF said.status = 200 THEN "200" ELSE "400"
    BY <1>5 DEF StatusOf
<1>. HIDE DEF some, N
<1>. QED
    BY <1>4, <1>5, <1>6, <1>7

-----------------------------------------------------------------------------
(* However many messages one read() returns, they are messages of the     *)
(* programs, and all of one kind: what is read at once comes from one peer.*)
THEOREM BatchInvariance == BatchSafe => []BatchInv
<1>1. BatchInit => BatchInv
    <2>. SUFFICES ASSUME batch = <<>> PROVE BatchInv
        BY DEF BatchInit
    <2>1. DOMAIN batch = {}
        OBVIOUS
    <2>. QED
        BY <2>1, EmptySeq DEF BatchInv
<1>2. BatchInv /\ [BatchNext]_batch => BatchInv'
    <2>. SUFFICES ASSUME BatchInv, [BatchNext]_batch PROVE BatchInv'
        OBVIOUS
    <2>1. CASE UNCHANGED batch
        BY <2>1 DEF BatchInv
    <2>2. ASSUME NEW msg \in BatchMessage, Arrive(msg) PROVE BatchInv'
        <3>. DEFINE N == Len(batch)
        <3>1. /\ batch \in Seq(BatchMessage) /\ batch' = Append(batch, msg)
              /\ \A k \in DOMAIN batch : batch[k].kind = msg.kind
            BY <2>2 DEF BatchInv, Arrive
        <3>2. /\ batch' \in Seq(BatchMessage) /\ Len(batch') = N + 1
              /\ \A n \in 1..(N + 1) : batch'[n] = IF n = N + 1 THEN msg ELSE batch[n]
            BY <3>1, AppendElements
        <3>3. N \in Nat /\ DOMAIN batch = 1..N /\ DOMAIN batch' = 1..(N + 1)
            BY <3>1, <3>2, LenProperties
        <3>4. \A n \in 1..(N + 1) : n \in 1..N \/ n = N + 1
            BY <3>3
        <3>. HIDE DEF N
        <3>6. \A n \in 1..(N + 1) : batch'[n].kind = msg.kind
            BY <3>1, <3>2, <3>3, <3>4
        <3>5. 1 \in 1..(N + 1)
            BY <3>3
        <3>. QED
            BY <3>2, <3>3, <3>5, <3>6 DEF BatchInv
    <2>. QED
        BY <2>1, <2>2 DEF BatchNext
<1>. QED
    BY <1>1, <1>2, PTL DEF BatchSafe

(* Any number of request texts that one read() returned together, as       *)
(* request_prepare writes them one after the other, are parsed by          *)
(* request_parse as EcafeMessages says: to the uri of the first, and for   *)
(* each parameter what the last request that gives it says; if the table   *)
(* has room for the parameters there are, as the code's has.               *)
THEOREM RequestsOfABatchAgree == BatchSafe => []RequestsAgree
BY BatchInvariance, BatchInvAgrees, PTL

(* Any number of response texts that one read() returned together, as      *)
(* response_prepare writes them one after the other, are parsed by         *)
(* response_parse as EcafeMessages says: there is an error unless one of   *)
(* them has a record or there is but one of them, the uri and the status   *)
(* are those of the first, and a record is found if any of them has one.   *)
THEOREM ResponsesOfABatchAgree == BatchSafe => []ResponsesAgree
BY BatchInvariance, BatchInvResponses, PTL

-----------------------------------------------------------------------------

(* A read that has room for all that a stream holds.                       *)
LEMMA WholeDrained ==
    ASSUME NEW S, NEW text \in Seq(S), NEW room \in Nat, Len(text) <= room
    PROVE  Cut(text, room) = text /\ Drained(text, room) = <<>>
<1>. DEFINE L == Len(text)
<1>1. L \in Nat
    BY LenProperties
<1>2. {room, L} \in SUBSET Nat /\ L \in {room, L} /\ \A m \in {room, L} : L <= m
    BY <1>1
<1>3. Min({room, L}) = L
    <2>. HIDE DEF L
    <2>. QED
        BY <1>2, LeastIs
<1>4. Drained(text, room) = SubSeq(text, L + 1, L)
    BY <1>3 DEF Drained
<1>5. SubSeq(text, L + 1, L) = <<>>
    <2>1. L + 1 > L
        BY <1>1
    <2>. HIDE DEF L
    <2>. QED
        BY <1>1, <2>1
<1>. QED
    BY <1>4, <1>5, CutFits

(* A new key in a table that has room.                                     *)
LEMMA OneAdded ==
    ASSUME NEW t, Good(t), Len(t) + 1 < MaxParam, NEW k \in Text, NEW v \in Text,
           Fits(Entry(k, v)), \A x \in Range(t) : x.key # k
    PROVE  /\ Good(PutLast(t, k, v)) /\ Len(PutLast(t, k, v)) = Len(t) + 1
           /\ Range(PutLast(t, k, v)) = Range(t) \cup {Entry(k, v)}
           /\ Lookup(PutLast(t, k, v), k) = v
<1>. DEFINE e == Entry(k, v)
            new == Append(t, e)
            L == Len(t)
<1>1. t \in Seq(Item) /\ Distinct(t) /\ L \in Nat /\ \A n \in 1..L : Fits(t[n])
    BY LenProperties DEF Good
<1>2. e \in Item /\ e.key = k /\ e.val = v
    BY DEF Entry, Item
<1>3. Without(t, k) = t
    BY <1>1, WithoutFacts
<1>4. PutLast(t, k, v) = new
    <2>1. L # MaxParam - 1
        BY <1>1, TableAssumption
    <2>. QED
        BY <1>3, <2>1 DEF PutLast
<1>5. Fits(e)
    OBVIOUS
<1>. HIDE DEF e
<1>6. Distinct(new) /\ Range(new) = Range(t) \cup {e}
    BY <1>1, <1>2, AppendDistinct
<1>7. /\ new \in Seq(Item) /\ Len(new) = L + 1
      /\ \A i \in 1..(L + 1) : new[i] = IF i = L + 1 THEN e ELSE t[i]
    BY <1>1, <1>2, AppendElements
<1>. HIDE DEF new
<1>8. \A i \in 1..(L + 1) : i = L + 1 \/ i \in 1..L
    BY <1>1
<1>9. L + 1 \in 1..(L + 1)
    BY <1>1
<1>10. \A n \in 1..Len(new) : Fits(new[n])
    <2>. HIDE DEF L
    <2>. QED
        BY <1>1, <1>5, <1>7, <1>8
<1>11. Good(new)
    BY <1>6, <1>7, <1>10 DEF Good
<1>12. Lookup(new, k) = v
    <2>1. new[L + 1] = e /\ L + 1 \in 1..Len(new)
        BY <1>7, <1>9
    <2>2. Lookup(new, new[L + 1].key) = new[L + 1].val
        BY <1>6, <1>7, <2>1, LookupFinds
    <2>. QED
        BY <1>2, <2>1, <2>2
<1>. QED
    BY <1>4, <1>6, <1>7, <1>11, <1>12 DEF e, L

(* What a request is with one more parameter.                              *)
LEMMA ParamSet ==
    ASSUME NEW uri, NEW p, NEW k, NEW v
    PROVE  /\ request_param_set(Posted(uri, p), k, v) = Posted(uri, PutLast(p, k, str_trim(v)))
           /\ NewRequest(uri) = Posted(uri, <<>>) /\ Posted(uri, p).ok
<1>. DEFINE t == <<"POST">>
            h == <<>>
            c == TRUE
            q == PutLast(p, k, str_trim(v))
            old == Posted(uri, p)
            new == Posted(uri, q)
<1>1. old = [ok |-> c, type |-> t, uri |-> uri, headers |-> h, params |-> p]
    BY DEF Posted
<1>2. new = [ok |-> c, type |-> t, uri |-> uri, headers |-> h, params |-> q]
    BY DEF Posted
<1>3. request_param_set(old, k, v) = [old EXCEPT !.params = PutLast(old.params, k, str_trim(v))]
    BY Zenon DEF request_param_set
<1>4. NewRequest(uri) = Posted(uri, <<>>)
    BY DEF NewRequest, Posted
<1>. HIDE DEF t, h, c, old, new
<1>5. old.params = p /\ old.ok = c
    BY <1>1
<1>6. request_param_set(old, k, v) = [old EXCEPT !.params = q]
    BY <1>3, <1>5
<1>. HIDE DEF q
<1>7. [old EXCEPT !.params = q]
         = [ok |-> c, type |-> t, uri |-> uri, headers |-> h, params |-> q]
    BY <1>1
<1>. QED
    BY <1>2, <1>4, <1>5, <1>6, <1>7 DEF old, new, q, c

(* The parameters of a message's request.                                  *)
LEMMA MessageParams ==
    ASSUME NEW msg \in Text, LF \notin Range(str_trim(msg)), MaxParam > 2
    PROVE  \E p : /\ MessageRequest(msg) = Posted(<<"/message">>, p)
                  /\ Good(p) /\ Lookup(p, <<"msg">>) = str_trim(msg)
                  /\ Lookup(p, <<"id">>) = <<"1">>
                  /\ \A k \in {<<"id">>, <<"msg">>} : \E n \in DOMAIN p : p[n].key = k
<1>. DEFINE k1 == <<"id">>
            v1 == <<"1">>
            k2 == <<"msg">>
            v2 == str_trim(msg)
            uri == <<"/message">>
            none == <<>>
            one == PutLast(none, k1, str_trim(v1))
            two == PutLast(one, k2, v2)
<1>1. /\ k1 \in Seq(Token) /\ v1 \in Seq(Token) /\ k2 \in Seq(Token)
      /\ Range(k1) = {"id"} /\ Range(v1) = {"1"} /\ Range(k2) = {"msg"} /\ k1 # k2
      /\ Trimmed(k1) /\ Trimmed(v1) /\ Trimmed(k2)
    BY TokenAssumption, RelayWordAssumption DEF Range, Trimmed, IsSpace, SP, CR, LF
<1>2. v2 \in Seq(Token) /\ Trimmed(v2)
    BY TrimFacts DEF Text
<1>3. MessageRequest(msg) = Posted(uri, two)
    <2>1. NewRequest(uri) = Posted(uri, none)
        BY ParamSet
    <2>. HIDE DEF uri, none, k1, v1, k2
    <2>2. request_param_set(Posted(uri, none), k1, v1) = Posted(uri, one)
        BY ParamSet
    <2>3. request_param_set(Posted(uri, one), k2, msg) = Posted(uri, two)
        BY ParamSet
    <2>. QED
        BY <2>1, <2>2, <2>3 DEF MessageRequest, uri, k1, v1, k2
<1>4. Good(none) /\ Len(none) = 0 /\ Range(none) = {}
    BY EmptySeq, TableAssumption DEF Good, Distinct, Range
<1>5. /\ Range(k1) \cap {COLON, EQ, LF} = {} /\ LF \notin Range(v1)
      /\ Range(k2) \cap {COLON, EQ, LF} = {}
    BY <1>1 DEF COLON, EQ, LF
<1>. HIDE DEF uri, none, k1, v1, k2, v2
<1>6. str_trim(v1) = v1
    BY <1>1, TrimOfTrimmed
<1>7. Fits(Entry(k1, v1)) /\ Fits(Entry(k2, v2)) /\ Entry(k1, v1).key = k1
    BY <1>1, <1>2, <1>5 DEF Fits, Entry, Item, Text, v2
<1>8. Good(one) /\ Len(one) = 1 /\ Range(one) = {Entry(k1, v1)}
    <2>1. k1 \in Text /\ v1 \in Text
        BY <1>1 DEF Text
    <2>2. Len(none) + 1 < MaxParam /\ \A x \in Range(none) : x.key # k1
        BY <1>4, TableAssumption
    <2>. DEFINE n == PutLast(none, k1, v1)
    <2>3. Good(n) /\ Len(n) = Len(none) + 1 /\ Range(n) = Range(none) \cup {Entry(k1, v1)}
        <3>1. Good(none)
            BY <1>4
        <3>2. Len(none) + 1 < MaxParam
            BY <2>2
        <3>3. \A x \in Range(none) : x.key # k1
            BY <2>2
        <3>4. Fits(Entry(k1, v1))
            BY <1>7
        <3>. QED
            BY <2>1, <3>1, <3>2, <3>3, <3>4, OneAdded
    <2>4. one = n
        BY <1>6
    <2>. HIDE DEF n, one
    <2>. QED
        BY <1>4, <2>3, <2>4
<1>9. Good(two) /\ Lookup(two, k2) = v2 /\ Range(two) = {Entry(k1, v1), Entry(k2, v2)}
    <2>1. k2 \in Text /\ v2 \in Text
        BY <1>1, <1>2 DEF Text
    <2>2. Len(one) + 1 < MaxParam /\ \A x \in Range(one) : x.key # k2
        BY <1>1, <1>7, <1>8, TableAssumption
    <2>. HIDE DEF one
    <2>3. /\ Good(two) /\ Lookup(two, k2) = v2
          /\ Range(two) = Range(one) \cup {Entry(k2, v2)}
        <3>1. Good(one)
            BY <1>8
        <3>2. Len(one) + 1 < MaxParam
            BY <2>2
        <3>3. \A x \in Range(one) : x.key # k2
            BY <2>2
        <3>4. Fits(Entry(k2, v2))
            BY <1>7
        <3>. QED
            BY <2>1, <3>1, <3>2, <3>3, <3>4, OneAdded
    <2>. HIDE DEF two
    <2>4. Range(two) = {Entry(k1, v1), Entry(k2, v2)}
        BY <1>8, <2>3
    <2>. QED
        BY <2>3, <2>4
<1>. HIDE DEF two
<1>10. PICK n1 \in DOMAIN two, n2 \in DOMAIN two :
          two[n1] = Entry(k1, v1) /\ two[n2] = Entry(k2, v2)
    BY <1>9 DEF Range
<1>11. two[n1].key = k1 /\ two[n1].val = v1 /\ two[n2].key = k2
    BY <1>10 DEF Entry
<1>12. Lookup(two, k1) = v1
    <2>1. two \in Seq(Item) /\ Distinct(two)
        BY <1>9 DEF Good
    <2>2. n1 \in 1..Len(two)
        BY <2>1, LenProperties
    <2>. QED
        BY <1>11, <2>1, <2>2, LookupFinds
<1>13. \A k \in {k1, k2} : \E n \in DOMAIN two : two[n].key = k
    BY <1>11
<1>. QED
    BY <1>3, <1>9, <1>12, <1>13 DEF uri, k1, v1, k2, v2

(* A request without headers, cut by a buffer.                             *)
IsPosted(text, uri, p, room) ==
    \E B \in Seq(Token) : \E whole \in Seq(Token) :
       /\ B = Spelled(p, <<EQ>>, <<LF>>)
       /\ text = Cut(whole, room)
       /\ Len(whole) = 4 + Len(uri) + Len(B)

(* The text of a request without headers.                                  *)
LEMMA PostedText ==
    ASSUME NEW uri \in Seq(Token), NEW p, Good(p), NEW room \in Nat
    PROVE  IsPosted(request_prepare(Posted(uri, p), room), uri, p, room)
<1>. DEFINE t == <<"POST">>
            s == <<SP>>
            f == <<LF>>
            h == <<>>
            B == Spelled(p, <<EQ>>, <<LF>>)
            A == Spelled(h, <<COLON, SP>>, <<LF>>)
            req == Posted(uri, p)
            w1 == t \o s
            w2 == w1 \o uri
            w3 == w2 \o f
            w4 == w3 \o A
            w5 == w4 \o f
            w6 == w5 \o B
<1>1. t \in Seq(Token) /\ s \in Seq(Token) /\ f \in Seq(Token) /\ Len(t) = 1 /\ Len(s) = 1 /\ Len(f) = 1
    BY TokenAssumption
<1>2. B \in Seq(Token)
    <2>. DEFINE d == <<(<<EQ>>), EQ>>
    <2>1. d \in Delims /\ d[1] = <<EQ>>
        BY DEF Delims
    <2>. HIDE DEF d
    <2>. QED
        BY <2>1, GoodLines DEF Text
<1>3. A = h /\ h \in Seq(Token) /\ Len(h) = 0
    BY SpelledNothing, EmptySeq
<1>4. req.type = t /\ req.uri = uri /\ req.headers = h /\ req.params = p
    BY PostedFields
<1>5. request_prepare(req, room) = Cut(w6, room)
    BY <1>4 DEF request_prepare
<1>. HIDE DEF t, s, f, h, A, B, req
<1>6. A \in Seq(Token) /\ Len(A) = 0
    BY <1>3
<1>7. w1 \in Seq(Token) /\ Len(w1) = 1 + 1
    BY <1>1, ConcatProperties
<1>. HIDE DEF w1
<1>8. w2 \in Seq(Token) /\ Len(w2) = Len(w1) + Len(uri)
    BY <1>7, ConcatProperties
<1>. HIDE DEF w2
<1>9. w3 \in Seq(Token) /\ Len(w3) = Len(w2) + Len(f)
    BY <1>1, <1>8, ConcatProperties
<1>. HIDE DEF w3
<1>10. w4 \in Seq(Token) /\ Len(w4) = Len(w3) + Len(A)
    BY <1>6, <1>9, ConcatProperties
<1>. HIDE DEF w4
<1>11. w5 \in Seq(Token) /\ Len(w5) = Len(w4) + Len(f)
    BY <1>1, <1>10, ConcatProperties
<1>. HIDE DEF w5
<1>12. w6 \in Seq(Token) /\ Len(w6) = Len(w5) + Len(B)
    BY <1>2, <1>11, ConcatProperties
<1>. HIDE DEF w6
<1>13. Len(w6) = 4 + Len(uri) + Len(B)
    <2>1. Len(uri) \in Nat /\ Len(B) \in Nat
        BY <1>2, LenProperties
    <2>. DEFINE m == Len(uri)
                n == Len(B)
    <2>2. Len(w6) = ((((1 + 1) + m) + 1) + 0) + 1 + n
        BY <1>1, <1>6, <1>7, <1>8, <1>9, <1>10, <1>11, <1>12
    <2>3. m \in Nat /\ n \in Nat
        BY <2>1
    <2>. HIDE DEF m, n
    <2>4. Len(w6) = 4 + m + n
        BY <2>2, <2>3
    <2>. QED
        BY <2>4 DEF m, n
<1>. QED
    <2>. HIDE DEF w6
    <2>1. \E b \in Seq(Token) : \E whole \in Seq(Token) :
             /\ b = B /\ request_prepare(req, room) = Cut(whole, room)
             /\ Len(whole) = 4 + Len(uri) + Len(b)
        BY <1>2, <1>5, <1>12, <1>13
    <2>. QED
        BY <2>1 DEF IsPosted, B, req

(* A request without headers whose text is shorter than the buffer.        *)
LEMMA PostedIsRead ==
    ASSUME NEW uri \in Seq(Token), LF \notin Range(uri), NEW p, Good(p), NEW room \in Nat,
           Len(request_prepare(Posted(uri, p), room)) < room
    PROVE  ParseRequest(request_prepare(Posted(uri, p), room)) = Posted(uri, p)
<1>. DEFINE t == <<"POST">>
            h == <<>>
            req == Posted(uri, p)
<1>1. t \in ReqType /\ t \in Text /\ uri \in Text
    BY TokenAssumption DEF ReqType, Text
<1>2. Good(h)
    BY EmptySeq, TableAssumption DEF Good, Distinct
<1>3. req = [ok |-> TRUE, type |-> t, uri |-> uri, headers |-> h, params |-> p]
    BY DEF Posted
<1>4. Len(request_prepare(req, room)) < room
    OBVIOUS
<1>. HIDE DEF t, h, req
<1>5. ParseRequest(request_prepare(req, room)) = req
    BY <1>1, <1>2, <1>3, <1>4, ReadsBack
<1>. QED
    BY <1>5 DEF req

(* The requests of the two pages, and what the programs write for them.     *)
MessageUri == <<"/message">>
IndexUri == <<"/clientall">>
AskText(msg) == WorkerWrites(MessageRequest(msg))
IndexText == WorkerWrites(NewRequest(IndexUri))

(* A message that can be carried is read as it was written.                *)
AskIsRead(T, req, msg) ==
    /\ T \in Seq(Token) /\ T # <<>> /\ Len(T) <= AgentBuf
    /\ ParseRequest(T) = req /\ req.uri = MessageUri
    /\ IsMessage(req, <<"id">>) /\ IsMessage(req, <<"msg">>)
    /\ request_param_get(req, <<"id">>) = <<"1">>
    /\ request_param_get(req, <<"msg">>) = msg

(* So is the text of each that is no longer than the agent's buffer.       *)
LEMMA AskFacts ==
    ASSUME NEW msg \in Text, str_trim(msg) = msg, Carried(msg), MaxParam > 2
    PROVE  AskIsRead(AskText(msg), MessageRequest(msg), msg)
<1>. DEFINE T == AskText(msg)
            req == MessageRequest(msg)
            uri == MessageUri
<1>1. LF \notin Range(msg) /\ T = request_prepare(req, BigBuf) /\ Len(T) <= AgentBuf
    BY DEF Carried, AskText, WorkerWrites
<1>2. PICK p : /\ req = Posted(uri, p) /\ Good(p) /\ Lookup(p, <<"msg">>) = msg
               /\ Lookup(p, <<"id">>) = <<"1">>
               /\ \A k \in {<<"id">>, <<"msg">>} : \E n \in DOMAIN p : p[n].key = k
    BY <1>1, MessageParams DEF MessageUri
<1>3. uri \in Seq(Token) /\ LF \notin Range(uri) /\ Len(uri) = 1
    BY RelayWordAssumption DEF MessageUri, Range, LF
<1>. HIDE DEF T, req, uri
<1>4. BigBuf \in Nat /\ AgentBuf \in Nat /\ AgentBuf < BigBuf /\ 13 < BigBuf
    BY BufAssumption
<1>5. T = request_prepare(Posted(uri, p), BigBuf)
    BY <1>1, <1>2
<1>6. IsPosted(T, uri, p, BigBuf)
    BY <1>1, <1>2, <1>3, <1>4, <1>5, PostedText
<1>7. PICK B \in Seq(Token) : \E whole \in Seq(Token) :
         /\ B = Spelled(p, <<EQ>>, <<LF>>)
         /\ T = Cut(whole, BigBuf) /\ Len(whole) = 4 + Len(uri) + Len(B)
    BY <1>6 DEF IsPosted
<1>8. PICK whole \in Seq(Token) :
         /\ B = Spelled(p, <<EQ>>, <<LF>>)
         /\ T = Cut(whole, BigBuf) /\ Len(whole) = 4 + Len(uri) + Len(B)
    BY <1>7
<1>9. /\ T \in Seq(Token)
      /\ Len(T) = IF BigBuf <= Len(whole) THEN BigBuf ELSE Len(whole)
    BY <1>4, <1>8, CutIs
<1>10. T # <<>>
    <2>1. Len(B) \in Nat
        BY LenProperties
    <2>2. Len(T) >= 4
        BY <1>3, <1>4, <1>8, <1>9, <2>1
    <2>3. Len(<<>>) = 0
        BY EmptySeq
    <2>. QED
        BY <2>2, <2>3
<1>11. Len(T) < BigBuf
    <2>1. Len(T) \in Nat
        BY <1>9, LenProperties
    <2>. QED
        BY <1>1, <1>4, <2>1
<1>12. ParseRequest(T) = req
    BY <1>2, <1>3, <1>4, <1>5, <1>11, PostedIsRead
<1>13. req.ok /\ req.uri = uri /\ req.params = p
    BY <1>2, ParamSet, PostedFields
<1>14. request_param_get(req, <<"msg">>) = msg /\ request_param_get(req, <<"id">>) = <<"1">>
    BY <1>2, <1>13 DEF request_param_get
<1>15. IsMessage(req, <<"id">>) /\ IsMessage(req, <<"msg">>)
    BY <1>2, <1>13 DEF IsMessage, HasParam, uri, MessageUri
<1>. QED
    BY <1>1, <1>9, <1>10, <1>12, <1>13, <1>14, <1>15 DEF AskIsRead, T, req, uri

(* What the page asks for is the message without the blanks around it.     *)
LEMMA AskTrims ==
    ASSUME NEW msg \in Text
    PROVE  /\ str_trim(msg) \in Text /\ str_trim(str_trim(msg)) = str_trim(msg)
           /\ WorkerWrites(MessageRequest(msg)) = AskText(str_trim(msg))
<1>. DEFINE m == str_trim(msg)
<1>1. m \in Seq(Token) /\ Trimmed(m)
    BY TrimFacts DEF Text
<1>. HIDE DEF m
<1>2. str_trim(m) = m
    BY <1>1, TrimOfTrimmed
<1>3. MessageRequest(msg) = MessageRequest(m)
    <2>. DEFINE req == request_param_set(NewRequest(<<"/message">>), <<"id">>, <<"1">>)
    <2>. HIDE DEF req
    <2>1. request_param_set(req, <<"msg">>, msg) = request_param_set(req, <<"msg">>, m)
        BY <1>2 DEF request_param_set, m
    <2>. QED
        BY <2>1 DEF MessageRequest, req
<1>. QED
    BY <1>1, <1>2, <1>3 DEF AskText, Text, m

(* The request of the page that lists the PCs.                             *)
LEMMA IndexFacts ==
    /\ IndexText \in Seq(Token) /\ IndexText # <<>> /\ Len(IndexText) <= ServerBuf
    /\ ParseRequest(IndexText).ok /\ ParseRequest(IndexText).uri = IndexUri
<1>. DEFINE T == IndexText
            uri == IndexUri
            none == <<>>
            req == Posted(uri, none)
<1>1. uri \in Seq(Token) /\ LF \notin Range(uri) /\ Len(uri) = 1
    BY RelayWordAssumption DEF IndexUri, Range, LF
<1>2. T = request_prepare(req, BigBuf)
    BY ParamSet DEF IndexText, WorkerWrites
<1>3. Good(none)
    BY EmptySeq, TableAssumption DEF Good, Distinct
<1>4. BigBuf \in Nat /\ ServerBuf \in Nat /\ 13 <= ServerBuf /\ ServerBuf < BigBuf
    BY BufAssumption
<1>5. Spelled(none, <<EQ>>, <<LF>>) = <<>> /\ Len(<<>>) = 0
    BY SpelledNothing, EmptySeq
<1>. HIDE DEF T, uri, none, req
<1>6. IsPosted(T, uri, none, BigBuf)
    BY <1>1, <1>2, <1>3, <1>4, <1>5, PostedText DEF req
<1>7. PICK B \in Seq(Token) : \E whole \in Seq(Token) :
         /\ B = Spelled(none, <<EQ>>, <<LF>>)
         /\ T = Cut(whole, BigBuf) /\ Len(whole) = 4 + Len(uri) + Len(B)
    BY <1>6 DEF IsPosted
<1>8. PICK whole \in Seq(Token) :
         /\ B = Spelled(none, <<EQ>>, <<LF>>)
         /\ T = Cut(whole, BigBuf) /\ Len(whole) = 4 + Len(uri) + Len(B)
    BY <1>7
<1>9. Len(B) = 0
    BY <1>5, <1>8 DEF none
<1>10. Len(whole) = 5
    BY <1>1, <1>8, <1>9
<1>11. Len(whole) <= BigBuf
    BY <1>4, <1>10
<1>12. T = whole
    BY <1>4, <1>8, <1>11, CutFits
<1>13. Len(T) = 5 /\ T \in Seq(Token)
    BY <1>10, <1>12
<1>14. T # <<>>
    <2>1. Len(<<>>) = 0
        BY EmptySeq
    <2>2. Len(T) # 0
        BY <1>13
    <2>. QED
        BY ONLY <2>1, <2>2, Zenon
<1>15. T \in Seq(Token) /\ T # <<>> /\ Len(T) <= ServerBuf /\ Len(T) < BigBuf
    BY <1>4, <1>13, <1>14
<1>16. ParseRequest(T) = req
    BY <1>1, <1>2, <1>3, <1>4, <1>15, PostedIsRead DEF req
<1>17. req.ok /\ req.uri = uri
    BY ParamSet, PostedFields DEF req
<1>. QED
    BY <1>15, <1>16, <1>17 DEF T, uri

(* What the agent writes when it has taken a message.                      *)
DoneText == AgentWrites(NewResponse(<<"200">>, MessageUri))

(* The text of a response without records.                                 *)
LEMMA PlainResponse ==
    ASSUME NEW s \in Token, NEW u \in Token, NEW room \in Nat, 13 < room
    PROVE  response_prepare(NewResponse(<<s>>, <<u>>), room) = Opening(s, u)
<1>. DEFINE recs == <<>>
            a == <<s>>
            b == <<Entry(<<"uri">>, <<u>>)>>
            res == NewResponse(<<s>>, <<u>>)
            o == Opening(s, u)
            R == Item
<1>1. res.status = a /\ res.headers = b /\ res.records = recs
    BY DEF NewResponse
<1>2. o \in Seq(Token) /\ Len(o) = 13
    BY OpeningType
<1>3. recs = <<>> /\ recs \in Seq(R) /\ Len(recs) = 0
    BY EmptySeq
<1>. HIDE DEF recs, res, o, R
<1>4. \A n \in 1..Len(recs) : PlainRecord(recs[n])
    BY <1>3
<1>5. PICK k : WholeRun(k, s, u, recs)
    BY <1>3, <1>4, WholeExists
<1>6. WholeText(k, recs) = o
    BY <1>3, <1>5 DEF WholeText, WholeRun, o
<1>7. Len(WholeText(k, recs)) < room
    BY <1>2, <1>6
<1>8. response_prepare(res, room) = WholeText(k, recs)
    <2>1. s \in Token /\ u \in Token /\ room \in Nat
        OBVIOUS
    <2>2. recs \in Seq(R)
        BY <1>3
    <2>3. res.status = <<s>> /\ res.records = recs /\ res.headers = <<Entry(<<"uri">>, <<u>>)>>
        BY <1>1
    <2>. QED
        BY <1>4, <1>5, <1>7, <2>1, <2>2, <2>3, WholeIsWritten
<1>. QED
    BY <1>6, <1>8 DEF res, o

(* It is read as it was written.                                           *)
LEMMA PlainIsRead ==
    ASSUME NEW s, Word(s), NEW u, Word(u)
    PROVE  ParseResponse(Opening(s, u)) = NewResponse(<<s>>, <<u>>)
<1>. DEFINE o == Opening(s, u)
            got == ParseResponse(o)
            hs == <<Header(u)>>
            none == <<>>
            a == <<s>>
            b == <<Entry(<<"uri">>, <<u>>)>>
            c == TRUE
            m == Min({Len(none), MaxRecord})
<1>1. s \in Token /\ u \in Token
    BY DEF Word
<1>2. o \in Text /\ Len(o) = 13 /\ o[1] = s
    BY <1>1, OpeningType DEF Text, Opening
<1>. HIDE DEF o
<1>3. \A i \in 1..13 : i <= Len(o) => o[i] = Opening(s, u)[i]
    BY DEF o
<1>4. Begins(o, s, u) /\ (Len(o) >= 13 => o[12] = CR /\ o[13] = LF)
    <2>1. o \in Text
        BY <1>2
    <2>. QED
        BY ONLY <1>3, <2>1, OpeningBegins
<1>5. got = Gathered(o, hs, none)
    <2>1. Len(o) >= 11 /\ 14 > Len(o)
        BY <1>2
    <2>2. Len(o) >= 11 =>
            got = Gathered(o, hs, IF 14 > Len(o) THEN none ELSE RecordsFrom(o, 14))
        BY <1>2, <1>4, ParseBegins
    <2>. QED
        BY <2>1, <2>2
<1>6. ~(hs # <<>> /\ Last(hs) = Broken)
    <2>1. Last(hs) = Header(u)
        BY DEF Last
    <2>2. Header(u).end = 10 /\ Broken.end = 0
        BY EndOfBroken DEF Header, Found
    <2>. QED
        BY <2>1, <2>2
<1>7. got = ResponseOf(<<o[1]>>, hs, none)
    BY <1>5, <1>6 DEF Gathered
<1>8. HeaderTable(hs) = b
    BY <1>1, OneHeaderPut
<1>9. m = 0
    <2>. DEFINE n == Len(none)
    <2>1. n = 0 /\ n \in Nat
        BY EmptySeq
    <2>. HIDE DEF n, none
    <2>2. MaxRecord \in Nat /\ n <= MaxRecord
        BY <2>1, TableAssumption
    <2>3. Min({n, MaxRecord}) = n
        BY <2>1, <2>2, MinOfTwo
    <2>. QED
        BY <2>1, <2>3 DEF n
<1>10. ResponseOf(a, hs, none)
         = [ok |-> c, status |-> a, headers |-> HeaderTable(hs),
            records |-> [n \in 1..m |-> PushAll(<<>>, none[n])]]
    BY DEF ResponseOf, PushAll, HeaderTable
<1>11. [n \in 1..m |-> PushAll(<<>>, none[n])] = none
    <2>. DEFINE f == [n \in 1..m |-> PushAll(<<>>, none[n])]
    <2>1. f \in [1..0 -> Seq(Item)]
        <3>1. 1..0 = {} /\ DOMAIN f = 1..0
            BY <1>9
        <3>2. \A n \in 1..0 : f[n] \in Seq(Item)
            BY <3>1
        <3>3. f = [n \in 1..0 |-> f[n]]
            <4>1. f = [n \in 1..m |-> f[n]]
                <5>. HIDE DEF m
                <5>. QED
                    OBVIOUS
            <4>. HIDE DEF f, m
            <4>. QED
                BY <1>9, <4>1
        <3>. HIDE DEF f
        <3>. QED
            BY <3>1, <3>2, <3>3
    <2>. HIDE DEF f, m
    <2>2. f \in Seq(Seq(Item)) /\ Len(f) = 0
        <3>1. 0 \in Nat
            OBVIOUS
        <3>. QED
            BY <2>1, <3>1, AsSeq
    <2>. QED
        BY <2>2, EmptySeq DEF f
<1>12. NewResponse(a, <<u>>) = [ok |-> c, status |-> a, headers |-> b, records |-> none]
    BY DEF NewResponse
<1>13. <<o[1]>> = a
    BY <1>2
<1>. HIDE DEF got, hs, a, b, c, none, m
<1>14. got = NewResponse(a, <<u>>)
    BY <1>7, <1>8, <1>10, <1>11, <1>12, <1>13
<1>. QED
    BY <1>14 DEF got, o, a

(* The agent's answer to a message, which the server passes on unchanged,  *)
(* and in which the worker finds no failure.                               *)
LEMMA DoneFacts ==
    /\ DoneText \in Seq(Token) /\ DoneText # <<>> /\ Len(DoneText) <= ServerBuf
    /\ ParseResponse(DoneText).ok /\ ParseResponse(DoneText).status # <<"400">>
    /\ response_prepare(ParseResponse(DoneText), BigBuf) = DoneText
<1>. DEFINE T == DoneText
            s == "200"
            u == "/message"
            res == NewResponse(<<s>>, <<u>>)
<1>1. Word(s) /\ Word(u) /\ s \in Token /\ u \in Token
    BY RelayWordAssumption DEF Word, SP, CR, LF, COLON, EQ
<1>2. BigBuf \in Nat /\ ServerBuf \in Nat /\ 13 < BigBuf /\ 13 <= ServerBuf
    BY BufAssumption
<1>3. T = response_prepare(res, BigBuf)
    BY DEF DoneText, AgentWrites, MessageUri
<1>4. res.ok /\ res.status = <<s>> /\ <<s>> # <<"400">>
    BY DEF NewResponse
<1>. HIDE DEF T, s, u, res
<1>5. T = Opening(s, u)
    BY <1>1, <1>2, <1>3, PlainResponse DEF res
<1>6. ParseResponse(T) = res
    BY <1>1, <1>5, PlainIsRead DEF res
<1>7. T \in Seq(Token) /\ Len(T) = 13
    BY <1>1, <1>5, OpeningType
<1>8. T # <<>>
    <2>1. Len(T) # 0
        BY <1>7
    <2>2. Len(<<>>) = 0
        BY EmptySeq
    <2>. QED
        BY ONLY <2>1, <2>2, Zenon
<1>. QED
    BY <1>2, <1>3, <1>4, <1>6, <1>7, <1>8 DEF T

(* Records pushed one after the other.                                     *)
AllPushed(base, row) == FoldLeft(LAMBDA res, rec : response_record_push(res, rec), base, row)

(* The fold of response_record_push stays in every set that it is closed   *)
(* in.                                                                     *)
LEMMA AllPushedType ==
    ASSUME NEW S, NEW row \in Seq(S), NEW V, NEW base \in V,
           \A r \in V, n \in 1..Len(row) : response_record_push(r, row[n]) \in V
    PROVE  AllPushed(base, row) \in V
<1>. DEFINE N == Len(row)
            F == [p \in (1..N) \X V |-> response_record_push(p[2], row[p[1]])]
            G(f) == f = [T \in SUBSET (DOMAIN row) |->
                           IF T = {} THEN base
                           ELSE response_record_push(f[T \ {Max(T)}], row[Max(T)])]
            g == CHOOSE f : G(f)
<1>1. N \in Nat /\ DOMAIN row = 1..N
    BY LenProperties
<1>2. AllPushed(base, row) = g[DOMAIN row]
    BY Zenon DEF AllPushed, FoldLeft, MapThenFoldSet
<1>. HIDE DEF g
<1>3. F \in [(1..N) \X V -> V]
    BY <1>1
<1>4. PICK f \in [SUBSET (1..N) -> V] : Recurs(f, base, F, N)
    BY <1>1, <1>3, RecursionExists
<1>5. ASSUME NEW T \in SUBSET (1..N)
      PROVE  f[T] = IF T = {} THEN base ELSE response_record_push(f[T \ {Max(T)}], row[Max(T)])
    <2>1. CASE T # {}
        <3>1. Max(T) \in 1..N
            BY <1>1, <2>1, LargestOf
        <3>2. f[T \ {Max(T)}] \in V
            OBVIOUS
        <3>. QED
            BY <1>4, <2>1, <3>1, <3>2 DEF Recurs
    <2>2. CASE T = {}
        BY <1>4, <2>2 DEF Recurs
    <2>. QED
        BY <2>1, <2>2
<1>6. G(f)
    <2>1. f = [T \in SUBSET (1..N) |-> f[T]]
        OBVIOUS
    <2>. QED
        BY <1>1, <1>5, <2>1, Zenon
<1>7. G(g)
    <2>. HIDE DEF G
    <2>. QED
        BY <1>6 DEF g
<1>8. \A T \in SUBSET (1..N) :
         g[T] = IF T = {} THEN base ELSE response_record_push(g[T \ {Max(T)}], row[Max(T)])
    BY <1>1, <1>7, Zenon
<1>. HIDE DEF G
<1>. DEFINE P == {n \in Nat : g[1..n] \in V}
<1>9. 0 \in P
    <2>1. 1..0 = {} /\ {} \in SUBSET (1..N)
        BY <1>1
    <2>. QED
        BY <1>8, <2>1
<1>10. ASSUME NEW n \in 0..(N - 1), n \in P PROVE n + 1 \in P
    <2>1. /\ n + 1 \in 1..N /\ (n + 1) - 1 = n /\ n + 1 \in Nat \ {0}
          /\ (1..(n + 1)) \in SUBSET (1..N)
        BY <1>1
    <2>2. g[1..(n + 1)] = response_record_push(g[1..n], row[n + 1])
        BY <1>8, <2>1, UpToSet
    <2>3. g[1..n] \in V
        BY <1>10
    <2>. QED
        BY <2>1, <2>2, <2>3
<1>. HIDE DEF P
<1>11. N \in P
    <2>1. \A n \in 0..N : n \in P
        <3>. HIDE DEF N
        <3>. QED
            BY <1>1, <1>9, <1>10, UpTo
    <2>. QED
        BY <1>1, <2>1
<1>. QED
    BY <1>1, <1>2, <1>11 DEF P

(* A response with the one header, and records of any kind.                *)
Listing(a, b) == [ok : {TRUE}, status : {a}, headers : {b}, records : Seq(Seq(Item))]

(* One more record, or none where the response is full.                    *)
LEMMA OneListed ==
    ASSUME NEW a, NEW b, NEW res \in Listing(a, b), NEW rec \in Seq(Item)
    PROVE  response_record_push(res, rec) \in Listing(a, b)
<1>. DEFINE V == Seq(Seq(Item))
            r == res.records
            new == Append(r, rec)
            c == TRUE
<1>1. r \in V /\ res = [ok |-> c, status |-> a, headers |-> b, records |-> r]
    BY DEF Listing
<1>2. new \in V
    BY <1>1
<1>3. response_record_push(res, rec) = IF Len(r) >= MaxRecord THEN res
                                       ELSE [res EXCEPT !.records = new]
    BY DEF response_record_push
<1>. HIDE DEF new, r
<1>4. [res EXCEPT !.records = new] = [ok |-> c, status |-> a, headers |-> b, records |-> new]
    <2>. HIDE DEF c
    <2>. QED
        BY <1>1, RecordsReplaced
<1>. QED
    BY <1>2, <1>3, <1>4 DEF Listing

(* The text of any response with one header: never empty, and never longer *)
(* than the buffer.                                                        *)
LEMMA PreparedType ==
    ASSUME NEW s \in Token, NEW u \in Token, NEW res, res.status = <<s>>,
           res.headers = <<Entry(<<"uri">>, <<u>>)>>, res.records \in Seq(Seq(Item)),
           NEW room \in Nat, 13 < room
    PROVE  LET text == response_prepare(res, room)
           IN  text \in Seq(Token \cup {"error"}) /\ text # <<>> /\ Len(text) <= room
<1>. DEFINE recs == res.records
            N == Len(recs)
            H == HeadText(res, room)
            W == WithRecords(H, recs, room)
            E == Ended(W, room)
            text == response_prepare(res, room)
            S == Token \cup {"error"}
<1>1. H \in Text
    <2>. DEFINE M == IF res.records = <<>> THEN 11 ELSE 13
    <2>1. Headed(H, M, s, u, room)
        BY HeadIs
    <2>. HIDE DEF H, M
    <2>. QED
        BY <2>1 DEF Headed
<1>. HIDE DEF H
<1>2. W \in Text
    <2>1. \A n \in 1..N : recs[n] \in Seq(Item)
        BY ElementOfSeq
    <2>2. recs \in Seq(Seq(Item)) /\ N \in 0..N
        BY LenProperties
    <2>. HIDE DEF recs
    <2>3. PICK t \in [0..N -> Text] : W = t[N]
        BY <1>1, <2>1, <2>2, WithRecordsAre
    <2>. QED
        BY <2>2, <2>3
<1>. HIDE DEF W
<1>3. E \in Seq(Token)
    BY <1>2, EndedType DEF Text
<1>4. Len(E) \in Nat /\ Len(E) >= 2
    <2>1. W \in Seq(Token) /\ CRLF \in Seq(Token) /\ Len(CRLF) = 2
        BY <1>2, TokenAssumption DEF Text, CRLF
    <2>2. Len(W) \in Nat /\ Len(E) \in Nat
        BY <1>3, <2>1, LenProperties
    <2>3. Len(W \o CRLF) = Len(W) + Len(CRLF)
        BY <2>1, ConcatProperties
    <2>4. E = IF Len(W) < room - 2 THEN W \o CRLF ELSE W
        BY DEF Ended
    <2>5. CASE Len(W) < room - 2
        BY <2>1, <2>2, <2>3, <2>4, <2>5
    <2>6. CASE ~(Len(W) < room - 2)
        BY <2>2, <2>4, <2>6
    <2>. QED
        BY <2>5, <2>6
<1>5. text = IF Len(E) >= room THEN CutText ELSE E
    BY DEF response_prepare, E, W, H
<1>. HIDE DEF E, text
<1>6. CutText \in Seq(S) /\ Len(CutText) = 1
    BY DEF CutText
<1>7. E \in Seq(S)
    <2>1. Token \subseteq S
        OBVIOUS
    <2>2. \A i \in 1..Len(E) : E[i] \in S
        BY <1>3, <2>1, ElementOfSeq
    <2>. HIDE DEF S
    <2>3. E = [i \in 1..Len(E) |-> E[i]]
        BY <1>3
    <2>4. E \in [1..Len(E) -> S]
        BY <2>2, <2>3
    <2>. QED
        BY <1>4, <2>4, AsSeq
<1>8. text \in Seq(S) /\ Len(text) # 0 /\ Len(text) <= room
    <2>1. CASE Len(E) >= room
        <3>1. text = CutText
            BY <1>5, <2>1
        <3>2. Len(text) = 1 /\ text \in Seq(S)
            BY <1>6, <3>1
        <3>. QED
            BY <3>2
    <2>2. CASE ~(Len(E) >= room)
        BY <1>4, <1>5, <1>7, <2>2
    <2>. QED
        BY <2>1, <2>2
<1>9. text # <<>>
    <2>1. Len(<<>>) = 0
        BY EmptySeq
    <2>. QED
        BY ONLY <1>8, <2>1, Zenon
<1>. QED
    BY <1>8, <1>9 DEF text, S

(* The list of clients.                                                    *)
ListText(n) ==
    response_prepare(AllPushed(NewResponse(<<"200">>, <<"/clientall">>), Details[n]), BigBuf)

(* It is never empty, and the worker has room for it.                      *)
LEMMA ListFacts ==
    ASSUME NEW count \in DOMAIN Details
    PROVE  /\ ListText(count) \in Seq(Token \cup {"error"}) /\ ListText(count) # <<>>
           /\ Len(ListText(count)) <= BigBuf
<1>. DEFINE s == "200"
            u == "/clientall"
            a == <<s>>
            b == <<Entry(<<"uri">>, <<u>>)>>
            base == NewResponse(<<s>>, <<u>>)
            row == Details[count]
            V == Listing(a, b)
            res == AllPushed(base, row)
<1>1. s \in Token /\ u \in Token
    BY RelayWordAssumption
<1>2. row \in Seq(Seq(Item))
    BY DetailsAssumption DEF Item
<1>3. base \in V
    <2>1. <<>> \in Seq(Seq(Item))
        BY EmptySeq
    <2>. QED
        BY <2>1 DEF NewResponse, Listing
<1>4. res = AllPushed(base, row)
    OBVIOUS
<1>. HIDE DEF base, row, res, a, b
<1>5. \A r \in V, n \in 1..Len(row) : response_record_push(r, row[n]) \in V
    <2>1. \A n \in 1..Len(row) : row[n] \in Seq(Item)
        BY <1>2, ElementOfSeq
    <2>. QED
        BY <2>1, OneListed
<1>. HIDE DEF V
<1>6. res \in V
    BY <1>2, <1>3, <1>4, <1>5, AllPushedType
<1>7. res.status = a /\ res.headers = b /\ res.records \in Seq(Seq(Item))
    BY <1>6 DEF V, Listing
<1>8. BigBuf \in Nat /\ 13 < BigBuf
    BY BufAssumption
<1>9. res.status = <<s>> /\ res.headers = <<Entry(<<"uri">>, <<u>>)>>
    BY <1>7 DEF a, b
<1>10. ListText(count) = response_prepare(res, BigBuf)
    BY DEF ListText, res, base, row
<1>. HIDE DEF s, u
<1>. QED
    BY <1>1, <1>7, <1>8, <1>9, <1>10, PreparedType

-----------------------------------------------------------------------------

(* No message was too long for the agent, or had a line end within.        *)
AllCarried == \A k \in DOMAIN asked : Carried(asked[k])

(* What each of the four streams holds.                                    *)
Carrying(u, d, b, o) == up = u /\ down = d /\ back = b /\ out = o

(* Nothing is asked; a message is on its way to the agent; it was taken,   *)
(* and the answer is on its way back; the list is asked for.               *)
IdlePhase == page = "idle" /\ taken = asked /\ Carrying(<<>>, <<>>, <<>>, <<>>)
AskPhase ==
    /\ page = "message"
    /\ \E msg \in Text :
          /\ asked = Append(taken, msg)
          /\ \/ Carrying(AskText(msg), <<>>, <<>>, <<>>)
             \/ Carrying(<<>>, AskText(msg), <<>>, <<>>)
DonePhase ==
    /\ page = "message" /\ taken = asked
    /\ \/ Carrying(<<>>, <<>>, DoneText, <<>>)
       \/ Carrying(<<>>, <<>>, <<>>, DoneText)
IndexPhase ==
    /\ page = "index" /\ taken = asked
    /\ \/ Carrying(IndexText, <<>>, <<>>, <<>>)
       \/ Carrying(<<>>, <<>>, <<>>, ListText(nrows))

(* What holds while every message can be carried.                          *)
Carries ==
    /\ agent = "running" /\ server = "running" /\ taken \in Seq(Text)
    /\ answer.page = "message" => answer.text # "failed"
    /\ IdlePhase \/ AskPhase \/ DonePhase \/ IndexPhase

(* The invariant: while every message that was asked for can be carried,   *)
(* at most one of the streams holds a text, whole, and it is the one that  *)
(* the page waits for.  It needs no more of the time when one could not be *)
(* carried: no later message makes it one that could.                      *)
RelayInv ==
    /\ nrows \in DOMAIN Details
    /\ asked \in Seq(Text) /\ \A k \in DOMAIN asked : str_trim(asked[k]) = asked[k]
    /\ AllCarried => Carries

(* The last element of a sequence.                                         *)
LEMMA LastAppended ==
    ASSUME NEW S, NEW s \in Seq(S), NEW x \in S
    PROVE  /\ Append(s, x) \in Seq(S) /\ Len(Append(s, x)) = Len(s) + 1
           /\ DOMAIN Append(s, x) = 1..(Len(s) + 1) /\ DOMAIN s = 1..Len(s)
           /\ Len(s) + 1 \in DOMAIN Append(s, x) /\ Append(s, x)[Len(s) + 1] = x
           /\ \A k \in DOMAIN s : k \in DOMAIN Append(s, x) /\ Append(s, x)[k] = s[k]
<1>. DEFINE L == Len(s)
            w == Append(s, x)
<1>1. L \in Nat /\ DOMAIN s = 1..L
    BY LenProperties
<1>2. w \in Seq(S) /\ Len(w) = L + 1 /\ \A i \in 1..(L + 1) : w[i] = IF i = L + 1 THEN x ELSE s[i]
    BY AppendElements
<1>. HIDE DEF w
<1>3. DOMAIN w = 1..(L + 1)
    BY <1>2, LenProperties
<1>. HIDE DEF L
<1>4. L + 1 \in 1..(L + 1) /\ \A k \in 1..L : k \in 1..(L + 1) /\ k # L + 1
    BY <1>1
<1>. QED
    BY <1>1, <1>2, <1>3, <1>4 DEF L, w

(* A text into a stream that is empty, and all of it out of the stream.    *)
LEMMA IntoEmpty ==
    ASSUME NEW S, NEW text \in Seq(S)
    PROVE  <<>> \o text = text
OBVIOUS

(* What an action does to the history of the messages.                     *)
LEMMA AskedGrows ==
    ASSUME RelayInv, [RelayNext]_relayVars
    PROVE  /\ nrows' \in DOMAIN Details
           /\ asked' \in Seq(Text) /\ \A k \in DOMAIN asked' : str_trim(asked'[k]) = asked'[k]
           /\ AllCarried' => AllCarried
<1>1. nrows' = nrows
    BY DEF RelayNext, relayVars, page_pc_message, page_pc_index, WorkerAnswers,
           ServerReadsWorker, ServerReadsAgent, AgentReads
<1>2. asked' = asked \/ \E msg \in Payload : asked' = Append(asked, str_trim(msg))
    BY DEF RelayNext, relayVars, page_pc_message, page_pc_index, WorkerAnswers,
           ServerReadsWorker, ServerReadsAgent, AgentReads
<1>3. asked \in Seq(Text) /\ nrows \in DOMAIN Details
      /\ \A k \in DOMAIN asked : str_trim(asked[k]) = asked[k]
    BY DEF RelayInv
<1>4. CASE asked' = asked
    BY <1>1, <1>3, <1>4 DEF AllCarried
<1>5. ASSUME NEW msg \in Payload, asked' = Append(asked, str_trim(msg))
      PROVE  /\ asked' \in Seq(Text) /\ \A k \in DOMAIN asked' : str_trim(asked'[k]) = asked'[k]
             /\ AllCarried' => AllCarried
    <2>. DEFINE m == str_trim(msg)
                L == Len(asked)
    <2>1. m \in Text /\ str_trim(m) = m
        BY PayloadAssumption, AskTrims
    <2>. HIDE DEF m
    <2>2. /\ asked' \in Seq(Text) /\ DOMAIN asked' = 1..(L + 1) /\ DOMAIN asked = 1..L
          /\ asked'[L + 1] = m /\ L \in Nat
          /\ \A k \in DOMAIN asked : k \in DOMAIN asked' /\ asked'[k] = asked[k]
        BY <1>3, <1>5, <2>1, LastAppended, LenProperties DEF m
    <2>. HIDE DEF L
    <2>3. \A k \in DOMAIN asked' : k = L + 1 \/ k \in DOMAIN asked
        BY <2>2
    <2>4. \A k \in DOMAIN asked' : str_trim(asked'[k]) = asked'[k]
        BY <1>3, <2>1, <2>2, <2>3
    <2>5. AllCarried' => AllCarried
        BY <2>2 DEF AllCarried
    <2>. QED
        BY <2>2, <2>4, <2>5
<1>. QED
    BY <1>1, <1>2, <1>3, <1>4, <1>5

(* The message that is on its way is one that can be carried.              *)
LEMMA LastAsked ==
    ASSUME RelayInv, AllCarried, taken \in Seq(Text), NEW msg \in Text,
           asked = Append(taken, msg)
    PROVE  AskIsRead(AskText(msg), MessageRequest(msg), msg)
<1>. DEFINE L == Len(taken)
<1>1. L + 1 \in DOMAIN asked /\ asked[L + 1] = msg
    BY LastAppended
<1>. HIDE DEF L
<1>2. Carried(msg) /\ str_trim(msg) = msg
    BY <1>1 DEF AllCarried, RelayInv
<1>. QED
    BY <1>2, AskFacts, RoomAssumption, TableAssumption

(* A page asks for a message: the streams were empty.                      *)
LEMMA MessageCarried ==
    ASSUME RelayInv, Carries, AllCarried', NEW msg \in Payload, page_pc_message(msg)
    PROVE  Carries'
<1>. DEFINE m == str_trim(msg)
            T == AskText(m)
            L == Len(asked)
<1>1. m \in Text /\ str_trim(m) = m /\ WorkerWrites(MessageRequest(msg)) = T
    BY PayloadAssumption, AskTrims
<1>2. /\ page = "idle" /\ page' = "message" /\ asked' = Append(asked, m)
      /\ up' = up \o T
      /\ down' = down /\ back' = back /\ out' = out /\ server' = server /\ agent' = agent
      /\ answer' = answer /\ taken' = taken
    BY <1>1 DEF page_pc_message
<1>. HIDE DEF m
<1>3. IdlePhase
    BY <1>2 DEF Carries, AskPhase, DonePhase, IndexPhase
<1>4. T \in Seq(Token)
    <2>1. L + 1 \in DOMAIN asked' /\ asked'[L + 1] = m
        BY <1>1, <1>2, LastAppended DEF RelayInv
    <2>2. Carried(m)
        <3>. HIDE DEF L
        <3>. QED
            BY <2>1 DEF AllCarried
    <2>. QED
        BY <1>1, <2>2, AskFacts, RoomAssumption, TableAssumption DEF AskIsRead
<1>. HIDE DEF T
<1>5. up' = T /\ down' = <<>> /\ back' = <<>> /\ out' = <<>> /\ asked' = Append(taken', m)
    BY <1>2, <1>3, <1>4, IntoEmpty DEF IdlePhase, Carrying
<1>6. AskPhase'
    BY <1>1, <1>2, <1>5 DEF AskPhase, Carrying, T
<1>. QED
    BY <1>2, <1>6 DEF Carries

(* A page asks for the list: the streams were empty.                       *)
LEMMA IndexCarried ==
    ASSUME RelayInv, Carries, page_pc_index
    PROVE  Carries'
<1>. DEFINE T == IndexText
<1>1. /\ page = "idle" /\ page' = "index" /\ asked' = asked
      /\ up' = up \o T
      /\ down' = down /\ back' = back /\ out' = out /\ server' = server /\ agent' = agent
      /\ answer' = answer /\ taken' = taken
    BY DEF page_pc_index, IndexText, IndexUri
<1>2. IdlePhase
    BY <1>1 DEF Carries, AskPhase, DonePhase, IndexPhase
<1>3. T \in Seq(Token)
    BY IndexFacts
<1>. HIDE DEF T
<1>4. up' = T /\ down' = <<>> /\ back' = <<>> /\ out' = <<>> /\ asked' = taken'
    BY <1>1, <1>2, <1>3, IntoEmpty DEF IdlePhase, Carrying
<1>5. IndexPhase'
    BY <1>1, <1>4 DEF IndexPhase, Carrying, T
<1>. QED
    BY <1>1, <1>5 DEF Carries

(* The server reads all of a request: it writes the message for the agent  *)
(* as it was, or the list for the worker.                                  *)
LEMMA ServerCarriesOn ==
    ASSUME RelayInv, AllCarried, Carries, ServerReadsWorker
    PROVE  Carries'
<1>. DEFINE req == ParseRequest(Cut(up, ServerBuf))
            list == response_prepare(ClientAll, BigBuf)
<1>1. /\ up # <<>> /\ up' = Drained(up, ServerBuf)
      /\ back' = back /\ agent' = agent /\ nrows' = nrows /\ page' = page /\ answer' = answer
      /\ asked' = asked /\ taken' = taken
      /\ \/ /\ req.ok => req.uri # IndexUri
            /\ ~IsMessage(req, <<"id">>)
         \/ /\ req.ok /\ req.uri = IndexUri
            /\ out' = out \o list /\ down' = down /\ server' = server
         \/ IsMessage(req, <<"id">>) /\ SendMessage(req)
    BY DEF ServerReadsWorker, IndexUri
<1>2. MessageUri # IndexUri /\ (IsMessage(req, <<"id">>) => req.uri = MessageUri)
    BY DEF MessageUri, IndexUri, IsMessage
<1>3. BufAssumption
    BY BufAssumption
<1>4. agent = "running" /\ server = "running" /\ taken \in Seq(Text)
      /\ (answer.page = "message" => answer.text # "failed")
    BY DEF Carries
<1>5. list = ListText(nrows)
    BY DEF ListText, ClientAll, AllPushed
<1>. HIDE DEF req, list
<1>6. CASE AskPhase
    <2>1. PICK msg \in Text :
             asked = Append(taken, msg) /\ Carrying(AskText(msg), <<>>, <<>>, <<>>)
        BY <1>1, <1>6 DEF AskPhase, Carrying
    <2>. DEFINE T == AskText(msg)
                r == MessageRequest(msg)
    <2>2. up = T /\ down = <<>> /\ back = <<>> /\ out = <<>>
        BY <2>1 DEF Carrying
    <2>3. AskIsRead(T, r, msg)
        BY <1>4, <2>1, LastAsked
    <2>4. T = request_prepare(r, BigBuf)
        BY DEF AskText, WorkerWrites
    <2>. HIDE DEF T, r
    <2>5. Cut(T, ServerBuf) = T /\ Drained(T, ServerBuf) = <<>>
        <3>1. T \in Seq(Token) /\ Len(T) <= AgentBuf
            BY <2>3 DEF AskIsRead
        <3>2. Len(T) \in Nat
            BY <3>1, LenProperties
        <3>3. Len(T) <= ServerBuf /\ ServerBuf \in Nat
            BY <1>3, <3>1, <3>2 DEF BufAssumption
        <3>. QED
            BY <3>1, <3>3, WholeDrained
    <2>6. /\ req = r /\ r.uri = MessageUri /\ T \in Seq(Token)
          /\ IsMessage(r, <<"id">>) /\ request_param_get(r, <<"id">>) = <<"1">>
        BY <2>2, <2>3, <2>5 DEF req, AskIsRead
    <2>7. <<>> \o T = T
        BY <2>6, IntoEmpty
    <2>8. out' = out /\ server' = server /\ down' = down \o T
        <3>1. SendMessage(r)
            BY <1>1, <1>2, <2>6
        <3>. QED
            BY <1>4, <2>4, <2>6, <3>1 DEF SendMessage
    <2>9. up' = <<>> /\ down' = T /\ back' = <<>> /\ out' = <<>> /\ server' = "running"
        BY <1>1, <1>4, <2>2, <2>5, <2>7, <2>8
    <2>10. AskPhase'
        BY <1>1, <1>6, <2>1, <2>9 DEF AskPhase, Carrying, T
    <2>. QED
        BY <1>1, <1>4, <2>9, <2>10 DEF Carries
<1>7. CASE IndexPhase
    <2>. DEFINE T == IndexText
    <2>1. up = T /\ down = <<>> /\ back = <<>> /\ out = <<>>
        BY <1>1, <1>7 DEF IndexPhase, Carrying
    <2>2. T \in Seq(Token) /\ Len(T) <= ServerBuf /\ ParseRequest(T).ok
          /\ ParseRequest(T).uri = IndexUri
        BY IndexFacts
    <2>. HIDE DEF T
    <2>3. Cut(T, ServerBuf) = T /\ Drained(T, ServerBuf) = <<>>
        BY <1>3, <2>2, WholeDrained DEF BufAssumption
    <2>4. req.ok /\ req.uri = IndexUri
        BY <2>1, <2>2, <2>3 DEF req
    <2>5. <<>> \o list = list
        <3>1. list \in Seq(Token \cup {"error"})
            BY <1>5, ListFacts DEF RelayInv
        <3>. QED
            BY <3>1, IntoEmpty
    <2>6. up' = <<>> /\ down' = <<>> /\ back' = <<>> /\ out' = list /\ server' = "running"
        BY <1>1, <1>2, <1>4, <2>1, <2>3, <2>4, <2>5
    <2>8. IndexPhase'
        BY <1>1, <1>7, <1>5, <2>6 DEF IndexPhase, Carrying
    <2>. QED
        BY <1>1, <1>4, <2>6, <2>8 DEF Carries
<1>. QED
    BY <1>1, <1>6, <1>7 DEF Carries, IdlePhase, DonePhase, Carrying

(* The agent reads all of the message, takes it as it was written, and     *)
(* answers.                                                                *)
LEMMA AgentTakes ==
    ASSUME RelayInv, AllCarried, Carries, AgentReads
    PROVE  Carries'
<1>. DEFINE req == AgentParses(down)
            answers == AgentWrites(NewResponse(<<"200">>, req.uri))
<1>1. /\ down # <<>>
      /\ up' = up /\ out' = out /\ server' = server /\ page' = page /\ answer' = answer
      /\ asked' = asked
      /\ \/ ~IsMessage(req, <<"msg">>)
         \/ /\ down' = Drained(down, AgentBuf)
            /\ taken' = Append(taken, request_param_get(req, <<"msg">>))
            /\ back' = back \o answers /\ agent' = agent
    BY DEF AgentReads
<1>2. agent = "running" /\ server = "running" /\ taken \in Seq(Text)
      /\ (answer.page = "message" => answer.text # "failed")
    BY DEF Carries
<1>3. req = ParseRequest(Cut(down, AgentBuf))
    BY DEF AgentParses
<1>. HIDE DEF req, answers
<1>4. AskPhase
    BY <1>1 DEF Carries, IdlePhase, DonePhase, IndexPhase, Carrying
<1>5. PICK msg \in Text :
         asked = Append(taken, msg) /\ Carrying(<<>>, AskText(msg), <<>>, <<>>)
    BY <1>1, <1>4 DEF AskPhase, Carrying
<1>. DEFINE T == AskText(msg)
            r == MessageRequest(msg)
<1>6. down = T /\ up = <<>> /\ back = <<>> /\ out = <<>>
    BY <1>5 DEF Carrying
<1>7. AskIsRead(T, r, msg)
    BY <1>2, <1>5, LastAsked
<1>. HIDE DEF T, r
<1>8. Cut(T, AgentBuf) = T /\ Drained(T, AgentBuf) = <<>>
    <2>1. T \in Seq(Token) /\ Len(T) <= AgentBuf /\ AgentBuf \in Nat
        BY <1>7, BufAssumption DEF AskIsRead
    <2>. QED
        BY <2>1, WholeDrained
<1>9. /\ req = r /\ r.uri = MessageUri /\ IsMessage(r, <<"msg">>)
      /\ request_param_get(r, <<"msg">>) = msg
    BY <1>3, <1>6, <1>7, <1>8 DEF AskIsRead
<1>10. answers = DoneText
    BY <1>9 DEF answers, DoneText
<1>11. <<>> \o DoneText = DoneText
    BY DoneFacts, IntoEmpty
<1>12. /\ down' = <<>> /\ taken' = Append(taken, msg) /\ back' = DoneText
       /\ agent' = "running" /\ up' = <<>> /\ out' = <<>>
    BY <1>1, <1>2, <1>6, <1>8, <1>9, <1>10, <1>11
<1>13. DonePhase'
    BY <1>1, <1>4, <1>5, <1>12 DEF DonePhase, AskPhase, Carrying
<1>14. taken' \in Seq(Text)
    BY <1>2, <1>12
<1>. QED
    BY <1>1, <1>2, <1>12, <1>13, <1>14 DEF Carries

(* The server reads all of the answer, and writes it for the worker as it  *)
(* was.                                                                    *)
LEMMA ServerAnswers ==
    ASSUME RelayInv, Carries, ServerReadsAgent
    PROVE  Carries'
<1>. DEFINE res == ParseResponse(Cut(back, ServerBuf))
<1>1. /\ up' = up /\ down' = down /\ server' = server /\ page' = page /\ answer' = answer
      /\ asked' = asked /\ taken' = taken
      /\ \/ /\ back # <<>>
            /\ out' = IF res.ok THEN out \o response_prepare(res, BigBuf) ELSE out
            /\ back' = Drained(back, ServerBuf)
            /\ agent' = agent
         \/ agent = "exited"
    BY DEF ServerReadsAgent
<1>2. agent = "running" /\ server = "running" /\ taken \in Seq(Text)
      /\ (answer.page = "message" => answer.text # "failed")
    BY DEF Carries
<1>. HIDE DEF res
<1>3. back # <<>>
    BY <1>1, <1>2
<1>4. DonePhase
    BY <1>3 DEF Carries, IdlePhase, AskPhase, IndexPhase, Carrying
<1>. DEFINE T == DoneText
<1>5. back = T /\ up = <<>> /\ down = <<>> /\ out = <<>>
    BY <1>3, <1>4 DEF DonePhase, Carrying
<1>6. /\ T \in Seq(Token) /\ Len(T) <= ServerBuf
      /\ ParseResponse(T).ok /\ response_prepare(ParseResponse(T), BigBuf) = T
    BY DoneFacts
<1>. HIDE DEF T
<1>7. Cut(T, ServerBuf) = T /\ Drained(T, ServerBuf) = <<>>
    BY <1>6, BufAssumption, WholeDrained
<1>8. res.ok /\ response_prepare(res, BigBuf) = T
    BY <1>5, <1>6, <1>7 DEF res
<1>9. <<>> \o T = T
    BY <1>6, IntoEmpty
<1>10. /\ out' = T /\ back' = <<>> /\ up' = <<>> /\ down' = <<>> /\ agent' = "running"
    BY <1>1, <1>2, <1>5, <1>7, <1>8, <1>9
<1>11. DonePhase'
    BY <1>1, <1>4, <1>10 DEF DonePhase, Carrying, T
<1>. QED
    BY <1>1, <1>2, <1>10, <1>11 DEF Carries

(* The worker reads all of the answer, in which there is no failure.       *)
LEMMA AnswerIsTaken ==
    ASSUME RelayInv, Carries, WorkerAnswers
    PROVE  Carries'
<1>. DEFINE res == WorkerParses(out)
            won == [Says(page, "success") EXCEPT !.rows = res.records]
            lost == Says(page, "failed")
<1>1. /\ page # "idle" /\ page' = "idle"
      /\ up' = up /\ down' = down /\ back' = back /\ server' = server /\ agent' = agent
      /\ asked' = asked /\ taken' = taken
      /\ \/ /\ out # <<>>
            /\ answer' = IF ~res.ok \/ res.status = <<"400">> THEN lost ELSE won
            /\ out' = Drained(out, BigBuf)
         \/ server = "exited"
    BY DEF WorkerAnswers
<1>2. agent = "running" /\ server = "running" /\ taken \in Seq(Text)
    BY DEF Carries
<1>3. res = ParseResponse(Cut(out, BigBuf))
    BY DEF WorkerParses
<1>4. lost.page = page /\ won.page = page /\ won.text = "success"
    BY DEF Says
<1>. HIDE DEF res, won, lost
<1>5. out # <<>>
    BY <1>1, <1>2
<1>6. CASE DonePhase
    <2>. DEFINE T == DoneText
    <2>1. out = T /\ up = <<>> /\ down = <<>> /\ back = <<>> /\ taken = asked
        BY <1>5, <1>6 DEF DonePhase, Carrying
    <2>2. /\ T \in Seq(Token) /\ Len(T) <= ServerBuf
          /\ ParseResponse(T).ok /\ ParseResponse(T).status # <<"400">>
        BY DoneFacts
    <2>. HIDE DEF T
    <2>3. Cut(T, BigBuf) = T /\ Drained(T, BigBuf) = <<>>
        <3>1. Len(T) \in Nat
            BY <2>2, LenProperties
        <3>2. Len(T) <= BigBuf /\ BigBuf \in Nat
            BY <2>2, <3>1, BufAssumption
        <3>. QED
            BY <2>2, <3>2, WholeDrained
    <2>4. res.ok /\ res.status # <<"400">>
        BY <1>3, <2>1, <2>2, <2>3
    <2>5. answer' = won /\ out' = <<>>
        BY <1>1, <1>5, <1>2, <2>1, <2>3, <2>4
    <2>6. IdlePhase'
        BY <1>1, <2>1, <2>5 DEF IdlePhase, Carrying
    <2>. QED
        BY <1>1, <1>2, <1>4, <2>5, <2>6 DEF Carries
<1>7. CASE IndexPhase
    <2>. DEFINE T == ListText(nrows)
    <2>1. out = T /\ up = <<>> /\ down = <<>> /\ back = <<>> /\ taken = asked /\ page = "index"
        BY <1>5, <1>7 DEF IndexPhase, Carrying
    <2>2. T \in Seq(Token \cup {"error"}) /\ Len(T) <= BigBuf
        BY ListFacts DEF RelayInv
    <2>. HIDE DEF T
    <2>3. Drained(T, BigBuf) = <<>>
        BY <2>2, BufAssumption, WholeDrained
    <2>4. answer' \in {won, lost} /\ out' = <<>>
        BY <1>1, <1>2, <2>1, <2>3
    <2>5. IdlePhase'
        BY <1>1, <2>1, <2>4 DEF IdlePhase, Carrying
    <2>. QED
        BY <1>1, <1>2, <1>4, <2>1, <2>4, <2>5 DEF Carries
<1>. QED
    BY <1>1, <1>5, <1>6, <1>7 DEF Carries, IdlePhase, AskPhase, Carrying

(* The beginning of a sequence.                                            *)
LEMMA PrefixOfAppended ==
    ASSUME NEW S, NEW s \in Seq(S), NEW x \in S
    PROVE  IsPrefix(s, Append(s, x)) /\ IsPrefix(s, s)
<1>. DEFINE J == Len(s)
            w == Append(s, x)
            c == SubSeq(w, 1, J)
<1>1. /\ J \in Nat /\ w \in Seq(S) /\ Len(w) = J + 1
      /\ \A i \in 1..(J + 1) : w[i] = IF i = J + 1 THEN x ELSE s[i]
    BY LenProperties, AppendElements
<1>. HIDE DEF w
<1>2. \A i \in 1..J : w[i] = s[i] /\ w[i] \in S
    <2>1. \A i \in 1..J : i \in 1..(J + 1) /\ i # J + 1
        <3>. HIDE DEF J
        <3>. QED
            BY <1>1
    <2>2. \A i \in 1..J : s[i] \in S
        BY ElementOfSeq
    <2>. HIDE DEF J
    <2>. QED
        BY <1>1, <2>1, <2>2
<1>3. c \in Seq(S) /\ Len(c) = J
    BY <1>1, Beginnings
<1>4. \A i \in 1..(J - 1 + 1) : c[i] = w[1 + i - 1]
    BY <1>1, <1>2, SubSeqProperties
<1>5. \A i \in 1..J : c[i] = s[i]
    BY <1>1, <1>2, <1>4
<1>. HIDE DEF c
<1>6. s = c
    BY <1>3, <1>5, SeqEqual
<1>7. SubSeq(s, 1, J) = s
    BY Beginnings
<1>8. J <= Len(w) /\ J <= J
    BY <1>1
<1>. QED
    BY <1>6, <1>7, <1>8 DEF IsPrefix, c, w

(* The streams that hold something.                                        *)
FilledStreams(a, b, c, d) == {k \in 1..4 : <<a, b, c, d>>[k] # <<>>}

(* There are none of them, or there is one.                                *)
LEMMA OneFilled ==
    ASSUME NEW a, a # <<>>
    PROVE  /\ Cardinality(FilledStreams(<<>>, <<>>, <<>>, <<>>)) = 0
           /\ Cardinality(FilledStreams(a, <<>>, <<>>, <<>>)) = 1
           /\ Cardinality(FilledStreams(<<>>, a, <<>>, <<>>)) = 1
           /\ Cardinality(FilledStreams(<<>>, <<>>, a, <<>>)) = 1
           /\ Cardinality(FilledStreams(<<>>, <<>>, <<>>, a)) = 1
<1>. DEFINE e == <<>>
            F(p, q, r, s) == {k \in 1..4 : <<p, q, r, s>>[k] # e}
<1>1. \A p, q, r, s : /\ <<p, q, r, s>>[1] = p /\ <<p, q, r, s>>[2] = q
                      /\ <<p, q, r, s>>[3] = r /\ <<p, q, r, s>>[4] = s
    OBVIOUS
<1>2. a # e
    OBVIOUS
<1>3. 1..4 = {1, 2, 3, 4}
    OBVIOUS
<1>. HIDE DEF e
<1>4. F(e, e, e, e) = {}
    BY <1>1, <1>3
<1>5. F(a, e, e, e) = {1}
    BY <1>1, <1>2, <1>3
<1>6. F(e, a, e, e) = {2}
    BY <1>1, <1>2, <1>3
<1>7. F(e, e, a, e) = {3}
    BY <1>1, <1>2, <1>3
<1>8. F(e, e, e, a) = {4}
    BY <1>1, <1>2, <1>3
<1>. HIDE DEF F
<1>9. Cardinality({}) = 0 /\ \A x : Cardinality({x}) = 1
    BY FS_EmptySet, FS_Singleton
<1>10. \A p, q, r, s : FilledStreams(p, q, r, s) = F(p, q, r, s)
    BY DEF FilledStreams, F, e
<1>. QED
    BY <1>4, <1>5, <1>6, <1>7, <1>8, <1>9, <1>10 DEF e

(* What the invariant says of the messages.                                *)
LEMMA RelayInvArrives == RelayInv => MessagesArriveWhole
<1>. SUFFICES ASSUME RelayInv, AllCarried
              PROVE  /\ agent = "running" /\ IsPrefix(taken, asked)
                     /\ page = "idle" => taken = asked
                     /\ page = "idle" /\ answer.page = "message" => answer.text # "failed"
    BY DEF MessagesArriveWhole, AllCarried
<1>1. Carries /\ asked \in Seq(Text)
    BY DEF RelayInv
<1>2. IsPrefix(taken, asked)
    <2>1. CASE taken = asked
        <3>1. <<>> \in Text
            BY EmptySeq DEF Text
        <3>. QED
            BY <1>1, <2>1, <3>1, PrefixOfAppended
    <2>2. CASE \E msg \in Text : asked = Append(taken, msg)
        BY <1>1, <2>2, PrefixOfAppended DEF Carries
    <2>. QED
        BY <1>1, <2>1, <2>2 DEF Carries, IdlePhase, AskPhase, DonePhase, IndexPhase
<1>. QED
    BY <1>1, <1>2 DEF Carries, IdlePhase, AskPhase, DonePhase, IndexPhase

(* What the invariant says of the streams.                                 *)
LEMMA RelayInvUnderWay == RelayInv => AnswerIsUnderWay
<1>. DEFINE n == Cardinality(FilledStreams(up, down, back, out))
<1>. SUFFICES ASSUME RelayInv, AllCarried
              PROVE  n = IF page = "idle" THEN 0 ELSE 1
    BY DEF AnswerIsUnderWay, AllCarried, FilledStreams
<1>1. Carries /\ taken \in Seq(Text) /\ nrows \in DOMAIN Details
    BY DEF RelayInv, Carries
<1>. HIDE DEF n
<1>2. CASE IdlePhase
    <2>1. <<1>> # <<>>
        OBVIOUS
    <2>2. up = <<>> /\ down = <<>> /\ back = <<>> /\ out = <<>> /\ page = "idle"
        BY <1>2 DEF IdlePhase, Carrying
    <2>. QED
        BY <2>1, <2>2, OneFilled DEF n
<1>3. CASE AskPhase
    <2>1. PICK msg \in Text :
             /\ asked = Append(taken, msg)
             /\ \/ Carrying(AskText(msg), <<>>, <<>>, <<>>)
                \/ Carrying(<<>>, AskText(msg), <<>>, <<>>)
        BY <1>3 DEF AskPhase
    <2>. DEFINE T == AskText(msg)
    <2>2. T # <<>>
        BY <1>1, <2>1, LastAsked DEF AskIsRead
    <2>. HIDE DEF T
    <2>3. \/ up = T /\ down = <<>> /\ back = <<>> /\ out = <<>>
          \/ up = <<>> /\ down = T /\ back = <<>> /\ out = <<>>
        BY <2>1 DEF Carrying, T
    <2>4. n = 1
        BY <2>2, <2>3, OneFilled DEF n
    <2>. QED
        BY <1>3, <2>4 DEF AskPhase
<1>4. CASE DonePhase
    <2>. DEFINE T == DoneText
    <2>1. \/ up = <<>> /\ down = <<>> /\ back = T /\ out = <<>>
          \/ up = <<>> /\ down = <<>> /\ back = <<>> /\ out = T
        BY <1>4 DEF DonePhase, Carrying
    <2>2. T # <<>>
        BY DoneFacts
    <2>. HIDE DEF T
    <2>3. n = 1
        BY <2>1, <2>2, OneFilled DEF n
    <2>. QED
        BY <1>4, <2>3 DEF DonePhase
<1>5. CASE IndexPhase
    <2>. DEFINE T == IndexText
                L == ListText(nrows)
    <2>1. \/ up = T /\ down = <<>> /\ back = <<>> /\ out = <<>>
          \/ up = <<>> /\ down = <<>> /\ back = <<>> /\ out = L
        BY <1>5 DEF IndexPhase, Carrying
    <2>2. T # <<>> /\ L # <<>>
        BY <1>1, IndexFacts, ListFacts
    <2>. HIDE DEF T, L
    <2>3. n = 1
        BY <2>1, <2>2, OneFilled DEF n
    <2>. QED
        BY <1>5, <2>3 DEF IndexPhase
<1>. QED
    BY <1>1, <1>2, <1>3, <1>4, <1>5 DEF Carries

-----------------------------------------------------------------------------
(* The invariant of the relay, for buffers, payloads and lists of any size *)
(* that the assumptions allow: while every message can be carried, the     *)
(* server's loop, the agent's and the worker each find one whole text in   *)
(* what they read, and nobody ends.                                        *)
THEOREM RelayInvariance == RelaySafe => []RelayInv
<1>1. RelayInit => RelayInv
    <2>. SUFFICES ASSUME RelayInit PROVE RelayInv
        OBVIOUS
    <2>1. /\ up = <<>> /\ down = <<>> /\ back = <<>> /\ out = <<>>
          /\ server = "running" /\ agent = "running" /\ nrows \in DOMAIN Details
          /\ page = "idle" /\ answer.page = "idle" /\ asked = <<>> /\ taken = <<>>
        BY DEF RelayInit, Says
    <2>2. <<>> \in Seq(Text) /\ DOMAIN <<>> = {}
        BY EmptySeq
    <2>3. IdlePhase
        BY <2>1 DEF IdlePhase, Carrying
    <2>. QED
        BY <2>1, <2>2, <2>3 DEF RelayInv, Carries
<1>2. RelayInv /\ [RelayNext]_relayVars => RelayInv'
    <2>. SUFFICES ASSUME RelayInv, [RelayNext]_relayVars PROVE RelayInv'
        OBVIOUS
    <2>1. /\ nrows' \in DOMAIN Details
          /\ asked' \in Seq(Text) /\ \A k \in DOMAIN asked' : str_trim(asked'[k]) = asked'[k]
          /\ AllCarried' => AllCarried
        BY AskedGrows
    <2>2. ASSUME AllCarried' PROVE Carries'
        <3>1. AllCarried /\ Carries
            BY <2>1, <2>2 DEF RelayInv
        <3>2. ASSUME NEW msg \in Payload, page_pc_message(msg) PROVE Carries'
            BY <2>2, <3>1, <3>2, MessageCarried
        <3>3. CASE page_pc_index
            BY <3>1, <3>3, IndexCarried
        <3>4. CASE WorkerAnswers
            BY <3>1, <3>4, AnswerIsTaken
        <3>5. CASE ServerReadsWorker
            BY <3>1, <3>5, ServerCarriesOn
        <3>6. CASE ServerReadsAgent
            BY <3>1, <3>6, ServerAnswers
        <3>7. CASE AgentReads
            BY <3>1, <3>7, AgentTakes
        <3>8. CASE UNCHANGED relayVars
            BY <3>1, <3>8 DEF relayVars, Carries, IdlePhase, AskPhase, DonePhase, IndexPhase,
                              Carrying
        <3>. QED
            BY <3>2, <3>3, <3>4, <3>5, <3>6, <3>7, <3>8 DEF RelayNext
    <2>. QED
        BY <2>1, <2>2 DEF RelayInv
<1>. QED
    BY <1>1, <1>2, PTL DEF RelaySafe

(* Messages that fit in the agent's buffer and hold no line end are handed *)
(* to the agent's ecafe_request_message as they were written, in their     *)
(* order, and the page is told that they were: request_prepare,            *)
(* request_parse, response_prepare and response_parse of three programs,   *)
(* one after the other.  What the shell of the PC makes of such a text is  *)
(* not said.                                                               *)
THEOREM MessagesAreCarried == RelaySafe => []MessagesArriveWhole
BY RelayInvariance, RelayInvArrives, PTL

(* As long as they do, a page that waits has its request or the answer to  *)
(* it on its way in one of the streams, and the others are empty: no read  *)
(* finds two texts, or leaves a part of one behind.                        *)
THEOREM AnswersAreUnderWay == RelaySafe => []AnswerIsUnderWay
BY RelayInvariance, RelayInvUnderWay, PTL
=============================================================================
