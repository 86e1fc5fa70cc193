------------------------- MODULE MessageTablesProofs -------------------------
(***************************************************************************)
(* Proofs about what programs write into texts and read from them, for any *)
(* keys, values and sizes.                                                 *)
(*                                                                         *)
(* Requests: what request_prepare writes is read by request_parse as the   *)
(* request it was written for, and the lookups return what was set last.   *)
(* The texts are of any length, so that Lines, Spelled, Without and        *)
(* Extract are first shown to be what their folds do one step after the    *)
(* other; the induction is the well-foundedness of < on the naturals.      *)
(*                                                                         *)
(* Responses: what response_prepare writes, or cuts, is read by            *)
(* response_parse as the first of the records, whole, or as an error.      *)
(***************************************************************************)
EXTENDS LinkedListProofs, MessageTables, FiniteSetTheorems

(* The largest of the positions up to n is n, and without it they are      *)
(* those up to n - 1.                                                      *)
LEMMA UpToSet ==
    ASSUME NEW n \in Nat \ {0}
    PROVE  Max(1..n) = n /\ (1..n) \ {n} = 1..(n - 1) /\ 1..n # {}
<1>1. n \in 1..n /\ \A y \in 1..n : n >= y
    OBVIOUS
<1>2. \A x \in 1..n : (\A y \in 1..n : x >= y) => x = n
    BY <1>1
<1>3. Max(1..n) = n
    BY <1>1, <1>2 DEF Max
<1>. QED
    BY <1>1, <1>3

(* Every set of positions that is not empty has its largest element.       *)
LEMMA LastOne ==
    ASSUME NEW N \in Nat, NEW T \in SUBSET (1..N), T # {}
    PROVE  \E n \in T : \A m \in T : m <= n
<1>. DEFINE S == {N - n : n \in T}
<1>1. S \subseteq Nat /\ S # {}
    <2>1. \A n \in T : N - n \in Nat
        OBVIOUS
    <2>2. PICK t \in T : TRUE
        OBVIOUS
    <2>3. N - t \in S
        BY <2>2
    <2>. QED
        BY <2>1, <2>3
<1>2. PICK s \in S : \A m \in S : s <= m
    <2>. HIDE DEF S
    <2>. QED
        BY <1>1, LeastNat
<1>3. PICK n \in T : s = N - n
    OBVIOUS
<1>4. ASSUME NEW m \in T PROVE m <= n
    <2>1. N - m \in S
        OBVIOUS
    <2>2. N - n <= N - m
        BY <1>2, <1>3, <2>1
    <2>. QED
        BY <2>2
<1>. QED
    BY <1>4

LEMMA LargestOf ==
    ASSUME NEW N \in Nat, NEW T \in SUBSET (1..N), T # {}
    PROVE  Max(T) \in 1..N /\ Max(T) \in T
<1>1. PICK n \in T : \A m \in T : m <= n
    BY LastOne
<1>2. n \in T /\ \A m \in T : n >= m
    BY <1>1
<1>3. Max(T) \in T
    BY <1>2 DEF Max
<1>. QED
    BY <1>3

(* A function that is defined by recursion over the sets of positions, as  *)
(* the folds of the community modules are.                                 *)
Recurs(f, base, F, N) ==
    \A T \in SUBSET (1..N) : f[T] = IF T = {} THEN base ELSE F[<<Max(T), f[T \ {Max(T)}]>>]

(* There is such a function: the sets of positions that have one are       *)
(* closed under one more position, by the well-foundedness of < on the     *)
(* naturals.                                                               *)
LEMMA RecursionExists ==
    ASSUME NEW V, NEW base \in V, NEW N \in Nat, NEW F \in [(1..N) \X V -> V]
    PROVE  \E f \in [SUBSET (1..N) -> V] : Recurs(f, base, F, N)
<1>. DEFINE P == {m \in Nat : \E f \in [SUBSET (1..m) -> V] : Recurs(f, base, F, m)}
<1>1. 0 \in P
    <2>. DEFINE f == [T \in SUBSET (1..0) |-> base]
    <2>1. \A T \in SUBSET (1..0) : T = {}
        OBVIOUS
    <2>2. f \in [SUBSET (1..0) -> V] /\ Recurs(f, base, F, 0)
        BY <2>1 DEF Recurs
    <2>. QED
        BY <2>2
<1>2. ASSUME NEW m \in 0..(N - 1), m \in P PROVE m + 1 \in P
    <2>1. PICK f \in [SUBSET (1..m) -> V] : Recurs(f, base, F, m)
        BY <1>2
    <2>. DEFINE h == [T \in SUBSET (1..(m + 1)) |->
                        IF m + 1 \notin T THEN f[T] ELSE F[<<m + 1, f[T \ {m + 1}]>>]]
    <2>2. m + 1 \in 1..N /\ m \in Nat
        BY <1>2
    <2>3. ASSUME NEW T \in SUBSET (1..(m + 1)) PROVE h[T] \in V
        <3>1. CASE m + 1 \notin T
            <4>1. T \in SUBSET (1..m)
                BY <2>2, <3>1
            <4>. QED
                BY <3>1, <4>1
        <3>2. CASE m + 1 \in T
            <4>1. T \ {m + 1} \in SUBSET (1..m)
                BY <2>2
            <4>2. f[T \ {m + 1}] \in V
                BY <4>1
            <4>. QED
                BY <2>2, <3>2, <4>2
        <3>. QED
            BY <3>1, <3>2
    <2>4. ASSUME NEW T \in SUBSET (1..(m + 1))
          PROVE  h[T] = IF T = {} THEN base ELSE F[<<Max(T), h[T \ {Max(T)}]>>]
        <3>1. CASE m + 1 \in T
            <4>1. Max(T) = m + 1
                <5>1. \A y \in T : m + 1 >= y
                    BY <2>2
                <5>2. \A x \in T : (\A y \in T : x >= y) => x = m + 1
                    BY <2>2, <3>1
                <5>. QED
                    BY <3>1, <5>1, <5>2 DEF Max
            <4>2. T \ {m + 1} \in SUBSET (1..(m + 1)) /\ m + 1 \notin T \ {m + 1}
                OBVIOUS
            <4>3. h[T \ {m + 1}] = f[T \ {m + 1}]
                BY <4>2
            <4>4. h[T] = F[<<m + 1, f[T \ {m + 1}]>>]
                BY <3>1
            <4>. HIDE DEF h
            <4>. QED
                BY <3>1, <4>1, <4>3, <4>4
        <3>2. CASE m + 1 \notin T
            <4>1. T \in SUBSET (1..m)
                BY <2>2, <3>2
            <4>2. h[T] = f[T]
                BY <3>2
            <4>. DEFINE U == T \ {Max(T)}
            <4>3. U \in SUBSET (1..(m + 1)) /\ U \in SUBSET (1..m) /\ m + 1 \notin U
                BY <3>2, <4>1
            <4>4. h[U] = f[U]
                BY <4>3
            <4>5. f[T] = IF T = {} THEN base ELSE F[<<Max(T), f[U]>>]
                BY <2>1, <4>1 DEF Recurs
            <4>. HIDE DEF h
            <4>. QED
                BY <4>2, <4>4, <4>5
        <3>. QED
            BY <3>1, <3>2
    <2>5. h \in [SUBSET (1..(m + 1)) -> V]
        <3>1. h = [T \in SUBSET (1..(m + 1)) |-> h[T]]
            OBVIOUS
        <3>. HIDE DEF h
        <3>. QED
            BY <2>3, <3>1
    <2>. HIDE DEF h
    <2>6. Recurs(h, base, F, m + 1)
        BY <2>4 DEF Recurs
    <2>7. m + 1 \in Nat
        BY <2>2
    <2>. QED
        BY <2>5, <2>6, <2>7
<1>. HIDE DEF P
<1>3. N \in P
    BY <1>1, <1>2, UpTo
<1>. QED
    BY <1>3 DEF P

(* Such a function, along the sets 1..n.                                   *)
Runs(k, base, F, N) ==
    /\ k[0] = base
    /\ \A n \in 1..N : k[n] = F[<<n, k[n - 1]>>]

(* Likewise the values along the positions, one from the one before it.    *)
LEMMA RunExists ==
    ASSUME NEW V, NEW base \in V, NEW N \in Nat, NEW F \in [(1..N) \X V -> V]
    PROVE  \E k \in [0..N -> V] : Runs(k, base, F, N)
<1>1. PICK f \in [SUBSET (1..N) -> V] : Recurs(f, base, F, N)
    BY RecursionExists
<1>. DEFINE k == [n \in 0..N |-> f[1..n]]
<1>2. \A n \in 0..N : (1..n) \in SUBSET (1..N)
    OBVIOUS
<1>3. k \in [0..N -> V]
    BY <1>2
<1>4. k[0] = base
    <2>1. 1..0 = {} /\ {} \in SUBSET (1..N) /\ 0 \in 0..N
        OBVIOUS
    <2>. QED
        BY <1>1, <2>1 DEF Recurs
<1>5. ASSUME NEW n \in 1..N PROVE k[n] = F[<<n, k[n - 1]>>]
    <2>1. n \in Nat \ {0} /\ n \in 0..N /\ n - 1 \in 0..N
        OBVIOUS
    <2>2. f[1..n] = F[<<n, f[1..(n - 1)]>>]
        BY <1>1, <1>2, <2>1, UpToSet DEF Recurs
    <2>. QED
        BY <2>1, <2>2
<1>. HIDE DEF k
<1>. QED
    BY <1>3, <1>4, <1>5 DEF Runs

(* The lines of a text.  One more token of the text: it ends the last line *)
(* or belongs to it.                                                       *)
OneMore(ls, t) == IF t = LF THEN Append(ls, <<>>) ELSE [ls EXCEPT ![Len(ls)] = Append(@, t)]

(* The lines of the beginnings of a text.                                  *)
LinesRun(k, text) ==
    /\ k[0] = <<(<<>>)>>
    /\ \A n \in 1..Len(text) : k[n] = OneMore(k[n - 1], text[n])

(* One more token of a text leaves at least one line.                      *)
LEMMA OneMoreType ==
    ASSUME NEW S, NEW ls \in Seq(Seq(S)) \ {<<>>}, NEW t \in S
    PROVE  OneMore(ls, t) \in Seq(Seq(S)) \ {<<>>}
<1>1. Len(ls) \in Nat /\ Len(ls) # 0 /\ Len(ls) \in 1..Len(ls) /\ DOMAIN ls = 1..Len(ls)
    BY LenProperties, EmptySeq
<1>2. ls \in [1..Len(ls) -> Seq(S)] /\ ls[Len(ls)] \in Seq(S)
    BY <1>1, ElementOfSeq, LenProperties
<1>3. CASE t = LF
    <2>1. <<>> \in Seq(S)
        BY EmptySeq
    <2>2. Append(ls, <<>>) \in Seq(Seq(S)) /\ Len(Append(ls, <<>>)) = Len(ls) + 1
        BY <2>1, AppendProperties
    <2>3. Append(ls, <<>>) # <<>>
        BY <1>1, <2>2, EmptySeq
    <2>. QED
        BY <1>3, <2>2, <2>3 DEF OneMore
<1>4. CASE t # LF
    <2>. DEFINE u == Append(ls[Len(ls)], t)
                w == [ls EXCEPT ![Len(ls)] = u]
    <2>1. u \in Seq(S)
        BY <1>2, AppendProperties
    <2>. HIDE DEF u
    <2>2. w \in [1..Len(ls) -> Seq(S)]
        BY <1>2, <2>1
    <2>3. w \in Seq(Seq(S)) /\ Len(w) = Len(ls)
        BY <1>1, <2>2, IsASeq, LenProperties
    <2>4. OneMore(ls, t) = w
        BY <1>4 DEF OneMore, u
    <2>. HIDE DEF w
    <2>. QED
        BY <1>1, <2>3, <2>4, EmptySeq
<1>. QED
    BY <1>3, <1>4

(* Lines, as str_split and the readers see a text, goes over it token by   *)
(* token.                                                                  *)
LEMMA LinesAre ==
    ASSUME NEW S, NEW text \in Seq(S)
    PROVE  \E k : LinesRun(k, text) /\ Lines(text) = k[Len(text)]
<1>. DEFINE N == Len(text)
            V == Seq(Seq(S)) \ {<<>>}
            base == <<(<<>>)>>
            F == [p \in (1..N) \X V |-> OneMore(p[2], text[p[1]])]
            G(f) == f = [T \in SUBSET (DOMAIN text) |->
                           IF T = {} THEN <<(<<>>)>>
                           ELSE IF text[Max(T)] = LF THEN Append(f[T \ {Max(T)}], <<>>)
                                ELSE [f[T \ {Max(T)}] EXCEPT ![Len(f[T \ {Max(T)}])] =
                                        Append(@, text[Max(T)])]]
            g == CHOOSE f : G(f)
<1>1. N \in Nat /\ DOMAIN text = 1..N /\ \A n \in 1..N : text[n] \in S
    BY LenProperties, ElementOfSeq
<1>2. Lines(text) = g[DOMAIN text]
    BY Zenon DEF Lines, FoldLeft, MapThenFoldSet
<1>3. base \in V
    <2>1. <<>> \in Seq(S)
        BY EmptySeq
    <2>2. base \in Seq(Seq(S)) /\ Len(base) = 1
        BY <2>1
    <2>3. base # <<>>
        BY <2>2, EmptySeq
    <2>. QED
        BY <2>2, <2>3
<1>. HIDE DEF g
<1>4. F \in [(1..N) \X V -> V]
    BY <1>1, OneMoreType
<1>. HIDE DEF V, base
<1>5. \E f : G(f)
    <2>1. PICK f \in [SUBSET (1..N) -> V] : Recurs(f, base, F, N)
        BY <1>1, <1>3, <1>4, RecursionExists
    <2>2. ASSUME NEW T \in SUBSET (1..N)
          PROVE  f[T] = IF T = {} THEN base ELSE OneMore(f[T \ {Max(T)}], text[Max(T)])
        <3>1. CASE T # {}
            <4>1. Max(T) \in 1..N
                BY <1>1, <3>1, LargestOf
            <4>2. f[T \ {Max(T)}] \in V
                OBVIOUS
            <4>. QED
                BY <2>1, <3>1, <4>1, <4>2 DEF Recurs
        <3>2. CASE T = {}
            BY <2>1, <3>2 DEF Recurs
        <3>. QED
            BY <3>1, <3>2
    <2>3. f = [T \in SUBSET (1..N) |-> f[T]]
        OBVIOUS
    <2>4. G(f)
        BY <1>1, <2>2, <2>3, Zenon DEF OneMore, base
    <2>. QED
        BY <2>4
<1>6. G(g)
    <2>. HIDE DEF G
    <2>. QED
        BY <1>5 DEF g
<1>7. \A T \in SUBSET (1..N) :
        g[T] = IF T = {} THEN <<(<<>>)>> ELSE OneMore(g[T \ {Max(T)}], text[Max(T)])
    <2>. HIDE DEF g
    <2>. QED
        BY <1>1, <1>6, Zenon DEF OneMore
<1>. DEFINE k == [n \in 0..N |-> g[1..n]]
<1>8. k[0] = <<(<<>>)>>
    <2>1. 1..0 = {} /\ {} \in SUBSET (1..N) /\ 0 \in 0..N
        BY <1>1
    <2>. QED
        BY <1>7, <2>1
<1>9. ASSUME NEW n \in 1..N PROVE k[n] = OneMore(k[n - 1], text[n])
    <2>1. n \in Nat \ {0} /\ n \in 0..N /\ n - 1 \in 0..N /\ (1..n) \in SUBSET (1..N)
        BY <1>1
    <2>2. g[1..n] = OneMore(g[1..(n - 1)], text[n])
        BY <1>7, <2>1, UpToSet
    <2>. QED
        BY <2>1, <2>2
<1>10. Lines(text) = k[N]
    BY <1>1, <1>2
<1>. HIDE DEF k
<1>. QED
    BY <1>8, <1>9, <1>10 DEF LinesRun

(* Beginnings of a sequence.                                               *)
LEMMA Beginnings ==
    ASSUME NEW S, NEW s \in Seq(S)
    PROVE  /\ SubSeq(s, 1, 0) = <<>> /\ SubSeq(s, 1, Len(s)) = s
           /\ \A n \in 0..Len(s) : SubSeq(s, 1, n) \in Seq(S) /\ Len(SubSeq(s, 1, n)) = n
           /\ \A n \in 0..(Len(s) - 1) : SubSeq(s, 1, n + 1) = Append(SubSeq(s, 1, n), s[n + 1])
<1>. DEFINE B(n) == SubSeq(s, 1, n)
<1>1. Len(s) \in Nat /\ \A n \in 1..Len(s) : s[n] \in S
    BY LenProperties, ElementOfSeq
<1>2. ASSUME NEW n \in 0..Len(s)
      PROVE  B(n) \in Seq(S) /\ Len(B(n)) = n /\ \A i \in 1..n : B(n)[i] = s[i]
    <2>. DEFINE j == n + 1
    <2>1. j \in 1..(Len(s) + 1) /\ j - 1 = n
        BY <1>1
    <2>. HIDE DEF j
    <2>. QED
        BY <2>1, SplitAt
<1>. HIDE DEF B
<1>3. B(0) = <<>>
    <2>1. 0 \in 0..Len(s)
        BY <1>1
    <2>2. B(0) \in Seq(S) /\ Len(B(0)) = 0
        BY <1>2, <2>1
    <2>. QED
        BY <2>2, EmptySeq
<1>4. B(Len(s)) = s
    <2>1. Len(s) \in 0..Len(s)
        BY <1>1
    <2>2. B(Len(s)) \in Seq(S) /\ Len(B(Len(s))) = Len(s)
          /\ \A i \in 1..Len(s) : B(Len(s))[i] = s[i]
        BY <1>2, <2>1
    <2>. QED
        BY <2>2, SeqEqual
<1>5. ASSUME NEW n \in 0..(Len(s) - 1) PROVE B(n + 1) = Append(B(n), s[n + 1])
    <2>1. n \in 0..Len(s) /\ n + 1 \in 0..Len(s) /\ n + 1 \in 1..Len(s)
        BY <1>1
    <2>2. B(n) \in Seq(S) /\ Len(B(n)) = n /\ \A i \in 1..n : B(n)[i] = s[i]
        BY <1>2, <2>1
    <2>3. B(n + 1) \in Seq(S) /\ Len(B(n + 1)) = n + 1
          /\ \A i \in 1..(n + 1) : B(n + 1)[i] = s[i]
        BY <1>2, <2>1
    <2>. DEFINE a == Append(B(n), s[n + 1])
    <2>4. /\ a \in Seq(S) /\ Len(a) = n + 1
          /\ \A i \in 1..(n + 1) : a[i] = IF i = n + 1 THEN s[n + 1] ELSE B(n)[i]
        BY <1>1, <2>1, <2>2, AppendElements
    <2>. HIDE DEF a
    <2>5. \A i \in 1..(n + 1) : a[i] = B(n + 1)[i]
        BY <2>2, <2>3, <2>4
    <2>6. a = B(n + 1)
        BY <2>3, <2>4, <2>5, SeqEqual
    <2>. QED
        BY <2>6 DEF a
<1>. QED
    BY <1>2, <1>3, <1>4, <1>5 DEF B

(* An element appended to a concatenation.                                 *)
LEMMA AppendToConcat ==
    ASSUME NEW S, NEW u \in Seq(S), NEW v \in Seq(S), NEW x \in S
    PROVE  Append(u \o v, x) = u \o Append(v, x)
<1>. DEFINE e == <<x>>
<1>1. e \in Seq(S) /\ u \o v \in Seq(S)
    BY ConcatProperties
<1>2. Append(u \o v, x) = (u \o v) \o e /\ Append(v, x) = v \o e
    BY <1>1, AppendIsConcat
<1>. HIDE DEF e
<1>3. (u \o v) \o e = u \o (v \o e)
    BY <1>1, ConcatAssociative
<1>. QED
    BY <1>2, <1>3

(* A function on the positions up to n is a sequence.                      *)
LEMMA AsSeq ==
    ASSUME NEW S, NEW n \in Nat, NEW f \in [1..n -> S]
    PROVE  f \in Seq(S) /\ Len(f) = n
<1>1. f \in Seq(S)
    BY IsASeq
<1>2. Len(f) \in Nat /\ DOMAIN f = 1..Len(f) /\ DOMAIN f = 1..n
    BY <1>1, LenProperties
<1>3. Len(f) = n
    BY <1>2
<1>. QED
    BY <1>1, <1>3

(* A line in front does not matter to the token that is added at the end.  *)
LEMMA OneMoreBehind ==
    ASSUME NEW S, NEW ls \in Seq(Seq(S)) \ {<<>>}, NEW t \in Seq(S), NEW x \in S
    PROVE  OneMore(<<t>> \o ls, x) = <<t>> \o OneMore(ls, x)
<1>. DEFINE w == <<t>> \o ls
            L == Len(ls)
            M == L + 1
<1>1. L \in Nat /\ L # 0 /\ L \in 1..L /\ DOMAIN ls = 1..L /\ ls[L] \in Seq(S)
      /\ M \in Nat /\ M = L + 1
    BY LenProperties, EmptySeq, ElementOfSeq
<1>2. /\ w \in Seq(Seq(S)) /\ Len(w) = M
      /\ \A k \in 1..M : w[k] = IF k = 1 THEN t ELSE ls[k - 1]
    BY ConsElements
<1>. HIDE DEF M
<1>3. CASE x = LF
    <2>1. <<>> \in Seq(S) /\ <<t>> \in Seq(Seq(S))
        BY EmptySeq
    <2>2. Append(<<t>> \o ls, <<>>) = <<t>> \o Append(ls, <<>>)
        BY <2>1, AppendToConcat
    <2>. QED
        BY <1>3, <2>2 DEF OneMore
<1>4. CASE x # LF
    <2>. DEFINE z == Append(ls[L], x)
                a == [ls EXCEPT ![L] = z]
                b == [w EXCEPT ![M] = z]
                c == <<t>> \o a
    <2>1. z \in Seq(S)
        BY <1>1, AppendProperties
    <2>. HIDE DEF z
    <2>2. /\ a \in Seq(Seq(S)) /\ Len(a) = L
          /\ \A k \in 1..L : a[k] = IF k = L THEN z ELSE ls[k]
        <3>1. ls \in [1..L -> Seq(S)]
            BY <1>1, LenProperties
        <3>2. a \in [1..L -> Seq(S)] /\ \A k \in 1..L : a[k] = IF k = L THEN z ELSE ls[k]
            BY <2>1, <3>1
        <3>. QED
            BY <1>1, <3>2, IsASeq, LenProperties
    <2>. HIDE DEF w
    <2>3. /\ b \in Seq(Seq(S)) /\ Len(b) = M
          /\ \A k \in 1..M : b[k] = IF k = M THEN z ELSE w[k]
        <3>1. w \in [1..M -> Seq(S)]
            BY <1>2, LenProperties
        <3>2. /\ b \in [1..M -> Seq(S)]
              /\ \A k \in 1..M : b[k] = IF k = M THEN z ELSE w[k]
            BY <2>1, <3>1
        <3>. HIDE DEF b
        <3>. QED
            BY <1>1, <3>2, AsSeq
    <2>. HIDE DEF a, b
    <2>4. /\ c \in Seq(Seq(S)) /\ Len(c) = M
          /\ \A k \in 1..M : c[k] = IF k = 1 THEN t ELSE a[k - 1]
        <3>1. /\ c \in Seq(Seq(S)) /\ Len(c) = Len(a) + 1
              /\ \A k \in 1..(Len(a) + 1) : c[k] = IF k = 1 THEN t ELSE a[k - 1]
            BY <2>2, ConsElements
        <3>. HIDE DEF c
        <3>. QED
            BY <1>1, <2>2, <3>1
    <2>. HIDE DEF c
    <2>5. ASSUME NEW k \in 1..M PROVE b[k] = c[k]
        <3>1. CASE k = 1
            BY <1>1, <1>2, <2>3, <2>4, <3>1
        <3>2. CASE k # 1
            <4>1. k - 1 \in 1..L /\ (k - 1 = L <=> k = M)
                BY <1>1, <3>2
            <4>. QED
                BY <1>2, <2>2, <2>3, <2>4, <3>2, <4>1
        <3>. QED
            BY <3>1, <3>2
    <2>6. b = c
        BY <2>3, <2>4, <2>5, SeqEqual
    <2>7. OneMore(ls, x) = a
        BY <1>4 DEF OneMore, a, z
    <2>8. w[M] = ls[L]
        BY <1>1, <1>2
    <2>9. OneMore(w, x) = b
        BY <1>2, <1>4, <2>8 DEF OneMore, b, z
    <2>. QED
        BY <2>6, <2>7, <2>9 DEF w, c
<1>. QED
    BY <1>3, <1>4

(* The empty text is one empty line.                                       *)
LEMMA LinesOfNothing == Lines(<<>>) = <<(<<>>)>>
<1>1. <<>> \in Seq({}) /\ Len(<<>>) = 0
    BY EmptySeq
<1>2. PICK k : LinesRun(k, <<>>) /\ Lines(<<>>) = k[0]
    BY <1>1, LinesAre
<1>. QED
    BY <1>2 DEF LinesRun

(* The lines of a beginning are a sequence of lines with at least one.     *)
LEMMA LinesType ==
    ASSUME NEW S, NEW text \in Seq(S), NEW k, LinesRun(k, text)
    PROVE  \A n \in 0..Len(text) : k[n] \in Seq(Seq(S)) \ {<<>>}
<1>. DEFINE V == Seq(Seq(S)) \ {<<>>}
            P == {n \in Nat : k[n] \in V}
<1>1. Len(text) \in Nat /\ \A n \in 1..Len(text) : text[n] \in S
    BY LenProperties, ElementOfSeq
<1>2. 0 \in P
    <2>1. <<>> \in Seq(S)
        BY EmptySeq
    <2>2. <<(<<>>)>> \in Seq(Seq(S)) /\ Len(<<(<<>>)>>) = 1
        BY <2>1
    <2>3. <<(<<>>)>> # <<>>
        BY <2>2, EmptySeq
    <2>. QED
        BY <2>2, <2>3 DEF LinesRun
<1>3. ASSUME NEW n \in 0..(Len(text) - 1), n \in P PROVE n + 1 \in P
    <2>1. n + 1 \in 1..Len(text) /\ (n + 1) - 1 = n /\ n + 1 \in Nat
        BY <1>1
    <2>2. k[n + 1] = OneMore(k[n], text[n + 1])
        BY <2>1 DEF LinesRun
    <2>3. k[n] \in V /\ text[n + 1] \in S
        BY <1>1, <1>3, <2>1
    <2>4. k[n + 1] \in V
        BY <2>2, <2>3, OneMoreType
    <2>. QED
        BY <2>1, <2>4
<1>. HIDE DEF P
<1>4. \A n \in 0..Len(text) : n \in P
    BY <1>1, <1>2, <1>3, UpTo
<1>. QED
    BY <1>4 DEF P

(* A text that begins with a line: that line, and those of the rest.       *)
LEMMA LinesFirst ==
    ASSUME NEW S, LF \in S, NEW t \in Seq(S), NEW u \in Seq(S), LF \notin Range(t)
    PROVE  Lines(t \o (<<LF>> \o u)) = <<t>> \o Lines(u)
<1>. DEFINE v == <<LF>> \o u
            w == t \o v
            m == Len(t)
            L == Len(u)
<1>1. m \in Nat /\ L \in Nat /\ DOMAIN t = 1..m /\ \A n \in 1..m : t[n] \in S /\ t[n] # LF
    BY LenProperties, ElementOfSeq DEF Range
<1>2. /\ v \in Seq(S) /\ Len(v) = L + 1
      /\ \A n \in 1..(L + 1) : v[n] = IF n = 1 THEN LF ELSE u[n - 1]
    BY ConsElements
<1>. HIDE DEF v
<1>3. /\ w \in Seq(S) /\ Len(w) = m + (L + 1)
      /\ \A n \in 1..(m + (L + 1)) : w[n] = IF n <= m THEN t[n] ELSE v[n - m]
    <2>1. /\ w \in Seq(S) /\ Len(w) = Len(t) + Len(v)
          /\ \A n \in 1..(Len(t) + Len(v)) : w[n] = IF n <= Len(t) THEN t[n] ELSE v[n - Len(t)]
        BY <1>2, ConcatProperties
    <2>. HIDE DEF w
    <2>. QED
        BY <1>2, <2>1
<1>4. /\ \A n \in 1..m : w[n] = t[n]
      /\ w[m + 1] = LF
      /\ \A n \in 1..L : w[m + 1 + n] = u[n]
    <2>1. \A n \in 1..m : w[n] = t[n]
        BY <1>1, <1>3
    <2>2. w[m + 1] = LF
        <3>1. m + 1 \in 1..(m + (L + 1)) /\ ~(m + 1 <= m) /\ (m + 1) - m = 1
            BY <1>1
        <3>. QED
            BY <1>1, <1>2, <1>3, <3>1
    <2>3. ASSUME NEW n \in 1..L PROVE w[m + 1 + n] = u[n]
        <3>1. /\ m + 1 + n \in 1..(m + (L + 1)) /\ ~(m + 1 + n <= m)
              /\ (m + 1 + n) - m = n + 1 /\ n + 1 \in 1..(L + 1) /\ n + 1 # 1
              /\ (n + 1) - 1 = n
            BY <1>1
        <3>. QED
            BY <1>2, <1>3, <3>1
    <2>. QED
        BY <2>1, <2>2, <2>3
<1>. HIDE DEF w
<1>5. PICK k : LinesRun(k, u) /\ Lines(u) = k[L]
    BY LinesAre
<1>6. PICK h : LinesRun(h, w) /\ Lines(w) = h[Len(w)]
    BY <1>3, LinesAre
<1>7. \A n \in 0..L : k[n] \in Seq(Seq(S)) \ {<<>>}
    BY <1>5, LinesType
<1>. DEFINE P == {n \in Nat : h[n] = <<SubSeq(t, 1, n)>>}
<1>8. \A n \in 0..m : n \in P
    <2>1. 0 \in P
        BY <1>6, Beginnings DEF LinesRun
    <2>2. ASSUME NEW n \in 0..(m - 1), n \in P PROVE n + 1 \in P
        <3>1. /\ n + 1 \in 1..Len(w) /\ n + 1 \in 1..m /\ (n + 1) - 1 = n /\ n + 1 \in Nat
            BY <1>1, <1>3
        <3>. DEFINE s == SubSeq(t, 1, n)
        <3>2. h[n + 1] = OneMore(h[n], w[n + 1]) /\ h[n] = <<s>>
            BY <1>6, <2>2, <3>1 DEF LinesRun
        <3>3. w[n + 1] = t[n + 1] /\ t[n + 1] # LF
            BY <1>1, <1>4, <3>1
        <3>4. SubSeq(t, 1, n + 1) = Append(s, t[n + 1])
            BY Beginnings
        <3>. HIDE DEF s
        <3>5. OneMore(<<s>>, t[n + 1]) = <<Append(s, t[n + 1])>>
            BY <3>3 DEF OneMore
        <3>6. h[n + 1] = <<SubSeq(t, 1, n + 1)>>
            BY <3>2, <3>3, <3>4, <3>5
        <3>. QED
            BY <3>1, <3>6
    <2>. HIDE DEF P
    <2>. QED
        BY <1>1, <2>1, <2>2, UpTo
<1>9. h[m] = <<t>>
    BY <1>1, <1>8, Beginnings
<1>10. h[m + 1] = Append(<<t>>, <<>>)
    <2>1. m + 1 \in 1..Len(w) /\ (m + 1) - 1 = m
        BY <1>1, <1>3
    <2>2. h[m + 1] = OneMore(<<t>>, LF)
        BY <1>4, <1>6, <1>9, <2>1 DEF LinesRun
    <2>. QED
        BY <2>2 DEF OneMore
<1>. HIDE DEF P
<1>. DEFINE Q == {n \in Nat : h[m + 1 + n] = <<t>> \o k[n]}
<1>11. \A n \in 0..L : n \in Q
    <2>1. 0 \in Q
        <3>1. k[0] = <<(<<>>)>> /\ m + 1 + 0 = m + 1
            BY <1>1, <1>5 DEF LinesRun
        <3>2. Append(<<t>>, <<>>) = <<t>> \o <<(<<>>)>>
            <4>1. <<t>> \in Seq(Seq(S)) /\ <<>> \in Seq(S)
                BY EmptySeq
            <4>. QED
                BY <4>1, AppendIsConcat
        <3>. QED
            BY <1>10, <3>1, <3>2
    <2>2. ASSUME NEW n \in 0..(L - 1), n \in Q PROVE n + 1 \in Q
        <3>1. /\ m + 1 + (n + 1) \in 1..Len(w) /\ (m + 1 + (n + 1)) - 1 = m + 1 + n
              /\ n + 1 \in 1..L /\ (n + 1) - 1 = n /\ n + 1 \in Nat /\ n \in 0..L
            BY <1>1, <1>3
        <3>2. h[m + 1 + (n + 1)] = OneMore(h[m + 1 + n], w[m + 1 + (n + 1)])
            BY <1>6, <3>1 DEF LinesRun
        <3>3. w[m + 1 + (n + 1)] = u[n + 1] /\ u[n + 1] \in S
            BY <1>4, <3>1, ElementOfSeq
        <3>4. k[n + 1] = OneMore(k[n], u[n + 1])
            BY <1>5, <3>1 DEF LinesRun
        <3>5. OneMore(<<t>> \o k[n], u[n + 1]) = <<t>> \o OneMore(k[n], u[n + 1])
            <4>. DEFINE ls == k[n]
                        x == u[n + 1]
            <4>1. ls \in Seq(Seq(S)) \ {<<>>} /\ x \in S
                BY <1>7, <3>1, <3>3
            <4>. HIDE DEF ls, x
            <4>2. OneMore(<<t>> \o ls, x) = <<t>> \o OneMore(ls, x)
                BY <4>1, OneMoreBehind
            <4>. QED
                BY <4>2 DEF ls, x
        <3>6. h[m + 1 + (n + 1)] = <<t>> \o k[n + 1]
            BY <2>2, <3>2, <3>3, <3>4, <3>5
        <3>. QED
            BY <3>1, <3>6
    <2>. HIDE DEF Q
    <2>. QED
        BY <1>1, <2>1, <2>2, UpTo
<1>12. h[m + 1 + L] = <<t>> \o k[L] /\ Len(w) = m + 1 + L
    BY <1>1, <1>3, <1>11
<1>. QED
    BY <1>5, <1>6, <1>12 DEF w, v

(* Lines returns lines over the tokens of its text.                        *)
LEMMA LinesAreLines ==
    ASSUME NEW S, NEW text \in Seq(S)
    PROVE  Lines(text) \in Seq(Seq(S))
<1>1. PICK k : LinesRun(k, text) /\ Lines(text) = k[Len(text)]
    BY LinesAre
<1>2. Len(text) \in 0..Len(text)
    BY LenProperties
<1>. QED
    BY <1>1, <1>2, LinesType

(* FlattenSeq, one sequence after the other.                               *)
FlattenRun(k, ss) ==
    /\ k[0] = <<>>
    /\ \A n \in 1..Len(ss) : k[n] = k[n - 1] \o ss[n]

(* FlattenSeq appends one sequence after the other.                        *)
LEMMA FlattenAre ==
    ASSUME NEW S, NEW ss \in Seq(Seq(S))
    PROVE  \E k \in [0..Len(ss) -> Seq(S)] : FlattenRun(k, ss) /\ FlattenSeq(ss) = k[Len(ss)]
<1>. DEFINE N == Len(ss)
            F == [p \in (1..N) \X Seq(S) |-> p[2] \o ss[p[1]]]
            G(f) == f = [i \in 1..N |-> IF i = 1 THEN ss[i] ELSE f[i - 1] \o ss[i]]
            g == CHOOSE f : G(f)
<1>1. N \in Nat /\ \A n \in 1..N : ss[n] \in Seq(S)
    BY LenProperties, ElementOfSeq
<1>2. F \in [(1..N) \X Seq(S) -> Seq(S)] /\ <<>> \in Seq(S)
    BY <1>1, ConcatProperties, EmptySeq
<1>. HIDE DEF N
<1>3. PICK k \in [0..N -> Seq(S)] : Runs(k, <<>>, F, N)
    BY <1>1, <1>2, RunExists
<1>4. FlattenRun(k, ss)
    <2>1. ASSUME NEW n \in 1..N PROVE k[n] = k[n - 1] \o ss[n]
        <3>1. n - 1 \in 0..N
            BY <1>1
        <3>2. k[n - 1] \in Seq(S)
            BY <3>1
        <3>. QED
            BY <1>3, <3>2 DEF Runs
    <2>. QED
        BY <1>3, <2>1 DEF FlattenRun, Runs, N
<1>5. CASE N = 0
    <2>1. ss = <<>>
        BY <1>5, EmptySeq DEF N
    <2>2. FlattenSeq(ss) = ss
        BY <1>5 DEF FlattenSeq, N
    <2>. QED
        BY <1>4, <1>5, <2>1, <2>2 DEF FlattenRun, N
<1>6. CASE N # 0
    <2>1. FlattenSeq(ss) = g[N]
        BY <1>6, Zenon DEF FlattenSeq, N
    <2>. HIDE DEF g
    <2>2. \E f : G(f)
        <3>. DEFINE f == [i \in 1..N |-> k[i]]
        <3>1. ASSUME NEW i \in 1..N PROVE f[i] = IF i = 1 THEN ss[i] ELSE f[i - 1] \o ss[i]
            <4>1. k[i] = k[i - 1] \o ss[i]
                BY <1>4 DEF FlattenRun, N
            <4>2. CASE i = 1
                <5>1. k[i - 1] = <<>> /\ ss[i] \in Seq(S)
                    BY <1>1, <1>4, <4>2 DEF FlattenRun
                <5>2. <<>> \o ss[i] = ss[i]
                    BY <5>1, ConcatEmptySeq
                <5>. QED
                    BY <4>1, <4>2, <5>1, <5>2
            <4>3. CASE i # 1
                <5>1. i - 1 \in 1..N
                    BY <1>1, <4>3
                <5>. QED
                    BY <4>1, <4>3, <5>1
            <4>. QED
                BY <4>2, <4>3
        <3>2. f = [i \in 1..N |-> f[i]]
            OBVIOUS
        <3>. HIDE DEF f
        <3>3. G(f)
            BY <3>1, <3>2
        <3>. QED
            BY <3>3
    <2>3. G(g)
        <3>. HIDE DEF G
        <3>. QED
            BY <2>2 DEF g
    <2>4. \A i \in 1..N : g[i] = IF i = 1 THEN ss[i] ELSE g[i - 1] \o ss[i]
        BY <2>3
    <2>. DEFINE P == {n \in Nat : n = 0 \/ g[n] = k[n]}
    <2>5. 0 \in P
        OBVIOUS
    <2>6. ASSUME NEW n \in 0..(N - 1), n \in P PROVE n + 1 \in P
        <3>1. n + 1 \in 1..N /\ (n + 1) - 1 = n /\ n + 1 \in Nat
            BY <1>1
        <3>2. k[n + 1] = k[n] \o ss[n + 1]
            BY <1>4, <3>1 DEF FlattenRun, N
        <3>3. g[n + 1] = IF n + 1 = 1 THEN ss[n + 1] ELSE g[n] \o ss[n + 1]
            BY <2>4, <3>1
        <3>4. CASE n = 0
            <4>1. k[n] = <<>> /\ ss[n + 1] \in Seq(S)
                BY <1>1, <1>4, <3>1, <3>4 DEF FlattenRun
            <4>2. <<>> \o ss[n + 1] = ss[n + 1]
                BY <4>1, ConcatEmptySeq
            <4>. QED
                BY <3>1, <3>2, <3>3, <3>4, <4>1, <4>2
        <3>5. CASE n # 0
            <4>1. g[n] = k[n] /\ n + 1 # 1
                BY <2>6, <3>5
            <4>2. g[n + 1] = k[n + 1]
                BY <3>2, <3>3, <4>1
            <4>. QED
                BY <3>1, <4>2
        <3>. QED
            BY <3>4, <3>5
    <2>. HIDE DEF P, G, F, g
    <2>7. N \in P
        <3>1. N \in Nat
            BY <1>1
        <3>2. \A n \in 0..N : n \in P
            BY <3>1, <2>5, <2>6, UpTo
        <3>. QED
            BY <3>1, <3>2
    <2>8. g[N] = k[N]
        BY <1>6, <2>7 DEF P
    <2>. QED
        BY <1>4, <2>1, <2>8 DEF N
<1>. QED
    BY <1>5, <1>6

(* The lines that are written for a table.                                 *)
LineOf(e, delim) == (e.key \o delim) \o e.val
LinesOf(table, delim) == [n \in DOMAIN table |-> LineOf(table[n], delim)]

(* An entry of a table, and a table: keys and values are texts.            *)
Item == [key : Text, val : Text]
Table == Seq(Item)

(* A line that is written for an entry is a text.                          *)
LEMMA LineType ==
    ASSUME NEW e \in [key : Text, val : Text], NEW delim \in Text
    PROVE  LineOf(e, delim) \in Text
BY ConcatProperties DEF Text, LineOf

(* The elements of a concatenation.                                        *)
LEMMA RangeOfConcat ==
    ASSUME NEW S, NEW u \in Seq(S), NEW v \in Seq(S)
    PROVE  Range(u \o v) = Range(u) \cup Range(v)
<1>. DEFINE w == u \o v
<1>1. /\ w \in Seq(S) /\ Len(w) = Len(u) + Len(v)
      /\ \A n \in 1..(Len(u) + Len(v)) : w[n] = IF n <= Len(u) THEN u[n] ELSE v[n - Len(u)]
    BY ConcatProperties
<1>. HIDE DEF w
<1>2. /\ Len(u) \in Nat /\ Len(v) \in Nat /\ DOMAIN u = 1..Len(u) /\ DOMAIN v = 1..Len(v)
      /\ DOMAIN w = 1..(Len(u) + Len(v))
    BY <1>1, LenProperties
<1>3. ASSUME NEW n \in DOMAIN w PROVE w[n] \in Range(u) \cup Range(v)
    <2>1. CASE n <= Len(u)
        <3>1. n \in DOMAIN u /\ w[n] = u[n]
            BY <1>1, <1>2, <2>1
        <3>. QED
            BY <3>1 DEF Range
    <2>2. CASE ~(n <= Len(u))
        <3>1. n - Len(u) \in DOMAIN v /\ w[n] = v[n - Len(u)]
            BY <1>1, <1>2, <2>2
        <3>. QED
            BY <3>1 DEF Range
    <2>. QED
        BY <2>1, <2>2
<1>4. ASSUME NEW n \in DOMAIN u PROVE u[n] \in Range(w)
    <2>1. n \in DOMAIN w /\ w[n] = u[n]
        BY <1>1, <1>2
    <2>. QED
        BY <2>1 DEF Range
<1>5. ASSUME NEW n \in DOMAIN v PROVE v[n] \in Range(w)
    <2>1. Len(u) + n \in DOMAIN w /\ ~(Len(u) + n <= Len(u)) /\ (Len(u) + n) - Len(u) = n
        BY <1>2
    <2>2. w[Len(u) + n] = v[n]
        BY <1>1, <1>2, <2>1
    <2>. QED
        BY <2>1, <2>2 DEF Range
<1>6. Range(w) \subseteq Range(u) \cup Range(v)
    BY <1>3 DEF Range
<1>7. Range(u) \subseteq Range(w) /\ Range(v) \subseteq Range(w)
    BY <1>4, <1>5 DEF Range
<1>. QED
    BY <1>6, <1>7 DEF w

(* The elements of three sequences in a row.                               *)
LEMMA RangeOfThree ==
    ASSUME NEW S, NEW u \in Seq(S), NEW v \in Seq(S), NEW w \in Seq(S)
    PROVE  Range((u \o v) \o w) = (Range(u) \cup Range(v)) \cup Range(w)
<1>. DEFINE x == u \o v
<1>1. x \in Seq(S) /\ Range(x) = Range(u) \cup Range(v)
    BY ConcatProperties, RangeOfConcat
<1>. HIDE DEF x
<1>2. Range(x \o w) = Range(x) \cup Range(w)
    BY <1>1, RangeOfConcat
<1>. QED
    BY <1>1, <1>2 DEF x

(* A text without a line feed.                                             *)
OneLine(text) == LF \notin Range(text)

(* Concatenation, where only these facts about it count.                   *)
Cat(u, v) == u \o v

(* Concatenation is associative.                                           *)
LEMMA CatFacts ==
    ASSUME NEW S, NEW u \in Seq(S), NEW v \in Seq(S), NEW w \in Seq(S)
    PROVE  Cat(u, v) \in Seq(S) /\ Cat(Cat(u, v), w) = Cat(u, Cat(v, w))
<1>1. u \o v \in Seq(S)
    BY ConcatProperties
<1>2. (u \o v) \o w = u \o (v \o w)
    BY ConcatAssociative
<1>. QED
    BY <1>1, <1>2 DEF Cat

(* The lines of a text that begins with a line, LinesFirst restated.       *)
LEMMA CatLine ==
    ASSUME NEW S, LF \in S, NEW t \in Seq(S), NEW u \in Seq(S), LF \notin Range(t)
    PROVE  Lines(Cat(t, Cat(<<LF>>, u))) = Cat(<<t>>, Lines(u))
BY LinesFirst DEF Cat

(* An element in front of the second sequence is behind the first.         *)
LEMMA CatMoved ==
    ASSUME NEW S, NEW u \in Seq(S), NEW v \in Seq(S), NEW x \in S
    PROVE  Cat(u, Cat(<<x>>, v)) = Cat(Append(u, x), v)
BY MovedOver DEF Cat

(* A text whose lines are these, whatever comes after it.                  *)
Splits(text, lines, S) == \A r \in Seq(S) : Lines(Cat(text, r)) = Cat(lines, Lines(r))

(* A line feed behind one line more: the text has that line more, and what *)
(* comes after it begins a line of its own.                                *)
LEMMA OneLineMore ==
    ASSUME NEW S, LF \in S, NEW text \in Seq(S), NEW lines \in Seq(Seq(S)),
           Splits(text, lines, S), NEW line \in Seq(S), LF \notin Range(line)
    PROVE  Splits(Cat(text, Cat(line, <<LF>>)), Append(lines, line), S)
<1>. SUFFICES ASSUME NEW r \in Seq(S)
              PROVE  Lines(Cat(Cat(text, Cat(line, <<LF>>)), r)) = Cat(Append(lines, line), Lines(r))
    BY DEF Splits
<1>. DEFINE f == <<LF>>
            x == Cat(line, f)
            y == Cat(f, r)
            z == Lines(r)
<1>1. f \in Seq(S)
    OBVIOUS
<1>2. Lines(Cat(line, y)) = Cat(<<line>>, z)
    BY CatLine
<1>. HIDE DEF f
<1>3. x \in Seq(S) /\ y \in Seq(S) /\ Cat(x, r) = Cat(line, y)
    BY <1>1, CatFacts
<1>4. Cat(line, y) \in Seq(S)
    BY <1>3, CatFacts
<1>. HIDE DEF x, y
<1>5. Cat(Cat(text, x), r) = Cat(text, Cat(line, y))
    BY <1>3, CatFacts
<1>6. Lines(Cat(Cat(text, x), r)) = Cat(lines, Cat(<<line>>, z))
    BY <1>2, <1>4, <1>5 DEF Splits
<1>7. z \in Seq(Seq(S))
    BY LinesAreLines
<1>. HIDE DEF z
<1>8. Cat(lines, Cat(<<line>>, z)) = Cat(Append(lines, line), z)
    BY <1>7, CatMoved
<1>. QED
    BY <1>6, <1>8 DEF x, y, f, z

(* What request_prepare writes for a table is one line for each entry, in  *)
(* their order, when no key and no value holds a line feed.                *)
LEMMA SpelledLines ==
    ASSUME NEW table \in Table, NEW delim \in Text, OneLine(delim),
           \A n \in 1..Len(table) : OneLine(table[n].key) /\ OneLine(table[n].val)
    PROVE  /\ Spelled(table, delim, <<LF>>) \in Text
           /\ LinesOf(table, delim) \in Seq(Text)
           /\ Splits(Spelled(table, delim, <<LF>>), LinesOf(table, delim), Token)
<1>. DEFINE N == Len(table)
            ls == LinesOf(table, delim)
            ss == [n \in DOMAIN table |-> table[n].key \o delim \o table[n].val \o <<LF>>]
<1>1. /\ N \in Nat /\ DOMAIN table = 1..N
      /\ \A n \in 1..N : table[n] \in [key : Text, val : Text]
    BY LenProperties, ElementOfSeq DEF Table, Item
<1>2. <<LF>> \in Text
    BY TokenAssumption DEF Text
<1>3. ls \in Seq(Text) /\ Len(ls) = N /\ \A n \in 1..N : ls[n] = LineOf(table[n], delim)
    <2>1. ls \in [1..N -> Text] /\ \A n \in 1..N : ls[n] = LineOf(table[n], delim)
        BY <1>1, LineType DEF LinesOf
    <2>. HIDE DEF ls
    <2>. QED
        BY <1>1, <2>1, AsSeq
<1>. HIDE DEF ls
<1>4. ASSUME NEW n \in 1..N PROVE ss[n] = ls[n] \o <<LF>> /\ ls[n] \in Text /\ OneLine(ls[n])
    <2>1. table[n] \in [key : Text, val : Text]
        BY <1>1
    <2>2. ls[n] \in Text
        BY <1>3, <2>1, LineType
    <2>. DEFINE a == table[n].key
                c == table[n].val
    <2>3. a \in Seq(Token) /\ c \in Seq(Token) /\ delim \in Seq(Token)
        BY <2>1 DEF Text
    <2>4. OneLine(a) /\ OneLine(c)
        OBVIOUS
    <2>5. ls[n] = (a \o delim) \o c
        BY <1>3 DEF LineOf
    <2>6. ss[n] = ((a \o delim) \o c) \o <<LF>>
        BY <1>1
    <2>. HIDE DEF a, c, ss
    <2>7. Range((a \o delim) \o c) = (Range(a) \cup Range(delim)) \cup Range(c)
        BY <2>3, RangeOfThree
    <2>9. OneLine(ls[n])
        BY <2>4, <2>5, <2>7 DEF OneLine
    <2>. QED
        BY <2>2, <2>5, <2>6, <2>9
<1>5. ss \in Seq(Text) /\ Len(ss) = N
    <2>. DEFINE lf == <<LF>>
    <2>. HIDE DEF ss
    <2>1. ASSUME NEW n \in 1..N PROVE ss[n] \in Text
        <3>1. ss[n] = ls[n] \o lf /\ ls[n] \in Seq(Token) /\ lf \in Seq(Token)
            BY <1>2, <1>4 DEF Text
        <3>. HIDE DEF lf
        <3>2. ls[n] \o lf \in Seq(Token)
            BY <3>1, ConcatProperties
        <3>. QED
            BY <3>1, <3>2 DEF Text
    <2>. USE DEF ss
    <2>2. ss \in [1..N -> Text]
        BY <1>1, <2>1
    <2>. HIDE DEF ss
    <2>. QED
        BY <1>1, <2>2, AsSeq
<1>6. Spelled(table, delim, <<LF>>) = FlattenSeq(ss)
    BY DEF Spelled
<1>. HIDE DEF ss
<1>7. PICK k \in [0..N -> Text] : FlattenRun(k, ss) /\ FlattenSeq(ss) = k[N]
    BY <1>5, FlattenAre DEF Text
<1>. DEFINE P == {n \in Nat : Splits(k[n], SubSeq(ls, 1, n), Token)}
<1>8. 0 \in P
    <2>1. k[0] = <<>> /\ SubSeq(ls, 1, 0) = <<>>
        BY <1>3, <1>7, Beginnings DEF FlattenRun
    <2>2. ASSUME NEW r \in Text PROVE Lines(Cat(<<>>, r)) = Cat(<<>>, Lines(r))
        BY ConcatEmptySeq, LinesAreLines DEF Text, Cat
    <2>. QED
        BY <2>1, <2>2 DEF Splits, Text
<1>9. ASSUME NEW n \in 0..(N - 1), n \in P PROVE n + 1 \in P
    <2>1. n + 1 \in 1..N /\ (n + 1) - 1 = n /\ n + 1 \in Nat /\ n \in 0..N
        BY <1>1
    <2>. DEFINE line == ls[n + 1]
                before == SubSeq(ls, 1, n)
                sofar == k[n]
    <2>2. k[n + 1] = Cat(sofar, Cat(line, <<LF>>)) /\ line \in Text /\ OneLine(line)
          /\ sofar \in Text
        BY <1>4, <1>5, <1>7, <2>1 DEF FlattenRun, Cat
    <2>3. SubSeq(ls, 1, n + 1) = Append(before, line) /\ before \in Seq(Text)
        BY <1>3, <2>1, Beginnings
    <2>4. Splits(sofar, before, Token)
        BY <1>9
    <2>. HIDE DEF line, before, sofar
    <2>5. LF \in Token /\ line \in Seq(Token) /\ sofar \in Seq(Token)
          /\ before \in Seq(Seq(Token)) /\ LF \notin Range(line)
        BY <2>2, <2>3, TokenAssumption DEF Text, OneLine
    <2>6. Splits(k[n + 1], SubSeq(ls, 1, n + 1), Token)
        BY <2>2, <2>3, <2>4, <2>5, OneLineMore
    <2>. QED
        BY <2>1, <2>6
<1>. HIDE DEF P
<1>. HIDE DEF N
<1>10. N \in P
    <2>1. N \in Nat
        BY <1>1
    <2>2. \A n \in 0..N : n \in P
        BY <2>1, <1>8, <1>9, UpTo
    <2>. QED
        BY <2>1, <2>2
<1>. USE DEF N
<1>11. SubSeq(ls, 1, N) = ls
    BY <1>3, Beginnings
<1>12. k[N] \in Text
    BY <1>1
<1>13. Splits(k[N], ls, Token)
    BY <1>10, <1>11 DEF P
<1>14. Spelled(table, delim, <<LF>>) = k[N]
    BY <1>6, <1>7
<1>. QED
    BY <1>3, <1>12, <1>13, <1>14 DEF ls

(* A set of natural numbers that is not empty has its least element.       *)
LEMMA LeastOf ==
    ASSUME NEW T \in SUBSET Nat, T # {}
    PROVE  Min(T) \in T /\ \A n \in T : Min(T) <= n
<1>1. \E x \in T : \A y \in T : x <= y
    BY LeastNat
<1>. QED
    BY <1>1 DEF Min

(* An element that none is below is the least.                             *)
LEMMA LeastIs ==
    ASSUME NEW T \in SUBSET Nat, NEW n \in T, \A m \in T : n <= m
    PROVE  Min(T) = n
<1>1. T # {}
    OBVIOUS
<1>2. Min(T) \in T /\ \A m \in T : Min(T) <= m
    BY <1>1, LeastOf
<1>3. Min(T) <= n /\ n <= Min(T) /\ n \in Nat /\ Min(T) \in Nat
    BY <1>2
<1>. QED
    BY <1>3

(* What is in front of a token, and behind it.                             *)
Before(text, c) == SubSeq(text, 1, strchr(text, 1, c) - 1)
After(text, c) == SubSeq(text, strchr(text, 1, c) + 1, Len(text))

(* A sequence, a token that is not in it, and what comes after.            *)
LEMMA FirstIsThere ==
    ASSUME NEW S, NEW c \in S, NEW u \in Seq(S), NEW v \in Seq(S), c \notin Range(u),
           NEW text, text = Cat(u, Cat(<<c>>, v))
    PROVE  /\ text \in Seq(S)
           /\ strchr(text, 1, c) # 0
           /\ Before(text, c) = u
           /\ After(text, c) = v
<1>. DEFINE m == Len(u)
            L == Len(v)
            x == <<c>> \o v
            w == u \o x
<1>0. text = w
    BY DEF Cat
<1>1. /\ m \in Nat /\ L \in Nat /\ DOMAIN u = 1..m
      /\ \A n \in 1..m : u[n] \in S /\ u[n] # c
      /\ \A n \in 1..L : v[n] \in S
    BY LenProperties, ElementOfSeq DEF Range
<1>2. /\ x \in Seq(S) /\ Len(x) = L + 1
      /\ \A n \in 1..(L + 1) : x[n] = IF n = 1 THEN c ELSE v[n - 1]
    BY ConsElements
<1>. HIDE DEF x
<1>3. /\ w \in Seq(S) /\ Len(w) = m + (L + 1)
      /\ \A n \in 1..(m + (L + 1)) : w[n] = IF n <= m THEN u[n] ELSE x[n - m]
    <2>1. /\ w \in Seq(S) /\ Len(w) = Len(u) + Len(x)
          /\ \A n \in 1..(Len(u) + Len(x)) : w[n] = IF n <= Len(u) THEN u[n] ELSE x[n - Len(u)]
        BY <1>2, ConcatProperties
    <2>. HIDE DEF w
    <2>. QED
        BY <1>2, <2>1
<1>. HIDE DEF w
<1>4. \A n \in 1..m : w[n] = u[n]
    BY <1>1, <1>3
<1>5. w[m + 1] = c
    <2>1. m + 1 \in 1..(m + (L + 1)) /\ ~(m + 1 <= m) /\ (m + 1) - m = 1 /\ 1 \in 1..(L + 1)
        BY <1>1
    <2>2. w[m + 1] = x[1]
        BY <1>3, <2>1
    <2>. QED
        BY <1>2, <2>1, <2>2
<1>6. ASSUME NEW n \in 1..L PROVE w[m + 1 + n] = v[n]
    <2>1. /\ m + 1 + n \in 1..(m + (L + 1)) /\ ~(m + 1 + n <= m)
          /\ (m + 1 + n) - m = n + 1 /\ n + 1 \in 1..(L + 1) /\ n + 1 # 1 /\ (n + 1) - 1 = n
        BY <1>1
    <2>2. w[m + 1 + n] = x[n + 1]
        BY <1>3, <2>1
    <2>. QED
        BY <1>2, <2>1, <2>2
<1>7. strchr(w, 1, c) = m + 1
    <2>. DEFINE hits == {n \in 1..Len(w) : w[n] = c}
    <2>1. hits \in SUBSET Nat /\ m + 1 \in hits
        BY <1>1, <1>3, <1>5
    <2>2. \A n \in hits : m + 1 <= n
        BY <1>1, <1>3, <1>4
    <2>3. hits # {} /\ Min(hits) = m + 1
        <3>. HIDE DEF hits
        <3>. QED
            BY <2>1, <2>2, LeastIs
    <2>. QED
        BY <2>3 DEF strchr
<1>8. SubSeq(w, 1, m) = u
    <2>. DEFINE b == SubSeq(w, 1, m)
    <2>1. /\ b \in Seq(S) /\ Len(b) = m /\ \A n \in 1..m : b[n] = w[n]
        <3>1. \A n \in 1..m : w[n] \in S
            BY <1>1, <1>4
        <3>2. /\ b \in Seq(S) /\ Len(b) = IF 1 <= m THEN m - 1 + 1 ELSE 0
              /\ \A n \in 1..(m - 1 + 1) : b[n] = w[1 + n - 1]
            BY <1>1, <3>1, SubSeqProperties
        <3>. HIDE DEF b
        <3>. QED
            BY <1>1, <3>2
    <2>. HIDE DEF b
    <2>2. b = u
        BY <1>4, <2>1, SeqEqual
    <2>. QED
        BY <2>2 DEF b
<1>9. SubSeq(w, m + 2, Len(w)) = v
    <2>. DEFINE a == SubSeq(w, m + 2, Len(w))
    <2>1. /\ a \in Seq(S) /\ Len(a) = L /\ \A n \in 1..L : a[n] = w[m + 1 + n]
        <3>1. \A n \in (m + 2)..(m + (L + 1)) : w[n] \in S
            BY <1>1, <1>3, ElementOfSeq
        <3>2. /\ a \in Seq(S)
              /\ Len(a) = IF m + 2 <= m + (L + 1) THEN (m + (L + 1)) - (m + 2) + 1 ELSE 0
              /\ \A n \in 1..((m + (L + 1)) - (m + 2) + 1) : a[n] = w[m + 2 + n - 1]
            BY <1>1, <1>3, <3>1, SubSeqProperties
        <3>. HIDE DEF a
        <3>3. (m + (L + 1)) - (m + 2) + 1 = L /\ (~(m + 2 <= m + (L + 1)) => L = 0)
              /\ \A n \in 1..L : m + 2 + n - 1 = m + 1 + n
            BY <1>1
        <3>. QED
            BY <3>2, <3>3
    <2>. HIDE DEF a
    <2>2. \A n \in 1..L : a[n] = v[n]
        BY <1>6, <2>1
    <2>3. a = v
        BY <2>1, <2>2, SeqEqual
    <2>. QED
        BY <2>3 DEF a
<1>. QED
    <2>1. strchr(w, 1, c) # 0 /\ strchr(w, 1, c) - 1 = m /\ strchr(w, 1, c) + 1 = m + 2
        BY <1>1, <1>7
    <2>. HIDE DEF m
    <2>. QED
        BY <1>0, <1>3, <1>8, <1>9, <2>1 DEF Before, After

(* What is trimmed neither begins nor ends with a blank.                   *)
Trimmed(s) == s # <<>> => s[1] \notin IsSpace /\ s[Len(s)] \notin IsSpace

(* str_trim leaves such a text alone.                                      *)
LEMMA TrimOfTrimmed ==
    ASSUME NEW S, NEW s \in Seq(S), Trimmed(s)
    PROVE  str_trim(s) = s
<1>. DEFINE kept == {k \in DOMAIN s : s[k] \notin IsSpace}
            N == Len(s)
<1>1. N \in Nat /\ DOMAIN s = 1..N
    BY LenProperties
<1>2. CASE s = <<>>
    <2>1. N = 0
        BY <1>2, EmptySeq
    <2>2. kept = {}
        BY <1>1, <2>1
    <2>. QED
        BY <1>2, <2>2 DEF str_trim
<1>3. CASE s # <<>>
    <2>1. N # 0 /\ s[1] \notin IsSpace /\ s[N] \notin IsSpace
        BY <1>3, EmptySeq DEF Trimmed
    <2>2. 1 \in kept /\ N \in kept /\ kept \in SUBSET (1..N)
        BY <1>1, <2>1
    <2>. HIDE DEF kept
    <2>3. Min(kept) = 1
        <3>1. kept \in SUBSET Nat /\ \A m \in kept : 1 <= m
            BY <1>1, <2>2
        <3>. QED
            BY <2>2, <3>1, LeastIs
    <2>4. Max(kept) = N
        <3>1. Max(kept) \in kept
            BY <1>1, <2>2, LargestOf
        <3>2. \A n \in kept : N >= n
            BY <1>1, <2>2
        <3>3. ASSUME NEW x \in kept, \A y \in kept : x >= y PROVE x = N
            <4>1. x >= N /\ N >= x
                BY <2>2, <3>2, <3>3
            <4>2. x \in Nat /\ N \in Nat
                BY <1>1, <2>2
            <4>. HIDE DEF N
            <4>. QED
                BY <4>1, <4>2
        <3>. QED
            BY <2>2, <3>2, <3>3 DEF Max
    <2>5. SubSeq(s, 1, N) = s
        BY Beginnings
    <2>. USE DEF kept
    <2>6. str_trim(s) = SubSeq(s, Min(kept), Max(kept))
        BY <2>2 DEF str_trim
    <2>. QED
        BY <2>3, <2>4, <2>5, <2>6
<1>. QED
    BY <1>2, <1>3

(* What str_trim returns neither begins nor ends with a blank, and holds   *)
(* nothing that its argument did not hold.                                 *)
LEMMA TrimFacts ==
    ASSUME NEW S, NEW s \in Seq(S)
    PROVE  /\ str_trim(s) \in Seq(S)
           /\ Trimmed(str_trim(s))
           /\ Range(str_trim(s)) \subseteq Range(s)
<1>. DEFINE kept == {k \in DOMAIN s : s[k] \notin IsSpace}
            N == Len(s)
            t == str_trim(s)
<1>1. N \in Nat /\ DOMAIN s = 1..N /\ \A k \in 1..N : s[k] \in S
    BY LenProperties, ElementOfSeq
<1>2. CASE kept = {}
    <2>1. t = <<>>
        BY <1>2 DEF str_trim
    <2>2. t \in Seq(S) /\ Len(t) = 0
        BY <2>1, EmptySeq
    <2>3. DOMAIN t = {}
        BY <2>1
    <2>. HIDE DEF t
    <2>4. Range(t) = {}
        BY <2>3 DEF Range
    <2>. QED
        BY <2>1, <2>2, <2>4 DEF Trimmed, t
<1>3. CASE kept # {}
    <2>. DEFINE a == Min(kept)
                b == Max(kept)
    <2>1. t = SubSeq(s, a, b)
        BY <1>3 DEF str_trim
    <2>2. kept \in SUBSET (1..N) /\ \A k \in kept : s[k] \notin IsSpace
        BY <1>1
    <2>. HIDE DEF kept
    <2>3. a \in kept /\ b \in kept /\ a <= b
        <3>1. kept \in SUBSET Nat
            BY <1>1, <2>2
        <3>2. a \in kept /\ \A k \in kept : a <= k
            BY <1>3, <3>1, LeastOf
        <3>3. b \in kept
            BY <1>1, <1>3, <2>2, LargestOf
        <3>. QED
            BY <3>2, <3>3
    <2>. HIDE DEF a, b, t
    <2>4. a \in 1..N /\ b \in 1..N /\ b - a + 1 \in Nat /\ b - a + 1 # 0
        BY <1>1, <2>2, <2>3
    <2>5. /\ t \in Seq(S) /\ Len(t) = b - a + 1
          /\ \A k \in 1..(b - a + 1) : t[k] = s[a + k - 1]
        <3>1. \A k \in a..b : s[k] \in S
            BY <1>1, <2>4
        <3>. QED
            BY <2>1, <2>3, <2>4, <3>1, SubSeqProperties
    <2>6. t[1] = s[a] /\ t[Len(t)] = s[b]
        <3>1. 1 \in 1..(b - a + 1) /\ b - a + 1 \in 1..(b - a + 1)
              /\ a + 1 - 1 = a /\ a + (b - a + 1) - 1 = b
            BY <2>4
        <3>. QED
            BY <2>5, <3>1
    <2>7. ASSUME NEW k \in 1..(b - a + 1) PROVE t[k] \in Range(s)
        <3>1. a + k - 1 \in DOMAIN s /\ t[k] = s[a + k - 1]
            BY <1>1, <2>4, <2>5
        <3>. QED
            BY <3>1 DEF Range
    <2>8. DOMAIN t = 1..(b - a + 1)
        BY <2>5, LenProperties
    <2>9. Range(t) \subseteq Range(s)
        BY <2>7, <2>8 DEF Range
    <2>. QED
        BY <2>2, <2>3, <2>5, <2>6, <2>9 DEF Trimmed, t
<1>. QED
    BY <1>2, <1>3

(* One blank in front does not matter.                                     *)
LEMMA TrimOfBlank ==
    ASSUME NEW S, SP \in S, NEW s \in Seq(S), Trimmed(s)
    PROVE  str_trim(<<SP>> \o s) = s
<1>. DEFINE w == <<SP>> \o s
            kept == {k \in DOMAIN w : w[k] \notin IsSpace}
            N == Len(s)
<1>1. N \in Nat /\ DOMAIN s = 1..N /\ \A k \in 1..N : s[k] \in S
    BY LenProperties, ElementOfSeq
<1>2. /\ w \in Seq(S) /\ Len(w) = N + 1 /\ DOMAIN w = 1..(N + 1)
      /\ \A k \in 1..(N + 1) : w[k] = IF k = 1 THEN SP ELSE s[k - 1]
    BY ConsElements, LenProperties
<1>. HIDE DEF w
<1>3. w[1] \in IsSpace
    BY <1>1, <1>2 DEF IsSpace
<1>4. CASE s = <<>>
    <2>1. N = 0
        BY <1>4, EmptySeq
    <2>2. kept = {}
        BY <1>2, <1>3, <2>1
    <2>3. str_trim(w) = <<>>
        BY <2>2 DEF str_trim
    <2>. QED
        BY <1>4, <2>3 DEF w
<1>5. CASE s # <<>>
    <2>1. N # 0 /\ s[1] \notin IsSpace /\ s[N] \notin IsSpace
        BY <1>5, EmptySeq DEF Trimmed
    <2>2. w[2] = s[1] /\ w[N + 1] = s[N]
        <3>1. 2 \in 1..(N + 1) /\ 2 - 1 = 1 /\ N + 1 \in 1..(N + 1) /\ N + 1 # 1 /\ (N + 1) - 1 = N
            BY <1>1, <2>1
        <3>. QED
            BY <1>2, <3>1
    <2>3. 2 \in kept /\ N + 1 \in kept /\ kept \in SUBSET (1..(N + 1)) /\ 1 \notin kept
        BY <1>1, <1>2, <1>3, <2>1, <2>2
    <2>4. kept # {}
        BY <2>3
    <2>5. str_trim(w) = SubSeq(w, Min(kept), Max(kept))
        BY <2>4 DEF str_trim
    <2>. HIDE DEF kept
    <2>6. Min(kept) = 2
        <3>1. kept \in SUBSET Nat /\ \A m \in kept : 2 <= m
            BY <1>1, <2>3
        <3>. QED
            BY <2>3, <3>1, LeastIs
    <2>7. Max(kept) = N + 1
        <3>2. \A n \in kept : N + 1 >= n
            BY <1>1, <2>3
        <3>3. ASSUME NEW x \in kept, \A y \in kept : x >= y PROVE x = N + 1
            <4>1. x >= N + 1 /\ N + 1 >= x /\ x \in 1..(N + 1)
                BY <2>3, <3>2, <3>3
            <4>. QED
                BY <1>1, <4>1
        <3>. QED
            BY <2>3, <3>2, <3>3 DEF Max
    <2>. DEFINE t == SubSeq(w, 2, N + 1)
    <2>8. t \in Seq(S) /\ Len(t) = N /\ \A k \in 1..N : t[k] = w[k + 1]
        <3>1. \A k \in 2..(N + 1) : w[k] \in S
            BY <1>1, <1>2, ElementOfSeq
        <3>2. /\ t \in Seq(S) /\ Len(t) = IF 2 <= N + 1 THEN N + 1 - 2 + 1 ELSE 0
              /\ \A k \in 1..(N + 1 - 2 + 1) : t[k] = w[2 + k - 1]
            BY <1>1, <3>1, SubSeqProperties
        <3>. HIDE DEF t
        <3>3. N + 1 - 2 + 1 = N /\ 2 <= N + 1 /\ \A k \in 1..N : 2 + k - 1 = k + 1
            BY <1>1, <2>1
        <3>. QED
            BY <3>2, <3>3
    <2>. HIDE DEF t
    <2>9. ASSUME NEW k \in 1..N PROVE t[k] = s[k]
        <3>1. k + 1 \in 1..(N + 1) /\ k + 1 # 1 /\ (k + 1) - 1 = k
            BY <1>1
        <3>. QED
            BY <1>2, <2>8, <3>1
    <2>10. t = s
        BY <2>8, <2>9, SeqEqual
    <2>. QED
        BY <2>5, <2>6, <2>7, <2>10 DEF t, w
<1>. QED
    BY <1>4, <1>5

(* The entries that are left without a key, one entry after the other.     *)
OneKept(kept, e, key) == IF e.key = key THEN kept ELSE Append(kept, e)

(* What is left of the beginnings of a table.                              *)
KeptRun(k, table, key) ==
    /\ k[0] = <<>>
    /\ \A n \in 1..Len(table) : k[n] = OneKept(k[n - 1], table[n], key)

(* Without goes over the table entry by entry.                             *)
LEMMA KeptAre ==
    ASSUME NEW S, NEW table \in Seq(S), NEW key
    PROVE  \E k \in [0..Len(table) -> Seq(S)] :
              KeptRun(k, table, key) /\ Without(table, key) = k[Len(table)]
<1>. DEFINE N == Len(table)
            V == Seq(S)
            F == [p \in (1..N) \X V |-> OneKept(p[2], table[p[1]], key)]
            G(f) == f = [T \in SUBSET (DOMAIN table) |->
                           IF T = {} THEN <<>>
                           ELSE IF table[Max(T)].key = key THEN f[T \ {Max(T)}]
                                ELSE Append(f[T \ {Max(T)}], table[Max(T)])]
            g == CHOOSE f : G(f)
<1>1. N \in Nat /\ DOMAIN table = 1..N /\ \A n \in 1..N : table[n] \in S
    BY LenProperties, ElementOfSeq
<1>2. Without(table, key) = g[DOMAIN table]
    BY Zenon DEF Without, FoldLeft, MapThenFoldSet
<1>3. <<>> \in V
    BY EmptySeq
<1>. HIDE DEF g
<1>4. \A n \in 1..N : \A s \in V : OneKept(s, table[n], key) \in V
    BY <1>1, AppendProperties DEF OneKept
<1>5. F \in [(1..N) \X V -> V]
    BY <1>4
<1>. HIDE DEF V
<1>6. PICK f \in [SUBSET (1..N) -> V] : Recurs(f, <<>>, F, N)
    BY <1>1, <1>3, <1>5, RecursionExists
<1>7. ASSUME NEW T \in SUBSET (1..N)
      PROVE  f[T] = IF T = {} THEN <<>> ELSE OneKept(f[T \ {Max(T)}], table[Max(T)], key)
    <2>1. CASE T # {}
        <3>1. Max(T) \in 1..N
            BY <1>1, <2>1, LargestOf
        <3>2. f[T \ {Max(T)}] \in V
            OBVIOUS
        <3>. QED
            BY <1>6, <2>1, <3>1, <3>2 DEF Recurs
    <2>2. CASE T = {}
        BY <1>6, <2>2 DEF Recurs
    <2>. QED
        BY <2>1, <2>2
<1>8. G(f)
    <2>1. f = [T \in SUBSET (1..N) |-> f[T]]
        OBVIOUS
    <2>. QED
        BY <1>1, <1>7, <2>1, Zenon DEF OneKept
<1>9. G(g)
    <2>. HIDE DEF G
    <2>. QED
        BY <1>8 DEF g
<1>10. \A T \in SUBSET (1..N) :
         g[T] = IF T = {} THEN <<>> ELSE OneKept(g[T \ {Max(T)}], table[Max(T)], key)
    BY <1>1, <1>9, Zenon DEF OneKept
<1>. HIDE DEF G
<1>. DEFINE k == [n \in 0..N |-> g[1..n]]
<1>11. k[0] = <<>>
    <2>1. 1..0 = {} /\ {} \in SUBSET (1..N) /\ 0 \in 0..N
        BY <1>1
    <2>. QED
        BY <1>10, <2>1
<1>12. ASSUME NEW n \in 1..N PROVE k[n] = OneKept(k[n - 1], table[n], key)
    <2>1. n \in Nat \ {0} /\ n \in 0..N /\ n - 1 \in 0..N /\ (1..n) \in SUBSET (1..N)
        BY <1>1
    <2>2. g[1..n] = OneKept(g[1..(n - 1)], table[n], key)
        BY <1>10, <2>1, UpToSet
    <2>. QED
        BY <2>1, <2>2
<1>13. Without(table, key) = k[N]
    BY <1>1, <1>2
<1>14. k = [n \in 0..N |-> k[n]]
    OBVIOUS
<1>. HIDE DEF k
<1>. DEFINE P == {n \in Nat : k[n] \in V}
<1>15. 0 \in P
    BY <1>3, <1>11
<1>16. ASSUME NEW n \in 0..(N - 1), n \in P PROVE n + 1 \in P
    <2>1. n + 1 \in 1..N /\ (n + 1) - 1 = n /\ n + 1 \in Nat
        BY <1>1
    <2>2. k[n + 1] = OneKept(k[n], table[n + 1], key) /\ k[n] \in V
        BY <1>12, <1>16, <2>1
    <2>. QED
        BY <1>4, <2>1, <2>2
<1>. HIDE DEF P, N
<1>17. \A n \in 0..N : n \in P
    BY <1>1, <1>15, <1>16, UpTo
<1>18. \A n \in 0..N : k[n] \in V
    BY <1>17 DEF P
<1>19. k \in [0..N -> V]
    BY <1>14, <1>18
<1>. QED
    BY <1>11, <1>12, <1>13, <1>19 DEF KeptRun, N, V

(* No key twice.                                                           *)
Distinct(table) == \A m, n \in 1..Len(table) : table[m].key = table[n].key => m = n

(* Without drops the entries with the key, keeps the others and the keys   *)
(* different, and leaves a table alone that does not hold the key.         *)
LEMMA WithoutFacts ==
    ASSUME NEW S, NEW table \in Seq(S), NEW key
    PROVE  /\ Without(table, key) \in Seq(S)
           /\ Len(Without(table, key)) <= Len(table)
           /\ Range(Without(table, key)) = {e \in Range(table) : e.key # key}
           /\ Distinct(table) => Distinct(Without(table, key))
           /\ (\A e \in Range(table) : e.key # key) => Without(table, key) = table
<1>. DEFINE N == Len(table)
<1>1. N \in Nat /\ DOMAIN table = 1..N /\ \A n \in 1..N : table[n] \in S
    BY LenProperties, ElementOfSeq
<1>2. PICK k \in [0..N -> Seq(S)] : KeptRun(k, table, key) /\ Without(table, key) = k[N]
    BY KeptAre
<1>. DEFINE From(n) == {table[i] : i \in {j \in 1..n : table[j].key # key}}
            OK(n) == /\ Len(k[n]) <= n
                     /\ Range(k[n]) = From(n)
                     /\ Distinct(table) => Distinct(k[n])
                     /\ (\A e \in Range(table) : e.key # key) => k[n] = SubSeq(table, 1, n)
            P == {n \in Nat : OK(n)}
<1>3. 0 \in P
    <2>1. k[0] = <<>> /\ Len(<<>>) = 0 /\ SubSeq(table, 1, 0) = <<>>
        BY <1>2, EmptySeq, Beginnings DEF KeptRun
    <2>2. From(0) = {} /\ Range(<<>>) = {} /\ Distinct(<<>>)
        BY <2>1 DEF Range, Distinct
    <2>. QED
        BY <2>1, <2>2
<1>4. ASSUME NEW n \in 0..(N - 1), n \in P PROVE n + 1 \in P
    <2>. DEFINE s == k[n]
                e == table[n + 1]
    <2>1. n + 1 \in 1..N /\ (n + 1) - 1 = n /\ n + 1 \in Nat /\ n \in Nat /\ n \in 0..N
        BY <1>1
    <2>2. k[n + 1] = OneKept(s, e, key) /\ s \in Seq(S) /\ e \in S /\ e \in Range(table)
        BY <1>1, <1>2, <2>1 DEF KeptRun, Range
    <2>3. OK(n)
        BY <1>4
    <2>4. CASE e.key = key
        <3>1. k[n + 1] = s
            BY <2>2, <2>4 DEF OneKept
        <3>2. From(n + 1) = From(n)
            BY <2>1, <2>4
        <3>3. Len(s) <= n + 1
            BY <2>1, <2>2, <2>3, LenProperties
        <3>4. OK(n + 1)
            BY <2>2, <2>3, <2>4, <3>1, <3>2, <3>3
        <3>. QED
            BY <2>1, <3>4
    <2>5. CASE e.key # key
        <3>. DEFINE t == Append(s, e)
                    L == Len(s)
        <3>1. k[n + 1] = t
            BY <2>2, <2>5 DEF OneKept
        <3>2. /\ L \in Nat /\ t \in Seq(S) /\ Len(t) = L + 1 /\ DOMAIN t = 1..(L + 1)
              /\ DOMAIN s = 1..L
              /\ \A i \in 1..(L + 1) : t[i] = IF i = L + 1 THEN e ELSE s[i]
            <4>1. /\ t \in Seq(S) /\ Len(t) = Len(s) + 1
                  /\ \A i \in 1..(Len(s) + 1) : t[i] = IF i = Len(s) + 1 THEN e ELSE s[i]
                BY <2>2, AppendElements
            <4>. HIDE DEF t, s, e
            <4>2. L \in Nat /\ DOMAIN s = 1..L /\ DOMAIN t = 1..Len(t)
                BY <2>2, <4>1, LenProperties
            <4>. QED
                BY <4>1, <4>2
        <3>3. From(n + 1) = From(n) \cup {e}
            BY <2>1, <2>5
        <3>. HIDE DEF t, From
        <3>4. L <= n /\ Range(s) = From(n)
            BY <2>3
        <3>5. Range(t) = Range(s) \cup {e}
            <4>1. L + 1 \in DOMAIN t /\ t[L + 1] = e
                BY <3>2
            <4>2. \A i \in DOMAIN s : i \in DOMAIN t /\ t[i] = s[i]
                BY <3>2
            <4>3. \A i \in DOMAIN t : i = L + 1 \/ i \in DOMAIN s
                <5>1. \A i \in 1..(L + 1) : i = L + 1 \/ i \in 1..L
                    BY <3>2
                <5>. QED
                    BY <3>2, <5>1
            <4>. QED
                BY <4>1, <4>2, <4>3 DEF Range
        <3>6. ASSUME Distinct(table) PROVE Distinct(t)
            <4>1. Distinct(s)
                BY <2>3, <3>6
            <4>2. ASSUME NEW i \in 1..L PROVE s[i].key # e.key
                <5>1. s[i] \in From(n)
                    BY <3>2, <3>4 DEF Range
                <5>2. PICK j \in 1..n : s[i] = table[j]
                    BY <5>1 DEF From
                <5>3. j \in 1..N /\ j # n + 1
                    BY <1>1, <2>1
                <5>. QED
                    BY <2>1, <3>6, <5>2, <5>3 DEF Distinct
            <4>3. ASSUME NEW i \in 1..(L + 1), NEW j \in 1..(L + 1), t[i].key = t[j].key
                  PROVE  i = j
                <5>1. CASE i = L + 1 /\ j # L + 1
                    <6>1. j \in 1..L /\ t[i] = e /\ t[j] = s[j]
                        BY <3>2, <5>1
                    <6>. QED
                        BY <4>2, <4>3, <6>1
                <5>2. CASE i # L + 1 /\ j = L + 1
                    <6>1. i \in 1..L /\ t[j] = e /\ t[i] = s[i]
                        BY <3>2, <5>2
                    <6>. QED
                        BY <4>2, <4>3, <6>1
                <5>3. CASE i # L + 1 /\ j # L + 1
                    <6>1. i \in 1..L /\ j \in 1..L /\ t[j] = s[j] /\ t[i] = s[i]
                        BY <3>2, <5>3
                    <6>. QED
                        BY <4>1, <4>3, <6>1 DEF Distinct
                <5>. QED
                    BY <5>1, <5>2, <5>3
            <4>. QED
                BY <3>2, <4>3 DEF Distinct
        <3>7. ASSUME \A x \in Range(table) : x.key # key PROVE t = SubSeq(table, 1, n + 1)
            <4>1. s = SubSeq(table, 1, n)
                BY <2>3, <3>7
            <4>2. SubSeq(table, 1, n + 1) = Append(SubSeq(table, 1, n), table[n + 1])
                BY Beginnings
            <4>. QED
                BY <4>1, <4>2 DEF t
        <3>8. Len(t) <= n + 1
            BY <2>1, <3>2, <3>4
        <3>9. OK(n + 1)
            BY <3>1, <3>3, <3>4, <3>5, <3>6, <3>7, <3>8
        <3>. QED
            BY <2>1, <3>9
    <2>. QED
        BY <2>4, <2>5
<1>. HIDE DEF P
<1>5. N \in P
    <2>. HIDE DEF N, OK, From
    <2>1. \A n \in 0..N : n \in P
        BY <1>1, <1>3, <1>4, UpTo
    <2>. QED
        BY <1>1, <2>1
<1>6. OK(N)
    BY <1>5 DEF P
<1>7. From(N) = {e \in Range(table) : e.key # key}
    BY <1>1 DEF Range
<1>8. SubSeq(table, 1, N) = table
    BY Beginnings
<1>9. k[N] \in Seq(S)
    BY <1>1
<1>. QED
    BY <1>2, <1>6, <1>7, <1>8, <1>9


(* An entry more, or the table as it was when it is full.                  *)
LEMMA PutLastType ==
    ASSUME NEW table \in Seq(Item), NEW key \in Text, NEW val \in Text
    PROVE  PutLast(table, key, val) \in Seq(Item)
<1>1. Without(table, key) \in Seq(Item)
    BY WithoutFacts
<1>2. Entry(key, val) \in Item
    BY DEF Entry, Item
<1>3. Append(Without(table, key), Entry(key, val)) \in Seq(Item)
    BY <1>1, <1>2, AppendProperties
<1>. QED
    BY <1>1, <1>3 DEF PutLast

(* One line read into a table leaves a table.                              *)
LEMMA OneExtractedType ==
    ASSUME NEW table \in Seq(Item), NEW line \in Text, NEW delim
    PROVE  request_extract_key_value(table, line, delim) \in Seq(Item)
<1>. DEFINE p == strchr(line, 1, delim)
            hits == {k \in 1..Len(line) : line[k] = delim}
            a == SubSeq(line, 1, p - 1)
            b == SubSeq(line, p + 1, Len(line))
<1>1. Len(line) \in Nat /\ \A k \in 1..Len(line) : line[k] \in Token
    BY LenProperties, ElementOfSeq DEF Text
<1>2. CASE p = 0
    BY <1>2 DEF request_extract_key_value
<1>3. CASE p # 0
    <2>1. hits # {} /\ p = Min(hits)
        BY <1>3 DEF strchr
    <2>2. hits \in SUBSET Nat /\ hits \in SUBSET (1..Len(line))
        BY <1>1
    <2>3. p \in 1..Len(line)
        <3>. HIDE DEF p, hits
        <3>. QED
            BY <2>1, <2>2, LeastOf
    <2>. HIDE DEF p, hits
    <2>4. a \in Text /\ b \in Text
        <3>1. (\A k \in 1..(p - 1) : line[k] \in Token)
              /\ \A k \in (p + 1)..Len(line) : line[k] \in Token
            BY <1>1, <2>3
        <3>2. p - 1 \in Int /\ p + 1 \in Int /\ Len(line) \in Int
            BY <1>1, <2>3
        <3>. QED
            BY <3>1, <3>2, SubSeqProperties DEF Text
    <2>5. request_extract_key_value(table, line, delim) = PutLast(table, str_trim(a), str_trim(b))
        BY <1>3 DEF request_extract_key_value, p
    <2>. HIDE DEF a, b
    <2>6. str_trim(a) \in Text /\ str_trim(b) \in Text
        BY <2>4, TrimFacts DEF Text
    <2>. QED
        BY <2>5, <2>6, PutLastType
<1>. QED
    BY <1>2, <1>3

(* The tables after the beginnings of the lines.                           *)
ExtractRun(k, lines, delim) ==
    /\ k[0] = <<>>
    /\ \A n \in 1..Len(lines) : k[n] = request_extract_key_value(k[n - 1], lines[n], delim)

(* Extract reads the lines one after the other.                            *)
LEMMA ExtractAre ==
    ASSUME NEW lines \in Seq(Text), NEW delim
    PROVE  \E k : ExtractRun(k, lines, delim) /\ Extract(lines, delim) = k[Len(lines)]
<1>. DEFINE N == Len(lines)
            V == Seq(Item)
            Op(table, line) == request_extract_key_value(table, line, delim)
            F == [p \in (1..N) \X V |-> Op(p[2], lines[p[1]])]
            G(f) == f = [T \in SUBSET (DOMAIN lines) |->
                           IF T = {} THEN <<>> ELSE Op(f[T \ {Max(T)}], lines[Max(T)])]
            g == CHOOSE f : G(f)
<1>1. N \in Nat /\ DOMAIN lines = 1..N /\ \A n \in 1..N : lines[n] \in Text
    BY LenProperties, ElementOfSeq
<1>2. Extract(lines, delim) = g[DOMAIN lines]
    BY Zenon DEF Extract, FoldLeft, MapThenFoldSet
<1>3. <<>> \in V
    BY EmptySeq
<1>. HIDE DEF g
<1>4. \A n \in 1..N : \A s \in V : Op(s, lines[n]) \in V
    BY <1>1, OneExtractedType
<1>. HIDE DEF Op
<1>5. F \in [(1..N) \X V -> V]
    BY <1>4
<1>. HIDE DEF V
<1>6. PICK f \in [SUBSET (1..N) -> V] : Recurs(f, <<>>, F, N)
    BY <1>1, <1>3, <1>5, RecursionExists
<1>7. ASSUME NEW T \in SUBSET (1..N)
      PROVE  f[T] = IF T = {} THEN <<>> ELSE Op(f[T \ {Max(T)}], lines[Max(T)])
    <2>1. CASE T # {}
        <3>1. Max(T) \in 1..N
            BY <1>1, <2>1, LargestOf
        <3>2. f[T \ {Max(T)}] \in V
            OBVIOUS
        <3>. QED
            BY <1>6, <2>1, <3>1, <3>2 DEF Recurs
    <2>2. CASE T = {}
        BY <1>6, <2>2 DEF Recurs
    <2>. QED
        BY <2>1, <2>2
<1>8. G(f)
    <2>1. f = [T \in SUBSET (1..N) |-> f[T]]
        OBVIOUS
    <2>. QED
        BY <1>1, <1>7, <2>1, Zenon
<1>9. G(g)
    <2>. HIDE DEF G
    <2>. QED
        BY <1>8 DEF g
<1>10. \A T \in SUBSET (1..N) :
         g[T] = IF T = {} THEN <<>> ELSE Op(g[T \ {Max(T)}], lines[Max(T)])
    BY <1>1, <1>9, Zenon
<1>. HIDE DEF G
<1>. DEFINE k == [n \in 0..N |-> g[1..n]]
<1>11. k[0] = <<>>
    <2>1. 1..0 = {} /\ {} \in SUBSET (1..N) /\ 0 \in 0..N
        BY <1>1
    <2>. QED
        BY <1>10, <2>1
<1>12. ASSUME NEW n \in 1..N PROVE k[n] = Op(k[n - 1], lines[n])
    <2>1. n \in Nat \ {0} /\ n \in 0..N /\ n - 1 \in 0..N /\ (1..n) \in SUBSET (1..N)
        BY <1>1
    <2>2. g[1..n] = Op(g[1..(n - 1)], lines[n])
        BY <1>10, <2>1, UpToSet
    <2>. QED
        BY <2>1, <2>2
<1>13. Extract(lines, delim) = k[N]
    BY <1>1, <1>2
<1>. HIDE DEF k
<1>. QED
    BY <1>11, <1>12, <1>13 DEF ExtractRun, Op

(* The two ways to write an entry, and the delimiter that its reader looks *)
(* for.                                                                    *)
Delims == {<<(<<COLON, SP>>), COLON>>, <<(<<EQ>>), EQ>>}

(* An entry that can be told from its line.                                *)
Fits(e) ==
    /\ e \in Item
    /\ Trimmed(e.key) /\ Trimmed(e.val)
    /\ Range(e.key) \cap {COLON, EQ, LF} = {}
    /\ LF \notin Range(e.val)

(* request_extract_key_value reads from an entry's line that entry: the    *)
(* key holds neither delimiter, so that the first one in the line is the   *)
(* one that was written, whatever the value holds.                         *)
LEMMA LineSaysEntry ==
    ASSUME NEW table, NEW e, Fits(e), NEW d \in Delims
    PROVE  request_extract_key_value(table, LineOf(e, d[1]), d[2]) = PutLast(table, e.key, e.val)
<1>1. e.key \in Seq(Token) /\ e.val \in Seq(Token) /\ Trimmed(e.key) /\ Trimmed(e.val)
      /\ COLON \notin Range(e.key) /\ EQ \notin Range(e.key)
    BY DEF Fits, Item, Text
<1>2. SP \in Token /\ COLON \in Token /\ EQ \in Token
    BY TokenAssumption
<1>. DEFINE key == e.key
            val == e.val
<1>3. ASSUME NEW c \in Token, c \notin Range(key), NEW rest \in Seq(Token), str_trim(rest) = val
      PROVE  request_extract_key_value(table, Cat(key, Cat(<<c>>, rest)), c)
               = PutLast(table, key, val)
    <2>. DEFINE line == Cat(key, Cat(<<c>>, rest))
    <2>1. key \in Seq(Token) /\ Trimmed(key)
        BY <1>1
    <2>. HIDE DEF key, val
    <2>2. c \in Token /\ c \notin Range(key) /\ rest \in Seq(Token)
          /\ line = Cat(key, Cat(<<c>>, rest))
        BY <1>3
    <2>. HIDE DEF line
    <2>3. strchr(line, 1, c) # 0
        BY <2>1, <2>2, FirstIsThere
    <2>4. Before(line, c) = key
        BY <2>1, <2>2, FirstIsThere
    <2>5. After(line, c) = rest
        BY <2>1, <2>2, FirstIsThere
    <2>6. str_trim(key) = key
        BY <2>1, TrimOfTrimmed
    <2>7. request_extract_key_value(table, line, c)
            = PutLast(table, str_trim(Before(line, c)), str_trim(After(line, c)))
        BY <2>3 DEF request_extract_key_value, Before, After
    <2>. QED
        BY <1>3, <2>4, <2>5, <2>6, <2>7 DEF line
<1>4. CASE d = <<(<<COLON, SP>>), COLON>>
    <2>. DEFINE rest == <<SP>> \o val
                sp == <<SP>>
                co == <<COLON>>
    <2>1. rest \in Seq(Token) /\ str_trim(rest) = val
        BY <1>1, <1>2, ConcatProperties, TrimOfBlank
    <2>2. d[1] = <<COLON, SP>> /\ d[2] = COLON
        BY <1>4
    <2>3. <<COLON, SP>> = Cat(co, sp) /\ co \in Seq(Token) /\ sp \in Seq(Token)
        BY <1>2 DEF Cat
    <2>4. rest = Cat(sp, val)
        BY DEF Cat
    <2>5. LineOf(e, d[1]) = Cat(Cat(key, <<COLON, SP>>), val)
        BY <2>2 DEF LineOf, Cat
    <2>6. key \in Seq(Token) /\ val \in Seq(Token)
        BY <1>1
    <2>. HIDE DEF rest, sp, co, key, val
    <2>7. Cat(Cat(key, Cat(co, sp)), val) = Cat(key, Cat(co, Cat(sp, val)))
        BY <2>3, <2>6, CatFacts
    <2>8. LineOf(e, d[1]) = Cat(key, Cat(<<COLON>>, rest))
        BY <2>3, <2>4, <2>5, <2>7 DEF co
    <2>9. COLON \notin Range(key)
        BY <1>1 DEF key
    <2>10. request_extract_key_value(table, LineOf(e, d[1]), COLON) = PutLast(table, key, val)
        BY <1>2, <1>3, <2>1, <2>8, <2>9
    <2>. QED
        BY <2>2, <2>10 DEF key, val
<1>5. CASE d = <<(<<EQ>>), EQ>>
    <2>1. val \in Seq(Token) /\ str_trim(val) = val
        BY <1>1, TrimOfTrimmed
    <2>2. d[1] = <<EQ>> /\ d[2] = EQ
        BY <1>5
    <2>3. <<EQ>> \in Seq(Token)
        BY <1>2
    <2>4. LineOf(e, d[1]) = Cat(Cat(key, <<EQ>>), val)
        BY <2>2 DEF LineOf, Cat
    <2>5. key \in Seq(Token)
        BY <1>1
    <2>. HIDE DEF key, val
    <2>6. Cat(Cat(key, <<EQ>>), val) = Cat(key, Cat(<<EQ>>, val))
        <3>. DEFINE eq == <<EQ>>
        <3>1. eq \in Seq(Token)
            BY <2>3
        <3>. HIDE DEF eq
        <3>2. Cat(Cat(key, eq), val) = Cat(key, Cat(eq, val))
            BY <2>1, <2>5, <3>1, CatFacts
        <3>. QED
            BY <3>2 DEF eq
    <2>7. EQ \notin Range(key)
        BY <1>1 DEF key
    <2>8. request_extract_key_value(table, Cat(key, Cat(<<EQ>>, val)), EQ) = PutLast(table, key, val)
        BY <1>2, <1>3, <2>1, <2>7
    <2>. QED
        BY <2>2, <2>4, <2>6, <2>8 DEF key, val
<1>. QED
    BY <1>4, <1>5 DEF Delims

(* A table that has room for its entries is read from its lines.           *)
LEMMA TableReadsBack ==
    ASSUME NEW table \in Seq(Item), Distinct(table), Len(table) < MaxParam,
           \A n \in 1..Len(table) : Fits(table[n]),
           NEW d \in Delims, NEW lines \in Seq(Text), Len(lines) >= Len(table),
           \A n \in 1..Len(table) : lines[n] = LineOf(table[n], d[1]),
           \A n \in (Len(table) + 1)..Len(lines) : lines[n] = <<>>
    PROVE  Extract(lines, d[2]) = table
<1>. DEFINE N == Len(table)
            L == Len(lines)
<1>1. N \in Nat /\ L \in Nat /\ DOMAIN table = 1..N /\ (\A n \in 1..N : table[n] \in Item)
      /\ MaxParam \in Nat
    BY LenProperties, ElementOfSeq, TableAssumption
<1>2. PICK k : ExtractRun(k, lines, d[2]) /\ Extract(lines, d[2]) = k[L]
    BY ExtractAre
<1>. DEFINE P == {n \in Nat : n <= N => k[n] = SubSeq(table, 1, n)}
<1>3. 0 \in P
    BY <1>2, Beginnings DEF ExtractRun
<1>4. ASSUME NEW n \in 0..(N - 1), n \in P PROVE n + 1 \in P
    <2>. DEFINE s == SubSeq(table, 1, n)
                e == table[n + 1]
    <2>1. n \in 0..N /\ n + 1 \in 1..N /\ n + 1 \in 1..L /\ (n + 1) - 1 = n /\ n + 1 \in Nat
        BY <1>1
    <2>2. k[n + 1] = request_extract_key_value(s, LineOf(e, d[1]), d[2])
        <3>1. k[n + 1] = request_extract_key_value(k[n], lines[n + 1], d[2])
            BY <1>2, <2>1 DEF ExtractRun
        <3>2. k[n] = s
            BY <1>4, <2>1
        <3>. QED
            BY <2>1, <3>1, <3>2
    <2>3. s \in Seq(Item) /\ Len(s) = n /\ SubSeq(table, 1, n + 1) = Append(s, e)
        BY <2>1, Beginnings
    <2>4. \A x \in Range(s) : x.key # e.key
        <3>1. \A i \in 1..n : s[i] = table[i]
            <4>1. n + 1 \in 1..(Len(table) + 1) /\ (n + 1) - 1 = n
                BY <1>1, <2>1
            <4>. DEFINE j == n + 1
            <4>. HIDE DEF j
            <4>2. \A i \in 1..(j - 1) : SubSeq(table, 1, j - 1)[i] = table[i]
                BY <4>1, SplitAt DEF j
            <4>. QED
                BY <4>1, <4>2 DEF j
        <3>2. DOMAIN s = 1..n
            BY <2>3, LenProperties
        <3>3. \A i \in 1..n : i \in 1..N /\ i # n + 1
            BY <1>1, <2>1
        <3>4. \A i \in 1..n : table[i].key # e.key
            BY <2>1, <3>3 DEF Distinct
        <3>. QED
            BY <3>1, <3>2, <3>4 DEF Range
    <2>5. Fits(e) /\ e \in Item
        BY <1>1, <2>1
    <2>. HIDE DEF s, e
    <2>6. k[n + 1] = PutLast(s, e.key, e.val)
        BY <2>2, <2>5, LineSaysEntry
    <2>7. Without(s, e.key) = s
        BY <2>3, <2>4, WithoutFacts
    <2>8. n # MaxParam - 1
        BY <1>1, <2>1
    <2>9. Entry(e.key, e.val) = e
        BY <2>5 DEF Entry, Item
    <2>10. k[n + 1] = Append(s, e)
        BY <2>3, <2>6, <2>7, <2>8, <2>9 DEF PutLast
    <2>. QED
        BY <2>1, <2>3, <2>10
<1>. HIDE DEF P
<1>5. N \in P
    <2>. HIDE DEF N, L
    <2>1. \A n \in 0..N : n \in P
        BY <1>1, <1>3, <1>4, UpTo
    <2>. QED
        BY <1>1, <2>1
<1>6. k[N] = table
    <2>1. k[N] = SubSeq(table, 1, N)
        BY <1>1, <1>5 DEF P
    <2>. QED
        BY <2>1, Beginnings
<1>. DEFINE Q == {n \in Nat : n >= N /\ n <= L => k[n] = table}
<1>7. 0 \in Q
    BY <1>1, <1>6
<1>8. ASSUME NEW n \in 0..(L - 1), n \in Q PROVE n + 1 \in Q
    <2>1. n + 1 \in 1..L /\ (n + 1) - 1 = n /\ n + 1 \in Nat /\ n \in Nat
        BY <1>1
    <2>2. CASE n + 1 = N
        BY <1>6, <2>1, <2>2
    <2>3. CASE n + 1 # N /\ n + 1 >= N
        <3>1. n >= N /\ n <= L /\ n + 1 \in (N + 1)..L
            <4>1. n \in Nat /\ N \in Nat /\ L \in Nat /\ n + 1 <= L
                BY <1>1, <2>1
            <4>. HIDE DEF N, L
            <4>. QED
                BY <2>3, <4>1
        <3>2. k[n] = table
            BY <1>8, <3>1
        <3>3. lines[n + 1] = <<>>
            BY <3>1
        <3>4. k[n + 1] = request_extract_key_value(table, <<>>, d[2])
            BY <1>2, <2>1, <3>2, <3>3 DEF ExtractRun
        <3>5. strchr(<<>>, 1, d[2]) = 0
            <4>. DEFINE hits == {i \in 1..Len(<<>>) : <<>>[i] = d[2]}
            <4>1. hits = {}
                BY EmptySeq
            <4>. QED
                BY <4>1 DEF strchr
        <3>6. k[n + 1] = table
            BY <3>4, <3>5 DEF request_extract_key_value
        <3>. QED
            BY <2>1, <3>6
    <2>4. CASE ~(n + 1 >= N)
        BY <2>1, <2>4
    <2>. QED
        BY <2>2, <2>3, <2>4
<1>. HIDE DEF Q
<1>9. L \in Q
    <2>. HIDE DEF N, L
    <2>1. \A n \in 0..L : n \in Q
        BY <1>1, <1>7, <1>8, UpTo
    <2>. QED
        BY <1>1, <2>1
<1>10. k[L] = table
    BY <1>1, <1>9 DEF Q
<1>. QED
    BY <1>2, <1>10

(* One line, some more, an empty one, some more, and an empty one.         *)
MessageOf(lines, t, u, x, v) == lines = <<t>> \o (u \o (<<x>> \o (v \o <<x>>)))

(* The first x behind the first element, and what is before it and after.  *)
FirstEmpty(lines, x) == Min({n \in 2..(Len(lines) + 1) : n > Len(lines) \/ lines[n] = x})
AboveEmpty(lines, x) == SubSeq(lines, 2, FirstEmpty(lines, x) - 1)
BelowEmpty(lines, x) == SubSeq(lines, FirstEmpty(lines, x) + 1, Len(lines))

(* What request_parse takes for the first line, for the headers and for    *)
(* the parameters.                                                         *)
ReadAs(lines, t, u, x, v) ==
    lines[1] = t /\ AboveEmpty(lines, x) = u /\ BelowEmpty(lines, x) = v \o <<x>>

(* With no empty line among the headers, the first empty line is the one   *)
(* behind them.                                                            *)
LEMMA LinesOfMessage ==
    ASSUME NEW S, NEW t \in S, NEW u \in Seq(S), NEW v \in Seq(S), NEW x \in S,
           x \notin Range(u),
           NEW lines, MessageOf(lines, t, u, x, v)
    PROVE  ReadAs(lines, t, u, x, v)
<1>. DEFINE a == Len(u)
            z == v \o <<x>>
            b == Len(z)
            y == <<x>> \o z
            w == u \o y
            l == <<t>> \o w
<1>1. a \in Nat /\ \A n \in 1..a : u[n] \in S /\ u[n] # x
    BY LenProperties, ElementOfSeq DEF Range
<1>2. z \in Seq(S) /\ b \in Nat
    <2>1. <<x>> \in Seq(S)
        OBVIOUS
    <2>2. z \in Seq(S)
        BY <2>1, ConcatProperties
    <2>. HIDE DEF z
    <2>. QED
        BY <2>2, LenProperties
<1>. HIDE DEF z
<1>3. y \in Seq(S) /\ Len(y) = b + 1 /\ \A n \in 1..(b + 1) : y[n] = IF n = 1 THEN x ELSE z[n - 1]
    BY <1>2, ConsElements
<1>. HIDE DEF y
<1>4. /\ w \in Seq(S) /\ Len(w) = a + (b + 1)
      /\ \A n \in 1..(a + (b + 1)) : w[n] = IF n <= a THEN u[n] ELSE y[n - a]
    <2>1. /\ w \in Seq(S) /\ Len(w) = Len(u) + Len(y)
          /\ \A n \in 1..(Len(u) + Len(y)) : w[n] = IF n <= Len(u) THEN u[n] ELSE y[n - Len(u)]
        BY <1>3, ConcatProperties
    <2>. HIDE DEF w
    <2>. QED
        BY <1>3, <2>1
<1>. HIDE DEF w
<1>5. /\ l \in Seq(S) /\ Len(l) = a + b + 2
      /\ \A n \in 1..(a + b + 2) : l[n] = IF n = 1 THEN t ELSE w[n - 1]
    <2>0. w \in Seq(S)
        BY <1>4
    <2>1. /\ l \in Seq(S) /\ Len(l) = Len(w) + 1
          /\ \A n \in 1..(Len(w) + 1) : l[n] = IF n = 1 THEN t ELSE w[n - 1]
        <3>1. l \in Seq(S)
            BY <2>0, ConsElements
        <3>2. Len(l) = Len(w) + 1
            BY <2>0, ConsElements
        <3>3. \A n \in 1..(Len(w) + 1) : l[n] = IF n = 1 THEN t ELSE w[n - 1]
            BY <2>0, ConsElements
        <3>. QED
            BY <3>1, <3>2, <3>3
    <2>. HIDE DEF l
    <2>2. Len(w) + 1 = a + b + 2
        BY <1>1, <1>2, <1>4
    <2>. QED
        BY <2>1, <2>2
<1>6. lines = l
    BY DEF MessageOf, w, y, z
<1>. HIDE DEF l
<1>7. ASSUME NEW n \in 1..a PROVE l[n + 1] = u[n]
    <2>1. n + 1 \in 1..(a + b + 2) /\ n + 1 # 1 /\ (n + 1) - 1 = n /\ n \in 1..(a + (b + 1)) /\ n <= a
        BY <1>1, <1>2
    <2>. QED
        BY <1>4, <1>5, <2>1
<1>8. l[a + 2] = x
    <2>1. /\ a + 2 \in 1..(a + b + 2) /\ a + 2 # 1 /\ (a + 2) - 1 = a + 1
          /\ a + 1 \in 1..(a + (b + 1)) /\ ~(a + 1 <= a) /\ (a + 1) - a = 1 /\ 1 \in 1..(b + 1)
        BY <1>1, <1>2
    <2>2. l[a + 2] = w[a + 1]
        BY <1>5, <2>1
    <2>3. w[a + 1] = y[1]
        BY <1>4, <2>1
    <2>4. y[1] = x
        BY <1>3, <2>1
    <2>. QED
        BY <2>2, <2>3, <2>4
<1>9. ASSUME NEW n \in 1..b PROVE l[a + 2 + n] = z[n]
    <2>1. /\ a + 2 + n \in 1..(a + b + 2) /\ a + 2 + n # 1 /\ (a + 2 + n) - 1 = a + 1 + n
          /\ a + 1 + n \in 1..(a + (b + 1)) /\ ~(a + 1 + n <= a) /\ (a + 1 + n) - a = n + 1
          /\ n + 1 \in 1..(b + 1) /\ n + 1 # 1 /\ (n + 1) - 1 = n
        BY <1>1, <1>2
    <2>2. l[a + 2 + n] = y[n + 1]
        BY <1>4, <1>5, <2>1
    <2>. QED
        BY <1>3, <2>1, <2>2
<1>10. l[1] = t
    <2>1. 1 \in 1..(a + b + 2)
        BY <1>1, <1>2
    <2>. QED
        BY <1>5, <2>1
<1>11. Min({n \in 2..(Len(l) + 1) : n > Len(l) \/ l[n] = x}) = a + 2
    <2>. DEFINE T == {n \in 2..(Len(l) + 1) : n > Len(l) \/ l[n] = x}
    <2>1. T \in SUBSET Nat /\ a + 2 \in T
        BY <1>1, <1>2, <1>5, <1>8
    <2>2. ASSUME NEW n \in T, ~(a + 2 <= n) PROVE FALSE
        <3>0. n \in 2..(Len(l) + 1) /\ Len(l) = a + b + 2 /\ a \in Nat /\ b \in Nat
            BY <1>1, <1>2, <1>5
        <3>1. n \in 2..(a + 1) /\ n - 1 \in 1..a /\ (n - 1) + 1 = n /\ ~(n > Len(l))
            BY <2>2, <3>0
        <3>2. l[n] = u[n - 1] /\ l[n] = x
            BY <1>7, <2>2, <3>1
        <3>. QED
            BY <1>1, <3>1, <3>2
    <2>3. \A n \in T : a + 2 <= n
        BY <2>2
    <2>. HIDE DEF T
    <2>4. Min(T) = a + 2
        BY <2>1, <2>3, LeastIs
    <2>. QED
        BY <2>4 DEF T
<1>12. SubSeq(l, 2, a + 1) = u
    <2>. DEFINE s == SubSeq(l, 2, a + 1)
    <2>1. s \in Seq(S) /\ Len(s) = a /\ \A n \in 1..a : s[n] = l[n + 1]
        <3>1. \A n \in 2..(a + 1) : l[n] \in S
            BY <1>1, <1>2, <1>5, ElementOfSeq
        <3>2. /\ s \in Seq(S) /\ Len(s) = IF 2 <= a + 1 THEN (a + 1) - 2 + 1 ELSE 0
              /\ \A n \in 1..((a + 1) - 2 + 1) : s[n] = l[2 + n - 1]
            BY <1>1, <3>1, SubSeqProperties
        <3>3. (a + 1) - 2 + 1 = a /\ (~(2 <= a + 1) => a = 0) /\ \A n \in 1..a : 2 + n - 1 = n + 1
            BY <1>1
        <3>. HIDE DEF s
        <3>. QED
            BY <3>2, <3>3
    <2>. HIDE DEF s
    <2>2. \A n \in 1..a : s[n] = u[n]
        BY <1>7, <2>1
    <2>3. s = u
        BY <2>1, <2>2, SeqEqual
    <2>. QED
        BY <2>3 DEF s
<1>13. SubSeq(l, a + 3, Len(l)) = z
    <2>. DEFINE s == SubSeq(l, a + 3, Len(l))
    <2>1. s \in Seq(S) /\ Len(s) = b /\ \A n \in 1..b : s[n] = l[a + 2 + n]
        <3>1. \A n \in (a + 3)..(a + b + 2) : l[n] \in S
            BY <1>1, <1>2, <1>5, ElementOfSeq
        <3>2. /\ s \in Seq(S)
              /\ Len(s) = IF a + 3 <= a + b + 2 THEN (a + b + 2) - (a + 3) + 1 ELSE 0
              /\ \A n \in 1..((a + b + 2) - (a + 3) + 1) : s[n] = l[a + 3 + n - 1]
            BY <1>1, <1>2, <1>5, <3>1, SubSeqProperties
        <3>3. (a + b + 2) - (a + 3) + 1 = b /\ (~(a + 3 <= a + b + 2) => b = 0)
              /\ \A n \in 1..b : a + 3 + n - 1 = a + 2 + n
            BY <1>1, <1>2
        <3>. HIDE DEF s
        <3>. QED
            BY <3>2, <3>3
    <2>. HIDE DEF s
    <2>2. \A n \in 1..b : s[n] = z[n]
        BY <1>9, <2>1
    <2>3. s = z
        BY <1>2, <2>1, <2>2, SeqEqual
    <2>. QED
        BY <2>3 DEF s
<1>. QED
    <2>1. FirstEmpty(l, x) = a + 2
        BY <1>11 DEF FirstEmpty
    <2>2. (a + 2) - 1 = a + 1 /\ (a + 2) + 1 = a + 3
        BY <1>1
    <2>. HIDE DEF a
    <2>3. AboveEmpty(l, x) = u /\ BelowEmpty(l, x) = z
        BY <1>12, <1>13, <2>1, <2>2 DEF AboveEmpty, BelowEmpty
    <2>. QED
        BY <1>6, <1>10, <2>3 DEF ReadAs, z

(* A table that can be written and read.                                   *)
Good(table) ==
    /\ table \in Seq(Item) /\ Distinct(table) /\ Len(table) < MaxParam
    /\ \A n \in 1..Len(table) : Fits(table[n])

(* The lines that are written for such a table are its entries, and none   *)
(* is empty.                                                               *)
LEMMA GoodLines ==
    ASSUME NEW table, Good(table), NEW d \in Delims
    PROVE  /\ LinesOf(table, d[1]) \in Seq(Text) /\ Len(LinesOf(table, d[1])) = Len(table)
           /\ \A n \in 1..Len(table) : /\ LinesOf(table, d[1])[n] = LineOf(table[n], d[1])
                                       /\ LinesOf(table, d[1])[n] # <<>>
           /\ Spelled(table, d[1], <<LF>>) \in Text
           /\ Splits(Spelled(table, d[1], <<LF>>), LinesOf(table, d[1]), Token)
<1>. DEFINE e == d[1]
            ls == LinesOf(table, e)
            N == Len(table)
<1>1. COLON # LF /\ SP # LF /\ EQ # LF
    BY DEF COLON, SP, EQ, LF
<1>2. e \in Text /\ e # <<>> /\ OneLine(e)
    <2>1. CASE d = <<(<<COLON, SP>>), COLON>>
        <3>1. e = <<COLON, SP>>
            BY <2>1
        <3>2. e \in Text
            BY <3>1, TokenAssumption DEF Text
        <3>3. DOMAIN e = 1..2 /\ e[1] = COLON /\ e[2] = SP
            BY <3>1
        <3>4. Range(e) = {COLON, SP}
            BY <3>3 DEF Range
        <3>5. e # <<>>
            BY <3>1
        <3>. QED
            BY <1>1, <3>2, <3>4, <3>5 DEF OneLine
    <2>2. CASE d = <<(<<EQ>>), EQ>>
        <3>1. e = <<EQ>>
            BY <2>2
        <3>2. e \in Text
            BY <3>1, TokenAssumption DEF Text
        <3>3. DOMAIN e = 1..1 /\ e[1] = EQ
            BY <3>1
        <3>4. Range(e) = {EQ}
            BY <3>3 DEF Range
        <3>5. e # <<>>
            BY <3>1
        <3>. QED
            BY <1>1, <3>2, <3>4, <3>5 DEF OneLine
    <2>. QED
        BY <2>1, <2>2 DEF Delims
<1>. HIDE DEF e
<1>3. table \in Table /\ table \in Seq(Item) /\ N \in Nat /\ DOMAIN table = 1..N
    BY LenProperties DEF Good, Table, Item
<1>4. \A n \in 1..N : table[n] \in Item /\ OneLine(table[n].key) /\ OneLine(table[n].val)
    BY DEF Good, Fits, OneLine
<1>5. Spelled(table, e, <<LF>>) \in Text /\ ls \in Seq(Text) /\ Splits(Spelled(table, e, <<LF>>), ls, Token)
    BY <1>2, <1>3, <1>4, SpelledLines
<1>6. DOMAIN ls = 1..N /\ \A n \in 1..N : ls[n] = LineOf(table[n], e)
    BY <1>3 DEF LinesOf
<1>. HIDE DEF ls
<1>7. Len(ls) = N
    BY <1>3, <1>5, <1>6, LenProperties
<1>8. ASSUME NEW n \in 1..N PROVE ls[n] # <<>>
    <2>. DEFINE key == table[n].key
                val == table[n].val
    <2>1. key \in Seq(Token) /\ val \in Seq(Token) /\ e \in Seq(Token)
        BY <1>2, <1>4 DEF Item, Text
    <2>2. ls[n] = (key \o e) \o val
        BY <1>6 DEF LineOf
    <2>. HIDE DEF key, val
    <2>3. key \o e \in Seq(Token) /\ Len(key \o e) = Len(key) + Len(e)
        BY <2>1, ConcatProperties
    <2>. DEFINE x == key \o e
    <2>4. x \in Seq(Token) /\ Len(x) # 0
        BY <1>2, <2>1, <2>3, LenProperties, EmptySeq
    <2>. HIDE DEF x
    <2>5. Len(x \o val) = Len(x) + Len(val) /\ x \o val \in Seq(Token)
        BY <2>1, <2>4, ConcatProperties
    <2>6. Len(x \o val) # 0
        BY <2>1, <2>4, <2>5, LenProperties
    <2>7. x \o val # <<>>
        BY <2>5, <2>6, EmptySeq
    <2>. QED
        BY <2>2, <2>7 DEF x
<1>. QED
    BY <1>5, <1>6, <1>7, <1>8 DEF ls, e

(* A text that is shorter than the buffer was not cut.                     *)
LEMMA CutWhole ==
    ASSUME NEW S, NEW text \in Seq(S), NEW n \in Nat, Len(Cut(text, n)) < n
    PROVE  Cut(text, n) = text
<1>. DEFINE L == Len(text)
            m == Min({n, L})
<1>1. L \in Nat
    BY LenProperties
<1>2. m \in {n, L} /\ m <= n /\ m <= L
    <2>1. {n, L} \in SUBSET Nat /\ {n, L} # {}
        BY <1>1
    <2>. QED
        BY <2>1, LeastOf
<1>3. Cut(text, n) = SubSeq(text, 1, m)
    BY DEF Cut
<1>. HIDE DEF m
<1>4. Len(SubSeq(text, 1, m)) = m
    BY <1>1, <1>2, Beginnings
<1>5. m = L
    BY <1>1, <1>2, <1>3, <1>4
<1>. QED
    BY <1>3, <1>5, Beginnings

(* The text of a request, and its lines.                                   *)
TextOf(text, t, A, B) == text = Cat(Cat(Cat(Cat(t, <<LF>>), A), <<LF>>), B)

(* The lines of a request's text: the first line, the headers, an empty    *)
(* line, the parameters, and the empty line after the last line feed.      *)
LEMMA RequestLines ==
    ASSUME NEW S, LF \in S, NEW t \in Seq(S), LF \notin Range(t),
           NEW A \in Seq(S), NEW la \in Seq(Seq(S)), Splits(A, la, S),
           NEW B \in Seq(S), NEW lb \in Seq(Seq(S)), Splits(B, lb, S),
           NEW text, TextOf(text, t, A, B)
    PROVE  MessageOf(Lines(text), t, la, <<>>, lb)
<1>. DEFINE f == <<LF>>
            c == Cat(f, B)
            d == Cat(A, c)
            E == <<(<<>>)>>
<1>1. f \in Seq(S) /\ <<>> \in Seq(S)
    BY EmptySeq
<1>2. LF \notin Range(<<>>)
    BY DEF Range
<1>3. Lines(c) = Cat(E, Lines(B))
    <2>1. Lines(Cat(<<>>, Cat(<<LF>>, B))) = Cat(E, Lines(B))
        BY <1>1, <1>2, CatLine
    <2>2. Cat(f, B) \in Seq(S)
        <3>. HIDE DEF f
        <3>. QED
            BY <1>1, CatFacts
    <2>3. Cat(<<>>, Cat(f, B)) = Cat(f, B)
        <3>. DEFINE x == Cat(f, B)
        <3>. HIDE DEF x
        <3>1. <<>> \o x = x
            BY <2>2, ConcatEmptySeq DEF x
        <3>. QED
            BY <3>1 DEF x, Cat
    <2>. QED
        BY <2>1, <2>3
<1>4. Lines(B) = Cat(lb, E)
    <2>1. Lines(Cat(B, <<>>)) = Cat(lb, Lines(<<>>))
        BY <1>1 DEF Splits
    <2>2. B \o <<>> = B
        BY ConcatEmptySeq
    <2>. QED
        BY <2>1, <2>2, LinesOfNothing DEF Cat
<1>. HIDE DEF f, E
<1>5. c \in Seq(S) /\ d \in Seq(S)
    BY <1>1, CatFacts
<1>6. Lines(d) = Cat(la, Lines(c))
    BY <1>5 DEF Splits
<1>7. Lines(Cat(t, Cat(f, d))) = Cat(<<t>>, Lines(d))
    BY <1>5, CatLine DEF f
<1>8. Cat(Cat(Cat(Cat(t, f), A), f), B) = Cat(t, Cat(f, d))
    <2>. DEFINE w == Cat(t, f)
                v == Cat(w, A)
    <2>1. w \in Seq(S)
        BY <1>1, CatFacts
    <2>. HIDE DEF w
    <2>2. v \in Seq(S)
        BY <2>1, CatFacts
    <2>3. Cat(v, c) = Cat(w, d)
        BY <1>5, <2>1, CatFacts
    <2>. HIDE DEF v
    <2>4. Cat(Cat(v, f), B) = Cat(v, c)
        BY <1>1, <2>2, CatFacts
    <2>. HIDE DEF d
    <2>5. Cat(w, d) = Cat(t, Cat(f, d))
        BY <1>1, <1>5, CatFacts DEF w
    <2>. QED
        BY <2>3, <2>4, <2>5 DEF v, w
<1>. HIDE DEF c, d
<1>9. Lines(text) = Cat(<<t>>, Cat(la, Cat(E, Cat(lb, E))))
    BY <1>3, <1>4, <1>6, <1>7, <1>8 DEF TextOf, f
<1>. QED
    BY <1>9 DEF MessageOf, E, Cat

(* request_parse reads what request_prepare wrote whole, for every request *)
(* of a known type with tables that can be written and read.               *)
LEMMA ReadsBack ==
    ASSUME NEW type \in ReqType, type \in Text, NEW uri \in Text, LF \notin Range(uri),
           NEW h, Good(h), NEW p, Good(p), NEW req,
           req = [ok |-> TRUE, type |-> type, uri |-> uri, headers |-> h, params |-> p],
           NEW buflen \in Nat, Len(request_prepare(req, buflen)) < buflen
    PROVE  ParseRequest(request_prepare(req, buflen)) = req
<1>. DEFINE dh == <<(<<COLON, SP>>), COLON>>
            dp == <<(<<EQ>>), EQ>>
            A == Spelled(h, <<COLON, SP>>, <<LF>>)
            B == Spelled(p, <<EQ>>, <<LF>>)
            la == LinesOf(h, <<COLON, SP>>)
            lb == LinesOf(p, <<EQ>>)
            first == Cat(type, Cat(<<SP>>, uri))
            whole == Cat(Cat(Cat(Cat(first, <<LF>>), A), <<LF>>), B)
<1>1. SP \in Token /\ LF \in Token /\ SP # LF
    BY TokenAssumption DEF SP, LF
<1>2. SP \notin Range(type) /\ LF \notin Range(type)
    <2>1. \E w \in {"GET", "POST", "PATCH", "DELETE"} : type = <<w>>
        BY DEF ReqType
    <2>2. PICK w \in {"GET", "POST", "PATCH", "DELETE"} : type = <<w>>
        BY <2>1
    <2>3. Range(type) = {w}
        BY <2>2 DEF Range
    <2>. QED
        BY <2>2, <2>3 DEF SP, LF
<1>3. type \in Seq(Token) /\ uri \in Seq(Token) /\ <<SP>> \in Seq(Token) /\ <<LF>> \in Seq(Token)
    BY <1>1 DEF Text
<1>4. dh \in Delims /\ dh[1] = <<COLON, SP>> /\ dh[2] = COLON
    BY DEF Delims
<1>5. dp \in Delims /\ dp[1] = <<EQ>> /\ dp[2] = EQ
    BY DEF Delims
<1>. HIDE DEF dh, dp
<1>6. /\ la \in Seq(Text) /\ Len(la) = Len(h)
      /\ \A n \in 1..Len(h) : la[n] = LineOf(h[n], dh[1]) /\ la[n] # <<>>
      /\ A \in Text /\ Splits(A, la, Token)
    BY <1>4, GoodLines
<1>7. /\ lb \in Seq(Text) /\ Len(lb) = Len(p)
      /\ \A n \in 1..Len(p) : lb[n] = LineOf(p[n], dp[1]) /\ lb[n] # <<>>
      /\ B \in Text /\ Splits(B, lb, Token)
    BY <1>5, GoodLines
<1>. HIDE DEF A, B, la, lb
<1>8. first \in Seq(Token) /\ LF \notin Range(first)
    <2>. DEFINE sp == <<SP>>
                uriPart == sp \o uri
    <2>1. sp \in Seq(Token) /\ Range(sp) = {SP}
        BY <1>3 DEF Range
    <2>. HIDE DEF sp
    <2>2. uriPart \in Seq(Token) /\ Range(uriPart) = Range(sp) \cup Range(uri)
        BY <1>3, <2>1, ConcatProperties, RangeOfConcat
    <2>. HIDE DEF uriPart
    <2>3. type \o uriPart \in Seq(Token) /\ Range(type \o uriPart) = Range(type) \cup Range(uriPart)
        BY <1>3, <2>2, ConcatProperties, RangeOfConcat
    <2>. QED
        BY <1>1, <1>2, <2>1, <2>2, <2>3 DEF uriPart, sp, Cat
<1>9. strchr(first, 1, SP) # 0 /\ Before(first, SP) = type /\ After(first, SP) = uri
    <2>1. first = Cat(type, Cat(<<SP>>, uri)) /\ SP \in Token /\ SP \notin Range(type)
        BY <1>1, <1>2
    <2>. HIDE DEF first
    <2>2. strchr(first, 1, SP) # 0
        BY <1>3, <2>1, FirstIsThere
    <2>3. Before(first, SP) = type
        BY <1>3, <2>1, FirstIsThere
    <2>4. After(first, SP) = uri
        BY <1>3, <2>1, FirstIsThere
    <2>. QED
        BY <2>2, <2>3, <2>4
<1>10. request_prepare(req, buflen) = Cut(whole, buflen)
    <2>1. req.type = type /\ req.uri = uri /\ req.headers = h /\ req.params = p
        OBVIOUS
    <2>2. (type \o <<SP>>) \o uri = type \o (<<SP>> \o uri)
        BY <1>3, ConcatAssociative
    <2>3. request_prepare(req, buflen)
            = Cut((((((type \o <<SP>>) \o uri) \o <<LF>>) \o A) \o <<LF>>) \o B, buflen)
        BY <2>1 DEF request_prepare, A, B
    <2>. QED
        BY <2>2, <2>3 DEF Cat
<1>. HIDE DEF first
<1>11. whole \in Seq(Token)
    <2>. DEFINE f == <<LF>>
                w1 == Cat(first, f)
                w2 == Cat(w1, A)
                w3 == Cat(w2, f)
    <2>1. f \in Seq(Token) /\ A \in Seq(Token) /\ B \in Seq(Token)
        BY <1>3, <1>6, <1>7 DEF Text
    <2>. HIDE DEF f
    <2>2. w1 \in Seq(Token)
        BY <1>8, <2>1, CatFacts
    <2>. HIDE DEF w1
    <2>3. w2 \in Seq(Token)
        BY <2>1, <2>2, CatFacts
    <2>. HIDE DEF w2
    <2>4. w3 \in Seq(Token)
        BY <2>1, <2>3, CatFacts
    <2>. HIDE DEF w3
    <2>5. Cat(w3, B) \in Seq(Token)
        BY <2>1, <2>4, CatFacts
    <2>. QED
        BY <2>5 DEF w3, w2, w1, f
<1>12. MessageOf(Lines(whole), first, la, <<>>, lb)
    <2>1. A \in Seq(Token) /\ B \in Seq(Token) /\ la \in Seq(Seq(Token)) /\ lb \in Seq(Seq(Token))
          /\ Splits(A, la, Token) /\ Splits(B, lb, Token)
        BY <1>6, <1>7 DEF Text
    <2>2. TextOf(whole, first, A, B)
        BY DEF TextOf
    <2>. HIDE DEF whole
    <2>. QED
        BY <1>1, <1>8, <2>1, <2>2, RequestLines
<1>. HIDE DEF whole
<1>13. request_prepare(req, buflen) = whole
    BY <1>10, <1>11, CutWhole
<1>. DEFINE lines == Lines(whole)
            none == <<>>
<1>14. MessageOf(lines, first, la, none, lb)
    BY <1>12
<1>. HIDE DEF lines
<1>15. first \in Text /\ none \in Text /\ la \in Seq(Text) /\ lb \in Seq(Text)
       /\ none \notin Range(la)
    <2>1. DOMAIN la = 1..Len(h) /\ \A n \in 1..Len(h) : la[n] # none
        BY <1>6, LenProperties
    <2>2. none \notin Range(la)
        BY <2>1 DEF Range
    <2>. QED
        BY <1>6, <1>7, <1>8, <2>2, EmptySeq DEF Text
<1>. HIDE DEF none
<1>16. ReadAs(lines, first, la, none, lb)
    BY <1>14, <1>15, LinesOfMessage
<1>17. lines[1] = first /\ AboveEmpty(lines, none) = la /\ BelowEmpty(lines, none) = lb \o <<none>>
    BY <1>16 DEF ReadAs
<1>. USE DEF none
<1>21. Extract(la, COLON) = h
    <2>1. h \in Seq(Item) /\ Distinct(h) /\ Len(h) < MaxParam /\ \A n \in 1..Len(h) : Fits(h[n])
        BY DEF Good
    <2>2. Len(h) \in Nat /\ (Len(h) + 1)..Len(la) = {}
        BY <1>6, <2>1, LenProperties
    <2>3. Len(la) >= Len(h) /\ \A n \in (Len(h) + 1)..Len(la) : la[n] = <<>>
        BY <1>6, <2>2
    <2>4. Extract(la, dh[2]) = h
        BY <1>4, <1>6, <2>1, <2>3, TableReadsBack
    <2>. QED
        BY <1>4, <2>4
<1>22. Extract(lb \o <<none>>, EQ) = p
    <2>. DEFINE ls == lb \o <<none>>
                N == Len(p)
    <2>1. p \in Seq(Item) /\ Distinct(p) /\ N < MaxParam /\ \A n \in 1..N : Fits(p[n])
        BY DEF Good
    <2>2. N \in Nat /\ Len(lb) = N
        BY <1>7, <2>1, LenProperties
    <2>3. ls = Append(lb, none)
        BY <1>15, AppendIsConcat
    <2>. HIDE DEF ls
    <2>4. /\ ls \in Seq(Text) /\ Len(ls) = Len(lb) + 1
          /\ \A n \in 1..(Len(lb) + 1) : ls[n] = IF n = Len(lb) + 1 THEN none ELSE lb[n]
        BY <1>15, <2>3, AppendElements
    <2>. HIDE DEF N
    <2>5. /\ Len(ls) >= N
          /\ \A n \in 1..N : ls[n] = lb[n]
          /\ \A n \in (N + 1)..Len(ls) : ls[n] = none
        BY <2>2, <2>4
    <2>6. \A n \in 1..N : ls[n] = LineOf(p[n], dp[1])
        BY <1>7, <2>5 DEF N
    <2>7. Extract(ls, dp[2]) = p
        BY <1>5, <2>1, <2>4, <2>5, <2>6, TableReadsBack DEF N
    <2>. QED
        BY <1>5, <2>7 DEF ls
<1>23. ParseRequest(whole)
         = [ok |-> TRUE, type |-> Before(first, SP), uri |-> After(first, SP),
            headers |-> Extract(AboveEmpty(lines, none), COLON),
            params |-> Extract(BelowEmpty(lines, none), EQ)]
    <2>1. ~(strchr(lines[1], 1, SP) = 0 \/ Before(lines[1], SP) \notin ReqType)
        BY <1>9, <1>17
    <2>. QED
        BY <1>17, <2>1 DEF ParseRequest, Before, After, lines,
                        FirstEmpty, AboveEmpty, BelowEmpty
<1>. HIDE DEF none
<1>24. ParseRequest(whole) = [ok |-> TRUE, type |-> type, uri |-> uri, headers |-> h, params |-> p]
    BY <1>9, <1>17, <1>21, <1>22, <1>23
<1>. QED
    BY <1>13, <1>24

(* What is known of a table, and of what was set last for each key.        *)
TableOK(table, told) ==
    /\ Good(table)
    /\ told \in [Key -> Text \cup {NULL}]
    /\ IsFiniteSet(Given(told))
    /\ \A n \in 1..Len(table) : table[n].key \in Given(told)
    /\ HasRoom(told) =>
         \A k \in Given(told) : \E n \in 1..Len(table) : table[n] = Entry(k, told[k])

(* The invariant of the tables.  The type and the uri stay as they were;   *)
(* the keys of a table are different and were set, and while there is room *)
(* for the keys that were set, each is there with what was set last.  The  *)
(* number of entries is below MaxParam because PutLast, the model of       *)
(* request_param_set and request_header_set, refuses one more.             *)
TableInv ==
    /\ request = [ok |-> TRUE, type |-> <<"POST">>, uri |-> <<"/uri">>,
                  headers |-> request.headers, params |-> request.params]
    /\ TableOK(request.params, params)
    /\ TableOK(request.headers, headers)

(* An entry with a new key at the end leaves the keys different.           *)
LEMMA AppendDistinct ==
    ASSUME NEW S, NEW w \in Seq(S), Distinct(w), NEW e \in S, \A x \in Range(w) : x.key # e.key
    PROVE  Distinct(Append(w, e)) /\ Range(Append(w, e)) = Range(w) \cup {e}
<1>. DEFINE t == Append(w, e)
            L == Len(w)
<1>1. /\ t \in Seq(S) /\ Len(t) = L + 1
      /\ \A i \in 1..(L + 1) : t[i] = IF i = L + 1 THEN e ELSE w[i]
    BY AppendElements
<1>2. L \in Nat /\ DOMAIN w = 1..L /\ DOMAIN t = 1..(L + 1)
    BY <1>1, LenProperties
<1>. HIDE DEF t
<1>3. ASSUME NEW i \in 1..L PROVE w[i].key # e.key
    BY <1>2 DEF Range
<1>4. ASSUME NEW i \in 1..(L + 1), NEW j \in 1..(L + 1), t[i].key = t[j].key PROVE i = j
    <2>1. CASE i = L + 1 /\ j # L + 1
        <3>1. j \in 1..L /\ t[i] = e /\ t[j] = w[j]
            BY <1>1, <1>2, <2>1
        <3>. QED
            BY <1>3, <1>4, <3>1
    <2>2. CASE i # L + 1 /\ j = L + 1
        <3>1. i \in 1..L /\ t[j] = e /\ t[i] = w[i]
            BY <1>1, <1>2, <2>2
        <3>. QED
            BY <1>3, <1>4, <3>1
    <2>3. CASE i # L + 1 /\ j # L + 1
        <3>1. i \in 1..L /\ j \in 1..L /\ t[j] = w[j] /\ t[i] = w[i]
            BY <1>1, <1>2, <2>3
        <3>. QED
            BY <1>4, <3>1 DEF Distinct
    <2>. QED
        BY <2>1, <2>2, <2>3
<1>5. Distinct(t)
    BY <1>1, <1>4 DEF Distinct
<1>6. Range(t) = Range(w) \cup {e}
    <2>1. L + 1 \in DOMAIN t /\ t[L + 1] = e
        BY <1>1, <1>2
    <2>2. \A i \in DOMAIN w : i \in DOMAIN t /\ t[i] = w[i]
        BY <1>1, <1>2
    <2>3. \A i \in DOMAIN t : i = L + 1 \/ i \in DOMAIN w
        <3>1. \A i \in 1..(L + 1) : i = L + 1 \/ i \in 1..L
            BY <1>2
        <3>. QED
            BY <1>2, <3>1
    <2>. QED
        BY <2>1, <2>2, <2>3 DEF Range
<1>. QED
    BY <1>5, <1>6 DEF t

(* A table with different keys has at most as many entries as there are    *)
(* keys.                                                                   *)
LEMMA KeysCount ==
    ASSUME NEW S, NEW w \in Seq(S), Distinct(w), NEW G, IsFiniteSet(G),
           \A n \in 1..Len(w) : w[n].key \in G
    PROVE  Len(w) <= Cardinality(G)
<1>. DEFINE L == Len(w)
            f == [n \in 1..L |-> w[n].key]
<1>1. L \in Nat
    BY LenProperties
<1>2. f \in Injection(1..L, G)
    BY DEF Injection, IsInjective, Distinct
<1>3. Cardinality(1..L) <= Cardinality(G)
    <2>. HIDE DEF f, L
    <2>. QED
        BY <1>2, FS_Injection
<1>4. Cardinality(1..L) = L
    <2>. HIDE DEF L
    <2>1. 1 \in Int /\ L \in Int /\ (1 > L => L = 0) /\ L - 1 + 1 = L
        BY <1>1
    <2>. QED
        BY <2>1, FS_Interval
<1>. QED
    BY <1>3, <1>4

(* A lookup returns the value of the entry with the key.                   *)
LEMMA LookupFinds ==
    ASSUME NEW S, NEW table \in Seq(S), Distinct(table), NEW n \in 1..Len(table)
    PROVE  Lookup(table, table[n].key) = table[n].val
<1>. DEFINE hits == {m \in DOMAIN table : table[m].key = table[n].key}
<1>1. Len(table) \in Nat /\ DOMAIN table = 1..Len(table)
    BY LenProperties
<1>2. hits = {n}
    BY <1>1 DEF Distinct
<1>3. Min(hits) = n /\ hits # {}
    <2>1. hits \in SUBSET Nat /\ n \in hits /\ \A m \in hits : n <= m
        BY <1>1, <1>2
    <2>. HIDE DEF hits
    <2>. QED
        BY <2>1, LeastIs
<1>. QED
    BY <1>3 DEF Lookup

(* A lookup of a key that no entry has returns NULL.                       *)
LEMMA LookupFindsNone ==
    ASSUME NEW S, NEW table \in Seq(S), NEW k, \A n \in 1..Len(table) : table[n].key # k
    PROVE  Lookup(table, k) = NULL
<1>1. DOMAIN table = 1..Len(table)
    BY LenProperties
<1>2. {m \in DOMAIN table : table[m].key = k} = {}
    BY <1>1
<1>. QED
    BY <1>2 DEF Lookup

(* A key and a value that a caller sets can be told from the line that is  *)
(* written for them.                                                       *)
LEMMA SetFits ==
    ASSUME NEW k \in Key, NEW v \in Value
    PROVE  Fits(Entry(k, str_trim(v))) /\ str_trim(v) \in Text /\ str_trim(v) # NULL
<1>1. k \in Text /\ str_trim(k) = k /\ Range(k) \cap {COLON, EQ, LF} = {}
    BY KeyAssumption
<1>2. v \in Text /\ LF \notin Range(str_trim(v)) /\ str_trim(v) # NULL
    BY ValueAssumption
<1>3. Trimmed(k)
    BY <1>1, TrimFacts DEF Text
<1>4. str_trim(v) \in Text /\ Trimmed(str_trim(v))
    BY <1>2, TrimFacts DEF Text
<1>. DEFINE val == str_trim(v)
<1>. HIDE DEF val
<1>5. Entry(k, val).key = k /\ Entry(k, val).val = val
    BY DEF Entry
<1>6. Entry(k, val) \in Item
    BY <1>1, <1>4 DEF Entry, Item, val
<1>. QED
    BY <1>1, <1>2, <1>3, <1>4, <1>5, <1>6 DEF Fits, val

(* Setting a key keeps the invariant of a table.  If there is room for the *)
(* keys with this one, there was room before, and the table without the    *)
(* key is shorter than the number of keys, so that the entry is not        *)
(* refused.                                                                *)
LEMMA TableStep ==
    ASSUME NEW table, NEW told, TableOK(table, told), NEW k \in Key, NEW v \in Value
    PROVE  TableOK(PutLast(table, k, str_trim(v)), [told EXCEPT ![k] = str_trim(v)])
<1>. DEFINE val == str_trim(v)
            new == [told EXCEPT ![k] = val]
            w == Without(table, k)
            e == Entry(k, val)
            t == PutLast(table, k, val)
            G == Given(told)
            H == Given(new)
<1>1. Fits(e) /\ val \in Text /\ val # NULL
    BY SetFits
<1>. HIDE DEF val
<1>2. e.key = k /\ e.val = val /\ e \in Item
    BY <1>1 DEF Entry, Fits
<1>. HIDE DEF e
<1>3. /\ table \in Seq(Item) /\ Distinct(table) /\ Len(table) < MaxParam
      /\ \A n \in 1..Len(table) : Fits(table[n]) /\ table[n].key \in G
      /\ Len(table) \in Nat /\ DOMAIN table = 1..Len(table)
    BY LenProperties DEF TableOK, Good
<1>4. /\ told \in [Key -> Text \cup {NULL}] /\ IsFiniteSet(G)
      /\ HasRoom(told) => \A x \in G : \E n \in 1..Len(table) : table[n] = Entry(x, told[x])
    BY DEF TableOK
<1>5. /\ new \in [Key -> Text \cup {NULL}] /\ new[k] = val
      /\ \A x \in Key \ {k} : new[x] = told[x]
    BY <1>1, <1>4
<1>6. H = G \cup {k} /\ k \in H
    BY <1>1, <1>5 DEF Given
<1>7. IsFiniteSet(H)
    <2>. HIDE DEF G, H
    <2>. QED
        BY <1>4, <1>6, FS_AddElement
<1>. HIDE DEF new
<1>8. /\ w \in Seq(Item) /\ Len(w) <= Len(table) /\ Distinct(w)
      /\ Range(w) = {x \in Range(table) : x.key # k}
      /\ Len(w) \in Nat /\ DOMAIN w = 1..Len(w)
    BY <1>3, WithoutFacts, LenProperties
<1>. HIDE DEF w
<1>9. \A x \in Range(w) : Fits(x) /\ x.key \in G /\ x.key # k
    BY <1>3, <1>8 DEF Range
<1>10. \A n \in 1..Len(w) : w[n] \in Range(w)
    BY <1>8 DEF Range
<1>11. MaxParam \in Nat /\ Len(w) < MaxParam
    BY <1>3, <1>8, TableAssumption
<1>. HIDE DEF G, H
<1>12. CASE Len(w) = MaxParam - 1
    <2>1. t = w
        BY <1>12 DEF PutLast, w
    <2>2. Good(w)
        BY <1>8, <1>9, <1>10, <1>11 DEF Good
    <2>3. ~HasRoom(new)
        <3>1. IsFiniteSet(H \ {k}) /\ Cardinality(H \ {k}) = Cardinality(H) - 1
            BY <1>6, <1>7, FS_RemoveElement
        <3>2. \A n \in 1..Len(w) : w[n].key \in H \ {k}
            BY <1>6, <1>9, <1>10
        <3>3. Len(w) <= Cardinality(H \ {k})
            BY <1>8, <3>1, <3>2, KeysCount
        <3>4. Cardinality(H) \in Nat
            BY <1>7, FS_CardinalityType
        <3>. QED
            BY <1>11, <1>12, <3>1, <3>3, <3>4 DEF HasRoom, H
    <2>4. \A n \in 1..Len(w) : w[n].key \in H
        BY <1>6, <1>9, <1>10
    <2>. QED
        BY <1>5, <1>7, <2>1, <2>2, <2>3, <2>4 DEF TableOK, t, new, val, H
<1>13. CASE Len(w) # MaxParam - 1
    <2>1. t = Append(w, e)
        BY <1>13 DEF PutLast, w, e
    <2>. HIDE DEF t
    <2>2. /\ t \in Seq(Item) /\ Len(t) = Len(w) + 1
          /\ \A i \in 1..(Len(w) + 1) : t[i] = IF i = Len(w) + 1 THEN e ELSE w[i]
        BY <1>2, <1>8, <2>1, AppendElements
    <2>3. Distinct(t) /\ Range(t) = Range(w) \cup {e}
        <3>1. \A x \in Range(w) : x.key # e.key
            BY <1>2, <1>9
        <3>. QED
            BY <1>2, <1>8, <2>1, <3>1, AppendDistinct
    <2>4. Len(t) \in Nat /\ DOMAIN t = 1..Len(t)
        BY <2>2, LenProperties
    <2>5. \A n \in 1..Len(t) : t[n] \in Range(t)
        BY <2>4 DEF Range
    <2>6. \A x \in Range(t) : Fits(x) /\ x.key \in H
        BY <1>1, <1>2, <1>6, <1>9, <2>3
    <2>7. Len(t) < MaxParam
        BY <1>8, <1>11, <1>13, <2>2
    <2>8. Good(t)
        BY <2>2, <2>3, <2>5, <2>6, <2>7 DEF Good
    <2>9. ASSUME HasRoom(new), NEW x \in H
          PROVE  \E n \in 1..Len(t) : t[n] = Entry(x, new[x])
        <3>1. x \in Key
            BY DEF H, Given
        <3>2. Entry(x, new[x]) \in Range(t)
            <4>1. CASE x = k
                BY <1>5, <2>3, <4>1 DEF e
            <4>2. CASE x # k
                <5>1. x \in G /\ new[x] = told[x]
                    BY <1>5, <1>6, <3>1, <4>2
                <5>2. HasRoom(told)
                    <6>1. Cardinality(G) <= Cardinality(H) /\ Cardinality(G) \in Nat
                          /\ Cardinality(H) \in Nat
                        BY <1>4, <1>6, <1>7, FS_Subset, FS_CardinalityType
                    <6>. QED
                        BY <1>11, <2>9, <6>1 DEF HasRoom, G, H
                <5>3. PICK n \in 1..Len(table) : table[n] = Entry(x, told[x])
                    BY <1>4, <5>1, <5>2
                <5>4. table[n] \in Range(table) /\ table[n].key = x
                    BY <1>3, <5>3 DEF Range, Entry
                <5>. QED
                    BY <1>8, <2>3, <4>2, <5>1, <5>3, <5>4
            <4>. QED
                BY <4>1, <4>2
        <3>. QED
            BY <2>4, <3>2 DEF Range
    <2>10. \A n \in 1..Len(t) : t[n].key \in H
        BY <2>5, <2>6
    <2>. QED
        BY <1>5, <1>7, <2>8, <2>9, <2>10 DEF TableOK, t, new, val, H
<1>. QED
    BY <1>12, <1>13

(* The invariant holds of the empty table.                                 *)
LEMMA EmptyTableOK ==
    ASSUME NEW told, told = [k \in Key |-> NULL]
    PROVE  TableOK(<<>>, told)
<1>1. <<>> \in Seq(Item) /\ Len(<<>>) = 0
    BY EmptySeq
<1>2. Good(<<>>)
    BY <1>1, TableAssumption DEF Good, Distinct
<1>3. Given(told) = {}
    BY DEF Given
<1>4. IsFiniteSet(Given(told))
    BY <1>3, FS_EmptySet
<1>5. told \in [Key -> Text \cup {NULL}]
    OBVIOUS
<1>. QED
    BY <1>1, <1>2, <1>3, <1>4, <1>5 DEF TableOK

(* With room for the keys, a lookup returns what was set last.             *)
LEMMA TablesRead ==
    ASSUME NEW table, NEW told, TableOK(table, told), HasRoom(told), NEW k \in Key
    PROVE  Lookup(table, k) = told[k]
<1>1. table \in Seq(Item) /\ Distinct(table)
    BY DEF TableOK, Good
<1>2. CASE k \in Given(told)
    <2>1. PICK n \in 1..Len(table) : table[n] = Entry(k, told[k])
        BY <1>2 DEF TableOK
    <2>2. table[n].key = k /\ table[n].val = told[k]
        BY <2>1 DEF Entry
    <2>3. Lookup(table, table[n].key) = table[n].val
        BY <1>1, LookupFinds
    <2>. QED
        BY <2>2, <2>3
<1>3. CASE k \notin Given(told)
    <2>1. told[k] = NULL
        BY <1>3 DEF Given
    <2>2. \A n \in 1..Len(table) : table[n].key # k
        BY <1>3 DEF TableOK
    <2>. QED
        BY <1>1, <2>1, <2>2, LookupFindsNone
<1>. QED
    BY <1>2, <1>3

(* A request with these tables.                                            *)
Filled(req, h, p) ==
    req = [ok |-> TRUE, type |-> <<"POST">>, uri |-> <<"/uri">>, headers |-> h, params |-> p]

(* Its fields, and those of the request with another table.                *)
LEMMA FilledFields ==
    ASSUME NEW req, NEW h, NEW p, Filled(req, h, p), NEW x
    PROVE  /\ req.headers = h /\ req.params = p
           /\ Filled([req EXCEPT !.params = x], h, x)
           /\ Filled([req EXCEPT !.headers = x], x, p)
<1>. DEFINE t == <<"POST">>
            u == <<"/uri">>
<1>1. req = [ok |-> TRUE, type |-> t, uri |-> u, headers |-> h, params |-> p]
    BY DEF Filled
<1>. HIDE DEF t, u
<1>2. req.headers = h /\ req.params = p
    BY <1>1
<1>3. \E o : /\ o = TRUE
             /\ req = [ok |-> o, type |-> t, uri |-> u, headers |-> h, params |-> p]
    BY <1>1
<1>4. PICK o : /\ o = TRUE
               /\ req = [ok |-> o, type |-> t, uri |-> u, headers |-> h, params |-> p]
    BY <1>3
<1>5. req = [ok |-> o, type |-> t, uri |-> u, headers |-> h, params |-> p]
    BY <1>4
<1>6. [req EXCEPT !.params = x]
        = [ok |-> o, type |-> t, uri |-> u, headers |-> h, params |-> x]
    BY <1>5
<1>7. [req EXCEPT !.headers = x]
        = [ok |-> o, type |-> t, uri |-> u, headers |-> x, params |-> p]
    BY <1>5
<1>. QED
    BY <1>2, <1>4, <1>6, <1>7 DEF Filled, t, u

(* The invariant implies that the request is read back.                    *)
LEMMA TableInvReads == TableInv => RequestReadsBack
<1>. SUFFICES ASSUME TableInv PROVE RequestReadsBack
    OBVIOUS
<1>1. ASSUME NEW buflen \in TextSize, Len(request_prepare(request, buflen)) < buflen
      PROVE  ParseRequest(request_prepare(request, buflen)) = request
    <2>. DEFINE type == <<"POST">>
                uri == <<"/uri">>
                h == request.headers
                p == request.params
    <2>1. type \in ReqType /\ type \in Text /\ uri \in Text
        BY TokenAssumption, WordAssumption DEF ReqType, Text
    <2>2. LF \notin Range(uri)
        <3>1. DOMAIN uri = {1} /\ uri[1] = "/uri"
            OBVIOUS
        <3>. QED
            BY <3>1 DEF Range, LF
    <2>3. request = [ok |-> TRUE, type |-> type, uri |-> uri, headers |-> h, params |-> p]
          /\ Good(h) /\ Good(p)
        BY DEF TableInv, TableOK
    <2>4. buflen \in Nat
        BY TextSizeAssumption
    <2>. HIDE DEF type, uri, h, p
    <2>. QED
        BY <1>1, <2>1, <2>2, <2>3, <2>4, ReadsBack
<1>2. ASSUME HasRoom(params), NEW k \in Key PROVE request_param_get(request, k) = params[k]
    BY <1>2, TablesRead DEF TableInv, request_param_get
<1>3. ASSUME HasRoom(headers), NEW k \in Key PROVE Lookup(request.headers, k) = headers[k]
    BY <1>3, TablesRead DEF TableInv
<1>. QED
    BY <1>1, <1>2, <1>3 DEF RequestReadsBack

(* Whatever is set in the tables of a request with request_param_set and   *)
(* request_header_set, in whatever order and however often, the invariant  *)
(* holds.                                                                  *)
THEOREM TableInvariance == TableSafe => []TableInv
<1>1. TableInit => TableInv
    <2>. SUFFICES ASSUME TableInit PROVE TableInv
        OBVIOUS
    <2>1. request = NewRequest(<<"/uri">>)
        BY DEF TableInit
    <2>2. TableOK(<<>>, params) /\ TableOK(<<>>, headers)
        BY EmptyTableOK DEF TableInit
    <2>. QED
        BY <2>1, <2>2 DEF TableInv, NewRequest
<1>2. TableInv /\ [TableNext]_tableVars => TableInv'
    <2>. SUFFICES ASSUME TableInv, [TableNext]_tableVars PROVE TableInv'
        OBVIOUS
    <2>1. ASSUME NEW k \in Key, NEW v \in Value, SetParam(k, v) PROVE TableInv'
        <3>1. request' = [request EXCEPT !.params = PutLast(request.params, k, str_trim(v))]
              /\ params' = [params EXCEPT ![k] = str_trim(v)] /\ headers' = headers
            BY <2>1 DEF SetParam, request_param_set
        <3>2. TableOK(PutLast(request.params, k, str_trim(v)), [params EXCEPT ![k] = str_trim(v)])
            BY TableStep DEF TableInv
        <3>. DEFINE x == PutLast(request.params, k, str_trim(v))
        <3>3. Filled(request, request.headers, request.params)
            BY DEF TableInv, Filled
        <3>. HIDE DEF x
        <3>4. Filled(request', request.headers, x)
            BY <3>1, <3>3, FilledFields DEF x
        <3>5. request'.headers = request.headers /\ request'.params = x
            BY <3>4, FilledFields
        <3>6. TableOK(request'.headers, headers') /\ TableOK(request'.params, params')
            BY <3>1, <3>2, <3>5 DEF TableInv, x
        <3>. QED
            BY <3>4, <3>5, <3>6 DEF TableInv, Filled
    <2>2. ASSUME NEW k \in Key, NEW v \in Value, SetHeader(k, v) PROVE TableInv'
        <3>1. request' = [request EXCEPT !.headers = PutLast(request.headers, k, str_trim(v))]
              /\ headers' = [headers EXCEPT ![k] = str_trim(v)] /\ params' = params
            BY <2>2 DEF SetHeader, request_header_set
        <3>2. TableOK(PutLast(request.headers, k, str_trim(v)), [headers EXCEPT ![k] = str_trim(v)])
            BY TableStep DEF TableInv
        <3>. DEFINE x == PutLast(request.headers, k, str_trim(v))
        <3>3. Filled(request, request.headers, request.params)
            BY DEF TableInv, Filled
        <3>. HIDE DEF x
        <3>4. Filled(request', x, request.params)
            BY <3>1, <3>3, FilledFields DEF x
        <3>5. request'.headers = x /\ request'.params = request.params
            BY <3>4, FilledFields
        <3>6. TableOK(request'.headers, headers') /\ TableOK(request'.params, params')
            BY <3>1, <3>2, <3>5 DEF TableInv, x
        <3>. QED
            BY <3>4, <3>5, <3>6 DEF TableInv, Filled
    <2>3. ASSUME NEW n \in 1..(MaxKeyval + 1), NEW v \in Value, PushRecord(n, v) PROVE TableInv'
        <3>1. request' = request /\ params' = params /\ headers' = headers
            BY <2>3 DEF PushRecord
        <3>. QED
            BY <3>1 DEF TableInv
    <2>4. CASE UNCHANGED tableVars
        <3>1. request' = request /\ params' = params /\ headers' = headers
            BY <2>4 DEF tableVars
        <3>. QED
            BY <3>1 DEF TableInv
    <2>. QED
        BY <2>1, <2>2, <2>3, <2>4 DEF TableNext
<1>. QED
    BY <1>1, <1>2, PTL DEF TableSafe

(* A request's text that request_prepare wrote into a buffer that is       *)
(* larger reads, with request_parse, as the request it was written for;    *)
(* and the lookups return for each key what was set last while there is    *)
(* room for the keys: for any set of keys and values that the assumptions  *)
(* allow, and any size of the tables and buffers.                          *)
THEOREM RequestsAreReadBack == TableSafe => []RequestReadsBack
BY TableInvariance, TableInvReads, PTL

-----------------------------------------------------------------------------
(* Responses.                                                              *)

(* The text says w from position p on.                                     *)
SaidAt(text, p, w) ==
    /\ p + Len(w) - 1 <= Len(text)
    /\ \A n \in 1..Len(w) : text[p + n - 1] = w[n]

(* A sequence from p on, as strings are compared.                          *)
LEMMA SaidIsSub ==
    ASSUME NEW S, NEW text \in Seq(S), NEW w \in Seq(S), NEW p \in Nat \ {0}, SaidAt(text, p, w)
    PROVE  SubSeq(text, p, p + Len(w) - 1) = w
<1>. DEFINE L == Len(text)
            M == Len(w)
            q == p + M - 1
            b == SubSeq(text, p, q)
<1>1. L \in Nat /\ M \in Nat /\ q \in Int /\ q <= L /\ q - p + 1 = M
      /\ \A n \in 1..L : text[n] \in S
    BY LenProperties, ElementOfSeq DEF SaidAt
<1>2. \A n \in p..q : text[n] \in S
    BY <1>1
<1>3. \A n \in 1..M : text[p + n - 1] = w[n]
    BY DEF SaidAt
<1>. HIDE DEF L, M, q
<1>4. /\ b \in Seq(S) /\ Len(b) = IF p <= q THEN q - p + 1 ELSE 0
      /\ \A n \in 1..(q - p + 1) : b[n] = text[p + n - 1]
    BY <1>1, <1>2, SubSeqProperties
<1>. HIDE DEF b
<1>5. Len(b) = M /\ \A n \in 1..M : b[n] = w[n]
    BY <1>1, <1>3, <1>4
<1>6. b = w
    BY <1>4, <1>5, SeqEqual DEF M
<1>. QED
    BY <1>6 DEF b, q, M

(* What StartsAt compares is what the text says.                           *)
LEMMA StartsWhereSaid ==
    ASSUME NEW S, NEW text \in Seq(S), NEW w \in Seq(S), NEW p \in Nat \ {0}
    PROVE  StartsAt(text, p, w) <=> SaidAt(text, p, w)
<1>. DEFINE L == Len(text)
            M == Len(w)
            q == p + M - 1
            b == SubSeq(text, p, q)
<1>1. L \in Nat /\ M \in Nat /\ q \in Int /\ q - p + 1 = M
      /\ \A n \in 1..L : text[n] \in S
    BY LenProperties, ElementOfSeq
<1>2. ASSUME StartsAt(text, p, w) PROVE SaidAt(text, p, w)
    <2>1. q <= L /\ b = w
        BY <1>2 DEF StartsAt
    <2>2. \A n \in p..q : text[n] \in S
        BY <1>1, <2>1
    <2>. HIDE DEF L, M, q
    <2>3. \A n \in 1..(q - p + 1) : b[n] = text[p + n - 1]
        BY <1>1, <2>2, SubSeqProperties
    <2>4. \A n \in 1..M : text[p + n - 1] = w[n]
        BY <1>1, <2>1, <2>3
    <2>. QED
        BY <2>1, <2>4 DEF SaidAt, M, L, q
<1>3. ASSUME SaidAt(text, p, w) PROVE StartsAt(text, p, w)
    BY <1>3, SaidIsSub DEF StartsAt, SaidAt
<1>. QED
    BY <1>2, <1>3

(* Two sequences in a row.                                                 *)
LEMMA SaidInARow ==
    ASSUME NEW S, NEW text \in Seq(S), NEW u \in Seq(S), NEW v \in Seq(S), NEW p \in Nat \ {0}
    PROVE  SaidAt(text, p, Cat(u, v)) <=> SaidAt(text, p, u) /\ SaidAt(text, p + Len(u), v)
<1>. DEFINE L == Len(text)
            M == Len(u)
            N == Len(v)
            w == Cat(u, v)
<1>1. L \in Nat /\ M \in Nat /\ N \in Nat
    BY LenProperties
<1>2. Len(w) = M + N /\ \A n \in 1..(M + N) : w[n] = IF n <= M THEN u[n] ELSE v[n - M]
    BY ConcatProperties DEF Cat
<1>. HIDE DEF w, L, M, N
<1>3. ASSUME SaidAt(text, p, w) PROVE SaidAt(text, p, u) /\ SaidAt(text, p + M, v)
    <2>1. p + (M + N) - 1 <= L /\ \A n \in 1..(M + N) : text[p + n - 1] = w[n]
        BY <1>2, <1>3 DEF SaidAt, L
    <2>2. \A n \in 1..M : text[p + n - 1] = u[n]
        BY <1>1, <1>2, <2>1
    <2>3. ASSUME NEW n \in 1..N PROVE text[(p + M) + n - 1] = v[n]
        <3>1. M + n \in 1..(M + N) /\ ~(M + n <= M) /\ (M + n) - M = n
              /\ p + (M + n) - 1 = (p + M) + n - 1
            BY <1>1
        <3>. QED
            BY <1>2, <2>1, <3>1
    <2>4. p + M - 1 <= L /\ (p + M) + N - 1 <= L
        BY <1>1, <2>1
    <2>. QED
        BY <2>2, <2>3, <2>4 DEF SaidAt, L, M, N
<1>4. ASSUME SaidAt(text, p, u), SaidAt(text, p + M, v) PROVE SaidAt(text, p, w)
    <2>1. /\ (p + M) + N - 1 <= L
          /\ \A n \in 1..M : text[p + n - 1] = u[n]
          /\ \A n \in 1..N : text[(p + M) + n - 1] = v[n]
        BY <1>4 DEF SaidAt, L, M, N
    <2>2. ASSUME NEW n \in 1..(M + N) PROVE text[p + n - 1] = w[n]
        <3>1. CASE n <= M
            <4>1. n \in 1..M
                BY <1>1, <3>1
            <4>. QED
                BY <1>2, <2>1, <3>1, <4>1
        <3>2. CASE ~(n <= M)
            <4>1. n - M \in 1..N /\ (p + M) + (n - M) - 1 = p + n - 1
                BY <1>1, <3>2
            <4>. QED
                BY <1>2, <2>1, <3>2, <4>1
        <3>. QED
            BY <3>1, <3>2
    <2>3. p + (M + N) - 1 <= L
        BY <1>1, <2>1
    <2>. QED
        BY <1>2, <2>2, <2>3 DEF SaidAt, L
<1>. QED
    BY <1>3, <1>4 DEF w, M

(* The first c behind a sequence without one.                              *)
LEMMA FirstSaid ==
    ASSUME NEW S, NEW text \in Seq(S), NEW u \in Seq(S), NEW c \in S, c \notin Range(u),
           NEW p \in Nat \ {0}, SaidAt(text, p, u), SaidAt(text, p + Len(u), <<c>>)
    PROVE  strchr(text, p, c) = p + Len(u) /\ p + Len(u) \in p..Len(text)
<1>. DEFINE M == Len(u)
            hits == {k \in p..Len(text) : text[k] = c}
<1>1. Len(text) \in Nat /\ M \in Nat /\ DOMAIN u = 1..M
    BY LenProperties
<1>2. Len(<<c>>) = 1 /\ 1 \in 1..1 /\ <<c>>[1] = c
    OBVIOUS
<1>3. (p + M) + 1 - 1 <= Len(text) /\ text[(p + M) + 1 - 1] = c
    BY <1>2 DEF SaidAt
<1>4. p + M \in p..Len(text) /\ text[p + M] = c
    BY <1>1, <1>3
<1>5. ASSUME NEW k \in hits PROVE p + M <= k
    <2>1. SUFFICES ASSUME k < p + M PROVE FALSE
        BY <1>1
    <2>2. k - p + 1 \in 1..M /\ p + (k - p + 1) - 1 = k
        BY <1>1, <2>1
    <2>3. text[k] = u[k - p + 1]
        BY <2>2 DEF SaidAt
    <2>. QED
        BY <1>1, <2>2, <2>3 DEF Range
<1>6. hits \in SUBSET Nat /\ p + M \in hits /\ hits # {}
    BY <1>1, <1>4
<1>7. strchr(text, p, c) = Min(hits)
    BY <1>6 DEF strchr
<1>. HIDE DEF hits
<1>8. Min(hits) = p + M
    BY <1>5, <1>6, LeastIs
<1>. QED
    BY <1>4, <1>7, <1>8

(* What strchr returns.                                                    *)
LEMMA FirstFacts ==
    ASSUME NEW S, NEW text \in Seq(S), NEW c, NEW p \in Nat \ {0}
    PROVE  strchr(text, p, c) \in Nat
           /\ (strchr(text, p, c) # 0 =>
                 strchr(text, p, c) \in p..Len(text) /\ text[strchr(text, p, c)] = c)
<1>. DEFINE hits == {k \in p..Len(text) : text[k] = c}
<1>1. Len(text) \in Nat
    BY LenProperties
<1>2. CASE hits = {}
    BY <1>2 DEF strchr
<1>3. CASE hits # {}
    <2>1. strchr(text, p, c) = Min(hits) /\ hits \in SUBSET Nat
        BY <1>1, <1>3 DEF strchr
    <2>2. Min(hits) \in hits
        <3>. HIDE DEF hits
        <3>. QED
            BY <1>3, <2>1, LeastOf
    <2>. QED
        BY <1>1, <2>1, <2>2
<1>. QED
    BY <1>2, <1>3

(* A text that was cut: a token is found where it was, or not at all.      *)
LEMMA FirstInCut ==
    ASSUME NEW S, NEW text \in Seq(S), NEW L \in 0..Len(text), NEW c, NEW p \in Nat \ {0}
    PROVE  strchr(SubSeq(text, 1, L), p, c)
             = IF strchr(text, p, c) <= L THEN strchr(text, p, c) ELSE 0
<1>. DEFINE cut == SubSeq(text, 1, L)
            hits == {k \in p..Len(text) : text[k] = c}
            left == {k \in p..Len(cut) : cut[k] = c}
<1>1. Len(text) \in Nat /\ L \in Nat
    BY LenProperties
<1>2. cut \in Seq(S) /\ Len(cut) = L /\ \A k \in 1..L : cut[k] = text[k]
    <2>1. L + 1 \in 1..(Len(text) + 1) /\ (L + 1) - 1 = L
        BY <1>1
    <2>. QED
        BY <2>1, SplitAt
<1>. HIDE DEF cut
<1>3. left = {k \in hits : k <= L}
    BY <1>1, <1>2
<1>4. hits \in SUBSET Nat /\ left \in SUBSET Nat
    BY <1>1, <1>2
<1>5. strchr(text, p, c) = IF hits = {} THEN 0 ELSE Min(hits)
    BY DEF strchr
<1>6. strchr(cut, p, c) = IF left = {} THEN 0 ELSE Min(left)
    BY DEF strchr
<1>. HIDE DEF hits, left
<1>7. CASE hits = {}
    BY <1>1, <1>3, <1>5, <1>6, <1>7 DEF cut
<1>8. CASE hits # {}
    <2>1. Min(hits) \in hits /\ \A k \in hits : Min(hits) <= k
        BY <1>4, <1>8, LeastOf
    <2>2. CASE Min(hits) <= L
        <3>1. Min(hits) \in left /\ left # {} /\ \A k \in left : Min(hits) <= k
            BY <1>3, <2>1, <2>2
        <3>2. Min(left) = Min(hits)
            BY <1>4, <3>1, LeastIs
        <3>. QED
            BY <1>5, <1>6, <1>8, <2>2, <3>1, <3>2 DEF cut
    <2>3. CASE ~(Min(hits) <= L)
        <3>1. left = {}
            <4>1. SUFFICES ASSUME NEW k \in left PROVE FALSE
                OBVIOUS
            <4>2. k \in hits /\ k <= L /\ Min(hits) <= k /\ k \in Nat /\ Min(hits) \in Nat
                BY <1>3, <1>4, <2>1
            <4>. QED
                BY <1>1, <2>3, <4>2
        <3>. QED
            BY <1>5, <1>6, <1>8, <2>3, <3>1 DEF cut
    <2>. QED
        BY <2>2, <2>3
<1>. QED
    BY <1>7, <1>8

(* A text that was cut says what it said up to there.                      *)
LEMMA SaidInCut ==
    ASSUME NEW S, NEW text \in Seq(S), NEW L \in 0..Len(text), NEW w \in Seq(S),
           NEW p \in Nat \ {0}
    PROVE  SaidAt(SubSeq(text, 1, L), p, w) <=> SaidAt(text, p, w) /\ p + Len(w) - 1 <= L
<1>. DEFINE cut == SubSeq(text, 1, L)
<1>1. Len(text) \in Nat /\ L \in Nat /\ Len(w) \in Nat
    BY LenProperties
<1>2. cut \in Seq(S) /\ Len(cut) = L /\ \A k \in 1..L : cut[k] = text[k]
    <2>1. L + 1 \in 1..(Len(text) + 1) /\ (L + 1) - 1 = L
        BY <1>1
    <2>. QED
        BY <2>1, SplitAt
<1>. HIDE DEF cut
<1>3. ASSUME p + Len(w) - 1 <= L
      PROVE  \A n \in 1..Len(w) : cut[p + n - 1] = text[p + n - 1]
    BY <1>1, <1>2, <1>3
<1>4. SaidAt(cut, p, w) <=> SaidAt(text, p, w) /\ p + Len(w) - 1 <= L
    BY <1>1, <1>2, <1>3 DEF SaidAt
<1>. QED
    BY <1>4 DEF cut

(* A function by recursion from the larger numbers to the smaller.         *)
Chained(f, N, go, nx, hd, st) ==
    \A p \in 1..N : f[p] = IF p \in go THEN <<hd[p]>> \o f[nx[p]] ELSE st[p]

(* A recursion that only looks further behind in the text has its values:  *)
(* the sequences that the parsers' functions are, one for each position.   *)
LEMMA ChainExists ==
    ASSUME NEW N \in Nat, NEW V, NEW go \in SUBSET (1..N), NEW nx,
           \A p \in go : nx[p] \in (p + 1)..N,
           NEW hd \in [1..N -> V], NEW st \in [1..N -> Seq(V)]
    PROVE  \E f \in [1..N -> Seq(V)] : Chained(f, N, go, nx, hd, st)
<1>. DEFINE Follows(f, p) == f[p] = IF p \in go THEN <<hd[p]>> \o f[nx[p]] ELSE st[p]
            Holds(n) == \E f \in [1..N -> Seq(V)] :
                           \A p \in 1..N : p > N - n => Follows(f, p)
            P == {n \in Nat : Holds(n)}
<1>1. 0 \in P
    <2>1. st \in [1..N -> Seq(V)] /\ \A p \in 1..N : ~(p > N - 0)
        OBVIOUS
    <2>. HIDE DEF Follows
    <2>2. Holds(0)
        BY <2>1
    <2>. QED
        BY <2>2
<1>2. ASSUME NEW n \in 0..(N - 1), n \in P PROVE n + 1 \in P
    <2>. DEFINE q == N - n
    <2>1. q \in 1..N /\ n + 1 \in Nat /\ N - (n + 1) = q - 1
        OBVIOUS
    <2>2. PICK f \in [1..N -> Seq(V)] : \A p \in 1..N : p > q => Follows(f, p)
        BY <1>2
    <2>. DEFINE x == IF q \in go THEN <<hd[q]>> \o f[nx[q]] ELSE st[q]
                g == [f EXCEPT ![q] = x]
    <2>. HIDE DEF q
    <2>3. x \in Seq(V)
        <3>1. CASE q \in go
            <4>. DEFINE e == <<hd[q]>>
            <4>1. hd[q] \in V /\ nx[q] \in 1..N
                BY <2>1, <3>1
            <4>2. e \in Seq(V) /\ f[nx[q]] \in Seq(V)
                BY <4>1
            <4>. HIDE DEF e
            <4>3. e \o f[nx[q]] \in Seq(V)
                BY <4>2, ConcatProperties
            <4>. QED
                BY <3>1, <4>3 DEF e
        <3>2. CASE q \notin go
            BY <2>1, <3>2
        <3>. QED
            BY <3>1, <3>2
    <2>. HIDE DEF x
    <2>4. g \in [1..N -> Seq(V)] /\ g[q] = x /\ \A p \in 1..N : p # q => g[p] = f[p]
        BY <2>1, <2>3
    <2>. HIDE DEF g
    <2>5. ASSUME NEW p \in 1..N, p > q - 1 PROVE Follows(g, p)
        <3>1. p \in go => nx[p] \in 1..N /\ nx[p] # q
            BY <2>1, <2>5
        <3>2. p \in go => g[nx[p]] = f[nx[p]]
            BY <2>4, <3>1
        <3>3. CASE p = q
            BY <2>4, <3>2, <3>3 DEF x
        <3>4. CASE p # q
            <4>1. p > q
                BY <2>1, <2>5, <3>4
            <4>2. Follows(f, p)
                BY <2>2, <4>1
            <4>. QED
                BY <2>4, <3>2, <3>4, <4>2
        <3>. QED
            BY <3>3, <3>4
    <2>. HIDE DEF Follows
    <2>6. Holds(n + 1)
        BY <2>1, <2>4, <2>5
    <2>. HIDE DEF Holds
    <2>. QED
        BY <2>1, <2>6
<1>. HIDE DEF P
<1>3. N \in P
    <2>1. \A n \in 0..N : n \in P
        BY <1>1, <1>2, UpTo
    <2>. QED
        BY <2>1
<1>4. Holds(N)
    BY <1>3 DEF P
<1>5. \A p \in 1..N : p > N - N
    OBVIOUS
<1>. QED
    BY <1>4, <1>5 DEF Chained

(* How KeyvalsFrom goes on from the line that begins at p: the equals sign *)
(* and the line feed behind it, what the line says, and the next line.     *)
EqAt(text, p) == strchr(text, p, EQ)
LfAt(text, p) == strchr(text, Max({1, EqAt(text, p)}), LF)
NoLine(text, p) == EqAt(text, p) = 0 \/ LfAt(text, p) = 0
LastLine(text, p) == text[LfAt(text, p) - 1] = CR
SaidBy(text, p, end) ==
    Found(SubSeq(text, p, EqAt(text, p) - 1), SubSeq(text, EqAt(text, p) + 1, end),
          LfAt(text, p))

(* The larger of one and another number.                                   *)
LEMMA MaxOfTwo ==
    ASSUME NEW n \in Nat
    PROVE  Max({1, n}) = IF n = 0 THEN 1 ELSE n
<1>. DEFINE m == IF n = 0 THEN 1 ELSE n
            X == {1, n}
<1>1. m \in X /\ \A y \in X : m >= y /\ y \in Nat
    OBVIOUS
<1>2. \A y \in X : (\A z \in X : y >= z) => y = m
    BY <1>1
<1>3. Max(X) = CHOOSE y \in X : \A z \in X : y >= z
    BY DEF Max
<1>. HIDE DEF m, X
<1>4. Max(X) = m
    BY <1>1, <1>2, <1>3
<1>. QED
    BY <1>4 DEF m, X

(* The line feed is behind the equals sign.                                *)
LEMMA LineFacts ==
    ASSUME NEW S, NEW text \in Seq(S), NEW p \in Nat \ {0}, ~NoLine(text, p)
    PROVE  /\ EqAt(text, p) \in p..Len(text) /\ LfAt(text, p) \in p..Len(text)
           /\ LfAt(text, p) > EqAt(text, p)
<1>1. EqAt(text, p) \in Nat /\ EqAt(text, p) # 0 /\ LfAt(text, p) # 0
    BY FirstFacts DEF NoLine, EqAt
<1>2. EqAt(text, p) \in p..Len(text) /\ text[EqAt(text, p)] = EQ
    BY <1>1, FirstFacts DEF EqAt
<1>3. Max({1, EqAt(text, p)}) = EqAt(text, p) /\ EqAt(text, p) \in Nat \ {0}
    BY <1>1, MaxOfTwo
<1>4. LfAt(text, p) \in EqAt(text, p)..Len(text) /\ text[LfAt(text, p)] = LF
    BY <1>1, <1>3, FirstFacts DEF LfAt
<1>5. EQ # LF /\ Len(text) \in Nat
    BY LenProperties DEF EQ, LF
<1>. QED
    BY <1>2, <1>4, <1>5

(* KeyvalsFrom goes on line by line.                                       *)
LEMMA KeyvalsAre ==
    ASSUME NEW S, NEW text \in Seq(S), NEW p \in 1..(Len(text) + 1)
    PROVE  KeyvalsFrom(text, p) =
             IF NoLine(text, p) THEN <<Broken>>
             ELSE IF LastLine(text, p) THEN <<SaidBy(text, p, LfAt(text, p) - 2)>>
             ELSE <<SaidBy(text, p, LfAt(text, p) - 1)>> \o KeyvalsFrom(text, LfAt(text, p) + 1)
<1>. DEFINE N == Len(text) + 1
            Step(f, q) ==
              IF NoLine(text, q) THEN <<Broken>>
              ELSE IF LastLine(text, q) THEN <<SaidBy(text, q, LfAt(text, q) - 2)>>
              ELSE <<SaidBy(text, q, LfAt(text, q) - 1)>> \o f[LfAt(text, q) + 1]
            Body(f, q) ==
              LET Keyval(eq, end, lf) ==
                    Found(SubSeq(text, q, eq - 1), SubSeq(text, eq + 1, end), lf)
                  Line(eq, lf) ==
                    IF eq = 0 \/ lf = 0 THEN <<Broken>>
                    ELSE IF text[lf - 1] = CR THEN <<Keyval(eq, lf - 2, lf)>>
                    ELSE <<Keyval(eq, lf - 1, lf)>> \o f[lf + 1]
                  From(eq) == Line(eq, strchr(text, Max({1, eq}), LF))
              IN  From(strchr(text, q, EQ))
            G(f) == f = [q \in 1..N |-> Body(f, q)]
            g == CHOOSE f : G(f)
<1>0. ASSUME NEW f, NEW q PROVE Body(f, q) = Step(f, q)
    <2>1. CASE NoLine(text, q)
        BY <2>1 DEF NoLine, EqAt, LfAt
    <2>2. CASE ~NoLine(text, q) /\ LastLine(text, q)
        BY <2>2 DEF NoLine, LastLine, SaidBy, EqAt, LfAt
    <2>3. CASE ~NoLine(text, q) /\ ~LastLine(text, q)
        BY <2>3 DEF NoLine, LastLine, SaidBy, EqAt, LfAt
    <2>. QED
        BY <2>1, <2>2, <2>3
<1>1. N \in Nat /\ Len(text) \in Nat
    BY LenProperties
<1>2. ASSUME NEW q \in 1..N PROVE KeyvalsFrom(text, q) = g[q]
    BY DEF KeyvalsFrom
<1>. HIDE DEF Body
<1>3. \E f : G(f)
    <2>. DEFINE go == {q \in 1..N : ~NoLine(text, q) /\ ~LastLine(text, q)}
                nx == [q \in 1..N |-> LfAt(text, q) + 1]
                hd == [q \in 1..N |-> SaidBy(text, q, LfAt(text, q) - 1)]
                end == [q \in 1..N |-> IF NoLine(text, q) THEN Broken
                                       ELSE SaidBy(text, q, LfAt(text, q) - 2)]
                V == {hd[q] : q \in 1..N} \cup {end[q] : q \in 1..N}
                st == [q \in 1..N |-> <<end[q]>>]
    <2>1. \A q \in go : nx[q] \in (q + 1)..N
        BY <1>1, LineFacts
    <2>2. go \in SUBSET (1..N) /\ hd \in [1..N -> V] /\ \A q \in 1..N : end[q] \in V
        OBVIOUS
    <2>. HIDE DEF V, end
    <2>3. st \in [1..N -> Seq(V)]
        BY <2>2
    <2>. HIDE DEF go, nx, hd, st, N
    <2>4. PICK f \in [1..N -> Seq(V)] : Chained(f, N, go, nx, hd, st)
        BY <1>1, <2>1, <2>2, <2>3, ChainExists
    <2>5. ASSUME NEW q \in 1..N PROVE f[q] = Step(f, q)
        <3>1. q \in go <=> ~NoLine(text, q) /\ ~LastLine(text, q)
            BY DEF go
        <3>2. hd[q] = SaidBy(text, q, LfAt(text, q) - 1) /\ nx[q] = LfAt(text, q) + 1
            BY DEF hd, nx
        <3>3. st[q] = <<IF NoLine(text, q) THEN Broken
                        ELSE SaidBy(text, q, LfAt(text, q) - 2)>>
            BY DEF st, end
        <3>. QED
            BY <2>4, <3>1, <3>2, <3>3 DEF Chained
    <2>6. f = [q \in 1..N |-> f[q]]
        BY <2>4
    <2>. HIDE DEF Step
    <2>7. \A q \in 1..N : f[q] = Body(f, q)
        BY <1>0, <2>5
    <2>8. G(f)
        BY <2>6, <2>7
    <2>. QED
        BY <2>8
<1>4. G(g)
    <2>. HIDE DEF G
    <2>. QED
        BY <1>3 DEF g
<1>. HIDE DEF g
<1>5. p \in 1..N
    OBVIOUS
<1>6. g[p] = Step(g, p)
    <2>. HIDE DEF Step, N
    <2>1. g[p] = Body(g, p)
        BY <1>4, <1>5
    <2>. QED
        BY <1>0, <2>1
<1>7. ~NoLine(text, p) => LfAt(text, p) + 1 \in 1..N
    BY <1>1, LineFacts
<1>8. KeyvalsFrom(text, p) = g[p]
      /\ (~NoLine(text, p) => KeyvalsFrom(text, LfAt(text, p) + 1) = g[LfAt(text, p) + 1])
    BY <1>2, <1>5, <1>7
<1>. QED
    BY <1>6, <1>8

(* A record that KeyvalsFrom returns ends with a broken keyval, or at the  *)
(* place where its last one ends.                                          *)
EndAt(text, p) == Last(KeyvalsFrom(text, p)).end
Sayings(text) == {SaidBy(text, q, e) : q \in Nat, e \in Int} \cup {Broken}

(* An element put in front of a sequence leaves its last.                  *)
LEMMA LastInFront ==
    ASSUME NEW V, NEW x \in V, NEW r \in Seq(V), r # <<>>
    PROVE  <<x>> \o r \in Seq(V) /\ <<x>> \o r # <<>> /\ Last(<<x>> \o r) = Last(r)
<1>. DEFINE s == <<x>>
            M == Len(r)
            c == s \o r
<1>1. s \in Seq(V) /\ Len(s) = 1
    OBVIOUS
<1>2. M \in Nat /\ M # 0
    BY LenProperties, EmptySeq
<1>. HIDE DEF s, M
<1>3. c \in Seq(V) /\ Len(c) = 1 + M
      /\ \A n \in 1..(1 + M) : c[n] = IF n <= 1 THEN s[n] ELSE r[n - 1]
    BY <1>1, ConcatProperties DEF M
<1>. HIDE DEF c
<1>4. c[1 + M] = r[M]
    <2>1. 1 + M \in 1..(1 + M) /\ ~(1 + M <= 1) /\ (1 + M) - 1 = M
        BY <1>2
    <2>. QED
        BY <1>3, <2>1
<1>5. c # <<>>
    BY <1>2, <1>3
<1>6. Last(c) = Last(r)
    BY <1>3, <1>4 DEF Last, M
<1>. QED
    BY <1>3, <1>5, <1>6 DEF c, s

(* The last of one element is that element.                                *)
LEMMA LastOfOne ==
    ASSUME NEW V, NEW x \in V
    PROVE  <<x>> \in Seq(V) /\ <<x>> # <<>> /\ Last(<<x>>) = x
BY DEF Last

(* Where the parser gives up there is no end.                              *)
LEMMA EndOfBroken == Broken.end = 0
BY DEF Broken, Found

(* The keyvals read from a position on are at least one, and end within    *)
(* the text unless the parser gave up.                                     *)
LEMMA KeyvalsEnd ==
    ASSUME NEW S, NEW text \in Seq(S), NEW p \in 1..(Len(text) + 1)
    PROVE  /\ KeyvalsFrom(text, p) \in Seq(Sayings(text)) /\ KeyvalsFrom(text, p) # <<>>
           /\ EndAt(text, p) # 0 => EndAt(text, p) \in p..Len(text)
<1>. DEFINE N == Len(text) + 1
            V == Sayings(text)
            K(q) == KeyvalsFrom(text, q)
            Holds(q) == /\ K(q) \in Seq(V) /\ K(q) # <<>>
                        /\ Last(K(q)).end # 0 => Last(K(q)).end \in q..Len(text)
            P == {n \in Nat : \A q \in 1..N : q >= N - n => Holds(q)}
<1>1. Len(text) \in Nat /\ N \in Nat
    BY LenProperties
<1>2. ASSUME NEW q \in 1..N, \A r \in 1..N : r > q => Holds(r) PROVE Holds(q)
    <2>1. Broken \in V /\ \A e \in Int : SaidBy(text, q, e) \in V
        BY <1>1 DEF Sayings
    <2>2. \A e : SaidBy(text, q, e).end = LfAt(text, q)
        BY DEF SaidBy, Found
    <2>. HIDE DEF V
    <2>3. CASE NoLine(text, q)
        <3>. DEFINE b == Broken
        <3>1. K(q) = <<b>>
            BY <2>3, KeyvalsAre
        <3>2. b \in V /\ b.end = 0
            BY <2>1, EndOfBroken
        <3>. HIDE DEF K, b
        <3>3. K(q) \in Seq(V) /\ K(q) # <<>> /\ Last(K(q)) = b
            BY <3>1, <3>2, LastOfOne
        <3>. QED
            BY <3>2, <3>3
    <2>4. CASE ~NoLine(text, q)
        <3>1. LfAt(text, q) \in q..Len(text) /\ LfAt(text, q) \in Int
            BY <1>1, <2>4, LineFacts
        <3>2. CASE LastLine(text, q)
            <4>. DEFINE b == SaidBy(text, q, LfAt(text, q) - 2)
            <4>1. K(q) = <<b>>
                BY <2>4, <3>2, KeyvalsAre
            <4>2. b \in V /\ b.end = LfAt(text, q)
                BY <2>1, <2>2, <3>1
            <4>. HIDE DEF K, b
            <4>3. K(q) \in Seq(V) /\ K(q) # <<>> /\ Last(K(q)) = b
                BY <4>1, <4>2, LastOfOne
            <4>. QED
                BY <3>1, <4>2, <4>3
        <3>3. CASE ~LastLine(text, q)
            <4>. DEFINE b == SaidBy(text, q, LfAt(text, q) - 1)
                        r == LfAt(text, q) + 1
            <4>1. K(q) = <<b>> \o K(r)
                BY <2>4, <3>3, KeyvalsAre
            <4>2. b \in V
                BY <2>1, <3>1
            <4>3. r \in 1..N /\ r > q
                BY <1>1, <3>1
            <4>. HIDE DEF K, b, r
            <4>4. Holds(r)
                BY <1>2, <4>3
            <4>5. K(q) \in Seq(V) /\ K(q) # <<>> /\ Last(K(q)) = Last(K(r))
                BY <4>1, <4>2, <4>4, LastInFront
            <4>. QED
                BY <1>1, <4>3, <4>4, <4>5
        <3>. QED
            BY <3>2, <3>3
    <2>. QED
        BY <2>3, <2>4
<1>. HIDE DEF Holds
<1>3. 0 \in P
    <2>1. ASSUME NEW q \in 1..N, q >= N - 0 PROVE Holds(q)
        <3>1. \A r \in 1..N : ~(r > q)
            BY <1>1, <2>1
        <3>. QED
            BY <1>2, <3>1
    <2>. QED
        BY <2>1
<1>4. ASSUME NEW n \in 0..(N - 1), n \in P PROVE n + 1 \in P
    <2>1. ASSUME NEW q \in 1..N, q >= N - (n + 1) PROVE Holds(q)
        <3>1. \A r \in 1..N : r > q => r >= N - n
            BY <1>1, <2>1
        <3>. QED
            BY <1>2, <1>4, <3>1
    <2>. QED
        BY <2>1
<1>. HIDE DEF P
<1>5. N \in P
    <2>1. \A n \in 0..N : n \in P
        BY <1>1, <1>3, <1>4, UpTo
    <2>. QED
        BY <1>1, <2>1
<1>6. Holds(p)
    BY <1>1, <1>5 DEF P
<1>. QED
    BY <1>6 DEF Holds, EndAt

(* How RecordsFrom goes on from p: no record, the last, or one more.       *)
NoRecord(text, p) == strchr(text, p, CR) \in {0, Len(text)} \/ EndAt(text, p) = 0
LastRecord(text, p) == StartsAt(text, EndAt(text, p) - 1, CRLF \o CRLF)

(* The records read from a position on: one, and those behind it.          *)
LEMMA RecordsAre ==
    ASSUME NEW S, NEW text \in Seq(S), NEW p \in 1..(Len(text) + 1)
    PROVE  RecordsFrom(text, p) =
             IF p >= Len(text) THEN <<>>
             ELSE IF NoRecord(text, p) THEN <<(<<Broken>>)>>
             ELSE IF LastRecord(text, p) THEN <<KeyvalsFrom(text, p)>>
             ELSE <<KeyvalsFrom(text, p)>> \o RecordsFrom(text, EndAt(text, p) + 1)
<1>. DEFINE N == Len(text) + 1
            Step(f, q) ==
              IF q >= Len(text) THEN <<>>
              ELSE IF NoRecord(text, q) THEN <<(<<Broken>>)>>
              ELSE IF LastRecord(text, q) THEN <<KeyvalsFrom(text, q)>>
              ELSE <<KeyvalsFrom(text, q)>> \o f[EndAt(text, q) + 1]
            Body(f, q) ==
              LET Record(rec, end) ==
                    IF q >= Len(text) THEN <<>>
                    ELSE IF strchr(text, q, CR) \in {0, Len(text)} \/ end = 0 THEN <<(<<Broken>>)>>
                    ELSE IF StartsAt(text, end - 1, CRLF \o CRLF) THEN <<rec>>
                    ELSE <<rec>> \o f[end + 1]
                  From(rec) == Record(rec, Last(rec).end)
              IN  From(KeyvalsFrom(text, q))
            G(f) == f = [q \in 1..N |-> Body(f, q)]
            g == CHOOSE f : G(f)
<1>0. ASSUME NEW f, NEW q PROVE Body(f, q) = Step(f, q)
    BY DEF NoRecord, LastRecord, EndAt
<1>1. N \in Nat /\ Len(text) \in Nat
    BY LenProperties
<1>2. ASSUME NEW q \in 1..N PROVE RecordsFrom(text, q) = g[q]
    BY DEF RecordsFrom
<1>. HIDE DEF Body
<1>3. \E f : G(f)
    <2>. DEFINE Stops(q) == q >= Len(text) \/ NoRecord(text, q) \/ LastRecord(text, q)
                go == {q \in 1..N : ~Stops(q)}
                nx == [q \in 1..N |-> EndAt(text, q) + 1]
                hd == [q \in 1..N |-> KeyvalsFrom(text, q)]
                end == [q \in 1..N |-> IF NoRecord(text, q) THEN <<Broken>>
                                       ELSE KeyvalsFrom(text, q)]
                V == {hd[q] : q \in 1..N} \cup {end[q] : q \in 1..N}
                st == [q \in 1..N |-> IF q >= Len(text) THEN <<>> ELSE <<end[q]>>]
    <2>1. \A q \in go : nx[q] \in (q + 1)..N
        <3>1. ASSUME NEW q \in go PROVE nx[q] \in (q + 1)..N
            <4>1. q \in 1..N /\ EndAt(text, q) # 0
                BY <3>1 DEF NoRecord
            <4>2. EndAt(text, q) \in q..Len(text)
                BY <4>1, KeyvalsEnd
            <4>. QED
                BY <1>1, <4>1, <4>2
        <3>. QED
            BY <3>1
    <2>2. go \in SUBSET (1..N) /\ hd \in [1..N -> V] /\ \A q \in 1..N : end[q] \in V
        OBVIOUS
    <2>. HIDE DEF V, end
    <2>3. st \in [1..N -> Seq(V)]
        BY <2>2
    <2>. HIDE DEF go, nx, hd, st, N
    <2>4. PICK f \in [1..N -> Seq(V)] : Chained(f, N, go, nx, hd, st)
        BY <1>1, <2>1, <2>2, <2>3, ChainExists
    <2>5. ASSUME NEW q \in 1..N PROVE f[q] = Step(f, q)
        <3>1. q \in go <=> ~Stops(q)
            BY DEF go
        <3>2. hd[q] = KeyvalsFrom(text, q) /\ nx[q] = EndAt(text, q) + 1
            BY DEF hd, nx
        <3>3. st[q] = IF q >= Len(text) THEN <<>>
                      ELSE IF NoRecord(text, q) THEN <<(<<Broken>>)>>
                      ELSE <<KeyvalsFrom(text, q)>>
            BY DEF st, end
        <3>. QED
            BY <2>4, <3>1, <3>2, <3>3 DEF Chained
    <2>6. f = [q \in 1..N |-> f[q]]
        BY <2>4
    <2>. HIDE DEF Step
    <2>7. \A q \in 1..N : f[q] = Body(f, q)
        BY <1>0, <2>5
    <2>8. G(f)
        BY <2>6, <2>7
    <2>. QED
        BY <2>8
<1>4. G(g)
    <2>. HIDE DEF G
    <2>. QED
        BY <1>3 DEF g
<1>. HIDE DEF g
<1>5. p \in 1..N
    OBVIOUS
<1>6. g[p] = Step(g, p)
    <2>. HIDE DEF Step, N
    <2>1. g[p] = Body(g, p)
        BY <1>4, <1>5
    <2>. QED
        BY <1>0, <2>1
<1>7. EndAt(text, p) # 0 => EndAt(text, p) + 1 \in 1..N
    BY <1>1, KeyvalsEnd
<1>8. RecordsFrom(text, p) = g[p]
      /\ (EndAt(text, p) # 0 => RecordsFrom(text, EndAt(text, p) + 1) = g[EndAt(text, p) + 1])
    BY <1>2, <1>5, <1>7
<1>9. NoRecord(text, p) \/ EndAt(text, p) # 0
    BY DEF NoRecord
<1>. QED
    BY <1>6, <1>8, <1>9

(* How HeadersFrom goes on from p.                                         *)
ColonAt(text, p) == strchr(text, p, COLON)
CrAt(text, p) == strchr(text, Max({1, ColonAt(text, p)}), CR)
NoHeader(text, p) ==
    ColonAt(text, p) = 0 \/ CrAt(text, p) = 0 \/ ~StartsAt(text, CrAt(text, p), CRLF)
LastHeader(text, p) == StartsAt(text, CrAt(text, p), CRLF \o CRLF)
HeaderAt(text, p) == HeaderIn(text, p, ColonAt(text, p), CrAt(text, p))

(* A header that is read ends within the text.                             *)
LEMMA HeaderFacts ==
    ASSUME NEW S, NEW text \in Seq(S), NEW p \in Nat \ {0}, ~NoHeader(text, p)
    PROVE  CrAt(text, p) \in p..(Len(text) - 1)
<1>1. ColonAt(text, p) \in Nat /\ ColonAt(text, p) # 0 /\ CrAt(text, p) # 0
    BY FirstFacts DEF NoHeader, ColonAt
<1>2. ColonAt(text, p) \in p..Len(text)
    BY <1>1, FirstFacts DEF ColonAt
<1>3. Max({1, ColonAt(text, p)}) = ColonAt(text, p) /\ ColonAt(text, p) \in Nat \ {0}
    BY <1>1, MaxOfTwo
<1>4. CrAt(text, p) \in ColonAt(text, p)..Len(text)
    BY <1>1, <1>3, FirstFacts DEF CrAt
<1>5. Len(text) \in Nat /\ Len(CRLF) = 2
    BY LenProperties DEF CRLF
<1>6. CrAt(text, p) + Len(CRLF) - 1 <= Len(text)
    BY DEF NoHeader, StartsAt
<1>. QED
    BY <1>2, <1>4, <1>5, <1>6

(* The headers read from a position on: one, and those behind it.          *)
LEMMA HeadersAre ==
    ASSUME NEW S, NEW text \in Seq(S), NEW p \in 1..(Len(text) + 1)
    PROVE  HeadersFrom(text, p) =
             IF p >= Len(text) THEN <<>>
             ELSE IF NoHeader(text, p) THEN <<Broken>>
             ELSE IF LastHeader(text, p) THEN <<HeaderAt(text, p)>>
             ELSE <<HeaderAt(text, p)>> \o HeadersFrom(text, CrAt(text, p) + 2)
<1>. DEFINE N == Len(text) + 1
            Step(f, q) ==
              IF q >= Len(text) THEN <<>>
              ELSE IF NoHeader(text, q) THEN <<Broken>>
              ELSE IF LastHeader(text, q) THEN <<HeaderAt(text, q)>>
              ELSE <<HeaderAt(text, q)>> \o f[CrAt(text, q) + 2]
            Body(f, q) ==
              LET Line(colon, cr) ==
                    IF q >= Len(text) THEN <<>>
                    ELSE IF colon = 0 \/ cr = 0 \/ ~StartsAt(text, cr, CRLF) THEN <<Broken>>
                    ELSE IF StartsAt(text, cr, CRLF \o CRLF)
                      THEN <<HeaderIn(text, q, colon, cr)>>
                    ELSE <<HeaderIn(text, q, colon, cr)>> \o f[cr + 2]
                  From(colon) == Line(colon, strchr(text, Max({1, colon}), CR))
              IN  From(strchr(text, q, COLON))
            G(f) == f = [q \in 1..N |-> Body(f, q)]
            g == CHOOSE f : G(f)
<1>0. ASSUME NEW f, NEW q PROVE Body(f, q) = Step(f, q)
    BY DEF NoHeader, LastHeader, HeaderAt, ColonAt, CrAt
<1>1. N \in Nat /\ Len(text) \in Nat
    BY LenProperties
<1>2. ASSUME NEW q \in 1..N PROVE HeadersFrom(text, q) = g[q]
    BY DEF HeadersFrom
<1>. HIDE DEF Body
<1>3. \E f : G(f)
    <2>. DEFINE Stops(q) == q >= Len(text) \/ NoHeader(text, q) \/ LastHeader(text, q)
                go == {q \in 1..N : ~Stops(q)}
                nx == [q \in 1..N |-> CrAt(text, q) + 2]
                hd == [q \in 1..N |-> HeaderAt(text, q)]
                end == [q \in 1..N |-> IF NoHeader(text, q) THEN Broken ELSE HeaderAt(text, q)]
                V == {hd[q] : q \in 1..N} \cup {end[q] : q \in 1..N}
                st == [q \in 1..N |-> IF q >= Len(text) THEN <<>> ELSE <<end[q]>>]
    <2>1. \A q \in go : nx[q] \in (q + 1)..N
        BY <1>1, HeaderFacts
    <2>2. go \in SUBSET (1..N) /\ hd \in [1..N -> V] /\ \A q \in 1..N : end[q] \in V
        OBVIOUS
    <2>. HIDE DEF V, end
    <2>3. st \in [1..N -> Seq(V)]
        BY <2>2
    <2>. HIDE DEF go, nx, hd, st, N
    <2>4. PICK f \in [1..N -> Seq(V)] : Chained(f, N, go, nx, hd, st)
        BY <1>1, <2>1, <2>2, <2>3, ChainExists
    <2>5. ASSUME NEW q \in 1..N PROVE f[q] = Step(f, q)
        <3>1. q \in go <=> ~Stops(q)
            BY DEF go
        <3>2. hd[q] = HeaderAt(text, q) /\ nx[q] = CrAt(text, q) + 2
            BY DEF hd, nx
        <3>3. st[q] = IF q >= Len(text) THEN <<>>
                      ELSE IF NoHeader(text, q) THEN <<Broken>> ELSE <<HeaderAt(text, q)>>
            BY DEF st, end
        <3>. QED
            BY <2>4, <3>1, <3>2, <3>3 DEF Chained
    <2>6. f = [q \in 1..N |-> f[q]]
        BY <2>4
    <2>. HIDE DEF Step
    <2>7. \A q \in 1..N : f[q] = Body(f, q)
        BY <1>0, <2>5
    <2>8. G(f)
        BY <2>6, <2>7
    <2>. QED
        BY <2>8
<1>4. G(g)
    <2>. HIDE DEF G
    <2>. QED
        BY <1>3 DEF g
<1>. HIDE DEF g
<1>5. p \in 1..N
    OBVIOUS
<1>6. g[p] = Step(g, p)
    <2>. HIDE DEF Step, N
    <2>1. g[p] = Body(g, p)
        BY <1>4, <1>5
    <2>. QED
        BY <1>0, <2>1
<1>7. ~NoHeader(text, p) => CrAt(text, p) + 2 \in 1..N
    BY <1>1, HeaderFacts
<1>8. HeadersFrom(text, p) = g[p]
      /\ (~NoHeader(text, p) => HeadersFrom(text, CrAt(text, p) + 2) = g[CrAt(text, p) + 2])
    BY <1>2, <1>5, <1>7
<1>. QED
    BY <1>6, <1>8

(* An entry that a record can hold: no equals sign in the key, and no      *)
(* line end in either.                                                     *)
Plain(e) ==
    /\ e \in Item
    /\ EQ \notin Range(e.key) /\ CR \notin Range(e.key)
    /\ LF \notin Range(e.val) /\ CR \notin Range(e.val)

(* The text has this entry's line from q on, and what ends it.             *)
LineSaid(text, q, e, end) ==
    /\ SaidAt(text, q, e.key) /\ SaidAt(text, q + Len(e.key), <<EQ>>)
    /\ SaidAt(text, q + Len(e.key) + 1, e.val)
    /\ SaidAt(text, q + Len(e.key) + 1 + Len(e.val), end)

(* A single token is said where it is in the text.                         *)
LEMMA OneSaid ==
    ASSUME NEW S, NEW text \in Seq(S), NEW q \in Nat \ {0}, NEW c
    PROVE  SaidAt(text, q, <<c>>) <=> q <= Len(text) /\ text[q] = c
<1>1. Len(<<c>>) = 1 /\ <<c>>[1] = c /\ Len(text) \in Nat
    BY LenProperties
<1>2. q + 1 - 1 = q /\ \A n \in 1..1 : n = 1
    OBVIOUS
<1>. QED
    BY <1>1, <1>2 DEF SaidAt

(* Two tokens are said where they are in the text.                         *)
LEMMA PairSaid ==
    ASSUME NEW S, NEW text \in Seq(S), NEW q \in Nat \ {0}, NEW c, NEW d
    PROVE  SaidAt(text, q, <<c, d>>) <=> q + 1 <= Len(text) /\ text[q] = c /\ text[q + 1] = d
<1>1. Len(<<c, d>>) = 2 /\ <<c, d>>[1] = c /\ <<c, d>>[2] = d /\ Len(text) \in Nat
    BY LenProperties
<1>2. q + 2 - 1 = q + 1 /\ q + 1 - 1 = q /\ \A n \in 1..2 : n = 1 \/ n = 2
    OBVIOUS
<1>3. SaidAt(text, q, <<c, d>>) <=>
        q + 1 <= Len(text) /\ text[q + 1 - 1] = c /\ text[q + 2 - 1] = d
    BY <1>1, <1>2 DEF SaidAt
<1>. QED
    BY <1>2, <1>3

(* What is last in front of a position, when v is said there.              *)
LEMMA LastSaid ==
    ASSUME NEW S, NEW text \in Seq(S), NEW q \in Nat \ {0}, NEW v \in Seq(S), SaidAt(text, q, v)
    PROVE  v # <<>> => text[q + Len(v) - 1] \in Range(v)
<1>1. Len(v) \in Nat /\ DOMAIN v = 1..Len(v)
    BY LenProperties
<1>2. ASSUME v # <<>> PROVE Len(v) \in 1..Len(v)
    BY <1>1, <1>2, EmptySeq
<1>. QED
    BY <1>1, <1>2 DEF SaidAt, Range

(* The type, the length and the tokens of two texts in a row.              *)
LEMMA CatAre ==
    ASSUME NEW S, NEW u \in Seq(S), NEW v \in Seq(S)
    PROVE  /\ Cat(u, v) \in Seq(S) /\ Len(Cat(u, v)) = Len(u) + Len(v)
           /\ Range(Cat(u, v)) = Range(u) \cup Range(v)
BY ConcatProperties, RangeOfConcat DEF Cat

(* A line that is not the last of its record.                              *)
LEMMA LineIsRead ==
    ASSUME NEW text \in Text, NEW q \in Nat \ {0}, NEW e, Plain(e), LineSaid(text, q, e, <<LF>>)
    PROVE  LET lf == q + Len(e.key) + 1 + Len(e.val)
           IN  /\ ~NoLine(text, q) /\ ~LastLine(text, q)
               /\ LfAt(text, q) = lf
               /\ SaidBy(text, q, LfAt(text, q) - 1) = Found(e.key, e.val, lf)
<1>. DEFINE a == e.key
            v == e.val
            A == Len(a)
            M == Len(v)
            eq == q + A
            lf == q + A + 1 + M
<1>1. text \in Seq(Token) /\ a \in Seq(Token) /\ v \in Seq(Token) /\ EQ \in Token /\ LF \in Token
    BY TokenAssumption DEF Plain, Item, Text
<1>2. A \in Nat /\ M \in Nat /\ Len(text) \in Nat /\ eq \in Nat \ {0}
    BY <1>1, LenProperties
<1>3. /\ EQ \notin Range(a) /\ LF \notin Range(v) /\ CR \notin Range(v)
      /\ SaidAt(text, q, a) /\ SaidAt(text, eq, <<EQ>>)
      /\ SaidAt(text, eq + 1, v) /\ SaidAt(text, lf, <<LF>>)
    BY DEF Plain, LineSaid
<1>. HIDE DEF a, v
<1>4. EqAt(text, q) = eq
    BY <1>1, <1>3, FirstSaid DEF EqAt
<1>5. Max({1, EqAt(text, q)}) = eq
    BY <1>2, <1>4, MaxOfTwo
<1>. DEFINE w == Cat(<<EQ>>, v)
            es == <<EQ>>
<1>6. es \in Seq(Token) /\ Len(es) = 1 /\ Range(es) = {EQ}
    <2>1. DOMAIN es = {1}
        OBVIOUS
    <2>. QED
        BY <1>1, <2>1 DEF Range
<1>7. w = Cat(es, v) /\ SaidAt(text, eq, es)
    BY <1>3
<1>. HIDE DEF w, es
<1>8. w \in Seq(Token) /\ Len(w) = 1 + M /\ Range(w) = {EQ} \cup Range(v)
    <2>1. w \in Seq(Token) /\ Len(w) = Len(es) + Len(v) /\ Range(w) = Range(es) \cup Range(v)
        <3>1. es \in Seq(Token) /\ v \in Seq(Token)
            BY <1>1, <1>6
        <3>. HIDE DEF M
        <3>. QED
            BY <1>7, <3>1, CatAre
    <2>. QED
        BY <1>6, <2>1
<1>9. SaidAt(text, eq, w) /\ LF \notin Range(w)
    <2>1. EQ # LF
        BY DEF EQ, LF
    <2>. QED
        BY <1>1, <1>2, <1>3, <1>6, <1>7, <1>8, <2>1, SaidInARow
<1>10. eq + Len(w) = lf
    BY <1>2, <1>8
<1>11. strchr(text, eq, LF) = lf /\ lf \in eq..Len(text)
    <2>1. SaidAt(text, eq + Len(w), <<LF>>)
        BY <1>3, <1>10
    <2>. HIDE DEF eq
    <2>2. strchr(text, eq, LF) = eq + Len(w) /\ eq + Len(w) \in eq..Len(text)
        BY <1>1, <1>2, <1>8, <1>9, <2>1, FirstSaid
    <2>. QED
        BY <1>10, <2>2
<1>12. LfAt(text, q) = lf
    BY <1>5, <1>11 DEF LfAt
<1>13. ~NoLine(text, q)
    BY <1>2, <1>4, <1>11, <1>12 DEF NoLine
<1>14. text[lf - 1] # CR
    <2>1. text[eq + Len(w) - 1] \in Range(w)
        <3>1. w # <<>>
            BY <1>2, <1>8
        <3>. HIDE DEF eq
        <3>. QED
            BY <1>1, <1>2, <1>8, <1>9, <3>1, LastSaid
    <2>2. CR # EQ
        BY DEF EQ, CR
    <2>. QED
        BY <1>3, <1>8, <1>10, <2>1, <2>2
<1>15. SubSeq(text, q, eq - 1) = a
    BY <1>1, <1>3, SaidIsSub
<1>16. SubSeq(text, eq + 1, lf - 1) = v
    <2>1. (eq + 1) + M - 1 = lf - 1 /\ eq + 1 \in Nat \ {0}
        BY <1>2
    <2>. HIDE DEF lf, eq
    <2>2. SubSeq(text, eq + 1, (eq + 1) + M - 1) = v
        BY <1>1, <1>3, <2>1, SaidIsSub
    <2>. QED
        BY <2>1, <2>2
<1>17. SaidBy(text, q, LfAt(text, q) - 1) = Found(a, v, lf)
    BY <1>4, <1>12, <1>15, <1>16 DEF SaidBy
<1>. QED
    BY <1>12, <1>13, <1>14, <1>17 DEF LastLine, a, v

(* The last line of a record.                                              *)
LEMMA LastLineIsRead ==
    ASSUME NEW text \in Text, NEW q \in Nat \ {0}, NEW e, Plain(e), LineSaid(text, q, e, CRLF)
    PROVE  LET lf == q + Len(e.key) + 1 + Len(e.val) + 1
           IN  /\ ~NoLine(text, q) /\ LastLine(text, q)
               /\ LfAt(text, q) = lf
               /\ SaidBy(text, q, LfAt(text, q) - 2) = Found(e.key, e.val, lf)
<1>. DEFINE a == e.key
            v == e.val
            A == Len(a)
            M == Len(v)
            eq == q + A
            cr == q + A + 1 + M
<1>1. /\ text \in Seq(Token) /\ a \in Seq(Token) /\ v \in Seq(Token)
      /\ EQ \in Token /\ LF \in Token /\ CR \in Token
    BY TokenAssumption DEF Plain, Item, Text
<1>2. A \in Nat /\ M \in Nat /\ Len(text) \in Nat /\ eq \in Nat \ {0} /\ cr \in Nat \ {0}
    <2>1. A \in Nat /\ M \in Nat /\ Len(text) \in Nat
        BY <1>1, LenProperties
    <2>. HIDE DEF A, M
    <2>. QED
        BY <2>1
<1>3. /\ EQ \notin Range(a) /\ LF \notin Range(v) /\ CR \notin Range(v)
      /\ SaidAt(text, q, a) /\ SaidAt(text, eq, <<EQ>>)
      /\ SaidAt(text, eq + 1, v) /\ SaidAt(text, cr, CRLF)
    BY DEF Plain, LineSaid
<1>. HIDE DEF a, v
<1>4. EqAt(text, q) = eq
    BY <1>1, <1>3, FirstSaid DEF EqAt
<1>5. Max({1, EqAt(text, q)}) = eq
    BY <1>2, <1>4, MaxOfTwo
<1>6. cr + 1 <= Len(text) /\ text[cr] = CR /\ text[cr + 1] = LF
    <2>. HIDE DEF cr
    <2>. QED
        BY <1>1, <1>2, <1>3, PairSaid DEF CRLF
<1>. DEFINE es == <<EQ>>
            cs == <<CR>>
            u == Cat(es, v)
            w == Cat(u, cs)
<1>7. /\ es \in Seq(Token) /\ Len(es) = 1 /\ Range(es) = {EQ}
      /\ cs \in Seq(Token) /\ Len(cs) = 1 /\ Range(cs) = {CR}
    <2>1. DOMAIN es = {1} /\ DOMAIN cs = {1}
        OBVIOUS
    <2>. QED
        BY <1>1, <2>1 DEF Range
<1>8. SaidAt(text, eq, es) /\ SaidAt(text, cr, cs)
    <2>. HIDE DEF cr, eq
    <2>. QED
        BY <1>1, <1>2, <1>3, <1>6, OneSaid
<1>. HIDE DEF es, cs
<1>9. u \in Seq(Token) /\ Len(u) = 1 + M /\ Range(u) = {EQ} \cup Range(v)
    <2>1. u \in Seq(Token) /\ Len(u) = Len(es) + Len(v) /\ Range(u) = Range(es) \cup Range(v)
        <3>1. es \in Seq(Token) /\ v \in Seq(Token)
            BY <1>1, <1>7
        <3>. QED
            BY <3>1, CatAre
    <2>. QED
        BY <1>7, <2>1
<1>10. SaidAt(text, eq, u)
    BY <1>1, <1>2, <1>3, <1>7, <1>8, SaidInARow
<1>. HIDE DEF u
<1>11. w \in Seq(Token) /\ Len(w) = 2 + M /\ Range(w) = ({EQ} \cup Range(v)) \cup {CR}
    <2>1. w \in Seq(Token) /\ Len(w) = Len(u) + Len(cs) /\ Range(w) = Range(u) \cup Range(cs)
        <3>1. u \in Seq(Token) /\ cs \in Seq(Token)
            BY <1>7, <1>9
        <3>. QED
            BY <3>1, CatAre
    <2>2. Len(u) + Len(cs) = 2 + M
        BY <1>2, <1>7, <1>9
    <2>. QED
        BY <1>7, <1>9, <2>1, <2>2
<1>12. SaidAt(text, eq, w)
    <2>1. eq + Len(u) = cr
        BY <1>2, <1>9
    <2>. HIDE DEF eq, cr
    <2>. QED
        BY <1>1, <1>2, <1>7, <1>8, <1>9, <1>10, <2>1, SaidInARow
<1>13. LF \notin Range(w)
    <2>1. LF # EQ /\ LF # CR
        BY DEF EQ, LF, CR
    <2>. QED
        BY <1>3, <1>11, <2>1
<1>. HIDE DEF w
<1>14. SaidAt(text, eq + Len(w), <<LF>>) /\ eq + Len(w) = cr + 1
    <2>1. eq + Len(w) = cr + 1 /\ cr + 1 \in Nat \ {0}
        BY <1>2, <1>11
    <2>. HIDE DEF eq, cr
    <2>. QED
        BY <1>1, <1>6, <2>1, OneSaid
<1>15. strchr(text, eq, LF) = cr + 1 /\ cr + 1 \in eq..Len(text)
    <2>. HIDE DEF eq
    <2>1. strchr(text, eq, LF) = eq + Len(w) /\ eq + Len(w) \in eq..Len(text)
        BY <1>1, <1>2, <1>11, <1>12, <1>13, <1>14, FirstSaid
    <2>. QED
        BY <1>14, <2>1
<1>16. LfAt(text, q) = cr + 1
    BY <1>5, <1>15 DEF LfAt
<1>17. ~NoLine(text, q)
    BY <1>2, <1>4, <1>15, <1>16 DEF NoLine
<1>18. (cr + 1) - 1 = cr /\ (cr + 1) - 2 = cr - 1
    BY <1>2
<1>19. LastLine(text, q)
    <2>. HIDE DEF cr
    <2>. QED
        BY <1>6, <1>16, <1>18 DEF LastLine
<1>20. SubSeq(text, q, eq - 1) = a
    BY <1>1, <1>3, SaidIsSub
<1>21. SubSeq(text, eq + 1, cr - 1) = v
    <2>1. (eq + 1) + M - 1 = cr - 1 /\ eq + 1 \in Nat \ {0}
        BY <1>2
    <2>. HIDE DEF cr, eq
    <2>2. SubSeq(text, eq + 1, (eq + 1) + M - 1) = v
        BY <1>1, <1>3, <2>1, SaidIsSub
    <2>. QED
        BY <2>1, <2>2
<1>22. SaidBy(text, q, LfAt(text, q) - 2) = Found(a, v, cr + 1)
    <2>. HIDE DEF cr, eq
    <2>. QED
        BY <1>4, <1>16, <1>18, <1>20, <1>21 DEF SaidBy
<1>. QED
    BY <1>16, <1>17, <1>19, <1>22 DEF a, v

(* What is written for a record, its last line feed gone, and all of it.   *)
Body(rec) == Front(Spelled(rec, <<EQ>>, <<LF>>))
Block(rec) == Body(rec) \o CRLF

EqLine(e) == LineOf(e, <<EQ>>)

(* A record, and its text, one line after the other.                       *)
PlainRecord(rec) == rec \in Seq(Item) /\ rec # <<>> /\ \A n \in 1..Len(rec) : Plain(rec[n])
SpelledRun(k, rec) ==
    /\ k[0] = <<>>
    /\ \A n \in 1..Len(rec) : k[n] = Cat(k[n - 1], Cat(EqLine(rec[n]), <<LF>>))

(* The line of a keyval, its type and its tokens.                          *)
LEMMA EqLineIs ==
    ASSUME NEW e, e \in Item
    PROVE  /\ EqLine(e) = Cat(Cat(e.key, <<EQ>>), e.val)
           /\ EqLine(e) \in Text /\ Len(EqLine(e)) = Len(e.key) + 1 + Len(e.val)
           /\ e.key \in Text /\ e.val \in Text /\ Cat(e.key, <<EQ>>) \in Text
           /\ Range(EqLine(e)) = (Range(e.key) \cup {EQ}) \cup Range(e.val)
<1>. DEFINE a == e.key
            v == e.val
            es == <<EQ>>
            u == Cat(a, es)
<1>1. a \in Seq(Token) /\ v \in Seq(Token) /\ es \in Seq(Token)
    BY TokenAssumption DEF Item, Text
<1>2. Len(es) = 1 /\ Range(es) = {EQ}
    <2>1. DOMAIN es = {1}
        OBVIOUS
    <2>. QED
        BY <1>1, <2>1 DEF Range
<1>3. EqLine(e) = Cat(u, v)
    BY DEF EqLine, LineOf, Cat
<1>. HIDE DEF a, v, es
<1>4. u \in Seq(Token) /\ Len(u) = Len(a) + Len(es) /\ Range(u) = Range(a) \cup Range(es)
    BY <1>1, CatAre
<1>. HIDE DEF u
<1>5. /\ Cat(u, v) \in Seq(Token) /\ Len(Cat(u, v)) = Len(u) + Len(v)
      /\ Range(Cat(u, v)) = Range(u) \cup Range(v)
    <2>1. u \in Seq(Token) /\ v \in Seq(Token)
        BY <1>1, <1>4
    <2>. QED
        BY <2>1, CatAre
<1>6. Len(a) \in Nat /\ Len(v) \in Nat
    BY <1>1, LenProperties
<1>7. Len(u) + Len(v) = Len(a) + 1 + Len(v)
    BY <1>2, <1>4, <1>6
<1>8. Range(Cat(u, v)) = (Range(a) \cup {EQ}) \cup Range(v)
    BY <1>2, <1>4, <1>5
<1>9. /\ EqLine(e) = Cat(u, v) /\ EqLine(e) \in Text /\ Len(EqLine(e)) = Len(a) + 1 + Len(v)
      /\ a \in Text /\ v \in Text /\ u \in Text
      /\ Range(EqLine(e)) = (Range(a) \cup {EQ}) \cup Range(v)
    BY <1>1, <1>3, <1>4, <1>5, <1>7, <1>8 DEF Text
<1>. QED
    BY <1>9 DEF a, v, es, u

(* Without its last token the text is what was in front of that.           *)
LEMMA EndsInFeed ==
    ASSUME NEW S, NEW u \in Seq(S), NEW x \in S
    PROVE  Front(Cat(u, <<x>>)) = u
<1>. DEFINE s == <<x>>
            c == Cat(u, s)
            M == Len(u)
<1>1. M \in Nat
    BY LenProperties
<1>2. s \in Seq(S) /\ Len(s) = 1
    OBVIOUS
<1>. HIDE DEF s
<1>3. c \in Seq(S) /\ Len(c) = M + 1
      /\ \A n \in 1..(M + 1) : c[n] = IF n <= M THEN u[n] ELSE s[n - M]
    BY <1>2, ConcatProperties DEF Cat
<1>. HIDE DEF c
<1>4. Front(c) = SubSeq(c, 1, M)
    <2>1. (M + 1) - 1 = M
        BY <1>1
    <2>. QED
        BY <1>3, <2>1 DEF Front
<1>. HIDE DEF M
<1>5. /\ SubSeq(c, 1, M) \in Seq(S) /\ Len(SubSeq(c, 1, M)) = M
      /\ \A n \in 1..M : SubSeq(c, 1, M)[n] = c[n]
    <2>1. \A n \in 1..M : c[n] \in S
        BY <1>1, <1>3, ElementOfSeq
    <2>2. M - 1 + 1 = M /\ (~(1 <= M) => M = 0) /\ \A n \in 1..M : 1 + n - 1 = n
        BY <1>1
    <2>. QED
        BY <1>1, <2>1, <2>2, SubSeqProperties
<1>6. \A n \in 1..M : SubSeq(c, 1, M)[n] = u[n]
    BY <1>1, <1>3, <1>5
<1>7. SubSeq(c, 1, M) = u
    BY <1>5, <1>6, SeqEqual DEF M
<1>. QED
    BY <1>4, <1>7 DEF c, s

(* The lines of a record, one after the other, and the last of them        *)
(* without its line feed.                                                  *)
LEMMA SpelledIs ==
    ASSUME NEW rec, PlainRecord(rec)
    PROVE  \E k \in [0..Len(rec) -> Text] :
              /\ SpelledRun(k, rec) /\ Spelled(rec, <<EQ>>, <<LF>>) = k[Len(rec)]
              /\ Len(rec) \in Nat \ {0}
              /\ Body(rec) = Cat(k[Len(rec) - 1], EqLine(rec[Len(rec)]))
              /\ Body(rec) \in Text /\ Block(rec) = Cat(Body(rec), CRLF)
<1>. DEFINE N == Len(rec)
            ss == [n \in DOMAIN rec |-> rec[n].key \o <<EQ>> \o rec[n].val \o <<LF>>]
            lf == <<LF>>
<1>1. /\ N \in Nat /\ N # 0 /\ DOMAIN rec = 1..N
      /\ \A n \in 1..N : rec[n] \in Item
    BY LenProperties, ElementOfSeq, EmptySeq DEF PlainRecord
<1>2. lf \in Seq(Token)
    BY TokenAssumption
<1>3. \A n \in 1..N : ss[n] = Cat(EqLine(rec[n]), lf)
    BY <1>1 DEF EqLine, LineOf, Cat
<1>4. ss \in Seq(Text) /\ Len(ss) = N
    <2>1. ASSUME NEW n \in 1..N PROVE ss[n] \in Text
        <3>. DEFINE w == EqLine(rec[n])
        <3>1. w \in Seq(Token)
            BY <1>1, EqLineIs DEF Text
        <3>2. ss[n] = Cat(w, lf)
            BY <1>3
        <3>. HIDE DEF w, lf, ss
        <3>3. Cat(w, lf) \in Seq(Token)
            BY <1>2, <3>1, CatAre
        <3>. QED
            BY <3>2, <3>3 DEF Text
    <2>2. ss \in [1..N -> Text]
        BY <1>1, <2>1
    <2>. HIDE DEF ss
    <2>. QED
        BY <1>1, <2>2, AsSeq
<1>5. Spelled(rec, <<EQ>>, <<LF>>) = FlattenSeq(ss)
    BY DEF Spelled
<1>. HIDE DEF ss
<1>6. PICK k \in [0..N -> Text] : FlattenRun(k, ss) /\ FlattenSeq(ss) = k[N]
    BY <1>4, FlattenAre DEF Text
<1>7. SpelledRun(k, rec)
    <2>1. k[0] = <<>> /\ \A n \in 1..N : k[n] = Cat(k[n - 1], ss[n])
        BY <1>4, <1>6 DEF FlattenRun, Cat
    <2>. QED
        BY <1>3, <2>1 DEF SpelledRun
<1>8. Body(rec) = Cat(k[N - 1], EqLine(rec[N])) /\ Cat(k[N - 1], EqLine(rec[N])) \in Text
    <2>. DEFINE u == k[N - 1]
                w == EqLine(rec[N])
                b == Cat(u, w)
    <2>1. N \in 1..N /\ N - 1 \in 0..N
        BY <1>1
    <2>2. u \in Seq(Token) /\ w \in Seq(Token)
        BY <1>1, <1>6, <2>1, EqLineIs DEF Text
    <2>3. k[N] = Cat(u, Cat(w, lf))
        BY <1>7, <2>1 DEF SpelledRun
    <2>. HIDE DEF u, w, lf
    <2>4. k[N] = Cat(b, lf)
        BY <1>2, <2>2, <2>3, CatFacts
    <2>5. b \in Seq(Token)
        BY <2>2, CatAre
    <2>. HIDE DEF b
    <2>6. Front(Cat(b, lf)) = b
        BY <2>5, TokenAssumption, EndsInFeed DEF lf
    <2>7. Body(rec) = Front(k[N])
        BY <1>5, <1>6 DEF Body
    <2>. QED
        BY <2>4, <2>5, <2>6, <2>7 DEF b, u, w, Text
<1>9. Block(rec) = Cat(Body(rec), CRLF)
    BY DEF Block, Cat
<1>. QED
    BY <1>1, <1>5, <1>6, <1>7, <1>8, <1>9

(* No carriage return before that which ends the record, and no empty one. *)
LEMMA BlockFacts ==
    ASSUME NEW rec, PlainRecord(rec)
    PROVE  /\ Body(rec) \in Text /\ Block(rec) \in Text /\ Block(rec) = Cat(Body(rec), CRLF)
           /\ Len(Block(rec)) = Len(Body(rec)) + 2 /\ Len(Body(rec)) \in Nat \ {0}
           /\ CR \notin Range(Body(rec))
           /\ Spelled(rec, <<EQ>>, <<LF>>) = Cat(Body(rec), <<LF>>)
<1>. DEFINE N == Len(rec)
            lf == <<LF>>
<1>1. PICK k \in [0..N -> Text] :
         /\ SpelledRun(k, rec) /\ Spelled(rec, <<EQ>>, <<LF>>) = k[N]
         /\ N \in Nat \ {0} /\ Body(rec) = Cat(k[N - 1], EqLine(rec[N]))
         /\ Body(rec) \in Text /\ Block(rec) = Cat(Body(rec), CRLF)
    BY SpelledIs
<1>. HIDE DEF N
<1>2. \A n \in 1..N : rec[n] \in Item /\ Plain(rec[n])
    BY DEF PlainRecord, Plain, N
<1>3. \A n \in 1..N : k[n] = Cat(k[n - 1], Cat(EqLine(rec[n]), lf))
    BY <1>1 DEF SpelledRun, N
<1>4. lf \in Seq(Token) /\ Range(lf) = {LF} /\ CRLF \in Seq(Token) /\ Len(CRLF) = 2
    <2>1. DOMAIN lf = {1}
        OBVIOUS
    <2>. QED
        BY TokenAssumption, <2>1 DEF Range, CRLF
<1>. HIDE DEF lf
<1>5. ASSUME NEW n \in 1..N
      PROVE  /\ EqLine(rec[n]) \in Seq(Token) /\ CR \notin Range(EqLine(rec[n]))
             /\ Len(EqLine(rec[n])) \in Nat \ {0}
    <2>. DEFINE e == rec[n]
    <2>1. e \in Item /\ Plain(e)
        BY <1>2
    <2>. HIDE DEF e
    <2>2. /\ EqLine(e) \in Text /\ Len(EqLine(e)) = Len(e.key) + 1 + Len(e.val)
          /\ e.key \in Text /\ e.val \in Text
          /\ Range(EqLine(e)) = (Range(e.key) \cup {EQ}) \cup Range(e.val)
        BY <2>1, EqLineIs
    <2>3. Len(e.key) \in Nat /\ Len(e.val) \in Nat
        BY <2>2, LenProperties DEF Text
    <2>4. CR # EQ
        BY DEF CR, EQ
    <2>5. CR \notin Range(EqLine(e))
        BY <2>1, <2>2, <2>4 DEF Plain
    <2>6. Len(e.key) + 1 + Len(e.val) \in Nat \ {0}
        <3>1. \A x, y \in Nat : x + 1 + y \in Nat \ {0}
            OBVIOUS
        <3>. QED
            BY <2>3, <3>1, Zenon
    <2>7. Len(EqLine(e)) \in Nat \ {0}
        BY <2>2, <2>6
    <2>8. EqLine(e) \in Seq(Token)
        BY <2>2 DEF Text
    <2>. QED
        BY <2>5, <2>7, <2>8 DEF e
<1>. DEFINE P == {n \in Nat : CR \notin Range(k[n])}
<1>6. 0 \in P
    BY <1>1 DEF SpelledRun, Range
<1>7. ASSUME NEW n \in 0..(N - 1), n \in P PROVE n + 1 \in P
    <2>. DEFINE u == k[n]
                w == EqLine(rec[n + 1])
                c == Cat(w, lf)
    <2>1. n + 1 \in 1..N /\ (n + 1) - 1 = n /\ n \in 0..N /\ n + 1 \in Nat
        BY <1>1
    <2>2. u \in Seq(Token) /\ w \in Seq(Token) /\ CR \notin Range(w) /\ CR \notin Range(u)
        BY <1>1, <1>5, <1>7, <2>1 DEF Text
    <2>3. k[n + 1] = Cat(u, c)
        BY <1>3, <2>1
    <2>. HIDE DEF u, w
    <2>4. c \in Seq(Token) /\ Range(c) = Range(w) \cup Range(lf)
        <3>1. w \in Seq(Token) /\ lf \in Seq(Token)
            BY <1>4, <2>2
        <3>. QED
            BY <3>1, CatAre
    <2>. HIDE DEF c
    <2>5. Range(Cat(u, c)) = Range(u) \cup Range(c)
        <3>1. u \in Seq(Token) /\ c \in Seq(Token)
            BY <2>2, <2>4
        <3>. QED
            BY <3>1, CatAre
    <2>6. CR # LF
        BY DEF CR, LF
    <2>. QED
        BY <1>4, <2>1, <2>2, <2>3, <2>4, <2>5, <2>6
<1>. HIDE DEF P
<1>8. N - 1 \in P
    <2>1. \A n \in 0..N : n \in P
        BY <1>1, <1>6, <1>7, UpTo
    <2>. QED
        BY <1>1, <2>1
<1>9. /\ Body(rec) \in Seq(Token) /\ CR \notin Range(Body(rec)) /\ Len(Body(rec)) \in Nat \ {0}
      /\ Spelled(rec, <<EQ>>, <<LF>>) = Cat(Body(rec), lf)
    <2>. DEFINE u == k[N - 1]
                w == EqLine(rec[N])
    <2>1. N \in 1..N /\ N - 1 \in 0..N
        BY <1>1
    <2>2. u \in Seq(Token) /\ w \in Seq(Token) /\ CR \notin Range(w) /\ CR \notin Range(u)
          /\ Len(w) \in Nat \ {0}
        BY <1>1, <1>5, <1>8, <2>1 DEF Text, P
    <2>3. Body(rec) = Cat(u, w) /\ k[N] = Cat(u, Cat(w, lf))
        BY <1>1, <1>3, <2>1
    <2>. HIDE DEF u, w
    <2>4. /\ Cat(u, w) \in Seq(Token) /\ Range(Cat(u, w)) = Range(u) \cup Range(w)
          /\ Len(Cat(u, w)) = Len(u) + Len(w)
        BY <2>2, CatAre
    <2>5. Len(u) \in Nat
        BY <2>2, LenProperties
    <2>6. Cat(Cat(u, w), lf) = Cat(u, Cat(w, lf))
        BY <1>4, <2>2, CatFacts
    <2>. QED
        BY <1>1, <2>2, <2>3, <2>4, <2>5, <2>6
<1>10. Cat(Body(rec), CRLF) \in Seq(Token) /\ Len(Cat(Body(rec), CRLF)) = Len(Body(rec)) + 2
    <2>. DEFINE b == Body(rec)
                c == CRLF
    <2>1. b \in Seq(Token) /\ c \in Seq(Token)
        BY <1>4, <1>9
    <2>2. Len(c) = 2
        BY <1>4
    <2>. HIDE DEF b, c
    <2>3. Cat(b, c) \in Seq(Token) /\ Len(Cat(b, c)) = Len(b) + Len(c)
        BY <2>1, CatAre
    <2>. QED
        BY <2>2, <2>3 DEF b, c
<1>. QED
    BY <1>1, <1>9, <1>10 DEF Text, lf

(* A line and what ends it, in their parts.                                *)
LEMMA LineSplit ==
    ASSUME NEW text \in Text, NEW q \in Nat \ {0}, NEW e \in Item, NEW end \in Text,
           SaidAt(text, q, EqLine(e)), SaidAt(text, q + Len(EqLine(e)), end)
    PROVE  LineSaid(text, q, e, end)
<1>. DEFINE a == e.key
            v == e.val
            es == <<EQ>>
            u == Cat(a, es)
            A == Len(a)
            M == Len(v)
            p1 == q + A
            p2 == q + A + 1
<1>1. /\ EqLine(e) = Cat(u, v) /\ Len(EqLine(e)) = A + 1 + M
      /\ a \in Text /\ v \in Text /\ u \in Text
    BY EqLineIs
<1>2. text \in Seq(Token) /\ a \in Seq(Token) /\ v \in Seq(Token) /\ u \in Seq(Token)
      /\ es \in Seq(Token) /\ Len(es) = 1
    BY <1>1, TokenAssumption DEF Text
<1>. HIDE DEF es, a, v
<1>3. A \in Nat /\ M \in Nat /\ p1 \in Nat \ {0} /\ p2 \in Nat \ {0}
    <2>1. A \in Nat /\ M \in Nat
        BY <1>2, LenProperties
    <2>. HIDE DEF A, M
    <2>. QED
        BY <2>1
<1>4. Len(u) = A + 1
    <2>1. a \in Seq(Token) /\ es \in Seq(Token)
        BY <1>2
    <2>2. Len(u) = Len(a) + Len(es)
        BY <2>1, CatAre
    <2>. QED
        BY <1>2, <2>2
<1>. HIDE DEF u
<1>5. SaidAt(text, q, u) /\ SaidAt(text, q + Len(u), v)
    <2>1. SaidAt(text, q, Cat(u, v))
        BY <1>1
    <2>2. text \in Seq(Token) /\ u \in Seq(Token) /\ v \in Seq(Token)
        BY <1>2
    <2>. QED
        BY <2>1, <2>2, SaidInARow
<1>6. SaidAt(text, q, a) /\ SaidAt(text, q + A, es)
    <2>1. SaidAt(text, q, Cat(a, es))
        BY <1>5 DEF u
    <2>2. text \in Seq(Token) /\ a \in Seq(Token) /\ es \in Seq(Token)
        BY <1>2
    <2>. QED
        BY <2>1, <2>2, SaidInARow
<1>7. q + Len(u) = p2 /\ q + Len(EqLine(e)) = p2 + M
    <2>. HIDE DEF A, M
    <2>. QED
        BY <1>1, <1>3, <1>4
<1>8. SaidAt(text, p2, v) /\ SaidAt(text, p2 + M, end)
    BY <1>5, <1>7
<1>. QED
    BY <1>6, <1>8 DEF LineSaid, a, v, es

(* What the parser has found from the n-th keyval of a record on.          *)
Tells(r, rec, n, end) ==
    /\ Len(r) = Len(rec) - n + 1
    /\ \A i \in 1..Len(r) : r[i].key = rec[n + i - 1].key /\ r[i].val = rec[n + i - 1].val
    /\ Last(r).end = end

(* One keyval that was read tells a record of one keyval.                  *)
LEMMA ToldOne ==
    ASSUME NEW rec, NEW n \in Nat, Len(rec) = n, NEW end
    PROVE  Tells(<<Found(rec[n].key, rec[n].val, end)>>, rec, n, end)
<1>. DEFINE x == Found(rec[n].key, rec[n].val, end)
            r == <<x>>
<1>1. Len(r) = 1 /\ r[1] = x /\ Last(r) = x
    BY DEF Last
<1>2. x.key = rec[n].key /\ x.val = rec[n].val /\ x.end = end
    BY DEF Found
<1>. HIDE DEF x, r
<1>3. Len(rec) - n + 1 = 1 /\ n + 1 - 1 = n /\ \A i \in 1..1 : i = 1
    OBVIOUS
<1>4. Tells(r, rec, n, end)
    BY <1>1, <1>2, <1>3 DEF Tells
<1>. QED
    BY <1>4 DEF r, x

(* A keyval in front of those that tell the rest of a record.              *)
LEMMA ToldMore ==
    ASSUME NEW V, NEW rec, NEW n \in Nat, Len(rec) \in Nat, NEW end, NEW r \in Seq(V), r # <<>>,
           Tells(r, rec, n + 1, end), NEW lf,
           Found(rec[n].key, rec[n].val, lf) \in V
    PROVE  Tells(<<Found(rec[n].key, rec[n].val, lf)>> \o r, rec, n, end)
<1>. DEFINE x == Found(rec[n].key, rec[n].val, lf)
            s == <<x>>
            c == s \o r
            M == Len(r)
<1>1. s \in Seq(V) /\ Len(s) = 1 /\ s[1] = x
    OBVIOUS
<1>2. x.key = rec[n].key /\ x.val = rec[n].val /\ x \in V
    BY DEF Found
<1>3. c \in Seq(V) /\ Last(c) = Last(r)
    BY <1>2, LastInFront
<1>. HIDE DEF x, s
<1>4. Len(c) = 1 + M /\ \A i \in 1..(1 + M) : c[i] = IF i <= 1 THEN s[i] ELSE r[i - 1]
    <2>1. s \in Seq(V) /\ r \in Seq(V)
        BY <1>1
    <2>2. /\ Len(c) = Len(s) + Len(r)
          /\ \A i \in 1..(Len(s) + Len(r)) : c[i] = IF i <= Len(s) THEN s[i] ELSE r[i - Len(s)]
        BY <2>1, ConcatProperties
    <2>. QED
        BY <1>1, <2>2
<1>. HIDE DEF c
<1>5. M \in Nat
    BY LenProperties
<1>6. /\ M = Len(rec) - (n + 1) + 1
      /\ \A i \in 1..M : r[i].key = rec[(n + 1) + i - 1].key /\ r[i].val = rec[(n + 1) + i - 1].val
      /\ Last(r).end = end
    BY DEF Tells
<1>. HIDE DEF M
<1>7. ASSUME NEW i \in 1..(1 + M)
      PROVE  c[i].key = rec[n + i - 1].key /\ c[i].val = rec[n + i - 1].val
    <2>1. CASE i = 1
        <3>1. c[i] = x /\ n + i - 1 = n
            BY <1>1, <1>4, <2>1
        <3>. QED
            BY <1>2, <3>1
    <2>2. CASE i # 1
        <3>1. i - 1 \in 1..M /\ ~(i <= 1) /\ (n + 1) + (i - 1) - 1 = n + i - 1
            BY <1>5, <2>2
        <3>2. c[i] = r[i - 1]
            BY <1>4, <3>1
        <3>. QED
            BY <1>6, <3>1, <3>2
    <2>. QED
        BY <2>1, <2>2
<1>8. 1 + M = Len(rec) - n + 1
    BY <1>5, <1>6
<1>9. Tells(c, rec, n, end)
    BY <1>3, <1>4, <1>6, <1>7, <1>8 DEF Tells
<1>. QED
    BY <1>9 DEF c, s, x

(* A record that the text has as it was written is read as it was written. *)
LEMMA RecordIsRead ==
    ASSUME NEW text \in Text, NEW p \in Nat \ {0}, NEW rec, PlainRecord(rec),
           SaidAt(text, p, Block(rec))
    PROVE  Tells(KeyvalsFrom(text, p), rec, 1, p + Len(Block(rec)) - 1)
<1>. DEFINE N == Len(rec)
            lf == <<LF>>
            K(q) == KeyvalsFrom(text, q)
            E == p + Len(Block(rec)) - 1
            V == Sayings(text)
<1>1. PICK k \in [0..N -> Text] :
         /\ SpelledRun(k, rec) /\ Spelled(rec, <<EQ>>, <<LF>>) = k[N]
         /\ N \in Nat \ {0} /\ Body(rec) = Cat(k[N - 1], EqLine(rec[N]))
         /\ Body(rec) \in Text /\ Block(rec) = Cat(Body(rec), CRLF)
    BY SpelledIs
<1>. HIDE DEF N
<1>2. \A n \in 1..N : rec[n] \in Item /\ Plain(rec[n])
    BY DEF PlainRecord, Plain, N
<1>3. \A n \in 1..N : k[n] = Cat(k[n - 1], Cat(EqLine(rec[n]), lf))
    BY <1>1 DEF SpelledRun, N
<1>4. lf \in Text /\ CRLF \in Text /\ Len(lf) = 1 /\ Len(CRLF) = 2 /\ text \in Seq(Token)
    BY TokenAssumption DEF Text, CRLF
<1>. HIDE DEF lf
<1>5. ASSUME NEW n \in 1..N
      PROVE  EqLine(rec[n]) \in Text /\ Len(EqLine(rec[n])) \in Nat
             /\ Len(EqLine(rec[n])) = Len(rec[n].key) + 1 + Len(rec[n].val)
    <2>1. rec[n] \in Item
        BY <1>2
    <2>2. EqLine(rec[n]) \in Text
          /\ Len(EqLine(rec[n])) = Len(rec[n].key) + 1 + Len(rec[n].val)
        BY <2>1, EqLineIs
    <2>3. Len(EqLine(rec[n])) \in Nat
        BY <2>2, LenProperties DEF Text
    <2>. QED
        BY <2>2, <2>3
<1>. DEFINE st(n) == p + Len(k[n - 1])
<1>6. \A n \in 0..N : k[n] \in Text /\ Len(k[n]) \in Nat
    BY LenProperties DEF Text
<1>7. \A n \in 1..N : st(n) \in Nat \ {0}
    <2>1. \A n \in 1..N : n - 1 \in 0..N
        BY <1>1
    <2>2. \A x \in Nat : p + x \in Nat \ {0}
        OBVIOUS
    <2>. QED
        BY <1>6, <2>1, <2>2
<1>8. /\ SaidAt(text, p, Body(rec)) /\ SaidAt(text, p + Len(Body(rec)), CRLF)
      /\ Len(Block(rec)) = Len(Body(rec)) + 2
    <2>. DEFINE b == Body(rec)
                c == CRLF
    <2>1. b \in Seq(Token) /\ c \in Seq(Token)
        BY <1>1, <1>4 DEF Text
    <2>2. SaidAt(text, p, Cat(b, c)) /\ Block(rec) = Cat(b, c) /\ Len(c) = 2
        BY <1>1, <1>4
    <2>. HIDE DEF b, c
    <2>3. SaidAt(text, p, b) /\ SaidAt(text, p + Len(b), c)
        BY <1>4, <2>1, <2>2, SaidInARow
    <2>4. Len(Cat(b, c)) = Len(b) + Len(c)
        BY <2>1, CatAre
    <2>. QED
        BY <2>2, <2>3, <2>4 DEF b, c
<1>9. /\ SaidAt(text, p, k[N - 1]) /\ SaidAt(text, st(N), EqLine(rec[N]))
      /\ Len(Body(rec)) = Len(k[N - 1]) + Len(EqLine(rec[N]))
    <2>. DEFINE b == k[N - 1]
                c == EqLine(rec[N])
    <2>1. b \in Seq(Token) /\ c \in Seq(Token)
        <3>1. N \in 1..N /\ N - 1 \in 0..N
            BY <1>1
        <3>. QED
            BY <1>5, <1>6, <3>1 DEF Text
    <2>2. SaidAt(text, p, Cat(b, c)) /\ Body(rec) = Cat(b, c)
        BY <1>1, <1>8
    <2>. HIDE DEF b, c
    <2>3. SaidAt(text, p, b) /\ SaidAt(text, p + Len(b), c)
        BY <1>4, <2>1, <2>2, SaidInARow
    <2>4. Len(Cat(b, c)) = Len(b) + Len(c)
        BY <2>1, CatAre
    <2>. QED
        BY <2>2, <2>3, <2>4 DEF b, c
(* The lines in front of the last.                                         *)
<1>10. ASSUME NEW n \in 1..N, SaidAt(text, p, k[n])
       PROVE  /\ SaidAt(text, p, k[n - 1]) /\ SaidAt(text, st(n), EqLine(rec[n]))
              /\ SaidAt(text, st(n) + Len(EqLine(rec[n])), lf)
              /\ p + Len(k[n]) = st(n) + Len(EqLine(rec[n])) + 1
    <2>. DEFINE u == k[n - 1]
                w == EqLine(rec[n])
                c == Cat(w, lf)
    <2>1. u \in Seq(Token) /\ w \in Seq(Token) /\ lf \in Seq(Token)
        <3>1. n \in 1..N /\ n - 1 \in 0..N
            BY <1>1
        <3>. QED
            BY <1>4, <1>5, <1>6, <3>1 DEF Text
    <2>2. SaidAt(text, p, Cat(u, c)) /\ k[n] = Cat(u, c)
        BY <1>3, <1>10
    <2>3. st(n) = p + Len(u) /\ st(n) \in Nat \ {0}
        BY <1>7
    <2>. HIDE DEF u, w, st
    <2>4. c \in Seq(Token) /\ Len(c) = Len(w) + Len(lf)
        <3>1. w \in Seq(Token) /\ lf \in Seq(Token)
            BY <2>1
        <3>. QED
            BY <3>1, CatAre
    <2>5. SaidAt(text, p, u) /\ SaidAt(text, st(n), c)
        <3>1. u \in Seq(Token) /\ c \in Seq(Token)
            BY <2>1, <2>4
        <3>. HIDE DEF c
        <3>. QED
            BY <1>4, <2>2, <2>3, <3>1, SaidInARow
    <2>6. SaidAt(text, st(n), w) /\ SaidAt(text, st(n) + Len(w), lf)
        <3>1. w \in Seq(Token) /\ lf \in Seq(Token)
            BY <2>1
        <3>. QED
            BY <1>4, <2>3, <2>5, <3>1, SaidInARow
    <2>7. Len(Cat(u, c)) = Len(u) + Len(c)
        <3>1. u \in Seq(Token) /\ c \in Seq(Token)
            BY <2>1, <2>4
        <3>. HIDE DEF c
        <3>. QED
            BY <3>1, CatAre
    <2>8. Len(u) \in Nat /\ Len(w) \in Nat
        BY <2>1, LenProperties
    <2>9. p + Len(k[n]) = st(n) + Len(w) + 1
        <3>1. \A x, y \in Nat : p + (x + (y + 1)) = (p + x) + y + 1
            OBVIOUS
        <3>2. Len(k[n]) = Len(u) + (Len(w) + 1)
            BY <1>4, <2>2, <2>4, <2>7
        <3>. QED
            BY <2>3, <2>8, <3>1, <3>2
    <2>. QED
        BY <2>5, <2>6, <2>9 DEF u, w
<1>11. \A n \in 0..(N - 1) : SaidAt(text, p, k[n])
    <2>. DEFINE P == {n \in Nat : n <= N - 1 => SaidAt(text, p, k[N - 1 - n])}
    <2>1. 0 \in P
        <3>1. N - 1 - 0 = N - 1
            BY <1>1
        <3>. QED
            BY <1>9, <3>1
    <2>2. ASSUME NEW n \in 0..((N - 1) - 1), n \in P PROVE n + 1 \in P
        <3>1. N - 1 - n \in 1..N /\ n <= N - 1 /\ (N - 1 - n) - 1 = N - 1 - (n + 1) /\ n + 1 \in Nat
            BY <1>1
        <3>2. SaidAt(text, p, k[(N - 1 - n) - 1])
            BY <1>10, <2>2, <3>1
        <3>. QED
            BY <3>1, <3>2
    <2>. HIDE DEF P
    <2>3. N - 1 \in Nat
        BY <1>1
    <2>4. \A n \in 0..(N - 1) : n \in P
        BY <2>1, <2>2, <2>3, UpTo
    <2>5. ASSUME NEW n \in 0..(N - 1) PROVE SaidAt(text, p, k[n])
        <3>1. (N - 1) - n \in 0..(N - 1) /\ N - 1 - ((N - 1) - n) = n
            BY <1>1
        <3>2. (N - 1) - n \in P
            BY <2>4, <3>1
        <3>. QED
            BY <3>1, <3>2 DEF P
    <2>. QED
        BY <2>5
<1>12. ASSUME NEW n \in 1..(N - 1)
       PROVE  LineSaid(text, st(n), rec[n], lf) /\ st(n + 1) = st(n) + Len(EqLine(rec[n])) + 1
    <2>1. n \in 1..N /\ n \in 0..(N - 1) /\ (n + 1) - 1 = n
        BY <1>1
    <2>2. /\ SaidAt(text, st(n), EqLine(rec[n]))
          /\ SaidAt(text, st(n) + Len(EqLine(rec[n])), lf)
          /\ p + Len(k[n]) = st(n) + Len(EqLine(rec[n])) + 1
        BY <1>10, <1>11, <2>1
    <2>3. st(n + 1) = p + Len(k[n]) /\ st(n) \in Nat \ {0} /\ rec[n] \in Item
        BY <1>2, <1>7, <2>1
    <2>. HIDE DEF st
    <2>4. LineSaid(text, st(n), rec[n], lf)
        BY <1>4, <2>2, <2>3, LineSplit
    <2>. QED
        BY <2>2, <2>3, <2>4
<1>13. LineSaid(text, st(N), rec[N], CRLF) /\ st(N) + Len(EqLine(rec[N])) + 1 = E
    <2>1. N \in 1..N /\ N - 1 \in 0..N
        BY <1>1
    <2>2. Len(k[N - 1]) \in Nat /\ Len(EqLine(rec[N])) \in Nat
        BY <1>5, <1>6, <2>1
    <2>3. p + Len(Body(rec)) = st(N) + Len(EqLine(rec[N]))
        <3>1. \A x, y \in Nat : p + (x + y) = (p + x) + y
            OBVIOUS
        <3>. QED
            BY <1>9, <2>2, <3>1
    <2>4. E = st(N) + Len(EqLine(rec[N])) + 1
        <3>. DEFINE X == Len(k[N - 1])
                    Y == Len(EqLine(rec[N]))
                    Z == Len(Block(rec))
        <3>1. Z = (X + Y) + 2 /\ X \in Nat /\ Y \in Nat
            BY <1>8, <1>9, <2>2
        <3>. HIDE DEF X, Y, Z
        <3>2. p + Z - 1 = (p + X) + Y + 1
            BY <3>1
        <3>. QED
            BY <3>2 DEF X, Y, Z
    <2>5. st(N) \in Nat \ {0} /\ rec[N] \in Item
        BY <1>2, <1>7, <2>1
    <2>6. SaidAt(text, st(N) + Len(EqLine(rec[N])), CRLF)
        BY <1>8, <2>3
    <2>. HIDE DEF st, E
    <2>7. LineSaid(text, st(N), rec[N], CRLF)
        BY <1>4, <1>9, <2>5, <2>6, LineSplit
    <2>. QED
        BY <2>4, <2>7
<1>. DEFINE Holds(n) == Tells(K(st(n)), rec, n, E)
<1>14. ASSUME NEW n \in 1..N
       PROVE  /\ st(n) \in 1..(Len(text) + 1) /\ K(st(n)) \in Seq(V) /\ K(st(n)) # <<>>
              /\ \A e : SaidBy(text, st(n), e).end = LfAt(text, st(n))
              /\ \A e \in Int : SaidBy(text, st(n), e) \in V
    <2>1. n - 1 \in 0..(N - 1) /\ Len(text) \in Nat
        BY <1>1, <1>4, LenProperties
    <2>2. SaidAt(text, p, k[n - 1])
        BY <1>11, <2>1
    <2>3. st(n) - 1 <= Len(text)
        BY <2>2 DEF SaidAt
    <2>4. st(n) \in Nat \ {0}
        BY <1>7
    <2>. HIDE DEF st
    <2>5. st(n) \in 1..(Len(text) + 1)
        BY <2>1, <2>3, <2>4
    <2>6. K(st(n)) \in Seq(V) /\ K(st(n)) # <<>>
        BY <1>4, <2>5, KeyvalsEnd
    <2>7. \A e : SaidBy(text, st(n), e).end = LfAt(text, st(n))
        BY DEF SaidBy, Found
    <2>8. \A e \in Int : SaidBy(text, st(n), e) \in V
        BY <2>4 DEF Sayings
    <2>. QED
        BY <2>5, <2>6, <2>7, <2>8
<1>15. Holds(N)
    <2>. DEFINE q == st(N)
                e == rec[N]
    <2>1. N \in 1..N
        BY <1>1
    <2>2. q \in 1..(Len(text) + 1) /\ q \in Nat \ {0} /\ Plain(e) /\ LineSaid(text, q, e, CRLF)
        BY <1>2, <1>7, <1>13, <1>14, <2>1
    <2>3. Len(EqLine(e)) = Len(e.key) + 1 + Len(e.val) /\ q + Len(EqLine(e)) + 1 = E
          /\ Len(EqLine(e)) \in Nat
        BY <1>5, <1>13, <2>1
    <2>. HIDE DEF q, e, E
    <2>4. ~NoLine(text, q) /\ LastLine(text, q)
          /\ SaidBy(text, q, LfAt(text, q) - 2)
               = Found(e.key, e.val, q + Len(e.key) + 1 + Len(e.val) + 1)
        BY <2>2, LastLineIsRead
    <2>5. q + Len(e.key) + 1 + Len(e.val) + 1 = E
        <3>. DEFINE A == Len(e.key)
                    M == Len(e.val)
        <3>1. A \in Nat /\ M \in Nat
            BY <2>2, LenProperties DEF Plain, Item, Text
        <3>2. q + (A + 1 + M) + 1 = E
            BY <2>3
        <3>. HIDE DEF A, M
        <3>3. q + A + 1 + M + 1 = E
            BY <2>2, <3>1, <3>2
        <3>. QED
            BY <3>3 DEF A, M
    <2>6. K(q) = <<Found(e.key, e.val, E)>>
        BY <1>4, <2>2, <2>4, <2>5, KeyvalsAre
    <2>. HIDE DEF K
    <2>7. Tells(K(q), rec, N, E)
        BY <1>1, <2>6, ToldOne DEF e, N
    <2>. QED
        BY <2>7 DEF q
<1>16. ASSUME NEW n \in 1..(N - 1), Holds(n + 1) PROVE Holds(n)
    <2>. DEFINE q == st(n)
                r == st(n + 1)
                e == rec[n]
                x == Found(e.key, e.val, LfAt(text, q))
    <2>1. n \in 1..N /\ n + 1 \in 1..N /\ n \in Nat /\ n + 1 \in Nat
        BY <1>1
    <2>2. q \in 1..(Len(text) + 1) /\ q \in Nat \ {0} /\ Plain(e) /\ LineSaid(text, q, e, <<LF>>)
        BY <1>2, <1>7, <1>12, <1>14, <2>1 DEF lf
    <2>3. Len(EqLine(e)) = Len(e.key) + 1 + Len(e.val) /\ q + Len(EqLine(e)) + 1 = r
          /\ Len(EqLine(e)) \in Nat
        BY <1>5, <1>12, <2>1
    <2>4. K(r) \in Seq(V) /\ K(r) # <<>> /\ \A i \in Int : SaidBy(text, q, i) \in V
        BY <1>14, <2>1
    <2>. HIDE DEF q, r, e, E
    <2>5. ~NoLine(text, q) /\ ~LastLine(text, q)
          /\ LfAt(text, q) = q + Len(e.key) + 1 + Len(e.val)
          /\ SaidBy(text, q, LfAt(text, q) - 1)
               = Found(e.key, e.val, q + Len(e.key) + 1 + Len(e.val))
        BY <2>2, LineIsRead
    <2>6. LfAt(text, q) + 1 = r /\ LfAt(text, q) \in Int
        <3>. DEFINE A == Len(e.key)
                    M == Len(e.val)
        <3>1. A \in Nat /\ M \in Nat
            BY <2>2, LenProperties DEF Plain, Item, Text
        <3>2. q + (A + 1 + M) + 1 = r /\ LfAt(text, q) = q + A + 1 + M
            BY <2>3, <2>5
        <3>. HIDE DEF A, M
        <3>. QED
            BY <2>2, <3>1, <3>2
    <2>7. SaidBy(text, q, LfAt(text, q) - 1) = x /\ x \in V
        <3>1. LfAt(text, q) - 1 \in Int
            BY <2>6
        <3>. QED
            BY <2>4, <2>5, <3>1
    <2>8. K(q) = <<x>> \o K(r)
        BY <1>4, <2>2, <2>5, <2>6, <2>7, KeyvalsAre
    <2>9. Tells(K(r), rec, n + 1, E)
        BY <1>16 DEF r
    <2>. HIDE DEF K
    <2>10. Tells(K(q), rec, n, E)
        <3>. DEFINE R == K(r)
        <3>1. Len(rec) \in Nat /\ R \in Seq(V) /\ R # <<>> /\ Tells(R, rec, n + 1, E)
              /\ n \in Nat
            BY <1>1, <2>1, <2>4, <2>9 DEF N
        <3>2. Found(rec[n].key, rec[n].val, LfAt(text, q)) \in V
            BY <2>7 DEF e
        <3>. HIDE DEF R, V
        <3>3. Tells(<<Found(rec[n].key, rec[n].val, LfAt(text, q))>> \o R, rec, n, E)
            BY <3>1, <3>2, ToldMore
        <3>. QED
            BY <2>8, <3>3 DEF R, e
    <2>. QED
        BY <2>10 DEF q
<1>. HIDE DEF Holds
<1>17. \A n \in 1..N : Holds(n)
    <2>. DEFINE P == {n \in Nat : n <= N - 1 => Holds(N - n)}
    <2>1. 0 \in P
        <3>1. N - 0 = N
            BY <1>1
        <3>. QED
            BY <1>15, <3>1
    <2>2. ASSUME NEW n \in 0..((N - 1) - 1), n \in P PROVE n + 1 \in P
        <3>1. N - (n + 1) \in 1..(N - 1) /\ (N - (n + 1)) + 1 = N - n /\ n <= N - 1 /\ n + 1 \in Nat
            BY <1>1
        <3>2. Holds(N - (n + 1))
            BY <1>16, <2>2, <3>1
        <3>. QED
            BY <3>1, <3>2
    <2>. HIDE DEF P
    <2>3. N - 1 \in Nat
        BY <1>1
    <2>4. \A n \in 0..(N - 1) : n \in P
        BY <2>1, <2>2, <2>3, UpTo
    <2>5. ASSUME NEW n \in 1..N PROVE Holds(n)
        <3>1. N - n \in 0..(N - 1) /\ N - (N - n) = n
            BY <1>1
        <3>2. N - n \in P
            BY <2>4, <3>1
        <3>. QED
            BY <3>1, <3>2 DEF P
    <2>. QED
        BY <2>5
<1>18. Holds(1) /\ st(1) = p
    <2>1. 1 \in 1..N /\ k[1 - 1] = <<>> /\ Len(<<>>) = 0
        BY <1>1 DEF SpelledRun
    <2>. QED
        BY <1>17, <2>1
<1>. QED
    BY <1>18 DEF Holds, E

(* What the parser has found is this record.                               *)
ReadsAs(r, rec) == \E end \in Nat \ {0} : Tells(r, rec, 1, end)

(* The text has the record from p on: the parser reads it, and goes on     *)
(* unless an empty line follows.                                           *)
LEMMA RecordStep ==
    ASSUME NEW text \in Text, NEW p \in Nat \ {0}, NEW rec, PlainRecord(rec),
           SaidAt(text, p, Block(rec))
    PROVE  LET r == KeyvalsFrom(text, p)
               q == p + Len(Block(rec))
           IN  /\ r \in Seq(Sayings(text)) /\ ReadsAs(r, rec)
               /\ p \in 1..Len(text) /\ q \in 1..(Len(text) + 1) /\ q > p
               /\ text[p] # CR
               /\ RecordsFrom(text, p) = IF SaidAt(text, q, CRLF) THEN <<r>>
                                         ELSE <<r>> \o RecordsFrom(text, q)
<1>. DEFINE r == KeyvalsFrom(text, p)
            b == Body(rec)
            B == Len(b)
            M == Len(Block(rec))
            q == p + M
            cr == p + B
            crlf == CRLF
<1>1. /\ b \in Seq(Token) /\ Block(rec) = Cat(b, crlf) /\ M = B + 2 /\ B \in Nat \ {0}
      /\ CR \notin Range(b)
    BY BlockFacts DEF Text
<1>2. text \in Seq(Token) /\ Len(text) \in Nat /\ crlf \in Seq(Token) /\ Len(crlf) = 2
      /\ CR \in Token
    BY TokenAssumption, LenProperties DEF Text, CRLF
<1>3. SaidAt(text, p, b) /\ SaidAt(text, cr, crlf)
    <2>1. SaidAt(text, p, Cat(b, crlf))
        BY <1>1
    <2>. HIDE DEF b, crlf
    <2>2. SaidAt(text, p, b) /\ SaidAt(text, p + Len(b), crlf)
        BY <1>1, <1>2, <2>1, SaidInARow
    <2>. QED
        BY <2>2
<1>4. Tells(r, rec, 1, q - 1)
    BY RecordIsRead
<1>5. q - 1 \in Nat \ {0} /\ cr \in Nat \ {0} /\ q = cr + 2 /\ (q - 1) - 1 = cr
    <2>. HIDE DEF B, M
    <2>. QED
        BY <1>1
<1>6. ReadsAs(r, rec)
    BY <1>4, <1>5 DEF ReadsAs
<1>7. cr + 1 <= Len(text) /\ text[cr] = CR /\ text[cr + 1] = LF
    <2>. HIDE DEF cr
    <2>. QED
        BY <1>2, <1>3, <1>5, PairSaid DEF CRLF, crlf
<1>8. p \in 1..Len(text) /\ q \in 1..(Len(text) + 1) /\ q > p /\ p < Len(text)
      /\ cr < Len(text)
    <2>. HIDE DEF B, M
    <2>. QED
        BY <1>1, <1>2, <1>5, <1>7
<1>9. text[p] # CR
    <2>1. 1 \in 1..B /\ DOMAIN b = 1..B
        BY <1>1, LenProperties
    <2>2. text[p + 1 - 1] = b[1] /\ p + 1 - 1 = p
        BY <1>3, <2>1 DEF SaidAt
    <2>3. b[1] \in Range(b)
        <3>. HIDE DEF b
        <3>. QED
            BY <2>1 DEF Range
    <2>. QED
        BY <1>1, <2>2, <2>3
<1>10. strchr(text, p, CR) = cr
    <2>1. SaidAt(text, p + Len(b), <<CR>>)
        <3>. HIDE DEF cr
        <3>1. SaidAt(text, cr, <<CR>>)
            BY <1>2, <1>5, <1>7, <1>8, OneSaid
        <3>. QED
            BY <3>1 DEF cr
    <2>. HIDE DEF b
    <2>2. strchr(text, p, CR) = p + Len(b)
        BY <1>1, <1>2, <1>3, <2>1, FirstSaid
    <2>. QED
        BY <2>2
<1>11. EndAt(text, p) = q - 1
    BY <1>4 DEF EndAt, Tells
<1>12. ~NoRecord(text, p)
    <2>. HIDE DEF cr, q
    <2>. QED
        BY <1>2, <1>5, <1>8, <1>10, <1>11 DEF NoRecord
<1>13. r \in Seq(Sayings(text))
    BY <1>2, <1>8, KeyvalsEnd
<1>14. LastRecord(text, p) <=> SaidAt(text, q, CRLF)
    <2>. DEFINE w == CRLF \o CRLF
    <2>1. w = Cat(crlf, crlf) /\ w \in Seq(Token)
        <3>1. w = Cat(crlf, crlf)
            BY DEF Cat
        <3>. HIDE DEF crlf, w
        <3>. QED
            BY <1>2, <3>1, CatAre
    <2>. HIDE DEF q, cr, w
    <2>2. LastRecord(text, p) <=> StartsAt(text, cr, w)
        BY <1>5, <1>11 DEF LastRecord, w
    <2>3. StartsAt(text, cr, w) <=> SaidAt(text, cr, w)
        BY <1>2, <1>5, <2>1, StartsWhereSaid
    <2>. HIDE DEF crlf
    <2>4. SaidAt(text, cr, Cat(crlf, crlf))
            <=> SaidAt(text, cr, crlf) /\ SaidAt(text, cr + Len(crlf), crlf)
        BY <1>2, <1>5, SaidInARow
    <2>5. cr + Len(crlf) = q
        BY <1>2, <1>5
    <2>. QED
        BY <1>3, <2>1, <2>2, <2>3, <2>4, <2>5 DEF crlf
<1>15. RecordsFrom(text, p) = IF SaidAt(text, q, CRLF) THEN <<r>>
                              ELSE <<r>> \o RecordsFrom(text, q)
    <2>1. p \in 1..(Len(text) + 1) /\ ~(p >= Len(text)) /\ (q - 1) + 1 = q
        BY <1>2, <1>5, <1>8
    <2>. HIDE DEF q, r
    <2>. QED
        BY <1>2, <1>11, <1>12, <1>14, <2>1, RecordsAre DEF r
<1>. QED
    BY <1>6, <1>8, <1>9, <1>13, <1>15

(* A token that is at the position is found there.                         *)
LEMMA FirstHere ==
    ASSUME NEW S, NEW text \in Seq(S), NEW p \in 1..Len(text), NEW c, text[p] = c
    PROVE  strchr(text, p, c) = p
<1>. DEFINE hits == {k \in p..Len(text) : text[k] = c}
<1>1. Len(text) \in Nat
    BY LenProperties
<1>2. p \in hits /\ hits \in SUBSET Nat /\ (\A k \in hits : p <= k) /\ hits # {}
    BY <1>1
<1>3. strchr(text, p, c) = Min(hits)
    BY <1>2 DEF strchr
<1>. HIDE DEF hits
<1>. QED
    BY <1>2, <1>3, LeastIs

(* Records that the text has one after the other.                          *)
RecordsSaid(text, recs, J, st) ==
    \A n \in 1..J : /\ PlainRecord(recs[n]) /\ st[n] \in Nat \ {0}
                    /\ SaidAt(text, st[n], Block(recs[n]))
                    /\ st[n + 1] = st[n] + Len(Block(recs[n]))

(* What comes after them: the end of the text, an empty line, or less than *)
(* a record.                                                               *)
Torn(text, e) == e < Len(text) /\ strchr(text, e, CR) \in {0, Len(text)}
Ending(text, e) == e >= Len(text) \/ SaidAt(text, e, CRLF) \/ Torn(text, e)

(* What the parser finds of them: all from the n-th on, or that the text   *)
(* is not whole.                                                           *)
TellAll(r, recs, n, J) ==
    /\ Len(r) = J - n + 1
    /\ \A i \in 1..Len(r) : ReadsAs(r[i], recs[n + i - 1])
TornAll(r) == r # <<>> /\ Last(r) = <<Broken>>

(* A record in front of those that tell the rest of the records.           *)
LEMMA TellMore ==
    ASSUME NEW V, NEW recs, NEW J \in Nat, NEW n \in 1..J, NEW x \in V, ReadsAs(x, recs[n]),
           NEW r \in Seq(V), TellAll(r, recs, n + 1, J)
    PROVE  TellAll(<<x>> \o r, recs, n, J)
<1>. DEFINE s == <<x>>
            c == s \o r
            M == Len(r)
<1>1. s \in Seq(V) /\ Len(s) = 1 /\ s[1] = x
    OBVIOUS
<1>. HIDE DEF s
<1>2. Len(c) = 1 + M /\ \A i \in 1..(1 + M) : c[i] = IF i <= 1 THEN s[i] ELSE r[i - 1]
    <2>1. s \in Seq(V) /\ r \in Seq(V)
        BY <1>1
    <2>2. /\ Len(c) = Len(s) + Len(r)
          /\ \A i \in 1..(Len(s) + Len(r)) : c[i] = IF i <= Len(s) THEN s[i] ELSE r[i - Len(s)]
        BY <2>1, ConcatProperties
    <2>. QED
        BY <1>1, <2>2
<1>. HIDE DEF c
<1>3. M \in Nat /\ M = J - (n + 1) + 1 /\ \A i \in 1..M : ReadsAs(r[i], recs[(n + 1) + i - 1])
    BY LenProperties DEF TellAll
<1>. HIDE DEF M
<1>4. ASSUME NEW i \in 1..(1 + M) PROVE ReadsAs(c[i], recs[n + i - 1])
    <2>1. CASE i = 1
        <3>1. c[i] = x /\ n + i - 1 = n
            BY <1>1, <1>2, <2>1
        <3>. QED
            BY <3>1
    <2>2. CASE i # 1
        <3>1. i - 1 \in 1..M /\ ~(i <= 1) /\ (n + 1) + (i - 1) - 1 = n + i - 1
            BY <1>3, <2>2
        <3>2. c[i] = r[i - 1]
            BY <1>2, <3>1
        <3>. QED
            BY <1>3, <3>1, <3>2
    <2>. QED
        BY <2>1, <2>2
<1>5. 1 + M = J - n + 1
    BY <1>3
<1>6. TellAll(c, recs, n, J)
    BY <1>2, <1>4, <1>5 DEF TellAll
<1>. QED
    BY <1>6 DEF c, s

(* One record that was read tells the last of the records.                 *)
LEMMA TellOne ==
    ASSUME NEW recs, NEW J \in Nat, NEW x, ReadsAs(x, recs[J])
    PROVE  TellAll(<<x>>, recs, J, J)
<1>. DEFINE s == <<x>>
<1>1. Len(s) = 1 /\ s[1] = x
    OBVIOUS
<1>. HIDE DEF s
<1>2. J - J + 1 = 1 /\ J + 1 - 1 = J /\ \A i \in 1..1 : i = 1
    OBVIOUS
<1>3. TellAll(s, recs, J, J)
    BY <1>1, <1>2 DEF TellAll
<1>. QED
    BY <1>3 DEF s

(* Records that the text says one after the other are read as they are,    *)
(* and what follows the last of them decides whether the parser gives up.  *)
LEMMA RecordsAreRead ==
    ASSUME NEW text \in Text, NEW recs, NEW J \in Nat, NEW st, RecordsSaid(text, recs, J, st),
           st[J + 1] \in 1..(Len(text) + 1), Ending(text, st[J + 1]),
           SaidAt(text, st[J + 1], CRLF) => J # 0
    PROVE  /\ RecordsFrom(text, st[1]) \in Seq(Seq(Sayings(text)))
           /\ Torn(text, st[J + 1]) => TornAll(RecordsFrom(text, st[1]))
           /\ ~Torn(text, st[J + 1]) => TellAll(RecordsFrom(text, st[1]), recs, 1, J)
<1>. DEFINE W == Seq(Sayings(text))
            R(p) == RecordsFrom(text, p)
            e == st[J + 1]
            Holds(n) == /\ R(st[n]) \in Seq(W)
                        /\ Torn(text, e) => TornAll(R(st[n]))
                        /\ ~Torn(text, e) => TellAll(R(st[n]), recs, n, J)
<1>1. text \in Seq(Token) /\ Len(text) \in Nat
    BY LenProperties DEF Text
<1>2. SaidAt(text, e, CRLF) => ~Torn(text, e) /\ e + 1 <= Len(text) /\ text[e] = CR
    <2>1. ASSUME SaidAt(text, e, CRLF) PROVE ~Torn(text, e) /\ e + 1 <= Len(text) /\ text[e] = CR
        <3>0. e \in Nat \ {0}
            BY <1>1
        <3>. HIDE DEF e
        <3>1. e + 1 <= Len(text) /\ text[e] = CR
            BY <1>1, <2>1, <3>0, PairSaid DEF CRLF
        <3>5. strchr(text, e, CR) = e
            BY <1>1, <3>0, <3>1, FirstHere
        <3>. QED
            BY <1>1, <3>0, <3>1, <3>5 DEF Torn
    <2>. QED
        BY <2>1
<1>3. ASSUME ~SaidAt(text, e, CRLF) PROVE Holds(J + 1)
    <2>1. CASE Torn(text, e)
        <3>. DEFINE b == <<Broken>>
        <3>1. e \in 1..(Len(text) + 1) /\ ~(e >= Len(text)) /\ NoRecord(text, e)
            BY <1>1, <2>1 DEF Torn, NoRecord
        <3>2. R(e) = <<b>>
            BY <1>1, <3>1, RecordsAre
        <3>3. b \in W
            BY DEF Sayings
        <3>. HIDE DEF b, R, W
        <3>4. R(e) \in Seq(W) /\ R(e) # <<>> /\ Last(R(e)) = b
            BY <3>2, <3>3, LastOfOne
        <3>5. TornAll(R(e))
            BY <3>4 DEF TornAll, b
        <3>. QED
            BY <2>1, <3>4, <3>5
    <2>2. CASE ~Torn(text, e)
        <3>1. e >= Len(text)
            BY <1>3, <2>2 DEF Ending
        <3>2. R(e) = <<>>
            BY <1>1, <3>1, RecordsAre
        <3>3. TellAll(<<>>, recs, J + 1, J)
            <4>1. J - (J + 1) + 1 = 0 /\ Len(<<>>) = 0
                OBVIOUS
            <4>. QED
                BY <4>1 DEF TellAll
        <3>4. <<>> \in Seq(W)
            OBVIOUS
        <3>. QED
            BY <2>2, <3>2, <3>3, <3>4
    <2>. QED
        BY <2>1, <2>2
<1>4. ASSUME NEW n \in 1..J
      PROVE  /\ KeyvalsFrom(text, st[n]) \in W /\ ReadsAs(KeyvalsFrom(text, st[n]), recs[n])
             /\ text[st[n]] # CR
             /\ R(st[n]) = IF SaidAt(text, st[n + 1], CRLF) THEN <<KeyvalsFrom(text, st[n])>>
                           ELSE <<KeyvalsFrom(text, st[n])>> \o R(st[n + 1])
    <2>. DEFINE q == st[n]
                rec == recs[n]
    <2>1. PlainRecord(rec) /\ q \in Nat \ {0} /\ SaidAt(text, q, Block(rec))
          /\ st[n + 1] = q + Len(Block(rec))
        BY DEF RecordsSaid
    <2>. HIDE DEF q, rec
    <2>2. /\ KeyvalsFrom(text, q) \in W /\ ReadsAs(KeyvalsFrom(text, q), rec)
          /\ text[q] # CR
          /\ R(q) = IF SaidAt(text, q + Len(Block(rec)), CRLF) THEN <<KeyvalsFrom(text, q)>>
                    ELSE <<KeyvalsFrom(text, q)>> \o R(q + Len(Block(rec)))
        BY <2>1, RecordStep
    <2>. QED
        BY <2>1, <2>2 DEF q, rec
<1>5. ASSUME SaidAt(text, e, CRLF) PROVE Holds(J)
    <2>. DEFINE x == KeyvalsFrom(text, st[J])
    <2>1. J \in 1..J
        BY <1>5
    <2>2. R(st[J]) = <<x>> /\ x \in W /\ ReadsAs(x, recs[J])
        BY <1>4, <1>5, <2>1
    <2>. HIDE DEF R, x, W
    <2>3. TellAll(<<x>>, recs, J, J)
        BY <2>2, TellOne
    <2>4. <<x>> \in Seq(W)
        BY <2>2
    <2>. QED
        BY <1>2, <1>5, <2>2, <2>3, <2>4
<1>6. ASSUME NEW n \in 1..J, Holds(n + 1), ~SaidAt(text, st[n + 1], CRLF) PROVE Holds(n)
    <2>. DEFINE x == KeyvalsFrom(text, st[n])
                r == R(st[n + 1])
    <2>1. R(st[n]) = <<x>> \o r /\ x \in W /\ ReadsAs(x, recs[n])
        BY <1>4, <1>6
    <2>2. r \in Seq(W)
        BY <1>6
    <2>3. CASE Torn(text, e)
        <3>1. TornAll(r)
            BY <1>6, <2>3
        <3>. HIDE DEF R, x, r, W
        <3>2. <<x>> \o r \in Seq(W) /\ <<x>> \o r # <<>> /\ Last(<<x>> \o r) = Last(r)
            BY <2>1, <2>2, <3>1, LastInFront DEF TornAll
        <3>3. TornAll(R(st[n])) /\ R(st[n]) \in Seq(W)
            BY <2>1, <3>1, <3>2 DEF TornAll
        <3>. QED
            BY <2>3, <3>3
    <2>4. CASE ~Torn(text, e)
        <3>1. TellAll(r, recs, n + 1, J)
            BY <1>6, <2>4
        <3>. HIDE DEF R, x, r, W
        <3>2. TellAll(<<x>> \o r, recs, n, J)
            BY <2>1, <2>2, <3>1, TellMore
        <3>3. <<x>> \o r \in Seq(W)
            <4>1. <<x>> \in Seq(W)
                BY <2>1
            <4>. QED
                BY <2>2, <4>1, ConcatProperties
        <3>. QED
            BY <2>1, <2>4, <3>2, <3>3
    <2>. QED
        BY <2>3, <2>4
<1>7. ASSUME NEW n \in 1..J, n # J PROVE ~SaidAt(text, st[n + 1], CRLF)
    <2>1. n + 1 \in 1..J
        BY <1>7
    <2>2. text[st[n + 1]] # CR /\ st[n + 1] \in Nat \ {0}
        BY <1>4, <2>1 DEF RecordsSaid
    <2>. DEFINE q == st[n + 1]
    <2>. HIDE DEF q
    <2>3. SaidAt(text, q, CRLF) => text[q] = CR
        BY <1>1, <2>2, PairSaid DEF CRLF, q
    <2>. QED
        BY <2>2, <2>3 DEF q
<1>. HIDE DEF Holds
<1>8. J # 0 => Holds(J)
    <2>1. J # 0 => J \in 1..J
        OBVIOUS
    <2>. QED
        BY <1>3, <1>5, <1>6, <2>1
<1>9. J # 0 => Holds(1)
    <2>. DEFINE P == {n \in Nat : n <= J - 1 => Holds(J - n)}
    <2>0. SUFFICES ASSUME J # 0 PROVE Holds(1)
        OBVIOUS
    <2>1. 0 \in P
        <3>1. J - 0 = J
            OBVIOUS
        <3>. QED
            BY <1>8, <2>0, <3>1
    <2>2. ASSUME NEW n \in 0..((J - 1) - 1), n \in P PROVE n + 1 \in P
        <3>1. J - (n + 1) \in 1..J /\ (J - (n + 1)) + 1 = J - n /\ n <= J - 1 /\ n + 1 \in Nat
              /\ J - (n + 1) # J
            OBVIOUS
        <3>2. Holds(J - (n + 1))
            BY <1>6, <1>7, <2>2, <3>1
        <3>. QED
            BY <3>1, <3>2
    <2>. HIDE DEF P
    <2>3. J - 1 \in Nat /\ J - (J - 1) = 1
        BY <2>0
    <2>4. J - 1 \in P
        <3>1. \A n \in 0..(J - 1) : n \in P
            BY <2>1, <2>2, <2>3, UpTo
        <3>. QED
            BY <2>3, <3>1
    <2>. QED
        BY <2>3, <2>4 DEF P
<1>10. Holds(1)
    <2>1. J = 0 => J + 1 = 1 /\ ~SaidAt(text, e, CRLF)
        OBVIOUS
    <2>2. J = 0 => Holds(1)
        BY <1>3, <2>1
    <2>. QED
        BY <1>9, <2>2
<1>. QED
    BY <1>10 DEF Holds

(* A record that keyvals are pushed onto, one after the other.             *)
OnePushed(rec, e) == response_keyval_push(rec, e.key, e.val)

PushRun(k, row) ==
    /\ k[0] = <<>>
    /\ \A n \in 1..Len(row) : k[n] = OnePushed(k[n - 1], row[n])

(* The fold of PushAll, one keyval after the other.                        *)
LEMMA PushedAre ==
    ASSUME NEW S, NEW row \in Seq(S), NEW V, <<>> \in V,
           \A r \in V, n \in 1..Len(row) : OnePushed(r, row[n]) \in V
    PROVE  \E k \in [0..Len(row) -> V] : PushRun(k, row) /\ PushAll(<<>>, row) = k[Len(row)]
<1>. DEFINE N == Len(row)
            F == [p \in (1..N) \X V |-> OnePushed(p[2], row[p[1]])]
            G(f) == f = [T \in SUBSET (DOMAIN row) |->
                           IF T = {} THEN <<>>
                           ELSE response_keyval_push(f[T \ {Max(T)}], row[Max(T)].key,
                                                     row[Max(T)].val)]
            g == CHOOSE f : G(f)
<1>1. N \in Nat /\ DOMAIN row = 1..N
    BY LenProperties
<1>2. PushAll(<<>>, row) = g[DOMAIN row]
    BY Zenon DEF PushAll, FoldLeft, MapThenFoldSet
<1>. HIDE DEF g
<1>3. F \in [(1..N) \X V -> V]
    BY <1>1
<1>4. PICK f \in [SUBSET (1..N) -> V] : Recurs(f, <<>>, F, N)
    BY <1>1, <1>3, RecursionExists
<1>5. ASSUME NEW T \in SUBSET (1..N)
      PROVE  f[T] = IF T = {} THEN <<>> ELSE OnePushed(f[T \ {Max(T)}], row[Max(T)])
    <2>1. CASE T # {}
        <3>1. Max(T) \in 1..N
            BY <1>1, <2>1, LargestOf
        <3>2. f[T \ {Max(T)}] \in V
            OBVIOUS
        <3>. QED
            BY <1>4, <2>1, <3>1, <3>2 DEF Recurs
    <2>2. CASE T = {}
        BY <1>4, <2>2 DEF Recurs
    <2>. QED
        BY <2>1, <2>2
<1>6. G(f)
    <2>1. f = [T \in SUBSET (1..N) |-> f[T]]
        OBVIOUS
    <2>. QED
        BY <1>1, <1>5, <2>1, Zenon DEF OnePushed
<1>7. G(g)
    <2>. HIDE DEF G
    <2>. QED
        BY <1>6 DEF g
<1>8. \A T \in SUBSET (1..N) :
         g[T] = IF T = {} THEN <<>> ELSE OnePushed(g[T \ {Max(T)}], row[Max(T)])
    BY <1>1, <1>7, Zenon DEF OnePushed
<1>. HIDE DEF G
<1>. DEFINE k == [n \in 0..N |-> g[1..n]]
<1>9. k[0] = <<>>
    <2>1. 1..0 = {} /\ {} \in SUBSET (1..N) /\ 0 \in 0..N
        BY <1>1
    <2>. QED
        BY <1>8, <2>1
<1>10. ASSUME NEW n \in 1..N PROVE k[n] = OnePushed(k[n - 1], row[n])
    <2>1. n \in Nat \ {0} /\ n \in 0..N /\ n - 1 \in 0..N /\ (1..n) \in SUBSET (1..N)
        BY <1>1
    <2>2. g[1..n] = OnePushed(g[1..(n - 1)], row[n])
        BY <1>8, <2>1, UpToSet
    <2>. QED
        BY <2>1, <2>2
<1>11. PushAll(<<>>, row) = k[N]
    BY <1>1, <1>2
<1>12. k = [n \in 0..N |-> k[n]]
    OBVIOUS
<1>. HIDE DEF k
<1>. DEFINE P == {n \in Nat : k[n] \in V}
<1>13. 0 \in P
    BY <1>9
<1>14. ASSUME NEW n \in 0..(N - 1), n \in P PROVE n + 1 \in P
    <2>1. n + 1 \in 1..N /\ (n + 1) - 1 = n /\ n + 1 \in Nat
        BY <1>1
    <2>2. k[n + 1] = OnePushed(k[n], row[n + 1]) /\ k[n] \in V
        BY <1>10, <1>14, <2>1
    <2>. QED
        BY <2>1, <2>2
<1>. HIDE DEF P, N
<1>15. \A n \in 0..N : n \in P
    BY <1>1, <1>13, <1>14, UpTo
<1>16. k \in [0..N -> V]
    BY <1>12, <1>15 DEF P
<1>. QED
    BY <1>9, <1>10, <1>11, <1>16 DEF PushRun, N

(* The smaller of two numbers.                                             *)
LEMMA MinOfTwo ==
    ASSUME NEW a \in Nat, NEW b \in Nat
    PROVE  Min({a, b}) = IF a <= b THEN a ELSE b
<1>. DEFINE m == IF a <= b THEN a ELSE b
            X == {a, b}
<1>1. m \in X /\ X \in SUBSET Nat /\ \A y \in X : m <= y
    OBVIOUS
<1>. HIDE DEF m, X
<1>2. Min(X) = m
    BY <1>1, LeastIs
<1>. QED
    BY <1>2 DEF m, X

(* A record holds the first keyvals, as many as there is room for.         *)
FirstKeyvals(rec, row) ==
    /\ Len(rec) = IF Len(row) <= MaxKeyval THEN Len(row) ELSE MaxKeyval
    /\ \A i \in 1..Len(rec) : rec[i] = Entry(row[i].key, row[i].val)

(* What response_keyval_push makes of a row.                               *)
LEMMA PushedFacts ==
    ASSUME NEW S, NEW row \in Seq(S)
    PROVE  /\ PushAll(<<>>, row) \in Seq({Entry(row[n].key, row[n].val) : n \in 1..Len(row)})
           /\ FirstKeyvals(PushAll(<<>>, row), row)
<1>. DEFINE N == Len(row)
            E == {Entry(row[n].key, row[n].val) : n \in 1..N}
            V == Seq(E)
            room(n) == IF n <= MaxKeyval THEN n ELSE MaxKeyval
            Upto(r, n) == Len(r) = room(n) /\ \A i \in 1..Len(r) : r[i] = Entry(row[i].key, row[i].val)
<1>1. N \in Nat /\ MaxKeyval \in Nat \ {0}
    BY LenProperties, TableAssumption
<1>. DEFINE ent(n) == Entry(row[n].key, row[n].val)
<1>2. \A n \in 1..N : ent(n) \in E
    OBVIOUS
<1>. HIDE DEF E
<1>3. \A r, n : OnePushed(r, row[n]) = IF Len(r) >= MaxKeyval THEN r ELSE Append(r, ent(n))
    BY DEF OnePushed, response_keyval_push
<1>. HIDE DEF ent
<1>4. \A r \in V, n \in 1..N : OnePushed(r, row[n]) \in V
    <2>1. ASSUME NEW r \in V, NEW n \in 1..N PROVE OnePushed(r, row[n]) \in V
        <3>. DEFINE x == ent(n)
        <3>1. r \in Seq(E) /\ x \in E
            BY <1>2
        <3>2. OnePushed(r, row[n]) = IF Len(r) >= MaxKeyval THEN r ELSE Append(r, x)
            BY <1>3
        <3>. HIDE DEF x
        <3>3. Append(r, x) \in Seq(E)
            BY <3>1, AppendProperties
        <3>. QED
            BY <3>1, <3>2, <3>3
    <2>. QED
        BY <2>1
<1>5. <<>> \in V
    BY EmptySeq
<1>6. PICK k \in [0..N -> V] : PushRun(k, row) /\ PushAll(<<>>, row) = k[N]
    BY <1>4, <1>5, PushedAre
<1>. DEFINE P == {n \in Nat : Upto(k[n], n)}
<1>7. 0 \in P
    BY <1>1, <1>6 DEF PushRun
<1>8. ASSUME NEW n \in 0..(N - 1), n \in P PROVE n + 1 \in P
    <2>. DEFINE r == k[n]
    <2>1. n + 1 \in 1..N /\ (n + 1) - 1 = n /\ n + 1 \in Nat /\ n \in 0..N
        BY <1>1
    <2>2. k[n + 1] = IF Len(r) >= MaxKeyval THEN r ELSE Append(r, ent(n + 1))
        BY <1>3, <1>6, <2>1 DEF PushRun
    <2>3. r \in V /\ Len(r) = room(n) /\ \A i \in 1..Len(r) : r[i] = ent(i)
        BY <1>6, <1>8, <2>1 DEF ent
    <2>. HIDE DEF r
    <2>4. CASE Len(r) >= MaxKeyval
        <3>1. room(n + 1) = room(n)
            BY <1>1, <2>1, <2>3, <2>4
        <3>. QED
            BY <2>1, <2>2, <2>3, <2>4, <3>1 DEF ent
    <2>5. CASE ~(Len(r) >= MaxKeyval)
        <3>. DEFINE a == Append(r, ent(n + 1))
        <3>1. Len(r) = n /\ room(n + 1) = n + 1
            BY <1>1, <2>1, <2>3, <2>5
        <3>2. r \in Seq(E) /\ ent(n + 1) \in E
            BY <1>2, <2>1, <2>3
        <3>3. /\ Len(a) = n + 1 /\ \A i \in 1..n : a[i] = r[i]
              /\ a[n + 1] = ent(n + 1)
            BY <3>1, <3>2, AppendProperties
        <3>. HIDE DEF a
        <3>4. \A i \in 1..(n + 1) : i \in 1..n \/ i = n + 1
            BY <2>1
        <3>5. Upto(a, n + 1)
            BY <2>3, <3>1, <3>3, <3>4 DEF ent
        <3>. QED
            BY <2>1, <2>2, <2>5, <3>5 DEF a
    <2>. QED
        BY <2>4, <2>5
<1>. HIDE DEF P
<1>9. N \in P
    <2>1. \A n \in 0..N : n \in P
        BY <1>1, <1>7, <1>8, UpTo
    <2>. QED
        BY <1>1, <2>1
<1>10. Upto(k[N], N) /\ k[N] \in V
    <2>1. N \in 0..N
        BY <1>1
    <2>. QED
        BY <1>6, <1>9, <2>1 DEF P
<1>. QED
    BY <1>6, <1>10 DEF FirstKeyvals, E, V

(* What is read of a record that has room goes into a record like it.      *)
LEMMA ReadIsPushed ==
    ASSUME NEW V, NEW r \in Seq(V), NEW rec \in Seq(Item), Len(rec) <= MaxKeyval, ReadsAs(r, rec)
    PROVE  PushAll(<<>>, r) = rec
<1>. DEFINE a == PushAll(<<>>, r)
            W == {Entry(r[n].key, r[n].val) : n \in 1..Len(r)}
<1>1. a \in Seq(W) /\ FirstKeyvals(a, r)
    BY PushedFacts
<1>2. Len(rec) \in Nat /\ MaxKeyval \in Nat
    BY LenProperties, TableAssumption
<1>3. Len(r) = Len(rec) /\ \A i \in 1..Len(r) : r[i].key = rec[i].key /\ r[i].val = rec[i].val
    <2>1. PICK end : Tells(r, rec, 1, end)
        BY DEF ReadsAs
    <2>2. Len(rec) - 1 + 1 = Len(rec) /\ \A i \in 1..Len(rec) : 1 + i - 1 = i
        BY <1>2
    <2>. QED
        BY <2>1, <2>2 DEF Tells
<1>. HIDE DEF a, W
<1>4. Len(a) = Len(rec) /\ \A i \in 1..Len(rec) : a[i] = Entry(rec[i].key, rec[i].val)
    BY <1>1, <1>2, <1>3 DEF FirstKeyvals
<1>5. ASSUME NEW i \in 1..Len(rec) PROVE Entry(rec[i].key, rec[i].val) = rec[i]
    <2>1. rec[i] \in Item
        BY ElementOfSeq
    <2>. QED
        BY <2>1 DEF Item, Entry
<1>6. a \in Seq(W \cup Item) /\ rec \in Seq(W \cup Item)
    BY <1>1
<1>7. a = rec
    BY <1>4, <1>5, <1>6, SeqEqual
<1>. QED
    BY <1>7 DEF a

(* strchr finds the first such token.                                      *)
LEMMA FirstFrom ==
    ASSUME NEW S, NEW text \in Seq(S), NEW p \in Nat \ {0}, NEW q \in p..Len(text), NEW c,
           text[q] = c, \A i \in p..(q - 1) : text[i] # c
    PROVE  strchr(text, p, c) = q
<1>. DEFINE hits == {k \in p..Len(text) : text[k] = c}
<1>1. Len(text) \in Nat
    BY LenProperties
<1>2. ASSUME NEW k \in hits PROVE q <= k
    <2>1. SUFFICES ASSUME k < q PROVE FALSE
        BY <1>1
    <2>2. k \in p..(q - 1)
        BY <1>1, <2>1
    <2>. QED
        BY <2>2
<1>3. q \in hits /\ hits \in SUBSET Nat /\ hits # {}
    BY <1>1
<1>4. strchr(text, p, c) = Min(hits)
    BY <1>3 DEF strchr
<1>. HIDE DEF hits
<1>. QED
    BY <1>2, <1>3, <1>4, LeastIs

(* strchr finds no token that is not there.                                *)
LEMMA NoneFrom ==
    ASSUME NEW S, NEW text \in Seq(S), NEW p \in Nat \ {0}, NEW c,
           \A i \in p..Len(text) : text[i] # c
    PROVE  strchr(text, p, c) = 0
BY DEF strchr

(* CR LF, and two of them.                                                 *)
LEMMA EndSaid ==
    ASSUME NEW text \in Text, NEW q \in Nat \ {0}
    PROVE  /\ StartsAt(text, q, CRLF)
                <=> q + 1 <= Len(text) /\ text[q] = CR /\ text[q + 1] = LF
           /\ StartsAt(text, q, CRLF \o CRLF)
                <=> StartsAt(text, q, CRLF) /\ StartsAt(text, q + 2, CRLF)
<1>. DEFINE c == CRLF
            w == CRLF \o CRLF
<1>1. text \in Seq(Token) /\ c \in Seq(Token) /\ Len(c) = 2 /\ q + 2 \in Nat \ {0}
    BY TokenAssumption DEF Text, CRLF
<1>2. SaidAt(text, q, CRLF) <=> q + 1 <= Len(text) /\ text[q] = CR /\ text[q + 1] = LF
    BY <1>1, PairSaid DEF CRLF
<1>3. w = Cat(c, c)
    BY DEF Cat
<1>. HIDE DEF c, w
<1>4. w \in Seq(Token)
    BY <1>1, <1>3, CatAre
<1>5. SaidAt(text, q, w) <=> SaidAt(text, q, c) /\ SaidAt(text, q + 2, c)
    BY <1>1, <1>3, SaidInARow
<1>6. StartsAt(text, q, w) <=> SaidAt(text, q, w)
    BY <1>1, <1>4, StartsWhereSaid
<1>7. /\ StartsAt(text, q, c) <=> SaidAt(text, q, c)
      /\ StartsAt(text, q + 2, c) <=> SaidAt(text, q + 2, c)
    BY <1>1, StartsWhereSaid
<1>. QED
    BY <1>2, <1>5, <1>6, <1>7 DEF c, w

(* What the parser says of the headers and records that it finds.          *)
Gathered(text, hs, records) ==
    IF \/ hs # <<>> /\ Last(hs) = Broken
       \/ records # <<>> /\ Last(records) = <<Broken>>
    THEN NoResponse
    ELSE ResponseOf(<<text[1]>>, hs, records)

(* The cases of response_parse: no line end, nothing behind the first      *)
(* line, no header, and headers with records behind them.                  *)
LEMMA ParseIs ==
    ASSUME NEW text
    PROVE  LET cr == strchr(text, 1, CR)
               hs == HeadersFrom(text, cr + 2)
               rs == Last(hs).end + 4
           IN  ParseResponse(text) =
                 IF cr = 0 \/ ~StartsAt(text, cr, CRLF) THEN NoResponse
                 ELSE IF StartsAt(text, cr, CRLF \o CRLF) THEN Gathered(text, <<>>, <<>>)
                 ELSE IF hs = <<>> THEN Gathered(text, <<>>, <<>>)
                 ELSE Gathered(text, hs,
                              IF rs > Len(text) THEN <<>> ELSE RecordsFrom(text, rs))
BY DEF ParseResponse, Gathered

(* The words of a response up to the end of its header, as far as the text *)
(* goes.                                                                   *)
Begins(text, s, u) ==
    \A i \in 1..11 : i <= Len(text) =>
        /\ (i = 1 => text[i] = s)      /\ (i = 2 => text[i] = SP)
        /\ (i = 3 => text[i] = "msg")  /\ (i = 4 => text[i] = CR)
        /\ (i = 5 => text[i] = LF)     /\ (i = 6 => text[i] = "uri")
        /\ (i = 7 => text[i] = COLON)  /\ (i = 8 => text[i] = SP)
        /\ (i = 9 => text[i] = u)      /\ (i = 10 => text[i] = CR)
        /\ (i = 11 => text[i] = LF)

(* A word that is no delimiter.                                            *)
Word(s) == s \in Token /\ s \notin {SP, CR, LF, COLON, EQ}

Header(u) == Found(<<"uri">>, <<u>>, 10)

(* The header is read, and is the last one.                                *)
LEMMA HeaderIsRead ==
    ASSUME NEW text \in Text, NEW s, Word(s), NEW u, Word(u), Begins(text, s, u),
           Len(text) >= 11, Len(text) >= 13 => text[12] = CR /\ text[13] = LF
    PROVE  HeadersFrom(text, 6) = <<Header(u)>>
<1>. DEFINE L == Len(text)
<1>1. text \in Seq(Token) /\ L \in Nat /\ L >= 11
    BY LenProperties DEF Text
<1>2. /\ text[6] = "uri" /\ text[7] = COLON /\ text[8] = SP /\ text[9] = u
      /\ text[10] = CR /\ text[11] = LF
    <2>1. \A i \in 1..11 : i <= Len(text)
        BY <1>1
    <2>2. /\ 6 \in 1..11 /\ 7 \in 1..11 /\ 8 \in 1..11 /\ 9 \in 1..11 /\ 10 \in 1..11
          /\ 11 \in 1..11
        OBVIOUS
    <2>. QED
        BY <2>1, <2>2 DEF Begins
<1>3. SP \in Token /\ "uri" # COLON /\ COLON # CR /\ SP # CR /\ u \notin {SP, CR, LF, COLON, EQ}
      /\ u \in Token
    BY TokenAssumption DEF Word, SP, CR, COLON
<1>. HIDE DEF L
<1>4. ColonAt(text, 6) = 7
    <2>1. 7 \in 6..Len(text) /\ \A i \in 6..(7 - 1) : i = 6
        BY <1>1 DEF L
    <2>. QED
        BY <1>1, <1>2, <1>3, <2>1, FirstFrom DEF ColonAt
<1>5. CrAt(text, 6) = 10
    <2>1. 10 \in 7..Len(text) /\ \A i \in 7..(10 - 1) : i \in {7, 8, 9}
        BY <1>1 DEF L
    <2>2. \A i \in 7..(10 - 1) : text[i] # CR
        BY <1>2, <1>3, <2>1
    <2>3. strchr(text, 7, CR) = 10
        <3>. DEFINE p == 7
                    q == 10
        <3>1. q \in p..Len(text) /\ p \in Nat \ {0} /\ text[q] = CR
              /\ \A i \in p..(q - 1) : text[i] # CR
            BY <1>2, <2>1, <2>2
        <3>. HIDE DEF p, q
        <3>2. strchr(text, p, CR) = q
            BY <1>1, <3>1, FirstFrom
        <3>. QED
            BY <3>2 DEF p, q
    <2>4. Max({1, 7}) = 7
        BY MaxOfTwo
    <2>. QED
        BY <1>4, <2>3, <2>4 DEF CrAt
<1>6. StartsAt(text, 10, CRLF)
    BY <1>1, <1>2, EndSaid DEF L
<1>7. HeaderAt(text, 6) = Header(u)
    <2>1. HeaderAt(text, 6) = Found(SubSeq(text, 6, 6), str_trim(SubSeq(text, 8, 9)), 10)
        BY <1>4, <1>5 DEF HeaderAt, HeaderIn
    <2>. DEFINE a == <<"uri">>
                b == <<u>>
                c == <<SP>> \o b
    <2>2. SubSeq(text, 6, 6) = a
        <3>1. a \in Seq(Token) /\ Len(a) = 1
            BY TokenAssumption
        <3>2. SaidAt(text, 6, a)
            BY <1>1, <1>2, OneSaid DEF L
        <3>3. 6 + 1 - 1 = 6 /\ 6 \in Nat \ {0}
            OBVIOUS
        <3>. HIDE DEF a
        <3>4. SubSeq(text, 6, 6 + Len(a) - 1) = a
            BY <1>1, <3>1, <3>2, <3>3, SaidIsSub
        <3>. QED
            BY <3>1, <3>3, <3>4
    <2>3. c = <<SP, u>>
        <3>. DEFINE d == <<SP, u>>
                    v == <<SP>>
        <3>1. v \in Seq(Token) /\ b \in Seq(Token) /\ d \in Seq(Token)
            BY <1>3
        <3>2. Len(v) = 1 /\ Len(b) = 1 /\ Len(d) = 2 /\ v[1] = SP /\ b[1] = u
              /\ d[1] = SP /\ d[2] = u
            OBVIOUS
        <3>. HIDE DEF v, b, d
        <3>3. v \o b \in Seq(Token) /\ Len(v \o b) = 1 + 1
              /\ \A i \in 1..(1 + 1) : (v \o b)[i] = IF i <= 1 THEN v[i] ELSE b[i - 1]
            <4>1. v \in Seq(Token) /\ b \in Seq(Token)
                BY <3>1
            <4>2. v \o b \in Seq(Token) /\ Len(v \o b) = Len(v) + Len(b)
                  /\ \A i \in 1..(Len(v) + Len(b)) :
                       (v \o b)[i] = IF i <= Len(v) THEN v[i] ELSE b[i - Len(v)]
                BY <4>1, ConcatProperties
            <4>. QED
                BY <3>2, <4>2
        <3>4. Len(v \o b) = Len(d) /\ \A i \in 1..Len(v \o b) : (v \o b)[i] = d[i]
            <4>1. (v \o b)[1] = SP /\ (v \o b)[2] = u
                BY <3>2, <3>3
            <4>2. \A i \in 1..2 : i = 1 \/ i = 2
                OBVIOUS
            <4>. QED
                BY <3>2, <3>3, <4>1, <4>2
        <3>5. v \o b = d
            BY <3>1, <3>3, <3>4, SeqEqual
        <3>. QED
            BY <3>5 DEF v, d
    <2>4. SubSeq(text, 8, 9) = c
        <3>. DEFINE d == <<SP, u>>
        <3>1. d \in Seq(Token) /\ Len(d) = 2
            BY <1>3
        <3>2. SaidAt(text, 8, d)
            BY <1>1, <1>2, PairSaid DEF L
        <3>3. 8 + 2 - 1 = 9
            OBVIOUS
        <3>. HIDE DEF d
        <3>4. SubSeq(text, 8, 9) = d
            BY <1>1, <3>1, <3>2, <3>3, SaidIsSub
        <3>. QED
            BY <2>3, <3>4 DEF d
    <2>5. str_trim(c) = b
        <3>1. b \in Seq(Token) /\ Trimmed(b)
            BY <1>3 DEF Trimmed, IsSpace
        <3>. HIDE DEF b
        <3>. QED
            BY <1>3, <3>1, TrimOfBlank
    <2>. QED
        BY <2>1, <2>2, <2>4, <2>5 DEF Header
<1>8. ~NoHeader(text, 6)
    BY <1>4, <1>5, <1>6 DEF NoHeader
<1>9. LastHeader(text, 6) <=> L >= 13
    <2>1. StartsAt(text, 12, CRLF) <=> L >= 13
        <3>1. StartsAt(text, 12, CRLF) <=> 13 <= L /\ text[12] = CR /\ text[13] = LF
            BY EndSaid DEF L
        <3>2. L >= 13 => text[12] = CR /\ text[13] = LF
            BY DEF L
        <3>. QED
            BY <1>1, <3>1, <3>2
    <2>2. LastHeader(text, 6) <=> StartsAt(text, 10, CRLF) /\ StartsAt(text, 12, CRLF)
        BY <1>5, EndSaid DEF LastHeader
    <2>. QED
        BY <1>6, <2>1, <2>2
<1>10. HeadersFrom(text, 6) = IF LastHeader(text, 6) THEN <<HeaderAt(text, 6)>>
                              ELSE <<HeaderAt(text, 6)>> \o HeadersFrom(text, 12)
    <2>1. 6 \in 1..(Len(text) + 1) /\ ~(6 >= Len(text))
        BY <1>1 DEF L
    <2>2. CrAt(text, 6) + 2 = 12
        BY <1>5
    <2>. QED
        BY <1>1, <1>8, <2>1, <2>2, HeadersAre
<1>11. ~LastHeader(text, 6) => HeadersFrom(text, 12) = <<>>
    <2>1. ASSUME ~(L >= 13) PROVE HeadersFrom(text, 12) = <<>>
        <3>1. 12 \in 1..(Len(text) + 1) /\ 12 >= Len(text)
            BY <1>1, <2>1 DEF L
        <3>. QED
            BY <1>1, <3>1, HeadersAre
    <2>. QED
        BY <1>9, <2>1
<1>12. <<HeaderAt(text, 6)>> \o <<>> = <<HeaderAt(text, 6)>>
    OBVIOUS
<1>. QED
    BY <1>7, <1>10, <1>11, <1>12

(* A text that begins like a response, of any length.                      *)
LEMMA ParseBegins ==
    ASSUME NEW text \in Text, NEW s, Word(s), NEW u, Word(u), Begins(text, s, u),
           Len(text) >= 13 => text[12] = CR /\ text[13] = LF
    PROVE  /\ Len(text) < 5 => ParseResponse(text) = NoResponse
           /\ Len(text) \in 5..6 => ParseResponse(text) = Gathered(text, <<>>, <<>>)
           /\ Len(text) \in 7..10 => ParseResponse(text) = NoResponse
           /\ Len(text) >= 11 =>
                ParseResponse(text)
                  = Gathered(text, <<Header(u)>>,
                             IF 14 > Len(text) THEN <<>> ELSE RecordsFrom(text, 14))
<1>. DEFINE L == Len(text)
<1>1. text \in Seq(Token) /\ L \in Nat
    BY LenProperties DEF Text
<1>2. \A i \in 1..11 : i <= Len(text) =>
        /\ (i = 1 => text[i] = s)      /\ (i = 2 => text[i] = SP)
        /\ (i = 3 => text[i] = "msg")  /\ (i = 4 => text[i] = CR)
        /\ (i = 5 => text[i] = LF)     /\ (i = 6 => text[i] = "uri")
        /\ (i = 7 => text[i] = COLON)  /\ (i = 8 => text[i] = SP)
        /\ (i = 9 => text[i] = u)      /\ (i = 10 => text[i] = CR)
        /\ (i = 11 => text[i] = LF)
    BY DEF Begins
<1>. HIDE DEF L
<1>3. /\ L >= 1 => text[1] = s      /\ text[1] # CR
      /\ L >= 2 => text[2] = SP     /\ text[2] # CR
      /\ L >= 3 => text[3] = "msg"  /\ text[3] # CR
      /\ L >= 4 => text[4] = CR
      /\ L >= 5 => text[5] = LF
      /\ L >= 6 => text[6] = "uri" /\ text[6] # COLON /\ text[6] # CR
      /\ L >= 7 => text[7] = COLON /\ text[7] # CR
      /\ L >= 8 => text[8] # CR
      /\ L >= 9 => text[9] # CR
      /\ L >= 10 => text[10] = CR
    <2>1. /\ 1 \in 1..11 /\ 2 \in 1..11 /\ 3 \in 1..11 /\ 4 \in 1..11 /\ 5 \in 1..11
          /\ 6 \in 1..11 /\ 7 \in 1..11 /\ 8 \in 1..11 /\ 9 \in 1..11 /\ 10 \in 1..11
        OBVIOUS
    <2>2. s # CR /\ u # CR /\ SP # CR /\ COLON # CR /\ "msg" # CR /\ "uri" # CR /\ "uri" # COLON
        BY DEF Word, SP, CR, COLON
    <2>. QED
        BY <1>1, <1>2, <2>1, <2>2 DEF L
<1>. DEFINE cr == strchr(text, 1, CR)
<1>4. L >= 4 => cr = 4
    <2>. DEFINE p == 1
                q == 4
    <2>1. ASSUME L >= 4 PROVE strchr(text, p, CR) = q
        <3>1. \A i \in 1..(4 - 1) : i \in {1, 2, 3}
            OBVIOUS
        <3>2. q \in p..Len(text) /\ p \in Nat \ {0} /\ text[q] = CR
              /\ \A i \in p..(q - 1) : text[i] # CR
            BY <1>1, <1>3, <2>1, <3>1 DEF L
        <3>. HIDE DEF p, q
        <3>. QED
            BY <1>1, <3>2, FirstFrom
    <2>. QED
        BY <2>1
<1>5. L < 4 => cr = 0
    <2>1. ASSUME L < 4 PROVE cr = 0
        <3>1. \A i \in 1..Len(text) : i \in {1, 2, 3} /\ L >= i
            BY <1>1, <2>1 DEF L
        <3>2. \A i \in 1..Len(text) : text[i] # CR
            BY <1>3, <3>1
        <3>. QED
            BY <1>1, <3>2, NoneFrom
    <2>. QED
        BY <2>1
<1>6. /\ StartsAt(text, 4, CRLF) <=> L >= 5
      /\ ~StartsAt(text, 4, CRLF \o CRLF)
    <2>1. StartsAt(text, 4, CRLF) <=> 5 <= L /\ text[4] = CR /\ text[5] = LF
        <3>. DEFINE q == 4
        <3>1. q \in Nat \ {0} /\ q + 1 = 5
            OBVIOUS
        <3>. HIDE DEF q
        <3>2. StartsAt(text, q, CRLF) <=> q + 1 <= Len(text) /\ text[q] = CR /\ text[q + 1] = LF
            BY <3>1, EndSaid
        <3>. QED
            BY <3>1, <3>2 DEF q, L
    <2>2. StartsAt(text, 6, CRLF) => 7 <= L /\ text[6] = CR
        <3>. DEFINE q == 6
        <3>1. q \in Nat \ {0} /\ q + 1 = 7
            OBVIOUS
        <3>. HIDE DEF q
        <3>2. StartsAt(text, q, CRLF) <=> q + 1 <= Len(text) /\ text[q] = CR /\ text[q + 1] = LF
            BY <3>1, EndSaid
        <3>. QED
            BY <3>1, <3>2 DEF q, L
    <2>3. StartsAt(text, 4, CRLF \o CRLF) => StartsAt(text, 6, CRLF)
        BY EndSaid
    <2>4. L >= 7 => L >= 6
        BY <1>1
    <2>5. L >= 5 => L >= 4
        BY <1>1
    <2>. QED
        BY <1>1, <1>3, <2>1, <2>2, <2>3, <2>4, <2>5
<1>7. ParseResponse(text) =
        IF cr = 0 \/ ~StartsAt(text, cr, CRLF) THEN NoResponse
        ELSE IF StartsAt(text, cr, CRLF \o CRLF) THEN Gathered(text, <<>>, <<>>)
        ELSE IF HeadersFrom(text, cr + 2) = <<>> THEN Gathered(text, <<>>, <<>>)
        ELSE Gathered(text, HeadersFrom(text, cr + 2),
                      IF Last(HeadersFrom(text, cr + 2)).end + 4 > Len(text) THEN <<>>
                      ELSE RecordsFrom(text, Last(HeadersFrom(text, cr + 2)).end + 4))
    BY ParseIs
<1>. HIDE DEF cr
<1>8. L < 5 => ParseResponse(text) = NoResponse
    <2>1. L < 5 => L < 4 \/ L >= 4
        BY <1>1
    <2>2. L < 5 => ~(L >= 5)
        BY <1>1
    <2>. QED
        BY <1>4, <1>5, <1>6, <1>7, <2>1, <2>2
<1>. DEFINE hs == HeadersFrom(text, 6)
<1>9. L >= 5 => ParseResponse(text) =
        IF hs = <<>> THEN Gathered(text, <<>>, <<>>)
        ELSE Gathered(text, hs, IF Last(hs).end + 4 > Len(text) THEN <<>>
                                ELSE RecordsFrom(text, Last(hs).end + 4))
    <2>1. L >= 5 => L >= 4
        BY <1>1
    <2>2. cr = 4 => cr + 2 = 6 /\ cr # 0
        OBVIOUS
    <2>. QED
        BY <1>4, <1>6, <1>7, <2>1, <2>2
<1>10. L \in 5..6 => hs = <<>>
    <2>1. ASSUME L \in 5..6 PROVE hs = <<>>
        <3>1. 6 \in 1..(L + 1) /\ 6 >= L
            BY <2>1
        <3>. QED
            BY <1>1, <3>1, HeadersAre DEF L
    <2>. QED
        BY <2>1
<1>11. L \in 7..10 => hs = <<Broken>>
    <2>1. ASSUME L \in 7..10 PROVE hs = <<Broken>>
        <3>0. 6 \in 1..(L + 1) /\ ~(6 >= L)
            BY <2>1
        <3>1. 6 \in 1..(Len(text) + 1) /\ ~(6 >= Len(text))
            BY <3>0 DEF L
        <3>2. ColonAt(text, 6) = 7
            <4>. DEFINE p == 6
                        q == 7
            <4>1. q \in p..Len(text) /\ p \in Nat \ {0} /\ text[q] = COLON
                  /\ \A i \in p..(q - 1) : text[i] # COLON
                <5>1. \A i \in 6..(7 - 1) : i = 6
                    OBVIOUS
                <5>2. L >= 6 /\ L >= 7
                    BY <2>1
                <5>. QED
                    BY <1>3, <5>1, <5>2 DEF L
            <4>. HIDE DEF p, q
            <4>2. strchr(text, p, COLON) = q
                BY <1>1, <4>1, FirstFrom
            <4>. QED
                BY <4>2 DEF ColonAt, p, q
        <3>3. CrAt(text, 6) = strchr(text, 7, CR)
            <4>1. Max({1, 7}) = 7
                BY MaxOfTwo
            <4>. QED
                BY <3>2, <4>1 DEF CrAt
        <3>4. CASE L = 10
            <4>. DEFINE p == 7
                        q == 10
            <4>1. q \in p..Len(text) /\ p \in Nat \ {0} /\ text[q] = CR
                  /\ \A i \in p..(q - 1) : text[i] # CR
                <5>1. \A i \in 7..(10 - 1) : i \in {7, 8, 9}
                    OBVIOUS
                <5>. QED
                    BY <1>3, <3>4, <5>1 DEF L
            <4>. HIDE DEF p, q
            <4>2. strchr(text, p, CR) = q
                BY <1>1, <4>1, FirstFrom
            <4>3. StartsAt(text, q, CRLF) => q + 1 <= Len(text)
                BY <4>1, EndSaid DEF q
            <4>4. ~(q + 1 <= Len(text))
                BY <3>4 DEF L, q
            <4>5. NoHeader(text, 6)
                BY <3>3, <4>2, <4>3, <4>4 DEF NoHeader, p
            <4>. QED
                BY <1>1, <3>1, <4>5, HeadersAre
        <3>5. CASE L # 10
            <4>. DEFINE p == 7
            <4>1. p \in Nat \ {0} /\ \A i \in p..Len(text) : text[i] # CR
                <5>1. \A i \in 7..L : i \in {7, 8, 9} /\ L >= i
                    BY <1>1, <2>1, <3>5
                <5>. QED
                    BY <1>3, <5>1 DEF L
            <4>. HIDE DEF p
            <4>2. strchr(text, p, CR) = 0
                BY <1>1, <4>1, NoneFrom
            <4>3. NoHeader(text, 6)
                BY <3>3, <4>2 DEF NoHeader, p
            <4>. QED
                BY <1>1, <3>1, <4>3, HeadersAre
        <3>. QED
            BY <3>4, <3>5
    <2>. QED
        BY <2>1
<1>12. L >= 11 => hs = <<Header(u)>>
    BY HeaderIsRead DEF L
<1>. HIDE DEF hs
<1>13. \A x, rs : Gathered(text, <<x>>, rs)
         = IF x = Broken \/ (rs # <<>> /\ Last(rs) = <<Broken>>) THEN NoResponse
           ELSE ResponseOf(<<text[1]>>, <<x>>, rs)
    <2>1. \A x : <<x>> # <<>> /\ Last(<<x>>) = x
        BY DEF Last
    <2>. QED
        BY <2>1 DEF Gathered
<1>14. L \in 7..10 => ParseResponse(text) = NoResponse
    <2>1. L \in 7..10 => L >= 5
        BY <1>1
    <2>2. <<Broken>> # <<>>
        OBVIOUS
    <2>. QED
        BY <1>9, <1>11, <1>13, <2>1, <2>2
<1>15. L \in 5..6 => ParseResponse(text) = Gathered(text, <<>>, <<>>)
    <2>1. L \in 5..6 => L >= 5
        BY <1>1
    <2>. QED
        BY <1>9, <1>10, <2>1
<1>16. L >= 11 => ParseResponse(text)
                    = Gathered(text, <<Header(u)>>,
                               IF 14 > Len(text) THEN <<>> ELSE RecordsFrom(text, 14))
    <2>1. L >= 11 => L >= 5
        BY <1>1
    <2>2. <<Header(u)>> # <<>> /\ Last(<<Header(u)>>) = Header(u)
        BY DEF Last
    <2>3. Header(u).end = 10 /\ 10 + 4 = 14
        BY DEF Header, Found
    <2>. QED
        BY <1>9, <1>12, <2>1, <2>2, <2>3
<1>. QED
    BY <1>8, <1>14, <1>15, <1>16 DEF L

(* What is gathered from a text that is not whole, and from one that is.   *)
LEMMA GatheredTorn ==
    ASSUME NEW text, NEW hs, NEW rs, TornAll(rs)
    PROVE  Gathered(text, hs, rs) = NoResponse
BY DEF Gathered, TornAll

(* What the parser has made of it: the first J records.                    *)
First(got, recs, J) == got.ok /\ got.records = [n \in 1..J |-> recs[n]]

(* Records that were all read, and fit, are what response_parse returns.   *)
LEMMA GatheredWhole ==
    ASSUME NEW text, NEW hs, hs # <<>> => Last(hs) # Broken, NEW V, NEW rs \in Seq(Seq(V)),
           NEW recs, NEW J \in Nat, J <= MaxRecord, TellAll(rs, recs, 1, J),
           \A n \in 1..J : recs[n] \in Seq(Item) /\ Len(recs[n]) <= MaxKeyval
    PROVE  First(Gathered(text, hs, rs), recs, J)
<1>1. Len(rs) = J /\ \A n \in 1..J : ReadsAs(rs[n], recs[n]) /\ rs[n] \in Seq(V)
    <2>1. J - 1 + 1 = J /\ \A n \in 1..J : 1 + n - 1 = n
        OBVIOUS
    <2>2. Len(rs) = J /\ \A n \in 1..J : ReadsAs(rs[n], recs[n])
        BY <2>1 DEF TellAll
    <2>. QED
        BY <2>2, ElementOfSeq
<1>2. ~(rs # <<>> /\ Last(rs) = <<Broken>>)
    <2>1. SUFFICES ASSUME rs # <<>>, Last(rs) = <<Broken>> PROVE FALSE
        OBVIOUS
    <2>2. J \in 1..J
        BY <1>1, <2>1, EmptySeq
    <2>3. ReadsAs(<<Broken>>, recs[J])
        BY <1>1, <2>1, <2>2 DEF Last
    <2>4. PICK end \in Nat \ {0} : Last(<<Broken>>).end = end
        BY <2>3 DEF ReadsAs, Tells
    <2>5. Last(<<Broken>>) = Broken
        BY DEF Last
    <2>. QED
        BY <2>4, <2>5, EndOfBroken
<1>3. Gathered(text, hs, rs) = ResponseOf(<<text[1]>>, hs, rs)
    BY <1>2 DEF Gathered
<1>4. ResponseOf(<<text[1]>>, hs, rs).ok
      /\ ResponseOf(<<text[1]>>, hs, rs).records
           = [n \in 1..Min({Len(rs), MaxRecord}) |-> PushAll(<<>>, rs[n])]
    BY DEF ResponseOf, PushAll
<1>5. Min({Len(rs), MaxRecord}) = J
    BY <1>1, MinOfTwo, TableAssumption
<1>6. \A n \in 1..J : PushAll(<<>>, rs[n]) = recs[n]
    BY <1>1, ReadIsPushed
<1>7. ResponseOf(<<text[1]>>, hs, rs).records = [n \in 1..J |-> recs[n]]
    BY <1>4, <1>5, <1>6
<1>. QED
    BY <1>3, <1>4, <1>7 DEF First

(* A text up to a length.                                                  *)
LEMMA CutIs ==
    ASSUME NEW S, NEW text \in Seq(S), NEW n \in Nat
    PROVE  /\ Cut(text, n) \in Seq(S)
           /\ Len(Cut(text, n)) = IF n <= Len(text) THEN n ELSE Len(text)
           /\ \A i \in 1..Len(Cut(text, n)) : Cut(text, n)[i] = text[i]
<1>. DEFINE m == IF n <= Len(text) THEN n ELSE Len(text)
            c == SubSeq(text, 1, m)
<1>1. Len(text) \in Nat /\ m \in 0..Len(text) /\ \A i \in 1..Len(text) : text[i] \in S
    BY LenProperties, ElementOfSeq
<1>2. Cut(text, n) = c
    BY <1>1, MinOfTwo DEF Cut
<1>. HIDE DEF m
<1>3. c \in Seq(S) /\ Len(c) = m
    BY <1>1, Beginnings
<1>4. \A i \in 1..(m - 1 + 1) : c[i] = text[1 + i - 1]
    <2>1. \A i \in 1..m : text[i] \in S
        BY <1>1
    <2>2. 1 \in Int /\ m \in Int
        BY <1>1
    <2>. QED
        BY <2>1, <2>2, SubSeqProperties
<1>5. m - 1 + 1 = m /\ \A i \in 1..m : 1 + i - 1 = i
    BY <1>1
<1>. HIDE DEF c
<1>. QED
    BY <1>2, <1>3, <1>4, <1>5 DEF m

(* The elements of a concatenation.                                        *)
LEMMA CatAt ==
    ASSUME NEW S, NEW u \in Seq(S), NEW v \in Seq(S)
    PROVE  \A i \in 1..(Len(u) + Len(v)) :
              Cat(u, v)[i] = IF i <= Len(u) THEN u[i] ELSE v[i - Len(u)]
BY ConcatProperties DEF Cat

(* All tokens but the last.                                                *)
LEMMA FrontIs ==
    ASSUME NEW S, NEW u \in Seq(S)
    PROVE  /\ Front(u) \in Seq(S)
           /\ Len(Front(u)) = IF Len(u) = 0 THEN 0 ELSE Len(u) - 1
           /\ \A i \in 1..Len(Front(u)) : Front(u)[i] = u[i]
<1>. DEFINE L == Len(u)
            f == SubSeq(u, 1, L - 1)
<1>1. L \in Nat /\ \A i \in 1..L : u[i] \in S
    BY LenProperties, ElementOfSeq
<1>2. Front(u) = f
    BY DEF Front
<1>. HIDE DEF L
<1>3. /\ f \in Seq(S) /\ Len(f) = IF 1 <= L - 1 THEN L - 1 - 1 + 1 ELSE 0
      /\ \A i \in 1..(L - 1 - 1 + 1) : f[i] = u[1 + i - 1]
    <2>1. \A i \in 1..(L - 1) : u[i] \in S
        BY <1>1
    <2>2. 1 \in Int /\ L - 1 \in Int
        BY <1>1
    <2>. QED
        BY <2>1, <2>2, SubSeqProperties
<1>4. /\ (IF 1 <= L - 1 THEN L - 1 - 1 + 1 ELSE 0) = IF L = 0 THEN 0 ELSE L - 1
      /\ \A i \in 1..Len(f) : i \in 1..(L - 1 - 1 + 1) /\ 1 + i - 1 = i
    BY <1>1, <1>3
<1>. HIDE DEF f
<1>. QED
    BY <1>2, <1>3, <1>4 DEF L

(* What WithRecord does: the record, or as much as there is room for.      *)
LEMMA WithRecordIs ==
    ASSUME NEW T \in Text, NEW rec, PlainRecord(rec), NEW room \in Nat \ {0}
    PROVE  WithRecord(T, rec, room) =
             IF Len(T) + Len(Block(rec)) < room THEN Cat(T, Block(rec))
             ELSE Cut(Cat(T, Body(rec)), room - 1)
<1>. DEFINE B == Body(rec)
            lf == <<LF>>
            U == Cat(T, B)
            X == Cat(U, lf)
            m == Len(U)
<1>1. /\ B \in Text /\ Block(rec) = Cat(B, CRLF) /\ Len(Block(rec)) = Len(B) + 2
      /\ Spelled(rec, <<EQ>>, <<LF>>) = Cat(B, lf)
    BY BlockFacts
<1>2. lf \in Seq(Token) /\ Len(lf) = 1 /\ CRLF \in Seq(Token) /\ T \in Seq(Token)
      /\ B \in Seq(Token)
    BY <1>1, TokenAssumption DEF CRLF, Text
<1>. HIDE DEF B, lf
<1>3. U \in Seq(Token) /\ m = Len(T) + Len(B)
    BY <1>2, CatAre
<1>4. Len(T) \in Nat /\ Len(B) \in Nat /\ m \in Nat
    BY <1>2, <1>3, LenProperties
<1>5. WithRecord(T, rec, room) = Ended(Front(Cut(Cat(T, Cat(B, lf)), room)), room)
    BY <1>1 DEF WithRecord, Cat
<1>6. Cat(T, Cat(B, lf)) = X /\ Cat(T, Cat(B, CRLF)) = Cat(U, CRLF)
    BY <1>2, CatFacts
<1>. HIDE DEF U
<1>7. X \in Seq(Token) /\ Len(X) = m + 1
    <2>1. U \in Seq(Token) /\ lf \in Seq(Token)
        BY <1>2, <1>3
    <2>2. X \in Seq(Token) /\ Len(X) = Len(U) + Len(lf)
        BY <2>1, CatAre
    <2>. QED
        BY <1>2, <2>2
<1>8. \A i \in 1..m : X[i] = U[i]
    <2>1. \A i \in 1..(m + 1) : X[i] = IF i <= m THEN U[i] ELSE lf[i - m]
        BY <1>2, <1>3, CatAt
    <2>. HIDE DEF X, m
    <2>. QED
        BY <1>4, <2>1
<1>. HIDE DEF X
<1>. DEFINE C == Cut(X, room)
            D == Front(C)
            E == Cut(U, room - 1)
<1>9. /\ C \in Seq(Token) /\ Len(C) = IF room <= m + 1 THEN room ELSE m + 1
      /\ \A i \in 1..Len(C) : C[i] = X[i]
    BY <1>7, CutIs
<1>. HIDE DEF C
<1>10. /\ D \in Seq(Token) /\ Len(D) = IF Len(C) = 0 THEN 0 ELSE Len(C) - 1
       /\ \A i \in 1..Len(D) : D[i] = C[i]
    BY <1>9, FrontIs
<1>11. /\ E \in Seq(Token) /\ Len(E) = IF room - 1 <= m THEN room - 1 ELSE m
       /\ \A i \in 1..Len(E) : E[i] = U[i]
    <2>. DEFINE n == room - 1
    <2>1. n \in Nat
        OBVIOUS
    <2>. HIDE DEF n
    <2>2. /\ Cut(U, n) \in Seq(Token) /\ Len(Cut(U, n)) = IF n <= m THEN n ELSE m
          /\ \A i \in 1..Len(Cut(U, n)) : Cut(U, n)[i] = U[i]
        BY <1>3, <2>1, CutIs
    <2>. QED
        BY <2>2 DEF n
<1>. HIDE DEF D, E, m
<1>12. D = E
    <2>1. Len(D) = Len(E)
        BY <1>4, <1>9, <1>10, <1>11
    <2>2. \A i \in 1..Len(D) : i \in 1..m /\ i \in 1..Len(C) /\ i \in 1..Len(E)
        BY <1>4, <1>9, <1>10, <1>11
    <2>3. \A i \in 1..Len(D) : D[i] = E[i]
        BY <1>8, <1>9, <1>10, <1>11, <2>2
    <2>. QED
        BY <1>10, <1>11, <2>1, <2>3, SeqEqual
<1>13. WithRecord(T, rec, room) = IF Len(E) < room - 2 THEN Cat(E, CRLF) ELSE E
    BY <1>5, <1>6, <1>12 DEF C, D, Ended, Cat
<1>14. CASE Len(T) + Len(Block(rec)) < room
    <2>1. Len(E) = m /\ Len(E) < room - 2
        BY <1>1, <1>3, <1>4, <1>11, <1>14 DEF B
    <2>2. E = U
        BY <1>3, <1>11, <2>1, SeqEqual DEF m
    <2>3. Cat(E, CRLF) = Cat(T, Block(rec))
        BY <1>1, <1>6, <2>2
    <2>. QED
        BY <1>13, <1>14, <2>1, <2>3
<1>15. CASE ~(Len(T) + Len(Block(rec)) < room)
    <2>1. ~(Len(E) < room - 2)
        BY <1>1, <1>3, <1>4, <1>11, <1>15 DEF B
    <2>. QED
        BY <1>13, <1>15, <2>1 DEF E, U, B
<1>. QED
    BY <1>14, <1>15

(* WithRecords writes one record after the other.                          *)
WriteRun(t, text, recs, room) ==
    /\ t[0] = text
    /\ \A n \in 1..Len(recs) : t[n] = WithRecord(t[n - 1], recs[n], room)

(* A text with the end of the response is a text.                          *)
LEMMA EndedType ==
    ASSUME NEW T \in Text, NEW room \in Nat
    PROVE  Ended(T, room) \in Text
<1>1. T \in Seq(Token) /\ CRLF \in Seq(Token)
    BY TokenAssumption DEF Text, CRLF
<1>2. Cat(T, CRLF) \in Seq(Token)
    BY <1>1, CatFacts
<1>. QED
    BY <1>1, <1>2 DEF Ended, Cat, Text

(* What is written for a record is a text.                                 *)
LEMMA SpelledType ==
    ASSUME NEW rec \in Seq(Item)
    PROVE  Spelled(rec, <<EQ>>, <<LF>>) \in Text
<1>. DEFINE ss == [n \in DOMAIN rec |-> rec[n].key \o <<EQ>> \o rec[n].val \o <<LF>>]
            N == Len(rec)
<1>1. N \in Nat /\ DOMAIN rec = 1..N /\ \A n \in 1..N : rec[n] \in Item
    BY LenProperties, ElementOfSeq
<1>2. ASSUME NEW n \in 1..N
      PROVE  ss[n] \in Seq(Token)
    <2>. DEFINE a == rec[n].key
                b == rec[n].val
                e == <<EQ>>
                f == <<LF>>
    <2>1. a \in Seq(Token) /\ b \in Seq(Token)
        BY <1>1 DEF Item, Text
    <2>2. e \in Seq(Token) /\ f \in Seq(Token)
        BY TokenAssumption
    <2>3. ss[n] = Cat(Cat(Cat(a, e), b), f)
        BY <1>1 DEF Cat
    <2>. HIDE DEF a, b, e, f, ss
    <2>4. Cat(a, e) \in Seq(Token)
        BY <2>1, <2>2, CatFacts
    <2>5. Cat(Cat(a, e), b) \in Seq(Token)
        BY <2>1, <2>4, CatFacts
    <2>. QED
        BY <2>2, <2>3, <2>5, CatFacts
<1>3. ss \in [1..N -> Seq(Token)]
    BY <1>1, <1>2
<1>4. Spelled(rec, <<EQ>>, <<LF>>) = FlattenSeq(ss)
    BY DEF Spelled
<1>. HIDE DEF ss
<1>5. ss \in Seq(Seq(Token))
    BY <1>1, <1>3, AsSeq
<1>6. PICK k \in [0..Len(ss) -> Seq(Token)] : FlattenSeq(ss) = k[Len(ss)]
    BY <1>5, FlattenAre
<1>7. Len(ss) \in 0..Len(ss)
    BY <1>5, LenProperties
<1>. QED
    BY <1>4, <1>6, <1>7 DEF Text

(* A text with one more record is a text.                                  *)
LEMMA WithRecordType ==
    ASSUME NEW T \in Text, NEW rec \in Seq(Item), NEW room \in Nat
    PROVE  WithRecord(T, rec, room) \in Text
<1>. DEFINE w == Spelled(rec, <<EQ>>, <<LF>>)
            X == Cat(T, w)
            C == Cut(X, room)
<1>1. T \in Seq(Token)
    BY DEF Text
<1>2. w \in Seq(Token)
    BY SpelledType DEF Text
<1>. HIDE DEF w
<1>3. X \in Seq(Token)
    BY <1>1, <1>2, CatFacts
<1>. HIDE DEF X
<1>4. C \in Seq(Token)
    BY <1>3, CutIs
<1>. HIDE DEF C
<1>5. Front(C) \in Text
    BY <1>4, FrontIs DEF Text
<1>6. WithRecord(T, rec, room) = Ended(Front(C), room)
    BY DEF WithRecord, C, X, w, Cat
<1>. QED
    BY <1>5, <1>6, EndedType

(* The fold of WithRecords, one record after the other.                    *)
LEMMA WithRecordsAre ==
    ASSUME NEW R, NEW recs \in Seq(R), \A n \in 1..Len(recs) : recs[n] \in Seq(Item),
           NEW text \in Text, NEW room \in Nat
    PROVE  \E t \in [0..Len(recs) -> Text] :
              WriteRun(t, text, recs, room) /\ WithRecords(text, recs, room) = t[Len(recs)]
<1>. DEFINE N == Len(recs)
            V == Text
            One(sofar, n) == WithRecord(sofar, recs[n], room)
            F == [p \in (1..N) \X V |-> One(p[2], p[1])]
            G(f) == f = [T \in SUBSET (DOMAIN recs) |->
                           IF T = {} THEN text
                           ELSE WithRecord(f[T \ {Max(T)}], recs[Max(T)], room)]
            g == CHOOSE f : G(f)
<1>1. N \in Nat /\ DOMAIN recs = 1..N
    BY LenProperties
<1>2. WithRecords(text, recs, room) = g[DOMAIN recs]
    BY Zenon DEF WithRecords, FoldLeft, MapThenFoldSet
<1>. HIDE DEF g, V
<1>3. F \in [(1..N) \X V -> V]
    BY <1>1, WithRecordType DEF V
<1>4. PICK f \in [SUBSET (1..N) -> V] : Recurs(f, text, F, N)
    <2>1. text \in V
        BY DEF V
    <2>. HIDE DEF F
    <2>. QED
        BY <1>1, <1>3, <2>1, RecursionExists
<1>5. ASSUME NEW T \in SUBSET (1..N)
      PROVE  f[T] = IF T = {} THEN text ELSE One(f[T \ {Max(T)}], Max(T))
    <2>1. CASE T # {}
        <3>1. Max(T) \in 1..N
            BY <1>1, <2>1, LargestOf
        <3>2. f[T \ {Max(T)}] \in V
            OBVIOUS
        <3>. QED
            BY <1>4, <2>1, <3>1, <3>2 DEF Recurs
    <2>2. CASE T = {}
        BY <1>4, <2>2 DEF Recurs
    <2>. QED
        BY <2>1, <2>2
<1>6. G(f)
    <2>1. f = [T \in SUBSET (1..N) |-> f[T]]
        OBVIOUS
    <2>. QED
        BY <1>1, <1>5, <2>1, Zenon
<1>7. G(g)
    <2>. HIDE DEF G
    <2>. QED
        BY <1>6 DEF g
<1>8. \A T \in SUBSET (1..N) :
         g[T] = IF T = {} THEN text ELSE One(g[T \ {Max(T)}], Max(T))
    BY <1>1, <1>7, Zenon
<1>. HIDE DEF G, One
<1>. DEFINE k == [n \in 0..N |-> g[1..n]]
<1>9. k[0] = text
    <2>1. 1..0 = {} /\ {} \in SUBSET (1..N) /\ 0 \in 0..N
        BY <1>1
    <2>. QED
        BY <1>8, <2>1
<1>10. ASSUME NEW n \in 1..N PROVE k[n] = One(k[n - 1], n)
    <2>1. n \in Nat \ {0} /\ n \in 0..N /\ n - 1 \in 0..N /\ (1..n) \in SUBSET (1..N)
        BY <1>1
    <2>2. g[1..n] = One(g[1..(n - 1)], n)
        BY <1>8, <2>1, UpToSet
    <2>. QED
        BY <2>1, <2>2
<1>11. WithRecords(text, recs, room) = k[N]
    BY <1>1, <1>2
<1>12. k = [n \in 0..N |-> k[n]]
    OBVIOUS
<1>. HIDE DEF k
<1>. DEFINE P == {n \in Nat : k[n] \in V}
<1>13. 0 \in P
    BY <1>9 DEF V
<1>14. ASSUME NEW n \in 0..(N - 1), n \in P PROVE n + 1 \in P
    <2>1. n + 1 \in 1..N /\ (n + 1) - 1 = n /\ n + 1 \in Nat
        BY <1>1
    <2>2. k[n + 1] = One(k[n], n + 1) /\ k[n] \in V
        BY <1>10, <1>14, <2>1
    <2>3. One(k[n], n + 1) \in V
        BY <2>1, <2>2, WithRecordType DEF One, V
    <2>. QED
        BY <2>1, <2>2, <2>3
<1>. HIDE DEF P, N
<1>15. \A n \in 0..N : n \in P
    BY <1>1, <1>13, <1>14, UpTo
<1>16. k \in [0..N -> V]
    BY <1>12, <1>15 DEF P
<1>17. \A n \in 1..N : k[n] = WithRecord(k[n - 1], recs[n], room)
    BY <1>10 DEF One
<1>. QED
    BY <1>9, <1>11, <1>16, <1>17 DEF WriteRun, N, V

(* The words that a response begins with.                                  *)
Opening(s, u) == <<s, SP, "msg", CR, LF, "uri", COLON, SP, u, CR, LF, CR, LF>>

(* A sequence that has u in front and v behind it.                         *)
LEMMA Joined ==
    ASSUME NEW S, NEW u \in Seq(S), NEW v \in Seq(S), NEW w \in Seq(S),
           Len(w) = Len(u) + Len(v), \A i \in 1..Len(u) : w[i] = u[i],
           \A i \in 1..Len(v) : w[Len(u) + i] = v[i]
    PROVE  u \o v = w
<1>. DEFINE x == u \o v
<1>1. /\ x \in Seq(S) /\ Len(x) = Len(u) + Len(v)
      /\ \A i \in 1..(Len(u) + Len(v)) : x[i] = IF i <= Len(u) THEN u[i] ELSE v[i - Len(u)]
    BY ConcatProperties
<1>2. Len(u) \in Nat /\ Len(v) \in Nat
    BY LenProperties
<1>. HIDE DEF x
<1>3. ASSUME NEW i \in 1..Len(x) PROVE x[i] = w[i]
    <2>1. CASE i <= Len(u)
        BY <1>1, <1>2, <2>1
    <2>2. CASE ~(i <= Len(u))
        <3>1. i - Len(u) \in 1..Len(v) /\ Len(u) + (i - Len(u)) = i
            BY <1>1, <1>2, <2>2
        <3>2. w[i] = v[i - Len(u)]
            BY <3>1
        <3>. QED
            BY <1>1, <2>2, <3>2
    <2>. QED
        BY <2>1, <2>2
<1>. QED
    BY <1>1, <1>3, SeqEqual DEF x

(* One header, as it is written.                                           *)
HeaderText(u) == <<"uri", COLON, SP, u, CR, LF>>

(* The one header of a response as it is written.                          *)
LEMMA HeaderSpelled ==
    ASSUME NEW u \in Token
    PROVE  Spelled(<<Entry(<<"uri">>, <<u>>)>>, <<COLON, SP>>, CRLF) = HeaderText(u)
           /\ HeaderText(u) \in Seq(Token)
<1>. DEFINE e == Entry(<<"uri">>, <<u>>)
            a == e.key \o <<COLON, SP>> \o e.val \o CRLF
            table == <<e>>
            ss == [n \in DOMAIN table |-> table[n].key \o <<COLON, SP>> \o table[n].val \o CRLF]
<1>1. COLON \in Token /\ SP \in Token /\ CR \in Token /\ LF \in Token /\ "uri" \in Token
    BY TokenAssumption
<1>2. e.key = <<"uri">> /\ e.val = <<u>>
    BY DEF Entry
<1>3. a = HeaderText(u)
    <2>1. <<"uri">> \o <<COLON, SP>> = <<"uri", COLON, SP>>
        <3>. DEFINE x == <<"uri">>
                    y == <<COLON, SP>>
                    z == <<"uri", COLON, SP>>
        <3>1. x \in Seq(Token) /\ y \in Seq(Token) /\ z \in Seq(Token)
            BY <1>1
        <3>2. Len(x) = 1 /\ Len(y) = 2 /\ Len(z) = 1 + 2
            OBVIOUS
        <3>3. \A i \in 1..1 : z[i] = x[i]
            OBVIOUS
        <3>4. \A i \in 1..2 : z[1 + i] = y[i]
            OBVIOUS
        <3>. HIDE DEF x, y, z
        <3>5. Len(z) = Len(x) + Len(y) /\ \A i \in 1..Len(x) : z[i] = x[i]
            BY <3>2, <3>3
        <3>6. \A i \in 1..Len(y) : z[Len(x) + i] = y[i]
            BY <3>2, <3>4
        <3>7. x \o y = z
            BY <3>1, <3>5, <3>6, Joined
        <3>. QED
            BY <3>7 DEF x, y, z
    <2>2. <<"uri", COLON, SP>> \o <<u>> = <<"uri", COLON, SP, u>>
        <3>. DEFINE x == <<"uri", COLON, SP>>
                    y == <<u>>
                    z == <<"uri", COLON, SP, u>>
        <3>1. x \in Seq(Token) /\ y \in Seq(Token) /\ z \in Seq(Token)
            BY <1>1
        <3>2. Len(x) = 3 /\ Len(y) = 1 /\ Len(z) = 3 + 1
            OBVIOUS
        <3>3. \A i \in 1..3 : z[i] = x[i]
            OBVIOUS
        <3>4. \A i \in 1..1 : z[3 + i] = y[i]
            OBVIOUS
        <3>. HIDE DEF x, y, z
        <3>5. Len(z) = Len(x) + Len(y) /\ \A i \in 1..Len(x) : z[i] = x[i]
            BY <3>2, <3>3
        <3>6. \A i \in 1..Len(y) : z[Len(x) + i] = y[i]
            BY <3>2, <3>4
        <3>7. x \o y = z
            BY <3>1, <3>5, <3>6, Joined
        <3>. QED
            BY <3>7 DEF x, y, z
    <2>3. <<"uri", COLON, SP, u>> \o <<CR, LF>> = <<"uri", COLON, SP, u, CR, LF>>
        <3>. DEFINE x == <<"uri", COLON, SP, u>>
                    y == <<CR, LF>>
                    z == <<"uri", COLON, SP, u, CR, LF>>
        <3>1. x \in Seq(Token) /\ y \in Seq(Token) /\ z \in Seq(Token)
            BY <1>1
        <3>2. Len(x) = 4 /\ Len(y) = 2 /\ Len(z) = 4 + 2
            OBVIOUS
        <3>3. \A i \in 1..4 : z[i] = x[i]
            OBVIOUS
        <3>4. \A i \in 1..2 : z[4 + i] = y[i]
            OBVIOUS
        <3>. HIDE DEF x, y, z
        <3>5. Len(z) = Len(x) + Len(y) /\ \A i \in 1..Len(x) : z[i] = x[i]
            BY <3>2, <3>3
        <3>6. \A i \in 1..Len(y) : z[Len(x) + i] = y[i]
            BY <3>2, <3>4
        <3>7. x \o y = z
            BY <3>1, <3>5, <3>6, Joined
        <3>. QED
            BY <3>7 DEF x, y, z
    <2>. QED
        BY <1>2, <2>1, <2>2, <2>3 DEF CRLF, HeaderText
<1>4. HeaderText(u) \in Seq(Token)
    BY <1>1 DEF HeaderText
<1>5. ss = [n \in 1..1 |-> a]
    <2>1. DOMAIN table = 1..1 /\ \A n \in 1..1 : table[n] = e
        OBVIOUS
    <2>. HIDE DEF table, e
    <2>. QED
        BY <2>1
<1>6. Spelled(<<e>>, <<COLON, SP>>, CRLF) = FlattenSeq(ss)
    BY DEF Spelled
<1>. DEFINE h == HeaderText(u)
            one == <<h>>
<1>7. one \in Seq(Seq(Token)) /\ Len(one) = 1 /\ one[1] = h /\ h \in Seq(Token)
    BY <1>4
<1>8. ss = one
    <2>. DEFINE f == [n \in 1..1 |-> h]
    <2>1. f \in [1..1 -> Seq(Token)] /\ f[1] = h
        BY <1>7
    <2>2. ss = f
        BY <1>3, <1>5
    <2>. HIDE DEF f, one, h, ss
    <2>3. f \in Seq(Seq(Token)) /\ Len(f) = 1
        BY <2>1, AsSeq
    <2>4. \A i \in 1..1 : f[i] = one[i]
        BY <1>7, <2>1
    <2>. QED
        BY <1>7, <2>2, <2>3, <2>4, SeqEqual
<1>. HIDE DEF one, h, ss
<1>9. PICK k \in [0..Len(one) -> Seq(Token)] : FlattenRun(k, one) /\ FlattenSeq(one) = k[Len(one)]
    BY <1>7, FlattenAre
<1>10. FlattenSeq(one) = <<>> \o h
    <2>1. 1 \in 1..Len(one) /\ 1 - 1 = 0
        BY <1>7
    <2>. QED
        BY <1>7, <1>9, <2>1 DEF FlattenRun
<1>11. <<>> \o h = h
    BY <1>7, ConcatEmptySeq
<1>. QED
    BY <1>4, <1>6, <1>8, <1>10, <1>11 DEF h

(* A text that is as long as it is, and one that is too long.              *)
Fore(T, F) == Len(T) <= Len(F) /\ \A i \in 1..Len(T) : T[i] = F[i]

(* The head of a response, which the buffer may be too small for.          *)
Headed(T, M, s, u, room) ==
    /\ T \in Text /\ Len(T) <= M
    /\ \A i \in 1..Len(T) : T[i] = Opening(s, u)[i]
    /\ room >= M => Len(T) = M
    /\ room < M => Len(T) >= room

(* What response_prepare has written before the first record.              *)
LEMMA HeadIs ==
    ASSUME NEW s \in Token, NEW u \in Token, NEW res, res.status = <<s>>,
           res.headers = <<Entry(<<"uri">>, <<u>>)>>, NEW room \in Nat
    PROVE  Headed(HeadText(res, room), IF res.records = <<>> THEN 11 ELSE 13, s, u, room)
<1>. DEFINE st == <<s, SP, "msg", CR, LF>>
            h == HeaderText(u)
            g == h \o CRLF
            r == IF res.records = <<>> THEN h ELSE g
            R == IF res.records = <<>> THEN 6 ELSE 8
            n == room - 5
            c == Cut(r, n)
            T == HeadText(res, room)
<1>1. COLON \in Token /\ SP \in Token /\ CR \in Token /\ LF \in Token /\ "uri" \in Token
      /\ "msg" \in Token
    BY TokenAssumption
<1>2. res.status \o <<SP, "msg">> \o CRLF = st /\ st \in Seq(Token) /\ Len(st) = 5
    <2>1. <<s>> \o <<SP, "msg">> = <<s, SP, "msg">>
        <3>. DEFINE x == <<s>>
                    y == <<SP, "msg">>
                    z == <<s, SP, "msg">>
        <3>1. x \in Seq(Token) /\ y \in Seq(Token) /\ z \in Seq(Token)
            BY <1>1
        <3>2. Len(x) = 1 /\ Len(y) = 2 /\ Len(z) = 1 + 2
            OBVIOUS
        <3>3. \A i \in 1..1 : z[i] = x[i]
            OBVIOUS
        <3>4. \A i \in 1..2 : z[1 + i] = y[i]
            OBVIOUS
        <3>. HIDE DEF x, y, z
        <3>5. Len(z) = Len(x) + Len(y) /\ \A i \in 1..Len(x) : z[i] = x[i]
            BY <3>2, <3>3
        <3>6. \A i \in 1..Len(y) : z[Len(x) + i] = y[i]
            BY <3>2, <3>4
        <3>7. x \o y = z
            BY <3>1, <3>5, <3>6, Joined
        <3>. QED
            BY <3>7 DEF x, y, z
    <2>2. <<s, SP, "msg">> \o <<CR, LF>> = <<s, SP, "msg", CR, LF>>
        <3>. DEFINE x == <<s, SP, "msg">>
                    y == <<CR, LF>>
                    z == <<s, SP, "msg", CR, LF>>
        <3>1. x \in Seq(Token) /\ y \in Seq(Token) /\ z \in Seq(Token)
            BY <1>1
        <3>2. Len(x) = 3 /\ Len(y) = 2 /\ Len(z) = 3 + 2
            OBVIOUS
        <3>3. \A i \in 1..3 : z[i] = x[i]
            OBVIOUS
        <3>4. \A i \in 1..2 : z[3 + i] = y[i]
            OBVIOUS
        <3>. HIDE DEF x, y, z
        <3>5. Len(z) = Len(x) + Len(y) /\ \A i \in 1..Len(x) : z[i] = x[i]
            BY <3>2, <3>3
        <3>6. \A i \in 1..Len(y) : z[Len(x) + i] = y[i]
            BY <3>2, <3>4
        <3>7. x \o y = z
            BY <3>1, <3>5, <3>6, Joined
        <3>. QED
            BY <3>7 DEF x, y, z
    <2>. QED
        <3>1. st \in Seq(Token) /\ Len(st) = 5
            BY <1>1
        <3>. QED
            BY <2>1, <2>2, <3>1 DEF CRLF
<1>3. h \in Seq(Token) /\ h \o <<>> = h /\ CRLF \in Seq(Token) /\ Len(h) = 6
    <2>1. h \in Seq(Token)
        BY HeaderSpelled
    <2>. QED
        BY <1>1, <2>1, ConcatEmptySeq DEF CRLF, HeaderText
<1>4. g = <<"uri", COLON, SP, u, CR, LF, CR, LF>>
    <2>1. <<"uri", COLON, SP, u, CR, LF>> \o <<CR, LF>> = <<"uri", COLON, SP, u, CR, LF, CR, LF>>
        <3>. DEFINE x == <<"uri", COLON, SP, u, CR, LF>>
                    y == <<CR, LF>>
                    z == <<"uri", COLON, SP, u, CR, LF, CR, LF>>
        <3>1. x \in Seq(Token) /\ y \in Seq(Token) /\ z \in Seq(Token)
            BY <1>1
        <3>2. Len(x) = 6 /\ Len(y) = 2 /\ Len(z) = 6 + 2
            OBVIOUS
        <3>3. \A i \in 1..6 : z[i] = x[i]
            OBVIOUS
        <3>4. \A i \in 1..2 : z[6 + i] = y[i]
            OBVIOUS
        <3>. HIDE DEF x, y, z
        <3>5. Len(z) = Len(x) + Len(y) /\ \A i \in 1..Len(x) : z[i] = x[i]
            BY <3>2, <3>3
        <3>6. \A i \in 1..Len(y) : z[Len(x) + i] = y[i]
            BY <3>2, <3>4
        <3>7. x \o y = z
            BY <3>1, <3>5, <3>6, Joined
        <3>. QED
            BY <3>7 DEF x, y, z
    <2>. QED
        BY <2>1 DEF HeaderText, CRLF
<1>5. g \in Seq(Token) /\ Len(g) = 8
    BY <1>1, <1>4
<1>6. r \in Seq(Token) /\ Len(r) = R
    BY <1>3, <1>5
<1>7. \A i \in 1..R : r[i] = Opening(s, u)[i + 5]
    <2>1. \A i \in 1..8 : g[i] = Opening(s, u)[i + 5]
        BY <1>4 DEF Opening
    <2>2. \A i \in 1..6 : h[i] = Opening(s, u)[i + 5]
        BY DEF Opening, HeaderText
    <2>. QED
        BY <2>1, <2>2
<1>8. \A i \in 1..5 : st[i] = Opening(s, u)[i]
    BY DEF Opening
<1>9. T = st \o c
    <2>1. Spelled(res.headers, <<COLON, SP>>, CRLF) = h
        BY HeaderSpelled
    <2>2. T = st \o Cut(h \o IF res.records = <<>> THEN <<>> ELSE CRLF, room - Len(st))
        BY <1>2, <2>1 DEF HeadText
    <2>3. h \o (IF res.records = <<>> THEN <<>> ELSE CRLF) = r
        BY <1>3
    <2>. QED
        BY <1>2, <2>2, <2>3
<1>10. /\ c \in Seq(Token)
       /\ Len(c) = IF room < 5 THEN 0 ELSE IF room - 5 <= R THEN room - 5 ELSE R
       /\ \A i \in 1..Len(c) : c[i] = r[i]
    <2>. HIDE DEF r
    <2>1. CASE room < 5
        <3>1. n \in Int /\ n < 0 /\ Len(r) \in Nat
            BY <1>6, <2>1
        <3>2. Min({n, Len(r)}) = n
            <4>1. n \in {n, Len(r)} /\ \A y \in {n, Len(r)} : n <= y
                BY <3>1
            <4>2. \A x \in {n, Len(r)} : (\A y \in {n, Len(r)} : x <= y) => x = n
                BY <3>1
            <4>. QED
                BY <4>1, <4>2 DEF Min
        <3>3. c = SubSeq(r, 1, n)
            BY <3>2 DEF Cut
        <3>. HIDE DEF n
        <3>4. SubSeq(r, 1, n) = <<>>
            <4>1. 1 \in Int /\ n < 1
                BY <3>1
            <4>. QED
                BY <3>1, <4>1, SubSeqEmpty
        <3>5. c \in Seq(Token) /\ Len(c) = 0
            BY <3>3, <3>4, EmptySeq
        <3>. HIDE DEF c
        <3>. QED
            BY <2>1, <3>5
    <2>2. CASE ~(room < 5)
        <3>1. n \in Nat
            BY <2>2
        <3>2. room - 5 = n
            OBVIOUS
        <3>. HIDE DEF n
        <3>3. /\ c \in Seq(Token) /\ Len(c) = IF n <= Len(r) THEN n ELSE Len(r)
              /\ \A i \in 1..Len(c) : c[i] = r[i]
            BY <1>6, <3>1, CutIs
        <3>. HIDE DEF c
        <3>. QED
            BY <1>6, <2>2, <3>2, <3>3
    <2>. QED
        BY <2>1, <2>2
<1>. HIDE DEF c, r, st, T, g
<1>11. /\ T \in Seq(Token) /\ Len(T) = 5 + Len(c)
       /\ \A i \in 1..(Len(st) + Len(c)) : T[i] = IF i <= Len(st) THEN st[i] ELSE c[i - Len(st)]
    <2>1. /\ st \o c \in Seq(Token) /\ Len(st \o c) = Len(st) + Len(c)
          /\ \A i \in 1..(Len(st) + Len(c)) :
               (st \o c)[i] = IF i <= Len(st) THEN st[i] ELSE c[i - Len(st)]
        <3>1. st \in Seq(Token) /\ c \in Seq(Token)
            BY <1>2, <1>10
        <3>. QED
            BY <3>1, ConcatProperties
    <2>. QED
        BY <1>2, <1>9, <2>1
<1>12. Len(c) \in Nat /\ Len(c) <= R
    BY <1>10
<1>13. ASSUME NEW i \in 1..Len(T) PROVE T[i] = Opening(s, u)[i]
    <2>1. CASE i <= 5
        <3>1. T[i] = st[i] /\ i \in 1..5
            BY <1>2, <1>11, <1>12, <2>1
        <3>. QED
            BY <1>8, <3>1
    <2>2. CASE ~(i <= 5)
        <3>1. i - 5 \in 1..Len(c) /\ i - 5 \in 1..R /\ i - 5 + 5 = i
            BY <1>11, <1>12, <2>2
        <3>2. T[i] = c[i - 5]
            BY <1>2, <1>11, <1>12, <2>2
        <3>3. T[i] = r[i - 5]
            BY <1>10, <3>1, <3>2
        <3>. QED
            BY <1>7, <3>1, <3>3
    <2>. QED
        BY <2>1, <2>2
<1>. DEFINE M == IF res.records = <<>> THEN 11 ELSE 13
<1>14. M = R + 5
    OBVIOUS
<1>. HIDE DEF M, R
<1>15. R \in Nat /\ R >= 6
    BY DEF R
<1>16. /\ Len(T) <= M /\ (room >= M => Len(T) = M) /\ (room < M => Len(T) >= room)
    BY <1>10, <1>11, <1>12, <1>14, <1>15
<1>. QED
    BY <1>11, <1>13, <1>16 DEF T, M, Text, Headed

(* The whole text of a response, one record after the other.               *)
WholeRun(k, s, u, recs) ==
    /\ k \in [0..Len(recs) -> Text]
    /\ k[0] = Opening(s, u)
    /\ \A n \in 1..Len(recs) : k[n] = Cat(k[n - 1], Block(recs[n]))

WholeText(k, recs) == IF recs = <<>> THEN k[0] ELSE Cat(k[Len(recs)], CRLF)

(* The status, the header and the line ends are thirteen tokens.           *)
LEMMA OpeningType ==
    ASSUME NEW s \in Token, NEW u \in Token
    PROVE  Opening(s, u) \in Seq(Token) /\ Len(Opening(s, u)) = 13
<1>1. COLON \in Token /\ SP \in Token /\ CR \in Token /\ LF \in Token /\ "uri" \in Token
      /\ "msg" \in Token
    BY TokenAssumption
<1>. QED
    BY <1>1 DEF Opening

(* Every response has its whole text, record by record.                    *)
LEMMA WholeExists ==
    ASSUME NEW s \in Token, NEW u \in Token, NEW R, NEW recs \in Seq(R),
           \A n \in 1..Len(recs) : PlainRecord(recs[n])
    PROVE  \E k : WholeRun(k, s, u, recs)
<1>. DEFINE N == Len(recs)
            V == Text
            base == Opening(s, u)
            One(T, n) == Cat(T, Block(recs[n]))
            F == [p \in (1..N) \X V |-> One(p[2], p[1])]
<1>1. N \in Nat
    BY LenProperties
<1>2. base \in V
    BY OpeningType DEF Text
<1>3. \A n \in 1..N : Block(recs[n]) \in V
    BY BlockFacts
<1>4. \A T \in V, n \in 1..N : One(T, n) \in V
    BY <1>3, CatFacts DEF Text
<1>. HIDE DEF N, V, base, One
<1>5. F \in [(1..N) \X V -> V]
    BY <1>4
<1>6. PICK k \in [0..N -> V] : Runs(k, base, F, N)
    <2>. HIDE DEF F
    <2>. QED
        BY <1>1, <1>2, <1>5, RunExists
<1>7. k[0] = base /\ \A n \in 1..N : k[n] = One(k[n - 1], n)
    <2>1. \A n \in 1..N : n - 1 \in 0..N
        BY <1>1
    <2>2. \A n \in 1..N : k[n - 1] \in V
        BY <1>6, <2>1
    <2>3. k[0] = base /\ \A n \in 1..N : k[n] = F[<<n, k[n - 1]>>]
        BY <1>6 DEF Runs
    <2>4. \A n \in 1..N : F[<<n, k[n - 1]>>] = One(k[n - 1], n)
        BY <2>2
    <2>. QED
        BY <2>3, <2>4
<1>8. WholeRun(k, s, u, recs)
    BY <1>6, <1>7 DEF WholeRun, N, V, base, One
<1>. QED
    BY <1>8

(* A text up to a place is one up to a later place up to there.            *)
LEMMA ForeTrans ==
    ASSUME NEW S, NEW u \in Seq(S), NEW v \in Seq(S), NEW w \in Seq(S), Fore(u, v), Fore(v, w)
    PROVE  Fore(u, w)
<1>1. Len(u) \in Nat /\ Len(v) \in Nat /\ Len(w) \in Nat
    BY LenProperties
<1>2. \A i \in 1..Len(u) : i \in 1..Len(v)
    BY <1>1 DEF Fore
<1>. QED
    BY <1>1, <1>2 DEF Fore

(* Of two texts in a row, the first is up to where the second is said.     *)
LEMMA ForeCat ==
    ASSUME NEW S, NEW u \in Seq(S), NEW v \in Seq(S)
    PROVE  Fore(u, Cat(u, v)) /\ SaidAt(Cat(u, v), Len(u) + 1, v)
<1>. DEFINE w == Cat(u, v)
            a == Len(u)
            b == Len(v)
<1>1. w \in Seq(S) /\ Len(w) = a + b /\ a \in Nat /\ b \in Nat
    BY CatAre, LenProperties
<1>2. \A i \in 1..(a + b) : w[i] = IF i <= a THEN u[i] ELSE v[i - a]
    BY CatAt
<1>. HIDE DEF w, a, b
<1>3. a <= Len(w) /\ \A i \in 1..a : w[i] = u[i]
    <2>1. a <= Len(w)
        BY <1>1
    <2>2. \A i \in 1..a : i \in 1..(a + b) /\ i <= a
        BY <1>1
    <2>3. \A i \in 1..a : w[i] = u[i]
        BY <1>2, <2>2
    <2>. QED
        BY <2>1, <2>3
<1>4. a + 1 + b - 1 <= Len(w) /\ \A i \in 1..b : w[a + 1 + i - 1] = v[i]
    <2>1. \A i \in 1..b : a + 1 + i - 1 = a + i /\ a + i \in 1..(a + b) /\ ~(a + i <= a)
                          /\ (a + i) - a = i
        BY <1>1
    <2>2. \A i \in 1..b : w[a + i] = v[i]
        BY <1>2, <2>1
    <2>. QED
        BY <1>1, <2>1, <2>2
<1>. QED
    BY <1>3, <1>4 DEF Fore, SaidAt, w, a, b

(* What a text says is said by a text that goes on.                        *)
LEMMA SaidInFore ==
    ASSUME NEW S, NEW T \in Seq(S), NEW F \in Seq(S), Fore(T, F), NEW w \in Seq(S),
           NEW p \in Nat \ {0}
    PROVE  SaidAt(T, p, w) <=> SaidAt(F, p, w) /\ p + Len(w) - 1 <= Len(T)
<1>1. Len(T) \in Nat /\ Len(F) \in Nat /\ Len(w) \in Nat /\ Len(T) <= Len(F)
    BY LenProperties DEF Fore
<1>2. p + Len(w) - 1 <= Len(T) => \A n \in 1..Len(w) : p + n - 1 \in 1..Len(T)
    BY <1>1
<1>3. p + Len(w) - 1 <= Len(T) => \A n \in 1..Len(w) : T[p + n - 1] = F[p + n - 1]
    BY <1>2 DEF Fore
<1>4. p + Len(w) - 1 <= Len(T) => p + Len(w) - 1 <= Len(F)
    BY <1>1
<1>. QED
    BY <1>3, <1>4 DEF SaidAt

(* The whole text: the words of the opening, the records where they start, *)
(* and the end.                                                            *)
Wholly(F, k, N, s, u, recs) ==
    /\ F \in Text /\ N \in Nat
    /\ Len(F) = IF N = 0 THEN 13 ELSE Len(k[N]) + 2
    /\ \A n \in 0..N : k[n] \in Text /\ Fore(k[n], F) /\ Len(k[n]) <= Len(k[N])
                       /\ Len(k[n]) \in Nat /\ Len(k[n]) >= 13
    /\ \A n \in 0..N : \A j \in 0..n : Len(k[j]) <= Len(k[n])
    /\ Len(k[0]) = 13
    /\ \A n \in 1..N : /\ Len(k[n]) = Len(k[n - 1]) + Len(Block(recs[n]))
                       /\ SaidAt(F, Len(k[n - 1]) + 1, Block(recs[n]))
    /\ N # 0 => SaidAt(F, Len(k[N]) + 1, CRLF)
    /\ \A i \in 1..13 : F[i] = Opening(s, u)[i]

(* What the whole text of a response has, and where.                       *)
LEMMA WholeFacts ==
    ASSUME NEW s \in Token, NEW u \in Token, NEW R, NEW recs \in Seq(R),
           \A n \in 1..Len(recs) : PlainRecord(recs[n]), NEW k, WholeRun(k, s, u, recs)
    PROVE  Wholly(WholeText(k, recs), k, Len(recs), s, u, recs)
<1>. DEFINE F == WholeText(k, recs)
            N == Len(recs)
            B(n) == Block(recs[n])
<1>1. N \in Nat /\ (recs = <<>> <=> N = 0)
    BY LenProperties, EmptySeq
<1>2. \A n \in 1..N : B(n) \in Seq(Token) /\ Len(B(n)) \in Nat
    BY BlockFacts, LenProperties DEF Text
<1>3. /\ \A n \in 0..N : k[n] \in Seq(Token) /\ Len(k[n]) \in Nat
      /\ k[0] = Opening(s, u)
      /\ \A n \in 1..N : k[n] = Cat(k[n - 1], B(n))
    BY LenProperties DEF WholeRun, Text
<1>. HIDE DEF N, B
<1>4. Len(k[0]) = 13
    BY <1>3, OpeningType
<1>5. ASSUME NEW n \in 1..N
      PROVE  /\ Len(k[n]) = Len(k[n - 1]) + Len(B(n)) /\ Fore(k[n - 1], k[n])
             /\ SaidAt(k[n], Len(k[n - 1]) + 1, B(n))
    <2>1. n - 1 \in 0..N
        BY <1>1
    <2>2. k[n - 1] \in Seq(Token) /\ B(n) \in Seq(Token)
        BY <1>2, <1>3, <2>1
    <2>3. k[n] = Cat(k[n - 1], B(n))
        BY <1>3
    <2>4. Len(Cat(k[n - 1], B(n))) = Len(k[n - 1]) + Len(B(n))
        BY <2>2, CatAre
    <2>5. Fore(k[n - 1], Cat(k[n - 1], B(n))) /\ SaidAt(Cat(k[n - 1], B(n)), Len(k[n - 1]) + 1, B(n))
        BY <2>2, ForeCat
    <2>. QED
        BY <2>3, <2>4, <2>5
<1>. DEFINE P == {m \in Nat : \A n \in 0..m : Fore(k[n], k[m])}
<1>6. 0 \in P
    <2>1. \A n \in 0..0 : n = 0
        OBVIOUS
    <2>2. Fore(k[0], k[0])
        BY <1>4 DEF Fore
    <2>. QED
        BY <2>1, <2>2
<1>7. ASSUME NEW m \in 0..(N - 1), m \in P PROVE m + 1 \in P
    <2>1. m + 1 \in 1..N /\ (m + 1) - 1 = m /\ m + 1 \in Nat /\ m \in 0..N /\ m + 1 \in 0..N
        BY <1>1
    <2>2. Fore(k[m], k[m + 1])
        BY <1>5, <2>1
    <2>3. ASSUME NEW n \in 0..(m + 1) PROVE Fore(k[n], k[m + 1])
        <3>1. CASE n \in 0..m
            <4>1. n \in 0..N /\ Fore(k[n], k[m])
                BY <1>1, <1>7, <3>1
            <4>2. k[n] \in Seq(Token) /\ k[m] \in Seq(Token) /\ k[m + 1] \in Seq(Token)
                BY <1>3, <2>1, <4>1
            <4>. QED
                BY <2>2, <4>1, <4>2, ForeTrans
        <3>2. CASE n = m + 1
            <4>1. Len(k[m + 1]) \in Nat
                BY <1>3, <2>1
            <4>. QED
                BY <3>2, <4>1 DEF Fore
        <3>. QED
            BY <2>1, <3>1, <3>2
    <2>. QED
        BY <2>1, <2>3
<1>. HIDE DEF P
<1>8. \A m \in 0..N : m \in P
    BY <1>1, <1>6, <1>7, UpTo
<1>9. \A n \in 0..N : Fore(k[n], k[N])
    <2>1. N \in 0..N
        BY <1>1
    <2>. QED
        BY <1>8, <2>1 DEF P
<1>10. \A n \in 0..N : Fore(k[0], k[n])
    <2>1. \A n \in 0..N : 0 \in 0..n
        BY <1>1
    <2>. QED
        BY <1>8, <2>1 DEF P
<1>11. /\ F \in Seq(Token) /\ Len(F) = IF N = 0 THEN 13 ELSE Len(k[N]) + 2
       /\ Fore(k[N], F) /\ (N # 0 => SaidAt(F, Len(k[N]) + 1, CRLF))
    <2>1. N \in 0..N /\ CRLF \in Seq(Token) /\ Len(CRLF) = 2
        BY <1>1, TokenAssumption DEF CRLF
    <2>2. k[N] \in Seq(Token) /\ CRLF \in Seq(Token)
        BY <1>3, <2>1
    <2>3. F = IF N = 0 THEN k[0] ELSE Cat(k[N], CRLF)
        BY <1>1 DEF WholeText, N
    <2>4. /\ Cat(k[N], CRLF) \in Seq(Token) /\ Len(Cat(k[N], CRLF)) = Len(k[N]) + Len(CRLF)
        BY <2>2, CatAre
    <2>5. Fore(k[N], Cat(k[N], CRLF)) /\ SaidAt(Cat(k[N], CRLF), Len(k[N]) + 1, CRLF)
        BY <2>2, ForeCat
    <2>6. Fore(k[0], k[0])
        BY <1>4 DEF Fore
    <2>. HIDE DEF F
    <2>. QED
        BY <1>4, <2>1, <2>2, <2>3, <2>4, <2>5, <2>6
<1>. HIDE DEF F
<1>12. \A n \in 0..N : Fore(k[n], F)
    <2>1. ASSUME NEW n \in 0..N PROVE Fore(k[n], F)
        <3>1. N \in 0..N
            BY <1>1
        <3>2. k[n] \in Seq(Token) /\ k[N] \in Seq(Token) /\ F \in Seq(Token)
            BY <1>3, <1>11, <3>1
        <3>3. Fore(k[n], k[N]) /\ Fore(k[N], F)
            BY <1>9, <1>11
        <3>. QED
            BY <3>2, <3>3, ForeTrans
    <2>. QED
        BY <2>1
<1>13. \A n \in 0..N : Len(k[n]) <= Len(k[N]) /\ Len(k[n]) >= 13
    BY <1>3, <1>4, <1>9, <1>10 DEF Fore
<1>14. ASSUME NEW n \in 1..N PROVE SaidAt(F, Len(k[n - 1]) + 1, B(n))
    <2>1. n - 1 \in 0..N /\ n \in 0..N
        BY <1>1
    <2>. DEFINE p == Len(k[n - 1]) + 1
    <2>2. p \in Nat \ {0}
        BY <1>3, <2>1
    <2>3. k[n] \in Seq(Token) /\ F \in Seq(Token) /\ B(n) \in Seq(Token) /\ Fore(k[n], F)
        BY <1>2, <1>3, <1>11, <1>12, <2>1
    <2>4. SaidAt(k[n], p, B(n))
        BY <1>5
    <2>. HIDE DEF p
    <2>5. SaidAt(F, p, B(n))
        BY <2>2, <2>3, <2>4, SaidInFore
    <2>. QED
        BY <2>5 DEF p
<1>15. \A i \in 1..13 : F[i] = Opening(s, u)[i]
    <2>1. 0 \in 0..N
        BY <1>1
    <2>2. Fore(k[0], F)
        BY <1>12, <2>1
    <2>. QED
        BY <1>3, <1>4, <2>2 DEF Fore
<1>16. \A n \in 0..N : \A j \in 0..n : Len(k[j]) <= Len(k[n])
    BY <1>8 DEF P, Fore
<1>. QED
    BY <1>1, <1>3, <1>4, <1>5, <1>11, <1>12, <1>13, <1>14, <1>15, <1>16 DEF F, N, B, Text, Wholly

(* What has been written when n records were to be: all of them, with room *)
(* behind; what the buffer holds; all without the end of the last, which   *)
(* would fill the buffer; this and a token of the next record; or a head   *)
(* that is longer than the buffer.                                         *)
Entire(T, n, k, room) == T = k[n] /\ Len(k[n]) < room
Stuffed(T, F, room) == Len(T) = room - 1 /\ Fore(T, F) /\ Len(F) >= room
Endless(T, n, k, F, room) ==
    n # 0 /\ Len(k[n]) = room /\ Len(T) = room - 2 /\ Fore(T, F)
Spoiled(T, n, k, F, room) ==
    \E m \in 1..n : /\ Len(k[m]) = room /\ Len(T) = room - 1 /\ T[room - 1] # CR
                    /\ \A i \in 1..(room - 2) : T[i] = F[i]
TooLong(T, n, F, room) == n = 0 /\ room <= 13 /\ Len(T) >= room /\ Fore(T, F)

Sofar(T, n, k, F, room) ==
    \/ Entire(T, n, k, room) \/ Stuffed(T, F, room) \/ Endless(T, n, k, F, room)
    \/ Spoiled(T, n, k, F, room) \/ TooLong(T, n, F, room)

(* A text that fills the buffer up to one token stays as it is.            *)
LEMMA CutInFront ==
    ASSUME NEW T \in Text, NEW rec, PlainRecord(rec), NEW room \in Nat \ {0},
           Len(T) + 2 >= room
    PROVE  LET W == WithRecord(T, rec, room)
           IN  /\ W \in Text /\ Len(W) = room - 1
               /\ \A i \in 1..(room - 1) : i <= Len(T) => W[i] = T[i]
               /\ Len(T) = room - 1 => W = T
               /\ Len(T) = room - 2 => W[room - 1] # CR
<1>. DEFINE W == WithRecord(T, rec, room)
            D == Body(rec)
            U == Cat(T, D)
            m == room - 1
            C == Cut(U, m)
            a == Len(T)
            b == Len(D)
<1>1. /\ D \in Seq(Token) /\ T \in Seq(Token) /\ Len(Block(rec)) = b + 2
      /\ b \in Nat \ {0} /\ CR \notin Range(D) /\ a \in Nat /\ m \in Nat
    BY BlockFacts, LenProperties DEF Text
<1>2. W = C
    <2>1. ~(a + Len(Block(rec)) < room)
        BY <1>1
    <2>. QED
        BY <2>1, WithRecordIs
<1>. HIDE DEF W, m
<1>3. U \in Seq(Token) /\ Len(U) = a + b
    <2>1. T \in Seq(Token) /\ D \in Seq(Token)
        BY <1>1
    <2>. QED
        BY <2>1, CatAre
<1>4. \A i \in 1..(a + b) : U[i] = IF i <= a THEN T[i] ELSE D[i - a]
    <2>1. T \in Seq(Token) /\ D \in Seq(Token)
        BY <1>1
    <2>. QED
        BY <2>1, CatAt
<1>. HIDE DEF U
<1>5. /\ C \in Seq(Token) /\ Len(C) = IF m <= Len(U) THEN m ELSE Len(U)
      /\ \A i \in 1..Len(C) : C[i] = U[i]
    BY <1>1, <1>3, CutIs
<1>. HIDE DEF C, a, b
<1>6. m = room - 1 /\ a + 2 >= room
    BY DEF m, a
<1>7. Len(C) = m /\ m <= a + b
    BY <1>1, <1>3, <1>5, <1>6
<1>8. \A i \in 1..m : i <= a => C[i] = T[i]
    <2>1. \A i \in 1..m : i \in 1..(a + b) /\ i \in 1..Len(C)
        BY <1>1, <1>7
    <2>. QED
        BY <1>4, <1>5, <2>1
<1>9. a = m => C = T
    <2>1. ASSUME a = m PROVE C = T
        <3>1. Len(C) = Len(T) /\ \A i \in 1..Len(C) : C[i] = T[i]
            BY <1>1, <1>7, <1>8, <2>1 DEF a
        <3>. QED
            BY <1>1, <1>5, <3>1, SeqEqual
    <2>. QED
        BY <2>1
<1>10. a = m - 1 => C[m] # CR
    <2>1. ASSUME a = m - 1 PROVE C[m] # CR
        <3>1. m \in 1..(a + b) /\ m \in 1..Len(C) /\ ~(m <= a) /\ m - a = 1
            BY <1>1, <1>7, <2>1
        <3>2. C[m] = D[1]
            BY <1>4, <1>5, <3>1
        <3>3. 1 \in 1..Len(D) /\ DOMAIN D = 1..Len(D)
            BY <1>1, LenProperties DEF b
        <3>4. D[1] \in Range(D)
            BY <3>3 DEF Range
        <3>. QED
            BY <1>1, <3>2, <3>4
    <2>. QED
        BY <2>1
<1>11. /\ (Len(T) = room - 1 <=> a = m) /\ (Len(T) = room - 2 <=> a = m - 1)
    BY <1>1 DEF a, m
<1>12. W \in Text /\ Len(W) = m
    BY <1>2, <1>5, <1>7 DEF Text
<1>. QED
    BY <1>2, <1>8, <1>9, <1>10, <1>11, <1>12 DEF W, m, a

(* What a record that is written in full is written behind.                *)
LEMMA RecordFits ==
    ASSUME NEW T \in Text, NEW rec, PlainRecord(rec), NEW room \in Nat \ {0},
           NEW F \in Text, Fore(Cat(T, Block(rec)), F)
    PROVE  LET W == WithRecord(T, rec, room)
               L == Len(T) + Len(Block(rec))
           IN  /\ W \in Text
               /\ L < room => W = Cat(T, Block(rec))
               /\ L >= room => Fore(W, F) /\ Len(F) >= room
               /\ L = room => Len(W) = room - 2
               /\ L > room => Len(W) = room - 1
<1>. DEFINE W == WithRecord(T, rec, room)
            D == Body(rec)
            U == Cat(T, D)
            K == Cat(T, Block(rec))
            m == room - 1
            C == Cut(U, m)
            a == Len(T)
            b == Len(D)
            L == a + Len(Block(rec))
<1>1. /\ D \in Seq(Token) /\ T \in Seq(Token) /\ F \in Seq(Token) /\ Len(Block(rec)) = b + 2
      /\ b \in Nat \ {0} /\ a \in Nat /\ m \in Nat
      /\ Block(rec) = Cat(D, CRLF) /\ CRLF \in Seq(Token) /\ Block(rec) \in Seq(Token)
    <2>1. CRLF \in Seq(Token) /\ F \in Seq(Token) /\ T \in Seq(Token)
        BY TokenAssumption DEF Text, CRLF
    <2>2. D \in Seq(Token) /\ Block(rec) \in Seq(Token) /\ Block(rec) = Cat(D, CRLF)
          /\ Len(Block(rec)) = b + 2 /\ b \in Nat \ {0}
        BY BlockFacts DEF Text
    <2>3. a \in Nat /\ m \in Nat
        BY <2>1, LenProperties
    <2>. QED
        BY <2>1, <2>2, <2>3
<1>2. W = IF L < room THEN K ELSE C
    BY WithRecordIs
<1>3. W \in Text
    BY WithRecordType DEF PlainRecord
<1>. HIDE DEF W, m, K
<1>4. U \in Seq(Token) /\ Len(U) = a + b
    <2>1. T \in Seq(Token) /\ D \in Seq(Token)
        BY <1>1
    <2>. QED
        BY <2>1, CatAre
<1>5. K = Cat(U, CRLF)
    <2>1. Cat(Cat(T, D), CRLF) = Cat(T, Cat(D, CRLF))
        BY <1>1, CatFacts
    <2>. QED
        BY <1>1, <2>1 DEF K
<1>6. K \in Seq(Token) /\ Len(K) = L
    <2>1. T \in Seq(Token) /\ Block(rec) \in Seq(Token)
        BY <1>1
    <2>. QED
        BY <2>1, CatAre DEF K
<1>. HIDE DEF U
<1>7. Fore(U, K)
    <2>1. U \in Seq(Token) /\ CRLF \in Seq(Token)
        BY <1>1, <1>4
    <2>. QED
        BY <1>5, <2>1, ForeCat
<1>8. Fore(K, F)
    BY DEF K
<1>9. /\ C \in Seq(Token) /\ Len(C) = IF m <= Len(U) THEN m ELSE Len(U)
      /\ \A i \in 1..Len(C) : C[i] = U[i]
    BY <1>1, <1>4, CutIs
<1>. HIDE DEF C
<1>10. Len(C) <= Len(U)
    BY <1>1, <1>4, <1>9
<1>11. Fore(C, U)
    BY <1>9, <1>10 DEF Fore
<1>12. Fore(C, F)
    <2>1. Fore(C, K)
        BY <1>4, <1>6, <1>7, <1>9, <1>11, ForeTrans
    <2>. QED
        BY <1>1, <1>6, <1>8, <1>9, <2>1, ForeTrans
<1>. HIDE DEF a, b, L
<1>13. L = a + b + 2 /\ m = room - 1 /\ Len(F) \in Nat /\ L \in Nat /\ Len(F) >= L
    <2>1. Len(F) \in Nat
        BY <1>1, LenProperties
    <2>2. Len(K) <= Len(F)
        BY <1>8 DEF Fore
    <2>3. L = a + b + 2
        BY <1>1 DEF L
    <2>4. L \in Nat
        BY <1>1, <2>3
    <2>. QED
        BY <1>6, <2>1, <2>2, <2>3, <2>4 DEF m
<1>14. L >= room => W = C /\ Len(F) >= room
    BY <1>2, <1>13
<1>15. /\ L = room => Len(C) = room - 2
       /\ L > room => Len(C) = room - 1
    BY <1>1, <1>4, <1>9, <1>13
<1>16. L = room \/ L > room => L >= room
    BY <1>13
<1>. QED
    BY <1>2, <1>3, <1>12, <1>13, <1>14, <1>15, <1>16 DEF W, L, a, K

(* One more record: whatever has been written before it.                   *)
LEMMA OneMoreWritten ==
    ASSUME NEW s \in Token, NEW u \in Token, NEW R, NEW recs \in Seq(R),
           \A n \in 1..Len(recs) : PlainRecord(recs[n]), NEW k, WholeRun(k, s, u, recs),
           NEW room \in Nat \ {0}, NEW n \in 1..Len(recs), NEW T \in Text,
           Sofar(T, n - 1, k, WholeText(k, recs), room)
    PROVE  Sofar(WithRecord(T, recs[n], room), n, k, WholeText(k, recs), room)
<1>. DEFINE F == WholeText(k, recs)
            N == Len(recs)
            rec == recs[n]
            W == WithRecord(T, rec, room)
            j == n - 1
<1>1. /\ F \in Text /\ N \in Nat /\ n \in 1..N /\ j \in 0..N /\ n \in 0..N /\ n # 0
      /\ PlainRecord(rec) /\ k[n] = Cat(k[j], Block(rec))
      /\ Len(k[n]) \in Nat /\ Len(k[j]) \in Nat /\ Fore(k[n], F) /\ k[j] \in Text /\ k[n] \in Text
      /\ Len(k[n]) = Len(k[j]) + Len(Block(rec))
      /\ Len(F) \in Nat /\ Len(T) \in Nat /\ Len(F) >= 13
    <2>1. /\ F \in Text /\ N \in Nat
          /\ Len(F) = IF N = 0 THEN 13 ELSE Len(k[N]) + 2
          /\ \A i \in 0..N : k[i] \in Text /\ Fore(k[i], F) /\ Len(k[i]) \in Nat /\ Len(k[i]) >= 13
          /\ \A i \in 1..N : Len(k[i]) = Len(k[i - 1]) + Len(Block(recs[i]))
        <3>1. Wholly(F, k, N, s, u, recs)
            BY WholeFacts
        <3>. HIDE DEF F, N
        <3>. QED
            BY <3>1 DEF Wholly
    <2>2. n \in 1..N /\ j \in 0..N /\ n \in 0..N /\ n # 0 /\ N \in 0..N
        BY <2>1
    <2>3. PlainRecord(rec) /\ k[n] = Cat(k[j], Block(rec))
        BY DEF WholeRun
    <2>4. Len(T) \in Nat
        BY LenProperties DEF Text
    <2>5. Len(k[n]) = Len(k[j]) + Len(Block(rec))
        BY <2>1, <2>2
    <2>6. Len(F) \in Nat /\ Len(F) >= 13
        BY <2>1, <2>2
    <2>. HIDE DEF F, N, rec, j
    <2>. QED
        BY <2>1, <2>2, <2>3, <2>4, <2>5, <2>6
<1>2. Sofar(T, j, k, F, room)
    OBVIOUS
<1>. HIDE DEF F, N, rec, W, j
<1>3. CASE Entire(T, j, k, room)
    <2>1. T = k[j] /\ Len(k[j]) < room /\ Cat(T, Block(rec)) = k[n]
        BY <1>1, <1>3 DEF Entire
    <2>2. Fore(Cat(T, Block(rec)), F)
        BY <1>1, <2>1
    <2>. DEFINE L == Len(T) + Len(Block(rec))
    <2>3. /\ L < room => W = Cat(T, Block(rec))
          /\ L >= room => Fore(W, F) /\ Len(F) >= room
          /\ L = room => Len(W) = room - 2
          /\ L > room => Len(W) = room - 1
        BY <1>1, <2>2, RecordFits DEF W
    <2>4. L = Len(k[n])
        BY <1>1, <2>1
    <2>. HIDE DEF L
    <2>5. CASE L < room
        <3>1. Entire(W, n, k, room)
            BY <2>1, <2>3, <2>4, <2>5 DEF Entire
        <3>. QED
            BY <3>1 DEF Sofar, W, F, rec
    <2>6. CASE L = room
        <3>1. Endless(W, n, k, F, room)
            BY <1>1, <2>3, <2>4, <2>6 DEF Endless
        <3>. QED
            BY <3>1 DEF Sofar, W, F, rec
    <2>7. CASE L > room
        <3>1. Stuffed(W, F, room)
            BY <1>1, <2>3, <2>4, <2>7 DEF Stuffed
        <3>. QED
            BY <3>1 DEF Sofar, W, F, rec
    <2>. QED
        BY <1>1, <2>4, <2>5, <2>6, <2>7
<1>4. CASE Stuffed(T, F, room)
    <2>1. Len(T) = room - 1 /\ Len(T) + 2 >= room
        BY <1>4 DEF Stuffed
    <2>2. W = T
        BY <1>1, <2>1, CutInFront DEF W
    <2>. QED
        BY <1>4, <2>2 DEF Sofar, W, F, rec
<1>5. CASE Endless(T, j, k, F, room)
    <2>1. j # 0 /\ Len(k[j]) = room /\ Len(T) = room - 2 /\ Fore(T, F) /\ Len(T) + 2 >= room
        BY <1>5 DEF Endless
    <2>2. /\ Len(W) = room - 1 /\ W[room - 1] # CR
          /\ \A i \in 1..(room - 1) : i <= Len(T) => W[i] = T[i]
        BY <1>1, <2>1, CutInFront DEF W
    <2>3. \A i \in 1..(room - 2) : i \in 1..(room - 1) /\ i <= Len(T) /\ i \in 1..Len(T)
        BY <2>1
    <2>4. \A i \in 1..(room - 2) : W[i] = F[i]
        BY <2>1, <2>2, <2>3 DEF Fore
    <2>5. j \in 1..n
        BY <1>1, <2>1 DEF j
    <2>6. Spoiled(W, n, k, F, room)
        BY <2>1, <2>2, <2>4, <2>5 DEF Spoiled
    <2>. QED
        BY <2>6 DEF Sofar, W, F, rec
<1>6. CASE Spoiled(T, j, k, F, room)
    <2>1. PICK m \in 1..j : /\ Len(k[m]) = room /\ Len(T) = room - 1 /\ T[room - 1] # CR
                            /\ \A i \in 1..(room - 2) : T[i] = F[i]
        BY <1>6 DEF Spoiled
    <2>2. W = T
        <3>1. Len(T) = room - 1 /\ Len(T) + 2 >= room
            BY <2>1
        <3>. QED
            BY <1>1, <3>1, CutInFront DEF W
    <2>3. m \in 1..n
        BY <1>1 DEF j
    <2>4. Spoiled(W, n, k, F, room)
        BY <2>1, <2>2, <2>3 DEF Spoiled
    <2>. QED
        BY <2>4 DEF Sofar, W, F, rec
<1>7. CASE TooLong(T, j, F, room)
    <2>1. room <= 13 /\ Len(T) >= room /\ Fore(T, F) /\ Len(T) + 2 >= room
        BY <1>1, <1>7 DEF TooLong
    <2>2. /\ Len(W) = room - 1
          /\ \A i \in 1..(room - 1) : i <= Len(T) => W[i] = T[i]
        BY <1>1, <2>1, CutInFront DEF W
    <2>3. \A i \in 1..(room - 1) : i <= Len(T) /\ i \in 1..Len(T)
        BY <1>1, <2>1
    <2>4. \A i \in 1..(room - 1) : W[i] = F[i]
        BY <2>1, <2>2, <2>3 DEF Fore
    <2>5. Len(F) >= room /\ room - 1 <= Len(F)
        BY <1>1, <2>1
    <2>6. Stuffed(W, F, room)
        BY <2>2, <2>4, <2>5 DEF Stuffed, Fore
    <2>. QED
        BY <2>6 DEF Sofar, W, F, rec
<1>. QED
    BY <1>2, <1>3, <1>4, <1>5, <1>6, <1>7 DEF Sofar

(* The text that response_prepare writes: the whole one, if it fits, or as *)
(* much of it as fits, up to two tokens; or this, and a token that is not  *)
(* what ends a record.                                                     *)
Prepared(text, n, k, F, room) ==
    \/ text = F /\ Len(F) < room
    \/ Len(F) >= room /\ Fore(text, F) /\ Len(text) >= room - 2
    \/ Spoiled(text, n, k, F, room)

(* The records that are written one after the other keep to the cases      *)
(* that one record keeps to.                                               *)
LEMMA RecordsWritten ==
    ASSUME NEW s \in Token, NEW u \in Token, NEW R, NEW recs \in Seq(R),
           \A n \in 1..Len(recs) : PlainRecord(recs[n]), NEW k, WholeRun(k, s, u, recs),
           NEW room \in Nat \ {0}, NEW T \in Text, Sofar(T, 0, k, WholeText(k, recs), room)
    PROVE  /\ WithRecords(T, recs, room) \in Text
           /\ Sofar(WithRecords(T, recs, room), Len(recs), k, WholeText(k, recs), room)
<1>. DEFINE N == Len(recs)
            So(W, n) == Sofar(W, n, k, WholeText(k, recs), room)
<1>1. N \in Nat
    BY LenProperties
<1>2. PICK t \in [0..N -> Text] : WriteRun(t, T, recs, room) /\ WithRecords(T, recs, room) = t[N]
    BY WithRecordsAre DEF PlainRecord
<1>3. ASSUME NEW n \in 1..N, So(t[n - 1], n - 1) PROVE So(t[n], n)
    <2>1. n - 1 \in 0..N
        BY <1>1
    <2>2. t[n - 1] \in Text
        BY <2>1
    <2>3. t[n] = WithRecord(t[n - 1], recs[n], room)
        BY <1>2 DEF WriteRun
    <2>. QED
        BY <1>3, <2>2, <2>3, OneMoreWritten
<1>4. So(t[0], 0)
    BY <1>2 DEF WriteRun
<1>. HIDE DEF N, So
<1>. DEFINE P == {n \in Nat : So(t[n], n)}
<1>5. 0 \in P
    BY <1>4
<1>6. ASSUME NEW n \in 0..(N - 1), n \in P PROVE n + 1 \in P
    <2>1. n + 1 \in 1..N /\ (n + 1) - 1 = n /\ n + 1 \in Nat
        BY <1>1
    <2>2. So(t[n], n)
        BY <1>6
    <2>. QED
        BY <1>3, <2>1, <2>2
<1>. HIDE DEF P
<1>7. N \in P /\ N \in 0..N
    <2>1. \A n \in 0..N : n \in P
        BY <1>1, <1>5, <1>6, UpTo
    <2>. QED
        BY <1>1, <2>1
<1>. QED
    BY <1>2, <1>7 DEF P, So, N

(* What is written before the records.                                     *)
LEMMA HeadWritten ==
    ASSUME NEW s \in Token, NEW u \in Token, NEW R, NEW recs \in Seq(R), recs # <<>>,
           \A n \in 1..Len(recs) : PlainRecord(recs[n]), NEW k, WholeRun(k, s, u, recs),
           NEW room \in Nat, NEW res, res.status = <<s>>, res.records = recs,
           res.headers = <<Entry(<<"uri">>, <<u>>)>>
    PROVE  HeadText(res, room) \in Text
           /\ Sofar(HeadText(res, room), 0, k, WholeText(k, recs), room)
<1>. DEFINE F == WholeText(k, recs)
            N == Len(recs)
            H == HeadText(res, room)
<1>1. /\ F \in Text /\ N \in Nat /\ Len(F) = IF N = 0 THEN 13 ELSE Len(k[N]) + 2
      /\ \A n \in 0..N : k[n] \in Text /\ Len(k[n]) \in Nat /\ Len(k[n]) >= 13
      /\ Len(k[0]) = 13 /\ \A i \in 1..13 : F[i] = Opening(s, u)[i]
    <2>1. Wholly(F, k, N, s, u, recs)
        BY WholeFacts
    <2>. HIDE DEF F, N
    <2>. QED
        BY <2>1 DEF Wholly
<1>2. k[0] = Opening(s, u) /\ N # 0
    BY EmptySeq DEF WholeRun
<1>3. /\ H \in Text /\ Len(H) <= 13 /\ \A i \in 1..Len(H) : H[i] = Opening(s, u)[i]
      /\ room >= 13 => Len(H) = 13
      /\ room < 13 => Len(H) >= room
    <2>1. Headed(HeadText(res, room), IF res.records = <<>> THEN 11 ELSE 13, s, u, room)
        BY HeadIs
    <2>2. Headed(H, 13, s, u, room)
        BY <2>1
    <2>. HIDE DEF H
    <2>. QED
        BY <2>2 DEF Headed
<1>. HIDE DEF F, N, H
<1>4. 0 \in 0..N /\ N \in 0..N
    BY <1>1
<1>5. Sofar(H, 0, k, F, room)
    <2>1. Len(H) \in Nat /\ Len(H) <= 13 /\ \A i \in 1..Len(H) : i \in 1..13
        BY <1>3, <1>4, LenProperties DEF Text
    <2>2. Fore(H, F)
        <3>1. Len(H) <= Len(F)
            BY <1>1, <1>2, <1>4, <2>1
        <3>. QED
            BY <1>1, <1>3, <2>1, <3>1 DEF Fore
    <2>3. CASE room > 13
        <3>1. Len(H) = 13
            BY <1>3, <1>4, <2>3
        <3>2. H \in Seq(Token) /\ k[0] \in Seq(Token) /\ Len(H) = Len(k[0])
            BY <1>1, <1>3, <1>4, <3>1 DEF Text
        <3>3. \A i \in 1..Len(H) : H[i] = k[0][i]
            BY <1>2, <1>3
        <3>4. H = k[0]
            BY <3>2, <3>3, SeqEqual
        <3>5. Entire(H, 0, k, room)
            BY <1>1, <2>3, <3>4 DEF Entire
        <3>. QED
            BY <3>5 DEF Sofar
    <2>4. CASE room <= 13
        <3>1. Len(H) >= room
            <4>. DEFINE h == Len(H)
            <4>1. (room >= 13 => h = 13) /\ (room < 13 => h >= room) /\ h \in Nat
                BY <1>3, <2>1
            <4>. HIDE DEF h
            <4>2. h >= room
                BY <2>4, <4>1
            <4>. QED
                BY <4>2 DEF h
        <3>2. TooLong(H, 0, F, room)
            BY <2>2, <2>4, <3>1 DEF TooLong
        <3>. QED
            BY <3>2 DEF Sofar
    <2>. QED
        BY <2>3, <2>4
<1>. QED
    BY <1>3, <1>5 DEF H, F

(* The text that response_prepare returns without an error.                *)
LEMMA PreparedIs ==
    ASSUME NEW s \in Token, NEW u \in Token, NEW R, NEW recs \in Seq(R),
           \A n \in 1..Len(recs) : PlainRecord(recs[n]), NEW k, WholeRun(k, s, u, recs),
           NEW room \in Nat, NEW res, res.status = <<s>>, res.records = recs,
           res.headers = <<Entry(<<"uri">>, <<u>>)>>, response_prepare(res, room) # CutText
    PROVE  LET text == response_prepare(res, room)
           IN  text \in Text /\ Len(text) < room
               /\ Prepared(text, Len(recs), k, WholeText(k, recs), room)
<1>. DEFINE F == WholeText(k, recs)
            N == Len(recs)
            H == HeadText(res, room)
            T == WithRecords(H, recs, room)
            text == Ended(T, room)
            M == IF recs = <<>> THEN 11 ELSE 13
<1>1. /\ F \in Text /\ N \in Nat /\ Len(F) = IF N = 0 THEN 13 ELSE Len(k[N]) + 2
      /\ \A n \in 0..N : k[n] \in Text /\ Fore(k[n], F) /\ Len(k[n]) \in Nat /\ Len(k[n]) >= 13
      /\ Len(k[0]) = 13 /\ \A i \in 1..13 : F[i] = Opening(s, u)[i]
    <2>1. Wholly(F, k, N, s, u, recs)
        BY WholeFacts
    <2>. HIDE DEF F, N
    <2>. QED
        BY <2>1 DEF Wholly
<1>2. /\ k[0] = Opening(s, u) /\ (recs = <<>> <=> N = 0)
      /\ F = IF recs = <<>> THEN k[0] ELSE Cat(k[N], CRLF)
    BY EmptySeq DEF WholeRun, WholeText
<1>3. /\ H \in Text /\ Len(H) <= M /\ \A i \in 1..Len(H) : H[i] = Opening(s, u)[i]
      /\ room >= M => Len(H) = M
      /\ room < M => Len(H) >= room
    <2>1. Headed(HeadText(res, room), IF res.records = <<>> THEN 11 ELSE 13, s, u, room)
        BY HeadIs
    <2>2. Headed(H, M, s, u, room)
        BY <2>1
    <2>. HIDE DEF H, M
    <2>. QED
        BY <2>2 DEF Headed
<1>4. T \in Text
    <2>. HIDE DEF H
    <2>1. PICK t \in [0..N -> Text] : WithRecords(H, recs, room) = t[N]
        BY <1>3, WithRecordsAre DEF PlainRecord
    <2>2. N \in 0..N
        BY <1>1
    <2>. QED
        BY <2>1, <2>2
<1>5. text \in Text /\ Len(text) \in Nat
    <2>1. text \in Text
        BY <1>4, EndedType
    <2>. QED
        BY <2>1, LenProperties DEF Text
<1>6. response_prepare(res, room) = text /\ Len(text) < room
    <2>1. response_prepare(res, room) = IF Len(text) >= room THEN CutText ELSE text
        BY DEF response_prepare
    <2>. HIDE DEF text
    <2>. QED
        BY <1>5, <2>1
<1>7. room \in Nat \ {0}
    BY <1>5, <1>6
<1>8. text = IF Len(T) < room - 2 THEN Cat(T, CRLF) ELSE T
    BY DEF Ended, Cat
<1>. HIDE DEF F, N, H, T, text
<1>9. CASE recs # <<>>
    <2>1. N # 0 /\ M = 13 /\ 0 \in 0..N /\ N \in 0..N
        BY <1>1, <1>2, <1>9
    <2>3. Sofar(T, N, k, F, room)
        BY <1>7, <1>9, HeadWritten, RecordsWritten DEF H, T, F, N
    <2>4. Len(T) \in Nat
        BY <1>4, LenProperties DEF Text
    <2>5. CASE Entire(T, N, k, room)
        <3>1. T = k[N] /\ Len(k[N]) < room /\ Len(F) = Len(k[N]) + 2 /\ Fore(k[N], F)
              /\ Len(k[N]) \in Nat
            BY <1>1, <2>1, <2>5 DEF Entire
        <3>2. CASE Len(T) < room - 2
            <4>1. text = F
                BY <1>2, <1>8, <1>9, <3>1, <3>2
            <4>2. Len(F) < room
                BY <3>1, <3>2
            <4>. QED
                BY <1>5, <1>6, <4>1, <4>2 DEF Prepared, text, F
        <3>3. CASE ~(Len(T) < room - 2)
            <4>1. text = T
                BY <1>8, <3>3
            <4>2. Len(F) >= room /\ Fore(text, F) /\ Len(text) >= room - 2
                BY <3>1, <3>3, <4>1
            <4>. QED
                BY <1>5, <1>6, <4>2 DEF Prepared, F
        <3>. QED
            BY <3>2, <3>3
    <2>6. CASE Stuffed(T, F, room)
        <3>1. Len(T) = room - 1 /\ Fore(T, F) /\ Len(F) >= room
            BY <2>6 DEF Stuffed
        <3>2. ~(Len(T) < room - 2) /\ Len(T) >= room - 2
            BY <3>1
        <3>3. text = T
            BY <1>8, <3>2
        <3>. QED
            BY <1>5, <1>6, <3>1, <3>2, <3>3 DEF Prepared, F
    <2>7. CASE Endless(T, N, k, F, room)
        <3>1. Len(T) = room - 2 /\ Fore(T, F) /\ Len(k[N]) = room
            BY <2>7 DEF Endless
        <3>2. ~(Len(T) < room - 2) /\ Len(T) >= room - 2 /\ Len(F) >= room
            BY <1>1, <2>1, <3>1
        <3>3. text = T
            BY <1>8, <3>2
        <3>. QED
            BY <1>5, <1>6, <3>1, <3>2, <3>3 DEF Prepared, F
    <2>8. CASE Spoiled(T, N, k, F, room)
        <3>1. Len(T) = room - 1
            BY <2>8 DEF Spoiled
        <3>2. ~(Len(T) < room - 2)
            BY <3>1
        <3>3. text = T
            BY <1>8, <3>2
        <3>. QED
            BY <1>5, <1>6, <2>8, <3>3 DEF Prepared, F, N
    <2>9. ~TooLong(T, N, F, room)
        BY <2>1 DEF TooLong
    <2>. QED
        BY <2>3, <2>5, <2>6, <2>7, <2>8, <2>9 DEF Sofar
<1>10. CASE recs = <<>>
    <2>1. N = 0 /\ M = 11 /\ F = k[0] /\ Len(F) = 13
        BY <1>1, <1>2, <1>10
    <2>2. T = H
        <3>1. PICK t \in [0..Len(recs) -> Text] :
                 WriteRun(t, H, recs, room) /\ WithRecords(H, recs, room) = t[Len(recs)]
            BY <1>3, WithRecordsAre DEF PlainRecord
        <3>2. Len(recs) = 0
            BY <2>1 DEF N
        <3>. QED
            BY <3>1, <3>2 DEF WriteRun, T
    <2>3. Len(H) \in Nat /\ Len(H) <= 11
        BY <1>3, <2>1, LenProperties DEF Text
    <2>4. Len(H) = 11 /\ Len(H) < room
        <3>1. CASE Len(T) < room - 2
            <4>1. ~(room < 11)
                BY <1>3, <2>1, <2>2, <2>3, <3>1
            <4>. QED
                BY <1>3, <2>1, <2>2, <2>3, <3>1, <4>1
        <3>2. CASE ~(Len(T) < room - 2)
            <4>1. text = T
                BY <1>8, <3>2
            <4>2. ~(room < 11)
                BY <1>3, <1>6, <2>1, <2>2, <2>3, <4>1
            <4>. QED
                BY <1>3, <1>6, <2>1, <2>2, <2>3, <4>1, <4>2
        <3>. QED
            BY <3>1, <3>2
    <2>5. Fore(H, F)
        <3>1. \A i \in 1..Len(H) : i \in 1..13
            BY <2>4
        <3>2. Len(H) <= Len(F)
            BY <2>1, <2>4
        <3>. QED
            BY <1>1, <1>3, <3>1, <3>2 DEF Fore
    <2>6. CASE Len(T) < room - 2
        <3>1. text = Cat(H, CRLF)
            BY <1>8, <2>2, <2>6
        <3>2. H \in Seq(Token) /\ CRLF \in Seq(Token) /\ F \in Seq(Token)
            BY <1>1, <1>3, TokenAssumption DEF Text, CRLF
        <3>3. Len(CRLF) = 2 /\ CRLF[1] = CR /\ CRLF[2] = LF
            BY DEF CRLF
        <3>4. F[12] = CR /\ F[13] = LF
            <4>1. Opening(s, u)[12] = CR /\ Opening(s, u)[13] = LF
                BY DEF Opening
            <4>2. 12 \in 1..13 /\ 13 \in 1..13
                OBVIOUS
            <4>. QED
                BY <1>1, <4>1, <4>2
        <3>5. \A i \in 1..Len(CRLF) : F[Len(H) + i] = CRLF[i]
            <4>1. \A i \in 1..2 : i = 1 \/ i = 2
                OBVIOUS
            <4>2. F[11 + 1] = CR /\ F[11 + 2] = LF
                BY <3>4
            <4>. QED
                BY <2>4, <3>3, <4>1, <4>2
        <3>6. Len(F) = Len(H) + Len(CRLF) /\ \A i \in 1..Len(H) : F[i] = H[i]
            BY <2>1, <2>4, <2>5, <3>3 DEF Fore
        <3>7. Cat(H, CRLF) = F
            BY <3>2, <3>5, <3>6, Joined DEF Cat
        <3>8. text = F /\ Len(F) < room
            BY <2>1, <2>2, <2>4, <2>6, <3>1, <3>7
        <3>. QED
            BY <1>5, <1>6, <3>8 DEF Prepared, F
    <2>7. CASE ~(Len(T) < room - 2)
        <3>1. text = H
            BY <1>8, <2>2, <2>7
        <3>2. ~(11 < room - 2)
            BY <2>2, <2>4, <2>7
        <3>3. Len(F) >= room /\ 11 >= room - 2
            BY <2>1, <3>2
        <3>4. Len(text) >= room - 2
            BY <2>4, <3>1, <3>3
        <3>. QED
            BY <1>5, <1>6, <2>5, <3>1, <3>3, <3>4 DEF Prepared, F
    <2>. QED
        BY <2>6, <2>7
<1>. QED
    BY <1>9, <1>10

(* If the buffer has room for it, the whole text is written.               *)
LEMMA WholeIsPrepared ==
    ASSUME NEW s \in Token, NEW u \in Token, NEW R, NEW recs \in Seq(R),
           \A n \in 1..Len(recs) : PlainRecord(recs[n]), NEW k, WholeRun(k, s, u, recs),
           NEW room \in Nat, NEW res, res.status = <<s>>, res.records = recs,
           res.headers = <<Entry(<<"uri">>, <<u>>)>>, Len(WholeText(k, recs)) < room
    PROVE  response_prepare(res, room) # CutText
<1>. DEFINE F == WholeText(k, recs)
            N == Len(recs)
            H == HeadText(res, room)
            T == WithRecords(H, recs, room)
            text == Ended(T, room)
<1>1. /\ F \in Text /\ N \in Nat /\ Len(F) = IF N = 0 THEN 13 ELSE Len(k[N]) + 2
      /\ \A n \in 0..N : Len(k[n]) \in Nat /\ Len(k[n]) >= 13
    <2>1. Wholly(F, k, N, s, u, recs)
        BY WholeFacts
    <2>. HIDE DEF F, N
    <2>. QED
        BY <2>1 DEF Wholly
<1>2. (recs = <<>> <=> N = 0) /\ Len(F) < room
    BY EmptySeq
<1>3. text = IF Len(T) < room - 2 THEN Cat(T, CRLF) ELSE T
    BY DEF Ended, Cat
<1>4. response_prepare(res, room) = IF Len(text) >= room THEN CutText ELSE text
    BY DEF response_prepare
<1>5. CRLF \in Seq(Token) /\ Len(CRLF) = 2
    BY TokenAssumption DEF CRLF
<1>6. Len(CutText) = 1
    BY DEF CutText
<1>. HIDE DEF F, N, H, T, text
<1>7. N \in 0..N /\ Len(F) \in Nat /\ Len(F) >= 13 /\ room \in Nat \ {0}
    <2>1. N \in 0..N
        BY <1>1
    <2>. QED
        BY <1>1, <1>2, <2>1
<1>8. ASSUME T \in Text, Len(T) = Len(F) - 2 PROVE response_prepare(res, room) # CutText
    <2>1. T \in Seq(Token) /\ CRLF \in Seq(Token)
        BY <1>5, <1>8 DEF Text
    <2>2. Len(Cat(T, CRLF)) = Len(T) + Len(CRLF)
        BY <2>1, CatAre
    <2>. DEFINE t == Len(T)
                f == Len(F)
    <2>3. t < room - 2 /\ t + 2 = f /\ f < room /\ f # 1 /\ f \in Nat
        <3>1. f \in Nat /\ f >= 13 /\ f < room /\ t = f - 2
            BY <1>2, <1>7, <1>8
        <3>. HIDE DEF t, f
        <3>. QED
            BY <3>1
    <2>4. text = Cat(T, CRLF)
        BY <1>3, <2>3
    <2>5. Len(text) = f
        BY <1>5, <2>2, <2>3, <2>4
    <2>. HIDE DEF t, f
    <2>6. Len(text) # Len(CutText) /\ ~(Len(text) >= room)
        <3>1. f # 1 /\ ~(f >= room)
            BY <2>3
        <3>. QED
            BY <1>6, <2>5, <3>1
    <2>7. text # CutText
        BY <2>6
    <2>. QED
        BY <1>4, <2>6, <2>7
<1>9. CASE recs # <<>>
    <2>1. H \in Text /\ Sofar(H, 0, k, F, room)
        BY <1>9, HeadWritten DEF H, F
    <2>2. T \in Text /\ Sofar(T, N, k, F, room)
        BY <1>7, <2>1, RecordsWritten DEF T, F, N
    <2>3. N # 0 /\ Len(F) = Len(k[N]) + 2 /\ Len(k[N]) \in Nat
        BY <1>1, <1>2, <1>7, <1>9
    <2>4. ~(Len(F) >= room)
        BY <1>2, <1>7
    <2>5. ~Stuffed(T, F, room)
        BY <2>4 DEF Stuffed
    <2>6. ~Endless(T, N, k, F, room)
        BY <2>3, <2>4 DEF Endless
    <2>7. ~TooLong(T, N, F, room)
        BY <2>3 DEF TooLong
    <2>8. ~Spoiled(T, N, k, F, room)
        <3>1. Wholly(F, k, N, s, u, recs)
            BY WholeFacts DEF F, N
        <3>2. \A n \in 1..N : PlainRecord(recs[n])
            BY DEF N
        <3>3. \A m \in 1..N : m \in 0..N
            OBVIOUS
        <3>4. \A m \in 1..N : Len(k[m]) <= Len(k[N])
            BY <3>1, <3>3 DEF Wholly
        <3>. QED
            BY <1>1, <2>3, <2>4, <3>3, <3>4 DEF Spoiled
    <2>9. Entire(T, N, k, room)
        BY <2>2, <2>5, <2>6, <2>7, <2>8 DEF Sofar
    <2>10. Len(T) = Len(F) - 2
        BY <2>3, <2>9 DEF Entire
    <2>. QED
        BY <1>8, <2>2, <2>10
<1>10. CASE recs = <<>>
    <2>1. N = 0 /\ Len(F) = 13
        BY <1>1, <1>2, <1>10
    <2>2. Headed(HeadText(res, room), 11, s, u, room)
        <3>1. Headed(HeadText(res, room), IF res.records = <<>> THEN 11 ELSE 13, s, u, room)
            BY HeadIs
        <3>. QED
            BY <1>10, <3>1
    <2>3. H \in Text /\ Len(H) = 11
        <3>1. H \in Text /\ (room >= 11 => Len(H) = 11)
            BY <2>2 DEF Headed, H
        <3>. QED
            BY <1>2, <2>1, <3>1
    <2>4. T = H
        <3>1. PICK t \in [0..Len(recs) -> Text] :
                 WriteRun(t, H, recs, room) /\ WithRecords(H, recs, room) = t[Len(recs)]
            BY <2>3, WithRecordsAre DEF PlainRecord
        <3>2. Len(recs) = 0
            BY <2>1 DEF N
        <3>. QED
            BY <3>1, <3>2 DEF WriteRun, T
    <2>. QED
        BY <1>8, <2>1, <2>3, <2>4
<1>. QED
    BY <1>9, <1>10

(* A text that begins like the whole one.                                  *)
LEMMA OpeningBegins ==
    ASSUME NEW text \in Text, NEW s, NEW u,
           \A i \in 1..13 : i <= Len(text) => text[i] = Opening(s, u)[i]
    PROVE  Begins(text, s, u) /\ (Len(text) >= 13 => text[12] = CR /\ text[13] = LF)
<1>. DEFINE o == Opening(s, u)
<1>1. /\ o[1] = s /\ o[2] = SP /\ o[3] = "msg" /\ o[4] = CR /\ o[5] = LF /\ o[6] = "uri"
      /\ o[7] = COLON /\ o[8] = SP /\ o[9] = u /\ o[10] = CR /\ o[11] = LF
      /\ o[12] = CR /\ o[13] = LF
    BY DEF Opening
<1>2. \A i \in 1..11 : i \in 1..13
    OBVIOUS
<1>3. Len(text) \in Nat
    BY LenProperties DEF Text
<1>4. 12 \in 1..13 /\ 13 \in 1..13 /\ (Len(text) >= 13 => 12 <= Len(text) /\ 13 <= Len(text))
    BY <1>3
<1>. HIDE DEF o
<1>5. \A i \in 1..13 : i <= Len(text) => text[i] = o[i]
    BY DEF o
<1>6. Begins(text, s, u)
    BY <1>1, <1>2, <1>5 DEF Begins
<1>. QED
    BY <1>1, <1>4, <1>5, <1>6

(* The record is said up to its end, and the carriage return is there.     *)
LEMMA BlockHere ==
    ASSUME NEW F \in Text, NEW p \in Nat \ {0}, NEW rec, PlainRecord(rec),
           SaidAt(F, p, Block(rec))
    PROVE  LET b == Len(Block(rec)) - 2
           IN  /\ b \in Nat \ {0} /\ F[p + b] = CR
               /\ \A i \in p..(p + b - 1) : F[i] # CR
<1>. DEFINE D == Body(rec)
            b == Len(D)
<1>1. /\ D \in Seq(Token) /\ Block(rec) = Cat(D, CRLF) /\ Len(Block(rec)) = b + 2
      /\ b \in Nat \ {0} /\ CR \notin Range(D)
    BY BlockFacts DEF Text
<1>2. CRLF \in Seq(Token) /\ F \in Seq(Token) /\ D \in Seq(Token)
    BY <1>1, TokenAssumption DEF CRLF, Text
<1>. HIDE DEF D, b
<1>3. SaidAt(F, p, D) /\ SaidAt(F, p + Len(D), CRLF)
    BY <1>1, <1>2, SaidInARow
<1>4. F[p + b] = CR
    <2>. DEFINE q == p + Len(D)
    <2>1. q \in Nat \ {0}
        BY <1>1 DEF b
    <2>2. SaidAt(F, q, <<CR, LF>>)
        BY <1>3 DEF CRLF
    <2>. HIDE DEF q
    <2>3. F[q] = CR
        BY <1>2, <2>1, <2>2, PairSaid
    <2>. QED
        BY <2>3 DEF q, b
<1>5. \A i \in p..(p + b - 1) : F[i] # CR
    <2>1. ASSUME NEW i \in p..(p + b - 1) PROVE F[i] # CR
        <3>. DEFINE n == i - p + 1
        <3>1. n \in 1..b /\ p + n - 1 = i
            BY <1>1
        <3>. HIDE DEF n
        <3>2. F[i] = D[n]
            BY <1>3, <3>1 DEF SaidAt, b
        <3>3. D[n] \in Range(D)
            BY <1>1, <3>1, LenProperties DEF Range, b
        <3>. QED
            BY <1>1, <3>2, <3>3
    <2>. QED
        BY <2>1
<1>6. Len(Block(rec)) - 2 = b
    BY <1>1
<1>. QED
    BY <1>1, <1>4, <1>5, <1>6

(* The text of the first J records, and what is behind them.               *)
UpToRecord(text, k, recs, J) ==
    /\ \A n \in 1..J : SaidAt(text, Len(k[n - 1]) + 1, Block(recs[n]))
    /\ Len(text) < 14 => J = 0
    /\ Len(text) >= 14 =>
         /\ Len(k[J]) <= Len(text) /\ Ending(text, Len(k[J]) + 1)
         /\ SaidAt(text, Len(k[J]) + 1, CRLF) => J # 0

(* What the parser makes of it: the records, or nothing.                   *)
LEMMA UpToRecordIsRead ==
    ASSUME NEW text \in Text, NEW s, Word(s), NEW u, Word(u), Begins(text, s, u),
           Len(text) >= 13 => text[12] = CR /\ text[13] = LF,
           NEW recs, NEW J \in Nat, J <= MaxRecord, NEW k, Len(k[0]) = 13,
           \A n \in 0..J : Len(k[n]) \in Nat,
           \A n \in 1..J : /\ PlainRecord(recs[n]) /\ Len(recs[n]) <= MaxKeyval
                           /\ Len(k[n]) = Len(k[n - 1]) + Len(Block(recs[n])),
           UpToRecord(text, k, recs, J)
    PROVE  LET got == ParseResponse(text)
           IN  /\ got = NoResponse \/ First(got, recs, J)
               /\ Len(text) >= 11 /\ (Len(text) >= 14 => ~Torn(text, Len(k[J]) + 1))
                    => First(got, recs, J)
<1>. DEFINE L == Len(text)
            e == Len(k[J]) + 1
            got == ParseResponse(text)
            hs == <<Header(u)>>
            st == [n \in 1..(J + 1) |-> Len(k[n - 1]) + 1]
<1>1. L \in Nat
    BY LenProperties DEF Text
<1>2. /\ L < 5 => got = NoResponse
      /\ L \in 5..6 => got = Gathered(text, <<>>, <<>>)
      /\ L \in 7..10 => got = NoResponse
      /\ L >= 11 => got = Gathered(text, hs, IF 14 > L THEN <<>> ELSE RecordsFrom(text, 14))
    BY ParseBegins
<1>3. \A n \in 1..J : recs[n] \in Seq(Item) /\ Len(recs[n]) <= MaxKeyval
    BY DEF PlainRecord
<1>4. Last(hs) # Broken
    <2>1. Last(hs) = Header(u)
        BY DEF Last
    <2>2. Header(u).end = 10
        BY DEF Header, Found
    <2>. QED
        BY <2>1, <2>2, EndOfBroken
<1>. HIDE DEF L, got, hs
<1>5. ASSUME J = 0 PROVE First(Gathered(text, <<>>, <<>>), recs, J)
                         /\ First(Gathered(text, hs, <<>>), recs, J)
    <2>1. TellAll(<<>>, recs, 1, J)
        <3>1. Len(<<>>) = J - 1 + 1
            BY <1>5
        <3>2. \A i \in 1..Len(<<>>) : ReadsAs((<<>>)[i], recs[1 + i - 1])
            OBVIOUS
        <3>. QED
            BY <3>1, <3>2 DEF TellAll
    <2>. DEFINE none == <<>>
                V == {0}
    <2>2. none \in Seq(Seq(V)) /\ ~(none # <<>>)
        OBVIOUS
    <2>. HIDE DEF none, V
    <2>3. TellAll(none, recs, 1, J)
        BY <2>1 DEF none
    <2>4. First(Gathered(text, none, none), recs, J)
        BY <1>3, <2>2, <2>3, GatheredWhole
    <2>5. First(Gathered(text, hs, none), recs, J)
        BY <1>3, <1>4, <2>2, <2>3, GatheredWhole
    <2>. QED
        BY <2>4, <2>5 DEF none
<1>6. ASSUME L >= 14
      PROVE  LET rs == RecordsFrom(text, 14)
             IN  /\ Torn(text, e) => Gathered(text, hs, rs) = NoResponse
                 /\ ~Torn(text, e) => First(Gathered(text, hs, rs), recs, J)
    <2>. DEFINE rs == RecordsFrom(text, 14)
    <2>1. st[1] = 14 /\ st[J + 1] = e
        <3>1. 1 \in 1..(J + 1) /\ J + 1 \in 1..(J + 1) /\ (J + 1) - 1 = J /\ 1 - 1 = 0
            OBVIOUS
        <3>2. st[1] = Len(k[1 - 1]) + 1 /\ st[J + 1] = Len(k[(J + 1) - 1]) + 1
            BY <3>1
        <3>. HIDE DEF st
        <3>3. k[1 - 1] = k[0] /\ k[(J + 1) - 1] = k[J]
            BY <3>1
        <3>. DEFINE x == Len(k[0])
        <3>4. x = 13 /\ st[1] = x + 1
            BY <3>2, <3>3
        <3>. HIDE DEF x
        <3>5. st[1] = 14
            BY <3>4
        <3>6. st[J + 1] = e
            BY <3>2, <3>3
        <3>. QED
            BY <3>5, <3>6
    <2>2. RecordsSaid(text, recs, J, st)
        <3>1. ASSUME NEW n \in 1..J
              PROVE  /\ PlainRecord(recs[n]) /\ st[n] \in Nat \ {0}
                     /\ SaidAt(text, st[n], Block(recs[n]))
                     /\ st[n + 1] = st[n] + Len(Block(recs[n]))
            <4>1. n \in 1..(J + 1) /\ n + 1 \in 1..(J + 1) /\ (n + 1) - 1 = n /\ n - 1 \in 0..J
                  /\ n \in 0..J
                OBVIOUS
            <4>2. st[n] = Len(k[n - 1]) + 1 /\ st[n + 1] = Len(k[n]) + 1
                BY <4>1
            <4>3. PlainRecord(recs[n]) /\ SaidAt(text, Len(k[n - 1]) + 1, Block(recs[n]))
                BY DEF UpToRecord
            <4>4. Len(k[n]) = Len(k[n - 1]) + Len(Block(recs[n])) /\ Len(k[n - 1]) \in Nat
                  /\ Len(Block(recs[n])) \in Nat
                <5>1. Block(recs[n]) \in Text
                    BY <4>3, BlockFacts
                <5>2. Len(Block(recs[n])) \in Nat
                    BY <5>1, LenProperties DEF Text
                <5>. QED
                    BY <4>1, <5>2
            <4>. DEFINE x == Len(k[n - 1])
                        y == Len(k[n])
                        b == Len(Block(recs[n]))
            <4>. HIDE DEF st, x, y, b
            <4>5. st[n] \in Nat \ {0} /\ st[n + 1] = st[n] + Len(Block(recs[n]))
                <5>1. st[n] = x + 1 /\ st[n + 1] = y + 1 /\ y = x + b /\ x \in Nat /\ b \in Nat
                    BY <4>2, <4>4 DEF x, y, b
                <5>2. st[n] \in Nat \ {0} /\ st[n + 1] = st[n] + b
                    BY <5>1
                <5>. QED
                    BY <5>2 DEF b
            <4>. QED
                BY <4>2, <4>3, <4>5
        <3>. QED
            BY <3>1 DEF RecordsSaid
    <2>3. e \in 1..(Len(text) + 1) /\ Ending(text, e) /\ (SaidAt(text, e, CRLF) => J # 0)
        <3>1. Len(k[J]) <= Len(text) /\ Ending(text, e) /\ (SaidAt(text, e, CRLF) => J # 0)
            BY <1>6 DEF UpToRecord, L
        <3>2. Len(k[J]) \in Nat
            OBVIOUS
        <3>. QED
            BY <1>1, <3>1, <3>2 DEF L
    <2>. HIDE DEF st, e
    <2>4. /\ rs \in Seq(Seq(Sayings(text)))
          /\ Torn(text, e) => TornAll(rs)
          /\ ~Torn(text, e) => TellAll(rs, recs, 1, J)
        BY <2>1, <2>2, <2>3, RecordsAreRead
    <2>. HIDE DEF rs
    <2>5. ASSUME ~Torn(text, e) PROVE First(Gathered(text, hs, rs), recs, J)
        <3>1. TellAll(rs, recs, 1, J)
            BY <2>4, <2>5
        <3>. QED
            BY <1>3, <1>4, <2>4, <3>1, GatheredWhole
    <2>6. Torn(text, e) => Gathered(text, hs, rs) = NoResponse
        BY <2>4, GatheredTorn
    <2>. QED
        BY <2>5, <2>6 DEF rs
<1>7. CASE L >= 14
    <2>1. L >= 11 /\ ~(14 > L)
        BY <1>1, <1>7
    <2>2. got = Gathered(text, hs, RecordsFrom(text, 14))
        BY <1>2, <2>1
    <2>. QED
        BY <1>6, <1>7, <2>2 DEF got, L, e
<1>8. CASE ~(L >= 14)
    <2>1. J = 0 /\ 14 > L
        BY <1>1, <1>8 DEF UpToRecord, L
    <2>2. L >= 11 => First(got, recs, J)
        BY <1>2, <1>5, <2>1
    <2>3. L < 5 \/ L \in 5..6 \/ L \in 7..10 \/ L >= 11
        BY <1>1
    <2>4. got = NoResponse \/ First(got, recs, J)
        BY <1>2, <1>5, <2>1, <2>2, <2>3
    <2>. QED
        BY <2>2, <2>4 DEF got, L
<1>. QED
    BY <1>7, <1>8

(* How many records are said up to a place.                                *)
LEMMA FarEnough ==
    ASSUME NEW N \in Nat, NEW k, NEW L \in Nat, \A n \in 0..N : Len(k[n]) \in Nat,
           Len(k[0]) <= L
    PROVE  \E J \in 0..N : /\ \A n \in 0..J : Len(k[n]) <= L
                           /\ J = N \/ Len(k[J + 1]) > L
<1>. DEFINE Upto(J) == \A n \in 0..J : Len(k[n]) <= L
            P == {m \in Nat : Upto(m)}
<1>1. 0 \in P
    OBVIOUS
<1>2. CASE \A m \in 0..(N - 1) : m \in P => m + 1 \in P
    <2>. HIDE DEF P
    <2>1. N \in P
        <3>1. \A n \in 0..N : n \in P
            BY <1>1, <1>2, UpTo
        <3>. QED
            BY <3>1
    <2>2. Upto(N)
        BY <2>1 DEF P
    <2>. QED
        BY <2>2
<1>3. CASE \E m \in 0..(N - 1) : m \in P /\ m + 1 \notin P
    <2>1. PICK m \in 0..(N - 1) : m \in P /\ m + 1 \notin P
        BY <1>3
    <2>2. m \in 0..N /\ Upto(m) /\ ~Upto(m + 1) /\ m + 1 \in 0..N
        BY <2>1
    <2>3. PICK n \in 0..(m + 1) : ~(Len(k[n]) <= L)
        BY <2>2
    <2>4. n \in 0..m \/ n = m + 1
        BY <2>1
    <2>5. n = m + 1
        BY <2>2, <2>3, <2>4
    <2>6. Len(k[m + 1]) \in Nat
        BY <2>2
    <2>7. Len(k[m + 1]) > L
        BY <2>3, <2>5, <2>6
    <2>. QED
        BY <2>2, <2>7
<1>. QED
    BY <1>2, <1>3

(* A text that ends in the middle of a record.                             *)
LEMMA TornHere ==
    ASSUME NEW text \in Text, NEW e \in Nat \ {0}, NEW b \in Nat \ {0}, e < Len(text),
           Len(text) <= e + b, \A i \in e..(Len(text) - 1) : text[i] # CR
    PROVE  Torn(text, e) /\ ~SaidAt(text, e, CRLF)
<1>. DEFINE L == Len(text)
<1>1. L \in Nat /\ text \in Seq(Token)
    BY LenProperties DEF Text
<1>2. strchr(text, e, CR) \in {0, L}
    <2>1. CASE text[L] = CR
        <3>1. L \in e..Len(text)
            BY <1>1
        <3>2. strchr(text, e, CR) = L
            BY <1>1, <2>1, <3>1, FirstFrom
        <3>. QED
            BY <3>2
    <2>2. CASE text[L] # CR
        <3>1. \A i \in e..L : i \in e..(L - 1) \/ i = L
            BY <1>1
        <3>2. \A i \in e..Len(text) : text[i] # CR
            BY <2>2, <3>1
        <3>3. strchr(text, e, CR) = 0
            BY <1>1, <3>2, NoneFrom
        <3>. QED
            BY <3>3
    <2>. QED
        BY <2>1, <2>2
<1>3. text[e] # CR
    <2>1. e \in e..(L - 1)
        BY <1>1
    <2>. QED
        BY <2>1
<1>4. SaidAt(text, e, <<CR, LF>>) => text[e] = CR
    BY <1>1, PairSaid
<1>. QED
    BY <1>2, <1>3, <1>4 DEF Torn, CRLF

(* The records that a text has that was cut.                               *)
LEMMA CutIsUpTo ==
    ASSUME NEW s, NEW u, NEW N \in Nat, NEW recs, \A n \in 1..N : PlainRecord(recs[n]),
           NEW k, NEW F, Wholly(F, k, N, s, u, recs),
           NEW text \in Text, Fore(text, F), Len(text) < Len(F)
    PROVE  \E J \in 0..N : UpToRecord(text, k, recs, J)
<1>. DEFINE L == Len(text)
<1>1. L \in Nat /\ text \in Seq(Token)
    BY LenProperties DEF Text
<1>2. /\ F \in Text /\ Len(F) = IF N = 0 THEN 13 ELSE Len(k[N]) + 2
      /\ \A n \in 0..N : k[n] \in Text /\ Len(k[n]) \in Nat /\ Len(k[n]) >= 13
      /\ Len(k[0]) = 13
      /\ \A n \in 1..N : /\ Len(k[n]) = Len(k[n - 1]) + Len(Block(recs[n]))
                         /\ SaidAt(F, Len(k[n - 1]) + 1, Block(recs[n]))
    BY DEF Wholly
<1>. HIDE DEF L
<1>3. CASE L < 14
    <2>1. UpToRecord(text, k, recs, 0)
        BY <1>1, <1>3 DEF UpToRecord, L
    <2>. QED
        BY <2>1
<1>4. CASE L >= 14
    <2>1. Len(k[0]) <= L
        BY <1>1, <1>2, <1>4
    <2>2. PICK J \in 0..N : /\ \A n \in 0..J : Len(k[n]) <= L
                            /\ J = N \/ Len(k[J + 1]) > L
        BY <1>1, <1>2, <2>1, FarEnough
    <2>3. ASSUME NEW n \in 1..J PROVE SaidAt(text, Len(k[n - 1]) + 1, Block(recs[n]))
        <3>1. n \in 1..N /\ n \in 0..J /\ n - 1 \in 0..N /\ n \in 0..N
            BY <2>2
        <3>2. PlainRecord(recs[n])
            BY <3>1
        <3>3. Block(recs[n]) \in Seq(Token)
            BY <3>2, BlockFacts DEF Text
        <3>. DEFINE p == Len(k[n - 1]) + 1
                    w == Block(recs[n])
                    x == Len(k[n - 1])
                    y == Len(k[n])
                    b == Len(w)
        <3>4. y = x + b /\ x \in Nat /\ y <= L /\ b \in Nat /\ SaidAt(F, p, w) /\ w \in Seq(Token)
            <4>1. b \in Nat
                BY <3>3, LenProperties
            <4>. QED
                BY <1>2, <2>2, <3>1, <3>3, <4>1
        <3>5. p = x + 1
            OBVIOUS
        <3>. HIDE DEF x, y, b, p, w
        <3>6. p \in Nat \ {0} /\ p + Len(w) - 1 <= Len(text)
            BY <3>4, <3>5 DEF b, L
        <3>7. text \in Seq(Token) /\ F \in Seq(Token)
            BY <1>1, <1>2 DEF Text
        <3>8. SaidAt(text, p, w)
            BY <3>4, <3>6, <3>7, SaidInFore
        <3>. QED
            BY <3>8 DEF p, w
    <2>. DEFINE e == Len(k[J]) + 1
    <2>4. Len(k[J]) <= L /\ Len(k[J]) \in Nat
        BY <1>2, <2>2
    <2>5. e \in Nat \ {0} /\ e <= L + 1
        BY <1>1, <2>4
    <2>6. Ending(text, e) /\ ~SaidAt(text, e, CRLF)
        <3>1. CASE e >= L
            <4>1. Ending(text, e)
                BY <3>1 DEF Ending, L
            <4>2. ~SaidAt(text, e, CRLF)
                <5>1. SaidAt(text, e, <<CR, LF>>) => e + 1 <= Len(text)
                    BY <1>1, <2>5, PairSaid
                <5>2. ~(e + 1 <= L)
                    BY <1>1, <2>5, <3>1
                <5>. QED
                    BY <5>1, <5>2 DEF CRLF, L
            <4>. QED
                BY <4>1, <4>2
        <3>2. CASE ~(e >= L)
            <4>1. J # N
                <5>1. SUFFICES ASSUME J = N PROVE FALSE
                    OBVIOUS
                <5>2. N = 0 => FALSE
                    BY <1>1, <1>2, <1>4, <5>1 DEF L
                <5>3. Len(F) = Len(k[J]) + 2
                    BY <1>2, <5>1, <5>2
                <5>4. L < Len(F)
                    BY DEF L
                <5>5. L < e + 1
                    BY <2>4, <5>3, <5>4
                <5>. QED
                    BY <1>1, <2>5, <3>2, <5>5
            <4>2. J + 1 \in 1..N /\ (J + 1) - 1 = J
                BY <2>2, <4>1
            <4>. DEFINE rec == recs[J + 1]
                        b == Len(Block(rec)) - 2
            <4>3. PlainRecord(rec) /\ Len(k[J + 1]) = Len(k[J]) + Len(Block(rec))
                  /\ SaidAt(F, e, Block(rec))
                BY <1>2, <4>2
            <4>4. b \in Nat \ {0} /\ \A i \in e..(e + b - 1) : F[i] # CR
                BY <1>2, <2>5, <4>3, BlockHere
            <4>5. Len(Block(rec)) \in Nat
                <5>1. Block(rec) \in Text
                    BY <4>3, BlockFacts
                <5>. QED
                    BY <5>1, LenProperties DEF Text
            <4>6. Len(k[J + 1]) > L
                BY <2>2, <4>1
            <4>7. L <= e + b
                <5>. DEFINE x == Len(k[J])
                            y == Len(k[J + 1])
                            c == Len(Block(rec))
                <5>1. y = x + c /\ e = x + 1 /\ b = c - 2 /\ y > L /\ x \in Nat /\ c \in Nat
                    BY <2>4, <4>3, <4>5, <4>6
                <5>. HIDE DEF x, y, c, e, b
                <5>. QED
                    BY <1>1, <5>1
            <4>. HIDE DEF rec, b, e
            <4>8. ASSUME NEW i \in e..(L - 1) PROVE text[i] # CR
                <5>1. i \in 1..L /\ i \in e..(e + b - 1)
                    BY <1>1, <2>5, <4>4, <4>7
                <5>2. text[i] = F[i]
                    BY <5>1 DEF Fore, L
                <5>. QED
                    BY <4>4, <5>1, <5>2
            <4>9. e < Len(text) /\ Len(text) <= e + b /\ \A i \in e..(Len(text) - 1) : text[i] # CR
                BY <1>1, <2>5, <3>2, <4>7, <4>8 DEF L
            <4>10. Torn(text, e) /\ ~SaidAt(text, e, CRLF)
                BY <2>5, <4>4, <4>9, TornHere
            <4>. QED
                BY <4>10 DEF Ending
        <3>. QED
            BY <3>1, <3>2
    <2>7. UpToRecord(text, k, recs, J)
        BY <1>1, <1>4, <2>3, <2>4, <2>6 DEF UpToRecord, L
    <2>. QED
        BY <2>7
<1>. QED
    BY <1>1, <1>3, <1>4

(* The whole text.                                                         *)
LEMMA WholeIsUpTo ==
    ASSUME NEW s, NEW u, NEW N \in Nat, NEW recs, NEW k, NEW F, Wholly(F, k, N, s, u, recs)
    PROVE  /\ UpToRecord(F, k, recs, N) /\ Len(F) >= 11
           /\ Len(F) >= 14 => ~Torn(F, Len(k[N]) + 1)
<1>. DEFINE L == Len(F)
            e == Len(k[N]) + 1
<1>1. /\ F \in Seq(Token) /\ L = IF N = 0 THEN 13 ELSE Len(k[N]) + 2
      /\ Len(k[N]) \in Nat /\ Len(k[N]) >= 13
      /\ \A n \in 1..N : SaidAt(F, Len(k[n - 1]) + 1, Block(recs[n]))
      /\ N # 0 => SaidAt(F, e, CRLF)
    <2>1. N \in 0..N
        OBVIOUS
    <2>. QED
        BY <2>1 DEF Wholly, Text
<1>2. L \in Nat
    BY <1>1, LenProperties
<1>3. e \in Nat \ {0}
    BY <1>1
<1>. HIDE DEF L, e
<1>4. CASE N = 0
    <2>1. L = 13
        BY <1>1, <1>4
    <2>2. UpToRecord(F, k, recs, N)
        BY <1>1, <1>4, <2>1 DEF UpToRecord, L
    <2>. QED
        BY <2>1, <2>2 DEF L
<1>5. CASE N # 0
    <2>1. L = e + 1 /\ L >= 14 /\ Len(k[N]) <= L
        BY <1>1, <1>5 DEF e
    <2>2. SaidAt(F, e, <<CR, LF>>)
        BY <1>1, <1>5 DEF CRLF
    <2>3. F[e] = CR
        BY <1>1, <1>3, <2>2, PairSaid
    <2>4. e \in 1..Len(F)
        BY <1>3, <2>1 DEF L
    <2>5. strchr(F, e, CR) = e
        BY <1>1, <2>3, <2>4, FirstHere
    <2>6. ~Torn(F, e)
        BY <1>3, <2>1, <2>5 DEF Torn, L
    <2>7. Ending(F, e)
        BY <1>1, <1>5 DEF Ending
    <2>8. UpToRecord(F, k, recs, N)
        BY <1>1, <1>2, <1>5, <2>1, <2>7 DEF UpToRecord, L, e
    <2>. QED
        BY <2>1, <2>6, <2>8 DEF L, e
<1>. QED
    BY <1>4, <1>5

(* A text that was spoiled: the record that was to end there does not.     *)
LEMMA SpoiledIsUpTo ==
    ASSUME NEW s, NEW u, NEW N \in Nat, NEW recs, \A n \in 1..N : PlainRecord(recs[n]),
           NEW k, NEW F, Wholly(F, k, N, s, u, recs), NEW room \in Nat,
           NEW text \in Text, Spoiled(text, N, k, F, room)
    PROVE  /\ \E J \in 0..N : UpToRecord(text, k, recs, J)
           /\ \A i \in 1..13 : i <= Len(text) => text[i] = F[i]
           /\ Len(F) >= room
<1>. DEFINE L == Len(text)
<1>1. L \in Nat /\ text \in Seq(Token)
    BY LenProperties DEF Text
<1>2. /\ F \in Text /\ Len(F) = IF N = 0 THEN 13 ELSE Len(k[N]) + 2
      /\ \A n \in 0..N : k[n] \in Text /\ Len(k[n]) \in Nat /\ Len(k[n]) >= 13
                         /\ Len(k[n]) <= Len(k[N])
      /\ \A n \in 0..N : \A j \in 0..n : Len(k[j]) <= Len(k[n])
      /\ \A n \in 1..N : /\ Len(k[n]) = Len(k[n - 1]) + Len(Block(recs[n]))
                         /\ SaidAt(F, Len(k[n - 1]) + 1, Block(recs[n]))
    BY DEF Wholly
<1>3. PICK m \in 1..N : /\ Len(k[m]) = room /\ L = room - 1 /\ text[room - 1] # CR
                        /\ \A i \in 1..(room - 2) : text[i] = F[i]
    BY DEF Spoiled
<1>. HIDE DEF L
<1>. DEFINE J == m - 1
            e == Len(k[J]) + 1
            rec == recs[m]
            b == Len(Block(rec)) - 2
<1>4. J \in 0..N /\ m \in 0..N /\ J \in 0..m /\ N # 0
    BY <1>3
<1>5. PlainRecord(rec) /\ SaidAt(F, e, Block(rec)) /\ Len(k[m]) = Len(k[J]) + Len(Block(rec))
      /\ Len(k[J]) \in Nat /\ Len(k[J]) >= 13
    BY <1>2, <1>3, <1>4
<1>6. e \in Nat \ {0} /\ e >= 14
    BY <1>5
<1>7. b \in Nat \ {0} /\ \A i \in e..(e + b - 1) : F[i] # CR
    BY <1>2, <1>5, <1>6, BlockHere
<1>8. Len(Block(rec)) \in Nat
    <2>1. Block(rec) \in Text
        BY <1>5, BlockFacts
    <2>. QED
        BY <2>1, LenProperties DEF Text
<1>9. room = e + b + 1 /\ Len(k[J]) = e - 1
    <2>. DEFINE x == Len(k[J])
                c == Len(Block(rec))
    <2>1. room = x + c /\ e = x + 1 /\ b = c - 2 /\ x \in Nat /\ c \in Nat
        BY <1>3, <1>5, <1>8
    <2>. HIDE DEF x, c, e, b
    <2>2. room = e + b + 1 /\ x = e - 1
        BY <2>1
    <2>. QED
        BY <2>2 DEF x
<1>. HIDE DEF e, b, rec
<1>10. L = e + b /\ L >= 15 /\ e < L /\ room - 2 >= 13
    BY <1>3, <1>6, <1>7, <1>9
<1>11. ASSUME NEW i \in e..(Len(text) - 1) PROVE text[i] # CR
    <2>1. i \in 1..(room - 2) /\ i \in e..(e + b - 1)
        BY <1>6, <1>7, <1>9, <1>10 DEF L
    <2>. QED
        BY <1>3, <1>7, <2>1
<1>12. Torn(text, e) /\ ~SaidAt(text, e, CRLF)
    <2>1. e < Len(text) /\ Len(text) <= e + b
        BY <1>6, <1>7, <1>10 DEF L
    <2>. QED
        BY <1>6, <1>7, <1>11, <2>1, TornHere
<1>13. ASSUME NEW n \in 1..J PROVE SaidAt(text, Len(k[n - 1]) + 1, Block(recs[n]))
    <2>1. n \in 1..N /\ n \in 0..J /\ n - 1 \in 0..N /\ n \in 0..N
        BY <1>4
    <2>2. Block(recs[n]) \in Seq(Token)
        BY <2>1, BlockFacts DEF Text
    <2>. DEFINE w == Block(recs[n])
                x == Len(k[n - 1])
                y == Len(k[n])
                c == Len(w)
    <2>3. y = x + c /\ x \in Nat /\ y <= Len(k[J]) /\ c \in Nat /\ SaidAt(F, x + 1, w)
        <3>1. c \in Nat
            BY <2>2, LenProperties
        <3>2. y <= Len(k[J])
            BY <1>2, <1>4, <2>1
        <3>3. y = x + c /\ x \in Nat /\ SaidAt(F, x + 1, w)
            BY <1>2, <2>1
        <3>. QED
            BY <3>1, <3>2, <3>3
    <2>. HIDE DEF x, y, c, w, J
    <2>4. y <= room - 2 /\ y <= L
        BY <1>5, <1>6, <1>7, <1>9, <1>10, <2>3
    <2>5. \A i \in 1..Len(w) : x + 1 + i - 1 \in 1..(room - 2)
        BY <1>6, <1>7, <1>9, <2>3, <2>4 DEF c
    <2>6. \A i \in 1..Len(w) : text[x + 1 + i - 1] = w[i]
        BY <1>3, <2>3, <2>5 DEF SaidAt
    <2>7. x + 1 + Len(w) - 1 <= Len(text)
        BY <1>1, <2>3, <2>4 DEF c, L
    <2>8. SaidAt(text, x + 1, w)
        BY <2>6, <2>7 DEF SaidAt
    <2>. QED
        BY <2>8 DEF x, w
<1>14. UpToRecord(text, k, recs, J)
    <2>1. Len(k[J]) <= L /\ ~(L < 14) /\ L >= 14
        BY <1>5, <1>6, <1>7, <1>9, <1>10
    <2>2. Ending(text, Len(k[J]) + 1) /\ ~SaidAt(text, Len(k[J]) + 1, CRLF)
        BY <1>12 DEF Ending, e
    <2>. QED
        BY <1>13, <2>1, <2>2 DEF UpToRecord, L
<1>15. \A i \in 1..13 : text[i] = F[i]
    <2>1. \A i \in 1..13 : i \in 1..(room - 2)
        BY <1>10
    <2>. QED
        BY <1>3, <2>1
<1>16. Len(F) >= room
    <2>. DEFINE x == Len(k[m])
                y == Len(k[N])
    <2>1. x = room /\ x <= y /\ y \in Nat /\ Len(F) = y + 2
        BY <1>2, <1>3, <1>4
    <2>. HIDE DEF x, y
    <2>. QED
        BY <2>1
<1>. QED
    BY <1>4, <1>14, <1>15, <1>16

(* What the reader makes of the text that response_prepare wrote.          *)
LEMMA PreparedIsRead ==
    ASSUME NEW s \in Token, Word(s), NEW u \in Token, Word(u), NEW R, NEW recs \in Seq(R),
           Len(recs) <= MaxRecord,
           \A n \in 1..Len(recs) : PlainRecord(recs[n]) /\ Len(recs[n]) <= MaxKeyval,
           NEW k, WholeRun(k, s, u, recs), NEW room \in Nat, NEW text \in Text, Len(text) < room,
           Prepared(text, Len(recs), k, WholeText(k, recs), room)
    PROVE  LET got == ParseResponse(text)
           IN  /\ got = NoResponse \/ \E J \in 0..Len(recs) : First(got, recs, J)
               /\ Len(WholeText(k, recs)) < room => First(got, recs, Len(recs))
<1>. DEFINE F == WholeText(k, recs)
            N == Len(recs)
            got == ParseResponse(text)
<1>1. Wholly(F, k, N, s, u, recs)
    BY WholeFacts
<1>2. Len(text) \in Nat /\ N \in Nat /\ N <= MaxRecord
    BY LenProperties DEF Text
<1>3. \A n \in 1..N : PlainRecord(recs[n]) /\ Len(recs[n]) <= MaxKeyval
    OBVIOUS
<1>4. Prepared(text, N, k, F, room)
    OBVIOUS
<1>. HIDE DEF F, N
<1>5. /\ F \in Text /\ Len(k[0]) = 13 /\ \A n \in 0..N : Len(k[n]) \in Nat
      /\ \A n \in 1..N : Len(k[n]) = Len(k[n - 1]) + Len(Block(recs[n]))
      /\ \A i \in 1..13 : F[i] = Opening(s, u)[i]
      /\ Len(F) = IF N = 0 THEN 13 ELSE Len(k[N]) + 2
    BY <1>1 DEF Wholly
<1>6. Len(F) \in Nat
    BY <1>5, LenProperties DEF Text
<1>7. ASSUME NEW J \in 0..N, UpToRecord(text, k, recs, J),
             \A i \in 1..13 : i <= Len(text) => text[i] = F[i]
      PROVE  /\ got = NoResponse \/ First(got, recs, J)
             /\ Len(text) >= 11 /\ (Len(text) >= 14 => ~Torn(text, Len(k[J]) + 1))
                  => First(got, recs, J)
    <2>1. J \in Nat /\ J <= MaxRecord /\ (\A n \in 0..J : n \in 0..N) /\ \A n \in 1..J : n \in 1..N
        BY <1>2, TableAssumption
    <2>2. \A i \in 1..13 : i <= Len(text) => text[i] = Opening(s, u)[i]
        BY <1>5, <1>7
    <2>3. Begins(text, s, u) /\ (Len(text) >= 13 => text[12] = CR /\ text[13] = LF)
        BY <2>2, OpeningBegins
    <2>4. \A n \in 0..J : Len(k[n]) \in Nat
        BY <1>5, <2>1
    <2>5. \A n \in 1..J : /\ PlainRecord(recs[n]) /\ Len(recs[n]) <= MaxKeyval
                          /\ Len(k[n]) = Len(k[n - 1]) + Len(Block(recs[n]))
        BY <1>3, <1>5, <2>1
    <2>. QED
        BY <1>5, <1>7, <2>1, <2>3, <2>4, <2>5, UpToRecordIsRead
<1>8. CASE text = F /\ Len(F) < room
    <2>1. UpToRecord(F, k, recs, N) /\ Len(F) >= 11 /\ (Len(F) >= 14 => ~Torn(F, Len(k[N]) + 1))
        BY <1>1, <1>2, WholeIsUpTo
    <2>2. N \in 0..N /\ \A i \in 1..13 : i <= Len(text) => text[i] = F[i]
        BY <1>2, <1>8
    <2>3. First(got, recs, N)
        BY <1>7, <1>8, <2>1, <2>2
    <2>. QED
        BY <2>2, <2>3 DEF N
<1>9. CASE Len(F) >= room /\ Fore(text, F)
    <2>1. Len(text) < Len(F) /\ ~(Len(F) < room)
        BY <1>2, <1>6, <1>9
    <2>2. PICK J \in 0..N : UpToRecord(text, k, recs, J)
        BY <1>1, <1>2, <1>3, <1>9, <2>1, CutIsUpTo
    <2>3. \A i \in 1..13 : i <= Len(text) => text[i] = F[i]
        <3>1. \A i \in 1..13 : i <= Len(text) => i \in 1..Len(text)
            BY <1>2
        <3>. QED
            BY <1>9, <3>1 DEF Fore
    <2>4. got = NoResponse \/ First(got, recs, J)
        BY <1>7, <2>2, <2>3
    <2>. QED
        BY <2>1, <2>4 DEF F, N
<1>10. CASE Spoiled(text, N, k, F, room)
    <2>1. /\ \E J \in 0..N : UpToRecord(text, k, recs, J)
          /\ \A i \in 1..13 : i <= Len(text) => text[i] = F[i]
          /\ Len(F) >= room
        BY <1>1, <1>2, <1>3, <1>10, SpoiledIsUpTo
    <2>2. PICK J \in 0..N : UpToRecord(text, k, recs, J)
        BY <2>1
    <2>3. got = NoResponse \/ First(got, recs, J)
        BY <1>7, <2>1, <2>2
    <2>4. ~(Len(F) < room)
        BY <1>6, <2>1
    <2>. QED
        BY <2>3, <2>4 DEF F, N
<1>. QED
    BY <1>4, <1>8, <1>9, <1>10 DEF Prepared

(* The records that are to be told, and one of them as it is pushed.       *)
Plainly == {v \in Value : Range(v) \cap {CR, LF} = {}}
Rows == {Row(p[1], p[2]) : p \in (1..(MaxKeyval + 1)) \X Plainly}

(* The key of so many letters is a text.                                   *)
LEMMA KeyLength ==
    ASSUME NEW n \in Nat
    PROVE  LET w == [l \in 1..n |-> "k"]
           IN  w \in Text /\ Len(w) = n /\ Range(w) \subseteq {"k"}
<1>. DEFINE w == [l \in 1..n |-> "k"]
<1>1. w \in [1..n -> Token] /\ \A l \in DOMAIN w : w[l] = "k"
    BY WordAssumption
<1>2. Range(w) \subseteq {"k"}
    BY <1>1 DEF Range
<1>. HIDE DEF w
<1>3. w \in Seq(Token) /\ Len(w) = n
    BY <1>1, AsSeq
<1>. QED
    BY <1>2, <1>3 DEF Text, w

(* The rows that are told: plain keyvals, each with a key of its own       *)
(* length.                                                                 *)
LEMMA RowFacts ==
    ASSUME NEW n \in 1..(MaxKeyval + 1), NEW v \in Plainly
    PROVE  /\ Row(n, v) \in Seq(Item) /\ Len(Row(n, v)) = n /\ n \in Nat \ {0}
           /\ \A i \in 1..n : Plain(Row(n, v)[i]) /\ Len(Row(n, v)[i].key) = i
<1>. DEFINE row == Row(n, v)
            e(i) == Entry([l \in 1..i |-> "k"], v)
<1>1. n \in Nat \ {0} /\ MaxKeyval \in Nat
    BY TableAssumption
<1>2. v \in Text /\ CR \notin Range(v) /\ LF \notin Range(v)
    BY ValueAssumption DEF Plainly
<1>3. ASSUME NEW i \in 1..n PROVE Plain(e(i)) /\ e(i) \in Item /\ Len(e(i).key) = i
    <2>. DEFINE w == [l \in 1..i |-> "k"]
    <2>1. w \in Text /\ Len(w) = i /\ Range(w) \subseteq {"k"}
        <3>1. i \in Nat
            OBVIOUS
        <3>. QED
            BY <3>1, KeyLength
    <2>2. e(i) = [key |-> w, val |-> v]
        BY DEF Entry
    <2>. HIDE DEF w, e
    <2>3. e(i) \in Item /\ e(i).key = w /\ e(i).val = v
        BY <1>2, <2>1, <2>2 DEF Item
    <2>4. EQ \notin Range(w) /\ CR \notin Range(w)
        BY <2>1 DEF EQ, CR
    <2>. QED
        BY <1>2, <2>1, <2>3, <2>4 DEF Plain
<1>4. row \in [1..n -> Item] /\ \A i \in 1..n : row[i] = e(i)
    <2>1. row = [i \in 1..n |-> e(i)]
        BY DEF Row
    <2>. HIDE DEF e, row
    <2>. QED
        BY <1>3, <2>1
<1>. HIDE DEF row, e
<1>5. row \in Seq(Item) /\ Len(row) = n
    BY <1>1, <1>4, AsSeq
<1>. QED
    BY <1>1, <1>3, <1>4, <1>5 DEF row

(* What is pushed of a row: as many of its keyvals as a record holds.      *)
Pushed(row) == Cut(row, MaxKeyval)

(* What is pushed of a row can be told from its text, and its keys         *)
(* differ.                                                                 *)
LEMMA PushedRow ==
    ASSUME NEW row \in Rows
    PROVE  /\ PushAll(<<>>, row) = Pushed(row)
           /\ PlainRecord(Pushed(row)) /\ Len(Pushed(row)) <= MaxKeyval
           /\ Pushed(row) \in Seq(Item) /\ Distinct(Pushed(row))
<1>. DEFINE a == PushAll(<<>>, row)
            c == Pushed(row)
            E == {Entry(row[i].key, row[i].val) : i \in 1..Len(row)}
<1>1. PICK n \in 1..(MaxKeyval + 1), v \in Plainly : row = Row(n, v)
    BY DEF Rows
<1>2. /\ row \in Seq(Item) /\ Len(row) = n /\ n \in Nat \ {0} /\ MaxKeyval \in Nat \ {0}
      /\ \A i \in 1..n : Plain(row[i]) /\ Len(row[i].key) = i
    BY <1>1, RowFacts, TableAssumption
<1>3. a \in Seq(E) /\ FirstKeyvals(a, row)
    BY <1>2, PushedFacts
<1>4. /\ c \in Seq(Item) /\ Len(c) = IF MaxKeyval <= Len(row) THEN MaxKeyval ELSE Len(row)
      /\ \A i \in 1..Len(c) : c[i] = row[i]
    BY <1>2, CutIs DEF Pushed
<1>. HIDE DEF a, c, E
<1>5. Len(c) \in 1..n /\ Len(c) <= MaxKeyval /\ \A i \in 1..Len(c) : i \in 1..n
    BY <1>2, <1>4
<1>6. a = c
    <2>1. Len(a) = Len(c)
        BY <1>2, <1>3, <1>4 DEF FirstKeyvals
    <2>2. ASSUME NEW i \in 1..Len(a) PROVE a[i] = c[i]
        <3>1. a[i] = Entry(row[i].key, row[i].val) /\ c[i] = row[i] /\ i \in 1..n
            BY <1>3, <1>4, <1>5, <2>1 DEF FirstKeyvals
        <3>2. row[i] \in Item
            BY <1>2, <3>1 DEF Plain
        <3>. QED
            BY <3>1, <3>2 DEF Item, Entry
    <2>3. a \in Seq(E \cup Item) /\ c \in Seq(E \cup Item)
        BY <1>3, <1>4
    <2>. QED
        BY <2>1, <2>2, <2>3, SeqEqual
<1>7. PlainRecord(c)
    <2>1. c # <<>>
        <3>1. Len(c) # 0
            BY <1>5
        <3>. QED
            BY <3>1, EmptySeq
    <2>2. \A i \in 1..Len(c) : Plain(c[i])
        BY <1>2, <1>4, <1>5
    <2>. QED
        BY <1>4, <2>1, <2>2 DEF PlainRecord
<1>8. Distinct(c)
    <2>1. ASSUME NEW i \in 1..Len(c), NEW j \in 1..Len(c), c[i].key = c[j].key PROVE i = j
        <3>1. i \in 1..n /\ j \in 1..n
            BY <1>5
        <3>2. Len(row[i].key) = i /\ Len(row[j].key) = j /\ row[i].key = row[j].key
            BY <1>2, <1>4, <2>1, <3>1
        <3>3. Len(row[i].key) = Len(row[j].key)
            BY <3>2
        <3>. QED
            BY <3>2, <3>3
    <2>. QED
        BY <2>1 DEF Distinct
<1>. QED
    BY <1>4, <1>5, <1>6, <1>7, <1>8 DEF a, c

(* The records of a response: the first of the rows, as many as there is   *)
(* room for.                                                               *)
FirstRows(records, told) ==
    /\ told \in Seq(Rows) /\ records \in Seq(Seq(Item))
    /\ Len(records) = IF Len(told) <= MaxRecord THEN Len(told) ELSE MaxRecord
    /\ \A n \in 1..Len(records) : records[n] = Pushed(told[n])

Replied(res, records) ==
    res = [ok |-> TRUE, status |-> <<"200">>, headers |-> <<Entry(<<"uri">>, <<"/uri">>)>>,
           records |-> records]

(* The invariant of the response: the status and the header stay as they   *)
(* were, and the records are the first of those that were to be told.      *)
ResponseInv == Replied(response, response.records) /\ FirstRows(response.records, rows)

(* The fields of a response, and one whose records are replaced.           *)
LEMMA RecordsReplaced ==
    ASSUME NEW c, NEW a, NEW b, NEW r, NEW res,
           res = [ok |-> c, status |-> a, headers |-> b, records |-> r]
    PROVE  /\ res.ok = c /\ res.status = a /\ res.headers = b /\ res.records = r
           /\ \A x : [res EXCEPT !.records = x]
                      = [ok |-> c, status |-> a, headers |-> b, records |-> x]
OBVIOUS

(* The fields of a response that has kept its status and its header.       *)
LEMMA RepliedFields ==
    ASSUME NEW res, NEW records, Replied(res, records)
    PROVE  /\ res.ok /\ res.status = <<"200">> /\ res.headers = <<Entry(<<"uri">>, <<"/uri">>)>>
           /\ res.records = records
           /\ \A x : Replied([res EXCEPT !.records = x], x)
<1>. DEFINE c == TRUE
            a == <<"200">>
            b == <<Entry(<<"uri">>, <<"/uri">>)>>
<1>1. res = [ok |-> c, status |-> a, headers |-> b, records |-> records]
    BY DEF Replied
<1>2. /\ res.ok = c /\ res.status = a /\ res.headers = b /\ res.records = records
      /\ \A x : [res EXCEPT !.records = x] = [ok |-> c, status |-> a, headers |-> b, records |-> x]
    <2>. HIDE DEF a, b, c
    <2>. QED
        BY <1>1, RecordsReplaced
<1>3. ASSUME NEW x PROVE Replied([res EXCEPT !.records = x], x)
    BY <1>2 DEF Replied
<1>. QED
    BY <1>2, <1>3

(* One more record leaves the first of those that were to be told.         *)
LEMMA RecordPushed ==
    ASSUME NEW records, NEW told, FirstRows(records, told), NEW row \in Rows
    PROVE  FirstRows(IF Len(records) >= MaxRecord THEN records
                     ELSE Append(records, PushAll(<<>>, row)),
                     Append(told, row))
<1>. DEFINE c == Pushed(row)
            L == Len(records)
            M == Len(told)
            w == Append(told, row)
<1>1. /\ told \in Seq(Rows) /\ records \in Seq(Seq(Item)) /\ L = IF M <= MaxRecord THEN M ELSE MaxRecord
      /\ \A n \in 1..L : records[n] = Pushed(told[n])
    BY DEF FirstRows
<1>2. M \in Nat /\ L \in Nat /\ MaxRecord \in Nat \ {0}
    BY <1>1, LenProperties, TableAssumption
<1>3. c \in Seq(Item) /\ PushAll(<<>>, row) = c
    BY PushedRow
<1>. HIDE DEF c
<1>4. /\ w \in Seq(Rows) /\ Len(w) = M + 1
      /\ \A i \in 1..(M + 1) : w[i] = IF i = M + 1 THEN row ELSE told[i]
    BY <1>1, AppendElements
<1>. HIDE DEF w, L, M
<1>5. \A n \in 1..L : w[n] = told[n]
    BY <1>1, <1>2, <1>4
<1>6. CASE L >= MaxRecord
    <2>1. L = IF M + 1 <= MaxRecord THEN M + 1 ELSE MaxRecord
        BY <1>1, <1>2, <1>6
    <2>2. FirstRows(records, w)
        BY <1>1, <1>4, <1>5, <2>1 DEF FirstRows, L
    <2>. QED
        BY <1>6, <2>2 DEF L, w
<1>7. CASE ~(L >= MaxRecord)
    <2>. DEFINE r == Append(records, c)
    <2>1. /\ r \in Seq(Seq(Item)) /\ Len(r) = L + 1
          /\ \A i \in 1..(L + 1) : r[i] = IF i = L + 1 THEN c ELSE records[i]
        BY <1>1, <1>3, AppendElements DEF L
    <2>. HIDE DEF r
    <2>2. L = M /\ L + 1 = IF M + 1 <= MaxRecord THEN M + 1 ELSE MaxRecord
        BY <1>1, <1>2, <1>7
    <2>3. ASSUME NEW i \in 1..(L + 1) PROVE r[i] = Pushed(w[i])
        <3>1. CASE i = L + 1
            BY <1>4, <2>1, <2>2, <3>1 DEF c
        <3>2. CASE i # L + 1
            <4>1. i \in 1..L
                BY <1>2, <3>2
            <4>. QED
                BY <1>1, <1>5, <2>1, <3>2, <4>1
        <3>. QED
            BY <3>1, <3>2
    <2>4. FirstRows(r, w)
        BY <1>4, <2>1, <2>2, <2>3 DEF FirstRows
    <2>. QED
        BY <1>3, <1>7, <2>4 DEF L, r, w
<1>. QED
    BY <1>6, <1>7

(* The invariant holds of every response that is filled in: each record    *)
(* holds the first keyvals of its row, and the records are the first       *)
(* rows, as many as the tables of response_record_push and                 *)
(* response_keyval_push take.                                              *)
THEOREM ResponseInvariance == TableSafe => []ResponseInv
<1>1. TableInit => ResponseInv
    <2>. SUFFICES ASSUME TableInit PROVE ResponseInv
        OBVIOUS
    <2>1. response = NewResponse(<<"200">>, <<"/uri">>) /\ rows = <<>>
        BY DEF TableInit
    <2>2. Replied(response, <<>>)
        BY <2>1 DEF NewResponse, Replied
    <2>3. response.records = <<>>
        BY <2>2, RepliedFields
    <2>4. FirstRows(<<>>, <<>>)
        <3>1. <<>> \in Seq(Rows) /\ <<>> \in Seq(Seq(Item)) /\ Len(<<>>) = 0
            OBVIOUS
        <3>2. 0 <= MaxRecord
            BY TableAssumption
        <3>3. \A n \in 1..0 : FALSE
            OBVIOUS
        <3>. QED
            BY <3>1, <3>2, <3>3 DEF FirstRows
    <2>. QED
        BY <2>1, <2>2, <2>3, <2>4 DEF ResponseInv
<1>2. ResponseInv /\ [TableNext]_tableVars => ResponseInv'
    <2>. SUFFICES ASSUME ResponseInv, [TableNext]_tableVars PROVE ResponseInv'
        OBVIOUS
    <2>1. ASSUME NEW k \in Key, NEW v \in Value, SetParam(k, v) PROVE ResponseInv'
        <3>1. response' = response /\ rows' = rows
            BY <2>1 DEF SetParam
        <3>. QED
            BY <3>1 DEF ResponseInv
    <2>2. ASSUME NEW k \in Key, NEW v \in Value, SetHeader(k, v) PROVE ResponseInv'
        <3>1. response' = response /\ rows' = rows
            BY <2>2 DEF SetHeader
        <3>. QED
            BY <3>1 DEF ResponseInv
    <2>3. ASSUME NEW n \in 1..(MaxKeyval + 1), NEW v \in Value, Range(v) \cap {CR, LF} = {},
                 PushRecord(n, v)
          PROVE  ResponseInv'
        <3>. DEFINE row == Row(n, v)
                    rec == PushAll(<<>>, row)
                    r == response.records
                    x == IF Len(r) >= MaxRecord THEN r ELSE Append(r, rec)
        <3>1. row \in Rows
            <4>1. v \in Plainly
                BY <2>3 DEF Plainly
            <4>2. <<n, v>> \in (1..(MaxKeyval + 1)) \X Plainly
                BY <4>1
            <4>. QED
                BY <4>2 DEF Rows
        <3>2. /\ response' = IF Len(r) >= MaxRecord THEN response
                             ELSE [response EXCEPT !.records = Append(r, rec)]
              /\ rows' = Append(rows, row)
            BY <2>3 DEF PushRecord, response_record_push
        <3>3. Replied(response, r) /\ FirstRows(r, rows)
            BY DEF ResponseInv
        <3>. HIDE DEF row, rec, r
        <3>4. FirstRows(x, Append(rows, row))
            BY <3>1, <3>3, RecordPushed DEF rec
        <3>5. Replied(response', x)
            BY <3>2, <3>3, RepliedFields
        <3>. HIDE DEF x
        <3>6. response'.records = x
            BY <3>5, RepliedFields
        <3>. QED
            BY <3>2, <3>4, <3>5, <3>6 DEF ResponseInv
    <2>4. CASE UNCHANGED tableVars
        <3>1. response' = response /\ rows' = rows
            BY <2>4 DEF tableVars
        <3>. QED
            BY <3>1 DEF ResponseInv
    <2>. QED
        BY <2>1, <2>2, <2>3, <2>4 DEF TableNext
<1>. QED
    BY <1>1, <1>2, PTL DEF TableSafe

(* The first of some records begin them, and are all if there are as many. *)
LEMMA FirstBegins ==
    ASSUME NEW got, NEW S, NEW recs \in Seq(S), NEW J \in 0..Len(recs), First(got, recs, J)
    PROVE  /\ got.ok /\ got.records \in Seq(S) /\ Len(got.records) = J
           /\ \A n \in 1..J : got.records[n] = recs[n]
           /\ IsPrefix(got.records, recs)
           /\ J = Len(recs) => got.records = recs
<1>. DEFINE N == Len(recs)
            c == SubSeq(recs, 1, J)
            g == got.records
<1>1. N \in Nat /\ J \in Nat /\ J <= N /\ \A n \in 1..J : n \in 1..N /\ recs[n] \in S
    BY LenProperties, ElementOfSeq
<1>2. g = [n \in 1..J |-> recs[n]] /\ got.ok
    BY DEF First
<1>3. g \in [1..J -> S] /\ \A n \in 1..J : g[n] = recs[n]
    BY <1>1, <1>2
<1>. HIDE DEF g
<1>4. g \in Seq(S) /\ Len(g) = J
    BY <1>1, <1>3, AsSeq
<1>5. c \in Seq(S) /\ Len(c) = J
    BY <1>1, Beginnings
<1>6. \A i \in 1..(J - 1 + 1) : c[i] = recs[1 + i - 1]
    BY <1>1, SubSeqProperties
<1>7. \A i \in 1..J : c[i] = recs[i]
    BY <1>1, <1>6
<1>. HIDE DEF c
<1>8. g = c
    BY <1>3, <1>4, <1>5, <1>7, SeqEqual
<1>9. SubSeq(g, 1, Len(g)) = g /\ SubSeq(recs, 1, N) = recs
    BY <1>4, Beginnings
<1>10. IsPrefix(g, recs)
    BY <1>1, <1>4, <1>8, <1>9 DEF IsPrefix, c
<1>11. J = N => g = recs
    BY <1>8, <1>9 DEF c
<1>. QED
    BY <1>2, <1>3, <1>4, <1>10, <1>11 DEF g, N

(* The keys of records whose keys differ are found.                        *)
LEMMA DistinctAreFound ==
    ASSUME NEW res, NEW S, res.records \in Seq(Seq(S)),
           \A n \in 1..Len(res.records) : Distinct(res.records[n])
    PROVE  KeysAreFound(res)
<1>. DEFINE g == res.records
<1>1. ASSUME NEW rec \in Range(g), NEW i \in 1..MaxKeyval, Len(rec) < MaxKeyval, i <= Len(rec)
      PROVE  response_keyval_get(rec, rec[i].key) = rec[i].val
    <2>1. DOMAIN g = 1..Len(g) /\ \A n \in 1..Len(g) : g[n] \in Seq(S)
        BY LenProperties, ElementOfSeq
    <2>2. PICK n \in 1..Len(g) : rec = g[n]
        BY <1>1, <2>1 DEF Range
    <2>. HIDE DEF g
    <2>3. rec \in Seq(S) /\ Distinct(rec)
        BY <2>1, <2>2 DEF g
    <2>4. Len(rec) \in Nat /\ MaxKeyval \in Nat
        BY <2>3, LenProperties, TableAssumption
    <2>5. i \in 1..Len(rec) /\ ~(Len(rec) >= MaxKeyval)
        BY <1>1, <2>4
    <2>6. Lookup(rec, rec[i].key) = rec[i].val
        BY <2>3, <2>5, LookupFinds
    <2>. QED
        BY <2>5, <2>6 DEF response_keyval_get
<1>. QED
    BY <1>1 DEF KeysAreFound

(* What a buffer of one size tells of the text of a response.              *)
LEMMA RoomTells ==
    ASSUME NEW s \in Token, Word(s), NEW u \in Token, Word(u), NEW R, NEW recs \in Seq(R),
           Len(recs) <= MaxRecord,
           \A n \in 1..Len(recs) : PlainRecord(recs[n]) /\ Len(recs[n]) <= MaxKeyval,
           NEW k, WholeRun(k, s, u, recs), NEW room \in Nat, NEW res, res.status = <<s>>,
           res.records = recs, res.headers = <<Entry(<<"uri">>, <<u>>)>>
    PROVE  LET text == response_prepare(res, room)
               got  == IF text = CutText THEN NoResponse ELSE ParseResponse(text)
           IN  /\ got = NoResponse \/ \E J \in 0..Len(recs) : First(got, recs, J)
               /\ Len(WholeText(k, recs)) < room => First(got, recs, Len(recs))
               /\ text # CutText /\ Len(text) < room - 2 => Len(text) = Len(WholeText(k, recs))
<1>. DEFINE F == WholeText(k, recs)
            N == Len(recs)
            text == response_prepare(res, room)
            got == IF text = CutText THEN NoResponse ELSE ParseResponse(text)
<1>1. \A n \in 1..N : PlainRecord(recs[n])
    OBVIOUS
<1>2. CASE text = CutText
    <2>1. ~(Len(F) < room)
        <3>. SUFFICES ASSUME Len(F) < room PROVE FALSE
            OBVIOUS
        <3>. QED
            BY <1>1, <1>2, WholeIsPrepared
    <2>2. got = NoResponse
        BY <1>2
    <2>. HIDE DEF got, text, F, N
    <2>. QED
        BY <1>2, <2>1, <2>2 DEF got, text, F, N
<1>3. CASE text # CutText
    <2>1. text \in Text /\ Len(text) < room /\ Prepared(text, N, k, F, room)
        BY <1>1, <1>3, PreparedIs
    <2>2. got = ParseResponse(text)
        BY <1>3
    <2>. HIDE DEF text, got
    <2>3. /\ got = NoResponse \/ \E J \in 0..N : First(got, recs, J)
          /\ Len(F) < room => First(got, recs, N)
        BY <2>1, <2>2, PreparedIsRead
    <2>4. Wholly(F, k, N, s, u, recs)
        BY <1>1, WholeFacts
    <2>. HIDE DEF F, N
    <2>5. F \in Text /\ Len(F) \in Nat /\ Len(text) \in Nat
        BY <2>1, <2>4, LenProperties DEF Wholly, Text
    <2>6. ASSUME Len(text) < room - 2 PROVE Len(text) = Len(F)
        <3>1. ~(Len(text) = room - 1) /\ ~(Len(text) >= room - 2)
            BY <2>5, <2>6
        <3>. QED
            BY <2>1, <3>1 DEF Prepared, Spoiled
    <2>. QED
        BY <2>3, <2>6 DEF got, text, F, N
<1>. QED
    BY <1>2, <1>3

(* A response whose records are the first of those that were to be told is *)
(* read back, whatever the buffer's size.                                  *)
LEMMA ResponseInvReads == ResponseInv => ResponseReadsBack
<1>. SUFFICES ASSUME ResponseInv PROVE ResponseReadsBack
    OBVIOUS
<1>. DEFINE res == response
            recs == response.records
            N == Len(recs)
            m == Min({Len(rows), MaxRecord})
            told == [n \in 1..m |-> Cut(rows[n], MaxKeyval)]
            s == "200"
            u == "/uri"
            R == Seq(Item)
            Text_(room) == response_prepare(res, room)
            Got(room) == IF Text_(room) = CutText THEN NoResponse ELSE ParseResponse(Text_(room))
<1>1. Word(s) /\ Word(u)
    BY WordAssumption DEF Word, SP, CR, LF, COLON, EQ
<1>2. /\ res.status = <<s>> /\ res.headers = <<Entry(<<"uri">>, <<u>>)>> /\ res.records = recs
      /\ FirstRows(recs, rows)
    <2>1. Replied(response, response.records) /\ FirstRows(recs, rows)
        BY DEF ResponseInv
    <2>. QED
        BY <2>1, RepliedFields
<1>. HIDE DEF res, recs, m, s, u, R, Got, Text_
<1>3. /\ rows \in Seq(Rows) /\ recs \in Seq(R) /\ MaxRecord \in Nat
      /\ N = IF Len(rows) <= MaxRecord THEN Len(rows) ELSE MaxRecord
      /\ \A n \in 1..N : recs[n] = Pushed(rows[n])
    BY <1>2, TableAssumption DEF FirstRows, R
<1>4. Len(rows) \in Nat /\ DOMAIN recs = 1..N /\ N \in Nat
    BY <1>3, LenProperties
<1>5. N <= MaxRecord /\ N <= Len(rows) /\ m = N
    <2>1. m = IF Len(rows) <= MaxRecord THEN Len(rows) ELSE MaxRecord
        BY <1>3, <1>4, MinOfTwo DEF m
    <2>. QED
        BY <1>3, <1>4, <2>1
<1>6. told = recs
    <2>1. \A n \in 1..N : recs[n] = Cut(rows[n], MaxKeyval)
        BY <1>3 DEF Pushed
    <2>2. recs = [n \in 1..N |-> recs[n]]
        BY <1>3, <1>4
    <2>. QED
        BY <1>5, <2>1, <2>2
<1>7. \A n \in 1..N : /\ PlainRecord(recs[n]) /\ Len(recs[n]) <= MaxKeyval
                      /\ Distinct(recs[n])
    <2>1. ASSUME NEW n \in 1..N
          PROVE  PlainRecord(recs[n]) /\ Len(recs[n]) <= MaxKeyval /\ Distinct(recs[n])
        <3>1. n \in 1..Len(rows) /\ recs[n] = Pushed(rows[n])
            BY <1>3, <1>4, <1>5
        <3>2. rows[n] \in Rows
            BY <1>3, <3>1, ElementOfSeq
        <3>. QED
            BY <3>1, <3>2, PushedRow
    <2>. QED
        BY <2>1
<1>8. \A n \in 1..N : PlainRecord(recs[n]) /\ Len(recs[n]) <= MaxKeyval
    BY <1>7
<1>9. PICK k : WholeRun(k, s, u, recs)
    <2>1. s \in Token /\ u \in Token /\ \A n \in 1..N : PlainRecord(recs[n])
        BY <1>1, <1>8 DEF Word
    <2>. QED
        BY <1>3, <2>1, WholeExists
<1>. DEFINE L == Len(WholeText(k, recs))
<1>. HIDE DEF L
<1>10. ASSUME NEW room \in TextSize
       PROVE  /\ Got(room) = NoResponse \/ \E J \in 0..N : First(Got(room), recs, J)
              /\ L < room => First(Got(room), recs, N)
              /\ Text_(room) # CutText /\ Len(Text_(room)) < room - 2 => Len(Text_(room)) = L
    <2>1. room \in Nat /\ s \in Token /\ u \in Token
        BY <1>1, TextSizeAssumption DEF Word
    <2>. QED
        BY <1>1, <1>2, <1>3, <1>5, <1>8, <1>9, <2>1, RoomTells DEF L, Got, Text_
<1>11. \A n \in WholeLength(res) : n = L
    BY <1>10 DEF WholeLength, Text_
<1>12. ASSUME NEW room \in TextSize
       PROVE  /\ Got(room).ok => IsPrefix(Got(room).records, told) /\ KeysAreFound(Got(room))
              /\ (\E n \in WholeLength(res) : n < room) => Got(room).ok /\ Got(room).records = told
    <2>1. ASSUME NEW J \in 0..N, First(Got(room), recs, J)
          PROVE  /\ Got(room).ok /\ IsPrefix(Got(room).records, recs) /\ KeysAreFound(Got(room))
                 /\ J = N => Got(room).records = recs
        <3>1. /\ Got(room).ok /\ Got(room).records \in Seq(R) /\ Len(Got(room).records) = J
              /\ \A n \in 1..J : Got(room).records[n] = recs[n]
              /\ IsPrefix(Got(room).records, recs)
              /\ J = N => Got(room).records = recs
            BY <1>3, <2>1, FirstBegins
        <3>2. \A n \in 1..J : n \in 1..N
            BY <1>4
        <3>3. \A n \in 1..Len(Got(room).records) : Distinct(Got(room).records[n])
            BY <1>7, <3>1, <3>2
        <3>4. KeysAreFound(Got(room))
            BY <3>1, <3>3, DistinctAreFound DEF R
        <3>. QED
            BY <3>1, <3>4
    <2>2. Got(room).ok => IsPrefix(Got(room).records, recs) /\ KeysAreFound(Got(room))
        <3>1. CASE Got(room) = NoResponse
            <4>1. ~NoResponse.ok
                BY DEF NoResponse
            <4>. QED
                BY <3>1, <4>1
        <3>2. CASE \E J \in 0..N : First(Got(room), recs, J)
            BY <2>1, <3>2
        <3>. QED
            BY <1>10, <3>1, <3>2
    <2>3. ASSUME NEW n \in WholeLength(res), n < room
          PROVE  Got(room).ok /\ Got(room).records = recs
        <3>1. First(Got(room), recs, N) /\ N \in 0..N
            BY <1>4, <1>10, <1>11, <2>3
        <3>. QED
            BY <2>1, <3>1
    <2>. HIDE DEF told
    <2>. QED
        BY <1>6, <2>2, <2>3
<1>. QED
    BY <1>12 DEF ResponseReadsBack, Got, Text_, res, told, m

(* The reader of a response finds what was pushed, or learns that the text *)
(* is not whole: response_prepare against response_parse, for tables and   *)
(* buffers of any size.                                                    *)
THEOREM ResponsesAreReadBack == TableSafe => []ResponseReadsBack
BY ResponseInvariance, ResponseInvReads, PTL
==============================================================================
