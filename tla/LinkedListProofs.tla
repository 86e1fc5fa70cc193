-------------------------- MODULE LinkedListProofs --------------------------
(***************************************************************************)
(* The pointers of the list spell one sequence of allocated nodes at every *)
(* step of every function, for any number of addresses and items; and what *)
(* each function does to the items of those nodes is what ItemList says.   *)
(***************************************************************************)
EXTENDS LinkedList, TLAPS, SequenceTheorems, WellFoundedInduction

(* What an iterator has copied are the items before its node.              *)
ArrayFollows == op = "getall" => Len(array) = at - 1

ListInv == ListTypeOK /\ Linked /\ ArrayFollows

-----------------------------------------------------------------------------
(* Where the elements of a sequence are after each change that the list    *)
(* functions make to it.                                                   *)

LEMMA ConsElements ==
    ASSUME NEW S, NEW s \in Seq(S), NEW a \in S
    PROVE  /\ <<a>> \o s \in Seq(S)
           /\ Len(<<a>> \o s) = Len(s) + 1
           /\ \A k \in 1..(Len(s) + 1) : (<<a>> \o s)[k] = IF k = 1 THEN a ELSE s[k - 1]
BY ConcatProperties, LenProperties

LEMMA AppendElements ==
    ASSUME NEW S, NEW s \in Seq(S), NEW a \in S
    PROVE  /\ Append(s, a) \in Seq(S)
           /\ Len(Append(s, a)) = Len(s) + 1
           /\ \A k \in 1..(Len(s) + 1) :
                Append(s, a)[k] = IF k = Len(s) + 1 THEN a ELSE s[k]
BY AppendProperties, LenProperties

LEMMA TailElements ==
    ASSUME NEW S, NEW s \in Seq(S), s # <<>>
    PROVE  /\ Tail(s) \in Seq(S)
           /\ Len(s) \in Nat /\ Len(s) > 0
           /\ Len(Tail(s)) = Len(s) - 1
           /\ \A k \in 1..(Len(s) - 1) : Tail(s)[k] = s[k + 1]
BY HeadTailProperties, LenProperties, EmptySeq

LEMMA FrontElements ==
    ASSUME NEW S, NEW s \in Seq(S), s # <<>>
    PROVE  /\ Front(s) \in Seq(S)
           /\ Len(s) \in Nat /\ Len(s) > 0
           /\ Len(Front(s)) = Len(s) - 1
           /\ \A k \in 1..(Len(s) - 1) : Front(s)[k] = s[k]
<1>. DEFINE f == SubSeq(s, 1, Len(s) - 1)
<1>1. Len(s) \in Nat /\ Len(s) > 0 /\ \A k \in 1..Len(s) : s[k] \in S
    BY LenProperties, ElementOfSeq, EmptySeq
<1>2. \A k \in 1..(Len(s) - 1) : s[k] \in S
    BY <1>1
<1>3. /\ f \in Seq(S)
      /\ Len(f) = IF 1 <= Len(s) - 1 THEN Len(s) - 1 - 1 + 1 ELSE 0
      /\ \A k \in 1..(Len(s) - 1 - 1 + 1) : f[k] = s[1 + k - 1]
    BY <1>1, <1>2, SubSeqProperties
<1>4. Front(s) = f
    BY DEF Front
<1>. HIDE DEF f
<1>. QED
    BY <1>1, <1>3, <1>4

LEMMA ReverseElements ==
    ASSUME NEW S, NEW s \in Seq(S)
    PROVE  /\ Reverse(s) \in Seq(S)
           /\ Len(Reverse(s)) = Len(s)
           /\ \A k \in 1..Len(s) : Reverse(s)[k] = s[Len(s) - k + 1]
<1>1. Len(s) \in Nat /\ \A k \in 1..Len(s) : s[k] \in S
    BY LenProperties, ElementOfSeq
<1>2. \A k \in 1..Len(s) : Len(s) - k + 1 \in 1..Len(s)
    BY <1>1
<1>3. Reverse(s) \in [1..Len(s) -> S]
    BY <1>1, <1>2 DEF Reverse
<1>. QED
    BY <1>1, <1>3, IsASeq, LenProperties DEF Reverse

LEMMA RemoveAtElements ==
    ASSUME NEW S, NEW s \in Seq(S), NEW j \in 1..Len(s)
    PROVE  /\ RemoveAt(s, j) \in Seq(S)
           /\ Len(RemoveAt(s, j)) = Len(s) - 1
           /\ \A k \in 1..(Len(s) - 1) :
                RemoveAt(s, j)[k] = IF k < j THEN s[k] ELSE s[k + 1]
<1>. DEFINE s1 == SubSeq(s, 1, j - 1)
            s2 == SubSeq(s, j + 1, Len(s))
<1>1. Len(s) \in Nat /\ \A k \in 1..Len(s) : s[k] \in S
    BY LenProperties, ElementOfSeq
<1>2. /\ s1 \in Seq(S) /\ Len(s1) = j - 1
      /\ \A k \in 1..(j - 1) : s1[k] = s[k]
    <2>1. \A k \in 1..(j - 1) : s[k] \in S
        BY <1>1
    <2>. QED
        BY <1>1, <2>1, SubSeqProperties
<1>3. /\ s2 \in Seq(S) /\ Len(s2) = Len(s) - j
      /\ \A k \in 1..(Len(s) - j) : s2[k] = s[j + k]
    <2>1. \A k \in (j + 1)..Len(s) : s[k] \in S
        BY <1>1
    <2>2. /\ s2 \in Seq(S)
          /\ Len(s2) = IF j + 1 <= Len(s) THEN Len(s) - (j + 1) + 1 ELSE 0
          /\ \A k \in 1..(Len(s) - (j + 1) + 1) : s2[k] = s[(j + 1) + k - 1]
        BY <1>1, <2>1, SubSeqProperties
    <2>. HIDE DEF s2
    <2>. QED
        BY <1>1, <2>2
<1>4. RemoveAt(s, j) = s1 \o s2
    BY DEF RemoveAt
<1>. HIDE DEF s1, s2
<1>5. /\ s1 \o s2 \in Seq(S)
      /\ Len(s1 \o s2) = Len(s) - 1
      /\ \A k \in 1..(Len(s) - 1) :
            (s1 \o s2)[k] = IF k <= j - 1 THEN s1[k] ELSE s2[k - (j - 1)]
    <2>1. /\ s1 \o s2 \in Seq(S)
          /\ Len(s1 \o s2) = Len(s1) + Len(s2)
          /\ \A k \in 1..(Len(s1) + Len(s2)) :
                (s1 \o s2)[k] = IF k <= Len(s1) THEN s1[k] ELSE s2[k - Len(s1)]
        BY <1>2, <1>3, ConcatProperties
    <2>2. Len(s1) + Len(s2) = Len(s) - 1
        BY <1>1, <1>2, <1>3
    <2>. QED
        BY <1>2, <2>1, <2>2
<1>6. ASSUME NEW k \in 1..(Len(s) - 1)
      PROVE  (s1 \o s2)[k] = IF k < j THEN s[k] ELSE s[k + 1]
    <2>1. CASE k < j
        BY <1>1, <1>2, <1>5, <2>1
    <2>2. CASE ~(k < j)
        <3>1. k - (j - 1) \in 1..(Len(s) - j) /\ j + (k - (j - 1)) = k + 1
            BY <1>1, <2>2
        <3>. QED
            BY <1>1, <1>3, <1>5, <2>2, <3>1
    <2>. QED
        BY <2>1, <2>2
<1>. QED
    BY <1>4, <1>5, <1>6
-----------------------------------------------------------------------------
(* The invariant, spelled out for one position of the list and for two.    *)

LEMMA NodeFacts ==
    ASSUME ListInv
    PROVE  /\ Len(nodes) \in Nat /\ DOMAIN nodes = 1..Len(nodes)
           /\ \A k \in 1..Len(nodes) : nodes[k] \in Address /\ nodes[k] # Null
           /\ \A k \in 1..Len(nodes) : nodes[k] \in live
           /\ \A a \in live : \E k \in 1..Len(nodes) : a = nodes[k]
           /\ \A j, k \in 1..Len(nodes) : nodes[j] = nodes[k] => j = k
<1>1. /\ nodes \in Seq(Address)
      /\ IsInjective(nodes) /\ live = Range(nodes)
    BY DEF ListInv, ListTypeOK, Linked
<1>2. Len(nodes) \in Nat /\ DOMAIN nodes = 1..Len(nodes)
    BY <1>1, LenProperties
<1>3. \A k \in 1..Len(nodes) : nodes[k] \in Address
    BY <1>1, ElementOfSeq
<1>. QED
    BY <1>1, <1>2, <1>3, NullAssumption DEF IsInjective, Range

(* What is to be shown of nodes and live alone.                            *)
LEMMA OneToOne ==
    ASSUME NEW s \in Seq(Address), NEW L,
           \A j, k \in 1..Len(s) : s[j] = s[k] => j = k,
           \A k \in 1..Len(s) : s[k] \in L,
           \A a \in L : \E k \in 1..Len(s) : a = s[k]
    PROVE  IsInjective(s) /\ L = Range(s)
<1>1. DOMAIN s = 1..Len(s)
    BY LenProperties
<1>. QED
    BY <1>1 DEF IsInjective, Range

-----------------------------------------------------------------------------
(* One lemma for each function or step of one.                             *)

LEMMA PushfrontKeeps ==
    ASSUME ListInv, NEW d \in Datum, list_pushfront(d)
    PROVE  ListInv'
<1>1. PICK a \in Fresh :
         /\ heap' = [b \in Address |->
                        CASE b = a    -> [data |-> d, prev |-> Null, next |-> head]
                          [] b = head -> [heap[b] EXCEPT !.prev = a]
                          [] OTHER    -> heap[b]]
         /\ live' = live \cup {a}
         /\ head' = a
         /\ tail' = IF head = Null THEN a ELSE tail
         /\ nodes' = <<a>> \o nodes
    BY DEF list_pushfront
<1>2. /\ op = "none" /\ op' = "none" /\ size' = size + 1
      /\ UNCHANGED <<node, needle, array, at>>
    BY DEF list_pushfront, Rest
<1>3. a \in Address /\ a \notin live /\ a # Null
    BY <1>1, NullAssumption DEF Fresh
<1>4. /\ nodes' \in Seq(Address) /\ Len(nodes') = Len(nodes) + 1
      /\ \A k \in 1..(Len(nodes) + 1) : nodes'[k] = IF k = 1 THEN a ELSE nodes[k - 1]
    BY <1>1, <1>3, ConsElements DEF ListInv, ListTypeOK
<1>5. /\ head = NodeAt(1) /\ tail = NodeAt(Len(nodes)) /\ size = Len(nodes)
      /\ \A k \in 1..Len(nodes) : /\ heap[nodes[k]].data \in Datum
                                  /\ heap[nodes[k]].next = NodeAt(k + 1)
                                  /\ heap[nodes[k]].prev = NodeAt(k - 1)
    BY <1>2 DEF ListInv, Linked, Turned
<1>6. heap' \in [Address -> Node]
    <2>1. heap \in [Address -> Node] /\ head \in Pointer /\ a \in Pointer
        BY <1>3 DEF ListInv, ListTypeOK, Pointer
    <2>2. ASSUME NEW b \in Address PROVE heap'[b] \in Node
        BY <1>1, <2>1 DEF Node, Pointer
    <2>. QED
        BY <1>1, <2>2
<1>7. ListTypeOK'
    BY <1>1, <1>2, <1>3, <1>4, <1>6 DEF ListInv, ListTypeOK, Pointer
<1>8. IsInjective(nodes') /\ live' = Range(nodes')
    <2>1. \A k \in 1..Len(nodes') : k = 1 \/ (k - 1 \in 1..Len(nodes) /\ nodes'[k] = nodes[k - 1])
        BY <1>4, NodeFacts
    <2>2. \A j, k \in 1..Len(nodes') : nodes'[j] = nodes'[k] => j = k
        BY <1>3, <1>4, <2>1, NodeFacts
    <2>3. \A k \in 1..Len(nodes') : nodes'[k] \in live'
        BY <1>1, <1>4, <2>1, NodeFacts
    <2>4. \A b \in live' : \E k \in 1..Len(nodes') : b = nodes'[k]
        <3>1. CASE TRUE
          <4>. TAKE b \in live'
          <4>1. CASE b = a
            BY <1>4, <4>1, NodeFacts
          <4>2. CASE b \in live
            <5>1. PICK k \in 1..Len(nodes) : b = nodes[k]
                BY <4>2, NodeFacts
            <5>2. k + 1 \in 1..Len(nodes') /\ nodes'[k + 1] = b
                BY <1>4, <5>1, NodeFacts
            <5>. QED
                BY <5>2
          <4>. QED
            BY <1>1, <4>1, <4>2
        <3>. QED
            BY <3>1
    <2>. QED
        BY <1>4, <2>2, <2>3, <2>4, OneToOne
<1>9. /\ head' = NodeAt(1)' /\ tail' = NodeAt(Len(nodes))' /\ size' = Len(nodes')
    <2>1. head' = NodeAt(1)'
        BY <1>1, <1>4, NodeFacts DEF NodeAt
    <2>2. head = Null <=> Len(nodes) = 0
        BY <1>5, NodeFacts DEF NodeAt
    <2>3. NodeAt(Len(nodes))' = IF Len(nodes) = 0 THEN a ELSE nodes[Len(nodes)]
        <3>1. NodeAt(Len(nodes))' = nodes'[Len(nodes) + 1]
            BY <1>4, NodeFacts DEF NodeAt
        <3>. QED
            BY <1>4, <3>1, NodeFacts
    <2>. QED
        BY <1>1, <1>2, <1>4, <1>5, <2>1, <2>2, <2>3, NodeFacts DEF NodeAt
<1>10. ASSUME NEW k \in 1..Len(nodes')
       PROVE  /\ heap'[nodes'[k]].data \in Datum
              /\ heap'[nodes'[k]].next = NodeAt(k + 1)'
              /\ heap'[nodes'[k]].prev = NodeAt(k - 1)'
    <2>1. CASE k = 1
        BY <1>1, <1>3, <1>4, <1>5, <2>1, NodeFacts DEF NodeAt
    <2>2. CASE k # 1
        <3>1. k - 1 \in 1..Len(nodes) /\ nodes'[k] = nodes[k - 1]
            BY <1>4, <2>2, NodeFacts
        <3>2. nodes[k - 1] \in Address /\ nodes[k - 1] # a /\ nodes[k - 1] # Null
            BY <1>3, <3>1, NodeFacts
        <3>3. nodes[k - 1] = head <=> k = 2
            BY <1>5, <3>1, <3>2, NodeFacts DEF NodeAt
        <3>4. /\ heap'[nodes'[k]].data = heap[nodes[k - 1]].data
              /\ heap'[nodes'[k]].next = heap[nodes[k - 1]].next
              /\ heap'[nodes'[k]].prev = IF k = 2 THEN a ELSE heap[nodes[k - 1]].prev
            BY <1>1, <3>1, <3>2, <3>3 DEF ListInv, ListTypeOK, Node
        <3>5. NodeAt(k + 1)' = NodeAt(k)
            BY <1>4, <2>2, NodeFacts DEF NodeAt
        <3>6. NodeAt(k - 1)' = IF k = 2 THEN a ELSE NodeAt(k - 2)
            BY <1>4, <2>2, NodeFacts DEF NodeAt
        <3>. QED
            BY <1>5, <3>1, <3>4, <3>5, <3>6, NodeFacts
    <2>. QED
        BY <2>1, <2>2
<1>. QED
    BY <1>2, <1>7, <1>8, <1>9, <1>10 DEF ListInv, Linked, Turned, ArrayFollows

(* The invariant before a function is called, without the walks.           *)
LEMMA AtRest ==
    ASSUME ListInv, op = "none"
    PROVE  /\ heap \in [Address -> Node] /\ head \in Pointer /\ tail \in Pointer
           /\ head = NodeAt(1) /\ tail = NodeAt(Len(nodes)) /\ size = Len(nodes)
           /\ head = Null <=> Len(nodes) = 0
           /\ tail = Null <=> Len(nodes) = 0
           /\ \A k \in 1..Len(nodes) : /\ heap[nodes[k]].data \in Datum
                                       /\ heap[nodes[k]].next = NodeAt(k + 1)
                                       /\ heap[nodes[k]].prev = NodeAt(k - 1)
<1>1. /\ heap \in [Address -> Node] /\ head \in Pointer /\ tail \in Pointer
      /\ head = NodeAt(1) /\ tail = NodeAt(Len(nodes)) /\ size = Len(nodes)
      /\ \A k \in 1..Len(nodes) : /\ heap[nodes[k]].data \in Datum
                                  /\ heap[nodes[k]].next = NodeAt(k + 1)
                                  /\ heap[nodes[k]].prev = NodeAt(k - 1)
    BY DEF ListInv, ListTypeOK, Linked, Turned
<1>2. head = Null <=> Len(nodes) = 0
    BY <1>1, NodeFacts DEF NodeAt
<1>3. tail = Null <=> Len(nodes) = 0
    BY <1>1, NodeFacts DEF NodeAt
<1>. QED
    BY <1>1, <1>2, <1>3

LEMMA PushbackKeeps ==
    ASSUME ListInv, NEW d \in Datum, list_pushback(d)
    PROVE  ListInv'
<1>1. PICK a \in Fresh :
         /\ heap' = [b \in Address |->
                        CASE b = a    -> [data |-> d, prev |-> tail, next |-> Null]
                          [] b = tail -> [heap[b] EXCEPT !.next = a]
                          [] OTHER    -> heap[b]]
         /\ live' = live \cup {a}
         /\ tail' = a
         /\ head' = IF head = Null THEN a ELSE head
         /\ nodes' = Append(nodes, a)
    BY DEF list_pushback
<1>2. /\ op = "none" /\ op' = "none" /\ size' = size + 1
      /\ UNCHANGED <<node, needle, array, at>>
    BY DEF list_pushback, Rest
<1>3. a \in Address /\ a \notin live /\ a # Null
    BY <1>1, NullAssumption DEF Fresh
<1>4. /\ nodes' \in Seq(Address) /\ Len(nodes') = Len(nodes) + 1
      /\ \A k \in 1..(Len(nodes) + 1) :
            nodes'[k] = IF k = Len(nodes) + 1 THEN a ELSE nodes[k]
    BY <1>1, <1>3, AppendElements DEF ListInv, ListTypeOK
<1>6. heap' \in [Address -> Node]
    <2>1. a \in Pointer
        BY <1>3 DEF Pointer
    <2>2. ASSUME NEW b \in Address PROVE heap'[b] \in Node
        BY <1>1, <1>2, <2>1, AtRest DEF Node, Pointer
    <2>. QED
        BY <1>1, <2>2
<1>7. ListTypeOK'
    BY <1>1, <1>2, <1>3, <1>4, <1>6 DEF ListInv, ListTypeOK, Pointer
<1>8. IsInjective(nodes') /\ live' = Range(nodes')
    <2>1. \A k \in 1..Len(nodes') : k = Len(nodes') \/ k \in 1..Len(nodes)
        BY <1>4, NodeFacts
    <2>2. \A j, k \in 1..Len(nodes') : nodes'[j] = nodes'[k] => j = k
        BY <1>3, <1>4, <2>1, NodeFacts
    <2>3. \A k \in 1..Len(nodes') : nodes'[k] \in live'
        BY <1>1, <1>4, <2>1, NodeFacts
    <2>4. \A b \in live' : \E k \in 1..Len(nodes') : b = nodes'[k]
        BY <1>1, <1>4, NodeFacts
    <2>. QED
        BY <1>4, <2>2, <2>3, <2>4, OneToOne
<1>9. /\ head' = NodeAt(1)' /\ tail' = NodeAt(Len(nodes))' /\ size' = Len(nodes')
    <2>1. tail' = NodeAt(Len(nodes))'
        BY <1>1, <1>4, NodeFacts DEF NodeAt
    <2>2. NodeAt(1)' = IF Len(nodes) = 0 THEN a ELSE nodes[1]
        BY <1>4, NodeFacts DEF NodeAt
    <2>. QED
        BY <1>1, <1>2, <1>4, <2>1, <2>2, AtRest, NodeFacts DEF NodeAt
<1>10. ASSUME NEW k \in 1..Len(nodes')
       PROVE  /\ heap'[nodes'[k]].data \in Datum
              /\ heap'[nodes'[k]].next = NodeAt(k + 1)'
              /\ heap'[nodes'[k]].prev = NodeAt(k - 1)'
    <2>1. NodeAt(k - 1)' = NodeAt(k - 1)
        BY <1>4, NodeFacts DEF NodeAt
    <2>2. CASE k = Len(nodes) + 1
        <3>1. nodes'[k] = a /\ NodeAt(k + 1)' = Null /\ tail = NodeAt(k - 1)
            BY <1>2, <1>4, <2>2, AtRest, NodeFacts DEF NodeAt
        <3>2. a # tail
            BY <1>2, <1>3, AtRest, NodeFacts DEF NodeAt
        <3>3. heap'[a] = [data |-> d, prev |-> tail, next |-> Null]
            BY <1>1, <1>3, <3>2
        <3>. QED
            BY <2>1, <3>1, <3>3
    <2>3. CASE k # Len(nodes) + 1
        <3>1. k \in 1..Len(nodes) /\ nodes'[k] = nodes[k]
            BY <1>4, <2>3, NodeFacts
        <3>2. nodes[k] \in Address /\ nodes[k] # a /\ nodes[k] # Null
            BY <1>3, <3>1, NodeFacts
        <3>3. nodes[k] = tail <=> k = Len(nodes)
            BY <1>2, <3>1, <3>2, AtRest, NodeFacts DEF NodeAt
        <3>4. /\ heap'[nodes'[k]].data = heap[nodes[k]].data
              /\ heap'[nodes'[k]].prev = heap[nodes[k]].prev
              /\ heap'[nodes'[k]].next = IF k = Len(nodes) THEN a ELSE heap[nodes[k]].next
            BY <1>1, <1>2, <3>1, <3>2, <3>3, AtRest DEF Node
        <3>5. NodeAt(k + 1)' = IF k = Len(nodes) THEN a ELSE NodeAt(k + 1)
            <4>1. CASE k = Len(nodes)
                BY <1>4, <4>1, NodeFacts DEF NodeAt
            <4>2. CASE k # Len(nodes)
                <5>0. Len(nodes) \in Nat
                    BY NodeFacts
                <5>1. k + 1 \in 1..Len(nodes) /\ k + 1 # Len(nodes) + 1
                    BY <3>1, <4>2, <5>0
                <5>2. k + 1 \in 1..Len(nodes') /\ k + 1 \in 1..(Len(nodes) + 1)
                    BY <1>4, <5>1, NodeFacts
                <5>3. nodes'[k + 1] = nodes[k + 1]
                    BY <1>4, <5>1, <5>2
                <5>. QED
                    BY <4>2, <5>1, <5>2, <5>3 DEF NodeAt
            <4>. QED
                BY <4>1, <4>2
        <3>. QED
            BY <1>2, <2>1, <3>1, <3>4, <3>5, AtRest
    <2>. QED
        BY <2>2, <2>3
<1>. QED
    BY <1>2, <1>7, <1>8, <1>9, <1>10 DEF ListInv, Linked, Turned, ArrayFollows

(* Nodes are lost at position j: those that stay are still different, and  *)
(* are those that are still allocated.                                     *)
LEMMA OneLess ==
    ASSUME ListInv, NEW j \in 1..Len(nodes), NEW s \in Seq(Address),
           Len(s) = Len(nodes) - 1,
           \A k \in 1..(Len(nodes) - 1) : s[k] = IF k < j THEN nodes[k] ELSE nodes[k + 1]
    PROVE  IsInjective(s) /\ live \ {nodes[j]} = Range(s)
<1>1. \A k \in 1..Len(s) : /\ k \in 1..Len(nodes) /\ k + 1 \in 1..Len(nodes)
                           /\ s[k] = nodes[IF k < j THEN k ELSE k + 1]
    BY NodeFacts
<1>2. \A h, k \in 1..Len(s) : s[h] = s[k] => h = k
    BY <1>1, NodeFacts
<1>3. \A k \in 1..Len(s) : s[k] \in live \ {nodes[j]}
    BY <1>1, NodeFacts
<1>4. ASSUME NEW a \in live \ {nodes[j]}
      PROVE  \E k \in 1..Len(s) : a = s[k]
    <2>1. PICK k \in 1..Len(nodes) : a = nodes[k]
        BY NodeFacts
    <2>2. CASE k < j
        BY <2>1, <2>2, NodeFacts
    <2>3. CASE k > j
        <3>1. k - 1 \in 1..Len(s) /\ s[k - 1] = nodes[k]
            BY <2>3, NodeFacts
        <3>. QED
            BY <2>1, <3>1
    <2>. QED
        BY <1>4, <2>1, <2>2, <2>3, NodeFacts
<1>. QED
    BY <1>2, <1>3, <1>4, OneToOne

(* A walk that turns or destroys nothing: what list_remove finds, too.     *)
Orderly == op \notin {"reverse", "destroy"}

LEMMA InOrder ==
    ASSUME ListInv, Orderly
    PROVE  /\ heap \in [Address -> Node] /\ head \in Pointer /\ tail \in Pointer
           /\ head = NodeAt(1) /\ tail = NodeAt(Len(nodes)) /\ size = Len(nodes)
           /\ \A k \in 1..Len(nodes) : /\ heap[nodes[k]].data \in Datum
                                       /\ heap[nodes[k]].next = NodeAt(k + 1)
                                       /\ heap[nodes[k]].prev = NodeAt(k - 1)
BY DEF ListInv, ListTypeOK, Linked, Turned, Orderly

(* The node at position j is unlinked and freed.                           *)
Unlinked(j) ==
    /\ heap' = [b \in Address |->
                   CASE b = nodes[j]      -> Freed(heap[b])
                     [] b = NodeAt(j - 1) -> [heap[b] EXCEPT !.next = NodeAt(j + 1)]
                     [] b = NodeAt(j + 1) -> [heap[b] EXCEPT !.prev = NodeAt(j - 1)]
                     [] OTHER             -> heap[b]]
    /\ live' = live \ {nodes[j]}
    /\ head' = IF j = 1 THEN NodeAt(2) ELSE head
    /\ tail' = IF j = Len(nodes) THEN NodeAt(j - 1) ELSE tail
    /\ size' = size - 1
    /\ nodes' \in Seq(Address) /\ Len(nodes') = Len(nodes) - 1
    /\ \A k \in 1..(Len(nodes) - 1) : nodes'[k] = IF k < j THEN nodes[k] ELSE nodes[k + 1]

LEMMA NodeAtIsPointer ==
    ASSUME ListInv, NEW k \in Int
    PROVE  NodeAt(k) \in Pointer
BY NodeFacts DEF NodeAt, Pointer

(* Where the neighbours of the nodes that stay are.                        *)
LEMMA NodeAtUnlinked ==
    ASSUME ListInv, NEW j \in 1..Len(nodes), NEW k \in Int,
           Len(nodes') = Len(nodes) - 1,
           \A h \in 1..(Len(nodes) - 1) : nodes'[h] = IF h < j THEN nodes[h] ELSE nodes[h + 1]
    PROVE  NodeAt(k)' = IF k < j THEN NodeAt(k) ELSE NodeAt(k + 1)
<1>1. CASE k \in 1..(Len(nodes) - 1)
    <2>1. NodeAt(k)' = nodes'[k]
        BY <1>1, NodeFacts DEF NodeAt
    <2>2. k \in 1..Len(nodes) /\ k + 1 \in 1..Len(nodes)
        BY <1>1, NodeFacts
    <2>. QED
        BY <1>1, <2>1, <2>2 DEF NodeAt
<1>2. CASE k \notin 1..(Len(nodes) - 1)
    BY <1>2, NodeFacts DEF NodeAt
<1>. QED
    BY <1>1, <1>2

LEMMA UnlinkKeeps ==
    ASSUME ListInv, Orderly, NEW j \in 1..Len(nodes), Unlinked(j)
    PROVE  /\ heap' \in [Address -> Node] /\ live' \subseteq Address
           /\ head' \in Pointer /\ tail' \in Pointer /\ size' \in Nat
           /\ nodes' \in Seq(Address)
           /\ IsInjective(nodes') /\ live' = Range(nodes')
           /\ head' = NodeAt(1)' /\ tail' = NodeAt(Len(nodes))' /\ size' = Len(nodes')
           /\ \A k \in 1..Len(nodes') : /\ heap'[nodes'[k]].data \in Datum
                                        /\ heap'[nodes'[k]].next = NodeAt(k + 1)'
                                        /\ heap'[nodes'[k]].prev = NodeAt(k - 1)'
<1>1. /\ nodes' \in Seq(Address) /\ Len(nodes') = Len(nodes) - 1
      /\ \A k \in 1..(Len(nodes) - 1) : nodes'[k] = IF k < j THEN nodes[k] ELSE nodes[k + 1]
    BY DEF Unlinked
<1>2. /\ NodeAt(j - 1) \in Pointer /\ NodeAt(j + 1) \in Pointer /\ NodeAt(2) \in Pointer
    BY NodeAtIsPointer, NodeFacts
<1>3. heap' \in [Address -> Node]
    <2>1. ASSUME NEW b \in Address PROVE heap'[b] \in Node
        <3>1. heap[b] \in Node
            BY InOrder
        <3>2. \/ heap'[b] = Freed(heap[b])
              \/ heap'[b] = [heap[b] EXCEPT !.next = NodeAt(j + 1)]
              \/ heap'[b] = [heap[b] EXCEPT !.prev = NodeAt(j - 1)]
              \/ heap'[b] = heap[b]
            BY DEF Unlinked
        <3>3. Null \in Pointer /\ Null \in Datum \cup {Null}
            BY DEF Pointer
        <3>. QED
            BY <1>2, <3>1, <3>2, <3>3 DEF Node, Freed
    <2>. QED
        BY <2>1 DEF Unlinked
<1>4. IsInjective(nodes') /\ live' = Range(nodes')
    BY <1>1, OneLess DEF Unlinked
<1>5. head' = NodeAt(1)'
    BY <1>1, NodeAtUnlinked, InOrder, NodeFacts DEF Unlinked
<1>6. tail' = NodeAt(Len(nodes))'
    <2>1. NodeAt(Len(nodes))' = IF Len(nodes) - 1 < j THEN NodeAt(Len(nodes) - 1) ELSE NodeAt(Len(nodes))
        <3>1. NodeAt(Len(nodes))' = IF Len(nodes') \in 1..Len(nodes') THEN nodes'[Len(nodes')] ELSE Null
            BY DEF NodeAt
        <3>2. CASE Len(nodes) = 1
            BY <1>1, <3>1, <3>2, NodeFacts DEF NodeAt
        <3>3. CASE Len(nodes) # 1
            <4>1. Len(nodes) - 1 \in 1..(Len(nodes) - 1) /\ Len(nodes) \in 1..Len(nodes)
                BY <3>3, NodeFacts
            <4>2. NodeAt(Len(nodes))' = nodes'[Len(nodes) - 1]
                BY <1>1, <3>1, <4>1
            <4>. QED
                BY <1>1, <4>1, <4>2, NodeFacts DEF NodeAt
        <3>. QED
            BY <3>2, <3>3
    <2>. QED
        BY <2>1, InOrder, NodeFacts DEF Unlinked
<1>7. ASSUME NEW k \in 1..Len(nodes')
      PROVE  /\ heap'[nodes'[k]].data \in Datum
             /\ heap'[nodes'[k]].next = NodeAt(k + 1)'
             /\ heap'[nodes'[k]].prev = NodeAt(k - 1)'
    <2>. DEFINE h == IF k < j THEN k ELSE k + 1
    <2>1. /\ h \in 1..Len(nodes) /\ h # j /\ nodes'[k] = nodes[h]
          /\ nodes[h] \in Address /\ nodes[h] # nodes[j]
        BY <1>1, NodeFacts
    <2>2. nodes[h] = NodeAt(j - 1) <=> h = j - 1
        BY <2>1, NodeFacts DEF NodeAt
    <2>3. nodes[h] = NodeAt(j + 1) <=> h = j + 1
        BY <2>1, NodeFacts DEF NodeAt
    <2>4. /\ NodeAt(k + 1)' = IF k + 1 < j THEN NodeAt(k + 1) ELSE NodeAt(k + 2)
          /\ NodeAt(k - 1)' = IF k - 1 < j THEN NodeAt(k - 1) ELSE NodeAt(k)
        <3>1. k \in Nat /\ k + 1 \in Int /\ k - 1 \in Int /\ k - 1 + 1 = k /\ k + 1 + 1 = k + 2
            BY <1>1, NodeFacts
        <3>2. NodeAt(k + 1)' = IF k + 1 < j THEN NodeAt(k + 1) ELSE NodeAt(k + 1 + 1)
            BY <1>1, <3>1, NodeAtUnlinked
        <3>3. NodeAt(k - 1)' = IF k - 1 < j THEN NodeAt(k - 1) ELSE NodeAt(k - 1 + 1)
            BY <1>1, <3>1, NodeAtUnlinked
        <3>. QED
            BY <3>1, <3>2, <3>3
    <2>5. /\ heap[nodes[h]] \in Node
          /\ heap[nodes[h]].data \in Datum
          /\ heap[nodes[h]].next = NodeAt(h + 1)
          /\ heap[nodes[h]].prev = NodeAt(h - 1)
        BY <2>1, InOrder
    <2>6. heap'[nodes[h]] =
              IF h = j - 1 THEN [heap[nodes[h]] EXCEPT !.next = NodeAt(j + 1)]
              ELSE IF h = j + 1 THEN [heap[nodes[h]] EXCEPT !.prev = NodeAt(j - 1)]
              ELSE heap[nodes[h]]
        BY <2>1, <2>2, <2>3 DEF Unlinked
    <2>7. /\ heap'[nodes[h]].data \in Datum
          /\ heap'[nodes[h]].next = IF h = j - 1 THEN NodeAt(j + 1) ELSE NodeAt(h + 1)
          /\ heap'[nodes[h]].prev = IF h = j + 1 THEN NodeAt(j - 1) ELSE NodeAt(h - 1)
        BY <2>5, <2>6 DEF Node
    <2>8. CASE k < j
        BY <2>1, <2>4, <2>7, <2>8, NodeFacts
    <2>9. CASE ~(k < j)
        BY <2>1, <2>4, <2>7, <2>9, NodeFacts
    <2>. QED
        BY <2>8, <2>9
<1>8. live' \subseteq Address /\ head' \in Pointer /\ tail' \in Pointer
    BY <1>2, InOrder DEF Unlinked, ListInv, ListTypeOK
<1>9. size' = Len(nodes') /\ size' \in Nat
    BY <1>1, InOrder, NodeFacts DEF Unlinked
<1>. QED
    BY <1>1, <1>3, <1>4, <1>5, <1>6, <1>7, <1>8, <1>9

LEMMA PopfrontKeeps ==
    ASSUME ListInv, list_popfront
    PROVE  ListInv'
<1>1. op = "none" /\ op' = "none" /\ UNCHANGED <<node, needle, array, at>>
    BY DEF list_popfront, Rest
<1>2. 1 \in 1..Len(nodes) /\ Orderly
    BY <1>1, AtRest, NodeFacts DEF list_popfront, Orderly
<1>3. nodes # <<>> /\ nodes \in Seq(Address)
    BY <1>2 DEF ListInv, ListTypeOK
<1>4. /\ head = nodes[1] /\ NodeAt(0) = Null
      /\ heap[head].next = NodeAt(2)
      /\ NodeAt(2) = Null <=> Len(nodes) = 1
    BY <1>1, <1>2, AtRest, NodeFacts DEF NodeAt
<1>5. Unlinked(1)
    <2>1. heap' = [b \in Address |->
                     CASE b = nodes[1]  -> Freed(heap[b])
                       [] b = NodeAt(0) -> [heap[b] EXCEPT !.next = NodeAt(2)]
                       [] b = NodeAt(2) -> [heap[b] EXCEPT !.prev = NodeAt(0)]
                       [] OTHER         -> heap[b]]
        <3>1. \A b \in Address : b # NodeAt(0)
            BY <1>4, NullAssumption
        <3>2. nodes[1] # NodeAt(2)
            BY <1>2, NodeFacts DEF NodeAt
        <3>. QED
            BY <1>4, <3>1, <3>2 DEF list_popfront
    <2>2. /\ live' = live \ {nodes[1]} /\ size' = size - 1
          /\ head' = NodeAt(2)
        BY <1>4 DEF list_popfront
    <2>3. tail' = IF 1 = Len(nodes) THEN NodeAt(0) ELSE tail
        BY <1>4 DEF list_popfront
    <2>4. /\ nodes' \in Seq(Address) /\ Len(nodes') = Len(nodes) - 1
          /\ \A k \in 1..(Len(nodes) - 1) : nodes'[k] = nodes[k + 1]
        BY <1>3, TailElements DEF list_popfront
    <2>5. 1 - 1 = 0 /\ 1 + 1 = 2 /\ \A k \in 1..(Len(nodes) - 1) : ~(k < 1)
        BY NodeFacts
    <2>. QED
        BY <2>1, <2>2, <2>3, <2>4, <2>5 DEF Unlinked
<1>. QED
    BY <1>1, <1>2, <1>5, UnlinkKeeps
       DEF ListInv, ListTypeOK, Linked, Turned, ArrayFollows

LEMMA PopbackKeeps ==
    ASSUME ListInv, list_popback
    PROVE  ListInv'
<1>. DEFINE n == Len(nodes)
<1>1. op = "none" /\ op' = "none" /\ UNCHANGED <<node, needle, array, at>>
    BY DEF list_popback, Rest
<1>2. n \in 1..Len(nodes) /\ n \in Nat /\ Orderly
    BY <1>1, AtRest, NodeFacts DEF list_popback, Orderly
<1>3. nodes # <<>> /\ nodes \in Seq(Address)
    BY <1>2 DEF ListInv, ListTypeOK
<1>4. /\ tail = nodes[n] /\ NodeAt(n + 1) = Null
      /\ heap[tail].prev = NodeAt(n - 1)
      /\ NodeAt(n - 1) = Null <=> n = 1
    <2>1. tail = nodes[n]
        BY <1>1, <1>2, AtRest DEF NodeAt
    <2>2. NodeAt(n + 1) = Null
        BY <1>2 DEF NodeAt
    <2>3. NodeAt(n - 1) = Null <=> n = 1
        BY <1>2, NodeFacts DEF NodeAt
    <2>. QED
        BY <1>1, <1>2, <2>1, <2>2, <2>3, AtRest
<1>5. Unlinked(n)
    <2>1. heap' = [b \in Address |->
                     CASE b = nodes[n]      -> Freed(heap[b])
                       [] b = NodeAt(n - 1) -> [heap[b] EXCEPT !.next = NodeAt(n + 1)]
                       [] b = NodeAt(n + 1) -> [heap[b] EXCEPT !.prev = NodeAt(n - 1)]
                       [] OTHER             -> heap[b]]
        <3>1. \A b \in Address : b # NodeAt(n + 1)
            BY <1>4, NullAssumption
        <3>2. nodes[n] # NodeAt(n - 1)
            BY <1>2, NodeFacts DEF NodeAt
        <3>. QED
            BY <1>4, <3>1, <3>2 DEF list_popback
    <2>2. live' = live \ {nodes[n]} /\ size' = size - 1
        BY <1>4 DEF list_popback
    <2>3. tail' = NodeAt(n - 1)
        BY <1>4 DEF list_popback
    <2>4. head' = IF n = 1 THEN NodeAt(2) ELSE head
        BY <1>2, <1>4 DEF list_popback, NodeAt
    <2>5. /\ nodes' \in Seq(Address) /\ Len(nodes') = Len(nodes) - 1
          /\ \A k \in 1..(Len(nodes) - 1) : nodes'[k] = nodes[k]
        BY <1>3, FrontElements DEF list_popback
    <2>6. \A k \in 1..(Len(nodes) - 1) : k < n
        BY <1>2
    <2>. QED
        BY <2>1, <2>2, <2>3, <2>4, <2>5, <2>6 DEF Unlinked
<1>. QED
    BY <1>1, <1>2, <1>5, UnlinkKeeps
       DEF ListInv, ListTypeOK, Linked, Turned, ArrayFollows

-----------------------------------------------------------------------------
(* The functions that walk.                                                *)

(* While a function walks, its node is where it says.                      *)
LEMMA OnItsNode ==
    ASSUME ListInv, op # "none"
    PROVE  /\ at \in 1..(Len(nodes) + 1) /\ at \in Nat /\ node = NodeAt(at)
           /\ node # Null <=> at \in 1..Len(nodes)
           /\ node # Null => node = nodes[at]
BY NodeFacts DEF ListInv, Linked, NodeAt

(* A step that moves the node on and leaves the list alone.                *)
LEMMA FrameKeeps ==
    ASSUME ListInv, Orderly, Orderly', UNCHANGED <<heap, live, head, tail, size, nodes>>,
           needle' \in Datum \cup {Null}, array' \in Seq(Datum), op' \in Loop \cup {"none"},
           at' \in 1..(Len(nodes) + 1), node' \in Pointer,
           op' # "none" => node' = NodeAt(at'),
           ArrayFollows'
    PROVE  ListInv'
<1>1. ListTypeOK'
    BY NodeFacts DEF ListInv, ListTypeOK
<1>2. op' # "none" => node' = NodeAt(at)'
    BY DEF NodeAt
<1>3. Linked'
    BY <1>2, InOrder DEF ListInv, Linked, NodeAt, Turned, Orderly
<1>. QED
    BY <1>1, <1>3 DEF ListInv

LEMMA EnterKeeps ==
    ASSUME ListInv, NEW f \in Loop \ {"reverse", "destroy", "getall"},
           NEW d \in Datum, Enter(f, d)
    PROVE  ListInv'
<1>1. /\ op = "none" /\ op' = f /\ node' = head /\ at' = 1 /\ needle' = d
      /\ UNCHANGED <<heap, live, head, tail, size, array, nodes>>
    BY DEF Enter, Begin
<1>2. Orderly /\ Orderly' /\ head = NodeAt(1) /\ head \in Pointer
    BY <1>1, AtRest DEF Orderly, Loop
<1>3. at' \in 1..(Len(nodes) + 1)
    BY <1>1, NodeFacts
<1>4. ArrayFollows'
    BY <1>1 DEF ArrayFollows, Loop
<1>5. needle' \in Datum \cup {Null} /\ array' \in Seq(Datum) /\ op' \in Loop \cup {"none"}
    BY <1>1 DEF ListInv, ListTypeOK
<1>6. node' \in Pointer /\ node' = NodeAt(at')
    BY <1>1, <1>2
<1>. QED
    BY <1>1, <1>2, <1>3, <1>4, <1>5, <1>6, FrameKeeps

LEMMA GetallKeeps ==
    ASSUME ListInv, client_getall
    PROVE  ListInv'
<1>1. /\ op = "none" /\ op' = "getall" /\ node' = head /\ at' = 1 /\ array' = <<>>
      /\ UNCHANGED <<heap, live, head, tail, size, needle, nodes>>
    BY DEF client_getall, Begin
<1>2. Orderly /\ Orderly' /\ head = NodeAt(1) /\ head \in Pointer
    BY <1>1, AtRest DEF Orderly
<1>3. at' \in 1..(Len(nodes) + 1)
    BY <1>1, NodeFacts
<1>4. ArrayFollows' /\ array' \in Seq(Datum)
    BY <1>1, EmptySeq DEF ArrayFollows
<1>5. needle' \in Datum \cup {Null} /\ op' \in Loop \cup {"none"}
    BY <1>1 DEF ListInv, ListTypeOK, Loop
<1>6. node' \in Pointer /\ node' = NodeAt(at')
    BY <1>1, <1>2
<1>. QED
    BY <1>1, <1>2, <1>3, <1>4, <1>5, <1>6, FrameKeeps

(* A function that walks, and has changed nothing, returns.                *)
LEMMA LeaveKeeps ==
    ASSUME ListInv, Orderly, Leave, UNCHANGED <<heap, live, head, tail, size, nodes>>,
           array' \in Seq(Datum)
    PROVE  ListInv'
<1>1. op' = "none" /\ node' = Null /\ needle' = Null /\ at' = 1
    BY DEF Leave
<1>2. Orderly' /\ ArrayFollows'
    BY <1>1 DEF Orderly, ArrayFollows
<1>3. at' \in 1..(Len(nodes) + 1) /\ node' \in Pointer
    BY <1>1, NodeFacts DEF Pointer
<1>. QED
    BY <1>1, <1>2, <1>3, FrameKeeps

(* It goes on to the next node.                                            *)
LEMMA AdvanceKeeps ==
    ASSUME ListInv, Orderly, op # "none", node # Null, Advance(heap[node].next),
           UNCHANGED <<heap, live, head, tail, size, nodes>>,
           array' \in Seq(Datum), ArrayFollows'
    PROVE  ListInv'
<1>1. node' = heap[node].next /\ at' = at + 1 /\ op' = op /\ needle' = needle
    BY DEF Advance
<1>2. at \in 1..Len(nodes) /\ node = nodes[at] /\ at \in Nat
    BY OnItsNode
<1>3. node' = NodeAt(at') /\ at' \in 1..(Len(nodes) + 1)
    BY <1>1, <1>2, InOrder, NodeFacts
<1>4. node' \in Pointer
    BY <1>1, <1>2, <1>3, NodeAtIsPointer
<1>5. needle' \in Datum \cup {Null} /\ op' \in Loop \cup {"none"} /\ Orderly'
    BY <1>1 DEF ListInv, ListTypeOK, Orderly
<1>. QED
    BY <1>3, <1>4, <1>5, FrameKeeps

(* The datum of the node is one of the items.                              *)
LEMMA DatumOfNode ==
    ASSUME ListInv, Orderly, op # "none", node # Null
    PROVE  heap[node].data \in Datum
BY OnItsNode, InOrder

LEMMA SearchKeeps ==
    ASSUME ListInv, SearchStep \/ NotFound
    PROVE  ListInv'
<1>1. op = "search" /\ Orderly /\ UNCHANGED <<heap, live, head, tail, size, nodes>>
    BY DEF SearchStep, NotFound, Orderly
<1>2. CASE SearchStep /\ Matches
    <2>1. Leave /\ array' = <<heap[node].data>>
        BY <1>2 DEF SearchStep
    <2>2. array' \in Seq(Datum)
        <3>1. heap[node].data \in Datum
            BY <1>1, <1>2, DatumOfNode DEF SearchStep
        <3>. QED
            BY <2>1, <3>1
    <2>. QED
        BY <1>1, <2>1, <2>2, LeaveKeeps
<1>3. CASE SearchStep /\ ~Matches
    <2>1. Advance(heap[node].next) /\ node # Null /\ array' = array
        BY <1>3 DEF SearchStep
    <2>2. array' \in Seq(Datum) /\ ArrayFollows'
        BY <1>1, <2>1 DEF ListInv, ListTypeOK, ArrayFollows, Advance
    <2>. QED
        BY <1>1, <2>1, <2>2, AdvanceKeeps
<1>4. CASE NotFound
    <2>1. Leave /\ array' \in Seq(Datum)
        BY <1>4, EmptySeq DEF NotFound
    <2>. QED
        BY <1>1, <2>1, LeaveKeeps
<1>. QED
    BY <1>2, <1>3, <1>4

LEMMA IterKeeps ==
    ASSUME ListInv, iter_next
    PROVE  ListInv'
<1>1. /\ op = "getall" /\ node # Null /\ Orderly
      /\ array' = Append(array, heap[node].data)
      /\ Advance(heap[node].next)
      /\ UNCHANGED <<heap, live, head, tail, size, nodes>>
    BY DEF iter_next, Orderly
<1>2. heap[node].data \in Datum /\ array \in Seq(Datum) /\ Len(array) = at - 1
    BY <1>1, DatumOfNode DEF ListInv, ListTypeOK, ArrayFollows
<1>3. array' \in Seq(Datum) /\ Len(array') = Len(array) + 1
    BY <1>1, <1>2, AppendProperties
<1>4. ArrayFollows'
    BY <1>1, <1>2, <1>3, OnItsNode DEF ArrayFollows, Advance
<1>. QED
    BY <1>1, <1>3, <1>4, AdvanceKeeps

LEMMA RemoveKeeps ==
    ASSUME ListInv, RemoveStep
    PROVE  ListInv'
<1>1. op \in {"remove", "remove_first"} /\ node # Null /\ Orderly /\ array' = array
    BY DEF RemoveStep, Orderly
<1>2. CASE ~Matches
    <2>1. Advance(heap[node].next) /\ UNCHANGED <<heap, live, head, tail, size, nodes>>
        BY <1>2 DEF RemoveStep
    <2>2. array' \in Seq(Datum) /\ ArrayFollows'
        BY <1>1, <2>1 DEF ListInv, ListTypeOK, ArrayFollows, Advance
    <2>. QED
        BY <1>1, <2>1, <2>2, AdvanceKeeps
<1>3. CASE Matches
    <2>1. at \in 1..Len(nodes) /\ at \in Nat /\ node = nodes[at] /\ node \in Address
        BY <1>1, OnItsNode, NodeFacts
    <2>2. Drop
        BY <1>3 DEF RemoveStep
    <2>3. heap[node].prev = NodeAt(at - 1) /\ heap[node].next = NodeAt(at + 1)
        BY <1>1, <2>1, InOrder
    <2>4. /\ NodeAt(at - 1) = Null <=> at = 1
          /\ NodeAt(at + 1) = Null <=> at = Len(nodes)
        <3>1. NodeAt(at - 1) = Null <=> at = 1
            BY <2>1, NodeFacts DEF NodeAt
        <3>2. NodeAt(at + 1) = Null <=> at = Len(nodes)
            <4>1. Len(nodes) \in Nat /\ \A k \in 1..Len(nodes) : nodes[k] # Null
                BY NodeFacts
            <4>2. at + 1 \in 1..Len(nodes) <=> at # Len(nodes)
                BY <2>1, <4>1
            <4>. QED
                BY <4>1, <4>2 DEF NodeAt
        <3>. QED
            BY <3>1, <3>2
    <2>5. Unlinked(at)
        <3>1. heap' = [b \in Address |->
                        CASE b = nodes[at]      -> Freed(heap[b])
                         [] b = NodeAt(at - 1) -> [heap[b] EXCEPT !.next = NodeAt(at + 1)]
                         [] b = NodeAt(at + 1) -> [heap[b] EXCEPT !.prev = NodeAt(at - 1)]
                         [] OTHER              -> heap[b]]
            BY <2>1, <2>2, <2>3 DEF Drop, remove_node
        <3>2. /\ live' = live \ {nodes[at]} /\ size' = size - 1
              /\ head' = IF at = 1 THEN NodeAt(at + 1) ELSE head
              /\ tail' = IF at = Len(nodes) THEN NodeAt(at - 1) ELSE tail
            BY <2>1, <2>2, <2>3, <2>4 DEF Drop, remove_node
        <3>3. head' = IF at = 1 THEN NodeAt(2) ELSE head
            BY <3>2
        <3>4. /\ nodes' \in Seq(Address) /\ Len(nodes') = Len(nodes) - 1
              /\ \A k \in 1..(Len(nodes) - 1) :
                    nodes'[k] = IF k < at THEN nodes[k] ELSE nodes[k + 1]
            BY <2>1, <2>2, RemoveAtElements DEF Drop, ListInv, ListTypeOK
        <3>. QED
            BY <3>1, <3>2, <3>3, <3>4 DEF Unlinked
    <2>6. CASE op = "remove_first"
        <3>1. op' = "none" /\ node' = Null /\ needle' = Null /\ at' = 1
            BY <1>3, <2>6 DEF RemoveStep, Leave
        <3>. QED
            BY <1>1, <2>1, <2>5, <3>1, UnlinkKeeps
               DEF ListInv, ListTypeOK, Linked, Turned, ArrayFollows, Pointer
    <2>7. CASE op = "remove"
        <3>1. node' = heap'[node].next /\ op' = op /\ needle' = needle /\ at' = at
            BY <1>3, <2>7 DEF RemoveStep
        <3>2. heap'[node].next = heap[node].next
            <4>1. heap[node] \in Node
                BY <1>1, <2>1, InOrder
            <4>2. heap'[node] = Freed(heap[node])
                <5>1. node # NodeAt(at - 1) /\ node # NodeAt(at + 1)
                    BY <2>1, NodeFacts DEF NodeAt
                <5>. QED
                    BY <2>1, <2>5, <5>1 DEF Unlinked
            <4>. QED
                BY <4>1, <4>2 DEF Freed, Node
        <3>3. node' = NodeAt(at)' /\ node' \in Pointer
            <4>1. NodeAt(at)' = NodeAt(at + 1)
                <5>1. nodes' \in Seq(Address) /\ Len(nodes') = Len(nodes) - 1
                    BY <2>5 DEF Unlinked
                <5>2. CASE at = Len(nodes)
                    BY <2>1, <2>4, <3>1, <5>1, <5>2, NodeFacts DEF NodeAt
                <5>3. CASE at # Len(nodes)
                    <6>1. at \in 1..Len(nodes') /\ at + 1 \in 1..Len(nodes)
                        BY <2>1, <5>1, <5>3, NodeFacts
                    <6>2. nodes'[at] = nodes[at + 1]
                        BY <2>1, <2>5, <5>1, <6>1 DEF Unlinked
                    <6>. QED
                        BY <3>1, <6>1, <6>2 DEF NodeAt
                <5>. QED
                    BY <5>2, <5>3
            <4>. QED
                BY <2>1, <2>3, <3>1, <3>2, <4>1, NodeAtIsPointer
        <3>4. at' \in 1..(Len(nodes') + 1)
            BY <2>1, <2>5, <3>1, NodeFacts DEF Unlinked
        <3>. QED
            BY <1>1, <2>1, <2>5, <2>7, <3>1, <3>3, <3>4, UnlinkKeeps
               DEF ListInv, ListTypeOK, Linked, Turned, ArrayFollows, Pointer
    <2>. QED
        BY <1>1, <2>6, <2>7
<1>. QED
    BY <1>2, <1>3

LEMMA ReverseKeeps ==
    ASSUME ListInv, list_reverse
    PROVE  ListInv'
<1>1. /\ op = "none" /\ op' = "reverse" /\ head' = tail /\ tail' = head
      /\ node' = tail /\ at' = 1 /\ nodes' = Reverse(nodes)
      /\ UNCHANGED <<heap, live, size, needle, array>>
    BY DEF list_reverse
<1>2. /\ nodes' \in Seq(Address) /\ Len(nodes') = Len(nodes)
      /\ \A k \in 1..Len(nodes) : nodes'[k] = nodes[Len(nodes) - k + 1]
    BY <1>1, ReverseElements DEF ListInv, ListTypeOK
<1>3. \A k \in 1..Len(nodes) : Len(nodes) - k + 1 \in 1..Len(nodes)
    BY NodeFacts
<1>4. ListTypeOK'
    BY <1>1, <1>2 DEF ListInv, ListTypeOK, Loop
<1>5. IsInjective(nodes') /\ live' = Range(nodes')
    <2>1. \A j, k \in 1..Len(nodes') : nodes'[j] = nodes'[k] => j = k
        <3>1. ASSUME NEW j \in 1..Len(nodes), NEW k \in 1..Len(nodes), nodes'[j] = nodes'[k]
              PROVE  j = k
            <4>1. nodes[Len(nodes) - j + 1] = nodes[Len(nodes) - k + 1]
                BY <1>2, <3>1
            <4>2. \A m, n \in 1..Len(nodes) : nodes[m] = nodes[n] => m = n
                BY NodeFacts
            <4>3. Len(nodes) - j + 1 = Len(nodes) - k + 1
                BY <1>3, <4>1, <4>2
            <4>. QED
                BY <4>3, NodeFacts
        <3>. QED
            BY <1>2, <3>1
    <2>2. \A k \in 1..Len(nodes') : nodes'[k] \in live'
        BY <1>1, <1>2, <1>3, NodeFacts
    <2>3. ASSUME NEW a \in live' PROVE \E k \in 1..Len(nodes') : a = nodes'[k]
        <3>1. PICK k \in 1..Len(nodes) : a = nodes[k]
            BY <1>1, NodeFacts
        <3>2. /\ Len(nodes) - k + 1 \in 1..Len(nodes)
              /\ Len(nodes) - (Len(nodes) - k + 1) + 1 = k
            BY <3>1, NodeFacts
        <3>. QED
            BY <1>2, <3>1, <3>2
    <2>. QED
        BY <1>2, <2>1, <2>2, <2>3, OneToOne
<1>6. ASSUME NEW k \in Int
      PROVE  NodeAt(k)' = NodeAt(Len(nodes) - k + 1)
    <2>1. CASE k \in 1..Len(nodes)
        BY <1>2, <1>3, <2>1 DEF NodeAt
    <2>2. CASE k \notin 1..Len(nodes)
        <3>1. Len(nodes) - k + 1 \notin 1..Len(nodes)
            BY <2>2, NodeFacts
        <3>. QED
            BY <1>2, <2>2, <3>1 DEF NodeAt
    <2>. QED
        BY <2>1, <2>2
<1>7. head' = NodeAt(1)' /\ tail' = NodeAt(Len(nodes))' /\ size' = Len(nodes')
    <2>1. Len(nodes) - 1 + 1 = Len(nodes) /\ Len(nodes) - Len(nodes) + 1 = 1 /\ Len(nodes) \in Int
        BY NodeFacts
    <2>2. NodeAt(1)' = NodeAt(Len(nodes))
        BY <1>6, <2>1
    <2>3. NodeAt(Len(nodes))' = NodeAt(1)
        <3>1. \A k \in Int : k = Len(nodes) => NodeAt(k)' = NodeAt(1)
            BY <1>6, <2>1
        <3>2. NodeAt(Len(nodes))' = IF Len(nodes') \in 1..Len(nodes') THEN nodes'[Len(nodes')] ELSE Null
            BY DEF NodeAt
        <3>3. CASE Len(nodes) = 0
            BY <1>2, <3>2, <3>3 DEF NodeAt
        <3>4. CASE Len(nodes) # 0
            <4>1. Len(nodes) \in 1..Len(nodes) /\ 1 \in 1..Len(nodes)
                BY <3>4, NodeFacts
            <4>. QED
                BY <1>2, <2>1, <3>2, <4>1 DEF NodeAt
        <3>. QED
            BY <3>3, <3>4
    <2>. QED
        BY <1>1, <1>2, <2>2, <2>3, AtRest
<1>8. at' \in 1..(Len(nodes') + 1) /\ node' = NodeAt(at)'
    BY <1>1, <1>2, <1>7, NodeFacts, AtRest DEF NodeAt
<1>9. ASSUME NEW k \in 1..Len(nodes')
      PROVE  /\ heap'[nodes'[k]].data \in Datum
             /\ heap'[nodes'[k]].next = NodeAt(k - 1)'
             /\ heap'[nodes'[k]].prev = NodeAt(k + 1)'
    <2>. DEFINE h == Len(nodes) - k + 1
    <2>0. Len(nodes) \in Nat /\ k \in 1..Len(nodes)
        BY <1>2, NodeFacts
    <2>1. /\ h \in 1..Len(nodes) /\ nodes'[k] = nodes[h]
          /\ k \in Nat /\ Len(nodes) \in Nat /\ k - 1 \in Int /\ k + 1 \in Int
        BY <1>2, <1>3, <2>0
    <2>2. Len(nodes) - (k - 1) + 1 = h + 1 /\ Len(nodes) - (k + 1) + 1 = h - 1
        BY <2>1
    <2>3. NodeAt(k - 1)' = NodeAt(h + 1) /\ NodeAt(k + 1)' = NodeAt(h - 1)
        BY <1>6, <2>1, <2>2
    <2>. QED
        BY <1>1, <2>1, <2>3, AtRest
<1>10. \A k \in 1..Len(nodes') : Turned(k)'
    BY <1>1, <1>2, NodeFacts DEF Turned
<1>. QED
    BY <1>1, <1>4, <1>5, <1>7, <1>8, <1>9, <1>10 DEF ListInv, Linked, ArrayFollows

LEMMA ReverseStepKeeps ==
    ASSUME ListInv, ReverseStep
    PROVE  ListInv'
<1>1. /\ op = "reverse" /\ op' = "reverse" /\ node # Null
      /\ heap' = [heap EXCEPT ![node].prev = heap[node].next,
                              ![node].next = heap[node].prev]
      /\ node' = heap'[node].next /\ at' = at + 1
      /\ UNCHANGED <<live, head, tail, size, needle, array, nodes>>
    BY DEF ReverseStep, Advance
<1>2. at \in 1..Len(nodes) /\ at \in Nat /\ node = nodes[at] /\ node \in Address
    BY <1>1, OnItsNode, NodeFacts
<1>3. /\ heap \in [Address -> Node]
      /\ heap[node].data \in Datum
      /\ heap[node].next = NodeAt(at - 1) /\ heap[node].prev = NodeAt(at + 1)
    BY <1>1, <1>2 DEF ListInv, ListTypeOK, Linked, Turned
<1>4. /\ heap'[node].data = heap[node].data
      /\ heap'[node].next = heap[node].prev /\ heap'[node].prev = heap[node].next
      /\ \A a \in Address \ {node} : heap'[a] = heap[a]
    BY <1>1, <1>2, <1>3 DEF Node
<1>5. heap' \in [Address -> Node]
    BY <1>1, <1>2, <1>3 DEF Node
<1>6. \A k \in Int : NodeAt(k)' = NodeAt(k)
    BY <1>1 DEF NodeAt
<1>7. node' = NodeAt(at)' /\ at' \in 1..(Len(nodes') + 1) /\ node' \in Pointer
    <2>1. node' = NodeAt(at + 1)
        BY <1>1, <1>3, <1>4
    <2>2. NodeAt(at)' = NodeAt(at + 1)
        BY <1>1 DEF NodeAt
    <2>. QED
        BY <1>1, <1>2, <2>1, <2>2, NodeAtIsPointer, NodeFacts
<1>8. ListTypeOK'
    BY <1>1, <1>2, <1>5, <1>7 DEF ListInv, ListTypeOK
<1>9. ASSUME NEW k \in 1..Len(nodes')
      PROVE  /\ heap'[nodes'[k]].data \in Datum
             /\ heap'[nodes'[k]].next = IF Turned(k)' THEN NodeAt(k - 1)' ELSE NodeAt(k + 1)'
             /\ heap'[nodes'[k]].prev = IF Turned(k)' THEN NodeAt(k + 1)' ELSE NodeAt(k - 1)'
    <2>1. k \in 1..Len(nodes) /\ k \in Nat /\ k - 1 \in Int /\ k + 1 \in Int
        BY <1>1, NodeFacts
    <2>2. NodeAt(k - 1)' = NodeAt(k - 1) /\ NodeAt(k + 1)' = NodeAt(k + 1)
        BY <1>6, <2>1
    <2>3. CASE k = at
        <3>1. ~Turned(k)' /\ nodes'[k] = node
            BY <1>1, <1>2, <2>3 DEF Turned
        <3>. QED
            BY <1>3, <1>4, <2>2, <2>3, <3>1
    <2>4. CASE k # at
        <3>1. nodes'[k] = nodes[k] /\ nodes[k] \in Address \ {node}
            BY <1>1, <1>2, <2>1, <2>4, NodeFacts
        <3>2. Turned(k)' <=> Turned(k)
            BY <1>1, <1>2, <2>1, <2>4 DEF Turned
        <3>3. /\ heap[nodes[k]].data \in Datum
              /\ heap[nodes[k]].next = IF Turned(k) THEN NodeAt(k - 1) ELSE NodeAt(k + 1)
              /\ heap[nodes[k]].prev = IF Turned(k) THEN NodeAt(k + 1) ELSE NodeAt(k - 1)
            BY <1>1, <2>1 DEF ListInv, Linked
        <3>. QED
            BY <1>4, <2>2, <3>1, <3>2, <3>3
    <2>. QED
        BY <2>3, <2>4
<1>10. head' = NodeAt(1)' /\ tail' = NodeAt(Len(nodes))' /\ size' = Len(nodes')
    BY <1>1 DEF ListInv, Linked, NodeAt
<1>11. IsInjective(nodes') /\ live' = Range(nodes')
    BY <1>1 DEF ListInv, Linked
<1>. QED
    BY <1>1, <1>7, <1>8, <1>9, <1>10, <1>11 DEF ListInv, Linked, ArrayFollows

LEMMA DestroyKeeps ==
    ASSUME ListInv, list_destroy
    PROVE  ListInv'
<1>1. /\ op = "none" /\ op' = "destroy" /\ node' = head /\ at' = 1 /\ needle' = Null
      /\ UNCHANGED <<heap, live, head, tail, size, array, nodes>>
    BY DEF list_destroy, Enter, Begin
<1>2. at' \in 1..(Len(nodes') + 1) /\ node' = NodeAt(at)'
    BY <1>1, AtRest, NodeFacts DEF NodeAt
<1>3. ListTypeOK'
    BY <1>1, AtRest DEF ListInv, ListTypeOK, Loop
<1>. QED
    BY <1>1, <1>2, <1>3 DEF ListInv, Linked, Turned, ArrayFollows, NodeAt

LEMMA DestroyStepKeeps ==
    ASSUME ListInv, DestroyStep
    PROVE  ListInv'
<1>1. /\ op = "destroy" /\ op' = "destroy" /\ node # Null
      /\ node' = heap[node].next
      /\ heap' = [heap EXCEPT ![node] = Freed(@)]
      /\ live' = live \ {node} /\ nodes' = Tail(nodes)
      /\ UNCHANGED <<head, tail, size, needle, array, at>>
    BY DEF DestroyStep
<1>2. /\ 1 \in 1..Len(nodes) /\ at = 1 /\ node = nodes[1] /\ node \in Address
      /\ nodes # <<>> /\ nodes \in Seq(Address)
    <2>1. at = 1 /\ nodes \in Seq(Address)
        BY <1>1 DEF ListInv, ListTypeOK, Linked
    <2>2. 1 \in 1..Len(nodes) /\ node = nodes[1] /\ node \in Address
        BY <1>1, <2>1, OnItsNode, NodeFacts
    <2>3. nodes # <<>>
        BY <2>2
    <2>. QED
        BY <2>1, <2>2, <2>3
<1>3. /\ nodes' \in Seq(Address) /\ Len(nodes') = Len(nodes) - 1
      /\ \A k \in 1..(Len(nodes) - 1) : nodes'[k] = nodes[k + 1]
    <2>1. nodes' = Tail(nodes)
        BY <1>1
    <2>2. nodes # <<>> /\ nodes \in Seq(Address)
        BY <1>2
    <2>3. /\ Tail(nodes) \in Seq(Address) /\ Len(Tail(nodes)) = Len(nodes) - 1
          /\ \A k \in 1..(Len(nodes) - 1) : Tail(nodes)[k] = nodes[k + 1]
        BY <2>2, TailElements
    <2>. QED
        BY <2>1, <2>3
<1>4. IsInjective(nodes') /\ live' = Range(nodes')
    <2>1. \A k \in 1..(Len(nodes) - 1) : nodes'[k] = IF k < 1 THEN nodes[k] ELSE nodes[k + 1]
        BY <1>3, NodeFacts
    <2>. QED
        BY <1>1, <1>2, <1>3, <2>1, OneLess
<1>5. heap \in [Address -> Node]
      /\ \A k \in 1..Len(nodes) : heap[nodes[k]].data \in Datum /\ heap[nodes[k]].next = NodeAt(k + 1)
    BY <1>1 DEF ListInv, ListTypeOK, Linked, Turned
<1>6. heap' \in [Address -> Node]
    <2>1. heap[node] \in Node /\ Null \in Pointer /\ Null \in Datum \cup {Null}
        BY <1>2, <1>5 DEF Pointer
    <2>2. Freed(heap[node]) \in Node
        BY <2>1 DEF Node, Freed
    <2>. QED
        BY <1>1, <1>2, <1>5, <2>2
<1>7. ASSUME NEW k \in Nat \ {0}
      PROVE  NodeAt(k)' = NodeAt(k + 1)
    <2>1. CASE k \in 1..(Len(nodes) - 1)
        <3>1. k + 1 \in 1..Len(nodes) /\ k \in 1..Len(nodes')
            BY <1>3, <2>1, NodeFacts
        <3>. QED
            BY <1>3, <2>1, <3>1 DEF NodeAt
    <2>2. CASE k \notin 1..(Len(nodes) - 1)
        <3>1. k + 1 \notin 1..Len(nodes) /\ k \notin 1..Len(nodes')
            BY <1>3, <2>2, NodeFacts
        <3>. QED
            BY <3>1 DEF NodeAt
    <2>. QED
        BY <2>1, <2>2
<1>8. /\ at' = 1 /\ at' \in 1..(Len(nodes') + 1)
      /\ node' = NodeAt(1)' /\ node' \in Pointer
    <2>1. node' = NodeAt(1 + 1) /\ NodeAt(1)' = NodeAt(1 + 1)
        <3>1. heap[nodes[1]].next = NodeAt(1 + 1)
            BY <1>2, <1>5
        <3>2. node' = heap[nodes[1]].next
            BY <1>1, <1>2
        <3>. QED
            BY <1>7, <3>1, <3>2
    <2>2. NodeAt(1 + 1) \in Pointer
        BY NodeAtIsPointer
    <2>. QED
        BY <1>1, <1>2, <1>3, <2>1, <2>2, NodeFacts
<1>9. node' = NodeAt(at)'
    BY <1>8 DEF NodeAt
<1>10. ASSUME NEW k \in 1..Len(nodes')
       PROVE  heap'[nodes'[k]].data \in Datum /\ heap'[nodes'[k]].next = NodeAt(k + 1)'
    <2>1. /\ Len(nodes) \in Nat /\ k \in 1..(Len(nodes) - 1) /\ k + 1 \in 1..Len(nodes)
          /\ k + 1 \in Nat \ {0} /\ k + 1 # 1
        BY <1>3, NodeFacts
    <2>2. nodes'[k] = nodes[k + 1] /\ nodes[k + 1] \in Address /\ nodes[k + 1] # node
        BY <1>2, <1>3, <2>1, NodeFacts
    <2>3. heap'[nodes'[k]] = heap[nodes[k + 1]]
        BY <1>1, <1>5, <2>2
    <2>. QED
        BY <1>5, <1>7, <2>1, <2>3
<1>11. ListTypeOK'
    BY <1>1, <1>3, <1>6, <1>8 DEF ListInv, ListTypeOK
<1>. QED
    BY <1>1, <1>4, <1>8, <1>9, <1>10, <1>11 DEF ListInv, Linked, Turned, ArrayFollows

LEMMA RenewKeeps ==
    ASSUME ListInv, Renew
    PROVE  ListInv'
<1>1. /\ op = "destroy" /\ node = Null /\ op' = "none" /\ node' = Null /\ needle' = Null
      /\ at' = 1 /\ head' = Null /\ tail' = Null /\ size' = 0
      /\ UNCHANGED <<heap, live, array, nodes>>
    BY DEF Renew, Leave
<1>2. Len(nodes) = 0
    BY <1>1, OnItsNode, NodeFacts DEF ListInv, Linked
<1>3. ListTypeOK'
    BY <1>1 DEF ListInv, ListTypeOK, Pointer
<1>. QED
    BY <1>1, <1>2, <1>3 DEF ListInv, Linked, Turned, ArrayFollows, NodeAt

LEMMA WalkEndsKeeps ==
    ASSUME ListInv, WalkEnds
    PROVE  ListInv'
<1>1. /\ op \in {"remove", "remove_first", "reverse", "getall"} /\ node = Null /\ Leave
      /\ UNCHANGED <<heap, live, head, tail, size, array, nodes>>
    BY DEF WalkEnds
<1>2. CASE op # "reverse"
    BY <1>1, <1>2, LeaveKeeps DEF Orderly, ListInv, ListTypeOK
<1>3. CASE op = "reverse"
    <2>1. op' = "none" /\ node' = Null /\ needle' = Null /\ at' = 1
        BY <1>1 DEF Leave
    <2>2. \A k \in 1..Len(nodes) : ~Turned(k) /\ ~Turned(k)'
        BY <1>1, <1>3, <2>1, OnItsNode, NodeFacts DEF Turned
    <2>3. ListTypeOK'
        BY <1>1, <2>1 DEF ListInv, ListTypeOK, Pointer
    <2>. QED
        BY <1>1, <1>3, <2>1, <2>2, <2>3 DEF ListInv, Linked, ArrayFollows, NodeAt
<1>. QED
    BY <1>2, <1>3

-----------------------------------------------------------------------------
(* Whatever is pushed, popped, removed, reversed, destroyed and copied,    *)
(* and in the middle of it, the invariant of the list holds (list.c).      *)
THEOREM ListInvariance == ListSafe => []ListInv
<1>1. ListInit => ListInv
    <2>1. SUFFICES ASSUME ListInit PROVE ListInv
        OBVIOUS
    <2>2. nodes = <<>> /\ Len(nodes) = 0 /\ nodes \in Seq(Address) /\ Range(nodes) = {}
        BY <2>1 DEF ListInit, Range
    <2>3. ListTypeOK
        BY <2>1, <2>2 DEF ListInit, ListTypeOK, Node, Pointer
    <2>. QED
        BY <2>1, <2>2, <2>3
           DEF ListInit, ListInv, Linked, ArrayFollows, IsInjective, NodeAt
<1>2. ListInv /\ [ListNext]_listVars => ListInv'
    <2>. SUFFICES ASSUME ListInv, [ListNext]_listVars
                  PROVE  ListInv'
        OBVIOUS
    <2>1. CASE UNCHANGED listVars
        BY <2>1 DEF listVars, walkVars, ListInv, ListTypeOK, Linked, NodeAt, Turned,
                    ArrayFollows
    <2>2. ASSUME NEW d \in Datum,
                 list_pushfront(d) \/ list_pushback(d) \/ list_search(d) \/ list_remove(d)
          PROVE  ListInv'
        <3>1. list_search(d) => ListInv'
            BY EnterKeeps DEF list_search, Loop
        <3>2. list_remove(d) => ListInv'
            BY EnterKeeps DEF list_remove, Loop
        <3>. QED
            BY <2>2, <3>1, <3>2, PushfrontKeeps, PushbackKeeps
    <2>3. CASE ListCall
        BY <2>2, <2>3, PopfrontKeeps, PopbackKeeps, ReverseKeeps, DestroyKeeps, GetallKeeps
           DEF ListCall
    <2>4. CASE ListStep
        BY <2>4, SearchKeeps, RemoveKeeps, ReverseStepKeeps, DestroyStepKeeps, RenewKeeps,
           IterKeeps, WalkEndsKeeps DEF ListStep
    <2>. QED
        BY <2>1, <2>3, <2>4 DEF ListNext
<1>. QED
    BY <1>1, <1>2, PTL DEF ListSafe

(* The pointers spell one sequence of the nodes that are allocated, at     *)
(* each step of list_remove, list_reverse and list_destroy too.            *)
THEOREM PointersSpellTheList == ListSafe => []Linked
<1>1. ListInv => Linked
    BY DEF ListInv
<1>. QED
    BY <1>1, ListInvariance, PTL

(* client_getall never writes past the array that it allocated.            *)
THEOREM ArrayIsLargeEnough == ListSafe => []ArrayHasRoom
<1>1. ListInv => ArrayHasRoom
    <2>. SUFFICES ASSUME ListInv, op = "getall"
                  PROVE  Len(array) + (IF node = Null THEN 0 ELSE 1) <= size
        BY DEF ArrayHasRoom
    <2>1. Len(array) = at - 1 /\ size = Len(nodes) /\ Len(nodes) \in Nat
        BY InOrder, NodeFacts DEF ListInv, ArrayFollows, Orderly
    <2>. QED
        BY <2>1, OnItsNode
<1>. QED
    BY <1>1, ListInvariance, PTL

-----------------------------------------------------------------------------
(* Induction over data: a set of numbers that is not empty has a least one *)
(* because < is well-founded.                                              *)
LEMMA LeastNat ==
    ASSUME NEW S, S \subseteq Nat, S # {}
    PROVE  \E n \in S : \A m \in S : n <= m
<1>. DEFINE R == OpToRel(<, Nat)
<1>1. PICK n \in S : \A m \in S : <<m, n>> \notin R
    BY NatLessThanWellFounded, WFMin
<1>2. \A m, n1 \in Nat : <<m, n1>> \in R <=> m < n1
    BY DEF OpToRel
<1>. HIDE DEF R
<1>3. \A m \in S : ~(m < n)
    BY <1>1, <1>2
<1>4. \A m \in S : n <= m
    BY <1>3
<1>. QED
    BY <1>4

(* So what holds of 0, and of each number's successor, holds up to N.      *)
LEMMA UpTo ==
    ASSUME NEW N \in Nat, NEW P, 0 \in P, \A n \in 0..(N - 1) : n \in P => n + 1 \in P
    PROVE  \A n \in 0..N : n \in P
<1>. DEFINE S == {n \in 0..N : n \notin P}
<1>1. SUFFICES ASSUME S # {} PROVE FALSE
    OBVIOUS
<1>2. PICK n \in S : \A m \in S : n <= m
    <2>1. S \subseteq Nat
        OBVIOUS
    <2>. HIDE DEF S
    <2>. QED
        BY <1>1, <2>1, LeastNat
<1>3. n \in 0..N /\ n # 0 /\ n \notin P
    BY <1>2
<1>4. n - 1 \in 0..(N - 1) /\ n - 1 \in 0..N /\ ~(n <= n - 1) /\ (n - 1) + 1 = n
    BY <1>3
<1>5. n - 1 \in P
    BY <1>2, <1>4
<1>. QED
    BY <1>3, <1>4, <1>5

(* What a fold over the first m elements computes.                         *)
Unfold(g, s, d, m) ==
    g = [T \in SUBSET (1..m) |->
           IF T = {} THEN <<>>
           ELSE IF s[Max(T)] = d THEN g[T \ {Max(T)}]
                ELSE Append(g[T \ {Max(T)}], s[Max(T)])]

LEMMA UnfoldExists ==
    ASSUME NEW s, NEW d, NEW N \in Nat
    PROVE  \E g : Unfold(g, s, d, N)
<1>. DEFINE P == {m \in Nat : \E g : Unfold(g, s, d, m)}
<1>1. 0 \in P
    <2>. DEFINE g == [T \in SUBSET (1..0) |-> <<>>]
    <2>1. \A T \in SUBSET (1..0) : T = {}
        OBVIOUS
    <2>2. Unfold(g, s, d, 0)
        BY <2>1 DEF Unfold
    <2>. QED
        BY <2>2
<1>2. ASSUME NEW m \in 0..(N - 1), m \in P PROVE m + 1 \in P
    <2>1. PICK g : Unfold(g, s, d, m)
        BY <1>2
    <2>. DEFINE h == [T \in SUBSET (1..(m + 1)) |->
                        IF m + 1 \notin T THEN g[T]
                        ELSE IF s[m + 1] = d THEN g[T \ {m + 1}]
                        ELSE Append(g[T \ {m + 1}], s[m + 1])]
                F(T) == IF T = {} THEN <<>>
                        ELSE IF s[Max(T)] = d THEN h[T \ {Max(T)}]
                             ELSE Append(h[T \ {Max(T)}], s[Max(T)])
    <2>2. ASSUME NEW T \in SUBSET (1..(m + 1)) PROVE h[T] = F(T)
        <3>1. CASE m + 1 \in T
            <4>1. Max(T) = m + 1
                <5>1. \A y \in T : m + 1 >= y
                    BY <1>2
                <5>2. \A x \in T : (\A y \in T : x >= y) => x = m + 1
                    BY <1>2, <3>1
                <5>. QED
                    BY <3>1, <5>1, <5>2 DEF Max
            <4>2. T \ {m + 1} \in SUBSET (1..(m + 1)) /\ m + 1 \notin T \ {m + 1}
                OBVIOUS
            <4>3. h[T \ {m + 1}] = g[T \ {m + 1}]
                BY <4>2
            <4>4. h[T] = IF s[m + 1] = d THEN g[T \ {m + 1}]
                         ELSE Append(g[T \ {m + 1}], s[m + 1])
                BY <3>1
            <4>. HIDE DEF h
            <4>. QED
                BY <3>1, <4>1, <4>3, <4>4
        <3>2. CASE m + 1 \notin T
            <4>1. T \in SUBSET (1..m)
                BY <1>2, <3>2
            <4>2. h[T] = g[T]
                BY <3>2
            <4>. DEFINE U == T \ {Max(T)}
            <4>3. U \in SUBSET (1..(m + 1)) /\ U \in SUBSET (1..m) /\ m + 1 \notin U
                BY <3>2, <4>1
            <4>4. h[U] = g[U]
                BY <4>3
            <4>5. g[T] = IF T = {} THEN <<>>
                         ELSE IF s[Max(T)] = d THEN g[U] ELSE Append(g[U], s[Max(T)])
                BY <2>1, <4>1 DEF Unfold
            <4>. HIDE DEF h
            <4>. QED
                BY <4>2, <4>4, <4>5
        <3>. QED
            BY <3>1, <3>2
    <2>3. h = [T \in SUBSET (1..(m + 1)) |-> h[T]]
        OBVIOUS
    <2>. HIDE DEF h
    <2>4. Unfold(h, s, d, m + 1)
        BY <2>2, <2>3 DEF Unfold
    <2>. QED
        BY <2>4
<1>. HIDE DEF P
<1>3. N \in P
    BY <1>1, <1>2, UpTo
<1>. QED
    BY <1>3 DEF P

(* The items of a sequence that are kept, from the first to the n-th.      *)
Steps(k, s, d) ==
    /\ k[0] = <<>>
    /\ \A n \in 0..(Len(s) - 1) :
         k[n + 1] = IF s[n + 1] = d THEN k[n] ELSE Append(k[n], s[n + 1])

LEMMA UnmatchedSteps ==
    ASSUME NEW S, NEW s \in Seq(S), NEW d
    PROVE  \E k : Steps(k, s, d) /\ Unmatched(s, d) = k[Len(s)]
<1>. DEFINE N == Len(s)
            G(f) == f = [T \in SUBSET (DOMAIN s) |->
                           IF T = {} THEN <<>>
                           ELSE IF s[Max(T)] = d THEN f[T \ {Max(T)}]
                                ELSE Append(f[T \ {Max(T)}], s[Max(T)])]
            g == CHOOSE f : G(f)
            k == [n \in 0..N |-> g[1..n]]
<1>1. N \in Nat /\ DOMAIN s = 1..N
    BY LenProperties
<1>2. Unmatched(s, d) = g[DOMAIN s]
    BY Zenon DEF Unmatched, FoldLeft, MapThenFoldSet
<1>3. \E f : G(f)
    <2>1. PICK f : Unfold(f, s, d, N)
        BY <1>1, UnfoldExists
    <2>2. G(f)
        BY <1>1, <2>1 DEF Unfold
    <2>. QED
        BY <2>2
<1>4. G(g)
    <2>. HIDE DEF G
    <2>. QED
        BY <1>3
<1>. HIDE DEF g
<1>5. k[0] = <<>>
    <2>1. 1..0 = {} /\ {} \in SUBSET (DOMAIN s) /\ 0 \in 0..N
        BY <1>1
    <2>. QED
        BY <1>4, <2>1
<1>6. ASSUME NEW n \in 0..(N - 1)
      PROVE  k[n + 1] = IF s[n + 1] = d THEN k[n] ELSE Append(k[n], s[n + 1])
    <2>. DEFINE T == 1..(n + 1)
    <2>1. T \in SUBSET (DOMAIN s) /\ T # {} /\ T \ {n + 1} = 1..n
        <3>1. n \in Nat /\ n + 1 \in 1..N /\ n + 1 \in T
            BY <1>1
        <3>2. \A y : y \in T <=> y \in 1..n \/ y = n + 1
            BY <3>1
        <3>3. n + 1 \notin 1..n /\ \A y \in T : y \in 1..N
            BY <1>1, <3>1
        <3>. HIDE DEF T
        <3>. QED
            BY <1>1, <3>1, <3>2, <3>3
    <2>2. Max(T) = n + 1
        <3>1. n + 1 \in T /\ \A y \in T : n + 1 >= y
            OBVIOUS
        <3>2. \A x \in T : (\A y \in T : x >= y) => x = n + 1
            BY <3>1
        <3>. QED
            BY <3>1, <3>2 DEF Max
    <2>3. n \in 0..N /\ n + 1 \in 0..N
        BY <1>1
    <2>4. k[n] = g[1..n] /\ k[n + 1] = g[T]
        BY <2>3
    <2>5. g[T] = IF s[Max(T)] = d THEN g[T \ {Max(T)}]
                 ELSE Append(g[T \ {Max(T)}], s[Max(T)])
        <3>. HIDE DEF T
        <3>. QED
            BY <1>4, <2>1
    <2>. HIDE DEF T, k
    <2>. QED
        BY <2>1, <2>2, <2>4, <2>5
<1>7. Unmatched(s, d) = k[N]
    BY <1>1, <1>2
<1>. HIDE DEF k
<1>. QED
    BY <1>5, <1>6, <1>7 DEF Steps

LEMMA StepsType ==
    ASSUME NEW S, NEW s \in Seq(S), NEW d, NEW k, Steps(k, s, d)
    PROVE  \A n \in 0..Len(s) : k[n] \in Seq(S)
<1>. DEFINE P == {n \in Nat : k[n] \in Seq(S)}
<1>1. Len(s) \in Nat /\ \A n \in 1..Len(s) : s[n] \in S
    BY LenProperties, ElementOfSeq
<1>2. 0 \in P
    BY EmptySeq DEF Steps
<1>3. ASSUME NEW n \in 0..(Len(s) - 1), n \in P PROVE n + 1 \in P
    <2>1. s[n + 1] \in S /\ k[n] \in Seq(S)
        BY <1>1, <1>3
    <2>2. Append(k[n], s[n + 1]) \in Seq(S)
        BY <2>1, AppendProperties
    <2>3. k[n + 1] = IF s[n + 1] = d THEN k[n] ELSE Append(k[n], s[n + 1])
        BY DEF Steps
    <2>4. k[n + 1] \in Seq(S) /\ n + 1 \in Nat
        BY <2>1, <2>2, <2>3
    <2>. QED
        BY <2>4
<1>. HIDE DEF P
<1>4. \A n \in 0..Len(s) : n \in P
    BY <1>1, <1>2, <1>3, UpTo
<1>. QED
    BY <1>4 DEF P

LEMMA UnmatchedType ==
    ASSUME NEW S, NEW s \in Seq(S), NEW d
    PROVE  Unmatched(s, d) \in Seq(S)
<1>1. PICK k : Steps(k, s, d) /\ Unmatched(s, d) = k[Len(s)]
    BY UnmatchedSteps
<1>2. Len(s) \in 0..Len(s)
    BY LenProperties
<1>. QED
    BY <1>1, <1>2, StepsType

(* Nothing is left of nothing; and the first item is kept or not,          *)
(* whatever becomes of the others.                                         *)
LEMMA UnmatchedNone ==
    ASSUME NEW d
    PROVE  Unmatched(<<>>, d) = <<>>
<1>1. <<>> \in Seq({}) /\ Len(<<>>) = 0
    BY EmptySeq
<1>2. PICK k : Steps(k, <<>>, d) /\ Unmatched(<<>>, d) = k[0]
    BY <1>1, UnmatchedSteps
<1>. QED
    BY <1>2 DEF Steps

LEMMA UnmatchedFirst ==
    ASSUME NEW S, NEW s \in Seq(S), NEW x \in S, NEW d
    PROVE  Unmatched(<<x>> \o s, d) =
             IF x = d THEN Unmatched(s, d) ELSE <<x>> \o Unmatched(s, d)
<1>. DEFINE t == <<x>> \o s
            pre == IF x = d THEN <<>> ELSE <<x>>
<1>1. /\ t \in Seq(S) /\ Len(t) = Len(s) + 1 /\ Len(s) \in Nat
      /\ t[1] = x /\ \A n \in 1..Len(s) : t[n + 1] = s[n]
    BY ConcatProperties, LenProperties
<1>2. PICK k : Steps(k, s, d) /\ Unmatched(s, d) = k[Len(s)]
    BY UnmatchedSteps
<1>. HIDE DEF t
<1>3. PICK h : Steps(h, t, d) /\ Unmatched(t, d) = h[Len(t)]
    BY <1>1, UnmatchedSteps
<1>4. \A n \in 0..Len(s) : k[n] \in Seq(S)
    BY <1>2, StepsType
<1>5. pre \in Seq(S) /\ \A u \in Seq(S) : pre \o u = IF x = d THEN u ELSE <<x>> \o u
    BY EmptySeq, ConcatEmptySeq
<1>. DEFINE P == {n \in Nat : h[n + 1] = pre \o k[n]}
<1>6. 0 \in P
    <2>1. h[0] = <<>> /\ k[0] = <<>>
        BY <1>2, <1>3 DEF Steps
    <2>2. h[1] = IF t[1] = d THEN h[0] ELSE Append(h[0], t[1])
        <3>1. 0 \in 0..(Len(t) - 1) /\ 0 + 1 = 1
            BY <1>1
        <3>. QED
            BY <1>3, <3>1 DEF Steps
    <2>3. Append(<<>>, x) = <<x>> /\ <<>> \o <<>> = <<>> /\ <<x>> \o <<>> = <<x>>
        BY ConcatEmptySeq
    <2>4. h[0 + 1] = pre \o k[0]
        BY <1>1, <2>1, <2>2, <2>3
    <2>. HIDE DEF pre
    <2>. QED
        BY <2>4
<1>7. ASSUME NEW n \in 0..(Len(s) - 1), n \in P PROVE n + 1 \in P
    <2>1. n + 1 \in 0..(Len(t) - 1) /\ n + 1 \in 1..Len(s) /\ n \in 0..Len(s)
        BY <1>1
    <2>2. h[(n + 1) + 1] = IF t[(n + 1) + 1] = d THEN h[n + 1]
                           ELSE Append(h[n + 1], t[(n + 1) + 1])
        BY <1>3, <2>1 DEF Steps
    <2>3. k[n + 1] = IF s[n + 1] = d THEN k[n] ELSE Append(k[n], s[n + 1])
        BY <1>2 DEF Steps
    <2>4. t[(n + 1) + 1] = s[n + 1] /\ s[n + 1] \in S
        BY <1>1, <2>1, ElementOfSeq
    <2>5. h[n + 1] = pre \o k[n] /\ k[n] \in Seq(S)
        BY <1>4, <1>7, <2>1
    <2>6. Append(pre \o k[n], s[n + 1]) = pre \o Append(k[n], s[n + 1])
        <3>. HIDE DEF pre
        <3>1. pre \o k[n] \in Seq(S)
            BY <1>5, <2>5, ConcatProperties
        <3>2. /\ Append(pre \o k[n], s[n + 1]) = (pre \o k[n]) \o <<s[n + 1]>>
              /\ Append(k[n], s[n + 1]) = k[n] \o <<s[n + 1]>>
            BY <2>4, <2>5, <3>1, AppendIsConcat
        <3>3. <<s[n + 1]>> \in Seq(S)
            BY <2>4
        <3>4. (pre \o k[n]) \o <<s[n + 1]>> = pre \o (k[n] \o <<s[n + 1]>>)
            <4>. DEFINE u == k[n]
                        e == <<s[n + 1]>>
            <4>1. pre \in Seq(S) /\ u \in Seq(S) /\ e \in Seq(S)
                BY <1>5, <2>5, <3>3
            <4>. HIDE DEF u, e
            <4>2. (pre \o u) \o e = pre \o (u \o e)
                BY <4>1, ConcatAssociative
            <4>. QED
                BY <4>2 DEF u, e
        <3>. QED
            BY <3>2, <3>4
    <2>. HIDE DEF pre
    <2>7. h[(n + 1) + 1] = pre \o k[n + 1]
        BY <2>2, <2>3, <2>4, <2>5, <2>6
    <2>. QED
        BY <2>7
<1>. HIDE DEF P, pre
<1>8. \A n \in 0..Len(s) : n \in P
    BY <1>1, <1>6, <1>7, UpTo
<1>9. h[Len(s) + 1] = pre \o k[Len(s)]
    BY <1>1, <1>8 DEF P
<1>10. k[Len(s)] \in Seq(S)
    BY <1>1, <1>4
<1>. QED
    BY <1>1, <1>2, <1>3, <1>5, <1>9, <1>10 DEF t

-----------------------------------------------------------------------------
(* Nothing is removed from nothing; and the first of all is removed, or    *)
(* whatever would be without it.                                           *)
LEMMA RemoveFirstNone ==
    ASSUME NEW d
    PROVE  RemoveFirst(<<>>, d) = <<>>
<1>1. Len(<<>>) = 0
    BY EmptySeq
<1>2. ~ \E i \in 1..Len(<<>>) : <<>>[i] = d
    BY <1>1
<1>. QED
    BY <1>2 DEF RemoveFirst

LEMMA FirstMatch ==
    ASSUME NEW S, NEW s \in Seq(S), NEW d, NEW j \in 1..Len(s), s[j] = d,
           \A k \in 1..Len(s) : s[k] = d => j <= k
    PROVE  RemoveFirst(s, d) = RemoveAt(s, j)
<1>. DEFINE I == {k \in 1..Len(s) : s[k] = d}
<1>1. j \in I /\ \A k \in I : j <= k
    OBVIOUS
<1>2. Min(I) = j
    <2>1. \A k \in I : (\A y \in I : k <= y) => k = j
        BY <1>1, LenProperties
    <2>. HIDE DEF I
    <2>. QED
        BY <1>1, <2>1 DEF Min
<1>3. RemoveFirst(s, d) = RemoveAt(s, IF I # {} THEN Min(I) ELSE 0)
    BY Zenon DEF RemoveFirst, SelectInSeq
<1>. HIDE DEF I
<1>. QED
    BY <1>1, <1>2, <1>3

LEMMA RemoveFirstFirst ==
    ASSUME NEW S, NEW s \in Seq(S), NEW x \in S, NEW d
    PROVE  RemoveFirst(<<x>> \o s, d) =
             IF x = d THEN s ELSE <<x>> \o RemoveFirst(s, d)
<1>. DEFINE t == <<x>> \o s
            L == Len(s)
<1>1. /\ t \in Seq(S) /\ Len(t) = L + 1 /\ L \in Nat
      /\ t[1] = x /\ \A n \in 1..L : t[n + 1] = s[n]
      /\ \A n \in 1..(L + 1) : t[n] = IF n = 1 THEN x ELSE s[n - 1]
    BY ConsElements, LenProperties
<1>. HIDE DEF t
<1>2. CASE x = d
    <2>1. RemoveFirst(t, d) = RemoveAt(t, 1)
        BY <1>1, <1>2, FirstMatch
    <2>2. /\ RemoveAt(t, 1) \in Seq(S) /\ Len(RemoveAt(t, 1)) = Len(t) - 1
          /\ \A k \in 1..(Len(t) - 1) : RemoveAt(t, 1)[k] = IF k < 1 THEN t[k] ELSE t[k + 1]
        <3>1. t \in Seq(S) /\ 1 \in 1..Len(t)
            BY <1>1
        <3>. QED
            BY <3>1, RemoveAtElements
    <2>3. Len(RemoveAt(t, 1)) = L /\ \A k \in 1..L : RemoveAt(t, 1)[k] = s[k]
        BY <1>1, <2>2
    <2>4. RemoveAt(t, 1) = s
        BY <2>2, <2>3, SeqEqual
    <2>. QED
        BY <1>2, <2>1, <2>4 DEF t
<1>3. CASE x # d /\ \A k \in 1..L : s[k] # d
    <2>1. RemoveFirst(s, d) = s
        BY <1>3 DEF RemoveFirst
    <2>2. \A k \in 1..Len(t) : t[k] # d
        BY <1>1, <1>3
    <2>3. RemoveFirst(t, d) = t
        BY <2>2 DEF RemoveFirst
    <2>. QED
        BY <1>3, <2>1, <2>3 DEF t
<1>4. CASE x # d /\ \E k \in 1..L : s[k] = d
    <2>. DEFINE I == {k \in 1..L : s[k] = d}
    <2>1. PICK j \in I : \A k \in I : j <= k
        <3>1. I \subseteq Nat /\ I # {}
            BY <1>4
        <3>. HIDE DEF I
        <3>. QED
            BY <3>1, LeastNat
    <2>2. j \in 1..L /\ s[j] = d /\ \A k \in 1..L : s[k] = d => j <= k
        BY <2>1
    <2>3. RemoveFirst(s, d) = RemoveAt(s, j)
        BY <2>2, FirstMatch
    <2>4. j + 1 \in 1..Len(t) /\ t[j + 1] = d
        BY <1>1, <2>2
    <2>5. ASSUME NEW k \in 1..Len(t), t[k] = d PROVE j + 1 <= k
        <3>1. k # 1 /\ k - 1 \in 1..L /\ s[k - 1] = d
            BY <1>1, <1>4, <2>5
        <3>2. j <= k - 1
            BY <2>2, <3>1
        <3>. QED
            BY <2>2, <3>2
    <2>6. RemoveFirst(t, d) = RemoveAt(t, j + 1)
        BY <1>1, <2>4, <2>5, FirstMatch
    <2>. DEFINE u == RemoveAt(s, j)
                v == RemoveAt(t, j + 1)
                w == <<x>> \o u
    <2>7. /\ u \in Seq(S) /\ Len(u) = L - 1
          /\ \A k \in 1..(L - 1) : u[k] = IF k < j THEN s[k] ELSE s[k + 1]
        BY <2>2, RemoveAtElements
    <2>8. /\ v \in Seq(S) /\ Len(v) = Len(t) - 1
          /\ \A k \in 1..(Len(t) - 1) : v[k] = IF k < j + 1 THEN t[k] ELSE t[k + 1]
        BY <1>1, <2>4, RemoveAtElements
    <2>. HIDE DEF u, v
    <2>9. /\ w \in Seq(S) /\ Len(w) = Len(u) + 1
          /\ \A k \in 1..(Len(u) + 1) : w[k] = IF k = 1 THEN x ELSE u[k - 1]
        BY <2>7, ConsElements
    <2>. HIDE DEF w
    <2>10. Len(v) = L /\ Len(w) = L
        BY <1>1, <2>7, <2>8, <2>9
    <2>11. ASSUME NEW k \in 1..L PROVE v[k] = w[k]
        <3>1. CASE k = 1
            BY <1>1, <2>2, <2>7, <2>8, <2>9, <3>1
        <3>2. CASE k # 1
            <4>1. k - 1 \in 1..(L - 1) /\ w[k] = u[k - 1]
                BY <1>1, <2>7, <2>9, <3>2
            <4>2. u[k - 1] = IF k - 1 < j THEN s[k - 1] ELSE s[k - 1 + 1]
                BY <2>7, <4>1
            <4>3. t[k] = s[k - 1] /\ t[k + 1] = s[k - 1 + 1]
                BY <1>1, <3>2, <4>1
            <4>4. v[k] = IF k < j + 1 THEN t[k] ELSE t[k + 1]
                BY <1>1, <2>8
            <4>. QED
                BY <2>2, <4>1, <4>2, <4>3, <4>4
        <3>. QED
            BY <3>1, <3>2
    <2>12. v = w
        BY <2>8, <2>9, <2>10, <2>11, SeqEqual
    <2>. QED
        BY <1>4, <2>3, <2>6, <2>12 DEF t, u, v, w
<1>. QED
    BY <1>2, <1>3, <1>4

LEMMA RemoveFirstType ==
    ASSUME NEW S, NEW s \in Seq(S), NEW d
    PROVE  RemoveFirst(s, d) \in Seq(S)
<1>1. CASE \A k \in 1..Len(s) : s[k] # d
    BY <1>1 DEF RemoveFirst
<1>2. CASE \E k \in 1..Len(s) : s[k] = d
    <2>. DEFINE I == {k \in 1..Len(s) : s[k] = d}
    <2>1. PICK j \in I : \A k \in I : j <= k
        <3>1. I \subseteq Nat /\ I # {}
            BY <1>2
        <3>. HIDE DEF I
        <3>. QED
            BY <3>1, LeastNat
    <2>2. j \in 1..Len(s) /\ s[j] = d /\ \A k \in 1..Len(s) : s[k] = d => j <= k
        BY <2>1
    <2>. HIDE DEF I
    <2>3. RemoveFirst(s, d) = RemoveAt(s, j)
        BY <2>2, FirstMatch
    <2>4. RemoveAt(s, j) \in Seq(S)
        BY <2>2, RemoveAtElements
    <2>. QED
        BY <2>3, <2>4
<1>. QED
    BY <1>1, <1>2

(* A sequence, cut before its j-th element.                                *)
LEMMA SplitAt ==
    ASSUME NEW S, NEW s \in Seq(S), NEW j \in 1..(Len(s) + 1)
    PROVE  LET b == SubSeq(s, 1, j - 1)
               a == SubSeq(s, j, Len(s))
           IN  /\ b \in Seq(S) /\ Len(b) = j - 1 /\ \A k \in 1..(j - 1) : b[k] = s[k]
               /\ a \in Seq(S) /\ Len(a) = Len(s) - j + 1
               /\ \A k \in 1..(Len(s) - j + 1) : a[k] = s[j + k - 1]
               /\ b \o a = s
<1>. DEFINE b == SubSeq(s, 1, j - 1)
            a == SubSeq(s, j, Len(s))
<1>1. Len(s) \in Nat /\ \A k \in 1..Len(s) : s[k] \in S
    BY LenProperties, ElementOfSeq
<1>2. b \in Seq(S) /\ Len(b) = j - 1 /\ \A k \in 1..(j - 1) : b[k] = s[k]
    <2>1. \A k \in 1..(j - 1) : s[k] \in S
        BY <1>1
    <2>. QED
        BY <1>1, <2>1, SubSeqProperties
<1>3. /\ a \in Seq(S) /\ Len(a) = Len(s) - j + 1
      /\ \A k \in 1..(Len(s) - j + 1) : a[k] = s[j + k - 1]
    <2>1. \A k \in j..Len(s) : s[k] \in S
        BY <1>1
    <2>2. /\ a \in Seq(S)
          /\ Len(a) = IF j <= Len(s) THEN Len(s) - j + 1 ELSE 0
          /\ \A k \in 1..(Len(s) - j + 1) : a[k] = s[j + k - 1]
        BY <1>1, <2>1, SubSeqProperties
    <2>. HIDE DEF a
    <2>. QED
        BY <1>1, <2>2
<1>. HIDE DEF a, b
<1>4. /\ b \o a \in Seq(S) /\ Len(b \o a) = Len(b) + Len(a)
      /\ \A k \in 1..(Len(b) + Len(a)) :
            (b \o a)[k] = IF k <= Len(b) THEN b[k] ELSE a[k - Len(b)]
    BY <1>2, <1>3, ConcatProperties
<1>5. Len(b) + Len(a) = Len(s)
    BY <1>1, <1>2, <1>3
<1>6. ASSUME NEW k \in 1..Len(s) PROVE (b \o a)[k] = s[k]
    <2>1. CASE k <= j - 1
        BY <1>2, <1>4, <1>5, <2>1
    <2>2. CASE ~(k <= j - 1)
        <3>1. k - (j - 1) \in 1..(Len(s) - j + 1) /\ j + (k - (j - 1)) - 1 = k
            BY <1>1, <2>2
        <3>. QED
            BY <1>2, <1>3, <1>4, <1>5, <2>2, <3>1
    <2>. QED
        BY <2>1, <2>2
<1>7. b \o a = s
    BY <1>4, <1>5, <1>6, SeqEqual
<1>. QED
    BY <1>2, <1>3, <1>7 DEF a, b

-----------------------------------------------------------------------------
(* The functions of ItemList are those of LinkedList.                      *)
LEMMA SameFunctions ==
    /\ \A s, d : Items!Unmatched(s, d) = Unmatched(s, d)
    /\ \A s : Items!Reverse(s) = Reverse(s)
    /\ \A s : Items!Front(s) = Front(s)
    /\ \A s : Items!Range(s) = Range(s)
<1>1. ASSUME NEW s, NEW d PROVE Items!Unmatched(s, d) = Unmatched(s, d)
    BY Zenon DEF Items!Unmatched, Unmatched, Items!FoldLeft, FoldLeft,
                 Items!MapThenFoldSet, MapThenFoldSet, Items!Max, Max
<1>2. \A s : Items!Reverse(s) = Reverse(s) /\ Items!Front(s) = Front(s)
             /\ Items!Range(s) = Range(s)
    BY DEF Items!Reverse, Reverse, Items!Front, Front, Items!Range, Range
<1>. QED
    BY <1>1, <1>2

(* What the list contains, by its nodes.                                   *)
LEMMA ContentsFacts ==
    ASSUME ListInv
    PROVE  /\ Contents \in Seq(Datum) /\ Len(Contents) = Len(nodes)
           /\ \A k \in 1..Len(nodes) : Contents[k] = heap[nodes[k]].data
<1>1. \A k \in 1..Len(nodes) : heap[nodes[k]].data \in Datum
    BY DEF ListInv, Linked
<1>2. Contents \in [1..Len(nodes) -> Datum]
    BY <1>1, NodeFacts DEF Contents
<1>3. Contents \in Seq(Datum)
    BY <1>2, NodeFacts, IsASeq
<1>. QED
    BY <1>2, <1>3, NodeFacts, LenProperties DEF Contents

LEMMA NextContents ==
    ASSUME ListInv'
    PROVE  /\ Contents' \in Seq(Datum) /\ Len(Contents') = Len(nodes')
           /\ \A k \in 1..Len(nodes') : Contents'[k] = heap'[nodes'[k]].data
<1>1. \A k \in 1..Len(nodes') : heap'[nodes'[k]].data \in Datum
    BY DEF ListInv, Linked
<1>2. nodes' \in Seq(Address) /\ Len(nodes') \in Nat /\ DOMAIN nodes' = 1..Len(nodes')
    BY LenProperties DEF ListInv, ListTypeOK
<1>3. Contents' \in [1..Len(nodes') -> Datum]
    BY <1>1, <1>2 DEF Contents
<1>4. Contents' \in Seq(Datum)
    BY <1>2, <1>3, IsASeq
<1>. QED
    BY <1>2, <1>3, <1>4, LenProperties DEF Contents

(* A sequence that has the items of the nodes is the contents.             *)
LEMMA ContentsAre ==
    ASSUME ListInv', NEW s \in Seq(Datum), Len(s) = Len(nodes'),
           \A k \in 1..Len(s) : s[k] = heap'[nodes'[k]].data
    PROVE  Contents' = s
<1>1. /\ Contents' \in Seq(Datum) /\ Len(Contents') = Len(nodes')
      /\ \A k \in 1..Len(nodes') : Contents'[k] = heap'[nodes'[k]].data
    BY NextContents
<1>. HIDE DEF Contents
<1>. QED
    BY <1>1, SeqEqual

(* What a function that walks stands before, and has passed.               *)
LEMMA WalkFacts ==
    ASSUME ListInv, at \in 1..(Len(nodes) + 1)
    PROVE  /\ Behind \in Seq(Datum) /\ Ahead \in Seq(Datum)
           /\ Behind \o Ahead = Contents
           /\ at = 1 => Behind = <<>> /\ Ahead = Contents
           /\ at = Len(nodes) + 1 => Ahead = <<>> /\ Behind = Contents
<1>1. Contents \in Seq(Datum) /\ Len(Contents) = Len(nodes) /\ Len(nodes) \in Nat
    BY ContentsFacts, NodeFacts
<1>. HIDE DEF Contents
<1>2. /\ Behind \in Seq(Datum) /\ Len(Behind) = at - 1
      /\ Ahead \in Seq(Datum) /\ Len(Ahead) = Len(nodes) - at + 1
      /\ Behind \o Ahead = Contents
    <2>1. /\ Contents \in Seq(Datum) /\ at \in 1..(Len(Contents) + 1)
          /\ Ahead = SubSeq(Contents, at, Len(Contents))
          /\ Behind = SubSeq(Contents, 1, at - 1)
        BY <1>1 DEF Ahead, Behind
    <2>. HIDE DEF Ahead, Behind
    <2>2. /\ Behind \in Seq(Datum) /\ Len(Behind) = at - 1
          /\ Ahead \in Seq(Datum) /\ Len(Ahead) = Len(Contents) - at + 1
          /\ Behind \o Ahead = Contents
        BY <2>1, SplitAt
    <2>. QED
        BY <1>1, <2>2
<1>. HIDE DEF Behind, Ahead
<1>3. at = 1 => Behind = <<>>
    BY <1>2, EmptySeq
<1>4. at = Len(nodes) + 1 => Ahead = <<>>
    BY <1>1, <1>2, EmptySeq
<1>. QED
    BY <1>2, <1>3, <1>4, ConcatEmptySeq

(* The next item is that of the node; the others are ahead of the next.    *)
Beyond == SubSeq(Contents, at + 1, Len(nodes))

LEMMA NextItem ==
    ASSUME ListInv, at \in 1..Len(nodes)
    PROVE  /\ heap[nodes[at]].data \in Datum /\ Beyond \in Seq(Datum)
           /\ Ahead = <<heap[nodes[at]].data>> \o Beyond
           /\ SubSeq(Contents, 1, at) = Append(Behind, heap[nodes[at]].data)
<1>. DEFINE C == Contents
            x == heap[nodes[at]].data
            L == Len(nodes)
<1>1. /\ C \in Seq(Datum) /\ Len(C) = L /\ L \in Nat
      /\ C[at] = x /\ \A k \in 1..L : C[k] \in Datum
    <2>1. C \in Seq(Datum) /\ Len(C) = L /\ L \in Nat /\ C[at] = x
        BY ContentsFacts, NodeFacts
    <2>. HIDE DEF C
    <2>. QED
        BY <2>1, ElementOfSeq
<1>. HIDE DEF Contents, C
<1>2. x \in Datum /\ at \in Nat /\ at + 1 \in 1..(L + 1) /\ at \in 1..(L + 1)
    BY <1>1
<1>. HIDE DEF x
<1>3. /\ Behind \in Seq(Datum) /\ Len(Behind) = at - 1
      /\ \A k \in 1..(at - 1) : Behind[k] = C[k]
      /\ Ahead \in Seq(Datum) /\ Len(Ahead) = L - at + 1
      /\ \A k \in 1..(L - at + 1) : Ahead[k] = C[at + k - 1]
    BY <1>1, <1>2, SplitAt DEF Behind, Ahead, C
<1>4. /\ SubSeq(C, 1, at) \in Seq(Datum) /\ Len(SubSeq(C, 1, at)) = at
      /\ \A k \in 1..at : SubSeq(C, 1, at)[k] = C[k]
      /\ Beyond \in Seq(Datum) /\ Len(Beyond) = L - at
      /\ \A k \in 1..(L - at) : Beyond[k] = C[at + k]
    <2>. DEFINE j == at + 1
    <2>1. j \in 1..(L + 1) /\ j - 1 = at /\ L - j + 1 = L - at
          /\ \A k \in 1..(L - at) : j + k - 1 = at + k
        BY <1>1, <1>2
    <2>2. Beyond = SubSeq(C, j, Len(C))
        BY <1>1 DEF Beyond, C
    <2>. HIDE DEF j
    <2>3. /\ SubSeq(C, 1, j - 1) \in Seq(Datum) /\ Len(SubSeq(C, 1, j - 1)) = j - 1
          /\ \A k \in 1..(j - 1) : SubSeq(C, 1, j - 1)[k] = C[k]
          /\ Beyond \in Seq(Datum) /\ Len(Beyond) = Len(C) - j + 1
          /\ \A k \in 1..(Len(C) - j + 1) : Beyond[k] = C[j + k - 1]
        BY <1>1, <2>1, <2>2, SplitAt
    <2>. QED
        BY <1>1, <2>1, <2>3
<1>5. Ahead = <<x>> \o Beyond
    <2>. DEFINE t == <<x>> \o Beyond
    <2>1. /\ t \in Seq(Datum) /\ Len(t) = Len(Beyond) + 1
          /\ \A k \in 1..(Len(Beyond) + 1) : t[k] = IF k = 1 THEN x ELSE Beyond[k - 1]
        <3>1. x \in Datum /\ Beyond \in Seq(Datum)
            BY <1>2, <1>4
        <3>. QED
            BY <3>1, ConsElements
    <2>. HIDE DEF t
    <2>2. Len(t) = Len(Ahead)
        BY <1>1, <1>2, <1>3, <1>4, <2>1
    <2>3. ASSUME NEW k \in 1..Len(Ahead) PROVE Ahead[k] = t[k]
        <3>1. CASE k = 1
            <4>1. 1 \in 1..(L - at + 1) /\ at + 1 - 1 = at /\ 1 \in 1..(Len(Beyond) + 1)
                BY <1>1, <1>2, <1>3, <1>4, <3>1
            <4>2. Ahead[1] = C[at] /\ t[1] = x
                BY <1>3, <2>1, <4>1
            <4>. QED
                BY <1>1, <3>1, <4>2
        <3>2. CASE k # 1
            <4>1. k - 1 \in 1..(L - at) /\ at + (k - 1) = at + k - 1
                BY <1>1, <1>2, <1>3, <3>2
            <4>. QED
                BY <1>1, <1>2, <1>3, <1>4, <2>1, <3>2, <4>1
        <3>. QED
            BY <3>1, <3>2
    <2>. QED
        BY <1>3, <2>1, <2>2, <2>3, SeqEqual DEF t
<1>6. SubSeq(C, 1, at) = Append(Behind, x)
    <2>1. /\ Append(Behind, x) \in Seq(Datum) /\ Len(Append(Behind, x)) = Len(Behind) + 1
          /\ \A k \in 1..(Len(Behind) + 1) :
                Append(Behind, x)[k] = IF k = Len(Behind) + 1 THEN x ELSE Behind[k]
        BY <1>2, <1>3, AppendElements
    <2>2. Len(Append(Behind, x)) = at /\ \A k \in 1..at : Append(Behind, x)[k] = C[k]
        BY <1>1, <1>2, <1>3, <2>1
    <2>. QED
        BY <1>4, <2>1, <2>2, SeqEqual
<1>. QED
    BY <1>2, <1>4, <1>5, <1>6 DEF C, x

-----------------------------------------------------------------------------
(* Outcome and Result, for each function, in both states of a step.        *)
LEMMA Seen ==
    /\ op \in {"none", "search", "reverse", "getall"} => Outcome = Contents
    /\ op = "remove" => Outcome = Behind \o Unmatched(Ahead, needle)
    /\ op = "remove_first" => Outcome = Behind \o RemoveFirst(Ahead, needle)
    /\ op = "destroy" => Outcome = <<>>
    /\ op = "getall" => Result = array \o Ahead
    /\ op = "search" => Result = IF needle \in Range(Ahead) THEN <<needle>> ELSE <<>>
    /\ op \notin {"getall", "search"} => Result = array
BY DEF Outcome, Result

LEMMA SeenNext ==
    /\ op' \in {"none", "search", "reverse", "getall"} => Outcome' = Contents'
    /\ op' = "remove" => Outcome' = Behind' \o Unmatched(Ahead', needle')
    /\ op' = "remove_first" => Outcome' = Behind' \o RemoveFirst(Ahead', needle')
    /\ op' = "destroy" => Outcome' = <<>>
    /\ op' = "getall" => Result' = array' \o Ahead'
    /\ op' = "search" => Result' = IF needle' \in Range(Ahead') THEN <<needle'>> ELSE <<>>
    /\ op' \notin {"getall", "search"} => Result' = array'
BY DEF Outcome, Result

(* A call that has an effect of its own, and a step that has none.         *)
CallEffect == Items!ItemNext \/ RemoveFirstOnly
SameItems == Outcome' = Outcome /\ Result' = Result

(* The items of the list after a step that leaves the nodes alone.         *)
LEMMA SameContents ==
    ASSUME ListInv, ListInv', nodes' = nodes,
           \A k \in 1..Len(nodes) : heap'[nodes[k]].data = heap[nodes[k]].data
    PROVE  Contents' = Contents
BY ContentsFacts, ContentsAre

(* A walk begins: all is ahead.                                            *)
LEMMA AllAhead ==
    ASSUME ListInv, Contents' = Contents, nodes' = nodes, at' = 1
    PROVE  Ahead' = Contents /\ Behind' = <<>>
<1>1. Ahead' = SubSeq(Contents, 1, Len(nodes)) /\ Behind' = SubSeq(Contents, 1, 0)
    BY DEF Ahead, Behind
<1>2. Contents \in Seq(Datum) /\ Len(Contents) = Len(nodes) /\ 1 \in 1..(Len(nodes) + 1)
    BY ContentsFacts, NodeFacts
<1>. HIDE DEF Contents
<1>3. /\ Len(SubSeq(Contents, 1, 1 - 1)) = 1 - 1 /\ SubSeq(Contents, 1, 1 - 1) \in Seq(Datum)
      /\ SubSeq(Contents, 1, 1 - 1) \o SubSeq(Contents, 1, Len(Contents)) = Contents
      /\ SubSeq(Contents, 1, Len(Contents)) \in Seq(Datum)
    BY <1>2, SplitAt
<1>4. SubSeq(Contents, 1, 1 - 1) = <<>> /\ 1 - 1 = 0
    BY <1>3, EmptySeq
<1>. QED
    BY <1>1, <1>2, <1>3, <1>4, ConcatEmptySeq

(* It goes on by one node.                                                 *)
LEMMA OneFurther ==
    ASSUME ListInv, Contents' = Contents, nodes' = nodes,
           at \in 1..Len(nodes), at' = at + 1
    PROVE  Ahead' = Beyond /\ Behind' = Append(Behind, heap[nodes[at]].data)
<1>1. at + 1 - 1 = at
    BY NodeFacts
<1>2. Ahead' = Beyond /\ Behind' = SubSeq(Contents, 1, at)
    BY <1>1 DEF Ahead, Beyond, Behind
<1>. QED
    BY <1>2, NextItem

LEMMA MovedOver ==
    ASSUME NEW S, NEW u \in Seq(S), NEW v \in Seq(S), NEW x \in S
    PROVE  u \o (<<x>> \o v) = Append(u, x) \o v
<1>1. <<x>> \in Seq(S)
    OBVIOUS
<1>2. Append(u, x) = u \o <<x>>
    BY AppendIsConcat
<1>. DEFINE e == <<x>>
<1>. HIDE DEF e
<1>3. (u \o e) \o v = u \o (e \o v)
    BY <1>1, ConcatAssociative DEF e
<1>. QED
    BY <1>2, <1>3 DEF e

(* The functions that do not walk.                                         *)
LEMMA PushfrontItems ==
    ASSUME ListInv, ListInv', NEW d \in Datum, list_pushfront(d),
           call' = <<"list_pushfront", d>>
    PROVE  CallEffect
<1>1. PICK a \in Fresh :
         /\ heap' = [b \in Address |->
                        CASE b = a    -> [data |-> d, prev |-> Null, next |-> head]
                          [] b = head -> [heap[b] EXCEPT !.prev = a]
                          [] OTHER    -> heap[b]]
         /\ nodes' = <<a>> \o nodes
    BY DEF list_pushfront
<1>2. op = "none" /\ op' = "none" /\ array' = array
    BY DEF list_pushfront, Rest
<1>3. a \in Address /\ a \notin live /\ heap \in [Address -> Node] /\ nodes \in Seq(Address)
    BY <1>1 DEF Fresh, ListInv, ListTypeOK
<1>. DEFINE s == <<d>> \o Contents
<1>4. /\ s \in Seq(Datum) /\ Len(s) = Len(nodes) + 1
      /\ \A k \in 1..(Len(nodes) + 1) : s[k] = IF k = 1 THEN d ELSE heap[nodes[k - 1]].data
    <2>1. /\ Contents \in Seq(Datum) /\ Len(Contents) = Len(nodes) /\ Len(nodes) \in Nat
          /\ \A k \in 1..Len(nodes) : Contents[k] = heap[nodes[k]].data
        BY ContentsFacts, NodeFacts
    <2>. HIDE DEF Contents
    <2>2. /\ s \in Seq(Datum) /\ Len(s) = Len(Contents) + 1
          /\ \A k \in 1..(Len(Contents) + 1) : s[k] = IF k = 1 THEN d ELSE Contents[k - 1]
        BY <2>1, ConsElements
    <2>. HIDE DEF s
    <2>. QED
        BY <2>1, <2>2
<1>5. /\ Len(nodes') = Len(nodes) + 1
      /\ \A k \in 1..(Len(nodes) + 1) : nodes'[k] = IF k = 1 THEN a ELSE nodes[k - 1]
    BY <1>1, <1>3, ConsElements
<1>. HIDE DEF s
<1>6. ASSUME NEW k \in 1..Len(s) PROVE s[k] = heap'[nodes'[k]].data
    <2>1. CASE k = 1
        <3>1. s[k] = d /\ nodes'[k] = a
            BY <1>4, <1>5, <2>1, NodeFacts
        <3>2. heap'[a] = [data |-> d, prev |-> Null, next |-> head]
            <4>1. a # head
                BY <1>2, <1>3, AtRest, NodeFacts, NullAssumption DEF NodeAt
            <4>. QED
                BY <1>1, <1>3, <4>1
        <3>. QED
            BY <3>1, <3>2
    <2>2. CASE k # 1
        <3>1. k - 1 \in 1..Len(nodes) /\ k \in 1..(Len(nodes) + 1)
            BY <1>4, <2>2, NodeFacts
        <3>2. nodes[k - 1] \in Address /\ nodes[k - 1] # a
            BY <1>3, <3>1, NodeFacts
        <3>3. heap'[nodes[k - 1]].data = heap[nodes[k - 1]].data
            BY <1>1, <1>3, <3>2 DEF Node
        <3>. QED
            BY <1>4, <1>5, <2>2, <3>1, <3>3
    <2>. QED
        BY <2>1, <2>2
<1>7. Contents' = s
    BY <1>4, <1>5, <1>6, ContentsAre
<1>8. Outcome = Contents /\ Outcome' = Contents' /\ Result = array /\ Result' = array'
    BY <1>2, Seen, SeenNext
<1>. QED
    BY <1>2, <1>7, <1>8
       DEF s, CallEffect, Items!ItemNext, Items!Change, Items!PushFront

LEMMA PushbackItems ==
    ASSUME ListInv, ListInv', NEW d \in Datum, list_pushback(d),
           call' = <<"list_pushback", d>>
    PROVE  CallEffect
<1>1. PICK a \in Fresh :
         /\ heap' = [b \in Address |->
                        CASE b = a    -> [data |-> d, prev |-> tail, next |-> Null]
                          [] b = tail -> [heap[b] EXCEPT !.next = a]
                          [] OTHER    -> heap[b]]
         /\ nodes' = Append(nodes, a)
    BY DEF list_pushback
<1>2. op = "none" /\ op' = "none" /\ array' = array
    BY DEF list_pushback, Rest
<1>3. a \in Address /\ a \notin live /\ heap \in [Address -> Node] /\ nodes \in Seq(Address)
    BY <1>1 DEF Fresh, ListInv, ListTypeOK
<1>. DEFINE s == Append(Contents, d)
            L == Len(nodes)
<1>4. /\ s \in Seq(Datum) /\ Len(s) = L + 1 /\ L \in Nat
      /\ \A k \in 1..(L + 1) : s[k] = IF k = L + 1 THEN d ELSE heap[nodes[k]].data
    <2>1. /\ Contents \in Seq(Datum) /\ Len(Contents) = L /\ L \in Nat
          /\ \A k \in 1..L : Contents[k] = heap[nodes[k]].data
        BY ContentsFacts, NodeFacts
    <2>. HIDE DEF Contents
    <2>2. /\ s \in Seq(Datum) /\ Len(s) = Len(Contents) + 1
          /\ \A k \in 1..(Len(Contents) + 1) :
                s[k] = IF k = Len(Contents) + 1 THEN d ELSE Contents[k]
        BY <2>1, AppendElements
    <2>. HIDE DEF s
    <2>. QED
        BY <2>1, <2>2
<1>5. /\ Len(nodes') = L + 1
      /\ \A k \in 1..(L + 1) : nodes'[k] = IF k = L + 1 THEN a ELSE nodes[k]
    BY <1>1, <1>3, AppendElements
<1>. HIDE DEF s
<1>6. ASSUME NEW k \in 1..Len(s) PROVE s[k] = heap'[nodes'[k]].data
    <2>1. CASE k = L + 1
        <3>1. s[k] = d /\ nodes'[k] = a
            BY <1>4, <1>5, <2>1
        <3>2. heap'[a] = [data |-> d, prev |-> tail, next |-> Null]
            <4>1. a # tail
                BY <1>2, <1>3, AtRest, NodeFacts, NullAssumption DEF NodeAt
            <4>. QED
                BY <1>1, <1>3, <4>1
        <3>. QED
            BY <3>1, <3>2
    <2>2. CASE k # L + 1
        <3>1. k \in 1..L /\ k \in 1..(L + 1)
            BY <1>4, <2>2, NodeFacts
        <3>2. nodes[k] \in Address /\ nodes[k] # a
            BY <1>3, <3>1, NodeFacts
        <3>3. heap'[nodes[k]].data = heap[nodes[k]].data
            BY <1>1, <1>3, <3>2 DEF Node
        <3>. QED
            BY <1>4, <1>5, <2>2, <3>1, <3>3
    <2>. QED
        BY <2>1, <2>2
<1>7. Contents' = s
    BY <1>4, <1>5, <1>6, ContentsAre
<1>8. Outcome = Contents /\ Outcome' = Contents' /\ Result = array /\ Result' = array'
    BY <1>2, Seen, SeenNext
<1>. QED
    BY <1>2, <1>7, <1>8
       DEF s, CallEffect, Items!ItemNext, Items!Change, Items!PushBack

LEMMA PopfrontItems ==
    ASSUME ListInv, ListInv', list_popfront,
           call' = <<"list_popfront">>
    PROVE  CallEffect
<1>1. /\ op = "none" /\ op' = "none" /\ array' = array /\ head # Null
      /\ nodes' = Tail(nodes)
      /\ heap' = [b \in Address |->
                     CASE b = head            -> Freed(heap[b])
                       [] b = heap[head].next -> [heap[b] EXCEPT !.prev = Null]
                       [] OTHER               -> heap[b]]
    BY DEF list_popfront, Rest
<1>2. /\ nodes \in Seq(Address) /\ heap \in [Address -> Node]
      /\ Len(nodes) \in Nat /\ Len(nodes) # 0 /\ head = nodes[1] /\ 1 \in 1..Len(nodes)
    BY <1>1, AtRest, NodeFacts DEF ListInv, ListTypeOK, NodeAt
<1>3. nodes # <<>>
    BY <1>2, EmptySeq
<1>4. /\ Len(nodes') = Len(nodes) - 1
      /\ \A k \in 1..(Len(nodes) - 1) : nodes'[k] = nodes[k + 1]
    BY <1>1, <1>2, <1>3, TailElements
<1>. DEFINE s == Tail(Contents)
<1>5. /\ s \in Seq(Datum) /\ Len(s) = Len(nodes) - 1 /\ Contents # <<>>
      /\ \A k \in 1..(Len(nodes) - 1) : s[k] = heap[nodes[k + 1]].data
    <2>1. /\ Contents \in Seq(Datum) /\ Len(Contents) = Len(nodes)
          /\ \A k \in 1..Len(nodes) : Contents[k] = heap[nodes[k]].data
        BY ContentsFacts
    <2>. HIDE DEF Contents
    <2>2. Contents # <<>>
        BY <1>2, <2>1, EmptySeq
    <2>3. /\ s \in Seq(Datum) /\ Len(s) = Len(Contents) - 1
          /\ \A k \in 1..(Len(Contents) - 1) : s[k] = Contents[k + 1]
        BY <2>1, <2>2, TailElements
    <2>. HIDE DEF s
    <2>. QED
        BY <1>2, <2>1, <2>2, <2>3
<1>. HIDE DEF s
<1>6. ASSUME NEW k \in 1..Len(s) PROVE s[k] = heap'[nodes'[k]].data
    <2>1. k \in 1..(Len(nodes) - 1) /\ k + 1 \in 1..Len(nodes) /\ k + 1 # 1
        BY <1>2, <1>5
    <2>2. nodes[k + 1] \in Address /\ nodes[k + 1] # head
        BY <1>2, <2>1, NodeFacts
    <2>3. heap'[nodes[k + 1]].data = heap[nodes[k + 1]].data
        BY <1>1, <1>2, <2>2 DEF Node
    <2>. QED
        BY <1>4, <1>5, <2>1, <2>3
<1>7. Contents' = s
    BY <1>4, <1>5, <1>6, ContentsAre
<1>8. Outcome = Contents /\ Outcome' = Contents' /\ Result = array /\ Result' = array'
    BY <1>1, Seen, SeenNext
<1>. QED
    BY <1>1, <1>5, <1>7, <1>8
       DEF s, CallEffect, Items!ItemNext, Items!Change, Items!PopFront

LEMMA PopbackItems ==
    ASSUME ListInv, ListInv', list_popback,
           call' = <<"list_popback">>
    PROVE  CallEffect
<1>1. /\ op = "none" /\ op' = "none" /\ array' = array /\ head # Null
      /\ nodes' = Front(nodes)
      /\ heap' = [b \in Address |->
                     CASE b = tail            -> Freed(heap[b])
                       [] b = heap[tail].prev -> [heap[b] EXCEPT !.next = Null]
                       [] OTHER               -> heap[b]]
    BY DEF list_popback, Rest
<1>. DEFINE L == Len(nodes)
<1>2. /\ nodes \in Seq(Address) /\ heap \in [Address -> Node]
      /\ L \in Nat /\ L # 0 /\ tail = nodes[L] /\ L \in 1..L
    BY <1>1, AtRest, NodeFacts DEF ListInv, ListTypeOK, NodeAt
<1>3. nodes # <<>>
    BY <1>2, EmptySeq
<1>4. /\ Len(nodes') = L - 1
      /\ \A k \in 1..(L - 1) : nodes'[k] = nodes[k]
    BY <1>1, <1>2, <1>3, FrontElements
<1>. DEFINE s == Front(Contents)
<1>5. /\ s \in Seq(Datum) /\ Len(s) = L - 1 /\ Contents # <<>>
      /\ \A k \in 1..(L - 1) : s[k] = heap[nodes[k]].data
    <2>1. /\ Contents \in Seq(Datum) /\ Len(Contents) = L
          /\ \A k \in 1..L : Contents[k] = heap[nodes[k]].data
        BY ContentsFacts
    <2>. HIDE DEF Contents
    <2>2. Contents # <<>>
        BY <1>2, <2>1, EmptySeq
    <2>3. /\ s \in Seq(Datum) /\ Len(s) = Len(Contents) - 1
          /\ \A k \in 1..(Len(Contents) - 1) : s[k] = Contents[k]
        BY <2>1, <2>2, FrontElements
    <2>. HIDE DEF s
    <2>. QED
        BY <1>2, <2>1, <2>2, <2>3
<1>. HIDE DEF s
<1>6. ASSUME NEW k \in 1..Len(s) PROVE s[k] = heap'[nodes'[k]].data
    <2>1. k \in 1..(L - 1) /\ k \in 1..L /\ k # L
        BY <1>2, <1>5
    <2>2. nodes[k] \in Address /\ nodes[k] # tail
        BY <1>2, <2>1, NodeFacts
    <2>3. heap'[nodes[k]].data = heap[nodes[k]].data
        BY <1>1, <1>2, <2>2 DEF Node
    <2>. QED
        BY <1>4, <1>5, <2>1, <2>3
<1>7. Contents' = s
    BY <1>4, <1>5, <1>6, ContentsAre
<1>8. Outcome = Contents /\ Outcome' = Contents' /\ Result = array /\ Result' = array'
    BY <1>1, Seen, SeenNext
<1>9. Contents' = Items!Front(Contents)
    BY <1>7, SameFunctions DEF s
<1>. QED
    BY <1>1, <1>5, <1>8, <1>9
       DEF CallEffect, Items!ItemNext, Items!Change, Items!PopBack

-----------------------------------------------------------------------------
(* The functions that walk take effect when they are called.               *)
LEMMA SearchItems ==
    ASSUME ListInv, ListInv', NEW d \in Datum, list_search(d),
           call' = <<"list_search", d>>
    PROVE  CallEffect
<1>1. /\ op = "none" /\ op' = "search" /\ needle' = d /\ at' = 1
      /\ UNCHANGED <<heap, nodes, array>>
    BY DEF list_search, Enter, Begin
<1>2. Contents' = Contents
    BY <1>1, SameContents
<1>3. Ahead' = Contents
    BY <1>1, <1>2, AllAhead
<1>4. Outcome = Contents /\ Outcome' = Contents'
      /\ Result' = IF d \in Range(Contents) THEN <<d>> ELSE <<>>
    BY <1>1, <1>3, Seen, SeenNext
<1>5. Items!Range(Contents) = Range(Contents)
    BY SameFunctions
<1>. QED
    BY <1>2, <1>4, <1>5 DEF CallEffect, Items!ItemNext, Items!Read, Items!Find

LEMMA GetallItems ==
    ASSUME ListInv, ListInv', client_getall,
           call' = <<"client_getall">>
    PROVE  CallEffect
<1>1. /\ op = "none" /\ op' = "getall" /\ array' = <<>> /\ at' = 1
      /\ UNCHANGED <<heap, nodes>>
    BY DEF client_getall, Begin
<1>2. Contents' = Contents
    BY <1>1, SameContents
<1>3. Ahead' = Contents
    BY <1>1, <1>2, AllAhead
<1>4. <<>> \o Contents = Contents
    BY ContentsFacts, ConcatEmptySeq
<1>5. Outcome = Contents /\ Outcome' = Contents' /\ Result' = Contents
    BY <1>1, <1>3, <1>4, Seen, SeenNext
<1>. QED
    BY <1>2, <1>5 DEF CallEffect, Items!ItemNext, Items!Read, Items!GetAll

LEMMA RemoveItems ==
    ASSUME ListInv, ListInv', NEW d \in Datum, list_remove(d),
           call' = <<"list_remove", d>>
    PROVE  CallEffect
<1>1. /\ op = "none" /\ op' \in {"remove", "remove_first"} /\ needle' = d /\ at' = 1
      /\ UNCHANGED <<heap, nodes, array>>
    BY DEF list_remove, Enter, Begin
<1>2. Contents' = Contents
    BY <1>1, SameContents
<1>3. Ahead' = Contents /\ Behind' = <<>>
    BY <1>1, <1>2, AllAhead
<1>4. Outcome = Contents /\ Result = array /\ Result' = array'
    BY <1>1, Seen, SeenNext
<1>5. CASE op' = "remove"
    <2>1. Outcome' = <<>> \o Unmatched(Contents, d)
        BY <1>1, <1>3, <1>5, SeenNext
    <2>2. Unmatched(Contents, d) \in Seq(Datum)
        BY ContentsFacts, UnmatchedType
    <2>3. Outcome' = Items!Unmatched(Contents, d)
        BY <2>1, <2>2, ConcatEmptySeq, SameFunctions
    <2>. QED
        BY <1>1, <1>4, <2>3 DEF CallEffect, Items!ItemNext, Items!Change, Items!RemoveAll
<1>6. CASE op' = "remove_first"
    <2>1. Outcome' = <<>> \o RemoveFirst(Contents, d)
        BY <1>1, <1>3, <1>6, SeenNext
    <2>2. RemoveFirst(Contents, d) \in Seq(Datum)
        BY ContentsFacts, RemoveFirstType
    <2>3. Outcome' = RemoveFirst(Contents, d)
        BY <2>1, <2>2, ConcatEmptySeq
    <2>. QED
        BY <1>1, <1>4, <1>6, <2>3 DEF CallEffect, RemoveFirstOnly
<1>. QED
    BY <1>1, <1>5, <1>6

LEMMA DestroyItems ==
    ASSUME list_destroy,
           call' = <<"list_destroy">>
    PROVE  CallEffect
<1>1. op = "none" /\ op' = "destroy" /\ array' = array
    BY DEF list_destroy, Enter, Begin
<1>2. Outcome' = <<>> /\ Result = array /\ Result' = array'
    BY <1>1, Seen, SeenNext
<1>. QED
    BY <1>1, <1>2 DEF CallEffect, Items!ItemNext, Items!Change, Items!Clear

LEMMA ReverseItems ==
    ASSUME ListInv, ListInv', list_reverse,
           call' = <<"list_reverse">>
    PROVE  CallEffect
<1>1. /\ op = "none" /\ op' = "reverse" /\ nodes' = Reverse(nodes)
      /\ UNCHANGED <<heap, array>>
    BY DEF list_reverse
<1>. DEFINE L == Len(nodes)
            s == Reverse(Contents)
<1>2. nodes \in Seq(Address) /\ L \in Nat
    BY NodeFacts DEF ListInv, ListTypeOK
<1>3. Len(nodes') = L /\ \A k \in 1..L : nodes'[k] = nodes[L - k + 1]
    BY <1>1, <1>2, ReverseElements
<1>4. /\ s \in Seq(Datum) /\ Len(s) = L
      /\ \A k \in 1..L : s[k] = heap[nodes[L - k + 1]].data
    <2>1. /\ Contents \in Seq(Datum) /\ Len(Contents) = L
          /\ \A k \in 1..L : Contents[k] = heap[nodes[k]].data
        BY ContentsFacts
    <2>. HIDE DEF Contents
    <2>2. /\ s \in Seq(Datum) /\ Len(s) = Len(Contents)
          /\ \A k \in 1..Len(Contents) : s[k] = Contents[Len(Contents) - k + 1]
        BY <2>1, ReverseElements
    <2>. HIDE DEF s
    <2>3. \A k \in 1..L : L - k + 1 \in 1..L
        BY <1>2
    <2>. QED
        BY <2>1, <2>2, <2>3
<1>. HIDE DEF s
<1>5. Contents' = s
    BY <1>1, <1>3, <1>4, ContentsAre
<1>6. Outcome = Contents /\ Outcome' = Contents' /\ Result = array /\ Result' = array'
    BY <1>1, Seen, SeenNext
<1>7. Contents' = Items!Reverse(Contents)
    BY <1>5, SameFunctions DEF s
<1>. QED
    BY <1>1, <1>6, <1>7 DEF CallEffect, Items!ItemNext, Items!Change, Items!TurnRound

-----------------------------------------------------------------------------
(* The steps of a walk change nothing of it.                               *)
LEMMA RangeOfCons ==
    ASSUME NEW S, NEW s \in Seq(S), NEW x \in S
    PROVE  Range(<<x>> \o s) = {x} \cup Range(s)
<1>. DEFINE t == <<x>> \o s
<1>1. /\ t \in Seq(S) /\ Len(t) = Len(s) + 1 /\ Len(s) \in Nat
      /\ \A k \in 1..(Len(s) + 1) : t[k] = IF k = 1 THEN x ELSE s[k - 1]
    BY ConsElements, LenProperties
<1>2. DOMAIN t = 1..(Len(s) + 1) /\ DOMAIN s = 1..Len(s)
    BY <1>1, LenProperties
<1>. HIDE DEF t
<1>3. ASSUME NEW k \in DOMAIN t PROVE t[k] \in {x} \cup Range(s)
    <2>1. CASE k = 1
        BY <1>1, <1>2, <2>1
    <2>2. CASE k # 1
        <3>1. k - 1 \in DOMAIN s /\ t[k] = s[k - 1]
            BY <1>1, <1>2, <2>2
        <3>. QED
            BY <3>1 DEF Range
    <2>. QED
        BY <2>1, <2>2
<1>4. x \in Range(t)
    <2>1. 1 \in DOMAIN t /\ t[1] = x
        BY <1>1, <1>2
    <2>. QED
        BY <2>1 DEF Range
<1>5. ASSUME NEW k \in DOMAIN s PROVE s[k] \in Range(t)
    <2>1. k + 1 \in DOMAIN t /\ t[k + 1] = s[k]
        BY <1>1, <1>2
    <2>. QED
        BY <2>1 DEF Range
<1>6. Range(t) \subseteq {x} \cup Range(s)
    BY <1>3 DEF Range
<1>7. Range(s) \subseteq Range(t)
    BY <1>5 DEF Range
<1>. QED
    BY <1>4, <1>6, <1>7 DEF t

LEMMA SearchStepItems ==
    ASSUME ListInv, ListInv', SearchStep
    PROVE  SameItems
<1>1. /\ op = "search" /\ node # Null /\ UNCHANGED <<heap, nodes>>
      /\ \/ Matches /\ Leave /\ array' = <<heap[node].data>>
         \/ ~Matches /\ Advance(heap[node].next) /\ array' = array
    BY DEF SearchStep
<1>2. at \in 1..Len(nodes) /\ node = nodes[at]
    BY <1>1, OnItsNode
<1>. DEFINE x == heap[nodes[at]].data
<1>3. x \in Datum /\ Beyond \in Seq(Datum) /\ Ahead = <<x>> \o Beyond
    BY <1>2, NextItem
<1>4. Matches <=> x = needle
    BY <1>2 DEF Matches
<1>5. Range(Ahead) = {x} \cup Range(Beyond)
    BY <1>3, RangeOfCons
<1>6. Contents' = Contents
    BY <1>1, SameContents
<1>7. Outcome = Contents /\ Result = IF needle \in Range(Ahead) THEN <<needle>> ELSE <<>>
    BY <1>1, Seen
<1>8. CASE Matches
    <2>1. op' = "none" /\ array' = <<x>>
        BY <1>1, <1>2, <1>8 DEF Leave
    <2>2. Outcome' = Contents' /\ Result' = <<x>>
        BY <2>1, SeenNext
    <2>. QED
        BY <1>4, <1>5, <1>6, <1>7, <1>8, <2>2 DEF SameItems
<1>9. CASE ~Matches
    <2>1. op' = "search" /\ needle' = needle /\ at' = at + 1
        BY <1>1, <1>9 DEF Advance
    <2>2. Ahead' = Beyond
        BY <1>1, <1>2, <1>6, <2>1, OneFurther
    <2>3. /\ Outcome' = Contents'
          /\ Result' = IF needle \in Range(Beyond) THEN <<needle>> ELSE <<>>
        BY <2>1, <2>2, SeenNext
    <2>4. needle \in Range(Ahead) <=> needle \in Range(Beyond)
        BY <1>4, <1>5, <1>9
    <2>. QED
        BY <1>6, <1>7, <2>3, <2>4 DEF SameItems
<1>. QED
    BY <1>8, <1>9

(* A walk has come to its end.                                             *)
LEMMA AllBehind ==
    ASSUME ListInv, op # "none", node = Null
    PROVE  /\ Ahead = <<>> /\ Behind = Contents
           /\ Contents \in Seq(Datum) /\ Contents \o <<>> = Contents
<1>1. at = Len(nodes) + 1 /\ at \in 1..(Len(nodes) + 1)
    BY OnItsNode, NodeFacts
<1>2. Contents \in Seq(Datum)
    BY ContentsFacts
<1>. QED
    BY <1>1, <1>2, WalkFacts, ConcatEmptySeq

LEMMA NotFoundItems ==
    ASSUME ListInv, ListInv', NotFound
    PROVE  SameItems
<1>1. /\ op = "search" /\ node = Null /\ UNCHANGED <<heap, nodes>>
      /\ op' = "none" /\ array' = <<>>
    BY DEF NotFound, Leave
<1>2. Ahead = <<>> /\ Range(<<>>) = {}
    BY <1>1, AllBehind DEF Range
<1>3. Contents' = Contents
    BY <1>1, SameContents
<1>4. Outcome = Contents /\ Result = <<>> /\ Outcome' = Contents' /\ Result' = array'
    BY <1>1, <1>2, Seen, SeenNext
<1>. QED
    BY <1>1, <1>3, <1>4 DEF SameItems

(* The node that is removed is the next; the other items stay.             *)
LEMMA DropContents ==
    ASSUME ListInv, ListInv', at \in 1..Len(nodes), node = nodes[at], Drop
    PROVE  Contents' = Behind \o Beyond
<1>. DEFINE L == Len(nodes)
            s == RemoveAt(Contents, at)
<1>1. nodes \in Seq(Address) /\ L \in Nat /\ heap \in [Address -> Node]
    BY NodeFacts DEF ListInv, ListTypeOK
<1>2. /\ Len(nodes') = L - 1
      /\ \A k \in 1..(L - 1) : nodes'[k] = IF k < at THEN nodes[k] ELSE nodes[k + 1]
    BY <1>1, RemoveAtElements DEF Drop
<1>3. /\ s \in Seq(Datum) /\ Len(s) = L - 1 /\ s = Behind \o Beyond
      /\ \A k \in 1..(L - 1) :
            s[k] = IF k < at THEN heap[nodes[k]].data ELSE heap[nodes[k + 1]].data
    <2>1. /\ Contents \in Seq(Datum) /\ Len(Contents) = L
          /\ \A k \in 1..L : Contents[k] = heap[nodes[k]].data
        BY ContentsFacts
    <2>2. s = Behind \o Beyond
        BY <2>1 DEF RemoveAt, Behind, Beyond
    <2>. HIDE DEF Contents
    <2>3. /\ s \in Seq(Datum) /\ Len(s) = Len(Contents) - 1
          /\ \A k \in 1..(Len(Contents) - 1) :
                s[k] = IF k < at THEN Contents[k] ELSE Contents[k + 1]
        BY <2>1, RemoveAtElements
    <2>. HIDE DEF s
    <2>4. \A k \in 1..(L - 1) : k \in 1..L /\ k + 1 \in 1..L
        BY <1>1
    <2>. QED
        BY <2>1, <2>2, <2>3, <2>4
<1>. HIDE DEF s
<1>4. \A a \in Address \ {node} : heap'[a].data = heap[a].data
    BY <1>1 DEF Drop, remove_node, Node
<1>5. ASSUME NEW k \in 1..Len(s) PROVE s[k] = heap'[nodes'[k]].data
    <2>1. k \in 1..(L - 1) /\ k \in 1..L /\ k + 1 \in 1..L
        BY <1>1, <1>3
    <2>2. CASE k < at
        <3>1. nodes[k] \in Address \ {node}
            BY <2>1, <2>2, NodeFacts
        <3>. QED
            BY <1>2, <1>3, <1>4, <2>1, <2>2, <3>1
    <2>3. CASE ~(k < at)
        <3>1. k + 1 # at
            BY <2>1, <2>3
        <3>2. nodes[k + 1] \in Address \ {node}
            BY <2>1, <3>1, NodeFacts
        <3>. QED
            BY <1>2, <1>3, <1>4, <2>1, <2>3, <3>2
    <2>. QED
        BY <2>2, <2>3
<1>6. Contents' = s
    BY <1>2, <1>3, <1>5, ContentsAre
<1>. QED
    BY <1>3, <1>6

(* A sequence of two parts is cut where they meet.                         *)
LEMMA CutAgain ==
    ASSUME NEW S, NEW u \in Seq(S), NEW v \in Seq(S)
    PROVE  /\ SubSeq(u \o v, 1, Len(u)) = u
           /\ SubSeq(u \o v, Len(u) + 1, Len(u) + Len(v)) = v
<1>. DEFINE w == u \o v
            b == SubSeq(w, 1, Len(u))
            a == SubSeq(w, Len(u) + 1, Len(w))
<1>1. /\ w \in Seq(S) /\ Len(w) = Len(u) + Len(v) /\ Len(u) \in Nat /\ Len(v) \in Nat
      /\ \A k \in 1..(Len(u) + Len(v)) : w[k] = IF k <= Len(u) THEN u[k] ELSE v[k - Len(u)]
    BY ConcatProperties, LenProperties
<1>. HIDE DEF w
<1>2. /\ b \in Seq(S) /\ Len(b) = Len(u) /\ \A k \in 1..Len(u) : b[k] = w[k]
      /\ a \in Seq(S) /\ Len(a) = Len(v) /\ \A k \in 1..Len(v) : a[k] = w[Len(u) + k]
    <2>. DEFINE j == Len(u) + 1
    <2>1. /\ j \in 1..(Len(w) + 1) /\ j - 1 = Len(u) /\ Len(w) - j + 1 = Len(v)
          /\ \A k \in 1..Len(v) : j + k - 1 = Len(u) + k
        BY <1>1
    <2>2. a = SubSeq(w, j, Len(w))
        OBVIOUS
    <2>. HIDE DEF j, a
    <2>3. /\ SubSeq(w, 1, j - 1) \in Seq(S) /\ Len(SubSeq(w, 1, j - 1)) = j - 1
          /\ \A k \in 1..(j - 1) : SubSeq(w, 1, j - 1)[k] = w[k]
          /\ a \in Seq(S) /\ Len(a) = Len(w) - j + 1
          /\ \A k \in 1..(Len(w) - j + 1) : a[k] = w[j + k - 1]
        BY <1>1, <2>1, <2>2, SplitAt
    <2>. QED
        BY <2>1, <2>3
<1>. HIDE DEF a, b
<1>3. \A k \in 1..Len(u) : b[k] = u[k]
    BY <1>1, <1>2
<1>4. ASSUME NEW k \in 1..Len(v) PROVE a[k] = v[k]
    <2>1. /\ Len(u) + k \in 1..(Len(u) + Len(v)) /\ ~(Len(u) + k <= Len(u))
          /\ (Len(u) + k) - Len(u) = k
        BY <1>1
    <2>. QED
        BY <1>1, <1>2, <2>1
<1>5. b = u /\ a = v
    BY <1>2, <1>3, <1>4, SeqEqual
<1>. QED
    BY <1>1, <1>5 DEF w, a, b

(* What the two functions that remove make of the items ahead.             *)
LEMMA RemoveStepItems ==
    ASSUME ListInv, ListInv', RemoveStep
    PROVE  SameItems
<1>1. op \in {"remove", "remove_first"} /\ node # Null /\ array' = array
    BY DEF RemoveStep
<1>2. at \in 1..Len(nodes) /\ at \in Nat /\ node = nodes[at]
    BY <1>1, OnItsNode
<1>. DEFINE x == heap[nodes[at]].data
<1>3. /\ x \in Datum /\ Beyond \in Seq(Datum) /\ Ahead = <<x>> \o Beyond
      /\ Behind \in Seq(Datum) /\ (Matches <=> x = needle)
    <2>1. x \in Datum /\ Beyond \in Seq(Datum) /\ Ahead = <<x>> \o Beyond
        BY <1>2, NextItem
    <2>2. at \in 1..(Len(nodes) + 1)
        BY <1>2, NodeFacts
    <2>3. Behind \in Seq(Datum)
        BY <2>2, WalkFacts
    <2>. QED
        BY <1>2, <2>1, <2>3 DEF Matches
<1>4. Result = array /\ (op' \in {"none", "remove", "remove_first"} => Result' = array')
    BY <1>1, Seen, SeenNext
<1>. HIDE DEF x
<1>5. Unmatched(Beyond, needle) \in Seq(Datum) /\ RemoveFirst(Beyond, needle) \in Seq(Datum)
    BY <1>3, UnmatchedType, RemoveFirstType
<1>6. /\ op = "remove" =>
            Outcome = Behind \o (IF x = needle THEN Unmatched(Beyond, needle)
                                 ELSE <<x>> \o Unmatched(Beyond, needle))
      /\ op = "remove_first" =>
            Outcome = Behind \o (IF x = needle THEN Beyond
                                 ELSE <<x>> \o RemoveFirst(Beyond, needle))
    <2>1. Unmatched(<<x>> \o Beyond, needle) =
            IF x = needle THEN Unmatched(Beyond, needle)
            ELSE <<x>> \o Unmatched(Beyond, needle)
        BY <1>3, UnmatchedFirst
    <2>2. RemoveFirst(<<x>> \o Beyond, needle) =
            IF x = needle THEN Beyond ELSE <<x>> \o RemoveFirst(Beyond, needle)
        BY <1>3, RemoveFirstFirst
    <2>3. /\ op = "remove" => Outcome = Behind \o Unmatched(<<x>> \o Beyond, needle)
          /\ op = "remove_first" => Outcome = Behind \o RemoveFirst(<<x>> \o Beyond, needle)
        BY <1>3, Seen
    <2>. QED
        BY <2>1, <2>2, <2>3
<1>7. CASE ~Matches
    <2>1. /\ op' = op /\ needle' = needle /\ at' = at + 1
          /\ UNCHANGED <<heap, nodes>>
        BY <1>7 DEF RemoveStep, Advance
    <2>2. Ahead' = Beyond /\ Behind' = Append(Behind, x)
        BY <1>2, <2>1, SameContents, OneFurther DEF x
    <2>3. CASE op = "remove"
        <3>1. Outcome = Behind \o (<<x>> \o Unmatched(Beyond, needle))
            BY <1>3, <1>6, <1>7, <2>3
        <3>2. Outcome' = Append(Behind, x) \o Unmatched(Beyond, needle)
            BY <2>1, <2>2, <2>3, SeenNext
        <3>3. Outcome' = Outcome
            BY <1>3, <1>5, <3>1, <3>2, MovedOver
        <3>. QED
            BY <1>1, <1>4, <2>1, <3>3 DEF SameItems
    <2>4. CASE op = "remove_first"
        <3>1. Outcome = Behind \o (<<x>> \o RemoveFirst(Beyond, needle))
            BY <1>3, <1>6, <1>7, <2>4
        <3>2. Outcome' = Append(Behind, x) \o RemoveFirst(Beyond, needle)
            BY <2>1, <2>2, <2>4, SeenNext
        <3>3. Outcome' = Outcome
            BY <1>3, <1>5, <3>1, <3>2, MovedOver
        <3>. QED
            BY <1>1, <1>4, <2>1, <3>3 DEF SameItems
    <2>. QED
        BY <1>1, <2>3, <2>4
<1>8. CASE Matches
    <2>1. Drop
        BY <1>8 DEF RemoveStep
    <2>2. Contents' = Behind \o Beyond
        BY <1>2, <2>1, DropContents
    <2>3. CASE op = "remove_first"
        <3>1. op' = "none"
            BY <1>8, <2>3 DEF RemoveStep, Leave
        <3>2. Outcome = Behind \o Beyond
            BY <1>3, <1>6, <1>8, <2>3
        <3>3. Outcome' = Contents'
            BY <3>1, SeenNext
        <3>. QED
            BY <1>1, <1>4, <2>2, <3>1, <3>2, <3>3 DEF SameItems
    <2>4. CASE op = "remove"
        <3>1. op' = "remove" /\ needle' = needle /\ at' = at
            BY <1>8, <2>4 DEF RemoveStep
        <3>2. Outcome = Behind \o Unmatched(Beyond, needle)
            BY <1>3, <1>6, <1>8, <2>4
        <3>3. Behind' = Behind /\ Ahead' = Beyond
            <4>1. /\ Contents \in Seq(Datum) /\ Len(Contents) = Len(nodes)
                  /\ Len(nodes) \in Nat /\ at \in 1..(Len(Contents) + 1)
                BY <1>2, ContentsFacts, NodeFacts
            <4>2. Len(Behind) = at - 1
                <5>1. Behind = SubSeq(Contents, 1, at - 1)
                    BY DEF Behind
                <5>. HIDE DEF Contents, Behind
                <5>. QED
                    BY <4>1, <5>1, SplitAt
            <4>3. Len(nodes') = Len(nodes) - 1
                BY <1>2, <2>1, RemoveAtElements DEF Drop, ListInv, ListTypeOK
            <4>4. Len(Behind) + Len(Beyond) = Len(nodes')
                <5>1. Contents' \in Seq(Datum) /\ Len(Contents') = Len(nodes')
                    BY NextContents
                <5>2. Len(Behind \o Beyond) = Len(Behind) + Len(Beyond)
                    BY <1>3, ConcatProperties
                <5>. QED
                    BY <2>2, <5>1, <5>2
            <4>5. /\ Behind' = SubSeq(Behind \o Beyond, 1, Len(Behind))
                  /\ Ahead' = SubSeq(Behind \o Beyond, Len(Behind) + 1,
                                     Len(Behind) + Len(Beyond))
                <5>1. Behind' = SubSeq(Contents', 1, at' - 1)
                    BY DEF Behind
                <5>2. Ahead' = SubSeq(Contents', at', Len(nodes'))
                    BY DEF Ahead
                <5>3. Len(Behind) + 1 = at
                    BY <1>2, <4>2
                <5>. QED
                    BY <2>2, <3>1, <4>2, <4>4, <5>1, <5>2, <5>3
            <4>. QED
                BY <1>3, <4>5, CutAgain
        <3>4. Outcome' = Outcome
            BY <3>1, <3>2, <3>3, SeenNext
        <3>. QED
            BY <1>1, <1>4, <3>1, <3>4 DEF SameItems
    <2>. QED
        BY <1>1, <2>3, <2>4
<1>. QED
    BY <1>7, <1>8

LEMMA ReverseStepItems ==
    ASSUME ListInv, ListInv', ReverseStep
    PROVE  SameItems
<1>1. /\ op = "reverse" /\ op' = "reverse" /\ node # Null
      /\ heap' = [heap EXCEPT ![node].prev = heap[node].next,
                              ![node].next = heap[node].prev]
      /\ UNCHANGED <<array, nodes>>
    BY DEF ReverseStep, Advance
<1>2. node \in Address /\ heap \in [Address -> Node]
    BY <1>1, OnItsNode, NodeFacts DEF ListInv, ListTypeOK
<1>3. \A k \in 1..Len(nodes) : heap'[nodes[k]].data = heap[nodes[k]].data
    <2>1. \A a \in Address : heap'[a].data = heap[a].data
        BY <1>1, <1>2 DEF Node
    <2>. QED
        BY <2>1, NodeFacts
<1>4. Contents' = Contents
    BY <1>1, <1>3, SameContents
<1>5. Outcome = Contents /\ Outcome' = Contents' /\ Result = array /\ Result' = array'
    BY <1>1, Seen, SeenNext
<1>. QED
    BY <1>1, <1>4, <1>5 DEF SameItems

LEMMA DestroyStepItems ==
    ASSUME DestroyStep
    PROVE  SameItems
<1>1. op = "destroy" /\ op' = "destroy" /\ array' = array
    BY DEF DestroyStep
<1>. QED
    BY <1>1, Seen, SeenNext DEF SameItems

LEMMA RenewItems ==
    ASSUME ListInv, ListInv', Renew
    PROVE  SameItems
<1>1. /\ op = "destroy" /\ node = Null /\ op' = "none"
      /\ UNCHANGED <<heap, array, nodes>>
    BY DEF Renew, Leave
<1>2. Len(nodes) = 0
    BY <1>1, OnItsNode, NodeFacts DEF ListInv, Linked
<1>3. Contents' = <<>>
    <2>1. Contents' = Contents
        BY <1>1, SameContents
    <2>2. Contents \in Seq(Datum) /\ Len(Contents) = 0
        BY <1>2, ContentsFacts
    <2>. HIDE DEF Contents
    <2>. QED
        BY <2>1, <2>2, EmptySeq
<1>4. Outcome = <<>> /\ Outcome' = Contents' /\ Result = array /\ Result' = array'
    BY <1>1, Seen, SeenNext
<1>. QED
    BY <1>1, <1>3, <1>4 DEF SameItems

LEMMA IterItems ==
    ASSUME ListInv, ListInv', iter_next
    PROVE  SameItems
<1>1. /\ op = "getall" /\ op' = "getall" /\ node # Null /\ at' = at + 1
      /\ array' = Append(array, heap[node].data)
      /\ UNCHANGED <<heap, nodes>>
    BY DEF iter_next, Advance
<1>2. at \in 1..Len(nodes) /\ node = nodes[at]
    BY <1>1, OnItsNode
<1>. DEFINE x == heap[nodes[at]].data
<1>3. x \in Datum /\ Beyond \in Seq(Datum) /\ Ahead = <<x>> \o Beyond
    BY <1>2, NextItem
<1>4. Contents' = Contents
    BY <1>1, SameContents
<1>5. Ahead' = Beyond
    BY <1>1, <1>2, <1>4, OneFurther
<1>6. array' = Append(array, x) /\ array \in Seq(Datum)
    BY <1>1, <1>2 DEF ListInv, ListTypeOK
<1>. HIDE DEF x
<1>7. Result = array \o (<<x>> \o Beyond) /\ Result' = Append(array, x) \o Beyond
    BY <1>1, <1>3, <1>5, <1>6, Seen, SeenNext
<1>8. Result' = Result
    BY <1>3, <1>6, <1>7, MovedOver
<1>9. Outcome = Contents /\ Outcome' = Contents'
    BY <1>1, Seen, SeenNext
<1>. QED
    BY <1>4, <1>8, <1>9 DEF SameItems

LEMMA WalkEndsItems ==
    ASSUME ListInv, ListInv', WalkEnds
    PROVE  SameItems
<1>1. /\ op \in {"remove", "remove_first", "reverse", "getall"} /\ node = Null
      /\ op' = "none" /\ UNCHANGED <<heap, nodes, array>>
    BY DEF WalkEnds, Leave
<1>2. Ahead = <<>> /\ Behind = Contents /\ Contents \o <<>> = Contents
    BY <1>1, AllBehind
<1>3. Unmatched(<<>>, needle) = <<>> /\ RemoveFirst(<<>>, needle) = <<>>
    BY UnmatchedNone, RemoveFirstNone
<1>4. Outcome = Contents
    BY <1>1, <1>2, <1>3, Seen
<1>5. array \o <<>> = array
    BY ConcatEmptySeq DEF ListInv, ListTypeOK
<1>6. Result = array
    BY <1>1, <1>2, <1>5, Seen
<1>7. Contents' = Contents
    BY <1>1, SameContents
<1>8. Outcome' = Contents' /\ Result' = array'
    BY <1>1, SeenNext
<1>. QED
    BY <1>1, <1>4, <1>6, <1>7, <1>8 DEF SameItems

-----------------------------------------------------------------------------
(* Of a list with any number of nodes and items, each function that is     *)
(* called does what list.h says of it: pushes and pops at the right end, a *)
(* removal with a callback takes out every match and nothing else, a       *)
(* search finds what is there and an iterator yields the items in their    *)
(* order (list.c, iter.c).  list_remove without a callback takes out the   *)
(* first match only, where list.h promises all.                            *)
THEOREM ItemsAreImplemented == ListSafe => ImplementsItems
<1>1. ListInit => Items!ItemInit
    <2>. SUFFICES ASSUME ListInit PROVE Items!ItemInit
        OBVIOUS
    <2>1. op = "none" /\ nodes = <<>> /\ array = <<>>
        BY DEF ListInit
    <2>2. Contents = <<>>
        <3>1. DOMAIN nodes = {}
            BY <2>1
        <3>2. Contents = [k \in {} |-> heap[nodes[k]].data]
            BY <3>1 DEF Contents
        <3>3. Contents \in [1..0 -> {}]
            BY <3>2
        <3>4. Contents \in Seq({}) /\ Len(Contents) = 0
            BY <3>3, IsASeq, LenProperties
        <3>. HIDE DEF Contents
        <3>. QED
            BY <3>4, EmptySeq
    <2>3. Outcome = <<>> /\ Result = <<>> /\ call = <<"list_new">>
        BY <2>1, <2>2, Seen DEF ListInit
    <2>. QED
        BY <2>3 DEF Items!ItemInit
<1>2. ASSUME ListInv, ListInv', [ListNext]_listVars
      PROVE  [Items!ItemNext \/ RemoveFirstOnly]_<<Outcome, Result, call>>
    <2>1. CASE UNCHANGED listVars
        BY <2>1 DEF listVars, walkVars, Outcome, Result, Contents, Ahead, Behind
    <2>2. CASE ListCall
        <3>1. ASSUME NEW d \in Datum,
                     \/ list_pushfront(d) /\ call' = <<"list_pushfront", d>>
                     \/ list_pushback(d)  /\ call' = <<"list_pushback", d>>
                     \/ list_search(d)    /\ call' = <<"list_search", d>>
                     \/ list_remove(d)    /\ call' = <<"list_remove", d>>
              PROVE  CallEffect
            BY <1>2, <3>1, PushfrontItems, PushbackItems, SearchItems, RemoveItems
        <3>2. CallEffect
            BY <1>2, <2>2, <3>1, PopfrontItems, PopbackItems, ReverseItems, DestroyItems,
               GetallItems DEF ListCall
        <3>. QED
            BY <3>2 DEF CallEffect
    <2>3. CASE ListStep /\ UNCHANGED call
        <3>1. SameItems
            BY <1>2, <2>3, SearchStepItems, NotFoundItems, RemoveStepItems, ReverseStepItems,
               DestroyStepItems, RenewItems, IterItems, WalkEndsItems DEF ListStep
        <3>. QED
            BY <2>3, <3>1 DEF SameItems
    <2>. QED
        BY <1>2, <2>1, <2>2, <2>3 DEF ListNext
<1>. QED
    BY <1>1, <1>2, ListInvariance, PTL DEF ListSafe, ImplementsItems
=============================================================================
