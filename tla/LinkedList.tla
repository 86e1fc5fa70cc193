------------------------------ MODULE LinkedList ------------------------------
(***************************************************************************)
(* list.c and iter.c: a doubly linked list in cells that malloc() gives    *)
(* and free() takes back.  Functions without a loop are one action; those  *)
(* that walk the list take a step for each node they stand on.             *)
(***************************************************************************)
EXTENDS SequencesExt, Naturals

CONSTANTS
    Address,    \* where nodes may lie
    Datum,      \* what is kept; two that match a needle are the same
    Null

ASSUME NullAssumption == Null \notin Address

VARIABLES
    heap,       \* heap[a]: the struct Node at a; what it was, if a is free
    live,       \* the addresses that are allocated
    head, tail, size,
    op,         \* the function that is walking the list, or "none"
    node,       \* the node that it stands on
    needle,     \* what it looks for
    array,      \* what the last call that reads the list gave to its caller
    nodes, at,  \* ghosts: the nodes in order, the position of node in them
    call        \* history: the function that was called last, and its datum

walkVars == <<heap, live, head, tail, size, op, node, needle, array, nodes, at>>
listVars == <<walkVars, call>>

Pointer == Address \cup {Null}
Node == [data : Datum \cup {Null}, prev : Pointer, next : Pointer]

Loop == {"search", "remove_first", "remove", "reverse", "destroy", "getall"}

ListInit ==
    /\ heap = [a \in Address |-> [data |-> Null, prev |-> Null, next |-> Null]]
    /\ live = {} /\ head = Null /\ tail = Null /\ size = 0
    /\ op = "none" /\ node = Null /\ needle = Null /\ array = <<>>
    /\ nodes = <<>> /\ at = 1 /\ call = <<"list_new">>

-----------------------------------------------------------------------------
(* Both ends.                                                              *)

Rest == UNCHANGED <<op, node, needle, array, at>>

(* new_node: malloc() may give any address that is free.                   *)
Fresh == Address \ live

list_pushfront(d) ==
    /\ op = "none"
    /\ \E a \in Fresh :
         /\ heap' = [b \in Address |->
                        CASE b = a    -> [data |-> d, prev |-> Null, next |-> head]
                          [] b = head -> [heap[b] EXCEPT !.prev = a]
                          [] OTHER    -> heap[b]]
         /\ live' = live \cup {a}
         /\ head' = a
         /\ tail' = IF head = Null THEN a ELSE tail
         /\ nodes' = <<a>> \o nodes
    /\ size' = size + 1
    /\ Rest

list_pushback(d) ==
    /\ op = "none"
    /\ \E a \in Fresh :
         /\ heap' = [b \in Address |->
                        CASE b = a    -> [data |-> d, prev |-> tail, next |-> Null]
                          [] b = tail -> [heap[b] EXCEPT !.next = a]
                          [] OTHER    -> heap[b]]
         /\ live' = live \cup {a}
         /\ tail' = a
         /\ head' = IF head = Null THEN a ELSE head
         /\ nodes' = Append(nodes, a)
    /\ size' = size + 1
    /\ Rest

(* free() of glibc writes over the first two words of what it takes back,  *)
(* data and prev, and leaves the third.                                    *)
Freed(cell) == [cell EXCEPT !.data = Null, !.prev = Null]

list_popfront ==
    /\ op = "none" /\ head # Null
    /\ LET next == heap[head].next
       IN  /\ heap' = [b \in Address |->
                          CASE b = head -> Freed(heap[b])
                            [] b = next -> [heap[b] EXCEPT !.prev = Null]
                            [] OTHER    -> heap[b]]
           /\ head' = next
           /\ tail' = IF next = Null THEN Null ELSE tail
    /\ live' = live \ {head}
    /\ size' = size - 1
    /\ nodes' = Tail(nodes)
    /\ Rest

list_popback ==
    /\ op = "none" /\ head # Null
    /\ LET prev == heap[tail].prev
       IN  /\ heap' = [b \in Address |->
                          CASE b = tail -> Freed(heap[b])
                            [] b = prev -> [heap[b] EXCEPT !.next = Null]
                            [] OTHER    -> heap[b]]
           /\ tail' = prev
           /\ head' = IF prev = Null THEN Null ELSE head
    /\ live' = live \ {tail}
    /\ size' = size - 1
    /\ nodes' = Front(nodes)
    /\ Rest

-----------------------------------------------------------------------------
(* The functions that walk.                                                *)

(* A walk begins at head; list_remove, list_reverse and list_destroy       *)
(* return at once when there is none.                                      *)
Begin(f) ==
    /\ op = "none" /\ op' = f
    /\ node' = head /\ at' = 1
    /\ UNCHANGED <<heap, live, size>>

Enter(f, d) ==
    /\ Begin(f) /\ needle' = d
    /\ UNCHANGED <<head, tail, array, nodes>>

list_search(d) == Enter("search", d)
list_remove(d) == head # Null /\ (Enter("remove", d) \/ Enter("remove_first", d))
list_destroy   == head # Null /\ Enter("destroy", Null)

client_getall ==
    /\ Begin("getall") /\ array' = <<>>
    /\ UNCHANGED <<needle, head, tail, nodes>>

list_reverse ==
    /\ head # Null
    /\ op = "none" /\ op' = "reverse"
    /\ head' = tail /\ tail' = head
    /\ node' = tail /\ at' = 1
    /\ nodes' = Reverse(nodes)
    /\ UNCHANGED <<heap, live, size, needle, array>>

Matches == heap[node].data = needle

Advance(next) == node' = next /\ at' = at + 1 /\ UNCHANGED <<op, needle>>
Leave == op' = "none" /\ node' = Null /\ needle' = Null /\ at' = 1

(* list_search, full_byte_comp                                             *)
SearchStep ==
    /\ op = "search" /\ node # Null
    /\ IF Matches THEN Leave /\ array' = <<heap[node].data>>
       ELSE Advance(heap[node].next) /\ UNCHANGED array
    /\ UNCHANGED <<heap, live, head, tail, size, nodes>>

NotFound ==
    /\ op = "search" /\ node = Null
    /\ Leave /\ array' = <<>>
    /\ UNCHANGED <<heap, live, head, tail, size, nodes>>

(* Fault: the last node's neighbour still points to it. *)
remove_node_Last(del) ==
    LET prev == heap[del].prev  next == heap[del].next
    IN  /\ heap' = [b \in Address |->
                      CASE b = del  -> Freed(heap[b])
                        [] b = prev /\ next # Null -> [heap[b] EXCEPT !.next = next]
                        [] b = next -> [heap[b] EXCEPT !.prev = prev]
                        [] OTHER    -> heap[b]]
        /\ head' = IF prev = Null THEN next ELSE head
        /\ tail' = IF next = Null THEN prev ELSE tail
        /\ live' = live \ {del}

(* The only node, the first, the last and a middle one.                    *)
remove_node(del) ==
    LET prev == heap[del].prev  next == heap[del].next
    IN  /\ heap' = [b \in Address |->
                      CASE b = del  -> Freed(heap[b])
                        [] b = prev -> [heap[b] EXCEPT !.next = next]
                        [] b = next -> [heap[b] EXCEPT !.prev = prev]
                        [] OTHER    -> heap[b]]
        /\ head' = IF prev = Null THEN next ELSE head
        /\ tail' = IF next = Null THEN prev ELSE tail
        /\ live' = live \ {del}

(* Fault: the node is counted off twice. *)
Drop_Twice ==
    /\ remove_node(node)
    /\ size' = size - 2
    /\ nodes' = RemoveAt(nodes, at)

Drop ==
    /\ remove_node(node)
    /\ size' = size - 1
    /\ nodes' = RemoveAt(nodes, at)

(* Without a callback only the first match goes.  With one all go: after   *)
(* a node was freed, its next is read to walk on.                          *)
RemoveStep ==
    /\ op \in {"remove", "remove_first"} /\ node # Null
    /\ \/ /\ ~Matches
          /\ Advance(heap[node].next)
          /\ UNCHANGED <<heap, live, head, tail, size, nodes>>
       \/ /\ Matches /\ op = "remove_first"
          /\ Drop /\ Leave
       \/ /\ Matches /\ op = "remove"
          /\ Drop /\ node' = heap'[node].next
          /\ UNCHANGED <<op, needle, at>>
    /\ UNCHANGED array

(* Fault: the loop does not go on to the next node. *)
ReverseStep_Stays ==
    /\ op = "reverse" /\ node # Null
    /\ heap' = [heap EXCEPT ![node].prev = heap[node].next, ![node].next = heap[node].prev]
    /\ UNCHANGED <<live, head, tail, size, op, node, needle, array, nodes, at>>

ReverseStep ==
    /\ op = "reverse" /\ node # Null
    /\ heap' = [heap EXCEPT ![node].prev = heap[node].next, ![node].next = heap[node].prev]
    /\ Advance(heap'[node].next)
    /\ UNCHANGED <<live, head, tail, size, array, nodes>>

DestroyStep ==
    /\ op = "destroy" /\ node # Null
    /\ node' = heap[node].next
    /\ heap' = [heap EXCEPT ![node] = Freed(@)]
    /\ live' = live \ {node}
    /\ nodes' = Tail(nodes)
    /\ UNCHANGED <<head, tail, size, op, needle, array, at>>

(* destroy_list_mem, and the list_new of whoever needs a list again.       *)
Renew ==
    /\ op = "destroy" /\ node = Null
    /\ head' = Null /\ tail' = Null /\ size' = 0
    /\ Leave
    /\ UNCHANGED <<heap, live, array, nodes>>

(* Fault: the first node is passed over. *)
iter_next_Second ==
    /\ op = "getall" /\ node # Null
    /\ array' = IF heap[node].next = Null THEN array
                ELSE Append(array, heap[heap[node].next].data)
    /\ Advance(heap[node].next)
    /\ UNCHANGED <<heap, live, head, tail, size, nodes>>

(* client_getall's walk with an iterator.                                  *)
iter_next ==
    /\ op = "getall" /\ node # Null
    /\ array' = Append(array, heap[node].data)
    /\ Advance(heap[node].next)
    /\ UNCHANGED <<heap, live, head, tail, size, nodes>>

WalkEnds ==
    /\ op \in {"remove", "remove_first", "reverse", "getall"} /\ node = Null
    /\ Leave
    /\ UNCHANGED <<heap, live, head, tail, size, array, nodes>>

(* The program calls a function, which leaves a note of its name.          *)
ListCall ==
    \/ \E d \in Datum :
         \/ list_pushfront(d) /\ call' = <<"list_pushfront", d>>
         \/ list_pushback(d)  /\ call' = <<"list_pushback", d>>
         \/ list_search(d)    /\ call' = <<"list_search", d>>
         \/ list_remove(d)    /\ call' = <<"list_remove", d>>
    \/ list_popfront /\ call' = <<"list_popfront">>
    \/ list_popback  /\ call' = <<"list_popback">>
    \/ list_reverse  /\ call' = <<"list_reverse">>
    \/ list_destroy  /\ call' = <<"list_destroy">>
    \/ client_getall /\ call' = <<"client_getall">>

ListStep ==
    \/ SearchStep \/ NotFound \/ RemoveStep \/ ReverseStep \/ DestroyStep
    \/ Renew \/ iter_next \/ WalkEnds

ListNext == ListCall \/ (ListStep /\ UNCHANGED call)

ListSafe == ListInit /\ [][ListNext]_listVars

(* A function that walks goes on walking.                                  *)
ListSpec == ListSafe /\ WF_walkVars(ListStep)

-----------------------------------------------------------------------------
(* Every variable has its type; of call, ImplementsItems says more.        *)
ListTypeOK ==
    /\ heap \in [Address -> Node]
    /\ live \subseteq Address
    /\ head \in Pointer /\ tail \in Pointer /\ size \in Nat
    /\ op \in Loop \cup {"none"}
    /\ node \in Pointer /\ needle \in Datum \cup {Null}
    /\ array \in Seq(Datum)
    /\ nodes \in Seq(Address) /\ at \in Nat

(* The k-th node; Null before the first and after the last.                *)
NodeAt(k) == IF k \in 1..Len(nodes) THEN nodes[k] ELSE Null

(* Those nodes that list_reverse has not come to still point the old way.  *)
Turned(k) == op = "reverse" /\ at <= k

(* The pointers spell one sequence of nodes in both directions, which are  *)
(* the nodes that are allocated, as many as size says: in the middle of a  *)
(* removal that walks on from a node it has freed, of a reversal that has  *)
(* turned a part of the pointers, and, but for head, tail, size and the    *)
(* way back, of a destruction.                                             *)
Linked ==
    /\ IsInjective(nodes) /\ live = Range(nodes)
    /\ op # "destroy" => /\ head = NodeAt(1) /\ tail = NodeAt(Len(nodes))
                         /\ size = Len(nodes)
    /\ op # "none" => at \in 1..(Len(nodes) + 1) /\ node = NodeAt(at)
    /\ op = "destroy" => at = 1
    /\ \A k \in 1..Len(nodes) :
         LET cell == heap[nodes[k]]
         IN  /\ cell.data \in Datum
             /\ cell.next = IF Turned(k) THEN NodeAt(k - 1) ELSE NodeAt(k + 1)
             /\ op # "destroy" =>
                  cell.prev = IF Turned(k) THEN NodeAt(k + 1) ELSE NodeAt(k - 1)

(* client_getall writes as many pointers as the array has room for, which  *)
(* was allocated for size of them.                                         *)
ArrayHasRoom == op = "getall" => Len(array) + (IF node = Null THEN 0 ELSE 1) <= size

(* Every walk comes to its end.                                            *)
WalksEnd == op # "none" ~> op = "none"

-----------------------------------------------------------------------------
Contents == [k \in DOMAIN nodes |-> heap[nodes[k]].data]

Ahead == SubSeq(Contents, at, Len(nodes))
Behind == SubSeq(Contents, 1, at - 1)

(* What list_remove with a callback leaves.                                *)
Unmatched(s, d) ==
    FoldLeft(LAMBDA kept, e : IF e = d THEN kept ELSE Append(kept, e), <<>>, s)

(* What the list will contain once the function that walks has returned.   *)
Outcome ==
    CASE op = "remove"       -> Behind \o Unmatched(Ahead, needle)
      [] op = "remove_first" -> Behind \o RemoveFirst(Ahead, needle)
      [] op = "destroy"      -> <<>>
      [] OTHER               -> Contents

(* What the caller of a read will get.                                     *)
Result ==
    CASE op = "getall" -> array \o Ahead
      [] op = "search" -> IF needle \in Range(Ahead) THEN <<needle>> ELSE <<>>
      [] OTHER         -> array

Items == INSTANCE ItemList WITH
            Item <- Datum, items <- Outcome, given <- Result

(* list_remove without a callback takes out the first match and no other.  *)
RemoveFirstOnly ==
    /\ op = "none" /\ op' = "remove_first" /\ call' = <<"list_remove", needle'>>
    /\ Outcome' = RemoveFirst(Outcome, needle') /\ Result' = Result

(* Each function that is called does to the items what list.h says of it,  *)
(* seen as a whole from the call on, also list_remove with a callback,     *)
(* which takes out every match; but list_remove without a callback, of     *)
(* which list.h says the same, takes out the first match only.             *)
ImplementsItems ==
    Items!ItemInit /\ [][Items!ItemNext \/ RemoveFirstOnly]_<<Outcome, Result, call>>

(* list.h:166 says that list_remove "Deletes all the list node and user    *)
(* data that matches given needle": when it has returned, none is left.    *)
NoMatchIsLeft ==
    op = "none" /\ call[1] = "list_remove" => call[2] \notin Range(Contents)
=============================================================================
