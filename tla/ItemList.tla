------------------------------- MODULE ItemList -------------------------------
(***************************************************************************)
(* What list.h promises of a list of items: each function that is called   *)
(* has its own effect on the items, or gives its own result.               *)
(***************************************************************************)
EXTENDS SequencesExt, Naturals

CONSTANT Item

VARIABLES
    items,
    given,      \* what the last call that reads the list gave to its caller
    call        \* the function that was called last, and with which item

itemVars == <<items, given, call>>

ItemInit == items = <<>> /\ given = <<>> /\ call = <<"list_new">>

(* What is left when all that match are taken out.                         *)
Unmatched(s, d) ==
    FoldLeft(LAMBDA kept, e : IF e = d THEN kept ELSE Append(kept, e), <<>>, s)

PushFront(d) == call' = <<"list_pushfront", d>> /\ items' = <<d>> \o items
PushBack(d)  == call' = <<"list_pushback", d>>  /\ items' = Append(items, d)

PopFront == call' = <<"list_popfront">> /\ items # <<>> /\ items' = Tail(items)
PopBack  == call' = <<"list_popback">>  /\ items # <<>> /\ items' = Front(items)

(* "Deletes all the list node and user data that matches given needle"     *)
RemoveAll(d) == call' = <<"list_remove", d>> /\ items' = Unmatched(items, d)

TurnRound == call' = <<"list_reverse">> /\ items' = Reverse(items)
Clear     == call' = <<"list_destroy">> /\ items' = <<>>

Change ==
    \/ \E d \in Item : PushFront(d) \/ PushBack(d) \/ RemoveAll(d)
    \/ PopFront \/ PopBack \/ TurnRound \/ Clear

Find(d) == /\ call' = <<"list_search", d>>
           /\ given' = IF d \in Range(items) THEN <<d>> ELSE <<>>
GetAll  == call' = <<"client_getall">> /\ given' = items

Read == GetAll \/ \E d \in Item : Find(d)

ItemNext ==
    \/ Change /\ UNCHANGED given
    \/ Read /\ UNCHANGED items

ItemSpec == ItemInit /\ [][ItemNext]_itemVars
=============================================================================
