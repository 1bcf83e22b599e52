------------------------------- MODULE FcList -------------------------------
(***************************************************************************)
(* The flat-combining sorted list (FCLinkedList.h): the combiner collects  *)
(* the requests, sorts them by key and executes them in one pass over the  *)
(* list, with a cursor that only moves forward.                            *)
(***************************************************************************)
EXTENDS FlatCombine, SequencesExt

CONSTANTS
    MaxKey,
    Ops      \* Ops[t]: the operations that thread t calls, <<op, key>>

Keys == 1..MaxKey

VARIABLES
    list,    \* the keys between head_node and tail_node, in list order
    cursor,  \* the position of curr_node; 0 is head_node
    got      \* got[t]: what the latest operation of t returned

vars == <<slot, tail, lock, status, th, list, cursor, got>>

Init ==
    /\ FcInit
    /\ list = <<>>
    /\ cursor = 0
    /\ got = [t \in Threads |-> FALSE]

TheList == CHOOSE l \in Lists : TRUE
KeyAt(i) == IF i = 0 THEN 0 ELSE IF i > Len(list) THEN MaxKey + 1 ELSE list[i]

\* while (curr_node->key < param)
Sought(k) == CHOOSE i \in cursor..(Len(list) + 1) : KeyAt(i) >= k /\ \A j \in cursor..(i - 1) : KeyAt(j) < k

Call(t, op, k) ==
    /\ Publish(t, TheList, op, k)
    /\ UNCHANGED <<list, cursor, got>>

Execute(t, o) ==
    LET op == slot[TheList][o].op
        k  == slot[TheList][o].val
        i  == Sought(k)
        here == KeyAt(i) = k
    IN  /\ ServeSorted(t, o, IF here = (op # "add") THEN 1 ELSE 0)
        /\ list' = CASE op = "add" /\ ~ here   -> InsertAt(list, i, k)
                     [] op = "remove" /\ here  -> RemoveAt(list, i)
                     [] OTHER                  -> list
        /\ cursor' = i
        /\ UNCHANGED got

\* curr_node is local to flat_combine_sort and starts at head_node.
Walk(t) ==
    /\ Protocol(t)
    /\ cursor' = IF Done(t) THEN 0 ELSE cursor
    /\ UNCHANGED <<list, got>>

Answer(t) ==
    /\ Return(t)
    /\ got' = [got EXCEPT ![t] = (Mine(t).ret = 1)]
    /\ UNCHANGED <<list, cursor>>

Step(t) == Walk(t) \/ Answer(t) \/ \E o \in Owners : Execute(t, o)

Next == \E t \in Threads : Step(t) \/ \E o \in Ops[t] : Call(t, o[1], o[2])

Spec == Init /\ [][Next]_vars

\* Every thread keeps running.
FairSpec == Spec /\ \A t \in Threads : WF_vars(Step(t))

-----------------------------------------------------------------------------
\* Types, and the order of the list, on which the forward cursor relies.
TypeOK ==
    /\ list \in Seq(Keys) /\ \A i, j \in DOMAIN list : i < j => list[i] < list[j]
    /\ cursor \in 0..(Len(list) + 1)
    /\ \A l \in Lists : tail[l] \in Owners \cup {NoSlot} /\ lock[l] \in Threads \cup {NoThread}

\* Executing the requests in sorted batches, on behalf of other threads,
\* implements an atomic set.
Set == INSTANCE LinearSet WITH
    Capacity <- MaxKey + 1,
    content  <- Range(list),
    call     <- [t \in Threads |->
                    IF th[t].pc = "idle" THEN [op |-> "none", key |-> 0, res |-> "open"]
                    ELSE [op |-> Mine(t).op, key |-> Mine(t).val,
                          res |-> IF Mine(t).valid THEN "open" ELSE IF Mine(t).ret = 1 THEN "yes" ELSE "no"]]
ImplementsSet == Set!Spec
=============================================================================
