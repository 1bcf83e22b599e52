---------------------------- MODULE LinearQueue -----------------------------
(***************************************************************************)
(* What the queues of this repository promise the host threads: a first-in *)
(* first-out queue on which enq and deq take effect atomically, once,      *)
(* between their call and their return.  A deq may return NoItem if the    *)
(* queue was empty at some moment of the call.                             *)
(***************************************************************************)
EXTENDS Sequences

CONSTANTS Threads, Items, NoItem, InitialItems

VARIABLES
    queue,  \* the items, oldest first
    call,   \* call[t]: the open operation of t; done: it has taken effect
    got,    \* got[t]: what the latest operation of t returned
    seen    \* seen[t]: an open deq of t has seen the queue empty

vars == <<queue, call, got, seen>>

NoCall == [op |-> "none", item |-> NoItem, done |-> FALSE]

Init ==
    /\ queue = InitialItems
    /\ call = [t \in Threads |-> NoCall]
    /\ got = [t \in Threads |-> NoItem]
    /\ seen = [t \in Threads |-> FALSE]

Invoke(t, op, v) ==
    /\ call[t] = NoCall
    /\ call' = [call EXCEPT ![t] = [op |-> op, item |-> v, done |-> FALSE]]
    /\ UNCHANGED <<queue, got, seen>>

\* A finished deq carries the item it took.
Finish(t, v) == call' = [call EXCEPT ![t] = [op |-> @.op, item |-> v, done |-> TRUE]]

Enq(t) ==
    /\ call[t].op = "enq" /\ ~call[t].done
    /\ queue' = Append(queue, call[t].item)
    /\ Finish(t, call[t].item)
    /\ UNCHANGED <<got, seen>>

Deq(t) ==
    /\ call[t].op = "deq" /\ ~call[t].done
    /\ queue # <<>>
    /\ queue' = Tail(queue)
    /\ Finish(t, Head(queue))
    /\ UNCHANGED <<got, seen>>

See(t) ==
    /\ call[t].op = "deq" /\ ~call[t].done
    /\ queue = <<>>
    /\ seen' = [seen EXCEPT ![t] = TRUE]
    /\ UNCHANGED <<queue, call, got>>

Forget(t) ==
    /\ seen' = [seen EXCEPT ![t] = FALSE]
    /\ UNCHANGED <<queue, call, got>>

DeqEmpty(t) ==
    /\ call[t].op = "deq" /\ ~call[t].done
    /\ queue = <<>> \/ seen[t]
    /\ Finish(t, NoItem)
    /\ seen' = [seen EXCEPT ![t] = FALSE]
    /\ UNCHANGED <<queue, got>>

Return(t) ==
    /\ call[t].done
    /\ got' = [got EXCEPT ![t] = call[t].item]
    /\ call' = [call EXCEPT ![t] = NoCall]
    /\ UNCHANGED <<queue, seen>>

Next ==
    \E t \in Threads :
        \/ \E v \in Items : Invoke(t, "enq", v)
        \/ Invoke(t, "deq", NoItem)
        \/ Enq(t) \/ Deq(t) \/ DeqEmpty(t)
        \/ See(t) \/ Forget(t)
        \/ Return(t)

Spec == Init /\ [][Next]_vars
=============================================================================
