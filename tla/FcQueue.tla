------------------------------ MODULE FcQueue -------------------------------
(***************************************************************************)
(* The flat-combining queues (FCArrayQueue.hh, DoubleFCArrayQueue.hh): a   *)
(* circular array with two indexes and no test for empty or full.  The     *)
(* first has one publication list and one combiner; the second has one for *)
(* push and one for pop, and the two combiners share the array.  The host  *)
(* threads alternate push and pop (main.cc), on a queue that main has      *)
(* filled with INITIAL_Q_SIZE items.                                       *)
(***************************************************************************)
EXTENDS FlatCombine, Sequences

CONSTANTS
    Items,
    Pushes,        \* Pushes[t]: the items that thread t pushes
    InitialItems,  \* the queue after main has filled it
    MaxIndex,      \* MAX_INDEX
    PopFirst       \* the threads with an odd id, which start with a pop

NoItem == 0

QueueAssumption ==
    /\ MaxIndex \in Nat /\ Len(InitialItems) < MaxIndex /\ NoItem \notin Items
    /\ PopFirst \subseteq Threads

VARIABLES
    queue_array, head_index, tail_index,
    turn,    \* turn[t]: the operation that t calls next
    got      \* got[t]: what the latest operation of t returned

object == <<queue_array, head_index, tail_index>>
vars == <<slot, tail, lock, status, th, queue_array, head_index, tail_index, turn, got>>

Init ==
    /\ FcInit
    /\ queue_array = [i \in 0..(MaxIndex - 1) |-> IF i < Len(InitialItems) THEN InitialItems[i + 1] ELSE NoItem]
    /\ head_index = 0
    /\ tail_index = Len(InitialItems)
    /\ turn = [t \in Threads |-> IF t \in PopFirst THEN "deq" ELSE "enq"]
    /\ got = [t \in Threads |-> NoItem]

NEXT_INDEX(x) == (x + 1) % MaxIndex
ListOf(op) == IF op \in Lists THEN op ELSE CHOOSE l \in Lists : TRUE

Other(op) == IF op = "enq" THEN "deq" ELSE "enq"

\* The loop of queue_ops_routine: push when (op_count + id) % 2 == 0.
Call(t, v) ==
    /\ v \in IF turn[t] = "enq" THEN Pushes[t] ELSE {NoItem}
    /\ Publish(t, ListOf(turn[t]), turn[t], v)
    /\ turn' = [turn EXCEPT ![t] = Other(@)]
    /\ UNCHANGED <<object, got>>

Push(t) ==
    /\ Scanning(t) /\ At(t).op = "enq"
    /\ ServeNow(t, At(t).val)
    /\ queue_array' = [queue_array EXCEPT ![tail_index] = At(t).val]
    /\ tail_index' = NEXT_INDEX(tail_index)
    /\ UNCHANGED <<head_index, turn, got>>

Pop(t) ==
    /\ Scanning(t) /\ At(t).op = "deq"
    /\ ServeNow(t, queue_array[head_index])
    /\ head_index' = NEXT_INDEX(head_index)
    /\ UNCHANGED <<queue_array, tail_index, turn, got>>

Walk(t) == Protocol(t) /\ UNCHANGED <<object, turn, got>>

Answer(t) ==
    /\ Return(t)
    /\ got' = [got EXCEPT ![t] = Mine(t).ret]
    /\ UNCHANGED <<object, turn>>

Step(t) == Walk(t) \/ Answer(t) \/ Push(t) \/ Pop(t)

Next == \E t \in Threads : Step(t) \/ \E v \in Items \cup {NoItem} : Call(t, v)

Spec == Init /\ [][Next]_vars

\* Every thread keeps running.
FairSpec == Spec /\ \A t \in Threads : WF_vars(Step(t))

-----------------------------------------------------------------------------
TypeOK ==
    /\ queue_array \in [0..(MaxIndex - 1) -> Items \cup {NoItem}]
    /\ head_index \in 0..(MaxIndex - 1) /\ tail_index \in 0..(MaxIndex - 1)
    /\ \A l \in Lists : tail[l] \in Owners \cup {NoSlot} /\ lock[l] \in Threads \cup {NoThread}

Length == (tail_index - head_index) % MaxIndex

\* "we're assuming that this never happens": a combiner about to pop finds an
\* item, and one about to push finds room, because every thread alternates
\* push and pop and there are at least as many items as threads that start
\* with a pop.
PopFindsItem ==
    \A t \in Threads :
        Scanning(t) /\ At(t).valid =>
            IF At(t).op = "deq" THEN Length > 0 ELSE Length < MaxIndex - 1

\* The two indexes, moved by one combiner or by two, implement an atomic
\* first-in first-out queue.
Queue == INSTANCE LinearQueue WITH
    seen  <- [t \in Threads |-> FALSE],
    queue <- [i \in 1..Length |-> queue_array[(head_index + i - 1) % MaxIndex]],
    call  <- [t \in Threads |->
                 IF th[t].pc = "idle" THEN [op |-> "none", item |-> NoItem, done |-> FALSE]
                 ELSE [op   |-> Mine(t).op,
                       item |-> IF Mine(t).valid THEN Mine(t).val ELSE Mine(t).ret,
                       done |-> ~ Mine(t).valid]]
ImplementsQueue == Queue!Spec
=============================================================================
