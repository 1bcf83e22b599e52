---------------------------- MODULE LfArrayQueue ----------------------------
(***************************************************************************)
(* The lock-free array queue of the host baselines (LFArrayQueue.h): enq   *)
(* and deq reserve an index with compare-and-swap and then use the cell.   *)
(* Neither tests for empty or full.  The threads of main.cc alternate enq  *)
(* and deq, num_ops times, on a queue with INITIAL_Q_SIZE items.           *)
(***************************************************************************)
EXTENDS Integers, Sequences, FiniteSets

CONSTANTS
    Threads,
    Items,
    InitialItems,  \* the queue after main has filled it
    MaxIndex,      \* MAX_INDEX
    DeqFirst,      \* the threads with an odd id, which start with a deq
    NumOps         \* num_ops

NoItem == 0
Indexes == 0..(MaxIndex - 1)

\* Bound: the array does not wrap in the model.  (In the scenarios it has
\* 2^20 cells and 2^19 initial items; a thread would have to sleep for half a
\* million operations of the others to be overtaken.)  No deq overtakes the
\* tail: there is an initial item for every thread that starts with a deq.
ArrayAssumption ==
    /\ MaxIndex \in Nat /\ NumOps \in Nat /\ NoItem \notin Items
    /\ Len(InitialItems) + Cardinality(Threads) * NumOps <= MaxIndex
    /\ DeqFirst \subseteq Threads /\ Cardinality(DeqFirst) <= Len(InitialItems)

VARIABLES
    queue_array, head_index, tail_index,
    th,      \* th[t]: program counter, operation and local variables of t
    left     \* left[t]: the operations that t still calls

vars == <<queue_array, head_index, tail_index, th, left>>

Init ==
    /\ queue_array = [i \in Indexes |-> IF i < Len(InitialItems) THEN InitialItems[i + 1] ELSE NoItem]
    /\ head_index = 0
    /\ tail_index = Len(InitialItems)
    /\ th = [t \in Threads |-> [pc |-> "idle", op |-> IF t \in DeqFirst THEN "enq" ELSE "deq",
                                curr_index |-> 0, item |-> NoItem]]
    /\ left = [t \in Threads |-> NumOps]

NEXT_INDEX(x) == (x + 1) % MaxIndex
Index(op) == IF op = "enq" THEN tail_index ELSE head_index

\* The other operation than the last one.
Call(t, v) ==
    /\ th[t].pc = "idle" /\ left[t] > 0
    /\ th[t].op = "enq" <=> v = NoItem
    /\ th' = [th EXCEPT ![t] = [pc |-> "read", op |-> IF @.op = "enq" THEN "deq" ELSE "enq",
                                curr_index |-> 0, item |-> v]]
    /\ left' = [left EXCEPT ![t] = @ - 1]
    /\ UNCHANGED <<queue_array, head_index, tail_index>>

ReadIndex(t) ==
    /\ th[t].pc = "read"
    /\ th' = [th EXCEPT ![t].curr_index = Index(th[t].op), ![t].pc = "reserve"]
    /\ UNCHANGED <<queue_array, head_index, tail_index, left>>

Reserve(t) ==
    LET i  == th[t].curr_index
        ok == i = Index(th[t].op)
    IN  /\ th[t].pc = "reserve"
        /\ tail_index' = IF ok /\ th[t].op = "enq" THEN NEXT_INDEX(i) ELSE tail_index
        /\ head_index' = IF ok /\ th[t].op = "deq" THEN NEXT_INDEX(i) ELSE head_index
        /\ th' = [th EXCEPT ![t].pc = IF ok THEN "use" ELSE "read"]
        /\ UNCHANGED <<queue_array, left>>

Write(t) ==
    /\ th[t].pc = "use" /\ th[t].op = "enq"
    /\ queue_array' = [queue_array EXCEPT ![th[t].curr_index] = th[t].item]
    /\ th' = [th EXCEPT ![t].pc = "idle"]
    /\ UNCHANGED <<head_index, tail_index, left>>

Read(t) ==
    /\ th[t].pc = "use" /\ th[t].op = "deq"
    /\ th' = [th EXCEPT ![t].item = queue_array[th[t].curr_index], ![t].pc = "idle"]
    /\ UNCHANGED <<queue_array, head_index, tail_index, left>>

Run(t) ==
    \/ \E v \in Items \cup {NoItem} : Call(t, v)
    \/ ReadIndex(t) \/ Reserve(t) \/ Write(t) \/ Read(t)

\* All threads have made their calls.
Finished == (\A t \in Threads : th[t].pc = "idle" /\ left[t] = 0) /\ UNCHANGED vars

Next == Finished \/ \E t \in Threads : Run(t)

Spec == Init /\ [][Next]_vars

\* Every thread keeps running.
FairSpec == Spec /\ \A t \in Threads : WF_vars(Run(t))

-----------------------------------------------------------------------------
\* "curr_index is reserved for this thread": no two threads use an index for
\* the same operation, and nobody writes a cell that holds an item.  A deq
\* finds an item in its cell, unless the enq that has reserved the same index
\* is still between its compare-and-swap and its write; such a deq returns what
\* the cell held before.
ReservedForOne ==
    \A t \in Threads : th[t].pc = "use" =>
        LET others(op) == {u \in Threads \ {t} :
                             th[u].pc = "use" /\ th[u].op = op /\ th[u].curr_index = th[t].curr_index}
        IN  /\ others(th[t].op) = {}
            /\ queue_array[th[t].curr_index] = NoItem <=>
                   th[t].op = "enq" \/ others("enq") # {}

\* All operations finish: an attempt fails only if another one succeeds.
AllFinish == <>(\A t \in Threads : th[t].pc = "idle" /\ left[t] = 0)
=============================================================================
