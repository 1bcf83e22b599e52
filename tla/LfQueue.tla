------------------------------ MODULE LfQueue -------------------------------
(***************************************************************************)
(* The lock-free linked queue of the host baselines (LFQueue.h): nodes     *)
(* behind a sentinel, appended with compare-and-swap; whoever finds the    *)
(* tail one node behind moves it.  Nodes are never freed.                  *)
(*                                                                         *)
(* A step is one access to head, tail or a next field.                     *)
(***************************************************************************)
EXTENDS Integers, Sequences, FiniteSets

CONSTANTS
    Threads,
    Items,
    Stalled,   \* threads that may stop for ever in the middle of an operation
    MaxNodes   \* bound: nodes allocated by enq

Null == 0
NoItem == 0
Sentinel == 1
Nodes == 1..(MaxNodes + 1)

LfAssumption == MaxNodes \in Nat /\ NoItem \notin Items

VARIABLES
    next, value,   \* the fields of the nodes
    head, tail,
    fresh,         \* the next node that new returns
    th,            \* th[t]: program counter and local variables of t
    got            \* got[t]: what the latest operation of t returned

vars == <<next, value, head, tail, fresh, th, got>>

Idle == [pc |-> "idle", op |-> "none", item |-> NoItem, new |-> Null, first |-> Null, last |-> Null, nxt |-> Null]

Init ==
    /\ next = [n \in Nodes |-> Null]
    /\ value = [n \in Nodes |-> NoItem]
    /\ head = Sentinel /\ tail = Sentinel
    /\ fresh = Sentinel + 1
    /\ th = [t \in Threads |-> Idle]
    /\ got = [t \in Threads |-> NoItem]

Local(t, r) == th' = [th EXCEPT ![t] = r]
Again(t) == [Idle EXCEPT !.op = th[t].op, !.item = th[t].item, !.new = th[t].new, !.pc = "first"]

CallEnq(t, v) ==
    /\ th[t].pc = "idle" /\ fresh \in Nodes
    /\ value' = [value EXCEPT ![fresh] = v]
    /\ fresh' = fresh + 1
    /\ Local(t, [Idle EXCEPT !.op = "enq", !.item = v, !.new = fresh, !.pc = "first"])
    /\ UNCHANGED <<next, head, tail, got>>

CallDeq(t) ==
    /\ th[t].pc = "idle"
    /\ Local(t, [Idle EXCEPT !.op = "deq", !.pc = "first"])
    /\ UNCHANGED <<next, value, head, tail, fresh, got>>

\* enq: last = tail, and tail again for tail->next.  deq: first = head, last = tail.
ReadFirst(t) ==
    /\ th[t].pc = "first"
    /\ Local(t, IF th[t].op = "enq" THEN [th[t] EXCEPT !.last = tail, !.pc = "last"]
                                    ELSE [th[t] EXCEPT !.first = head, !.pc = "last"])
    /\ UNCHANGED <<next, value, head, tail, fresh, got>>

ReadLast(t) ==
    /\ th[t].pc = "last"
    /\ Local(t, IF th[t].op = "enq" THEN [th[t] EXCEPT !.first = tail, !.pc = "next"]
                                    ELSE [th[t] EXCEPT !.last = tail, !.pc = "next"])
    /\ UNCHANGED <<next, value, head, tail, fresh, got>>

ReadNext(t) ==
    /\ th[t].pc = "next"
    /\ Local(t, [th[t] EXCEPT !.nxt = next[th[t].first], !.pc = "check"])
    /\ UNCHANGED <<next, value, head, tail, fresh, got>>

\* "didn't change in the meanwhile"
Unchanged(t) == IF th[t].op = "enq" THEN th[t].last = tail ELSE th[t].first = head

Check(t) ==
    LET r == th[t]
    IN  /\ r.pc = "check"
        /\ Local(t, IF ~ Unchanged(t) THEN Again(t)
                    ELSE IF r.op = "enq" THEN [r EXCEPT !.pc = IF r.nxt = Null THEN "append" ELSE "help"]
                    ELSE IF r.first # r.last THEN [r EXCEPT !.pc = "take"]
                    ELSE IF r.nxt # Null THEN [r EXCEPT !.pc = "help"]
                    ELSE [Idle EXCEPT !.op = "deq", !.pc = "ret"])
        /\ UNCHANGED <<next, value, head, tail, fresh, got>>

\* FAULT (not the code): the node is linked without comparing.
AppendNode_Store(t) ==
    /\ th[t].pc = "append"
    /\ next' = [next EXCEPT ![th[t].last] = th[t].new]
    /\ Local(t, [th[t] EXCEPT !.pc = "swing"])
    /\ UNCHANGED <<value, head, tail, fresh, got>>

AppendNode(t) ==
    /\ th[t].pc = "append"
    /\ IF next[th[t].last] = Null
         THEN /\ next' = [next EXCEPT ![th[t].last] = th[t].new]
              /\ Local(t, [th[t] EXCEPT !.pc = "swing"])
         ELSE Local(t, Again(t)) /\ UNCHANGED next
    /\ UNCHANGED <<value, head, tail, fresh, got>>

\* __sync_bool_compare_and_swap(&tail, last, n)
SwapTail(t, n) == tail' = IF tail = th[t].last THEN n ELSE tail

Swing(t) ==
    /\ th[t].pc = "swing"
    /\ SwapTail(t, th[t].new)
    /\ Local(t, [Idle EXCEPT !.op = "enq", !.item = th[t].item, !.pc = "ret"])
    /\ UNCHANGED <<next, value, head, fresh, got>>

\* FAULT (not the code): whoever finds the tail behind only tries again.
Help_Never(t) ==
    /\ th[t].pc = "help"
    /\ Local(t, Again(t))
    /\ UNCHANGED <<next, value, head, tail, fresh, got>>

Help(t) ==
    /\ th[t].pc = "help"
    /\ SwapTail(t, th[t].nxt)
    /\ Local(t, Again(t))
    /\ UNCHANGED <<next, value, head, fresh, got>>

Take(t) ==
    /\ th[t].pc = "take"
    /\ IF head = th[t].first
         THEN /\ head' = th[t].nxt
              /\ Local(t, [Idle EXCEPT !.op = "deq", !.item = value[th[t].nxt], !.pc = "ret"])
         ELSE Local(t, Again(t)) /\ UNCHANGED head
    /\ UNCHANGED <<next, value, tail, fresh, got>>

Return(t) ==
    /\ th[t].pc = "ret"
    /\ got' = [got EXCEPT ![t] = th[t].item]
    /\ Local(t, Idle)
    /\ UNCHANGED <<next, value, head, tail, fresh>>

Step(t) ==
    \/ ReadFirst(t) \/ ReadLast(t) \/ ReadNext(t) \/ Check(t) \/ AppendNode(t)
    \/ Swing(t) \/ Help(t) \/ Take(t) \/ Return(t)

Next == \E t \in Threads : Step(t) \/ CallDeq(t) \/ \E v \in Items : CallEnq(t, v)

Spec == Init /\ [][Next]_vars

\* Every thread keeps running but the stalled ones.
FairSpec == Spec /\ \A t \in Threads \ Stalled : WF_vars(Step(t))

-----------------------------------------------------------------------------
Chain ==
    LET C[i \in 0..(MaxNodes + 1)] ==
            IF i = 0 THEN head ELSE IF C[i - 1] = Null THEN Null ELSE next[C[i - 1]]
    IN  C
Length == Cardinality({i \in 1..(MaxNodes + 1) : Chain[i] # Null})

\* Types; and the tail is at most one node behind the end, never behind the
\* head, so that tail->next and next->value are fields of real nodes.
TypeOK ==
    /\ next \in [Nodes -> Nodes \cup {Null}]
    /\ \E i \in {Length - 1, Length} : i >= 0 /\ tail = Chain[i]
    /\ \A t \in Threads : th[t].pc = "take" => th[t].nxt # Null

\* enq and deq are atomic, also a deq that finds the queue empty although an
\* item arrives before it returns.
Queue == INSTANCE LinearQueue WITH
    InitialItems <- <<>>,
    queue <- [i \in 1..Length |-> value[Chain[i]]],
    call  <- [t \in Threads |->
                 IF th[t].pc = "idle" THEN [op |-> "none", item |-> NoItem, done |-> FALSE]
                 ELSE [op |-> th[t].op, item |-> th[t].item, done |-> th[t].pc \in {"swing", "ret"}]],
    seen  <- [t \in Threads |-> th[t].op = "deq" /\ th[t].pc = "check" /\ th[t].nxt = Null]
ImplementsQueue == Queue!Spec

\* Lock-freedom: a thread that stops in the middle keeps nobody from
\* finishing ("need to update tail").
OthersReturn == \A t \in Threads \ Stalled : [](th[t].pc # "idle" => <>(th[t].pc = "idle"))
=============================================================================
