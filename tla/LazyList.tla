------------------------------ MODULE LazyList ------------------------------
(***************************************************************************)
(* The sorted list with lazy locking that the PIM list is compared with    *)
(* (multithread_mainmem_linkedlist/LazyLockList.h).  add and remove search *)
(* without locks, lock two nodes and validate; remove marks a node before  *)
(* it unlinks it; contains takes no lock at all.  Nodes come from the      *)
(* unsynchronised allocator of app_utils.hh.                               *)
(*                                                                         *)
(* A step of the search reads one key and one pointer.  Unlocking is part  *)
(* of the step before it, except at the return.                            *)
(***************************************************************************)
EXTENDS Integers, FiniteSets

CONSTANTS
    Threads,
    Ops,       \* Ops[t]: the operations that thread t calls
    MaxKey,    \* keys are 1..MaxKey
    MaxNodes   \* bound: nodes in the region

Keys == 1..MaxKey
Head == 0
Tail == MaxNodes + 1
Nodes == Head..Tail
NoThread == "none"

LazyAssumption == MaxKey \in Nat \ {0} /\ MaxNodes \in Nat /\ NoThread \notin Threads

VARIABLES
    node,     \* node[n]: key, next, marked
    lock,     \* lock[n]: the thread that holds node_lock
    region,   \* region_aligned: the next free node
    th,       \* th[t]: pc, operation and local variables of t
    got,      \* got[t]: what the latest add or remove of t returned
    was       \* history: whether the key of an open contains was in the set

vars == <<node, lock, region, th, got, was>>

Idle == [pc |-> "idle", op |-> "none", key |-> 1, prev |-> Head, curr |-> Head, new |-> Head, res |-> "open"]

Init ==
    /\ node = [n \in Nodes |-> [key    |-> IF n = Tail THEN MaxKey + 1 ELSE 0,
                                next   |-> Tail,
                                marked |-> FALSE]]
    /\ lock = [n \in Nodes |-> NoThread]
    /\ region = 1
    /\ th = [t \in Threads |-> Idle]
    /\ got = [t \in Threads |-> FALSE]
    /\ was = [t \in Threads |-> {}]

\* The keys of the unmarked nodes that the list reaches.
Path == LET P[i \in 0..(MaxNodes + 1)] == IF i = 0 THEN Head ELSE node[P[i - 1]].next IN P
Content == {node[Path[i]].key : i \in {j \in DOMAIN Path : ~ node[Path[j]].marked}} \cap Keys

-----------------------------------------------------------------------------
Local(t, r) == th' = [th EXCEPT ![t] = r]

\* The region must not run out; MaxNodes bounds the calls of add.
Invoke(t, op, k) ==
    /\ th[t].pc = "idle"
    /\ op = "add" => region + Cardinality({u \in Threads : th[u].op = "add"}) <= MaxNodes
    /\ Local(t, [Idle EXCEPT !.op = op, !.key = k, !.pc = IF op = "contains" THEN "seek" ELSE "start"])
    /\ UNCHANGED <<node, lock, region, got>>

Start(t) ==
    /\ th[t].pc = "start"
    /\ Local(t, [th[t] EXCEPT !.pc = "seek", !.prev = Head, !.curr = node[Head].next])
    /\ UNCHANGED <<node, lock, region, got>>

Seek(t) ==
    /\ th[t].pc = "seek" /\ node[th[t].curr].key < th[t].key
    /\ Local(t, [th[t] EXCEPT !.prev = th[t].curr, !.curr = node[th[t].curr].next])
    /\ UNCHANGED <<node, lock, region, got>>

Arrived(t) == th[t].pc = "seek" /\ node[th[t].curr].key >= th[t].key

\* FAULT (not the code): contains does not look at the mark.
Contains_Unmarked(t) ==
    /\ th[t].op = "contains" /\ Arrived(t)
    /\ Local(t, [th[t] EXCEPT !.pc  = "ret",
                              !.res = IF node[th[t].curr].key = th[t].key THEN "yes" ELSE "no"])
    /\ UNCHANGED <<node, lock, region, got>>

Contains(t) ==
    LET n == node[th[t].curr]
    IN  /\ th[t].op = "contains" /\ Arrived(t)
        /\ Local(t, [th[t] EXCEPT !.pc  = "ret",
                                  !.res = IF n.key = th[t].key /\ ~ n.marked THEN "yes" ELSE "no"])
        /\ UNCHANGED <<node, lock, region, got>>

LockPrev(t) ==
    /\ th[t].op # "contains" /\ Arrived(t) /\ lock[th[t].prev] = NoThread
    /\ lock' = [lock EXCEPT ![th[t].prev] = t]
    /\ Local(t, [th[t] EXCEPT !.pc = "lock"])
    /\ UNCHANGED <<node, region, got>>

LockCurr(t) ==
    /\ th[t].pc = "lock" /\ lock[th[t].curr] = NoThread
    /\ lock' = [lock EXCEPT ![th[t].curr] = t]
    /\ Local(t, [th[t] EXCEPT !.pc = "validate"])
    /\ UNCHANGED <<node, region, got>>

\* FAULT (not the code): the two nodes need not be neighbours any more.
Valid_Marks(t) == ~ node[th[t].prev].marked /\ ~ node[th[t].curr].marked

Valid(t) == /\ ~ node[th[t].prev].marked /\ ~ node[th[t].curr].marked
            /\ node[th[t].prev].next = th[t].curr
Unlock(t) == [lock EXCEPT ![th[t].prev] = NoThread, ![th[t].curr] = NoThread]
Here(t)  == node[th[t].curr].key = th[t].key

Retry(t) ==
    /\ th[t].pc = "validate" /\ ~ Valid(t)
    /\ lock' = Unlock(t)
    /\ Local(t, [Idle EXCEPT !.op = th[t].op, !.key = th[t].key, !.pc = "start"])
    /\ UNCHANGED <<node, region, got>>

Fail(t) ==
    /\ th[t].pc = "validate" /\ Valid(t) /\ Here(t) = (th[t].op = "add")
    /\ Local(t, [th[t] EXCEPT !.pc = "ret", !.res = "no"])
    /\ UNCHANGED <<node, lock, region, got>>

\* allocate_region: curr = region_aligned; region_aligned += size
ReadRegion(t) ==
    /\ th[t].pc = "validate" /\ Valid(t) /\ th[t].op = "add" /\ ~ Here(t)
    /\ Local(t, [th[t] EXCEPT !.pc = "allocate", !.new = region])
    /\ UNCHANGED <<node, lock, region, got>>

WriteRegion(t) ==
    /\ th[t].pc = "allocate"
    /\ region' = th[t].new + 1
    /\ Local(t, [th[t] EXCEPT !.pc = "link"])
    /\ UNCHANGED <<node, lock, got>>

\* The region is zero at first, so marked is false in a new node.
Link(t) ==
    LET r == th[t]
    IN  /\ r.pc = "link"
        /\ node' = [node EXCEPT ![r.new].key = r.key, ![r.new].next = r.curr, ![r.prev].next = r.new]
        /\ lock' = [lock EXCEPT ![r.new] = NoThread]
        /\ Local(t, [r EXCEPT !.pc = "ret", !.res = "yes"])
        /\ UNCHANGED <<region, got>>

Mark(t) ==
    /\ th[t].pc = "validate" /\ Valid(t) /\ th[t].op = "remove" /\ Here(t)
    /\ node' = [node EXCEPT ![th[t].curr].marked = TRUE]
    /\ Local(t, [th[t] EXCEPT !.pc = "unlink", !.res = "yes"])
    /\ UNCHANGED <<lock, region, got>>

Unlink(t) ==
    /\ th[t].pc = "unlink"
    /\ node' = [node EXCEPT ![th[t].prev].next = node[th[t].curr].next]
    /\ Local(t, [th[t] EXCEPT !.pc = "ret"])
    /\ UNCHANGED <<lock, region, got>>

Return(t) ==
    /\ th[t].pc = "ret"
    /\ IF th[t].op = "contains"
         THEN UNCHANGED <<lock, got>>
         ELSE lock' = Unlock(t) /\ got' = [got EXCEPT ![t] = (th[t].res = "yes")]
    /\ Local(t, Idle)
    /\ UNCHANGED <<node, region>>

Step(t) ==
    \/ Start(t) \/ Seek(t) \/ Contains(t) \/ LockPrev(t) \/ LockCurr(t)
    \/ Retry(t) \/ Fail(t) \/ ReadRegion(t) \/ WriteRegion(t) \/ Link(t)
    \/ Mark(t) \/ Unlink(t) \/ Return(t)

Observe ==
    was' = [t \in Threads |->
              IF th'[t].op = "contains"
                THEN (IF th[t].op = "contains" THEN was[t] ELSE {}) \cup {th'[t].key \in Content'}
                ELSE {}]

Next ==
    /\ \E t \in Threads : Step(t) \/ \E op \in Ops[t], k \in Keys : Invoke(t, op, k)
    /\ Observe

Spec == Init /\ [][Next]_vars

\* Every thread keeps running.
FairSpec == Spec /\ \A t \in Threads : WF_vars(Step(t) /\ Observe)

-----------------------------------------------------------------------------
\* Types, and the order that every search relies on: the keys increase
\* strictly along the list, so a search ends at the tail at the latest.
TypeOK ==
    /\ \A n \in Nodes : /\ node[n].key \in 0..(MaxKey + 1) /\ node[n].next \in Nodes
                        /\ node[n].marked \in BOOLEAN
    /\ lock \in [Nodes -> Threads \cup {NoThread}]
    /\ region \in 1..(MaxNodes + 1)
    /\ \A n \in Nodes \ {Tail} : node[n].key < node[node[n].next].key

\* The updates are atomic: add and remove take effect once, between call and
\* return, and return what they did, as in LinearSet.
Set == INSTANCE LinearSet WITH
    Capacity <- MaxNodes + 1,
    content  <- Content,
    call     <- [t \in Threads |->
                    IF th[t].op \in {"add", "remove"}
                      THEN [op |-> th[t].op, key |-> th[t].key, res |-> th[t].res]
                      ELSE [op |-> "none", key |-> 0, res |-> "open"]]
UpdatesImplementSet == Set!Spec

\* A contains that takes no lock still answers what was true at some moment
\* of the call, although the list changes under it.
ContainsJustified ==
    \A t \in Threads :
        th[t].op = "contains" /\ th[t].pc = "ret" => (th[t].res = "yes") \in was[t]

\* contains is wait-free.
ContainsReturns ==
    \A t \in Threads : [](th[t].op = "contains" => <>(th[t].pc = "idle"))
=============================================================================
