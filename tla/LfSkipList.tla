----------------------------- MODULE LfSkipList -----------------------------
(***************************************************************************)
(* The lock-free skip list of the host baselines (LFSkipList.hh).  A       *)
(* pointer carries a mark: a node whose next pointer at level l is marked  *)
(* has been removed from level l.  One action is one access to a next      *)
(* pointer that other threads may change.  Nodes are never freed.          *)
(***************************************************************************)
EXTENDS Integers, FiniteSets

CONSTANTS
    Threads,
    Ops,          \* Ops[t]: the operations thread t may call, <<op, key>>
    MaxKey,       \* keys are 1..MaxKey
    MaxLevel,     \* max_level, after set_max_level
    InitialKeys,  \* keys that main has added
    MaxNodes,     \* bound: nodes that are allocated
    MaxCalls      \* bound: operations of a thread (num_ops)

Head == 0
Tail == MaxNodes + 1
Null == MaxNodes + 2

Keys   == 1..MaxKey
Nodes  == 0..Tail
Levels == 0..(MaxLevel - 1)

\* randomLevel gives at most max_level - 1; level 1 is the bottom list only.
RandomLevels == 1..(MaxLevel - 1)

LevelAssumption == MaxLevel > 1 /\ InitialKeys \subseteq Keys

VARIABLES
    next,      \* next[n][l]: the pointer [ptr, mark]
    nkey, top, \* the key and top_level of a node
    nodes,     \* number of nodes allocated
    th,        \* th[t]: place and locals of thread t
    was        \* history: was[t]: whether the key of t was in the set during its call

vars == <<next, nkey, top, nodes, th, was>>
heap == <<next, nkey, top, nodes>>

Ptr(n)  == [ptr |-> n, mark |-> FALSE]
Mark(n) == [ptr |-> n, mark |-> TRUE]

NoPath == [l \in Levels |-> Head]
Idle   == [pc |-> "call", op |-> "none", key |-> 0, lvl |-> 0, pred |-> Head, curr |-> Head, succ |-> Head,
           first |-> Head, preds |-> NoPath, succs |-> NoPath, node |-> Null, up |-> 0, res |-> FALSE,
           did |-> "nothing", calls |-> 0]

\* The nodes of the bottom list, and the keys of those that are not marked
Reach(l) ==
    LET from[n \in Nodes] == IF n = Tail THEN {n} ELSE {n} \cup from[next[n][l].ptr] IN from[Head]
Content == {nkey[n] : n \in {m \in Reach(0) \ {Head, Tail} : ~next[m][0].mark}}

\* The list after main has added InitialKeys: node i has the i-th of them.
\* The next pointers of the tail are those of fresh memory, null.
Init ==
    /\ nodes = Cardinality(InitialKeys)
    /\ nkey = [n \in Nodes |-> IF n = Head THEN 0 ELSE IF n = Tail THEN MaxKey + 1
                 ELSE IF n <= nodes
                   THEN CHOOSE k \in InitialKeys : Cardinality({j \in InitialKeys : j <= k}) = n ELSE 0]
    /\ \E height \in [1..nodes -> RandomLevels] :
         /\ top = [n \in Nodes |-> IF n \in 1..nodes THEN height[n]
                                   ELSE IF n \in {Head, Tail} THEN MaxLevel ELSE 0]
         /\ next = [n \in Nodes |-> [l \in Levels |->
                      IF l >= top[n] \/ n = Tail THEN Ptr(Null)
                      ELSE Ptr(CHOOSE m \in Nodes :
                                 /\ m > n /\ top[m] > l
                                 /\ \A j \in Nodes : j > n /\ top[j] > l => m <= j)]]
    /\ th = [t \in Threads |-> Idle]
    /\ was = [t \in Threads |-> {}]

-----------------------------------------------------------------------------
Goto(t, changes) == th' = [th EXCEPT ![t] = changes]

\* Every step of any thread may change what the open calls can have seen.
Observe ==
    was' = [t \in Threads |-> IF th'[t].pc = "call" THEN {}
                              ELSE was[t] \cup {th'[t].key \in Content'}]

Cas(n, l, old, new) ==
    IF next[n][l] = old THEN next' = [next EXCEPT ![n][l] = new] ELSE UNCHANGED next

Answer(s, v) == [s EXCEPT !.pc = "ret", !.res = v]

\* find from its label find_retry, called by add, for an upper level, or by
\* remove
Find(s) == [s EXCEPT !.pc = "find", !.pred = Head, !.lvl = MaxLevel - 1]
Clean(s) == [s EXCEPT !.pc = "clean", !.pred = Head, !.first = Head, !.lvl = MaxLevel - 1]

Call(t) ==
    /\ th[t].pc = "call" /\ th[t].calls < MaxCalls
    /\ \E o \in Ops[t] :
         LET s == [Idle EXCEPT !.op = o[1], !.key = o[2], !.calls = th[t].calls + 1]
         IN  Goto(t, IF o[1] = "contains" THEN [s EXCEPT !.pc = "contains", !.lvl = MaxLevel - 1] ELSE Find(s))
    /\ UNCHANGED heap

Return(t) ==
    /\ th[t].pc = "ret"
    /\ Goto(t, [Idle EXCEPT !.calls = th[t].calls])
    /\ UNCHANGED heap

\* What follows find: found is the node with the key in the bottom list.
AfterFind(s, found) ==
    CASE s.up > 0         -> [s EXCEPT !.pc = "upper"]
      [] s.op = "add"     -> IF found THEN Answer(s, FALSE) ELSE [s EXCEPT !.pc = "bottom"]
      [] s.op = "remove"  -> IF ~found THEN Answer(s, FALSE)
                             ELSE [s EXCEPT !.pc = "markRead", !.node = s.succs[0], !.lvl = top[s.succs[0]] - 1]

\* pCurr = PTR(pPred->next[iLevel]), at a new level or after a snip
FindCurr(t) ==
    /\ th[t].pc = "find"
    /\ Goto(t, [th[t] EXCEPT !.pc = "findSucc", !.curr = next[th[t].pred][th[t].lvl].ptr])
    /\ UNCHANGED heap

\* pSucc = pCurr->next[iLevel]: marked, move forward, or next level
FindSucc(t) ==
    LET s == th[t]
        p == next[s.curr][s.lvl]
        d == [s EXCEPT !.preds[s.lvl] = s.pred, !.succs[s.lvl] = s.curr]
    IN  /\ s.pc = "findSucc"
        /\ Goto(t, IF p.mark THEN [s EXCEPT !.pc = "findSnip", !.succ = p.ptr]
                   ELSE IF nkey[s.curr] < s.key THEN [s EXCEPT !.pred = s.curr, !.curr = p.ptr]
                   ELSE IF s.lvl > 0 THEN [d EXCEPT !.pc = "find", !.lvl = s.lvl - 1]
                   ELSE AfterFind(d, nkey[s.curr] = s.key))
        /\ UNCHANGED heap

FindSnip(t) ==
    LET s == th[t] IN
    /\ s.pc = "findSnip"
    /\ Cas(s.pred, s.lvl, Ptr(s.curr), Ptr(s.succ))
    /\ Goto(t, IF next[s.pred][s.lvl] = Ptr(s.curr) THEN [s EXCEPT !.pc = "find"] ELSE Find(s))
    /\ UNCHANGED <<nkey, top, nodes>>

-----------------------------------------------------------------------------
(* add.                                                                    *)

\* The new node is made ready, with the successors found, and linked at the
\* bottom.
AddBottom(t) ==
    LET s     == th[t]
        fresh == s.node = Null
        n     == IF fresh THEN nodes + 1 ELSE s.node
        ok    == next[s.preds[0]][0] = Ptr(s.succs[0])
    IN  /\ s.pc = "bottom" /\ n <= MaxNodes
        /\ nodes' = IF fresh THEN nodes + 1 ELSE nodes
        /\ nkey' = [nkey EXCEPT ![n] = s.key]
        /\ \E h \in IF fresh THEN RandomLevels ELSE {top[n]} :
             /\ top' = [top EXCEPT ![n] = h]
             /\ next' = [m \in Nodes |-> [l \in Levels |->
                           IF m = n /\ l < h THEN Ptr(s.succs[l])
                           ELSE IF ok /\ m = s.preds[0] /\ l = 0 THEN Ptr(n) ELSE next[m][l]]]
             /\ Goto(t, IF ~ok THEN Find([s EXCEPT !.node = n])
                        ELSE IF h > 1 THEN [s EXCEPT !.pc = "upper", !.node = n, !.up = 1, !.did = "add"]
                        ELSE Answer([s EXCEPT !.did = "add"], TRUE))

AddUpper(t) ==
    LET s  == th[t]
        ok == next[s.preds[s.up]][s.up] = Ptr(s.succs[s.up])
    IN  /\ s.pc = "upper"
        /\ Cas(s.preds[s.up], s.up, Ptr(s.succs[s.up]), Ptr(s.node))
        /\ Goto(t, IF ~ok THEN Find(s)
                   ELSE IF s.up + 1 < top[s.node] THEN [s EXCEPT !.up = s.up + 1] ELSE Answer(s, TRUE))
        /\ UNCHANGED <<nkey, top, nodes>>

-----------------------------------------------------------------------------
(* remove.                                                                 *)

\* The pointer of an upper level is read; when it is marked, or at level 0,
\* the next step is decided.
MarkRead(t) ==
    LET s == th[t]
        p == next[s.node][s.lvl]
    IN  /\ s.pc = "markRead"
        /\ Goto(t, IF s.lvl = 0 THEN [s EXCEPT !.pc = "bottomMark", !.succ = p.ptr]
                   ELSE IF p.mark THEN [s EXCEPT !.lvl = s.lvl - 1]
                   ELSE [s EXCEPT !.pc = "mark", !.succ = p.ptr])
        /\ UNCHANGED heap

MarkUpper(t) ==
    LET s == th[t] IN
    /\ s.pc = "mark"
    /\ Cas(s.node, s.lvl, Ptr(s.succ), Mark(s.succ))
    /\ Goto(t, [s EXCEPT !.pc = "markRead"])
    /\ UNCHANGED <<nkey, top, nodes>>

MarkBottom(t) ==
    LET s  == th[t]
        ok == next[s.node][0] = Ptr(s.succ)
    IN  /\ s.pc = "bottomMark"
        /\ Cas(s.node, 0, Ptr(s.succ), Mark(s.succ))
        /\ Goto(t, IF ok THEN Clean([s EXCEPT !.did = "remove"]) ELSE [s EXCEPT !.pc = "bottomCheck"])
        /\ UNCHANGED <<nkey, top, nodes>>

\* The pointer is read again after a failure: somebody else has marked it,
\* or a node was added behind.
BottomCheck(t) ==
    LET s == th[t]
        p == next[s.node][0]
    IN  /\ s.pc = "bottomCheck"
        /\ Goto(t, IF p.mark THEN Answer(s, FALSE) ELSE [s EXCEPT !.pc = "bottomMark", !.succ = p.ptr])
        /\ UNCHANGED heap

\* findAndClean.  pCurr = pPred->next[iLevel] keeps the mark of the pointer:
\* what is read through a marked pointer is not a node.
CleanCurr(t) ==
    LET s == th[t]
        p == next[s.pred][s.lvl]
    IN  /\ s.pc = "clean"
        /\ Goto(t, IF p.mark THEN [s EXCEPT !.pc = "wild"] ELSE [s EXCEPT !.pc = "cleanSucc", !.curr = p.ptr])
        /\ UNCHANGED heap

CleanSucc(t) ==
    LET s == th[t]
        p == next[s.curr][s.lvl]
    IN  /\ s.pc = "cleanSucc"
        /\ Goto(t, IF p.mark THEN [s EXCEPT !.pc = "cleanSnip", !.succ = p.ptr]
                   ELSE IF nkey[s.curr] < s.key THEN [s EXCEPT !.pred = s.curr, !.first = s.curr, !.curr = p.ptr]
                   ELSE IF nkey[s.curr] = s.key THEN [s EXCEPT !.pred = s.curr, !.curr = p.ptr]
                   ELSE IF s.lvl > 0 THEN [s EXCEPT !.pc = "clean", !.lvl = s.lvl - 1, !.pred = s.first]
                   ELSE Answer(s, TRUE))
        /\ UNCHANGED heap

CleanSnip(t) ==
    LET s == th[t] IN
    /\ s.pc = "cleanSnip"
    /\ Cas(s.pred, s.lvl, Ptr(s.curr), Ptr(s.succ))
    /\ Goto(t, IF next[s.pred][s.lvl] = Ptr(s.curr) THEN [s EXCEPT !.pc = "cleanNext"] ELSE Clean(s))
    /\ UNCHANGED <<nkey, top, nodes>>

\* pCurr = PTR(pPred->next[iLevel]), after a snip
CleanNext(t) ==
    /\ th[t].pc = "cleanNext"
    /\ Goto(t, [th[t] EXCEPT !.pc = "cleanSucc", !.curr = next[th[t].pred][th[t].lvl].ptr])
    /\ UNCHANGED heap

-----------------------------------------------------------------------------
(* contains.                                                               *)

\* FAULT (not the code): a node is found whether it is marked or not.
Contains_Marked(t) ==
    LET s == th[t]
        p == next[s.curr][s.lvl]
    IN  /\ s.pc = "contains"
        /\ Goto(t, IF nkey[s.curr] < s.key THEN [s EXCEPT !.pred = s.curr, !.curr = p.ptr]
                   ELSE IF nkey[s.curr] = s.key THEN Answer(s, TRUE)
                   ELSE IF s.lvl > 0 THEN [s EXCEPT !.curr = s.pred, !.lvl = s.lvl - 1]
                   ELSE Answer(s, FALSE))
        /\ UNCHANGED heap

Contains(t) ==
    LET s == th[t]
        p == next[s.curr][s.lvl]
    IN  /\ s.pc = "contains"
        /\ Goto(t, IF p.mark THEN [s EXCEPT !.curr = p.ptr]
                   ELSE IF nkey[s.curr] < s.key THEN [s EXCEPT !.pred = s.curr, !.curr = p.ptr]
                   ELSE IF nkey[s.curr] = s.key THEN Answer(s, TRUE)
                   ELSE IF s.lvl > 0 THEN [s EXCEPT !.curr = s.pred, !.lvl = s.lvl - 1]
                   ELSE Answer(s, FALSE))
        /\ UNCHANGED heap

Thread(t) ==
    /\ \/ Call(t) \/ Return(t) \/ FindCurr(t) \/ FindSucc(t) \/ FindSnip(t)
       \/ AddBottom(t) \/ AddUpper(t)
       \/ MarkRead(t) \/ MarkUpper(t) \/ MarkBottom(t) \/ BottomCheck(t)
       \/ CleanCurr(t) \/ CleanSucc(t) \/ CleanSnip(t) \/ CleanNext(t)
       \/ Contains(t)
    /\ Observe

Stopped(t) == th[t].pc = "wild" \/ (th[t].pc = "call" /\ th[t].calls = MaxCalls)
Finished   == (\A t \in Threads : Stopped(t)) /\ UNCHANGED vars

Next == (\E t \in Threads : Thread(t)) \/ Finished

Spec == Init /\ [][Next]_vars

\* The operating system runs every thread.
FairSpec == Spec /\ \A t \in Threads : WF_vars(Thread(t))

-----------------------------------------------------------------------------
TypeOK ==
    /\ next \in [Nodes -> [Levels -> [ptr : Nodes \cup {Null}, mark : BOOLEAN]]]
    /\ top \in [Nodes -> 0..MaxLevel] /\ nodes \in 0..MaxNodes
    /\ \A t \in Threads : {th[t].pred, th[t].curr, th[t].first} \subseteq Nodes

\* At every level, also while nodes are linked and unlinked, the pointers
\* lead in the order of the keys from the head to the tail; only on an upper
\* level, and only next to a removed node, may a key occur twice.
Sorted ==
    \A l \in Levels : \A n \in Reach(l) \ {Tail} :
        LET m == next[n][l].ptr
        IN  nkey[n] < nkey[m] \/ (l > 0 /\ nkey[n] = nkey[m] /\ (next[n][0].mark \/ next[m][0].mark))

\* The set changes only by the one step in which an add or a remove takes
\* effect, by that key and never twice in a call.
UpdateStep ==
    Content' # Content =>
        \E t \in Threads :
            /\ th[t].did = "nothing" /\ th'[t].did = th[t].op
            /\ th[t].op = "add" => Content' = Content \cup {th[t].key} /\ th[t].key \notin Content
            /\ th[t].op = "remove" => Content' = Content \ {th[t].key}
UpdatesTakeEffectOnce == [][UpdateStep]_vars

\* An add or remove that returns true has taken effect; every other answer
\* was right at some moment of the call.
AnswersJustified ==
    \A t \in Threads : th[t].pc = "ret" =>
        IF th[t].op # "contains" /\ th[t].res THEN th[t].did = th[t].op
        ELSE /\ th[t].did = "nothing"
             /\ (IF th[t].op = "add" THEN ~th[t].res ELSE th[t].res) \in was[t]

\* Retries of find, add and remove end: every operation returns, unless its
\* thread has used a marked pointer.
AllReturn == <>(\A t \in Threads : Stopped(t))
=============================================================================
