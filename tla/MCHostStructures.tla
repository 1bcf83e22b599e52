-------------------------- MODULE MCHostStructures --------------------------
(* The host baselines but the skip list, one of them chosen in the initial *)
(* state: app names it, and the variables of the others are absent.        *)
EXTENDS Integers

VARIABLES app, slot, tail, lock, status, th, list, cursor, got, queue_array, head_index, tail_index, turn,
          next, value, head, fresh, left, node, region, was

vars == <<app, slot, tail, lock, status, th, list, cursor, got, queue_array, head_index, tail_index, turn,
          next, value, head, fresh, left, node, region, was>>

\* The list with lazy locks: an updater, and a thread that removes or looks.
Lazy == INSTANCE LazyList WITH
    Threads <- {"a", "b"}, MaxKey <- 2, MaxNodes <- 2,
    Ops <- [a |-> {"add", "remove"}, b |-> {"remove", "contains"}]

\* The flat-combining list: slots age at the first operation of another thread.
FcL == INSTANCE FcList WITH
    Threads <- {"a", "b"}, Lists <- {"one"}, Main <- "main", MainLists <- {}, Threshold <- 0,
    CasTail <- FALSE, OwnStatus <- TRUE, Batch <- TRUE, StampLate <- FALSE, MaxKey <- 2,
    Ops <- [a |-> {<<"add", 1>>, <<"add", 2>>}, b |-> {<<"remove", 1>>}]

\* The flat-combining queue with one publication list, ...
FcQ == INSTANCE FcQueue WITH
    Threads <- {"a", "b"}, Lists <- {"one"}, Main <- "main", MainLists <- {"one"}, Threshold <- 0,
    CasTail <- TRUE, OwnStatus <- FALSE, Batch <- FALSE, StampLate <- TRUE,
    Items <- {1, 2}, Pushes <- [a |-> {2}, b |-> {2}], InitialItems <- <<1>>, MaxIndex <- 3, PopFirst <- {"b"}

\* ... and with two.
FcD == INSTANCE FcQueue WITH
    Threads <- {"a", "b"}, Lists <- {"enq", "deq"}, Main <- "main", MainLists <- {"enq"}, Threshold <- 0,
    CasTail <- TRUE, OwnStatus <- FALSE, Batch <- FALSE, StampLate <- TRUE,
    Items <- {1, 2}, Pushes <- [a |-> {2}, b |-> {2}], InitialItems <- <<1>>, MaxIndex <- 3, PopFirst <- {"b"}

\* The lock-free linked queue; thread a may stop for ever.
LfQ == INSTANCE LfQueue WITH
    Threads <- {"a", "b"}, Items <- {1, 2}, Stalled <- {"a"}, MaxNodes <- 2

\* The lock-free array queue.
Arr == INSTANCE LfArrayQueue WITH
    Threads <- {"a", "b", "c"}, Items <- {1}, InitialItems <- <<1>>, MaxIndex <- 8, DeqFirst <- {"b"}, NumOps <- 2

Absent(v) == v = "absent"

noLazy == <<slot, tail, status, list, cursor, queue_array, head_index, tail_index, turn,
            next, value, head, fresh, left>>
noFcL  == <<queue_array, head_index, tail_index, turn, next, value, head, fresh, left, node, region, was>>
noFcQ  == <<list, cursor, next, value, head, fresh, left, node, region, was>>
noLfQ  == <<slot, lock, status, list, cursor, queue_array, head_index, tail_index, turn, left, node, region, was>>
noArr  == <<slot, tail, lock, status, list, cursor, got, turn, next, value, head, fresh, node, region, was>>

WithoutLazy ==
    /\ Absent(slot) /\ Absent(tail) /\ Absent(status) /\ Absent(list) /\ Absent(cursor)
    /\ Absent(queue_array) /\ Absent(head_index) /\ Absent(tail_index) /\ Absent(turn) /\ Absent(next)
    /\ Absent(value) /\ Absent(head) /\ Absent(fresh) /\ Absent(left)

WithoutFcL ==
    /\ Absent(queue_array) /\ Absent(head_index) /\ Absent(tail_index) /\ Absent(turn) /\ Absent(next)
    /\ Absent(value) /\ Absent(head) /\ Absent(fresh) /\ Absent(left) /\ Absent(node) /\ Absent(region)
    /\ Absent(was)

WithoutFcQ ==
    /\ Absent(list) /\ Absent(cursor) /\ Absent(next) /\ Absent(value) /\ Absent(head) /\ Absent(fresh)
    /\ Absent(left) /\ Absent(node) /\ Absent(region) /\ Absent(was)

WithoutLfQ ==
    /\ Absent(slot) /\ Absent(lock) /\ Absent(status) /\ Absent(list) /\ Absent(cursor)
    /\ Absent(queue_array) /\ Absent(head_index) /\ Absent(tail_index) /\ Absent(turn) /\ Absent(left)
    /\ Absent(node) /\ Absent(region) /\ Absent(was)

WithoutArr ==
    /\ Absent(slot) /\ Absent(tail) /\ Absent(lock) /\ Absent(status) /\ Absent(list) /\ Absent(cursor)
    /\ Absent(got) /\ Absent(turn) /\ Absent(next) /\ Absent(value) /\ Absent(head) /\ Absent(fresh)
    /\ Absent(node) /\ Absent(region) /\ Absent(was)

Init ==
    \/ app = "lazy" /\ Lazy!LazyAssumption /\ Lazy!Init /\ WithoutLazy
    \/ app = "fclist" /\ FcL!CombineAssumption /\ FcL!Init /\ WithoutFcL
    \/ app = "fcqueue" /\ FcQ!CombineAssumption /\ FcQ!QueueAssumption /\ FcQ!Init /\ WithoutFcQ
    \/ app = "doublefc" /\ FcD!CombineAssumption /\ FcD!QueueAssumption /\ FcD!Init /\ WithoutFcQ
    \/ app = "lfqueue" /\ LfQ!LfAssumption /\ LfQ!Init /\ WithoutLfQ
    \/ app = "lfarray" /\ Arr!ArrayAssumption /\ Arr!Init /\ WithoutArr

InLazy(A) == app = "lazy" /\ A /\ UNCHANGED <<app, noLazy>>
InFcL(A)  == app = "fclist" /\ A /\ UNCHANGED <<app, noFcL>>
InFcQ(A)  == app = "fcqueue" /\ A /\ UNCHANGED <<app, noFcQ>>
InFcD(A)  == app = "doublefc" /\ A /\ UNCHANGED <<app, noFcQ>>
InLfQ(A)  == app = "lfqueue" /\ A /\ UNCHANGED <<app, noLfQ>>
InArr(A)  == app = "lfarray" /\ A /\ UNCHANGED <<app, noArr>>

Next ==
    \/ InLazy(Lazy!Next) \/ InFcL(FcL!Next) \/ InFcQ(FcQ!Next) \/ InFcD(FcD!Next)
    \/ InLfQ(LfQ!Next) \/ InArr(Arr!Next)

\* A step of t in an operation that it has called; in the array queue, where
\* the number of calls is bounded, also the next call.
Step(t) ==
    \/ InLazy(Lazy!Step(t) /\ Lazy!Observe) \/ InFcL(FcL!Step(t)) \/ InFcQ(FcQ!Step(t)) \/ InFcD(FcD!Step(t))
    \/ InLfQ(LfQ!Step(t)) \/ InArr(Arr!Run(t))

\* The operating system runs every thread, but thread a of the linked queue.
Spec ==
    /\ Init /\ [][Next]_vars
    /\ WF_vars(app # "lfqueue" /\ Step("a"))
    /\ WF_vars(Step("b"))
    /\ WF_vars(InArr(Arr!Run("c")))

-----------------------------------------------------------------------------
\* The structure is one at every moment.  Lists are sorted and the tail of the
\* linked queue is at most one node behind.  In flat combining, a slot that
\* says it is linked is found by the combiner, except while its owner links it
\* or a combiner unlinks it; whoever leaves fc_operation has its answer; and
\* "we're assuming that this never happens": no pop finds the queue empty, and
\* no push finds it full (fc_operation, flat_combine).
WellFormed ==
    CASE app = "lazy"     -> Lazy!TypeOK
      [] app = "fclist"   -> FcL!TypeOK /\ FcL!LinkedIsReached /\ FcL!AnsweredOnReturn
      [] app = "fcqueue"  -> FcQ!TypeOK /\ FcQ!LinkedIsReached /\ FcQ!AnsweredOnReturn /\ FcQ!PopFindsItem
      [] app = "doublefc" -> FcD!TypeOK /\ FcD!LinkedIsReached /\ FcD!AnsweredOnReturn /\ FcD!PopFindsItem
      [] app = "lfqueue"  -> LfQ!TypeOK
      [] OTHER            -> TRUE

\* What is done without a lock is right: contains of the lazy list answers what
\* was true at some moment of the call, and an index of the array queue is used
\* by one enq and one deq.  The enq finds the cell empty; the deq finds the item,
\* unless that very enq has reserved the index and not written the cell yet
\* (LFArrayQueue.h).
UnlockedIsRight ==
    CASE app = "lazy"    -> Lazy!ContainsJustified
      [] app = "lfarray" -> Arr!ReservedForOne
      [] OTHER           -> TRUE

\* The updates of the lists are atomic: each takes effect once, between call
\* and return, and returns what it did.
ImplementsSet ==
    /\ CASE app = "lazy" -> Lazy!Set!Init [] app = "fclist" -> FcL!Set!Init [] OTHER -> TRUE
    /\ [][CASE app = "lazy"   -> [Lazy!Set!Next]_(Lazy!Set!vars)
            [] app = "fclist" -> [FcL!Set!Next]_(FcL!Set!vars)
            [] OTHER          -> TRUE]_vars

\* enq and deq of the queues are atomic and first-in first-out, whoever
\* executes them.
ImplementsQueue ==
    /\ CASE app = "fcqueue" -> FcQ!Queue!Init [] app = "doublefc" -> FcD!Queue!Init
         [] app = "lfqueue" -> LfQ!Queue!Init [] OTHER -> TRUE
    /\ [][CASE app = "fcqueue"  -> [FcQ!Queue!Next]_(FcQ!Queue!vars)
            [] app = "doublefc" -> [FcD!Queue!Next]_(FcD!Queue!vars)
            [] app = "lfqueue"  -> [LfQ!Queue!Next]_(LfQ!Queue!vars)
            [] OTHER            -> TRUE]_vars

\* Thread b waits for others: its contains walks a list that changes, its
\* request is linked for a combiner, or its lock-free operation is under way.
Waits ==
    CASE app = "lazy"    -> th["b"].op = "contains"
      [] app = "fclist"  -> slot["one"]["b"].valid /\ slot["one"]["b"].linked
      [] app = "fcqueue" -> slot["one"]["b"].valid /\ slot["one"]["b"].linked
      [] app = "doublefc" -> slot["deq"]["b"].valid /\ slot["deq"]["b"].linked
      [] app = "lfqueue" -> th["b"].pc # "idle"
      [] app = "lfarray" -> th["b"].pc # "idle"

\* No thread waits for ever: contains is wait-free, a request whose slot stays
\* linked is executed, whoever combines, and the lock-free operations end even
\* if thread a stops.
WaitEnds == Waits ~> ~Waits
=============================================================================
