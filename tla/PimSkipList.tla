---------------------------- MODULE PimSkipList -----------------------------
(***************************************************************************)
(* The skip list partitioned over PIM cores (clean_skiplist.c), filled by  *)
(* main and used by host threads (multithread_nonstop_pim_skiplist).  A    *)
(* core serves the request slots of its partition one after the other; its *)
(* list is its own, so a search and the update that follows are one        *)
(* action.  A node is represented by its key: a removed block is never     *)
(* used again (free_memory_block is not called).                           *)
(***************************************************************************)
EXTENDS Integers, FiniteSets

CONSTANTS
    NumPartitions, PartitionMaxSize,  \* NUM_PARTITIONS, partition_max_size
    InitialListSize, TotalOps,        \* INITIAL_LIST_SIZE, TOTAL_NUM_OPS
    Rounds,          \* rounds of main; round x runs 2x threads
    NumMemBlocks,    \* NUM_MEM_BLOCKS
    FillKeys, OpKeys \* keys that rand() gives to main and to the threads

Partitions == 0..(NumPartitions - 1)
Threads    == 0..(2 * Rounds - 1)
Keys       == 1..(NumPartitions * PartitionMaxSize)
FillSize   == InitialListSize \div NumPartitions

\* (parameter - KEY_LOWER_BOUND) / partition_max_size
Part(k) == (k - 1) \div PartitionMaxSize

\* With fewer keys random_level returns 0, and a node is linked nowhere.
SizeAssumption == FillSize > 1 /\ FillKeys \cup OpKeys \subseteq Keys
FillAssumption == \A p \in Partitions : \E k \in FillKeys : Part(k) = p

\* max_level: log_2 of the initial partition size
MaxLevel == CHOOSE i \in 1..29 : FillSize < 2^i /\ \A j \in 1..(i - 1) : FillSize >= 2^j
Levels   == 0..(MaxLevel - 1)

\* random_level, from the value x of rand() % (1 << curr_max_level)
RandomLevel(x) ==
    LET ones[i \in 1..(MaxLevel + 1)] == IF (x \div 2^i) % 2 = 1 THEN 1 + ones[i + 1] ELSE 0
        level == 2 + ones[1]
    IN  IF x % 2 = 1 THEN 1 ELSE IF level > MaxLevel - 1 THEN MaxLevel - 1 ELSE level

RandomLevels == {RandomLevel(x) : x \in 0..(2^MaxLevel - 1)}

Head  == 0
Tail  == NumPartitions * PartitionMaxSize + 1
Null  == Tail + 1
Nodes == {Head, Tail} \cup Keys

VARIABLES
    sreg0, sreg1,   \* of each core: PIM_SREG[0], and whether PIM_SREG[1] is set
    phase,          \* of each core: the call that started it, as in OffloadCall
    slot,           \* slot[p][t]: info_bits (req, op, ret), random_level, parameter
    next, top,      \* of each core: next[level][node], top_level
    used,           \* of each core: blocks allocated so far
    kpc, ki,        \* of each core: the place of the kernel, its index i
    pc, count,      \* of each thread: its place, its op_count
    mainPc, mi, size, round, bits,  \* main: place, i, size, x, request_slot.info_bits
    call, got       \* history: open operations and what the latest returned

regs     == <<sreg0, sreg1, phase>>
list     == <<next, top, used>>
core     == <<kpc, ki>>
threads  == <<pc, count>>
mainVars == <<mainPc, mi, size, round, bits>>
history  == <<call, got>>
vars     == <<regs, slot, list, core, threads, mainVars, history>>

NoBits == [req |-> FALSE, op |-> "none", ret |-> FALSE]
NoSlot == [bits |-> NoBits, level |-> 0, param |-> 0]
NoCall == [op |-> "none", key |-> 0, res |-> "open"]

Init ==
    /\ sreg0 = [p \in Partitions |-> 0] /\ sreg1 = [p \in Partitions |-> FALSE]
    /\ phase = [p \in Partitions |-> "idle"]
    /\ slot = [p \in Partitions |-> [t \in Threads |-> NoSlot]]
    /\ next = [p \in Partitions |-> [l \in Levels |-> [n \in Nodes |-> Null]]]
    /\ top = [p \in Partitions |-> [n \in Nodes |-> 0]] /\ used = [p \in Partitions |-> 0]
    /\ kpc = [p \in Partitions |-> "off"] /\ ki = [p \in Partitions |-> 0]
    /\ pc = [t \in Threads |-> "begin"] /\ count = [t \in Threads |-> 0]
    /\ mainPc = "start" /\ mi = 0 /\ size = 0 /\ round = 0 /\ bits = NoBits
    /\ call = [t \in Threads |-> NoCall] /\ got = [t \in Threads |-> FALSE]

Open(t, op, k) == call' = [call EXCEPT ![t] = [op |-> op, key |-> k, res |-> "open"]]
Return(t, v)   == call' = [call EXCEPT ![t] = NoCall] /\ got' = [got EXCEPT ![t] = v]

SetOperation(op)  == [req |-> FALSE, op |-> op, ret |-> FALSE]
SetRequest(b)     == [b EXCEPT !.req = TRUE]
\* SET_RETVAL only sets the bit.
SetRetval(b, ret) == [b EXCEPT !.ret = @ \/ ret]
ClearRequest(b)   == [b EXCEPT !.req = FALSE]

-----------------------------------------------------------------------------
(* skiplist_ops_routine of thread t.                                       *)

NumOps     == TotalOps \div (2 * round)
Running(t) == mainPc = "join" /\ t < 2 * round /\ count[t] < NumOps
Mine(t)    == Part(call[t].key)

WriteParameter(t) ==
    /\ pc[t] = "begin" /\ Running(t)
    /\ \E k \in OpKeys, op \in {"contains", "add", "remove"} :
         /\ slot' = [slot EXCEPT ![Part(k)][t].param = k]
         /\ Open(t, op, k)
    /\ count' = [count EXCEPT ![t] = @ + 1]
    /\ pc' = [pc EXCEPT ![t] = "operation"]
    /\ UNCHANGED <<regs, list, core, mainVars, got>>

WriteOperation(t) ==
    /\ pc[t] = "operation"
    /\ slot' = [slot EXCEPT ![Mine(t)][t].bits = SetOperation(call[t].op)]
    /\ pc' = [pc EXCEPT ![t] = IF call[t].op = "add" THEN "level" ELSE "request"]
    /\ UNCHANGED <<regs, list, core, count, mainVars, history>>

WriteLevel(t) ==
    /\ pc[t] = "level"
    /\ \E l \in RandomLevels : slot' = [slot EXCEPT ![Mine(t)][t].level = l]
    /\ pc' = [pc EXCEPT ![t] = "request"]
    /\ UNCHANGED <<regs, list, core, count, mainVars, history>>

Request(t) ==
    /\ pc[t] = "request"
    /\ slot' = [slot EXCEPT ![Mine(t)][t].bits = SetRequest(SetOperation(call[t].op))]
    /\ pc' = [pc EXCEPT ![t] = "poll"]
    /\ UNCHANGED <<regs, list, core, count, mainVars, history>>

\* The read_skiplist_info_bits that ends the polling loop, and GET_RETVAL
Poll(t) ==
    /\ pc[t] = "poll" /\ ~slot[Mine(t)][t].bits.req
    /\ Return(t, slot[Mine(t)][t].bits.ret)
    /\ pc' = [pc EXCEPT ![t] = "begin"]
    /\ UNCHANGED <<regs, slot, list, core, count, mainVars>>

Thread(t) == WriteParameter(t) \/ WriteOperation(t) \/ WriteLevel(t) \/ Request(t) \/ Poll(t)

-----------------------------------------------------------------------------
(* main: start, fill and close one core after the other, reactivate them   *)
(* all, run the rounds, close them.                                        *)

\* write_sreg(0, mode) on a sleeping core, then start_computation
Start(p, mode) ==
    /\ phase[p] = "idle" /\ phase' = [phase EXCEPT ![p] = "called"]
    /\ sreg0' = [sreg0 EXCEPT ![p] = mode]

\* The next core in the loops over the partitions
NextCore(again, after) ==
    IF mi + 1 < NumPartitions THEN mi' = mi + 1 /\ mainPc' = again
                              ELSE mi' = 0 /\ mainPc' = after

MainStart ==
    /\ mainPc = "start"
    /\ Start(mi, 0) /\ sreg1' = [sreg1 EXCEPT ![mi] = FALSE]
    /\ size' = 0
    /\ mainPc' = "waitInit"
    /\ UNCHANGED <<slot, list, core, threads, mi, round, bits, history>>

MainReady ==
    /\ mainPc = "waitInit" /\ sreg1[mi]
    /\ bits' = SetOperation("add")
    /\ mainPc' = "fill"
    /\ UNCHANGED <<regs, slot, list, core, threads, mi, size, round, history>>

MainParameter ==
    /\ mainPc = "fill" /\ size < FillSize
    /\ \E k \in {f \in FillKeys : Part(f) = mi} :
         /\ slot' = [slot EXCEPT ![mi][0].param = k]
         /\ Open(0, "add", k)
    /\ mainPc' = "fillLevel"
    /\ UNCHANGED <<regs, list, core, threads, mi, size, round, bits, got>>

MainLevel ==
    /\ mainPc = "fillLevel"
    /\ \E l \in RandomLevels : slot' = [slot EXCEPT ![mi][0].level = l]
    /\ mainPc' = "fillRequest"
    /\ UNCHANGED <<regs, list, core, threads, mi, size, round, bits, history>>

\* The info_bits that the previous poll has read are used again.
MainRequest ==
    /\ mainPc = "fillRequest"
    /\ bits' = SetRequest(bits)
    /\ slot' = [slot EXCEPT ![mi][0].bits = bits']
    /\ mainPc' = "fillPoll"
    /\ UNCHANGED <<regs, list, core, threads, mi, size, round, history>>

\* The outcome of a call of the fill is what the kernel found; main counts
\* what it reads.
MainPoll ==
    /\ mainPc = "fillPoll" /\ ~slot[mi][0].bits.req
    /\ bits' = slot[mi][0].bits
    /\ size' = IF bits'.ret THEN size + 1 ELSE size
    /\ Return(0, call[0].res = "yes")
    /\ mainPc' = "fill"
    /\ UNCHANGED <<regs, slot, list, core, threads, mi, round>>

\* write_sreg(0,3) after the fill, write_sreg(0,4) after the last round
MainClose ==
    /\ \/ mainPc = "fill" /\ size >= FillSize /\ sreg0' = [sreg0 EXCEPT ![mi] = 3] /\ mainPc' = "waitFill"
       \/ mainPc = "close" /\ sreg0' = [sreg0 EXCEPT ![mi] = 4] /\ mainPc' = "waitClose"
    /\ UNCHANGED <<sreg1, phase, slot, list, core, threads, mi, size, round, bits, history>>

\* wait_for_completion
MainWait ==
    /\ phase[mi] = "served" /\ phase' = [phase EXCEPT ![mi] = "idle"]
    /\ \/ mainPc = "waitFill" /\ NextCore("start", "reactivate")
       \/ mainPc = "waitClose" /\ NextCore("close", "done")
    /\ UNCHANGED <<sreg0, sreg1, slot, list, core, threads, size, round, bits, history>>

MainReactivate ==
    /\ mainPc = "reactivate"
    /\ Start(mi, 1)
    /\ NextCore("reactivate", "round")
    /\ UNCHANGED <<sreg1, slot, list, core, threads, size, round, bits, history>>

\* 2x threads are created and released, and joined at the end of the round.
MainRound ==
    /\ mainPc = "round" /\ round < Rounds
    /\ round' = round + 1
    /\ count' = [t \in Threads |-> 0]
    /\ mainPc' = "join"
    /\ UNCHANGED <<regs, slot, list, core, pc, mi, size, bits, history>>

MainJoin ==
    /\ mainPc = "join"
    /\ \A t \in Threads : t < 2 * round => pc[t] = "begin" /\ count[t] >= NumOps
    /\ mainPc' = IF round = Rounds THEN "close" ELSE "round"
    /\ UNCHANGED <<regs, slot, list, core, threads, mi, size, round, bits, history>>

Main ==
    \/ MainStart \/ MainReady \/ MainParameter \/ MainLevel \/ MainRequest \/ MainPoll
    \/ MainClose \/ MainWait \/ MainReactivate \/ MainRound \/ MainJoin

-----------------------------------------------------------------------------
(* execute_kernel of core p.                                               *)

Enter(p) ==
    /\ kpc[p] = "off" /\ phase[p] = "called"
    /\ kpc' = [kpc EXCEPT ![p] = "test0"]
    /\ UNCHANGED <<regs, slot, list, ki, threads, mainVars, history>>

Test0(p) ==
    /\ kpc[p] = "test0"
    /\ kpc' = [kpc EXCEPT ![p] = IF sreg0[p] = 0 THEN "init" ELSE "test3"]
    /\ UNCHANGED <<regs, slot, list, ki, threads, mainVars, history>>

\* list_init: the head and the tail take two blocks
ListInit(p) ==
    /\ kpc[p] = "init"
    /\ next' = [next EXCEPT ![p] = [l \in Levels |-> [n \in Nodes |-> IF n = Head THEN Tail ELSE Null]]]
    /\ top' = [top EXCEPT ![p] = [n \in Nodes |-> IF n \in {Head, Tail} THEN MaxLevel ELSE 0]]
    /\ used' = [used EXCEPT ![p] = 2]
    /\ sreg1' = [sreg1 EXCEPT ![p] = TRUE]
    /\ kpc' = [kpc EXCEPT ![p] = "initDone"]
    /\ UNCHANGED <<sreg0, phase, slot, ki, threads, mainVars, history>>

InitDone(p) ==
    /\ kpc[p] = "initDone"
    /\ sreg0' = [sreg0 EXCEPT ![p] = 1]
    /\ kpc' = [kpc EXCEPT ![p] = "test0"]
    /\ UNCHANGED <<sreg1, phase, slot, list, ki, threads, mainVars, history>>

\* FAULT (not the code): mode 3 does not end the kernel.
Test3_Above(p) ==
    /\ kpc[p] = "test3"
    /\ ki' = [ki EXCEPT ![p] = 0]
    /\ IF sreg0[p] > 3
         THEN kpc' = [kpc EXCEPT ![p] = "off"] /\ phase' = [phase EXCEPT ![p] = "served"]
         ELSE kpc' = [kpc EXCEPT ![p] = "scan"] /\ UNCHANGED phase
    /\ UNCHANGED <<sreg0, sreg1, slot, list, threads, mainVars, history>>

\* PIM_SREG[0] is read again.
Test3(p) ==
    /\ kpc[p] = "test3"
    /\ ki' = [ki EXCEPT ![p] = 0]
    /\ IF sreg0[p] >= 3
         THEN kpc' = [kpc EXCEPT ![p] = "off"] /\ phase' = [phase EXCEPT ![p] = "served"]
         ELSE kpc' = [kpc EXCEPT ![p] = "scan"] /\ UNCHANGED phase
    /\ UNCHANGED <<sreg0, sreg1, slot, list, threads, mainVars, history>>

\* CHECK_VALID_REQUEST on slot i
Scan(p) ==
    /\ kpc[p] = "scan"
    /\ IF ki[p] \notin Threads
         THEN kpc' = [kpc EXCEPT ![p] = "test0"] /\ UNCHANGED ki
         ELSE IF slot[p][ki[p]].bits.req
                THEN kpc' = [kpc EXCEPT ![p] = "serve"] /\ UNCHANGED ki
                ELSE ki' = [ki EXCEPT ![p] = @ + 1] /\ UNCHANGED kpc
    /\ UNCHANGED <<regs, slot, list, threads, mainVars, history>>

\* The while loop at one level: the last node before key k, from node n on
Before(p, l, n, k) ==
    LET walk[m \in Nodes] == IF k > next[p][l][m] THEN walk[next[p][l][m]] ELSE m IN walk[n]

\* preds: the search goes on at each level where the level above has ended.
Preds(p, k) ==
    LET pred[l \in 0..MaxLevel] == IF l = MaxLevel THEN Head ELSE Before(p, l, pred[l + 1], k)
    IN  [l \in Levels |-> pred[l]]

\* FAULT (not the code): the predecessor at the lowest level is used at all.
Add_OneLevel(p, k, level, pred) ==
    /\ next' = [next EXCEPT ![p] =
                  [l \in Levels |-> IF l < level
                                      THEN [next[p][l] EXCEPT ![pred[0]] = k, ![k] = next[p][l][pred[l]]]
                                      ELSE next[p][l]]]
    /\ top' = [top EXCEPT ![p][k] = level]
    /\ used' = [used EXCEPT ![p] = @ + 1]

Add(p, k, level, pred) ==
    /\ next' = [next EXCEPT ![p] =
                  [l \in Levels |-> IF l < level
                                      THEN [next[p][l] EXCEPT ![pred[l]] = k, ![k] = next[p][l][pred[l]]]
                                      ELSE next[p][l]]]
    /\ top' = [top EXCEPT ![p][k] = level]
    /\ used' = [used EXCEPT ![p] = @ + 1]

\* FAULT (not the code): the lowest level keeps the node.
Remove_Upper(p, k, pred) ==
    /\ next' = [next EXCEPT ![p] =
                  [l \in Levels |-> IF l \in 1..(top[p][k] - 1)
                                      THEN [next[p][l] EXCEPT ![pred[l]] = next[p][l][k], ![k] = Null]
                                      ELSE next[p][l]]]
    /\ UNCHANGED <<top, used>>

Remove(p, k, pred) ==
    /\ next' = [next EXCEPT ![p] =
                  [l \in Levels |-> IF l < top[p][k]
                                      THEN [next[p][l] EXCEPT ![pred[l]] = next[p][l][k], ![k] = Null]
                                      ELSE next[p][l]]]
    /\ UNCHANGED <<top, used>>

\* Search, execute and SET_RETVAL.  Without a free block the core writes a
\* node at address 0: nothing more is said about it.
Serve(p) ==
    LET t     == ki[p]
        op    == slot[p][t].bits.op
        k     == slot[p][t].param
        pred  == Preds(p, k)
        found == \E l \in Levels : next[p][l][pred[l]] = k
        ret   == IF op = "add" THEN ~found ELSE found
        wild  == op = "add" /\ ~found /\ used[p] = NumMemBlocks
    IN  /\ kpc[p] = "serve"
        /\ IF ret /\ op = "add" /\ ~wild THEN Add(p, k, slot[p][t].level, pred)
           ELSE IF ret /\ op = "remove" THEN Remove(p, k, pred)
           ELSE UNCHANGED list
        /\ slot' = IF wild THEN slot ELSE [slot EXCEPT ![p][t].bits = SetRetval(@, ret)]
        /\ call' = IF wild THEN call ELSE [call EXCEPT ![t].res = IF ret THEN "yes" ELSE "no"]
        /\ kpc' = [kpc EXCEPT ![p] = IF wild THEN "wild" ELSE "clear"]
        /\ UNCHANGED <<regs, ki, threads, mainVars, got>>

\* CLEAR_REQUEST
Clear(p) ==
    /\ kpc[p] = "clear"
    /\ slot' = [slot EXCEPT ![p][ki[p]].bits = ClearRequest(@)]
    /\ ki' = [ki EXCEPT ![p] = @ + 1] /\ kpc' = [kpc EXCEPT ![p] = "scan"]
    /\ UNCHANGED <<regs, list, threads, mainVars, history>>

Kernel(p) ==
    \/ Enter(p) \/ Test0(p) \/ ListInit(p) \/ InitDone(p) \/ Test3(p)
    \/ Scan(p) \/ Serve(p) \/ Clear(p)

-----------------------------------------------------------------------------
Finished == mainPc = "done" /\ UNCHANGED vars

Next == (\E t \in Threads : Thread(t)) \/ Main \/ (\E p \in Partitions : Kernel(p)) \/ Finished

Spec == Init /\ [][Next]_vars

\* Threads, main and the cores all keep running.
FairSpec ==
    /\ Spec /\ WF_vars(Main)
    /\ \A t \in Threads : WF_vars(Thread(t))
    /\ \A p \in Partitions : WF_vars(Kernel(p))

-----------------------------------------------------------------------------
TypeOK ==
    /\ sreg0 \in [Partitions -> {0, 1, 3, 4}] /\ sreg1 \in [Partitions -> BOOLEAN]
    /\ phase \in [Partitions -> {"idle", "called", "served"}]
    /\ next \in [Partitions -> [Levels -> [Nodes -> Nodes \cup {Null}]]]
    /\ \A p \in Partitions, n \in Nodes : top[p][n] \in 0..MaxLevel
    /\ ki \in [Partitions -> 0..(2 * Rounds)]
    /\ size \in 0..FillSize /\ mi \in Partitions

\* The nodes from n on at level l of core p
Chain(p, l) ==
    LET from[n \in Nodes] == IF next[p][l][n] = Null THEN {n} ELSE {n} \cup from[next[p][l][n]]
    IN  from[Head]

Content(p) == Chain(p, 0) \ {Head, Tail}

\* The skip list is one at every moment: at every level the nodes lead in
\* the order of their keys from the head to the tail, each level holds
\* exactly the nodes of the level below that are high enough, and all keys
\* belong to the partition.
WellFormed ==
    \A p \in Partitions : kpc[p] # "off" /\ sreg1[p] =>
        \A l \in Levels :
            /\ Tail \in Chain(p, l)
            /\ \A n \in Chain(p, l) \ {Tail} : n < next[p][l][n]
            /\ Chain(p, l) = {n \in Chain(p, 0) : top[p][n] > l}
            /\ \A k \in Content(p) : Part(k) = p

\* The threads see one set, although it is spread over the cores: an
\* operation takes effect when the core serves it, and the thread reads the
\* outcome of its own operation.
Set == INSTANCE LinearSet WITH
           Capacity <- Cardinality(Keys) + 1,
           content  <- UNION {Content(p) : p \in Partitions}

ImplementsSet == Set!Spec

\* The program runs all its rounds and all cores sleep at the end.
Terminates == <>(mainPc = "done" /\ \A p \in Partitions : phase[p] = "idle")
=============================================================================
