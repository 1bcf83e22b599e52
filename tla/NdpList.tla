------------------------------ MODULE NdpList -------------------------------
(***************************************************************************)
(* The concurrent sorted list of the near-data-processing experiments: host*)
(* threads (multithread_nonstop_pim_linkedlist/main.cc) publish operations *)
(* in per-thread request slots of the PIM core's vector register file, and *)
(* a kernel that never stops (clean_linked_list.c) gathers the slots that  *)
(* are valid, sorts them by key and applies them in one pass over the list.*)
(*                                                                         *)
(* One action is one access to a register or a slot that the other side    *)
(* also uses.  The list lives in the private vault of the PIM core, so the *)
(* steps on it are as fine as the loops of the kernel and no finer.  The   *)
(* level-0 links of the skip-list nodes are the list; the higher links     *)
(* only speed up the search of the initial adds and are left out.  Of the  *)
(* order of the free list only its head is kept: HeadBlock and TailBlock   *)
(* are what list_init allocates first.                                     *)
(***************************************************************************)
EXTENDS Integers, FiniteSets

CONSTANTS
    NumThreads,    \* NUM_HOST_THREADS: request slots, one per thread
    MaxKey,        \* keys are 1..MaxKey (KEY_LOWER_BOUND is 1)
    Blocks,        \* the memory blocks of the vault
    HeadBlock, TailBlock,  \* the two blocks at the head of the new free list
    InitialKeys,   \* the distinct keys main adds before the threads start
    OpsPerThread,  \* operations of one thread in one round
    Rounds,        \* rounds of threads that main starts and joins
    SlowSpawn,     \* TRUE: creating threads takes main longer than the kernel
                   \* takes from testing PIM_SREG[0] == 3 to testing slot 0
    Null           \* the null pointer

Threads == 0..(NumThreads - 1)
Keys    == 1..MaxKey

ASSUME ThreadsAssumption == NumThreads \in Nat \ {0}
ASSUME KeysAssumption == MaxKey \in Nat /\ InitialKeys \subseteq Keys
\* The vault holds the two sentinels and the initial keys.
ASSUME BlocksAssumption ==
    /\ IsFiniteSet(Blocks)
    /\ Null \notin Blocks
    /\ HeadBlock \in Blocks /\ TailBlock \in Blocks \ {HeadBlock}
    /\ Cardinality(InitialKeys) + 2 <= Cardinality(Blocks)
ASSUME BoundsAssumption == OpsPerThread \in Nat /\ Rounds \in Nat /\ SlowSpawn \in BOOLEAN

VARIABLES
    sreg0,    \* PIM_SREG[0]: 0 init, 1 list operations, 3 initial adds, 4 terminate
    ready,    \* PIM_SREG[1] # 0: list_init has completed
    slot,     \* slot[t]: info_bits of request slot t
    param,    \* param[t]: the parameter field of request slot t
    mainPc,   \* where main is
    todo,     \* initial keys that main has still to add
    round,    \* rounds that main has started
    pc,       \* pc[t]: where thread t is in LINKED_LIST_OPERATION
    info,     \* info[t]: the thread's own copy of info_bits
    req,      \* req[t]: the operation and key it is asking for
    ops,      \* ops[t]: operations started in this round
    got,      \* got[t]: pim_res, what the latest operation returned
    pimPc,    \* where the kernel is
    head, tail, key, next, free,     \* the list and the free blocks
    gi,       \* the index of the gathering loop
    batch,    \* gathered slots that are not served yet
    rank,     \* rank[t]: the key by which the sort has placed slot t
    cur,      \* the slot being served
    pred, curr,                      \* the two cursors of the pass
    opType, arg, retval,             \* op_type, param and retval of the kernel
    outcome   \* history: what the kernel decided for the open operation of t

regs     == <<sreg0, ready>>
slots    == <<slot, param>>
mainVars == <<mainPc, todo, round>>
threads  == <<pc, info, req, ops, got>>
list     == <<head, tail, key, next, free>>
pass     == <<gi, batch, rank, cur, pred, curr, opType, arg, retval>>
vars     == <<regs, slots, mainVars, threads, pimPc, list, pass, outcome>>

OpTypes == {"none", "add", "remove", "contains"}
NoInfo  == [valid |-> FALSE, op |-> "none", ret |-> FALSE]

\* The macros of defs.hh on info_bits.
SET_OPERATION(i, op) == [valid |-> FALSE, op |-> op, ret |-> FALSE]
SET_REQUEST(i)       == [i EXCEPT !.valid = TRUE]
SET_RETVAL(i, ret)   == [i EXCEPT !.ret = @ \/ ret]
CLEAR_REQUEST(i)     == [i EXCEPT !.valid = FALSE]

FreeLink == MaxKey + 1      \* the link of a free block overlays its key field
Top      == MaxKey + 2      \* UINT32_MAX, the key of the tail sentinel

\* Blocks that the free list does not hold.
Nodes == Blocks \ free

Init ==
    /\ sreg0 = 0 /\ ready = FALSE
    /\ slot = [t \in Threads |-> NoInfo]
    /\ param = [t \in Threads |-> 0]
    /\ mainPc = "start" /\ todo = InitialKeys /\ round = 0
    /\ pc = [t \in Threads |-> "ready"]
    /\ info = [t \in Threads |-> NoInfo]
    /\ req = [t \in Threads |-> [op |-> "none", key |-> 0]]
    /\ ops = [t \in Threads |-> 0]
    /\ got = [t \in Threads |-> FALSE]
    /\ pimPc = "off"
    /\ head = Null /\ tail = Null
    /\ key = [b \in Blocks |-> 0]
    /\ next = [b \in Blocks |-> Null]
    /\ free = Blocks
    /\ gi = 0 /\ batch = {} /\ rank = [t \in Threads |-> 0] /\ cur = 0
    /\ pred = Null /\ curr = Null
    /\ opType = "none" /\ arg = 0 /\ retval = FALSE
    /\ outcome = [t \in Threads |-> "open"]

-----------------------------------------------------------------------------
(* LINKED_LIST_OPERATION(op, k) of thread t, one slot access per action.   *)

\* write_parameter; the caller of Invoke accounts for mainVars and ops.
Invoke(t, op, k) ==
    /\ pc[t] = "ready"
    /\ param' = [param EXCEPT ![t] = k]
    /\ req' = [req EXCEPT ![t] = [op |-> op, key |-> k]]
    /\ pc' = [pc EXCEPT ![t] = "setOp"]
    /\ UNCHANGED <<regs, slot, info, got, pimPc, list, pass, outcome>>

\* FAULT (not the code): the slot becomes valid with its operation, before the
\* last write.
SetOperation_Valid(t) ==
    /\ pc[t] = "setOp"
    /\ info' = [info EXCEPT ![t] = SET_REQUEST(SET_OPERATION(@, req[t].op))]
    /\ slot' = [slot EXCEPT ![t] = info'[t]]
    /\ pc' = [pc EXCEPT ![t] = "publish"]
    /\ UNCHANGED <<regs, param, mainVars, req, ops, got, pimPc, list, pass, outcome>>

\* SET_OPERATION clears the bits of the previous request and sets the new
\* operation; the copy is written to the slot.
SetOperation(t) ==
    /\ pc[t] = "setOp"
    /\ info' = [info EXCEPT ![t] = SET_OPERATION(@, req[t].op)]
    /\ slot' = [slot EXCEPT ![t] = info'[t]]
    /\ pc' = [pc EXCEPT ![t] = "publish"]
    /\ UNCHANGED <<regs, param, mainVars, req, ops, got, pimPc, list, pass, outcome>>

\* SET_REQUEST sets the valid bit of the copy; the copy is written again.
SetRequest(t) ==
    /\ pc[t] = "publish"
    /\ info' = [info EXCEPT ![t] = SET_REQUEST(@)]
    /\ slot' = [slot EXCEPT ![t] = info'[t]]
    /\ pc' = [pc EXCEPT ![t] = "poll"]
    /\ UNCHANGED <<regs, param, mainVars, req, ops, got, pimPc, list, pass, outcome>>

\* FAULT (not the code): the thread does not wait for the valid bit to clear.
Poll_NoWait(t) ==
    /\ pc[t] = "poll"
    /\ info' = [info EXCEPT ![t] = slot[t]]
    /\ pc' = [pc EXCEPT ![t] = "ready"]
    /\ got' = [got EXCEPT ![t] = slot[t].ret]
    /\ req' = [req EXCEPT ![t] = [op |-> "none", key |-> 0]]
    /\ outcome' = [outcome EXCEPT ![t] = "open"]
    /\ UNCHANGED <<regs, slots, mainVars, ops, pimPc, list, pass>>

\* One read_info_bits of the waiting loop, and GET_RETVAL when it ends.
Poll(t) ==
    /\ pc[t] = "poll"
    /\ info' = [info EXCEPT ![t] = slot[t]]
    /\ IF slot[t].valid
         THEN UNCHANGED <<pc, req, got, outcome>>
         ELSE /\ pc' = [pc EXCEPT ![t] = "ready"]
              /\ got' = [got EXCEPT ![t] = slot[t].ret]
              /\ req' = [req EXCEPT ![t] = [op |-> "none", key |-> 0]]
              /\ outcome' = [outcome EXCEPT ![t] = "open"]
    /\ UNCHANGED <<regs, slots, mainVars, ops, pimPc, list, pass>>

\* A thread of linkedlist_ops_routine takes its next operation.
ThreadOperation(t, op, k) ==
    /\ mainPc = "join"
    /\ ops[t] < OpsPerThread
    /\ Invoke(t, op, k)
    /\ ops' = [ops EXCEPT ![t] = @ + 1]
    /\ UNCHANGED mainVars

Thread(t) ==
    \/ \E op \in OpTypes \ {"none"}, k \in Keys : ThreadOperation(t, op, k)
    \/ SetOperation(t)
    \/ SetRequest(t)
    \/ Poll(t)

-----------------------------------------------------------------------------
(* main: set the PIM up, fill the list, run the rounds, terminate the PIM. *)

\* SREG[1] and SREG[0] are reset while the core sleeps; start_computation.
MainStart ==
    /\ mainPc = "start"
    /\ ready' = FALSE /\ sreg0' = 0
    /\ pimPc' = "is0"
    /\ mainPc' = "waitInit"
    /\ UNCHANGED <<slots, todo, round, threads, list, pass, outcome>>

MainWaitInit ==
    /\ mainPc = "waitInit"
    /\ ready
    /\ mainPc' = "fill"
    /\ UNCHANGED <<regs, slots, todo, round, threads, pimPc, list, pass, outcome>>

\* main adds the initial keys through slot 0, one after the other, in the
\* order of an unordered_map.
MainFill(k) ==
    /\ mainPc = "fill"
    /\ k \in todo
    /\ Invoke(0, "add", k)
    /\ todo' = todo \ {k}
    /\ UNCHANGED <<mainPc, round, ops>>

\* write_sreg(0,1)
MainSetOpsMode ==
    /\ mainPc = "fill"
    /\ todo = {} /\ pc[0] = "ready"
    /\ sreg0' = 1
    /\ mainPc' = "spawn"
    /\ UNCHANGED <<ready, slots, todo, round, threads, pimPc, list, pass, outcome>>

\* The first n threads are created for a round (the code grows n from round
\* to round), each with a cleared request_slot.
MainSpawn(n) ==
    /\ mainPc = "spawn"
    /\ round < Rounds
    /\ SlowSpawn => pimPc # "fill"
    /\ round' = round + 1
    /\ info' = [t \in Threads |-> NoInfo]
    /\ ops' = [t \in Threads |-> IF t < n THEN 0 ELSE OpsPerThread]
    /\ mainPc' = "join"
    /\ UNCHANGED <<regs, slots, todo, pc, req, got, pimPc, list, pass, outcome>>

MainJoin ==
    /\ mainPc = "join"
    /\ \A t \in Threads : pc[t] = "ready" /\ ops[t] = OpsPerThread
    /\ mainPc' = "spawn"
    /\ UNCHANGED <<regs, slots, todo, round, threads, pimPc, list, pass, outcome>>

\* write_sreg(0,4)
MainTerminate ==
    /\ mainPc = "spawn"
    /\ round = Rounds
    /\ sreg0' = 4
    /\ mainPc' = "wait"
    /\ UNCHANGED <<ready, slots, todo, round, threads, pimPc, list, pass, outcome>>

\* wait_for_completion
MainWait ==
    /\ mainPc = "wait"
    /\ pimPc = "off"
    /\ mainPc' = "end"
    /\ UNCHANGED <<regs, slots, todo, round, threads, pimPc, list, pass, outcome>>

Main ==
    \/ MainStart
    \/ MainWaitInit
    \/ \E k \in todo : MainFill(k)
    \/ MainSetOpsMode
    \/ \E n \in 1..NumThreads : MainSpawn(n)
    \/ MainJoin
    \/ MainTerminate
    \/ MainWait

-----------------------------------------------------------------------------
(* The kernel: execute_kernel with kernel_fc_with_sort_nonstop.  The loop  *)
(* reads PIM_SREG[0] anew for every comparison.                            *)

Jump(there) == pimPc' = there /\ UNCHANGED <<slots, mainVars, threads>>

TestInit ==
    /\ pimPc = "is0"
    /\ Jump(IF sreg0 = 0 THEN "init" ELSE "is3")
    /\ UNCHANGED <<regs, list, pass, outcome>>

\* list_init frees all blocks, takes the first two for the sentinels and
\* announces its end in PIM_SREG[1] ...
ListInit ==
    /\ pimPc = "init"
    /\ head' = HeadBlock /\ tail' = TailBlock
    /\ free' = Blocks \ {HeadBlock, TailBlock}
    /\ key' = [[b \in Blocks |-> FreeLink] EXCEPT ![HeadBlock] = 0, ![TailBlock] = Top]
    /\ next' = [next EXCEPT ![HeadBlock] = TailBlock, ![TailBlock] = Null]
    /\ ready' = TRUE
    /\ Jump("initDone")
    /\ UNCHANGED <<sreg0, pass, outcome>>

\* ... before the kernel selects the mode of the initial adds.
SetFillMode ==
    /\ pimPc = "initDone"
    /\ sreg0' = 3
    /\ Jump("is0")
    /\ UNCHANGED <<ready, list, pass, outcome>>

TestFill ==
    /\ pimPc = "is3"
    /\ Jump(IF sreg0 = 3 THEN "fill" ELSE "is4")
    /\ UNCHANGED <<regs, list, pass, outcome>>

\* FAULT (not the code): the initial adds are looked for in the last slot.
FillCheck_Last ==
    /\ pimPc = "fill"
    /\ Jump(IF slot[NumThreads - 1].valid THEN "fillAdd" ELSE "is0")
    /\ UNCHANGED <<regs, list, pass, outcome>>

\* Initial adds look at slot 0 only.
FillCheck ==
    /\ pimPc = "fill"
    /\ Jump(IF slot[0].valid THEN "fillAdd" ELSE "is0")
    /\ UNCHANGED <<regs, list, pass, outcome>>

\* new_node gets the key k between p and its successor c.
Insert(b, k, p, c) ==
    /\ free' = free \ {b}
    /\ key' = [key EXCEPT ![b] = k]
    /\ next' = [next EXCEPT ![b] = c, ![p] = b]
    /\ UNCHANGED <<head, tail>>

\* History: the kernel decides the operation of slot t.
Decide(t, success) == outcome' = [outcome EXCEPT ![t] = IF success THEN "yes" ELSE "no"]

\* The search over the levels ends at the last node with a smaller key.  The
\* result of the allocation is not checked: with no free block left the node
\* would be written through the null pointer.
FillAdd ==
    /\ pimPc = "fillAdd"
    /\ \E p \in Nodes \ {tail} :
         /\ key[p] < param[0] /\ param[0] <= key[next[p]]
         /\ IF key[next[p]] = param[0]
              THEN retval' = FALSE /\ UNCHANGED list
              ELSE retval' = TRUE /\ \E b \in free : Insert(b, param[0], p, next[p])
    /\ cur' = 0 /\ batch' = {}
    /\ Decide(0, retval')
    /\ Jump("setRetval")
    /\ UNCHANGED <<regs, gi, rank, pred, curr, opType, arg>>

\* Modes 4 and above end the kernel; command_done then answers the host.
TestTerminate ==
    /\ pimPc = "is4"
    /\ Jump(IF sreg0 >= 4 THEN "off" ELSE "gather")
    /\ gi' = 0 /\ batch' = {}
    /\ UNCHANGED <<regs, list, rank, cur, pred, curr, opType, arg, retval, outcome>>

\* One round of the loop that gathers the valid requests.
Gather ==
    /\ pimPc = "gather"
    /\ batch' = IF slot[gi].valid THEN batch \cup {gi} ELSE batch
    /\ gi' = IF gi + 1 < NumThreads THEN gi + 1 ELSE 0
    /\ Jump(IF gi + 1 < NumThreads THEN "gather" ELSE "sort")
    /\ UNCHANGED <<regs, list, rank, cur, pred, curr, opType, arg, retval, outcome>>

\* quicksort orders the gathered slots by the parameters it reads now; the
\* cursors go back to the head of the list.
Sort ==
    /\ pimPc = "sort"
    /\ rank' = param
    /\ pred' = head /\ curr' = next[head]
    /\ Jump("next")
    /\ UNCHANGED <<regs, list, gi, batch, cur, opType, arg, retval, outcome>>

\* FAULT (not the code): the batch is served without being sorted.
NextRequest_Unsorted ==
    /\ pimPc = "next"
    /\ \E t \in batch :
         /\ cur' = t
         /\ batch' = batch \ {t}
         /\ opType' = slot[t].op
         /\ arg' = param[t]
    /\ retval' = FALSE
    /\ Jump("seek")
    /\ UNCHANGED <<regs, list, gi, rank, pred, curr, outcome>>

\* The next request in the order of the sort, which leaves the order of equal
\* keys open; its operation and parameter are read from the slot again.
NextRequest ==
    /\ pimPc = "next"
    /\ \E t \in batch :
         /\ \A u \in batch : rank[t] <= rank[u]
         /\ cur' = t
         /\ batch' = batch \ {t}
         /\ opType' = slot[t].op
         /\ arg' = param[t]
    /\ retval' = FALSE
    /\ Jump("seek")
    /\ UNCHANGED <<regs, list, gi, rank, pred, curr, outcome>>

\* The batch is served.  The locals of the pass are dead until the next Sort
\* or FillAdd assigns them; they are forgotten here.
BatchDone ==
    /\ pimPc = "next"
    /\ batch = {}
    /\ Jump("is0")
    /\ rank' = [t \in Threads |-> 0] /\ cur' = 0
    /\ pred' = Null /\ curr' = Null
    /\ opType' = "none" /\ arg' = 0 /\ retval' = FALSE
    /\ UNCHANGED <<regs, list, gi, batch, outcome>>

\* One test of the loop that moves the cursors to the key.
Seek ==
    /\ pimPc = "seek"
    /\ IF key[curr] < arg
         THEN Jump("seek") /\ pred' = curr /\ curr' = next[curr]
         ELSE Jump("apply") /\ UNCHANGED <<pred, curr>>
    /\ UNCHANGED <<regs, list, gi, batch, rank, cur, opType, arg, retval, outcome>>

ApplyContains ==
    /\ opType = "contains"
    /\ retval' = (key[curr] = arg)
    /\ UNCHANGED <<list, curr>>

\* FAULT (not the code): curr_node is not moved to the node just inserted.
ApplyAdd_StaleCursor ==
    /\ opType = "add"
    /\ IF key[curr] # arg /\ free # {}
         THEN /\ \E b \in free : Insert(b, arg, pred, curr) /\ curr' = curr
              /\ retval' = TRUE
         ELSE retval' = FALSE /\ UNCHANGED <<list, curr>>

\* alloc_memory_block returns 0 when no block is free: the add then fails.
ApplyAdd ==
    /\ opType = "add"
    /\ IF key[curr] # arg /\ free # {}
         THEN /\ \E b \in free : Insert(b, arg, pred, curr) /\ curr' = b
              /\ retval' = TRUE
         ELSE retval' = FALSE /\ UNCHANGED <<list, curr>>

ApplyRemove ==
    /\ opType = "remove"
    /\ IF key[curr] = arg
         THEN /\ next' = [next EXCEPT ![pred] = next[curr]]
              /\ free' = free \cup {curr}
              /\ key' = [key EXCEPT ![curr] = FreeLink]
              /\ curr' = next[curr]
              /\ retval' = TRUE
              /\ UNCHANGED <<head, tail>>
         ELSE retval' = FALSE /\ UNCHANGED <<list, curr>>

Apply ==
    /\ pimPc = "apply"
    /\ ApplyContains \/ ApplyAdd \/ ApplyRemove
    /\ Decide(cur, retval')
    /\ Jump("setRetval")
    /\ UNCHANGED <<regs, gi, batch, rank, cur, pred, opType, arg>>

\* SET_RETVAL can only set the bit.
SetRetval ==
    /\ pimPc = "setRetval"
    /\ slot' = [slot EXCEPT ![cur] = SET_RETVAL(@, retval)]
    /\ pimPc' = "clear"
    /\ UNCHANGED <<regs, param, mainVars, threads, list, pass, outcome>>

\* CLEAR_REQUEST hands the slot back to its thread.
ClearRequest ==
    /\ pimPc = "clear"
    /\ slot' = [slot EXCEPT ![cur] = CLEAR_REQUEST(@)]
    /\ pimPc' = "next"
    /\ UNCHANGED <<regs, param, mainVars, threads, list, pass, outcome>>

Pim ==
    \/ TestInit \/ ListInit \/ SetFillMode
    \/ TestFill \/ FillCheck \/ FillAdd
    \/ TestTerminate \/ Gather \/ Sort
    \/ NextRequest \/ BatchDone \/ Seek \/ Apply
    \/ SetRetval \/ ClearRequest

-----------------------------------------------------------------------------
Finished == mainPc = "end" /\ UNCHANGED vars

Next ==
    \/ \E t \in Threads : Thread(t)
    \/ Main
    \/ Pim
    \/ Finished

Spec == Init /\ [][Next]_vars

\* Threads, main and the kernel all keep running; none of them ever stops
\* inside its loop.
FairSpec ==
    /\ Spec
    /\ \A t \in Threads : WF_vars(Thread(t))
    /\ WF_vars(Main)
    /\ WF_vars(Pim)

-----------------------------------------------------------------------------
MainPcs == {"start", "waitInit", "fill", "spawn", "join", "wait", "end"}
PimPcs  == {"off", "is0", "init", "initDone", "is3", "fill", "fillAdd", "is4", "gather",
            "sort", "next", "seek", "apply", "setRetval", "clear"}
Infos   == [valid : BOOLEAN, op : OpTypes, ret : BOOLEAN]

TypeOK ==
    /\ sreg0 \in {0, 1, 3, 4} /\ ready \in BOOLEAN
    /\ slot \in [Threads -> Infos]
    /\ param \in [Threads -> Keys \cup {0}]
    /\ mainPc \in MainPcs /\ todo \subseteq InitialKeys /\ round \in 0..Rounds
    /\ pc \in [Threads -> {"ready", "setOp", "publish", "poll"}]
    /\ info \in [Threads -> Infos]
    /\ req \in [Threads -> [op : OpTypes, key : Keys \cup {0}]]
    /\ ops \in [Threads -> 0..OpsPerThread]
    /\ got \in [Threads -> BOOLEAN]
    /\ pimPc \in PimPcs
    /\ head \in Blocks \cup {Null} /\ tail \in Blocks \cup {Null}
    /\ key \in [Blocks -> 0..Top]
    /\ next \in [Blocks -> Blocks \cup {Null}]
    /\ free \subseteq Blocks
    /\ gi \in Threads /\ batch \subseteq Threads /\ cur \in Threads
    /\ rank \in [Threads -> Keys \cup {0}]
    /\ pred \in Blocks \cup {Null} /\ curr \in Blocks \cup {Null}
    /\ opType \in OpTypes /\ arg \in Keys \cup {0} /\ retval \in BOOLEAN
    /\ outcome \in [Threads -> {"open", "yes", "no"}]

Initialized == pimPc # "init" /\ ready

\* The slot protocol: while the valid bit of a slot is set its thread only
\* waits, and the slot holds exactly what that thread asked for, although the
\* parameter, the operation and the valid bit are written one by one and the
\* kernel reads them one by one, some of them twice.
RequestStable ==
    /\ \A t \in Threads : slot[t].valid =>
         /\ pc[t] = "poll"
         /\ slot[t].op = req[t].op /\ param[t] = req[t].key
    /\ \A t \in batch : slot[t].valid
    /\ pimPc \in {"seek", "apply"} => opType = req[cur].op /\ arg = req[cur].key

\* Every node but the tail points to the node with the next larger key, and no
\* two nodes have the same key.
Sorted ==
    /\ head \in Nodes /\ tail \in Nodes
    /\ key[head] = 0 /\ key[tail] = Top
    /\ \A n \in Nodes \ {tail} :
         /\ next[n] \in Nodes
         /\ key[n] < key[next[n]]
         /\ \A m \in Nodes \ {n} : key[m] < key[n] \/ key[next[n]] <= key[m]

\* The list is sorted, holds every block that is not free, and no free block:
\* the pass over a batch never loses, duplicates or leaks a node, and a removed
\* node is never reached again.
ListSorted == Initialized => Sorted

\* The host threads see a linearizable set: the operation of a slot takes
\* effect when the kernel applies it, and the value the thread reads from the
\* return bit is the outcome at that point.
content == IF Initialized THEN {key[n] : n \in Nodes \ {head, tail}} ELSE {}
calls   == [t \in Threads |-> [op |-> req[t].op, key |-> req[t].key, res |-> outcome[t]]]

Set == INSTANCE LinearSet WITH
         Capacity <- Cardinality(Blocks) - 2, content <- content, call <- calls, got <- got

ImplementsLinearSet == Set!Spec

\* The mode that main selects after the initial adds is not overwritten by
\* the kernel's own write of PIM_SREG[0] at the end of its initialization.
OpsModeKept == mainPc \in {"spawn", "join"} => sreg0 = 1

\* clean_linked_list.c on PIM_SREG[0]: "1 == linked list operation", "3 == add
\* initial nodes".  Only an add is ever served as an initial add.
FillServesAdds == pimPc = "fillAdd" => req[0].op = "add"

\* Every published request is answered.
RequestsServed == \A t \in Threads : pc[t] = "publish" ~> pc[t] = "ready"
=============================================================================
