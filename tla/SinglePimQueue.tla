--------------------------- MODULE SinglePimQueue ---------------------------
(***************************************************************************)
(* The queue on a single PIM core (singlepim_queue.c): a circular buffer   *)
(* in the vault of the core, without a test for empty or full.  Host       *)
(* threads (multithread_pim_queue/main_singlepim.cc) publish enqueues and  *)
(* dequeues in turn, every other thread beginning with a dequeue.  One     *)
(* action is one access to a register, slot or buffer index that another   *)
(* program also uses; the core is started and closed by the calls of       *)
(* PimHandshake, represented by the phases of OffloadCall.                 *)
(***************************************************************************)
EXTENDS Integers, Sequences, FiniteSets

CONSTANTS
    Rounds,       \* rounds of main; round x runs 2x threads
    TotalOps,     \* TOTAL_NUM_OPS: operations of all threads of one round
    InitialSize,  \* INITIAL_Q_SIZE
    MaxIndex      \* MAX_INDEX: the items the buffer has room for

NumThreads == 2 * Rounds
Threads    == 0..(NumThreads - 1)

EnqFirst == {t \in Threads : t % 2 = 0}
DeqFirst == {t \in Threads : t % 2 = 1}

ASSUME RoundsAssumption == Rounds \in Nat \ {0} /\ TotalOps \in Nat /\ InitialSize \in Nat
                               /\ MaxIndex \in Nat \ {0}
\* "we assume that there is enough but not too big buffer between head and
\* tail": one item for each thread that begins with a dequeue, and room for
\* one more for each of the others.
ASSUME BufferAssumption ==
    /\ Cardinality(DeqFirst) <= InitialSize
    /\ InitialSize + Cardinality(EnqFirst) <= MaxIndex

VARIABLES
    sreg0,       \* PIM_SREG[0]: 0 off, 1 operations, 3 init
    phase,       \* the call that started the core, as in OffloadCall
    slot,        \* slot[t]: info_bits, the operation while the request bit is set
    param,       \* param[t]: the parameter field of the slot
    kpc, ki,     \* the kernel: its place and its index i
    buf, head, tail,            \* CURR_SEGMENT, HEAD_INDEX, TAIL_INDEX
    pc, count, numOps,          \* per thread: place, op_count; num_ops
    mainPc, size, round,        \* main and its counters
    call, got,   \* history: the open operation, what the latest returned
    len          \* history: enqueues served less dequeues served

regs     == <<sreg0, phase>>
slots    == <<slot, param>>
core     == <<kpc, ki>>
queue    == <<buf, head, tail, len>>
threads  == <<pc, count, numOps>>
mainVars == <<mainPc, size, round>>
history  == <<call, got>>
vars     == <<regs, slots, core, queue, threads, mainVars, history>>

NoItem   == <<>>
NoCall   == [op |-> "none", item |-> NoItem, done |-> FALSE]
Item(t)  == <<t, round, count[t]>>
MainItem == <<NumThreads, 0, size>>

Open(t, op, v) == call' = [call EXCEPT ![t] = [op |-> op, item |-> v, done |-> FALSE]]
Return(t, v)   == call' = [call EXCEPT ![t] = NoCall] /\ got' = [got EXCEPT ![t] = v]

Init ==
    /\ sreg0 = 0 /\ phase = "idle"
    /\ slot = [t \in Threads |-> "clear"]
    /\ param = [t \in Threads |-> NoItem]
    /\ kpc = "off" /\ ki = 0
    /\ buf = [i \in 0..(MaxIndex - 1) |-> NoItem] /\ head = 0 /\ tail = 0
    /\ pc = [t \in Threads |-> "begin"] /\ count = [t \in Threads |-> 0] /\ numOps = 0
    /\ mainPc = "init" /\ size = 0 /\ round = 0
    /\ call = [t \in Threads |-> NoCall] /\ got = [t \in Threads |-> NoItem] /\ len = 0

-----------------------------------------------------------------------------
(* ops_routine of thread t.                                                *)

\* FAULT (not the code): all threads begin with the same operation.
OpKind_SameStart(t) == IF count[t] % 2 = 1 THEN "enq" ELSE "deq"

\* (op_count + thread_id) % 2
OpKind(t) == IF (count[t] + t) % 2 = 0 THEN "enq" ELSE "deq"

Running(t) == mainPc = "join" /\ t < 2 * round /\ count[t] < numOps

WriteParameter(t) ==
    /\ pc[t] = "begin" /\ Running(t) /\ OpKind(t) = "enq"
    /\ param' = [param EXCEPT ![t] = Item(t)]
    /\ pc' = [pc EXCEPT ![t] = "request"]
    /\ Open(t, "enq", Item(t))
    /\ UNCHANGED <<regs, slot, core, queue, count, numOps, mainVars, got>>

\* SET_ENQ and SET_REQUEST, written to the slot
RequestEnq(t) ==
    /\ pc[t] = "request"
    /\ slot' = [slot EXCEPT ![t] = "enq"]
    /\ pc' = [pc EXCEPT ![t] = "poll"]
    /\ UNCHANGED <<regs, param, core, queue, count, numOps, mainVars, history>>

RequestDeq(t) ==
    /\ pc[t] = "begin" /\ Running(t) /\ OpKind(t) = "deq"
    /\ slot' = [slot EXCEPT ![t] = "deq"]
    /\ pc' = [pc EXCEPT ![t] = "poll"]
    /\ Open(t, "deq", NoItem)
    /\ UNCHANGED <<regs, param, core, queue, count, numOps, mainVars, got>>

\* The read_info_bits that ends the polling loop of an enqueue ...
PollEnq(t) ==
    /\ pc[t] = "poll" /\ OpKind(t) = "enq" /\ slot[t] = "clear"
    /\ count' = [count EXCEPT ![t] = @ + 1]
    /\ pc' = [pc EXCEPT ![t] = "begin"]
    /\ Return(t, Item(t))
    /\ UNCHANGED <<regs, slots, core, queue, numOps, mainVars>>

\* FAULT (not the code): the polling loop reads the slot only once.
PollDeq_Once(t) ==
    /\ pc[t] = "poll" /\ OpKind(t) = "deq"
    /\ pc' = [pc EXCEPT ![t] = "read"]
    /\ UNCHANGED <<regs, slots, core, queue, count, numOps, mainVars, history>>

\* ... and of a dequeue, which then reads the item.
PollDeq(t) ==
    /\ pc[t] = "poll" /\ OpKind(t) = "deq" /\ slot[t] = "clear"
    /\ pc' = [pc EXCEPT ![t] = "read"]
    /\ UNCHANGED <<regs, slots, core, queue, count, numOps, mainVars, history>>

ReadParameter(t) ==
    /\ pc[t] = "read"
    /\ count' = [count EXCEPT ![t] = @ + 1]
    /\ pc' = [pc EXCEPT ![t] = "begin"]
    /\ Return(t, param[t])
    /\ UNCHANGED <<regs, slots, core, queue, numOps, mainVars>>

Thread(t) ==
    \/ WriteParameter(t) \/ RequestEnq(t) \/ RequestDeq(t)
    \/ PollEnq(t) \/ PollDeq(t) \/ ReadParameter(t)

-----------------------------------------------------------------------------
(* main: initialize the core, fill the queue through slot 0, run rounds.   *)

\* write_sreg(0, mode) on a sleeping core, then start_computation
Start(mode) == phase = "idle" /\ phase' = "called" /\ sreg0' = mode

MainInit ==
    /\ mainPc = "init"
    /\ Start(3)
    /\ mainPc' = "waitInit"
    /\ UNCHANGED <<slots, core, queue, threads, size, round, history>>

\* wait_for_completion, after the initialization, the fill and each round
MainWait ==
    /\ mainPc \in {"waitInit", "waitOff"}
    /\ phase = "served" /\ phase' = "idle"
    /\ mainPc' = IF mainPc = "waitInit" THEN "open" ELSE "round"
    /\ UNCHANGED <<sreg0, slots, core, queue, threads, size, round, history>>

MainOpen ==
    /\ mainPc = "open"
    /\ Start(1)
    /\ mainPc' = "fill"
    /\ UNCHANGED <<slots, core, queue, threads, size, round, history>>

MainParameter ==
    /\ mainPc = "fill" /\ size < InitialSize
    /\ param' = [param EXCEPT ![0] = MainItem]
    /\ Open(0, "enq", MainItem)
    /\ mainPc' = "fillRequest"
    /\ UNCHANGED <<regs, slot, core, queue, threads, size, round, got>>

MainRequest ==
    /\ mainPc = "fillRequest"
    /\ slot' = [slot EXCEPT ![0] = "enq"]
    /\ mainPc' = "fillPoll"
    /\ UNCHANGED <<regs, param, core, queue, threads, size, round, history>>

MainPoll ==
    /\ mainPc = "fillPoll" /\ slot[0] = "clear"
    /\ size' = size + 1
    /\ Return(0, MainItem)
    /\ mainPc' = "fill"
    /\ UNCHANGED <<regs, slots, core, queue, threads, round>>

\* write_sreg(0,0) after the fill, and after the threads have been joined
MainOff ==
    /\ \/ mainPc = "fill" /\ size = InitialSize
       \/ mainPc = "join" /\ \A t \in Threads : t < 2 * round => pc[t] = "begin" /\ count[t] >= numOps
    /\ sreg0' = 0
    /\ mainPc' = "waitOff"
    /\ UNCHANGED <<phase, slots, core, queue, threads, size, round, history>>

\* The core is started and 2x threads are created and released.
MainRound ==
    /\ mainPc = "round" /\ round < Rounds
    /\ Start(1)
    /\ round' = round + 1
    /\ numOps' = TotalOps \div (2 * round')
    /\ count' = [t \in Threads |-> 0]
    /\ mainPc' = "join"
    /\ UNCHANGED <<slots, core, queue, pc, size, history>>

Main ==
    \/ MainInit \/ MainWait \/ MainOpen \/ MainParameter \/ MainRequest \/ MainPoll
    \/ MainOff \/ MainRound

-----------------------------------------------------------------------------
(* execute_kernel.                                                         *)

Enter ==
    /\ kpc = "off" /\ phase = "called"
    /\ kpc' = "test3"
    /\ UNCHANGED <<regs, slots, ki, queue, threads, mainVars, history>>

\* PIM_SREG[0] == 3
InitQueue ==
    /\ kpc = "test3" /\ sreg0 = 3
    /\ head' = 0 /\ tail' = 0
    /\ sreg0' = 0
    /\ UNCHANGED <<phase, slots, core, buf, len, threads, mainVars, history>>

\* PIM_SREG[0] is read again for each comparison.
Test3 ==
    /\ kpc = "test3" /\ sreg0 # 3
    /\ kpc' = "test1"
    /\ UNCHANGED <<regs, slots, ki, queue, threads, mainVars, history>>

Test1 ==
    /\ kpc = "test1"
    /\ kpc' = IF sreg0 = 1 THEN "scan" ELSE "test0"
    /\ ki' = 0
    /\ UNCHANGED <<regs, slots, queue, threads, mainVars, history>>

\* FAULT (not the code): the loop does not end.
Test0_Loop ==
    /\ kpc = "test0"
    /\ kpc' = "test3"
    /\ UNCHANGED <<regs, slots, ki, queue, threads, mainVars, history>>

Test0 ==
    /\ kpc = "test0"
    /\ IF sreg0 = 0 THEN kpc' = "off" /\ phase' = "served"
                    ELSE kpc' = "test3" /\ UNCHANGED phase
    /\ UNCHANGED <<sreg0, slots, ki, queue, threads, mainVars, history>>

\* CHECK_VALID_REQUEST on slot i
Scan ==
    /\ kpc = "scan"
    /\ IF ki = NumThreads
         THEN kpc' = "test3" /\ UNCHANGED ki
         ELSE IF slot[ki] # "clear" THEN kpc' = "serve" /\ UNCHANGED ki
                                ELSE ki' = ki + 1 /\ UNCHANGED kpc
    /\ UNCHANGED <<regs, slots, queue, threads, mainVars, history>>

Bump(i) == IF i + 1 >= MaxIndex THEN 0 ELSE i + 1

\* parameter = CURR_SEGMENT[HEAD_INDEX]; HEAD_INDEX++
ServeDeq ==
    /\ kpc = "serve" /\ slot[ki] = "deq"
    /\ param' = [param EXCEPT ![ki] = buf[head]]
    /\ head' = Bump(head)
    /\ len' = len - 1
    /\ call' = [call EXCEPT ![ki] = [op |-> @.op, item |-> buf[head], done |-> TRUE]]
    /\ kpc' = "reply"
    /\ UNCHANGED <<regs, slot, ki, buf, tail, threads, mainVars, got>>

\* CURR_SEGMENT[TAIL_INDEX] = parameter; TAIL_INDEX++
ServeEnq ==
    /\ kpc = "serve" /\ slot[ki] = "enq"
    /\ buf' = [buf EXCEPT ![tail] = param[ki]]
    /\ tail' = Bump(tail)
    /\ len' = len + 1
    /\ call' = [call EXCEPT ![ki] = [op |-> @.op, item |-> @.item, done |-> TRUE]]
    /\ kpc' = "reply"
    /\ UNCHANGED <<regs, slots, ki, head, threads, mainVars, got>>

\* CLEAR_REQUEST
Reply ==
    /\ kpc = "reply"
    /\ slot' = [slot EXCEPT ![ki] = "clear"]
    /\ ki' = ki + 1 /\ kpc' = "scan"
    /\ UNCHANGED <<regs, param, queue, threads, mainVars, history>>

Kernel ==
    \/ Enter \/ InitQueue \/ Test3 \/ Test1 \/ Test0 \/ Scan \/ ServeDeq \/ ServeEnq \/ Reply

-----------------------------------------------------------------------------
Finished == mainPc = "round" /\ round = Rounds /\ UNCHANGED vars

Next == (\E t \in Threads : Thread(t)) \/ Main \/ Kernel \/ Finished

Spec == Init /\ [][Next]_vars

\* Threads, main and the core all keep running.
FairSpec == Spec /\ (\A t \in Threads : WF_vars(Thread(t))) /\ WF_vars(Main) /\ WF_vars(Kernel)

-----------------------------------------------------------------------------
Items == (0..NumThreads) \X (0..Rounds) \X (0..(InitialSize + TotalOps))

TypeOK ==
    /\ sreg0 \in {0, 1, 3} /\ phase \in {"idle", "called", "served"}
    /\ slot \in [Threads -> {"clear", "enq", "deq"}]
    /\ kpc \in {"off", "test3", "test1", "test0", "scan", "serve", "reply"}
    /\ ki \in 0..NumThreads
    /\ head \in 0..(MaxIndex - 1) /\ tail \in 0..(MaxIndex - 1)
    /\ pc \in [Threads -> {"begin", "request", "poll", "read"}]
    /\ count \in [Threads -> Nat] /\ numOps \in Nat
    /\ mainPc \in {"init", "waitInit", "open", "fill", "fillRequest", "fillPoll",
                   "waitOff", "round", "join"}
    /\ size \in 0..InitialSize /\ round \in 0..Rounds

\* The comment on the wrap-around of the kernel, "we assume that there is
\* enough but not too big buffer between head and tail": the queue that is
\* served is never empty at a dequeue and never full at an enqueue, in any
\* order in which the threads reach the core and in every round, although the
\* kernel tests for neither.
NeverEmptyNorFull ==
    kpc = "serve" => IF slot[ki] = "enq" THEN len < MaxIndex ELSE len > 0

\* The host threads see one first-in first-out queue: an operation takes
\* effect when the kernel serves it.
Wrap(i)  == IF i >= MaxIndex THEN i - MaxIndex ELSE i
Contents == [k \in 1..len |-> buf[Wrap(head + k - 1)]]

Queue == INSTANCE LinearQueue WITH
           InitialItems <- <<>>, queue <- Contents, seen <- [t \in Threads |-> FALSE]

ImplementsQueue == Queue!Spec

\* The program runs all its rounds and the core sleeps at the end.
Terminates == <>(mainPc = "round" /\ round = Rounds /\ phase = "idle")
=============================================================================
