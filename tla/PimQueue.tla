------------------------------ MODULE PimQueue ------------------------------
(***************************************************************************)
(* The partitioned queue: a ring of PIM cores (clean_queue.c), each with   *)
(* one segment of the queue in its vault.  Host threads                    *)
(* (multithread_pim_queue/main.cc) publish an operation in their slot of   *)
(* the core at enq_part or deq_part.  The request that fills or empties a  *)
(* segment makes its thread move the partition on: it starts the next core *)
(* and closes the old one, while other threads may still be asking the old *)
(* one.                                                                    *)
(*                                                                         *)
(* One action is one access to a register, slot or variable that another   *)
(* program also uses.  A core is started and closed by the calls of        *)
(* PimHandshake, represented by the phases of OffloadCall.                 *)
(***************************************************************************)
EXTENDS Integers, Sequences, FiniteSets

CONSTANTS
    NumThreads,      \* NUM_HOST_THREADS
    NumPartitions,   \* NUM_PARTITIONS
    SegmentItems,    \* MAX_SEGMENT_ITEMS
    InitialSize,     \* INITIAL_Q_SIZE
    OpsPerThread,    \* operations of one thread in one round
    Rounds,          \* rounds of threads that main starts and joins
    PromptHandOver   \* TRUE: when a partition comes round again its core has
                     \* gone to sleep and no thread is still asking it

Threads    == 0..(NumThreads - 1)
Partitions == 0..(NumPartitions - 1)
Kinds      == {"enq", "deq"}

ASSUME SizesAssumption ==
    /\ NumThreads \in Nat \ {0} /\ NumPartitions \in Nat \ {0} /\ SegmentItems \in Nat \ {0}
    /\ InitialSize \in Nat /\ InitialSize < NumPartitions * SegmentItems
ASSUME BoundsAssumption == OpsPerThread \in Nat /\ Rounds \in Nat /\ PromptHandOver \in BOOLEAN

VARIABLES
    part,    \* enq_part and deq_part, as part["enq"] and part["deq"]
    sreg0,   \* sreg0[p]: PIM_SREG[0], 0 off, 1 enq, 2 deq, 3 init
    slot,    \* slot[p][t]: the request and PIM bits of info_bits
    param,   \* param[p][t]: the parameter field of the slot
    phase,   \* phase[p]: the call that started core p, as in OffloadCall
    kpc, kmode, ki,      \* per core: place in the kernel, its branch, its index i
    seg, head, tail,     \* per core: the segment, HEAD_INDEX, TAIL_INDEX
    pc, kind, curr, info, count,  \* per thread: place, branch, curr_*_part, info_bits, op_count
    mainPc, mainPart, mainKind, size, round,  \* main and its counters
    call, got            \* history: the open operation, what the latest returned

regs     == <<part, sreg0, slot, param, phase>>
cores    == <<kpc, kmode, ki, seg, head, tail>>
threads  == <<pc, kind, curr, info, count>>
mainVars == <<mainPc, mainPart, mainKind, size, round>>
history  == <<call, got>>
vars     == <<regs, cores, threads, mainVars, history>>

NoItem == <<>>
NoCall == [op |-> "none", item |-> NoItem, done |-> FALSE]

\* rand_keys[op_count] of a thread and the random item main adds.  Keys are
\* told apart here so that a lost or repeated item shows.
Item(t)  == <<t, round, count[t]>>
MainItem == <<NumThreads, 0, size>>

Mode(k) == IF k = "enq" THEN 1 ELSE 2
GET_NEXT_PARTITION(p) == (p + 1) % NumPartitions

Init ==
    /\ part = [k \in Kinds |-> 0]
    /\ sreg0 = [p \in Partitions |-> 0]
    /\ slot = [p \in Partitions |-> [t \in Threads |-> {}]]
    /\ param = [p \in Partitions |-> [t \in Threads |-> NoItem]]
    /\ phase = [p \in Partitions |-> "idle"]
    /\ kpc = [p \in Partitions |-> "off"]
    /\ kmode = [p \in Partitions |-> "enq"]
    /\ ki = [p \in Partitions |-> 0]
    /\ seg = [p \in Partitions |-> [i \in 0..(SegmentItems - 1) |-> NoItem]]
    /\ head = [p \in Partitions |-> 0]
    /\ tail = [p \in Partitions |-> 0]
    /\ pc = [t \in Threads |-> "begin"]
    /\ kind = [t \in Threads |-> "enq"]
    /\ curr = [t \in Threads |-> 0]
    /\ info = [t \in Threads |-> {}]
    /\ count = [t \in Threads |-> OpsPerThread]
    /\ mainPc = "init" /\ mainPart = 0 /\ mainKind = "enq" /\ size = 0 /\ round = 0
    /\ call = [t \in Threads |-> NoCall]
    /\ got = [t \in Threads |-> NoItem]

\* start_computation returns after the core was asleep; wait_for_completion
\* after the kernel has ended.
StartComputation(p)  == phase[p] = "idle" /\ phase' = [phase EXCEPT ![p] = "called"]
WaitForCompletion(p) == phase[p] = "served" /\ phase' = [phase EXCEPT ![p] = "idle"]

-----------------------------------------------------------------------------
(* ops_routine of thread t.                                                *)

\* Threads alternate between enq and deq, every other one beginning with deq.
OpKind(t) == IF (count[t] + t) % 2 = 0 THEN "enq" ELSE "deq"

\* curr_*_part = *_part; an attempt on that partition begins.
Pick(t) ==
    /\ mainPc = "join" /\ pc[t] = "begin" /\ count[t] < OpsPerThread
    /\ kind' = [kind EXCEPT ![t] = OpKind(t)]
    /\ curr' = [curr EXCEPT ![t] = part[OpKind(t)]]
    /\ pc' = [pc EXCEPT ![t] = IF OpKind(t) = "enq" THEN "param" ELSE "request"]
    /\ call' = [call EXCEPT ![t] = [op   |-> OpKind(t), done |-> FALSE,
                                    item |-> IF OpKind(t) = "enq" THEN Item(t) ELSE NoItem]]
    /\ UNCHANGED <<regs, cores, info, count, mainVars, got>>

WriteParameter(t) ==
    /\ pc[t] = "param"
    /\ param' = [param EXCEPT ![curr[t]][t] = Item(t)]
    /\ pc' = [pc EXCEPT ![t] = "request"]
    /\ UNCHANGED <<part, sreg0, slot, phase, cores, kind, curr, info, count, mainVars, history>>

SET_REQUEST(i)   == i \cup {"request", "pim"}
CLEAR_REQUEST(i) == i \ {"request"}

SetRequest(t) ==
    /\ pc[t] = "request"
    /\ info' = [info EXCEPT ![t] = SET_REQUEST(@)]
    /\ slot' = [slot EXCEPT ![curr[t]][t] = info'[t]]
    /\ pc' = [pc EXCEPT ![t] = "poll"]
    /\ UNCHANGED <<part, sreg0, param, phase, cores, kind, curr, count, mainVars, history>>

\* read_info_bits in the polling loop, which goes on while both bits are set ...
Poll(t) ==
    /\ pc[t] = "poll"
    /\ info' = [info EXCEPT ![t] = slot[curr[t]][t]]
    /\ pc' = [pc EXCEPT ![t] = IF info'[t] = {"request", "pim"} THEN "again" ELSE "check"]
    /\ UNCHANGED <<regs, cores, kind, curr, count, mainVars, history>>

\* ... and the partition has not moved on.
Again(t) ==
    /\ pc[t] = "again"
    /\ pc' = [pc EXCEPT ![t] = IF curr[t] = part[kind[t]] THEN "poll" ELSE "check"]
    /\ UNCHANGED <<regs, cores, kind, curr, info, count, mainVars, history>>

\* FAULT (not the code): the bits are not read a last time.
Check_NoReread(t) ==
    /\ pc[t] = "check"
    /\ pc' = [pc EXCEPT ![t] = "decide"]
    /\ UNCHANGED <<regs, cores, kind, curr, info, count, mainVars, history>>

Check(t) ==
    /\ pc[t] = "check"
    /\ pc' = [pc EXCEPT ![t] = IF curr[t] = part[kind[t]] THEN "decide" ELSE "final"]
    /\ UNCHANGED <<regs, cores, kind, curr, info, count, mainVars, history>>

\* "read info bits from pim one last time, to get finalized state of request"
ReadFinal(t) ==
    /\ pc[t] = "final"
    /\ info' = [info EXCEPT ![t] = slot[curr[t]][t]]
    /\ pc' = [pc EXCEPT ![t] = "decide"]
    /\ UNCHANGED <<regs, cores, kind, curr, count, mainVars, history>>

\* The thread whose request cleared the PIM bit is the partition-changer.
AfterAttempt(i) == IF "pim" \in i THEN "begin" ELSE "advance"

\* op_count++
Complete(t, v) ==
    /\ count' = [count EXCEPT ![t] = @ + 1]
    /\ got' = [got EXCEPT ![t] = v]
    /\ call' = [call EXCEPT ![t] = NoCall]
    /\ pc' = [pc EXCEPT ![t] = AfterAttempt(info[t])]
    /\ UNCHANGED <<regs, cores, kind, curr, info, mainVars>>

CompleteEnq(t) ==
    /\ pc[t] = "decide" /\ "request" \notin info[t] /\ kind[t] = "enq"
    /\ Complete(t, Item(t))

\* read_parameter
CompleteDeq(t) ==
    /\ pc[t] = "decide" /\ "request" \notin info[t] /\ kind[t] = "deq"
    /\ Complete(t, param[curr[t]][t])

\* FAULT (not the code): CLEAR_REQUEST_PIM_VALID in place of CLEAR_REQUEST.
Withdraw_BothBits(t) ==
    /\ pc[t] = "decide" /\ "request" \in info[t]
    /\ info' = [info EXCEPT ![t] = {}]
    /\ slot' = [slot EXCEPT ![curr[t]][t] = info'[t]]
    /\ pc' = [pc EXCEPT ![t] = AfterAttempt(info'[t])]
    /\ UNCHANGED <<part, sreg0, param, phase, cores, kind, curr, count, mainVars, history>>

\* "operation needs to move to next partition": the request is taken back.
Withdraw(t) ==
    /\ pc[t] = "decide" /\ "request" \in info[t]
    /\ info' = [info EXCEPT ![t] = CLEAR_REQUEST(@)]
    /\ slot' = [slot EXCEPT ![curr[t]][t] = info'[t]]
    /\ pc' = [pc EXCEPT ![t] = AfterAttempt(info'[t])]
    /\ UNCHANGED <<part, sreg0, param, phase, cores, kind, curr, count, mainVars, history>>

\* Threads between reading *_part and leaving the partition they read.
Asking(p) ==
    {u \in Threads :
        curr[u] = p /\ pc[u] \in {"param", "request", "poll", "again", "check", "final", "decide"}}

Advance(t) ==
    LET next == GET_NEXT_PARTITION(curr[t]) IN
    /\ pc[t] = "advance"
    /\ PromptHandOver => phase[next] = "idle" /\ Asking(next) = {}
    /\ part' = [part EXCEPT ![kind[t]] = next]
    /\ pc' = [pc EXCEPT ![t] = "mode"]
    /\ UNCHANGED <<sreg0, slot, param, phase, cores, kind, curr, info, count, mainVars, history>>

\* write_sreg(0, 1 or 2)
SetMode(t) ==
    /\ pc[t] = "mode"
    /\ sreg0' = [sreg0 EXCEPT ![part[kind[t]]] = Mode(kind[t])]
    /\ pc' = [pc EXCEPT ![t] = "start"]
    /\ UNCHANGED <<part, slot, param, phase, cores, kind, curr, info, count, mainVars, history>>

StartNext(t) ==
    /\ pc[t] = "start"
    /\ StartComputation(part[kind[t]])
    /\ pc' = [pc EXCEPT ![t] = "close"]
    /\ UNCHANGED <<part, sreg0, slot, param, cores, kind, curr, info, count, mainVars, history>>

\* "close previous partition"
ClosePrevious(t) ==
    /\ pc[t] = "close"
    /\ WaitForCompletion(curr[t])
    /\ pc' = [pc EXCEPT ![t] = "begin"]
    /\ UNCHANGED <<part, sreg0, slot, param, cores, kind, curr, info, count, mainVars, history>>

Thread(t) ==
    \/ Pick(t) \/ WriteParameter(t) \/ SetRequest(t) \/ Poll(t) \/ Again(t) \/ Check(t)
    \/ ReadFinal(t) \/ CompleteEnq(t) \/ CompleteDeq(t) \/ Withdraw(t)
    \/ Advance(t) \/ SetMode(t) \/ StartNext(t) \/ ClosePrevious(t)

-----------------------------------------------------------------------------
(* main: set the cores up, fill the queue through slot 0, run the rounds.  *)

Main(at) == mainPc' = at

\* write_sreg(0,3) and start_computation for each partition
MainInit ==
    /\ mainPc = "init"
    /\ IF mainPart < NumPartitions
         THEN /\ sreg0' = [sreg0 EXCEPT ![mainPart] = 3]
              /\ StartComputation(mainPart)
              /\ mainPart' = mainPart + 1 /\ Main("init")
         ELSE mainPart' = 0 /\ Main("waitInit") /\ UNCHANGED <<sreg0, phase>>
    /\ UNCHANGED <<part, slot, param, cores, threads, mainKind, size, round, history>>

MainWaitInit ==
    /\ mainPc = "waitInit"
    /\ IF mainPart < NumPartitions
         THEN WaitForCompletion(mainPart) /\ mainPart' = mainPart + 1 /\ Main("waitInit")
         ELSE mainPart' = 0 /\ Main("open") /\ UNCHANGED phase
    /\ UNCHANGED <<part, sreg0, slot, param, cores, threads, mainKind, size, round, history>>

\* The enq partition is opened for the fill.  Its core is asleep.
MainOpen ==
    /\ mainPc = "open"
    /\ sreg0' = [sreg0 EXCEPT ![part["enq"]] = Mode("enq")]
    /\ StartComputation(part["enq"])
    /\ Main("fill")
    /\ UNCHANGED <<part, slot, param, cores, threads, mainPart, mainKind, size, round, history>>

\* write_parameter and write_info_bits on slot 0
MainFill ==
    /\ mainPc = "fill" /\ size < InitialSize
    /\ param' = [param EXCEPT ![part["enq"]][0] = MainItem]
    /\ slot' = [slot EXCEPT ![part["enq"]][0] = SET_REQUEST({})]
    /\ call' = [call EXCEPT ![0] = [op |-> "enq", item |-> MainItem, done |-> FALSE]]
    /\ Main("fillPoll")
    /\ UNCHANGED <<part, sreg0, phase, cores, threads, mainPart, mainKind, size, round, got>>

MainPoll ==
    /\ mainPc = "fillPoll"
    /\ "request" \notin slot[part["enq"]][0]
    /\ size' = size + 1
    /\ got' = [got EXCEPT ![0] = MainItem]
    /\ call' = [call EXCEPT ![0] = NoCall]
    /\ Main(IF "pim" \in slot[part["enq"]][0] THEN "fill" ELSE "fillNext")
    /\ UNCHANGED <<regs, cores, threads, mainPart, mainKind, round>>

\* "need to move onto next partition": enq_part++ without wrapping
MainNext ==
    /\ mainPc = "fillNext"
    /\ WaitForCompletion(part["enq"])
    /\ part' = [part EXCEPT !["enq"] = @ + 1]
    /\ Main("open")
    /\ UNCHANGED <<sreg0, slot, param, cores, threads, mainPart, mainKind, size, round, history>>

MainCloseFill ==
    /\ mainPc = "fill" /\ size = InitialSize
    /\ sreg0' = [sreg0 EXCEPT ![part["enq"]] = 0]
    /\ Main("waitFill")
    /\ UNCHANGED <<part, slot, param, phase, cores, threads, mainPart, mainKind, size, round, history>>

MainWaitFill ==
    /\ mainPc = "waitFill"
    /\ WaitForCompletion(part["enq"])
    /\ Main("mode")
    /\ UNCHANGED <<part, sreg0, slot, param, cores, threads, mainPart, mainKind, size, round, history>>

\* "activate the first enq and deq partitions here": first enq, then deq.
MainMode ==
    /\ mainPc = "mode"
    /\ sreg0' = [sreg0 EXCEPT ![part[mainKind]] = Mode(mainKind)]
    /\ Main("start")
    /\ UNCHANGED <<part, slot, param, phase, cores, threads, mainPart, mainKind, size, round, history>>

\* After the second start the threads of the round are created and released.
MainStart ==
    /\ mainPc = "start"
    /\ StartComputation(part[mainKind])
    /\ IF mainKind = "enq"
         THEN mainKind' = "deq" /\ Main("mode") /\ UNCHANGED <<round, count, info>>
         ELSE /\ mainKind' = "enq" /\ Main("join")
              /\ round' = round + 1
              /\ count' = [t \in Threads |-> 0]
              /\ info' = [t \in Threads |-> {}]
    /\ UNCHANGED <<part, sreg0, slot, param, cores, pc, kind, curr, mainPart, size, history>>

MainJoin ==
    /\ mainPc = "join"
    /\ \A t \in Threads : pc[t] = "begin" /\ count[t] = OpsPerThread
    /\ Main("off")
    /\ UNCHANGED <<regs, cores, threads, mainPart, mainKind, size, round, history>>

\* "deactivate PIMs for now": both are switched off, then both are closed.
MainOff ==
    /\ mainPc = "off"
    /\ sreg0' = [sreg0 EXCEPT ![part[mainKind]] = 0]
    /\ IF mainKind = "enq" THEN mainKind' = "deq" /\ Main("off")
                           ELSE mainKind' = "enq" /\ Main("close")
    /\ UNCHANGED <<part, slot, param, phase, cores, threads, mainPart, size, round, history>>

MainClose ==
    /\ mainPc = "close"
    /\ WaitForCompletion(part[mainKind])
    /\ IF mainKind = "enq" THEN mainKind' = "deq" /\ Main("close")
                           ELSE mainKind' = "enq" /\ Main(IF round < Rounds THEN "mode" ELSE "done")
    /\ UNCHANGED <<part, sreg0, slot, param, cores, threads, mainPart, size, round, history>>

MainStep ==
    \/ MainInit \/ MainWaitInit \/ MainOpen \/ MainFill \/ MainPoll \/ MainNext
    \/ MainCloseFill \/ MainWaitFill \/ MainMode \/ MainStart \/ MainJoin \/ MainOff \/ MainClose

-----------------------------------------------------------------------------
(* execute_kernel on core p.                                               *)

Goto(p, at) == kpc' = [kpc EXCEPT ![p] = at]

Enter(p) ==
    /\ kpc[p] = "off" /\ phase[p] = "called"
    /\ Goto(p, "test1")
    /\ UNCHANGED <<regs, kmode, ki, seg, head, tail, threads, mainVars, history>>

\* PIM_SREG[0] == 3
InitSegment(p) ==
    /\ kpc[p] = "test1" /\ sreg0[p] = 3
    /\ head' = [head EXCEPT ![p] = 0]
    /\ tail' = [tail EXCEPT ![p] = 0]
    /\ sreg0' = [sreg0 EXCEPT ![p] = 0]
    /\ UNCHANGED <<part, slot, param, phase, kpc, kmode, ki, seg, threads, mainVars, history>>

\* The branches of the loop read PIM_SREG[0] again for each comparison.
Branch(p, k) ==
    /\ kmode' = [kmode EXCEPT ![p] = k]
    /\ ki' = [ki EXCEPT ![p] = 0]
    /\ Goto(p, "scan")

TestEnq(p) ==
    /\ kpc[p] = "test1" /\ sreg0[p] # 3
    /\ IF sreg0[p] = 1 THEN Branch(p, "enq") ELSE Goto(p, "test2") /\ UNCHANGED <<kmode, ki>>
    /\ UNCHANGED <<regs, seg, head, tail, threads, mainVars, history>>

TestDeq(p) ==
    /\ kpc[p] = "test2"
    /\ IF sreg0[p] = 2 THEN Branch(p, "deq") ELSE Goto(p, "test0") /\ UNCHANGED <<kmode, ki>>
    /\ UNCHANGED <<regs, seg, head, tail, threads, mainVars, history>>

\* FAULT (not the code): PIM_SREG[0] == 0 does not end the kernel.
TestOff_Never(p) ==
    /\ kpc[p] = "test0"
    /\ Goto(p, "test1")
    /\ UNCHANGED <<regs, kmode, ki, seg, head, tail, threads, mainVars, history>>

TestOff(p) ==
    /\ kpc[p] = "test0"
    /\ IF sreg0[p] = 0
         THEN Goto(p, "off") /\ phase' = [phase EXCEPT ![p] = "served"]
         ELSE Goto(p, "test1") /\ UNCHANGED phase
    /\ UNCHANGED <<part, sreg0, slot, param, kmode, ki, seg, head, tail, threads, mainVars, history>>

\* CHECK_VALID_REQUEST on slot i
Scan(p) ==
    /\ kpc[p] = "scan"
    /\ IF ki[p] = NumThreads
         THEN Goto(p, "test1") /\ UNCHANGED ki
         ELSE IF "request" \in slot[p][ki[p]]
                THEN Goto(p, "serve") /\ UNCHANGED ki
                ELSE ki' = [ki EXCEPT ![p] = @ + 1] /\ UNCHANGED kpc
    /\ UNCHANGED <<regs, kmode, seg, head, tail, threads, mainVars, history>>

\* CURR_SEGMENT[TAIL_INDEX] = parameter; TAIL_INDEX++
ServeEnq(p) ==
    /\ kpc[p] = "serve" /\ kmode[p] = "enq"
    /\ seg' = [seg EXCEPT ![p][tail[p]] = param[p][ki[p]]]
    /\ tail' = [tail EXCEPT ![p] = @ + 1]
    /\ call' = [call EXCEPT ![ki[p]].done = TRUE]
    /\ Goto(p, "reply")
    /\ UNCHANGED <<regs, kmode, ki, head, threads, mainVars, got>>

\* parameter = CURR_SEGMENT[HEAD_INDEX]; HEAD_INDEX++
ServeDeq(p) ==
    /\ kpc[p] = "serve" /\ kmode[p] = "deq"
    /\ param' = [param EXCEPT ![p][ki[p]] = seg[p][head[p]]]
    /\ head' = [head EXCEPT ![p] = @ + 1]
    /\ call' = [call EXCEPT ![ki[p]].item = seg[p][head[p]], ![ki[p]].done = TRUE]
    /\ Goto(p, "reply")
    /\ UNCHANGED <<part, sreg0, slot, phase, kmode, ki, seg, tail, threads, mainVars, got>>

Exhausted(p) ==
    IF kmode[p] = "enq" THEN tail[p] >= SegmentItems
                        ELSE head[p] >= tail[p] \/ head[p] >= SegmentItems

\* CLEAR_REQUEST_PIM_VALID for the request that exhausts the segment,
\* CLEAR_REQUEST for the others
Reply(p) ==
    /\ kpc[p] = "reply"
    /\ IF Exhausted(p)
         THEN /\ slot' = [slot EXCEPT ![p][ki[p]] = {}]
              /\ Goto(p, "stop") /\ UNCHANGED ki
         ELSE /\ slot' = [slot EXCEPT ![p][ki[p]] = CLEAR_REQUEST(@)]
              /\ Goto(p, "scan") /\ ki' = [ki EXCEPT ![p] = @ + 1]
    /\ UNCHANGED <<part, sreg0, param, phase, kmode, seg, head, tail, threads, mainVars, history>>

\* PIM_SREG[0] = 0; an emptied segment is reset for its next use.
Stop(p) ==
    /\ kpc[p] = "stop"
    /\ sreg0' = [sreg0 EXCEPT ![p] = 0]
    /\ IF kmode[p] = "deq"
         THEN head' = [head EXCEPT ![p] = 0] /\ tail' = [tail EXCEPT ![p] = 0]
         ELSE UNCHANGED <<head, tail>>
    /\ Goto(p, "test1")
    /\ UNCHANGED <<part, slot, param, phase, kmode, ki, seg, threads, mainVars, history>>

Kernel(p) ==
    \/ Enter(p) \/ InitSegment(p) \/ TestEnq(p) \/ TestDeq(p) \/ TestOff(p)
    \/ Scan(p) \/ ServeEnq(p) \/ ServeDeq(p) \/ Reply(p) \/ Stop(p)

Finished == mainPc = "done" /\ UNCHANGED vars

Next ==
    \/ MainStep
    \/ \E t \in Threads : Thread(t)
    \/ \E p \in Partitions : Kernel(p)
    \/ Finished

Spec == Init /\ [][Next]_vars

\* Neither threads nor cores ever block other than by polling.
FairSpec ==
    /\ Spec
    /\ WF_vars(MainStep)
    /\ \A t \in Threads : WF_vars(Thread(t))
    /\ \A p \in Partitions : WF_vars(Kernel(p))

-----------------------------------------------------------------------------
Items ==
    (Threads \X (1..Rounds) \X (0..(OpsPerThread - 1)))
        \cup ({NumThreads} \X {0} \X (0..(InitialSize - 1)))

TypeOK ==
    /\ part \in [Kinds -> Partitions]
    /\ sreg0 \in [Partitions -> 0..3]
    /\ slot \in [Partitions -> [Threads -> SUBSET {"request", "pim"}]]
    /\ param \in [Partitions -> [Threads -> Items \cup {NoItem}]]
    /\ phase \in [Partitions -> {"idle", "called", "served"}]
    /\ kpc \in [Partitions -> {"off", "test1", "test2", "test0", "scan", "serve", "reply", "stop"}]
    /\ kmode \in [Partitions -> Kinds]
    /\ ki \in [Partitions -> 0..NumThreads]
    /\ seg \in [Partitions -> [0..(SegmentItems - 1) -> Items \cup {NoItem}]]
    /\ head \in [Partitions -> 0..SegmentItems]
    /\ tail \in [Partitions -> 0..SegmentItems]
    /\ pc \in [Threads -> {"begin", "param", "request", "poll", "again", "check", "final",
                           "decide", "advance", "mode", "start", "close"}]
    /\ kind \in [Threads -> Kinds]
    /\ curr \in [Threads -> Partitions]
    /\ info \in [Threads -> SUBSET {"request", "pim"}]
    /\ count \in [Threads -> 0..OpsPerThread]
    /\ size \in 0..InitialSize /\ round \in 0..Rounds

\* The items of one segment, and of the ring from deq_part on.
Segment(p) == [i \in 1..(tail[p] - head[p]) |-> seg[p][head[p] + i - 1]]
Contents ==
    LET upTo[n \in 0..NumPartitions] ==
          IF n = 0 THEN <<>>
                   ELSE upTo[n - 1] \o Segment((part["deq"] + n - 1) % NumPartitions)
    IN  upTo[NumPartitions]

\* The ring of cores is one first-in first-out queue for all threads, although
\* an operation may be asked of several partitions before one serves it: it
\* takes effect once, on one of them, and no item is lost, repeated or
\* overtaken when enq_part and deq_part move.
Queue == INSTANCE LinearQueue WITH
    queue <- Contents, InitialItems <- <<>>, seen <- [t \in Threads |-> FALSE]

ImplementsQueue == Queue!Spec

\* "so that future operations on the partition are not affected"
\* (main.cc): a core serves a request only in the branch that its
\* thread asked for, and only while that thread is still asking this core.
ServesWhatWasAsked ==
    \A p \in Partitions :
        kpc[p] \in {"serve", "reply"} /\ mainPc = "join" =>
            /\ kind[ki[p]] = kmode[p]
            /\ ki[p] \in Asking(p)

\* At most one thread is moving enq_part, and at most one deq_part ("this
\* thread has been designated as the partition-changer").
OneChanger ==
    \A t, u \in Threads :
        /\ t # u
        /\ pc[t] \in {"advance", "mode", "start"} /\ pc[u] \in {"advance", "mode", "start"}
        => kind[t] # kind[u]

\* The kernel stays inside its segment and dequeues only what was enqueued.
InsideSegment ==
    \A p \in Partitions :
        kpc[p] = "serve" => IF kmode[p] = "enq" THEN tail[p] < SegmentItems ELSE head[p] < tail[p]

\* The segments keep their order and their owners: a core serves requests of
\* its own kind from threads that ask it, inside its segment, and one thread at
\* a time moves an end of the queue to the next core.
SegmentsKept == TypeOK /\ ServesWhatWasAsked /\ OneChanger /\ InsideSegment

\* Every thread finishes its operations, and main closes all cores.
Terminates == <>(mainPc = "done")
=============================================================================
