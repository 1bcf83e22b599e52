------------------------ MODULE SinglePimQueueProofs ------------------------
(***************************************************************************)
(* For every number of rounds, operations and initial items, and every     *)
(* buffer that satisfies BufferAssumption, the single-PIM queue never      *)
(* serves a dequeue on an empty or an enqueue on a full buffer, and        *)
(* implements LinearQueue.                                                 *)
(*                                                                         *)
(* The argument counts: an operation of a thread is either the one it      *)
(* begins with, or undoes the one before.  So the queue is longer than     *)
(* after the fill by the threads that are one enqueue ahead, and shorter   *)
(* by those that are one dequeue behind.                                   *)
(***************************************************************************)
EXTENDS SinglePimQueue, FiniteSetTheorems, TLAPS, SequenceTheorems

\* Operations of thread t in this round that the kernel has served.
Served(t) == IF call[t].done THEN count[t] + 1 ELSE count[t]

Ahead  == {t \in EnqFirst : Served(t) % 2 = 1}
Behind == {t \in DeqFirst : Served(t) % 2 = 1}

Vals == Items \cup {NoItem}

HistoryOK ==
    /\ param \in [Threads -> Vals] /\ buf \in [0..(MaxIndex - 1) -> Vals]
    /\ call \in [Threads -> [op : {"none", "enq", "deq"}, item : Vals, done : BOOLEAN]]
    /\ got \in [Threads -> Vals]
    /\ len \in Int

Filling == mainPc \in {"fillRequest", "fillPoll"}
Setup   == mainPc \in {"init", "waitInit", "open"}

\* Where main is decides what the core may do and how far the counters are.
MainOK ==
    /\ sreg0 = 3 => mainPc = "waitInit"
    /\ phase = "served" => sreg0 # 3
    /\ Setup => len = 0 /\ size = 0
    /\ Setup \/ Filling \/ mainPc = "fill" => round = 0
    /\ mainPc = "init" => phase = "idle"
    /\ Filling => size < InitialSize
    /\ mainPc \in {"join", "waitOff", "round"} => size = InitialSize
    /\ numOps <= TotalOps
    /\ \A t \in Threads :
         IF t < 2 * round
           THEN count[t] <= numOps /\ (mainPc # "join" => count[t] = numOps)
           ELSE count[t] = 0

\* Thread t, or main in its place, has a request in slot t.
Asking(t) == pc[t] = "poll" \/ (t = 0 /\ mainPc = "fillPoll")

\* What the operation of thread t that is under way puts into the queue.
Value(t) == IF mainPc = "join" THEN Item(t) ELSE MainItem

\* The slot, the parameter and the open call of thread t agree.
SlotOK(t) ==
    /\ pc[t] # "begin" => mainPc = "join" /\ t < 2 * round /\ count[t] < numOps
    /\ pc[t] = "begin" /\ ~(t = 0 /\ Filling) => call[t] = NoCall
    /\ pc[t] = "request" \/ (t = 0 /\ mainPc = "fillRequest") =>
         /\ OpKind(t) = "enq" /\ param[t] = Value(t)
         /\ call[t] = [op |-> "enq", item |-> Value(t), done |-> FALSE]
    /\ Asking(t) =>
         /\ call[t].op = OpKind(t) /\ slot[t] \in {"clear", OpKind(t)}
         /\ slot[t] # "clear" \/ call[t].done
         /\ OpKind(t) = "enq" => call[t].item = Value(t) /\ param[t] = Value(t)
         /\ OpKind(t) = "deq" /\ call[t].done => call[t].item = param[t]
    /\ pc[t] = "read" =>
         /\ OpKind(t) = "deq" /\ call[t].op = "deq" /\ call[t].done
         /\ call[t].item = param[t]
    /\ slot[t] # "clear" => Asking(t)
    /\ slot[t] # "clear" /\ call[t].done => kpc = "reply" /\ ki = t

KernelOK ==
    /\ phase # "called" => kpc = "off"
    /\ kpc \in {"serve", "reply"} => ki \in Threads /\ slot[ki] # "clear"
    /\ kpc = "reply" => call[ki].done

\* The length of the queue, and the place of the tail.
LengthOK == len = size + Cardinality(Ahead) - Cardinality(Behind)
TailOK   == len \in 0..MaxIndex /\ tail = Wrap(head + len)

\* The inductive invariant.
Inv ==
    /\ TypeOK /\ HistoryOK /\ MainOK /\ (\A t \in Threads : SlotOK(t))
    /\ KernelOK /\ LengthOK /\ TailOK

-----------------------------------------------------------------------------
(* Facts about the constants.                                              *)

\* The threads are finitely many, and thread 0 begins with an enqueue.
LEMMA ThreadFacts ==
  /\ NumThreads \in Nat \ {0} /\ Threads \subseteq Nat /\ 0 \in Threads
  /\ \A t \in Threads : t \in EnqFirst \/ t \in DeqFirst
  /\ IsFiniteSet(EnqFirst) /\ Cardinality(EnqFirst) \in Nat
  /\ IsFiniteSet(DeqFirst) /\ Cardinality(DeqFirst) \in Nat
<1>1. NumThreads \in Nat \ {0} /\ Threads \subseteq Nat /\ 0 \in Threads
  BY RoundsAssumption DEF NumThreads, Threads
<1>2. \A t \in Threads : t \in EnqFirst \/ t \in DeqFirst
  BY <1>1 DEF EnqFirst, DeqFirst
<1>3. IsFiniteSet(Threads)
  BY <1>1, FS_Interval DEF Threads
<1>4. IsFiniteSet(EnqFirst) /\ IsFiniteSet(DeqFirst)
  BY <1>3, FS_Subset DEF EnqFirst, DeqFirst
<1> QED
  BY <1>1, <1>2, <1>4, FS_CardinalityType

\* Among the threads of a round as many begin with an enqueue as with a
\* dequeue.
LEMMA Halves ==
  ASSUME NEW n \in 0..Rounds
  PROVE  Cardinality({t \in EnqFirst : t < 2 * n}) = Cardinality({t \in DeqFirst : t < 2 * n})
<1> DEFINE E == {t \in EnqFirst : t < 2 * n}
           D == {t \in DeqFirst : t < 2 * n}
           f == [t \in E |-> t + 1]
<1>1. E \subseteq Nat /\ D \subseteq Nat /\ IsFiniteSet(E)
  BY ThreadFacts, FS_Subset, Zenon DEF EnqFirst, DeqFirst
<1>2. \A t \in E : t + 1 \in D
  BY RoundsAssumption DEF EnqFirst, DeqFirst, Threads, NumThreads
<1>3. \A u \in D : u - 1 \in E /\ f[u - 1] = u
  BY <1>1, RoundsAssumption DEF EnqFirst, DeqFirst, Threads, NumThreads
<1>4. f \in Bijection(E, D)
  <2>1. f \in [E -> D]
    BY <1>2
  <2>2. \A a, b \in E : f[a] = f[b] => a = b
    BY <1>1
  <2>3. \A u \in D : \E t \in E : f[t] = u
    BY <1>3, Zenon
  <2> HIDE DEF f
  <2> QED
    BY <2>1, <2>2, <2>3 DEF Bijection, Injection, Surjection, IsInjective
<1> QED
  BY <1>1, <1>4, FS_Bijection DEF ExistsBijection

\* num_ops is a natural number and at most TOTAL_NUM_OPS.
LEMMA Share ==
  ASSUME NEW a \in Nat, NEW b \in Nat \ {0}
  PROVE  a \div b \in Nat /\ a \div b <= a
  OBVIOUS

-----------------------------------------------------------------------------
(* Items.                                                                  *)

\* The items of the threads and of main are items of the abstract queue.
LEMMA ItemTypes ==
  ASSUME Inv
  PROVE  /\ \A t \in Threads : mainPc = "join" /\ t < 2 * round /\ count[t] < numOps => Item(t) \in Items
         /\ size < InitialSize => MainItem \in Items
<1>1. numOps <= TotalOps /\ numOps \in Nat /\ count \in [Threads -> Nat]
      /\ round \in 0..Rounds /\ size \in 0..InitialSize
  BY DEF Inv, MainOK, TypeOK
<1>2. \A t \in Threads : t \in 0..NumThreads
  BY ThreadFacts DEF Threads
<1>3. \A t \in Threads : count[t] < numOps => count[t] \in 0..(InitialSize + TotalOps)
  BY <1>1, ThreadFacts, RoundsAssumption
<1>4. size < InitialSize => size \in 0..(InitialSize + TotalOps)
  BY <1>1, ThreadFacts, RoundsAssumption
<1>5. NumThreads \in 0..NumThreads /\ 0 \in 0..Rounds
  BY <1>1, ThreadFacts, RoundsAssumption
<1>6. \A a \in 0..NumThreads, b \in 0..Rounds, c \in 0..(InitialSize + TotalOps) : <<a, b, c>> \in Items
  BY Zenon DEF Items
<1> QED
  BY <1>1, <1>2, <1>3, <1>4, <1>5, <1>6, Zenon DEF Item, MainItem

Calls == [op : {"none", "enq", "deq"}, item : Vals, done : BOOLEAN]

\* What the kernel serves is the open operation of a thread that waits.
LEMMA ServingFacts ==
  ASSUME Inv, kpc = "serve"
  PROVE  /\ ki \in Threads /\ slot[ki] # "clear" /\ slot[ki] = OpKind(ki)
         /\ Asking(ki) /\ SlotOK(ki) /\ ~call[ki].done /\ call[ki].op = OpKind(ki)
         /\ call[ki] \in Calls
<1>1. ki \in Threads /\ slot[ki] # "clear"
  BY DEF Inv, KernelOK
<1>2. SlotOK(ki) /\ call[ki] \in Calls
  BY <1>1 DEF Inv, HistoryOK, Calls
<1>3. Asking(ki) /\ (call[ki].done => kpc = "reply")
  BY <1>1, <1>2 DEF SlotOK
<1> QED
  BY <1>1, <1>2, <1>3, Zenon DEF SlotOK

-----------------------------------------------------------------------------
(* The slot protocol.                                                      *)

\* What SlotOK(u) reads.
SlotView(u) == <<pc[u], count[u], call[u], param[u], slot[u], mainPc, round, numOps, size>>

\* SlotOK(t) depends on what SlotView(t) shows, and on the kernel.
LEMMA SlotKept ==
  ASSUME NEW u \in Threads, SlotOK(u), SlotView(u)' = SlotView(u),
         slot[u] # "clear" /\ call[u].done => kpc' = "reply" /\ ki' = u
  PROVE  SlotOK(u)'
<1>1. /\ pc'[u] = pc[u] /\ count'[u] = count[u] /\ call'[u] = call[u] /\ param'[u] = param[u]
      /\ slot'[u] = slot[u] /\ mainPc' = mainPc /\ round' = round /\ numOps' = numOps /\ size' = size
  BY ZenonT(60) DEF SlotView
<1>2. Item(u)' = Item(u) /\ MainItem' = MainItem /\ OpKind(u)' = OpKind(u)
  BY <1>1 DEF Item, MainItem, OpKind
<1>3. Value(u)' = Value(u) /\ Asking(u)' = Asking(u) /\ Filling' = Filling
  BY <1>1, <1>2, ZenonT(60) DEF Value, Asking, Filling
<1> QED
  BY <1>1, <1>2, <1>3, Zenon DEF SlotOK

\* A step of a host thread keeps every slot in order.
LEMMA SlotThreadStep ==
  ASSUME Inv, NEW t \in Threads, Thread(t), NEW u \in Threads
  PROVE  SlotOK(u)'
<1> USE DEF regs, slots, core, queue, threads, mainVars, history
<1>0. TypeOK /\ HistoryOK /\ SlotOK(u) /\ SlotOK(t)
  BY DEF Inv
<1>1. UNCHANGED <<regs, core, queue, numOps, mainVars>>
  BY ZenonT(60) DEF Thread, WriteParameter, RequestEnq, RequestDeq, PollEnq, PollDeq, ReadParameter
<1>2. CASE u # t
  <2>1. SlotView(u)' = SlotView(u)
    BY <1>0, <1>1, <1>2, ZenonT(60) DEF TypeOK, HistoryOK, SlotView, Thread, WriteParameter, RequestEnq, RequestDeq,
       PollEnq, PollDeq, ReadParameter, Open, Return
  <2> QED
    BY <1>0, <1>1, <2>1, SlotKept, Zenon DEF SlotOK
<1>3. CASE u = t
  <2>1. pc[t] # "begin" \/ Running(t) => mainPc = "join"
    BY <1>0, Zenon DEF SlotOK, Running
  <2>2. mainPc = "join"
    BY <2>1, ZenonT(60) DEF Thread, WriteParameter, RequestEnq, RequestDeq, PollEnq, PollDeq, ReadParameter
  <2>3. ~Filling /\ ~Filling' /\ Value(t) = Item(t) /\ Value(t)' = Item(t)'
    BY <1>1, <2>2 DEF Filling, Value
  <2>4. CASE WriteParameter(t)
    <3>1. /\ pc'[t] = "request" /\ param'[t] = Item(t) /\ slot'[t] = slot[t]
          /\ count' = count /\ OpKind(t) = "enq" /\ t < 2 * round /\ count[t] < numOps /\ pc[t] = "begin"
          /\ call'[t] = [op |-> "enq", item |-> Item(t), done |-> FALSE]
      BY <1>0, <2>4, ZenonT(60) DEF TypeOK, HistoryOK, WriteParameter, Open, Running
    <3>2. Item(t)' = Item(t) /\ OpKind(t)' = OpKind(t) /\ slot[t] = "clear"
      BY <1>0, <1>1, <2>2, <3>1, Zenon DEF Item, OpKind, SlotOK, Asking
    <3> QED
      BY <1>1, <1>3, <2>2, <2>3, <3>1, <3>2, ZenonT(60) DEF SlotOK, Asking
  <2>5. CASE RequestEnq(t)
    <3>1. pc'[t] = "poll" /\ slot'[t] = "enq" /\ pc[t] = "request" /\ UNCHANGED <<param, count, call>>
      BY <1>0, <2>5, Zenon DEF TypeOK, RequestEnq
    <3>2. Item(t)' = Item(t) /\ OpKind(t)' = OpKind(t)
      BY <1>1, <3>1 DEF Item, OpKind
    <3>3. /\ OpKind(t) = "enq" /\ param[t] = Item(t) /\ t < 2 * round /\ count[t] < numOps
          /\ call[t] = [op |-> "enq", item |-> Item(t), done |-> FALSE]
      BY <1>0, <2>3, <3>1, Zenon DEF SlotOK
    <3>4. call'[t] = call[t] /\ param'[t] = param[t] /\ call[t].op = "enq" /\ ~call[t].done
          /\ call[t].item = Item(t)
      BY <3>1, <3>3, SMTT(60)
    <3> QED
      BY <1>1, <1>3, <2>2, <2>3, <3>1, <3>2, <3>3, <3>4, ZenonT(60) DEF SlotOK, Asking
  <2>6. CASE RequestDeq(t)
    <3>1. /\ pc'[t] = "poll" /\ slot'[t] = "deq" /\ UNCHANGED <<param, count>>
          /\ OpKind(t) = "deq" /\ t < 2 * round /\ count[t] < numOps
          /\ call'[t] = [op |-> "deq", item |-> NoItem, done |-> FALSE]
      BY <1>0, <2>6, ZenonT(60) DEF TypeOK, HistoryOK, RequestDeq, Open, Running
    <3>2. OpKind(t)' = OpKind(t)
      BY <1>1, <3>1, ZenonT(60) DEF OpKind
    <3> QED
      BY <1>1, <1>3, <2>2, <2>3, <3>1, <3>2, SMTT(60) DEF SlotOK, Asking
  <2>7. CASE PollEnq(t) \/ ReadParameter(t)
    <3>1. pc'[t] = "begin" /\ slot'[t] = slot[t] /\ call'[t] = NoCall /\ pc[t] \in {"poll", "read"}
      BY <1>0, <2>7, ZenonT(60) DEF TypeOK, HistoryOK, PollEnq, ReadParameter, Return
    <3>2. slot[t] = "clear"
      BY <1>0, <2>2, <2>7, Zenon DEF SlotOK, Asking, PollEnq, ReadParameter
    <3> QED
      BY <1>1, <1>3, <2>2, <2>3, <3>1, <3>2, ZenonT(60) DEF SlotOK, Asking
  <2>8. CASE PollDeq(t)
    <3>1. /\ pc'[t] = "read" /\ pc[t] = "poll" /\ UNCHANGED <<slot, call, param, count>>
          /\ OpKind(t) = "deq" /\ slot[t] = "clear"
      BY <1>0, <2>8 DEF TypeOK, PollDeq
    <3>2. OpKind(t)' = OpKind(t)
      BY <1>1, <3>1 DEF OpKind
    <3> QED
      BY <1>0, <1>1, <1>3, <2>2, <2>3, <3>1, <3>2, Zenon DEF SlotOK, Asking
  <2> QED
    BY <2>4, <2>5, <2>6, <2>7, <2>8 DEF Thread
<1> QED
  BY <1>2, <1>3

\* A step of main keeps every slot in order.
LEMMA SlotMainStep ==
  ASSUME Inv, Main, NEW u \in Threads
  PROVE  SlotOK(u)'
<1> USE DEF regs, slots, core, queue, threads, mainVars, history
<1>0. TypeOK /\ HistoryOK /\ MainOK /\ SlotOK(u) /\ pc' = pc /\ kpc' = kpc /\ ki' = ki
  BY ZenonT(60) DEF Inv, Main, MainInit, MainWait, MainOpen, MainParameter, MainRequest, MainPoll, MainOff, MainRound
<1>1. CASE MainInit \/ MainWait \/ MainOpen \/ MainOff \/ MainRound
  <2>1. ~Filling /\ ~Filling' /\ UNCHANGED <<slot, param, call>>
    BY <1>1, ZenonT(60) DEF Filling, MainInit, MainWait, MainOpen, MainOff, MainRound
  <2>2. pc[u] = "begin"
    BY <1>0, <1>1, Zenon DEF SlotOK, TypeOK, MainInit, MainWait, MainOpen, MainOff, MainRound
  <2>3. slot[u] = "clear" /\ call[u] = NoCall
    BY <1>0, <2>1, <2>2, Zenon DEF SlotOK, Asking, Filling
  <2> QED
    BY <1>0, <2>1, <2>2, <2>3, Zenon DEF SlotOK, Asking, Filling
<1>2. ASSUME MainParameter \/ MainRequest \/ MainPoll
      PROVE  SlotOK(u)'
  <2>1. /\ mainPc # "join" /\ mainPc' # "join" /\ round' = round /\ numOps' = numOps /\ count' = count
        /\ round = 0
    BY <1>0, <1>2, ZenonT(60) DEF MainOK, Filling, MainParameter, MainRequest, MainPoll
  <2>2. pc[u] = "begin" /\ count[u] = 0 /\ Value(u) = MainItem /\ Value(u)' = MainItem'
    <3>1. pc[u] = "begin"
      BY <1>0, <2>1, Zenon DEF SlotOK
    <3>2. count[u] = 0
      BY <1>0, <2>1, ThreadFacts, SMTT(60) DEF MainOK
    <3> QED
      BY <2>1, <3>1, <3>2 DEF Value
  <2>3. CASE u # 0
    <3>1. slot[u] = "clear" /\ call[u] = NoCall
      BY <1>0, <2>2, <2>3, Zenon DEF SlotOK, Asking
    <3>2. slot'[u] = slot[u] /\ call'[u] = call[u]
      BY <1>0, <1>2, <2>3, ZenonT(60) DEF TypeOK, HistoryOK, MainParameter, MainRequest, MainPoll, Open, Return
    <3> QED
      BY <1>0, <2>2, <2>3, <3>1, <3>2, Zenon DEF SlotOK, Asking
  <2>4. CASE u = 0
    <3>1. OpKind(u) = "enq" /\ OpKind(u)' = "enq"
      BY <2>1, <2>2, <2>4 DEF OpKind
    <3>2. CASE MainParameter
      <4>1. /\ param'[0] = MainItem /\ mainPc' = "fillRequest" /\ slot' = slot /\ size' = size
            /\ mainPc = "fill" /\ call'[0] = [op |-> "enq", item |-> MainItem, done |-> FALSE]
        BY <1>0, <3>2, ThreadFacts, ZenonT(60) DEF HistoryOK, MainParameter, Open
      <4>2. slot[0] = "clear" /\ MainItem' = MainItem
        BY <1>0, <2>2, <2>4, <4>1, ZenonT(60) DEF SlotOK, Asking, MainItem
      <4> QED
        BY <1>0, <2>2, <2>4, <3>1, <4>1, <4>2, ZenonT(60) DEF SlotOK, Asking, Filling
    <3>3. CASE MainRequest
      <4>1. /\ slot'[0] = "enq" /\ mainPc' = "fillPoll" /\ mainPc = "fillRequest"
            /\ UNCHANGED <<param, call, size>>
        BY <1>0, <3>3, ThreadFacts DEF TypeOK, MainRequest
      <4>2. MainItem' = MainItem
        BY <4>1 DEF MainItem
      <4>3. param[0] = MainItem /\ call[0] = [op |-> "enq", item |-> MainItem, done |-> FALSE]
        BY <1>0, <2>2, <2>4, <4>1, Zenon DEF SlotOK
      <4>4. call'[0].op = "enq" /\ call'[0].item = MainItem /\ ~call'[0].done
        BY <4>1, <4>3
      <4> QED
        BY <1>0, <2>2, <2>4, <3>1, <4>1, <4>2, <4>3, <4>4, ZenonT(60) DEF SlotOK, Asking, Filling
    <3>4. CASE MainPoll
      <4>1. slot'[0] = "clear" /\ mainPc' = "fill" /\ call'[0] = NoCall
        BY <1>0, <3>4, ThreadFacts DEF HistoryOK, MainPoll, Return
      <4> QED
        BY <1>0, <2>2, <2>4, <4>1, ZenonT(60) DEF SlotOK, Asking, Filling
    <3> QED
      BY <1>2, <3>2, <3>3, <3>4
  <2> QED
    BY <2>3, <2>4
<1> QED
  BY <1>1, <1>2 DEF Main

\* A step of the kernel keeps every slot in order.
LEMMA SlotKernelStep ==
  ASSUME Inv, Kernel, NEW u \in Threads
  PROVE  SlotOK(u)'
<1> USE DEF regs, slots, core, queue, threads, mainVars, history
<1>0. TypeOK /\ HistoryOK /\ KernelOK /\ SlotOK(u) /\ UNCHANGED <<threads, mainVars>>
  BY Zenon DEF Inv, Kernel, Enter, InitQueue, Test3, Test1, Test0, Scan, ServeDeq, ServeEnq, Reply
<1>1. CASE Enter \/ InitQueue \/ Test3 \/ Test1 \/ Test0 \/ Scan
  <2>1. SlotView(u)' = SlotView(u) /\ kpc # "reply"
    BY <1>0, <1>1, ZenonT(60) DEF SlotView, Enter, InitQueue, Test3, Test1, Test0, Scan
  <2> QED
    BY <1>0, <2>1, SlotKept, Zenon DEF SlotOK
<1>2. CASE ServeDeq \/ ServeEnq
  <2>0. kpc = "serve" /\ kpc' = "reply" /\ ki' = ki /\ slot' = slot
    BY <1>2, Zenon DEF ServeDeq, ServeEnq
  <2>1. CASE u # ki
    <3>1. SlotView(u)' = SlotView(u)
      BY <1>0, <1>2, <2>1, ZenonT(60) DEF HistoryOK, SlotView, ServeDeq, ServeEnq
    <3>2. ~(slot[u] # "clear" /\ call[u].done)
      BY <1>0, <2>0, Zenon DEF SlotOK
    <3> QED
      BY <1>0, <3>1, <3>2, SlotKept, Zenon
  <2>2. CASE u = ki
    <3>1. slot[u] = OpKind(u) /\ Asking(u) /\ call[u].op = OpKind(u)
      BY <2>0, <2>2, ServingFacts, ZenonT(60)
    <3>2. OpKind(u)' = OpKind(u) /\ Value(u)' = Value(u) /\ Asking(u)' = Asking(u)
      BY <1>0 DEF OpKind, Value, Item, MainItem, Asking
    <3>3. call'[u].op = call[u].op /\ call'[u].done
      BY <1>0, <1>2, <2>2, SMTT(60) DEF HistoryOK, ServeDeq, ServeEnq
    <3>4. slot[u] = "deq" => call'[u].item = param'[u]
      BY <1>0, <1>2, <2>2, SMTT(60) DEF HistoryOK, ServeDeq, ServeEnq
    <3>5. slot[u] = "enq" => call'[u].item = call[u].item /\ param'[u] = param[u]
      BY <1>0, <1>2, <2>2, SMTT(60) DEF HistoryOK, ServeDeq, ServeEnq
    <3>6. pc[u] \notin {"request", "read"} /\ (pc[u] = "begin" => u = 0 /\ mainPc = "fillPoll")
      BY <1>0, <3>1, Zenon DEF SlotOK, Asking
    <3> QED
      BY <1>0, <2>0, <2>2, <3>1, <3>2, <3>3, <3>4, <3>5, <3>6, ZenonT(60) DEF SlotOK, Asking, Filling
  <2> QED
    BY <2>1, <2>2
<1>3. CASE Reply
  <2>0. /\ kpc = "reply" /\ ki \in Threads /\ slot' = [slot EXCEPT ![ki] = "clear"]
        /\ param' = param /\ call' = call /\ call[ki].done
    BY <1>0, <1>3 DEF KernelOK, Reply
  <2>1. CASE u # ki
    <3>1. SlotView(u)' = SlotView(u)
      BY <1>0, <2>0, <2>1 DEF TypeOK, SlotView
    <3>2. ~(slot[u] # "clear" /\ call[u].done)
      BY <1>0, <2>1, Zenon DEF SlotOK
    <3> QED
      BY <1>0, <3>1, <3>2, SlotKept
  <2>2. CASE u = ki
    <3>1. slot'[u] = "clear"
      BY <1>0, <2>0, <2>2 DEF TypeOK
    <3>2. /\ OpKind(u)' = OpKind(u) /\ Value(u)' = Value(u) /\ Asking(u)' = Asking(u)
          /\ Filling' = Filling
      BY <1>0 DEF OpKind, Value, Item, MainItem, Asking, Filling
    <3> QED
      BY <1>0, <2>0, <2>2, <3>1, <3>2, Zenon DEF SlotOK
  <2> QED
    BY <2>1, <2>2
<1> QED
  BY <1>1, <1>2, <1>3 DEF Kernel

-----------------------------------------------------------------------------
(* Types.                                                                  *)

\* Every step keeps the types of the variables of the program.
LEMMA TypeStep ==
  ASSUME Inv, [Next]_vars
  PROVE  TypeOK'
<1> USE DEF regs, slots, core, queue, threads, mainVars, history
<1>0. TypeOK
  BY DEF Inv
<1>1. ASSUME NEW t \in Threads, Thread(t) PROVE TypeOK'
  <2>1. CASE WriteParameter(t) \/ PollDeq(t)
    BY <1>0, <2>1 DEF TypeOK, WriteParameter, PollDeq
  <2>2. CASE RequestEnq(t) \/ RequestDeq(t)
    BY <1>0, <1>1, <2>2 DEF TypeOK, RequestEnq, RequestDeq
  <2>3. CASE PollEnq(t) \/ ReadParameter(t)
    <3>1. count' \in [Threads -> Nat]
      BY <1>0, <1>1, <2>3 DEF TypeOK, PollEnq, ReadParameter
    <3> QED
      BY <1>0, <2>3, <3>1 DEF TypeOK, PollEnq, ReadParameter
  <2> QED
    BY <1>1, <2>1, <2>2, <2>3 DEF Thread
<1>2. CASE MainInit \/ MainWait \/ MainOpen \/ MainParameter \/ MainOff
  BY <1>0, <1>2 DEF TypeOK, Start, MainInit, MainWait, MainOpen, MainParameter, MainOff
<1>3. CASE MainRequest
  BY <1>0, <1>3, ThreadFacts DEF TypeOK, MainRequest
<1>4. CASE MainRound
  <2>1. 2 * round' \in Nat \ {0} /\ TotalOps \in Nat /\ round' \in 0..Rounds
    BY <1>0, <1>4, RoundsAssumption DEF TypeOK, MainRound
  <2>2. TotalOps \div (2 * round') \in Nat
    BY <2>1, Share, Zenon
  <2> QED
    BY <1>0, <1>4, <2>1, <2>2 DEF TypeOK, MainRound, Start
<1>5. CASE MainPoll
  <2>1. size < InitialSize
    BY <1>5 DEF Inv, MainOK, MainPoll, Filling
  <2> QED
    BY <1>0, <1>5, <2>1, RoundsAssumption DEF TypeOK, MainPoll
<1>6. CASE Enter \/ InitQueue \/ Test3 \/ Test1 \/ Test0
  BY <1>0, <1>6, RoundsAssumption, ThreadFacts DEF TypeOK, Enter, InitQueue, Test3, Test1, Test0
<1>7. CASE Scan
  BY <1>0, <1>7, ThreadFacts DEF TypeOK, Scan
<1>8. CASE ServeDeq \/ ServeEnq
  <2>1. Bump(head) \in 0..(MaxIndex - 1) /\ Bump(tail) \in 0..(MaxIndex - 1)
    BY <1>0, RoundsAssumption DEF TypeOK, Bump
  <2> QED
    BY <1>0, <1>8, <2>1 DEF TypeOK, ServeDeq, ServeEnq
<1>9. CASE Reply
  <2>1. ki \in Threads /\ ki + 1 \in 0..NumThreads
    BY <1>9, ThreadFacts DEF Inv, KernelOK, Reply, Threads
  <2> QED
    BY <1>0, <1>9, <2>1 DEF TypeOK, Reply
<1>10. CASE UNCHANGED vars
  BY <1>0, <1>10 DEF TypeOK, vars
<1> QED
  BY <1>1, <1>2, <1>3, <1>4, <1>5, <1>6, <1>7, <1>8, <1>9, <1>10 DEF Next, Finished, Main, Kernel

\* Every step keeps the types of the buffer, the parameters and the history.
LEMMA HistoryStep ==
  ASSUME Inv, [Next]_vars
  PROVE  HistoryOK'
<1> USE DEF regs, slots, core, queue, threads, mainVars, history
<1>0. TypeOK /\ HistoryOK /\ NoCall \in Calls /\ NoItem \in Vals
  BY DEF Inv, NoCall, Calls, Vals
<1>1. ASSUME NEW t \in Threads, Thread(t) PROVE HistoryOK'
  <2>1. CASE WriteParameter(t)
    <3>1. Item(t) \in Vals
      BY <1>1, <2>1, ItemTypes DEF WriteParameter, Running, Vals
    <3> QED
      BY <1>0, <1>1, <2>1, <3>1 DEF HistoryOK, WriteParameter, Open
  <2>2. CASE RequestEnq(t) \/ PollDeq(t)
    BY <1>0, <2>2 DEF HistoryOK, RequestEnq, PollDeq
  <2>3. CASE RequestDeq(t)
    BY <1>0, <1>1, <2>3 DEF HistoryOK, RequestDeq, Open
  <2>4. CASE PollEnq(t)
    <3>1. Item(t) \in Vals
      BY <1>1, <2>4, ItemTypes, Zenon DEF Inv, SlotOK, PollEnq, Vals
    <3> QED
      BY <1>0, <1>1, <2>4, <3>1 DEF HistoryOK, PollEnq, Return, Calls
  <2>5. CASE ReadParameter(t)
    BY <1>0, <1>1, <2>5 DEF HistoryOK, ReadParameter, Return, Calls
  <2> QED
    BY <1>1, <2>1, <2>2, <2>3, <2>4, <2>5 DEF Thread
<1>2. CASE MainInit \/ MainWait \/ MainOpen \/ MainRequest \/ MainOff \/ MainRound
  BY <1>0, <1>2, Zenon DEF HistoryOK, Start, MainInit, MainWait, MainOpen, MainRequest, MainOff, MainRound
<1>3. CASE MainParameter
  <2>1. MainItem \in Vals
    BY <1>3, ItemTypes DEF MainParameter, Vals
  <2> QED
    BY <1>0, <1>3, <2>1, ThreadFacts, Zenon DEF HistoryOK, MainParameter, Open
<1>4. CASE MainPoll
  <2>1. MainItem \in Vals
    BY <1>4, ItemTypes DEF Inv, MainOK, MainPoll, Filling, Vals
  <2> QED
    BY <1>0, <1>4, <2>1, ThreadFacts DEF HistoryOK, MainPoll, Return, Calls
<1>5. CASE Enter \/ InitQueue \/ Test3 \/ Test1 \/ Test0 \/ Scan \/ Reply
  BY <1>0, <1>5, Zenon DEF HistoryOK, Enter, InitQueue, Test3, Test1, Test0, Scan, Reply
<1>6. CASE ServeDeq
  <2>1. ki \in Threads /\ call[ki] \in Calls /\ buf[head] \in Vals
    BY <1>0, <1>6, ServingFacts, Zenon DEF ServeDeq, TypeOK, HistoryOK
  <2>2. [op |-> call[ki].op, item |-> buf[head], done |-> TRUE] \in Calls
    BY <2>1, ZenonT(60) DEF Calls
  <2>3. call' \in [Threads -> Calls]
    BY <1>0, <1>6, <2>1, <2>2 DEF HistoryOK, ServeDeq, Calls
  <2> QED
    BY <1>0, <1>6, <2>1, <2>3 DEF HistoryOK, ServeDeq, Calls
<1>7. CASE ServeEnq
  <2>1. ki \in Threads /\ call[ki] \in Calls /\ param[ki] \in Vals
    BY <1>0, <1>7, ServingFacts DEF ServeEnq, HistoryOK
  <2>2. [op |-> call[ki].op, item |-> call[ki].item, done |-> TRUE] \in Calls
    BY <2>1 DEF Calls
  <2>3. call' \in [Threads -> Calls]
    BY <1>0, <1>7, <2>1, <2>2 DEF HistoryOK, ServeEnq, Calls
  <2>4. param' = param /\ got' = got /\ len' = len + 1 /\ buf' = [buf EXCEPT ![tail] = param[ki]]
    BY <1>7 DEF ServeEnq
  <2>5. buf' \in [0..(MaxIndex - 1) -> Vals]
    BY <1>0, <2>1, <2>4, Zenon DEF HistoryOK
  <2> QED
    BY <1>0, <2>3, <2>4, <2>5 DEF HistoryOK, Calls
<1>8. CASE UNCHANGED vars
  BY <1>0, <1>8 DEF HistoryOK, vars
<1> QED
  BY <1>1, <1>2, <1>3, <1>4, <1>5, <1>6, <1>7, <1>8 DEF Next, Finished, Main, Kernel

-----------------------------------------------------------------------------
(* The counters of main and the kernel.                                    *)

\* Every step keeps what the place of main says about the rest of the state.
LEMMA MainOKStep ==
  ASSUME Inv, [Next]_vars
  PROVE  MainOK'
<1> USE DEF regs, slots, core, queue, threads, mainVars, history
<1>0. TypeOK /\ MainOK
  BY DEF Inv
<1>1. ASSUME NEW t \in Threads, Thread(t) PROVE MainOK'
  <2>1. CASE WriteParameter(t) \/ RequestEnq(t) \/ RequestDeq(t) \/ PollDeq(t)
    BY <1>0, <2>1, Zenon DEF MainOK, Setup, Filling, WriteParameter, RequestEnq, RequestDeq, PollDeq
  <2>2. CASE PollEnq(t) \/ ReadParameter(t)
    <3>1. mainPc = "join" /\ t < 2 * round /\ count[t] < numOps
      BY <1>1, <2>2, Zenon DEF Inv, SlotOK, PollEnq, ReadParameter
    <3>2. /\ count' = [count EXCEPT ![t] = @ + 1] /\ UNCHANGED <<regs, len, numOps, mainVars>>
      BY <2>2, ZenonT(60) DEF PollEnq, ReadParameter
    <3>3. \A u \in Threads : IF u < 2 * round THEN count'[u] <= numOps ELSE count'[u] = 0
      BY <1>0, <1>1, <3>1, <3>2 DEF MainOK, TypeOK
    <3> QED
      BY <1>0, <3>1, <3>2, <3>3 DEF MainOK, Setup, Filling
  <2> QED
    BY <1>1, <2>1, <2>2 DEF Thread
<1>2. CASE MainInit \/ MainWait \/ MainOpen
  BY <1>0, <1>2 DEF MainOK, TypeOK, Setup, Filling, Start, MainInit, MainWait, MainOpen
<1>3. CASE MainParameter \/ MainRequest \/ MainPoll
  BY <1>0, <1>3, ZenonT(60) DEF MainOK, TypeOK, Setup, Filling, MainParameter, MainRequest, MainPoll
<1>4. CASE MainOff
  <2>1. \A t \in Threads : IF t < 2 * round THEN count[t] = numOps ELSE count[t] = 0
    BY <1>0, <1>4, ThreadFacts DEF MainOK, TypeOK, MainOff
  <2>2. size = InitialSize
    BY <1>0, <1>4 DEF MainOK, MainOff
  <2> QED
    BY <1>0, <1>4, <2>1, <2>2, SMTT(60) DEF MainOK, TypeOK, Setup, Filling, MainOff
<1>5. CASE MainRound
  <2>1. 2 * round' \in Nat \ {0} /\ TotalOps \in Nat
    BY <1>0, <1>5, RoundsAssumption DEF TypeOK, MainRound
  <2>2. numOps' \in Nat /\ numOps' <= TotalOps
    BY <1>5, <2>1, Share DEF MainRound
  <2>3. \A t \in Threads : count'[t] = 0
    BY <1>5 DEF MainRound
  <2>4. size' = InitialSize /\ mainPc' = "join" /\ sreg0' = 1
    BY <1>0, <1>5 DEF MainOK, MainRound, Start
  <2> QED
    BY <2>2, <2>3, <2>4 DEF MainOK, Setup, Filling
<1>6. CASE Enter \/ InitQueue \/ Test3 \/ Test1 \/ Test0 \/ Scan \/ Reply
  <2>1. /\ UNCHANGED <<threads, mainVars, len>>
        /\ phase' = phase \/ sreg0 = 0 \/ mainPc # "init"
        /\ sreg0' = sreg0 \/ sreg0' = 0
    BY <1>6, Zenon DEF Enter, InitQueue, Test3, Test1, Test0, Scan, Reply
  <2>2. phase' = "served" => phase = "served" \/ sreg0' = 0
    BY <1>6, Zenon DEF Enter, InitQueue, Test3, Test1, Test0, Scan, Reply
  <2>3. phase = "idle" => phase' = "idle"
    BY <1>0, <1>6, ZenonT(60) DEF Inv, KernelOK, Enter, InitQueue, Test3, Test1, Test0, Scan, Reply
  <2> QED
    BY <1>0, <2>1, <2>2, <2>3 DEF MainOK, Setup, Filling
<1>7. CASE ServeDeq \/ ServeEnq
  <2>1. ~Setup
    BY <1>7, ServingFacts, ZenonT(60) DEF ServeDeq, ServeEnq, Setup, Asking, SlotOK
  <2> QED
    BY <1>0, <1>7, <2>1, Zenon DEF MainOK, TypeOK, Setup, Filling, ServeDeq, ServeEnq
<1>8. CASE UNCHANGED vars
  BY <1>0, <1>8, Zenon DEF MainOK, Setup, Filling, vars
<1> QED
  BY <1>1, <1>2, <1>3, <1>4, <1>5, <1>6, <1>7, <1>8 DEF Next, Finished, Main, Kernel

\* Every step keeps what the place of the kernel says about its slot.
LEMMA KernelOKStep ==
  ASSUME Inv, [Next]_vars
  PROVE  KernelOK'
<1> USE DEF regs, slots, core, queue, threads, mainVars, history
<1>0. TypeOK /\ KernelOK /\ HistoryOK
  BY DEF Inv
<1>1. ASSUME NEW t \in Threads, Thread(t) PROVE KernelOK'
  <2>0. kpc' = kpc /\ ki' = ki /\ phase' = phase
    BY <1>1, ZenonT(60) DEF Thread, WriteParameter, RequestEnq, RequestDeq, PollEnq, PollDeq, ReadParameter
  <2>1. kpc \in {"serve", "reply"} => slot'[ki] # "clear"
    BY <1>0, <1>1, ZenonT(60) DEF KernelOK, TypeOK, Thread, WriteParameter, RequestEnq, RequestDeq, PollEnq,
       PollDeq, ReadParameter
  <2>2. kpc = "reply" => call'[ki] = call[ki]
    <3>1. kpc = "reply" => /\ ki \in Threads /\ slot[ki] # "clear" /\ call[ki].done
                           /\ Asking(ki) /\ SlotOK(ki)
      BY ZenonT(60) DEF Inv, KernelOK, SlotOK
    <3>2. kpc = "reply" /\ pc[ki] # "poll" => mainPc # "join"
      BY <3>1 DEF Asking
    <3>3. kpc = "reply" => pc[ki] = "poll" \/ (pc[ki] = "begin" /\ mainPc # "join")
      BY <3>1, <3>2, Zenon DEF SlotOK
    <3>4. kpc = "reply" => t # ki
      BY <1>1, <3>1, <3>3, ZenonT(60) DEF Thread, WriteParameter, RequestEnq, RequestDeq, PollEnq, PollDeq, ReadParameter,
         Running
    <3>5. ki # t /\ ki \in Threads => call'[ki] = call[ki]
      BY <1>0, <1>1, Zenon DEF HistoryOK, Thread, WriteParameter, RequestEnq, RequestDeq,
         PollEnq, PollDeq, ReadParameter, Open, Return
    <3> QED
      BY <3>1, <3>4, <3>5
  <2> QED
    BY <1>0, <2>0, <2>1, <2>2 DEF KernelOK
<1>2. CASE Main
  <2>0. kpc' = kpc /\ ki' = ki /\ (phase' # "called" => phase # "called")
    BY <1>2, ZenonT(60) DEF Main, Start, MainInit, MainWait, MainOpen, MainParameter, MainRequest, MainPoll,
       MainOff, MainRound
  <2>1. kpc \in {"serve", "reply"} => slot'[ki] # "clear"
    BY <1>0, <1>2, ZenonT(60) DEF KernelOK, TypeOK, Main, Start, MainInit, MainWait, MainOpen, MainParameter,
       MainRequest, MainPoll, MainOff, MainRound
  <2>2. kpc = "reply" => call'[ki] = call[ki]
    <3>1. kpc = "reply" => /\ ki \in Threads /\ slot[ki] # "clear" /\ Asking(ki) /\ SlotOK(ki)
      BY Zenon DEF Inv, KernelOK, SlotOK
    <3>2. kpc = "reply" => mainPc # "fill"
      BY <3>1, Zenon DEF Asking, SlotOK
    <3> QED
      BY <1>0, <1>2, <3>1, <3>2, ZenonT(60) DEF HistoryOK, Main, Start, MainInit, MainWait, MainOpen,
         MainParameter, MainRequest, MainPoll, MainOff, MainRound, Open, Return
  <2> QED
    BY <1>0, <2>0, <2>1, <2>2, ZenonT(60) DEF KernelOK
<1>3. CASE Enter \/ InitQueue \/ Test3 \/ Test1 \/ Test0 \/ Reply
  BY <1>0, <1>3, ZenonT(60) DEF KernelOK, Enter, InitQueue, Test3, Test1, Test0, Reply
<1>4. CASE Scan
  <2>1. ki # NumThreads => ki \in Threads
    BY <1>0, ThreadFacts DEF TypeOK, Threads
  <2> QED
    BY <1>0, <1>4, <2>1 DEF KernelOK, Scan
<1>5. CASE ServeDeq \/ ServeEnq
  <2>1. ki \in Threads /\ slot[ki] # "clear"
    BY <1>5, ServingFacts, Zenon DEF ServeDeq, ServeEnq
  <2>2. call'[ki].done /\ ki' = ki /\ slot' = slot /\ kpc' = "reply" /\ phase' = "called"
    BY <1>0, <1>5, <2>1, SMTT(60) DEF HistoryOK, KernelOK, ServeDeq, ServeEnq
  <2> QED
    BY <2>1, <2>2 DEF KernelOK
<1>6. CASE UNCHANGED vars
  BY <1>0, <1>6, Zenon DEF KernelOK, vars
<1> QED
  BY <1>1, <1>2, <1>3, <1>4, <1>5, <1>6 DEF Next, Finished, Kernel

-----------------------------------------------------------------------------
\* Ahead and Behind are finite, with at most the threads that can be in them.
LEMMA Bounds ==
  /\ IsFiniteSet(Ahead) /\ Cardinality(Ahead) \in Nat
  /\ Cardinality(Ahead) <= Cardinality(EnqFirst)
  /\ Ahead # EnqFirst => Cardinality(Ahead) < Cardinality(EnqFirst)
  /\ IsFiniteSet(Behind) /\ Cardinality(Behind) \in Nat
  /\ Cardinality(Behind) <= Cardinality(DeqFirst)
  /\ Behind # DeqFirst => Cardinality(Behind) < Cardinality(DeqFirst)
<1>1. Ahead \subseteq EnqFirst /\ Behind \subseteq DeqFirst
  BY DEF Ahead, Behind
<1>2. /\ IsFiniteSet(Ahead) /\ Cardinality(Ahead) <= Cardinality(EnqFirst)
      /\ Cardinality(Ahead) = Cardinality(EnqFirst) => Ahead = EnqFirst
  BY <1>1, ThreadFacts, FS_Subset
<1>3. /\ IsFiniteSet(Behind) /\ Cardinality(Behind) <= Cardinality(DeqFirst)
      /\ Cardinality(Behind) = Cardinality(DeqFirst) => Behind = DeqFirst
  BY <1>1, ThreadFacts, FS_Subset
<1>4. Cardinality(Ahead) \in Nat /\ Cardinality(Behind) \in Nat
  BY <1>2, <1>3, FS_CardinalityType
<1> QED
  BY <1>2, <1>3, <1>4, ThreadFacts

\* Parity of a sum.
LEMMA Parity ==
  ASSUME NEW a \in Nat, NEW b \in Nat
  PROVE  /\ a % 2 \in {0, 1} /\ b % 2 \in {0, 1}
         /\ (a + b) % 2 = 0 <=> a % 2 = b % 2
  OBVIOUS

\* A thread that the kernel serves is taken out of, or put into, the set of
\* threads that are ahead or behind.
LEMMA ServedOnce ==
  ASSUME Inv, kpc = "serve"
  PROVE  /\ Served(ki) = count[ki] /\ count[ki] \in Nat /\ ki \in Nat
         /\ slot[ki] = "enq" => IF ki \in EnqFirst THEN ki \notin Ahead ELSE ki \in Behind
         /\ slot[ki] = "deq" => IF ki \in EnqFirst THEN ki \in Ahead ELSE ki \notin Behind
<1>1. ki \in Threads /\ slot[ki] = OpKind(ki) /\ ~call[ki].done
  BY ServingFacts
<1>2. Served(ki) = count[ki] /\ count[ki] \in Nat /\ ki \in Nat
  BY <1>1, ThreadFacts DEF Served, Inv, TypeOK
<1>3. slot[ki] = "enq" => (count[ki] + ki) % 2 = 0
  BY <1>1 DEF OpKind
<1>4. slot[ki] = "deq" => (count[ki] + ki) % 2 # 0
  BY <1>1 DEF OpKind
<1>5. CASE ki \in EnqFirst
  <2>1. ki % 2 = 0
    BY <1>5 DEF EnqFirst
  <2>2. slot[ki] = "enq" => count[ki] % 2 # 1
    BY <1>2, <1>3, <2>1, Parity
  <2>3. slot[ki] = "deq" => count[ki] % 2 = 1
    BY <1>2, <1>4, <2>1, Parity
  <2> QED
    BY <1>2, <1>5, <2>2, <2>3 DEF Ahead
<1>6. CASE ki \notin EnqFirst
  <2>1. ki \in DeqFirst /\ ki % 2 = 1
    BY <1>1, <1>6, ThreadFacts DEF DeqFirst
  <2>2. slot[ki] = "enq" => count[ki] % 2 = 1
    BY <1>2, <1>3, <2>1, Parity
  <2>3. slot[ki] = "deq" => count[ki] % 2 # 1
    BY <1>2, <1>4, <2>1, Parity
  <2> QED
    BY <1>2, <1>6, <2>1, <2>2, <2>3 DEF Behind
<1> QED
  BY <1>2, <1>5, <1>6

\* The inductive invariant keeps the buffer from running empty or full.
LEMMA NeverEmptyNorFullHolds ==
  ASSUME Inv
  PROVE  NeverEmptyNorFull
<1> SUFFICES ASSUME kpc = "serve" PROVE IF slot[ki] = "enq" THEN len < MaxIndex ELSE len > 0
  BY DEF NeverEmptyNorFull
<1>1. ki \in Threads /\ slot[ki] = OpKind(ki) /\ Asking(ki) /\ SlotOK(ki)
  BY ServingFacts
<1>2. /\ size \in Nat /\ size <= InitialSize /\ len = size + Cardinality(Ahead) - Cardinality(Behind)
      /\ len \in Int
  BY RoundsAssumption DEF Inv, LengthOK, TypeOK, HistoryOK
<1>3. ki \notin EnqFirst => ki \in DeqFirst
  BY <1>1, ThreadFacts
<1>4. CASE slot[ki] = "enq"
  <2>1. Cardinality(Ahead) < Cardinality(EnqFirst) \/ Cardinality(Behind) > 0
    <3>1. CASE ki \in EnqFirst
      BY <1>4, <3>1, ServedOnce, Bounds
    <3>2. CASE ki \notin EnqFirst
      BY <1>4, <3>2, ServedOnce, Bounds, FS_EmptySet
    <3> QED
      BY <3>1, <3>2
  <2> QED
    BY <1>2, <1>4, <2>1, Parity, Bounds, BufferAssumption, ThreadFacts, RoundsAssumption
<1>5. CASE slot[ki] # "enq"
  <2>0. OpKind(ki) = "deq" /\ slot[ki] = "deq"
    BY <1>1, <1>5 DEF OpKind
  <2>1. mainPc = "join"
    <3>1. mainPc = "fillPoll" => round = 0
      BY DEF Inv, MainOK, Filling
    <3>2. mainPc = "fillPoll" /\ ki = 0 => OpKind(ki) = "enq"
      <4>1. mainPc = "fillPoll" /\ ki = 0 => count[ki] = 0
        BY <1>1, <3>1 DEF Inv, MainOK
      <4> QED
        BY <4>1 DEF OpKind
    <3> QED
      BY <1>1, <2>0, <3>2, Zenon DEF Asking, SlotOK
  <2>2. size = InitialSize
    BY <2>1 DEF Inv, MainOK
  <2>3. Cardinality(Behind) < Cardinality(DeqFirst) \/ Cardinality(Ahead) > 0
    <3>1. CASE ki \in EnqFirst
      BY <2>0, <3>1, ServedOnce, Bounds, FS_EmptySet
    <3>2. CASE ki \notin EnqFirst
      BY <1>3, <2>0, <3>2, ServedOnce, Bounds
    <3> QED
      BY <3>1, <3>2
  <2> QED
    BY <1>2, <1>5, <2>2, <2>3, Bounds, BufferAssumption, ThreadFacts, RoundsAssumption
<1> QED
  BY <1>4, <1>5

\* The length of the queue follows the sets Ahead and Behind when the kernel
\* serves a request.
LEMMA LengthServe ==
  ASSUME Inv, ServeDeq \/ ServeEnq
  PROVE  LengthOK'
<1> USE DEF regs, slots, core, queue, threads, mainVars, history
<1>0. /\ HistoryOK /\ TypeOK /\ ki \in Threads /\ kpc = "serve" /\ len \in Int /\ size \in Nat
      /\ len = size + Cardinality(Ahead) - Cardinality(Behind)
  <2>1. kpc = "serve"
    BY DEF ServeDeq, ServeEnq
  <2>2. HistoryOK /\ TypeOK /\ LengthOK
    BY Zenon DEF Inv
  <2>3. ki \in Threads /\ len \in Int
    BY <2>1, <2>2, ServingFacts, Zenon DEF HistoryOK
  <2>4. size \in Nat
    BY <2>2, RoundsAssumption DEF TypeOK
  <2> QED
    BY <2>1, <2>2, <2>3, <2>4, Zenon DEF LengthOK
<1>a. /\ size' = size /\ ki' = ki /\ count' = count /\ slot[ki] \in {"enq", "deq"}
      /\ len' = (IF slot[ki] = "enq" THEN len + 1 ELSE len - 1)
  BY Zenon DEF ServeDeq, ServeEnq
<1>1. Served(ki)' = count[ki] + 1 /\ Served(ki) = count[ki] /\ count[ki] \in Nat
  <2>1. call'[ki].done
    BY <1>0 DEF HistoryOK, ServeDeq, ServeEnq
  <2> QED
    BY <1>0, <1>a, <2>1, ServedOnce DEF Served
<1>2. \A t \in Threads \ {ki} : Served(t)' = Served(t)
  BY <1>0, Zenon DEF HistoryOK, Served, ServeDeq, ServeEnq
<1>3. Served(ki)' % 2 = 1 <=> Served(ki) % 2 # 1
  BY <1>1, Parity
<1>4. EnqFirst \subseteq Threads /\ DeqFirst \subseteq Threads /\ EnqFirst \cap DeqFirst = {}
      /\ (ki \in EnqFirst \/ ki \in DeqFirst)
  BY <1>0, ThreadFacts DEF EnqFirst, DeqFirst
<1>5. CASE ki \in EnqFirst
  <2>1. Behind' = Behind
    BY <1>a, <1>2, <1>4, <1>5 DEF Behind
  <2>2. Ahead' = IF ki \in Ahead THEN Ahead \ {ki} ELSE Ahead \cup {ki}
    BY <1>a, <1>2, <1>3, <1>4, <1>5 DEF Ahead
  <2>3. Cardinality(Ahead') = IF ki \in Ahead THEN Cardinality(Ahead) - 1 ELSE Cardinality(Ahead) + 1
    <3>1. CASE ki \in Ahead
      BY <2>2, <3>1, Bounds, FS_RemoveElement, Zenon
    <3>2. CASE ki \notin Ahead
      BY <2>2, <3>2, Bounds, FS_AddElement, Zenon
    <3> QED
      BY <3>1, <3>2
  <2>4. slot[ki] = "enq" <=> ki \notin Ahead
    BY <1>0, <1>a, <1>5, ServedOnce
  <2> QED
    BY <1>0, <1>a, <2>1, <2>3, <2>4, Bounds DEF LengthOK
<1>6. CASE ki \notin EnqFirst
  <2>1. Ahead' = Ahead
    BY <1>a, <1>2, <1>4, <1>6 DEF Ahead
  <2>2. Behind' = IF ki \in Behind THEN Behind \ {ki} ELSE Behind \cup {ki}
    BY <1>a, <1>2, <1>3, <1>4, <1>6 DEF Behind
  <2>3. Cardinality(Behind') = IF ki \in Behind THEN Cardinality(Behind) - 1 ELSE Cardinality(Behind) + 1
    <3>1. CASE ki \in Behind
      BY <2>2, <3>1, Bounds, FS_RemoveElement, Zenon
    <3>2. CASE ki \notin Behind
      BY <2>2, <3>2, Bounds, FS_AddElement, Zenon
    <3> QED
      BY <3>1, <3>2
  <2>4. slot[ki] = "enq" <=> ki \in Behind
    BY <1>0, <1>a, <1>6, ServedOnce
  <2> QED
    BY <1>0, <1>a, <2>1, <2>3, <2>4, Bounds DEF LengthOK
<1> QED
  BY <1>5, <1>6

\* Opening a call serves nobody: the call that replaces it is not done yet.
LEMMA OpenServes ==
  ASSUME NEW t \in Threads, NEW op, NEW v, HistoryOK, call[t] = NoCall, Open(t, op, v), count' = count
  PROVE  \A u \in Threads : Served(u)' = Served(u)
<1>1. DOMAIN call = Threads /\ ~call[t].done
  BY DEF HistoryOK, NoCall
<1>2. ~call'[t].done /\ \A u \in Threads \ {t} : call'[u] = call[u]
  BY <1>1 DEF Open
<1> QED
  BY <1>1, <1>2 DEF Served

\* Returning from a call that is done counts it: the thread is served as often
\* before as after.
LEMMA ReturnServes ==
  ASSUME NEW t \in Threads, NEW v, HistoryOK, TypeOK, call[t].done, Return(t, v),
         count' = [count EXCEPT ![t] = @ + 1]
  PROVE  Served(t)' = Served(t)
<1>1. DOMAIN call = Threads /\ DOMAIN count = Threads
  BY DEF HistoryOK, TypeOK
<1>2. call'[t] = NoCall /\ count'[t] = count[t] + 1
  BY <1>1 DEF Return
<1>3. ~call'[t].done
  BY <1>2 DEF NoCall
<1> QED
  BY <1>2, <1>3 DEF Served

\* Nothing else changes the length, or who is ahead or behind; main counts an
\* item of the fill when its call returns, and a round leaves as many threads
\* ahead as behind.
LEMMA LengthStep ==
  ASSUME Inv, [Next]_vars
  PROVE  LengthOK'
<1> USE DEF regs, slots, core, queue, threads, mainVars, history
<1>0. /\ TypeOK /\ HistoryOK /\ MainOK /\ LengthOK /\ \A t \in Threads : SlotOK(t)
      /\ EnqFirst \subseteq Threads /\ DeqFirst \subseteq Threads
  BY DEF Inv, EnqFirst, DeqFirst
<1>1. ASSUME UNCHANGED <<len, size>>, \A t \in Threads : Served(t)' = Served(t) PROVE LengthOK'
  <2>1. Ahead' = Ahead /\ Behind' = Behind
    BY <1>0, <1>1 DEF Ahead, Behind
  <2> QED
    BY <1>0, <1>1, <2>1 DEF LengthOK
<1>2. ASSUME NEW t \in Threads, Thread(t) PROVE LengthOK'
  <2>1. UNCHANGED <<len, size>>
    BY <1>2, Zenon DEF Thread, WriteParameter, RequestEnq, RequestDeq, PollEnq, PollDeq, ReadParameter
  <2>2. \A u \in Threads \ {t} : Served(u)' = Served(u)
    BY <1>0, <1>2, ZenonT(60) DEF TypeOK, HistoryOK, Served, Thread, WriteParameter, RequestEnq, RequestDeq,
       PollEnq, PollDeq, ReadParameter, Open, Return
  <2>3. Served(t)' = Served(t)
    <3>1. CASE WriteParameter(t) \/ RequestDeq(t)
      <4>1. call[t] = NoCall
        BY <1>0, <1>2, <3>1, Zenon DEF SlotOK, Filling, WriteParameter, RequestDeq, Running
      <4>2. count' = count /\ (Open(t, "enq", Item(t)) \/ Open(t, "deq", NoItem))
        BY <3>1, Zenon DEF WriteParameter, RequestDeq
      <4> QED
        BY <1>0, <4>1, <4>2, OpenServes, Zenon
    <3>2. CASE RequestEnq(t) \/ PollDeq(t)
      BY <3>2, Zenon DEF Served, RequestEnq, PollDeq
    <3>3. CASE PollEnq(t) \/ ReadParameter(t)
      <4>1. call[t].done
        BY <1>0, <1>2, <3>3, Zenon DEF SlotOK, Asking, PollEnq, ReadParameter
      <4>2. count' = [count EXCEPT ![t] = @ + 1] /\ (Return(t, Item(t)) \/ Return(t, param[t]))
        BY <3>3, Zenon DEF PollEnq, ReadParameter
      <4> QED
        BY <1>0, <4>1, <4>2, ReturnServes, Zenon
    <3> QED
      BY <1>2, <3>1, <3>2, <3>3 DEF Thread
  <2> QED
    BY <1>1, <2>1, <2>2, <2>3
<1>3. CASE MainInit \/ MainWait \/ MainOpen \/ MainRequest \/ MainOff
  BY <1>1, <1>3, Zenon DEF Served, MainInit, MainWait, MainOpen, MainRequest, MainOff
<1>4. CASE MainParameter
  <2>1. call[0] = NoCall
    BY <1>0, <1>4, ThreadFacts, Zenon DEF SlotOK, Filling, MainParameter
  <2>2. \A t \in Threads : Served(t)' = Served(t)
    <3>1. count' = count /\ Open(0, "enq", MainItem)
      BY <1>4, Zenon DEF MainParameter
    <3> QED
      BY <1>0, <2>1, <3>1, ThreadFacts, OpenServes, Zenon
  <2> QED
    BY <1>1, <1>4, <2>2 DEF MainParameter
<1>5. CASE MainPoll
  <2>0. /\ mainPc = "fillPoll" /\ slot[0] = "clear" /\ count' = count /\ size' = size + 1 /\ len' = len
        /\ call' = [call EXCEPT ![0] = NoCall] /\ round = 0 /\ 0 \in Threads /\ size \in Nat
    <3>1. /\ mainPc = "fillPoll" /\ slot[0] = "clear" /\ count' = count /\ size' = size + 1 /\ len' = len
          /\ call' = [call EXCEPT ![0] = NoCall]
      BY <1>5, Zenon DEF MainPoll, Return
    <3>2. size \in Nat
      BY <1>0, RoundsAssumption DEF TypeOK
    <3> QED
      BY <1>0, <3>1, <3>2, ThreadFacts, Zenon DEF MainOK, Filling
  <2>1. call[0].done
    BY <1>0, <2>0, Zenon DEF SlotOK, Asking
  <2>2. count[0] = 0
    BY <1>0, <2>0 DEF MainOK
  <2>3. Served(0) = 1 /\ Served(0)' = 0 /\ \A t \in Threads \ {0} : Served(t)' = Served(t)
    <3>1. DOMAIN call = Threads /\ NoCall.done = FALSE
      BY <1>0 DEF HistoryOK, NoCall
    <3>2. ~call'[0].done /\ \A t \in Threads \ {0} : call'[t] = call[t]
      BY <2>0, <3>1, Zenon
    <3> QED
      BY <2>0, <2>1, <2>2, <3>2 DEF Served
  <2>4. 0 \in EnqFirst /\ 0 \notin DeqFirst
    BY <2>0 DEF EnqFirst, DeqFirst
  <2>5. Behind' = Behind
    BY <1>0, <2>3, <2>4 DEF Behind
  <2>6. Ahead' = Ahead \ {0} /\ 0 \in Ahead
    BY <1>0, <2>3, <2>4 DEF Ahead
  <2>7. Cardinality(Ahead') = Cardinality(Ahead) - 1
    BY <2>6, Bounds, FS_RemoveElement, Zenon
  <2> QED
    BY <1>0, <2>0, <2>5, <2>7, Bounds DEF LengthOK
<1>6. CASE MainRound
  <2>0. /\ mainPc = "round" /\ size' = size /\ len' = len /\ call' = call
        /\ count' = [t \in Threads |-> 0] /\ round \in 0..Rounds /\ numOps \in Nat
    <3>1. /\ mainPc = "round" /\ size' = size /\ len' = len /\ call' = call
          /\ count' = [t \in Threads |-> 0]
      BY <1>6, Zenon DEF MainRound
    <3> QED
      BY <1>0, <3>1, Zenon DEF TypeOK
  <2>1. \A t \in Threads : call[t] = NoCall
    BY <1>0, <2>0, Zenon DEF SlotOK, Filling, TypeOK
  <2>2. \A t \in Threads : Served(t) = (IF t < 2 * round THEN numOps ELSE 0) /\ Served(t)' = 0
    BY <1>0, <2>0, <2>1, SMTT(60) DEF Served, NoCall, MainOK
  <2>3. Ahead' = {} /\ Behind' = {}
    BY <1>0, <2>2 DEF Ahead, Behind
  <2>4. Cardinality(Ahead) = Cardinality(Behind)
    <3>1. CASE numOps % 2 = 1
      <4>1. Ahead = {t \in EnqFirst : t < 2 * round}
        BY <1>0, <2>2, <3>1 DEF Ahead
      <4>2. Behind = {t \in DeqFirst : t < 2 * round}
        BY <1>0, <2>2, <3>1 DEF Behind
      <4> QED
        BY <2>0, <4>1, <4>2, Halves
    <3>2. CASE numOps % 2 # 1
      <4>1. Ahead = {} /\ Behind = {}
        BY <1>0, <2>2, <3>2 DEF Ahead, Behind
      <4> QED
        BY <4>1
    <3> QED
      BY <3>1, <3>2
  <2> QED
    BY <1>0, <2>0, <2>3, <2>4, Bounds, FS_EmptySet, RoundsAssumption, SMTT(60) DEF LengthOK, TypeOK
<1>7. CASE Enter \/ InitQueue \/ Test3 \/ Test1 \/ Test0 \/ Scan \/ Reply
  BY <1>1, <1>7, ZenonT(60) DEF Served, Enter, InitQueue, Test3, Test1, Test0, Scan, Reply
<1>8. CASE UNCHANGED vars
  BY <1>1, <1>8, ZenonT(60) DEF Served, vars
<1> QED
  BY <1>2, <1>3, <1>4, <1>5, <1>6, <1>7, <1>8, LengthServe DEF Next, Finished, Main, Kernel

-----------------------------------------------------------------------------
(* The window of the buffer that holds the queue.                          *)

\* tail stays len places after head, modulo the size of the buffer.
LEMMA TailStep ==
  ASSUME Inv, [Next]_vars
  PROVE  TailOK'
<1> USE DEF regs, slots, core, queue, threads, mainVars, history
<1>0. /\ TailOK /\ MainOK /\ MaxIndex \in Nat \ {0} /\ head \in 0..(MaxIndex - 1)
      /\ tail \in 0..(MaxIndex - 1) /\ len \in Int
  BY RoundsAssumption DEF Inv, TypeOK, HistoryOK
<1>1. ASSUME UNCHANGED <<head, tail, len>> PROVE TailOK'
  BY <1>0, <1>1 DEF TailOK, Wrap
<1>2. ASSUME NEW t \in Threads, Thread(t) PROVE TailOK'
  BY <1>1, <1>2, ZenonT(60) DEF Thread, WriteParameter, RequestEnq, RequestDeq, PollEnq, PollDeq, ReadParameter
<1>3. CASE Main
  BY <1>1, <1>3, ZenonT(60) DEF Main, MainInit, MainWait, MainOpen, MainParameter, MainRequest, MainPoll, MainOff,
     MainRound
<1>4. CASE Enter \/ Test3 \/ Test1 \/ Test0 \/ Scan \/ Reply
  BY <1>1, <1>4, ZenonT(60) DEF Enter, Test3, Test1, Test0, Scan, Reply
<1>5. CASE InitQueue
  <2>1. len = 0 /\ len' = 0 /\ head' = 0 /\ tail' = 0
    BY <1>0, <1>5 DEF MainOK, Setup, InitQueue
  <2> QED
    BY <1>0, <2>1 DEF TailOK, Wrap
<1>6. CASE ServeDeq
  <2>1. len > 0 /\ len' = len - 1 /\ head' = Bump(head) /\ tail' = tail
    BY <1>6, NeverEmptyNorFullHolds DEF NeverEmptyNorFull, ServeDeq
  <2> QED
    BY <1>0, <2>1 DEF TailOK, Wrap, Bump
<1>7. CASE ServeEnq
  <2>1. len < MaxIndex /\ len' = len + 1 /\ head' = head /\ tail' = Bump(tail)
    BY <1>7, NeverEmptyNorFullHolds, SMTT(60) DEF NeverEmptyNorFull, ServeEnq
  <2> QED
    BY <1>0, <2>1 DEF TailOK, Wrap, Bump
<1>8. CASE UNCHANGED vars
  BY <1>1, <1>8 DEF vars
<1> QED
  BY <1>2, <1>3, <1>4, <1>5, <1>6, <1>7, <1>8 DEF Next, Finished, Kernel

\* The initial state satisfies the invariant.
LEMMA InvInit == Init => Inv
<1> SUFFICES ASSUME Init PROVE Inv
  OBVIOUS
<1> USE ThreadFacts, RoundsAssumption
<1>1. TypeOK
  BY DEF Init, TypeOK
<1>2. HistoryOK
  BY DEF Init, HistoryOK, Vals, NoCall
<1>3. MainOK /\ KernelOK
  BY DEF Init, MainOK, KernelOK, Setup, Filling
<1>4. \A t \in Threads : SlotOK(t)
  BY ZenonT(60) DEF Init, SlotOK, Filling, Asking
<1>5. \A t \in Threads : Served(t) = 0
  BY DEF Init, Served, NoCall
<1>6. Ahead = {} /\ Behind = {}
  <2>1. \A t \in Threads : Served(t) % 2 # 1
    BY <1>5
  <2> QED
    BY <2>1, Zenon DEF Ahead, Behind, EnqFirst, DeqFirst
<1>7. LengthOK /\ TailOK
  BY <1>6, FS_EmptySet DEF Init, LengthOK, TailOK, Wrap
<1> QED
  BY <1>1, <1>2, <1>3, <1>4, <1>7 DEF Inv

\* Every step keeps the slot, parameter and call of a thread in agreement.
LEMMA SlotStep ==
  ASSUME Inv, [Next]_vars, NEW u \in Threads
  PROVE  SlotOK(u)'
<1>1. CASE UNCHANGED vars
  <2>1. SlotOK(u) /\ SlotView(u)' = SlotView(u) /\ kpc' = kpc /\ ki' = ki
    BY <1>1 DEF Inv, SlotView, vars, slots, core, threads, mainVars, history
  <2> QED
    BY <2>1, SlotKept, Zenon DEF SlotOK
<1> QED
  BY <1>1, SlotThreadStep, SlotMainStep, SlotKernelStep DEF Next, Finished

\* The invariant holds in every state of the queue.
THEOREM SafetyInvariant == Spec => []Inv
<1>1. Inv /\ [Next]_vars => Inv'
  BY TypeStep, HistoryStep, MainOKStep, KernelOKStep, SlotStep, LengthStep, TailStep DEF Inv
<1> QED
  BY InvInit, <1>1, PTL DEF Spec

\* NeverEmptyNorFull, for all numbers of rounds, operations and items: the
\* kernel may do without tests for empty and full.
THEOREM BufferSuffices == Spec => []NeverEmptyNorFull
  BY SafetyInvariant, NeverEmptyNorFullHolds, PTL

\* The registers, slots and indexes of the queue keep their types.
THEOREM TypeCorrect == Spec => []TypeOK
<1>1. Inv => TypeOK
  BY DEF Inv
<1> QED
  BY SafetyInvariant, <1>1, PTL

-----------------------------------------------------------------------------
(* The buffer between head and tail is the abstract queue.                 *)

\* A window of the buffer is a sequence.
LEMMA Window ==
  ASSUME NEW b \in [0..(MaxIndex - 1) -> Vals], NEW h \in 0..(MaxIndex - 1), NEW n \in 0..MaxIndex
  PROVE  /\ [k \in 1..n |-> b[Wrap(h + k - 1)]] \in Seq(Vals)
         /\ Len([k \in 1..n |-> b[Wrap(h + k - 1)]]) = n
<1> DEFINE w == [k \in 1..n |-> b[Wrap(h + k - 1)]]
<1>1. n \in Nat /\ \A k \in 1..n : Wrap(h + k - 1) \in 0..(MaxIndex - 1)
  BY RoundsAssumption DEF Wrap
<1>2. w \in [1..n -> Vals]
  BY <1>1, Zenon
<1> HIDE DEF w
<1>3. w \in Seq(Vals)
  BY <1>1, <1>2, SeqDef
<1>4. Len(w) = n
  BY <1>1, <1>2, <1>3, LenProperties
<1> QED
  BY <1>3, <1>4 DEF w

\* Contents is a sequence of len items.
LEMMA ContentsType ==
  ASSUME Inv
  PROVE  /\ Contents \in Seq(Vals) /\ Len(Contents) = len /\ len \in Nat
         /\ \A k \in 1..len : Contents[k] = buf[Wrap(head + k - 1)]
<1>1. /\ len \in 0..MaxIndex /\ head \in 0..(MaxIndex - 1) /\ MaxIndex \in Nat
      /\ buf \in [0..(MaxIndex - 1) -> Vals]
  BY RoundsAssumption DEF Inv, TailOK, TypeOK, HistoryOK
<1>2. Contents \in Seq(Vals) /\ Len(Contents) = len
  BY <1>1, Window, ZenonT(60) DEF Contents
<1>3. \A k \in 1..len : Contents[k] = buf[Wrap(head + k - 1)]
  BY DEF Contents
<1> QED
  BY <1>1, <1>2, <1>3

\* An enqueue writes outside the window, so it appends the parameter.
LEMMA EnqContents ==
  ASSUME Inv, ServeEnq
  PROVE  Contents' = Append(Contents, param[ki])
<1>0. /\ len \in Nat /\ len < MaxIndex /\ head \in 0..(MaxIndex - 1) /\ MaxIndex \in Nat
      /\ tail = Wrap(head + len) /\ buf \in [0..(MaxIndex - 1) -> Vals]
      /\ tail \in 0..(MaxIndex - 1) /\ ki \in Threads /\ param[ki] \in Vals
  <2>1. kpc = "serve" /\ slot[ki] = "enq"
    BY DEF ServeEnq
  <2>2. len < MaxIndex
    BY <2>1, NeverEmptyNorFullHolds DEF NeverEmptyNorFull
  <2>3. ki \in Threads
    BY <2>1, ServingFacts
  <2> QED
    BY <2>2, <2>3, RoundsAssumption DEF Inv, TailOK, TypeOK, HistoryOK
<1>1. len' = len + 1 /\ head' = head /\ buf' = [buf EXCEPT ![tail] = param[ki]]
  BY DEF ServeEnq
<1>2. \A k \in 1..len : Wrap(head + k - 1) \in 0..(MaxIndex - 1) /\ Wrap(head + k - 1) # tail
  BY <1>0 DEF Wrap
<1>3. Contents' = [k \in 1..(len + 1) |-> buf'[Wrap(head + k - 1)]]
  BY <1>1 DEF Contents, Wrap
<1>4. Contents \in Seq(Vals) /\ Len(Contents) = len /\ \A k \in 1..len : Contents[k] = buf[Wrap(head + k - 1)]
  BY ContentsType
<1> DEFINE A == Append(Contents, param[ki])
<1>5. A \in Seq(Vals) /\ Len(A) = len + 1 /\ A[len + 1] = param[ki]
      /\ \A k \in 1..len : A[k] = buf[Wrap(head + k - 1)]
  BY <1>0, <1>4
<1> HIDE DEF A
<1>6. \A k \in 1..len : A[k] = Contents'[k]
  BY <1>0, <1>1, <1>2, <1>3, <1>5, SMTT(60)
<1>7. A[len + 1] = Contents'[len + 1]
  <2>1. Wrap(head + (len + 1) - 1) = tail
    BY <1>0 DEF Wrap
  <2> QED
    BY <1>0, <1>1, <1>3, <1>5, <2>1
<1>8. \A k \in 1..(len + 1) : A[k] = Contents'[k]
  <2>1. \A k \in 1..(len + 1) : k \in 1..len \/ k = len + 1
    BY <1>0
  <2> QED
    BY <1>6, <1>7, <2>1, Zenon
<1>9. Contents' \in Seq(Vals) /\ Len(Contents') = len + 1
  <2>1. buf' \in [0..(MaxIndex - 1) -> Vals]
    BY <1>0, <1>1
  <2>2. len + 1 \in 0..MaxIndex
    BY <1>0
  <2> QED
    BY <1>0, <1>3, <2>1, <2>2, Window, ZenonT(60)
<1>10. A = Contents'
  BY <1>5, <1>8, <1>9, SeqEqual
<1> QED
  BY <1>10 DEF A

\* A dequeue takes the oldest item.
LEMMA DeqContents ==
  ASSUME Inv, ServeDeq
  PROVE  Contents # <<>> /\ Head(Contents) = buf[head] /\ Contents' = Tail(Contents)
<1>0. /\ len \in Nat /\ len > 0 /\ len <= MaxIndex /\ head \in 0..(MaxIndex - 1) /\ MaxIndex \in Nat
  <2>1. kpc = "serve" /\ slot[ki] = "deq"
    BY DEF ServeDeq
  <2> QED
    BY <2>1, RoundsAssumption, NeverEmptyNorFullHolds, SMTT(60)
    DEF Inv, TailOK, TypeOK, HistoryOK, NeverEmptyNorFull
<1>1. len' = len - 1 /\ head' = Bump(head) /\ buf' = buf
  BY Zenon DEF ServeDeq
<1>2. \A k \in 1..(len - 1) : Wrap(Bump(head) + k - 1) = Wrap(head + (k + 1) - 1)
  BY <1>0 DEF Wrap, Bump
<1>3. Contents' = [k \in 1..(len - 1) |-> buf[Wrap(Bump(head) + k - 1)]]
  BY <1>1 DEF Contents, Wrap
<1>4. Contents \in Seq(Vals) /\ Len(Contents) = len /\ \A k \in 1..len : Contents[k] = buf[Wrap(head + k - 1)]
  BY ContentsType
<1>5. Wrap(head + 1 - 1) = head
  BY <1>0 DEF Wrap
<1>6. Contents # <<>> /\ Head(Contents) = buf[head]
  BY <1>0, <1>4, <1>5
<1>7. /\ Tail(Contents) \in Seq(Vals) /\ Len(Tail(Contents)) = len - 1
      /\ \A k \in 1..(len - 1) : Tail(Contents)[k] = Contents[k + 1]
  BY <1>4, <1>6, HeadTailProperties
<1>8. \A k \in 1..(len - 1) : Contents[k + 1] = buf[Wrap(Bump(head) + k - 1)]
  BY <1>0, <1>2, <1>4
<1>9. Contents' \in Seq(Vals) /\ Len(Contents') = len - 1
  <2>1. Bump(head) \in 0..(MaxIndex - 1) /\ len - 1 \in 0..MaxIndex
    BY <1>0 DEF Bump
  <2>2. buf \in [0..(MaxIndex - 1) -> Vals]
    BY DEF Inv, HistoryOK
  <2> QED
    BY <1>3, <2>1, <2>2, Window, ZenonT(60)
<1>10. \A k \in 1..(len - 1) : Tail(Contents)[k] = Contents'[k]
  BY <1>3, <1>7, <1>8
<1>11. Tail(Contents) = Contents'
  BY <1>7, <1>9, <1>10, SeqEqual
<1> QED
  BY <1>6, <1>11

\* Other steps leave the window alone: the kernel only resets the indexes of
\* an empty queue.
LEMMA ContentsKept ==
  ASSUME Inv, [Next]_vars, ~ServeEnq, ~ServeDeq
  PROVE  Contents' = Contents
<1> USE DEF regs, slots, core, queue, threads, mainVars, history
<1>1. CASE UNCHANGED <<buf, head, len>>
  BY <1>1 DEF Contents, Wrap
<1>2. CASE InitQueue
  <2>1. len = 0 /\ len' = 0
    BY <1>2 DEF Inv, MainOK, Setup, InitQueue
  <2> QED
    BY <2>1 DEF Contents
<1>3. CASE ~InitQueue
  <2>1. CASE \E t \in Threads : Thread(t)
    BY <1>1, <2>1, ZenonT(60) DEF Thread, WriteParameter, RequestEnq, RequestDeq, PollEnq, PollDeq, ReadParameter
  <2>2. CASE Main
    BY <1>1, <2>2, ZenonT(60) DEF Main, MainInit, MainWait, MainOpen, MainParameter, MainRequest, MainPoll, MainOff,
       MainRound
  <2>3. CASE Kernel
    BY <1>1, <1>3, <2>3, Zenon DEF Kernel, Enter, Test3, Test1, Test0, Scan, Reply
  <2>4. CASE UNCHANGED vars
    BY <1>1, <2>4 DEF vars
  <2> QED
    BY <2>1, <2>2, <2>3, <2>4 DEF Next, Finished
<1> QED
  BY <1>2, <1>3

-----------------------------------------------------------------------------
(* Refinement.                                                             *)

\* A step of thread t invokes or returns, or is invisible.
LEMMA ThreadRefines ==
  ASSUME Inv, NEW t \in Threads, Thread(t), Contents' = Contents
  PROVE  [Queue!Next]_(Queue!vars)
<1>0. TypeOK /\ HistoryOK /\ SlotOK(t) /\ MainOK
  BY DEF Inv
<1>1. CASE WriteParameter(t)
  <2>1. call[t] = NoCall
    BY <1>0, <1>1, ZenonT(60) DEF SlotOK, Filling, WriteParameter, Running
  <2>2. Item(t) \in Items
    BY <1>0, <1>1, ItemTypes DEF WriteParameter, Running
  <2>3. Queue!Invoke(t, "enq", Item(t))
    BY <1>1, <2>1, Zenon DEF WriteParameter, Open, Queue!Invoke, Queue!NoCall, NoCall
  <2> QED
    BY <2>2, <2>3 DEF Queue!Next
<1>2. CASE RequestDeq(t)
  <2>1. call[t] = NoCall
    BY <1>0, <1>2, Zenon DEF SlotOK, Filling, RequestDeq, Running
  <2>2. Queue!Invoke(t, "deq", NoItem)
    BY <1>2, <2>1, Zenon DEF RequestDeq, Open, Queue!Invoke, Queue!NoCall, NoCall
  <2> QED
    BY <2>2 DEF Queue!Next
<1>3. CASE PollEnq(t)
  <2>1. call[t].done /\ call[t].item = Item(t)
    BY <1>0, <1>3, ZenonT(60) DEF SlotOK, Asking, Value, PollEnq
  <2>2. Queue!Return(t)
    BY <1>3, <2>1, ZenonT(60) DEF PollEnq, Return, Queue!Return, Queue!NoCall, NoCall
  <2> QED
    BY <2>2 DEF Queue!Next
<1>4. CASE ReadParameter(t)
  <2>1. call[t].done /\ call[t].item = param[t]
    BY <1>0, <1>4, ZenonT(60) DEF SlotOK, ReadParameter
  <2>2. Queue!Return(t)
    BY <1>4, <2>1, SMTT(60) DEF ReadParameter, Return, Queue!Return, Queue!NoCall, NoCall
  <2> QED
    BY <2>2 DEF Queue!Next
<1>5. CASE RequestEnq(t) \/ PollDeq(t)
  BY <1>5 DEF RequestEnq, PollDeq, history, Queue!vars
<1> QED
  BY <1>1, <1>2, <1>3, <1>4, <1>5 DEF Thread

\* The fill of main invokes and returns enqueues for thread 0.
LEMMA MainRefines ==
  ASSUME Inv, Main, Contents' = Contents
  PROVE  [Queue!Next]_(Queue!vars)
<1>0. TypeOK /\ HistoryOK /\ SlotOK(0) /\ MainOK /\ 0 \in Threads
  BY ThreadFacts DEF Inv
<1>1. CASE MainParameter
  <2>1. call[0] = NoCall
    BY <1>0, <1>1, ZenonT(60) DEF SlotOK, Filling, MainParameter
  <2>2. MainItem \in Items
    BY <1>0, <1>1, ItemTypes DEF MainParameter
  <2>3. Queue!Invoke(0, "enq", MainItem)
    BY <1>1, <2>1, SMTT(60) DEF MainParameter, Open, Queue!Invoke, Queue!NoCall, NoCall
  <2> QED
    BY <1>0, <2>2, <2>3 DEF Queue!Next
<1>2. CASE MainPoll
  <2>1. count[0] = 0 /\ 0 + 0 = 0 /\ 0 % 2 = 0
    BY <1>0, <1>2 DEF MainOK, Filling, MainPoll
  <2>2. call[0].done /\ call[0].item = MainItem
    BY <1>0, <1>2, <2>1, ZenonT(60) DEF SlotOK, Asking, Value, OpKind, MainPoll
  <2>3. Queue!Return(0)
    BY <1>2, <2>2 DEF MainPoll, Return, Queue!Return, Queue!NoCall, NoCall
  <2> QED
    BY <1>0, <2>3 DEF Queue!Next
<1>3. CASE MainInit \/ MainWait \/ MainOpen \/ MainRequest \/ MainOff \/ MainRound
  BY <1>3, ZenonT(60) DEF MainInit, MainWait, MainOpen, MainRequest, MainOff, MainRound, history, Queue!vars
<1> QED
  BY <1>1, <1>2, <1>3 DEF Main

\* An operation takes effect when the kernel serves it.
LEMMA KernelRefines ==
  ASSUME Inv, Kernel, ~ServeEnq /\ ~ServeDeq => Contents' = Contents
  PROVE  [Queue!Next]_(Queue!vars)
<1>1. CASE ServeEnq
  <2>0. kpc = "serve" /\ slot[ki] = "enq"
    BY <1>1, Zenon DEF ServeEnq
  <2>1. ki \in Threads /\ OpKind(ki) = "enq" /\ Asking(ki) /\ SlotOK(ki) /\ ~call[ki].done
    BY <2>0, ServingFacts, ZenonT(60)
  <2>2. call[ki].op = "enq" /\ call[ki].item = param[ki]
    BY <2>1, ZenonT(60) DEF SlotOK
  <2>3. Contents' = Append(Contents, call[ki].item)
    BY <1>1, <2>2, EnqContents, Zenon
  <2>4. Queue!Enq(ki)
    <3>1. call' = [call EXCEPT ![ki] = [op |-> @.op, item |-> call[ki].item, done |-> TRUE]] /\ got' = got
      BY <1>1, ZenonT(60) DEF ServeEnq
    <3> QED
      BY <2>1, <2>2, <2>3, <3>1 DEF Queue!Enq, Queue!Finish
  <2> QED
    BY <2>1, <2>4 DEF Queue!Next
<1>2. CASE ServeDeq
  <2>0. kpc = "serve" /\ slot[ki] = "deq"
    BY <1>2, Zenon DEF ServeDeq
  <2>1. ki \in Threads /\ OpKind(ki) = "deq" /\ Asking(ki) /\ SlotOK(ki) /\ ~call[ki].done
    BY <2>0, ServingFacts, Zenon
  <2>2. call[ki].op = "deq"
    BY <2>1, ZenonT(60) DEF SlotOK
  <2>3. Contents # <<>> /\ Head(Contents) = buf[head] /\ Contents' = Tail(Contents)
    BY <1>2, DeqContents
  <2>4. Queue!Deq(ki)
    <3>1. call' = [call EXCEPT ![ki] = [op |-> @.op, item |-> Head(Contents), done |-> TRUE]] /\ got' = got
      BY <1>2, <2>3, Zenon DEF ServeDeq
    <3> QED
      BY <2>1, <2>2, <2>3, <3>1, SMTT(60) DEF Queue!Deq, Queue!Finish
  <2> QED
    BY <2>1, <2>4 DEF Queue!Next
<1>3. CASE ~ServeEnq /\ ~ServeDeq
  BY <1>3, ZenonT(60) DEF Kernel, Enter, InitQueue, Test3, Test1, Test0, Scan, Reply, history, Queue!vars
<1> QED
  BY <1>1, <1>2, <1>3

\* ImplementsQueue, for all constants: the circular buffer without tests for
\* empty and full is a first-in first-out queue to the host threads.
THEOREM Refinement == Spec => ImplementsQueue
<1>1. Init => Queue!Init
  <2> SUFFICES ASSUME Init PROVE Queue!Init
    OBVIOUS
  <2>1. Contents = <<>>
    BY DEF Init, Contents
  <2> QED
    BY <2>1 DEF Init, Queue!Init, Queue!NoCall, NoCall
<1>2. Inv /\ [Next]_vars => [Queue!Next]_(Queue!vars)
  <2> SUFFICES ASSUME Inv, [Next]_vars
               PROVE  [Queue!Next]_(Queue!vars)
    OBVIOUS
  <2>1. ~ServeEnq /\ ~ServeDeq => Contents' = Contents
    BY ContentsKept
  <2>2. ASSUME NEW t \in Threads, Thread(t)
        PROVE  [Queue!Next]_(Queue!vars)
    <3>1. len' = len /\ buf' = buf /\ head' = head
      BY <2>2, ZenonT(60) DEF Thread, WriteParameter, RequestEnq, RequestDeq, PollEnq, PollDeq, ReadParameter, queue
    <3>2. Contents' = Contents
      BY <3>1 DEF Contents, Wrap
    <3> QED
      BY <2>2, <3>2, ThreadRefines
  <2>3. CASE Main
    <3>1. len' = len /\ buf' = buf /\ head' = head
      BY <2>3, ZenonT(60) DEF Main, MainInit, MainWait, MainOpen, MainParameter, MainRequest, MainPoll, MainOff,
         MainRound, queue
    <3>2. Contents' = Contents
      BY <3>1 DEF Contents, Wrap
    <3> QED
      BY <2>3, <3>2, MainRefines
  <2>4. CASE UNCHANGED vars
    BY <2>4 DEF vars, queue, history, Contents, Wrap, Queue!vars
  <2> QED
    BY <2>1, <2>2, <2>3, <2>4, KernelRefines DEF Next, Finished
<1> QED
  BY <1>1, <1>2, SafetyInvariant, PTL DEF Spec, ImplementsQueue, Queue!Spec

=============================================================================
