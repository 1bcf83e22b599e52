-------------------------- MODULE NdpListSetProofs --------------------------
(***************************************************************************)
(* The PIM list is a linearizable set to the host threads, for every number*)
(* of threads, keys and blocks: what the operations of the kernel do to the*)
(* set of keys in the list, that every thread reads the answer to its own  *)
(* operation, and the refinement of LinearSet that follows.                *)
(***************************************************************************)
EXTENDS NdpListProofs, FiniteSetTheorems

\* The keys of the list, without the two sentinels.
Listed == {key[n] : n \in Nodes \ {head, tail}}

\* Between the cursors a key is in the list exactly if the second one holds it.
LEMMA ListedAtCursor ==
  ASSUME ListTypes, Sorted, NEW k \in Keys, NEW p \in Nodes \ {tail},
         key[p] < k, k <= key[next[p]]
  PROVE  k \in Listed <=> key[next[p]] = k
<1> USE KeysAssumption
<1>1. Nodes \subseteq Blocks /\ next[p] \in Nodes
  BY DEF Nodes, Sorted
<1>2. \A m \in Nodes : key[m] \in Int
  BY <1>1 DEF ListTypes
<1>3. ASSUME NEW n \in Nodes \ {head, tail}, key[n] = k PROVE key[next[p]] = k
  <2>1. n # p
    BY <1>2, <1>3
  <2>2. key[n] < key[p] \/ key[next[p]] <= key[n]
    BY <2>1 DEF Sorted
  <2> QED
    BY <1>1, <1>2, <1>3, <2>2 DEF Keys
<1>4. ASSUME key[next[p]] = k PROVE k \in Listed
  <2>1. next[p] # head /\ next[p] # tail
    BY <1>4 DEF Sorted, Keys, Top
  <2> QED
    BY <1>1, <1>4, <2>1 DEF Listed
<1> QED
  BY <1>3, <1>4, Zenon DEF Listed

\* No two nodes have the same key.
LEMMA KeysDiffer ==
  ASSUME ListTypes, Sorted, NEW m \in Nodes, NEW n \in Nodes, key[m] = key[n]
  PROVE  m = n
<1> USE KeysAssumption
<1>1. Nodes \subseteq Blocks /\ \A x \in Nodes : key[x] \in Int
  BY DEF Nodes, ListTypes
<1>2. CASE m # tail /\ m # n
  <2>1. next[m] \in Nodes /\ key[m] < key[next[m]] /\ (key[n] < key[m] \/ key[next[m]] <= key[n])
    BY <1>2 DEF Sorted
  <2> QED
    BY <1>1, <2>1
<1>3. CASE n # tail /\ m # n
  <2>1. next[n] \in Nodes /\ key[n] < key[next[n]] /\ (key[m] < key[n] \/ key[next[n]] <= key[m])
    BY <1>3 DEF Sorted
  <2> QED
    BY <1>1, <2>1
<1> QED
  BY <1>2, <1>3

\* Inserting a node adds its key to the list and nothing else.
LEMMA InsertLists ==
  ASSUME ListTypes, Sorted, NEW b \in free, NEW k \in Keys, NEW p \in Nodes \ {tail},
         key[p] < k, k < key[next[p]], Insert(b, k, p, next[p])
  PROVE  Listed' = Listed \cup {k}
<1>1. /\ Nodes' = Nodes \cup {b} /\ tail' = tail
      /\ \A n \in Nodes : key'[n] = key[n]
      /\ key'[b] = k
  BY InsertKeepsSorted, Zenon
<1>2. head' = head /\ head \in Nodes /\ tail \in Nodes /\ b \notin Nodes
  BY DEF Insert, Sorted, Nodes
<1>3. Nodes' \ {head', tail'} = (Nodes \ {head, tail}) \cup {b}
  BY <1>1, <1>2
<1>4. ASSUME NEW x PROVE x \in Listed' <=> x \in Listed \cup {k}
  BY <1>1, <1>3, Zenon DEF Listed
<1> QED
  BY <1>4, Zenon

\* Unlinking a node removes its key from the list and nothing else.
LEMMA RemoveLists ==
  ASSUME ListTypes, Sorted, NEW p \in Nodes \ {tail}, next[p] # tail,
         next' = [next EXCEPT ![p] = next[next[p]]],
         free' = free \cup {next[p]},
         key' = [key EXCEPT ![next[p]] = FreeLink],
         UNCHANGED <<head, tail>>
  PROVE  Listed' = Listed \ {key[next[p]]}
<1> DEFINE c == next[p]
<1>1. Nodes' = Nodes \ {c} /\ \A n \in Nodes' : key'[n] = key[n]
  BY RemoveKeepsSorted, Zenon
<1>2. c \in Nodes /\ head' = head /\ tail' = tail
  BY DEF Sorted
<1>3. \A n \in Nodes \ {c} : key[n] # key[c]
  BY <1>2, KeysDiffer, Zenon
<1>4. Nodes' \ {head', tail'} = (Nodes \ {head, tail}) \ {c}
  BY <1>1, <1>2
<1> HIDE DEF c
<1>5. ASSUME NEW x PROVE x \in Listed' <=> x \in Listed \ {key[c]}
  BY <1>1, <1>3, <1>4, Zenon DEF Listed
<1> QED
  BY <1>5, Zenon DEF c

\* The list holds as many keys as the vault has room for exactly if no block is
\* free: no block is lost, and none holds the key of another.
LEMMA FullMeansNoneFree ==
  ASSUME ListTypes, Sorted
  PROVE  Cardinality(Listed) # Cardinality(Blocks) - 2 <=> free # {}
<1> DEFINE S == Nodes \ {head, tail}
           f == [n \in S |-> key[n]]
<1>1. IsFiniteSet(Blocks) /\ Cardinality(Blocks) \in Nat
  BY BlocksAssumption, FS_CardinalityType
<1>2. Nodes \in SUBSET Blocks
  BY DEF Nodes
<1>3. /\ IsFiniteSet(Nodes) /\ Cardinality(Nodes) \in Nat
      /\ Cardinality(Blocks) = Cardinality(Nodes) => Blocks = Nodes
  BY <1>1, <1>2, FS_Subset, FS_CardinalityType, Zenon
<1>4. head \in Nodes /\ tail \in Nodes \ {head}
  BY KeysAssumption DEF Sorted, Top
<1>5. /\ IsFiniteSet(Nodes \ {head})
      /\ Cardinality(Nodes \ {head}) = Cardinality(Nodes) - 1
  BY <1>3, <1>4, FS_RemoveElement, Zenon
<1>6. S = (Nodes \ {head}) \ {tail}
  OBVIOUS
<1>7. /\ IsFiniteSet(S)
      /\ Cardinality(S) = Cardinality(Nodes \ {head}) - 1
  BY <1>4, <1>5, <1>6, FS_RemoveElement, Zenon
<1>8. f \in Bijection(S, Listed)
  <2>1. f \in [S -> Listed]
    BY Zenon DEF Listed
  <2>2. \A m, n \in S : f[m] = f[n] => m = n
    BY KeysDiffer, Zenon
  <2>3. \A x \in Listed : \E n \in S : f[n] = x
    BY Zenon DEF Listed
  <2> HIDE DEF f, S
  <2> QED
    BY <2>1, <2>2, <2>3 DEF Bijection, Injection, Surjection, IsInjective
<1>9. Cardinality(Listed) = Cardinality(S)
  <2> HIDE DEF f, S
  <2>1. ExistsBijection(S, Listed)
    BY <1>8 DEF ExistsBijection
  <2> QED
    BY <1>7, <2>1, FS_Bijection
<1>10. Cardinality(Listed) = Cardinality(Nodes) - 2
  BY <1>3, <1>5, <1>7, <1>9
<1>11. Blocks = Nodes <=> free = {}
  BY DEF Nodes, ListTypes
<1> HIDE DEF S, f
<1> QED
  BY <1>1, <1>3, <1>10, <1>11

-----------------------------------------------------------------------------
(* The answers.                                                            *)

\* The kernel has decided the request of slot t and not yet handed it back.
Answering(t) == pimPc \in {"setRetval", "clear"} /\ cur = t

Answer(success) == IF success THEN "yes" ELSE "no"

\* An operation is decided once, while its slot is valid, and what the kernel
\* decided is what the return bit says when the slot is handed back.
AnswerInv(t) ==
    /\ pc[t] = "ready" => req[t] = [op |-> "none", key |-> 0]
    /\ pc[t] # "poll" => outcome[t] = "open"
    /\ pc[t] = "publish" => ~info[t].ret
    /\ pc[t] = "poll" /\ slot[t].valid /\ ~Answering(t) => outcome[t] = "open" /\ ~slot[t].ret
    /\ pc[t] = "poll" /\ ~slot[t].valid => outcome[t] = Answer(slot[t].ret)
    /\ Answering(t) => outcome[t] = Answer(retval)
    /\ Answering(t) /\ pimPc = "setRetval" => ~slot[t].ret
    /\ Answering(t) /\ pimPc = "clear" => slot[t].ret = retval

\* What AnswerInv says of a slot depends on the slot, its thread and the request
\* the kernel is answering.
LEMMA AnswerKept ==
  ASSUME NEW t \in Threads, AnswerInv(t), pc'[t] = pc[t], req'[t] = req[t],
         outcome'[t] = outcome[t], slot'[t] = slot[t],
         pc[t] = "publish" => info'[t] = info[t],
         Answering(t)' <=> Answering(t), Answering(t) => retval' = retval /\ pimPc' = pimPc
  PROVE  AnswerInv(t)'
<1> QED
  BY ZenonT(60) DEF AnswerInv

\* A thread opens an operation with no answer, and forgets the answer when it
\* has read it.
LEMMA AnswerThread ==
  ASSUME SlotInv, \A u \in Threads : AnswerInv(u), outcome \in [Threads -> {"open", "yes", "no"}],
         NEW t \in Threads, Thread(t), NEW u \in Threads
  PROVE  AnswerInv(u)'
<1> USE DEF regs, slots, mainVars, threads, list, pass
<1>1. SlotTypes /\ ThreadInv(t) /\ KernelInv /\ AnswerInv(t) /\ AnswerInv(u)
  BY DEF SlotInv
<1>2. UNCHANGED <<pimPc, cur, retval>>
  BY Zenon DEF Thread, ThreadOperation, Invoke, SetOperation, SetRequest, Poll
<1>3. Answering(t) => slot[t].valid /\ pc[t] = "poll"
  BY <1>1, Zenon DEF Answering, KernelInv, ThreadInv, Serving
<1>4. CASE u # t
  <2>1. /\ pc'[u] = pc[u] /\ req'[u] = req[u] /\ outcome'[u] = outcome[u] /\ slot'[u] = slot[u]
        /\ info'[u] = info[u]
    <3>1. CASE \E op \in OpTypes \ {"none"}, k \in Keys : ThreadOperation(t, op, k)
      BY <1>1, <1>4, <3>1, ZenonT(60) DEF ThreadOperation, Invoke, SlotTypes
    <3>2. CASE SetOperation(t)
      BY <1>1, <1>4, <3>2, Zenon DEF SetOperation, SlotTypes
    <3>3. CASE SetRequest(t)
      BY <1>1, <1>4, <3>3, Zenon DEF SetRequest, SlotTypes
    <3>4. CASE Poll(t)
      BY <1>1, <1>4, <3>4, Zenon DEF Poll, SlotTypes
    <3> QED
      BY <3>1, <3>2, <3>3, <3>4, Zenon DEF Thread
  <2> QED
    BY <1>1, <1>2, <2>1, AnswerKept, Zenon DEF Answering
<1>5. CASE u = t /\ \E op \in OpTypes \ {"none"}, k \in Keys : ThreadOperation(t, op, k)
  <2>1. pc[t] = "ready" /\ pc'[t] = "setOp" /\ outcome'[t] = outcome[t]
    BY <1>1, <1>5, Zenon DEF ThreadOperation, Invoke, SlotTypes
  <2>2. ~Answering(t) /\ ~Answering(t)'
    BY <1>2, <1>3, <2>1, Zenon DEF Answering
  <2> QED
    BY <1>1, <1>5, <2>1, <2>2 DEF AnswerInv
<1>6. CASE u = t /\ SetOperation(t)
  <2>1. /\ pc[t] = "setOp" /\ pc'[t] = "publish" /\ outcome'[t] = outcome[t]
        /\ info'[t] = SET_OPERATION(info[t], req[t].op)
    BY <1>1, <1>6, Zenon DEF SetOperation, SlotTypes
  <2>2. ~info'[t].ret
    BY <2>1 DEF SET_OPERATION
  <2>3. ~Answering(t) /\ ~Answering(t)'
    BY <1>2, <1>3, <2>1, Zenon DEF Answering
  <2> QED
    BY <1>1, <1>6, <2>1, <2>2, <2>3 DEF AnswerInv
<1>7. CASE u = t /\ SetRequest(t)
  <2>1. /\ pc[t] = "publish" /\ pc'[t] = "poll" /\ outcome'[t] = outcome[t]
        /\ slot'[t] = SET_REQUEST(info[t])
    BY <1>1, <1>7, Zenon DEF SetRequest, SlotTypes
  <2>2. info[t] \in Infos /\ ~info[t].ret
    BY <1>1, <2>1 DEF SlotTypes, AnswerInv
  <2>3. slot'[t].valid /\ ~slot'[t].ret
    BY <2>1, <2>2 DEF SET_REQUEST, Infos
  <2>4. ~Answering(t) /\ ~Answering(t)'
    BY <1>2, <1>3, <2>1, Zenon DEF Answering
  <2> QED
    BY <1>1, <1>7, <2>1, <2>3, <2>4 DEF AnswerInv
<1>8. CASE u = t /\ Poll(t) /\ slot[t].valid
  <2>1. /\ pc[t] = "poll" /\ pc'[t] = pc[t] /\ req'[t] = req[t] /\ outcome'[t] = outcome[t]
        /\ slot'[t] = slot[t]
    BY <1>8, Zenon DEF Poll
  <2> QED
    BY <1>1, <1>2, <1>8, <2>1, AnswerKept, Zenon DEF Answering
<1>9. CASE u = t /\ Poll(t) /\ ~slot[t].valid
  <2>1. /\ pc'[t] = "ready" /\ req'[t] = [op |-> "none", key |-> 0] /\ outcome'[t] = "open"
    BY <1>1, <1>9, Zenon DEF Poll, SlotTypes
  <2>2. ~Answering(t)'
    BY <1>2, <1>3, <1>9, Zenon DEF Answering
  <2> QED
    BY <1>9, <2>1, <2>2 DEF AnswerInv
<1> QED
  BY <1>4, <1>5, <1>6, <1>7, <1>8, <1>9, Zenon DEF Thread

\* main opens an operation of slot 0 as a thread does, and resets the copies of
\* info_bits only while no operation is open.
LEMMA AnswerMain ==
  ASSUME SlotInv, \A u \in Threads : AnswerInv(u), Main, NEW u \in Threads
  PROVE  AnswerInv(u)'
<1> USE DEF regs, slots, mainVars, threads, list, pass
<1>1. SlotTypes /\ ThreadInv(u) /\ KernelInv /\ MainInv /\ AnswerInv(u)
  BY DEF SlotInv
<1>2. Answering(u) => slot[u].valid /\ pc[u] = "poll"
  BY <1>1, Zenon DEF Answering, KernelInv, ThreadInv, Serving
<1>3. CASE \E k \in todo : MainFill(k)
  <2>1. UNCHANGED <<pimPc, cur, retval, slot, outcome, info>>
    BY <1>3, Zenon DEF MainFill, Invoke
  <2>2. CASE u # 0
    <3>1. pc'[u] = pc[u] /\ req'[u] = req[u]
      BY <1>1, <1>3, <2>2, ZeroIsThread, ZenonT(60) DEF MainFill, Invoke, SlotTypes
    <3> QED
      BY <1>1, <2>1, <3>1, AnswerKept, Zenon DEF Answering
  <2>3. CASE u = 0
    <3>1. pc[u] = "ready" /\ pc'[u] = "setOp"
      BY <1>1, <1>3, <2>3, Zenon DEF MainFill, Invoke, SlotTypes
    <3>2. ~Answering(u) /\ ~Answering(u)'
      BY <1>2, <2>1, <3>1, Zenon DEF Answering
    <3> QED
      BY <1>1, <2>1, <3>1, <3>2, Zenon DEF AnswerInv
  <2> QED
    BY <2>2, <2>3
<1>4. CASE MainStart
  <2>1. UNCHANGED <<slot, outcome, info, pc, req>> /\ pc[u] = "ready" /\ pimPc' = "is0"
    BY <1>1, <1>4, Zenon DEF MainStart, MainInv
  <2>2. ~Answering(u) /\ ~Answering(u)'
    BY <1>2, <2>1 DEF Answering
  <2> QED
    BY <1>1, <2>1, <2>2, AnswerKept, Zenon
<1>5. CASE \E n \in 1..NumThreads : MainSpawn(n)
  <2>1. UNCHANGED <<pimPc, cur, retval, slot, outcome, pc, req>> /\ pc[u] = "ready"
    BY <1>1, <1>5, Zenon DEF MainSpawn, MainInv
  <2> QED
    BY <1>1, <2>1, AnswerKept, Zenon DEF Answering
<1>6. CASE MainWaitInit \/ MainSetOpsMode \/ MainJoin \/ MainTerminate \/ MainWait
  <2>1. UNCHANGED <<pimPc, cur, retval, slot, outcome, pc, req, info>>
    BY <1>6, Zenon DEF MainWaitInit, MainSetOpsMode, MainJoin, MainTerminate, MainWait
  <2> QED
    BY <1>1, <2>1, AnswerKept, Zenon DEF Answering
<1> QED
  BY <1>3, <1>4, <1>5, <1>6, Zenon DEF Main

\* The kernel decides the request of a slot and then writes the return bit and
\* the valid bit of the same slot.
LEMMA AnswerPim ==
  ASSUME SlotInv, \A u \in Threads : AnswerInv(u), outcome \in [Threads -> {"open", "yes", "no"}],
         Pim, NEW u \in Threads
  PROVE  AnswerInv(u)'
<1> USE DEF regs, slots, mainVars, threads, list, pass
<1>1. SlotTypes /\ ThreadInv(u) /\ KernelInv /\ AnswerInv(u)
  BY DEF SlotInv
<1>2. cur \in Threads /\ retval \in BOOLEAN /\ slot[u] \in Infos
  BY <1>1 DEF SlotTypes
<1>3. UNCHANGED <<pc, req, info>>
  BY Zenon DEF Pim, TestInit, ListInit, SetFillMode, TestFill, FillCheck, FillAdd,
     TestTerminate, Gather, Sort, NextRequest, BatchDone, Seek, Apply, SetRetval,
     ClearRequest, Jump
<1>4. ASSUME UNCHANGED slot, pimPc \in {"fillAdd", "apply"}, pimPc' = "setRetval",
             Decide(cur', retval'), cur' \in Threads, slot[cur'].valid, retval' \in BOOLEAN
      PROVE  AnswerInv(u)'
  <2>1. ~Answering(u)
    BY <1>4 DEF Answering
  <2>2. CASE u = cur'
    <3>1. pc[u] = "poll" /\ ~slot[u].ret
      BY <1>1, <1>4, <2>1, <2>2, Zenon DEF AnswerInv, ThreadInv
    <3>2. outcome'[u] = Answer(retval')
      BY <1>4, <2>2, Zenon DEF Decide, Answer
    <3>3. Answering(u)' /\ pc'[u] = "poll" /\ ~slot'[u].ret /\ slot'[u].valid /\ pimPc' # "clear"
      BY <1>3, <1>4, <2>2, <3>1 DEF Answering
    <3>4. Answer(retval)' = Answer(retval')
      BY DEF Answer
    <3> QED
      BY <3>2, <3>3, <3>4, Zenon DEF AnswerInv
  <2>3. CASE u # cur'
    <3>1. outcome'[u] = outcome[u] /\ ~Answering(u)'
      BY <1>4, <2>3, Zenon DEF Decide, Answering
    <3> QED
      BY <1>1, <1>3, <1>4, <2>1, <3>1, AnswerKept, Zenon
  <2> QED
    BY <2>2, <2>3
<1>5. CASE FillAdd
  <2>1. /\ UNCHANGED slot /\ pimPc = "fillAdd" /\ pimPc' = "setRetval" /\ cur' = 0
        /\ Decide(0, retval') /\ retval' \in BOOLEAN
    BY <1>5, Zenon DEF FillAdd, Jump
  <2>2. slot[0].valid
    BY <1>1, <2>1, Zenon DEF KernelInv
  <2> QED
    BY <1>4, <2>1, <2>2, ZeroIsThread, Zenon
<1>6. CASE Apply
  <2>1. /\ UNCHANGED slot /\ pimPc = "apply" /\ pimPc' = "setRetval" /\ cur' = cur
        /\ Decide(cur, retval')
    BY <1>6, Zenon DEF Apply, Jump
  <2>2. retval' \in BOOLEAN
    BY <1>6, Zenon DEF Apply, ApplyContains, ApplyAdd, ApplyRemove
  <2>3. slot[cur].valid
    BY <1>1, <2>1, Zenon DEF KernelInv, Serving
  <2> QED
    BY <1>2, <1>4, <2>1, <2>2, <2>3, Zenon
<1>7. CASE SetRetval
  <2>1. /\ pimPc = "setRetval" /\ pimPc' = "clear" /\ UNCHANGED <<cur, retval, outcome>>
        /\ slot' = [slot EXCEPT ![cur] = SET_RETVAL(@, retval)]
    BY <1>7 DEF SetRetval
  <2>2. CASE u = cur
    <3>1. Answering(u) /\ ~slot[u].ret /\ outcome[u] = Answer(retval)
      BY <1>1, <2>1, <2>2, Zenon DEF AnswerInv, Answering
    <3>2. slot[u].valid /\ pc[u] = "poll"
      BY <1>1, <2>1, <2>2, Zenon DEF KernelInv, ThreadInv, Serving
    <3>3. slot'[u] = SET_RETVAL(slot[u], retval)
      BY <1>1, <2>1, <2>2, Zenon DEF SlotTypes
    <3>4. slot'[u].valid = slot[u].valid /\ slot'[u].ret = (slot[u].ret \/ retval)
      BY <1>2, <3>3 DEF SET_RETVAL, Infos
    <3>5. slot'[u].valid /\ slot'[u].ret = retval'
      BY <1>2, <2>1, <3>1, <3>2, <3>4, Zenon
    <3>6. Answering(u)' /\ pimPc' = "clear"
      BY <2>1, <2>2, <3>1 DEF Answering
    <3>7. outcome'[u] = Answer(retval)' /\ pc'[u] = "poll"
      BY <1>3, <2>1, <3>1, <3>2, Zenon DEF Answer
    <3> QED
      BY <3>5, <3>6, <3>7 DEF AnswerInv
  <2>3. CASE u # cur
    <3>1. slot'[u] = slot[u] /\ ~Answering(u) /\ ~Answering(u)'
      BY <1>1, <1>2, <2>1, <2>3, Zenon DEF Answering, SlotTypes
    <3> QED
      BY <1>1, <1>3, <2>1, <3>1, AnswerKept, Zenon
  <2> QED
    BY <2>2, <2>3
<1>8. CASE ClearRequest
  <2>1. /\ pimPc = "clear" /\ pimPc' = "next" /\ UNCHANGED <<cur, retval, outcome>>
        /\ slot' = [slot EXCEPT ![cur] = CLEAR_REQUEST(@)]
    BY <1>8 DEF ClearRequest
  <2>2. ~Answering(u)'
    BY <2>1 DEF Answering
  <2>3. CASE u = cur
    <3>1. slot[u].ret = retval /\ outcome[u] = Answer(retval)
      BY <1>1, <2>1, <2>3, Zenon DEF AnswerInv, Answering
    <3>2. pc[u] = "poll"
      BY <1>1, <2>1, <2>3, Zenon DEF KernelInv, ThreadInv, Serving
    <3>3. slot'[u] = CLEAR_REQUEST(slot[u])
      BY <1>1, <2>1, <2>3, Zenon DEF SlotTypes
    <3>4. ~slot'[u].valid /\ slot'[u].ret = slot[u].ret
      BY <1>2, <3>3 DEF CLEAR_REQUEST, Infos
    <3>5. outcome'[u] = Answer(slot[u].ret)' /\ pc'[u] = "poll"
      BY <1>3, <2>1, <3>1, <3>2, <3>4, Zenon DEF Answer
    <3> QED
      BY <2>2, <3>2, <3>4, <3>5, Zenon DEF AnswerInv
  <2>4. CASE u # cur
    <3>1. slot'[u] = slot[u] /\ ~Answering(u)
      BY <1>1, <1>2, <2>1, <2>4, Zenon DEF Answering, SlotTypes
    <3> QED
      BY <1>1, <1>3, <2>1, <2>2, <3>1, AnswerKept, Zenon
  <2> QED
    BY <2>3, <2>4
<1>9. CASE ~FillAdd /\ ~Apply /\ ~SetRetval /\ ~ClearRequest
  <2>1. UNCHANGED <<slot, outcome>>
    BY <1>9, Zenon DEF Pim, TestInit, ListInit, SetFillMode, TestFill, FillCheck, TestTerminate,
       Gather, Sort, NextRequest, BatchDone, Seek, Jump
  <2>2. pimPc \notin {"setRetval", "clear"} /\ pimPc' \notin {"setRetval", "clear"}
    BY <1>9, Zenon DEF Pim, TestInit, ListInit, SetFillMode, TestFill, FillCheck, TestTerminate,
       Gather, Sort, NextRequest, BatchDone, Seek, Jump
  <2> QED
    BY <1>1, <1>3, <2>1, <2>2, AnswerKept, Zenon DEF Answering
<1> QED
  BY <1>5, <1>6, <1>7, <1>8, <1>9, Zenon

-----------------------------------------------------------------------------
(* The refinement of LinearSet.                                            *)

\* LinearSet counts as the list does.
LEMMA SameCardinality ==
  ASSUME NEW S
  PROVE  Set!Cardinality(S) = Cardinality(S)
  BY Zenon DEF Set!Cardinality, Cardinality

\* What LinearSet sees of the list is the keys of its nodes.
LEMMA ContentIsListed ==
  ASSUME ListInv
  PROVE  content = IF ready THEN Listed ELSE {}
<1>1. Initialized <=> ready
  BY Zenon DEF ListInv, ModeInv, Initialized
<1> QED
  BY <1>1 DEF content, Listed

\* The same after a step.
LEMMA ContentIsListedAfter ==
  ASSUME ListInv'
  PROVE  content' = IF ready' THEN Listed' ELSE {}
<1>1. Initialized' <=> ready'
  BY Zenon DEF ListInv, ModeInv, Initialized
<1> QED
  BY <1>1 DEF content, Listed

\* A step that leaves the list alone leaves the set alone.
LEMMA ContentKept ==
  ASSUME ListInv, ListInv', UNCHANGED <<list, ready>>
  PROVE  content' = content
<1>1. Listed' = Listed
  BY Zenon DEF Listed, Nodes, list
<1>2. ready' = ready
  OBVIOUS
<1> QED
  BY <1>1, <1>2, ContentIsListed, ContentIsListedAfter

\* A step on one slot changes one call.
LEMMA OneCall ==
  ASSUME NEW t \in Threads, \A u \in Threads \ {t} : req'[u] = req[u] /\ outcome'[u] = outcome[u]
  PROVE  calls' = [calls EXCEPT ![t] = [op |-> req'[t].op, key |-> req'[t].key, res |-> outcome'[t]]]
  BY Zenon DEF calls

\* A new operation is an open call of LinearSet.
LEMMA InvokeRefines ==
  ASSUME SlotTypes, NEW t \in Threads, AnswerInv(t), NEW op, NEW k, Invoke(t, op, k),
         content' = content
  PROVE  Set!Invoke(t, op, k)
<1>1. pc[t] = "ready" /\ req' = [req EXCEPT ![t] = [op |-> op, key |-> k]]
      /\ UNCHANGED <<outcome, got>>
  BY Zenon DEF Invoke
<1>2. req[t] = [op |-> "none", key |-> 0] /\ outcome[t] = "open"
  BY <1>1 DEF AnswerInv
<1>3. calls[t] = Set!NoCall
  BY <1>2 DEF calls, Set!NoCall
<1>4. req'[t] = [op |-> op, key |-> k] /\ \A u \in Threads \ {t} : req'[u] = req[u]
  BY <1>1, Zenon DEF SlotTypes
<1>5. calls' = [calls EXCEPT ![t] = [op |-> req'[t].op, key |-> req'[t].key, res |-> outcome'[t]]]
  BY <1>1, <1>4, OneCall, Zenon
<1>6. calls' = [calls EXCEPT ![t] = [op |-> op, key |-> k, res |-> "open"]]
  <2>1. req'[t].op = op /\ req'[t].key = k /\ outcome'[t] = "open"
    BY <1>1, <1>2, <1>4
  <2> QED
    BY <1>5, <2>1, Zenon
<1> QED
  BY <1>1, <1>3, <1>6 DEF Set!Invoke

\* Reading the return bit of a slot that was handed back is the return of the
\* call, with what the kernel decided.
LEMMA PollRefines ==
  ASSUME SlotTypes, NEW t \in Threads, AnswerInv(t), Poll(t), ~slot[t].valid, content' = content,
         outcome \in [Threads -> {"open", "yes", "no"}]
  PROVE  Set!Return(t)
<1>1. /\ pc[t] = "poll"
      /\ got' = [got EXCEPT ![t] = slot[t].ret]
      /\ req' = [req EXCEPT ![t] = [op |-> "none", key |-> 0]]
      /\ outcome' = [outcome EXCEPT ![t] = "open"]
  BY Zenon DEF Poll
<1>2. outcome[t] = Answer(slot[t].ret)
  BY <1>1 DEF AnswerInv
<1>3. slot[t].ret \in BOOLEAN
  BY DEF SlotTypes, Infos
<1>4. outcome[t] # "open" /\ slot[t].ret = (outcome[t] = "yes")
  BY <1>2, <1>3 DEF Answer
<1>5. calls[t].res = outcome[t]
  BY DEF calls
<1>6. /\ req'[t] = [op |-> "none", key |-> 0] /\ outcome'[t] = "open"
      /\ \A u \in Threads \ {t} : req'[u] = req[u] /\ outcome'[u] = outcome[u]
  BY <1>1, Zenon DEF SlotTypes
<1>7. calls' = [calls EXCEPT ![t] = [op |-> req'[t].op, key |-> req'[t].key, res |-> outcome'[t]]]
  BY <1>6, OneCall, Zenon
<1>8. calls' = [calls EXCEPT ![t] = Set!NoCall]
  BY <1>6, <1>7 DEF Set!NoCall
<1>9. got' = [got EXCEPT ![t] = (calls[t].res = "yes")]
  BY <1>1, <1>4, <1>5, Zenon
<1> QED
  BY <1>4, <1>5, <1>8, <1>9 DEF Set!Return

\* The step at which the kernel decides a request is the one at which the call
\* takes effect, if the list changes as the set does.
LEMMA DecideRefines ==
  ASSUME SlotTypes, NEW t \in Threads, req[t].op # "none", outcome[t] = "open",
         outcome \in [Threads -> {"open", "yes", "no"}],
         NEW success \in BOOLEAN, Decide(t, success), UNCHANGED <<req, got>>,
         success <=> Set!Succeeds(req[t].op, req[t].key),
         content' = Set!Effect(req[t].op, req[t].key)
  PROVE  Set!TakeEffect(t)
<1>1. calls[t] = [op |-> req[t].op, key |-> req[t].key, res |-> "open"]
  BY DEF calls
<1>2. outcome'[t] = Answer(success) /\ \A u \in Threads \ {t} : outcome'[u] = outcome[u]
  BY Zenon DEF Decide, Answer
<1>3. calls' = [calls EXCEPT ![t] = [op |-> req'[t].op, key |-> req'[t].key, res |-> outcome'[t]]]
  BY <1>2, OneCall, Zenon
<1>4. [calls[t] EXCEPT !.res = Answer(success)]
        = [op |-> req[t].op, key |-> req[t].key, res |-> Answer(success)]
  BY <1>1
<1>5. calls' = [calls EXCEPT ![t].res = Answer(success)]
  BY <1>2, <1>3, <1>4, Zenon
<1>6. calls[t].op = req[t].op /\ calls[t].key = req[t].key /\ calls[t].res = "open"
  BY <1>1
<1>7. Answer(success) = IF Set!Succeeds(calls[t].op, calls[t].key) THEN "yes" ELSE "no"
  BY <1>6, Zenon DEF Answer
<1> QED
  BY <1>5, <1>6, <1>7, Zenon DEF Set!TakeEffect

\* An initial add takes effect on the set.  The block it takes was free, so the
\* set was not full.
LEMMA FillAddRefines ==
  ASSUME SlotInv, ListInv, ListInv', AnswerInv(0), FillServesAdds, FillAdd,
         outcome \in [Threads -> {"open", "yes", "no"}]
  PROVE  Set!TakeEffect(0)
<1> DEFINE k == param[0]
<1>1. /\ ready /\ ready' /\ Sorted /\ ListTypes /\ SlotTypes /\ 0 \in Threads
      /\ pimPc = "fillAdd" /\ UNCHANGED <<req, got>> /\ Decide(0, retval')
  BY ZeroIsThread, Zenon DEF FillAdd, Jump, regs, threads, ListInv, ModeInv, SlotInv
<1>2. /\ slot[0].valid /\ pc[0] = "poll" /\ k = req[0].key /\ k \in Keys /\ req[0].op = "add"
  BY <1>1, Zenon DEF SlotInv, KernelInv, ThreadInv, FillServesAdds
<1>3. outcome[0] = "open"
  BY <1>1, <1>2 DEF AnswerInv, Answering
<1>4. content = Listed
  BY <1>1, ContentIsListed
<1>5. PICK p \in Nodes \ {tail} :
        /\ key[p] < k /\ k <= key[next[p]]
        /\ IF key[next[p]] = k
             THEN retval' = FALSE /\ UNCHANGED list
             ELSE retval' = TRUE /\ \E b \in free : Insert(b, k, p, next[p])
  BY Zenon DEF FillAdd
<1>6. k \in Listed <=> key[next[p]] = k
  BY <1>1, <1>2, <1>5, ListedAtCursor, Zenon
<1>7. /\ Set!Succeeds("add", k) <=> k \notin Listed /\ free # {}
      /\ Set!Effect("add", k) = IF Set!Succeeds("add", k) THEN Listed \cup {k} ELSE Listed
  <2>1. Set!Succeeds("add", k) <=> k \notin Listed /\ Cardinality(Listed) # Cardinality(Blocks) - 2
    BY <1>4, SameCardinality, Zenon DEF Set!Succeeds
  <2>2. Set!Effect("add", k) = IF Set!Succeeds("add", k) THEN Listed \cup {k} ELSE Listed
    BY <1>4 DEF Set!Effect
  <2> QED
    BY <1>1, <2>1, <2>2, FullMeansNoneFree, Zenon
<1> HIDE DEF k
<1>8. CASE key[next[p]] = k
  <2>1. content' = content
    BY <1>1, <1>5, <1>8, ContentKept, Zenon
  <2>2. retval' = FALSE /\ ~Set!Succeeds("add", k) /\ content' = Set!Effect("add", k)
    BY <1>4, <1>5, <1>6, <1>7, <1>8, <2>1, Zenon
  <2> QED
    BY <1>1, <1>2, <1>3, <2>2, DecideRefines, Zenon
<1>9. CASE key[next[p]] # k
  <2>1. PICK b \in free : Insert(b, k, p, next[p])
    BY <1>5, <1>9, Zenon
  <2>2. k < key[next[p]]
    <3>1. next[p] \in Blocks
      BY <1>1 DEF Sorted, Nodes
    <3> QED
      BY <1>1, <1>2, <1>5, <1>9, <3>1, KeysAssumption DEF ListTypes, Keys, Top
  <2>3. Listed' = Listed \cup {k}
    BY <1>1, <1>2, <1>5, <2>1, <2>2, InsertLists, Zenon
  <2>4. content' = Listed'
    BY <1>1, ContentIsListedAfter
  <2>5. retval' = TRUE /\ Set!Succeeds("add", k) /\ content' = Set!Effect("add", k)
    BY <1>5, <1>6, <1>7, <1>9, <2>1, <2>3, <2>4, Zenon
  <2> QED
    BY <1>1, <1>2, <1>3, <2>5, DecideRefines, Zenon
<1> QED
  BY <1>8, <1>9

\* An operation of a batch takes effect on the set.
LEMMA ApplyRefines ==
  ASSUME SlotInv, ListInv, ListInv', AnswerInv(cur), Apply,
         outcome \in [Threads -> {"open", "yes", "no"}]
  PROVE  Set!TakeEffect(cur)
<1>1. /\ ready /\ ready' /\ Sorted /\ ListTypes /\ SlotTypes
      /\ pimPc = "apply" /\ UNCHANGED <<req, got>> /\ Decide(cur, retval')
  BY Zenon DEF Apply, Jump, regs, threads, ListInv, ModeInv, SlotInv
<1>2. /\ cur \in Threads /\ pred \in Nodes \ {tail} /\ curr = next[pred] /\ curr \in Nodes
      /\ key[pred] < arg /\ arg <= key[curr]
  BY <1>1, Zenon DEF ListInv, CursorInv, Sorted, SlotTypes
<1>3. slot[cur].valid /\ opType = req[cur].op /\ arg = req[cur].key
  BY <1>1, Zenon DEF SlotInv, KernelInv, Serving
<1>4. pc[cur] = "poll" /\ arg \in Keys /\ req[cur].op # "none"
  BY <1>2, <1>3, Zenon DEF SlotInv, ThreadInv
<1>5. outcome[cur] = "open"
  BY <1>1, <1>3, <1>4 DEF AnswerInv, Answering
<1>6. content = Listed /\ content' = Listed'
  BY <1>1, ContentIsListed, ContentIsListedAfter, Zenon
<1>7. arg \in Listed <=> key[curr] = arg
  BY <1>1, <1>2, <1>4, ListedAtCursor, Zenon
<1>8. ASSUME retval' \in BOOLEAN, retval' <=> Set!Succeeds(opType, arg),
             content' = Set!Effect(opType, arg)
      PROVE  Set!TakeEffect(cur)
  BY <1>1, <1>2, <1>3, <1>4, <1>5, <1>8, DecideRefines, Zenon
<1>9. CASE ApplyContains
  <2>1. opType = "contains" /\ retval' = (key[curr] = arg) /\ UNCHANGED list
    BY <1>9, Zenon DEF ApplyContains
  <2>2. content' = content
    BY <1>1, <2>1, ContentKept, Zenon
  <2>3. Set!Effect("contains", arg) = content
    BY DEF Set!Effect
  <2>4. Set!Succeeds("contains", arg) <=> arg \in content
    BY DEF Set!Succeeds
  <2> QED
    BY <1>6, <1>7, <1>8, <2>1, <2>2, <2>3, <2>4, Zenon
<1>10. CASE ApplyAdd
  <2>1. opType = "add"
    BY <1>10 DEF ApplyAdd
  <2>2. Set!Succeeds("add", arg) <=> arg \notin Listed /\ Cardinality(Listed) # Cardinality(Blocks) - 2
    BY <1>6, SameCardinality, Zenon DEF Set!Succeeds
  <2>3. Set!Effect("add", arg) = IF Set!Succeeds("add", arg) THEN Listed \cup {arg} ELSE Listed
    BY <1>6 DEF Set!Effect
  <2>4. Set!Succeeds("add", arg) <=> key[curr] # arg /\ free # {}
    BY <1>1, <1>7, <2>2, FullMeansNoneFree, Zenon
  <2>5. CASE key[curr] # arg /\ free # {}
    <3>1. PICK b \in free : Insert(b, arg, pred, next[pred])
      BY <1>2, <1>10, <2>5, ZenonT(60) DEF ApplyAdd
    <3>2. arg < key[next[pred]]
      <4>1. key[curr] \in Int /\ arg \in Int
        BY <1>1, <1>2, <1>4, KeysAssumption DEF ListTypes, Keys, Nodes, Top
      <4> QED
        BY <1>2, <2>5, <4>1
    <3>3. Listed' = Listed \cup {arg}
      BY <1>1, <1>2, <1>4, <3>1, <3>2, InsertLists, Zenon
    <3>4. retval' = TRUE
      BY <1>10, <2>5, Zenon DEF ApplyAdd
    <3> QED
      BY <1>6, <1>8, <2>1, <2>3, <2>4, <2>5, <3>3, <3>4, Zenon
  <2>6. CASE ~(key[curr] # arg /\ free # {})
    <3>1. retval' = FALSE /\ UNCHANGED list
      BY <1>10, <2>6, Zenon DEF ApplyAdd
    <3>2. content' = content
      BY <1>1, <3>1, ContentKept, Zenon
    <3> QED
      BY <1>6, <1>8, <2>1, <2>3, <2>4, <2>6, <3>1, <3>2, Zenon
  <2> QED
    BY <2>5, <2>6
<1>11. CASE ApplyRemove
  <2>1. opType = "remove"
    BY <1>11 DEF ApplyRemove
  <2>2. Set!Succeeds("remove", arg) <=> arg \in Listed
    BY <1>6 DEF Set!Succeeds
  <2>3. Set!Effect("remove", arg) = Listed \ {arg}
    BY <1>6 DEF Set!Effect
  <2>4. CASE key[curr] = arg
    <3>1. curr # tail
      BY <1>1, <1>2, <1>4, <2>4, KeysAssumption DEF Sorted, Keys, Top
    <3>2. /\ next' = [next EXCEPT ![pred] = next[curr]]
          /\ free' = free \cup {curr}
          /\ key' = [key EXCEPT ![curr] = FreeLink]
          /\ retval' = TRUE
          /\ UNCHANGED <<head, tail>>
      BY <1>11, <2>4 DEF ApplyRemove
    <3>3. Listed' = Listed \ {key[curr]}
      BY <1>1, <1>2, <3>1, <3>2, RemoveLists, Zenon
    <3> QED
      BY <1>6, <1>7, <1>8, <2>1, <2>2, <2>3, <2>4, <3>2, <3>3, Zenon
  <2>5. CASE key[curr] # arg
    <3>1. retval' = FALSE /\ UNCHANGED list
      BY <1>11, <2>5, Zenon DEF ApplyRemove
    <3>2. content' = content
      BY <1>1, <3>1, ContentKept, Zenon
    <3>3. Listed \ {arg} = Listed
      BY <1>7, <2>5
    <3> QED
      BY <1>6, <1>7, <1>8, <2>1, <2>2, <2>3, <2>5, <3>1, <3>2, <3>3, Zenon
  <2> QED
    BY <2>4, <2>5
<1> QED
  BY <1>9, <1>10, <1>11, Zenon DEF Apply

Answers == \A t \in Threads : AnswerInv(t)

\* Every thread finds in its slot the answer to the operation it asked for.
THEOREM AnswersInvariance == Spec => []Answers
<1>1. Init => Answers
  <2> SUFFICES ASSUME Init, NEW t \in Threads PROVE AnswerInv(t)
    BY DEF Answers
  <2>1. /\ pc[t] = "ready" /\ req[t] = [op |-> "none", key |-> 0] /\ outcome[t] = "open"
        /\ pimPc = "off"
    BY Zenon DEF Init
  <2> QED
    BY <2>1 DEF AnswerInv, Answering
<1>2. IInv /\ TypeOK /\ Answers /\ [Next]_vars => Answers'
  <2> SUFFICES ASSUME IInv, TypeOK, Answers, [Next]_vars, NEW u \in Threads PROVE AnswerInv(u)'
    BY Zenon DEF Answers
  <2>1. SlotInv /\ (\A t \in Threads : AnswerInv(t)) /\ outcome \in [Threads -> {"open", "yes", "no"}]
    BY Zenon DEF IInv, Answers, TypeOK
  <2>2. CASE UNCHANGED vars
    BY <2>1, <2>2, AnswerKept, Zenon DEF vars, slots, threads, pass, Answering
  <2> QED
    BY <2>1, <2>2, AnswerThread, AnswerMain, AnswerPim, Zenon DEF Next, Finished
<1> QED
  BY <1>1, <1>2, Invariance, TypeCorrect, PTL DEF Spec

\* A step of a thread opens or closes one call of LinearSet, or none.
LEMMA ThreadRefines ==
  ASSUME IInv, IInv', TypeOK, Answers, NEW t \in Threads, Thread(t)
  PROVE  [Set!Next]_(Set!vars)
<1> USE DEF regs, slots, mainVars, threads, pass
<1>1. SlotTypes /\ AnswerInv(t) /\ outcome \in [Threads -> {"open", "yes", "no"}]
  BY Zenon DEF IInv, SlotInv, Answers, TypeOK
<1>2. UNCHANGED <<list, ready>>
  BY Zenon DEF Thread, ThreadOperation, Invoke, SetOperation, SetRequest, Poll
<1>3. content' = content
  BY <1>2, ContentKept, Zenon DEF IInv
<1>4. ASSUME NEW op \in OpTypes \ {"none"}, NEW k \in Keys, ThreadOperation(t, op, k)
      PROVE  Set!Next
  <2>1. Set!Invoke(t, op, k)
    BY <1>1, <1>3, <1>4, InvokeRefines, Zenon DEF ThreadOperation
  <2>2. op \in {"add", "remove", "contains"}
    BY DEF OpTypes
  <2> QED
    BY <2>1, <2>2, Zenon DEF Set!Next
<1>5. CASE Poll(t) /\ ~slot[t].valid
  BY <1>1, <1>3, <1>5, PollRefines, Zenon DEF Set!Next
<1>6. CASE SetOperation(t) \/ SetRequest(t) \/ (Poll(t) /\ slot[t].valid)
  <2>1. UNCHANGED <<req, outcome, got>>
    BY <1>6, Zenon DEF SetOperation, SetRequest, Poll
  <2>2. calls' = calls
    BY <2>1 DEF calls
  <2> QED
    BY <1>3, <2>1, <2>2 DEF Set!vars
<1> QED
  BY <1>4, <1>5, <1>6, Zenon DEF Thread

\* A step of main opens a call of LinearSet, or changes nothing of it.
LEMMA MainRefines ==
  ASSUME IInv, IInv', Answers, Main
  PROVE  [Set!Next]_(Set!vars)
<1> USE DEF regs, slots, mainVars, threads, pass
<1>1. SlotTypes /\ AnswerInv(0) /\ 0 \in Threads /\ ListInv /\ ListInv'
  BY ZeroIsThread, Zenon DEF IInv, SlotInv, Answers
<1>2. content' = content
  <2>1. CASE MainStart
    <3>1. ~ready /\ ~ready'
      BY <1>1, <2>1, Zenon DEF MainStart, ListInv, ModeInv
    <3> QED
      BY <1>1, <3>1, ContentIsListed, ContentIsListedAfter, Zenon
  <2>2. CASE ~MainStart
    <3>1. UNCHANGED <<list, ready>>
      BY <2>2, Zenon DEF Main, MainWaitInit, MainFill, Invoke, MainSetOpsMode, MainSpawn, MainJoin,
         MainTerminate, MainWait
    <3> QED
      BY <1>1, <3>1, ContentKept, Zenon
  <2> QED
    BY <2>1, <2>2
<1>3. ASSUME NEW k \in todo, MainFill(k) PROVE Set!Next
  <2>1. k \in Keys
    BY <1>1, KeysAssumption DEF SlotTypes
  <2>2. Set!Invoke(0, "add", k)
    BY <1>1, <1>2, <1>3, InvokeRefines, Zenon DEF MainFill
  <2> QED
    BY <1>1, <2>1, <2>2, Zenon DEF Set!Next
<1>4. CASE ~\E k \in todo : MainFill(k)
  <2>1. UNCHANGED <<req, outcome, got>>
    BY <1>4, Zenon DEF Main, MainStart, MainWaitInit, MainSetOpsMode, MainSpawn, MainJoin,
       MainTerminate, MainWait
  <2>2. calls' = calls
    BY <2>1 DEF calls
  <2> QED
    BY <1>2, <2>1, <2>2 DEF Set!vars
<1> QED
  BY <1>3, <1>4

\* A step of the kernel lets one call take effect, or changes nothing.
LEMMA PimRefines ==
  ASSUME IInv, IInv', TypeOK, Answers, FillServesAdds, Pim
  PROVE  [Set!Next]_(Set!vars)
<1> USE DEF regs, slots, mainVars, threads, pass
<1>1. /\ SlotInv /\ ListInv /\ ListInv' /\ outcome \in [Threads -> {"open", "yes", "no"}]
      /\ cur \in Threads /\ 0 \in Threads /\ AnswerInv(0) /\ AnswerInv(cur)
  BY ZeroIsThread, Zenon DEF IInv, Answers, TypeOK
<1>2. CASE FillAdd
  BY <1>1, <1>2, FillAddRefines, Zenon DEF Set!Next
<1>3. CASE Apply
  BY <1>1, <1>3, ApplyRefines, Zenon DEF Set!Next
<1>4. CASE ~FillAdd /\ ~Apply
  <2>1. UNCHANGED <<req, outcome, got>>
    BY <1>4, Zenon DEF Pim, TestInit, ListInit, SetFillMode, TestFill, FillCheck, TestTerminate,
       Gather, Sort, NextRequest, BatchDone, Seek, SetRetval, ClearRequest, Jump
  <2>2. calls' = calls
    BY <2>1 DEF calls
  <2>3. CASE ListInit
    <3>1. ~ready /\ ready' /\ Nodes' \ {head', tail'} = {}
      BY <1>1, <2>3, BlocksAssumption DEF ListInit, ListInv, ModeInv, Nodes
    <3>2. Listed' = {}
      BY <3>1 DEF Listed
    <3>3. content' = content
      BY <1>1, <3>1, <3>2, ContentIsListed, ContentIsListedAfter, Zenon
    <3> QED
      BY <2>1, <2>2, <3>3 DEF Set!vars
  <2>4. CASE ~ListInit
    <3>1. UNCHANGED <<list, ready>>
      BY <1>4, <2>4, Zenon DEF Pim, TestInit, SetFillMode, TestFill, FillCheck, TestTerminate,
         Gather, Sort, NextRequest, BatchDone, Seek, SetRetval, ClearRequest, Jump
    <3>2. content' = content
      BY <1>1, <3>1, ContentKept, Zenon
    <3> QED
      BY <2>1, <2>2, <3>2 DEF Set!vars
  <2> QED
    BY <2>3, <2>4
<1> QED
  BY <1>2, <1>3, <1>4

\* ImplementsLinearSet, for all constants: the host threads see a set on which
\* each operation takes effect once, between its call and its return, whatever
\* batches the kernel forms.  The two conditions are those of FillServesAdds.
THEOREM SetRefinement == InitialKeys # {} /\ SlowSpawn => (Spec => ImplementsLinearSet)
<1> SUFFICES ASSUME InitialKeys # {}, SlowSpawn PROVE Spec => ImplementsLinearSet
  OBVIOUS
<1>1. Init => Set!Init
  <2> SUFFICES ASSUME Init PROVE Set!Init
    OBVIOUS
  <2>1. content = {} /\ got = [t \in Threads |-> FALSE]
    BY DEF Init, content, Initialized
  <2>2. \A t \in Threads : req[t].op = "none" /\ req[t].key = 0 /\ outcome[t] = "open"
    BY DEF Init
  <2>3. calls = [t \in Threads |-> Set!NoCall]
    BY <2>2 DEF calls, Set!NoCall
  <2> QED
    BY <2>1, <2>3 DEF Set!Init
<1>2. IInv /\ TypeOK /\ Answers /\ FillServesAdds /\ [Next]_vars => [Set!Next]_(Set!vars)
  <2> SUFFICES ASSUME IInv, TypeOK, Answers, FillServesAdds, [Next]_vars
               PROVE  [Set!Next]_(Set!vars)
    OBVIOUS
  <2>1. IInv'
    BY NextPreserves
  <2>2. CASE UNCHANGED vars
    <3>1. UNCHANGED <<list, ready, req, outcome, got>>
      BY <2>2 DEF vars, regs, threads
    <3>2. content' = content
      BY <2>1, <3>1, ContentKept DEF IInv
    <3>3. calls' = calls
      BY <3>1 DEF calls
    <3> QED
      BY <3>1, <3>2, <3>3 DEF Set!vars
  <2> QED
    BY <2>1, <2>2, ThreadRefines, MainRefines, PimRefines, Zenon DEF Next, Finished
<1>3. Spec => []FillServesAdds
  BY FillServesAddsHolds
<1> QED
  BY <1>1, <1>2, <1>3, Invariance, TypeCorrect, AnswersInvariance, PTL
     DEF Spec, ImplementsLinearSet, Set!Spec

=============================================================================
