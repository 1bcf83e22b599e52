---------------------------- MODULE NdpListProofs ---------------------------
(***************************************************************************)
(* The slot protocol between the host threads and the kernel of the PIM    *)
(* list, for every number of threads and keys, which does not look at the  *)
(* list.  Then the list, which stays sorted and complete: the cursors of a *)
(* pass stay in place because the slot protocol holds.  Then the types of  *)
(* all variables, and the modes through which main and the kernel go       *)
(* together.                                                               *)
(***************************************************************************)
EXTENDS NdpList, TLAPS

\* Types of the variables the slot protocol reads.
SlotTypes ==
    /\ slot \in [Threads -> Infos]
    /\ param \in [Threads -> Keys \cup {0}]
    /\ pc \in [Threads -> {"ready", "setOp", "publish", "poll"}]
    /\ info \in [Threads -> Infos]
    /\ req \in [Threads -> [op : OpTypes, key : Keys \cup {0}]]
    /\ mainPc \in MainPcs /\ todo \subseteq InitialKeys
    /\ pimPc \in PimPcs
    /\ gi \in Threads /\ batch \subseteq Threads /\ cur \in Threads
    /\ retval \in BOOLEAN

\* The kernel serves the slot cur.
Serving == {"seek", "apply", "setRetval", "clear"}

\* What a thread at each place of LINKED_LIST_OPERATION has written so far.
ThreadInv(t) ==
    /\ pc[t] # "poll" => ~slot[t].valid
    /\ pc[t] # "ready" => param[t] = req[t].key /\ param[t] \in Keys /\ req[t].op # "none"
    /\ pc[t] = "publish" => info[t].op = req[t].op
    /\ pc[t] = "poll" => slot[t].op = req[t].op

\* What the kernel has in hand.  A slot in its batch is valid until it clears it.
KernelInv ==
    /\ \A t \in batch : slot[t].valid
    /\ pimPc \in Serving => slot[cur].valid /\ cur \notin batch
    /\ pimPc = "fillAdd" => slot[0].valid
    /\ pimPc \in {"seek", "apply"} => opType = req[cur].op /\ arg = req[cur].key

\* Only main uses slot 0 outside the rounds, and nobody a slot between them.
MainInv ==
    /\ mainPc \notin {"fill", "join"} => \A t \in Threads : pc[t] = "ready"
    /\ mainPc = "fill" => \A t \in Threads \ {0} : pc[t] = "ready"

SlotInv == SlotTypes /\ (\A t \in Threads : ThreadInv(t)) /\ KernelInv /\ MainInv

\* Slot 0, which main uses, exists.
LEMMA ZeroIsThread == 0 \in Threads
  BY ThreadsAssumption DEF Threads

\* Each macro on info_bits changes its own field and keeps the type.
LEMMA SetOperationMacro ==
  ASSUME NEW i \in Infos, NEW op \in OpTypes
  PROVE  /\ SET_OPERATION(i, op) \in Infos
         /\ ~SET_OPERATION(i, op).valid /\ SET_OPERATION(i, op).op = op
  BY DEF SET_OPERATION, Infos

\* SET_REQUEST sets the valid bit and keeps the operation.
LEMMA SetRequestMacro ==
  ASSUME NEW i \in Infos
  PROVE  SET_REQUEST(i) \in Infos /\ SET_REQUEST(i).valid /\ SET_REQUEST(i).op = i.op
  BY Zenon DEF SET_REQUEST, Infos

\* SET_RETVAL keeps the valid bit and the operation.
LEMMA SetRetvalMacro ==
  ASSUME NEW i \in Infos, NEW ret \in BOOLEAN
  PROVE  /\ SET_RETVAL(i, ret) \in Infos
         /\ SET_RETVAL(i, ret).valid = i.valid /\ SET_RETVAL(i, ret).op = i.op
  BY DEF SET_RETVAL, Infos

\* CLEAR_REQUEST clears the valid bit and keeps the operation.
LEMMA ClearRequestMacro ==
  ASSUME NEW i \in Infos
  PROVE  CLEAR_REQUEST(i) \in Infos /\ ~CLEAR_REQUEST(i).valid /\ CLEAR_REQUEST(i).op = i.op
  BY Zenon DEF CLEAR_REQUEST, Infos

\* Before main starts the core no slot is in use.
LEMMA SlotInit == Init => SlotInv
<1> SUFFICES ASSUME Init PROVE SlotInv
  OBVIOUS
<1>1. retval \in BOOLEAN
  BY Zenon DEF Init
<1> QED
  BY <1>1, ZeroIsThread DEF Init, SlotInv, SlotTypes, ThreadInv, KernelInv, MainInv, Infos, NoInfo,
     OpTypes, MainPcs, PimPcs, Serving

\* Every slot access of a thread keeps the protocol.
LEMMA SlotThread == SlotInv /\ (\E t \in Threads : Thread(t)) => SlotInv'
<1> SUFFICES ASSUME SlotInv, NEW t \in Threads, Thread(t) PROVE SlotInv'
  OBVIOUS
<1> USE DEF SlotInv, SlotTypes, ThreadInv, KernelInv, MainInv, regs, mainVars,
            threads, list, pass, slots, Serving
<1>1. CASE \E op \in OpTypes \ {"none"}, k \in Keys : ThreadOperation(t, op, k)
  BY <1>1 DEF ThreadOperation, Invoke, OpTypes
<1>2. CASE SetOperation(t)
  <2>1. /\ info' \in [Threads -> Infos] /\ slot' \in [Threads -> Infos]
        /\ ~slot'[t].valid /\ slot'[t].op = req[t].op /\ info'[t] = slot'[t]
        /\ \A u \in Threads \ {t} : slot'[u] = slot[u] /\ info'[u] = info[u]
    <3> DEFINE i == SET_OPERATION(info[t], req[t].op)
    <3>1. i \in Infos /\ ~i.valid /\ i.op = req[t].op
      <4>1. info[t] \in Infos
        OBVIOUS
      <4>2. req[t].op \in OpTypes
        OBVIOUS
      <4> QED
        BY <4>1, <4>2, SetOperationMacro, ZenonT(60)
    <3>2. info' = [info EXCEPT ![t] = i] /\ slot' = [slot EXCEPT ![t] = info'[t]]
      BY <1>2 DEF SetOperation
    <3> QED
      BY <3>1, <3>2
  <2> QED
    BY <1>2, <2>1, SMTT(60) DEF SetOperation
<1>3. CASE SetRequest(t)
  <2>1. /\ info' \in [Threads -> Infos] /\ slot' \in [Threads -> Infos]
        /\ slot'[t].op = info[t].op
        /\ \A u \in Threads \ {t} : slot'[u] = slot[u] /\ info'[u] = info[u]
    BY <1>3, SetRequestMacro DEF SetRequest
  <2> QED
    BY <1>3, <2>1 DEF SetRequest
<1>4. CASE Poll(t)
  <2>1. CASE slot[t].valid
    BY <1>4, <2>1 DEF Poll
  <2>2. CASE ~slot[t].valid
    <3>1. SlotTypes'
      <4>1. req' \in [Threads -> [op : OpTypes, key : Keys \cup {0}]]
        BY <1>4, <2>2, SMTT(60) DEF Poll, OpTypes
      <4>2. pc' \in [Threads -> {"ready", "setOp", "publish", "poll"}]
        BY <1>4, <2>2, SMTT(60) DEF Poll
      <4>3. info' \in [Threads -> Infos]
        BY <1>4 DEF Poll
      <4> QED
        BY <1>4, <2>2, <4>1, <4>2, <4>3 DEF Poll
    <3>2. ASSUME NEW u \in Threads PROVE ThreadInv(u)'
      BY <1>4, <2>2 DEF Poll
    <3>3. KernelInv'
      BY <1>4, <2>2, ZenonT(60) DEF Poll
    <3>4. MainInv'
      BY <1>4, <2>2 DEF Poll
    <3> QED
      BY <3>1, <3>2, <3>3, <3>4, Zenon
  <2> QED
    BY <2>1, <2>2, ZenonT(60)
<1> QED
  BY <1>1, <1>2, <1>3, <1>4, ZenonT(60) DEF Thread

\* Every step of main keeps it.
LEMMA SlotMain == SlotInv /\ Main => SlotInv'
<1> SUFFICES ASSUME SlotInv, Main PROVE SlotInv'
  OBVIOUS
<1> USE ZeroIsThread DEF SlotInv, SlotTypes, ThreadInv, KernelInv, MainInv, regs,
            mainVars, threads, list, pass, slots, Serving, MainPcs
<1>1. CASE MainStart
  BY <1>1 DEF MainStart, PimPcs
<1>2. CASE MainWaitInit
  BY <1>2, SMTT(60) DEF MainWaitInit
<1>3. CASE \E k \in todo : MainFill(k)
  BY <1>3, KeysAssumption, SMTT(60) DEF MainFill, Invoke, OpTypes
<1>4. CASE MainSetOpsMode
  BY <1>4 DEF MainSetOpsMode
<1>5. CASE \E n \in 1..NumThreads : MainSpawn(n)
  BY <1>5, SMTT(60) DEF MainSpawn, NoInfo, Infos, OpTypes
<1>6. CASE MainJoin
  BY <1>6 DEF MainJoin
<1>7. CASE MainTerminate
  BY <1>7, ZenonT(60) DEF MainTerminate
<1>8. CASE MainWait
  BY <1>8, Zenon DEF MainWait
<1> QED
  BY <1>1, <1>2, <1>3, <1>4, <1>5, <1>6, <1>7, <1>8, Zenon DEF Main

\* Every step of the kernel keeps it: the kernel changes only slots in its hand.
LEMMA SlotPim == SlotInv /\ Pim => SlotInv'
<1> SUFFICES ASSUME SlotInv, Pim PROVE SlotInv'
  OBVIOUS
<1> USE ZeroIsThread DEF SlotInv, SlotTypes, ThreadInv, KernelInv, MainInv, regs,
            mainVars, threads, list, pass, slots, Serving, PimPcs
<1>1. CASE TestInit
  BY <1>1 DEF TestInit, Jump
<1>2. CASE ListInit
  BY <1>2, ZenonT(60) DEF ListInit, Jump
<1>3. CASE SetFillMode
  BY <1>3, ZenonT(60) DEF SetFillMode, Jump
<1>4. CASE TestFill
  BY <1>4, ZenonT(60) DEF TestFill, Jump
<1>5. CASE FillCheck
  BY <1>5, SMTT(60) DEF FillCheck, Jump
<1>6. CASE FillAdd
  BY <1>6, Zenon DEF FillAdd, Jump
<1>7. CASE TestTerminate
  BY <1>7, ZenonT(60) DEF TestTerminate, Jump
<1>8. CASE Gather
  BY <1>8, ThreadsAssumption, SMTT(60) DEF Gather, Jump, Threads
<1>9. CASE Sort
  BY <1>9, SMTT(60) DEF Sort, Jump
<1>10. CASE NextRequest
  <2>1. retval' \in BOOLEAN
    BY <1>10, Zenon DEF NextRequest
  <2> QED
    BY <1>10, <2>1, SMTT(60) DEF NextRequest, Jump
<1>11. CASE BatchDone
  BY <1>11, Zenon DEF BatchDone, Jump
<1>12. CASE Seek
  BY <1>12, SMTT(60) DEF Seek, Jump
<1>13. CASE Apply
  <2>1. retval' \in BOOLEAN
    BY <1>13, Zenon DEF Apply, ApplyContains, ApplyAdd, ApplyRemove
  <2> QED
    BY <1>13, <2>1, ZenonT(60) DEF Apply, Jump
<1>14. CASE SetRetval
  <2>1. /\ slot' \in [Threads -> Infos]
        /\ slot'[cur].valid = slot[cur].valid /\ slot'[cur].op = slot[cur].op
        /\ \A t \in Threads \ {cur} : slot'[t] = slot[t]
    BY <1>14, SetRetvalMacro, SMTT(60) DEF SetRetval
  <2> QED
    BY <1>14, <2>1, SMTT(60) DEF SetRetval
<1>15. CASE ClearRequest
  <2>1. /\ slot' \in [Threads -> Infos]
        /\ ~slot'[cur].valid /\ slot'[cur].op = slot[cur].op
        /\ \A t \in Threads \ {cur} : slot'[t] = slot[t]
    BY <1>15, ClearRequestMacro, ZenonT(60) DEF ClearRequest
  <2> QED
    BY <1>15, <2>1, SMTT(60) DEF ClearRequest
<1> QED
  BY <1>1, <1>2, <1>3, <1>4, <1>5, <1>6, <1>7, <1>8, <1>9, <1>10, <1>11, <1>12, <1>13, <1>14,
     <1>15, Zenon DEF Pim

\* Every step of a thread, of main and of the kernel preserves the protocol.
LEMMA SlotStep == SlotInv /\ [Next]_vars => SlotInv'
<1> SUFFICES ASSUME SlotInv, [Next]_vars PROVE SlotInv'
  OBVIOUS
<1>1. CASE UNCHANGED vars
  BY <1>1, ZenonT(60) DEF vars, slots, mainVars, threads, pass, SlotInv, SlotTypes, ThreadInv, KernelInv,
     MainInv
<1> QED
  BY <1>1, SlotThread, SlotMain, SlotPim DEF Next, Finished

\* While a request is valid its thread waits and the slot holds what the thread
\* asked for, also when the kernel reads it a second time.
THEOREM RequestStableHolds == Spec => []RequestStable
<1>1. SlotInv => RequestStable
  BY DEF SlotInv, ThreadInv, KernelInv, RequestStable, Serving
<1> QED
  BY <1>1, SlotInit, SlotStep, PTL DEF Spec

-----------------------------------------------------------------------------
(* The list and the cursors of a pass.                                     *)

\* Types of the list and of the locals of a pass.
ListTypes ==
    /\ head \in Blocks \cup {Null} /\ tail \in Blocks \cup {Null}
    /\ key \in [Blocks -> 0..Top]
    /\ next \in [Blocks -> Blocks \cup {Null}]
    /\ free \subseteq Blocks
    /\ rank \in [Threads -> Keys \cup {0}]
    /\ pred \in Blocks \cup {Null} /\ curr \in Blocks \cup {Null}
    /\ opType \in OpTypes /\ arg \in Keys \cup {0}
    /\ sreg0 \in {0, 1, 3, 4} /\ ready \in BOOLEAN

\* The kernel initializes the list once, before anything else uses it.
ModeInv ==
    /\ mainPc = "start" => pimPc = "off" /\ ~ready
    /\ ~ready => /\ pimPc \in {"off", "is0", "init"}
                 /\ mainPc \in {"start", "waitInit"}
                 /\ pimPc # "off" => sreg0 = 0
    /\ ready => pimPc # "init" /\ (sreg0 = 0 => pimPc = "initDone")

\* The cursors bracket the keys that are still to be served.
CursorInv ==
    /\ pimPc \in {"seek", "apply"} \/ (pimPc \in Serving \cup {"next"} /\ batch # {}) =>
         /\ pred \in Nodes \ {tail} /\ curr = next[pred]
         /\ \A t \in batch : rank[t] = param[t] /\ key[pred] < rank[t]
    /\ pimPc \in {"seek", "apply"} =>
         /\ key[pred] < arg
         /\ \A t \in batch : arg <= rank[t]
    /\ pimPc = "apply" => arg <= key[curr]

ListInv == ListTypes /\ ModeInv /\ (ready => Sorted) /\ CursorInv

\* A new node with a key between those of p and its successor keeps the list
\* sorted, and every other node where it is.
LEMMA InsertKeepsSorted ==
  ASSUME ListTypes, Sorted, NEW b \in free, NEW k \in Keys, NEW p \in Nodes \ {tail},
         key[p] < k, k < key[next[p]], Insert(b, k, p, next[p])
  PROVE  /\ Sorted'
         /\ Nodes' = Nodes \cup {b} /\ tail' = tail /\ next'[p] = b
         /\ \A n \in Nodes : key'[n] = key[n]
         /\ key'[b] = k
         /\ key' \in [Blocks -> 0..Top] /\ next' \in [Blocks -> Blocks \cup {Null}]
<1> USE KeysAssumption
<1>1. /\ Nodes \subseteq Blocks /\ b \in Blocks /\ b \notin Nodes /\ p \in Blocks
      /\ next[p] \in Nodes /\ k \in 0..Top
  BY DEF ListTypes, Sorted, Nodes, Keys, Top
<1>2. /\ Nodes' = Nodes \cup {b} /\ head' = head /\ tail' = tail
  BY <1>1 DEF Insert, Nodes
<1>3. /\ key' \in [Blocks -> 0..Top] /\ next' \in [Blocks -> Blocks \cup {Null}]
      /\ key'[b] = k /\ next'[p] = b /\ next'[b] = next[p]
      /\ \A n \in Nodes : key'[n] = key[n]
      /\ \A n \in Nodes \ {p} : next'[n] = next[n]
  BY <1>1 DEF Insert, ListTypes
<1>4. ASSUME NEW n \in Nodes' \ {tail'}
      PROVE  /\ next'[n] \in Nodes'
             /\ key'[n] < key'[next'[n]]
             /\ \A m \in Nodes' \ {n} : key'[m] < key'[n] \/ key'[next'[n]] <= key'[m]
  <2>1. \A m \in Nodes : key[m] \in Int
    BY <1>1 DEF ListTypes
  <2>2. \A m \in Nodes \ {p} : key[m] < key[p] \/ key[next[p]] <= key[m]
    BY DEF Sorted
  <2>3. CASE n = b
    BY <1>1, <1>2, <1>3, <2>1, <2>2, <2>3 DEF Keys
  <2>4. CASE n = p
    BY <1>1, <1>2, <1>3, <2>1, <2>2, <2>4 DEF Keys
  <2>5. CASE n \notin {b, p}
    <3>1. n \in Nodes \ {tail} /\ next[n] \in Nodes /\ next'[n] = next[n]
      BY <1>2, <1>3, <2>5 DEF Sorted
    <3>2. /\ key[n] < key[next[n]]
          /\ \A m \in Nodes \ {n} : key[m] < key[n] \/ key[next[n]] <= key[m]
      BY <3>1 DEF Sorted
    <3> QED
      BY <1>1, <1>2, <1>3, <2>1, <2>2, <2>5, <3>1, <3>2 DEF Keys
  <2> QED
    BY <2>3, <2>4, <2>5
<1> QED
  BY <1>1, <1>2, <1>3, <1>4 DEF Sorted

\* Unlinking the successor of p keeps the list sorted without that node.
LEMMA RemoveKeepsSorted ==
  ASSUME ListTypes, Sorted, NEW p \in Nodes \ {tail}, NEW c, c = next[p], c # tail,
         next' = [next EXCEPT ![p] = next[c]],
         free' = free \cup {c},
         key' = [key EXCEPT ![c] = FreeLink],
         UNCHANGED <<head, tail>>
  PROVE  /\ Sorted'
         /\ Nodes' = Nodes \ {c} /\ p \in Nodes' /\ next'[p] = next[c]
         /\ \A n \in Nodes' : key'[n] = key[n]
         /\ key' \in [Blocks -> 0..Top] /\ next' \in [Blocks -> Blocks \cup {Null}]
         /\ free' \subseteq Blocks
<1> USE KeysAssumption
<1>1. /\ Nodes \subseteq Blocks /\ p \in Blocks /\ c \in Nodes \ {tail} /\ key[p] < key[c]
      /\ next[c] \in Nodes /\ key[c] < key[next[c]] /\ FreeLink \in 0..Top
  BY DEF ListTypes, Sorted, Nodes, FreeLink, Top
<1>2. \A m \in Nodes : key[m] \in 0..Top
  BY <1>1 DEF ListTypes
<1>3. p # c /\ next[c] # c /\ head # c
  BY <1>1, <1>2 DEF Sorted
<1>4. Nodes' = Nodes \ {c} /\ free' \subseteq Blocks
  BY <1>1 DEF Nodes, ListTypes
<1>5. /\ key' \in [Blocks -> 0..Top] /\ next' \in [Blocks -> Blocks \cup {Null}]
      /\ next'[p] = next[c]
      /\ \A n \in Nodes \ {c} : key'[n] = key[n]
      /\ \A n \in Nodes \ {p} : next'[n] = next[n]
  BY <1>1 DEF ListTypes
<1>6. ASSUME NEW n \in Nodes' \ {tail'}
      PROVE  /\ next'[n] \in Nodes'
             /\ key'[n] < key'[next'[n]]
             /\ \A m \in Nodes' \ {n} : key'[m] < key'[n] \/ key'[next'[n]] <= key'[m]
  <2>1. \A m \in Nodes \ {p} : key[m] < key[p] \/ key[c] <= key[m]
    BY DEF Sorted
  <2>2. \A m \in Nodes \ {c} : key[m] < key[c] \/ key[next[c]] <= key[m]
    BY <1>1 DEF Sorted
  <2>3. CASE n = p
    BY <1>1, <1>2, <1>3, <1>4, <1>5, <2>1, <2>2, <2>3
  <2>4. CASE n # p
    <3>1. n \in Nodes \ {tail} /\ next[n] \in Nodes /\ next'[n] = next[n]
      BY <1>4, <1>5, <2>4 DEF Sorted
    <3>2. /\ key[n] < key[next[n]]
          /\ \A m \in Nodes \ {n} : key[m] < key[n] \/ key[next[n]] <= key[m]
      BY <3>1 DEF Sorted
    <3>3. next[n] # c
      BY <1>1, <1>2, <2>1, <2>4, <3>1, <3>2
    <3> QED
      BY <1>1, <1>2, <1>4, <1>5, <3>1, <3>2, <3>3
  <2> QED
    BY <2>3, <2>4
<1> QED
  BY <1>1, <1>3, <1>4, <1>5, <1>6 DEF Sorted

\* Before main starts the core there is no list and no pass.
LEMMA ListInitially == Init => ListInv
<1> SUFFICES ASSUME Init PROVE ListInv
  OBVIOUS
<1>1. ready \in BOOLEAN /\ ~ready
  BY Zenon DEF Init
<1> QED
  BY <1>1, KeysAssumption DEF Init, ListInv, ListTypes, ModeInv, CursorInv, Sorted, Serving, Top,
     OpTypes

\* The order of the list depends on the list only.
LEMMA SortedKept ==
  ASSUME Sorted, UNCHANGED list
  PROVE  Sorted'
  BY DEF Sorted, Nodes, list

\* Outside of a pass there are no cursors.
LEMMA CursorIdle ==
  ASSUME pimPc' \notin Serving \cup {"next"}
  PROVE  CursorInv'
  BY DEF CursorInv, Serving

\* The list belongs to the kernel.  A thread leaves it alone, and it does not
\* write the parameter of a slot that is in the kernel's batch.
LEMMA ListThread == SlotInv /\ ListInv /\ (\E t \in Threads : Thread(t)) => ListInv'
<1> SUFFICES ASSUME SlotInv, ListInv, NEW t \in Threads, Thread(t) PROVE ListInv'
  OBVIOUS
<1>1. UNCHANGED <<regs, list, pass, pimPc, mainPc>>
  BY Zenon DEF Thread, ThreadOperation, Invoke, SetOperation, SetRequest, Poll, mainVars, slots
<1>2. \A u \in batch : param'[u] = param[u]
  BY ZenonT(60) DEF Thread, ThreadOperation, Invoke, SetOperation, SetRequest, Poll, slots, SlotInv,
         SlotTypes, ThreadInv, KernelInv
<1> QED
  BY <1>1, <1>2, SMTT(60) DEF regs, list, pass, ListInv, ListTypes, ModeInv, CursorInv, Sorted, Nodes

\* main leaves the list alone, and starts the core only once.
LEMMA ListMain == SlotInv /\ ListInv /\ Main => ListInv'
<1> SUFFICES ASSUME SlotInv, ListInv, Main PROVE ListInv'
  OBVIOUS
<1>1. UNCHANGED <<list, pass>>
  BY DEF Main, MainStart, MainWaitInit, MainFill, Invoke, MainSetOpsMode, MainSpawn, MainJoin,
         MainTerminate, MainWait
<1>2. CASE MainStart
  <2>1. ready' \in BOOLEAN /\ ~ready'
    BY <1>2, Zenon DEF MainStart
  <2> QED
    BY <1>1, <1>2, <2>1, ZenonT(60) DEF MainStart, list, pass, slots, ListInv, ListTypes, ModeInv, CursorInv,
       Sorted, Nodes, Serving
<1>3. CASE ~MainStart
  <2>1. UNCHANGED <<ready, pimPc>>
    BY <1>3 DEF Main, MainWaitInit, MainFill, Invoke, MainSetOpsMode, MainSpawn, MainJoin,
         MainTerminate, MainWait, regs
  <2>2. \A u \in batch : param'[u] = param[u]
    BY <1>3, ZeroIsThread, ZenonT(60) DEF Main, MainWaitInit, MainFill, Invoke, MainSetOpsMode, MainSpawn,
         MainJoin, MainTerminate, MainWait, slots, SlotInv, SlotTypes, ThreadInv, KernelInv
  <2>3. sreg0' \in {0, 1, 3, 4}
    BY <1>3, Zenon DEF Main, MainWaitInit, MainFill, Invoke, MainSetOpsMode, MainSpawn, MainJoin,
         MainTerminate, MainWait, regs, ListInv, ListTypes
  <2>4. ListTypes'
    BY <1>1, <2>1, <2>3 DEF list, pass, ListInv, ListTypes
  <2>5. /\ mainPc' # "start"
        /\ ~ready => mainPc' = "waitInit" /\ sreg0' = sreg0
        /\ sreg0' = 0 => sreg0 = 0
    <3>1. CASE MainWaitInit \/ (\E k \in todo : MainFill(k))
      BY <3>1 DEF MainWaitInit, MainFill, Invoke, regs, ListInv, ModeInv
    <3>2. CASE MainSetOpsMode \/ MainTerminate
      BY <3>2 DEF MainSetOpsMode, MainTerminate, ListInv, ModeInv
    <3>3. CASE (\E n \in 1..NumThreads : MainSpawn(n)) \/ MainJoin \/ MainWait
      BY <3>3 DEF MainSpawn, MainJoin, MainWait, regs, ListInv, ModeInv
    <3> QED
      BY <1>3, <3>1, <3>2, <3>3 DEF Main
  <2>6. ModeInv'
    BY <2>1, <2>5 DEF ListInv, ModeInv
  <2>7. CursorInv'
    BY <1>1, <2>1, <2>2 DEF list, pass, ListInv, CursorInv, Nodes
  <2> QED
    BY <1>1, <2>1, <2>4, <2>6, <2>7, SortedKept DEF list, ListInv
<1> QED
  BY <1>2, <1>3

\* list_init leaves the two sentinels linked and every other block free.
LEMMA ListInitSorts == ListInv /\ ListInit => ListInv'
<1> SUFFICES ASSUME ListInv, ListInit PROVE ListInv'
  OBVIOUS
<1> USE KeysAssumption
<1>1. ready' \in BOOLEAN /\ ready'
  BY Zenon DEF ListInit
<1>2. PICK h, t \in Blocks :
        /\ h # t
        /\ head' = h /\ tail' = t
        /\ free' = Blocks \ {h, t}
        /\ key' = [[b \in Blocks |-> FreeLink] EXCEPT ![h] = 0, ![t] = Top]
        /\ next' = [next EXCEPT ![h] = t, ![t] = Null]
  BY BlocksAssumption, Zenon DEF ListInit
<1>3. Top \in Nat /\ Top > 0 /\ FreeLink \in 0..Top
  BY DEF Top, FreeLink
<1>4. /\ key' \in [Blocks -> 0..Top] /\ key'[h] = 0 /\ key'[t] = Top
      /\ next' \in [Blocks -> Blocks \cup {Null}] /\ next'[h] = t
      /\ Nodes' = {h, t}
  BY <1>2, <1>3 DEF Nodes, ListInv, ListTypes
<1>5. Sorted'
  BY <1>2, <1>3, <1>4 DEF Sorted
<1>6. ListTypes'
  BY <1>1, <1>2, <1>4, SMTT(60) DEF ListInit, Jump, pass, ListInv, ListTypes
<1>7. ModeInv' /\ CursorInv'
  BY <1>1, Zenon DEF ListInit, Jump, mainVars, pass, ListInv, ModeInv, CursorInv, Serving
<1> QED
  BY <1>5, <1>6, <1>7 DEF ListInv

\* An initial add inserts between two neighbours.
LEMMA FillAddSorts == SlotInv /\ ListInv /\ FillAdd => ListInv'
<1> SUFFICES ASSUME SlotInv, ListInv, FillAdd PROVE ListInv'
  OBVIOUS
<1>1. ready /\ Sorted /\ ListTypes
  BY ZenonT(60) DEF FillAdd, ListInv, ModeInv
<1>2. param[0] \in Keys
  BY ZeroIsThread, Zenon DEF FillAdd, SlotInv, KernelInv, ThreadInv
<1>3. Sorted' /\ key' \in [Blocks -> 0..Top] /\ next' \in [Blocks -> Blocks \cup {Null}]
      /\ free' \subseteq Blocks /\ UNCHANGED <<head, tail>>
  <2>1. PICK p \in Nodes \ {tail} :
          /\ key[p] < param[0] /\ param[0] <= key[next[p]]
          /\ IF key[next[p]] = param[0]
               THEN retval' = FALSE /\ UNCHANGED list
               ELSE retval' = TRUE /\ \E b \in free : Insert(b, param[0], p, next[p])
    BY Zenon DEF FillAdd
  <2>2. CASE key[next[p]] = param[0]
    BY <1>1, <2>1, <2>2, ZenonT(60) DEF list, Sorted, Nodes, ListTypes
  <2>3. CASE key[next[p]] # param[0]
    <3>1. PICK b \in free : Insert(b, param[0], p, next[p])
      BY <2>1, <2>3, Zenon
    <3>2. param[0] < key[next[p]]
      <4>1. next[p] \in Blocks
        BY <1>1 DEF Sorted, Nodes
      <4> QED
        BY <1>1, <1>2, <2>1, <2>3, <4>1, KeysAssumption DEF ListTypes, Keys, Top
    <3> QED
      BY <1>1, <1>2, <2>1, <3>1, <3>2, InsertKeepsSorted, Zenon DEF Insert, ListTypes
  <2> QED
    BY <2>2, <2>3, Zenon
<1>4. ListTypes'
  BY <1>1, <1>3 DEF FillAdd, regs, ListTypes
<1>5. ModeInv' /\ CursorInv'
  BY <1>1, Zenon DEF FillAdd, Jump, regs, mainVars, ListInv, ModeInv, CursorInv, Serving
<1> QED
  BY <1>3, <1>4, <1>5 DEF ListInv

\* An operation of a batch works between the cursors, and leaves them where the
\* next key of the batch can be found.
LEMMA ApplySorts == SlotInv /\ ListInv /\ Apply => ListInv'
<1> SUFFICES ASSUME SlotInv, ListInv, Apply PROVE ListInv'
  OBVIOUS
<1>1. /\ ready /\ Sorted /\ ListTypes
      /\ pred \in Nodes \ {tail} /\ curr = next[pred] /\ curr \in Nodes
      /\ key[pred] < arg /\ arg <= key[curr]
      /\ \A t \in batch : rank[t] = param[t] /\ key[pred] < rank[t]
  BY ZenonT(60) DEF Apply, ListInv, ModeInv, CursorInv, Sorted
<1>2. arg \in Keys
  BY DEF Apply, SlotInv, SlotTypes, KernelInv, ThreadInv, Serving
<1>3. /\ Sorted'
      /\ key' \in [Blocks -> 0..Top] /\ next' \in [Blocks -> Blocks \cup {Null}]
      /\ free' \subseteq Blocks /\ UNCHANGED <<head, tail, pred>>
      /\ pred \in Nodes' /\ curr' = next'[pred] /\ key'[pred] = key[pred]
  <2>1. CASE UNCHANGED <<list, curr>>
    BY <1>1, <2>1, ZenonT(60) DEF Apply, list, Sorted, Nodes, ListTypes
  <2>2. CASE ApplyAdd /\ key[curr] # arg /\ free # {}
    <3>1. PICK b \in free : Insert(b, arg, pred, next[pred]) /\ curr' = b
      BY <1>1, <2>2, ZenonT(60) DEF ApplyAdd
    <3>2. arg < key[next[pred]]
      <4>1. key[curr] \in Int /\ arg \in Int
        BY <1>1, <1>2, KeysAssumption DEF ListTypes, Keys, Nodes, Top
      <4> QED
        BY <1>1, <2>2, <4>1
    <3> QED
      <4>1. /\ Sorted'
            /\ Nodes' = Nodes \cup {b} /\ next'[pred] = b
            /\ \A n \in Nodes : key'[n] = key[n]
            /\ key' \in [Blocks -> 0..Top] /\ next' \in [Blocks -> Blocks \cup {Null}]
        BY <1>1, <1>2, <3>1, <3>2, InsertKeepsSorted, ZenonT(60)
      <4>2. free' \subseteq Blocks /\ UNCHANGED <<head, tail>>
        BY <1>1, <3>1 DEF Insert, ListTypes
      <4>3. UNCHANGED pred
        BY DEF Apply
      <4> QED
        BY <1>1, <3>1, <4>1, <4>2, <4>3, Zenon
  <2>3. CASE ApplyRemove /\ key[curr] = arg
    <3>1. curr # tail
      BY <1>1, <1>2, <2>3, KeysAssumption, SMTT(60) DEF Sorted, Keys, Top
    <3>2. /\ next' = [next EXCEPT ![pred] = next[curr]]
          /\ free' = free \cup {curr}
          /\ key' = [key EXCEPT ![curr] = FreeLink]
          /\ curr' = next[curr]
          /\ UNCHANGED <<head, tail>>
      BY <2>3 DEF ApplyRemove
    <3> QED
      BY <1>1, <3>1, <3>2, RemoveKeepsSorted, Zenon DEF Apply
  <2> QED
    BY <2>1, <2>2, <2>3, Zenon DEF Apply, ApplyContains, ApplyAdd, ApplyRemove
<1>4. curr' \in Blocks \cup {Null}
  BY <1>1, <1>3 DEF Nodes
<1>5. ListTypes'
  BY <1>1, <1>3, <1>4, SMTT(60) DEF Apply, regs, ListTypes
<1>6. ModeInv'
  BY <1>1, Zenon DEF Apply, Jump, regs, mainVars, ListInv, ModeInv
<1>7. CursorInv'
  BY <1>1, <1>3, ZenonT(60) DEF Apply, Jump, slots, CursorInv
<1> QED
  BY <1>3, <1>5, <1>6, <1>7 DEF ListInv

\* Every step of the kernel keeps the list and its cursors in order.
LEMMA ListPim == SlotInv /\ ListInv /\ Pim => ListInv'
<1> SUFFICES ASSUME SlotInv, ListInv, Pim PROVE ListInv'
  OBVIOUS
<1>1. ASSUME UNCHANGED <<list, ready>>, ListTypes', ModeInv', CursorInv' PROVE ListInv'
  BY <1>1, SortedKept DEF ListInv
<1>2. CASE TestInit
  <2>1. UNCHANGED <<list, ready>>
    BY <1>2 DEF TestInit, regs
  <2>2. ListTypes'
    BY <1>2 DEF TestInit, ListInv, ListTypes, regs, list, pass
  <2>3. ModeInv'
    BY <1>2 DEF TestInit, Jump, ListInv, ModeInv, regs, mainVars
  <2>4. CursorInv'
    BY <1>2, CursorIdle DEF TestInit, Jump, Serving
  <2> QED
    BY <1>1, <2>1, <2>2, <2>3, <2>4
<1>3. CASE SetFillMode
  <2>1. UNCHANGED <<list, ready>>
    BY <1>3 DEF SetFillMode, regs
  <2>2. ListTypes'
    BY <1>3, ZenonT(60) DEF SetFillMode, ListInv, ListTypes, regs, list, pass
  <2>3. ModeInv'
    BY <1>3 DEF SetFillMode, Jump, ListInv, ModeInv, regs, mainVars
  <2>4. CursorInv'
    BY <1>3, CursorIdle DEF SetFillMode, Jump, Serving
  <2> QED
    BY <1>1, <2>1, <2>2, <2>3, <2>4
<1>4. CASE TestFill
  <2>1. UNCHANGED <<list, ready>>
    BY <1>4 DEF TestFill, regs
  <2>2. ListTypes'
    BY <1>4, ZenonT(60) DEF TestFill, ListInv, ListTypes, regs, list, pass
  <2>3. ModeInv'
    BY <1>4 DEF TestFill, Jump, ListInv, ModeInv, regs, mainVars
  <2>4. CursorInv'
    BY <1>4, CursorIdle DEF TestFill, Jump, Serving
  <2> QED
    BY <1>1, <2>1, <2>2, <2>3, <2>4
<1>5. CASE FillCheck
  <2>1. UNCHANGED <<list, ready>>
    BY <1>5 DEF FillCheck, regs
  <2>2. ListTypes'
    BY <1>5, SMTT(60) DEF FillCheck, ListInv, ListTypes, regs, list, pass
  <2>3. ModeInv'
    BY <1>5 DEF FillCheck, Jump, ListInv, ModeInv, regs, mainVars
  <2>4. CursorInv'
    BY <1>5, CursorIdle DEF FillCheck, Jump, Serving
  <2> QED
    BY <1>1, <2>1, <2>2, <2>3, <2>4
<1>6. CASE TestTerminate
  <2>1. UNCHANGED <<list, ready>>
    BY <1>6 DEF TestTerminate, regs
  <2>2. ListTypes'
    BY <1>6, SMTT(60) DEF TestTerminate, ListInv, ListTypes, regs, list, pass
  <2>3. ModeInv'
    BY <1>6 DEF TestTerminate, Jump, ListInv, ModeInv, regs, mainVars
  <2>4. CursorInv'
    BY <1>6, CursorIdle DEF TestTerminate, Jump, Serving
  <2> QED
    BY <1>1, <2>1, <2>2, <2>3, <2>4
<1>7. CASE Gather
  <2>1. UNCHANGED <<list, ready>>
    BY <1>7 DEF Gather, regs
  <2>2. ListTypes'
    BY <1>7, SMTT(60) DEF Gather, ListInv, ListTypes, regs, list, pass
  <2>3. ModeInv'
    BY <1>7 DEF Gather, Jump, ListInv, ModeInv, regs, mainVars
  <2>4. CursorInv'
    BY <1>7, CursorIdle DEF Gather, Jump, Serving
  <2> QED
    BY <1>1, <2>1, <2>2, <2>3, <2>4
<1>8. CASE BatchDone
  <2>1. UNCHANGED <<list, ready>>
    BY <1>8 DEF BatchDone, regs
  <2>2. ListTypes'
    BY <1>8, Zenon DEF BatchDone, ListInv, ListTypes, regs, list, pass, OpTypes
  <2>3. ModeInv'
    BY <1>8 DEF BatchDone, Jump, ListInv, ModeInv, regs, mainVars
  <2>4. CursorInv'
    BY <1>8, CursorIdle DEF BatchDone, Jump, Serving
  <2> QED
    BY <1>1, <2>1, <2>2, <2>3, <2>4
<1>9. CASE SetRetval
  <2>1. UNCHANGED <<list, ready>>
    BY <1>9 DEF SetRetval, regs
  <2>2. ListTypes'
    BY <1>9, ZenonT(60) DEF SetRetval, ListInv, ListTypes, regs, list, pass
  <2>3. ModeInv'
    BY <1>9 DEF SetRetval, ListInv, ModeInv, regs, mainVars
  <2>4. CursorInv'
    BY <1>9, ZenonT(60) DEF SetRetval, ListInv, CursorInv, Serving, Nodes, list, pass
  <2> QED
    BY <1>1, <2>1, <2>2, <2>3, <2>4
<1>10. CASE ClearRequest
  <2>1. UNCHANGED <<list, ready>>
    BY <1>10 DEF ClearRequest, regs
  <2>2. ListTypes'
    BY <1>10, ZenonT(60) DEF ClearRequest, ListInv, ListTypes, regs, list, pass
  <2>3. ModeInv'
    BY <1>10 DEF ClearRequest, ListInv, ModeInv, regs, mainVars
  <2>4. CursorInv'
    BY <1>10, ZenonT(60) DEF ClearRequest, ListInv, CursorInv, Serving, Nodes, list, pass
  <2> QED
    BY <1>1, <2>1, <2>2, <2>3, <2>4
<1>11. CASE Sort
  <2>1. /\ ready /\ head \in Nodes \ {tail} /\ key[head] = 0 /\ next[head] \in Nodes
    <3>1. ready
      BY <1>11 DEF Sort, ListInv, ModeInv
    <3> QED
      BY <3>1, KeysAssumption, SMTT(60) DEF ListInv, Sorted, Top
  <2>2. UNCHANGED <<list, ready>>
    BY <1>11 DEF Sort, regs
  <2>3. \A t \in batch : param[t] \in Keys
    BY ZenonT(60) DEF SlotInv, SlotTypes, KernelInv, ThreadInv
  <2>4. CursorInv'
    <3>1. pred' \in (Nodes \ {tail})' /\ (curr = next[pred])'
      BY <1>11, <2>1, SMTT(60) DEF Sort, list, Nodes
    <3>2. \A t \in batch' : rank'[t] = param'[t] /\ key'[pred'] < rank'[t]
      BY <1>11, <2>1, <2>3, KeysAssumption, SMTT(60) DEF Sort, Jump, slots, list, Keys
    <3>3. pimPc' = "next"
      BY <1>11 DEF Sort, Jump
    <3> QED
      BY <3>1, <3>2, <3>3 DEF CursorInv
  <2>5. ListTypes'
    <3>1. pred' \in Blocks /\ curr' \in Blocks /\ rank' \in [Threads -> Keys \cup {0}]
      BY <1>11, <2>1, Zenon DEF Sort, Nodes, SlotInv, SlotTypes
    <3> QED
      BY <1>11, <3>1, ZenonT(60) DEF Sort, ListInv, ListTypes, regs, list
  <2>6. ModeInv'
    BY <1>11 DEF Sort, Jump, ListInv, ModeInv, regs, mainVars
  <2> QED
    BY <1>1, <2>2, <2>4, <2>5, <2>6
<1>12. CASE NextRequest
  <2>1. PICK t \in batch :
          /\ \A u \in batch : rank[t] <= rank[u]
          /\ cur' = t /\ batch' = batch \ {t} /\ opType' = slot[t].op /\ arg' = param[t]
    BY <1>12, ZenonT(60) DEF NextRequest
  <2>2. opType' \in OpTypes /\ arg' \in Keys \cup {0}
    BY <2>1, ZenonT(60) DEF SlotInv, SlotTypes, Infos
  <2>3. UNCHANGED <<list, ready, rank, pred, curr, param, sreg0, mainPc>> /\ pimPc' = "seek"
    BY <1>12, Zenon DEF NextRequest, Jump, regs, slots, mainVars
  <2>4. ListTypes'
    BY <2>2, <2>3, ZenonT(60) DEF ListInv, ListTypes, list
  <2>5. ModeInv'
    BY <1>12, <2>3, Zenon DEF NextRequest, ListInv, ModeInv
  <2>6. /\ pred \in Nodes \ {tail} /\ curr = next[pred]
        /\ \A u \in batch : rank[u] = param[u] /\ key[pred] < rank[u]
    BY <1>12, Zenon DEF NextRequest, ListInv, CursorInv
  <2>7. CursorInv'
    BY <2>1, <2>3, <2>6, Zenon DEF CursorInv, list, Nodes
  <2> QED
    BY <1>1, <2>3, <2>4, <2>5, <2>7
<1>13. CASE Seek
  <2>1. /\ ready /\ pred \in Nodes \ {tail} /\ curr = next[pred] /\ key[pred] < arg
        /\ \A t \in batch : rank[t] = param[t] /\ arg <= rank[t] /\ key[pred] < rank[t]
    BY <1>13, Zenon DEF Seek, ListInv, ModeInv, CursorInv
  <2>2. curr \in Nodes
    BY <2>1, ZenonT(60) DEF ListInv, Sorted
  <2>3. key[curr] \in Int /\ arg \in Int /\ \A t \in batch : rank[t] \in Int
    BY <2>2, KeysAssumption, SMTT(60) DEF ListInv, ListTypes, Nodes, Keys, Top, SlotInv, SlotTypes
  <2>4. /\ UNCHANGED <<list, ready, rank, param, sreg0, mainPc, batch, arg, opType>>
        /\ pimPc = "seek" /\ pimPc' \in {"seek", "apply"}
    BY <1>13, ZenonT(60) DEF Seek, Jump, regs, slots, mainVars
  <2>5. ModeInv'
    BY <2>1, <2>4, ZenonT(60) DEF ListInv, ModeInv
  <2>6. CASE key[curr] < arg
    <3>1. curr # tail
      BY <2>1, <2>6, KeysAssumption, SMTT(60) DEF ListInv, ListTypes, Sorted, Keys, Top
    <3>2. next[curr] \in Nodes
      BY <2>1, <2>2, <3>1, Zenon DEF ListInv, Sorted
    <3>3. pred' = curr /\ curr' = next[curr] /\ pimPc' = "seek"
      BY <1>13, <2>6, Zenon DEF Seek, Jump
    <3>4. ListTypes'
      BY <2>2, <2>4, <3>2, <3>3, ZenonT(60) DEF ListInv, ListTypes, Nodes, list
    <3>5. \A t \in batch : key[curr] < rank[t]
      BY <2>1, <2>3, <2>6
    <3>6. CursorInv'
      BY <2>1, <2>2, <2>4, <2>6, <3>1, <3>3, <3>5, ZenonT(60) DEF CursorInv, list, Nodes
    <3> QED
      BY <1>1, <2>4, <2>5, <3>4, <3>6
  <2>7. CASE ~(key[curr] < arg)
    <3>1. UNCHANGED <<pred, curr>> /\ pimPc' = "apply"
      BY <1>13, <2>7, Zenon DEF Seek, Jump
    <3>2. ListTypes'
      BY <2>4, <3>1, ZenonT(60) DEF ListInv, ListTypes, list
    <3>3. arg <= key[curr]
      BY <2>3, <2>7
    <3>4. CursorInv'
      BY <2>1, <2>4, <3>1, <3>3, ZenonT(60) DEF CursorInv, list, Nodes
    <3> QED
      BY <1>1, <2>4, <2>5, <3>2, <3>4
  <2> QED
    BY <2>6, <2>7
<1> QED
  BY <1>2, <1>3, <1>4, <1>5, <1>6, <1>7, <1>8, <1>9, <1>10, <1>11, <1>12, <1>13, ListInitSorts,
     FillAddSorts, ApplySorts DEF Pim

-----------------------------------------------------------------------------
(* The properties.                                                         *)

IInv == SlotInv /\ ListInv

\* The initial state satisfies the invariant of both layers.
LEMMA InitEstablishes == Init => IInv
  BY SlotInit, ListInitially DEF IInv

\* Every step of a thread, of main and of the kernel preserves both layers.
LEMMA NextPreserves == IInv /\ [Next]_vars => IInv'
<1> SUFFICES ASSUME IInv, [Next]_vars PROVE IInv'
  OBVIOUS
<1>1. SlotInv'
  BY SlotStep DEF IInv
<1>2. CASE UNCHANGED vars
  <2>1. ListTypes' /\ ModeInv'
    BY <1>2, ZenonT(60) DEF vars, regs, mainVars, list, pass, IInv, ListInv, ListTypes, ModeInv
  <2>2. CursorInv'
    BY <1>2, Zenon DEF vars, slots, list, pass, IInv, ListInv, CursorInv, Nodes
  <2> QED
    BY <1>1, <1>2, <2>1, <2>2, SortedKept DEF vars, regs, IInv, ListInv
<1> QED
  BY <1>1, <1>2, ListThread, ListMain, ListPim DEF Next, Finished, IInv

\* Both layers hold for ever, however many threads, keys and blocks there are.
THEOREM Invariance == Spec => []IInv
  BY InitEstablishes, NextPreserves, PTL DEF Spec

\* The list is sorted and its nodes are exactly the blocks that are not free,
\* whatever batches the kernel serves.
THEOREM ListSortedHolds == Spec => []ListSorted
<1>1. IInv => ListSorted
  BY DEF IInv, ListInv, ListSorted, Initialized
<1> QED
  BY <1>1, Invariance, PTL

-----------------------------------------------------------------------------
(* Types and modes.                                                        *)

\* Types of the variables that neither layer reads.
OtherTypes ==
    /\ round \in 0..Rounds
    /\ ops \in [Threads -> 0..OpsPerThread]
    /\ got \in [Threads -> BOOLEAN]
    /\ outcome \in [Threads -> {"open", "yes", "no"}]

\* Every variable keeps its type.
THEOREM TypeCorrect == Spec => []TypeOK
<1>1. Init => OtherTypes
  BY BoundsAssumption DEF Init, OtherTypes
<1>2. IInv /\ OtherTypes /\ [Next]_vars => OtherTypes'
  <2> SUFFICES ASSUME IInv, OtherTypes, [Next]_vars PROVE OtherTypes'
    OBVIOUS
  <2> USE BoundsAssumption DEF OtherTypes, regs, slots, mainVars, threads, list, pass
  <2>1. CASE UNCHANGED vars
    BY <2>1, Zenon DEF vars
  <2>2. ASSUME NEW t \in Threads, Thread(t) PROVE OtherTypes'
    <3>1. CASE \E op \in OpTypes \ {"none"}, k \in Keys : ThreadOperation(t, op, k)
      <4>1. ops' \in [Threads -> 0..OpsPerThread]
        BY <3>1 DEF ThreadOperation
      <4> QED
        BY <3>1, <4>1, Zenon DEF ThreadOperation, Invoke
    <3>2. CASE SetOperation(t) \/ SetRequest(t)
      BY <3>2, Zenon DEF SetOperation, SetRequest
    <3>3. CASE Poll(t)
      <4>1. slot[t].ret \in BOOLEAN
        BY DEF IInv, SlotInv, SlotTypes, Infos
      <4>2. got' \in [Threads -> BOOLEAN]
        BY <3>3, <4>1, Zenon DEF Poll
      <4>3. outcome' \in [Threads -> {"open", "yes", "no"}]
        BY <3>3, ZenonT(60) DEF Poll
      <4> QED
        BY <3>3, <4>2, <4>3, Zenon DEF Poll
    <3> QED
      BY <2>2, <3>1, <3>2, <3>3, Zenon DEF Thread
  <2>3. CASE Main
    <3>1. UNCHANGED <<got, outcome>>
      BY <2>3, Zenon DEF Main, MainStart, MainWaitInit, MainFill, Invoke, MainSetOpsMode,
         MainSpawn, MainJoin, MainTerminate, MainWait
    <3>2. CASE \E n \in 1..NumThreads : MainSpawn(n)
      <4>1. round' \in 0..Rounds
        BY <3>2 DEF MainSpawn
      <4>2. ops' \in [Threads -> 0..OpsPerThread]
        BY <3>2 DEF MainSpawn
      <4> QED
        BY <3>1, <4>1, <4>2, Zenon
    <3>3. CASE ~\E n \in 1..NumThreads : MainSpawn(n)
      <4>1. UNCHANGED <<round, ops>>
        BY <2>3, <3>3, Zenon DEF Main, MainStart, MainWaitInit, MainFill, MainSetOpsMode, MainJoin,
           MainTerminate, MainWait
      <4> QED
        BY <3>1, <4>1, Zenon
    <3> QED
      BY <3>2, <3>3
  <2>4. CASE Pim
    <3>1. UNCHANGED <<round, ops, got>>
      BY <2>4, Zenon DEF Pim, TestInit, ListInit, SetFillMode, TestFill, FillCheck, FillAdd,
         TestTerminate, Gather, Sort, NextRequest, BatchDone, Seek, Apply, SetRetval,
         ClearRequest, Jump
    <3>2. outcome' \in [Threads -> {"open", "yes", "no"}]
      BY <2>4, Zenon DEF Pim, TestInit, ListInit, SetFillMode, TestFill, FillCheck, FillAdd,
         TestTerminate, Gather, Sort, NextRequest, BatchDone, Seek, Apply, SetRetval,
         ClearRequest, Decide
    <3> QED
      BY <3>1, <3>2
  <2> QED
    BY <2>1, <2>2, <2>3, <2>4, Zenon DEF Next, Finished, vars
<1>3. IInv /\ OtherTypes => TypeOK
  BY Zenon DEF IInv, SlotInv, SlotTypes, ListInv, ListTypes, OtherTypes, TypeOK
<1> QED
  BY <1>1, <1>2, <1>3, Invariance, PTL DEF Spec

\* With an initial key to add, main cannot select its mode before the kernel has
\* written its own: the first initial add waits for the kernel.
SetupInv ==
    /\ mainPc \in {"start", "waitInit"} => todo = InitialKeys
    /\ mainPc \in {"spawn", "join"} => sreg0 = 1
    /\ pimPc = "initDone" =>
         /\ mainPc \in {"waitInit", "fill"}
         /\ mainPc = "fill" => todo # {} \/ pc[0] # "ready"
         /\ pc[0] = "poll" => slot[0].valid

\* SetupInv is inductive next to the two layers.
LEMMA SetupPreserves ==
  ASSUME InitialKeys # {}, IInv, SetupInv, [Next]_vars
  PROVE  SetupInv'
<1> USE ZeroIsThread DEF SetupInv, regs, slots, mainVars, threads, list, pass
<1>1. CASE UNCHANGED vars
  BY <1>1, Zenon DEF vars
<1>2. ASSUME NEW t \in Threads, Thread(t) PROVE SetupInv'
  <2>1. UNCHANGED <<sreg0, todo, mainPc, pimPc>>
    BY <1>2, Zenon DEF Thread, ThreadOperation, Invoke, SetOperation, SetRequest, Poll
  <2>2. pimPc = "initDone" /\ mainPc # "fill" => mainPc' # "fill"
    BY <2>1
  <2>3. ASSUME pimPc = "initDone"
        PROVE  (pc[0] # "ready" => pc'[0] # "ready") /\ (pc'[0] = "poll" => slot'[0].valid)
    <3>1. SlotTypes
      BY DEF IInv, SlotInv
    <3>2. CASE \E op \in OpTypes \ {"none"}, k \in Keys : ThreadOperation(t, op, k)
      BY <2>3, <3>1, <3>2, Zenon DEF ThreadOperation, Invoke, SlotTypes
    <3>3. CASE SetOperation(t)
      BY <2>3, <3>1, <3>3, Zenon DEF SetOperation, SlotTypes
    <3>4. CASE SetRequest(t)
      BY <2>3, <3>1, <3>4, SetRequestMacro, Zenon DEF SetRequest, SlotTypes
    <3>5. CASE Poll(t)
      BY <2>3, <3>1, <3>5, ZenonT(60) DEF Poll, SlotTypes
    <3> QED
      BY <1>2, <3>2, <3>3, <3>4, <3>5, Zenon DEF Thread
  <2> QED
    BY <2>1, <2>2, <2>3
<1>3. CASE Main
  <2>1. CASE \E k \in todo : MainFill(k)
    <3>1. /\ mainPc = "fill" /\ mainPc' = "fill" /\ pimPc' = pimPc /\ sreg0' = sreg0
          /\ pc' = [pc EXCEPT ![0] = "setOp"]
      BY <2>1, Zenon DEF MainFill, Invoke
    <3>2. 0 \in DOMAIN pc
      BY DEF IInv, SlotInv, SlotTypes
    <3>3. pc'[0] = "setOp"
      BY <3>1, <3>2, Zenon
    <3> QED
      BY <3>1, <3>3
  <2>2. CASE MainStart
    BY <2>2, Zenon DEF MainStart
  <2>3. CASE MainWaitInit
    BY <2>3, Zenon DEF MainWaitInit
  <2>4. CASE MainSetOpsMode
    BY <2>4, Zenon DEF MainSetOpsMode
  <2>5. CASE \E n \in 1..NumThreads : MainSpawn(n)
    BY <2>5, Zenon DEF MainSpawn
  <2>6. CASE MainJoin \/ MainTerminate \/ MainWait
    BY <2>6, Zenon DEF MainJoin, MainTerminate, MainWait
  <2> QED
    BY <1>3, <2>1, <2>2, <2>3, <2>4, <2>5, <2>6, Zenon DEF Main
<1>4. CASE Pim
  <2>1. CASE ListInit
    BY <2>1, Zenon DEF ListInit, Jump, IInv, SlotInv, MainInv, ListInv, ModeInv
  <2>2. CASE SetFillMode
    BY <2>2 DEF SetFillMode, Jump
  <2>3. CASE ~ListInit /\ ~SetFillMode
    <3>1. UNCHANGED <<sreg0, mainPc, todo>> /\ pimPc' # "initDone"
      BY <1>4, <2>3, Zenon DEF Pim, TestInit, TestFill, FillCheck, FillAdd,
         TestTerminate, Gather, Sort, NextRequest, BatchDone, Seek, Apply, SetRetval,
         ClearRequest, Jump
    <3> QED
      BY <3>1
  <2> QED
    BY <2>1, <2>2, <2>3
<1> QED
  BY <1>1, <1>2, <1>3, <1>4, Zenon DEF Next, Finished, vars

\* The mode main selects is never overwritten when there is an initial key; with
\* none, main may write its mode before the kernel writes its own.
THEOREM OpsModeKeptHolds == InitialKeys # {} => (Spec => []OpsModeKept)
<1> SUFFICES ASSUME InitialKeys # {} PROVE Spec => []OpsModeKept
  OBVIOUS
<1>1. Init => SetupInv
  BY DEF Init, SetupInv
<1>2. IInv /\ SetupInv /\ [Next]_vars => SetupInv'
  BY SetupPreserves
<1>3. SetupInv => OpsModeKept
  BY DEF SetupInv, OpsModeKept
<1> QED
  BY <1>1, <1>2, <1>3, Invariance, PTL DEF Spec

\* If main takes longer to create its threads than the kernel takes between its
\* two tests, the kernel has left the mode of the initial adds when they run.
FillInv ==
    /\ mainPc = "join" => pimPc \notin {"fill", "fillAdd"}
    /\ mainPc = "fill" /\ pc[0] # "ready" => req[0].op = "add"

\* FillInv is inductive next to SetupInv and the two layers.
LEMMA FillPreserves ==
  ASSUME SlowSpawn, IInv, SetupInv, FillInv, [Next]_vars
  PROVE  FillInv'
<1> USE ZeroIsThread DEF FillInv, regs, slots, mainVars, threads, list, pass
<1>1. SlotTypes /\ MainInv
  BY DEF IInv, SlotInv
<1>2. mainPc = "spawn" => pimPc # "fillAdd"
  BY Zenon DEF IInv, SlotInv, KernelInv, MainInv, ThreadInv
<1>3. CASE UNCHANGED vars
  BY <1>3, Zenon DEF vars
<1>4. ASSUME NEW t \in Threads, Thread(t) PROVE FillInv'
  <2>1. UNCHANGED <<mainPc, pimPc>>
    BY <1>4, Zenon DEF Thread, ThreadOperation, Invoke, SetOperation, SetRequest, Poll
  <2>2. mainPc = "fill" /\ pc'[0] # "ready" => pc[0] # "ready" /\ req'[0] = req[0]
    BY <1>1, <1>4, ZenonT(60) DEF Thread, ThreadOperation, Invoke, SetOperation, SetRequest, Poll,
       SlotTypes
  <2> QED
    BY <2>1, <2>2, Zenon
<1>5. CASE Main
  <2>1. CASE \E k \in todo : MainFill(k)
    <3>1. PICK k \in todo : MainFill(k)
      BY <2>1, Zenon
    <3>2. mainPc' = mainPc /\ mainPc = "fill" /\ req' = [req EXCEPT ![0] = [op |-> "add", key |-> k]]
      BY <3>1, Zenon DEF MainFill, Invoke
    <3>3. 0 \in DOMAIN req
      BY <1>1, Zenon DEF SlotTypes
    <3>4. req'[0] = [op |-> "add", key |-> k]
      BY <3>2, <3>3, Zenon
    <3> QED
      BY <3>2, <3>4
  <2>2. CASE \E n \in 1..NumThreads : MainSpawn(n)
    BY <1>2, <2>2, Zenon DEF MainSpawn
  <2>3. CASE MainStart \/ MainWaitInit \/ MainSetOpsMode \/ MainJoin \/ MainTerminate \/ MainWait
    BY <1>1, <2>3, Zenon DEF MainStart, MainWaitInit, MainSetOpsMode, MainJoin, MainTerminate,
       MainWait, MainInv
  <2> QED
    BY <1>5, <2>1, <2>2, <2>3, Zenon DEF Main
<1>6. CASE Pim
  <2>1. UNCHANGED <<mainPc, pc, req>>
    BY <1>6, Zenon DEF Pim, TestInit, ListInit, SetFillMode, TestFill, FillCheck, FillAdd,
       TestTerminate, Gather, Sort, NextRequest, BatchDone, Seek, Apply, SetRetval,
       ClearRequest, Jump
  <2>2. mainPc = "join" /\ pimPc \notin {"fill", "fillAdd"} => pimPc' \notin {"fill", "fillAdd"}
    <3>1. CASE TestFill
      <4>1. mainPc = "join" => sreg0 = 1
        BY Zenon DEF SetupInv
      <4>2. sreg0 = 1 => pimPc' = "is4"
        <5>1. pimPc' = IF sreg0 = 3 THEN "fill" ELSE "is4"
          BY <3>1, Zenon DEF TestFill, Jump
        <5> QED
          BY <5>1
      <4> QED
        BY <4>1, <4>2
    <3>2. CASE FillCheck
      BY <3>2, Zenon DEF FillCheck
    <3>3. CASE ~TestFill /\ ~FillCheck
      <4>1. pimPc' \in {"is0", "init", "is3", "initDone", "off", "gather", "sort", "next", "seek",
                        "apply", "setRetval", "clear", "is4"}
        BY <1>6, <3>3, Zenon DEF Pim, TestInit, ListInit, SetFillMode, FillAdd, TestTerminate,
           Gather, Sort, NextRequest, BatchDone, Seek, Apply, SetRetval, ClearRequest, Jump
      <4> QED
        BY <4>1
    <3> QED
      BY <3>1, <3>2, <3>3
  <2> QED
    BY <2>1, <2>2, Zenon
<1> QED
  BY <1>3, <1>4, <1>5, <1>6, Zenon DEF Next, Finished, vars

\* Only an add is served as an initial add, provided that there is an initial
\* key and that creating threads is slow; the run list_fill_race shows what
\* happens without the second assumption.
THEOREM FillServesAddsHolds == InitialKeys # {} /\ SlowSpawn => (Spec => []FillServesAdds)
<1> SUFFICES ASSUME InitialKeys # {}, SlowSpawn PROVE Spec => []FillServesAdds
  OBVIOUS
<1>1. Init => SetupInv /\ FillInv
  BY Zenon DEF Init, SetupInv, FillInv
<1>2. IInv /\ SetupInv /\ [Next]_vars => SetupInv'
  BY SetupPreserves
<1>3. IInv /\ SetupInv /\ FillInv /\ [Next]_vars => FillInv'
  BY FillPreserves
<1>4. IInv /\ FillInv => FillServesAdds
  BY ZeroIsThread, Zenon DEF IInv, SlotInv, KernelInv, ThreadInv, MainInv, FillInv, FillServesAdds
<1> QED
  BY <1>1, <1>2, <1>3, <1>4, Invariance, PTL DEF Spec

=============================================================================
