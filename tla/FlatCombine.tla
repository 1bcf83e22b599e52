---------------------------- MODULE FlatCombine -----------------------------
(***************************************************************************)
(* The flat-combining protocol of the host baselines.  A thread publishes  *)
(* its request in its own slot and links the slot into a publication list; *)
(* whoever gets the combiner lock walks the list and executes every        *)
(* request it finds.  The combiner unlinks slots that have not been used   *)
(* for long, and their owners link them again.                             *)
(*                                                                         *)
(* The protocol is the same in four classes; FcQueue and FcList add the    *)
(* data structure.  The constants name the points where the classes        *)
(* differ.  A step is one access to shared memory, or several of which     *)
(* only the last can matter to another thread.                             *)
(***************************************************************************)
EXTENDS Integers, FiniteSets

CONSTANTS
    Threads,
    Lists,      \* the publication lists, each with its combiner lock
    Main,       \* the slot with which the main thread fills the structure
    MainLists,  \* the lists it is linked in; it is never used again
    Threshold,  \* UNUSED_SLOT_THRESHOLD
    CasTail,    \* tail_slot is moved with compare-and-swap, not under a mutex
    OwnStatus,  \* combine_lock_status is a variable beside the mutex
    Batch,      \* requests are collected and sorted before they are executed
    StampLate   \* op_timestamp is written after is_request_valid

NoSlot == "NULL"
NoThread == "none"

CombineAssumption ==
    /\ Threshold \in Nat /\ NoThread \notin Threads /\ NoSlot \notin Threads /\ Main \notin Threads \cup {NoSlot}
    /\ MainLists \subseteq Lists
    /\ {CasTail, OwnStatus, Batch, StampLate} \subseteq BOOLEAN

Owners == Threads \cup {Main}

VARIABLES
    slot,    \* slot[l][o]: the SlotInfo of o in list l.  age is the distance
             \* of op_timestamp from operation_timestamp, up to Threshold + 1.
    tail,    \* tail[l]: tail_slot
    lock,    \* lock[l]: the combiner
    status,  \* status[l]: combine_lock_status
    th       \* th[t]: program counter and local variables of t

protocol == <<slot, tail, lock, status, th>>

Resting == [pc |-> "idle", list |-> NoSlot, after |-> "none", curr |-> NoSlot, prev |-> NoSlot, reqs |-> {}]

FcInit ==
    /\ slot = [l \in Lists |-> [o \in Owners |->
                  [valid |-> FALSE, op |-> "none", val |-> 0, ret |-> 0,
                   linked |-> o = Main /\ l \in MainLists, next |-> NoSlot,
                   age |-> IF o = Main /\ l \in MainLists THEN 1 ELSE 0]]]
    /\ tail = [l \in Lists |-> IF l \in MainLists THEN Main ELSE NoSlot]
    /\ lock = [l \in Lists |-> NoThread]
    /\ status = [l \in Lists |-> FALSE]
    /\ th = [t \in Threads |-> Resting]

-----------------------------------------------------------------------------
Mine(t) == slot[th[t].list][t]
Goto(t, pc) == th' = [th EXCEPT ![t].pc = pc]
Busy(l) == IF OwnStatus THEN status[l] ELSE lock[l] # NoThread

\* fc_operation up to is_request_valid = TRUE.
Publish(t, l, op, v) ==
    /\ th[t].pc = "idle"
    /\ slot' = [slot EXCEPT ![l][t].op = op, ![l][t].val = v, ![l][t].valid = TRUE]
    /\ th' = [th EXCEPT ![t] = [Resting EXCEPT !.pc = "check", !.list = l, !.after = "try"]]
    /\ UNCHANGED <<tail, lock, status>>

CheckLinked(t) ==
    /\ th[t].pc = "check"
    /\ Goto(t, IF ~ Mine(t).linked /\ Mine(t).valid THEN "mark" ELSE th[t].after)
    /\ UNCHANGED <<slot, tail, lock, status>>

\* enq_slot
MarkLinked(t) ==
    /\ th[t].pc = "mark"
    /\ slot' = [slot EXCEPT ![th[t].list][t].linked = TRUE, ![th[t].list][t].age = 0]
    /\ Goto(t, "tail")
    /\ UNCHANGED <<tail, lock, status>>

ReadTail(t) ==
    /\ th[t].pc = "tail" /\ CasTail
    /\ slot' = [slot EXCEPT ![th[t].list][t].next = tail[th[t].list]]
    /\ Goto(t, "cas")
    /\ UNCHANGED <<tail, lock, status>>

SwapTail(t) ==
    /\ th[t].pc = "cas"
    /\ IF tail[th[t].list] = Mine(t).next
         THEN tail' = [tail EXCEPT ![th[t].list] = t] /\ Goto(t, th[t].after)
         ELSE Goto(t, "tail") /\ UNCHANGED tail
    /\ UNCHANGED <<slot, lock, status>>

\* The same under tail_slot_lock.
LinkLocked(t) ==
    /\ th[t].pc = "tail" /\ ~ CasTail
    /\ slot' = [slot EXCEPT ![th[t].list][t].next = tail[th[t].list]]
    /\ tail' = [tail EXCEPT ![th[t].list] = t]
    /\ Goto(t, th[t].after)
    /\ UNCHANGED <<lock, status>>

TryLock(t) ==
    /\ th[t].pc = "try"
    /\ IF lock[th[t].list] = NoThread
         THEN /\ lock' = [lock EXCEPT ![th[t].list] = t]
              /\ th' = [th EXCEPT ![t].pc = IF OwnStatus THEN "status" ELSE "check", ![t].after = "combine"]
         ELSE /\ th' = [th EXCEPT ![t].pc = "wait", ![t].after = "wait"]
              /\ UNCHANGED lock
    /\ UNCHANGED <<slot, tail, status>>

SetStatus(t) ==
    /\ th[t].pc = "status"
    /\ status' = [status EXCEPT ![th[t].list] = TRUE]
    /\ Goto(t, "check")
    /\ UNCHANGED <<slot, tail, lock>>

\* The waiting loop: link the slot again when a combiner has unlinked it, ...
Relink(t) ==
    /\ th[t].pc = "wait" /\ Mine(t).valid /\ Busy(th[t].list) /\ ~ Mine(t).linked
    /\ Goto(t, "mark")
    /\ UNCHANGED <<slot, tail, lock, status>>

\* ... try the lock when it is free, or leave with the answer.
WaitEnds(t) ==
    /\ th[t].pc = "wait" /\ (~ Mine(t).valid \/ ~ Busy(th[t].list))
    /\ Goto(t, IF Mine(t).valid THEN "try" ELSE "return")
    /\ UNCHANGED <<slot, tail, lock, status>>

-----------------------------------------------------------------------------
(* flat_combine                                                            *)

Combine(t) ==
    /\ th[t].pc = "combine"
    /\ th' = [th EXCEPT ![t].pc = "scan", ![t].curr = tail[th[t].list], ![t].prev = tail[th[t].list]]
    /\ UNCHANGED <<slot, tail, lock, status>>

At(t) == slot[th[t].list][th[t].curr]
Scanning(t) == th[t].pc = "scan" /\ th[t].curr # NoSlot
Advanced(t) == [th[t] EXCEPT !.pc = "scan", !.prev = th[t].curr, !.curr = At(t).next]

Collect(t) ==
    /\ Scanning(t) /\ At(t).valid /\ Batch
    /\ th' = [th EXCEPT ![t] = [Advanced(t) EXCEPT !.reqs = @ \cup {th[t].curr}]]
    /\ UNCHANGED <<slot, tail, lock, status>>

\* One more operation: every slot but the one just served grows older.
Older(l, o, s) ==
    [p \in Owners |->
        [s[p] EXCEPT !.age = IF p = o THEN 1 ELSE IF ~ s[p].linked \/ @ > Threshold THEN @ ELSE @ + 1]]

Answered(l, o, ret) == [slot[l] EXCEPT ![o].valid = FALSE, ![o].ret = ret]

\* The request of slot o is executed and answered with ret.
Serve(t, o, ret) ==
    LET l == th[t].list
    IN  slot' = [slot EXCEPT ![l] = IF StampLate THEN Answered(l, o, ret) ELSE Older(l, o, Answered(l, o, ret))]

ServeNow(t, ret) ==
    /\ Scanning(t) /\ At(t).valid /\ ~ Batch
    /\ Serve(t, th[t].curr, ret)
    /\ th' = [th EXCEPT ![t] = IF StampLate THEN [@ EXCEPT !.pc = "stamp"] ELSE Advanced(t)]
    /\ UNCHANGED <<tail, lock, status>>

Stamp(t) ==
    /\ th[t].pc = "stamp"
    /\ slot' = [slot EXCEPT ![th[t].list] = Older(th[t].list, th[t].curr, @)]
    /\ th' = [th EXCEPT ![t] = Advanced(t)]
    /\ UNCHANGED <<tail, lock, status>>

\* sort leaves requests with equal parameters in any order.
NextRequest(t, o) ==
    /\ o \in th[t].reqs
    /\ \A p \in th[t].reqs : slot[th[t].list][o].val <= slot[th[t].list][p].val

ServeSorted(t, o, ret) ==
    /\ th[t].pc = "scan" /\ th[t].curr = NoSlot /\ NextRequest(t, o)
    /\ Serve(t, o, ret)
    /\ th' = [th EXCEPT ![t].reqs = @ \ {o}]
    /\ UNCHANGED <<tail, lock, status>>

\* FAULT (not the code): the slot at the tail may be unlinked too.
Unused_Tail(t) == At(t).age > Threshold

Unused(t) == th[t].curr # th[t].prev /\ At(t).age > Threshold

Skip(t) ==
    /\ Scanning(t) /\ ~ At(t).valid
    /\ th' = [th EXCEPT ![t] = IF Unused(t) THEN [@ EXCEPT !.pc = "unlink"] ELSE Advanced(t)]
    /\ UNCHANGED <<slot, tail, lock, status>>

Unlink(t) ==
    /\ th[t].pc = "unlink"
    /\ slot' = [slot EXCEPT ![th[t].list][th[t].prev].next = At(t).next]
    /\ Goto(t, "unlinked")
    /\ UNCHANGED <<tail, lock, status>>

Unlinked(t) ==
    /\ th[t].pc = "unlinked"
    /\ slot' = [slot EXCEPT ![th[t].list][th[t].curr] = [@ EXCEPT !.linked = FALSE, !.age = 0]]
    /\ th' = [th EXCEPT ![t].pc = "scan", ![t].curr = slot[th[t].list][th[t].prev].next]
    /\ UNCHANGED <<tail, lock, status>>

Done(t) == th[t].pc = "scan" /\ th[t].curr = NoSlot /\ th[t].reqs = {}

Leave(t, pc) == th' = [th EXCEPT ![t] = [Resting EXCEPT !.pc = pc, !.list = th[t].list]]

ClearStatus(t) ==
    /\ Done(t) /\ OwnStatus
    /\ status' = [status EXCEPT ![th[t].list] = FALSE]
    /\ Leave(t, "unlock")
    /\ UNCHANGED <<slot, tail, lock>>

Unlock(t) ==
    /\ th[t].pc = "unlock" \/ (Done(t) /\ ~ OwnStatus)
    /\ lock' = [lock EXCEPT ![th[t].list] = NoThread]
    /\ Leave(t, "return")
    /\ UNCHANGED <<slot, tail, status>>

\* Nobody reads op, val and ret any more; the model forgets them.
Return(t) ==
    /\ th[t].pc = "return"
    /\ slot' = [slot EXCEPT ![th[t].list][t] = [@ EXCEPT !.op = "none", !.val = 0, !.ret = 0]]
    /\ th' = [th EXCEPT ![t] = Resting]
    /\ UNCHANGED <<tail, lock, status>>

\* Every step of the protocol that neither calls, nor serves, nor returns.
Protocol(t) ==
    \/ CheckLinked(t) \/ MarkLinked(t) \/ ReadTail(t) \/ SwapTail(t) \/ LinkLocked(t)
    \/ TryLock(t) \/ SetStatus(t) \/ Relink(t) \/ WaitEnds(t)
    \/ Combine(t) \/ Collect(t) \/ Stamp(t) \/ Skip(t) \/ Unlink(t) \/ Unlinked(t)
    \/ ClearStatus(t) \/ Unlock(t)

-----------------------------------------------------------------------------
\* The slots that the publication list l reaches.
Reached(l) ==
    LET P[i \in 0..Cardinality(Owners)] ==
            IF i = 0 THEN tail[l] ELSE IF P[i - 1] = NoSlot THEN NoSlot ELSE slot[l][P[i - 1]].next
    IN  {P[i] : i \in DOMAIN P}

\* A slot that says it is linked is in the list, except while its owner is
\* linking it or a combiner is unlinking it; and the list ends.
LinkedIsReached ==
    \A l \in Lists :
        /\ NoSlot \in Reached(l)
        /\ \A o \in Owners :
              slot[l][o].linked =>
                  \/ o \in Reached(l)
                  \/ o \in Threads /\ th[o].list = l /\ th[o].pc \in {"tail", "cas"}
                  \/ \E t \in Threads : th[t].list = l /\ th[t].pc = "unlinked" /\ th[t].curr = o

\* An operation is never answered without having been executed: the thread
\* that leaves fc_operation finds its request served, also when it was the
\* combiner itself.
AnsweredOnReturn == \A t \in Threads : th[t].pc = "return" => ~ Mine(t).valid

\* A request whose slot stays linked is executed, whoever combines; its owner
\* need not win the lock.  (A thread whose slot was unlinked may in theory
\* fail the lock for ever, and see it free each time it looks.)
LinkedIsServed ==
    \A l \in Lists, t \in Threads :
        (slot[l][t].valid /\ slot[l][t].linked) ~> (~ slot[l][t].valid \/ ~ slot[l][t].linked)
=============================================================================
