------------------------------ MODULE EthzDma -------------------------------
(***************************************************************************)
(* The DMA engine of a PIM core (ethz_dma.cc) and a kernel that uses it    *)
(* through the macros DMA_REQUEST and DMA_WAIT.  The engine keeps a vector *)
(* of requests, inserts at its front, remembers the request it works on by *)
(* its index, and takes one step of nextState per clock.  A request is cut *)
(* at the ends of the slices of the slice table and every piece into cache *)
(* lines; memory answers the lines in any order, and the last answer frees *)
(* the resource of the request.                                            *)
(*                                                                         *)
(* Addresses are small numbers.  No two slices share a physical address,   *)
(* so a virtual address stands for its translation.  The engine finds all  *)
(* translations in the TLB, as its functional refill never fails.          *)
(***************************************************************************)
EXTENDS Integers, Sequences, FiniteSets

CONSTANTS
    Resources,    \* bits of PIM_DMA_STATUS
    Transfers,    \* Transfers[r]: the <<start, bytes>> pairs a kernel asks r for
    SliceSize,    \* a slice ends below every multiple of SliceSize
    LineSize,     \* cacheLineSize
    MaxOutstandingDma, \* size of the pool of completion events
    MaxRequests,  \* bound: requests of one kernel
    SlowCore      \* TRUE: the four register writes of a DMA_REQUEST take longer
                  \* than the engine needs to put the requests before it in flight

\* Transfers on different resources do not overlap.
ASSUME TransfersAssumption ==
    /\ Transfers \in [Resources -> SUBSET (Nat \X (Nat \ {0}))]
    /\ \A r, q \in Resources : r # q =>
         \A x \in Transfers[r], y \in Transfers[q] : x[1] + x[2] <= y[1] \/ y[1] + y[2] <= x[1]
ASSUME SliceAssumption == SliceSize \in Nat \ {0} /\ LineSize \in Nat \ {0}
ASSUME DmaBoundsAssumption ==
    MaxRequests \in Nat /\ MaxOutstandingDma \in Nat /\ SlowCore \in BOOLEAN

\* No transfer is a single byte or ends with the first byte of a slice: the
\* engine tests mem_vstart < mem_vend and would leave that byte out.
ASSUME SizesAssumption ==
    \A r \in Resources : \A t \in Transfers[r] :
        t[2] > 1 /\ (t[1] + t[2] - 1) % SliceSize # 0

\* maxOutstandingDma events suffice for one transfer on each resource, when no
\* transfer lies in more than n slices.
ASSUME EventsAssumption ==
    /\ IsFiniteSet(Resources)
    /\ \E n \in 0..MaxOutstandingDma :
         /\ Cardinality(Resources) * n <= MaxOutstandingDma
         /\ \A r \in Resources : \A t \in Transfers[r] :
              (t[1] + t[2] - 1) \div SliceSize - t[1] \div SliceSize + 1 <= n

VARIABLES
    requests,   \* the vector of DMARequest objects
    current,    \* current_index, -1 for none
    state,      \* current_state
    scheduled,  \* next_state_scheduled: a nextState event is pending
    status,     \* dma_resources, and PIM_DMA_STATUS: the busy resources
    packets,    \* lines in flight: <<resource, first, last>>
    intr,       \* an interrupt is pending at the core
    pc,         \* where the kernel is
    waitFor,    \* the resource of the DMA_WAIT in progress
    held,       \* resources requested and not yet waited for
    count,      \* requests made so far
    panic       \* an assertion or panic of the engine has fired

dmaVars    == <<requests, current, state, scheduled, status, packets, panic>>
kernelVars == <<waitFor, held, count>>
vars       == <<dmaVars, kernelVars, intr, pc>>

\* DMARequest: the virtual range still to be issued, the pieces issued so far
\* (mem_pstart, mem_pend) and the byte counts.
NewRequest(r, start, bytes) ==
    [res |-> r, vstart |-> start, vend |-> start + bytes - 1, pieces |-> <<>>,
     expected |-> bytes, completed |-> 0, issued |-> FALSE]

\* The fields of a request that each step changes.
MarkIssued(r)        == [r EXCEPT !.issued = TRUE]
IssuePiece(r, last, vstart) ==
    [r EXCEPT !.pieces = Append(@, <<r.vstart, last>>), !.vstart = vstart]
Receive(r, bytes)    == [r EXCEPT !.completed = @ + bytes]

Smaller(a, b) == IF a < b THEN a ELSE b

SliceEnd(a) == (a \div SliceSize) * SliceSize + SliceSize - 1

\* dmaAction: the packets for the addresses first .. last, one per line
Lines(r, first, last) ==
    {<<r, IF n * LineSize < first THEN first ELSE n * LineSize,
          Smaller(n * LineSize + LineSize - 1, last)>> :
        n \in (first \div LineSize)..(last \div LineSize)}

Init ==
    /\ requests = <<>> /\ current = -1 /\ state = "IDLE" /\ scheduled = FALSE
    /\ status = {} /\ packets = {} /\ panic = FALSE
    /\ intr = FALSE /\ pc = "run"
    /\ waitFor \in Resources /\ held = {} /\ count = 0

\* postInterrupt: pending until cleared, and a suspended core continues.
PostInterrupt ==
    /\ intr' = TRUE
    /\ pc' = IF pc = "asleep" THEN "clear" ELSE pc

-----------------------------------------------------------------------------
(* nextState.  The index is -1 or counts from 0.                           *)

Waiting(rs) == {i \in 1..Len(rs) : ~rs[i].issued}

Reschedule == scheduled' = TRUE /\ UNCHANGED <<intr, pc>>

\* FAULT (not the code): the engine stops without an interrupt.
Drain_Silent ==
    /\ scheduled
    /\ requests = <<>>
    /\ state' = "IDLE" /\ current' = -1 /\ scheduled' = FALSE
    /\ UNCHANGED <<requests, status, packets, panic, intr, pc, kernelVars>>

\* With nothing left the engine stops and posts an interrupt.
Drain ==
    /\ scheduled
    /\ requests = <<>>
    /\ state' = "IDLE" /\ current' = -1 /\ scheduled' = FALSE
    /\ PostInterrupt
    /\ UNCHANGED <<requests, status, packets, panic, kernelVars>>

\* DMA_STATE_IDLE on the requests rs selects the first that is not issued.  The
\* engine stays active even when there is none.
Select(rs) ==
    /\ \/ Waiting(rs) = {} /\ current' = -1 /\ state' = "IDLE"
       \/ \E i \in Waiting(rs) : /\ \A j \in Waiting(rs) : i <= j
                                 /\ current' = i - 1 /\ state' = "TLBREFILL"
    /\ Reschedule

Idle ==
    /\ scheduled /\ requests # <<>> /\ state = "IDLE"
    /\ Select(requests)
    /\ UNCHANGED <<requests, status, packets, panic, kernelVars>>

\* DMA_STATE_TLBREFILL for requests[current_index]: the request counts as
\* issued from here on.
TlbRefill ==
    /\ requests' = [requests EXCEPT ![current + 1] = MarkIssued(@)]
    /\ LET r == requests[current + 1]
       IN  state' = IF r.vstart < r.vend THEN "TRANSFER" ELSE "IDLE"
    /\ UNCHANGED packets

\* FAULT (not the code): nextSubRequest stops two bytes before the end.
Transfer_Short ==
    LET r    == requests[current + 1]
        last == Smaller(SliceEnd(r.vstart), r.vend)
        more == last + 2 < r.vend
    IN  /\ requests' = [requests EXCEPT ![current + 1] =
                           IssuePiece(r, last, IF more THEN last + 1 ELSE r.vstart)]
        /\ packets' = packets \cup Lines(r.res, r.vstart, last)
        /\ state' = IF more THEN "TLBREFILL" ELSE "IDLE"

\* DMA_STATE_TRANSFER: the piece up to the end of the slice goes to memory,
\* and nextSubRequest moves on to the rest of the range.
Transfer ==
    LET r    == requests[current + 1]
        last == Smaller(SliceEnd(r.vstart), r.vend)
        more == last + 1 < r.vend
    IN  /\ requests' = [requests EXCEPT ![current + 1] =
                           IssuePiece(r, last, IF more THEN last + 1 ELSE r.vstart)]
        /\ packets' = packets \cup Lines(r.res, r.vstart, last)
        /\ state' = IF more THEN "TLBREFILL" ELSE "IDLE"

\* <<i, j>> for piece j of request i
Pieces == UNION {{i} \X (1..Len(requests[i].pieces)) : i \in 1..Len(requests)}

Inside(a, ij) ==
    LET piece == requests[ij[1]].pieces[ij[2]] IN piece[1] <= a /\ a <= piece[2]

\* A piece holds one of the completion events until its last line has arrived.
EventsInUse == Cardinality({ij \in Pieces : \E p \in packets : Inside(p[2], ij)})

\* A step on the current request.  The vector may have shrunk below the index
\* since the step before: requests[current_index] is then undefined.  The code
\* asserts that a completion event is left for the transfer.
Work ==
    /\ scheduled /\ requests # <<>> /\ state # "IDLE"
    /\ IF current < Len(requests) /\ (state = "TRANSFER" => EventsInUse < MaxOutstandingDma)
         THEN /\ IF state = "TLBREFILL" THEN TlbRefill ELSE Transfer
              /\ Reschedule
              /\ UNCHANGED <<current, status, panic, kernelVars>>
         ELSE /\ panic' = TRUE
              /\ UNCHANGED <<requests, current, state, scheduled, status, packets,
                             intr, pc, kernelVars>>

NextState == Drain \/ Idle \/ Work

-----------------------------------------------------------------------------
(* handle_packet: one answer of the memory.                                *)

Matches(a) == {ij \in Pieces : Inside(a, ij)}

\* FAULT (not the code): the first request is erased, not the completed one.
Without_First(rs, i) == Tail(rs)

Without(rs, i) == SubSeq(rs, 1, i - 1) \o SubSeq(rs, i + 1, Len(rs))

\* FAULT (not the code): the resource of a completed request stays busy.
Complete_StaysBusy(i) ==
    /\ IF pc = "asleep" THEN PostInterrupt ELSE UNCHANGED <<intr, pc>>
    /\ requests' = Without(requests, i)
    /\ UNCHANGED status

\* The core is woken only if it is suspended now; if it is between its test of
\* PIM_DMA_STATUS and its wfi it gets no interrupt from here.
Complete(i) ==
    /\ IF pc = "asleep" THEN PostInterrupt ELSE UNCHANGED <<intr, pc>>
    /\ status' = status \ {requests[i].res}
    /\ requests' = Without(requests, i)

\* FAULT (not the code): the first answer completes the request.
Account_First(i, bytes) == Complete(i)

Account(i, bytes) ==
    IF requests[i].completed + bytes = requests[i].expected
      THEN Complete(i)
      ELSE /\ requests' = [requests EXCEPT ![i] = Receive(@, bytes)]
           /\ UNCHANGED <<status, intr, pc>>

\* The answer must match one piece, and not bring more than was asked for.
HandlePacket(p) ==
    /\ p \in packets
    /\ packets' = packets \ {p}
    /\ IF /\ Cardinality(Matches(p[2])) = 1
          /\ \A ij \in Matches(p[2]) :
               requests[ij[1]].completed + p[3] - p[2] + 1 <= requests[ij[1]].expected
         THEN /\ \E ij \in Matches(p[2]) : Account(ij[1], p[3] - p[2] + 1)
              /\ UNCHANGED panic
         ELSE panic' = TRUE /\ UNCHANGED <<requests, status, intr, pc>>
    /\ UNCHANGED <<current, state, scheduled, kernelVars>>

-----------------------------------------------------------------------------
(* The kernel.  It asks for a resource only after it has waited for it.    *)

\* DMA_REQUEST: initiate_read or initiate_write puts the request at the front
\* and calls nextState itself when no event is pending.
DmaRequest(r, start, bytes) ==
    /\ pc = "run" /\ r \notin held /\ count < MaxRequests
    /\ SlowCore => state = "IDLE" /\ \A i \in 1..Len(requests) : requests[i].issued
    /\ held' = held \cup {r} /\ count' = count + 1
    /\ panic' = (r \in status)
    /\ status' = status \cup {r}
    /\ requests' = <<NewRequest(r, start, bytes)>> \o requests
    /\ IF scheduled
         THEN UNCHANGED <<current, state, scheduled, intr, pc>>
         ELSE Select(requests')
    /\ UNCHANGED <<packets, waitFor>>

\* DMA_WAIT(r): while (PIM_DMA_STATUS & r) { wfi; PIM_DMA_CLI = 0xFF; }
DmaWait(r) ==
    /\ pc = "run" /\ r \in held
    /\ waitFor' = r
    /\ pc' = "test"
    /\ UNCHANGED <<dmaVars, held, count, intr>>

TestStatus ==
    /\ pc = "test"
    /\ IF waitFor \in status
         THEN pc' = "wfi" /\ UNCHANGED held
         ELSE pc' = "run" /\ held' = held \ {waitFor}
    /\ UNCHANGED <<dmaVars, waitFor, count, intr>>

Wfi ==
    /\ pc = "wfi"
    /\ pc' = IF intr THEN "clear" ELSE "asleep"
    /\ UNCHANGED <<dmaVars, kernelVars, intr>>

\* PIM_DMA_CLI = 0xFF, wait_on_resource
ClearInterrupt ==
    /\ pc = "clear"
    /\ intr' = FALSE
    /\ pc' = "test"
    /\ UNCHANGED <<dmaVars, kernelVars>>

Kernel ==
    \/ \E r \in Resources : \E t \in Transfers[r] : DmaRequest(r, t[1], t[2])
    \/ \E r \in Resources : DmaWait(r)
    \/ TestStatus
    \/ Wfi
    \/ ClearInterrupt

Finished ==
    /\ panic \/ (pc = "run" /\ held = {} /\ count = MaxRequests /\ ~scheduled)
    /\ UNCHANGED vars

Next ==
    \/ ~panic /\ NextState
    \/ ~panic /\ \E p \in packets : HandlePacket(p)
    \/ ~panic /\ Kernel
    \/ Finished

Spec == Init /\ [][Next]_vars

\* Scheduled events fire, memory answers every access, and the core executes
\* the loop of DMA_WAIT; a kernel need not make another request.
FairSpec ==
    /\ Spec
    /\ WF_vars(~panic /\ NextState)
    /\ WF_vars(~panic /\ \E p \in packets : HandlePacket(p))
    /\ WF_vars(~panic /\ (TestStatus \/ Wfi \/ ClearInterrupt))

-----------------------------------------------------------------------------
\* The addresses of the pieces of request r, and those it was made for.
Issued(r) == UNION {r.pieces[j][1]..r.pieces[j][2] : j \in 1..Len(r.pieces)}
Asked(r)  == (r.vend - r.expected + 1)..r.vend

TypeOK ==
    /\ requests \in Seq([res : Resources, vstart : Nat, vend : Nat, pieces : Seq(Nat \X Nat),
                         expected : Nat, completed : Nat, issued : BOOLEAN])
    /\ current \in Nat \cup {-1}
    /\ state \in {"IDLE", "TLBREFILL", "TRANSFER"}
    /\ scheduled \in BOOLEAN
    /\ status \subseteq Resources
    /\ packets \subseteq Resources \X Nat \X Nat
    /\ intr \in BOOLEAN /\ panic \in BOOLEAN
    /\ pc \in {"run", "test", "wfi", "asleep", "clear"}
    /\ waitFor \in Resources /\ held \subseteq Resources /\ count \in 0..MaxRequests

\* None of these assertions of nextState, initiate_read and handle_packet fires:
\* the index is in range when it is used, a completion event is left for every
\* piece, a resource is requested only when it is free, and an answer belongs to
\* exactly one request ("One response belongs to two different requets").  The
\* assertion that a piece is as long after the translation as before
\* (ethz_dma.cc:172) is not among them: the TLB is not a part of this module.
NoPanic == ~panic

\* PIM_DMA_STATUS shows exactly the resources of the requests in the vector.
StatusIsAccurate ==
    /\ status = {requests[i].res : i \in 1..Len(requests)}
    /\ Cardinality(status) = Len(requests)

\* Once the engine has left an issued request, its pieces are exactly the range
\* it was made for: nothing else would ever issue the rest, and DMA_WAIT would
\* wait for bytes that nobody transfers.
NoneAbandoned ==
    \A i \in 1..Len(requests) :
        requests[i].issued /\ (state = "IDLE" \/ current # i - 1)
            => Issued(requests[i]) = Asked(requests[i])

\* When DMA_WAIT(r) has returned, no piece of the transfer is outstanding: the
\* kernel may use the data and reuse the resource.
WaitMeansDone ==
    \A r \in Resources \ held :
        /\ r \notin status
        /\ \A p \in packets : p[1] # r

\* A core asleep in DMA_WAIT is never left alone: an event of the engine is
\* still pending, although an answer that arrives between the test of
\* PIM_DMA_STATUS and the wfi posts no interrupt.
SleeperHasWaker == pc = "asleep" => scheduled

\* DMA_WAIT returns.
WaitReturns == pc = "test" ~> pc = "run"
=============================================================================
