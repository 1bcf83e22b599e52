--------------------------- MODULE EthzDmaProofs ----------------------------
(***************************************************************************)
(* No wake-up of DMA_WAIT is lost, for every set of resources, transfers,  *)
(* slices and lines, and for a fast core as well as for a slow one.        *)
(*                                                                         *)
(* The rest begins the proof of what a core that is slower than the engine *)
(* may rely on; EthzDmaTransferProofs has the theorems.  The engine then   *)
(* works on the request at the front of the vector only.  The pieces of a  *)
(* request partition what the engine has issued of it, the packets in      *)
(* flight are disjoint parts of pieces, and the bytes counted as completed *)
(* are those of the pieces that are not in flight.  Every step of          *)
(* nextState keeps that (TransferInv): refilling the TLB, issuing the      *)
(* accesses of a slice, and selecting the next request.                    *)
(***************************************************************************)
EXTENDS EthzDma, SequenceTheorems, FiniteSetTheorems, TLAPS

DMARequests == [res : Resources, vstart : Int, vend : Int, pieces : Seq(Int \X Int),
                expected : Int, completed : Int, issued : BOOLEAN]

\* A busy resource has a request, the engine runs as long as there is one, and
\* the core goes to sleep only while the engine still has a step to take.
WakerInv ==
    /\ requests \in Seq(DMARequests)
    /\ packets \subseteq Resources \X Int \X Int
    /\ state # "IDLE" => current \in Nat
    /\ \A r \in status : \E i \in 1..Len(requests) : requests[i].res = r
    /\ requests # <<>> => scheduled
    /\ pc = "wfi" => scheduled \/ intr
    /\ pc = "asleep" => scheduled

-----------------------------------------------------------------------------
(* The steps of the engine on one request.                                 *)

\* initiate_read and initiate_write make a request for their resource.
LEMMA NewRequestType ==
  ASSUME NEW r \in Resources, NEW start \in Int, NEW bytes \in Int
  PROVE  NewRequest(r, start, bytes) \in DMARequests /\ NewRequest(r, start, bytes).res = r
  BY DEF NewRequest, DMARequests

\* Marking a request as issued keeps its resource.
LEMMA MarkIssuedType ==
  ASSUME NEW r \in DMARequests
  PROVE  MarkIssued(r) \in DMARequests /\ MarkIssued(r).res = r.res
  BY Zenon DEF MarkIssued, DMARequests

\* So does issuing a piece of it.
LEMMA IssuePieceType ==
  ASSUME NEW r \in DMARequests, NEW last \in Int, NEW vstart \in Int
  PROVE  IssuePiece(r, last, vstart) \in DMARequests /\ IssuePiece(r, last, vstart).res = r.res
<1>1. Append(r.pieces, <<r.vstart, last>>) \in Seq(Int \X Int)
  BY DEF DMARequests
<1> QED
  BY <1>1, Zenon DEF IssuePiece, DMARequests

\* So does an answer that brings some of its bytes.
LEMMA ReceiveType ==
  ASSUME NEW r \in DMARequests, NEW bytes \in Int
  PROVE  Receive(r, bytes) \in DMARequests /\ Receive(r, bytes).res = r.res
<1>1. r.completed + bytes \in Int
  BY DEF DMARequests
<1> QED
  BY <1>1, Zenon DEF Receive, DMARequests

\* Replacing a request by one with the same resource keeps all resources.
LEMMA ReplaceKeeps ==
  ASSUME NEW rs \in Seq(DMARequests), NEW k \in 1..Len(rs), NEW x \in DMARequests,
         x.res = rs[k].res
  PROVE  /\ [rs EXCEPT ![k] = x] \in Seq(DMARequests)
         /\ Len([rs EXCEPT ![k] = x]) = Len(rs)
         /\ \A i \in 1..Len(rs) : [rs EXCEPT ![k] = x][i].res = rs[i].res
  OBVIOUS

\* Erasing request i keeps the requests for all other resources.
LEMMA WithoutKeeps ==
  ASSUME NEW rs \in Seq(DMARequests), NEW i \in 1..Len(rs)
  PROVE  /\ Without(rs, i) \in Seq(DMARequests)
         /\ Len(Without(rs, i)) = Len(rs) - 1
         /\ \A j \in 1..(i - 1) : Without(rs, i)[j] = rs[j]
         /\ \A j \in (i + 1)..Len(rs) : Without(rs, i)[j - 1] = rs[j]
<1> DEFINE a == SubSeq(rs, 1, i - 1)
           b == SubSeq(rs, i + 1, Len(rs))
<1>1. a \in Seq(DMARequests) /\ Len(a) = i - 1 /\ \A j \in 1..(i - 1) : a[j] = rs[j]
  OBVIOUS
<1>2. b \in Seq(DMARequests) /\ Len(b) = Len(rs) - i
      /\ \A j \in 1..(Len(rs) - i) : b[j] = rs[i + j]
  OBVIOUS
<1> HIDE DEF a, b
<1>3. /\ a \o b \in Seq(DMARequests) /\ Len(a \o b) = Len(a) + Len(b)
      /\ \A j \in 1..(Len(a) + Len(b)) :
           (a \o b)[j] = IF j <= Len(a) THEN a[j] ELSE b[j - Len(a)]
  BY <1>1, <1>2, ConcatProperties, Zenon
<1>4. ASSUME NEW j \in (i + 1)..Len(rs) PROVE (a \o b)[j - 1] = rs[j]
  <2>1. j - 1 \in 1..(Len(a) + Len(b)) /\ ~(j - 1 <= Len(a))
    BY <1>1, <1>2
  <2>2. (a \o b)[j - 1] = b[(j - 1) - Len(a)]
    BY <1>3, <2>1
  <2>3. (j - 1) - Len(a) = j - i /\ j - i \in 1..(Len(rs) - i) /\ i + (j - i) = j
    BY <1>1
  <2>4. b[j - i] = rs[i + (j - i)]
    BY <1>2, <2>3
  <2> QED
    BY <2>2, <2>3, <2>4
<1>5. ASSUME NEW j \in 1..(i - 1) PROVE (a \o b)[j] = rs[j]
  <2>1. j \in 1..(Len(a) + Len(b)) /\ j <= Len(a)
    BY <1>1, <1>2
  <2>2. (a \o b)[j] = a[j]
    BY <1>3, <2>1
  <2> QED
    BY <1>1, <2>2
<1>6. Without(rs, i) = a \o b /\ Len(a) + Len(b) = Len(rs) - 1
  <2>1. Without(rs, i) = a \o b
    BY Zenon DEF Without, a, b
  <2>2. Len(rs) \in Nat /\ i \in Int
    OBVIOUS
  <2>3. Len(a) + Len(b) = Len(rs) - 1
    BY <1>1, <1>2, <2>2
  <2> QED
    BY <2>1, <2>3, Zenon
<1> QED
  BY <1>3, <1>4, <1>5, <1>6, Zenon

\* The packets of a piece have addresses.
LEMMA LinesType ==
  ASSUME NEW r \in Resources, NEW first \in Int, NEW last \in Int
  PROVE  Lines(r, first, last) \subseteq Resources \X Int \X Int
<1>1. ASSUME NEW n \in (first \div LineSize)..(last \div LineSize)
      PROVE  /\ n * LineSize \in Int
             /\ Smaller(n * LineSize + LineSize - 1, last) \in Int
  <2>1. n \in Int /\ LineSize \in Int
    BY SliceAssumption
  <2> QED
    BY <2>1 DEF Smaller
<1> QED
  BY <1>1 DEF Lines

\* A piece ends at an address.
LEMMA PieceEndType ==
  ASSUME NEW a \in Int, NEW e \in Int
  PROVE  Smaller(SliceEnd(a), e) \in Int
<1>1. SliceSize \in Nat \ {0}
  BY SliceAssumption
<1>2. a \div SliceSize \in Int
  BY <1>1
<1>3. SliceEnd(a) \in Int
  BY <1>1, <1>2 DEF SliceEnd
<1> QED
  BY <1>3 DEF Smaller

-----------------------------------------------------------------------------
(* The invariant.                                                          *)

\* The engine starts idle and the core awake.
LEMMA WakerInit == Init => WakerInv
  BY DEF Init, WakerInv

\* A step of the engine: the last one posts an interrupt.
LEMMA WakerNextState == WakerInv /\ NextState => WakerInv'
<1> SUFFICES ASSUME WakerInv, NextState PROVE WakerInv'
  OBVIOUS
<1>1. CASE Drain
  <2>1. intr' /\ pc' # "asleep"
    BY <1>1 DEF Drain, PostInterrupt
  <2> QED
    BY <1>1, <2>1 DEF Drain, WakerInv
<1>2. CASE Idle
  <2>1. UNCHANGED <<requests, status, packets, intr, pc>> /\ scheduled'
    BY <1>2 DEF Idle, Select, Reschedule
  <2>2. state' # "IDLE" => current' \in Nat
    BY <1>2 DEF Idle, Select, Waiting
  <2> QED
    BY <2>1, <2>2 DEF WakerInv
<1>3. CASE Work
  <2>1. /\ scheduled /\ scheduled' /\ UNCHANGED <<status, intr, pc, current>>
        /\ state # "IDLE"
    BY <1>3, Zenon DEF Work, Reschedule
  <2>2. /\ requests' \in Seq(DMARequests) /\ Len(requests') = Len(requests)
        /\ \A i \in 1..Len(requests) : requests'[i].res = requests[i].res
        /\ packets' \subseteq Resources \X Int \X Int
    <3>1. CASE UNCHANGED <<requests, packets>>
      BY <3>1 DEF WakerInv
    <3>2. CASE current < Len(requests) /\ (TlbRefill \/ Transfer)
      <4> DEFINE r == requests[current + 1]
      <4>1. current + 1 \in 1..Len(requests)
        BY <2>1, <3>2 DEF WakerInv
      <4>2. r \in DMARequests
        BY <4>1 DEF WakerInv
      <4>3. CASE TlbRefill
        <5>1. requests' = [requests EXCEPT ![current + 1] = MarkIssued(r)] /\ packets' = packets
          BY <4>3 DEF TlbRefill
        <5>2. MarkIssued(r) \in DMARequests /\ MarkIssued(r).res = r.res
          BY <4>2, MarkIssuedType
        <5> HIDE DEF r
        <5> QED
          BY <4>1, <5>1, <5>2, ReplaceKeeps DEF WakerInv, r
      <4>4. CASE Transfer
        <5> DEFINE last == Smaller(SliceEnd(r.vstart), r.vend)
                   rest == IF last + 1 < r.vend THEN last + 1 ELSE r.vstart
                   piece == IssuePiece(r, last, rest)
        <5>1. /\ requests' = [requests EXCEPT ![current + 1] = piece]
              /\ packets' = packets \cup Lines(r.res, r.vstart, last)
          BY <4>4 DEF Transfer
        <5>2. r.vstart \in Int /\ r.vend \in Int /\ r.res \in Resources
          BY <4>2 DEF DMARequests
        <5>3. last \in Int
          BY <5>2, PieceEndType, Zenon
        <5>4. rest \in Int
          BY <5>2, <5>3
        <5> HIDE DEF last, rest
        <5>5. piece \in DMARequests /\ piece.res = r.res
          BY <4>2, <5>3, <5>4, IssuePieceType
        <5>6. Lines(r.res, r.vstart, last) \subseteq Resources \X Int \X Int
          BY <5>2, <5>3, LinesType
        <5> HIDE DEF piece
        <5> QED
          BY <4>1, <5>1, <5>5, <5>6, ReplaceKeeps DEF WakerInv
      <4> QED
        BY <3>2, <4>3, <4>4
    <3> QED
      BY <1>3, <3>1, <3>2, Zenon DEF Work
  <2>3. \A q \in status' : \E i \in 1..Len(requests') : requests'[i].res = q
    BY <2>1, <2>2 DEF WakerInv
  <2> QED
    BY <2>1, <2>2, <2>3 DEF WakerInv
<1> QED
  BY <1>1, <1>2, <1>3 DEF NextState

\* An answer of the memory: a request that completes takes its resource with it.
LEMMA WakerHandlePacket ==
  ASSUME WakerInv, NEW p \in packets, HandlePacket(p)
  PROVE  WakerInv'
<1>1. packets' \subseteq Resources \X Int \X Int /\ UNCHANGED <<scheduled, state, current>>
  BY DEF HandlePacket, WakerInv
<1>2. CASE UNCHANGED <<requests, status, intr, pc>>
  BY <1>1, <1>2 DEF WakerInv
<1>3. ASSUME NEW i \in 1..Len(requests), NEW bytes \in Int, Account(i, bytes)
      PROVE  WakerInv'
  <2>1. CASE Complete(i)
    <3>1. pc' = "asleep" => FALSE
      BY <2>1 DEF Complete, PostInterrupt
    <3>2. pc' = "wfi" => pc = "wfi" /\ UNCHANGED intr
      BY <2>1 DEF Complete, PostInterrupt
    <3>3. requests' = Without(requests, i) /\ status' = status \ {requests[i].res}
      BY <2>1 DEF Complete
    <3>4. /\ requests' \in Seq(DMARequests)
          /\ Len(requests') = Len(requests) - 1
          /\ \A j \in 1..(i - 1) : requests'[j] = requests[j]
          /\ \A j \in (i + 1)..Len(requests) : requests'[j - 1] = requests[j]
      BY <3>3, WithoutKeeps, Zenon DEF WakerInv
    <3>5. Len(requests) \in Nat
      BY DEF WakerInv
    <3>6. ASSUME NEW r \in status' PROVE \E j \in 1..Len(requests') : requests'[j].res = r
      <4>1. PICK j \in 1..Len(requests) : requests[j].res = r
        BY <3>3 DEF WakerInv
      <4>2. CASE j < i
        <5>1. j \in 1..Len(requests') /\ requests'[j] = requests[j]
          BY <3>4, <3>5, <4>2
        <5> QED
          BY <4>1, <5>1
      <4>3. CASE j > i
        <5>1. j - 1 \in 1..Len(requests') /\ requests'[j - 1] = requests[j]
          BY <3>4, <3>5, <4>3
        <5> QED
          BY <4>1, <5>1
      <4>4. j # i
        BY <3>3, <4>1
      <4> QED
        BY <4>2, <4>3, <4>4
    <3>7. requests # <<>>
      OBVIOUS
    <3> QED
      BY <1>1, <3>1, <3>2, <3>4, <3>6, <3>7 DEF WakerInv
  <2>2. CASE /\ requests' = [requests EXCEPT ![i] = Receive(@, bytes)]
             /\ UNCHANGED <<status, intr, pc>>
    <3>1. requests[i] \in DMARequests
      BY DEF WakerInv
    <3>2. Receive(requests[i], bytes) \in DMARequests
          /\ Receive(requests[i], bytes).res = requests[i].res
      BY <3>1, ReceiveType, Zenon
    <3>3. /\ requests' \in Seq(DMARequests) /\ Len(requests') = Len(requests)
          /\ \A j \in 1..Len(requests) : requests'[j].res = requests[j].res
      BY <2>2, <3>2, ReplaceKeeps DEF WakerInv
    <3>4. \A q \in status' : \E j \in 1..Len(requests') : requests'[j].res = q
      BY <2>2, <3>3 DEF WakerInv
    <3>5. requests # <<>>
      OBVIOUS
    <3> QED
      BY <1>1, <2>2, <3>3, <3>4, <3>5 DEF WakerInv
  <2> QED
    BY <1>3, <2>1, <2>2 DEF Account
<1>4. CASE \E ij \in Matches(p[2]) : Account(ij[1], p[3] - p[2] + 1)
  <2>1. PICK ij \in Pieces : Account(ij[1], p[3] - p[2] + 1)
    BY <1>4 DEF Matches
  <2>2. ij[1] \in 1..Len(requests)
    BY DEF Pieces
  <2>3. p[3] - p[2] + 1 \in Int
    BY DEF WakerInv
  <2> QED
    BY <1>3, <2>1, <2>2, <2>3
<1> QED
  BY <1>2, <1>4 DEF HandlePacket

\* A step of the kernel: a new request brings its resource along, and the core
\* turns to wfi only while the resource it waits for is busy.
LEMMA WakerKernel ==
  ASSUME WakerInv, Kernel
  PROVE  WakerInv'
<1>1. ASSUME NEW r \in Resources, NEW t \in Transfers[r], DmaRequest(r, t[1], t[2])
      PROVE  WakerInv'
  <2> DEFINE new == NewRequest(r, t[1], t[2])
  <2>1. new \in DMARequests /\ new.res = r
    BY NewRequestType, TransfersAssumption
  <2>2. /\ requests' = <<new>> \o requests /\ status' = status \cup {r}
        /\ packets' = packets /\ pc = "run"
    BY <1>1 DEF DmaRequest
  <2> HIDE DEF new
  <2>3. requests \in Seq(DMARequests) /\ Len(requests) \in Nat
    BY DEF WakerInv
  <2>4. /\ requests' \in Seq(DMARequests) /\ Len(requests') = Len(requests) + 1
        /\ requests'[1] = new
        /\ \A i \in 1..Len(requests) : requests'[i + 1] = requests[i]
    BY <2>1, <2>2, <2>3
  <2>5. ASSUME NEW q \in status' PROVE \E i \in 1..Len(requests') : requests'[i].res = q
    <3>1. CASE q = r
      BY <2>1, <2>3, <2>4, <3>1
    <3>2. CASE q \in status
      <4>1. PICK i \in 1..Len(requests) : requests[i].res = q
        BY <3>2 DEF WakerInv
      <4>2. i + 1 \in 1..Len(requests') /\ requests'[i + 1].res = q
        BY <2>3, <2>4, <4>1
      <4> QED
        BY <4>2
    <3> QED
      BY <2>2, <3>1, <3>2
  <2>6. /\ scheduled' /\ pc' = "run"
        /\ state' # "IDLE" => current' \in Nat
    <3>1. CASE scheduled
      BY <1>1, <2>2, <3>1 DEF DmaRequest, WakerInv
    <3>2. CASE Select(requests')
      BY <2>2, <2>3, <2>4, <3>2 DEF Select, Waiting, Reschedule
    <3> QED
      BY <1>1, <3>1, <3>2 DEF DmaRequest
  <2> QED
    BY <2>2, <2>4, <2>5, <2>6, Zenon DEF WakerInv
<1>2. ASSUME NEW r \in Resources, DmaWait(r)
      PROVE  WakerInv'
  BY <1>2 DEF DmaWait, dmaVars, WakerInv
<1>3. CASE TestStatus
  <2>1. UNCHANGED dmaVars /\ pc' # "asleep" /\ (pc' = "wfi" => waitFor \in status)
    BY <1>3 DEF TestStatus
  <2>2. waitFor \in status => scheduled
    <3> SUFFICES ASSUME waitFor \in status PROVE requests # <<>>
      BY DEF WakerInv
    <3>1. PICK i \in 1..Len(requests) : requests[i].res = waitFor
      BY DEF WakerInv
    <3> QED
      BY <3>1
  <2> QED
    BY <2>1, <2>2 DEF dmaVars, WakerInv
<1>4. CASE Wfi
  BY <1>4 DEF Wfi, dmaVars, WakerInv
<1>5. CASE ClearInterrupt
  BY <1>5 DEF ClearInterrupt, dmaVars, WakerInv
<1> QED
  BY <1>1, <1>2, <1>3, <1>4, <1>5 DEF Kernel

-----------------------------------------------------------------------------

\* A core asleep in DMA_WAIT always has an event of the engine to wake it: the
\* completion of a request posts an interrupt only to a core that is suspended
\* already, but the engine stays active until it has posted one in Drain.
THEOREM SleeperHasWakerHolds == Spec => []SleeperHasWaker
<1>1. Init => WakerInv
  BY WakerInit
<1>2. WakerInv /\ [Next]_vars => WakerInv'
  <2> SUFFICES ASSUME WakerInv, [Next]_vars PROVE WakerInv'
    OBVIOUS
  <2>1. CASE UNCHANGED vars
    BY <2>1 DEF vars, dmaVars, WakerInv
  <2>2. CASE NextState
    BY <2>2, WakerNextState
  <2>3. CASE \E p \in packets : HandlePacket(p)
    BY <2>3, WakerHandlePacket
  <2>4. CASE Kernel
    BY <2>4, WakerKernel
  <2> QED
    BY <2>1, <2>2, <2>3, <2>4 DEF Next, Finished
<1>3. WakerInv => SleeperHasWaker
  BY DEF WakerInv, SleeperHasWaker
<1> QED
  BY <1>1, <1>2, <1>3, PTL DEF Spec

-----------------------------------------------------------------------------
(* The requests, the pieces and the packets of an engine that works on the *)
(* front of the vector only.                                               *)


First(r) == r.vend - r.expected + 1
Slice(a) == a \div SliceSize

\* Piece j of request r is part of what was asked for, in the j-th slice.
PieceOK(r, j) ==
    /\ First(r) <= r.pieces[j][1] /\ r.pieces[j][1] <= r.pieces[j][2]
    /\ r.pieces[j][2] <= r.vend
    /\ Slice(r.pieces[j][1]) = Slice(First(r)) + j - 1

RequestOK(r) ==
    /\ <<First(r), r.expected>> \in Transfers[r.res]
    /\ \A j \in 1..Len(r.pieces) : PieceOK(r, j)
    /\ \A j, k \in 1..Len(r.pieces) : j < k => r.pieces[j][2] < r.pieces[k][1]

\* The engine has not begun with r, or has issued all of it.
Whole(r)   == r.issued /\ Issued(r) = Asked(r)
Settled(r) == Whole(r) \/ (~r.issued /\ r.pieces = <<>> /\ r.vstart = First(r))

\* The engine has issued r up to r.vstart.
Busy(r) ==
    /\ First(r) <= r.vstart /\ r.vstart < r.vend
    /\ Issued(r) = First(r)..(r.vstart - 1)
    /\ Slice(r.vstart) = Slice(First(r)) + Len(r.pieces)

\* The addresses of the packets ps in flight for resource x
InFlight(ps, x) == UNION {p[2]..p[3] : p \in {q \in ps : q[1] = x}}

Accounted(r) == r.completed = Cardinality(Issued(r) \ InFlight(packets, r.res))

\* Packet p is part of a piece of request r.
Carries(r, p) ==
    /\ r.res = p[1]
    /\ \E j \in 1..Len(r.pieces) : r.pieces[j][1] <= p[2] /\ p[3] <= r.pieces[j][2]

Apart(p, q) == p[3] < q[2] \/ q[3] < p[2]

RequestsOK == \A i \in 1..Len(requests) : RequestOK(requests[i])
BytesOK    == \A i \in 1..Len(requests) : Accounted(requests[i])
DistinctOK == \A i, j \in 1..Len(requests) : requests[i].res = requests[j].res => i = j
StatusOK   == /\ \A i \in 1..Len(requests) : requests[i].res \in status
              /\ status \subseteq held
EngineOK ==
    /\ \A i \in 2..Len(requests) : Whole(requests[i])
    /\ requests # <<>> /\ state = "IDLE" => Settled(requests[1])
    /\ state # "IDLE" => requests # <<>> /\ current = 0 /\ Busy(requests[1])
    /\ state \notin {"IDLE", "TLBREFILL"} => requests[1].issued
PacketsOK ==
    /\ \A p \in packets : p[2] <= p[3] /\ \E i \in 1..Len(requests) : Carries(requests[i], p)
    /\ \A p, q \in packets : p # q /\ p[1] = q[1] => Apart(p, q)

\* The inductive invariant.
TransferInv ==
    /\ WakerInv /\ ~panic
    /\ RequestsOK /\ BytesOK /\ DistinctOK /\ StatusOK /\ EngineOK /\ PacketsOK

-----------------------------------------------------------------------------
(* Arithmetic of slices and lines.                                         *)

\* Multiples of m are at least m apart.
LEMMA TimesMono ==
  ASSUME NEW m \in Nat \ {0}, NEW n \in Int, NEW k \in Int, n < k
  PROVE  n * m + m <= k * m
  OBVIOUS

\* a lies in block a \div m of size m.
LEMMA DivFacts ==
  ASSUME NEW m \in Nat \ {0}, NEW a \in Int
  PROVE  /\ a \div m \in Int /\ (a \div m) * m \in Int
         /\ (a \div m) * m <= a /\ a < (a \div m) * m + m
  OBVIOUS

\* It lies in no other block.
LEMMA DivUnique ==
  ASSUME NEW m \in Nat \ {0}, NEW a \in Int, NEW q \in Int, q * m <= a, a < q * m + m
  PROVE  a \div m = q
<1>1. /\ a \div m \in Int /\ (a \div m) * m <= a /\ a < (a \div m) * m + m
      /\ (a \div m) * m \in Int /\ q * m \in Int
  BY DivFacts
<1>2. CASE a \div m < q
  BY <1>1, <1>2, TimesMono
<1>3. CASE q < a \div m
  BY <1>1, <1>3, TimesMono
<1> QED
  BY <1>1, <1>2, <1>3

\* The facts about integers and intervals that the proofs below keep needing.
LEMMA LeTrans ==
  ASSUME NEW a \in Int, NEW b \in Int, NEW c \in Int, a <= b, b <= c
  PROVE  a <= c
OBVIOUS

\* An interval lies in every interval with wider ends.
LEMMA Inner ==
  ASSUME NEW a \in Int, NEW b \in Int, NEW c \in Int, NEW d \in Int, a <= c, d <= b
  PROVE  c..d \subseteq a..b
OBVIOUS

\* What is below b is below everything from b on.
LEMMA Below ==
  ASSUME NEW a \in Int, NEW b \in Int, NEW c \in Int, NEW d \in a..(b - 1), b <= c
  PROVE  d < c
OBVIOUS

\* The indices of a sequence that has grown by one.
LEMMA OneLonger ==
  ASSUME NEW n \in Nat
  PROVE  n + 1 \in 1..(n + 1) /\ \A j \in 1..n : j \in 1..(n + 1)
OBVIOUS

\* The blocks are in the order of the addresses.
LEMMA DivMono ==
  ASSUME NEW m \in Nat \ {0}, NEW a \in Int, NEW b \in Int, a <= b
  PROVE  a \div m <= b \div m
<1>1. /\ a \div m \in Int /\ (a \div m) * m <= a /\ a < (a \div m) * m + m
      /\ b \div m \in Int /\ (b \div m) * m <= b /\ b < (b \div m) * m + m
      /\ (a \div m) * m \in Int /\ (b \div m) * m \in Int
  BY DivFacts
<1>2. CASE b \div m < a \div m
  BY <1>1, <1>2, TimesMono
<1> QED
  BY <1>1, <1>2

\* A block begins with a multiple of its size.
LEMMA ModMultiple ==
  ASSUME NEW m \in Nat \ {0}, NEW q \in Int
  PROVE  (q * m) % m = 0
  OBVIOUS

\* dmaAction cuts the addresses first .. last into disjoint packets.
LEMMA LinesFacts ==
  ASSUME NEW r, NEW first \in Int, NEW last \in Int, first <= last
  PROVE  /\ \A p \in Lines(r, first, last) :
              /\ p[1] = r /\ p[2] \in Int /\ p[3] \in Int
              /\ first <= p[2] /\ p[2] <= p[3] /\ p[3] <= last
         /\ \A a \in first..last : \E p \in Lines(r, first, last) : a \in p[2]..p[3]
         /\ \A p, q \in Lines(r, first, last) : p # q => Apart(p, q)
<1> DEFINE low(n)  == IF n * LineSize < first THEN first ELSE n * LineSize
           high(n) == Smaller(n * LineSize + LineSize - 1, last)
           N == (first \div LineSize)..(last \div LineSize)
<1>1. LineSize \in Nat \ {0}
  BY SliceAssumption
<1>2. first \div LineSize \in Int /\ last \div LineSize \in Int
  BY <1>1, DivFacts
<1>3. ASSUME NEW n \in N
      PROVE  /\ low(n) \in Int /\ high(n) \in Int /\ first <= low(n) /\ low(n) <= high(n)
             /\ high(n) <= last /\ n * LineSize \in Int
             /\ n * LineSize <= low(n) /\ high(n) <= n * LineSize + LineSize - 1
  <2>1. n \in Int /\ n * LineSize \in Int
    BY <1>1, <1>2
  <2>2. first <= n * LineSize + LineSize - 1
    <3>1. first < (first \div LineSize) * LineSize + LineSize /\ (first \div LineSize) * LineSize \in Int
      BY <1>1, DivFacts
    <3>2. (first \div LineSize) * LineSize <= n * LineSize
      BY <1>1, <1>2, <2>1, TimesMono
    <3> QED
      BY <1>1, <2>1, <3>1, <3>2
  <2>3. n * LineSize <= last
    <3>1. (last \div LineSize) * LineSize <= last /\ (last \div LineSize) * LineSize \in Int
      BY <1>1, DivFacts
    <3>2. n * LineSize <= (last \div LineSize) * LineSize
      BY <1>1, <1>2, <2>1, TimesMono
    <3> QED
      BY <2>1, <3>1, <3>2
  <2> QED
    BY <1>1, <2>1, <2>2, <2>3 DEF Smaller
<1>4. Lines(r, first, last) = {<<r, low(n), high(n)>> : n \in N}
  BY DEF Lines
<1>5. ASSUME NEW a \in first..last PROVE \E p \in Lines(r, first, last) : a \in p[2]..p[3]
  <2>1. /\ a \div LineSize \in Int /\ (a \div LineSize) * LineSize \in Int
        /\ (a \div LineSize) * LineSize <= a /\ a < (a \div LineSize) * LineSize + LineSize
    BY <1>1, DivFacts
  <2>2. a \div LineSize \in N
    BY <1>1, <1>2, <2>1, DivMono
  <2>3. a \in low(a \div LineSize)..high(a \div LineSize)
    BY <1>1, <1>3, <2>1, <2>2 DEF Smaller
  <2> DEFINE p == <<r, low(a \div LineSize), high(a \div LineSize)>>
  <2> HIDE DEF low, high, N
  <2>4. p \in Lines(r, first, last)
    BY <1>4, <2>2, Zenon
  <2>5. a \in p[2]..p[3]
    BY <2>3
  <2> QED
    BY <2>4, <2>5, Zenon
<1>6. ASSUME NEW n \in N, NEW k \in N, n < k PROVE high(n) < low(k)
  <2>1. n \in Int /\ k \in Int
    BY <1>2
  <2>2. n * LineSize + LineSize <= k * LineSize
    BY <1>1, <1>6, <2>1, TimesMono
  <2> HIDE DEF low, high, N
  <2> QED
    BY <1>1, <1>3, <2>2
<1>7. ASSUME NEW n \in N, NEW k \in N, n # k PROVE n < k \/ k < n
  BY <1>2, <1>7
<1> HIDE DEF low, high, N
<1>8. ASSUME NEW p \in Lines(r, first, last), NEW q \in Lines(r, first, last), p # q
      PROVE  Apart(p, q)
  <2>1. PICK n \in N : p = <<r, low(n), high(n)>>
    BY <1>4
  <2>2. PICK k \in N : q = <<r, low(k), high(k)>>
    BY <1>4
  <2>3. n < k \/ k < n
    BY <1>7, <1>8, <2>1, <2>2
  <2> QED
    BY <1>6, <2>1, <2>2, <2>3 DEF Apart
<1>9. ASSUME NEW p \in Lines(r, first, last)
      PROVE  /\ p[1] = r /\ p[2] \in Int /\ p[3] \in Int
             /\ first <= p[2] /\ p[2] <= p[3] /\ p[3] <= last
  <2>1. PICK n \in N : p = <<r, low(n), high(n)>>
    BY <1>4
  <2> QED
    BY <1>3, <2>1
<1> QED
  BY <1>5, <1>8, <1>9

-----------------------------------------------------------------------------
(* One request.                                                            *)

\* What RequestOK says of the fields.
LEMMA RequestFacts ==
  ASSUME NEW r \in DMARequests, RequestOK(r)
  PROVE  /\ r.res \in Resources /\ r.pieces \in Seq(Int \X Int) /\ Len(r.pieces) \in Nat
         /\ r.vstart \in Int /\ r.vend \in Int /\ r.expected \in Int /\ r.completed \in Int
         /\ First(r) \in Int /\ First(r) + r.expected = r.vend + 1 /\ r.expected > 1
         /\ r.vend % SliceSize # 0
         /\ \A j \in 1..Len(r.pieces) : r.pieces[j][1] \in Int /\ r.pieces[j][2] \in Int
<1>1. /\ r.res \in Resources /\ r.pieces \in Seq(Int \X Int)
      /\ r.vstart \in Int /\ r.vend \in Int /\ r.expected \in Int /\ r.completed \in Int
  BY DEF DMARequests
<1>2. Len(r.pieces) \in Nat /\ \A j \in 1..Len(r.pieces) : r.pieces[j] \in Int \X Int
  BY <1>1
<1>3. First(r) \in Int /\ First(r) + r.expected = r.vend + 1 /\ First(r) + r.expected - 1 = r.vend
  BY <1>1 DEF First
<1> DEFINE t == <<First(r), r.expected>>
<1>4. t \in Transfers[r.res] /\ t[1] = First(r) /\ t[2] = r.expected
  BY DEF RequestOK
<1>5. t[2] > 1 /\ (t[1] + t[2] - 1) % SliceSize # 0
  BY <1>1, <1>4, SizesAssumption, Zenon
<1> HIDE DEF t
<1> QED
  BY <1>1, <1>2, <1>3, <1>4, <1>5, Zenon

\* RequestOK and the sets of addresses depend on four fields only.
LEMMA SameFields ==
  ASSUME NEW r, NEW x,
         x.res = r.res, x.vend = r.vend, x.expected = r.expected, x.pieces = r.pieces
  PROVE  /\ First(x) = First(r) /\ Asked(x) = Asked(r) /\ Issued(x) = Issued(r)
         /\ RequestOK(r) => RequestOK(x)
         /\ \A p : Carries(r, p) => Carries(x, p)
<1>1. First(x) = First(r) /\ Asked(x) = Asked(r) /\ Issued(x) = Issued(r)
  BY DEF First, Asked, Issued
<1>2. \A j : PieceOK(r, j) => PieceOK(x, j)
  BY <1>1 DEF PieceOK
<1>3. RequestOK(r) => RequestOK(x)
  BY <1>1, <1>2 DEF RequestOK
<1> QED
  BY <1>1, <1>3 DEF Carries

\* DMA_STATE_TLBREFILL marks the request ...
LEMMA MarkIssuedFields ==
  ASSUME NEW r \in DMARequests
  PROVE  /\ MarkIssued(r).res = r.res /\ MarkIssued(r).vend = r.vend
         /\ MarkIssued(r).expected = r.expected /\ MarkIssued(r).pieces = r.pieces
         /\ MarkIssued(r).completed = r.completed /\ MarkIssued(r).vstart = r.vstart
         /\ MarkIssued(r).issued
  BY DEF DMARequests, MarkIssued

\* ... DMA_STATE_TRANSFER adds a piece ...
LEMMA IssuePieceFields ==
  ASSUME NEW r \in DMARequests, NEW last, NEW a
  PROVE  /\ IssuePiece(r, last, a).res = r.res /\ IssuePiece(r, last, a).vend = r.vend
         /\ IssuePiece(r, last, a).expected = r.expected
         /\ IssuePiece(r, last, a).completed = r.completed
         /\ IssuePiece(r, last, a).issued = r.issued
         /\ IssuePiece(r, last, a).vstart = a
         /\ IssuePiece(r, last, a).pieces = Append(r.pieces, <<r.vstart, last>>)
  BY DEF DMARequests, IssuePiece

\* ... and an answer adds to its bytes.
LEMMA ReceiveFields ==
  ASSUME NEW r \in DMARequests, NEW bytes
  PROVE  /\ Receive(r, bytes).res = r.res /\ Receive(r, bytes).vend = r.vend
         /\ Receive(r, bytes).expected = r.expected /\ Receive(r, bytes).pieces = r.pieces
         /\ Receive(r, bytes).vstart = r.vstart /\ Receive(r, bytes).issued = r.issued
         /\ Receive(r, bytes).completed = r.completed + bytes
  BY DEF DMARequests, Receive

\* What has been issued of a request is part of what was asked for.
LEMMA IssuedInside ==
  ASSUME NEW r \in DMARequests, RequestOK(r)
  PROVE  /\ Issued(r) \subseteq Asked(r) /\ Asked(r) = First(r)..r.vend
         /\ IsFiniteSet(Asked(r)) /\ Cardinality(Asked(r)) = r.expected
         /\ IsFiniteSet(Issued(r))
<1>1. /\ First(r) \in Int /\ r.vend \in Int /\ First(r) + r.expected = r.vend + 1 /\ r.expected > 1
      /\ r.expected \in Int
      /\ \A j \in 1..Len(r.pieces) : r.pieces[j][1] \in Int /\ r.pieces[j][2] \in Int
  BY RequestFacts
<1>2. Asked(r) = First(r)..r.vend
  BY DEF Asked, First
<1>3. \A j \in 1..Len(r.pieces) : First(r) <= r.pieces[j][1] /\ r.pieces[j][2] <= r.vend
  BY DEF RequestOK, PieceOK
<1>4. Issued(r) \subseteq First(r)..r.vend
  BY <1>1, <1>3, SMTT(30) DEF Issued
<1>5. IsFiniteSet(First(r)..r.vend) /\ Cardinality(First(r)..r.vend) = r.expected
  <2>1. /\ IsFiniteSet(First(r)..r.vend)
        /\ Cardinality(First(r)..r.vend) = IF First(r) > r.vend THEN 0 ELSE r.vend - First(r) + 1
    BY <1>1, FS_Interval, Zenon
  <2> QED
    BY <1>1, <2>1
<1> QED
  BY <1>2, <1>4, <1>5, FS_Subset, Zenon

\* The last address of the piece that DMA_STATE_TRANSFER issues, and the
\* request after it.
PieceEnd(r)   == Smaller(SliceEnd(r.vstart), r.vend)
AfterPiece(r) == IssuePiece(r, PieceEnd(r), IF PieceEnd(r) + 1 < r.vend THEN PieceEnd(r) + 1
                                                                        ELSE r.vstart)

\* The piece ends inside the slice of vstart, and short of the end of the
\* request only at the end of the slice.  Without SizesAssumption the engine
\* could leave out the last byte.
LEMMA PieceEndFacts ==
  ASSUME NEW r \in DMARequests, RequestOK(r), Busy(r)
  PROVE  /\ PieceEnd(r) \in Int /\ r.vstart <= PieceEnd(r) /\ PieceEnd(r) <= r.vend
         /\ PieceEnd(r) + 1 < r.vend => Slice(PieceEnd(r) + 1) = Slice(r.vstart) + 1
         /\ ~(PieceEnd(r) + 1 < r.vend) => PieceEnd(r) = r.vend
<1> DEFINE s == r.vstart \div SliceSize
           e == PieceEnd(r)
<1>1. SliceSize \in Nat \ {0} /\ r.vstart \in Int /\ r.vend \in Int /\ r.vend % SliceSize # 0
  BY RequestFacts, SliceAssumption, Zenon
<1>2. r.vstart < r.vend
  BY DEF Busy
<1>3. /\ s \in Int /\ s * SliceSize \in Int
      /\ s * SliceSize <= r.vstart /\ r.vstart < s * SliceSize + SliceSize
      /\ SliceEnd(r.vstart) = s * SliceSize + SliceSize - 1
  BY <1>1, DivFacts, Zenon DEF SliceEnd
<1>4. Slice(r.vstart) = s
  BY DEF Slice
<1> HIDE DEF s
<1>5. e \in Int /\ r.vstart <= e /\ e <= r.vend /\ (e < r.vend => e = s * SliceSize + SliceSize - 1)
  BY <1>1, <1>2, <1>3 DEF Smaller, PieceEnd
<1> HIDE DEF e
<1>6. e < r.vend => e + 1 = (s + 1) * SliceSize
  BY <1>1, <1>3, <1>5
<1>7. e < r.vend => (e + 1) \div SliceSize = s + 1
  BY <1>1, <1>3, <1>5, <1>6, DivUnique
<1>8. ~(e + 1 < r.vend) => e = r.vend
  <2> SUFFICES ASSUME ~(e + 1 < r.vend), e < r.vend PROVE FALSE
    BY <1>1, <1>5
  <2>1. r.vend = (s + 1) * SliceSize
    BY <1>1, <1>5, <1>6
  <2>2. r.vend % SliceSize = 0
    BY <1>1, <1>3, <2>1, ModMultiple
  <2> QED
    BY <1>1, <2>2
<1> QED
  BY <1>1, <1>4, <1>5, <1>7, <1>8 DEF Slice, e

\* The pieces after the step: one more.
LEMMA AfterPieceFields ==
  ASSUME NEW r \in DMARequests, RequestOK(r), Busy(r)
  PROVE  /\ AfterPiece(r).res = r.res /\ AfterPiece(r).issued = r.issued
         /\ AfterPiece(r).completed = r.completed
         /\ AfterPiece(r).vend = r.vend /\ AfterPiece(r).expected = r.expected
         /\ PieceEnd(r) + 1 < r.vend => AfterPiece(r).vstart = PieceEnd(r) + 1
         /\ Len(AfterPiece(r).pieces) = Len(r.pieces) + 1
         /\ AfterPiece(r).pieces[Len(r.pieces) + 1] = <<r.vstart, PieceEnd(r)>>
         /\ \A j \in 1..Len(r.pieces) : AfterPiece(r).pieces[j] = r.pieces[j]
         /\ First(AfterPiece(r)) = First(r) /\ Asked(AfterPiece(r)) = Asked(r)
<1> DEFINE a == IF PieceEnd(r) + 1 < r.vend THEN PieceEnd(r) + 1 ELSE r.vstart
           x == IssuePiece(r, PieceEnd(r), a)
<1>1. AfterPiece(r) = x
  BY DEF AfterPiece
<1>2. PieceEnd(r) + 1 < r.vend => a = PieceEnd(r) + 1
  OBVIOUS
<1> HIDE DEF a
<1>3. /\ x.res = r.res /\ x.vend = r.vend /\ x.expected = r.expected
      /\ x.completed = r.completed /\ x.vstart = a /\ x.issued = r.issued
      /\ x.pieces = Append(r.pieces, <<r.vstart, PieceEnd(r)>>)
  BY IssuePieceFields
<1> HIDE DEF x
<1>4. r.pieces \in Seq(Int \X Int) /\ r.vstart \in Int /\ PieceEnd(r) \in Int
  BY RequestFacts, PieceEndFacts, Zenon
<1>5. <<r.vstart, PieceEnd(r)>> \in Int \X Int
  BY <1>4
<1>6. /\ Len(x.pieces) = Len(r.pieces) + 1 /\ x.pieces[Len(r.pieces) + 1] = <<r.vstart, PieceEnd(r)>>
      /\ \A j \in 1..Len(r.pieces) : x.pieces[j] = r.pieces[j]
  BY <1>3, <1>4, <1>5, AppendProperties
<1>7. First(x) = First(r) /\ Asked(x) = Asked(r)
  BY <1>3, Zenon DEF First, Asked
<1> QED
  BY <1>1, <1>2, <1>3, <1>6, <1>7, Zenon

\* DMA_STATE_TRANSFER adds the addresses of the piece to those issued, and
\* leaves a request that is in order.
LEMMA IssueStep ==
  ASSUME NEW r \in DMARequests, RequestOK(r), Busy(r)
  PROVE  /\ RequestOK(AfterPiece(r))
         /\ Issued(AfterPiece(r)) = Issued(r) \cup (r.vstart..PieceEnd(r))
         /\ IF PieceEnd(r) + 1 < r.vend
              THEN Busy(AfterPiece(r)) ELSE Issued(AfterPiece(r)) = Asked(AfterPiece(r))
<1> DEFINE x == AfterPiece(r)
           e == PieceEnd(r)
           n == Len(r.pieces)
<1>1. r.vstart \in Int /\ r.vend \in Int /\ First(r) \in Int /\ n \in Nat
  BY RequestFacts
<1>2. \A j \in 1..n : r.pieces[j][1] \in Int /\ r.pieces[j][2] \in Int
  BY RequestFacts
<1>3. /\ First(r) <= r.vstart /\ r.vstart < r.vend /\ Issued(r) = First(r)..(r.vstart - 1)
      /\ Slice(r.vstart) = Slice(First(r)) + n
  BY DEF Busy
<1>4. Slice(First(r)) \in Int
  BY <1>1, DivFacts, SliceAssumption DEF Slice
<1>5. /\ e \in Int /\ r.vstart <= e /\ e <= r.vend
      /\ e + 1 < r.vend => Slice(e + 1) = Slice(r.vstart) + 1
      /\ ~(e + 1 < r.vend) => e = r.vend
  BY PieceEndFacts
<1>6. /\ x.res = r.res /\ x.vend = r.vend /\ x.expected = r.expected
      /\ e + 1 < r.vend => x.vstart = e + 1
      /\ First(x) = First(r) /\ Asked(x) = Asked(r)
  BY AfterPieceFields, Zenon
<1>7. Len(x.pieces) = n + 1 /\ x.pieces[n + 1][1] = r.vstart /\ x.pieces[n + 1][2] = e
  BY AfterPieceFields
<1>8. \A j \in 1..n : x.pieces[j] = r.pieces[j]
  BY AfterPieceFields
<1> HIDE DEF x, e
<1>9. ASSUME NEW j \in 1..n PROVE r.pieces[j][2] < r.vstart
  <2>1. r.pieces[j][1] <= r.pieces[j][2]
    BY DEF RequestOK, PieceOK
  <2>2. r.pieces[j][2] \in r.pieces[j][1]..r.pieces[j][2]
    BY <1>2, <2>1
  <2>3. r.pieces[j][2] \in First(r)..(r.vstart - 1)
    BY <1>3, <2>2, Zenon DEF Issued
  <2> QED
    BY <1>1, <2>3
<1>10. \A j \in 1..n : PieceOK(r, j)
  BY DEF RequestOK
<1>11. \A j, k \in 1..n : j < k => r.pieces[j][2] < r.pieces[k][1]
  BY DEF RequestOK
<1>12. <<First(x), x.expected>> \in Transfers[x.res]
  BY <1>6 DEF RequestOK
<1>13. \A a : a \in Issued(r) <=> \E j \in 1..n : a \in r.pieces[j][1]..r.pieces[j][2]
  BY Zenon DEF Issued
<1> HIDE DEF n
<1>14. ASSUME NEW j \in 1..(n + 1) PROVE j \in 1..n \/ j = n + 1
  BY <1>1
<1>15. ASSUME NEW j \in 1..(n + 1) PROVE PieceOK(x, j)
  <2>1. CASE j \in 1..n
    BY <1>6, <1>8, <1>10, <2>1, Zenon DEF PieceOK
  <2>2. CASE j = n + 1
    <3>1. Slice(r.vstart) = Slice(First(r)) + j - 1
      BY <1>1, <1>3, <1>4, <2>2
    <3> QED
      BY <1>3, <1>5, <1>6, <1>7, <2>2, <3>1, Zenon DEF PieceOK
  <2> QED
    BY <1>14, <2>1, <2>2
<1>16. ASSUME NEW j \in 1..(n + 1), NEW k \in 1..(n + 1), j < k
       PROVE  x.pieces[j][2] < x.pieces[k][1]
  <2>1. j \in 1..n
    BY <1>1, <1>16
  <2>2. CASE k \in 1..n
    BY <1>8, <1>11, <1>16, <2>1, <2>2
  <2>3. CASE k = n + 1
    BY <1>7, <1>8, <1>9, <2>1, <2>3
  <2> QED
    BY <1>14, <2>2, <2>3
<1>17. RequestOK(x)
  BY <1>7, <1>12, <1>15, <1>16, Zenon DEF RequestOK
<1>18. \A a : a \in Issued(x) <=> \E j \in 1..(n + 1) : a \in x.pieces[j][1]..x.pieces[j][2]
  BY <1>7, Zenon DEF Issued
<1>19. ASSUME NEW a PROVE a \in Issued(x) <=> a \in Issued(r) \cup (r.vstart..e)
  <2>1. CASE a \in Issued(x)
    <3>1. PICK j \in 1..(n + 1) : a \in x.pieces[j][1]..x.pieces[j][2]
      BY <1>18, <2>1
    <3>2. CASE j \in 1..n
      BY <1>8, <1>13, <2>1, <3>1, <3>2, Zenon
    <3>3. CASE j = n + 1
      BY <1>7, <2>1, <3>1, <3>3
    <3> QED
      BY <1>14, <3>2, <3>3
  <2>2. CASE a \in Issued(r)
    <3>1. PICK j \in 1..n : a \in r.pieces[j][1]..r.pieces[j][2]
      BY <1>13, <2>2
    <3>2. j \in 1..(n + 1) /\ x.pieces[j] = r.pieces[j]
      BY <1>1, <1>8
    <3> QED
      BY <1>18, <2>2, <3>1, <3>2
  <2>3. CASE a \in r.vstart..e
    <3>1. n + 1 \in 1..(n + 1)
      BY <1>1
    <3> QED
      BY <1>7, <1>18, <2>3, <3>1
  <2> QED
    BY <2>1, <2>2, <2>3
<1>20. Issued(x) = Issued(r) \cup (r.vstart..e)
  BY <1>19, Zenon
<1>21. CASE e + 1 < r.vend
  <2>1. x.vstart = e + 1
    BY <1>6, <1>21
  <2>2. Slice(x.vstart) = Slice(First(x)) + Len(x.pieces)
    BY <1>1, <1>3, <1>4, <1>5, <1>6, <1>7, <1>21, <2>1
  <2>3. Issued(x) = First(x)..(x.vstart - 1)
    BY <1>1, <1>3, <1>5, <1>6, <1>20, <2>1
  <2>4. First(x) <= x.vstart /\ x.vstart < x.vend
    BY <1>1, <1>3, <1>5, <1>6, <1>21, <2>1
  <2> QED
    BY <1>17, <1>20, <1>21, <2>2, <2>3, <2>4, Zenon DEF Busy, x, e
<1>22. CASE ~(e + 1 < r.vend)
  <2>1. Asked(r) = First(r)..r.vend
    BY IssuedInside
  <2>2. Issued(x) = First(r)..r.vend
    BY <1>1, <1>3, <1>5, <1>20, <1>22
  <2> QED
    BY <1>6, <1>17, <1>20, <1>22, <2>1, <2>2, Zenon DEF x, e
<1> QED
  BY <1>21, <1>22

-----------------------------------------------------------------------------
(* Packets in flight.                                                      *)

\* A packet in flight is inside what has been issued of its request.
LEMMA CarriedInside ==
  ASSUME NEW r \in DMARequests, RequestOK(r), NEW p \in packets, WakerInv, Carries(r, p)
  PROVE  p[2]..p[3] \subseteq Issued(r)
<1>1. PICK j \in 1..Len(r.pieces) : r.pieces[j][1] <= p[2] /\ p[3] <= r.pieces[j][2]
  BY DEF Carries
<1>2. r.pieces[j][1] \in Int /\ r.pieces[j][2] \in Int
  BY RequestFacts, Zenon
<1>3. p[2] \in Int /\ p[3] \in Int
  BY DEF WakerInv
<1>4. p[2]..p[3] \subseteq r.pieces[j][1]..r.pieces[j][2]
  <2> DEFINE a == r.pieces[j][1]
             b == r.pieces[j][2]
             c == p[2]
             d == p[3]
  <2>1. a \in Int /\ b \in Int /\ c \in Int /\ d \in Int /\ a <= c /\ d <= b
    BY <1>1, <1>2, <1>3, Zenon
  <2> HIDE DEF a, b, c, d
  <2>2. c..d \subseteq a..b
    BY <2>1, Inner
  <2> QED
    BY <2>2, Zenon DEF a, b, c, d
<1> QED
  BY <1>4, Zenon DEF Issued

\* The addresses of two requests are disjoint.
LEMMA AskedApart ==
  ASSUME NEW r \in DMARequests, NEW s \in DMARequests, RequestOK(r), RequestOK(s),
         r.res # s.res
  PROVE  r.vend < First(s) \/ s.vend < First(r)
<1> DEFINE t == <<First(r), r.expected>>
           u == <<First(s), s.expected>>
<1>1. t \in Transfers[r.res] /\ u \in Transfers[s.res]
  BY DEF RequestOK
<1>2. t[1] + t[2] <= u[1] \/ u[1] + u[2] <= t[1]
  <2>1. r.res \in Resources /\ s.res \in Resources
    BY RequestFacts
  <2> HIDE DEF t, u
  <2> QED
    BY <1>1, <2>1, TransfersAssumption, Zenon
<1>3. First(r) + r.expected <= First(s) \/ First(s) + s.expected <= First(r)
  BY <1>2
<1>4. /\ First(r) \in Int /\ First(r) + r.expected = r.vend + 1 /\ r.vend \in Int
      /\ First(s) \in Int /\ First(s) + s.expected = s.vend + 1 /\ s.vend \in Int
  BY RequestFacts
<1> QED
  BY <1>3, <1>4

\* An address lies in at most one of two disjoint ranges ...
LEMMA OneRange ==
  ASSUME NEW x \in Int, NEW a \in Int, NEW b \in Int, NEW c \in Int, NEW d \in Int,
         a <= x, x <= b, c <= x, x <= d
  PROVE  ~(b < c) /\ ~(d < a)
  OBVIOUS

\* ... and an address of a piece is one that was asked for.
LEMMA PieceInside ==
  ASSUME NEW r \in DMARequests, RequestOK(r), NEW j \in 1..Len(r.pieces), NEW a \in Int,
         r.pieces[j][1] <= a, a <= r.pieces[j][2]
  PROVE  First(r) <= a /\ a <= r.vend
<1>1. /\ First(r) \in Int /\ r.vend \in Int /\ r.pieces[j][1] \in Int /\ r.pieces[j][2] \in Int
  BY RequestFacts, Zenon
<1>2. First(r) <= r.pieces[j][1] /\ r.pieces[j][2] <= r.vend
  BY DEF RequestOK, PieceOK
<1> QED
  BY <1>1, <1>2

\* An answer matches exactly one piece.
LEMMA MatchesOne ==
  ASSUME TransferInv, NEW p \in packets
  PROVE  \E i \in 1..Len(requests) : \E j \in 1..Len(requests[i].pieces) :
           /\ Matches(p[2]) = {<<i, j>>} /\ Carries(requests[i], p)
<1>0. /\ \A i \in 1..Len(requests) : requests[i] \in DMARequests /\ RequestOK(requests[i])
      /\ p[2] \in Int /\ p[3] \in Int /\ p[2] <= p[3]
  BY DEF TransferInv, WakerInv, RequestsOK, PacketsOK
<1>1. PICK i \in 1..Len(requests) : Carries(requests[i], p)
  BY DEF TransferInv, PacketsOK
<1>2. PICK j \in 1..Len(requests[i].pieces) :
         requests[i].pieces[j][1] <= p[2] /\ p[3] <= requests[i].pieces[j][2]
  BY <1>1 DEF Carries
<1>3. ASSUME NEW k \in 1..Len(requests), NEW l \in 1..Len(requests[k].pieces)
      PROVE  /\ requests[k].pieces[l][1] \in Int /\ requests[k].pieces[l][2] \in Int
             /\ First(requests[k]) \in Int /\ requests[k].vend \in Int
             /\ First(requests[k]) <= requests[k].pieces[l][1]
             /\ requests[k].pieces[l][2] <= requests[k].vend
  <2>1. requests[k] \in DMARequests /\ RequestOK(requests[k])
    BY <1>0
  <2> QED
    BY <2>1, RequestFacts, Zenon DEF RequestOK, PieceOK
<1>4. Inside(p[2], <<i, j>>)
  BY <1>0, <1>2, <1>3, SMTT(30) DEF Inside
<1>5. ASSUME NEW k \in 1..Len(requests), NEW l \in 1..Len(requests[k].pieces), Inside(p[2], <<k, l>>)
      PROVE  k = i /\ l = j
  <2>1. requests[k].pieces[l][1] <= p[2] /\ p[2] <= requests[k].pieces[l][2]
    BY <1>5 DEF Inside
  <2>2. requests[i].pieces[j][1] <= p[2] /\ p[2] <= requests[i].pieces[j][2]
    BY <1>4 DEF Inside
  <2>3. /\ requests[k].pieces[l][1] \in Int /\ requests[k].pieces[l][2] \in Int
        /\ First(requests[k]) \in Int /\ requests[k].vend \in Int
        /\ First(requests[k]) <= requests[k].pieces[l][1]
        /\ requests[k].pieces[l][2] <= requests[k].vend
    BY <1>3, Zenon
  <2>4. /\ requests[i].pieces[j][1] \in Int /\ requests[i].pieces[j][2] \in Int
        /\ First(requests[i]) \in Int /\ requests[i].vend \in Int
        /\ First(requests[i]) <= requests[i].pieces[j][1]
        /\ requests[i].pieces[j][2] <= requests[i].vend
    BY <1>3, Zenon
  <2>5. p[2] \in Int
    BY <1>0
  <2>6. k = i
    <3>1. CASE requests[k].res # requests[i].res
      <4>1. requests[k].vend < First(requests[i]) \/ requests[i].vend < First(requests[k])
        BY <1>0, <3>1, AskedApart, Zenon
      <4>2. First(requests[k]) <= p[2] /\ p[2] <= requests[k].vend
        BY <1>0, <2>1, <2>5, PieceInside, Zenon
      <4>3. First(requests[i]) <= p[2] /\ p[2] <= requests[i].vend
        BY <1>0, <2>2, <2>5, PieceInside, Zenon
      <4> QED
        BY <2>3, <2>4, <2>5, <4>1, <4>2, <4>3, OneRange, Zenon
    <3>2. CASE requests[k].res = requests[i].res
      BY <3>2 DEF TransferInv, DistinctOK
    <3> QED
      BY <3>1, <3>2
  <2>7. l = j
    <3>1. l < j => requests[i].pieces[l][2] < requests[i].pieces[j][1]
      BY <1>0, <2>6, Zenon DEF RequestOK
    <3>2. j < l => requests[i].pieces[j][2] < requests[i].pieces[l][1]
      BY <1>0, <2>6, Zenon DEF RequestOK
    <3>3. l < j \/ j < l \/ l = j
      OBVIOUS
    <3>4. /\ requests[i].pieces[l][1] \in Int /\ requests[i].pieces[l][2] \in Int
          /\ requests[i].pieces[l][1] <= p[2] /\ p[2] <= requests[i].pieces[l][2]
      BY <2>1, <2>3, <2>6, Zenon
    <3> QED
      BY <2>2, <2>4, <2>5, <3>1, <3>2, <3>3, <3>4, OneRange, Zenon
  <2> QED
    BY <2>6, <2>7
<1>6. <<i, j>> \in Pieces
  BY DEF Pieces
<1>7. ASSUME NEW ij \in Pieces
      PROVE  \E k \in 1..Len(requests) : \E l \in 1..Len(requests[k].pieces) : ij = <<k, l>>
  BY DEF Pieces
<1>8. Matches(p[2]) = {<<i, j>>}
  <2>1. <<i, j>> \in Matches(p[2])
    BY <1>4, <1>6 DEF Matches
  <2>2. ASSUME NEW ij \in Matches(p[2]) PROVE ij = <<i, j>>
    <3>1. ij \in Pieces /\ Inside(p[2], ij)
      BY DEF Matches
    <3> QED
      BY <1>5, <1>7, <3>1, Zenon
  <2> QED
    BY <2>1, <2>2, Zenon
<1> QED
  BY <1>1, <1>8


-----------------------------------------------------------------------------
(* The addresses in flight.                                                *)

\* An address is in flight when a packet has it.
LEMMA FlightMembers ==
  ASSUME NEW ps, NEW x, NEW a
  PROVE  a \in InFlight(ps, x) <=> \E p \in ps : p[1] = x /\ a \in p[2]..p[3]
  BY Zenon DEF InFlight

\* dmaAction puts the addresses of a piece in flight.
LEMMA FlightAdd ==
  ASSUME NEW r, r.vstart \in Int, PieceEnd(r) \in Int, r.vstart <= PieceEnd(r),
         NEW ps, NEW y, NEW a
  PROVE  a \in InFlight(ps \cup Lines(r.res, r.vstart, PieceEnd(r)), y)
           <=> a \in InFlight(ps, y) \/ (y = r.res /\ a \in r.vstart..PieceEnd(r))
<1> DEFINE L == Lines(r.res, r.vstart, PieceEnd(r))
<1>1. /\ \A p \in L : /\ p[1] = r.res /\ p[2] \in Int /\ p[3] \in Int
                      /\ r.vstart <= p[2] /\ p[3] <= PieceEnd(r)
      /\ \A c \in r.vstart..PieceEnd(r) : \E p \in L : c \in p[2]..p[3]
  BY LinesFacts
<1> SUFFICES a \in InFlight(ps \cup L, y)
               <=> a \in InFlight(ps, y) \/ (y = r.res /\ a \in r.vstart..PieceEnd(r))
  OBVIOUS
<1> HIDE DEF L
<1>2. ASSUME NEW p \in L PROVE p[2]..p[3] \subseteq r.vstart..PieceEnd(r)
  <2>1. p[2] \in Int /\ p[3] \in Int /\ r.vstart <= p[2] /\ p[3] <= PieceEnd(r)
    BY <1>1
  <2> QED
    BY <2>1
<1>3. CASE a \in InFlight(ps \cup L, y)
  <2>1. PICK p \in ps \cup L : p[1] = y /\ a \in p[2]..p[3]
    BY <1>3, FlightMembers
  <2>2. CASE p \in ps
    BY <2>1, <2>2, FlightMembers
  <2>3. CASE p \in L
    BY <1>1, <1>2, <1>3, <2>1, <2>3
  <2> QED
    BY <2>2, <2>3
<1>4. CASE a \in InFlight(ps, y)
  <2>1. PICK p \in ps : p[1] = y /\ a \in p[2]..p[3]
    BY <1>4, FlightMembers
  <2> QED
    BY <1>4, <2>1, FlightMembers
<1>5. CASE y = r.res /\ a \in r.vstart..PieceEnd(r)
  <2>1. PICK p \in L : a \in p[2]..p[3]
    BY <1>1, <1>5
  <2>2. p[1] = y
    BY <1>1, <1>5
  <2> QED
    BY <1>5, <2>1, <2>2, FlightMembers
<1> QED
  BY <1>3, <1>4, <1>5, Zenon

\* An answer takes exactly its own addresses out of flight.
LEMMA FlightRemove ==
  ASSUME NEW ps \in SUBSET (Resources \X Int \X Int), NEW p \in ps, p[2] <= p[3],
         \A q \in ps : p # q /\ p[1] = q[1] => Apart(p, q), NEW y, NEW a
  PROVE  a \in InFlight(ps \ {p}, y)
           <=> a \in InFlight(ps, y) /\ ~(y = p[1] /\ a \in p[2]..p[3])
<1>1. ASSUME NEW q \in ps PROVE q[2] \in Int /\ q[3] \in Int
  OBVIOUS
<1>2. ASSUME NEW q \in ps, Apart(p, q), a \in q[2]..q[3] PROVE a \notin p[2]..p[3]
  <2>1. p[2] \in Int /\ p[3] \in Int /\ q[2] \in Int /\ q[3] \in Int
    BY <1>1
  <2> QED
    BY <1>2, <2>1 DEF Apart
<1>3. CASE a \in InFlight(ps \ {p}, y)
  <2>1. PICK q \in ps \ {p} : q[1] = y /\ a \in q[2]..q[3]
    BY <1>3, FlightMembers
  <2>2. a \in InFlight(ps, y)
    BY <2>1, FlightMembers
  <2>3. y = p[1] => Apart(p, q)
    BY <2>1, Zenon
  <2> QED
    BY <1>2, <1>3, <2>1, <2>2, <2>3, Zenon
<1>4. CASE a \in InFlight(ps, y) /\ ~(y = p[1] /\ a \in p[2]..p[3])
  <2>1. PICK q \in ps : q[1] = y /\ a \in q[2]..q[3]
    BY <1>4, FlightMembers
  <2>2. q # p
    BY <1>4, <2>1, Zenon
  <2> QED
    BY <1>4, <2>1, <2>2, FlightMembers, Zenon
<1> QED
  BY <1>3, <1>4, Zenon

-----------------------------------------------------------------------------
(* The completion events left for a request.                               *)

\* A request lies in so many slices that its pieces, and one more while the
\* engine works on it, fit into the share of its resource.
LEMMA PiecesBound ==
  ASSUME NEW r \in DMARequests, RequestOK(r), NEW n \in Nat,
         \A x \in Resources : \A t \in Transfers[x] :
           (t[1] + t[2] - 1) \div SliceSize - t[1] \div SliceSize + 1 <= n
  PROVE  /\ \A j \in 1..Len(r.pieces) : j <= n
         /\ Busy(r) => Len(r.pieces) + 1 <= n
<1> DEFINE t == <<First(r), r.expected>>
           s == Slice(First(r))
           e == Slice(r.vend)
<1>1. /\ r.res \in Resources /\ First(r) \in Int /\ r.vend \in Int /\ r.vstart \in Int
      /\ First(r) + r.expected - 1 = r.vend /\ Len(r.pieces) \in Nat
  <2>1. /\ r.res \in Resources /\ First(r) \in Int /\ r.vend \in Int /\ r.vstart \in Int
        /\ First(r) + r.expected = r.vend + 1 /\ Len(r.pieces) \in Nat /\ r.expected \in Int
    BY RequestFacts
  <2> QED
    BY <2>1
<1>2. t \in Transfers[r.res] /\ t[1] = First(r) /\ t[2] = r.expected
  BY DEF RequestOK
<1>3. (t[1] + t[2] - 1) \div SliceSize - t[1] \div SliceSize + 1 <= n
  BY <1>1, <1>2, Zenon
<1>4. e - s + 1 <= n
  BY <1>1, <1>2, <1>3, Zenon DEF Slice
<1>5. SliceSize \in Nat \ {0}
  BY SliceAssumption
<1>6. s \in Int /\ e \in Int
  BY <1>1, <1>5, DivFacts, Zenon DEF Slice
<1>7. ASSUME NEW a \in Int, a <= r.vend PROVE Slice(a) \in Int /\ Slice(a) <= e
  BY <1>1, <1>5, <1>7, DivFacts, DivMono, Zenon DEF Slice
<1> HIDE DEF t, s, e
<1>8. ASSUME NEW j \in 1..Len(r.pieces) PROVE j <= n
  <2>1. /\ r.pieces[j][1] <= r.pieces[j][2] /\ r.pieces[j][2] <= r.vend
        /\ Slice(r.pieces[j][1]) = s + j - 1
    BY Zenon DEF RequestOK, PieceOK, s
  <2>2. r.pieces[j][1] \in Int /\ r.pieces[j][2] \in Int
    BY RequestFacts, Zenon
  <2>3. r.pieces[j][1] <= r.vend
    BY <1>1, <2>1, <2>2, LeTrans, Zenon
  <2>4. s + j - 1 <= e
    BY <1>7, <2>1, <2>2, <2>3, Zenon
  <2> QED
    BY <1>4, <1>6, <2>4
<1>9. ASSUME Busy(r) PROVE Len(r.pieces) + 1 <= n
  <2>1. r.vstart < r.vend /\ Slice(r.vstart) = s + Len(r.pieces)
    BY <1>9 DEF Busy, s
  <2>2. r.vstart <= r.vend
    BY <1>1, <2>1
  <2>3. s + Len(r.pieces) <= e
    BY <1>1, <1>7, <2>1, <2>2
  <2> QED
    BY <1>1, <1>4, <1>6, <2>3
<1> QED
  BY <1>8, <1>9

\* There is a completion event for the next piece: the pieces in flight, and
\* this one, have each a number of their own in the share of their resource.
LEMMA EventLeft ==
  ASSUME TransferInv, state = "TRANSFER"
  PROVE  EventsInUse < MaxOutstandingDma
<1>1. PICK n \in 0..MaxOutstandingDma :
         /\ Cardinality(Resources) * n <= MaxOutstandingDma
         /\ \A x \in Resources : \A t \in Transfers[x] :
              (t[1] + t[2] - 1) \div SliceSize - t[1] \div SliceSize + 1 <= n
  BY EventsAssumption
<1>2. n \in Nat
  BY DmaBoundsAssumption
<1>3. \A i \in 1..Len(requests) : requests[i] \in DMARequests /\ RequestOK(requests[i])
  BY DEF TransferInv, WakerInv, RequestsOK
<1>4. requests # <<>> /\ Busy(requests[1]) /\ requests \in Seq(DMARequests)
  BY DEF TransferInv, WakerInv, EngineOK
<1>5. 1 \in 1..Len(requests)
  BY <1>4
<1> DEFINE room == Resources \X (1..n)
           next == <<requests[1].res, Len(requests[1].pieces) + 1>>
           used == {ij \in Pieces : \E p \in packets : Inside(p[2], ij)}
           f == [ij \in used |-> <<requests[ij[1]].res, ij[2]>>]
<1>6. IsFiniteSet(room) /\ Cardinality(room) <= MaxOutstandingDma /\ Cardinality(room) \in Nat
  <2>1. IsFiniteSet(Resources) /\ IsFiniteSet(1..n) /\ Cardinality(1..n) = n
    <3>1. IsFiniteSet(1..n) /\ Cardinality(1..n) = IF 1 > n THEN 0 ELSE n - 1 + 1
      BY <1>2, FS_Interval
    <3> QED
      BY <1>2, <3>1, EventsAssumption
  <2>2. IsFiniteSet(room) /\ Cardinality(room) = Cardinality(Resources) * Cardinality(1..n)
    BY <2>1, FS_Product, Zenon
  <2> QED
    BY <1>1, <2>1, <2>2, FS_CardinalityType, Zenon
<1>7. next \in room
  <2>1. Len(requests[1].pieces) + 1 <= n /\ Len(requests[1].pieces) \in Nat
        /\ requests[1].res \in Resources
    BY <1>1, <1>2, <1>3, <1>4, <1>5, PiecesBound, RequestFacts, Zenon
  <2>2. Len(requests[1].pieces) + 1 \in 1..n
    BY <1>2, <2>1
  <2> QED
    BY <2>1, <2>2
<1>8. Cardinality(room \ {next}) = Cardinality(room) - 1 /\ IsFiniteSet(room \ {next})
  <2> HIDE DEF room, next
  <2>1. /\ IsFiniteSet(room \ {next})
        /\ Cardinality(room \ {next}) = IF next \in room THEN Cardinality(room) - 1
                                                       ELSE Cardinality(room)
    BY <1>6, FS_RemoveElement, Zenon
  <2> QED
    BY <1>7, <2>1, Zenon
<1>9. ASSUME NEW ij \in used
      PROVE  \E i \in 1..Len(requests) : \E j \in 1..Len(requests[i].pieces) : ij = <<i, j>>
  BY DEF Pieces
<1>10. ASSUME NEW i \in 1..Len(requests), NEW j \in 1..Len(requests[i].pieces)
       PROVE  <<requests[i].res, j>> \in room \ {next}
  <2>1. j <= n /\ requests[i].res \in Resources
    BY <1>1, <1>2, <1>3, PiecesBound, RequestFacts, Zenon
  <2>2. j \in 1..n
    BY <1>2, <2>1
  <2>3. requests[i].res = requests[1].res => i = 1
    BY <1>5 DEF TransferInv, DistinctOK
  <2>4. i = 1 => j # Len(requests[1].pieces) + 1
    BY <1>3
  <2> QED
    BY <2>1, <2>2, <2>3, <2>4
<1>11. \A i, k \in 1..Len(requests) : requests[i].res = requests[k].res => i = k
  BY DEF TransferInv, DistinctOK
<1> HIDE DEF used, room, next
<1>12. ASSUME NEW ij \in used PROVE f[ij] \in room \ {next}
  <2>1. PICK i \in 1..Len(requests) : \E j \in 1..Len(requests[i].pieces) : ij = <<i, j>>
    BY <1>9
  <2>2. PICK j \in 1..Len(requests[i].pieces) : ij = <<i, j>>
    BY <2>1
  <2>3. f[ij] = <<requests[i].res, j>>
    BY <2>2
  <2> QED
    BY <1>10, <2>3
<1>13. ASSUME NEW ij \in used, NEW kl \in used, f[ij] = f[kl] PROVE ij = kl
  <2>1. PICK i \in 1..Len(requests) : \E j \in 1..Len(requests[i].pieces) : ij = <<i, j>>
    BY <1>9
  <2>2. PICK j \in 1..Len(requests[i].pieces) : ij = <<i, j>>
    BY <2>1
  <2>3. PICK k \in 1..Len(requests) : \E l \in 1..Len(requests[k].pieces) : kl = <<k, l>>
    BY <1>9
  <2>4. PICK l \in 1..Len(requests[k].pieces) : kl = <<k, l>>
    BY <2>3
  <2>5. requests[i].res = requests[k].res /\ j = l
    BY <1>13, <2>2, <2>4
  <2> QED
    BY <1>11, <2>2, <2>4, <2>5
<1>14. f \in Injection(used, room \ {next})
  <2>1. f \in [used -> room \ {next}]
    BY <1>12
  <2> HIDE DEF f
  <2> QED
    BY <1>13, <2>1 DEF Injection, IsInjective
<1> HIDE DEF f
<1>15. Cardinality(used) <= Cardinality(room \ {next}) /\ IsFiniteSet(used)
  BY <1>8, <1>14, FS_Injection, Zenon
<1>16. Cardinality(used) \in Nat
  BY <1>15, FS_CardinalityType, Zenon
<1>17. EventsInUse = Cardinality(used)
  BY DEF EventsInUse, used
<1> QED
  BY <1>6, <1>8, <1>15, <1>16, <1>17, DmaBoundsAssumption

-----------------------------------------------------------------------------
(* Steps of the engine.                                                    *)

\* Request k is replaced by x, which covers at least the same packets.
LEMMA ReplaceStep ==
  ASSUME TransferInv, NEW k \in 1..Len(requests), NEW x \in DMARequests, RequestOK(x),
         x.res = requests[k].res, \A p : Carries(requests[k], p) => Carries(x, p),
         requests' = [requests EXCEPT ![k] = x]
  PROVE  /\ requests' \in Seq(DMARequests) /\ Len(requests') = Len(requests) /\ requests'[k] = x
         /\ \A i \in 1..Len(requests) : i # k => requests'[i] = requests[i]
         /\ \A i \in 1..Len(requests) : requests'[i].res = requests[i].res
         /\ RequestsOK' /\ DistinctOK'
         /\ \A p \in packets : \E i \in 1..Len(requests') : Carries(requests'[i], p)
<1>1. requests \in Seq(DMARequests)
  BY DEF TransferInv, WakerInv
<1>2. /\ requests' \in Seq(DMARequests) /\ Len(requests') = Len(requests) /\ requests'[k] = x
      /\ \A i \in 1..Len(requests) : i # k => requests'[i] = requests[i]
  BY <1>1
<1>3. \A i \in 1..Len(requests) : requests'[i].res = requests[i].res
  BY <1>2, Zenon
<1>4. RequestsOK'
  <2>1. \A i \in 1..Len(requests) : RequestOK(requests[i])
    BY DEF TransferInv, RequestsOK
  <2>2. \A i \in 1..Len(requests') : RequestOK(requests'[i])
    BY <1>2, <2>1, Zenon
  <2> QED
    BY <2>2, Zenon DEF RequestsOK
<1>5. DistinctOK'
  <2>1. \A i, j \in 1..Len(requests) : requests[i].res = requests[j].res => i = j
    BY DEF TransferInv, DistinctOK
  <2>2. \A i, j \in 1..Len(requests') : requests'[i].res = requests'[j].res => i = j
    BY <1>2, <1>3, <2>1, Zenon
  <2> QED
    BY <2>2, Zenon DEF DistinctOK
<1>6. ASSUME NEW p \in packets PROVE \E i \in 1..Len(requests') : Carries(requests'[i], p)
  <2>1. PICK i \in 1..Len(requests) : Carries(requests[i], p)
    BY DEF TransferInv, PacketsOK
  <2> QED
    BY <1>2, <2>1, Zenon
<1> QED
  BY <1>2, <1>3, <1>4, <1>5, <1>6, Zenon

\* DMA_STATE_TLBREFILL marks the request as issued and leaves its pieces alone.
LEMMA RefillStep ==
  ASSUME TransferInv, Work, state = "TLBREFILL"
  PROVE  TransferInv'
<1> DEFINE r == requests[1]
           x == MarkIssued(r)
<1>1. /\ requests \in Seq(DMARequests) /\ requests # <<>> /\ current = 0 /\ Busy(r) /\ ~panic
      /\ WakerInv /\ \A i \in 2..Len(requests) : Whole(requests[i])
  BY DEF TransferInv, WakerInv, EngineOK
<1>2. 1 \in 1..Len(requests) /\ r \in DMARequests /\ 0 < Len(requests)
  BY <1>1
<1>3. RequestOK(r)
  BY <1>2 DEF TransferInv, RequestsOK
<1>4. TlbRefill /\ UNCHANGED <<current, status, panic, kernelVars>>
  BY <1>1, <1>2 DEF Work
<1>5. requests' = [requests EXCEPT ![1] = x] /\ packets' = packets
      /\ state' = IF r.vstart < r.vend THEN "TRANSFER" ELSE "IDLE"
  BY <1>1, <1>4 DEF TlbRefill
<1>6. state' = "TRANSFER"
  BY <1>1, <1>5 DEF Busy
<1>7. WakerInv'
  BY <1>1, WakerNextState DEF NextState
<1>8. x \in DMARequests
  BY <1>2, MarkIssuedType
<1>9. /\ x.res = r.res /\ x.vend = r.vend /\ x.expected = r.expected /\ x.pieces = r.pieces
      /\ x.completed = r.completed /\ x.vstart = r.vstart /\ x.issued
  BY <1>2, MarkIssuedFields, Zenon
<1> HIDE DEF x
<1>10. /\ First(x) = First(r) /\ Asked(x) = Asked(r) /\ Issued(x) = Issued(r) /\ RequestOK(x)
       /\ \A p : Carries(r, p) => Carries(x, p)
  BY <1>3, <1>9, SameFields, Zenon
<1>11. Busy(x)
  BY <1>1, <1>9, <1>10, Zenon DEF Busy
<1>12. /\ Len(requests') = Len(requests) /\ requests'[1] = x
       /\ \A i \in 1..Len(requests) : i # 1 => requests'[i] = requests[i]
       /\ \A i \in 1..Len(requests) : requests'[i].res = requests[i].res
       /\ RequestsOK' /\ DistinctOK'
       /\ \A p \in packets : \E i \in 1..Len(requests') : Carries(requests'[i], p)
  BY <1>2, <1>5, <1>8, <1>9, <1>10, ReplaceStep, Zenon
<1>13. BytesOK'
  <2>1. \A i \in 1..Len(requests) : requests[i].completed =
          Cardinality(Issued(requests[i]) \ InFlight(packets, requests[i].res))
    BY DEF TransferInv, BytesOK, Accounted
  <2>2. ASSUME NEW i \in 1..Len(requests)
        PROVE  requests'[i].completed =
                 Cardinality(Issued(requests'[i]) \ InFlight(packets', requests'[i].res))
    <3>1. CASE i = 1
      <4>1. r.completed = Cardinality(Issued(r) \ InFlight(packets, r.res))
        BY <2>1, <3>1
      <4>2. x.completed = Cardinality(Issued(x) \ InFlight(packets', x.res))
        BY <1>5, <1>9, <1>10, <4>1, Zenon
      <4> QED
        BY <1>12, <3>1, <4>2, Zenon
    <3>2. CASE i # 1
      BY <1>5, <1>12, <2>1, <3>2, Zenon
    <3> QED
      BY <3>1, <3>2
  <2> QED
    BY <1>12, <2>2, Zenon DEF BytesOK, Accounted
<1>14. StatusOK'
  BY <1>4, <1>12, Zenon DEF TransferInv, StatusOK, kernelVars
<1>15. EngineOK'
  <2>1. \A i \in 2..Len(requests') : Whole(requests'[i])
    <3>1. ASSUME NEW i \in 2..Len(requests) PROVE Whole(requests'[i])
      <4>1. i \in 1..Len(requests) /\ i # 1
        OBVIOUS
      <4> QED
        BY <1>1, <1>12, <4>1, Zenon
    <3> QED
      BY <1>12, <3>1, Zenon
  <2>2. requests' # <<>> /\ current' = 0 /\ Busy(requests'[1]) /\ requests'[1].issued
    <3>1. requests' # <<>>
      BY <1>2, <1>12
    <3> QED
      BY <1>1, <1>4, <1>9, <1>11, <1>12, <3>1, Zenon
  <2> QED
    BY <1>6, <2>1, <2>2, Zenon DEF EngineOK
<1>16. PacketsOK'
  BY <1>5, <1>12, Zenon DEF TransferInv, PacketsOK
<1> QED
  BY <1>1, <1>4, <1>7, <1>12, <1>13, <1>14, <1>15, <1>16, Zenon DEF TransferInv

\* DMA_STATE_TRANSFER puts a piece in flight that nothing in flight overlaps.
LEMMA TransferStep ==
  ASSUME TransferInv, Work, state # "TLBREFILL"
  PROVE  TransferInv'
<1> DEFINE r == requests[1]
           x == AfterPiece(r)
           e == PieceEnd(r)
           new == Lines(r.res, r.vstart, e)
<1>1. /\ requests \in Seq(DMARequests) /\ requests # <<>> /\ current = 0 /\ Busy(r) /\ ~panic
      /\ WakerInv /\ \A i \in 2..Len(requests) : Whole(requests[i])
      /\ r.issued
  BY DEF TransferInv, WakerInv, EngineOK, Work
<1>2. 1 \in 1..Len(requests) /\ r \in DMARequests /\ 0 < Len(requests)
  BY <1>1
<1>3. RequestOK(r)
  BY <1>2 DEF TransferInv, RequestsOK
<1>4. current < Len(requests) /\ (state = "TRANSFER" => EventsInUse < MaxOutstandingDma)
  BY <1>1, <1>2, EventLeft
<1>5. Transfer /\ UNCHANGED <<current, status, panic, kernelVars>>
  BY <1>4, Zenon DEF Work
<1>6. /\ requests' = [requests EXCEPT ![1] = x]
      /\ packets' = packets \cup new
      /\ state' = IF e + 1 < r.vend THEN "TLBREFILL" ELSE "IDLE"
  <2>1. current + 1 = 1
    BY <1>1
  <2> QED
    BY <1>5, <2>1, Zenon DEF Transfer, AfterPiece, PieceEnd
<1>7. WakerInv'
  BY <1>1, WakerNextState DEF NextState
<1>8. /\ r.vstart \in Int /\ r.vend \in Int /\ e \in Int /\ r.vstart <= e /\ e <= r.vend
      /\ Len(r.pieces) \in Nat /\ First(r) \in Int
  BY <1>1, <1>2, <1>3, RequestFacts, PieceEndFacts, Zenon
<1>9. x \in DMARequests
  <2>1. (IF e + 1 < r.vend THEN e + 1 ELSE r.vstart) \in Int
    BY <1>8
  <2> QED
    BY <1>2, <1>8, <2>1, IssuePieceType, Zenon DEF AfterPiece
<1>10. /\ x.res = r.res /\ x.issued = r.issued /\ x.completed = r.completed
       /\ Len(x.pieces) = Len(r.pieces) + 1
       /\ x.pieces[Len(r.pieces) + 1] = <<r.vstart, e>>
       /\ \A j \in 1..Len(r.pieces) : x.pieces[j] = r.pieces[j]
  BY <1>1, <1>2, <1>3, AfterPieceFields, Zenon
<1>11. /\ RequestOK(x) /\ Issued(x) = Issued(r) \cup (r.vstart..e)
       /\ IF e + 1 < r.vend THEN Busy(x) ELSE Issued(x) = Asked(x)
  BY <1>1, <1>2, <1>3, IssueStep, Zenon
<1>12. /\ \A p \in new : /\ p[1] = r.res /\ p[2] \in Int /\ p[3] \in Int
                         /\ r.vstart <= p[2] /\ p[2] <= p[3] /\ p[3] <= e
       /\ \A p, q \in new : p # q => Apart(p, q)
  <2> HIDE DEF r, e
  <2> QED
    BY <1>8, LinesFacts, Zenon
<1>13. ASSUME NEW y, NEW a
       PROVE  a \in InFlight(packets', y)
                <=> a \in InFlight(packets, y) \/ (y = r.res /\ a \in r.vstart..e)
  <2>1. a \in InFlight(packets \cup new, y)
          <=> a \in InFlight(packets, y) \/ (y = r.res /\ a \in r.vstart..e)
    BY <1>8, FlightAdd, Zenon
  <2> QED
    BY <1>6, <2>1, Zenon
<1>14. \A p : Carries(r, p) => Carries(x, p)
  <2> SUFFICES ASSUME NEW p, Carries(r, p) PROVE Carries(x, p)
    OBVIOUS
  <2>1. PICK j \in 1..Len(r.pieces) : r.pieces[j][1] <= p[2] /\ p[3] <= r.pieces[j][2]
    BY DEF Carries
  <2>2. j \in 1..Len(x.pieces)
    BY <1>8, <1>10, OneLonger, Zenon
  <2> HIDE DEF x, r
  <2> QED
    BY <1>10, <2>1, <2>2, Zenon DEF Carries
<1> HIDE DEF x, e, new
<1>15. /\ Len(requests') = Len(requests) /\ requests'[1] = x
       /\ \A i \in 1..Len(requests) : i # 1 => requests'[i] = requests[i]
       /\ \A i \in 1..Len(requests) : requests'[i].res = requests[i].res
       /\ RequestsOK' /\ DistinctOK'
       /\ \A p \in packets : \E i \in 1..Len(requests') : Carries(requests'[i], p)
  BY <1>2, <1>6, <1>9, <1>10, <1>11, <1>14, ReplaceStep, Zenon
<1>16. BytesOK'
  <2>1. \A i \in 1..Len(requests) : requests[i].completed =
          Cardinality(Issued(requests[i]) \ InFlight(packets, requests[i].res))
    BY DEF TransferInv, BytesOK, Accounted
  <2>2. ASSUME NEW i \in 1..Len(requests)
        PROVE  requests'[i].completed =
                 Cardinality(Issued(requests'[i]) \ InFlight(packets', requests'[i].res))
    <3>1. CASE i = 1
      <4>1. r.completed = Cardinality(Issued(r) \ InFlight(packets, r.res))
        BY <2>1, <3>1, Zenon
      <4>2. \A a : a \in InFlight(packets', r.res)
                    <=> a \in InFlight(packets, r.res) \/ a \in r.vstart..e
        BY <1>13
      <4>3. Issued(r) = First(r)..(r.vstart - 1)
        BY <1>1 DEF Busy
      <4>4. \A a \in Issued(r) : a \notin r.vstart..e
        BY <1>8, <4>3
      <4>5. Issued(x) \ InFlight(packets', r.res) = Issued(r) \ InFlight(packets, r.res)
        BY <1>11, <4>2, <4>4, Zenon
      <4>6. x.completed = Cardinality(Issued(x) \ InFlight(packets', x.res))
        BY <1>10, <4>1, <4>5, Zenon
      <4> QED
        BY <1>15, <3>1, <4>6, Zenon
    <3>2. CASE i # 1
      <4>1. requests[i].res # r.res
        BY <1>2, <3>2 DEF TransferInv, DistinctOK
      <4>2. InFlight(packets', requests[i].res) = InFlight(packets, requests[i].res)
        <5>1. \A a : a \in InFlight(packets', requests[i].res)
                      <=> a \in InFlight(packets, requests[i].res)
          BY <1>13, <4>1, Zenon
        <5> QED
          BY <5>1, Zenon
      <4> QED
        BY <1>15, <2>1, <3>2, <4>2, Zenon
    <3> QED
      BY <3>1, <3>2
  <2> QED
    BY <1>15, <2>2, Zenon DEF BytesOK, Accounted
<1>17. StatusOK'
  BY <1>5, <1>15, Zenon DEF TransferInv, StatusOK, kernelVars
<1>18. EngineOK'
  <2>1. \A i \in 2..Len(requests') : Whole(requests'[i])
    <3>1. ASSUME NEW i \in 2..Len(requests) PROVE Whole(requests'[i])
      <4>1. i \in 1..Len(requests) /\ i # 1
        OBVIOUS
      <4> QED
        BY <1>1, <1>15, <4>1, Zenon
    <3> QED
      BY <1>15, <3>1, Zenon
  <2>2. requests' # <<>> /\ current' = 0
    <3>1. requests' # <<>>
      BY <1>2, <1>15
    <3> QED
      BY <1>1, <1>5, <3>1, Zenon
  <2>3. CASE e + 1 < r.vend
    <3>1. state' = "TLBREFILL" /\ Busy(requests'[1])
      BY <1>6, <1>11, <1>15, <2>3, Zenon
    <3> QED
      BY <2>1, <2>2, <3>1, Zenon DEF EngineOK
  <2>4. CASE ~(e + 1 < r.vend)
    <3>1. state' = "IDLE" /\ Settled(requests'[1])
      BY <1>1, <1>6, <1>10, <1>11, <1>15, <2>4, Zenon DEF Settled, Whole
    <3> QED
      BY <2>1, <3>1, Zenon DEF EngineOK
  <2> QED
    BY <2>3, <2>4
<1>19. ASSUME NEW p \in new PROVE \E i \in 1..Len(requests') : Carries(requests'[i], p)
  <2>1. p[1] = r.res /\ r.vstart <= p[2] /\ p[3] <= e
    BY <1>12
  <2>2. Len(r.pieces) + 1 \in 1..Len(x.pieces)
    BY <1>8, <1>10, OneLonger, Zenon
  <2>3. x.pieces[Len(r.pieces) + 1][1] = r.vstart /\ x.pieces[Len(r.pieces) + 1][2] = e
    BY <1>10
  <2>4. Carries(x, p)
    BY <1>10, <2>1, <2>2, <2>3, Zenon DEF Carries
  <2> QED
    BY <1>2, <1>15, <2>4, Zenon
<1>20. ASSUME NEW p \in packets, NEW q \in new, p[1] = q[1] PROVE p[3] < q[2]
  <2>1. PICK i \in 1..Len(requests) : Carries(requests[i], p)
    BY DEF TransferInv, PacketsOK
  <2>2. i = 1
    <3>1. requests[i].res = requests[1].res
      BY <1>12, <1>20, <2>1 DEF Carries
    <3> QED
      BY <1>2, <3>1 DEF TransferInv, DistinctOK
  <2>3. p[2]..p[3] \subseteq First(r)..(r.vstart - 1)
    BY <1>1, <1>2, <1>3, <2>1, <2>2, CarriedInside, Zenon DEF Busy
  <2>4. p[2] \in Int /\ p[3] \in Int /\ p[2] <= p[3]
    BY DEF TransferInv, WakerInv, PacketsOK
  <2>5. p[3] \in First(r)..(r.vstart - 1)
    BY <2>3, <2>4
  <2>6. q[2] \in Int /\ r.vstart <= q[2]
    BY <1>12
  <2>7. r.vstart \in Int /\ First(r) \in Int
    BY <1>8
  <2> QED
    BY <2>5, <2>6, <2>7, Below, Zenon
<1>21. PacketsOK'
  <2>1. \A p \in packets' : p[2] <= p[3] /\ \E i \in 1..Len(requests') : Carries(requests'[i], p)
    BY <1>6, <1>12, <1>15, <1>19, Zenon DEF TransferInv, PacketsOK
  <2>2. ASSUME NEW p \in packets', NEW q \in packets', p # q, p[1] = q[1] PROVE Apart(p, q)
    <3>1. CASE p \in packets /\ q \in packets
      BY <2>2, <3>1, Zenon DEF TransferInv, PacketsOK
    <3>2. CASE p \in packets /\ q \in new
      BY <1>20, <2>2, <3>2, Zenon DEF Apart
    <3>3. CASE p \in new /\ q \in packets
      BY <1>20, <2>2, <3>3, Zenon DEF Apart
    <3>4. CASE p \in new /\ q \in new
      BY <1>12, <2>2, <3>4, Zenon
    <3> QED
      BY <1>6, <3>1, <3>2, <3>3, <3>4, Zenon
  <2> QED
    BY <2>1, <2>2, Zenon DEF PacketsOK
<1> QED
  BY <1>1, <1>5, <1>7, <1>15, <1>16, <1>17, <1>18, <1>21, Zenon DEF TransferInv

\* A step that changes neither the requests nor the packets.
LEMMA QuietStep ==
  ASSUME TransferInv, UNCHANGED <<requests, packets>>
  PROVE  RequestsOK' /\ BytesOK' /\ DistinctOK' /\ PacketsOK'
<1>1. requests' = requests /\ packets' = packets
  OBVIOUS
<1>2. RequestsOK /\ BytesOK /\ DistinctOK /\ PacketsOK
  BY DEF TransferInv
<1>3. RequestsOK' /\ DistinctOK'
  BY <1>1, <1>2, Zenon DEF RequestsOK, DistinctOK
<1>4. BytesOK'
  BY <1>1, <1>2, Zenon DEF BytesOK, Accounted
<1> QED
  BY <1>1, <1>2, <1>3, <1>4, Zenon DEF PacketsOK

\* A request the engine has not begun with has all of its range before it.
LEMMA FreshBusy ==
  ASSUME NEW r \in DMARequests, RequestOK(r), r.pieces = <<>>, r.vstart = First(r)
  PROVE  Busy(r)
<1>1. /\ First(r) \in Int /\ r.vend \in Int /\ First(r) + r.expected = r.vend + 1 /\ r.expected > 1
      /\ r.expected \in Int /\ Len(r.pieces) = 0
  BY RequestFacts, Zenon
<1>2. First(r) <= r.vstart /\ r.vstart < r.vend
  BY <1>1
<1>3. Issued(r) = {} /\ First(r)..(r.vstart - 1) = {}
  BY <1>1 DEF Issued
<1>4. Slice(r.vstart) = Slice(First(r)) + Len(r.pieces)
  <2>1. Slice(First(r)) \in Int
    BY <1>1, DivFacts, SliceAssumption DEF Slice
  <2> QED
    BY <1>1, <2>1
<1> QED
  BY <1>2, <1>3, <1>4, Zenon DEF Busy

\* Select on requests rs of which only the first may wait: the engine turns to it.
LEMMA SelectFirst ==
  ASSUME NEW rs \in Seq(DMARequests), rs # <<>>, RequestOK(rs[1]), Settled(rs[1]),
         \A i \in 2..Len(rs) : Whole(rs[i]), Select(rs)
  PROVE  \/ state' = "IDLE"
         \/ state' = "TLBREFILL" /\ current' = 0 /\ Busy(rs[1])
<1>1. CASE Waiting(rs) = {} /\ state' = "IDLE"
  BY <1>1
<1>2. ASSUME NEW i \in Waiting(rs), current' = i - 1, state' = "TLBREFILL"
      PROVE  state' = "TLBREFILL" /\ current' = 0 /\ Busy(rs[1])
  <2>1. i \in 1..Len(rs) /\ ~rs[i].issued
    BY DEF Waiting
  <2>2. i = 1
    <3> SUFFICES ASSUME i # 1 PROVE FALSE
      OBVIOUS
    <3>1. i \in 2..Len(rs)
      BY <2>1
    <3> QED
      BY <2>1, <3>1 DEF Whole
  <2>3. rs[1] \in DMARequests
    BY <2>1, <2>2
  <2>4. rs[1].pieces = <<>> /\ rs[1].vstart = First(rs[1])
    BY <2>1, <2>2 DEF Settled, Whole
  <2> QED
    BY <1>2, <2>2, <2>3, <2>4, FreshBusy
<1> QED
  BY <1>1, <1>2 DEF Select

\* The engine stops, or selects the first request.
LEMMA IdleStep ==
  ASSUME TransferInv, Drain \/ Idle
  PROVE  TransferInv'
<1>1. UNCHANGED <<requests, packets, status, held, panic>>
  BY DEF Drain, Idle, kernelVars
<1>2. RequestsOK' /\ BytesOK' /\ DistinctOK' /\ PacketsOK'
  BY <1>1, QuietStep
<1>3. WakerInv'
  BY WakerNextState DEF NextState, TransferInv
<1>4. StatusOK'
  BY <1>1, Zenon DEF TransferInv, StatusOK
<1>5. \A i \in 2..Len(requests') : Whole(requests'[i])
  BY <1>1, Zenon DEF TransferInv, EngineOK
<1>6. CASE Drain
  <2>1. state' = "IDLE" /\ requests' = <<>>
    BY <1>6 DEF Drain
  <2> QED
    BY <1>1, <1>2, <1>3, <1>4, <1>5, <2>1, Zenon DEF TransferInv, EngineOK
<1>7. CASE Idle
  <2>1. requests # <<>> /\ state = "IDLE" /\ Select(requests)
    BY <1>7 DEF Idle
  <2>2. /\ requests \in Seq(DMARequests) /\ Settled(requests[1])
        /\ \A i \in 2..Len(requests) : Whole(requests[i])
    BY <2>1 DEF TransferInv, WakerInv, EngineOK
  <2>3. 1 \in 1..Len(requests)
    BY <2>1, <2>2
  <2>4. RequestOK(requests[1])
    BY <2>3 DEF TransferInv, RequestsOK
  <2>5. \/ state' = "IDLE"
        \/ state' = "TLBREFILL" /\ current' = 0 /\ Busy(requests[1])
    BY <2>1, <2>2, <2>4, SelectFirst, Zenon
  <2>6. EngineOK'
    BY <1>1, <1>5, <2>1, <2>2, <2>5, Zenon DEF EngineOK
  <2> QED
    BY <1>1, <1>2, <1>3, <1>4, <2>6, Zenon DEF TransferInv
<1> QED
  BY <1>6, <1>7

\* Every step of nextState keeps the invariant.
LEMMA NextStateStep ==
  ASSUME TransferInv, NextState
  PROVE  TransferInv'
<1>1. CASE Drain \/ Idle
  BY <1>1, IdleStep
<1>2. CASE Work
  BY <1>2, RefillStep, TransferStep
<1> QED
  BY <1>1, <1>2 DEF NextState

=============================================================================
