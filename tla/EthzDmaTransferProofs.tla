----------------------- MODULE EthzDmaTransferProofs ------------------------
(***************************************************************************)
(* With a core that is slower than the engine, no assertion of the engine  *)
(* fires, every byte that was asked for is transferred, and DMA_WAIT       *)
(* returns only when the transfer is complete: for every set of resources, *)
(* transfers, slices and lines that meets the assumptions of EthzDma.      *)
(*                                                                         *)
(* The answers of memory and the steps of the kernel keep TransferInv; the *)
(* theorems follow from it.                                                *)
(***************************************************************************)
EXTENDS EthzDmaProofs

-----------------------------------------------------------------------------
(* Answers of the memory.                                                  *)

\* The index in the vector of what is request k once request i is erased
Old(i, k) == IF k < i THEN k ELSE k + 1

\* Erasing request i keeps the others, in their order.
LEMMA WithoutIndex ==
  ASSUME NEW rs \in Seq(DMARequests), NEW i \in 1..Len(rs)
  PROVE  /\ Len(Without(rs, i)) = Len(rs) - 1
         /\ \A k \in 1..Len(Without(rs, i)) :
              /\ Old(i, k) \in 1..Len(rs) /\ Old(i, k) # i
              /\ Without(rs, i)[k] = rs[Old(i, k)]
         /\ \A k, l \in 1..Len(Without(rs, i)) : Old(i, k) = Old(i, l) => k = l
         /\ \A m \in 1..Len(rs) : m # i => \E k \in 1..Len(Without(rs, i)) : Without(rs, i)[k] = rs[m]
<1> DEFINE w == Without(rs, i)
<1>1. /\ Len(w) = Len(rs) - 1
      /\ \A j \in 1..(i - 1) : w[j] = rs[j]
      /\ \A j \in (i + 1)..Len(rs) : w[j - 1] = rs[j]
  BY WithoutKeeps, Zenon
<1>2. Len(rs) \in Nat
  OBVIOUS
<1> HIDE DEF w
<1>3. ASSUME NEW k \in 1..Len(w)
      PROVE  Old(i, k) \in 1..Len(rs) /\ Old(i, k) # i /\ w[k] = rs[Old(i, k)]
  <2>1. CASE k < i
    BY <1>1, <1>2, <2>1 DEF Old
  <2>2. CASE ~(k < i)
    <3>1. Old(i, k) = k + 1 /\ k + 1 \in (i + 1)..Len(rs) /\ (k + 1) - 1 = k
      BY <1>1, <1>2, <2>2 DEF Old
    <3>2. w[(k + 1) - 1] = rs[k + 1]
      BY <1>1, <3>1
    <3> QED
      BY <1>2, <3>1, <3>2
  <2> QED
    BY <2>1, <2>2
<1>4. \A k, l \in 1..Len(w) : Old(i, k) = Old(i, l) => k = l
  BY <1>1, <1>2 DEF Old
<1>5. ASSUME NEW m \in 1..Len(rs), m # i PROVE \E k \in 1..Len(w) : w[k] = rs[m]
  <2>1. CASE m < i
    <3>1. m \in 1..Len(w) /\ w[m] = rs[m]
      BY <1>1, <1>2, <2>1
    <3> QED
      BY <3>1
  <2>2. CASE i < m
    <3>1. m - 1 \in 1..Len(w) /\ w[m - 1] = rs[m]
      BY <1>1, <1>2, <2>2
    <3> QED
      BY <3>1
  <2> QED
    BY <1>5, <2>1, <2>2
<1> QED
  BY <1>1, <1>3, <1>4, <1>5, Zenon DEF w

\* The packets of a request, and the addresses in flight once p is answered.
LEMMA AnswerFlight ==
  ASSUME TransferInv, NEW p \in packets, NEW y, NEW a
  PROVE  a \in InFlight(packets \ {p}, y)
           <=> a \in InFlight(packets, y) /\ ~(y = p[1] /\ a \in p[2]..p[3])
<1>1. packets \in SUBSET (Resources \X Int \X Int)
  BY DEF TransferInv, WakerInv
<1>2. p[2] <= p[3] /\ \A q \in packets : p # q /\ p[1] = q[1] => Apart(p, q)
  BY DEF TransferInv, PacketsOK
<1> QED
  BY <1>1, <1>2, FlightRemove, Zenon

\* With an answer the bytes of its packet are accounted for.
LEMMA AnswerBytes ==
  ASSUME TransferInv, NEW p \in packets, NEW i \in 1..Len(requests), Carries(requests[i], p)
  PROVE  LET r == requests[i]
             arrived == Issued(r) \ InFlight(packets \ {p}, r.res)
         IN  /\ r.completed + (p[3] - p[2] + 1) = Cardinality(arrived)
             /\ arrived \subseteq Asked(r) /\ Cardinality(arrived) <= r.expected
             /\ Cardinality(arrived) = r.expected => arrived = Asked(r)
<1> DEFINE r == requests[i]
           before == Issued(r) \ InFlight(packets, r.res)
           arrived == Issued(r) \ InFlight(packets \ {p}, r.res)
           here == p[2]..p[3]
<1>1. r \in DMARequests /\ RequestOK(r) /\ r.completed = Cardinality(before)
  <2>1. requests \in Seq(DMARequests) /\ RequestOK(r) /\ Accounted(r)
    BY Zenon DEF TransferInv, WakerInv, RequestsOK, BytesOK
  <2> QED
    BY <2>1 DEF Accounted
<1>2. /\ Issued(r) \subseteq Asked(r) /\ IsFiniteSet(Asked(r)) /\ Cardinality(Asked(r)) = r.expected
      /\ IsFiniteSet(Issued(r))
  BY <1>1, IssuedInside, Zenon
<1>3. p[2] \in Int /\ p[3] \in Int /\ p[2] <= p[3]
  BY DEF TransferInv, WakerInv, PacketsOK
<1>4. IsFiniteSet(here) /\ Cardinality(here) = p[3] - p[2] + 1
  <2>1. IsFiniteSet(here) /\ Cardinality(here) = IF p[2] > p[3] THEN 0 ELSE p[3] - p[2] + 1
    BY <1>3, FS_Interval, Zenon
  <2> QED
    BY <1>3, <2>1
<1>5. here \subseteq Issued(r) /\ p[1] = r.res
  <2>1. WakerInv
    BY DEF TransferInv
  <2> QED
    BY <1>1, <2>1, CarriedInside, Zenon DEF Carries
<1>6. here \subseteq InFlight(packets, r.res)
  BY <1>5, FlightMembers, Zenon
<1>7. ASSUME NEW a
      PROVE  a \in InFlight(packets \ {p}, r.res) <=> a \in InFlight(packets, r.res) /\ a \notin here
  BY <1>5, AnswerFlight
<1>8. arrived = before \cup here /\ before \cap here = {}
  <2> HIDE DEF here, r
  <2> QED
    BY <1>5, <1>6, <1>7, Zenon
<1>9. IsFiniteSet(before) /\ Cardinality(before) \in Int
  <2>1. IsFiniteSet(before)
    BY <1>2, FS_Difference, Zenon
  <2>2. Cardinality(before) \in Nat
    BY <2>1, FS_CardinalityType, Zenon
  <2> HIDE DEF before
  <2> QED
    BY <2>1, <2>2
<1> HIDE DEF before, arrived, here
<1>10. Cardinality(arrived) = Cardinality(before) + Cardinality(here)
  <2>1. Cardinality(before \cup here) =
          Cardinality(before) + Cardinality(here) - Cardinality(before \cap here)
    BY <1>4, <1>9, FS_Union, Zenon
  <2>2. Cardinality(before \cap here) = 0
    BY <1>8, FS_EmptySet, Zenon
  <2>3. Cardinality(here) \in Int
    BY <1>3, <1>4
  <2> QED
    BY <1>8, <1>9, <2>1, <2>2, <2>3
<1>11. arrived \subseteq Asked(r)
  BY <1>2, Zenon DEF arrived
<1>12. Cardinality(arrived) <= r.expected /\ (Cardinality(arrived) = r.expected => arrived = Asked(r))
  BY <1>2, <1>11, FS_Subset, Zenon
<1>13. r.completed + (p[3] - p[2] + 1) = Cardinality(arrived)
  BY <1>1, <1>4, <1>10, Zenon
<1> QED
  BY <1>11, <1>12, <1>13, Zenon DEF arrived

\* No assertion of handle_packet fires: the answer belongs to one request, and
\* does not bring more than that request asked for.
LEMMA AnswerAccepted ==
  ASSUME TransferInv, NEW p \in packets, HandlePacket(p)
  PROVE  \E i \in 1..Len(requests) :
           /\ Carries(requests[i], p) /\ Account(i, p[3] - p[2] + 1)
           /\ UNCHANGED <<panic, current, state, scheduled, kernelVars>>
           /\ packets' = packets \ {p}
<1>1. PICK i \in 1..Len(requests) : \E j \in 1..Len(requests[i].pieces) :
         Matches(p[2]) = {<<i, j>>} /\ Carries(requests[i], p)
  BY MatchesOne
<1>2. PICK j \in 1..Len(requests[i].pieces) : Matches(p[2]) = {<<i, j>>} /\ Carries(requests[i], p)
  BY <1>1
<1>3. Cardinality(Matches(p[2])) = 1
  BY <1>2, FS_Singleton, Zenon
<1> DEFINE ij == <<i, j>>
<1>4. ij[1] = i /\ Matches(p[2]) = {ij}
  BY <1>2
<1> HIDE DEF ij
<1>5. requests[i].completed + p[3] - p[2] + 1 <= requests[i].expected
  <2> DEFINE r == requests[i]
             n == Cardinality(Issued(r) \ InFlight(packets \ {p}, r.res))
  <2>1. r.completed + (p[3] - p[2] + 1) = n /\ n <= r.expected
    BY <1>2, AnswerBytes, Zenon
  <2>2. r \in DMARequests /\ p[2] \in Int /\ p[3] \in Int
    BY DEF TransferInv, WakerInv
  <2>3. r.completed \in Int
    BY <2>2 DEF DMARequests
  <2> HIDE DEF n, r
  <2>4. r.completed + p[3] - p[2] + 1 = r.completed + (p[3] - p[2] + 1)
    BY <2>2, <2>3
  <2> QED
    BY <2>1, <2>4, Zenon DEF r
<1>6. \A kl \in Matches(p[2]) :
        requests[kl[1]].completed + p[3] - p[2] + 1 <= requests[kl[1]].expected
  BY <1>4, <1>5, Zenon
<1>7. /\ \E kl \in Matches(p[2]) : Account(kl[1], p[3] - p[2] + 1)
      /\ UNCHANGED panic
  BY <1>3, <1>6, Zenon DEF HandlePacket
<1>8. Account(i, p[3] - p[2] + 1)
  BY <1>4, <1>7, Zenon
<1>9. UNCHANGED <<current, state, scheduled, kernelVars>> /\ packets' = packets \ {p}
  BY DEF HandlePacket
<1> QED
  BY <1>2, <1>7, <1>8, <1>9, Zenon

\* Where the engine is with a request does not depend on its bytes.
LEMMA SameProgress ==
  ASSUME NEW r, NEW x,
         x.res = r.res, x.vend = r.vend, x.expected = r.expected, x.pieces = r.pieces,
         x.vstart = r.vstart, x.issued = r.issued
  PROVE  /\ Whole(r) => Whole(x)
         /\ Settled(r) => Settled(x)
         /\ Busy(r) => Busy(x)
<1>1. First(x) = First(r) /\ Asked(x) = Asked(r) /\ Issued(x) = Issued(r)
  BY SameFields, Zenon
<1>2. Whole(r) => Whole(x)
  BY <1>1, Zenon DEF Whole
<1>3. Settled(r) => Settled(x)
  BY <1>1, <1>2, Zenon DEF Settled
<1> QED
  BY <1>1, <1>2, <1>3, Zenon DEF Busy

\* An answer that is not the last adds to the bytes of its request.
LEMMA ReceiveStep ==
  ASSUME TransferInv, NEW p \in packets, NEW i \in 1..Len(requests), Carries(requests[i], p),
         requests' = [requests EXCEPT ![i] = Receive(requests[i], p[3] - p[2] + 1)],
         UNCHANGED <<panic, current, state, status, held>>, packets' = packets \ {p}, WakerInv'
  PROVE  TransferInv'
<1> DEFINE r == requests[i]
           x == Receive(r, p[3] - p[2] + 1)
<1>1. r \in DMARequests /\ RequestOK(r) /\ p[3] - p[2] + 1 \in Int
  <2>1. requests \in Seq(DMARequests) /\ RequestOK(r) /\ p[2] \in Int /\ p[3] \in Int
    BY DEF TransferInv, WakerInv, RequestsOK
  <2> QED
    BY <2>1
<1>2. x \in DMARequests
  BY <1>1, ReceiveType
<1>3. /\ x.res = r.res /\ x.vend = r.vend /\ x.expected = r.expected /\ x.pieces = r.pieces
      /\ x.vstart = r.vstart /\ x.issued = r.issued /\ x.completed = r.completed + (p[3] - p[2] + 1)
  BY <1>1, ReceiveFields, Zenon
<1>4. requests' = [requests EXCEPT ![i] = x]
  OBVIOUS
<1> HIDE DEF x
<1>5. /\ Issued(x) = Issued(r) /\ RequestOK(x) /\ \A q : Carries(r, q) => Carries(x, q)
  BY <1>1, <1>3, SameFields, Zenon
<1>6. /\ Whole(r) => Whole(x)
      /\ Settled(r) => Settled(x)
      /\ Busy(r) => Busy(x)
  BY <1>3, SameProgress, Zenon
<1>7. /\ Len(requests') = Len(requests) /\ requests'[i] = x
      /\ \A k \in 1..Len(requests) : k # i => requests'[k] = requests[k]
      /\ \A k \in 1..Len(requests) : requests'[k].res = requests[k].res
      /\ RequestsOK' /\ DistinctOK'
      /\ \A q \in packets : \E k \in 1..Len(requests') : Carries(requests'[k], q)
  BY <1>2, <1>3, <1>4, <1>5, ReplaceStep, Zenon
<1>8. p[1] = r.res
  BY DEF Carries
<1>9. BytesOK'
  <2>1. \A k \in 1..Len(requests) : requests[k].completed =
          Cardinality(Issued(requests[k]) \ InFlight(packets, requests[k].res))
    BY DEF TransferInv, BytesOK, Accounted
  <2>2. ASSUME NEW k \in 1..Len(requests)
        PROVE  requests'[k].completed =
                 Cardinality(Issued(requests'[k]) \ InFlight(packets', requests'[k].res))
    <3>1. CASE k = i
      <4>1. r.completed + (p[3] - p[2] + 1) = Cardinality(Issued(r) \ InFlight(packets \ {p}, r.res))
        BY AnswerBytes, Zenon
      <4>2. x.completed = Cardinality(Issued(x) \ InFlight(packets', x.res))
        BY <1>3, <1>5, <4>1, Zenon
      <4> QED
        BY <1>7, <3>1, <4>2, Zenon
    <3>2. CASE k # i
      <4>1. requests[k].res # p[1]
        BY <1>8, <3>2 DEF TransferInv, DistinctOK
      <4>2. InFlight(packets \ {p}, requests[k].res) = InFlight(packets, requests[k].res)
        <5>1. \A a : a \in InFlight(packets \ {p}, requests[k].res)
                      <=> a \in InFlight(packets, requests[k].res)
          BY <4>1, AnswerFlight
        <5> QED
          BY <5>1, Zenon
      <4> QED
        BY <1>7, <2>1, <3>2, <4>2, Zenon
    <3> QED
      BY <3>1, <3>2
  <2> QED
    BY <1>7, <2>2, Zenon DEF BytesOK, Accounted
<1>10. StatusOK'
  <2>1. status \subseteq held /\ \A k \in 1..Len(requests) : requests'[k].res \in status
    BY <1>7 DEF TransferInv, StatusOK
  <2>2. status' = status /\ held' = held
    OBVIOUS
  <2> QED
    BY <1>7, <2>1, <2>2, Zenon DEF StatusOK
<1>11. EngineOK'
  <2>1. \A k \in 1..Len(requests) : /\ Whole(requests[k]) => Whole(requests'[k])
                                    /\ Settled(requests[k]) => Settled(requests'[k])
                                    /\ Busy(requests[k]) => Busy(requests'[k])
                                    /\ requests'[k].issued = requests[k].issued
    BY <1>3, <1>6, <1>7, Zenon
  <2>2. /\ 1 \in 1..Len(requests) /\ \A k \in 2..Len(requests) : k \in 1..Len(requests)
        /\ requests' # <<>> /\ requests # <<>>
    <3>1. Len(requests) \in Nat /\ requests \in Seq(DMARequests)
      BY DEF TransferInv, WakerInv
    <3> QED
      BY <1>7, <3>1
  <2> QED
    BY <1>7, <2>1, <2>2, Zenon DEF TransferInv, EngineOK
<1>12. PacketsOK'
  BY <1>7, Zenon DEF TransferInv, PacketsOK
<1>13. ~panic'
  BY DEF TransferInv
<1> QED
  BY <1>7, <1>9, <1>10, <1>11, <1>12, <1>13, Zenon DEF TransferInv

\* The last answer completes its request: all of it has been issued and nothing
\* of it is in flight any more.
LEMMA LastAnswer ==
  ASSUME TransferInv, NEW p \in packets, NEW i \in 1..Len(requests), Carries(requests[i], p),
         requests[i].completed + (p[3] - p[2] + 1) = requests[i].expected
  PROVE  /\ \A q \in packets \ {p} : q[1] # requests[i].res
         /\ ~Busy(requests[i])
<1> DEFINE r == requests[i]
           arrived == Issued(r) \ InFlight(packets \ {p}, r.res)
<1>1. arrived = Asked(r)
  BY AnswerBytes, Zenon
<1>2. r \in DMARequests /\ RequestOK(r) /\ WakerInv
  <2>1. requests \in Seq(DMARequests) /\ RequestOK(r) /\ WakerInv
    BY DEF TransferInv, WakerInv, RequestsOK
  <2> QED
    BY <2>1
<1>3. Issued(r) = Asked(r) /\ Asked(r) = First(r)..r.vend
  <2>1. Issued(r) \subseteq Asked(r) /\ Asked(r) = First(r)..r.vend
    BY <1>2, IssuedInside, Zenon
  <2> QED
    BY <1>1, <2>1, Zenon
<1>4. ASSUME NEW q \in packets \ {p}, q[1] = r.res PROVE FALSE
  <2>1. q[2] \in Int /\ q[3] \in Int /\ q[2] <= q[3]
    BY DEF TransferInv, WakerInv, PacketsOK
  <2>2. PICK k \in 1..Len(requests) : Carries(requests[k], q)
    BY DEF TransferInv, PacketsOK
  <2>3. k = i
    BY <1>4, <2>2 DEF TransferInv, DistinctOK, Carries
  <2>4. q[2] \in q[2]..q[3]
    BY <2>1
  <2>5. q[2] \in Issued(r)
    BY <1>2, <2>2, <2>3, <2>4, CarriedInside, Zenon
  <2>6. q[2] \in InFlight(packets \ {p}, r.res)
    BY <1>4, <2>4, FlightMembers
  <2> QED
    BY <1>1, <1>3, <2>5, <2>6, Zenon
<1>5. ASSUME Busy(r) PROVE FALSE
  <2>1. First(r) \in Int /\ r.vend \in Int /\ r.vstart \in Int
    BY <1>2, RequestFacts
  <2>2. First(r) <= r.vstart /\ r.vstart < r.vend /\ Issued(r) = First(r)..(r.vstart - 1)
    BY <1>5 DEF Busy
  <2>3. r.vend \in First(r)..r.vend /\ r.vend \notin First(r)..(r.vstart - 1)
    BY <2>1, <2>2
  <2> QED
    BY <1>3, <2>2, <2>3, Zenon
<1> QED
  BY <1>4, <1>5

\* It takes the request out of the vector and frees its resource.
LEMMA CompleteStep ==
  ASSUME TransferInv, NEW p \in packets, NEW i \in 1..Len(requests), Carries(requests[i], p),
         requests[i].completed + (p[3] - p[2] + 1) = requests[i].expected,
         requests' = Without(requests, i), status' = status \ {requests[i].res},
         UNCHANGED <<panic, current, state, held>>, packets' = packets \ {p}, WakerInv'
  PROVE  TransferInv'
<1> DEFINE x == requests[i].res
           n == Len(requests')
<1>1. /\ \A q \in packets \ {p} : q[1] # x
      /\ ~Busy(requests[i])
  BY LastAnswer
<1>2. requests \in Seq(DMARequests) /\ Len(requests) \in Nat /\ p[1] = x
  BY DEF TransferInv, WakerInv, Carries
<1>3. /\ n = Len(requests) - 1
      /\ \A k \in 1..n : /\ Old(i, k) \in 1..Len(requests) /\ Old(i, k) # i
                         /\ requests'[k] = requests[Old(i, k)]
      /\ \A k, l \in 1..n : Old(i, k) = Old(i, l) => k = l
      /\ \A m \in 1..Len(requests) : m # i => \E k \in 1..n : requests'[k] = requests[m]
  <2> DEFINE w == Without(requests, i)
  <2>1. /\ Len(w) = Len(requests) - 1
        /\ \A k \in 1..Len(w) : /\ Old(i, k) \in 1..Len(requests) /\ Old(i, k) # i
                                /\ w[k] = requests[Old(i, k)]
        /\ \A k, l \in 1..Len(w) : Old(i, k) = Old(i, l) => k = l
        /\ \A m \in 1..Len(requests) : m # i => \E k \in 1..Len(w) : w[k] = requests[m]
    BY <1>2, WithoutIndex, Zenon
  <2>2. requests' = w
    OBVIOUS
  <2> HIDE DEF w
  <2> QED
    BY <2>1, <2>2, Zenon
<1>4. \A k, l \in 1..Len(requests) : requests[k].res = requests[l].res => k = l
  BY DEF TransferInv, DistinctOK
<1> HIDE DEF n
<1>5. ASSUME NEW k \in 1..n PROVE requests'[k].res # x
  <2>1. Old(i, k) \in 1..Len(requests) /\ Old(i, k) # i /\ requests'[k] = requests[Old(i, k)]
    BY <1>3
  <2> QED
    BY <1>4, <2>1, Zenon
<1>6. RequestsOK'
  <2>1. \A k \in 1..n : RequestOK(requests'[k])
    BY <1>3, Zenon DEF TransferInv, RequestsOK
  <2> QED
    BY <2>1, Zenon DEF RequestsOK, n
<1>7. DistinctOK'
  <2>1. ASSUME NEW k \in 1..n, NEW l \in 1..n, requests'[k].res = requests'[l].res PROVE k = l
    <3>1. /\ Old(i, k) \in 1..Len(requests) /\ requests'[k] = requests[Old(i, k)]
          /\ Old(i, l) \in 1..Len(requests) /\ requests'[l] = requests[Old(i, l)]
          /\ Old(i, k) = Old(i, l) => k = l
      BY <1>3, Zenon
    <3> QED
      BY <1>4, <2>1, <3>1, Zenon
  <2> QED
    BY <2>1, Zenon DEF DistinctOK, n
<1>8. BytesOK'
  <2>1. \A k \in 1..Len(requests) : requests[k].completed =
          Cardinality(Issued(requests[k]) \ InFlight(packets, requests[k].res))
    BY DEF TransferInv, BytesOK, Accounted
  <2>2. ASSUME NEW y, y # x PROVE InFlight(packets \ {p}, y) = InFlight(packets, y)
    <3>1. \A a : a \in InFlight(packets \ {p}, y) <=> a \in InFlight(packets, y)
      BY <1>2, <2>2, AnswerFlight, Zenon
    <3> QED
      BY <3>1, Zenon
  <2>3. ASSUME NEW k \in 1..n
        PROVE  requests'[k].completed =
                 Cardinality(Issued(requests'[k]) \ InFlight(packets', requests'[k].res))
    <3>1. InFlight(packets', requests'[k].res) = InFlight(packets, requests'[k].res)
      BY <1>5, <2>2, Zenon
    <3>2. Old(i, k) \in 1..Len(requests) /\ requests'[k] = requests[Old(i, k)]
      BY <1>3
    <3> QED
      BY <2>1, <3>1, <3>2, Zenon
  <2> QED
    BY <2>3, Zenon DEF BytesOK, Accounted, n
<1>9. StatusOK'
  <2>1. \A k \in 1..n : requests'[k].res \in status
    BY <1>3, Zenon DEF TransferInv, StatusOK
  <2>2. status' \subseteq held'
    BY DEF TransferInv, StatusOK
  <2> QED
    BY <1>5, <2>1, <2>2, Zenon DEF StatusOK, n
<1>10. \A k \in 2..Len(requests) : Whole(requests[k])
  BY DEF TransferInv, EngineOK
<1>11. ASSUME NEW k \in 2..n PROVE Whole(requests'[k])
  <2>1. Old(i, k) \in 2..Len(requests) /\ k \in 1..n
    BY <1>2, <1>3 DEF Old
  <2> QED
    BY <1>3, <1>10, <2>1, Zenon
<1>12. EngineOK'
  <2>1. CASE i = 1
    <3>1. state = "IDLE"
      BY <1>1, <2>1 DEF TransferInv, EngineOK
    <3>2. ASSUME requests' # <<>> PROVE Settled(requests'[1])
      <4>1. 1 \in 1..n
        BY <1>2, <1>3, <3>2 DEF n
      <4>2. Old(i, 1) = 2 /\ 2 \in 2..Len(requests)
        BY <1>2, <1>3, <2>1, <4>1 DEF Old
      <4>3. requests'[1] = requests[2]
        BY <1>3, <4>1, <4>2, Zenon
      <4> QED
        BY <1>10, <4>2, <4>3, Zenon DEF Settled
    <3> QED
      BY <1>11, <3>1, <3>2, Zenon DEF EngineOK, n
  <2>2. CASE i # 1
    <3>1. 1 \in 1..n /\ Old(i, 1) = 1
      BY <1>2, <1>3, <2>2 DEF Old
    <3>2. requests'[1] = requests[1]
      BY <1>3, <3>1, Zenon
    <3>3. requests # <<>> /\ requests' # <<>>
      BY <1>2, <3>1 DEF n
    <3>4. state' = state /\ current' = current
      OBVIOUS
    <3> QED
      BY <1>11, <3>2, <3>3, <3>4, Zenon DEF TransferInv, EngineOK, n
  <2> QED
    BY <2>1, <2>2
<1>13. PacketsOK'
  <2>1. ASSUME NEW q \in packets \ {p} PROVE \E k \in 1..n : Carries(requests'[k], q)
    <3>1. PICK m \in 1..Len(requests) : Carries(requests[m], q)
      BY Zenon DEF TransferInv, PacketsOK
    <3>2. m # i
      BY <1>1, <3>1, Zenon DEF Carries
    <3> QED
      BY <1>3, <3>1, <3>2, Zenon
  <2> QED
    BY <2>1, Zenon DEF TransferInv, PacketsOK, n
<1>14. ~panic'
  BY DEF TransferInv
<1> QED
  BY <1>6, <1>7, <1>8, <1>9, <1>12, <1>13, <1>14, Zenon DEF TransferInv

\* Every answer keeps the invariant.
LEMMA HandlePacketStep ==
  ASSUME TransferInv, NEW p \in packets, HandlePacket(p)
  PROVE  TransferInv'
<1>1. PICK i \in 1..Len(requests) :
         /\ Carries(requests[i], p) /\ Account(i, p[3] - p[2] + 1)
         /\ UNCHANGED <<panic, current, state, scheduled, kernelVars>>
         /\ packets' = packets \ {p}
  BY AnswerAccepted
<1>2. WakerInv'
  BY WakerHandlePacket DEF TransferInv
<1>3. UNCHANGED <<panic, current, state, held>>
  BY <1>1 DEF kernelVars
<1>4. CASE requests[i].completed + (p[3] - p[2] + 1) = requests[i].expected
  <2>1. requests' = Without(requests, i) /\ status' = status \ {requests[i].res}
    BY <1>1, <1>4, Zenon DEF Account, Complete
  <2> QED
    BY <1>1, <1>2, <1>3, <1>4, <2>1, CompleteStep
<1>5. CASE requests[i].completed + (p[3] - p[2] + 1) # requests[i].expected
  <2>1. /\ requests' = [requests EXCEPT ![i] = Receive(requests[i], p[3] - p[2] + 1)]
        /\ status' = status
    BY <1>1, <1>5 DEF Account
  <2> QED
    BY <1>1, <1>2, <1>3, <2>1, ReceiveStep, Zenon
<1> QED
  BY <1>4, <1>5

-----------------------------------------------------------------------------
(* The kernel, on a core that is slower than the engine.                   *)

\* A new request covers the transfer it was made for.
LEMMA NewRequestFacts ==
  ASSUME NEW r \in Resources, NEW t \in Transfers[r]
  PROVE  LET x == NewRequest(r, t[1], t[2])
         IN  /\ x \in DMARequests /\ x.res = r /\ RequestOK(x) /\ Settled(x)
             /\ x.completed = 0 /\ Issued(x) = {}
<1> DEFINE x == NewRequest(r, t[1], t[2])
<1>1. t \in Nat \X (Nat \ {0})
  BY TransfersAssumption
<1>2. x \in DMARequests /\ x.res = r
  BY <1>1, NewRequestType
<1>3. /\ x.vstart = t[1] /\ x.vend = t[1] + t[2] - 1 /\ x.pieces = <<>> /\ x.expected = t[2]
      /\ x.completed = 0 /\ x.issued = FALSE
  BY DEF NewRequest
<1> HIDE DEF x
<1>4. First(x) = t[1]
  BY <1>1, <1>3 DEF First
<1>5. <<First(x), x.expected>> = t
  BY <1>1, <1>3, <1>4
<1>6. Len(x.pieces) = 0 /\ 1..Len(x.pieces) = {}
  BY <1>3
<1>7. RequestOK(x)
  BY <1>2, <1>5, <1>6 DEF RequestOK
<1>8. Issued(x) = {}
  BY <1>6 DEF Issued
<1>9. Settled(x)
  BY <1>3, <1>4 DEF Settled
<1> QED
  BY <1>2, <1>3, <1>7, <1>8, <1>9, Zenon DEF x

\* DMA_REQUEST finds its resource free and the engine done with the requests
\* before, so the new request is the only one to be issued.
LEMMA DmaRequestStep ==
  ASSUME SlowCore, TransferInv, NEW r \in Resources, NEW t \in Transfers[r],
         DmaRequest(r, t[1], t[2]), WakerInv'
  PROVE  TransferInv'
<1> DEFINE x == NewRequest(r, t[1], t[2])
<1>1. /\ x \in DMARequests /\ x.res = r /\ RequestOK(x) /\ Settled(x)
      /\ x.completed = 0 /\ Issued(x) = {}
  BY NewRequestFacts, Zenon
<1>2. requests' = <<x>> \o requests
  BY DEF DmaRequest
<1> HIDE DEF x
<1>3. /\ r \notin held /\ held' = held \cup {r} /\ panic' = (r \in status) /\ status' = status \cup {r}
      /\ packets' = packets /\ state = "IDLE" /\ \A i \in 1..Len(requests) : requests[i].issued
  BY DEF DmaRequest
<1>4. requests \in Seq(DMARequests) /\ Len(requests) \in Nat
  BY DEF TransferInv, WakerInv
<1>5. /\ requests' \in Seq(DMARequests) /\ Len(requests') = Len(requests) + 1 /\ requests'[1] = x
      /\ \A i \in 1..Len(requests) : requests'[i + 1] = requests[i]
  BY <1>1, <1>2, <1>4
<1>6. ASSUME NEW k \in 1..Len(requests')
      PROVE  \/ k = 1
             \/ k # 1 /\ k - 1 \in 1..Len(requests) /\ requests'[k] = requests[k - 1]
  <2>1. CASE k = 1
    BY <2>1
  <2>2. CASE k # 1
    <3>1. k - 1 \in 1..Len(requests) /\ (k - 1) + 1 = k
      BY <1>4, <1>5, <2>2
    <3>2. requests'[(k - 1) + 1] = requests[k - 1]
      BY <1>5, <3>1, Zenon
    <3> QED
      BY <2>2, <3>1, <3>2
  <2> QED
    BY <2>1, <2>2
<1>7. r \notin status /\ status' \subseteq held' /\ ~panic'
      /\ \A i \in 1..Len(requests) : requests[i].res \in status
  BY <1>3, Zenon DEF TransferInv, StatusOK
<1>8. RequestsOK'
  <2>1. \A k \in 1..Len(requests') : RequestOK(requests'[k])
    BY <1>1, <1>5, <1>6, Zenon DEF TransferInv, RequestsOK
  <2> QED
    BY <2>1, Zenon DEF RequestsOK
<1>9. DistinctOK'
  <2>1. ASSUME NEW k \in 1..Len(requests'), NEW l \in 1..Len(requests'),
               requests'[k].res = requests'[l].res
        PROVE  k = l
    <3>1. ASSUME NEW m \in 1..Len(requests'), m # 1 PROVE requests'[m].res # r
      <4>1. m - 1 \in 1..Len(requests) /\ requests'[m] = requests[m - 1]
        BY <1>6, <3>1, Zenon
      <4>2. requests[m - 1].res \in status
        BY <1>7, <4>1, Zenon
      <4> QED
        BY <1>7, <4>1, <4>2, Zenon
    <3>2. CASE k # 1 /\ l # 1
      <4>1. /\ k - 1 \in 1..Len(requests) /\ requests'[k] = requests[k - 1]
            /\ l - 1 \in 1..Len(requests) /\ requests'[l] = requests[l - 1]
        BY <1>6, <3>2, Zenon
      <4>2. k - 1 = l - 1
        BY <2>1, <4>1, Zenon DEF TransferInv, DistinctOK
      <4> QED
        BY <4>2
    <3>3. requests'[1].res = r
      BY <1>1, <1>5, Zenon
    <3> QED
      BY <2>1, <3>1, <3>2, <3>3, Zenon
  <2> QED
    BY <2>1, Zenon DEF DistinctOK
<1>10. BytesOK'
  <2>1. x.completed = Cardinality(Issued(x) \ InFlight(packets', x.res))
    <3>1. Issued(x) \ InFlight(packets', x.res) = {}
      BY <1>1, Zenon
    <3> QED
      BY <1>1, <3>1, FS_EmptySet, Zenon
  <2>2. \A k \in 1..Len(requests') :
          requests'[k].completed = Cardinality(Issued(requests'[k]) \ InFlight(packets', requests'[k].res))
    <3>1. \A i \in 1..Len(requests) : requests[i].completed =
            Cardinality(Issued(requests[i]) \ InFlight(packets', requests[i].res))
      BY <1>3, Zenon DEF TransferInv, BytesOK, Accounted
    <3> SUFFICES ASSUME NEW k \in 1..Len(requests')
                 PROVE  requests'[k].completed =
                          Cardinality(Issued(requests'[k]) \ InFlight(packets', requests'[k].res))
      OBVIOUS
    <3>2. CASE k = 1
      BY <1>5, <2>1, <3>2, Zenon
    <3>3. CASE k # 1
      <4>1. k - 1 \in 1..Len(requests) /\ requests'[k] = requests[k - 1]
        BY <1>6, <3>3, Zenon
      <4> QED
        BY <3>1, <4>1, Zenon
    <3> QED
      BY <3>2, <3>3
  <2> QED
    BY <2>2, Zenon DEF BytesOK, Accounted
<1>11. StatusOK'
  <2>1. \A k \in 1..Len(requests') : requests'[k].res \in status'
    <3> SUFFICES ASSUME NEW k \in 1..Len(requests') PROVE requests'[k].res \in status'
      OBVIOUS
    <3>1. CASE k = 1
      BY <1>1, <1>3, <1>5, <3>1, Zenon
    <3>2. CASE k # 1
      <4>1. k - 1 \in 1..Len(requests) /\ requests'[k] = requests[k - 1]
        BY <1>6, <3>2, Zenon
      <4>2. requests[k - 1].res \in status
        BY <1>7, <4>1, Zenon
      <4> QED
        BY <1>3, <4>1, <4>2, Zenon
    <3> QED
      BY <3>1, <3>2
  <2> QED
    BY <1>7, <2>1, Zenon DEF StatusOK
<1>12. ASSUME NEW i \in 1..Len(requests) PROVE Whole(requests[i])
  <2>1. CASE i = 1
    <3>1. requests # <<>>
      BY <1>4
    <3>2. Settled(requests[1])
      BY <1>3, <3>1 DEF TransferInv, EngineOK
    <3> QED
      BY <1>3, <2>1, <3>2, Zenon DEF Settled
  <2>2. CASE i # 1
    <3>1. i \in 2..Len(requests)
      BY <2>2
    <3> QED
      BY <3>1 DEF TransferInv, EngineOK
  <2> QED
    BY <2>1, <2>2
<1>13. \A k \in 2..Len(requests') : Whole(requests'[k])
  <2> SUFFICES ASSUME NEW k \in 2..Len(requests') PROVE Whole(requests'[k])
    OBVIOUS
  <2>1. k \in 1..Len(requests') /\ k # 1
    OBVIOUS
  <2> QED
    BY <1>6, <1>12, <2>1, Zenon
<1>14. requests' # <<>>
  BY <1>4, <1>5
<1>15. EngineOK'
  <2>1. CASE scheduled
    <3>1. state' = "IDLE"
      BY <1>3, <2>1 DEF DmaRequest
    <3> QED
      BY <1>1, <1>5, <1>13, <3>1, Zenon DEF EngineOK
  <2>2. CASE ~scheduled
    <3>1. Select(requests')
      BY <2>2 DEF DmaRequest
    <3>2. \/ state' = "IDLE"
          \/ state' = "TLBREFILL" /\ current' = 0 /\ Busy(requests'[1])
      BY <1>1, <1>5, <1>13, <1>14, <3>1, SelectFirst, Zenon
    <3> QED
      BY <1>1, <1>5, <1>13, <1>14, <3>2, Zenon DEF EngineOK
  <2> QED
    BY <2>1, <2>2
<1>16. PacketsOK'
  <2>1. ASSUME NEW p \in packets PROVE \E k \in 1..Len(requests') : Carries(requests'[k], p)
    <3>1. PICK i \in 1..Len(requests) : Carries(requests[i], p)
      BY DEF TransferInv, PacketsOK
    <3>2. i + 1 \in 1..Len(requests') /\ requests'[i + 1] = requests[i]
      BY <1>4, <1>5
    <3> QED
      BY <3>1, <3>2, Zenon
  <2> QED
    BY <1>3, <2>1, Zenon DEF TransferInv, PacketsOK
<1> QED
  BY <1>7, <1>8, <1>9, <1>10, <1>11, <1>15, <1>16, Zenon DEF TransferInv

\* Every step of the kernel keeps the invariant.
LEMMA KernelStep ==
  ASSUME SlowCore, TransferInv, Kernel
  PROVE  TransferInv'
<1>1. WakerInv'
  BY WakerKernel DEF TransferInv
<1>2. ASSUME NEW r \in Resources, NEW t \in Transfers[r], DmaRequest(r, t[1], t[2])
      PROVE  TransferInv'
  BY <1>1, <1>2, DmaRequestStep
<1>3. ASSUME UNCHANGED dmaVars, status \subseteq held'
      PROVE  TransferInv'
  <2>1. /\ requests' = requests /\ packets' = packets /\ status' = status /\ state' = state
        /\ current' = current /\ panic' = panic
    BY <1>3 DEF dmaVars
  <2>2. RequestsOK' /\ BytesOK' /\ DistinctOK' /\ PacketsOK'
    BY <2>1, QuietStep
  <2>3. StatusOK'
    BY <1>3, <2>1, Zenon DEF TransferInv, StatusOK
  <2>4. EngineOK'
    BY <2>1, Zenon DEF TransferInv, EngineOK
  <2> QED
    BY <1>1, <2>1, <2>2, <2>3, <2>4, Zenon DEF TransferInv
<1>4. status \subseteq held
  BY DEF TransferInv, StatusOK
<1>5. ASSUME NEW r \in Resources, DmaWait(r) PROVE TransferInv'
  BY <1>3, <1>4, <1>5 DEF DmaWait
<1>6. CASE TestStatus
  <2>1. UNCHANGED dmaVars /\ (held' = held \/ (waitFor \notin status /\ held' = held \ {waitFor}))
    BY <1>6 DEF TestStatus
  <2>2. status \subseteq held'
    BY <1>4, <2>1
  <2> QED
    BY <1>3, <2>1, <2>2
<1>7. CASE Wfi \/ ClearInterrupt
  BY <1>3, <1>4, <1>7 DEF Wfi, ClearInterrupt, kernelVars
<1> QED
  BY <1>2, <1>5, <1>6, <1>7 DEF Kernel

-----------------------------------------------------------------------------
(* What follows for a slow core.                                           *)

\* The engine starts without a request.
LEMMA TransferInit == Init => TransferInv
<1> SUFFICES ASSUME Init PROVE TransferInv
  OBVIOUS
<1>1. WakerInv
  BY WakerInit
<1>2. requests = <<>> /\ packets = {} /\ status = {} /\ state = "IDLE" /\ ~panic /\ Len(requests) = 0
  BY DEF Init
<1>3. 1..Len(requests) = {} /\ 2..Len(requests) = {}
  BY <1>2
<1> QED
  BY <1>1, <1>2, <1>3 DEF TransferInv, RequestsOK, BytesOK, DistinctOK, StatusOK, EngineOK, PacketsOK

\* TransferInv is an invariant of the engine with a slow core.
THEOREM TransferInvariance == SlowCore => (Spec => []TransferInv)
<1> SUFFICES ASSUME SlowCore PROVE Spec => []TransferInv
  OBVIOUS
<1>1. TransferInv /\ [Next]_vars => TransferInv'
  <2> SUFFICES ASSUME TransferInv, [Next]_vars PROVE TransferInv'
    OBVIOUS
  <2>1. CASE UNCHANGED vars
    <3>1. /\ requests' = requests /\ packets' = packets /\ status' = status /\ state' = state
          /\ current' = current /\ panic' = panic /\ held' = held
      BY <2>1 DEF vars, dmaVars, kernelVars
    <3>2. RequestsOK' /\ BytesOK' /\ DistinctOK' /\ PacketsOK'
      BY <3>1, QuietStep
    <3>3. WakerInv'
      BY <2>1 DEF vars, dmaVars, TransferInv, WakerInv
    <3>4. StatusOK' /\ EngineOK'
      BY <3>1, Zenon DEF TransferInv, StatusOK, EngineOK
    <3> QED
      BY <3>1, <3>2, <3>3, <3>4, Zenon DEF TransferInv
  <2>2. CASE NextState
    BY <2>2, NextStateStep
  <2>3. CASE \E p \in packets : HandlePacket(p)
    BY <2>3, HandlePacketStep
  <2>4. CASE Kernel
    BY <2>4, KernelStep
  <2> QED
    BY <2>1, <2>2, <2>3, <2>4 DEF Next, Finished
<1> QED
  BY <1>1, TransferInit, PTL DEF Spec

\* With a slow core none of the assertions of nextState, initiate_read and
\* handle_packet fires, whatever the transfers, the slices and the lines are.
THEOREM NoPanicHolds == SlowCore => (Spec => []NoPanic)
<1>1. TransferInv => NoPanic
  BY DEF TransferInv, NoPanic
<1> QED
  BY <1>1, TransferInvariance, PTL

\* With a slow core PIM_DMA_STATUS shows exactly the resources of the requests
\* in the vector, one for each.
THEOREM StatusIsAccurateHolds == SlowCore => (Spec => []StatusIsAccurate)
<1>1. TransferInv => StatusIsAccurate
  <2> SUFFICES ASSUME TransferInv PROVE StatusIsAccurate
    OBVIOUS
  <2> DEFINE f == [i \in 1..Len(requests) |-> requests[i].res]
  <2>1. status = {requests[i].res : i \in 1..Len(requests)}
    <3>1. \A r \in status : \E i \in 1..Len(requests) : requests[i].res = r
      BY Zenon DEF TransferInv, WakerInv
    <3>2. \A i \in 1..Len(requests) : requests[i].res \in status
      BY Zenon DEF TransferInv, StatusOK
    <3> QED
      BY <3>1, <3>2
  <2>2. f \in [1..Len(requests) -> status]
    <3>1. \A i \in 1..Len(requests) : requests[i].res \in status
      BY Zenon DEF TransferInv, StatusOK
    <3> QED
      BY <3>1, Zenon
  <2>3. f \in Surjection(1..Len(requests), status)
    <3>1. \A r \in status : \E i \in 1..Len(requests) : f[i] = r
      BY <2>1
    <3> QED
      BY <2>2, <3>1, Zenon DEF Surjection
  <2>4. f \in Injection(1..Len(requests), status)
    <3>1. \A i, j \in 1..Len(requests) : f[i] = f[j] => i = j
      BY DEF TransferInv, DistinctOK
    <3> QED
      BY <2>2, <3>1, Zenon DEF Injection, IsInjective
  <2> HIDE DEF f
  <2>5. Len(requests) \in Nat
    BY DEF TransferInv, WakerInv
  <2>6. IsFiniteSet(1..Len(requests)) /\ Cardinality(1..Len(requests)) = Len(requests)
    <3>1. 1 \in Int /\ Len(requests) \in Int
      BY <2>5
    <3>2. /\ IsFiniteSet(1..Len(requests))
          /\ Cardinality(1..Len(requests)) = IF 1 > Len(requests) THEN 0 ELSE Len(requests) - 1 + 1
      BY <3>1, FS_Interval, Zenon
    <3> QED
      BY <2>5, <3>2
  <2>7. Cardinality(status) = Cardinality(1..Len(requests))
    BY <2>3, <2>4, <2>6, FS_Surjection, Zenon
  <2> QED
    BY <2>1, <2>6, <2>7, Zenon DEF StatusIsAccurate
<1> QED
  BY <1>1, TransferInvariance, PTL

\* With a slow core the engine leaves an issued request only when its pieces
\* are exactly the range it was made for.
THEOREM NoneAbandonedHolds == SlowCore => (Spec => []NoneAbandoned)
<1>1. TransferInv => NoneAbandoned
  <2> SUFFICES ASSUME TransferInv, NEW i \in 1..Len(requests), requests[i].issued,
                      state = "IDLE" \/ current # i - 1
               PROVE  Issued(requests[i]) = Asked(requests[i])
    BY Zenon DEF NoneAbandoned
  <2>1. CASE i = 1
    <3>1. requests # <<>>
      BY DEF TransferInv, WakerInv
    <3>2. state = "IDLE"
      BY <2>1 DEF TransferInv, EngineOK
    <3>3. Settled(requests[1])
      BY <3>1, <3>2, Zenon DEF TransferInv, EngineOK
    <3> QED
      BY <2>1, <3>3, Zenon DEF Settled, Whole
  <2>2. CASE i # 1
    <3>1. i \in 2..Len(requests)
      BY <2>2
    <3> QED
      BY <3>1, Zenon DEF TransferInv, EngineOK, Whole
  <2> QED
    BY <2>1, <2>2
<1> QED
  BY <1>1, TransferInvariance, PTL

\* With a slow core DMA_WAIT returns only when no packet of the transfer is
\* outstanding.
THEOREM WaitMeansDoneHolds == SlowCore => (Spec => []WaitMeansDone)
<1>1. TransferInv => WaitMeansDone
  <2> SUFFICES ASSUME TransferInv, NEW r \in Resources \ held
               PROVE  r \notin status /\ \A p \in packets : p[1] # r
    BY Zenon DEF WaitMeansDone
  <2>1. r \notin status
    BY DEF TransferInv, StatusOK
  <2>2. ASSUME NEW p \in packets PROVE p[1] \in status
    <3>1. PICK i \in 1..Len(requests) : Carries(requests[i], p)
      BY DEF TransferInv, PacketsOK
    <3> QED
      BY <3>1, Zenon DEF Carries, TransferInv, StatusOK
  <2> QED
    BY <2>1, <2>2, Zenon
<1> QED
  BY <1>1, TransferInvariance, PTL

=============================================================================
