------------------------------ MODULE SmcLinks ------------------------------
(***************************************************************************)
(* The way of a request from the host to the memory cube: the buffer of    *)
(* the SMC controller, the LoadDistributor (load_distributor.cc on the     *)
(* layers of xbar.cc) and the serial links, which are bridges (bridge.cc). *)
(* A receiver may refuse a packet and must then tell the sender to retry.  *)
(* A retry is a call: the sender tries again before the call returns, and  *)
(* the round-robin counter sends this attempt to the next link.            *)
(*                                                                         *)
(* The layers are released on the edges of the distributor's clock, and    *)
(* events of one tick fire last scheduled first (eventq.cc).  The links    *)
(* and the source have clocks of their own: they call at any time.  The    *)
(* crossbar behind the links accepts requests and answers them when it     *)
(* likes; a refusal there has no effect but delay.                         *)
(***************************************************************************)
EXTENDS Integers, Sequences, FiniteSets

CONSTANTS
    NLinks,      \* N_MASTER_PORTS
    NPackets,    \* requests that the host sends
    Posted,      \* packets that need no response (write-backs)
    ReqLimit,    \* reqQueueLimit of a link
    RespLimit,   \* respQueueLimit of a link
    Header,      \* headerCycles
    Data         \* dataCycles of a packet with data

LimitsAssumption ==
    /\ Header \in Nat \ {0} /\ Data \in Nat /\ NPackets \in Nat
    /\ NLinks \in Nat \ {0} /\ ReqLimit \in Nat \ {0} /\ RespLimit \in Nat \ {0}

Links   == 0..(NLinks - 1)
Packets == 1..NPackets

VARIABLES
    d,        \* the state that a retry call may change, see Init
    resp,     \* resp[i]: the responses in transmitList of link i's slave port
    blocked,  \* links whose response was refused
    respBusy, \* the state of respLayers[0]: BUSY
    respWait, \* its waitingForLayer
    memory,   \* <<packet, link>> being served behind the links
    done      \* history: packets whose response, if any, is back

vars == <<d, resp, blocked, respBusy, respWait, memory, done>>

Init ==
    /\ d = [queue   |-> [p \in Packets |-> p],  \* transmitList of the controller's buffer
            refused |-> FALSE,                  \* its head was refused: it waits for a retry
            counter |-> 0,                      \* ROUND_ROBIN_COUNTER
            state   |-> [i \in Links |-> "IDLE"],  \* of reqLayers[i]
            left    |-> [i \in Links |-> 0],    \* clock edges to its release
            events  |-> <<>>,                   \* scheduled releases, last scheduled first
            waiting |-> [i \in Links |-> 0],    \* length of waitingForLayer: the one source
            peer    |-> [i \in Links |-> FALSE],   \* waitingForPeer # NULL
            req     |-> [i \in Links |-> <<>>], \* transmitList of link i's master port
            out     |-> [i \in Links |-> 0],    \* outstandingResponses of link i
            retry   |-> [i \in Links |-> FALSE],   \* retryReq of link i
            failed  |-> FALSE]                  \* an assertion has failed
    /\ resp = [i \in Links |-> <<>>] /\ blocked = {}
    /\ respBusy = FALSE /\ respWait = <<>>
    /\ memory = {} /\ done = {}

-----------------------------------------------------------------------------
(* Requests.  The operators return the state after a call.                 *)

\* Bridge recvTimingReq of link i: is the packet at the head accepted?
HasSpace(s, i) ==
    /\ Len(s.req[i]) # ReqLimit
    /\ Head(s.queue) \in Posted \/ s.out[i] # RespLimit

Rotate(s) == [s EXCEPT !.counter = (s.counter + 1) % NLinks]

\* FAULT (not the code): events of one tick fire first scheduled first.
Occupy_Fifo(s, i, n) ==
    [s EXCEPT !.state[i] = "BUSY", !.left[i] = n, !.events = Append(@, i)]

\* occupyLayer, for n cycles; insert puts an event on top of its bin
Occupy(s, i, n) ==
    [s EXCEPT !.state[i] = "BUSY", !.left[i] = n, !.events = <<i>> \o @]

\* calcPacketTiming: write-backs carry data
Cycles(p) == Header + (IF p \in Posted THEN Data ELSE 0)

\* tryTiming accepts when the layer is idle, or retries this source.
Free(s, i) == s.state[i] # "BUSY" /\ ~s.peer[i]

\* trySendTiming of the controller's buffer, LoadDistributor::recvTimingReq
\* and recvTimingReq of the link; the next clock edge is off edges away
Attempt(s, off) ==
    LET i == s.counter
        p == Head(s.queue)
        r == Rotate(s)
    IN  IF ~Free(s, i)
          THEN [r EXCEPT !.refused = TRUE, !.waiting[i] = @ + 1, !.failed = @ \/ s.waiting[i] > 0]
        ELSE IF HasSpace(s, i)
          THEN [Occupy(r, i, Cycles(p) + off) EXCEPT
                    !.refused = FALSE, !.queue = Tail(@), !.req[i] = Append(@, p),
                    !.out[i] = IF p \in Posted THEN @ ELSE @ + 1, !.failed = @ \/ s.retry[i]]
        ELSE [Occupy(r, i, Header + off) EXCEPT
                    !.refused = TRUE, !.peer[i] = TRUE, !.retry[i] = TRUE,
                    !.failed = @ \/ s.retry[i] \/ s.peer[i]]

\* FAULT (not the code): the source stays in the list while it retries.
RetryWaiting_Stays(s, i, off) ==
    LET r == Attempt([s EXCEPT !.state[i] = "RETRY"], off)
    IN  IF r.state[i] = "RETRY" THEN Occupy(r, i, 1 + off) ELSE r

\* retryWaiting of an idle layer: when the attempt went elsewhere the layer
\* is occupied for a cycle.
RetryWaiting(s, i, off) ==
    LET r == Attempt([s EXCEPT !.state[i] = "RETRY", !.waiting[i] = @ - 1], off)
    IN  IF r.state[i] = "RETRY" THEN Occupy(r, i, 1 + off) ELSE r

\* recvRetry of layer i, called by link i
RecvRetry(s, i, off) ==
    LET r == [s EXCEPT !.waiting[i] = @ + 1, !.peer[i] = FALSE, !.failed = @ \/ ~s.peer[i]]
    IN  IF s.state[i] = "IDLE" THEN RetryWaiting(r, i, off) ELSE r

\* retryStalledReq
RetryStalled(s, i, off) ==
    IF s.retry[i] THEN RecvRetry([s EXCEPT !.retry[i] = FALSE], i, off) ELSE s

\* The send event of the controller's buffer
SourceSend(off) ==
    /\ d.queue # <<>> /\ ~d.refused
    /\ d' = Attempt(d, off)
    /\ UNCHANGED <<resp, blocked, respBusy, respWait, memory, done>>

Due(i) == d.state[i] = "BUSY" /\ d.left[i] = 0

\* The next edge of the distributor's clock
Edge ==
    /\ d.events # <<>> /\ \A i \in Links : ~Due(i)
    /\ d' = [d EXCEPT !.left = [i \in Links |-> IF d.state[i] = "BUSY" THEN @[i] - 1 ELSE 0]]
    /\ UNCHANGED <<resp, blocked, respBusy, respWait, memory, done>>

\* releaseLayer, when its event is the first that is due
Release(i) ==
    /\ Due(i) /\ SelectSeq(d.events, Due)[1] = i
    /\ LET other(j) == j # i
           s == [d EXCEPT !.state[i] = "IDLE", !.events = SelectSeq(@, other)]
       IN  d' = IF s.waiting[i] > 0 /\ ~s.peer[i] THEN RetryWaiting(s, i, 0) ELSE s
    /\ UNCHANGED <<resp, blocked, respBusy, respWait, memory, done>>

\* trySendTiming of the link's master port, when the crossbar accepts
LinkSend(i, off) ==
    /\ d.req[i] # <<>>
    /\ LET p == Head(d.req[i])
       IN  /\ memory' = IF p \in Posted THEN memory ELSE memory \cup {<<p, i>>}
           /\ done' = IF p \in Posted THEN done \cup {p} ELSE done
    /\ d' = RetryStalled([d EXCEPT !.req[i] = Tail(@)], i, off)
    /\ UNCHANGED <<resp, blocked, respBusy, respWait>>

-----------------------------------------------------------------------------
(* Responses.                                                              *)

\* recvTimingResp of the link
MemoryAnswer(m) ==
    /\ memory' = memory \ {m}
    /\ resp' = [resp EXCEPT ![m[2]] = Append(@, m[1])]
    /\ UNCHANGED <<d, blocked, respBusy, respWait, done>>

\* trySendTiming of the link's slave port, when the response layer is free
Respond(i, off) ==
    /\ done' = done \cup {Head(resp[i])}
    /\ resp' = [resp EXCEPT ![i] = Tail(@)]
    /\ LET s == [d EXCEPT !.out[i] = @ - 1]
       IN  d' = IF Len(s.req[i]) # ReqLimit THEN RetryStalled(s, i, off) ELSE s

LinkRespond(i, off) ==
    /\ resp[i] # <<>> /\ i \notin blocked
    /\ IF respBusy
         THEN /\ blocked' = blocked \cup {i} /\ respWait' = Append(respWait, i)
              /\ UNCHANGED <<d, resp, respBusy, done>>
         ELSE Respond(i, off) /\ respBusy' = TRUE /\ UNCHANGED <<blocked, respWait>>
    /\ UNCHANGED memory

\* releaseLayer of the response layer: the first link that waits sends.
ReleaseResponses(off) ==
    /\ respBusy
    /\ IF respWait = <<>>
         THEN respBusy' = FALSE /\ UNCHANGED <<d, resp, blocked, respWait, done>>
         ELSE /\ Respond(Head(respWait), off)
              /\ blocked' = blocked \ {Head(respWait)} /\ respWait' = Tail(respWait)
              /\ UNCHANGED respBusy
    /\ UNCHANGED memory

Finished == done = Packets /\ ~respBusy /\ (\A i \in Links : d.state[i] = "IDLE") /\ UNCHANGED vars

Next ==
    \/ Edge
    \/ \E off \in {0, 1} :
          \/ SourceSend(off) \/ ReleaseResponses(off)
          \/ \E i \in Links : LinkSend(i, off) \/ LinkRespond(i, off)
    \/ \E i \in Links : Release(i)
    \/ \E m \in memory : MemoryAnswer(m)
    \/ Finished

Spec == Init /\ [][Next]_vars

\* The clock runs, scheduled events fire, and the crossbar accepts and
\* answers every request.
FairSpec ==
    /\ Spec
    /\ WF_vars(Edge)
    /\ WF_vars(\E off \in {0, 1} : SourceSend(off))
    /\ WF_vars(\E off \in {0, 1} : ReleaseResponses(off))
    /\ \A i \in Links :
          /\ WF_vars(Release(i))
          /\ WF_vars(\E off \in {0, 1} : LinkSend(i, off))
          /\ WF_vars(\E off \in {0, 1} : LinkRespond(i, off))
    /\ WF_vars(\E m \in memory : MemoryAnswer(m))

-----------------------------------------------------------------------------
\* No assertion of tryTiming, failedTiming, recvRetry and of the link's
\* recvTimingReq fails: "we should not see a timing request if we are already
\* in a retry" holds although a retried packet goes to another link.
NoAssertionFails == ~d.failed

\* A source that was refused is registered with exactly one layer, and a
\* source that was not with none: nobody waits for a retry that cannot come,
\* and nobody is retried for a packet that another link has taken.
RefusedIsRegistered ==
    LET at(i) == d.waiting[i] + (IF d.peer[i] THEN 1 ELSE 0)
    IN  /\ \A i \in Links : at(i) <= 1 /\ (at(i) = 1 => d.refused)
        /\ d.refused => Cardinality({i \in Links : at(i) = 1}) = 1
        /\ \A i \in Links : d.retry[i] <=> d.peer[i]

\* "we are guaranteed to have space for the response" (bridge.cc): a link has
\* room for every response on its way back.
ResponsesFit ==
    \A i \in Links : Len(resp[i]) + Cardinality({m \in memory : m[2] = i}) <= RespLimit

\* Every request of the host is served, whichever links refuse it.
AllServed == <>(done = Packets)
=============================================================================
