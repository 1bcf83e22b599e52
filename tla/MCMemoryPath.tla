----------------------------- MODULE MCMemoryPath -----------------------------
(* The ways from a core to memory: the TLB of the PIM core, the serial links *)
(* of the host, and the DMA engine below a kernel that the host has called.  *)
(* One of them is chosen in the initial state: app names it, and the         *)
(* variables of the others are absent.                                       *)
EXTENDS Integers, Sequences

VARIABLES app, tlb, core, pkt, owed, inflight, queued, dma, panic, answer, d, resp, blocked, respBusy,
          respWait, memory, done, status, command, intr, pimPc, hostPc, error, request, started, executed,
          requests, current, state, scheduled, busy, packets, pc, waitFor, held, count, late

vars == <<app, tlb, core, pkt, owed, inflight, queued, dma, panic, answer, d, resp, blocked, respBusy,
          respWait, memory, done, status, command, intr, pimPc, hostPc, error, request, started, executed,
          requests, current, state, scheduled, busy, packets, pc, waitFor, held, count, late>>

\* Slices of one, two and one pages behind the range of the devices
DeviceRule == [vaddr |-> 0, paddr |-> 20, size |-> 1]
VaultRule  == [vaddr |-> 9, paddr |-> 60, size |-> 2]
Slices == {[vaddr |-> 4, paddr |-> 43, size |-> 1],
           [vaddr |-> 5, paddr |-> 40, size |-> 2],
           [vaddr |-> 7, paddr |-> 47, size |-> 1]}
SliceTable ==
    [v \in 4..7 |-> CHOOSE s \in Slices : s.vaddr <= v /\ v < s.vaddr + s.size]

\* Timing mode, with less room than there are slices
Refilled == INSTANCE EthzTlb WITH
    Table <- SliceTable, Static <- <<DeviceRule>>, TlbSize <- 3, IdealRefill <- FALSE, TimingMode <- TRUE,
    Kinds <- {"data", "hmc", "refill", "device"}, BusRejects <- TRUE, DmaPages <- {}

\* IDEAL_REFILL, with transfers of the DMA engine; every slice has room
Ideal == INSTANCE EthzTlb WITH
    Table <- SliceTable, Static <- <<DeviceRule>>, TlbSize <- 4, IdealRefill <- TRUE, TimingMode <- TRUE,
    Kinds <- {"data", "hmc", "refill", "device"}, BusRejects <- TRUE, DmaPages <- {4, 6}

Atomic == INSTANCE EthzTlb WITH
    Table <- SliceTable, Static <- <<DeviceRule>>, TlbSize <- 3, IdealRefill <- FALSE, TimingMode <- FALSE,
    Kinds <- {"data", "refill", "device"}, BusRejects <- FALSE, DmaPages <- {}

\* With the vault as a second range, above the slices
Vault == INSTANCE EthzTlb WITH
    Table <- SliceTable, Static <- <<DeviceRule, VaultRule>>, TlbSize <- 4, IdealRefill <- FALSE,
    TimingMode <- TRUE, Kinds <- {"data", "vault"}, BusRejects <- TRUE, DmaPages <- {}

\* Five packets, the second a write-back
Links == INSTANCE SmcLinks WITH
    NLinks <- 2, NPackets <- 5, Posted <- {2}, ReqLimit <- 1, RespLimit <- 1,
    Header <- 2, Data <- 1

\* A transfer of one line, which the kernel need not wait for, and one that
\* crosses the end of a slice
Call == INSTANCE DmaCall WITH
    Commands <- {"RUN_KERNEL"}, Executable <- {"RUN_KERNEL"}, NOP <- "NOP", MaxStarts <- 2,
    Resources <- {1, 2}, Transfers <- <<{<<0, 2>>}, {<<6, 4>>}>>, SliceSize <- 8, LineSize <- 4,
    MaxOutstandingDma <- 4, MaxRequests <- 3, SlowCore <- TRUE, Unawaited <- {1}

\* A condition on the constants: it chooses no initial state.
Holds(condition) == condition = TRUE

Absent(value) == value = "absent"

noTlb == <<d, resp, blocked, respBusy, respWait, memory, done, status, command, intr, pimPc, hostPc, error,
           request, started, executed, requests, current, state, scheduled, busy, packets, pc, waitFor, held,
           count, late>>
noLinks == <<tlb, core, pkt, owed, inflight, queued, dma, panic, answer, status, command, intr, pimPc,
             hostPc, error, request, started, executed, requests, current, state, scheduled, busy, packets,
             pc, waitFor, held, count, late>>
noCall == <<tlb, core, pkt, owed, inflight, queued, dma, answer, d, resp, blocked, respBusy, respWait,
            memory, done>>

WithoutTlb ==
    /\ Absent(d) /\ Absent(resp) /\ Absent(blocked) /\ Absent(respBusy) /\ Absent(respWait)
    /\ Absent(memory) /\ Absent(done) /\ Absent(status) /\ Absent(command) /\ Absent(intr) /\ Absent(pimPc)
    /\ Absent(hostPc) /\ Absent(error) /\ Absent(request) /\ Absent(started) /\ Absent(executed)
    /\ Absent(requests) /\ Absent(current) /\ Absent(state) /\ Absent(scheduled) /\ Absent(busy)
    /\ Absent(packets) /\ Absent(pc) /\ Absent(waitFor) /\ Absent(held) /\ Absent(count) /\ Absent(late)

WithoutLinks ==
    /\ Absent(tlb) /\ Absent(core) /\ Absent(pkt) /\ Absent(owed) /\ Absent(inflight) /\ Absent(queued)
    /\ Absent(dma) /\ Absent(panic) /\ Absent(answer) /\ Absent(status) /\ Absent(command) /\ Absent(intr)
    /\ Absent(pimPc) /\ Absent(hostPc) /\ Absent(error) /\ Absent(request) /\ Absent(started)
    /\ Absent(executed) /\ Absent(requests) /\ Absent(current) /\ Absent(state) /\ Absent(scheduled)
    /\ Absent(busy) /\ Absent(packets) /\ Absent(pc) /\ Absent(waitFor) /\ Absent(held) /\ Absent(count)
    /\ Absent(late)

WithoutCall ==
    /\ Absent(tlb) /\ Absent(core) /\ Absent(pkt) /\ Absent(owed) /\ Absent(inflight) /\ Absent(queued)
    /\ Absent(dma) /\ Absent(answer) /\ Absent(d) /\ Absent(resp) /\ Absent(blocked) /\ Absent(respBusy)
    /\ Absent(respWait) /\ Absent(memory) /\ Absent(done)

Init ==
    \/ /\ app = "refilled" /\ Holds(Refilled!TableAssumption /\ Refilled!SizeAssumption /\ Refilled!KindsAssumption)
       /\ Refilled!Init /\ WithoutTlb
    \/ /\ app = "ideal" /\ Holds(Ideal!TableAssumption /\ Ideal!SizeAssumption /\ Ideal!KindsAssumption)
       /\ Ideal!Init /\ WithoutTlb
    \/ /\ app = "atomic" /\ Holds(Atomic!TableAssumption /\ Atomic!SizeAssumption /\ Atomic!KindsAssumption)
       /\ Atomic!Init /\ WithoutTlb
    \/ /\ app = "vault" /\ Holds(Vault!TableAssumption /\ Vault!SizeAssumption /\ Vault!KindsAssumption)
       /\ Vault!Init /\ WithoutTlb
    \/ app = "links" /\ Holds(Links!LimitsAssumption) /\ Links!Init /\ WithoutLinks
    \/ app = "call" /\ Call!Init /\ WithoutCall

InTlb(name, A) == app = name /\ A /\ UNCHANGED <<app, noTlb>>
InLinks(A)     == app = "links" /\ A /\ UNCHANGED <<app, noLinks>>
InCall(A)      == app = "call" /\ A /\ UNCHANGED <<app, noCall>>

Next ==
    \/ InTlb("refilled", Refilled!Next)
    \/ InTlb("ideal", Ideal!Next)
    \/ InTlb("atomic", Atomic!Next)
    \/ InTlb("vault", Vault!Next)
    \/ InLinks(Links!Next)
    \/ InCall(Call!Next)

\* The fairness of the components (FairSpec of EthzTlb, SmcLinks and DmaCall).
\* Only one of them runs, so a condition may speak of one action of each.
FairSpec ==
    /\ Init /\ [][Next]_vars
    /\ WF_vars(InTlb("refilled", Refilled!Dequeue) \/ InTlb("ideal", Ideal!Dequeue)
               \/ InLinks(Links!Edge) \/ InCall(Call!Engine))
    /\ WF_vars(InTlb("refilled", Refilled!Response) \/ InTlb("ideal", Ideal!Response)
               \/ InTlb("vault", Vault!Response)
               \/ InLinks(\E off \in {0, 1} : Links!SourceSend(off)) \/ InCall(Call!Memory))
    /\ WF_vars(InTlb("refilled", \E v \in Refilled!Pages : Refilled!RefillResponse(v))
               \/ InTlb("ideal", \E v \in Ideal!Pages : Ideal!RefillResponse(v))
               \/ InTlb("vault", \E v \in Vault!Pages : Vault!RefillResponse(v))
               \/ InLinks(\E off \in {0, 1} : Links!ReleaseResponses(off))
               \/ InCall(Call!Kernel \/ Call!Return \/ Call!Resident))
    /\ WF_vars(InTlb("refilled", Refilled!BusRetry /\ ~owed') \/ InTlb("ideal", Ideal!BusRetry /\ ~owed')
               \/ InTlb("vault", Vault!BusRetry /\ ~owed')
               \/ InLinks(\E m \in memory : Links!MemoryAnswer(m))
               \/ InCall(Call!HostWith(Call!Handshake!HostCall)))
    /\ \A i \in {0, 1} :
          /\ WF_vars(InLinks(Links!Release(i)))
          /\ WF_vars(InLinks(\E off \in {0, 1} : Links!LinkSend(i, off)))
          /\ WF_vars(InLinks(\E off \in {0, 1} : Links!LinkRespond(i, off)))

-----------------------------------------------------------------------------
\* Whatever was refused, refilled and evicted on the way, a request of the core
\* reaches memory at the address that the slice table gives the page it named,
\* its answer comes back with the address of the request (the physical one if the
\* bus has refused that request), and no assertion or panic fires.
TranslatedRight ==
    CASE app = "refilled" -> Refilled!TypeOK /\ Refilled!TranslatedRight /\ Refilled!AnswerHasAddress /\ Refilled!NoPanic
      [] app = "ideal"    -> Ideal!TypeOK /\ Ideal!TranslatedRight /\ Ideal!AnswerHasAddress /\ Ideal!NoPanic
      [] app = "atomic"   -> Atomic!TypeOK /\ Atomic!TranslatedRight /\ Atomic!AnswerHasAddress
      [] app = "vault"    -> Vault!TypeOK /\ Vault!TranslatedRight /\ Vault!AnswerHasAddress /\ Vault!NoPanic
      [] OTHER            -> TRUE

\* updateTLB never replaces a rule that was used more recently than one that
\* stays: "the ideal LRU algorithm" of ethz_tlb.hh.  With a second range of the
\* configuration it does, so the property is not about that instance.
EvictsLeastRecentlyUsed ==
    [][CASE app = "refilled" -> Refilled!KeepsRecent
         [] app = "ideal"    -> Ideal!KeepsRecent
         [] app = "atomic"   -> Atomic!KeepsRecent
         [] OTHER            -> TRUE]_vars

\* Between the parts nothing is lost and nothing left behind: a source that a
\* link refused waits at exactly one layer, a link has room for every response on
\* its way, and a command finds the DMA engine at rest although kernels return
\* with transfers in flight, unless the engine was active at a PIM_DMA_CLI.
NothingLeftBehind ==
    CASE app = "links" -> Links!NoAssertionFails /\ Links!RefusedIsRegistered /\ Links!ResponsesFit
      [] app = "call"  -> Call!KernelStartsClean
      [] OTHER         -> TRUE

\* With the real DMA engine, and kernels that return with a transfer in flight,
\* the core and the host implement the handshake of PimHandshake however long the
\* engine takes: it posts the core's interrupt only while it is active and never
\* stops without a post, which reaches the kernel or the resident loop.
ImplementsHandshake ==
    /\ app = "call" => Call!Handshake!Init
    /\ [][app = "call" => [Call!Handshake!Next]_(Call!Handshake!vars)]_vars

Asked ==
    CASE app = "links" -> done # Links!Packets
      [] app = "call"  -> pimPc = "busy"
      [] OTHER         -> core # "idle"
Answered ==
    CASE app = "links" -> done = Links!Packets
      [] app = "call"  -> hostPc = "idle" \/ late
      [] OTHER         -> core = "idle"

\* Every access of the core completes, every request of the host is served
\* whichever links refuse it, and a command that the core has read returns to the
\* host although its kernel sleeps in DMA_WAIT, unless the engine was active at a
\* PIM_DMA_CLI.
AccessCompletes == Asked ~> Answered
=============================================================================
