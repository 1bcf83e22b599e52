------------------------------ MODULE EthzTlb ------------------------------
(***************************************************************************)
(* The data TLB of a PIM core (ethz_tlb.cc).  It remaps the addresses of   *)
(* the core's requests by rules, one per slice of the offloaded data, and  *)
(* refills a missing rule from the slice table of the driver: at once for  *)
(* the DMA engine and in the ideal mode, or with a read request whose      *)
(* answer makes the core retry.  The least recently used rule makes room.  *)
(*                                                                         *)
(* Addresses are page numbers.  A gem5 call from one object into another   *)
(* is synchronous, so an action is one event with all the calls it makes:  *)
(* the answer to a refill, for instance, includes the core's retry.  Ticks *)
(* are kept only up to their order.                                        *)
(***************************************************************************)
EXTENDS Integers, Sequences, FiniteSets, Functions

CONSTANTS
    Table,       \* the slice table: Table[v] is the rule for page v
    Static,      \* the rules of the configuration, the device's own range first
    TlbSize,     \* TLB_SIZE
    IdealRefill, \* IDEAL_REFILL
    TimingMode,  \* FALSE: the system runs in atomic mode
    Kinds,       \* what the core does, of "data", "hmc", "refill", "device", "vault"
    BusRejects,  \* TRUE: the PIM bus may be busy and ask for a retry
    DmaPages     \* pages at which the DMA engine begins a transfer

Pages   == DOMAIN Table
Rules   == {Table[v] : v \in Pages} \cup Range(Static)
Covers(rule, a) == a >= rule.vaddr /\ a <= rule.vaddr + rule.size - 1
Device  == Static[1].vaddr                   \* where the registers are
PIM_SLICEVSTART == CHOOSE v \in Pages : \A w \in Pages : v <= w

\* The driver builds this table, which gives all pages of a slice the same rule;
\* the device lies below it, and the ranges of the configuration are apart from
\* it and from each other.
TableAssumption ==
    LET Rule == [vaddr : Nat, paddr : Nat, size : Nat \ {0}]
    IN  /\ Pages \subseteq Nat /\ Pages # {} /\ DmaPages \subseteq Pages
        /\ \A v \in Pages : /\ Table[v] \in Rule /\ Covers(Table[v], v)
                            /\ \A w \in Table[v].vaddr..(Table[v].vaddr + Table[v].size - 1) :
                                   w \in Pages /\ Table[w] = Table[v]
        /\ Static \in Seq(Rule) /\ Static # <<>>
        /\ \A v \in Pages : Static[1].vaddr + Static[1].size <= v
        /\ \A i \in DOMAIN Static : /\ \A v \in Pages : ~Covers(Static[i], v)
                                    /\ \A j \in DOMAIN Static \ {i} : ~Covers(Static[j], Static[i].vaddr)
SizeAssumption  == TlbSize \in Nat /\ TlbSize > Len(Static)
KindsAssumption ==
    /\ Kinds \subseteq {"data", "hmc", "refill", "device", "vault"}
    /\ "vault" \in Kinds => Len(Static) > 1
    /\ IdealRefill \in BOOLEAN /\ TimingMode \in BOOLEAN /\ BusRejects \in BOOLEAN

VARIABLES
    tlb,       \* rules: originalRanges and remappedRanges; lastUsed: their ticks
               \* up to order; pending: pages whose refill is in flight; recency:
               \* history, <<r, s>> if the latest use of r is not after that of s
    core,      \* "idle", "retry" (dcache_pkt waits), "wait" (for the answer)
    pkt,       \* the core's latest request
    owed,      \* the bus has refused a request and will call recvRetry
    inflight,  \* the core's request on the bus: its address, and origAddr
    queued,    \* packetQueue: an answer of the TLB itself
    dma,       \* current_state of the DMA engine and its mem_vstart
    panic,     \* why the simulation has stopped
    answer     \* history: the address in the latest answer

vars == <<tlb, core, pkt, owed, inflight, queued, dma, panic, answer>>

NoPacket == [addr |-> -1, orig |-> -1]
\* addr: what the packet says; names: the page the program means; refused:
\* history, the bus has refused it.
Packet(k, v) ==
    [kind |-> k, names |-> v, remapped |-> FALSE, refused |-> FALSE,
     addr |-> CASE k = "data" -> v [] k = "vault" -> Static[2].vaddr [] OTHER -> Device]

\* lastUsed starts with the one entry (Tick)-1, whatever Len(Static) is.
Init ==
    /\ tlb = [rules |-> Static, lastUsed |-> <<0>>, pending |-> {}, recency |-> {}]
    /\ core = "idle" /\ pkt = Packet("device", Device)
    /\ owed = FALSE /\ inflight = NoPacket /\ queued = FALSE
    /\ dma = [state |-> "idle", vstart |-> -1]
    /\ panic = "none" /\ answer = -1

-----------------------------------------------------------------------------
(* The rules: operators on a value t of tlb.                               *)

\* The first rule that contains the address, or 0.
Find(t, a) ==
    LET hits == {i \in DOMAIN t.rules : Covers(t.rules[i], a)}
    IN  IF hits = {} THEN 0 ELSE CHOOSE i \in hits : \A j \in hits : i <= j

Remapped(t, a) == LET rule == t.rules[Find(t, a)] IN a - rule.vaddr + rule.paddr

\* Ticks are renumbered after every change; the order is what matters.
Ranks(l) == [i \in DOMAIN l |-> Cardinality({l[j] : j \in DOMAIN l} \cap 0..(l[i] - 1))]
Used(order, rule) ==
    {p \in order : p[1] # rule /\ p[2] # rule} \cup {<<s, rule>> : s \in {p[1] : p \in order} \cup {rule}}

\* FAULT (not the code): a hit does not count as a use.
Touch_Never(t, i) == [t EXCEPT !.recency = Used(@, t.rules[i])]

\* lastUsed[i] = curTick() for all but the first rule.  A write past the end
\* of the vector goes to memory that nothing reads.
Touch(t, i) ==
    IF i = 1 THEN t
    ELSE [t EXCEPT !.lastUsed = IF i <= Len(@) THEN Ranks([@ EXCEPT ![i] = Len(t.lastUsed) + 1]) ELSE @,
                   !.recency  = Used(@, t.rules[i])]

\* "Remove the LRU Rule.  The first rule should never be replaced"
Victim(l) == CHOOSE i \in 2..Len(l) : \A j \in 2..Len(l) : l[i] < l[j] \/ (l[i] = l[j] /\ i <= j)

\* vector::erase
Erase(s, i) == SubSeq(s, 1, i - 1) \o SubSeq(s, i + 1, Len(s))

\* updateTLB
UpdateTLB(t, rule) ==
    LET full == Len(t.rules) >= TlbSize
        l    == t.lastUsed
    IN  [t EXCEPT !.rules    = Append(IF full THEN Erase(@, Victim(l)) ELSE @, rule),
                  !.lastUsed = Ranks(Append(IF full THEN Erase(@, Victim(l)) ELSE @, Len(@) + 1)),
                  !.recency  = Used(@, rule)]

-----------------------------------------------------------------------------
(* Requests of the core.  The parameter t is the TLB when the call is made *)
(* from within another event.                                              *)

Stop(why) ==
    panic' = why /\ UNCHANGED <<tlb, core, pkt, owed, inflight, queued, dma, answer>>

\* FAULT (not the code): a command is remapped as an access to its register.
Target_Register(p) == p.addr

\* check_hmc_command: a command names the address that is remapped.
Target(p) == IF p.kind = "hmc" /\ ~ p.remapped THEN p.names ELSE p.addr

\* sendTimingReq on the bus, which takes the packet or will ask for a retry.
SendOnBus(p, orig) ==
    \/ pkt' = p /\ core' = "wait" /\ inflight' = [addr |-> p.addr, orig |-> orig] /\ owed' = FALSE
    \/ /\ BusRejects /\ pkt' = [p EXCEPT !.refused = TRUE]
       /\ core' = "retry" /\ owed' = TRUE /\ UNCHANGED inflight

\* A packet that some rule remaps, and one that was remapped before it was
\* refused by the bus.
Forward(p, t) ==
    \/ /\ ~ p.remapped /\ Find(t, Target(p)) > 0
       /\ tlb' = Touch(t, Find(t, Target(p)))
       /\ SendOnBus([p EXCEPT !.addr = Remapped(t, Target(p)), !.remapped = TRUE], Target(p))
    \/ p.remapped /\ tlb' = t /\ SendOnBus(p, p.addr)

\* refillTLB_timing: false is returned to the core in any case.
TimingMiss(p, t) ==
    /\ ~ p.remapped /\ Find(t, Target(p)) = 0 /\ ~ IdealRefill
    /\ pkt' = p /\ core' = "retry"
    /\ \/ tlb' = [t EXCEPT !.pending = @ \cup {Target(p)}] /\ owed' = FALSE
       \/ BusRejects /\ Target(p) \notin t.pending /\ tlb' = t /\ owed' = TRUE
    /\ UNCHANGED inflight

IdealMiss(p, t) ==
    /\ ~ p.remapped /\ Find(t, Target(p)) = 0 /\ IdealRefill
    /\ \E u \in {UpdateTLB(t, Table[Target(p)])} : Forward(p, u)

RecvTimingReq(p, t) ==
    /\ Forward(p, t) \/ TimingMiss(p, t) \/ IdealMiss(p, t)
    /\ UNCHANGED <<queued, dma, panic, answer>>

\* An access to the vault is followed only while the vault's rule is there:
\* a refill would read past the slice table.
CoreRequest(k, v) ==
    /\ TimingMode /\ core = "idle" /\ k # "refill"
    /\ k = "vault" => Find(tlb, Static[2].vaddr) > 0
    /\ RecvTimingReq(Packet(k, v), tlb)

\* refillTLB_functional, when the page has no rule
RefillFunctional(v) == IF Find(tlb, v) = 0 THEN UpdateTLB(tlb, Table[v]) ELSE tlb
Collides(v) == Find(tlb, v) = 0 /\ v \in tlb.pending

\* A write to PIM_DTLB_IDEAL_REFILL_REG, which the TLB answers itself.  The
\* core has no other request, so no refill is in flight.
SoftwareRefill(v) ==
    /\ TimingMode /\ core = "idle" /\ "refill" \in Kinds
    /\ tlb' = RefillFunctional(v)
    /\ core' = "wait" /\ pkt' = Packet("refill", v) /\ queued' = TRUE
    /\ UNCHANGED <<owed, inflight, dma, panic, answer>>

Dequeue ==
    /\ queued
    /\ queued' = FALSE /\ core' = "idle" /\ answer' = pkt.addr
    /\ UNCHANGED <<tlb, pkt, owed, inflight, dma, panic>>

\* recvTimingResp with the answer to a request of the core
Response ==
    /\ inflight # NoPacket
    /\ inflight' = NoPacket /\ core' = "idle" /\ answer' = inflight.orig
    /\ UNCHANGED <<tlb, pkt, owed, queued, dma, panic>>

\* recvTimingResp with the answer to a refill: updateTLB, then sendRetry,
\* on which the core sends its packet again.
RefillResponse(v) ==
    /\ v \in tlb.pending
    /\ IF core = "retry"
         THEN \E t \in {UpdateTLB([tlb EXCEPT !.pending = @ \ {v}], Table[v])} : RecvTimingReq(pkt, t)
         ELSE Stop("retry")

\* recvRetryMaster: the bus is free again.
BusRetry ==
    /\ owed
    /\ IF core = "retry" THEN RecvTimingReq(pkt, tlb) ELSE Stop("retry")

RefillAtomic(a) == UpdateTLB(tlb, Table[a])

\* recvAtomic.  A miss refills and remaps the address in the packet, for a
\* command the register's, which fails the assertion of refillTLB_atomic.  An
\* access to the vault is followed as in CoreRequest.
AtomicRequest(k, v) ==
    LET p    == Packet(k, v)
        miss == Find(tlb, Target(p)) = 0
        t    == IF miss THEN RefillAtomic(p.addr) ELSE tlb
        a    == IF miss THEN p.addr ELSE Target(p)
    IN  /\ ~ TimingMode /\ core = "idle" /\ k # "refill"
        /\ k = "vault" => ~ miss
        /\ IF miss /\ p.addr < PIM_SLICEVSTART
             THEN Stop("assert")
             ELSE /\ tlb' = Touch(t, Find(t, a))
                  /\ pkt' = [p EXCEPT !.addr = Remapped(t, a), !.remapped = TRUE]
                  /\ answer' = p.addr
                  /\ UNCHANGED <<core, owed, inflight, queued, dma, panic>>

\* The software refill of recvAtomic is over when the call returns.
AtomicRefill(v) ==
    /\ ~ TimingMode /\ core = "idle" /\ "refill" \in Kinds
    /\ tlb' = RefillFunctional(v)
    /\ pkt' = Packet("refill", v) /\ answer' = Device
    /\ UNCHANGED <<core, owed, inflight, queued, dma, panic>>

-----------------------------------------------------------------------------
(* The DMA engine, which has no answer to wait for: two clock cycles.      *)

DmaRefill(v) ==
    /\ dma.state = "idle"
    /\ IF Collides(v)
         THEN Stop("functional")
         ELSE /\ tlb' = RefillFunctional(v)
              /\ dma' = [state |-> "transfer", vstart |-> v]
              /\ UNCHANGED <<core, pkt, owed, inflight, queued, panic, answer>>

\* remap_check, then slice_vend, of mem_vstart
DmaTransfer ==
    /\ dma.state = "transfer"
    /\ IF Find(tlb, dma.vstart) = 0
         THEN Stop("slice_vend")
         ELSE /\ dma' = [dma EXCEPT !.state = "idle"]
              /\ UNCHANGED <<tlb, core, pkt, owed, inflight, queued, panic, answer>>

Next ==
    /\ panic = "none"
    /\ \/ \E k \in Kinds, v \in Pages : CoreRequest(k, v) \/ AtomicRequest(k, v)
       \/ \E v \in Pages : SoftwareRefill(v) \/ AtomicRefill(v) \/ RefillResponse(v)
       \/ Dequeue \/ Response \/ BusRetry
       \/ \E v \in DmaPages : DmaRefill(v)
       \/ DmaTransfer

Spec == Init /\ [][Next]_vars

\* Every request is answered, and the bus does not refuse for ever.
FairSpec ==
    /\ Spec
    /\ WF_vars(Dequeue) /\ WF_vars(Response)
    /\ WF_vars(\E v \in Pages : RefillResponse(v))
    /\ WF_vars(BusRetry /\ ~ owed')

-----------------------------------------------------------------------------
TypeOK ==
    /\ Range(tlb.rules) \subseteq Rules /\ Len(tlb.rules) \in Len(Static)..TlbSize
    /\ Len(tlb.lastUsed) <= TlbSize /\ Range(tlb.lastUsed) \subseteq 0..TlbSize
    /\ tlb.pending \subseteq Pages
    /\ core \in {"idle", "retry", "wait"}
    /\ pkt.kind \in Kinds \cup {"device"} /\ pkt.remapped \in BOOLEAN /\ pkt.refused \in BOOLEAN
    /\ owed \in BOOLEAN /\ queued \in BOOLEAN
    /\ dma.state \in {"idle", "transfer"}
    /\ panic \in {"none", "retry", "functional", "slice_vend", "assert"}

\* Whatever was refused, refilled and evicted on the way, a request of the
\* core reaches memory at the address that the slice table gives the page the
\* program named, or at its place in the device or the vault.
TranslatedRight ==
    pkt.remapped =>
        LET rule == CASE pkt.kind = "device" -> Static[1]
                      [] pkt.kind = "vault"  -> Static[2]
                      [] OTHER               -> Table[pkt.names]
            page == IF pkt.kind \in {"device", "vault"} THEN rule.vaddr ELSE pkt.names
        IN  pkt.addr = page - rule.vaddr + rule.paddr

\* "To implement the ideal LRU algorithm, we need the Tick which each rule
\* has been used last" (ethz_tlb.hh): a step replaces no rule that was used
\* more recently than a rule that stays.
KeepsRecent ==
    \A p \in tlb.recency :
        /\ p[1] # p[2]
        /\ p[2] \in Range(tlb.rules) \ Range(tlb'.rules)
        => p[1] \notin Range(tlb.rules) \cap Range(tlb'.rules)

\* No panic and no failed assertion, that of the core included that a retry
\* comes only when it has a packet to send.
NoPanic == panic = "none"

\* "Restore the state and address": an answer has the virtual address of its
\* request, unless the bus has refused that very request: it was remapped before
\* it came again, and its answer keeps the physical address.
AnswerHasAddress ==
    core = "idle" /\ answer # -1 /\ pkt.kind = "data" =>
        answer = IF pkt.refused THEN pkt.addr ELSE pkt.names

\* Every request of the core is answered.
AccessCompletes == [](core # "idle" => <>(core = "idle"))
=============================================================================
