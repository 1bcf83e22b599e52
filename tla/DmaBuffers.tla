----------------------------- MODULE DmaBuffers -----------------------------
(***************************************************************************)
(* What a kernel sees of the DMA engine, as EthzDma promises it: a request *)
(* moves items between the memory and a buffer of the scratch pad, one at  *)
(* a time and in any order, while the core goes on; DMA_WAIT returns when  *)
(* the requests of the resources are complete.                             *)
(***************************************************************************)
EXTENDS Integers, Sequences

VARIABLES
    memory,   \* memory[a]: the item at address a of the offloaded data
    spm,      \* spm[b][j]: item j of buffer b, in PIM_VREG
    flight,   \* items of DMA requests that are not transferred yet
    panic     \* the engine has panicked

dmaVars == <<memory, spm, flight, panic>>

\* What lies behind the data, and in a buffer at first: no item has this ID.
Junk == [ID |-> -1]

\* DMA_REQUEST of the items at addrs for resource res
Items(res, command, addrs, buf) ==
    {[res |-> res, command |-> command, addr |-> addrs[j], buf |-> buf, slot |-> j] :
        j \in 1..Len(addrs)}

\* DMA_WAIT(resources) returns.
Waited(resources) == \A f \in flight : f.res \notin resources

\* initiate_read, initiate_write: "DMA resource is already busy!"
Request(items) ==
    /\ panic' = (panic \/ \E i \in items : ~Waited({i.res}))
    /\ flight' = flight \cup items

\* The memory answers for one item.
Transfer ==
    /\ ~panic
    /\ \E f \in flight :
         /\ flight' = flight \ {f}
         /\ \/ /\ f.command = "READ"
               /\ spm' = [spm EXCEPT ![f.buf][f.slot] =
                             IF f.addr \in DOMAIN memory THEN memory[f.addr] ELSE Junk]
               /\ UNCHANGED memory
            \/ /\ f.command = "WRITE"
               /\ memory' = [memory EXCEPT ![f.addr] = spm[f.buf][f.slot]]
               /\ UNCHANGED spm
    /\ UNCHANGED panic
=============================================================================
