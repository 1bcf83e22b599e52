------------------------------ MODULE DmaCall -------------------------------
(***************************************************************************)
(* The command handshake of PimHandshake with kernels that use the DMA     *)
(* engine of EthzDma.  Core, host and engine share one interrupt: the      *)
(* engine posts it when it drains, which may be at any time after the      *)
(* kernel that made the last request has returned to the resident loop.    *)
(*                                                                         *)
(* pc is the place of the kernel.  It is "asleep" also while the resident  *)
(* loop is suspended, as the engine sees only the state of the thread      *)
(* context.                                                                *)
(***************************************************************************)
EXTENDS Integers, Sequences, FiniteSets

CONSTANTS
    Commands, Executable, NOP, MaxStarts,           \* of PimHandshake
    Resources, Transfers, SliceSize, LineSize,      \* of EthzDma
    MaxOutstandingDma, MaxRequests, SlowCore,
    Unawaited   \* resources for which a kernel may return without a last DMA_WAIT

VARIABLES
    status, command, intr, pimPc, hostPc, error, request, started, executed, late,
    requests, current, state, scheduled, busy, packets, pc, waitFor, held, count, panic

\* The engine is active, and will post an interrupt, while an event is pending.
Handshake == INSTANCE PimHandshake WITH draining <- scheduled
Dma       == INSTANCE EthzDma WITH status <- busy

engineVars == <<requests, current, state, scheduled, busy, packets, panic>>
kernelVars == <<waitFor, held, count>>
callVars   == <<status, command, hostPc, error, request, started, executed, late>>
vars       == <<engineVars, kernelVars, callVars, intr, pimPc, pc>>

Running == error = "none" /\ ~panic

Init == Handshake!Init /\ Dma!Init

-----------------------------------------------------------------------------
\* An interrupt resumes the core where it is suspended, in the kernel or in
\* the resident loop.
Resumed == IF pimPc = "asleep" /\ pc' # "asleep" THEN "check" ELSE pimPc

\* A step of nextState, once per clock
Engine ==
    /\ Running /\ Dma!NextState
    /\ pimPc' = Resumed
    /\ UNCHANGED callVars

Memory ==
    /\ Running /\ \E p \in packets : Dma!HandlePacket(p)
    /\ pimPc' = Resumed
    /\ UNCHANGED callVars

\* A register access of the kernel
Kernel ==
    /\ Running /\ pimPc = "exec" /\ command \in Executable
    /\ Dma!Kernel
    /\ UNCHANGED <<callVars, pimPc>>

\* The kernel returns.  Some have waited for all their transfers; others, like
\* the pipelines over a graph, have prefetched a chunk that they never use.
Return ==
    /\ Running /\ pc = "run" /\ held \subseteq Unawaited
    /\ Handshake!ExecuteCommand
    /\ held' = {}
    /\ UNCHANGED <<engineVars, waitFor, count, pc>>

\* Another step of the resident loop
Resident ==
    /\ Running /\ pimPc # "exec" /\ Handshake!Pim
    /\ pc' = CASE pimPc' = "asleep" -> "asleep" [] pimPc' = "exec" -> "run" [] OTHER -> pc
    /\ UNCHANGED <<engineVars, kernelVars>>

HostWith(step) ==
    /\ Running /\ step
    /\ pc' = IF hostPc = "wake" /\ pc = "asleep" THEN "clear" ELSE pc
    /\ UNCHANGED <<engineVars, kernelVars>>

Stopped ==
    /\ ~Running \/ (hostPc = "idle" /\ started = MaxStarts /\ pimPc = "asleep" /\ ~scheduled)
    /\ UNCHANGED vars

Next == Engine \/ Memory \/ Kernel \/ Return \/ Resident \/ HostWith(Handshake!Host) \/ Stopped

Spec == Init /\ [][Next]_vars

\* Events fire, memory answers, the core executes and the operating system
\* runs a thread that is inside a call.
FairSpec ==
    /\ Spec
    /\ WF_vars(Engine) /\ WF_vars(Memory) /\ WF_vars(Kernel \/ Return \/ Resident)
    /\ WF_vars(HostWith(Handshake!HostCall))

-----------------------------------------------------------------------------
\* Unless PIM_DMA_CLI was executed while the engine was active, every command
\* finds the engine at rest: when new_command_received has read the command, no
\* request, answer, event or interrupt of the kernel before it is left, although
\* that kernel may have returned with transfers in flight; and the engine never
\* panics about a resource that an earlier kernel left busy.
KernelStartsClean ==
    ~late => /\ pimPc = "busy" => requests = <<>> /\ packets = {} /\ ~scheduled /\ ~intr
             /\ ~panic

\* With the real engine, and with kernels that do not wait for it, the core and
\* the host implement PimHandshake: the engine posts an interrupt only while it
\* is active and always before it stops, and the posts reach the core in the
\* kernel and in the resident loop as PimHandshake says.
ImplementsHandshake == Handshake!Spec

\* A command that the core has read completes although its kernel sleeps in
\* DMA_WAIT: the host's wait_for_completion returns.  When PIM_DMA_CLI was
\* executed while the engine was active it may not: the core can be woken by the
\* engine before wake_up, which then clears the interrupt that DMA_WAIT needs.
TakenCommandReturns == pimPc = "busy" ~> (hostPc = "idle" \/ late)
=============================================================================
