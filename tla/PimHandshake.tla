---------------------------- MODULE PimHandshake ----------------------------
(***************************************************************************)
(* The command handshake between the host library (PIMAPI, pim_api.cc) and *)
(* the resident program of one PIM core (resident.c, utils.h), through the *)
(* memory-mapped registers PIM_STATUS_REG, PIM_COMMAND_REG and             *)
(* PIM_INTR_REG.  One action is one register access, so every interleaving *)
(* of the two programs between two accesses is explored.                   *)
(*                                                                         *)
(* The core sleeps with the wfi instruction, which returns at once when an *)
(* interrupt is pending.  A write to PIM_INTR_REG posts the interrupt and  *)
(* clears it again in the same access: it wakes a core that is suspended   *)
(* and leaves no trace in a core that is running.  The DMA engine posts    *)
(* without clearing, whenever it has drained: while the kernel runs, or at *)
(* any time after a kernel that did not wait for its last requests.        *)
(***************************************************************************)
EXTENDS Naturals

CONSTANTS
    Commands,    \* the bytes a host program passes to start_computation
    Executable,  \* those that execute_command runs (DEMO, RUN_KERNEL)
    NOP,         \* PIM_COMMAND_NOP
    MaxStarts    \* bound: calls of start_computation in one behaviour

ASSUME CommandsAssumption == Executable \subseteq Commands /\ NOP \notin Commands
ASSUME MaxStartsAssumption == MaxStarts \in Nat

VARIABLES
    status,    \* PIM_STATUS_REG, written by the PIM core only
    command,   \* PIM_COMMAND_REG, written by the host after initialization
    intr,      \* an interrupt is pending at the PIM core
    draining,  \* the DMA engine is active and will post an interrupt
    pimPc,     \* where the resident loop of c_entry is
    hostPc,    \* where the calling host thread is
    error,     \* why pim_error wrote PIM_ERROR_REG, which ends the simulation
    request,   \* history: the command of the latest start_computation
    started,   \* history: calls of start_computation so far
    executed,  \* history: commands the PIM core has executed to the end
    late       \* history: PIM_DMA_CLI was executed while the engine was active

pimVars  == <<status, pimPc, error, executed, draining, late>>
hostVars == <<command, hostPc, request, started>>
vars     == <<status, command, intr, draining, pimPc, hostPc, error, request, started, executed, late>>

PimPcs  == {"wfi", "asleep", "check", "busy", "exec", "done", "waitNop", "cli", "sleep"}
HostPcs == {"idle", "pollSleep", "give", "wake", "started", "pollDone", "nop"}

\* initialize_registers has run; c_entry is about to execute its first wfi.
Init ==
    /\ status = "SLEEP"
    /\ command = NOP
    /\ intr = FALSE
    /\ draining = FALSE
    /\ pimPc = "wfi"
    /\ hostPc = "idle"
    /\ error = "none"
    /\ request = NOP
    /\ started = 0
    /\ executed = 0
    /\ late = FALSE

-----------------------------------------------------------------------------
(* The host: start_computation, then one of the two wait_for_completion.   *)

\* start_computation(c) is called.
StartComputation(c) ==
    /\ hostPc = "idle"
    /\ started < MaxStarts
    /\ hostPc' = "pollSleep"
    /\ request' = c
    /\ started' = started + 1
    /\ UNCHANGED <<pimVars, command, intr>>

\* FAULT (not the code): start_computation without its poll for PIM_STATUS_SLEEP.
PollSleep_NoCheck ==
    /\ hostPc = "pollSleep"
    /\ hostPc' = "give"
    /\ UNCHANGED <<pimVars, command, intr, request, started>>

\* One check_status of the loop that waits for PIM_STATUS_SLEEP.
PollSleep ==
    /\ hostPc = "pollSleep"
    /\ hostPc' = IF status = "SLEEP" THEN "give" ELSE "pollSleep"
    /\ UNCHANGED <<pimVars, command, intr, request, started>>

GiveCommand ==
    /\ hostPc = "give"
    /\ command' = request
    /\ hostPc' = "wake"
    /\ UNCHANGED <<pimVars, intr, request, started>>

\* wake_up writes PIM_INTR_REG: the device posts the interrupt, which makes a
\* suspended core continue after its wfi, and clears it in the same access.
WakeUp ==
    /\ hostPc = "wake"
    /\ pimPc' = IF pimPc = "asleep" THEN "check" ELSE pimPc
    /\ intr' = FALSE
    /\ hostPc' = "started"
    /\ UNCHANGED <<status, error, executed, draining, late, command, request, started>>

WaitForCompletion ==
    /\ hostPc = "started"
    /\ hostPc' = "pollDone"
    /\ UNCHANGED <<pimVars, command, intr, request, started>>

\* One check_status of the loop that waits for PIM_STATUS_DONE.
PollDone ==
    /\ hostPc = "pollDone"
    /\ hostPc' = IF status = "DONE" THEN "nop" ELSE "pollDone"
    /\ UNCHANGED <<pimVars, command, intr, request, started>>

\* FAULT (not the code): wait_for_completion_simple as its comment describes it, without the NOP.
GiveNop_Missing ==
    /\ hostPc = "nop"
    /\ hostPc' = "idle"
    /\ UNCHANGED <<pimVars, command, intr, request, started>>

GiveNop ==
    /\ hostPc = "nop"
    /\ command' = NOP
    /\ hostPc' = "idle"
    /\ UNCHANGED <<pimVars, intr, request, started>>

Host ==
    \/ \E c \in Commands : StartComputation(c)
    \/ PollSleep
    \/ GiveCommand
    \/ WakeUp
    \/ WaitForCompletion
    \/ PollDone
    \/ GiveNop

-----------------------------------------------------------------------------
(* The PIM core: the loop of c_entry.                                      *)

\* The wfi instruction: skipped when an interrupt is pending.
Wfi ==
    /\ pimPc = "wfi"
    /\ pimPc' = IF intr THEN "check" ELSE "asleep"
    /\ UNCHANGED <<hostVars, status, intr, draining, error, executed, late>>

\* new_command_received reads PIM_COMMAND_REG; without a command c_entry
\* calls pim_error, and the write of PIM_ERROR_REG exits the simulator.
CheckCommand ==
    /\ pimPc = "check"
    /\ IF command # NOP
         THEN pimPc' = "busy" /\ error' = error
         ELSE pimPc' = "check" /\ error' = "noCommand"
    /\ UNCHANGED <<hostVars, status, intr, draining, executed, late>>

SetBusy ==
    /\ pimPc = "busy"
    /\ status' = "BUSY"
    /\ pimPc' = "exec"
    /\ UNCHANGED <<hostVars, intr, draining, error, executed, late>>

\* execute_command reads PIM_COMMAND_REG again, and the kernel returns.
ExecuteCommand ==
    /\ pimPc = "exec"
    /\ IF command \in Executable
         THEN /\ executed' = executed + 1
              /\ pimPc' = "done"
              /\ error' = error
         ELSE /\ error' = "illegalCommand"
              /\ UNCHANGED <<executed, pimPc>>
    /\ UNCHANGED <<hostVars, status, intr, draining, late>>

\* The kernel, before it returns, with the DMA engine: DMA_REQUEST makes the
\* engine active, which posts interrupts, and DMA_WAIT clears them.
KernelUsesDma ==
    /\ pimPc = "exec" /\ command \in Executable
    /\ intr' \in BOOLEAN /\ draining' \in BOOLEAN
    /\ UNCHANGED <<hostVars, status, pimPc, error, executed, late>>

\* The engine posts the core's interrupt: when it has drained, after which it
\* is not active, and when a request completes while the core is suspended.
EngineInterrupts ==
    /\ draining
    /\ draining' \in BOOLEAN
    /\ intr' = TRUE
    /\ pimPc' = IF pimPc = "asleep" THEN "check" ELSE pimPc
    /\ UNCHANGED <<hostVars, status, error, executed, late>>

\* FAULT (not the code): PIM_STATUS_SLEEP written in command_done before the wait for NOP is over
\* (the order before it was moved to resident.c).
SetDone_Sleep ==
    /\ pimPc = "done"
    /\ status' = "DONE"
    /\ pimPc' = "sleep"
    /\ UNCHANGED <<hostVars, intr, draining, error, executed, late>>

\* command_done, its first half.
SetDone ==
    /\ pimPc = "done"
    /\ status' = "DONE"
    /\ pimPc' = "waitNop"
    /\ UNCHANGED <<hostVars, intr, draining, error, executed, late>>

\* One read of PIM_COMMAND_REG in the loop of command_done.
PollNop ==
    /\ pimPc = "waitNop"
    /\ pimPc' = IF command = NOP THEN "cli" ELSE "waitNop"
    /\ UNCHANGED <<hostVars, status, intr, draining, error, executed, late>>

\* FAULT (not the code): The resident loop without PIM_DMA_CLI = 0xFF.
ClearInterrupt_Missing ==
    /\ pimPc = "cli"
    /\ pimPc' = "sleep"
    /\ UNCHANGED <<hostVars, status, intr, draining, error, executed, late>>

\* PIM_DMA_CLI = 0xFF
ClearInterrupt ==
    /\ pimPc = "cli"
    /\ intr' = FALSE
    /\ late' = (late \/ draining)
    /\ pimPc' = "sleep"
    /\ UNCHANGED <<hostVars, status, draining, error, executed>>

SetSleep ==
    /\ pimPc = "sleep"
    /\ status' = "SLEEP"
    /\ pimPc' = "wfi"
    /\ UNCHANGED <<hostVars, intr, draining, error, executed, late>>

Pim ==
    \/ Wfi
    \/ CheckCommand
    \/ SetBusy
    \/ ExecuteCommand
    \/ SetDone
    \/ PollNop
    \/ ClearInterrupt
    \/ SetSleep

Engine == KernelUsesDma \/ EngineInterrupts

\* The simulator has exited, or the host has made its last call and the core
\* sleeps: nothing is left to do.
Stopped ==
    /\ \/ error # "none"
       \/ hostPc = "idle" /\ started = MaxStarts /\ pimPc = "asleep" /\ ~draining
    /\ UNCHANGED vars

Next ==
    \/ error = "none" /\ Host
    \/ error = "none" /\ Pim
    \/ error = "none" /\ Engine
    \/ Stopped

Spec == Init /\ [][Next]_vars

\* The core keeps executing instructions, kernels return (AccessCompletes of
\* MCMemoryPath says when), and the operating system keeps scheduling a thread
\* that is inside a call; nobody is obliged to call, and nothing is assumed
\* about when the engine drains.
HostCall == PollSleep \/ GiveCommand \/ WakeUp \/ WaitForCompletion \/ PollDone \/ GiveNop

FairSpec ==
    /\ Spec
    /\ WF_vars(error = "none" /\ HostCall)
    /\ WF_vars(error = "none" /\ Pim)

-----------------------------------------------------------------------------
TypeOK ==
    /\ status \in {"SLEEP", "BUSY", "DONE"}
    /\ command \in Commands \cup {NOP}
    /\ intr \in BOOLEAN /\ draining \in BOOLEAN /\ late \in BOOLEAN
    /\ pimPc \in PimPcs
    /\ hostPc \in HostPcs
    /\ error \in {"none", "noCommand", "illegalCommand"}
    /\ request \in Commands \cup {NOP}
    /\ started \in 0..MaxStarts
    /\ executed \in Nat

\* wait_for_completion returns only after the command of its own
\* start_computation was executed, and no command is ever executed twice: the
\* poll for PIM_STATUS_SLEEP keeps a DONE of the previous command from being
\* taken for this one, and an interrupt of the DMA engine that wakes the core
\* before wake_up does makes no second execution.
ExactlyOnce ==
    /\ executed <= started
    /\ started <= executed + 1
    /\ hostPc \in {"idle", "nop"} => executed = started

\* The registers and the two programs together implement the remote call of
\* OffloadCall: every call is served once, with its own command, before it
\* returns.  A call is served when ExecuteCommand has counted it.  A wake-up
\* without a command stops the simulation in whatever phase the call is; when
\* that can happen NoSpuriousWakeUp says.
callPhase ==
    IF error = "illegalCommand" THEN "failed"
    ELSE IF hostPc = "idle" THEN "idle"
    ELSE IF executed = started THEN "served" ELSE "called"

Call == INSTANCE OffloadCall WITH phase <- callPhase, cmd <- request

ImplementsOffloadCall == Call!Spec

\* c_entry's "Woke up but no new command has arrived!" ends the simulation only
\* after the resident loop has executed PIM_DMA_CLI while the DMA engine was
\* still active: every interrupt that the engine posts before PIM_DMA_CLI is
\* cleared before the next wfi, whoever was suspended when it came.  The code
\* does not keep the engine from draining later; a kernel that returns with a
\* prefetch in flight (sgraph_bellman_ford.c) relies on the time the host takes.
NoSpuriousWakeUp == error = "noCommand" => late

\* The pim_assert calls of new_command_received and command_done hold when
\* they are reached, and the command the core executes is the one the host
\* asked for last, although execute_command reads the register a second time.
AssertionsHold ==
    /\ pimPc = "busy" => status = "SLEEP"
    /\ pimPc = "exec" => command = request
    /\ pimPc = "done" => status = "BUSY" /\ command # NOP

\* The two registers move only along the table of resident.c's "Handshaking
\* Mechanism": NOP/SLEEP, command/SLEEP, command/BUSY, command/DONE, NOP/DONE
\* and back to NOP/SLEEP.  In particular the host never changes the command of
\* a core that is busy.
HandshakeTable ==
    [][\/ UNCHANGED <<command, status>>
       \/ command = NOP /\ command' # NOP /\ status = "SLEEP" /\ status' = status
       \/ command # NOP /\ command' = command /\ status = "SLEEP" /\ status' = "BUSY"
       \/ command # NOP /\ command' = command /\ status = "BUSY" /\ status' = "DONE"
       \/ command # NOP /\ command' = NOP /\ status = "DONE" /\ status' = status
       \/ command = NOP /\ command' = NOP /\ status = "DONE" /\ status' = "SLEEP"]_vars

\* start_computation always gets past its poll for PIM_STATUS_SLEEP and hands
\* its command over, whatever the previous command left behind.
StartReturns == hostPc = "pollSleep" ~> (hostPc = "started" \/ error # "none")

\* Once the core has read a command, the host's wait_for_completion returns
\* and the core goes back to PIM_STATUS_SLEEP: neither side waits for the
\* other in a cycle.
TakenCommandCompletes ==
    /\ pimPc = "busy" ~> (hostPc = "idle" \/ error # "none")
    /\ pimPc = "busy" ~> (pimPc = "wfi" \/ error # "none")

\* The inductive invariant behind the safety properties: PIM_STATUS_REG follows
\* the core's place in its loop, PIM_COMMAND_REG follows the host's place in
\* its calls, the two places exclude each other as the handshake wants, and
\* unless PIM_DMA_CLI came too early once, the engine is active and interrupts
\* are pending only from the kernel to PIM_DMA_CLI, and only wake_up wakes.
HandshakeInv ==
    /\ pimPc \in {"wfi", "asleep", "check", "busy"} <=> status = "SLEEP"
    /\ pimPc \in {"exec", "done"} <=> status = "BUSY"
    /\ pimPc \in {"waitNop", "cli", "sleep"} <=> status = "DONE"
    /\ IF hostPc \in {"idle", "pollSleep", "give"}
         THEN command = NOP
         ELSE command = request /\ request \in Commands
    /\ hostPc # "idle" => request \in Commands
    /\ hostPc \in {"idle", "pollSleep"} => pimPc \in {"waitNop", "cli", "sleep", "wfi", "asleep", "check"}
    /\ hostPc = "give" => pimPc \in {"wfi", "asleep", "check"}
    /\ hostPc \in {"wake", "started", "pollDone"} => pimPc \notin {"cli", "sleep"}
    /\ hostPc = "nop" => pimPc = "waitNop"
    /\ intr \/ draining => late \/ pimPc \in {"exec", "done", "waitNop", "cli"}
    /\ hostPc \in {"idle", "pollSleep", "give"} /\ pimPc = "check" => late
    /\ hostPc = "wake" => late \/ pimPc \in {"wfi", "asleep"}
    /\ executed = IF \/ hostPc \in {"idle", "nop"}
                     \/ hostPc \in {"wake", "started", "pollDone"} /\ pimPc \in {"done", "waitNop"}
                    THEN started ELSE started - 1
    /\ error = "noCommand" => late /\ pimPc = "check" /\ command = NOP
    /\ error = "illegalCommand" => pimPc = "exec" /\ command \notin Executable

\* registers.h on PIM_INTR_REG: "writing to this location will wake-up the PIM
\* device".  After wake_up the core does not lie in wfi with the command still
\* waiting in PIM_COMMAND_REG.
WakeUpWakes ==
    hostPc \in {"started", "pollDone"} /\ status = "SLEEP" => pimPc # "asleep"
=============================================================================
