------------------------- MODULE PimHandshakeProofs -------------------------
(***************************************************************************)
(* The handshake of PimHandshake is correct for every set of commands and  *)
(* any number of calls.  HandshakeInv is inductive; the properties that    *)
(* the run checks on three calls follow from it.                           *)
(***************************************************************************)
EXTENDS PimHandshake, TLAPS

IInv == TypeOK /\ HandshakeInv

\* The registers as initialize_registers leaves them satisfy the invariant.
LEMMA InitEstablishes == Init => IInv
<1> SUFFICES ASSUME Init PROVE IInv
  OBVIOUS
<1>1. /\ intr \in BOOLEAN /\ ~intr /\ draining \in BOOLEAN /\ ~draining
      /\ late \in BOOLEAN
  BY Zenon DEF Init
<1> QED
  BY <1>1, CommandsAssumption, MaxStartsAssumption
     DEF Init, IInv, TypeOK, HandshakeInv, PimPcs, HostPcs

\* Every register access of the host library keeps the invariant.
LEMMA HostPreserves == IInv /\ error = "none" /\ Host => IInv'
<1> SUFFICES ASSUME IInv, error = "none", Host PROVE IInv'
  OBVIOUS
<1> USE CommandsAssumption, MaxStartsAssumption
    DEF IInv, TypeOK, HandshakeInv, PimPcs, HostPcs, pimVars, hostVars
<1>1. CASE \E c \in Commands : StartComputation(c)
  BY <1>1 DEF StartComputation
<1>2. CASE PollSleep
  BY <1>2 DEF PollSleep
<1>3. CASE GiveCommand
  BY <1>3 DEF GiveCommand
<1>4. CASE WakeUp
  BY <1>4, Zenon DEF WakeUp
<1>5. CASE WaitForCompletion
  BY <1>5 DEF WaitForCompletion
<1>6. CASE PollDone
  BY <1>6 DEF PollDone
<1>7. CASE GiveNop
  BY <1>7 DEF GiveNop
<1> QED
  BY <1>1, <1>2, <1>3, <1>4, <1>5, <1>6, <1>7 DEF Host

\* Every step of the resident loop keeps the invariant.
LEMMA PimPreserves == IInv /\ error = "none" /\ Pim => IInv'
<1> SUFFICES ASSUME IInv, error = "none", Pim PROVE IInv'
  OBVIOUS
<1> USE CommandsAssumption, MaxStartsAssumption
    DEF IInv, TypeOK, HandshakeInv, PimPcs, HostPcs, pimVars, hostVars
<1>1. CASE Wfi
  BY <1>1 DEF Wfi
<1>2. CASE CheckCommand
  BY <1>2 DEF CheckCommand
<1>3. CASE SetBusy
  BY <1>3 DEF SetBusy
<1>4. CASE ExecuteCommand
  BY <1>4 DEF ExecuteCommand
<1>5. CASE SetDone
  BY <1>5 DEF SetDone
<1>6. CASE PollNop
  BY <1>6 DEF PollNop
<1>7. CASE ClearInterrupt
  BY <1>7, Zenon DEF ClearInterrupt
<1>8. CASE SetSleep
  BY <1>8 DEF SetSleep
<1> QED
  BY <1>1, <1>2, <1>3, <1>4, <1>5, <1>6, <1>7, <1>8, SMTT(60) DEF Pim

\* Every step of the DMA engine, and of the kernel that uses it, keeps the
\* invariant: after PIM_DMA_CLI the engine is active only if late records it.
LEMMA EnginePreserves == IInv /\ error = "none" /\ Engine => IInv'
<1> SUFFICES ASSUME IInv, error = "none", Engine PROVE IInv'
  OBVIOUS
<1> USE CommandsAssumption, MaxStartsAssumption
    DEF IInv, TypeOK, HandshakeInv, PimPcs, HostPcs, hostVars
<1>1. CASE KernelUsesDma
  BY <1>1 DEF KernelUsesDma
<1>2. CASE EngineInterrupts
  BY <1>2 DEF EngineInterrupts
<1> QED
  BY <1>1, <1>2, Zenon DEF Engine

\* Every step of either side, of the DMA engine, of the stopped pair, and every stuttering step
\* preserves the inductive invariant.
LEMMA NextPreserves == IInv /\ [Next]_vars => IInv'
<1> SUFFICES ASSUME IInv, [Next]_vars PROVE IInv'
  OBVIOUS
<1>1. CASE UNCHANGED vars
  BY <1>1 DEF vars, IInv, TypeOK, HandshakeInv
<1>2. CASE Next
  BY <1>1, <1>2, HostPreserves, PimPreserves, EnginePreserves DEF Next, Stopped
<1> QED
  BY <1>1, <1>2

\* The handshake invariant holds in every state of the two programs, whatever
\* the commands are and however often they are started.
THEOREM Invariance == Spec => [](TypeOK /\ HandshakeInv)
<1>1. Spec => []IInv
  BY InitEstablishes, NextPreserves, PTL DEF Spec
<1> QED
  BY <1>1, PTL DEF IInv

\* A wait_for_completion never returns before its own command was executed,
\* and no command is executed twice.
THEOREM ExactlyOnceHolds == Spec => []ExactlyOnce
<1>1. IInv => ExactlyOnce
  BY MaxStartsAssumption DEF IInv, TypeOK, HandshakeInv, ExactlyOnce
<1> QED
  BY <1>1, Invariance, PTL DEF IInv

\* The resident loop finds no command after a wake-up only if it has executed
\* PIM_DMA_CLI while the DMA engine was still active: whenever else the engine
\* posts its interrupts, during the kernel, after its return or while the host
\* is slow to give the NOP, they are cleared before the next wfi.
THEOREM NoSpuriousWakeUpHolds == Spec => []NoSpuriousWakeUp
<1>1. IInv => NoSpuriousWakeUp
  BY DEF IInv, HandshakeInv, NoSpuriousWakeUp
<1> QED
  BY <1>1, Invariance, PTL DEF IInv

\* The assertions of utils.h hold wherever the core reaches them.
THEOREM AssertionsAlwaysHold == Spec => []AssertionsHold
<1>1. IInv => AssertionsHold
  BY CommandsAssumption DEF IInv, TypeOK, HandshakeInv, AssertionsHold
<1> QED
  BY <1>1, Invariance, PTL DEF IInv

\* PIM_COMMAND_REG and PIM_STATUS_REG only move along the handshake table.
THEOREM FollowsHandshakeTable == Spec => HandshakeTable
<1> DEFINE Row ==
       \/ UNCHANGED <<command, status>>
       \/ command = NOP /\ command' # NOP /\ status = "SLEEP" /\ status' = status
       \/ command # NOP /\ command' = command /\ status = "SLEEP" /\ status' = "BUSY"
       \/ command # NOP /\ command' = command /\ status = "BUSY" /\ status' = "DONE"
       \/ command # NOP /\ command' = NOP /\ status = "DONE" /\ status' = status
       \/ command = NOP /\ command' = NOP /\ status = "DONE" /\ status' = "SLEEP"
<1>1. IInv /\ [Next]_vars => [Row]_vars
  <2> SUFFICES ASSUME IInv, Next PROVE Row \/ UNCHANGED vars
    OBVIOUS
  <2> USE CommandsAssumption DEF IInv, TypeOK, HandshakeInv
  <2>1. CASE error = "none" /\ Host
    BY <2>1 DEF Host, StartComputation, PollSleep, GiveCommand, WakeUp,
                WaitForCompletion, PollDone, GiveNop, pimVars
  <2>2. CASE error = "none" /\ Pim
    <3>1. CASE ExecuteCommand
      BY <3>1 DEF ExecuteCommand, hostVars
    <3>2. CASE Wfi \/ CheckCommand \/ SetBusy \/ SetDone
      BY <3>2 DEF Wfi, CheckCommand, SetBusy, SetDone, hostVars
    <3>3. CASE PollNop \/ ClearInterrupt \/ SetSleep
      BY <3>3 DEF PollNop, ClearInterrupt, SetSleep, hostVars, HostPcs
    <3> QED
      BY <2>2, <3>1, <3>2, <3>3 DEF Pim
  <2>3. CASE error = "none" /\ Engine
    BY <2>3 DEF Engine, KernelUsesDma, EngineInterrupts, hostVars
  <2> QED
    BY <2>1, <2>2, <2>3 DEF Next, Stopped
<1> QED
  BY <1>1, Invariance, PTL DEF IInv, Spec, HandshakeTable

\* The registers and the two programs implement the remote call: each step is
\* a call, the serving of a call, its failure, its return, or invisible.
THEOREM Refinement == Spec => ImplementsOffloadCall
<1>1. Init => Call!Init
  BY DEF Init, Call!Init, callPhase
<1>2. IInv /\ [Next]_vars => [Call!Next]_<<callPhase, request>>
  <2> SUFFICES ASSUME IInv, Next
               PROVE  Call!Next \/ UNCHANGED <<callPhase, request>>
    BY DEF vars, callPhase
  <2> USE CommandsAssumption, MaxStartsAssumption
      DEF IInv, TypeOK, HandshakeInv, callPhase
  <2>1. ASSUME NEW c \in Commands, error = "none", StartComputation(c)
        PROVE  Call!Call(c)
    BY <2>1 DEF StartComputation, Call!Call, pimVars
  <2>2. ASSUME error = "none", PollSleep \/ GiveCommand \/ WakeUp \/ WaitForCompletion \/ PollDone
        PROVE  UNCHANGED <<callPhase, request>>
    BY <2>2 DEF PollSleep, GiveCommand, WakeUp, WaitForCompletion, PollDone, pimVars
  <2>3. ASSUME error = "none", GiveNop
        PROVE  Call!Return
    BY <2>3 DEF GiveNop, Call!Return, pimVars
  <2>4. ASSUME error = "none", ExecuteCommand
        PROVE  Call!Serve \/ Call!Fail
    BY <2>4 DEF ExecuteCommand, Call!Serve, Call!Fail, hostVars
  <2>5. ASSUME error = "none",
               \/ Wfi \/ CheckCommand \/ SetBusy \/ SetDone
               \/ PollNop \/ ClearInterrupt \/ SetSleep
        PROVE  UNCHANGED <<callPhase, request>>
    BY <2>5 DEF Wfi, CheckCommand, SetBusy, SetDone, PollNop, ClearInterrupt,
                SetSleep, hostVars
  <2>6. ASSUME Engine
        PROVE  UNCHANGED <<callPhase, request>>
    BY <2>6 DEF Engine, KernelUsesDma, EngineInterrupts, hostVars
  <2>7. CASE Stopped
    BY <2>7 DEF Stopped, vars
  <2> QED
    BY <2>1, <2>2, <2>3, <2>4, <2>5, <2>6, <2>7 DEF Next, Host, Pim, Call!Next
<1> QED
  BY <1>1, <1>2, Invariance, PTL DEF IInv, Spec, ImplementsOffloadCall, Call!Spec
=============================================================================
