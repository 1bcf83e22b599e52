---------------------------- MODULE OffloadCall -----------------------------
(***************************************************************************)
(* What start_computation and wait_for_completion promise a host program   *)
(* together: a remote call.  A call is executed exactly once between its   *)
(* start and its return, with the command it was started with; a command   *)
(* that the PIM core cannot execute ends the simulation instead.           *)
(***************************************************************************)
CONSTANTS Commands, Executable, NOP

VARIABLES
    phase,  \* "idle", "called", "served" or "failed"
    cmd     \* the command of the latest call

Init == phase = "idle" /\ cmd = NOP

Call(c) ==
    /\ phase = "idle"
    /\ phase' = "called"
    /\ cmd' = c

Serve ==
    /\ phase = "called"
    /\ cmd \in Executable
    /\ phase' = "served"
    /\ UNCHANGED cmd

Fail ==
    /\ phase = "called"
    /\ cmd \notin Executable
    /\ phase' = "failed"
    /\ UNCHANGED cmd

Return ==
    /\ phase = "served"
    /\ phase' = "idle"
    /\ UNCHANGED cmd

Next == (\E c \in Commands : Call(c)) \/ Serve \/ Fail \/ Return

Spec == Init /\ [][Next]_<<phase, cmd>>
=============================================================================
