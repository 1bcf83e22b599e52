------------------------------ MODULE MatrixAdd ------------------------------
(***************************************************************************)
(* The kernel matrix_add.c (kernel_best): C = A + B in bursts.  Two sets   *)
(* of buffers, ping and pong, hold a burst of A, B and C each; while the   *)
(* core adds ping, the engine fills pong with the next burst and writes    *)
(* the last result, which is still in the C buffer of pong.                *)
(***************************************************************************)
EXTENDS DmaBuffers

CONSTANTS
    Elements,   \* S*S
    PerBurst    \* XFER_SIZE/sizeof(ulong_t)

\* The sizes of the scenarios are multiples of a burst.
SizeAssumption ==
    /\ PerBurst \in Nat \ {0} /\ Elements \in Nat \ {0}
    /\ Elements % PerBurst = 0

num_bursts == Elements \div PerBurst

VARIABLES x, j, ping, pc

kernelVars == <<x, j, ping>>
vars == <<dmaVars, kernelVars, pc>>

\* An element of A or B is known by its matrix and place, one of C by the two
\* elements that were added.
Init ==
    /\ memory = [a \in {"A", "B", "C"} \X (0..(Elements - 1)) |-> IF a[1] = "C" THEN <<>> ELSE a]
    /\ spm = [b \in {"A", "B", "C"} \X {1, 2} |-> [k \in 1..PerBurst |-> <<>>]]
    /\ flight = {} /\ panic = FALSE
    /\ x = 0 /\ j = 0 /\ ping = 1 /\ pc = "start"

Pong == 3 - ping

Burst(matrix, b) == [k \in 1..PerBurst |-> <<matrix, b * PerBurst + k - 1>>]

\* Fill ping, only once.
FillPing ==
    /\ pc = "start" /\ pc' = "filled"
    /\ Request(Items(0, "READ", Burst("A", 0), <<"A", ping>>) \cup Items(1, "READ", Burst("B", 0), <<"B", ping>>))
    /\ UNCHANGED <<memory, spm, kernelVars>>

PingFilled ==
    /\ pc = "filled" /\ Waited({0, 1}) /\ pc' = "loop"
    /\ UNCHANGED <<dmaVars, kernelVars>>

\* Request the next burst into pong.
FillPong ==
    /\ pc = "loop" /\ x < num_bursts /\ pc' = "add" /\ j' = 0
    /\ Request(IF x + 1 < num_bursts
               THEN Items(2, "READ", Burst("A", x + 1), <<"A", Pong>>)
                    \cup Items(3, "READ", Burst("B", x + 1), <<"B", Pong>>)
               ELSE {})
    /\ UNCHANGED <<memory, spm, x, ping>>

Add ==
    /\ pc = "add" /\ j < PerBurst /\ j' = j + 1
    /\ spm' = [spm EXCEPT ![<<"C", ping>>][j + 1] = <<spm[<<"A", ping>>][j + 1], spm[<<"B", ping>>][j + 1]>>]
    /\ UNCHANGED <<memory, flight, panic, x, ping, pc>>

\* The write before this one, from the C buffer of pong, is complete.
WriteResult ==
    /\ pc = "add" /\ j = PerBurst /\ Waited({4}) /\ pc' = "swap"
    /\ Request(Items(4, "WRITE", Burst("C", x), <<"C", ping>>))
    /\ UNCHANGED <<memory, spm, kernelVars>>

Swap ==
    /\ pc = "swap" /\ Waited({2, 3}) /\ pc' = "loop"
    /\ ping' = Pong /\ x' = x + 1
    /\ UNCHANGED <<dmaVars, j>>

Return ==
    /\ pc = "loop" /\ x = num_bursts /\ Waited({4}) /\ pc' = "done"
    /\ UNCHANGED <<dmaVars, kernelVars>>

Engine  == Transfer /\ UNCHANGED <<kernelVars, pc>>
Stopped == pc = "done" /\ UNCHANGED vars

Next ==
    \/ FillPing \/ PingFilled \/ FillPong \/ Add \/ WriteResult \/ Swap \/ Return
    \/ Engine
    \/ Stopped

Spec == Init /\ [][Next]_vars

-----------------------------------------------------------------------------
\* compare_golden: when the kernel returns, C is in memory, and every element
\* is the sum of the elements of A and B at its place.
SumInMemory ==
    pc = "done" => \A k \in 0..(Elements - 1) : memory[<<"C", k>>] = <<<<"A", k>>, <<"B", k>>>>

\* While the core adds, the engine leaves the three buffers of ping alone: the
\* write from the same C buffer two bursts ago is complete too.  No resource is
\* requested while it is busy.
PingSettled ==
    ~panic /\ (pc = "add" => \A f \in flight : f.buf[2] # ping)
=============================================================================
