---------------------------- MODULE MCSkipLists -----------------------------
(* The skip list of the PIM in two layouts, one core with three levels, of  *)
(* which random_level uses two, or two cores with a partition each; and the *)
(* lock-free skip list of the host.  app says which, and the variables of   *)
(* the others are absent.                                                   *)
EXTENDS Integers

VARIABLES app, next, top, sreg0, sreg1, phase, slot, used, kpc, ki, pc, count,
          mainPc, mi, size, round, bits, call, got, nkey, nodes, th, was

High == INSTANCE PimSkipList WITH
    NumPartitions <- 1, PartitionMaxSize <- 4, InitialListSize <- 4, TotalOps <- 2, Rounds <- 1,
    NumMemBlocks <- 20, FillKeys <- {2}, OpKeys <- {2, 3}

Wide == INSTANCE PimSkipList WITH
    NumPartitions <- 2, PartitionMaxSize <- 2, InitialListSize <- 4, TotalOps <- 2, Rounds <- 1,
    NumMemBlocks <- 20, FillKeys <- {1, 4}, OpKeys <- {1, 3}

\* An adder, a remover of either key, and a reader.
Host == INSTANCE LfSkipList WITH
    Threads <- {"a", "b", "c"}, MaxKey <- 2, MaxLevel <- 3, InitialKeys <- {1}, MaxNodes <- 2, MaxCalls <- 1,
    Ops <- [a |-> {<<"add", 2>>}, b |-> {<<"remove", 2>>, <<"remove", 1>>}, c |-> {<<"contains", 2>>}]

vars == <<app, next, top, sreg0, sreg1, phase, slot, used, kpc, ki, pc, count,
          mainPc, mi, size, round, bits, call, got, nkey, nodes, th, was>>
hostOnly == <<nkey, nodes, th, was>>
pimOnly  == <<sreg0, sreg1, phase, slot, used, kpc, ki, pc, count, mainPc, mi, size, round, bits, call, got>>

Absent(v) == v = "absent"

WithoutHost == Absent(nkey) /\ Absent(nodes) /\ Absent(th) /\ Absent(was)
WithoutPim ==
    /\ Absent(sreg0) /\ Absent(sreg1) /\ Absent(phase) /\ Absent(slot) /\ Absent(used) /\ Absent(kpc)
    /\ Absent(ki) /\ Absent(pc) /\ Absent(count) /\ Absent(mainPc) /\ Absent(mi) /\ Absent(size)
    /\ Absent(round) /\ Absent(bits) /\ Absent(call) /\ Absent(got)

Init ==
    \/ app = "high" /\ High!SizeAssumption /\ High!FillAssumption /\ High!Init /\ WithoutHost
    \/ app = "wide" /\ Wide!SizeAssumption /\ Wide!FillAssumption /\ Wide!Init /\ WithoutHost
    \/ app = "host" /\ Host!LevelAssumption /\ Host!Init /\ WithoutPim

InHigh(A) == app = "high" /\ A /\ UNCHANGED <<app, hostOnly>>
InWide(A) == app = "wide" /\ A /\ UNCHANGED <<app, hostOnly>>
InHost(A) == app = "host" /\ A /\ UNCHANGED <<app, pimOnly>>

Next == InHigh(High!Next) \/ InWide(Wide!Next) \/ InHost(Host!Next)

\* Threads, main and the cores all keep running.
Spec ==
    /\ Init /\ [][Next]_vars
    /\ WF_vars(InHigh(High!Main) \/ InWide(Wide!Main) \/ InHost(Host!Thread("a")))
    /\ WF_vars(InHigh(High!Thread(0)) \/ InWide(Wide!Thread(0)) \/ InHost(Host!Thread("b")))
    /\ WF_vars(InHigh(High!Thread(1)) \/ InWide(Wide!Thread(1)) \/ InHost(Host!Thread("c")))
    /\ WF_vars(InHigh(High!Kernel(0)) \/ InWide(Wide!Kernel(0)))
    /\ WF_vars(InWide(Wide!Kernel(1)))

-----------------------------------------------------------------------------
\* The skip list is one at every moment.  On the PIM, the nodes of every level
\* lead in the order of their keys from the head to the tail, each level holds
\* exactly the nodes of the level below that are high enough, and all keys
\* belong to the partition (ADD and REMOVE of clean_skiplist.c).  On the host,
\* where levels are linked one by one, a key may occur twice on an upper level
\* next to a removed node (LFSkipList.hh).
WellFormed ==
    CASE app = "high" -> High!TypeOK /\ High!WellFormed
      [] app = "wide" -> Wide!TypeOK /\ Wide!WellFormed
      [] app = "host" -> Host!TypeOK /\ Host!Sorted

\* The threads see one set, although it is spread over the cores: an operation
\* takes effect when the core of its partition serves it, and the thread reads
\* the outcome of its own operation.  On the host the set changes only by the
\* one step in which an add or a remove takes effect.
ImplementsSet ==
    /\ CASE app = "high" -> High!Set!Init [] app = "wide" -> Wide!Set!Init [] OTHER -> TRUE
    /\ [][CASE app = "high" -> [High!Set!Next]_(High!Set!vars)
            [] app = "wide" -> [Wide!Set!Next]_(Wide!Set!vars)
            [] app = "host" -> Host!UpdateStep]_vars

\* An add or remove of the lock-free list that returns true has taken effect,
\* and every other answer was right at some moment of the call, although find
\* and contains take no lock.
AnswersJustified == app = "host" => Host!AnswersJustified

\* On the PIM, the program runs all its rounds and all cores sleep at the end.
\* On the host, the retries of find, add and remove end.
Terminates ==
    <>(IF app = "host" THEN \A t \in {"a", "b", "c"} : Host!Stopped(t)
       ELSE mainPc = "done" /\ \A p \in DOMAIN phase : phase[p] = "idle")
=============================================================================
