------------------------------- MODULE PageRank -------------------------------
(***************************************************************************)
(* The kernels of sgraph_page_rank.c.  An iteration has two loops: the     *)
(* first adds a share of every node's rank to the next rank of its         *)
(* successors in memory, the second makes the next rank of each node its   *)
(* rank.  kernel_dma1 reads the nodes of the first loop in chunks, dma2,   *)
(* coprocessor and best also pass those of the second loop through three   *)
(* buffers, Read, Process and Write, that change roles at every chunk.     *)
(*                                                                         *)
(* Ranks are natural numbers: a start rank and a base of 1, and the whole  *)
(* rank as share.  The scaling with 0.85 and the degree is left out; which *)
(* rank of which node is used when, and how often, is kept.                *)
(***************************************************************************)
EXTENDS DmaBuffers, FiniteSetsExt

CONSTANTS
    Variant,         \* "dma1", "dma2", "coprocessor" or "best"
    NODES,
    Count,           \* nodes_count: nodes of a chunk
    Graphs,          \* [0..NODES-1 -> [succ: a node, degree: its out_degree]]
    MAX_ITERATIONS,
    MAX_ERROR,
    Prompt           \* a transfer is over before the core has used a chunk

Node == 0..(NODES - 1)

\* create_graph gives all edges of a node the same successor, not itself.
GraphsAssumption ==
    /\ NODES \in Nat \ {0} /\ Count \in Nat \ {0} /\ MAX_ITERATIONS \in Nat \ {0}
    /\ \A g \in Graphs, n \in Node : g[n].succ \in Node \ {n} /\ g[n].degree \in Nat

VARIABLES
    graph,
    i, rr,    \* the node, and its place in the chunk
    ping,     \* nodes_ping is buffer ping, nodes_pong the other
    roles,    \* the buffers nodes_R, nodes_P and nodes_W
    first, diff, count, pc

kernelVars == <<graph, i, rr, ping, roles, first, diff, count>>
vars == <<dmaVars, kernelVars, pc>>

Chunked == Variant \in {"dma2", "coprocessor", "best"}

Chunk(start, n) == [j \in 1..n |-> <<"node", start + j - 1>>]

\* reset_graph_stats
Init ==
    /\ graph \in Graphs
    /\ memory = [a \in {"node", "succ"} \X Node |->
                    IF a[1] = "node" THEN [ID |-> a[2], page_rank |-> 0, next_rank |-> 0]
                                     ELSE graph[a[2]].succ]
    /\ spm = [b \in {"ping1", "ping2", "R", "P", "W", "succ"} |-> [j \in 1..Count |-> Junk]]
    /\ flight = {} /\ panic = FALSE
    /\ i = 0 /\ rr = Count /\ ping = "ping1" /\ roles = [R |-> "R", P |-> "P", W |-> "W"]
    /\ first = TRUE /\ diff = 0 /\ count = 0 /\ pc = "ranks"

Pong == IF ping = "ping1" THEN "ping2" ELSE "ping1"

StartRank == 1
Base == 1

\* The ranks of all nodes are set in memory.
SetRanks ==
    /\ pc = "ranks" /\ pc' = "begin"
    /\ memory' = [a \in DOMAIN memory |->
                    IF a[1] = "succ" THEN memory[a]
                    ELSE [memory[a] EXCEPT !.page_rank = StartRank, !.next_rank = Base]]
    /\ UNCHANGED <<spm, flight, panic, kernelVars>>

\* The core has done a loop since it requested the resource.
Over(res) == Prompt => Waited({res})

-----------------------------------------------------------------------------
(* The first loop                                                          *)

Begin ==
    /\ pc = "begin" /\ Over(0)
    /\ pc' = "one" /\ i' = 0 /\ rr' = Count
    /\ Request(Items(0, "READ", Chunk(0, Count), Pong))
    /\ UNCHANGED <<memory, spm, graph, ping, roles, first, diff, count>>

\* FAULT (not the code): the chunk is used while it is being read.
NextChunk_NoWait ==
    /\ pc = "one" /\ i < NODES /\ rr = Count
    /\ rr' = 0 /\ ping' = Pong
    /\ Request(Items(0, "READ", Chunk(i + Count, Count), ping))
    /\ UNCHANGED <<memory, spm, graph, i, roles, first, diff, count, pc>>

NextChunk ==
    /\ pc = "one" /\ i < NODES /\ rr = Count
    /\ Waited({0})
    /\ rr' = 0 /\ ping' = Pong
    /\ Request(Items(0, "READ", Chunk(i + Count, Count), ping))
    /\ UNCHANGED <<memory, spm, graph, i, roles, first, diff, count, pc>>

\* nodes_ping[rr]
This == spm[ping][rr + 1]

Ready == pc = "one" /\ i < NODES /\ rr # Count /\ This # Junk

\* kernel_best reads the list of the successors with DMA_RES1.
FetchList ==
    /\ Ready /\ Variant = "best" /\ pc' = "add"
    /\ Request(IF graph[This.ID].degree = 0 THEN {}
               ELSE Items(1, "READ", <<<<"succ", This.ID>>>>, "succ"))
    /\ UNCHANGED <<memory, spm, kernelVars>>

\* HMC_ATOMIC___FADD for every edge of the node
AddShares ==
    /\ \/ Variant = "best" /\ pc = "add" /\ Waited({1})
       \/ Variant # "best" /\ Ready
    /\ pc' = "one" /\ i' = i + 1 /\ rr' = rr + 1
    /\ LET d    == graph[This.ID].degree
           list == IF Variant = "best" THEN spm["succ"][1] ELSE graph[This.ID].succ
       IN  memory' = IF d = 0 THEN memory
                     ELSE [memory EXCEPT ![<<"node", list>>].next_rank = @ + d * This.page_rank]
    /\ UNCHANGED <<spm, flight, panic, graph, ping, roles, first, diff, count>>

-----------------------------------------------------------------------------
(* The second loop                                                         *)

\* "Wait in case previous loop is still using the DMA"
Turn ==
    /\ pc = "one" /\ i = NODES /\ pc' = "two"
    /\ i' = 0 /\ diff' = 0 /\ first' = TRUE /\ rr' = Count
    /\ IF Chunked
         THEN Waited({0}) /\ Request(Items(0, "READ", Chunk(0, Count), roles.R))
         ELSE UNCHANGED <<flight, panic>>
    /\ UNCHANGED <<memory, spm, graph, ping, roles, count>>

Rotated == [R |-> roles.W, P |-> roles.R, W |-> roles.P]

\* "Wait for READ and WRITE to complete", change the roles, read the next
\* chunk and write the last one.
Rotate ==
    /\ pc = "two" /\ Chunked /\ i < NODES /\ rr = Count
    /\ Waited({0, 1})
    /\ pc' = "process" /\ rr' = 0 /\ roles' = Rotated /\ first' = FALSE
    /\ Request(Items(0, "READ", Chunk(i + Count, Count), roles'.R)
               \cup IF first THEN {} ELSE Items(1, "WRITE", Chunk(i - Count, Count), roles'.W))
    /\ UNCHANGED <<memory, spm, graph, i, ping, diff, count>>

Renewed(item) ==
    IF item = Junk THEN Junk ELSE [item EXCEPT !.page_rank = item.next_rank, !.next_rank = Base]

\* The change of a rank, arbitrary for what is not a node
Changes(item) ==
    IF item = Junk THEN {0, MAX_ERROR + 1}
    ELSE {IF item.next_rank < item.page_rank THEN item.page_rank - item.next_rank
                                             ELSE item.next_rank - item.page_rank}

ProcessNode ==
    /\ pc = "process" /\ Variant # "coprocessor"
    /\ \E f \in Changes(spm[roles.P][rr + 1]) : diff' = diff + f
    /\ spm' = [spm EXCEPT ![roles.P][rr + 1] = Renewed(@)]
    /\ i' = i + 1 /\ rr' = rr + 1
    /\ pc' = IF rr' = Count \/ i' = NODES THEN "two" ELSE "process"
    /\ UNCHANGED <<memory, flight, panic, graph, ping, roles, first, count>>

\* CMD_CUSTOM_PR1: the coprocessor does a whole chunk; the loop leaves rr alone.
Coprocessor ==
    /\ pc = "process" /\ Variant = "coprocessor" /\ pc' = "two"
    /\ \E fs \in [1..Count -> UNION {Changes(spm[roles.P][j]) : j \in 1..Count}] :
         /\ \A j \in 1..Count : fs[j] \in Changes(spm[roles.P][j])
         /\ diff' = diff + MapThenSumSet(LAMBDA j : fs[j], 1..Count)
    /\ spm' = [spm EXCEPT ![roles.P] = [j \in 1..Count |-> Renewed(@[j])]]
    /\ i' = i + Count /\ rr' = Count
    /\ UNCHANGED <<memory, flight, panic, graph, ping, roles, first, count>>

\* "Boundary condition: we have to write back the data".  Only
\* kernel_coprocessor waits for the write of the chunk before.
WriteBack ==
    /\ pc = "two" /\ Chunked /\ i >= NODES /\ pc' = "flush"
    /\ IF Variant = "coprocessor" THEN Waited({1}) ELSE Over(1)
    /\ roles' = Rotated
    /\ Request(Items(1, "WRITE", Chunk(NODES - rr, rr), roles'.W))
    /\ UNCHANGED <<memory, spm, graph, i, rr, ping, first, diff, count>>

\* kernel_dma1 does the second loop in memory.
MemoryNode ==
    /\ pc = "two" /\ ~Chunked /\ i < NODES
    /\ memory' = [memory EXCEPT ![<<"node", i>>] = Renewed(@)]
    /\ \E f \in Changes(memory[<<"node", i>>]) : diff' = diff + f
    /\ i' = i + 1
    /\ UNCHANGED <<spm, flight, panic, graph, rr, ping, roles, first, count, pc>>

\* while (++count < MAX_ITERATIONS && diff > MAX_ERROR)
Iterate ==
    /\ \/ pc = "flush" /\ Waited({0, 1})
       \/ pc = "two" /\ ~Chunked /\ i = NODES
    /\ count' = count + 1
    /\ pc' = IF count' < MAX_ITERATIONS /\ diff > MAX_ERROR THEN "begin" ELSE "done"
    /\ UNCHANGED <<dmaVars, graph, i, rr, ping, roles, first, diff>>

-----------------------------------------------------------------------------
Kernel ==
    \/ SetRanks \/ Begin \/ NextChunk \/ FetchList \/ AddShares \/ Turn
    \/ Rotate \/ ProcessNode \/ Coprocessor \/ WriteBack \/ MemoryNode \/ Iterate

Engine == Transfer /\ UNCHANGED <<kernelVars, pc>>
Stopped == pc = "done" /\ flight = {} /\ UNCHANGED vars

Next ==
    \/ ~panic /\ Kernel
    \/ Engine
    \/ Stopped

Spec == Init /\ [][Next]_vars

-----------------------------------------------------------------------------
\* run_golden: the ranks after k iterations, and the change of the last one
GoldenRanks(g) ==
    LET rank[k \in 0..MAX_ITERATIONS] ==
          IF k = 0 THEN [n \in Node |-> StartRank]
          ELSE [n \in Node |-> Base + MapThenSumSet(
                   LAMBDA u : IF g[u].succ = n THEN g[u].degree * rank[k - 1][u] ELSE 0, Node)]
    IN  rank

GoldenDiff(k) ==
    LET old == GoldenRanks(graph)[k - 1]
        new == GoldenRanks(graph)[k]
    IN  MapThenSumSet(LAMBDA n : IF new[n] < old[n] THEN old[n] - new[n] ELSE new[n] - old[n], Node)

\* After every iteration the memory holds the ranks of the golden model, each
\* in its own node, ready for the next iteration, and diff is its diff: no
\* chunk is lost, used twice, used too early or written over a later one.
RanksAreGolden ==
    (pc \in {"begin", "done"} /\ count > 0) =>
        /\ \A n \in Node : memory[<<"node", n>>] =
              [ID |-> n, page_rank |-> GoldenRanks(graph)[count][n], next_rank |-> Base]
        /\ diff = GoldenDiff(count)

\* The kernel stops when the golden model stops.
StopsAsGolden ==
    pc = "done" =>
        /\ count = MAX_ITERATIONS \/ GoldenDiff(count) <= MAX_ERROR
        /\ \A k \in 1..(count - 1) : GoldenDiff(k) > MAX_ERROR

\* The engine never touches a buffer while the core is using it.
BuffersSettled ==
    \A f \in flight :
        /\ pc \in {"one", "add"} => f.buf # ping
        /\ pc = "process" => f.buf # roles.P
        /\ f.command = "WRITE" => f.buf = roles.W

\* No resource is requested while a request for it is in progress: the
\* engine would panic with "DMA resource is already busy!".
NoBusyResource == ~panic
=============================================================================
