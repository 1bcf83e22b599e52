------------------------------ MODULE MCKernels ------------------------------
(* What the host offloads: the task, whose pages the driver puts into the   *)
(* slice table, and the kernels that work with DMA_REQUEST and DMA_WAIT.    *)
(* One of them is chosen in the initial state: app names it, and the        *)
(* variables of the others are absent.                                      *)
EXTENDS Integers, SequencesExt

VARIABLES app, memory, spm, flight, panic, graph, pc, r, rr, ping, lists, num, curr, c, result, i, roles,
          first, diff, count, x, queue, head, tail, elements, v, total, j, stage, data, range, sreg, pages,
          table, flushed, past, frame

vars == <<app, memory, spm, flight, panic, graph, pc, r, rr, ping, lists, num, curr, c, result, i, roles,
          first, diff, count, x, queue, head, tail, elements, v, total, j, stage, data, range, sreg, pages,
          table, flushed, past, frame>>

\* create_graph with step 1: all edges of a node lead to one other node.  Only
\* the weights, or only the teenagers, differ.
Lists(N, n, weights, degrees, teens) ==
    UNION {{[succ |-> [k \in 1..d |-> s], weights |-> w, teenager |-> t] :
               s \in (0..(N - 1)) \ {n}, w \in [1..d -> weights], t \in teens} : d \in degrees}
GraphsWith(N, weights, degrees, teens) ==
    {g \in [0..(N - 1) -> UNION {Lists(N, n, weights, degrees, teens) : n \in 0..(N - 1)}] :
        \A n \in 0..(N - 1) : g[n] \in Lists(N, n, weights, degrees, teens)}

WeightedGraphs == GraphsWith(3, {1, 2}, 0..2, {FALSE})
SocialGraphs   == GraphsWith(3, {1}, 0..2, {TRUE, FALSE})

Bellman == INSTANCE GraphPipeline WITH
    Kernel <- "bellman_ford", Variant <- "best", NODES <- 3, Count <- 2, Word <- 16, Graphs <- WeightedGraphs

BellmanD == INSTANCE GraphPipeline WITH
    Kernel <- "bellman_ford", Variant <- "default", NODES <- 3, Count <- 2, Word <- 16, Graphs <- WeightedGraphs

Teenage == INSTANCE GraphPipeline WITH
    Kernel <- "teenage_follower", Variant <- "best", NODES <- 3, Count <- 2, Word <- 16, Graphs <- SocialGraphs

TeenageD == INSTANCE GraphPipeline WITH
    Kernel <- "teenage_follower", Variant <- "default", NODES <- 3, Count <- 2, Word <- 16, Graphs <- SocialGraphs

\* Edges to the node after the next, with every choice of degrees: with five
\* nodes, enough chunks for the three buffers to change roles all the way round
RingGraphs(N, degrees) ==
    {[n \in 0..(N - 1) |-> [succ |-> (n + 2) % N, degree |-> d[n]]] : d \in [0..(N - 1) -> degrees]}

\* Every node has an edge, two equal edges, or none.
FanGraphs(N) ==
    {g \in [0..(N - 1) -> [succ : 0..(N - 1), degree : 0..2]] :
        \A n \in 0..(N - 1) : g[n].succ # n /\ (g[n].degree = 0 => g[n].succ = (n + 1) % N)}

RankBest == INSTANCE PageRank WITH
    Variant <- "best", NODES <- 5, Count <- 2, MAX_ITERATIONS <- 2, MAX_ERROR <- 0, Prompt <- TRUE,
    Graphs <- RingGraphs(5, 0..1)

\* kernel_coprocessor is right only for full chunks: the last one has two nodes.
RankCo == INSTANCE PageRank WITH
    Variant <- "coprocessor", NODES <- 4, Count <- 2, MAX_ITERATIONS <- 2, MAX_ERROR <- 0, Prompt <- FALSE,
    Graphs <- RingGraphs(4, 0..2)

RankDma1 == INSTANCE PageRank WITH
    Variant <- "dma1", NODES <- 3, Count <- 2, MAX_ITERATIONS <- 2, MAX_ERROR <- 0, Prompt <- TRUE,
    Graphs <- FanGraphs(3)

\* Any lists of successors without repetition
AllGraphs(N) ==
    {[n \in 0..(N - 1) |-> SetToSortSeq(s[n], <)] :
        s \in {t \in [0..(N - 1) -> SUBSET (0..(N - 1))] : \A n \in 0..(N - 1) : n \notin t[n]}}

\* create_graph with step 2: every other node has edges, all to one node
StepGraphs(N) ==
    LET even  == {n \in 0..(N - 1) : n % 2 = 0}
        edges == {<<>>} \cup {<<s>> : s \in 0..(N - 1)} \cup {<<s, s>> : s \in 0..(N - 1)}
    IN  {[n \in 0..(N - 1) |-> IF n \in even THEN g[n] ELSE <<>>] :
            g \in {h \in [even -> edges] : \A n \in even : \A k \in 1..Len(h[n]) : h[n][k] # n}}

Bfs == INSTANCE GraphBfs WITH
    Variant <- "best", NODES <- 4, MAX_ITERATIONS <- 2, Capacity <- 4, Graphs <- AllGraphs(4)

BfsD == INSTANCE GraphBfs WITH
    Variant <- "default", NODES <- 4, MAX_ITERATIONS <- 2, Capacity <- 4, Graphs <- AllGraphs(4)

\* A queue of one word less than there are nodes, as the layout of the scratch
\* pad gives it
BfsQ == INSTANCE GraphBfs WITH
    Variant <- "best", NODES <- 5, MAX_ITERATIONS <- 2, Capacity <- 4, Graphs <- StepGraphs(5)

Matrix == INSTANCE MatrixAdd WITH Elements <- 8, PerBurst <- 2

\* Pages of two bytes, up to three data sets in four pages, five frames
Task == INSTANCE OffloadTask WITH
    PAGE_SIZE <- 2, Addresses <- 2..7, Sizes <- {1, 3}, MaxData <- 3, Frames <- 11..15

\* A condition on the constants: it chooses no initial state.
Holds(condition) == condition = TRUE

Absent(value) == value = "absent"

noPipe == <<i, roles, first, diff, count, x, queue, head, tail, elements, v, total, j, stage, data, range,
            sreg, pages, table, flushed, past, frame>>
noRank == <<r, lists, num, curr, c, result, x, queue, head, tail, elements, v, total, j, stage, data, range,
            sreg, pages, table, flushed, past, frame>>
noBfs == <<r, rr, ping, result, i, roles, first, diff, count, j, stage, data, range, sreg, pages, table,
           flushed, past, frame>>
noMat == <<graph, r, rr, lists, num, curr, c, result, i, roles, first, diff, count, queue, head, tail,
           elements, v, total, stage, data, range, sreg, pages, table, flushed, past, frame>>
noTask == <<memory, spm, flight, panic, graph, pc, r, rr, ping, lists, num, curr, c, result, i, roles, first, diff,
            count, x, queue, head, tail, elements, v, total, j>>

WithoutPipe ==
    /\ Absent(i) /\ Absent(roles) /\ Absent(first) /\ Absent(diff) /\ Absent(count) /\ Absent(x)
    /\ Absent(queue) /\ Absent(head) /\ Absent(tail) /\ Absent(elements) /\ Absent(v) /\ Absent(total)
    /\ Absent(j) /\ Absent(stage) /\ Absent(data) /\ Absent(range) /\ Absent(sreg) /\ Absent(pages)
    /\ Absent(table) /\ Absent(flushed) /\ Absent(past) /\ Absent(frame)

WithoutRank ==
    /\ Absent(r) /\ Absent(lists) /\ Absent(num) /\ Absent(curr) /\ Absent(c) /\ Absent(result) /\ Absent(x)
    /\ Absent(queue) /\ Absent(head) /\ Absent(tail) /\ Absent(elements) /\ Absent(v) /\ Absent(total)
    /\ Absent(j) /\ Absent(stage) /\ Absent(data) /\ Absent(range) /\ Absent(sreg) /\ Absent(pages)
    /\ Absent(table) /\ Absent(flushed) /\ Absent(past) /\ Absent(frame)

WithoutBfs ==
    /\ Absent(r) /\ Absent(rr) /\ Absent(ping) /\ Absent(result) /\ Absent(i) /\ Absent(roles)
    /\ Absent(first) /\ Absent(diff) /\ Absent(count) /\ Absent(j) /\ Absent(stage) /\ Absent(data)
    /\ Absent(range) /\ Absent(sreg) /\ Absent(pages) /\ Absent(table) /\ Absent(flushed) /\ Absent(past)
    /\ Absent(frame)

WithoutMat ==
    /\ Absent(graph) /\ Absent(r) /\ Absent(rr) /\ Absent(lists) /\ Absent(num) /\ Absent(curr) /\ Absent(c)
    /\ Absent(result) /\ Absent(i) /\ Absent(roles) /\ Absent(first) /\ Absent(diff) /\ Absent(count)
    /\ Absent(queue) /\ Absent(head) /\ Absent(tail) /\ Absent(elements) /\ Absent(v) /\ Absent(total)
    /\ Absent(stage) /\ Absent(data) /\ Absent(range) /\ Absent(sreg) /\ Absent(pages) /\ Absent(table)
    /\ Absent(flushed) /\ Absent(past) /\ Absent(frame)

WithoutTask ==
    /\ Absent(memory) /\ Absent(spm) /\ Absent(flight) /\ Absent(panic) /\ Absent(graph) /\ Absent(pc) /\ Absent(r)
    /\ Absent(rr) /\ Absent(ping) /\ Absent(lists) /\ Absent(num) /\ Absent(curr) /\ Absent(c)
    /\ Absent(result) /\ Absent(i) /\ Absent(roles) /\ Absent(first) /\ Absent(diff) /\ Absent(count)
    /\ Absent(x) /\ Absent(queue) /\ Absent(head) /\ Absent(tail) /\ Absent(elements) /\ Absent(v)
    /\ Absent(total) /\ Absent(j)

Init ==
    \/ app = "bellman" /\ Holds(Bellman!GraphsAssumption) /\ Bellman!Init /\ WithoutPipe
    \/ app = "bellmanDefault" /\ Holds(BellmanD!GraphsAssumption) /\ BellmanD!Init /\ WithoutPipe
    \/ app = "teenage" /\ Holds(Teenage!GraphsAssumption) /\ Teenage!Init /\ WithoutPipe
    \/ app = "teenageDefault" /\ Holds(TeenageD!GraphsAssumption) /\ TeenageD!Init /\ WithoutPipe
    \/ app = "rankBest" /\ Holds(RankBest!GraphsAssumption) /\ RankBest!Init /\ WithoutRank
    \/ app = "rankCoprocessor" /\ Holds(RankCo!GraphsAssumption) /\ RankCo!Init /\ WithoutRank
    \/ app = "rankDma1" /\ Holds(RankDma1!GraphsAssumption) /\ RankDma1!Init /\ WithoutRank
    \/ app = "bfs" /\ Holds(Bfs!GraphsAssumption) /\ Bfs!Init /\ WithoutBfs
    \/ app = "bfsDefault" /\ Holds(BfsD!GraphsAssumption) /\ BfsD!Init /\ WithoutBfs
    \/ app = "bfsQueue" /\ Holds(BfsQ!GraphsAssumption) /\ BfsQ!Init /\ WithoutBfs
    \/ app = "matrix" /\ Holds(Matrix!SizeAssumption) /\ Matrix!Init /\ WithoutMat
    \/ app = "task" /\ Holds(Task!PageAssumption) /\ Task!Init /\ WithoutTask

InPipe(name, A) == app = name /\ A /\ UNCHANGED <<app, noPipe>>
InRank(name, A) == app = name /\ A /\ UNCHANGED <<app, noRank>>
InBfs(name, A) == app = name /\ A /\ UNCHANGED <<app, noBfs>>
InMat(name, A) == app = name /\ A /\ UNCHANGED <<app, noMat>>
InTask(name, A) == app = name /\ A /\ UNCHANGED <<app, noTask>>

Next ==
    \/ InPipe("bellman", Bellman!Next)
    \/ InPipe("bellmanDefault", BellmanD!Next)
    \/ InPipe("teenage", Teenage!Next)
    \/ InPipe("teenageDefault", TeenageD!Next)
    \/ InRank("rankBest", RankBest!Next)
    \/ InRank("rankCoprocessor", RankCo!Next)
    \/ InRank("rankDma1", RankDma1!Next)
    \/ InBfs("bfs", Bfs!Next)
    \/ InBfs("bfsDefault", BfsD!Next)
    \/ InBfs("bfsQueue", BfsQ!Next)
    \/ InMat("matrix", Matrix!Next)
    \/ InTask("task", Task!Next)
    \/ app = "task" /\ stage \in {"closed", "exit"} /\ UNCHANGED vars

Spec ==
    /\ Init /\ [][Next]_vars

-----------------------------------------------------------------------------
\* The kernel computes what the golden model of the host computes, whatever the
\* order of the transfers: every edge is used exactly once and ranks, layers and
\* sums are those of run_golden.  (kernel_default of bellman_ford returns another
\* value; there the nodes that node 0 does not reach stay at infinity.)
ComputesGolden ==
    CASE app = "bellman"         -> Bellman!ReturnsGolden
      [] app = "bellmanDefault"  -> BellmanD!UnreachedStayInfinite
      [] app = "teenage"         -> Teenage!ReturnsGolden
      [] app = "teenageDefault"  -> TeenageD!ReturnsGolden
      [] app = "rankBest"        -> RankBest!RanksAreGolden /\ RankBest!StopsAsGolden
      [] app = "rankCoprocessor" -> RankCo!RanksAreGolden
      [] app = "rankDma1"        -> RankDma1!RanksAreGolden /\ RankDma1!StopsAsGolden
      [] app = "bfs"             -> Bfs!DistancesAreLayers
      [] app = "bfsDefault"      -> BfsD!DistancesAreLayers
      [] app = "bfsQueue"        -> BfsQ!DistancesAreLayers
      [] app = "matrix"          -> Matrix!SumInMemory
      [] OTHER                   -> TRUE

\* The engine never touches a buffer while the core uses it, no resource is
\* requested while it is busy, and the queue of the search stays in its part of
\* the scratch pad: swap, DMA_WAIT and DMA_REQUEST are in the right order.
BuffersSettled ==
    CASE app = "bellman"         -> Bellman!BuffersSettled
      [] app = "teenage"         -> Teenage!BuffersSettled
      [] app = "rankBest"        -> RankBest!BuffersSettled /\ RankBest!NoBusyResource
      [] app = "rankCoprocessor" -> RankCo!BuffersSettled /\ RankCo!NoBusyResource
      [] app = "bfs"             -> Bfs!ListSettled
      [] app = "bfsQueue"        -> BfsQ!ListSettled /\ BfsQ!QueueFits
      [] app = "matrix"          -> Matrix!PingSettled
      [] OTHER                   -> TRUE

\* Through the pointers in its registers the PIM reaches every byte of the data in
\* the physical page where the process keeps it and which was written back, and
\* an entry of the slice table serves all pages of its slice.
PimSeesData ==
    app = "task" => Task!TypeOK /\ Task!PimSeesData /\ Task!TableConsistent
=============================================================================
