------------------------------- MODULE GraphBfs -------------------------------
(***************************************************************************)
(* The kernels of sgraph_bfs.c: searches from the first nodes in turn,     *)
(* each over the nodes that no search has visited.  kernel_default reads   *)
(* the lists of successors in memory.  kernel_best requests the list of a  *)
(* node, visits the successors of the node before it meanwhile, and jumps  *)
(* back into the loop when the queue is empty but a list is left; its      *)
(* queue lies in the scratch pad, in front of the lists.                   *)
(***************************************************************************)
EXTENDS DmaBuffers, FiniteSets

CONSTANTS
    Variant,         \* "best" or "default"
    NODES,
    Graphs,          \* [0..NODES-1 -> the sequence of the successors]
    MAX_ITERATIONS,  \* searches
    Capacity         \* words of the buffer of the queue

Node == 0..(NODES - 1)
NC == NODES + 1
NULL == -1

GraphsAssumption ==
    /\ NODES \in Nat \ {0} /\ MAX_ITERATIONS \in 1..NODES
    /\ \A g \in Graphs, n \in Node : \A c \in 1..Len(g[n]) : g[n][c] \in Node \ {n}

VARIABLES
    graph,
    x,                           \* the search
    queue, head, tail, elements,
    v,                           \* the node that was popped, or NULL
    lists,                       \* succ_ping is buffer lists
    num, curr,                   \* num_pongs, curr_distance
    c,                           \* successors of the list that are visited
    total, pc

queueVars == <<queue, head, tail, elements>>
vars == <<dmaVars, queueVars, graph, x, v, lists, num, curr, c, total, pc>>

Best == Variant = "best"

\* reset_graph_stats
Init ==
    /\ graph \in Graphs
    /\ memory = [a \in {"node", "succ"} \X Node |->
                    IF a[1] = "succ" THEN graph[a[2]] ELSE IF a[2] = 0 THEN 0 ELSE NC]
    /\ spm = [b \in {1, 2} |-> <<Junk>>]
    /\ flight = {} /\ panic = FALSE
    /\ x = 0 /\ queue = [k \in Node |-> NULL] /\ head = 0 /\ tail = 0 /\ elements = 0
    /\ v = NULL /\ lists = 1 /\ num = -1 /\ curr = 0 /\ c = 0 /\ total = 0 /\ pc = "search"

Wrap(k) == IF k + 1 >= NODES THEN 0 ELSE k + 1

Distance(n) == memory[<<"node", n>>]

\* queue_init, queue_push(&nodes[x])
Search ==
    /\ pc = "search" /\ x < MAX_ITERATIONS /\ pc' = "while"
    /\ memory' = [memory EXCEPT ![<<"node", x>>] = 0]
    /\ queue' = [queue EXCEPT ![0] = x]
    /\ head' = Wrap(0) /\ tail' = 0 /\ elements' = 1
    /\ curr' = 0 /\ num' = -1
    /\ UNCHANGED <<spm, flight, panic, graph, x, v, lists, c, total>>

\* queue_top, queue_pop, and in kernel_best the request for the list
Pop ==
    /\ pc = "while" /\ elements > 0 /\ pc' = "visit"
    /\ v' = queue[tail] /\ tail' = Wrap(tail) /\ elements' = elements - 1 /\ c' = 0
    /\ Request(IF Best /\ graph[v'] # <<>>
               THEN Items(1, "READ", <<<<"succ", v'>>>>, 3 - lists) ELSE {})
    /\ UNCHANGED <<memory, spm, graph, x, queue, head, lists, num, curr, total>>

\* The list in use: that of the node before, or of the node itself
List == IF ~Best THEN graph[v] ELSE IF num = -1 THEN <<>> ELSE spm[lists][1]

\* A successor that is not visited yet gets its distance and is pushed.
Visit ==
    /\ pc = "visit" /\ c < Len(List) /\ c' = c + 1
    /\ LET succ == List[c + 1]
           d    == (IF Best THEN curr ELSE Distance(v)) + 1
       IN  \/ /\ Distance(succ) = NC
              /\ memory' = [memory EXCEPT ![<<"node", succ>>] = d]
              /\ total' = total + d
              /\ queue' = [queue EXCEPT ![head] = succ]
              /\ head' = Wrap(head) /\ elements' = elements + 1
           \/ Distance(succ) # NC /\ UNCHANGED <<memory, total, queue, head, elements>>
    /\ UNCHANGED <<spm, flight, panic, graph, x, tail, v, lists, num, curr, pc>>

\* In kernel_best the list of v has arrived and becomes ping.
Collect ==
    /\ pc = "visit" /\ c = Len(List) /\ pc' = "while"
    /\ IF Best /\ v # NULL /\ graph[v] # <<>>
         THEN /\ Waited({1})
              /\ num' = Len(graph[v]) /\ curr' = Distance(v) /\ lists' = 3 - lists
         ELSE num' = -1 /\ UNCHANGED <<curr, lists>>
    /\ UNCHANGED <<dmaVars, queueVars, graph, x, v, c, total>>

\* goto MY_LABEL with v = NULL: the queue is empty, but a list is left.
JumpBack ==
    /\ pc = "while" /\ elements = 0 /\ num # -1 /\ pc' = "visit"
    /\ v' = NULL /\ c' = 0
    /\ UNCHANGED <<dmaVars, queueVars, graph, x, lists, num, curr, total>>

\* FAULT (not the code): the list that is left is forgotten.
EndSearch_ListLeft ==
    /\ pc = "while" /\ elements = 0 /\ pc' = "search" /\ x' = x + 1
    /\ UNCHANGED <<dmaVars, queueVars, graph, v, lists, num, curr, c, total>>

EndSearch ==
    /\ pc = "while" /\ elements = 0 /\ num = -1 /\ pc' = "search" /\ x' = x + 1
    /\ UNCHANGED <<dmaVars, queueVars, graph, v, lists, num, curr, c, total>>

Return ==
    /\ pc = "search" /\ x = MAX_ITERATIONS /\ pc' = "done"
    /\ UNCHANGED <<dmaVars, queueVars, graph, x, v, lists, num, curr, c, total>>

Engine  == Transfer /\ UNCHANGED <<queueVars, graph, x, v, lists, num, curr, c, total, pc>>
Stopped == pc = "done" /\ UNCHANGED vars

Next ==
    \/ Search \/ Pop \/ Visit \/ Collect \/ JumpBack \/ EndSearch \/ Return
    \/ Engine
    \/ Stopped

Spec == Init /\ [][Next]_vars

-----------------------------------------------------------------------------
\* What the searches compute, without a queue: search s numbers the layers of
\* the nodes that node s reaches through nodes that were not visited before.
Layers(g) ==
    LET layer(dist, s) ==
          LET step[k \in 0..NODES] ==
                IF k = 0 THEN [dist |-> [dist EXCEPT ![s] = 0], front |-> {s}, sum |-> 0]
                ELSE LET old == step[k - 1]
                         new == {n \in Node : old.dist[n] = NC /\
                                    \E u \in old.front : \E j \in 1..Len(g[u]) : g[u][j] = n}
                     IN  [dist  |-> [n \in Node |-> IF n \in new THEN k ELSE old.dist[n]],
                          front |-> new, sum |-> old.sum + k * Cardinality(new)]
          IN  step[NODES]
        after[s \in 0..MAX_ITERATIONS] ==
          IF s = 0 THEN [dist |-> [n \in Node |-> IF n = 0 THEN 0 ELSE NC], sum |-> 0]
          ELSE LET this == layer(after[s - 1].dist, s - 1)
               IN  [dist |-> this.dist, sum |-> after[s - 1].sum + this.sum]
    IN  after[MAX_ITERATIONS]

\* The distances and the return value are those of a search by layers: the
\* pipeline visits the successors one node late, and must neither lose a list
\* nor use the distance of another node for it.
DistancesAreLayers ==
    pc = "done" => total = Layers(graph).sum /\ \A n \in Node : Distance(n) = Layers(graph).dist[n]

\* The list in use is complete, and DMA_RES1 is free when it is requested.
ListSettled == ~panic /\ \A f \in flight : f.buf # lists

\* The queue stays in its buffer and is never overwritten: the lists lie
\* behind it.  The assertion of the kernel does not show this; it compares the
\* number of elements with a number of bytes.
QueueFits == elements <= NODES /\ \A k \in Node : k >= Capacity => queue[k] = NULL
=============================================================================
