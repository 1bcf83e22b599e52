---------------------------- MODULE GraphPipeline ----------------------------
(***************************************************************************)
(* The kernels sgraph_bellman_ford.c and sgraph_teenage_follower.c.  Their *)
(* kernel_best has a software pipeline: it reads the nodes in chunks, the  *)
(* next chunk while this one is processed, and the successors of the next  *)
(* node while those of this one are updated.  The updates go to the nodes  *)
(* in memory, behind the back of the chunks that are already copied.       *)
(* kernel_default works in memory.  The host compares the return value     *)
(* with that of its golden model.                                          *)
(***************************************************************************)
EXTENDS DmaBuffers, SequencesExt

CONSTANTS
    Kernel,   \* "bellman_ford" or "teenage_follower"
    Variant,  \* "best" or "default"
    NODES,
    Count,    \* nodes_count: nodes of a chunk
    Graphs,   \* graphs of create_graph: [0..NODES-1 -> [succ, weights, teenager]]
    Word      \* 2^w, for ulong_t

NC == Word - 1

Node == 0..(NODES - 1)

\* create_graph gives all edges of a node the same successor, not itself.
GraphsAssumption ==
    /\ NODES \in Nat \ {0} /\ Count \in Nat \ {0}
    /\ \A g \in Graphs, n \in Node :
         /\ Len(g[n].succ) = Len(g[n].weights)
         /\ \E s \in Node \ {n} : \A c \in 1..Len(g[n].succ) : g[n].succ[c] = s

VARIABLES
    graph,
    r, rr,    \* the node, and its place in the chunk
    ping,     \* nodes_ping is buffer ping, nodes_pong the other
    lists,    \* succ_ping and weights_ping are buffers lists
    num,      \* num_pongs
    curr,     \* curr_distance
    c,        \* edges of succ_ping that are done
    result,   \* checksum, total_followers
    pc

kernelVars == <<graph, r, rr, ping, lists, num, curr, c, result>>
vars == <<dmaVars, kernelVars, pc>>

Bellman == Kernel = "bellman_ford"

\* reset_graph_stats: the distance or the followers of a node
Start(n) == IF Bellman THEN (IF n = 0 THEN 0 ELSE NC) ELSE 0

Chunk(first) == [j \in 1..Count |-> <<"node", first + j - 1>>]

Init ==
    /\ graph \in Graphs
    /\ memory = [a \in {"node", "succ", "weights"} \X Node |->
                    CASE a[1] = "node"    -> [ID |-> a[2], value |-> Start(a[2])]
                      [] a[1] = "succ"    -> graph[a[2]].succ
                      [] a[1] = "weights" -> graph[a[2]].weights]
    /\ spm = [b \in {"node", "succ", "weights"} \X {1, 2} |-> [j \in 1..Count |-> Junk]]
    /\ flight = {} /\ panic = FALSE
    /\ r = 0 /\ rr = Count /\ ping = 1 /\ lists = 1 /\ num = -1 /\ curr = 0 /\ c = 0
    /\ result = 0
    /\ pc = IF Variant = "best" THEN "start" ELSE "default"

\* HMC_ATOMIC___IMIN, HMC_ATOMIC___INCR: an update of the node in memory
Update(n, value) == [memory EXCEPT ![<<"node", n>>].value = value]

Smaller(a, b) == IF a < b THEN a ELSE b

Value(n) == memory[<<"node", n>>].value

-----------------------------------------------------------------------------
(* kernel_best                                                             *)

StartPrefetch ==
    /\ pc = "start" /\ pc' = "loop"
    /\ Request(Items(0, "READ", Chunk(0), <<"node", 3 - ping>>))
    /\ UNCHANGED <<memory, spm, kernelVars>>

\* A chunk is used up: the next one is in pong, and the one after it is
\* requested, past the end too.
NextChunk ==
    /\ pc = "loop" /\ r < NODES /\ rr = Count /\ pc' = "fetch"
    /\ Waited({0})
    /\ rr' = 0 /\ ping' = 3 - ping
    /\ Request(Items(0, "READ", Chunk(r + Count), <<"node", ping>>))
    /\ UNCHANGED <<memory, spm, graph, r, lists, num, curr, c, result>>

SameChunk ==
    /\ pc = "loop" /\ r < NODES /\ rr # Count /\ pc' = "fetch"
    /\ UNCHANGED <<dmaVars, kernelVars>>

\* nodes_ping[rr]
This == spm[<<"node", ping>>][rr + 1]

\* Its edges are used.
Wanted(id) == graph[id].succ # <<>> /\ (Bellman \/ graph[id].teenager)

\* Fetch the successors, and for bellman_ford the weights, into pong.
Fetch ==
    /\ pc = "fetch" /\ pc' = "work" /\ c' = 0
    /\ Request(IF ~Wanted(This.ID) THEN {}
               ELSE Items(1, "READ", <<<<"succ", This.ID>>>>, <<"succ", 3 - lists>>)
                    \cup IF Bellman
                         THEN Items(2, "READ", <<<<"weights", This.ID>>>>, <<"weights", 3 - lists>>)
                         ELSE {})
    /\ UNCHANGED <<memory, spm, graph, r, rr, ping, lists, num, curr, result>>

\* An edge of the node before, from ping
Edge ==
    /\ pc \in {"work", "last"} /\ c < num
    /\ LET v == spm[<<"succ", lists>>][1][c + 1]
           w == spm[<<"weights", lists>>][1][c + 1]
       IN  IF Bellman
             THEN /\ memory' = Update(v, Smaller((curr + w) % Word, Value(v)))
                  /\ result' = (result + w) % Word
             ELSE memory' = Update(v, (Value(v) + 1) % Word) /\ UNCHANGED result
    /\ c' = c + 1
    /\ UNCHANGED <<spm, flight, panic, graph, r, rr, ping, lists, num, curr, pc>>

\* The lists of this node have arrived and become ping.
Collect ==
    /\ pc = "work" /\ c >= num /\ pc' = "loop"
    /\ IF Wanted(This.ID)
         THEN /\ Waited({1, 2})
              /\ num' = Len(graph[This.ID].succ) /\ curr' = This.value /\ lists' = 3 - lists
         ELSE num' = -1 /\ UNCHANGED <<curr, lists>>
    /\ r' = r + 1 /\ rr' = rr + 1
    /\ UNCHANGED <<dmaVars, graph, ping, c, result>>

\* After the loop the edges of the last node are left.
Leave ==
    /\ pc = "loop" /\ r = NODES /\ pc' = "last" /\ c' = 0
    /\ UNCHANGED <<dmaVars, graph, r, rr, ping, lists, num, curr, result>>

Total == FoldLeft(LAMBDA sum, n : (sum + Value(n - 1)) % Word, 0, [n \in 1..NODES |-> n])

\* teenage_follower adds up the followers in memory.
Return ==
    /\ pc = "last" /\ c >= num /\ pc' = "done"
    /\ result' = IF Bellman THEN result ELSE Total
    /\ UNCHANGED <<dmaVars, graph, r, rr, ping, lists, num, curr, c>>

-----------------------------------------------------------------------------
(* kernel_default                                                          *)

DefaultNode ==
    /\ pc = "default" /\ r < NODES /\ c = Len(graph[r].succ)
    /\ r' = r + 1 /\ c' = 0
    /\ UNCHANGED <<dmaVars, graph, rr, ping, lists, num, curr, result, pc>>

DefaultEdge ==
    /\ pc = "default" /\ r < NODES /\ c < Len(graph[r].succ) /\ c' = c + 1
    /\ LET v == graph[r].succ[c + 1]
           w == graph[r].weights[c + 1]
       IN  \/ /\ Bellman /\ Value(r) # NC /\ Value(v) > (Value(r) + w) % Word
              /\ memory' = Update(v, (Value(r) + w) % Word)
              /\ result' = (result + w) % Word
           \/ /\ ~Bellman /\ graph[r].teenager
              /\ memory' = Update(v, (Value(v) + 1) % Word) /\ UNCHANGED result
           \/ /\ IF Bellman THEN Value(r) = NC \/ Value(v) <= (Value(r) + w) % Word
                            ELSE ~graph[r].teenager
              /\ UNCHANGED <<memory, result>>
    /\ UNCHANGED <<spm, flight, panic, graph, r, rr, ping, lists, num, curr, pc>>

DefaultReturn ==
    /\ pc = "default" /\ r = NODES /\ pc' = "done"
    /\ result' = IF Bellman THEN result ELSE Total
    /\ UNCHANGED <<dmaVars, graph, r, rr, ping, lists, num, curr, c>>

-----------------------------------------------------------------------------
Best    == StartPrefetch \/ NextChunk \/ SameChunk \/ Fetch \/ Edge \/ Collect \/ Leave \/ Return
Default == DefaultNode \/ DefaultEdge \/ DefaultReturn
Engine  == Transfer /\ UNCHANGED <<kernelVars, pc>>

Stopped == pc = "done" /\ flight = {} /\ UNCHANGED vars

Next ==
    \/ ~panic /\ (Best \/ Default)
    \/ Engine
    \/ Stopped

Spec == Init /\ [][Next]_vars

-----------------------------------------------------------------------------
\* The edges <<u, v, w>> in the order of run_golden
Edges ==
    LET of(n) == [k \in 1..Len(graph[n].succ) |-> <<n, graph[n].succ[k], graph[n].weights[k]>>]
    IN  FoldLeft(LAMBDA es, n : es \o of(n - 1), <<>>, [n \in 1..NODES |-> n])

\* run_golden: the return value
Golden ==
    IF Bellman THEN FoldLeft(LAMBDA sum, e : (sum + e[3]) % Word, 0, Edges)
    ELSE Len(SelectSeq(Edges, LAMBDA e : graph[e[1]].teenager)) % Word

\* Nodes with a path from node 0
Reachable ==
    LET step[k \in 0..NODES] ==
          IF k = 0 THEN {0}
          ELSE step[k - 1] \cup {v \in Node : \E u \in step[k - 1] :
                                    \E j \in 1..Len(graph[u].succ) : graph[u].succ[j] = v}
    IN  step[NODES]

\* No resource is requested while it is busy, and the transfers in flight go
\* to the buffers that the kernel does not use: swap, DMA_WAIT and DMA_REQUEST
\* are in the right order.
BuffersSettled ==
    /\ ~panic
    /\ \A f \in flight : f.buf \notin {<<"node", ping>>, <<"succ", lists>>, <<"weights", lists>>}

\* main.cc compares the return value with that of run_golden: every edge is
\* used exactly once, whatever the order of the transfers.
ReturnsGolden == pc = "done" => result = Golden

\* utils.hh: "nodes[i].distance = NC; // Infinity".  A node that the
\* relaxations cannot reach from node 0 keeps it.
UnreachedStayInfinite == \A n \in Node : Value(n) # NC => n \in Reachable
=============================================================================
