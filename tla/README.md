# Verification of the SMC simulator's near-data-processing stack

This directory holds TLA+ models of the parts of this repository that run
concurrently, the TLC configurations that check them on small instances, and
TLAPS proofs of their main safety properties for every size. File names below
are relative to `src/SMC/`; `GEM5` stands for `GEM5/gem5/src`.

## 1. The system

The simulator models a Hybrid-Memory-Cube-like memory with processors, the PIM
cores, on its logic layer. Host programs offload kernels to them.

| Part | Where | Modules |
|---|---|---|
| Command handshake: host library and resident program | `SW/HOST/api/pim_api.cc`, `SW/PIM/resident/` | `PimHandshake`, `OffloadCall`; proved |
| PIM linked list: non-stop kernel and host program | `SW/PIM/kernels/clean_linked_list.c`, `SW/HOST/app/multithread_nonstop_pim_linkedlist/` | `NdpList`, `LinearSet`; proved |
| DMA engine of the PIM core | `GEM5/dev/ethz_dma.cc`, `.hh` | `EthzDma`; safety proved |
| The handshake with kernels that use the engine | both of the above | `DmaCall` |
| Single-PIM queue | `SW/PIM/kernels/singlepim_queue.c`, `SW/HOST/app/multithread_pim_queue/main_singlepim.cc` | `SinglePimQueue`, `LinearQueue`; proved |
| Partitioned PIM queue | `SW/PIM/kernels/clean_queue.c`, `SW/HOST/app/multithread_pim_queue/main.cc` | `PimQueue`, `LinearQueue` |
| PIM skip list | `SW/PIM/kernels/clean_skiplist.c`, `SW/HOST/app/multithread_nonstop_pim_skiplist/` | `PimSkipList`, `LinearSet` |
| Host baselines: lazy list, flat combining, lock-free queues and skip list | `SW/HOST/app/multithread_*` | `LazyList`, `FlatCombine`, `FcList`, `FcQueue`, `LfQueue`, `LfArrayQueue`, `LfSkipList` |
| Offloading a task: `PIMTask` and the driver's slice table | `SW/HOST/api/pim_task.cc`, `SW/HOST/driver/pim.c` | `OffloadTask` |
| TLB of the PIM core | `GEM5/mem/ethz_tlb.cc` | `EthzTlb`; safety proved |
| Load distributor and serial links | `GEM5/mem/load_distributor.cc`, `xbar.cc`, `bridge.cc` | `SmcLinks` |
| Graph and matrix kernels with DMA pipelines | `SW/PIM/kernels/sgraph_*.c`, `matrix_add.c` | `DmaBuffers`, `GraphPipeline`, `PageRank`, `GraphBfs`, `MatrixAdd` |
| PIM memory device (registers), interrupts and wfi | `GEM5/mem/ethz_pim_memory.cc`, `GEM5/arch/arm/isa/insts/misc.isa` | as far as the modules above use them |
| PIM interface, measurement programs, boot code, scripts, gem5 itself | see `PROJECT.json` | not modelled (section 8) |

How they interact. A host program collects its data in a `PIMTask`, whose pages
the driver pins and describes in a slice table. It loads a kernel image and calls
`start_computation`, which passes a command through two registers and wakes the
core; the resident loop of the core runs the kernel and reports back. Kernels
work in one of two ways. Those for graphs and matrices are called once per task
and move data with the DMA engine (`DMA_REQUEST`, `DMA_WAIT`), whose interrupts
also wake the core from `wfi`. The non-stop ones, for lists and queues, are
started once and then serve requests that host threads publish in slots of the
core's vector register file. The engine and the core translate addresses with a
TLB that is refilled from the slice table. The host reaches the cube over serial
links behind a load distributor. The host baselines are the data structures that
the PIM versions are compared with.

The PIM core runs with interrupts masked: an interrupt never enters a handler,
it only makes `wfi` return. This is what makes the wake-up protocols delicate.

The models are composed where the parts meet. `DmaCall` joins `PimHandshake` and
`EthzDma` and is shown to implement `PimHandshake` alone. `SinglePimQueue`,
`PimQueue` and `PimSkipList` start and close their cores by the phases of
`OffloadCall`, which `PimHandshake` implements. The graph kernels run over
`DmaBuffers`, which says of a transfer what `EthzDma` guarantees: items arrive one
by one in any order, and all of them before `DMA_WAIT` returns. `EthzTlb` reads a
table with the properties that `OffloadTask` shows of the driver's.

## 2. Modules

Every module begins with a comment that says what it models and what one action
is; every variable has a comment naming the register, field or local it stands
for. `PROJECT.json` maps each definition to its lines of source.

| Module | What it is |
|---|---|
| `OffloadCall`, `LinearSet`, `LinearQueue` | abstract specifications: a remote call, a linearizable bounded set, a linearizable first-in first-out queue |
| the modules of section 1 | the components |
| `PimHandshakeProofs` | theorems about the handshake |
| `NdpListProofs`, `NdpListSetProofs` | theorems about the PIM list: the slots, the list, the inductive invariant and the modes; the answers and the refinement of `LinearSet` |
| `SinglePimQueueProofs` | theorems about the single-PIM queue: slots and counters, length, window and refinement |
| `EthzDmaProofs`, `EthzDmaTransferProofs` | theorems about the DMA engine: wake-up, one request and the steps of the engine; answers, kernel and theorems |
| `EthzTlbProofs`, `EthzTlbLruProofs` | theorems about the TLB: translation, answers and panics; replacement of the least recently used rule |
| `MCPimHandshake`, `MCNdpList`, `MCEthzDma`, `MCSinglePimQueue`, `MCPimQueue` | instances of one component for TLC |
| `MCSkipLists`, `MCHostStructures`, `MCKernels`, `MCMemoryPath` | suites: instances of several components for TLC |

A suite has a variable `app` that names one component in the initial state and
never changes. The variables of the other components are `"absent"`, and a step
is a step of the chosen component, so the reachable states are the disjoint union
of those of the components. A property of a suite is, for each `app`, the
property of that component with the same meaning: that the structure is well
formed, that it implements its abstract specification, that it ends.

An operator whose comment begins with `FAULT (not the code)` is a deliberately
wrong variant of the definition below it. It is never part of a specification;
substituting it for that definition must make the property named in
`PROJECT.json` fail, which shows that the property depends on that line of code.

### PimHandshake

One action is one access to a register, so every interleaving between two
accesses is explored.

| Variable | Code |
|---|---|
| `status`, `command` | `PIM_STATUS_REG`, `PIM_COMMAND_REG` |
| `intr` | an interrupt is pending at the core (`BaseCPU::postInterrupt`) |
| `draining` | the DMA engine is active and will post an interrupt |
| `pimPc`, `hostPc` | places in `c_entry`; in `start_computation` and `wait_for_completion` |
| `error` | why `pim_error` wrote `PIM_ERROR_REG`, which ends the simulation |
| `request`, `started`, `executed` | history: the call in progress and the counts |
| `late` | history: `PIM_DMA_CLI` was executed while the engine was active |

`StartComputation`, `PollSleep`, `GiveCommand`, `WakeUp` are the lines of
`start_computation`; `WaitForCompletion`, `PollDone`, `GiveNop` those of the two
`wait_for_completion` functions, which access the registers alike. `Wfi` to
`SetSleep` is one round of the resident loop. `WakeUp` contains what the device
does in the same access: it posts the interrupt and clears it again. Of the DMA
engine only the interrupts are here: while a kernel runs it may become active and
post (`KernelUsesDma`), and as long as it is active it posts, wherever the core is
by then (`EngineInterrupts`). Nothing bounds the time it takes.

So `PIM_DMA_CLI` (`ClearInterrupt`) does not always come last. A kernel that waits
for all its transfers leaves the engine one clock from draining, and one that does
not (`sgraph_bellman_ford.c:237`) leaves it a whole transfer; the host's NOP comes
first, and the code relies on that being long enough. The history `late` records
when it was not. `ExactlyOnce`, `AssertionsHold` and `ImplementsOffloadCall` hold
all the same. What the code guarantees about a wake-up without a command is
`NoSpuriousWakeUp`: it happens only after such a `PIM_DMA_CLI`.

`OffloadCall` is what the pair promises: a call is served exactly once, with its
own command, before it returns. The refinement mapping (`callPhase`) says that a
call is served when the kernel has ended.

### NdpList

One action is one access to a register or slot that the other side also uses.
The list itself is private to the core; its steps are as fine as the kernel's
loops.

| Variable | Code |
|---|---|
| `sreg0`, `ready` | `PIM_SREG[0]` (the mode), `PIM_SREG[1]` (initialization is over) |
| `slot`, `param` | `info_bits` and `parameter` of the request slots |
| `pc`, `info`, `req`, `ops`, `got` | per thread: place in `LINKED_LIST_OPERATION`, its copy of `info_bits`, the operation, its count, `pim_res` |
| `mainPc`, `todo`, `round` | place in `main`, initial keys still to add, rounds of threads |
| `head`, `tail`, `key`, `next`, `free` | the nodes and the free list in the vault |
| `pimPc`, `gi`, `batch`, `rank`, `cur`, `pred`, `curr`, `opType`, `arg`, `retval` | the kernel and its locals |
| `outcome` | history: what the kernel decided for the open operation |

The macros of `defs.hh` on `info_bits` keep their names. The kernel reads
`PIM_SREG[0]` anew for each comparison (`TestInit`, `TestFill`, `TestTerminate`),
gathers valid slots one by one (`Gather`), sorts them by the parameters it reads
then (`Sort`), reads operation and parameter again (`NextRequest`), moves the
cursors (`Seek`), applies the operation (`Apply`), and hands the slot back in two
writes (`SetRetval`, `ClearRequest`). `quicksort` is represented by the order it
establishes; it leaves equal keys in any order. A free block's link overlays its
key field, so freeing a block destroys its key (`FreeLink`).

`LinearSet` says what the threads may rely on: each operation takes effect once,
atomically, between its call and its return, and an add fails exactly when the
key is present or the memory is full. It takes effect at `Apply` or `FillAdd`.

### EthzDma and DmaCall

| Variable | Code |
|---|---|
| `requests`, `current`, `state`, `scheduled` | the vector of `DMARequest`, `current_index`, `current_state`, a pending `nextState` event |
| `status` | `dma_resources` and `PIM_DMA_STATUS`, which are written together |
| `packets` | lines sent to memory and not yet answered |
| `intr`, `pc`, `waitFor`, `held`, `count` | the interrupt, the kernel's place, the `DMA_WAIT` in progress, resources in use, requests made |
| `panic` | an assertion or `panic` of the engine has fired |

`Drain`, `Idle` and `Work` (`TlbRefill`, `Transfer`) are the cases of `nextState`;
`HandlePacket` is `handle_packet` with all it does (matching by address, the byte
count, erasing the request, freeing the resource, waking the core). `DmaRequest`
is `initiate_read` or `initiate_write`, which differ in the direction of the data
only, and includes the call of `nextState` when no event is pending. Addresses
are small numbers and a virtual address stands for its translation. That is sound
because slices do not overlap physically. An index that has run past the vector
sets `panic`: the code would read outside of it.

`DmaCall` lets the kernel of a `PimHandshake` call use the engine. Core, host and
engine share one interrupt. `Return` is the end of a kernel: it has waited for its
transfers, except those on the resources in `Unawaited`, on which it may have made a
last prefetch. The engine then drains at any step of the resident loop or of the
host. `ImplementsHandshake` shows that this engine does to the handshake what
`KernelUsesDma` and `EngineInterrupts` say, with `draining` for a pending event:
it posts only while it is active, and never stops without a post.

### The queues and the skip list of the PIM

`SinglePimQueue` is a circular buffer without a test for empty or full; threads
alternate enqueue and dequeue, every other thread beginning with a dequeue.
`PimQueue` is a ring of cores, each with a segment of the queue; the thread whose
request fills or empties a segment starts the next core and closes the old one
while others may still be asking it. `PimSkipList` spreads a skip list over cores
by key. In all three one action is one access to a register, slot or variable
that another program also uses. `call` and `got` are the history that the
abstract specifications read. A node of the skip list is represented by its key,
because a removed block is never used again, and a search with the update that
follows is one action, because a core's list is its own.

### The host baselines

One action is one access to shared memory, or several of which only the last can
matter to another thread; `th[t]` holds the place and the locals of thread `t`.
`FlatCombine` is the protocol that four classes share, and `FcList` and `FcQueue`
add their structures; its constants name the points where the classes differ.
Nodes of the lock-free structures are never freed, as in the code.

### Offloading, TLB, links and kernels

`OffloadTask` goes through `addData`, `updatePages`, `offload_task` and the `ioctl`
of the driver with every layout of pages in physical memory. `EthzTlb` has one
action per event with all the synchronous calls gem5 makes in it, so an answer
includes the core's retry; ticks are kept up to their order. The packet's `refused`
is history: the bus has refused this request. `SmcLinks` follows
the retry protocol of gem5 ports: a retry is a call in which the sender tries
again before it returns. The kernels keep their buffers, their order of
`DMA_REQUEST`, `DMA_WAIT` and swaps, and their loops; `PageRank` has natural
numbers for ranks, with the scaling left out.

## 3. Runs

| Run | Expect | Question |
|---|---|---|
| `handshake` | pass, 1,113 states | Is every call executed exactly once and in order, with no assertion of the resident loop failing, whenever the DMA engine interrupts; can a wake-up without a command come from anything but an engine that drains after `PIM_DMA_CLI`; does the pair implement `OffloadCall`; does a command that was taken complete? |
| `lost_wake_up` | violation | Does a write to `PIM_INTR_REG` always wake the core? |
| `list` | pass, 260,497 states | Is a published request stable while the kernel reads it twice; is the list sorted and free of leaks after every step; do the modes of `main` and the kernel agree; is the whole a linearizable set; is every request answered? |
| `list_fill_race` | violation | Are only initial adds served in the mode of initial adds, with no assumption on timing? |
| `dma` | pass, 8,924 states | Does no assertion fire, does `PIM_DMA_STATUS` tell the truth, is every byte issued, does a finished `DMA_WAIT` mean the data is there, and is a sleeping core always woken? |
| `dma_fast_core` | violation | Are requests kept apart when one arrives while another is being issued? |
| `single_pim_queue` | pass, 40,748 states | Is a circular buffer without tests for empty or full a first-in first-out queue for these programs, and do they end? |
| `pim_queue` | pass, 189,178 states | Is the ring of segments one first-in first-out queue while partitions move on and come round; does no core serve a request it was not asked? |
| `skip_lists` | pass, 171,098 states | Are the levels sublists of each other; do the threads see one set over several cores; was every answer of the lock-free list right at some moment of the call; do the programs end? |
| `host_structures` | pass, 269,468 states | Does each baseline implement its set or queue, is what it does without locks right, and does nobody wait for ever? |
| `kernels` | pass, 1,320,869 states | Does the driver's slice table lead to the right pages; do the kernels compute what the golden models compute with transfers that end in any order; is no buffer used while a transfer into or out of it is under way? |
| `memory_path` | pass, 83,671 states | Are requests translated, refused, retried and answered without loss; does the TLB evict the least recently used rule; do the handshake and the DMA engine together implement the handshake? |

### The disagreements the violation runs show

- `lost_wake_up`: the resident loop writes `PIM_STATUS_SLEEP` before it executes
  `wfi`. A host that sees the status and wakes the core in between posts an
  interrupt that the device clears in the same access; the core then sleeps with
  the command waiting. Only the relative speed of the two sides, which nothing in
  the code enforces, keeps the gap from being hit.
- `list_fill_race`: the kernel tests the mode and then the valid bit of slot 0.
  A request published in the new mode between the two is served in the old one,
  as an add whatever it is.
- `dma_fast_core`: requests are inserted at the front of the vector while the
  engine remembers the one it works on by its index.

### Other disagreements met while modelling

These were found by TLC on instances of the same modules and have no run here.
Each is an instance outside the assumptions that section 4 lists, a case that a
property names as its exception, or a wording.

- `clean_linked_list.c:191`: `list_init` releases the host before the kernel writes
  its own mode, so with no initial keys the kernel overwrites the mode `main`
  selected (`main.cc:236`). The mode it writes is 3; `main.cc:182` says 1.
- `ethz_dma.hh:66`: a range is kept with an inclusive end and tested against an
  exclusive one, so a last piece of a single byte is not transferred.
- `multithread_pim_queue/main.cc:69`: a thread that is overtaken between reading
  `enq_part` and publishing, until the ring has come round, has its enqueue
  served as a dequeue.
- `ethz_tlb.cc`: a refill for the core can evict the rule the DMA engine has found
  one clock before (`:95` "should never fail"); with timing refills the two can
  collide (`:756`); a second configured range shifts the ticks by one rule
  (`:68`); a refused packet that comes back is answered with its physical address
  (`:339`); in atomic mode an HMC command refills the wrong address (`:315`).
- `driver/pim.c`: the loop that merges pages does not stop at `pages.count` (`:454`);
  a failure to pin is reported as success (`:240`).
- `app_utils.hh:69`: the allocator of the lazy list is not locked, so two adds may
  get the same node.
- `LFArrayQueue.h:106`: `enq` moves the index before it writes the cell, so a `deq`
  can read a reserved cell early; `UnlockedIsRight` says that this is the only case in
  which it finds none.
- `multithread_nonstop_pim_skiplist/main.cc:276`: the fill counts a repeated key.
  `clean_skiplist.c`: a removed block is not freed (`:179`), and the REMOVE of
  `kernel_reduce_redundancy` unlinks nothing (`:307`).
- `LFSkipList.hh:84`: `findAndClean` begins a level with a pointer whose mark it has
  not stripped.
- `sgraph_bellman_ford.c`: the kernel returns with its last prefetch in flight
  (`:237`), and so does `sgraph_teenage_follower.c` (`:170`). If the engine drains after
  `PIM_DMA_CLI` (`late`), its interrupt wakes the resident loop without a command;
  or with one, before `wake_up`, which then clears the interrupt that a `DMA_WAIT` of
  the new kernel needs, and that kernel sleeps for ever.
  `kernel_best` adds a weight to infinity (`:253`); `kernel_default` returns another
  checksum than the golden model (`:39`).
- `sgraph_page_rank.c`: the last write of `kernel_best` can find its resource busy
  (`:645`); `kernel_coprocessor` writes a short last chunk to the wrong place
  (`:483`).
- `load_distributor.cc:59`: a read can overtake a write-back of the same line on
  another link, although `bridge.cc:221` asks for order.
- `pim_api.hh:35` calls `start_computation` non-blocking although it polls for
  `SLEEP`, and `:36` says that `wait_for_completion_simple` sends no NOP although it
  does (`pim_api.cc:142`).

## 4. Bounds and assumptions

Bounds of the instances:

- `handshake`: three calls are enough for a call to meet what two earlier ones
  left behind in the registers. One of three commands is not executable, so the
  error path is taken.
- `list`: two threads with one operation each reach every batch of size 0, 1 and
  2, equal and different keys, and every pair of operations. Keys 1 and 3 are
  there from the start, so 2 is an add between two nodes. Five blocks leave one
  free block after the fill, so the second add of a batch finds the vault full,
  and a remove before it makes room.
- `dma`: slices of 4 bytes and lines of 2. The transfers are one slice of two
  lines, an unaligned range over two slices, and a range that starts inside a
  slice, on two resources. Three requests let a resource be reused while the
  other is busy. A pool of four completion events stands for the code's 16; it is
  reached and not exceeded.
- `single_pim_queue`: a round of two threads and one of four, on four items with
  two from the start, so the buffer wraps and both limits are touched.
- `pim_queue`: three cores with segments of two items and three operations per
  thread: both partitions move on several times, and a core is used again.
- `skip_lists`: one core with three levels; two cores with a partition each; three
  threads on the lock-free list, which adds, removes and looks up the same keys.
- `host_structures`: two threads (three for the array queue, whose single initial
  item lets a `deq` catch up with an `enq`), keys and items so few that every
  operation meets another one at the same place; slots of flat
  combining age at once, so they are unlinked and linked again.
- `kernels`: all graphs of `create_graph`'s shape with three to five nodes, two
  nodes to a chunk, so that the last chunk is short and three buffers change roles
  all the way round; a matrix in four bursts; three data sets in four pages.
- `memory_path`: a TLB with room for fewer rules than there are slices, in timing,
  ideal and atomic mode and with the vault as a second configured range; two links
  with room for one request and one response each; two commands whose kernels
  make requests on two resources and wait for one of them before they return.

Named bounds in the modules: `MaxStarts`, `OpsPerThread`, `Rounds`, `TotalOps`,
`MaxRequests`, `MaxNodes`, `MaxCalls`, `NumOps`, `NPackets`, `MAX_ITERATIONS`.

Some constants state assumptions on time that the code relies on and does not
enforce:

- `SlowSpawn` (`NdpList`): `pthread_create` takes longer than the kernel takes from
  its test of `PIM_SREG[0] == 3` to its test of slot 0. Switched off in
  `list_fill_race`.
- `SlowCore` (`EthzDma`): the four register writes of a `DMA_REQUEST` take longer
  than the few clocks in which the engine puts earlier requests in flight.
  Switched off in `dma_fast_core`.
- `PromptHandOver` (`PimQueue`): when a partition comes round again, its core has
  been closed and nobody is still about to ask it.
- `Prompt` (`PageRank`): the write of a chunk ends while the next is processed.

That the DMA engine has drained when the resident loop executes `PIM_DMA_CLI` is such
an assumption too. It is not a constant but the exception `late` in the properties
that need it: `NoSpuriousWakeUp`, `NothingLeftBehind` and `AccessCompletes`.

Other assumptions, each a condition on the constants that TLC evaluates:

- `SizesAssumption` (`EthzDma`): no transfer is a single byte or ends with the first
  byte of a slice. `EventsAssumption`: the completion events suffice for one
  transfer on each resource. A slice is at least a page and the kernels' transfers
  are shorter, so they span at most two slices; the code has 16 events for 7
  resources.
- `BufferAssumption` (`SinglePimQueue`): there are at least as many initial items as threads
  that begin with a dequeue, and there is room for one more item per other thread;
  this is the code's "we assume that there is enough but not too big buffer".
- `SizesAssumption` (`PimQueue`): the initial items leave room in the ring.
- `TableAssumption` (`EthzTlb`): the slice table is as the driver builds it, with one
  rule for all pages of a slice, the device lies below the slices, and the configured
  ranges are apart from them and from each other. `SizeAssumption`: the TLB has room for a rule beside the configured
  ones. `KindsAssumption`: a core accesses the vault only if there is a second range.
- `LfArrayQueue` runs up to indexes that do not wrap, with an initial item for every
  thread that begins with a `deq`; the fill of `PimSkipList`
  counts repeated keys as the code does; a pointer of `LfSkipList` used with its mark
  leads to a state of its own (`"wild"`); the preconditions of `OffloadTask` are the
  checks of `DEBUG_API`.

## 5. Fairness

Liveness is checked under weak fairness only.

- `PimHandshake`: of the core, which never stops between instructions and whose
  kernels return (`AccessCompletes` shows it of `DMA_WAIT`, unless `late`), and of a
  host thread inside a call, which the operating system schedules. Not of
  `StartComputation`: nobody is obliged to call; nor of the DMA engine. `TakenCommandCompletes` allows for
  an illegal command, which ends the simulation. That a command, once given, is
  always taken is not claimed: the lost wake-up refutes it.
- `NdpList`, `SinglePimQueue`, `PimQueue`, `PimSkipList`: of each thread, of `main` and
  of each core, none of which ever blocks other than by polling.
- `EthzDma`: scheduled events fire (the event queue of gem5), memory answers every
  access, and the core executes the loop of `DMA_WAIT`. Not of new requests.
- Host baselines: of every thread inside an operation, which the operating system
  schedules. In the linked queue one thread may stop for ever, since lock freedom
  promises progress without it.
- `EthzTlb`, `SmcLinks`, `DmaCall`: of the events of gem5 that are scheduled and of the
  memory that answers.

In a suite the fairness conditions of the components are joined action by action.
Since only one component runs, a joined condition is that of the running one.

## 6. Proofs

All theorems hold for every value of the constants that satisfies the named
assumptions in the modules.

### PimHandshakeProofs

From `CommandsAssumption` and `MaxStartsAssumption`. The inductive invariant is
`TypeOK` with `HandshakeInv`. The safety properties are not inductive: that a
command is executed once depends on where both programs are. `HandshakeInv` ties
the status to the core's place, the command to the host's place, excludes the
combinations of the two that the handshake forbids, and computes `executed` from the
two places. Its part about interrupts is what `NoSpuriousWakeUp` rests on: unless
`late`, the engine is active and an interrupt is pending only from the kernel to
`PIM_DMA_CLI`, and a core that has read nothing yet was woken by `wake_up`. Each
action moves one program and changes one register, so every case is short. It yields
`ExactlyOnceHolds`, `NoSpuriousWakeUpHolds`, `AssertionsAlwaysHold`, the action
property `FollowsHandshakeTable`, and `Refinement` (`Spec => OffloadCall`), in
which the steps that map to a step of the call are `StartComputation`,
`ExecuteCommand` and `GiveNop`.

### NdpListProofs, NdpListSetProofs

The invariant `IInv` has two layers.

1. `SlotInv`, the slot protocol, does not mention the list. `ThreadInv(t)` says
   what a thread at each place has written; `KernelInv` says that every slot in
   the batch and the slot being served are valid, and that the kernel's copies
   are what the thread asked for; `MainInv` says who may use which slot when. It
   gives `RequestStableHolds`.
2. `ListInv`: the list is `Sorted`, and the cursors bracket the next key
   (`CursorInv`): `pred` precedes `curr`, and its key is below every key that is
   still to be served. This needs the first layer: a request that is read a
   second time must be the one that was sorted. It gives `ListSortedHolds`.

`Sorted` is local: every node but the tail points to the node with the next
larger key among all blocks in use. So no reachability has to be reasoned about,
which would take induction, and yet nothing can be leaked, since all blocks that
are not free are in the order. `TypeCorrect` follows. `OpsModeKeptHolds` adds
`SetupInv` (while the kernel is about to write its own mode, `main` still has an
unanswered add) and assumes an initial key. `FillServesAddsHolds` adds `FillInv`
and assumes `SlowSpawn` as well. Neither assumption can be dropped: see
`list_fill_race` and the first item of the other disagreements in section 3.

`SetRefinement` (in `NdpListSetProofs`, under the same two assumptions) shows that
the whole implements `LinearSet`. The abstract set is the keys of the nodes
between head and tail. Three facts are needed on top of `IInv`:

- What the kernel sees at its cursors is what the set holds: a key is in the set
  exactly when `curr` has it (`ListedAtCursor`), and linking or unlinking a node
  there adds or removes exactly its key (`InsertLists`, `RemoveLists`).
- The free list is empty exactly when the set has as many keys as there are blocks
  for them (`FullMeansNoneFree`, a bijection between nodes and keys), so an add
  fails for want of memory when the abstract one may.
- `AnswersInvariance`: from the decision of the kernel until the thread has read
  the return bit, the bit, the kernel's `retval` and the recorded outcome agree,
  and a request that is not yet decided has no outcome. So a call takes effect
  once and returns what it did.

The steps that map to a step of the set are the publication of a request, `Apply`
or `FillAdd`, and the thread's last poll; every other step of the two programs is
a stutter.

### SinglePimQueueProofs

From `RoundsAssumption` and `BufferAssumption`. The code never tests for an empty
or a full buffer, so its correctness is a matter of counting: threads alternate,
so an operation is either the one its thread began with or undoes the one before.
`LengthOK` says that the buffer holds the initial items, plus one for every thread
that is one enqueue ahead, less one for every thread that is one dequeue behind
(`Ahead`, `Behind`). With the assumption on the size, `BufferSuffices` follows:
`NeverEmptyNorFull`. The rest of the invariant `Inv` is the slot protocol
(`SlotOK`, which ties a thread's place to its slot and to the history), the
counters of `main` and the kernel (`MainOK`, `KernelOK`), the types, and that the
tail is the head plus the length, modulo the size.

`Refinement` shows that the queue implements `LinearQueue`. The abstract queue is
the window of the buffer from `head` to `tail` (`Contents`); `EnqContents` and
`DeqContents` are the two lemmas on wrapping: writing at the tail appends to the
window as long as it is not full, and moving the head drops its first item. The
kernel's write of a slot is the step at which an operation takes effect.

### EthzDmaProofs, EthzDmaTransferProofs

`SleeperHasWakerHolds`: a core asleep in `DMA_WAIT` always has an event of the
engine coming. `handle_packet` posts an interrupt only to a core that is already
suspended, so an answer between the test of the status and the `wfi` is silent;
the core is still woken because the engine goes on until it drains, and draining
posts an interrupt that stays. The invariant `WakerInv` says that a busy resource
has a request, that the engine is scheduled while there is one, and that a core
about to execute `wfi` has an event or an interrupt ahead. It needs no assumption
on `SlowCore`: even with a shifted index no wake-up is lost, only bytes.

Under `SlowCore` and the five assumptions of the module, `TransferInvariance` shows
`TransferInv`, from which `NoPanicHolds`, `StatusIsAccurateHolds`,
`NoneAbandonedHolds` and `WaitMeansDoneHolds` follow. They hold for any sizes of
transfers, slices and lines, and any number of resources and requests. The
invariant has these parts:

- `EngineOK`: all requests but the first are issued completely; the first is
  untouched, complete, or issued exactly up to `mem_vstart` (`Busy`), and then it is
  the current one. This is where `SlowCore` is needed, since a request is inserted
  at the front.
- `RequestsOK`: the pieces of a request lie in the range it was made for, in
  increasing order, the j-th in the j-th slice (`PieceOK`). So a piece ends where
  the next one begins and their number is that of the slices the range meets.
- `PacketsOK`: every packet in flight is part of a piece (`Carries`), and packets are
  disjoint. With the ranges of different resources apart (`TransfersAssumption`),
  an answer matches exactly one piece (`MatchesOne`), which is the assertion of
  `handle_packet`.
- `BytesOK`: the bytes counted as completed are the number of issued addresses that
  are not in flight. So the count reaches `bytes_expected` exactly with the last
  answer (`LastAnswer`), and a request that is erased has no packet left.
- `DistinctOK`, `StatusOK`: one request per resource, and the status names them all.

That a completion event is left for every piece (`EventLeft`) counts the pieces in
flight by pairs of a resource and the number of the piece, of which `EventsAssumption`
allows as many as there are events. `SizesAssumption` is used in `Busy`: what is
left of a range is never a single byte.

### EthzTlbProofs, EthzTlbLruProofs

From `Config`, the three assumptions of `EthzTlb`, for every table, number of slices
and size of the TLB. `Invariance` shows `Inv`, which has these parts:

- `TlbOK`: every rule in the TLB is one of the table or of the configuration, the
  device's own range stays in front, there are at most `TLB_SIZE` rules, and `lastUsed`
  has a place for each of them but the second and later configured ranges.
- `PacketOK`: the core's packet has the address the program gave it, or it has been
  remapped, and then it has the right physical address. Since all pages of a slice
  have the same rule, it does not matter which refill brought that rule
  (`RemapRight`).
- `WaitingOK`: a packet that waits in the core was refused by the bus or waits for the
  one refill in flight, never for both. This makes the assertion of the core true
  that a retry finds a packet to send, and it is what a property about a single
  request cannot say: a refill that outlived its request would wake nobody, or the
  wrong one.
- `OrigOK`: what `recvTimingResp` restores is the address the program named, or, for a
  request that the bus has refused (`refused`, of that very packet), the physical one
  it had when it came again. `WaitingOK` adds that a packet that waits remapped was
  refused.

`TranslatedRightHolds`, `AnswerHasAddressHolds`, `TypeCorrect` and `PanicCausesHold`
follow. The last says what can still stop the simulation: a functional refill or a
slice that the DMA engine needs and does not find, and, in atomic mode, a miss of a
command. So in timing mode without transfers of the
engine nothing does (`NoPanicHolds`). With them it is left to TLC.

`KeepsRecentHolds` is the action property of `EvictsLeastRecentlyUsed`: a step replaces
no rule that was used more recently than one that stays. The invariant `LruOK` says
that the order of the ticks in `lastUsed` is the order of the uses (`recency`), that
ticks differ, and that no rule is there twice. It assumes `LruConfig`. The first part,
a single configured range, cannot be dropped: the constructor pushes one entry to
`lastUsed` however many ranges there are, so with two of them a tick is stored at the
place of another rule, and another rule is evicted. `ethz_pimconf.py` configures one
range; `ethz_configs.py` appends a second, the vault's, and for that configuration
only the theorems of `EthzTlbProofs` hold.
The second part, no transfer of the DMA engine beside a refill in flight, is what the
invariant needs, since otherwise a rule can enter the TLB twice; whether the property
itself needs it is left open.

## 7. What is only model-checked

- All liveness properties (`TakenCommandCompletes`, `RequestsServed`, `WaitReturns`,
  `Terminates`, `WaitEnds`, `AccessCompletes`): temporal reasoning with fairness is
  outside what the prover does.
- The modules `PimQueue`, `PimSkipList`, `DmaCall`, `SmcLinks`, `OffloadTask`,
  the host baselines and the kernels. Several of them compute with recursively
  defined functions (the window of a ring of segments, the merging of pages, the
  golden models), about which nothing can be proved by induction here.

## 8. What is not modelled

- Of the modelled parts: debug time stamps, printing, checkpointing of the DMA
  engine, the print mode of the kernels (no program selects it), the upper levels
  of the nodes of the PIM list (they only speed up the search of the initial adds),
  the order in which the free list hands out blocks, the destructors of the host
  baselines, loading and unloading of the driver.
- `kernel_reduce_redundancy` of the skip list, the kernels between `kernel_default` and
  `kernel_best` that use fewer buffers, dense graphs, `matrix_mult`, `array_walk` and
  `tree_search`, whose transfers do not overlap; `FCQueue.hh` and `DoubleFCQueue.hh`,
  which no program includes; the data structure of the flat-combining skip list.
- An access to the vault after the TLB has evicted the vault's rule: the refill reads
  past the slice table, so what it finds is not determined by this code.
- Routing by address in the crossbars, address ranges and snoops.
- The PIM interface, whose methods are commented out.
- Boot code, shell and Python scripts, measurement programs.
- gem5 itself. Its tree is part of this repository and makes up nearly all of its
  456 000 lines: processors, caches, instruction sets, devices, networks and their
  test harness, of which this system uses a few files. The models cover the files
  that this project added to it or changed in order to simulate the cube, and the
  programs under `SW/`; measured against the whole tree that is a fraction of a
  percent, and modelling the rest would say nothing about this system.

`PROJECT.json` lists every component, and every hazard with the property that
covers it or the reason why none does.
