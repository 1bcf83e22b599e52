---------------------------- MODULE OffloadTask ----------------------------
(***************************************************************************)
(* How a host application hands its data to a PIM: PIMTask collects the    *)
(* data sets and computes their pages (pim_task.cc), PIMAPI::offload_task  *)
(* passes the range to the driver (pim_api.cc), and the driver pins the    *)
(* pages, builds the slice table from which the TLB of the PIM refills     *)
(* (EthzTlb.tla), and flushes the host's caches (driver/pim.c).            *)
(*                                                                         *)
(* The application is built with DEBUG_API, whose checks are the           *)
(* preconditions of the code.  Physical addresses and the addresses in the *)
(* slice table are page numbers.                                           *)
(***************************************************************************)
EXTENDS Integers, Sequences, FiniteSets, SequencesExt

CONSTANTS
    PAGE_SIZE,   \* bytes in a page
    Addresses,   \* where a data set may begin
    Sizes,       \* how many bytes it may have
    MaxData,     \* bound: calls of addData
    Frames       \* physical pages

PageAssumption == PAGE_SIZE \in Nat \ {0} /\ 0 \notin Sizes

VARIABLES
    stage,    \* "collect", "ioctl", "offloaded", "closed", "exit" (a check failed)
    data,     \* PIMTask::data
    range,    \* ioctl_arg: first page and number of pages
    sreg,     \* the PIM's scalar registers
    pages,    \* the driver's pages: physical_addr, its length is pages.count
    table,    \* slicetable, by page number; PIM_SLICEVSTART is its first page
    flushed,  \* physical pages written back from the host's caches
    past,     \* the word in memory after pages.physical_addr
    frame     \* the process's page table

vars == <<stage, data, range, sreg, pages, table, flushed, past, frame>>

Page(addr)   == addr \div PAGE_SIZE
LastByte(d)  == d.addr + d.size - 1
EmptyTable   == [p \in {} |-> 0]

Init ==
    /\ stage = "collect" /\ data = <<>> /\ range = [first |-> 0, count |-> 0]
    /\ sreg = <<>> /\ pages = <<>> /\ table = EmptyTable
    /\ flushed = {} /\ past = 0 /\ frame = EmptyTable

\* Before the first data set with a greater address.
Insert(list, d) ==
    LET i == SelectInSeq(list, LAMBDA e : e.addr > d.addr)
    IN  IF i = 0 THEN Append(list, d) ELSE InsertAt(list, i, d)

AddData(a, s) ==
    /\ stage = "collect" /\ Len(data) < MaxData
    /\ data' = Insert(data, [addr |-> a, size |-> s, reg |-> Len(data) + 1])
    /\ UNCHANGED <<stage, range, sreg, pages, table, flushed, past, frame>>

\* One step of the loop of updatePages; the last element is the variable page.
MergePage(vpages, d) ==
    LET new  == [start |-> Page(d.addr), end |-> Page(LastByte(d))]
        last == vpages[Len(vpages)]
    IN  IF vpages # <<>> /\ last.end >= new.start - 1
          THEN [vpages EXCEPT ![Len(vpages)].end = new.end]
          ELSE Append(vpages, new)
UpdatePages(list) == FoldLeft(MergePage, <<>>, list)

\* FAULT (not the code): the check looks at the beginning of the previous set.
Overlap_Start(list) == \E i \in 2..Len(list) : list[i - 1].addr > list[i].addr

\* The check of DEBUG_API in updatePages.
Overlap(list) == \E i \in 2..Len(list) : LastByte(list[i - 1]) # 0 /\ LastByte(list[i - 1]) > list[i].addr

\* PIMAPI::offload_task up to the ioctl.  Without the checks that fail here
\* the driver would build the table of the last range.
CallDriver ==
    LET vpages == UpdatePages(data)
    IN  /\ stage = "collect"
        /\ IF Overlap(data) \/ Len(vpages) # 1
             THEN stage' = "exit" /\ UNCHANGED <<range, sreg>>
             ELSE /\ stage' = "ioctl"
                  /\ range' = [first |-> vpages[1].start, count |-> vpages[1].end - vpages[1].start + 1]
                  /\ sreg' = [r \in 1..Len(data) |-> data[SelectInSeq(data, LAMBDA d : d.reg = r)].addr]
        /\ UNCHANGED <<data, pages, table, flushed, past, frame>>

-----------------------------------------------------------------------------
(* The driver.  list holds physical_addr and the word past its end, counted *)
(* from 1; a slice begins at i and goes on as long as the frames do.        *)

Contiguous(list, i) == list[i] + 1 = list[i + 1]

\* c, for a slice that begins at i.  The last page alone is not compared; a
\* longer slice is compared past the last page.  One word of that is modelled.
SliceSize(list, i) ==
    IF i = Len(list) - 1 THEN 1
    ELSE CHOOSE c \in 1..(Len(list) - i + 1) :
            /\ \A k \in i..(i + c - 2) : Contiguous(list, k)
            /\ i + c = Len(list) + 1 \/ ~ Contiguous(list, i + c - 1)
SliceStart(list, i) ==
    CHOOSE s \in 1..i : /\ s = 1 \/ ~ Contiguous(list, s - 1)
                        /\ \A k \in s..(i - 1) : Contiguous(list, k)

CreateSliceTable(list, first) ==
    [p \in first..(first + Len(list) - 2) |->
        LET s == SliceStart(list, p - first + 1)
        IN  [vaddr |-> first + s - 1, paddr |-> list[s], size |-> SliceSize(list, s)]]

\* PIM_IOCTL_ALLOCATE_DATA when get_user_pages pins the pages.  The process's
\* page table and the word past the array become known.
Allocate(f, w) ==
    LET phys == [i \in 1..range.count |-> f[range.first + i - 1]]
    IN  /\ stage = "ioctl"
        /\ frame' = f /\ past' = w
        /\ pages' = phys
        /\ table' = CreateSliceTable(Append(phys, w), range.first)
        /\ flushed' = ToSet(phys)
        /\ stage' = "offloaded"
        /\ UNCHANGED <<data, range, sreg>>

\* It fails, or kmalloc does: pim_get_user_pages returns -ENOMEM, which nobody
\* looks at, and the rest runs with pages.count = 0.  The ioctl returns 1.
AllocateFails ==
    /\ stage = "ioctl"
    /\ stage' = "offloaded"
    /\ UNCHANGED <<data, range, sreg, pages, table, flushed, past, frame>>

\* pim_release, when the application closes the device.
Close ==
    /\ stage = "offloaded"
    /\ stage' = "closed"
    /\ UNCHANGED <<data, range, sreg, pages, table, flushed, past, frame>>

Mapping == {f \in [range.first..(range.first + range.count - 1) -> Frames] :
                \A p, q \in DOMAIN f : f[p] = f[q] => p = q}
Next ==
    \/ \E a \in Addresses, s \in Sizes : AddData(a, s)
    \/ CallDriver
    \/ stage = "ioctl" /\ \E f \in Mapping, w \in Frames : Allocate(f, w)
    \/ AllocateFails \/ Close

Spec == Init /\ [][Next]_vars

-----------------------------------------------------------------------------
Slice == [vaddr : Nat, paddr : Frames, size : Nat \ {0}]
TypeOK ==
    /\ stage \in {"collect", "ioctl", "offloaded", "closed", "exit"}
    /\ \A i \in DOMAIN data : data[i].addr \in Addresses /\ data[i].size \in Sizes
    /\ Len(pages) \in {0, range.count} /\ ToSet(pages) \subseteq Frames
    /\ \A p \in DOMAIN table : table[p] \in Slice
    /\ flushed \subseteq Frames

Translate(p) == p - table[p].vaddr + table[p].paddr

\* Through the pointer in its register the PIM reaches every byte of every
\* data set in the physical page where the host process keeps it, and that
\* page has been written back: whatever the order of the calls of addData,
\* the layout of the data and the frames, and whatever memory holds after
\* the array of physical addresses.
PimSeesData ==
    stage = "offloaded" /\ pages # <<>> =>
        \A i \in DOMAIN data :
            /\ sreg[data[i].reg] = data[i].addr
            /\ \A p \in Page(data[i].addr)..Page(LastByte(data[i])) :
                  p \in DOMAIN table /\ Translate(p) = frame[p] /\ frame[p] \in flushed

\* The entry of a page serves every page that its slice covers: the TLB may
\* use it for all of them (the assumption TableAssumption of EthzTlb.tla).
TableConsistent ==
    \A p, q \in DOMAIN table :
        /\ p >= table[p].vaddr /\ p < table[p].vaddr + table[p].size
        /\ q >= table[p].vaddr /\ q < table[p].vaddr + table[p].size => table[q] = table[p]
=============================================================================
