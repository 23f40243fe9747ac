---------------------------- MODULE PageTable32 ---------------------------
(***************************************************************************)
(* `PageTable32` and `PageTable32Cursor`                                   *)
(* (page_table_multiarch/src/bits32.rs) over the trait GenericPTE, built   *)
(* for ARMv7-A with the feature `copy-from`: a first level of 1M entries   *)
(* and tables of 4K entries below it.                                      *)
(*                                                                         *)
(* Each write that the hardware walker can see is one action; a table is   *)
(* zeroed before it is linked, and nobody sees it until then.  The table   *)
(* that copy_from reads is one the kernel keeps: it is a constant, its     *)
(* second-level tables are allocated from the start.                       *)
(***************************************************************************)
EXTENDS GenericPTE, Sequences

CONSTANTS
    L1_COUNT, L2_COUNT,     \* 4096 and 256 in the code
    PAGE_SIZE_4K,
    SMALL_FLUSH_THRESHOLD,  \* capacity of the flusher's array, 32 in the code
    Frame, NoFrame,         \* what H::alloc_frame may hand out; no frame
    VAddr, Target,          \* the addresses callers use and map
    StaleTable,             \* what a frame may hold when it is allocated
    AllocChoice(_),         \* the frames the allocator may return
    align_down(_, _),       \* PhysAddr::align_down, to a page size
    Lender,                 \* the first level that copy_from reads
    LenderTable,            \* its second level, a function of LenderFrame
    CopyRange               \* the <<start, size>> that copy_from gets

Idx1 == 0 .. L1_COUNT - 1
Idx2 == 0 .. L2_COUNT - 1

Size4K == 0
Size1M == 1
PageSize == {Size4K, Size1M}

LenderFrame == DOMAIN LenderTable

\* The entry leads to a table of the second level.
IsTable(e) == ~pte_is_unused(e) /\ ~pte_is_huge(e)

ASSUME CountAssumption ==
    /\ L1_COUNT \in Nat \ {0}
    /\ L2_COUNT \in Nat \ {0}
    /\ PAGE_SIZE_4K \in Nat \ {0}
    /\ SMALL_FLUSH_THRESHOLD \in Nat \ {0}
    /\ VAddr \subseteq Nat
    /\ \A p \in Target, s \in PageSize : p \in PAddr /\ align_down(p, s) \in PAddr

ASSUME AllocAssumption ==
    /\ Frame \subseteq PAddr
    /\ NoFrame \notin Frame
    /\ StaleTable \subseteq [Idx2 -> PTE]
    /\ \A used \in SUBSET Frame : AllocChoice(used) \subseteq Frame \ used

\* The lender's first level is a tree too.
ASSUME LenderAssumption ==
    /\ Lender \in [Idx1 -> PTE]
    /\ LenderFrame \subseteq Frame
    /\ LenderTable \in [LenderFrame -> [Idx2 -> PTE]]
    /\ \A i \in Idx1 : IsTable(Lender[i]) => pte_paddr(Lender[i]) \in LenderFrame
    /\ \A i, j \in Idx1 :
          /\ IsTable(Lender[i])
          /\ IsTable(Lender[j])
          /\ pte_paddr(Lender[i]) = pte_paddr(Lender[j])
          => i = j
    /\ \A r \in CopyRange : r[1] \in Nat /\ r[2] \in Nat

\* What is written for a table or for a page does not look unused.
ASSUME UseAssumption ==
    /\ \A f \in Frame : ~pte_is_unused(pte_new_table(f))
    /\ \A p \in PAddr, f \in Flags, b \in BOOLEAN : ~pte_is_unused(pte_new_page(p, f, b))

\* A page reads back its address, aligned to its size, and callers pass flags
\* that an entry tells apart.  A32PTE keeps this (see A32Keeps) except for the
\* executable small pages above 1M and the sections at address 0 (see
\* PteFormats), which callers do not map here.
ASSUME PageAssumption ==
    \A p \in Target, s \in PageSize, f, g \in Flags :
        LET huge == s = Size1M
            e == pte_new_page(p, f, huge)
        IN  /\ pte_paddr(e) = align_down(p, s)
            /\ pte_new_page(align_down(p, s), f, huge) = e
            /\ pte_set_flags(e, g, huge) = pte_new_page(p, g, huge)
            /\ pte_new_page(p, g, huge) = e => g = f

\* The lender's second level maps pages that callers map, too.
ASSUME LenderPages ==
    \A t \in LenderFrame, i \in Idx2 :
        \/ LenderTable[t][i] = Zero
        \/ \E p \in Target, f \in Flags : LenderTable[t][i] = pte_new_page(p, f, FALSE)

VARIABLES
    l1,                \* the first level, NoTable when there is no page table
    l2,                \* the second-level tables allocated, with their entries
    borrowed_entries,  \* the first-level entries that copy_from wrote
    flusher,           \* the cursor's TlbFlusher, "Closed" without a cursor
    call,              \* the map in progress
    ret                \* what the last operation on a page returned

vars == <<l1, l2, borrowed_entries, flusher, call, ret>>
---------------------------------------------------------------------------
(* Descent *)

NoTable == <<>>

PageBytes(size) == IF size = Size4K THEN PAGE_SIZE_4K ELSE PAGE_SIZE_4K * L2_COUNT

\* Addresses have 32 bits.
ASSUME SpanAssumption == \A v \in VAddr : v < L1_COUNT * PageBytes(Size1M)

p1_index(v) == (v \div PageBytes(Size1M)) % L1_COUNT
p2_index(v) == (v \div PAGE_SIZE_4K) % L2_COUNT

Entry1(v) == l1[p1_index(v)]

\* Where get_entry and get_entry_mut end: an error, the first level, or the
\* table of the second level that the entry leads to.
get_entry(v) ==
    IF pte_is_unused(Entry1(v)) THEN [err |-> "NotMapped", size |-> Size4K]
    ELSE [err |-> "Ok", size |-> IF pte_is_huge(Entry1(v)) THEN Size1M ELSE Size4K]

\* The entry of v for a page of the size, and the write of it.
EntryAt(v, size) ==
    IF size = Size1M THEN Entry1(v) ELSE l2[pte_paddr(Entry1(v))][p2_index(v)]

SetEntry(v, size, e) ==
    IF size = Size1M
    THEN /\ l1' = [l1 EXCEPT ![p1_index(v)] = e]
         /\ UNCHANGED l2
    ELSE /\ l2' = [l2 EXCEPT ![pte_paddr(Entry1(v))][p2_index(v)] = e]
         /\ UNCHANGED l1

\* query, with the raw entry beside what it answers.
Unmapped == [size |-> -1]
Page(e, size) ==
    [paddr |-> pte_paddr(e), flags |-> pte_flags(e), size |-> size, entry |-> e]

query(v) ==
    LET s == get_entry(v)
    IN  IF s.err # "Ok" \/ pte_is_unused(EntryAt(v, s.size)) THEN Unmapped
        ELSE Page(EntryAt(v, s.size), s.size)
---------------------------------------------------------------------------
(* The cursor and the operation in progress *)

\* TlbFlusher: None, Array(arr) or Full.
Flusher(kind, arr) == [kind |-> kind, arr |-> arr]

\* Faulty variants of push: the array one entry too long; the address that
\* does not fit forgotten.
push_TooLong(fl, v) ==
    IF fl.kind = "None" THEN Flusher("Array", <<v>>)
    ELSE IF fl.kind # "Array" THEN fl
    ELSE IF Len(fl.arr) <= SMALL_FLUSH_THRESHOLD
    THEN Flusher("Array", Append(fl.arr, v))
    ELSE Flusher("Full", <<>>)

push_Forgets(fl, v) ==
    IF fl.kind = "None" THEN Flusher("Array", <<v>>)
    ELSE IF fl.kind = "Array" /\ Len(fl.arr) < SMALL_FLUSH_THRESHOLD
    THEN Flusher("Array", Append(fl.arr, v))
    ELSE fl

\* PageTable32Cursor::push
push(fl, v) ==
    IF fl.kind = "None" THEN Flusher("Array", <<v>>)
    ELSE IF fl.kind # "Array" THEN fl
    ELSE IF Len(fl.arr) < SMALL_FLUSH_THRESHOLD
    THEN Flusher("Array", Append(fl.arr, v))
    ELSE Flusher("Full", <<>>)

NoCall == [pc |-> "Idle", vaddr |-> 0, target |-> PA0, size |-> Size4K, flags |-> {}]
NoRet == [op |-> "none", err |-> "none", vaddr |-> 0, out |-> Unmapped]
Ret(op, v, err, out) == [op |-> op, err |-> err, vaddr |-> v, out |-> out]

Idle == call.pc = "Idle"
CursorIdle == Idle /\ flusher.kind # "Closed"

\* The operation returns the error err and has changed nothing more.
Fail(op, v, err) ==
    /\ ret' = Ret(op, v, err, Unmapped)
    /\ call' = NoCall
    /\ UNCHANGED <<l1, l2, borrowed_entries, flusher>>

\* The operation has written the entry and asks for a flush.
Succeed(op, v, out) ==
    /\ ret' = Ret(op, v, "Ok", out)
    /\ flusher' = push(flusher, v)
    /\ call' = NoCall
    /\ UNCHANGED borrowed_entries
---------------------------------------------------------------------------
(* try_new and cursor *)

\* The root is four frames in a row, zeroed.
TryNew ==
    /\ Idle
    /\ l1 = NoTable
    /\ l1' = [i \in Idx1 |-> Zero]
    /\ ret' = Ret("try_new", 0, "Ok", Unmapped)
    /\ UNCHANGED <<l2, borrowed_entries, flusher, call>>

TryNewFails ==
    /\ Idle
    /\ l1 = NoTable
    /\ Fail("try_new", 0, "NoMemory")

OpenCursor ==
    /\ Idle
    /\ l1 # NoTable
    /\ flusher.kind = "Closed"
    /\ flusher' = Flusher("None", <<>>)
    /\ UNCHANGED <<l1, l2, borrowed_entries, call, ret>>
---------------------------------------------------------------------------
(* map *)

Map(v, target, size, flags) ==
    /\ CursorIdle
    /\ call' = [pc |-> "Map", vaddr |-> v, target |-> target, size |-> size,
                flags |-> flags]
    /\ ret' = NoRet
    /\ UNCHANGED <<l1, l2, borrowed_entries, flusher>>

Mapping(size) == call.pc = "Map" /\ call.size = size

\* A faulty variant of MapCreate: the table is linked as it was allocated.
MapCreate_Stale(f) ==
    /\ Mapping(Size4K)
    /\ pte_is_unused(Entry1(call.vaddr))
    /\ f \in AllocChoice(DOMAIN l2)
    /\ \E stale \in StaleTable :
          l2' = [g \in DOMAIN l2 \cup {f} |-> IF g = f THEN stale ELSE l2[g]]
    /\ l1' = [l1 EXCEPT ![p1_index(call.vaddr)] = pte_new_table(f)]
    /\ UNCHANGED <<borrowed_entries, flusher, call, ret>>

\* get_entry_mut_or_create links a new table of the second level, zeroed.
MapCreate(f) ==
    /\ Mapping(Size4K)
    /\ pte_is_unused(Entry1(call.vaddr))
    /\ f \in AllocChoice(DOMAIN l2)
    /\ l2' = [g \in DOMAIN l2 \cup {f} |-> IF g = f THEN [i \in Idx2 |-> Zero] ELSE l2[g]]
    /\ l1' = [l1 EXCEPT ![p1_index(call.vaddr)] = pte_new_table(f)]
    /\ UNCHANGED <<borrowed_entries, flusher, call, ret>>

MapNoMemory ==
    /\ Mapping(Size4K)
    /\ pte_is_unused(Entry1(call.vaddr))
    /\ Fail("map", call.vaddr, "NoMemory")

\* A section is in the way of the small page.
MapInSection ==
    /\ Mapping(Size4K)
    /\ pte_is_huge(Entry1(call.vaddr))
    /\ Fail("map", call.vaddr, "AlreadyMapped")

\* The entry for the page is there.
AtEntry == Mapping(Size1M) \/ (Mapping(Size4K) /\ IsTable(Entry1(call.vaddr)))

MapPage ==
    /\ AtEntry
    /\ pte_is_unused(EntryAt(call.vaddr, call.size))
    /\ SetEntry(call.vaddr, call.size,
                pte_new_page(align_down(call.target, call.size), call.flags,
                             call.size = Size1M))
    /\ Succeed("map", call.vaddr, [size |-> call.size])

MapOccupied ==
    /\ AtEntry
    /\ ~pte_is_unused(EntryAt(call.vaddr, call.size))
    /\ Fail("map", call.vaddr, "AlreadyMapped")
---------------------------------------------------------------------------
(* remap, protect, unmap and flush *)

\* A hole in a table of the second level is filled as well.
Remap(v, paddr, flags) ==
    /\ CursorIdle
    /\ LET s == get_entry(v)
       IN  IF s.err # "Ok" THEN Fail("remap", v, s.err)
           ELSE /\ SetEntry(v, s.size, pte_new_page(paddr, flags, s.size = Size1M))
                /\ Succeed("remap", v, [size |-> s.size])

\* The address that the entry reads back goes into the new one.
Protect(v, flags) ==
    /\ CursorIdle
    /\ IF query(v) = Unmapped THEN Fail("protect", v, "NotMapped")
       ELSE /\ SetEntry(v, query(v).size,
                        pte_new_page(query(v).paddr, flags, query(v).size = Size1M))
            /\ Succeed("protect", v, [size |-> query(v).size])

\* A table of the second level stays, however empty.
Unmap(v) ==
    /\ CursorIdle
    /\ IF query(v) = Unmapped THEN Fail("unmap", v, "NotMapped")
       ELSE /\ SetEntry(v, query(v).size, Zero)
            /\ Succeed("unmap", v, query(v))

\* flush, and the drop of the cursor, which flushes.
Flush(op) ==
    /\ CursorIdle
    /\ flusher' = Flusher(IF op = "drop" THEN "Closed" ELSE "None", <<>>)
    /\ ret' = NoRet
    /\ UNCHANGED <<l1, l2, borrowed_entries, call>>
---------------------------------------------------------------------------
(* copy_from and drop *)

Tables(indices) == {pte_paddr(l1[i]) : i \in {j \in indices : IsTable(l1[j])}}

FreeTables(frames) == l2' = [f \in DOMAIN l2 \ frames |-> l2[f]]

\* start_idx .. end_idx - 1
CopiedEntries(start, size) ==
    IF size = 0 THEN {} ELSE p1_index(start) .. p1_index(start + size - 1)

\* A faulty variant of Replaced: what is borrowed already is freed again.
Replaced_Again(copied) == Tables(copied)

\* The tables that give way to borrowed ones.
Replaced(copied) == Tables(copied \ borrowed_entries)

\* A faulty variant of Borrowed: the bit is set where a table was freed only.
Borrowed_Freed(copied) == borrowed_entries \cup {i \in copied : IsTable(l1[i])}

\* The bit of every entry copied is set.
Borrowed(copied) == borrowed_entries \cup copied

\* Callers copy entries that lead to tables.
CopyFrom(start, size) ==
    LET copied == CopiedEntries(start, size)
    IN  /\ CursorIdle
        /\ \A i \in copied : IsTable(Lender[i])
        /\ l1' = [i \in Idx1 |-> IF i \in copied THEN Lender[i] ELSE l1[i]]
        /\ FreeTables(Replaced(copied))
        /\ borrowed_entries' = Borrowed(copied)
        /\ flusher' = IF size = 0 THEN flusher ELSE Flusher("Full", <<>>)
        /\ ret' = Ret("copy_from", start, "Ok", Unmapped)
        /\ UNCHANGED call

\* A faulty variant of Drop: no table of the second level is freed.
Drop_RootOnly ==
    /\ Idle
    /\ flusher.kind = "Closed"
    /\ l1 # NoTable
    /\ l1' = NoTable
    /\ borrowed_entries' = {}
    /\ ret' = NoRet
    /\ UNCHANGED <<l2, flusher, call>>

Drop ==
    /\ Idle
    /\ flusher.kind = "Closed"
    /\ l1 # NoTable
    /\ FreeTables(Tables(Idx1 \ borrowed_entries))
    /\ l1' = NoTable
    /\ borrowed_entries' = {}
    /\ ret' = NoRet
    /\ UNCHANGED <<flusher, call>>
---------------------------------------------------------------------------
Init ==
    /\ l1 = NoTable
    /\ l2 = LenderTable
    /\ borrowed_entries = {}
    /\ flusher = Flusher("Closed", <<>>)
    /\ call = NoCall
    /\ ret = NoRet

\* An operation begins.
Begin ==
    \/ TryNew
    \/ TryNewFails
    \/ OpenCursor
    \/ \E v \in VAddr, p \in Target, s \in PageSize, f \in Flags : Map(v, p, s, f)
    \/ \E v \in VAddr, p \in Target, f \in Flags : Remap(v, p, f)
    \/ \E v \in VAddr, f \in Flags : Protect(v, f)
    \/ \E v \in VAddr : Unmap(v)
    \/ \E op \in {"flush", "drop"} : Flush(op)
    \/ \E r \in CopyRange : CopyFrom(r[1], r[2])
    \/ Drop

\* The map in progress goes on.
Continue ==
    \/ \E f \in Frame : MapCreate(f)
    \/ MapNoMemory
    \/ MapInSection
    \/ MapPage
    \/ MapOccupied

Next == Begin \/ Continue

Spec == Init /\ [][Next]_vars
---------------------------------------------------------------------------
(* Properties *)

\* Every variable has its type.
TypeOK ==
    /\ l1 \in [Idx1 -> PTE] \cup {NoTable}
    /\ l2 \in [DOMAIN l2 -> [Idx2 -> PTE]]
    /\ DOMAIN l2 \subseteq Frame
    /\ borrowed_entries \subseteq Idx1
    /\ flusher.kind \in {"Closed", "None", "Array", "Full"}
    /\ flusher.arr \in Seq(VAddr)
    /\ flusher = [kind |-> flusher.kind, arr |-> flusher.arr]
    /\ Len(flusher.arr) <= SMALL_FLUSH_THRESHOLD
    /\ call \in [pc : {"Idle", "Map"}, vaddr : VAddr \cup {0}, target : PAddr,
                 size : PageSize, flags : Flags \cup {{}}]

Mapped == IF l1 = NoTable THEN {} ELSE Idx1

\* Every table that the first level leads to is allocated, and so are those of
\* the lender for ever: no copy and no drop frees what is still in use.
TablesAllocated == Tables(Mapped) \cup LenderFrame \subseteq DOMAIN l2

\* Each table hangs from one entry, and the lender's only from those that were
\* borrowed: drop frees no frame twice, and no frame of the lender.
TablesUnshared ==
    /\ \A i, j \in Mapped :
          IsTable(l1[i]) /\ IsTable(l1[j]) /\ pte_paddr(l1[i]) = pte_paddr(l1[j]) => i = j
    /\ Tables(Mapped \ borrowed_entries) \cap LenderFrame = {}

\* Every table allocated is the lender's or one that drop frees.
TablesFreed == DOMAIN l2 \subseteq LenderFrame \cup Tables(Mapped \ borrowed_entries)

Now(v) == IF l1 = NoTable THEN Unmapped ELSE query(v)

\* No translation is replaced or removed without a flush request that covers
\* its page, in the order and number in which the array takes them.
ChangesRecorded ==
    \A v \in VAddr :
        Now(v) # Unmapped /\ Now(v)' # Now(v) /\ l1' # NoTable
          => \/ flusher'.kind = "Full"
             \/ \E k \in DOMAIN flusher'.arr :
                   flusher'.arr[k] \div PageBytes(Now(v).size) = v \div PageBytes(Now(v).size)

ChangeIsRecorded == [][ChangesRecorded]_vars

\* The promise of query for a page just mapped: the address and the flags that
\* map was given.
QueryAnswersMap ==
    [][\A v \in VAddr :
          /\ call.pc = "Map" /\ call.vaddr = v
          /\ ret'.op = "map" /\ ret'.err = "Ok"
          => /\ Now(v)'.paddr = align_down(call.target, call.size)
             /\ Now(v)'.flags = call.flags]_vars

\* The table implements AddressSpace, with the flags an entry was written with
\* in place of those it reads back, which A32PTE gets wrong for small pages.
Written ==
    [size \in PageSize |->
       [e \in PTE |-> {f \in Flags : pte_new_page(pte_paddr(e), f, size = Size1M) = e}]]

ViewPage(page) ==
    IF page = Unmapped THEN Unmapped
    ELSE [paddr |-> page.paddr, flags |-> Written[page.size][page.entry], size |-> page.size]

View == [v \in VAddr |-> ViewPage(Now(v))]

ViewRet ==
    IF ret.op = "unmap" THEN [ret EXCEPT !.out = ViewPage(@)] ELSE ret

\* A page takes the part of the address that is aligned to its size.
Mappable == Target \cup {align_down(p, s) : p \in Target, s \in PageSize}

Abs == INSTANCE AddressSpace
         WITH space <- View, ret <- ViewRet, Target <- Mappable,
              Accessible <- LAMBDA f : TRUE, ReadBack <- LAMBDA f : {f}

\* Each operation but copy_from changes the translations of one aligned block,
\* as its answer says, or of none.
ImplementsAddressSpace ==
    Abs!Init /\ [][ret'.op = "copy_from" \/ Abs!Next]_<<View, ViewRet>>
===========================================================================
