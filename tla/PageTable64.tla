---------------------------- MODULE PageTable64 ---------------------------
(***************************************************************************)
(* `PageTable64` and `PageTable64Cursor`                                   *)
(* (page_table_multiarch/src/bits64.rs) over the trait GenericPTE: one     *)
(* table, created by try_new, modified through one cursor at a time        *)
(* (`cursor` borrows the table mutably) and dropped.                       *)
(*                                                                         *)
(* An operation that writes memory once is one action.  One that writes    *)
(* several times (map, which may allocate, zero and link a table on each   *)
(* level; remap, which writes the address and then the flags) is one       *)
(* action per write, because the hardware walker, which takes no lock,     *)
(* sees memory between the writes.  `call` is the operation in progress.   *)
(*                                                                         *)
(* Tables are named by height: height 0 is the last level (p1), LEVELS - 1 *)
(* the root.  A page size is the height of the table its entry lives in.   *)
(***************************************************************************)
EXTENDS GenericPTE, Sequences

CONSTANTS
    LEVELS,                 \* M::LEVELS, 3 or 4
    ENTRY_COUNT,            \* 512 in the code
    PAGE_SIZE_4K,
    SMALL_FLUSH_THRESHOLD,  \* capacity of the flusher's array, 32 in the code
    Frame, NoFrame,         \* what H::alloc_frame may hand out; no frame
    VAddr,                  \* the virtual addresses callers use
    Target,                 \* the physical addresses callers map
    StaleTable,             \* what a frame may hold when it is allocated
    AllocChoice(_),         \* the frames the allocator may return, given
                            \* those in use
    align_down(_, _)        \* PhysAddr::align_down, to a page size

Idx   == 0 .. ENTRY_COUNT - 1
Table == [Idx -> PTE]
H     == 0 .. LEVELS - 1

Size4K == 0
Size2M == 1
Size1G == 2
PageSize == {Size4K, Size2M, Size1G}

ASSUME LevelsAssumption == LEVELS \in {3, 4}
ASSUME CountAssumption ==
    /\ ENTRY_COUNT \in Nat \ {0}
    /\ PAGE_SIZE_4K \in Nat \ {0}
    /\ SMALL_FLUSH_THRESHOLD \in Nat \ {0}
    /\ VAddr \subseteq Nat
    /\ Target \subseteq PAddr
    /\ \A p \in Target, s \in PageSize : align_down(p, s) \in PAddr
\* The allocator hands out free frames, never the frame at address 0, which
\* next_table takes for "no table" (tests/alloc_tests.rs asserts it too).
ASSUME AllocAssumption ==
    /\ Frame \subseteq PAddr \ {PA0}
    /\ NoFrame \notin Frame
    /\ StaleTable \subseteq Table
    /\ \A used \in SUBSET Frame : AllocChoice(used) \subseteq Frame \ used

\* The flags a format shows as present, and those it reads back.
Accessible(f) == pte_is_present(pte_new_page(PA0, f, FALSE))
ReadBack(f) == pte_flags(pte_new_page(PA0, f, FALSE))

\* The 64-bit formats keep the address and the flags of an entry apart, and
\* show nothing of an unused one (A32PTE does not, see PteFormats).
ASSUME PteKeeps ==
    /\ ~pte_is_present(Zero)
    /\ \A p \in PAddr, f \in Flags, b \in BOOLEAN :
          LET e == pte_new_page(p, f, b)
          IN  /\ pte_paddr(e) = p /\ pte_flags(e) = ReadBack(f)
              /\ pte_is_present(e) <=> Accessible(f)
    /\ \A e \in PTE, p \in PAddr : pte_paddr(pte_set_paddr(e, p)) = p
    /\ \A e \in PTE, f \in Flags, b \in BOOLEAN :
          LET s == pte_set_flags(e, f, b)
          IN  /\ pte_paddr(s) = pte_paddr(e) /\ pte_flags(s) = ReadBack(f)
              /\ pte_is_present(s) <=> Accessible(f)

VARIABLES
    mem,         \* the table frames allocated, each with its entries
    height,      \* auxiliary: the height each allocated frame was made for
    root_paddr,  \* the root, NoFrame when there is no table
    flusher,     \* the cursor's TlbFlusher; "Closed" when there is no cursor
    call,        \* the operation in progress
    ret          \* what the last operation returned

vars == <<mem, height, root_paddr, flusher, call, ret>>
---------------------------------------------------------------------------
(* Addresses and entries *)

\* Bytes covered by one entry of a table of height h.
PageBytes(h) ==
    LET n == ENTRY_COUNT
    IN  IF h = 0 THEN PAGE_SIZE_4K
        ELSE IF h = 1 THEN PAGE_SIZE_4K * n
        ELSE IF h = 2 THEN PAGE_SIZE_4K * n * n
        ELSE PAGE_SIZE_4K * n * n * n

\* p1_index .. p4_index
p_index(v, h) == (v \div PageBytes(h)) % ENTRY_COUNT

\* Callers use canonical addresses: those with the same entry of the root are
\* in the range of that entry (VA_MAX_BITS; the bits above are not looked at).
ASSUME CanonicalAssumption ==
    LET top == LEVELS - 1
    IN  \A v, w \in VAddr :
           p_index(v, top) = p_index(w, top) => v \div PageBytes(top) = w \div PageBytes(top)

\* next_table and next_table_mut: an error, or the table the entry leads to.
next_table(e) ==
    IF pte_paddr(e) = PA0 THEN [err |-> "NotMapped", table |-> NoFrame]
    ELSE IF pte_is_huge(e) THEN [err |-> "MappedToHugePage", table |-> NoFrame]
    ELSE [err |-> "Ok", table |-> pte_paddr(e)]

IsTable(e) == next_table(e).err = "Ok"

\* The outcome of a descent: an error, or the slot (table t, height h) found.
Slot(t, h) == [err |-> "Ok", table |-> t, h |-> h]
NoSlot(err) == [err |-> err, table |-> NoFrame, h |-> 0]

\* get_entry and get_entry_mut in memory m, one operator per level.  At p3
\* and p2 a huge entry ends the descent; at p4 only next_table looks at it.
get_p1(m, t, v) == Slot(t, 0)

get_p2(m, t, v) ==
    LET e == m[t][p_index(v, 1)]
    IN  IF pte_is_huge(e) THEN Slot(t, 1)
        ELSE IF ~IsTable(e) THEN NoSlot(next_table(e).err)
        ELSE get_p1(m, pte_paddr(e), v)

get_p3(m, t, v) ==
    LET e == m[t][p_index(v, 2)]
    IN  IF pte_is_huge(e) THEN Slot(t, 2)
        ELSE IF ~IsTable(e) THEN NoSlot(next_table(e).err)
        ELSE get_p2(m, pte_paddr(e), v)

get_p4(m, t, v) ==
    LET e == m[t][p_index(v, 3)]
    IN  IF ~IsTable(e) THEN NoSlot(next_table(e).err)
        ELSE get_p3(m, pte_paddr(e), v)

get_entry(m, v) ==
    IF LEVELS = 3 THEN get_p3(m, root_paddr, v) ELSE get_p4(m, root_paddr, v)

\* query: the page that translates v, or Unmapped.  (The offset within the
\* page, which the code adds to the address, is left out.)
Unmapped == [size |-> -1]
query(m, v) ==
    LET s == get_entry(m, v)
        e == m[s.table][p_index(v, s.h)]
    IN  IF s.err # "Ok" THEN Unmapped
        ELSE IF ~pte_is_present(e) THEN Unmapped
        ELSE [paddr |-> pte_paddr(e), flags |-> pte_flags(e), size |-> s.h]

SetEntry(t, v, h, e) == [mem EXCEPT ![t][p_index(v, h)] = e]
---------------------------------------------------------------------------
(* The cursor and the operation in progress *)

\* TlbFlusher: None, Array(arr) or Full.
Flusher(kind, arr) == [kind |-> kind, arr |-> arr]

\* Faulty variants of push: the array one entry too long; the address that
\* does not fit forgotten.
push_TooLong(fl, v) ==
    IF fl.kind = "None" THEN Flusher("Array", <<v>>)
    ELSE IF fl.kind # "Array" THEN fl
    ELSE IF Len(fl.arr) <= SMALL_FLUSH_THRESHOLD
    THEN Flusher("Array", Append(fl.arr, v))
    ELSE Flusher("Full", <<>>)

push_Forgets(fl, v) ==
    IF fl.kind = "None" THEN Flusher("Array", <<v>>)
    ELSE IF fl.kind = "Array" /\ Len(fl.arr) < SMALL_FLUSH_THRESHOLD
    THEN Flusher("Array", Append(fl.arr, v))
    ELSE fl

\* PageTable64Cursor::push
push(fl, v) ==
    IF fl.kind = "None" THEN Flusher("Array", <<v>>)
    ELSE IF fl.kind # "Array" THEN fl
    ELSE IF Len(fl.arr) < SMALL_FLUSH_THRESHOLD
    THEN Flusher("Array", Append(fl.arr, v))
    ELSE Flusher("Full", <<>>)

NoCall ==
    [pc |-> "Idle", op |-> "none", vaddr |-> 0, target |-> PA0, size |-> 0,
     flags |-> {}, table |-> NoFrame, h |-> 0, new |-> NoFrame]

NoRet == [op |-> "none", err |-> "none", vaddr |-> 0, out |-> Unmapped]
Ret(op, v, err, out) == [op |-> op, err |-> err, vaddr |-> v, out |-> out]

Idle == call.pc = "Idle"
CursorIdle == Idle /\ flusher.kind # "Closed"

\* The operation returns the error err and has changed nothing.
Fail(op, v, err) ==
    /\ ret' = Ret(op, v, err, Unmapped)
    /\ call' = NoCall
    /\ UNCHANGED <<mem, height, root_paddr, flusher>>
---------------------------------------------------------------------------
(* try_new and alloc_table *)

TryNew ==
    /\ Idle
    /\ root_paddr = NoFrame
    /\ call' = [NoCall EXCEPT !.pc = "Alloc", !.op = "try_new", !.h = LEVELS]
    /\ ret' = NoRet
    /\ UNCHANGED <<mem, height, root_paddr, flusher>>

\* H::alloc_frame() returns a frame, with whatever it held before.
AllocFrame(f, stale) ==
    /\ call.pc = "Alloc"
    /\ f \in AllocChoice(DOMAIN mem)
    /\ mem' = [g \in DOMAIN mem \cup {f} |-> IF g = f THEN stale ELSE mem[g]]
    /\ height' = [g \in DOMAIN mem \cup {f} |->
                     IF g = f THEN call.h - 1 ELSE height[g]]
    /\ call' = [call EXCEPT !.pc = "Zero", !.new = f]
    /\ UNCHANGED <<root_paddr, flusher, ret>>

\* H::alloc_frame() returns None: alloc_table fails and so does the caller.
\* The tables that a map linked on the levels above stay.
AllocFail ==
    /\ call.pc = "Alloc"
    /\ Fail(call.op, call.vaddr, "NoMemory")

\* Faulty variants of ZeroFrame: the frame is not zeroed; its last entry is
\* not.
ZeroFrame_Skipped ==
    /\ call.pc = "Zero"
    /\ call' = [call EXCEPT !.pc = "Link"]
    /\ UNCHANGED <<mem, height, root_paddr, flusher, ret>>

ZeroFrame_Short ==
    /\ call.pc = "Zero"
    /\ mem' = [mem EXCEPT ![call.new] =
                  [i \in Idx |-> IF i = ENTRY_COUNT - 1 THEN @[i] ELSE Zero]]
    /\ call' = [call EXCEPT !.pc = "Link"]
    /\ UNCHANGED <<height, root_paddr, flusher, ret>>

\* write_bytes(ptr, 0, PAGE_SIZE_4K)
ZeroFrame ==
    /\ call.pc = "Zero"
    /\ mem' = [mem EXCEPT ![call.new] = [i \in Idx |-> Zero]]
    /\ call' = [call EXCEPT !.pc = "Link"]
    /\ UNCHANGED <<height, root_paddr, flusher, ret>>

LinkRoot ==
    /\ call.pc = "Link"
    /\ call.op = "try_new"
    /\ root_paddr' = call.new
    /\ call' = NoCall
    /\ ret' = Ret("try_new", 0, "Ok", Unmapped)
    /\ UNCHANGED <<mem, height, flusher>>
---------------------------------------------------------------------------
(* Cursor operations *)

OpenCursor ==
    /\ Idle
    /\ root_paddr # NoFrame
    /\ flusher.kind = "Closed"
    /\ flusher' = Flusher("None", <<>>)
    /\ UNCHANGED <<mem, height, root_paddr, call, ret>>

\* map: the descent of get_entry_mut_or_create starts at the root.
Map(v, target, size, flags) ==
    /\ CursorIdle
    /\ call' = [pc |-> "Descend", op |-> "map", vaddr |-> v,
                target |-> target, size |-> size, flags |-> flags,
                table |-> root_paddr, h |-> LEVELS - 1, new |-> NoFrame]
    /\ ret' = NoRet
    /\ UNCHANGED <<mem, height, root_paddr, flusher>>

MapEntry == mem[call.table][p_index(call.vaddr, call.h)]

\* next_table_mut_or_create of an unused entry: allocate the table first.
MapCreate ==
    /\ call.pc = "Descend"
    /\ call.h > call.size
    /\ pte_is_unused(MapEntry)
    /\ call' = [call EXCEPT !.pc = "Alloc"]
    /\ UNCHANGED <<mem, height, root_paddr, flusher, ret>>

\* *entry = GenericPTE::new_table(paddr), and the descent goes on in it.
LinkTable ==
    /\ call.pc = "Link"
    /\ call.op = "map"
    /\ mem' = SetEntry(call.table, call.vaddr, call.h, pte_new_table(call.new))
    /\ call' = [call EXCEPT !.pc = "Descend", !.table = call.new,
                            !.h = call.h - 1, !.new = NoFrame]
    /\ UNCHANGED <<height, root_paddr, flusher, ret>>

\* next_table_mut_or_create of a used entry: next_table_mut.
MapDescend ==
    /\ call.pc = "Descend"
    /\ call.h > call.size
    /\ ~pte_is_unused(MapEntry)
    /\ IF IsTable(MapEntry)
       THEN /\ call' = [call EXCEPT !.table = pte_paddr(MapEntry),
                                    !.h = call.h - 1]
            /\ UNCHANGED <<mem, height, root_paddr, flusher, ret>>
       ELSE Fail("map", call.vaddr, next_table(MapEntry).err)

\* Faulty variants of MapPage: an entry in use is overwritten; the target is
\* not aligned down.
MapPage_Overwrites ==
    /\ call.pc = "Descend"
    /\ call.h = call.size
    /\ mem' = SetEntry(call.table, call.vaddr, call.h,
                       pte_new_page(align_down(call.target, call.size),
                                call.flags, call.size # Size4K))
    /\ flusher' = push(flusher, call.vaddr)
    /\ ret' = Ret("map", call.vaddr, "Ok", [size |-> call.size])
    /\ call' = NoCall
    /\ UNCHANGED <<height, root_paddr>>

MapPage_Unaligned ==
    /\ call.pc = "Descend"
    /\ call.h = call.size
    /\ pte_is_unused(MapEntry)
    /\ mem' = SetEntry(call.table, call.vaddr, call.h,
                       pte_new_page(call.target, call.flags, call.size # Size4K))
    /\ flusher' = push(flusher, call.vaddr)
    /\ ret' = Ret("map", call.vaddr, "Ok", [size |-> call.size])
    /\ call' = NoCall
    /\ UNCHANGED <<height, root_paddr>>

\* The entry of the requested size: write the page, unless it is in use.
MapPage ==
    /\ call.pc = "Descend"
    /\ call.h = call.size
    /\ pte_is_unused(MapEntry)
    /\ mem' = SetEntry(call.table, call.vaddr, call.h,
                       pte_new_page(align_down(call.target, call.size),
                                call.flags, call.size # Size4K))
    /\ flusher' = push(flusher, call.vaddr)
    /\ ret' = Ret("map", call.vaddr, "Ok", [size |-> call.size])
    /\ call' = NoCall
    /\ UNCHANGED <<height, root_paddr>>

MapOccupied ==
    /\ call.pc = "Descend"
    /\ call.h = call.size
    /\ ~pte_is_unused(MapEntry)
    /\ Fail("map", call.vaddr, "AlreadyMapped")

\* remap, first write: set_paddr.  The address is not aligned down.
Remap(v, paddr, flags) ==
    /\ CursorIdle
    /\ LET s == get_entry(mem, v)
           e == mem[s.table][p_index(v, s.h)]
       IN  IF s.err = "Ok"
           THEN /\ mem' = SetEntry(s.table, v, s.h, pte_set_paddr(e, paddr))
                /\ call' = [NoCall EXCEPT !.pc = "SetFlags", !.op = "remap",
                              !.vaddr = v, !.flags = flags, !.size = s.h,
                              !.table = s.table, !.h = s.h]
                /\ ret' = NoRet
                /\ UNCHANGED <<height, root_paddr, flusher>>
           ELSE Fail("remap", v, s.err)

\* remap, second write: set_flags, and only then the flush request.
RemapSetFlags ==
    /\ call.pc = "SetFlags"
    /\ mem' = SetEntry(call.table, call.vaddr, call.h,
                       pte_set_flags(MapEntry, call.flags, call.size # Size4K))
    /\ flusher' = push(flusher, call.vaddr)
    /\ ret' = Ret("remap", call.vaddr, "Ok", [size |-> call.size])
    /\ call' = NoCall
    /\ UNCHANGED <<height, root_paddr>>

\* A faulty variant of Protect: no flush request.
Protect_NoFlush(v, flags) ==
    /\ CursorIdle
    /\ LET s == get_entry(mem, v)
           e == mem[s.table][p_index(v, s.h)]
       IN  IF s.err # "Ok" THEN Fail("protect", v, s.err)
           ELSE IF ~pte_is_present(e) THEN Fail("protect", v, "NotMapped")
           ELSE /\ mem' = SetEntry(s.table, v, s.h,
                                   pte_set_flags(e, flags, s.h # Size4K))
                /\ ret' = Ret("protect", v, "Ok", [size |-> s.h])
                /\ UNCHANGED <<height, root_paddr, flusher, call>>

\* protect: the flags of a present entry, with the size it was found at.
Protect(v, flags) ==
    /\ CursorIdle
    /\ LET s == get_entry(mem, v)
           e == mem[s.table][p_index(v, s.h)]
       IN  IF s.err # "Ok" THEN Fail("protect", v, s.err)
           ELSE IF ~pte_is_present(e) THEN Fail("protect", v, "NotMapped")
           ELSE /\ mem' = SetEntry(s.table, v, s.h,
                                   pte_set_flags(e, flags, s.h # Size4K))
                /\ flusher' = push(flusher, v)
                /\ ret' = Ret("protect", v, "Ok", [size |-> s.h])
                /\ UNCHANGED <<height, root_paddr, call>>

\* unmap: an entry that is not present is cleared all the same, with no
\* flush request.
Unmap(v) ==
    /\ CursorIdle
    /\ LET s == get_entry(mem, v)
           e == mem[s.table][p_index(v, s.h)]
       IN  IF s.err # "Ok" THEN Fail("unmap", v, s.err)
           ELSE /\ mem' = SetEntry(s.table, v, s.h, Zero)
                /\ IF pte_is_present(e)
                   THEN /\ flusher' = push(flusher, v)
                        /\ ret' = Ret("unmap", v, "Ok", query(mem, v))
                   ELSE /\ UNCHANGED flusher
                        /\ ret' = Ret("unmap", v, "NotMapped", Unmapped)
                /\ UNCHANGED <<height, root_paddr, call>>
---------------------------------------------------------------------------
(* flush, and the drop of the cursor, which flushes *)

Flush(op) ==
    /\ CursorIdle
    /\ call' = [NoCall EXCEPT !.pc = "Flush", !.op = op]
    /\ ret' = NoRet
    /\ UNCHANGED <<mem, height, root_paddr, flusher>>

\* M::flush_tlb(Some(v)) for the next address of the array.  The addresses
\* already flushed are dropped from the array, which the code clears at the end.
FlushEntry(v) ==
    /\ call.pc = "Flush"
    /\ flusher.kind = "Array"
    /\ flusher.arr # <<>>
    /\ v = Head(flusher.arr)
    /\ flusher' = Flusher("Array", Tail(flusher.arr))
    /\ UNCHANGED <<mem, height, root_paddr, call, ret>>

\* M::flush_tlb(None)
FlushAll ==
    /\ call.pc = "Flush"
    /\ flusher.kind = "Full"
    /\ flusher' = Flusher("None", <<>>)
    /\ UNCHANGED <<mem, height, root_paddr, call, ret>>

FlushDone ==
    /\ call.pc = "Flush"
    /\ flusher.kind # "Full"
    /\ flusher.arr = <<>>
    /\ flusher' = Flusher(IF call.op = "drop" THEN "Closed" ELSE "None", <<>>)
    /\ call' = NoCall
    /\ UNCHANGED <<mem, height, root_paddr, ret>>
---------------------------------------------------------------------------
(* Drop of the table *)

\* The tables that the entries of the tables S lead to.
Children(S) ==
    {pte_paddr(e) : e \in {d \in {mem[t][i] : t \in S \cap DOMAIN mem, i \in Idx} :
                             IsTable(d)}}

\* The tables of each height, root first: what Drop and dealloc_tree visit.
\* The entries of the last level are pages and are not followed.
Level3 == IF LEVELS = 4 THEN {root_paddr} ELSE {}
Level2 == IF LEVELS = 4 THEN Children(Level3) ELSE {root_paddr}
Level1 == Children(Level2)
Level0 == Children(Level1)
Upper  == Level3 \cup Level2 \cup Level1
Tree   == Upper \cup Level0

Drop ==
    /\ Idle
    /\ flusher.kind = "Closed"
    /\ root_paddr # NoFrame
    /\ mem' = [f \in DOMAIN mem \ Tree |-> mem[f]]
    /\ height' = [f \in DOMAIN mem \ Tree |-> height[f]]
    /\ root_paddr' = NoFrame
    /\ ret' = NoRet
    /\ UNCHANGED <<flusher, call>>
---------------------------------------------------------------------------
Init ==
    /\ mem = [f \in {} |-> {}]
    /\ height = [f \in {} |-> 0]
    /\ root_paddr = NoFrame
    /\ flusher = Flusher("Closed", <<>>)
    /\ call = NoCall
    /\ ret = NoRet

\* An operation begins.
Begin ==
    \/ TryNew
    \/ OpenCursor
    \/ \E v \in VAddr, p \in Target, s \in PageSize, f \in Flags : Map(v, p, s, f)
    \/ \E v \in VAddr, p \in Target, f \in Flags : Remap(v, p, f)
    \/ \E v \in VAddr, f \in Flags : Protect(v, f)
    \/ \E v \in VAddr : Unmap(v)
    \/ \E op \in {"flush", "drop"} : Flush(op)
    \/ Drop

\* The operation in progress goes on, in memory...
Advance ==
    \/ \E f \in Frame, stale \in StaleTable : AllocFrame(f, stale)
    \/ AllocFail
    \/ ZeroFrame
    \/ LinkRoot
    \/ LinkTable
    \/ MapCreate
    \/ MapDescend
    \/ MapPage
    \/ MapOccupied
    \/ RemapSetFlags
    \/ FlushDone

\* ... or with a TLB invalidation.
Continue ==
    \/ Advance
    \/ \E v \in VAddr : FlushEntry(v)
    \/ FlushAll

Next == Begin \/ Continue

\* The thread that called an operation runs until it returns.
Fairness == WF_vars(Continue)

Spec == Init /\ [][Next]_vars
FairSpec == Spec /\ Fairness
---------------------------------------------------------------------------
(* Properties *)

\* Type correctness of every variable.
FlusherOK ==
    /\ flusher.kind \in {"Closed", "None", "Array", "Full"}
    /\ flusher.arr \in Seq(VAddr)
    /\ flusher = [kind |-> flusher.kind, arr |-> flusher.arr]
    /\ flusher.kind # "Array" => flusher.arr = <<>>
    /\ Len(flusher.arr) <= SMALL_FLUSH_THRESHOLD

CallOK ==
    call \in [pc : {"Idle", "Alloc", "Zero", "Link", "Descend", "SetFlags", "Flush"},
              op : {"none", "try_new", "map", "remap", "flush", "drop"},
              vaddr : VAddr \cup {0}, target : PAddr, size : PageSize,
              flags : Flags \cup {{}}, table : Frame \cup {NoFrame},
              h : 0 .. LEVELS, new : Frame \cup {NoFrame}]

\* Every variable has its type: the memory holds whole tables of entries and
\* the flusher never holds more addresses than its array has room for
\* (ArrayVec of TlbFlusher, lib.rs).
TypeOK ==
    /\ mem \in [DOMAIN mem -> Table]
    /\ DOMAIN mem \subseteq Frame
    /\ height \in [DOMAIN mem -> H]
    /\ root_paddr \in Frame \cup {NoFrame}
    /\ FlusherOK
    /\ CallOK

\* Every table the hardware or the code can reach from the root is a frame
\* the allocator still counts as allocated: no operation and no drop leaves
\* a pointer to a freed frame.
NoDanglingTable == root_paddr # NoFrame => Tree \subseteq DOMAIN mem

\* The entries of the tables above the last level that lead to a table.
TableSlots ==
    {s \in (Upper \cap DOMAIN mem) \X Idx : IsTable(mem[s[1]][s[2]])}

\* Each table hangs from one entry: Drop, which frees a table for every entry
\* it finds leading to one, frees no frame twice.
NoSharedTable ==
    root_paddr # NoFrame =>
        /\ \A s1, s2 \in TableSlots :
              pte_paddr(mem[s1[1]][s1[2]]) = pte_paddr(mem[s2[1]][s2[2]]) => s1 = s2
        /\ \A s \in TableSlots : pte_paddr(mem[s[1]][s[2]]) # root_paddr

\* Every allocated frame is a table of the tree, or the one an operation is
\* about to link: whatever map, remap and unmap did and wherever an
\* allocation failed, Drop gives back every frame.
NoLeakedTable ==
    DOMAIN mem \subseteq (IF root_paddr = NoFrame THEN {} ELSE Tree) \cup {call.new}

\* The inductive invariant behind the three properties above, stated with the
\* height each frame was made for instead of the levels of the tree.
Linked == DOMAIN mem \ {call.new}

\* Entry i of the linked table t leads to a table.
Leads(t, i) == height[t] > 0 /\ IsTable(mem[t][i])

RootInv ==
    IF root_paddr = NoFrame
    THEN Linked = {} /\ flusher.kind = "Closed"
    ELSE root_paddr \in Linked /\ height[root_paddr] = LEVELS - 1

\* Tables lead to linked tables, one level down.
ChildInv ==
    \A t \in Linked, i \in Idx :
        Leads(t, i) => /\ pte_paddr(mem[t][i]) \in Linked
                       /\ height[pte_paddr(mem[t][i])] = height[t] - 1

UniqueInv ==
    \A t1, t2 \in Linked, i1, i2 \in Idx :
        /\ Leads(t1, i1)
        /\ Leads(t2, i2)
        /\ pte_paddr(mem[t1][i1]) = pte_paddr(mem[t2][i2])
        => t1 = t2 /\ i1 = i2

\* Every linked table but the root hangs from an entry.
ParentInv ==
    \A c \in Linked \ {root_paddr} :
        \E t \in Linked, i \in Idx : Leads(t, i) /\ pte_paddr(mem[t][i]) = c

\* What the operation in progress knows of memory between its steps.
CallInv ==
    /\ Idle => call = NoCall
    /\ call.pc \in {"Zero", "Link"} => /\ call.new \in DOMAIN mem
                                      /\ height[call.new] = call.h - 1
    /\ call.pc \notin {"Zero", "Link"} => call.new = NoFrame
    /\ call.pc = "Link" => mem[call.new] = [i \in Idx |-> Zero]
    /\ call.pc \in {"Alloc", "Zero", "Link"} =>
          \/ call.op = "try_new" /\ root_paddr = NoFrame /\ call.h = LEVELS
          \/ call.op = "map" /\ call.h > call.size
    /\ call.pc = "Descend" => call.op = "map" /\ call.h >= call.size
    /\ call.op = "map" => call.target \in Target
    /\ call.op \in {"map", "remap"} =>
          /\ root_paddr # NoFrame
          /\ call.vaddr \in VAddr
          /\ call.flags \in Flags
          /\ call.table \in Linked
          /\ height[call.table] = call.h
    /\ call.pc \in {"Alloc", "Zero", "Link"} /\ call.op = "map" => MapEntry = Zero
    /\ call.pc = "SetFlags" =>
          /\ call.op = "remap"
          /\ call.size = call.h
          /\ call.h # Size4K => pte_is_huge(MapEntry)
    /\ call.pc = "Flush" => root_paddr # NoFrame

TreeInv == RootInv /\ ChildInv /\ UniqueInv /\ ParentInv /\ CallInv

\* The table implements AddressSpace.  `query` of the memory is the space,
\* and a remap takes effect at its first write: until the second one, the
\* space is what the second one will make it.
View ==
    LET pending == call.pc = "SetFlags"
        done == SetEntry(call.table, call.vaddr, call.h,
                         pte_set_flags(MapEntry, call.flags, call.size # Size4K))
        m == IF pending THEN done ELSE mem
    IN  [v \in VAddr |-> IF root_paddr = NoFrame THEN Unmapped ELSE query(m, v)]

ViewRet ==
    IF call.pc = "SetFlags"
    THEN Ret("remap", call.vaddr, "Ok", [size |-> call.size])
    ELSE ret

Abs == INSTANCE AddressSpace WITH space <- View, ret <- ViewRet

\* A remap needs the tables that lead to its entry (the doc of `remap`): above
\* the last level it replaces a page, it never fills an entry that is unused.
RemapNeedsTables ==
    [][call'.pc = "SetFlags" /\ call'.h # Size4K /\ call.pc # "SetFlags"
         => ~pte_is_unused(mem[call'.table][p_index(call'.vaddr, call'.h)])]_vars

\* Each operation changes the translations of one aligned block, as its
\* answer says, or of none; map overwrites nothing; protect keeps the
\* address; unmap answers what it removed; drop leaves nothing.
ImplementsAddressSpace == Abs!Spec
===========================================================================
