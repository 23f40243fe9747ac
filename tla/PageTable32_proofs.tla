------------------------ MODULE PageTable32_proofs ------------------------
(***************************************************************************)
(* The ARMv7-A table, for every number of entries and frames, every        *)
(* lender, every entry format that satisfies the assumptions of GenericPTE *)
(* and PageTable32, every allocator and every region:                      *)
(*   - each second-level table has one owner, and nothing in use is freed; *)
(*   - each change of a translation asks for a flush;                      *)
(*   - an entry is unused, leads to a table or maps what a caller asked;   *)
(*   - the table implements AddressSpace;                                  *)
(*   - the loops over regions do their work page by page, by the table's   *)
(*     own operations.                                                     *)
(***************************************************************************)
EXTENDS PageTable32Region, DivisionLemmas, TLAPS

\* A cursor is open on a table only, and a map in progress on a cursor.
CursorInv ==
    /\ flusher.kind # "Closed" => l1 # NoTable
    /\ call.pc = "Map" => /\ flusher.kind # "Closed"
                          /\ call.vaddr \in VAddr
                          /\ call.target \in Target
                          /\ call.flags \in Flags

\* A borrowed entry still is the lender's, and leads to a table: no operation
\* on a page writes it, so no table of our own ever hangs from it.
BorrowedInv ==
    /\ l1 = NoTable => borrowed_entries = {}
    /\ \A i \in borrowed_entries : l1[i] = Lender[i] /\ IsTable(Lender[i])

TreeInv == BorrowedInv /\ TablesAllocated /\ TablesUnshared /\ TablesFreed

IInv == TypeOK /\ CursorInv /\ TreeInv

---------------------------------------------------------------------------
(* Indices and entries *)

\* A page has bytes.
LEMMA PageBytesPositive == \A s \in PageSize : PageBytes(s) \in Nat \ {0}
<1> DEFINE p == PAGE_SIZE_4K
           n == L2_COUNT
<1>1. p \in Nat \ {0} /\ n \in Nat \ {0}
  BY CountAssumption
<1> HIDE DEF p, n
<1>2. p * n \in Nat \ {0}
  BY <1>1
<1> QED
  BY <1>1, <1>2 DEF PageBytes, PageSize, Size4K, Size1M, p, n

\* Every address has an entry on both levels.
LEMMA IndexTyped == \A v \in Nat : p1_index(v) \in Idx1 /\ p2_index(v) \in Idx2
<1> TAKE v \in Nat
<1>1. PageBytes(Size1M) \in Nat \ {0} /\ PAGE_SIZE_4K \in Nat \ {0}
  BY PageBytesPositive, CountAssumption DEF PageSize
<1>2. v \div PageBytes(Size1M) \in Int /\ v \div PAGE_SIZE_4K \in Int
  BY <1>1
<1> QED
  BY <1>2, CountAssumption DEF p1_index, p2_index, Idx1, Idx2

\* A first level is not the absence of one.
LEMMA SomeTable == \A g \in [Idx1 -> PTE] : g # NoTable
<1> TAKE g \in [Idx1 -> PTE]
<1>1. 0 \in DOMAIN g
  BY CountAssumption DEF Idx1
<1>2. DOMAIN NoTable = 1 .. 0
  BY DEF NoTable
<1> QED
  BY <1>1, <1>2

\* While there is a table, its first level has an entry for every index.
LEMMA FirstLevel ==
    ASSUME TypeOK, l1 # NoTable
    PROVE  l1 \in [Idx1 -> PTE] /\ Mapped = Idx1
BY DEF TypeOK, Mapped

\* Neither zero nor a section leads to a table; the entry that links a frame
\* leads to it.
LEMMA TableEntries ==
    /\ ~IsTable(Zero)
    /\ \A p \in PAddr, f \in Flags : ~IsTable(pte_new_page(p, f, TRUE))
    /\ \A f \in Frame : IsTable(pte_new_table(f)) /\ pte_paddr(pte_new_table(f)) = f
BY PteTyping, PteUnused, PteTable, PteHuge, AllocAssumption, UseAssumption DEF IsTable
---------------------------------------------------------------------------
(* The writes *)

\* The entry of an address, and what it leads to.
LEMMA EntryTyped ==
    ASSUME TypeOK, TablesAllocated, l1 # NoTable, NEW v \in VAddr
    PROVE  /\ Entry1(v) \in PTE
           /\ IsTable(Entry1(v)) => /\ pte_paddr(Entry1(v)) \in DOMAIN l2
                                    /\ EntryAt(v, Size4K) \in PTE
<1>1. l1 \in [Idx1 -> PTE] /\ Mapped = Idx1
  BY FirstLevel
<1>2. p1_index(v) \in Idx1 /\ p2_index(v) \in Idx2
  BY IndexTyped, CountAssumption
<1>3. Entry1(v) \in PTE
  BY <1>1, <1>2 DEF Entry1
<1>4. ASSUME IsTable(Entry1(v)) PROVE pte_paddr(Entry1(v)) \in DOMAIN l2
  BY <1>1, <1>2, <1>4 DEF TablesAllocated, Tables, Entry1
<1> QED
  BY <1>2, <1>3, <1>4 DEF EntryAt, Size4K, Size1M, TypeOK

\* Where get_entry ends: at a section, or below an entry that leads to a table.
LEMMA EntryFound ==
    ASSUME TypeOK, TablesAllocated, l1 # NoTable, NEW v \in VAddr, get_entry(v).err = "Ok"
    PROVE  LET size == get_entry(v).size
           IN  /\ size \in PageSize
               /\ size = Size1M => ~IsTable(Entry1(v))
               /\ size = Size4K => IsTable(Entry1(v))
               /\ EntryAt(v, size) \in PTE
BY EntryTyped DEF get_entry, IsTable, PageSize, Size4K, Size1M, EntryAt

\* A page is written where no table hangs: over an entry of the first level
\* that leads to none, or on the second level.
LEMMA WriteTree ==
    ASSUME TypeOK, TreeInv, l1 # NoTable,
           NEW v \in VAddr, NEW size \in PageSize, NEW e \in PTE,
           size = Size1M => ~IsTable(Entry1(v)) /\ ~IsTable(e),
           size = Size4K => IsTable(Entry1(v)),
           SetEntry(v, size, e), UNCHANGED borrowed_entries
    PROVE  /\ l1' \in [Idx1 -> PTE]
           /\ DOMAIN l2' = DOMAIN l2
           /\ l2' \in [DOMAIN l2 -> [Idx2 -> PTE]]
           /\ TreeInv'
<1>1. l1 \in [Idx1 -> PTE] /\ Mapped = Idx1
  BY FirstLevel
<1>2. p1_index(v) \in Idx1 /\ p2_index(v) \in Idx2
  BY IndexTyped, CountAssumption
<1>3. /\ l1' \in [Idx1 -> PTE]
      /\ DOMAIN l2' = DOMAIN l2
      /\ l2' \in [DOMAIN l2 -> [Idx2 -> PTE]]
  <2>0. l2 \in [DOMAIN l2 -> [Idx2 -> PTE]]
    BY DEF TypeOK
  <2>1. CASE size = Size1M
    BY <1>1, <1>2, <2>0, <2>1 DEF SetEntry
  <2>2. CASE size = Size4K
    BY <1>1, <1>2, <2>0, <2>2 DEF SetEntry, Size4K, Size1M
  <2> QED
    BY <2>1, <2>2 DEF PageSize
<1>4. \A i \in Idx1 : /\ IsTable(l1'[i]) <=> IsTable(l1[i])
                      /\ IsTable(l1[i]) => l1'[i] = l1[i]
  BY <1>1, <1>2 DEF SetEntry, PageSize, Entry1
<1>5. Mapped' = Idx1 /\ l1' # NoTable
  BY <1>3, SomeTable DEF Mapped
<1>6. \A J \in SUBSET Idx1 : Tables(J)' = Tables(J)
  BY <1>4 DEF Tables
<1>7. BorrowedInv'
  BY <1>4, <1>5 DEF TreeInv, BorrowedInv, TypeOK
<1>8. TablesAllocated' /\ TablesFreed'
  BY <1>1, <1>3, <1>5, <1>6 DEF TreeInv, TablesAllocated, TablesFreed
<1>9. TablesUnshared'
  BY <1>1, <1>4, <1>5, <1>6 DEF TreeInv, TablesUnshared
<1> QED
  BY <1>3, <1>7, <1>8, <1>9 DEF TreeInv
---------------------------------------------------------------------------
(* The steps *)

\* A request is recorded within the capacity of the array.
LEMMA PushTyped ==
    ASSUME TypeOK, flusher.kind # "Closed", NEW v \in VAddr
    PROVE  LET fl == push(flusher, v)
           IN  /\ fl.kind \in {"Array", "Full"}
               /\ fl.arr \in Seq(VAddr)
               /\ fl = [kind |-> fl.kind, arr |-> fl.arr]
               /\ Len(fl.arr) <= SMALL_FLUSH_THRESHOLD
<1>1. /\ flusher.kind \in {"None", "Array", "Full"}
      /\ flusher.arr \in Seq(VAddr)
      /\ flusher = [kind |-> flusher.kind, arr |-> flusher.arr]
      /\ Len(flusher.arr) <= SMALL_FLUSH_THRESHOLD
      /\ SMALL_FLUSH_THRESHOLD \in Nat \ {0}
  BY CountAssumption DEF TypeOK
<1>2. CASE flusher.kind = "None"
  <2>1. push(flusher, v) = [kind |-> "Array", arr |-> <<v>>]
    BY <1>2 DEF push, Flusher
  <2> QED
    BY <1>1, <2>1
<1>3. CASE flusher.kind = "Array" /\ Len(flusher.arr) < SMALL_FLUSH_THRESHOLD
  <2>1. push(flusher, v) = [kind |-> "Array", arr |-> Append(flusher.arr, v)]
    BY <1>3 DEF push, Flusher
  <2>2. /\ Append(flusher.arr, v) \in Seq(VAddr)
        /\ Len(Append(flusher.arr, v)) = Len(flusher.arr) + 1
    BY <1>1
  <2>3. Len(flusher.arr) \in Nat
    BY <1>1
  <2> QED
    BY <1>1, <1>3, <2>1, <2>2, <2>3
<1>4. CASE flusher.kind = "Array" /\ ~(Len(flusher.arr) < SMALL_FLUSH_THRESHOLD)
  <2>1. push(flusher, v) = [kind |-> "Full", arr |-> <<>>]
    BY <1>4 DEF push, Flusher
  <2> QED
    BY <1>1, <2>1
<1>5. CASE flusher.kind = "Full"
  <2>1. push(flusher, v) = flusher
    BY <1>5 DEF push
  <2> QED
    BY <1>1, <1>5, <2>1
<1> QED
  BY <1>1, <1>2, <1>3, <1>4, <1>5

\* No call in progress is a call.
LEMMA NoCallTyped ==
    /\ NoCall \in [pc : {"Idle", "Map"}, vaddr : VAddr \cup {0}, target : PAddr,
                   size : PageSize, flags : Flags \cup {{}}]
    /\ NoCall.pc = "Idle"
BY PteTyping DEF NoCall, PageSize

\* The operations that write the entry of a page and return.
LEMMA WriteStep ==
    ASSUME IInv, flusher.kind # "Closed",
           NEW op, NEW out, NEW v \in VAddr, NEW size \in PageSize, NEW e \in PTE,
           size = Size1M => ~IsTable(Entry1(v)) /\ ~IsTable(e),
           size = Size4K => IsTable(Entry1(v)),
           SetEntry(v, size, e), Succeed(op, v, out)
    PROVE  IInv'
<1>1. l1 # NoTable
  BY DEF IInv, CursorInv
<1>2. UNCHANGED borrowed_entries /\ flusher' = push(flusher, v) /\ call' = NoCall
  BY DEF Succeed
<1>3. /\ l1' \in [Idx1 -> PTE]
      /\ DOMAIN l2' = DOMAIN l2
      /\ l2' \in [DOMAIN l2 -> [Idx2 -> PTE]]
      /\ TreeInv'
  BY <1>1, <1>2, WriteTree DEF IInv
<1>4. CursorInv'
  BY <1>2, <1>3, SomeTable, NoCallTyped DEF CursorInv
<1>5. TypeOK'
  BY <1>2, <1>3, PushTyped, NoCallTyped DEF IInv, TypeOK
<1> QED
  BY <1>3, <1>4, <1>5 DEF IInv

\* A failed operation leaves everything but the answer.
LEMMA FailStep ==
    ASSUME IInv, NEW op, NEW v, NEW err, Fail(op, v, err)
    PROVE  IInv'
<1>1. /\ UNCHANGED <<l1, l2, borrowed_entries, flusher>>
      /\ call' = NoCall
  BY DEF Fail
<1>2. TypeOK'
  BY <1>1, NoCallTyped DEF IInv, TypeOK
<1>3. CursorInv'
  BY <1>1, NoCallTyped DEF IInv, CursorInv
<1>4. TreeInv'
  BY <1>1 DEF IInv, TreeInv, BorrowedInv, TablesAllocated, TablesUnshared, TablesFreed,
              Tables, Mapped
<1> QED
  BY <1>2, <1>3, <1>4 DEF IInv

\* The entries that copy_from writes are entries.
LEMMA CopiedTyped == \A r \in CopyRange : CopiedEntries(r[1], r[2]) \subseteq Idx1
<1> TAKE r \in CopyRange
<1>1. r[1] \in Nat /\ r[2] \in Nat
  BY LenderAssumption
<1>2. CASE r[2] = 0
  BY <1>2 DEF CopiedEntries
<1>3. CASE r[2] # 0
  <2>1. r[1] + r[2] - 1 \in Nat
    BY <1>1, <1>3
  <2>2. p1_index(r[1]) \in Idx1 /\ p1_index(r[1] + r[2] - 1) \in Idx1
    BY <1>1, <2>1, IndexTyped
  <2> QED
    BY <1>3, <2>2, CountAssumption DEF CopiedEntries, Idx1
<1> QED
  BY <1>2, <1>3

\* Without a table nothing is borrowed, owned or lost.
LEMMA InitStep == ASSUME Init PROVE IInv
<1>1. TypeOK
  BY NoCallTyped, LenderAssumption, CountAssumption DEF Init, TypeOK, Flusher, NoTable
<1>2. CursorInv
  BY NoCallTyped DEF Init, CursorInv, Flusher
<1>3. Mapped = {}
  BY DEF Init, Mapped
<1>4. TreeInv
  BY <1>3, LenderAssumption DEF Init, TreeInv, BorrowedInv, TablesAllocated, TablesUnshared,
     TablesFreed, Tables
<1> QED
  BY <1>1, <1>2, <1>4 DEF IInv

\* A new first level leads to no table.
LEMMA TryNewStep == ASSUME IInv, TryNew PROVE IInv'
<1>1. /\ l1 = NoTable /\ l1' = [i \in Idx1 |-> Zero]
      /\ UNCHANGED <<l2, borrowed_entries, flusher, call>>
  BY DEF TryNew
<1>2. l1' \in [Idx1 -> PTE] /\ l1' # NoTable
  BY <1>1, SomeTable, PteTyping
<1>3. Mapped = {} /\ Mapped' = Idx1 /\ borrowed_entries = {}
  BY <1>1, <1>2 DEF Mapped, IInv, TreeInv, BorrowedInv
<1>4. \A i \in Idx1 : ~IsTable(l1'[i])
  BY <1>1, TableEntries
<1>5. TypeOK'
  BY <1>1, <1>2 DEF IInv, TypeOK
<1>6. CursorInv'
  BY <1>1, <1>2 DEF IInv, CursorInv
<1>7. TreeInv'
  BY <1>1, <1>2, <1>3, <1>4 DEF IInv, TreeInv, BorrowedInv, TablesAllocated, TablesUnshared,
     TablesFreed, Tables
<1> QED
  BY <1>5, <1>6, <1>7 DEF IInv

\* The steps that touch neither level nor what is borrowed.
LEMMA TreeUnchanged ==
    ASSUME TreeInv, UNCHANGED <<l1, l2, borrowed_entries>>
    PROVE  TreeInv'
BY DEF TreeInv, BorrowedInv, TablesAllocated, TablesUnshared, TablesFreed, Tables, Mapped

\* Opening a cursor and beginning a map or a flush touch no table.
LEMMA CallStep ==
    ASSUME IInv,
           \/ OpenCursor
           \/ \E v \in VAddr, p \in Target, s \in PageSize, f \in Flags : Map(v, p, s, f)
           \/ \E op \in {"flush", "drop"} : Flush(op)
    PROVE  IInv'
<1>1. UNCHANGED <<l1, l2, borrowed_entries>>
  BY DEF OpenCursor, Map, Flush
<1>2. TreeInv'
  BY <1>1, TreeUnchanged DEF IInv
<1>3. CASE OpenCursor
  <2>1. TypeOK'
    BY <1>1, <1>3, CountAssumption DEF IInv, TypeOK, OpenCursor, Flusher
  <2>2. CursorInv'
    BY <1>3 DEF IInv, CursorInv, OpenCursor, Flusher, Idle
  <2> QED
    BY <1>2, <2>1, <2>2 DEF IInv
<1>4. CASE \E v \in VAddr, p \in Target, s \in PageSize, f \in Flags : Map(v, p, s, f)
  <2>1. PICK v \in VAddr, p \in Target, s \in PageSize, f \in Flags : Map(v, p, s, f)
    BY <1>4
  <2>2. /\ flusher' = flusher /\ flusher.kind # "Closed"
        /\ call' = [pc |-> "Map", vaddr |-> v, target |-> p, size |-> s, flags |-> f]
    BY <2>1 DEF Map, CursorIdle
  <2>3. p \in PAddr
    BY CountAssumption
  <2>4. TypeOK'
    BY <1>1, <2>2, <2>3 DEF IInv, TypeOK
  <2>5. CursorInv'
    BY <1>1, <2>2 DEF IInv, CursorInv
  <2> QED
    BY <1>2, <2>4, <2>5 DEF IInv
<1>5. CASE \E op \in {"flush", "drop"} : Flush(op)
  <2>1. /\ flusher'.kind \in {"Closed", "None"} /\ flusher'.arr = <<>>
        /\ flusher' = [kind |-> flusher'.kind, arr |-> flusher'.arr]
        /\ UNCHANGED call /\ call.pc = "Idle" /\ flusher.kind # "Closed"
    BY <1>5 DEF Flush, CursorIdle, Idle, Flusher
  <2>2. TypeOK'
    BY <1>1, <2>1, CountAssumption DEF IInv, TypeOK
  <2>3. CursorInv'
    BY <1>1, <2>1 DEF IInv, CursorInv
  <2> QED
    BY <1>2, <2>2, <2>3 DEF IInv
<1> QED
  BY <1>3, <1>4, <1>5

\* A frame that is free, so that no entry leads to it, is linked into an entry
\* that is unused, so that it is not borrowed.
LEMMA MapCreateStep ==
    ASSUME IInv, NEW f \in Frame, MapCreate(f)
    PROVE  IInv'
<1> DEFINE k == p1_index(call.vaddr)
           new == pte_new_table(f)
<1>1. /\ l1 \in [Idx1 -> PTE] /\ Mapped = Idx1
      /\ call.vaddr \in VAddr /\ k \in Idx1
  BY FirstLevel, IndexTyped, CountAssumption DEF MapCreate, Mapping, IInv, CursorInv
<1>2. /\ l1' = [l1 EXCEPT ![k] = new]
      /\ pte_is_unused(l1[k])
      /\ f \notin DOMAIN l2
      /\ UNCHANGED <<borrowed_entries, flusher, call>>
  BY AllocAssumption DEF MapCreate, Entry1, IInv, TypeOK
<1>3. l2' = [g \in DOMAIN l2 \cup {f} |-> IF g = f THEN [i \in Idx2 |-> Zero] ELSE l2[g]]
  BY DEF MapCreate
<1>4. IsTable(new) /\ pte_paddr(new) = f /\ new \in PTE
  BY TableEntries, PteTyping, AllocAssumption
<1>5. l1' \in [Idx1 -> PTE] /\ l1' # NoTable /\ Mapped' = Idx1
  BY <1>1, <1>2, <1>4, SomeTable DEF Mapped
<1>6. \A i \in Idx1 : l1'[i] = IF i = k THEN new ELSE l1[i]
  BY <1>1, <1>2
<1>7. ~IsTable(l1[k]) /\ k \notin borrowed_entries
  BY <1>2 DEF IInv, TreeInv, BorrowedInv, IsTable
<1>8. \A i \in Idx1 : IsTable(l1[i]) => pte_paddr(l1[i]) \in DOMAIN l2
  BY <1>1 DEF IInv, TreeInv, TablesAllocated, Tables
<1>9. \A i \in Idx1 \ borrowed_entries : IsTable(l1[i]) => pte_paddr(l1[i]) \notin LenderFrame
  BY <1>1 DEF IInv, TreeInv, TablesUnshared, Tables
<1>10. TypeOK'
  <2>1. l2' \in [DOMAIN l2' -> [Idx2 -> PTE]] /\ DOMAIN l2' \subseteq Frame
    BY <1>3, PteTyping DEF IInv, TypeOK
  <2> QED
    BY <1>2, <1>5, <2>1 DEF IInv, TypeOK
<1>11. CursorInv'
  BY <1>2, <1>5 DEF IInv, CursorInv
<1>12. BorrowedInv'
  BY <1>2, <1>5, <1>6, <1>7 DEF IInv, TreeInv, BorrowedInv, TypeOK
<1>13. TablesAllocated'
  BY <1>3, <1>4, <1>5, <1>6, <1>8 DEF IInv, TreeInv, TablesAllocated, Tables
<1>14. TablesUnshared'
  <2>1. f \notin LenderFrame
    BY <1>2 DEF IInv, TreeInv, TablesAllocated
  <2>2. \A i, j \in Idx1 :
           IsTable(l1[i]) /\ IsTable(l1[j]) /\ pte_paddr(l1[i]) = pte_paddr(l1[j]) => i = j
    BY <1>1 DEF IInv, TreeInv, TablesUnshared
  <2>3. \A i, j \in Idx1 :
           IsTable(l1'[i]) /\ IsTable(l1'[j]) /\ pte_paddr(l1'[i]) = pte_paddr(l1'[j]) => i = j
    BY <1>2, <1>4, <1>6, <1>8, <2>2
  <2>4. \A i \in Idx1 \ borrowed_entries : IsTable(l1'[i]) => pte_paddr(l1'[i]) \notin LenderFrame
    BY <1>4, <1>6, <1>9, <2>1
  <2> QED
    BY <1>2, <1>5, <2>3, <2>4 DEF TablesUnshared, Tables
<1>15. TablesFreed'
  <2>1. \A g \in DOMAIN l2 \ LenderFrame :
           \E i \in Idx1 \ borrowed_entries : IsTable(l1[i]) /\ pte_paddr(l1[i]) = g
    BY <1>1 DEF IInv, TreeInv, TablesFreed, Tables
  <2>2. \A g \in DOMAIN l2' \ LenderFrame :
           \E i \in Idx1 \ borrowed_entries : IsTable(l1'[i]) /\ pte_paddr(l1'[i]) = g
    BY <1>1, <1>3, <1>4, <1>6, <1>7, <2>1
  <2> QED
    BY <1>2, <1>5, <2>2 DEF TablesFreed, Tables
<1> QED
  BY <1>10, <1>11, <1>12, <1>13, <1>14, <1>15 DEF IInv, TreeInv

\* map writes its page into an entry that leads to no table.
LEMMA MapPageStep == ASSUME IInv, MapPage PROVE IInv'
<1> DEFINE page == pte_new_page(align_down(call.target, call.size), call.flags,
                                call.size = Size1M)
<1>1. /\ flusher.kind # "Closed" /\ l1 # NoTable
      /\ call.vaddr \in VAddr /\ call.target \in Target /\ call.flags \in Flags
      /\ call.size \in PageSize
  BY DEF MapPage, AtEntry, Mapping, IInv, TypeOK, CursorInv
<1>2. align_down(call.target, call.size) \in PAddr
  BY <1>1, CountAssumption
<1>3. page \in PTE /\ (call.size = Size1M => ~IsTable(page))
  BY <1>1, <1>2, PteTyping, TableEntries
<1>4. call.size = Size1M => ~IsTable(Entry1(call.vaddr))
  BY DEF MapPage, EntryAt, IsTable
<1>5. call.size = Size4K => IsTable(Entry1(call.vaddr))
  BY DEF MapPage, AtEntry, Mapping, Size4K, Size1M
<1>6. /\ SetEntry(call.vaddr, call.size, page)
      /\ Succeed("map", call.vaddr, [size |-> call.size])
  BY DEF MapPage
<1> QED
  BY <1>1, <1>3, <1>4, <1>5, <1>6, WriteStep

\* The operations on a page that is there, or on a hole of a table.
LEMMA RemapStep ==
    ASSUME IInv, NEW v \in VAddr, NEW p \in Target, NEW f \in Flags, Remap(v, p, f)
    PROVE  IInv'
<1> DEFINE size == get_entry(v).size
           page == pte_new_page(p, f, size = Size1M)
<1>1. CASE get_entry(v).err # "Ok"
  BY <1>1, FailStep DEF Remap
<1>2. CASE get_entry(v).err = "Ok"
  <2>1. flusher.kind # "Closed" /\ l1 # NoTable
    BY DEF Remap, CursorIdle, IInv, CursorInv
  <2>2. /\ size \in PageSize
        /\ size = Size1M => ~IsTable(Entry1(v))
        /\ size = Size4K => IsTable(Entry1(v))
    BY <1>2, <2>1, EntryFound DEF IInv, TreeInv
  <2>3. page \in PTE /\ (size = Size1M => ~IsTable(page))
    <3>1. p \in PAddr
      BY CountAssumption DEF PageSize
    <3> QED
      BY <3>1, PteTyping, TableEntries
  <2>4. SetEntry(v, size, page) /\ Succeed("remap", v, [size |-> size])
    BY <1>2 DEF Remap
  <2> QED
    BY <2>1, <2>2, <2>3, <2>4, WriteStep
<1> QED
  BY <1>1, <1>2

\* A page that query finds is where get_entry ends.
LEMMA QueryFound ==
    ASSUME IInv, CursorIdle, NEW v \in VAddr, query(v) # Unmapped
    PROVE  /\ query(v).size \in PageSize /\ query(v).paddr \in PAddr
           /\ query(v).size = Size1M => ~IsTable(Entry1(v))
           /\ query(v).size = Size4K => IsTable(Entry1(v))
           /\ flusher.kind # "Closed"
<1>1. flusher.kind # "Closed" /\ l1 # NoTable
  BY DEF CursorIdle, IInv, CursorInv
<1>2. get_entry(v).err = "Ok" /\ query(v) = Page(EntryAt(v, get_entry(v).size), get_entry(v).size)
  BY DEF query
<1>3. /\ get_entry(v).size \in PageSize
      /\ get_entry(v).size = Size1M => ~IsTable(Entry1(v))
      /\ get_entry(v).size = Size4K => IsTable(Entry1(v))
      /\ EntryAt(v, get_entry(v).size) \in PTE
  BY <1>1, <1>2, EntryFound DEF IInv, TreeInv
<1> QED
  BY <1>1, <1>2, <1>3, PteTyping DEF Page

\* protect writes a page over the page it found.
LEMMA ProtectStep ==
    ASSUME IInv, NEW v \in VAddr, NEW f \in Flags, Protect(v, f)
    PROVE  IInv'
<1> DEFINE size == query(v).size
           page == pte_new_page(query(v).paddr, f, size = Size1M)
<1>1. CASE query(v) = Unmapped
  BY <1>1, FailStep DEF Protect
<1>2. CASE query(v) # Unmapped
  <2>1. /\ size \in PageSize /\ query(v).paddr \in PAddr
        /\ size = Size1M => ~IsTable(Entry1(v))
        /\ size = Size4K => IsTable(Entry1(v))
        /\ flusher.kind # "Closed"
    BY <1>2, QueryFound DEF Protect
  <2>2. page \in PTE /\ (size = Size1M => ~IsTable(page))
    BY <2>1, PteTyping, TableEntries
  <2>3. SetEntry(v, size, page) /\ Succeed("protect", v, [size |-> size])
    BY <1>2 DEF Protect
  <2> QED
    BY <2>1, <2>2, <2>3, WriteStep
<1> QED
  BY <1>1, <1>2

\* unmap clears the entry of the page it found.
LEMMA UnmapStep == ASSUME IInv, NEW v \in VAddr, Unmap(v) PROVE IInv'
<1>1. CASE query(v) = Unmapped
  BY <1>1, FailStep DEF Unmap
<1>2. CASE query(v) # Unmapped
  <2>1. /\ query(v).size \in PageSize
        /\ query(v).size = Size1M => ~IsTable(Entry1(v))
        /\ query(v).size = Size4K => IsTable(Entry1(v))
        /\ flusher.kind # "Closed"
    BY <1>2, QueryFound DEF Unmap
  <2>2. SetEntry(v, query(v).size, Zero) /\ Succeed("unmap", v, query(v))
    BY <1>2 DEF Unmap
  <2> QED
    BY <2>1, <2>2, WriteStep, TableEntries, PteTyping
<1> QED
  BY <1>1, <1>2

\* The tables that give way are the ones of our own that hang from the entries
\* copied; what hangs from the others stays.
LEMMA CopyFromStep ==
    ASSUME IInv, NEW r \in CopyRange, CopyFrom(r[1], r[2])
    PROVE  IInv'
<1> DEFINE copied == CopiedEntries(r[1], r[2])
           freed == Tables(copied \ borrowed_entries)
<1>1. /\ l1 \in [Idx1 -> PTE] /\ Mapped = Idx1 /\ copied \subseteq Idx1
      /\ flusher.kind # "Closed" /\ call.pc = "Idle"
  BY FirstLevel, CopiedTyped DEF CopyFrom, CursorIdle, Idle, IInv, CursorInv
<1>2. /\ l1' = [i \in Idx1 |-> IF i \in copied THEN Lender[i] ELSE l1[i]]
      /\ \A i \in copied : IsTable(Lender[i])
      /\ l2' = [f \in DOMAIN l2 \ freed |-> l2[f]]
      /\ borrowed_entries' = borrowed_entries \cup copied
      /\ UNCHANGED call
      /\ flusher' = IF r[2] = 0 THEN flusher ELSE Flusher("Full", <<>>)
  BY DEF CopyFrom, FreeTables, Replaced, Borrowed
<1>3. l1' \in [Idx1 -> PTE] /\ l1' # NoTable /\ Mapped' = Idx1
  BY <1>1, <1>2, LenderAssumption, SomeTable DEF Mapped
<1>4. \A i \in Idx1 : l1'[i] = IF i \in copied THEN Lender[i] ELSE l1[i]
  BY <1>2
<1> HIDE DEF copied
<1>5. /\ \A i \in Idx1 : IsTable(l1[i]) => pte_paddr(l1[i]) \in DOMAIN l2
      /\ LenderFrame \subseteq DOMAIN l2
      /\ \A i, j \in Idx1 :
            IsTable(l1[i]) /\ IsTable(l1[j]) /\ pte_paddr(l1[i]) = pte_paddr(l1[j]) => i = j
      /\ \A i \in Idx1 \ borrowed_entries :
            IsTable(l1[i]) => pte_paddr(l1[i]) \notin LenderFrame
      /\ \A f \in DOMAIN l2 \ LenderFrame :
            \E i \in Idx1 \ borrowed_entries : IsTable(l1[i]) /\ pte_paddr(l1[i]) = f
      /\ \A i \in borrowed_entries : l1[i] = Lender[i] /\ IsTable(Lender[i])
  BY <1>1 DEF IInv, TreeInv, BorrowedInv, TablesAllocated, TablesUnshared, TablesFreed, Tables
<1>6. \A f : f \in freed <=>
           \E i \in copied \ borrowed_entries : IsTable(l1[i]) /\ pte_paddr(l1[i]) = f
  BY DEF Tables
<1> HIDE DEF freed
<1>7. \A i \in Idx1 : IsTable(Lender[i]) => pte_paddr(Lender[i]) \in LenderFrame
  BY LenderAssumption
<1>8. TypeOK'
  <2>1. l2' \in [DOMAIN l2' -> [Idx2 -> PTE]] /\ DOMAIN l2' \subseteq Frame
    BY <1>2 DEF IInv, TypeOK
  <2>2. borrowed_entries' \subseteq Idx1
    BY <1>1, <1>2 DEF IInv, TypeOK
  <2>3. /\ flusher'.kind \in {"Closed", "None", "Array", "Full"}
        /\ flusher'.arr \in Seq(VAddr)
        /\ flusher' = [kind |-> flusher'.kind, arr |-> flusher'.arr]
        /\ Len(flusher'.arr) <= SMALL_FLUSH_THRESHOLD
    BY <1>2, CountAssumption DEF IInv, TypeOK, Flusher
  <2> QED
    BY <1>2, <1>3, <2>1, <2>2, <2>3 DEF IInv, TypeOK
<1>9. CursorInv'
  BY <1>1, <1>2, <1>3 DEF CursorInv
<1>10. BorrowedInv'
  <2>1. \A i \in borrowed_entries' : l1'[i] = Lender[i] /\ IsTable(Lender[i])
    BY <1>1, <1>2, <1>4, <1>5 DEF IInv, TypeOK
  <2> QED
    BY <1>3, <2>1 DEF BorrowedInv
<1>11. TablesAllocated'
  <2>1. \A i \in Idx1 : IsTable(l1'[i]) => pte_paddr(l1'[i]) \in DOMAIN l2'
    <3> SUFFICES ASSUME NEW i \in Idx1, IsTable(l1'[i])
                 PROVE  pte_paddr(l1'[i]) \in DOMAIN l2 /\ pte_paddr(l1'[i]) \notin freed
      BY <1>2
    <3>1. CASE i \in copied
      BY <1>1, <1>4, <1>5, <1>6, <1>7, <3>1
    <3>2. CASE i \notin copied
      BY <1>1, <1>4, <1>5, <1>6, <3>2
    <3> QED
      BY <3>1, <3>2
  <2>2. LenderFrame \subseteq DOMAIN l2'
    BY <1>1, <1>2, <1>5, <1>6
  <2> QED
    BY <1>3, <2>1, <2>2 DEF TablesAllocated, Tables
<1>12. TablesUnshared'
  <2>1. \A i \in Idx1 \ borrowed_entries' :
           IsTable(l1'[i]) => pte_paddr(l1'[i]) \notin LenderFrame
    BY <1>2, <1>4, <1>5
  <2>2. \A i \in Idx1 : IsTable(l1'[i]) /\ pte_paddr(l1'[i]) \in LenderFrame
           => i \in borrowed_entries'
    BY <2>1
  <2>3. ASSUME NEW i \in Idx1, NEW j \in Idx1,
               IsTable(l1'[i]), IsTable(l1'[j]), pte_paddr(l1'[i]) = pte_paddr(l1'[j])
        PROVE  i = j
    <3>1. CASE i \in borrowed_entries' \/ j \in borrowed_entries'
      <4>1. \A k \in borrowed_entries' : l1'[k] = Lender[k] /\ IsTable(Lender[k])
        BY <1>10 DEF BorrowedInv
      <4>2. pte_paddr(l1'[i]) \in LenderFrame
        BY <1>7, <2>3, <3>1, <4>1
      <4>3. i \in borrowed_entries' /\ j \in borrowed_entries'
        BY <2>2, <2>3, <4>2
      <4> QED
        BY <2>3, <4>1, <4>3, LenderAssumption
    <3>2. CASE i \notin borrowed_entries' /\ j \notin borrowed_entries'
      BY <1>2, <1>4, <1>5, <2>3, <3>2
    <3> QED
      BY <3>1, <3>2
  <2> QED
    BY <1>3, <2>1, <2>3 DEF TablesUnshared, Tables
<1>13. TablesFreed'
  <2>1. \A f \in DOMAIN l2' \ LenderFrame :
           \E i \in Idx1 \ borrowed_entries' : IsTable(l1'[i]) /\ pte_paddr(l1'[i]) = f
    <3> TAKE f \in DOMAIN l2' \ LenderFrame
    <3>1. f \in DOMAIN l2 /\ f \notin freed
      BY <1>2
    <3>2. PICK i \in Idx1 \ borrowed_entries : IsTable(l1[i]) /\ pte_paddr(l1[i]) = f
      BY <1>5, <3>1
    <3>3. i \notin copied
      BY <1>6, <3>1, <3>2
    <3> QED
      BY <1>2, <1>4, <3>2, <3>3
  <2> QED
    BY <1>3, <2>1 DEF TablesFreed, Tables
<1> QED
  BY <1>8, <1>9, <1>10, <1>11, <1>12, <1>13 DEF IInv, TreeInv

\* Only the lender's tables are left.
LEMMA DropStep == ASSUME IInv, Drop PROVE IInv'
<1>1. /\ l1' = NoTable /\ Mapped = Idx1 /\ Mapped' = {} /\ borrowed_entries' = {}
      /\ UNCHANGED <<flusher, call>>
      /\ flusher.kind = "Closed"
      /\ l2' = [f \in DOMAIN l2 \ Tables(Idx1 \ borrowed_entries) |-> l2[f]]
  BY DEF Drop, Mapped, FreeTables
<1>2. TypeOK'
  BY <1>1 DEF IInv, TypeOK
<1>3. CursorInv'
  BY <1>1 DEF IInv, CursorInv
<1>4. TreeInv'
  BY <1>1 DEF IInv, TreeInv, BorrowedInv, TablesAllocated, TablesUnshared, TablesFreed, Tables
<1> QED
  BY <1>2, <1>3, <1>4 DEF IInv
---------------------------------------------------------------------------
(* Theorems *)

\* Every step keeps the invariant: one case per action.
LEMMA NextStep == ASSUME IInv, [Next]_vars PROVE IInv'
<1>1. CASE UNCHANGED vars
  BY <1>1 DEF vars, IInv, TypeOK, CursorInv, TreeInv, BorrowedInv, TablesAllocated,
     TablesUnshared, TablesFreed, Tables, Mapped
<1>2. CASE Begin
  BY <1>2, TryNewStep, FailStep, CallStep, RemapStep, ProtectStep, UnmapStep, CopyFromStep,
     DropStep DEF Begin, TryNewFails
<1>3. CASE Continue
  <2>1. ASSUME MapNoMemory \/ MapInSection \/ MapOccupied PROVE IInv'
    BY <2>1, FailStep DEF MapNoMemory, MapInSection, MapOccupied
  <2> QED
    BY <1>3, <2>1, MapCreateStep, MapPageStep DEF Continue
<1> QED
  BY <1>1, <1>2, <1>3 DEF Next

\* IInv is inductive and holds of every behaviour of the table and its cursor.
THEOREM Invariance == Spec => []IInv
<1>1. Init => IInv
  BY InitStep
<1>2. IInv /\ [Next]_vars => IInv'
  BY NextStep
<1> QED
  BY <1>1, <1>2, PTL DEF Spec

\* Every variable keeps its type; the flusher's array never exceeds its
\* capacity.
THEOREM TypeCorrectness == Spec => []TypeOK
<1>1. IInv => TypeOK
  BY DEF IInv
<1> QED
  BY <1>1, Invariance, PTL

\* No copy and no drop frees a table that the first level or the lender still
\* leads to.
THEOREM NothingFreedInUse == Spec => []TablesAllocated
<1>1. IInv => TablesAllocated
  BY DEF IInv, TreeInv
<1> QED
  BY <1>1, Invariance, PTL

\* Each table hangs from one entry, and drop spares those of the lender.
THEOREM NothingFreedTwice == Spec => []TablesUnshared
<1>1. IInv => TablesUnshared
  BY DEF IInv, TreeInv
<1> QED
  BY <1>1, Invariance, PTL

\* What is allocated is the lender's or freed by drop: nothing is lost.
THEOREM NothingLost == Spec => []TablesFreed
<1>1. IInv => TablesFreed
  BY DEF IInv, TreeInv
<1> QED
  BY <1>1, Invariance, PTL
---------------------------------------------------------------------------
(* Every change is recorded *)

\* Addresses with the same entry of the first level are in one megabyte.
LEMMA SameSection ==
    ASSUME NEW u \in VAddr, NEW v \in VAddr, p1_index(u) = p1_index(v)
    PROVE  u \div PageBytes(Size1M) = v \div PageBytes(Size1M)
<1> DEFINE b == PageBytes(Size1M)
<1>1. b \in Nat \ {0} /\ u \in Nat /\ v \in Nat /\ L1_COUNT \in Nat \ {0}
  BY PageBytesPositive, CountAssumption DEF PageSize
<1>2. u < L1_COUNT * b /\ v < L1_COUNT * b
  BY SpanAssumption
<1>3. p1_index(u) = (u \div b) % L1_COUNT /\ p1_index(v) = (v \div b) % L1_COUNT
  BY DEF p1_index
<1> HIDE DEF b
<1>4. u \div b \in Nat /\ u \div b < L1_COUNT /\ v \div b \in Nat /\ v \div b < L1_COUNT
  BY <1>1, <1>2, QuotientBound, Division
<1>5. (u \div b) % L1_COUNT = u \div b /\ (v \div b) % L1_COUNT = v \div b
  BY <1>1, <1>4
<1>6. u \div b = v \div b
  BY <1>3, <1>5
<1> QED
  BY <1>6 DEF b

\* Addresses with the same entry on both levels are in one page.
LEMMA SamePage ==
    ASSUME NEW u \in VAddr, NEW v \in VAddr,
           p1_index(u) = p1_index(v), p2_index(u) = p2_index(v)
    PROVE  u \div PAGE_SIZE_4K = v \div PAGE_SIZE_4K
<1> DEFINE p == PAGE_SIZE_4K
           n == L2_COUNT
           x == u \div p
           y == v \div p
<1>1. p \in Nat \ {0} /\ n \in Nat \ {0} /\ u \in Nat /\ v \in Nat
  BY CountAssumption
<1>2. x % n = y % n
  BY DEF p2_index
<1>3. u \div (p * n) = v \div (p * n)
  BY SameSection DEF PageBytes, Size4K, Size1M
<1> HIDE DEF p, n
<1>4. x \div n = y \div n
  BY <1>1, <1>3, DivideTwice
<1>5. x \in Nat /\ y \in Nat
  BY <1>1, Division
<1> HIDE DEF x, y
<1>6. x = n * (x \div n) + (x % n) /\ y = n * (y \div n) + (y % n)
  BY <1>1, <1>5, Division
<1>7. x = y
  BY <1>2, <1>4, <1>6
<1> QED
  BY <1>7 DEF x, y, p

\* After a request the flusher flushes all, or the page of the request.
LEMMA PushRecords ==
    ASSUME TypeOK, flusher.kind # "Closed", NEW v \in VAddr
    PROVE  LET fl == push(flusher, v)
           IN  fl.kind = "Full" \/ \E k \in DOMAIN fl.arr : fl.arr[k] = v
<1>1. /\ flusher.kind \in {"None", "Array", "Full"}
      /\ flusher.arr \in Seq(VAddr)
  BY DEF TypeOK
<1>2. CASE flusher.kind = "None"
  <2>1. push(flusher, v).arr = <<v>>
    BY <1>2 DEF push, Flusher
  <2>2. 1 \in DOMAIN <<v>> /\ <<v>>[1] = v
    OBVIOUS
  <2> QED
    BY <2>1, <2>2
<1>3. CASE flusher.kind = "Array" /\ Len(flusher.arr) < SMALL_FLUSH_THRESHOLD
  <2> DEFINE k == Len(flusher.arr) + 1
  <2>1. push(flusher, v).arr = Append(flusher.arr, v)
    BY <1>3 DEF push, Flusher
  <2>2. k \in DOMAIN Append(flusher.arr, v) /\ Append(flusher.arr, v)[k] = v
    BY <1>1
  <2> QED
    BY <2>1, <2>2
<1>4. CASE flusher.kind = "Full" \/ ~(Len(flusher.arr) < SMALL_FLUSH_THRESHOLD)
  BY <1>1, <1>2, <1>4 DEF push, Flusher
<1> QED
  BY <1>1, <1>2, <1>3, <1>4

\* The entries that Now(w) reads are as they were.
Kept(w) ==
    /\ l1'[p1_index(w)] = Entry1(w)
    /\ IsTable(Entry1(w)) => l2'[pte_paddr(Entry1(w))] [p2_index(w)] = EntryAt(w, Size4K)

\* An address whose entries are kept translates as before.
LEMMA KeptNow ==
    ASSUME l1 # NoTable, l1' # NoTable, NEW w \in VAddr, Kept(w)
    PROVE  Now(w)' = Now(w)
<1>1. Entry1(w)' = Entry1(w)
  BY DEF Kept, Entry1, p1_index
<1>2. IsTable(Entry1(w)) => EntryAt(w, Size4K)' = EntryAt(w, Size4K)
  BY <1>1 DEF Kept, EntryAt, p2_index, Size4K, Size1M
<1>3. EntryAt(w, Size1M)' = EntryAt(w, Size1M)
  BY <1>1 DEF EntryAt
<1>4. get_entry(w)' = get_entry(w)
  BY <1>1 DEF get_entry
<1>5. query(w)' = query(w)
  <2>1. CASE get_entry(w).err # "Ok"
    BY <1>4, <2>1 DEF query
  <2>2. CASE get_entry(w).err = "Ok"
    <3>1. EntryAt(w, get_entry(w).size)' = EntryAt(w, get_entry(w).size)
      <4>1. CASE pte_is_huge(Entry1(w))
        BY <1>3, <1>4, <2>2, <4>1 DEF get_entry
      <4>2. CASE ~pte_is_huge(Entry1(w))
        BY <1>2, <1>4, <2>2, <4>2 DEF get_entry, IsTable
      <4> QED
        BY <4>1, <4>2
    <3> QED
      BY <1>4, <3>1 DEF query
  <2> QED
    BY <2>1, <2>2
<1> QED
  BY <1>5 DEF Now

\* A page found is as large as the entry it was found in.
LEMMA FoundSize ==
    ASSUME NEW w \in VAddr, query(w) # Unmapped
    PROVE  query(w).size = IF IsTable(Entry1(w)) THEN Size4K ELSE Size1M
BY DEF query, get_entry, Page, IsTable

\* The write of one entry changes the translations of one page, and the request
\* that follows is for an address of that page.
LEMMA WriteRecorded ==
    ASSUME IInv, flusher.kind # "Closed",
           NEW op, NEW out, NEW u \in VAddr, NEW size \in PageSize, NEW e \in PTE,
           size = Size1M => ~IsTable(Entry1(u)),
           size = Size4K => IsTable(Entry1(u)),
           SetEntry(u, size, e), Succeed(op, u, out)
    PROVE  ChangesRecorded
<1>1. /\ l1 \in [Idx1 -> PTE] /\ l1 # NoTable /\ Mapped = Idx1
      /\ l2 \in [DOMAIN l2 -> [Idx2 -> PTE]]
  BY FirstLevel DEF IInv, TypeOK, CursorInv
<1>2. flusher' = push(flusher, u)
  BY DEF Succeed
<1> SUFFICES ASSUME NEW w \in VAddr, Now(w) # Unmapped, Now(w)' # Now(w), l1' # NoTable
             PROVE  u \div PageBytes(Now(w).size) = w \div PageBytes(Now(w).size)
  BY <1>2, PushRecords DEF ChangesRecorded, IInv
<1>3. p1_index(u) \in Idx1 /\ p2_index(u) \in Idx2 /\ p1_index(w) \in Idx1 /\ p2_index(w) \in Idx2
  BY IndexTyped, CountAssumption
<1>4. ~Kept(w)
  BY <1>1, KeptNow
<1>5. Now(w) = query(w)
  BY <1>1 DEF Now
<1>6. CASE size = Size1M
  <2>1. l1' = [l1 EXCEPT ![p1_index(u)] = e] /\ l2' = l2
    BY <1>6 DEF SetEntry
  <2>2. p1_index(w) = p1_index(u)
    BY <1>1, <1>3, <1>4, <2>1 DEF Kept, Entry1, EntryAt, Size4K, Size1M
  <2>3. Now(w).size = Size1M
    BY <1>5, <1>6, <2>2, FoundSize DEF Entry1
  <2> QED
    BY <2>2, <2>3, SameSection
<1>7. CASE size = Size4K
  <2>1. l2' = [l2 EXCEPT ![pte_paddr(Entry1(u))][p2_index(u)] = e] /\ l1' = l1
    BY <1>7 DEF SetEntry, Size4K, Size1M
  <2>2. IsTable(Entry1(w)) /\ pte_paddr(Entry1(w)) = pte_paddr(Entry1(u))
    BY <1>1, <1>4, <2>1 DEF Kept, Entry1, EntryAt, Size4K, Size1M
  <2>3. p1_index(w) = p1_index(u)
    BY <1>1, <1>3, <1>7, <2>2 DEF IInv, TreeInv, TablesUnshared, Entry1
  <2>4. pte_paddr(Entry1(u)) \in DOMAIN l2
    BY <1>1, <1>7, EntryTyped DEF IInv, TreeInv
  <2>5. p2_index(w) = p2_index(u)
    BY <1>1, <1>3, <1>4, <2>1, <2>2, <2>4 DEF Kept, Entry1, EntryAt, Size4K, Size1M
  <2>6. Now(w).size = Size4K
    BY <1>5, <2>2, FoundSize
  <2>7. PageBytes(Now(w).size) = PAGE_SIZE_4K
    BY <2>6 DEF PageBytes
  <2> QED
    BY <2>3, <2>5, <2>7, SamePage
<1> QED
  BY <1>6, <1>7 DEF PageSize

\* A step that writes no entry changes no translation.
LEMMA NothingChanged ==
    ASSUME UNCHANGED <<l1, l2>>
    PROVE  ChangesRecorded
<1>1. \A w \in VAddr : Now(w)' = Now(w)
  BY DEF Now, query, get_entry, EntryAt, Entry1, p1_index, p2_index
<1> QED
  BY <1>1 DEF ChangesRecorded

\* A new table is zeroed: what it hangs from was unmapped and stays so.
LEMMA MapCreateRecorded ==
    ASSUME IInv, NEW f \in Frame, MapCreate(f)
    PROVE  ChangesRecorded
<1> DEFINE k == p1_index(call.vaddr)
<1>1. /\ l1 \in [Idx1 -> PTE] /\ l1 # NoTable /\ k \in Idx1
  BY FirstLevel, IndexTyped, CountAssumption DEF MapCreate, Mapping, IInv, CursorInv
<1>2. /\ l1' = [l1 EXCEPT ![k] = pte_new_table(f)]
      /\ pte_is_unused(l1[k])
      /\ f \notin DOMAIN l2
      /\ l2' = [g \in DOMAIN l2 \cup {f} |-> IF g = f THEN [i \in Idx2 |-> Zero] ELSE l2[g]]
  BY AllocAssumption DEF MapCreate, Entry1, IInv, TypeOK
<1> HIDE DEF k
<1> SUFFICES ASSUME NEW w \in VAddr, Now(w) # Unmapped, l1' # NoTable
             PROVE  Now(w)' = Now(w)
  BY DEF ChangesRecorded
<1>3. p1_index(w) \in Idx1
  BY IndexTyped, CountAssumption
<1>4. ~pte_is_unused(Entry1(w))
  BY <1>1 DEF Now, query, get_entry
<1>5. l1'[p1_index(w)] = Entry1(w)
  BY <1>1, <1>2, <1>3, <1>4 DEF Entry1
<1>6. IsTable(Entry1(w)) => pte_paddr(Entry1(w)) \in DOMAIN l2
  BY <1>1, EntryTyped DEF IInv, TreeInv
<1>7. Kept(w)
  BY <1>2, <1>5, <1>6 DEF Kept, EntryAt, Size4K, Size1M
<1> QED
  BY <1>1, <1>7, KeptNow

\* A copy of nothing changes nothing; any other asks for a full flush.
LEMMA CopyFromRecorded ==
    ASSUME IInv, NEW r \in CopyRange, CopyFrom(r[1], r[2])
    PROVE  ChangesRecorded
<1>1. CASE r[2] = 0
  <2>1. CopiedEntries(r[1], r[2]) = {}
    BY <1>1 DEF CopiedEntries
  <2>2. l1' = [i \in Idx1 |-> l1[i]] /\ l1 \in [Idx1 -> PTE]
    BY <2>1, FirstLevel DEF CopyFrom, CursorIdle, IInv, CursorInv
  <2>3. l2' = [f \in DOMAIN l2 |-> l2[f]] /\ l2 \in [DOMAIN l2 -> [Idx2 -> PTE]]
    BY <2>1 DEF CopyFrom, FreeTables, Replaced, Tables, IInv, TypeOK
  <2> QED
    BY <2>2, <2>3, NothingChanged
<1>2. CASE r[2] # 0
  BY <1>2 DEF CopyFrom, ChangesRecorded, Flusher
<1> QED
  BY <1>1, <1>2

\* Every step records what it changes: one case per action.
LEMMA StepRecorded == ASSUME IInv, [Next]_vars PROVE ChangesRecorded
<1>1. CASE UNCHANGED vars
  BY <1>1, NothingChanged DEF vars
<1>2. ASSUME NEW op, NEW v, NEW err, Fail(op, v, err) PROVE ChangesRecorded
  BY <1>2, NothingChanged DEF Fail
<1>3. ASSUME TryNew PROVE ChangesRecorded
  BY <1>3 DEF TryNew, ChangesRecorded, Now
<1>4. ASSUME Drop PROVE ChangesRecorded
  BY <1>4 DEF Drop, ChangesRecorded
<1>5. ASSUME \/ OpenCursor
             \/ \E v \in VAddr, p \in Target, s \in PageSize, f \in Flags : Map(v, p, s, f)
             \/ \E op \in {"flush", "drop"} : Flush(op)
      PROVE  ChangesRecorded
  <2>1. UNCHANGED <<l1, l2>>
    BY <1>5 DEF OpenCursor, Map, Flush
  <2> QED
    BY <2>1, NothingChanged
<1>6. ASSUME NEW v \in VAddr, NEW p \in Target, NEW f \in Flags, Remap(v, p, f)
      PROVE  ChangesRecorded
  <2> DEFINE size == get_entry(v).size
             page == pte_new_page(p, f, size = Size1M)
  <2>1. CASE get_entry(v).err # "Ok"
    BY <1>2, <1>6, <2>1 DEF Remap
  <2>2. CASE get_entry(v).err = "Ok"
    <3>1. flusher.kind # "Closed" /\ l1 # NoTable
      BY <1>6 DEF Remap, CursorIdle, IInv, CursorInv
    <3>2. /\ size \in PageSize
          /\ size = Size1M => ~IsTable(Entry1(v))
          /\ size = Size4K => IsTable(Entry1(v))
      BY <2>2, <3>1, EntryFound DEF IInv, TreeInv
    <3>3. page \in PTE
      <4>1. p \in PAddr
        BY CountAssumption DEF PageSize
      <4> QED
        BY <4>1, PteTyping
    <3>4. SetEntry(v, size, page) /\ Succeed("remap", v, [size |-> size])
      BY <1>6, <2>2 DEF Remap
    <3> QED
      BY <3>1, <3>2, <3>3, <3>4, WriteRecorded
  <2> QED
    BY <2>1, <2>2
<1>7. ASSUME NEW v \in VAddr, NEW f \in Flags, Protect(v, f) PROVE ChangesRecorded
  <2> DEFINE size == query(v).size
             page == pte_new_page(query(v).paddr, f, size = Size1M)
  <2>1. CASE query(v) = Unmapped
    BY <1>2, <1>7, <2>1 DEF Protect
  <2>2. CASE query(v) # Unmapped
    <3>1. /\ size \in PageSize /\ query(v).paddr \in PAddr
          /\ size = Size1M => ~IsTable(Entry1(v))
          /\ size = Size4K => IsTable(Entry1(v))
          /\ flusher.kind # "Closed"
      BY <1>7, <2>2, QueryFound DEF Protect
    <3>2. page \in PTE
      BY <3>1, PteTyping
    <3>3. SetEntry(v, size, page) /\ Succeed("protect", v, [size |-> size])
      BY <1>7, <2>2 DEF Protect
    <3> QED
      BY <3>1, <3>2, <3>3, WriteRecorded
  <2> QED
    BY <2>1, <2>2
<1>8. ASSUME NEW v \in VAddr, Unmap(v) PROVE ChangesRecorded
  <2>1. CASE query(v) = Unmapped
    BY <1>2, <1>8, <2>1 DEF Unmap
  <2>2. CASE query(v) # Unmapped
    <3>1. /\ query(v).size \in PageSize
          /\ query(v).size = Size1M => ~IsTable(Entry1(v))
          /\ query(v).size = Size4K => IsTable(Entry1(v))
          /\ flusher.kind # "Closed"
      BY <1>8, <2>2, QueryFound DEF Unmap
    <3>2. SetEntry(v, query(v).size, Zero) /\ Succeed("unmap", v, query(v))
      BY <1>8, <2>2 DEF Unmap
    <3> QED
      BY <3>1, <3>2, PteTyping, WriteRecorded
  <2> QED
    BY <2>1, <2>2
<1>9. ASSUME MapPage PROVE ChangesRecorded
  <2> DEFINE page == pte_new_page(align_down(call.target, call.size), call.flags,
                                  call.size = Size1M)
  <2>1. /\ flusher.kind # "Closed" /\ l1 # NoTable
        /\ call.vaddr \in VAddr /\ call.target \in Target /\ call.flags \in Flags
        /\ call.size \in PageSize
    BY <1>9 DEF MapPage, AtEntry, Mapping, IInv, TypeOK, CursorInv
  <2>2. page \in PTE
    BY <2>1, CountAssumption, PteTyping
  <2>3. call.size = Size1M => ~IsTable(Entry1(call.vaddr))
    BY <1>9 DEF MapPage, EntryAt, IsTable
  <2>4. call.size = Size4K => IsTable(Entry1(call.vaddr))
    BY <1>9 DEF MapPage, AtEntry, Mapping, Size4K, Size1M
  <2>5. /\ SetEntry(call.vaddr, call.size, page)
        /\ Succeed("map", call.vaddr, [size |-> call.size])
    BY <1>9 DEF MapPage
  <2> QED
    BY <2>1, <2>2, <2>3, <2>4, <2>5, WriteRecorded
<1>10. CASE Begin
  BY <1>2, <1>3, <1>4, <1>5, <1>6, <1>7, <1>8, <1>10, CopyFromRecorded DEF Begin, TryNewFails
<1>11. CASE Continue
  <2>1. ASSUME MapNoMemory \/ MapInSection \/ MapOccupied PROVE ChangesRecorded
    BY <1>2, <2>1 DEF MapNoMemory, MapInSection, MapOccupied
  <2> QED
    BY <1>9, <1>11, <2>1, MapCreateRecorded DEF Continue
<1> QED
  BY <1>1, <1>10, <1>11 DEF Next

\* No operation replaces or removes a translation without a request to flush it.
THEOREM EveryChangeRecorded == Spec => ChangeIsRecorded
<1>1. IInv /\ [Next]_vars => ChangesRecorded
  BY StepRecorded
<1> QED
  BY <1>1, Invariance, PTL DEF Spec, ChangeIsRecorded
---------------------------------------------------------------------------
(* What is translated *)

\* What query answers for each address.
Translations == [v \in VAddr |-> Now(v)]

\* The entry e is one that is written for a page of the size...
PageEntry(e, size) ==
    \E p \in Target, f \in Flags : e = pte_new_page(p, f, size = Size1M)

\* ... and what an address translates to that ends at it.
PageOf(e, size) == IF pte_is_unused(e) THEN Unmapped ELSE Page(e, size)

SameBlock(u, w, size) == w \div PageBytes(size) = u \div PageBytes(size)

\* Between the translations s and t, the page of the size around u has gone from
\* old to new, and nothing else has changed.
Blocks(s, t, u, size, old, new) ==
    \A w \in VAddr : IF SameBlock(u, w, size) THEN s[w] = old /\ t[w] = new ELSE t[w] = s[w]

\* Sections and small pages are what callers mapped, or the lender: beside what
\* is unused and what leads to tables there is nothing.
PagesInv ==
    /\ \A i \in Mapped :
          pte_is_unused(l1[i]) \/ IsTable(l1[i]) \/ PageEntry(l1[i], Size1M)
    /\ \A t \in DOMAIN l2, i \in Idx2 :
          pte_is_unused(l2[t][i]) \/ PageEntry(l2[t][i], Size4K)

\* An entry written for a page, as it is read back.
LEMMA PageRead ==
    ASSUME NEW p \in Target, NEW s \in PageSize, NEW f \in Flags
    PROVE  LET e == pte_new_page(p, f, s = Size1M)
           IN  /\ e \in PTE /\ ~pte_is_unused(e) /\ PageEntry(e, s)
               /\ s = Size1M => ~IsTable(e)
               /\ pte_paddr(e) = align_down(p, s)
               /\ pte_new_page(align_down(p, s), f, s = Size1M) = e
               /\ Written[s][e] = {f}
               /\ \A g \in Flags : pte_set_flags(e, g, s = Size1M) = pte_new_page(p, g, s = Size1M)
<1> DEFINE b == s = Size1M
           e == pte_new_page(p, f, b)
<1>1. p \in PAddr /\ b \in BOOLEAN
  BY CountAssumption
<1>2. e \in PTE /\ ~pte_is_unused(e) /\ PageEntry(e, s)
  BY <1>1, PteTyping, UseAssumption DEF PageEntry
<1>3. s = Size1M => ~IsTable(e)
  BY <1>1, TableEntries
<1>4. /\ pte_paddr(e) = align_down(p, s)
      /\ \A g \in Flags : /\ pte_new_page(align_down(p, s), g, b) = pte_new_page(p, g, b)
                          /\ pte_set_flags(e, g, b) = pte_new_page(p, g, b)
                          /\ pte_new_page(p, g, b) = e => g = f
  BY PageAssumption
<1>5. Written[s][e] = {f}
  <2>1. Written[s][e] = {g \in Flags : pte_new_page(pte_paddr(e), g, b) = e}
    BY <1>2 DEF Written
  <2> HIDE DEF e, b
  <2>2. pte_new_page(pte_paddr(e), f, b) = e
    BY <1>4 DEF e
  <2>3. \A g \in Flags : pte_new_page(pte_paddr(e), g, b) = e => g = f
    BY <1>4
  <2> QED
    BY <2>1, <2>2, <2>3
<1> QED
  BY <1>2, <1>3, <1>4, <1>5

\* A page as the abstract space shows it.
LEMMA PageShown ==
    ASSUME NEW p \in Target, NEW s \in PageSize, NEW f \in Flags
    PROVE  LET e == pte_new_page(p, f, s = Size1M)
           IN  /\ PageOf(e, s) = Page(e, s) /\ Page(e, s) # Unmapped
               /\ ViewPage(Page(e, s)) = [paddr |-> align_down(p, s), flags |-> {f}, size |-> s]
               /\ ViewPage(Page(e, s)) = Abs!Page(align_down(p, s), f, s)
<1> DEFINE e == pte_new_page(p, f, s = Size1M)
<1>1. pte_paddr(e) = align_down(p, s) /\ Written[s][e] = {f} /\ ~pte_is_unused(e)
  BY PageRead
<1>2. s # -1
  BY DEF PageSize, Size4K, Size1M
<1> HIDE DEF e
<1>3. Page(e, s) # Unmapped
  BY <1>2 DEF Page, Unmapped
<1>4. ViewPage(Page(e, s)) = [paddr |-> align_down(p, s), flags |-> {f}, size |-> s]
  BY <1>1, <1>3 DEF ViewPage, Page
<1>5. Abs!Page(align_down(p, s), f, s) = [paddr |-> align_down(p, s), flags |-> {f}, size |-> s]
  BY DEF Abs!Page
<1> QED
  BY <1>1, <1>3, <1>4, <1>5 DEF PageOf, e
---------------------------------------------------------------------------
(* The translations that a write changes *)

\* The entries of a page of the size are the same for the addresses of one block.
LEMMA BlockIndices ==
    ASSUME NEW u \in VAddr, NEW w \in VAddr
    PROVE  /\ SameBlock(u, w, Size1M) <=> p1_index(u) = p1_index(w)
           /\ SameBlock(u, w, Size4K) <=> p1_index(u) = p1_index(w) /\ p2_index(u) = p2_index(w)
<1> DEFINE p == PAGE_SIZE_4K
           n == L2_COUNT
<1>1. p \in Nat \ {0} /\ n \in Nat \ {0} /\ u \in Nat /\ w \in Nat
  BY CountAssumption
<1>2. /\ SameBlock(u, w, Size1M) <=> w \div (p * n) = u \div (p * n)
      /\ SameBlock(u, w, Size4K) <=> w \div p = u \div p
  BY DEF SameBlock, PageBytes, Size1M, Size4K
<1>3. w \div (p * n) = u \div (p * n) => p1_index(u) = p1_index(w)
  BY DEF p1_index, PageBytes, Size1M, Size4K
<1>4. w \div p = u \div p => p2_index(u) = p2_index(w)
  BY DEF p2_index
<1>5. p1_index(u) = p1_index(w) => w \div (p * n) = u \div (p * n)
  BY SameSection DEF PageBytes, Size1M, Size4K
<1>6. p1_index(u) = p1_index(w) /\ p2_index(u) = p2_index(w) => w \div p = u \div p
  BY SamePage
<1> HIDE DEF p, n
<1>7. w \div p = u \div p => w \div (p * n) = u \div (p * n)
  <2>1. w \div (p * n) = (w \div p) \div n /\ u \div (p * n) = (u \div p) \div n
    BY <1>1, DivideTwice
  <2> QED
    BY <2>1
<1> QED
  BY <1>2, <1>3, <1>4, <1>5, <1>6, <1>7

\* Where an address ends: at its entry of the first level, or of the second.
LEMMA NowIsPage ==
    ASSUME l1 # NoTable, NEW w \in VAddr, NEW size \in PageSize,
           size = Size1M => ~IsTable(Entry1(w)),
           size = Size4K => IsTable(Entry1(w))
    PROVE  Now(w) = PageOf(EntryAt(w, size), size)
BY DEF Now, query, get_entry, PageOf, IsTable, EntryAt, PageSize, Size4K, Size1M, Page, Unmapped

\* The same after a step.
LEMMA NextIsPage ==
    ASSUME l1' # NoTable, NEW w \in VAddr, NEW size \in PageSize,
           size = Size1M => ~IsTable(l1'[p1_index(w)]),
           size = Size4K => IsTable(l1'[p1_index(w)])
    PROVE  Now(w)' = PageOf(IF size = Size1M THEN l1'[p1_index(w)]
                            ELSE l2'[pte_paddr(l1'[p1_index(w)])][p2_index(w)], size)
BY DEF Now, query, get_entry, PageOf, IsTable, EntryAt, Entry1, PageSize, Size4K, Size1M, Page,
       Unmapped, p1_index, p2_index

\* What a write leaves alone.
LEMMA OthersKept ==
    ASSUME IInv, l1 # NoTable, NEW u \in VAddr, NEW w \in VAddr, NEW size \in PageSize, NEW e,
           size = Size4K => IsTable(Entry1(u)),
           SetEntry(u, size, e), ~SameBlock(u, w, size)
    PROVE  Kept(w)
<1>1. /\ l1 \in [Idx1 -> PTE] /\ Mapped = Idx1
      /\ l2 \in [DOMAIN l2 -> [Idx2 -> PTE]]
  BY FirstLevel DEF IInv, TypeOK
<1>2. p1_index(u) \in Idx1 /\ p2_index(u) \in Idx2 /\ p1_index(w) \in Idx1 /\ p2_index(w) \in Idx2
  BY IndexTyped, CountAssumption
<1>3. CASE size = Size1M
  <2>1. l1' = [l1 EXCEPT ![p1_index(u)] = e] /\ l2' = l2
    BY <1>3 DEF SetEntry
  <2>2. p1_index(w) # p1_index(u)
    BY <1>3, BlockIndices
  <2> QED
    BY <1>1, <1>2, <2>1, <2>2 DEF Kept, Entry1, EntryAt, Size4K, Size1M
<1>4. CASE size = Size4K
  <2>1. l2' = [l2 EXCEPT ![pte_paddr(Entry1(u))][p2_index(u)] = e] /\ l1' = l1
    BY <1>4 DEF SetEntry, Size4K, Size1M
  <2>2. p1_index(w) # p1_index(u) \/ p2_index(w) # p2_index(u)
    BY <1>4, BlockIndices
  <2>3. pte_paddr(Entry1(u)) \in DOMAIN l2
    BY <1>1, <1>4, EntryTyped DEF IInv, TreeInv
  <2>4. IsTable(Entry1(w)) /\ pte_paddr(Entry1(w)) = pte_paddr(Entry1(u))
           => p1_index(w) = p1_index(u)
    BY <1>1, <1>2, <1>4 DEF IInv, TreeInv, TablesUnshared, Entry1
  <2>5. IsTable(Entry1(w)) => pte_paddr(Entry1(w)) \in DOMAIN l2
    BY EntryTyped DEF IInv, TreeInv
  <2>6. ASSUME IsTable(Entry1(w))
        PROVE  l2'[pte_paddr(Entry1(w))][p2_index(w)] = l2[pte_paddr(Entry1(w))][p2_index(w)]
    BY <1>1, <1>2, <2>1, <2>2, <2>3, <2>4, <2>5, <2>6
  <2> QED
    BY <2>1, <2>6 DEF Kept, Entry1, EntryAt, Size4K, Size1M
<1> QED
  BY <1>3, <1>4 DEF PageSize

\* The write of one entry changes the translations of one page.
LEMMA WriteBlocks ==
    ASSUME IInv, l1 # NoTable, NEW u \in VAddr, NEW size \in PageSize, NEW e \in PTE,
           size = Size1M => ~IsTable(Entry1(u)) /\ ~IsTable(e),
           size = Size4K => IsTable(Entry1(u)),
           SetEntry(u, size, e), UNCHANGED borrowed_entries
    PROVE  Blocks(Translations, Translations', u, size,
                  PageOf(EntryAt(u, size), size), PageOf(e, size))
<1>1. /\ l1 \in [Idx1 -> PTE] /\ Mapped = Idx1
      /\ l2 \in [DOMAIN l2 -> [Idx2 -> PTE]]
  BY FirstLevel DEF IInv, TypeOK
<1>2. l1' # NoTable
  BY WriteTree, SomeTable DEF IInv
<1> SUFFICES ASSUME NEW w \in VAddr
             PROVE  IF SameBlock(u, w, size)
                    THEN /\ Now(w) = PageOf(EntryAt(u, size), size)
                         /\ Now(w)' = PageOf(e, size)
                    ELSE Now(w)' = Now(w)
  BY DEF Blocks, Translations
<1>3. p1_index(u) \in Idx1 /\ p2_index(u) \in Idx2
  BY IndexTyped, CountAssumption
<1>4. CASE ~SameBlock(u, w, size)
  <2>1. Kept(w)
    BY <1>4, OthersKept
  <2> QED
    BY <1>2, <1>4, <2>1, KeptNow
<1>5. CASE SameBlock(u, w, size) /\ size = Size1M
  <2>1. p1_index(w) = p1_index(u)
    BY <1>5, BlockIndices
  <2>2. l1'[p1_index(w)] = e
    BY <1>1, <1>3, <1>5, <2>1 DEF SetEntry
  <2>3. Entry1(w) = Entry1(u)
    BY <2>1 DEF Entry1
  <2>4. Now(w)' = PageOf(e, size)
    BY <1>2, <1>5, <2>2, NextIsPage DEF Size4K, Size1M
  <2>5. Now(w) = PageOf(EntryAt(u, size), size)
    BY <1>5, <2>3, NowIsPage DEF Size4K, Size1M, EntryAt
  <2> QED
    BY <1>5, <2>4, <2>5
<1>6. CASE SameBlock(u, w, size) /\ size = Size4K
  <2>1. p1_index(w) = p1_index(u) /\ p2_index(w) = p2_index(u)
    BY <1>6, BlockIndices
  <2>2. pte_paddr(Entry1(u)) \in DOMAIN l2
    BY <1>6, EntryTyped DEF IInv, TreeInv
  <2>3. /\ l1'[p1_index(w)] = Entry1(u)
        /\ l2'[pte_paddr(Entry1(u))][p2_index(w)] = e
    BY <1>1, <1>3, <1>6, <2>1, <2>2 DEF SetEntry, Size4K, Size1M, Entry1
  <2>4. Now(w)' = PageOf(e, size)
    BY <1>2, <1>6, <2>3, NextIsPage DEF Size4K, Size1M
  <2>5. Entry1(w) = Entry1(u) /\ EntryAt(w, size) = EntryAt(u, size)
    BY <2>1 DEF Entry1, EntryAt
  <2>6. Now(w) = PageOf(EntryAt(u, size), size)
    BY <1>6, <2>5, NowIsPage DEF Size4K, Size1M
  <2> QED
    BY <1>6, <2>4, <2>6
<1> QED
  BY <1>4, <1>5, <1>6 DEF PageSize

\* The addresses of a 4K page translate alike.
LEMMA SmallBlock ==
    ASSUME l1 # NoTable, NEW u \in VAddr, NEW w \in VAddr, SameBlock(u, w, Size4K)
    PROVE  Now(w) = Now(u)
<1>1. p1_index(w) = p1_index(u) /\ p2_index(w) = p2_index(u)
  BY BlockIndices
<1>2. Entry1(w) = Entry1(u)
  BY <1>1 DEF Entry1
<1>3. \A s \in PageSize : EntryAt(w, s) = EntryAt(u, s)
  BY <1>1, <1>2 DEF EntryAt
<1> QED
  BY <1>2, <1>3 DEF Now, query, get_entry, PageSize
---------------------------------------------------------------------------
(* What the operations leave *)

\* A write of a page, or of nothing, leaves pages where there are no tables.
LEMMA WritePages ==
    ASSUME IInv, PagesInv, l1 # NoTable,
           NEW u \in VAddr, NEW size \in PageSize, NEW e \in PTE,
           size = Size1M => ~IsTable(Entry1(u)) /\ ~IsTable(e),
           size = Size4K => IsTable(Entry1(u)),
           SetEntry(u, size, e), UNCHANGED borrowed_entries,
           pte_is_unused(e) \/ PageEntry(e, size)
    PROVE  PagesInv'
<1>1. /\ l1 \in [Idx1 -> PTE] /\ Mapped = Idx1
      /\ l2 \in [DOMAIN l2 -> [Idx2 -> PTE]]
  BY FirstLevel DEF IInv, TypeOK
<1>2. l1' # NoTable /\ Mapped' = Idx1 /\ DOMAIN l2' = DOMAIN l2
  BY WriteTree, SomeTable DEF IInv, Mapped
<1>3. p1_index(u) \in Idx1 /\ p2_index(u) \in Idx2
  BY IndexTyped, CountAssumption
<1>4. CASE size = Size1M
  <2>1. l1' = [l1 EXCEPT ![p1_index(u)] = e] /\ l2' = l2
    BY <1>4 DEF SetEntry
  <2> QED
    BY <1>1, <1>2, <1>3, <1>4, <2>1 DEF PagesInv
<1>5. CASE size = Size4K
  <2>1. l2' = [l2 EXCEPT ![pte_paddr(Entry1(u))][p2_index(u)] = e] /\ l1' = l1
    BY <1>5 DEF SetEntry, Size4K, Size1M
  <2> QED
    BY <1>1, <1>2, <1>3, <1>5, <2>1 DEF PagesInv
<1> QED
  BY <1>4, <1>5 DEF PageSize

\* A page that query finds was written as one.
LEMMA PageFound ==
    ASSUME IInv, PagesInv, flusher.kind # "Closed", NEW v \in VAddr, query(v) # Unmapped
    PROVE  \E p \in Target, f \in Flags, size \in PageSize :
              LET e == pte_new_page(p, f, size = Size1M)
              IN  /\ query(v) = Page(e, size) /\ EntryAt(v, size) = e
                  /\ size = Size1M => ~IsTable(Entry1(v))
                  /\ size = Size4K => IsTable(Entry1(v))
<1>1. l1 # NoTable
  BY DEF IInv, CursorInv
<1>2. /\ l1 \in [Idx1 -> PTE] /\ Mapped = Idx1
      /\ p1_index(v) \in Idx1 /\ p2_index(v) \in Idx2
  BY <1>1, FirstLevel, IndexTyped, CountAssumption DEF IInv
<1> DEFINE size == get_entry(v).size
<1>3. /\ get_entry(v).err = "Ok" /\ query(v) = Page(EntryAt(v, size), size)
      /\ ~pte_is_unused(EntryAt(v, size))
  BY DEF query
<1>4. /\ size \in PageSize
      /\ size = Size1M => ~IsTable(Entry1(v))
      /\ size = Size4K => IsTable(Entry1(v))
  BY <1>1, <1>3, EntryFound DEF IInv, TreeInv
<1> HIDE DEF size
<1>5. PageEntry(EntryAt(v, size), size)
  <2>1. CASE size = Size1M
    BY <1>2, <1>3, <1>4, <2>1 DEF PagesInv, EntryAt, Entry1
  <2>2. CASE size = Size4K
    <3>1. pte_paddr(Entry1(v)) \in DOMAIN l2
      BY <1>1, <1>4, <2>2, EntryTyped DEF IInv, TreeInv
    <3> QED
      BY <1>2, <1>3, <2>2, <3>1 DEF PagesInv, EntryAt, Size4K, Size1M
  <2> QED
    BY <1>4, <2>1, <2>2 DEF PageSize
<1>6. PICK p \in Target, f \in Flags : EntryAt(v, size) = pte_new_page(p, f, size = Size1M)
  BY <1>5 DEF PageEntry
<1> QED
  BY <1>3, <1>4, <1>6
---------------------------------------------------------------------------
(* The operations that write a page *)

\* A page is written over what was there, a page, a hole or nothing.
LEMMA PageWritten ==
    ASSUME IInv, PagesInv, l1 # NoTable, NEW v \in VAddr, NEW size \in PageSize,
           NEW p \in Target, NEW f \in Flags, NEW e, e = pte_new_page(p, f, size = Size1M),
           size = Size1M => ~IsTable(Entry1(v)),
           size = Size4K => IsTable(Entry1(v)),
           SetEntry(v, size, e), UNCHANGED borrowed_entries
    PROVE  /\ PagesInv'
           /\ Blocks(Translations, Translations', v, size,
                     PageOf(EntryAt(v, size), size), Page(e, size))
<1>1. e \in PTE /\ PageEntry(e, size) /\ (size = Size1M => ~IsTable(e))
  BY PageRead
<1>2. PageOf(e, size) = Page(e, size)
  BY PageShown
<1>3. PagesInv'
  BY <1>1, WritePages
<1>4. Blocks(Translations, Translations', v, size,
             PageOf(EntryAt(v, size), size), PageOf(e, size))
  BY <1>1, WriteBlocks
<1> QED
  BY <1>2, <1>3, <1>4

\* map fills a block where nothing was.
LEMMA MapPageWrites ==
    ASSUME IInv, PagesInv, MapPage
    PROVE  /\ call.vaddr \in VAddr /\ call.size \in PageSize
           /\ call.target \in Target /\ call.flags \in Flags
           /\ PagesInv'
           /\ Blocks(Translations, Translations', call.vaddr, call.size, Unmapped,
                     Page(pte_new_page(call.target, call.flags, call.size = Size1M), call.size))
<1> DEFINE v == call.vaddr
           size == call.size
           e == pte_new_page(call.target, call.flags, size = Size1M)
<1>1. /\ l1 # NoTable /\ v \in VAddr /\ call.target \in Target /\ call.flags \in Flags
      /\ size \in PageSize
  BY DEF MapPage, AtEntry, Mapping, IInv, TypeOK, CursorInv
<1>2. pte_new_page(align_down(call.target, size), call.flags, size = Size1M) = e
  BY <1>1, PageRead
<1>3. /\ size = Size1M => ~IsTable(Entry1(v))
      /\ size = Size4K => IsTable(Entry1(v))
      /\ PageOf(EntryAt(v, size), size) = Unmapped
  BY DEF MapPage, EntryAt, IsTable, AtEntry, Mapping, Size4K, Size1M, PageOf
<1>4. SetEntry(v, size, e) /\ UNCHANGED borrowed_entries
  BY <1>2 DEF MapPage, Succeed
<1> HIDE DEF v, size, e
<1>5. /\ PagesInv'
      /\ Blocks(Translations, Translations', v, size,
                PageOf(EntryAt(v, size), size), Page(e, size))
  BY <1>1, <1>3, <1>4, PageWritten DEF e
<1> QED
  BY <1>1, <1>3, <1>5 DEF v, size, e

\* remap fills the block where get_entry ends.
LEMMA RemapWrites ==
    ASSUME IInv, PagesInv, NEW v \in VAddr, NEW p \in Target, NEW f \in Flags,
           Remap(v, p, f), get_entry(v).err = "Ok"
    PROVE  LET size == get_entry(v).size
               e == pte_new_page(p, f, size = Size1M)
           IN  /\ size \in PageSize /\ PagesInv'
               /\ Now(v) = PageOf(EntryAt(v, size), size)
               /\ Blocks(Translations, Translations', v, size, Now(v), Page(e, size))
<1> DEFINE size == get_entry(v).size
           e == pte_new_page(p, f, size = Size1M)
<1>1. l1 # NoTable
  BY DEF Remap, CursorIdle, IInv, CursorInv
<1>2. /\ size \in PageSize
      /\ size = Size1M => ~IsTable(Entry1(v))
      /\ size = Size4K => IsTable(Entry1(v))
  BY <1>1, EntryFound DEF IInv, TreeInv
<1>3. SetEntry(v, size, e) /\ UNCHANGED borrowed_entries
  BY DEF Remap, Succeed
<1> HIDE DEF size, e
<1>4. Now(v) = PageOf(EntryAt(v, size), size)
  BY <1>1, <1>2, NowIsPage
<1>5. /\ PagesInv'
      /\ Blocks(Translations, Translations', v, size,
                PageOf(EntryAt(v, size), size), Page(e, size))
  BY <1>1, <1>2, <1>3, PageWritten DEF e
<1> QED
  BY <1>2, <1>4, <1>5 DEF size, e

\* The page that protect writes, itself or in a region, is the one it found with
\* other flags.
LEMMA ProtectWrites ==
    ASSUME IInv, PagesInv, CursorIdle, NEW v \in VAddr, NEW f \in Flags,
           query(v) # Unmapped, UNCHANGED borrowed_entries,
           \/ SetEntry(v, query(v).size,
                       pte_new_page(query(v).paddr, f, query(v).size = Size1M))
           \/ SetEntry(v, query(v).size,
                       pte_set_flags(query(v).entry, f, query(v).size = Size1M))
    PROVE  \E p \in Target, g \in Flags, size \in PageSize :
              LET old == Page(pte_new_page(p, g, size = Size1M), size)
                  new == Page(pte_new_page(p, f, size = Size1M), size)
              IN  /\ query(v) = old /\ PagesInv'
                  /\ SetEntry(v, size, new.entry)
                  /\ pte_new_page(old.paddr, f, size = Size1M) = new.entry
                  /\ Blocks(Translations, Translations', v, size, old, new)
<1>1. l1 # NoTable /\ flusher.kind # "Closed"
  BY DEF CursorIdle, IInv, CursorInv
<1>2. PICK p \in Target, g \in Flags, size \in PageSize :
        LET e == pte_new_page(p, g, size = Size1M)
        IN  /\ query(v) = Page(e, size) /\ EntryAt(v, size) = e
            /\ size = Size1M => ~IsTable(Entry1(v))
            /\ size = Size4K => IsTable(Entry1(v))
  BY <1>1, PageFound
<1> DEFINE b == size = Size1M
           d == pte_new_page(p, g, b)
           e == pte_new_page(p, f, b)
<1>3. query(v).size = size /\ query(v).entry = d /\ query(v).paddr = pte_paddr(d)
  BY <1>2 DEF Page
<1>4. pte_paddr(d) = align_down(p, size) /\ pte_set_flags(d, f, b) = e
  BY PageRead
<1>5. pte_new_page(align_down(p, size), f, b) = e
  BY PageRead
<1>6. SetEntry(v, size, e)
  BY <1>3, <1>4, <1>5
<1>7. PageOf(EntryAt(v, size), size) = Page(d, size)
  BY <1>2, PageShown
<1> HIDE DEF b, d, e
<1>8. /\ PagesInv'
      /\ Blocks(Translations, Translations', v, size,
                PageOf(EntryAt(v, size), size), Page(e, size))
  BY <1>1, <1>2, <1>6, PageWritten DEF e, b
<1>9. Blocks(Translations, Translations', v, size, Page(d, size), Page(e, size))
  BY <1>7, <1>8
<1>10. query(v) = Page(d, size) /\ Page(e, size).entry = e /\ Page(d, size).paddr = pte_paddr(d)
  BY <1>2 DEF d, b, Page
<1>11. /\ query(v) = Page(d, size) /\ PagesInv'
       /\ SetEntry(v, size, Page(e, size).entry)
       /\ pte_new_page(Page(d, size).paddr, f, b) = Page(e, size).entry
       /\ Blocks(Translations, Translations', v, size, Page(d, size), Page(e, size))
  BY <1>4, <1>5, <1>6, <1>8, <1>9, <1>10
<1> QED
  BY <1>11 DEF d, e, b

\* unmap clears the block of the page it found.
LEMMA UnmapWrites ==
    ASSUME IInv, PagesInv, NEW v \in VAddr, Unmap(v), query(v) # Unmapped
    PROVE  \E p \in Target, g \in Flags, size \in PageSize :
              LET old == Page(pte_new_page(p, g, size = Size1M), size)
              IN  /\ query(v) = old /\ PagesInv'
                  /\ Blocks(Translations, Translations', v, size, old, Unmapped)
<1>1. l1 # NoTable /\ flusher.kind # "Closed"
  BY DEF Unmap, CursorIdle, IInv, CursorInv
<1>2. PICK p \in Target, g \in Flags, size \in PageSize :
        LET e == pte_new_page(p, g, size = Size1M)
        IN  /\ query(v) = Page(e, size) /\ EntryAt(v, size) = e
            /\ size = Size1M => ~IsTable(Entry1(v))
            /\ size = Size4K => IsTable(Entry1(v))
  BY <1>1, PageFound
<1> DEFINE d == pte_new_page(p, g, size = Size1M)
<1>3. query(v).size = size
  BY <1>2 DEF Page
<1>4. SetEntry(v, size, Zero) /\ UNCHANGED borrowed_entries
  BY <1>3 DEF Unmap, Succeed
<1>5. Zero \in PTE /\ pte_is_unused(Zero) /\ ~IsTable(Zero)
  BY PteTyping, PteUnused, TableEntries
<1>6. PageOf(EntryAt(v, size), size) = Page(d, size)
  BY <1>2, PageShown
<1>7. PageOf(Zero, size) = Unmapped
  BY <1>5 DEF PageOf
<1> HIDE DEF d
<1>8. PagesInv'
  BY <1>1, <1>2, <1>4, <1>5, WritePages
<1>9. Blocks(Translations, Translations', v, size,
             PageOf(EntryAt(v, size), size), PageOf(Zero, size))
  BY <1>1, <1>2, <1>4, <1>5, WriteBlocks
<1>10. query(v) = Page(d, size)
  BY <1>2 DEF d
<1>11. Blocks(Translations, Translations', v, size, Page(d, size), Unmapped)
  BY <1>6, <1>7, <1>9
<1> QED
  BY <1>8, <1>10, <1>11 DEF d
---------------------------------------------------------------------------
(* Every page was written as one *)

\* What the lender maps counts as pages from the start.
LEMMA InitPages == Init => PagesInv
<1> SUFFICES ASSUME Init PROVE PagesInv
  OBVIOUS
<1>1. Mapped = {} /\ l2 = LenderTable
  BY DEF Init, Mapped
<1>2. pte_is_unused(Zero)
  BY PteUnused, PteTyping
<1>3. ASSUME NEW t \in DOMAIN l2, NEW i \in Idx2
      PROVE  pte_is_unused(l2[t][i]) \/ PageEntry(l2[t][i], Size4K)
  <2>1. \/ LenderTable[t][i] = Zero
        \/ \E p \in Target, f \in Flags : LenderTable[t][i] = pte_new_page(p, f, FALSE)
    BY <1>1, <1>3, LenderPages DEF LenderFrame
  <2>2. CASE LenderTable[t][i] = Zero
    BY <1>1, <1>2, <2>2
  <2>3. ASSUME NEW p \in Target, NEW f \in Flags, LenderTable[t][i] = pte_new_page(p, f, FALSE)
        PROVE  PageEntry(l2[t][i], Size4K)
    <3> DEFINE b == Size4K = Size1M
    <3>1. b = FALSE
      BY DEF Size4K, Size1M
    <3>2. l2[t][i] = pte_new_page(p, f, b)
      BY <1>1, <2>3, <3>1
    <3> QED
      BY <3>2 DEF PageEntry
  <2> QED
    BY <2>1, <2>2, <2>3
<1> QED
  BY <1>1, <1>3 DEF PagesInv

\* The pages are the same as long as the tables are.
LEMMA SamePages ==
    ASSUME PagesInv, UNCHANGED <<l1, l2>>
    PROVE  PagesInv'
BY DEF PagesInv, Mapped

\* Neither a new page table nor a dropped one has pages of its own.
LEMMA NewPages == ASSUME IInv, PagesInv, TryNew \/ Drop PROVE PagesInv'
<1>1. CASE TryNew
  <2>1. l1' = [i \in Idx1 |-> Zero] /\ l2' = l2
    BY <1>1 DEF TryNew
  <2>2. l1' # NoTable /\ Mapped' = Idx1
    BY <2>1, PteTyping, SomeTable DEF Mapped
  <2>3. pte_is_unused(Zero)
    BY PteUnused, PteTyping
  <2> QED
    BY <2>1, <2>2, <2>3 DEF PagesInv
<1>2. CASE Drop
  <2>1. Mapped' = {} /\ l2' = [f \in DOMAIN l2 \ Tables(Idx1 \ borrowed_entries) |-> l2[f]]
    BY <1>2 DEF Drop, FreeTables, Mapped
  <2> QED
    BY <2>1 DEF PagesInv
<1> QED
  BY <1>1, <1>2

\* A new table maps nothing.
LEMMA MapCreatePages ==
    ASSUME IInv, PagesInv, NEW f \in Frame, MapCreate(f)
    PROVE  PagesInv'
<1> DEFINE k == p1_index(call.vaddr)
<1>1. /\ l1 \in [Idx1 -> PTE] /\ Mapped = Idx1 /\ k \in Idx1
  BY FirstLevel, IndexTyped, CountAssumption DEF MapCreate, Mapping, IInv, CursorInv
<1>2. /\ l1' = [l1 EXCEPT ![k] = pte_new_table(f)]
      /\ l2' = [g \in DOMAIN l2 \cup {f} |-> IF g = f THEN [i \in Idx2 |-> Zero] ELSE l2[g]]
  BY DEF MapCreate
<1>3. IsTable(pte_new_table(f)) /\ pte_new_table(f) \in PTE /\ pte_is_unused(Zero)
  BY TableEntries, PteTyping, PteUnused, AllocAssumption
<1>4. l1' # NoTable /\ Mapped' = Idx1
  BY <1>1, <1>2, <1>3, SomeTable DEF Mapped
<1> HIDE DEF k
<1> QED
  BY <1>1, <1>2, <1>3, <1>4 DEF PagesInv

\* What is copied leads to tables, and no table is written.
LEMMA CopyFromPages ==
    ASSUME IInv, PagesInv, NEW r \in CopyRange, CopyFrom(r[1], r[2])
    PROVE  PagesInv'
<1> DEFINE copied == CopiedEntries(r[1], r[2])
<1>1. /\ \A i \in copied : IsTable(Lender[i])
      /\ l1' = [i \in Idx1 |-> IF i \in copied THEN Lender[i] ELSE l1[i]]
      /\ l2' = [f \in DOMAIN l2 \ Replaced(copied) |-> l2[f]]
  BY DEF CopyFrom, FreeTables
<1>2. Mapped = Idx1 /\ Mapped' \subseteq Idx1
  BY FirstLevel DEF CopyFrom, CursorIdle, IInv, CursorInv, Mapped
<1> HIDE DEF copied
<1> QED
  BY <1>1, <1>2 DEF PagesInv

\* Every step keeps it: one case per action.
LEMMA PagesStep == ASSUME IInv, PagesInv, [Next]_vars PROVE PagesInv'
<1>1. CASE UNCHANGED vars
  BY <1>1, SamePages DEF vars
<1>2. ASSUME NEW op, NEW v, NEW err, Fail(op, v, err) PROVE PagesInv'
  BY <1>2, SamePages DEF Fail
<1>3. ASSUME \/ OpenCursor
             \/ \E v \in VAddr, p \in Target, s \in PageSize, f \in Flags : Map(v, p, s, f)
             \/ \E op \in {"flush", "drop"} : Flush(op)
      PROVE  PagesInv'
  <2>1. UNCHANGED <<l1, l2>>
    BY <1>3 DEF OpenCursor, Map, Flush
  <2> QED
    BY <2>1, SamePages
<1>4. ASSUME NEW v \in VAddr, NEW p \in Target, NEW f \in Flags, Remap(v, p, f)
      PROVE  PagesInv'
  <2>1. CASE get_entry(v).err # "Ok"
    BY <1>2, <1>4, <2>1 DEF Remap
  <2>2. CASE get_entry(v).err = "Ok"
    BY <1>4, <2>2, RemapWrites
  <2> QED
    BY <2>1, <2>2
<1>5. ASSUME NEW v \in VAddr, NEW f \in Flags, Protect(v, f) PROVE PagesInv'
  <2>1. CASE query(v) = Unmapped
    BY <1>2, <1>5, <2>1 DEF Protect
  <2>2. CASE query(v) # Unmapped
    <3>1. /\ CursorIdle /\ UNCHANGED borrowed_entries
          /\ SetEntry(v, query(v).size,
                      pte_new_page(query(v).paddr, f, query(v).size = Size1M))
      BY <1>5, <2>2 DEF Protect, Succeed
    <3> QED
      BY <2>2, <3>1, ProtectWrites
  <2> QED
    BY <2>1, <2>2
<1>6. ASSUME NEW v \in VAddr, Unmap(v) PROVE PagesInv'
  <2>1. CASE query(v) = Unmapped
    BY <1>2, <1>6, <2>1 DEF Unmap
  <2>2. CASE query(v) # Unmapped
    BY <1>6, <2>2, UnmapWrites
  <2> QED
    BY <2>1, <2>2
<1>7. CASE Begin
  BY <1>2, <1>3, <1>4, <1>5, <1>6, <1>7, NewPages, CopyFromPages DEF Begin, TryNewFails
<1>8. CASE Continue
  <2>1. ASSUME MapNoMemory \/ MapInSection \/ MapOccupied PROVE PagesInv'
    BY <1>2, <2>1 DEF MapNoMemory, MapInSection, MapOccupied
  <2> QED
    BY <1>8, <2>1, MapCreatePages, MapPageWrites DEF Continue
<1> QED
  BY <1>1, <1>7, <1>8 DEF Next

\* Whatever the operations do, an entry is unused, leads to a table or maps a
\* page that a caller asked for: no descent ever ends at anything else.
THEOREM OnlyPagesAndTables == Spec => [](IInv /\ PagesInv)
<1>1. Init => IInv /\ PagesInv
  BY InitStep, InitPages
<1>2. IInv /\ PagesInv /\ [Next]_vars => IInv' /\ PagesInv'
  BY NextStep, PagesStep
<1> QED
  BY <1>1, <1>2, PTL DEF Spec
---------------------------------------------------------------------------
(* The table implements AddressSpace *)

\* The view of each address is the view of what it translates to.
LEMMA ViewOf ==
    /\ \A w \in VAddr : View[w] = ViewPage(Translations[w])
    /\ \A w \in VAddr : View'[w] = ViewPage(Translations'[w])
    /\ View' = [w \in VAddr |-> ViewPage(Translations'[w])]
BY DEF View, Translations, ViewPage

\* An unmapped address shows as one.
LEMMA ViewUnmapped == ViewPage(Unmapped) = Unmapped /\ Abs!Unmapped = Unmapped
BY DEF ViewPage, Abs!Unmapped, Unmapped

\* A change of one block is one of the view.
LEMMA BlockPut ==
    ASSUME NEW u \in VAddr, NEW size \in PageSize, NEW old, NEW new,
           Blocks(Translations, Translations', u, size, old, new)
    PROVE  /\ View[u] = ViewPage(old) /\ View'[u] = ViewPage(new)
           /\ \A w \in Abs!Block(u, size) : View[w] = ViewPage(old)
           /\ Abs!Put(Abs!Block(u, size), ViewPage(new))
<1>1. Abs!Block(u, size) = {w \in VAddr : SameBlock(u, w, size)}
  BY DEF Abs!Block, SameBlock
<1>2. SameBlock(u, u, size)
  BY DEF SameBlock
<1>3. \A w \in VAddr :
         IF SameBlock(u, w, size) THEN View[w] = ViewPage(old) /\ View'[w] = ViewPage(new)
         ELSE View'[w] = View[w]
  BY ViewOf DEF Blocks
<1>4. View' = [w \in VAddr |-> IF SameBlock(u, w, size) THEN ViewPage(new) ELSE View[w]]
  BY <1>3, ViewOf
<1> QED
  BY <1>1, <1>2, <1>3, <1>4 DEF Abs!Put

\* Without a write nothing shows.
LEMMA ViewKept == UNCHANGED <<l1, l2>> => UNCHANGED View
<1> SUFFICES ASSUME UNCHANGED <<l1, l2>> PROVE View' = View
  OBVIOUS
<1>1. \A w \in VAddr : Now(w)' = Now(w)
  BY DEF Now, query, get_entry, EntryAt, Entry1, p1_index, p2_index
<1> QED
  BY <1>1 DEF View, ViewPage

\* Every answer but that of unmap shows as it is.
LEMMA AnswerShown ==
    ASSUME NEW op, NEW v, NEW err, NEW out, ret' = Ret(op, v, err, out)
    PROVE  /\ op # "unmap" => Abs!Answer(op, v, err, out)
           /\ op = "unmap" => Abs!Answer(op, v, err, ViewPage(out))
           /\ ViewRet'.op = op /\ ViewRet'.vaddr = v
<1>1. ret' = [op |-> op, err |-> err, vaddr |-> v, out |-> out]
  BY DEF Ret
<1>2. ViewRet' = IF ret'.op = "unmap" THEN [ret' EXCEPT !.out = ViewPage(@)] ELSE ret'
  BY DEF ViewRet, ViewPage
<1>3. op # "unmap" => ViewRet' = [op |-> op, err |-> err, vaddr |-> v, out |-> out]
  BY <1>1, <1>2
<1>4. op = "unmap" => ViewRet' = [op |-> op, err |-> err, vaddr |-> v, out |-> ViewPage(out)]
  BY <1>1, <1>2
<1> QED
  BY <1>3, <1>4 DEF Abs!Answer

\* A failure shows as one.
LEMMA FailShown ==
    ASSUME NEW op, NEW v, NEW err, NEW errors, err \in errors, Fail(op, v, err)
    PROVE  Abs!Fails(op, v, errors) /\ ViewRet'.op = op /\ ViewRet'.vaddr = v
<1>1. ret' = Ret(op, v, err, Unmapped) /\ UNCHANGED View
  BY ViewKept DEF Fail
<1>2. Abs!Answer(op, v, err, Abs!Unmapped) /\ ViewRet'.op = op /\ ViewRet'.vaddr = v
  BY <1>1, AnswerShown, ViewUnmapped
<1> QED
  BY <1>1, <1>2 DEF Abs!Fails

\* The last answer is forgotten.
LEMMA BeginsShown ==
    ASSUME ret' = NoRet, UNCHANGED <<l1, l2>>
    PROVE  Abs!Begins
<1>1. ret' = Ret("none", 0, "none", Unmapped)
  BY DEF NoRet, Ret
<1>2. Abs!Answer("none", 0, "none", Abs!Unmapped)
  BY <1>1, AnswerShown, ViewUnmapped
<1> QED
  BY <1>2, ViewKept DEF Abs!Begins

\* An address translates to nothing while there is no table, or in a new one.
LEMMA NothingShown ==
    /\ l1 = NoTable => View = [v \in VAddr |-> Unmapped]
    /\ l1' = NoTable => View' = [v \in VAddr |-> Unmapped]
    /\ l1' = [i \in Idx1 |-> Zero] => View' = [v \in VAddr |-> Unmapped]
<1>1. l1 = NoTable => \A v \in VAddr : Now(v) = Unmapped
  BY DEF Now
<1>2. l1' = NoTable => \A v \in VAddr : Now(v)' = Unmapped
  BY DEF Now
<1>3. ASSUME l1' = [i \in Idx1 |-> Zero] PROVE \A v \in VAddr : Now(v)' = Unmapped
  <2> TAKE v \in VAddr
  <2>1. p1_index(v) \in Idx1
    BY IndexTyped, CountAssumption
  <2>2. Entry1(v)' = Zero
    BY <1>3, <2>1 DEF Entry1, p1_index
  <2>3. pte_is_unused(Zero)
    BY PteUnused, PteTyping
  <2> QED
    BY <2>2, <2>3 DEF Now, query, get_entry
<1>4. View' = [v \in VAddr |-> ViewPage(Now(v)')]
  BY DEF View, ViewPage
<1> QED
  BY <1>1, <1>2, <1>3, <1>4, ViewUnmapped DEF View

\* map fills a free block with its page.
LEMMA MapPageShown == ASSUME IInv, PagesInv, MapPage PROVE \E v \in VAddr : Abs!Map(v)
<1> DEFINE v == call.vaddr
           size == call.size
           page == Page(pte_new_page(call.target, call.flags, size = Size1M), size)
<1>1. /\ v \in VAddr /\ size \in PageSize /\ call.target \in Target /\ call.flags \in Flags
      /\ Blocks(Translations, Translations', v, size, Unmapped, page)
  BY MapPageWrites
<1>2. ViewPage(page) = Abs!Page(align_down(call.target, size), call.flags, size)
  BY <1>1, PageShown
<1>3. /\ Abs!Answer("map", v, "Ok", [size |-> size])
      /\ ViewRet'.op = "map" /\ ViewRet'.vaddr = v
  BY AnswerShown DEF MapPage, Succeed
<1> HIDE DEF v, size, page
<1>4. /\ View'[v] = ViewPage(page)
      /\ \A w \in Abs!Block(v, size) : View[w] = ViewPage(Unmapped)
      /\ Abs!Put(Abs!Block(v, size), ViewPage(page))
  BY <1>1, BlockPut
<1>5. Abs!Free(Abs!Block(v, size))
  BY <1>4, ViewUnmapped DEF Abs!Free
<1>6. Abs!PutOneOf(v, size, {Abs!Page(align_down(p, size), f, size) : p \in Mappable, f \in Flags})
  <2>1. call.target \in Mappable
    BY <1>1 DEF Mappable
  <2> QED
    BY <1>1, <1>2, <1>4, <2>1 DEF Abs!PutOneOf
<1>7. Abs!MapOk(v, size)
  BY <1>3, <1>5, <1>6 DEF Abs!MapOk
<1> QED
  BY <1>1, <1>3, <1>7 DEF Abs!Map

\* remap fills a hole or replaces a page.
LEMMA RemapShown ==
    ASSUME IInv, PagesInv, NEW v \in VAddr, NEW p \in Target, NEW f \in Flags, Remap(v, p, f)
    PROVE  Abs!Remap(v)
<1> DEFINE size == get_entry(v).size
           page == Page(pte_new_page(p, f, size = Size1M), size)
<1>1. l1 # NoTable /\ CursorIdle
  BY DEF Remap, CursorIdle, IInv, CursorInv
<1>2. CASE get_entry(v).err # "Ok"
  <2>1. Fail("remap", v, get_entry(v).err) /\ get_entry(v).err \in {"NotMapped", "MappedToHugePage"}
    BY <1>2 DEF Remap, get_entry
  <2>2. View[v] = Unmapped
    BY <1>1, <1>2, ViewUnmapped DEF View, Now, query
  <2>3. /\ Abs!Fails("remap", v, {"NotMapped", "MappedToHugePage"})
        /\ ViewRet'.op = "remap" /\ ViewRet'.vaddr = v
    BY <2>1, FailShown
  <2> QED
    BY <2>2, <2>3, ViewUnmapped DEF Abs!Remap, Abs!RemapFails
<1>3. CASE get_entry(v).err = "Ok"
  <2>1. /\ size \in PageSize /\ Now(v) = PageOf(EntryAt(v, size), size)
        /\ Blocks(Translations, Translations', v, size, Now(v), page)
    BY <1>3, RemapWrites
  <2>2. ViewPage(page) = Abs!Page(align_down(p, size), f, size)
    BY <2>1, PageShown
  <2>3. /\ Abs!Answer("remap", v, "Ok", [size |-> size])
        /\ ViewRet'.op = "remap" /\ ViewRet'.vaddr = v
    BY <1>3, AnswerShown DEF Remap, Succeed
  <2> HIDE DEF size, page
  <2>4. /\ View[v] = ViewPage(Now(v)) /\ View'[v] = ViewPage(page)
        /\ \A w \in Abs!Block(v, size) : View[w] = ViewPage(Now(v))
        /\ Abs!Put(Abs!Block(v, size), ViewPage(page))
    BY <2>1, BlockPut
  <2>5. Abs!Free(Abs!Block(v, size)) \/ Abs!OnePage(Abs!Block(v, size), size)
    <3>1. CASE Now(v) = Unmapped
      BY <2>4, <3>1, ViewUnmapped DEF Abs!Free
    <3>2. CASE Now(v) # Unmapped
      <4>1. ViewPage(Now(v)).size = size
        BY <2>1, <3>2 DEF PageOf, Page, ViewPage
      <4>2. v \in Abs!Block(v, size)
        BY DEF Abs!Block
      <4> QED
        BY <2>4, <4>1, <4>2 DEF Abs!OnePage
    <3> QED
      BY <3>1, <3>2
  <2>6. Abs!PutOneOf(v, size, {Abs!Page(q, g, size) : q \in Mappable, g \in Flags})
    <3>1. align_down(p, size) \in Mappable
      BY <2>1 DEF Mappable
    <3> QED
      BY <2>2, <2>4, <3>1 DEF Abs!PutOneOf
  <2>7. Abs!RemapOk(v, size)
    BY <2>3, <2>5, <2>6 DEF Abs!RemapOk
  <2> QED
    BY <2>1, <2>3, <2>7 DEF Abs!Remap
<1> QED
  BY <1>2, <1>3

\* protect changes the flags of one page.
LEMMA ProtectShown ==
    ASSUME IInv, PagesInv, NEW v \in VAddr, NEW f \in Flags, Protect(v, f)
    PROVE  Abs!Protect(v)
<1>1. l1 # NoTable /\ CursorIdle
  BY DEF Protect, CursorIdle, IInv, CursorInv
<1>2. CASE query(v) = Unmapped
  <2>1. Fail("protect", v, "NotMapped")
    BY <1>2 DEF Protect
  <2>2. View[v] = Unmapped
    BY <1>1, <1>2, ViewUnmapped DEF View, Now
  <2>3. /\ Abs!Fails("protect", v, {"NotMapped", "MappedToHugePage"})
        /\ ViewRet'.op = "protect" /\ ViewRet'.vaddr = v
    BY <2>1, FailShown
  <2> QED
    BY <2>2, <2>3, ViewUnmapped DEF Abs!Protect, Abs!ProtectFails
<1>3. CASE query(v) # Unmapped
  <2>1. /\ UNCHANGED borrowed_entries
        /\ SetEntry(v, query(v).size, pte_new_page(query(v).paddr, f, query(v).size = Size1M))
        /\ ret' = Ret("protect", v, "Ok", [size |-> query(v).size])
    BY <1>3 DEF Protect, Succeed
  <2>2. PICK p \in Target, g \in Flags, size \in PageSize :
          LET old == Page(pte_new_page(p, g, size = Size1M), size)
              new == Page(pte_new_page(p, f, size = Size1M), size)
          IN  /\ query(v) = old /\ PagesInv'
              /\ SetEntry(v, size, new.entry)
              /\ pte_new_page(old.paddr, f, size = Size1M) = new.entry
              /\ Blocks(Translations, Translations', v, size, old, new)
    BY <1>1, <1>3, <2>1, ProtectWrites
  <2> DEFINE old == Page(pte_new_page(p, g, size = Size1M), size)
             new == Page(pte_new_page(p, f, size = Size1M), size)
  <2>3. query(v) = old /\ Blocks(Translations, Translations', v, size, old, new)
    BY <2>2
  <2>4. old.size = size
    BY DEF Page
  <2>5. ViewPage(old) = [paddr |-> align_down(p, size), flags |-> {g}, size |-> size]
    BY PageShown
  <2>6. ViewPage(new) = Abs!Page(align_down(p, size), f, size)
    BY PageShown
  <2> HIDE DEF old, new
  <2>7. /\ View[v] = ViewPage(old) /\ View'[v] = ViewPage(new)
        /\ Abs!Put(Abs!Block(v, size), ViewPage(new))
    BY <2>3, BlockPut
  <2>8. View[v].size = size /\ View[v].paddr = align_down(p, size) /\ View[v] # Abs!Unmapped
    <3>1. size # -1
      BY DEF PageSize, Size4K, Size1M
    <3> QED
      BY <2>5, <2>7, <3>1 DEF Abs!Unmapped
  <2>9. /\ Abs!Answer("protect", v, "Ok", [size |-> size])
        /\ ViewRet'.op = "protect" /\ ViewRet'.vaddr = v
    BY <2>1, <2>3, <2>4, AnswerShown
  <2>10. Abs!PutOneOf(v, size, {Abs!Page(align_down(p, size), h, size) : h \in Flags})
    BY <2>6, <2>7 DEF Abs!PutOneOf
  <2>11. Abs!ProtectOk(v)
    BY <2>8, <2>9, <2>10 DEF Abs!ProtectOk
  <2> QED
    BY <2>9, <2>11 DEF Abs!Protect
<1> QED
  BY <1>2, <1>3

\* unmap removes one page and answers it.
LEMMA UnmapShown ==
    ASSUME IInv, PagesInv, NEW v \in VAddr, Unmap(v)
    PROVE  Abs!Unmap(v)
<1>1. l1 # NoTable /\ CursorIdle
  BY DEF Unmap, CursorIdle, IInv, CursorInv
<1>2. CASE query(v) = Unmapped
  <2>1. Fail("unmap", v, "NotMapped")
    BY <1>2 DEF Unmap
  <2>2. View[v] = Unmapped
    BY <1>1, <1>2, ViewUnmapped DEF View, Now
  <2>3. /\ Abs!Fails("unmap", v, {"NotMapped", "MappedToHugePage"})
        /\ ViewRet'.op = "unmap" /\ ViewRet'.vaddr = v
    BY <2>1, FailShown
  <2> QED
    BY <2>2, <2>3, ViewUnmapped DEF Abs!Unmap, Abs!UnmapFails
<1>3. CASE query(v) # Unmapped
  <2>1. ret' = Ret("unmap", v, "Ok", query(v))
    BY <1>3 DEF Unmap, Succeed
  <2>2. PICK p \in Target, g \in Flags, size \in PageSize :
          LET old == Page(pte_new_page(p, g, size = Size1M), size)
          IN  /\ query(v) = old /\ PagesInv'
              /\ Blocks(Translations, Translations', v, size, old, Unmapped)
    BY <1>3, UnmapWrites
  <2> DEFINE old == Page(pte_new_page(p, g, size = Size1M), size)
  <2>3. query(v) = old /\ Blocks(Translations, Translations', v, size, old, Unmapped)
    BY <2>2
  <2>4. ViewPage(old) = [paddr |-> align_down(p, size), flags |-> {g}, size |-> size]
    BY PageShown
  <2> HIDE DEF old
  <2>5. /\ View[v] = ViewPage(old)
        /\ Abs!Put(Abs!Block(v, size), Abs!Unmapped)
    BY <2>3, BlockPut, ViewUnmapped
  <2>6. View[v].size = size /\ View[v] # Abs!Unmapped
    <3>1. size # -1
      BY DEF PageSize, Size4K, Size1M
    <3> QED
      BY <2>4, <2>5, <3>1 DEF Abs!Unmapped
  <2>7. /\ Abs!Answer("unmap", v, "Ok", View[v])
        /\ ViewRet'.op = "unmap" /\ ViewRet'.vaddr = v
    BY <2>1, <2>3, <2>5, AnswerShown
  <2>8. Abs!UnmapOk(v)
    BY <2>5, <2>6, <2>7 DEF Abs!UnmapOk
  <2> QED
    BY <2>7, <2>8 DEF Abs!Unmap
<1> QED
  BY <1>2, <1>3

\* A new table is zeroed: below it every address stays unmapped.
LEMMA MapCreateShown ==
    ASSUME IInv, NEW f \in Frame, MapCreate(f)
    PROVE  /\ l1 # NoTable /\ l1' # NoTable
           /\ \A w \in VAddr : Now(w)' = Now(w)
<1> DEFINE k == p1_index(call.vaddr)
<1>1. /\ l1 \in [Idx1 -> PTE] /\ l1 # NoTable /\ k \in Idx1
  BY FirstLevel, IndexTyped, CountAssumption DEF MapCreate, Mapping, IInv, CursorInv
<1>2. /\ l1' = [l1 EXCEPT ![k] = pte_new_table(f)]
      /\ pte_is_unused(l1[k])
      /\ f \notin DOMAIN l2
      /\ l2' = [g \in DOMAIN l2 \cup {f} |-> IF g = f THEN [i \in Idx2 |-> Zero] ELSE l2[g]]
  BY AllocAssumption DEF MapCreate, Entry1, IInv, TypeOK
<1>3. /\ IsTable(pte_new_table(f)) /\ pte_paddr(pte_new_table(f)) = f
      /\ pte_new_table(f) \in PTE /\ pte_is_unused(Zero)
  BY TableEntries, PteTyping, PteUnused, AllocAssumption
<1>4. l1' # NoTable
  BY <1>1, <1>2, <1>3, SomeTable
<1> HIDE DEF k
<1>5. ASSUME NEW w \in VAddr PROVE Now(w)' = Now(w)
  <2>1. p1_index(w) \in Idx1 /\ p2_index(w) \in Idx2
    BY IndexTyped, CountAssumption
  <2>2. CASE p1_index(w) = k
    <3>1. Now(w) = Unmapped
      BY <1>1, <1>2, <2>2 DEF Now, query, get_entry, Entry1
    <3>2. l1'[p1_index(w)] = pte_new_table(f)
      BY <1>1, <1>2, <2>2
    <3>3. l2'[f][p2_index(w)] = Zero
      BY <1>2, <2>1
    <3>4. Now(w)' = PageOf(Zero, Size4K)
      BY <1>3, <1>4, <3>2, <3>3, NextIsPage DEF PageSize, Size4K, Size1M
    <3> QED
      BY <1>3, <3>1, <3>4 DEF PageOf
  <2>3. CASE p1_index(w) # k
    <3>1. l1'[p1_index(w)] = Entry1(w)
      BY <1>1, <1>2, <2>1, <2>3 DEF Entry1
    <3>2. IsTable(Entry1(w)) => pte_paddr(Entry1(w)) \in DOMAIN l2
      BY <1>1, EntryTyped DEF IInv, TreeInv
    <3>3. Kept(w)
      BY <1>2, <3>1, <3>2 DEF Kept, EntryAt, Size4K, Size1M
    <3> QED
      BY <1>1, <1>4, <3>3, KeptNow
  <2> QED
    BY <2>2, <2>3
<1> QED
  BY <1>1, <1>4, <1>5

\* A page table comes and goes empty.
LEMMA TableShown ==
    /\ TryNew => Abs!Create
    /\ TryNewFails => Abs!Create
    /\ Drop => Abs!Destroy
<1>1. ASSUME TryNew PROVE Abs!Create
  <2>1. View = [v \in VAddr |-> Unmapped] /\ View' = [v \in VAddr |-> Unmapped]
    BY <1>1, NothingShown DEF TryNew
  <2>2. Abs!Answer("try_new", 0, "Ok", Abs!Unmapped)
    BY <1>1, AnswerShown, ViewUnmapped DEF TryNew
  <2>3. Abs!Free(VAddr)
    BY <2>1, ViewUnmapped DEF Abs!Free
  <2> QED
    BY <2>1, <2>2, <2>3 DEF Abs!Create
<1>2. ASSUME TryNewFails PROVE Abs!Create
  <2>1. View = [v \in VAddr |-> Unmapped] /\ UNCHANGED View
    BY <1>2, NothingShown, ViewKept DEF TryNewFails, Fail
  <2>2. Abs!Answer("try_new", 0, "NoMemory", Abs!Unmapped)
    BY <1>2, AnswerShown, ViewUnmapped DEF TryNewFails, Fail
  <2>3. Abs!Free(VAddr)
    BY <2>1, ViewUnmapped DEF Abs!Free
  <2> QED
    BY <2>1, <2>2, <2>3 DEF Abs!Create
<1>3. ASSUME Drop PROVE Abs!Destroy
  <2>1. View' = [v \in VAddr |-> Unmapped]
    BY <1>3, NothingShown DEF Drop
  <2>2. ret' = Ret("none", 0, "none", Unmapped)
    BY <1>3 DEF Drop, NoRet, Ret
  <2>3. Abs!Answer("none", 0, "none", Abs!Unmapped)
    BY <2>2, AnswerShown, ViewUnmapped
  <2>4. Abs!Put(VAddr, Abs!Unmapped)
    BY <2>1, ViewUnmapped DEF Abs!Put
  <2> QED
    BY <2>3, <2>4 DEF Abs!Destroy
<1> QED
  BY <1>1, <1>2, <1>3

\* A map that fails shows as one.
LEMMA MapFailsShown ==
    ASSUME IInv, MapNoMemory \/ MapInSection \/ MapOccupied
    PROVE  \E v \in VAddr : Abs!Map(v)
<1> DEFINE errors == {"NoMemory", "AlreadyMapped", "MappedToHugePage", "NotMapped"}
           v == call.vaddr
<1>1. v \in VAddr /\ l1 # NoTable
  BY DEF MapNoMemory, MapInSection, MapOccupied, AtEntry, Mapping, IInv, CursorInv
<1>2. PICK err \in errors : Fail("map", v, err) /\ Abs!MapError(err, View[v])
  <2>1. CASE MapNoMemory
    <3>1. Fail("map", v, "NoMemory") /\ pte_is_unused(Entry1(v))
      BY <2>1 DEF MapNoMemory
    <3>2. Now(v) = Unmapped
      BY <1>1, <3>1 DEF Now, query, get_entry
    <3>3. View[v] = Unmapped
      BY <1>1, <3>2, ViewUnmapped DEF View
    <3> QED
      BY <3>1, <3>3 DEF Abs!MapError, Abs!Unmapped, Unmapped
  <2>2. CASE MapInSection \/ MapOccupied
    BY <2>2 DEF MapInSection, MapOccupied, Abs!MapError
  <2> QED
    BY <2>1, <2>2
<1> HIDE DEF v
<1>3. /\ Abs!Fails("map", v, {e \in errors : Abs!MapError(e, View[v])})
      /\ ViewRet'.op = "map" /\ ViewRet'.vaddr = v
  BY <1>2, FailShown DEF v
<1> QED
  BY <1>1, <1>3 DEF Abs!Map, Abs!MapFails

\* A cursor is opened, or a table linked, without a trace.
LEMMA NoTrace ==
    ASSUME IInv, OpenCursor \/ (\E f \in Frame : MapCreate(f)) \/ UNCHANGED vars
    PROVE  UNCHANGED <<View, ViewRet>>
<1>1. ret' = ret
  BY DEF OpenCursor, MapCreate, vars
<1>2. UNCHANGED ViewRet
  BY <1>1 DEF ViewRet, ViewPage
<1>3. ASSUME OpenCursor \/ UNCHANGED vars PROVE UNCHANGED View
  BY <1>3, ViewKept DEF OpenCursor, vars
<1>4. ASSUME NEW f \in Frame, MapCreate(f) PROVE UNCHANGED View
  <2>1. \A w \in VAddr : Now(w)' = Now(w)
    BY <1>4, MapCreateShown
  <2> QED
    BY <2>1 DEF View, ViewPage
<1> QED
  BY <1>2, <1>3, <1>4

\* Every step is one of the abstract space, or does not show: one case per
\* action.
LEMMA StepShown ==
    ASSUME IInv, PagesInv, [Next]_vars
    PROVE  ret'.op = "copy_from" \/ Abs!Next \/ UNCHANGED <<View, ViewRet>>
<1>1. CASE UNCHANGED vars
  BY <1>1, NoTrace
<1>2. ASSUME NEW v \in VAddr, NEW p \in Target, NEW s \in PageSize, NEW f \in Flags, Map(v, p, s, f)
      PROVE  Abs!Begins
  BY <1>2, BeginsShown DEF Map
<1>3. ASSUME NEW op \in {"flush", "drop"}, Flush(op) PROVE Abs!Begins
  BY <1>3, BeginsShown DEF Flush
<1>4. ASSUME NEW r \in CopyRange, CopyFrom(r[1], r[2]) PROVE ret'.op = "copy_from"
  BY <1>4 DEF CopyFrom, Ret
<1>5. CASE Begin
  BY <1>2, <1>3, <1>4, <1>5, TableShown, NoTrace, RemapShown, ProtectShown, UnmapShown
     DEF Begin, Abs!Next
<1>6. CASE Continue
  BY <1>6, NoTrace, MapPageShown, MapFailsShown DEF Continue, Abs!Next
<1> QED
  BY <1>1, <1>5, <1>6 DEF Next

\* The two-level table implements AddressSpace: each operation but copy_from
\* changes the translations of one aligned block, as its answer says, or of
\* none, for all tables, formats, allocators and lenders.
THEOREM AddressSpaceImplemented == Spec => ImplementsAddressSpace
<1>1. Init => Abs!Init
  <2> SUFFICES ASSUME Init PROVE Abs!Init
    OBVIOUS
  <2>1. View = [v \in VAddr |-> Unmapped]
    BY NothingShown DEF Init
  <2>2. ViewRet = [op |-> "none", err |-> "none", vaddr |-> 0, out |-> Unmapped]
    BY DEF Init, NoRet, ViewRet
  <2> QED
    BY <2>1, <2>2, ViewUnmapped DEF Abs!Init
<1>2. IInv /\ PagesInv /\ [Next]_vars => [ret'.op = "copy_from" \/ Abs!Next]_<<View, ViewRet>>
  BY StepShown
<1> QED
  BY <1>1, <1>2, OnlyPagesAndTables, PTL DEF Spec, ImplementsAddressSpace
---------------------------------------------------------------------------
(* What the loops over a region have done *)

\* The record of a loop.
IsLoop(r) ==
    r = [pc |-> r.pc, op |-> r.op, vaddr |-> r.vaddr, size |-> r.size,
         request |-> r.request, before |-> r.before]

\* The work of the loop r shows in the translations s up to end.
PrefixOf(s, r, end) ==
    \A v \in VAddr :
        IF r.request.vaddr <= v /\ v < end THEN Wanted(r, v, s[v]) ELSE s[v] = r.before[v]

\* The loop r has passed a whole number of 4K pages.
Progress(r) ==
    /\ r.vaddr \in Nat /\ r.size \in Nat
    /\ r.request.vaddr \in Nat /\ r.request.size \in Nat
    /\ \E k \in 0 .. r.request.size :
          /\ r.vaddr = r.request.vaddr + k * PAGE_SIZE_4K
          /\ r.request.size = r.size + k * PAGE_SIZE_4K

\* It was called as callers do, map_region went past its check, and
\* protect_region meets no error.
RequestOK(r) ==
    LET request == r.request
    IN  /\ r.op \in {"map", "unmap", "protect"}
        /\ PagesInUse(request.vaddr, request.size)
        /\ r.op = "protect" => request.flags \in Flags /\ r.pc # "Failed"
        /\ r.op = "map" => request \in MapRequest
        /\ r.op = "map" /\ r.pc \in {"Loop", "Mapping"} =>
              Aligned(request.vaddr, Size4K) /\ Aligned(request.size, Size4K)

\* The size that map_region chose for the next page.
Chosen(s) ==
    LET paddr == region.request.get_paddr[region.vaddr]
    IN  /\ s \in PageSize /\ Fits(s)
        /\ s = Size4K \/ (region.request.allow_huge /\ align_down(paddr, s) = paddr)

\* The map of the next page is in progress...
MapRuns ==
    /\ call.vaddr = region.vaddr /\ region.vaddr \in VAddr
    /\ call.target = region.request.get_paddr[region.vaddr]
    /\ call.flags = region.request.flags
    /\ Chosen(call.size)
    /\ PrefixOf(Translations, region, region.vaddr)

\* ... or has returned.
MapReturned ==
    IF ret.err = "Ok"
    THEN /\ ret.out.size \in PageSize /\ Fits(ret.out.size)
         /\ PrefixOf(Translations, region, region.vaddr + PageBytes(ret.out.size))
    ELSE PrefixOf(Translations, region, region.vaddr)

\* The inductive invariant of the loops.
LoopInv ==
    /\ IsLoop(region)
    /\ region.pc \in {"None", "Loop", "Mapping", "Failed", "Panicked"}
    /\ region.pc = "None" => region = NoRegion
    /\ region.pc # "None" =>
          RequestOK(region) /\ Progress(region) /\ flusher.kind # "Closed"
    /\ region.pc # "Mapping" => Idle
    /\ region.pc \in {"Loop", "Failed"} => PrefixOf(Translations, region, region.vaddr)
    /\ region.pc = "Mapping" =>
          region.op = "map" /\ IF Idle THEN MapReturned ELSE MapRuns

RegionInv == IInv /\ PagesInv /\ LoopInv

\* A page of any size is made of 4K pages.
LEMMA PageMultiple ==
    ASSUME NEW s \in PageSize
    PROVE  /\ PageBytes(s) \in Nat \ {0} /\ PAGE_SIZE_4K \in Nat \ {0}
           /\ \E c \in Nat \ {0} : PageBytes(s) = PAGE_SIZE_4K * c
<1>1. PAGE_SIZE_4K \in Nat \ {0} /\ L2_COUNT \in Nat \ {0} /\ PageBytes(s) \in Nat \ {0}
  BY CountAssumption, PageBytesPositive
<1>2. CASE s = Size4K
  <2>1. PageBytes(s) = PAGE_SIZE_4K * 1
    BY <1>1, <1>2 DEF PageBytes
  <2> QED
    BY <1>1, <2>1
<1>3. CASE s = Size1M
  <2>1. PageBytes(s) = PAGE_SIZE_4K * L2_COUNT
    BY <1>3 DEF PageBytes, Size4K, Size1M
  <2> QED
    BY <1>1, <2>1
<1> QED
  BY <1>2, <1>3 DEF PageSize

\* The addresses in the page of size s at an aligned address are the next ones.
LEMMA BlockIsInterval ==
    ASSUME NEW v \in VAddr, NEW w \in VAddr, NEW s \in PageSize, Aligned(v, s)
    PROVE  SameBlock(v, w, s) <=> v <= w /\ w < v + PageBytes(s)
<1>1. v \in Nat /\ w \in Nat /\ PageBytes(s) \in Nat \ {0}
  BY PageMultiple, CountAssumption
<1>2. v % PageBytes(s) = 0
  BY DEF Aligned
<1> QED
  BY <1>1, <1>2, NextNumbers DEF SameBlock

\* While a part of the region is left, the next address is one in use.
LEMMA NextInUse ==
    ASSUME NEW r, Progress(r), RequestOK(r), r.size > 0
    PROVE  r.vaddr \in VAddr
<1>1. PICK k \in 0 .. r.request.size :
         /\ r.vaddr = r.request.vaddr + k * PAGE_SIZE_4K
         /\ r.request.size = r.size + k * PAGE_SIZE_4K
  BY DEF Progress
<1>2. k * PAGE_SIZE_4K \in Nat /\ r.size \in Nat
  BY CountAssumption DEF Progress
<1>3. k * PAGE_SIZE_4K < r.request.size
  BY <1>1, <1>2
<1> QED
  BY <1>1, <1>3 DEF RequestOK, PagesInUse

\* A page that fits is passed in whole 4K pages.
LEMMA ProgressMade ==
    ASSUME NEW r, NEW n, Progress(r), NEW s \in PageSize, PageBytes(s) <= r.size,
           n.vaddr = r.vaddr + PageBytes(s), n.size = r.size - PageBytes(s),
           n.request = r.request
    PROVE  Progress(n)
<1> DEFINE b == PAGE_SIZE_4K
           bytes == PageBytes(s)
<1>1. /\ r.vaddr \in Nat /\ r.size \in Nat
      /\ r.request.vaddr \in Nat /\ r.request.size \in Nat
  BY DEF Progress
<1>2. PICK k \in 0 .. r.request.size :
         r.vaddr = r.request.vaddr + k * b /\ r.request.size = r.size + k * b
  BY DEF Progress
<1>3. bytes \in Nat \ {0} /\ b \in Nat \ {0}
  BY PageMultiple
<1>4. PICK c \in Nat \ {0} : bytes = b * c
  BY PageMultiple
<1> HIDE DEF b, bytes
<1> DEFINE j == k + c
<1>5. j \in Nat /\ j * b = k * b + bytes
  BY <1>1, <1>2, <1>3, <1>4
<1>6. n.vaddr = n.request.vaddr + j * b /\ n.request.size = n.size + j * b
      /\ n.vaddr \in Nat /\ n.size \in Nat
  BY <1>1, <1>2, <1>3, <1>5 DEF bytes
<1>7. j <= n.request.size
  <2> HIDE DEF j
  <2>1. j * 1 <= j * b
    BY <1>3, <1>5, ProductMonotone
  <2>2. j * b \in Nat /\ j * 1 = j
    BY <1>3, <1>5
  <2> QED
    BY <1>1, <1>5, <1>6, <2>1, <2>2
<1> QED
  BY <1>1, <1>5, <1>6, <1>7 DEF Progress, b

\* In a region made of 4K pages a 4K page always fits.
LEMMA SmallPageFits ==
    ASSUME NEW r, Progress(r), r.size > 0,
           Aligned(r.request.vaddr, Size4K), Aligned(r.request.size, Size4K)
    PROVE  Aligned(r.vaddr, Size4K) /\ PageBytes(Size4K) <= r.size
<1> DEFINE b == PAGE_SIZE_4K
<1>1. b \in Nat \ {0} /\ PageBytes(Size4K) = b
  BY CountAssumption DEF PageBytes, Size4K
<1>2. /\ r.vaddr \in Nat /\ r.size \in Nat
      /\ r.request.vaddr \in Nat /\ r.request.size \in Nat
  BY DEF Progress
<1>3. PICK k \in 0 .. r.request.size :
         r.vaddr = r.request.vaddr + k * b /\ r.request.size = r.size + k * b
  BY DEF Progress
<1>4. r.request.vaddr % b = 0 /\ r.request.size % b = 0
  BY <1>1 DEF Aligned
<1> HIDE DEF b
<1>5. r.vaddr = r.request.vaddr + b * k /\ r.request.size = r.size + b * k /\ k \in Nat
  BY <1>1, <1>2, <1>3
<1>6. r.vaddr % b = r.request.vaddr % b /\ r.request.size % b = r.size % b
  <2>1. (r.request.vaddr + b * k) % b = r.request.vaddr % b
    BY <1>1, <1>2, <1>5, SameRemainder
  <2>2. (r.size + b * k) % b = r.size % b
    BY <1>1, <1>2, <1>5, SameRemainder
  <2> QED
    BY <1>5, <2>1, <2>2, Zenon
<1>7. r.vaddr % b = 0 /\ r.size % b = 0
  BY <1>4, <1>6
<1>8. b <= r.size
  BY <1>1, <1>2, <1>7, MultipleAtLeast
<1> QED
  BY <1>1, <1>7, <1>8 DEF Aligned

\* What counts of a loop for its work.
SameLoop(r, n) == n.op = r.op /\ n.request = r.request /\ n.before = r.before

\* The work depends on nothing else of the loop.
LEMMA PrefixKept ==
    ASSUME NEW m, NEW n, NEW r, NEW q, NEW end, SameLoop(r, q), PrefixOf(m, r, end),
           \A w \in VAddr : n[w] = m[w]
    PROVE  PrefixOf(n, q, end)
BY DEF PrefixOf, SameLoop, Wanted

\* A page of the wanted translation at the next address extends the work.
LEMMA PrefixGrows ==
    ASSUME NEW m, NEW n, NEW r, NEW q, NEW s \in PageSize, NEW old, NEW new,
           SameLoop(r, q), Progress(r), r.vaddr \in VAddr, Aligned(r.vaddr, s),
           PrefixOf(m, r, r.vaddr), Blocks(m, n, r.vaddr, s, old, new),
           \A w \in VAddr : SameBlock(r.vaddr, w, s) /\ r.before[w] = old => Wanted(r, w, new)
    PROVE  PrefixOf(n, q, r.vaddr + PageBytes(s))
<1> DEFINE v == r.vaddr
           end == v + PageBytes(s)
           base == r.request.vaddr
<1>1. v \in Nat /\ base \in Nat /\ PageBytes(s) \in Nat \ {0} /\ base <= v
  <2>1. \A k \in Nat : k * PAGE_SIZE_4K \in Nat
    BY CountAssumption
  <2> QED
    BY <2>1, PageMultiple DEF Progress
<1>2. ASSUME NEW w \in VAddr
      PROVE  IF base <= w /\ w < end THEN Wanted(r, w, n[w])
             ELSE n[w] = r.before[w]
  <2>0. w \in Nat
    BY CountAssumption
  <2>1. CASE SameBlock(v, w, s)
    <3>1. v <= w /\ w < end
      BY <2>1, BlockIsInterval
    <3>2. m[w] = old /\ n[w] = new
      BY <2>1 DEF Blocks
    <3>3. m[w] = r.before[w]
      BY <1>1, <2>0, <3>1 DEF PrefixOf
    <3>4. Wanted(r, w, n[w])
      BY <2>1, <3>2, <3>3
    <3> QED
      BY <1>1, <2>0, <3>1, <3>4
  <2>2. CASE ~SameBlock(v, w, s)
    <3>1. ~(v <= w /\ w < end)
      BY <2>2, BlockIsInterval
    <3>2. n[w] = m[w]
      BY <2>2 DEF Blocks
    <3>3. (base <= w /\ w < end) <=> (base <= w /\ w < v)
      BY <1>1, <2>0, <3>1
    <3> QED
      BY <3>2, <3>3 DEF PrefixOf
  <2> QED
    BY <2>1, <2>2
<1> QED
  BY <1>2 DEF PrefixOf, SameLoop, Wanted

\* What a loop that goes on or stops keeps of its record.
LEMMA Stopped ==
    ASSUME IsLoop(region), NEW pc, region' = Stop(pc)
    PROVE  /\ IsLoop(region') /\ SameLoop(region, region') /\ region'.pc = pc
           /\ region'.vaddr = region.vaddr /\ region'.size = region.size
BY DEF IsLoop, SameLoop, Stop

\* What a loop that passes a page of size s makes of its record.
LEMMA PassedPage ==
    ASSUME IsLoop(region), NEW s, region' = Passed(s)
    PROVE  /\ IsLoop(region') /\ SameLoop(region, region') /\ region'.pc = "Loop"
           /\ region'.vaddr = region.vaddr + PageBytes(s)
           /\ region'.size = region.size - PageBytes(s)
BY DEF IsLoop, SameLoop, Passed

\* A call stays what it was.
LEMMA RequestKept ==
    ASSUME NEW r, NEW n, RequestOK(r), SameLoop(r, n),
           r.pc \in {"Loop", "Mapping"} \/ n.pc \notin {"Loop", "Mapping"},
           r.op # "protect" \/ n.pc # "Failed"
    PROVE  RequestOK(n)
BY DEF RequestOK, SameLoop

\* So does its progress, as long as no page is passed.
LEMMA ProgressKept ==
    ASSUME NEW r, NEW n, Progress(r), SameLoop(r, n), n.vaddr = r.vaddr, n.size = r.size
    PROVE  Progress(n)
BY DEF Progress, SameLoop

\* The work that shows in the next state.
LEMMA PrefixNext ==
    /\ PrefixOf(Translations', region', region'.vaddr)
          => PrefixOf(Translations, region, region.vaddr)'
    /\ PrefixOf(Translations', region', region'.vaddr + PageBytes(ret'.out.size))
          => PrefixOf(Translations, region, region.vaddr + PageBytes(ret.out.size))'
BY DEF PrefixOf, Wanted, ViewPage, PageBytes

\* The translations of an open cursor's table are what query answers.
LEMMA TranslationsOf ==
    ASSUME l1 # NoTable
    PROVE  \A w \in VAddr : Translations[w] = query(w)
BY DEF Translations, Now

\* Without a write they stay.
LEMMA TranslationsKept == UNCHANGED <<l1, l2>> => Translations' = Translations
<1> SUFFICES ASSUME UNCHANGED <<l1, l2>> PROVE Translations' = Translations
  OBVIOUS
<1>1. \A w \in VAddr : Now(w)' = Now(w)
  BY DEF Now, query, get_entry, EntryAt, Entry1, p1_index, p2_index
<1> QED
  BY <1>1 DEF Translations

\* What the invariant asks of a loop between its pages, or at its end...
LEMMA LoopNext ==
    ASSUME IsLoop(region'), region'.pc \in {"Loop", "Failed"}, RequestOK(region'),
           Progress(region'), flusher'.kind # "Closed", Idle',
           PrefixOf(Translations', region', region'.vaddr)
    PROVE  LoopInv'
<1>1. PrefixOf(Translations, region, region.vaddr)'
  BY PrefixNext
<1>2. IsLoop(region)' /\ RequestOK(region)' /\ Progress(region)'
  BY DEF IsLoop, RequestOK, Progress, Aligned, PageBytes, PagesInUse
<1> QED
  BY <1>1, <1>2 DEF LoopInv

\* ... of one that panicked...
LEMMA PanickedNext ==
    ASSUME IsLoop(region'), region'.pc = "Panicked", RequestOK(region'),
           Progress(region'), flusher'.kind # "Closed", Idle'
    PROVE  LoopInv'
<1>1. IsLoop(region)' /\ RequestOK(region)' /\ Progress(region)'
  BY DEF IsLoop, RequestOK, Progress, Aligned, PageBytes, PagesInUse
<1> QED
  BY <1>1 DEF LoopInv

\* ... and of none.
LEMMA NoLoopNext == region' = NoRegion /\ Idle' => LoopInv'
<1> SUFFICES ASSUME region' = NoRegion, Idle' PROVE LoopInv'
  OBVIOUS
<1>1. region'.pc = "None"
  BY DEF NoRegion
<1>2. IsLoop(region)'
  BY DEF IsLoop, NoRegion
<1> QED
  BY <1>1, <1>2 DEF LoopInv

\* The steps of the table keep the invariants of the table.
LEMMA TableStep == RegionInv /\ [Next]_vars => IInv' /\ PagesInv'
BY NextStep, PagesStep DEF RegionInv

\* An operation other than map ends in its only step.
LEMMA BeginIdle ==
    ASSUME Idle,
           \/ TryNew \/ TryNewFails \/ OpenCursor \/ Drop
           \/ \E v \in VAddr, p \in Target, f \in Flags : Remap(v, p, f)
           \/ \E v \in VAddr, f \in Flags : Protect(v, f)
           \/ \E v \in VAddr : Unmap(v)
           \/ \E op \in {"flush", "drop"} : Flush(op)
           \/ \E r \in CopyRange : CopyFrom(r[1], r[2])
           \/ UNCHANGED vars
    PROVE  Idle'
<1> SUFFICES call' = call \/ call' = NoCall
  BY DEF Idle, NoCall
<1>1. CASE TryNew \/ TryNewFails \/ OpenCursor \/ Drop \/ UNCHANGED vars
  BY <1>1 DEF TryNew, TryNewFails, OpenCursor, Drop, Fail, vars
<1>2. CASE \E v \in VAddr, p \in Target, f \in Flags : Remap(v, p, f)
  BY <1>2 DEF Remap, Fail, Succeed
<1>3. CASE \E v \in VAddr, f \in Flags : Protect(v, f)
  BY <1>3 DEF Protect, Fail, Succeed
<1>4. CASE \E v \in VAddr : Unmap(v)
  BY <1>4 DEF Unmap, Fail, Succeed
<1>5. CASE \/ \E op \in {"flush", "drop"} : Flush(op)
           \/ \E r \in CopyRange : CopyFrom(r[1], r[2])
  BY <1>5 DEF Flush, CopyFrom
<1> QED
  BY <1>1, <1>2, <1>3, <1>4, <1>5

\* A loop begins.
LEMMA StartStep ==
    ASSUME RegionInv, NEW pc \in {"Loop", "Failed"}, NEW op, NEW request,
           request.vaddr \in Nat, request.size \in Nat,
           Start(pc, op, request), RequestOK(region')
    PROVE  RegionInv'
<1>1. IInv' /\ PagesInv'
  BY TableStep DEF Start
<1>2. /\ IsLoop(region') /\ region'.pc = pc /\ region'.request = request
      /\ region'.vaddr = request.vaddr /\ region'.size = request.size
      /\ \A v \in VAddr : region'.before[v] = query(v)
  BY DEF Start, IsLoop
<1>3. Progress(region')
  <2>1. 0 * PAGE_SIZE_4K = 0 /\ 0 \in 0 .. request.size
    BY CountAssumption
  <2> QED
    BY <1>2, <2>1 DEF Progress
<1>4. /\ Idle' /\ flusher'.kind # "Closed" /\ UNCHANGED <<l1, l2>>
      /\ l1 # NoTable
  BY DEF Start, CursorIdle, Idle, vars, RegionInv, IInv, CursorInv
<1>5. Translations' = Translations /\ \A w \in VAddr : Translations[w] = query(w)
  BY <1>4, TranslationsKept, TranslationsOf
<1>6. PrefixOf(Translations', region', region'.vaddr)
  <2>1. \A v \in VAddr : ~(region'.request.vaddr <= v /\ v < region'.vaddr)
    BY <1>2, CountAssumption
  <2> QED
    BY <1>2, <1>5, <2>1 DEF PrefixOf
<1>7. LoopInv'
  BY <1>2, <1>3, <1>4, <1>6, LoopNext
<1> QED
  BY <1>1, <1>7 DEF RegionInv

\* The three operations begin.
LEMMA RegionBeginStep == RegionInv /\ RegionBegin => RegionInv'
<1> SUFFICES ASSUME RegionInv, RegionBegin PROVE RegionInv'
  OBVIOUS
<1>1. ASSUME NEW r \in MapRequest, MapRegion(r) PROVE RegionInv'
  <2> DEFINE pc == IF Aligned(r.vaddr, Size4K) /\ Aligned(r.size, Size4K)
                   THEN "Loop" ELSE "Failed"
  <2>1. r.vaddr \in Nat /\ r.size \in Nat /\ PagesInUse(r.vaddr, r.size)
    BY RegionAssumption
  <2>2. Start(pc, "map", r)
    BY <1>1 DEF MapRegion
  <2>3. pc \in {"Loop", "Failed"}
    OBVIOUS
  <2>4. RequestOK(region')
    BY <2>1, <2>2 DEF RequestOK, Start
  <2> HIDE DEF pc
  <2> QED
    BY <2>1, <2>2, <2>3, <2>4, StartStep
<1>2. ASSUME NEW r \in Region, NEW f \in Flags \cup {{}}, NEW op \in {"unmap", "protect"},
             op = "protect" => f \in Flags, Start("Loop", op, Request(r, f))
      PROVE  RegionInv'
  <2>1. r[1] \in Nat /\ r[2] \in Nat /\ PagesInUse(r[1], r[2])
    BY RegionAssumption
  <2>2. /\ Request(r, f).vaddr = r[1] /\ Request(r, f).size = r[2]
        /\ Request(r, f).flags = f
    BY DEF Request, NoRequest
  <2>3. RequestOK(region')
    BY <1>2, <2>1, <2>2 DEF RequestOK, Start
  <2> QED
    BY <1>2, <2>1, <2>2, <2>3, StartStep
<1>3. ASSUME NEW r \in Region, UnmapRegion(r) PROVE RegionInv'
  BY <1>2, <1>3 DEF UnmapRegion
<1>4. ASSUME NEW r \in Region, NEW f \in Protection, ProtectRegion(r, f) PROVE RegionInv'
  <2>1. f \in Flags
    BY RegionAssumption
  <2> QED
    BY <1>2, <1>4, <2>1 DEF ProtectRegion
<1> QED
  BY <1>1, <1>3, <1>4 DEF RegionBegin

\* Between two loops the table goes its own way.
LEMMA BetweenStep == RegionInv /\ Between => RegionInv'
<1> SUFFICES ASSUME RegionInv, Between PROVE RegionInv'
  OBVIOUS
<1>1. region = NoRegion /\ region' = NoRegion /\ Idle
  BY DEF Between, RegionInv, LoopInv, NoRegion
<1>2. Protection \subseteq Flags
  BY RegionAssumption
<1>3. Next /\ Idle'
  <2>1. Idle'
    BY <1>1, <1>2, BeginIdle DEF Between
  <2>2. Begin
    BY <1>2 DEF Between, Begin
  <2> QED
    BY <2>1, <2>2 DEF Next
<1> QED
  BY <1>1, <1>3, TableStep, NoLoopNext DEF RegionInv
---------------------------------------------------------------------------
(* map_region *)

\* The size chosen for the next page fits.
LEMMA ChosenSize ==
    ASSUME RegionInv, region.pc = "Loop", region.op = "map", region.size > 0
    PROVE  Chosen(page_size(region.request.get_paddr[region.vaddr]))
<1> DEFINE paddr == region.request.get_paddr[region.vaddr]
           Usable == /\ region.request.allow_huge
                     /\ Aligned(region.vaddr, Size1M)
                     /\ align_down(paddr, Size1M) = paddr
                     /\ region.size >= PageBytes(Size1M)
<1>1. Aligned(region.vaddr, Size4K) /\ PageBytes(Size4K) <= region.size
  BY SmallPageFits DEF RegionInv, LoopInv, RequestOK
<1>2. Chosen(Size4K)
  BY <1>1 DEF Chosen, Fits, PageSize
<1>3. ASSUME Usable PROVE Chosen(Size1M)
  <2>1. PageBytes(Size1M) <= region.size
    BY <1>3, PageMultiple DEF RegionInv, LoopInv, Progress, PageSize
  <2> QED
    BY <1>3, <2>1 DEF Chosen, Fits, PageSize
<1>4. page_size(paddr) = IF Usable THEN Size1M ELSE Size4K
  BY DEF page_size
<1> HIDE DEF Usable
<1> QED
  BY <1>2, <1>3, <1>4

\* map is called for the next page as callers call it.
LEMMA NextPageMapped ==
    ASSUME RegionInv, MapRegionPage
    PROVE  LET v == region.vaddr
               paddr == region.request.get_paddr[v]
           IN  /\ v \in VAddr /\ paddr \in Target /\ region.request.flags \in Flags
               /\ Chosen(page_size(paddr)) /\ page_size(paddr) \in PageSize
               /\ Map(v, paddr, page_size(paddr), region.request.flags)
<1> DEFINE v == region.vaddr
           paddr == region.request.get_paddr[v]
<1>1. /\ region.pc = "Loop" /\ region.op = "map" /\ region.size > 0
      /\ Map(v, paddr, page_size(paddr), region.request.flags)
  BY DEF MapRegionPage, Looping
<1>2. RequestOK(region) /\ Progress(region)
  BY <1>1 DEF RegionInv, LoopInv
<1>3. v \in VAddr
  BY <1>1, <1>2, NextInUse
<1>4. Chosen(page_size(paddr))
  BY <1>1, ChosenSize
<1>5. paddr \in Target /\ region.request.flags \in Flags
  BY <1>1, <1>2, <1>3, RegionAssumption DEF RequestOK
<1> QED
  BY <1>1, <1>3, <1>4, <1>5 DEF Chosen

\* From then on the map of that page runs.
LEMMA MapRegionPageStep == RegionInv /\ MapRegionPage => LoopInv'
<1> SUFFICES ASSUME RegionInv, MapRegionPage PROVE LoopInv'
  OBVIOUS
<1> DEFINE v == region.vaddr
           request == region.request
           paddr == request.get_paddr[v]
           s == page_size(paddr)
<1>1. /\ region.pc = "Loop" /\ region.op = "map" /\ region' = Stop("Mapping")
      /\ Map(v, paddr, s, request.flags) /\ v \in VAddr /\ Chosen(s)
  BY NextPageMapped DEF MapRegionPage, Looping
<1>2. /\ IsLoop(region) /\ RequestOK(region) /\ Progress(region)
      /\ PrefixOf(Translations, region, v)
  BY <1>1 DEF RegionInv, LoopInv
<1>3. /\ IsLoop(region') /\ SameLoop(region, region') /\ region'.pc = "Mapping"
      /\ region'.vaddr = v /\ region'.size = region.size
  BY <1>1, <1>2, Stopped
<1> HIDE DEF s, paddr
<1>4. /\ call'.pc = "Map" /\ call'.vaddr = v
      /\ call'.target = paddr /\ call'.size = s /\ call'.flags = request.flags
      /\ UNCHANGED <<l1, l2, flusher>> /\ flusher.kind # "Closed"
  BY <1>1 DEF Map, CursorIdle
<1>5. RequestOK(region') /\ Progress(region')
  BY <1>1, <1>2, <1>3, RequestKept, ProgressKept
<1>6. PrefixOf(Translations, region, region.vaddr)'
  <2>1. \A w \in VAddr : Translations'[w] = Translations[w]
    BY <1>4, TranslationsKept
  <2>2. PrefixOf(Translations', region', region'.vaddr)
    BY <1>2, <1>3, <2>1, PrefixKept
  <2> QED
    BY <2>2, PrefixNext
<1>7. Chosen(call.size)'
  BY <1>1, <1>3, <1>4 DEF Chosen, Fits, Aligned, PageBytes, SameLoop, paddr
<1>8. MapRuns'
  BY <1>1, <1>3, <1>4, <1>6, <1>7 DEF MapRuns, SameLoop, paddr
<1>9. IsLoop(region)' /\ RequestOK(region)' /\ Progress(region)' /\ ~Idle' /\ region'.op = "map"
  BY <1>1, <1>3, <1>4, <1>5
     DEF IsLoop, RequestOK, Progress, Aligned, PageBytes, PagesInUse, Idle, SameLoop
<1> QED
  BY <1>3, <1>4, <1>8, <1>9 DEF LoopInv

\* What the invariant asks of a map in progress or just returned.
LEMMA MappingNext ==
    ASSUME LoopInv, region.pc = "Mapping", UNCHANGED region,
           flusher'.kind # "Closed", IF Idle' THEN MapReturned' ELSE MapRuns'
    PROVE  LoopInv'
<1>1. RequestOK(region)' /\ Progress(region)' /\ IsLoop(region)'
  BY DEF LoopInv, RequestOK, Progress, IsLoop, Aligned, PageBytes, PagesInUse
<1> QED
  BY <1>1 DEF LoopInv

\* What a step of map before its last does to the loop: nothing.
LEMMA MapGoesOn ==
    ASSUME LoopInv, region.pc = "Mapping", MapRuns, UNCHANGED <<region, flusher, call>>,
           call.pc = "Map", \A w \in VAddr : Translations'[w] = Translations[w]
    PROVE  LoopInv'
<1>1. flusher'.kind # "Closed" /\ ~Idle'
  BY DEF LoopInv, Idle
<1>2. PrefixOf(Translations, region, region.vaddr)'
  <2>1. SameLoop(region, region') /\ region'.vaddr = region.vaddr
    BY DEF SameLoop
  <2>2. PrefixOf(Translations', region', region'.vaddr)
    BY <2>1, PrefixKept DEF MapRuns
  <2> QED
    BY <2>2, PrefixNext
<1>3. Chosen(call.size)'
  BY DEF MapRuns, Chosen, Fits, Aligned, PageBytes
<1>4. MapRuns'
  BY <1>2, <1>3 DEF MapRuns
<1> QED
  BY <1>1, <1>4, MappingNext

\* A map that fails leaves the loop where it is.
LEMMA MapGivesUp ==
    ASSUME LoopInv, region.pc = "Mapping", MapRuns, UNCHANGED region,
           NEW err \in {"NoMemory", "AlreadyMapped"}, Fail("map", call.vaddr, err)
    PROVE  LoopInv'
<1>1. /\ UNCHANGED <<l1, l2, flusher>> /\ ret'.err # "Ok" /\ Idle'
  BY DEF Fail, Ret, NoCall, Idle
<1>2. flusher'.kind # "Closed"
  BY <1>1 DEF LoopInv
<1>3. PrefixOf(Translations, region, region.vaddr)'
  <2>1. SameLoop(region, region') /\ region'.vaddr = region.vaddr
    BY DEF SameLoop
  <2>2. \A w \in VAddr : Translations'[w] = Translations[w]
    BY <1>1, TranslationsKept
  <2>3. PrefixOf(Translations', region', region'.vaddr)
    BY <2>1, <2>2, PrefixKept DEF MapRuns
  <2> QED
    BY <2>3, PrefixNext
<1>4. MapReturned'
  BY <1>1, <1>3 DEF MapReturned
<1> QED
  BY <1>1, <1>2, <1>4, MappingNext

\* push closes no cursor.
LEMMA PushOpen ==
    ASSUME NEW fl, NEW v, fl.kind # "Closed"
    PROVE  push(fl, v).kind # "Closed"
BY DEF push, Flusher

\* A map that succeeds extends the work by its page.
LEMMA MapSucceeds ==
    ASSUME RegionInv, region.pc = "Mapping", MapRuns, UNCHANGED region, MapPage
    PROVE  LoopInv'
<1> DEFINE v == region.vaddr
           s == call.size
           request == region.request
           e == pte_new_page(call.target, call.flags, s = Size1M)
           page == Page(e, s)
<1>1. /\ Blocks(Translations, Translations', v, s, Unmapped, page)
      /\ s \in PageSize /\ v \in VAddr /\ call.target \in Target /\ call.flags \in Flags
  BY MapPageWrites DEF RegionInv, MapRuns
<1>2. /\ flusher' = push(flusher, call.vaddr) /\ Idle'
      /\ ret'.err = "Ok" /\ ret'.out.size = s
  BY DEF MapPage, Succeed, NoCall, Idle, Ret
<1>3. flusher'.kind # "Closed"
  BY <1>2, PushOpen DEF RegionInv, LoopInv
<1>4. /\ region.op = "map" /\ request \in MapRequest /\ Progress(region)
      /\ call.target = request.get_paddr[v] /\ call.flags = request.flags
      /\ Fits(s) /\ PrefixOf(Translations, region, v)
      /\ s = Size4K \/ (request.allow_huge /\ align_down(call.target, s) = call.target)
  BY DEF RegionInv, LoopInv, RequestOK, MapRuns, Chosen
<1>5. Aligned(v, s)
  BY <1>4 DEF Fits
<1>6. ASSUME NEW w \in VAddr, SameBlock(v, w, s) PROVE Wanted(region, w, page)
  <2>1. align_down(request.get_paddr[w], s) = align_down(call.target, s)
    <3>1. Contiguous(request)
      BY <1>4, RegionAssumption
    <3>2. w \div PageBytes(s) = v \div PageBytes(s)
      BY <1>6 DEF SameBlock
    <3> HIDE DEF v, s
    <3> QED
      BY <1>1, <1>4, <1>5, <3>1, <3>2 DEF Contiguous
  <2>2. pte_paddr(e) = align_down(call.target, s) /\ Written[s][e] = {call.flags}
    <3>1. s \in PageSize /\ call.target \in Target /\ call.flags \in Flags
      BY <1>1
    <3> HIDE DEF s
    <3>2. pte_paddr(e) = align_down(call.target, s)
      BY <3>1, PageRead
    <3>3. Written[s][e] = {call.flags}
      BY <3>1, PageRead
    <3> QED
      BY <3>2, <3>3
  <2>3. page # Unmapped
    BY <1>1, PageShown
  <2> HIDE DEF e
  <2>4. page.size = s /\ page.entry = e /\ page.paddr = pte_paddr(e)
    BY DEF Page
  <2> HIDE DEF page
  <2> QED
    BY <1>4, <2>1, <2>2, <2>3, <2>4 DEF Wanted
<1>7. PrefixOf(Translations', region, v + PageBytes(s))
  <2>1. SameLoop(region, region)
    BY DEF SameLoop
  <2> HIDE DEF page, s
  <2> QED
    BY <1>1, <1>4, <1>5, <1>6, <2>1, PrefixGrows
<1>8. MapReturned'
  <2>1. PrefixOf(Translations, region, region.vaddr + PageBytes(ret.out.size))'
    BY <1>2, <1>7, PrefixNext
  <2>2. Fits(ret.out.size)'
    BY <1>2, <1>4 DEF Fits, Aligned, PageBytes
  <2> QED
    BY <1>1, <1>2, <2>1, <2>2 DEF MapReturned
<1> QED
  BY <1>2, <1>3, <1>8, MappingNext DEF RegionInv

\* The map of a page goes on.
LEMMA MapContinueStep == RegionInv /\ Continue /\ UNCHANGED region => LoopInv'
<1> SUFFICES ASSUME RegionInv, Continue, UNCHANGED region PROVE LoopInv'
  OBVIOUS
<1>1. call.pc = "Map" /\ ~Idle
  BY DEF Continue, MapCreate, MapNoMemory, MapInSection, MapPage, MapOccupied, AtEntry,
         Mapping, Idle
<1>2. region.pc = "Mapping" /\ MapRuns /\ LoopInv
  BY <1>1 DEF RegionInv, LoopInv
<1>3. ASSUME NEW f \in Frame, MapCreate(f) PROVE LoopInv'
  <2>1. \A w \in VAddr : Translations'[w] = Translations[w]
    BY <1>3, MapCreateShown DEF RegionInv, Translations
  <2>2. UNCHANGED <<flusher, call>>
    BY <1>3 DEF MapCreate
  <2> QED
    BY <1>1, <1>2, <2>1, <2>2, MapGoesOn
<1>4. CASE MapNoMemory \/ MapInSection \/ MapOccupied
  BY <1>2, <1>4, MapGivesUp DEF MapNoMemory, MapInSection, MapOccupied
<1>5. CASE MapPage
  BY <1>2, <1>5, MapSucceeds
<1> QED
  BY <1>3, <1>4, <1>5 DEF Continue

\* The loop takes note of what map returned.
LEMMA MapRegionNextStep == RegionInv /\ MapRegionNext => LoopInv'
<1> SUFFICES ASSUME RegionInv, MapRegionNext PROVE LoopInv'
  OBVIOUS
<1>1. /\ region.pc = "Mapping" /\ Idle /\ UNCHANGED vars
      /\ region' = IF ret.err = "Ok" THEN Passed(ret.out.size) ELSE Stop("Failed")
  BY DEF MapRegionNext
<1>2. /\ IsLoop(region) /\ RequestOK(region) /\ Progress(region) /\ region.op = "map"
      /\ flusher.kind # "Closed" /\ MapReturned
  BY <1>1 DEF RegionInv, LoopInv
<1>3. flusher'.kind # "Closed" /\ Idle' /\ UNCHANGED <<l1, l2>>
  BY <1>1, <1>2 DEF vars, Idle
<1>4. \A w \in VAddr : Translations'[w] = Translations[w]
  BY <1>3, TranslationsKept
<1>5. CASE ret.err = "Ok"
  <2> DEFINE s == ret.out.size
  <2>1. s \in PageSize /\ Fits(s) /\ PrefixOf(Translations, region, region.vaddr + PageBytes(s))
    BY <1>2, <1>5 DEF MapReturned
  <2>2. /\ IsLoop(region') /\ SameLoop(region, region') /\ region'.pc = "Loop"
        /\ region'.vaddr = region.vaddr + PageBytes(s)
        /\ region'.size = region.size - PageBytes(s)
    BY <1>1, <1>2, <1>5, PassedPage
  <2> HIDE DEF s
  <2>3. Progress(region')
    BY <1>2, <2>1, <2>2, ProgressMade DEF Fits, SameLoop
  <2>4. RequestOK(region')
    BY <1>1, <1>2, <2>2, RequestKept
  <2>5. PrefixOf(Translations', region', region'.vaddr)
    BY <1>4, <2>1, <2>2, PrefixKept
  <2> QED
    BY <1>3, <2>2, <2>3, <2>4, <2>5, LoopNext
<1>6. CASE ret.err # "Ok"
  <2>1. /\ IsLoop(region') /\ SameLoop(region, region') /\ region'.pc = "Failed"
        /\ region'.vaddr = region.vaddr /\ region'.size = region.size
    BY <1>1, <1>2, <1>6, Stopped
  <2>2. Progress(region') /\ RequestOK(region')
    BY <1>1, <1>2, <2>1, RequestKept, ProgressKept
  <2>3. PrefixOf(Translations, region, region.vaddr)
    BY <1>2, <1>6 DEF MapReturned
  <2>4. PrefixOf(Translations', region', region'.vaddr)
    BY <1>4, <2>1, <2>3, PrefixKept
  <2> QED
    BY <1>3, <2>1, <2>2, <2>4, LoopNext
<1> QED
  BY <1>5, <1>6
---------------------------------------------------------------------------
(* unmap_region and protect_region *)

\* What both loops do with a page: it is passed, or the assertions fail.
LEMMA PageStep ==
    ASSUME RegionInv, region.pc = "Loop", NEW s \in PageSize, NEW old, NEW new,
           region' = PassedIfFits(s),
           Blocks(Translations, Translations', region.vaddr, s, old, new),
           region.vaddr \in VAddr,
           \A w \in VAddr :
               SameBlock(region.vaddr, w, s) /\ region.before[w] = old
                   => Wanted(region, w, new),
           Idle', flusher'.kind # "Closed"
    PROVE  LoopInv'
<1>1. /\ IsLoop(region) /\ RequestOK(region) /\ Progress(region)
      /\ PrefixOf(Translations, region, region.vaddr)
  BY DEF RegionInv, LoopInv
<1>2. CASE Fits(s)
  <2>1. /\ IsLoop(region') /\ SameLoop(region, region') /\ region'.pc = "Loop"
        /\ region'.vaddr = region.vaddr + PageBytes(s)
        /\ region'.size = region.size - PageBytes(s)
    BY <1>1, <1>2, PassedPage DEF PassedIfFits
  <2>2. Progress(region')
    BY <1>1, <1>2, <2>1, ProgressMade DEF Fits, SameLoop
  <2>3. RequestOK(region')
    BY <1>1, <2>1, RequestKept
  <2>4. PrefixOf(Translations', region', region'.vaddr)
    BY <1>1, <1>2, <2>1, PrefixGrows DEF Fits
  <2> QED
    BY <2>1, <2>2, <2>3, <2>4, LoopNext
<1>3. CASE ~Fits(s)
  <2>1. /\ IsLoop(region') /\ SameLoop(region, region') /\ region'.pc = "Panicked"
        /\ region'.vaddr = region.vaddr /\ region'.size = region.size
    BY <1>1, <1>3, Stopped DEF PassedIfFits
  <2>2. Progress(region') /\ RequestOK(region')
    BY <1>1, <2>1, RequestKept, ProgressKept
  <2> QED
    BY <2>1, <2>2, PanickedNext
<1> QED
  BY <1>2, <1>3

\* unmap_region clears the next page, or stops at a hole.
LEMMA UnmapRegionPageStep == RegionInv /\ UnmapRegionPage => LoopInv'
<1> SUFFICES ASSUME RegionInv, UnmapRegionPage PROVE LoopInv'
  OBVIOUS
<1> DEFINE v == region.vaddr
<1>1. /\ region.pc = "Loop" /\ region.op = "unmap" /\ region.size > 0 /\ Unmap(v)
      /\ region' = IF ret'.err = "Ok" THEN PassedIfFits(ret'.out.size) ELSE Stop("Failed")
  BY DEF UnmapRegionPage, Looping
<1>2. /\ IInv /\ PagesInv /\ IsLoop(region) /\ RequestOK(region) /\ Progress(region)
      /\ flusher.kind # "Closed" /\ PrefixOf(Translations, region, v)
  BY <1>1 DEF RegionInv, LoopInv
<1>3. v \in VAddr
  BY <1>1, <1>2, NextInUse
<1>4. CASE query(v) # Unmapped
  <2>1. /\ ret' = Ret("unmap", v, "Ok", query(v)) /\ flusher' = push(flusher, v) /\ Idle'
    BY <1>1, <1>4 DEF Unmap, Succeed, Idle, NoCall
  <2>2. flusher'.kind # "Closed"
    BY <1>2, <2>1, PushOpen
  <2>3. PICK p \in Target, g \in Flags, size \in PageSize :
          LET old == Page(pte_new_page(p, g, size = Size1M), size)
          IN  /\ query(v) = old /\ PagesInv'
              /\ Blocks(Translations, Translations', v, size, old, Unmapped)
    BY <1>1, <1>2, <1>3, <1>4, UnmapWrites
  <2> DEFINE old == Page(pte_new_page(p, g, size = Size1M), size)
  <2>4. query(v) = old /\ Blocks(Translations, Translations', v, size, old, Unmapped)
    BY <2>3
  <2>5. old.size = size
    BY DEF Page
  <2> HIDE DEF old
  <2>6. region' = PassedIfFits(size)
    BY <1>1, <2>1, <2>4, <2>5 DEF Ret
  <2>7. \A w \in VAddr : Wanted(region, w, Unmapped)
    BY <1>1 DEF Wanted
  <2> QED
    BY <1>1, <1>3, <2>1, <2>2, <2>4, <2>6, <2>7, PageStep
<1>5. CASE query(v) = Unmapped
  <2>1. Fail("unmap", v, "NotMapped")
    BY <1>1, <1>5 DEF Unmap
  <2>2. UNCHANGED <<l1, l2, flusher>> /\ Idle' /\ region' = Stop("Failed")
    BY <1>1, <2>1 DEF Fail, Ret, Idle, NoCall
  <2>3. /\ IsLoop(region') /\ SameLoop(region, region') /\ region'.pc = "Failed"
        /\ region'.vaddr = region.vaddr /\ region'.size = region.size
    BY <1>2, <2>2, Stopped
  <2>4. Progress(region') /\ RequestOK(region')
    BY <1>1, <1>2, <2>3, RequestKept, ProgressKept
  <2>5. PrefixOf(Translations', region', region'.vaddr)
    <3>1. \A w \in VAddr : Translations'[w] = Translations[w]
      BY <2>2, TranslationsKept
    <3> QED
      BY <1>2, <2>3, <3>1, PrefixKept
  <2>6. flusher'.kind # "Closed"
    BY <1>2, <2>2
  <2> QED
    BY <2>2, <2>3, <2>4, <2>5, <2>6, LoopNext
<1> QED
  BY <1>4, <1>5

\* protect_region writes the page that protect would write.
LEMMA ProtectRegionWrites ==
    ASSUME RegionInv, ProtectRegionPage
    PROVE  LET v == region.vaddr
               f == region.request.flags
           IN  /\ v \in VAddr /\ f \in Flags /\ Protect(v, f)
               /\ \E p \in Target, g \in Flags, size \in PageSize :
                     LET old == Page(pte_new_page(p, g, size = Size1M), size)
                         new == Page(pte_new_page(p, f, size = Size1M), size)
                     IN  /\ query(v) = old /\ region' = PassedIfFits(size)
                         /\ Blocks(Translations, Translations', v, size, old, new)
<1> DEFINE v == region.vaddr
           f == region.request.flags
<1>1. /\ region.pc = "Loop" /\ region.op = "protect" /\ region.size > 0
      /\ query(v) # Unmapped
      /\ SetEntry(v, query(v).size,
                  pte_set_flags(query(v).entry, f, query(v).size = Size1M))
      /\ Succeed("protect", v, [size |-> query(v).size])
      /\ region' = PassedIfFits(query(v).size)
  BY DEF ProtectRegionPage, Looping
<1>2. IInv /\ PagesInv /\ RequestOK(region) /\ Progress(region) /\ CursorIdle
  BY <1>1 DEF RegionInv, LoopInv, CursorIdle
<1>3. v \in VAddr /\ f \in Flags
  BY <1>1, <1>2, NextInUse DEF RequestOK
<1>4. UNCHANGED borrowed_entries
  BY <1>1 DEF Succeed
<1> HIDE DEF v, f
<1>5. PICK p \in Target, g \in Flags, size \in PageSize :
        LET old == Page(pte_new_page(p, g, size = Size1M), size)
            new == Page(pte_new_page(p, f, size = Size1M), size)
        IN  /\ query(v) = old /\ PagesInv'
            /\ SetEntry(v, size, new.entry)
            /\ pte_new_page(old.paddr, f, size = Size1M) = new.entry
            /\ Blocks(Translations, Translations', v, size, old, new)
  BY <1>1, <1>2, <1>3, <1>4, ProtectWrites
<1> DEFINE old == Page(pte_new_page(p, g, size = Size1M), size)
           new == Page(pte_new_page(p, f, size = Size1M), size)
<1>6. /\ query(v) = old /\ old.size = size
      /\ SetEntry(v, size, new.entry)
      /\ pte_new_page(old.paddr, f, size = Size1M) = new.entry
      /\ Blocks(Translations, Translations', v, size, old, new)
  BY <1>5 DEF Page
<1> HIDE DEF old, new
<1>7. Protect(v, f)
  BY <1>1, <1>2, <1>6 DEF Protect
<1>8. region' = PassedIfFits(size)
  BY <1>1, <1>6
<1>9. query(v) = old /\ region' = PassedIfFits(size)
      /\ Blocks(Translations, Translations', v, size, old, new)
  BY <1>6, <1>8
<1> QED
  BY <1>3, <1>7, <1>9 DEF v, f, old, new

\* protect_region changes the flags of the next page...
LEMMA ProtectRegionPageStep == RegionInv /\ ProtectRegionPage => LoopInv'
<1> SUFFICES ASSUME RegionInv, ProtectRegionPage PROVE LoopInv'
  OBVIOUS
<1> DEFINE v == region.vaddr
           f == region.request.flags
<1>1. region.pc = "Loop" /\ region.op = "protect" /\ Idle' /\ flusher' = push(flusher, v)
  BY DEF ProtectRegionPage, Looping, Succeed, Idle, NoCall
<1>2. flusher'.kind # "Closed"
  BY <1>1, PushOpen DEF RegionInv, LoopInv
<1>3. v \in VAddr /\ f \in Flags
  BY ProtectRegionWrites
<1>4. PICK p \in Target, g \in Flags, size \in PageSize :
        LET old == Page(pte_new_page(p, g, size = Size1M), size)
            new == Page(pte_new_page(p, f, size = Size1M), size)
        IN  /\ query(v) = old /\ region' = PassedIfFits(size)
            /\ Blocks(Translations, Translations', v, size, old, new)
  BY ProtectRegionWrites
<1> DEFINE old == Page(pte_new_page(p, g, size = Size1M), size)
           new == Page(pte_new_page(p, f, size = Size1M), size)
<1>5. region' = PassedIfFits(size) /\ Blocks(Translations, Translations', v, size, old, new)
  BY <1>4
<1>6. /\ old # Unmapped
      /\ ViewPage(old) = [paddr |-> align_down(p, size), flags |-> {g}, size |-> size]
  BY PageShown
<1>7. ViewPage(new) = [paddr |-> align_down(p, size), flags |-> {f}, size |-> size]
  BY <1>3, PageShown
<1> HIDE DEF old, new
<1>8. ViewPage(new) = [ViewPage(old) EXCEPT !.flags = {f}]
  BY <1>6, <1>7
<1>9. \A w \in VAddr : region.before[w] = old => Wanted(region, w, new)
  BY <1>1, <1>6, <1>8 DEF Wanted
<1> QED
  BY <1>1, <1>2, <1>3, <1>5, <1>9, PageStep

\* ... or passes a hole.
LEMMA ProtectRegionHoleStep == RegionInv /\ ProtectRegionHole => LoopInv'
<1> SUFFICES ASSUME RegionInv, ProtectRegionHole PROVE LoopInv'
  OBVIOUS
<1> DEFINE v == region.vaddr
<1>1. /\ region.pc = "Loop" /\ region.op = "protect" /\ region.size > 0
      /\ query(v) = Unmapped /\ region' = PassedIfFits(Size4K) /\ UNCHANGED vars
  BY DEF ProtectRegionHole, Looping
<1>2. /\ RequestOK(region) /\ Progress(region) /\ Idle /\ flusher.kind # "Closed"
      /\ l1 # NoTable
  BY <1>1 DEF RegionInv, LoopInv, IInv, CursorInv
<1>3. v \in VAddr
  BY <1>1, <1>2, NextInUse
<1>4. Idle' /\ flusher'.kind # "Closed" /\ UNCHANGED <<l1, l2>>
  BY <1>1, <1>2 DEF vars, Idle
<1>5. Blocks(Translations, Translations', v, Size4K, Unmapped, Unmapped)
  <2>1. Translations' = Translations /\ \A w \in VAddr : Translations[w] = Now(w)
    BY <1>4, TranslationsKept DEF Translations
  <2>2. Now(v) = Unmapped
    BY <1>1, <1>2 DEF Now
  <2>3. \A w \in VAddr : SameBlock(v, w, Size4K) => Now(w) = Unmapped
    BY <1>2, <1>3, <2>2, SmallBlock
  <2> QED
    BY <2>1, <2>3 DEF Blocks
<1>6. \A w \in VAddr : region.before[w] = Unmapped => Wanted(region, w, Unmapped)
  BY <1>1 DEF Wanted
<1>7. Size4K \in PageSize
  BY DEF PageSize
<1> QED
  BY <1>1, <1>3, <1>4, <1>5, <1>6, <1>7, PageStep
---------------------------------------------------------------------------
(* The loops and the table *)

\* The loops change the table by its own operations only.
LEMMA LoopsUseTable == RegionInv /\ [RegionNext]_regionVars => [Next]_vars
<1> SUFFICES ASSUME RegionInv, [RegionNext]_regionVars PROVE [Next]_vars
  OBVIOUS
<1>1. CASE RegionBegin
  BY <1>1 DEF RegionBegin, MapRegion, UnmapRegion, ProtectRegion, Start
<1>2. CASE Between
  <2>1. Protection \subseteq Flags
    BY RegionAssumption
  <2> QED
    BY <1>2, <2>1 DEF Between, Next, Begin
<1>3. CASE MapRegionPage
  BY <1>3, NextPageMapped DEF Next, Begin
<1>4. CASE UnmapRegionPage
  <2>1. region.pc = "Loop" /\ region.size > 0 /\ Unmap(region.vaddr)
    BY <1>4 DEF UnmapRegionPage, Looping
  <2>2. region.vaddr \in VAddr
    BY <2>1, NextInUse DEF RegionInv, LoopInv
  <2> QED
    BY <2>1, <2>2 DEF Next, Begin
<1>5. CASE ProtectRegionPage
  BY <1>5, ProtectRegionWrites DEF Next, Begin
<1>6. CASE MapRegionNext \/ ProtectRegionHole \/ RegionReturn
  BY <1>6 DEF MapRegionNext, ProtectRegionHole, RegionReturn
<1>7. CASE Continue /\ UNCHANGED region
  BY <1>7 DEF Next
<1>8. CASE UNCHANGED regionVars
  BY <1>8 DEF regionVars, vars
<1> QED
  BY <1>1, <1>2, <1>3, <1>4, <1>5, <1>6, <1>7, <1>8 DEF RegionNext, RegionContinue

\* A loop returns.
LEMMA RegionReturnStep == RegionInv /\ RegionReturn => LoopInv'
<1> SUFFICES ASSUME RegionInv, RegionReturn PROVE LoopInv'
  OBVIOUS
<1>1. region' = NoRegion /\ Idle'
  BY DEF RegionReturn, RegionInv, LoopInv, Idle, vars
<1> QED
  BY <1>1, NoLoopNext

\* Nothing happens.
LEMMA RegionStutter == RegionInv /\ UNCHANGED regionVars => LoopInv'
<1> SUFFICES ASSUME RegionInv, UNCHANGED regionVars PROVE LoopInv'
  OBVIOUS
<1>1. UNCHANGED <<l1, l2, flusher, call, ret, region>> /\ LoopInv
  BY DEF regionVars, RegionInv
<1>2. \A w \in VAddr : Translations'[w] = Translations[w]
  BY <1>1, TranslationsKept
<1>3. SameLoop(region, region') /\ region'.vaddr = region.vaddr
  BY <1>1 DEF SameLoop
<1>4. CASE region.pc = "None"
  BY <1>1, <1>4, NoLoopNext DEF LoopInv, Idle
<1>5. CASE region.pc \in {"Loop", "Failed"}
  <2>1. PrefixOf(Translations', region', region'.vaddr)
    BY <1>1, <1>2, <1>3, <1>5, PrefixKept DEF LoopInv
  <2>2. /\ IsLoop(region') /\ RequestOK(region') /\ Progress(region')
        /\ flusher'.kind # "Closed" /\ Idle'
    BY <1>1, <1>5 DEF LoopInv, Idle
  <2> QED
    BY <1>1, <1>5, <2>1, <2>2, LoopNext
<1>6. CASE region.pc = "Panicked"
  <2>1. /\ IsLoop(region') /\ RequestOK(region') /\ Progress(region')
        /\ flusher'.kind # "Closed" /\ Idle'
    BY <1>1, <1>6 DEF LoopInv, Idle
  <2> QED
    BY <1>1, <1>6, <2>1, PanickedNext
<1>7. CASE region.pc = "Mapping" /\ Idle
  <2>1. MapReturned /\ flusher'.kind # "Closed"
    BY <1>1, <1>7 DEF LoopInv
  <2>2. MapReturned'
    <3>1. CASE ret.err = "Ok"
      <4>1. PrefixOf(Translations', region', region'.vaddr + PageBytes(ret'.out.size))
        BY <1>1, <1>2, <1>3, <2>1, <3>1, PrefixKept DEF MapReturned
      <4>2. Fits(ret.out.size)'
        BY <1>1, <2>1, <3>1 DEF MapReturned, Fits, Aligned, PageBytes
      <4> QED
        BY <1>1, <2>1, <3>1, <4>1, <4>2, PrefixNext DEF MapReturned
    <3>2. CASE ret.err # "Ok"
      <4>1. PrefixOf(Translations', region', region'.vaddr)
        BY <1>1, <1>2, <1>3, <2>1, <3>2, PrefixKept DEF MapReturned
      <4> QED
        BY <1>1, <3>2, <4>1, PrefixNext DEF MapReturned
    <3> QED
      BY <3>1, <3>2
  <2> QED
    BY <1>1, <1>7, <2>1, <2>2, MappingNext DEF Idle
<1>8. CASE region.pc = "Mapping" /\ ~Idle
  <2>1. MapRuns /\ call.pc = "Map"
    BY <1>1, <1>8 DEF RegionInv, LoopInv, IInv, TypeOK, Idle
  <2> QED
    BY <1>1, <1>2, <1>8, <2>1, MapGoesOn
<1> QED
  BY <1>1, <1>4, <1>5, <1>6, <1>7, <1>8 DEF LoopInv

\* No loop has begun.
LEMMA RegionInitInv == RegionInit => RegionInv
<1> SUFFICES ASSUME RegionInit PROVE RegionInv
  OBVIOUS
<1>1. IInv /\ PagesInv
  BY InitStep, InitPages DEF RegionInit
<1>2. region = NoRegion /\ region.pc = "None" /\ IsLoop(region) /\ Idle
  BY DEF RegionInit, Init, NoRegion, IsLoop, Idle, NoCall
<1> QED
  BY <1>1, <1>2 DEF RegionInv, LoopInv

\* Every step keeps the invariant: one case per action.
LEMMA RegionStep == RegionInv /\ [RegionNext]_regionVars => RegionInv'
<1> SUFFICES ASSUME RegionInv, [RegionNext]_regionVars PROVE RegionInv'
  OBVIOUS
<1>1. IInv' /\ PagesInv'
  BY LoopsUseTable, TableStep
<1>2. LoopInv'
  <2>1. ASSUME RegionBegin \/ Between PROVE LoopInv'
    BY <2>1, RegionBeginStep, BetweenStep DEF RegionInv
  <2>2. ASSUME MapRegionPage \/ MapRegionNext \/ (Continue /\ UNCHANGED region) PROVE LoopInv'
    BY <2>2, MapRegionPageStep, MapRegionNextStep, MapContinueStep
  <2>3. ASSUME UnmapRegionPage \/ ProtectRegionPage \/ ProtectRegionHole PROVE LoopInv'
    BY <2>3, UnmapRegionPageStep, ProtectRegionPageStep, ProtectRegionHoleStep
  <2>4. ASSUME RegionReturn \/ UNCHANGED regionVars PROVE LoopInv'
    BY <2>4, RegionReturnStep, RegionStutter
  <2> QED
    BY <2>1, <2>2, <2>3, <2>4 DEF RegionNext, RegionContinue
<1> QED
  BY <1>1, <1>2 DEF RegionInv

\* The invariants of the table and of the loops hold of every behaviour.
THEOREM RegionInvariance == RegionSpec => []RegionInv
<1>1. RegionInit => RegionInv
  BY RegionInitInv
<1>2. RegionInv /\ [RegionNext]_regionVars => RegionInv'
  BY RegionStep
<1> QED
  BY <1>1, <1>2, PTL DEF RegionSpec

\* The region operations of the cursor do nothing to the table that the
\* operations on single pages could not have done: what is proved of those holds
\* of programs that use regions.
THEOREM RegionsUseTable == RegionSpec => Spec
<1>1. RegionInit => Init
  BY DEF RegionInit
<1>2. RegionInv /\ [RegionNext]_regionVars => [Next]_vars
  BY LoopsUseTable
<1> QED
  BY <1>1, <1>2, RegionInvariance, PTL DEF RegionSpec, Spec

\* At every iteration and return of map_region, unmap_region and
\* protect_region, whatever the region, the sizes of its pages and the frames
\* left, the part of the region that was passed translates as asked and nothing
\* else has changed; protect_region meets no error.
THEOREM RegionsDone == RegionSpec => []RegionPrefix
<1>1. RegionInv => RegionPrefix
  <2> SUFFICES ASSUME RegionInv, region.pc \in {"Loop", "Failed"} PROVE RegionPrefix
    BY DEF RegionPrefix
  <2>1. /\ PrefixOf(Translations, region, region.vaddr) /\ RequestOK(region)
        /\ l1 # NoTable
    BY DEF RegionInv, LoopInv, IInv, CursorInv
  <2>2. \A w \in VAddr : Translations[w] = query(w)
    BY <2>1, TranslationsOf
  <2> QED
    BY <2>1, <2>2 DEF PrefixOf, RequestOK, RegionPrefix
<1> QED
  BY <1>1, RegionInvariance, PTL
===========================================================================
