------------------------- MODULE PageTable64Region ------------------------
(***************************************************************************)
(* map_region, unmap_region and protect_region of `PageTable64Cursor`      *)
(* (page_table_multiarch/src/bits64.rs): loops over the pages of a region  *)
(* that use the cursor's own map and unmap, advance by the size of each    *)
(* page, and assert that this page lies within the region.  A failed       *)
(* assertion is the state "Panicked".                                      *)
(***************************************************************************)
EXTENDS PageTable64

CONSTANTS
    MapRequest,  \* the calls of map_region, see MapRegion
    Region,      \* the <<vaddr, size>> that unmap_region and protect_region get
    Protection   \* the flags that protect_region gets

\* Every 4K page of a region is among the addresses in use.
PagesInUse(vaddr, size) ==
    \A k \in 0 .. size : k * PAGE_SIZE_4K < size => vaddr + k * PAGE_SIZE_4K \in VAddr

\* The calls of map_region: get_paddr is defined on the addresses in use, and
\* contiguous on each page that the loop may choose, as the physical region of
\* its doc is (the code asks it for the first address of a page only).
RegionRequest ==
    [vaddr : Nat, get_paddr : [VAddr -> Target], size : Nat, flags : Flags,
     allow_huge : BOOLEAN]

Contiguous(request) ==
    LET paddr == request.get_paddr
    IN  \A s \in PageSize, v, w \in VAddr :
           /\ v % PageBytes(s) = 0
           /\ w \div PageBytes(s) = v \div PageBytes(s)
           /\ s = Size4K \/ (request.allow_huge /\ align_down(paddr[v], s) = paddr[v])
           => align_down(paddr[w], s) = align_down(paddr[v], s)

ASSUME RegionAssumption ==
    /\ \A r \in MapRequest :
          r \in RegionRequest /\ PagesInUse(r.vaddr, r.size) /\ Contiguous(r)
    /\ \A r \in Region : r \in Nat \X Nat /\ PagesInUse(r[1], r[2])
    /\ Protection \subseteq Flags

VARIABLE region  \* the loop in progress

regionVars == <<mem, height, root_paddr, flusher, call, ret, region>>

NoRequest == [vaddr |-> 0, get_paddr |-> <<>>, size |-> 0, flags |-> {},
              allow_huge |-> FALSE]

\* vaddr and size are what is left of the region; `before` is auxiliary, the
\* translations when the loop began.
NoRegion == [pc |-> "None", op |-> "none", vaddr |-> 0, size |-> 0,
             request |-> NoRequest, before |-> <<>>]

Translations == [v \in VAddr |-> query(mem, v)]

Start(pc, op, request) ==
    [pc |-> pc, op |-> op, vaddr |-> request.vaddr, size |-> request.size,
     request |-> request, before |-> Translations]

Aligned(n, size) == n % PageBytes(size) = 0

\* The page of the given size is passed.
Passed(size) ==
    [region EXCEPT !.pc = "Loop", !.vaddr = @ + PageBytes(size),
                   !.size = @ - PageBytes(size)]

\* A faulty variant of Fits: the last page of a region does not.
Fits_Strict(size) == Aligned(region.vaddr, size) /\ PageBytes(size) < region.size

\* assert!(page_size.is_aligned(vaddr_usize)) and assert!(page_size <= size)
Fits(size) == Aligned(region.vaddr, size) /\ PageBytes(size) <= region.size

Stop(pc) == [region EXCEPT !.pc = pc]

Begins == CursorIdle /\ region = NoRegion
Looping(op) == region.pc = "Loop" /\ region.op = op /\ region.size > 0
---------------------------------------------------------------------------
(* map_region *)

MapRegion(request) ==
    /\ Begins
    /\ region' = Start(IF Aligned(request.vaddr, Size4K) /\ Aligned(request.size, Size4K)
                       THEN "Loop" ELSE "Failed", "map", request)
    /\ UNCHANGED vars

\* A faulty variant of page_size: the physical address may be unaligned.
page_size_Unaligned(paddr) ==
    LET Usable(s) == /\ region.request.allow_huge
                     /\ Aligned(region.vaddr, s)
                     /\ region.size >= PageBytes(s)
    IN  IF Usable(Size1G) THEN Size1G
        ELSE IF Usable(Size2M) THEN Size2M
        ELSE Size4K

\* The largest page that the addresses and what is left of the region allow.
page_size(paddr) ==
    LET Usable(s) == /\ region.request.allow_huge
                     /\ Aligned(region.vaddr, s)
                     /\ align_down(paddr, s) = paddr
                     /\ region.size >= PageBytes(s)
    IN  IF Usable(Size1G) THEN Size1G
        ELSE IF Usable(Size2M) THEN Size2M
        ELSE Size4K

MapRegionPage ==
    /\ Looping("map")
    /\ LET paddr == region.request.get_paddr[region.vaddr]
       IN  Map(region.vaddr, paddr, page_size(paddr), region.request.flags)
    /\ region' = Stop("Mapping")

\* A faulty variant of MapRegionNext: a map that failed is tried again.
MapRegionNext_Retries ==
    /\ region.pc = "Mapping"
    /\ Idle
    /\ region' = IF ret.err = "Ok" THEN Passed(ret.out.size) ELSE Stop("Loop")
    /\ UNCHANGED vars

\* map has returned: an error ends the loop and leaves what was mapped.
MapRegionNext ==
    /\ region.pc = "Mapping"
    /\ Idle
    /\ region' = IF ret.err = "Ok" THEN Passed(ret.out.size) ELSE Stop("Failed")
    /\ UNCHANGED vars
---------------------------------------------------------------------------
(* unmap_region and protect_region *)

Request(r, flags) == [NoRequest EXCEPT !.vaddr = r[1], !.size = r[2], !.flags = flags]

UnmapRegion(r) ==
    /\ Begins
    /\ region' = Start("Loop", "unmap", Request(r, {}))
    /\ UNCHANGED vars

ProtectRegion(r, flags) ==
    /\ Begins
    /\ region' = Start("Loop", "protect", Request(r, flags))
    /\ UNCHANGED vars

\* The page is gone before the assertions look at its size.
UnmapRegionPage ==
    /\ Looping("unmap")
    /\ Unmap(region.vaddr)
    /\ region' = IF ret'.err # "Ok" THEN Stop("Failed")
                 ELSE IF Fits(ret'.out.size) THEN Passed(ret'.out.size)
                 ELSE Stop("Panicked")

\* An entry that is not present is passed, at the size it was found at; so is
\* a missing table, as one page of 4K.  A huge page at p4 is an error.
ProtectRegionPage ==
    /\ Looping("protect")
    /\ LET v == region.vaddr
           s == get_entry(mem, v)
           e == mem[s.table][p_index(v, s.h)]
           page == IF s.err = "Ok" THEN s.h ELSE Size4K
       IN  /\ IF s.err = "Ok" /\ pte_is_present(e)
              THEN /\ mem' = SetEntry(s.table, v, s.h,
                                      pte_set_flags(e, region.request.flags, s.h # Size4K))
                   /\ flusher' = push(flusher, v)
              ELSE UNCHANGED <<mem, flusher>>
           /\ region' = IF s.err \notin {"Ok", "NotMapped"} THEN Stop("Failed")
                        ELSE IF Fits(page) THEN Passed(page)
                        ELSE Stop("Panicked")
    /\ UNCHANGED <<height, root_paddr, call, ret>>

\* The loop ended, or an error did.
RegionReturn ==
    /\ region.pc = "Failed" \/ (region.pc = "Loop" /\ region.size = 0)
    /\ region' = NoRegion
    /\ UNCHANGED vars
---------------------------------------------------------------------------
RegionInit == Init /\ region = NoRegion

RegionBegin ==
    \/ \E r \in MapRequest : MapRegion(r)
    \/ \E r \in Region : UnmapRegion(r)
    \/ \E r \in Region, f \in Protection : ProtectRegion(r, f)

\* The table and the cursor come and go between two loops.
Between ==
    /\ region = NoRegion
    /\ TryNew \/ OpenCursor \/ (\E op \in {"flush", "drop"} : Flush(op)) \/ Drop
    /\ UNCHANGED region

RegionContinue ==
    \/ MapRegionPage
    \/ MapRegionNext
    \/ UnmapRegionPage
    \/ ProtectRegionPage
    \/ RegionReturn
    \/ Continue /\ UNCHANGED region

RegionNext == RegionBegin \/ Between \/ RegionContinue

\* The thread that called a region operation runs until it returns.
RegionFairness == WF_regionVars(RegionContinue)

RegionSpec == RegionInit /\ [][RegionNext]_regionVars /\ RegionFairness
---------------------------------------------------------------------------
(* Properties *)

\* What the loop r wants of the address v, that it has passed; now is the
\* translation of v.  (A page with flags that do not show as present
\* translates nothing.)
Wanted(r, v, now) ==
    LET old == r.before[v]
        flags == r.request.flags
    IN  /\ r.op = "map" =>
              IF Accessible(flags)
              THEN /\ now # Unmapped
                   /\ now.paddr = align_down(r.request.get_paddr[v], now.size)
                   /\ now.flags = ReadBack(flags)
              ELSE now = Unmapped
        /\ r.op = "unmap" => now = Unmapped
        /\ r.op = "protect" =>
              IF old = Unmapped \/ ~Accessible(flags) THEN now = Unmapped
              ELSE now = [old EXCEPT !.flags = ReadBack(flags)]

\* The addresses a loop has reached: those it passed and, when an assertion
\* stopped it, those of the page that the assertion is about.  That page is
\* changed before its size is looked at, and may begin before the region or
\* end after it; nothing of a hole is.
Reached(v) ==
    \/ region.request.vaddr <= v /\ v < region.vaddr
    \/ /\ region.pc = "Panicked"
       /\ LET cut == region.before[region.vaddr]
          IN  /\ cut # Unmapped
              /\ v \div PageBytes(cut.size) = region.vaddr \div PageBytes(cut.size)

\* The loop has done its work on exactly the part of the region it reached, at
\* every iteration, when it returns, with an error or without one, and when it
\* panics: each address there translates as asked, page by page and whatever
\* the page sizes, and no other address has changed.
RegionPrefix ==
    region.pc \in {"Loop", "Failed", "Panicked"} =>
        \A v \in VAddr :
            IF Reached(v)
            THEN Wanted(region, v, query(mem, v))
            ELSE query(mem, v) = region.before[v]

\* The next address is in a huge page, present or not, that begins before it
\* or ends after the region.  (An unused entry is no page.)
PageIsCut ==
    LET s == get_entry(mem, region.vaddr)
    IN  /\ s.err = "Ok" /\ s.h # Size4K
        /\ ~pte_is_unused(mem[s.table][p_index(region.vaddr, s.h)])
        /\ \/ ~Aligned(region.vaddr, s.h)
           \/ PageBytes(s.h) > region.size

\* A loop panics only on a region that is not made of 4K pages, or that ends
\* or begins inside a huge page; over a hole it goes on ("ignore if not
\* present", protect_region).  This is so in the formats whose unused entry is
\* no huge page (UnusedIsNoPage).  On aarch64 get_entry takes the zero entry of
\* the second or third level for one, and a region that ends or begins in
\* such a hole makes protect_region panic.
PanicMeansCut ==
    [][region.pc # "Panicked" /\ region'.pc = "Panicked" =>
         \/ ~Aligned(region.request.vaddr, Size4K)
         \/ ~Aligned(region.request.size, Size4K)
         \/ PageIsCut]_regionVars

UnusedIsNoPage == ~pte_is_huge(Zero)

\* Every loop ends: it passes at least a page in each iteration and each map
\* in it returns.
RegionReturns == (region.pc # "None") ~> (region.pc \in {"None", "Panicked"})
===========================================================================
