------------------------- MODULE PageTable32Region ------------------------
(***************************************************************************)
(* map_region, unmap_region and protect_region of `PageTable32Cursor`      *)
(* (page_table_multiarch/src/bits32.rs): loops over the pages of a region  *)
(* that use the cursor's own map and unmap.  A failed assertion is the     *)
(* state "Panicked".                                                       *)
(***************************************************************************)
EXTENDS PageTable32

CONSTANTS
    MapRequest,  \* the calls of map_region
    Region,      \* the <<vaddr, size>> that unmap_region and protect_region get
    Protection   \* the flags that protect_region gets

Aligned(n, size) == n % PageBytes(size) = 0

\* Every 4K page of a region is among the addresses in use.
PagesInUse(vaddr, size) ==
    \A k \in 0 .. size : k * PAGE_SIZE_4K < size => vaddr + k * PAGE_SIZE_4K \in VAddr

\* get_paddr is asked for the first address of each page only, and is contiguous
\* on those that the loop may choose.
Contiguous(request) ==
    LET paddr == request.get_paddr
    IN  \A s \in PageSize, v, w \in VAddr :
           /\ Aligned(v, s)
           /\ w \div PageBytes(s) = v \div PageBytes(s)
           /\ s = Size4K \/ (request.allow_huge /\ align_down(paddr[v], s) = paddr[v])
           => align_down(paddr[w], s) = align_down(paddr[v], s)

ASSUME RegionAssumption ==
    /\ MapRequest \subseteq [vaddr : Nat, get_paddr : [VAddr -> Target], size : Nat,
                             flags : Flags, allow_huge : BOOLEAN]
    /\ \A r \in MapRequest : PagesInUse(r.vaddr, r.size) /\ Contiguous(r)
    /\ \A r \in Region : r \in Nat \X Nat /\ PagesInUse(r[1], r[2])
    /\ Protection \subseteq Flags

VARIABLE region  \* the loop in progress

regionVars == <<l1, l2, borrowed_entries, flusher, call, ret, region>>

NoRequest == [vaddr |-> 0, get_paddr |-> <<>>, size |-> 0, flags |-> {},
              allow_huge |-> FALSE]

\* vaddr and size are what is left of the region; `before` is auxiliary, the
\* translations when the loop began.
NoRegion == [pc |-> "None", op |-> "none", vaddr |-> 0, size |-> 0,
             request |-> NoRequest, before |-> <<>>]

Start(pc, op, request) ==
    /\ CursorIdle
    /\ region = NoRegion
    /\ region' = [pc |-> pc, op |-> op, vaddr |-> request.vaddr, size |-> request.size,
                  request |-> request, before |-> [v \in VAddr |-> query(v)]]
    /\ UNCHANGED vars

Stop(pc) == [region EXCEPT !.pc = pc]

\* The page of the given size is passed.
Passed(size) ==
    [region EXCEPT !.pc = "Loop", !.vaddr = @ + PageBytes(size),
                   !.size = @ - PageBytes(size)]

\* assert!(page_size.is_aligned(vaddr_usize)) and assert!(page_size <= size)
Fits(size) == Aligned(region.vaddr, size) /\ PageBytes(size) <= region.size

PassedIfFits(size) == IF Fits(size) THEN Passed(size) ELSE Stop("Panicked")

Looping(op) == region.pc = "Loop" /\ region.op = op /\ region.size > 0
---------------------------------------------------------------------------
MapRegion(request) ==
    Start(IF Aligned(request.vaddr, Size4K) /\ Aligned(request.size, Size4K)
          THEN "Loop" ELSE "Failed", "map", request)

Request(r, flags) == [NoRequest EXCEPT !.vaddr = r[1], !.size = r[2], !.flags = flags]

UnmapRegion(r) == Start("Loop", "unmap", Request(r, {}))

ProtectRegion(r, flags) == Start("Loop", "protect", Request(r, flags))

\* A section, if both addresses and what is left of the region allow one.
page_size(paddr) ==
    IF /\ region.request.allow_huge
       /\ Aligned(region.vaddr, Size1M)
       /\ align_down(paddr, Size1M) = paddr
       /\ region.size >= PageBytes(Size1M)
    THEN Size1M
    ELSE Size4K

MapRegionPage ==
    /\ Looping("map")
    /\ LET paddr == region.request.get_paddr[region.vaddr]
       IN  Map(region.vaddr, paddr, page_size(paddr), region.request.flags)
    /\ region' = Stop("Mapping")

\* A faulty variant of MapRegionNext: a map that failed is tried again.
MapRegionNext_Retries ==
    /\ region.pc = "Mapping"
    /\ Idle
    /\ region' = IF ret.err = "Ok" THEN Passed(ret.out.size) ELSE Stop("Loop")
    /\ UNCHANGED vars

\* map has returned: an error ends the loop and leaves what was mapped.
MapRegionNext ==
    /\ region.pc = "Mapping"
    /\ Idle
    /\ region' = IF ret.err = "Ok" THEN Passed(ret.out.size) ELSE Stop("Failed")
    /\ UNCHANGED vars

\* The page is gone before the assertions look at its size.
UnmapRegionPage ==
    /\ Looping("unmap")
    /\ Unmap(region.vaddr)
    /\ region' = IF ret'.err = "Ok" THEN PassedIfFits(ret'.out.size) ELSE Stop("Failed")

\* A page gets new flags through set_flags, where protect writes a new page.
\* (`ret` records it as a protect of its page.)
ProtectRegionPage ==
    /\ Looping("protect")
    /\ LET v == region.vaddr
           page == query(v)
           flags == region.request.flags
       IN  /\ page # Unmapped
           /\ SetEntry(v, page.size, pte_set_flags(page.entry, flags, page.size = Size1M))
           /\ Succeed("protect", v, [size |-> page.size])
           /\ region' = PassedIfFits(page.size)

\* A faulty variant of ProtectRegionHole: a hole is an error.
ProtectRegionHole_Fails ==
    /\ Looping("protect")
    /\ query(region.vaddr) = Unmapped
    /\ region' = Stop("Failed")
    /\ UNCHANGED vars

\* A hole is passed as one page of 4K.
ProtectRegionHole ==
    /\ Looping("protect")
    /\ query(region.vaddr) = Unmapped
    /\ region' = PassedIfFits(Size4K)
    /\ UNCHANGED vars

\* The loop ended, or an error did.
RegionReturn ==
    /\ region.pc = "Failed" \/ (region.pc = "Loop" /\ region.size = 0)
    /\ region' = NoRegion
    /\ UNCHANGED vars
---------------------------------------------------------------------------
RegionInit == Init /\ region = NoRegion

RegionBegin ==
    \/ \E r \in MapRequest : MapRegion(r)
    \/ \E r \in Region : UnmapRegion(r)
    \/ \E r \in Region, f \in Protection : ProtectRegion(r, f)

RegionContinue ==
    \/ MapRegionPage
    \/ MapRegionNext
    \/ UnmapRegionPage
    \/ ProtectRegionPage
    \/ ProtectRegionHole
    \/ RegionReturn
    \/ Continue /\ UNCHANGED region

\* The other operations run between two loops; single pages are mapped by
\* regions of one page.
Between ==
    /\ region = NoRegion
    /\ \/ TryNew
       \/ TryNewFails
       \/ OpenCursor
       \/ \E v \in VAddr, p \in Target, f \in Protection : Remap(v, p, f)
       \/ \E v \in VAddr, f \in Protection : Protect(v, f)
       \/ \E v \in VAddr : Unmap(v)
       \/ \E op \in {"flush", "drop"} : Flush(op)
       \/ \E r \in CopyRange : CopyFrom(r[1], r[2])
       \/ Drop
    /\ UNCHANGED region

RegionNext == RegionBegin \/ RegionContinue \/ Between

\* The thread that called an operation runs until it returns.
RegionFairness == WF_regionVars(RegionContinue)

RegionSpec == RegionInit /\ [][RegionNext]_regionVars /\ RegionFairness
---------------------------------------------------------------------------
(* Properties *)

\* What the loop r wants the address v, that it has passed, to translate to.
Wanted(r, v, now) ==
    LET old == r.before[v]
        flags == r.request.flags
    IN  CASE r.op = "map" ->
               /\ now # Unmapped
               /\ now.paddr = align_down(r.request.get_paddr[v], now.size)
               /\ Written[now.size][now.entry] = {flags}
          [] r.op = "unmap" -> now = Unmapped
          [] r.op = "protect" ->
               IF old = Unmapped THEN now = Unmapped
               ELSE ViewPage(now) = [ViewPage(old) EXCEPT !.flags = {flags}]

\* At every iteration and when it returns, with an error or without one, a
\* loop has done its work on exactly the addresses it passed, whatever the
\* page sizes, and a hole keeps protect_region from none of them ("ignore if
\* not present").
RegionPrefix ==
    region.pc \in {"Loop", "Failed"} =>
        /\ \A v \in VAddr :
              IF region.request.vaddr <= v /\ v < region.vaddr
              THEN Wanted(region, v, query(v))
              ELSE query(v) = region.before[v]
        /\ region.op = "protect" => region.pc # "Failed"

\* A loop never passes its end, and ends: it passes at least a page in each
\* iteration, whatever the allocator answers.
RegionReturns == (region.pc # "None") ~> (region.pc \in {"None", "Panicked"})
===========================================================================
