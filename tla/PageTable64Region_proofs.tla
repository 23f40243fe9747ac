--------------------- MODULE PageTable64Region_proofs ---------------------
(***************************************************************************)
(* What map_region, unmap_region and protect_region do, proved for every   *)
(* region, every page size and every memory: RegionPrefix and              *)
(* PanicMeansCut of PageTable64Region.  The loops change the table by the  *)
(* steps of PageTable64 and by those of protect_region, so that the        *)
(* invariants of the table (IInv, PathInv) hold in them too.               *)
(***************************************************************************)
EXTENDS PageTable64Region, PageTable64Space_proofs

\* The record of a loop.
IsLoop(r) ==
    r = [pc |-> r.pc, op |-> r.op, vaddr |-> r.vaddr, size |-> r.size,
         request |-> r.request, before |-> r.before]

\* The work of the loop r shows in memory m on the addresses up to end.
PrefixOf(m, r, end) ==
    \A v \in VAddr :
        IF r.request.vaddr <= v /\ v < end
        THEN Wanted(r, v, query(m, v))
        ELSE query(m, v) = r.before[v]

\* The same of a loop that panicked: besides what it passed, the page it stopped
\* at was changed.
StoppedOf(m, r) ==
    \A v \in VAddr :
        IF \/ r.request.vaddr <= v /\ v < r.vaddr
           \/ r.before[r.vaddr] # Unmapped /\ SameBlock(r.vaddr, v, r.before[r.vaddr].size)
        THEN Wanted(r, v, query(m, v))
        ELSE query(m, v) = r.before[v]

\* The loop r has passed a whole number of 4K pages.
Progress(r) ==
    /\ r.vaddr \in Nat /\ r.size \in Nat
    /\ r.request.vaddr \in Nat /\ r.request.size \in Nat
    /\ \E k \in 0 .. r.request.size :
          /\ r.vaddr = r.request.vaddr + k * PAGE_SIZE_4K
          /\ r.request.size = r.size + k * PAGE_SIZE_4K

\* It was called as callers do, and map_region went past its check.
RequestOK(r) ==
    LET request == r.request
    IN  /\ r.op \in {"map", "unmap", "protect"}
        /\ PagesInUse(request.vaddr, request.size)
        /\ r.op = "protect" => request.flags \in Flags
        /\ r.op = "map" => request \in MapRequest
        /\ r.op = "map" /\ r.pc \in {"Loop", "Mapping"} =>
              Aligned(request.vaddr, Size4K) /\ Aligned(request.size, Size4K)

\* The size that map_region chose for the next page.
Chosen(s) ==
    LET paddr == region.request.get_paddr[region.vaddr]
    IN  /\ s \in PageSize /\ Fits(s)
        /\ s = Size4K \/ (region.request.allow_huge /\ align_down(paddr, s) = paddr)

\* The map of the next page is in progress...
MapRuns ==
    /\ call.op = "map" /\ call.pc \in {"Descend", "Alloc", "Zero", "Link"}
    /\ call.vaddr = region.vaddr /\ region.vaddr \in VAddr
    /\ call.target = region.request.get_paddr[region.vaddr]
    /\ call.flags = region.request.flags
    /\ Chosen(call.size)
    /\ PrefixOf(mem, region, region.vaddr)

\* ... or has returned.
MapReturned ==
    IF ret.err = "Ok"
    THEN /\ ret.out.size \in PageSize /\ Fits(ret.out.size)
         /\ PrefixOf(mem, region, region.vaddr + PageBytes(ret.out.size))
    ELSE PrefixOf(mem, region, region.vaddr)

\* The inductive invariant of the loops.
LoopInv ==
    /\ IsLoop(region)
    /\ region.pc \in {"None", "Loop", "Mapping", "Failed", "Panicked"}
    /\ region.pc = "None" => region = NoRegion
    /\ region.pc # "None" =>
          RequestOK(region) /\ Progress(region) /\ flusher.kind # "Closed"
    /\ region.pc \in {"Loop", "Failed", "Panicked"} => Idle
    /\ region.pc \in {"Loop", "Failed"} => PrefixOf(mem, region, region.vaddr)
    /\ region.pc = "Panicked" => StoppedOf(mem, region)
    /\ region.pc = "Mapping" =>
          region.op = "map" /\ IF Idle THEN MapReturned ELSE MapRuns

RegionInv == IInv /\ PathInv /\ LoopInv
---------------------------------------------------------------------------
(* Addresses *)

\* A page of any size is made of 4K pages.
LEMMA PageMultiple ==
    ASSUME NEW s \in PageSize
    PROVE  /\ PageBytes(s) \in Nat \ {0} /\ PAGE_SIZE_4K \in Nat \ {0}
           /\ \E c \in Nat \ {0} : PageBytes(s) = PAGE_SIZE_4K * c
<1>1. PAGE_SIZE_4K \in Nat \ {0} /\ ENTRY_COUNT \in Nat \ {0}
  BY CountAssumption
<1>2. s \in 0 .. 3
  BY DEF PageSize, Size4K, Size2M, Size1G
<1>3. PageBytes(s) \in Nat \ {0}
  BY <1>2, PageBytesPositive
<1>4. CASE s = 0
  <2>1. PageBytes(s) = PAGE_SIZE_4K * 1
    BY <1>1, <1>4 DEF PageBytes
  <2> QED
    BY <1>1, <1>3, <2>1
<1>5. CASE s = 1
  <2>1. PageBytes(s) = PAGE_SIZE_4K * ENTRY_COUNT
    BY <1>5 DEF PageBytes
  <2> QED
    BY <1>1, <1>3, <2>1
<1>6. CASE s = 2
  <2> DEFINE c == ENTRY_COUNT * ENTRY_COUNT
  <2>1. c \in Nat \ {0}
    BY <1>1
  <2>2. PageBytes(s) = PAGE_SIZE_4K * c
    BY <1>1, <1>6 DEF PageBytes
  <2> HIDE DEF c
  <2> QED
    BY <1>1, <1>3, <2>1, <2>2
<1> QED
  BY <1>4, <1>5, <1>6 DEF PageSize, Size4K, Size2M, Size1G

\* The addresses in the page of size s at an aligned address are the next ones.
LEMMA BlockIsInterval ==
    ASSUME NEW v \in VAddr, NEW w \in VAddr, NEW s \in PageSize, Aligned(v, s)
    PROVE  SameBlock(v, w, s) <=> v <= w /\ w < v + PageBytes(s)
<1>1. v \in Nat /\ w \in Nat /\ PageBytes(s) \in Nat \ {0}
  BY PageMultiple, CountAssumption
<1>2. v % PageBytes(s) = 0
  BY DEF Aligned
<1> QED
  BY <1>1, <1>2, NextNumbers DEF SameBlock

\* While a part of the region is left, the next address is one in use.
LEMMA NextInUse ==
    ASSUME NEW r, Progress(r), RequestOK(r), r.size > 0
    PROVE  r.vaddr \in VAddr
<1>1. PICK k \in 0 .. r.request.size :
         /\ r.vaddr = r.request.vaddr + k * PAGE_SIZE_4K
         /\ r.request.size = r.size + k * PAGE_SIZE_4K
  BY DEF Progress
<1>2. k * PAGE_SIZE_4K \in Nat /\ r.size \in Nat
  BY CountAssumption DEF Progress
<1>3. k * PAGE_SIZE_4K < r.request.size
  BY <1>1, <1>2
<1> QED
  BY <1>1, <1>3 DEF RequestOK, PagesInUse

\* A page that fits is passed in whole 4K pages.
LEMMA ProgressMade ==
    ASSUME NEW r, NEW n, Progress(r), NEW s \in PageSize, PageBytes(s) <= r.size,
           n.vaddr = r.vaddr + PageBytes(s), n.size = r.size - PageBytes(s),
           n.request = r.request
    PROVE  Progress(n)
<1> DEFINE b == PAGE_SIZE_4K
           bytes == PageBytes(s)
<1>1. /\ r.vaddr \in Nat /\ r.size \in Nat
      /\ r.request.vaddr \in Nat /\ r.request.size \in Nat
  BY DEF Progress
<1>2. PICK k \in 0 .. r.request.size :
         r.vaddr = r.request.vaddr + k * b /\ r.request.size = r.size + k * b
  BY DEF Progress
<1>3. bytes \in Nat \ {0} /\ b \in Nat \ {0}
  BY PageMultiple
<1>4. PICK c \in Nat \ {0} : bytes = b * c
  BY PageMultiple
<1> HIDE DEF b, bytes
<1> DEFINE j == k + c
<1>5. j \in Nat /\ j * b = k * b + bytes
  BY <1>1, <1>2, <1>3, <1>4
<1>6. n.vaddr = n.request.vaddr + j * b /\ n.request.size = n.size + j * b
      /\ n.vaddr \in Nat /\ n.size \in Nat
  BY <1>1, <1>2, <1>3, <1>5 DEF bytes
<1>7. j <= n.request.size
  <2> HIDE DEF j
  <2>1. j * 1 <= j * b
    BY <1>3, <1>5, ProductMonotone
  <2>2. j * b \in Nat /\ j * 1 = j
    BY <1>3, <1>5
  <2> QED
    BY <1>1, <1>5, <1>6, <2>1, <2>2
<1> QED
  BY <1>1, <1>5, <1>6, <1>7 DEF Progress, b

\* In a region made of 4K pages a 4K page always fits.
LEMMA SmallPageFits ==
    ASSUME NEW r, Progress(r), r.size > 0,
           Aligned(r.request.vaddr, Size4K), Aligned(r.request.size, Size4K)
    PROVE  Aligned(r.vaddr, Size4K) /\ PageBytes(Size4K) <= r.size
<1> DEFINE b == PAGE_SIZE_4K
<1>1. b \in Nat \ {0} /\ PageBytes(Size4K) = b
  BY CountAssumption DEF PageBytes, Size4K
<1>2. /\ r.vaddr \in Nat /\ r.size \in Nat
      /\ r.request.vaddr \in Nat /\ r.request.size \in Nat
  BY DEF Progress
<1>3. PICK k \in 0 .. r.request.size :
         r.vaddr = r.request.vaddr + k * b /\ r.request.size = r.size + k * b
  BY DEF Progress
<1>4. r.request.vaddr % b = 0 /\ r.request.size % b = 0
  BY <1>1 DEF Aligned
<1> HIDE DEF b
<1>5. r.vaddr = r.request.vaddr + b * k /\ r.request.size = r.size + b * k /\ k \in Nat
  BY <1>1, <1>2, <1>3
<1>6. r.vaddr % b = r.request.vaddr % b /\ r.request.size % b = r.size % b
  <2>1. (r.request.vaddr + b * k) % b = r.request.vaddr % b
    BY <1>1, <1>2, <1>5, SameRemainder
  <2>2. (r.size + b * k) % b = r.size % b
    BY <1>1, <1>2, <1>5, SameRemainder
  <2> QED
    BY <1>5, <2>1, <2>2, Zenon
<1>7. r.vaddr % b = 0 /\ r.size % b = 0
  BY <1>4, <1>6
<1>8. b <= r.size
  BY <1>1, <1>2, <1>7, MultipleAtLeast
<1> QED
  BY <1>1, <1>7, <1>8 DEF Aligned
---------------------------------------------------------------------------
(* What a loop has done *)

\* What counts of a loop for its work.
SameLoop(r, n) == n.op = r.op /\ n.request = r.request /\ n.before = r.before

\* The work depends on nothing else of the loop, nor on memory but through
\* its translations.
LEMMA PrefixKept ==
    ASSUME NEW m, NEW n, NEW r, NEW q, NEW end, SameLoop(r, q), PrefixOf(m, r, end),
           \A w \in VAddr : query(n, w) = query(m, w)
    PROVE  PrefixOf(n, q, end)
BY DEF PrefixOf, SameLoop, Wanted

\* A page of the wanted translation at the next address extends the work.
LEMMA PrefixGrows ==
    ASSUME NEW m, NEW n, NEW r, NEW q, NEW s \in PageSize, NEW old, NEW new,
           SameLoop(r, q), Progress(r), r.vaddr \in VAddr, Aligned(r.vaddr, s),
           PrefixOf(m, r, r.vaddr), Blocks(m, n, r.vaddr, s, old, new),
           \A w \in VAddr : SameBlock(r.vaddr, w, s) /\ r.before[w] = old => Wanted(r, w, new)
    PROVE  PrefixOf(n, q, r.vaddr + PageBytes(s))
<1> DEFINE v == r.vaddr
           end == v + PageBytes(s)
           base == r.request.vaddr
<1>1. v \in Nat /\ base \in Nat /\ PageBytes(s) \in Nat \ {0} /\ base <= v
  <2>1. \A k \in Nat : k * PAGE_SIZE_4K \in Nat
    BY CountAssumption
  <2> QED
    BY <2>1, PageMultiple DEF Progress
<1>2. ASSUME NEW w \in VAddr
      PROVE  IF base <= w /\ w < end THEN Wanted(r, w, query(n, w))
             ELSE query(n, w) = r.before[w]
  <2>0. w \in Nat
    BY CountAssumption
  <2>1. CASE SameBlock(v, w, s)
    <3>1. v <= w /\ w < end
      BY <2>1, BlockIsInterval
    <3>2. query(m, w) = old /\ query(n, w) = new
      BY <2>1 DEF Blocks
    <3>3. query(m, w) = r.before[w]
      BY <1>1, <2>0, <3>1 DEF PrefixOf
    <3>4. Wanted(r, w, query(n, w))
      BY <2>1, <3>2, <3>3
    <3> QED
      BY <1>1, <2>0, <3>1, <3>4
  <2>2. CASE ~SameBlock(v, w, s)
    <3>1. ~(v <= w /\ w < end)
      BY <2>2, BlockIsInterval
    <3>2. query(n, w) = query(m, w)
      BY <2>2 DEF Blocks
    <3>3. (base <= w /\ w < end) <=> (base <= w /\ w < v)
      BY <1>1, <2>0, <3>1
    <3> QED
      BY <3>2, <3>3 DEF PrefixOf
  <2> QED
    BY <2>1, <2>2
<1> QED
  BY <1>2 DEF PrefixOf, SameLoop, Wanted
\* A page of the wanted translation that cannot be passed is the last work.
LEMMA StopGrows ==
    ASSUME NEW m, NEW n, NEW r, NEW q, NEW s \in PageSize, NEW old, NEW new,
           SameLoop(r, q), q.vaddr = r.vaddr, r.vaddr \in VAddr,
           PrefixOf(m, r, r.vaddr), Blocks(m, n, r.vaddr, s, old, new),
           \A w \in VAddr : SameBlock(r.vaddr, w, s) /\ r.before[w] = old => Wanted(r, w, new),
           IF old = Unmapped THEN new = Unmapped
           ELSE /\ old.size = s
                /\ \A w \in VAddr : Wanted(r, w, old) => Wanted(r, w, new)
    PROVE  StoppedOf(n, q)
<1> DEFINE v == r.vaddr
           passed(w) == r.request.vaddr <= w /\ w < v
<1>1. v \in Nat
  BY CountAssumption
<1>2. r.before[v] = old
  <2>1. SameBlock(v, v, s)
    BY DEF SameBlock
  <2>2. query(m, v) = old
    BY <2>1 DEF Blocks
  <2>3. ~(v < v)
    BY <1>1
  <2> QED
    BY <2>2, <2>3 DEF PrefixOf
<1>3. \A w \in VAddr : IF passed(w) THEN Wanted(r, w, query(m, w)) ELSE query(m, w) = r.before[w]
  BY DEF PrefixOf
<1>4. ASSUME NEW w \in VAddr
      PROVE  IF passed(w) \/ (old # Unmapped /\ SameBlock(v, w, old.size))
             THEN Wanted(r, w, query(n, w)) ELSE query(n, w) = r.before[w]
  <2> HIDE DEF passed, v
  <2>1. CASE old = Unmapped
    <3>1. query(n, w) = query(m, w)
      BY <2>1 DEF Blocks, v
    <3> QED
      BY <1>3, <2>1, <3>1
  <2>2. CASE old # Unmapped /\ SameBlock(v, w, s)
    <3>1. query(m, w) = old /\ query(n, w) = new
      BY <2>2 DEF Blocks, v
    <3>2. Wanted(r, w, new)
      BY <1>3, <2>2, <3>1 DEF v
    <3> QED
      BY <2>2, <3>1, <3>2
  <2>3. CASE old # Unmapped /\ ~SameBlock(v, w, s)
    <3>1. query(n, w) = query(m, w)
      BY <2>3 DEF Blocks, v
    <3> QED
      BY <1>3, <2>3, <3>1
  <2> QED
    BY <2>1, <2>2, <2>3
<1> QED
  BY <1>2, <1>4 DEF StoppedOf, SameLoop, Wanted
---------------------------------------------------------------------------
(* Translations of a block *)

\* Addresses in one 4K block are in one block of every size.
LEMMA Coarsest ==
    ASSUME NEW v \in VAddr, NEW w \in VAddr, SameBlock(v, w, 0)
    PROVE  \A h \in 0 .. 3 : SameBlock(v, w, h)
<1>1. SameBlock(v, w, 0 + 1)
  BY Coarser
<1>2. SameBlock(v, w, 1 + 1)
  BY <1>1, Coarser
<1>3. SameBlock(v, w, 2 + 1)
  BY <1>2, Coarser
<1> QED
  BY <1>1, <1>2, <1>3

\* The entry where a descent ends translates its whole block.
LEMMA SameTranslation ==
    ASSUME NEW m, NEW L, TreeIn(m, L), NEW v \in VAddr, NEW w \in VAddr, NEW t, NEW h,
           Ends(m, v, t, h), SameBlock(v, w, h)
    PROVE  query(m, w) = query(m, v)
<1>1. h \in H
  BY PathTyped DEF Ends
<1>2. Path(m, w, t, h) /\ p_index(v, h) = p_index(w, h)
  BY <1>1, BlockSharesPath DEF SharePath, Ends
<1>3. Ends(m, w, t, h)
  BY <1>2 DEF Ends, Goes
<1>4. query(m, v) = PageOf(m[t][p_index(v, h)], h)
  BY EndEntry
<1>5. query(m, w) = PageOf(m[t][p_index(w, h)], h)
  BY <1>3, EndEntry
<1> QED
  BY <1>2, <1>4, <1>5

\* A hole is one on the block of its entry, and on its 4K block.
LEMMA HoleBlock ==
    ASSUME IInv, root_paddr # NoFrame, NEW v \in VAddr, query(mem, v) = Unmapped
    PROVE  /\ Blocks(mem, mem, v, Size4K, Unmapped, Unmapped)
           /\ \A t, h : Ends(mem, v, t, h) => Blocks(mem, mem, v, h, Unmapped, Unmapped)
<1>1. TreeIn(mem, Linked)
  BY LinkedTree
<1>2. ASSUME NEW t, NEW h, Ends(mem, v, t, h)
      PROVE  Blocks(mem, mem, v, h, Unmapped, Unmapped)
  <2> SUFFICES ASSUME NEW w \in VAddr, SameBlock(v, w, h) PROVE query(mem, w) = Unmapped
    BY DEF Blocks
  <2> QED
    BY <1>1, <1>2, SameTranslation
<1>3. Blocks(mem, mem, v, Size4K, Unmapped, Unmapped)
  <2> SUFFICES ASSUME NEW w \in VAddr, SameBlock(v, w, 0) PROVE query(mem, w) = Unmapped
    BY DEF Blocks, Size4K
  <2>1. PICK t \in Linked, h \in H : Ends(mem, v, t, h)
    BY <1>1, PathEnds
  <2>2. h \in 0 .. 3
    BY TopHeight
  <2>3. SameBlock(v, w, h)
    BY <2>2, Coarsest
  <2> QED
    BY <1>1, <2>1, <2>3, SameTranslation
<1> QED
  BY <1>2, <1>3
---------------------------------------------------------------------------
(* Steps of a loop *)

\* What a loop that goes on or stops keeps of its record.
LEMMA Stopped ==
    ASSUME IsLoop(region), NEW pc, region' = Stop(pc)
    PROVE  /\ IsLoop(region') /\ SameLoop(region, region') /\ region'.pc = pc
           /\ region'.vaddr = region.vaddr /\ region'.size = region.size
BY DEF IsLoop, SameLoop, Stop

\* What a loop that passes a page of size s makes of its record.
LEMMA PassedPage ==
    ASSUME IsLoop(region), NEW s, region' = Passed(s)
    PROVE  /\ IsLoop(region') /\ SameLoop(region, region') /\ region'.pc = "Loop"
           /\ region'.vaddr = region.vaddr + PageBytes(s)
           /\ region'.size = region.size - PageBytes(s)
BY DEF IsLoop, SameLoop, Passed

\* A call stays what it was.
LEMMA RequestKept ==
    ASSUME NEW r, NEW n, RequestOK(r), SameLoop(r, n),
           r.pc \in {"Loop", "Mapping"} \/ n.pc \notin {"Loop", "Mapping"}
    PROVE  RequestOK(n)
BY DEF RequestOK, SameLoop

\* So does its progress, as long as no page is passed.
LEMMA ProgressKept ==
    ASSUME NEW r, NEW n, Progress(r), SameLoop(r, n), n.vaddr = r.vaddr, n.size = r.size
    PROVE  Progress(n)
BY DEF Progress, SameLoop

\* The work that shows in the next state, when the root stays.
LEMMA PrefixNext ==
    root_paddr' = root_paddr =>
        /\ PrefixOf(mem', region', region'.vaddr) => PrefixOf(mem, region, region.vaddr)'
        /\ PrefixOf(mem', region', region'.vaddr + PageBytes(ret'.out.size))
              => PrefixOf(mem, region, region.vaddr + PageBytes(ret.out.size))'
        /\ StoppedOf(mem', region') => StoppedOf(mem, region)'
<1> SUFFICES ASSUME root_paddr' = root_paddr
             PROVE  /\ PrefixOf(mem', region', region'.vaddr)
                          => PrefixOf(mem, region, region.vaddr)'
                    /\ PrefixOf(mem', region', region'.vaddr + PageBytes(ret'.out.size))
                          => PrefixOf(mem, region, region.vaddr + PageBytes(ret.out.size))'
                    /\ StoppedOf(mem', region') => StoppedOf(mem, region)'
  OBVIOUS
<1>1. \A v : query(mem, v)' = query(mem', v)
  BY DEF query, get_entry
<1>2. \A v : Wanted(region, v, query(mem, v))' <=> Wanted(region', v, query(mem', v))
  BY <1>1 DEF Wanted
<1>3. PrefixOf(mem', region', region'.vaddr) => PrefixOf(mem, region, region.vaddr)'
  BY <1>1, <1>2 DEF PrefixOf
<1>4. StoppedOf(mem', region') => StoppedOf(mem, region)'
  BY <1>1, <1>2 DEF StoppedOf, SameBlock
<1> QED
  BY <1>1, <1>2, <1>3, <1>4 DEF PrefixOf

\* What the invariant asks of a loop between its pages, or at its end...
LEMMA LoopNext ==
    ASSUME IsLoop(region'), region'.pc \in {"Loop", "Failed"}, RequestOK(region'),
           Progress(region'), flusher'.kind # "Closed", Idle', root_paddr' = root_paddr,
           PrefixOf(mem', region', region'.vaddr)
    PROVE  LoopInv'
<1>1. PrefixOf(mem, region, region.vaddr)'
  BY PrefixNext
<1>2. IsLoop(region)' /\ RequestOK(region)' /\ Progress(region)'
  BY DEF IsLoop, RequestOK, Progress, Aligned
<1> QED
  BY <1>1, <1>2 DEF LoopInv

\* ... of one that panicked...
LEMMA PanickedNext ==
    ASSUME IsLoop(region'), region'.pc = "Panicked", RequestOK(region'),
           Progress(region'), flusher'.kind # "Closed", Idle', root_paddr' = root_paddr,
           StoppedOf(mem', region')
    PROVE  LoopInv'
<1>1. IsLoop(region)' /\ RequestOK(region)' /\ Progress(region)'
  BY DEF IsLoop, RequestOK, Progress, Aligned
<1>2. StoppedOf(mem, region)'
  BY PrefixNext
<1> QED
  BY <1>1, <1>2 DEF LoopInv

\* ... and of none.
LEMMA NoLoopNext == region' = NoRegion => LoopInv'
<1> SUFFICES ASSUME region' = NoRegion PROVE LoopInv'
  OBVIOUS
<1>1. region'.pc = "None"
  BY DEF NoRegion
<1>2. IsLoop(region)'
  BY DEF IsLoop, NoRegion
<1> QED
  BY <1>1, <1>2 DEF LoopInv

\* The steps of the table keep the invariants of the table.
LEMMA TableStep == RegionInv /\ [Next]_vars => IInv' /\ PathInv'
BY StepInv, StepRefines DEF RegionInv

\* A loop begins.
LEMMA StartStep ==
    ASSUME RegionInv, Begins, UNCHANGED vars, NEW pc \in {"Loop", "Failed"}, NEW op,
           NEW request, request.vaddr \in Nat, request.size \in Nat,
           region' = Start(pc, op, request), RequestOK(region')
    PROVE  RegionInv'
<1>1. IInv' /\ PathInv'
  BY TableStep
<1>2. /\ IsLoop(region') /\ region'.pc = pc /\ region'.request = request
      /\ region'.vaddr = request.vaddr /\ region'.size = request.size
      /\ \A v \in VAddr : region'.before[v] = query(mem, v)
  BY DEF Start, IsLoop, Translations
<1>3. Progress(region')
  <2>1. 0 * PAGE_SIZE_4K = 0 /\ 0 \in 0 .. request.size
    BY CountAssumption
  <2> QED
    BY <1>2, <2>1 DEF Progress
<1>4. PrefixOf(mem, region', region'.vaddr)
  <2>1. \A v \in VAddr : ~(region'.request.vaddr <= v /\ v < region'.vaddr)
    BY <1>2, CountAssumption
  <2> QED
    BY <1>2, <2>1 DEF PrefixOf
<1>5. Idle' /\ flusher'.kind # "Closed" /\ mem' = mem /\ root_paddr' = root_paddr
  BY DEF Begins, CursorIdle, Idle, vars
<1>6. LoopInv'
  BY <1>2, <1>3, <1>4, <1>5, LoopNext
<1> QED
  BY <1>1, <1>6 DEF RegionInv

\* The three operations begin.
LEMMA RegionBeginStep == RegionInv /\ RegionBegin => RegionInv'
<1> SUFFICES ASSUME RegionInv, RegionBegin PROVE RegionInv'
  OBVIOUS
<1>1. ASSUME NEW r \in MapRequest, MapRegion(r) PROVE RegionInv'
  <2> DEFINE pc == IF Aligned(r.vaddr, Size4K) /\ Aligned(r.size, Size4K)
                   THEN "Loop" ELSE "Failed"
  <2>1. r.vaddr \in Nat /\ r.size \in Nat /\ PagesInUse(r.vaddr, r.size)
    BY RegionAssumption DEF RegionRequest
  <2>2. Begins /\ UNCHANGED vars /\ region' = Start(pc, "map", r)
    BY <1>1 DEF MapRegion
  <2>3. pc \in {"Loop", "Failed"}
    OBVIOUS
  <2>4. RequestOK(region')
    BY <2>1, <2>2 DEF RequestOK, Start
  <2> HIDE DEF pc
  <2> QED
    BY <2>1, <2>2, <2>3, <2>4, StartStep
<1>2. ASSUME NEW r \in Region, NEW f \in Flags \cup {{}}, NEW op \in {"unmap", "protect"},
             op = "protect" => f \in Flags,
             Begins, UNCHANGED vars, region' = Start("Loop", op, Request(r, f))
      PROVE  RegionInv'
  <2>1. r[1] \in Nat /\ r[2] \in Nat /\ PagesInUse(r[1], r[2])
    BY RegionAssumption
  <2>2. /\ Request(r, f).vaddr = r[1] /\ Request(r, f).size = r[2]
        /\ Request(r, f).flags = f
    BY DEF Request, NoRequest
  <2>3. RequestOK(region')
    BY <1>2, <2>1, <2>2 DEF RequestOK, Start
  <2> QED
    BY <1>2, <2>1, <2>2, <2>3, StartStep
<1>3. ASSUME NEW r \in Region, UnmapRegion(r) PROVE RegionInv'
  BY <1>2, <1>3 DEF UnmapRegion
<1>4. ASSUME NEW r \in Region, NEW f \in Protection, ProtectRegion(r, f) PROVE RegionInv'
  <2>1. f \in Flags
    BY RegionAssumption
  <2> QED
    BY <1>2, <1>4, <2>1 DEF ProtectRegion
<1> QED
  BY <1>1, <1>3, <1>4 DEF RegionBegin

\* Between two loops there is none.
LEMMA BetweenStep == RegionInv /\ Between => RegionInv'
<1> SUFFICES ASSUME RegionInv, Between PROVE RegionInv'
  OBVIOUS
<1>1. [Next]_vars /\ region' = NoRegion
  BY DEF Between, Next, Begin
<1> QED
  BY <1>1, TableStep, NoLoopNext DEF RegionInv
---------------------------------------------------------------------------
(* map_region *)

\* The size chosen for the next page fits.
LEMMA ChosenSize ==
    ASSUME RegionInv, region.pc = "Loop", region.op = "map", region.size > 0
    PROVE  Chosen(page_size(region.request.get_paddr[region.vaddr]))
<1> DEFINE paddr == region.request.get_paddr[region.vaddr]
           Usable(s) == /\ region.request.allow_huge
                        /\ Aligned(region.vaddr, s)
                        /\ align_down(paddr, s) = paddr
                        /\ region.size >= PageBytes(s)
<1>1. Aligned(region.vaddr, Size4K) /\ PageBytes(Size4K) <= region.size
  BY SmallPageFits DEF RegionInv, LoopInv, RequestOK
<1>2. Chosen(Size4K)
  BY <1>1 DEF Chosen, Fits, PageSize
<1>3. ASSUME NEW s \in PageSize, Usable(s) PROVE Chosen(s)
  <2>1. PageBytes(s) <= region.size
    BY <1>3, PageMultiple DEF RegionInv, LoopInv, Progress
  <2> QED
    BY <1>3, <2>1 DEF Chosen, Fits
<1>4. page_size(paddr) = IF Usable(Size1G) THEN Size1G
                         ELSE IF Usable(Size2M) THEN Size2M ELSE Size4K
  BY DEF page_size
<1> HIDE DEF Usable
<1> QED
  BY <1>2, <1>3, <1>4 DEF PageSize

\* map is called for the next page.
LEMMA MapRegionPageStep == RegionInv /\ MapRegionPage => RegionInv'
<1> SUFFICES ASSUME RegionInv, MapRegionPage PROVE RegionInv'
  OBVIOUS
<1> DEFINE v == region.vaddr
           request == region.request
           paddr == request.get_paddr[v]
           s == page_size(paddr)
<1>1. /\ region.pc = "Loop" /\ region.op = "map" /\ region.size > 0
      /\ Map(v, paddr, s, request.flags) /\ region' = Stop("Mapping")
  BY DEF MapRegionPage, Looping
<1>2. /\ IsLoop(region) /\ RequestOK(region) /\ Progress(region)
      /\ PrefixOf(mem, region, v)
  BY <1>1 DEF RegionInv, LoopInv
<1>3. v \in VAddr
  BY <1>1, <1>2, NextInUse
<1>4. Chosen(s)
  BY <1>1, ChosenSize
<1>5. paddr \in Target /\ request.flags \in Flags
  BY <1>1, <1>2, <1>3, RegionAssumption DEF RequestOK, RegionRequest
<1>6. s \in PageSize
  BY <1>4 DEF Chosen
<1>7. IInv' /\ PathInv'
  <2>1. Next
    BY <1>1, <1>3, <1>5, <1>6 DEF Next, Begin
  <2> QED
    BY <2>1, TableStep
<1>8. /\ IsLoop(region') /\ SameLoop(region, region') /\ region'.pc = "Mapping"
      /\ region'.vaddr = v /\ region'.size = region.size
  BY <1>1, <1>2, Stopped
<1> HIDE DEF s, paddr
<1>9. /\ call'.pc = "Descend" /\ call'.op = "map" /\ call'.vaddr = v
      /\ call'.target = paddr /\ call'.size = s /\ call'.flags = request.flags
      /\ UNCHANGED <<mem, root_paddr, flusher>> /\ flusher.kind # "Closed"
  BY <1>1 DEF Map, CursorIdle
<1>10. RequestOK(region') /\ Progress(region')
  BY <1>1, <1>2, <1>8, RequestKept, ProgressKept
<1>11. PrefixOf(mem, region, region.vaddr)'
  <2>1. PrefixOf(mem', region', region'.vaddr)
    BY <1>2, <1>8, <1>9, PrefixKept
  <2> QED
    BY <1>9, <2>1, PrefixNext
<1>12. Chosen(call.size)'
  BY <1>4, <1>8, <1>9 DEF Chosen, Fits, Aligned, SameLoop, paddr
<1>13. MapRuns'
  BY <1>3, <1>8, <1>9, <1>11, <1>12 DEF MapRuns, SameLoop, paddr
<1>14. IsLoop(region)' /\ RequestOK(region)' /\ Progress(region)' /\ ~Idle'
       /\ region'.op = "map"
  BY <1>1, <1>8, <1>9, <1>10
     DEF IsLoop, RequestOK, Progress, Aligned, Idle, SameLoop
<1>15. LoopInv'
  BY <1>8, <1>9, <1>13, <1>14 DEF LoopInv
<1> QED
  BY <1>7, <1>15 DEF RegionInv

\* What the invariant asks of a map in progress or just returned.
LEMMA MappingNext ==
    ASSUME LoopInv, region.pc = "Mapping", UNCHANGED <<region, root_paddr>>,
           flusher'.kind # "Closed", IF Idle' THEN MapReturned' ELSE MapRuns'
    PROVE  LoopInv'
<1>1. RequestOK(region)' /\ Progress(region)' /\ IsLoop(region)'
  BY DEF LoopInv, RequestOK, Progress, IsLoop, Aligned
<1> QED
  BY <1>1 DEF LoopInv

\* What a step of map before its last does to the loop: nothing.
LEMMA MapGoesOn ==
    ASSUME LoopInv, region.pc = "Mapping", MapRuns, UNCHANGED <<region, root_paddr, flusher>>,
           \A w \in VAddr : query(mem', w) = query(mem, w),
           call'.op = "map", call'.pc \in {"Descend", "Alloc", "Zero", "Link"},
           call'.vaddr = call.vaddr, call'.target = call.target,
           call'.size = call.size, call'.flags = call.flags
    PROVE  LoopInv'
<1>1. flusher'.kind # "Closed" /\ ~Idle'
  BY DEF LoopInv, Idle
<1>2. PrefixOf(mem, region, region.vaddr)'
  <2>1. SameLoop(region, region') /\ region'.vaddr = region.vaddr
    BY DEF SameLoop
  <2>2. PrefixOf(mem', region', region'.vaddr)
    BY <2>1, PrefixKept DEF MapRuns
  <2> QED
    BY <2>2, PrefixNext
<1>3. Chosen(call.size)'
  BY DEF MapRuns, Chosen, Fits, Aligned
<1>4. MapRuns'
  BY <1>2, <1>3 DEF MapRuns
<1> QED
  BY <1>1, <1>4, MappingNext

\* A map that fails leaves the loop where it is.
LEMMA MapGivesUp ==
    ASSUME LoopInv, region.pc = "Mapping", MapRuns, UNCHANGED region,
           NEW err \in {"NoMemory", "AlreadyMapped", "MappedToHugePage", "NotMapped"},
           Fail("map", call.vaddr, err)
    PROVE  LoopInv'
<1>1. /\ UNCHANGED <<mem, root_paddr, flusher>> /\ ret'.err # "Ok" /\ Idle'
  BY DEF Fail, Ret, NoCall, Idle
<1>2. flusher'.kind # "Closed"
  BY <1>1 DEF LoopInv
<1>3. PrefixOf(mem, region, region.vaddr)'
  <2>1. SameLoop(region, region') /\ region'.vaddr = region.vaddr
    BY DEF SameLoop
  <2>2. PrefixOf(mem', region', region'.vaddr)
    BY <1>1, <2>1, PrefixKept DEF MapRuns
  <2> QED
    BY <1>1, <2>2, PrefixNext
<1>4. MapReturned'
  BY <1>1, <1>3 DEF MapReturned
<1> QED
  BY <1>1, <1>2, <1>4, MappingNext

\* push closes no cursor.
LEMMA PushOpen ==
    ASSUME NEW fl, NEW v, fl.kind # "Closed"
    PROVE  push(fl, v).kind # "Closed"
BY DEF push, Flusher

\* A map that succeeds extends the work by its page.
LEMMA MapSucceeds ==
    ASSUME RegionInv, region.pc = "Mapping", MapRuns, UNCHANGED region, MapPage
    PROVE  LoopInv'
<1> DEFINE v == region.vaddr
           s == call.size
           request == region.request
           page == Abs!Page(align_down(call.target, s), call.flags, s)
<1>1. /\ Blocks(mem, mem', v, s, Unmapped, page) /\ s \in PageSize /\ v \in VAddr
  BY MapPageWrites DEF RegionInv, MapRuns
<1>2. /\ UNCHANGED root_paddr /\ flusher' = push(flusher, call.vaddr) /\ Idle'
      /\ ret'.err = "Ok" /\ ret'.out.size = s
  BY DEF MapPage, NoCall, Idle, Ret
<1>3. flusher'.kind # "Closed"
  BY <1>2, PushOpen DEF RegionInv, LoopInv
<1>4. /\ region.op = "map" /\ request \in MapRequest /\ Progress(region)
      /\ call.target = request.get_paddr[v] /\ call.flags = request.flags
      /\ Fits(s) /\ PrefixOf(mem, region, v)
      /\ s = Size4K \/ (request.allow_huge /\ align_down(call.target, s) = call.target)
  BY DEF RegionInv, LoopInv, RequestOK, MapRuns, Chosen
<1>5. Aligned(v, s)
  BY <1>4 DEF Fits
<1>6. ASSUME NEW w \in VAddr, SameBlock(v, w, s) PROVE Wanted(region, w, page)
  <2>1. align_down(request.get_paddr[w], s) = align_down(call.target, s)
    <3>1. Contiguous(request)
      BY <1>4, RegionAssumption
    <3>2. v % PageBytes(s) = 0 /\ w \div PageBytes(s) = v \div PageBytes(s)
      BY <1>5, <1>6 DEF Aligned, SameBlock
    <3> HIDE DEF v, s
    <3> QED
      BY <1>1, <1>4, <3>1, <3>2 DEF Contiguous
  <2>2. CASE Accessible(request.flags)
    <3>1. page = [paddr |-> align_down(call.target, s), flags |-> ReadBack(request.flags),
                  size |-> s]
      BY <1>4, <2>2 DEF Abs!Page
    <3>2. s # -1
      BY <1>1 DEF PageSize, Size4K, Size2M, Size1G
    <3>3. page.size = s /\ page # Unmapped
      BY <3>1, <3>2 DEF Unmapped
    <3> QED
      BY <1>4, <2>1, <2>2, <3>1, <3>3 DEF Wanted
  <2>3. CASE ~Accessible(request.flags)
    <3>1. page = Unmapped
      BY <1>4, <2>3 DEF Abs!Page, Abs!Unmapped, Unmapped
    <3> QED
      BY <1>4, <2>3, <3>1 DEF Wanted
  <2> QED
    BY <2>2, <2>3
<1>7. PrefixOf(mem', region, v + PageBytes(s))
  <2>1. SameLoop(region, region)
    BY DEF SameLoop
  <2> HIDE DEF page, s
  <2> QED
    BY <1>1, <1>4, <1>5, <1>6, <2>1, PrefixGrows
<1>8. MapReturned'
  <2>1. PrefixOf(mem, region, region.vaddr + PageBytes(ret.out.size))'
    BY <1>2, <1>7, PrefixNext
  <2>2. Fits(ret.out.size)'
    BY <1>2, <1>4 DEF Fits, Aligned
  <2> QED
    BY <1>1, <1>2, <2>1, <2>2 DEF MapReturned
<1> QED
  BY <1>2, <1>3, <1>8, MappingNext DEF RegionInv

\* The map of a page goes on, with the memory it finds at each step.
LEMMA MapContinueStep ==
    RegionInv /\ region.pc # "None" /\ Continue /\ UNCHANGED region => RegionInv'
<1> SUFFICES ASSUME RegionInv, region.pc # "None", Continue, UNCHANGED region
             PROVE  RegionInv'
  OBVIOUS
<1>1. SUFFICES LoopInv'
  <2>1. IInv' /\ PathInv'
    BY TableStep DEF Next
  <2> QED
    BY <2>1 DEF RegionInv
<1>2. ~Idle
  BY DEF Continue, Advance, AllocFrame, AllocFail, ZeroFrame, LinkRoot, LinkTable,
         MapCreate, MapDescend, MapPage, MapOccupied, RemapSetFlags, FlushDone,
         FlushEntry, FlushAll, Idle
<1>3. region.pc = "Mapping" /\ MapRuns /\ LoopInv /\ IInv /\ PathInv
  BY <1>2 DEF RegionInv, LoopInv
<1>4. /\ call.op = "map" /\ call.pc \in {"Descend", "Alloc", "Zero", "Link"}
      /\ root_paddr # NoFrame
  BY <1>3 DEF MapRuns, IInv, TreeInv, CallInv
<1>5. TreeIn(mem, Linked)
  BY <1>3, <1>4, LinkedTree
<1>6. ASSUME NEW f \in Frame, NEW stale \in StaleTable, AllocFrame(f, stale)
      PROVE  LoopInv'
  <2>1. /\ call' = [call EXCEPT !.pc = "Zero", !.new = f]
        /\ UNCHANGED <<root_paddr, flusher>>
    BY <1>6 DEF AllocFrame
  <2>2. /\ call'.op = call.op /\ call'.pc = "Zero" /\ call'.vaddr = call.vaddr
        /\ call'.target = call.target /\ call'.size = call.size /\ call'.flags = call.flags
    BY <1>3, <2>1 DEF IInv, TypeOK, CallOK
  <2>3. \A w \in VAddr : query(mem', w) = query(mem, w)
    BY <1>3, <1>5, <1>6, AllocOutside, TreeUntouched
  <2> QED
    BY <1>3, <1>4, <2>1, <2>2, <2>3, MapGoesOn
<1>7. CASE AllocFail
  BY <1>3, <1>4, <1>7, MapGivesUp DEF AllocFail
<1>8. CASE ZeroFrame
  <2>1. call' = [call EXCEPT !.pc = "Link"] /\ UNCHANGED <<root_paddr, flusher>>
    BY <1>8 DEF ZeroFrame
  <2>2. /\ call'.op = call.op /\ call'.pc = "Link" /\ call'.vaddr = call.vaddr
        /\ call'.target = call.target /\ call'.size = call.size /\ call'.flags = call.flags
    BY <1>3, <2>1 DEF IInv, TypeOK, CallOK
  <2>3. \A w \in VAddr : query(mem', w) = query(mem, w)
    BY <1>5, <1>8, ZeroOutside, TreeUntouched
  <2> QED
    BY <1>3, <1>4, <2>1, <2>2, <2>3, MapGoesOn
<1>9. CASE LinkTable
  <2>1. /\ call' = [call EXCEPT !.pc = "Descend", !.table = call.new,
                                !.h = call.h - 1, !.new = NoFrame]
        /\ UNCHANGED <<root_paddr, flusher>>
    BY <1>9 DEF LinkTable
  <2>2. /\ call'.op = call.op /\ call'.pc = "Descend" /\ call'.vaddr = call.vaddr
        /\ call'.target = call.target /\ call'.size = call.size /\ call'.flags = call.flags
    BY <1>3, <2>1 DEF IInv, TypeOK, CallOK
  <2>3. /\ Links(mem, mem', Linked, call.vaddr, call.table, call.h, call.new)
        /\ call.vaddr \in VAddr
    BY <1>3, <1>9, LinkTableLinks
  <2>4. \A w \in VAddr : query(mem', w) = query(mem, w)
    BY <2>3, LinkKeeps
  <2> QED
    BY <1>3, <1>4, <2>1, <2>2, <2>4, MapGoesOn
<1>10. CASE MapCreate
  <2>1. call' = [call EXCEPT !.pc = "Alloc"] /\ UNCHANGED <<mem, root_paddr, flusher>>
    BY <1>10 DEF MapCreate
  <2>2. /\ call'.op = call.op /\ call'.pc = "Alloc" /\ call'.vaddr = call.vaddr
        /\ call'.target = call.target /\ call'.size = call.size /\ call'.flags = call.flags
    BY <1>3, <2>1 DEF IInv, TypeOK, CallOK
  <2> QED
    BY <1>3, <1>4, <2>1, <2>2, MapGoesOn
<1>11. CASE MapDescend
  <2>1. CASE IsTable(MapEntry)
    <3>1. /\ call' = [call EXCEPT !.table = pte_paddr(MapEntry), !.h = call.h - 1]
          /\ UNCHANGED <<mem, root_paddr, flusher>> /\ call.pc = "Descend"
      BY <1>11, <2>1 DEF MapDescend
    <3>2. /\ call'.op = call.op /\ call'.pc = "Descend" /\ call'.vaddr = call.vaddr
          /\ call'.target = call.target /\ call'.size = call.size
          /\ call'.flags = call.flags
      BY <1>3, <3>1 DEF IInv, TypeOK, CallOK
    <3> QED
      BY <1>3, <1>4, <3>1, <3>2, MapGoesOn
  <2>2. CASE ~IsTable(MapEntry)
    <3>1. next_table(MapEntry).err \in {"NotMapped", "MappedToHugePage"}
      BY <2>2 DEF IsTable, next_table
    <3>2. Fail("map", call.vaddr, next_table(MapEntry).err)
      BY <1>11, <2>2 DEF MapDescend
    <3> QED
      BY <1>3, <3>1, <3>2, MapGivesUp
  <2> QED
    BY <2>1, <2>2
<1>12. CASE MapPage
  BY <1>3, <1>12, MapSucceeds
<1>13. CASE MapOccupied
  BY <1>3, <1>13, MapGivesUp DEF MapOccupied
<1>14. ~LinkRoot /\ ~RemapSetFlags /\ ~FlushDone /\ ~FlushAll /\ ~(\E v \in VAddr : FlushEntry(v))
  BY <1>4 DEF LinkRoot, RemapSetFlags, FlushDone, FlushAll, FlushEntry
<1> QED
  BY <1>6, <1>7, <1>8, <1>9, <1>10, <1>11, <1>12, <1>13, <1>14 DEF Continue, Advance

\* The loop takes note of what map returned.
LEMMA MapRegionNextStep == RegionInv /\ MapRegionNext => RegionInv'
<1> SUFFICES ASSUME RegionInv, MapRegionNext PROVE RegionInv'
  OBVIOUS
<1>1. /\ region.pc = "Mapping" /\ Idle /\ UNCHANGED vars
      /\ region' = IF ret.err = "Ok" THEN Passed(ret.out.size) ELSE Stop("Failed")
  BY DEF MapRegionNext
<1>2. /\ IsLoop(region) /\ RequestOK(region) /\ Progress(region)
      /\ flusher.kind # "Closed" /\ MapReturned
  BY <1>1 DEF RegionInv, LoopInv
<1>3. IInv' /\ PathInv'
  BY <1>1, TableStep
<1>4. /\ UNCHANGED <<mem, root_paddr>> /\ flusher'.kind # "Closed" /\ Idle'
  BY <1>1, <1>2 DEF vars, Idle
<1>5. CASE ret.err = "Ok"
  <2> DEFINE s == ret.out.size
  <2>1. s \in PageSize /\ Fits(s) /\ PrefixOf(mem, region, region.vaddr + PageBytes(s))
    BY <1>2, <1>5 DEF MapReturned
  <2>2. /\ IsLoop(region') /\ SameLoop(region, region') /\ region'.pc = "Loop"
        /\ region'.vaddr = region.vaddr + PageBytes(s)
        /\ region'.size = region.size - PageBytes(s)
    BY <1>1, <1>2, <1>5, PassedPage
  <2> HIDE DEF s
  <2>3. Progress(region')
    BY <1>2, <2>1, <2>2, ProgressMade DEF Fits, SameLoop
  <2>4. RequestOK(region')
    BY <1>1, <1>2, <2>2, RequestKept
  <2>5. PrefixOf(mem', region', region'.vaddr)
    BY <1>4, <2>1, <2>2, PrefixKept
  <2> QED
    BY <1>3, <1>4, <2>2, <2>3, <2>4, <2>5, LoopNext DEF RegionInv
<1>6. CASE ret.err # "Ok"
  <2>1. /\ IsLoop(region') /\ SameLoop(region, region') /\ region'.pc = "Failed"
        /\ region'.vaddr = region.vaddr /\ region'.size = region.size
    BY <1>1, <1>2, <1>6, Stopped
  <2>2. Progress(region') /\ RequestOK(region')
    BY <1>2, <2>1, RequestKept, ProgressKept
  <2>3. PrefixOf(mem, region, region.vaddr)
    BY <1>2, <1>6 DEF MapReturned
  <2>4. PrefixOf(mem', region', region'.vaddr)
    BY <1>4, <2>1, <2>3, PrefixKept
  <2> QED
    BY <1>3, <1>4, <2>1, <2>2, <2>4, LoopNext DEF RegionInv
<1> QED
  BY <1>5, <1>6
---------------------------------------------------------------------------
(* unmap_region and protect_region *)

\* What both loops do with a page: it is passed, or the assertions fail.
LEMMA PageStep ==
    ASSUME RegionInv, region.pc = "Loop", NEW s \in PageSize, NEW old, NEW new,
           region' = IF Fits(s) THEN Passed(s) ELSE Stop("Panicked"),
           Blocks(mem, mem', region.vaddr, s, old, new), region.vaddr \in VAddr,
           \A w \in VAddr :
               SameBlock(region.vaddr, w, s) /\ region.before[w] = old
                   => Wanted(region, w, new),
           IF old = Unmapped THEN new = Unmapped
           ELSE /\ old.size = s
                /\ \A w \in VAddr : Wanted(region, w, old) => Wanted(region, w, new),
           UNCHANGED <<root_paddr, call>>, flusher'.kind # "Closed"
    PROVE  LoopInv'
<1>1. /\ IsLoop(region) /\ RequestOK(region) /\ Progress(region) /\ Idle'
      /\ PrefixOf(mem, region, region.vaddr)
  BY DEF RegionInv, LoopInv, Idle
<1>2. CASE Fits(s)
  <2>1. /\ IsLoop(region') /\ SameLoop(region, region') /\ region'.pc = "Loop"
        /\ region'.vaddr = region.vaddr + PageBytes(s)
        /\ region'.size = region.size - PageBytes(s)
    BY <1>1, <1>2, PassedPage
  <2>2. Progress(region')
    BY <1>1, <1>2, <2>1, ProgressMade DEF Fits, SameLoop
  <2>3. RequestOK(region')
    BY <1>1, <2>1, RequestKept
  <2>4. PrefixOf(mem', region', region'.vaddr)
    BY <1>1, <1>2, <2>1, PrefixGrows DEF Fits
  <2> QED
    BY <1>1, <2>1, <2>2, <2>3, <2>4, LoopNext
<1>3. CASE ~Fits(s)
  <2>1. /\ IsLoop(region') /\ SameLoop(region, region') /\ region'.pc = "Panicked"
        /\ region'.vaddr = region.vaddr /\ region'.size = region.size
    BY <1>1, <1>3, Stopped
  <2>2. Progress(region') /\ RequestOK(region')
    BY <1>1, <2>1, RequestKept, ProgressKept
  <2>3. StoppedOf(mem', region')
    BY <1>1, <2>1, StopGrows
  <2> QED
    BY <1>1, <2>1, <2>2, <2>3, PanickedNext
<1> QED
  BY <1>2, <1>3

\* An error ends a loop, whose work stays.
LEMMA FailStep ==
    ASSUME RegionInv, region.pc = "Loop", region' = Stop("Failed"),
           \A w \in VAddr : query(mem', w) = query(mem, w),
           UNCHANGED <<root_paddr, call>>, flusher'.kind # "Closed"
    PROVE  LoopInv'
<1>1. /\ IsLoop(region) /\ RequestOK(region) /\ Progress(region) /\ Idle'
      /\ PrefixOf(mem, region, region.vaddr)
  BY DEF RegionInv, LoopInv, Idle
<1>2. /\ IsLoop(region') /\ SameLoop(region, region') /\ region'.pc = "Failed"
      /\ region'.vaddr = region.vaddr /\ region'.size = region.size
  BY <1>1, Stopped
<1>3. Progress(region') /\ RequestOK(region')
  BY <1>1, <1>2, RequestKept, ProgressKept
<1>4. PrefixOf(mem', region', region'.vaddr)
  BY <1>1, <1>2, PrefixKept
<1> QED
  BY <1>1, <1>2, <1>3, <1>4, LoopNext

\* unmap_region clears the next page, or stops at a hole.
LEMMA UnmapRegionPageStep == RegionInv /\ UnmapRegionPage => RegionInv'
<1> SUFFICES ASSUME RegionInv, UnmapRegionPage PROVE RegionInv'
  OBVIOUS
<1> DEFINE v == region.vaddr
           old == query(mem, v)
           h == get_entry(mem, v).h
<1>1. /\ region.pc = "Loop" /\ region.op = "unmap" /\ region.size > 0 /\ Unmap(v)
      /\ region' = IF ret'.err # "Ok" THEN Stop("Failed")
                   ELSE IF Fits(ret'.out.size) THEN Passed(ret'.out.size)
                   ELSE Stop("Panicked")
  BY DEF UnmapRegionPage, Looping
<1>2. IInv /\ RequestOK(region) /\ Progress(region) /\ flusher.kind # "Closed"
  BY <1>1 DEF RegionInv, LoopInv
<1>3. v \in VAddr
  BY <1>1, <1>2, NextInUse
<1>4. SUFFICES LoopInv'
  <2>1. Next
    BY <1>1, <1>3 DEF Next, Begin
  <2> QED
    BY <2>1, TableStep DEF RegionInv
<1>5. CASE get_entry(mem, v).err = "Ok"
  <2>1. /\ UNCHANGED <<height, root_paddr, call>> /\ h \in PageSize
        /\ old = Unmapped \/ old.size = h
        /\ Blocks(mem, mem', v, h, old, Unmapped)
        /\ IF old # Unmapped
           THEN flusher' = push(flusher, v) /\ ret' = Ret("unmap", v, "Ok", old)
           ELSE flusher' = flusher /\ ret' = Ret("unmap", v, "NotMapped", Unmapped)
    BY <1>1, <1>2, <1>3, <1>5, UnmapWrites
  <2>2. flusher'.kind # "Closed"
    BY <1>2, <2>1, PushOpen
  <2>3. CASE old # Unmapped
    <3>1. ret'.err = "Ok" /\ ret'.out.size = h
      BY <2>1, <2>3 DEF Ret
    <3>2. region' = IF Fits(h) THEN Passed(h) ELSE Stop("Panicked")
      BY <1>1, <3>1
    <3>3. \A w \in VAddr : Wanted(region, w, Unmapped)
      BY <1>1 DEF Wanted
    <3> HIDE DEF old, h
    <3> QED
      BY <1>1, <1>3, <2>1, <2>2, <3>2, <3>3, PageStep
  <2>4. CASE old = Unmapped
    <3>1. region' = Stop("Failed")
      BY <1>1, <2>1, <2>4 DEF Ret
    <3>2. \A w \in VAddr : query(mem', w) = query(mem, w)
      BY <2>1, <2>4 DEF Blocks
    <3> QED
      BY <1>1, <2>1, <2>2, <3>1, <3>2, FailStep
  <2> QED
    BY <2>3, <2>4
<1>6. CASE get_entry(mem, v).err # "Ok"
  <2>1. Fail("unmap", v, get_entry(mem, v).err)
    BY <1>1, <1>6 DEF Unmap
  <2>2. /\ ret'.err # "Ok" /\ UNCHANGED <<mem, root_paddr, flusher, call>>
    BY <1>1, <1>2, <1>6, <2>1, HasCore, IdleNoNew DEF Fail, Ret, Unmap, CursorIdle
  <2> QED
    BY <1>1, <1>2, <2>2, FailStep
<1> QED
  BY <1>5, <1>6

\* A descent that succeeds answers a slot.
LEMMA FoundIsSlot ==
    ASSUME IInv, CursorIdle, NEW v \in VAddr, get_entry(mem, v).err = "Ok"
    PROVE  get_entry(mem, v) = Slot(get_entry(mem, v).table, get_entry(mem, v).h)
<1>1. PICK t \in Linked, h \in PageSize : root_paddr # NoFrame /\ Ends(mem, v, t, h)
  BY FoundEnds
<1>2. get_entry(mem, v) = Found(mem[t][p_index(v, h)], t, h)
  BY <1>1, LinkedTree, EndEntry
<1>3. h \in 0 .. 2
  BY DEF PageSize, Size4K, Size2M, Size1G
<1>4. h = 0 \/ next_table(mem[t][p_index(v, h)]).err # "Ok"
  BY <1>1, <1>3 DEF Ends, Goes, IsTable
<1>5. get_entry(mem, v) = Slot(t, h)
  BY <1>2, <1>3, <1>4 DEF Found, NoSlot
<1> QED
  BY <1>5 DEF Slot

\* The write of protect_region to an entry that is present: the one of protect.
LEMMA ProtectPage ==
    ASSUME IInv, CursorIdle, NEW v \in VAddr, NEW f \in Flags, NEW t, NEW h, NEW e,
           get_entry(mem, v) = Slot(t, h), e = mem[t][p_index(v, h)], pte_is_present(e),
           mem' = SetEntry(t, v, h, pte_set_flags(e, f, h # Size4K)),
           flusher' = push(flusher, v), UNCHANGED <<height, root_paddr, call>>
    PROVE  /\ IInv' /\ PathInv' /\ h \in PageSize
           /\ LET old == query(mem, v)
              IN  /\ old = [paddr |-> pte_paddr(e), flags |-> pte_flags(e), size |-> h]
                  /\ Blocks(mem, mem', v, h, old, Abs!Page(pte_paddr(e), f, h))
<1> DEFINE i == p_index(v, h)
           g == pte_set_flags(e, f, h # Size4K)
<1>1. /\ get_entry(mem, v).err = "Ok" /\ get_entry(mem, v).table = t
      /\ get_entry(mem, v).h = h /\ Idle
  BY DEF Slot, CursorIdle
<1>2. /\ t \in Linked /\ h \in PageSize
      /\ call.new = NoFrame /\ root_paddr # NoFrame
      /\ t \in Frame /\ height[t] = h
      /\ i \in Idx /\ mem[t][i] \in PTE
      /\ h # 0 => pte_is_huge(mem[t][i])
      /\ ~Leads(t, i)
  BY <1>1, HasCore, FoundSlot
<1>3. Ends(mem, v, t, h) /\ query(mem, v) = PageOf(e, h)
  BY <1>1, FoundEnds
<1>4. mem' = [mem EXCEPT ![t][i] = g]
  BY DEF SetEntry
<1>5. g \in PTE /\ PageOf(g, h) = Abs!Page(pte_paddr(e), f, h) /\ (h = 0 \/ ~IsTable(g))
  BY <1>2, PageWritten
<1>6. IInv'
  <2>1. FlusherOK'
    BY PushTyped DEF IInv, TypeOK
  <2>2. CallOK' /\ CallInv' /\ call'.new = call.new
    BY <1>1, HasCore, StillIdle
  <2> HIDE DEF g, i
  <2>3. CoreInv' /\ TreeKept
    BY <1>2, <1>4, <1>5, <2>1, <2>2, HasCore, WriteStep
  <2> QED
    BY <2>3, KeptTree
<1>7. PathInv'
  BY <1>1, HasCore, IdleNoNew, PathReturns
<1>8. Blocks(mem, mem', v, h, PageOf(e, h), PageOf(g, h))
  <2> HIDE DEF g
  <2> QED
    BY <1>2, <1>3, <1>4, <1>5, WrittenBlocks
<1>9. PageOf(e, h) = [paddr |-> pte_paddr(e), flags |-> pte_flags(e), size |-> h]
  BY <1>2 DEF PageOf, PageSize, Size4K, Size2M, Size1G
<1> HIDE DEF g
<1> QED
  BY <1>2, <1>3, <1>5, <1>6, <1>7, <1>8, <1>9

\* protect_region changes the flags of the next page, or passes a hole.
LEMMA ProtectRegionPageStep == RegionInv /\ ProtectRegionPage => RegionInv'
<1> SUFFICES ASSUME RegionInv, ProtectRegionPage PROVE RegionInv'
  OBVIOUS
<1> DEFINE v == region.vaddr
           f == region.request.flags
           slot == get_entry(mem, v)
           e == mem[slot.table][p_index(v, slot.h)]
           page == IF slot.err = "Ok" THEN slot.h ELSE Size4K
<1>1. /\ region.pc = "Loop" /\ region.op = "protect" /\ region.size > 0
      /\ IF slot.err = "Ok" /\ pte_is_present(e)
         THEN /\ mem' = SetEntry(slot.table, v, slot.h, pte_set_flags(e, f, slot.h # Size4K))
              /\ flusher' = push(flusher, v)
         ELSE UNCHANGED <<mem, flusher>>
      /\ region' = IF slot.err \notin {"Ok", "NotMapped"} THEN Stop("Failed")
                   ELSE IF Fits(page) THEN Passed(page)
                   ELSE Stop("Panicked")
      /\ UNCHANGED <<height, root_paddr, call, ret>>
  BY DEF ProtectRegionPage, Looping
<1>2. /\ IInv /\ PathInv /\ RequestOK(region) /\ Progress(region)
      /\ CursorIdle /\ flusher.kind # "Closed"
  BY <1>1 DEF RegionInv, LoopInv, CursorIdle
<1>3. v \in VAddr /\ f \in Flags
  BY <1>1, <1>2, NextInUse DEF RequestOK
<1>4. flusher'.kind # "Closed"
  BY <1>1, <1>2, PushOpen
<1>5. CASE slot.err = "Ok" /\ pte_is_present(e)
  <2>1. PICK t \in Linked, h \in PageSize : slot.table = t /\ slot.h = h
    BY <1>2, <1>3, <1>5, FoundEnds
  <2>2. slot = Slot(t, h)
    BY <1>2, <1>3, <1>5, <2>1, FoundIsSlot
  <2> DEFINE old == query(mem, v)
             new == Abs!Page(pte_paddr(e), f, h)
  <2>3. /\ IInv' /\ PathInv'
        /\ old = [paddr |-> pte_paddr(e), flags |-> pte_flags(e), size |-> h]
        /\ Blocks(mem, mem', v, h, old, new)
    BY <1>1, <1>2, <1>3, <1>5, <2>1, <2>2, ProtectPage
  <2>4. region' = IF Fits(h) THEN Passed(h) ELSE Stop("Panicked")
    BY <1>1, <1>5, <2>1
  <2>5. ASSUME NEW w \in VAddr, region.before[w] = old PROVE Wanted(region, w, new)
    <3>1. CASE Accessible(f)
      <4>1. new = [paddr |-> pte_paddr(e), flags |-> ReadBack(f), size |-> h]
        BY <3>1 DEF Abs!Page
      <4>2. h # -1
        BY DEF PageSize, Size4K, Size2M, Size1G
      <4>3. old # Unmapped
        BY <2>3, <4>2 DEF Unmapped
      <4>4. new = [old EXCEPT !.flags = ReadBack(f)]
        BY <2>3, <4>1
      <4> HIDE DEF old, new
      <4> QED
        BY <1>1, <2>5, <3>1, <4>3, <4>4 DEF Wanted
    <3>2. CASE ~Accessible(f)
      <4>1. new = Unmapped
        BY <3>2 DEF Abs!Page, Abs!Unmapped, Unmapped
      <4> QED
        BY <1>1, <3>2, <4>1 DEF Wanted
    <3> QED
      BY <3>1, <3>2
  <2>6. old # Unmapped /\ old.size = h
    <3>1. h # -1
      BY DEF PageSize, Size4K, Size2M, Size1G
    <3> QED
      BY <2>3, <3>1 DEF Unmapped
  <2>7. ASSUME NEW w \in VAddr, Wanted(region, w, old) PROVE Wanted(region, w, new)
    <3> DEFINE b == region.before[w]
    <3>1. Accessible(f) /\ b # Unmapped /\ old = [b EXCEPT !.flags = ReadBack(f)]
      <4> HIDE DEF old, new
      <4> QED
        BY <1>1, <2>6, <2>7 DEF Wanted
    <3>2. new = [old EXCEPT !.flags = ReadBack(f)]
      BY <2>3, <3>1 DEF Abs!Page
    <3> HIDE DEF old, new, b
    <3>3. new = [b EXCEPT !.flags = ReadBack(f)]
      BY <3>1, <3>2
    <3> QED
      BY <1>1, <3>1, <3>3 DEF Wanted, b
  <2>8. LoopInv'
    <3> HIDE DEF old, new
    <3> QED
      BY <1>1, <1>3, <1>4, <2>3, <2>4, <2>5, <2>6, <2>7, PageStep
  <2> QED
    BY <2>3, <2>8 DEF RegionInv
<1>6. CASE ~(slot.err = "Ok" /\ pte_is_present(e))
  <2>1. UNCHANGED <<mem, height, root_paddr, flusher, call, ret>>
    BY <1>1, <1>6
  <2>2. IInv' /\ PathInv'
    BY <2>1, TableStep DEF vars
  <2>3. query(mem, v) = Unmapped /\ root_paddr # NoFrame
    <3>1. CASE slot.err = "Ok"
      BY <1>2, <1>3, <1>6, <3>1, FoundEnds DEF PageOf
    <3>2. CASE slot.err # "Ok"
      BY <1>2, <1>3, <3>2, NotFound
    <3> QED
      BY <3>1, <3>2
  <2>4. page \in PageSize /\ Blocks(mem, mem, v, page, Unmapped, Unmapped)
    <3>1. CASE slot.err = "Ok"
      <4>1. PICK t \in Linked, h \in PageSize : slot.h = h /\ Ends(mem, v, t, h)
        BY <1>2, <1>3, <3>1, FoundEnds
      <4> QED
        BY <1>2, <1>3, <2>3, <3>1, <4>1, HoleBlock
    <3>2. CASE slot.err # "Ok"
      BY <1>2, <1>3, <2>3, <3>2, HoleBlock DEF PageSize
    <3> QED
      BY <3>1, <3>2
  <2>5. CASE slot.err \in {"Ok", "NotMapped"}
    <3>1. region' = IF Fits(page) THEN Passed(page) ELSE Stop("Panicked")
      BY <1>1, <2>5
    <3>2. \A w \in VAddr : region.before[w] = Unmapped => Wanted(region, w, Unmapped)
      BY <1>1 DEF Wanted
    <3> HIDE DEF page
    <3>3. Blocks(mem, mem', v, page, Unmapped, Unmapped)
      BY <2>1, <2>4
    <3>4. LoopInv'
      BY <1>1, <1>3, <1>4, <2>1, <2>4, <3>1, <3>2, <3>3, PageStep
    <3> QED
      BY <2>2, <3>4 DEF RegionInv
  <2>6. CASE slot.err \notin {"Ok", "NotMapped"}
    <3>1. region' = Stop("Failed")
      BY <1>1, <2>6
    <3>2. LoopInv'
      BY <1>1, <1>4, <2>1, <3>1, FailStep
    <3> QED
      BY <2>2, <3>2 DEF RegionInv
  <2> QED
    BY <2>5, <2>6
<1> QED
  BY <1>5, <1>6

\* A loop returns.
LEMMA RegionReturnStep == RegionInv /\ RegionReturn => RegionInv'
<1> SUFFICES ASSUME RegionInv, RegionReturn PROVE RegionInv'
  OBVIOUS
<1>1. region' = NoRegion /\ UNCHANGED vars
  BY DEF RegionReturn
<1> QED
  BY <1>1, TableStep, NoLoopNext DEF RegionInv

\* Nothing happens.
LEMMA RegionStutter == RegionInv /\ UNCHANGED regionVars => RegionInv'
<1> SUFFICES ASSUME RegionInv, UNCHANGED regionVars PROVE RegionInv'
  OBVIOUS
<1>1. UNCHANGED <<mem, height, root_paddr, flusher, call, ret, region>>
  BY DEF regionVars
<1>2. IInv' /\ PathInv'
  BY <1>1, TableStep DEF vars
<1>3. SameLoop(region, region') /\ region'.vaddr = region.vaddr
  BY <1>1 DEF SameLoop
<1>4. CASE region.pc = "None"
  BY <1>1, <1>2, <1>4, NoLoopNext DEF RegionInv, LoopInv
<1>5. CASE region.pc \in {"Loop", "Failed"}
  <2>1. PrefixOf(mem', region', region'.vaddr)
    BY <1>1, <1>3, <1>5, PrefixKept DEF RegionInv, LoopInv
  <2>2. /\ IsLoop(region') /\ RequestOK(region') /\ Progress(region')
        /\ flusher'.kind # "Closed" /\ Idle'
    BY <1>1, <1>5 DEF RegionInv, LoopInv, Idle
  <2> QED
    BY <1>1, <1>2, <1>5, <2>1, <2>2, LoopNext DEF RegionInv
<1>6. CASE region.pc = "Panicked"
  <2>1. /\ IsLoop(region') /\ RequestOK(region') /\ Progress(region')
        /\ flusher'.kind # "Closed" /\ Idle'
    BY <1>1, <1>6 DEF RegionInv, LoopInv, Idle
  <2>2. StoppedOf(mem', region')
    BY <1>1, <1>3, <1>6 DEF RegionInv, LoopInv
  <2> QED
    BY <1>1, <1>2, <1>6, <2>1, <2>2, PanickedNext DEF RegionInv
<1>7. CASE region.pc = "Mapping" /\ Idle
  <2>1. MapReturned /\ flusher'.kind # "Closed" /\ LoopInv
    BY <1>1, <1>7 DEF RegionInv, LoopInv
  <2>2. MapReturned'
    <3>1. CASE ret.err = "Ok"
      <4>1. PrefixOf(mem', region', region'.vaddr + PageBytes(ret'.out.size))
        BY <1>1, <1>3, <2>1, <3>1, PrefixKept DEF MapReturned
      <4>2. Fits(ret.out.size)'
        BY <1>1, <2>1, <3>1 DEF MapReturned, Fits, Aligned
      <4> QED
        BY <1>1, <2>1, <3>1, <4>1, <4>2, PrefixNext DEF MapReturned
    <3>2. CASE ret.err # "Ok"
      <4>1. PrefixOf(mem', region', region'.vaddr)
        BY <1>1, <1>3, <2>1, <3>2, PrefixKept DEF MapReturned
      <4> QED
        BY <1>1, <3>2, <4>1, PrefixNext DEF MapReturned
    <3> QED
      BY <3>1, <3>2
  <2> QED
    BY <1>1, <1>2, <1>7, <2>1, <2>2, MappingNext DEF RegionInv, Idle
<1>8. CASE region.pc = "Mapping" /\ ~Idle
  <2>1. MapRuns /\ LoopInv
    BY <1>8 DEF RegionInv, LoopInv
  <2>2. LoopInv'
    BY <1>1, <1>8, <2>1, MapGoesOn DEF MapRuns
  <2> QED
    BY <1>2, <2>2 DEF RegionInv
<1> QED
  BY <1>4, <1>5, <1>6, <1>7, <1>8 DEF RegionInv, LoopInv

\* No loop has begun.
LEMMA RegionInitInv == RegionInit => RegionInv
<1> SUFFICES ASSUME RegionInit PROVE RegionInv
  OBVIOUS
<1>1. IInv /\ PathInv
  BY InitInv, InitPath DEF RegionInit
<1>2. region = NoRegion /\ region.pc = "None" /\ IsLoop(region)
  BY DEF RegionInit, NoRegion, IsLoop
<1> QED
  BY <1>1, <1>2 DEF RegionInv, LoopInv

\* Every step keeps the invariant.
LEMMA RegionStep == RegionInv /\ [RegionNext]_regionVars => RegionInv'
<1> SUFFICES ASSUME RegionInv, [RegionNext]_regionVars PROVE RegionInv'
  OBVIOUS
<1>1. CASE RegionBegin
  BY <1>1, RegionBeginStep
<1>2. CASE Between
  BY <1>2, BetweenStep
<1>3. CASE MapRegionPage
  BY <1>3, MapRegionPageStep
<1>4. CASE MapRegionNext
  BY <1>4, MapRegionNextStep
<1>5. CASE UnmapRegionPage
  BY <1>5, UnmapRegionPageStep
<1>6. CASE ProtectRegionPage
  BY <1>6, ProtectRegionPageStep
<1>7. CASE RegionReturn
  BY <1>7, RegionReturnStep
<1>8. CASE Continue /\ UNCHANGED region
  <2>1. CASE region.pc = "None"
    <3>1. region' = NoRegion
      BY <1>8, <2>1 DEF RegionInv, LoopInv
    <3> QED
      BY <1>8, <3>1, TableStep, NoLoopNext DEF RegionInv, Next
  <2>2. CASE region.pc # "None"
    BY <1>8, <2>2, MapContinueStep
  <2> QED
    BY <2>1, <2>2
<1>9. CASE UNCHANGED regionVars
  BY <1>9, RegionStutter
<1> QED
  BY <1>1, <1>2, <1>3, <1>4, <1>5, <1>6, <1>7, <1>8, <1>9 DEF RegionNext, RegionContinue

\* The invariants of the table and of the loops hold of every behaviour.
THEOREM RegionInvariance == RegionSpec => []RegionInv
<1>1. RegionInit => RegionInv
  BY RegionInitInv
<1>2. RegionInv /\ [RegionNext]_regionVars => RegionInv'
  BY RegionStep
<1> QED
  BY <1>1, <1>2, PTL DEF RegionSpec

\* At every iteration and return of map_region, unmap_region and
\* protect_region, whatever the region, the sizes of its pages and the memory
\* left, the part of the region that was passed translates as asked and
\* nothing else has changed; when one panics, the page it stopped at was changed
\* too, all of it, and nothing else.
THEOREM RegionsDone == RegionSpec => []RegionPrefix
<1>1. RegionInv => RegionPrefix
  <2> SUFFICES ASSUME RegionInv, region.pc \in {"Loop", "Failed", "Panicked"}
               PROVE  \A v \in VAddr :
                         IF Reached(v) THEN Wanted(region, v, query(mem, v))
                         ELSE query(mem, v) = region.before[v]
    BY DEF RegionPrefix
  <2>1. CASE region.pc \in {"Loop", "Failed"}
    BY <2>1 DEF RegionInv, LoopInv, PrefixOf, Reached
  <2>2. CASE region.pc = "Panicked"
    BY <2>2 DEF RegionInv, LoopInv, StoppedOf, Reached, SameBlock
  <2> QED
    BY <2>1, <2>2
<1> QED
  BY <1>1, RegionInvariance, PTL

\* An assertion fails on a cut page, or in a region not made of 4K pages.
LEMMA PanicStep == ASSUME UnusedIsNoPage PROVE
    RegionInv /\ [RegionNext]_regionVars =>
        (region.pc # "Panicked" /\ region'.pc = "Panicked" =>
            \/ ~Aligned(region.request.vaddr, Size4K)
            \/ ~Aligned(region.request.size, Size4K)
            \/ PageIsCut)
<1> SUFFICES ASSUME RegionInv, [RegionNext]_regionVars,
                    region.pc # "Panicked", region'.pc = "Panicked",
                    Aligned(region.request.vaddr, Size4K),
                    Aligned(region.request.size, Size4K)
             PROVE  PageIsCut
  OBVIOUS
<1> DEFINE v == region.vaddr
           slot == get_entry(mem, v)
<1>1. IsLoop(region)
  BY DEF RegionInv, LoopInv
<1>2. UnmapRegionPage \/ ProtectRegionPage
  <2>1. ~RegionBegin /\ ~Between
    BY DEF RegionBegin, MapRegion, UnmapRegion, ProtectRegion, Start, Between
  <2>2. ~MapRegionPage /\ ~MapRegionNext
    BY <1>1, Stopped, PassedPage DEF MapRegionPage, MapRegionNext
  <2>3. ~RegionReturn /\ ~(UNCHANGED region) /\ ~(UNCHANGED regionVars)
    BY DEF RegionReturn, NoRegion, regionVars
  <2> QED
    BY <2>1, <2>2, <2>3 DEF RegionNext, RegionContinue
<1>3. region.pc = "Loop" /\ region.size > 0
  BY <1>2 DEF UnmapRegionPage, ProtectRegionPage, Looping
<1>4. IInv /\ RequestOK(region) /\ Progress(region) /\ CursorIdle
  BY <1>3 DEF RegionInv, LoopInv, CursorIdle
<1>5. v \in VAddr
  BY <1>3, <1>4, NextInUse
<1>6. Fits(Size4K)
  BY <1>3, <1>4, SmallPageFits DEF Fits
<1>7. slot.err = "Ok" /\ ~Fits(slot.h)
  <2>1. CASE UnmapRegionPage
    <3>1. /\ Unmap(v)
          /\ region' = IF ret'.err # "Ok" THEN Stop("Failed")
                       ELSE IF Fits(ret'.out.size) THEN Passed(ret'.out.size)
                       ELSE Stop("Panicked")
      BY <2>1 DEF UnmapRegionPage
    <3>2. ret'.err = "Ok" /\ ~Fits(ret'.out.size)
      BY <1>1, <3>1, Stopped, PassedPage
    <3>3. slot.err = "Ok"
      BY <3>1, <3>2 DEF Unmap, Fail, Ret
    <3>4. ret'.out.size = slot.h
      <4>1. /\ query(mem, v) = Unmapped \/ query(mem, v).size = slot.h
            /\ IF query(mem, v) # Unmapped
               THEN ret' = Ret("unmap", v, "Ok", query(mem, v))
               ELSE ret' = Ret("unmap", v, "NotMapped", Unmapped)
        BY <1>4, <1>5, <3>1, <3>3, UnmapWrites
      <4> QED
        BY <3>2, <4>1 DEF Ret
    <3> QED
      BY <3>2, <3>3, <3>4
  <2>2. CASE ProtectRegionPage
    <3> DEFINE page == IF slot.err = "Ok" THEN slot.h ELSE Size4K
    <3>1. region' = IF slot.err \notin {"Ok", "NotMapped"} THEN Stop("Failed")
                    ELSE IF Fits(page) THEN Passed(page)
                    ELSE Stop("Panicked")
      BY <2>2 DEF ProtectRegionPage
    <3>2. ~Fits(page)
      <4> HIDE DEF page
      <4> QED
        BY <1>1, <3>1, Stopped, PassedPage
    <3> QED
      BY <1>6, <3>2
  <2> QED
    BY <1>2, <2>1, <2>2
<1>8. slot.h \in PageSize
  BY <1>4, <1>5, <1>7, FoundEnds
<1>9. PageBytes(slot.h) \in Nat /\ region.size \in Nat
  BY <1>4, <1>8, PageMultiple DEF Progress
<1>10. slot.h # Size4K
  BY <1>6, <1>7
<1>11. ~pte_is_unused(mem[slot.table][p_index(v, slot.h)])
  <2>1. /\ mem[slot.table][p_index(v, slot.h)] \in PTE
        /\ pte_is_huge(mem[slot.table][p_index(v, slot.h)])
    BY <1>4, <1>5, <1>7, <1>10, FoundSlot, HasCore DEF CursorIdle, Size4K
  <2> QED
    BY <2>1, PteUnused DEF UnusedIsNoPage
<1> QED
  BY <1>7, <1>9, <1>10, <1>11 DEF PageIsCut, Fits

\* In a format whose unused entry is no huge page, unmap_region and
\* protect_region panic only where a region not made of 4K pages, or one that
\* begins or ends inside a huge page in use, makes them; map_region never does.
THEOREM PanicsAreCuts == ASSUME UnusedIsNoPage PROVE RegionSpec => PanicMeansCut
<1>1. RegionInv /\ [RegionNext]_regionVars =>
        (region.pc # "Panicked" /\ region'.pc = "Panicked" =>
            \/ ~Aligned(region.request.vaddr, Size4K)
            \/ ~Aligned(region.request.size, Size4K)
            \/ PageIsCut)
  BY PanicStep
<1> QED
  BY <1>1, RegionInvariance, PTL DEF RegionSpec, PanicMeansCut
===========================================================================
