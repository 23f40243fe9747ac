# A TLA+ model of `page_table_multiarch`

The repository holds two crates: `page_table_entry`, the raw entries of five
architectures behind the trait `GenericPTE`, and `page_table_multiarch`, the
tables built from them: `PageTable64` (three or four levels), `PageTable32`
(ARMv7-A), the cursors that modify them and flush the TLB. This directory
specifies them, checks the specifications with TLC on small tables, and proves
the safety properties and a refinement with TLAPS for tables of every size.

## 1. The system

| Part | Source | State | Operations |
|---|---|---|---|
| `PageTable64` | `page_table_multiarch/src/bits64.rs` | the root's address; the table frames in memory | `try_new`, `query`, `walk`, `cursor`, `drop` |
| `PageTable64Cursor` | same | a mutable borrow of the table; the flush requests (`TlbFlusher`) | `map`, `remap`, `protect`, `unmap`, `flush`, `drop`; `map_region`, `unmap_region`, `protect_region`; `copy_from` |
| `PageTable32` and its cursor | `bits32.rs` | the same with two levels, and a bitmap of borrowed entries | the same |
| Entry formats | `page_table_entry/src/arch/*.rs` | 64 or 32 bits | `new_page`, `new_table`, `paddr`, `flags`, `set_paddr`, `set_flags`, `is_unused`, `is_present`, `is_huge`, `clear` |
| Metadata, `flush_tlb` | `page_table_multiarch/src/arch/*.rs`, `lib.rs` | none | levels and TLB instructions per architecture |
| `PagingHandler` | the kernel (`lib.rs` has the trait) | free frames | `alloc_frame`, `dealloc_frame`, `phys_to_virt` |

How they interact. A cursor borrows its table mutably, so no two operations on
one table overlap in software. Three things happen around an operation all the
same: the hardware walker reads the tables, without a lock, between any two
writes; the allocator may fail at each level of a descent and may hand out
frames that still hold old entries; and the TLB keeps what the walker read until
the cursor's requests, recorded one by one and flushed together, remove it.
Entries carry no type: whether one is unused, a page, a huge page or a table is
inferred from bits whose meaning differs between the formats.

What is hard, and what makes each part correct (the full list, line by line, is
under "hazards" in `PROJECT.json`):

* the linked frames are a tree of allocated, zeroed tables, through huge pages,
  failed maps and recycled frames, so that `drop` frees each frame exactly once;
* an operation changes the translations of one aligned block or of none, and its
  answer says which;
* when the cursor is dropped, nothing the TLB holds is stale, even when the
  array of 32 requests overflowed;
* the region loops do their work on a prefix, page by page, and end;
* an entry reads back what was written, in each format.

## 2. Modules

| Module | Models | State and actions |
|---|---|---|
| `MappingFlags` | `MappingFlags` | sets of flags |
| `X64PTE`, `A64PTE`, `Rv64PTE`, `LA64PTE`, `A32PTE` | the five formats | none: an entry is the set of its 1 bits, an or is a union |
| `PteFormats` | one entry written through the trait | `entry`; `asked`, what the calls asked for; `legible`, whether an ARMv7 entry shows its address; `NewPage`, `NewTable`, `SetPaddr`, `SetFlags`, `Clear` |
| `GenericPTE` | the trait, as constant operators | what the table code relies on is stated as assumptions |
| `PageTable64` | the table and the operations of the cursor on single pages | below |
| `AddressSpace` | the promise, without tables | `space`, what `query` answers for each address; `ret` |
| `Mmu` | `PageTable64` and the TLB of any one CPU | `cpu`, `active`, `tlb`, `missed`; `Fill`, `InvalidatePage`, `InvalidateAll`, `Activate`, `Deactivate` |
| `PageTable64Region` | `map_region`, `unmap_region`, `protect_region` over `PageTable64` | `region`, the loop in progress |
| `PageTable64Walk` | `walk`, as the sequence of calls it makes | none of its own |
| `PageTable64Copy` | two tables, `copy_from` and the drop that spares `borrowed_entries` | `borrowed_entries`, `other`; `CopyFrom`, `DropOwn`, `Switch`, and the steps of `PageTable64` |
| `PageTable32` | the ARMv7-A table and its cursor, `copy_from` and `drop` | below |
| `PageTable32Region` | the region operations over `PageTable32` | `region` |
| `PageTable32Walk` | `walk` over `PageTable32` | none of its own |
| `PageTable64_proofs`, `PageTable64Space_proofs`, `PageTable64Region_proofs`, `PageTable64Copy_proofs`, `Mmu_proofs`, `PageTable32_proofs`, `PteFormats_proofs` | | theorems, see 4 |
| `DivisionLemmas` | | lemmas on quotients and remainders that the address arithmetic needs |
| `MC*` | | values of the constants for TLC |

The modules compose: `PageTable64` extends `GenericPTE` and is extended by
`Mmu`, `PageTable64Region`, `PageTable64Walk` and `PageTable64Copy`, as
`PageTable32` is by its region and walk modules. `PageTable64` and `PageTable32`
each instantiate the one `AddressSpace`. `PteFormats` instantiates the five
formats, and `MCA64`, `MCRv64`, `MCLA64` and `MCA32` give them to the table
modules as values of the constants of `GenericPTE`.

`PageTable64` corresponds to the code as follows.

* `mem` maps each allocated table frame to its entries; `root_paddr` is the
  field; `flusher` is the cursor's `TlbFlusher`, "Closed" when no cursor exists;
  `call` is the operation in progress and `ret` what the last one returned.
  `height` is auxiliary: the level each frame was allocated for.
* The page sizes 4K, 2M and 1G are the heights 0, 1 and 2 of the table their
  entry lives in; `PageBytes` gives the bytes of each.
* An operation with a single write is one action (`Protect`, `Unmap`). An
  operation with several is one action per write: `map` is `Map`, then for each
  missing level `MapCreate`, `AllocFrame` or `AllocFail`, `ZeroFrame`,
  `LinkTable`, and for each existing one `MapDescend`, and ends in `MapPage`,
  `MapOccupied` or an error; `remap` is `Remap` (`set_paddr`) and
  `RemapSetFlags`; `flush` is `Flush`, `FlushEntry` or `FlushAll`, `FlushDone`.
* `get_p1` to `get_p4` are the levels of `get_entry` and `get_entry_mut`, which
  differ in mutability only. They keep the code's order of tests: `is_huge`
  before `next_table` on p3 and p2, `next_table` alone on p4.
* `Drop` is one action: nothing observes the tables while they are freed. The
  tables freed are computed level by level, as `dealloc_tree` recurses.
* The frame a table is made in may hold anything in `StaleTable`.

`PageTable64Copy` keeps two tables over one allocator. The operations work on
the current one, and `Switch` makes the other one current, which Rust's borrows
allow only while no cursor is open. `copy_from` is one action, with
`dealloc_tree` of what it replaces. `DropOwn` replaces `Drop`. What the code
leaves to its callers is stated at the actions: a table that lends is dropped
last and borrows nothing itself. `CopyUnused` says whether callers also copy
entries that lead to no table.

`PageTable32` corresponds to the code as follows.

* `l1` is the first level, `NoTable` when there is no page table; its frames are
  not tracked, since nothing but `try_new` and `drop` touches them. `l2` maps each
  allocated frame of the second level to its entries. `borrowed_entries` is the
  set of the bits that are 1.
* The operations that write once (`remap`, `protect`, `unmap`, and the loop bodies
  of the regions) are one action each, through `SetEntry`. `map` is `Map`, then
  `MapCreate` when there is no table yet, `MapNoMemory` when there is no frame,
  `MapInSection` when a section is in the way, and ends in `MapPage` or
  `MapOccupied`. A table is zeroed before it is linked and only then visible, so
  `MapCreate` is one action.
* The table that `copy_from` reads, the lender, is the kernel's and outlives the
  others: `Lender` and `LenderTable` are constants whose frames are allocated
  from the start. Callers copy entries that lead to tables; `copy_unused` (see 5)
  is about the others, and the same code is in both tables.
* `query` carries the raw entry beside its answer. It is auxiliary: A32PTE reads
  the flags of small pages back wrongly (see 5), so the refinement of
  `AddressSpace` takes for `flags` those the entry can have been written with
  (`Written`).

Left out of `PageTable64`: the offset that `query` adds to the page's address;
`Size1M`, which only the 32-bit table uses; the feature `copy-from` (off by
default; `PageTable64Copy` has it); `trace!` and `error!`. Virtual
addresses are numbers, so the indices are computed as the code does; physical
addresses and entries are sets of bits.

## 3. What is checked

| Run | Instance | Shows |
|---|---|---|
| `implements` | Sv39: 3 levels, `Rv64PTE` | `ImplementsAddressSpace`: through the refinement mapping `View` every step of the table is a step of `AddressSpace` or a stutter |
| `tree` | aarch64: 4 levels, `A64PTE` | `TypeOK`, `NoDanglingTable`, `NoSharedTable`, `NoLeakedTable`; `WalkFindsPages`: walk visits the pages that query finds, once each and in order |
| `tlb` | aarch64: 4 levels, `A64PTE`, the TLB of the cursor's CPU or of another | `NoStaleTranslation` once the cursor is gone, `StaleIsRecorded` while it is open |
| `regions` | Sv39 | `RegionPrefix` at every iteration and where an assertion fails, `PanicMeansCut`, `RegionReturns` |
| `formats` | the five formats | `FlagsKept`, `AddressKept`, `KindKept` over all 64 flag sets, with exceptions for ARMv7, see below |
| `copy` | two Sv39 tables; callers copy populated entries only | `CopyNoDangling`, `OwnersDisjoint`, `CopyNoLeak` over both tables, `BorrowedIsShared` after the copy, `CopyCoversRange` |
| `copy_unused` | the same, callers copy any entry | a counterexample to the documentation of `PageTable64`, see 5 |
| `walk_la64` | LoongArch64: 4 levels, `LA64PTE` | a counterexample to `WalkFindsPages`, see 5 |
| `remap_a64` | aarch64 | a counterexample to the documentation of `remap`, see 5 |
| `pt32` | ARMv7-A: `A32PTE`, the region loops and a lender | `TypeOK`; `TablesAllocated`, `TablesUnshared`, `TablesFreed`: the second-level tables stay the table's or the lender's; `ImplementsAddressSpace` for every operation but the copy; `ChangeIsRecorded`; `RegionPrefix`, `RegionReturns` |
| `pt32_query` | the same | a counterexample to the documentation of `query`, see 5 |
| `walk32` | ARMv7-A, with room for three entries in a frame | a counterexample to `WalkFindsPages`, see 5 |

Each property of a passing run is accompanied by a faulty variant of a
definition, next to it in the same module (`push_Forgets`, `ZeroFrame_Short`,
...), under which TLC finds it violated.

**The refinement.** `AddressSpace` has no tables, no levels and no frames. The
mapping takes `query` of the memory for `space`. A remap takes effect at its
first write: between the two writes `View` shows the table as the second one
will leave it, which is what an operation that cannot fail any more promises.
`AddressSpace` allows `map` to fail on a free block, since it does (no memory,
or a table left behind by earlier pages); it allows `remap` to fill a hole, as
the code does on the last level. `MapError` says which error a failed map may
answer of what is mapped at its address: memory runs out only on the way to a
hole; `MappedToHugePage` is answered of a huge page that does not lie at address
0, and `NotMapped` of one that does, since `next_table` looks at the address first
(`bits64.rs:132`). One of the targets of `implements` becomes 0 when it is aligned
down to a huge page and the other does not, so both answers occur.

**The exceptions of ARMv7.** An `A32PTE` does not say whether it is a small page or
a section, and `PteFormats` makes every write the code can make of it. The properties
say what is not claimed. `AddressKept` is claimed of an ARMv7 entry while `legible`
holds; the code reads another address back after a page was made without flags, a
section at address 0, or an executable small page above 1M off the megabytes
(`Addressable`), and after `set_paddr` of a small page. `set_flags` then writes the wrong
address back, so flags never make an entry legible again; only a new address for a
section, or `clear`, does. `FlagsKept` is claimed of
sections only, and `KindKept` not of pages without flags. For the other four formats
there is no exception but the two of a page without flags and at address 0 that
`KindKept` names, and the debug assertion of RISC-V.

**Regions that panic.** `unmap_region` and `protect_region` change a page before they
look at its size. `RegionPrefix` says what is left when the assertion fails:
the work is done on the prefix and on the whole page the assertion is about, nowhere
else. `PanicMeansCut` says that such a page, in use, is the only reason to panic
besides a region not made of 4K pages. Its comment names the exception: on aarch64 an
unused entry above the last level counts as a huge page (see 5).

**Other CPUs.** `Mmu` follows one TLB, that of the cursor's CPU or of another,
chosen at the start; the TLBs do not influence each other or the table, so one
stands for all. `Reach` says which invalidations get to it: on aarch64 an address
is invalidated on every CPU (`tlbi vaae1is`), everything only on the CPU that
executes it (`tlbi vmalle1`). Past 32 changed pages a flush is a full one, and
from then on another CPU may keep stale entries. Nothing in the repository
promises otherwise, so the run does not call it a violation: such a TLB is marked
`missed` and not followed until the kernel switches tables, and the run shows
that all is well until then. On x86_64, RISC-V and LoongArch64 neither
instruction reaches another CPU, and only the cursor's own is covered.

**Bounds.** The 64-bit tables have two entries (`ENTRY_COUNT = 2`), so that pages
of 4K, 8K and 16K stand for 4K, 2M and 1G. The code treats all entries of a table
alike, and two are enough for an entry beside the one written, for a huge page
over several small ones and for two tables under one. Four levels are checked
where the tree or the TLB is the question, three where the answers are. There are
as many frames as one full path needs, plus one in `tree`, so that one map
succeeds and another runs out; `AllocFail` may also happen at any time. The
addresses of `tree` are two pages of one last-level table and one under another
entry of the root; in `implements` one is inside a page, and a page of each huge
size covers both; in `tlb` there are the two that one huge page also covers. The
physical address is one that becomes 0 when it is aligned down to a huge page,
and in `implements` also one that stays different. `SMALL_FLUSH_THRESHOLD` is 1 or 2, so that the array fills and overflows.
The flags are two, readable and read-write; `tlb` has a third, with which an
aarch64 entry is in use and not present, so that `unmap` also clears an entry that
needs no request. In `regions` five requests cover one page of each size, memory
unaligned to the huge pages, a start between them, no huge pages at all, and a
size that is not made of pages. In `copy` the four frames hold a full path below
one root, or a table below each; pages are of 4K or of 1G, the size whose entry
the copy replaces; the ranges are empty, one entry, part of an entry, and both
entries. In `formats` every set of flags is tried, with addresses at both ends of
the field.

`pt32` has two entries on each level (sections of 8K), two frames, one of them
the lender's, and three addresses: both pages of a section, and one that the
lender also maps. They are mapped to the megabyte at 1M, given by its first or its
second page. The array of flush requests holds one. The regions cover a
section and a page, pages only and a size that is not made of pages. The
operations of the format are tabulated over the entries that can occur
(`PaddrOf`, ...), which TLC evaluates once. `walk32` gives a second-level frame
three entries where `get_table` takes four, as the code takes 4096 where 1024
fit.

**Fairness.** `RegionFairness` asks only that the thread in a region operation goes
on with it (`WF_regionVars(RegionContinue)`); nothing makes a thread begin one, and no
allocation is assumed to succeed. That is the code's scheduling: a cursor's operation
is a plain function call that waits for nothing. What `RegionReturns` asks is that
the loops, which advance by sizes they find in the table, come to an end. (`FairSpec`
of `PageTable64` says the same of single operations; that these return is plain, no
property states it, and `remap_a64` alone runs under it.)

**Deadlock.** Allowed only in `regions` and `pt32`, where a failed assertion
stops the thread ("Panicked").

**Outside the repository.** The allocator (`AllocChoice`, `StaleTable`) hands out
frames that are free and never the frame at address 0, which `next_table` takes
for no table and `tests/alloc_tests.rs:92` asserts. (`PageTable32` has no such
rule.) The hardware walker reads as
`query` does and caches what is present. The kernel starts using a table with an
empty TLB, empties it when it stops, and does not drop a table in use: the crate
itself leaves that to the kernel.

## 4. What is proved

### Tables of 64-bit entries

`PageTable64_proofs` proves, for every number of entries, three or four levels,
any set of frames, virtual and physical addresses, any allocator and any entry
format that satisfies the assumptions of `GenericPTE`:

* `TypeCorrectness`: `Spec => []TypeOK`, with the flusher's array within its
  capacity;
* `TablesAllocated`, `TablesUnshared`, `TablesFreed`:
  `Spec => []NoDanglingTable`, `[]NoSharedTable`, `[]NoLeakedTable`.

The last three speak of the tables reachable from the root, level by level, and
none is inductive: a write deep in the tree has to be related to the whole path
above it. The inductive invariant `IInv == TypeOK /\ TreeInv` replaces levels by
the height a frame was allocated for:

* `RootInv`: the root is a linked frame of the top height, or nothing is linked;
* `ChildInv`: an entry of a linked table above the last level that `next_table`
  accepts leads to a linked table one level down;
* `UniqueInv`: no two such entries lead to one table;
* `ParentInv`: every linked table but the root hangs from such an entry;
* `CallInv`: what the operation in progress knows: where it stands, that the
  frame it is about to link is zeroed, that the entry it is about to fill is
  unused, that the entry of a remap stays huge.

`CoreInv` is what an operation relies on itself: `TypeOK`, `ChildInv`, `CallInv` and
the root's part of `RootInv`. Every action keeps it and either keeps the tree
(`TreeKept`), makes an empty table the root (`RootLinked`) or hangs an empty table
from an entry that led nowhere (`TableLinked`); an operation that writes an entry
writes one that leads to no table before and after (`WriteStep`: pages, and
everything on the last level). From these three kinds of steps `UniqueInv` and
`ParentInv` follow once, and so does the ownership of two tables below.
`TreeIsLinked` shows that the levels `Drop` visits are exactly the linked frames,
from which the properties follow and with which `DropStep` is proved.

`PageTable64Space_proofs` proves `Refinement`, `Spec => ImplementsAddressSpace`: each
write of each operation is a step of `AddressSpace` or a stutter. It rests on

* the path of an address: a descent ends in one table (`PathTyped`), two addresses
  come to the same entry of a table of height `h` exactly when they lie in one page
  of that height, so a write changes one aligned block of addresses and no other;
* `PathInv`, the invariant that `IInv` lacks: a map or remap in progress stands in
  the table that the descent for its address comes to. `PathInvariance` proves it
  of every behaviour.

The same module proves `WalkFinds`, `TablesPresent => (Spec => []WalkFindsPages)`: in
every state between operations `walk` without a limit calls its functions on exactly
the pages that `query` finds. `TablesPresent` says that an entry which links a table
shows as present. `TablesShow` proves it of x86_64, aarch64 and RISC-V entries; it is
false on LoongArch64, where `walk` finds nothing (see 5). The two functions differ in
how they tell a page from a table: `walk` goes down only from entries that are present,
the descent of `query` looks at presence nowhere but in the entry it ends at. That they
agree needs `EntryInv`, which `EntryInvariance` proves: above the last level an entry of
a linked table that leads to a table is present, and a present one that
leads to none is a huge page. The rest is about the calls as a sequence: those for an
entry, for a table and for a level show exactly the pages below it, in the order of
their addresses and inside its range (`EntryShows`, `TableShows`, `LevelShows`). The
entries of a table are joined by an induction on `Nat` that is derived without an
operator parameter (`Induction`, from `WFMin`), and the levels, three or four, one
after the other.

`Mmu_proofs` proves `NoneStale` and `StaleRecorded`, `MmuSpec =>
[]NoStaleTranslation` and `[]StaleIsRecorded`, for any number of
levels and entries and any capacity of the array, and `MmuRefinement`, that the table goes on
implementing `AddressSpace` beside the hardware. `StaleIsRecorded` is inductive only
together with `IInv` and `PathInv`: that a request for one address removes what is
stale at every address of its page needs to know that the step changed no other page.

`PageTable64Region_proofs` proves `RegionsDone`, `RegionSpec => []RegionPrefix`, and
`PanicsAreCuts`, `RegionSpec => PanicMeansCut` under the hypothesis `UnusedIsNoPage`:
the format does not take the unused entry for a huge page. `UnusedShows` in
`PteFormats_proofs` proves this of x86_64, RISC-V and LoongArch64 and its negation of
aarch64. The loop invariant says, besides the work done,
that the loop stands a whole number of 4K pages past its start and that the map it
waits for is the one it asked for. A loop's steps are steps of `PageTable64` except
those of `protect_region`, which writes entries itself; `RegionInvariance` shows
that these keep `IInv` and `PathInv` too.

`PageTable64Copy_proofs` proves of two tables that share entries, when callers copy
populated entries only: `CopiesAllocated`, `OwnersApart`, `CopiesLeakNothing` and
`BorrowedAlike`, `CopySpec => []CopyNoDangling`, `[]OwnersDisjoint`, `[]CopyNoLeak`,
`[]BorrowedIsShared`. In any case `CopiesCover`: `CopySpec => CopyCoversRange`. The
invariant calls an entry owned when it leads to a table and is not borrowed. Each
table but a root has exactly one owner (`OwnUniqueInv`, `OwnParentInv`), and a
borrowed entry still equals the lender's and leads to a table (`BorrowInv`).
`SubtablesOwned` shows that what `dealloc_tree` visits from entries that are owned is
closed under ownership, so a drop or a copy frees all of it and nothing else
(`DropOwnStep`, `CopyFromStep`). `Climb`, that owners lead up to a root, then gives
disjointness and absence of leaks. Without the condition on the callers `BorrowInv`
fails: it is what run `copy_unused` shows.

### The ARMv7-A table

`PageTable32_proofs` proves, for any number of entries on either level, any page
size and capacity of the array, any lender, allocator and addresses:

* `TypeCorrectness`, and `NothingFreedInUse`, `NothingFreedTwice`, `NothingLost`:
  `Spec => []TypeOK`, `[]TablesAllocated`, `[]TablesUnshared`, `[]TablesFreed`;
* `EveryChangeRecorded`: `Spec => ChangeIsRecorded`. No step replaces or removes a
  translation without a request, one that covers its page or a full flush.

The invariant adds to these `CursorInv` (a cursor is open on a table only, a map
in progress on a cursor) and `BorrowedInv`: a borrowed entry still is the
lender's and leads to a table. Without it the three are not inductive: a table of
our own hung from an entry that is marked borrowed would be lost by the next
copy or drop. It holds because no operation on a page writes an entry that leads
to a table (`WriteTree`). It is also where the condition on the callers of
`copy_from` is needed: an entry that is copied unused and filled later breaks it.
`EveryChangeRecorded` rests on arithmetic as much as on the tree: the write of one
entry changes only addresses with the same indices (`WriteRecorded`, through
`TablesUnshared`), and those are in one page of the size found (`SameSection`,
`SamePage`, from `DivideTwice` and `SpanAssumption`, that addresses have 32 bits).

Three more theorems are about what the table answers:

* `OnlyPagesAndTables`: `PagesInv` holds beside `IInv`: every entry is unused, leads
  to a table, or is a section or small page at an address and with flags that
  callers use (`PagesInUse`). It is needed because the entry does not say which of
  the three it is, and only of what callers write does the format promise that it reads
  back as such (`PageAssumption`).
* `AddressSpaceImplemented`: `Spec => ImplementsAddressSpace`, the `AddressSpace`
  that the 64-bit tables implement too, for every step but the copy. Each
  operation is shown twice: the address it works on gets the answer it should, and
  the addresses outside its page keep theirs.
* `RegionsDone`: `RegionSpec => []RegionPrefix`, from the loop invariant of
  `RegionInvariance`: the work done is the work asked for, page by page, up to where the
  loop stands (`PrefixOf`), the loop stands between the ends of its request and at a
  whole number of pages (`Progress`), the page size it chose fits (`Chosen`), and the map
  it waits for is the one it asked for (`MapRuns`, `MapReturned`). `RegionsUseTable`,
  `RegionSpec => Spec`, says that the loops do nothing a caller of the single-page
  operations could not do, so that everything above holds of them as well.

### The formats

`PteFormats_proofs` proves `AddressIsKept`, `Spec => []AddressKept`, for every set
of 4K-aligned addresses below 2^48 where the run has six. The theorem has the
exception of its property: of ARMv7 entries it speaks while `legible` holds. The
invariant says, for
the 64-bit formats, that the address field holds the address asked for; no more
is needed, since no attribute has a bit in it (`X64Apart`, ...). An ARMv7 entry
does not say where its address is, so for it the invariant gives the whole entry,
and `Addressable` is a condition under which `paddr` finds the address (`A32Field`).
What `set_flags` leaves of an entry that is not legible is followed, too, as far as
its kind goes (`A32SmallPageMoved`, `A32NoFlags`).
`FlagsAreKept` and `KindIsKept` prove `[]FlagsKept` and `[]KindKept`, of ARMv7 with the
exceptions stated there: the flags of small pages read back wrong and are not claimed. Their invariant adds
what the entry holds beside the address (`BesideInv`) and what callers have asked
for so far (`CallerInv`: flags only of a page).
`X64IsGeneric`, `A64IsGeneric`, `Rv64IsGeneric`, `LA64IsGeneric`, `A32IsGeneric`
show that each format satisfies what `GenericPTE` assumes, so that the theorems
about the tables hold of the real entries: RISC-V for the flags inside
`debug_assert!(flags.intersects(R | X))`, ARMv7 for flags that are not empty. `X64Keeps`, `A64Keeps`,
`Rv64Keeps` and `LA64Keeps` do the same for `PteKeeps`, which the refinement and the
regions need. A32PTE does not satisfy that one, since it takes every page for a
section (see 5); `A32Keeps` proves what the 32-bit proofs assume in its place,
`PageAssumption`, of the sections above address 0 and of the small pages that are
not executable, and these are the limits of `AddressSpaceImplemented`.

### Assumptions

They are stated in the modules that declare the constants. On the format:
`PteTyping`, `PteUnused`, `PteTable`, `PteHuge` in `GenericPTE` and `PteKeeps` in
`PageTable64`, all of them proved of the real formats in `PteFormats_proofs`. On the
surroundings of the code:

* `AllocAssumption`: the allocator hands out free frames, never the one at address 0;
* `LevelsAssumption`, `CountAssumption`: three or four levels; positive numbers of
  entries, bytes and requests;
* `CanonicalAssumption`: callers use canonical addresses, so that the index in the root
  determines which part of the address space is meant;
* `RegionAssumption`: callers of the region operations pass ranges of addresses in
  use, and `get_paddr` is contiguous on each page that the loop may choose, as the documentation of `map_region` has it ("physical memory regions");
* `CopyAssumption`, `RangeAssumption`: a range that is copied consists of canonical
  addresses;
* `PopulatedOnly`, a hypothesis of the theorems on copies: callers copy entries that
  lead to tables;
* `TablesPresent`, a hypothesis of `WalkFinds`: the format shows tables as present;
* `UnusedIsNoPage`, a hypothesis of `PanicsAreCuts`: the unused entry is no huge page;
* for `PageTable32`: `CountAssumption`, `AllocAssumption`, `LenderAssumption`,
  `UseAssumption` and `SpanAssumption`; `PageAssumption`, that callers map sections and
  small pages whose entries read back (`A32Keeps` says which do); `LenderPages`, that
  the same holds of the pages in the lender's tables; and its own `RegionAssumption`, as for
  the 64-bit tables.

TLC evaluates each of them on the instances of A64PTE, Rv64PTE, LA64PTE and A32PTE
that it checks.

### Only model-checked

Liveness (`RegionReturns`), which is beyond the provers; and `walk`
with a limit, of which no property speaks.

## 5. Where the code and its documentation part

* `remap` (`bits64.rs:386`) promises `NotMapped` when an intermediate table is
  missing. On aarch64 the zero entry counts as a block (`NON_BLOCK` is clear), so
  `get_entry_mut` returns it and `remap` turns the hole into a page of 2M or 1G
  (run `remap_a64`). Three of the four levels are enough: at p4 the address 0 of
  the entry is looked at first.
* `protect_region` passes over what is not mapped ("ignore if not present",
  `bits64.rs:555`). On aarch64 the same unused entry is taken for a page of 2M or
  1G, which the region does not contain, and an assertion fails: `PanicMeansCut`, which
  counts no hole as a page, is false there, while on RISC-V the same call passes the hole
  (run `regions`). No run of the project shows it: the documentation asks for a region
  mapped before. An instance of `PageTable64Region` over `MCA64`, like the one
  over `MCRv64`, finds it with `protect_region` of <<4096, 8192>> after a map that failed
  for memory below the first level. (A root's entry of address 0 is looked at first.)
* `walk` (`bits64.rs:75`) promises to walk the table recursively. It goes down
  only into entries that are present (`bits64.rs:263`), and an entry that
  `LA64PTE::new_table` makes has no bit but the address: on loongarch64 the walk
  ends in the root (run `walk_la64`). Where tables show as present the same
  property holds (run `tree`, theorem `WalkFinds`).
* `PageTable64` promises that intermediate tables are deallocated on drop
  (`bits64.rs:31`). `copy_from` also marks unused entries borrowed, and a table
  that a later `map` makes below one is never freed (run `copy_unused`). With
  populated entries only, nothing is lost (`CopyNoLeak` in run `copy`).
* `query` of `PageTable32` (`bits32.rs:97`) promises the mapping flags. A small
  page has AP, TEX and S six bits lower than a section (`arm.rs:193`), and
  `A32PTE::flags` reads every entry as a section: a page mapped READ is answered
  as READ and WRITE (run `pt32_query`). Nor can `paddr` tell an executable small
  page from a section: above 1M its address is cut to a megabyte, and `protect`
  writes the cut address back (no run: `pt32` maps no executable pages).
* `PageTable32` documents 256 entries on the second level (`bits32.rs:38`);
  `get_table` takes 4096 of any table, and `walk` visits them all, 12K of them
  behind the table's frame (run `walk32`).
* `copy_from` of `PageTable32` says it does no "smart flush or tracking borrowing
  for now in 32-bit" (`bits32.rs:506`). It does track what it borrows, and
  `TablesUnshared` shows that it needs to.

## 6. Not modelled, and what could follow

Not modelled:

* a walker that reads between the steps of a `copy_from`, which frees a table
  before it overwrites the entry that leads there; the copies are one action;
* the region loops and the copies under the TLB: the loops are made of the
  single-page operations that `Mmu` has, the copies ask for a full flush;
* walk caches of the hardware (entries of upper levels held in the TLB);
* the lender of a 32-bit copy being changed or dropped meanwhile (`PageTable64Copy`
  has a lender that changes);
* addresses at the top of the address space, where `vaddr + size` overflows.

Left out for good: Debug output, the `axerrno` conversion and the logging (no
state); the TLB instructions themselves; `paddr_is_valid` and `vaddr_is_valid`,
which the tables never call; the features `arm-el2` and `xuantie-c9xx`, which
change single bits of two formats.
