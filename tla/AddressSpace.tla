--------------------------- MODULE AddressSpace ---------------------------
(***************************************************************************)
(* What a page table promises its callers, without tables: a partial map   *)
(* from virtual pages to pages, which each operation changes in one        *)
(* aligned block or not at all, and what each operation may answer.        *)
(* `space` is what `query` answers for each address.                       *)
(***************************************************************************)
EXTENDS Integers

CONSTANTS VAddr, PageSize, Target, Flags,
          PA0,                \* physical address 0
          PageBytes(_),       \* bytes of a page of a size
          align_down(_, _),   \* a physical address, aligned to a size
          Accessible(_),      \* the flags a format shows as present
          ReadBack(_)         \* the flags it reads back

VARIABLES space, ret

avars == <<space, ret>>

Unmapped == [size |-> -1]

\* The addresses in the block of the given size around v.
Block(v, size) == {w \in VAddr : w \div PageBytes(size) = v \div PageBytes(size)}

Free(B) == LET s == space IN \A w \in B : s[w] = Unmapped
OnePage(B, size) ==
    LET s == space
    IN  \E p \in {s[w] : w \in B} : p.size = size /\ \A w \in B : s[w] = p

Page(paddr, flags, size) ==
    IF Accessible(flags)
    THEN [paddr |-> paddr, flags |-> ReadBack(flags), size |-> size]
    ELSE Unmapped

Put(B, page) ==
    LET s == space
    IN  space' = [w \in VAddr |-> IF w \in B THEN page ELSE s[w]]

\* The block around v becomes one of the pages.
PutOneOf(v, size, pages) ==
    LET page == space'[v]
    IN  page \in pages /\ Put(Block(v, size), page)

Answer(op, v, err, out) ==
    ret' = [op |-> op, err |-> err, vaddr |-> v, out |-> out]

\* A failed operation changes no translation.
Fails(op, v, errors) ==
    /\ \E err \in errors : Answer(op, v, err, Unmapped)
    /\ UNCHANGED space

\* A map that succeeds finds the whole block free and fills it.
MapOk(v, size) ==
    /\ Answer("map", v, "Ok", [size |-> size])
    /\ Free(Block(v, size))
    /\ PutOneOf(v, size, {Page(align_down(p, size), f, size) : p \in Target, f \in Flags})

\* What a failed map may answer of an address where it leaves `old`: that
\* memory ran out only on the way to a hole; that a huge page is in the way
\* only of one that does not lie at address 0, and of that one that nothing is
\* mapped.  A page that does not show (Accessible) may be in the way of a hole.
MapError(err, old) ==
    LET huge == old # Unmapped /\ old.size # 0
    IN  \/ err = "AlreadyMapped"
        \/ err = "NoMemory" /\ old = Unmapped
        \/ err = "MappedToHugePage" /\ (old = Unmapped \/ (huge /\ old.paddr # PA0))
        \/ err = "NotMapped" /\ (old = Unmapped \/ (huge /\ old.paddr = PA0))

MapFails(v) ==
    Fails("map", v, {err \in {"NoMemory", "AlreadyMapped", "MappedToHugePage", "NotMapped"} :
                        MapError(err, space[v])})

\* A remap replaces one whole page, of the size it answers, or fills a hole.
RemapOk(v, size) ==
    /\ Answer("remap", v, "Ok", [size |-> size])
    /\ Free(Block(v, size)) \/ OnePage(Block(v, size), size)
    /\ PutOneOf(v, size, {Page(p, f, size) : p \in Target, f \in Flags})

\* A remap that fails found nothing at v.
RemapFails(v) ==
    /\ Fails("remap", v, {"NotMapped", "MappedToHugePage"})
    /\ space[v] = Unmapped

\* A protect changes the flags of the page at v and nothing else of it.
ProtectOk(v) ==
    LET old == space[v]
    IN  /\ old # Unmapped
        /\ Answer("protect", v, "Ok", [size |-> old.size])
        /\ PutOneOf(v, old.size, {Page(old.paddr, f, old.size) : f \in Flags})

ProtectFails(v) ==
    /\ Fails("protect", v, {"NotMapped", "MappedToHugePage"})
    /\ space[v] = Unmapped

\* An unmap removes the page at v and answers what the page was.
UnmapOk(v) ==
    LET old == space[v]
    IN  /\ old # Unmapped
        /\ Answer("unmap", v, "Ok", old)
        /\ Put(Block(v, old.size), Unmapped)

UnmapFails(v) ==
    /\ Fails("unmap", v, {"NotMapped", "MappedToHugePage"})
    /\ space[v] = Unmapped

\* The operations on the address v, each with its two outcomes.
Map(v) ==
    /\ ret'.op = "map" /\ ret'.vaddr = v
    /\ MapFails(v) \/ \E s \in PageSize : MapOk(v, s)

Remap(v) ==
    /\ ret'.op = "remap" /\ ret'.vaddr = v
    /\ RemapFails(v) \/ \E s \in PageSize : RemapOk(v, s)

Protect(v) ==
    /\ ret'.op = "protect" /\ ret'.vaddr = v
    /\ ProtectFails(v) \/ ProtectOk(v)

Unmap(v) ==
    /\ ret'.op = "unmap" /\ ret'.vaddr = v
    /\ UnmapFails(v) \/ UnmapOk(v)

\* A new, empty space, or none for want of memory.
Create ==
    /\ \E err \in {"Ok", "NoMemory"} : Answer("try_new", 0, err, Unmapped)
    /\ Free(VAddr)
    /\ UNCHANGED space

\* The last answer is forgotten when an operation begins.
Begins ==
    /\ Answer("none", 0, "none", Unmapped)
    /\ UNCHANGED space

Destroy ==
    /\ Answer("none", 0, "none", Unmapped)
    /\ Put(VAddr, Unmapped)

Init ==
    /\ space = [v \in VAddr |-> Unmapped]
    /\ ret = [op |-> "none", err |-> "none", vaddr |-> 0, out |-> Unmapped]

Next ==
    \/ Create \/ Begins \/ Destroy
    \/ \E v \in VAddr : Map(v) \/ Remap(v) \/ Protect(v) \/ Unmap(v)

Spec == Init /\ [][Next]_avars
===========================================================================
