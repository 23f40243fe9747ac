------------------------------ MODULE Rv64PTE -----------------------------
(***************************************************************************)
(* The Sv39/Sv48 page table entry (page_table_entry/src/arch/riscv.rs),    *)
(* built without the feature xuantie-c9xx.  An entry is the set of the     *)
(* positions of its 1 bits; the physical page number sits 2 bits lower in  *)
(* the entry than in the address, so the field holds `paddr >> 2`.         *)
(***************************************************************************)
EXTENDS MappingFlags

V == 0
R == 1
W == 2
X == 3
U == 4
A == 6
D == 7

PHYS_ADDR_MASK == 10..53

\* paddr >> 2 and field << 2: bits move, those pushed below 0 are lost.
ShiftRight2(bits) == {b - 2 : b \in {c \in bits : c >= 2}}
ShiftLeft2(bits)  == {b + 2 : b \in bits}

\* impl From<MappingFlags> for PTEFlags
PTEFlags(f) ==
    IF f = {} THEN {}
    ELSE {V, A, D}
         \cup BitIf("READ" \in f, R)
         \cup BitIf("WRITE" \in f, W)
         \cup BitIf("EXECUTE" \in f, X)
         \cup BitIf("USER" \in f, U)

\* debug_assert!(flags.intersects(R | X)) of new_page and set_flags, which a
\* debug build panics on: callers stay inside it.
DebugAssert(flags) == PTEFlags(flags) \cap {R, X} # {}

\* impl From<PTEFlags> for MappingFlags
flags_of(e) ==
    IF V \notin e THEN {}
    ELSE BitIf(R \in e, "READ") \cup BitIf(W \in e, "WRITE")
         \cup BitIf(X \in e, "EXECUTE") \cup BitIf(U \in e, "USER")

new_page(paddr, flags, huge) ==
    PTEFlags(flags) \cup (ShiftRight2(paddr) \cap PHYS_ADDR_MASK)

new_table(paddr) == {V} \cup (ShiftRight2(paddr) \cap PHYS_ADDR_MASK)

paddr_of(e) == ShiftLeft2(e \cap PHYS_ADDR_MASK)

\* A faulty variant of set_paddr: the address is not shifted into its field.
set_paddr_Unshifted(e, paddr) == (e \ PHYS_ADDR_MASK) \cup (paddr \cap PHYS_ADDR_MASK)

set_paddr(e, paddr) == (e \ PHYS_ADDR_MASK) \cup (ShiftRight2(paddr) \cap PHYS_ADDR_MASK)

set_flags(e, flags, huge) == (e \cap PHYS_ADDR_MASK) \cup PTEFlags(flags)

is_unused(e) == e = {}

is_present(e) == V \in e

\* A leaf is an entry with R or X; the is_huge argument is never stored.
is_huge(e) == e \cap {R, X} # {}
===========================================================================
