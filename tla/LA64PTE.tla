------------------------------ MODULE LA64PTE -----------------------------
(***************************************************************************)
(* The LoongArch64 page table entry                                        *)
(* (page_table_entry/src/arch/loongarch64.rs).  An entry is the set of the *)
(* positions of its 1 bits.                                                *)
(***************************************************************************)
EXTENDS MappingFlags

V == 0
D == 1
PLVL == 2
PLVH == 3
MATL == 4
MATH == 5
GH == 6
P == 7
W == 8
NR == 61
NX == 62

PHYS_ADDR_MASK == 12..47

\* impl From<MappingFlags> for PTEFlags
PTEFlags(f) ==
    IF f = {} THEN {}
    ELSE {V, P}
         \cup BitIf("READ" \notin f, NR)
         \cup (IF "WRITE" \in f THEN {W, D} ELSE {})
         \cup BitIf("EXECUTE" \notin f, NX)
         \cup (IF "USER" \in f THEN {PLVH, PLVL} ELSE {})
         \cup BitIf("DEVICE" \notin f /\ "UNCACHED" \in f, MATH)
         \cup BitIf("DEVICE" \notin f /\ "UNCACHED" \notin f, MATL)

\* impl From<PTEFlags> for MappingFlags
flags_of(e) ==
    IF V \notin e THEN {}
    ELSE BitIf(NR \notin e, "READ")
         \cup BitIf(W \in e, "WRITE")
         \cup BitIf(NX \notin e, "EXECUTE")
         \cup BitIf({PLVL, PLVH} \subseteq e, "USER")
         \cup BitIf(MATL \notin e /\ MATH \in e, "UNCACHED")
         \cup BitIf(MATL \notin e /\ MATH \notin e, "DEVICE")

new_page(paddr, flags, huge) ==
    PTEFlags(flags) \cup BitIf(huge, GH) \cup (paddr \cap PHYS_ADDR_MASK)

\* A directory entry carries no flag at all: is_present is FALSE of it.
new_table(paddr) == paddr \cap PHYS_ADDR_MASK

paddr_of(e) == e \cap PHYS_ADDR_MASK

set_paddr(e, paddr) == (e \ PHYS_ADDR_MASK) \cup (paddr \cap PHYS_ADDR_MASK)

set_flags(e, flags, huge) ==
    (e \cap PHYS_ADDR_MASK) \cup PTEFlags(flags) \cup BitIf(huge, GH)

is_unused(e) == e = {}

is_present(e) == P \in e

is_huge(e) == GH \in e
===========================================================================
