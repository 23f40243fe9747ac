------------------------------ MODULE A64PTE ------------------------------
(***************************************************************************)
(* The VMSAv8-64 descriptor (page_table_entry/src/arch/aarch64.rs), built  *)
(* without the feature arm-el2.  An entry is the set of the positions of   *)
(* its 1 bits.                                                             *)
(***************************************************************************)
EXTENDS MappingFlags

VALID == 0
NON_BLOCK == 1
AP_EL0 == 6
AP_RO == 7
INNER == 8
SHAREABLE == 9
AF == 10
PXN == 53
UXN == 54

ATTR_INDEX_MASK == 2..4
PHYS_ADDR_MASK == 12..47

\* The attribute index of MemAttr, as the bits of ATTR_INDEX_MASK it sets.
Device == {}
Normal == {2}
NormalNonCacheable == {3}

from_mem_attr(idx) ==
    idx \cup IF idx \in {Normal, NormalNonCacheable} THEN {INNER, SHAREABLE} ELSE {}

\* impl From<MappingFlags> for DescriptorAttr
DescriptorAttr(f) ==
    LET mem_attr == IF "DEVICE" \in f THEN Device
                    ELSE IF "UNCACHED" \in f THEN NormalNonCacheable
                    ELSE Normal
        noexec   == IF "USER" \in f
                    THEN {AP_EL0, PXN} \cup BitIf("EXECUTE" \notin f, UXN)
                    ELSE {UXN} \cup BitIf("EXECUTE" \notin f, PXN)
    IN  IF f = {} THEN {}
        ELSE from_mem_attr(mem_attr)
             \cup BitIf("READ" \in f, VALID)
             \cup BitIf("WRITE" \notin f, AP_RO)
             \cup noexec

\* A faulty variant of flags_of: execution is always the kernel's.
flags_of_Kernel(e) ==
    IF VALID \notin e THEN {}
    ELSE {"READ"}
         \cup BitIf(AP_RO \notin e, "WRITE")
         \cup BitIf(AP_EL0 \in e, "USER")
         \cup BitIf(PXN \notin e, "EXECUTE")
         \cup BitIf(e \cap ATTR_INDEX_MASK = Device, "DEVICE")
         \cup BitIf(e \cap ATTR_INDEX_MASK = NormalNonCacheable, "UNCACHED")

\* impl From<DescriptorAttr> for MappingFlags
flags_of(e) ==
    LET mem_attr   == e \cap ATTR_INDEX_MASK
        executable == IF AP_EL0 \in e THEN UXN \notin e ELSE PXN \notin e
    IN  IF VALID \notin e THEN {}
        ELSE {"READ"}
             \cup BitIf(AP_RO \notin e, "WRITE")
             \cup BitIf(AP_EL0 \in e, "USER")
             \cup BitIf(executable, "EXECUTE")
             \cup BitIf(mem_attr = Device, "DEVICE")
             \cup BitIf(mem_attr = NormalNonCacheable, "UNCACHED")

new_page(paddr, flags, huge) ==
    DescriptorAttr(flags) \cup {AF} \cup BitIf(~huge, NON_BLOCK)
        \cup (paddr \cap PHYS_ADDR_MASK)

new_table(paddr) == {NON_BLOCK, VALID} \cup (paddr \cap PHYS_ADDR_MASK)

paddr_of(e) == e \cap PHYS_ADDR_MASK

set_paddr(e, paddr) == (e \ PHYS_ADDR_MASK) \cup (paddr \cap PHYS_ADDR_MASK)

set_flags(e, flags, huge) ==
    (e \cap PHYS_ADDR_MASK) \cup DescriptorAttr(flags) \cup {AF} \cup BitIf(~huge, NON_BLOCK)

is_unused(e) == e = {}

is_present(e) == VALID \in e

\* A block is an entry without NON_BLOCK, so the zero entry counts as one.
is_huge(e) == NON_BLOCK \notin e
===========================================================================
