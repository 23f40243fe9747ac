------------------------------ MODULE A32PTE ------------------------------
(***************************************************************************)
(* The ARMv7-A short descriptors (page_table_entry/src/arch/arm.rs):       *)
(* sections and pointers to tables on the first level, small pages on the  *)
(* second.  An entry is the set of the positions of its 1 bits.            *)
(*                                                                         *)
(* A descriptor does not say its level.  The type 10 is a section or an    *)
(* executable small page, and flags_of reads every entry as a section.     *)
(***************************************************************************)
EXTENDS MappingFlags

TYPE_BIT0 == 0
TYPE_BIT1 == 1
B         == 2
C         == 3
XN_SMALL  == 4
AP0       == 10
AP1       == 11
TEX0      == 12
AP2       == 15
S         == 16

SECTION_ADDR_MASK    == 20..31
PAGE_TABLE_ADDR_MASK == 10..31
SMALL_PAGE_ADDR_MASK == 12..31

\* DescriptorAttr::common_flags
common_flags(f) ==
    (IF "DEVICE" \in f THEN {B}
     ELSE IF "UNCACHED" \in f THEN {TEX0}
     ELSE {TEX0, C, B, S})
    \cup {AP0} \cup BitIf("USER" \in f, AP1) \cup BitIf("WRITE" \notin f, AP2)

from_mapping_flags_section(f) ==
    IF f = {} THEN {}
    ELSE {TYPE_BIT1} \cup common_flags(f) \cup BitIf("EXECUTE" \notin f, XN_SMALL)

\* AP, TEX, S and nG sit 6 bits lower in a small page, and XN is bit 0.
from_mapping_flags_small_page(f) ==
    IF f = {} THEN {}
    ELSE {TYPE_BIT1} \cup (common_flags(f) \cap {B, C})
         \cup {b - 6 : b \in common_flags(f) \cap (10..17)}
         \cup BitIf("EXECUTE" \notin f, TYPE_BIT0)

descriptor_type(e) == e \cap {TYPE_BIT0, TYPE_BIT1}

\* impl From<DescriptorAttr> for MappingFlags, on the bits of a section.
flags_of(e) ==
    LET memory == e \cap {TEX0, TEX0 + 1, TEX0 + 2, C, B}
    IN  IF descriptor_type(e) = {} THEN {}
        ELSE {"READ"} \cup BitIf(AP0 \in e /\ AP2 \notin e, "WRITE")
             \cup BitIf(AP1 \in e, "USER") \cup BitIf(XN_SMALL \notin e, "EXECUTE")
             \cup BitIf(memory = {B}, "DEVICE") \cup BitIf(memory = {TEX0}, "UNCACHED")

new_section(paddr, flags) ==
    from_mapping_flags_section(flags) \cup (paddr \cap SECTION_ADDR_MASK)

new_small_page(paddr, flags) ==
    from_mapping_flags_small_page(flags) \cup (paddr \cap SMALL_PAGE_ADDR_MASK)

new_page(paddr, flags, huge) ==
    IF huge THEN new_section(paddr, flags) ELSE new_small_page(paddr, flags)

new_table(paddr) == {TYPE_BIT0} \cup (paddr \cap PAGE_TABLE_ADDR_MASK)

\* Where the address is, judged by the type and by the address itself.
addr_mask(e) ==
    CASE descriptor_type(e) = {TYPE_BIT0} -> PAGE_TABLE_ADDR_MASK
      [] descriptor_type(e) = {TYPE_BIT1} ->
            IF e \cap SECTION_ADDR_MASK # {} THEN SECTION_ADDR_MASK ELSE SMALL_PAGE_ADDR_MASK
      [] descriptor_type(e) = {TYPE_BIT0, TYPE_BIT1} -> SMALL_PAGE_ADDR_MASK
      [] OTHER -> {}

paddr_of(e) == e \cap addr_mask(e)

\* A page that is not executable, or unused, keeps its address.
set_paddr(e, paddr) ==
    LET mask == CASE descriptor_type(e) = {TYPE_BIT0} -> PAGE_TABLE_ADDR_MASK
                  [] descriptor_type(e) = {TYPE_BIT1} -> SECTION_ADDR_MASK
                  [] OTHER -> {}
    IN  (e \ mask) \cup (paddr \cap mask)

set_flags(e, flags, huge) == new_page(paddr_of(e), flags, huge)

is_unused(e) == e = {}

is_present(e) == descriptor_type(e) # {}

\* is_section
is_huge(e) == descriptor_type(e) = {TYPE_BIT1}
===========================================================================
