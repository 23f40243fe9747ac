------------------------------ MODULE X64PTE ------------------------------
(***************************************************************************)
(* The x86_64 page table entry (page_table_entry/src/arch/x86_64.rs): an   *)
(* entry is the set of the positions of its 1 bits.  The positions are     *)
(* those of x86_64::structures::paging::PageTableFlags, an external crate. *)
(***************************************************************************)
EXTENDS MappingFlags

PRESENT == 0
WRITABLE == 1
USER_ACCESSIBLE == 2
WRITE_THROUGH == 3
NO_CACHE == 4
HUGE_PAGE == 7
NO_EXECUTE == 63

PHYS_ADDR_MASK == 12..51

\* impl From<MappingFlags> for PTF
PTF(f) ==
    IF f = {} THEN {}
    ELSE {PRESENT}
         \cup BitIf("WRITE" \in f, WRITABLE)
         \cup BitIf("EXECUTE" \notin f, NO_EXECUTE)
         \cup BitIf("USER" \in f, USER_ACCESSIBLE)
         \cup IF f \cap {"DEVICE", "UNCACHED"} # {} THEN {NO_CACHE, WRITE_THROUGH} ELSE {}

\* impl From<PTF> for MappingFlags
flags_of(e) ==
    IF PRESENT \notin e THEN {}
    ELSE {"READ"}
         \cup BitIf(WRITABLE \in e, "WRITE")
         \cup BitIf(NO_EXECUTE \notin e, "EXECUTE")
         \cup BitIf(USER_ACCESSIBLE \in e, "USER")
         \cup BitIf(NO_CACHE \in e, "UNCACHED")

new_page(paddr, flags, huge) ==
    PTF(flags) \cup BitIf(huge, HUGE_PAGE) \cup (paddr \cap PHYS_ADDR_MASK)

new_table(paddr) ==
    {PRESENT, WRITABLE, USER_ACCESSIBLE} \cup (paddr \cap PHYS_ADDR_MASK)

paddr_of(e) == e \cap PHYS_ADDR_MASK

set_paddr(e, paddr) == (e \ PHYS_ADDR_MASK) \cup (paddr \cap PHYS_ADDR_MASK)

\* A faulty variant of set_flags: the size bit is lost.
set_flags_NotHuge(e, flags, huge) == (e \cap PHYS_ADDR_MASK) \cup PTF(flags)

set_flags(e, flags, huge) ==
    (e \cap PHYS_ADDR_MASK) \cup PTF(flags) \cup BitIf(huge, HUGE_PAGE)

is_unused(e) == e = {}

is_present(e) == PRESENT \in e

is_huge(e) == HUGE_PAGE \in e
===========================================================================
