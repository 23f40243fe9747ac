------------------------- MODULE MCPageTable32_A32 ------------------------
(* ARMv7-A page tables with two entries on each level: pages of 4K, sections
   of 8K, and a lender whose second entry leads to a table. *)
EXTENDS PageTable32Region, MCA32, TLC

\* The lender's table and one for the page table.
MC_Frame == Frames(2)
\* Both pages of a section, and one that the lender also maps.
MC_VAddr == {0, 4096, 8192}
MC_Flags == {{"READ"}, {"READ", "WRITE"}}
MC_Protection == {{"READ", "WRITE"}}

\* A get_paddr that shows the megabyte at 1M in both sections.
Folded == [v \in MC_VAddr |-> IF v % 8192 = 0 THEN {20} ELSE {12, 20}]
\* The megabyte at 1M, by the first and by the second page of it.
MC_Target == {{20}, {12, 20}}

MC_PAddr == Addresses(MC_Frame, MC_Target, MC_Flags)
MC_PTE == A32Entries(MC_PAddr, MC_Flags)
MC_AllocChoice(used) == FirstFree(MC_Frame, used)

\* The operations of the format that each step uses, evaluated once.
PaddrOf == [e \in MC_PTE |-> A32_paddr(e)]
FlagsOf == [e \in MC_PTE |-> A32_flags(e)]
IsHuge  == [e \in MC_PTE |-> A32_is_huge(e)]
MC_paddr(e) == PaddrOf[e]
MC_flags(e) == FlagsOf[e]
MC_is_huge(e) == IsHuge[e]

\* A recycled frame still holds a page.
OnePage == [i \in Idx2 |-> IF i = 0 THEN A32_new_page({12, 20}, {"READ"}, FALSE) ELSE {}]
MC_StaleTable == {OnePage}

MC_Lender == [i \in Idx1 |-> IF i = 1 THEN A32_new_table({26}) ELSE {}]
MC_LenderTable == {26} :> OnePage
MC_CopyRange == {<<8192, 0>>, <<8192, 4096>>}

Call(v, size, huge) ==
    [vaddr |-> v, get_paddr |-> Folded, size |-> size, flags |-> {"READ"}, allow_huge |-> huge]

\* A section and a page, pages only, and a size that is not made of pages.
MC_MapRequest == {Call(0, 12288, TRUE), Call(4096, 8192, FALSE), Call(0, 6144, TRUE)}

MC_Region == {<<0, 12288>>, <<4096, 4096>>}
===========================================================================
