------------------------- MODULE MCPageTable64_LA64 ------------------------
(* LoongArch64 page tables (4 levels, LA64PTE), two entries per table. *)
EXTENDS PageTable64Walk, MCLA64

MC_Frame == Frames(5)
\* Two pages of one last-level table, and one under another entry of the root.
MC_VAddr == {0, 4096, 32768}
\* 0x1000: as a huge page it is the page at address 0.
MC_Target == {{12}}
\* Read-only and write-only pages, both present.
MC_Flags == {{"READ"}, {"WRITE"}}

MC_PAddr == Addresses(MC_Frame, MC_Target)
MC_PTE == LA64Entries(MC_PAddr, MC_Flags)
MC_AllocChoice(used) == FirstFree(MC_Frame, used)

\* A recycled frame still holds a page and what looks like a table, in use or
\* not.
MC_StaleTable ==
    {[i \in Idx |-> IF i = 0 THEN LA64!new_page({12}, {"READ"}, FALSE)
                             ELSE LA64!new_table(f)] : f \in Frames(2)}
===========================================================================
