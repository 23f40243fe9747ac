------------------------- MODULE MCPageTable64_A64 ------------------------
(* VMSAv8-64 page tables (4 levels, A64PTE), two entries per table.         *)
EXTENDS PageTable64Walk, MCA64

MC_Frame == Frames(5)
\* Two pages of one last-level table, and one under another entry of the root.
MC_VAddr == {0, 4096, 32768}
\* 0x1000: as a huge page it is the page at address 0.
MC_Target == {{12}}
\* With WRITE alone a descriptor is not VALID: mapped, and not present.
MC_Flags == {{"READ"}, {"WRITE"}}

MC_PAddr == Addresses(MC_Frame, MC_Target)
MC_PTE == A64Entries(MC_PAddr, MC_Flags)
MC_AllocChoice(used) == FirstFree(MC_Frame, used)

\* A recycled frame still holds a page and what looks like a table in use.
MC_StaleTable ==
    {[i \in Idx |-> IF i = 0 THEN A64!new_page({12}, {"READ"}, FALSE)
                             ELSE A64!new_table(f)] : f \in Frames(1)}
===========================================================================
