------------------------ MODULE MCPageTable64_Rv64 ------------------------
(* Sv39 page tables (3 levels, Rv64PTE) with two entries per table. *)
EXTENDS PageTable64, MCRv64

MC_Frame == Frames(3)
\* Two pages of one last-level table, and with it of one page of each huge
\* size; the second address lies inside its page.
MC_VAddr == {0, 4097}
\* 0x5000: aligned down, 0x5000, 0x4000 and 0x4000 for the three sizes; and
\* 0x1000: a page there, but a huge page lies at address 0.
MC_Target == {{12, 14}, {12}}
MC_Flags == {{"READ"}, {"READ", "WRITE"}}

MC_PAddr == Addresses(MC_Frame, MC_Target)
MC_PTE == Rv64Entries(MC_PAddr, MC_Flags)
MC_AllocChoice(used) == FirstFree(MC_Frame, used)

\* A recycled frame still holds a page and what looks like a table.
MC_StaleTable ==
    {[i \in Idx |-> IF i = 0 THEN Rv64!new_page({12, 14}, {"READ"}, FALSE)
                             ELSE Rv64!new_table({17})]}
===========================================================================
