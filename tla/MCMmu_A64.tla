----------------------------- MODULE MCMmu_A64 ----------------------------
(* aarch64 page tables (4 levels, A64PTE) with two entries per table, and the
   TLB of the cursor's CPU or of another. *)
EXTENDS Mmu, MCA64

\* tlbi vaae1is reaches every CPU, tlbi vmalle1 the one that executes it.
MC_CPU == {"cursor", "other"}
MC_Reach == [c \in MC_CPU |-> IF c = "cursor" THEN {"page", "all"} ELSE {"page"}]

MC_Frame == Frames(4)
\* Two pages of one last-level table, which one huge page can also cover.
MC_VAddr == {0, 4096}
\* 0x1000: as a huge page it is the page at address 0.
MC_Target == {{12}}
MC_Flags == {{"READ"}, {"READ", "WRITE"}, {"WRITE"}}

MC_PAddr == Addresses(MC_Frame, MC_Target)
MC_PTE == A64Entries(MC_PAddr, MC_Flags)
MC_AllocChoice(used) == FirstFree(MC_Frame, used)

\* A recycled frame still holds a page and what looks like a table.
MC_StaleTable ==
    {[i \in Idx |-> IF i = 0 THEN A64!new_page({12}, {"READ"}, FALSE)
                             ELSE A64!new_table({17})]}
===========================================================================
