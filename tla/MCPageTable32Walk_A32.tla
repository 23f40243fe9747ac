----------------------- MODULE MCPageTable32Walk_A32 ----------------------
(* ARMv7-A page tables with four entries on the first level and two on the
   second, of which a frame has room for three. *)
EXTENDS PageTable32Walk, MCA32

MC_Frame == Frames(2)
MC_VAddr == {0, 4096}
MC_Flags == {{"READ"}}
MC_Target == {{12, 20}}

MC_PAddr == Addresses(MC_Frame, MC_Target, MC_Flags)
MC_PTE == A32Entries(MC_PAddr, MC_Flags)
MC_AllocChoice(used) == FirstFree(MC_Frame, used)
MC_StaleTable == {[i \in Idx2 |-> {}]}

\* The next frame holds small pages, as any second-level table does.
MC_Beyond == [i \in {3} |-> A32_new_page({12, 20}, {"READ"}, FALSE)]

\* Nothing is copied.
MC_Lender == [i \in Idx1 |-> {}]
MC_LenderTable == [f \in {} |-> {}]
MC_CopyRange == {}
===========================================================================
