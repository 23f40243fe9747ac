----------------------- MODULE MCPageTable64Copy_Rv64 ---------------------
(* Two Sv39 page tables (3 levels, Rv64PTE) with two entries per table. *)
EXTENDS PageTable64Copy, MCRv64

\* Two roots, and a full path below one of them or one table below each.
MC_Frame == Frames(4)
\* One page under each entry of the root.
MC_VAddr == {0, 16384}
\* 4K, and 1G, whose entry is in the root and gives way to a borrowed one.
MC_MapSize == {0, 2}
MC_Target == {{12, 14}}
MC_Flags == {{"READ"}}
\* Nothing, the pages of one entry of the root, part of the other, and both.
MC_CopyRange == {<<0, 0>>, <<0, 16384>>, <<16384, 4096>>, <<0, 20480>>}

MC_PAddr == Addresses(MC_Frame, MC_Target)
MC_PTE == Rv64Entries(MC_PAddr, MC_Flags)
MC_AllocChoice(used) == FirstFree(MC_Frame, used)
MC_StaleTable == {[i \in Idx |-> Rv64!new_table({17})]}
===========================================================================
