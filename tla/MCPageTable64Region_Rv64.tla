--------------------- MODULE MCPageTable64Region_Rv64 ---------------------
(* Sv39 page tables (3 levels, Rv64PTE) with two entries per table: pages of
   4K, 8K and 16K, and four pages of 4K in use. *)
EXTENDS PageTable64Region, MCRv64

MC_Frame == Frames(4)
MC_VAddr == {0, 4096, 8192, 12288}

\* A linear get_paddr on aligned memory, and one 4K off.
Linear == [v \in MC_VAddr |-> Bits(v + 32768)]
Offset == [v \in MC_VAddr |-> Bits(v + 36864)]
MC_Target == {Linear[v] : v \in MC_VAddr} \cup {Offset[v] : v \in MC_VAddr}

MC_Flags == {{"READ"}, {"READ", "WRITE"}}
MC_Protection == {{"READ", "WRITE"}}

MC_PAddr == Addresses(MC_Frame, MC_Target)
MC_PTE == Rv64Entries(MC_PAddr, MC_Flags)
MC_AllocChoice(used) == FirstFree(MC_Frame, used)
MC_StaleTable == {[i \in Idx |-> Rv64!new_table({17})]}

Call(v, size, g, huge) ==
    [vaddr |-> v, get_paddr |-> g, size |-> size, flags |-> {"READ"}, allow_huge |-> huge]

\* A region of every huge size, unaligned memory, a region that begins off the
\* huge pages, one without huge pages, and one that is not made of pages.
MC_MapRequest ==
    {Call(0, 16384, Linear, TRUE),
     Call(0, 16384, Offset, TRUE), Call(4096, 12288, Linear, TRUE),
     Call(8192, 4096, Linear, FALSE), Call(0, 6144, Linear, TRUE)}

MC_Region == {<<0, 16384>>, <<4096, 8192>>, <<8192, 8192>>, <<0, 6144>>}
===========================================================================
