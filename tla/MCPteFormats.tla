--------------------------- MODULE MCPteFormats ---------------------------
(* Address 0, an address only a 4K page can have, one with the highest bit and
   the lowest bit of a 1G page; and three of 32 bits, a section, a page in it
   and one below 1M. *)
EXTENDS PteFormats

MC_HugeAligned == {{}, {30, 47}, {20, 31}}
MC_PAddr == MC_HugeAligned \cup {{12, 47}, {12, 31}, {12}}
===========================================================================
