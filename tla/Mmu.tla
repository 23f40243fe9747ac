-------------------------------- MODULE Mmu -------------------------------
(***************************************************************************)
(* A page table in use by the hardware: PageTable64 composed with the TLB  *)
(* of any one CPU (flush_tlb of the architectures:                         *)
(* page_table_multiarch/src/arch/*.rs).  The walker takes no lock: it may  *)
(* cache the translation of any address between any two writes of an       *)
(* operation, and the cursor invalidates only what it recorded.  The TLBs  *)
(* do not depend on each other, so that of one CPU, the one that runs the  *)
(* cursor or another, stands for all of them.                              *)
(*                                                                         *)
(* Outside src/: the walker translates as `query` does; the kernel starts  *)
(* using a table with an empty TLB, empties the TLB when it stops, and     *)
(* drops no table in use.                                                  *)
(***************************************************************************)
EXTENDS PageTable64

CONSTANTS
    CPU,    \* the CPU that runs the cursor, and others
    Reach   \* the invalidations that reach each: "page" and "all"

ASSUME CpuAssumption == Reach \in [CPU -> SUBSET {"page", "all"}]

VARIABLES
    cpu,     \* the CPU at hand
    active,  \* its hardware walks this table
    tlb,     \* for each address, the translation cached, or Unmapped
    missed   \* an invalidation did not reach it, and its TLB is not followed

hardware == <<cpu, active, tlb, missed>>
mmuVars == <<mem, height, root_paddr, flusher, call, ret, cpu, active, tlb, missed>>

Translation(v) == query(mem, v)

\* The cached page of address w, of the size cached, covers address v.
Covers(w, v) ==
    LET bytes == PageBytes(tlb[w].size)
    IN  tlb[w] # Unmapped /\ w \div bytes = v \div bytes

EmptyTlb == [w \in VAddr |-> Unmapped]

\* An invalidation leaves the TLB as given, if it gets to the CPU.
Invalidate(kind, left) ==
    /\ tlb' = IF kind \in Reach[cpu] THEN left ELSE EmptyTlb
    /\ missed' = (missed \/ kind \notin Reach[cpu])
    /\ UNCHANGED <<cpu, active>>

\* M::flush_tlb(Some(v)): invlpg, sfence.vma, tlbi vaae1is, invtlb 0x05.
\* Whatever page covers the address goes, with all of its addresses.
InvalidatePage(v) ==
    /\ FlushEntry(v)
    /\ Invalidate("page", [w \in VAddr |-> IF Covers(w, v) THEN Unmapped ELSE tlb[w]])

\* M::flush_tlb(None)
InvalidateAll ==
    /\ FlushAll
    /\ Invalidate("all", EmptyTlb)

\* The walker loads the translation of v, in the memory as it is.
Fill(v) ==
    /\ active /\ ~missed
    /\ Translation(v) # Unmapped
    /\ tlb' = [tlb EXCEPT ![v] = Translation(v)]
    /\ UNCHANGED <<vars, cpu, active, missed>>

Activate ==
    /\ ~active
    /\ root_paddr # NoFrame
    /\ active' = TRUE
    /\ missed' = FALSE
    /\ UNCHANGED <<vars, cpu, tlb>>

Deactivate ==
    /\ active
    /\ active' = FALSE
    /\ tlb' = EmptyTlb
    /\ missed' = FALSE
    /\ UNCHANGED <<vars, cpu>>

\* Every other step of the table, which the TLB does not see.
TableStep ==
    /\ Begin \/ Advance
    /\ Drop => ~active
    /\ UNCHANGED hardware

MmuInit ==
    /\ Init
    /\ cpu \in CPU
    /\ active = FALSE
    /\ tlb = EmptyTlb
    /\ missed = FALSE

MmuNext ==
    \/ TableStep
    \/ \E v \in VAddr : InvalidatePage(v)
    \/ InvalidateAll
    \/ \E v \in VAddr : Fill(v)
    \/ Activate
    \/ Deactivate

MmuSpec == MmuInit /\ [][MmuNext]_mmuVars
---------------------------------------------------------------------------
(* Properties *)

Stale(w) == tlb[w] # Unmapped /\ tlb[w] # Translation(w)

\* When the cursor is gone no TLB that its invalidations reach holds a
\* translation that the table does not hold: dropping the cursor flushes all
\* that its operations changed (the promise of `PageTable64::cursor`), whichever
\* operations ran, however many there were and whatever the walker cached in
\* between.
NoStaleTranslation ==
    flusher.kind = "Closed" /\ root_paddr # NoFrame => \A w \in VAddr : ~Stale(w)

\* While a cursor is open, each stale translation is one that the recorded
\* requests, or the remap in progress, will invalidate.  On a CPU that is not
\* the cursor's this relies on every request made one by one: a full
\* invalidation that is not broadcast (tlbi vmalle1) ends it.
StaleIsRecorded ==
    root_paddr # NoFrame =>
        \A w \in VAddr :
            Stale(w) => \/ flusher.kind = "Full"
                        \/ \E k \in DOMAIN flusher.arr : Covers(w, flusher.arr[k])
                        \/ call.pc = "SetFlags" /\ Covers(w, call.vaddr)
===========================================================================
