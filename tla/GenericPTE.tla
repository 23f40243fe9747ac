---------------------------- MODULE GenericPTE ----------------------------
(***************************************************************************)
(* The trait `GenericPTE` (page_table_entry/src/lib.rs) as the page tables *)
(* use it: the operations are CONSTANT operators, given a value per        *)
(* architecture by the MC modules (A64PTE, Rv64PTE, LA64PTE, A32PTE), and  *)
(* what the table code relies on is assumed.  TLC evaluates every          *)
(* assumption on those formats, PteFormats_proofs proves them of all five, *)
(* and the proofs about the tables use nothing else of them.               *)
(***************************************************************************)
EXTENDS Integers

CONSTANTS
    PTE,              \* raw entries
    Zero,             \* the entry with every bit 0, which `clear` stores
    PAddr, PA0,       \* physical addresses, and address 0
    Flags,            \* the MappingFlags the callers pass
    pte_new_page(_, _, _), pte_new_table(_),
    pte_paddr(_), pte_flags(_),
    pte_set_paddr(_, _), pte_set_flags(_, _, _),
    pte_is_unused(_), pte_is_present(_), pte_is_huge(_)

\* The operations are closed over PTE and PAddr.
ASSUME PteTyping ==
    /\ Zero \in PTE
    /\ PA0 \in PAddr
    /\ \A p \in PAddr : pte_new_table(p) \in PTE
    /\ \A p \in PAddr, f \in Flags, b \in BOOLEAN : pte_new_page(p, f, b) \in PTE
    /\ \A e \in PTE : pte_paddr(e) \in PAddr
    /\ \A e \in PTE, p \in PAddr : pte_set_paddr(e, p) \in PTE
    /\ \A e \in PTE, f \in Flags, b \in BOOLEAN : pte_set_flags(e, f, b) \in PTE

\* Only the zero entry is unused, and it holds address 0.
ASSUME PteUnused ==
    /\ \A e \in PTE : pte_is_unused(e) <=> e = Zero
    /\ pte_paddr(Zero) = PA0

\* An entry made for a table leads to that table and is no page.
ASSUME PteTable ==
    \A p \in PAddr : pte_paddr(pte_new_table(p)) = p /\ ~pte_is_huge(pte_new_table(p))

\* What is written as a huge page, or into a huge page, stays one.
ASSUME PteHuge ==
    /\ \A p \in PAddr, f \in Flags : pte_is_huge(pte_new_page(p, f, TRUE))
    /\ \A e \in PTE, p \in PAddr : pte_is_huge(e) => pte_is_huge(pte_set_paddr(e, p))
    /\ \A e \in PTE, f \in Flags : pte_is_huge(pte_set_flags(e, f, TRUE))
===========================================================================
