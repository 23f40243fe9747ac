------------------------------- MODULE MCA64 ------------------------------
(* The aarch64 entry (A64PTE) as values for the constants of GenericPTE.      *)
EXTENDS MCMemory

A64 == INSTANCE A64PTE

A64_new_page(p, f, b) == A64!new_page(p, f, b)
A64_new_table(p) == A64!new_table(p)
A64_paddr(e) == A64!paddr_of(e)
A64_flags(e) == A64!flags_of(e)
A64_set_paddr(e, p) == A64!set_paddr(e, p)
A64_set_flags(e, f, b) == A64!set_flags(e, f, b)
A64_is_unused(e) == A64!is_unused(e)
A64_is_present(e) == A64!is_present(e)
A64_is_huge(e) == A64!is_huge(e)

\* Every entry reachable through the trait, over the addresses in use.
A64Entries(addresses, flags) ==
    LET attrs == {{}, A64!new_table({})}
                 \cup {A64!new_page({}, f, b) : f \in flags, b \in BOOLEAN}
    IN  {A64!set_paddr(e, p) : e \in attrs, p \in addresses}
===========================================================================
