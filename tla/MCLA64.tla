------------------------------- MODULE MCLA64 -----------------------------
(* The LoongArch64 entry (LA64PTE) as values for the constants of GenericPTE. *)
EXTENDS MCMemory

LA64 == INSTANCE LA64PTE

LA64_new_page(p, f, b) == LA64!new_page(p, f, b)
LA64_new_table(p) == LA64!new_table(p)
LA64_paddr(e) == LA64!paddr_of(e)
LA64_flags(e) == LA64!flags_of(e)
LA64_set_paddr(e, p) == LA64!set_paddr(e, p)
LA64_set_flags(e, f, b) == LA64!set_flags(e, f, b)
LA64_is_unused(e) == LA64!is_unused(e)
LA64_is_present(e) == LA64!is_present(e)
LA64_is_huge(e) == LA64!is_huge(e)

\* Every entry reachable through the trait, over the addresses in use.
LA64Entries(addresses, flags) ==
    LET attrs == {{}, LA64!new_table({})}
                 \cup {LA64!new_page({}, f, b) : f \in flags, b \in BOOLEAN}
    IN  {LA64!set_paddr(e, p) : e \in attrs, p \in addresses}
===========================================================================
