------------------------------ MODULE MCRv64 ------------------------------
(* The RISC-V entry (Rv64PTE) as values for the constants of GenericPTE.      *)
EXTENDS MCMemory

Rv64 == INSTANCE Rv64PTE

Rv64_new_page(p, f, b) == Rv64!new_page(p, f, b)
Rv64_new_table(p) == Rv64!new_table(p)
Rv64_paddr(e) == Rv64!paddr_of(e)
Rv64_flags(e) == Rv64!flags_of(e)
Rv64_set_paddr(e, p) == Rv64!set_paddr(e, p)
Rv64_set_flags(e, f, b) == Rv64!set_flags(e, f, b)
Rv64_is_unused(e) == Rv64!is_unused(e)
Rv64_is_present(e) == Rv64!is_present(e)
Rv64_is_huge(e) == Rv64!is_huge(e)

\* Every entry reachable through the trait, over the addresses in use.
Rv64Entries(addresses, flags) ==
    LET attrs == {{}, Rv64!new_table({})}
                 \cup {Rv64!new_page({}, f, b) : f \in flags, b \in BOOLEAN}
    IN  {Rv64!set_paddr(e, p) : e \in attrs, p \in addresses}
===========================================================================
