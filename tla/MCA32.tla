------------------------------- MODULE MCA32 ------------------------------
(* The ARMv7-A entry (A32PTE) as values for the constants of GenericPTE, and
   addresses on both sides of the bits of a section. *)
EXTENDS Integers

A32 == INSTANCE A32PTE

A32_new_page(p, f, b) == A32!new_page(p, f, b)
A32_new_table(p) == A32!new_table(p)
A32_paddr(e) == A32!paddr_of(e)
A32_flags(e) == A32!flags_of(e)
A32_set_paddr(e, p) == A32!set_paddr(e, p)
A32_set_flags(e, f, b) == A32!set_flags(e, f, b)
A32_is_unused(e) == A32!is_unused(e)
A32_is_present(e) == A32!is_present(e)
A32_is_huge(e) == A32!is_huge(e)

MC_Zero == {}
MC_PA0 == {}
MC_NoFrame == {-1}

\* One second-level table per frame, in megabytes of their own.
Frames(n) == {{25 + i} : i \in 1 .. n}

\* The allocator hands out the first free frame.
FirstFree(frames, used) ==
    LET free == frames \ used
    IN  {f \in free : \A g \in free : \E b \in f : \A c \in g : b <= c}

MC_align_down(p, s) == IF s = 0 THEN p \cap (12..31) ELSE p \cap (20..31)

\* The addresses in use, and what a section at address 0 reads back instead.
Addresses(frames, targets, flags) ==
    LET whole == {{}} \cup frames \cup {MC_align_down(p, s) : p \in targets, s \in {0, 1}}
    IN  whole \cup {A32!paddr_of(A32!new_page({}, f, TRUE)) : f \in flags}

\* Every entry that the trait can make of them.
A32Entries(addresses, flags) ==
    {{}} \cup {A32!new_table(p) : p \in addresses}
         \cup {A32!new_page(p, f, b) : p \in addresses, f \in flags, b \in BOOLEAN}
===========================================================================
