---------------------------- MODULE PteFormats ----------------------------
(***************************************************************************)
(* One entry of a page table in each of the five formats, written through  *)
(* the trait GenericPTE (page_table_entry/src/lib.rs) in any order.        *)
(* Beside the raw entry, `asked` keeps what the calls asked for, so that   *)
(* the properties can compare what is read back with it, and `legible`     *)
(* whether the last writes left an ARMv7 entry that shows its address: some *)
(* do not, and a later write may start from the wrong address read back.   *)
(***************************************************************************)
EXTENDS MappingFlags

CONSTANTS
    PAddr,        \* addresses, as sets of bits, aligned to 4K
    HugeAligned   \* those of them a huge page may have, 1M at least

ASSUME PAddrAssumption ==
    /\ HugeAligned \subseteq PAddr
    /\ \A p \in PAddr : p \subseteq 12..47
    /\ \A p \in HugeAligned : p \subseteq 20..47

VARIABLES arch, entry, asked, legible
vars == <<arch, entry, asked, legible>>

Arch == {"x86_64", "aarch64", "riscv", "loongarch64", "arm"}

X64  == INSTANCE X64PTE
A64  == INSTANCE A64PTE
Rv64 == INSTANCE Rv64PTE
LA64 == INSTANCE LA64PTE
A32  == INSTANCE A32PTE

\* The trait's operations, for the architecture at hand.
new_page(p, f, huge) ==
    CASE arch = "x86_64"      -> X64!new_page(p, f, huge)
      [] arch = "aarch64"     -> A64!new_page(p, f, huge)
      [] arch = "riscv"       -> Rv64!new_page(p, f, huge)
      [] arch = "loongarch64" -> LA64!new_page(p, f, huge)
      [] arch = "arm"         -> A32!new_page(p, f, huge)

new_table(p) ==
    CASE arch = "x86_64"      -> X64!new_table(p)
      [] arch = "aarch64"     -> A64!new_table(p)
      [] arch = "riscv"       -> Rv64!new_table(p)
      [] arch = "loongarch64" -> LA64!new_table(p)
      [] arch = "arm"         -> A32!new_table(p)

set_paddr(p) ==
    CASE arch = "x86_64"      -> X64!set_paddr(entry, p)
      [] arch = "aarch64"     -> A64!set_paddr(entry, p)
      [] arch = "riscv"       -> Rv64!set_paddr(entry, p)
      [] arch = "loongarch64" -> LA64!set_paddr(entry, p)
      [] arch = "arm"         -> A32!set_paddr(entry, p)

set_flags(f, huge) ==
    CASE arch = "x86_64"      -> X64!set_flags(entry, f, huge)
      [] arch = "aarch64"     -> A64!set_flags(entry, f, huge)
      [] arch = "riscv"       -> Rv64!set_flags(entry, f, huge)
      [] arch = "loongarch64" -> LA64!set_flags(entry, f, huge)
      [] arch = "arm"         -> A32!set_flags(entry, f, huge)

\* What is read back of the entry, in one record.
ReadBack ==
    CASE arch = "x86_64" ->
           [paddr |-> X64!paddr_of(entry), flags |-> X64!flags_of(entry),
            unused |-> X64!is_unused(entry), present |-> X64!is_present(entry),
            huge |-> X64!is_huge(entry)]
      [] arch = "aarch64" ->
           [paddr |-> A64!paddr_of(entry), flags |-> A64!flags_of(entry),
            unused |-> A64!is_unused(entry), present |-> A64!is_present(entry),
            huge |-> A64!is_huge(entry)]
      [] arch = "riscv" ->
           [paddr |-> Rv64!paddr_of(entry), flags |-> Rv64!flags_of(entry),
            unused |-> Rv64!is_unused(entry), present |-> Rv64!is_present(entry),
            huge |-> Rv64!is_huge(entry)]
      [] arch = "loongarch64" ->
           [paddr |-> LA64!paddr_of(entry), flags |-> LA64!flags_of(entry),
            unused |-> LA64!is_unused(entry), present |-> LA64!is_present(entry),
            huge |-> LA64!is_huge(entry)]
      [] arch = "arm" ->
           [paddr |-> A32!paddr_of(entry), flags |-> A32!flags_of(entry),
            unused |-> A32!is_unused(entry), present |-> A32!is_present(entry),
            huge |-> A32!is_huge(entry)]

\* The pages whose A32PTE shows its address: with no flags it has no type, a
\* section at address 0 shows its attributes as an address, and of an
\* executable small page above 1M only the section's part is left.
Addressable(p, f, huge) ==
    /\ f # {}
    /\ huge => p # {}
    /\ ~huge /\ "EXECUTE" \in f => p \cap (20..31) = {} \/ p \cap (12..19) = {}

\* debug_assert! of Rv64PTE; the other formats take any flags.
Allowed(f) == arch = "riscv" => Rv64!DebugAssert(f)

\* The addresses of a 32-bit machine have 32 bits.
InRange(p) == arch = "arm" => p \subseteq 0..31
---------------------------------------------------------------------------
Unused == [kind |-> "unused", paddr |-> {}, flags |-> {}, huge |-> FALSE]

NewPage(p, f, huge) ==
    /\ asked.kind = "unused"
    /\ Allowed(f) /\ InRange(p)
    /\ huge => p \in HugeAligned
    /\ entry' = new_page(p, f, huge)
    /\ asked' = [kind |-> "page", paddr |-> p, flags |-> f, huge |-> huge]
    /\ legible' = (arch = "arm" => Addressable(p, f, huge))
    /\ UNCHANGED arch

\* No table is at address 0.
NewTable(p) ==
    /\ asked.kind = "unused"
    /\ p # {} /\ InRange(p)
    /\ entry' = new_table(p)
    /\ asked' = [Unused EXCEPT !.kind = "table", !.paddr = p]
    /\ legible' = TRUE
    /\ UNCHANGED arch

\* A remap writes the address of a page, or of a hole of the last level.  Of
\* ARMv7 only a section takes a new address.
SetPaddr(p) ==
    /\ asked.kind # "table"
    /\ InRange(p)
    /\ asked.huge => p \in HugeAligned
    /\ entry' = set_paddr(p)
    /\ asked' = [asked EXCEPT !.kind = "page", !.paddr = p]
    /\ legible' = (arch = "arm" => asked.huge /\ Addressable(p, asked.flags, TRUE))
    /\ UNCHANGED arch

\* The size a caller passes with the flags is the size of the entry.  A32PTE
\* writes the address it reads back, so one that was not legible stays wrong.
SetFlags(f) ==
    /\ asked.kind = "page"
    /\ Allowed(f)
    /\ entry' = set_flags(f, asked.huge)
    /\ asked' = [asked EXCEPT !.flags = f]
    /\ legible' = (legible /\ (arch = "arm" => Addressable(asked.paddr, f, asked.huge)))
    /\ UNCHANGED arch

Clear ==
    /\ entry' = {}
    /\ asked' = Unused
    /\ legible' = TRUE
    /\ UNCHANGED arch

Init == arch \in Arch /\ entry = {} /\ asked = Unused /\ legible = TRUE

Next ==
    \/ \E p \in PAddr, f \in SUBSET MappingFlags, huge \in BOOLEAN : NewPage(p, f, huge)
    \/ \E p \in PAddr : NewTable(p) \/ SetPaddr(p)
    \/ \E f \in SUBSET MappingFlags : SetFlags(f)
    \/ Clear

Spec == Init /\ [][Next]_vars
---------------------------------------------------------------------------
(* Properties *)

\* What the flags f turn into: x86_64 has no unreadable page and makes device
\* memory uncached, aarch64 shows nothing of a page that is not readable, ARMv7
\* has no unreadable page, RISC-V keeps no memory attribute, and DEVICE wins
\* over UNCACHED.
Representable(f) ==
    LET cached == IF "DEVICE" \in f THEN f \ {"UNCACHED"} ELSE f
    IN  CASE arch = "x86_64" ->
               IF f = {} THEN {}
               ELSE {"READ"} \cup (f \ {"DEVICE"})
                    \cup IF "DEVICE" \in f THEN {"UNCACHED"} ELSE {}
          [] arch = "aarch64" -> IF "READ" \in f THEN cached ELSE {}
          [] arch = "riscv" -> f \ {"DEVICE", "UNCACHED"}
          [] arch = "loongarch64" -> cached
          [] arch = "arm" -> IF f = {} THEN {} ELSE {"READ"} \cup cached

\* The permissions read back from a page are the ones last asked for, as far
\* as the format can say them, whichever writes came before: no bit of an
\* earlier page, of the address or of the size shows up as a permission.  Of
\* ARMv7 descriptors this is claimed for sections only: the code reads the
\* bits of a small page as those of a section.
FlagsKept ==
    asked.kind = "page" /\ (arch = "arm" => asked.huge)
        => ReadBack.flags = Representable(asked.flags)

\* The address read back is the one last asked for, whichever writes came
\* before: in the four 64-bit formats always, in an ARMv7 entry when it is
\* legible.  It is not, and the code does read another address, after a page
\* was made without flags, a section at address 0, an executable small page
\* above 1M whose address is no section's, or with set_paddr of a small page;
\* flags set on such a page keep the wrong address, until it is moved as a
\* section or cleared.
AddressKept == (arch = "arm" => legible) => ReadBack.paddr = asked.paddr

\* The table code tells pages, tables and unused entries apart by is_huge,
\* is_unused and the address alone: a huge page stays one, a table never
\* looks like one, and an entry in use does not look unused (a page at
\* address 0 without any permission does, in three of the formats).  An ARMv7
\* page without flags is excepted: it has no type, and no address either once
\* its flags were set.
KindKept ==
    LET shows == asked.kind = "page" /\ (arch = "arm" => asked.flags # {})
    IN  /\ shows /\ asked.huge => ReadBack.huge
        /\ shows /\ (asked.flags # {} \/ asked.paddr # {}) => ~ReadBack.unused
        /\ asked.kind = "table" => ~ReadBack.huge /\ ~ReadBack.unused
        /\ asked.kind = "unused" => ReadBack.unused
        /\ asked.kind = "page" => (ReadBack.present <=> ReadBack.flags # {})
===========================================================================
