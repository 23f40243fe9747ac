------------------------- MODULE PteFormats_proofs ------------------------
(***************************************************************************)
(* The entry formats at every address of the physical space: the address,  *)
(* the flags and the kind of an entry are the ones last written into it,   *)
(* and each format satisfies what GenericPTE and the tables assume of it.  *)
(***************************************************************************)
EXTENDS PteFormats, TLAPS
---------------------------------------------------------------------------
(* Attributes and addresses are apart *)

\* Beside attributes that are outside its field, an address is read whole.
LEMMA Field ==
    ASSUME NEW attr, NEW mask, NEW p, attr \cap mask = {}, p \subseteq mask
    PROVE  (attr \cup (p \cap mask)) \cap mask = p
OBVIOUS

\* No attribute of the 64-bit formats has a bit of the address field.
LEMMA X64Apart ==
    ASSUME NEW f \in SUBSET MappingFlags, NEW h \in BOOLEAN
    PROVE  (X64!PTF(f) \cup X64!BitIf(h, X64!HUGE_PAGE)) \cap X64!PHYS_ADDR_MASK = {}
BY DEF X64!PTF, X64!BitIf, X64!PRESENT, X64!WRITABLE, X64!USER_ACCESSIBLE,
       X64!WRITE_THROUGH, X64!NO_CACHE, X64!HUGE_PAGE, X64!NO_EXECUTE, X64!PHYS_ADDR_MASK

\* ... nor of an aarch64 entry, ...
LEMMA A64Apart ==
    ASSUME NEW f \in SUBSET MappingFlags, NEW h \in BOOLEAN
    PROVE  (A64!DescriptorAttr(f) \cup {A64!AF} \cup A64!BitIf(~h, A64!NON_BLOCK))
              \cap A64!PHYS_ADDR_MASK = {}
BY DEF A64!DescriptorAttr, A64!BitIf, A64!from_mem_attr, A64!VALID, A64!NON_BLOCK,
       A64!AP_EL0, A64!AP_RO, A64!INNER, A64!SHAREABLE, A64!AF, A64!PXN, A64!UXN,
       A64!PHYS_ADDR_MASK, A64!Device, A64!Normal, A64!NormalNonCacheable

\* ... nor of a RISC-V entry, ...
LEMMA Rv64Apart ==
    ASSUME NEW f \in SUBSET MappingFlags
    PROVE  Rv64!PTEFlags(f) \cap Rv64!PHYS_ADDR_MASK = {}
BY DEF Rv64!PTEFlags, Rv64!BitIf, Rv64!V, Rv64!R, Rv64!W, Rv64!X, Rv64!U, Rv64!A, Rv64!D,
       Rv64!PHYS_ADDR_MASK

\* ... nor of a LoongArch64 entry.
LEMMA LA64Apart ==
    ASSUME NEW f \in SUBSET MappingFlags, NEW h \in BOOLEAN
    PROVE  (LA64!PTEFlags(f) \cup LA64!BitIf(h, LA64!GH)) \cap LA64!PHYS_ADDR_MASK = {}
BY DEF LA64!PTEFlags, LA64!BitIf, LA64!V, LA64!D, LA64!PLVL, LA64!PLVH, LA64!MATL,
       LA64!MATH, LA64!GH, LA64!P, LA64!W, LA64!NR, LA64!NX, LA64!PHYS_ADDR_MASK

\* The field of RISC-V holds all of an address.
LEMMA Rv64Shift ==
    ASSUME NEW p \in SUBSET (12..47)
    PROVE  /\ Rv64!ShiftLeft2(Rv64!ShiftRight2(p)) = p
           /\ Rv64!ShiftRight2(p) \subseteq Rv64!PHYS_ADDR_MASK
<1> DEFINE s == Rv64!ShiftRight2(p)
<1>1. s \subseteq Rv64!PHYS_ADDR_MASK
  BY DEF Rv64!ShiftRight2, Rv64!PHYS_ADDR_MASK
<1>2. \A b \in Int : b \in s <=> b + 2 \in p
  BY DEF Rv64!ShiftRight2
<1>3. s \subseteq Int /\ p \subseteq Int
  BY <1>1 DEF Rv64!PHYS_ADDR_MASK
<1> HIDE DEF s
<1>4. Rv64!ShiftLeft2(s) \subseteq p
  BY <1>2, <1>3 DEF Rv64!ShiftLeft2
<1>5. ASSUME NEW b \in p PROVE b \in Rv64!ShiftLeft2(s)
  <2>1. b - 2 \in s /\ b = (b - 2) + 2
    BY <1>2, <1>3
  <2> QED
    BY <2>1 DEF Rv64!ShiftLeft2
<1> QED
  BY <1>1, <1>4, <1>5 DEF s

\* The attributes of a section are below its address, and those of a small page
\* below its own.
LEMMA A32Common == \A f \in SUBSET MappingFlags : A32!common_flags(f) \subseteq 2..16
BY DEF A32!common_flags, A32!BitIf, A32!B, A32!C, A32!AP0, A32!AP1, A32!TEX0, A32!AP2, A32!S

\* A section keeps an address of whole megabytes, and its type bits are a section's.
LEMMA A32Section ==
    ASSUME NEW f \in SUBSET MappingFlags, f # {}, NEW p \in SUBSET (20..31)
    PROVE  /\ A32!new_section(p, f) \cap A32!SECTION_ADDR_MASK = p
           /\ A32!descriptor_type(A32!new_section(p, f)) = {A32!TYPE_BIT1}
<1> DEFINE attr == A32!from_mapping_flags_section(f)
           e == A32!new_section(p, f)
<1>1. attr \in SUBSET (1..16) /\ 1 \in attr
  BY A32Common DEF A32!from_mapping_flags_section, A32!BitIf, A32!TYPE_BIT1, A32!XN_SMALL
<1>2. e = attr \cup (p \cap (20..31))
  BY DEF A32!new_section, A32!SECTION_ADDR_MASK
<1> HIDE DEF attr, e
<1>3. attr \cap (20..31) = {}
  BY <1>1
<1>4. e \cap (20..31) = p
  BY <1>2, <1>3, Field
<1>5. 0 \notin e /\ 1 \in e
  BY <1>1, <1>2
<1> QED
  BY <1>4, <1>5 DEF e, A32!SECTION_ADDR_MASK, A32!descriptor_type, A32!TYPE_BIT0,
     A32!TYPE_BIT1

\* A small page keeps a page's address; its type bits say small page only when it is
\* not executable.
LEMMA A32SmallPage ==
    ASSUME NEW f \in SUBSET MappingFlags, f # {}, NEW p \in SUBSET (12..31)
    PROVE  /\ A32!new_small_page(p, f) \cap A32!SMALL_PAGE_ADDR_MASK = p
           /\ A32!descriptor_type(A32!new_small_page(p, f))
                = IF "EXECUTE" \in f THEN {A32!TYPE_BIT1} ELSE {A32!TYPE_BIT0, A32!TYPE_BIT1}
<1> DEFINE attr == A32!from_mapping_flags_small_page(f)
           common == A32!common_flags(f)
           low == {b - 6 : b \in common \cap (10..17)}
           e == A32!new_small_page(p, f)
<1>1. low \in SUBSET (4..11)
  <2>1. \A b \in 10..17 : b - 6 \in 4..11
    OBVIOUS
  <2> QED
    BY <2>1
<1>2. attr = {1} \cup (common \cap {2, 3}) \cup low
                 \cup IF "EXECUTE" \notin f THEN {0} ELSE {}
  BY DEF A32!from_mapping_flags_small_page, A32!BitIf, A32!TYPE_BIT0, A32!TYPE_BIT1, A32!B,
     A32!C
<1>3. e = attr \cup (p \cap (12..31))
  BY DEF A32!new_small_page, A32!SMALL_PAGE_ADDR_MASK
<1> HIDE DEF low, common, attr, e
<1>4. attr \cap (12..31) = {} /\ 1 \in attr /\ (0 \in attr <=> "EXECUTE" \notin f)
  BY <1>1, <1>2
<1>5. e \cap (12..31) = p
  BY <1>3, <1>4, Field
<1>6. 1 \in e /\ (0 \in e <=> "EXECUTE" \notin f)
  BY <1>3, <1>4
<1>7. e \cap {0, 1} = IF "EXECUTE" \in f THEN {1} ELSE {0, 1}
  BY <1>6
<1> QED
  BY <1>5, <1>7 DEF e, A32!SMALL_PAGE_ADDR_MASK, A32!descriptor_type, A32!TYPE_BIT0,
     A32!TYPE_BIT1
---------------------------------------------------------------------------
(* What the writes of the 64-bit formats leave in the address field *)

\* Each write stores the address it is given, and set_flags keeps the old one.
LEMMA X64SetFlags ==
    ASSUME NEW f \in SUBSET MappingFlags, NEW h \in BOOLEAN, NEW e
    PROVE  X64!set_flags(e, f, h) \cap X64!PHYS_ADDR_MASK = e \cap X64!PHYS_ADDR_MASK
<1> DEFINE attr == X64!PTF(f) \cup X64!BitIf(h, X64!HUGE_PAGE)
<1>1. attr \cap X64!PHYS_ADDR_MASK = {}
  BY X64Apart
<1>2. X64!set_flags(e, f, h) = attr \cup (e \cap X64!PHYS_ADDR_MASK)
  BY DEF X64!set_flags
<1> HIDE DEF attr
<1> QED
  BY <1>1, <1>2

\* Every write of an x86_64 entry puts the address asked for into its field.
LEMMA X64Writes ==
    ASSUME NEW p \in SUBSET (12..47), NEW f \in SUBSET MappingFlags, NEW h \in BOOLEAN, NEW e
    PROVE  /\ X64!new_page(p, f, h) \cap X64!PHYS_ADDR_MASK = p
           /\ X64!new_table(p) \cap X64!PHYS_ADDR_MASK = p
           /\ X64!set_paddr(e, p) \cap X64!PHYS_ADDR_MASK = p
<1> DEFINE mask == X64!PHYS_ADDR_MASK
           attr == X64!PTF(f) \cup X64!BitIf(h, X64!HUGE_PAGE)
           table == {X64!PRESENT, X64!WRITABLE, X64!USER_ACCESSIBLE}
<1>1. p \subseteq mask /\ table \cap mask = {}
  BY DEF X64!PHYS_ADDR_MASK, X64!PRESENT, X64!WRITABLE, X64!USER_ACCESSIBLE
<1>2. attr \cap mask = {}
  BY X64Apart
<1>3. /\ X64!new_page(p, f, h) = attr \cup (p \cap mask)
      /\ X64!new_table(p) = table \cup (p \cap mask)
      /\ X64!set_paddr(e, p) = (e \ mask) \cup (p \cap mask)
  BY DEF X64!new_page, X64!new_table, X64!set_paddr
<1> HIDE DEF mask, attr, table
<1>4. (e \ mask) \cap mask = {}
  OBVIOUS
<1>5. /\ (attr \cup (p \cap mask)) \cap mask = p
      /\ (table \cup (p \cap mask)) \cap mask = p
      /\ ((e \ mask) \cup (p \cap mask)) \cap mask = p
  BY <1>1, <1>2, <1>4, Field
<1> QED
  BY <1>3, <1>4, <1>5 DEF mask

\* set_flags leaves the address field of an aarch64 entry alone.
LEMMA A64SetFlags ==
    ASSUME NEW f \in SUBSET MappingFlags, NEW h \in BOOLEAN, NEW e
    PROVE  A64!set_flags(e, f, h) \cap A64!PHYS_ADDR_MASK = e \cap A64!PHYS_ADDR_MASK
<1> DEFINE attr == A64!DescriptorAttr(f) \cup {A64!AF} \cup A64!BitIf(~h, A64!NON_BLOCK)
<1>1. attr \cap A64!PHYS_ADDR_MASK = {}
  BY A64Apart
<1>2. A64!set_flags(e, f, h) = attr \cup (e \cap A64!PHYS_ADDR_MASK)
  BY DEF A64!set_flags
<1> HIDE DEF attr
<1> QED
  BY <1>1, <1>2

\* Every write of an aarch64 entry puts the address asked for into its field.
LEMMA A64Writes ==
    ASSUME NEW p \in SUBSET (12..47), NEW f \in SUBSET MappingFlags, NEW h \in BOOLEAN, NEW e
    PROVE  /\ A64!new_page(p, f, h) \cap A64!PHYS_ADDR_MASK = p
           /\ A64!new_table(p) \cap A64!PHYS_ADDR_MASK = p
           /\ A64!set_paddr(e, p) \cap A64!PHYS_ADDR_MASK = p
<1> DEFINE mask == A64!PHYS_ADDR_MASK
           attr == A64!DescriptorAttr(f) \cup {A64!AF} \cup A64!BitIf(~h, A64!NON_BLOCK)
           table == {A64!NON_BLOCK, A64!VALID}
<1>1. p \subseteq mask /\ table \cap mask = {}
  BY DEF A64!PHYS_ADDR_MASK, A64!NON_BLOCK, A64!VALID
<1>2. attr \cap mask = {}
  BY A64Apart
<1>3. /\ A64!new_page(p, f, h) = attr \cup (p \cap mask)
      /\ A64!new_table(p) = table \cup (p \cap mask)
      /\ A64!set_paddr(e, p) = (e \ mask) \cup (p \cap mask)
  BY DEF A64!new_page, A64!new_table, A64!set_paddr
<1> HIDE DEF mask, attr, table
<1>4. (e \ mask) \cap mask = {}
  OBVIOUS
<1>5. /\ (attr \cup (p \cap mask)) \cap mask = p
      /\ (table \cup (p \cap mask)) \cap mask = p
      /\ ((e \ mask) \cup (p \cap mask)) \cap mask = p
  BY <1>1, <1>2, <1>4, Field
<1> QED
  BY <1>3, <1>4, <1>5 DEF mask

\* set_flags leaves the address field of a RISC-V entry alone.
LEMMA Rv64SetFlags ==
    ASSUME NEW f \in SUBSET MappingFlags, NEW h \in BOOLEAN, NEW e
    PROVE  Rv64!set_flags(e, f, h) \cap Rv64!PHYS_ADDR_MASK = e \cap Rv64!PHYS_ADDR_MASK
<1> DEFINE attr == Rv64!PTEFlags(f)
<1>1. attr \cap Rv64!PHYS_ADDR_MASK = {}
  BY Rv64Apart
<1>2. Rv64!set_flags(e, f, h) = attr \cup (e \cap Rv64!PHYS_ADDR_MASK)
  BY DEF Rv64!set_flags
<1> HIDE DEF attr
<1> QED
  BY <1>1, <1>2

\* Every write of a RISC-V entry puts the address asked for into its field.
LEMMA Rv64Writes ==
    ASSUME NEW p \in SUBSET (12..47), NEW f \in SUBSET MappingFlags, NEW h \in BOOLEAN, NEW e
    PROVE  LET field == Rv64!ShiftRight2(p)
           IN  /\ Rv64!new_page(p, f, h) \cap Rv64!PHYS_ADDR_MASK = field
               /\ Rv64!new_table(p) \cap Rv64!PHYS_ADDR_MASK = field
               /\ Rv64!set_paddr(e, p) \cap Rv64!PHYS_ADDR_MASK = field
    <1> DEFINE mask == Rv64!PHYS_ADDR_MASK
           attr == Rv64!PTEFlags(f)
           table == {Rv64!V}
           field == Rv64!ShiftRight2(p)
<1>1. field \subseteq mask /\ table \cap mask = {}
  BY Rv64Shift DEF Rv64!PHYS_ADDR_MASK, Rv64!V
<1>2. attr \cap mask = {}
  BY Rv64Apart
<1>3. /\ Rv64!new_page(p, f, h) = attr \cup (field \cap mask)
      /\ Rv64!new_table(p) = table \cup (field \cap mask)
      /\ Rv64!set_paddr(e, p) = (e \ mask) \cup (field \cap mask)
  BY DEF Rv64!new_page, Rv64!new_table, Rv64!set_paddr
<1> HIDE DEF mask, attr, table, field
<1>4. (e \ mask) \cap mask = {}
  OBVIOUS
<1>5. /\ (attr \cup (field \cap mask)) \cap mask = field
      /\ (table \cup (field \cap mask)) \cap mask = field
      /\ ((e \ mask) \cup (field \cap mask)) \cap mask = field
  BY <1>1, <1>2, <1>4, Field
<1> QED
  BY <1>3, <1>4, <1>5 DEF mask, field

\* set_flags leaves the address field of a LoongArch64 entry alone.
LEMMA LA64SetFlags ==
    ASSUME NEW f \in SUBSET MappingFlags, NEW h \in BOOLEAN, NEW e
    PROVE  LA64!set_flags(e, f, h) \cap LA64!PHYS_ADDR_MASK = e \cap LA64!PHYS_ADDR_MASK
<1> DEFINE attr == LA64!PTEFlags(f) \cup LA64!BitIf(h, LA64!GH)
<1>1. attr \cap LA64!PHYS_ADDR_MASK = {}
  BY LA64Apart
<1>2. LA64!set_flags(e, f, h) = attr \cup (e \cap LA64!PHYS_ADDR_MASK)
  BY DEF LA64!set_flags
<1> HIDE DEF attr
<1> QED
  BY <1>1, <1>2

\* Every write of a LoongArch64 entry puts the address asked for into its field.
LEMMA LA64Writes ==
    ASSUME NEW p \in SUBSET (12..47), NEW f \in SUBSET MappingFlags, NEW h \in BOOLEAN, NEW e
    PROVE  /\ LA64!new_page(p, f, h) \cap LA64!PHYS_ADDR_MASK = p
           /\ LA64!new_table(p) \cap LA64!PHYS_ADDR_MASK = p
           /\ LA64!set_paddr(e, p) \cap LA64!PHYS_ADDR_MASK = p
<1> DEFINE mask == LA64!PHYS_ADDR_MASK
           attr == LA64!PTEFlags(f) \cup LA64!BitIf(h, LA64!GH)
<1>1. p \subseteq mask
  BY DEF LA64!PHYS_ADDR_MASK
<1>2. attr \cap mask = {}
  BY LA64Apart
<1>3. /\ LA64!new_page(p, f, h) = attr \cup (p \cap mask)
      /\ LA64!new_table(p) = p \cap mask
      /\ LA64!set_paddr(e, p) = (e \ mask) \cup (p \cap mask)
  BY DEF LA64!new_page, LA64!new_table, LA64!set_paddr
<1> HIDE DEF mask, attr
<1>4. (e \ mask) \cap mask = {}
  OBVIOUS
<1>5. /\ (attr \cup (p \cap mask)) \cap mask = p
      /\ (p \cap mask) \cap mask = p
      /\ ((e \ mask) \cup (p \cap mask)) \cap mask = p
  BY <1>1, <1>2, <1>4, Field
<1> QED
  BY <1>3, <1>4, <1>5 DEF mask
---------------------------------------------------------------------------
(* The address of an ARMv7 entry *)

\* A section stands where it was written, a small page where Addressable says.
LEMMA A32PageAddress ==
    ASSUME NEW p \in SUBSET (12..31), NEW f \in SUBSET MappingFlags, NEW h \in BOOLEAN,
           h => p \subseteq 20..31, Addressable(p, f, h)
    PROVE  A32!paddr_of(A32!new_page(p, f, h)) = p
<1>1. f # {} /\ (h => p # {} /\ p \in SUBSET (20..31))
  BY DEF Addressable
<1>2. CASE h
  <2>1. A32!new_page(p, f, h) = A32!new_section(p, f)
    BY <1>2 DEF A32!new_page
  <2>2. /\ A32!new_section(p, f) \cap A32!SECTION_ADDR_MASK = p
        /\ A32!descriptor_type(A32!new_section(p, f)) = {A32!TYPE_BIT1}
    BY <1>1, <1>2, A32Section
  <2>3. A32!addr_mask(A32!new_section(p, f)) = A32!SECTION_ADDR_MASK
    BY <1>1, <1>2, <2>2 DEF A32!addr_mask, A32!TYPE_BIT0, A32!TYPE_BIT1
  <2> QED
    BY <2>1, <2>2, <2>3 DEF A32!paddr_of
<1>3. CASE ~h
  <2> DEFINE e == A32!new_small_page(p, f)
  <2>1. A32!new_page(p, f, h) = e
    BY <1>3 DEF A32!new_page
  <2>2. /\ e \cap A32!SMALL_PAGE_ADDR_MASK = p
        /\ A32!descriptor_type(e) = IF "EXECUTE" \in f THEN {A32!TYPE_BIT1}
                                    ELSE {A32!TYPE_BIT0, A32!TYPE_BIT1}
    BY <1>1, A32SmallPage
  <2> HIDE DEF e
  <2>3. e \cap A32!SECTION_ADDR_MASK = p \cap (20..31)
    <3>1. \A b \in 20..31 : b \in 12..31
      OBVIOUS
    <3> QED
      BY <2>2, <3>1 DEF A32!SECTION_ADDR_MASK, A32!SMALL_PAGE_ADDR_MASK
  <2>4. CASE "EXECUTE" \in f /\ p \cap (20..31) # {}
    <3>1. p \cap (20..31) = p
      <4>1. p \cap (12..19) = {}
        BY <1>3, <2>4 DEF Addressable
      <4>2. \A b \in 12..31 : b \in 12..19 \/ b \in 20..31
        OBVIOUS
      <4> QED
        BY <4>1, <4>2
    <3>2. A32!addr_mask(e) = A32!SECTION_ADDR_MASK
      BY <2>2, <2>3, <2>4 DEF A32!addr_mask, A32!TYPE_BIT0, A32!TYPE_BIT1
    <3> QED
      BY <2>1, <2>3, <3>1, <3>2 DEF A32!paddr_of
  <2>5. CASE "EXECUTE" \notin f \/ p \cap (20..31) = {}
    <3>1. A32!addr_mask(e) = A32!SMALL_PAGE_ADDR_MASK
      BY <2>2, <2>3, <2>5 DEF A32!addr_mask, A32!TYPE_BIT0, A32!TYPE_BIT1
    <3> QED
      BY <2>1, <2>2, <3>1 DEF A32!paddr_of
  <2> QED
    BY <2>4, <2>5
<1> QED
  BY <1>2, <1>3

\* A table entry of ARMv7 leads to the table it was made for.
LEMMA A32TableAddress ==
    ASSUME NEW p, p \subseteq 12..31
    PROVE  A32!paddr_of(A32!new_table(p)) = p
<1> DEFINE e == A32!new_table(p)
<1>1. e = {0} \cup (p \cap (10..31))
  BY DEF A32!new_table, A32!TYPE_BIT0, A32!PAGE_TABLE_ADDR_MASK
<1> HIDE DEF e
<1>2. e \cap (10..31) = p
  <2>1. {0} \cap (10..31) = {} /\ p \subseteq 10..31
    OBVIOUS
  <2> QED
    BY <1>1, <2>1, Field
<1>3. 0 \in e /\ 1 \notin e
  BY <1>1
<1>4. A32!addr_mask(e) = 10..31
  BY <1>3 DEF A32!addr_mask, A32!descriptor_type, A32!TYPE_BIT0, A32!TYPE_BIT1,
     A32!PAGE_TABLE_ADDR_MASK
<1> QED
  BY <1>2, <1>4 DEF e, A32!paddr_of

\* A section that is moved is the section of its new address.
LEMMA A32SectionMoved ==
    ASSUME NEW q, NEW p, NEW f \in SUBSET MappingFlags, f # {}, q \subseteq 20..31
    PROVE  A32!set_paddr(A32!new_section(q, f), p) = A32!new_section(p, f)
<1> DEFINE attr == A32!from_mapping_flags_section(f)
           mask == A32!SECTION_ADDR_MASK
           e == A32!new_section(q, f)
<1>1. A32!descriptor_type(e) = {A32!TYPE_BIT1}
  BY A32Section
<1>2. A32!set_paddr(e, p) = (e \ mask) \cup (p \cap mask)
  BY <1>1 DEF A32!set_paddr, A32!TYPE_BIT0, A32!TYPE_BIT1
<1>3. attr \cap mask = {}
  <2>1. attr \in SUBSET (1..16)
    BY A32Common DEF A32!from_mapping_flags_section, A32!BitIf, A32!TYPE_BIT1, A32!XN_SMALL
  <2> HIDE DEF attr
  <2> QED
    BY <2>1 DEF A32!SECTION_ADDR_MASK
<1>4. e = attr \cup (q \cap mask) /\ A32!new_section(p, f) = attr \cup (p \cap mask)
  BY DEF A32!new_section
<1> HIDE DEF attr, mask, e
<1>5. e \ mask = attr
  BY <1>3, <1>4
<1> QED
  BY <1>2, <1>4, <1>5 DEF e

\* Only the bits of its address field are left of the address of a page.
LEMMA A32Masked ==
    ASSUME NEW p, NEW f
    PROVE  /\ A32!new_page(p \cap (20..31), f, TRUE) = A32!new_page(p, f, TRUE)
           /\ A32!new_page(p \cap (12..31), f, FALSE) = A32!new_page(p, f, FALSE)
<1>1. /\ (p \cap (20..31)) \cap (20..31) = p \cap (20..31)
      /\ (p \cap (12..31)) \cap (12..31) = p \cap (12..31)
  OBVIOUS
<1> QED
  BY <1>1 DEF A32!new_page, A32!new_section, A32!new_small_page, A32!SECTION_ADDR_MASK,
     A32!SMALL_PAGE_ADDR_MASK

\* A page without flags is its address alone, and has no type.
LEMMA A32NoFlags ==
    ASSUME NEW q \in SUBSET (12..31), NEW h \in BOOLEAN, h => q \subseteq 20..31
    PROVE  /\ A32!new_page(q, {}, h) = q
           /\ A32!descriptor_type(q) = {}
<1>1. h => q \cap (20..31) = q
  OBVIOUS
<1>2. q \cap (12..31) = q /\ 0 \notin q /\ 1 \notin q
  <2>1. 0 \notin 12..31 /\ 1 \notin 12..31
    OBVIOUS
  <2> QED
    BY <2>1
<1>3. A32!new_page(q, {}, h) = q
  BY <1>1, <1>2 DEF A32!new_page, A32!new_section, A32!new_small_page,
     A32!from_mapping_flags_section, A32!from_mapping_flags_small_page,
     A32!SECTION_ADDR_MASK, A32!SMALL_PAGE_ADDR_MASK
<1> QED
  BY <1>2, <1>3 DEF A32!descriptor_type, A32!TYPE_BIT0, A32!TYPE_BIT1

\* An executable small page is taken for a section when it is moved.
LEMMA A32SmallPageMoved ==
    ASSUME NEW q \in SUBSET (12..31), NEW p, NEW f \in SUBSET MappingFlags, "EXECUTE" \in f
    PROVE  A32!set_paddr(A32!new_small_page(q, f), p)
             = A32!new_small_page((q \ (20..31)) \cup (p \cap (20..31)), f)
<1> DEFINE attr == A32!from_mapping_flags_small_page(f)
           e == A32!new_small_page(q, f)
           r == (q \ (20..31)) \cup (p \cap (20..31))
<1>1. A32!descriptor_type(e) = {A32!TYPE_BIT1} /\ e \cap (12..31) = q
  BY A32SmallPage DEF A32!SMALL_PAGE_ADDR_MASK
<1>2. A32!set_paddr(e, p) = (e \ (20..31)) \cup (p \cap (20..31))
  BY <1>1 DEF A32!set_paddr, A32!TYPE_BIT0, A32!TYPE_BIT1, A32!SECTION_ADDR_MASK
<1>3. e = attr \cup (q \cap (12..31)) /\ A32!new_small_page(r, f) = attr \cup (r \cap (12..31))
  BY DEF A32!new_small_page, A32!SMALL_PAGE_ADDR_MASK
<1>4. A32!new_small_page({}, f) = attr
  BY DEF A32!new_small_page
<1>5. A32!new_small_page({}, f) \cap (12..31) = {}
  BY A32SmallPage DEF A32!SMALL_PAGE_ADDR_MASK
<1>6. \A b \in 20..31 : b \in 12..31
  OBVIOUS
<1> HIDE DEF attr, e
<1>7. attr \cap (20..31) = {}
  BY <1>4, <1>5, <1>6
<1>8. q \cap (12..31) = q /\ r \cap (12..31) = r
  BY <1>6
<1>9. (attr \cup q) \ (20..31) = attr \cup (q \ (20..31))
  BY <1>7
<1> QED
  BY <1>2, <1>3, <1>8, <1>9 DEF e

\* Whatever page is moved, and to whatever address, a page with the same flags
\* is left; a section stands at the new address.
LEMMA A32PageMoved ==
    ASSUME NEW q \in SUBSET (12..31), NEW p, NEW f \in SUBSET MappingFlags, NEW h \in BOOLEAN,
           h => q \subseteq 20..31
    PROVE  \E r \in SUBSET (12..31) :
              /\ h => r \subseteq 20..31
              /\ A32!set_paddr(A32!new_page(q, f, h), p) = A32!new_page(r, f, h)
              /\ h /\ f # {} => r = p \cap (20..31)
<1>0. \A b \in 20..31 : b \in 12..31
  OBVIOUS
<1>1. CASE f = {}
  <2>1. A32!set_paddr(A32!new_page(q, f, h), p) = A32!new_page(q, f, h)
    BY <1>1, A32NoFlags DEF A32!set_paddr, A32!TYPE_BIT0, A32!TYPE_BIT1
  <2> QED
    BY <1>1, <2>1
<1>2. CASE f # {} /\ h
  <2> DEFINE r == p \cap (20..31)
  <2>1. A32!set_paddr(A32!new_page(q, f, h), p) = A32!new_page(p, f, h)
    BY <1>2, A32SectionMoved DEF A32!new_page
  <2>2. A32!new_page(p, f, h) = A32!new_page(r, f, h)
    BY <1>2, A32Masked
  <2>3. r \in SUBSET (12..31) /\ r \subseteq 20..31
    BY <1>0
  <2> QED
    BY <2>1, <2>2, <2>3
<1>3. CASE f # {} /\ ~h /\ "EXECUTE" \in f
  <2> DEFINE r == (q \ (20..31)) \cup (p \cap (20..31))
  <2>1. A32!set_paddr(A32!new_page(q, f, h), p) = A32!new_page(r, f, h)
    BY <1>3, A32SmallPageMoved DEF A32!new_page
  <2>2. r \in SUBSET (12..31)
    BY <1>0
  <2> QED
    BY <1>3, <2>1, <2>2
<1>4. CASE f # {} /\ ~h /\ "EXECUTE" \notin f
  <2>1. A32!descriptor_type(A32!new_page(q, f, h)) = {A32!TYPE_BIT0, A32!TYPE_BIT1}
    BY <1>4, A32SmallPage DEF A32!new_page
  <2>2. A32!set_paddr(A32!new_page(q, f, h), p) = A32!new_page(q, f, h)
    BY <2>1 DEF A32!set_paddr, A32!TYPE_BIT0, A32!TYPE_BIT1
  <2> QED
    BY <1>4, <2>2
<1> QED
  BY <1>1, <1>2, <1>3, <1>4
---------------------------------------------------------------------------
(* Attributes and flags *)

\* The bits of an entry outside its address field.
Outside(e, mask) == e \ mask

\* What an entry holds beside its address: that of a page, as it is written.
X64Attr(f, h) == X64!PTF(f) \cup X64!BitIf(h, X64!HUGE_PAGE)
A64Attr(f, h) == A64!DescriptorAttr(f) \cup {A64!AF} \cup A64!BitIf(~h, A64!NON_BLOCK)
Rv64Attr(f) == Rv64!PTEFlags(f)
LA64Attr(f, h) == LA64!PTEFlags(f) \cup LA64!BitIf(h, LA64!GH)

Cached(f) == IF "DEVICE" \in f THEN f \ {"UNCACHED"} ELSE f

\* What the flags read back as: PteFormats!Representable, of each format.
X64Shown(f) ==
    IF f = {} THEN {}
    ELSE {"READ"} \cup (f \ {"DEVICE"})
         \cup IF "DEVICE" \in f THEN {"UNCACHED"} ELSE {}

A64Shown(f) == IF "READ" \in f THEN Cached(f) ELSE {}
Rv64Shown(f) == f \ {"DEVICE", "UNCACHED"}

\* The attributes of a page decode to those flags, to its size and to whether
\* it is present.
LEMMA X64Decode ==
    ASSUME NEW f \in SUBSET MappingFlags, NEW h \in BOOLEAN, NEW e,
           Outside(e, X64!PHYS_ADDR_MASK) = X64Attr(f, h)
    PROVE  /\ X64!flags_of(e) = X64Shown(f)
           /\ X64!is_huge(e) <=> h
           /\ X64!is_present(e) <=> f # {}
<1>1. \A b \in {0, 1, 2, 3, 4, 7, 63} : b \in e <=> b \in X64Attr(f, h)
  BY DEF Outside, X64!PHYS_ADDR_MASK
<1>2. /\ 0 \in e <=> f # {}
      /\ 1 \in e <=> "WRITE" \in f
      /\ 63 \in e <=> f # {} /\ "EXECUTE" \notin f
      /\ 2 \in e <=> "USER" \in f
      /\ 4 \in e <=> "DEVICE" \in f \/ "UNCACHED" \in f
      /\ 7 \in e <=> h
  BY <1>1 DEF X64Attr, X64!PTF, X64!BitIf, X64!PRESENT, X64!WRITABLE, X64!USER_ACCESSIBLE,
     X64!WRITE_THROUGH, X64!NO_CACHE, X64!HUGE_PAGE, X64!NO_EXECUTE
<1>3. X64!flags_of(e) = X64Shown(f)
  BY <1>2 DEF X64!flags_of, X64Shown, X64!BitIf, X64!PRESENT, X64!WRITABLE,
     X64!USER_ACCESSIBLE, X64!NO_CACHE, X64!NO_EXECUTE, MappingFlags
<1> QED
  BY <1>2, <1>3 DEF X64!is_huge, X64!is_present, X64!HUGE_PAGE, X64!PRESENT

\* The same of aarch64.
LEMMA A64Decode ==
    ASSUME NEW f \in SUBSET MappingFlags, NEW h \in BOOLEAN, NEW e,
           Outside(e, A64!PHYS_ADDR_MASK) = A64Attr(f, h)
    PROVE  /\ A64!flags_of(e) = A64Shown(f)
           /\ A64!is_huge(e) <=> h
           /\ A64!is_present(e) <=> "READ" \in f
<1>1. \A b \in {0, 1, 2, 3, 4, 6, 7, 53, 54} : b \in e <=> b \in A64Attr(f, h)
  BY DEF Outside, A64!PHYS_ADDR_MASK
<1>2. /\ 0 \in e <=> "READ" \in f
      /\ 1 \in e <=> ~h
      /\ 2 \in e <=> f # {} /\ "DEVICE" \notin f /\ "UNCACHED" \notin f
      /\ 3 \in e <=> "DEVICE" \notin f /\ "UNCACHED" \in f
      /\ 4 \notin e
      /\ 6 \in e <=> "USER" \in f
      /\ 7 \in e <=> f # {} /\ "WRITE" \notin f
      /\ 53 \in e <=> f # {} /\ ("USER" \in f \/ "EXECUTE" \notin f)
      /\ 54 \in e <=> f # {} /\ ("USER" \notin f \/ "EXECUTE" \notin f)
  BY <1>1 DEF A64Attr, A64!DescriptorAttr, A64!BitIf, A64!from_mem_attr, A64!VALID, A64!NON_BLOCK,
       A64!AP_EL0, A64!AP_RO, A64!INNER, A64!SHAREABLE, A64!AF, A64!PXN, A64!UXN,
       A64!Device, A64!Normal, A64!NormalNonCacheable
<1>3. /\ e \cap A64!ATTR_INDEX_MASK = A64!Device <=> f = {} \/ "DEVICE" \in f
      /\ e \cap A64!ATTR_INDEX_MASK = A64!NormalNonCacheable
            <=> "DEVICE" \notin f /\ "UNCACHED" \in f
  <2>1. 2..4 = {2, 3, 4}
    OBVIOUS
  <2> QED
    BY <1>2, <2>1 DEF A64!ATTR_INDEX_MASK, A64!Device, A64!NormalNonCacheable
<1>4. A64!flags_of(e) = A64Shown(f)
  BY <1>2, <1>3 DEF A64!flags_of, A64Shown, Cached, A64!BitIf, A64!VALID, A64!AP_RO, A64!AP_EL0,
     A64!PXN, A64!UXN, MappingFlags
<1> QED
  BY <1>2, <1>4 DEF A64!is_huge, A64!is_present, A64!NON_BLOCK, A64!VALID

\* The same of RISC-V, whose pages are those the debug_assert! lets through.
LEMMA Rv64Decode ==
    ASSUME NEW f \in SUBSET MappingFlags, NEW e,
           Outside(e, Rv64!PHYS_ADDR_MASK) = Rv64Attr(f)
    PROVE  /\ Rv64!flags_of(e) = Rv64Shown(f)
           /\ Rv64!is_huge(e) <=> Rv64!DebugAssert(f)
           /\ Rv64!is_present(e) <=> f # {}
           /\ Rv64!DebugAssert(f) => Rv64Shown(f) # {}
<1>1. \A b \in {0, 1, 2, 3, 4, 6, 7} : b \in e <=> b \in Rv64Attr(f)
  BY DEF Outside, Rv64!PHYS_ADDR_MASK
<1>2. /\ 0 \in e <=> f # {}
      /\ 1 \in e <=> "READ" \in f
      /\ 2 \in e <=> "WRITE" \in f
      /\ 3 \in e <=> "EXECUTE" \in f
      /\ 4 \in e <=> "USER" \in f
  BY <1>1 DEF Rv64Attr, Rv64!PTEFlags, Rv64!BitIf, Rv64!V, Rv64!R, Rv64!W, Rv64!X, Rv64!U,
     Rv64!A, Rv64!D
<1>3. Rv64!flags_of(e) = Rv64Shown(f)
  BY <1>2 DEF Rv64!flags_of, Rv64Shown, Rv64!BitIf, Rv64!V, Rv64!R, Rv64!W, Rv64!X, Rv64!U,
     MappingFlags
<1>4. Rv64!DebugAssert(f) <=> "READ" \in f \/ "EXECUTE" \in f
  BY DEF Rv64!DebugAssert, Rv64!PTEFlags, Rv64!BitIf, Rv64!V, Rv64!R, Rv64!W, Rv64!X, Rv64!U,
     Rv64!A, Rv64!D
<1> QED
  BY <1>2, <1>3, <1>4 DEF Rv64!is_huge, Rv64!is_present, Rv64!R, Rv64!X, Rv64!V, Rv64Shown

\* The flags without UNCACHED, if there is DEVICE, one by one.
LEMMA CachedParts ==
    ASSUME NEW f \in SUBSET MappingFlags
    PROVE  Cached(f) = (IF "READ" \in f THEN {"READ"} ELSE {})
                       \cup (IF "WRITE" \in f THEN {"WRITE"} ELSE {})
                       \cup (IF "EXECUTE" \in f THEN {"EXECUTE"} ELSE {})
                       \cup (IF "USER" \in f THEN {"USER"} ELSE {})
                       \cup (IF "DEVICE" \notin f /\ "UNCACHED" \in f THEN {"UNCACHED"} ELSE {})
                       \cup (IF "DEVICE" \in f THEN {"DEVICE"} ELSE {})
<1>1. CASE "DEVICE" \in f
  BY <1>1 DEF Cached, MappingFlags
<1>2. CASE "DEVICE" \notin f
  BY <1>2 DEF Cached, MappingFlags
<1> QED
  BY <1>1, <1>2

\* The same of LoongArch64.
LEMMA LA64Decode ==
    ASSUME NEW f \in SUBSET MappingFlags, NEW h \in BOOLEAN, NEW e,
           Outside(e, LA64!PHYS_ADDR_MASK) = LA64Attr(f, h)
    PROVE  /\ LA64!flags_of(e) = Cached(f)
           /\ LA64!is_huge(e) <=> h
           /\ LA64!is_present(e) <=> f # {}
<1>1. \A b \in {0, 1, 2, 3, 4, 5, 6, 7, 8, 61, 62} : b \in e <=> b \in LA64Attr(f, h)
  BY DEF Outside, LA64!PHYS_ADDR_MASK
<1>2. /\ 0 \in e <=> f # {}
      /\ 7 \in e <=> f # {}
      /\ 61 \in e <=> f # {} /\ "READ" \notin f
      /\ 8 \in e <=> "WRITE" \in f
      /\ 62 \in e <=> f # {} /\ "EXECUTE" \notin f
      /\ 2 \in e <=> "USER" \in f
      /\ 3 \in e <=> "USER" \in f
      /\ 4 \in e <=> f # {} /\ "DEVICE" \notin f /\ "UNCACHED" \notin f
      /\ 5 \in e <=> "DEVICE" \notin f /\ "UNCACHED" \in f
      /\ 6 \in e <=> h
  BY <1>1 DEF LA64Attr, LA64!PTEFlags, LA64!BitIf, LA64!V, LA64!D, LA64!PLVL, LA64!PLVH, LA64!MATL,
       LA64!MATH, LA64!GH, LA64!P, LA64!W, LA64!NR, LA64!NX
<1>3. ASSUME f = {} PROVE LA64!flags_of(e) = Cached(f)
  <2>0. 0 \notin e
    BY <1>2, <1>3
  <2>1. LA64!flags_of(e) = {}
    BY <2>0 DEF LA64!flags_of, LA64!V
  <2> QED
    BY <1>3, <2>1 DEF Cached
<1>4. ASSUME f # {} PROVE LA64!flags_of(e) = Cached(f)
  <2>1. {2, 3} \subseteq e <=> "USER" \in f
    BY <1>2
  <2>2. /\ 61 \notin e <=> "READ" \in f
        /\ 62 \notin e <=> "EXECUTE" \in f
        /\ 4 \notin e /\ 5 \in e <=> "DEVICE" \notin f /\ "UNCACHED" \in f
        /\ 4 \notin e /\ 5 \notin e <=> "DEVICE" \in f
    BY <1>2, <1>4
  <2> DEFINE d == LA64!flags_of(e)
  <2>0. 0 \in e /\ (8 \in e <=> "WRITE" \in f)
    BY <1>2, <1>4
  <2>3. d = LA64!BitIf("READ" \in f, "READ") \cup LA64!BitIf("WRITE" \in f, "WRITE")
              \cup LA64!BitIf("EXECUTE" \in f, "EXECUTE")
              \cup LA64!BitIf("USER" \in f, "USER")
              \cup LA64!BitIf("DEVICE" \notin f /\ "UNCACHED" \in f, "UNCACHED")
              \cup LA64!BitIf("DEVICE" \in f, "DEVICE")
    BY <2>0, <2>1, <2>2
       DEF LA64!flags_of, LA64!BitIf, LA64!V, LA64!NR, LA64!W, LA64!NX, LA64!PLVL,
           LA64!PLVH, LA64!MATL, LA64!MATH
  <2> HIDE DEF d
  <2>4. d = Cached(f)
    BY <2>3, CachedParts DEF LA64!BitIf
  <2> QED
    BY <2>4 DEF d
<1>5. LA64!flags_of(e) = Cached(f)
  BY <1>3, <1>4
<1> QED
  BY <1>2, <1>5 DEF LA64!is_huge, LA64!is_present, LA64!GH, LA64!P

\* A section of ARMv7 decodes to its flags.
LEMMA A32Decode ==
    ASSUME NEW f \in SUBSET MappingFlags, f # {}, NEW p \in SUBSET (20..31)
    PROVE  A32!flags_of(A32!new_section(p, f)) = {"READ"} \cup Cached(f)
<1> DEFINE e == A32!new_section(p, f)
<1>1. /\ 1 \in e /\ 0 \notin e
      /\ 10 \in e
      /\ 15 \in e <=> "WRITE" \notin f
      /\ 11 \in e <=> "USER" \in f
      /\ 4 \in e <=> "EXECUTE" \notin f
      /\ 2 \in e <=> "DEVICE" \in f \/ "UNCACHED" \notin f
      /\ 3 \in e <=> "DEVICE" \notin f /\ "UNCACHED" \notin f
      /\ 12 \in e <=> "DEVICE" \notin f
      /\ 13 \notin e /\ 14 \notin e
  <2> DEFINE attr == A32!from_mapping_flags_section(f)
  <2>1. \A b \in {0, 1, 2, 3, 4, 10, 11, 12, 13, 14, 15} : b \in e <=> b \in attr
    BY DEF A32!new_section, A32!SECTION_ADDR_MASK
  <2>2. attr = {1} \cup (IF "DEVICE" \in f THEN {2}
                        ELSE IF "UNCACHED" \in f THEN {12} ELSE {12, 3, 2, 16})
               \cup {10} \cup (IF "USER" \in f THEN {11} ELSE {})
               \cup (IF "WRITE" \notin f THEN {15} ELSE {})
               \cup (IF "EXECUTE" \notin f THEN {4} ELSE {})
    BY DEF A32!from_mapping_flags_section, A32!common_flags, A32!BitIf, A32!TYPE_BIT1, A32!B,
       A32!C, A32!AP0, A32!AP1, A32!TEX0, A32!AP2, A32!S, A32!XN_SMALL
  <2> HIDE DEF e, attr
  <2> QED
    BY <2>1, <2>2
<1> HIDE DEF e
<1>2. /\ e \cap {12, 13, 14, 3, 2} = {2} <=> "DEVICE" \in f
      /\ e \cap {12, 13, 14, 3, 2} = {12} <=> "DEVICE" \notin f /\ "UNCACHED" \in f
  BY <1>1
<1>3. A32!descriptor_type(e) # {}
  BY <1>1 DEF A32!descriptor_type, A32!TYPE_BIT1
<1>4. A32!flags_of(e) = {"READ"} \cup Cached(f)
  <2> DEFINE d == A32!flags_of(e)
  <2>1. d = {"READ"} \cup A32!BitIf("WRITE" \in f, "WRITE")
             \cup A32!BitIf("USER" \in f, "USER") \cup A32!BitIf("EXECUTE" \in f, "EXECUTE")
             \cup A32!BitIf("DEVICE" \in f, "DEVICE")
             \cup A32!BitIf("DEVICE" \notin f /\ "UNCACHED" \in f, "UNCACHED")
    BY <1>1, <1>2, <1>3 DEF A32!flags_of, A32!BitIf, A32!AP0, A32!AP1, A32!AP2,
       A32!XN_SMALL, A32!TEX0, A32!C, A32!B
  <2> HIDE DEF d
  <2>2. d = {"READ"} \cup Cached(f)
    BY <2>1, CachedParts DEF A32!BitIf
  <2> QED
    BY <2>2 DEF d
<1> QED
  BY <1>4 DEF e

\* What an entry holds beside its address: that of a table.
X64Table == {X64!PRESENT, X64!WRITABLE, X64!USER_ACCESSIBLE}
A64Table == {A64!NON_BLOCK, A64!VALID}
Rv64Table == {Rv64!V}
LA64Table == {}


\* What each write leaves beside the address.
LEMMA X64Beside ==
    ASSUME NEW p, NEW f \in SUBSET MappingFlags, NEW h \in BOOLEAN, NEW e
    PROVE  /\ Outside(X64!new_page(p, f, h), X64!PHYS_ADDR_MASK) = X64Attr(f, h)
           /\ Outside(X64!set_flags(e, f, h), X64!PHYS_ADDR_MASK) = X64Attr(f, h)
           /\ Outside(X64!set_paddr(e, p), X64!PHYS_ADDR_MASK) = Outside(e, X64!PHYS_ADDR_MASK)
           /\ Outside(X64!new_table(p), X64!PHYS_ADDR_MASK) = X64Table
<1> DEFINE mask == X64!PHYS_ADDR_MASK
           attr == X64Attr(f, h)
           q == p
<1>1. attr \cap mask = {} /\ X64Table \cap mask = {}
  BY X64Apart DEF X64Attr, X64Table, X64!PRESENT, X64!WRITABLE, X64!USER_ACCESSIBLE, X64!PHYS_ADDR_MASK
<1>2. /\ X64!new_page(p, f, h) = attr \cup (q \cap mask)
      /\ X64!set_flags(e, f, h) = attr \cup (e \cap mask)
      /\ X64!set_paddr(e, p) = (e \ mask) \cup (q \cap mask)
      /\ X64!new_table(p) = X64Table \cup (q \cap mask)
  BY DEF X64Attr, X64Table, X64!new_page, X64!set_flags, X64!set_paddr, X64!new_table
<1> HIDE DEF mask, attr, q
<1>3. \A x : /\ (attr \cup (x \cap mask)) \ mask = attr
             /\ (X64Table \cup (x \cap mask)) \ mask = X64Table
             /\ ((e \ mask) \cup (x \cap mask)) \ mask = e \ mask
  BY <1>1
<1> QED
  BY <1>2, <1>3 DEF mask, attr, Outside

\* The same of aarch64.
LEMMA A64Beside ==
    ASSUME NEW p, NEW f \in SUBSET MappingFlags, NEW h \in BOOLEAN, NEW e
    PROVE  /\ Outside(A64!new_page(p, f, h), A64!PHYS_ADDR_MASK) = A64Attr(f, h)
           /\ Outside(A64!set_flags(e, f, h), A64!PHYS_ADDR_MASK) = A64Attr(f, h)
           /\ Outside(A64!set_paddr(e, p), A64!PHYS_ADDR_MASK) = Outside(e, A64!PHYS_ADDR_MASK)
           /\ Outside(A64!new_table(p), A64!PHYS_ADDR_MASK) = A64Table
<1> DEFINE mask == A64!PHYS_ADDR_MASK
           attr == A64Attr(f, h)
           q == p
<1>1. attr \cap mask = {} /\ A64Table \cap mask = {}
  BY A64Apart DEF A64Attr, A64Table, A64!NON_BLOCK, A64!VALID, A64!PHYS_ADDR_MASK
<1>2. /\ A64!new_page(p, f, h) = attr \cup (q \cap mask)
      /\ A64!set_flags(e, f, h) = attr \cup (e \cap mask)
      /\ A64!set_paddr(e, p) = (e \ mask) \cup (q \cap mask)
      /\ A64!new_table(p) = A64Table \cup (q \cap mask)
  BY DEF A64Attr, A64Table, A64!new_page, A64!set_flags, A64!set_paddr, A64!new_table
<1> HIDE DEF mask, attr, q
<1>3. \A x : /\ (attr \cup (x \cap mask)) \ mask = attr
             /\ (A64Table \cup (x \cap mask)) \ mask = A64Table
             /\ ((e \ mask) \cup (x \cap mask)) \ mask = e \ mask
  BY <1>1
<1> QED
  BY <1>2, <1>3 DEF mask, attr, Outside

\* The same of RISC-V.
LEMMA Rv64Beside ==
    ASSUME NEW p, NEW f \in SUBSET MappingFlags
    PROVE  /\ \A h : Outside(Rv64!new_page(p, f, h), Rv64!PHYS_ADDR_MASK) = Rv64Attr(f)
           /\ \A e, h : Outside(Rv64!set_flags(e, f, h), Rv64!PHYS_ADDR_MASK) = Rv64Attr(f)
           /\ \A e : Outside(Rv64!set_paddr(e, p), Rv64!PHYS_ADDR_MASK) = Outside(e, Rv64!PHYS_ADDR_MASK)
           /\ Outside(Rv64!new_table(p), Rv64!PHYS_ADDR_MASK) = Rv64Table
<1> DEFINE mask == Rv64!PHYS_ADDR_MASK
           attr == Rv64Attr(f)
           q == Rv64!ShiftRight2(p)
<1>1. attr \cap mask = {} /\ Rv64Table \cap mask = {}
  BY Rv64Apart DEF Rv64Attr, Rv64Table, Rv64!V, Rv64!PHYS_ADDR_MASK
<1>2. /\ \A h : Rv64!new_page(p, f, h) = attr \cup (q \cap mask)
      /\ \A e, h : Rv64!set_flags(e, f, h) = attr \cup (e \cap mask)
      /\ \A e : Rv64!set_paddr(e, p) = (e \ mask) \cup (q \cap mask)
      /\ Rv64!new_table(p) = Rv64Table \cup (q \cap mask)
  BY DEF Rv64Attr, Rv64Table, Rv64!new_page, Rv64!set_flags, Rv64!set_paddr, Rv64!new_table
<1> HIDE DEF mask, attr, q
<1>3. \A x : /\ (attr \cup (x \cap mask)) \ mask = attr
             /\ (Rv64Table \cup (x \cap mask)) \ mask = Rv64Table
             /\ \A e : ((e \ mask) \cup (x \cap mask)) \ mask = e \ mask
  BY <1>1
<1> QED
  BY <1>2, <1>3 DEF mask, attr, Outside

\* The same of LoongArch64.
LEMMA LA64Beside ==
    ASSUME NEW p, NEW f \in SUBSET MappingFlags, NEW h \in BOOLEAN, NEW e
    PROVE  /\ Outside(LA64!new_page(p, f, h), LA64!PHYS_ADDR_MASK) = LA64Attr(f, h)
           /\ Outside(LA64!set_flags(e, f, h), LA64!PHYS_ADDR_MASK) = LA64Attr(f, h)
           /\ Outside(LA64!set_paddr(e, p), LA64!PHYS_ADDR_MASK) = Outside(e, LA64!PHYS_ADDR_MASK)
           /\ Outside(LA64!new_table(p), LA64!PHYS_ADDR_MASK) = LA64Table
<1> DEFINE mask == LA64!PHYS_ADDR_MASK
           attr == LA64Attr(f, h)
           q == p
<1>1. attr \cap mask = {} /\ LA64Table \cap mask = {}
  BY LA64Apart DEF LA64Attr, LA64Table, LA64!PHYS_ADDR_MASK
<1>2. /\ LA64!new_page(p, f, h) = attr \cup (q \cap mask)
      /\ LA64!set_flags(e, f, h) = attr \cup (e \cap mask)
      /\ LA64!set_paddr(e, p) = (e \ mask) \cup (q \cap mask)
      /\ LA64!new_table(p) = LA64Table \cup (q \cap mask)
  BY DEF LA64Attr, LA64Table, LA64!new_page, LA64!set_flags, LA64!set_paddr, LA64!new_table
<1> HIDE DEF mask, attr, q
<1>3. \A x : /\ (attr \cup (x \cap mask)) \ mask = attr
             /\ (LA64Table \cup (x \cap mask)) \ mask = LA64Table
             /\ ((e \ mask) \cup (x \cap mask)) \ mask = e \ mask
  BY <1>1
<1> QED
  BY <1>2, <1>3 DEF mask, attr, Outside
---------------------------------------------------------------------------
(* The invariant *)

\* What was asked for is something a caller may ask for.
AskedOK ==
    /\ arch \in Arch
    /\ asked \in [kind : {"unused", "page", "table"}, paddr : SUBSET (12..47),
                  flags : SUBSET MappingFlags, huge : BOOLEAN]
    /\ asked.huge => asked.paddr \subseteq 20..47

\* An ARMv7 entry does not say where its address is, so all of it is known: a
\* page is one at some address q, the one asked for as long as it is legible.
A32Field ==
    /\ asked.kind = "unused" => entry = {} /\ asked = Unused
    /\ asked.kind = "table" => /\ asked.paddr \subseteq 12..31
                               /\ entry = A32!new_table(asked.paddr)
    /\ asked.kind = "page" =>
          /\ asked.paddr \subseteq 12..31
          /\ \E q \in SUBSET (12..31) :
                /\ asked.huge => q \subseteq 20..31
                /\ entry = A32!new_page(q, asked.flags, asked.huge)
                /\ legible => q = asked.paddr /\ Addressable(q, asked.flags, asked.huge)

\* A 64-bit entry holds the address in its field, whatever the rest says.
FieldInv ==
    /\ arch = "x86_64" => entry \cap X64!PHYS_ADDR_MASK = asked.paddr
    /\ arch = "aarch64" => entry \cap A64!PHYS_ADDR_MASK = asked.paddr
    /\ arch = "riscv" => entry \cap Rv64!PHYS_ADDR_MASK = Rv64!ShiftRight2(asked.paddr)
    /\ arch = "loongarch64" => entry \cap LA64!PHYS_ADDR_MASK = asked.paddr
    /\ arch = "arm" => A32Field

FormatInv == AskedOK /\ FieldInv

\* An entry whose address field is right is read back right.
LEMMA AddressRead == ASSUME FormatInv PROVE AddressKept
<1>1. asked.paddr \in SUBSET (12..47) /\ asked.flags \in SUBSET MappingFlags
      /\ asked.huge \in BOOLEAN /\ asked.kind \in {"unused", "page", "table"}
  BY DEF FormatInv, AskedOK
<1>2. CASE arch = "x86_64"
  BY <1>2 DEF FormatInv, FieldInv, AddressKept, ReadBack, X64!paddr_of
<1>3. CASE arch = "aarch64"
  BY <1>3 DEF FormatInv, FieldInv, AddressKept, ReadBack, A64!paddr_of
<1>4. CASE arch = "riscv"
  BY <1>1, <1>4, Rv64Shift DEF FormatInv, FieldInv, AddressKept, ReadBack, Rv64!paddr_of
<1>5. CASE arch = "loongarch64"
  BY <1>5 DEF FormatInv, FieldInv, AddressKept, ReadBack, LA64!paddr_of
<1>6. CASE arch = "arm"
  <2>0. A32Field
    BY <1>6 DEF FormatInv, FieldInv
  <2>1. ASSUME legible PROVE A32!paddr_of(entry) = asked.paddr
    <3>1. CASE asked.kind = "unused"
      BY <2>0, <3>1 DEF A32Field, Unused, A32!paddr_of
    <3>2. CASE asked.kind = "table"
      BY <2>0, <3>2, A32TableAddress DEF A32Field
    <3>3. CASE asked.kind = "page"
      BY <1>1, <2>0, <2>1, <3>3, A32PageAddress DEF A32Field
    <3> QED
      BY <1>1, <3>1, <3>2, <3>3
  <2> QED
    BY <1>6, <2>1 DEF AddressKept, ReadBack
<1> QED
  BY <1>2, <1>3, <1>4, <1>5, <1>6 DEF FormatInv, AskedOK, Arch

\* What is asked for at the start has its type.
LEMMA UnusedTyped ==
    Unused \in [kind : {"unused", "page", "table"}, paddr : SUBSET (12..47),
                flags : SUBSET MappingFlags, huge : BOOLEAN]
BY DEF Unused

\* An entry with no bits holds address 0.
LEMMA ZeroField ==
    ASSUME arch \in Arch, entry = {}, asked = Unused
    PROVE  FieldInv
<1>1. Rv64!ShiftRight2({}) = {}
  BY DEF Rv64!ShiftRight2
<1> QED
  BY <1>1 DEF FieldInv, A32Field, Unused

\* The actions one by one: a new page, ...
LEMMA NewPageStep ==
    ASSUME FormatInv, NEW p \in PAddr, NEW f \in SUBSET MappingFlags, NEW h \in BOOLEAN,
           NewPage(p, f, h)
    PROVE  FormatInv'
<1>1. p \in SUBSET (12..47) /\ (h => p \subseteq 20..47)
  BY PAddrAssumption DEF NewPage
<1>2. /\ arch' = arch /\ arch \in Arch
      /\ entry' = new_page(p, f, h)
      /\ asked' = [kind |-> "page", paddr |-> p, flags |-> f, huge |-> h]
      /\ arch = "arm" => p \subseteq 0..31 /\ (legible' => Addressable(p, f, h))
  BY DEF NewPage, InRange, FormatInv, AskedOK
<1>3. AskedOK'
  BY <1>1, <1>2 DEF AskedOK
<1>4. ASSUME arch = "x86_64" PROVE FieldInv'
  BY <1>1, <1>2, <1>4, X64Writes DEF FieldInv, new_page
<1>5. ASSUME arch = "aarch64" PROVE FieldInv'
  BY <1>1, <1>2, <1>5, A64Writes DEF FieldInv, new_page
<1>6. ASSUME arch = "riscv" PROVE FieldInv'
  BY <1>1, <1>2, <1>6, Rv64Writes DEF FieldInv, new_page
<1>7. ASSUME arch = "loongarch64" PROVE FieldInv'
  BY <1>1, <1>2, <1>7, LA64Writes DEF FieldInv, new_page
<1>8. ASSUME arch = "arm" PROVE FieldInv'
  <2>1. p \in SUBSET (12..31) /\ (h => p \subseteq 20..31)
    BY <1>1, <1>2, <1>8
  <2>2. entry' = A32!new_page(p, f, h)
    BY <1>2, <1>8 DEF new_page
  <2>3. A32Field'
    BY <1>2, <1>8, <2>1, <2>2 DEF A32Field
  <2> QED
    BY <1>2, <1>8, <2>3 DEF FieldInv
<1> QED
  BY <1>2, <1>3, <1>4, <1>5, <1>6, <1>7, <1>8 DEF FormatInv, Arch

\* ... a new table, ...
LEMMA NewTableStep ==
    ASSUME FormatInv, NEW p \in PAddr, NewTable(p)
    PROVE  FormatInv'
<1>1. p \in SUBSET (12..47)
  BY PAddrAssumption
<1>2. /\ arch' = arch /\ arch \in Arch
      /\ entry' = new_table(p)
      /\ asked' = [kind |-> "table", paddr |-> p, flags |-> {}, huge |-> FALSE]
      /\ arch = "arm" => p \subseteq 0..31
  BY DEF NewTable, InRange, Unused, FormatInv, AskedOK
<1>3. AskedOK'
  BY <1>1, <1>2 DEF AskedOK
<1>4. {} \in SUBSET MappingFlags /\ FALSE \in BOOLEAN
  OBVIOUS
<1>5. ASSUME arch = "x86_64" PROVE FieldInv'
  BY <1>1, <1>2, <1>4, <1>5, X64Writes DEF FieldInv, new_table
<1>6. ASSUME arch = "aarch64" PROVE FieldInv'
  BY <1>1, <1>2, <1>4, <1>6, A64Writes DEF FieldInv, new_table
<1>7. ASSUME arch = "riscv" PROVE FieldInv'
  BY <1>1, <1>2, <1>4, <1>7, Rv64Writes DEF FieldInv, new_table
<1>8. ASSUME arch = "loongarch64" PROVE FieldInv'
  BY <1>1, <1>2, <1>4, <1>8, LA64Writes DEF FieldInv, new_table
<1>9. ASSUME arch = "arm" PROVE FieldInv'
  <2>1. p \subseteq 12..31
    BY <1>1, <1>2, <1>9
  <2> QED
    BY <1>2, <1>9, <2>1 DEF FieldInv, A32Field, new_table
<1> QED
  BY <1>2, <1>3, <1>5, <1>6, <1>7, <1>8, <1>9 DEF FormatInv, Arch

\* ... another address, ...
LEMMA SetPaddrStep ==
    ASSUME FormatInv, NEW p \in PAddr, SetPaddr(p)
    PROVE  FormatInv'
<1>1. p \in SUBSET (12..47) /\ (asked.huge => p \subseteq 20..47)
  BY PAddrAssumption DEF SetPaddr
<1>2. /\ arch' = arch /\ arch \in Arch
      /\ entry' = set_paddr(p)
      /\ asked' = [kind |-> "page", paddr |-> p, flags |-> asked.flags, huge |-> asked.huge]
      /\ asked.flags \in SUBSET MappingFlags /\ asked.huge \in BOOLEAN
      /\ asked.kind # "table"
  BY DEF SetPaddr, FormatInv, AskedOK
<1>3. AskedOK'
  BY <1>1, <1>2 DEF AskedOK
<1>4. ASSUME arch = "x86_64" PROVE FieldInv'
  BY <1>1, <1>2, <1>4, X64Writes DEF FieldInv, set_paddr
<1>5. ASSUME arch = "aarch64" PROVE FieldInv'
  BY <1>1, <1>2, <1>5, A64Writes DEF FieldInv, set_paddr
<1>6. ASSUME arch = "riscv" PROVE FieldInv'
  BY <1>1, <1>2, <1>6, Rv64Writes DEF FieldInv, set_paddr
<1>7. ASSUME arch = "loongarch64" PROVE FieldInv'
  BY <1>1, <1>2, <1>7, LA64Writes DEF FieldInv, set_paddr
<1>8. ASSUME arch = "arm" PROVE FieldInv'
  <2>1. p \in SUBSET (12..31) /\ (asked.huge => p \cap (20..31) = p)
    BY <1>1, <1>8 DEF SetPaddr, InRange
  <2>2. A32Field /\ entry' = A32!set_paddr(entry, p)
    BY <1>2, <1>8 DEF FormatInv, FieldInv, set_paddr
  <2>3. \E q \in SUBSET (12..31) :
           /\ asked.huge => q \subseteq 20..31
           /\ entry = A32!new_page(q, asked.flags, asked.huge)
    <3>1. CASE asked.kind = "unused"
      <4>1. entry = {} /\ asked.flags = {} /\ asked.huge = FALSE
        BY <2>2, <3>1 DEF A32Field, Unused
      <4>2. A32!new_page({}, {}, FALSE) = {}
        BY A32NoFlags
      <4> QED
        BY <4>1, <4>2
    <3>2. CASE asked.kind = "page"
      BY <2>2, <3>2 DEF A32Field
    <3> QED
      BY <1>2, <3>1, <3>2 DEF FormatInv, AskedOK
  <2>4. PICK r \in SUBSET (12..31) :
           /\ asked.huge => r \subseteq 20..31
           /\ entry' = A32!new_page(r, asked.flags, asked.huge)
           /\ asked.huge /\ asked.flags # {} => r = p \cap (20..31)
    <3>1. PICK q \in SUBSET (12..31) :
             /\ asked.huge => q \subseteq 20..31
             /\ entry = A32!new_page(q, asked.flags, asked.huge)
      BY <2>3
    <3> DEFINE f == asked.flags
               h == asked.huge
    <3>0. f \in SUBSET MappingFlags /\ h \in BOOLEAN /\ (h => q \subseteq 20..31)
      BY <1>2, <3>1
    <3> HIDE DEF f, h
    <3>2. \E r \in SUBSET (12..31) :
             /\ h => r \subseteq 20..31
             /\ A32!set_paddr(A32!new_page(q, f, h), p) = A32!new_page(r, f, h)
             /\ h /\ f # {} => r = p \cap (20..31)
      BY <3>0, A32PageMoved
    <3> USE DEF f, h
    <3> QED
      BY <2>2, <3>1, <3>2
  <2>5. ASSUME legible' PROVE r = p /\ Addressable(r, asked.flags, asked.huge)
    <3>1. asked.huge /\ Addressable(p, asked.flags, TRUE)
      BY <1>8, <2>5 DEF SetPaddr
    <3>2. r = p
      BY <2>1, <2>4, <3>1 DEF Addressable
    <3> QED
      BY <1>2, <3>1, <3>2
  <2>6. A32Field'
    BY <1>2, <2>1, <2>4, <2>5 DEF A32Field
  <2> QED
    BY <1>2, <1>8, <2>6 DEF FieldInv
<1> QED
  BY <1>2, <1>3, <1>4, <1>5, <1>6, <1>7, <1>8 DEF FormatInv, Arch

\* ... and other flags.
LEMMA SetFlagsStep ==
    ASSUME FormatInv, NEW f \in SUBSET MappingFlags, SetFlags(f)
    PROVE  FormatInv'
<1>1. /\ arch' = arch /\ arch \in Arch
      /\ entry' = set_flags(f, asked.huge)
      /\ asked' = [kind |-> "page", paddr |-> asked.paddr, flags |-> f, huge |-> asked.huge]
      /\ asked.paddr \in SUBSET (12..47) /\ asked.huge \in BOOLEAN
      /\ asked.huge => asked.paddr \subseteq 20..47
      /\ asked.kind = "page"
  BY DEF SetFlags, FormatInv, AskedOK
<1>2. AskedOK'
  BY <1>1 DEF AskedOK
<1>3. ASSUME arch = "x86_64" PROVE FieldInv'
  <2>1. entry' = X64!set_flags(entry, f, asked.huge)
    BY <1>1, <1>3 DEF set_flags
  <2>2. entry' \cap X64!PHYS_ADDR_MASK = entry \cap X64!PHYS_ADDR_MASK
    BY <1>1, <2>1, X64SetFlags
  <2> QED
    BY <1>1, <1>3, <2>2 DEF FieldInv, FormatInv
<1>4. ASSUME arch = "aarch64" PROVE FieldInv'
  <2>1. entry' = A64!set_flags(entry, f, asked.huge)
    BY <1>1, <1>4 DEF set_flags
  <2>2. entry' \cap A64!PHYS_ADDR_MASK = entry \cap A64!PHYS_ADDR_MASK
    BY <1>1, <2>1, A64SetFlags
  <2> QED
    BY <1>1, <1>4, <2>2 DEF FieldInv, FormatInv
<1>5. ASSUME arch = "riscv" PROVE FieldInv'
  <2>1. entry' = Rv64!set_flags(entry, f, asked.huge)
    BY <1>1, <1>5 DEF set_flags
  <2>2. entry' \cap Rv64!PHYS_ADDR_MASK = entry \cap Rv64!PHYS_ADDR_MASK
    BY <1>1, <2>1, Rv64SetFlags
  <2> QED
    BY <1>1, <1>5, <2>2 DEF FieldInv, FormatInv
<1>6. ASSUME arch = "loongarch64" PROVE FieldInv'
  <2>1. entry' = LA64!set_flags(entry, f, asked.huge)
    BY <1>1, <1>6 DEF set_flags
  <2>2. entry' \cap LA64!PHYS_ADDR_MASK = entry \cap LA64!PHYS_ADDR_MASK
    BY <1>1, <2>1, LA64SetFlags
  <2> QED
    BY <1>1, <1>6, <2>2 DEF FieldInv, FormatInv
<1>7. ASSUME arch = "arm" PROVE FieldInv'
  <2> DEFINE x == A32!paddr_of(entry)
             q == IF asked.huge THEN x \cap (20..31) ELSE x \cap (12..31)
  <2>1. asked.paddr \in SUBSET (12..31) /\ (asked.huge => asked.paddr \cap (20..31) = asked.paddr)
    BY <1>1, <1>7 DEF FormatInv, FieldInv, A32Field
  <2>2. entry' = A32!new_page(x, f, asked.huge)
    BY <1>1, <1>7 DEF set_flags, A32!set_flags
  <2>3. legible => x = asked.paddr
    BY <1>7, AddressRead DEF AddressKept, ReadBack
  <2>4. legible' => legible /\ Addressable(asked.paddr, f, asked.huge)
    BY <1>7 DEF SetFlags
  <2> HIDE DEF x
  <2>5. A32!new_page(x, f, asked.huge) = A32!new_page(q, f, asked.huge)
    BY <1>1, A32Masked
  <2>6. legible => q = asked.paddr
    BY <2>1, <2>3
  <2>7. q \in SUBSET (12..31) /\ (asked.huge => q \subseteq 20..31)
    <3>1. \A b \in 20..31 : b \in 12..31
      OBVIOUS
    <3> QED
      BY <3>1
  <2> HIDE DEF q
  <2>8. A32Field'
    BY <1>1, <2>1, <2>2, <2>4, <2>5, <2>6, <2>7 DEF A32Field
  <2> QED
    BY <1>1, <1>7, <2>8 DEF FieldInv
<1> QED
  BY <1>1, <1>2, <1>3, <1>4, <1>5, <1>6, <1>7 DEF FormatInv, Arch

\* Every step keeps the invariant.
LEMMA FormatStep == ASSUME FormatInv, [Next]_vars PROVE FormatInv'
<1>1. CASE UNCHANGED vars
  BY <1>1 DEF vars, FormatInv, AskedOK, FieldInv, A32Field
<1>2. CASE Clear
  <2>1. entry' = {} /\ asked' = Unused /\ arch' = arch /\ arch \in Arch
    BY <1>2 DEF Clear, FormatInv, AskedOK
  <2>2. AskedOK'
    BY <2>1, UnusedTyped DEF AskedOK, Unused
  <2>3. Rv64!ShiftRight2({}) = {}
    BY DEF Rv64!ShiftRight2
  <2>4. FieldInv'
    BY <2>1, <2>3 DEF FieldInv, A32Field, Unused
  <2> QED
    BY <2>2, <2>4 DEF FormatInv
<1> QED
  BY <1>1, <1>2, NewPageStep, NewTableStep, SetPaddrStep, SetFlagsStep DEF Next
---------------------------------------------------------------------------
(* Beside the address *)

\* What the entry holds beside its address is what was asked for: nothing, the
\* attributes of a table, or those of a page.  (A hole whose address was
\* written, by a remap, is a page with no attribute.)
Beside(attr, table, page) ==
    /\ asked.kind = "unused" => attr = {}
    /\ asked.kind = "table" => attr = table
    /\ asked.kind = "page" =>
          attr = page \/ (attr = {} /\ asked.flags = {} /\ ~asked.huge)

BesideInv ==
    /\ arch = "x86_64" =>
          Beside(Outside(entry, X64!PHYS_ADDR_MASK), X64Table, X64Attr(asked.flags, asked.huge))
    /\ arch = "aarch64" =>
          Beside(Outside(entry, A64!PHYS_ADDR_MASK), A64Table, A64Attr(asked.flags, asked.huge))
    /\ arch = "riscv" =>
          Beside(Outside(entry, Rv64!PHYS_ADDR_MASK), Rv64Table, Rv64Attr(asked.flags))
    /\ arch = "loongarch64" =>
          Beside(Outside(entry, LA64!PHYS_ADDR_MASK), LA64Table, LA64Attr(asked.flags, asked.huge))

\* What a caller may ask for, besides.
CallerInv ==
    /\ asked.kind = "unused" => asked = Unused
    /\ asked.kind = "table" => asked.paddr # {}
    /\ arch = "riscv" /\ asked.kind = "page" =>
          Rv64!DebugAssert(asked.flags) \/ (asked.flags = {} /\ ~asked.huge)

\* The inductive invariant of the flags and the kind.
KindInv == FormatInv /\ CallerInv /\ BesideInv

\* A page asked for.
LEMMA NewPageBeside ==
    ASSUME KindInv, NEW p \in PAddr, NEW f \in SUBSET MappingFlags, NEW h \in BOOLEAN,
           NewPage(p, f, h)
    PROVE  CallerInv' /\ BesideInv'
<1>1. /\ arch' = arch /\ entry' = new_page(p, f, h)
      /\ asked' = [kind |-> "page", paddr |-> p, flags |-> f, huge |-> h]
      /\ arch = "riscv" => Rv64!DebugAssert(f)
  BY DEF NewPage, Allowed
<1>2. CallerInv'
  BY <1>1 DEF CallerInv
<1>3. /\ asked'.kind = "page" /\ asked'.flags = f /\ asked'.huge = h
      /\ arch = "x86_64" => entry' = X64!new_page(p, f, h)
      /\ arch = "aarch64" => entry' = A64!new_page(p, f, h)
      /\ arch = "riscv" => entry' = Rv64!new_page(p, f, h)
      /\ arch = "loongarch64" => entry' = LA64!new_page(p, f, h)
  BY <1>1 DEF new_page
<1>4. Outside(X64!new_page(p, f, h), X64!PHYS_ADDR_MASK) = X64Attr(f, h)
  BY X64Beside
<1>5. Outside(A64!new_page(p, f, h), A64!PHYS_ADDR_MASK) = A64Attr(f, h)
  BY A64Beside
<1>6. Outside(Rv64!new_page(p, f, h), Rv64!PHYS_ADDR_MASK) = Rv64Attr(f)
  BY Rv64Beside
<1>7. Outside(LA64!new_page(p, f, h), LA64!PHYS_ADDR_MASK) = LA64Attr(f, h)
  BY LA64Beside
<1>8. BesideInv'
  BY <1>1, <1>3, <1>4, <1>5, <1>6, <1>7 DEF BesideInv, Beside
<1> QED
  BY <1>2, <1>8

\* A table asked for.
LEMMA NewTableBeside ==
    ASSUME KindInv, NEW p \in PAddr, NewTable(p)
    PROVE  CallerInv' /\ BesideInv'
<1>1. /\ arch' = arch /\ entry' = new_table(p)
      /\ asked' = [kind |-> "table", paddr |-> p, flags |-> {}, huge |-> FALSE]
      /\ p # {}
  BY DEF NewTable, Unused
<1>2. CallerInv'
  BY <1>1 DEF CallerInv
<1>3. /\ asked'.kind = "table"
      /\ arch = "x86_64" => entry' = X64!new_table(p)
      /\ arch = "aarch64" => entry' = A64!new_table(p)
      /\ arch = "riscv" => entry' = Rv64!new_table(p)
      /\ arch = "loongarch64" => entry' = LA64!new_table(p)
  BY <1>1 DEF new_table
<1>4. {} \in SUBSET MappingFlags /\ FALSE \in BOOLEAN
  OBVIOUS
<1>5. BesideInv'
  BY <1>1, <1>3, <1>4, X64Beside, A64Beside, Rv64Beside, LA64Beside DEF BesideInv, Beside
<1> QED
  BY <1>2, <1>5

\* An address written: what is beside it stays.
LEMMA SetPaddrBeside ==
    ASSUME KindInv, NEW p \in PAddr, SetPaddr(p)
    PROVE  CallerInv' /\ BesideInv'
<1> DEFINE f == asked.flags
           h == asked.huge
<1>1. /\ arch' = arch /\ entry' = set_paddr(p)
      /\ asked' = [kind |-> "page", paddr |-> p, flags |-> f, huge |-> h]
      /\ f \in SUBSET MappingFlags /\ h \in BOOLEAN
      /\ asked.kind \in {"unused", "page"}
  BY DEF SetPaddr, KindInv, FormatInv, AskedOK
<1>2. asked.kind = "unused" => f = {} /\ h = FALSE
  BY DEF KindInv, CallerInv, Unused
<1>3. CallerInv'
  BY <1>1, <1>2 DEF KindInv, CallerInv
<1>4. /\ asked'.kind = "page" /\ asked'.flags = f /\ asked'.huge = h
      /\ arch = "x86_64" => entry' = X64!set_paddr(entry, p)
      /\ arch = "aarch64" => entry' = A64!set_paddr(entry, p)
      /\ arch = "riscv" => entry' = Rv64!set_paddr(entry, p)
      /\ arch = "loongarch64" => entry' = LA64!set_paddr(entry, p)
  BY <1>1 DEF set_paddr
<1>5. Outside(X64!set_paddr(entry, p), X64!PHYS_ADDR_MASK) = Outside(entry, X64!PHYS_ADDR_MASK)
  BY <1>1, X64Beside
<1>6. Outside(A64!set_paddr(entry, p), A64!PHYS_ADDR_MASK) = Outside(entry, A64!PHYS_ADDR_MASK)
  BY <1>1, A64Beside
<1>7. Outside(Rv64!set_paddr(entry, p), Rv64!PHYS_ADDR_MASK) = Outside(entry, Rv64!PHYS_ADDR_MASK)
  BY <1>1, Rv64Beside
<1>8. Outside(LA64!set_paddr(entry, p), LA64!PHYS_ADDR_MASK) = Outside(entry, LA64!PHYS_ADDR_MASK)
  BY <1>1, LA64Beside
<1>9. BesideInv'
  BY <1>1, <1>2, <1>4, <1>5, <1>6, <1>7, <1>8 DEF KindInv, BesideInv, Beside
<1> QED
  BY <1>3, <1>9

\* Flags written: what was beside the address is replaced.
LEMMA SetFlagsBeside ==
    ASSUME KindInv, NEW f \in SUBSET MappingFlags, SetFlags(f)
    PROVE  CallerInv' /\ BesideInv'
<1> DEFINE h == asked.huge
<1>1. /\ arch' = arch /\ entry' = set_flags(f, h)
      /\ asked' = [kind |-> "page", paddr |-> asked.paddr, flags |-> f, huge |-> h]
      /\ h \in BOOLEAN
      /\ arch = "riscv" => Rv64!DebugAssert(f)
  BY DEF SetFlags, Allowed, KindInv, FormatInv, AskedOK
<1>2. CallerInv'
  BY <1>1 DEF CallerInv
<1>3. /\ asked'.kind = "page" /\ asked'.flags = f /\ asked'.huge = h
      /\ arch = "x86_64" => entry' = X64!set_flags(entry, f, h)
      /\ arch = "aarch64" => entry' = A64!set_flags(entry, f, h)
      /\ arch = "riscv" => entry' = Rv64!set_flags(entry, f, h)
      /\ arch = "loongarch64" => entry' = LA64!set_flags(entry, f, h)
  BY <1>1 DEF set_flags
<1>4. Outside(X64!set_flags(entry, f, h), X64!PHYS_ADDR_MASK) = X64Attr(f, h)
  BY <1>1, X64Beside
<1>5. Outside(A64!set_flags(entry, f, h), A64!PHYS_ADDR_MASK) = A64Attr(f, h)
  BY <1>1, A64Beside
<1>6. Outside(Rv64!set_flags(entry, f, h), Rv64!PHYS_ADDR_MASK) = Rv64Attr(f)
  BY <1>1, Rv64Beside
<1>7. Outside(LA64!set_flags(entry, f, h), LA64!PHYS_ADDR_MASK) = LA64Attr(f, h)
  BY <1>1, LA64Beside
<1>8. BesideInv'
  BY <1>1, <1>3, <1>4, <1>5, <1>6, <1>7 DEF BesideInv, Beside
<1> QED
  BY <1>2, <1>8

\* Every step keeps the invariant.
LEMMA KindStep == KindInv /\ [Next]_vars => KindInv'
<1> SUFFICES ASSUME KindInv, [Next]_vars PROVE CallerInv' /\ BesideInv'
  BY FormatStep DEF KindInv
<1>1. CASE UNCHANGED vars
  BY <1>1 DEF vars, KindInv, CallerInv, BesideInv, Beside
<1>2. CASE Clear
  <2>1. entry' = {} /\ asked' = Unused
    BY <1>2 DEF Clear
  <2> QED
    BY <2>1 DEF CallerInv, BesideInv, Beside, Unused, Outside
<1> QED
  BY <1>1, <1>2, NewPageBeside, NewTableBeside, SetPaddrBeside, SetFlagsBeside DEF Next

\* The initial state has it.
LEMMA KindInit == Init => KindInv
<1> SUFFICES ASSUME Init PROVE KindInv
  OBVIOUS
<1>1. arch \in Arch /\ entry = {} /\ asked = Unused
  BY DEF Init
<1>2. FormatInv
  BY <1>1, UnusedTyped, ZeroField DEF FormatInv, AskedOK, Unused
<1>3. CallerInv /\ BesideInv
  BY <1>1 DEF CallerInv, BesideInv, Beside, Unused, Outside
<1> QED
  BY <1>2, <1>3 DEF KindInv

\* What a page reads back as.
LEMMA PageRead ==
    ASSUME KindInv, asked.kind = "page", arch = "arm" => asked.huge
    PROVE  ReadBack.flags = Representable(asked.flags)
<1> DEFINE f == asked.flags
           h == asked.huge
<1>1. f \in SUBSET MappingFlags /\ h \in BOOLEAN /\ asked.paddr \in SUBSET (12..47)
      /\ (h => asked.paddr \subseteq 20..47)
  BY DEF KindInv, FormatInv, AskedOK
<1>2. CASE arch = "x86_64"
  <2>1. X64!flags_of(entry) = X64Shown(f)
    <3>1. CASE Outside(entry, X64!PHYS_ADDR_MASK) = X64Attr(f, h)
      BY <1>1, <3>1, X64Decode
    <3>2. CASE Outside(entry, X64!PHYS_ADDR_MASK) = {} /\ f = {}
      <4>1. 0 \notin entry
        BY <3>2 DEF X64!PHYS_ADDR_MASK, Outside
      <4> QED
        BY <3>2, <4>1 DEF X64!flags_of, X64!PRESENT, X64Shown
    <3> QED
      BY <1>2, <3>1, <3>2 DEF KindInv, BesideInv, Beside
  <2> QED
    BY <1>2, <2>1 DEF ReadBack, Representable, X64Shown
<1>3. CASE arch = "aarch64"
  <2>1. A64!flags_of(entry) = A64Shown(f)
    <3>1. CASE Outside(entry, A64!PHYS_ADDR_MASK) = A64Attr(f, h)
      BY <1>1, <3>1, A64Decode
    <3>2. CASE Outside(entry, A64!PHYS_ADDR_MASK) = {} /\ f = {}
      <4>1. 0 \notin entry
        BY <3>2 DEF A64!PHYS_ADDR_MASK, Outside
      <4> QED
        BY <3>2, <4>1 DEF A64!flags_of, A64!VALID, A64Shown
    <3> QED
      BY <1>3, <3>1, <3>2 DEF KindInv, BesideInv, Beside
  <2> QED
    BY <1>3, <2>1 DEF ReadBack, Representable, A64Shown, Cached
<1>4. CASE arch = "riscv"
  <2>1. Rv64!flags_of(entry) = Rv64Shown(f)
    <3>1. CASE Outside(entry, Rv64!PHYS_ADDR_MASK) = Rv64Attr(f)
      BY <1>1, <3>1, Rv64Decode
    <3>2. CASE Outside(entry, Rv64!PHYS_ADDR_MASK) = {} /\ f = {}
      <4>1. 0 \notin entry
        BY <3>2 DEF Rv64!PHYS_ADDR_MASK, Outside
      <4> QED
        BY <3>2, <4>1 DEF Rv64!flags_of, Rv64!V, Rv64Shown
    <3> QED
      BY <1>4, <3>1, <3>2 DEF KindInv, BesideInv, Beside
  <2> QED
    BY <1>4, <2>1 DEF ReadBack, Representable, Rv64Shown
<1>5. CASE arch = "loongarch64"
  <2>1. LA64!flags_of(entry) = Cached(f)
    <3>1. CASE Outside(entry, LA64!PHYS_ADDR_MASK) = LA64Attr(f, h)
      BY <1>1, <3>1, LA64Decode
    <3>2. CASE Outside(entry, LA64!PHYS_ADDR_MASK) = {} /\ f = {}
      <4>1. 0 \notin entry
        BY <3>2 DEF LA64!PHYS_ADDR_MASK, Outside
      <4> QED
        BY <3>2, <4>1 DEF LA64!flags_of, LA64!V, Cached
    <3> QED
      BY <1>5, <3>1, <3>2 DEF KindInv, BesideInv, Beside
  <2> QED
    BY <1>5, <2>1 DEF ReadBack, Representable, Cached
<1>6. CASE arch = "arm"
  <2>1. PICK q \in SUBSET (12..31) : /\ q \subseteq 20..31
                                    /\ entry = A32!new_page(q, f, h)
    BY <1>6 DEF KindInv, FormatInv, FieldInv, A32Field
  <2>2. CASE f = {}
    <3>1. A32!flags_of(entry) = {}
      BY <1>1, <1>6, <2>1, <2>2, A32NoFlags DEF A32!flags_of
    <3> QED
      BY <1>6, <2>2, <3>1 DEF ReadBack, Representable
  <2>3. CASE f # {}
    <3>1. q \in SUBSET (20..31) /\ entry = A32!new_section(q, f)
      BY <1>6, <2>1 DEF A32!new_page
    <3>2. A32!flags_of(entry) = {"READ"} \cup Cached(f)
      BY <1>1, <2>3, <3>1, A32Decode
    <3> QED
      BY <1>6, <2>3, <3>2 DEF ReadBack, Representable, Cached
  <2> QED
    BY <2>2, <2>3
<1> QED
  BY <1>2, <1>3, <1>4, <1>5, <1>6 DEF KindInv, FormatInv, AskedOK, Arch

\* What the table code tells of each kind of entry.
LEMMA KindRead == ASSUME KindInv PROVE KindKept
<1> DEFINE f == asked.flags
           h == asked.huge
           shows == asked.kind = "page" /\ (arch = "arm" => f # {})
           kept(huge, unused, present, flags) ==
              /\ shows /\ h => huge
              /\ shows /\ (f # {} \/ asked.paddr # {}) => ~unused
              /\ asked.kind = "table" => ~huge /\ ~unused
              /\ asked.kind = "unused" => unused
              /\ asked.kind = "page" => (present <=> flags # {})
<1>0. /\ f \in SUBSET MappingFlags /\ h \in BOOLEAN /\ asked.paddr \in SUBSET (12..47)
      /\ asked.kind \in {"unused", "page", "table"}
      /\ asked.kind = "unused" => asked.paddr = {}
      /\ asked.kind = "table" => asked.paddr # {}
      /\ h => asked.paddr \subseteq 20..47
  BY DEF KindInv, FormatInv, AskedOK, CallerInv, Unused
<1>1. arch # "arm" => ReadBack.paddr = asked.paddr
  BY AddressRead DEF KindInv, AddressKept
<1>2. CASE arch = "x86_64"
  <2> DEFINE rest == Outside(entry, X64!PHYS_ADDR_MASK)
  <2>1. Beside(rest, X64Table, X64Attr(f, h)) /\ X64!paddr_of(entry) = asked.paddr
    BY <1>1, <1>2 DEF KindInv, BesideInv, ReadBack
  <2>2. asked.paddr # {} => entry # {}
    BY <2>1 DEF X64!paddr_of
  <2>3. ASSUME asked.kind = "unused" PROVE entry = {}
    BY <1>0, <2>1, <2>3 DEF Beside, Outside, X64!paddr_of
  <2>4. ASSUME asked.kind = "table" PROVE 7 \notin entry /\ entry # {}
    BY <1>0, <2>1, <2>2, <2>4 DEF Beside, Outside, X64Table, X64!PRESENT, X64!WRITABLE,
       X64!USER_ACCESSIBLE, X64!PHYS_ADDR_MASK
  <2>5. ASSUME asked.kind = "page"
        PROVE  /\ h => X64!is_huge(entry)
               /\ f # {} => entry # {}
               /\ X64!is_present(entry) <=> X64!flags_of(entry) # {}
    <3>1. X64!is_present(entry) <=> X64!flags_of(entry) # {}
      BY DEF X64!is_present, X64!flags_of
    <3>2. rest = X64Attr(f, h) \/ (f = {} /\ ~h)
      BY <2>1, <2>5 DEF Beside
    <3>3. h => X64!is_huge(entry)
      BY <1>0, <3>2, X64Decode
    <3>4. f # {} => X64!is_present(entry)
      BY <1>0, <3>2, X64Decode
    <3> QED
      BY <3>1, <3>3, <3>4 DEF X64!is_present
  <2> HIDE DEF f, h
  <2>6. kept(X64!is_huge(entry), X64!is_unused(entry), X64!is_present(entry),
             X64!flags_of(entry))
    BY <2>2, <2>3, <2>4, <2>5 DEF X64!is_huge, X64!is_unused, X64!HUGE_PAGE
  <2> QED
    BY <1>2, <2>6 DEF KindKept, ReadBack, f, h
<1>3. CASE arch = "aarch64"
  <2> DEFINE rest == Outside(entry, A64!PHYS_ADDR_MASK)
  <2>1. Beside(rest, A64Table, A64Attr(f, h)) /\ A64!paddr_of(entry) = asked.paddr
    BY <1>1, <1>3 DEF KindInv, BesideInv, ReadBack
  <2>2. asked.paddr # {} => entry # {}
    BY <2>1 DEF A64!paddr_of
  <2>3. ASSUME asked.kind = "unused" PROVE entry = {}
    BY <1>0, <2>1, <2>3 DEF Beside, Outside, A64!paddr_of
  <2>4. ASSUME asked.kind = "table" PROVE 1 \in entry /\ entry # {}
    BY <1>0, <2>1, <2>2, <2>4 DEF Beside, Outside, A64Table, A64!NON_BLOCK, A64!VALID
  <2>5. ASSUME asked.kind = "page"
        PROVE  /\ h => A64!is_huge(entry)
               /\ f # {} => entry # {}
               /\ A64!is_present(entry) <=> A64!flags_of(entry) # {}
    <3>1. A64!is_present(entry) <=> A64!flags_of(entry) # {}
      BY DEF A64!is_present, A64!flags_of
    <3>2. rest = A64Attr(f, h) \/ (f = {} /\ ~h)
      BY <2>1, <2>5 DEF Beside
    <3>3. h => A64!is_huge(entry)
      BY <1>0, <3>2, A64Decode
    <3>4. rest = A64Attr(f, h) => entry # {}
      BY DEF A64Attr, Outside
    <3> QED
      BY <3>1, <3>2, <3>3, <3>4
  <2> HIDE DEF f, h
  <2>6. kept(A64!is_huge(entry), A64!is_unused(entry), A64!is_present(entry),
             A64!flags_of(entry))
    BY <2>2, <2>3, <2>4, <2>5 DEF A64!is_huge, A64!is_unused, A64!NON_BLOCK
  <2> QED
    BY <1>3, <2>6 DEF KindKept, ReadBack, f, h
<1>4. CASE arch = "riscv"
  <2> DEFINE rest == Outside(entry, Rv64!PHYS_ADDR_MASK)
  <2>1. Beside(rest, Rv64Table, Rv64Attr(f)) /\ Rv64!paddr_of(entry) = asked.paddr
    BY <1>1, <1>4 DEF KindInv, BesideInv, ReadBack
  <2>2. asked.paddr # {} => entry # {}
    BY <2>1 DEF Rv64!paddr_of, Rv64!ShiftLeft2
  <2>3. ASSUME asked.kind = "unused" PROVE entry = {}
    <3>1. entry \cap Rv64!PHYS_ADDR_MASK = {}
      BY <1>0, <2>1, <2>3 DEF Rv64!paddr_of, Rv64!ShiftLeft2
    <3> QED
      BY <2>1, <2>3, <3>1 DEF Beside, Outside
  <2>4. ASSUME asked.kind = "table" PROVE 1 \notin entry /\ 3 \notin entry /\ entry # {}
    BY <1>0, <2>1, <2>2, <2>4 DEF Beside, Outside, Rv64Table, Rv64!V, Rv64!PHYS_ADDR_MASK
  <2>5. ASSUME asked.kind = "page"
        PROVE  /\ h => Rv64!is_huge(entry)
               /\ f # {} => entry # {}
               /\ Rv64!is_present(entry) <=> Rv64!flags_of(entry) # {}
    <3>1. CASE Rv64!DebugAssert(f) /\ rest = Rv64Attr(f)
      <4>1. /\ Rv64!is_huge(entry) /\ Rv64!flags_of(entry) # {}
            /\ Rv64!is_present(entry) <=> f # {}
        BY <1>0, <3>1, Rv64Decode
      <4>2. f # {}
        BY <3>1 DEF Rv64!DebugAssert, Rv64!PTEFlags
      <4> QED
        BY <4>1, <4>2 DEF Rv64!is_huge
    <3>2. CASE f = {} /\ ~h
      <4>1. rest = {}
        BY <2>1, <2>5, <3>2 DEF Beside, Rv64Attr, Rv64!PTEFlags
      <4>2. 0 \notin entry
        BY <4>1 DEF Outside, Rv64!PHYS_ADDR_MASK
      <4> QED
        BY <3>2, <4>2 DEF Rv64!is_present, Rv64!flags_of, Rv64!V
    <3>3. /\ Rv64!DebugAssert(f) \/ (f = {} /\ ~h)
          /\ rest = Rv64Attr(f) \/ (f = {} /\ ~h)
      BY <1>4, <2>1, <2>5 DEF KindInv, CallerInv, Beside
    <3> QED
      BY <3>1, <3>2, <3>3
  <2> HIDE DEF f, h
  <2>6. kept(Rv64!is_huge(entry), Rv64!is_unused(entry), Rv64!is_present(entry),
             Rv64!flags_of(entry))
    BY <2>2, <2>3, <2>4, <2>5 DEF Rv64!is_huge, Rv64!is_unused, Rv64!R, Rv64!X
  <2> QED
    BY <1>4, <2>6 DEF KindKept, ReadBack, f, h
<1>5. CASE arch = "loongarch64"
  <2> DEFINE rest == Outside(entry, LA64!PHYS_ADDR_MASK)
  <2>1. Beside(rest, LA64Table, LA64Attr(f, h)) /\ LA64!paddr_of(entry) = asked.paddr
    BY <1>1, <1>5 DEF KindInv, BesideInv, ReadBack
  <2>2. asked.paddr # {} => entry # {}
    BY <2>1 DEF LA64!paddr_of
  <2>3. ASSUME asked.kind = "unused" PROVE entry = {}
    BY <1>0, <2>1, <2>3 DEF Beside, Outside, LA64!paddr_of
  <2>4. ASSUME asked.kind = "table" PROVE 6 \notin entry /\ entry # {}
    BY <1>0, <2>1, <2>2, <2>4 DEF Beside, Outside, LA64Table, LA64!PHYS_ADDR_MASK
  <2>5. ASSUME asked.kind = "page"
        PROVE  /\ h => LA64!is_huge(entry)
               /\ f # {} => entry # {}
               /\ LA64!is_present(entry) <=> LA64!flags_of(entry) # {}
    <3>1. CASE rest = LA64Attr(f, h)
      <4>1. /\ LA64!is_huge(entry) <=> h
            /\ LA64!flags_of(entry) = Cached(f)
            /\ LA64!is_present(entry) <=> f # {}
        BY <1>0, <3>1, LA64Decode
      <4>2. Cached(f) # {} <=> f # {}
        BY DEF Cached
      <4> QED
        BY <4>1, <4>2 DEF LA64!is_present
    <3>2. CASE rest = {} /\ f = {} /\ ~h
      <4>1. 0 \notin entry /\ 7 \notin entry
        BY <3>2 DEF Outside, LA64!PHYS_ADDR_MASK
      <4> QED
        BY <3>2, <4>1 DEF LA64!is_present, LA64!flags_of, LA64!V, LA64!P
    <3> QED
      BY <2>1, <2>5, <3>1, <3>2 DEF Beside
  <2> HIDE DEF f, h
  <2>6. kept(LA64!is_huge(entry), LA64!is_unused(entry), LA64!is_present(entry),
             LA64!flags_of(entry))
    BY <2>2, <2>3, <2>4, <2>5 DEF LA64!is_huge, LA64!is_unused, LA64!GH
  <2> QED
    BY <1>5, <2>6 DEF KindKept, ReadBack, f, h
<1>6. CASE arch = "arm"
  <2>1. A32Field
    BY <1>6 DEF KindInv, FormatInv, FieldInv
  <2>2. ASSUME asked.kind = "unused" PROVE entry = {}
    BY <2>1, <2>2 DEF A32Field
  <2>3. ASSUME asked.kind = "table" PROVE 0 \in entry
    BY <2>1, <2>3 DEF A32Field, A32!new_table, A32!TYPE_BIT0
  <2>4. ASSUME asked.kind = "page", f # {} PROVE 1 \in entry /\ (h => A32!is_huge(entry))
    <3>1. PICK q \in SUBSET (12..31) : /\ h => q \subseteq 20..31
                                      /\ entry = A32!new_page(q, f, h)
      BY <2>1, <2>4 DEF A32Field
    <3>2. A32!TYPE_BIT1 \in entry
      BY <2>4, <3>1 DEF A32!new_page, A32!new_section, A32!new_small_page,
         A32!from_mapping_flags_section, A32!from_mapping_flags_small_page
    <3>3. ASSUME h PROVE A32!is_huge(entry)
      <4>1. q \in SUBSET (20..31) /\ entry = A32!new_section(q, f)
        BY <3>1, <3>3 DEF A32!new_page
      <4> QED
        BY <1>0, <2>4, <4>1, A32Section DEF A32!is_huge
    <3> QED
      BY <3>2, <3>3 DEF A32!TYPE_BIT1
  <2>5. A32!is_present(entry) <=> A32!flags_of(entry) # {}
    BY DEF A32!is_present, A32!flags_of
  <2>6. 0 \in entry => ~A32!is_huge(entry)
    BY DEF A32!is_huge, A32!descriptor_type, A32!TYPE_BIT0, A32!TYPE_BIT1
  <2> HIDE DEF f, h
  <2>7. kept(A32!is_huge(entry), A32!is_unused(entry), A32!is_present(entry),
             A32!flags_of(entry))
    BY <1>6, <2>2, <2>3, <2>4, <2>5, <2>6 DEF A32!is_unused
  <2> QED
    BY <1>6, <2>7 DEF KindKept, ReadBack, f, h
<1> QED
  BY <1>2, <1>3, <1>4, <1>5, <1>6 DEF KindInv, FormatInv, AskedOK, Arch
---------------------------------------------------------------------------
(* Theorems *)

\* The address read back is the one last asked for, at every address and after
\* any sequence of writes: always in the four 64-bit formats, and in an ARMv7
\* entry whenever it is legible, that is after none of the writes the code loses
\* the address in (no flags, a section at 0, an executable small page whose
\* address takes bits on both sides of 1M, set_paddr of a small page).
THEOREM AddressIsKept == Spec => []AddressKept
<1>1. Init => FormatInv
  BY UnusedTyped, ZeroField DEF Init, FormatInv, AskedOK, Unused
<1>2. FormatInv /\ [Next]_vars => FormatInv'
  BY FormatStep
<1>3. FormatInv => AddressKept
  BY AddressRead
<1> QED
  BY <1>1, <1>2, <1>3, PTL DEF Spec

\* The permissions read back from a page are the ones last asked for, as far as
\* the format can say them, at every address, for every set of flags and after
\* any sequence of writes (From<MappingFlags> and From<...> for MappingFlags): of
\* the pages of the four 64-bit formats and of the sections of ARMv7.  Nothing
\* is claimed of its small pages, whose flags the code reads wrong.
THEOREM FlagsAreKept == Spec => []FlagsKept
<1>1. KindInv => FlagsKept
  BY PageRead DEF FlagsKept
<1> QED
  BY <1>1, KindInit, KindStep, PTL DEF Spec

\* Pages, tables and unused entries stay told apart by is_huge, is_unused and
\* the address, whatever was written before; of ARMv7, the pages with flags.
THEOREM KindIsKept == Spec => []KindKept
<1>1. KindInv => KindKept
  BY KindRead
<1> QED
  BY <1>1, KindInit, KindStep, PTL DEF Spec

\* What GenericPTE assumes of an entry holds of the x86_64 entry, at every address.
THEOREM X64IsGeneric ==
    ASSUME NEW p \in SUBSET (12..47), NEW f \in SUBSET MappingFlags, NEW e
    PROVE  /\ X64!is_unused(e) <=> e = {}
           /\ X64!paddr_of({}) = {}
           /\ X64!paddr_of(X64!new_table(p)) = p /\ ~X64!is_huge(X64!new_table(p))
           /\ X64!is_huge(X64!new_page(p, f, TRUE)) /\ X64!is_huge(X64!set_flags(e, f, TRUE))
           /\ X64!is_huge(e) => X64!is_huge(X64!set_paddr(e, p))
<1>1. X64!is_unused(e) <=> e = {}
  BY DEF X64!is_unused
<1>2. X64!paddr_of({}) = {}
  BY DEF X64!paddr_of
<1>3. X64!paddr_of(X64!new_table(p)) = p
  BY X64Writes DEF X64!paddr_of
<1>4. ~X64!is_huge(X64!new_table(p))
  BY DEF X64!is_huge, X64!new_page, X64!new_table, X64!set_paddr, X64!set_flags, X64!BitIf,
     X64!HUGE_PAGE, X64!PRESENT, X64!WRITABLE, X64!USER_ACCESSIBLE, X64!PHYS_ADDR_MASK
<1>5. X64!is_huge(X64!new_page(p, f, TRUE)) /\ X64!is_huge(X64!set_flags(e, f, TRUE))
  BY DEF X64!is_huge, X64!new_page, X64!new_table, X64!set_paddr, X64!set_flags, X64!BitIf,
     X64!HUGE_PAGE, X64!PRESENT, X64!WRITABLE, X64!USER_ACCESSIBLE, X64!PHYS_ADDR_MASK
<1>6. X64!is_huge(e) => X64!is_huge(X64!set_paddr(e, p))
  BY DEF X64!is_huge, X64!new_page, X64!new_table, X64!set_paddr, X64!set_flags, X64!BitIf,
     X64!HUGE_PAGE, X64!PRESENT, X64!WRITABLE, X64!USER_ACCESSIBLE, X64!PHYS_ADDR_MASK
<1> QED
  BY <1>1, <1>2, <1>3, <1>4, <1>5, <1>6

\* The same of the aarch64 descriptor.
THEOREM A64IsGeneric ==
    ASSUME NEW p \in SUBSET (12..47), NEW f \in SUBSET MappingFlags, NEW e
    PROVE  /\ A64!is_unused(e) <=> e = {}
           /\ A64!paddr_of({}) = {}
           /\ A64!paddr_of(A64!new_table(p)) = p /\ ~A64!is_huge(A64!new_table(p))
           /\ A64!is_huge(A64!new_page(p, f, TRUE)) /\ A64!is_huge(A64!set_flags(e, f, TRUE))
           /\ A64!is_huge(e) => A64!is_huge(A64!set_paddr(e, p))
<1>1. A64!is_unused(e) <=> e = {}
  BY DEF A64!is_unused
<1>2. A64!paddr_of({}) = {}
  BY DEF A64!paddr_of
<1>3. A64!paddr_of(A64!new_table(p)) = p
  BY A64Writes DEF A64!paddr_of
<1>4. ~A64!is_huge(A64!new_table(p))
  BY DEF A64!is_huge, A64!new_page, A64!new_table, A64!set_paddr, A64!set_flags, A64!BitIf,
     A64!NON_BLOCK, A64!VALID, A64!AF, A64!PHYS_ADDR_MASK, A64!DescriptorAttr, A64!from_mem_attr,
     A64!AP_EL0, A64!AP_RO, A64!INNER, A64!SHAREABLE, A64!PXN, A64!UXN, A64!Device, A64!Normal,
     A64!NormalNonCacheable
<1>5. A64!is_huge(A64!new_page(p, f, TRUE)) /\ A64!is_huge(A64!set_flags(e, f, TRUE))
  BY DEF A64!is_huge, A64!new_page, A64!new_table, A64!set_paddr, A64!set_flags, A64!BitIf,
     A64!NON_BLOCK, A64!VALID, A64!AF, A64!PHYS_ADDR_MASK, A64!DescriptorAttr, A64!from_mem_attr,
     A64!AP_EL0, A64!AP_RO, A64!INNER, A64!SHAREABLE, A64!PXN, A64!UXN, A64!Device, A64!Normal,
     A64!NormalNonCacheable
<1>6. A64!is_huge(e) => A64!is_huge(A64!set_paddr(e, p))
  BY DEF A64!is_huge, A64!new_page, A64!new_table, A64!set_paddr, A64!set_flags, A64!BitIf,
     A64!NON_BLOCK, A64!VALID, A64!AF, A64!PHYS_ADDR_MASK, A64!DescriptorAttr, A64!from_mem_attr,
     A64!AP_EL0, A64!AP_RO, A64!INNER, A64!SHAREABLE, A64!PXN, A64!UXN, A64!Device, A64!Normal,
     A64!NormalNonCacheable
<1> QED
  BY <1>1, <1>2, <1>3, <1>4, <1>5, <1>6

\* The same of the RISC-V entry, for the flags its debug_assert! lets through.
THEOREM Rv64IsGeneric ==
    ASSUME NEW p \in SUBSET (12..47), NEW f \in {g \in SUBSET MappingFlags : Rv64!DebugAssert(g)}, NEW e
    PROVE  /\ Rv64!is_unused(e) <=> e = {}
           /\ Rv64!paddr_of({}) = {}
           /\ Rv64!paddr_of(Rv64!new_table(p)) = p /\ ~Rv64!is_huge(Rv64!new_table(p))
           /\ Rv64!is_huge(Rv64!new_page(p, f, TRUE)) /\ Rv64!is_huge(Rv64!set_flags(e, f, TRUE))
           /\ Rv64!is_huge(e) => Rv64!is_huge(Rv64!set_paddr(e, p))
<1>1. Rv64!is_unused(e) <=> e = {}
  BY DEF Rv64!is_unused
<1>2. Rv64!paddr_of({}) = {}
  BY DEF Rv64!paddr_of, Rv64!ShiftLeft2
<1>3. Rv64!paddr_of(Rv64!new_table(p)) = p
  BY Rv64Shift, Rv64Writes DEF Rv64!paddr_of
<1>4. ~Rv64!is_huge(Rv64!new_table(p))
  BY DEF Rv64!is_huge, Rv64!new_page, Rv64!new_table, Rv64!set_paddr, Rv64!set_flags,
     Rv64!DebugAssert, Rv64!V, Rv64!R, Rv64!X, Rv64!PHYS_ADDR_MASK
<1>5. Rv64!is_huge(Rv64!new_page(p, f, TRUE)) /\ Rv64!is_huge(Rv64!set_flags(e, f, TRUE))
  BY DEF Rv64!is_huge, Rv64!new_page, Rv64!new_table, Rv64!set_paddr, Rv64!set_flags,
     Rv64!DebugAssert, Rv64!V, Rv64!R, Rv64!X, Rv64!PHYS_ADDR_MASK
<1>6. Rv64!is_huge(e) => Rv64!is_huge(Rv64!set_paddr(e, p))
  BY DEF Rv64!is_huge, Rv64!new_page, Rv64!new_table, Rv64!set_paddr, Rv64!set_flags,
     Rv64!DebugAssert, Rv64!V, Rv64!R, Rv64!X, Rv64!PHYS_ADDR_MASK
<1> QED
  BY <1>1, <1>2, <1>3, <1>4, <1>5, <1>6

\* The same of the LoongArch64 entry.
THEOREM LA64IsGeneric ==
    ASSUME NEW p \in SUBSET (12..47), NEW f \in SUBSET MappingFlags, NEW e
    PROVE  /\ LA64!is_unused(e) <=> e = {}
           /\ LA64!paddr_of({}) = {}
           /\ LA64!paddr_of(LA64!new_table(p)) = p /\ ~LA64!is_huge(LA64!new_table(p))
           /\ LA64!is_huge(LA64!new_page(p, f, TRUE)) /\ LA64!is_huge(LA64!set_flags(e, f, TRUE))
           /\ LA64!is_huge(e) => LA64!is_huge(LA64!set_paddr(e, p))
<1>1. LA64!is_unused(e) <=> e = {}
  BY DEF LA64!is_unused
<1>2. LA64!paddr_of({}) = {}
  BY DEF LA64!paddr_of
<1>3. LA64!paddr_of(LA64!new_table(p)) = p
  BY LA64Writes DEF LA64!paddr_of
<1>4. ~LA64!is_huge(LA64!new_table(p))
  BY DEF LA64!is_huge, LA64!new_page, LA64!new_table, LA64!set_paddr, LA64!set_flags,
     LA64!BitIf, LA64!GH, LA64!PHYS_ADDR_MASK
<1>5. LA64!is_huge(LA64!new_page(p, f, TRUE)) /\ LA64!is_huge(LA64!set_flags(e, f, TRUE))
  BY DEF LA64!is_huge, LA64!new_page, LA64!new_table, LA64!set_paddr, LA64!set_flags,
     LA64!BitIf, LA64!GH, LA64!PHYS_ADDR_MASK
<1>6. LA64!is_huge(e) => LA64!is_huge(LA64!set_paddr(e, p))
  BY DEF LA64!is_huge, LA64!new_page, LA64!new_table, LA64!set_paddr, LA64!set_flags,
     LA64!BitIf, LA64!GH, LA64!PHYS_ADDR_MASK
<1> QED
  BY <1>1, <1>2, <1>3, <1>4, <1>5, <1>6

\* The same, and what PageTable32 assumes besides, of the ARMv7 entry at every
\* address of 32 bits: what is written with some flag does not look unused.
THEOREM A32IsGeneric ==
    ASSUME NEW p \in SUBSET (12..31), NEW f \in SUBSET MappingFlags, f # {},
           NEW h \in BOOLEAN, NEW e
    PROVE  /\ A32!is_unused(e) <=> e = {}
           /\ A32!paddr_of({}) = {}
           /\ A32!paddr_of(A32!new_table(p)) = p /\ ~A32!is_huge(A32!new_table(p))
           /\ A32!is_huge(A32!new_page(p, f, TRUE)) /\ A32!is_huge(A32!set_flags(e, f, TRUE))
           /\ A32!is_huge(e) => A32!is_huge(A32!set_paddr(e, p))
           /\ ~A32!is_unused(A32!new_table(p)) /\ ~A32!is_unused(A32!new_page(p, f, h))
<1>1. A32!is_unused(e) <=> e = {}
  BY DEF A32!is_unused
<1>2. A32!paddr_of({}) = {}
  BY DEF A32!paddr_of
<1>3. A32!paddr_of(A32!new_table(p)) = p
  BY A32TableAddress
<1>4. A32!TYPE_BIT0 \in A32!new_table(p)
  BY DEF A32!new_table
<1>5. ~A32!is_huge(A32!new_table(p)) /\ ~A32!is_unused(A32!new_table(p))
  BY <1>4 DEF A32!is_huge, A32!is_unused, A32!descriptor_type, A32!TYPE_BIT0, A32!TYPE_BIT1
<1>6. \A q : A32!is_huge(A32!new_page(q, f, TRUE))
  <2> TAKE q
  <2> DEFINE s == q \cap (20..31)
  <2>1. A32!new_page(q, f, TRUE) = A32!new_section(s, f)
    BY DEF A32!new_page, A32!new_section, A32!SECTION_ADDR_MASK
  <2>2. s \in SUBSET (20..31)
    OBVIOUS
  <2> HIDE DEF s
  <2> QED
    BY <2>1, <2>2, A32Section DEF A32!is_huge
<1>7. A32!is_huge(A32!set_flags(e, f, TRUE))
  BY <1>6 DEF A32!set_flags
<1>8. A32!is_huge(e) => A32!is_huge(A32!set_paddr(e, p))
  <2> SUFFICES ASSUME A32!descriptor_type(e) = {A32!TYPE_BIT1}
               PROVE  A32!is_huge(A32!set_paddr(e, p))
    BY DEF A32!is_huge
  <2> DEFINE moved == A32!set_paddr(e, p)
  <2>1. moved = (e \ (20..31)) \cup (p \cap (20..31))
    BY DEF A32!set_paddr, A32!TYPE_BIT0, A32!TYPE_BIT1, A32!SECTION_ADDR_MASK
  <2> HIDE DEF moved
  <2>2. 0 \notin e /\ 1 \in e
    BY DEF A32!descriptor_type, A32!TYPE_BIT0, A32!TYPE_BIT1
  <2>3. 0 \notin moved /\ 1 \in moved
    BY <2>1, <2>2
  <2> QED
    BY <2>3 DEF moved, A32!is_huge, A32!descriptor_type, A32!TYPE_BIT0, A32!TYPE_BIT1
<1>9. ~A32!is_unused(A32!new_page(p, f, h))
  <2>1. A32!TYPE_BIT1 \in A32!new_page(p, f, h)
    BY DEF A32!new_page, A32!new_section, A32!new_small_page,
       A32!from_mapping_flags_section, A32!from_mapping_flags_small_page
  <2> QED
    BY <2>1 DEF A32!is_unused
<1> QED
  BY <1>1, <1>2, <1>3, <1>5, <1>6, <1>7, <1>8, <1>9

\* What PageTable64 assumes of an entry (PteKeeps) holds of the x86_64 entry at every
\* address: address and flags are kept apart, and an unused entry is not present.
THEOREM X64Keeps ==
    ASSUME NEW p \in SUBSET (12..47), NEW f \in SUBSET MappingFlags, NEW h \in BOOLEAN, NEW e
    PROVE  /\ ~X64!is_present({})
           /\ X64!paddr_of(X64!new_page(p, f, h)) = p
           /\ X64!flags_of(X64!new_page(p, f, h)) = X64Shown(f)
           /\ X64!is_present(X64!new_page(p, f, h)) <=> f # {}
           /\ X64!paddr_of(X64!set_paddr(e, p)) = p
           /\ X64!paddr_of(X64!set_flags(e, f, h)) = X64!paddr_of(e)
           /\ X64!flags_of(X64!set_flags(e, f, h)) = X64Shown(f)
           /\ X64!is_present(X64!set_flags(e, f, h)) <=> f # {}
<1>1. ~X64!is_present({})
  BY DEF X64!is_present
<1>2. X64!paddr_of(X64!new_page(p, f, h)) = p /\ X64!paddr_of(X64!set_paddr(e, p)) = p
  BY X64Writes DEF X64!paddr_of
<1>3. X64!paddr_of(X64!set_flags(e, f, h)) = X64!paddr_of(e)
  BY X64SetFlags DEF X64!paddr_of
<1>4. /\ Outside(X64!new_page(p, f, h), X64!PHYS_ADDR_MASK) = X64Attr(f, h)
      /\ Outside(X64!set_flags(e, f, h), X64!PHYS_ADDR_MASK) = X64Attr(f, h)
  BY X64Beside
<1>5. /\ X64!flags_of(X64!new_page(p, f, h)) = X64Shown(f)
      /\ X64!is_present(X64!new_page(p, f, h)) <=> f # {}
  BY <1>4, X64Decode
<1>6. /\ X64!flags_of(X64!set_flags(e, f, h)) = X64Shown(f)
      /\ X64!is_present(X64!set_flags(e, f, h)) <=> f # {}
  BY <1>4, X64Decode
<1> QED
  BY <1>1, <1>2, <1>3, <1>5, <1>6

\* The same of the aarch64 descriptor.
THEOREM A64Keeps ==
    ASSUME NEW p \in SUBSET (12..47), NEW f \in SUBSET MappingFlags, NEW h \in BOOLEAN, NEW e
    PROVE  /\ ~A64!is_present({})
           /\ A64!paddr_of(A64!new_page(p, f, h)) = p
           /\ A64!flags_of(A64!new_page(p, f, h)) = A64Shown(f)
           /\ A64!is_present(A64!new_page(p, f, h)) <=> "READ" \in f
           /\ A64!paddr_of(A64!set_paddr(e, p)) = p
           /\ A64!paddr_of(A64!set_flags(e, f, h)) = A64!paddr_of(e)
           /\ A64!flags_of(A64!set_flags(e, f, h)) = A64Shown(f)
           /\ A64!is_present(A64!set_flags(e, f, h)) <=> "READ" \in f
<1>1. ~A64!is_present({})
  BY DEF A64!is_present
<1>2. A64!paddr_of(A64!new_page(p, f, h)) = p /\ A64!paddr_of(A64!set_paddr(e, p)) = p
  BY A64Writes DEF A64!paddr_of
<1>3. A64!paddr_of(A64!set_flags(e, f, h)) = A64!paddr_of(e)
  BY A64SetFlags DEF A64!paddr_of
<1>4. /\ Outside(A64!new_page(p, f, h), A64!PHYS_ADDR_MASK) = A64Attr(f, h)
      /\ Outside(A64!set_flags(e, f, h), A64!PHYS_ADDR_MASK) = A64Attr(f, h)
  BY A64Beside
<1>5. /\ A64!flags_of(A64!new_page(p, f, h)) = A64Shown(f)
      /\ A64!is_present(A64!new_page(p, f, h)) <=> "READ" \in f
  BY <1>4, A64Decode
<1>6. /\ A64!flags_of(A64!set_flags(e, f, h)) = A64Shown(f)
      /\ A64!is_present(A64!set_flags(e, f, h)) <=> "READ" \in f
  BY <1>4, A64Decode
<1> QED
  BY <1>1, <1>2, <1>3, <1>5, <1>6

\* The same of the RISC-V entry.
THEOREM Rv64Keeps ==
    ASSUME NEW p \in SUBSET (12..47), NEW f \in SUBSET MappingFlags, NEW h \in BOOLEAN, NEW e
    PROVE  /\ ~Rv64!is_present({})
           /\ Rv64!paddr_of(Rv64!new_page(p, f, h)) = p
           /\ Rv64!flags_of(Rv64!new_page(p, f, h)) = Rv64Shown(f)
           /\ Rv64!is_present(Rv64!new_page(p, f, h)) <=> f # {}
           /\ Rv64!paddr_of(Rv64!set_paddr(e, p)) = p
           /\ Rv64!paddr_of(Rv64!set_flags(e, f, h)) = Rv64!paddr_of(e)
           /\ Rv64!flags_of(Rv64!set_flags(e, f, h)) = Rv64Shown(f)
           /\ Rv64!is_present(Rv64!set_flags(e, f, h)) <=> f # {}
<1>1. ~Rv64!is_present({})
  BY DEF Rv64!is_present
<1>2. Rv64!paddr_of(Rv64!new_page(p, f, h)) = p /\ Rv64!paddr_of(Rv64!set_paddr(e, p)) = p
  BY Rv64Writes, Rv64Shift DEF Rv64!paddr_of
<1>3. Rv64!paddr_of(Rv64!set_flags(e, f, h)) = Rv64!paddr_of(e)
  BY Rv64SetFlags DEF Rv64!paddr_of
<1>4. /\ Outside(Rv64!new_page(p, f, h), Rv64!PHYS_ADDR_MASK) = Rv64Attr(f)
      /\ Outside(Rv64!set_flags(e, f, h), Rv64!PHYS_ADDR_MASK) = Rv64Attr(f)
  BY Rv64Beside
<1>5. /\ Rv64!flags_of(Rv64!new_page(p, f, h)) = Rv64Shown(f)
      /\ Rv64!is_present(Rv64!new_page(p, f, h)) <=> f # {}
  BY <1>4, Rv64Decode
<1>6. /\ Rv64!flags_of(Rv64!set_flags(e, f, h)) = Rv64Shown(f)
      /\ Rv64!is_present(Rv64!set_flags(e, f, h)) <=> f # {}
  BY <1>4, Rv64Decode
<1> QED
  BY <1>1, <1>2, <1>3, <1>5, <1>6

\* The same of the LoongArch64 entry.
THEOREM LA64Keeps ==
    ASSUME NEW p \in SUBSET (12..47), NEW f \in SUBSET MappingFlags, NEW h \in BOOLEAN, NEW e
    PROVE  /\ ~LA64!is_present({})
           /\ LA64!paddr_of(LA64!new_page(p, f, h)) = p
           /\ LA64!flags_of(LA64!new_page(p, f, h)) = Cached(f)
           /\ LA64!is_present(LA64!new_page(p, f, h)) <=> f # {}
           /\ LA64!paddr_of(LA64!set_paddr(e, p)) = p
           /\ LA64!paddr_of(LA64!set_flags(e, f, h)) = LA64!paddr_of(e)
           /\ LA64!flags_of(LA64!set_flags(e, f, h)) = Cached(f)
           /\ LA64!is_present(LA64!set_flags(e, f, h)) <=> f # {}
<1>1. ~LA64!is_present({})
  BY DEF LA64!is_present
<1>2. LA64!paddr_of(LA64!new_page(p, f, h)) = p /\ LA64!paddr_of(LA64!set_paddr(e, p)) = p
  BY LA64Writes DEF LA64!paddr_of
<1>3. LA64!paddr_of(LA64!set_flags(e, f, h)) = LA64!paddr_of(e)
  BY LA64SetFlags DEF LA64!paddr_of
<1>4. /\ Outside(LA64!new_page(p, f, h), LA64!PHYS_ADDR_MASK) = LA64Attr(f, h)
      /\ Outside(LA64!set_flags(e, f, h), LA64!PHYS_ADDR_MASK) = LA64Attr(f, h)
  BY LA64Beside
<1>5. /\ LA64!flags_of(LA64!new_page(p, f, h)) = Cached(f)
      /\ LA64!is_present(LA64!new_page(p, f, h)) <=> f # {}
  BY <1>4, LA64Decode
<1>6. /\ LA64!flags_of(LA64!set_flags(e, f, h)) = Cached(f)
      /\ LA64!is_present(LA64!set_flags(e, f, h)) <=> f # {}
  BY <1>4, LA64Decode
<1> QED
  BY <1>1, <1>2, <1>3, <1>5, <1>6

---------------------------------------------------------------------------
(* The ARMv7 entry as PageTable32 uses it *)

\* Flags that an ARMv7 entry tells apart: every page is readable, and of device
\* memory it does not say that it is uncached.
A32Told == {f \in SUBSET MappingFlags : "READ" \in f /\ ~ {"DEVICE", "UNCACHED"} \subseteq f}

\* The bits of a small page that its flags decide.
LEMMA A32PageBits ==
    ASSUME NEW p, NEW f \in SUBSET MappingFlags, f # {}
    PROVE  /\ 0 \in A32!new_small_page(p, f) <=> "EXECUTE" \notin f
           /\ 2 \in A32!new_small_page(p, f) <=> "DEVICE" \in f \/ "UNCACHED" \notin f
           /\ 3 \in A32!new_small_page(p, f) <=> "DEVICE" \notin f /\ "UNCACHED" \notin f
           /\ 5 \in A32!new_small_page(p, f) <=> "USER" \in f
           /\ 9 \in A32!new_small_page(p, f) <=> "WRITE" \notin f
<1> DEFINE common == A32!common_flags(f)
           low == {b - 6 : b \in common \cap (10..17)}
           rest == {1} \cup (common \cap {2, 3}) \cup IF "EXECUTE" \notin f THEN {0} ELSE {}
           e == A32!new_small_page(p, f)
<1>1. e = rest \cup low \cup (p \cap (12..31))
  BY DEF A32!new_small_page, A32!from_mapping_flags_small_page, A32!BitIf, A32!TYPE_BIT0,
     A32!TYPE_BIT1, A32!B, A32!C, A32!SMALL_PAGE_ADDR_MASK
<1>2. common = (IF "DEVICE" \in f THEN {2} ELSE IF "UNCACHED" \in f THEN {12} ELSE {12, 3, 2, 16})
               \cup {10} \cup (IF "USER" \in f THEN {11} ELSE {})
               \cup (IF "WRITE" \notin f THEN {15} ELSE {})
  BY DEF A32!common_flags, A32!BitIf, A32!B, A32!C, A32!AP0, A32!AP1, A32!TEX0, A32!AP2, A32!S
<1>3. \A b \in Int : b \in low <=> b + 6 \in common \cap (10..17)
  <2> SUFFICES ASSUME NEW b \in Int PROVE b \in low <=> b + 6 \in common \cap (10..17)
    OBVIOUS
  <2>1. ASSUME b + 6 \in common \cap (10..17) PROVE b \in low
    <3>1. (b + 6) - 6 \in low
      BY <2>1
    <3> QED
      BY <3>1
  <2>2. ASSUME b \in low PROVE b + 6 \in common \cap (10..17)
    <3> HIDE DEF common
    <3>1. PICK c \in common \cap (10..17) : b = c - 6
      BY <2>2
    <3>2. c \in Int /\ b + 6 = c
      BY <3>1
    <3> QED
      BY <3>1, <3>2
  <2> QED
    BY <2>1, <2>2
<1> HIDE DEF common, low
<1>4. \A b \in {0, 2, 3} : b \in e <=> b \in rest
  <2>1. \A b \in {0, 2, 3} : b \notin low /\ b \notin p \cap (12..31)
    BY <1>3
  <2> QED
    BY <1>1, <2>1
<1>5. \A b \in {5, 9} : b \in e <=> b + 6 \in common
  <2>1. \A b \in {5, 9} : b \notin rest /\ b \notin p \cap (12..31)
    OBVIOUS
  <2>2. \A b \in {5, 9} : b \in low <=> b + 6 \in common
    BY <1>3
  <2> QED
    BY <1>1, <2>1, <2>2
<1> HIDE DEF e
<1>6. 5 \in e <=> "USER" \in f
  BY <1>5, <1>2
<1>7. 9 \in e <=> "WRITE" \notin f
  BY <1>5, <1>2
<1>8. /\ 0 \in e <=> "EXECUTE" \notin f
      /\ 2 \in e <=> 2 \in common
      /\ 3 \in e <=> 3 \in common
  BY <1>4
<1> QED
  BY <1>2, <1>6, <1>7, <1>8 DEF e

\* Two small pages at one address with different flags are different entries.
LEMMA A32PagesDiffer ==
    ASSUME NEW p, NEW f \in A32Told, NEW g \in A32Told,
           A32!new_small_page(p, f) = A32!new_small_page(p, g)
    PROVE  f = g
<1>1. f # {} /\ g # {} /\ f \in SUBSET MappingFlags /\ g \in SUBSET MappingFlags
  BY DEF A32Told
<1>2. /\ "EXECUTE" \in f <=> "EXECUTE" \in g
      /\ "USER" \in f <=> "USER" \in g
      /\ "WRITE" \in f <=> "WRITE" \in g
      /\ "DEVICE" \in f \/ "UNCACHED" \notin f <=> "DEVICE" \in g \/ "UNCACHED" \notin g
      /\ "DEVICE" \notin f /\ "UNCACHED" \notin f <=> "DEVICE" \notin g /\ "UNCACHED" \notin g
  BY <1>1, A32PageBits
<1>3. \A x \in MappingFlags : x \in f <=> x \in g
  BY <1>2 DEF A32Told, MappingFlags
<1> QED
  BY <1>1, <1>3

\* ... and so are two sections.
LEMMA A32SectionsDiffer ==
    ASSUME NEW p \in SUBSET (20..31), NEW f \in A32Told, NEW g \in A32Told,
           A32!new_section(p, f) = A32!new_section(p, g)
    PROVE  f = g
<1>1. f # {} /\ g # {} /\ f \in SUBSET MappingFlags /\ g \in SUBSET MappingFlags
  BY DEF A32Told
<1>2. {"READ"} \cup Cached(f) = {"READ"} \cup Cached(g)
  BY <1>1, A32Decode
<1>3. \A x \in MappingFlags : x \in f <=> x \in g
  BY <1>2 DEF Cached, A32Told, MappingFlags
<1> QED
  BY <1>1, <1>3

\* What PageTable32 assumes of a page (PageAssumption) holds of the ARMv7 entry at
\* every address of 32 bits, except for the executable small pages above 1M and the
\* sections at address 0: a page reads back the address of its size, a change of its
\* flags makes it the page with the new ones, and it tells its flags apart.
THEOREM A32Keeps ==
    ASSUME NEW p \in SUBSET (12..31), NEW h \in BOOLEAN, NEW f \in A32Told, NEW g \in A32Told,
           NEW aligned, aligned = (IF h THEN p \cap (20..31) ELSE p),
           Addressable(aligned, f, h), Addressable(aligned, g, h)
    PROVE  /\ A32!paddr_of(A32!new_page(p, f, h)) = aligned
           /\ A32!new_page(aligned, f, h) = A32!new_page(p, f, h)
           /\ A32!set_flags(A32!new_page(p, f, h), g, h) = A32!new_page(p, g, h)
           /\ A32!new_page(p, g, h) = A32!new_page(p, f, h) => g = f
<1>1. /\ f \in SUBSET MappingFlags
      /\ aligned \subseteq 12..47
      /\ h => aligned \subseteq 20..31 /\ aligned \subseteq 20..47
  BY DEF A32Told
<1>2. \A k \in SUBSET MappingFlags : A32!new_page(aligned, k, h) = A32!new_page(p, k, h)
  <2>1. (p \cap (20..31)) \cap (20..31) = p \cap (20..31)
    OBVIOUS
  <2> QED
    BY <2>1 DEF A32!new_page, A32!new_section, A32!SECTION_ADDR_MASK
<1>3. A32!paddr_of(A32!new_page(p, f, h)) = aligned
  BY <1>1, <1>2, A32PageAddress
<1>4. A32!set_flags(A32!new_page(p, f, h), g, h) = A32!new_page(p, g, h)
  BY <1>2, <1>3 DEF A32!set_flags, A32Told
<1>5. ASSUME A32!new_page(p, g, h) = A32!new_page(p, f, h) PROVE g = f
  <2>1. A32!new_page(aligned, g, h) = A32!new_page(aligned, f, h)
    BY <1>2, <1>5 DEF A32Told
  <2>2. CASE h
    <3>1. A32!new_section(aligned, f) = A32!new_section(aligned, g)
      BY <2>1, <2>2 DEF A32!new_page
    <3> QED
      BY <1>1, <2>2, <3>1, A32SectionsDiffer
  <2>3. CASE ~h
    <3>1. A32!new_small_page(aligned, f) = A32!new_small_page(aligned, g)
      BY <2>1, <2>3 DEF A32!new_page
    <3> QED
      BY <3>1, A32PagesDiffer
  <2> QED
    BY <2>2, <2>3
<1> QED
  BY <1>1, <1>2, <1>3, <1>4, <1>5

\* An entry that links a table shows as present on x86_64, aarch64 and riscv,
\* as walk needs to find what lies below (TablesPresent); on loongarch64 it
\* does not, at any address.
THEOREM TablesShow ==
    ASSUME NEW p \in SUBSET (12..47)
    PROVE  /\ X64!is_present(X64!new_table(p))
           /\ A64!is_present(A64!new_table(p))
           /\ Rv64!is_present(Rv64!new_table(p))
           /\ ~LA64!is_present(LA64!new_table(p))
<1>1. X64!is_present(X64!new_table(p))
  BY DEF X64!is_present, X64!new_table
<1>2. A64!is_present(A64!new_table(p))
  BY DEF A64!is_present, A64!new_table
<1>3. Rv64!is_present(Rv64!new_table(p))
  BY DEF Rv64!is_present, Rv64!new_table
<1>4. ~LA64!is_present(LA64!new_table(p))
  BY DEF LA64!is_present, LA64!new_table, LA64!P
<1> QED
  BY <1>1, <1>2, <1>3, <1>4

\* The unused entry is no huge page on x86_64, riscv and loongarch64
\* (UnusedIsNoPage, which keeps the region operations from panicking over a
\* hole); on aarch64 it is one.
THEOREM UnusedShows ==
    /\ ~X64!is_huge({})
    /\ ~Rv64!is_huge({})
    /\ ~LA64!is_huge({})
    /\ A64!is_huge({})
BY DEF X64!is_huge, Rv64!is_huge, LA64!is_huge, A64!is_huge
===========================================================================
