--------------------------- MODULE MappingFlags ---------------------------
(***************************************************************************)
(* The architecture-independent permissions and attributes of a mapping    *)
(* (page_table_entry/src/lib.rs, `MappingFlags`).  A bitflags value is the *)
(* set of its flags: `contains` is \in, `|` is \cup, `empty()` is {}.      *)
(*                                                                         *)
(* A raw entry of the format modules (X64PTE, A64PTE, Rv64PTE, LA64PTE,    *)
(* A32PTE) is the set of the positions of its 1 bits, and so is a physical *)
(* address: `a | b` is union, `a & MASK` is intersection, 0 is {}.         *)
(***************************************************************************)
EXTENDS Integers

MappingFlags == {"READ", "WRITE", "EXECUTE", "USER", "DEVICE", "UNCACHED"}

\* The bit b, when the condition c holds: the term of an or-chain.
BitIf(c, b) == IF c THEN {b} ELSE {}
===========================================================================
