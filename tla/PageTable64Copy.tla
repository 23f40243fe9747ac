-------------------------- MODULE PageTable64Copy -------------------------
(***************************************************************************)
(* Two page tables built with the feature `copy-from`                      *)
(* (page_table_multiarch/src/bits64.rs): `copy_from` makes entries of one  *)
(* root lead to the tables of the other, and `borrowed_entries` keeps      *)
(* `drop` from freeing those.  Rust does not tie the two lifetimes.        *)
(*                                                                         *)
(* One table is the current one, which the operations of PageTable64 work  *)
(* on; `Switch` makes the other one current.  Both use one allocator.      *)
(***************************************************************************)
EXTENDS PageTable64

CONSTANTS
    MapSize,     \* the page sizes that callers map
    CopyRange,   \* the <<start, size>> that copy_from is called with
    CopyUnused   \* whether callers copy entries that lead to no table

ASSUME CopyAssumption ==
    /\ MapSize \subseteq PageSize
    /\ CopyUnused \in BOOLEAN
    /\ \A r \in CopyRange : r[1] \in Nat /\ r[2] \in Nat

\* Callers copy a range of canonical addresses, which lie in what one root maps:
\* the index of the root's entry does not start again within the range.
ASSUME RangeAssumption ==
    LET span == PageBytes(LEVELS - 1) * ENTRY_COUNT
    IN  \A r \in CopyRange : r[2] > 0 => r[1] \div span = (r[1] + r[2] - 1) \div span

VARIABLES
    borrowed_entries,  \* of the current table
    other              \* the other table: its root_paddr and borrowed_entries

copyVars == <<mem, height, root_paddr, flusher, call, ret, borrowed_entries, other>>

Other == INSTANCE PageTable64 WITH root_paddr <- other.root_paddr

NoTable == [root_paddr |-> NoFrame, borrowed_entries |-> {}]
---------------------------------------------------------------------------
(* Tables that belong to a root *)

\* The tables that dealloc_tree frees, called on those of S, one level below
\* the root.
dealloc_tree(S) ==
    S \cup Children(S) \cup (IF LEVELS = 4 THEN Children(Children(S)) ELSE {})

Subtables(root, indices) ==
    dealloc_tree({pte_paddr(mem[root][i]) : i \in {j \in indices : IsTable(mem[root][j])}})

\* A faulty variant of Own: what is borrowed is freed too, which drop did
\* before the bitmap existed.
Own_Everything(root, borrowed) ==
    IF root = NoFrame THEN {} ELSE {root} \cup Subtables(root, Idx)

\* What drop frees.
Own(root, borrowed) ==
    IF root = NoFrame THEN {} ELSE {root} \cup Subtables(root, Idx \ borrowed)

Free(frames) ==
    /\ mem' = [f \in DOMAIN mem \ frames |-> mem[f]]
    /\ height' = [f \in DOMAIN mem \ frames |-> height[f]]
---------------------------------------------------------------------------
(* copy_from *)

root_index(v) == p_index(v, LEVELS - 1)

\* A faulty variant of CopiedEntries: end_idx is that of the last byte.
CopiedEntries_Short(start, size) ==
    IF size = 0 THEN {} ELSE root_index(start) .. root_index(start + size - 1) - 1

\* start_idx .. end_idx - 1
CopiedEntries(start, size) ==
    IF size = 0 THEN {} ELSE root_index(start) .. root_index(start + size - 1)

\* A faulty variant of Replaced: nothing below the target's entries is freed.
Replaced_Nothing(copied) == {}

\* The target's own tables that give way to borrowed ones.
Replaced(copied) == Subtables(root_paddr, copied \ borrowed_entries)

\* A faulty variant of Source: an entry in use is left alone.
Source_KeepsUsed(i) ==
    IF pte_is_unused(mem[root_paddr][i]) THEN mem[other.root_paddr][i] ELSE mem[root_paddr][i]

\* What entry i of the target becomes.
Source(i) == mem[other.root_paddr][i]

\* A faulty variant of Borrowed: the operands of && swapped, so that the bit
\* is set for an entry that led to a table only.
Borrowed_Swapped(copied) ==
    borrowed_entries \cup {i \in copied : IsTable(mem[root_paddr][i])}

\* borrowed_entries.set(i, true) for every entry copied.
Borrowed(copied) == borrowed_entries \cup copied

\* The caller copies from a table that has borrowed nothing itself, and, unless
\* CopyUnused, only entries that lead to a table.
MayCopy(copied) ==
    /\ other.root_paddr # NoFrame
    /\ other.borrowed_entries = {}
    /\ CopyUnused \/ \A i \in copied : IsTable(mem[other.root_paddr][i])

CopyFrom(start, size) ==
    LET copied == CopiedEntries(start, size)
        kept   == DOMAIN mem \ Replaced(copied)
    IN  /\ CursorIdle
        /\ MayCopy(copied)
        /\ mem' = [f \in kept |->
                     IF f = root_paddr
                     THEN [i \in Idx |-> IF i \in copied THEN Source(i) ELSE mem[f][i]]
                     ELSE mem[f]]
        /\ height' = [f \in kept |-> height[f]]
        /\ borrowed_entries' = Borrowed(copied)
        /\ flusher' = IF size = 0 THEN flusher ELSE Flusher("Full", <<>>)
        /\ ret' = Ret("copy_from", start, "Ok", Unmapped)
        /\ UNCHANGED <<root_paddr, call, other>>

\* drop.  The kernel does not drop a table that another one borrows from.
DropOwn ==
    /\ Idle
    /\ flusher.kind = "Closed"
    /\ root_paddr # NoFrame
    /\ other.borrowed_entries = {}
    /\ Free(Own(root_paddr, borrowed_entries))
    /\ root_paddr' = NoFrame
    /\ borrowed_entries' = {}
    /\ ret' = NoRet
    /\ UNCHANGED <<flusher, call, other>>

\* The other table becomes the current one.
Switch ==
    /\ Idle
    /\ flusher.kind = "Closed"
    /\ root_paddr' = other.root_paddr
    /\ borrowed_entries' = other.borrowed_entries
    /\ other' = [root_paddr |-> root_paddr, borrowed_entries |-> borrowed_entries]
    /\ ret' = NoRet
    /\ UNCHANGED <<mem, height, flusher, call>>
---------------------------------------------------------------------------
CopyInit == Init /\ borrowed_entries = {} /\ other = NoTable

\* An operation of PageTable64 on the current table.  Remap and Protect are
\* left out: they change a page in place and neither make nor follow tables
\* other than the ones Unmap follows.
TableStep ==
    /\ \/ TryNew
       \/ OpenCursor
       \/ \E v \in VAddr, p \in Target, s \in MapSize, f \in Flags : Map(v, p, s, f)
       \/ \E v \in VAddr : Unmap(v)
       \/ \E op \in {"flush", "drop"} : Flush(op)
       \/ Continue
    /\ UNCHANGED <<borrowed_entries, other>>

CopyNext ==
    \/ TableStep
    \/ \E r \in CopyRange : CopyFrom(r[1], r[2])
    \/ DropOwn
    \/ Switch

CopySpec == CopyInit /\ [][CopyNext]_copyVars
---------------------------------------------------------------------------
(* Properties *)

CurrentOwn == Own(root_paddr, borrowed_entries)
OtherOwn == Own(other.root_paddr, other.borrowed_entries)

\* Neither root leads to a freed frame: copy_from frees nothing that is still
\* in use, and no drop frees what was borrowed.
CopyNoDangling == NoDanglingTable /\ Other!NoDanglingTable

\* No frame is freed by both drops, and what a table borrows is not its own.
OwnersDisjoint == CurrentOwn \cap OtherOwn = {}

\* Every allocated frame is freed by one of the two drops.
CopyNoLeak == DOMAIN mem \subseteq CurrentOwn \cup OtherOwn \cup {call.new}

\* The two tables translate borrowed addresses alike for good, whatever is
\* mapped or unmapped there through either of them after the copy.
BorrowedIsShared ==
    \A v \in VAddr :
        root_index(v) \in borrowed_entries \cup other.borrowed_entries
            => query(mem, v) = Other!query(mem, v)

\* A copy borrows all of the range it is asked for.
CopyCoversRange ==
    [][\A r \in CopyRange : CopyFrom(r[1], r[2]) =>
          \A v \in VAddr : v \in r[1] .. r[1] + r[2] - 1 => root_index(v) \in borrowed_entries']_copyVars

\* "They will be deallocated When the PageTable64 itself is dropped": with
\* both tables gone, no frame is left.
AllDropped ==
    Idle /\ root_paddr = NoFrame /\ other.root_paddr = NoFrame => DOMAIN mem = {}
===========================================================================
