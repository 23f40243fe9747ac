-------------------------- MODULE PageTable32Walk -------------------------
(***************************************************************************)
(* `PageTable32::walk` (page_table_multiarch/src/bits32.rs): the calls of  *)
(* pre_func and post_func it makes between operations.  It reads a table   *)
(* of either level as a slice of ENTRY_COUNT entries, which for the second *)
(* level goes on behind the table and behind its frame.                    *)
(***************************************************************************)
EXTENDS PageTable32
LOCAL INSTANCE SequencesExt

CONSTANTS
    FRAME_COUNT,  \* entries that fit in a frame of 4K: 1024, L2_COUNT .. L1_COUNT
    Beyond        \* the memory behind a frame, entries by their index in the slice

\* get_table of a second-level table, zero up to the end of its frame.
get_table(t) ==
    [i \in Idx1 |-> IF i \in Idx2 THEN l2[t][i]
                    ELSE IF i < FRAME_COUNT THEN Zero ELSE Beyond[i]]

Visit(func, level, i, vaddr, e) ==
    [func |-> func, level |-> level, index |-> i, vaddr |-> vaddr, entry |-> e]

\* The indices of the entries in use that the loop visits, in order.  The limit
\* is looked at after the entry that reaches it.
Visited(table, limit) ==
    LET used == SelectSeq([n \in 1 .. L1_COUNT |-> n - 1], LAMBDA i : ~pte_is_unused(table[i]))
        bound == IF limit = 0 THEN 1 ELSE limit
    IN  SubSeq(used, 1, IF Len(used) < bound THEN Len(used) ELSE bound)

\* One table: the calls around each entry i, with those of below[i] between.
walk_table(table, level, start, limit, below) ==
    LET is == Visited(table, limit)
        Calls(i) ==
          LET vaddr == start + i * PageBytes(IF level = 0 THEN Size1M ELSE Size4K)
          IN  <<Visit("pre", level, i, vaddr, table[i])>>
              \o below[i]
              \o <<Visit("post", level, i, vaddr, table[i])>>
    IN  FlattenSeq([n \in 1 .. Len(is) |-> Calls(is[n])])

\* walk_recursive, of level 0 and of level 1 below the entries that are tables.
walk(limit) ==
    LET nothing == [i \in Idx1 |-> <<>>]
        Below(i) ==
          IF IsTable(l1[i])
          THEN walk_table(get_table(pte_paddr(l1[i])), 1, i * PageBytes(Size1M), limit, nothing)
          ELSE <<>>
    IN  walk_table(l1, 0, 0, limit, [i \in Idx1 |-> Below(i)])
---------------------------------------------------------------------------
(* Properties *)

\* The pages that a walk without a limit calls pre_func on.
WalkedPages ==
    LET calls == SelectSeq(walk(L1_COUNT), LAMBDA c : c.func = "pre")
        pages == SelectSeq(calls, LAMBDA c : c.level = 1 \/ pte_is_huge(c.entry))
    IN  {<<pages[n].vaddr, pages[n].entry>> : n \in DOMAIN pages}

\* What query answers, over all 4K pages.
QueriedPages ==
    LET mapped == {v \in {n * PAGE_SIZE_4K : n \in 0 .. L1_COUNT * L2_COUNT - 1} :
                     query(v) # Unmapped}
    IN  {<<v - (v % PageBytes(query(v).size)), query(v).entry>> : v \in mapped}

\* A walk finds the pages that query finds: the second level has 256 entries
\* (the doc of PageTable32), and the walk visits no others.
WalkFindsPages == Idle /\ l1 # NoTable => WalkedPages = QueriedPages
===========================================================================
