-------------------------- MODULE PageTable64Walk -------------------------
(***************************************************************************)
(* `PageTable64::walk` (page_table_multiarch/src/bits64.rs): the calls of  *)
(* pre_func and post_func it makes on the tables in memory, in order.  It  *)
(* borrows the table, so it runs between operations and never during one.  *)
(***************************************************************************)
EXTENDS PageTable64, FiniteSets, SequencesExt

\* A call of pre_func or post_func on entry i of a table of height h.
Visit(func, h, i, vaddr, e) ==
    [func |-> func, level |-> LEVELS - 1 - h, index |-> i, vaddr |-> vaddr, entry |-> e]

\* walk_recursive goes down from this entry of a table of height h.
Descends(h, e) == h > 0 /\ ~pte_is_huge(e) /\ IsTable(e)

PresentEntries(t) == {i \in Idx : pte_is_present(mem[t][i])}

\* A faulty variant of Visited: the limit is reached one entry early.
Visited_OneLess(t, limit) ==
    LET Before(i) == {j \in PresentEntries(t) : j < i}
    IN  {i \in PresentEntries(t) : Cardinality(Before(i)) < limit - 1}

\* The entries the loop visits.  The limit is looked at after the entry that
\* reaches it, so a limit of 0 lets one through.
Visited(t, limit) ==
    LET Before(i) == {j \in PresentEntries(t) : j < i}
        bound == IF limit = 0 THEN 1 ELSE limit
    IN  {i \in PresentEntries(t) : Cardinality(Before(i)) < bound}

\* The calls for entry i of table t, of height h, for the addresses from vaddr
\* on: before and after those for the table that it leads to.
EntryCalls(h, t, i, vaddr, below) ==
    LET e == mem[t][i]
    IN  <<Visit("pre", h, i, vaddr, e)>>
        \o (IF Descends(h, e) THEN below[pte_paddr(e)][vaddr] ELSE <<>>)
        \o <<Visit("post", h, i, vaddr, e)>>

\* The calls for table t of height h, for the addresses from start on.
TableCalls(h, t, start, limit, below) ==
    FlattenSeq([n \in 1 .. ENTRY_COUNT |->
                  IF n - 1 \in Visited(t, limit)
                  THEN EntryCalls(h, t, n - 1, start + (n - 1) * PageBytes(h), below)
                  ELSE <<>>])

\* The same for every table and every address.
LevelCalls(h, limit, below) ==
    [t \in DOMAIN mem |-> [start \in Nat |-> TableCalls(h, t, start, limit, below)]]

walk_recursive(limit) ==
    LET w[h \in H] == LevelCalls(h, limit, IF h = 0 THEN <<>> ELSE w[h - 1])
    IN  w

walk(limit) == walk_recursive(limit)[LEVELS - 1][root_paddr][0]
---------------------------------------------------------------------------
(* Properties *)

MayWalk == Idle /\ root_paddr # NoFrame

\* The page that walk calls func on, when the call is not one for a table.
Height(c) == LEVELS - 1 - c.level
OnPage(c, func) == c.func = func /\ ~Descends(Height(c), c.entry)
PageCalled(c) ==
    [vaddr |-> c.vaddr, paddr |-> pte_paddr(c.entry), flags |-> pte_flags(c.entry),
     size |-> Height(c)]

\* What query answers, over all the 4K pages that the tables can translate.
PageAround(v, q) ==
    [vaddr |-> v - (v % PageBytes(q.size)), paddr |-> q.paddr, flags |-> q.flags,
     size |-> q.size]

Pages4K == (ENTRY_COUNT * PageBytes(LEVELS - 1)) \div PAGE_SIZE_4K

QueriedPages ==
    LET mapped == {v \in {n * PAGE_SIZE_4K : n \in 0 .. Pages4K - 1} :
                     query(mem, v) # Unmapped}
    IN  {PageAround(v, query(mem, v)) : v \in mapped}

\* With no limit, walk calls both functions on the pages that query finds,
\* each once, at its address and in the order of the addresses: the tables
\* it goes down into are those of get_entry.
WalkFindsPages ==
    MayWalk =>
        \A func \in {"pre", "post"} :
            LET calls == walk(ENTRY_COUNT)
                pages == {n \in DOMAIN calls : OnPage(calls[n], func)}
            IN  /\ {PageCalled(calls[n]) : n \in pages} = QueriedPages
                /\ \A m, n \in pages : m < n => calls[m].vaddr < calls[n].vaddr

\* The entries that link tables show as present, as on every architecture but
\* LoongArch64: walk goes down into nothing else.
TablesPresent == \A f \in Frame : pte_is_present(pte_new_table(f))
===========================================================================
