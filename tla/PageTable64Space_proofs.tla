---------------------- MODULE PageTable64Space_proofs ----------------------
(***************************************************************************)
(* What PageTable64 translates: the entry where a descent ends, the one    *)
(* aligned block of addresses that a write changes, and with them that the *)
(* tables implement AddressSpace and that walk calls what query answers.   *)
(***************************************************************************)
EXTENDS PageTable64_proofs, PageTable64Walk, DivisionLemmas, FiniteSetTheorems,
        WellFoundedInduction

---------------------------------------------------------------------------
(* The path of an address *)

Top == LEVELS - 1

\* The descent for v goes on from table t of height h in memory m, to a child.
Goes(m, t, v, h) == h > 0 /\ IsTable(m[t][p_index(v, h)])
Child(m, t, v, h) == pte_paddr(m[t][p_index(v, h)])

Down1(m, v) == Child(m, root_paddr, v, Top)
Down2(m, v) == Child(m, Down1(m, v), v, Top - 1)
Down3(m, v) == Child(m, Down2(m, v), v, Top - 2)

\* The descent for v comes to table t of height h.
Path(m, v, t, h) ==
    \/ t = root_paddr /\ h = Top
    \/ /\ Goes(m, root_paddr, v, Top)
       /\ \/ t = Down1(m, v) /\ h = Top - 1
          \/ /\ Goes(m, Down1(m, v), v, Top - 1)
             /\ \/ t = Down2(m, v) /\ h = Top - 2
                \/ /\ Goes(m, Down2(m, v), v, Top - 2)
                   /\ t = Down3(m, v) /\ h = Top - 3

\* It goes no further.
Ends(m, v, t, h) == Path(m, v, t, h) /\ ~Goes(m, t, v, h)

\* The tables of L hang together in memory m: RootInv and ChildInv.
LeadsIn(m, t, i) == height[t] > 0 /\ IsTable(m[t][i])

TreeIn(m, L) ==
    /\ root_paddr \in L /\ height[root_paddr] = Top
    /\ \A t \in L : height[t] \in H
    /\ \A t \in L, i \in Idx :
          LeadsIn(m, t, i) => /\ pte_paddr(m[t][i]) \in L
                              /\ height[pte_paddr(m[t][i])] = height[t] - 1

\* The levels of a table.
LEMMA TopHeight == Top \in H /\ Top \in {2, 3} /\ H = 0 .. Top
BY LevelsAssumption DEF Top, H

\* The tables of the invariant hang together.
LEMMA LinkedTree ==
    ASSUME IInv, root_paddr # NoFrame
    PROVE  TreeIn(mem, Linked)
<1>1. \A t \in Linked : height[t] \in H
  BY DEF IInv, TypeOK, Linked
<1> QED
  BY <1>1 DEF TreeIn, LeadsIn, Leads, Top, IInv, TreeInv, RootInv, ChildInv

\* One step down a path.
LEMMA GoesDown ==
    ASSUME NEW m, NEW L, TreeIn(m, L), NEW v \in VAddr, NEW t \in L,
           Goes(m, t, v, height[t])
    PROVE  Child(m, t, v, height[t]) \in L /\ height[Child(m, t, v, height[t])] = height[t] - 1
<1>1. height[t] \in H
  BY DEF TreeIn
<1>2. p_index(v, height[t]) \in Idx
  BY <1>1, IndexInTable
<1> QED
  BY <1>2 DEF TreeIn, LeadsIn, Goes, Child

\* A path runs through the tables, at the heights they were made for.
LEMMA PathTyped ==
    ASSUME NEW m, NEW L, TreeIn(m, L), NEW v \in VAddr, NEW t, NEW h, Path(m, v, t, h)
    PROVE  t \in L /\ h \in H /\ height[t] = h
<1>0. Top \in Int /\ root_paddr \in L /\ height[root_paddr] = Top /\ Top - 1 - 1 = Top - 2
      /\ Top - 2 - 1 = Top - 3
  BY TopHeight DEF TreeIn
<1>1. Goes(m, root_paddr, v, Top)
         => Down1(m, v) \in L /\ height[Down1(m, v)] = Top - 1
  BY <1>0, GoesDown DEF Down1
<1>2. Goes(m, root_paddr, v, Top) /\ Goes(m, Down1(m, v), v, Top - 1)
         => Down2(m, v) \in L /\ height[Down2(m, v)] = Top - 2
  BY <1>0, <1>1, GoesDown DEF Down2
<1>3. Goes(m, root_paddr, v, Top) /\ Goes(m, Down1(m, v), v, Top - 1)
         /\ Goes(m, Down2(m, v), v, Top - 2)
         => Down3(m, v) \in L /\ height[Down3(m, v)] = Top - 3
  BY <1>0, <1>2, GoesDown DEF Down3
<1>4. t \in L /\ height[t] = h
  BY <1>0, <1>1, <1>2, <1>3, Zenon DEF Path
<1>5. height[t] \in H
  BY <1>4 DEF TreeIn
<1> QED
  BY <1>4, <1>5

\* A path that goes on comes to the child.
LEMMA PathDown ==
    ASSUME NEW m, NEW L, TreeIn(m, L), NEW v \in VAddr, NEW t, NEW h, Path(m, v, t, h),
           Goes(m, t, v, h)
    PROVE  Path(m, v, Child(m, t, v, h), h - 1)
<1>1. h > 0 /\ h \in H
  BY PathTyped DEF Goes
<1>2. Top \in {2, 3} /\ Top - 1 - 1 = Top - 2 /\ Top - 2 - 1 = Top - 3 /\ Top - 3 <= 0
  BY TopHeight
<1>3. CASE t = root_paddr /\ h = Top
  BY <1>3 DEF Path, Down1
<1>4. CASE Goes(m, root_paddr, v, Top) /\ t = Down1(m, v) /\ h = Top - 1
  BY <1>2, <1>4 DEF Path, Down2
<1>5. CASE /\ Goes(m, root_paddr, v, Top) /\ Goes(m, Down1(m, v), v, Top - 1)
           /\ t = Down2(m, v) /\ h = Top - 2
  BY <1>2, <1>5 DEF Path, Down3
<1>6. CASE h = Top - 3
  BY <1>1, <1>2, <1>6
<1> QED
  BY <1>3, <1>4, <1>5, <1>6 DEF Path

\* A table of a path below the root hangs from the one above it.
LEMMA PathUp ==
    ASSUME NEW m, NEW v, NEW t, NEW h, Path(m, v, t, h), h # Top
    PROVE  \E u : Path(m, v, u, h + 1) /\ Goes(m, u, v, h + 1) /\ t = Child(m, u, v, h + 1)
<1>1. Top \in Int
  BY TopHeight
<1>2. CASE Goes(m, root_paddr, v, Top) /\ t = Down1(m, v) /\ h = Top - 1
  <2>1. h + 1 = Top
    BY <1>1, <1>2
  <2> QED
    BY <1>2, <2>1 DEF Path, Down1
<1>3. CASE /\ Goes(m, root_paddr, v, Top) /\ Goes(m, Down1(m, v), v, Top - 1)
           /\ t = Down2(m, v) /\ h = Top - 2
  <2>1. h + 1 = Top - 1
    BY <1>1, <1>3
  <2> QED
    BY <1>3, <2>1 DEF Path, Down2
<1>4. CASE /\ Goes(m, root_paddr, v, Top) /\ Goes(m, Down1(m, v), v, Top - 1)
           /\ Goes(m, Down2(m, v), v, Top - 2)
           /\ t = Down3(m, v) /\ h = Top - 3
  <2>1. h + 1 = Top - 2
    BY <1>1, <1>4
  <2> QED
    BY <1>4, <2>1 DEF Path, Down3
<1> QED
  BY <1>2, <1>3, <1>4 DEF Path

\* Every path ends at a table.
LEMMA PathEnds ==
    ASSUME NEW m, NEW L, TreeIn(m, L), NEW v \in VAddr
    PROVE  \E t \in L, h \in H : height[t] = h /\ Ends(m, v, t, h)
<1>1. Path(m, v, root_paddr, Top)
  BY DEF Path
<1>2. Top \in {2, 3}
  BY TopHeight
<1>3. CASE ~Goes(m, root_paddr, v, Top)
  BY <1>1, <1>3, PathTyped DEF Ends
<1>4. CASE Goes(m, root_paddr, v, Top) /\ ~Goes(m, Down1(m, v), v, Top - 1)
  <2>1. Path(m, v, Down1(m, v), Top - 1)
    BY <1>4 DEF Path
  <2> QED
    BY <1>4, <2>1, PathTyped DEF Ends
<1>5. CASE /\ Goes(m, root_paddr, v, Top) /\ Goes(m, Down1(m, v), v, Top - 1)
           /\ ~Goes(m, Down2(m, v), v, Top - 2)
  <2>1. Path(m, v, Down2(m, v), Top - 2)
    BY <1>5 DEF Path
  <2> QED
    BY <1>5, <2>1, PathTyped DEF Ends
<1>6. CASE /\ Goes(m, root_paddr, v, Top) /\ Goes(m, Down1(m, v), v, Top - 1)
           /\ Goes(m, Down2(m, v), v, Top - 2)
  <2>1. Path(m, v, Down3(m, v), Top - 3)
    BY <1>6 DEF Path
  <2>2. ~Goes(m, Down3(m, v), v, Top - 3)
    BY <1>2 DEF Goes
  <2> QED
    BY <2>1, <2>2, PathTyped DEF Ends
<1> QED
  BY <1>3, <1>4, <1>5, <1>6
---------------------------------------------------------------------------
(* The entry where a descent ends *)

\* get_entry from a table of height h on.
From(m, t, v, h) ==
    CASE h = 0 -> get_p1(m, t, v)
      [] h = 1 -> get_p2(m, t, v)
      [] h = 2 -> get_p3(m, t, v)
      [] h = 3 -> get_p4(m, t, v)

\* What get_entry makes of the entry e where it ends, and query of it.
Found(e, t, h) ==
    IF h = 0 \/ (h < 3 /\ pte_is_huge(e)) THEN Slot(t, h) ELSE NoSlot(next_table(e).err)

PageOf(e, h) ==
    IF (h = 0 \/ (h < 3 /\ pte_is_huge(e))) /\ pte_is_present(e)
    THEN [paddr |-> pte_paddr(e), flags |-> pte_flags(e), size |-> h]
    ELSE Unmapped

\* An entry that leads to a table is not huge, so the descent goes on in it.
LEMMA FromDown ==
    ASSUME NEW m, NEW t, NEW v, NEW h \in 0 .. 3, Goes(m, t, v, h)
    PROVE  From(m, t, v, h) = From(m, Child(m, t, v, h), v, h - 1)
<1> DEFINE e == m[t][p_index(v, h)]
           c == pte_paddr(e)
<1>1. IsTable(e) /\ h > 0
  BY DEF Goes
<1>2. ~pte_is_huge(e)
  BY <1>1 DEF IsTable, next_table
<1>3. CASE h = 1
  <2>1. From(m, t, v, h) = get_p2(m, t, v) /\ From(m, c, v, h - 1) = get_p1(m, c, v)
    BY <1>3 DEF From
  <2> QED
    BY <1>1, <1>2, <1>3, <2>1 DEF get_p2, Child
<1>4. CASE h = 2
  <2>1. From(m, t, v, h) = get_p3(m, t, v) /\ From(m, c, v, h - 1) = get_p2(m, c, v)
    BY <1>4 DEF From
  <2> QED
    BY <1>1, <1>2, <1>4, <2>1 DEF get_p3, Child
<1>5. CASE h = 3
  <2>1. From(m, t, v, h) = get_p4(m, t, v) /\ From(m, c, v, h - 1) = get_p3(m, c, v)
    BY <1>5 DEF From
  <2> QED
    BY <1>1, <1>5, <2>1 DEF get_p4, Child
<1> QED
  BY <1>1, <1>3, <1>4, <1>5

\* Another entry ends it.
LEMMA FromEnd ==
    ASSUME NEW m, NEW t, NEW v, NEW h \in 0 .. 3, ~Goes(m, t, v, h)
    PROVE  From(m, t, v, h) = Found(m[t][p_index(v, h)], t, h)
<1> DEFINE e == m[t][p_index(v, h)]
<1>1. h > 0 => ~IsTable(e)
  BY DEF Goes
<1>2. CASE h = 0
  BY <1>2 DEF From, Found, get_p1
<1>3. CASE h = 1
  <2>1. From(m, t, v, h) = get_p2(m, t, v)
    BY <1>3 DEF From
  <2> QED
    BY <1>1, <1>3, <2>1 DEF Found, get_p2
<1>4. CASE h = 2
  <2>1. From(m, t, v, h) = get_p3(m, t, v)
    BY <1>4 DEF From
  <2> QED
    BY <1>1, <1>4, <2>1 DEF Found, get_p3
<1>5. CASE h = 3
  <2>1. From(m, t, v, h) = get_p4(m, t, v)
    BY <1>5 DEF From
  <2> QED
    BY <1>1, <1>5, <2>1 DEF Found, get_p4
<1> QED
  BY <1>2, <1>3, <1>4, <1>5

\* get_entry may begin anywhere on the path.
LEMMA FromPath ==
    ASSUME NEW m, NEW v, NEW t, NEW h, Path(m, v, t, h), h >= 0
    PROVE  get_entry(m, v) = From(m, t, v, h)
<1>0. Top \in {2, 3} /\ Top - 1 - 1 = Top - 2 /\ Top - 2 - 1 = Top - 3
      /\ Top \in 0 .. 3 /\ Top - 1 \in 0 .. 3 /\ Top - 2 \in 0 .. 3
  BY TopHeight
<1>1. get_entry(m, v) = From(m, root_paddr, v, Top)
  <2>1. CASE LEVELS = 3
    BY <2>1 DEF get_entry, From, Top
  <2>2. CASE LEVELS = 4
    BY <2>2 DEF get_entry, From, Top
  <2> QED
    BY <2>1, <2>2, LevelsAssumption
<1>2. Goes(m, root_paddr, v, Top)
         => From(m, root_paddr, v, Top) = From(m, Down1(m, v), v, Top - 1)
  BY <1>0, FromDown DEF Down1
<1>3. Goes(m, Down1(m, v), v, Top - 1)
         => From(m, Down1(m, v), v, Top - 1) = From(m, Down2(m, v), v, Top - 2)
  BY <1>0, FromDown DEF Down2
<1>4. Goes(m, Down2(m, v), v, Top - 2)
         => From(m, Down2(m, v), v, Top - 2) = From(m, Down3(m, v), v, Top - 3)
  BY <1>0, FromDown DEF Down3
<1> QED
  BY <1>1, <1>2, <1>3, <1>4, Zenon DEF Path

\* What get_entry and query answer, in any memory whose tables hang together.
LEMMA EndEntry ==
    ASSUME NEW m, NEW L, TreeIn(m, L), NEW v \in VAddr, NEW t, NEW h, Ends(m, v, t, h)
    PROVE  /\ get_entry(m, v) = Found(m[t][p_index(v, h)], t, h)
           /\ query(m, v) = PageOf(m[t][p_index(v, h)], h)
<1> DEFINE e == m[t][p_index(v, h)]
<1>1. h \in 0 .. 3
  BY PathTyped, TopHeight DEF Ends
<1>2. get_entry(m, v) = Found(e, t, h)
  BY <1>1, FromPath, FromEnd DEF Ends
<1>3. h > 0 => next_table(e).err # "Ok"
  BY DEF Ends, Goes, IsTable
<1>4. CASE h = 0 \/ (h < 3 /\ pte_is_huge(e))
  <2>1. get_entry(m, v) = Slot(t, h)
    BY <1>2, <1>4 DEF Found
  <2> QED
    BY <1>2, <1>4, <2>1 DEF query, PageOf, Slot
<1>5. CASE ~(h = 0 \/ (h < 3 /\ pte_is_huge(e)))
  <2>1. get_entry(m, v) = NoSlot(next_table(e).err)
    BY <1>2, <1>5 DEF Found
  <2>2. get_entry(m, v).err # "Ok"
    BY <1>1, <1>3, <1>5, <2>1 DEF NoSlot
  <2> QED
    BY <1>2, <1>5, <2>2 DEF query, PageOf
<1> QED
  BY <1>4, <1>5
---------------------------------------------------------------------------
(* The addresses of one entry *)

\* An entry covers as many bytes as a table one level below.
LEMMA PageBytesNext ==
    \A h \in 0 .. 2 : PageBytes(h + 1) = PageBytes(h) * ENTRY_COUNT
<1>1. TAKE h \in 0 .. 2
<1>2. CASE h = 0
  BY <1>2 DEF PageBytes
<1>3. CASE h = 1
  BY <1>3 DEF PageBytes
<1>4. CASE h = 2
  BY <1>4 DEF PageBytes
<1> QED
  BY <1>2, <1>3, <1>4

SameBlock(v, w, h) == v \div PageBytes(h) = w \div PageBytes(h)

\* Addresses in one block of a size are in one of the next size, and have the
\* same entry in a table of that height.
LEMMA Coarser ==
    ASSUME NEW v \in VAddr, NEW w \in VAddr, NEW h \in 0 .. 2, SameBlock(v, w, h)
    PROVE  SameBlock(v, w, h + 1) /\ p_index(v, h + 1) = p_index(w, h + 1)
<1> DEFINE p == PageBytes(h)
<1>1. p \in Nat \ {0} /\ ENTRY_COUNT \in Nat \ {0} /\ v \in Nat /\ w \in Nat
  BY PageBytesPositive, CountAssumption
<1>2. v \div p = w \div p
  BY DEF SameBlock
<1> HIDE DEF p
<1>3. v \div (p * ENTRY_COUNT) = w \div (p * ENTRY_COUNT)
  BY <1>1, <1>2, CoarserQuotient
<1>4. PageBytes(h + 1) = p * ENTRY_COUNT
  BY PageBytesNext DEF p
<1> QED
  BY <1>3, <1>4 DEF SameBlock, p_index

\* Addresses in one block of a size, with the same entry in a table of the
\* height below, are in one block of the size below.
LEMMA Finer ==
    ASSUME NEW v \in VAddr, NEW w \in VAddr, NEW h \in 0 .. 2, SameBlock(v, w, h + 1),
           p_index(v, h) = p_index(w, h)
    PROVE  SameBlock(v, w, h)
<1> DEFINE p == PageBytes(h)
<1>1. p \in Nat \ {0} /\ ENTRY_COUNT \in Nat \ {0} /\ v \in Nat /\ w \in Nat
  BY PageBytesPositive, CountAssumption
<1>2. PageBytes(h + 1) = p * ENTRY_COUNT
  BY PageBytesNext DEF p
<1>3. (v \div p) % ENTRY_COUNT = (w \div p) % ENTRY_COUNT
  BY DEF p_index
<1> HIDE DEF p
<1>4. v \div (p * ENTRY_COUNT) = w \div (p * ENTRY_COUNT)
  BY <1>2 DEF SameBlock
<1>5. v \div p = w \div p
  BY <1>1, <1>3, <1>4, FinerQuotient
<1> QED
  BY <1>5 DEF SameBlock, p

\* The addresses of one block come to the same entry of the same table.
SharePath(m, h) ==
    \A v, w \in VAddr : \A t :
        SameBlock(v, w, h) /\ Path(m, v, t, h)
            => Path(m, w, t, h) /\ p_index(v, h) = p_index(w, h)

\* Addresses of one block have the same entry in a table of that height.
LEMMA IndexOfBlock ==
    ASSUME NEW v \in VAddr, NEW w \in VAddr, NEW h, SameBlock(v, w, h)
    PROVE  p_index(v, h) = p_index(w, h)
BY DEF SameBlock, p_index

\* What addresses share at one height they share one level below.
LEMMA SharePathDown ==
    ASSUME NEW m, NEW L, TreeIn(m, L), NEW h \in 0 .. Top - 1, SharePath(m, h + 1)
    PROVE  SharePath(m, h)
<1> SUFFICES ASSUME NEW v \in VAddr, NEW w \in VAddr, NEW t,
                    SameBlock(v, w, h), Path(m, v, t, h)
             PROVE  Path(m, w, t, h) /\ p_index(v, h) = p_index(w, h)
  BY DEF SharePath
<1>0. h \in 0 .. 2 /\ h # Top /\ h + 1 - 1 = h
  BY TopHeight
<1>1. PICK u : Path(m, v, u, h + 1) /\ Goes(m, u, v, h + 1) /\ t = Child(m, u, v, h + 1)
  BY <1>0, PathUp
<1>2. SameBlock(v, w, h + 1) /\ p_index(v, h + 1) = p_index(w, h + 1)
  BY <1>0, Coarser
<1>3. Path(m, w, u, h + 1)
  BY <1>1, <1>2 DEF SharePath
<1>4. Goes(m, u, w, h + 1) /\ t = Child(m, u, w, h + 1)
  BY <1>1, <1>2 DEF Goes, Child
<1>5. Path(m, w, t, h)
  BY <1>0, <1>3, <1>4, PathDown
<1> QED
  BY <1>5, IndexOfBlock

\* The addresses of one block share their path down to the entry of the block.
LEMMA BlockSharesPath ==
    ASSUME NEW m, NEW L, TreeIn(m, L), NEW h \in H
    PROVE  SharePath(m, h)
<1>0. Top \in {2, 3} /\ H = 0 .. Top
  BY TopHeight
<1>1. SharePath(m, Top)
  <2> SUFFICES ASSUME NEW v \in VAddr, NEW w \in VAddr, NEW t,
                      SameBlock(v, w, Top), Path(m, v, t, Top)
               PROVE  Path(m, w, t, Top) /\ p_index(v, Top) = p_index(w, Top)
    BY DEF SharePath
  <2>1. t = root_paddr
    BY <1>0 DEF Path
  <2> QED
    BY <2>1, IndexOfBlock DEF Path
<1>2. SharePath(m, Top - 1)
  BY <1>0, <1>1, SharePathDown
<1>3. SharePath(m, Top - 2)
  BY <1>0, <1>2, SharePathDown
<1>4. Top = 3 => SharePath(m, Top - 3)
  BY <1>0, <1>3, SharePathDown
<1> QED
  BY <1>0, <1>1, <1>2, <1>3, <1>4

\* No two entries of the tables of L lead to one table: UniqueInv.
UniqueIn(m, L) ==
    \A t1, t2 \in L, i1, i2 \in Idx :
        LeadsIn(m, t1, i1) /\ LeadsIn(m, t2, i2) /\ pte_paddr(m[t1][i1]) = pte_paddr(m[t2][i2])
            => t1 = t2 /\ i1 = i2

\* Addresses that come to the same entry are in one block.
Separated(m, h) ==
    \A v, w \in VAddr : \A t :
        Path(m, v, t, h) /\ Path(m, w, t, h) /\ p_index(v, h) = p_index(w, h)
            => SameBlock(v, w, h)

\* The tables of the invariant are not shared.
LEMMA LinkedUnique == ASSUME IInv PROVE UniqueIn(mem, Linked)
BY DEF UniqueIn, LeadsIn, Leads, IInv, TreeInv, UniqueInv

\* Blocks that are apart at one height are apart one level below.
LEMMA SeparatedDown ==
    ASSUME NEW m, NEW L, TreeIn(m, L), UniqueIn(m, L), NEW h \in 0 .. Top - 1,
           Separated(m, h + 1)
    PROVE  Separated(m, h)
<1> SUFFICES ASSUME NEW v \in VAddr, NEW w \in VAddr, NEW t,
                    Path(m, v, t, h), Path(m, w, t, h), p_index(v, h) = p_index(w, h)
             PROVE  SameBlock(v, w, h)
  BY DEF Separated
<1>0. h \in 0 .. 2 /\ h # Top /\ h + 1 \in H /\ h + 1 > 0
  BY TopHeight
<1>1. PICK u : Path(m, v, u, h + 1) /\ Goes(m, u, v, h + 1) /\ t = Child(m, u, v, h + 1)
  BY <1>0, PathUp
<1>2. PICK x : Path(m, w, x, h + 1) /\ Goes(m, x, w, h + 1) /\ t = Child(m, x, w, h + 1)
  BY <1>0, PathUp
<1>3. u \in L /\ height[u] = h + 1 /\ x \in L /\ height[x] = h + 1
  BY <1>1, <1>2, PathTyped
<1>4. p_index(v, h + 1) \in Idx /\ p_index(w, h + 1) \in Idx
  BY <1>0, IndexInTable
<1>5. LeadsIn(m, u, p_index(v, h + 1)) /\ LeadsIn(m, x, p_index(w, h + 1))
  BY <1>0, <1>1, <1>2, <1>3 DEF LeadsIn, Goes
<1>6. u = x /\ p_index(v, h + 1) = p_index(w, h + 1)
  <2> DEFINE i == p_index(v, h + 1)
             j == p_index(w, h + 1)
  <2>1. pte_paddr(m[u][i]) = pte_paddr(m[x][j])
    BY <1>1, <1>2, Zenon DEF Child
  <2>2. u \in L /\ x \in L /\ i \in Idx /\ j \in Idx /\ LeadsIn(m, u, i) /\ LeadsIn(m, x, j)
    BY <1>3, <1>4, <1>5
  <2> HIDE DEF i, j
  <2>3. u = x /\ i = j
    BY <2>1, <2>2 DEF UniqueIn
  <2> QED
    BY <2>3 DEF i, j
<1>7. SameBlock(v, w, h + 1)
  BY <1>1, <1>2, <1>6 DEF Separated
<1> QED
  BY <1>0, <1>7, Finer

\* An entry of the tree translates the addresses of one block only.
LEMMA EntrySeparates ==
    ASSUME NEW m, NEW L, TreeIn(m, L), UniqueIn(m, L), NEW h \in H
    PROVE  Separated(m, h)
<1>0. Top \in {2, 3} /\ H = 0 .. Top
  BY TopHeight
<1>1. Separated(m, Top)
  BY CanonicalAssumption DEF Separated, SameBlock, Top
<1>2. Separated(m, Top - 1)
  BY <1>0, <1>1, SeparatedDown
<1>3. Separated(m, Top - 2)
  BY <1>0, <1>2, SeparatedDown
<1>4. Top = 3 => Separated(m, Top - 3)
  BY <1>0, <1>3, SeparatedDown
<1> QED
  BY <1>0, <1>1, <1>2, <1>3, <1>4
---------------------------------------------------------------------------
(* Writes *)

\* The entries of the tables of L that lead to a table in memory m lead to it
\* in memory n.
LeadsKept(m, n, L) ==
    \A t \in L, i \in Idx :
        LeadsIn(m, t, i) => LeadsIn(n, t, i) /\ pte_paddr(m[t][i]) = pte_paddr(n[t][i])

\* The same entries of the tables of L lead to the same tables.
AgreeIn(m, n, L) == LeadsKept(m, n, L) /\ LeadsKept(n, m, L)

\* Memories that lead alike hang together alike.
LEMMA TreeAgrees ==
    ASSUME NEW m, NEW n, NEW L, TreeIn(m, L), AgreeIn(m, n, L)
    PROVE  TreeIn(n, L) /\ (UniqueIn(m, L) => UniqueIn(n, L))
<1>1. TreeIn(n, L)
  BY DEF TreeIn, AgreeIn, LeadsKept
<1>2. UniqueIn(m, L) => UniqueIn(n, L)
  BY DEF UniqueIn, AgreeIn, LeadsKept
<1> QED
  BY <1>1, <1>2

\* A memory that leads where another did has its paths.
LEMMA PathKept ==
    ASSUME NEW m, NEW n, NEW L, TreeIn(m, L), LeadsKept(m, n, L), NEW v \in VAddr
    PROVE  \A t, h : Path(m, v, t, h) => Path(n, v, t, h)
<1>1. \A t \in L :
         Goes(m, t, v, height[t])
            => /\ Goes(n, t, v, height[t])
               /\ Child(m, t, v, height[t]) = Child(n, t, v, height[t])
  <2> TAKE t \in L
  <2>1. height[t] \in H
    BY DEF TreeIn
  <2>2. p_index(v, height[t]) \in Idx
    BY <2>1, IndexInTable
  <2> QED
    BY <2>2 DEF LeadsKept, LeadsIn, Goes, Child
<1>2. root_paddr \in L /\ height[root_paddr] = Top
  BY DEF TreeIn
<1>3. ASSUME Goes(m, root_paddr, v, Top)
      PROVE  /\ Goes(n, root_paddr, v, Top)
             /\ Down1(m, v) = Down1(n, v)
             /\ Down1(m, v) \in L /\ height[Down1(m, v)] = Top - 1
  <2>1. Path(m, v, Down1(m, v), Top - 1)
    BY <1>3 DEF Path
  <2> QED
    BY <1>1, <1>2, <1>3, <2>1, PathTyped DEF Down1
<1>4. ASSUME Goes(m, root_paddr, v, Top), Goes(m, Down1(m, v), v, Top - 1)
      PROVE  /\ Goes(n, Down1(m, v), v, Top - 1)
             /\ Down2(m, v) = Down2(n, v)
             /\ Down2(m, v) \in L /\ height[Down2(m, v)] = Top - 2
  <2>1. Path(m, v, Down2(m, v), Top - 2)
    BY <1>4 DEF Path
  <2> QED
    BY <1>1, <1>3, <1>4, <2>1, PathTyped DEF Down2
<1>5. ASSUME Goes(m, root_paddr, v, Top), Goes(m, Down1(m, v), v, Top - 1),
             Goes(m, Down2(m, v), v, Top - 2)
      PROVE  Goes(n, Down2(m, v), v, Top - 2) /\ Down3(m, v) = Down3(n, v)
  BY <1>1, <1>4, <1>5 DEF Down3
<1> QED
  BY <1>3, <1>4, <1>5 DEF Path

\* Memories that lead alike have the same paths.
LEMMA PathAgrees ==
    ASSUME NEW m, NEW n, NEW L, TreeIn(m, L), AgreeIn(m, n, L), NEW v \in VAddr
    PROVE  \A t, h : /\ Path(m, v, t, h) <=> Path(n, v, t, h)
                     /\ Ends(m, v, t, h) <=> Ends(n, v, t, h)
<1>1. LeadsKept(m, n, L) /\ LeadsKept(n, m, L) /\ TreeIn(n, L)
  BY TreeAgrees DEF AgreeIn
<1>2. \A t, h : Path(m, v, t, h) <=> Path(n, v, t, h)
  BY <1>1, PathKept
<1>3. ASSUME NEW t, NEW h, Path(m, v, t, h)
      PROVE  Goes(m, t, v, h) <=> Goes(n, t, v, h)
  <2>1. t \in L /\ h \in H /\ height[t] = h
    BY <1>3, PathTyped
  <2>2. p_index(v, h) \in Idx
    BY <2>1, IndexInTable
  <2> QED
    BY <1>1, <2>1, <2>2 DEF LeadsKept, LeadsIn, Goes
<1> QED
  BY <1>2, <1>3 DEF Ends

\* The write of one entry e over another, which led to no table either, in
\* the table where the descent for v ends.
Overwrites(m, n, L, v, t, h, e) ==
    /\ TreeIn(m, L) /\ UniqueIn(m, L)
    /\ \A u \in L : u \in DOMAIN m /\ m[u] \in Table
    /\ Ends(m, v, t, h)
    /\ h = 0 \/ ~IsTable(e)
    /\ n = [m EXCEPT ![t][p_index(v, h)] = e]

\* It changes no path.
LEMMA OverwriteAgrees ==
    ASSUME NEW m, NEW n, NEW L, NEW v \in VAddr, NEW t, NEW h, NEW e,
           Overwrites(m, n, L, v, t, h, e)
    PROVE  /\ AgreeIn(m, n, L)
           /\ t \in L /\ h \in H /\ p_index(v, h) \in Idx
           /\ \A u \in L, i \in Idx :
                 n[u][i] = IF u = t /\ i = p_index(v, h) THEN e ELSE m[u][i]
<1> DEFINE j == p_index(v, h)
<1>1. t \in L /\ h \in H /\ height[t] = h
  BY PathTyped DEF Overwrites, Ends
<1>2. j \in Idx
  BY <1>1, IndexInTable
<1>3. \A u \in L : u \in DOMAIN m /\ m[u] \in [Idx -> PTE]
  BY DEF Overwrites, Table
<1>4. n = [m EXCEPT ![t][j] = e]
  BY DEF Overwrites
<1>5. ~LeadsIn(m, t, j) /\ (h = 0 \/ ~IsTable(e))
  BY <1>1 DEF Overwrites, Ends, Goes, LeadsIn
<1> HIDE DEF j
<1>6. \A u \in L, i \in Idx : n[u][i] = IF u = t /\ i = j THEN e ELSE m[u][i]
  BY <1>1, <1>2, <1>3, <1>4
<1>7. AgreeIn(m, n, L)
  <2> SUFFICES ASSUME NEW u \in L, NEW i \in Idx
               PROVE  /\ LeadsIn(m, u, i) <=> LeadsIn(n, u, i)
                      /\ LeadsIn(m, u, i) => pte_paddr(m[u][i]) = pte_paddr(n[u][i])
    BY DEF AgreeIn, LeadsKept
  <2>1. CASE u = t /\ i = j
    <3>1. n[u][i] = e
      BY <1>6, <2>1
    <3>2. ~LeadsIn(n, u, i)
      BY <1>1, <1>5, <2>1, <3>1 DEF LeadsIn
    <3> QED
      BY <1>5, <2>1, <3>2
  <2>2. CASE ~(u = t /\ i = j)
    <3>1. n[u][i] = m[u][i]
      BY <1>6, <2>2
    <3> QED
      BY <3>1 DEF LeadsIn
  <2> QED
    BY <2>1, <2>2
<1> QED
  BY <1>1, <1>2, <1>6, <1>7 DEF j

\* Between memories m and n the block of size h around v goes from the page
\* old to the page new, and nothing else changes.
Blocks(m, n, v, h, old, new) ==
    \A w \in VAddr :
        IF SameBlock(v, w, h)
        THEN query(m, w) = old /\ query(n, w) = new
        ELSE query(n, w) = query(m, w)

\* It changes the translations of one block, to those of the entry.
LEMMA OverwriteBlock ==
    ASSUME NEW m, NEW n, NEW L, NEW v \in VAddr, NEW t, NEW h, NEW e,
           Overwrites(m, n, L, v, t, h, e)
    PROVE  Blocks(m, n, v, h, PageOf(m[t][p_index(v, h)], h), PageOf(e, h))
<1> SUFFICES ASSUME NEW w \in VAddr
             PROVE  IF SameBlock(v, w, h)
                    THEN /\ query(m, w) = PageOf(m[t][p_index(v, h)], h)
                         /\ query(n, w) = PageOf(e, h)
                    ELSE query(n, w) = query(m, w)
  BY DEF Blocks
<1>1. /\ AgreeIn(m, n, L) /\ t \in L /\ h \in H /\ p_index(v, h) \in Idx
      /\ \A u \in L, i \in Idx :
            n[u][i] = IF u = t /\ i = p_index(v, h) THEN e ELSE m[u][i]
  BY OverwriteAgrees
<1>2. TreeIn(m, L) /\ UniqueIn(m, L) /\ Ends(m, v, t, h)
  BY DEF Overwrites
<1>3. TreeIn(n, L)
  BY <1>1, <1>2, TreeAgrees
<1>5. \A u, k : Ends(m, w, u, k) <=> Ends(n, w, u, k)
  BY <1>1, <1>2, PathAgrees
<1>6. CASE SameBlock(v, w, h)
  <2>1. Path(m, w, t, h) /\ p_index(v, h) = p_index(w, h)
    BY <1>1, <1>2, <1>6, BlockSharesPath DEF SharePath, Ends
  <2>2. Ends(m, w, t, h)
    BY <1>2, <2>1 DEF Ends, Goes
  <2>3. n[t][p_index(w, h)] = e
    BY <1>1, <2>1
  <2>4. query(m, w) = PageOf(m[t][p_index(w, h)], h)
    BY <1>2, <2>2, EndEntry
  <2>5. query(n, w) = PageOf(n[t][p_index(w, h)], h)
    BY <1>3, <1>5, <2>2, EndEntry
  <2> QED
    BY <1>6, <2>1, <2>2, <2>3, <2>4, <2>5
<1>7. CASE ~SameBlock(v, w, h)
  <2>1. PICK u \in L, k \in H : Ends(m, w, u, k)
    BY <1>2, PathEnds
  <2>2. p_index(w, k) \in Idx
    BY IndexInTable
  <2>3. ~(u = t /\ p_index(w, k) = p_index(v, h))
    <3> SUFFICES ASSUME u = t, p_index(w, k) = p_index(v, h) PROVE FALSE
      OBVIOUS
    <3>1. k = h
      BY <1>2, <2>1, PathTyped DEF Ends
    <3>2. SameBlock(v, w, h)
      BY <1>1, <1>2, <2>1, <3>1, EntrySeparates DEF Separated, Ends
    <3> QED
      BY <1>7, <3>2
  <2>4. n[u][p_index(w, k)] = m[u][p_index(w, k)]
    BY <1>1, <2>2, <2>3
  <2>5. query(m, w) = PageOf(m[u][p_index(w, k)], k)
    BY <1>2, <2>1, EndEntry
  <2>6. query(n, w) = PageOf(n[u][p_index(w, k)], k)
    BY <1>3, <1>5, <2>1, EndEntry
  <2> QED
    BY <1>7, <2>4, <2>5, <2>6
<1> QED
  BY <1>6, <1>7

\* What is written to frames outside the tree changes no translation.
LEMMA TreeUntouched ==
    ASSUME NEW m, NEW n, NEW L, TreeIn(m, L), \A t \in L : n[t] = m[t]
    PROVE  /\ AgreeIn(m, n, L)
           /\ \A w \in VAddr : query(n, w) = query(m, w)
<1>1. AgreeIn(m, n, L)
  BY DEF AgreeIn, LeadsKept, LeadsIn
<1>2. ASSUME NEW w \in VAddr PROVE query(n, w) = query(m, w)
  <2>1. PICK t \in L, h \in H : Ends(m, w, t, h)
    BY PathEnds
  <2>2. Ends(n, w, t, h) /\ TreeIn(n, L)
    BY <1>1, <2>1, PathAgrees, TreeAgrees
  <2>3. query(m, w) = PageOf(m[t][p_index(w, h)], h)
    BY <2>1, EndEntry
  <2>4. query(n, w) = PageOf(n[t][p_index(w, h)], h)
    BY <2>2, EndEntry
  <2> QED
    BY <2>3, <2>4
<1> QED
  BY <1>1, <1>2

\* An unused entry translates nothing, and leads nowhere.
LEMMA ZeroEntry == ~IsTable(Zero) /\ \A h : PageOf(Zero, h) = Unmapped
BY TableEntries, PteKeeps DEF PageOf

\* The entry of t for v, unused in m, leads in n to the new table c, which is
\* all zero.
Links(m, n, L, v, t, h, c) ==
    /\ TreeIn(m, L) /\ TreeIn(n, L \cup {c})
    /\ Path(m, v, t, h) /\ h > 0
    /\ m[t][p_index(v, h)] = Zero
    /\ IsTable(n[t][p_index(v, h)]) /\ pte_paddr(n[t][p_index(v, h)]) = c
    /\ \A i \in Idx : n[c][i] = Zero
    /\ \A u \in L, i \in Idx : u # t \/ i # p_index(v, h) => n[u][i] = m[u][i]

\* Linking a table keeps every path, goes on into the table, and changes no
\* translation.
LEMMA LinkKeeps ==
    ASSUME NEW m, NEW n, NEW L, NEW v \in VAddr, NEW t, NEW h, NEW c,
           Links(m, n, L, v, t, h, c)
    PROVE  /\ Path(n, v, c, h - 1)
           /\ \A w \in VAddr : query(n, w) = query(m, w)
<1> DEFINE j == p_index(v, h)
<1>1. /\ TreeIn(m, L) /\ TreeIn(n, L \cup {c}) /\ Path(m, v, t, h) /\ h > 0
      /\ m[t][j] = Zero /\ IsTable(n[t][j]) /\ pte_paddr(n[t][j]) = c
      /\ \A i \in Idx : n[c][i] = Zero
      /\ \A u \in L, i \in Idx : u # t \/ i # j => n[u][i] = m[u][i]
  BY DEF Links
<1>2. t \in L /\ h \in H /\ height[t] = h
  BY <1>1, PathTyped
<1>3. j \in Idx
  BY <1>2, IndexInTable
<1>4. Goes(n, t, v, h) /\ Child(n, t, v, h) = c
  BY <1>1 DEF Goes, Child
<1> HIDE DEF j
<1>5. LeadsKept(m, n, L)
  <2> SUFFICES ASSUME NEW u \in L, NEW i \in Idx, LeadsIn(m, u, i)
               PROVE  LeadsIn(n, u, i) /\ pte_paddr(m[u][i]) = pte_paddr(n[u][i])
    BY DEF LeadsKept
  <2>1. u # t \/ i # j
    BY <1>1, ZeroEntry DEF LeadsIn
  <2> QED
    BY <1>1, <2>1 DEF LeadsIn
<1>6. \A w \in VAddr : \A u, k : Path(m, w, u, k) => Path(n, w, u, k)
  BY <1>1, <1>5, PathKept
<1>7. Path(n, v, c, h - 1)
  BY <1>1, <1>4, <1>6, PathDown
<1>8. ASSUME NEW w \in VAddr PROVE query(n, w) = query(m, w)
  <2>1. PICK u \in L, k \in H : Ends(m, w, u, k)
    BY <1>1, PathEnds
  <2>2. query(m, w) = PageOf(m[u][p_index(w, k)], k)
    BY <1>1, <2>1, EndEntry
  <2>3. p_index(w, k) \in Idx /\ height[u] = k
    BY <1>1, <2>1, PathTyped, IndexInTable DEF Ends
  <2>4. Path(n, w, u, k)
    BY <1>6, <2>1 DEF Ends
  <2>5. CASE u = t /\ p_index(w, k) = j
    <3>1. query(m, w) = Unmapped
      BY <1>1, <2>2, <2>5, ZeroEntry
    <3>2. k = h /\ Goes(n, u, w, k) /\ Child(n, u, w, k) = c
      BY <1>1, <1>2, <2>3, <2>5 DEF Goes, Child
    <3>3. Path(n, w, c, h - 1)
      BY <1>1, <2>4, <3>2, PathDown
    <3>4. n[c][p_index(w, h - 1)] = Zero
      <4>1. h - 1 \in H
        BY <1>1, <3>3, PathTyped
      <4> QED
        BY <1>1, <4>1, IndexInTable
    <3>5. Ends(n, w, c, h - 1)
      BY <3>3, <3>4, ZeroEntry DEF Ends, Goes
    <3>6. query(n, w) = Unmapped
      BY <1>1, <3>4, <3>5, EndEntry, ZeroEntry
    <3> QED
      BY <3>1, <3>6
  <2>6. CASE u # t \/ p_index(w, k) # j
    <3>1. n[u][p_index(w, k)] = m[u][p_index(w, k)]
      BY <1>1, <2>3, <2>6
    <3>2. Ends(n, w, u, k)
      BY <2>1, <2>4, <3>1 DEF Ends, Goes
    <3>3. query(n, w) = PageOf(n[u][p_index(w, k)], k)
      BY <1>1, <3>2, EndEntry
    <3> QED
      BY <2>2, <3>1, <3>3
  <2> QED
    BY <2>5, <2>6
<1> QED
  BY <1>7, <1>8
---------------------------------------------------------------------------
(* The descent of the operation in progress *)

\* map is on the path of its address, and remap at the end of it, with a
\* cursor open to take its flush request.  try_new has no address.
PathInv ==
    /\ call.op = "map" => Path(mem, call.vaddr, call.table, call.h)
    /\ call.op = "try_new" => call.vaddr = 0
    /\ call.pc = "SetFlags" =>
          /\ Ends(mem, call.vaddr, call.table, call.h)
          /\ flusher.kind # "Closed"

\* A write where the descent for v ends is an Overwrites of the tree.
LEMMA Written ==
    ASSUME IInv, root_paddr # NoFrame, NEW v \in VAddr, NEW t, NEW h, NEW e, NEW n,
           Ends(mem, v, t, h), h = 0 \/ ~IsTable(e),
           n = [mem EXCEPT ![t][p_index(v, h)] = e]
    PROVE  /\ Overwrites(mem, n, Linked, v, t, h, e)
           /\ Ends(n, v, t, h)
<1>1. TreeIn(mem, Linked) /\ UniqueIn(mem, Linked)
  BY LinkedTree, LinkedUnique
<1>2. \A u \in Linked : u \in DOMAIN mem /\ mem[u] \in Table
  BY DEF Linked, IInv, TypeOK
<1>3. Overwrites(mem, n, Linked, v, t, h, e)
  BY <1>1, <1>2 DEF Overwrites
<1>4. AgreeIn(mem, n, Linked)
  BY <1>3, OverwriteAgrees
<1> QED
  BY <1>1, <1>3, <1>4, PathAgrees

\* What a descent that succeeds tells remap, protect and unmap: the entry at
\* its end, and what query answers of it.
LEMMA FoundEnds ==
    ASSUME IInv, CursorIdle, NEW v \in VAddr, get_entry(mem, v).err = "Ok"
    PROVE  \E t \in Linked, h \in PageSize :
              /\ get_entry(mem, v).table = t /\ get_entry(mem, v).h = h
              /\ root_paddr # NoFrame
              /\ Ends(mem, v, t, h)
              /\ p_index(v, h) \in Idx /\ mem[t][p_index(v, h)] \in PTE
              /\ h # 0 => pte_is_huge(mem[t][p_index(v, h)])
              /\ query(mem, v) = PageOf(mem[t][p_index(v, h)], h)
<1>1. PICK t \in Linked, h \in PageSize :
         /\ get_entry(mem, v).table = t /\ get_entry(mem, v).h = h
         /\ root_paddr # NoFrame
         /\ p_index(v, h) \in Idx /\ mem[t][p_index(v, h)] \in PTE
         /\ h # 0 => pte_is_huge(mem[t][p_index(v, h)])
  BY HasCore, FoundSlot
<1>2. TreeIn(mem, Linked)
  BY <1>1, LinkedTree
<1>3. PICK u \in Linked, k \in H : Ends(mem, v, u, k)
  BY <1>2, PathEnds
<1> DEFINE e == mem[u][p_index(v, k)]
<1>4. get_entry(mem, v) = Found(e, u, k) /\ query(mem, v) = PageOf(e, k)
  BY <1>2, <1>3, EndEntry
<1>5. k = 0 \/ next_table(e).err # "Ok"
  <2>1. k \in Nat
    BY TopHeight
  <2> QED
    BY <1>3, <2>1 DEF Ends, Goes, IsTable
<1>6. get_entry(mem, v) = Slot(u, k)
  BY <1>4, <1>5 DEF Found, NoSlot
<1>7. t = u /\ h = k
  BY <1>1, <1>6 DEF Slot
<1> QED
  BY <1>1, <1>3, <1>4, <1>7

\* A descent that fails found nothing at v.
LEMMA NotFound ==
    ASSUME IInv, CursorIdle, NEW v \in VAddr, get_entry(mem, v).err # "Ok"
    PROVE  /\ get_entry(mem, v).err \in {"NotMapped", "MappedToHugePage"}
           /\ query(mem, v) = Unmapped /\ root_paddr # NoFrame
<1>1. root_paddr # NoFrame
  BY DEF CursorIdle, IInv, TreeInv, RootInv
<1>2. TreeIn(mem, Linked)
  BY <1>1, LinkedTree
<1>3. PICK u \in Linked, k \in H : Ends(mem, v, u, k)
  BY <1>2, PathEnds
<1> DEFINE e == mem[u][p_index(v, k)]
<1>4. get_entry(mem, v) = Found(e, u, k) /\ query(mem, v) = PageOf(e, k)
  BY <1>2, <1>3, EndEntry
<1>5. ~(k = 0 \/ (k < 3 /\ pte_is_huge(e)))
  BY <1>4 DEF Found, Slot
<1>6. get_entry(mem, v).err = next_table(e).err /\ query(mem, v) = Unmapped
  BY <1>4, <1>5 DEF Found, NoSlot, PageOf
<1>7. next_table(e).err \in {"Ok", "NotMapped", "MappedToHugePage"}
  BY DEF next_table
<1> QED
  BY <1>1, <1>6, <1>7
---------------------------------------------------------------------------
(* The space *)

\* The space that memory m holds, and the memory in which the remap c is done.
SpaceOf(m) == [w \in VAddr |-> IF root_paddr = NoFrame THEN Unmapped ELSE query(m, w)]

Pending(m, c) ==
    [m EXCEPT ![c.table][p_index(c.vaddr, c.h)] =
        pte_set_flags(m[c.table][p_index(c.vaddr, c.h)], c.flags, c.size # Size4K)]

\* What AddressSpace sees.
LEMMA ViewNow ==
    View = SpaceOf(IF call.pc = "SetFlags" THEN Pending(mem, call) ELSE mem)
BY DEF View, SpaceOf, Pending, SetEntry, MapEntry

\* What it sees after a step that leaves the root alone.
LEMMA ViewNext ==
    ASSUME root_paddr' = root_paddr
    PROVE  View' = SpaceOf(IF call'.pc = "SetFlags" THEN Pending(mem', call') ELSE mem')
BY DEF View, SpaceOf, Pending, SetEntry, MapEntry, query, get_entry

\* It begins with an empty space.
LEMMA SpaceInit == Init => Abs!Init
<1> SUFFICES ASSUME Init PROVE Abs!Init
  OBVIOUS
<1>1. View = [w \in VAddr |-> Unmapped]
  BY DEF View, Init
<1>2. ViewRet = NoRet
  BY DEF ViewRet, Init, NoCall
<1> QED
  BY <1>1, <1>2 DEF Abs!Init, Abs!Unmapped, Unmapped, NoRet
---------------------------------------------------------------------------
(* What each write does to the space *)

\* What the formats make of a page or of new flags, in a table of height h.
LEMMA PageWritten ==
    ASSUME NEW h \in PageSize, NEW f \in Flags
    PROVE  /\ \A p \in PAddr :
                 LET e == pte_new_page(p, f, h # Size4K)
                 IN  /\ e \in PTE /\ PageOf(e, h) = Abs!Page(p, f, h)
                     /\ h = 0 \/ ~IsTable(e)
           /\ \A d \in PTE :
                 LET e == pte_set_flags(d, f, h # Size4K)
                 IN  /\ e \in PTE /\ PageOf(e, h) = Abs!Page(pte_paddr(d), f, h)
                     /\ h = 0 \/ ~IsTable(e)
<1>0. h \in {0, 1, 2} /\ (h # Size4K) \in BOOLEAN /\ (h # Size4K <=> h # 0)
  BY DEF PageSize, Size4K, Size2M, Size1G
<1>1. ASSUME NEW p \in PAddr
      PROVE  LET e == pte_new_page(p, f, h # Size4K)
             IN  /\ e \in PTE /\ PageOf(e, h) = Abs!Page(p, f, h)
                 /\ h = 0 \/ ~IsTable(e)
  <2> DEFINE e == pte_new_page(p, f, h # Size4K)
  <2>1. e \in PTE
    BY <1>0, PteTyping
  <2>2. h # 0 => pte_is_huge(e)
    BY <1>0, PteHuge
  <2>3. /\ pte_paddr(e) = p /\ pte_flags(e) = ReadBack(f)
        /\ pte_is_present(e) <=> Accessible(f)
    BY <1>0, PteKeeps
  <2> HIDE DEF e
  <2>4. PageOf(e, h) = Abs!Page(p, f, h)
    BY <1>0, <2>2, <2>3 DEF PageOf, Abs!Page, Abs!Unmapped, Unmapped
  <2>5. h = 0 \/ ~IsTable(e)
    BY <2>1, <2>2, TableEntries
  <2> QED
    BY <2>1, <2>4, <2>5 DEF e
<1>2. ASSUME NEW d \in PTE
      PROVE  LET e == pte_set_flags(d, f, h # Size4K)
             IN  /\ e \in PTE /\ PageOf(e, h) = Abs!Page(pte_paddr(d), f, h)
                 /\ h = 0 \/ ~IsTable(e)
  <2> DEFINE e == pte_set_flags(d, f, h # Size4K)
  <2>1. e \in PTE
    BY <1>0, PteTyping
  <2>2. h # 0 => pte_is_huge(e)
    BY <1>0, PteHuge
  <2>3. /\ pte_paddr(e) = pte_paddr(d) /\ pte_flags(e) = ReadBack(f)
        /\ pte_is_present(e) <=> Accessible(f)
    BY <1>0, PteKeeps
  <2> HIDE DEF e
  <2>4. PageOf(e, h) = Abs!Page(pte_paddr(d), f, h)
    BY <1>0, <2>2, <2>3 DEF PageOf, Abs!Page, Abs!Unmapped, Unmapped
  <2>5. h = 0 \/ ~IsTable(e)
    BY <2>1, <2>2, TableEntries
  <2> QED
    BY <2>1, <2>4, <2>5 DEF e
<1> QED
  BY <1>1, <1>2

\* A page has the size of the table its entry is in.
LEMMA PageOfSize == \A e, h : PageOf(e, h) = Unmapped \/ PageOf(e, h).size = h
BY DEF PageOf

\* Written, as it shows in the space.
LEMMA WrittenBlocks ==
    ASSUME IInv, root_paddr # NoFrame, NEW v \in VAddr, NEW t, NEW h, NEW e, NEW n,
           Ends(mem, v, t, h), h = 0 \/ ~IsTable(e),
           n = [mem EXCEPT ![t][p_index(v, h)] = e]
    PROVE  Blocks(mem, n, v, h, PageOf(mem[t][p_index(v, h)], h), PageOf(e, h))
<1>1. Overwrites(mem, n, Linked, v, t, h, e)
  BY Written
<1> QED
  BY <1>1, OverwriteBlock

\* map fills a free block.
LEMMA MapPageWrites ==
    ASSUME IInv, PathInv, MapPage
    PROVE  LET p == align_down(call.target, call.size)
           IN  /\ root_paddr # NoFrame /\ call.vaddr \in VAddr /\ call.size \in PageSize
               /\ call.target \in Target /\ call.flags \in Flags
               /\ Blocks(mem, mem', call.vaddr, call.size, Unmapped,
                         Abs!Page(p, call.flags, call.size))
<1> DEFINE t == call.table
           h == call.size
           p == align_down(call.target, call.size)
           e == pte_new_page(p, call.flags, call.size # Size4K)
<1>1. /\ call.pc = "Descend" /\ call.h = h /\ call.op = "map" /\ call.target \in Target
      /\ root_paddr # NoFrame /\ call.vaddr \in VAddr /\ call.flags \in Flags
      /\ t \in Linked /\ height[t] = h /\ pte_is_unused(MapEntry)
      /\ mem' = [mem EXCEPT ![t][p_index(call.vaddr, h)] = e]
  BY DEF MapPage, SetEntry, IInv, TreeInv, CallInv
<1>2. h \in PageSize
  BY DEF IInv, TypeOK, CallOK
<1>3. MapEntry = mem[t][p_index(call.vaddr, h)] /\ MapEntry = Zero
  <2>1. mem[t][p_index(call.vaddr, h)] \in PTE
    BY <1>1, SlotTyped DEF IInv
  <2> QED
    BY <1>1, <2>1, PteUnused DEF MapEntry
<1>4. Ends(mem, call.vaddr, t, h)
  BY <1>1, <1>3, ZeroEntry DEF PathInv, Ends, Goes
<1>5. p \in PAddr
  BY <1>1, <1>2, CountAssumption
<1>6. PageOf(e, h) = Abs!Page(p, call.flags, h) /\ (h = 0 \/ ~IsTable(e))
  BY <1>1, <1>2, <1>5, PageWritten
<1> HIDE DEF t, h, p, e
<1>7. Blocks(mem, mem', call.vaddr, h, Unmapped, PageOf(e, h))
  BY <1>1, <1>3, <1>4, <1>6, WrittenBlocks, ZeroEntry
<1> QED
  BY <1>1, <1>2, <1>6, <1>7 DEF t, h, p, e

\* remap's first write and the memory its second one will make.
LEMMA RemapWrites ==
    ASSUME IInv, NEW v \in VAddr, NEW p \in Target, NEW f \in Flags, Remap(v, p, f),
           get_entry(mem, v).err = "Ok"
    PROVE  \E t \in Linked, h \in PageSize : \E old, mid :
              /\ root_paddr # NoFrame /\ root_paddr' = root_paddr /\ flusher' = flusher
              /\ call' = [NoCall EXCEPT !.pc = "SetFlags", !.op = "remap",
                            !.vaddr = v, !.flags = f, !.size = h,
                            !.table = t, !.h = h]
              /\ Ends(mem', v, t, h)
              /\ old = Unmapped \/ old.size = h
              /\ Blocks(mem, mem', v, h, old, mid)
              /\ Blocks(mem, Pending(mem', call'), v, h, old, Abs!Page(p, f, h))
<1>0. CursorIdle /\ p \in PAddr
  BY CountAssumption DEF Remap
<1>1. PICK t \in Linked, h \in PageSize :
         /\ get_entry(mem, v).table = t /\ get_entry(mem, v).h = h
         /\ root_paddr # NoFrame
         /\ Ends(mem, v, t, h)
         /\ p_index(v, h) \in Idx /\ mem[t][p_index(v, h)] \in PTE
         /\ h # 0 => pte_is_huge(mem[t][p_index(v, h)])
  BY <1>0, FoundEnds
<1> DEFINE i == p_index(v, h)
           e == mem[t][i]
           d == pte_set_paddr(e, p)
           g == pte_set_flags(d, f, h # Size4K)
           n == [mem EXCEPT ![t][i] = g]
<1>2. /\ mem' = [mem EXCEPT ![t][i] = d]
      /\ call' = [NoCall EXCEPT !.pc = "SetFlags", !.op = "remap",
                    !.vaddr = v, !.flags = f, !.size = h,
                    !.table = t, !.h = h]
      /\ UNCHANGED <<height, root_paddr, flusher>>
  BY <1>1 DEF Remap, SetEntry
<1>3. d \in PTE /\ pte_paddr(d) = p /\ (h = 0 \/ ~IsTable(d))
  BY <1>0, <1>1, PteTyping, PteHuge, PteKeeps, TableEntries
<1>4. g \in PTE /\ PageOf(g, h) = Abs!Page(p, f, h) /\ (h = 0 \/ ~IsTable(g))
  BY <1>3, PageWritten
<1>5. t \in DOMAIN mem /\ i \in DOMAIN mem[t]
  BY <1>1 DEF Linked, IInv, TypeOK, Table
<1>6. Pending(mem', call') = n
  <2>1. /\ call'.table = t /\ call'.vaddr = v /\ call'.h = h /\ call'.flags = f
        /\ call'.size = h
    BY <1>2 DEF NoCall
  <2>2. Pending(mem', call') = [mem' EXCEPT ![t][i] = pte_set_flags(mem'[t][i], f, h # Size4K)]
    BY <2>1 DEF Pending
  <2> HIDE DEF i
  <2>3. mem'[t][i] = d
    BY <1>2, <1>5
  <2> HIDE DEF d
  <2>4. [[mem EXCEPT ![t][i] = d] EXCEPT ![t][i] = g] = [mem EXCEPT ![t][i] = g]
    <3> HIDE DEF g
    <3> QED
      BY <1>5
  <2> QED
    BY <1>2, <2>2, <2>3, <2>4
<1> HIDE DEF d, g, n
<1>7. Blocks(mem, mem', v, h, PageOf(e, h), PageOf(d, h))
  BY <1>1, <1>2, <1>3, WrittenBlocks
<1>8. Blocks(mem, n, v, h, PageOf(e, h), PageOf(g, h))
  BY <1>1, <1>4, WrittenBlocks DEF n
<1>9. Ends(mem', v, t, h)
  BY <1>1, <1>2, <1>3, Written
<1>10. PageOf(e, h) = Unmapped \/ PageOf(e, h).size = h
  BY PageOfSize
<1> QED
  BY <1>1, <1>2, <1>4, <1>6, <1>7, <1>8, <1>9, <1>10

\* remap's second write changes the page to what was pending.
LEMMA RemapSetFlagsWrites ==
    ASSUME IInv, PathInv, RemapSetFlags
    PROVE  /\ root_paddr # NoFrame /\ call.vaddr \in VAddr /\ mem' = Pending(mem, call)
           /\ \E old, new : /\ old = Unmapped \/ old.size = call.h
                            /\ Blocks(mem, mem', call.vaddr, call.h, old, new)
<1> DEFINE t == call.table
           h == call.h
           i == p_index(call.vaddr, h)
           e == mem[t][i]
           g == pte_set_flags(e, call.flags, h # Size4K)
<1>1. /\ call.pc = "SetFlags" /\ call.op = "remap" /\ call.size = call.h
      /\ root_paddr # NoFrame /\ call.vaddr \in VAddr /\ call.flags \in Flags
      /\ t \in Linked /\ height[t] = h
      /\ Ends(mem, call.vaddr, t, h)
      /\ mem' = [mem EXCEPT ![t][i] = g]
  BY DEF RemapSetFlags, SetEntry, MapEntry, IInv, TreeInv, CallInv, PathInv
<1>2. h \in PageSize
  BY <1>1 DEF IInv, TypeOK, CallOK
<1>3. e \in PTE
  BY <1>1, SlotTyped DEF IInv
<1>4. h = 0 \/ ~IsTable(g)
  BY <1>1, <1>2, <1>3, PageWritten
<1>5. mem' = Pending(mem, call)
  BY <1>1 DEF Pending
<1>6. PageOf(e, h) = Unmapped \/ PageOf(e, h).size = h
  BY PageOfSize
<1> HIDE DEF t, h, g
<1>7. Blocks(mem, mem', call.vaddr, h, PageOf(e, h), PageOf(g, h))
  BY <1>1, <1>4, WrittenBlocks
<1> QED
  BY <1>1, <1>5, <1>6, <1>7 DEF h

\* protect changes the flags of the page at v.
LEMMA ProtectWrites ==
    ASSUME IInv, NEW v \in VAddr, NEW f \in Flags, Protect(v, f),
           get_entry(mem, v).err = "Ok"
    PROVE  LET s == get_entry(mem, v)
               e == mem[s.table][p_index(v, s.h)]
               old == query(mem, v)
           IN  /\ root_paddr # NoFrame
               /\ pte_is_present(e) <=> old # Unmapped
               /\ pte_is_present(e) =>
                     /\ old.size = s.h /\ old.paddr \in PAddr /\ s.h \in PageSize
                     /\ Blocks(mem, mem', v, s.h, old, Abs!Page(old.paddr, f, s.h))
                     /\ flusher' = push(flusher, v)
                     /\ ret' = Ret("protect", v, "Ok", [size |-> s.h])
                     /\ UNCHANGED <<height, root_paddr, call>>
<1>0. CursorIdle
  BY DEF Protect
<1>1. PICK t \in Linked, h \in PageSize :
         /\ get_entry(mem, v).table = t /\ get_entry(mem, v).h = h
         /\ root_paddr # NoFrame
         /\ Ends(mem, v, t, h)
         /\ p_index(v, h) \in Idx /\ mem[t][p_index(v, h)] \in PTE
         /\ h # 0 => pte_is_huge(mem[t][p_index(v, h)])
         /\ query(mem, v) = PageOf(mem[t][p_index(v, h)], h)
  BY <1>0, FoundEnds
<1> DEFINE i == p_index(v, h)
           e == mem[t][i]
           g == pte_set_flags(e, f, h # Size4K)
           old == PageOf(e, h)
<1>2. h \in {0, 1, 2}
  BY DEF PageSize, Size4K, Size2M, Size1G
<1>3. pte_is_present(e) <=> old # Unmapped
  BY <1>1, <1>2 DEF PageOf, Unmapped
<1>4. CASE pte_is_present(e)
  <2>1. /\ mem' = [mem EXCEPT ![t][i] = g]
        /\ flusher' = push(flusher, v)
        /\ ret' = Ret("protect", v, "Ok", [size |-> h])
        /\ UNCHANGED <<height, root_paddr, call>>
    BY <1>1, <1>4 DEF Protect, SetEntry
  <2>2. old.size = h /\ old.paddr = pte_paddr(e) /\ pte_paddr(e) \in PAddr
    <3>1. old = [paddr |-> pte_paddr(e), flags |-> pte_flags(e), size |-> h]
      BY <1>1, <1>2, <1>4 DEF PageOf
    <3>2. pte_paddr(e) \in PAddr
      BY <1>1, PteTyping
    <3> QED
      BY <3>1, <3>2
  <2>3. PageOf(g, h) = Abs!Page(old.paddr, f, h) /\ (h = 0 \/ ~IsTable(g))
    BY <1>1, <2>2, PageWritten
  <2> HIDE DEF g
  <2>4. Blocks(mem, mem', v, h, old, PageOf(g, h))
    BY <1>1, <2>1, <2>3, WrittenBlocks
  <2> QED
    BY <1>1, <1>3, <2>1, <2>2, <2>3, <2>4
<1>5. CASE ~pte_is_present(e)
  BY <1>1, <1>3, <1>5
<1> QED
  BY <1>4, <1>5

\* unmap clears the page at v, or an entry that showed none.
LEMMA UnmapWrites ==
    ASSUME IInv, NEW v \in VAddr, Unmap(v), get_entry(mem, v).err = "Ok"
    PROVE  LET h == get_entry(mem, v).h
               old == query(mem, v)
           IN  /\ root_paddr # NoFrame /\ UNCHANGED <<height, root_paddr, call>>
               /\ h \in PageSize
               /\ old = Unmapped \/ old.size = h
               /\ Blocks(mem, mem', v, h, old, Unmapped)
               /\ IF old # Unmapped
                  THEN flusher' = push(flusher, v) /\ ret' = Ret("unmap", v, "Ok", old)
                  ELSE flusher' = flusher /\ ret' = Ret("unmap", v, "NotMapped", Unmapped)
<1>0. CursorIdle
  BY DEF Unmap
<1>1. PICK t \in Linked, h \in PageSize :
         /\ get_entry(mem, v).table = t /\ get_entry(mem, v).h = h
         /\ root_paddr # NoFrame
         /\ Ends(mem, v, t, h)
         /\ p_index(v, h) \in Idx /\ mem[t][p_index(v, h)] \in PTE
         /\ h # 0 => pte_is_huge(mem[t][p_index(v, h)])
         /\ query(mem, v) = PageOf(mem[t][p_index(v, h)], h)
  BY <1>0, FoundEnds
<1> DEFINE i == p_index(v, h)
           e == mem[t][i]
           old == PageOf(e, h)
<1>2. h \in {0, 1, 2}
  BY DEF PageSize, Size4K, Size2M, Size1G
<1>3. (pte_is_present(e) <=> old # Unmapped) /\ (old = Unmapped \/ old.size = h)
  BY <1>1, <1>2 DEF PageOf, Unmapped
<1>4. /\ mem' = [mem EXCEPT ![t][i] = Zero]
      /\ UNCHANGED <<height, root_paddr, call>>
  BY <1>1 DEF Unmap, SetEntry
<1>5. IF pte_is_present(e)
      THEN flusher' = push(flusher, v) /\ ret' = Ret("unmap", v, "Ok", query(mem, v))
      ELSE flusher' = flusher /\ ret' = Ret("unmap", v, "NotMapped", Unmapped)
  BY <1>1 DEF Unmap
<1>6. Blocks(mem, mem', v, h, old, Unmapped)
  BY <1>1, <1>4, WrittenBlocks, ZeroEntry
<1> QED
  BY <1>1, <1>3, <1>4, <1>5, <1>6
---------------------------------------------------------------------------
(* The steps, in AddressSpace *)

\* A step of the table is one of AddressSpace, or does not show there.
Refines == Abs!Next \/ UNCHANGED <<View, ViewRet>>

\* The paths of the next state, when the root stays.
LEMMA PathNext ==
    ASSUME root_paddr' = root_paddr,
           call'.op = "map" => Path(mem', call'.vaddr, call'.table, call'.h),
           call'.op = "try_new" => call'.vaddr = 0,
           call'.pc = "SetFlags" =>
              /\ Ends(mem', call'.vaddr, call'.table, call'.h)
              /\ flusher'.kind # "Closed"
    PROVE  PathInv'
<1>1. call'.op = "map" => Path(mem, call.vaddr, call.table, call.h)'
  BY DEF Path, Down1, Down2, Down3
<1>2. call'.pc = "SetFlags" => Ends(mem, call.vaddr, call.table, call.h)'
  BY DEF Ends, Path, Down1, Down2, Down3
<1> QED
  BY <1>1, <1>2 DEF PathInv

\* An operation that returns has no path to keep.
LEMMA PathReturns == ASSUME call' = NoCall PROVE PathInv'
BY DEF PathInv, NoCall

\* Outside remap, AddressSpace sees the memory and the answer as they are.
LEMMA ViewPlain == call.pc # "SetFlags" => View = SpaceOf(mem) /\ ViewRet = ret
BY ViewNow DEF ViewRet

\* The same of the next state.
LEMMA ViewPlainNext ==
    ASSUME call'.pc # "SetFlags"
    PROVE  /\ ViewRet' = ret'
           /\ root_paddr' = root_paddr => View' = SpaceOf(mem')
           /\ root_paddr' = NoFrame => View' = [w \in VAddr |-> Unmapped]
<1>1. ViewRet' = ret'
  BY DEF ViewRet
<1>2. root_paddr' = root_paddr => View' = SpaceOf(mem')
  BY ViewNext
<1>3. root_paddr' = NoFrame => View' = [w \in VAddr |-> Unmapped]
  BY DEF View
<1> QED
  BY <1>1, <1>2, <1>3

\* A step that changes no translation.
LEMMA ViewQuiet ==
    ASSUME call.pc # "SetFlags", call'.pc # "SetFlags", root_paddr' = root_paddr,
           root_paddr # NoFrame => \A w \in VAddr : query(mem', w) = query(mem, w)
    PROVE  View' = View /\ ViewRet = ret /\ ViewRet' = ret'
<1>1. View = SpaceOf(mem) /\ ViewRet = ret
  BY ViewPlain
<1>2. View' = SpaceOf(mem') /\ ViewRet' = ret'
  BY ViewPlainNext
<1>3. SpaceOf(mem') = SpaceOf(mem)
  BY DEF SpaceOf
<1> QED
  BY <1>1, <1>2, <1>3

\* A step between operations, or with a flush request: nothing shows.
LEMMA StutterRefines ==
    ASSUME PathInv, UNCHANGED <<mem, root_paddr, call, ret>>, call.pc # "SetFlags"
    PROVE  PathInv' /\ Refines
<1>1. View' = View /\ ViewRet' = ViewRet
  BY ViewQuiet
<1>2. PathInv'
  BY PathNext DEF PathInv
<1> QED
  BY <1>1, <1>2 DEF Refines

\* An operation that begins forgets the last answer.
LEMMA BeginRefines ==
    ASSUME UNCHANGED <<mem, root_paddr>>, call.pc # "SetFlags", call'.pc # "SetFlags",
           ret' = NoRet
    PROVE  Refines
<1>1. View' = View /\ ViewRet' = NoRet
  BY ViewQuiet
<1>2. Abs!Begins
  BY <1>1 DEF Abs!Begins, Abs!Answer, Abs!Unmapped, Unmapped, NoRet
<1> QED
  BY <1>2 DEF Refines, Abs!Next

\* try_new begins without a path...
LEMMA TryNewRefines == ASSUME IInv, TryNew PROVE PathInv' /\ Refines
<1>1. /\ call.pc # "SetFlags" /\ call'.pc # "SetFlags" /\ call'.op = "try_new"
      /\ call'.vaddr = 0 /\ ret' = NoRet /\ UNCHANGED <<mem, root_paddr>>
  BY DEF TryNew, Idle, NoCall
<1>2. PathInv'
  BY <1>1, PathNext
<1> QED
  BY <1>1, <1>2, BeginRefines

\* ... and so do flush and the drop of the cursor.
LEMMA FlushRefines ==
    ASSUME IInv, NEW op \in {"flush", "drop"}, Flush(op)
    PROVE  PathInv' /\ Refines
<1>1. /\ call.pc # "SetFlags" /\ call'.pc # "SetFlags" /\ call'.op \notin {"map", "try_new"}
      /\ ret' = NoRet /\ UNCHANGED <<mem, root_paddr>>
  BY DEF Flush, CursorIdle, Idle, NoCall
<1>2. PathInv'
  BY <1>1, PathNext
<1> QED
  BY <1>1, <1>2, BeginRefines

\* map begins at the root.
LEMMA MapRefines ==
    ASSUME IInv, NEW v \in VAddr, NEW p \in Target, NEW s \in PageSize, NEW f \in Flags,
           Map(v, p, s, f)
    PROVE  PathInv' /\ Refines
<1>1. /\ call.pc # "SetFlags" /\ call'.pc # "SetFlags" /\ call'.op = "map"
      /\ call'.table = root_paddr /\ call'.h = LEVELS - 1
      /\ ret' = NoRet /\ UNCHANGED <<mem, root_paddr>>
  BY DEF Map, CursorIdle, Idle
<1>2. PathInv'
  BY <1>1, PathNext DEF Path, Top
<1> QED
  BY <1>1, <1>2, BeginRefines

\* The drop of the table leaves nothing.
LEMMA DropRefines == ASSUME IInv, Drop PROVE PathInv' /\ Refines
<1>1. call = NoCall /\ call' = NoCall /\ root_paddr' = NoFrame /\ ret' = NoRet
  BY HasCore, IdleNoNew DEF Drop
<1>2. View' = [w \in VAddr |-> Unmapped] /\ ViewRet' = NoRet
  BY <1>1, ViewPlainNext DEF NoCall
<1>3. Abs!Destroy
  BY <1>2 DEF Abs!Destroy, Abs!Answer, Abs!Put, Abs!Unmapped, Unmapped, NoRet
<1> QED
  BY <1>1, <1>3, PathReturns DEF Refines, Abs!Next

\* What is allocated and zeroed is outside the tree.
LEMMA OutsideRefines ==
    ASSUME IInv, PathInv, root_paddr' = root_paddr, ret' = ret,
           call.pc # "SetFlags", call'.pc # "SetFlags",
           call'.op = call.op, call'.vaddr = call.vaddr,
           call'.table = call.table, call'.h = call.h,
           \A t \in Linked : mem'[t] = mem[t]
    PROVE  PathInv' /\ Refines
<1>1. root_paddr # NoFrame =>
         /\ TreeIn(mem, Linked) /\ AgreeIn(mem, mem', Linked)
         /\ \A w \in VAddr : query(mem', w) = query(mem, w)
  BY LinkedTree, TreeUntouched
<1>2. View' = View /\ ViewRet' = ViewRet
  BY <1>1, ViewQuiet
<1>3. call.op = "map" => Path(mem', call.vaddr, call.table, call.h)
  <2> SUFFICES ASSUME call.op = "map" PROVE Path(mem', call.vaddr, call.table, call.h)
    OBVIOUS
  <2>1. root_paddr # NoFrame /\ call.vaddr \in VAddr
    BY DEF IInv, TreeInv, CallInv
  <2> QED
    BY <1>1, <2>1, PathAgrees DEF PathInv
<1>4. PathInv'
  BY <1>3, PathNext DEF PathInv
<1> QED
  BY <1>2, <1>4 DEF Refines

\* The frame allocated is outside the tree.
LEMMA AllocOutside ==
    ASSUME IInv, NEW f \in Frame, NEW stale \in StaleTable, AllocFrame(f, stale)
    PROVE  \A t \in Linked : mem'[t] = mem[t]
<1>1. f \notin DOMAIN mem
  <2>1. DOMAIN mem \in SUBSET Frame
    BY DEF IInv, TypeOK
  <2> QED
    BY <2>1, AllocAssumption DEF AllocFrame
<1> QED
  BY <1>1 DEF AllocFrame, Linked

\* So is the frame zeroed.
LEMMA ZeroOutside == ASSUME ZeroFrame PROVE \A t \in Linked : mem'[t] = mem[t]
BY DEF ZeroFrame, Linked

\* What a frame holds when it is allocated does not show.
LEMMA AllocFrameRefines ==
    ASSUME IInv, PathInv, NEW f \in Frame, NEW stale \in StaleTable, AllocFrame(f, stale)
    PROVE  PathInv' /\ Refines
<1>1. \A t \in Linked : mem'[t] = mem[t]
  BY AllocOutside
<1>2. /\ call.pc = "Alloc" /\ call' = [call EXCEPT !.pc = "Zero", !.new = f]
      /\ UNCHANGED <<root_paddr, ret>>
  BY DEF AllocFrame
<1>3. /\ call'.pc = "Zero" /\ call'.op = call.op /\ call'.vaddr = call.vaddr
      /\ call'.table = call.table /\ call'.h = call.h
  BY <1>2 DEF IInv, TypeOK, CallOK
<1> QED
  BY <1>1, <1>2, <1>3, OutsideRefines

\* Zeroing the frame does not show.
LEMMA ZeroFrameRefines == ASSUME IInv, PathInv, ZeroFrame PROVE PathInv' /\ Refines
<1>1. \A t \in Linked : mem'[t] = mem[t]
  BY ZeroOutside
<1>2. /\ call.pc = "Zero" /\ call' = [call EXCEPT !.pc = "Link"]
      /\ UNCHANGED <<root_paddr, ret>>
  BY DEF ZeroFrame
<1>3. /\ call'.pc = "Link" /\ call'.op = call.op /\ call'.vaddr = call.vaddr
      /\ call'.table = call.table /\ call'.h = call.h
  BY <1>2 DEF IInv, TypeOK, CallOK
<1> QED
  BY <1>1, <1>2, <1>3, OutsideRefines

\* Nothing shows when map comes to an unused entry.
LEMMA MapCreateRefines == ASSUME IInv, PathInv, MapCreate PROVE PathInv' /\ Refines
<1>1. /\ call.pc = "Descend" /\ call' = [call EXCEPT !.pc = "Alloc"]
      /\ UNCHANGED <<mem, root_paddr, ret>>
  BY DEF MapCreate
<1>2. /\ call'.pc = "Alloc" /\ call'.op = call.op /\ call'.vaddr = call.vaddr
      /\ call'.table = call.table /\ call'.h = call.h
  BY <1>1 DEF IInv, TypeOK, CallOK
<1> QED
  BY <1>1, <1>2, OutsideRefines

\* What shows at an address is in the entry where its descent ends.
LEMMA EndShows ==
    ASSUME IInv, call.pc # "SetFlags", root_paddr # NoFrame,
           NEW v \in VAddr, NEW t, NEW h, Ends(mem, v, t, h)
    PROVE  View[v] = PageOf(mem[t][p_index(v, h)], h)
<1>1. View = SpaceOf(mem)
  BY ViewPlain
<1>2. query(mem, v) = PageOf(mem[t][p_index(v, h)], h)
  BY LinkedTree, EndEntry
<1> QED
  BY <1>1, <1>2 DEF SpaceOf

\* A map that fails, on any level, changes nothing that shows.
LEMMA MapFailRefines ==
    ASSUME IInv, call.op = "map", call.pc # "SetFlags",
           NEW err \in {"NoMemory", "AlreadyMapped", "MappedToHugePage", "NotMapped"},
           Fail("map", call.vaddr, err), Abs!MapError(err, View[call.vaddr])
    PROVE  PathInv' /\ Refines
<1>1. call' = NoCall /\ call'.pc # "SetFlags" /\ UNCHANGED <<mem, root_paddr>>
      /\ ret' = Ret("map", call.vaddr, err, Unmapped)
  BY DEF Fail, NoCall
<1>2. call.vaddr \in VAddr
  BY DEF IInv, TreeInv, CallInv
<1>3. View' = View /\ ViewRet' = Ret("map", call.vaddr, err, Unmapped)
  BY <1>1, ViewQuiet
<1>4. Abs!Answer("map", call.vaddr, err, Abs!Unmapped)
  BY <1>3 DEF Abs!Answer, Abs!Unmapped, Unmapped, Ret
<1>5. Abs!MapFails(call.vaddr)
  BY <1>3, <1>4 DEF Abs!MapFails, Abs!Fails
<1>6. Abs!Map(call.vaddr)
  BY <1>3, <1>5 DEF Abs!Map, Ret
<1> QED
  BY <1>1, <1>2, <1>6, PathReturns DEF Refines, Abs!Next

\* Memory runs out: the map fails, or no table is made.
LEMMA AllocFailRefines == ASSUME IInv, PathInv, AllocFail PROVE PathInv' /\ Refines
<1>1. call.pc = "Alloc" /\ Fail(call.op, call.vaddr, "NoMemory")
  BY DEF AllocFail
<1>2. CASE call.op = "map"
  <2>1. /\ root_paddr # NoFrame /\ call.vaddr \in VAddr /\ MapEntry = Zero
        /\ Path(mem, call.vaddr, call.table, call.h)
    BY <1>1, <1>2 DEF IInv, TreeInv, CallInv, PathInv
  <2>2. Ends(mem, call.vaddr, call.table, call.h)
    BY <2>1, ZeroEntry DEF Ends, Goes, MapEntry
  <2>3. View[call.vaddr] = Unmapped
    BY <1>1, <2>1, <2>2, EndShows, ZeroEntry DEF MapEntry
  <2>4. Abs!MapError("NoMemory", View[call.vaddr])
    BY <2>3 DEF Abs!MapError, Abs!Unmapped, Unmapped
  <2> QED
    BY <1>1, <1>2, <2>4, MapFailRefines
<1>3. CASE call.op = "try_new" /\ root_paddr = NoFrame
  <2>1. /\ call' = NoCall /\ call'.pc # "SetFlags" /\ UNCHANGED <<mem, root_paddr>>
        /\ ret' = Ret("try_new", 0, "NoMemory", Unmapped)
    BY <1>1, <1>3 DEF Fail, NoCall, PathInv
  <2>2. View' = View /\ ViewRet' = Ret("try_new", 0, "NoMemory", Unmapped)
    BY <1>1, <2>1, ViewQuiet
  <2>3. View = SpaceOf(mem)
    BY <1>1, ViewPlain
  <2>4. \A v \in VAddr : View[v] = Unmapped
    BY <1>3, <2>3 DEF SpaceOf
  <2>5. Abs!Create
    BY <2>2, <2>4 DEF Abs!Create, Abs!Answer, Abs!Free, Abs!Unmapped, Unmapped, Ret
  <2> QED
    BY <2>1, <2>5, PathReturns DEF Refines, Abs!Next
<1> QED
  BY <1>1, <1>2, <1>3 DEF IInv, TreeInv, CallInv

\* A root that is all zero translates nothing.
LEMMA EmptyRoot ==
    IInv /\ root_paddr # NoFrame /\ call.pc # "SetFlags"
         /\ (\A i \in Idx : mem[root_paddr][i] = Zero)
      => View = [w \in VAddr |-> Unmapped]
<1> SUFFICES ASSUME IInv, root_paddr # NoFrame, call.pc # "SetFlags",
                    \A i \in Idx : mem[root_paddr][i] = Zero
             PROVE  View = [w \in VAddr |-> Unmapped]
  OBVIOUS
<1>1. TreeIn(mem, Linked)
  BY LinkedTree
<1>2. ASSUME NEW w \in VAddr PROVE query(mem, w) = Unmapped
  <2>1. mem[root_paddr][p_index(w, Top)] = Zero
    BY TopHeight, IndexInTable
  <2>2. Ends(mem, w, root_paddr, Top)
    BY <2>1, ZeroEntry DEF Ends, Path, Goes
  <2> QED
    BY <1>1, <2>1, <2>2, EndEntry, ZeroEntry
<1>3. View = SpaceOf(mem)
  BY ViewPlain
<1> QED
  BY <1>2, <1>3 DEF SpaceOf

\* try_new makes an empty space.
LEMMA LinkRootRefines == IInv /\ PathInv /\ LinkRoot => PathInv' /\ Refines
<1>1. ASSUME IInv, LinkRoot
      PROVE  /\ root_paddr = NoFrame /\ call.pc = "Link"
             /\ root_paddr' = call.new /\ root_paddr' # NoFrame
             /\ call' = NoCall /\ call'.pc # "SetFlags"
             /\ ret' = Ret("try_new", 0, "Ok", Unmapped)
             /\ \A i \in Idx : mem'[root_paddr'][i] = Zero
  <2>1. /\ call.pc = "Link" /\ call.op = "try_new" /\ root_paddr' = call.new /\ mem' = mem
        /\ call' = NoCall /\ ret' = Ret("try_new", 0, "Ok", Unmapped)
    BY <1>1 DEF LinkRoot
  <2>2. root_paddr = NoFrame /\ call.new \in DOMAIN mem /\ mem[call.new] = [i \in Idx |-> Zero]
    BY <1>1, <2>1 DEF IInv, TreeInv, CallInv
  <2>3. call.new # NoFrame
    BY <1>1, <2>2, AllocAssumption DEF IInv, TypeOK
  <2> QED
    BY <2>1, <2>2, <2>3 DEF NoCall
<1>2. IInv /\ LinkRoot => IInv'
  BY StepInv DEF Next, Continue, Advance
<1>3. IInv /\ LinkRoot => View' = [w \in VAddr |-> Unmapped]
  <2>1. (IInv /\ root_paddr # NoFrame /\ call.pc # "SetFlags"
           /\ (\A i \in Idx : mem[root_paddr][i] = Zero)
          => View = [w \in VAddr |-> Unmapped])'
    BY EmptyRoot, PTL
  <2> QED
    BY <1>1, <1>2, <2>1
<1> SUFFICES ASSUME IInv, LinkRoot PROVE PathInv' /\ Refines
  OBVIOUS
<1>4. View = [w \in VAddr |-> Unmapped]
  <2>1. View = SpaceOf(mem)
    BY <1>1, ViewPlain
  <2> QED
    BY <1>1, <2>1 DEF SpaceOf
<1>5. ViewRet' = Ret("try_new", 0, "Ok", Unmapped)
  BY <1>1 DEF ViewRet
<1>6. Abs!Create
  <2>1. View' = View /\ \A v \in VAddr : View[v] = Unmapped
    BY <1>3, <1>4
  <2> QED
    BY <1>5, <2>1 DEF Abs!Create, Abs!Answer, Abs!Free, Abs!Unmapped, Unmapped, Ret
<1> QED
  BY <1>1, <1>6, PathReturns DEF Refines, Abs!Next

\* The tables of the next state hang together.
LEMMA LinkedTreeNext ==
    IInv' /\ UNCHANGED <<height, root_paddr>> /\ root_paddr # NoFrame
      => TreeIn(mem', Linked')
<1>1. IInv /\ root_paddr # NoFrame => TreeIn(mem, Linked)
  BY LinkedTree
<1>2. (IInv /\ root_paddr # NoFrame => TreeIn(mem, Linked))'
  BY <1>1, PTL
<1>3. TreeIn(mem, Linked)' /\ UNCHANGED <<height, root_paddr>> => TreeIn(mem', Linked')
  BY DEF TreeIn, LeadsIn
<1> QED
  BY <1>2, <1>3

\* A new table goes into an unused entry on the path of map.
LEMMA LinkTableLinks ==
    ASSUME IInv, PathInv, LinkTable
    PROVE  /\ Links(mem, mem', Linked, call.vaddr, call.table, call.h, call.new)
           /\ root_paddr # NoFrame /\ call.vaddr \in VAddr
           /\ call.pc = "Link" /\ UNCHANGED <<height, root_paddr, flusher, ret>>
           /\ call'.pc = "Descend" /\ call'.op = "map" /\ call'.table = call.new
           /\ call'.h = call.h - 1 /\ call'.vaddr = call.vaddr
<1> DEFINE t == call.table
           i == p_index(call.vaddr, call.h)
           c == call.new
           e == pte_new_table(c)
<1>1. /\ call.pc = "Link" /\ call.op = "map"
      /\ mem' = [mem EXCEPT ![t][i] = e]
      /\ call' = [call EXCEPT !.pc = "Descend", !.table = c,
                              !.h = call.h - 1, !.new = NoFrame]
      /\ UNCHANGED <<height, root_paddr, flusher, ret>>
  BY DEF LinkTable, SetEntry
<1>2. /\ root_paddr # NoFrame /\ call.vaddr \in VAddr
      /\ t \in Linked /\ height[t] = call.h /\ call.h > call.size
      /\ mem[t][i] = Zero
      /\ c \in DOMAIN mem /\ mem[c] = [j \in Idx |-> Zero]
  BY <1>1 DEF IInv, TreeInv, CallInv, MapEntry
<1>3. /\ t \in DOMAIN mem /\ t # c /\ i \in Idx /\ c \in Frame /\ call.h > 0
  <2>1. call.size \in PageSize /\ call.h \in H
    BY <1>2 DEF IInv, TypeOK, CallOK, Linked
  <2>2. i \in Idx
    BY <1>2, <2>1, IndexInTable
  <2>3. call.h > 0
    BY <1>2, <2>1, TopHeight DEF PageSize, Size4K, Size2M, Size1G
  <2> QED
    BY <1>2, <2>2, <2>3 DEF Linked, IInv, TypeOK
<1>4. IsTable(e) /\ pte_paddr(e) = c
  BY <1>3, TableEntries
<1>5. call'.pc = "Descend" /\ call'.op = "map" /\ call'.table = c
      /\ call'.h = call.h - 1 /\ call'.vaddr = call.vaddr /\ call'.new = NoFrame
  BY <1>1 DEF IInv, TypeOK, CallOK
<1>6. Linked' = Linked \cup {c}
  <2>1. NoFrame \notin DOMAIN mem /\ DOMAIN mem' = DOMAIN mem
    BY <1>1, AllocAssumption DEF IInv, TypeOK
  <2> QED
    BY <1>2, <1>5, <2>1 DEF Linked
<1>7. TreeIn(mem', Linked \cup {c})
  <2>1. IInv'
    BY StepInv DEF Next, Continue, Advance
  <2> QED
    BY <1>1, <1>2, <1>6, <2>1, LinkedTreeNext
<1>8. \A u \in DOMAIN mem, j \in Idx :
         mem'[u][j] = IF u = t /\ j = i THEN e ELSE mem[u][j]
  <2>1. \A u \in DOMAIN mem : mem[u] \in [Idx -> PTE]
    BY DEF IInv, TypeOK, Table
  <2> HIDE DEF t, i, e
  <2> QED
    BY <1>1, <1>3, <2>1
<1>9. TreeIn(mem, Linked) /\ Path(mem, call.vaddr, t, call.h)
  BY <1>1, <1>2, LinkedTree DEF PathInv
<1> HIDE DEF t, i, c, e
<1>10. /\ mem'[t][i] = e /\ \A j \in Idx : mem'[c][j] = Zero
       /\ \A u \in Linked, j \in Idx : u # t \/ j # i => mem'[u][j] = mem[u][j]
  <2>1. Linked \subseteq DOMAIN mem
    BY DEF Linked
  <2> QED
    BY <1>2, <1>3, <1>8, <2>1
<1>11. Links(mem, mem', Linked, call.vaddr, t, call.h, c)
  BY <1>2, <1>3, <1>4, <1>7, <1>9, <1>10 DEF Links, i
<1> QED
  BY <1>1, <1>2, <1>5, <1>11 DEF t, c

\* The new table shows nothing, and the descent goes on in it.
LEMMA LinkTableRefines == ASSUME IInv, PathInv, LinkTable PROVE PathInv' /\ Refines
<1>1. /\ Links(mem, mem', Linked, call.vaddr, call.table, call.h, call.new)
      /\ root_paddr # NoFrame /\ call.vaddr \in VAddr
      /\ call.pc = "Link" /\ UNCHANGED <<height, root_paddr, flusher, ret>>
      /\ call'.pc = "Descend" /\ call'.op = "map" /\ call'.table = call.new
      /\ call'.h = call.h - 1 /\ call'.vaddr = call.vaddr
  BY LinkTableLinks
<1>2. /\ Path(mem', call.vaddr, call.new, call.h - 1)
      /\ \A w \in VAddr : query(mem', w) = query(mem, w)
  BY <1>1, LinkKeeps
<1>3. PathInv'
  BY <1>1, <1>2, PathNext
<1>4. View' = View /\ ViewRet' = ViewRet
  BY <1>1, <1>2, ViewQuiet
<1> QED
  BY <1>3, <1>4 DEF Refines

\* The descent goes on in the table its entry leads to, or fails.
LEMMA MapDescendRefines == ASSUME IInv, PathInv, MapDescend PROVE PathInv' /\ Refines
<1>1. /\ call.pc = "Descend" /\ call.op = "map" /\ call.h > call.size
      /\ root_paddr # NoFrame /\ call.vaddr \in VAddr
  BY DEF MapDescend, IInv, TreeInv, CallInv
<1>2. CASE IsTable(MapEntry)
  <2>1. /\ call' = [call EXCEPT !.table = pte_paddr(MapEntry), !.h = call.h - 1]
        /\ UNCHANGED <<mem, root_paddr, ret>>
    BY <1>2 DEF MapDescend
  <2>2. /\ call'.pc = "Descend" /\ call'.op = "map" /\ call'.vaddr = call.vaddr
        /\ call'.table = pte_paddr(MapEntry) /\ call'.h = call.h - 1
    BY <1>1, <2>1 DEF IInv, TypeOK, CallOK
  <2>3. call.h > 0
    BY <1>1 DEF IInv, TypeOK, CallOK, PageSize, Size4K, Size2M, Size1G
  <2>4. Path(mem, call.vaddr, call.table, call.h) /\ Goes(mem, call.table, call.vaddr, call.h)
        /\ Child(mem, call.table, call.vaddr, call.h) = pte_paddr(MapEntry)
    BY <1>1, <1>2, <2>3 DEF PathInv, Goes, Child, MapEntry
  <2>5. Path(mem, call.vaddr, pte_paddr(MapEntry), call.h - 1)
    BY <1>1, <2>4, LinkedTree, PathDown
  <2>6. PathInv'
    BY <2>1, <2>2, <2>5, PathNext
  <2>7. View' = View /\ ViewRet' = ViewRet
    BY <1>1, <2>1, <2>2, ViewQuiet
  <2> QED
    BY <2>6, <2>7 DEF Refines
<1>3. CASE ~IsTable(MapEntry)
  <2>1. next_table(MapEntry).err \in {"NotMapped", "MappedToHugePage"}
    BY <1>3 DEF IsTable, next_table
  <2>2. Fail("map", call.vaddr, next_table(MapEntry).err)
    BY <1>3 DEF MapDescend
  <2>3. Ends(mem, call.vaddr, call.table, call.h) /\ call.h > 0
    BY <1>1, <1>3 DEF Ends, Goes, MapEntry, PathInv, IInv, TypeOK, CallOK, PageSize, Size4K,
                      Size2M, Size1G
  <2>4. View[call.vaddr] = PageOf(MapEntry, call.h)
    BY <1>1, <2>3, EndShows DEF MapEntry
  <2>5. next_table(MapEntry).err = IF pte_paddr(MapEntry) = PA0 THEN "NotMapped"
                                   ELSE "MappedToHugePage"
    BY <1>3 DEF IsTable, next_table
  <2>6. Abs!MapError(next_table(MapEntry).err, View[call.vaddr])
    BY <2>3, <2>4, <2>5 DEF PageOf, Abs!MapError, Abs!Unmapped, Unmapped
  <2> QED
    BY <1>1, <2>1, <2>2, <2>6, MapFailRefines
<1> QED
  BY <1>2, <1>3

\* An entry in use ends the map.
LEMMA MapOccupiedRefines == ASSUME IInv, PathInv, MapOccupied PROVE PathInv' /\ Refines
<1>1. call.pc = "Descend" /\ call.op = "map" /\ Fail("map", call.vaddr, "AlreadyMapped")
  BY DEF MapOccupied, IInv, TreeInv, CallInv
<1>2. Abs!MapError("AlreadyMapped", View[call.vaddr])
  BY DEF Abs!MapError
<1> QED
  BY <1>1, <1>2, MapFailRefines

\* How a write shows in AddressSpace.
LEMMA BlockPut ==
    ASSUME root_paddr # NoFrame, NEW v \in VAddr, NEW h, NEW old, NEW new, NEW n,
           Blocks(mem, n, v, h, old, new), View = SpaceOf(mem), View' = SpaceOf(n)
    PROVE  /\ v \in Abs!Block(v, h) /\ View[v] = old /\ View'[v] = new
           /\ \A w \in Abs!Block(v, h) : w \in VAddr /\ View[w] = old
           /\ Abs!Put(Abs!Block(v, h), new)
<1>1. \A w : w \in Abs!Block(v, h) <=> w \in VAddr /\ SameBlock(v, w, h)
  BY DEF Abs!Block, SameBlock
<1>2. \A w \in VAddr : View[w] = query(mem, w) /\ View'[w] = query(n, w)
  BY DEF SpaceOf
<1>3. \A w \in VAddr : IF w \in Abs!Block(v, h)
                       THEN View[w] = old /\ View'[w] = new ELSE View'[w] = View[w]
  BY <1>1, <1>2 DEF Blocks
<1>4. v \in Abs!Block(v, h)
  BY <1>1 DEF SameBlock
<1>5. View' = [w \in VAddr |-> IF w \in Abs!Block(v, h) THEN new ELSE View[w]]
  <2>1. View' = [w \in VAddr |-> View'[w]]
    BY DEF SpaceOf
  <2> QED
    BY <1>3, <2>1
<1>6. Abs!Put(Abs!Block(v, h), new)
  BY <1>5 DEF Abs!Put
<1> QED
  BY <1>1, <1>3, <1>4, <1>6

\* A map that succeeds fills a free block.
LEMMA MapPageRefines == ASSUME IInv, PathInv, MapPage PROVE PathInv' /\ Refines
<1> DEFINE v == call.vaddr
           s == call.size
           page == Abs!Page(align_down(call.target, s), call.flags, s)
<1>1. /\ root_paddr # NoFrame /\ v \in VAddr /\ s \in PageSize
      /\ call.target \in Target /\ call.flags \in Flags
      /\ Blocks(mem, mem', v, s, Unmapped, page)
  BY MapPageWrites
<1>2. /\ call.pc = "Descend" /\ call' = NoCall /\ call'.pc # "SetFlags"
      /\ root_paddr' = root_paddr /\ ret' = Ret("map", v, "Ok", [size |-> s])
  BY DEF MapPage, NoCall
<1>3. View = SpaceOf(mem) /\ View' = SpaceOf(mem') /\ ViewRet' = ret'
  BY <1>2, ViewPlain, ViewPlainNext
<1> HIDE DEF v, s
<1>4. page \in {Abs!Page(align_down(p, s), f, s) : p \in Target, f \in Flags}
  BY <1>1
<1> HIDE DEF page
<1>5. /\ View'[v] = page /\ \A w \in Abs!Block(v, s) : View[w] = Unmapped
      /\ Abs!Put(Abs!Block(v, s), page)
  BY <1>1, <1>3, BlockPut
<1>6. Abs!MapOk(v, s)
  BY <1>2, <1>3, <1>4, <1>5
     DEF Abs!MapOk, Abs!Answer, Abs!Free, Abs!PutOneOf, Abs!Unmapped, Unmapped, Ret
<1>7. ViewRet'.op = "map" /\ ViewRet'.vaddr = v
  BY <1>2, <1>3 DEF Ret
<1>8. Abs!Next
  BY <1>1, <1>6, <1>7 DEF Abs!Next, Abs!Map
<1> QED
  BY <1>2, <1>8, PathReturns DEF Refines

\* remap, protect and unmap that find no entry fail, on a hole.
LEMMA FailRefines ==
    ASSUME IInv, CursorIdle, NEW v \in VAddr, NEW op \in {"remap", "protect", "unmap"},
           NEW err \in {"NotMapped", "MappedToHugePage"}, Fail(op, v, err),
           query(mem, v) = Unmapped, root_paddr # NoFrame
    PROVE  PathInv' /\ Refines
<1>1. /\ call.pc # "SetFlags" /\ call' = NoCall /\ call'.pc # "SetFlags"
      /\ UNCHANGED <<mem, root_paddr>> /\ ret' = Ret(op, v, err, Unmapped)
  BY DEF Fail, NoCall, CursorIdle, Idle
<1>2. View' = View /\ ViewRet' = Ret(op, v, err, Unmapped)
  BY <1>1, ViewQuiet
<1>3. View[v] = Unmapped
  <2>1. View = SpaceOf(mem)
    BY <1>1, ViewPlain
  <2> QED
    BY <2>1 DEF SpaceOf
<1>4. /\ \E er \in {"NotMapped", "MappedToHugePage"} : Abs!Answer(op, v, er, Abs!Unmapped)
      /\ UNCHANGED View /\ View[v] = Abs!Unmapped
      /\ ViewRet'.op = op /\ ViewRet'.vaddr = v
  BY <1>2, <1>3 DEF Abs!Answer, Abs!Unmapped, Unmapped, Ret
<1>5. Abs!Remap(v) \/ Abs!Protect(v) \/ Abs!Unmap(v)
  BY <1>4 DEF Abs!Remap, Abs!RemapFails, Abs!Protect, Abs!ProtectFails, Abs!Unmap,
              Abs!UnmapFails, Abs!Fails
<1>6. Abs!Next
  BY <1>5 DEF Abs!Next
<1> QED
  BY <1>1, <1>6, PathReturns DEF Refines

\* A remap shows at its first write, as what the second one will make of it.
LEMMA RemapRefines ==
    ASSUME IInv, NEW v \in VAddr, NEW p \in Target, NEW f \in Flags, Remap(v, p, f)
    PROVE  PathInv' /\ Refines
<1>0. CursorIdle /\ call.pc # "SetFlags" /\ flusher.kind # "Closed"
  BY DEF Remap, CursorIdle, Idle
<1>1. CASE get_entry(mem, v).err = "Ok"
  <2>0. PICK t \in Linked, h \in PageSize :
           \E old, mid :
              /\ root_paddr # NoFrame /\ root_paddr' = root_paddr /\ flusher' = flusher
              /\ call' = [NoCall EXCEPT !.pc = "SetFlags", !.op = "remap",
                            !.vaddr = v, !.flags = f, !.size = h,
                            !.table = t, !.h = h]
              /\ Ends(mem', v, t, h)
              /\ old = Unmapped \/ old.size = h
              /\ Blocks(mem, mem', v, h, old, mid)
              /\ Blocks(mem, Pending(mem', call'), v, h, old, Abs!Page(p, f, h))
    BY <1>1, RemapWrites
  <2>1. PICK old, mid :
           /\ root_paddr # NoFrame /\ root_paddr' = root_paddr /\ flusher' = flusher
           /\ call' = [NoCall EXCEPT !.pc = "SetFlags", !.op = "remap",
                         !.vaddr = v, !.flags = f, !.size = h,
                         !.table = t, !.h = h]
           /\ Ends(mem', v, t, h)
           /\ old = Unmapped \/ old.size = h
           /\ Blocks(mem, mem', v, h, old, mid)
           /\ Blocks(mem, Pending(mem', call'), v, h, old, Abs!Page(p, f, h))
    BY <2>0
  <2>2. /\ call'.pc = "SetFlags" /\ call'.op = "remap" /\ call'.vaddr = v
        /\ call'.table = t /\ call'.h = h /\ call'.size = h
    BY <2>1 DEF NoCall
  <2>3. PathInv'
    BY <1>0, <2>1, <2>2, PathNext
  <2>4. View = SpaceOf(mem) /\ View' = SpaceOf(Pending(mem', call'))
    BY <1>0, <2>1, <2>2, ViewPlain, ViewNext
  <2> DEFINE page == Abs!Page(p, f, h)
             B == Abs!Block(v, h)
  <2>5. /\ v \in B /\ View'[v] = page /\ Abs!Put(B, page)
        /\ \A w \in B : w \in VAddr /\ View[w] = old
    BY <2>1, <2>4, BlockPut
  <2>6. page \in {Abs!Page(q, g, h) : q \in Target, g \in Flags}
    OBVIOUS
  <2> HIDE DEF page, B
  <2>7. ViewRet' = Ret("remap", v, "Ok", [size |-> h])
    BY <2>2 DEF ViewRet
  <2>8. Abs!Free(B) \/ Abs!OnePage(B, h)
    <3>1. CASE old = Unmapped
      BY <2>5, <3>1 DEF Abs!Free, Abs!Unmapped, Unmapped
    <3>2. CASE old.size = h
      BY <2>5, <3>2 DEF Abs!OnePage
    <3> QED
      BY <2>1, <3>1, <3>2
  <2>9. Abs!RemapOk(v, h)
    BY <2>5, <2>6, <2>7, <2>8 DEF Abs!RemapOk, Abs!Answer, Abs!PutOneOf, Ret, B
  <2>10. Abs!Next
    BY <2>7, <2>9 DEF Abs!Next, Abs!Remap, Ret
  <2> QED
    BY <2>3, <2>10 DEF Refines
<1>2. CASE get_entry(mem, v).err # "Ok"
  BY <1>0, <1>2, NotFound, FailRefines DEF Remap
<1> QED
  BY <1>1, <1>2

\* Its second write shows nothing more.
LEMMA RemapSetFlagsRefines ==
    ASSUME IInv, PathInv, RemapSetFlags PROVE PathInv' /\ Refines
<1>1. mem' = Pending(mem, call)
  BY RemapSetFlagsWrites
<1>2. /\ call.pc = "SetFlags" /\ call' = NoCall /\ call'.pc # "SetFlags"
      /\ root_paddr' = root_paddr
      /\ ret' = Ret("remap", call.vaddr, "Ok", [size |-> call.size])
  BY DEF RemapSetFlags, NoCall
<1>3. View = SpaceOf(Pending(mem, call)) /\ View' = SpaceOf(mem')
  BY <1>2, ViewNow, ViewPlainNext
<1>4. ViewRet' = ViewRet
  BY <1>2 DEF ViewRet
<1> QED
  BY <1>1, <1>2, <1>3, <1>4, PathReturns DEF Refines

\* A protect changes the flags of the page it finds.
LEMMA ProtectRefines ==
    ASSUME IInv, PathInv, NEW v \in VAddr, NEW f \in Flags, Protect(v, f)
    PROVE  PathInv' /\ Refines
<1>0. CursorIdle /\ call.pc # "SetFlags" /\ call = NoCall
  BY HasCore, IdleNoNew DEF Protect, CursorIdle, Idle
<1> DEFINE s == get_entry(mem, v)
           e == mem[s.table][p_index(v, s.h)]
           old == query(mem, v)
<1>1. CASE s.err = "Ok" /\ pte_is_present(e)
  <2>1. /\ root_paddr # NoFrame /\ old # Unmapped
        /\ old.size = s.h /\ old.paddr \in PAddr /\ s.h \in PageSize
        /\ Blocks(mem, mem', v, s.h, old, Abs!Page(old.paddr, f, s.h))
        /\ ret' = Ret("protect", v, "Ok", [size |-> s.h])
        /\ UNCHANGED <<height, root_paddr, call>>
    BY <1>1, ProtectWrites
  <2>2. View = SpaceOf(mem) /\ View' = SpaceOf(mem') /\ ViewRet' = ret'
    BY <1>0, <2>1, ViewPlain, ViewPlainNext
  <2> HIDE DEF s, e, old
  <2> DEFINE h == s.h
             page == Abs!Page(old.paddr, f, h)
  <2>3. View[v] = old /\ View'[v] = page /\ Abs!Put(Abs!Block(v, h), page)
    BY <2>1, <2>2, BlockPut
  <2>4. page \in {Abs!Page(old.paddr, g, h) : g \in Flags}
    OBVIOUS
  <2> HIDE DEF page, h
  <2>5. h = old.size
    BY <2>1 DEF h
  <2>6. Abs!ProtectOk(v)
    BY <2>1, <2>2, <2>3, <2>4, <2>5
       DEF Abs!ProtectOk, Abs!Answer, Abs!PutOneOf, Abs!Unmapped, Unmapped, Ret, h
  <2>7. Abs!Next
    BY <2>1, <2>2, <2>6 DEF Abs!Next, Abs!Protect, Ret
  <2>8. PathInv'
    BY <1>0, <2>1, PathReturns
  <2> QED
    BY <2>7, <2>8 DEF Refines
<1>2. CASE s.err = "Ok" /\ ~pte_is_present(e)
  <2>1. root_paddr # NoFrame /\ old = Unmapped
    BY <1>2, ProtectWrites
  <2>2. Fail("protect", v, "NotMapped")
    BY <1>2 DEF Protect
  <2> QED
    BY <1>0, <2>1, <2>2, FailRefines
<1>3. CASE s.err # "Ok"
  <2>1. Fail("protect", v, s.err)
    BY <1>3 DEF Protect
  <2>2. s.err \in {"NotMapped", "MappedToHugePage"} /\ old = Unmapped /\ root_paddr # NoFrame
    BY <1>0, <1>3, NotFound
  <2> HIDE DEF s
  <2> QED
    BY <1>0, <2>1, <2>2, FailRefines
<1> QED
  BY <1>1, <1>2, <1>3

\* An unmap removes the page it finds; an entry that shows no page goes unseen.
LEMMA UnmapRefines ==
    ASSUME IInv, PathInv, NEW v \in VAddr, Unmap(v) PROVE PathInv' /\ Refines
<1>0. CursorIdle /\ call.pc # "SetFlags" /\ call = NoCall
  BY HasCore, IdleNoNew DEF Unmap, CursorIdle, Idle
<1> DEFINE s == get_entry(mem, v)
           h == s.h
           old == query(mem, v)
<1>1. CASE s.err = "Ok"
  <2>1. /\ root_paddr # NoFrame /\ UNCHANGED <<height, root_paddr, call>>
        /\ old = Unmapped \/ old.size = h
        /\ Blocks(mem, mem', v, h, old, Unmapped)
        /\ IF old # Unmapped
           THEN ret' = Ret("unmap", v, "Ok", old)
           ELSE ret' = Ret("unmap", v, "NotMapped", Unmapped)
    BY <1>1, UnmapWrites
  <2>2. View = SpaceOf(mem) /\ View' = SpaceOf(mem') /\ ViewRet' = ret'
    BY <1>0, <2>1, ViewPlain, ViewPlainNext
  <2> HIDE DEF s, h, old
  <2>3. /\ View[v] = old /\ Abs!Put(Abs!Block(v, h), Unmapped)
        /\ \A w \in Abs!Block(v, h) : w \in VAddr /\ View[w] = old
    BY <2>1, <2>2, BlockPut
  <2>4. PathInv'
    BY <1>0, <2>1, PathReturns
  <2>5. CASE old # Unmapped
    <3>1. h = old.size
      BY <2>1, <2>5
    <3>2. Abs!UnmapOk(v)
      BY <2>1, <2>2, <2>3, <2>5, <3>1
         DEF Abs!UnmapOk, Abs!Answer, Abs!Unmapped, Unmapped, Ret
    <3>3. Abs!Next
      BY <2>1, <2>2, <2>5, <3>2 DEF Abs!Next, Abs!Unmap, Ret
    <3> QED
      BY <2>4, <3>3 DEF Refines
  <2>6. CASE old = Unmapped
    <3>1. View' = View
      <4>1. View = [w \in VAddr |-> View[w]]
        BY <2>2 DEF SpaceOf
      <4>2. View' = [w \in VAddr |-> IF w \in Abs!Block(v, h) THEN Unmapped ELSE View[w]]
        BY <2>3 DEF Abs!Put
      <4> QED
        BY <2>3, <2>6, <4>1, <4>2
    <3>2. ViewRet' = Ret("unmap", v, "NotMapped", Unmapped)
      BY <2>1, <2>2, <2>6
    <3>3. Abs!UnmapFails(v)
      BY <2>3, <2>6, <3>1, <3>2
         DEF Abs!UnmapFails, Abs!Fails, Abs!Answer, Abs!Unmapped, Unmapped, Ret
    <3>4. Abs!Next
      BY <3>2, <3>3 DEF Abs!Next, Abs!Unmap, Ret
    <3> QED
      BY <2>4, <3>4 DEF Refines
  <2> QED
    BY <2>5, <2>6
<1>2. CASE s.err # "Ok"
  <2>1. Fail("unmap", v, s.err)
    BY <1>2 DEF Unmap
  <2>2. s.err \in {"NotMapped", "MappedToHugePage"} /\ old = Unmapped /\ root_paddr # NoFrame
    BY <1>0, <1>2, NotFound
  <2> HIDE DEF s
  <2> QED
    BY <1>0, <2>1, <2>2, FailRefines
<1> QED
  BY <1>1, <1>2

\* The end of a flush shows nothing.
LEMMA FlushDoneRefines == ASSUME FlushDone PROVE PathInv' /\ Refines
<1>1. /\ call.pc = "Flush" /\ call' = NoCall /\ call'.pc # "SetFlags"
      /\ UNCHANGED <<mem, root_paddr, ret>>
  BY DEF FlushDone, NoCall
<1>2. View' = View /\ ViewRet' = ViewRet
  BY <1>1, ViewQuiet
<1> QED
  BY <1>1, <1>2, PathReturns DEF Refines
---------------------------------------------------------------------------
(* The refinement *)

\* At first no operation has a path to keep.
LEMMA InitPath == Init => PathInv
BY DEF Init, PathInv, NoCall

\* Every step keeps the paths, and is a step of AddressSpace or none: one case
\* per action.
LEMMA StepRefines == IInv /\ PathInv /\ [Next]_vars => PathInv' /\ Refines
<1> SUFFICES ASSUME IInv, PathInv, [Next]_vars PROVE PathInv' /\ Refines
  OBVIOUS
<1>1. CASE Begin
  <2>1. CASE TryNew
    BY <2>1, TryNewRefines
  <2>2. CASE OpenCursor
    BY <2>2, StutterRefines DEF OpenCursor, Idle
  <2>3. ASSUME NEW v \in VAddr, NEW p \in Target, NEW s \in PageSize,
               NEW f \in Flags, Map(v, p, s, f)
        PROVE  PathInv' /\ Refines
    BY <2>3, MapRefines
  <2>4. ASSUME NEW v \in VAddr, NEW p \in Target, NEW f \in Flags, Remap(v, p, f)
        PROVE  PathInv' /\ Refines
    BY <2>4, RemapRefines
  <2>5. ASSUME NEW v \in VAddr, NEW f \in Flags, Protect(v, f)
        PROVE  PathInv' /\ Refines
    BY <2>5, ProtectRefines
  <2>6. ASSUME NEW v \in VAddr, Unmap(v)
        PROVE  PathInv' /\ Refines
    BY <2>6, UnmapRefines
  <2>7. ASSUME NEW op \in {"flush", "drop"}, Flush(op)
        PROVE  PathInv' /\ Refines
    BY <2>7, FlushRefines
  <2>8. CASE Drop
    BY <2>8, DropRefines
  <2> QED
    BY <1>1, <2>1, <2>2, <2>3, <2>4, <2>5, <2>6, <2>7, <2>8 DEF Begin
<1>2. CASE Continue
  <2>1. ASSUME NEW f \in Frame, NEW stale \in StaleTable, AllocFrame(f, stale)
        PROVE  PathInv' /\ Refines
    BY <2>1, AllocFrameRefines
  <2>2. CASE AllocFail
    BY <2>2, AllocFailRefines
  <2>3. CASE ZeroFrame
    BY <2>3, ZeroFrameRefines
  <2>4. CASE LinkRoot
    BY <2>4, LinkRootRefines
  <2>5. CASE LinkTable
    BY <2>5, LinkTableRefines
  <2>6. CASE MapCreate
    BY <2>6, MapCreateRefines
  <2>7. CASE MapDescend
    BY <2>7, MapDescendRefines
  <2>8. CASE MapPage
    BY <2>8, MapPageRefines
  <2>9. CASE MapOccupied
    BY <2>9, MapOccupiedRefines
  <2>10. CASE RemapSetFlags
    BY <2>10, RemapSetFlagsRefines
  <2>11. ASSUME NEW v \in VAddr, FlushEntry(v)
         PROVE  PathInv' /\ Refines
    BY <2>11, StutterRefines DEF FlushEntry
  <2>12. CASE FlushAll
    BY <2>12, StutterRefines DEF FlushAll
  <2>13. CASE FlushDone
    BY <2>13, FlushDoneRefines
  <2> QED
    BY <1>2, <2>1, <2>2, <2>3, <2>4, <2>5, <2>6, <2>7, <2>8, <2>9, <2>10,
       <2>11, <2>12, <2>13 DEF Continue, Advance
<1>3. CASE UNCHANGED vars
  <2>1. PathInv'
    BY <1>3 DEF vars, PathInv, Ends, Path, Down1, Down2, Down3
  <2>2. View' = View /\ ViewRet' = ViewRet
    BY <1>3 DEF vars, View, ViewRet, SetEntry, MapEntry, query, get_entry
  <2> QED
    BY <2>1, <2>2 DEF Refines
<1> QED
  BY <1>1, <1>2, <1>3 DEF Next

\* The paths and the tree hold together of every behaviour.
THEOREM PathInvariance == Spec => [](IInv /\ PathInv)
<1>1. Init => IInv /\ PathInv
  BY InitInv, InitPath
<1>2. (IInv /\ PathInv) /\ [Next]_vars => (IInv /\ PathInv)'
  BY StepInv, StepRefines
<1> QED
  BY <1>1, <1>2, PTL DEF Spec

\* The tables implement AddressSpace (View, ViewRet): what an operation does to
\* the translations is one step of the abstract specification, whatever tables
\* it allocates, links and walks on the way and wherever an allocation fails;
\* the writes of a remap show at once.
THEOREM Refinement == Spec => ImplementsAddressSpace
<1>1. Init => Abs!Init
  BY SpaceInit
<1>2. (IInv /\ PathInv) /\ [Next]_vars => [Abs!Next]_(Abs!avars)
  <2>1. UNCHANGED <<View, ViewRet>> => UNCHANGED Abs!avars
    BY DEF Abs!avars
  <2> QED
    BY <2>1, StepRefines DEF Refines
<1> QED
  BY <1>1, <1>2, PathInvariance, PTL DEF Spec, ImplementsAddressSpace, Abs!Spec
---------------------------------------------------------------------------
(* Induction, and sequences joined one after the other *)

\* A number that no other is below in the order R of the natural numbers.
LEMMA LeastIn ==
    ASSUME NEW R, \A x, y \in Nat : <<x, y>> \in R <=> x < y,
           NEW S \in SUBSET Nat, NEW n \in S, \A m \in S : ~ (<<m, n>> \in R)
    PROVE  \A m \in S : n <= m
<1> TAKE m \in S
<1>1. m \in Nat /\ n \in Nat
  OBVIOUS
<1>2. ~ (m < n)
  BY <1>1, Zenon
<1> QED
  BY <1>1, <1>2

\* A set of natural numbers has a least one.
LEMMA Least ==
    ASSUME NEW S \in SUBSET Nat, S # {}
    PROVE  \E n \in S : \A m \in S : n <= m
<1>1. PICK n \in S : \A m \in S : ~ (<<m, n>> \in OpToRel(<, Nat))
  BY WFMin, NatLessThanWellFounded, Zenon
<1>2. \A x, y \in Nat : <<x, y>> \in OpToRel(<, Nat) <=> x < y
  BY Zenon DEF OpToRel
<1>3. \A m \in S : n <= m
  BY <1>1, <1>2, LeastIn, Zenon
<1> QED
  BY <1>3

\* Induction over the natural numbers.
LEMMA Induction ==
    ASSUME NEW S, 0 \in S, \A n \in Nat : n \in S => n + 1 \in S
    PROVE  Nat \subseteq S
<1> SUFFICES ASSUME Nat \ S # {} PROVE FALSE
  OBVIOUS
<1>1. PICK n \in Nat \ S : \A m \in Nat \ S : n <= m
  BY Least
<1>2. n # 0 /\ n - 1 \in Nat /\ n = (n - 1) + 1
  BY <1>1
<1>3. n - 1 \in S
  BY <1>1, <1>2
<1> QED
  BY <1>1, <1>2, <1>3

\* The sequences of s up to n joined, one after the other.
Joins(f, s, n) == f = [i \in 1 .. n |-> IF i = 1 THEN s[i] ELSE f[i - 1] \o s[i]]

\* There is such a function: FlattenSeq's definition by recursion has a value.
LEMMA JoinsExist ==
    ASSUME NEW s, NEW n \in Nat
    PROVE  \E f : Joins(f, s, n)
<1> DEFINE S == {k \in Nat : \E f : Joins(f, s, k)}
<1>1. 0 \in S
  <2> DEFINE f == [i \in 1 .. 0 |-> s[i]]
  <2>1. Joins(f, s, 0)
    BY DEF Joins
  <2> QED
    BY <2>1
<1>2. ASSUME NEW k \in Nat, k \in S PROVE k + 1 \in S
  <2>1. PICK g : Joins(g, s, k)
    BY <1>2
  <2> DEFINE f == [i \in 1 .. k + 1 |-> IF i = 1 THEN s[i] ELSE g[i - 1] \o s[i]]
  <2>a. \A i \in 1 .. k : g[i] = IF i = 1 THEN s[i] ELSE g[i - 1] \o s[i]
    BY <2>1, Zenon DEF Joins
  <2>b. \A i \in 1 .. k : i \in 1 .. k + 1
    OBVIOUS
  <2>2. \A i \in 1 .. k : f[i] = g[i]
    BY <2>a, <2>b, Zenon
  <2>3. \A i \in 1 .. k + 1 : i # 1 => i - 1 \in 1 .. k
    OBVIOUS
  <2>4. f = [i \in 1 .. k + 1 |-> IF i = 1 THEN s[i] ELSE f[i - 1] \o s[i]]
    BY <2>2, <2>3
  <2>5. Joins(f, s, k + 1)
    BY <2>4 DEF Joins
  <2> QED
    BY <2>5
<1> HIDE DEF S
<1>3. Nat \subseteq S
  BY <1>1, <1>2, Induction
<1> QED
  BY <1>3 DEF S

\* FlattenSeq joins them all.
LEMMA Flattened ==
    ASSUME NEW s, NEW n \in Nat \ {0}, Len(s) = n
    PROVE  \E f : Joins(f, s, n) /\ FlattenSeq(s) = f[n]
<1> DEFINE F == CHOOSE f : Joins(f, s, n)
<1>1. Joins(F, s, n)
  BY JoinsExist
<1>2. FlattenSeq(s) = (CHOOSE f : f = [i \in 1 .. Len(s) |-> IF i = 1 THEN s[i] ELSE f[i - 1] \o s[i]])[Len(s)]
  BY DEF FlattenSeq
<1>3. FlattenSeq(s) = F[n]
  BY <1>2 DEF Joins
<1> QED
  BY <1>1, <1>3
---------------------------------------------------------------------------
(* The calls of walk and the pages they are for *)

\* What pre_func and post_func are called with.
Call ==
    [func : {"pre", "post"}, level : Int, index : Idx, vaddr : Nat, entry : PTE]

\* The calls c of func on pages are those on the pages of Q, in the order of
\* their addresses, from lo to hi.
Shows(c, func, lo, hi, Q) ==
    /\ c \in Seq(Call)
    /\ \A n \in 1 .. Len(c) :
          OnPage(c[n], func) => /\ PageCalled(c[n]) \in Q
                                /\ lo <= c[n].vaddr /\ c[n].vaddr < hi
    /\ \A q \in Q : \E n \in 1 .. Len(c) : OnPage(c[n], func) /\ PageCalled(c[n]) = q
    /\ \A m, n \in 1 .. Len(c) :
          m < n /\ OnPage(c[m], func) /\ OnPage(c[n], func) => c[m].vaddr < c[n].vaddr

\* No calls show no pages.
LEMMA ShowsNone ==
    ASSUME NEW func, NEW lo, NEW hi
    PROVE  Shows(<<>>, func, lo, hi, {})
<1>1. <<>> \in Seq(Call) /\ Len(<<>>) = 0
  OBVIOUS
<1>2. 1 .. Len(<<>>) = {}
  BY <1>1
<1> QED
  BY <1>1, <1>2, Zenon DEF Shows

\* A call that is not one on a page, or not one of func, shows none.
LEMMA ShowsTable ==
    ASSUME NEW func, NEW lo, NEW hi, NEW c \in Call, ~OnPage(c, func)
    PROVE  Shows(<<c>>, func, lo, hi, {})
<1>1. <<c>> \in Seq(Call) /\ Len(<<c>>) = 1 /\ <<c>>[1] = c
  OBVIOUS
<1>2. \A n \in 1 .. Len(<<c>>) : <<c>>[n] = c
  BY <1>1
<1> QED
  BY <1>1, <1>2, Zenon DEF Shows

\* A call on a page shows it.
LEMMA ShowsPage ==
    ASSUME NEW func, NEW lo \in Nat, NEW hi \in Nat, NEW c \in Call, OnPage(c, func),
           lo <= c.vaddr, c.vaddr < hi
    PROVE  Shows(<<c>>, func, lo, hi, {PageCalled(c)})
<1>1. <<c>> \in Seq(Call) /\ Len(<<c>>) = 1 /\ <<c>>[1] = c
  OBVIOUS
<1>2. \A n \in 1 .. Len(<<c>>) : <<c>>[n] = c /\ n = 1
  BY <1>1
<1>3. 1 \in 1 .. Len(<<c>>)
  BY <1>1
<1>4. ~(1 < 1)
  OBVIOUS
<1> QED
  BY <1>1, <1>2, <1>3, <1>4, Zenon DEF Shows

\* The calls for one range after those for the range before it.
LEMMA ShowsBoth ==
    ASSUME NEW func, NEW lo \in Nat, NEW mid \in Nat, NEW hi \in Nat, lo <= mid, mid <= hi,
           NEW Q, NEW R, NEW c, NEW d,
           Shows(c, func, lo, mid, Q), Shows(d, func, mid, hi, R)
    PROVE  Shows(c \o d, func, lo, hi, Q \cup R)
<1> DEFINE k == Len(c)
           l == Len(d)
           s == c \o d
           On(n) == OnPage(s[n], func)
<1>1. c \in Seq(Call) /\ d \in Seq(Call)
  BY DEF Shows
<1>2. k \in Nat /\ l \in Nat /\ s \in Seq(Call) /\ Len(s) = k + l
  BY <1>1
<1>3. \A n \in 1 .. k : s[n] = c[n] /\ n \in 1 .. k + l
  BY <1>1
<1>4. \A n \in 1 .. l : s[k + n] = d[n] /\ k + n \in 1 .. k + l
  BY <1>1
<1>5. \A n \in 1 .. k : /\ c[n].vaddr \in Nat
                        /\ On(n) => PageCalled(s[n]) \in Q
                                    /\ lo <= s[n].vaddr /\ s[n].vaddr < mid
  <2> TAKE n \in 1 .. k
  <2>1. c[n] \in Call
    BY <1>1
  <2>2. c[n].vaddr \in Nat
    BY <2>1 DEF Call
  <2>3. s[n] = c[n]
    BY <1>3
  <2> QED
    BY <2>2, <2>3 DEF Shows
<1>6. \A n \in 1 .. l : /\ d[n].vaddr \in Nat
                        /\ On(k + n) => PageCalled(s[k + n]) \in R
                                        /\ mid <= s[k + n].vaddr /\ s[k + n].vaddr < hi
  <2> TAKE n \in 1 .. l
  <2>1. d[n] \in Call
    BY <1>1
  <2>2. d[n].vaddr \in Nat
    BY <2>1 DEF Call
  <2>3. s[k + n] = d[n]
    BY <1>4
  <2> QED
    BY <2>2, <2>3 DEF Shows
<1>7. \A q \in Q : \E n \in 1 .. k : On(n) /\ PageCalled(s[n]) = q
  <2> TAKE q \in Q
  <2>1. PICK n \in 1 .. k : OnPage(c[n], func) /\ PageCalled(c[n]) = q
    BY Zenon DEF Shows
  <2>2. s[n] = c[n]
    BY <1>3
  <2> QED
    BY <2>1, <2>2
<1>8. \A q \in R : \E n \in 1 .. l : On(k + n) /\ PageCalled(s[k + n]) = q
  <2> TAKE q \in R
  <2>1. PICK n \in 1 .. l : OnPage(d[n], func) /\ PageCalled(d[n]) = q
    BY Zenon DEF Shows
  <2>2. s[k + n] = d[n]
    BY <1>4
  <2> QED
    BY <2>1, <2>2
<1>9. \A m, n \in 1 .. k : m < n /\ On(m) /\ On(n) => s[m].vaddr < s[n].vaddr
  <2> TAKE m, n \in 1 .. k
  <2>1. s[m] = c[m] /\ s[n] = c[n]
    BY <1>3
  <2> QED
    BY <2>1, Zenon DEF Shows
<1>10. \A m, n \in 1 .. l : m < n /\ On(k + m) /\ On(k + n) => s[k + m].vaddr < s[k + n].vaddr
  <2> TAKE m, n \in 1 .. l
  <2>1. s[k + m] = d[m] /\ s[k + n] = d[n]
    BY <1>4
  <2> QED
    BY <2>1, Zenon DEF Shows
<1>11. \A n \in 1 .. k + l : n \in 1 .. k \/ (n - k \in 1 .. l /\ k + (n - k) = n)
  BY <1>2
<1>12. \A n \in 1 .. k : s[n].vaddr \in Nat
  BY <1>3, <1>5
<1>13. \A n \in 1 .. l : s[k + n].vaddr \in Nat
  BY <1>4, <1>6
<1> HIDE DEF k, l, s, On
<1>14. \A n \in 1 .. k + l : On(n) => PageCalled(s[n]) \in Q \cup R
                                       /\ lo <= s[n].vaddr /\ s[n].vaddr < hi
  <2> SUFFICES ASSUME NEW n \in 1 .. k + l, On(n)
               PROVE  PageCalled(s[n]) \in Q \cup R /\ lo <= s[n].vaddr /\ s[n].vaddr < hi
    OBVIOUS
  <2>1. CASE n \in 1 .. k
    BY <2>1, <1>5, <1>12
  <2>2. CASE n - k \in 1 .. l /\ k + (n - k) = n
    <3> DEFINE j == n - k
    <3>1. j \in 1 .. l /\ k + j = n
      BY <2>2
    <3> HIDE DEF j
    <3>2. PageCalled(s[k + j]) \in R /\ mid <= s[k + j].vaddr /\ s[k + j].vaddr < hi
      BY <1>6, <3>1
    <3>3. s[k + j].vaddr \in Nat
      BY <1>13, <3>1
    <3>4. lo <= s[k + j].vaddr
      BY <3>2, <3>3
    <3> QED
      BY <3>1, <3>2, <3>4, Zenon
  <2> QED
    BY <1>11, <2>1, <2>2
<1>15. \A q \in Q \cup R : \E n \in 1 .. k + l : On(n) /\ PageCalled(s[n]) = q
  BY <1>3, <1>4, <1>7, <1>8, Zenon
<1>16. \A m, n \in 1 .. k + l : m < n /\ On(m) /\ On(n) => s[m].vaddr < s[n].vaddr
  <2> SUFFICES ASSUME NEW m \in 1 .. k + l, NEW n \in 1 .. k + l, m < n, On(m), On(n)
               PROVE  s[m].vaddr < s[n].vaddr
    OBVIOUS
  <2>1. CASE n \in 1 .. k
    <3>1. m \in 1 .. k
      BY <1>2, <2>1
    <3> QED
      BY <1>9, <2>1, <3>1
  <2>2. CASE m \in 1 .. k /\ n - k \in 1 .. l
    <3> DEFINE j == n - k
    <3>1. j \in 1 .. l /\ k + j = n
      BY <1>2, <2>2
    <3> HIDE DEF j
    <3>2. mid <= s[k + j].vaddr /\ s[k + j].vaddr \in Nat
      BY <1>6, <1>13, <3>1
    <3>3. s[m].vaddr < mid /\ s[m].vaddr \in Nat
      BY <1>5, <1>12, <2>2
    <3>4. s[m].vaddr < s[k + j].vaddr
      BY <3>2, <3>3
    <3> QED
      BY <3>1, <3>4, Zenon
  <2>3. CASE m - k \in 1 .. l /\ n - k \in 1 .. l
    <3> DEFINE i == m - k
               j == n - k
    <3>1. i \in 1 .. l /\ k + i = m /\ j \in 1 .. l /\ k + j = n /\ i < j
      BY <1>2, <2>3
    <3> HIDE DEF i, j
    <3> QED
      BY <1>10, <3>1, Zenon
  <2> QED
    BY <1>11, <2>1, <2>2, <2>3
<1> QED
  BY <1>2, <1>14, <1>15, <1>16, Zenon DEF Shows, s, On

\* Calls for a range are calls for a wider one.
LEMMA ShowsWider ==
    ASSUME NEW func, NEW lo \in Nat, NEW hi \in Nat, NEW l \in Nat, NEW u \in Nat,
           l <= lo, hi <= u, NEW Q, NEW c, Shows(c, func, lo, hi, Q)
    PROVE  Shows(c, func, l, u, Q)
<1>1. c \in Seq(Call)
  BY DEF Shows
<1>2. \A n \in 1 .. Len(c) : c[n].vaddr \in Nat
  <2> TAKE n \in 1 .. Len(c)
  <2>1. c[n] \in Call
    BY <1>1
  <2> QED
    BY <2>1 DEF Call
<1>3. \A n \in 1 .. Len(c) : OnPage(c[n], func) => l <= c[n].vaddr /\ c[n].vaddr < u
  <2> SUFFICES ASSUME NEW n \in 1 .. Len(c), OnPage(c[n], func)
               PROVE  l <= c[n].vaddr /\ c[n].vaddr < u
    OBVIOUS
  <2>1. lo <= c[n].vaddr /\ c[n].vaddr < hi
    BY Zenon DEF Shows
  <2> QED
    BY <1>2, <2>1
<1> QED
  BY <1>3, Zenon DEF Shows
---------------------------------------------------------------------------
(* What query answers, table by table *)

\* What query answers from a table of height h on.
PageFrom(t, h, v) ==
    LET s == From(mem, t, v, h)
        e == mem[s.table][p_index(v, s.h)]
    IN  IF s.err # "Ok" THEN Unmapped
        ELSE IF ~pte_is_present(e) THEN Unmapped
        ELSE [paddr |-> pte_paddr(e), flags |-> pte_flags(e), size |-> s.h]

\* It is what query answers at the root.
LEMMA PageFromRoot == \A v : query(mem, v) = PageFrom(root_paddr, Top, v)
<1> TAKE v
<1>1. Path(mem, v, root_paddr, Top) /\ Top >= 0
  BY TopHeight DEF Path
<1>2. get_entry(mem, v) = From(mem, root_paddr, v, Top)
  BY <1>1, FromPath
<1> QED
  BY <1>2, Zenon DEF query, PageFrom

\* It is found in the table that the entry leads to, ...
LEMMA PageFromDown ==
    ASSUME NEW t, NEW v, NEW h \in 0 .. 3, Goes(mem, t, v, h)
    PROVE  PageFrom(t, h, v) = PageFrom(Child(mem, t, v, h), h - 1, v)
<1>1. From(mem, t, v, h) = From(mem, Child(mem, t, v, h), v, h - 1)
  BY FromDown
<1> QED
  BY <1>1, Zenon DEF PageFrom

\* ... or is the entry.
LEMMA PageFromEnd ==
    ASSUME NEW t, NEW v, NEW h \in 0 .. 3, ~Goes(mem, t, v, h)
    PROVE  PageFrom(t, h, v) = PageOf(mem[t][p_index(v, h)], h)
<1> DEFINE e == mem[t][p_index(v, h)]
<1>2. From(mem, t, v, h) = Found(e, t, h)
  BY FromEnd
<1>3. h > 0 => next_table(e).err # "Ok"
  BY DEF Goes, IsTable
<1>4. CASE h = 0 \/ (h < 3 /\ pte_is_huge(e))
  <2>1. From(mem, t, v, h) = Slot(t, h)
    BY <1>2, <1>4 DEF Found
  <2> QED
    BY <1>4, <2>1 DEF PageFrom, PageOf, Slot
<1>5. CASE ~(h = 0 \/ (h < 3 /\ pte_is_huge(e)))
  <2>1. From(mem, t, v, h) = NoSlot(next_table(e).err)
    BY <1>2, <1>5 DEF Found
  <2>2. From(mem, t, v, h).err # "Ok"
    BY <1>3, <1>5, <2>1 DEF NoSlot
  <2> QED
    BY <1>5, <2>2 DEF PageFrom, PageOf
<1> QED
  BY <1>4, <1>5

\* The 4K pages from lo to hi that table t of height h translates.
MappedIn(t, h, lo, hi) ==
    {v \in Nat : v % PAGE_SIZE_4K = 0 /\ lo <= v /\ v < hi /\ PageFrom(t, h, v) # Unmapped}

PagesIn(t, h, lo, hi) == {PageAround(v, PageFrom(t, h, v)) : v \in MappedIn(t, h, lo, hi)}

\* The pages of a range are those of its parts.
LEMMA PagesJoin ==
    ASSUME NEW t, NEW h, NEW lo \in Nat, NEW mid \in Nat, NEW hi \in Nat,
           lo <= mid, mid <= hi
    PROVE  PagesIn(t, h, lo, hi) = PagesIn(t, h, lo, mid) \cup PagesIn(t, h, mid, hi)
<1>1. \A v \in Nat : lo <= v /\ v < hi <=> (lo <= v /\ v < mid) \/ (mid <= v /\ v < hi)
  OBVIOUS
<1>2. MappedIn(t, h, lo, hi) = MappedIn(t, h, lo, mid) \cup MappedIn(t, h, mid, hi)
  BY <1>1, Zenon DEF MappedIn
<1> QED
  BY <1>2, Zenon DEF PagesIn

\* An empty range has none.
LEMMA PagesNone == ASSUME NEW t, NEW h, NEW lo \in Nat PROVE PagesIn(t, h, lo, lo) = {}
<1>1. \A v \in Nat : ~(lo <= v /\ v < lo)
  OBVIOUS
<1>2. MappedIn(t, h, lo, lo) = {}
  BY <1>1, Zenon DEF MappedIn
<1> QED
  BY <1>2, Zenon DEF PagesIn

\* Where the q-th table of height h begins, and its entry i.
TableStart(h, q) == PageBytes(h) * ENTRY_COUNT * q
EntryStart(h, q, i) == PageBytes(h) * (ENTRY_COUNT * q + i)

\* The numbers of these.
LEMMA Starts ==
    ASSUME NEW h \in 0 .. 3, NEW q \in Nat, NEW i \in Nat
    PROVE  /\ TableStart(h, q) \in Nat /\ EntryStart(h, q, i) \in Nat
           /\ EntryStart(h, q, 0) = TableStart(h, q)
           /\ EntryStart(h, q, i) = TableStart(h, q) + i * PageBytes(h)
           /\ EntryStart(h, q, i + 1) = EntryStart(h, q, i) + PageBytes(h)
           /\ EntryStart(h, q, ENTRY_COUNT) = TableStart(h, q) + PageBytes(h) * ENTRY_COUNT
           /\ h > 0 => EntryStart(h, q, i) = TableStart(h - 1, ENTRY_COUNT * q + i)
           /\ h > 0 => PageBytes(h) = PageBytes(h - 1) * ENTRY_COUNT
<1> DEFINE b == PageBytes(h)
           n == ENTRY_COUNT
           x == n * q
<1>1. b \in Nat /\ n \in Nat
  BY PageBytesPositive, CountAssumption
<1>3. h > 0 => b = PageBytes(h - 1) * n
  <2> SUFFICES ASSUME h > 0 PROVE b = PageBytes(h - 1) * n
    OBVIOUS
  <2>1. h - 1 \in 0 .. 2 /\ (h - 1) + 1 = h
    OBVIOUS
  <2> QED
    BY <2>1, PageBytesNext
<1> HIDE DEF b, n
<1>2. x \in Nat /\ b * x = b * n * q
  BY <1>1
<1> HIDE DEF x
<1>4. b * (x + i) = b * x + i * b
  BY <1>1, <1>2
<1>5. b * (x + 0) = b * x
  BY <1>1, <1>2
<1>6. b * (x + (i + 1)) = b * (x + i) + b
  BY <1>1, <1>2
<1>7. b * (x + n) = b * x + b * n
  BY <1>1, <1>2
<1>8. b * x \in Nat /\ b * (x + i) \in Nat
  BY <1>1, <1>2
<1> QED
  BY <1>1, <1>2, <1>3, <1>4, <1>5, <1>6, <1>7, <1>8, Zenon DEF TableStart, EntryStart, b, n, x

\* Every page is a whole number of 4K pages.
LEMMA PagesOf4K ==
    \A h \in 0 .. 3 : \E k \in Nat \ {0} : PageBytes(h) = PAGE_SIZE_4K * k
<1> DEFINE p == PAGE_SIZE_4K
           n == ENTRY_COUNT
<1>0. p \in Nat \ {0} /\ n \in Nat \ {0}
  BY CountAssumption
<1> HIDE DEF p, n
<1>1. /\ 1 \in Nat \ {0} /\ p = p * 1
      /\ n * n \in Nat \ {0} /\ p * n * n = p * (n * n)
  BY <1>0
<1>2. n * n * n \in Nat \ {0} /\ p * n * n * n = p * (n * n * n)
  <2> DEFINE m == n * n
  <2>1. m \in Nat \ {0}
    BY <1>1
  <2> HIDE DEF m
  <2>2. m * n \in Nat \ {0} /\ p * m * n = p * (m * n)
    BY <1>0, <2>1
  <2> QED
    BY <1>1, <2>2 DEF m
<1>3. PageBytes(0) = p /\ PageBytes(1) = p * n /\ PageBytes(2) = p * n * n /\ PageBytes(3) = p * n * n * n
  BY DEF PageBytes, p, n
<1>4. \A h \in 0 .. 3 : h = 0 \/ h = 1 \/ h = 2 \/ h = 3
  OBVIOUS
<1> QED
  BY <1>0, <1>1, <1>2, <1>3, <1>4, Zenon DEF p

\* The addresses of entry i of the q-th table of height h.
LEMMA InEntry ==
    ASSUME NEW h \in 0 .. 3, NEW q \in Nat, NEW i \in Idx, NEW v \in Nat,
           EntryStart(h, q, i) <= v, v < EntryStart(h, q, i) + PageBytes(h)
    PROVE  p_index(v, h) = i /\ v - (v % PageBytes(h)) = EntryStart(h, q, i)
<1> DEFINE b == PageBytes(h)
           n == ENTRY_COUNT
           x == n * q
           j == x + i
           d == v \div b
           r == v % b
<1>1. b \in Nat \ {0} /\ n \in Nat \ {0} /\ i \in Nat /\ i < n
  BY PageBytesPositive, CountAssumption DEF Idx
<1>2. d \in Nat /\ r \in 0 .. b - 1 /\ v = b * d + r
  BY <1>1, Division
<1>3. b * j <= v /\ v < b * j + b
  BY DEF EntryStart
<1>4. x \in Nat /\ j \in Nat
  BY <1>1
<1>5. d = j /\ r = v - b * j
  <2> HIDE DEF j, d, r, b
  <2> DEFINE u == v - b * j
  <2>1. b * j \in Nat
    BY <1>1, <1>4
  <2>2. u \in Nat /\ u < b /\ b * j + u = v
    BY <1>1, <1>3, <2>1
  <2>3. r \in Nat /\ r < b
    BY <1>1, <1>2
  <2> HIDE DEF u
  <2> QED
    BY <1>1, <1>2, <1>4, <2>2, <2>3, OneRemainder DEF u
<1>6. j % n = i
  <2>1. j \div n \in Nat /\ j % n \in 0 .. n - 1 /\ j = n * (j \div n) + (j % n)
    BY <1>1, <1>4, Division
  <2> DEFINE dd == j \div n
             rr == j % n
  <2>2. n * dd + rr = n * q + i /\ rr \in Nat /\ rr < n /\ dd \in Nat
    BY <2>1, <1>1
  <2> HIDE DEF dd, rr, n
  <2>3. rr = i
    BY <1>1, <2>2, OneRemainder
  <2> QED
    BY <2>3 DEF rr, n
<1>7. p_index(v, h) = i
  BY <1>5, <1>6 DEF p_index
<1>8. v - r = b * j
  <2> HIDE DEF j, d, r, b
  <2> QED
    BY <1>1, <1>2, <1>4, <1>5
<1> QED
  BY <1>7, <1>8 DEF EntryStart

\* It begins at a 4K page.
LEMMA EntryAt4K ==
    ASSUME NEW h \in 0 .. 3, NEW q \in Nat, NEW i \in Nat
    PROVE  EntryStart(h, q, i) % PAGE_SIZE_4K = 0
<1> DEFINE p == PAGE_SIZE_4K
           j == ENTRY_COUNT * q + i
<1>1. PICK k \in Nat \ {0} : PageBytes(h) = p * k
  BY PagesOf4K
<1>2. p \in Nat \ {0} /\ j \in Nat
  BY CountAssumption
<1> HIDE DEF j
<1>3. p * k * j = p * (k * j) /\ k * j \in Nat
  BY <1>2
<1> DEFINE a == EntryStart(h, q, i)
           m == k * j
<1>4. a = p * m /\ m \in Nat
  BY <1>1, <1>3 DEF EntryStart, j
<1> HIDE DEF m, p
<1>5. a \in Nat
  BY <1>2, <1>4
<1> HIDE DEF a
<1>6. a \div p \in Nat /\ a % p \in 0 .. p - 1 /\ a = p * (a \div p) + (a % p)
  BY <1>2, <1>5, Division
<1> DEFINE d == a \div p
           r == a % p
<1>7. p * d + r = p * m + 0 /\ d \in Nat /\ r \in Nat /\ r < p /\ 0 < p
  BY <1>2, <1>4, <1>6
<1> HIDE DEF d, r
<1>8. r = 0
  BY <1>2, <1>4, <1>7, OneRemainder
<1> QED
  BY <1>8 DEF r, a, p
---------------------------------------------------------------------------
(* The calls for one entry *)

\* An entry e above the last level that leads to a table is present, and one
\* that is present and leads to none is a page.
EntryOK(h, e) ==
    h > 0 => IF IsTable(e) THEN pte_is_present(e)
             ELSE pte_is_present(e) => h < 3 /\ pte_is_huge(e)

EntryInv == \A t \in Linked, i \in Idx : EntryOK(height[t], mem[t][i])

\* The pages of one entry that leads to a table are those of the table.
LEMMA PagesDown ==
    ASSUME NEW t, NEW h \in 1 .. 3, NEW q \in Nat, NEW i \in Idx, IsTable(mem[t][i])
    PROVE  LET lo == EntryStart(h, q, i)
               hi == lo + PageBytes(h)
           IN  PagesIn(t, h, lo, hi) = PagesIn(pte_paddr(mem[t][i]), h - 1, lo, hi)
<1> DEFINE lo == EntryStart(h, q, i)
           hi == lo + PageBytes(h)
           c == pte_paddr(mem[t][i])
<1>1. ASSUME NEW v \in Nat, lo <= v, v < hi
      PROVE  PageFrom(t, h, v) = PageFrom(c, h - 1, v)
  <2>1. p_index(v, h) = i
    BY <1>1, InEntry
  <2>2. Goes(mem, t, v, h) /\ Child(mem, t, v, h) = c
    BY <2>1 DEF Goes, Child
  <2> QED
    BY <2>2, PageFromDown
<1> HIDE DEF lo, hi, c
<1>2. MappedIn(t, h, lo, hi) = MappedIn(c, h - 1, lo, hi)
  BY <1>1, Zenon DEF MappedIn
<1>3. \A v \in MappedIn(t, h, lo, hi) : PageFrom(t, h, v) = PageFrom(c, h - 1, v)
  BY <1>1, Zenon DEF MappedIn
<1>4. PagesIn(t, h, lo, hi) = PagesIn(c, h - 1, lo, hi)
  BY <1>2, <1>3, Zenon DEF PagesIn
<1> QED
  BY <1>4 DEF lo, hi, c

\* Those of another entry are the entry itself, when it is present.
LEMMA PagesEnd ==
    ASSUME NEW t, NEW h \in 0 .. 3, NEW q \in Nat, NEW i \in Idx,
           h > 0 => ~IsTable(mem[t][i]), EntryOK(h, mem[t][i])
    PROVE  LET lo == EntryStart(h, q, i)
               e == mem[t][i]
           IN  PagesIn(t, h, lo, lo + PageBytes(h)) =
                 IF pte_is_present(e)
                 THEN {[vaddr |-> lo, paddr |-> pte_paddr(e), flags |-> pte_flags(e), size |-> h]}
                 ELSE {}
<1> DEFINE lo == EntryStart(h, q, i)
           hi == lo + PageBytes(h)
           e == mem[t][i]
           page == [vaddr |-> lo, paddr |-> pte_paddr(e), flags |-> pte_flags(e), size |-> h]
           ans == [paddr |-> pte_paddr(e), flags |-> pte_flags(e), size |-> h]
<1>0. lo \in Nat /\ PageBytes(h) \in Nat \ {0} /\ lo < hi /\ lo <= lo
  <2>1. lo \in Nat
    <3>1. i \in Nat
      BY CountAssumption DEF Idx
    <3> QED
      BY <3>1, Starts
  <2>2. PageBytes(h) \in Nat \ {0}
    BY PageBytesPositive
  <2> HIDE DEF lo
  <2> QED
    BY <2>1, <2>2
<1>1. PageOf(e, h) = IF pte_is_present(e) THEN ans ELSE Unmapped
  BY DEF PageOf, EntryOK
<1>2. ASSUME NEW v \in Nat, lo <= v, v < hi
      PROVE  PageFrom(t, h, v) = PageOf(e, h) /\ v - (v % PageBytes(h)) = lo
  <2>1. p_index(v, h) = i /\ v - (v % PageBytes(h)) = lo
    BY <1>2, InEntry
  <2>2. ~Goes(mem, t, v, h)
    BY <2>1 DEF Goes
  <2> QED
    BY <2>1, <2>2, PageFromEnd
<1>3. CASE ~pte_is_present(e)
  <2>1. MappedIn(t, h, lo, hi) = {}
    BY <1>1, <1>2, <1>3, Zenon DEF MappedIn
  <2>2. PagesIn(t, h, lo, hi) = {}
    BY <2>1, Zenon DEF PagesIn
  <2> QED
    BY <1>3, <2>2
<1>4. CASE pte_is_present(e)
  <2>1. ans # Unmapped
    BY DEF Unmapped
  <2>2. lo % PAGE_SIZE_4K = 0
    BY EntryAt4K, CountAssumption DEF Idx
  <2>3. \A v \in MappedIn(t, h, lo, hi) : PageAround(v, PageFrom(t, h, v)) = page
    <3> TAKE v \in MappedIn(t, h, lo, hi)
    <3>1. v \in Nat /\ lo <= v /\ v < hi
      BY Zenon DEF MappedIn
    <3>2. PageFrom(t, h, v) = ans /\ v - (v % PageBytes(h)) = lo
      BY <1>1, <1>2, <1>4, <3>1, Zenon
    <3> QED
      BY <3>2 DEF PageAround
  <2>4. lo \in MappedIn(t, h, lo, hi)
    <3>1. PageFrom(t, h, lo) = ans
      BY <1>0, <1>1, <1>2, <1>4, Zenon
    <3> QED
      BY <1>0, <2>1, <2>2, <3>1, Zenon DEF MappedIn
  <2> HIDE DEF page, lo, hi
  <2>5. PagesIn(t, h, lo, hi) = {page}
    BY <2>3, <2>4, Zenon DEF PagesIn
  <2> QED
    BY <1>4, <2>5 DEF page, lo, hi
<1> QED
  BY <1>3, <1>4

\* Without a limit the walk visits every present entry.
LEMMA AllVisited == \A t : Visited(t, ENTRY_COUNT) = PresentEntries(t)
<1> TAKE t
<1> DEFINE Before(i) == {j \in PresentEntries(t) : j < i}
<1>1. ENTRY_COUNT \in Nat \ {0}
  BY CountAssumption
<1>2. ASSUME NEW i \in PresentEntries(t) PROVE Cardinality(Before(i)) < ENTRY_COUNT
  <2>1. i \in Nat /\ i < ENTRY_COUNT
    BY <1>1 DEF PresentEntries, Idx
  <2>2. Before(i) \subseteq 0 .. i - 1
    BY <1>1 DEF PresentEntries, Idx
  <2>3. IsFiniteSet(0 .. i - 1) /\ Cardinality(0 .. i - 1) <= i
    <3>1. 0 \in Int /\ i - 1 \in Int
      BY <2>1
    <3>2. IsFiniteSet(0 .. i - 1) /\ Cardinality(0 .. i - 1) = IF 0 > i - 1 THEN 0 ELSE i - 1 - 0 + 1
      BY <3>1, FS_Interval, Zenon
    <3> QED
      BY <2>1, <3>2
  <2>4. IsFiniteSet(Before(i)) /\ Cardinality(Before(i)) <= Cardinality(0 .. i - 1)
    BY <2>2, <2>3, FS_Subset
  <2>5. Cardinality(Before(i)) \in Nat /\ Cardinality(0 .. i - 1) \in Nat
    BY <2>3, <2>4, FS_CardinalityType
  <2> QED
    BY <1>1, <2>1, <2>3, <2>4, <2>5
<1> QED
  BY <1>1, <1>2 DEF Visited

\* The calls below are those of the pages of every table of height h.
Below(h, below, func) ==
    \A c \in Linked, q \in Nat :
        height[c] = h =>
            Shows(below[c][TableStart(h, q)], func, TableStart(h, q),
                  TableStart(h, q) + PageBytes(h) * ENTRY_COUNT,
                  PagesIn(c, h, TableStart(h, q),
                          TableStart(h, q) + PageBytes(h) * ENTRY_COUNT))

\* The calls for the entry e, beside those for a table that it leads to.
LEMMA VisitCalls ==
    ASSUME NEW h \in H, NEW i \in Idx, NEW a \in Nat, NEW e \in PTE, NEW f \in {"pre", "post"}
    PROVE  LET c == Visit(f, h, i, a, e)
           IN  /\ c \in Call /\ c.vaddr = a
               /\ \A func : OnPage(c, func) <=> f = func /\ ~Descends(h, e)
               /\ PageCalled(c) = [vaddr |-> a, paddr |-> pte_paddr(e),
                                   flags |-> pte_flags(e), size |-> h]
<1> DEFINE c == Visit(f, h, i, a, e)
<1>1. LEVELS \in Int /\ h \in Int /\ LEVELS - 1 - h \in Int /\ LEVELS - 1 - (LEVELS - 1 - h) = h
  BY LevelsAssumption DEF H
<1>2. /\ c.func = f /\ c.level = LEVELS - 1 - h /\ c.index = i /\ c.vaddr = a /\ c.entry = e
      /\ c \in Call
  BY <1>1 DEF Visit, Call
<1>3. Height(c) = h
  BY <1>1, <1>2 DEF Height
<1> QED
  BY <1>2, <1>3 DEF OnPage, PageCalled

\* The calls for an entry show its pages.
LEMMA EntryShows ==
    ASSUME IInv, EntryInv, NEW t \in Linked, NEW q \in Nat, NEW i \in Idx,
           NEW func \in {"pre", "post"}, NEW below,
           height[t] > 0 => Below(height[t] - 1, below, func)
    PROVE  LET h == height[t]
               a == EntryStart(h, q, i)
           IN  Shows(IF i \in Visited(t, ENTRY_COUNT) THEN EntryCalls(h, t, i, a, below)
                     ELSE <<>>,
                     func, a, a + PageBytes(h), PagesIn(t, h, a, a + PageBytes(h)))
<1> DEFINE h == height[t]
           a == EntryStart(h, q, i)
           b == a + PageBytes(h)
           e == mem[t][i]
           pre == Visit("pre", h, i, a, e)
           post == Visit("post", h, i, a, e)
           page == [vaddr |-> a, paddr |-> pte_paddr(e), flags |-> pte_flags(e), size |-> h]
<1>0. TypeOK /\ t \in DOMAIN mem
  BY DEF IInv, Linked
<1>1. h \in H /\ h \in 0 .. 3 /\ e \in PTE
  <2>1. h \in H
    BY <1>0 DEF TypeOK
  <2> QED
    BY <1>0, <2>1, EntriesTyped, LevelsAssumption DEF H
<1>2. a \in Nat /\ PageBytes(h) \in Nat \ {0} /\ a <= b /\ b \in Nat /\ a < b /\ a <= a /\ b <= b
  <2>1. a \in Nat
    <3>1. i \in Nat
      BY CountAssumption DEF Idx
    <3> QED
      BY <1>1, <3>1, Starts
  <2>2. PageBytes(h) \in Nat \ {0}
    BY <1>1, PageBytesPositive
  <2> HIDE DEF a
  <2> QED
    BY <2>1, <2>2
<1>3. EntryOK(h, e)
  BY DEF EntryInv
<1>4. i \in Visited(t, ENTRY_COUNT) <=> pte_is_present(e)
  BY AllVisited DEF PresentEntries
<1>5. /\ pre \in Call /\ pre.vaddr = a
      /\ OnPage(pre, func) <=> "pre" = func /\ ~Descends(h, e)
      /\ PageCalled(pre) = page
  BY <1>1, <1>2, VisitCalls
<1>6. /\ post \in Call /\ post.vaddr = a
      /\ OnPage(post, func) <=> "post" = func /\ ~Descends(h, e)
      /\ PageCalled(post) = page
  BY <1>1, <1>2, VisitCalls
<1>7. Descends(h, e) <=> h > 0 /\ IsTable(e)
  BY DEF Descends, IsTable, next_table
<1> DEFINE cs == EntryCalls(h, t, i, a, below)
           Q == PagesIn(t, h, a, b)
<1>8. CASE h > 0 /\ IsTable(e)
  <2> DEFINE c == pte_paddr(e)
             d == below[c][a]
             k == ENTRY_COUNT * q + i
  <2>1. c \in Linked /\ height[c] = h - 1
    BY <1>8 DEF IInv, TreeInv, ChildInv, Leads
  <2>2. k \in Nat /\ i \in Nat
    BY CountAssumption DEF Idx
  <2>3. a = TableStart(h - 1, k) /\ PageBytes(h) = PageBytes(h - 1) * ENTRY_COUNT
    BY <1>1, <1>8, <2>2, Starts
  <2>4. Shows(d, func, a, b, PagesIn(c, h - 1, a, b))
    <3>1. Below(h - 1, below, func)
      BY <1>8
    <3> HIDE DEF a, h, c, k
    <3> QED
      BY <2>1, <2>2, <2>3, <3>1 DEF Below
  <2>5. PagesIn(c, h - 1, a, b) = Q
    <3>1. h \in 1 .. 3
      BY <1>1, <1>8
    <3> QED
      BY <1>8, <3>1, PagesDown
  <2>6. pte_is_present(e) /\ Descends(h, e)
    BY <1>3, <1>7, <1>8 DEF EntryOK
  <2>7. cs = <<pre>> \o d \o <<post>>
    BY <2>6 DEF EntryCalls
  <2>8. Shows(<<pre>>, func, a, a, {}) /\ Shows(<<post>>, func, b, b, {})
    <3>1. ~OnPage(pre, func) /\ ~OnPage(post, func)
      BY <1>5, <1>6, <2>6
    <3> HIDE DEF pre, post, a, b
    <3> QED
      BY <1>5, <1>6, <3>1, ShowsTable
  <2> HIDE DEF a, b, pre, post, d, Q, cs, c, h, e
  <2>9. Shows(<<pre>> \o d, func, a, b, {} \cup Q)
    BY <1>2, <2>4, <2>5, <2>8, ShowsBoth
  <2>10. Shows((<<pre>> \o d) \o <<post>>, func, a, b, ({} \cup Q) \cup {})
    BY <1>2, <2>8, <2>9, ShowsBoth
  <2>11. ({} \cup Q) \cup {} = Q
    OBVIOUS
  <2>12. Shows(cs, func, a, b, Q)
    BY <2>7, <2>10, <2>11
  <2> QED
    BY <1>4, <2>6, <2>12 DEF a, b, Q, cs, h, e
<1>9. CASE (h > 0 => ~IsTable(e)) /\ pte_is_present(e)
  <2>1. Q = {page}
    BY <1>1, <1>3, <1>9, PagesEnd
  <2>2. ~Descends(h, e)
    BY <1>7, <1>9
  <2>3. cs = (<<pre>> \o <<>>) \o <<post>>
    BY <2>2 DEF EntryCalls
  <2> HIDE DEF a, b, pre, post, Q, cs, page
  <2>4. CASE func = "pre"
    <3>1. OnPage(pre, func) /\ ~OnPage(post, func)
      BY <1>5, <1>6, <2>2, <2>4
    <3>2. Shows(<<pre>>, func, a, b, {page})
      BY <1>2, <1>5, <3>1, ShowsPage
    <3>3. Shows(<<>>, func, b, b, {}) /\ Shows(<<post>>, func, b, b, {})
      BY <1>6, <3>1, ShowsNone, ShowsTable
    <3>4. Shows(<<pre>> \o <<>>, func, a, b, {page} \cup {})
      BY <1>2, <3>2, <3>3, ShowsBoth
    <3>5. Shows((<<pre>> \o <<>>) \o <<post>>, func, a, b, ({page} \cup {}) \cup {})
      BY <1>2, <3>3, <3>4, ShowsBoth
    <3>6. ({page} \cup {}) \cup {} = Q
      BY <2>1
    <3>7. Shows(cs, func, a, b, Q)
      BY <2>3, <3>5, <3>6
    <3> QED
      BY <1>4, <1>9, <3>7 DEF a, b, Q, cs
  <2>5. CASE func = "post"
    <3>1. ~OnPage(pre, func) /\ OnPage(post, func)
      BY <1>5, <1>6, <2>2, <2>5
    <3>2. Shows(<<post>>, func, a, b, {page})
      BY <1>2, <1>6, <3>1, ShowsPage
    <3>3. Shows(<<>>, func, a, a, {}) /\ Shows(<<pre>>, func, a, a, {})
      BY <1>5, <3>1, ShowsNone, ShowsTable
    <3>4. Shows(<<pre>> \o <<>>, func, a, a, {} \cup {})
      BY <1>2, <3>3, ShowsBoth
    <3>5. Shows((<<pre>> \o <<>>) \o <<post>>, func, a, b, ({} \cup {}) \cup {page})
      BY <1>2, <3>2, <3>4, ShowsBoth
    <3>6. ({} \cup {}) \cup {page} = Q
      BY <2>1
    <3>7. Shows(cs, func, a, b, Q)
      BY <2>3, <3>5, <3>6
    <3> QED
      BY <1>4, <1>9, <3>7 DEF a, b, Q, cs
  <2> QED
    BY <2>4, <2>5
<1>10. CASE (h > 0 => ~IsTable(e)) /\ ~pte_is_present(e)
  <2>1. Q = {}
    BY <1>1, <1>3, <1>10, PagesEnd
  <2>2. Shows(<<>>, func, a, b, {})
    BY ShowsNone
  <2> QED
    BY <1>4, <1>10, <2>1, <2>2
<1>11. h > 0 /\ IsTable(e) => pte_is_present(e)
  BY <1>3 DEF EntryOK
<1> QED
  BY <1>8, <1>9, <1>10, <1>11
---------------------------------------------------------------------------
(* The calls for one table, one level, and all of them *)

\* The length of a sequence given entry by entry.
LEMMA LenOfEntries ==
    ASSUME NEW N \in Nat, NEW s, DOMAIN s = 1 .. N, s = [n \in 1 .. N |-> s[n]]
    PROVE  Len(s) = N
<1> DEFINE S == {s[n] : n \in 1 .. N}
<1>1. \A n \in 1 .. N : s[n] \in S
  OBVIOUS
<1> HIDE DEF S
<1>2. s \in [1 .. N -> S]
  BY <1>1
<1>3. s \in Seq(S)
  BY <1>2
<1>4. Len(s) \in Nat /\ DOMAIN s = 1 .. Len(s)
  BY <1>3
<1> QED
  BY <1>4

\* The calls for a table show its pages.
LEMMA TableShows ==
    ASSUME IInv, EntryInv, NEW t \in Linked, NEW q \in Nat,
           NEW func \in {"pre", "post"}, NEW below,
           height[t] > 0 => Below(height[t] - 1, below, func)
    PROVE  LET h == height[t]
               s == TableStart(h, q)
               e == s + PageBytes(h) * ENTRY_COUNT
           IN  Shows(TableCalls(h, t, s, ENTRY_COUNT, below), func, s, e, PagesIn(t, h, s, e))
<1> DEFINE h == height[t]
           s == TableStart(h, q)
           N == ENTRY_COUNT
           E(i) == EntryStart(h, q, i)
           Entry(i) == IF i \in Visited(t, ENTRY_COUNT)
                       THEN EntryCalls(h, t, i, E(i), below) ELSE <<>>
           entries == [n \in 1 .. N |->
                         IF n - 1 \in Visited(t, ENTRY_COUNT)
                         THEN EntryCalls(h, t, n - 1, s + (n - 1) * PageBytes(h), below)
                         ELSE <<>>]
<1>1. h \in 0 .. 3
  BY LevelsAssumption DEF IInv, TypeOK, Linked, H
<1>2. N \in Nat \ {0}
  BY CountAssumption
<1>3. \A i \in Nat : /\ E(i) \in Nat /\ E(i + 1) = E(i) + PageBytes(h)
                     /\ E(i) = s + i * PageBytes(h)
  BY <1>1, Starts
<1>4. E(0) = s /\ E(N) = s + PageBytes(h) * N /\ s \in Nat
  BY <1>1, Starts
<1>5. PageBytes(h) \in Nat
  BY <1>1, PageBytesPositive
<1>6. \A i \in 0 .. N - 1 :
         Shows(Entry(i), func, E(i), E(i + 1), PagesIn(t, h, E(i), E(i + 1)))
  <2> TAKE i \in 0 .. N - 1
  <2>1. i \in Idx /\ i \in Nat
    BY <1>2 DEF Idx
  <2>2. Shows(Entry(i), func, E(i), E(i) + PageBytes(h), PagesIn(t, h, E(i), E(i) + PageBytes(h)))
    BY <2>1, EntryShows
  <2>3. E(i + 1) = E(i) + PageBytes(h)
    BY <1>3, <2>1
  <2> QED
    BY <2>2, <2>3, Zenon
<1>7. \A n \in 1 .. N : n - 1 \in 0 .. N - 1 /\ (n - 1) + 1 = n /\ n \in Nat
  BY <1>2
<1>8. \A n \in 1 .. N : entries[n] = Entry(n - 1)
  <2> TAKE n \in 1 .. N
  <2>1. E(n - 1) = s + (n - 1) * PageBytes(h)
    BY <1>3, <1>7
  <2> QED
    BY <2>1
<1>9. PICK f : Joins(f, entries, N) /\ FlattenSeq(entries) = f[N]
  <2>1. Len(entries) = N
    <3>1. DOMAIN entries = 1 .. N /\ entries = [n \in 1 .. N |-> entries[n]]
      OBVIOUS
    <3> HIDE DEF entries
    <3> QED
      BY <1>2, <3>1, LenOfEntries
  <2> HIDE DEF entries
  <2> QED
    BY <1>2, <2>1, Flattened
<1>10. TableCalls(h, t, s, ENTRY_COUNT, below) = f[N]
  BY <1>9, Zenon DEF TableCalls
<1>16. \A lo, mid, hi \in Nat :
           lo <= mid /\ mid <= hi
             => PagesIn(t, h, lo, hi) = PagesIn(t, h, lo, mid) \cup PagesIn(t, h, mid, hi)
  <2> HIDE DEF h
  <2> QED
    BY PagesJoin
<1> HIDE DEF Entry, E, h, s, N, entries
<1> DEFINE G(n) == Shows(f[n], func, E(0), E(n), PagesIn(t, h, E(0), E(n)))
           S == {k \in Nat : k + 1 \in 1 .. N => G(k + 1)}
<1>11. \A n \in 1 .. N : f[n] = IF n = 1 THEN entries[n] ELSE f[n - 1] \o entries[n]
  BY <1>9, Zenon DEF Joins
<1>12. 0 \in S
  <2>1. 1 \in 1 .. N /\ 0 \in 0 .. N - 1 /\ 0 + 1 = 1 /\ 1 - 1 = 0
    BY <1>2
  <2>2. f[1] = Entry(0)
    BY <1>8, <1>11, <2>1
  <2>3. G(1)
    BY <1>6, <2>1, <2>2
  <2> QED
    BY <2>1, <2>3
<1>13. ASSUME NEW k \in Nat, k \in S PROVE k + 1 \in S
  <2> SUFFICES ASSUME (k + 1) + 1 \in 1 .. N PROVE G((k + 1) + 1)
    OBVIOUS
  <2> DEFINE n == k + 1
  <2>1. n \in 1 .. N /\ n \in 0 .. N - 1 /\ n + 1 # 1 /\ (n + 1) - 1 = n /\ n \in Nat /\ n + 1 \in 1 .. N
    BY <1>2
  <2>2. G(n)
    BY <1>13, <2>1
  <2> HIDE DEF n
  <2>3. f[n + 1] = f[n] \o Entry(n)
    BY <1>8, <1>11, <2>1
  <2>4. Shows(Entry(n), func, E(n), E(n + 1), PagesIn(t, h, E(n), E(n + 1)))
    BY <1>6, <2>1
  <2>5. E(0) \in Nat /\ E(n) \in Nat /\ E(n + 1) \in Nat /\ E(0) <= E(n) /\ E(n) <= E(n + 1)
    <3>1. E(0) \in Nat /\ E(n) \in Nat /\ E(n + 1) \in Nat /\ E(n + 1) = E(n) + PageBytes(h)
      BY <1>3, <2>1
    <3>2. E(n) = s + n * PageBytes(h) /\ E(0) = s
      BY <1>3, <1>4, <2>1
    <3>3. n * PageBytes(h) \in Nat
      BY <1>5, <2>1
    <3>4. s \in Nat
      BY <1>4
    <3>5. E(0) <= E(n)
      BY <3>2, <3>3, <3>4
    <3> QED
      BY <1>5, <3>1, <3>5
  <2>6. PagesIn(t, h, E(0), E(n + 1)) = PagesIn(t, h, E(0), E(n)) \cup PagesIn(t, h, E(n), E(n + 1))
    <3>1. \A lo, mid, hi \in Nat :
           lo <= mid /\ mid <= hi
             => PagesIn(t, h, lo, hi) = PagesIn(t, h, lo, mid) \cup PagesIn(t, h, mid, hi)
      BY <1>16
    <3>2. E(0) \in Nat /\ E(n) \in Nat /\ E(n + 1) \in Nat 
      BY <2>5
    <3>3. E(0) <= E(n) /\ E(n) <= E(n + 1)
      BY <2>5
    <3> QED
      BY <3>1, <3>2, <3>3
  <2>7. Shows(f[n] \o Entry(n), func, E(0), E(n + 1),
              PagesIn(t, h, E(0), E(n)) \cup PagesIn(t, h, E(n), E(n + 1)))
    BY <2>2, <2>4, <2>5, ShowsBoth
  <2>8. G(n + 1)
    BY <2>3, <2>6, <2>7, Zenon
  <2> QED
    BY <2>8 DEF n
<1>14. Nat \subseteq S
  <2> HIDE DEF S
  <2> QED
    BY <1>12, <1>13, Induction
<1>15. G(N)
  <2>1. N - 1 \in Nat /\ (N - 1) + 1 = N /\ N \in 1 .. N
    BY <1>2
  <2>2. N - 1 \in S
    BY <1>14, <2>1
  <2> QED
    BY <2>1, <2>2
<1> QED
  BY <1>4, <1>10, <1>15 DEF h, s, N

\* The calls of one level, above those of the level below.
LEMMA LevelShows ==
    ASSUME IInv, EntryInv, NEW h \in H, NEW func \in {"pre", "post"}, NEW below,
           h > 0 => Below(h - 1, below, func)
    PROVE  Below(h, LevelCalls(h, ENTRY_COUNT, below), func)
<1> SUFFICES ASSUME NEW t \in Linked, NEW q \in Nat, height[t] = h
             PROVE  LET s == TableStart(h, q)
                        e == s + PageBytes(h) * ENTRY_COUNT
                    IN  Shows(LevelCalls(h, ENTRY_COUNT, below)[t][s], func, s, e,
                              PagesIn(t, h, s, e))
  BY DEF Below
<1> DEFINE s == TableStart(h, q)
<1>1. h \in 0 .. 3
  BY LevelsAssumption DEF H
<1>2. s \in Nat
  BY <1>1, Starts
<1>3. t \in DOMAIN mem
  BY DEF Linked
<1>4. LevelCalls(h, ENTRY_COUNT, below)[t][s] = TableCalls(h, t, s, ENTRY_COUNT, below)
  BY <1>2, <1>3 DEF LevelCalls
<1> QED
  BY <1>4, TableShows

\* walk_recursive, level by level.
LEMMA WalkLevels ==
    ASSUME NEW limit
    PROVE  LET w == walk_recursive(limit)
           IN  \A h \in H : w[h] = LevelCalls(h, limit, IF h = 0 THEN <<>> ELSE w[h - 1])
<1> DEFINE Is(w) == w = [h \in H |-> LevelCalls(h, limit, IF h = 0 THEN <<>> ELSE w[h - 1])]
<1>1. walk_recursive(limit) = CHOOSE w : Is(w)
  BY DEF walk_recursive
<1>2. \E w : Is(w)
  <2> DEFINE w0 == LevelCalls(0, limit, <<>>)
             w1 == LevelCalls(1, limit, w0)
             w2 == LevelCalls(2, limit, w1)
             w3 == LevelCalls(3, limit, w2)
             w == [h \in H |-> IF h = 0 THEN w0 ELSE IF h = 1 THEN w1
                               ELSE IF h = 2 THEN w2 ELSE w3]
  <2>1. \A h \in H : /\ h \in 0 .. 3 /\ (h = 0 \/ h = 1 \/ h = 2 \/ h = 3)
                     /\ h # 0 => h - 1 \in H
    BY LevelsAssumption DEF H
  <2>2. 1 - 1 = 0 /\ 2 - 1 = 1 /\ 3 - 1 = 2
    OBVIOUS
  <2>3. ASSUME NEW h \in H PROVE w[h] = LevelCalls(h, limit, IF h = 0 THEN <<>> ELSE w[h - 1])
    <3>1. CASE h = 0
      BY <3>1, Zenon
    <3>2. CASE h = 1
      <4>1. w[h - 1] = w0
        BY <2>1, <3>2
      <4>2. w[h] = w1
        BY <3>2
      <4> HIDE DEF w
      <4> QED
        BY <3>2, <4>1, <4>2
    <3>3. CASE h = 2
      <4>1. w[h - 1] = w1
        BY <2>1, <3>3
      <4>2. w[h] = w2
        BY <3>3
      <4> HIDE DEF w
      <4> QED
        BY <3>3, <4>1, <4>2
    <3>4. CASE h = 3
      <4>1. w[h - 1] = w2
        BY <2>1, <3>4
      <4>2. w[h] = w3
        BY <3>4
      <4> HIDE DEF w
      <4> QED
        BY <3>4, <4>1, <4>2
    <3> QED
      BY <2>1, <3>1, <3>2, <3>3, <3>4
  <2>4. w = [h \in H |-> w[h]]
    OBVIOUS
  <2>5. w = [h \in H |-> LevelCalls(h, limit, IF h = 0 THEN <<>> ELSE w[h - 1])]
    <3> HIDE DEF w
    <3> QED
      BY <2>3, <2>4
  <2> HIDE DEF w
  <2> QED
    BY <2>5
<1> DEFINE w == walk_recursive(limit)
<1>3. Is(w)
  BY <1>1, <1>2
<1> HIDE DEF w
<1>4. \A h \in H : w[h] = LevelCalls(h, limit, IF h = 0 THEN <<>> ELSE w[h - 1])
  BY <1>3
<1> QED
  BY <1>4 DEF w

\* So every level shows the pages of its tables.
LEMMA WalkShows ==
    ASSUME IInv, EntryInv, NEW func \in {"pre", "post"}
    PROVE  \A h \in H : Below(h, walk_recursive(ENTRY_COUNT)[h], func)
<1> DEFINE w == walk_recursive(ENTRY_COUNT)
<1>1. \A h \in H : w[h] = LevelCalls(h, ENTRY_COUNT, IF h = 0 THEN <<>> ELSE w[h - 1])
  BY WalkLevels
<1> HIDE DEF w
<1>2. ASSUME NEW h \in H, h > 0 => Below(h - 1, w[h - 1], func) PROVE Below(h, w[h], func)
  <2>1. CASE h = 0
    <3>1. w[h] = LevelCalls(h, ENTRY_COUNT, <<>>)
      BY <1>1, <2>1
    <3>2. ~(h > 0)
      BY <2>1
    <3> QED
      BY <3>1, <3>2, LevelShows
  <2>2. CASE h # 0
    <3>1. w[h] = LevelCalls(h, ENTRY_COUNT, w[h - 1])
      BY <1>1, <2>2
    <3> QED
      BY <1>2, <3>1, LevelShows
  <2> QED
    BY <2>1, <2>2
<1>3. H = 0 .. 2 \/ H = 0 .. 3
  BY LevelsAssumption DEF H
<1>4. 0 \in H /\ 1 \in H /\ 2 \in H /\ \A h \in H : h = 0 \/ h = 1 \/ h = 2 \/ h = 3
  BY <1>3
<1>5. Below(0, w[0], func)
  <2>1. ~(0 > 0)
    OBVIOUS
  <2> QED
    BY <1>2, <1>4, <2>1
<1>6. Below(1, w[1], func)
  <2>1. 1 - 1 = 0
    OBVIOUS
  <2> QED
    BY <1>2, <1>4, <1>5, <2>1
<1>7. Below(2, w[2], func)
  <2>1. 2 - 1 = 1
    OBVIOUS
  <2> QED
    BY <1>2, <1>4, <1>6, <2>1
<1>8. 3 \in H => Below(3, w[3], func)
  <2>1. 3 - 1 = 2
    OBVIOUS
  <2> QED
    BY <1>2, <1>7, <2>1
<1>9. \A h \in H : Below(h, w[h], func)
  BY <1>4, <1>5, <1>6, <1>7, <1>8, Zenon
<1> QED
  BY <1>9 DEF w

\* The 4K pages below the end of the root table.
LEMMA Page4KRange ==
    {n * PAGE_SIZE_4K : n \in 0 .. Pages4K - 1}
      = {v \in Nat : v % PAGE_SIZE_4K = 0 /\ 0 <= v /\ v < PageBytes(Top) * ENTRY_COUNT}
<1> DEFINE p == PAGE_SIZE_4K
           n == ENTRY_COUNT
           b == PageBytes(Top)
           e == b * n
<1>1. p \in Nat \ {0} /\ n \in Nat \ {0} /\ Top \in 0 .. 3
  BY CountAssumption, TopHeight
<1>2. PICK k \in Nat \ {0} : b = p * k
  BY <1>1, PagesOf4K
<1> HIDE DEF b, p, n
<1> DEFINE m == k * n
<1>3. m \in Nat /\ e = p * m /\ n * b = p * m
  BY <1>1, <1>2
<1> HIDE DEF m, e
<1>4. Pages4K = m
  <2>1. Pages4K = (n * b) \div p
    BY DEF Pages4K, Top, n, b, p
  <2> DEFINE a == p * m
             d == a \div p
             r == a % p
  <2>2. a \in Nat
    BY <1>1, <1>3
  <2>3. d \in Nat /\ r \in 0 .. p - 1 /\ a = p * d + r
    <3> HIDE DEF a
    <3> QED
      BY <1>1, <2>2, Division
  <2>4. p * d + r = p * m + 0 /\ r \in Nat /\ r < p /\ 0 < p
    <3>1. p * m = p * m + 0
      BY <1>1, <1>3
    <3> QED
      BY <1>1, <2>3, <3>1
  <2> HIDE DEF d, r
  <2>5. d = m
    BY <1>1, <1>3, <2>3, <2>4, OneRemainder
  <2> QED
    BY <1>3, <2>1, <2>5 DEF d
<1>5. ASSUME NEW j \in 0 .. m - 1
      PROVE  j * p \in Nat /\ (j * p) % p = 0 /\ j * p < e
  <2>1. j \in Nat /\ j + 1 <= m
    BY <1>3
  <2>2. p * (j + 1) <= p * m
    BY <1>1, <1>3, <2>1, ProductMonotone
  <2>3. p * (j + 1) = j * p + p /\ j * p \in Nat /\ j * p = p * j /\ p * m \in Nat
    BY <1>1, <1>3, <2>1
  <2>4. j * p < e
    BY <1>1, <1>3, <2>2, <2>3
  <2>5. (0 + p * j) % p = 0 % p
    BY <1>1, <2>1, SameRemainder
  <2>6. 0 % p = 0 /\ 0 + p * j = j * p
    BY <1>1, <2>3
  <2> QED
    BY <2>3, <2>4, <2>5, <2>6
<1>6. ASSUME NEW v \in Nat, v % p = 0, v < e
      PROVE  \E j \in 0 .. m - 1 : v = j * p
  <2> DEFINE d == v \div p
  <2>1. d \in Nat /\ v = p * d
    <3>1. d \in Nat /\ v = p * d + (v % p)
      BY <1>1, Division
    <3> HIDE DEF d
    <3>2. p * d \in Nat
      BY <1>1, <3>1
    <3> QED
      BY <1>6, <3>1, <3>2
  <2>2. v < m * p
    <3>1. m * p = p * m
      BY <1>1, <1>3
    <3> QED
      BY <1>3, <1>6, <3>1
  <2>3. d < m
    BY <1>1, <1>3, <2>2, QuotientBound
  <2> HIDE DEF d
  <2>4. d \in 0 .. m - 1 /\ v = d * p
    BY <1>1, <1>3, <2>1, <2>3
  <2> QED
    BY <2>4
<1>7. {j * p : j \in 0 .. m - 1} = {v \in Nat : v % p = 0 /\ 0 <= v /\ v < e}
  BY <1>5, <1>6
<1> QED
  BY <1>4, <1>7 DEF p, e, b, n

\* The pages of the root table are those that query finds.
LEMMA RootPages ==
    QueriedPages = PagesIn(root_paddr, Top, 0, PageBytes(Top) * ENTRY_COUNT)
<1> DEFINE e == PageBytes(Top) * ENTRY_COUNT
           M == {v \in {n * PAGE_SIZE_4K : n \in 0 .. Pages4K - 1} : query(mem, v) # Unmapped}
<1>1. M = MappedIn(root_paddr, Top, 0, e)
  <2>1. M = {v \in {v \in Nat : v % PAGE_SIZE_4K = 0 /\ 0 <= v /\ v < e} : query(mem, v) # Unmapped}
    BY Page4KRange
  <2>2. \A v \in Nat : query(mem, v) = PageFrom(root_paddr, Top, v)
    BY PageFromRoot
  <2> HIDE DEF M, e
  <2> QED
    BY <2>1, <2>2, Zenon DEF MappedIn
<1>2. QueriedPages = {PageAround(v, query(mem, v)) : v \in M}
  BY DEF QueriedPages
<1> HIDE DEF M
<1>3. \A v \in M : PageAround(v, query(mem, v)) = PageAround(v, PageFrom(root_paddr, Top, v))
  BY PageFromRoot, Zenon
<1> QED
  BY <1>1, <1>2, <1>3, Zenon DEF PagesIn

\* What walk calls is what query finds.
LEMMA WalkIsQuery == IInv /\ EntryInv => WalkFindsPages
<1> SUFFICES ASSUME IInv, EntryInv, MayWalk, NEW func \in {"pre", "post"}
             PROVE  LET calls == walk(ENTRY_COUNT)
                        pages == {n \in DOMAIN calls : OnPage(calls[n], func)}
                    IN  /\ {PageCalled(calls[n]) : n \in pages} = QueriedPages
                        /\ \A m, n \in pages : m < n => calls[m].vaddr < calls[n].vaddr
  BY DEF WalkFindsPages
<1> DEFINE c == walk(ENTRY_COUNT)
           e == PageBytes(Top) * ENTRY_COUNT
<1>1. root_paddr \in Linked /\ height[root_paddr] = Top
  BY DEF IInv, TreeInv, RootInv, MayWalk, Top
<1>2. TableStart(Top, 0) = 0 /\ e \in Nat /\ 0 + e = e
  <2>1. PageBytes(Top) \in Nat /\ ENTRY_COUNT \in Nat
    BY TopHeight, PageBytesPositive, CountAssumption
  <2>2. e \in Nat
    BY <2>1
  <2> HIDE DEF e
  <2>3. e * 0 = 0 /\ 0 + e = e
    BY <2>2
  <2> QED
    BY <2>2, <2>3 DEF e, TableStart
<1>3. c = walk_recursive(ENTRY_COUNT)[Top][root_paddr][0]
  BY DEF walk, Top
<1>4. Below(Top, walk_recursive(ENTRY_COUNT)[Top], func)
  BY WalkShows, TopHeight
<1>5. Shows(c, func, 0, e, PagesIn(root_paddr, Top, 0, e))
  <2>1. Shows(walk_recursive(ENTRY_COUNT)[Top][root_paddr][TableStart(Top, 0)], func, TableStart(Top, 0),
              TableStart(Top, 0) + e, PagesIn(root_paddr, Top, TableStart(Top, 0), TableStart(Top, 0) + e))
    BY <1>1, <1>4 DEF Below
  <2> HIDE DEF c, e
  <2> QED
    BY <1>2, <1>3, <2>1, Zenon
<1>6. Shows(c, func, 0, e, QueriedPages)
  BY <1>5, RootPages, Zenon
<1> HIDE DEF c
<1>7. DOMAIN c = 1 .. Len(c)
  <2>1. c \in Seq(Call)
    BY <1>6 DEF Shows
  <2> QED
    BY <2>1
<1>8. {PageCalled(c[n]) : n \in {n \in DOMAIN c : OnPage(c[n], func)}} = QueriedPages
  BY <1>6, <1>7, Zenon DEF Shows
<1>9. \A m, n \in {k \in DOMAIN c : OnPage(c[k], func)} : m < n => c[m].vaddr < c[n].vaddr
  BY <1>6, <1>7, Zenon DEF Shows
<1> QED
  BY <1>8, <1>9 DEF c
---------------------------------------------------------------------------
(* Entries show what they are *)

\* The entries that are written are in order: none, pages, and tables.
LEMMA GoodEntries ==
    /\ \A h : EntryOK(h, Zero)
    /\ \A h \in PageSize, e \in PTE : (h # 0 => pte_is_huge(e)) => EntryOK(h, e)
    /\ TablesPresent => \A h : \A f \in Frame : EntryOK(h, pte_new_table(f))
<1>1. \A h : EntryOK(h, Zero)
  BY TableEntries, PteKeeps DEF EntryOK
<1>2. \A h \in PageSize, e \in PTE : (h # 0 => pte_is_huge(e)) => EntryOK(h, e)
  BY TableEntries DEF EntryOK, PageSize, Size4K, Size2M, Size1G
<1>3. TablesPresent => \A h : \A f \in Frame : EntryOK(h, pte_new_table(f))
  BY TableEntries DEF EntryOK, TablesPresent
<1> QED
  BY <1>1, <1>2, <1>3

\* A step that writes no entry and links no table leaves them in order, ...
LEMMA EntriesSame ==
    ASSUME EntryInv, Linked' \subseteq Linked,
           \A t \in Linked' : mem'[t] = mem[t] /\ height'[t] = height[t]
    PROVE  EntryInv'
BY DEF EntryInv

\* ... as does one that writes an entry in order.
LEMMA EntryWritten ==
    ASSUME EntryInv, TypeOK, NEW t \in Linked, NEW i \in Idx, NEW e,
           mem' = [mem EXCEPT ![t][i] = e], EntryOK(height[t], e),
           UNCHANGED height, call'.new = call.new
    PROVE  EntryInv'
<1>1. t \in DOMAIN mem /\ mem \in [DOMAIN mem -> [Idx -> PTE]]
  BY DEF Linked, TypeOK, Table
<1>2. DOMAIN mem' = DOMAIN mem
  BY <1>1
<1>3. \A u \in DOMAIN mem, j \in Idx :
         mem'[u][j] = IF u = t /\ j = i THEN e ELSE mem[u][j]
  BY <1>1
<1>4. Linked' = Linked
  BY <1>2 DEF Linked
<1>5. ASSUME NEW u \in Linked', NEW j \in Idx PROVE EntryOK(height'[u], mem'[u][j])
  <2>1. u \in Linked /\ u \in DOMAIN mem
    BY <1>4 DEF Linked
  <2>2. EntryOK(height[u], mem[u][j])
    BY <2>1 DEF EntryInv
  <2> QED
    BY <1>3, <2>1, <2>2
<1> QED
  BY <1>5 DEF EntryInv

\* A step that keeps the tree and the memory of its tables.
LEMMA EntriesKept ==
    ASSUME EntryInv, TreeKept, \A t \in Linked : mem'[t] = mem[t]
    PROVE  EntryInv'
BY EntriesSame DEF TreeKept

\* map writes pages.
LEMMA MapPageEntries == ASSUME IInv, EntryInv, MapPage PROVE EntryInv'
<1> DEFINE t == call.table
           i == p_index(call.vaddr, call.h)
           e == pte_new_page(align_down(call.target, call.size), call.flags,
                         call.size # Size4K)
<1>0. CoreInv /\ TypeOK
  BY HasCore DEF IInv
<1>1. /\ call.h = call.size /\ call.new = NoFrame
      /\ call.vaddr \in VAddr /\ call.flags \in Flags
      /\ t \in Linked /\ height[t] = call.h /\ call.target \in Target
  BY <1>0 DEF MapPage, CoreInv, CallInv
<1>2. /\ mem' = [mem EXCEPT ![t][i] = e] /\ UNCHANGED height /\ call'.new = call.new
  BY <1>1 DEF MapPage, SetEntry, NoCall
<1>3. i \in Idx
  BY <1>0, <1>1, SlotTyped
<1>4. call.size \in PageSize /\ align_down(call.target, call.size) \in PAddr
  BY <1>0, <1>1, CountAssumption DEF TypeOK, CallOK
<1>5. e \in PTE /\ (call.size # 0 => pte_is_huge(e))
  <2>1. e \in PTE
    BY <1>1, <1>4, PteTyping
  <2>2. CASE call.size = 0
    BY <2>1, <2>2
  <2>3. CASE call.size # 0
    BY <1>1, <1>4, <2>1, <2>3, PteHuge DEF Size4K
  <2> QED
    BY <2>2, <2>3
<1>6. EntryOK(height[t], e)
  <2> HIDE DEF e, t
  <2> QED
    BY <1>1, <1>4, <1>5, GoodEntries
<1> QED
  BY <1>0, <1>1, <1>2, <1>3, <1>6, EntryWritten

\* remap keeps what is a page a page.
LEMMA RemapEntries ==
    ASSUME IInv, EntryInv, NEW v \in VAddr, NEW p \in Target, NEW f \in Flags, Remap(v, p, f)
    PROVE  EntryInv'
<1>0. CoreInv /\ TypeOK /\ CursorIdle
  BY HasCore DEF IInv, Remap
<1>1. CASE get_entry(mem, v).err = "Ok"
  <2>1. PICK t \in Linked, h \in PageSize :
              /\ get_entry(mem, v).table = t /\ get_entry(mem, v).h = h
              /\ call.new = NoFrame /\ root_paddr # NoFrame
              /\ t \in Frame /\ height[t] = h
              /\ p_index(v, h) \in Idx /\ mem[t][p_index(v, h)] \in PTE
              /\ h # 0 => pte_is_huge(mem[t][p_index(v, h)])
              /\ ~Leads(t, p_index(v, h))
    BY <1>0, <1>1, FoundSlot
  <2> DEFINE i == p_index(v, h)
             e == pte_set_paddr(mem[t][i], p)
  <2>2. /\ mem' = [mem EXCEPT ![t][i] = e] /\ UNCHANGED height /\ call'.new = call.new
    BY <1>1, <2>1 DEF Remap, SetEntry, NoCall
  <2>3. e \in PTE /\ (h # 0 => pte_is_huge(e))
    BY <2>1, CountAssumption, PteTyping, PteHuge
  <2>4. EntryOK(height[t], e)
    <3> HIDE DEF e
    <3> QED
      BY <2>1, <2>3, GoodEntries
  <2> QED
    BY <1>0, <2>1, <2>2, <2>4, EntryWritten
<1>2. CASE get_entry(mem, v).err # "Ok"
  <2>1. UNCHANGED mem
    BY <1>2 DEF Remap, Fail
  <2>2. TreeKept
    BY <1>0, RemapStep
  <2> QED
    BY <2>1, <2>2, EntriesKept
<1> QED
  BY <1>1, <1>2

\* The same of its second write.
LEMMA RemapSetFlagsEntries == ASSUME IInv, EntryInv, RemapSetFlags PROVE EntryInv'
<1> DEFINE t == call.table
           i == p_index(call.vaddr, call.h)
           e == pte_set_flags(mem[t][i], call.flags, call.size # Size4K)
<1>0. CoreInv /\ TypeOK
  BY HasCore DEF IInv
<1>1. /\ call.size = call.h /\ call.new = NoFrame
      /\ call.vaddr \in VAddr /\ call.flags \in Flags
      /\ t \in Linked /\ height[t] = call.h
  BY <1>0 DEF RemapSetFlags, CoreInv, CallInv
<1>2. /\ mem' = [mem EXCEPT ![t][i] = e] /\ UNCHANGED height /\ call'.new = call.new
  BY <1>1 DEF RemapSetFlags, SetEntry, MapEntry, NoCall
<1>3. i \in Idx /\ mem[t][i] \in PTE /\ call.size \in PageSize
  BY <1>0, <1>1, SlotTyped DEF TypeOK, CallOK
<1>4. e \in PTE /\ (call.size # 0 => pte_is_huge(e))
  <2>1. e \in PTE
    BY <1>1, <1>3, PteTyping
  <2>2. CASE call.size = 0
    BY <2>1, <2>2
  <2>3. CASE call.size # 0
    BY <1>1, <1>3, <2>1, <2>3, PteHuge DEF Size4K
  <2> QED
    BY <2>2, <2>3
<1>5. EntryOK(height[t], e)
  <2> HIDE DEF e, t
  <2> QED
    BY <1>1, <1>3, <1>4, GoodEntries
<1> QED
  BY <1>0, <1>1, <1>2, <1>3, <1>5, EntryWritten

\* protect writes pages.
LEMMA ProtectEntries ==
    ASSUME IInv, EntryInv, NEW v \in VAddr, NEW f \in Flags, Protect(v, f)
    PROVE  EntryInv'
<1>0. CoreInv /\ TypeOK /\ CursorIdle
  BY HasCore DEF IInv, Protect
<1>1. CASE mem' = mem
  <2>1. TreeKept
    BY <1>0, ProtectStep
  <2> QED
    BY <1>1, <2>1, EntriesKept
<1>2. CASE mem' # mem
  <2>0. get_entry(mem, v).err = "Ok"
    BY <1>2 DEF Protect, Fail
  <2>1. PICK t \in Linked, h \in PageSize :
              /\ get_entry(mem, v).table = t /\ get_entry(mem, v).h = h
              /\ call.new = NoFrame /\ root_paddr # NoFrame
              /\ t \in Frame /\ height[t] = h
              /\ p_index(v, h) \in Idx /\ mem[t][p_index(v, h)] \in PTE
              /\ h # 0 => pte_is_huge(mem[t][p_index(v, h)])
              /\ ~Leads(t, p_index(v, h))
    BY <1>0, <2>0, FoundSlot
  <2> DEFINE i == p_index(v, h)
             e == pte_set_flags(mem[t][i], f, h # Size4K)
  <2>2. mem' = [mem EXCEPT ![t][i] = e] /\ UNCHANGED <<height, call>>
    BY <1>2, <2>0, <2>1 DEF Protect, Fail, SetEntry
  <2>3. e \in PTE /\ (h # 0 => pte_is_huge(e))
    BY <2>1, PteTyping, PteHuge DEF Size4K
  <2>4. EntryOK(height[t], e)
    <3> HIDE DEF e
    <3> QED
      BY <2>1, <2>3, GoodEntries
  <2> QED
    BY <1>0, <2>1, <2>2, <2>4, EntryWritten
<1> QED
  BY <1>1, <1>2

\* unmap writes Zero.
LEMMA UnmapEntries ==
    ASSUME IInv, EntryInv, NEW v \in VAddr, Unmap(v)
    PROVE  EntryInv'
<1>0. CoreInv /\ TypeOK /\ CursorIdle
  BY HasCore DEF IInv, Unmap
<1>1. CASE get_entry(mem, v).err # "Ok"
  <2>1. UNCHANGED mem
    BY <1>1 DEF Unmap, Fail
  <2>2. TreeKept
    BY <1>0, UnmapStep
  <2> QED
    BY <2>1, <2>2, EntriesKept
<1>2. CASE get_entry(mem, v).err = "Ok"
  <2>1. PICK t \in Linked, h \in PageSize :
              /\ get_entry(mem, v).table = t /\ get_entry(mem, v).h = h
              /\ call.new = NoFrame /\ root_paddr # NoFrame
              /\ t \in Frame /\ height[t] = h
              /\ p_index(v, h) \in Idx /\ mem[t][p_index(v, h)] \in PTE
              /\ h # 0 => pte_is_huge(mem[t][p_index(v, h)])
              /\ ~Leads(t, p_index(v, h))
    BY <1>0, <1>2, FoundSlot
  <2> DEFINE i == p_index(v, h)
  <2>2. mem' = [mem EXCEPT ![t][i] = Zero] /\ UNCHANGED <<height, call>>
    BY <1>2, <2>1 DEF Unmap, SetEntry
  <2>3. EntryOK(height[t], Zero)
    BY GoodEntries
  <2> QED
    BY <1>0, <2>1, <2>2, <2>3, EntryWritten
<1> QED
  BY <1>1, <1>2

\* The frame that becomes the root is zeroed.
LEMMA LinkRootEntries == ASSUME IInv, EntryInv, LinkRoot PROVE EntryInv'
<1>0. CoreInv
  BY HasCore
<1>1. mem[call.new] = [i \in Idx |-> Zero]
  BY <1>0 DEF LinkRoot, CoreInv, CallInv
<1>2. Linked' = Linked \cup {call.new} /\ UNCHANGED <<mem, height>>
  BY <1>0, LinkRootStep DEF RootLinked
<1>3. ASSUME NEW t \in Linked', NEW i \in Idx PROVE EntryOK(height'[t], mem'[t][i])
  <2>1. CASE t = call.new
    BY <1>1, <1>2, <2>1, GoodEntries
  <2>2. CASE t \in Linked
    BY <1>2, <2>2 DEF EntryInv
  <2> QED
    BY <1>2, <2>1, <2>2
<1> QED
  BY <1>3 DEF EntryInv

\* The frame that becomes a table is zeroed, and the entry that leads to it is
\* present.
LEMMA LinkTableEntries ==
    ASSUME TablesPresent, IInv, EntryInv, LinkTable PROVE EntryInv'
<1> DEFINE t == call.table
           i == p_index(call.vaddr, call.h)
           n == call.new
           e == pte_new_table(n)
<1>0. CoreInv /\ TypeOK
  BY HasCore DEF IInv
<1>1. /\ mem[n] = [j \in Idx |-> Zero] /\ n \in DOMAIN mem
      /\ t \in Linked /\ height[t] = call.h /\ call.vaddr \in VAddr
  BY <1>0 DEF LinkTable, CoreInv, CallInv
<1>2. /\ mem' = [mem EXCEPT ![t][i] = e] /\ UNCHANGED height /\ call'.new = NoFrame
  BY <1>0 DEF LinkTable, SetEntry, CoreInv, TypeOK, CallOK
<1>3. i \in Idx
  BY <1>0, <1>1, SlotTyped
<1>4. n \in Frame /\ t \in DOMAIN mem /\ mem \in [DOMAIN mem -> [Idx -> PTE]]
  BY <1>0, <1>1 DEF TypeOK, Linked, Table
<1>5. EntryOK(height[t], e)
  BY <1>4, GoodEntries
<1>6. /\ DOMAIN mem' = DOMAIN mem
      /\ \A u \in DOMAIN mem, j \in Idx :
            mem'[u][j] = IF u = t /\ j = i THEN e ELSE mem[u][j]
  <2> HIDE DEF t, i, e, n
  <2> QED
    BY <1>2, <1>3, <1>4
<1>7. Linked' \subseteq Linked \cup {n}
  BY <1>6 DEF Linked
<1>8. \A u \in Linked' : u \in DOMAIN mem
  BY <1>6 DEF Linked
<1> HIDE DEF t, i, e, n
<1>9. ASSUME NEW u \in Linked', NEW j \in Idx PROVE EntryOK(height'[u], mem'[u][j])
  <2>1. CASE u = t /\ j = i
    BY <1>2, <1>4, <1>5, <1>6, <2>1
  <2>2. CASE u = n /\ ~(u = t /\ j = i)
    <3>1. mem'[u][j] = Zero
      BY <1>1, <1>6, <1>8, <2>2
    <3> QED
      BY <3>1, GoodEntries
  <2>3. CASE u \in Linked /\ ~(u = t /\ j = i)
    <3>1. mem'[u][j] = mem[u][j]
      BY <1>6, <1>8, <2>3
    <3>2. EntryOK(height[u], mem[u][j])
      BY <2>3 DEF EntryInv
    <3> QED
      BY <1>2, <3>1, <3>2
  <2> QED
    BY <1>7, <2>1, <2>2, <2>3
<1> QED
  BY <1>9 DEF EntryInv

\* A drop leaves other frames alone.
LEMMA DropEntries == ASSUME IInv, EntryInv, Drop PROVE EntryInv'
<1>1. /\ mem' = [f \in DOMAIN mem \ Tree |-> mem[f]]
      /\ height' = [f \in DOMAIN mem \ Tree |-> height[f]]
      /\ call' = call
  BY DEF Drop
<1>2. Linked' \subseteq Linked /\ \A t \in Linked' : t \in DOMAIN mem \ Tree
  BY <1>1 DEF Linked
<1>3. \A t \in Linked' : mem'[t] = mem[t] /\ height'[t] = height[t]
  BY <1>1, <1>2, Zenon
<1> QED
  BY <1>2, <1>3, EntriesSame

\* A step of another operation, that leaves the linked tables alone.
LEMMA OtherEntries ==
    ASSUME IInv, EntryInv, TreeKept, UNCHANGED mem
    PROVE  EntryInv'
BY EntriesKept

\* Every step leaves the entries in order.
LEMMA StepEntries == ASSUME TablesPresent, IInv, EntryInv, [Next]_vars PROVE EntryInv'
<1>0. CoreInv
  BY HasCore
<1>1. CASE Begin
  <2>1. CASE TryNew
    BY <1>0, <2>1, TryNewStep, OtherEntries DEF TryNew
  <2>2. CASE OpenCursor
    BY <1>0, <2>2, OpenCursorStep, OtherEntries DEF OpenCursor
  <2>3. ASSUME NEW v \in VAddr, NEW p \in Target, NEW s \in PageSize, NEW f \in Flags,
               Map(v, p, s, f)
        PROVE  EntryInv'
    BY <1>0, <2>3, MapStep, OtherEntries DEF Map
  <2>4. ASSUME NEW v \in VAddr, NEW p \in Target, NEW f \in Flags, Remap(v, p, f)
        PROVE  EntryInv'
    BY <2>4, RemapEntries
  <2>5. ASSUME NEW v \in VAddr, NEW f \in Flags, Protect(v, f)
        PROVE  EntryInv'
    BY <2>5, ProtectEntries
  <2>6. ASSUME NEW v \in VAddr, Unmap(v)
        PROVE  EntryInv'
    BY <2>6, UnmapEntries
  <2>7. ASSUME NEW op \in {"flush", "drop"}, Flush(op)
        PROVE  EntryInv'
    BY <1>0, <2>7, FlushBeginStep, OtherEntries DEF Flush
  <2>8. CASE Drop
    BY <2>8, DropEntries
  <2> QED
    BY <1>1, <2>1, <2>2, <2>3, <2>4, <2>5, <2>6, <2>7, <2>8 DEF Begin
<1>2. CASE Continue
  <2>1. ASSUME NEW f \in Frame, NEW stale \in StaleTable, AllocFrame(f, stale)
        PROVE  EntryInv'
    BY <1>0, <2>1, AllocFrameStep, AllocOutside, EntriesKept
  <2>2. CASE AllocFail
    BY <1>0, <2>2, AllocFailStep, OtherEntries DEF AllocFail, Fail
  <2>3. CASE ZeroFrame
    BY <1>0, <2>3, ZeroFrameStep, ZeroOutside, EntriesKept
  <2>4. CASE LinkRoot
    BY <2>4, LinkRootEntries
  <2>5. CASE LinkTable
    BY <2>5, LinkTableEntries
  <2>6. CASE MapCreate
    BY <1>0, <2>6, MapCreateStep, OtherEntries DEF MapCreate
  <2>7. CASE MapDescend
    <3>1. UNCHANGED mem
      BY <2>7 DEF MapDescend, Fail
    <3> QED
      BY <1>0, <2>7, <3>1, MapDescendStep, OtherEntries
  <2>8. CASE MapPage
    BY <2>8, MapPageEntries
  <2>9. CASE MapOccupied
    BY <1>0, <2>9, MapOccupiedStep, OtherEntries DEF MapOccupied, Fail
  <2>10. CASE RemapSetFlags
    BY <2>10, RemapSetFlagsEntries
  <2>11. ASSUME NEW v \in VAddr, FlushEntry(v)
         PROVE  EntryInv'
    BY <1>0, <2>11, FlushEntryStep, OtherEntries DEF FlushEntry
  <2>12. CASE FlushAll
    BY <1>0, <2>12, FlushAllStep, OtherEntries DEF FlushAll
  <2>13. CASE FlushDone
    BY <1>0, <2>13, FlushDoneStep, OtherEntries DEF FlushDone
  <2> QED
    BY <1>2, <2>1, <2>2, <2>3, <2>4, <2>5, <2>6, <2>7, <2>8, <2>9, <2>10,
       <2>11, <2>12, <2>13 DEF Continue, Advance
<1>3. CASE UNCHANGED vars
  BY <1>3 DEF vars, EntryInv, Linked
<1> QED
  BY <1>1, <1>2, <1>3 DEF Next

\* Every entry above the last level that leads to a table or is a page shows as
\* present, of every behaviour of a table whose format shows tables as present.
THEOREM EntryInvariance == ASSUME TablesPresent PROVE Spec => [](IInv /\ EntryInv)
<1>1. Init => IInv /\ EntryInv
  BY InitInv DEF Init, EntryInv, Linked
<1>2. (IInv /\ EntryInv) /\ [Next]_vars => (IInv /\ EntryInv)'
  BY StepInv, StepEntries
<1> QED
  BY <1>1, <1>2, PTL DEF Spec

\* walk, with no limit, calls its functions on the pages that query finds,
\* each once, in the order of their addresses and with what query answers.
THEOREM WalkFinds == ASSUME TablesPresent PROVE Spec => []WalkFindsPages
BY EntryInvariance, WalkIsQuery, PTL
===========================================================================
