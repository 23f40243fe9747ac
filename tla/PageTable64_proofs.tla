------------------------- MODULE PageTable64_proofs ------------------------
(***************************************************************************)
(* The safety of PageTable64's tree of tables, for every number of levels, *)
(* entries and frames, every entry format that satisfies the assumptions   *)
(* of GenericPTE, and every allocator.                                     *)
(***************************************************************************)
EXTENDS PageTable64, TLAPS

IInv == TypeOK /\ TreeInv

\* The part of the invariant that an operation relies on, whatever other tables
\* are allocated beside those below its root.
RootOK ==
    IF root_paddr = NoFrame
    THEN flusher.kind = "Closed"
    ELSE root_paddr \in Linked /\ height[root_paddr] = LEVELS - 1

CoreInv == TypeOK /\ RootOK /\ ChildInv /\ CallInv

\* A step that links and unlinks no table.
TreeKept ==
    /\ Linked' = Linked
    /\ root_paddr' = root_paddr
    /\ \A t \in Linked : height'[t] = height[t]
    /\ \A t \in Linked, i \in Idx :
          /\ Leads(t, i)' <=> Leads(t, i)
          /\ Leads(t, i) => mem'[t][i] = mem[t][i]

\* A step that makes the empty table n the root.
RootLinked(n) ==
    /\ n \notin Linked /\ Linked' = Linked \cup {n}
    /\ root_paddr = NoFrame /\ root_paddr' = n
    /\ n # NoFrame /\ height[n] = LEVELS - 1
    /\ UNCHANGED <<mem, height>>
    /\ \A i \in Idx : ~Leads(n, i)

\* A step that makes entry i of t, which led nowhere, lead to the empty table n.
TableLinked(n, t, i) ==
    /\ n \notin Linked /\ Linked' = Linked \cup {n}
    /\ n # root_paddr /\ UNCHANGED <<root_paddr, height>>
    /\ t \in Linked /\ i \in Idx /\ ~Leads(t, i)
    /\ Leads(t, i)' /\ pte_paddr(mem'[t][i]) = n
    /\ \A j \in Idx : ~Leads(n, j)'
    /\ \A t1 \in Linked, j \in Idx :
          t1 # t \/ j # i => /\ Leads(t1, j)' <=> Leads(t1, j)
                            /\ mem'[t1][j] = mem[t1][j]

\* The invariant of the one table has all of it.
LEMMA HasCore == IInv => CoreInv
BY DEF IInv, TreeInv, CoreInv, RootInv, RootOK

---------------------------------------------------------------------------
(* Indices and entries *)

\* Every page size is a positive number of bytes.
LEMMA PageBytesPositive == \A h \in 0 .. 3 : PageBytes(h) \in Nat \ {0}
<1> DEFINE p == PAGE_SIZE_4K
           n == ENTRY_COUNT
<1>0. p \in Nat \ {0} /\ n \in Nat \ {0}
  BY CountAssumption
<1> HIDE DEF p, n
<1>1. \A a, b \in Nat \ {0} : a * b \in Nat \ {0}
  OBVIOUS
<1>2. p * n \in Nat \ {0}
  BY <1>0, <1>1
<1>3. (p * n) * n \in Nat \ {0}
  BY <1>0, <1>1, <1>2
<1>4. ((p * n) * n) * n \in Nat \ {0}
  BY <1>0, <1>1, <1>3
<1>5. TAKE h \in 0 .. 3
<1>6. CASE h = 0
  BY <1>0, <1>6 DEF PageBytes, p
<1>7. CASE h = 1
  BY <1>2, <1>7 DEF PageBytes, p, n
<1>8. CASE h = 2
  BY <1>3, <1>8 DEF PageBytes, p, n
<1>9. CASE h = 3
  BY <1>4, <1>9 DEF PageBytes, p, n
<1> QED
  BY <1>6, <1>7, <1>8, <1>9

\* Pages are written in tables of heights 0 to 2.
LEMMA SizeIsHeight == \A s \in PageSize : s \in 0 .. LEVELS
BY LevelsAssumption DEF PageSize, Size4K, Size2M, Size1G

\* An address has an entry in a table of every height.
LEMMA IndexInTable == \A v \in VAddr, h \in H : p_index(v, h) \in Idx
<1> TAKE v \in VAddr, h \in H
<1>1. PageBytes(h) \in Nat \ {0}
  BY PageBytesPositive, LevelsAssumption DEF H
<1>2. v \in Nat /\ ENTRY_COUNT \in Nat \ {0}
  BY CountAssumption
<1>3. v \div PageBytes(h) \in Int
  BY <1>1, <1>2
<1> QED
  BY <1>2, <1>3 DEF p_index, Idx

\* What makes an entry lead to a table: it is neither zero nor huge, and the
\* entry that links a frame leads to it.
LEMMA TableEntries ==
    /\ ~IsTable(Zero)
    /\ \A e \in PTE : pte_is_huge(e) => ~IsTable(e)
    /\ \A f \in Frame : IsTable(pte_new_table(f)) /\ pte_paddr(pte_new_table(f)) = f
BY PteTyping, PteUnused, PteTable, AllocAssumption DEF IsTable, next_table

\* The type invariant gives entries to the slots of allocated tables.
LEMMA EntriesTyped ==
    ASSUME TypeOK
    PROVE  \A t \in DOMAIN mem, i \in Idx : mem[t][i] \in PTE
BY DEF TypeOK, Table
---------------------------------------------------------------------------
(* The descent *)

\* One step down: a linked table above the last level leads, by an entry
\* that next_table accepts, to a linked table one level below.
LEMMA Descent ==
    ASSUME TypeOK, ChildInv,
           NEW t \in Linked, NEW v \in VAddr,
           height[t] > 0, IsTable(mem[t][p_index(v, height[t])])
    PROVE  LET c == pte_paddr(mem[t][p_index(v, height[t])])
           IN  c \in Linked /\ height[c] = height[t] - 1
<1>1. height[t] \in H
  BY DEF TypeOK, Linked
<1>2. p_index(v, height[t]) \in Idx
  BY <1>1, IndexInTable
<1> QED
  BY <1>2 DEF ChildInv, Leads

\* Where get_entry ends without an error: at a slot of a linked table, of
\* the height it says, and above the last level only at a huge entry.
SlotOK(s, v) ==
    s.err = "Ok" =>
        /\ s.table \in Linked
        /\ s.h \in PageSize
        /\ height[s.table] = s.h
        /\ s.h # 0 => pte_is_huge(mem[s.table][p_index(v, s.h)])

\* A descent at p1 ends at the entry of the address, in its table.
LEMMA GetP1 ==
    ASSUME NEW v \in VAddr, NEW t \in Linked, height[t] = 0
    PROVE  SlotOK(get_p1(mem, t, v), v)
BY DEF SlotOK, get_p1, Slot, PageSize, Size4K, Size2M, Size1G

\* A descent from a linked table of height 1 ends at a linked table.
LEMMA GetP2 ==
    ASSUME TypeOK, ChildInv, NEW v \in VAddr, NEW t \in Linked, height[t] = 1
    PROVE  SlotOK(get_p2(mem, t, v), v)
<1> DEFINE e == mem[t][p_index(v, 1)]
<1>1. CASE pte_is_huge(e)
  BY <1>1 DEF SlotOK, get_p2, Slot, PageSize, Size4K, Size2M, Size1G
<1>2. CASE ~pte_is_huge(e) /\ ~IsTable(e)
  <2>1. get_p2(mem, t, v) = NoSlot(next_table(e).err)
    BY <1>2 DEF get_p2
  <2> QED
    BY <1>2, <2>1 DEF SlotOK, NoSlot, IsTable
<1>3. CASE ~pte_is_huge(e) /\ IsTable(e)
  <2>1. pte_paddr(e) \in Linked /\ height[pte_paddr(e)] = 0
    BY <1>3, Descent
  <2>2. get_p2(mem, t, v) = get_p1(mem, pte_paddr(e), v)
    BY <1>3 DEF get_p2
  <2> QED
    BY <2>1, <2>2, GetP1
<1> QED
  BY <1>1, <1>2, <1>3

\* A descent from a linked table of height 2 ends at a linked table.
LEMMA GetP3 ==
    ASSUME TypeOK, ChildInv, NEW v \in VAddr, NEW t \in Linked, height[t] = 2
    PROVE  SlotOK(get_p3(mem, t, v), v)
<1> DEFINE e == mem[t][p_index(v, 2)]
<1>1. CASE pte_is_huge(e)
  BY <1>1 DEF SlotOK, get_p3, Slot, PageSize, Size4K, Size2M, Size1G
<1>2. CASE ~pte_is_huge(e) /\ ~IsTable(e)
  <2>1. get_p3(mem, t, v) = NoSlot(next_table(e).err)
    BY <1>2 DEF get_p3
  <2> QED
    BY <1>2, <2>1 DEF SlotOK, NoSlot, IsTable
<1>3. CASE ~pte_is_huge(e) /\ IsTable(e)
  <2>1. pte_paddr(e) \in Linked /\ height[pte_paddr(e)] = 1
    BY <1>3, Descent
  <2>2. get_p3(mem, t, v) = get_p2(mem, pte_paddr(e), v)
    BY <1>3 DEF get_p3
  <2> QED
    BY <2>1, <2>2, GetP2
<1> QED
  BY <1>1, <1>2, <1>3

\* A descent from a linked table of height 3 ends at a linked table.
LEMMA GetP4 ==
    ASSUME TypeOK, ChildInv, NEW v \in VAddr, NEW t \in Linked, height[t] = 3
    PROVE  SlotOK(get_p4(mem, t, v), v)
<1> DEFINE e == mem[t][p_index(v, 3)]
<1>1. CASE ~IsTable(e)
  <2>1. get_p4(mem, t, v) = NoSlot(next_table(e).err)
    BY <1>1 DEF get_p4
  <2> QED
    BY <1>1, <2>1 DEF SlotOK, NoSlot, IsTable
<1>2. CASE IsTable(e)
  <2>1. pte_paddr(e) \in Linked /\ height[pte_paddr(e)] = 2
    BY <1>2, Descent
  <2>2. get_p4(mem, t, v) = get_p3(mem, pte_paddr(e), v)
    BY <1>2 DEF get_p4
  <2> QED
    BY <2>1, <2>2, GetP3
<1> QED
  BY <1>1, <1>2

\* get_entry and get_entry_mut end at a slot of the tree.
LEMMA GetEntry ==
    ASSUME TypeOK, RootOK, ChildInv, root_paddr # NoFrame, NEW v \in VAddr
    PROVE  SlotOK(get_entry(mem, v), v)
<1>1. root_paddr \in Linked /\ height[root_paddr] = LEVELS - 1
  BY DEF RootOK
<1>2. CASE LEVELS = 3
  BY <1>1, <1>2, GetP3 DEF get_entry
<1>3. CASE LEVELS = 4
  BY <1>1, <1>3, GetP4 DEF get_entry
<1> QED
  BY <1>2, <1>3, LevelsAssumption
---------------------------------------------------------------------------
(* Writes *)

\* A step that keeps the tables and changes no entry that leads to a table,
\* and makes no other entry lead to one, keeps the tree.
LEMMA SameTree ==
    ASSUME TreeKept
    PROVE  /\ ChildInv => ChildInv'
           /\ UniqueInv => UniqueInv'
           /\ ParentInv => ParentInv'
<1>1. ChildInv => ChildInv'
  BY DEF ChildInv, TreeKept
<1>2. UniqueInv => UniqueInv'
  BY DEF UniqueInv, TreeKept
<1>3. ParentInv => ParentInv'
  <2> SUFFICES ASSUME ParentInv, NEW c \in Linked \ {root_paddr}
               PROVE  \E t \in Linked, i \in Idx :
                          Leads(t, i)' /\ pte_paddr(mem'[t][i]) = c
    BY DEF ParentInv, TreeKept
  <2>1. PICK t \in Linked, i \in Idx : Leads(t, i) /\ pte_paddr(mem[t][i]) = c
    BY DEF ParentInv
  <2> QED
    BY <2>1 DEF TreeKept
<1> QED
  BY <1>1, <1>2, <1>3

\* A write to an entry of a linked table that leads to no table, of an entry
\* that leads to none either or sits on the last level, keeps the tree.
LEMMA WriteLeaf ==
    ASSUME TypeOK,
           NEW t \in Linked, NEW i \in Idx, NEW e \in PTE,
           ~Leads(t, i), height[t] = 0 \/ ~IsTable(e),
           mem' = [mem EXCEPT ![t][i] = e],
           UNCHANGED <<height, root_paddr>>, call'.new = call.new
    PROVE  /\ mem' \in [DOMAIN mem' -> Table]
           /\ DOMAIN mem' = DOMAIN mem
           /\ mem'[t][i] = e
           /\ TreeKept
<1>1. t \in DOMAIN mem /\ mem[t] \in Table
  BY DEF Linked, TypeOK
<1>2. DOMAIN mem' = DOMAIN mem
  OBVIOUS
<1>3. [mem[t] EXCEPT ![i] = e] \in Table
  BY <1>1 DEF Table
<1>4. mem' \in [DOMAIN mem' -> Table]
  BY <1>1, <1>2, <1>3 DEF TypeOK
<1>5. Linked' = Linked
  BY <1>2 DEF Linked
<1>6. \A t1 \in Linked, i1 \in Idx :
         mem'[t1][i1] = IF t1 = t /\ i1 = i THEN e ELSE mem[t1][i1]
  BY <1>1 DEF Linked, TypeOK, Table
<1>7. \A t1 \in Linked, i1 \in Idx :
         /\ Leads(t1, i1)' <=> Leads(t1, i1)
         /\ Leads(t1, i1) => mem'[t1][i1] = mem[t1][i1]
  <2> SUFFICES ASSUME NEW t1 \in Linked, NEW i1 \in Idx
               PROVE  /\ Leads(t1, i1)' <=> Leads(t1, i1)
                      /\ Leads(t1, i1) => mem'[t1][i1] = mem[t1][i1]
    OBVIOUS
  <2>1. Leads(t1, i1)' <=> height[t1] > 0 /\ IsTable(mem'[t1][i1])
    BY DEF Leads
  <2>2. CASE t1 = t /\ i1 = i
    <3>1. mem'[t1][i1] = e
      BY <1>6, <2>2
    <3>2. ~Leads(t1, i1)
      BY <2>2
    <3>3. height[t] \in Int
      BY <1>1 DEF TypeOK, H
    <3>4. ~(height[t1] > 0 /\ IsTable(e))
      BY <2>2, <3>3
    <3> QED
      BY <2>1, <3>1, <3>2, <3>4
  <2>3. CASE ~(t1 = t /\ i1 = i)
    <3>1. mem'[t1][i1] = mem[t1][i1]
      BY <1>6, <2>3
    <3> QED
      BY <2>1, <3>1 DEF Leads
  <2> QED
    BY <2>2, <2>3
<1> QED
  BY <1>1, <1>2, <1>4, <1>5, <1>6, <1>7 DEF TreeKept

\* push keeps the flusher within its array.
LEMMA PushTyped ==
    ASSUME FlusherOK, NEW v \in VAddr, flusher' = push(flusher, v)
    PROVE  FlusherOK'
<1>1. SMALL_FLUSH_THRESHOLD \in Nat \ {0}
  BY CountAssumption
<1>2. CASE flusher.kind = "None"
  BY <1>1, <1>2 DEF FlusherOK, push, Flusher
<1>3. CASE flusher.kind = "Array" /\ Len(flusher.arr) < SMALL_FLUSH_THRESHOLD
  <2>1. flusher' = [kind |-> "Array", arr |-> Append(flusher.arr, v)]
    BY <1>3 DEF push, Flusher
  <2>2. Append(flusher.arr, v) \in Seq(VAddr)
    BY DEF FlusherOK
  <2>3. Len(Append(flusher.arr, v)) <= SMALL_FLUSH_THRESHOLD
    BY <1>1, <1>3 DEF FlusherOK
  <2> QED
    BY <2>1, <2>2, <2>3 DEF FlusherOK
<1>4. CASE flusher.kind = "Array" /\ ~(Len(flusher.arr) < SMALL_FLUSH_THRESHOLD)
  BY <1>1, <1>4 DEF FlusherOK, push, Flusher
<1>5. CASE flusher.kind \notin {"None", "Array"}
  BY <1>5 DEF FlusherOK, push
<1> QED
  BY <1>2, <1>3, <1>4, <1>5

\* No operation in progress: nothing is known and nothing is needed.
LEMMA NoCallInv ==
    ASSUME call' = NoCall
    PROVE  CallOK' /\ CallInv'
<1>1. PA0 \in PAddr
  BY PteTyping
<1>2. CallOK'
  BY <1>1, LevelsAssumption
     DEF CallOK, NoCall, PageSize, Size4K, Size2M, Size1G
<1>3. CallInv'
  BY DEF CallInv, NoCall, Idle
<1> QED
  BY <1>2, <1>3

\* A step that changes only the operation in progress keeps the tree.
LEMMA SameMemory ==
    ASSUME CoreInv, UNCHANGED <<mem, height, root_paddr, flusher>>,
           call'.new = call.new, CallOK', CallInv'
    PROVE  CoreInv' /\ TreeKept
<1>1. Linked' = Linked
  BY DEF Linked
<1>2. TypeOK'
  BY DEF CoreInv, TypeOK, FlusherOK
<1>3. RootOK'
  BY <1>1 DEF CoreInv, RootOK
<1>4. TreeKept
  BY <1>1 DEF TreeKept, Leads
<1> QED
  BY <1>2, <1>3, <1>4, SameTree DEF CoreInv

\* An operation that returns without an effect.
LEMMA Returns ==
    ASSUME CoreInv, call.new = NoFrame, call' = NoCall,
           UNCHANGED <<mem, height, root_paddr, flusher>>
    PROVE  CoreInv' /\ TreeKept
<1>1. call'.new = call.new
  BY DEF NoCall
<1> QED
  BY <1>1, NoCallInv, SameMemory

\* Between operations every allocated frame is linked.
LEMMA IdleNoNew ==
    ASSUME CoreInv, Idle
    PROVE  call = NoCall /\ call.new = NoFrame
BY DEF CoreInv, CallInv, Idle, NoCall
---------------------------------------------------------------------------
(* try_new and alloc_table *)

\* try_new begins with no frame allocated.
LEMMA TryNewStep == CoreInv /\ TryNew => CoreInv' /\ TreeKept
<1> SUFFICES ASSUME CoreInv, TryNew PROVE CoreInv' /\ TreeKept
  OBVIOUS
<1>1. call = NoCall /\ call.new = NoFrame
  BY IdleNoNew DEF TryNew
<1>2. call' = [NoCall EXCEPT !.pc = "Alloc", !.op = "try_new", !.h = LEVELS]
  BY DEF TryNew
<1>3. CallOK'
  <2>1. call' = [pc |-> "Alloc", op |-> "try_new", vaddr |-> 0, target |-> PA0,
                 size |-> 0, flags |-> {}, table |-> NoFrame, h |-> LEVELS,
                 new |-> NoFrame]
    BY <1>2 DEF NoCall
  <2>2. LEVELS \in 0 .. LEVELS /\ PA0 \in PAddr /\ 0 \in PageSize
    BY PteTyping, LevelsAssumption DEF PageSize, Size4K, Size2M, Size1G
  <2> QED
    BY <2>1, <2>2 DEF CallOK
<1>4. CallInv'
  BY <1>2 DEF TryNew, CallInv, NoCall, Idle
<1>5. call'.new = call.new
  BY <1>1, <1>2 DEF NoCall
<1> QED
  BY <1>3, <1>4, <1>5, SameMemory DEF TryNew

\* alloc_frame returns a frame that no table uses: it joins the memory unlinked.
LEMMA AllocFrameStep ==
    ASSUME CoreInv, NEW f \in Frame, NEW stale \in StaleTable, AllocFrame(f, stale)
    PROVE  CoreInv' /\ TreeKept
<1>1. /\ call.pc = "Alloc"
      /\ call' = [call EXCEPT !.pc = "Zero", !.new = f]
      /\ UNCHANGED <<root_paddr, flusher>>
  BY DEF AllocFrame
<1>2. f \notin DOMAIN mem
  BY AllocAssumption DEF AllocFrame, CoreInv, TypeOK
<1>3. /\ DOMAIN mem' = DOMAIN mem \cup {f}
      /\ mem'[f] = stale
      /\ \A g \in DOMAIN mem : mem'[g] = mem[g]
  BY <1>2 DEF AllocFrame
<1>4. /\ DOMAIN height' = DOMAIN mem \cup {f}
      /\ height'[f] = call.h - 1
      /\ \A g \in DOMAIN mem : height'[g] = height[g]
  BY <1>2 DEF AllocFrame
<1>5. call.new = NoFrame /\ call \in [pc : {"Alloc"}, op : {"try_new", "map"},
              vaddr : VAddr \cup {0}, target : PAddr, size : PageSize,
              flags : Flags \cup {{}}, table : Frame \cup {NoFrame},
              h : 0 .. LEVELS, new : Frame \cup {NoFrame}]
  BY <1>1 DEF CoreInv, TypeOK, CallOK, CallInv
<1>6. Linked' = Linked /\ Linked = DOMAIN mem
  <2>1. call'.new = f
    BY <1>1, <1>5
  <2>2. NoFrame \notin DOMAIN mem
    BY AllocAssumption DEF CoreInv, TypeOK
  <2> QED
    BY <1>2, <1>3, <1>5, <2>1, <2>2 DEF Linked
<1>7. call.h - 1 \in H
  BY <1>1, <1>5, LevelsAssumption
     DEF CoreInv, CallInv, H, PageSize, Size4K, Size2M, Size1G
<1>8. TypeOK'
  <2>1. mem' \in [DOMAIN mem' -> Table]
    BY AllocAssumption DEF AllocFrame, CoreInv, TypeOK
  <2>2. height' \in [DOMAIN mem' -> H]
    BY <1>7 DEF AllocFrame, CoreInv, TypeOK
  <2>3. CallOK'
    BY <1>1, <1>5 DEF CallOK
  <2> QED
    BY <1>1, <1>3, <2>1, <2>2, <2>3 DEF CoreInv, TypeOK, FlusherOK
<1>9. RootOK'
  BY <1>1, <1>4, <1>6 DEF CoreInv, RootOK
<1>10. TreeKept
  <2>1. \A t \in Linked, i \in Idx :
           (Leads(t, i)' <=> Leads(t, i)) /\ mem'[t][i] = mem[t][i]
    BY <1>3, <1>4, <1>6 DEF Leads
  <2> QED
    BY <1>1, <1>4, <1>6, <2>1 DEF TreeKept
<1>11. CallInv'
  <2>1. /\ call'.pc = "Zero" /\ call'.new = f /\ call'.h = call.h
        /\ call'.op = call.op /\ call'.size = call.size
        /\ call'.target = call.target /\ call'.flags = call.flags
        /\ call'.vaddr = call.vaddr /\ call'.table = call.table
    BY <1>1, <1>5
  <2>2. call.op = "map" => MapEntry' = MapEntry
    BY <1>3, <1>6, <1>1, <2>1 DEF MapEntry, CoreInv, CallInv
  <2>3. call.op = "map" => height'[call.table] = height[call.table]
    BY <1>4, <1>6, <1>1 DEF CoreInv, CallInv
  <2> QED
    BY <1>1, <1>3, <1>4, <1>5, <1>6, <2>1, <2>2, <2>3
       DEF CoreInv, CallInv, Idle
<1> QED
  BY <1>8, <1>9, <1>10, <1>11, SameTree DEF CoreInv

\* A failed allocation leaves the tables already linked, as a tree.
LEMMA AllocFailStep == CoreInv /\ AllocFail => CoreInv' /\ TreeKept
<1> SUFFICES ASSUME CoreInv, AllocFail PROVE CoreInv' /\ TreeKept
  OBVIOUS
<1>1. call.new = NoFrame
  BY DEF AllocFail, CoreInv, CallInv
<1> QED
  BY <1>1, Returns DEF AllocFail, Fail

\* Zeroing writes the frame that is not linked yet.
LEMMA ZeroFrameStep == CoreInv /\ ZeroFrame => CoreInv' /\ TreeKept
<1> SUFFICES ASSUME CoreInv, ZeroFrame PROVE CoreInv' /\ TreeKept
  OBVIOUS
<1>1. /\ call.pc = "Zero"
      /\ call' = [call EXCEPT !.pc = "Link"]
      /\ mem' = [mem EXCEPT ![call.new] = [i \in Idx |-> Zero]]
      /\ UNCHANGED <<height, root_paddr, flusher>>
  BY DEF ZeroFrame
<1>2. call.new \in DOMAIN mem /\ height[call.new] = call.h - 1
  BY <1>1 DEF CoreInv, CallInv
<1>3. CallOK' /\ call'.pc = "Link" /\ call'.new = call.new /\ call'.h = call.h
      /\ call'.op = call.op /\ call'.size = call.size
      /\ call'.target = call.target /\ call'.flags = call.flags
      /\ call'.vaddr = call.vaddr /\ call'.table = call.table
  BY <1>1 DEF CoreInv, TypeOK, CallOK
<1>4. DOMAIN mem' = DOMAIN mem /\ Linked' = Linked
  BY <1>1, <1>3 DEF Linked
<1>5. \A t \in Linked : mem'[t] = mem[t]
  BY <1>1 DEF Linked
<1>6. mem'[call.new] = [i \in Idx |-> Zero]
  BY <1>1, <1>2
<1>7. TypeOK'
  <2>1. [i \in Idx |-> Zero] \in Table
    BY PteTyping DEF Table
  <2>2. mem' \in [DOMAIN mem' -> Table]
    BY <1>1, <2>1 DEF CoreInv, TypeOK
  <2> QED
    BY <1>1, <1>3, <1>4, <2>2 DEF CoreInv, TypeOK, FlusherOK
<1>8. RootOK'
  BY <1>1, <1>4 DEF CoreInv, RootOK
<1>9. TreeKept
  BY <1>1, <1>4, <1>5 DEF TreeKept, Leads
<1>10. CallInv'
  <2>1. call.op = "map" => MapEntry' = MapEntry
    BY <1>1, <1>3, <1>5 DEF MapEntry, CoreInv, CallInv
  <2> QED
    BY <1>1, <1>2, <1>3, <1>4, <1>6, <2>1 DEF CoreInv, CallInv, Idle
<1> QED
  BY <1>7, <1>8, <1>9, <1>10, SameTree DEF CoreInv

\* The zeroed frame becomes the root: a tree of one empty table.
LEMMA LinkRootStep == CoreInv /\ LinkRoot => CoreInv' /\ RootLinked(call.new)
<1> SUFFICES ASSUME CoreInv, LinkRoot PROVE CoreInv' /\ RootLinked(call.new)
  OBVIOUS
<1>1. /\ call.pc = "Link" /\ call.op = "try_new"
      /\ root_paddr' = call.new /\ call' = NoCall
      /\ UNCHANGED <<mem, height, flusher>>
  BY DEF LinkRoot
<1>2. /\ call.new \in DOMAIN mem
      /\ height[call.new] = LEVELS - 1
      /\ mem[call.new] = [i \in Idx |-> Zero]
      /\ root_paddr = NoFrame
  BY <1>1 DEF CoreInv, CallInv
<1>3. call.new \in Frame /\ call.new # NoFrame /\ NoFrame \notin DOMAIN mem
  BY <1>2, AllocAssumption DEF CoreInv, TypeOK
<1>4. Linked' = Linked \cup {call.new} /\ call.new \notin Linked
  BY <1>1, <1>2, <1>3 DEF Linked, NoCall
<1>5. CallOK' /\ CallInv'
  BY <1>1, NoCallInv
<1>6. TypeOK'
  BY <1>1, <1>3, <1>5 DEF CoreInv, TypeOK, FlusherOK
<1>7. RootOK'
  BY <1>1, <1>2, <1>3, <1>4 DEF RootOK
<1>8. \A i \in Idx : ~Leads(call.new, i)
  BY <1>2, TableEntries DEF Leads
<1>9. ChildInv'
  BY <1>1, <1>4, <1>8 DEF CoreInv, ChildInv, Leads
<1> QED
  BY <1>1, <1>2, <1>3, <1>4, <1>5, <1>6, <1>7, <1>8, <1>9 DEF CoreInv, RootLinked

\* A root with an empty table is a tree when nothing else is linked.
LEMMA LinkRootTree ==
    ASSUME IInv, CoreInv', NEW n, RootLinked(n)
    PROVE  IInv'
<1>1. Linked' = {n} /\ root_paddr' = n
  BY DEF RootLinked, IInv, TreeInv, RootInv
<1>2. \A i \in Idx : ~Leads(n, i)'
  BY DEF RootLinked, Leads
<1>3. RootInv'
  BY <1>1 DEF RootLinked, CoreInv, RootOK, RootInv
<1> QED
  BY <1>1, <1>2, <1>3 DEF IInv, TreeInv, CoreInv, UniqueInv, ParentInv
---------------------------------------------------------------------------
(* map *)

\* Opening a cursor touches no table.
LEMMA OpenCursorStep == CoreInv /\ OpenCursor => CoreInv' /\ TreeKept
<1> SUFFICES ASSUME CoreInv, OpenCursor PROVE CoreInv' /\ TreeKept
  OBVIOUS
<1>1. /\ flusher' = [kind |-> "None", arr |-> <<>>]
      /\ root_paddr # NoFrame
      /\ UNCHANGED <<mem, height, root_paddr, call>>
  BY DEF OpenCursor, Flusher
<1>2. Linked' = Linked
  BY <1>1 DEF Linked
<1>3. FlusherOK'
  BY <1>1, CountAssumption DEF FlusherOK
<1>4. TypeOK'
  BY <1>1, <1>3 DEF CoreInv, TypeOK, CallOK
<1>5. RootOK'
  BY <1>1, <1>2 DEF CoreInv, RootOK
<1>6. TreeKept
  BY <1>1, <1>2 DEF TreeKept, Leads
<1>7. CallInv'
  BY <1>1, <1>2 DEF CoreInv, CallInv, Idle, MapEntry
<1> QED
  BY <1>4, <1>5, <1>6, <1>7, SameTree DEF CoreInv

\* map begins its descent at the root.
LEMMA MapStep ==
    ASSUME CoreInv, NEW v \in VAddr, NEW p \in Target, NEW s \in PageSize,
           NEW f \in Flags, Map(v, p, s, f)
    PROVE  CoreInv' /\ TreeKept
<1>1. call' = [pc |-> "Descend", op |-> "map", vaddr |-> v, target |-> p,
               size |-> s, flags |-> f, table |-> root_paddr,
               h |-> LEVELS - 1, new |-> NoFrame]
  BY DEF Map
<1>2. root_paddr # NoFrame /\ root_paddr \in Linked /\ height[root_paddr] = LEVELS - 1
  BY DEF Map, CursorIdle, CoreInv, RootOK
<1>3. call.new = NoFrame
  BY IdleNoNew DEF Map, CursorIdle
<1>4. LEVELS - 1 \in 0 .. LEVELS /\ LEVELS - 1 >= s
  BY LevelsAssumption DEF PageSize, Size4K, Size2M, Size1G
<1>5. CallOK'
  <2>1. p \in PAddr /\ root_paddr \in Frame
    BY <1>2, CountAssumption DEF CoreInv, TypeOK
  <2> QED
    BY <1>1, <1>4, <2>1 DEF CallOK
<1>6. UNCHANGED <<mem, height, root_paddr, flusher>> /\ call'.new = call.new
  BY <1>1, <1>3 DEF Map
<1>7. Linked' = Linked
  BY <1>6 DEF Linked
<1>8. CallInv'
  BY <1>1, <1>2, <1>4, <1>6, <1>7 DEF CallInv, Idle
<1> QED
  BY <1>5, <1>6, <1>8, SameMemory

\* An unused entry on the way down is about to get a table.
LEMMA MapCreateStep == CoreInv /\ MapCreate => CoreInv' /\ TreeKept
<1> SUFFICES ASSUME CoreInv, MapCreate PROVE CoreInv' /\ TreeKept
  OBVIOUS
<1>1. /\ call.pc = "Descend" /\ call.h > call.size /\ pte_is_unused(MapEntry)
      /\ call' = [call EXCEPT !.pc = "Alloc"]
      /\ UNCHANGED <<mem, height, root_paddr, flusher>>
  BY DEF MapCreate
<1>2. CallOK' /\ call'.pc = "Alloc" /\ call'.new = call.new /\ call'.h = call.h
      /\ call'.op = call.op /\ call'.size = call.size
      /\ call'.target = call.target /\ call'.flags = call.flags
      /\ call'.vaddr = call.vaddr /\ call'.table = call.table
  BY <1>1 DEF CoreInv, TypeOK, CallOK
<1>3. Linked' = Linked /\ MapEntry' = MapEntry
  BY <1>1, <1>2 DEF Linked, MapEntry
<1>4. call.op = "map" /\ call.table \in Linked /\ call.vaddr \in VAddr
      /\ height[call.table] = call.h
  BY <1>1 DEF CoreInv, CallInv
<1>5. MapEntry \in PTE
  <2>1. call.table \in DOMAIN mem /\ call.h \in H
    BY <1>4 DEF Linked, CoreInv, TypeOK
  <2>2. p_index(call.vaddr, call.h) \in Idx
    BY <1>4, <2>1, IndexInTable
  <2> QED
    BY <2>1, <2>2, EntriesTyped DEF MapEntry, CoreInv
<1>6. MapEntry = Zero
  BY <1>1, <1>5, PteUnused
<1>7. CallInv'
  BY <1>1, <1>2, <1>3, <1>4, <1>6 DEF CoreInv, CallInv, Idle
<1> QED
  BY <1>1, <1>2, <1>7, SameMemory

\* A new table is linked: the tree gains it below the entry that was unused.
LEMMA LinkTableStep ==
    CoreInv /\ LinkTable => CoreInv' /\ \E n, t, i : TableLinked(n, t, i)
<1> SUFFICES ASSUME CoreInv, LinkTable
             PROVE  CoreInv' /\ \E n, t, i : TableLinked(n, t, i)
  OBVIOUS
<1>0. PICK t, i, n : t = call.table /\ i = p_index(call.vaddr, call.h) /\ n = call.new
  OBVIOUS
<1> DEFINE e == pte_new_table(n)
<1>1. /\ call.pc = "Link" /\ call.op = "map"
      /\ mem' = [mem EXCEPT ![t][i] = e]
      /\ call' = [call EXCEPT !.pc = "Descend", !.table = n,
                              !.h = call.h - 1, !.new = NoFrame]
      /\ UNCHANGED <<height, root_paddr, flusher>>
  BY <1>0 DEF LinkTable, SetEntry
<1>2. /\ root_paddr # NoFrame /\ call.vaddr \in VAddr /\ call.flags \in Flags
      /\ t \in Linked /\ height[t] = call.h /\ call.h > call.size
      /\ mem[t][i] = Zero /\ call.target \in Target
      /\ n \in DOMAIN mem /\ height[n] = call.h - 1
      /\ mem[n] = [j \in Idx |-> Zero]
  BY <1>0, <1>1 DEF CoreInv, CallInv, MapEntry
<1>3. /\ t \in DOMAIN mem /\ t # n /\ call.h \in H /\ i \in Idx
      /\ n \in Frame /\ n # NoFrame /\ mem[t] \in Table /\ call.size \in PageSize
  BY <1>0, <1>2, AllocAssumption, IndexInTable DEF Linked, CoreInv, TypeOK, CallOK
<1>4. e \in PTE /\ IsTable(e) /\ pte_paddr(e) = n
  BY <1>3, TableEntries, PteTyping, AllocAssumption
<1>5. /\ DOMAIN mem' = DOMAIN mem
      /\ \A t1 \in DOMAIN mem, i1 \in Idx :
            mem'[t1][i1] = IF t1 = t /\ i1 = i THEN e ELSE mem[t1][i1]
      /\ mem' \in [DOMAIN mem' -> Table]
  <2>1. [mem[t] EXCEPT ![i] = e] \in Table
    BY <1>3, <1>4 DEF Table
  <2>2. \A t1 \in DOMAIN mem : mem[t1] \in Table
    BY DEF CoreInv, TypeOK
  <2> QED
    BY <1>1, <1>3, <2>1, <2>2 DEF Table, CoreInv, TypeOK
<1>6. /\ call'.pc = "Descend" /\ call'.op = "map" /\ call'.table = n
      /\ call'.h = call.h - 1 /\ call'.new = NoFrame
      /\ call'.size = call.size /\ call'.vaddr = call.vaddr
      /\ call'.target = call.target /\ call'.flags = call.flags
  BY <1>1 DEF CoreInv, TypeOK, CallOK
<1>7. Linked' = Linked \cup {n} /\ n \notin Linked
  <2>1. NoFrame \notin DOMAIN mem
    BY AllocAssumption DEF CoreInv, TypeOK
  <2> QED
    BY <1>0, <1>2, <1>5, <1>6, <2>1 DEF Linked
<1>8. call.h \in Int /\ call.h > 0
  BY <1>2, <1>3, LevelsAssumption DEF H, PageSize, Size4K, Size2M, Size1G
<1>9. CallOK'
  <2>1. call.h - 1 \in 0 .. LEVELS
    BY <1>3, <1>8, LevelsAssumption DEF H
  <2> QED
    BY <1>1, <1>3, <2>1 DEF CoreInv, TypeOK, CallOK
<1>10. TypeOK'
  BY <1>1, <1>5, <1>9 DEF CoreInv, TypeOK, FlusherOK
<1>11. RootOK'
  BY <1>1, <1>2, <1>7 DEF CoreInv, RootOK
<1>12. /\ \A j \in Idx : ~(height'[n] > 0 /\ IsTable(mem'[n][j]))
       /\ \A t1 \in Linked, i1 \in Idx :
             (t1 # t \/ i1 # i) =>
                /\ Leads(t1, i1)' <=> Leads(t1, i1)
                /\ mem'[t1][i1] = mem[t1][i1]
       /\ Leads(t, i) = FALSE
       /\ height'[t] > 0 /\ IsTable(mem'[t][i]) /\ mem'[t][i] = e
  <2>1. \A j \in Idx : mem'[n][j] = Zero
    BY <1>2, <1>3, <1>5
  <2>2. \A t1 \in Linked, i1 \in Idx :
             (t1 # t \/ i1 # i) => mem'[t1][i1] = mem[t1][i1]
    BY <1>5 DEF Linked
  <2>3. mem'[t][i] = e
    BY <1>3, <1>5
  <2> QED
    BY <1>1, <1>2, <1>4, <1>8, <2>1, <2>2, <2>3, TableEntries DEF Leads
<1>13. n # root_paddr
  <2>1. root_paddr \in Linked
    BY <1>2 DEF CoreInv, RootOK
  <2> QED
    BY <1>7, <2>1
<1>14. ChildInv'
  <2> SUFFICES ASSUME NEW t1 \in Linked', NEW i1 \in Idx,
                      height'[t1] > 0, IsTable(mem'[t1][i1])
               PROVE  /\ pte_paddr(mem'[t1][i1]) \in Linked'
                      /\ height'[pte_paddr(mem'[t1][i1])] = height'[t1] - 1
    BY DEF ChildInv, Leads
  <2>1. CASE t1 = t /\ i1 = i
    BY <1>1, <1>2, <1>4, <1>7, <1>12, <2>1
  <2>2. CASE t1 \in Linked /\ (t1 # t \/ i1 # i)
    BY <1>1, <1>7, <1>12, <2>2 DEF CoreInv, ChildInv, Leads
  <2> QED
    BY <1>7, <1>12, <2>1, <2>2
<1>15. CallInv'
  <2>1. call.h - 1 >= call.size
    BY <1>2, <1>3, <1>8 DEF PageSize, Size4K, Size2M, Size1G
  <2>2. n \in Linked' /\ height'[n] = call.h - 1
    BY <1>1, <1>2, <1>7
  <2> QED
    BY <1>1, <1>2, <1>6, <2>1, <2>2 DEF CallInv, Idle
<1>16. TableLinked(n, t, i)
  <2>1. Leads(t, i)'
    BY <1>12 DEF Leads
  <2>2. \A j \in Idx : ~Leads(n, j)'
    BY <1>12 DEF Leads
  <2> QED
    BY <1>1, <1>2, <1>3, <1>4, <1>7, <1>12, <1>13, <2>1, <2>2 DEF TableLinked
<1> QED
  BY <1>10, <1>11, <1>14, <1>15, <1>16 DEF CoreInv

\* The tree with the new table is a tree.
LEMMA LinkTableTree ==
    ASSUME IInv, CoreInv', NEW n, NEW t, NEW i, TableLinked(n, t, i)
    PROVE  IInv'
<1>1. /\ Linked' = Linked \cup {n} /\ n \notin Linked /\ n # root_paddr
      /\ t \in Linked /\ i \in Idx
      /\ ~Leads(t, i) /\ Leads(t, i)' /\ pte_paddr(mem'[t][i]) = n
      /\ UNCHANGED <<root_paddr, height>>
  BY DEF TableLinked
<1>2. \A t1 \in Linked', i1 \in Idx :
         Leads(t1, i1)' =>
            \/ t1 = t /\ i1 = i
            \/ /\ t1 \in Linked /\ Leads(t1, i1) /\ mem'[t1][i1] = mem[t1][i1]
               /\ pte_paddr(mem[t1][i1]) # n
  BY <1>1 DEF TableLinked, IInv, TreeInv, ChildInv
<1>3. RootInv'
  BY <1>1 DEF CoreInv, RootOK, RootInv, IInv, TreeInv
<1>4. UniqueInv'
  <2> SUFFICES ASSUME NEW t1 \in Linked', NEW t2 \in Linked',
                      NEW i1 \in Idx, NEW i2 \in Idx,
                      Leads(t1, i1)', Leads(t2, i2)',
                      pte_paddr(mem'[t1][i1]) = pte_paddr(mem'[t2][i2])
               PROVE  t1 = t2 /\ i1 = i2
    BY DEF UniqueInv
  <2> QED
    BY <1>1, <1>2 DEF IInv, TreeInv, UniqueInv
<1>5. ParentInv'
  <2> SUFFICES ASSUME NEW c \in Linked', c # root_paddr
               PROVE  \E t1 \in Linked', i1 \in Idx :
                         Leads(t1, i1)' /\ pte_paddr(mem'[t1][i1]) = c
    BY <1>1 DEF ParentInv
  <2>1. CASE c = n
    BY <1>1, <2>1
  <2>2. CASE c \in Linked
    <3>1. PICK t1 \in Linked, i1 \in Idx : Leads(t1, i1) /\ pte_paddr(mem[t1][i1]) = c
      BY <2>2 DEF IInv, TreeInv, ParentInv
    <3>2. Leads(t1, i1)' /\ mem'[t1][i1] = mem[t1][i1]
      BY <1>1, <3>1 DEF TableLinked
    <3> QED
      BY <1>1, <3>1, <3>2
  <2> QED
    BY <1>1, <2>1, <2>2
<1> QED
  BY <1>3, <1>4, <1>5 DEF IInv, TreeInv, CoreInv

\* The descent of map goes one level down, or fails.
LEMMA MapDescendStep == CoreInv /\ MapDescend => CoreInv' /\ TreeKept
<1> SUFFICES ASSUME CoreInv, MapDescend PROVE CoreInv' /\ TreeKept
  OBVIOUS
<1>1. /\ call.pc = "Descend" /\ call.h > call.size /\ call.op = "map"
      /\ call.new = NoFrame
      /\ root_paddr # NoFrame /\ call.vaddr \in VAddr /\ call.flags \in Flags
      /\ call.table \in Linked /\ height[call.table] = call.h
      /\ call.target \in Target
  BY DEF MapDescend, CoreInv, CallInv
<1>2. CASE IsTable(MapEntry)
  <2> DEFINE c == pte_paddr(MapEntry)
  <2>1. /\ call' = [call EXCEPT !.table = c, !.h = call.h - 1]
        /\ UNCHANGED <<mem, height, root_paddr, flusher>>
    BY <1>2 DEF MapDescend
  <2>2. call.h \in H /\ call.size \in PageSize /\ call.h > 0
    BY <1>1 DEF CoreInv, TypeOK, Linked, CallOK, PageSize, Size4K, Size2M, Size1G
  <2>3. c \in Linked /\ height[c] = call.h - 1
    BY <1>1, <1>2, <2>2, Descent DEF MapEntry, CoreInv
  <2>4. c \in Frame /\ call.h - 1 \in 0 .. LEVELS /\ call.h - 1 >= call.size
    BY <1>1, <2>2, <2>3, LevelsAssumption
       DEF Linked, CoreInv, TypeOK, H, PageSize, Size4K, Size2M, Size1G
  <2>5. /\ call'.pc = "Descend" /\ call'.op = "map" /\ call'.table = c
        /\ call'.h = call.h - 1 /\ call'.new = NoFrame
        /\ call'.size = call.size /\ call'.vaddr = call.vaddr
        /\ call'.target = call.target /\ call'.flags = call.flags
    BY <1>1, <2>1 DEF CoreInv, TypeOK, CallOK
  <2>6. CallOK'
    BY <2>1, <2>4 DEF CoreInv, TypeOK, CallOK
  <2>7. Linked' = Linked
    BY <1>1, <2>1, <2>5 DEF Linked
  <2>8. CallInv'
    BY <1>1, <2>1, <2>3, <2>4, <2>5, <2>7 DEF CallInv, Idle
  <2> QED
    BY <1>1, <2>1, <2>5, <2>6, <2>8, SameMemory
<1>3. CASE ~IsTable(MapEntry)
  BY <1>1, <1>3, Returns DEF MapDescend, Fail
<1> QED
  BY <1>2, <1>3

\* map fails on an entry in use.
LEMMA MapOccupiedStep == CoreInv /\ MapOccupied => CoreInv' /\ TreeKept
<1> SUFFICES ASSUME CoreInv, MapOccupied PROVE CoreInv' /\ TreeKept
  OBVIOUS
<1>1. call.new = NoFrame
  BY DEF MapOccupied, CoreInv, CallInv
<1> QED
  BY <1>1, Returns DEF MapOccupied, Fail

\* A write of one leaf entry keeps the invariant, whatever else the
\* operation goes on to do.
LEMMA WriteStep ==
    ASSUME CoreInv, root_paddr # NoFrame,
           NEW t \in Linked, NEW i \in Idx, NEW e \in PTE, ~Leads(t, i), height[t] = 0 \/ ~IsTable(e),
           mem' = [mem EXCEPT ![t][i] = e],
           UNCHANGED <<height, root_paddr>>, call'.new = call.new,
           FlusherOK', CallOK', CallInv'
    PROVE  CoreInv' /\ TreeKept
<1>1. /\ mem' \in [DOMAIN mem' -> Table]
      /\ DOMAIN mem' = DOMAIN mem
      /\ TreeKept
  BY WriteLeaf DEF CoreInv
<1>2. TypeOK'
  BY <1>1 DEF CoreInv, TypeOK
<1>3. RootOK'
  BY <1>1 DEF CoreInv, RootOK, TreeKept
<1> QED
  BY <1>1, <1>2, <1>3, SameTree DEF CoreInv

\* The slot where a map arrived, or where remap, protect and unmap found
\* their entry: writing a page or Zero to it is a write of a leaf.
LEMMA SlotTyped ==
    ASSUME TypeOK, NEW t \in Linked, NEW v \in VAddr
    PROVE  /\ p_index(v, height[t]) \in Idx
           /\ mem[t][p_index(v, height[t])] \in PTE
           /\ height[t] \in H
<1>1. t \in DOMAIN mem /\ height[t] \in H
  BY DEF Linked, TypeOK
<1>2. p_index(v, height[t]) \in Idx
  BY <1>1, IndexInTable
<1> QED
  BY <1>1, <1>2, EntriesTyped

\* map writes a page into an unused entry, which leads to no table.
LEMMA MapPageStep == CoreInv /\ MapPage => CoreInv' /\ TreeKept
<1> SUFFICES ASSUME CoreInv, MapPage PROVE CoreInv' /\ TreeKept
  OBVIOUS
<1> DEFINE t == call.table
           i == p_index(call.vaddr, call.h)
           e == pte_new_page(align_down(call.target, call.size), call.flags,
                         call.size # Size4K)
<1>1. /\ call.pc = "Descend" /\ call.h = call.size /\ call.op = "map"
      /\ call.new = NoFrame /\ root_paddr # NoFrame
      /\ call.vaddr \in VAddr /\ call.flags \in Flags
      /\ t \in Linked /\ height[t] = call.h /\ call.target \in Target
  BY DEF MapPage, CoreInv, CallInv
<1>2. /\ mem' = [mem EXCEPT ![t][i] = e]
      /\ flusher' = push(flusher, call.vaddr)
      /\ call' = NoCall
      /\ UNCHANGED <<height, root_paddr>>
  BY DEF MapPage, SetEntry
<1>3. i \in Idx /\ mem[t][i] \in PTE
  BY <1>1, SlotTyped DEF CoreInv
<1>4. ~Leads(t, i)
  <2>1. mem[t][i] = Zero
    BY <1>3, PteUnused DEF MapPage, MapEntry
  <2> QED
    BY <2>1, TableEntries DEF Leads
<1>5. e \in PTE /\ (height[t] = 0 \/ ~IsTable(e))
  <2>1. align_down(call.target, call.size) \in PAddr
    BY <1>1, CountAssumption DEF CoreInv, TypeOK, CallOK
  <2>2. e \in PTE
    BY <1>1, <2>1, PteTyping
  <2>3. CASE call.size = 0
    BY <1>1, <2>2, <2>3
  <2>4. CASE call.size # 0
    BY <1>1, <2>1, <2>2, <2>4, PteHuge, TableEntries DEF Size4K
  <2> QED
    BY <2>3, <2>4
<1>6. FlusherOK'
  BY <1>1, <1>2, PushTyped DEF CoreInv, TypeOK
<1>7. CallOK' /\ CallInv' /\ call'.new = call.new
  BY <1>1, <1>2, NoCallInv DEF NoCall
<1> QED
  BY <1>1, <1>2, <1>3, <1>4, <1>5, <1>6, <1>7, WriteStep
---------------------------------------------------------------------------
(* remap, protect, unmap *)

\* What a successful descent gives the operations on existing entries.
LEMMA FoundSlot ==
    ASSUME CoreInv, CursorIdle, NEW v \in VAddr, get_entry(mem, v).err = "Ok"
    PROVE  \E t \in Linked, h \in PageSize :
              /\ get_entry(mem, v).table = t /\ get_entry(mem, v).h = h
              /\ call.new = NoFrame /\ root_paddr # NoFrame
              /\ t \in Frame /\ height[t] = h
              /\ p_index(v, h) \in Idx /\ mem[t][p_index(v, h)] \in PTE
              /\ h # 0 => pte_is_huge(mem[t][p_index(v, h)])
              /\ ~Leads(t, p_index(v, h))
<1>1. call.new = NoFrame
  BY IdleNoNew DEF CursorIdle
<1>2. root_paddr # NoFrame
  BY DEF CursorIdle, CoreInv, RootOK
<1>3. SlotOK(get_entry(mem, v), v)
  BY <1>2, GetEntry DEF CoreInv
<1>4. PICK t \in Linked, h \in PageSize :
         /\ get_entry(mem, v).table = t /\ get_entry(mem, v).h = h
         /\ height[t] = h
         /\ h # 0 => pte_is_huge(mem[t][p_index(v, h)])
  BY <1>3 DEF SlotOK
<1>5. p_index(v, h) \in Idx /\ mem[t][p_index(v, h)] \in PTE
  BY <1>4, SlotTyped DEF CoreInv
<1>6. ~Leads(t, p_index(v, h))
  BY <1>4, <1>5, TableEntries DEF Leads
<1>7. t \in Frame
  BY DEF Linked, CoreInv, TypeOK
<1> QED
  BY <1>1, <1>2, <1>4, <1>5, <1>6, <1>7

\* The first write of remap goes to a page or to the last level.
LEMMA RemapStep ==
    ASSUME CoreInv, NEW v \in VAddr, NEW p \in Target, NEW f \in Flags, Remap(v, p, f)
    PROVE  CoreInv' /\ TreeKept
<1>0. CursorIdle
  BY DEF Remap
<1>1. CASE get_entry(mem, v).err = "Ok"
  <2>1. PICK t \in Linked, h \in PageSize :
              /\ get_entry(mem, v).table = t /\ get_entry(mem, v).h = h
              /\ call.new = NoFrame /\ root_paddr # NoFrame
              /\ t \in Frame /\ height[t] = h
              /\ p_index(v, h) \in Idx /\ mem[t][p_index(v, h)] \in PTE
              /\ h # 0 => pte_is_huge(mem[t][p_index(v, h)])
              /\ ~Leads(t, p_index(v, h))
    BY <1>0, <1>1, FoundSlot
  <2> DEFINE i == p_index(v, h)
             e == pte_set_paddr(mem[t][i], p)
  <2>2. /\ mem' = [mem EXCEPT ![t][i] = e]
        /\ call' = [NoCall EXCEPT !.pc = "SetFlags", !.op = "remap", !.vaddr = v,
                       !.flags = f, !.size = h, !.table = t, !.h = h]
        /\ UNCHANGED <<height, root_paddr, flusher>>
    BY <1>1, <2>1 DEF Remap, SetEntry
  <2>3. e \in PTE /\ (h # 0 => pte_is_huge(e))
    BY <2>1, CountAssumption, PteTyping, PteHuge
  <2>4. height[t] = 0 \/ ~IsTable(e)
    BY <2>1, <2>3, TableEntries
  <2>5. call' = [pc |-> "SetFlags", op |-> "remap", vaddr |-> v, target |-> PA0,
                 size |-> h, flags |-> f, table |-> t, h |-> h,
                 new |-> NoFrame]
    BY <2>2 DEF NoCall
  <2>6. CallOK'
    <3>1. h \in 0 .. LEVELS /\ PA0 \in PAddr
      BY PteTyping, SizeIsHeight
    <3> QED
      BY <2>1, <2>5, <3>1 DEF CallOK
  <2>7. FlusherOK'
    BY <2>2 DEF CoreInv, TypeOK, FlusherOK
  <2>8. Linked' = Linked /\ mem'[t][i] = e
    <3>1. call'.new = call.new
      BY <2>1, <2>5
    <3>2. mem' = [mem EXCEPT ![t][i] = e] /\ UNCHANGED <<height, root_paddr>>
      BY <2>2
    <3>3. t \in DOMAIN mem /\ mem \in [DOMAIN mem -> [Idx -> PTE]] /\ i \in Idx
      BY <2>1 DEF CoreInv, TypeOK, Linked, Table
    <3> HIDE DEF e, i
    <3>4. mem'[t][i] = e /\ DOMAIN mem' = DOMAIN mem
      BY <3>2, <3>3
    <3> QED
      BY <3>1, <3>4 DEF Linked
  <2>9. CallInv'
    <3>1. MapEntry' = e
      BY <2>5, <2>8 DEF MapEntry
    <3>2. /\ call'.pc = "SetFlags" /\ call'.op = "remap" /\ call'.vaddr = v
          /\ call'.flags = f /\ call'.table = t /\ call'.h = h
          /\ call'.size = h /\ call'.new = NoFrame
      BY <2>5
    <3>3. t \in Linked' /\ height'[t] = h /\ root_paddr' # NoFrame
      BY <2>1, <2>2, <2>8
    <3>4. call'.h # Size4K => pte_is_huge(MapEntry')
      BY <2>3, <3>1, <3>2 DEF Size4K
    <3> QED
      BY <3>2, <3>3, <3>4 DEF CallInv, Idle
  <2>10. call'.new = call.new
    BY <2>1, <2>5
  <2> QED
    BY <2>1, <2>2, <2>3, <2>4, <2>6, <2>7, <2>9, <2>10, WriteStep
<1>2. CASE get_entry(mem, v).err # "Ok"
  <2>1. Fail("remap", v, get_entry(mem, v).err)
    BY <1>2 DEF Remap
  <2> QED
    BY <1>0, <2>1, IdleNoNew, Returns DEF Fail, CursorIdle
<1> QED
  BY <1>1, <1>2

\* The second write of remap goes to the entry of the first.
LEMMA RemapSetFlagsStep == CoreInv /\ RemapSetFlags => CoreInv' /\ TreeKept
<1> SUFFICES ASSUME CoreInv, RemapSetFlags PROVE CoreInv' /\ TreeKept
  OBVIOUS
<1> DEFINE t == call.table
           i == p_index(call.vaddr, call.h)
           e == pte_set_flags(mem[t][i], call.flags, call.size # Size4K)
<1>1. /\ call.pc = "SetFlags" /\ call.op = "remap" /\ call.size = call.h
      /\ call.new = NoFrame /\ root_paddr # NoFrame
      /\ call.vaddr \in VAddr /\ call.flags \in Flags
      /\ t \in Linked /\ height[t] = call.h
      /\ call.h # 0 => pte_is_huge(mem[t][i])
  BY DEF RemapSetFlags, CoreInv, CallInv, MapEntry, Size4K
<1>2. /\ mem' = [mem EXCEPT ![t][i] = e]
      /\ flusher' = push(flusher, call.vaddr)
      /\ call' = NoCall
      /\ UNCHANGED <<height, root_paddr>>
  BY DEF RemapSetFlags, SetEntry, MapEntry
<1>3. i \in Idx /\ mem[t][i] \in PTE
  BY <1>1, SlotTyped DEF CoreInv
<1>4. ~Leads(t, i)
  BY <1>1, <1>3, TableEntries DEF Leads
<1>5. e \in PTE /\ (height[t] = 0 \/ ~IsTable(e))
  <2>1. e \in PTE
    BY <1>1, <1>3, PteTyping
  <2>2. CASE call.h = 0
    BY <1>1, <2>1, <2>2
  <2>3. CASE call.h # 0
    BY <1>1, <1>3, <2>1, <2>3, PteHuge, TableEntries DEF Size4K
  <2> QED
    BY <2>2, <2>3
<1>6. FlusherOK'
  BY <1>1, <1>2, PushTyped DEF CoreInv, TypeOK
<1>7. CallOK' /\ CallInv' /\ call'.new = call.new
  BY <1>1, <1>2, NoCallInv DEF NoCall
<1> QED
  BY <1>1, <1>2, <1>3, <1>4, <1>5, <1>6, <1>7, WriteStep

\* A write that ends its operation leaves no operation in progress.
LEMMA StillIdle ==
    ASSUME CoreInv, Idle, UNCHANGED call
    PROVE  CallOK' /\ CallInv' /\ call'.new = call.new
<1>1. call' = NoCall
  BY IdleNoNew
<1> QED
  BY <1>1, NoCallInv

\* protect rewrites a page, or an entry of the last level.
LEMMA ProtectStep ==
    ASSUME CoreInv, NEW v \in VAddr, NEW f \in Flags, Protect(v, f)
    PROVE  CoreInv' /\ TreeKept
<1>0. CursorIdle /\ Idle
  BY DEF Protect, CursorIdle
<1>1. CASE get_entry(mem, v).err = "Ok"
  <2>1. PICK t \in Linked, h \in PageSize :
              /\ get_entry(mem, v).table = t /\ get_entry(mem, v).h = h
              /\ call.new = NoFrame /\ root_paddr # NoFrame
              /\ t \in Frame /\ height[t] = h
              /\ p_index(v, h) \in Idx /\ mem[t][p_index(v, h)] \in PTE
              /\ h # 0 => pte_is_huge(mem[t][p_index(v, h)])
              /\ ~Leads(t, p_index(v, h))
    BY <1>0, <1>1, FoundSlot
  <2> DEFINE i == p_index(v, h)
             e == pte_set_flags(mem[t][i], f, h # Size4K)
  <2>2. CASE pte_is_present(mem[t][i])
    <3>1. /\ mem' = [mem EXCEPT ![t][i] = e]
          /\ flusher' = push(flusher, v)
          /\ UNCHANGED <<height, root_paddr, call>>
      BY <1>1, <2>1, <2>2 DEF Protect, SetEntry
    <3>2. e \in PTE
      BY <2>1, PteTyping
    <3>3. height[t] = 0 \/ ~IsTable(e)
      BY <2>1, <3>2, PteHuge, TableEntries DEF Size4K
    <3>4. FlusherOK'
      BY <3>1, PushTyped DEF CoreInv, TypeOK
    <3>5. CallOK' /\ CallInv' /\ call'.new = call.new
      BY <1>0, <3>1, StillIdle
    <3> QED
      BY <2>1, <3>1, <3>2, <3>3, <3>4, <3>5, WriteStep
  <2>3. CASE ~pte_is_present(mem[t][i])
    <3>1. Fail("protect", v, "NotMapped")
      BY <1>1, <2>1, <2>3 DEF Protect
    <3> QED
      BY <1>0, <3>1, IdleNoNew, Returns DEF Fail
  <2> QED
    BY <2>2, <2>3
<1>2. CASE get_entry(mem, v).err # "Ok"
  <2>1. Fail("protect", v, get_entry(mem, v).err)
    BY <1>2 DEF Protect
  <2> QED
    BY <1>0, <2>1, IdleNoNew, Returns DEF Fail
<1> QED
  BY <1>1, <1>2

\* unmap clears a page, or an entry of the last level.
LEMMA UnmapStep ==
    ASSUME CoreInv, NEW v \in VAddr, Unmap(v)
    PROVE  CoreInv' /\ TreeKept
<1>0. CursorIdle /\ Idle
  BY DEF Unmap, CursorIdle
<1>1. CASE get_entry(mem, v).err = "Ok"
  <2>1. PICK t \in Linked, h \in PageSize :
              /\ get_entry(mem, v).table = t /\ get_entry(mem, v).h = h
              /\ call.new = NoFrame /\ root_paddr # NoFrame
              /\ t \in Frame /\ height[t] = h
              /\ p_index(v, h) \in Idx /\ mem[t][p_index(v, h)] \in PTE
              /\ h # 0 => pte_is_huge(mem[t][p_index(v, h)])
              /\ ~Leads(t, p_index(v, h))
    BY <1>0, <1>1, FoundSlot
  <2> DEFINE i == p_index(v, h)
  <2>2. /\ mem' = [mem EXCEPT ![t][i] = Zero]
        /\ UNCHANGED <<height, root_paddr, call>>
        /\ flusher' = push(flusher, v) \/ flusher' = flusher
    BY <1>1, <2>1 DEF Unmap, SetEntry
  <2>3. Zero \in PTE /\ ~IsTable(Zero)
    BY PteTyping, TableEntries
  <2>4. FlusherOK'
    <3>1. CASE flusher' = push(flusher, v)
      BY <3>1, PushTyped DEF CoreInv, TypeOK
    <3>2. CASE flusher' = flusher
      BY <3>2 DEF CoreInv, TypeOK, FlusherOK
    <3> QED
      BY <2>2, <3>1, <3>2
  <2>5. CallOK' /\ CallInv' /\ call'.new = call.new
    BY <1>0, <2>2, StillIdle
  <2> QED
    BY <2>1, <2>2, <2>3, <2>4, <2>5, WriteStep
<1>2. CASE get_entry(mem, v).err # "Ok"
  <2>1. Fail("unmap", v, get_entry(mem, v).err)
    BY <1>2 DEF Unmap
  <2> QED
    BY <1>0, <2>1, IdleNoNew, Returns DEF Fail
<1> QED
  BY <1>1, <1>2
---------------------------------------------------------------------------
(* flush and the drop of the cursor *)

\* A step of the flush loop leaves the tables alone.
LEMMA FlushStep ==
    ASSUME CoreInv, call.pc = "Flush", UNCHANGED <<mem, height, root_paddr>>,
           call' = call \/ call' = NoCall, FlusherOK'
    PROVE  CoreInv' /\ TreeKept
<1>1. root_paddr # NoFrame /\ call.new = NoFrame
  BY DEF CoreInv, CallInv
<1>2. call'.new = call.new
  BY <1>1 DEF NoCall
<1>3. Linked' = Linked
  BY <1>2 DEF Linked
<1>4. CallOK' /\ CallInv'
  <2>1. CASE call' = NoCall
    BY <2>1, NoCallInv
  <2>2. CASE call' = call
    <3>1. CallOK'
      BY <2>2 DEF CoreInv, TypeOK, CallOK
    <3>2. CallInv'
      BY <2>2, <1>3 DEF CoreInv, CallInv, Idle, MapEntry
    <3> QED
      BY <3>1, <3>2
  <2> QED
    BY <2>1, <2>2
<1>5. TypeOK'
  BY <1>4 DEF CoreInv, TypeOK
<1>6. RootOK'
  BY <1>1, <1>3 DEF CoreInv, RootOK
<1>7. TreeKept
  BY <1>3 DEF TreeKept, Leads
<1> QED
  BY <1>4, <1>5, <1>6, <1>7, SameTree DEF CoreInv

\* flush and the drop of the cursor begin with a cursor open.
LEMMA FlushBeginStep ==
    ASSUME CoreInv, NEW op \in {"flush", "drop"}, Flush(op)
    PROVE  CoreInv' /\ TreeKept
<1>1. /\ call' = [NoCall EXCEPT !.pc = "Flush", !.op = op]
      /\ UNCHANGED <<mem, height, root_paddr, flusher>>
      /\ flusher.kind # "Closed" /\ Idle
  BY DEF Flush, CursorIdle
<1>2. root_paddr # NoFrame /\ call.new = NoFrame
  BY <1>1, IdleNoNew DEF CoreInv, RootOK
<1>3. call' = [pc |-> "Flush", op |-> op, vaddr |-> 0, target |-> PA0, size |-> 0,
               flags |-> {}, table |-> NoFrame, h |-> 0, new |-> NoFrame]
  BY <1>1 DEF NoCall
<1>4. CallOK'
  <2>1. 0 \in 0 .. LEVELS /\ 0 \in PageSize /\ PA0 \in PAddr
    BY PteTyping, LevelsAssumption DEF PageSize, Size4K
  <2> QED
    BY <1>3, <2>1 DEF CallOK
<1>5. CallInv'
  <2>1. /\ call'.pc = "Flush" /\ call'.new = NoFrame
        /\ call'.op # "map" /\ call'.op # "remap"
    BY <1>3
  <2> QED
    BY <1>1, <1>2, <2>1 DEF CallInv, Idle
<1>6. call'.new = call.new
  BY <1>2, <1>3
<1> QED
  BY <1>1, <1>4, <1>5, <1>6, SameMemory

\* One address of the array is flushed.
LEMMA FlushEntryStep ==
    ASSUME CoreInv, NEW v \in VAddr, FlushEntry(v)
    PROVE  CoreInv' /\ TreeKept
<1>1. /\ call.pc = "Flush" /\ flusher.arr # <<>>
      /\ flusher' = [kind |-> "Array", arr |-> Tail(flusher.arr)]
      /\ UNCHANGED <<mem, height, root_paddr, call>>
  BY DEF FlushEntry, Flusher
<1>2. FlusherOK'
  <2>1. flusher.arr \in Seq(VAddr) /\ Len(flusher.arr) <= SMALL_FLUSH_THRESHOLD
    BY DEF CoreInv, TypeOK, FlusherOK
  <2>2. /\ Tail(flusher.arr) \in Seq(VAddr)
        /\ Len(Tail(flusher.arr)) <= SMALL_FLUSH_THRESHOLD
    BY <1>1, <2>1, CountAssumption
  <2> QED
    BY <1>1, <2>2 DEF FlusherOK
<1> QED
  BY <1>1, <1>2, FlushStep

\* The whole TLB is flushed and the flusher reset.
LEMMA FlushAllStep == CoreInv /\ FlushAll => CoreInv' /\ TreeKept
<1> SUFFICES ASSUME CoreInv, FlushAll PROVE CoreInv' /\ TreeKept
  OBVIOUS
<1>1. FlusherOK'
  BY CountAssumption DEF FlushAll, Flusher, FlusherOK
<1> QED
  BY <1>1, FlushStep DEF FlushAll

\* The flush returns; after a drop there is no cursor.
LEMMA FlushDoneStep == CoreInv /\ FlushDone => CoreInv' /\ TreeKept
<1> SUFFICES ASSUME CoreInv, FlushDone PROVE CoreInv' /\ TreeKept
  OBVIOUS
<1>1. FlusherOK'
  BY CountAssumption DEF FlushDone, Flusher, FlusherOK
<1> QED
  BY <1>1, FlushStep DEF FlushDone
---------------------------------------------------------------------------
(* The levels that Drop visits are the heights of the invariant *)

AtHeight(k) == {t \in Linked : height[t] = k}

\* The children of all linked tables of one height are those of the next.
LEMMA ChildrenAtHeight ==
    ASSUME IInv, root_paddr # NoFrame, NEW k \in 1 .. LEVELS - 1
    PROVE  Children(AtHeight(k)) = AtHeight(k - 1)
<1>1. /\ root_paddr \in Linked /\ height[root_paddr] = LEVELS - 1
      /\ k \in Int /\ k > 0 /\ k <= LEVELS - 1 /\ LEVELS \in Int
  BY LevelsAssumption DEF IInv, TreeInv, RootInv
<1>2. ASSUME NEW c \in Children(AtHeight(k)) PROVE c \in AtHeight(k - 1)
  <2>1. PICK t \in AtHeight(k) \cap DOMAIN mem, i \in Idx :
           IsTable(mem[t][i]) /\ c = pte_paddr(mem[t][i])
    BY DEF Children
  <2>2. t \in Linked /\ height[t] = k /\ Leads(t, i)
    BY <1>1, <2>1 DEF AtHeight, Leads
  <2>3. c \in Linked /\ height[c] = height[t] - 1
    BY <2>1, <2>2 DEF IInv, TreeInv, ChildInv
  <2> QED
    BY <2>2, <2>3 DEF AtHeight
<1>3. ASSUME NEW c \in AtHeight(k - 1) PROVE c \in Children(AtHeight(k))
  <2>1. c \in Linked /\ height[c] = k - 1
    BY DEF AtHeight
  <2>2. c # root_paddr
    BY <1>1, <2>1
  <2>3. PICK t \in Linked, i \in Idx : Leads(t, i) /\ pte_paddr(mem[t][i]) = c
    BY <2>1, <2>2 DEF IInv, TreeInv, ParentInv
  <2>4. height[c] = height[t] - 1
    BY <2>3 DEF IInv, TreeInv, ChildInv
  <2>5. height[t] \in Int /\ t \in DOMAIN mem
    BY <2>3 DEF IInv, TypeOK, Linked, H
  <2>6. height[t] = k
    BY <1>1, <2>1, <2>4, <2>5
  <2>7. t \in AtHeight(k) \cap DOMAIN mem /\ IsTable(mem[t][i])
    BY <2>3, <2>5, <2>6 DEF AtHeight, Leads
  <2> QED
    BY <2>3, <2>7 DEF Children
<1> QED
  BY <1>2, <1>3

\* The root is the only linked table of its height.
LEMMA RootAlone ==
    ASSUME IInv, root_paddr # NoFrame
    PROVE  {root_paddr} = AtHeight(LEVELS - 1)
<1>1. root_paddr \in Linked /\ height[root_paddr] = LEVELS - 1 /\ LEVELS \in Int
  BY LevelsAssumption DEF IInv, TreeInv, RootInv
<1>2. ASSUME NEW c \in AtHeight(LEVELS - 1), c # root_paddr PROVE FALSE
  <2>1. c \in Linked /\ height[c] = LEVELS - 1
    BY DEF AtHeight
  <2>2. PICK t \in Linked, i \in Idx : Leads(t, i) /\ pte_paddr(mem[t][i]) = c
    BY <1>2, <2>1 DEF IInv, TreeInv, ParentInv
  <2>3. height[c] = height[t] - 1
    BY <2>2 DEF IInv, TreeInv, ChildInv
  <2>4. height[t] \in 0 .. LEVELS - 1
    BY <2>2 DEF IInv, TypeOK, Linked, H
  <2> QED
    BY <1>1, <2>1, <2>3, <2>4
<1> QED
  BY <1>1, <1>2 DEF AtHeight

\* What Drop visits is every linked table, each at its height.
LEMMA TreeIsLinked ==
    ASSUME IInv, root_paddr # NoFrame
    PROVE  Tree = Linked /\ Upper = Linked \ AtHeight(0)
<1>1. \A t \in Linked : height[t] \in 0 .. LEVELS - 1
  BY DEF IInv, TypeOK, Linked, H
<1>2. CASE LEVELS = 3
  <2>1. Level3 = {} /\ Level2 = AtHeight(2)
    BY <1>2, RootAlone DEF Level3, Level2
  <2>2. Level1 = AtHeight(1)
    BY <1>2, <2>1, ChildrenAtHeight DEF Level1
  <2>3. Level0 = AtHeight(0)
    BY <1>2, <2>2, ChildrenAtHeight DEF Level0
  <2> QED
    BY <1>1, <1>2, <2>1, <2>2, <2>3 DEF Tree, Upper, AtHeight
<1>3. CASE LEVELS = 4
  <2>1. Level3 = AtHeight(3)
    BY <1>3, RootAlone DEF Level3
  <2>2. Level2 = AtHeight(2)
    BY <1>3, <2>1, ChildrenAtHeight DEF Level2
  <2>3. Level1 = AtHeight(1)
    BY <1>3, <2>2, ChildrenAtHeight DEF Level1
  <2>4. Level0 = AtHeight(0)
    BY <1>3, <2>3, ChildrenAtHeight DEF Level0
  <2> QED
    BY <1>1, <1>3, <2>1, <2>2, <2>3, <2>4 DEF Tree, Upper, AtHeight
<1> QED
  BY <1>2, <1>3, LevelsAssumption

\* Drop frees every table, so the invariant holds of no table at all.
LEMMA DropStep == IInv /\ Drop => IInv'
<1> SUFFICES ASSUME IInv, Drop PROVE IInv'
  OBVIOUS
<1>1. /\ root_paddr # NoFrame /\ Idle /\ flusher.kind = "Closed"
      /\ mem' = [f \in DOMAIN mem \ Tree |-> mem[f]]
      /\ height' = [f \in DOMAIN mem \ Tree |-> height[f]]
      /\ root_paddr' = NoFrame
      /\ UNCHANGED <<flusher, call>>
  BY DEF Drop
<1>2. NoFrame \notin DOMAIN mem /\ call.new = NoFrame
  BY <1>1, AllocAssumption, HasCore, IdleNoNew DEF IInv, TypeOK
<1>3. Tree = DOMAIN mem
  BY <1>1, <1>2, TreeIsLinked DEF Linked
<1>4. DOMAIN mem' = {} /\ DOMAIN height' = {} /\ Linked' = {}
  BY <1>1, <1>3 DEF Linked
<1>5. CallOK' /\ CallInv'
  BY <1>1, HasCore, StillIdle
<1>6. mem' \in [DOMAIN mem' -> Table] /\ height' \in [DOMAIN mem' -> H]
  BY <1>1, <1>3, <1>4
<1>7. TypeOK'
  BY <1>1, <1>4, <1>5, <1>6 DEF IInv, TypeOK, FlusherOK
<1> QED
  BY <1>1, <1>4, <1>5, <1>7
     DEF IInv, TreeInv, RootInv, ChildInv, UniqueInv, ParentInv
---------------------------------------------------------------------------
(* The invariant, and what follows from it *)

\* No table and no operation at first.
LEMMA InitInv == Init => IInv
<1> SUFFICES ASSUME Init PROVE IInv
  OBVIOUS
<1>1. /\ DOMAIN mem = {} /\ DOMAIN height = {}
      /\ mem \in [DOMAIN mem -> Table] /\ height \in [DOMAIN mem -> H]
      /\ root_paddr = NoFrame
      /\ flusher = [kind |-> "Closed", arr |-> <<>>]
      /\ call = NoCall
  BY DEF Init, Flusher
<1>2. FlusherOK
  BY <1>1, CountAssumption DEF FlusherOK
<1>3. CallOK
  <2>1. 0 \in 0 .. LEVELS /\ 0 \in PageSize /\ PA0 \in PAddr
    BY PteTyping, LevelsAssumption DEF PageSize, Size4K
  <2> QED
    BY <1>1, <2>1 DEF CallOK, NoCall
<1>4. CallInv
  BY <1>1 DEF CallInv, NoCall, Idle
<1>5. Linked = {}
  BY <1>1 DEF Linked
<1> QED
  BY <1>1, <1>2, <1>3, <1>4, <1>5
     DEF IInv, TypeOK, TreeInv, RootInv, ChildInv, UniqueInv, ParentInv

\* An operation in progress keeps what it relies on, and adds a table to the
\* tree or keeps the tree: one case per action.
LEMMA ContinueStep ==
    CoreInv /\ Continue
        => /\ CoreInv'
           /\ \/ TreeKept
              \/ RootLinked(call.new)
              \/ \E n, t, i : TableLinked(n, t, i)
<1> SUFFICES ASSUME CoreInv, Continue
             PROVE  /\ CoreInv'
                    /\ \/ TreeKept
                       \/ RootLinked(call.new)
                       \/ \E n, t, i : TableLinked(n, t, i)
  OBVIOUS
<1>1. ASSUME NEW f \in Frame, NEW stale \in StaleTable, AllocFrame(f, stale)
      PROVE  CoreInv' /\ TreeKept
  BY <1>1, AllocFrameStep
<1>2. CASE AllocFail
  BY <1>2, AllocFailStep
<1>3. CASE ZeroFrame
  BY <1>3, ZeroFrameStep
<1>4. CASE LinkRoot
  BY <1>4, LinkRootStep
<1>5. CASE LinkTable
  BY <1>5, LinkTableStep
<1>6. CASE MapCreate
  BY <1>6, MapCreateStep
<1>7. CASE MapDescend
  BY <1>7, MapDescendStep
<1>8. CASE MapPage
  BY <1>8, MapPageStep
<1>9. CASE MapOccupied
  BY <1>9, MapOccupiedStep
<1>10. CASE RemapSetFlags
  BY <1>10, RemapSetFlagsStep
<1>11. ASSUME NEW v \in VAddr, FlushEntry(v)
       PROVE  CoreInv' /\ TreeKept
  BY <1>11, FlushEntryStep
<1>12. CASE FlushAll
  BY <1>12, FlushAllStep
<1>13. CASE FlushDone
  BY <1>13, FlushDoneStep
<1> QED
  BY <1>1, <1>2, <1>3, <1>4, <1>5, <1>6, <1>7, <1>8, <1>9, <1>10, <1>11, <1>12,
     <1>13 DEF Continue, Advance

\* A step that keeps the tree keeps the invariant.
LEMMA KeptTree ==
    ASSUME IInv, CoreInv', TreeKept
    PROVE  IInv'
<1>1. ChildInv' /\ UniqueInv' /\ ParentInv'
  BY SameTree DEF IInv, TreeInv
<1>2. RootInv'
  BY DEF CoreInv, RootOK, IInv, TreeInv, RootInv, TreeKept
<1> QED
  BY <1>1, <1>2 DEF CoreInv, IInv, TreeInv

\* Every step keeps the invariant: one case per action.
LEMMA StepInv == IInv /\ [Next]_vars => IInv'
<1> SUFFICES ASSUME IInv, [Next]_vars PROVE IInv'
  OBVIOUS
<1>0. CoreInv
  BY HasCore
<1>1. CASE Begin
  <2>1. CASE TryNew
    BY <1>0, <2>1, TryNewStep, KeptTree
  <2>2. CASE OpenCursor
    BY <1>0, <2>2, OpenCursorStep, KeptTree
  <2>3. ASSUME NEW v \in VAddr, NEW p \in Target, NEW s \in PageSize,
               NEW f \in Flags, Map(v, p, s, f)
        PROVE  IInv'
    BY <1>0, <2>3, MapStep, KeptTree
  <2>4. ASSUME NEW v \in VAddr, NEW p \in Target, NEW f \in Flags, Remap(v, p, f)
        PROVE  IInv'
    BY <1>0, <2>4, RemapStep, KeptTree
  <2>5. ASSUME NEW v \in VAddr, NEW f \in Flags, Protect(v, f)
        PROVE  IInv'
    BY <1>0, <2>5, ProtectStep, KeptTree
  <2>6. ASSUME NEW v \in VAddr, Unmap(v)
        PROVE  IInv'
    BY <1>0, <2>6, UnmapStep, KeptTree
  <2>7. ASSUME NEW op \in {"flush", "drop"}, Flush(op)
        PROVE  IInv'
    BY <1>0, <2>7, FlushBeginStep, KeptTree
  <2>8. CASE Drop
    BY <2>8, DropStep
  <2> QED
    BY <1>1, <2>1, <2>2, <2>3, <2>4, <2>5, <2>6, <2>7, <2>8 DEF Begin
<1>2. CASE Continue
  <2>1. CoreInv'
    BY <1>0, <1>2, ContinueStep
  <2>2. \/ TreeKept
        \/ RootLinked(call.new)
        \/ \E n, t, i : TableLinked(n, t, i)
    BY <1>0, <1>2, ContinueStep
  <2> QED
    BY <2>1, <2>2, KeptTree, LinkRootTree, LinkTableTree
<1>3. CASE UNCHANGED vars
  <2>1. UNCHANGED <<mem, height, root_paddr, flusher, call>>
    BY <1>3 DEF vars
  <2>2. CallOK'
    BY <2>1 DEF IInv, TypeOK, CallOK
  <2>3. CallInv'
    BY <2>1 DEF IInv, TreeInv, CallInv, Idle, MapEntry, Linked
  <2> QED
    BY <1>0, <2>1, <2>2, <2>3, SameMemory, KeptTree
<1> QED
  BY <1>1, <1>2, <1>3 DEF Next

\* The inductive invariant holds of every behaviour.
THEOREM Invariance == Spec => []IInv
<1>1. Init => IInv
  BY InitInv
<1>2. IInv /\ [Next]_vars => IInv'
  BY StepInv
<1> QED
  BY <1>1, <1>2, PTL DEF Spec

\* Every variable keeps its type; in particular the flusher's array never
\* overflows (TlbFlusher::Array, try_push in PageTable64Cursor::push).
THEOREM TypeCorrectness == Spec => []TypeOK
<1>1. IInv => TypeOK
  BY DEF IInv
<1> QED
  BY <1>1, Invariance, PTL

\* No operation and no drop leaves an entry of the tree leading to a frame
\* that is not allocated.
THEOREM TablesAllocated == Spec => []NoDanglingTable
<1>1. IInv => NoDanglingTable
  BY TreeIsLinked DEF NoDanglingTable, Linked
<1> QED
  BY <1>1, Invariance, PTL

\* No two entries lead to one table and none leads to the root, so
\* dealloc_tree frees each frame once.
THEOREM TablesUnshared == Spec => []NoSharedTable
<1>1. IInv => NoSharedTable
  <2> SUFFICES ASSUME IInv, root_paddr # NoFrame
               PROVE  /\ \A s1, s2 \in TableSlots :
                            pte_paddr(mem[s1[1]][s1[2]]) = pte_paddr(mem[s2[1]][s2[2]])
                               => s1 = s2
                      /\ \A s \in TableSlots : pte_paddr(mem[s[1]][s[2]]) # root_paddr
    BY DEF NoSharedTable
  <2>1. \A s \in TableSlots :
           /\ s[1] \in Linked /\ s[2] \in Idx /\ Leads(s[1], s[2])
           /\ s = <<s[1], s[2]>> /\ height[s[1]] \in 0 .. LEVELS - 1
    <3> SUFFICES ASSUME NEW s \in TableSlots
                 PROVE  /\ s[1] \in Linked /\ s[2] \in Idx /\ Leads(s[1], s[2])
                        /\ s = <<s[1], s[2]>> /\ height[s[1]] \in 0 .. LEVELS - 1
      OBVIOUS
    <3>1. s \in Upper \X Idx /\ IsTable(mem[s[1]][s[2]])
      BY DEF TableSlots
    <3>2. s[1] \in Linked /\ s[1] \notin AtHeight(0) /\ s[2] \in Idx /\ s = <<s[1], s[2]>>
      BY <3>1, TreeIsLinked
    <3>3. height[s[1]] \in 0 .. LEVELS - 1
      BY <3>2 DEF IInv, TypeOK, Linked, H
    <3>4. height[s[1]] > 0
      BY <3>2, <3>3, LevelsAssumption DEF AtHeight
    <3> QED
      BY <3>1, <3>2, <3>3, <3>4 DEF Leads
  <2>2. \A s1, s2 \in TableSlots :
           pte_paddr(mem[s1[1]][s1[2]]) = pte_paddr(mem[s2[1]][s2[2]]) => s1 = s2
    <3> SUFFICES ASSUME NEW s1 \in TableSlots, NEW s2 \in TableSlots,
                        pte_paddr(mem[s1[1]][s1[2]]) = pte_paddr(mem[s2[1]][s2[2]])
                 PROVE  s1 = s2
      OBVIOUS
    <3>1. s1[1] = s2[1] /\ s1[2] = s2[2]
      BY <2>1 DEF IInv, TreeInv, UniqueInv
    <3> QED
      BY <2>1, <3>1
  <2>3. \A s \in TableSlots : pte_paddr(mem[s[1]][s[2]]) # root_paddr
    <3> SUFFICES ASSUME NEW s \in TableSlots, pte_paddr(mem[s[1]][s[2]]) = root_paddr
                 PROVE  FALSE
      OBVIOUS
    <3>1. height[root_paddr] = height[s[1]] - 1
      BY <2>1 DEF IInv, TreeInv, ChildInv
    <3>2. height[root_paddr] = LEVELS - 1
      BY DEF IInv, TreeInv, RootInv
    <3> QED
      BY <2>1, <3>1, <3>2, LevelsAssumption
  <2> QED
    BY <2>2, <2>3
<1> QED
  BY <1>1, Invariance, PTL

\* Every allocated frame is in the tree or about to be linked, so the drop
\* of the table gives back all of them.
THEOREM TablesFreed == Spec => []NoLeakedTable
<1>1. IInv => NoLeakedTable
  <2> SUFFICES ASSUME IInv PROVE NoLeakedTable
    OBVIOUS
  <2>1. CASE root_paddr = NoFrame
    BY <2>1 DEF NoLeakedTable, IInv, TreeInv, RootInv, Linked
  <2>2. CASE root_paddr # NoFrame
    BY <2>2, TreeIsLinked DEF NoLeakedTable, Linked
  <2> QED
    BY <2>1, <2>2
<1> QED
  BY <1>1, Invariance, PTL
===========================================================================
