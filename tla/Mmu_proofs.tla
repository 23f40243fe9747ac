----------------------------- MODULE Mmu_proofs ----------------------------
(***************************************************************************)
(* What the hardware may hold of a table in use: every translation that a  *)
(* TLB caches and the table no longer holds is covered by a flush request  *)
(* that the cursor still has to execute.                                   *)
(***************************************************************************)
EXTENDS Mmu, PageTable64Space_proofs

\* The inductive invariant.
MmuInv ==
    /\ IInv
    /\ PathInv
    /\ tlb = [w \in VAddr |-> tlb[w]]
    /\ ~active => tlb = EmptyTlb
    /\ active => root_paddr # NoFrame
    /\ StaleIsRecorded

---------------------------------------------------------------------------
(* The table under the hardware *)

\* Every step of the machine is a step of the table, or none.
LEMMA MmuStepsTable == [MmuNext]_mmuVars => [Next]_vars
<1> SUFFICES ASSUME [MmuNext]_mmuVars PROVE [Next]_vars
  OBVIOUS
<1>1. CASE TableStep
  BY <1>1 DEF TableStep, Next, Continue
<1>2. ASSUME NEW v \in VAddr, InvalidatePage(v) PROVE [Next]_vars
  BY <1>2 DEF InvalidatePage, Next, Continue
<1>3. CASE InvalidateAll
  BY <1>3 DEF InvalidateAll, Next, Continue
<1>4. CASE (\E v \in VAddr : Fill(v)) \/ Activate \/ Deactivate
  BY <1>4 DEF Fill, Activate, Deactivate
<1>5. CASE UNCHANGED mmuVars
  BY <1>5 DEF mmuVars, vars
<1> QED
  BY <1>1, <1>2, <1>3, <1>4, <1>5 DEF MmuNext

\* Every behaviour of the machine is one of the table.
LEMMA MmuRunsTable == MmuSpec => Spec
<1>1. MmuInit => Init
  BY DEF MmuInit
<1> QED
  BY <1>1, MmuStepsTable, PTL DEF MmuSpec, Spec
---------------------------------------------------------------------------
(* Requests *)

\* The requests the cursor has recorded stay recorded.
Kept ==
    /\ flusher.kind = "Full" => flusher'.kind = "Full"
    /\ \A k \in DOMAIN flusher.arr :
          \/ flusher'.kind = "Full"
          \/ \E j \in DOMAIN flusher'.arr : flusher'.arr[j] = flusher.arr[k]

\* The address v will be invalidated.
Requested(v) ==
    \/ flusher'.kind = "Full"
    \/ \E j \in DOMAIN flusher'.arr : flusher'.arr[j] = v
    \/ call'.pc = "SetFlags" /\ call'.vaddr = v

\* push forgets no request and makes its own.
LEMMA PushRecords ==
    ASSUME FlusherOK, flusher.kind # "Closed", NEW v \in VAddr,
           flusher' = push(flusher, v)
    PROVE  Kept /\ Requested(v)
<1>1. CASE flusher.kind = "None"
  <2>1. flusher.arr = <<>> /\ flusher' = [kind |-> "Array", arr |-> <<v>>]
    BY <1>1 DEF FlusherOK, push, Flusher
  <2> QED
    BY <1>1, <2>1 DEF Kept, Requested
<1>2. CASE flusher.kind = "Array" /\ Len(flusher.arr) < SMALL_FLUSH_THRESHOLD
  <2>1. flusher' = [kind |-> "Array", arr |-> Append(flusher.arr, v)]
    BY <1>2 DEF push, Flusher
  <2>2. flusher.arr \in Seq(VAddr)
    BY DEF FlusherOK
  <2> DEFINE s == flusher.arr
  <2>3. \A k \in DOMAIN s : k \in DOMAIN Append(s, v) /\ Append(s, v)[k] = s[k]
    BY <2>2
  <2>4. Len(s) + 1 \in DOMAIN Append(s, v) /\ Append(s, v)[Len(s) + 1] = v
    BY <2>2
  <2> QED
    BY <1>2, <2>1, <2>3, <2>4 DEF Kept, Requested
<1>3. CASE flusher.kind = "Array" /\ ~(Len(flusher.arr) < SMALL_FLUSH_THRESHOLD)
  <2>1. flusher' = [kind |-> "Full", arr |-> <<>>]
    BY <1>3 DEF push, Flusher
  <2> QED
    BY <2>1 DEF Kept, Requested
<1>4. CASE flusher.kind = "Full"
  <2>1. flusher' = flusher
    BY <1>4 DEF push
  <2> QED
    BY <1>4, <2>1 DEF Kept, Requested
<1> QED
  BY <1>1, <1>2, <1>3, <1>4 DEF FlusherOK

\* The translations of the next state, when the root stays.
LEMMA TranslationNext ==
    ASSUME root_paddr' = root_paddr
    PROVE  \A w \in VAddr : Translation(w)' = query(mem', w)
BY DEF Translation, query, get_entry

\* A step that changes no translation, forgets no request and interrupts no
\* remap.
LEMMA QuietRecorded ==
    ASSUME StaleIsRecorded, root_paddr' = root_paddr, tlb' = tlb, Kept,
           call.pc # "SetFlags",
           root_paddr # NoFrame => \A w \in VAddr : query(mem', w) = query(mem, w)
    PROVE  StaleIsRecorded'
<1> SUFFICES ASSUME root_paddr # NoFrame, NEW w \in VAddr, Stale(w)'
             PROVE  \/ flusher'.kind = "Full"
                    \/ \E k \in DOMAIN flusher'.arr : Covers(w, flusher'.arr[k])
  BY DEF StaleIsRecorded, Covers
<1>1. Stale(w)
  BY TranslationNext DEF Stale, Translation
<1>2. flusher.kind = "Full" \/ \E k \in DOMAIN flusher.arr : Covers(w, flusher.arr[k])
  BY <1>1 DEF StaleIsRecorded
<1> QED
  BY <1>2 DEF Kept

\* A write to the block around v, for which the page it replaces is requested
\* to be invalidated.
LEMMA WriteRecorded ==
    ASSUME StaleIsRecorded, root_paddr' = root_paddr, root_paddr # NoFrame,
           tlb' = tlb, Kept, NEW v \in VAddr, NEW h, NEW old, NEW new,
           old = Unmapped \/ old.size = h,
           Blocks(mem, mem', v, h, old, new),
           call.pc = "SetFlags" => call.vaddr = v,
           old # Unmapped \/ call.pc = "SetFlags" => Requested(v)
    PROVE  StaleIsRecorded'
<1> SUFFICES ASSUME NEW w \in VAddr, Stale(w)'
             PROVE  \/ flusher'.kind = "Full"
                    \/ \E k \in DOMAIN flusher'.arr : Covers(w, flusher'.arr[k])
                    \/ call'.pc = "SetFlags" /\ Covers(w, call'.vaddr)
  BY DEF StaleIsRecorded, Covers
<1>1. tlb[w] # Unmapped /\ tlb[w] # query(mem', w)
  BY TranslationNext DEF Stale
<1>2. CASE Stale(w)
  <2>1. CASE call.pc = "SetFlags" /\ Covers(w, call.vaddr)
    BY <2>1 DEF Requested
  <2>2. CASE flusher.kind = "Full" \/ \E k \in DOMAIN flusher.arr : Covers(w, flusher.arr[k])
    BY <2>2 DEF Kept
  <2> QED
    BY <1>2, <2>1, <2>2 DEF StaleIsRecorded
<1>3. CASE ~Stale(w)
  <2>1. tlb[w] = query(mem, w)
    BY <1>1, <1>3 DEF Stale, Translation
  <2>2. SameBlock(v, w, h) /\ query(mem, w) = old
    BY <1>1, <2>1 DEF Blocks
  <2>3. Covers(w, v)
    BY <1>1, <2>1, <2>2 DEF Covers, SameBlock
  <2> QED
    BY <1>1, <2>1, <2>2, <2>3 DEF Requested
<1> QED
  BY <1>2, <1>3
---------------------------------------------------------------------------
(* The steps of the table *)

\* No table, no TLB of it: what a table step makes of a TLB it finds empty.
LEMMA EmptyRecorded == ASSUME tlb' = EmptyTlb PROVE StaleIsRecorded'
BY DEF StaleIsRecorded, Stale, EmptyTlb

\* A step that leaves memory, root and flusher alone.
LEMMA SameRecorded ==
    ASSUME StaleIsRecorded, UNCHANGED <<mem, root_paddr, flusher, tlb>>,
           call.pc # "SetFlags"
    PROVE  StaleIsRecorded'
<1>1. Kept
  BY DEF Kept
<1> QED
  BY <1>1, QuietRecorded

\* An operation that fails leaves what its cursor recorded.
LEMMA FailRecorded ==
    ASSUME StaleIsRecorded, NEW op, NEW v, NEW err, Fail(op, v, err), tlb' = tlb,
           call.pc # "SetFlags"
    PROVE  StaleIsRecorded'
BY SameRecorded DEF Fail

\* An operation begins.
LEMMA BeginRecorded ==
    ASSUME MmuInv, Begin, UNCHANGED hardware, Drop => ~active
    PROVE  StaleIsRecorded'
<1>0. IInv /\ PathInv /\ StaleIsRecorded /\ FlusherOK /\ tlb' = tlb
  BY DEF MmuInv, IInv, TypeOK, hardware
<1>1. CASE TryNew
  BY <1>0, <1>1, SameRecorded DEF TryNew, Idle
<1>2. CASE OpenCursor
  <2>1. Kept
    BY <1>0, <1>2 DEF OpenCursor, Kept, FlusherOK
  <2> QED
    BY <1>0, <1>2, <2>1, QuietRecorded DEF OpenCursor, Idle
<1>3. ASSUME NEW v \in VAddr, NEW p \in Target, NEW s \in PageSize, NEW f \in Flags,
             Map(v, p, s, f)
      PROVE  StaleIsRecorded'
  BY <1>0, <1>3, SameRecorded DEF Map, CursorIdle, Idle
<1>4. ASSUME NEW v \in VAddr, NEW p \in Target, NEW f \in Flags, Remap(v, p, f)
      PROVE  StaleIsRecorded'
  <2>0. CursorIdle /\ call.pc # "SetFlags"
    BY <1>4 DEF Remap, CursorIdle, Idle
  <2>1. CASE get_entry(mem, v).err = "Ok"
    <3>0. PICK t \in Linked, h \in PageSize :
             \E old, mid :
                /\ root_paddr # NoFrame /\ root_paddr' = root_paddr /\ flusher' = flusher
                /\ call' = [NoCall EXCEPT !.pc = "SetFlags", !.op = "remap",
                              !.vaddr = v, !.flags = f, !.size = h,
                              !.table = t, !.h = h]
                /\ Ends(mem', v, t, h)
                /\ old = Unmapped \/ old.size = h
                /\ Blocks(mem, mem', v, h, old, mid)
                /\ Blocks(mem, Pending(mem', call'), v, h, old, Abs!Page(p, f, h))
      BY <1>0, <1>4, <2>1, RemapWrites
    <3>1. PICK old, mid :
             /\ root_paddr # NoFrame /\ root_paddr' = root_paddr /\ flusher' = flusher
             /\ call'.pc = "SetFlags" /\ call'.vaddr = v
             /\ old = Unmapped \/ old.size = h
             /\ Blocks(mem, mem', v, h, old, mid)
      BY <3>0 DEF NoCall
    <3>2. Kept /\ Requested(v)
      BY <3>1 DEF Kept, Requested
    <3> QED
      BY <1>0, <2>0, <3>1, <3>2, WriteRecorded
  <2>2. CASE get_entry(mem, v).err # "Ok"
    BY <1>0, <1>4, <2>0, <2>2, FailRecorded DEF Remap
  <2> QED
    BY <2>1, <2>2
<1>5. ASSUME NEW v \in VAddr, NEW f \in Flags, Protect(v, f)
      PROVE  StaleIsRecorded'
  <2> DEFINE s == get_entry(mem, v)
             e == mem[s.table][p_index(v, s.h)]
             old == query(mem, v)
  <2>0. CursorIdle /\ call.pc # "SetFlags" /\ flusher.kind # "Closed"
    BY <1>5 DEF Protect, CursorIdle, Idle
  <2>1. CASE s.err = "Ok" /\ pte_is_present(e)
    <3>1. /\ root_paddr # NoFrame /\ old.size = s.h /\ root_paddr' = root_paddr
          /\ Blocks(mem, mem', v, s.h, old, Abs!Page(old.paddr, f, s.h))
          /\ flusher' = push(flusher, v)
      BY <1>0, <1>5, <2>1, ProtectWrites
    <3>2. Kept /\ Requested(v)
      BY <1>0, <2>0, <3>1, PushRecords
    <3> HIDE DEF s, old
    <3> QED
      BY <1>0, <2>0, <3>1, <3>2, WriteRecorded
  <2>2. CASE ~(s.err = "Ok" /\ pte_is_present(e))
    BY <1>0, <1>5, <2>0, <2>2, FailRecorded DEF Protect
  <2> QED
    BY <2>1, <2>2
<1>6. ASSUME NEW v \in VAddr, Unmap(v)
      PROVE  StaleIsRecorded'
  <2> DEFINE s == get_entry(mem, v)
             h == s.h
             old == query(mem, v)
  <2>0. CursorIdle /\ call.pc # "SetFlags" /\ flusher.kind # "Closed"
    BY <1>6 DEF Unmap, CursorIdle, Idle
  <2>1. CASE s.err = "Ok"
    <3>1. /\ root_paddr # NoFrame /\ root_paddr' = root_paddr
          /\ old = Unmapped \/ old.size = h
          /\ Blocks(mem, mem', v, h, old, Unmapped)
          /\ IF old # Unmapped THEN flusher' = push(flusher, v) ELSE flusher' = flusher
      BY <1>0, <1>6, <2>1, UnmapWrites
    <3>2. Kept /\ (old # Unmapped => Requested(v))
      <4>1. CASE old # Unmapped
        BY <1>0, <2>0, <3>1, <4>1, PushRecords
      <4>2. CASE old = Unmapped
        BY <3>1, <4>2 DEF Kept
      <4> QED
        BY <4>1, <4>2
    <3> HIDE DEF h, old
    <3> QED
      BY <1>0, <2>0, <3>1, <3>2, WriteRecorded
  <2>2. CASE s.err # "Ok"
    BY <1>0, <1>6, <2>0, <2>2, FailRecorded DEF Unmap
  <2> QED
    BY <2>1, <2>2
<1>7. ASSUME NEW op \in {"flush", "drop"}, Flush(op)
      PROVE  StaleIsRecorded'
  BY <1>0, <1>7, SameRecorded DEF Flush, CursorIdle, Idle
<1>8. CASE Drop
  BY <1>8, EmptyRecorded DEF MmuInv, hardware
<1> QED
  BY <1>1, <1>2, <1>3, <1>4, <1>5, <1>6, <1>7, <1>8 DEF Begin

\* An operation goes on.
LEMMA AdvanceRecorded ==
    ASSUME MmuInv, Advance, UNCHANGED hardware
    PROVE  StaleIsRecorded'
<1>0. IInv /\ PathInv /\ StaleIsRecorded /\ FlusherOK /\ tlb' = tlb
  BY DEF MmuInv, IInv, TypeOK, hardware
<1>1. ASSUME NEW f \in Frame, NEW stale \in StaleTable, AllocFrame(f, stale)
      PROVE  StaleIsRecorded'
  <2>1. root_paddr # NoFrame => \A w \in VAddr : query(mem', w) = query(mem, w)
    BY <1>0, <1>1, AllocOutside, LinkedTree, TreeUntouched
  <2>2. Kept
    BY <1>1 DEF AllocFrame, Kept
  <2> QED
    BY <1>0, <1>1, <2>1, <2>2, QuietRecorded DEF AllocFrame
<1>2. CASE AllocFail
  BY <1>0, <1>2, FailRecorded DEF AllocFail
<1>3. CASE ZeroFrame
  <2>1. root_paddr # NoFrame => \A w \in VAddr : query(mem', w) = query(mem, w)
    BY <1>0, <1>3, ZeroOutside, LinkedTree, TreeUntouched
  <2>2. Kept
    BY <1>3 DEF ZeroFrame, Kept
  <2> QED
    BY <1>0, <1>3, <2>1, <2>2, QuietRecorded DEF ZeroFrame
<1>4. CASE LinkRoot
  <2>1. root_paddr = NoFrame
    BY <1>0, <1>4 DEF LinkRoot, IInv, TreeInv, CallInv
  <2> QED
    BY <1>0, <2>1, EmptyRecorded DEF MmuInv
<1>5. CASE LinkTable
  <2>1. /\ Links(mem, mem', Linked, call.vaddr, call.table, call.h, call.new)
        /\ call.vaddr \in VAddr /\ call.pc = "Link" /\ UNCHANGED <<root_paddr, flusher>>
    BY <1>0, <1>5, LinkTableLinks
  <2>2. \A w \in VAddr : query(mem', w) = query(mem, w)
    BY <2>1, LinkKeeps
  <2>3. Kept
    BY <2>1 DEF Kept
  <2> QED
    BY <1>0, <2>1, <2>2, <2>3, QuietRecorded
<1>6. CASE MapCreate
  BY <1>0, <1>6, SameRecorded DEF MapCreate
<1>7. CASE MapDescend
  BY <1>0, <1>7, SameRecorded DEF MapDescend, Fail
<1>8. CASE MapPage
  <2>1. /\ root_paddr # NoFrame /\ call.vaddr \in VAddr
        /\ Blocks(mem, mem', call.vaddr, call.size, Unmapped,
                  Abs!Page(align_down(call.target, call.size), call.flags, call.size))
    BY <1>0, <1>8, MapPageWrites
  <2>2. call.pc = "Descend" /\ root_paddr' = root_paddr /\ flusher' = push(flusher, call.vaddr)
    BY <1>8 DEF MapPage
  <2>3. flusher.kind # "Closed" => Kept
    BY <1>0, <2>1, <2>2, PushRecords
  <2>4. flusher.kind = "Closed" => Kept
    BY <1>0, <2>2 DEF push, Kept
  <2> QED
    BY <1>0, <2>1, <2>2, <2>3, <2>4, WriteRecorded
<1>9. CASE MapOccupied
  BY <1>0, <1>9, FailRecorded DEF MapOccupied
<1>10. CASE RemapSetFlags
  <2>1. PICK old, new :
           /\ root_paddr # NoFrame /\ call.vaddr \in VAddr
           /\ old = Unmapped \/ old.size = call.h
           /\ Blocks(mem, mem', call.vaddr, call.h, old, new)
    BY <1>0, <1>10, RemapSetFlagsWrites
  <2>2. root_paddr' = root_paddr /\ flusher' = push(flusher, call.vaddr)
        /\ flusher.kind # "Closed"
    BY <1>0, <1>10 DEF RemapSetFlags, PathInv
  <2>3. Kept /\ Requested(call.vaddr)
    BY <1>0, <2>1, <2>2, PushRecords
  <2> QED
    BY <1>0, <2>1, <2>2, <2>3, WriteRecorded
<1>11. CASE FlushDone
  <2>1. Kept
    BY <1>0, <1>11 DEF FlushDone, Kept
  <2> QED
    BY <1>0, <1>11, <2>1, QuietRecorded DEF FlushDone
<1> QED
  BY <1>1, <1>2, <1>3, <1>4, <1>5, <1>6, <1>7, <1>8, <1>9, <1>10, <1>11 DEF Advance
---------------------------------------------------------------------------
(* The steps of the hardware *)

\* An invalidated page leaves the TLB with its request.
LEMMA InvalidatePageRecorded ==
    ASSUME MmuInv, NEW v \in VAddr, InvalidatePage(v)
    PROVE  StaleIsRecorded'
<1>1. /\ call.pc = "Flush" /\ flusher.kind = "Array" /\ flusher.arr # <<>>
      /\ v = Head(flusher.arr)
      /\ flusher' = [kind |-> "Array", arr |-> Tail(flusher.arr)]
      /\ UNCHANGED <<mem, root_paddr, call>>
      /\ \/ tlb' = EmptyTlb
         \/ tlb' = [w \in VAddr |-> IF Covers(w, v) THEN Unmapped ELSE tlb[w]]
  BY DEF InvalidatePage, FlushEntry, Invalidate, Flusher
<1>2. CASE tlb' = EmptyTlb
  BY <1>2, EmptyRecorded
<1>3. CASE tlb' = [w \in VAddr |-> IF Covers(w, v) THEN Unmapped ELSE tlb[w]]
  <2>1. ASSUME NEW w \in VAddr, Stale(w)'
        PROVE  ~Covers(w, v) /\ tlb'[w] = tlb[w]
    BY <1>3, <2>1 DEF Stale
  <2> SUFFICES ASSUME root_paddr # NoFrame, NEW w \in VAddr, Stale(w)'
               PROVE  \E k \in DOMAIN flusher'.arr : Covers(w, flusher'.arr[k])
    BY <1>1, <2>1 DEF StaleIsRecorded, Covers
  <2>2. Stale(w)
    BY <1>1, <2>1, TranslationNext DEF Stale, Translation
  <2>3. PICK k \in DOMAIN flusher.arr : Covers(w, flusher.arr[k])
    BY <1>1, <2>2 DEF MmuInv, StaleIsRecorded
  <2>4. flusher.arr \in Seq(VAddr)
    BY DEF MmuInv, IInv, TypeOK, FlusherOK
  <2>5. k # 1
    BY <1>1, <2>1, <2>3, <2>4
  <2>6. k - 1 \in DOMAIN Tail(flusher.arr) /\ Tail(flusher.arr)[k - 1] = flusher.arr[k]
    BY <1>1, <2>3, <2>4, <2>5
  <2> QED
    BY <1>1, <2>3, <2>6
<1> QED
  BY <1>1, <1>2, <1>3

\* A translation that the walker loads is the one the table holds.
LEMMA FillRecorded ==
    ASSUME MmuInv, NEW v \in VAddr, Fill(v)
    PROVE  StaleIsRecorded'
<1>1. tlb' = [tlb EXCEPT ![v] = Translation(v)] /\ UNCHANGED vars
  BY DEF Fill
<1>2. \A w \in VAddr : Translation(w)' = Translation(w)
  BY <1>1, TranslationNext DEF vars, Translation
<1>3. \A w \in VAddr : tlb'[w] = IF w = v THEN Translation(v) ELSE tlb[w]
  BY <1>1 DEF MmuInv
<1>4. ASSUME NEW w \in VAddr, Stale(w)'
      PROVE  tlb'[w] = tlb[w] /\ Stale(w)
  BY <1>2, <1>3, <1>4 DEF Stale
<1> SUFFICES ASSUME root_paddr # NoFrame, NEW w \in VAddr, Stale(w)'
             PROVE  \/ flusher.kind = "Full"
                    \/ \E k \in DOMAIN flusher.arr : Covers(w, flusher.arr[k])
                    \/ call.pc = "SetFlags" /\ Covers(w, call.vaddr)
  BY <1>1, <1>4 DEF StaleIsRecorded, Covers, vars
<1> QED
  BY <1>4 DEF MmuInv, StaleIsRecorded

\* Every step of the machine.
LEMMA MmuStep == MmuInv /\ [MmuNext]_mmuVars => MmuInv'
<1> SUFFICES ASSUME MmuInv, [MmuNext]_mmuVars PROVE MmuInv'
  OBVIOUS
<1>1. IInv' /\ PathInv'
  BY MmuStepsTable, StepInv, StepRefines DEF MmuInv
<1>2. CASE TableStep
  <2>1. StaleIsRecorded'
    BY <1>2, BeginRecorded, AdvanceRecorded DEF TableStep
  <2>2. active => root_paddr' # NoFrame
    <3> SUFFICES ASSUME active PROVE root_paddr' # NoFrame
      OBVIOUS
    <3>1. root_paddr # NoFrame
      BY DEF MmuInv
    <3>2. CASE LinkRoot
      BY <3>1, <3>2 DEF LinkRoot, MmuInv, IInv, TreeInv, CallInv
    <3>3. CASE Drop
      BY <1>2, <3>3 DEF TableStep
    <3>4. CASE ~LinkRoot /\ ~Drop
      BY <1>2, <3>1, <3>4
         DEF TableStep, Begin, Advance, TryNew, OpenCursor, Map, Remap, Protect, Unmap,
             Flush, Fail, AllocFrame, AllocFail, ZeroFrame, LinkTable, MapCreate,
             MapDescend, MapPage, MapOccupied, RemapSetFlags, FlushDone
    <3> QED
      BY <3>2, <3>3, <3>4
  <2> QED
    BY <1>1, <1>2, <2>1, <2>2 DEF MmuInv, TableStep, hardware, EmptyTlb
<1>3. ASSUME NEW v \in VAddr, InvalidatePage(v) PROVE MmuInv'
  <2>1. StaleIsRecorded'
    BY <1>3, InvalidatePageRecorded
  <2>2. /\ UNCHANGED <<root_paddr, active>>
        /\ \/ tlb' = EmptyTlb
           \/ tlb' = [w \in VAddr |-> IF Covers(w, v) THEN Unmapped ELSE tlb[w]]
    BY <1>3 DEF InvalidatePage, FlushEntry, Invalidate
  <2>3. tlb' = [w \in VAddr |-> tlb'[w]] /\ (tlb = EmptyTlb => tlb' = EmptyTlb)
    BY <2>2 DEF EmptyTlb
  <2> QED
    BY <1>1, <2>1, <2>2, <2>3 DEF MmuInv, EmptyTlb
<1>4. CASE InvalidateAll
  <2>1. tlb' = EmptyTlb /\ UNCHANGED <<root_paddr, active>>
    BY <1>4 DEF InvalidateAll, FlushAll, Invalidate
  <2> QED
    BY <1>1, <2>1, EmptyRecorded DEF MmuInv, EmptyTlb
<1>5. ASSUME NEW v \in VAddr, Fill(v) PROVE MmuInv'
  <2>1. StaleIsRecorded'
    BY <1>5, FillRecorded
  <2>2. active /\ tlb' = [tlb EXCEPT ![v] = Translation(v)] /\ UNCHANGED <<root_paddr, active>>
    BY <1>5 DEF Fill, vars
  <2>3. tlb' = [w \in VAddr |-> tlb'[w]]
    BY <2>2 DEF MmuInv
  <2> QED
    BY <1>1, <2>1, <2>2, <2>3 DEF MmuInv
<1>6. CASE Activate
  <2>1. StaleIsRecorded'
    BY <1>6, EmptyRecorded DEF Activate, MmuInv
  <2> QED
    BY <1>1, <1>6, <2>1 DEF Activate, MmuInv, EmptyTlb, vars
<1>7. CASE Deactivate
  <2>1. tlb' = EmptyTlb /\ ~active' /\ root_paddr' = root_paddr
    BY <1>7 DEF Deactivate, vars
  <2> QED
    BY <1>1, <2>1, EmptyRecorded DEF MmuInv, EmptyTlb
<1>8. CASE UNCHANGED mmuVars
  <2>1. \A w \in VAddr : Translation(w)' = Translation(w)
    BY <1>8, TranslationNext DEF mmuVars, Translation
  <2>2. StaleIsRecorded'
    BY <1>8, <2>1 DEF mmuVars, MmuInv, StaleIsRecorded, Stale, Covers
  <2> QED
    BY <1>1, <1>8, <2>2 DEF mmuVars, MmuInv, EmptyTlb
<1> QED
  BY <1>2, <1>3, <1>4, <1>5, <1>6, <1>7, <1>8 DEF MmuNext
---------------------------------------------------------------------------
(* The results *)

\* The invariant holds of every behaviour of the machine.
THEOREM MmuInvariance == MmuSpec => []MmuInv
<1>1. MmuInit => MmuInv
  <2> SUFFICES ASSUME MmuInit PROVE MmuInv
    OBVIOUS
  <2>1. Init /\ tlb = EmptyTlb /\ ~active
    BY DEF MmuInit
  <2>2. IInv /\ PathInv
    BY <2>1, InitInv, InitPath
  <2>3. StaleIsRecorded
    BY <2>1 DEF StaleIsRecorded, Stale, EmptyTlb
  <2> QED
    BY <2>1, <2>2, <2>3 DEF MmuInv, EmptyTlb
<1> QED
  BY <1>1, MmuStep, PTL DEF MmuSpec

\* Whatever a TLB holds that the table does not is covered by a request still
\* recorded (PageTable64Cursor::push, TlbFlusher), or by the one that the remap
\* in progress is about to record.
THEOREM StaleRecorded == MmuSpec => []StaleIsRecorded
<1>1. MmuInv => StaleIsRecorded
  BY DEF MmuInv
<1> QED
  BY <1>1, MmuInvariance, PTL

\* When the cursor is gone no TLB that its invalidations reach translates an
\* address otherwise than the table: the drop of the cursor flushes all that
\* its operations changed (PageTable64::cursor).
THEOREM NoneStale == MmuSpec => []NoStaleTranslation
<1>1. MmuInv => NoStaleTranslation
  <2> SUFFICES ASSUME MmuInv, flusher.kind = "Closed", root_paddr # NoFrame,
                      NEW w \in VAddr, Stale(w)
               PROVE  FALSE
    BY DEF NoStaleTranslation
  <2>1. DOMAIN flusher.arr = {} /\ call.pc # "SetFlags"
    BY DEF MmuInv, IInv, TypeOK, FlusherOK, PathInv
  <2> QED
    BY <2>1 DEF MmuInv, StaleIsRecorded
<1> QED
  BY <1>1, MmuInvariance, PTL

\* The table in use implements AddressSpace like any other: the hardware
\* changes nothing of it.
THEOREM MmuRefinement == MmuSpec => ImplementsAddressSpace
BY MmuRunsTable, Refinement
===========================================================================
