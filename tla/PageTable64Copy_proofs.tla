---------------------- MODULE PageTable64Copy_proofs ----------------------
(***************************************************************************)
(* Which of two tables owns a frame, when one has borrowed from the other  *)
(* by copy_from: for every number of levels and entries, every range that  *)
(* is copied and every order of operations, copies and drops, as long as   *)
(* callers copy only entries that lead to tables.                          *)
(***************************************************************************)
EXTENDS PageTable64Copy, PageTable64_proofs, DivisionLemmas

\* Callers copy populated entries only (see AllDropped for what happens else).
PopulatedOnly == ~CopyUnused

\* Entry i of the root t leads to a table of the other root.
IsBorrowed(t, i) ==
    \/ t = root_paddr /\ i \in borrowed_entries
    \/ t = other.root_paddr /\ i \in other.borrowed_entries

\* Entry i of t leads to a table, which is freed with t.
Owns(t, i) == Leads(t, i) /\ ~IsBorrowed(t, i)

CopyTypeOK ==
    /\ borrowed_entries \subseteq Idx
    /\ other \in [root_paddr : Frame \cup {NoFrame}, borrowed_entries : SUBSET Idx]

OtherRootInv ==
    /\ root_paddr = NoFrame => borrowed_entries = {}
    /\ other.root_paddr = NoFrame => other.borrowed_entries = {}
    /\ other.root_paddr # NoFrame =>
          /\ other.root_paddr \in Linked
          /\ other.root_paddr # root_paddr
          /\ height[other.root_paddr] = LEVELS - 1

\* A borrowed entry still is the lender's, who borrows nothing.
BorrowInv ==
    /\ \A i \in borrowed_entries :
          /\ other.root_paddr # NoFrame /\ other.borrowed_entries = {}
          /\ Leads(other.root_paddr, i)
          /\ mem[root_paddr][i] = mem[other.root_paddr][i]
    /\ \A i \in other.borrowed_entries :
          /\ root_paddr # NoFrame /\ borrowed_entries = {}
          /\ Leads(root_paddr, i)
          /\ mem[other.root_paddr][i] = mem[root_paddr][i]

\* Each table has at most one owner, and each but a root has one.
OwnUniqueInv ==
    \A t1, t2 \in Linked, i1, i2 \in Idx :
        /\ Owns(t1, i1)
        /\ Owns(t2, i2)
        /\ pte_paddr(mem[t1][i1]) = pte_paddr(mem[t2][i2])
        => t1 = t2 /\ i1 = i2

OwnParentInv ==
    \A c \in Linked \ {root_paddr, other.root_paddr} :
        \E t \in Linked, i \in Idx : Owns(t, i) /\ pte_paddr(mem[t][i]) = c

OwnerInv == CopyTypeOK /\ OtherRootInv /\ BorrowInv /\ OwnUniqueInv /\ OwnParentInv

CopyInv == CoreInv /\ OwnerInv
---------------------------------------------------------------------------
(* Steps that copy and free nothing *)

\* The root above every other table.
LEMMA RootHeight ==
    ASSUME CopyInv
    PROVE  /\ LEVELS - 1 \in Nat /\ LEVELS - 1 > 0 /\ LEVELS - 1 \in H
           /\ root_paddr # NoFrame =>
                 root_paddr \in Linked /\ height[root_paddr] = LEVELS - 1
           /\ other.root_paddr # NoFrame =>
                 other.root_paddr \in Linked /\ height[other.root_paddr] = LEVELS - 1
           /\ NoFrame \notin Linked
BY LevelsAssumption, AllocAssumption
   DEF CopyInv, CoreInv, RootOK, OwnerInv, OtherRootInv, H, TypeOK, Linked

\* An entry that is borrowed leads where the lender's does.
LEMMA BorrowedLeads ==
    ASSUME CopyInv
    PROVE  /\ \A i \in borrowed_entries : i \in Idx /\ Leads(root_paddr, i)
           /\ \A i \in other.borrowed_entries : i \in Idx /\ Leads(other.root_paddr, i)
BY RootHeight DEF CopyInv, OwnerInv, CopyTypeOK, OtherRootInv, BorrowInv, Leads

\* A step that links and unlinks no table changes no owner.
LEMMA KeptOwners ==
    ASSUME CopyInv, CoreInv', TreeKept, UNCHANGED <<borrowed_entries, other>>
    PROVE  CopyInv'
<1>1. CopyTypeOK' /\ OtherRootInv'
  BY DEF CopyInv, OwnerInv, CopyTypeOK, OtherRootInv, TreeKept
<1>2. BorrowInv'
  BY BorrowedLeads, RootHeight
     DEF CopyInv, OwnerInv, OtherRootInv, BorrowInv, TreeKept
<1>3. \A t \in Linked, i \in Idx :
         /\ Owns(t, i)' <=> Owns(t, i)
         /\ Owns(t, i) => mem'[t][i] = mem[t][i]
  BY DEF Owns, IsBorrowed, TreeKept
<1>4. OwnUniqueInv'
  BY <1>3 DEF CopyInv, OwnerInv, OwnUniqueInv, TreeKept
<1>5. OwnParentInv'
  <2> SUFFICES ASSUME NEW c \in Linked \ {root_paddr, other.root_paddr}
               PROVE  \E t \in Linked, i \in Idx :
                          Owns(t, i)' /\ pte_paddr(mem'[t][i]) = c
    BY DEF OwnParentInv, TreeKept
  <2>1. PICK t \in Linked, i \in Idx : Owns(t, i) /\ pte_paddr(mem[t][i]) = c
    BY DEF CopyInv, OwnerInv, OwnParentInv
  <2> QED
    BY <1>3, <2>1
<1> QED
  BY <1>1, <1>2, <1>4, <1>5 DEF CopyInv, OwnerInv

\* A new root owns nothing yet.
LEMMA RootOwners ==
    ASSUME CopyInv, CoreInv', NEW n, RootLinked(n), UNCHANGED <<borrowed_entries, other>>
    PROVE  CopyInv'
<1>1. /\ n \notin Linked /\ Linked' = Linked \cup {n}
      /\ root_paddr = NoFrame /\ root_paddr' = n /\ n # NoFrame
      /\ UNCHANGED <<mem, height>>
      /\ \A i \in Idx : ~Leads(n, i)
  BY DEF RootLinked
<1>2. borrowed_entries = {} /\ other.borrowed_entries = {} /\ n # other.root_paddr
  BY <1>1, RootHeight DEF CopyInv, OwnerInv, OtherRootInv, BorrowInv
<1>3. CopyTypeOK' /\ OtherRootInv' /\ BorrowInv'
  BY <1>1, <1>2 DEF CopyInv, OwnerInv, CopyTypeOK, OtherRootInv, BorrowInv
<1>4. \A t \in Linked', i \in Idx : Owns(t, i)' <=> t \in Linked /\ Owns(t, i)
  BY <1>1, <1>2 DEF Owns, IsBorrowed, Leads
<1>5. OwnUniqueInv'
  BY <1>1, <1>4 DEF CopyInv, OwnerInv, OwnUniqueInv
<1>6. OwnParentInv'
  <2> SUFFICES ASSUME NEW c \in Linked \ {other.root_paddr}
               PROVE  \E t \in Linked, i \in Idx :
                          Owns(t, i)' /\ pte_paddr(mem'[t][i]) = c
    BY <1>1 DEF OwnParentInv
  <2>1. c # root_paddr
    BY <1>1, RootHeight
  <2>2. PICK t \in Linked, i \in Idx : Owns(t, i) /\ pte_paddr(mem[t][i]) = c
    BY <2>1 DEF CopyInv, OwnerInv, OwnParentInv
  <2> QED
    BY <1>1, <1>4, <2>2
<1> QED
  BY <1>3, <1>5, <1>6 DEF CopyInv, OwnerInv

\* The table of the entry a new table hangs from owns it: no entry that led
\* nowhere is borrowed.
LEMMA TableOwners ==
    ASSUME CopyInv, CoreInv', NEW n, NEW t, NEW i, TableLinked(n, t, i),
           UNCHANGED <<borrowed_entries, other>>
    PROVE  CopyInv'
<1>1. /\ n \notin Linked /\ Linked' = Linked \cup {n} /\ n # root_paddr
      /\ t \in Linked /\ i \in Idx
      /\ ~Leads(t, i) /\ Leads(t, i)' /\ pte_paddr(mem'[t][i]) = n
      /\ UNCHANGED <<root_paddr, height>>
      /\ \A j \in Idx : ~Leads(n, j)'
      /\ \A t1 \in Linked, j \in Idx :
            t1 # t \/ j # i => /\ Leads(t1, j)' <=> Leads(t1, j)
                              /\ mem'[t1][j] = mem[t1][j]
  BY DEF TableLinked
<1>2. n # other.root_paddr \/ other.root_paddr = NoFrame
  BY <1>1, RootHeight
<1>3. ~IsBorrowed(t, i)
  BY <1>1, BorrowedLeads DEF IsBorrowed
<1>4. CopyTypeOK' /\ OtherRootInv'
  BY <1>1 DEF CopyInv, OwnerInv, CopyTypeOK, OtherRootInv
<1>5. \A t1 \in Linked, j \in Idx :
         Leads(t1, j) => Leads(t1, j)' /\ mem'[t1][j] = mem[t1][j]
  BY <1>1
<1>6. BorrowInv'
  BY <1>1, <1>5, BorrowedLeads, RootHeight
     DEF CopyInv, OwnerInv, OtherRootInv, BorrowInv
<1>7. \A t1 \in Linked, j \in Idx :
         Owns(t1, j) => Owns(t1, j)' /\ mem'[t1][j] = mem[t1][j]
  BY <1>1, <1>5 DEF Owns, IsBorrowed
<1>8. \A t1 \in Linked', j \in Idx :
         Owns(t1, j)' =>
            \/ t1 = t /\ j = i
            \/ /\ t1 \in Linked /\ Owns(t1, j) /\ mem'[t1][j] = mem[t1][j]
               /\ pte_paddr(mem[t1][j]) # n
  BY <1>1 DEF Owns, IsBorrowed, CopyInv, CoreInv, ChildInv
<1>9. OwnUniqueInv'
  <2> SUFFICES ASSUME NEW t1 \in Linked', NEW t2 \in Linked',
                      NEW i1 \in Idx, NEW i2 \in Idx,
                      Owns(t1, i1)', Owns(t2, i2)',
                      pte_paddr(mem'[t1][i1]) = pte_paddr(mem'[t2][i2])
               PROVE  t1 = t2 /\ i1 = i2
    BY DEF OwnUniqueInv
  <2> QED
    BY <1>1, <1>8 DEF CopyInv, OwnerInv, OwnUniqueInv
<1>10. OwnParentInv'
  <2> SUFFICES ASSUME NEW c \in Linked', c # root_paddr, c # other.root_paddr
               PROVE  \E t1 \in Linked', j \in Idx :
                         Owns(t1, j)' /\ pte_paddr(mem'[t1][j]) = c
    BY <1>1 DEF OwnParentInv
  <2>1. CASE c = n
    <3>1. Owns(t, i)'
      BY <1>1, <1>3 DEF Owns, IsBorrowed
    <3> QED
      BY <1>1, <2>1, <3>1
  <2>2. CASE c \in Linked
    <3>1. PICK t1 \in Linked, j \in Idx : Owns(t1, j) /\ pte_paddr(mem[t1][j]) = c
      BY <2>2 DEF CopyInv, OwnerInv, OwnParentInv
    <3> QED
      BY <1>1, <1>7, <3>1
  <2> QED
    BY <1>1, <2>1, <2>2
<1> QED
  BY <1>4, <1>6, <1>9, <1>10 DEF CopyInv, OwnerInv
---------------------------------------------------------------------------
(* The tables below some entries of a root *)

\* Tables lie below a root, so their entries are not borrowed ones.
LEMMA BelowRoots ==
    ASSUME CopyInv, NEW t \in Linked, height[t] < LEVELS - 1
    PROVE  /\ t # root_paddr /\ t # other.root_paddr
           /\ \A i : Leads(t, i) <=> Owns(t, i)
<1>1. height[t] \in 0 .. LEVELS - 1
  BY DEF CopyInv, CoreInv, TypeOK, Linked, H
<1>2. t # root_paddr /\ t # other.root_paddr
  BY <1>1, RootHeight
<1> QED
  BY <1>2 DEF Owns, IsBorrowed

\* The children of tables of one height are linked one level down.
LEMMA ChildrenBelow ==
    ASSUME CopyInv, NEW k \in 1 .. LEVELS - 1, NEW S \in SUBSET AtHeight(k)
    PROVE  /\ Children(S) \subseteq AtHeight(k - 1)
           /\ \A c \in Children(S) :
                 \E t \in S, i \in Idx : Leads(t, i) /\ pte_paddr(mem[t][i]) = c
           /\ \A t \in S, i \in Idx : Leads(t, i) => pte_paddr(mem[t][i]) \in Children(S)
<1>1. k \in Nat /\ k > 0
  BY LevelsAssumption
<1>2. \A t \in S : t \in Linked /\ t \in DOMAIN mem /\ height[t] = k
  BY DEF AtHeight, Linked
<1>3. \A c \in Children(S) :
         \E t \in S, i \in Idx : Leads(t, i) /\ pte_paddr(mem[t][i]) = c
  BY <1>1, <1>2 DEF Children, Leads
<1>4. \A t \in S, i \in Idx : Leads(t, i) => pte_paddr(mem[t][i]) \in Children(S)
  BY <1>2 DEF Children, Leads
<1>5. Children(S) \subseteq AtHeight(k - 1)
  <2> SUFFICES ASSUME NEW c \in Children(S) PROVE c \in AtHeight(k - 1)
    OBVIOUS
  <2>1. PICK t \in S, i \in Idx : Leads(t, i) /\ pte_paddr(mem[t][i]) = c
    BY <1>3
  <2> QED
    BY <1>2, <2>1 DEF CopyInv, CoreInv, ChildInv, AtHeight
<1> QED
  BY <1>3, <1>4, <1>5

\* What dealloc_tree frees below S: whatever is reached from S, and only that.
LEMMA TreeBelow ==
    ASSUME CopyInv, NEW S \in SUBSET AtHeight(LEVELS - 2)
    PROVE  /\ S \subseteq dealloc_tree(S)
           /\ \A c \in dealloc_tree(S) :
                 /\ c \in Linked /\ height[c] < LEVELS - 1
                 /\ \/ c \in S
                    \/ \E t \in dealloc_tree(S), i \in Idx :
                          Leads(t, i) /\ pte_paddr(mem[t][i]) = c
           /\ \A t \in dealloc_tree(S), i \in Idx :
                 Leads(t, i) => pte_paddr(mem[t][i]) \in dealloc_tree(S)
<1> DEFINE S1 == Children(S)
           S2 == Children(S1)
<1>1. S \subseteq dealloc_tree(S)
  BY DEF dealloc_tree
<1>2. LEVELS - 2 \in 1 .. LEVELS - 1 /\ LEVELS \in Nat
  BY LevelsAssumption
<1>3. /\ S1 \subseteq AtHeight(LEVELS - 2 - 1)
      /\ \A c \in S1 : \E t \in S, i \in Idx : Leads(t, i) /\ pte_paddr(mem[t][i]) = c
      /\ \A t \in S, i \in Idx : Leads(t, i) => pte_paddr(mem[t][i]) \in S1
  BY <1>2, ChildrenBelow
<1> HIDE DEF S1
<1>4. CASE LEVELS = 3
  <2>1. dealloc_tree(S) = S \cup S1
    BY <1>4 DEF dealloc_tree, S1
  <2>2. \A t \in S1 : \A i : ~Leads(t, i)
    BY <1>3, <1>4 DEF AtHeight, Leads
  <2>3. \A c \in S : c \in Linked /\ height[c] = 1
    BY <1>4 DEF AtHeight
  <2>4. \A c \in S1 : c \in Linked /\ height[c] = 0
    BY <1>3, <1>4 DEF AtHeight
  <2> QED
    BY <1>1, <1>3, <1>4, <2>1, <2>2, <2>3, <2>4
<1>5. CASE LEVELS = 4
  <2>1. dealloc_tree(S) = S \cup S1 \cup S2
    BY <1>5 DEF dealloc_tree, S1
  <2>2. /\ S2 \subseteq AtHeight(1 - 1)
        /\ \A c \in S2 : \E t \in S1, i \in Idx : Leads(t, i) /\ pte_paddr(mem[t][i]) = c
        /\ \A t \in S1, i \in Idx : Leads(t, i) => pte_paddr(mem[t][i]) \in S2
    <3>1. 1 \in 1 .. LEVELS - 1 /\ S1 \in SUBSET AtHeight(1)
      BY <1>3, <1>5
    <3> QED
      BY <3>1, ChildrenBelow
  <2> HIDE DEF S2
  <2>3. \A t \in S2 : \A i : ~Leads(t, i)
    BY <2>2 DEF AtHeight, Leads
  <2>4. \A c \in S : c \in Linked /\ height[c] = 2
    BY <1>5 DEF AtHeight
  <2>5. \A c \in S1 : c \in Linked /\ height[c] = 1
    BY <1>3, <1>5 DEF AtHeight
  <2>6. \A c \in S2 : c \in Linked /\ height[c] = 0
    BY <2>2 DEF AtHeight
  <2> QED
    BY <1>1, <1>3, <1>5, <2>1, <2>2, <2>3, <2>4, <2>5, <2>6
<1> QED
  BY <1>4, <1>5, LevelsAssumption

\* The tables below entries of a root that it owns are owned by those entries
\* or by one another.
OwnedBelow(X, r, J) ==
    /\ \A c \in X : c \in Linked /\ height[c] < LEVELS - 1
    /\ \A t \in Linked, i \in Idx :
          Owns(t, i) => (pte_paddr(mem[t][i]) \in X <=> t \in X \/ (t = r /\ i \in J))

\* What a drop or a copy frees below entries that a root owns is owned by them.
LEMMA SubtablesOwned ==
    ASSUME CopyInv, NEW r \in {root_paddr, other.root_paddr}, r # NoFrame,
           NEW J \in SUBSET Idx, \A j \in J : ~IsBorrowed(r, j)
    PROVE  OwnedBelow(Subtables(r, J), r, J)
<1> DEFINE S == {pte_paddr(mem[r][i]) : i \in {j \in J : IsTable(mem[r][j])}}
           X == dealloc_tree(S)
<1>1. r \in Linked /\ height[r] = LEVELS - 1 /\ LEVELS - 1 > 0 /\ LEVELS - 1 \in Nat
  BY RootHeight
<1>2. /\ \A c \in S : \E j \in J : Owns(r, j) /\ pte_paddr(mem[r][j]) = c
      /\ \A j \in J : Owns(r, j) => pte_paddr(mem[r][j]) \in S
  BY <1>1 DEF Owns, Leads
<1> HIDE DEF S
<1>3. S \subseteq AtHeight(LEVELS - 2)
  <2> SUFFICES ASSUME NEW c \in S PROVE c \in AtHeight(LEVELS - 2)
    OBVIOUS
  <2>1. PICK j \in J : Owns(r, j) /\ pte_paddr(mem[r][j]) = c
    BY <1>2
  <2>2. c \in Linked /\ height[c] = height[r] - 1
    BY <1>1, <2>1 DEF Owns, CopyInv, CoreInv, ChildInv
  <2> QED
    BY <1>1, <2>2, LevelsAssumption DEF AtHeight
<1>4. /\ S \subseteq X
      /\ \A c \in X :
            /\ c \in Linked /\ height[c] < LEVELS - 1
            /\ \/ c \in S
               \/ \E t \in X, i \in Idx : Leads(t, i) /\ pte_paddr(mem[t][i]) = c
      /\ \A t \in X, i \in Idx : Leads(t, i) => pte_paddr(mem[t][i]) \in X
  BY <1>3, TreeBelow
<1>5. Subtables(r, J) = X
  BY DEF Subtables, S
<1> HIDE DEF X
<1>6. ASSUME NEW t \in Linked, NEW i \in Idx, Owns(t, i), pte_paddr(mem[t][i]) \in X
      PROVE  t \in X \/ (t = r /\ i \in J)
  <2> DEFINE c == pte_paddr(mem[t][i])
  <2>1. CASE c \in S
    <3>1. PICK j \in J : Owns(r, j) /\ pte_paddr(mem[r][j]) = c
      BY <1>2, <2>1
    <3> QED
      BY <1>1, <1>6, <3>1 DEF CopyInv, OwnerInv, OwnUniqueInv
  <2>2. CASE \E u \in X, j \in Idx : Leads(u, j) /\ pte_paddr(mem[u][j]) = c
    <3>1. PICK u \in X, j \in Idx : Leads(u, j) /\ pte_paddr(mem[u][j]) = c
      BY <2>2
    <3>2. u \in Linked /\ Owns(u, j)
      BY <1>4, <3>1, BelowRoots
    <3> QED
      BY <1>6, <3>1, <3>2 DEF CopyInv, OwnerInv, OwnUniqueInv
  <2> QED
    BY <1>4, <1>6, <2>1, <2>2
<1>7. ASSUME NEW t \in Linked, NEW i \in Idx, Owns(t, i), t \in X \/ (t = r /\ i \in J)
      PROVE  pte_paddr(mem[t][i]) \in X
  BY <1>2, <1>4, <1>7 DEF Owns
<1> QED
  BY <1>4, <1>5, <1>6, <1>7 DEF OwnedBelow
---------------------------------------------------------------------------
(* Tables freed *)

\* Between operations every allocated frame is linked.
LEMMA IdleLinked ==
    ASSUME CopyInv, Idle
    PROVE  call = NoCall /\ Linked = DOMAIN mem
BY IdleNoNew, AllocAssumption DEF CopyInv, CoreInv, TypeOK, Linked

\* An entry that is borrowed leads to a table that its lender owns.
LEMMA LenderOwns ==
    ASSUME CopyInv, other.borrowed_entries = {}, NEW t \in Linked, NEW i \in Idx,
           Leads(t, i), ~Owns(t, i)
    PROVE  /\ t = root_paddr /\ i \in borrowed_entries
           /\ other.root_paddr \in Linked /\ Owns(other.root_paddr, i)
           /\ mem[t][i] = mem[other.root_paddr][i]
<1>1. t = root_paddr /\ i \in borrowed_entries
  BY DEF Owns, IsBorrowed
<1>2. /\ other.root_paddr # NoFrame /\ Leads(other.root_paddr, i)
      /\ mem[root_paddr][i] = mem[other.root_paddr][i]
  BY <1>1 DEF CopyInv, OwnerInv, BorrowInv
<1>3. other.root_paddr \in Linked /\ other.root_paddr # root_paddr
  BY <1>2 DEF CopyInv, OwnerInv, OtherRootInv
<1> QED
  BY <1>1, <1>2, <1>3 DEF Owns, IsBorrowed

\* A drop frees what the table owns, and nothing that the other one leads to.
LEMMA DropOwnStep == CopyInv /\ DropOwn => CopyInv'
<1> SUFFICES ASSUME CopyInv, DropOwn PROVE CopyInv'
  OBVIOUS
<1> DEFINE J == Idx \ borrowed_entries
           X == Subtables(root_paddr, J)
<1>1. /\ Idle /\ flusher.kind = "Closed" /\ root_paddr # NoFrame
      /\ other.borrowed_entries = {}
      /\ Free(Own(root_paddr, borrowed_entries))
      /\ root_paddr' = NoFrame /\ borrowed_entries' = {}
      /\ UNCHANGED <<flusher, call, other>>
  BY DEF DropOwn
<1>2. OwnedBelow(X, root_paddr, J)
  <2>1. \A j \in J : ~IsBorrowed(root_paddr, j)
    BY <1>1 DEF IsBorrowed
  <2> QED
    BY <1>1, <2>1, SubtablesOwned
<1>3. Own(root_paddr, borrowed_entries) = {root_paddr} \cup X
  BY <1>1 DEF Own
<1> HIDE DEF X
<1>4. call = NoCall /\ Linked = DOMAIN mem /\ NoFrame \notin DOMAIN mem
  BY <1>1, IdleLinked, RootHeight
<1>5. /\ DOMAIN mem' = DOMAIN mem \ ({root_paddr} \cup X) /\ DOMAIN height' = DOMAIN mem'
      /\ \A f \in DOMAIN mem' : mem'[f] = mem[f] /\ height'[f] = height[f]
      /\ mem' \in [DOMAIN mem' -> Table] /\ height' \in [DOMAIN mem' -> H]
  BY <1>1, <1>3 DEF Free, CopyInv, CoreInv, TypeOK
<1>6. Linked' = Linked \ ({root_paddr} \cup X)
  BY <1>1, <1>4, <1>5 DEF Linked
<1>7. CallOK' /\ CallInv'
  BY <1>1, <1>4, NoCallInv
<1>8. TypeOK' /\ RootOK'
  BY <1>1, <1>5, <1>7 DEF CopyInv, CoreInv, TypeOK, FlusherOK, RootOK
<1>9. \A t \in Linked', i \in Idx :
         /\ Leads(t, i)' <=> Leads(t, i)
         /\ Leads(t, i) => Owns(t, i) /\ pte_paddr(mem[t][i]) \in Linked'
  <2> SUFFICES ASSUME NEW t \in Linked', NEW i \in Idx
               PROVE  /\ Leads(t, i)' <=> Leads(t, i)
                      /\ Leads(t, i) => Owns(t, i) /\ pte_paddr(mem[t][i]) \in Linked'
    OBVIOUS
  <2>1. t \in Linked /\ t # root_paddr /\ t \notin X /\ mem'[t] = mem[t] /\ height'[t] = height[t]
    BY <1>4, <1>5, <1>6
  <2>2. Leads(t, i)' <=> Leads(t, i)
    BY <2>1 DEF Leads
  <2>3. ASSUME Leads(t, i) PROVE Owns(t, i) /\ pte_paddr(mem[t][i]) \in Linked'
    <3> DEFINE c == pte_paddr(mem[t][i])
    <3>1. Owns(t, i)
      BY <1>1, <2>1, <2>3 DEF Owns, IsBorrowed
    <3>2. c \in Linked /\ height[c] = height[t] - 1
      BY <2>1, <2>3 DEF CopyInv, CoreInv, ChildInv
    <3>3. c \notin X
      BY <1>2, <2>1, <3>1 DEF OwnedBelow
    <3>4. height[t] \in 0 .. LEVELS - 1
      BY <2>1 DEF CopyInv, CoreInv, TypeOK, Linked, H
    <3>5. c # root_paddr
      BY <1>1, <3>2, <3>4, RootHeight
    <3> QED
      BY <1>6, <3>1, <3>2, <3>3, <3>5
  <2> QED
    BY <2>2, <2>3
<1>10. ChildInv'
  BY <1>4, <1>5, <1>6, <1>9 DEF CopyInv, CoreInv, ChildInv
<1>11. CopyTypeOK' /\ OtherRootInv' /\ BorrowInv'
  <2>1. other.root_paddr \notin X
    BY <1>2, RootHeight DEF OwnedBelow, CopyInv, OwnerInv, CopyTypeOK
  <2>2. other.root_paddr # NoFrame => /\ other.root_paddr \in Linked'
                                      /\ height'[other.root_paddr] = LEVELS - 1
    BY <1>4, <1>5, <1>6, <2>1, RootHeight DEF CopyInv, OwnerInv, OtherRootInv
  <2> QED
    BY <1>1, <2>2 DEF CopyInv, OwnerInv, CopyTypeOK, OtherRootInv, BorrowInv
<1>12. \A t \in Linked', i \in Idx :
          (Owns(t, i)' <=> Owns(t, i)) /\ mem'[t][i] = mem[t][i]
  BY <1>1, <1>4, <1>5, <1>6, <1>9 DEF Owns, IsBorrowed
<1>13. OwnUniqueInv'
  BY <1>6, <1>12 DEF CopyInv, OwnerInv, OwnUniqueInv
<1>14. OwnParentInv'
  <2> SUFFICES ASSUME NEW c \in Linked', c # other.root_paddr
               PROVE  \E t \in Linked', i \in Idx :
                          Owns(t, i)' /\ pte_paddr(mem'[t][i]) = c
    BY <1>1 DEF OwnParentInv
  <2>1. c \in Linked /\ c # root_paddr /\ c \notin X
    BY <1>6
  <2>2. PICK t \in Linked, i \in Idx : Owns(t, i) /\ pte_paddr(mem[t][i]) = c
    BY <2>1 DEF CopyInv, OwnerInv, OwnParentInv
  <2>3. t \notin X /\ t # root_paddr
    BY <1>2, <2>1, <2>2 DEF OwnedBelow, Owns, IsBorrowed
  <2>4. t \in Linked'
    BY <1>6, <2>3
  <2> QED
    BY <1>12, <2>2, <2>4
<1> QED
  BY <1>7, <1>8, <1>10, <1>11, <1>13, <1>14 DEF CopyInv, CoreInv, OwnerInv

\* The two tables change places.
LEMMA SwitchStep == CopyInv /\ Switch => CopyInv'
<1> SUFFICES ASSUME CopyInv, Switch PROVE CopyInv'
  OBVIOUS
<1>1. /\ Idle /\ flusher.kind = "Closed"
      /\ root_paddr' = other.root_paddr
      /\ borrowed_entries' = other.borrowed_entries
      /\ other'.root_paddr = root_paddr /\ other'.borrowed_entries = borrowed_entries
      /\ other' = [root_paddr |-> root_paddr, borrowed_entries |-> borrowed_entries]
      /\ UNCHANGED <<mem, height, flusher, call>>
  BY DEF Switch
<1>2. Linked' = Linked /\ call' = NoCall
  BY <1>1, IdleLinked DEF Linked
<1>3. CallOK' /\ CallInv'
  BY <1>2, NoCallInv
<1>4. TypeOK'
  BY <1>1, <1>3 DEF CopyInv, CoreInv, TypeOK, FlusherOK, OwnerInv, CopyTypeOK
<1>5. RootOK'
  BY <1>1, <1>2, RootHeight DEF RootOK
<1>6. \A t, i : (Leads(t, i)' <=> Leads(t, i)) /\ (Owns(t, i)' <=> Owns(t, i))
  BY <1>1 DEF Leads, Owns, IsBorrowed
<1>7. ChildInv'
  BY <1>1, <1>2, <1>6 DEF CopyInv, CoreInv, ChildInv
<1>8. CopyTypeOK'
  BY <1>1 DEF CopyInv, CoreInv, TypeOK, OwnerInv, CopyTypeOK
<1>9. OtherRootInv'
  BY <1>1, <1>2, RootHeight DEF CopyInv, OwnerInv, OtherRootInv
<1>10. BorrowInv'
  BY <1>1, <1>6 DEF CopyInv, OwnerInv, BorrowInv, Leads
<1>11. OwnUniqueInv' /\ OwnParentInv'
  BY <1>1, <1>2, <1>6 DEF CopyInv, OwnerInv, OwnUniqueInv, OwnParentInv
<1> QED
  BY <1>3, <1>4, <1>5, <1>7, <1>8, <1>9, <1>10, <1>11 DEF CopyInv, CoreInv, OwnerInv
---------------------------------------------------------------------------
(* copy_from *)

\* Every number has an entry in the root.
LEMMA RootIndex == \A v \in Nat : root_index(v) \in Idx
<1> SUFFICES ASSUME NEW v \in Nat PROVE root_index(v) \in Idx
  OBVIOUS
<1>1. PageBytes(LEVELS - 1) \in Nat \ {0} /\ ENTRY_COUNT \in Nat \ {0}
  BY PageBytesPositive, LevelsAssumption, CountAssumption
<1>2. v \div PageBytes(LEVELS - 1) \in Int
  BY <1>1
<1> QED
  BY <1>1, <1>2 DEF root_index, p_index, Idx

\* copy_from writes entries of the root only.
LEMMA CopiedTyped ==
    ASSUME NEW r \in CopyRange
    PROVE  CopiedEntries(r[1], r[2]) \subseteq Idx
<1>1. r[1] \in Nat /\ r[2] \in Nat
  BY CopyAssumption
<1>2. CASE r[2] = 0
  BY <1>2 DEF CopiedEntries
<1>3. CASE r[2] # 0
  <2>1. r[1] + r[2] - 1 \in Nat
    BY <1>1, <1>3
  <2>2. root_index(r[1]) \in Idx /\ root_index(r[1] + r[2] - 1) \in Idx
    BY <1>1, <2>1, RootIndex
  <2> QED
    BY <1>3, <2>2, CountAssumption DEF CopiedEntries, Idx
<1> QED
  BY <1>2, <1>3

\* The tables that give way are those the target owns below the entries
\* copied; every other one is still led to, and what is borrowed is the
\* lender's own.
LEMMA CopyFromStep ==
    ASSUME PopulatedOnly, CopyInv, NEW r \in CopyRange, CopyFrom(r[1], r[2])
    PROVE  CopyInv'
<1>0. PICK copied : copied = CopiedEntries(r[1], r[2])
  OBVIOUS
<1> DEFINE J == copied \ borrowed_entries
           X == Subtables(root_paddr, J)
           R == root_paddr
           O == other.root_paddr
<1>1. /\ CursorIdle /\ MayCopy(copied)
      /\ mem' = [f \in DOMAIN mem \ X |->
                   IF f = R
                   THEN [i \in Idx |-> IF i \in copied THEN Source(i) ELSE mem[f][i]]
                   ELSE mem[f]]
      /\ height' = [f \in DOMAIN mem \ X |-> height[f]]
      /\ borrowed_entries' = borrowed_entries \cup copied
      /\ flusher' = IF r[2] = 0 THEN flusher ELSE Flusher("Full", <<>>)
      /\ UNCHANGED <<root_paddr, call, other>>
  BY <1>0 DEF CopyFrom, Replaced, Borrowed
<1>2. copied \subseteq Idx
  BY <1>0, CopiedTyped
<1>3. /\ O # NoFrame /\ other.borrowed_entries = {}
      /\ \A i \in copied : IsTable(mem[O][i])
      /\ Idle /\ R # NoFrame
  BY <1>1 DEF MayCopy, PopulatedOnly, CursorIdle, CopyInv, CoreInv, RootOK
<1>4. /\ O \in Linked /\ O # R /\ height[O] = LEVELS - 1
      /\ R \in Linked /\ height[R] = LEVELS - 1 /\ LEVELS - 1 > 0
  BY <1>3, RootHeight DEF CopyInv, OwnerInv, OtherRootInv
<1>5. OwnedBelow(X, R, J)
  <2>1. \A j \in J : ~IsBorrowed(R, j)
    BY <1>4 DEF IsBorrowed
  <2> QED
    BY <1>2, <1>3, <2>1, SubtablesOwned
<1> HIDE DEF X
<1>6. R \notin X /\ O \notin X
  BY <1>4, <1>5, RootHeight DEF OwnedBelow
<1>7. call = NoCall /\ Linked = DOMAIN mem /\ NoFrame \notin DOMAIN mem
  BY <1>3, IdleLinked, RootHeight
<1>8. Linked' = Linked \ X /\ DOMAIN mem' = DOMAIN mem \ X
  BY <1>1, <1>7 DEF Linked
<1>9. /\ \A t \in Linked', i \in Idx :
            mem'[t][i] = IF t = R /\ i \in copied THEN mem[O][i] ELSE mem[t][i]
      /\ \A t \in Linked' : height'[t] = height[t]
  BY <1>1, <1>7, <1>8 DEF Source
<1>10. TypeOK'
  <2>1. mem' \in [DOMAIN mem' -> Table]
    <3>1. \A i \in Idx : mem[O][i] \in PTE /\ mem[R][i] \in PTE
      BY <1>4, <1>7, EntriesTyped DEF CopyInv, CoreInv
    <3>2. [i \in Idx |-> IF i \in copied THEN Source(i) ELSE mem[R][i]] \in Table
      BY <3>1 DEF Source, Table
    <3> QED
      BY <1>1, <3>2 DEF CopyInv, CoreInv, TypeOK
  <2>2. height' \in [DOMAIN mem' -> H]
    BY <1>1, <1>8 DEF CopyInv, CoreInv, TypeOK
  <2>3. FlusherOK'
    BY <1>1, CountAssumption DEF CopyInv, CoreInv, TypeOK, FlusherOK, Flusher
  <2>4. CallOK'
    BY <1>1, <1>7, NoCallInv
  <2> QED
    BY <1>1, <1>8, <2>1, <2>2, <2>3, <2>4 DEF CopyInv, CoreInv, TypeOK
<1>11. CallInv'
  BY <1>1, <1>7, NoCallInv
<1>12. RootOK'
  BY <1>1, <1>3, <1>4, <1>6, <1>8, <1>9 DEF RootOK
<1>13. \A i \in copied : Leads(O, i) /\ Owns(O, i)
  BY <1>3, <1>4 DEF Leads, Owns, IsBorrowed
<1>14. \A t \in Linked', i \in Idx :
          Owns(t, i) /\ ~(t = R /\ i \in copied) => pte_paddr(mem[t][i]) \in Linked'
  BY <1>5, <1>8 DEF OwnedBelow, Owns, CopyInv, CoreInv, ChildInv
<1>15. \A t \in Linked', i \in Idx :
          /\ ~(t = R /\ i \in copied) =>
                (Leads(t, i)' <=> Leads(t, i)) /\ mem'[t][i] = mem[t][i]
          /\ t = R /\ i \in copied =>
                Leads(t, i)' /\ mem'[t][i] = mem[O][i] /\ Owns(O, i)
  BY <1>3, <1>4, <1>9, <1>13 DEF Leads
<1>16. ChildInv'
  <2> SUFFICES ASSUME NEW t \in Linked', NEW i \in Idx, Leads(t, i)'
               PROVE  /\ pte_paddr(mem'[t][i]) \in Linked'
                      /\ height'[pte_paddr(mem'[t][i])] = height'[t] - 1
    BY DEF ChildInv
  <2>1. PICK u \in Linked' : /\ Owns(u, i) /\ ~(u = R /\ i \in copied)
                             /\ mem'[t][i] = mem[u][i] /\ height[u] = height[t]
    <3>1. CASE t = R /\ i \in copied
      BY <1>4, <1>6, <1>8, <1>15, <3>1
    <3>2. CASE ~(t = R /\ i \in copied) /\ Owns(t, i)
      BY <1>15, <3>2
    <3>3. CASE ~(t = R /\ i \in copied) /\ ~Owns(t, i)
      <4>1. t \in Linked /\ Leads(t, i) /\ mem'[t][i] = mem[t][i]
        BY <1>8, <1>15, <3>3
      <4>2. t = R /\ O \in Linked /\ Owns(O, i) /\ mem[t][i] = mem[O][i]
        BY <1>3, <3>3, <4>1, LenderOwns
      <4> QED
        BY <1>4, <1>6, <1>8, <4>1, <4>2
    <3> QED
      BY <3>1, <3>2, <3>3
  <2>2. pte_paddr(mem[u][i]) \in Linked'
    BY <1>14, <2>1
  <2>3. height[pte_paddr(mem[u][i])] = height[u] - 1
    BY <1>8, <2>1 DEF Owns, CopyInv, CoreInv, ChildInv
  <2> QED
    BY <1>9, <2>1, <2>2, <2>3
<1>17. CopyTypeOK' /\ OtherRootInv'
  <2>1. CopyTypeOK'
    BY <1>1, <1>2 DEF CopyInv, OwnerInv, CopyTypeOK
  <2>2. O \in Linked' /\ height'[O] = LEVELS - 1
    BY <1>4, <1>6, <1>8, <1>9
  <2>3. other' = other /\ root_paddr' = R
    BY <1>1
  <2>4. OtherRootInv'
    BY <1>3, <1>4, <2>2, <2>3 DEF OtherRootInv
  <2> QED
    BY <2>1, <2>4
<1>18. BorrowInv'
  <2> SUFFICES ASSUME NEW i \in borrowed_entries \cup copied
               PROVE  Leads(O, i)' /\ mem'[R][i] = mem'[O][i]
    BY <1>1, <1>3 DEF BorrowInv
  <2>1. i \in Idx /\ R \in Linked' /\ O \in Linked'
    BY <1>2, <1>4, <1>6, <1>8 DEF CopyInv, OwnerInv, CopyTypeOK
  <2>2. Leads(O, i) /\ mem'[O][i] = mem[O][i] /\ Leads(O, i)'
    <3>1. Leads(O, i)
      BY <1>13 DEF CopyInv, OwnerInv, BorrowInv
    <3>2. O \in Linked' /\ i \in Idx /\ O # R
      BY <1>4, <2>1
    <3>3. height'[O] = height[O] /\ mem'[O][i] = mem[O][i]
      BY <1>9, <3>2
    <3>4. other' = other
      BY <1>1
    <3> QED
      BY <3>1, <3>3, <3>4 DEF Leads
  <2>3. mem'[R][i] = mem[O][i]
    <3>1. mem'[R][i] = IF i \in copied THEN mem[O][i] ELSE mem[R][i]
      BY <1>9, <2>1
    <3>2. i \in borrowed_entries => mem[R][i] = mem[O][i]
      BY DEF CopyInv, OwnerInv, BorrowInv
    <3> QED
      BY <3>1, <3>2
  <2> QED
    BY <2>2, <2>3
<1>19. \A t \in Linked', i \in Idx :
          /\ Owns(t, i)' <=> Owns(t, i) /\ ~(t = R /\ i \in copied)
          /\ Owns(t, i)' => mem'[t][i] = mem[t][i]
  BY <1>1, <1>3, <1>15 DEF Owns, IsBorrowed
<1>20. OwnUniqueInv'
  BY <1>8, <1>19 DEF CopyInv, OwnerInv, OwnUniqueInv
<1>21. OwnParentInv'
  <2> SUFFICES ASSUME NEW c \in Linked', c # R, c # O
               PROVE  \E t \in Linked', i \in Idx :
                          Owns(t, i)' /\ pte_paddr(mem'[t][i]) = c
    BY <1>1 DEF OwnParentInv
  <2>1. c \in Linked /\ c \notin X
    BY <1>8
  <2>2. PICK t \in Linked, i \in Idx : Owns(t, i) /\ pte_paddr(mem[t][i]) = c
    BY <2>1 DEF CopyInv, OwnerInv, OwnParentInv
  <2>3. t \notin X /\ ~(t = R /\ i \in copied)
    BY <1>5, <2>1, <2>2 DEF OwnedBelow, Owns, IsBorrowed
  <2>4. t \in Linked'
    BY <1>8, <2>3
  <2> QED
    BY <1>19, <2>2, <2>3, <2>4
<1> QED
  BY <1>10, <1>11, <1>12, <1>16, <1>17, <1>18, <1>20, <1>21
     DEF CopyInv, CoreInv, OwnerInv
---------------------------------------------------------------------------
(* Every step *)

\* No table, no owner.
LEMMA CopyInitInv == CopyInit => CopyInv
<1> SUFFICES ASSUME CopyInit PROVE CopyInv
  OBVIOUS
<1>1. IInv /\ Linked = {}
  BY InitInv DEF CopyInit, Init, Linked
<1>2. /\ borrowed_entries = {} /\ root_paddr = NoFrame
      /\ other.root_paddr = NoFrame /\ other.borrowed_entries = {} /\ other = NoTable
  BY DEF CopyInit, Init, NoTable
<1>3. CopyTypeOK
  BY <1>2 DEF CopyTypeOK, NoTable
<1> QED
  BY <1>1, <1>2, <1>3, HasCore
     DEF CopyInv, OwnerInv, OtherRootInv, BorrowInv, OwnUniqueInv, OwnParentInv

\* An operation of PageTable64 on the current table changes no owner but that
\* of the table it links.
LEMMA TableStepInv == CopyInv /\ TableStep => CopyInv'
<1> SUFFICES ASSUME CopyInv, TableStep PROVE CopyInv'
  OBVIOUS
<1>1. CoreInv /\ UNCHANGED <<borrowed_entries, other>>
  BY DEF CopyInv, TableStep
<1>2. /\ CoreInv'
      /\ \/ TreeKept
         \/ RootLinked(call.new)
         \/ \E n, t, i : TableLinked(n, t, i)
  <2>1. CASE TryNew
    BY <1>1, <2>1, TryNewStep
  <2>2. CASE OpenCursor
    BY <1>1, <2>2, OpenCursorStep
  <2>3. ASSUME NEW v \in VAddr, NEW p \in Target, NEW s \in MapSize,
               NEW f \in Flags, Map(v, p, s, f)
        PROVE  CoreInv' /\ TreeKept
    <3>1. s \in PageSize
      BY CopyAssumption
    <3> QED
      BY <1>1, <2>3, <3>1, MapStep
  <2>4. ASSUME NEW v \in VAddr, Unmap(v)
        PROVE  CoreInv' /\ TreeKept
    BY <1>1, <2>4, UnmapStep
  <2>5. ASSUME NEW op \in {"flush", "drop"}, Flush(op)
        PROVE  CoreInv' /\ TreeKept
    BY <1>1, <2>5, FlushBeginStep
  <2>6. CASE Continue
    BY <1>1, <2>6, ContinueStep
  <2> QED
    BY <2>1, <2>2, <2>3, <2>4, <2>5, <2>6 DEF TableStep
<1> QED
  BY <1>1, <1>2, KeptOwners, RootOwners, TableOwners

\* Every step keeps the invariant.
LEMMA CopyStepInv ==
    ASSUME PopulatedOnly, CopyInv, [CopyNext]_copyVars
    PROVE  CopyInv'
<1>1. CASE TableStep
  BY <1>1, TableStepInv
<1>2. ASSUME NEW r \in CopyRange, CopyFrom(r[1], r[2])
      PROVE  CopyInv'
  BY <1>2, CopyFromStep
<1>3. CASE DropOwn
  BY <1>3, DropOwnStep
<1>4. CASE Switch
  BY <1>4, SwitchStep
<1>5. CASE UNCHANGED copyVars
  <2>1. UNCHANGED <<mem, height, root_paddr, flusher, call, borrowed_entries, other>>
    BY <1>5 DEF copyVars
  <2>2. CallOK' /\ CallInv'
    BY <2>1 DEF CopyInv, CoreInv, TypeOK, CallOK, CallInv, Idle, MapEntry, Linked
  <2>3. CoreInv' /\ TreeKept
    BY <2>1, <2>2, SameMemory DEF CopyInv
  <2> QED
    BY <2>1, <2>3, KeptOwners
<1> QED
  BY <1>1, <1>2, <1>3, <1>4, <1>5 DEF CopyNext

\* The inductive invariant holds of every behaviour of two tables.
THEOREM CopyInvariance == ASSUME PopulatedOnly PROVE CopySpec => []CopyInv
<1>1. CopyInit => CopyInv
  BY CopyInitInv
<1>2. CopyInv /\ [CopyNext]_copyVars => CopyInv'
  BY CopyStepInv
<1> QED
  BY <1>1, <1>2, PTL DEF CopySpec
---------------------------------------------------------------------------
(* What frees a table *)

\* What a drop of the root r would free is closed under ownership.
OwnClosed(S, r) ==
    /\ S \subseteq Linked
    /\ r # NoFrame => r \in S
    /\ \A c \in S : c = r \/ height[c] < LEVELS - 1
    /\ \A t \in Linked, i \in Idx : Owns(t, i) => (pte_paddr(mem[t][i]) \in S <=> t \in S)

\* A table a root owns below it is not a root.
LEMMA OwnedIsBelow ==
    ASSUME CopyInv, NEW t \in Linked, NEW i \in Idx, Owns(t, i)
    PROVE  /\ pte_paddr(mem[t][i]) \in Linked
           /\ height[pte_paddr(mem[t][i])] = height[t] - 1
           /\ height[t] \in 1 .. LEVELS - 1
           /\ pte_paddr(mem[t][i]) \notin {root_paddr, other.root_paddr}
<1> DEFINE c == pte_paddr(mem[t][i])
<1>1. Leads(t, i) /\ c \in Linked /\ height[c] = height[t] - 1
  BY DEF Owns, CopyInv, CoreInv, ChildInv
<1>2. height[t] \in 1 .. LEVELS - 1
  BY <1>1, LevelsAssumption DEF CopyInv, CoreInv, TypeOK, Linked, H, Leads
<1> HIDE DEF c
<1>3. c # root_paddr /\ c # other.root_paddr
  BY <1>1, <1>2, RootHeight, LevelsAssumption
<1> QED
  BY <1>1, <1>2, <1>3 DEF c

\* What drop frees is what the root owns, directly or not.
LEMMA OwnOfRoot ==
    ASSUME CopyInv, NEW r \in {root_paddr, other.root_paddr}, NEW b \in SUBSET Idx,
           r # NoFrame => \A i \in Idx : IsBorrowed(r, i) <=> i \in b
    PROVE  OwnClosed(Own(r, b), r)
<1>1. CASE r = NoFrame
  BY <1>1 DEF Own, OwnClosed
<1>2. CASE r # NoFrame
  <2> DEFINE J == Idx \ b
             X == Subtables(r, J)
  <2>1. OwnedBelow(X, r, J)
    BY <1>2, SubtablesOwned
  <2> HIDE DEF X
  <2>2. Own(r, b) = {r} \cup X
    BY <1>2 DEF Own, X
  <2>3. r \in Linked /\ height[r] = LEVELS - 1 /\ LEVELS - 1 \in Nat
    BY <1>2, RootHeight
  <2>4. ASSUME NEW t \in Linked, NEW i \in Idx, Owns(t, i)
        PROVE  pte_paddr(mem[t][i]) \in {r} \cup X <=> t \in {r} \cup X
    <3>1. pte_paddr(mem[t][i]) # r
      BY <2>4, OwnedIsBelow
    <3>2. t = r => i \in J
      BY <1>2, <2>4 DEF Owns
    <3> QED
      BY <2>1, <2>4, <3>1, <3>2 DEF OwnedBelow
  <2> QED
    BY <2>1, <2>2, <2>3, <2>4 DEF OwnClosed, OwnedBelow
<1> QED
  BY <1>1, <1>2

\* Both tables' drops.
LEMMA BothOwn ==
    ASSUME CopyInv
    PROVE  OwnClosed(CurrentOwn, root_paddr) /\ OwnClosed(OtherOwn, other.root_paddr)
<1>1. borrowed_entries \in SUBSET Idx /\ other.borrowed_entries \in SUBSET Idx
  BY DEF CopyInv, OwnerInv, CopyTypeOK
<1>2. root_paddr # NoFrame /\ other.root_paddr # NoFrame => root_paddr # other.root_paddr
  BY DEF CopyInv, OwnerInv, OtherRootInv
<1>3. root_paddr # NoFrame =>
         \A i \in Idx : IsBorrowed(root_paddr, i) <=> i \in borrowed_entries
  BY <1>2 DEF IsBorrowed
<1>4. other.root_paddr # NoFrame =>
         \A i \in Idx : IsBorrowed(other.root_paddr, i) <=> i \in other.borrowed_entries
  BY <1>2 DEF IsBorrowed
<1> QED
  BY <1>1, <1>3, <1>4, OwnOfRoot DEF CurrentOwn, OtherOwn

\* Owners lead up to a root: a set of tables that has the owner of each of its
\* tables has a root or is empty.
LEMMA Climb ==
    ASSUME CopyInv, NEW S \in SUBSET Linked,
           root_paddr \notin S, other.root_paddr \notin S,
           \A t \in Linked, i \in Idx :
              Owns(t, i) => (pte_paddr(mem[t][i]) \in S => t \in S)
    PROVE  S = {}
<1> DEFINE At(k) == \E c \in S : height[c] = k
<1>1. ASSUME NEW k \in Nat, At(k)
      PROVE  At(k + 1)
  <2>1. PICK c \in S : height[c] = k
    BY <1>1
  <2>2. PICK t \in Linked, i \in Idx : Owns(t, i) /\ pte_paddr(mem[t][i]) = c
    BY <2>1 DEF CopyInv, OwnerInv, OwnParentInv
  <2>3. t \in S
    BY <2>1, <2>2
  <2>4. height[c] = height[t] - 1 /\ height[t] \in 1 .. LEVELS - 1
    BY <2>2, OwnedIsBelow
  <2>5. height[t] = k + 1
    BY <2>1, <2>4, LevelsAssumption
  <2> QED
    BY <2>3, <2>5
<1>2. \A c \in S : height[c] \in 0 .. LEVELS - 1
  BY DEF CopyInv, CoreInv, TypeOK, Linked, H
<1>3. ~At(4)
  BY <1>2, LevelsAssumption
<1>4. \A c \in S : height[c] \in 0 .. 3
  BY <1>2, LevelsAssumption
<1>5. ~At(3) /\ ~At(2) /\ ~At(1) /\ ~At(0)
  <2>1. ~At(3)
    BY <1>1, <1>3
  <2>2. ~At(2)
    BY <1>1, <2>1
  <2>3. ~At(1)
    BY <1>1, <2>2
  <2>4. ~At(0)
    BY <1>1, <2>3
  <2> QED
    BY <2>1, <2>2, <2>3, <2>4
<1> QED
  BY <1>4, <1>5

\* No frame is freed by both drops: what a table borrows is not its own,
\* however maps and unmaps went on below the borrowed entries.
THEOREM OwnersApart == ASSUME PopulatedOnly PROVE CopySpec => []OwnersDisjoint
<1>1. CopyInv => OwnersDisjoint
  <2> SUFFICES ASSUME CopyInv PROVE CurrentOwn \cap OtherOwn = {}
    BY DEF OwnersDisjoint
  <2> DEFINE S == CurrentOwn \cap OtherOwn
  <2>1. OwnClosed(CurrentOwn, root_paddr) /\ OwnClosed(OtherOwn, other.root_paddr)
    BY BothOwn
  <2>2. root_paddr \notin S /\ other.root_paddr \notin S
    <3>1. /\ root_paddr \in S => root_paddr \in Linked
          /\ other.root_paddr \in S => other.root_paddr \in Linked
      BY <2>1 DEF OwnClosed
    <3>2. ASSUME root_paddr \in S \/ other.root_paddr \in S
          PROVE  root_paddr = other.root_paddr
      BY <2>1, <3>1, <3>2, RootHeight, LevelsAssumption DEF OwnClosed
    <3> QED
      BY <3>1, <3>2, RootHeight DEF CopyInv, OwnerInv, OtherRootInv
  <2>3. S \in SUBSET Linked
    BY <2>1 DEF OwnClosed
  <2>4. \A t \in Linked, i \in Idx :
           Owns(t, i) => (pte_paddr(mem[t][i]) \in S => t \in S)
    BY <2>1 DEF OwnClosed
  <2> QED
    BY <2>2, <2>3, <2>4, Climb
<1> QED
  BY <1>1, CopyInvariance, PTL

\* Every allocated frame is freed by one of the two drops, or is the one that
\* an operation is about to link.
THEOREM CopiesLeakNothing == ASSUME PopulatedOnly PROVE CopySpec => []CopyNoLeak
<1>1. CopyInv => CopyNoLeak
  <2> SUFFICES ASSUME CopyInv PROVE Linked \subseteq CurrentOwn \cup OtherOwn
    BY DEF CopyNoLeak, Linked
  <2> DEFINE S == Linked \ (CurrentOwn \cup OtherOwn)
  <2>1. OwnClosed(CurrentOwn, root_paddr) /\ OwnClosed(OtherOwn, other.root_paddr)
    BY BothOwn
  <2>2. root_paddr \notin S /\ other.root_paddr \notin S
    BY <2>1, RootHeight DEF OwnClosed
  <2>3. S \in SUBSET Linked
    OBVIOUS
  <2>4. \A t \in Linked, i \in Idx :
           Owns(t, i) => (pte_paddr(mem[t][i]) \in S => t \in S)
    BY <2>1 DEF OwnClosed
  <2>5. S = {}
    BY <2>2, <2>3, <2>4, Climb
  <2> QED
    BY <2>5
<1> QED
  BY <1>1, CopyInvariance, PTL
---------------------------------------------------------------------------
(* What the two roots lead to *)

\* The other table reads entries as the current one does.
LEMMA OtherReads ==
    /\ \A S : Other!Children(S) = Children(S)
    /\ \A e : Other!next_table(e) = next_table(e) /\ (Other!IsTable(e) <=> IsTable(e))
    /\ \A m, t, v : Other!get_p2(m, t, v) = get_p2(m, t, v)
<1>1. \A e : Other!next_table(e) = next_table(e)
  BY DEF next_table, Other!next_table
<1>2. \A e : Other!IsTable(e) <=> IsTable(e)
  BY <1>1 DEF IsTable, Other!IsTable
<1>3. \A S : Other!Children(S) = Children(S)
  BY <1>2 DEF Children, Other!Children, Idx, Other!Idx
<1>4. \A v, h : Other!p_index(v, h) = p_index(v, h)
  BY DEF p_index, Other!p_index, PageBytes, Other!PageBytes
<1>5. \A m, t, v : Other!get_p2(m, t, v) = get_p2(m, t, v)
  BY <1>1, <1>2, <1>4
     DEF get_p2, Other!get_p2, get_p1, Other!get_p1, Slot, Other!Slot, NoSlot, Other!NoSlot
<1> QED
  BY <1>1, <1>2, <1>3, <1>5

\* The tables reached from a root are linked.
LEMMA ReachLinked ==
    ASSUME CopyInv, NEW r \in {root_paddr, other.root_paddr}, r # NoFrame
    PROVE  /\ {r} \subseteq DOMAIN mem
           /\ Children({r}) \subseteq DOMAIN mem
           /\ Children(Children({r})) \subseteq DOMAIN mem
           /\ LEVELS = 4 => Children(Children(Children({r}))) \subseteq DOMAIN mem
<1> DEFINE C1 == Children({r})
           C2 == Children(C1)
           C3 == Children(C2)
<1>1. r \in Linked /\ height[r] = LEVELS - 1
  BY RootHeight
<1>2. {r} \in SUBSET AtHeight(LEVELS - 1)
  BY <1>1 DEF AtHeight
<1>3. /\ LEVELS - 1 \in 1 .. LEVELS - 1 /\ LEVELS - 2 \in 1 .. LEVELS - 1
      /\ LEVELS = 4 => LEVELS - 3 \in 1 .. LEVELS - 1
      /\ LEVELS - 1 - 1 = LEVELS - 2 /\ LEVELS - 2 - 1 = LEVELS - 3
  BY LevelsAssumption
<1>4. C1 \in SUBSET AtHeight(LEVELS - 2)
  BY <1>2, <1>3, ChildrenBelow
<1> HIDE DEF C1
<1>5. C2 \in SUBSET AtHeight(LEVELS - 3)
  BY <1>3, <1>4, ChildrenBelow
<1> HIDE DEF C2
<1>6. LEVELS = 4 => C3 \in SUBSET AtHeight(LEVELS - 3 - 1)
  BY <1>3, <1>5, ChildrenBelow
<1> HIDE DEF C3
<1>7. \A k : AtHeight(k) \subseteq DOMAIN mem
  BY DEF AtHeight, Linked
<1>8. /\ {r} \subseteq DOMAIN mem /\ C1 \subseteq DOMAIN mem
      /\ C2 \subseteq DOMAIN mem
      /\ LEVELS = 4 => C3 \subseteq DOMAIN mem
  BY <1>2, <1>4, <1>5, <1>6, <1>7
<1> QED
  BY <1>8 DEF C1, C2, C3

\* Neither root leads to a frame that was freed, whichever of the tables copied
\* and whichever was dropped.
THEOREM CopiesAllocated == ASSUME PopulatedOnly PROVE CopySpec => []CopyNoDangling
<1>1. CopyInv => CopyNoDangling
  <2> SUFFICES ASSUME CopyInv PROVE CopyNoDangling
    OBVIOUS
  <2>1. NoDanglingTable
    <3> SUFFICES ASSUME root_paddr # NoFrame PROVE Tree \subseteq DOMAIN mem
      BY DEF NoDanglingTable
    <3>1. CASE LEVELS = 3
      BY <3>1, ReachLinked DEF Tree, Upper, Level0, Level1, Level2, Level3
    <3>2. CASE LEVELS = 4
      BY <3>2, ReachLinked DEF Tree, Upper, Level0, Level1, Level2, Level3
    <3> QED
      BY <3>1, <3>2, LevelsAssumption
  <2>2. Other!NoDanglingTable
    <3> SUFFICES ASSUME other.root_paddr # NoFrame PROVE Other!Tree \subseteq DOMAIN mem
      BY DEF Other!NoDanglingTable
    <3>1. CASE LEVELS = 3
      BY <3>1, ReachLinked, OtherReads
         DEF Other!Tree, Other!Upper, Other!Level0, Other!Level1, Other!Level2, Other!Level3
    <3>2. CASE LEVELS = 4
      BY <3>2, ReachLinked, OtherReads
         DEF Other!Tree, Other!Upper, Other!Level0, Other!Level1, Other!Level2, Other!Level3
    <3> QED
      BY <3>1, <3>2, LevelsAssumption
  <2> QED
    BY <2>1, <2>2 DEF CopyNoDangling
<1> QED
  BY <1>1, CopyInvariance, PTL

\* The two tables translate every address below a borrowed entry alike, from
\* the copy on: through either of them.
THEOREM BorrowedAlike == ASSUME PopulatedOnly PROVE CopySpec => []BorrowedIsShared
<1>1. CopyInv => BorrowedIsShared
  <2> SUFFICES ASSUME CopyInv, NEW v \in VAddr,
                      root_index(v) \in borrowed_entries \cup other.borrowed_entries
               PROVE  query(mem, v) = Other!query(mem, v)
    BY DEF BorrowedIsShared
  <2> DEFINE i == root_index(v)
             e == mem[root_paddr][i]
  <2>1. e = mem[other.root_paddr][i] /\ IsTable(e)
    BY DEF CopyInv, OwnerInv, BorrowInv, Leads
  <2>2. ~pte_is_huge(e)
    BY <2>1 DEF IsTable, next_table
  <2>3. \A w, h : Other!p_index(w, h) = p_index(w, h)
    BY DEF p_index, Other!p_index, PageBytes, Other!PageBytes
  <2>4. i = p_index(v, LEVELS - 1)
    BY DEF root_index
  <2>5. get_entry(mem, v) = Other!get_entry(mem, v)
    <3>1. CASE LEVELS = 3
      <4>1. get_entry(mem, v) = get_p2(mem, pte_paddr(e), v)
        BY <2>1, <2>2, <2>4, <3>1 DEF get_entry, get_p3
      <4>2. Other!get_entry(mem, v) = Other!get_p2(mem, pte_paddr(e), v)
        BY <2>1, <2>2, <2>3, <2>4, <3>1, OtherReads DEF Other!get_entry, Other!get_p3
      <4> QED
        BY <4>1, <4>2, OtherReads
    <3>2. CASE LEVELS = 4
      <4>1. get_entry(mem, v) = get_p3(mem, pte_paddr(e), v)
        BY <2>1, <2>4, <3>2 DEF get_entry, get_p4
      <4>2. Other!get_entry(mem, v) = Other!get_p3(mem, pte_paddr(e), v)
        BY <2>1, <2>3, <2>4, <3>2, OtherReads DEF Other!get_entry, Other!get_p4
      <4>3. \A t : Other!get_p3(mem, t, v) = get_p3(mem, t, v)
        BY <2>3, OtherReads DEF get_p3, Other!get_p3, Slot, Other!Slot, NoSlot, Other!NoSlot
      <4> QED
        BY <4>1, <4>2, <4>3
    <3> QED
      BY <3>1, <3>2, LevelsAssumption
  <2> HIDE DEF e, i
  <2> QED
    BY <2>3, <2>5 DEF query, Other!query, Unmapped, Other!Unmapped
<1> QED
  BY <1>1, CopyInvariance, PTL

\* The index in the root grows with the address, within what one root maps.
LEMMA RootIndexMonotone ==
    ASSUME NEW a \in Nat, NEW v \in Nat, NEW b \in Nat, a <= v, v <= b,
           a \div (PageBytes(LEVELS - 1) * ENTRY_COUNT)
              = b \div (PageBytes(LEVELS - 1) * ENTRY_COUNT)
    PROVE  root_index(a) <= root_index(v) /\ root_index(v) <= root_index(b)
<1> DEFINE p == PageBytes(LEVELS - 1)
           n == ENTRY_COUNT
<1>1. p \in Nat \ {0} /\ n \in Nat \ {0}
  BY PageBytesPositive, LevelsAssumption, CountAssumption
<1>2. \A x \in Nat : root_index(x) = (x \div p) % n
  BY DEF root_index, p_index
<1>3. a \div (p * n) = b \div (p * n)
  OBVIOUS
<1> HIDE DEF p, n
<1> DEFINE x == a \div p
           y == v \div p
           z == b \div p
<1>4. x \in Nat /\ y \in Nat /\ z \in Nat /\ x <= y /\ y <= z
  BY <1>1, Division, QuotientMonotone
<1>5. x \div n = z \div n
  BY <1>1, <1>3, DivideTwice, Zenon
<1>6. root_index(a) = x % n /\ root_index(v) = y % n /\ root_index(b) = z % n
  BY <1>2
<1> HIDE DEF x, y, z
<1>7. x \div n <= y \div n /\ y \div n <= z \div n
  BY <1>1, <1>4, QuotientMonotone
<1>8. x \div n \in Nat /\ y \div n \in Nat /\ z \div n \in Nat
  BY <1>1, <1>4, Division
<1>9. x \div n = y \div n /\ y \div n = z \div n
  BY <1>5, <1>7, <1>8
<1> QED
  BY <1>1, <1>4, <1>6, <1>9, RemainderMonotone

\* A copy borrows every entry that an address of its range is translated by.
THEOREM CopiesCover == CopySpec => CopyCoversRange
<1>1. [CopyNext]_copyVars =>
         [\A r \in CopyRange : CopyFrom(r[1], r[2]) =>
             \A v \in VAddr : v \in r[1] .. r[1] + r[2] - 1
                                 => root_index(v) \in borrowed_entries']_copyVars
  <2> SUFFICES ASSUME NEW r \in CopyRange, CopyFrom(r[1], r[2]),
                      NEW v \in VAddr, v \in r[1] .. r[1] + r[2] - 1
               PROVE  root_index(v) \in borrowed_entries'
    OBVIOUS
  <2> DEFINE a == r[1]
             b == r[1] + r[2] - 1
  <2>1. r[1] \in Nat /\ r[2] \in Nat /\ v \in Nat
    BY CopyAssumption, CountAssumption
  <2>2. b \in Nat /\ r[2] > 0 /\ a <= v /\ v <= b
    BY <2>1
  <2>3. a \div (PageBytes(LEVELS - 1) * ENTRY_COUNT)
          = b \div (PageBytes(LEVELS - 1) * ENTRY_COUNT)
    BY <2>2, RangeAssumption
  <2>4. borrowed_entries' = borrowed_entries \cup CopiedEntries(r[1], r[2])
    BY DEF CopyFrom, Borrowed
  <2>5. CopiedEntries(r[1], r[2]) = root_index(a) .. root_index(b)
    BY <2>2 DEF CopiedEntries
  <2> HIDE DEF a, b
  <2>6. root_index(a) <= root_index(v) /\ root_index(v) <= root_index(b)
    <3>1. a \in Nat
      BY <2>1 DEF a
    <3> QED
      BY <2>1, <2>2, <2>3, <3>1, RootIndexMonotone
  <2>7. root_index(v) \in Nat
    BY <2>1, RootIndex DEF Idx
  <2> QED
    BY <2>4, <2>5, <2>6, <2>7
<1> QED
  BY <1>1, PTL DEF CopySpec, CopyCoversRange
===========================================================================
