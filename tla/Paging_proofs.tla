---------------------------- MODULE Paging_proofs ----------------------------
(***************************************************************************)
(* Proofs about the readers of remote lists: what a read that is over has   *)
(* returned, for any list, any page size, any filter and any number of      *)
(* changes meanwhile.                                                       *)
(***************************************************************************)
EXTENDS Paging, FiniteSetTheorems, WellFoundedInduction, TLAPS

\* Every reader with any ids on any list, not only those the run looks at.
AnyRead ==
    \/ \E r \in Readers, ids \in SUBSET Item, S \in SUBSET Item, m \in [Item -> Marks] :
          BeginRead(r, ids, S, m)
    \/ Fetch \/ RefuseMembers \/ ChangeList
AnyReadSpec == PagingInit /\ [][AnyRead]_pagingVars

ReadTyped ==
    /\ reader \in Readers /\ only \subseteq Item /\ mark \in [Item -> Marks]
    /\ present \subseteq Item /\ stamp \in [Item -> Nat]
    /\ clock \in Nat /\ horizon \in Nat /\ since \in Nat
    /\ stage \in {"idle", "reading", "done"} /\ got \subseteq Item /\ steady \subseteq present
    /\ disturbed \in BOOLEAN

\* Only a reader that asks page by page ever has a cursor, and the window start in
\* it is the one the first page was asked with.
Numbered == {"github_org", "members"}
CursorKept ==
    /\ reader \notin PagedSources => only = {}
    /\ cursor = Start \/ /\ cursor = [kind |-> "next", after |-> since, at |-> cursor.at]
                         /\ cursor.at \in Int /\ reader # "github_named"
                         /\ reader \in ByOffset => cursor.at \in Nat
                         /\ reader \in Numbered => cursor.at # 0
                         /\ only # {} => reader \in Contentful \cup {"notion", "notion_ordered"}

\* The service's order is total: what is new or edited gets a place of its own.
Ordered ==
    /\ \A i, j \in Item : stamp[i] = stamp[j] => i = j
    /\ IF stage = "idle" THEN stamp = [i \in Item |-> i] /\ cursor = Start /\ got = {}
       ELSE \A i \in Item : stamp[i] < clock

\* The place of i is before the cursor.
Behind(i) ==
    /\ cursor # Start
    /\ IF reader \in ByOffset THEN i \in Listed /\ Ahead(i, Listed) < Offset
                              ELSE Rank(i) <= cursor.at

Due(i) == Wanted(i) /\ (only = {} \/ i \in only)

\* What is behind the cursor has been returned, at the end all of it.
Whole == reader \in OnePage => only = {} \/ Cardinality(only) <= PageSize
BehindRead ==
    stage = "reading" /\ ~disturbed /\ reader \notin Unordered
        => \A i \in steady : Behind(i) /\ Due(i) => i \in got
AllRead ==
    stage = "done" /\ ~disturbed /\ InOrder /\ Whole
        => \A i \in steady : Due(i) => i \in got
OnlyThose == only # {} => got \subseteq only

PagingInv == ReadTyped /\ CursorKept /\ Ordered /\ BehindRead /\ AllRead /\ OnlyThose

-----------------------------------------------------------------------------
(***************************************************************************)
(* Counting: places in a list that f orders.                               *)
(***************************************************************************)
Before(i, S, f) == {j \in S : f[j] < f[i]}
Nth(i, S, f) == Cardinality(Before(i, S, f))

LEMMA SmallerSet ==
  ASSUME NEW S, IsFiniteSet(S), NEW T, T \subseteq S
  PROVE  /\ IsFiniteSet(T) /\ Cardinality(T) \in Nat /\ Cardinality(S) \in Nat
         /\ Cardinality(T) <= Cardinality(S)
         /\ T # S => Cardinality(T) < Cardinality(S)
  <1>1. T \in SUBSET S
    OBVIOUS
  <1>2. /\ IsFiniteSet(T) /\ Cardinality(T) <= Cardinality(S)
        /\ Cardinality(S) = Cardinality(T) => S = T
    BY <1>1, FS_Subset
  <1>3. Cardinality(T) \in Nat /\ Cardinality(S) \in Nat
    BY <1>2, FS_CardinalityType
  <1>4. QED
    BY <1>2, <1>3

LEMMA NthTyped ==
  ASSUME NEW S, IsFiniteSet(S), NEW f, NEW i \in S
  PROVE  /\ Nth(i, S, f) \in Nat /\ IsFiniteSet(Before(i, S, f)) /\ Cardinality(S) \in Nat
         /\ f[i] \in Int => Nth(i, S, f) < Cardinality(S)
  <1>1. Before(i, S, f) \subseteq S
    BY DEF Before
  <1>2. f[i] \in Int => Before(i, S, f) # S
    BY DEF Before
  <1>3. QED
    BY <1>1, <1>2, SmallerSet DEF Nth

\* What comes before counts less.
LEMMA NthOrder ==
  ASSUME NEW S, IsFiniteSet(S), NEW f, \A k \in S : f[k] \in Int, NEW i \in S, NEW j \in S
  PROVE  /\ f[i] <= f[j] => Nth(i, S, f) <= Nth(j, S, f)
         /\ f[i] < f[j] => Nth(i, S, f) < Nth(j, S, f)
  <1>1. IsFiniteSet(Before(j, S, f))
    BY NthTyped
  <1>2. f[i] <= f[j] => Before(i, S, f) \subseteq Before(j, S, f)
    BY DEF Before
  <1>3. f[i] < f[j] => i \in Before(j, S, f) /\ i \notin Before(i, S, f)
    BY DEF Before
  <1>4. f[i] < f[j] => f[i] <= f[j]
    OBVIOUS
  <1>5. QED
    BY <1>1, <1>2, <1>3, <1>4, SmallerSet DEF Nth

\* A list that is not empty has a first and a last.
LEMMA Least ==
  ASSUME NEW S, IsFiniteSet(S), NEW f, \A k \in S : f[k] \in Int, NEW T, T \subseteq S, T # {}
  PROVE  \E m \in T : \A k \in T : f[m] <= f[k]
  <1> DEFINE Counts == {Nth(i, S, f) : i \in T}
  <1>1. Counts \subseteq Nat
    BY NthTyped
  <1>6. Counts # {}
    OBVIOUS
  <1>2. PICK b \in Counts : \A c \in Counts : ~(<<c, b>> \in OpToRel(<, Nat))
    <2> HIDE DEF Counts
    <2>1. QED
      BY <1>1, <1>6, NatLessThanWellFounded, WFMin
  <1>3. \A c \in Counts : ~(c < b)
    BY <1>1, <1>2 DEF OpToRel
  <1>4. PICK m \in T : b = Nth(m, S, f)
    OBVIOUS
  <1>5. ASSUME NEW k \in T PROVE f[m] <= f[k]
    <2>1. ~(Nth(k, S, f) < Nth(m, S, f))
      BY <1>3, <1>4
    <2>2. ~(f[k] < f[m])
      BY <2>1, NthOrder
    <2>3. QED
      BY <2>2
  <1>7. QED
    BY <1>5

LEMMA Greatest ==
  ASSUME NEW S, IsFiniteSet(S), NEW f, \A k \in S : f[k] \in Int, NEW T, T \subseteq S, T # {}
  PROVE  \E m \in T : \A k \in T : f[k] <= f[m]
  <1> DEFINE g == [i \in S |-> -f[i]]
  <1>1. \A k \in S : g[k] \in Int
    OBVIOUS
  <1>2. PICK m \in T : \A k \in T : g[m] <= g[k]
    <2> HIDE DEF g
    <2>1. QED
      BY <1>1, Least
  <1>3. ASSUME NEW k \in T PROVE f[k] <= f[m]
    <2>1. g[m] = -f[m] /\ g[k] = -f[k] /\ g[m] <= g[k]
      BY <1>2
    <2>2. QED
      BY <2>1
  <1>4. QED
    BY <1>3

\* The counts of a list leave none out: whoever is not first follows somebody.
LEMMA OneLess ==
  ASSUME NEW S, IsFiniteSet(S), NEW f, \A k \in S : f[k] \in Int, NEW i \in S, Nth(i, S, f) # 0,
         \A j, k \in S : f[j] = f[k] => j = k
  PROVE  \E m \in S : Nth(m, S, f) = Nth(i, S, f) - 1
  <1> DEFINE P == Before(i, S, f)
  <1>1. P \subseteq S /\ IsFiniteSet(P) /\ P # {}
    <2>1. P \subseteq S
      BY DEF Before
    <2>2. IsFiniteSet(P)
      BY NthTyped
    <2>3. P # {}
      BY FS_EmptySet DEF Nth
    <2>4. QED
      BY <2>1, <2>2, <2>3
  <1>2. PICK m \in P : \A k \in P : f[k] <= f[m]
    <2> HIDE DEF P
    <2>1. QED
      BY <1>1, Greatest
  <1>3. Before(m, S, f) = P \ {m}
    <2>1. ASSUME NEW k \in S, f[k] < f[m] PROVE k \in P /\ k # m
      BY <2>1, <1>1, <1>2 DEF Before
    <2>2. ASSUME NEW k \in P, k # m PROVE f[k] < f[m]
      <3>1. f[k] <= f[m] /\ f[k] # f[m] /\ f[k] \in Int /\ f[m] \in Int
        BY <2>2, <1>1, <1>2
      <3>2. QED
        BY <3>1
    <2>3. QED
      BY <2>1, <2>2, <1>1 DEF Before
  <1>4. Nth(m, S, f) = Cardinality(P) - 1
    <2> HIDE DEF P
    <2>1. QED
      BY <1>1, <1>2, <1>3, FS_RemoveElement DEF Nth
  <1>5. QED
    BY <1>1, <1>2, <1>4 DEF Nth

LEMMA EveryCount ==
  ASSUME NEW S, IsFiniteSet(S), NEW f, \A k \in S : f[k] \in Int, NEW i \in S,
         \A j, k \in S : f[j] = f[k] => j = k,
         NEW n \in Nat, n <= Nth(i, S, f)
  PROVE  \E m \in S : Nth(m, S, f) = n
  <1> DEFINE T == {j \in S : n <= Nth(j, S, f)}
  <1>1. T \subseteq S /\ T # {}
    OBVIOUS
  <1>2. PICK m \in T : \A k \in T : f[m] <= f[k]
    <2> HIDE DEF T
    <2>1. QED
      BY <1>1, Least
  <1>3. m \in S /\ n <= Nth(m, S, f) /\ Nth(m, S, f) \in Nat
    BY NthTyped
  <1>4. ASSUME Nth(m, S, f) # n PROVE FALSE
    <2>1. Nth(m, S, f) # 0
      BY <1>3, <1>4
    <2>2. PICK k \in S : Nth(k, S, f) = Nth(m, S, f) - 1
      BY <1>3, <2>1, OneLess
    <2>3. k \in T
      BY <1>3, <1>4, <2>2
    <2>4. Nth(m, S, f) <= Nth(k, S, f)
      BY <1>2, <1>3, <2>3, NthOrder
    <2>5. QED
      BY <1>3, <2>2, <2>4
  <1>5. QED
    BY <1>3, <1>4

\* A page of p items from place o: p at most, and fewer only at the end of the list.
LEMMA FullPage ==
  ASSUME NEW S, IsFiniteSet(S), NEW f, \A k \in S : f[k] \in Int,
         \A j, k \in S : f[j] = f[k] => j = k,
         NEW o \in Nat, NEW p \in Nat, NEW W, W \subseteq S,
         \A i \in S : i \in W <=> Nth(i, S, f) \in o .. o + p - 1
  PROVE  /\ IsFiniteSet(W) /\ Cardinality(W) \in Nat /\ Cardinality(W) <= p
         /\ (\E i \in S : Nth(i, S, f) >= o + p) => Cardinality(W) = p
  <1> DEFINE g == [i \in W |-> Nth(i, S, f)]
             R == o .. o + p - 1
  <1>1. IsFiniteSet(W) /\ Cardinality(W) \in Nat
    BY SmallerSet
  <1>2. IsFiniteSet(R) /\ Cardinality(R) = p
    <2>1. o \in Int /\ o + p - 1 \in Int /\ (o > o + p - 1 => p = 0) /\ o + p - 1 - o + 1 = p
      OBVIOUS
    <2>2. QED
      BY <2>1, FS_Interval
  <1>3. g \in Injection(W, R)
    <2>1. g \in [W -> R]
      OBVIOUS
    <2>2. ASSUME NEW j \in W, NEW k \in W, g[j] = g[k] PROVE j = k
      <3>1. j \in S /\ k \in S /\ Nth(j, S, f) = Nth(k, S, f) /\ Nth(k, S, f) \in Nat
        BY <2>2, NthTyped
      <3>2. ~(f[j] < f[k]) /\ ~(f[k] < f[j])
        BY <3>1, NthOrder, NthTyped
      <3>3. f[j] \in Int /\ f[k] \in Int
        BY <3>1
      <3>4. f[j] = f[k]
        BY <3>2, <3>3
      <3>5. QED
        BY <3>1, <3>4
    <2> HIDE DEF g, R
    <2>3. QED
      BY <2>1, <2>2 DEF Injection, IsInjective
  <1>4. Cardinality(W) <= p
    <2> HIDE DEF g, R
    <2>1. QED
      BY <1>2, <1>3, FS_Injection
  <1>5. ASSUME NEW i \in S, Nth(i, S, f) >= o + p PROVE Cardinality(W) = p
    <2>1. ASSUME NEW n \in R PROVE \E m \in W : g[m] = n
      <3>1. n \in Nat /\ n <= Nth(i, S, f)
        BY <1>5, NthTyped
      <3>2. PICK m \in S : Nth(m, S, f) = n
        BY <3>1, EveryCount
      <3>3. QED
        BY <3>2
    <2> HIDE DEF g, R
    <2>2. g \in Surjection(W, R)
      BY <1>3, <2>1 DEF Surjection, Injection
    <2>3. QED
      BY <1>2, <1>3, <2>2, FS_Injection
  <1>6. QED
    BY <1>1, <1>4, <1>5

-----------------------------------------------------------------------------
(***************************************************************************)
(* Pages.                                                                  *)
(***************************************************************************)
Spread == stamp \in [Item -> Nat] /\ \A i, j \in Item : stamp[i] = stamp[j] => i = j

LEMMA Ranks ==
  ASSUME Spread
  PROVE  /\ \A i \in Item : Rank(i) \in Int
         /\ \A i, j \in Item : Rank(i) = Rank(j) => i = j
         /\ IsFiniteSet(Item) /\ PageSize \in Nat /\ PageSize # 0
  BY PagingAssumption DEF PagingAssumption, Spread, Rank

\* Places, counts and ranks in a list agree.
LEMMA Counted ==
  ASSUME Spread, NEW S, S \subseteq Item, NEW i \in S
  PROVE  /\ Ahead(i, S) \in Nat /\ Ahead(i, S) < Cardinality(S) /\ Cardinality(S) \in Nat
         /\ \A j \in S : /\ Rank(i) <= Rank(j) => Ahead(i, S) <= Ahead(j, S)
                         /\ Rank(i) < Rank(j) => Ahead(i, S) < Ahead(j, S)
  <1> DEFINE f == [k \in Item |-> Rank(k)]
  <1>1. \A k \in Item : f[k] = Rank(k)
    OBVIOUS
  <1>2. \A k \in S : f[k] \in Int
    BY Ranks
  <1>3. IsFiniteSet(S)
    BY Ranks, SmallerSet
  <1>4. \A k \in S : Ahead(k, S) = Nth(k, S, f)
    BY DEF Ahead, Nth, Before
  <1> HIDE DEF f
  <1>5. /\ Nth(i, S, f) \in Nat /\ Nth(i, S, f) < Cardinality(S) /\ Cardinality(S) \in Nat
    BY <1>2, <1>3, NthTyped
  <1>6. ASSUME NEW j \in S
        PROVE  /\ f[i] <= f[j] => Nth(i, S, f) <= Nth(j, S, f)
               /\ f[i] < f[j] => Nth(i, S, f) < Nth(j, S, f)
    BY <1>2, <1>3, NthOrder
  <1>7. QED
    BY <1>1, <1>4, <1>5, <1>6

LEMMA PageAt ==
  ASSUME Spread, NEW S, S \subseteq Item, NEW o \in Nat
  PROVE  LET W == AtOffset(S, o)
         IN /\ W \subseteq S /\ Cardinality(W) \in Nat /\ Cardinality(W) <= PageSize
            /\ (\E i \in S : Ahead(i, S) >= o + PageSize) => Cardinality(W) = PageSize
            /\ \A i \in S : o <= Ahead(i, S) /\ Ahead(i, S) < o + PageSize => i \in W
  <1> DEFINE f == [k \in Item |-> Rank(k)]
             W == AtOffset(S, o)
  <1>1. \A k \in S : f[k] \in Int
    BY Ranks
  <1>2. \A j, k \in S : f[j] = f[k] => j = k
    BY Ranks
  <1>3. IsFiniteSet(S) /\ PageSize \in Nat
    BY Ranks, SmallerSet
  <1>4. \A k \in S : Ahead(k, S) = Nth(k, S, f)
    BY DEF Ahead, Nth, Before
  <1> HIDE DEF f
  <1>5. W \subseteq S /\ \A i \in S : i \in W <=> Nth(i, S, f) \in o .. o + PageSize - 1
    BY <1>4 DEF AtOffset
  <1> HIDE DEF W
  <1>6. /\ Cardinality(W) \in Nat /\ Cardinality(W) <= PageSize
        /\ (\E i \in S : Nth(i, S, f) >= o + PageSize) => Cardinality(W) = PageSize
    BY <1>1, <1>2, <1>3, <1>5, FullPage
  <1>7. ASSUME NEW i \in S, o <= Ahead(i, S), Ahead(i, S) < o + PageSize PROVE i \in W
    BY <1>3, <1>4, <1>5, <1>7, Counted
  <1>8. QED
    BY <1>4, <1>5, <1>6, <1>7 DEF W

\* The first page of a list: it has everything up to some rank, the token.
LEMMA FirstPage ==
  ASSUME Spread, NEW S, S \subseteq Item
  PROVE  LET W == FirstOf(S)
         IN /\ W \subseteq S
            /\ \A i \in S \ W, j \in W : Rank(j) < Rank(i)
            /\ Cardinality(S) <= PageSize => W = S
            /\ S # {} => \E m \in W : \A k \in W : Rank(k) <= Rank(m)
  <1> DEFINE f == [k \in Item |-> Rank(k)]
             W == FirstOf(S)
  <1>1. W \subseteq S /\ (\A i \in S : i \in W <=> Ahead(i, S) < PageSize)
    BY DEF FirstOf
  <1>2. PageSize \in Nat /\ PageSize # 0 /\ IsFiniteSet(S)
    BY Ranks, SmallerSet
  <1>3. ASSUME NEW i \in S \ W, NEW j \in W PROVE Rank(j) < Rank(i)
    <2>1. Rank(i) \in Int /\ Rank(j) \in Int /\ i \in S /\ j \in S
      BY <1>1, Ranks
    <2>2. ~(Ahead(i, S) <= Ahead(j, S))
      BY <1>1, <1>2, <2>1, Counted
    <2>3. QED
      BY <2>1, <2>2, Counted
  <1>4. Cardinality(S) <= PageSize => W = S
    BY <1>1, <1>2, Counted
  <1>5. ASSUME S # {} PROVE \E m \in W : \A k \in W : Rank(k) <= Rank(m)
    <2>1. \A k \in S : f[k] \in Int /\ f[k] = Rank(k)
      BY Ranks
    <2>2. \A k \in S : Ahead(k, S) = Nth(k, S, f)
      BY DEF Ahead, Nth, Before
    <2> HIDE DEF f
    <2>3. PICK m \in S : \A k \in S : f[m] <= f[k]
      BY <1>2, <1>5, <2>1, Least
    <2>4. Before(m, S, f) = {}
      BY <2>1, <2>3 DEF Before
    <2>5. Ahead(m, S) = 0
      BY <2>2, <2>4, FS_EmptySet DEF Nth
    <2>6. W # {}
      BY <1>1, <1>2, <2>5
    <2> HIDE DEF W
    <2>7. PICK n \in W : \A k \in W : f[k] <= f[n]
      BY <1>1, <1>2, <2>1, <2>6, Greatest
    <2>8. QED
      BY <1>1, <2>1, <2>7
  <1>6. QED
    BY <1>1, <1>3, <1>4, <1>5

-----------------------------------------------------------------------------
(***************************************************************************)
(* The outside.                                                            *)
(***************************************************************************)
LEMMA PagingStart == ASSUME PagingInit PROVE PagingInv
  <1>1. ReadTyped
    BY PagingAssumption DEF PagingAssumption, PagingInit, ReadTyped, Readers, PagedSources, Marks
  <1>2. CursorKept /\ OnlyThose
    BY DEF PagingInit, CursorKept, OnlyThose
  <1>3. Ordered
    BY DEF PagingInit, Ordered
  <1>4. BehindRead /\ AllRead
    BY DEF PagingInit, BehindRead, AllRead
  <1>5. QED
    BY <1>1, <1>2, <1>3, <1>4 DEF PagingInv

LEMMA PagingStutter == ASSUME PagingInv, UNCHANGED pagingVars PROVE PagingInv'
  <1>1. /\ UNCHANGED <<reader, only, mark, stage, cursor>> /\ UNCHANGED <<got, since, steady>>
        /\ UNCHANGED <<present, stamp, clock, horizon>> /\ UNCHANGED disturbed
    BY DEF pagingVars, listVars
  <1>2. ReadTyped' /\ CursorKept' /\ Ordered' /\ OnlyThose'
    BY <1>1 DEF PagingInv, ReadTyped, CursorKept, Ordered, OnlyThose
  <1>3. ASSUME NEW i PROVE (Due(i)' <=> Due(i)) /\ (Behind(i)' <=> Behind(i))
    BY <1>1 DEF Due, Wanted, PassesGate, Excluded, Behind, Listed, Updated, Published, After,
                Ahead, Rank, Offset
  <1>4. BehindRead' /\ AllRead'
    BY <1>1, <1>3 DEF PagingInv, BehindRead, AllRead, InOrder, Whole
  <1>5. QED
    BY <1>2, <1>4 DEF PagingInv

LEMMA BeginKept ==
  ASSUME PagingInv, NEW r \in Readers, NEW ids \in SUBSET Item, NEW S \in SUBSET Item,
         NEW m \in [Item -> Marks], BeginRead(r, ids, S, m)
  PROVE  PagingInv'
  <1>1. /\ stage = "idle" /\ stage' = "reading" /\ reader' = r /\ only' = ids /\ mark' = m
        /\ present' = S /\ steady' = S /\ clock' = 1 + Cardinality(Item) /\ horizon' = 2
        /\ UNCHANGED <<stamp, cursor, got, since, disturbed>>
        /\ r \notin PagedSources => ids = {}
    BY DEF BeginRead
  <1>2. cursor = Start /\ got = {} /\ stamp = [i \in Item |-> i]
    BY <1>1 DEF PagingInv, Ordered
  <1>3. Cardinality(Item) \in Nat /\ \A i \in Item : i \in Nat /\ i <= Cardinality(Item)
    BY PagingAssumption, FS_CardinalityType DEF PagingAssumption
  <1>4. \A i \in Item : stamp[i] < clock'
    BY <1>1, <1>2, <1>3
  <1>5. ReadTyped' /\ CursorKept' /\ Ordered'
    BY <1>1, <1>2, <1>3, <1>4 DEF PagingInv, ReadTyped, CursorKept, Ordered
  <1>6. BehindRead' /\ AllRead' /\ OnlyThose'
    BY <1>1, <1>2 DEF BehindRead, AllRead, OnlyThose, Behind
  <1>7. QED
    BY <1>5, <1>6 DEF PagingInv

\* What a change does to the place of an item it does not touch: the item stays
\* where it is, or moves away from the cursor, or something passed was moved.
LEMMA Undisturbed ==
  ASSUME NEW B, NEW C, NEW D, NEW o \in Nat, IsFiniteSet(C),
         B \subseteq C \/ (D \subseteq C /\ ~(Cardinality(D) < o)), Cardinality(C) < o
  PROVE  Cardinality(B) < o
  BY SmallerSet

\* One item is inserted, edited or deleted; the others keep their place.
LEMMA OthersKeep ==
  ASSUME PagingInv, stage = "reading", NEW i \in Item, Insert(i) \/ Edit(i) \/ Delete(i),
         UNCHANGED <<reader, only, mark, cursor, since, horizon>>, clock' = clock + 1
  PROVE  /\ present' \subseteq Item /\ stamp' \in [Item -> Nat]
         /\ steady' \subseteq present' /\ steady' \subseteq steady
         /\ \A j, k \in Item : stamp'[j] = stamp'[k] => j = k
         /\ \A j \in Item : stamp'[j] < clock'
         /\ \A j \in Item : j # i => stamp'[j] = stamp[j] /\ (j \in present' <=> j \in present)
         /\ i \notin steady' /\ disturbed' \in BOOLEAN /\ (disturbed => disturbed')
  <1> USE DEF PagingInv, ReadTyped, Ordered
  <1>1. stamp' = stamp \/ stamp' = [stamp EXCEPT ![i] = clock]
    BY DEF Insert, Edit, Delete
  <1>2. stamp' \in [Item -> Nat] /\ \A j \in Item : j # i => stamp'[j] = stamp[j]
    BY <1>1
  <1>3. /\ \A j, k \in Item : stamp'[j] = stamp'[k] => j = k
        /\ \A j \in Item : stamp'[j] < clock'
    <2>1. CASE stamp' = stamp
      BY <2>1
    <2>2. CASE stamp' = [stamp EXCEPT ![i] = clock]
      <3>1. stamp'[i] = clock /\ \A j \in Item : stamp[j] < clock /\ stamp[j] \in Nat
        BY <2>2
      <3>2. QED
        BY <1>2, <3>1
    <2>3. QED
      BY <1>1, <2>1, <2>2
  <1>4. /\ present' \subseteq Item /\ steady' \subseteq present' /\ steady' \subseteq steady
        /\ i \notin steady' /\ \A j \in Item : j # i => (j \in present' <=> j \in present)
    BY DEF Insert, Edit, Delete
  <1>5. disturbed' \in BOOLEAN /\ (disturbed => disturbed')
    BY DEF Insert, Edit, Delete, Passed
  <1>6. QED
    BY <1>2, <1>3, <1>4, <1>5

LEMMA OffsetTyped ==
  ASSUME PagingInv, cursor # Start, reader \in ByOffset
  PROVE  Offset \in Nat
  <1>1. ASSUME NEW n \in Nat, n # 0, NEW p \in Nat PROVE (n - 1) * p \in Nat
    <2>1. n - 1 \in Nat
      BY <1>1
    <2>2. \A m \in Nat : m * p \in Nat
      OBVIOUS
    <2>3. QED
      BY <2>1, <2>2
  <1>2. cursor.at \in Nat /\ (reader \in Numbered => cursor.at # 0) /\ PageSize \in Nat
    BY PagingAssumption DEF PagingAssumption, PagingInv, CursorKept
  <1>3. QED
    BY <1>1, <1>2 DEF Offset, Numbered

\* So whoever is behind the cursor afterwards was behind it before.
LEMMA StaysAhead ==
  ASSUME PagingInv, stage = "reading", NEW i \in Item, Insert(i) \/ Edit(i) \/ Delete(i),
         UNCHANGED <<reader, only, mark, cursor, since, horizon>>, clock' = clock + 1,
         ~disturbed', NEW j \in steady', Behind(j)'
  PROVE  Behind(j)
  <1> DEFINE L == Listed
             B == {k \in L : Rank(k) < Rank(j)}
             C == {k \in L' : Rank(k)' < Rank(j)'}
             D == {k \in L : Rank(k) < Rank(i)}
  <1>1. /\ present' \subseteq Item /\ stamp' \in [Item -> Nat] /\ stamp \in [Item -> Nat]
        /\ present \subseteq Item /\ \A k \in Item : stamp[k] < clock /\ clock \in Nat
    BY OthersKeep DEF PagingInv, ReadTyped, Ordered
  <1>2. \A k \in Item : k # i => stamp'[k] = stamp[k] /\ (k \in present' <=> k \in present)
    BY OthersKeep
  <1>3. j \in Item /\ j # i /\ cursor # Start /\ After' = After
    BY <1>1, OthersKeep DEF Behind, After
  <1>4. \A k \in Item : k # i => Rank(k)' = Rank(k)
    BY <1>2 DEF Rank
  <1>5. CASE reader \notin ByOffset
    BY <1>3, <1>4, <1>5 DEF Behind
  <1>6. CASE reader \in ByOffset
    <2>1. L \subseteq Item /\ L' \subseteq Item /\ IsFiniteSet(L) /\ IsFiniteSet(L')
      <3>1. L \subseteq Item /\ L' \subseteq Item
        BY <1>1 DEF Listed, Updated, Published
      <3>2. QED
        BY <3>1, SmallerSet, PagingAssumption DEF PagingAssumption
    <2>2. \A k \in Item : k # i => (k \in L' <=> k \in L)
      BY <1>2, <1>3 DEF Listed, Updated, Published
    <2>3. /\ j \in L' /\ Cardinality(C) < Offset /\ Offset \in Nat /\ j \in L
          /\ Offset' = Offset
      <3>1. Offset \in Nat /\ Offset' = Offset
        BY <1>3, <1>6, OffsetTyped DEF Offset
      <3>2. j \in L' /\ Cardinality(C) < Offset
        BY <1>6, <3>1 DEF Behind, Ahead
      <3>3. QED
        BY <1>3, <2>2, <3>1, <3>2
    <2>4. ASSUME i \in L, Rank(i) < Rank(j), ~(i \in L' /\ Rank(i)' < Rank(j)')
          PROVE  D \subseteq C /\ ~(Cardinality(D) < Offset)
      <3>1. ~Passed(i)
        <4>1. i \in present
          BY <2>4 DEF Listed, Updated, Published
        <4>2. CASE Edit(i) /\ reader \in Contentful
          <5>1. stamp'[i] = clock /\ present' = present
            BY <1>1, <4>2 DEF Edit
          <5>2. i \in L' /\ reader' = reader
            <6>1. After \in Int /\ stamp[i] >= After
              BY <1>3, <2>4, <4>2
                 DEF Listed, Updated, Contentful, PagingInv, CursorKept, ReadTyped, After, Start
            <6>2. stamp'[i] >= After
              BY <1>1, <5>1, <6>1
            <6>3. QED
              BY <1>3, <2>4, <4>2, <5>1, <6>2 DEF Listed, Updated, Published, Contentful
          <5>3. Rank(i)' = -clock /\ Rank(j)' = -stamp[j] /\ stamp[j] < clock /\ stamp[j] \in Nat
            BY <1>1, <1>2, <1>3, <4>2, <5>1, <5>2 DEF Rank
          <5>4. Rank(i)' < Rank(j)'
            BY <1>1, <5>3
          <5>5. QED
            BY <2>4, <5>2, <5>4
        <4>3. CASE Edit(i) /\ reader \notin Contentful
          BY <4>3 DEF Edit
        <4>4. CASE Delete(i)
          BY <4>4 DEF Delete
        <4>5. QED
          BY <4>1, <4>2, <4>3, <4>4 DEF Insert
      <3>2. ~(Cardinality(D) < Offset)
        BY <1>3, <1>6, <2>4, <3>1 DEF Passed, Ahead
      <3>3. ASSUME NEW k \in D PROVE k \in C
        <4>1. k \in Item /\ i \in Item /\ j \in Item /\ k \in L /\ Rank(k) < Rank(i)
          BY <1>3, <2>1
        <4>2. Rank(k) \in Int /\ Rank(i) \in Int /\ Rank(j) \in Int
          BY <1>1, <4>1 DEF Rank
        <4>3. Rank(k) < Rank(j) /\ k # i
          BY <2>4, <4>1, <4>2
        <4>4. QED
          BY <1>3, <1>4, <2>2, <4>1, <4>3
      <3>4. QED
        BY <3>2, <3>3
    <2>5. B \subseteq C \/ (D \subseteq C /\ ~(Cardinality(D) < Offset))
      <3>1. ASSUME NEW k \in B, k # i PROVE k \in C
        BY <1>3, <1>4, <2>1, <2>2, <3>1
      <3>2. i \notin B => B \subseteq C
        BY <3>1
      <3>3. i \in B /\ i \in C => B \subseteq C
        BY <3>1
      <3>4. QED
        BY <2>4, <3>2, <3>3
    <2>6. IsFiniteSet(C)
      BY <2>1, SmallerSet
    <2>7. Cardinality(B) < Offset
      BY <2>3, <2>5, <2>6, Undisturbed
    <2>8. QED
      BY <1>3, <1>6, <2>3, <2>7 DEF Behind, Ahead
  <1>7. QED
    BY <1>5, <1>6

LEMMA ChangeKept == ASSUME PagingInv, ChangeList PROVE PagingInv'
  <1>1. /\ stage = "reading" /\ clock' = clock + 1
        /\ UNCHANGED <<reader, only, mark, stage, cursor>> /\ UNCHANGED <<got, since>>
    BY DEF ChangeList
  <1>2. CASE UNCHANGED <<present, stamp, steady, disturbed>> /\ horizon' = horizon + 1
    <2>1. ReadTyped' /\ CursorKept' /\ Ordered' /\ OnlyThose'
      BY <1>1, <1>2 DEF PagingInv, ReadTyped, CursorKept, Ordered, OnlyThose
    <2>2. ASSUME NEW i, Behind(i)' PROVE Behind(i)
      <3>1. cursor # Start /\ After' = After
        BY <1>1, <2>2 DEF Behind, After
      <3>2. QED
        BY <1>1, <1>2, <2>2, <3>1
           DEF Behind, Listed, Updated, Published, Ahead, Rank, Offset
    <2>3. ASSUME NEW i PROVE Due(i)' <=> Due(i)
      BY <1>1, <1>2 DEF Due, Wanted, PassesGate, Excluded
    <2>4. BehindRead' /\ AllRead'
      BY <1>1, <1>2, <2>2, <2>3 DEF PagingInv, BehindRead, AllRead
    <2>5. QED
      BY <2>1, <2>4 DEF PagingInv
  <1>3. ASSUME NEW i \in Item, Insert(i) \/ Edit(i) \/ Delete(i), UNCHANGED horizon
        PROVE  PagingInv'
    <2>1. ReadTyped' /\ CursorKept' /\ Ordered' /\ OnlyThose'
      <3>1. ReadTyped' /\ Ordered'
        BY <1>1, <1>3, OthersKeep DEF PagingInv, ReadTyped, Ordered
      <3>2. CursorKept' /\ OnlyThose'
        BY <1>1, <1>3 DEF PagingInv, CursorKept, OnlyThose
      <3>3. QED
        BY <3>1, <3>2
    <2>2. ASSUME ~disturbed', NEW j \in steady', Behind(j)', Due(j)', reader \notin Unordered
          PROVE  j \in got
      <3>1. Behind(j)
        BY <1>1, <1>3, <2>2, StaysAhead
      <3>2. j \in steady /\ j # i /\ j \in Item /\ ~disturbed
        BY <1>1, <1>3, <2>2, OthersKeep
      <3>3. stamp'[j] = stamp[j]
        BY <1>1, <1>3, <3>2, OthersKeep
      <3>4. Due(j)
        BY <1>1, <2>2, <3>3 DEF Due, Wanted, PassesGate, Excluded
      <3>5. QED
        BY <1>1, <2>2, <3>1, <3>2, <3>4 DEF PagingInv, BehindRead
    <2>3. BehindRead' /\ AllRead'
      BY <1>1, <2>2 DEF BehindRead, AllRead
    <2>4. QED
      BY <2>1, <2>3 DEF PagingInv
  <1>4. QED
    BY <1>2, <1>3 DEF ChangeList

\* A refused page of members ends the list, and says so to nobody.
LEMMA RefuseKept == ASSUME PagingInv, RefuseMembers PROVE PagingInv'
  <1>1. /\ stage = "reading" /\ stage' = "done" /\ disturbed' = TRUE
        /\ UNCHANGED <<reader, only, mark, cursor, got>> /\ UNCHANGED <<since, steady>>
        /\ UNCHANGED <<present, stamp, clock, horizon>>
    BY DEF RefuseMembers, listVars
  <1>2. ReadTyped' /\ CursorKept' /\ Ordered' /\ OnlyThose'
    BY <1>1 DEF PagingInv, ReadTyped, CursorKept, Ordered, OnlyThose
  <1>3. BehindRead' /\ AllRead'
    BY <1>1 DEF BehindRead, AllRead
  <1>4. QED
    BY <1>2, <1>3 DEF PagingInv

-----------------------------------------------------------------------------
(***************************************************************************)
(* The readers.                                                            *)
(***************************************************************************)
\* What this request is to return, and what the next cursor has behind it.
Sought(i) ==
    /\ only = {} \/ i \in only
    /\ reader = "github_org" => PassesGate(i)
    /\ reader = "github_named" => ~Excluded(i)
    /\ reader \in {"luma", "youtube"} => only # {} \/ stamp[i] >= After
    /\ reader = "contentful_cda" => stamp[i] >= After /\ mark[i] \notin {"blank", "draft"}
    /\ reader = "contentful_cma" => stamp[i] >= After /\ mark[i] # "blank"
    /\ reader \in {"notion", "notion_ordered"} \cup KeyScans => mark[i] # "blank"
OffsetAt(c) == IF reader \in Numbered THEN (c.at - 1) * PageSize ELSE c.at
BehindNext(i, c) ==
    IF reader \in ByOffset THEN i \in Listed /\ Ahead(i, Listed) < OffsetAt(c)
                           ELSE Rank(i) <= c.at
NextCursor(c) ==
    /\ c = PackCursor(c.at) /\ c.at \in Int
    /\ reader # "github_named" /\ (reader \in ByOffset => c.at \in Nat)
    /\ reader \in Numbered => c.at # 0
    /\ only # {} => reader \in Contentful \cup {"notion", "notion_ordered"}
    /\ cursor # Start => cursor.at < c.at

\* A page is complete if it has whatever is sought between its cursor and the next.
Complete(page) ==
    /\ page.items \subseteq Item /\ (only # {} => page.items \subseteq only)
    /\ page.next = None \/ NextCursor(page.next)
    /\ reader \notin Unordered \/ (cursor = Start /\ page.next = None) =>
         \A i \in present :
            /\ Sought(i) /\ ~Behind(i)
            /\ IF page.next = None THEN Whole ELSE BehindNext(i, page.next)
            => i \in page.items

\* A reader that reads complete pages returns everything.
LEMMA ReadKept == ASSUME PagingInv, NEW page, Complete(page), Read(page) PROVE PagingInv'
  <1>1. /\ stage = "reading" /\ got' = got \cup page.items
        /\ since' = IF cursor = Start THEN horizon ELSE since
        /\ UNCHANGED <<reader, only, mark, steady, disturbed>>
        /\ UNCHANGED <<present, stamp, clock, horizon>>
        /\ page.next = None => stage' = "done" /\ cursor' = cursor
        /\ page.next # None => cursor' = page.next /\ stage' = "reading"
    BY DEF Read, listVars
  <1>2. since' = After /\ since' \in Nat
    BY <1>1 DEF PagingInv, ReadTyped, CursorKept, After, Start
  <1>3. ReadTyped' /\ Ordered' /\ OnlyThose'
    BY <1>1, <1>2 DEF PagingInv, ReadTyped, Ordered, OnlyThose, Complete
  <1>4. CursorKept'
    <2>1. CASE page.next = None
      <3>1. cursor = Start \/ since' = since
        BY <1>1
      <3>2. QED
        BY <1>1, <2>1, <3>1 DEF PagingInv, CursorKept
    <2>2. CASE page.next # None
      <3>1. NextCursor(page.next)
        BY <2>2 DEF Complete
      <3>2. cursor' = [kind |-> "next", after |-> since', at |-> cursor'.at]
        BY <1>1, <1>2, <2>2, <3>1 DEF NextCursor, PackCursor
      <3>3. QED
        BY <1>1, <2>2, <3>1, <3>2 DEF PagingInv, CursorKept, NextCursor
    <2>3. QED
      BY <2>1, <2>2
  <1>5. ASSUME NEW i PROVE Due(i)' <=> Sought(i)
    BY <1>1, <1>2 DEF Due, Wanted, Sought, PassesGate, Excluded, KeyScans
  <1>6. ASSUME NEW i, Behind(i) PROVE cursor # Start /\ (Due(i) <=> Sought(i))
    <2>1. cursor # Start /\ After = since
      BY <1>6 DEF Behind, After, PagingInv, CursorKept
    <2>2. QED
      BY <2>1 DEF Due, Wanted, Sought, KeyScans
  <1>7. ASSUME NEW i \in steady, ~disturbed, Due(i)',
               reader \notin Unordered \/ (cursor = Start /\ page.next = None),
               IF page.next = None THEN Whole ELSE BehindNext(i, page.next)
        PROVE  i \in got'
    <2>1. CASE Behind(i)
      BY <1>1, <1>5, <1>6, <1>7, <2>1 DEF PagingInv, BehindRead
    <2>2. CASE ~Behind(i)
      BY <1>1, <1>5, <1>7, <2>2 DEF PagingInv, ReadTyped, Complete
    <2>3. QED
      BY <2>1, <2>2
  <1>8. ASSUME NEW i, page.next # None, Behind(i)' PROVE BehindNext(i, page.next)
    <2>1. cursor' = page.next /\ cursor' = PackCursor(page.next.at)
      BY <1>1, <1>8 DEF Complete, NextCursor
    <2>2. cursor' # Start /\ After' = After
      BY <2>1 DEF After, PackCursor, Start
    <2>3. Listed' = Listed
      BY <1>1, <2>2 DEF Listed, Updated, Published
    <2>4. Offset' = OffsetAt(page.next)
      BY <1>1, <2>1 DEF Offset, OffsetAt, Numbered
    <2>5. QED
      BY <1>1, <1>8, <2>1, <2>3, <2>4 DEF Behind, BehindNext, Ahead, Rank
  <1>9. BehindRead' /\ AllRead'
    <2>1. page.next = None => (InOrder' => reader \notin Unordered \/ cursor = Start)
      BY <1>1 DEF InOrder
    <2>2. Whole' => Whole
      BY <1>1 DEF Whole
    <2>3. QED
      BY <1>1, <1>7, <1>8, <2>1, <2>2 DEF BehindRead, AllRead
  <1>10. QED
    BY <1>3, <1>4, <1>9 DEF PagingInv

LEMMA SpreadOut == ASSUME PagingInv PROVE Spread
  BY DEF PagingInv, ReadTyped, Ordered, Spread

\* A page by token: everything after the token, up to the next one.
LEMMA TokenPage ==
  ASSUME PagingInv, reader \notin ByOffset, NEW S, S \subseteq Item
  PROVE  LET W == FirstOf(AfterToken(S))
             n == TokenAfter(W, S)
         IN /\ W \subseteq S /\ (n = None \/ (n = PackCursor(n.at) /\ n.at \in Int))
            /\ n # None /\ cursor # Start => cursor.at < n.at
            /\ \A i \in S : ~Behind(i) /\ (n = None \/ Rank(i) <= n.at) => i \in W
            /\ \A i \in S \ W, j \in W : ~Behind(i) => Rank(j) < Rank(i)
  <1> DEFINE T == AfterToken(S)
             W == FirstOf(T)
             rest == {i \in T : \A j \in W : Rank(i) > Rank(j)}
             top == CHOOSE r \in {Rank(j) : j \in W} : \A j \in W : Rank(j) <= r
             n == TokenAfter(W, S)
  <1>1. \A i \in Item : Rank(i) \in Int
    BY SpreadOut, Ranks
  <1>2. T \subseteq S /\ T \subseteq Item
    BY DEF AfterToken
  <1>3. \A i \in S : ~Behind(i) => i \in T
    <2>1. cursor # Start => cursor.at \in Int
      BY DEF PagingInv, CursorKept
    <2>2. QED
      BY <1>1, <2>1 DEF AfterToken, Behind
  <1>4. n = IF rest = {} THEN None ELSE PackCursor(top)
    BY DEF TokenAfter
  <1> HIDE DEF T
  <1>5. /\ W \subseteq T /\ \A i \in T \ W, j \in W : Rank(j) < Rank(i)
        /\ T # {} => \E m \in W : \A k \in W : Rank(k) <= Rank(m)
    BY <1>2, SpreadOut, FirstPage
  <1> HIDE DEF W
  <1>6. ASSUME rest # {} PROVE \E m \in W : top = Rank(m) /\ \A k \in W : Rank(k) <= Rank(m)
    <2>1. T # {}
      BY <1>6
    <2>2. PICK m \in W : \A k \in W : Rank(k) <= Rank(m)
      BY <1>5, <2>1
    <2>3. top \in {Rank(j) : j \in W} /\ \A j \in W : Rank(j) <= top
      BY <2>2
    <2>4. QED
      BY <2>3
  <1> HIDE DEF top
  <1>7. \A i \in T \ W : i \in rest
    BY <1>1, <1>2, <1>5
  <1> HIDE DEF rest
  <1>8. rest # {} => n = PackCursor(top) /\ n.at = top /\ top \in Int
    BY <1>1, <1>2, <1>4, <1>5, <1>6 DEF PackCursor
  <1>9. ASSUME NEW i \in S, ~Behind(i), n = None \/ Rank(i) <= n.at, i \notin W PROVE FALSE
    <2>1. i \in T /\ i \in rest
      BY <1>3, <1>7, <1>9
    <2>2. n # None
      BY <1>8, <2>1 DEF PackCursor, None
    <2>3. PICK m \in W : n.at = Rank(m)
      BY <1>6, <1>8, <2>1
    <2>4. Rank(m) < Rank(i) /\ Rank(i) <= Rank(m)
      BY <1>5, <1>9, <2>1, <2>2, <2>3
    <2>5. QED
      BY <1>1, <1>2, <1>5, <2>4
  <1>10. /\ W \subseteq S /\ (n = None \/ (n = PackCursor(n.at) /\ n.at \in Int))
    BY <1>2, <1>4, <1>5, <1>8
  <1>11. \A i \in S \ W, j \in W : ~Behind(i) => Rank(j) < Rank(i)
    BY <1>3, <1>5
  <1>12. ASSUME n # None, cursor # Start PROVE cursor.at < n.at
    <2>1. PICK m \in W : n.at = Rank(m)
      BY <1>4, <1>6, <1>8, <1>12
    <2>2. m \in AfterToken(S)
      BY <1>5 DEF T
    <2>3. QED
      BY <1>12, <2>1, <2>2 DEF AfterToken
  <1> HIDE DEF n
  <1>13. QED
    BY <1>9, <1>10, <1>11, <1>12 DEF n, W, T

\* A page by offset: everything from the offset on, up to the next page's.
LEMMA OffsetPage ==
  ASSUME PagingInv, reader \in ByOffset, NEW o, o = IF cursor = Start THEN 0 ELSE Offset
  PROVE  LET W == AtOffset(Listed, o)
         IN /\ o \in Nat /\ W \subseteq Listed /\ Listed \subseteq present
            /\ Cardinality(W) \in Nat /\ Cardinality(W) <= PageSize
            /\ \A i \in Listed : ~Behind(i) /\ i \notin W
                  => /\ Cardinality(W) = PageSize
                     /\ Ahead(i, Listed) >= o + PageSize
                     /\ Cardinality(Listed) > o + PageSize
  <1> DEFINE W == AtOffset(Listed, o)
  <1>1. o \in Nat
    BY OffsetTyped
  <1>2. Listed \subseteq present /\ Listed \subseteq Item
    BY DEF Listed, Updated, Published, PagingInv, ReadTyped
  <1>3. /\ Cardinality(W) \in Nat /\ Cardinality(W) <= PageSize /\ W \subseteq Listed
        /\ (\E i \in Listed : Ahead(i, Listed) >= o + PageSize) => Cardinality(W) = PageSize
        /\ \A i \in Listed : o <= Ahead(i, Listed) /\ Ahead(i, Listed) < o + PageSize => i \in W
    BY <1>1, <1>2, SpreadOut, PageAt
  <1> HIDE DEF W
  <1>4. ASSUME NEW i \in Listed, ~Behind(i), i \notin W
        PROVE  /\ Cardinality(W) = PageSize
               /\ Ahead(i, Listed) >= o + PageSize
               /\ Cardinality(Listed) > o + PageSize
    <2>1. /\ Ahead(i, Listed) \in Nat /\ Ahead(i, Listed) < Cardinality(Listed)
          /\ Cardinality(Listed) \in Nat /\ PageSize \in Nat
      BY <1>2, SpreadOut, Counted, Ranks
    <2>2. o <= Ahead(i, Listed)
      BY <1>1, <1>4, <2>1 DEF Behind
    <2>3. Ahead(i, Listed) >= o + PageSize
      BY <1>1, <1>3, <1>4, <2>1, <2>2
    <2>4. QED
      BY <1>1, <1>3, <2>1, <2>3
  <1>5. QED
    BY <1>1, <1>2, <1>3, <1>4 DEF W

\* What a request covers of a list, before any filter.
Covers(W, c, L) ==
    /\ W \subseteq L /\ L \subseteq present
    /\ \A i \in L : ~Behind(i) /\ (c = None \/ BehindNext(i, c)) => i \in W

\* GitHub's pages have numbers: the next begins where this one ends.
LEMMA NumberedPage ==
  ASSUME PagingInv, reader \in Numbered, only = {}, NEW p,
         p = IF cursor = Start THEN 1 ELSE cursor.at
  PROVE  LET r == OrgReposPage(p)
             c == IF r.more THEN PackCursor(p + 1) ELSE None
         IN Covers(r.batch, c, present) /\ (c = None \/ NextCursor(c))
  <1> DEFINE o == (p - 1) * PageSize
             W == AtOffset(present, o)
             r == OrgReposPage(p)
             c == IF r.more THEN PackCursor(p + 1) ELSE None
  <1>1. reader \in ByOffset /\ reader # "github_named" /\ Listed = present
    BY DEF Numbered, ByOffset, Listed
  <1>2. p \in Nat /\ p # 0 /\ PageSize \in Nat
    BY <1>1, PagingAssumption DEF PagingAssumption, PagingInv, CursorKept
  <1>3. o = IF cursor = Start THEN 0 ELSE Offset
    <2>1. (1 - 1) * PageSize = 0
      BY <1>2
    <2>2. QED
      BY <2>1 DEF Offset, Numbered
  <1>4. (p + 1 - 1) * PageSize = o + PageSize
    BY <1>2
  <1> HIDE DEF o
  <1>5. r = [batch |-> W, more |-> Cardinality(W) = PageSize]
    BY DEF OrgReposPage, o
  <1>6. /\ o \in Nat /\ W \subseteq present
        /\ \A i \in present : ~Behind(i) /\ i \notin W
              => Cardinality(W) = PageSize /\ Ahead(i, present) >= o + PageSize
    BY <1>1, <1>3, OffsetPage
  <1> HIDE DEF W
  <1>7. /\ Cardinality(W) = PageSize => c = PackCursor(p + 1)
        /\ Cardinality(W) # PageSize => c = None
    <2> HIDE DEF r
    <2>1. r.more = (Cardinality(W) = PageSize)
      BY <1>5
    <2>2. QED
      BY <2>1
  <1>8. Cardinality(W) = PageSize => NextCursor(c) /\ c # None /\ OffsetAt(c) = o + PageSize
    BY <1>1, <1>2, <1>4, <1>7 DEF NextCursor, PackCursor, OffsetAt, None
  <1>9. ASSUME NEW i \in present, ~Behind(i), c = None \/ BehindNext(i, c), i \notin W PROVE FALSE
    <2>1. Cardinality(W) = PageSize /\ Ahead(i, present) >= o + PageSize
      BY <1>6, <1>9
    <2>2. Ahead(i, present) < o + PageSize
      BY <1>1, <1>8, <1>9, <2>1 DEF BehindNext
    <2>3. Ahead(i, present) \in Nat
      BY SpreadOut, Counted DEF PagingInv, ReadTyped
    <2>4. QED
      BY <1>2, <1>6, <2>1, <2>2, <2>3
  <1>10. c = None \/ NextCursor(c)
    BY <1>7, <1>8
  <1> HIDE DEF c
  <1>11. QED
    BY <1>5, <1>6, <1>9, <1>10 DEF Covers, c, r

\* Notion's queries go on until a page is short.
LEMMA QueriedPage ==
  ASSUME PagingInv, reader \in {"notion_ordered", "notion_keys"}
  PROVE  /\ Covers(OrderedRows, QueryNext(OrderedRows), present)
         /\ QueryNext(OrderedRows) = None \/ NextCursor(QueryNext(OrderedRows))
  <1> DEFINE o == Skip
             W == OrderedRows
             c == QueryNext(OrderedRows)
  <1>1. reader \in ByOffset /\ reader \notin Numbered /\ reader # "github_named"
          /\ Listed = present /\ (only # {} => reader = "notion_ordered")
          /\ PageSize \in Nat /\ PageSize # 0
    BY PagingAssumption
       DEF PagingAssumption, Numbered, ByOffset, Listed, PagingInv, CursorKept, PagedSources
  <1>2. o = IF cursor = Start THEN 0 ELSE Offset
    BY <1>1 DEF Offset, Numbered, Skip
  <1>3. (cursor # Start => o = cursor.at) /\ W = AtOffset(present, o)
    BY DEF Skip, OrderedRows
  <1>4. c = IF Cardinality(W) < PageSize THEN None ELSE PackCursor(o + PageSize)
    BY DEF QueryNext
  <1> HIDE DEF o, W, c
  <1>5. /\ o \in Nat /\ W \subseteq present
        /\ \A i \in present : ~Behind(i) /\ i \notin W
              => Cardinality(W) = PageSize /\ Ahead(i, present) >= o + PageSize
    BY <1>1, <1>2, <1>3, OffsetPage
  <1>6. /\ Cardinality(W) < PageSize => c = None
        /\ ~(Cardinality(W) < PageSize) => c = PackCursor(o + PageSize)
    BY <1>4
  <1>7. ~(Cardinality(W) < PageSize) => NextCursor(c) /\ c # None /\ OffsetAt(c) = o + PageSize
    BY <1>1, <1>5, <1>6, <1>3 DEF NextCursor, PackCursor, OffsetAt, None
  <1>8. ASSUME NEW i \in present, ~Behind(i), c = None \/ BehindNext(i, c), i \notin W PROVE FALSE
    <2>1. Cardinality(W) = PageSize /\ Ahead(i, present) >= o + PageSize
      BY <1>5, <1>8
    <2>2. Ahead(i, present) < o + PageSize
      BY <1>1, <1>7, <1>8, <2>1 DEF BehindNext
    <2>3. Ahead(i, present) \in Nat
      BY SpreadOut, Counted DEF PagingInv, ReadTyped
    <2>4. QED
      BY <1>1, <1>5, <2>1, <2>2, <2>3
  <1>9. c = None \/ NextCursor(c)
    BY <1>6, <1>7
  <1>10. QED
    BY <1>5, <1>8, <1>9 DEF Covers, c, W

\* Contentful's skip goes on by what was returned, up to the total it was told.
LEMMA SkippedPage ==
  ASSUME PagingInv, reader \in Contentful, NEW skip, skip = IF cursor = Start THEN 0 ELSE cursor.at
  PROVE  LET e == EntriesPage(Listed, skip)
         IN Covers(e.items, e.next, Listed) /\ (e.next = None \/ NextCursor(e.next))
  <1> DEFINE W == AtOffset(Listed, skip)
             n == Cardinality(W)
             total == Cardinality(Listed)
             e == EntriesPage(Listed, skip)
  <1>1. reader \in ByOffset /\ reader \notin Numbered /\ reader # "github_named" /\ PageSize \in Nat
          /\ PageSize # 0
    BY PagingAssumption DEF PagingAssumption, Numbered, ByOffset, Contentful
  <1>2. skip = IF cursor = Start THEN 0 ELSE Offset
    BY <1>1 DEF Offset, Numbered
  <1>3. /\ skip \in Nat /\ W \subseteq Listed /\ Listed \subseteq present
        /\ n \in Nat /\ n <= PageSize
        /\ \A i \in Listed : ~Behind(i) /\ i \notin W
              => /\ n = PageSize /\ Ahead(i, Listed) >= skip + PageSize
                 /\ total > skip + PageSize
    BY <1>1, <1>2, OffsetPage
  <1>4. e = [items |-> W, next |-> IF n > 0 /\ skip + n < total THEN PackCursor(skip + n)
                                   ELSE None]
    BY DEF EntriesPage, NextSkip, Page
  <1> HIDE DEF W, n, total
  <1>5. /\ n > 0 /\ skip + n < total => e.next = PackCursor(skip + n)
        /\ ~(n > 0 /\ skip + n < total) => e.next = None
    BY <1>4
  <1>6. n > 0 /\ skip + n < total
          => NextCursor(e.next) /\ e.next # None /\ OffsetAt(e.next) = skip + n
    BY <1>1, <1>3, <1>5 DEF NextCursor, PackCursor, OffsetAt, None
  <1>7. ASSUME NEW i \in Listed, ~Behind(i), e.next = None \/ BehindNext(i, e.next), i \notin W
        PROVE  FALSE
    <2>1. n = PageSize /\ Ahead(i, Listed) >= skip + PageSize /\ total > skip + PageSize
      BY <1>3, <1>7
    <2>2. Ahead(i, Listed) \in Nat /\ total \in Nat
      BY <1>3, SpreadOut, Counted DEF PagingInv, ReadTyped, total
    <2>3. n > 0 /\ skip + n < total
      BY <1>1, <1>3, <2>1, <2>2
    <2>4. Ahead(i, Listed) < skip + n
      BY <1>1, <1>6, <1>7, <2>3 DEF BehindNext
    <2>5. QED
      BY <1>1, <1>3, <2>1, <2>2, <2>4
  <1>8. e.next = None \/ NextCursor(e.next)
    BY <1>5, <1>6
  <1>9. e.items = W
    BY <1>4
  <1> HIDE DEF e
  <1>10. QED
    BY <1>3, <1>7, <1>8, <1>9 DEF Covers, e

\* A page that covers a list, filtered: complete if the filter lets through what is
\* sought, and what is sought is on the list.
LEMMA Filtered ==
  ASSUME PagingInv, NEW W, NEW c, NEW L, Covers(W, c, L), c = None \/ NextCursor(c),
         NEW X, X \subseteq W, only # {} => X \subseteq only,
         \A i \in present : Sought(i) => i \in L /\ (i \in W => i \in X)
  PROVE  Complete(Page(X, c))
  <1>1. Page(X, c).items = X /\ Page(X, c).next = c
    BY DEF Page
  <1>2. X \subseteq Item
    BY DEF Covers, PagingInv, ReadTyped
  <1> HIDE DEF Page
  <1>3. QED
    BY <1>1, <1>2 DEF Complete, Covers

\* A page that is the only one.
LEMMA SinglePage ==
  ASSUME PagingInv, NEW X, X \subseteq Item, only # {} => X \subseteq only,
         Whole => \A i \in present : Sought(i) => i \in X
  PROVE  Complete(Page(X, None))
  BY DEF Complete, Page

LEMMA GithubComplete ==
  ASSUME PagingInv, reader \in {"github_org", "github_named"}
  PROVE  Complete(SelectReposPage)
  <1>1. only \subseteq Item /\ present \subseteq Item
    BY DEF PagingInv, ReadTyped
  <1>2. CASE only # {}
    <2> DEFINE X == ReposByName(only, reader = "github_org")
    <2>1. X \subseteq only
      BY DEF ReposByName, GetRepos
    <2>2. \A i \in present : Sought(i) => i \in X
      BY <1>2 DEF ReposByName, GetRepos, Sought, PassesGate
    <2>3. Complete(Page(X, None))
      BY <1>1, <2>1, <2>2, SinglePage
    <2>4. QED
      BY <1>2, <2>3 DEF SelectReposPage
  <1>3. CASE only = {} /\ reader = "github_named"
    <2> DEFINE X == ReposByName(Item, FALSE)
    <2>1. X \subseteq Item
      BY DEF ReposByName, GetRepos
    <2>2. \A i \in present : Sought(i) => i \in X
      BY <1>1, <1>3 DEF ReposByName, GetRepos, Sought
    <2>3. Complete(Page(X, None))
      BY <1>3, <2>1, <2>2, SinglePage
    <2>4. QED
      BY <1>3, <2>3 DEF SelectReposPage
  <1>4. CASE only = {} /\ reader = "github_org"
    <2> DEFINE p == IF cursor = Start THEN 1 ELSE cursor.at
               r == OrgReposPage(p)
               c == IF r.more THEN PackCursor(p + 1) ELSE None
               X == {i \in r.batch : PassesGate(i)}
    <2>1. Covers(r.batch, c, present) /\ (c = None \/ NextCursor(c))
      BY <1>4, NumberedPage DEF Numbered
    <2>2. SelectReposPage = Page(X, c)
      BY <1>4 DEF SelectReposPage
    <2> HIDE DEF r, c
    <2>3. \A i \in present : Sought(i) => (i \in r.batch => i \in X)
      BY <1>4 DEF Sought
    <2>4. QED
      BY <1>4, <2>1, <2>2, <2>3, Filtered
  <1>5. QED
    BY <1>2, <1>3, <1>4

\* The members, as far as they were given.
LEMMA MembersComplete ==
  ASSUME PagingInv, reader = "members", NEW p, p = IF cursor = Start THEN 1 ELSE cursor.at
  PROVE  LET r == OrgReposPage(p)
         IN Complete(Page(r.batch, IF r.more THEN PackCursor(p + 1) ELSE None))
  <1> DEFINE r == OrgReposPage(p)
             c == IF r.more THEN PackCursor(p + 1) ELSE None
  <1>1. only = {}
    BY DEF PagingInv, CursorKept, PagedSources
  <1>2. Covers(r.batch, c, present) /\ (c = None \/ NextCursor(c))
    BY <1>1, NumberedPage DEF Numbered
  <1> HIDE DEF r, c
  <1>3. Complete(Page(r.batch, c))
    BY <1>1, <1>2, Filtered
  <1>4. QED
    BY <1>3 DEF r, c

\* A page in no order is the whole list if it is the first and there is no more.
LEMMA WholePage ==
  ASSUME PagingInv, NEW rows \in AnyRows
  PROVE  /\ rows \subseteq present /\ present \subseteq Item
         /\ Cardinality(rows) \in Nat /\ Cardinality(present) \in Nat
         /\ cursor = Start /\ Cardinality(rows) < PageSize => rows = present
         /\ cursor = Start /\ ~(Cardinality(rows) > 0 /\ Cardinality(rows) < Cardinality(present))
              => rows = present
  <1> DEFINE n == Cardinality(rows)
             t == Cardinality(present)
  <1>1. rows \subseteq present /\ present \subseteq Item
    BY DEF AnyRows, PagingInv, ReadTyped
  <1>2. PageSize \in Nat /\ PageSize # 0 /\ IsFiniteSet(present)
    BY <1>1, SpreadOut, Ranks, SmallerSet
  <1>3. n \in Nat /\ t \in Nat /\ n <= t /\ (rows # present => n < t)
    BY <1>1, <1>2, SmallerSet
  <1>4. ASSUME cursor = Start PROVE n = IF t < PageSize THEN t ELSE PageSize
    <2>1. Skip = 0
      BY <1>4 DEF Skip
    <2>2. t - 0 = t /\ ~(t < 0)
      BY <1>3
    <2>3. QED
      BY <2>1, <2>2 DEF AnyRows
  <1> HIDE DEF n, t
  <1>5. ASSUME cursor = Start, n < PageSize \/ ~(n > 0 /\ n < t) PROVE ~(n < t)
    BY <1>2, <1>3, <1>4, <1>5
  <1>6. QED
    BY <1>1, <1>3, <1>5 DEF n, t

LEMMA NotionComplete ==
  ASSUME PagingInv
  PROVE  /\ reader = "notion_ordered" => Complete(NotionRows(OrderedRows))
         /\ reader = "notion_keys" => Complete(NotionKeys)
  <1> DEFINE W == OrderedRows
             c == QueryNext(OrderedRows)
             X == {i \in W : HasPageId(i) /\ (only = {} \/ i \in only)}
             Y == {i \in W : HasPageId(i)}
  <1>1. NotionRows(OrderedRows) = Page(X, c) /\ NotionKeys = Page(Y, c)
    BY DEF NotionRows, NotionKeys
  <1>2. reader \in {"notion_ordered", "notion_keys"}
           => Covers(W, c, present) /\ (c = None \/ NextCursor(c))
    BY QueriedPage
  <1> HIDE DEF W, c
  <1>3. reader = "notion_keys" => only = {}
    BY DEF PagingInv, CursorKept, PagedSources
  <1>4. ASSUME reader = "notion_ordered" PROVE Complete(Page(X, c))
    <2>1. \A i \in present : Sought(i) => (i \in W => i \in X)
      BY <1>4 DEF Sought, HasPageId
    <2>2. QED
      BY <1>2, <1>4, <2>1, Filtered
  <1>5. ASSUME reader = "notion_keys" PROVE Complete(Page(Y, c))
    <2>1. \A i \in present : Sought(i) => (i \in W => i \in Y)
      BY <1>5 DEF Sought, HasPageId, KeyScans
    <2>2. QED
      BY <1>2, <1>3, <1>5, <2>1, Filtered
  <1>6. QED
    BY <1>1, <1>4, <1>5

\* Without an order nothing is said of what several pages miss.
LEMMA UnorderedNotion ==
  ASSUME PagingInv, reader = "notion", NEW rows \in AnyRows
  PROVE  Complete(NotionRows(rows))
  <1> DEFINE X == {i \in rows : HasPageId(i) /\ (only = {} \/ i \in only)}
             c == QueryNext(rows)
  <1>1. /\ rows \subseteq Item /\ PageSize \in Nat /\ PageSize # 0
        /\ Cardinality(rows) < PageSize /\ cursor = Start => rows = present
    BY WholePage, SpreadOut, Ranks
  <1>2. Skip \in Int /\ (cursor # Start => Skip = cursor.at)
    BY DEF Skip, PagingInv, CursorKept
  <1>3. /\ Cardinality(rows) < PageSize => c = None
        /\ ~(Cardinality(rows) < PageSize) => c = PackCursor(Skip + PageSize)
    BY DEF QueryNext
  <1> HIDE DEF c
  <1>4. c = None \/ NextCursor(c)
    <2>1. ASSUME ~(Cardinality(rows) < PageSize) PROVE NextCursor(c)
      <3>1. c.at = Skip + PageSize
        BY <1>3, <2>1 DEF PackCursor
      <3>2. QED
        BY <1>1, <1>2, <1>3, <2>1, <3>1 DEF NextCursor, ByOffset, Contentful, Numbered
    <2>2. QED
      BY <1>3, <2>1
  <1>5. c = None /\ cursor = Start => rows = present
    BY <1>1, <1>3 DEF PackCursor, None
  <1>6. \A i \in rows : Sought(i) => i \in X
    BY DEF Sought, HasPageId
  <1>7. NotionRows(rows) = Page(X, c) /\ Page(X, c).items = X /\ Page(X, c).next = c
    BY DEF NotionRows, Page, c
  <1>8. X \subseteq Item /\ (only # {} => X \subseteq only)
    BY <1>1
  <1> HIDE DEF X
  <1>9. QED
    BY <1>4, <1>5, <1>6, <1>7, <1>8 DEF Complete, Unordered

LEMMA ContentfulComplete ==
  ASSUME PagingInv, reader \in Contentful
  PROVE  Complete(ContentfulPage)
  <1> DEFINE skip == Skip
             e == IterEntriesPage(skip)
             X == {i \in e.items : (only = {} \/ i \in only) /\ HasTitle(i)}
  <1>1. IterEntriesPage(skip) = EntriesPage(Listed, skip)
    BY DEF IterEntriesPage, CdaPage, CmaPage, Listed, Contentful
  <1>2. Covers(e.items, e.next, Listed) /\ (e.next = None \/ NextCursor(e.next))
    BY <1>1, SkippedPage DEF Skip
  <1>3. ContentfulPage = Page(X, e.next)
    BY DEF ContentfulPage
  <1> HIDE DEF e, skip
  <1>4. ASSUME NEW i \in present, Sought(i) PROVE i \in Listed /\ (i \in e.items => i \in X)
    BY <1>4 DEF Sought, Listed, Updated, Published, HasTitle, Contentful
  <1>5. QED
    BY <1>2, <1>3, <1>4, Filtered

\* What TokenPage says, in the terms of a page that covers its list.
LEMMA TokenCovers ==
  ASSUME PagingInv, reader \notin ByOffset \cup {"github_named"}, only = {},
         NEW S, S \subseteq present
  PROVE  LET W == FirstOf(AfterToken(S))
             c == TokenAfter(W, S)
         IN Covers(W, c, S) /\ (c = None \/ NextCursor(c))
  <1> DEFINE W == FirstOf(AfterToken(S))
             c == TokenAfter(W, S)
  <1>1. S \subseteq Item
    BY DEF PagingInv, ReadTyped
  <1>2. /\ W \subseteq S /\ (c = None \/ (c = PackCursor(c.at) /\ c.at \in Int))
        /\ c # None /\ cursor # Start => cursor.at < c.at
        /\ \A i \in S : ~Behind(i) /\ (c = None \/ Rank(i) <= c.at) => i \in W
    BY <1>1, TokenPage
  <1> HIDE DEF W, c
  <1>3. c = None \/ NextCursor(c)
    BY <1>2 DEF NextCursor, ByOffset, Numbered
  <1>4. Covers(W, c, S)
    BY <1>2 DEF Covers, BehindNext
  <1>5. QED
    BY <1>3, <1>4 DEF W, c

LEMMA JiraComplete == ASSUME PagingInv, reader = "jira" PROVE Complete(JiraPage)
  <1>1. CASE only = {}
    <2> DEFINE W == FirstOf(AfterToken(present))
               c == TokenAfter(W, present)
    <2>1. Covers(W, c, present) /\ (c = None \/ NextCursor(c))
      BY <1>1, TokenCovers DEF ByOffset, Contentful
    <2>2. JiraPage = Page(W, c)
      BY <1>1 DEF JiraPage, SearchPage
    <2> HIDE DEF W, c
    <2>3. QED
      BY <1>1, <2>1, <2>2, Filtered
  <1>2. CASE only # {}
    <2> DEFINE S == only \cap present
               W == FirstOf(S)
    <2>1. cursor = Start
      BY <1>2 DEF PagingInv, CursorKept, Contentful
    <2>2. AfterToken(S) = S
      BY <2>1 DEF AfterToken
    <2>3. JiraPage = Page(W, None)
      BY <1>2, <2>2 DEF JiraPage, SearchPage, Page
    <2>4. S \subseteq Item /\ only \subseteq Item /\ S \subseteq only /\ S \subseteq present
      BY DEF PagingInv, ReadTyped
    <2>5. Cardinality(S) <= Cardinality(only) /\ Cardinality(S) \in Nat
            /\ Cardinality(only) \in Nat /\ PageSize \in Nat
      BY <2>4, SpreadOut, Ranks, SmallerSet
    <2>6. W \subseteq S /\ (Cardinality(S) <= PageSize => W = S)
      BY <2>4, SpreadOut, FirstPage
    <2> HIDE DEF W
    <2>7. Whole => \A i \in present : Sought(i) => i \in W
      BY <1>2, <2>5, <2>6 DEF Sought, Whole, OnePage
    <2>8. W \subseteq Item /\ W \subseteq only
      BY <2>4, <2>6
    <2>9. QED
      BY <1>2, <2>3, <2>7, <2>8, SinglePage
  <1>3. QED
    BY <1>1, <1>2

\* The scans of keys by token.
LEMMA ScanComplete ==
  ASSUME PagingInv, reader \in {"asana_keys", "jira_keys"}
  PROVE  Complete(AsanaKeys) /\ Complete(JiraKeys)
  <1> DEFINE W == FirstOf(AfterToken(present))
             c == TokenAfter(W, present)
             X == {i \in W : mark[i] # "blank"}
  <1>1. only = {}
    BY DEF PagingInv, CursorKept, PagedSources
  <1>2. Covers(W, c, present) /\ (c = None \/ NextCursor(c))
    BY <1>1, TokenCovers DEF ByOffset, Contentful
  <1>3. AsanaKeys = Page(X, c) /\ JiraKeys = Page(X, c)
    BY DEF AsanaKeys, JiraKeys, Keyed, SearchPage, Page
  <1> HIDE DEF W, c
  <1>4. \A i \in present : Sought(i) => (i \in W => i \in X)
    BY DEF Sought, KeyScans
  <1>5. Complete(Page(X, c))
    BY <1>1, <1>2, <1>4, Filtered
  <1>6. QED
    BY <1>3, <1>5

LEMMA LumaComplete == ASSUME PagingInv, reader = "luma" PROVE Complete(LumaPage)
  <1>1. CASE only = {}
    <2> DEFINE S == Updated(present)
               W == FirstOf(AfterToken(S))
               c == TokenAfter(W, S)
    <2>1. S \subseteq present
      BY DEF Updated
    <2>2. Covers(W, c, S) /\ (c = None \/ NextCursor(c))
      BY <1>1, <2>1, TokenCovers DEF ByOffset, Contentful
    <2>3. LumaPage = Page(W, c)
      BY <1>1 DEF LumaPage, EventEntriesPage
    <2>4. \A i \in present : Sought(i) => i \in S
      BY <1>1 DEF Sought, Updated
    <2> HIDE DEF W, c, S
    <2>5. QED
      BY <1>1, <2>2, <2>3, <2>4, Filtered
  <1>2. CASE only # {}
    <2> DEFINE X == GetEvents(only)
    <2>1. X \subseteq Item /\ X \subseteq only /\ \A i \in present : Sought(i) => i \in X
      BY <1>2 DEF GetEvents, Sought, PagingInv, ReadTyped
    <2>2. LumaPage = Page(X, None)
      BY <1>2 DEF LumaPage
    <2> HIDE DEF X
    <2>3. QED
      BY <1>2, <2>1, <2>2, SinglePage
  <1>3. QED
    BY <1>1, <1>2

\* YouTube's client stops at the first video that is too old: all after it are.
LEMMA YouTubeComplete ==
  ASSUME PagingInv, reader = "youtube"
  PROVE  /\ only = {} => Complete(VideosPage)
         /\ only # {} => \A ids \in FirstIds : Complete(Page(VideosById(ids), None))
  <1>1. ASSUME only = {} PROVE Complete(VideosPage)
    <2> DEFINE W == FirstOf(AfterToken(present))
               c == TokenAfter(W, present)
               older == {i \in W : stamp[i] < After}
               X == {i \in W : \A j \in older : Rank(i) < Rank(j)}
               d == IF older # {} THEN None ELSE c
    <2>1. /\ W \subseteq present /\ present \subseteq Item /\ stamp \in [Item -> Nat]
          /\ After \in Nat /\ \A i \in Item : Rank(i) = -stamp[i]
      <3>1. present \subseteq Item /\ stamp \in [Item -> Nat] /\ After \in Nat
        BY DEF PagingInv, ReadTyped, After, CursorKept
      <3>2. W \subseteq present
        BY <3>1, TokenPage DEF ByOffset, Contentful
      <3>3. \A i \in Item : Rank(i) = -stamp[i]
        BY DEF Rank
      <3>4. QED
        BY <3>1, <3>2, <3>3
    <2>2. Covers(W, c, present) /\ (c = None \/ NextCursor(c))
      BY <1>1, TokenCovers DEF ByOffset, Contentful
    <2>3. \A i \in present \ W, j \in W : ~Behind(i) => Rank(j) < Rank(i)
      BY <2>1, TokenPage DEF ByOffset, Contentful
    <2>4. VideosPage = Page(X, d)
      BY DEF VideosPage
    <2> HIDE DEF W, c
    <2>5. ASSUME NEW i \in present, Sought(i), ~Behind(i), d = None \/ BehindNext(i, d)
          PROVE  i \in X
      <3>1. stamp[i] >= After
        BY <1>1, <2>5 DEF Sought
      <3>2. ASSUME NEW j \in older PROVE Rank(i) < Rank(j)
        BY <2>1, <3>1
      <3>3. i \in W
        <4>1. CASE older = {}
          BY <2>2, <2>5, <4>1 DEF Covers
        <4>2. CASE older # {}
          <5>1. PICK j \in older : TRUE
            BY <4>2
          <5>2. Rank(i) < Rank(j) /\ Rank(i) \in Int /\ Rank(j) \in Int
            BY <2>1, <3>2
          <5>3. ~(Rank(j) < Rank(i))
            BY <5>2
          <5>4. QED
            BY <2>3, <2>5, <5>1, <5>3
        <4>3. QED
          BY <4>1, <4>2
      <3>4. QED
        BY <3>2, <3>3
    <2>6. X \subseteq Item /\ (d = None \/ NextCursor(d))
      BY <2>1, <2>2
    <2>7. Page(X, d).items = X /\ Page(X, d).next = d
      BY DEF Page
    <2> HIDE DEF X, d, Page
    <2>8. QED
      BY <1>1, <2>4, <2>5, <2>6, <2>7 DEF Complete
  <1>2. ASSUME only # {}, NEW ids \in FirstIds PROVE Complete(Page(VideosById(ids), None))
    <2>1. /\ ids \subseteq only /\ only \subseteq Item /\ Cardinality(ids) <= PageSize
          /\ Cardinality(ids) < PageSize => ids = only
      BY DEF FirstIds, PagingInv, ReadTyped
    <2>2. IsFiniteSet(only) /\ PageSize \in Nat
      BY <2>1, SpreadOut, Ranks, SmallerSet
    <2>3. /\ Cardinality(ids) \in Nat /\ Cardinality(only) \in Nat
          /\ ids # only => Cardinality(ids) < Cardinality(only)
      BY <2>1, <2>2, SmallerSet
    <2>4. Whole => ids = only
      BY <1>2, <2>1, <2>2, <2>3 DEF Whole, OnePage
    <2> DEFINE X == VideosById(ids)
    <2>5. X \subseteq Item /\ X \subseteq only
            /\ (ids = only => \A i \in present : Sought(i) => i \in X)
      BY <1>2, <2>1 DEF VideosById, Sought
    <2> HIDE DEF X
    <2>6. QED
      BY <1>2, <2>4, <2>5, SinglePage DEF X
  <1>3. QED
    BY <1>1, <1>2

LEMMA PersonsComplete ==
  ASSUME PagingInv, reader = "persons", NEW items \in AnyRows
  PROVE  Complete(Page(items, NextSkip(Skip, Cardinality(items), Cardinality(present))))
  <1> DEFINE n == Cardinality(items)
             t == Cardinality(present)
             c == NextSkip(Skip, n, t)
  <1>1. only = {} /\ Skip \in Int /\ (cursor = Start => Skip = 0) /\ (cursor # Start => Skip = cursor.at)
    BY DEF PagingInv, CursorKept, PagedSources, Skip
  <1>2. /\ n \in Nat /\ t \in Nat /\ items \subseteq Item
        /\ cursor = Start /\ ~(n > 0 /\ n < t) => items = present
    BY WholePage
  <1> HIDE DEF n, t
  <1>3. c = None \/ NextCursor(c)
    <2>1. ASSUME n > 0 PROVE NextCursor(PackCursor(Skip + n))
      <3>1. PackCursor(Skip + n).at = Skip + n
        BY DEF PackCursor
      <3>2. QED
        BY <1>1, <1>2, <2>1, <3>1 DEF NextCursor, ByOffset, Contentful, Numbered
    <2>2. QED
      BY <2>1 DEF NextSkip
  <1>4. c = None /\ cursor = Start => items = present
    BY <1>1, <1>2 DEF NextSkip, PackCursor, None
  <1> HIDE DEF c
  <1>5. Page(items, c).items = items /\ Page(items, c).next = c
    BY DEF Page
  <1> HIDE DEF Page
  <1>6. Complete(Page(items, c))
    BY <1>1, <1>2, <1>3, <1>4, <1>5 DEF Complete, Unordered
  <1>7. QED
    BY <1>6 DEF c, n, t

\* Every request is for a complete page, whoever reads.
LEMMA CompletePages == ASSUME PagingInv, Fetch PROVE \E page : Complete(page) /\ Read(page)
  <1>1. CASE FetchGithub
    BY <1>1, GithubComplete DEF FetchGithub
  <1>2. CASE FetchJira
    BY <1>2, JiraComplete DEF FetchJira
  <1>3. CASE FetchLuma
    BY <1>3, LumaComplete DEF FetchLuma
  <1>4. CASE FetchYouTube
    BY <1>4, YouTubeComplete DEF FetchYouTube
  <1>5. CASE FetchContentful
    BY <1>5, ContentfulComplete DEF FetchContentful
  <1>6. CASE FetchNotion \/ ScanNotion
    BY <1>6, NotionComplete, UnorderedNotion DEF FetchNotion, ScanNotion
  <1>7. CASE ScanAsana \/ ScanJira
    BY <1>7, ScanComplete DEF ScanAsana, ScanJira
  <1>8. CASE LoadPersons
    BY <1>8, PersonsComplete DEF LoadPersons
  <1>9. CASE FetchMembers
    <2> DEFINE p == IF cursor = Start THEN 1 ELSE cursor.at
               r == OrgReposPage(p)
               page == Page(r.batch, IF r.more THEN PackCursor(p + 1) ELSE None)
    <2>1. reader = "members" /\ Read(page)
      BY <1>9 DEF FetchMembers
    <2>2. Complete(page)
      BY <2>1, MembersComplete
    <2> HIDE DEF page
    <2>3. QED
      BY <2>1, <2>2
  <1>10. QED
    BY <1>1, <1>2, <1>3, <1>4, <1>5, <1>6, <1>7, <1>8, <1>9 DEF Fetch

LEMMA FetchKept == ASSUME PagingInv, Fetch PROVE PagingInv'
  BY CompletePages, ReadKept

\* The cursor is at a place further on than before, if there was one.
MovesOn == cursor' # Start /\ (cursor # Start => cursor.at < cursor'.at)

LEMMA ReadMoves ==
  ASSUME PagingInv, NEW page, Complete(page), Read(page)
  PROVE  stage' = "done" \/ MovesOn
  <1>1. CASE page.next = None
    BY <1>1 DEF Read
  <1>2. CASE page.next # None
    <2>1. cursor' = page.next /\ NextCursor(page.next)
      BY <1>2 DEF Read, Complete
    <2>2. cursor' # Start
      BY <2>1 DEF NextCursor, PackCursor, Start
    <2>3. QED
      BY <2>1, <2>2 DEF NextCursor, MovesOn
  <1>3. QED
    BY <1>1, <1>2

-----------------------------------------------------------------------------
\* The inductive invariant of a read: at every request everything that is sought and
\* behind the cursor has been returned, whatever changed the list.
THEOREM PagingAlways == AnyReadSpec => []PagingInv
  <1>1. PagingInv /\ [AnyRead]_pagingVars => PagingInv'
    BY BeginKept, FetchKept, RefuseKept, ChangeKept, PagingStutter DEF AnyRead
  <1>2. QED
    BY <1>1, PagingStart, PTL DEF AnyReadSpec

\* No read skips an item that nobody touched, for any list, filter, page size and
\* number of changes, unless an item left a place already passed, or the read is in no
\* order and takes several pages (fetch_page of every source, query_existing_ids).
THEOREM SteadyAlwaysRead == AnyReadSpec => []SteadyItemsRead
  <1>1. PagingInv => SteadyItemsRead
    BY DEF PagingInv, AllRead, SteadyItemsRead, Due, Whole
  <1>2. QED
    BY <1>1, PagingAlways, PTL

\* A targeted refresh returns named items only, and all of them, however many pages
\* that takes; Jira's and YouTube's all that fit on a page (only_items of fetch_page).
THEOREM TargetedAlwaysRead == AnyReadSpec => []TargetedRead
  <1>1. PagingInv => TargetedRead
    <2> SUFFICES ASSUME PagingInv, stage = "done", only # {}, InOrder, ~disturbed
                 PROVE  /\ got \subseteq only
                        /\ \/ {i \in steady \cap only : Wanted(i)} \subseteq got
                           \/ reader \in OnePage /\ Cardinality(only) > PageSize
      BY DEF TargetedRead
    <2>1. got \subseteq only /\ Cardinality(only) \in Nat /\ PageSize \in Nat
      BY SpreadOut, Ranks, SmallerSet DEF PagingInv, ReadTyped, OnlyThose
    <2>2. Whole \/ (reader \in OnePage /\ Cardinality(only) > PageSize)
      BY <2>1 DEF Whole
    <2>3. QED
      BY <2>1, <2>2 DEF PagingInv, AllRead, Due
  <1>2. QED
    BY <1>1, PagingAlways, PTL

\* Every variable of a read keeps its type: its cursor is one it was given.
THEOREM PagingTypeCorrect == AnyReadSpec => []PagingTypeOK
  <1>1. PagingInv => PagingTypeOK
    BY DEF PagingInv, ReadTyped, CursorKept, PagingTypeOK, Start
  <1>2. QED
    BY <1>1, PagingAlways, PTL

\* What makes a read come to an end: every request is the last one or moves the
\* cursor on, so that none asks for a page twice (next_cursor of every fetch_page).
THEOREM PagesMoveOn == AnyReadSpec => [][Fetch => stage' = "done" \/ MovesOn]_pagingVars
  <1>1. PagingInv /\ [AnyRead]_pagingVars => [Fetch => stage' = "done" \/ MovesOn]_pagingVars
    BY CompletePages, ReadMoves
  <1>2. QED
    BY <1>1, PagingAlways, PTL DEF AnyReadSpec
=============================================================================
