------------------------- MODULE RoutingTableProofs -------------------------
(***************************************************************************)
(* Theorems about the routing table, for ids of any length, buckets of any *)
(* size, all lifetimes and thresholds and any history of the operations.   *)
(***************************************************************************)
EXTENDS RoutingTable, FiniteSetTheorems, FunctionTheorems, SequenceTheorems,
        WellFoundedInduction, TLAPS

-----------------------------------------------------------------------------
(* Listing a finite set in an order.                                       *)

\* The size of an interval.
LEMMA OneTo ==
  ASSUME NEW n \in Nat
  PROVE  IsFiniteSet(1..n) /\ Cardinality(1..n) = n
<1>1. CASE n = 0
  <2>1. 1..n = {}
    BY <1>1
  <2> QED
    BY <1>1, <2>1, FS_EmptySet
<1>2. CASE n # 0
  BY <1>2, FS_Interval
<1> QED
  BY <1>1, <1>2

\* before is a strict total order on S: each member with those before it.
Orders(before, S) ==
  /\ IsFiniteSet(S)
  /\ \A x \in S : before[x] \subseteq S /\ x \notin before[x]
  /\ \A x, y \in S : x # y => x \in before[y] \/ y \in before[x]
  /\ \A x, y \in S : x \in before[y] => before[x] \subseteq before[y]

\* Fewer come before what comes before.
LEMMA RankGrows ==
  ASSUME NEW S, NEW before, Orders(before, S), NEW x \in S, NEW y \in S, x \in before[y]
  PROVE  Cardinality(before[x]) < Cardinality(before[y])
<1>1. before[x] \subseteq before[y] /\ before[x] # before[y] /\ before[y] \subseteq S
  BY DEF Orders
<1>2. IsFiniteSet(before[y])
  BY <1>1, FS_Subset DEF Orders
<1>3. /\ IsFiniteSet(before[x]) /\ Cardinality(before[x]) <= Cardinality(before[y])
      /\ Cardinality(before[y]) # Cardinality(before[x])
  BY <1>1, <1>2, FS_Subset
<1>4. Cardinality(before[x]) \in Nat /\ Cardinality(before[y]) \in Nat
  BY <1>2, <1>3, FS_CardinalityType
<1> QED
  BY <1>3, <1>4

\* Every member has its place in the listing, and members come in their order.
LEMMA Listing ==
  ASSUME NEW S, NEW before, Orders(before, S),
         NEW o, o = listing(S, before), NEW n, n = Cardinality(S)
  PROVE  /\ n \in Nat /\ o \in [1..n -> S]
         /\ \A x \in S : \E k \in 1..n : o[k] = x
         /\ \A j, k \in 1..n : j < k => o[j] \in before[o[k]]
<1> DEFINE rank == [x \in S |-> Cardinality(before[x]) + 1]
<1>0. n \in Nat /\ IsFiniteSet(S) /\ IsFiniteSet(1..n) /\ Cardinality(1..n) = n
  BY FS_CardinalityType, OneTo DEF Orders
<1>1. ASSUME NEW x \in S PROVE rank[x] \in 1..n
  <2>1. before[x] \subseteq S /\ before[x] # S
    BY DEF Orders
  <2>2. IsFiniteSet(before[x]) /\ Cardinality(before[x]) <= n /\ Cardinality(before[x]) # n
    BY <1>0, <2>1, FS_Subset
  <2>3. Cardinality(before[x]) \in Nat
    BY <2>2, FS_CardinalityType
  <2> QED
    BY <1>0, <2>2, <2>3
<1>2. ASSUME NEW x \in S, NEW y \in S, x \in before[y] PROVE rank[x] < rank[y]
  <2>1. Cardinality(before[x]) < Cardinality(before[y])
    BY <1>2, RankGrows
  <2>2. rank[x] \in Nat /\ rank[y] \in Nat
    BY <1>1
  <2>3. IsFiniteSet(before[x]) /\ IsFiniteSet(before[y])
    BY <1>0, FS_Subset DEF Orders
  <2>4. Cardinality(before[x]) \in Nat /\ Cardinality(before[y]) \in Nat
    BY <2>3, FS_CardinalityType
  <2> QED
    BY <2>1, <2>4
<1>3. \A x, y \in S : rank[x] = rank[y] => x = y
  <2> SUFFICES ASSUME NEW x \in S, NEW y \in S, x # y PROVE rank[x] # rank[y]
    OBVIOUS
  <2>1. x \in before[y] \/ y \in before[x]
    BY DEF Orders
  <2>2. rank[x] \in Nat /\ rank[y] \in Nat
    BY <1>1
  <2> QED
    BY <1>2, <2>1, <2>2
<1>4. rank \in Surjection(S, 1..n)
  <2>1. rank \in [S -> 1..n]
    BY <1>1
  <2>2. rank \in Injection(S, 1..n)
    BY <2>1, <1>3, Fun_IsInj
  <2> QED
    BY <2>2, <1>0, FS_Injection
<1>5. \A k \in 1..n : \E x \in S : rank[x] = k
  BY <1>4 DEF Surjection
<1>6. ASSUME NEW k \in 1..n PROVE o[k] \in S /\ rank[o[k]] = k
  <2>1. PICK x \in S : rank[x] = k
    BY <1>5
  <2>2. IsFiniteSet(before[x])
    BY <1>0, FS_Subset DEF Orders
  <2>3. Cardinality(before[x]) \in Nat
    BY <2>2, FS_CardinalityType
  <2>4. Cardinality(before[x]) = k - 1
    BY <1>0, <2>1, <2>3
  <2>5. o[k] = CHOOSE y \in S : Cardinality(before[y]) = k - 1
    BY DEF listing
  <2>6. o[k] \in S /\ Cardinality(before[o[k]]) = k - 1
    BY <2>4, <2>5
  <2> QED
    BY <1>0, <2>6
<1>7. o = [k \in 1..n |-> o[k]]
  BY DEF listing
<1>8. o \in [1..n -> S]
  BY <1>6, <1>7
<1>9. \A x \in S : \E k \in 1..n : o[k] = x
  <2> TAKE x \in S
  <2>1. rank[x] \in 1..n
    BY <1>1
  <2>2. o[rank[x]] = x
    BY <2>1, <1>6, <1>3
  <2> QED
    BY <2>1, <2>2
<1>10. ASSUME NEW j \in 1..n, NEW k \in 1..n, j < k PROVE o[j] \in before[o[k]]
  <2>1. o[j] \in S /\ o[k] \in S /\ rank[o[j]] = j /\ rank[o[k]] = k
    BY <1>6
  <2>2. o[j] # o[k] /\ ~(rank[o[k]] < rank[o[j]])
    BY <1>0, <1>10, <2>1
  <2> HIDE DEF rank
  <2> QED
    BY <2>1, <2>2, <1>2 DEF Orders
<1> QED
  BY <1>0, <1>8, <1>9, <1>10

-----------------------------------------------------------------------------
(* Sorting and filtering a bucket.                                         *)

\* An entry, without the bounds of the exploration.
Node == [id : Id, addr : Addr, last_seen : Nat, failures : Nat]

\* The entries of a bucket are in order, and none has the address of another.
InOrder(s) == \A j, k \in 1..Len(s) : j < k => s[j].last_seen <= s[k].last_seen
Distinct(s) == \A j, k \in 1..Len(s) : s[j].addr = s[k].addr => j = k

\* The list r has the entries of the list s, each once.
Rearranged(r, s) ==
  /\ r \in Seq(Node) /\ Len(r) = Len(s)
  /\ \A k \in 1..Len(r) : \E j \in 1..Len(s) : r[k] = s[j]
  /\ \A j \in 1..Len(s) : \E k \in 1..Len(r) : r[k] = s[j]
  /\ Distinct(s) => Distinct(r)

\* sort_by_key puts entries in order and loses none.
LEMMA SortRearranges ==
  ASSUME NEW s \in Seq(Node), NEW r, r = sort_by_last_seen(s)
  PROVE  InOrder(r) /\ Rearranged(r, s)
<1> DEFINE D == 1..Len(s)
           before == [j \in D |-> {i \in D : \/ s[i].last_seen < s[j].last_seen
                                             \/ s[i].last_seen = s[j].last_seen /\ i < j}]
           o == listing(D, before)
<1>1. Len(s) \in Nat /\ DOMAIN s = D /\ \A i \in D : s[i] \in Node /\ s[i].last_seen \in Nat
  <2>1. Len(s) \in Nat /\ DOMAIN s = D
    BY LenProperties
  <2>2. \A i \in D : s[i] \in Node
    BY ElementOfSeq
  <2> QED
    BY <2>1, <2>2 DEF Node
<1>2. Orders(before, D)
  <2>1. IsFiniteSet(D)
    BY <1>1, OneTo
  <2>2. \A x \in D : before[x] \subseteq D /\ x \notin before[x]
    BY <1>1
  <2>3. \A x, y \in D : x # y => x \in before[y] \/ y \in before[x]
    BY <1>1
  <2>4. \A x, y \in D : x \in before[y] => before[x] \subseteq before[y]
    BY <1>1
  <2> HIDE DEF before
  <2> QED
    BY <2>1, <2>2, <2>3, <2>4 DEF Orders
<1>3. Cardinality(D) = Len(s)
  BY <1>1, OneTo
<1>4. /\ o \in [D -> D]
      /\ \A x \in D : \E k \in D : o[k] = x
      /\ \A j, k \in D : j < k => o[j] \in before[o[k]]
  <2> HIDE DEF before
  <2> QED
    BY <1>2, <1>3, Listing
<1>5. r = [k \in D |-> s[o[k]]]
  BY <1>1 DEF sort_by_last_seen
<1>6. \A j, k \in D : j < k => s[o[j]].last_seen <= s[o[k]].last_seen /\ o[j] # o[k]
  <2> SUFFICES ASSUME NEW j \in D, NEW k \in D, j < k
               PROVE  s[o[j]].last_seen <= s[o[k]].last_seen /\ o[j] # o[k]
    OBVIOUS
  <2>1. o[j] \in D /\ o[k] \in D /\ o[j] \in before[o[k]]
    BY <1>4
  <2> HIDE DEF o
  <2> QED
    BY <1>1, <2>1
<1> HIDE DEF o, before
<1>7. r \in Seq(Node) /\ Len(r) = Len(s)
  BY <1>1, <1>4, <1>5
<1>8. InOrder(r)
  BY <1>1, <1>5, <1>6, <1>7 DEF InOrder
<1>9. \A k \in D : r[k] = s[o[k]] /\ o[k] \in D
  BY <1>4, <1>5
<1>10. Distinct(s) => Distinct(r)
  <2>1. \A j, k \in D : o[j] = o[k] => j = k
    BY <1>1, <1>6
  <2> QED
    BY <1>7, <1>9, <2>1 DEF Distinct
<1>11. ASSUME NEW j \in D PROVE \E k \in D : r[k] = s[j]
  <2>1. PICK k \in D : o[k] = j
    BY <1>4
  <2> QED
    BY <1>9, <2>1
<1> QED
  BY <1>7, <1>8, <1>9, <1>10, <1>11 DEF Rearranged

\* A list of entries of s, taken in the order f of s, keeps what s has.
LEMMA Sublist ==
  ASSUME NEW s, Len(s) \in Nat, NEW t, Len(t) \in Nat, NEW f,
         \A k \in 1..Len(t) : f[k] \in 1..Len(s) /\ t[k] = s[f[k]],
         \A j, k \in 1..Len(t) : j < k => f[j] < f[k]
  PROVE  (InOrder(s) => InOrder(t)) /\ (Distinct(s) => Distinct(t))
<1>1. InOrder(s) => InOrder(t)
  BY DEF InOrder
<1>2. ASSUME Distinct(s), NEW j \in 1..Len(t), NEW k \in 1..Len(t), t[j].addr = t[k].addr
      PROVE  j = k
  <2>1. f[j] = f[k]
    <3>1. f[j] \in 1..Len(s) /\ f[k] \in 1..Len(s) /\ s[f[j]].addr = s[f[k]].addr
      BY <1>2
    <3> QED
      BY <1>2, <3>1 DEF Distinct
  <2>2. ~(f[j] < f[k]) /\ ~(f[k] < f[j])
    BY <2>1
  <2>3. ~(j < k) /\ ~(k < j)
    BY <2>2
  <2> QED
    BY <2>3
<1> QED
  BY <1>1, <1>2 DEF Distinct

\* retain keeps what is at the places in keep, in order.
LEMMA RetainKeeps ==
  ASSUME NEW s \in Seq(Node), NEW keep \in SUBSET (1..Len(s)), NEW r, r = retain(s, keep)
  PROVE  /\ r \in Seq(Node) /\ Len(r) = Cardinality(keep) /\ Len(r) <= Len(s)
         /\ \A k \in 1..Len(r) : \E j \in keep : r[k] = s[j]
         /\ \A j \in keep : \E k \in 1..Len(r) : r[k] = s[j]
         /\ InOrder(s) => InOrder(r)
         /\ Distinct(s) => Distinct(r)
<1> DEFINE before == [j \in keep |-> {i \in keep : i < j}]
           o == listing(keep, before)
           n == Cardinality(keep)
<1>1. /\ Len(s) \in Nat /\ \A i \in 1..Len(s) : s[i] \in Node
      /\ IsFiniteSet(1..Len(s)) /\ Cardinality(1..Len(s)) = Len(s)
      /\ \A i \in keep : i \in Nat
  <2>1. Len(s) \in Nat
    BY LenProperties
  <2>2. \A i \in 1..Len(s) : s[i] \in Node
    BY ElementOfSeq
  <2> QED
    BY <2>1, <2>2, OneTo
<1>2. IsFiniteSet(keep) /\ n <= Len(s) /\ n \in Nat
  BY <1>1, FS_Subset, FS_CardinalityType
<1>3. Orders(before, keep)
  <2>1. \A x \in keep : before[x] \subseteq keep /\ x \notin before[x]
    <3> SUFFICES ASSUME NEW x \in keep PROVE before[x] \subseteq keep /\ x \notin before[x]
      OBVIOUS
    <3>1. before[x] = {i \in keep : i < x} /\ x \in Nat
      BY <1>1
    <3> HIDE DEF before
    <3> QED
      BY <3>1
  <2>2. \A x, y \in keep : x # y => x \in before[y] \/ y \in before[x]
    BY <1>1
  <2>3. ASSUME NEW x \in keep, NEW y \in keep, x \in before[y], NEW z \in before[x]
        PROVE  z \in before[y]
    <3>1. z \in keep /\ z < x /\ x < y /\ z \in Nat /\ x \in Nat /\ y \in Nat
      BY <1>1, <2>3
    <3>2. z < y
      BY <3>1
    <3> QED
      BY <3>1, <3>2
  <2> HIDE DEF before
  <2> QED
    BY <1>2, <2>1, <2>2, <2>3 DEF Orders
<1>4. /\ o \in [1..n -> keep]
      /\ \A x \in keep : \E k \in 1..n : o[k] = x
      /\ \A j, k \in 1..n : j < k => o[j] \in before[o[k]]
  <2> HIDE DEF before
  <2> QED
    BY <1>3, Listing
<1>5. \A j, k \in 1..n : j < k => o[j] < o[k]
  <2> SUFFICES ASSUME NEW j \in 1..n, NEW k \in 1..n, j < k PROVE o[j] < o[k]
    OBVIOUS
  <2>1. o[k] \in keep /\ o[j] \in before[o[k]]
    BY <1>4
  <2> HIDE DEF o
  <2> QED
    BY <2>1
<1>6. r = [k \in 1..n |-> s[o[k]]]
  BY <1>4 DEF retain
<1> HIDE DEF o, before, n
<1>7. r \in Seq(Node) /\ Len(r) = n
  <2>1. r \in [1..n -> Node]
    BY <1>1, <1>4, <1>6
  <2> QED
    BY <1>2, <2>1, SeqDef, LenProperties
<1>8. \A k \in 1..n : r[k] = s[o[k]] /\ o[k] \in keep /\ o[k] \in 1..Len(s)
  BY <1>4, <1>6
<1>9. (InOrder(s) => InOrder(r)) /\ (Distinct(s) => Distinct(r))
  <2>1. \A j, k \in 1..n : j < k => o[j] < o[k]
    BY <1>5
  <2> QED
    BY <1>2, <1>7, <1>8, <2>1, Sublist, LenProperties
<1>11. ASSUME NEW j \in keep PROVE \E k \in 1..n : r[k] = s[j]
  <2>1. PICK k \in 1..n : o[k] = j
    BY <1>4
  <2> QED
    BY <1>8, <2>1
<1> QED
  BY <1>2, <1>7, <1>8, <1>9, <1>11 DEF n

-----------------------------------------------------------------------------
(* The first place that passes a test, and the least of a few numbers.     *)

\* Min of a set of naturals that is not empty is its least member.
LEMMA LeastExists ==
  ASSUME NEW I \in SUBSET Nat, I # {}
  PROVE  Min(I) \in I /\ \A j \in I : Min(I) <= j
<1> DEFINE less == OpToRel(<, Nat)
<1>1. less = {ss \in Nat \X Nat : ss[1] < ss[2]} /\ IsWellFoundedOn(less, Nat)
  BY NatLessThanWellFounded DEF OpToRel
<1> HIDE DEF less
<1>0. PICK x \in I : \A y \in I : ~(<<y, x>> \in less)
  BY <1>1, WFMin
<1>2. ASSUME NEW y \in I PROVE x <= y
  <2>1. x \in Nat /\ y \in Nat
    OBVIOUS
  <2>2. y < x => <<y, x>> \in less
    BY <1>1, <2>1
  <2>3. ~(y < x)
    BY <1>0, <2>2
  <2> QED
    BY <2>1, <2>3
<1> QED
  BY <1>2 DEF Min

\* Min and Max of two numbers.
LEMMA MinMaxOfTwo ==
  ASSUME NEW a \in Int, NEW b \in Int
  PROVE  /\ Min({a, b}) = IF a <= b THEN a ELSE b
         /\ Max({a, b}) = IF a >= b THEN a ELSE b
BY DEF Min, Max

\* bucket_find finds the first entry with the address, if there is one.
LEMMA Finds ==
  ASSUME NEW b, b.entries \in Seq(Node), NEW addr, NEW i, i = bucket_find(b, addr)
  PROVE  /\ i \in 0..Len(b.entries)
         /\ i # 0 => b.entries[i].addr = addr
         /\ i = 0 => \A j \in 1..Len(b.entries) : b.entries[j].addr # addr
<1> DEFINE I == {j \in 1..Len(b.entries) : b.entries[j].addr = addr}
<1>1. i = IF I # {} THEN Min(I) ELSE 0
  BY DEF bucket_find, SelectInSeq
<1>2. Len(b.entries) \in Nat
  BY LenProperties
<1>3. I \in SUBSET Nat
  BY <1>2
<1>4. I # {} => Min(I) \in I
  BY <1>3, LeastExists
<1> QED
  BY <1>1, <1>2, <1>4

-----------------------------------------------------------------------------
(* What an operation does to one bucket.                                   *)

\* A list without the entry at i: those behind it move up.
LEMMA RemovesAt ==
  ASSUME NEW S, NEW s \in Seq(S), NEW i \in 1..Len(s), NEW r, r = RemoveAt(s, i)
  PROVE  /\ r \in Seq(S) /\ Len(r) = Len(s) - 1
         /\ \A k \in 1..Len(r) : r[k] = IF k < i THEN s[k] ELSE s[k+1]
<1> DEFINE a == SubSeq(s, 1, i-1)
           c == SubSeq(s, i+1, Len(s))
<1>1. Len(s) \in Nat /\ \A k \in 1..Len(s) : s[k] \in S
  BY LenProperties, ElementOfSeq
<1>2. a \in Seq(S) /\ Len(a) = i - 1 /\ \A k \in 1..(i-1) : a[k] = s[k]
  BY <1>1, SubSeqProperties
<1>3. /\ c \in Seq(S) /\ Len(c) = Len(s) - i
      /\ \A k \in 1..(Len(s)-i) : c[k] = s[i+k]
  BY <1>1, SubSeqProperties
<1>4. r = a \o c
  BY DEF RemoveAt
<1> HIDE DEF a, c
<1>5. /\ r \in Seq(S) /\ Len(r) = Len(s) - 1
      /\ \A k \in 1..(Len(s) - 1) : r[k] = IF k < i THEN a[k] ELSE c[k-i+1]
  <2>0. a \in Seq(S) /\ c \in Seq(S)
    BY <1>2, <1>3
  <2>1. /\ r \in Seq(S) /\ Len(r) = Len(a) + Len(c)
        /\ \A k \in 1..(Len(a) + Len(c)) :
             r[k] = IF k <= Len(a) THEN a[k] ELSE c[k - Len(a)]
    BY <2>0, <1>4, ConcatProperties
  <2>2. Len(a) + Len(c) = Len(s) - 1
    BY <1>1, <1>2, <1>3
  <2>3. ASSUME NEW k \in 1..(Len(s) - 1)
        PROVE  (k <= Len(a) <=> k < i) /\ k - Len(a) = k - i + 1
    BY <1>1, <1>2
  <2> QED
    BY <2>1, <2>2, <2>3
<1>6. ASSUME NEW k \in 1..(Len(s) - 1), k >= i PROVE c[k-i+1] = s[k+1]
  <2>1. k-i+1 \in 1..(Len(s)-i) /\ i+(k-i+1) = k+1
    BY <1>1, <1>6
  <2> QED
    BY <1>3, <2>1
<1>7. ASSUME NEW k \in 1..(Len(s) - 1) PROVE r[k] = IF k < i THEN s[k] ELSE s[k+1]
  <2>1. CASE k < i
    <3>1. k \in 1..(i-1)
      BY <1>1, <2>1
    <3> QED
      BY <1>2, <1>5, <2>1, <3>1
  <2>2. CASE ~(k < i)
    BY <1>1, <1>5, <1>6, <2>2
  <2> QED
    BY <2>1, <2>2
<1> QED
  BY <1>5, <1>7

\* A bucket as it should be.
Good == {b \in [prefix_len : Nat, entries : Seq(Node)] :
           Len(b.entries) <= K /\ InOrder(b.entries) /\ Distinct(b.entries)}

\* An entry that may be given up at the time t.
Dead(e, t) == ~is_healthy(e) \/ is_expired(e, t)

\* slot is over the same address, at the free end, or over a dead entry.
LEMMA Slots ==
  ASSUME NEW b \in Good, NEW e \in Node, NEW i, i = slot(b, e)
  PROVE  /\ i \in 0..(Len(b.entries) + 1) /\ i <= K
         /\ \/ i = 0
            \/ i \in 1..Len(b.entries) /\ b.entries[i].addr = e.addr
            \/ /\ i \in 1..Len(b.entries) => Dead(b.entries[i], e.last_seen)
               /\ \A j \in 1..Len(b.entries) : b.entries[j].addr # e.addr
<1> DEFINE s == b.entries
           f == bucket_find(b, e.addr)
           I == {j \in 1..Len(s) : Dead(s[j], e.last_seen)}
<1>1. s \in Seq(Node) /\ Len(s) \in Nat /\ Len(s) <= K /\ K \in Nat
  BY LenProperties, RoutingTableAssumption DEF Good
<1>2. /\ f \in 0..Len(s)
      /\ f # 0 => s[f].addr = e.addr
      /\ f = 0 => \A j \in 1..Len(s) : s[j].addr # e.addr
  BY <1>1, Finds
<1>3. i = IF f # 0 THEN f ELSE IF Len(s) < K THEN Len(s) + 1
          ELSE IF I # {} THEN Min(I) ELSE 0
  BY DEF slot, SelectInSeq, Dead
<1>4. I # {} => Min(I) \in I
  <2>1. I \in SUBSET Nat
    BY <1>1
  <2> QED
    BY <2>1, LeastExists
<1> HIDE DEF s, f
<1>5. CASE f # 0
  BY <1>1, <1>2, <1>3, <1>5 DEF s
<1>6. CASE f = 0 /\ Len(s) < K
  BY <1>1, <1>2, <1>3, <1>6 DEF s
<1>7. CASE f = 0 /\ ~(Len(s) < K) /\ I # {}
  BY <1>1, <1>2, <1>3, <1>4, <1>7 DEF s
<1>8. CASE f = 0 /\ ~(Len(s) < K) /\ I = {}
  BY <1>1, <1>2, <1>3, <1>8 DEF s
<1> QED
  BY <1>5, <1>6, <1>7, <1>8

\* A bucket that takes an entry has it, and lost only an entry of its address
\* or a dead one.
LEMMA InsertInBucket ==
  ASSUME NEW b \in Good, NEW e \in Node, slot(b, e) # 0
  PROVE  LET r == bucket_insert(b, e)
         IN  /\ r \in Good /\ r.prefix_len = b.prefix_len
             /\ Len(r.entries) <= Len(b.entries) + 1
             /\ \E k \in 1..Len(r.entries) : r.entries[k] = e
             /\ \A k \in 1..Len(r.entries) :
                  r.entries[k] = e \/ \E j \in 1..Len(b.entries) : r.entries[k] = b.entries[j]
             /\ \A j \in 1..Len(b.entries) :
                  \/ b.entries[j].addr = e.addr \/ Dead(b.entries[j], e.last_seen)
                  \/ \E k \in 1..Len(r.entries) : r.entries[k] = b.entries[j]
<1> DEFINE r == bucket_insert(b, e)
           s == b.entries
           i == slot(b, e)
           w == IF i > Len(s) THEN Append(s, e) ELSE ReplaceAt(s, i, e)
           t == sort_by_last_seen(w)
<1>1. /\ s \in Seq(Node) /\ Len(s) \in Nat /\ Len(s) <= K /\ Distinct(s)
      /\ b.prefix_len \in Nat
  BY LenProperties DEF Good
<1>2. /\ i \in 1..(Len(s) + 1) /\ i <= K
      /\ \/ i \in 1..Len(s) /\ s[i].addr = e.addr
         \/ /\ i \in 1..Len(s) => Dead(s[i], e.last_seen)
            /\ \A j \in 1..Len(s) : s[j].addr # e.addr
  <2> HIDE DEF s, i
  <2>1. /\ i \in 0..(Len(s) + 1) /\ i <= K
        /\ \/ i = 0
           \/ i \in 1..Len(s) /\ s[i].addr = e.addr
           \/ /\ i \in 1..Len(s) => Dead(s[i], e.last_seen)
              /\ \A j \in 1..Len(s) : s[j].addr # e.addr
    BY Slots DEF s, i
  <2>2. i # 0
    BY DEF i
  <2> QED
    BY <1>1, <2>1, <2>2
<1>3. r = [b EXCEPT !.entries = t]
  BY DEF bucket_insert
<1> HIDE DEF r, s, i, t
<1>4. /\ w \in Seq(Node) /\ Len(w) = IF i > Len(s) THEN Len(s) + 1 ELSE Len(s)
      /\ \A k \in 1..Len(w) : w[k] = IF k = i THEN e ELSE s[k]
  <2>1. CASE i > Len(s)
    <3>1. i = Len(s) + 1 /\ w = Append(s, e)
      BY <1>1, <1>2, <2>1
    <3> HIDE DEF w
    <3>2. /\ w \in Seq(Node) /\ Len(w) = Len(s) + 1 /\ w[Len(s) + 1] = e
          /\ \A k \in 1..Len(s) : w[k] = s[k]
      BY <1>1, <3>1, AppendProperties
    <3> QED
      BY <1>1, <2>1, <3>1, <3>2
  <2>2. CASE ~(i > Len(s))
    <3>1. i \in 1..Len(s) /\ w = [s EXCEPT ![i] = e]
      BY <1>1, <1>2, <2>2 DEF ReplaceAt
    <3> HIDE DEF w
    <3>2. /\ w \in Seq(Node) /\ Len(w) = Len(s)
          /\ \A k \in 1..Len(s) : w[k] = IF k = i THEN e ELSE s[k]
      BY <1>1, <3>1, ExceptSeq
    <3> QED
      BY <2>2, <3>2
  <2> QED
    BY <2>1, <2>2
<1> HIDE DEF w
<1>5. Len(w) \in Nat /\ Len(w) <= K /\ i \in 1..Len(w) /\ Len(s) <= Len(w) /\ Len(w) <= Len(s) + 1
  BY <1>1, <1>2, <1>4, RoutingTableAssumption
<1>6. Distinct(w)
  <2> SUFFICES ASSUME NEW j \in 1..Len(w), NEW k \in 1..Len(w), j # k
               PROVE  w[j].addr # w[k].addr
    BY DEF Distinct
  <2>1. \A m \in 1..Len(w) : m # i => (m \in 1..Len(s) /\ w[m] = s[m] /\ s[m].addr # e.addr)
    <3> SUFFICES ASSUME NEW m \in 1..Len(w), m # i
                 PROVE  m \in 1..Len(s) /\ w[m] = s[m] /\ s[m].addr # e.addr
      OBVIOUS
    <3>1. m \in 1..Len(s) /\ w[m] = s[m]
      BY <1>1, <1>2, <1>4
    <3> QED
      BY <1>1, <1>2, <3>1 DEF Distinct
  <2>2. w[i] = e
    BY <1>4, <1>5
  <2> QED
    BY <1>1, <2>1, <2>2 DEF Distinct
<1>7. InOrder(t) /\ Rearranged(t, w)
  BY <1>4, SortRearranges DEF t
<1>8. /\ t \in Seq(Node) /\ Len(t) = Len(w) /\ Distinct(t)
      /\ \A k \in 1..Len(w) : \E j \in 1..Len(w) : t[k] = w[j]
      /\ \A j \in 1..Len(w) : \E k \in 1..Len(w) : t[k] = w[j]
  BY <1>6, <1>7 DEF Rearranged
<1>9. r \in Good /\ r.entries = t /\ r.prefix_len = b.prefix_len
  BY <1>1, <1>3, <1>5, <1>7, <1>8 DEF Good
<1>10. \E k \in 1..Len(t) : t[k] = e
  BY <1>4, <1>5, <1>8
<1>11. \A k \in 1..Len(t) : t[k] = e \/ \E j \in 1..Len(s) : t[k] = s[j]
  <2> TAKE k \in 1..Len(t)
  <2>1. PICK j \in 1..Len(w) : t[k] = w[j]
    BY <1>8
  <2>2. j = i \/ j \in 1..Len(s)
    BY <1>1, <1>2, <1>4
  <2> QED
    BY <1>4, <2>1, <2>2
<1>12. \A j \in 1..Len(s) : \/ s[j].addr = e.addr \/ Dead(s[j], e.last_seen)
                            \/ \E k \in 1..Len(t) : t[k] = s[j]
  <2> TAKE j \in 1..Len(s)
  <2>1. CASE j = i
    BY <1>2, <2>1
  <2>2. CASE j # i
    <3>1. j \in 1..Len(w) /\ w[j] = s[j]
      BY <1>1, <1>4, <1>5, <2>2
    <3>2. PICK k \in 1..Len(w) : t[k] = w[j]
      BY <1>8, <3>1
    <3> QED
      BY <1>8, <3>1, <3>2
  <2> QED
    BY <2>1, <2>2
<1> QED
  BY <1>5, <1>8, <1>9, <1>10, <1>11, <1>12 DEF r, s

\* The same addresses, whatever became of their entries.
SameAddresses(r, s) ==
  /\ \A k \in 1..Len(r) : \E j \in 1..Len(s) : r[k].addr = s[j].addr
  /\ \A j \in 1..Len(s) : \E k \in 1..Len(r) : r[k].addr = s[j].addr

\* bucket_touch moves the entry and keeps the addresses.
LEMMA TouchInBucket ==
  ASSUME now \in Nat, NEW b \in Good, NEW addr, bucket_find(b, addr) # 0,
         NEW r, r = bucket_touch(b, addr)
  PROVE  /\ r \in Good /\ Len(r.entries) = Len(b.entries)
         /\ SameAddresses(r.entries, b.entries)
<1> DEFINE s == b.entries
           i == bucket_find(b, addr)
           e == [s[i] EXCEPT !.last_seen = now, !.failures = 0]
           w == [s EXCEPT ![i] = e]
           t == sort_by_last_seen(w)
<1>1. /\ s \in Seq(Node) /\ Len(s) \in Nat /\ Len(s) <= K /\ Distinct(s)
      /\ b.prefix_len \in Nat /\ DOMAIN s = 1..Len(s)
  BY LenProperties DEF Good
<1>2. i \in 1..Len(s)
  BY <1>1, Finds
<1>3. s[i] \in Node
  BY <1>1, <1>2, ElementOfSeq
<1>4. e \in Node /\ e.addr = s[i].addr
  <2>1. \A x \in Node : /\ [x EXCEPT !.last_seen = now, !.failures = 0] \in Node
                        /\ [x EXCEPT !.last_seen = now, !.failures = 0].addr = x.addr
    BY DEF Node
  <2> HIDE DEF i, s
  <2> QED
    BY <1>3, <2>1
<1>5. r = [b EXCEPT !.entries = t]
  <2>1. [s EXCEPT ![i].last_seen = now, ![i].failures = 0] = w
    <3> HIDE DEF i, s
    <3> QED
      BY <1>1, <1>2
  <2> HIDE DEF w
  <2> QED
    BY <2>1 DEF bucket_touch
<1> HIDE DEF i, e, t
<1>6. /\ w \in Seq(Node) /\ Len(w) = Len(s)
      /\ \A k \in 1..Len(s) : w[k] = IF k = i THEN e ELSE s[k]
  BY <1>1, <1>2, <1>4, ExceptSeq
<1> HIDE DEF w
<1>7. \A k \in 1..Len(s) : w[k].addr = s[k].addr
  BY <1>4, <1>6
<1>8. Distinct(w)
  BY <1>1, <1>6, <1>7 DEF Distinct
<1>9. InOrder(t) /\ Rearranged(t, w)
  BY <1>6, SortRearranges DEF t
<1>10. /\ t \in Seq(Node) /\ Len(t) = Len(s) /\ Distinct(t)
       /\ \A k \in 1..Len(s) : \E j \in 1..Len(s) : t[k] = w[j]
       /\ \A j \in 1..Len(s) : \E k \in 1..Len(s) : t[k] = w[j]
  BY <1>6, <1>8, <1>9 DEF Rearranged
<1>11. r \in Good /\ r.entries = t
  BY <1>1, <1>5, <1>9, <1>10 DEF Good
<1>12. SameAddresses(t, s)
  <2>1. ASSUME NEW k \in 1..Len(s) PROVE \E j \in 1..Len(s) : t[k].addr = s[j].addr
    <3>1. PICK j \in 1..Len(s) : t[k] = w[j]
      BY <1>10
    <3> QED
      BY <1>7, <3>1
  <2>2. ASSUME NEW j \in 1..Len(s) PROVE \E k \in 1..Len(s) : t[k].addr = s[j].addr
    <3>1. PICK k \in 1..Len(s) : t[k] = w[j]
      BY <1>10
    <3> QED
      BY <1>7, <3>1
  <2> QED
    BY <1>10, <2>1, <2>2 DEF SameAddresses
<1> QED
  BY <1>10, <1>11, <1>12 DEF s

\* So does a failure that is counted.
LEMMA FailureInBucket ==
  ASSUME NEW b \in Good, NEW addr, bucket_find(b, addr) # 0,
         NEW r, r = bucket_mark_failed(b, addr)
  PROVE  /\ r \in Good /\ Len(r.entries) = Len(b.entries)
         /\ SameAddresses(r.entries, b.entries)
<1> DEFINE s == b.entries
           i == bucket_find(b, addr)
           e == [s[i] EXCEPT !.failures = Min({@ + 1, U8Max})]
           w == [s EXCEPT ![i] = e]
<1>1. /\ s \in Seq(Node) /\ Len(s) \in Nat /\ Len(s) <= K /\ Distinct(s) /\ InOrder(s)
      /\ b.prefix_len \in Nat /\ DOMAIN s = 1..Len(s)
  BY LenProperties DEF Good
<1>2. i \in 1..Len(s)
  BY <1>1, Finds
<1>3. s[i] \in Node
  BY <1>1, <1>2, ElementOfSeq
<1>4. e \in Node /\ e.addr = s[i].addr /\ e.last_seen = s[i].last_seen
  <2> HIDE DEF i, s
  <2>1. s[i].id \in Id /\ s[i].addr \in Addr /\ s[i].last_seen \in Nat /\ s[i].failures \in Nat
    BY <1>3 DEF Node
  <2>2. Min({s[i].failures + 1, U8Max}) \in Nat
    BY <2>1, MinMaxOfTwo, RoutingTableAssumption
  <2>3. e = [id |-> s[i].id, addr |-> s[i].addr, last_seen |-> s[i].last_seen,
             failures |-> Min({s[i].failures + 1, U8Max})]
    BY <1>3 DEF Node
  <2> QED
    BY <2>1, <2>2, <2>3 DEF Node
<1>5. r = [b EXCEPT !.entries = w]
  BY DEF bucket_mark_failed
<1> HIDE DEF i, e
<1>6. /\ w \in Seq(Node) /\ Len(w) = Len(s)
      /\ \A k \in 1..Len(s) : w[k] = IF k = i THEN e ELSE s[k]
  BY <1>1, <1>2, <1>4, ExceptSeq
<1> HIDE DEF w
<1>7. \A k \in 1..Len(s) : w[k].addr = s[k].addr /\ w[k].last_seen = s[k].last_seen
  BY <1>4, <1>6
<1>8. Distinct(w) /\ InOrder(w)
  BY <1>1, <1>6, <1>7 DEF Distinct, InOrder
<1>9. r \in Good /\ r.entries = w
  BY <1>1, <1>5, <1>6, <1>8 DEF Good
<1>10. SameAddresses(w, s)
  BY <1>6, <1>7 DEF SameAddresses
<1> QED
  BY <1>6, <1>9, <1>10 DEF s

\* What a bucket loses to evict was dead.
LEMMA EvictInBucket ==
  ASSUME NEW b \in Good, NEW r, r = bucket_evict(b)
  PROVE  /\ r \in Good
         /\ \A k \in 1..Len(r.entries) :
              \E j \in 1..Len(b.entries) : r.entries[k] = b.entries[j]
         /\ \A j \in 1..Len(b.entries) :
              \/ Dead(b.entries[j], now)
              \/ \E k \in 1..Len(r.entries) : r.entries[k] = b.entries[j]
<1> DEFINE s == b.entries
           alive == {i \in 1..Len(s) : is_healthy(s[i]) /\ ~is_expired(s[i], now)}
           t == retain(s, alive)
<1>1. /\ s \in Seq(Node) /\ Len(s) \in Nat /\ Len(s) <= K /\ Distinct(s) /\ InOrder(s)
      /\ b.prefix_len \in Nat /\ DOMAIN s = 1..Len(s) /\ K \in Nat
  BY LenProperties, RoutingTableAssumption DEF Good
<1>2. r = [b EXCEPT !.entries = t]
  BY <1>1 DEF bucket_evict
<1>3. alive \in SUBSET (1..Len(s))
  OBVIOUS
<1> HIDE DEF s, alive, t
<1>4. /\ t \in Seq(Node) /\ Len(t) <= Len(s)
      /\ \A k \in 1..Len(t) : \E j \in alive : t[k] = s[j]
      /\ \A j \in alive : \E k \in 1..Len(t) : t[k] = s[j]
      /\ InOrder(t) /\ Distinct(t)
  BY <1>1, <1>3, RetainKeeps DEF t
<1>5. Len(t) \in Nat
  BY <1>4, LenProperties
<1>6. r \in Good /\ r.entries = t
  BY <1>1, <1>2, <1>4, <1>5 DEF Good, s
<1>7. \A j \in 1..Len(s) : Dead(s[j], now) \/ j \in alive
  BY DEF Dead, alive
<1> QED
  BY <1>3, <1>4, <1>6, <1>7 DEF s

\* A bucket without one of its entries.
Without(b, i) == [b EXCEPT !.entries = RemoveAt(@, i)]

\* The bucket is still well formed, and only the entry at i is gone.
LEMMA RemoveInBucket ==
  ASSUME NEW b \in Good, NEW i \in 1..Len(b.entries),
         NEW r, r = Without(b, i)
  PROVE  /\ r \in Good /\ Len(r.entries) = Len(b.entries) - 1
         /\ \A k \in 1..Len(r.entries) :
              \E j \in 1..Len(b.entries) : r.entries[k] = b.entries[j]
         /\ \A j \in 1..Len(b.entries) :
              j = i \/ \E k \in 1..Len(r.entries) : r.entries[k] = b.entries[j]
<1> DEFINE s == b.entries
           t == RemoveAt(s, i)
<1>1. /\ s \in Seq(Node) /\ Len(s) \in Nat /\ Len(s) <= K /\ Distinct(s) /\ InOrder(s)
      /\ b.prefix_len \in Nat /\ K \in Nat /\ i \in 1..Len(s)
  BY LenProperties, RoutingTableAssumption DEF Good
<1> HIDE DEF s
<1>2. /\ t \in Seq(Node) /\ Len(t) = Len(s) - 1
      /\ \A k \in 1..Len(t) : t[k] = IF k < i THEN s[k] ELSE s[k+1]
  BY <1>1, RemovesAt
<1> HIDE DEF t
<1> DEFINE from == [k \in 1..Len(t) |-> IF k < i THEN k ELSE k + 1]
<1>9. /\ \A k \in 1..Len(t) : t[k] = s[from[k]] /\ from[k] \in 1..Len(s)
      /\ \A j, k \in 1..Len(t) : j < k => from[j] < from[k]
  BY <1>1, <1>2
<1> HIDE DEF from
<1>3. InOrder(t) /\ Distinct(t)
  BY <1>1, <1>2, <1>9, Sublist, LenProperties
<1>4. Len(t) <= K
  BY <1>1, <1>2
<1>5. r = [b EXCEPT !.entries = t]
  BY DEF s, t, Without
<1>6. r \in Good /\ r.entries = t
  <2>1. r \in [prefix_len : Nat, entries : Seq(Node)] /\ r.entries = t
    BY <1>1, <1>2, <1>5 DEF Good, s
  <2> QED
    BY <1>3, <1>4, <2>1 DEF Good
<1>7. \A k \in 1..Len(t) : \E j \in 1..Len(s) : t[k] = s[j]
  BY <1>1, <1>2
<1>8. ASSUME NEW j \in 1..Len(s), j # i PROVE \E k \in 1..Len(t) : t[k] = s[j]
  <2>1. CASE j < i
    BY <1>1, <1>2, <2>1
  <2>2. CASE j > i
    <3>1. j-1 \in 1..Len(t) /\ ~(j-1 < i) /\ (j-1)+1 = j
      BY <1>1, <1>2, <2>2
    <3> QED
      BY <1>2, <3>1
  <2> QED
    BY <1>1, <1>8, <2>1, <2>2
<1> QED
  BY <1>2, <1>6, <1>7, <1>8 DEF s

-----------------------------------------------------------------------------
(* What an operation does to the table.                                    *)

GoodTable(bs) == bs \in Seq(Good) /\ Len(bs) >= 1

\* The entry is at some place of the table.
Holds(bs, e) == \E i \in 1..Len(bs) : \E j \in 1..Len(bs[i].entries) : bs[i].entries[j] = e

\* The places of a table, and what is found along them.
LEMMA Places ==
  ASSUME NEW bs, GoodTable(bs)
  PROVE  /\ \A p : p \in places(bs) <=> /\ p = <<p[1], p[2]>>
                                        /\ p[1] \in 1..Len(bs)
                                        /\ p[2] \in 1..Len(bs[p[1]].entries)
         /\ \A i, j : <<i, j>> \in places(bs) <=> /\ i \in 1..Len(bs)
                                                /\ j \in 1..Len(bs[i].entries)
         /\ IsFiniteSet(places(bs)) /\ node_count(bs) \in Nat
         /\ \A i \in 1..Len(bs) :
              /\ bs[i] \in Good /\ bs[i].entries \in Seq(Node)
              /\ Len(bs[i].entries) \in Nat /\ bs[i].prefix_len \in Nat
         /\ Len(bs) \in Nat /\ DOMAIN bs = 1..Len(bs)
<1>1. Len(bs) \in Nat /\ DOMAIN bs = 1..Len(bs)
  BY LenProperties DEF GoodTable
<1>2. ASSUME NEW i \in 1..Len(bs)
      PROVE  /\ bs[i] \in Good /\ bs[i].entries \in Seq(Node) /\ bs[i].prefix_len \in Nat
             /\ Len(bs[i].entries) \in Nat /\ Len(bs[i].entries) <= K
             /\ DOMAIN bs[i].entries = 1..Len(bs[i].entries)
  <2>1. bs[i] \in Good
    BY ElementOfSeq DEF GoodTable
  <2>2. bs[i].entries \in Seq(Node) /\ bs[i].prefix_len \in Nat /\ Len(bs[i].entries) <= K
    BY <2>1 DEF Good
  <2> QED
    BY <2>1, <2>2, LenProperties
<1>3. \A p : p \in places(bs) <=> /\ p = <<p[1], p[2]>>
                                  /\ p[1] \in 1..Len(bs)
                                  /\ p[2] \in 1..Len(bs[p[1]].entries)
  BY <1>1, <1>2 DEF places
<1>6. \A i, j : <<i, j>> \in places(bs) <=> /\ i \in 1..Len(bs)
                                         /\ j \in 1..Len(bs[i].entries)
  BY <1>1, <1>2 DEF places
<1>4. places(bs) \subseteq (1..Len(bs)) \X (1..K)
  <2> SUFFICES ASSUME NEW p \in places(bs) PROVE p \in (1..Len(bs)) \X (1..K)
    OBVIOUS
  <2>1. p = <<p[1], p[2]>> /\ p[1] \in 1..Len(bs) /\ p[2] \in 1..Len(bs[p[1]].entries)
    BY <1>3
  <2>2. p[2] \in 1..K
    BY <1>2, <2>1, RoutingTableAssumption
  <2> QED
    BY <2>1, <2>2
<1>5. IsFiniteSet(places(bs))
  <2>1. IsFiniteSet(1..Len(bs)) /\ IsFiniteSet(1..K)
    BY <1>1, OneTo, RoutingTableAssumption
  <2> QED
    BY <1>4, <2>1, FS_Product, FS_Subset
<1> QED
  BY <1>1, <1>2, <1>3, <1>5, <1>6, FS_CardinalityType DEF node_count

\* Another bucket in the place of one.
LEMMA ReplaceBucket ==
  ASSUME NEW bs, GoodTable(bs), NEW i \in 1..Len(bs), NEW b \in Good,
         NEW r, r = ReplaceAt(bs, i, b)
  PROVE  /\ GoodTable(r) /\ Len(r) = Len(bs)
         /\ \A m \in 1..Len(bs) : r[m] = IF m = i THEN b ELSE bs[m]
         /\ Len(b.entries) <= Len(bs[i].entries) + 1 => node_count(r) <= node_count(bs) + 1
         /\ Len(b.entries) <= Len(bs[i].entries) => node_count(r) <= node_count(bs)
         /\ Len(b.entries) = Len(bs[i].entries) - 1 =>
              node_count(bs) >= 1 /\ node_count(r) <= node_count(bs) - 1
<1> DEFINE n == Len(bs[i].entries)
<1>1. GoodTable(r) /\ Len(r) = Len(bs) /\ \A m \in 1..Len(bs) : r[m] = IF m = i THEN b ELSE bs[m]
  BY ExceptSeq DEF GoodTable, ReplaceAt
<1>2. /\ IsFiniteSet(places(bs)) /\ node_count(bs) \in Nat
      /\ \A p : p \in places(bs) <=> /\ p = <<p[1], p[2]>>
                                     /\ p[1] \in 1..Len(bs)
                                     /\ p[2] \in 1..Len(bs[p[1]].entries)
      /\ Len(bs) \in Nat /\ n \in Nat
  BY Places
<1>3. /\ IsFiniteSet(places(r)) /\ node_count(r) \in Nat
      /\ \A p : p \in places(r) <=> /\ p = <<p[1], p[2]>>
                                    /\ p[1] \in 1..Len(bs)
                                    /\ p[2] \in 1..Len(r[p[1]].entries)
      /\ Len(b.entries) \in Nat
  BY <1>1, Places
<1> HIDE DEF n
<1>4. ASSUME Len(b.entries) <= n PROVE places(r) \subseteq places(bs)
  <2> SUFFICES ASSUME NEW p \in places(r) PROVE p \in places(bs)
    OBVIOUS
  <2>1. p = <<p[1], p[2]>> /\ p[1] \in 1..Len(bs) /\ p[2] \in 1..Len(r[p[1]].entries)
    BY <1>3
  <2>2. CASE p[1] = i
    <3>1. p[2] \in 1..n
      BY <1>1, <1>2, <1>3, <1>4, <2>1, <2>2
    <3> QED
      BY <1>2, <2>1, <2>2, <3>1 DEF n
  <2>3. CASE p[1] # i
    <3>1. r[p[1]] = bs[p[1]]
      BY <1>1, <2>1, <2>3
    <3> QED
      BY <1>2, <2>1, <3>1
  <2> QED
    BY <2>2, <2>3
<1>5. ASSUME Len(b.entries) <= n + 1 PROVE places(r) \subseteq places(bs) \cup {<<i, n+1>>}
  <2> SUFFICES ASSUME NEW p \in places(r), p # <<i, n+1>> PROVE p \in places(bs)
    OBVIOUS
  <2>1. p = <<p[1], p[2]>> /\ p[1] \in 1..Len(bs) /\ p[2] \in 1..Len(r[p[1]].entries)
    BY <1>3
  <2>2. CASE p[1] = i
    <3>1. p[2] \in 1..(n+1) /\ p[2] # n+1
      BY <1>1, <1>2, <1>3, <1>5, <2>1, <2>2
    <3> QED
      BY <1>2, <2>1, <2>2, <3>1 DEF n
  <2>3. CASE p[1] # i
    <3>1. r[p[1]] = bs[p[1]]
      BY <1>1, <2>1, <2>3
    <3> QED
      BY <1>2, <2>1, <3>1
  <2> QED
    BY <2>2, <2>3
<1>6. ASSUME Len(b.entries) = n - 1
      PROVE  <<i, n>> \in places(bs) /\ places(r) \subseteq places(bs) \ {<<i, n>>}
  <2>1. <<i, n>> \in places(bs)
    BY <1>2, <1>3, <1>6 DEF n
  <2>2. <<i, n>> \notin places(r)
    <3>1. r[i] = b /\ ~(n <= Len(b.entries))
      BY <1>1, <1>2, <1>6
    <3> QED
      BY <1>1, <1>2, <1>3, <3>1, Places
  <2>3. Len(b.entries) <= n
    BY <1>2, <1>6
  <2> QED
    BY <1>4, <2>1, <2>2, <2>3
<1>7. Len(b.entries) <= n + 1 => node_count(r) <= node_count(bs) + 1
  <2> SUFFICES ASSUME Len(b.entries) <= n + 1 PROVE node_count(r) <= node_count(bs) + 1
    OBVIOUS
  <2>1. /\ IsFiniteSet(places(bs) \cup {<<i, n+1>>})
        /\ \/ Cardinality(places(bs) \cup {<<i, n+1>>}) = Cardinality(places(bs))
           \/ Cardinality(places(bs) \cup {<<i, n+1>>}) = Cardinality(places(bs)) + 1
    BY <1>2, FS_AddElement
  <2>2. Cardinality(places(r)) <= Cardinality(places(bs) \cup {<<i, n+1>>})
    BY <1>5, <2>1, FS_Subset
  <2> QED
    BY <1>2, <1>3, <2>1, <2>2 DEF node_count
<1>8. Len(b.entries) <= n => node_count(r) <= node_count(bs)
  BY <1>2, <1>4, FS_Subset DEF node_count
<1>9. Len(b.entries) = n - 1 => node_count(bs) >= 1 /\ node_count(r) <= node_count(bs) - 1
  <2> SUFFICES ASSUME Len(b.entries) = n - 1
               PROVE  node_count(bs) >= 1 /\ node_count(r) <= node_count(bs) - 1
    OBVIOUS
  <2>1. /\ IsFiniteSet(places(bs) \ {<<i, n>>})
        /\ Cardinality(places(bs) \ {<<i, n>>}) = Cardinality(places(bs)) - 1
    BY <1>2, <1>6, FS_RemoveElement
  <2>2. Cardinality(places(r)) <= Cardinality(places(bs) \ {<<i, n>>})
    BY <1>6, <2>1, FS_Subset
  <2> QED
    BY <1>2, <1>3, <2>1, <2>2 DEF node_count
<1> QED
  BY <1>1, <1>7, <1>8, <1>9 DEF n

\* The bucket of a target is one of the table.
LEMMA FindsBucket ==
  ASSUME NEW bs, GoodTable(bs), NEW target
  PROVE  find_bucket(bs, target) \in 1..Len(bs)
<1> DEFINE Test(b) == /\ b.prefix_len <= common_prefix_len(own_id, target)
                      /\ bucket_contains(b, target)
           I == {j \in 1..Len(bs) : Test(bs[j])}
           i == IF I # {} THEN Min(I) ELSE 0
<1>1. find_bucket(bs, target) = IF i = 0 THEN 1 ELSE i
  BY DEF find_bucket, SelectInSeq
<1>2. Len(bs) \in Nat /\ 1 \in 1..Len(bs)
  BY LenProperties DEF GoodTable
<1>3. I \in SUBSET Nat /\ I \subseteq 1..Len(bs)
  BY <1>2
<1> HIDE DEF I
<1>4. I # {} => Min(I) \in 1..Len(bs)
  BY <1>3, LeastExists
<1> QED
  BY <1>1, <1>2, <1>4

\* The list of buckets r follows bs when the entry e is taken in: it holds e,
\* nothing else that is new, and all that was live under other addresses.
TakesIn(r, bs, e) ==
  /\ Holds(r, e)
  /\ \A x : Holds(r, x) => x = e \/ Holds(bs, x)
  /\ \A x : Holds(bs, x) => x.addr = e.addr \/ Dead(x, e.last_seen) \/ Holds(r, x)

\* An attempt that succeeds takes the entry in and adds one at most; one that
\* fails changes nothing.
LEMMA Attempts ==
  ASSUME NEW bs, GoodTable(bs), NEW e \in Node, NEW r, r = attempt(bs, e)
  PROVE  /\ r.ok \in BOOLEAN /\ GoodTable(r.buckets)
         /\ r.ok => TakesIn(r.buckets, bs, e) /\ node_count(r.buckets) <= node_count(bs) + 1
         /\ ~r.ok => r.buckets = bs
<1> DEFINE i == find_bucket(bs, e.id)
<1>1. i \in 1..Len(bs)
  BY FindsBucket
<1>2. bs[i] \in Good
  BY <1>1, Places
<1>3. r = [ok |-> slot(bs[i], e) # 0,
           buckets |-> IF slot(bs[i], e) # 0 THEN ReplaceAt(bs, i, bucket_insert(bs[i], e))
                                             ELSE bs]
  BY DEF attempt
<1> HIDE DEF i
<1>4. r.ok \in BOOLEAN /\ (r.ok <=> slot(bs[i], e) # 0) /\ (~r.ok => r.buckets = bs)
  <2> DEFINE ok == slot(bs[i], e) # 0
  <2>1. ok \in BOOLEAN
    OBVIOUS
  <2>2. r.ok = ok /\ r.buckets = IF ok THEN ReplaceAt(bs, i, bucket_insert(bs[i], e)) ELSE bs
    BY <1>3
  <2>3. ok <=> slot(bs[i], e) # 0
    OBVIOUS
  <2> HIDE DEF ok
  <2> QED
    BY <2>1, <2>2, <2>3
<1>5. ASSUME r.ok
      PROVE  /\ GoodTable(r.buckets) /\ TakesIn(r.buckets, bs, e)
             /\ node_count(r.buckets) <= node_count(bs) + 1
  <2>0. slot(bs[i], e) # 0
    BY <1>4, <1>5
  <2> DEFINE b == bucket_insert(bs[i], e)
  <2>1. r.buckets = ReplaceAt(bs, i, b)
    BY <1>3, <2>0
  <2>2. /\ b \in Good
        /\ Len(b.entries) <= Len(bs[i].entries) + 1
        /\ \E k \in 1..Len(b.entries) : b.entries[k] = e
        /\ \A k \in 1..Len(b.entries) :
             b.entries[k] = e \/ \E j \in 1..Len(bs[i].entries) : b.entries[k] = bs[i].entries[j]
        /\ \A j \in 1..Len(bs[i].entries) :
             \/ bs[i].entries[j].addr = e.addr \/ Dead(bs[i].entries[j], e.last_seen)
             \/ \E k \in 1..Len(b.entries) : b.entries[k] = bs[i].entries[j]
    BY <1>2, <2>0, InsertInBucket
  <2> HIDE DEF b
  <2> DEFINE n == r.buckets
  <2>3. /\ GoodTable(n) /\ Len(n) = Len(bs)
        /\ \A m \in 1..Len(bs) : n[m] = IF m = i THEN b ELSE bs[m]
        /\ node_count(n) <= node_count(bs) + 1
    BY <1>1, <2>1, <2>2, ReplaceBucket
  <2> HIDE DEF n
  <2>4. Holds(n, e)
    BY <1>1, <2>2, <2>3 DEF Holds
  <2>5. ASSUME NEW x, Holds(n, x) PROVE x = e \/ Holds(bs, x)
    <3>1. PICK m \in 1..Len(n) : \E j \in 1..Len(n[m].entries) : n[m].entries[j] = x
      BY <2>5 DEF Holds
    <3>2. CASE m = i
      <4>1. n[m] = b
        BY <1>1, <2>3, <3>2
      <4>2. PICK j \in 1..Len(b.entries) : b.entries[j] = x
        BY <3>1, <4>1
      <4>3. x = e \/ \E k \in 1..Len(bs[i].entries) : bs[i].entries[k] = x
        BY <2>2, <4>2
      <4> QED
        BY <1>1, <4>3 DEF Holds
    <3>3. CASE m # i
      BY <2>3, <3>1, <3>3 DEF Holds
    <3> QED
      BY <3>2, <3>3
  <2>6. ASSUME NEW x, Holds(bs, x) PROVE x.addr = e.addr \/ Dead(x, e.last_seen) \/ Holds(n, x)
    <3>1. PICK m \in 1..Len(bs) : \E j \in 1..Len(bs[m].entries) : bs[m].entries[j] = x
      BY <2>6 DEF Holds
    <3>2. CASE m = i
      <4>1. n[i] = b
        BY <1>1, <2>3
      <4>2. PICK j \in 1..Len(bs[i].entries) : bs[i].entries[j] = x
        BY <3>1, <3>2
      <4>3. \/ x.addr = e.addr \/ Dead(x, e.last_seen)
            \/ \E k \in 1..Len(b.entries) : b.entries[k] = x
        BY <2>2, <4>2
      <4> QED
        BY <1>1, <2>3, <4>1, <4>3 DEF Holds
    <3>3. CASE m # i
      BY <2>3, <3>1, <3>3 DEF Holds
    <3> QED
      BY <3>2, <3>3
  <2> QED
    BY <2>3, <2>4, <2>5, <2>6 DEF TakesIn, n
<1> QED
  BY <1>4, <1>5

\* The buckets N and F share out the entries of b.
Shared(N, F, b) ==
  /\ N \in Good /\ F \in Good
  /\ Len(N.entries) + Len(F.entries) = Len(b.entries)
  /\ \A k \in 1..Len(N.entries) : \E j \in 1..Len(b.entries) : N.entries[k] = b.entries[j]
  /\ \A k \in 1..Len(F.entries) : \E j \in 1..Len(b.entries) : F.entries[k] = b.entries[j]
  /\ \A j \in 1..Len(b.entries) :
       \/ \E k \in 1..Len(N.entries) : N.entries[k] = b.entries[j]
       \/ \E k \in 1..Len(F.entries) : F.entries[k] = b.entries[j]

\* The two halves of a split share what was in the bucket.
LEMMA RetainShares ==
  ASSUME NEW b \in Good, NEW prefix \in Nat, NEW near \in SUBSET (1..Len(b.entries))
  PROVE  Shared([prefix_len |-> prefix, entries |-> retain(b.entries, near)],
                [prefix_len |-> prefix,
                 entries |-> retain(b.entries, (1..Len(b.entries)) \ near)], b)
<1> DEFINE s == b.entries
           far == (1..Len(s)) \ near
           n == retain(s, near)
           f == retain(s, far)
           N == [prefix_len |-> prefix, entries |-> n]
           F == [prefix_len |-> prefix, entries |-> f]
<1>1. /\ s \in Seq(Node) /\ Len(s) \in Nat /\ Len(s) <= K /\ InOrder(s) /\ Distinct(s)
      /\ K \in Nat
  BY LenProperties, RoutingTableAssumption DEF Good
<1>2. near \in SUBSET (1..Len(s))
  OBVIOUS
<1> HIDE DEF s
<1>3. far \in SUBSET (1..Len(s)) /\ \A j \in 1..Len(s) : j \in near \/ j \in far
  OBVIOUS
<1>4. Cardinality(near) + Cardinality(far) = Len(s)
  <2>1. IsFiniteSet(1..Len(s)) /\ Cardinality(1..Len(s)) = Len(s)
    BY <1>1, OneTo
  <2>2. Cardinality(far) = Len(s) - Cardinality((1..Len(s)) \cap near)
    BY <2>1, FS_Difference
  <2>3. (1..Len(s)) \cap near = near
    BY <1>2
  <2>4. Cardinality(near) \in Nat
    BY <1>2, <2>1, FS_Subset, FS_CardinalityType
  <2>5. Cardinality(far) = Len(s) - Cardinality(near)
    BY <2>2, <2>3, Zenon
  <2> HIDE DEF far
  <2> QED
    BY <1>1, <2>4, <2>5
<1> HIDE DEF far, n, f
<1>5. /\ n \in Seq(Node) /\ Len(n) = Cardinality(near)
      /\ Len(n) <= Len(s) /\ InOrder(n) /\ Distinct(n)
      /\ \A k \in 1..Len(n) : \E j \in near : n[k] = s[j]
      /\ \A j \in near : \E k \in 1..Len(n) : n[k] = s[j]
  BY <1>1, <1>2, RetainKeeps DEF n
<1>6. /\ f \in Seq(Node) /\ Len(f) = Cardinality(far)
      /\ Len(f) <= Len(s) /\ InOrder(f) /\ Distinct(f)
      /\ \A k \in 1..Len(f) : \E j \in far : f[k] = s[j]
      /\ \A j \in far : \E k \in 1..Len(f) : f[k] = s[j]
  BY <1>1, <1>3, RetainKeeps DEF f
<1>7. Len(n) \in Nat /\ Len(f) \in Nat
  BY <1>5, <1>6, LenProperties
<1>8. N \in Good /\ F \in Good
  BY <1>1, <1>5, <1>6, <1>7 DEF Good
<1>9. N.entries = n /\ F.entries = f
  OBVIOUS
<1> HIDE DEF N, F
<1>10. Shared(N, F, b)
  <2>1. \A k \in 1..Len(n) : \E j \in 1..Len(s) : n[k] = s[j]
    BY <1>2, <1>5
  <2>2. \A k \in 1..Len(f) : \E j \in 1..Len(s) : f[k] = s[j]
    BY <1>3, <1>6
  <2>3. \A j \in 1..Len(s) : \/ \E k \in 1..Len(n) : n[k] = s[j]
                             \/ \E k \in 1..Len(f) : f[k] = s[j]
    BY <1>3, <1>5, <1>6
  <2>4. Len(n) + Len(f) = Len(s)
    BY <1>4, <1>5, <1>6
  <2> QED
    BY <1>8, <1>9, <2>1, <2>2, <2>3, <2>4 DEF Shared, s
<1> QED
  BY <1>10 DEF N, F, n, f, far, s

\* A bucket put into a list of buckets moves those behind it.
LEMMA InsertsAt ==
  ASSUME NEW s \in Seq(Good), NEW i \in 1..(Len(s)+1), NEW e \in Good
  PROVE  LET r == InsertAt(s, i, e)
         IN  /\ r \in Seq(Good) /\ Len(r) = Len(s) + 1
             /\ \A k \in 1..Len(r) : r[k] = IF k < i THEN s[k] ELSE IF k = i THEN e ELSE s[k-1]
<1> DEFINE r == InsertAt(s, i, e)
           a == SubSeq(s, 1, i-1)
           c == SubSeq(s, i, Len(s))
<1>1. Len(s) \in Nat /\ \A k \in 1..Len(s) : s[k] \in Good
  BY LenProperties, ElementOfSeq
<1>2. a \in Seq(Good) /\ Len(a) = i - 1 /\ \A k \in 1..(i-1) : a[k] = s[k]
  BY <1>1, SubSeqProperties
<1>3. /\ c \in Seq(Good) /\ Len(c) = Len(s) - i + 1
      /\ \A k \in 1..(Len(s)-i+1) : c[k] = s[i+k-1]
  BY <1>1, SubSeqProperties
<1>4. <<e>> \in Seq(Good) /\ Len(<<e>>) = 1 /\ <<e>>[1] = e
  OBVIOUS
<1> DEFINE ae == a \o <<e>>
<1> HIDE DEF a, c
<1>5. /\ ae \in Seq(Good) /\ Len(ae) = i
      /\ \A k \in 1..i : ae[k] = IF k < i THEN a[k] ELSE e
  BY <1>1, <1>2, <1>4, ConcatProperties
<1>6. r = ae \o c
  BY DEF InsertAt, a, c
<1> HIDE DEF ae, r
<1>7. /\ r \in Seq(Good) /\ Len(r) = Len(s) + 1
      /\ \A k \in 1..(Len(s) + 1) : r[k] = IF k <= i THEN ae[k] ELSE c[k-i]
  BY <1>1, <1>3, <1>5, <1>6, ConcatProperties
<1>8. ASSUME NEW k \in 1..(Len(s) + 1), k > i PROVE c[k-i] = s[k-1]
  <2>1. k-i \in 1..(Len(s)-i+1) /\ i+(k-i)-1 = k-1
    BY <1>1, <1>8
  <2> QED
    BY <1>3, <2>1
<1>9. ASSUME NEW k \in 1..(Len(s) + 1)
      PROVE  r[k] = IF k < i THEN s[k] ELSE IF k = i THEN e ELSE s[k-1]
  <2>1. CASE k < i
    <3>1. k \in 1..i /\ k \in 1..(i-1) /\ k <= i
      BY <1>1, <2>1
    <3> QED
      BY <1>2, <1>5, <1>7, <2>1, <3>1
  <2>2. CASE k = i
    BY <1>1, <1>5, <1>7, <2>2
  <2>3. CASE k > i
    BY <1>1, <1>7, <1>8, <2>3
  <2> QED
    BY <1>1, <2>1, <2>2, <2>3
<1> QED
  BY <1>1, <1>7, <1>9 DEF r

\* r is bs with the bucket i in two: N at q, F where the bucket was.
Split(r, bs, i, q, N, F) ==
  /\ GoodTable(r) /\ Len(r) = Len(bs) + 1
  /\ \A k \in 1..(Len(bs) + 1) :
       r[k] = IF k = q THEN N
              ELSE IF (IF k < q THEN k ELSE k - 1) = i THEN F
              ELSE bs[IF k < q THEN k ELSE k - 1]

\* split_bucket replaces the bucket by the far half and inserts the near one.
LEMMA InsertSplits ==
  ASSUME NEW bs, GoodTable(bs), NEW i \in 1..Len(bs), NEW q \in 1..(Len(bs) + 1),
         NEW N \in Good, NEW F \in Good
  PROVE  Split(InsertAt(ReplaceAt(bs, i, F), q, N), bs, i, q, N, F)
<1> DEFINE old == ReplaceAt(bs, i, F)
           r == InsertAt(old, q, N)
<1>0. Len(bs) \in Nat /\ Len(bs) >= 1
  BY Places DEF GoodTable
<1>1. /\ GoodTable(old) /\ Len(old) = Len(bs)
      /\ \A m \in 1..Len(bs) : old[m] = IF m = i THEN F ELSE bs[m]
  <2>1. PICK m : m = old
    OBVIOUS
  <2> HIDE DEF old
  <2>2. m = ReplaceAt(bs, i, F)
    BY <2>1 DEF old
  <2> QED
    BY <2>1, <2>2, ReplaceBucket
<1> HIDE DEF old
<1>2. /\ r \in Seq(Good) /\ Len(r) = Len(bs) + 1
      /\ \A k \in 1..Len(r) : r[k] = IF k < q THEN old[k] ELSE IF k = q THEN N ELSE old[k-1]
  <2>1. old \in Seq(Good) /\ q \in 1..(Len(old) + 1)
    BY <1>1 DEF GoodTable
  <2> QED
    BY <1>1, <2>1, InsertsAt
<1> HIDE DEF r
<1>3. GoodTable(r)
  BY <1>0, <1>2 DEF GoodTable
<1>4. ASSUME NEW k \in 1..(Len(bs) + 1), k # q
      PROVE  /\ (IF k < q THEN k ELSE k - 1) \in 1..Len(bs)
             /\ r[k] = old[IF k < q THEN k ELSE k - 1]
  BY <1>0, <1>2, <1>4
<1>5. ASSUME NEW k \in 1..(Len(bs) + 1)
      PROVE  r[k] = IF k = q THEN N
                    ELSE IF (IF k < q THEN k ELSE k - 1) = i THEN F
                    ELSE bs[IF k < q THEN k ELSE k - 1]
  <2>1. CASE k = q
    BY <1>0, <1>2, <2>1
  <2>2. CASE k # q
    <3> DEFINE m == IF k < q THEN k ELSE k - 1
    <3>1. m \in 1..Len(bs) /\ r[k] = old[m]
      BY <1>4, <2>2
    <3> HIDE DEF m
    <3>2. r[k] = IF m = i THEN F ELSE bs[m]
      BY <1>1, <3>1
    <3> QED
      BY <2>2, <3>2 DEF m
  <2> QED
    BY <2>1, <2>2
<1> QED
  BY <1>2, <1>3, <1>5 DEF Split, r, old

\* A split loses no entry and doubles none.
LEMMA SplitKeeps ==
  ASSUME NEW bs, GoodTable(bs), NEW i \in 1..Len(bs), NEW q \in 1..(Len(bs) + 1),
         NEW N, NEW F, Shared(N, F, bs[i]), NEW r, Split(r, bs, i, q, N, F)
  PROVE  /\ node_count(r) <= node_count(bs)
         /\ \A x : Holds(r, x) <=> Holds(bs, x)
<1> DEFINE s == bs[i].entries
           h == [k \in 1..(Len(bs) + 1) |-> IF k < q THEN k ELSE k - 1]
           n == Len(N.entries)
<1>1. /\ Len(bs) \in Nat /\ Len(r) = Len(bs) + 1 /\ GoodTable(r)
      /\ Len(s) \in Nat /\ n \in Nat /\ Len(F.entries) \in Nat /\ n + Len(F.entries) = Len(s)
  <2>1. Len(bs) \in Nat /\ Len(s) \in Nat
    BY Places
  <2>2. N.entries \in Seq(Node) /\ F.entries \in Seq(Node)
    BY DEF Shared, Good
  <2> QED
    BY <2>1, <2>2, LenProperties DEF Split, Shared
\* Where the buckets of r were in bs, but for the new one.
<1>2. /\ \A k \in 1..(Len(bs) + 1) : k # q =>
           h[k] \in 1..Len(bs) /\ r[k] = IF h[k] = i THEN F ELSE bs[h[k]]
      /\ r[q] = N
  BY <1>1 DEF Split
<1>3. \A m \in 1..Len(bs) : \E k \in 1..(Len(bs) + 1) : k # q /\ h[k] = m
  <2> TAKE m \in 1..Len(bs)
  <2>1. CASE m < q
    <3>1. m \in 1..(Len(bs) + 1) /\ m # q /\ h[m] = m
      BY <1>1, <2>1
    <3> QED
      BY <3>1
  <2>2. CASE m >= q
    <3>1. m + 1 \in 1..(Len(bs) + 1) /\ m + 1 # q /\ h[m+1] = m
      BY <1>1, <2>2
    <3> QED
      BY <3>1
  <2> QED
    BY <1>1, <2>1, <2>2
<1>4. \A j, k \in 1..(Len(bs) + 1) : j # q /\ k # q /\ h[j] = h[k] => j = k
  BY <1>1
<1> HIDE DEF h, n, s
<1>5. /\ \A k \in 1..n : \E j \in 1..Len(s) : N.entries[k] = s[j]
      /\ \A k \in 1..Len(F.entries) : \E j \in 1..Len(s) : F.entries[k] = s[j]
      /\ \A j \in 1..Len(s) : \/ \E k \in 1..n : N.entries[k] = s[j]
                              \/ \E k \in 1..Len(F.entries) : F.entries[k] = s[j]
  BY DEF Shared, s, n
<1>6. ASSUME NEW x, Holds(r, x) PROVE Holds(bs, x)
  <2>1. PICK k \in 1..(Len(bs) + 1) : \E j \in 1..Len(r[k].entries) : r[k].entries[j] = x
    BY <1>1, <1>6 DEF Holds
  <2>2. CASE k = q
    <3>1. PICK j \in 1..n : N.entries[j] = x
      BY <1>2, <2>1, <2>2 DEF n
    <3>2. PICK l \in 1..Len(s) : s[l] = x
      BY <1>5, <3>1
    <3> QED
      BY <3>2 DEF Holds, s
  <2>3. CASE k # q /\ h[k] = i
    <3>1. PICK j \in 1..Len(F.entries) : F.entries[j] = x
      BY <1>2, <2>1, <2>3
    <3>2. PICK l \in 1..Len(s) : s[l] = x
      BY <1>5, <3>1
    <3> QED
      BY <3>2 DEF Holds, s
  <2>4. CASE k # q /\ h[k] # i
    <3>1. h[k] \in 1..Len(bs) /\ r[k] = bs[h[k]]
      BY <1>2, <2>4
    <3> QED
      BY <2>1, <3>1 DEF Holds
  <2> QED
    BY <2>2, <2>3, <2>4
<1>7. ASSUME NEW x, Holds(bs, x) PROVE Holds(r, x)
  <2>1. PICK m \in 1..Len(bs) : \E j \in 1..Len(bs[m].entries) : bs[m].entries[j] = x
    BY <1>7 DEF Holds
  <2>2. PICK k \in 1..(Len(bs) + 1) : k # q /\ h[k] = m
    BY <1>3
  <2>3. CASE m # i
    <3>1. r[k] = bs[m]
      BY <1>2, <2>2, <2>3
    <3> QED
      BY <1>1, <2>1, <3>1 DEF Holds
  <2>4. CASE m = i
    <3>1. PICK j \in 1..Len(s) : s[j] = x
      BY <2>1, <2>4 DEF s
    <3>2. CASE \E l \in 1..n : N.entries[l] = s[j]
      <4>1. q \in 1..Len(r) /\ r[q] = N
        BY <1>1, <1>2
      <4> QED
        BY <3>1, <3>2, <4>1 DEF Holds, n
    <3>3. CASE \E l \in 1..Len(F.entries) : F.entries[l] = s[j]
      <4>1. k \in 1..Len(r) /\ r[k] = F
        BY <1>1, <1>2, <2>2, <2>4
      <4> QED
        BY <3>1, <3>3, <4>1 DEF Holds
    <3> QED
      BY <1>5, <3>2, <3>3
  <2> QED
    BY <2>3, <2>4
\* A place in bs for each of r.
<1> DEFINE from(p) == IF p[1] = q THEN i ELSE h[p[1]]
           at(p) == IF p[1] # q /\ h[p[1]] = i THEN n + p[2] ELSE p[2]
           f == [p \in places(r) |-> <<from(p), at(p)>>]
<1>8. ASSUME NEW p \in places(r)
      PROVE  /\ p = <<p[1], p[2]>> /\ p[1] \in 1..(Len(bs) + 1) /\ p[2] \in Nat \ {0}
             /\ p[1] = q => p[2] \in 1..n
             /\ p[1] # q /\ h[p[1]] = i => p[2] \in 1..Len(F.entries)
             /\ p[1] # q /\ h[p[1]] # i =>
                  h[p[1]] \in 1..Len(bs) /\ p[2] \in 1..Len(bs[h[p[1]]].entries)
  <2>1. p = <<p[1], p[2]>> /\ p[1] \in 1..(Len(bs) + 1) /\ p[2] \in 1..Len(r[p[1]].entries)
    BY <1>1, Places
  <2>2. p[2] \in Nat \ {0}
    BY <1>1, <2>1, Places
  <2> QED
    BY <1>2, <2>1, <2>2 DEF n
<1>9. ASSUME NEW p \in places(r) PROVE <<from(p), at(p)>> \in places(bs)
  <2>1. CASE p[1] = q
    <3>1. p[2] \in 1..Len(s)
      BY <1>1, <1>8, <2>1
    <3> QED
      BY <2>1, <3>1, Places DEF s
  <2>2. CASE p[1] # q /\ h[p[1]] = i
    <3>1. p[2] \in 1..Len(F.entries) /\ n \in Nat
      BY <1>1, <1>8, <2>2
    <3>2. n + Len(F.entries) = Len(s) /\ Len(F.entries) \in Nat
      BY <1>1
    <3>3. n + p[2] \in 1..Len(s)
      BY <3>1, <3>2
    <3> QED
      BY <2>2, <3>3, Places DEF s
  <2>3. CASE p[1] # q /\ h[p[1]] # i
    BY <1>8, <2>3, Places
  <2> QED
    BY <2>1, <2>2, <2>3
<1>10. ASSUME NEW p \in places(r), NEW t \in places(r), from(p) = from(t), at(p) = at(t)
       PROVE  p = t
  <2>1. p[1] = t[1]
    <3>1. CASE p[1] = q /\ t[1] # q
      <4>1. h[t[1]] = i /\ p[2] = n + t[2]
        BY <1>10, <3>1
      <4> QED
        BY <1>1, <1>8, <3>1, <4>1
    <3>2. CASE p[1] # q /\ t[1] = q
      <4>1. h[p[1]] = i /\ t[2] = n + p[2]
        BY <1>10, <3>2
      <4> QED
        BY <1>1, <1>8, <3>2, <4>1
    <3>3. CASE p[1] # q /\ t[1] # q
      <4>1. h[p[1]] = h[t[1]]
        BY <1>10, <3>3
      <4> QED
        BY <1>4, <1>8, <3>3, <4>1
    <3> QED
      BY <3>1, <3>2, <3>3
  <2>2. p[2] = t[2]
    <3>1. p[2] \in Nat /\ t[2] \in Nat
      BY <1>8
    <3> QED
      BY <1>1, <1>10, <2>1, <3>1
  <2> QED
    BY <1>8, <2>1, <2>2
<1> HIDE DEF from, at
<1>11. f \in Injection(places(r), places(bs))
  <2>1. f \in [places(r) -> places(bs)]
    BY <1>9
  <2>2. \A p, t \in places(r) : f[p] = f[t] => p = t
    <3> SUFFICES ASSUME NEW p \in places(r), NEW t \in places(r), f[p] = f[t] PROVE p = t
      OBVIOUS
    <3>1. <<from(p), at(p)>> = <<from(t), at(t)>>
      OBVIOUS
    <3>2. from(p) = from(t) /\ at(p) = at(t)
      BY <3>1
    <3> QED
      BY <1>10, <3>2
  <2> HIDE DEF f
  <2> QED
    BY <2>1, <2>2, Fun_IsInj
<1> HIDE DEF f
<1>12. node_count(r) <= node_count(bs)
  <2>1. IsFiniteSet(places(bs))
    BY Places
  <2> QED
    BY <1>11, <2>1, FS_Injection DEF node_count
<1> QED
  BY <1>6, <1>7, <1>12

\* A split moves entries between buckets, and neither adds nor drops one.
LEMMA Splits ==
  ASSUME NEW bs, GoodTable(bs), NEW i \in 1..Len(bs), NEW r, r = split_bucket(bs, i)
  PROVE  /\ GoodTable(r) /\ node_count(r) <= node_count(bs)
         /\ \A x : Holds(r, x) <=> Holds(bs, x)
<1> DEFINE prefix == bs[i].prefix_len + 1
           s == bs[i].entries
           near == {j \in DOMAIN s : common_prefix_len(own_id, s[j].id) >= prefix}
           N == [prefix_len |-> prefix, entries |-> retain(s, near)]
           F == [prefix_len |-> prefix, entries |-> retain(s, DOMAIN s \ near)]
           old == ReplaceAt(bs, i, F)
           pos == SelectInSeq(old, LAMBDA b : b.prefix_len > prefix)
           q == IF pos = 0 THEN Len(old) + 1 ELSE pos
<1>1. CASE ~bucket_contains(bs[i], own_id) \/ bs[i].prefix_len >= MaxBuckets - 1
  <2>1. r = bs
    BY <1>1 DEF split_bucket
  <2>2. node_count(bs) \in Nat
    BY Places
  <2> QED
    BY <2>1, <2>2
<1>2. CASE ~(~bucket_contains(bs[i], own_id) \/ bs[i].prefix_len >= MaxBuckets - 1)
  <2>1. r = InsertAt(old, q, N)
    BY <1>2 DEF split_bucket
  <2>2. /\ bs[i] \in Good /\ prefix \in Nat /\ Len(bs) \in Nat
        /\ s \in Seq(Node) /\ DOMAIN s = 1..Len(s)
    <3>1. bs[i] \in Good /\ bs[i].entries \in Seq(Node) /\ bs[i].prefix_len \in Nat /\ Len(bs) \in Nat
      BY Places
    <3> QED
      BY <3>1, LenProperties
  <2>3. near \in SUBSET (1..Len(s))
    BY <2>2
  <2> HIDE DEF near, prefix
  <2>4. Shared(N, F, bs[i])
    BY <2>2, <2>3, RetainShares
  <2> HIDE DEF N, F
  <2>5. N \in Good /\ F \in Good
    BY <2>4 DEF Shared
  <2>6. old = ReplaceAt(bs, i, F)
    OBVIOUS
  <2> HIDE DEF old
  <2>7. Len(old) = Len(bs)
    BY <2>5, <2>6, ReplaceBucket
  <2>8. q \in 1..(Len(bs) + 1)
    <3> DEFINE I == {j \in 1..Len(old) : old[j].prefix_len > prefix}
    <3>1. pos = IF I # {} THEN Min(I) ELSE 0
      BY DEF SelectInSeq
    <3>2. I \in SUBSET Nat /\ I \subseteq 1..Len(bs)
      BY <2>2, <2>7
    <3> HIDE DEF I, pos
    <3>3. I # {} => Min(I) \in 1..Len(bs)
      BY <3>2, LeastExists
    <3> QED
      BY <2>2, <2>7, <3>1, <3>3
  <2> HIDE DEF q
  <2>9. Split(r, bs, i, q, N, F)
    BY <2>1, <2>5, <2>6, <2>8, InsertSplits
  <2>10. GoodTable(r)
    BY <2>9 DEF Split
  <2> QED
    BY <2>4, <2>8, <2>9, <2>10, SplitKeeps
<1> QED
  BY <1>1, <1>2

\* insert_entry takes the entry in or, when even the split does not help,
\* leaves the entries as they are.
LEMMA InsertsEntry ==
  ASSUME NEW bs, GoodTable(bs), NEW e \in Node, NEW r, r = insert_entry(bs, e)
  PROVE  /\ r.ok \in BOOLEAN /\ GoodTable(r.buckets)
         /\ r.ok => TakesIn(r.buckets, bs, e) /\ node_count(r.buckets) <= node_count(bs) + 1
         /\ ~r.ok => /\ node_count(r.buckets) <= node_count(bs)
                     /\ \A x : Holds(r.buckets, x) <=> Holds(bs, x)
<1> DEFINE i == find_bucket(bs, e.id)
           first == attempt(bs, e)
           half == split_bucket(bs, i)
           second == attempt(half, e)
<1>1. /\ first.ok \in BOOLEAN /\ GoodTable(first.buckets)
      /\ first.ok => /\ TakesIn(first.buckets, bs, e)
                     /\ node_count(first.buckets) <= node_count(bs) + 1
      /\ ~first.ok => first.buckets = bs
  BY Attempts
<1>2. GoodTable(half) /\ node_count(half) <= node_count(bs) /\ \A x : Holds(half, x) <=> Holds(bs, x)
  BY FindsBucket, Splits
<1> HIDE DEF half, first
<1>3. /\ second.ok \in BOOLEAN /\ GoodTable(second.buckets)
      /\ second.ok => /\ TakesIn(second.buckets, half, e)
                      /\ node_count(second.buckets) <= node_count(half) + 1
      /\ ~second.ok => second.buckets = half
  BY <1>2, Attempts
<1>4. r = IF first.ok \/ ~bucket_contains(bs[i], own_id) THEN first ELSE second
  BY DEF insert_entry, first, half
<1> HIDE DEF second
<1>5. node_count(bs) \in Nat /\ node_count(half) \in Nat /\ node_count(second.buckets) \in Nat
  BY <1>2, <1>3, Places
<1>6. CASE r = first
  BY <1>1, <1>5, <1>6
<1>7. CASE r = second
  <2>1. second.ok => TakesIn(second.buckets, bs, e)
    BY <1>2, <1>3 DEF TakesIn
  <2> QED
    BY <1>2, <1>3, <1>5, <1>7, <2>1
<1> QED
  BY <1>4, <1>6, <1>7

-----------------------------------------------------------------------------
(* The invariants.                                                         *)

TableInv == GoodTable(buckets) /\ total_nodes \in Nat /\ now \in Nat

\* The entries of all_nodes are those the buckets hold.
LEMMA HeldEntries ==
  ASSUME NEW bs, GoodTable(bs)
  PROVE  \A x : x \in {bs[p[1]].entries[p[2]] : p \in places(bs)} <=> Holds(bs, x)
<1>1. ASSUME NEW p \in places(bs) PROVE Holds(bs, bs[p[1]].entries[p[2]])
  <2>1. p[1] \in 1..Len(bs) /\ p[2] \in 1..Len(bs[p[1]].entries)
    BY Places
  <2> QED
    BY <2>1 DEF Holds
<1>2. ASSUME NEW x, Holds(bs, x)
      PROVE  \E p \in places(bs) : bs[p[1]].entries[p[2]] = x
  <2>1. PICK i \in 1..Len(bs) : \E j \in 1..Len(bs[i].entries) : bs[i].entries[j] = x
    BY <1>2 DEF Holds
  <2>2. PICK j \in 1..Len(bs[i].entries) : bs[i].entries[j] = x
    BY <2>1
  <2>3. <<i, j>> \in places(bs)
    BY Places
  <2> QED
    BY <2>2, <2>3
<1> QED
  BY <1>1, <1>2

\* The bucket found for an address has it.
LEMMA FindsHolder ==
  ASSUME TableInv, NEW addr, NEW i, i = holder(addr), i # 0
  PROVE  i \in 1..Len(buckets) /\ bucket_find(buckets[i], addr) # 0 /\ buckets[i] \in Good
<1> DEFINE I == {j \in 1..Len(buckets) : bucket_find(buckets[j], addr) # 0}
<1>1. i = IF I # {} THEN Min(I) ELSE 0
  BY DEF holder, SelectInSeq
<1>2. I \in SUBSET Nat
  BY Places DEF TableInv
<1>3. I # {} /\ Min(I) \in I
  BY <1>1, <1>2, LeastExists
<1> QED
  BY <1>1, <1>3, Places DEF TableInv

\* What is inserted is an entry.
LEMMA NewEntry ==
  ASSUME TableInv, NEW n \in Nodes
  PROVE  /\ new_entry(n[1], n[2]) \in Node
         /\ new_entry(n[1], n[2]).addr = n[2] /\ new_entry(n[1], n[2]).last_seen = now
BY DEF TableInv, new_entry, Node, Id, Addr

\* What evict makes of the buckets.
LEMMA Evicts ==
  ASSUME TableInv, NEW r, r = [i \in DOMAIN buckets |-> bucket_evict(buckets[i])]
  PROVE  /\ GoodTable(r)
         /\ \A x : Holds(buckets, x) => Dead(x, now) \/ Holds(r, x)
         /\ \A x : Holds(r, x) => Holds(buckets, x)
<1>1. /\ Len(buckets) \in Nat /\ Len(buckets) >= 1 /\ DOMAIN buckets = 1..Len(buckets)
      /\ \A i \in 1..Len(buckets) : buckets[i] \in Good
  BY Places DEF TableInv, GoodTable
<1>2. ASSUME NEW i \in 1..Len(buckets)
      PROVE  /\ r[i] \in Good
             /\ \A k \in 1..Len(r[i].entries) :
                  \E j \in 1..Len(buckets[i].entries) : r[i].entries[k] = buckets[i].entries[j]
             /\ \A j \in 1..Len(buckets[i].entries) :
                  \/ Dead(buckets[i].entries[j], now)
                  \/ \E k \in 1..Len(r[i].entries) : r[i].entries[k] = buckets[i].entries[j]
  <2>1. r[i] = bucket_evict(buckets[i])
    BY <1>1
  <2> QED
    BY <1>1, <2>1, EvictInBucket
<1>3. GoodTable(r) /\ Len(r) = Len(buckets)
  <2>1. r \in [1..Len(buckets) -> Good]
    <3>1. r = [i \in 1..Len(buckets) |-> r[i]]
      BY <1>1
    <3> QED
      BY <1>2, <3>1
  <2>2. r \in Seq(Good)
    BY <1>1, <2>1, SeqDef
  <2>3. Len(r) = Len(buckets)
    BY <1>1, <2>1, <2>2, LenProperties
  <2> QED
    BY <1>1, <2>2, <2>3 DEF GoodTable
<1>4. ASSUME NEW x, Holds(buckets, x), ~Dead(x, now) PROVE Holds(r, x)
  <2>1. PICK i \in 1..Len(buckets) :
          \E j \in 1..Len(buckets[i].entries) : buckets[i].entries[j] = x
    BY <1>4 DEF Holds
  <2>2. \E k \in 1..Len(r[i].entries) : r[i].entries[k] = x
    <3>1. PICK j \in 1..Len(buckets[i].entries) : buckets[i].entries[j] = x
      BY <2>1
    <3>2. \/ Dead(buckets[i].entries[j], now)
          \/ \E k \in 1..Len(r[i].entries) : r[i].entries[k] = buckets[i].entries[j]
      BY <1>2
    <3> QED
      BY <1>4, <3>1, <3>2
  <2> QED
    BY <1>3, <2>2 DEF Holds
<1>5. ASSUME NEW x, Holds(r, x) PROVE Holds(buckets, x)
  <2>1. PICK i \in 1..Len(buckets) : \E k \in 1..Len(r[i].entries) : r[i].entries[k] = x
    BY <1>3, <1>5 DEF Holds
  <2>2. PICK k \in 1..Len(r[i].entries) : r[i].entries[k] = x
    BY <2>1
  <2>3. PICK j \in 1..Len(buckets[i].entries) : r[i].entries[k] = buckets[i].entries[j]
    BY <1>2
  <2> QED
    BY <2>2, <2>3 DEF Holds
<1> QED
  BY <1>3, <1>4, <1>5

\* What an operation on the bucket that knows the address makes of the table.
LEMMA Patches ==
  ASSUME NEW bs, GoodTable(bs), NEW i \in 1..Len(bs), NEW b \in Good, NEW r, r = ReplaceAt(bs, i, b)
  PROVE  /\ GoodTable(r)
         /\ Len(b.entries) <= Len(bs[i].entries) => node_count(r) <= node_count(bs)
         /\ Len(b.entries) = Len(bs[i].entries) - 1 =>
              node_count(bs) >= 1 /\ node_count(r) <= node_count(bs) - 1
         /\ \A x : Holds(bs, x) =>
              \/ Holds(r, x)
              \/ \E j \in 1..Len(bs[i].entries) : bs[i].entries[j] = x
         /\ \A k \in 1..Len(b.entries) : Holds(r, b.entries[k])
         /\ \A x : Holds(r, x) =>
              Holds(bs, x) \/ \E k \in 1..Len(b.entries) : b.entries[k] = x
<1>1. /\ GoodTable(r) /\ Len(r) = Len(bs)
      /\ \A m \in 1..Len(bs) : r[m] = IF m = i THEN b ELSE bs[m]
      /\ Len(b.entries) <= Len(bs[i].entries) => node_count(r) <= node_count(bs)
      /\ Len(b.entries) = Len(bs[i].entries) - 1 =>
           node_count(bs) >= 1 /\ node_count(r) <= node_count(bs) - 1
  BY ReplaceBucket
<1>2. ASSUME NEW x, Holds(bs, x), ~Holds(r, x)
      PROVE  \E j \in 1..Len(bs[i].entries) : bs[i].entries[j] = x
  <2>1. PICK m \in 1..Len(bs) :
          \E j \in 1..Len(bs[m].entries) : bs[m].entries[j] = x
    BY <1>2 DEF Holds
  <2>2. CASE m # i
    BY <1>1, <1>2, <2>1, <2>2 DEF Holds
  <2> QED
    BY <2>1, <2>2
<1>3. \A k \in 1..Len(b.entries) : Holds(r, b.entries[k])
  <2>1. i \in 1..Len(r) /\ r[i] = b
    BY <1>1
  <2> QED
    BY <2>1 DEF Holds
<1>4. ASSUME NEW x, Holds(r, x), ~Holds(bs, x)
      PROVE  \E k \in 1..Len(b.entries) : b.entries[k] = x
  <2>1. PICK m \in 1..Len(bs) : \E k \in 1..Len(r[m].entries) : r[m].entries[k] = x
    BY <1>1, <1>4 DEF Holds
  <2>2. CASE m # i
    BY <1>1, <1>4, <2>1, <2>2 DEF Holds
  <2>3. CASE m = i
    BY <1>1, <2>1, <2>3
  <2> QED
    BY <2>2, <2>3
<1> QED
  BY <1>1, <1>2, <1>3, <1>4

\* The three operations that look an address up.
LEMMA Removes ==
  ASSUME TableInv, NEW addr, RemoveNode(addr)
  PROVE  /\ GoodTable(buckets') /\ node_count(buckets) >= 1
         /\ node_count(buckets') <= node_count(buckets) - 1
         /\ \A x : Holds(buckets, x) => x.addr = addr \/ Holds(buckets', x)
         /\ \A x : Holds(buckets', x) => Holds(buckets, x)
<1> DEFINE i == holder(addr)
           j == bucket_find(buckets[i], addr)
           b == Without(buckets[i], j)
<1>1. i # 0 /\ buckets' = ReplaceAt(buckets, i, b)
  BY DEF RemoveNode, ReplaceAt, Without
<1>2. i \in 1..Len(buckets) /\ j # 0 /\ buckets[i] \in Good /\ buckets[i].entries \in Seq(Node)
  BY <1>1, FindsHolder DEF Good
<1> HIDE DEF i
<1>3. j \in 1..Len(buckets[i].entries) /\ buckets[i].entries[j].addr = addr
  <2>1. Len(buckets[i].entries) \in Nat
    BY <1>2, LenProperties
  <2> QED
    BY <1>2, <2>1, Finds
<1> HIDE DEF j
<1>4. /\ b \in Good /\ Len(b.entries) = Len(buckets[i].entries) - 1
      /\ \A k \in 1..Len(b.entries) :
           \E l \in 1..Len(buckets[i].entries) : b.entries[k] = buckets[i].entries[l]
      /\ \A l \in 1..Len(buckets[i].entries) :
           l = j \/ \E k \in 1..Len(b.entries) : b.entries[k] = buckets[i].entries[l]
  <2>2. PICK x : x = buckets[i]
    OBVIOUS
  <2>3. x \in Good /\ j \in 1..Len(x.entries)
    BY <1>2, <1>3, <2>2
  <2>4. /\ Without(x, j) \in Good /\ Len(Without(x, j).entries) = Len(x.entries) - 1
        /\ \A k \in 1..Len(Without(x, j).entries) :
             \E l \in 1..Len(x.entries) : Without(x, j).entries[k] = x.entries[l]
        /\ \A l \in 1..Len(x.entries) :
             l = j \/ \E k \in 1..Len(Without(x, j).entries) :
                        Without(x, j).entries[k] = x.entries[l]
    BY <2>3, RemoveInBucket
  <2> QED
    BY <2>2, <2>4
<1> HIDE DEF b
<1>5. /\ GoodTable(buckets')
      /\ node_count(buckets) >= 1 /\ node_count(buckets') <= node_count(buckets) - 1
      /\ \A x : Holds(buckets, x) =>
           \/ Holds(buckets', x)
           \/ \E l \in 1..Len(buckets[i].entries) : buckets[i].entries[l] = x
      /\ \A k \in 1..Len(b.entries) : Holds(buckets', b.entries[k])
      /\ \A x : Holds(buckets', x) =>
           Holds(buckets, x) \/ \E k \in 1..Len(b.entries) : b.entries[k] = x
  BY <1>1, <1>2, <1>4, Patches DEF TableInv
<1>6. ASSUME NEW x, Holds(buckets, x), ~Holds(buckets', x) PROVE x.addr = addr
  <2>1. PICK l \in 1..Len(buckets[i].entries) : buckets[i].entries[l] = x
    BY <1>5, <1>6
  <2>2. l = j
    BY <1>4, <1>5, <1>6, <2>1
  <2> QED
    BY <1>3, <2>1, <2>2
<1>7. ASSUME NEW x, Holds(buckets', x) PROVE Holds(buckets, x)
  <2> SUFFICES ASSUME NEW k \in 1..Len(b.entries), b.entries[k] = x PROVE Holds(buckets, x)
    BY <1>5, <1>7
  <2>1. PICK l \in 1..Len(buckets[i].entries) : b.entries[k] = buckets[i].entries[l]
    BY <1>4
  <2> QED
    BY <1>2, <2>1 DEF Holds
<1> QED
  BY <1>5, <1>6, <1>7

\* touch and mark_failed change an entry in place: every address stays.
LEMMA Marks ==
  ASSUME TableInv, NEW addr, Touch(addr) \/ MarkFailed(addr)
  PROVE  /\ GoodTable(buckets') /\ node_count(buckets') <= node_count(buckets)
         /\ \A x : Holds(buckets, x) => \E y : Holds(buckets', y) /\ y.addr = x.addr
         /\ \A y : Holds(buckets', y) => \E x : Holds(buckets, x) /\ y.addr = x.addr
<1> DEFINE i == holder(addr)
<1>1. PICK b : /\ i # 0 /\ buckets' = ReplaceAt(buckets, i, b)
               /\ \/ b = bucket_touch(buckets[i], addr)
                  \/ b = bucket_mark_failed(buckets[i], addr)
  BY DEF Touch, MarkFailed, ReplaceAt
<1>2. i \in 1..Len(buckets) /\ bucket_find(buckets[i], addr) # 0 /\ buckets[i] \in Good
  BY <1>1, FindsHolder
<1> HIDE DEF i
<1>3. /\ b \in Good /\ Len(b.entries) = Len(buckets[i].entries)
      /\ SameAddresses(b.entries, buckets[i].entries)
  BY <1>1, <1>2, TouchInBucket, FailureInBucket DEF TableInv
<1>4. Len(buckets[i].entries) \in Nat
  BY <1>2, Places DEF TableInv
<1>5. /\ GoodTable(buckets') /\ node_count(buckets') <= node_count(buckets)
      /\ \A x : Holds(buckets, x) =>
           \/ Holds(buckets', x)
           \/ \E l \in 1..Len(buckets[i].entries) : buckets[i].entries[l] = x
      /\ \A k \in 1..Len(b.entries) : Holds(buckets', b.entries[k])
      /\ \A x : Holds(buckets', x) =>
           Holds(buckets, x) \/ \E k \in 1..Len(b.entries) : b.entries[k] = x
  BY <1>1, <1>2, <1>3, <1>4, Patches DEF TableInv
<1>6. ASSUME NEW x, Holds(buckets, x) PROVE \E y : Holds(buckets', y) /\ y.addr = x.addr
  <2> SUFFICES ASSUME NEW l \in 1..Len(buckets[i].entries), buckets[i].entries[l] = x
               PROVE  \E y : Holds(buckets', y) /\ y.addr = x.addr
    BY <1>5, <1>6
  <2>1. PICK k \in 1..Len(b.entries) : b.entries[k].addr = x.addr
    BY <1>3 DEF SameAddresses
  <2> QED
    BY <1>5, <2>1
<1>7. ASSUME NEW y, Holds(buckets', y) PROVE \E x : Holds(buckets, x) /\ y.addr = x.addr
  <2> SUFFICES ASSUME NEW k \in 1..Len(b.entries), b.entries[k] = y
               PROVE  \E x : Holds(buckets, x) /\ y.addr = x.addr
    BY <1>5, <1>7
  <2>1. PICK l \in 1..Len(buckets[i].entries) : y.addr = buckets[i].entries[l].addr
    BY <1>3 DEF SameAddresses
  <2>2. Holds(buckets, buckets[i].entries[l])
    BY <1>2 DEF Holds
  <2> QED
    BY <2>1, <2>2
<1> QED
  BY <1>5, <1>6, <1>7

-----------------------------------------------------------------------------
(* The theorems.                                                           *)

\* The empty table is well formed, and counts nothing.
LEMMA InitTable ==
  Init => TableInv /\ CountCoversNodes
<1> SUFFICES ASSUME Init PROVE TableInv /\ CountCoversNodes
  OBVIOUS
<1> DEFINE b == [prefix_len |-> 0, entries |-> <<>>]
<1>1. buckets = <<b>> /\ total_nodes = 0 /\ now = 0
  BY DEF Init
<1>2. b \in Good
  <2>1. <<>> \in Seq(Node) /\ Len(<<>>) = 0
    BY EmptySeq
  <2> QED
    BY <2>1, RoutingTableAssumption DEF Good, InOrder, Distinct
<1>3. b.entries = <<>>
  OBVIOUS
<1> HIDE DEF b
<1>4. GoodTable(buckets)
  BY <1>1, <1>2 DEF GoodTable
<1>5. places(buckets) = {}
  <2> SUFFICES ASSUME NEW p \in places(buckets) PROVE FALSE
    OBVIOUS
  <2>1. p[1] \in 1..Len(buckets) /\ p[2] \in 1..Len(buckets[p[1]].entries)
    BY <1>4, Places
  <2>2. Len(buckets) = 1 /\ buckets[1] = b
    BY <1>1
  <2>3. p[1] = 1
    BY <2>1, <2>2
  <2>4. p[2] \in 1..0
    BY <1>3, <2>1, <2>2, <2>3, EmptySeq
  <2> QED
    BY <2>4
<1> QED
  BY <1>1, <1>4, <1>5, FS_EmptySet DEF TableInv, CountCoversNodes, node_count

\* Every operation keeps the table well formed and its count sufficient.
LEMMA NextTable ==
  TableInv /\ CountCoversNodes /\ [Next]_vars => TableInv' /\ CountCoversNodes'
<1> SUFFICES ASSUME TableInv, CountCoversNodes, [Next]_vars
             PROVE  TableInv' /\ CountCoversNodes'
  OBVIOUS
<1>0. total_nodes \in Nat /\ now \in Nat /\ node_count(buckets) \in Nat /\ GoodTable(buckets)
  BY Places DEF TableInv
<1>1. ASSUME NEW n \in Nodes, Insert(n[1], n[2]) PROVE TableInv' /\ CountCoversNodes'
  <2> DEFINE r == insert_entry(buckets, new_entry(n[1], n[2]))
  <2>1. /\ r.ok \in BOOLEAN /\ GoodTable(r.buckets)
        /\ r.ok => node_count(r.buckets) <= node_count(buckets) + 1
        /\ ~r.ok => node_count(r.buckets) <= node_count(buckets)
    BY <1>0, NewEntry, InsertsEntry
  <2>2. /\ buckets' = r.buckets /\ now' = now
        /\ total_nodes' = IF r.ok THEN total_nodes + 1 ELSE total_nodes
    BY <1>1 DEF Insert
  <2> HIDE DEF r
  <2>3. node_count(buckets') \in Nat
    BY <2>1, <2>2, Places
  <2>4. GoodTable(buckets') /\ total_nodes' \in Nat /\ total_nodes' >= node_count(buckets')
    BY <1>0, <2>1, <2>2, <2>3 DEF CountCoversNodes
  <2> QED
    BY <1>0, <2>2, <2>4 DEF TableInv, CountCoversNodes
<1>2. ASSUME NEW addr, RemoveNode(addr) PROVE TableInv' /\ CountCoversNodes'
  <2>1. /\ GoodTable(buckets') /\ node_count(buckets) >= 1
        /\ node_count(buckets') <= node_count(buckets) - 1
    BY <1>2, Removes
  <2>2. total_nodes' = Max({total_nodes - 1, 0}) /\ now' = now
    BY <1>2 DEF RemoveNode
  <2>3. total_nodes' = total_nodes - 1 /\ total_nodes' \in Nat
    <3>1. PICK m : m = total_nodes - 1
      OBVIOUS
    <3>2. m \in Int /\ m >= 0
      BY <1>0, <2>1, <3>1 DEF CountCoversNodes
    <3>3. Max({m, 0}) = m
      BY <3>2, MinMaxOfTwo
    <3> QED
      BY <2>2, <3>1, <3>2, <3>3
  <2>4. node_count(buckets') \in Nat
    BY <2>1, Places
  <2> QED
    BY <1>0, <2>1, <2>2, <2>3, <2>4 DEF TableInv, CountCoversNodes
<1>3. ASSUME NEW addr, Touch(addr) \/ MarkFailed(addr) PROVE TableInv' /\ CountCoversNodes'
  <2>1. GoodTable(buckets') /\ node_count(buckets') <= node_count(buckets)
    BY <1>3, Marks
  <2>2. total_nodes' = total_nodes /\ now' = now
    BY <1>3 DEF Touch, MarkFailed
  <2>3. node_count(buckets') \in Nat
    BY <2>1, Places
  <2> QED
    BY <1>0, <2>1, <2>2, <2>3 DEF TableInv, CountCoversNodes
<1>4. ASSUME EvictExpired PROVE TableInv' /\ CountCoversNodes'
  <2> DEFINE kept == [i \in DOMAIN buckets |-> bucket_evict(buckets[i])]
             evicted == node_count(buckets) - node_count(kept)
  <2>1. buckets' = kept /\ total_nodes' = Max({total_nodes - evicted, 0}) /\ now' = now
    BY <1>4 DEF EvictExpired
  <2>2. GoodTable(kept)
    BY Evicts
  <2> HIDE DEF kept
  <2>3. node_count(kept) \in Nat
    BY <2>2, Places
  <2>4. total_nodes' \in Nat /\ total_nodes' >= node_count(kept)
    <3>1. PICK m : m = total_nodes - evicted
      OBVIOUS
    <3>2. m \in Int /\ m >= node_count(kept)
      BY <1>0, <2>3, <3>1 DEF CountCoversNodes
    <3> HIDE DEF evicted
    <3>4. m \in Int /\ m >= 0
      BY <2>3, <3>2
    <3>3. Max({m, 0}) = m
      BY <3>4, MinMaxOfTwo
    <3> QED
      BY <2>1, <2>3, <3>1, <3>2, <3>3
  <2> QED
    BY <1>0, <2>1, <2>2, <2>4 DEF TableInv, CountCoversNodes
<1>5. ASSUME Tick PROVE TableInv' /\ CountCoversNodes'
  BY <1>0, <1>5 DEF Tick, TableInv, CountCoversNodes
<1>6. CASE UNCHANGED vars
  BY <1>0, <1>6 DEF vars, TableInv, CountCoversNodes
<1> QED
  BY <1>1, <1>2, <1>3, <1>4, <1>5, <1>6 DEF Next

\* An insert brings no address into the table but its own, split or not.
LEMMA InsertBringsOne ==
  ASSUME TableInv, NEW n \in Nodes, Insert(n[1], n[2])
  PROVE  \A x \in all_nodes' : x \in all_nodes \/ x.addr = n[2]
<1> DEFINE e == new_entry(n[1], n[2])
           r == insert_entry(buckets, e)
<1>1. e \in Node /\ e.addr = n[2] /\ GoodTable(buckets)
  BY NewEntry DEF TableInv
<1>2. buckets' = r.buckets
  BY DEF Insert
<1> HIDE DEF e
<1>3. /\ GoodTable(r.buckets)
      /\ \A x : Holds(r.buckets, x) => x = e \/ Holds(buckets, x)
  BY <1>1, InsertsEntry DEF TakesIn
<1> HIDE DEF r
<1>4. ASSUME NEW x \in all_nodes' PROVE Holds(r.buckets, x)
  <2>1. x \in {buckets'[p[1]].entries[p[2]] : p \in places(buckets')}
    BY DEF all_nodes, entry_at
  <2> QED
    BY <1>2, <1>3, <2>1, HeldEntries
<1>5. ASSUME NEW x, Holds(buckets, x) PROVE x \in all_nodes
  BY <1>1, <1>5, HeldEntries DEF all_nodes, entry_at
<1> QED
  BY <1>1, <1>3, <1>4, <1>5

\* Eviction brings nothing into the table.
LEMMA EvictBringsNone ==
  ASSUME TableInv, EvictExpired
  PROVE  all_nodes' \subseteq all_nodes
<1> DEFINE r == [i \in DOMAIN buckets |-> bucket_evict(buckets[i])]
<1>1. buckets' = r /\ GoodTable(buckets)
  BY DEF EvictExpired, TableInv
<1>2. GoodTable(r) /\ \A x : Holds(r, x) => Holds(buckets, x)
  BY Evicts
<1> HIDE DEF r
<1>3. ASSUME NEW x \in all_nodes' PROVE Holds(r, x)
  <2>1. x \in {buckets'[p[1]].entries[p[2]] : p \in places(buckets')}
    BY DEF all_nodes, entry_at
  <2> QED
    BY <1>1, <1>2, <2>1, HeldEntries
<1>4. ASSUME NEW x, Holds(buckets, x) PROVE x \in all_nodes
  BY <1>1, <1>4, HeldEntries DEF all_nodes, entry_at
<1> QED
  BY <1>2, <1>3, <1>4

\* The new table is empty.
LEMMA InitHoldsNone == Init => all_nodes = {}
<1> SUFFICES ASSUME Init, NEW p \in places(buckets) PROVE FALSE
  BY DEF all_nodes
<1>1. GoodTable(buckets)
  BY InitTable DEF TableInv
<1>2. p[1] \in 1..Len(buckets) /\ p[2] \in 1..Len(buckets[p[1]].entries)
  BY <1>1, Places
<1>3. Len(buckets) = 1 /\ buckets[1].entries = <<>>
  BY DEF Init
<1> QED
  BY <1>2, <1>3, EmptySeq

\* The list of buckets is never empty, its entries are entries, and the cached
\* number of nodes covers those there are.
THEOREM TableAlways == Spec => [](TableInv /\ CountCoversNodes)
<1>1. Init => TableInv /\ CountCoversNodes
  BY InitTable
<1>2. TableInv /\ CountCoversNodes /\ [Next]_vars => (TableInv /\ CountCoversNodes)'
  BY NextTable
<1> QED
  BY <1>1, <1>2, PTL DEF Spec

\* The cached number of nodes errs upwards only, whatever inserts overwrite,
\* splits move and evictions take away at once (KademliaTable::len).
THEOREM CountAlwaysCovers == Spec => []CountCoversNodes
BY TableAlways, PTL

\* Well formed buckets are what the invariant says, seen one by one.
LEMMA TableWellFormed == TableInv => BucketsWellFormed
<1> SUFFICES ASSUME TableInv, NEW i \in DOMAIN buckets
             PROVE  LET s == buckets[i].entries
                    IN  /\ Len(s) <= K
                        /\ \A j, k \in DOMAIN s :
                             j < k => s[j].last_seen <= s[k].last_seen /\ s[j].addr # s[k].addr
  BY DEF BucketsWellFormed
<1> DEFINE s == buckets[i].entries
<1>1. buckets[i] \in Good
  BY Places DEF TableInv
<1>2. Len(s) <= K /\ InOrder(s) /\ Distinct(s) /\ s \in Seq(Node)
  BY <1>1 DEF Good
<1> HIDE DEF s
<1>3. DOMAIN s = 1..Len(s) /\ Len(s) \in Nat
  BY <1>2, LenProperties
<1>4. ASSUME NEW j \in DOMAIN s, NEW k \in DOMAIN s, j < k
      PROVE  s[j].last_seen <= s[k].last_seen /\ s[j].addr # s[k].addr
  BY <1>2, <1>3, <1>4 DEF InOrder, Distinct
<1> QED
  BY <1>2, <1>4 DEF s

\* No bucket grows past K or holds an address twice, and its entries are in
\* ascending order of last_seen (KBucket), whatever the table has been through.
THEOREM BucketsAlwaysWellFormed == Spec => []BucketsWellFormed
BY TableWellFormed, TableAlways, PTL

\* A live node is never displaced: each step that rids the table of an address
\* removes the address by name or found all its entries dead.
THEOREM LiveNodeAlwaysKept == Spec => LiveNodeKept
<1> DEFINE Kept == \A addr \in Addr :
                     entries_of(addr) # {} /\ entries_of(addr)' = {} =>
                       \/ RemoveNode(addr)
                       \/ \A e \in entries_of(addr) : ~is_healthy(e) \/ is_expired(e, now)
<1>1. TableInv /\ TableInv' /\ [Next]_vars => [Kept]_vars
  <2> SUFFICES ASSUME TableInv, TableInv', Next, NEW addr \in Addr,
                      entries_of(addr)' = {}, ~RemoveNode(addr), NEW e \in entries_of(addr)
               PROVE  Dead(e, now)
    BY DEF Dead
  <2>1. Holds(buckets, e) /\ e.addr = addr
    BY HeldEntries DEF entries_of, all_nodes, entry_at, TableInv
  <2>2. ASSUME NEW x, Holds(buckets', x) PROVE x.addr # addr
    <3>1. x \in all_nodes'
      BY <2>2, HeldEntries DEF all_nodes, entry_at, TableInv
    <3> QED
      BY <3>1 DEF entries_of
  <2>3. ASSUME NEW n \in Nodes, Insert(n[1], n[2]) PROVE Dead(e, now)
    <3> DEFINE w == new_entry(n[1], n[2])
               r == insert_entry(buckets, w)
    <3>1. /\ r.ok \in BOOLEAN
          /\ r.ok => TakesIn(r.buckets, buckets, w)
          /\ ~r.ok => \A x : Holds(r.buckets, x) <=> Holds(buckets, x)
      BY NewEntry, InsertsEntry DEF TableInv
    <3>2. buckets' = r.buckets
      BY <2>3 DEF Insert
    <3>3. w.last_seen = now
      BY NewEntry
    <3> HIDE DEF r, w
    <3>4. r.ok
      BY <2>1, <2>2, <3>1, <3>2
    <3>5. w.addr # addr
      BY <2>2, <3>1, <3>2, <3>4 DEF TakesIn
    <3> QED
      BY <2>1, <2>2, <3>1, <3>2, <3>3, <3>4, <3>5 DEF TakesIn
  <2>4. ASSUME NEW other, RemoveNode(other) PROVE Dead(e, now)
    BY <2>1, <2>2, <2>4, Removes
  <2>5. ASSUME NEW other, Touch(other) \/ MarkFailed(other) PROVE Dead(e, now)
    BY <2>1, <2>2, <2>5, Marks
  <2>6. ASSUME EvictExpired PROVE Dead(e, now)
    BY <2>1, <2>2, <2>6, Evicts DEF EvictExpired
  <2>7. ASSUME Tick PROVE Dead(e, now)
    BY <2>1, <2>2, <2>7 DEF Tick
  <2> QED
    BY <2>3, <2>4, <2>5, <2>6, <2>7 DEF Next
<1>2. Spec => []TableInv
  BY TableAlways, PTL
<1>3. LiveNodeKept <=> [][Kept]_vars
  BY DEF LiveNodeKept
<1> QED
  BY <1>1, <1>2, PTL DEF Spec, LiveNodeKept

-----------------------------------------------------------------------------
(* find_closest.                                                           *)

\* The distance of two ids has a bit for each of theirs.
LEMMA XorBits ==
  \A a, b \in Bits : xor_distance(a, b) \in Bits
BY RoutingTableAssumption DEF xor_distance, Bits

\* distance_less is a strict total order.
LEMMA LessTransitive ==
  ASSUME NEW a \in Bits, NEW b \in Bits, NEW c \in Bits, distance_less(a, b), distance_less(b, c)
  PROVE  distance_less(a, c)
<1>1. PICK i \in 1..IdBits : a[i] < b[i] /\ \A j \in 1..(i-1) : a[j] = b[j]
  BY DEF distance_less
<1>2. PICK k \in 1..IdBits : b[k] < c[k] /\ \A j \in 1..(k-1) : b[j] = c[j]
  BY DEF distance_less
<1>3. \A j \in 1..IdBits : a[j] \in Nat /\ b[j] \in Nat /\ c[j] \in Nat
  BY DEF Bits
<1>4. IdBits \in Nat
  BY RoutingTableAssumption
<1>5. CASE i <= k
  <2>1. a[i] < c[i]
    <3>1. CASE i = k
      BY <1>1, <1>2, <1>3, <3>1
    <3>2. CASE i < k
      <4>1. b[i] = c[i]
        BY <1>2, <1>4, <3>2
      <4> QED
        BY <1>1, <4>1
    <3> QED
      BY <1>4, <1>5, <3>1, <3>2
  <2>2. ASSUME NEW j \in 1..(i-1) PROVE a[j] = c[j]
    <3>1. j \in 1..(k-1)
      BY <1>4, <1>5
    <3> QED
      BY <1>1, <1>2, <3>1
  <2> QED
    BY <2>1, <2>2 DEF distance_less
<1>6. CASE k < i
  <2>1. a[k] < c[k]
    <3>1. a[k] = b[k]
      BY <1>1, <1>4, <1>6
    <3> QED
      BY <1>2, <3>1
  <2>2. ASSUME NEW j \in 1..(k-1) PROVE a[j] = c[j]
    <3>1. j \in 1..(i-1)
      BY <1>4, <1>6
    <3> QED
      BY <1>1, <1>2, <3>1
  <2> QED
    BY <2>1, <2>2 DEF distance_less
<1> QED
  BY <1>4, <1>5, <1>6

\* No distance is less than itself.
LEMMA LessIrreflexive ==
  \A a \in Bits : ~distance_less(a, a)
<1> SUFFICES ASSUME NEW a \in Bits, NEW i \in 1..IdBits PROVE ~(a[i] < a[i])
  BY DEF distance_less
<1>1. a[i] \in Nat
  BY DEF Bits
<1> QED
  BY <1>1

\* Of two distances one is less.
LEMMA LessTotal ==
  ASSUME NEW a \in Bits, NEW b \in Bits, a # b
  PROVE  distance_less(a, b) \/ distance_less(b, a)
<1> DEFINE I == {i \in 1..IdBits : a[i] # b[i]}
<1>1. IdBits \in Nat /\ \A i \in 1..IdBits : a[i] \in Nat /\ b[i] \in Nat
  BY RoutingTableAssumption DEF Bits
<1>2. I # {} /\ I \in SUBSET Nat
  <2>1. PICK i \in 1..IdBits : a[i] # b[i]
    BY <1>1 DEF Bits
  <2> QED
    BY <1>1, <2>1
<1>3. PICK i : i \in I /\ \A j \in I : i <= j
  <2> HIDE DEF I
  <2> QED
    BY <1>2, LeastExists
<1>4. \A j \in 1..(i-1) : a[j] = b[j]
  BY <1>1, <1>3
<1>5. a[i] < b[i] \/ b[i] < a[i]
  BY <1>1, <1>3
<1> QED
  BY <1>3, <1>4, <1>5 DEF distance_less

\* The places are those of entries, gone through one after the other.
LEMMA HealthyPlaces ==
  ASSUME TableInv
  PROVE  /\ IsFiniteSet(healthy_places)
         /\ \A p \in healthy_places : /\ p = <<p[1], p[2]>> /\ p[1] \in Nat /\ p[2] \in Nat
                                      /\ entry_at(p) \in Node /\ entry_at(p).id \in Bits
<1>1. healthy_places \subseteq places(buckets) /\ IsFiniteSet(places(buckets))
  BY Places DEF TableInv, healthy_places
<1>2. ASSUME NEW p \in healthy_places
      PROVE  /\ p = <<p[1], p[2]>> /\ p[1] \in Nat /\ p[2] \in Nat
             /\ entry_at(p) \in Node /\ entry_at(p).id \in Bits
  <2>1. /\ p = <<p[1], p[2]>> /\ p[1] \in 1..Len(buckets)
        /\ p[2] \in 1..Len(buckets[p[1]].entries)
    BY <1>1, Places DEF TableInv
  <2>2. /\ buckets[p[1]].entries \in Seq(Node) /\ Len(buckets[p[1]].entries) \in Nat
        /\ Len(buckets) \in Nat
    BY <2>1, Places DEF TableInv
  <2>3. entry_at(p) \in Node
    BY <2>1, <2>2, ElementOfSeq DEF entry_at
  <2>4. entry_at(p).id \in Bits
    BY <2>3, RoutingTableAssumption DEF Node
  <2> QED
    BY <2>1, <2>2, <2>3, <2>4
<1> QED
  BY <1>1, <1>2, FS_Subset

\* Nearer first, and at the same distance the earlier place first.
LEMMA NearerOrders ==
  ASSUME TableInv, NEW target \in Bits, NEW before,
         before = [q \in healthy_places |->
                     {p \in healthy_places :
                        LET d(x) == xor_distance(entry_at(x).id, target)
                        IN  \/ distance_less(d(p), d(q))
                            \/ d(p) = d(q) /\ earlier(p, q)}]
  PROVE  Orders(before, healthy_places)
<1> DEFINE S == healthy_places
           d == [x \in S |-> xor_distance(entry_at(x).id, target)]
           Nearer(p, q) == distance_less(d[p], d[q]) \/ (d[p] = d[q] /\ earlier(p, q))
<1>1. \A p \in S : d[p] \in Bits /\ p = <<p[1], p[2]>> /\ p[1] \in Nat /\ p[2] \in Nat
  BY HealthyPlaces, XorBits
<1>2. \A q \in S : before[q] = {p \in S : Nearer(p, q)}
  OBVIOUS
<1> HIDE DEF d, S
<1>3. \A p \in S : ~Nearer(p, p)
  BY <1>1, LessIrreflexive DEF earlier
<1>4. ASSUME NEW p \in S, NEW q \in S, p # q PROVE Nearer(p, q) \/ Nearer(q, p)
  <2>1. CASE d[p] # d[q]
    BY <1>1, <2>1, LessTotal
  <2>2. CASE d[p] = d[q]
    <3>1. earlier(p, q) \/ earlier(q, p)
      <4>1. p[1] # q[1] \/ p[2] # q[2]
        BY <1>1, <1>4
      <4> QED
        BY <1>1, <4>1 DEF earlier
    <3> QED
      BY <2>2, <3>1
  <2> QED
    BY <2>1, <2>2
<1>5. ASSUME NEW p \in S, NEW q \in S, NEW t \in S, Nearer(p, q), Nearer(q, t) PROVE Nearer(p, t)
  <2>0. d[p] \in Bits /\ d[q] \in Bits /\ d[t] \in Bits
    BY <1>1
  <2>1. CASE distance_less(d[p], d[q]) /\ distance_less(d[q], d[t])
    BY <2>0, <2>1, LessTransitive
  <2>4. CASE distance_less(d[p], d[q]) /\ d[q] = d[t]
    BY <2>4
  <2>2. CASE d[p] = d[q] /\ distance_less(d[q], d[t])
    BY <2>2
  <2>3. CASE d[p] = d[q] /\ earlier(p, q) /\ d[q] = d[t] /\ earlier(q, t)
    <3>1. earlier(p, t)
      BY <1>1, <2>3 DEF earlier
    <3> QED
      BY <2>3, <3>1
  <2> QED
    BY <1>5, <2>1, <2>2, <2>3, <2>4
<1> HIDE DEF Nearer
<1>6. \A x \in S : before[x] \subseteq S /\ x \notin before[x]
  BY <1>2, <1>3
<1>7. \A x, y \in S : x # y => x \in before[y] \/ y \in before[x]
  BY <1>2, <1>4
<1>8. ASSUME NEW x \in S, NEW y \in S, x \in before[y], NEW z \in before[x]
      PROVE  z \in before[y]
  <2>1. z \in S /\ Nearer(z, x) /\ Nearer(x, y)
    BY <1>2, <1>8
  <2> QED
    BY <1>2, <1>5, <2>1
<1>9. IsFiniteSet(S)
  BY HealthyPlaces DEF S
<1> QED
  BY <1>6, <1>7, <1>8, <1>9 DEF Orders, S

\* find_closest returns as many healthy nodes as asked for, or all, the nearest
\* first, and no other is nearer than one of them.
LEMMA ClosestNearest ==
  ASSUME TableInv, NEW target \in Bits, NEW count \in Nat,
         NEW r, r = find_closest(target, count)
  PROVE  /\ r \in Seq(Node) /\ Len(r) = Min({count, Cardinality(healthy_places)})
         /\ Cardinality(healthy_places) = Len(r) => healthy_nodes = ToSet(r)
         /\ \A j, k \in 1..Len(r) : j < k =>
              ~distance_less(xor_distance(r[k].id, target), xor_distance(r[j].id, target))
         /\ ToSet(r) \subseteq healthy_nodes
         /\ \A e \in healthy_nodes \ ToSet(r), f \in ToSet(r) :
              ~distance_less(xor_distance(e.id, target), xor_distance(f.id, target))
<1> DEFINE S == healthy_places
           before == [q \in S |->
                        {p \in S :
                           LET d(x) == xor_distance(entry_at(x).id, target)
                           IN  \/ distance_less(d(p), d(q))
                               \/ d(p) = d(q) /\ earlier(p, q)}]
           o == listing(S, before)
           n == Cardinality(S)
           t == [k \in DOMAIN o |-> entry_at(o[k])]
           cut == Min({count, Len(o)})
<1>1. r = SubSeq(t, 1, cut)
  BY DEF find_closest
<1>2. Orders(before, S)
  BY NearerOrders
<1>3. \A p, q \in S : p \in before[q] =>
        \/ distance_less(xor_distance(entry_at(p).id, target), xor_distance(entry_at(q).id, target))
        \/ xor_distance(entry_at(p).id, target) = xor_distance(entry_at(q).id, target)
  OBVIOUS
<1>4. \A p \in S : entry_at(p) \in Node /\ xor_distance(entry_at(p).id, target) \in Bits
  BY HealthyPlaces, XorBits
<1>5. healthy_nodes = {entry_at(p) : p \in S}
  BY DEF healthy_nodes
<1> HIDE DEF S, before, t, cut
<1>6. /\ n \in Nat /\ o \in [1..n -> S]
      /\ \A x \in S : \E k \in 1..n : o[k] = x
      /\ \A j, k \in 1..n : j < k => o[j] \in before[o[k]]
  BY <1>2, Listing
<1> HIDE DEF n, o
<1>7. Len(o) = n
  BY <1>6, SeqDef, LenProperties
<1>14. cut = Min({count, n})
  BY <1>7 DEF cut
<1>8. cut \in 0..n /\ \A k \in 1..cut : k \in 1..n
  <2>1. cut = IF count <= n THEN count ELSE n
    BY <1>6, <1>14, MinMaxOfTwo
  <2>2. cut \in 0..n
    BY <1>6, <2>1
  <2> QED
    BY <1>6, <2>2
<1>9. \A k \in 1..n : t[k] = entry_at(o[k]) /\ t[k] \in Node /\ o[k] \in S
  BY <1>4, <1>6 DEF t
<1>10. r \in Seq(Node) /\ Len(r) = cut /\ \A k \in 1..cut : r[k] = t[k]
  <2>1. cut \in Int /\ 1 \in Int /\ \A k \in 1..cut : t[k] \in Node
    BY <1>6, <1>8, <1>9
  <2>2. /\ r \in Seq(Node) /\ Len(r) = IF 1 <= cut THEN cut - 1 + 1 ELSE 0
        /\ \A k \in 1..(cut - 1 + 1) : r[k] = t[1 + k - 1]
    BY <1>1, <2>1, SubSeqProperties
  <2>3. cut - 1 + 1 = cut /\ \A k \in 1..cut : 1 + k - 1 = k
    BY <2>1
  <2>4. \A k \in 1..cut : r[k] = t[k]
    BY <2>2, <2>3
  <2>5. Len(r) = cut
    BY <1>6, <1>8, <2>2
  <2> QED
    BY <2>2, <2>4, <2>5
<1>11. ToSet(r) = {entry_at(o[k]) : k \in 1..cut}
  <2>1. DOMAIN r = 1..cut
    BY <1>10, LenProperties
  <2>2. \A k \in 1..cut : r[k] = entry_at(o[k])
    BY <1>8, <1>9, <1>10
  <2> QED
    BY <2>1, <2>2 DEF ToSet
<1>12. ToSet(r) \subseteq healthy_nodes
  BY <1>5, <1>6, <1>8, <1>9, <1>11
<1>13. ASSUME NEW e \in healthy_nodes \ ToSet(r), NEW f \in ToSet(r)
       PROVE  ~distance_less(xor_distance(e.id, target), xor_distance(f.id, target))
  <2>1. PICK p \in S : e = entry_at(p)
    BY <1>5
  <2>2. PICK k \in 1..n : o[k] = p
    BY <1>6
  <2>3. PICK j \in 1..cut : f = entry_at(o[j])
    BY <1>11
  <2>4. k \notin 1..cut
    BY <1>11, <2>1, <2>2
  <2>5. j \in 1..n /\ j < k
    BY <1>6, <1>8, <2>4
  <2>6. o[j] \in S /\ o[j] \in before[p]
    BY <1>6, <2>2, <2>5
  <2> DEFINE de == xor_distance(e.id, target)
             df == xor_distance(f.id, target)
  <2>7. de \in Bits /\ df \in Bits /\ (distance_less(df, de) \/ df = de)
    BY <1>3, <1>4, <2>1, <2>3, <2>6
  <2> HIDE DEF de, df
  <2>8. ~distance_less(de, df)
    <3> SUFFICES ASSUME distance_less(de, df) PROVE FALSE
      OBVIOUS
    <3>1. distance_less(de, de)
      BY <2>7, LessTransitive
    <3> QED
      BY <2>7, <3>1, LessIrreflexive
  <2> QED
    BY <2>8 DEF de, df
<1>15. ASSUME NEW j \in 1..cut, NEW k \in 1..cut, j < k
       PROVE  ~distance_less(xor_distance(r[k].id, target), xor_distance(r[j].id, target))
  <2>1. j \in 1..n /\ k \in 1..n /\ o[j] \in S /\ o[k] \in S /\ o[j] \in before[o[k]]
    BY <1>6, <1>8, <1>15
  <2>2. r[j] = entry_at(o[j]) /\ r[k] = entry_at(o[k])
    BY <1>9, <1>10, <2>1
  <2> DEFINE dj == xor_distance(r[j].id, target)
             dk == xor_distance(r[k].id, target)
  <2>3. dj \in Bits /\ dk \in Bits /\ (distance_less(dj, dk) \/ dj = dk)
    BY <1>3, <1>4, <2>1, <2>2
  <2> HIDE DEF dj, dk
  <2>4. ~distance_less(dk, dj)
    BY <2>3, LessTransitive, LessIrreflexive
  <2> QED
    BY <2>4 DEF dj, dk
<1>16. n = cut => healthy_nodes = ToSet(r)
  BY <1>5, <1>6, <1>11
<1> QED
  BY <1>10, <1>12, <1>13, <1>14, <1>15, <1>16 DEF n, S

\* find_closest returns as many healthy entries as it can, and no healthy entry
\* it leaves out is nearer to the target than one it returns.
THEOREM ClosestAlwaysNearest == Spec => []FindClosestNearest
<1>1. TableInv => FindClosestNearest
  <2> SUFFICES ASSUME TableInv, NEW target \in Id, NEW count \in 1..K
               PROVE  LET r == find_closest(target, count)
                          d(e) == xor_distance(e.id, target)
                      IN  /\ Len(r) = Min({count, Cardinality(healthy_places)})
                          /\ ToSet(r) \subseteq healthy_nodes
                          /\ \A e \in healthy_nodes \ ToSet(r), f \in ToSet(r) :
                               ~distance_less(d(e), d(f))
    BY DEF FindClosestNearest
  <2>1. target \in Bits /\ count \in Nat
    BY RoutingTableAssumption
  <2>2. PICK r : r = find_closest(target, count)
    OBVIOUS
  <2>3. /\ Len(r) = Min({count, Cardinality(healthy_places)})
        /\ ToSet(r) \subseteq healthy_nodes
        /\ \A e \in healthy_nodes \ ToSet(r), f \in ToSet(r) :
              ~distance_less(xor_distance(e.id, target), xor_distance(f.id, target))
    BY <2>1, <2>2, ClosestNearest
  <2> QED
    BY <2>2, <2>3
<1> QED
  BY <1>1, TableAlways, PTL

=============================================================================
