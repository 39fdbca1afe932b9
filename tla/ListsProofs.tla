---------------------------- MODULE ListsProofs ----------------------------
(***************************************************************************)
(* What holds of the lists of one's own records and of the community's, for*)
(* any records, queries and size of a page and any number of changes and   *)
(* errors: what is shown as loading is, a list of one's own that has ended *)
(* leaves out only what AllShown allows, and both implement PagedList.  The*)
(* inductive invariants are PagInv and GalInv, conjunctions of what        *)
(* concerns the types, the waiting, the lists, and the pages or the images.*)
(***************************************************************************)
EXTENDS Lists, Listing, FiniteSetTheorems, SequenceTheorems, TLAPS

-----------------------------------------------------------------------------
(* Counting.  The n-th of a finite set of numbers is the one that has n of *)
(* them up to itself, and there is one for every n up to their number.     *)

Rank(S, i) == Cardinality({j \in S : j <= i})

LEMMA RankType ==
  ASSUME NEW S \in SUBSET Nat, IsFiniteSet(S), NEW i \in S
  PROVE  Rank(S, i) \in 1..Cardinality(S)
<1> DEFINE T == {j \in S : j <= i}
<1>1. IsFiniteSet(T) /\ Cardinality(T) <= Cardinality(S)
  <2>1. T \in SUBSET S
    OBVIOUS
  <2> QED
    BY <2>1, FS_Subset, Zenon
<1>2. T # {}
  BY i \in T
<1>3. Cardinality(T) # 0 /\ Cardinality(T) \in Nat /\ Cardinality(S) \in Nat
  BY <1>1, <1>2, FS_EmptySet, FS_CardinalityType
<1> HIDE DEF T
<1> QED
  BY <1>1, <1>3 DEF Rank, T

\* Of two numbers of the set, the higher one has the higher rank.
LEMMA RankRises ==
  ASSUME NEW S \in SUBSET Nat, IsFiniteSet(S), NEW i \in S, NEW k \in S, i < k
  PROVE  Rank(S, i) < Rank(S, k)
<1> DEFINE T == {j \in S : j <= i}  U == {j \in S : j <= k}
<1>1. IsFiniteSet(T) /\ IsFiniteSet(U)
  <2>1. T \in SUBSET S /\ U \in SUBSET S
    OBVIOUS
  <2> QED
    BY <2>1, FS_Subset, Zenon
<1>2. T \in SUBSET U /\ k \in U /\ k \notin T
  <2>1. i \in Nat /\ k \in Nat /\ \A j \in S : j \in Nat
    OBVIOUS
  <2>2. \A j \in S : j <= i => j <= k
    BY <2>1
  <2>3. k <= k /\ ~(k <= i)
    BY <2>1
  <2> QED
    BY <2>2, <2>3
<1> HIDE DEF T, U
<1>3. Cardinality(T) <= Cardinality(U) /\ Cardinality(U) # Cardinality(T)
  BY <1>1, <1>2, FS_Subset, Zenon
<1>4. Cardinality(T) \in Nat /\ Cardinality(U) \in Nat
  BY <1>1, FS_CardinalityType
<1> QED
  BY <1>3, <1>4 DEF Rank, T, U

LEMMA RankInjective ==
  ASSUME NEW S \in SUBSET Nat, IsFiniteSet(S), NEW i \in S, NEW k \in S, Rank(S, i) = Rank(S, k)
  PROVE  i = k
<1>1. ~(i < k) /\ ~(k < i)
  BY RankRises, RankType
<1> QED
  BY <1>1

\* Every number up to that of the elements is the rank of one.
LEMMA RankOnto ==
  ASSUME NEW S \in SUBSET Nat, IsFiniteSet(S), NEW n \in 1..Cardinality(S)
  PROVE  \E i \in S : Rank(S, i) = n
<1> DEFINE c == Cardinality(S)  f == [i \in S |-> Rank(S, i)]
<1>1. c \in Nat
  BY FS_CardinalityType
<1>2. f \in [S -> 1..c]
  BY RankType
<1>3. f \in Injection(S, 1..c)
  BY <1>2, RankInjective DEF Injection, IsInjective
<1>4. IsFiniteSet(1..c) /\ Cardinality(1..c) = c
  BY <1>1, FS_Interval
<1>5. f \in Surjection(S, 1..c)
  BY <1>3, <1>4, FS_Injection
<1>6. PICK i \in S : f[i] = n
  BY <1>5 DEF Surjection
<1> QED
  BY <1>6

LEMMA NthIs ==
  ASSUME NEW S \in SUBSET Nat, IsFiniteSet(S), NEW n \in 1..Cardinality(S)
  PROVE  Nth(S, n) \in S /\ Rank(S, Nth(S, n)) = n
<1>1. \E i \in S : Cardinality({j \in S : j <= i}) = n
  BY RankOnto DEF Rank
<1>2. Nth(S, n) \in S /\ Cardinality({j \in S : j <= Nth(S, n)}) = n
  BY <1>1, Zenon DEF Nth
<1> QED
  BY <1>2 DEF Rank

LEMMA NthOfRank ==
  ASSUME NEW S \in SUBSET Nat, IsFiniteSet(S), NEW i \in S
  PROVE  Nth(S, Rank(S, i)) = i
<1>1. Rank(S, i) \in 1..Cardinality(S)
  BY RankType
<1> DEFINE k == Nth(S, Rank(S, i))
<1>2. k \in S /\ Rank(S, k) = Rank(S, i)
  BY <1>1, NthIs
<1> HIDE DEF k
<1>3. k = i
  BY <1>2, RankInjective
<1> QED
  BY <1>3 DEF k

LEMMA NthRises ==
  ASSUME NEW S \in SUBSET Nat, IsFiniteSet(S), NEW m \in 1..Cardinality(S), NEW n \in 1..Cardinality(S),
         m < n
  PROVE  Nth(S, m) < Nth(S, n)
<1>1. Nth(S, m) \in S /\ Rank(S, Nth(S, m)) = m /\ Nth(S, n) \in S /\ Rank(S, Nth(S, n)) = n
  BY NthIs, Zenon
<1> DEFINE i == Nth(S, m)  k == Nth(S, n)
<1>0. Cardinality(S) \in Nat
  BY FS_CardinalityType
<1>2. i \in Nat /\ k \in Nat /\ m \in Nat /\ n \in Nat
  <2>1. \A x \in S : x \in Nat
    OBVIOUS
  <2>2. i \in S /\ k \in S
    BY <1>1
  <2>3. m \in Nat /\ n \in Nat
    BY <1>0
  <2> QED
    BY <2>1, <2>2, <2>3
<1>3. k < i => Rank(S, k) < Rank(S, i)
  BY <1>1, RankRises
<1>4. k # i
  BY <1>1, <1>2
<1> HIDE DEF i, k
<1>5. i < k
  BY <1>1, <1>2, <1>3, <1>4 DEF i, k
<1> QED
  BY <1>5 DEF i, k

LEMMA NthInjective ==
  ASSUME NEW S \in SUBSET Nat, IsFiniteSet(S), NEW m \in 1..Cardinality(S), NEW n \in 1..Cardinality(S),
         Nth(S, m) = Nth(S, n)
  PROVE  m = n
  BY NthIs

-----------------------------------------------------------------------------
(* What is sorted and what is filtered.                                    *)

Once(s) == \A m, n \in 1..Len(s) : s[m] = s[n] => m = n

\* The records that are not older than i.
NotOlder(S, i) == Cardinality({j \in S : j >= i})

LEMMA NotOlderIs ==
  ASSUME NEW S \in SUBSET Nat, IsFiniteSet(S), NEW i \in S
  PROVE  NotOlder(S, i) = Cardinality(S) + 1 - Rank(S, i)
<1> DEFINE T == {j \in S : j <= i}  U == {j \in S : j >= i}
<1>1. i \in Nat /\ \A j \in S : j \in Nat
  OBVIOUS
<1>2. T \in SUBSET S /\ U \in SUBSET S
  OBVIOUS
<1>3. T \cup U = S
  <2>1. \A j \in S : j <= i \/ j >= i
    BY <1>1
  <2> QED
    BY <2>1
<1>4. T \cap U = {i}
  <2>1. \A j \in S : j <= i /\ j >= i <=> j = i
    BY <1>1
  <2> QED
    BY <2>1
<1> HIDE DEF T, U
<1>5. IsFiniteSet(T) /\ IsFiniteSet(U)
  BY <1>2, FS_Subset, Zenon
<1>6. Cardinality(S) = Cardinality(T) + Cardinality(U) - 1
  <2>1. Cardinality(T \cup U) = Cardinality(T) + Cardinality(U) - Cardinality(T \cap U)
    BY <1>5, FS_Union, Zenon
  <2>2. Cardinality({i}) = 1
    BY FS_Singleton, Zenon
  <2> QED
    BY <1>3, <1>4, <2>1, <2>2
<1>7. Cardinality(T) \in Nat /\ Cardinality(U) \in Nat
  BY <1>5, FS_CardinalityType
<1> QED
  BY <1>6, <1>7 DEF Rank, NotOlder, T, U

\* Sorted, the newest comes first, every record once, at the place of its age.
LEMMA DescendingIs ==
  ASSUME NEW S \in SUBSET Nat, IsFiniteSet(S)
  PROVE  /\ Descending(S) \in Seq(S) /\ Len(Descending(S)) = Cardinality(S)
         /\ Once(Descending(S))
         /\ \A n \in 1..Cardinality(S) : NotOlder(S, Descending(S)[n]) = n
         /\ \A i \in S : NotOlder(S, i) \in 1..Cardinality(S) /\ Descending(S)[NotOlder(S, i)] = i
<1> DEFINE c == Cardinality(S)  s == Descending(S)
<1>1. c \in Nat
  BY FS_CardinalityType
<1>2. \A n \in 1..c : c + 1 - n \in 1..c /\ s[n] = Nth(S, c + 1 - n)
  BY <1>1 DEF Descending
<1>3. s \in Seq(S) /\ Len(s) = c
  BY <1>1, <1>2, NthIs DEF Descending
<1>4. \A n \in 1..c : s[n] \in S /\ Rank(S, s[n]) = c + 1 - n
  BY <1>2, NthIs
<1>5. \A n \in 1..c : NotOlder(S, s[n]) = n
  <2> TAKE n \in 1..c
  <2>1. NotOlder(S, s[n]) = c + 1 - Rank(S, s[n])
    BY <1>4, NotOlderIs
  <2> QED
    BY <1>1, <1>4, <2>1
<1>6. Once(s)
  BY <1>3, <1>5 DEF Once
<1>7. ASSUME NEW i \in S PROVE NotOlder(S, i) \in 1..c /\ s[NotOlder(S, i)] = i
  <2>1. NotOlder(S, i) = c + 1 - Rank(S, i) /\ Rank(S, i) \in 1..c
    BY NotOlderIs, RankType
  <2>2. NotOlder(S, i) \in 1..c /\ c + 1 - NotOlder(S, i) = Rank(S, i)
    BY <1>1, <2>1
  <2> QED
    BY <1>2, <2>2, NthOfRank
<1> QED
  BY <1>3, <1>5, <1>6, <1>7

\* Filtered, a sequence has the entries at the places that are kept, each once if it had them once.
LEMMA KeepIs ==
  ASSUME NEW X, NEW s \in Seq(X), NEW K \in SUBSET DOMAIN s
  PROVE  /\ Keep(s, K) \in Seq(X)
         /\ \A n \in 1..Len(Keep(s, K)) : \E k \in K : Keep(s, K)[n] = s[k]
         /\ \A k \in K : \E n \in 1..Len(Keep(s, K)) : Keep(s, K)[n] = s[k]
         /\ Once(s) => Once(Keep(s, K))
<1> DEFINE c == Cardinality(K)  t == Keep(s, K)
<1>1. DOMAIN s = 1..Len(s) /\ Len(s) \in Nat
  OBVIOUS
<1>2. IsFiniteSet(K) /\ K \in SUBSET Nat
  <2>1. IsFiniteSet(1..Len(s))
    BY <1>1, FS_Interval
  <2>2. K \in SUBSET (1..Len(s)) /\ K \in SUBSET Nat
    BY <1>1
  <2> QED
    BY <2>1, <2>2, FS_Subset, Zenon
<1>3. c \in Nat
  BY <1>2, FS_CardinalityType
<1>4. \A n \in 1..c : Nth(K, n) \in K /\ t[n] = s[Nth(K, n)]
  BY <1>2, NthIs DEF Keep
<1>5. t \in Seq(X) /\ Len(t) = c
  <2>1. \A n \in 1..c : t[n] \in X
    BY <1>1, <1>4
  <2> QED
    BY <1>3, <2>1 DEF Keep
<1>6. \A n \in 1..Len(t) : \E k \in K : t[n] = s[k]
  BY <1>4, <1>5
<1>7. \A k \in K : \E n \in 1..Len(t) : t[n] = s[k]
  <2> TAKE k \in K
  <2>1. Rank(K, k) \in 1..c /\ Nth(K, Rank(K, k)) = k
    BY <1>2, RankType, NthOfRank
  <2> QED
    BY <1>4, <1>5, <2>1
<1>8. ASSUME Once(s) PROVE Once(t)
  <2>1. \A m, n \in 1..c : t[m] = t[n] => Nth(K, m) = Nth(K, n)
    BY <1>1, <1>4, <1>8 DEF Once
  <2> QED
    BY <1>2, <1>5, <2>1, NthInjective DEF Once
<1> QED
  BY <1>5, <1>6, <1>7, <1>8

-----------------------------------------------------------------------------
\* The modules of the lists count, sort and filter as their library does.
LEMMA CountedAlike ==
  ASSUME NEW S
  PROVE  Pag!Cardinality(S) = Cardinality(S) /\ Gal!Cardinality(S) = Cardinality(S)
  BY DEF Pag!Cardinality, Gal!Cardinality, Cardinality

LEMMA NthAlike ==
  ASSUME NEW S, NEW n
  PROVE  Pag!Nth(S, n) = Nth(S, n) /\ Gal!Nth(S, n) = Nth(S, n)
  BY CountedAlike DEF Pag!Nth, Gal!Nth, Nth

LEMMA SortedAlike ==
  ASSUME NEW S
  PROVE  Pag!Descending(S) = Descending(S) /\ Gal!Descending(S) = Descending(S)
  BY CountedAlike, NthAlike DEF Pag!Descending, Gal!Descending, Descending

LEMMA KeptAlike ==
  ASSUME NEW s, NEW K
  PROVE  Pag!Keep(s, K) = Keep(s, K) /\ Gal!Keep(s, K) = Keep(s, K)
  BY CountedAlike, NthAlike DEF Pag!Keep, Gal!Keep, Keep

Entries(s) == {s[n] : n \in 1..Len(s)}

\* Appended are those of t that s does not have, each once.
Appended(s, t) == s \o Keep(t, {n \in DOMAIN t : t[n] \notin Entries(s)})

LEMMA AppendedAlike ==
  ASSUME NEW X, NEW s \in Seq(X), NEW t
  PROVE  Pag!AppendUniqueIds(s, t) = Appended(s, t) /\ Gal!appendUniqueRecords(s, t) = Appended(s, t)
<1>1. Pag!ToSet(s) = Entries(s) /\ Gal!ToSet(s) = Entries(s)
  BY DEF Pag!ToSet, Gal!ToSet, Entries
<1> QED
  BY <1>1, KeptAlike DEF Pag!AppendUniqueIds, Gal!appendUniqueRecords, Appended

\* Appended to a list, a page adds what the list does not have, and moves nothing.
LEMMA AppendedIs ==
  ASSUME NEW X, NEW s \in Seq(X), NEW t \in Seq(X), Once(s), Once(t)
  PROVE  /\ Appended(s, t) \in Seq(X) /\ Once(Appended(s, t))
         /\ Entries(Appended(s, t)) = Entries(s) \cup Entries(t)
         /\ Len(s) <= Len(Appended(s, t)) /\ SubSeq(Appended(s, t), 1, Len(s)) = s
<1> DEFINE K == {n \in DOMAIN t : t[n] \notin Entries(s)}  u == Keep(t, K)  a == Appended(s, t)
<1>1. K \in SUBSET DOMAIN t
  OBVIOUS
<1>2. /\ u \in Seq(X) /\ Once(u)
      /\ \A n \in 1..Len(u) : \E k \in K : u[n] = t[k]
      /\ \A k \in K : \E n \in 1..Len(u) : u[n] = t[k]
  BY <1>1, KeepIs, Zenon
<1>0. \A k \in DOMAIN t : k \in 1..Len(t) /\ (k \in K <=> t[k] \notin Entries(s))
  OBVIOUS
<1> HIDE DEF K, u
<1>3. \A n \in 1..Len(u) : u[n] \in Entries(t) \ Entries(s)
  <2> TAKE n \in 1..Len(u)
  <2>1. PICK k \in K : u[n] = t[k]
    BY <1>2
  <2>2. k \in 1..Len(t) /\ t[k] \notin Entries(s)
    BY <1>0, <1>1
  <2>3. t[k] \in Entries(t)
    BY <2>2 DEF Entries
  <2> QED
    BY <2>1, <2>2, <2>3
<1>4. \A n \in 1..Len(t) : t[n] \in Entries(s) \/ \E m \in 1..Len(u) : u[m] = t[n]
  <2>1. DOMAIN t = 1..Len(t)
    OBVIOUS
  <2> QED
    BY <1>0, <1>2, <2>1
<1>5. a = s \o u
  BY DEF Appended, u, K
<1> HIDE DEF a
<1>6. /\ a \in Seq(X) /\ Len(a) = Len(s) + Len(u)
      /\ \A n \in 1..Len(s) : a[n] = s[n]
      /\ \A n \in 1..Len(u) : a[Len(s) + n] = u[n]
  BY <1>2, <1>5
<1>7. \A n \in 1..Len(a) : n \in 1..Len(s) \/ \E m \in 1..Len(u) : n = Len(s) + m
  <2> TAKE n \in 1..Len(a)
  <2>1. n \in 1..Len(s) \/ (n - Len(s) \in 1..Len(u) /\ n = Len(s) + (n - Len(s)))
    BY <1>2, <1>6
  <2> QED
    BY <2>1
<1>8. Once(a)
  <2> SUFFICES ASSUME NEW m \in 1..Len(a), NEW n \in 1..Len(a), a[m] = a[n] PROVE m = n
    BY DEF Once
  <2>1. CASE m \in 1..Len(s) /\ n \in 1..Len(s)
    BY <1>6, <2>1 DEF Once
  <2>2. ASSUME NEW i \in 1..Len(u), NEW j \in 1..Len(u), m = Len(s) + i, n = Len(s) + j PROVE m = n
    BY <1>2, <1>6, <2>2 DEF Once
  <2>3. ASSUME NEW x \in 1..Len(s), NEW j \in 1..Len(u) PROVE a[x] # a[Len(s) + j]
    BY <1>3, <1>6 DEF Entries
  <2> QED
    BY <1>7, <2>1, <2>2, <2>3
<1>9. Entries(a) = Entries(s) \cup Entries(t)
  <2>1. \A n \in 1..Len(a) : a[n] \in Entries(s) \cup Entries(t)
    BY <1>3, <1>6, <1>7 DEF Entries
  <2>2. \A n \in 1..Len(s) : s[n] \in Entries(a)
    BY <1>2, <1>6 DEF Entries
  <2>3. \A n \in 1..Len(u) : u[n] \in Entries(a)
    <3> TAKE n \in 1..Len(u)
    <3>1. Len(s) + n \in 1..Len(a) /\ a[Len(s) + n] = u[n]
      BY <1>2, <1>6
    <3> QED
      BY <3>1 DEF Entries
  <2>4. \A n \in 1..Len(t) : t[n] \in Entries(a)
    <3> TAKE n \in 1..Len(t)
    <3>1. CASE t[n] \in Entries(s)
      BY <2>2, <3>1 DEF Entries
    <3>2. CASE \E m \in 1..Len(u) : u[m] = t[n]
      BY <2>3, <3>2
    <3> QED
      BY <1>4, <3>1, <3>2
  <2>5. Entries(a) \subseteq Entries(s) \cup Entries(t)
    <3> SUFFICES ASSUME NEW n \in 1..Len(a) PROVE a[n] \in Entries(s) \cup Entries(t)
      BY DEF Entries
    <3> QED
      BY <2>1
  <2>6. Entries(s) \subseteq Entries(a) /\ Entries(t) \subseteq Entries(a)
    BY <2>2, <2>4 DEF Entries
  <2> QED
    BY <2>5, <2>6
<1>10. Len(s) <= Len(a) /\ SubSeq(a, 1, Len(s)) = s
  BY <1>2, <1>6
<1> QED
  BY <1>6, <1>8, <1>9, <1>10 DEF a

\* What a query finds is finite, and numbered.
LEMMA FoundIs ==
  ASSUME pag_existing \subseteq Records, NEW q \in Queries
  PROVE  Pag!Found(q) \in SUBSET Nat /\ Pag!Found(q) \subseteq pag_existing /\ IsFiniteSet(Pag!Found(q))
<1>1. Records \in SUBSET Nat /\ IsFiniteSet(Records)
  BY ListsAssumption DEF ListsAssumption
<1>2. Pag!Found(q) \in SUBSET Records
  BY <1>1 DEF Pag!Found
<1>3. IsFiniteSet(Pag!Found(q))
  BY <1>1, <1>2, FS_Subset, Zenon
<1> QED
  BY <1>1, <1>2, <1>3 DEF Pag!Found

\* After p pages, or more, every one of F has had its place.
Fits(F, p) == \A m \in Nat : m >= p => m * PageSize >= Cardinality(F)

\* The last page is the one up to which all records find a place.
LEMMA PagesIs ==
  ASSUME pag_existing \subseteq Records, NEW q \in Queries
  PROVE  Pag!Pages(q) \in Nat /\ Fits(Pag!Found(q), Pag!Pages(q))
<1> DEFINE n == Cardinality(Pag!Found(q))  t == Pag!Pages(q)
<1>1. n \in Nat /\ PageSize \in Nat /\ PageSize > 0
  BY FoundIs, FS_CardinalityType, ListsAssumption DEF ListsAssumption
<1>2. t = IF n = 0 THEN 1 ELSE (n + PageSize - 1) \div PageSize
  BY CountedAlike DEF Pag!Pages
<1> HIDE DEF n, t
<1>3. CASE n = 0
  <2>1. \A p \in Nat : p * PageSize >= 0
    BY <1>1
  <2> QED
    BY <1>1, <1>2, <1>3, <2>1 DEF n, t, Fits
<1>4. CASE n # 0
  <2>1. t \in Nat
    BY <1>1, <1>2, <1>4
  <2>2. t * PageSize >= n
    <3>1. t = (n + PageSize - 1) \div PageSize
      BY <1>2, <1>4
    <3>2. n + PageSize - 1 \in Nat
      BY <1>1
    <3>3. t * PageSize <= n + PageSize - 1 /\ n + PageSize - 1 < t * PageSize + PageSize
      BY <1>1, <3>1, <3>2
    <3>4. t * PageSize \in Nat
      BY <1>1, <2>1
    <3> QED
      BY <1>1, <3>3, <3>4
  <2>3. \A p \in Nat : p >= t => p * PageSize >= t * PageSize
    BY <1>1, <2>1
  <2>4. \A p \in Nat : p * PageSize \in Nat
    BY <1>1
  <2>5. \A p \in Nat : p >= t => p * PageSize >= n
    BY <1>1, <2>1, <2>2, <2>3, <2>4
  <2> QED
    BY <2>1, <2>5 DEF n, t, Fits
<1> QED
  BY <1>3, <1>4

\* A page holds records of the query that are older than those of the pages before, and leaves none
\* of its own out.
LEMMA PageIs ==
  ASSUME pag_existing \subseteq Records, NEW q \in Queries, NEW p \in Nat
  PROVE  /\ Pag!PageOf(q, p + 1) \in Seq(Pag!Found(q)) /\ Once(Pag!PageOf(q, p + 1))
         /\ \A r \in Entries(Pag!PageOf(q, p + 1)) : NotOlder(Pag!Found(q), r) > p * PageSize
         /\ \A r \in Pag!Found(q) :
               \/ NotOlder(Pag!Found(q), r) <= p * PageSize
               \/ NotOlder(Pag!Found(q), r) > (p + 1) * PageSize
               \/ r \in Entries(Pag!PageOf(q, p + 1))
<1> DEFINE F == Pag!Found(q)  c == Cardinality(F)  all == Descending(F)  a == p * PageSize
           last == IF a + PageSize < c THEN a + PageSize ELSE c
           s == SubSeq(all, a + 1, last)
<1>1. F \in SUBSET Nat /\ IsFiniteSet(F)
  BY FoundIs
<1>2. c \in Nat /\ PageSize \in Nat /\ PageSize > 0
  BY <1>1, FS_CardinalityType, ListsAssumption DEF ListsAssumption
<1>3. a \in Nat /\ (p + 1) * PageSize = a + PageSize /\ ((p + 1) - 1) * PageSize = a
  BY <1>2
<1>4. /\ all \in Seq(F) /\ Len(all) = c /\ Once(all)
      /\ \A n \in 1..c : NotOlder(F, all[n]) = n
      /\ \A i \in F : NotOlder(F, i) \in 1..c /\ all[NotOlder(F, i)] = i
  BY <1>1, DescendingIs, Zenon
<1>5. Pag!PageOf(q, p + 1) = s
  BY <1>3, <1>4, SortedAlike DEF Pag!PageOf
<1> HIDE DEF a, c, all, F
<1>6. last \in Nat /\ last <= c
  BY <1>2, <1>3
<1>7. /\ s \in Seq(F) /\ Len(s) = IF a + 1 <= last THEN last - (a + 1) + 1 ELSE 0
      /\ \A i \in 1..last - (a + 1) + 1 : s[i] = all[(a + 1) + i - 1]
  <2>1. a + 1 \in Int /\ last \in Int /\ \A i \in (a + 1)..last : all[i] \in F
    BY <1>2, <1>3, <1>4, <1>6
  <2> HIDE DEF last
  <2> QED
    BY <2>1, SubSeqProperties
<1>8. Len(s) \in Nat /\ \A i \in 1..Len(s) : a + i \in 1..c /\ a + i <= last /\ s[i] = all[a + i]
  <2> HIDE DEF last, s
  <2>1. Len(s) \in Nat
    BY <1>3, <1>6, <1>7
  <2>2. ASSUME NEW i \in 1..Len(s) PROVE a + i \in 1..c /\ a + i <= last
    BY <1>2, <1>3, <1>6, <1>7, <2>1
  <2>3. ASSUME NEW i \in 1..Len(s) PROVE s[i] = all[a + i]
    <3>1. i \in 1..last - (a + 1) + 1 /\ (a + 1) + i - 1 = a + i
      BY <1>3, <1>6, <1>7, <2>1
    <3> QED
      BY <1>7, <3>1
  <2> QED
    BY <2>1, <2>2, <2>3
<1>9. \A n \in (a + 1)..last : n - a \in 1..Len(s) /\ s[n - a] = all[n]
  BY <1>2, <1>3, <1>6, <1>7
<1> HIDE DEF s
<1>10. Once(s)
  <2>1. \A m, n \in 1..Len(s) : s[m] = s[n] => a + m = a + n
    BY <1>4, <1>8 DEF Once
  <2> QED
    BY <1>3, <1>8, <2>1 DEF Once
<1>11. \A i \in 1..Len(s) : NotOlder(F, s[i]) > a
  BY <1>2, <1>3, <1>4, <1>8
<1>12. ASSUME NEW r \in F, ~(NotOlder(F, r) <= a), ~(NotOlder(F, r) > a + PageSize)
       PROVE  r \in Entries(s)
  <2>1. NotOlder(F, r) \in (a + 1)..last
    BY <1>2, <1>3, <1>4, <1>12
  <2>2. r = s[NotOlder(F, r) - a] /\ NotOlder(F, r) - a \in 1..Len(s)
    BY <1>4, <1>9, <2>1
  <2> QED
    BY <2>2 DEF Entries
<1>13. \A r \in Entries(s) : NotOlder(F, r) > a
  BY <1>11 DEF Entries
<1> QED
  BY <1>3, <1>5, <1>7, <1>10, <1>12, <1>13 DEF F, a

-----------------------------------------------------------------------------
(* One's own records.  The invariant says what the request that the hook   *)
(* waits for may bring: a page that continues the list, after which no     *)
(* record is left out but those that entered the query meanwhile, and those*)
(* that a later page brings.                                               *)

USE DEF Pag!server, Pag!history, Pag!ghosts, Pag!budget, Pag!props, Pag!state, Pag!sentinel, pagVars

PagRequest ==
    [query : Queries, page : Nat \ {0}, mode : {"reset", "append"}, current : BOOLEAN,
     phase : {"sent", "counted", "done", "failed"}, total : Nat, torn : BOOLEAN, ids : Seq(Nat),
     copies : [Records -> SUBSET Queries]]

PagTypes ==
    /\ pag_existing \subseteq pag_created /\ pag_existing \subseteq Records
    /\ pag_profile \in [Records -> SUBSET Queries]
    /\ pag_ever \in [Queries -> SUBSET Records]
    /\ \A q \in Queries : Pag!Found(q) \subseteq pag_ever[q]
    /\ pag_query \in Queries
    /\ pag_page \in Nat /\ pag_totalPages \in Nat
    /\ pag_requests \subseteq PagRequest

PagWaits ==
    /\ \A r, s \in pag_requests : r.current /\ s.current => r = s
    /\ pag_loading <=> \E r \in pag_requests : r.current
    /\ \A r \in pag_requests : r.current =>
          /\ r.query = pag_query /\ r.page = pag_page + 1
          /\ r.mode = "reset" => pag_ids = <<>>

PagLists ==
    /\ pag_ids \in Seq(pag_ever[pag_query]) /\ Once(pag_ids)
    /\ \A r \in pag_requests : r.current => r.ids \in Seq(pag_ever[pag_query]) /\ Once(r.ids)

\* After p pages a record of F that did not enter lately (E) is in S, or still to come, if more may.
Covers(F, E, S, p, more) ==
    \A r \in F : r \in E \/ r \in S \/ (more /\ NotOlder(F, r) > p * PageSize)

PagCovers ==
    ~pag_left =>
        /\ Entries(pag_ids) \subseteq Pag!Found(pag_query) \cap pag_known
        /\ Covers(Pag!Found(pag_query), pag_entered, Entries(pag_ids), pag_page,
                  pag_page < pag_totalPages \/ pag_torn)
        /\ \A r \in pag_requests : r.current =>
              /\ r.phase = "counted" /\ ~r.torn => Fits(Pag!Found(pag_query), r.total)
              /\ r.phase = "done" =>
                    /\ Entries(r.ids) \subseteq Pag!Found(pag_query)
                    /\ Covers(Pag!Found(pag_query), pag_entered, Entries(pag_ids) \cup Entries(r.ids),
                              r.page, r.page < r.total \/ r.torn)

PagInv == PagTypes /\ PagWaits /\ PagLists /\ PagCovers

\* What is superseded is still a request, and no longer counts.
LEMMA SupersededIs ==
  ASSUME PagTypes
  PROVE  Pag!Superseded \subseteq PagRequest /\ \A r \in Pag!Superseded : ~r.current
<1>1. ASSUME NEW r \in PagRequest
      PROVE  LET a == [r EXCEPT !.current = FALSE, !.phase = IF @ = "counted" THEN "sent" ELSE @,
                                !.total = 0, !.torn = FALSE]
             IN a \in PagRequest /\ ~a.current
  BY DEF PagRequest
<1> QED
  BY <1>1 DEF PagTypes, Pag!Superseded

LEMMA NewRequestIs ==
  ASSUME NEW q \in Queries, NEW p \in Nat \ {0}, NEW m \in {"reset", "append"}
  PROVE  LET r == Pag!NewRequest(q, p, m) IN
         /\ r \in PagRequest /\ r.current /\ r.query = q /\ r.page = p /\ r.mode = m
         /\ r.phase = "sent" /\ r.ids = <<>>
  BY DEF PagRequest, Pag!NewRequest

\* Counted, answered or failed, a request takes the place it had.
Takes(r, a) ==
    /\ a \in PagRequest
    /\ a.query = r.query /\ a.page = r.page /\ a.mode = r.mode /\ a.current = r.current
    /\ pag_requests' = (pag_requests \ {r}) \cup {a}
    /\ UNCHANGED <<pag_created, pag_existing, pag_profile, pag_known, pag_query, pag_ids, pag_page,
                   pag_totalPages, pag_loading, pag_ever, pag_entered, pag_left, pag_torn>>

LEMMA CountIs ==
  ASSUME PagTypes, NEW r \in pag_requests, Pag!Count(r)
  PROVE  \E a : Takes(r, a) /\ a.phase = "counted" /\ a.total = Pag!Pages(r.query) /\ a.ids = r.ids
<1> DEFINE a == [r EXCEPT !.phase = "counted", !.total = Pag!Pages(r.query)]
<1>1. r \in PagRequest /\ r.query \in Queries
  BY DEF PagTypes, PagRequest
<1>2. Pag!Pages(r.query) \in Nat
  BY <1>1, PagesIs DEF PagTypes
<1>3. /\ a \in PagRequest /\ a.phase = "counted" /\ a.total = Pag!Pages(r.query) /\ a.ids = r.ids
      /\ a.query = r.query /\ a.page = r.page /\ a.mode = r.mode /\ a.current = r.current
  BY <1>1, <1>2 DEF PagRequest
<1>4. /\ pag_requests' = (pag_requests \ {r}) \cup {a}
      /\ UNCHANGED <<pag_created, pag_existing, pag_profile, pag_known, pag_query, pag_ids, pag_page,
                     pag_totalPages, pag_loading, pag_ever, pag_entered, pag_left, pag_torn>>
  BY DEF Pag!Count, Pag!Becomes
<1> HIDE DEF a
<1> QED
  BY <1>3, <1>4 DEF Takes

LEMMA FindIs ==
  ASSUME PagTypes, NEW r \in pag_requests, Pag!Find(r)
  PROVE  /\ r.current => r.phase = "counted"
         /\ \E a : /\ Takes(r, a) /\ a.phase = "done" /\ a.total = r.total /\ a.torn = r.torn
                   /\ a.ids = Pag!PageOf(r.query, r.page)
<1> DEFINE rows == Pag!PageOf(r.query, r.page)
           copies == [x \in Records |-> IF x \in Pag!ToSet(rows) THEN pag_profile[x] ELSE {}]
           a == [r EXCEPT !.phase = "done", !.ids = rows, !.copies = copies]
<1>1. r \in PagRequest /\ r.query \in Queries /\ r.page - 1 \in Nat /\ r.page = (r.page - 1) + 1
  BY DEF PagTypes, PagRequest
<1>2. rows \in Seq(Pag!Found(r.query)) /\ Pag!Found(r.query) \in SUBSET Nat
  BY <1>1, PageIs, FoundIs DEF PagTypes
<1>3. rows \in Seq(Nat)
  BY <1>2, SeqMonotonic
<1>4. copies \in [Records -> SUBSET Queries]
  BY DEF PagTypes
<1>5. /\ pag_requests' = (pag_requests \ {r}) \cup {a} /\ (r.current => r.phase = "counted")
      /\ UNCHANGED <<pag_created, pag_existing, pag_profile, pag_known, pag_query, pag_ids, pag_page,
                     pag_totalPages, pag_loading, pag_ever, pag_entered, pag_left, pag_torn>>
  BY DEF Pag!Find, Pag!Becomes
<1> HIDE DEF rows, copies
<1>6. /\ a \in PagRequest /\ a.phase = "done" /\ a.total = r.total /\ a.torn = r.torn /\ a.ids = rows
      /\ a.query = r.query /\ a.page = r.page /\ a.mode = r.mode /\ a.current = r.current
  BY <1>1, <1>3, <1>4 DEF PagRequest
<1> HIDE DEF a
<1> QED
  BY <1>5, <1>6 DEF Takes, rows

LEMMA FailIs ==
  ASSUME PagTypes, NEW r \in pag_requests, Pag!Fail(r)
  PROVE  \E a : Takes(r, a) /\ a.phase = "failed" /\ a.ids = r.ids
<1> DEFINE a == [r EXCEPT !.phase = "failed"]
<1>1. r \in PagRequest
  BY DEF PagTypes
<1>2. /\ a \in PagRequest /\ a.phase = "failed" /\ a.ids = r.ids
      /\ a.query = r.query /\ a.page = r.page /\ a.mode = r.mode /\ a.current = r.current
  BY <1>1 DEF PagRequest
<1>3. /\ pag_requests' = (pag_requests \ {r}) \cup {a}
      /\ UNCHANGED <<pag_created, pag_existing, pag_profile, pag_known, pag_query, pag_ids, pag_page,
                     pag_totalPages, pag_loading, pag_ever, pag_entered, pag_left, pag_torn>>
  BY DEF Pag!Fail, Pag!Becomes
<1> HIDE DEF a
<1> QED
  BY <1>2, <1>3 DEF Takes

\* A change of what a record matches tears a count of the query that it enters, and no more.
Mark(a, enters) == [a EXCEPT !.torn = @ \/ (a.current /\ a.phase = "counted" /\ enters)]

LEMMA MarkIs ==
  ASSUME NEW a \in PagRequest, NEW enters \in BOOLEAN
  PROVE  LET b == Mark(a, enters) IN
         /\ b \in PagRequest /\ b.query = a.query /\ b.page = a.page /\ b.mode = a.mode
         /\ b.current = a.current /\ b.phase = a.phase /\ b.total = a.total /\ b.ids = a.ids
         /\ b.torn <=> a.torn \/ (a.current /\ a.phase = "counted" /\ enters)
  BY DEF PagRequest, Mark

Enters(old, new)  == pag_query \in new \ old
Becoming(n, old, new) ==
    /\ old \in SUBSET Queries /\ new \in SUBSET Queries
    /\ pag_profile' \in [Records -> SUBSET Queries]
    /\ pag_existing' \subseteq pag_created' /\ pag_existing' \subseteq Records
    /\ \A q \in Queries :
          /\ n \in Pag!Found(q) <=> q \in old
          /\ Pag!Found(q)' = IF q \in new THEN Pag!Found(q) \cup {n} ELSE Pag!Found(q) \ {n}
    /\ pag_ever' = [q \in Queries |-> IF q \in new THEN pag_ever[q] \cup {n} ELSE pag_ever[q]]
    /\ pag_entered' = IF Enters(old, new) THEN pag_entered \cup {n} ELSE pag_entered
    /\ pag_left' = (pag_left \/ pag_query \in old \ new)
    /\ pag_requests' = {Mark(a, Enters(old, new)) : a \in pag_requests}
    /\ UNCHANGED <<pag_known, pag_query, pag_ids, pag_page, pag_totalPages, pag_loading, pag_torn>>

\* Created, changed or deleted, a record of the server enters some queries and leaves others.
LEMMA BecomingIs ==
  ASSUME PagTypes, NEW n \in Records,
         (\E p \in Profiles : Pag!Appear(n, p) \/ Pag!Turn(n, p)) \/ Pag!Vanish(n)
  PROVE  \E old, new : Becoming(n, old, new)
<1>1. Profiles \subseteq SUBSET Queries
  BY ListsAssumption DEF ListsAssumption
<1>2. ASSUME NEW old \in SUBSET Queries, NEW new \in SUBSET Queries, Pag!Matches(n, old, new)
      PROVE  /\ pag_profile' = [pag_profile EXCEPT ![n] = new]
             /\ pag_profile' \in [Records -> SUBSET Queries] /\ pag_profile'[n] = new
             /\ \A r \in Records \ {n} : pag_profile'[r] = pag_profile[r]
             /\ pag_ever' = [q \in Queries |-> IF q \in new THEN pag_ever[q] \cup {n} ELSE pag_ever[q]]
             /\ pag_entered' = IF Enters(old, new) THEN pag_entered \cup {n} ELSE pag_entered
             /\ pag_left' = (pag_left \/ pag_query \in old \ new)
             /\ pag_requests' = {Mark(a, Enters(old, new)) : a \in pag_requests}
             /\ UNCHANGED <<pag_query, pag_ids, pag_page, pag_totalPages, pag_loading, pag_torn>>
  BY <1>2 DEF Pag!Matches, Enters, Mark, PagTypes
<1>3. ASSUME NEW p \in Profiles, Pag!Appear(n, p) PROVE Becoming(n, {}, p)
  <2>1. /\ Pag!Matches(n, {}, p) /\ n \notin pag_created /\ p \in SUBSET Queries
        /\ pag_created' = pag_created \cup {n} /\ pag_existing' = pag_existing \cup {n}
        /\ pag_known' = pag_known
    BY <1>1, <1>3 DEF Pag!Appear
  <2>2. \A q \in Queries : n \notin Pag!Found(q)
    BY <2>1 DEF PagTypes, Pag!Found
  <2>3. \A q \in Queries : Pag!Found(q)' = IF q \in p THEN Pag!Found(q) \cup {n} ELSE Pag!Found(q) \ {n}
    <3> SUFFICES ASSUME NEW q \in Queries
                 PROVE  Pag!Found(q)' = IF q \in p THEN Pag!Found(q) \cup {n} ELSE Pag!Found(q) \ {n}
      OBVIOUS
    <3>1. pag_profile'[n] = p /\ \A r \in Records \ {n} : pag_profile'[r] = pag_profile[r]
      BY <1>2, <2>1
    <3>2. \A r \in pag_existing : r \in Records
      BY DEF PagTypes
    <3>3. \A r : r \in Pag!Found(q)' <=> r \in pag_existing' /\ q \in pag_profile'[r]
      BY DEF Pag!Found
    <3>4. \A r : r \in Pag!Found(q) <=> r \in pag_existing /\ q \in pag_profile[r]
      BY DEF Pag!Found
    <3> QED
      BY <2>1, <3>1, <3>2, <3>3, <3>4
  <2> QED
    BY <1>2, <2>1, <2>2, <2>3 DEF Becoming, PagTypes
<1>4. ASSUME NEW p \in Profiles, Pag!Turn(n, p) PROVE Becoming(n, pag_profile[n], p)
  <2>1. /\ Pag!Matches(n, pag_profile[n], p) /\ n \in pag_existing /\ p \in SUBSET Queries
        /\ pag_profile[n] \in SUBSET Queries
        /\ UNCHANGED <<pag_created, pag_existing, pag_known>>
    BY <1>1, <1>4 DEF Pag!Turn, PagTypes
  <2>2. \A q \in Queries : n \in Pag!Found(q) <=> q \in pag_profile[n]
    BY <2>1 DEF Pag!Found
  <2>3. \A q \in Queries : Pag!Found(q)' = IF q \in p THEN Pag!Found(q) \cup {n} ELSE Pag!Found(q) \ {n}
    <3> SUFFICES ASSUME NEW q \in Queries
                 PROVE  Pag!Found(q)' = IF q \in p THEN Pag!Found(q) \cup {n} ELSE Pag!Found(q) \ {n}
      OBVIOUS
    <3>1. pag_profile'[n] = p /\ \A r \in Records \ {n} : pag_profile'[r] = pag_profile[r]
      BY <1>2, <2>1
    <3>2. \A r \in pag_existing : r \in Records
      BY DEF PagTypes
    <3>3. \A r : r \in Pag!Found(q)' <=> r \in pag_existing' /\ q \in pag_profile'[r]
      BY DEF Pag!Found
    <3>4. \A r : r \in Pag!Found(q) <=> r \in pag_existing /\ q \in pag_profile[r]
      BY DEF Pag!Found
    <3> QED
      BY <2>1, <3>1, <3>2, <3>3, <3>4
  <2> QED
    BY <1>2, <2>1, <2>2, <2>3 DEF Becoming, PagTypes
<1>5. ASSUME Pag!Vanish(n) PROVE Becoming(n, pag_profile[n], {})
  <2>1. /\ Pag!Matches(n, pag_profile[n], {}) /\ n \in pag_existing
        /\ pag_profile[n] \in SUBSET Queries /\ {} \in SUBSET Queries
        /\ pag_existing' = pag_existing \ {n} /\ UNCHANGED <<pag_created, pag_known>>
    BY <1>5 DEF Pag!Vanish, PagTypes
  <2>2. \A q \in Queries : n \in Pag!Found(q) <=> q \in pag_profile[n]
    BY <2>1 DEF Pag!Found
  <2>3. \A q \in Queries : Pag!Found(q)' = Pag!Found(q) \ {n}
    <3> SUFFICES ASSUME NEW q \in Queries
                 PROVE  Pag!Found(q)' = Pag!Found(q) \ {n}
      OBVIOUS
    <3>1. pag_profile'[n] = {} /\ \A r \in Records \ {n} : pag_profile'[r] = pag_profile[r]
      BY <1>2, <2>1
    <3>2. \A r \in pag_existing : r \in Records
      BY DEF PagTypes
    <3>3. \A r : r \in Pag!Found(q)' <=> r \in pag_existing' /\ q \in pag_profile'[r]
      BY DEF Pag!Found
    <3>4. \A r : r \in Pag!Found(q) <=> r \in pag_existing /\ q \in pag_profile[r]
      BY DEF Pag!Found
    <3> QED
      BY <2>1, <3>1, <3>2, <3>3, <3>4
  <2> QED
    BY <1>2, <2>1, <2>2, <2>3 DEF Becoming, PagTypes
<1> QED
  BY <1>3, <1>4, <1>5

\* What neither the server nor the requests notice.
Unseen ==
    UNCHANGED <<pag_created, pag_existing, pag_profile, pag_ever, pag_entered, pag_query, pag_ids,
                pag_page, pag_totalPages, pag_torn, pag_loading, pag_requests>>

\* A step of the list is one of these.
LEMMA PagSteps ==
  ASSUME PagTypes, Pag!Next
  PROVE  \/ \E r \in pag_requests :
               Pag!Count(r) \/ Pag!Find(r) \/ Pag!Fail(r) \/ Pag!Loaded(r) \/ Pag!LoadFailed(r)
               \/ Pag!Ignored(r)
         \/ \E n \in Records : \E old, new : Becoming(n, old, new)
         \/ Unseen /\ pag_known \subseteq pag_known' /\ pag_left' = pag_left
         \/ Unseen /\ \E n \in Records : Pag!Forget(n)
         \/ \E q \in Queries, on \in BOOLEAN : Pag!Reset(q, on)
         \/ /\ Pag!LoadMore
            /\ UNCHANGED <<pag_created, pag_existing, pag_profile, pag_known, pag_ever, pag_entered,
                           pag_left, pag_query>>
<1>1. ASSUME NEW n \in Records, NEW p \in Profiles, Pag!Learn(n, p)
      PROVE  Unseen /\ pag_known \subseteq pag_known' /\ pag_left' = pag_left
  BY <1>1 DEF Pag!Learn, Unseen
<1>2. ASSUME NEW n \in Records, Pag!Forget(n) PROVE Unseen
  BY <1>2 DEF Pag!Forget, Unseen
<1>3. ASSUME NEW n \in Records, (\E p \in Profiles : Pag!Appear(n, p) \/ Pag!Turn(n, p)) \/ Pag!Vanish(n)
      PROVE  \E old, new : Becoming(n, old, new)
  BY <1>3, BecomingIs
<1>4. CASE Pag!ChangeQuery \/ Pag!Notified \/ Pag!Scroll
  BY <1>4 DEF Pag!ChangeQuery, Pag!Notified, Pag!Scroll, Unseen
<1> QED
  BY <1>1, <1>2, <1>3, <1>4 DEF Pag!Next

LEMMA PagTypesNext ==
  ASSUME PagTypes, Pag!Next
  PROVE  PagTypes'
<1>0. \A r \in pag_requests : r \in PagRequest
  BY DEF PagTypes
<1>f. ASSUME UNCHANGED <<pag_existing, pag_profile>> PROVE \A q \in Queries : Pag!Found(q)' = Pag!Found(q)
  BY <1>f DEF Pag!Found
<1>1. ASSUME NEW r \in pag_requests, NEW a, Takes(r, a) PROVE PagTypes'
  BY <1>1, <1>f DEF PagTypes, Takes
<1>2. ASSUME NEW r \in pag_requests, Pag!Count(r) \/ Pag!Find(r) \/ Pag!Fail(r) PROVE PagTypes'
  BY <1>1, <1>2, CountIs, FindIs, FailIs
<1>3. ASSUME NEW r \in pag_requests, Pag!Loaded(r) PROVE PagTypes'
  <2>1. r.page \in Nat /\ r.total \in Nat
    BY <1>0 DEF PagRequest
  <2> QED
    BY <1>3, <1>f, <2>1 DEF PagTypes, Pag!Loaded
<1>4. ASSUME NEW r \in pag_requests, Pag!LoadFailed(r) \/ Pag!Ignored(r) PROVE PagTypes'
  BY <1>4, <1>f DEF PagTypes, Pag!LoadFailed, Pag!Ignored
<1>5. ASSUME NEW n \in Records, NEW old, NEW new, Becoming(n, old, new) PROVE PagTypes'
  <2>1. Enters(old, new) \in BOOLEAN
    BY DEF Enters
  <2>2. \A a \in pag_requests : Mark(a, Enters(old, new)) \in PagRequest
    BY <1>0, <2>1, MarkIs
  <2>3. pag_requests' \subseteq PagRequest
    BY <1>5, <2>2 DEF Becoming
  <2>4. pag_ever' \in [Queries -> SUBSET Records]
    BY <1>5 DEF Becoming, PagTypes
  <2>5. ASSUME NEW q \in Queries PROVE Pag!Found(q)' \subseteq pag_ever'[q]
    BY <1>5 DEF Becoming, PagTypes
  <2> QED
    BY <1>5, <2>3, <2>4, <2>5 DEF Becoming, PagTypes
<1>6. ASSUME NEW q \in Queries, NEW on \in BOOLEAN, Pag!Reset(q, on) PROVE PagTypes'
  <2>1. pag_requests' \subseteq PagRequest
    BY <1>6, SupersededIs, NewRequestIs DEF Pag!Reset
  <2> QED
    BY <1>6, <1>f, <2>1 DEF PagTypes, Pag!Reset
<1>7. CASE Pag!LoadMore /\ UNCHANGED <<pag_created, pag_existing, pag_profile, pag_ever, pag_query>>
  <2>1. pag_page + 1 \in Nat \ {0} /\ pag_query \in Queries
    BY DEF PagTypes
  <2>2. pag_requests' \subseteq PagRequest
    BY <1>7, <2>1, SupersededIs, NewRequestIs DEF Pag!LoadMore
  <2> QED
    BY <1>7, <1>f, <2>2 DEF PagTypes, Pag!LoadMore
<1>8. CASE Unseen
  BY <1>8, <1>f DEF PagTypes, Unseen
<1> QED
  BY <1>2, <1>3, <1>4, <1>5, <1>6, <1>7, <1>8, PagSteps

\* An answer waits for the hook in the place of its request.
LEMMA AnswerWaits ==
  ASSUME PagWaits, NEW r \in pag_requests, NEW a, Takes(r, a)
  PROVE  PagWaits'
<1>0. /\ a.current = r.current /\ a.query = r.query /\ a.page = r.page /\ a.mode = r.mode
      /\ pag_requests' = (pag_requests \ {r}) \cup {a}
      /\ UNCHANGED <<pag_query, pag_ids, pag_page, pag_loading>>
  BY DEF Takes
<1>1. \A x \in pag_requests' :
         \E y \in pag_requests : /\ x.current = y.current /\ x.query = y.query /\ x.page = y.page
                                 /\ x.mode = y.mode /\ ((x = a /\ y = r) \/ (x = y /\ y # r))
  <2> TAKE x \in pag_requests'
  <2>1. CASE x = a
    BY <1>0, <2>1
  <2>2. CASE x # a
    <3>1. x \in pag_requests /\ x # r
      BY <1>0, <2>2
    <3> QED
      BY <3>1
  <2> QED
    BY <2>1, <2>2
<1>2. \A x, y \in pag_requests' : x.current /\ y.current => x = y
  BY <1>1 DEF PagWaits
<1>3. (\E x \in pag_requests' : x.current) <=> (\E x \in pag_requests : x.current)
  <2>1. ASSUME NEW x \in pag_requests, x.current PROVE \E y \in pag_requests' : y.current
    <3>1. CASE x = r
      BY <1>0, <2>1, <3>1
    <3>2. CASE x # r
      BY <1>0, <2>1, <3>2
    <3> QED
      BY <3>1, <3>2
  <2>2. ASSUME NEW x \in pag_requests', x.current PROVE \E y \in pag_requests : y.current
    BY <1>1, <2>2
  <2> QED
    BY <2>1, <2>2
<1>4. pag_loading' <=> \E x \in pag_requests' : x.current
  BY <1>0, <1>3 DEF PagWaits
<1>5. \A x \in pag_requests' : x.current =>
         /\ x.query = pag_query' /\ x.page = pag_page' + 1 /\ (x.mode = "reset" => pag_ids' = <<>>)
  BY <1>0, <1>1 DEF PagWaits
<1> QED
  BY <1>2, <1>4, <1>5 DEF PagWaits

\* Torn or not, a request waits as before.
LEMMA MarkedAre ==
  ASSUME PagTypes, NEW n, NEW old, NEW new, Becoming(n, old, new)
  PROVE  /\ \A x \in pag_requests' : \E y \in pag_requests :
               /\ x = Mark(y, Enters(old, new))
               /\ x.query = y.query /\ x.page = y.page /\ x.mode = y.mode /\ x.current = y.current
               /\ x.phase = y.phase /\ x.total = y.total /\ x.ids = y.ids
               /\ x.torn <=> y.torn \/ (y.current /\ y.phase = "counted" /\ Enters(old, new))
         /\ \A y \in pag_requests : \E x \in pag_requests' : x.current = y.current
<1>1. Enters(old, new) \in BOOLEAN /\ \A y \in pag_requests : y \in PagRequest
  BY DEF Enters, PagTypes
<1>2. pag_requests' = {Mark(y, Enters(old, new)) : y \in pag_requests}
  BY DEF Becoming
<1>3. ASSUME NEW x \in pag_requests'
      PROVE  \E y \in pag_requests :
               /\ x = Mark(y, Enters(old, new))
               /\ x.query = y.query /\ x.page = y.page /\ x.mode = y.mode /\ x.current = y.current
               /\ x.phase = y.phase /\ x.total = y.total /\ x.ids = y.ids
               /\ x.torn <=> y.torn \/ (y.current /\ y.phase = "counted" /\ Enters(old, new))
  <2>1. PICK y \in pag_requests : x = Mark(y, Enters(old, new))
    BY <1>2
  <2> QED
    BY <1>1, <2>1, MarkIs
<1>4. ASSUME NEW y \in pag_requests PROVE \E x \in pag_requests' : x.current = y.current
  <2>1. Mark(y, Enters(old, new)) \in pag_requests'
    BY <1>2
  <2> QED
    BY <1>1, <2>1, MarkIs
<1> QED
  BY <1>3, <1>4

\* One request at most can end the wait, and it is for what comes next.
LEMMA PagWaitsNext ==
  ASSUME PagTypes, PagWaits, Pag!Next
  PROVE  PagWaits'
<1>1. ASSUME NEW r \in pag_requests, Pag!Count(r) \/ Pag!Find(r) \/ Pag!Fail(r) PROVE PagWaits'
  BY <1>1, CountIs, FindIs, FailIs, AnswerWaits
<1>2. ASSUME NEW n \in Records, NEW old, NEW new, Becoming(n, old, new) PROVE PagWaits'
  <2>1. UNCHANGED <<pag_query, pag_ids, pag_page, pag_loading>>
    BY <1>2 DEF Becoming
  <2>2. \A x, y \in pag_requests' : x.current /\ y.current => x = y
    BY <1>2, MarkedAre DEF PagWaits
  <2>3. (\E x \in pag_requests' : x.current) <=> (\E x \in pag_requests : x.current)
    BY <1>2, MarkedAre
  <2>4. \A x \in pag_requests' : x.current =>
           /\ x.query = pag_query /\ x.page = pag_page + 1 /\ (x.mode = "reset" => pag_ids = <<>>)
    BY <1>2, MarkedAre DEF PagWaits
  <2> QED
    BY <2>1, <2>2, <2>3, <2>4 DEF PagWaits
<1>3. ASSUME NEW r \in pag_requests, Pag!Loaded(r) PROVE PagWaits'
  BY <1>3 DEF PagWaits, Pag!Loaded, Pag!Concerns
<1>4. ASSUME NEW r \in pag_requests, Pag!LoadFailed(r) PROVE PagWaits'
  BY <1>4 DEF PagWaits, Pag!LoadFailed, Pag!Concerns
<1>5. ASSUME NEW r \in pag_requests, Pag!Ignored(r) PROVE PagWaits'
  BY <1>5 DEF PagWaits, Pag!Ignored, Pag!Concerns
<1>6. CASE Unseen
  BY <1>6 DEF PagWaits, Unseen
<1>7. ASSUME NEW q \in Queries, NEW on \in BOOLEAN, Pag!Reset(q, on) PROVE PagWaits'
  <2>1. CASE on
    BY <1>7, <2>1, SupersededIs, NewRequestIs DEF PagWaits, Pag!Reset
  <2>2. CASE ~on
    BY <1>7, <2>2, SupersededIs DEF PagWaits, Pag!Reset
  <2> QED
    BY <2>1, <2>2
<1>8. CASE Pag!LoadMore /\ UNCHANGED pag_query
  <2>1. pag_page + 1 \in Nat \ {0} /\ pag_query \in Queries
    BY DEF PagTypes
  <2> QED
    BY <1>8, <2>1, SupersededIs, NewRequestIs DEF PagWaits, Pag!LoadMore
<1> QED
  BY <1>1, <1>2, <1>3, <1>4, <1>5, <1>6, <1>7, <1>8, PagSteps

\* Whatever has come has matched the query, each record once.
LEMMA PagListsNext ==
  ASSUME PagTypes, PagWaits, PagLists, Pag!Next
  PROVE  PagLists'
<1>1. ASSUME NEW r \in pag_requests, NEW a, Takes(r, a),
             r.current => a.ids \in Seq(pag_ever[pag_query]) /\ Once(a.ids)
      PROVE  PagLists'
  BY <1>1 DEF PagLists, Takes
<1>2. ASSUME NEW r \in pag_requests, Pag!Count(r) \/ Pag!Fail(r) PROVE PagLists'
  <2>1. PICK a : Takes(r, a) /\ a.ids = r.ids
    BY <1>2, CountIs, FailIs
  <2> QED
    BY <1>1, <2>1 DEF PagLists
<1>3. ASSUME NEW r \in pag_requests, Pag!Find(r) PROVE PagLists'
  <2>1. PICK a : Takes(r, a) /\ a.ids = Pag!PageOf(r.query, r.page)
    BY <1>3, FindIs
  <2>2. ASSUME r.current PROVE a.ids \in Seq(pag_ever[pag_query]) /\ Once(a.ids)
    <3>1. r.query = pag_query /\ r.page = pag_page + 1 /\ pag_page \in Nat /\ pag_query \in Queries
      BY <2>2 DEF PagWaits, PagTypes
    <3>2. a.ids \in Seq(Pag!Found(pag_query)) /\ Once(a.ids)
      BY <2>1, <3>1, PageIs DEF PagTypes
    <3>3. Pag!Found(pag_query) \subseteq pag_ever[pag_query]
      BY <3>1 DEF PagTypes
    <3> QED
      BY <3>2, <3>3, SeqMonotonic
  <2> QED
    BY <1>1, <2>1, <2>2
<1>4. ASSUME NEW r \in pag_requests, Pag!Loaded(r) PROVE PagLists'
  <2>1. /\ r.current /\ r.ids \in Seq(pag_ever[pag_query]) /\ Once(r.ids)
        /\ pag_requests' = pag_requests \ {r} /\ UNCHANGED <<pag_query, pag_ever>>
    BY <1>4 DEF PagLists, Pag!Loaded, Pag!Concerns
  <2>2. pag_ids' \in Seq(pag_ever[pag_query]) /\ Once(pag_ids')
    <3>1. CASE r.mode = "reset"
      BY <1>4, <2>1, <3>1 DEF Pag!Loaded
    <3>2. CASE r.mode # "reset"
      <4>1. pag_ids' = Appended(pag_ids, r.ids)
        BY <1>4, <3>2, AppendedAlike DEF PagLists, Pag!Loaded
      <4> QED
        BY <2>1, <4>1, AppendedIs DEF PagLists
    <3> QED
      BY <3>1, <3>2
  <2> QED
    BY <2>1, <2>2 DEF PagLists
<1>5. ASSUME NEW r \in pag_requests, Pag!LoadFailed(r) \/ Pag!Ignored(r) PROVE PagLists'
  BY <1>5 DEF PagLists, Pag!LoadFailed, Pag!Ignored
<1>6. ASSUME NEW n \in Records, NEW old, NEW new, Becoming(n, old, new) PROVE PagLists'
  <2>1. pag_ever[pag_query] \subseteq pag_ever'[pag_query]
    BY <1>6 DEF PagTypes, Becoming
  <2>2. UNCHANGED <<pag_ids, pag_query>>
    BY <1>6 DEF Becoming
  <2>3. \A s : s \in Seq(pag_ever[pag_query]) => s \in Seq(pag_ever'[pag_query])
    BY <2>1, SeqMonotonic
  <2>4. \A x \in pag_requests' : x.current => x.ids \in Seq(pag_ever[pag_query]) /\ Once(x.ids)
    BY <1>6, MarkedAre DEF PagLists
  <2> QED
    BY <2>2, <2>3, <2>4 DEF PagLists
<1>0. \A X : <<>> \in Seq(X) /\ Once(<<>>)
  BY DEF Once
<1>7. ASSUME NEW q \in Queries, NEW on \in BOOLEAN, Pag!Reset(q, on) PROVE PagLists'
  <2>1. pag_ids' = <<>>
    BY <1>7 DEF Pag!Reset
  <2>2. ASSUME NEW r \in pag_requests', r.current PROVE r.ids = <<>>
    BY <1>7, <2>2, SupersededIs, NewRequestIs DEF Pag!Reset
  <2> QED
    BY <1>0, <2>1, <2>2 DEF PagLists
<1>8. CASE Pag!LoadMore /\ UNCHANGED <<pag_query, pag_ever>>
  <2>1. pag_page + 1 \in Nat \ {0} /\ pag_query \in Queries
    BY DEF PagTypes
  <2>2. ASSUME NEW r \in pag_requests', r.current PROVE r.ids = <<>>
    BY <1>8, <2>1, <2>2, SupersededIs, NewRequestIs DEF Pag!LoadMore
  <2>3. pag_ids' = pag_ids
    BY <1>8 DEF Pag!LoadMore
  <2> QED
    BY <1>0, <1>8, <2>2, <2>3 DEF PagLists
<1>9. CASE Unseen
  BY <1>9 DEF PagLists, Unseen
<1> QED
  BY <1>2, <1>3, <1>4, <1>5, <1>6, <1>7, <1>8, <1>9, PagSteps

-----------------------------------------------------------------------------
(* What is shown of one's own records when the last page has come.         *)

\* More records make none of them newer.
LEMMA NotOlderGrows ==
  ASSUME NEW F, NEW G \in SUBSET Nat, IsFiniteSet(G), F \in SUBSET G, NEW i
  PROVE  NotOlder(F, i) \in Nat /\ NotOlder(G, i) \in Nat /\ NotOlder(F, i) <= NotOlder(G, i)
<1> DEFINE T == {j \in F : j >= i}  U == {j \in G : j >= i}
<1>1. T \in SUBSET U /\ U \in SUBSET G
  OBVIOUS
<1> HIDE DEF T, U
<1>2. IsFiniteSet(U)
  BY <1>1, FS_Subset, Zenon
<1>3. IsFiniteSet(T) /\ Cardinality(T) <= Cardinality(U)
  BY <1>1, <1>2, FS_Subset, Zenon
<1>4. Cardinality(T) \in Nat /\ Cardinality(U) \in Nat
  BY <1>2, <1>3, FS_CardinalityType
<1> QED
  BY <1>3, <1>4 DEF NotOlder, T, U

\* Records that enter leave the list as complete as it was.
LEMMA CoversWider ==
  ASSUME NEW F, NEW G \in SUBSET Nat, IsFiniteSet(G), NEW D, NEW E, NEW S, NEW p \in Nat, NEW more,
         F \in SUBSET G, G \ F \subseteq E, D \subseteq E, Covers(F, D, S, p, more)
  PROVE  Covers(G, E, S, p, more)
<1>1. SUFFICES ASSUME NEW r \in G
               PROVE  r \in E \/ r \in S \/ (more /\ NotOlder(G, r) > p * PageSize)
  BY DEF Covers
<1>2. CASE r \in F
  <2>1. NotOlder(F, r) \in Nat /\ NotOlder(G, r) \in Nat /\ NotOlder(F, r) <= NotOlder(G, r)
    BY NotOlderGrows
  <2>2. p * PageSize \in Nat
    BY ListsAssumption DEF ListsAssumption
  <2>3. NotOlder(F, r) > p * PageSize => NotOlder(G, r) > p * PageSize
    BY <2>1, <2>2
  <2> QED
    BY <1>2, <2>3 DEF Covers
<1>3. CASE r \notin F
  BY <1>3
<1> QED
  BY <1>2, <1>3

\* The next page leaves nothing out that the list has not already, unless the count is too low.
LEMMA CoversNext ==
  ASSUME pag_existing \subseteq Records, NEW q \in Queries, NEW p \in Nat, NEW t \in Nat, NEW E, NEW S,
         NEW more, NEW torn, ~torn => Fits(Pag!Found(q), t), Covers(Pag!Found(q), E, S, p, more)
  PROVE  Covers(Pag!Found(q), E, S \cup Entries(Pag!PageOf(q, p + 1)), p + 1, p + 1 < t \/ torn)
<1> DEFINE F == Pag!Found(q)  P == Entries(Pag!PageOf(q, p + 1))
<1>1. F \in SUBSET Nat /\ IsFiniteSet(F)
  BY FoundIs
<1>2. \A r \in F : NotOlder(F, r) <= p * PageSize \/ NotOlder(F, r) > (p + 1) * PageSize \/ r \in P
  BY PageIs
<1>3. p * PageSize \in Nat /\ (p + 1) * PageSize \in Nat /\ Cardinality(F) \in Nat
  BY <1>1, FS_CardinalityType, ListsAssumption DEF ListsAssumption
<1>4. \A r \in F : NotOlder(F, r) \in 1..Cardinality(F)
  BY <1>1, DescendingIs
<1>5. ~torn /\ p + 1 >= t => (p + 1) * PageSize >= Cardinality(F)
  BY DEF Fits
<1>6. \A r \in F : r \in E \/ r \in S \/ NotOlder(F, r) > p * PageSize
  BY DEF Covers
<1> HIDE DEF F, P
<1>7. SUFFICES ASSUME NEW r \in F
               PROVE  r \in E \/ r \in S \cup P \/ ((p + 1 < t \/ torn) /\ NotOlder(F, r) > (p + 1) * PageSize)
  BY DEF Covers, F, P
<1>8. CASE NotOlder(F, r) > (p + 1) * PageSize
  <2>1. ~((p + 1) * PageSize >= Cardinality(F))
    BY <1>3, <1>4, <1>8
  <2>2. torn \/ p + 1 < t
    BY <1>5, <2>1
  <2> QED
    BY <1>8, <2>2
<1>9. CASE NotOlder(F, r) <= p * PageSize
  <2>1. ~(NotOlder(F, r) > p * PageSize)
    BY <1>3, <1>4, <1>9
  <2> QED
    BY <1>6, <2>1
<1> QED
  BY <1>2, <1>8, <1>9

\* Before the first page everything is still to come.
LEMMA CoversAll ==
  ASSUME pag_existing \subseteq Records, NEW q \in Queries, NEW E, NEW torn
  PROVE  Covers(Pag!Found(q), E, {}, 0, 0 < 1 \/ torn)
<1>1. Pag!Found(q) \in SUBSET Nat /\ IsFiniteSet(Pag!Found(q))
  BY FoundIs
<1>2. Cardinality(Pag!Found(q)) \in Nat
  BY <1>1, FS_CardinalityType
<1>3. \A r \in Pag!Found(q) : NotOlder(Pag!Found(q), r) \in 1..Cardinality(Pag!Found(q))
  BY <1>1, DescendingIs
<1>4. \A r \in Pag!Found(q) : NotOlder(Pag!Found(q), r) > 0
  BY <1>2, <1>3
<1>5. 0 * PageSize = 0
  BY ListsAssumption DEF ListsAssumption
<1> QED
  BY <1>4, <1>5 DEF Covers

\* A record that enters a query makes the rest of it more, not less.
LEMMA PagCoversBecoming ==
  ASSUME PagInv, NEW n \in Records, NEW old, NEW new, Becoming(n, old, new)
  PROVE  PagCovers'
<1> USE DEF PagInv
<1> DEFINE F == Pag!Found(pag_query)  G == Pag!Found(pag_query)'
<1>1. SUFFICES ASSUME ~pag_left' PROVE PagCovers'
  BY DEF PagCovers
<1>2. ~pag_left /\ ~(pag_query \in old \ new) /\ pag_query \in Queries
  BY <1>1 DEF Becoming, PagTypes
<1>3. UNCHANGED <<pag_known, pag_query, pag_ids, pag_page, pag_totalPages, pag_torn>>
  BY DEF Becoming
<1>4. (n \in F <=> pag_query \in old) /\ G = IF pag_query \in new THEN F \cup {n} ELSE F \ {n}
  BY <1>2, <1>3 DEF Becoming
<1>5. F \in SUBSET G /\ (Enters(old, new) \/ G = F) /\ G \subseteq F \cup {n}
  BY <1>2, <1>4 DEF Enters
<1>6. F \in SUBSET Nat /\ IsFiniteSet(F)
  BY FoundIs DEF PagTypes
<1>7. G \in SUBSET Nat /\ IsFiniteSet(G)
  <2>1. n \in Nat
    BY ListsAssumption DEF ListsAssumption
  <2>2. IsFiniteSet(F \cup {n})
    BY <1>6, FS_AddElement
  <2> HIDE DEF F, G
  <2>3. IsFiniteSet(G)
    BY <1>5, <2>2, FS_Subset
  <2> QED
    BY <1>5, <1>6, <2>1, <2>3
<1>8. pag_entered \subseteq pag_entered' /\ G \ F \subseteq pag_entered'
  BY <1>5 DEF Becoming
<1> HIDE DEF F, G
<1>9. ASSUME NEW S, NEW p \in Nat, NEW more, Covers(F, pag_entered, S, p, more)
      PROVE  Covers(G, pag_entered', S, p, more)
  BY <1>5, <1>7, <1>8, <1>9, CoversWider
<1>10. /\ Entries(pag_ids) \subseteq G \cap pag_known
       /\ Covers(G, pag_entered', Entries(pag_ids), pag_page, pag_page < pag_totalPages \/ pag_torn)
  BY <1>2, <1>5, <1>9 DEF PagCovers, PagTypes, F
<1>11. ASSUME NEW x \in pag_requests', x.current
       PROVE  /\ x.phase = "counted" /\ ~x.torn => Fits(G, x.total)
              /\ x.phase = "done" =>
                    /\ Entries(x.ids) \subseteq G
                    /\ Covers(G, pag_entered', Entries(pag_ids) \cup Entries(x.ids), x.page,
                              x.page < x.total \/ x.torn)
  <2>1. PICK y \in pag_requests :
           /\ x.current = y.current /\ x.phase = y.phase /\ x.total = y.total /\ x.ids = y.ids
           /\ x.page = y.page
           /\ x.torn <=> y.torn \/ (y.current /\ y.phase = "counted" /\ Enters(old, new))
    BY MarkedAre
  <2>2. y.current /\ y.page \in Nat
    BY <1>11, <2>1 DEF PagTypes, PagRequest
  <2>3. CASE x.phase = "counted"
    <3>1. ASSUME ~x.torn PROVE Fits(G, x.total)
      <4>1. G = F /\ ~y.torn
        BY <1>5, <2>1, <2>2, <2>3, <3>1
      <4>2. Fits(F, y.total)
        BY <1>2, <2>1, <2>2, <2>3, <4>1 DEF PagCovers, F
      <4> QED
        BY <2>1, <4>1, <4>2
    <3> QED
      BY <2>3, <3>1
  <2>4. CASE x.phase = "done"
    <3>1. /\ Entries(y.ids) \subseteq F
          /\ Covers(F, pag_entered, Entries(pag_ids) \cup Entries(y.ids), y.page,
                    y.page < y.total \/ y.torn)
      BY <1>2, <2>1, <2>2, <2>4 DEF PagCovers, F
    <3>2. Covers(G, pag_entered', Entries(pag_ids) \cup Entries(y.ids), y.page, y.page < y.total \/ y.torn)
      BY <1>9, <2>2, <3>1
    <3>3. (x.page < x.total \/ x.torn) <=> (y.page < y.total \/ y.torn)
      BY <2>1, <2>4
    <3>4. Covers(G, pag_entered', Entries(pag_ids) \cup Entries(x.ids), x.page,
                 x.page < x.total \/ x.torn)
      BY <2>1, <3>2, <3>3 DEF Covers
    <3> QED
      BY <1>5, <2>1, <2>4, <3>1, <3>4
  <2> QED
    BY <2>3, <2>4
<1> QED
  BY <1>3, <1>10, <1>11 DEF PagCovers, G

\* Every step of the list keeps what it has left out to come, unless a record leaves the query.
LEMMA PagCoversNext ==
  ASSUME PagInv, Pag!Next
  PROVE  PagCovers'
<1> USE DEF PagInv
<1>0. \A r \in pag_requests : r \in PagRequest
  BY DEF PagTypes
<1>f. ASSUME UNCHANGED <<pag_existing, pag_profile, pag_query>>
      PROVE  Pag!Found(pag_query)' = Pag!Found(pag_query)
  BY <1>f DEF Pag!Found
<1>1. ASSUME NEW r \in pag_requests, NEW a, Takes(r, a),
             ~pag_left /\ r.current =>
                /\ a.phase = "counted" /\ ~a.torn => Fits(Pag!Found(pag_query), a.total)
                /\ a.phase = "done" =>
                      /\ Entries(a.ids) \subseteq Pag!Found(pag_query)
                      /\ Covers(Pag!Found(pag_query), pag_entered, Entries(pag_ids) \cup Entries(a.ids),
                                a.page, a.page < a.total \/ a.torn)
      PROVE  PagCovers'
  <2>1. /\ a.current = r.current /\ pag_requests' = (pag_requests \ {r}) \cup {a}
        /\ UNCHANGED <<pag_known, pag_query, pag_ids, pag_page, pag_totalPages, pag_entered, pag_left,
                       pag_torn>>
        /\ Pag!Found(pag_query)' = Pag!Found(pag_query)
    BY <1>1, <1>f DEF Takes
  <2> QED
    BY <1>1, <2>1 DEF PagCovers
<1>2. ASSUME NEW r \in pag_requests, Pag!Count(r) PROVE PagCovers'
  <2>1. PICK a : Takes(r, a) /\ a.phase = "counted" /\ a.total = Pag!Pages(r.query)
    BY <1>2, CountIs
  <2>2. r.current => Fits(Pag!Found(pag_query), a.total)
    BY <2>1, PagesIs DEF PagWaits, PagTypes
  <2> QED
    BY <1>1, <2>1, <2>2
<1>3. ASSUME NEW r \in pag_requests, Pag!Find(r) PROVE PagCovers'
  <2>1. /\ r.current => r.phase = "counted"
        /\ \E a : /\ Takes(r, a) /\ a.phase = "done" /\ a.total = r.total /\ a.torn = r.torn
                  /\ a.ids = Pag!PageOf(r.query, r.page)
    BY <1>3, FindIs
  <2>2. PICK a : /\ Takes(r, a) /\ a.phase = "done" /\ a.total = r.total /\ a.torn = r.torn
                 /\ a.ids = Pag!PageOf(r.query, r.page)
    BY <2>1
  <2>3. ASSUME ~pag_left, r.current
        PROVE  /\ Entries(a.ids) \subseteq Pag!Found(pag_query)
               /\ Covers(Pag!Found(pag_query), pag_entered, Entries(pag_ids) \cup Entries(a.ids),
                         a.page, a.page < a.total \/ a.torn)
    <3>1. /\ r.query = pag_query /\ r.page = pag_page + 1 /\ a.page = r.page
          /\ pag_page \in Nat /\ r.total \in Nat /\ pag_query \in Queries /\ pag_existing \subseteq Records
      BY <1>0, <2>2, <2>3 DEF PagWaits, PagTypes, PagRequest, Takes
    <3>2. /\ ~r.torn => Fits(Pag!Found(pag_query), r.total)
          /\ Covers(Pag!Found(pag_query), pag_entered, Entries(pag_ids), pag_page,
                    pag_page < pag_totalPages \/ pag_torn)
      BY <2>1, <2>3 DEF PagCovers
    <3>3. Covers(Pag!Found(pag_query), pag_entered,
                 Entries(pag_ids) \cup Entries(Pag!PageOf(pag_query, pag_page + 1)), pag_page + 1,
                 pag_page + 1 < r.total \/ r.torn)
      BY <3>1, <3>2, CoversNext
    <3>4. Pag!PageOf(pag_query, pag_page + 1) \in Seq(Pag!Found(pag_query))
      BY <3>1, PageIs
    <3>5. Entries(Pag!PageOf(pag_query, pag_page + 1)) \subseteq Pag!Found(pag_query)
      BY <3>4 DEF Entries
    <3> QED
      BY <2>2, <3>1, <3>3, <3>5
  <2> QED
    BY <1>1, <2>2, <2>3
<1>4. ASSUME NEW r \in pag_requests, Pag!Fail(r) PROVE PagCovers'
  <2>1. PICK a : Takes(r, a) /\ a.phase = "failed"
    BY <1>4, FailIs
  <2> QED
    BY <1>1, <2>1
<1>5. ASSUME NEW r \in pag_requests, Pag!Loaded(r) PROVE PagCovers'
  <2>1. /\ r.current /\ r.phase = "done" /\ pag_requests' = pag_requests \ {r}
        /\ pag_page' = r.page /\ pag_totalPages' = r.total /\ pag_torn' = r.torn
        /\ UNCHANGED <<pag_query, pag_left, pag_entered, pag_existing, pag_profile>>
        /\ pag_known' = pag_known \cup Entries(r.ids)
    <3>1. Pag!ToSet(r.ids) = Entries(r.ids)
      BY <1>0 DEF Pag!ToSet, Entries, PagRequest
    <3> QED
      BY <1>5, <3>1 DEF Pag!Loaded, Pag!Concerns, Pag!Merge
  <2>2. \A s \in pag_requests' : ~s.current
    BY <2>1 DEF PagWaits
  <2>3. Entries(pag_ids') = Entries(pag_ids) \cup Entries(r.ids)
    <3>1. CASE r.mode = "reset"
      <4>1. pag_ids = <<>> /\ pag_ids' = r.ids
        BY <1>5, <2>1, <3>1 DEF PagWaits, Pag!Loaded
      <4>2. Entries(<<>>) = {}
        BY DEF Entries
      <4> QED
        BY <4>1, <4>2
    <3>2. CASE r.mode # "reset"
      <4>1. pag_ids' = Appended(pag_ids, r.ids)
        BY <1>5, <3>2, AppendedAlike DEF PagLists, Pag!Loaded
      <4> QED
        BY <2>1, <4>1, AppendedIs DEF PagLists
    <3> QED
      BY <3>1, <3>2
  <2> QED
    BY <1>f, <2>1, <2>2, <2>3 DEF PagCovers
<1>6. ASSUME NEW r \in pag_requests, Pag!LoadFailed(r) \/ Pag!Ignored(r) PROVE PagCovers'
  <2>1. /\ pag_requests' \subseteq pag_requests /\ pag_known \subseteq pag_known'
        /\ UNCHANGED <<pag_ids, pag_query, pag_left, pag_entered, pag_existing, pag_profile, pag_page,
                       pag_totalPages, pag_torn>>
    BY <1>6 DEF Pag!LoadFailed, Pag!Ignored, Pag!Merge
  <2> QED
    BY <1>f, <2>1 DEF PagCovers
<1>7. ASSUME NEW n \in Records, NEW old, NEW new, Becoming(n, old, new) PROVE PagCovers'
  BY <1>7, PagCoversBecoming
<1>8. CASE Unseen /\ pag_known \subseteq pag_known' /\ pag_left' = pag_left
  BY <1>8, <1>f DEF PagCovers, Unseen
<1>9. ASSUME Unseen, NEW n \in Records, Pag!Forget(n) PROVE PagCovers'
  <2>1. pag_known' = pag_known \ {n} /\ pag_left' = (pag_left \/ n \in Pag!Found(pag_query))
    BY <1>9 DEF Pag!Forget
  <2> QED
    BY <1>9, <1>f, <2>1 DEF PagCovers, Unseen
<1>10. ASSUME NEW q \in Queries, NEW on \in BOOLEAN, Pag!Reset(q, on) PROVE PagCovers'
  <2>1. /\ pag_ids' = <<>> /\ pag_page' = 0 /\ pag_totalPages' = 1 /\ pag_query' = q
        /\ UNCHANGED <<pag_existing, pag_profile>>
    BY <1>10 DEF Pag!Reset
  <2>2. \A r \in pag_requests' : r.current => r.phase = "sent"
    BY <1>10, SupersededIs, NewRequestIs DEF Pag!Reset
  <2>3. Pag!Found(pag_query)' = Pag!Found(q)
    BY <2>1 DEF Pag!Found
  <2>4. Covers(Pag!Found(q), pag_entered', {}, 0, 0 < 1 \/ pag_torn')
    BY CoversAll DEF PagTypes
  <2>5. Entries(<<>>) = {}
    BY DEF Entries
  <2> QED
    BY <2>1, <2>2, <2>3, <2>4, <2>5 DEF PagCovers
<1>11. CASE /\ Pag!LoadMore
            /\ UNCHANGED <<pag_existing, pag_profile, pag_known, pag_entered, pag_left, pag_query>>
  <2>1. pag_page + 1 \in Nat \ {0} /\ pag_query \in Queries
    BY DEF PagTypes
  <2>2. \A r \in pag_requests' : r.current => r.phase = "sent"
    BY <1>11, <2>1, SupersededIs, NewRequestIs DEF Pag!LoadMore
  <2>3. UNCHANGED <<pag_ids, pag_page, pag_totalPages, pag_torn>>
    BY <1>11 DEF Pag!LoadMore
  <2> QED
    BY <1>11, <1>f, <2>2, <2>3 DEF PagCovers
<1> QED
  BY <1>2, <1>3, <1>4, <1>5, <1>6, <1>7, <1>8, <1>9, <1>10, <1>11, PagSteps

LEMMA PagInvariant ==
  /\ Pag!Init => PagInv
  /\ PagInv /\ [Pag!Next]_pagVars => PagInv'
<1>1. ASSUME Pag!Init PROVE PagInv
  <2>1. /\ pag_existing = pag_created /\ pag_created \subseteq Records
        /\ pag_ids = <<>> /\ pag_page = 0 /\ pag_totalPages = 1
        /\ pag_query \in Queries /\ pag_loading = pag_enabled /\ pag_enabled \in BOOLEAN
        /\ pag_ever = [q \in Queries |-> Pag!Found(q)]
        /\ pag_requests = IF pag_enabled THEN {Pag!NewRequest(pag_query, 1, "reset")} ELSE {}
    BY <1>1 DEF Pag!Init
  <2>2. LET r == Pag!NewRequest(pag_query, 1, "reset") IN
        /\ r \in PagRequest /\ r.current /\ r.query = pag_query /\ r.page = 1
        /\ r.phase = "sent" /\ r.ids = <<>>
    BY <2>1, NewRequestIs
  <2>3. PagTypes
    <3>1. pag_profile \in [Records -> SUBSET Queries]
      BY <1>1, ListsAssumption DEF ListsAssumption, Pag!Init
    <3>2. \A q \in Queries : Pag!Found(q) \subseteq Records
      BY <2>1 DEF Pag!Found
    <3> QED
      BY <2>1, <2>2, <3>1, <3>2 DEF PagTypes
  <2>4. PagWaits
    BY <2>1, <2>2 DEF PagWaits
  <2>5. PagLists
    <3>1. \A X : <<>> \in Seq(X) /\ Once(<<>>)
      BY DEF Once
    <3> QED
      BY <2>1, <2>2, <3>1 DEF PagLists
  <2>6. PagCovers
    <3>1. Entries(<<>>) = {}
      BY DEF Entries
    <3>2. Covers(Pag!Found(pag_query), pag_entered, {}, 0, 0 < 1 \/ pag_torn)
      BY <2>3, CoversAll DEF PagTypes
    <3> QED
      BY <2>1, <2>2, <3>1, <3>2 DEF PagCovers
  <2> QED
    BY <2>3, <2>4, <2>5, <2>6 DEF PagInv
<1>2. ASSUME PagInv, Pag!Next PROVE PagInv'
  BY <1>2, PagTypesNext, PagWaitsNext, PagListsNext, PagCoversNext DEF PagInv
<1>3. ASSUME PagInv, UNCHANGED pagVars PROVE PagInv'
  <2>1. \A q \in Queries : Pag!Found(q)' = Pag!Found(q)
    BY <1>3 DEF Pag!Found
  <2>2. PagTypes' /\ PagWaits' /\ PagLists'
    BY <1>3, <2>1 DEF PagInv, PagTypes, PagWaits, PagLists
  <2>3. PagCovers'
    BY <1>3, <2>1 DEF PagInv, PagTypes, PagCovers
  <2> QED
    BY <2>2, <2>3 DEF PagInv
<1> QED
  BY <1>1, <1>2, <1>3

\* With nothing left to come, what matches is shown, or NotSeen says why it is not.
LEMMA PagShown ==
  ASSUME PagInv
  PROVE  Pag!AllShown
<1>1. SUFFICES ASSUME ~(pag_page < pag_totalPages), ~pag_left, ~pag_torn,
                      NEW r \in Pag!Found(pag_query), ~Pag!NotSeen(r)
               PROVE  r \in Pag!Shown
  BY DEF Pag!AllShown, Pag!HasMore
<1> DEFINE mine == {x \in pag_known : Pag!matchesParams(x)}
           K == {n \in DOMAIN pag_ids : pag_ids[n] \in mine}  loaded == Keep(pag_ids, K)
<1>2. /\ pag_ids \in Seq(pag_ever[pag_query]) /\ Entries(pag_ids) \subseteq pag_known
      /\ pag_ever[pag_query] \subseteq Nat /\ r \in Nat
  BY <1>1, FoundIs, ListsAssumption DEF ListsAssumption, PagInv, PagTypes, PagLists, PagCovers
<1>3. DOMAIN pag_ids = 1..Len(pag_ids) /\ K \in SUBSET DOMAIN pag_ids
  BY <1>2
<1>4. r \in pag_entered \/ r \in Entries(pag_ids)
  BY <1>1 DEF PagInv, PagCovers, Covers
<1>5. Pag!ToSet(pag_ids) = Entries(pag_ids)
  BY <1>3 DEF Pag!ToSet, Entries
<1>6. r \in mine
  <2>1. r \in pag_entered => r \in pag_known
    BY <1>1 DEF Pag!NotSeen
  <2>2. r \in pag_known => Pag!matchesParams(r)
    BY <1>1 DEF Pag!NotSeen
  <2> QED
    BY <1>2, <1>4, <2>1, <2>2
<1>7. Pag!Shown = Pag!ToSet(loaded) \cup {x \in mine \ Pag!ToSet(pag_ids) : loaded # <<>> => x > Head(loaded)}
  BY KeptAlike DEF Pag!Shown
<1> HIDE DEF mine
<1>8. /\ loaded \in Seq(pag_ever[pag_query])
      /\ \A n \in 1..Len(loaded) : \E k \in K : loaded[n] = pag_ids[k]
      /\ \A k \in K : \E n \in 1..Len(loaded) : loaded[n] = pag_ids[k]
  BY <1>2, <1>3, KeepIs, Zenon
<1>9. \A k \in K : k \in 1..Len(pag_ids)
  BY <1>3
<1>10. \A k \in 1..Len(pag_ids) : pag_ids[k] \in mine => k \in K
  BY <1>3
<1> HIDE DEF loaded, K
<1>11. CASE r \in Entries(pag_ids)
  <2>1. PICK k \in 1..Len(pag_ids) : r = pag_ids[k]
    BY <1>11 DEF Entries
  <2>2. PICK n \in 1..Len(loaded) : loaded[n] = r
    BY <1>6, <1>8, <1>10, <2>1
  <2>3. r \in Pag!ToSet(loaded)
    BY <1>8, <2>2 DEF Pag!ToSet
  <2> QED
    BY <1>7, <2>3
<1>12. CASE r \notin Entries(pag_ids)
  <2>1. \A s \in Entries(pag_ids) : ~(s > r)
    BY <1>1, <1>4, <1>5, <1>12 DEF Pag!NotSeen
  <2>2. loaded # <<>> => r > Head(loaded)
    <3> SUFFICES ASSUME loaded # <<>> PROVE r > Head(loaded)
      OBVIOUS
    <3>1. Head(loaded) = loaded[1] /\ 1 \in 1..Len(loaded)
      BY <1>8
    <3>2. PICK k \in K : loaded[1] = pag_ids[k]
      BY <1>8, <3>1
    <3>3. pag_ids[k] \in Entries(pag_ids) /\ pag_ids[k] \in Nat
      BY <1>2, <1>9 DEF Entries
    <3> QED
      BY <1>2, <1>12, <2>1, <3>1, <3>2, <3>3
  <2> QED
    BY <1>5, <1>6, <1>7, <1>12, <2>2
<1> QED
  BY <1>11, <1>12

LEMMA PagLoading ==
  ASSUME PagInv
  PROVE  Pag!LoadingHasRequest
<1>1. \A r, s \in pag_requests : r.current /\ s.current => r = s
  BY DEF PagInv, PagWaits
<1>2. pag_loading <=> \E r \in pag_requests : r.current
  BY DEF PagInv, PagWaits
<1>3. ASSUME NEW r \in pag_requests, r.current
      PROVE  {x \in pag_requests : x.current} = {r} /\ r.query = pag_query
  BY <1>1, <1>3 DEF PagInv, PagWaits
<1> QED
  BY <1>2, <1>3 DEF Pag!LoadingHasRequest

\* A step of the list asks for another query, or lists as much of this one or more, of all that has
\* ever matched it.
LEMMA PagRefines ==
  /\ Pag!Init => Pag!List!Init
  /\ PagInv /\ PagInv' /\ [Pag!Next]_pagVars => [Pag!List!Next]_(Pag!List!vars)
<1>1. ASSUME Pag!Init PROVE Pag!List!Init
  <2>1. pag_ever \in [Queries -> SUBSET Records]
    BY <1>1, PagInvariant DEF PagInv, PagTypes
  <2> QED
    BY <1>1, <2>1 DEF Pag!Init, Pag!List!Init
<1>2. ASSUME PagInv, PagInv', Len(pag_ids) <= Len(pag_ids'), SubSeq(pag_ids', 1, Len(pag_ids)) = pag_ids,
             pag_query' = pag_query
      PROVE  Pag!List!Extend
  BY <1>2 DEF PagInv, PagLists, Once, Pag!List!Extend, Pag!List!Once
<1>3. ASSUME PagInv, PagInv', UNCHANGED <<pag_query, pag_ids>> PROVE Pag!List!Extend
  <2>1. Len(pag_ids) <= Len(pag_ids) /\ SubSeq(pag_ids, 1, Len(pag_ids)) = pag_ids
    BY <1>3, SubSeqFull DEF PagInv, PagLists
  <2> QED
    BY <1>2, <1>3, <2>1
<1>4. ASSUME UNCHANGED pag_ever PROVE Pag!List!Widen
  BY <1>4 DEF Pag!List!Widen
<1>5. ASSUME PagInv, PagInv', Pag!Next PROVE Pag!List!Next
  <2>0. PagTypes
    BY <1>5 DEF PagInv
  <2>1. ASSUME NEW r \in pag_requests, Pag!Loaded(r) PROVE Pag!List!Next
    <3>1. pag_query' = pag_query /\ r.current /\ pag_ever' = pag_ever
      BY <2>1 DEF Pag!Loaded, Pag!Concerns
    <3>2. Len(pag_ids) <= Len(pag_ids') /\ SubSeq(pag_ids', 1, Len(pag_ids)) = pag_ids
      <4>1. CASE r.mode = "reset"
        <5>1. pag_ids = <<>> /\ Len(pag_ids') \in Nat
          BY <1>5, <3>1, <4>1 DEF PagInv, PagWaits, PagLists
        <5> QED
          BY <5>1, SubSeqEmpty
      <4>2. CASE r.mode # "reset"
        <5>1. pag_ids' = Appended(pag_ids, r.ids)
          BY <1>5, <2>1, <4>2, AppendedAlike DEF PagInv, PagLists, Pag!Loaded
        <5> QED
          BY <1>5, <3>1, <5>1, AppendedIs DEF PagInv, PagLists
      <4> QED
        BY <4>1, <4>2
    <3> QED
      BY <1>2, <1>4, <1>5, <3>1, <3>2 DEF Pag!List!Next
  <2>2. ASSUME NEW q \in Queries, NEW on \in BOOLEAN, Pag!Reset(q, on) PROVE Pag!List!Next
    BY <1>4, <2>2 DEF Pag!Reset, Pag!List!Next, Pag!List!Ask
  <2>3. ASSUME NEW r \in pag_requests, Pag!Count(r) \/ Pag!Find(r) \/ Pag!Fail(r) PROVE Pag!List!Next
    <3>1. UNCHANGED <<pag_query, pag_ids, pag_ever>>
      BY <2>3 DEF Pag!Count, Pag!Find, Pag!Fail
    <3> QED
      BY <1>3, <1>4, <1>5, <3>1 DEF Pag!List!Next
  <2>4. ASSUME NEW r \in pag_requests, Pag!LoadFailed(r) \/ Pag!Ignored(r) PROVE Pag!List!Next
    <3>1. UNCHANGED <<pag_query, pag_ids, pag_ever>>
      BY <2>4 DEF Pag!LoadFailed, Pag!Ignored
    <3> QED
      BY <1>3, <1>4, <1>5, <3>1 DEF Pag!List!Next
  <2>5. ASSUME NEW n \in Records, NEW old, NEW new, Becoming(n, old, new) PROVE Pag!List!Next
    <3>1. UNCHANGED <<pag_query, pag_ids>>
      BY <2>5 DEF Becoming
    <3>2. \A q \in Queries : pag_ever[q] \subseteq pag_ever'[q]
      BY <2>5 DEF Becoming
    <3> QED
      BY <1>3, <1>5, <3>1, <3>2 DEF Pag!List!Next, Pag!List!Widen
  <2>6. CASE Pag!LoadMore /\ UNCHANGED <<pag_query, pag_ever>>
    <3>1. UNCHANGED <<pag_query, pag_ids, pag_ever>>
      BY <2>6 DEF Pag!LoadMore
    <3> QED
      BY <1>3, <1>4, <1>5, <3>1 DEF Pag!List!Next
  <2>7. CASE Unseen
    BY <1>3, <1>4, <1>5, <2>7 DEF Pag!List!Next, Unseen
  <2> QED
    BY <1>5, <2>0, <2>1, <2>2, <2>3, <2>4, <2>5, <2>6, <2>7, PagSteps
<1>6. UNCHANGED pagVars => UNCHANGED Pag!List!vars
  BY DEF Pag!List!vars
<1> QED
  BY <1>1, <1>5, <1>6

-----------------------------------------------------------------------------
(* The community's records in the gallery.  Its list needs no more than    *)
(* that of PagedRecords, but for the side that is shown; its images have   *)
(* loaders and URLs.                                                       *)

USE DEF Gal!community, Gal!pictures, Gal!album, Gal!dialogs, Gal!place, galVars

GalRequest ==
    [query : Queries, page : Nat \ {0}, mode : {"reset", "append"}, current : BOOLEAN,
     state : {"sent", "done", "failed"}, ids : Seq(Nat), pages : Nat]

GalTypes ==
    /\ gal_query \in Queries /\ gal_page \in Nat /\ gal_scope \in {"mine", "community"}
    /\ gal_requests \subseteq GalRequest

GalWaits ==
    /\ \A r, s \in gal_requests : r.current /\ s.current => r = s
    /\ gal_loading <=> \E r \in gal_requests : r.current
    /\ \A r \in gal_requests : r.current =>
          /\ r.query = gal_query /\ gal_scope = "community"
          /\ r.mode = "reset" => gal_records = <<>>
    /\ gal_scope = "community" => (gal_status = "loading" <=> gal_loading)

GalLists ==
    /\ gal_scope = "community" => gal_records \in Seq(Matching[gal_query]) /\ Once(gal_records)
    /\ \A r \in gal_requests : r.current => r.ids \in Seq(Matching[gal_query]) /\ Once(r.ids)

\* What is public is so once, and what a dialog is about is a record.
GalPublic ==
    /\ gal_published \in Seq(Records) /\ Once(gal_published)
    /\ gal_publishTarget \in Records \cup {NoRecord} /\ gal_deleteTarget \in Records \cup {NoRecord}
    /\ gal_saving \subseteq {"publish", "delete"} \X Records

\* Every URL that is live is the ref's, after the page is left too.
GalImages ==
    /\ gal_urls \subseteq Records
    /\ gal_images \in [Records -> {"none", "loading", "url", "error"}]
    /\ gal_loaders = {r \in Records : gal_images[r] = "loading"}
    /\ gal_live = [r \in Records |-> IF r \in gal_urls THEN 1 ELSE 0]
    /\ gal_mounted => gal_urls = {r \in Records : gal_images[r] = "url"}

GalInv == GalTypes /\ GalPublic /\ GalWaits /\ GalLists /\ GalImages

LEMMA GalSupersededIs ==
  ASSUME GalTypes
  PROVE  Gal!Superseded \subseteq GalRequest /\ \A r \in Gal!Superseded : ~r.current
  BY DEF GalTypes, GalRequest, Gal!Superseded

LEMMA GalNewRequestIs ==
  ASSUME NEW q \in Queries, NEW p \in Nat \ {0}, NEW m \in {"reset", "append"}
  PROVE  LET r == Gal!NewRequest(q, p, m) IN
         r \in GalRequest /\ r.current /\ r.query = q /\ r.mode = m /\ r.ids = <<>>
  BY DEF GalRequest, Gal!NewRequest

\* A slice of a list has entries of the list, each once if the list had them once.
LEMMA SliceIs ==
  ASSUME NEW X, NEW s \in Seq(X), NEW a \in Nat, NEW b \in Nat, b <= Len(s), Once(s)
  PROVE  SubSeq(s, a + 1, b) \in Seq(X) /\ Once(SubSeq(s, a + 1, b))
<1> DEFINE t == SubSeq(s, a + 1, b)
<1>1. Len(s) \in Nat /\ \A n \in 1..Len(s) : s[n] \in X
  OBVIOUS
<1>2. /\ t \in Seq(X) /\ Len(t) = IF a + 1 <= b THEN b - (a + 1) + 1 ELSE 0
      /\ \A n \in 1..b - (a + 1) + 1 : t[n] = s[(a + 1) + n - 1]
  <2>1. a + 1 \in Int /\ b \in Int /\ \A n \in (a + 1)..b : s[n] \in X
    BY <1>1
  <2> QED
    BY <2>1, SubSeqProperties
<1> HIDE DEF t
<1>3. ASSUME NEW n \in 1..Len(t) PROVE a + n \in 1..Len(s) /\ t[n] = s[a + n]
  <2>1. n \in 1..b - (a + 1) + 1 /\ (a + 1) + n - 1 = a + n /\ n \in Nat
    BY <1>2
  <2>2. a + n \in 1..Len(s)
    BY <1>1, <1>2, <2>1
  <2> QED
    BY <1>2, <2>1, <2>2
<1>4. ASSUME NEW m \in 1..Len(t), NEW n \in 1..Len(t), t[m] = t[n] PROVE m = n
  <2>1. a + m = a + n
    BY <1>3, <1>4 DEF Once
  <2> QED
    BY <1>2, <2>1
<1> QED
  BY <1>2, <1>4 DEF t, Once

\* Filtered for a search, the public records are those that it may find, each once.
LEMMA GalFoundIs ==
  ASSUME GalPublic, NEW q \in Queries
  PROVE  Gal!Found(q) \in Seq(Matching[q]) /\ Once(Gal!Found(q))
<1> DEFINE K == {n \in DOMAIN gal_published : gal_published[n] \in Matching[q]}
           t == Keep(gal_published, K)
<1>1. gal_published \in Seq(Records) /\ Once(gal_published) /\ K \in SUBSET DOMAIN gal_published
  BY DEF GalPublic
<1>2. /\ t \in Seq(Records) /\ Once(t)
      /\ \A n \in 1..Len(t) : \E k \in K : t[n] = gal_published[k]
  BY <1>1, KeepIs, Zenon
<1>3. \A k \in K : gal_published[k] \in Matching[q]
  OBVIOUS
<1>4. Gal!Found(q) = t
  BY KeptAlike DEF Gal!Found
<1> HIDE DEF K, t
<1>5. \A n \in 1..Len(t) : t[n] \in Matching[q]
  BY <1>2, <1>3
<1>6. t \in Seq(Matching[q])
  BY <1>2, <1>5
<1> QED
  BY <1>2, <1>4, <1>6

\* A page of the community holds public records that the search finds, each once.
LEMMA ServedIdsIs ==
  ASSUME GalPublic, NEW q \in Queries, NEW p \in Nat \ {0}
  PROVE  /\ Gal!ServedIds(q, p) \in Seq(Matching[q]) /\ Once(Gal!ServedIds(q, p))
         /\ Gal!ServedIds(q, p) \in Seq(Nat) /\ Gal!ServedPages(q) \in Nat
<1> DEFINE t == Gal!Found(q)  a == (p - 1) * PageSize
           last == IF p * PageSize < Len(t) THEN p * PageSize ELSE Len(t)
<1>1. t \in Seq(Matching[q]) /\ Once(t)
  BY GalFoundIs
<1>2. PageSize \in Nat /\ PageSize > 0 /\ Matching[q] \subseteq Nat
  <2>1. Matching[q] \in SUBSET Records /\ Records \in SUBSET Nat
    BY ListsAssumption DEF ListsAssumption
  <2>2. Matching[q] \subseteq Nat
    BY <2>1
  <2>3. PageSize \in Nat \ {0}
    BY ListsAssumption DEF ListsAssumption
  <2> QED
    BY <2>2, <2>3
<1>3. Gal!ServedIds(q, p) = SubSeq(t, a + 1, last)
  BY DEF Gal!ServedIds
<1> HIDE DEF t
<1>4. Len(t) \in Nat
  BY <1>1
<1>5. a \in Nat /\ p * PageSize \in Nat
  BY <1>2
<1>6. last \in Nat /\ last <= Len(t)
  BY <1>4, <1>5
<1> HIDE DEF a, last
<1>7. SubSeq(t, a + 1, last) \in Seq(Matching[q]) /\ Once(SubSeq(t, a + 1, last))
  BY <1>1, <1>5, <1>6, SliceIs
<1>8. SubSeq(t, a + 1, last) \in Seq(Nat)
  BY <1>2, <1>7, SeqMonotonic
<1>9. Gal!ServedPages(q) \in Nat
  <2>1. Gal!ServedPages(q) \in {1, (Len(t) + PageSize - 1) \div PageSize}
    BY DEF Gal!ServedPages, t
  <2> QED
    BY <1>2, <1>4, <2>1
<1> QED
  BY <1>3, <1>7, <1>8, <1>9

\* Published again or withdrawn, a record leaves the public ones a list that has each once.
LEMMA PublishedIs ==
  ASSUME GalPublic, NEW r \in Records
  PROVE  /\ Gal!Withdrawn(r) \in Seq(Records) /\ Once(Gal!Withdrawn(r))
         /\ Gal!Republished(r) \in Seq(Records) /\ Once(Gal!Republished(r))
<1> DEFINE K == {n \in DOMAIN gal_published : gal_published[n] # r}  t == Keep(gal_published, K)
<1>1. gal_published \in Seq(Records) /\ Once(gal_published) /\ K \in SUBSET DOMAIN gal_published
  BY DEF GalPublic
<1>2. /\ t \in Seq(Records) /\ Once(t)
      /\ \A n \in 1..Len(t) : \E k \in K : t[n] = gal_published[k]
  BY <1>1, KeepIs, Zenon
<1>3. \A k \in K : gal_published[k] # r
  OBVIOUS
<1>4. Gal!Withdrawn(r) = t /\ Gal!Republished(r) = << r >> \o t
  BY KeptAlike DEF Gal!Withdrawn, Gal!Republished
<1> HIDE DEF K, t
<1>5. \A n \in 1..Len(t) : t[n] # r
  BY <1>2, <1>3
<1> DEFINE u == << r >> \o t
<1>6. /\ u \in Seq(Records) /\ Len(u) = Len(t) + 1 /\ u[1] = r
      /\ \A n \in 2..Len(u) : n - 1 \in 1..Len(t) /\ u[n] = t[n - 1]
  BY <1>2
<1> HIDE DEF u
<1>7. ASSUME NEW m \in 1..Len(u), NEW n \in 1..Len(u), u[m] = u[n] PROVE m = n
  <2>0. Len(t) \in Nat /\ m \in Nat /\ n \in Nat
    BY <1>2, <1>6
  <2>1. CASE m = 1 /\ n = 1
    BY <2>1
  <2>2. CASE m = 1 /\ n # 1
    <3>1. n \in 2..Len(u)
      BY <1>6, <2>0, <2>2
    <3> QED
      BY <1>5, <1>6, <1>7, <2>2, <3>1
  <2>3. CASE m # 1 /\ n = 1
    <3>1. m \in 2..Len(u)
      BY <1>6, <2>0, <2>3
    <3> QED
      BY <1>5, <1>6, <1>7, <2>3, <3>1
  <2>4. CASE m # 1 /\ n # 1
    <3>1. m \in 2..Len(u) /\ n \in 2..Len(u)
      BY <1>6, <2>0, <2>4
    <3>2. m - 1 \in 1..Len(t) /\ n - 1 \in 1..Len(t) /\ t[m - 1] = t[n - 1]
      BY <1>6, <1>7, <3>1
    <3>3. m - 1 = n - 1
      BY <1>2, <3>2 DEF Once
    <3> QED
      BY <2>0, <3>3
  <2> QED
    BY <2>1, <2>2, <2>3, <2>4
<1> QED
  BY <1>2, <1>4, <1>6, <1>7 DEF u, Once

\* Served or failed, a request stays what it was but for what it brings.
LEMMA GalServedIs ==
  ASSUME GalTypes, GalPublic, NEW r \in gal_requests, Gal!Serve(r)
  PROVE  \E a \in GalRequest :
           /\ gal_requests' = (gal_requests \ {r}) \cup {a}
           /\ a.current = r.current /\ a.query = r.query /\ a.mode = r.mode
           /\ a.ids = Gal!ServedIds(r.query, r.page) \/ a.ids = r.ids
<1>1. r \in GalRequest /\ r.query \in Queries /\ r.page \in Nat \ {0}
  BY DEF GalTypes, GalRequest
<1> DEFINE a == [r EXCEPT !.state = "done", !.ids = Gal!ServedIds(r.query, r.page),
                          !.pages = Gal!ServedPages(r.query)]
           f == [r EXCEPT !.state = "failed"]
<1>2. /\ a \in GalRequest /\ a.current = r.current /\ a.query = r.query /\ a.mode = r.mode
      /\ a.ids = Gal!ServedIds(r.query, r.page)
  BY <1>1, ServedIdsIs DEF GalRequest
<1>3. /\ f \in GalRequest /\ f.current = r.current /\ f.query = r.query /\ f.mode = r.mode
      /\ f.ids = r.ids
  BY <1>1 DEF GalRequest
<1>4. gal_requests' = (gal_requests \ {r}) \cup {a} \/ gal_requests' = (gal_requests \ {r}) \cup {f}
  BY DEF Gal!Serve
<1> HIDE DEF a, f
<1> QED
  BY <1>2, <1>3, <1>4

\* A step of the page is one of these, as far as its list is concerned.
LEMMA GalSteps ==
  ASSUME Gal!Next
  PROVE  \/ \E s \in {"mine", "community"}, t \in {"all", "favorites", "projects"}, q \in Queries :
              Gal!Navigate(s, t, q)
         \/ Gal!LoadMore
         \/ \E r \in gal_requests : Gal!Serve(r) \/ Gal!Arrived(r) \/ Gal!Failed(r) \/ Gal!Ignored(r)
         \/ UNCHANGED <<gal_scope, gal_query, gal_records, gal_page, gal_totalPages, gal_status,
                        gal_loading, gal_requests>>
<1>1. CASE Gal!ImageEnds \/ (\E r \in Records : Gal!RequestImage(r)) \/ Gal!Leave \/ Gal!ClosePreview
           \/ Gal!Answer
  BY <1>1 DEF Gal!ImageEnds, Gal!ImageLoaded, Gal!ImageFailed, Gal!RequestImage, Gal!Leave,
              Gal!ClosePreview, Gal!Answer
<1>2. CASE (\E s \in gal_saving : Gal!Saved(s))
           \/ \E r \in Records : Gal!Measured(r) \/ Gal!OpenPreview(r) \/ Gal!AskFirst(r) \/ Gal!Elsewhere(r)
  BY <1>2 DEF Gal!Saved, Gal!Measured, Gal!OpenPreview, Gal!AskFirst, Gal!Elsewhere
<1> QED
  BY <1>1, <1>2 DEF Gal!Next, Gal!Answered

\* And as far as its images are.
LEMMA GalImageSteps ==
  ASSUME Gal!Next
  PROVE  \/ \E r \in Records : Gal!RequestImage(r)
         \/ \E r \in gal_loaders : Gal!ImageLoaded(r) \/ Gal!ImageFailed(r)
         \/ Gal!Leave
         \/ UNCHANGED <<gal_mounted, gal_urls, gal_loaders, gal_images, gal_live>>
<1>1. CASE (\E s \in {"mine", "community"}, t \in {"all", "favorites", "projects"}, q \in Queries :
              Gal!Navigate(s, t, q)) \/ Gal!LoadMore \/ Gal!Answered
  BY <1>1 DEF Gal!Navigate, Gal!LoadMore, Gal!Answered, Gal!Serve, Gal!Arrived, Gal!Failed, Gal!Ignored
<1>2. CASE (\E s \in gal_saving : Gal!Saved(s)) \/ Gal!ClosePreview \/ Gal!Answer
           \/ \E r \in Records : Gal!Measured(r) \/ Gal!OpenPreview(r) \/ Gal!AskFirst(r) \/ Gal!Elsewhere(r)
  BY <1>2 DEF Gal!Saved, Gal!ClosePreview, Gal!Answer, Gal!Measured, Gal!OpenPreview, Gal!AskFirst,
              Gal!Elsewhere
<1> QED
  BY <1>1, <1>2 DEF Gal!Next, Gal!ImageEnds

\* What is published goes to the front, what is withdrawn or deleted goes.
LEMMA GalPublicNext ==
  ASSUME GalPublic, Gal!Next
  PROVE  GalPublic'
<1>1. ASSUME NEW r \in Records, Gal!AskFirst(r) PROVE GalPublic'
  BY <1>1 DEF GalPublic, Gal!AskFirst
<1>2. CASE Gal!Answer
  <2>1. UNCHANGED gal_published
    BY <1>2 DEF Gal!Answer
  <2>2. /\ gal_publishTarget' \in {gal_publishTarget, NoRecord}
        /\ gal_deleteTarget' \in {gal_deleteTarget, NoRecord}
    BY <1>2 DEF Gal!Answer
  <2>3. \/ gal_saving' = gal_saving
        \/ gal_publishTarget # NoRecord /\ gal_saving' = gal_saving \cup {<<"publish", gal_publishTarget>>}
        \/ gal_deleteTarget # NoRecord /\ gal_saving' = gal_saving \cup {<<"delete", gal_deleteTarget>>}
    BY <1>2 DEF Gal!Answer
  <2>4. gal_saving' \subseteq {"publish", "delete"} \X Records
    BY <2>3 DEF GalPublic
  <2> QED
    BY <2>1, <2>2, <2>4 DEF GalPublic
<1>3. ASSUME NEW d \in gal_saving, Gal!Saved(d) PROVE GalPublic'
  <2>1. d[2] \in Records
    BY DEF GalPublic
  <2>2. gal_published' \in Seq(Records) /\ Once(gal_published')
    BY <1>3, <2>1, PublishedIs DEF Gal!Saved
  <2>3. /\ gal_publishTarget' \in {gal_publishTarget, NoRecord}
        /\ gal_deleteTarget' \in {gal_deleteTarget, NoRecord} /\ gal_saving' \subseteq gal_saving
    BY <1>3 DEF Gal!Saved
  <2> QED
    BY <2>2, <2>3 DEF GalPublic
<1>4. ASSUME NEW r \in Records, Gal!Elsewhere(r) PROVE GalPublic'
  <2>1. gal_published' = Gal!Republished(r) \/ gal_published' = Gal!Withdrawn(r)
    BY <1>4 DEF Gal!Elsewhere
  <2>2. gal_published' \in Seq(Records) /\ Once(gal_published')
    BY <2>1, PublishedIs
  <2>3. UNCHANGED <<gal_publishTarget, gal_deleteTarget, gal_saving>>
    BY <1>4 DEF Gal!Elsewhere
  <2> QED
    BY <2>2, <2>3 DEF GalPublic
<1>5. CASE UNCHANGED <<gal_published, gal_publishTarget, gal_deleteTarget, gal_saving>>
  BY <1>5 DEF GalPublic
<1>6. CASE (\E s \in {"mine", "community"}, t \in {"all", "favorites", "projects"}, q \in Queries :
              Gal!Navigate(s, t, q)) \/ Gal!LoadMore \/ Gal!Answered \/ Gal!ImageEnds
  <2>1. UNCHANGED <<gal_published, gal_publishTarget, gal_deleteTarget, gal_saving>>
    BY <1>6 DEF Gal!Navigate, Gal!LoadMore, Gal!Answered, Gal!Serve, Gal!Arrived, Gal!Failed,
                Gal!Ignored, Gal!ImageEnds, Gal!ImageLoaded, Gal!ImageFailed
  <2> QED
    BY <1>5, <2>1
<1>7. CASE Gal!Leave \/ Gal!ClosePreview
           \/ \E r \in Records : Gal!RequestImage(r) \/ Gal!Measured(r) \/ Gal!OpenPreview(r)
  <2>1. UNCHANGED <<gal_published, gal_publishTarget, gal_deleteTarget, gal_saving>>
    BY <1>7 DEF Gal!Leave, Gal!ClosePreview, Gal!RequestImage, Gal!Measured, Gal!OpenPreview
  <2> QED
    BY <1>5, <2>1
<1> QED
  BY <1>1, <1>2, <1>3, <1>4, <1>6, <1>7 DEF Gal!Next

LEMMA GalTypesNext ==
  ASSUME GalTypes, GalPublic, Gal!Next
  PROVE  GalTypes'
<1>1. ASSUME NEW s \in {"mine", "community"}, NEW t, NEW q \in Queries, Gal!Navigate(s, t, q)
      PROVE  GalTypes'
  <2>1. CASE Gal!Restart(s, q)
    BY <1>1, <2>1, GalSupersededIs, GalNewRequestIs DEF GalTypes, Gal!Navigate, Gal!Restart
  <2>2. CASE UNCHANGED Gal!community
    BY <1>1, <2>2 DEF GalTypes, Gal!Navigate
  <2> QED
    BY <1>1, <2>1, <2>2 DEF Gal!Navigate
<1>2. CASE Gal!LoadMore
  <2>1. gal_page + 1 \in Nat \ {0} /\ gal_query \in Queries
    BY DEF GalTypes
  <2> QED
    BY <1>2, <2>1, GalSupersededIs, GalNewRequestIs DEF GalTypes, Gal!LoadMore
<1>3. ASSUME NEW r \in gal_requests, Gal!Serve(r) PROVE GalTypes'
  <2>1. UNCHANGED <<gal_query, gal_page, gal_scope>>
    BY <1>3 DEF Gal!Serve
  <2> QED
    BY <1>3, <2>1, GalServedIs DEF GalTypes
<1>4. ASSUME NEW r \in gal_requests, Gal!Arrived(r) \/ Gal!Failed(r) \/ Gal!Ignored(r) PROVE GalTypes'
  <2>1. r.page \in Nat
    BY DEF GalTypes, GalRequest
  <2> QED
    BY <1>4, <2>1 DEF GalTypes, Gal!Arrived, Gal!Failed, Gal!Ignored
<1>5. CASE UNCHANGED <<gal_scope, gal_query, gal_page, gal_requests>>
  BY <1>5 DEF GalTypes
<1> QED
  BY <1>1, <1>2, <1>3, <1>4, <1>5, GalSteps

LEMMA GalAnswerWaits ==
  ASSUME GalWaits, NEW r \in gal_requests, NEW a,
         a.current = r.current /\ a.query = r.query /\ a.mode = r.mode,
         gal_requests' = (gal_requests \ {r}) \cup {a},
         UNCHANGED <<gal_query, gal_scope, gal_records, gal_status, gal_loading>>
  PROVE  GalWaits'
<1>1. \A x \in gal_requests' :
         \E y \in gal_requests : /\ x.current = y.current /\ x.query = y.query /\ x.mode = y.mode
                                 /\ ((x = a /\ y = r) \/ (x = y /\ y # r))
  <2> TAKE x \in gal_requests'
  <2>1. CASE x = a
    BY <2>1
  <2>2. CASE x # a
    <3>1. x \in gal_requests /\ x # r
      BY <2>2
    <3> QED
      BY <3>1
  <2> QED
    BY <2>1, <2>2
<1>2. \A x, y \in gal_requests' : x.current /\ y.current => x = y
  BY <1>1 DEF GalWaits
<1>3. (\E x \in gal_requests' : x.current) <=> (\E x \in gal_requests : x.current)
  <2>1. ASSUME NEW x \in gal_requests, x.current PROVE \E y \in gal_requests' : y.current
    <3>1. CASE x = r
      BY <2>1, <3>1
    <3>2. CASE x # r
      BY <2>1, <3>2
    <3> QED
      BY <3>1, <3>2
  <2>2. ASSUME NEW x \in gal_requests', x.current PROVE \E y \in gal_requests : y.current
    BY <1>1, <2>2
  <2> QED
    BY <2>1, <2>2
<1>4. gal_loading' <=> \E x \in gal_requests' : x.current
  BY <1>3 DEF GalWaits
<1>5. \A x \in gal_requests' : x.current =>
         /\ x.query = gal_query' /\ gal_scope' = "community" /\ (x.mode = "reset" => gal_records' = <<>>)
  BY <1>1 DEF GalWaits
<1>6. gal_scope' = "community" => (gal_status' = "loading" <=> gal_loading')
  BY DEF GalWaits
<1> QED
  BY <1>2, <1>4, <1>5, <1>6 DEF GalWaits

LEMMA GalWaitsNext ==
  ASSUME GalTypes, GalPublic, GalWaits, Gal!Next
  PROVE  GalWaits'
<1>1. ASSUME NEW s \in {"mine", "community"}, NEW t, NEW q \in Queries, Gal!Navigate(s, t, q)
      PROVE  GalWaits'
  <2>1. CASE Gal!Restart(s, q) /\ s = "community"
    BY <1>1, <2>1, GalSupersededIs, GalNewRequestIs DEF GalWaits, Gal!Navigate, Gal!Restart
  <2>2. CASE Gal!Restart(s, q) /\ s = "mine"
    BY <1>1, <2>2, GalSupersededIs DEF GalWaits, Gal!Navigate, Gal!Restart
  <2>3. CASE UNCHANGED Gal!community /\ s = gal_scope /\ q = gal_query
    BY <1>1, <2>3 DEF GalWaits, Gal!Navigate
  <2> QED
    BY <1>1, <2>1, <2>2, <2>3 DEF Gal!Navigate
<1>2. CASE Gal!LoadMore
  <2>1. gal_page + 1 \in Nat \ {0} /\ gal_query \in Queries
    BY DEF GalTypes
  <2> QED
    BY <1>2, <2>1, GalSupersededIs, GalNewRequestIs DEF GalWaits, Gal!LoadMore
<1>3. ASSUME NEW r \in gal_requests, Gal!Serve(r) PROVE GalWaits'
  <2>1. UNCHANGED <<gal_query, gal_scope, gal_records, gal_status, gal_loading>>
    BY <1>3 DEF Gal!Serve
  <2> QED
    BY <1>3, <2>1, GalServedIs, GalAnswerWaits
<1>4. ASSUME NEW r \in gal_requests, Gal!Arrived(r) PROVE GalWaits'
  BY <1>4 DEF GalWaits, Gal!Arrived, Gal!Concerns
<1>5. ASSUME NEW r \in gal_requests, Gal!Failed(r) PROVE GalWaits'
  BY <1>5 DEF GalWaits, Gal!Failed, Gal!Concerns
<1>6. ASSUME NEW r \in gal_requests, Gal!Ignored(r) PROVE GalWaits'
  BY <1>6 DEF GalWaits, Gal!Ignored, Gal!Concerns
<1>7. CASE UNCHANGED <<gal_scope, gal_query, gal_records, gal_status, gal_loading, gal_requests>>
  BY <1>7 DEF GalWaits
<1> QED
  BY <1>1, <1>2, <1>3, <1>4, <1>5, <1>6, <1>7, GalSteps

LEMMA GalListsNext ==
  ASSUME GalTypes, GalPublic, GalWaits, GalLists, Gal!Next
  PROVE  GalLists'
<1>0. \A X : <<>> \in Seq(X) /\ Once(<<>>)
  BY DEF Once
<1>1. ASSUME NEW s \in {"mine", "community"}, NEW t, NEW q \in Queries, Gal!Navigate(s, t, q)
      PROVE  GalLists'
  <2>1. CASE Gal!Restart(s, q) /\ s = "community"
    <3>1. gal_records' = <<>>
      BY <2>1 DEF Gal!Restart
    <3>2. ASSUME NEW r \in gal_requests', r.current PROVE r.ids = <<>>
      BY <2>1, <3>2, GalSupersededIs, GalNewRequestIs DEF Gal!Restart
    <3> QED
      BY <1>0, <3>1, <3>2 DEF GalLists
  <2>2. CASE Gal!Restart(s, q) /\ s = "mine"
    BY <1>1, <2>2, GalSupersededIs DEF GalLists, Gal!Navigate, Gal!Restart
  <2>3. CASE UNCHANGED Gal!community /\ s = gal_scope /\ q = gal_query
    BY <1>1, <2>3 DEF GalLists, Gal!Navigate
  <2> QED
    BY <1>1, <2>1, <2>2, <2>3 DEF Gal!Navigate
<1>2. CASE Gal!LoadMore
  <2>1. gal_page + 1 \in Nat \ {0} /\ gal_query \in Queries
    BY DEF GalTypes
  <2>2. ASSUME NEW r \in gal_requests', r.current PROVE r.ids = <<>>
    BY <1>2, <2>1, <2>2, GalSupersededIs, GalNewRequestIs DEF Gal!LoadMore
  <2>3. UNCHANGED <<gal_scope, gal_query, gal_records>>
    BY <1>2 DEF Gal!LoadMore
  <2> QED
    BY <1>0, <2>2, <2>3 DEF GalLists
<1>3. ASSUME NEW r \in gal_requests, Gal!Serve(r) PROVE GalLists'
  <2>1. UNCHANGED <<gal_scope, gal_query, gal_records>>
    BY <1>3 DEF Gal!Serve
  <2>2. PICK a \in GalRequest :
           /\ gal_requests' = (gal_requests \ {r}) \cup {a}
           /\ a.current = r.current /\ a.query = r.query /\ a.mode = r.mode
           /\ a.ids = Gal!ServedIds(r.query, r.page) \/ a.ids = r.ids
    BY <1>3, GalServedIs
  <2>3. ASSUME a.current PROVE a.ids \in Seq(Matching[gal_query]) /\ Once(a.ids)
    <3>1. r.query = gal_query /\ gal_query \in Queries /\ r.page \in Nat \ {0}
      BY <2>2, <2>3 DEF GalWaits, GalTypes, GalRequest
    <3> QED
      BY <2>2, <2>3, <3>1, ServedIdsIs DEF GalLists
  <2> QED
    BY <2>1, <2>2, <2>3 DEF GalLists
<1>4. ASSUME NEW r \in gal_requests, Gal!Arrived(r) PROVE GalLists'
  <2>1. /\ r.current /\ r.ids \in Seq(Matching[gal_query]) /\ Once(r.ids) /\ gal_scope = "community"
        /\ gal_requests' = gal_requests \ {r} /\ UNCHANGED <<gal_query, gal_scope>>
    BY <1>4 DEF GalLists, GalWaits, Gal!Arrived, Gal!Concerns
  <2>2. gal_records' \in Seq(Matching[gal_query]) /\ Once(gal_records')
    <3>1. CASE r.mode = "reset"
      BY <1>4, <2>1, <3>1 DEF Gal!Arrived
    <3>2. CASE r.mode # "reset"
      <4>1. gal_records' = Appended(gal_records, r.ids)
        BY <1>4, <2>1, <3>2, AppendedAlike DEF GalLists, Gal!Arrived
      <4> QED
        BY <2>1, <4>1, AppendedIs DEF GalLists
    <3> QED
      BY <3>1, <3>2
  <2> QED
    BY <2>1, <2>2 DEF GalLists
<1>5. ASSUME NEW r \in gal_requests, Gal!Failed(r) \/ Gal!Ignored(r) PROVE GalLists'
  BY <1>5 DEF GalLists, Gal!Failed, Gal!Ignored
<1>6. CASE UNCHANGED <<gal_scope, gal_query, gal_records, gal_requests>>
  BY <1>6 DEF GalLists
<1> QED
  BY <1>1, <1>2, <1>3, <1>4, <1>5, <1>6, GalSteps

\* A loader is begun once for a record, and what it brings is kept by the ref until the page is left.
LEMMA GalImagesNext ==
  ASSUME GalImages, Gal!Next
  PROVE  GalImages'
<1>1. ASSUME NEW r \in Records, Gal!RequestImage(r) PROVE GalImages'
  <2>1. /\ r \notin gal_urls /\ gal_loaders' = gal_loaders \cup {r}
        /\ gal_images' = [gal_images EXCEPT ![r] = "loading"] /\ gal_images[r] # "url"
        /\ UNCHANGED <<gal_mounted, gal_urls, gal_live>>
    BY <1>1 DEF Gal!RequestImage, Gal!AsksForImage, Gal!AsksAgain
  <2> QED
    BY <2>1 DEF GalImages
<1>2. ASSUME NEW r \in gal_loaders, Gal!ImageLoaded(r) PROVE GalImages'
  <2>1. r \in Records
    BY DEF GalImages
  <2>2. gal_live' = [x \in Records |-> IF x \in gal_urls' THEN 1 ELSE 0]
    <3>1. gal_live \in [Records -> Nat]
      BY DEF GalImages
    <3>2. gal_live[r] = IF r \in gal_urls THEN 1 ELSE 0
      BY <2>1 DEF GalImages
    <3>3. (IF r \in gal_urls THEN gal_live[r] ELSE gal_live[r] + 1) = 1
      BY <3>2
    <3>4. gal_live' = [gal_live EXCEPT ![r] = 1] /\ gal_urls' = gal_urls \cup {r}
      BY <1>2, <3>3 DEF Gal!ImageLoaded
    <3> QED
      BY <2>1, <3>1, <3>4 DEF GalImages
  <2>3. /\ gal_urls' = gal_urls \cup {r} /\ gal_loaders' = gal_loaders \ {r}
        /\ gal_images' = [gal_images EXCEPT ![r] = "url"] /\ gal_mounted' = gal_mounted
    BY <1>2 DEF Gal!ImageLoaded
  <2> QED
    BY <2>1, <2>2, <2>3 DEF GalImages
<1>3. ASSUME NEW r \in gal_loaders, Gal!ImageFailed(r) PROVE GalImages'
  <2>1. r \in Records /\ gal_images[r] = "loading"
    BY DEF GalImages
  <2>2. /\ gal_loaders' = gal_loaders \ {r} /\ gal_images' = [gal_images EXCEPT ![r] = "error"]
        /\ UNCHANGED <<gal_mounted, gal_urls, gal_live>>
    BY <1>3 DEF Gal!ImageFailed
  <2> QED
    BY <2>1, <2>2 DEF GalImages
<1>4. CASE Gal!Leave
  <2>1. gal_live' = [r \in Records |-> IF r \in gal_urls THEN gal_live[r] - 1 ELSE gal_live[r]]
    BY <1>4 DEF Gal!Leave
  <2>2. \A r \in Records : (IF r \in gal_urls THEN gal_live[r] - 1 ELSE gal_live[r]) = 0
    BY DEF GalImages
  <2>3. gal_live' = [r \in Records |-> IF r \in gal_urls' THEN 1 ELSE 0]
    BY <1>4, <2>1, <2>2 DEF Gal!Leave
  <2>4. ~gal_mounted' /\ gal_urls' = {} /\ UNCHANGED <<gal_loaders, gal_images>>
    BY <1>4 DEF Gal!Leave
  <2> QED
    BY <2>3, <2>4 DEF GalImages
<1>5. CASE UNCHANGED <<gal_mounted, gal_urls, gal_loaders, gal_images, gal_live>>
  BY <1>5 DEF GalImages
<1> QED
  BY <1>1, <1>2, <1>3, <1>4, <1>5, GalImageSteps

LEMMA GalInvariant ==
  /\ Gal!Init => GalInv
  /\ GalInv /\ [Gal!Next]_galVars => GalInv'
<1>1. ASSUME Gal!Init PROVE GalInv
  <2>1. 1 \in Nat \ {0} /\ gal_query \in Queries /\ gal_requests = {Gal!NewRequest(gal_query, 1, "reset")}
    BY <1>1 DEF Gal!Init
  <2>2. GalTypes
    BY <1>1, <2>1, GalNewRequestIs DEF GalTypes, Gal!Init
  <2>3. GalWaits
    BY <1>1, <2>1, GalNewRequestIs DEF GalWaits, Gal!Init
  <2>4. GalLists
    <3>1. \A X : <<>> \in Seq(X) /\ Once(<<>>)
      BY DEF Once
    <3>2. gal_records = <<>> /\ \A r \in gal_requests : r.ids = <<>>
      BY <1>1, <2>1, GalNewRequestIs DEF Gal!Init
    <3> QED
      BY <3>1, <3>2 DEF GalLists
  <2>5. GalImages
    BY <1>1 DEF GalImages, Gal!Init
  <2>6. GalPublic
    <3>1. PICK n \in 0..Gal!Cardinality(Records) : gal_published \in [1..n -> Records]
      BY <1>1 DEF Gal!Init
    <3>2. Gal!Cardinality(Records) \in Nat
      BY CountedAlike, FS_CardinalityType, ListsAssumption DEF ListsAssumption
    <3>3. n \in Nat /\ gal_published \in Seq(Records)
      BY <3>1, <3>2
    <3> QED
      BY <1>1, <3>3 DEF GalPublic, Once, Gal!Init
  <2> QED
    BY <2>2, <2>3, <2>4, <2>5, <2>6 DEF GalInv
<1>2. ASSUME GalInv, Gal!Next PROVE GalInv'
  BY <1>2, GalTypesNext, GalPublicNext, GalWaitsNext, GalListsNext, GalImagesNext DEF GalInv
<1>3. ASSUME GalInv, UNCHANGED galVars PROVE GalInv'
  BY <1>3 DEF GalInv, GalTypes, GalPublic, GalWaits, GalLists, GalImages
<1> QED
  BY <1>1, <1>2, <1>3

LEMMA GalWaiting ==
  ASSUME GalInv
  PROVE  Gal!WaitsForAnAnswer /\ Gal!ImagesAreLive
<1>1. Gal!WaitsForAnAnswer
  <2>1. (\E r \in gal_requests : r.current) <=> {r \in gal_requests : r.current} # {}
    OBVIOUS
  <2> QED
    BY <2>1 DEF GalInv, GalWaits, Gal!WaitsForAnAnswer
<1>2. Gal!ImagesAreLive
  BY DEF GalInv, GalImages, Gal!ImagesAreLive
<1> QED
  BY <1>1, <1>2

\* The page of one's own records lists nothing of the community's; every other step of the gallery
\* asks for another search, lists more of this one, or changes nothing that PagedList sees.
LEMMA GalRefines ==
  /\ Gal!Init => Gal!Community!Init
  /\ GalInv /\ GalInv' /\ [Gal!Next]_galVars => [Gal!Community!Next]_(Gal!Community!vars)
<1>0. Gal!Community!Widen
  BY DEF Gal!Community!Widen
<1> DEFINE listed == IF gal_scope = "community" THEN gal_records ELSE <<>>
<1>1. Gal!Init => Gal!Community!Init
  BY ListsAssumption DEF ListsAssumption, Gal!Init, Gal!Community!Init
<1>2. ASSUME GalInv, GalInv', Gal!Next PROVE Gal!Community!Next \/ UNCHANGED Gal!Community!vars
  <2>1. ASSUME NEW s \in {"mine", "community"}, NEW t, NEW q \in Queries, Gal!Navigate(s, t, q)
        PROVE  Gal!Community!Next \/ UNCHANGED Gal!Community!vars
    <3>1. CASE Gal!Restart(s, q)
      <4>1. gal_query' = q /\ listed' = <<>>
        BY <2>1, <3>1 DEF Gal!Navigate, Gal!Restart
      <4> QED
        BY <1>0, <4>1 DEF Gal!Community!Next, Gal!Community!Ask
    <3>2. CASE UNCHANGED Gal!community /\ s = gal_scope /\ q = gal_query
      BY <2>1, <3>2 DEF Gal!Navigate, Gal!Community!vars
    <3> QED
      BY <2>1, <3>1, <3>2 DEF Gal!Navigate
  <2>2. ASSUME NEW r \in gal_requests, Gal!Arrived(r) PROVE Gal!Community!Next
    <3>1. r.current /\ UNCHANGED <<gal_query, gal_scope>> /\ gal_scope = "community"
      BY <1>2, <2>2 DEF GalInv, GalWaits, Gal!Arrived, Gal!Concerns
    <3>2. Len(gal_records) <= Len(gal_records') /\ SubSeq(gal_records', 1, Len(gal_records)) = gal_records
      <4>1. CASE r.mode = "reset"
        <5>1. gal_records = <<>> /\ Len(gal_records') \in Nat
          BY <1>2, <3>1, <4>1 DEF GalInv, GalWaits, GalLists
        <5> QED
          BY <5>1, SubSeqEmpty
      <4>2. CASE r.mode # "reset"
        <5>1. gal_records' = Appended(gal_records, r.ids)
          BY <1>2, <2>2, <3>1, <4>2, AppendedAlike DEF GalInv, GalLists, Gal!Arrived
        <5> QED
          BY <1>2, <3>1, <5>1, AppendedIs DEF GalInv, GalLists
      <4> QED
        BY <4>1, <4>2
    <3>3. gal_records' \in Seq(Matching[gal_query']) /\ Once(gal_records')
      BY <1>2, <3>1 DEF GalInv, GalLists
    <3> QED
      BY <1>0, <3>1, <3>2, <3>3 DEF Once, Gal!Community!Next, Gal!Community!Extend, Gal!Community!Once
  <2>3. ASSUME NEW r \in gal_requests, Gal!Serve(r) \/ Gal!Failed(r) \/ Gal!Ignored(r)
        PROVE  UNCHANGED Gal!Community!vars
    BY <2>3 DEF Gal!Serve, Gal!Failed, Gal!Ignored, Gal!Community!vars
  <2>4. CASE Gal!LoadMore
    BY <2>4 DEF Gal!LoadMore, Gal!Community!vars
  <2>5. CASE UNCHANGED <<gal_scope, gal_query, gal_records>>
    BY <2>5 DEF Gal!Community!vars
  <2> QED
    BY <1>2, <2>1, <2>2, <2>3, <2>4, <2>5, GalSteps
<1>3. UNCHANGED galVars => UNCHANGED Gal!Community!vars
  BY DEF Gal!Community!vars
<1> QED
  BY <1>1, <1>2, <1>3

-----------------------------------------------------------------------------
(* What holds of both.                                                     *)

LEMMA ListsStep ==
  ASSUME [ListsNext]_listsVars
  PROVE  [Pag!Next]_pagVars /\ [Gal!Next]_galVars
  BY DEF ListsNext, listsVars

LEMMA ListsInvariant == ListsSpec => [](PagInv /\ GalInv)
<1>1. ListsInit => PagInv /\ GalInv
  BY PagInvariant, GalInvariant DEF ListsInit
<1>2. PagInv /\ GalInv /\ [ListsNext]_listsVars => (PagInv /\ GalInv)'
  BY ListsStep, PagInvariant, GalInvariant
<1> QED
  BY <1>1, <1>2, PTL DEF ListsSpec

\* Whatever is shown as being loaded has a request or a loader that can still end it, in whatever
\* order searches change and answers come (the request ids of usePagedRecords and of the gallery, the
\* refs communityUrlsRef and communityLoadersRef).
THEOREM WaitTheorem == ListsSpec => []NothingWaitsInVain
<1>1. PagInv /\ GalInv => NothingWaitsInVain
  BY PagLoading, GalWaiting DEF NothingWaitsInVain
<1> QED
  BY <1>1, ListsInvariant, PTL

\* When its last page has come, a list of one's own records shows every record that matches on the
\* server, but for those that NotSeen names: what came to match while the list was open and is unknown
\* or older than a listed record, and what the history holds an outdated copy of.  It does so however
\* many records are created or begin to match between two pages and whatever requests of earlier
\* searches are answered late, as long as no record ceases to match and none comes between the count
\* and the rows of the last page (usePagedRecords, pagedRecords).
THEOREM ShownTheorem == ListsSpec => []AllShown
<1>1. PagInv => AllShown
  BY PagShown DEF AllShown
<1> QED
  BY <1>1, ListsInvariant, PTL

\* The hook usePagedRecords implements PagedList.
THEOREM RecordsTheorem == ListsSpec => RecordsPaged
<1>1. ListsInit => Pag!List!Init
  BY PagRefines DEF ListsInit
<1>2. PagInv /\ PagInv' /\ [ListsNext]_listsVars => [Pag!List!Next]_(Pag!List!vars)
  BY ListsStep, PagRefines
<1> QED
  BY <1>1, <1>2, ListsInvariant, PTL DEF ListsSpec, RecordsPaged, Pag!ImplementsPagedList, Pag!List!Spec

\* The community's side of the gallery implements PagedList.
THEOREM CommunityTheorem == ListsSpec => CommunityPaged
<1>1. ListsInit => Gal!Community!Init
  BY GalRefines DEF ListsInit
<1>2. GalInv /\ GalInv' /\ [ListsNext]_listsVars => [Gal!Community!Next]_(Gal!Community!vars)
  BY ListsStep, GalRefines
<1> QED
  BY <1>1, <1>2, ListsInvariant, PTL DEF ListsSpec, CommunityPaged, Gal!ImplementsPagedList,
                                         Gal!Community!Spec
=============================================================================
