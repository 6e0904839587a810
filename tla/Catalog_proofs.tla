--------------------------- MODULE Catalog_proofs ---------------------------
(***************************************************************************)
(* Proofs about Catalog, for any repositories, projects and requests: all  *)
(* its invariants hold in every interleaving of the handlers.              *)
(***************************************************************************)
EXTENDS Catalog, Sums, SequenceTheorems, TLAPS

-----------------------------------------------------------------------------
(***************************************************************************)
(* What a request has in its fields at each step.                          *)
(***************************************************************************)
Notifying  == {"notify_exists", "notify_add"}
Deleting   == {"delete_tags", "delete_exist", "delete_row"}
Refreshing == {"refresh_read", "refresh_put"}
Comparing  == {"sync_add", "sync_del", "synced"}
Writing    == {"copy_blobs", "copy_manifest"}

\* Steps on behalf of an event, of which more copies may follow.
OfEvent(x) == x.step \in Notifying \/ (x.step \in Refreshing /\ x.page > 1)

Filled(x) ==
  /\ OfEvent(x) \/ x.step \in Deleting \cup Copying => x.repo \in Repos
  /\ x.step \in Deleting => x.page = 0
  /\ x.step \in Copying => x.src \in Repos
  /\ x.step \in {"list", "project_delete"} => x.project \in Projects /\ x.repo = None
  /\ x.step = "list" => x.page >= 1
  /\ x.step = "listed" => x.repo = None
  /\ x.step = "copy_manifest" => x.blobs = {}
  /\ x.step \in Syncing => x.repo = None
  /\ x.step \in {"sync_del", "synced"} => x.add = {}
  /\ x.step = "synced" => x.del = {}

\* Nothing is under way before the ui starts.
TypeInv ==
  /\ TypeOK
  /\ \A o \in Requests : Filled(req[o])
  /\ ui = "down" => AllIdle

-----------------------------------------------------------------------------
(***************************************************************************)
(* What a clean request counts on.                                         *)
(***************************************************************************)

\* GetReposByProject, of any table.
Listing(s, p) ==
  LET ids == Sorted({i \in DOMAIN s : ProjectOf[s[i]] = p})
  IN [k \in DOMAIN ids |-> s[ids[k]]]

\* The first n of a list.
IsPrefix(t, s, n) == n <= Len(s) /\ Len(t) = n /\ \A i \in 1..n : t[i] = s[i]

Once(r, s) == \E i \in DOMAIN s : s[i] = r /\ \A j \in DOMAIN s : s[j] = r => j = i

CopyGrounds(x) == x.step \in Writing => Blobs \ blobs[x.repo] \subseteq x.blobs

RowGrounds(x) == x.step = "delete_row" => tags[x.repo] = {}

ProjectGrounds(x) ==
  x.step = "project_delete" => \A r \in Range(rows) : ProjectOf[r] # x.project

SyncGrounds(x) ==
  /\ x.step \in Syncing => x.catalog = known
  /\ x.step = "sync_diff" => Range(x.seen.repos) = Range(rows)
  /\ x.step \in Comparing =>
       /\ \A r \in Repos : tags[r] # {} /\ ProjectOf[r] \in project => r \in Range(rows) \cup x.add
       /\ Range(rows) \subseteq known \cup x.del
       /\ x.add \subseteq known /\ x.del \cap known = {}

PageGrounds(x) ==
  /\ x.step = "list" =>
       /\ x.catalog \subseteq {r \in Range(rows) : ProjectOf[r] = x.project}
       /\ IsPrefix(x.seen.repos, Listing(rows, x.project), (x.page - 1) * PageSize)
  /\ x.step = "listed" => \A r \in x.catalog : Once(r, x.seen.repos)

Grounds(x) ==
  CopyGrounds(x) /\ RowGrounds(x) /\ ProjectGrounds(x) /\ SyncGrounds(x) /\ PageGrounds(x)

\* A push that was not undone has left a tag.
Tagged(x) == OfEvent(x) => tags[x.repo] # {}
EventsTagged == \A i \in DOMAIN events : events[i].clean => tags[events[i].repo] # {}

\* What was read before is older, or the same.
PutGrounds(x) ==
  x.step = "refresh_put" =>
    x.seen.version <= version /\ (x.seen.version = version => x.seen.repos = rows)

GroundsInv ==
  /\ \A o \in Requests : req[o].clean => Grounds(req[o])
  /\ \A o \in Requests : PutGrounds(req[o])
  /\ faults = 0 => EventsTagged /\ \A o \in Requests : req[o].clean => Tagged(req[o])
  /\ RowsOwned

-----------------------------------------------------------------------------
(***************************************************************************)
(* What is not done yet has a request that is about to do it.              *)
(***************************************************************************)

\* The removal of a row without tags.
RealInv ==
  faults = 0 /\ ~raced /\ ~synced =>
    \A r \in Range(rows) : tags[r] = {} =>
      \E q \in Requests : req[q].step \in Deleting /\ req[q].repo = r

\* The row of a repository.
CompleteInv ==
  faults = 0 /\ ~raced /\ ~batched =>
    \A r \in Repos : tags[r] # {} /\ ProjectOf[r] \in project =>
      \/ r \in Range(rows)
      \/ \E i \in DOMAIN events : events[i].repo = r
      \/ \E q \in Requests : req[q].step \in Notifying /\ req[q].repo = r

\* A refresh with the rows as they are.
Fresh(x) == x.step = "refresh_read" \/ (x.step = "refresh_put" /\ x.seen.version = version)
CacheInv ==
  /\ newest <= version
  /\ cache # None => cache.version = newest /\ (newest = version => cache.repos = rows)
  /\ faults = 0 /\ ~overtaken /\ ~synced /\ newest # version =>
       \E q \in Requests : Fresh(req[q])

IInv == TypeInv /\ GroundsInv /\ RealInv /\ CompleteInv /\ CacheInv

-----------------------------------------------------------------------------
(***************************************************************************)
(* Sorted lists.                                                           *)
(***************************************************************************)
Increasing(s) == \A i, j \in DOMAIN s : i < j => s[i] < s[j]

\* s lists S in order.
Lists(s, S) ==
  /\ s \in [1..Cardinality(S) -> S] /\ Increasing(s)
  /\ \A x \in S : \E i \in DOMAIN s : s[i] = x

\* Numbers in order are distinct.
LEMMA IncreasingDistinct ==
  ASSUME NEW S, S \subseteq Nat, NEW n \in Nat, NEW s \in [1..n -> S], Increasing(s)
  PROVE  \A i, j \in 1..n : s[i] = s[j] => i = j
<1> SUFFICES ASSUME NEW i \in 1..n, NEW j \in 1..n, s[i] = s[j] PROVE i = j
  OBVIOUS
<1>1. s[i] \in Nat /\ s[j] \in Nat /\ DOMAIN s = 1..n
  OBVIOUS
<1>2. ~(i < j) /\ ~(j < i)
  BY <1>1 DEF Increasing
<1> QED
  BY <1>2

\* A list of the right length in order has every element.
LEMMA IncreasingAll ==
  ASSUME NEW S, S \subseteq Nat, IsFiniteSet(S), NEW s \in [1..Cardinality(S) -> S], Increasing(s)
  PROVE  Lists(s, S)
<1> DEFINE n == Cardinality(S)
<1>1. n \in Nat /\ IsFiniteSet(1..n) /\ Cardinality(1..n) = n
  BY FS_CardinalityType, FS_Interval
<1>2. \A i, j \in 1..n : s[i] = s[j] => i = j
  BY <1>1, IncreasingDistinct
<1>3. s \in Injection(1..n, S)
  BY <1>2 DEF Injection, IsInjective
<1> HIDE DEF n
<1>4. s \in Surjection(1..n, S)
  BY <1>1, <1>3, FS_Injection DEF n
<1>5. \A x \in S : \E i \in DOMAIN s : s[i] = x
  BY <1>4 DEF Surjection, n
<1> QED
  BY <1>5 DEF Lists

\* A finite set of numbers can be sorted.
LEMMA SortedExists ==
  ASSUME NEW S, S \subseteq Nat, IsFiniteSet(S)
  PROVE  \E s \in [1..Cardinality(S) -> S] : Increasing(s)
<1> DEFINE Fine(A) == \E s \in [1..Cardinality(A) -> A] : Increasing(s)
           C == {A \in SUBSET S : ~Fine(A)}
<1>1. SUFFICES ASSUME C # {} PROVE FALSE
  OBVIOUS
<1>0. C \subseteq SUBSET S
  OBVIOUS
<1>2. PICK A \in C : \A B \in C : B \subseteq A => B = A
  <2> HIDE DEF C, Fine
  <2> QED
    BY ONLY <1>0, <1>1, IsFiniteSet(S), SmallestSet
<1>3. A \subseteq Nat /\ IsFiniteSet(A) /\ Cardinality(A) \in Nat
  BY FS_Subset, FS_CardinalityType
<1>4. A # {}
  <2> SUFFICES ASSUME A = {} PROVE Fine(A)
    BY <1>2
  <2>1. Cardinality(A) = 0
    BY <1>3, FS_EmptySet
  <2> DEFINE s == [i \in 1..Cardinality(A) |-> 0]
  <2>2. s \in [1..Cardinality(A) -> A] /\ Increasing(s)
    BY <2>1 DEF Increasing
  <2> QED
    BY <2>2
<1>5. PICK a \in A : \A b \in A : a <= b
  BY <1>3, <1>4, Smallest
<1> DEFINE B == A \ {a}
           n == Cardinality(B)
<1>6. n \in Nat /\ Cardinality(A) = n + 1
  <2>1. IsFiniteSet(B) /\ Cardinality(B) = Cardinality(A) - 1
    BY <1>3, FS_RemoveElement
  <2>2. Cardinality(B) \in Nat
    BY <2>1, FS_CardinalityType
  <2> QED
    BY <1>3, <2>1, <2>2
<1>14. Fine(B)
  <2>1. B \in SUBSET S /\ B \subseteq A /\ B # A
    BY <1>0, <1>2, <1>5
  <2>2. B \notin C
    BY <1>2, <2>1
  <2>3. \A D \in SUBSET S : D \notin C => Fine(D)
    OBVIOUS
  <2> HIDE DEF B, C, Fine
  <2> QED
    BY <2>1, <2>2, <2>3
<1> HIDE DEF n
<1>7. PICK t \in [1..n -> B] : Increasing(t)
  BY <1>14 DEF n
<1> DEFINE s == [i \in 1..Cardinality(A) |-> IF i = 1 THEN a ELSE t[i - 1]]
<1>8. s \in [1..Cardinality(A) -> A]
  BY <1>6
<1>9. \A i \in 1..n : t[i] \in Nat /\ a < t[i]
  <2> SUFFICES ASSUME NEW i \in 1..n PROVE t[i] \in Nat /\ a < t[i]
    OBVIOUS
  <2>1. t[i] \in A /\ t[i] # a
    BY <1>7
  <2>2. a <= t[i] /\ a \in Nat /\ t[i] \in Nat
    BY <1>3, <1>5, <2>1, Zenon
  <2> HIDE DEF C
  <2> QED
    BY <2>1, <2>2
<1>10. Increasing(s)
  <2> SUFFICES ASSUME NEW i \in 1..n + 1, NEW j \in 1..n + 1, i < j PROVE s[i] < s[j]
    BY <1>6 DEF Increasing
  <2>1. j - 1 \in 1..n /\ s[j] = t[j - 1]
    BY <1>6
  <2>2. CASE i = 1
    BY <1>6, <1>9, <2>1, <2>2
  <2>3. CASE i # 1
    <3>1. i - 1 \in 1..n /\ s[i] = t[i - 1] /\ i - 1 < j - 1
      BY <1>6, <2>3
    <3> HIDE DEF s, n
    <3>2. t[i - 1] < t[j - 1]
      BY <1>7, <2>1, <3>1 DEF Increasing
    <3> QED
      BY <2>1, <3>1, <3>2
  <2> QED
    BY <2>2, <2>3
<1> QED
  BY <1>2, <1>8, <1>10

\* What Sorted returns.
LEMMA SortedLists ==
  ASSUME NEW S, S \subseteq Nat, IsFiniteSet(S)
  PROVE  Lists(Sorted(S), S)
<1>1. Sorted(S) \in [1..Cardinality(S) -> S] /\ Increasing(Sorted(S))
  <2>1. Sorted(S) = CHOOSE s \in [1..Cardinality(S) -> S] : Increasing(s)
    BY DEF Sorted, Increasing
  <2> QED
    BY <2>1, SortedExists
<1> QED
  BY <1>1, IncreasingAll

\* There is one way to list a set in order.
LEMMA ListsUnique ==
  ASSUME NEW S, S \subseteq Nat, IsFiniteSet(S), NEW s, NEW t, Lists(s, S), Lists(t, S)
  PROVE  s = t
<1> DEFINE n == Cardinality(S)
           T == {i \in 1..n : s[i] # t[i]}
<1>1. n \in Nat
  BY FS_CardinalityType
<1>2. s \in [1..n -> S] /\ t \in [1..n -> S] /\ Increasing(s) /\ Increasing(t)
  BY DEF Lists
<1>14. T = {} => s = t
  <2> SUFFICES ASSUME T = {} PROVE s = t
    OBVIOUS
  <2>1. \A i \in 1..n : s[i] = t[i]
    OBVIOUS
  <2> HIDE DEF n, T
  <2>2. s = [i \in 1..n |-> s[i]] /\ t = [i \in 1..n |-> t[i]]
    BY <1>2
  <2>3. [i \in 1..n |-> s[i]] = [i \in 1..n |-> t[i]]
    BY <2>1
  <2> QED
    BY ONLY <2>2, <2>3
<1>3. SUFFICES ASSUME T # {} PROVE FALSE
  BY <1>14
<1>4. T \subseteq Nat /\ T \subseteq 1..n /\ \A i \in 1..n : i \notin T => s[i] = t[i]
  BY <1>1
<1>10. \A i \in T : s[i] # t[i]
  OBVIOUS
<1>11. \A i \in 1..n : s[i] \in S /\ t[i] \in S /\ s[i] \in Nat /\ t[i] \in Nat
  BY <1>2
<1>12. \A x \in S : (\E i \in 1..n : s[i] = x) /\ (\E i \in 1..n : t[i] = x)
  BY <1>2 DEF Lists
<1>13. \A i, j \in 1..n : i < j => s[i] < s[j] /\ t[i] < t[j]
  BY <1>2 DEF Increasing
<1> HIDE DEF T, n
<1>5. PICK k \in T : \A m \in T : k <= m
  BY <1>3, <1>4, Smallest
<1>6. \A i \in 1..n : i < k => s[i] = t[i]
  BY <1>1, <1>4, <1>5
<1>7. k \in 1..n /\ s[k] # t[k]
  BY <1>4, <1>10
<1>8. ~(s[k] < t[k])
  <2> SUFFICES ASSUME s[k] < t[k] PROVE FALSE
    OBVIOUS
  <2>1. PICK m \in 1..n : t[m] = s[k]
    BY <1>7, <1>11, <1>12
  <2>2. CASE m < k
    <3>1. s[m] = t[m] /\ s[m] < s[k] /\ s[k] \in Nat
      BY <1>6, <1>7, <1>11, <1>13, <2>2
    <3> QED
      BY <2>1, <3>1
  <2>3. CASE m = k
    BY <1>7, <2>1, <2>3
  <2>4. CASE k < m
    <3>1. t[k] < t[m] /\ t[k] \in Nat /\ s[k] \in Nat
      BY <1>7, <1>11, <1>13, <2>4
    <3> QED
      BY <2>1, <3>1
  <2> QED
    BY <1>1, <1>7, <2>2, <2>3, <2>4
<1>9. ~(t[k] < s[k])
  <2> SUFFICES ASSUME t[k] < s[k] PROVE FALSE
    OBVIOUS
  <2>1. PICK m \in 1..n : s[m] = t[k]
    BY <1>7, <1>11, <1>12
  <2>2. CASE m < k
    <3>1. s[m] = t[m] /\ t[m] < t[k] /\ t[k] \in Nat
      BY <1>6, <1>7, <1>11, <1>13, <2>2
    <3> QED
      BY <2>1, <3>1
  <2>3. CASE m = k
    BY <1>7, <2>1, <2>3
  <2>4. CASE k < m
    <3>1. s[k] < s[m] /\ t[k] \in Nat /\ s[k] \in Nat
      BY <1>7, <1>11, <1>13, <2>4
    <3> QED
      BY <2>1, <3>1
  <2> QED
    BY <1>1, <1>7, <2>2, <2>3, <2>4
<1> QED
  BY <1>7, <1>8, <1>9, <1>11

\* A sorted list as a sequence.
SortedSeq(s, S) ==
  /\ s \in Seq(S) /\ Len(s) = Cardinality(S) /\ Len(s) \in Nat /\ DOMAIN s = 1..Len(s)
  /\ \A i \in 1..Len(s) : s[i] \in S /\ s[i] \in Nat
  /\ \A i, j \in 1..Len(s) : i < j => s[i] < s[j]
  /\ \A i, j \in 1..Len(s) : s[i] = s[j] => i = j
  /\ \A x \in S : \E i \in 1..Len(s) : s[i] = x

\* What the list of a set is as a sequence.
LEMMA ListsSeq ==
  ASSUME NEW S, S \subseteq Nat, IsFiniteSet(S), NEW s, Lists(s, S)
  PROVE  SortedSeq(s, S)
<1> DEFINE n == Cardinality(S)
<1>1. n \in Nat
  BY FS_CardinalityType
<1>2. s \in [1..n -> S] /\ Increasing(s) /\ \A x \in S : \E i \in DOMAIN s : s[i] = x
  BY DEF Lists
<1> HIDE DEF n
<1>3. s \in Seq(S) /\ Len(s) = n /\ DOMAIN s = 1..n
  BY <1>1, <1>2
<1>4. \A i, j \in 1..n : s[i] = s[j] => i = j
  <2>1. s \in [1..n -> S] /\ Increasing(s)
    BY <1>2
  <2> QED
    BY <1>1, <2>1, IncreasingDistinct, Zenon
<1> QED
  BY <1>1, <1>2, <1>3, <1>4 DEF n, Increasing, SortedSeq

-----------------------------------------------------------------------------
(***************************************************************************)
(* The rows of a project.                                                  *)
(***************************************************************************)
Ids(s, p) == {i \in DOMAIN s : ProjectOf[s[i]] = p}

\* The ids of a project's rows can be listed.
LEMMA IdsLists ==
  ASSUME NEW s \in Seq(Repos), NEW p
  PROVE  Ids(s, p) \subseteq Nat /\ IsFiniteSet(Ids(s, p)) /\ Lists(Sorted(Ids(s, p)), Ids(s, p))
<1>1. DOMAIN s = 1..Len(s) /\ Len(s) \in Nat
  OBVIOUS
<1>2. IsFiniteSet(1..Len(s))
  BY <1>1, FS_Interval
<1>3. Ids(s, p) \in SUBSET (1..Len(s))
  BY <1>1 DEF Ids
<1>4. IsFiniteSet(Ids(s, p))
  BY <1>2, <1>3, FS_Subset
<1>5. Ids(s, p) \subseteq Nat
  BY <1>1, <1>3
<1> QED
  BY <1>4, <1>5, SortedLists

\* GetReposByProject returns a list of repositories.
LEMMA ListingSeq ==
  ASSUME NEW s \in Seq(Repos), NEW p
  PROVE  Listing(s, p) \in Seq(Repos)
<1> DEFINE I == Ids(s, p)
           t == Sorted(I)
<1>1. Listing(s, p) = [k \in DOMAIN t |-> s[t[k]]]
  BY DEF Listing, Ids
<1>2. Lists(t, I) /\ I \subseteq Nat /\ IsFiniteSet(I)
  BY IdsLists
<1>3. I \subseteq DOMAIN s
  BY DEF Ids
<1> HIDE DEF t, I
<1>4. SortedSeq(t, I)
  BY <1>2, ListsSeq, Zenon
<1>5. \A k \in 1..Len(t) : s[t[k]] \in Repos
  BY <1>3, <1>4 DEF SortedSeq
<1>6. Len(t) \in Nat /\ DOMAIN t = 1..Len(t)
  BY <1>4 DEF SortedSeq
<1>7. [k \in 1..Len(t) |-> s[t[k]]] \in Seq(Repos)
  BY <1>5, <1>6
<1> QED
  BY <1>1, <1>6, <1>7

\* A listing has every row of the project, once.
LEMMA ListingRows ==
  ASSUME NEW s \in Seq(Repos), IsInjective(s), NEW p
  PROVE  /\ Listing(s, p) \in Seq(Repos)
         /\ \A r \in Range(s) : ProjectOf[r] = p => Once(r, Listing(s, p))
         /\ Listing(s, p) = <<>> => \A r \in Range(s) : ProjectOf[r] # p
         /\ \A i \in DOMAIN Listing(s, p) :
              Listing(s, p)[i] \in Range(s) /\ ProjectOf[Listing(s, p)[i]] = p
<1> DEFINE I == Ids(s, p)
           t == Sorted(I)
           L == [k \in DOMAIN t |-> s[t[k]]]
<1>1. Listing(s, p) = L
  BY DEF Listing, Ids
<1>2. Lists(t, I) /\ I \subseteq Nat /\ IsFiniteSet(I)
  BY IdsLists
<1>3. /\ Len(t) \in Nat /\ DOMAIN t = 1..Len(t)
      /\ \A i \in 1..Len(t) : t[i] \in I
      /\ \A i, j \in 1..Len(t) : t[i] = t[j] => i = j
      /\ \A x \in I : \E i \in 1..Len(t) : t[i] = x
  <2> HIDE DEF t, I, L
  <2>1. SortedSeq(t, I)
    BY <1>2, ListsSeq, Zenon
  <2> QED
    BY <2>1 DEF SortedSeq
<1>4. I \subseteq DOMAIN s /\ \A i \in I : ProjectOf[s[i]] = p
  BY DEF Ids
<1>5. \A i \in DOMAIN s : s[i] \in Repos /\ s[i] \in Range(s)
  BY DEF Range
<1>12. \A i \in DOMAIN s : ProjectOf[s[i]] = p => i \in I
  BY DEF Ids
<1> HIDE DEF t, I
<1>6. L \in Seq(Repos) /\ Len(L) = Len(t) /\ DOMAIN L = 1..Len(t)
  BY <1>3, <1>4, <1>5
<1>7. \A i \in DOMAIN L : L[i] \in Range(s) /\ ProjectOf[L[i]] = p
  BY <1>3, <1>4, <1>5
<1>8. ASSUME NEW r \in Range(s), ProjectOf[r] = p PROVE Once(r, L) /\ L # <<>>
  <2>1. PICK i \in DOMAIN s : s[i] = r
    BY DEF Range
  <2>2. PICK k \in 1..Len(t) : t[k] = i
    BY <1>3, <1>8, <1>12, <2>1
  <2>3. k \in DOMAIN L /\ L[k] = r
    BY <1>3, <2>1, <2>2
  <2>4. ASSUME NEW j \in DOMAIN L, L[j] = r PROVE j = k
    <3>1. j \in 1..Len(t) /\ t[j] \in DOMAIN s /\ s[t[j]] = s[i]
      BY <1>3, <1>4, <2>1, <2>4
    <3>2. t[j] = i
      BY <3>1 DEF IsInjective
    <3> QED
      BY <1>3, <2>2, <3>1, <3>2
  <2>5. L # <<>>
    BY <1>3, <1>6, <2>2
  <2> HIDE DEF L
  <2> QED
    BY <2>3, <2>4, <2>5 DEF Once
<1> HIDE DEF L
<1>9. \A r \in Range(s) : ProjectOf[r] = p => Once(r, L)
  BY <1>8
<1>10. L = <<>> => \A r \in Range(s) : ProjectOf[r] # p
  BY <1>8
<1> QED
  BY <1>1, <1>6, <1>7, <1>9, <1>10

\* A new row comes at the end.
LEMMA ListingGrows ==
  ASSUME NEW s \in Seq(Repos), IsInjective(s), NEW p, NEW r \in Repos
  PROVE  LET L == Listing(s, p)
         IN IsPrefix(L, Listing(Append(s, r), p), Len(L))
<1> DEFINE I == Ids(s, p)
           t == Sorted(I)
           L == [k \in DOMAIN t |-> s[t[k]]]
           s2 == Append(s, r)
           I2 == Ids(s2, p)
           t2 == Sorted(I2)
           L2 == [k \in DOMAIN t2 |-> s2[t2[k]]]
           n == Len(s)
<1>1. Listing(s, p) = L /\ Listing(s2, p) = L2
  BY DEF Listing, Ids
<1>2. /\ s2 \in Seq(Repos) /\ DOMAIN s2 = 1..n + 1 /\ n \in Nat /\ DOMAIN s = 1..n
      /\ s2[n + 1] = r /\ \A i \in 1..n : s2[i] = s[i]
  OBVIOUS
<1>3. Lists(t, I) /\ I \subseteq Nat /\ IsFiniteSet(I)
  BY IdsLists
<1>20. I \subseteq 1..n
  BY <1>2 DEF Ids
<1>4. Lists(t2, I2) /\ I2 \subseteq Nat /\ IsFiniteSet(I2)
  <2> HIDE DEF s2
  <2> QED
    BY <1>2, IdsLists
<1>5. /\ Len(t) = Cardinality(I) /\ Len(t) \in Nat /\ DOMAIN t = 1..Len(t)
      /\ \A i \in 1..Len(t) : t[i] \in I /\ t[i] \in Nat
      /\ \A i, j \in 1..Len(t) : i < j => t[i] < t[j]
      /\ \A x \in I : \E i \in 1..Len(t) : t[i] = x
  <2> HIDE DEF t, I, L, s2, L2
  <2>1. SortedSeq(t, I)
    BY <1>3, ListsSeq, Zenon
  <2> QED
    BY <2>1 DEF SortedSeq
<1>6. I2 = IF ProjectOf[r] = p THEN I \cup {n + 1} ELSE I
  <2> HIDE DEF s2
  <2>1. \A i \in 1..n + 1 : i \in I2 <=> (IF i = n + 1 THEN ProjectOf[r] = p ELSE i \in I)
    BY <1>2 DEF Ids
  <2>2. I2 \subseteq 1..n + 1
    BY <1>2 DEF Ids
  <2>3. \A i : i \in 1..n + 1 <=> i \in 1..n \/ i = n + 1
    BY <1>2
  <2>4. n + 1 \notin 1..n
    BY <1>2
  <2> HIDE DEF I2, I, n
  <2>5. CASE ProjectOf[r] = p
    BY <1>20, <2>1, <2>2, <2>3, <2>4, <2>5
  <2>6. CASE ProjectOf[r] # p
    BY <1>20, <2>1, <2>2, <2>3, <2>4, <2>6
  <2> QED
    BY <2>5, <2>6
<1>7. Len(t) <= Len(t2) /\ DOMAIN t2 = 1..Len(t2) /\ Len(t2) \in Nat
        /\ \A i \in 1..Len(t) : t2[i] = t[i]
  <2>1. CASE ProjectOf[r] # p
    <3>1. t2 = t
      BY <1>6, <2>1
    <3> HIDE DEF t, t2, I, I2
    <3> QED
      BY <1>5, <3>1
  <2>2. CASE ProjectOf[r] = p
    <3> DEFINE m == Len(t)
               u == [i \in 1..m + 1 |-> IF i = m + 1 THEN n + 1 ELSE t[i]]
    <3>10. I2 = I \cup {n + 1}
      BY <1>6, <2>2
    <3> HIDE DEF t, t2, I, I2, s2
    <3>1. n + 1 \notin I /\ \A x \in I : x \in Nat /\ x < n + 1
      BY <1>2, <1>20
    <3>2. Cardinality(I2) = m + 1
      BY <1>3, <1>5, <3>1, <3>10, FS_AddElement
    <3>3. u \in [1..Cardinality(I2) -> I2]
      BY <1>5, <3>2, <3>10
    <3>4. Increasing(u)
      <4> SUFFICES ASSUME NEW i \in 1..m + 1, NEW j \in 1..m + 1, i < j PROVE u[i] < u[j]
        BY DEF Increasing
      <4>1. m \in Nat /\ i \in 1..m /\ u[i] = t[i] /\ t[i] \in I
        BY <1>5
      <4>2. CASE j = m + 1
        BY <3>1, <4>1, <4>2
      <4>3. CASE j # m + 1
        <5>1. j \in 1..m /\ u[j] = t[j]
          BY <4>1, <4>3
        <5> HIDE DEF u
        <5> QED
          BY <1>5, <4>1, <5>1
      <4> QED
        BY <4>2, <4>3
    <3>5. Lists(u, I2)
      BY <1>4, <3>3, <3>4, IncreasingAll
    <3>6. u = t2
      BY <1>4, <3>5, ListsUnique
    <3>7. Len(t2) = m + 1 /\ DOMAIN t2 = 1..Len(t2)
      BY <1>4, <3>2, ListsSeq DEF SortedSeq
    <3>8. \A i \in 1..m : u[i] = t[i]
      BY <1>5
    <3> HIDE DEF u
    <3> QED
      BY <1>5, <3>6, <3>7, <3>8
  <2> QED
    BY <2>1, <2>2
<1> HIDE DEF t, t2, I, I2, s2
<1>8. Len(L) = Len(t) /\ DOMAIN L = 1..Len(t) /\ \A i \in 1..Len(t) : L[i] = s[t[i]]
  BY <1>5
<1>9. Len(L2) = Len(t2) /\ \A i \in 1..Len(t2) : L2[i] = s2[t2[i]]
  BY <1>7
<1>10. \A i \in 1..Len(t) : L[i] = L2[i]
  BY <1>2, <1>5, <1>7, <1>8, <1>9, <1>20
<1> HIDE DEF L, L2
<1>11. IsPrefix(L, L2, Len(L))
  BY <1>7, <1>8, <1>9, <1>10 DEF IsPrefix
<1> QED
  BY <1>1, <1>11 DEF s2

-----------------------------------------------------------------------------
(***************************************************************************)
(* The statements on the table.                                            *)
(***************************************************************************)
LEMMA WithRowRows ==
  ASSUME rows \in Seq(Repos), IsInjective(rows), NEW r \in Repos
  PROVE  /\ WithRow(r) \in Seq(Repos) /\ IsInjective(WithRow(r))
         /\ \/ WithRow(r) = rows /\ (r \in Range(rows) \/ ProjectOf[r] \notin project)
            \/ /\ WithRow(r) = Append(rows, r) /\ r \notin Range(rows) /\ ProjectOf[r] \in project
               /\ Range(WithRow(r)) = Range(rows) \cup {r}
<1>1. CASE r \in Range(rows) \/ ProjectOf[r] \notin project
  BY <1>1 DEF WithRow, RepositoryExists, ProjectExists
<1>2. CASE r \notin Range(rows) /\ ProjectOf[r] \in project
  <2> DEFINE s == Append(rows, r)
             n == Len(rows)
  <2>1. WithRow(r) = s
    BY <1>2 DEF WithRow, RepositoryExists, ProjectExists
  <2>2. /\ s \in Seq(Repos) /\ DOMAIN s = 1..n + 1 /\ n \in Nat /\ DOMAIN rows = 1..n
        /\ s[n + 1] = r /\ \A i \in 1..n : s[i] = rows[i]
    OBVIOUS
  <2>3. \A i \in 1..n + 1 : i \in 1..n \/ i = n + 1
    BY <2>2
  <2>4. \A i \in 1..n : rows[i] \in Range(rows)
    BY <2>2 DEF Range
  <2> HIDE DEF s, n
  <2>5. IsInjective(s)
    BY <1>2, <2>2, <2>3, <2>4 DEF IsInjective
  <2>6. Range(s) = Range(rows) \cup {r}
    <3>1. \A i \in 1..n : i \in 1..n + 1
      BY <2>2
    <3>2. n + 1 \in 1..n + 1
      BY <2>2
    <3> QED
      BY <2>2, <2>3, <3>1, <3>2 DEF Range
  <2> QED
    BY <1>2, <2>1, <2>2, <2>5, <2>6 DEF s
<1> QED
  BY <1>1, <1>2

\* The deletion of a row takes away exactly that name.
LEMMA WithoutRowRows ==
  ASSUME rows \in Seq(Repos), IsInjective(rows), NEW r \in Repos
  PROVE  /\ WithoutRow(r) \in Seq(Repos) /\ IsInjective(WithoutRow(r))
         /\ Range(WithoutRow(r)) = Range(rows) \ {r}
<1>1. CASE r \notin Range(rows)
  BY <1>1 DEF WithoutRow, RepositoryExists
<1>2. CASE r \in Range(rows)
  <2> DEFINE n == Len(rows)
             id == CHOOSE i \in DOMAIN rows : rows[i] = r
             at(i) == IF i < id THEN i ELSE i + 1
             s == [i \in 1..n - 1 |-> rows[at(i)]]
  <2>1. WithoutRow(r) = s
    BY <1>2 DEF WithoutRow, RepositoryExists
  <2>2. n \in Nat /\ DOMAIN rows = 1..n /\ \A i \in 1..n : rows[i] \in Repos
    OBVIOUS
  <2>3. id \in 1..n /\ rows[id] = r
    BY <1>2, <2>2 DEF Range
  <2>4. \A i, j \in 1..n : rows[i] = rows[j] => i = j
    BY <2>2 DEF IsInjective
  <2> HIDE DEF id, n
  <2>5. \A i \in 1..n - 1 : at(i) \in 1..n /\ at(i) # id
    BY <2>2, <2>3
  <2>6. \A i, j \in 1..n - 1 : at(i) = at(j) => i = j
    BY <2>2, <2>3
  <2>7. \A k \in 1..n : k # id => \E i \in 1..n - 1 : at(i) = k
    <3> SUFFICES ASSUME NEW k \in 1..n, k # id PROVE \E i \in 1..n - 1 : at(i) = k
      OBVIOUS
    <3>1. CASE k < id
      <4>1. k \in 1..n - 1 /\ at(k) = k
        BY <2>2, <2>3, <3>1
      <4> QED
        BY <4>1
    <3>2. CASE id < k
      <4>1. k - 1 \in 1..n - 1 /\ at(k - 1) = k
        BY <2>2, <2>3, <3>2
      <4> QED
        BY <4>1
    <3> QED
      BY <2>2, <2>3, <3>1, <3>2
  <2> HIDE DEF at
  <2>8. s \in Seq(Repos) /\ DOMAIN s = 1..n - 1
    <3>1. n - 1 \in Nat
      BY <2>2, <2>3
    <3>2. s \in [1..n - 1 -> Repos]
      BY <2>2, <2>5
    <3> HIDE DEF s
    <3> QED
      BY <3>1, <3>2
  <2>9. \A i \in 1..n - 1 : s[i] = rows[at(i)]
    OBVIOUS
  <2> HIDE DEF s
  <2>10. IsInjective(s)
    BY <2>4, <2>5, <2>6, <2>8, <2>9 DEF IsInjective
  <2>11. Range(s) \subseteq Range(rows) \ {r}
    BY <2>2, <2>3, <2>4, <2>5, <2>8, <2>9 DEF Range
  <2>12. ASSUME NEW x \in Range(rows), x # r PROVE x \in Range(s)
    <3>1. PICK k \in 1..n : rows[k] = x
      BY <2>2 DEF Range
    <3>2. k # id
      BY <2>3, <2>12, <3>1
    <3>3. PICK i \in 1..n - 1 : at(i) = k
      BY <2>7, <3>2
    <3> QED
      BY <2>8, <2>9, <3>1, <3>3 DEF Range
  <2> QED
    BY <2>1, <2>8, <2>10, <2>11, <2>12
<1> QED
  BY <1>1, <1>2

\* First takes the smallest.
LEMMA FirstIn ==
  ASSUME NEW S, S \subseteq Nat, S # {}
  PROVE  First(S) \in S
BY Smallest DEF First

-----------------------------------------------------------------------------
(***************************************************************************)
(* diffRepos: what the merge computes.                                     *)
(***************************************************************************)

\* One step of the merge, given the results of later steps.
DiffStep(R, D, g, at) ==
  LET Add(d, r, needed) == IF needed THEN [d EXCEPT !.add = @ \cup {r}] ELSE d
      Del(d, r) == [d EXCEPT !.del = @ \cup {r}]
      i == at[1]
      j == at[2]
  IN CASE i <= Len(R) /\ j <= Len(D) /\ R[i] < D[j] ->
            Add(g[<<i + 1, j>>], R[i], ProjectExists(R[i]) /\ RepositoryExist(R[i]))
       [] i <= Len(R) /\ j <= Len(D) /\ R[i] = D[j] -> g[<<i + 1, j + 1>>]
       [] i <= Len(R) /\ j > Len(D) -> Add(g[<<i + 1, j>>], R[i], ProjectExists(R[i]))
       [] j <= Len(D) /\ (i > Len(R) \/ R[i] > D[j]) -> Del(g[<<i, j + 1>>], D[j])
       [] OTHER -> [add |-> {}, del |-> {}]

Places(R, D) == (1..Len(R) + 1) \X (1..Len(D) + 1)

Diffs(R, D, g) == g = [at \in Places(R, D) |-> DiffStep(R, D, g, at)]

\* DiffRepos is the result of the merge at its first place.
LEMMA DiffUnfold ==
  ASSUME NEW A, NEW B
  PROVE  LET R == Sorted(A)
             D == Sorted(B)
         IN DiffRepos(A, B) = (CHOOSE g : Diffs(R, D, g))[<<1, 1>>]
BY DEF DiffRepos, Diffs, Places, DiffStep

\* What is left of a list from place i on.
From(s, i) == {s[k] : k \in i..Len(s)}

\* What is left of a sorted list: its first element and the rest, which is larger.
LEMMA FromSplit ==
  ASSUME NEW S, NEW s, SortedSeq(s, S), NEW i \in 1..Len(s) + 1
  PROVE  /\ From(s, i) \subseteq S /\ From(s, i) \subseteq Nat
         /\ i > Len(s) => From(s, i) = {}
         /\ i <= Len(s) => /\ From(s, i) = {s[i]} \cup From(s, i + 1)
                           /\ \A x \in From(s, i + 1) : s[i] < x
         /\ i = 1 => From(s, i) = S
<1> DEFINE n == Len(s)
<1>1. n \in Nat /\ i \in Nat /\ i >= 1
  BY DEF SortedSeq
<1>2. \A k \in i..n : k \in 1..n
  BY <1>1
<1>3. From(s, i) \subseteq S /\ From(s, i) \subseteq Nat
  BY <1>2 DEF From, SortedSeq
<1>4. i > n => From(s, i) = {}
  BY <1>1 DEF From
<1>5. ASSUME i <= n PROVE From(s, i) = {s[i]} \cup From(s, i + 1)
  <2>1. \A k : k \in i..n <=> k = i \/ k \in i + 1..n
    BY <1>1, <1>5
  <2> QED
    BY <2>1 DEF From
<1>6. ASSUME i <= n, NEW x \in From(s, i + 1) PROVE s[i] < x
  <2>1. PICK k \in i + 1..n : x = s[k]
    BY DEF From
  <2>2. i \in 1..n /\ k \in 1..n /\ i < k
    BY <1>1, <1>6
  <2> QED
    BY <2>1, <2>2 DEF SortedSeq
<1>7. i = 1 => From(s, i) = S
  BY DEF From, SortedSeq
<1> QED
  BY <1>3, <1>4, <1>5, <1>6, <1>7

\* What the merge of R and D is to add.
ToAdd(R, D) ==
  {r \in R \ D : ProjectExists(r) /\ (RepositoryExist(r) \/ \A d \in D : d < r)}

\* What is to be added, when the first of the registry is smaller than all rows.
LEMMA ToAddLess ==
  ASSUME NEW R, R \subseteq Nat, NEW D, D \subseteq Nat, NEW x \in Nat, NEW d \in D,
         \A y \in R : x < y, \A y \in D : x < y
  PROVE  /\ ToAdd({x} \cup R, D) =
              IF ProjectExists(x) /\ RepositoryExist(x) THEN ToAdd(R, D) \cup {x} ELSE ToAdd(R, D)
         /\ D \ ({x} \cup R) = D \ R
<1>1. x \notin D /\ x \notin R /\ ~(\A y \in D : y < x)
  <2>1. x < d /\ d \in Nat
    OBVIOUS
  <2>2. ~(d < x)
    BY <2>1
  <2> QED
    BY <2>2
<1>2. D \ ({x} \cup R) = D \ R
  BY <1>1
<1>3. CASE ProjectExists(x) /\ RepositoryExist(x)
  BY <1>1, <1>2, <1>3 DEF ToAdd
<1>4. CASE ~(ProjectExists(x) /\ RepositoryExist(x))
  BY <1>1, <1>2, <1>4 DEF ToAdd
<1> QED
  BY <1>3, <1>4

\* What is to be added, when both lists begin with the same.
LEMMA ToAddBoth ==
  ASSUME NEW R, R \subseteq Nat, NEW D, D \subseteq Nat, NEW x \in Nat,
         \A y \in R : x < y, \A y \in D : x < y
  PROVE  /\ ToAdd({x} \cup R, {x} \cup D) = ToAdd(R, D)
         /\ ({x} \cup D) \ ({x} \cup R) = D \ R
<1>1. x \notin D /\ x \notin R
  OBVIOUS
<1>2. ({x} \cup R) \ ({x} \cup D) = R \ D /\ ({x} \cup D) \ ({x} \cup R) = D \ R
  BY <1>1
<1>3. \A r \in R : (\A d \in {x} \cup D : d < r) <=> (\A d \in D : d < r)
  OBVIOUS
<1> QED
  BY <1>2, <1>3 DEF ToAdd

\* What is to be added, when no row is left.
LEMMA ToAddTail ==
  ASSUME NEW R, R \subseteq Nat, NEW x \in Nat, \A y \in R : x < y
  PROVE  ToAdd({x} \cup R, {}) = IF ProjectExists(x) THEN ToAdd(R, {}) \cup {x} ELSE ToAdd(R, {})
BY DEF ToAdd

\* What is to be added, when the first row is smaller than all of the registry.
LEMMA ToAddMore ==
  ASSUME NEW R, R \subseteq Nat, NEW D, D \subseteq Nat, NEW x \in Nat,
         \A y \in R : x < y, \A y \in D : x < y
  PROVE  /\ ToAdd(R, {x} \cup D) = ToAdd(R, D)
         /\ ({x} \cup D) \ R = (D \ R) \cup {x}
<1>1. x \notin D /\ x \notin R
  OBVIOUS
<1>2. R \ ({x} \cup D) = R \ D /\ ({x} \cup D) \ R = (D \ R) \cup {x}
  BY <1>1
<1>3. \A r \in R : (\A d \in {x} \cup D : d < r) <=> (\A d \in D : d < r)
  OBVIOUS
<1> QED
  BY <1>2, <1>3 DEF ToAdd

Diff(R, D) == [add |-> ToAdd(R, D), del |-> D \ R]

\* The steps after the one at place i, j are right.
LaterRight(R, D, g, i, j) ==
  /\ i <= Len(R) => g[<<i + 1, j>>] = Diff(From(R, i + 1), From(D, j))
  /\ j <= Len(D) => g[<<i, j + 1>>] = Diff(From(R, i), From(D, j + 1))
  /\ i <= Len(R) /\ j <= Len(D) => g[<<i + 1, j + 1>>] = Diff(From(R, i + 1), From(D, j + 1))

AddTo(d, z) == [d EXCEPT !.add = @ \cup {z}]
DelTo(d, z) == [d EXCEPT !.del = @ \cup {z}]

\* The fields after an update of one of them.
LEMMA UpdateDiff ==
  ASSUME NEW P, NEW Q, NEW z
  PROVE  /\ AddTo(Diff(P, Q), z) = [add |-> ToAdd(P, Q) \cup {z}, del |-> Q \ P]
         /\ DelTo(Diff(P, Q), z) = [add |-> ToAdd(P, Q), del |-> (Q \ P) \cup {z}]
<1>1. PICK a, b, d : a = ToAdd(P, Q) /\ b = Q \ P /\ d = Diff(P, Q)
  OBVIOUS
<1>2. d = [add |-> a, del |-> b]
  BY <1>1 DEF Diff
<1>3. AddTo(d, z) = [add |-> a \cup {z}, del |-> b]
  BY <1>2 DEF AddTo
<1>4. DelTo(d, z) = [add |-> a, del |-> b \cup {z}]
  BY <1>2 DEF DelTo
<1> QED
  BY <1>1, <1>3, <1>4

\* One step is right when the later ones are.
LEMMA DiffStepRight ==
  ASSUME NEW A, NEW B, NEW R, NEW D, SortedSeq(R, A), SortedSeq(D, B), NEW g,
         NEW i \in 1..Len(R) + 1, NEW j \in 1..Len(D) + 1, LaterRight(R, D, g, i, j)
  PROVE  DiffStep(R, D, g, <<i, j>>) = Diff(From(R, i), From(D, j))
<1> DEFINE m == Len(R)
           n == Len(D)
           RR == From(R, i)
           DD == From(D, j)
           R1 == From(R, i + 1)
           D1 == From(D, j + 1)
           x == R[i]
           y == D[j]
           Add(d, r, needed) == IF needed THEN [d EXCEPT !.add = @ \cup {r}] ELSE d
<1>1. m \in Nat /\ n \in Nat /\ i \in Nat /\ j \in Nat
  BY DEF SortedSeq
<1>2. i <= m => i \in 1..m /\ x \in Nat
  BY <1>1 DEF SortedSeq
<1>3. j <= n => j \in 1..n /\ y \in Nat
  BY <1>1 DEF SortedSeq
<1>4. RR \subseteq Nat /\ DD \subseteq Nat /\ (i > m => RR = {}) /\ (j > n => DD = {})
  BY FromSplit
<1>5. i <= m => RR = {x} \cup R1 /\ R1 \subseteq Nat /\ \A z \in R1 : x < z
  BY <1>4, FromSplit
<1>6. j <= n => DD = {y} \cup D1 /\ D1 \subseteq Nat /\ \A z \in D1 : y < z
  BY <1>4, FromSplit
<1>7. /\ i <= m => g[<<i + 1, j>>] = Diff(R1, DD)
      /\ j <= n => g[<<i, j + 1>>] = Diff(RR, D1)
      /\ i <= m /\ j <= n => g[<<i + 1, j + 1>>] = Diff(R1, D1)
  BY DEF LaterRight
<1>8. DiffStep(R, D, g, <<i, j>>) =
        CASE i <= m /\ j <= n /\ x < y ->
                 Add(g[<<i + 1, j>>], x, ProjectExists(x) /\ RepositoryExist(x))
          [] i <= m /\ j <= n /\ x = y -> g[<<i + 1, j + 1>>]
          [] i <= m /\ j > n -> Add(g[<<i + 1, j>>], x, ProjectExists(x))
          [] j <= n /\ (i > m \/ x > y) ->
                 [g[<<i, j + 1>>] EXCEPT !.del = @ \cup {y}]
          [] OTHER -> [add |-> {}, del |-> {}]
  BY DEF DiffStep
<1>9. \A P, Q, z : /\ AddTo(Diff(P, Q), z) = [add |-> ToAdd(P, Q) \cup {z}, del |-> Q \ P]
                   /\ DelTo(Diff(P, Q), z) = [add |-> ToAdd(P, Q), del |-> (Q \ P) \cup {z}]
  BY UpdateDiff
<1>10. \A P, Q : Diff(P, Q) = [add |-> ToAdd(P, Q), del |-> Q \ P]
  BY DEF Diff
<1> DEFINE v == DiffStep(R, D, g, <<i, j>>)
<1> HIDE DEF m, n, RR, DD, R1, D1, x, y, v, Add
<1>11. CASE i <= m /\ j <= n /\ x < y
  <2>1. v = Add(g[<<i + 1, j>>], x, ProjectExists(x) /\ RepositoryExist(x))
    BY <1>1, <1>2, <1>3, <1>8, <1>11 DEF v, m, n
  <2>2. y \in DD /\ \A z \in DD : x < z
    BY <1>2, <1>3, <1>6, <1>11
  <2>3. /\ ToAdd({x} \cup R1, DD) =
             IF ProjectExists(x) /\ RepositoryExist(x) THEN ToAdd(R1, DD) \cup {x} ELSE ToAdd(R1, DD)
        /\ DD \ ({x} \cup R1) = DD \ R1
    BY <1>2, <1>4, <1>5, <1>11, <2>2, ToAddLess
  <2>4. RR = {x} \cup R1 /\ g[<<i + 1, j>>] = Diff(R1, DD)
    BY <1>5, <1>7, <1>11
  <2>5. v = Diff(RR, DD)
    <3>1. CASE ProjectExists(x) /\ RepositoryExist(x)
      <4>1. v = AddTo(Diff(R1, DD), x)
        BY <2>1, <2>4, <3>1 DEF Add, AddTo
      <4>2. v = [add |-> ToAdd(R1, DD) \cup {x}, del |-> DD \ R1]
        BY ONLY <1>9, <4>1
      <4>3. ToAdd(RR, DD) = ToAdd(R1, DD) \cup {x} /\ DD \ RR = DD \ R1
        BY ONLY <2>3, <2>4, <3>1
      <4> QED
        BY ONLY <1>10, <4>2, <4>3
    <3>2. CASE ~(ProjectExists(x) /\ RepositoryExist(x))
      <4>1. v = Diff(R1, DD)
        BY <2>1, <2>4, <3>2 DEF Add
      <4> QED
        BY <1>10, <2>3, <2>4, <3>2, <4>1
    <3> QED
      BY <3>1, <3>2
  <2> QED
    BY <2>5 DEF v, RR, DD
<1>12. CASE i <= m /\ j <= n /\ x = y
  <2>1. v = g[<<i + 1, j + 1>>]
    BY <1>1, <1>2, <1>3, <1>8, <1>12 DEF v, m, n
  <2>2. ToAdd({x} \cup R1, {x} \cup D1) = ToAdd(R1, D1) /\ ({x} \cup D1) \ ({x} \cup R1) = D1 \ R1
    BY <1>2, <1>5, <1>6, <1>12, ToAddBoth
  <2>3. v = Diff(RR, DD)
    BY <1>5, <1>6, <1>7, <1>12, <2>1, <2>2 DEF Diff
  <2> QED
    BY <2>3 DEF v, RR, DD
<1>13. CASE i <= m /\ j > n
  <2>1. v = Add(g[<<i + 1, j>>], x, ProjectExists(x))
    BY <1>1, <1>8, <1>13 DEF v, m, n
  <2>2. DD = {} /\ RR = {x} \cup R1 /\ g[<<i + 1, j>>] = Diff(R1, DD)
    BY <1>4, <1>5, <1>7, <1>13
  <2>3. ToAdd({x} \cup R1, {}) = IF ProjectExists(x) THEN ToAdd(R1, {}) \cup {x} ELSE ToAdd(R1, {})
    BY <1>2, <1>5, <1>13, ToAddTail
  <2>4. v = Diff(RR, DD)
    <3>1. CASE ProjectExists(x)
      <4>1. v = AddTo(Diff(R1, DD), x)
        BY <2>1, <2>2, <3>1 DEF Add, AddTo
      <4>2. v = [add |-> ToAdd(R1, DD) \cup {x}, del |-> DD \ R1]
        BY <1>9, <4>1
      <4>3. ToAdd(RR, DD) = ToAdd(R1, DD) \cup {x} /\ DD \ R1 = DD \ RR
        BY <2>2, <2>3, <3>1
      <4> QED
        BY <4>2, <4>3, Zenon DEF Diff
    <3>2. CASE ~ProjectExists(x)
      <4>1. v = Diff(R1, DD)
        BY <2>1, <2>2, <3>2 DEF Add
      <4> QED
        BY <1>10, <2>2, <2>3, <3>2, <4>1
    <3> QED
      BY <3>1, <3>2
  <2> QED
    BY <2>4 DEF v, RR, DD
<1>14. CASE j <= n /\ (i > m \/ x > y)
  <2>1. v = DelTo(g[<<i, j + 1>>], y)
    BY <1>1, <1>2, <1>3, <1>8, <1>14 DEF v, m, n, DelTo
  <2>2. \A z \in RR : y < z
    <3>1. CASE i > m
      BY <1>4, <3>1
    <3>2. CASE i <= m /\ x > y
      BY <1>2, <1>3, <1>5, <1>14, <3>2
    <3> QED
      BY <1>1, <1>14, <3>1, <3>2 DEF m
  <2>3. ToAdd(RR, {y} \cup D1) = ToAdd(RR, D1) /\ ({y} \cup D1) \ RR = (D1 \ RR) \cup {y}
    BY <1>3, <1>4, <1>6, <1>14, <2>2, ToAddMore
  <2>4. v = DelTo(Diff(RR, D1), y) /\ DD = {y} \cup D1
    BY <1>6, <1>7, <1>14, <2>1
  <2>6. v = [add |-> ToAdd(RR, D1), del |-> (D1 \ RR) \cup {y}]
    BY <1>9, <2>4
  <2>7. ToAdd(RR, DD) = ToAdd(RR, D1) /\ DD \ RR = (D1 \ RR) \cup {y}
    BY <2>3, <2>4
  <2>5. v = Diff(RR, DD)
    BY <2>6, <2>7, Zenon DEF Diff
  <2> QED
    BY <2>5 DEF v, RR, DD
<1>15. CASE i > m /\ j > n
  <2>1. v = [add |-> {}, del |-> {}]
    BY <1>1, <1>8, <1>15 DEF v, m, n
  <2>2. v = Diff(RR, DD)
    BY <1>4, <1>15, <2>1 DEF Diff, ToAdd
  <2> QED
    BY <2>2 DEF v, RR, DD
<1> QED
  BY <1>1, <1>2, <1>3, <1>11, <1>12, <1>13, <1>14, <1>15 DEF m, n

\* Later places are nearer to the end.
LEMMA Nearer ==
  ASSUME NEW m \in Nat, NEW n \in Nat, NEW i \in 1..m + 1, NEW j \in 1..n + 1,
         NEW a \in 1..m + 1, NEW b \in 1..n + 1, a + b > i + j
  PROVE  /\ (m + 1 - a) + (n + 1 - b) \in Nat
         /\ (m + 1 - a) + (n + 1 - b) < (m + 1 - i) + (n + 1 - j)
OBVIOUS

\* The merge of sorted lists exists, and is right from every place on.
LEMMA DiffRight ==
  ASSUME NEW A, NEW B, NEW R, NEW D, SortedSeq(R, A), SortedSeq(D, B)
  PROVE  (CHOOSE g : Diffs(R, D, g))[<<1, 1>>] = Diff(A, B)
<1> DEFINE m == Len(R)
           n == Len(D)
           P == Places(R, D)
<1>1. m \in Nat /\ n \in Nat
  BY DEF SortedSeq
<1>2. \E g : Diffs(R, D, g)
  <2> DEFINE g == [at \in P |-> Diff(From(R, at[1]), From(D, at[2]))]
  <2>1. \A i \in 1..m + 1, j \in 1..n + 1 : g[<<i, j>>] = Diff(From(R, i), From(D, j))
    BY DEF Places
  <2> HIDE DEF g
  <2>2. ASSUME NEW i \in 1..m + 1, NEW j \in 1..n + 1
        PROVE  g[<<i, j>>] = DiffStep(R, D, g, <<i, j>>)
    <3>1. /\ i <= m => i + 1 \in 1..m + 1
          /\ j <= n => j + 1 \in 1..n + 1
      BY <1>1
    <3>2. LaterRight(R, D, g, i, j)
      BY <2>1, <3>1 DEF LaterRight
    <3>3. DiffStep(R, D, g, <<i, j>>) = Diff(From(R, i), From(D, j))
      <4> HIDE DEF P
      <4> QED
        BY <3>2, DiffStepRight, SMT
    <3> QED
      BY <2>1, <3>3
  <2>3. \A at \in P : g[at] = DiffStep(R, D, g, at)
    BY <2>2 DEF Places
  <2>4. g = [at \in P |-> g[at]]
    BY DEF g
  <2>5. g = [at \in P |-> DiffStep(R, D, g, at)]
    BY <2>3, <2>4
  <2> QED
    BY <2>5 DEF Diffs
<1> DEFINE g == CHOOSE g : Diffs(R, D, g)
<1>3. g = [at \in P |-> DiffStep(R, D, g, at)]
  BY <1>2 DEF Diffs
<1> HIDE DEF g
<1>4. \A i \in 1..m + 1, j \in 1..n + 1 : g[<<i, j>>] = DiffStep(R, D, g, <<i, j>>)
  <2>1. \A at \in P : g[at] = DiffStep(R, D, g, at)
    BY <1>3
  <2> QED
    BY <2>1 DEF Places
<1> DEFINE Right(i, j) == g[<<i, j>>] = Diff(From(R, i), From(D, j))
           T == {k \in Nat : \E i \in 1..m + 1, j \in 1..n + 1 :
                               ~Right(i, j) /\ k = (m + 1 - i) + (n + 1 - j)}
<1>5. T = {}
  <2> SUFFICES ASSUME T # {} PROVE FALSE
    OBVIOUS
  <2>1. T \subseteq Nat
    OBVIOUS
  <2>2. PICK k \in T : \A l \in T : k <= l
    <3> HIDE DEF T
    <3> QED
      BY <2>1, Smallest
  <2>3. PICK i \in 1..m + 1, j \in 1..n + 1 : ~Right(i, j) /\ k = (m + 1 - i) + (n + 1 - j)
    OBVIOUS
  <2>4. ASSUME NEW a \in 1..m + 1, NEW b \in 1..n + 1, a >= i, b >= j, a + b > i + j
        PROVE  Right(a, b)
    <3> DEFINE l == (m + 1 - a) + (n + 1 - b)
    <3>1. l \in Nat /\ l < k
      <4>1. k = (m + 1 - i) + (n + 1 - j)
        BY ONLY <2>3
      <4>2. l \in Nat /\ l < (m + 1 - i) + (n + 1 - j)
        <5> HIDE DEF m, n
        <5> QED
          BY ONLY <1>1, i \in 1..m + 1, j \in 1..n + 1, a \in 1..m + 1, b \in 1..n + 1, <2>4, Nearer
      <4> QED
        BY ONLY <4>1, <4>2
    <3>2. l \notin T
      <4> HIDE DEF T, l
      <4> QED
        BY <2>1, <2>2, <3>1
    <3> QED
      BY <3>1, <3>2
  <2> HIDE DEF T
  <2>5. i <= m => Right(i + 1, j)
    <3>1. i <= m => i + 1 \in 1..m + 1 /\ i + 1 >= i /\ j >= j /\ (i + 1) + j > i + j
      BY <1>1
    <3> HIDE DEF Right
    <3> QED
      BY <2>4, <3>1
  <2>6. j <= n => Right(i, j + 1)
    <3>1. j <= n => j + 1 \in 1..n + 1 /\ i >= i /\ j + 1 >= j /\ i + (j + 1) > i + j
      BY <1>1
    <3> HIDE DEF Right
    <3> QED
      BY <2>4, <3>1
  <2>7. i <= m /\ j <= n => Right(i + 1, j + 1)
    <3>1. i <= m /\ j <= n => i + 1 \in 1..m + 1 /\ j + 1 \in 1..n + 1 /\ i + 1 >= i /\ j + 1 >= j
                                /\ (i + 1) + (j + 1) > i + j
      BY <1>1
    <3> HIDE DEF Right
    <3> QED
      BY <2>4, <3>1
  <2>9. LaterRight(R, D, g, i, j)
    BY <2>5, <2>6, <2>7 DEF LaterRight
  <2>8. DiffStep(R, D, g, <<i, j>>) = Diff(From(R, i), From(D, j))
    <3>1. i \in 1..Len(R) + 1 /\ j \in 1..Len(D) + 1
      OBVIOUS
    <3> HIDE DEF m, n, P, Right
    <3> QED
      BY ONLY <2>9, <3>1, SortedSeq(R, A), SortedSeq(D, B), DiffStepRight
  <2> QED
    BY <1>4, <2>3, <2>8
<1>6. Right(1, 1)
  <2>1. 1 \in 1..m + 1 /\ 1 \in 1..n + 1 /\ (m + 1 - 1) + (n + 1 - 1) \in Nat
    BY <1>1
  <2> HIDE DEF Right
  <2> QED
    BY <1>5, <2>1
<1>7. From(R, 1) = A /\ From(D, 1) = B
  <2>1. 1 \in 1..m + 1 /\ 1 \in 1..n + 1
    BY <1>1
  <2> QED
    BY <2>1, FromSplit
<1> QED
  BY <1>6, <1>7 DEF g

\* diffRepos: the merge of the two sorted lists removes exactly the rows of repositories that the
\* registry does not know, and adds exactly what ToAdd says: what has no row, a project and a tag,
\* where behind the last row no tag is asked for.
THEOREM DiffReposRight ==
  ASSUME NEW A, NEW B, A \subseteq Nat, B \subseteq Nat, IsFiniteSet(A), IsFiniteSet(B)
  PROVE  DiffRepos(A, B) = [add |-> ToAdd(A, B), del |-> B \ A]
<1>1. SortedSeq(Sorted(A), A) /\ SortedSeq(Sorted(B), B)
  BY SortedLists, ListsSeq
<1> QED
  BY <1>1, DiffUnfold, DiffRight DEF Diff

-----------------------------------------------------------------------------
(***************************************************************************)
(* filterRepositories, when the repositories come in the order of their    *)
(* projects.                                                               *)
(***************************************************************************)
InProjectOrder == \A r, q \in Repos : r < q => ProjectOf[r] <= ProjectOf[q]

\* One step of the merge, given the results of later steps.
FindStep(R, P, g, at) ==
  LET i == at[1]
      j == at[2]
  IN IF i > Len(R) \/ j > Len(P) THEN {}
     ELSE CASE ProjectOf[R[i]] < P[j] -> g[<<i + 1, j>>]
            [] ProjectOf[R[i]] = P[j] -> {R[i]} \cup g[<<i + 1, j>>]
            [] OTHER                  -> g[<<i, j + 1>>]

Finds(R, P, g) == g = [at \in Places(R, P) |-> FindStep(R, P, g, at)]

\* FilterRepositories is the result of the merge at its first place.
LEMMA FindUnfold ==
  ASSUME NEW A, NEW B
  PROVE  LET R == Sorted(A)
             P == Sorted(B)
         IN FilterRepositories(A, B) = (CHOOSE g : Finds(R, P, g))[<<1, 1>>]
BY DEF FilterRepositories, Finds, Places, FindStep

OfProjects(R, P) == {r \in R : ProjectOf[r] \in P}

\* The steps after the one at place i, j are right.
LaterFound(R, P, g, i, j) ==
  /\ i <= Len(R) => g[<<i + 1, j>>] = OfProjects(From(R, i + 1), From(P, j))
  /\ j <= Len(P) => g[<<i, j + 1>>] = OfProjects(From(R, i), From(P, j + 1))

\* One step is right when the later ones are.
LEMMA FindStepRight ==
  ASSUME InProjectOrder, NEW A, A \subseteq Repos, NEW B, NEW R, NEW P,
         SortedSeq(R, A), SortedSeq(P, B), NEW g,
         NEW i \in 1..Len(R) + 1, NEW j \in 1..Len(P) + 1, LaterFound(R, P, g, i, j)
  PROVE  FindStep(R, P, g, <<i, j>>) = OfProjects(From(R, i), From(P, j))
<1> DEFINE m == Len(R)
           n == Len(P)
           RR == From(R, i)
           PP == From(P, j)
           R1 == From(R, i + 1)
           P1 == From(P, j + 1)
           x == R[i]
           y == P[j]
           v == FindStep(R, P, g, <<i, j>>)
<1>1. m \in Nat /\ n \in Nat /\ i \in Nat /\ j \in Nat
  BY DEF SortedSeq
<1>2. i <= m => i \in 1..m /\ x \in Nat /\ x \in Repos
  BY <1>1 DEF SortedSeq
<1>3. j <= n => j \in 1..n /\ y \in Nat
  BY <1>1 DEF SortedSeq
<1>4. RR \subseteq A /\ RR \subseteq Nat /\ PP \subseteq Nat /\ (i > m => RR = {}) /\ (j > n => PP = {})
  BY FromSplit
<1>5. i <= m => RR = {x} \cup R1 /\ R1 \subseteq Repos /\ \A z \in R1 : x < z
  BY <1>4, FromSplit
<1>6. j <= n => PP = {y} \cup P1 /\ P1 \subseteq Nat /\ \A z \in P1 : y < z
  BY <1>4, FromSplit
<1>7. /\ i <= m => g[<<i + 1, j>>] = OfProjects(R1, PP)
      /\ j <= n => g[<<i, j + 1>>] = OfProjects(RR, P1)
  BY DEF LaterFound
<1>8. v = IF i > m \/ j > n THEN {}
          ELSE CASE ProjectOf[x] < y -> g[<<i + 1, j>>]
                 [] ProjectOf[x] = y -> {x} \cup g[<<i + 1, j>>]
                 [] OTHER            -> g[<<i, j + 1>>]
  BY DEF FindStep
<1>9. \A r \in Repos : ProjectOf[r] \in Nat
  BY CatalogAssumption
<1> HIDE DEF m, n, RR, PP, R1, P1, x, y, v
<1>10. CASE i > m \/ j > n
  <2>1. v = {}
    BY <1>8, <1>10
  <2>2. RR = {} \/ PP = {}
    BY <1>4, <1>10
  <2>3. v = OfProjects(RR, PP)
    BY <2>1, <2>2 DEF OfProjects
  <2> QED
    BY <2>3 DEF v, RR, PP
<1>11. CASE i <= m /\ j <= n
  <2>0. i <= m /\ j <= n /\ ~(i > m \/ j > n)
    BY <1>1, <1>11
  <2> DEFINE p == ProjectOf[x]
  <2>1. p \in Nat /\ y \in Nat
    BY <1>2, <1>3, <1>9, <2>0
  <2>2. CASE p < y
    <3>1. v = OfProjects(R1, PP)
      <4>1. ~(p = y) /\ ~(i > m) /\ ~(j > n)
        BY <1>1, <2>1, <2>2, <1>11
      <4>2. v = g[<<i + 1, j>>]
        BY <1>8, <2>2, <4>1
      <4> QED
        BY <1>7, <2>0, <4>2
    <3>2. p \notin PP
      BY <1>6, <2>0, <2>1, <2>2
    <3> HIDE DEF p
    <3>3. v = OfProjects(RR, PP)
      BY <1>5, <2>0, <3>1, <3>2 DEF OfProjects, p
    <3> QED
      BY <3>3 DEF v, RR, PP
  <2>3. CASE p = y
    <3>1. v = {x} \cup OfProjects(R1, PP)
      <4>1. ~(p < y)
        BY <2>1, <2>3
      <4> QED
        BY <1>7, <1>8, <2>0, <2>3, <4>1
    <3>2. p \in PP
      BY <1>6, <2>0, <2>3
    <3>3. v = OfProjects(RR, PP)
      BY <1>5, <2>0, <3>1, <3>2 DEF OfProjects
    <3> QED
      BY <3>3 DEF v, RR, PP
  <2>4. CASE y < p
    <3>1. v = OfProjects(RR, P1)
      <4>1. ~(p < y) /\ ~(p = y)
        BY <2>1, <2>4
      <4> QED
        BY <1>7, <1>8, <2>0, <4>1
    <3>2. ASSUME NEW z \in RR PROVE ProjectOf[z] # y
      <4>1. CASE z = x
        BY <2>1, <2>4, <4>1
      <4>2. CASE z \in R1
        <5>1. z \in Repos /\ x \in Repos /\ x < z
          BY <1>2, <1>5, <2>0, <4>2
        <5>2. p <= ProjectOf[z] /\ ProjectOf[z] \in Nat
          BY <1>9, <5>1 DEF InProjectOrder
        <5> QED
          BY <2>1, <2>4, <5>2
      <4> QED
        BY <1>5, <2>0, <4>1, <4>2
    <3>3. v = OfProjects(RR, PP)
      BY <1>6, <2>0, <3>1, <3>2 DEF OfProjects
    <3> QED
      BY <3>3 DEF v, RR, PP
  <2> QED
    BY <2>1, <2>2, <2>3, <2>4
<1> QED
  BY <1>1, <1>10, <1>11

\* The merge exists, and is right from every place on.
LEMMA FindRight ==
  ASSUME InProjectOrder, NEW A, A \subseteq Repos, NEW B, NEW R, NEW P,
         SortedSeq(R, A), SortedSeq(P, B)
  PROVE  (CHOOSE g : Finds(R, P, g))[<<1, 1>>] = OfProjects(A, B)
<1> DEFINE m == Len(R)
           n == Len(P)
           Q == Places(R, P)
<1>1. m \in Nat /\ n \in Nat
  BY DEF SortedSeq
<1>2. \E g : Finds(R, P, g)
  <2> DEFINE g == [at \in Q |-> OfProjects(From(R, at[1]), From(P, at[2]))]
  <2>1. \A i \in 1..m + 1, j \in 1..n + 1 : g[<<i, j>>] = OfProjects(From(R, i), From(P, j))
    BY DEF Places
  <2> HIDE DEF g
  <2>2. ASSUME NEW i \in 1..m + 1, NEW j \in 1..n + 1
        PROVE  g[<<i, j>>] = FindStep(R, P, g, <<i, j>>)
    <3>1. /\ i <= m => i + 1 \in 1..m + 1
          /\ j <= n => j + 1 \in 1..n + 1
      BY <1>1
    <3>2. LaterFound(R, P, g, i, j)
      BY <2>1, <3>1 DEF LaterFound
    <3>3. FindStep(R, P, g, <<i, j>>) = OfProjects(From(R, i), From(P, j))
      <4> HIDE DEF Q
      <4> QED
        BY <3>2, FindStepRight, SMT
    <3> QED
      BY <2>1, <3>3
  <2>3. \A at \in Q : g[at] = FindStep(R, P, g, at)
    BY <2>2 DEF Places
  <2>4. g = [at \in Q |-> g[at]]
    BY DEF g
  <2>5. g = [at \in Q |-> FindStep(R, P, g, at)]
    BY <2>3, <2>4
  <2> QED
    BY <2>5 DEF Finds
<1> DEFINE g == CHOOSE g : Finds(R, P, g)
<1>3. g = [at \in Q |-> FindStep(R, P, g, at)]
  BY <1>2 DEF Finds
<1> HIDE DEF g
<1>4. \A i \in 1..m + 1, j \in 1..n + 1 : g[<<i, j>>] = FindStep(R, P, g, <<i, j>>)
  <2>1. \A at \in Q : g[at] = FindStep(R, P, g, at)
    BY <1>3
  <2> QED
    BY <2>1 DEF Places
<1> DEFINE Right(i, j) == g[<<i, j>>] = OfProjects(From(R, i), From(P, j))
           T == {k \in Nat : \E i \in 1..m + 1, j \in 1..n + 1 :
                               ~Right(i, j) /\ k = (m + 1 - i) + (n + 1 - j)}
<1>5. T = {}
  <2> SUFFICES ASSUME T # {} PROVE FALSE
    OBVIOUS
  <2>1. T \subseteq Nat
    OBVIOUS
  <2>2. PICK k \in T : \A l \in T : k <= l
    <3> HIDE DEF T
    <3> QED
      BY <2>1, Smallest
  <2>3. PICK i \in 1..m + 1, j \in 1..n + 1 : ~Right(i, j) /\ k = (m + 1 - i) + (n + 1 - j)
    OBVIOUS
  <2>4. ASSUME NEW a \in 1..m + 1, NEW b \in 1..n + 1, a >= i, b >= j, a + b > i + j
        PROVE  Right(a, b)
    <3> DEFINE l == (m + 1 - a) + (n + 1 - b)
    <3>1. l \in Nat /\ l < k
      <4>1. k = (m + 1 - i) + (n + 1 - j)
        BY ONLY <2>3
      <4>2. l \in Nat /\ l < (m + 1 - i) + (n + 1 - j)
        <5> HIDE DEF m, n
        <5> QED
          BY ONLY <1>1, i \in 1..m + 1, j \in 1..n + 1, a \in 1..m + 1, b \in 1..n + 1, <2>4, Nearer
      <4> QED
        BY ONLY <4>1, <4>2
    <3>2. l \notin T
      <4> HIDE DEF T, l
      <4> QED
        BY <2>1, <2>2, <3>1
    <3> QED
      BY <3>1, <3>2
  <2> HIDE DEF T
  <2>5. i <= m => Right(i + 1, j)
    <3>1. i <= m => i + 1 \in 1..m + 1 /\ i + 1 >= i /\ j >= j /\ (i + 1) + j > i + j
      BY <1>1
    <3> HIDE DEF Right
    <3> QED
      BY <2>4, <3>1
  <2>6. j <= n => Right(i, j + 1)
    <3>1. j <= n => j + 1 \in 1..n + 1 /\ i >= i /\ j + 1 >= j /\ i + (j + 1) > i + j
      BY <1>1
    <3> HIDE DEF Right
    <3> QED
      BY <2>4, <3>1
  <2>7. LaterFound(R, P, g, i, j)
    BY <2>5, <2>6 DEF LaterFound
  <2>8. FindStep(R, P, g, <<i, j>>) = OfProjects(From(R, i), From(P, j))
    <3>1. i \in 1..Len(R) + 1 /\ j \in 1..Len(P) + 1
      OBVIOUS
    <3> HIDE DEF m, n, Q, Right
    <3> QED
      BY ONLY <2>7, <3>1, InProjectOrder, A \subseteq Repos, SortedSeq(R, A), SortedSeq(P, B),
              FindStepRight
  <2> QED
    BY <1>4, <2>3, <2>8
<1>6. Right(1, 1)
  <2>1. 1 \in 1..m + 1 /\ 1 \in 1..n + 1 /\ (m + 1 - 1) + (n + 1 - 1) \in Nat
    BY <1>1
  <2> HIDE DEF Right
  <2> QED
    BY <1>5, <2>1
<1>7. From(R, 1) = A /\ From(P, 1) = B
  <2>1. 1 \in 1..m + 1 /\ 1 \in 1..n + 1
    BY <1>1
  <2> QED
    BY <2>1, FromSplit
<1> QED
  BY <1>6, <1>7 DEF g

\* A search finds all repositories of the projects.
LEMMA FilterRepositoriesRight ==
  ASSUME InProjectOrder, NEW A, NEW B, A \subseteq Repos, B \subseteq Projects
  PROVE  FilterRepositories(A, B) = {r \in A : ProjectOf[r] \in B}
<1>1. A \subseteq Nat /\ B \subseteq Nat /\ IsFiniteSet(A) /\ IsFiniteSet(B)
  BY CatalogAssumption, FS_Subset
<1>2. SortedSeq(Sorted(A), A) /\ SortedSeq(Sorted(B), B)
  BY <1>1, SortedLists, ListsSeq
<1> QED
  BY <1>2, FindUnfold, FindRight DEF OfProjects

-----------------------------------------------------------------------------
(***************************************************************************)
(* Shapes of steps: request o goes on, of the others only clean may change.*)
(***************************************************************************)
Kept(q) ==
  /\ req'[q].step = req[q].step /\ req'[q].repo = req[q].repo /\ req'[q].src = req[q].src
  /\ req'[q].blobs = req[q].blobs /\ req'[q].project = req[q].project
  /\ req'[q].seen = req[q].seen /\ req'[q].catalog = req[q].catalog
  /\ req'[q].add = req[q].add /\ req'[q].del = req[q].del /\ req'[q].page = req[q].page
  /\ req'[q].clean => req[q].clean

Others(o) == \A q \in Requests \ {o} : Kept(q)

\* What TypeOK says of the tables ...
TablesOK ==
  /\ project \in SUBSET Projects
  /\ tags \in [Repos -> SUBSET Tags]
  /\ known \in SUBSET Repos /\ \A r \in Repos : tags[r] # {} => r \in known
  /\ blobs \in [Repos -> SUBSET Blobs]
  /\ rows \in Seq(Repos) /\ IsInjective(rows)
  /\ cache \in CacheEntry \cup {None}
  /\ events \in Seq([repo : Repos, clean : BOOLEAN])
  /\ version \in Nat

\* ... and of the counters and the history.
HistoryOK ==
  /\ pushes \in 0..MaxPushes /\ begun \in 0..MaxRequests /\ faults \in 0..MaxFaults
  /\ raced \in BOOLEAN /\ batched \in BOOLEAN /\ synced \in BOOLEAN
  /\ newest \in Nat /\ overtaken \in BOOLEAN

\* The parts of the type invariant.
LEMMA TypeParts == TypeInv => TablesOK /\ HistoryOK
BY DEF TypeInv, TypeOK, TablesOK, HistoryOK

\* A step of request o keeps the types, when the tables and the request do.
LEMMA TypeStep ==
  ASSUME TypeInv, NEW o, req' \in [Requests -> RequestState], o \in Requests => Filled(req[o])',
         Others(o), TablesOK', HistoryOK', ui' \in {"down", "starting", "up"},
         ui' = "down" => AllIdle'
  PROVE  TypeInv'
<1>1. TypeOK'
  BY DEF TypeInv, TypeOK, TablesOK, HistoryOK
<1>2. ASSUME NEW q \in Requests \ {o} PROVE Filled(req[q])'
  BY DEF TypeInv, Others, Kept, Filled, OfEvent
<1>3. \A q \in Requests : Filled(req[q])'
  BY <1>2
<1> QED
  BY <1>1, <1>3 DEF TypeInv

\* What the grounds of a request other than the one that makes the step need.
Calm(q) ==
  /\ req'[q].clean /\ req[q].step \in Writing => blobs[req[q].repo] \subseteq blobs'[req[q].repo]
  /\ req'[q].clean /\ req[q].step = "delete_row" => tags'[req[q].repo] \subseteq tags[req[q].repo]
  /\ req'[q].clean /\ req[q].step = "project_delete" => Range(rows') \subseteq Range(rows)
  /\ req'[q].clean /\ req[q].step \in Syncing =>
       known' = known /\ rows' = rows /\ project' \subseteq project
         /\ \A r \in Repos : tags'[r] \subseteq tags[r]
  /\ req'[q].clean /\ req[q].step = "list" =>
       rows' = rows \/ \E r \in Repos : rows' = Append(rows, r)
  /\ faults' = 0 /\ req'[q].clean /\ OfEvent(req[q]) =>
       faults = 0 /\ (tags[req[q].repo] # {} => tags'[req[q].repo] # {})

\* Every change of the rows is counted.
Counted == (rows' = rows /\ version' = version) \/ version' = version + 1

\* A longer list begins with what the shorter one began with.
LEMMA PrefixGrows ==
  ASSUME NEW t, NEW s \in Seq(Repos), NEW u \in Seq(Repos), NEW n \in Int,
         IsPrefix(t, s, n), IsPrefix(s, u, Len(s))
  PROVE  IsPrefix(t, u, n)
<1>1. n <= Len(s) /\ Len(s) <= Len(u) /\ Len(s) \in Nat /\ Len(u) \in Nat
  BY DEF IsPrefix
<1>2. \A i \in 1..n : i \in 1..Len(s)
  BY <1>1
<1> QED
  BY <1>1, <1>2 DEF IsPrefix

\* What a request counts on survives the step of another that leaves it calm.
LEMMA GroundsPersist ==
  ASSUME TypeInv, NEW q \in Requests, Kept(q), Calm(q), Counted,
         req' \in [Requests -> RequestState],
         req[q].clean => Grounds(req[q]), PutGrounds(req[q]),
         faults = 0 /\ req[q].clean => Tagged(req[q])
  PROVE  /\ req'[q].clean => Grounds(req[q])'
         /\ PutGrounds(req[q])'
         /\ faults' = 0 /\ req'[q].clean => Tagged(req[q])'
<1>0. TablesOK /\ req[q] \in RequestState /\ Filled(req[q])
  BY TypeParts DEF TypeInv, TypeOK
<1>1. ASSUME req'[q].clean PROVE Grounds(req[q])'
  <2>0. req[q].clean /\ Grounds(req[q])
    BY <1>1 DEF Kept
  <2>1. CopyGrounds(req[q])'
    BY <1>1, <2>0 DEF Kept, Calm, Grounds, CopyGrounds
  <2>2. RowGrounds(req[q])'
    BY <1>1, <2>0 DEF Kept, Calm, Grounds, RowGrounds
  <2>3. ProjectGrounds(req[q])'
    BY <1>1, <2>0 DEF Kept, Calm, Grounds, ProjectGrounds
  <2>4. SyncGrounds(req[q])'
    <3>1. CASE req[q].step \in Syncing
      <4>1. known' = known /\ rows' = rows /\ project' \subseteq project
              /\ \A r \in Repos : tags'[r] \subseteq tags[r]
        BY <1>1, <3>1 DEF Calm
      <4> QED
        BY <2>0, <4>1 DEF Kept, Grounds, SyncGrounds
    <3>2. CASE req[q].step \notin Syncing
      BY <3>2 DEF Kept, SyncGrounds, Syncing, Comparing
    <3> QED
      BY <3>1, <3>2
  <2>5. PageGrounds(req[q])'
    <3>1. CASE req[q].step = "list"
      <4> DEFINE x == req[q]
                 p == x.project
                 n == (x.page - 1) * PageSize
      <4>1. x.catalog \subseteq {r \in Range(rows) : ProjectOf[r] = p}
              /\ IsPrefix(x.seen.repos, Listing(rows, p), n)
        BY <2>0, <3>1 DEF Grounds, PageGrounds
      <4>2. n \in Int
        BY <1>0, CatalogAssumption DEF RequestState
      <4>3. rows \in Seq(Repos) /\ IsInjective(rows)
        BY <1>0 DEF TablesOK
      <4>4. rows' = rows \/ \E r \in Repos : rows' = Append(rows, r)
        BY <1>1, <3>1 DEF Calm
      <4>5. Kept(q)
        OBVIOUS
      <4> HIDE DEF n, p, x
      <4>6. Range(rows) \subseteq Range(rows') /\ IsPrefix(x.seen.repos, Listing(rows', p), n)
        <5>1. CASE rows' = rows
          BY <4>1, <5>1
        <5>2. ASSUME NEW r \in Repos, rows' = Append(rows, r)
              PROVE  Range(rows) \subseteq Range(rows') /\ IsPrefix(x.seen.repos, Listing(rows', p), n)
          <6> DEFINE s2 == Append(rows, r)
          <6>1. s2 \in Seq(Repos) /\ Range(rows) \subseteq Range(s2)
            BY <4>3 DEF Range
          <6>2. Listing(rows, p) \in Seq(Repos)
            BY <4>3, ListingRows
          <6>3. IsPrefix(Listing(rows, p), Listing(s2, p), Len(Listing(rows, p)))
            BY <4>3, ListingGrows
          <6>4. Listing(s2, p) \in Seq(Repos)
            BY <6>1, ListingSeq
          <6>5. IsPrefix(x.seen.repos, Listing(s2, p), n)
            BY <4>1, <4>2, <6>2, <6>3, <6>4, PrefixGrows
          <6> QED
            BY <5>2, <6>1, <6>5
        <5> QED
          BY <4>4, <5>1, <5>2
      <4> QED
        BY <3>1, <4>1, <4>5, <4>6 DEF Kept, PageGrounds, x, p, n
    <3>2. CASE req[q].step # "list"
      BY <2>0, <3>2 DEF Kept, Grounds, PageGrounds
    <3> QED
      BY <3>1, <3>2
  <2> QED
    BY <2>1, <2>2, <2>3, <2>4, <2>5 DEF Grounds
<1>2. PutGrounds(req[q])'
  <2>1. req[q].seen.version \in Nat /\ version \in Nat
    BY <1>0 DEF RequestState, CacheEntry, TablesOK
  <2> QED
    BY <2>1 DEF Kept, Counted, PutGrounds
<1>3. ASSUME faults' = 0, req'[q].clean PROVE Tagged(req[q])'
  BY <1>3 DEF Kept, Calm, Tagged, OfEvent
<1> QED
  BY <1>1, <1>2, <1>3

\* The grounds of a request after the step.
OwnGrounds(o) ==
  /\ (req[o].clean => Grounds(req[o]))'
  /\ PutGrounds(req[o])'
  /\ (faults = 0 /\ req[o].clean => Tagged(req[o]))'

\* A step keeps all grounds, when the others are calm and its own are new.
LEMMA GroundsStep ==
  ASSUME TypeInv, GroundsInv, NEW o, req' \in [Requests -> RequestState], Others(o),
         \A q \in Requests \ {o} : Calm(q), Counted, o \in Requests => OwnGrounds(o),
         faults' = 0 => faults = 0, (faults = 0 => EventsTagged)', RowsOwned'
  PROVE  GroundsInv'
<1>1. ASSUME NEW q \in Requests
      PROVE  /\ (req[q].clean => Grounds(req[q]))'
             /\ PutGrounds(req[q])'
             /\ (faults = 0 /\ req[q].clean => Tagged(req[q]))'
  <2>1. CASE q = o
    BY <2>1 DEF OwnGrounds
  <2>2. CASE q # o
    <3>1. Kept(q) /\ Calm(q)
      BY <2>2 DEF Others
    <3>2. /\ req[q].clean => Grounds(req[q])
          /\ PutGrounds(req[q])
          /\ faults = 0 /\ req[q].clean => Tagged(req[q])
      BY DEF GroundsInv
    <3> QED
      BY <3>1, <3>2, GroundsPersist
  <2> QED
    BY <2>1, <2>2
<1> QED
  BY <1>1 DEF GroundsInv

Deletes(q, r) == req[q].step \in Deleting /\ req[q].repo = r
Awaits(q, r)  == req[q].step \in Notifying /\ req[q].repo = r
Announced(r)  == \E i \in DOMAIN events : events[i].repo = r
Pullable(r)   == tags[r] # {} /\ ProjectOf[r] \in project

\* No row loses the request that is about to remove it.
LEMMA RealStep ==
  ASSUME RealInv, NEW o, Others(o),
         faults' = 0 /\ ~raced' /\ ~synced' =>
           /\ faults = 0 /\ ~raced /\ ~synced
           /\ \A r \in Range(rows') : tags'[r] = {} =>
                \/ o \in Requests /\ Deletes(o, r)'
                \/ r \in Range(rows) /\ tags[r] = {} /\ ~(o \in Requests /\ Deletes(o, r))
  PROVE  RealInv'
<1> SUFFICES ASSUME faults' = 0, ~raced', ~synced', NEW r \in Range(rows'), tags'[r] = {}
             PROVE  \E q \in Requests : Deletes(q, r)'
  BY DEF RealInv, Deletes
<1>1. CASE o \in Requests /\ Deletes(o, r)'
  BY <1>1
<1>2. CASE r \in Range(rows) /\ tags[r] = {} /\ ~(o \in Requests /\ Deletes(o, r))
  <2>1. PICK q \in Requests : req[q].step \in Deleting /\ req[q].repo = r
    BY <1>2 DEF RealInv
  <2>2. q # o
    BY <1>2, <2>1 DEF Deletes
  <2> QED
    BY <2>1, <2>2 DEF Others, Kept, Deletes
<1> QED
  BY <1>1, <1>2

\* No missing row loses the event or request that is about to add it.
LEMMA CompleteStep ==
  ASSUME CompleteInv, NEW o, Others(o),
         faults' = 0 /\ ~raced' /\ ~batched' =>
           /\ faults = 0 /\ ~raced /\ ~batched
           /\ \A r \in Repos : Pullable(r)' =>
                \/ r \in Range(rows') \/ Announced(r)' \/ (o \in Requests /\ Awaits(o, r)')
                \/ /\ Pullable(r) /\ r \notin Range(rows) /\ ~Announced(r)
                   /\ ~(o \in Requests /\ Awaits(o, r))
  PROVE  CompleteInv'
<1> SUFFICES ASSUME faults' = 0, ~raced', ~batched', NEW r \in Repos, Pullable(r)'
             PROVE  \/ r \in Range(rows') \/ Announced(r)'
                    \/ \E q \in Requests : Awaits(q, r)'
  BY DEF CompleteInv, Pullable, Announced, Awaits
<1>1. CASE /\ Pullable(r) /\ r \notin Range(rows) /\ ~Announced(r)
           /\ ~(o \in Requests /\ Awaits(o, r))
  <2>1. PICK q \in Requests : req[q].step \in Notifying /\ req[q].repo = r
    BY <1>1 DEF CompleteInv, Pullable, Announced
  <2>2. q # o
    BY <1>1, <2>1 DEF Awaits
  <2> QED
    BY <2>1, <2>2 DEF Others, Kept, Awaits
<1> QED
  BY <1>1

\* No outdated cache loses the refresh that is about to replace it.
LEMMA CacheStep ==
  ASSUME CacheInv, NEW o, Others(o),
         newest' <= version',
         cache' # None => cache'.version = newest' /\ (newest' = version' => cache'.repos = rows'),
         faults' = 0 /\ ~overtaken' /\ ~synced' /\ newest' # version' =>
           /\ faults = 0 /\ ~overtaken /\ ~synced
           /\ \/ o \in Requests /\ Fresh(req[o])'
              \/ newest # version /\ version' = version /\ ~(o \in Requests /\ Fresh(req[o]))
  PROVE  CacheInv'
<1>1. ASSUME faults' = 0, ~overtaken', ~synced', newest' # version'
      PROVE  \E q \in Requests : Fresh(req[q])'
  <2>1. CASE o \in Requests /\ Fresh(req[o])'
    BY <2>1
  <2>2. CASE newest # version /\ version' = version /\ ~(o \in Requests /\ Fresh(req[o]))
    <3>1. PICK q \in Requests : Fresh(req[q])
      BY <1>1, <2>2 DEF CacheInv
    <3>2. q # o
      BY <2>2, <3>1
    <3> QED
      BY <2>2, <3>1, <3>2 DEF Others, Kept, Fresh
  <2> QED
    BY <1>1, <2>1, <2>2
<1> QED
  BY <1>1 DEF CacheInv

\* A step that leaves the registry, the projects and the rows alone.
LEMMA QuietCalm ==
  ASSUME UNCHANGED <<project, tags, known, blobs, rows>>, faults' = 0 => faults = 0
  PROVE  \A q \in Requests : Calm(q)
BY DEF Calm

\* What a request leaves to its next step x, when nothing else changes.
Carries(o, x) ==
  /\ req[o].step \in Deleting /\ tags[req[o].repo] = {} =>
       x.step \in Deleting /\ x.repo = req[o].repo
  /\ req[o].step \in Notifying /\ req[o].repo \in Repos \ Range(rows) =>
       x.step \in Notifying /\ x.repo = req[o].repo
  /\ Fresh(req[o]) => Fresh(x)

\* x is a state of a request that is well-founded.
Sound(x) ==
  /\ x \in RequestState /\ Filled(x)
  /\ x.clean => Grounds(x)
  /\ PutGrounds(x)
  /\ faults = 0 /\ x.clean => Tagged(x)

\* A step that replaces one request keeps the others.
LEMMA ReplacedOthers ==
  ASSUME req \in [Requests -> RequestState], NEW o \in Requests, NEW x \in RequestState,
         req' = [req EXCEPT ![o] = x]
  PROVE  req' \in [Requests -> RequestState] /\ req'[o] = x /\ Others(o)
         /\ \A q \in Requests \ {o} : req'[q] = req[q]
BY DEF Others, Kept

\* A sound state is well-founded after a step that leaves the tables alone.
LEMMA SoundOwn ==
  ASSUME NEW o \in Requests, NEW x, Sound(x), req'[o] = x, faults' = 0 => faults = 0,
         UNCHANGED <<project, tags, known, blobs, rows, version>>
  PROVE  Filled(req[o])' /\ OwnGrounds(o)
<1>1. Filled(req[o])'
  BY DEF Sound, Filled, OfEvent
<1>2. CopyGrounds(x) => CopyGrounds(req[o])'
  BY DEF CopyGrounds
<1>3. RowGrounds(x) => RowGrounds(req[o])'
  BY DEF RowGrounds
<1>4. ProjectGrounds(x) => ProjectGrounds(req[o])'
  BY DEF ProjectGrounds
<1>5. SyncGrounds(x) => SyncGrounds(req[o])'
  BY DEF SyncGrounds
<1>6. PageGrounds(x) => PageGrounds(req[o])'
  BY DEF PageGrounds
<1>7. (req[o].clean => Grounds(req[o]))'
  BY <1>2, <1>3, <1>4, <1>5, <1>6 DEF Sound, Grounds
<1>8. PutGrounds(req[o])'
  BY DEF Sound, PutGrounds
<1>9. (faults = 0 /\ req[o].clean => Tagged(req[o]))'
  BY DEF Sound, Tagged, OfEvent
<1> QED
  BY <1>1, <1>7, <1>8, <1>9 DEF OwnGrounds

\* Nothing but the request changes.
LEMMA ProceedInv ==
  ASSUME IInv, NEW o \in Requests, NEW s, s # "idle", NEW x, Proceed(o, s, x), Sound(x),
         Carries(o, x)
  PROVE  IInv'
<1>1. /\ UNCHANGED <<project, tags, known, blobs, rows, cache, events, ui, version, pushes, begun,
                     faults, raced, batched, synced, newest, overtaken>>
      /\ req' = [req EXCEPT ![o] = x] /\ req[o].step = s
  BY DEF Proceed, registry, history, At
<1>2. TypeInv /\ GroundsInv /\ RealInv /\ CompleteInv /\ CacheInv /\ TypeOK
  BY DEF IInv, TypeInv
<1>3. req' \in [Requests -> RequestState] /\ req'[o] = x /\ Others(o)
  BY <1>1, <1>2, ReplacedOthers DEF TypeOK, Sound
<1>4. Filled(req[o])' /\ OwnGrounds(o)
  BY <1>1, <1>3, SoundOwn
<1>5. TablesOK' /\ HistoryOK'
  BY <1>1, <1>2, TypeParts DEF TablesOK, HistoryOK
<1>6. ui' \in {"starting", "up"}
  BY <1>1, <1>2 DEF TypeInv, TypeOK, AllIdle, At
<1>7. TypeInv'
  BY <1>2, <1>3, <1>4, <1>5, <1>6, TypeStep
<1>8. GroundsInv'
  <2>1. \A q \in Requests \ {o} : Calm(q)
    BY <1>1, QuietCalm
  <2>2. Counted
    BY <1>1 DEF Counted
  <2>3. (faults = 0 => EventsTagged)' /\ RowsOwned'
    BY <1>1, <1>2 DEF GroundsInv, EventsTagged, RowsOwned, ProjectExists
  <2> QED
    BY <1>1, <1>2, <1>3, <1>4, <2>1, <2>2, <2>3, GroundsStep
<1>9. RealInv'
  <2>1. \A r \in Range(rows') : tags'[r] = {} =>
          Deletes(o, r)' \/ (r \in Range(rows) /\ tags[r] = {} /\ ~Deletes(o, r))
    BY <1>1, <1>3 DEF Carries, Deletes
  <2> QED
    BY <1>1, <1>2, <1>3, <2>1, RealStep
<1>10. CompleteInv'
  <2>1. ASSUME NEW r \in Repos, Pullable(r)'
        PROVE  \/ r \in Range(rows') \/ Announced(r)' \/ Awaits(o, r)'
               \/ Pullable(r) /\ r \notin Range(rows) /\ ~Announced(r) /\ ~Awaits(o, r)
    BY <1>1, <1>3, <2>1 DEF Carries, Pullable, Announced, Awaits
  <2> QED
    BY <1>1, <1>2, <1>3, <2>1, CompleteStep
<1>11. CacheInv'
  <2>1. Fresh(req[o])' \/ ~Fresh(req[o])
    BY <1>1, <1>3 DEF Carries, Fresh
  <2> QED
    BY <1>1, <1>2, <1>3, <2>1, CacheStep DEF CacheInv
<1> QED
  BY <1>7, <1>8, <1>9, <1>10, <1>11 DEF IInv

\* A request begins.
LEMMA BeginInv ==
  ASSUME IInv, NEW o \in Requests, NEW x, Sound(x), req[o].step = "idle",
         req' = [req EXCEPT ![o] = x],
         UNCHANGED <<project, tags, known, blobs, rows, cache, events, version, pushes,
                     faults, raced, batched, synced, newest, overtaken>>,
         ui' \in {"starting", "up"}, begun' \in 0..MaxRequests
  PROVE  IInv'
<1>2. TypeInv /\ GroundsInv /\ RealInv /\ CompleteInv /\ CacheInv /\ TypeOK
  BY DEF IInv, TypeInv
<1>3. req' \in [Requests -> RequestState] /\ req'[o] = x /\ Others(o)
  BY <1>2, ReplacedOthers DEF TypeOK, Sound
<1>4. Filled(req[o])' /\ OwnGrounds(o)
  BY <1>3, SoundOwn
<1>5. TablesOK' /\ HistoryOK'
  BY <1>2, TypeParts DEF TablesOK, HistoryOK
<1>7. TypeInv'
  BY <1>2, <1>3, <1>4, <1>5, TypeStep
<1>8. GroundsInv'
  <2>1. \A q \in Requests \ {o} : Calm(q)
    BY QuietCalm
  <2>2. Counted
    BY DEF Counted
  <2>3. (faults = 0 => EventsTagged)' /\ RowsOwned'
    BY <1>2 DEF GroundsInv, EventsTagged, RowsOwned, ProjectExists
  <2> QED
    BY <1>2, <1>3, <1>4, <2>1, <2>2, <2>3, GroundsStep
<1>9. RealInv'
  <2>1. \A r : ~Deletes(o, r)
    BY DEF Deletes, Deleting
  <2> QED
    BY <1>2, <1>3, <2>1, RealStep
<1>10. CompleteInv'
  <2>1. \A r : ~Awaits(o, r)
    BY DEF Awaits, Notifying
  <2>2. ASSUME NEW r \in Repos, Pullable(r)'
        PROVE  \/ r \in Range(rows') \/ Announced(r)' \/ Awaits(o, r)'
               \/ Pullable(r) /\ r \notin Range(rows) /\ ~Announced(r) /\ ~Awaits(o, r)
    BY <2>1, <2>2 DEF Pullable, Announced
  <2> QED
    BY <1>2, <1>3, <2>2, CompleteStep
<1>11. CacheInv'
  <2>1. ~Fresh(req[o])
    BY DEF Fresh
  <2> QED
    BY <1>2, <1>3, <2>1, CacheStep DEF CacheInv
<1> QED
  BY <1>7, <1>8, <1>9, <1>10, <1>11 DEF IInv

-----------------------------------------------------------------------------
(***************************************************************************)
(* Requests that begin, or that go on alone.                               *)
(***************************************************************************)
Based == Writing \cup Syncing \cup {"delete_row", "project_delete", "list", "listed"}

\* A step that counts on nothing is sound.
LEMMA SoundFree ==
  ASSUME NEW x \in RequestState, Filled(x), x.step \notin Based \cup {"refresh_put"},
         ~OfEvent(x)
  PROVE  Sound(x)
<1>1. Grounds(x)
  BY DEF Grounds, CopyGrounds, RowGrounds, ProjectGrounds, SyncGrounds, PageGrounds, Based, Comparing,
         Syncing
<1>2. PutGrounds(x) /\ Tagged(x)
  BY DEF PutGrounds, Tagged
<1> QED
  BY <1>1, <1>2 DEF Sound

\* The fields of an idle request.
LEMMA IdleType ==
  /\ Idle \in RequestState /\ Idle.step = "idle" /\ Idle.repo = None /\ Idle.page = 0
  /\ Idle.clean = TRUE /\ Idle.add = {} /\ Idle.del = {} /\ Idle.seen.repos = <<>>
BY DEF Idle, RequestState, Steps, CacheEntry

\* An idle request counts on nothing.
LEMMA IdleSound == Sound(Idle)
<1>1. Filled(Idle) /\ ~OfEvent(Idle)
  BY IdleType DEF Filled, OfEvent, Notifying, Refreshing, Deleting, Copying, Syncing
<1> QED
  BY <1>1, IdleType, SoundFree DEF Based, Writing, Syncing

\* The request goes to another step, and keeps its fields.
LEMMA StepType ==
  ASSUME TypeInv, NEW o \in Requests, NEW s \in Steps
  PROVE  LET x == Step(o, s)
         IN /\ x \in RequestState /\ x.step = s /\ x.repo = req[o].repo /\ x.src = req[o].src
            /\ x.tags = req[o].tags /\ x.blobs = req[o].blobs /\ x.project = req[o].project
            /\ x.seen = req[o].seen /\ x.catalog = req[o].catalog
            /\ x.add = req[o].add /\ x.del = req[o].del /\ x.page = req[o].page
            /\ x.clean = req[o].clean
<1>1. req[o] \in RequestState
  BY DEF TypeInv, TypeOK
<1> QED
  BY <1>1 DEF Step, RequestState

\* Begin, for requests that do not come from an event.
LEMMA BeginOf ==
  ASSUME IInv, NEW o \in Requests, NEW x, Sound(x), Begin(o, x), UNCHANGED <<events, batched>>
  PROVE  IInv'
<1>1. begun' \in 0..MaxRequests
  BY CatalogAssumption DEF Begin, IInv, TypeInv, TypeOK
<1> QED
  BY <1>1, BeginInv DEF Begin, At, registry

\* Search keeps the invariant.
LEMMA SearchInv ==
  ASSUME IInv, NEW o \in Requests, Search(o)
  PROVE  IInv'
<1> DEFINE x == [Idle EXCEPT !.step = "refresh_read"]
<1>1. x \in RequestState /\ x.step = "refresh_read" /\ x.page = 0
  BY IdleType DEF RequestState, Steps
<1>2. Begin(o, x) /\ UNCHANGED <<events, batched>>
  BY DEF Search, GetRepoFromCache
<1> HIDE DEF x
<1>3. Filled(x) /\ ~OfEvent(x)
  BY <1>1 DEF Filled, OfEvent, Notifying, Refreshing, Deleting, Copying, Syncing
<1>4. Sound(x)
  BY <1>1, <1>3, SoundFree DEF Based, Writing, Syncing
<1> QED
  BY <1>2, <1>4, BeginOf

\* DeleteRepo keeps the invariant.
LEMMA DeleteRepoInv ==
  ASSUME IInv, NEW o \in Requests, NEW r \in Repos, NEW S \in SUBSET Tags, DeleteRepo(o, r, S)
  PROVE  IInv'
<1> DEFINE T == IF S = {} THEN ListTag(r) ELSE S
           x == [Idle EXCEPT !.step = "delete_tags", !.repo = r, !.tags = T]
<1>0. T \in SUBSET Tags
  BY DEF ListTag, IInv, TypeInv, TypeOK
<1>2. Begin(o, x) /\ UNCHANGED <<events, batched>>
  BY DEF DeleteRepo
<1> HIDE DEF T
<1>1. x \in RequestState /\ x.step = "delete_tags" /\ x.repo = r /\ x.page = 0
  BY <1>0, IdleType DEF RequestState, Steps
<1> HIDE DEF x
<1>3. Filled(x) /\ ~OfEvent(x)
  BY <1>1 DEF Filled, OfEvent, Notifying, Refreshing, Deleting, Copying, Syncing
<1>4. Sound(x)
  BY <1>1, <1>3, SoundFree DEF Based, Writing, Syncing
<1> QED
  BY <1>2, <1>4, BeginOf

\* A comparison begins with the catalog as it is.
LEMMA SyncRequestSound ==
  ASSUME TypeInv
  PROVE  Sound(SyncRequest)
<1> DEFINE x == SyncRequest
<1>1. x \in RequestState /\ x.step = "sync_rows" /\ x.repo = None /\ x.catalog = known
  BY IdleType DEF SyncRequest, CatalogList, RequestState, Steps, TypeInv, TypeOK
<1> HIDE DEF x
<1>2. Filled(x) /\ ~OfEvent(x)
  BY <1>1 DEF Filled, OfEvent, Notifying, Refreshing, Deleting, Copying, Syncing
<1>3. Grounds(x)
  BY <1>1 DEF Grounds, CopyGrounds, RowGrounds, ProjectGrounds, SyncGrounds, PageGrounds, Comparing,
              Writing
<1>4. PutGrounds(x) /\ Tagged(x)
  BY <1>1, <1>2 DEF PutGrounds, Tagged
<1>5. Sound(x)
  BY <1>1, <1>2, <1>3, <1>4 DEF Sound
<1> QED
  BY <1>5 DEF x

\* SyncRegistry keeps the invariant.
LEMMA SyncRegistryInv ==
  ASSUME IInv, NEW o \in Requests, SyncRegistry(o)
  PROVE  IInv'
<1>1. Sound(SyncRequest)
  BY SyncRequestSound DEF IInv
<1> QED
  BY <1>1, BeginOf DEF SyncRegistry

\* Start keeps the invariant.
LEMMA StartInv ==
  ASSUME IInv, NEW o \in Requests, Start(o)
  PROVE  IInv'
<1>1. Sound(SyncRequest)
  BY SyncRequestSound DEF IInv
<1>2. req[o].step = "idle" /\ begun \in 0..MaxRequests
  BY DEF IInv, TypeInv, TypeOK, AllIdle, At, Start
<1> QED
  BY <1>1, <1>2, BeginInv DEF Start, registry, history

\* List keeps the invariant.
LEMMA ListInv ==
  ASSUME IInv, NEW o \in Requests, NEW p \in Projects, List(o, p)
  PROVE  IInv'
<1> DEFINE C == Range(GetReposByProject(p))
           x == [Idle EXCEPT !.step = "list", !.project = p, !.page = 1, !.catalog = C]
<1>0. rows \in Seq(Repos) /\ IsInjective(rows)
  BY DEF IInv, TypeInv, TypeOK
<1>1. GetReposByProject(p) = Listing(rows, p)
  BY DEF GetReposByProject, Listing
<1>2. Begin(o, x) /\ UNCHANGED <<events, batched>>
  BY DEF List
<1>3. C \subseteq {r \in Range(rows) : ProjectOf[r] = p} /\ C \in SUBSET Repos
  <2>1. Listing(rows, p) \in Seq(Repos)
    BY <1>0, ListingRows
  <2>2. \A i \in DOMAIN Listing(rows, p) :
          Listing(rows, p)[i] \in Range(rows) /\ ProjectOf[Listing(rows, p)[i]] = p
    BY <1>0, ListingRows
  <2> QED
    BY <1>1, <2>1, <2>2 DEF Range
<1> HIDE DEF C
<1>4. /\ x \in RequestState /\ x.step = "list" /\ x.repo = None /\ x.project = p /\ x.page = 1
      /\ x.catalog = C /\ x.seen.repos = <<>>
  BY <1>3, IdleType DEF RequestState, Steps
<1> HIDE DEF x
<1>5. Filled(x) /\ ~OfEvent(x)
  BY <1>4 DEF Filled, OfEvent, Notifying, Refreshing, Deleting, Copying, Syncing
<1>6. Grounds(x)
  <2>1. IsPrefix(<<>>, Listing(rows, p), (1 - 1) * PageSize)
    <3>1. (1 - 1) * PageSize = 0
      BY CatalogAssumption
    <3>2. Len(Listing(rows, p)) \in Nat
      BY <1>0, ListingRows
    <3> QED
      BY <3>1, <3>2 DEF IsPrefix
  <2>2. PageGrounds(x)
    BY <1>3, <1>4, <2>1 DEF PageGrounds
  <2> QED
    BY <1>4, <2>2 DEF Grounds, CopyGrounds, RowGrounds, ProjectGrounds, SyncGrounds, Comparing,
                      Writing, Syncing
<1>7. Sound(x)
  BY <1>4, <1>5, <1>6 DEF Sound, PutGrounds, Tagged
<1> QED
  BY <1>2, <1>7, BeginOf

\* ProjectDelete keeps the invariant.
LEMMA ProjectDeleteInv ==
  ASSUME IInv, NEW o \in Requests, NEW p \in Projects, ProjectDelete(o, p)
  PROVE  IInv'
<1> DEFINE x == [Idle EXCEPT !.step = "project_delete", !.project = p]
<1>0. rows \in Seq(Repos) /\ IsInjective(rows)
  BY DEF IInv, TypeInv, TypeOK
<1>1. Begin(o, x) /\ UNCHANGED <<events, batched>>
  BY DEF ProjectDelete
<1>2. \A r \in Range(rows) : ProjectOf[r] # p
  <2>1. Listing(rows, p) = <<>>
    BY DEF ProjectDelete, ProjectContainsRepo, GetReposByProject, Listing
  <2> QED
    BY <1>0, <2>1, ListingRows
<1>3. x \in RequestState /\ x.step = "project_delete" /\ x.repo = None /\ x.project = p
  BY IdleType DEF RequestState, Steps
<1> HIDE DEF x
<1>4. Filled(x) /\ ~OfEvent(x)
  BY <1>3 DEF Filled, OfEvent, Notifying, Refreshing, Deleting, Copying, Syncing
<1>5. Grounds(x)
  BY <1>2, <1>3 DEF Grounds, CopyGrounds, RowGrounds, ProjectGrounds, SyncGrounds, PageGrounds,
                    Comparing, Writing, Syncing
<1>6. Sound(x)
  BY <1>3, <1>4, <1>5 DEF Sound, PutGrounds, Tagged
<1> QED
  BY <1>1, <1>6, BeginOf

\* CopyRepo keeps the invariant.
LEMMA CopyRepoInv ==
  ASSUME IInv, NEW o \in Requests, NEW src \in Repos, NEW dest \in Repos, NEW t, NEW t2 \in Tags,
         CopyRepo(o, src, t, dest, t2)
  PROVE  IInv'
<1> DEFINE x == [Idle EXCEPT !.step = "copy_check", !.src = src, !.repo = dest, !.tags = {t2}]
<1>1. Begin(o, x) /\ UNCHANGED <<events, batched>>
  BY DEF CopyRepo
<1>2. x \in RequestState /\ x.step = "copy_check" /\ x.repo = dest /\ x.src = src
  <2>1. {t2} \in SUBSET Tags
    OBVIOUS
  <2> QED
    BY ONLY <2>1, src \in Repos, dest \in Repos, IdleType DEF RequestState, Steps
<1> HIDE DEF x
<1>3. Filled(x) /\ ~OfEvent(x)
  BY <1>2 DEF Filled, OfEvent, Notifying, Refreshing, Deleting, Copying, Syncing
<1>4. Sound(x)
  BY <1>2, <1>3, SoundFree DEF Based, Writing, Syncing
<1> QED
  BY <1>1, <1>4, BeginOf

\* Every request is sound in a state with the invariant.
LEMMA SoundNow ==
  ASSUME IInv, NEW o \in Requests
  PROVE  Sound(req[o])
BY DEF IInv, TypeInv, TypeOK, GroundsInv, Sound

\* The next copy of the event, if there is one.
LEMMA NextCopySound ==
  ASSUME IInv, NEW o \in Requests, req[o].step \in Notifying \cup Refreshing
  PROVE  Sound(NextCopy(o)) /\ NextCopy(o).step \in {"idle", "notify_exists"}
<1>0. req[o] \in RequestState /\ TypeInv
  BY DEF IInv, TypeInv, TypeOK
<1>1. CASE ~(req[o].page > 1)
  BY <1>1, IdleSound, IdleType DEF NextCopy
<1>2. CASE req[o].page > 1
  <2> DEFINE x == NextCopy(o)
  <2>1. /\ x \in RequestState /\ x.step = "notify_exists" /\ x.repo = req[o].repo
        /\ x.clean = req[o].clean
    <3> DEFINE y == Step(o, "notify_exists")
    <3>1. /\ y \in RequestState /\ y.step = "notify_exists" /\ y.repo = req[o].repo
          /\ y.clean = req[o].clean /\ y.page = req[o].page
      BY <1>0, StepType DEF Steps
    <3>2. x = [y EXCEPT !.page = @ - 1]
      BY <1>2 DEF NextCopy
    <3> HIDE DEF x, y
    <3>3. y.page \in Nat /\ y.page - 1 \in Nat
      BY <1>2, <3>1 DEF RequestState
    <3> QED
      BY <3>1, <3>2, <3>3 DEF RequestState
  <2>2. OfEvent(req[o])
    BY <1>2 DEF OfEvent
  <2> HIDE DEF x
  <2>3. Filled(x)
    BY <1>0, <2>1, <2>2 DEF TypeInv, Filled, OfEvent, Notifying, Refreshing, Deleting, Copying, Syncing
  <2>4. Grounds(x) /\ PutGrounds(x)
    BY <2>1 DEF PutGrounds, Grounds, CopyGrounds, RowGrounds, ProjectGrounds, SyncGrounds, PageGrounds,
                Comparing, Writing, Syncing
  <2>5. faults = 0 /\ x.clean => Tagged(x)
    BY <2>1, <2>2, SoundNow DEF Sound, Tagged
  <2>6. Sound(x) /\ x.step \in {"idle", "notify_exists"}
    BY <2>1, <2>3, <2>4, <2>5 DEF Sound
  <2> QED
    BY <2>6 DEF x
<1> QED
  BY <1>1, <1>2

\* The next step for the same event.
LEMMA SameEvent ==
  ASSUME IInv, NEW o \in Requests, req[o].step \in Notifying, NEW s \in {"notify_add", "refresh_read"}
  PROVE  Sound(Step(o, s)) /\ Step(o, s).step = s /\ Step(o, s).repo = req[o].repo
<1> DEFINE x == Step(o, s)
<1>0. TypeInv /\ OfEvent(req[o])
  BY DEF IInv, OfEvent
<1>1. x \in RequestState /\ x.step = s /\ x.repo = req[o].repo /\ x.clean = req[o].clean
  BY <1>0, StepType DEF Steps
<1> HIDE DEF x
<1>2. Filled(x)
  BY <1>0, <1>1 DEF TypeInv, Filled, OfEvent, Notifying, Refreshing, Deleting, Copying, Syncing
<1>3. Grounds(x) /\ PutGrounds(x)
  BY <1>1 DEF PutGrounds, Grounds, CopyGrounds, RowGrounds, ProjectGrounds, SyncGrounds, PageGrounds,
              Comparing, Writing, Syncing
<1>4. faults = 0 /\ x.clean => Tagged(x)
  BY <1>0, <1>1, SoundNow DEF Sound, Tagged
<1>5. Sound(x)
  BY <1>1, <1>2, <1>3, <1>4 DEF Sound
<1> QED
  BY <1>1, <1>5 DEF x

\* NotifyExists keeps the invariant.
LEMMA NotifyExistsInv ==
  ASSUME IInv, NEW o \in Requests, NotifyExists(o)
  PROVE  IInv'
<1>1. req[o].step = "notify_exists"
  BY DEF NotifyExists, Proceed, At
<1>2. CASE req[o].repo \in Range(rows)
  <2>1. Proceed(o, "notify_exists", NextCopy(o))
    BY <1>2 DEF NotifyExists, RepositoryExists
  <2>2. Sound(NextCopy(o))
    BY <1>1, NextCopySound DEF Notifying
  <2>3. Carries(o, NextCopy(o))
    BY <1>1, <1>2 DEF Carries, Fresh, Deleting
  <2> QED
    BY <2>1, <2>2, <2>3, ProceedInv
<1>3. CASE req[o].repo \notin Range(rows)
  <2> DEFINE x == Step(o, "notify_add")
  <2>1. Proceed(o, "notify_exists", x)
    BY <1>3 DEF NotifyExists, RepositoryExists
  <2>2. Sound(x) /\ x.step = "notify_add" /\ x.repo = req[o].repo
    BY <1>1, SameEvent DEF Notifying
  <2> HIDE DEF x
  <2>3. Carries(o, x)
    BY <1>1, <2>2 DEF Carries, Fresh, Deleting, Notifying
  <2> QED
    BY <2>1, <2>2, <2>3, ProceedInv
<1> QED
  BY <1>2, <1>3

\* RefreshRead keeps the invariant.
LEMMA RefreshReadInv ==
  ASSUME IInv, NEW o \in Requests, RefreshRead(o)
  PROVE  IInv'
<1> DEFINE x == [Step(o, "refresh_put") EXCEPT !.seen = [repos |-> rows, version |-> version]]
<1>0. TypeInv /\ req[o] \in RequestState /\ rows \in Seq(Repos) /\ version \in Nat
  BY DEF IInv, TypeInv, TypeOK
<1>1. Proceed(o, "refresh_read", x) /\ req[o].step = "refresh_read"
  BY DEF RefreshRead, Proceed, At
<1>2. /\ x \in RequestState /\ x.step = "refresh_put" /\ x.repo = req[o].repo /\ x.page = req[o].page
      /\ x.clean = req[o].clean /\ x.seen.repos = rows /\ x.seen.version = version
  BY <1>0 DEF Step, RequestState, Steps, CacheEntry
<1> HIDE DEF x
<1>3. OfEvent(x) => OfEvent(req[o])
  BY <1>1, <1>2 DEF OfEvent, Notifying, Refreshing
<1>4. Filled(x)
  BY <1>0, <1>2, <1>3 DEF TypeInv, Filled, Deleting, Copying, Syncing
<1>5. Grounds(x) /\ PutGrounds(x)
  BY <1>0, <1>2 DEF PutGrounds, Grounds, CopyGrounds, RowGrounds, ProjectGrounds, SyncGrounds,
                    PageGrounds, Comparing, Writing, Syncing
<1>6. faults = 0 /\ x.clean => Tagged(x)
  BY <1>2, <1>3, SoundNow DEF Sound, Tagged
<1>7. Sound(x)
  BY <1>2, <1>4, <1>5, <1>6 DEF Sound
<1>8. Carries(o, x)
  BY <1>1, <1>2 DEF Carries, Fresh, Deleting, Notifying
<1> QED
  BY <1>1, <1>7, <1>8, ProceedInv

\* TagsDeleted keeps the invariant.
LEMMA TagsDeletedInv ==
  ASSUME IInv, NEW o \in Requests, TagsDeleted(o)
  PROVE  IInv'
<1> DEFINE x == Step(o, "delete_exist")
<1>0. TypeInv
  BY DEF IInv
<1>1. Proceed(o, "delete_tags", x) /\ req[o].step = "delete_tags"
  BY DEF TagsDeleted, Proceed, At
<1>2. x \in RequestState /\ x.step = "delete_exist" /\ x.repo = req[o].repo /\ x.page = req[o].page
  BY <1>0, StepType DEF Steps
<1> HIDE DEF x
<1>3. Filled(x) /\ ~OfEvent(x)
  BY <1>0, <1>1, <1>2 DEF TypeInv, Filled, OfEvent, Notifying, Refreshing, Deleting, Copying, Syncing
<1>4. Sound(x)
  BY <1>2, <1>3, SoundFree DEF Based, Writing, Syncing
<1>5. Carries(o, x)
  BY <1>1, <1>2 DEF Carries, Fresh, Deleting, Notifying
<1> QED
  BY <1>1, <1>4, <1>5, ProceedInv

\* DeleteExist keeps the invariant.
LEMMA DeleteExistInv ==
  ASSUME IInv, NEW o \in Requests, DeleteExist(o)
  PROVE  IInv'
<1>0. TypeInv /\ req[o].step = "delete_exist"
  BY DEF IInv, DeleteExist, Proceed, At
<1>1. CASE tags[req[o].repo] # {}
  <2> DEFINE x == Step(o, "refresh_read")
  <2>1. Proceed(o, "delete_exist", x)
    BY <1>1 DEF DeleteExist, RepositoryExist, ListTag
  <2>2. x \in RequestState /\ x.step = "refresh_read" /\ x.page = 0
    BY <1>0, StepType DEF Steps, TypeInv, Filled, Deleting
  <2> HIDE DEF x
  <2>3. Filled(x) /\ ~OfEvent(x)
    BY <2>2 DEF Filled, OfEvent, Notifying, Refreshing, Deleting, Copying, Syncing
  <2>4. Sound(x)
    BY <2>2, <2>3, SoundFree DEF Based, Writing, Syncing
  <2>5. Carries(o, x)
    BY <1>0, <1>1 DEF Carries, Fresh, Notifying
  <2> QED
    BY <2>1, <2>4, <2>5, ProceedInv
<1>2. CASE tags[req[o].repo] = {}
  <2> DEFINE x == Step(o, "delete_row")
  <2>1. Proceed(o, "delete_exist", x)
    BY <1>2 DEF DeleteExist, RepositoryExist, ListTag
  <2>2. x \in RequestState /\ x.step = "delete_row" /\ x.repo = req[o].repo /\ x.page = req[o].page
    BY <1>0, StepType DEF Steps
  <2> HIDE DEF x
  <2>3. Filled(x) /\ ~OfEvent(x)
    BY <1>0, <2>2 DEF TypeInv, Filled, OfEvent, Notifying, Refreshing, Deleting, Copying, Syncing
  <2>4. Grounds(x) /\ PutGrounds(x) /\ Tagged(x)
    BY <1>2, <2>2, <2>3 DEF PutGrounds, Tagged, Grounds, CopyGrounds, RowGrounds, ProjectGrounds,
                            SyncGrounds, PageGrounds, Comparing, Writing, Syncing
  <2>5. Sound(x)
    BY <2>2, <2>3, <2>4 DEF Sound
  <2>6. Carries(o, x)
    BY <1>0, <2>2 DEF Carries, Fresh, Deleting, Notifying
  <2> QED
    BY <2>1, <2>5, <2>6, ProceedInv
<1> QED
  BY <1>1, <1>2

\* SyncRows keeps the invariant.
LEMMA SyncRowsInv ==
  ASSUME IInv, NEW o \in Requests, SyncRows(o)
  PROVE  IInv'
<1> DEFINE x == [Step(o, "sync_diff") EXCEPT !.seen.repos = rows]
<1>0. TypeInv /\ req[o] \in RequestState /\ rows \in Seq(Repos)
  BY DEF IInv, TypeInv, TypeOK
<1>1. Proceed(o, "sync_rows", x) /\ req[o].step = "sync_rows"
  BY DEF SyncRows, Proceed, At
<1>2. /\ x \in RequestState /\ x.step = "sync_diff" /\ x.repo = req[o].repo
      /\ x.catalog = req[o].catalog /\ x.clean = req[o].clean /\ x.seen.repos = rows
  <2> DEFINE y == Step(o, "sync_diff")
  <2>1. /\ y \in RequestState /\ y.step = "sync_diff" /\ y.repo = req[o].repo
        /\ y.catalog = req[o].catalog /\ y.clean = req[o].clean
    BY <1>0, StepType DEF Steps
  <2>2. x = [y EXCEPT !.seen.repos = rows]
    OBVIOUS
  <2> HIDE DEF x, y
  <2> QED
    BY <1>0, <2>1, <2>2 DEF RequestState, CacheEntry
<1> HIDE DEF x
<1>3. Filled(x) /\ ~OfEvent(x)
  BY <1>0, <1>1, <1>2 DEF TypeInv, Filled, OfEvent, Notifying, Refreshing, Deleting, Copying, Syncing
<1>4. x.clean => Grounds(x)
  BY <1>1, <1>2, SoundNow DEF Sound, Grounds, CopyGrounds, RowGrounds, ProjectGrounds, SyncGrounds,
                              PageGrounds, Comparing, Writing, Syncing
<1>5. Sound(x)
  BY <1>2, <1>3, <1>4 DEF Sound, PutGrounds, Tagged
<1>6. Carries(o, x)
  BY <1>1 DEF Carries, Fresh, Deleting, Notifying
<1> QED
  BY <1>1, <1>5, <1>6, ProceedInv

\* SyncDiff keeps the invariant.
LEMMA SyncDiffInv ==
  ASSUME IInv, NEW o \in Requests, SyncDiff(o)
  PROVE  IInv'
<1> DEFINE A == req[o].catalog
           B == Range(req[o].seen.repos)
           a == ToAdd(A, B)
           b == B \ A
           x == [Step(o, "sync_add") EXCEPT !.add = a, !.del = b]
<1>0. TypeInv /\ TypeOK /\ req[o] \in RequestState
  BY DEF IInv, TypeInv, TypeOK
<1>1. A \subseteq Repos /\ B \subseteq Repos
  BY <1>0 DEF RequestState, CacheEntry, Range
<1>2. DiffRepos(A, B) = [add |-> a, del |-> b]
  <2>1. A \subseteq Nat /\ B \subseteq Nat /\ IsFiniteSet(A) /\ IsFiniteSet(B)
    BY <1>1, CatalogAssumption, FS_Subset
  <2> QED
    BY <2>1, DiffReposRight
<1>3. Proceed(o, "sync_diff", x) /\ req[o].step = "sync_diff"
  BY <1>2 DEF SyncDiff, Proceed, At
<1>4. a \in SUBSET Repos /\ b \in SUBSET Repos /\ a \subseteq A /\ b \cap A = {} /\ B \subseteq A \cup b
  BY <1>1 DEF ToAdd
<1>5. \A r \in A : tags[r] # {} /\ ProjectOf[r] \in project => r \in B \cup a
  BY DEF ToAdd, ProjectExists, RepositoryExist, ListTag
<1> HIDE DEF a, b
<1>6. /\ x \in RequestState /\ x.step = "sync_add" /\ x.repo = req[o].repo
      /\ x.catalog = req[o].catalog /\ x.clean = req[o].clean /\ x.add = a /\ x.del = b
  <2> DEFINE y == Step(o, "sync_add")
  <2>1. /\ y \in RequestState /\ y.step = "sync_add" /\ y.repo = req[o].repo
        /\ y.catalog = req[o].catalog /\ y.clean = req[o].clean
    BY <1>0, StepType DEF Steps
  <2>2. x = [y EXCEPT !.add = a, !.del = b]
    OBVIOUS
  <2> HIDE DEF x, y
  <2> QED
    BY <1>4, <2>1, <2>2 DEF RequestState
<1> HIDE DEF x, A, B
<1>7. Filled(x) /\ ~OfEvent(x)
  BY <1>0, <1>3, <1>6 DEF TypeInv, Filled, OfEvent, Notifying, Refreshing, Deleting, Copying, Syncing
<1>8. x.clean => Grounds(x)
  <2> SUFFICES ASSUME x.clean PROVE Grounds(x)
    OBVIOUS
  <2>1. SyncGrounds(req[o])
    BY <1>6, SoundNow DEF Sound, Grounds
  <2>2. A = known /\ B = Range(rows)
    BY <1>3, <2>1 DEF SyncGrounds, Syncing, A, B
  <2>3. \A r \in Repos : tags[r] # {} => r \in known
    BY <1>0 DEF TypeOK
  <2>4. SyncGrounds(x)
    BY <1>4, <1>5, <1>6, <2>2, <2>3 DEF SyncGrounds, A
  <2> QED
    BY <1>6, <2>4 DEF Grounds, CopyGrounds, RowGrounds, ProjectGrounds, PageGrounds, Writing
<1>9. Sound(x)
  BY <1>6, <1>7, <1>8 DEF Sound, PutGrounds, Tagged
<1>10. Carries(o, x)
  BY <1>3 DEF Carries, Fresh, Deleting, Notifying
<1> QED
  BY <1>3, <1>9, <1>10, ProceedInv

\* A comparison goes on with the same sets.
LEMMA ComparingSound ==
  ASSUME IInv, NEW o \in Requests, req[o].step \in {"sync_add", "sync_del"},
         NEW s \in {"sync_del", "synced"}, req[o].add = {}, s = "synced" => req[o].del = {}
  PROVE  Sound(Step(o, s))
<1> DEFINE x == Step(o, s)
<1>0. TypeInv
  BY DEF IInv
<1>1. /\ x \in RequestState /\ x.step = s /\ x.repo = req[o].repo /\ x.catalog = req[o].catalog
      /\ x.clean = req[o].clean /\ x.add = req[o].add /\ x.del = req[o].del
  BY <1>0, StepType DEF Steps
<1> HIDE DEF x
<1>2. Filled(x) /\ ~OfEvent(x)
  BY <1>0, <1>1 DEF TypeInv, Filled, OfEvent, Notifying, Refreshing, Deleting, Copying, Syncing
<1>3. x.clean => Grounds(x)
  <2> SUFFICES ASSUME x.clean PROVE Grounds(x)
    OBVIOUS
  <2>1. SyncGrounds(req[o])
    BY <1>1, SoundNow DEF Sound, Grounds
  <2>2. SyncGrounds(x)
    BY <1>1, <2>1 DEF SyncGrounds, Syncing, Comparing
  <2> QED
    BY <1>1, <2>2 DEF Grounds, CopyGrounds, RowGrounds, ProjectGrounds, PageGrounds, Writing
<1>4. Sound(x)
  BY <1>1, <1>2, <1>3 DEF Sound, PutGrounds, Tagged
<1> QED
  BY <1>4 DEF x

\* SyncEnds keeps the invariant.
LEMMA SyncEndsInv ==
  ASSUME IInv, NEW o \in Requests, SyncEnds(o)
  PROVE  IInv'
<1>1. CASE req[o].add = {} /\ Proceed(o, "sync_add", Step(o, "sync_del"))
  <2>1. req[o].step = "sync_add"
    BY <1>1 DEF Proceed, At
  <2>2. Sound(Step(o, "sync_del"))
    BY <1>1, <2>1, ComparingSound
  <2>3. Carries(o, Step(o, "sync_del"))
    BY <2>1 DEF Carries, Fresh, Deleting, Notifying
  <2> QED
    BY <1>1, <2>2, <2>3, ProceedInv
<1>2. CASE req[o].del = {} /\ Proceed(o, "sync_del", Step(o, "synced"))
  <2>1. req[o].step = "sync_del" /\ req[o].add = {}
    BY <1>2 DEF Proceed, At, IInv, TypeInv, Filled
  <2>2. Sound(Step(o, "synced"))
    BY <1>2, <2>1, ComparingSound
  <2>3. Carries(o, Step(o, "synced"))
    BY <2>1 DEF Carries, Fresh, Deleting, Notifying
  <2> QED
    BY <1>2, <2>2, <2>3, ProceedInv
<1>3. CASE Proceed(o, "synced", Idle)
  <2>1. req[o].step = "synced"
    BY <1>3 DEF Proceed, At
  <2>2. Carries(o, Idle)
    BY <2>1 DEF Carries, Fresh, Deleting, Notifying
  <2> QED
    BY <1>3, <2>2, IdleSound, ProceedInv
<1> QED
  BY <1>1, <1>2, <1>3 DEF SyncEnds

\* Listed keeps the invariant.
LEMMA ListedInv ==
  ASSUME IInv, NEW o \in Requests, Listed(o)
  PROVE  IInv'
<1>1. Proceed(o, "listed", Idle) /\ req[o].step = "listed"
  BY DEF Listed, Proceed, At
<1>2. Carries(o, Idle)
  BY <1>1 DEF Carries, Fresh, Deleting, Notifying
<1> QED
  BY <1>1, <1>2, IdleSound, ProceedInv

\* CopyCheck keeps the invariant.
LEMMA CopyCheckInv ==
  ASSUME IInv, NEW o \in Requests, CopyCheck(o)
  PROVE  IInv'
<1> DEFINE B == {b \in Blobs : ~BlobExist(req[o].repo, b)}
           x == [Step(o, "copy_blobs") EXCEPT !.blobs = B]
<1>0. TypeInv /\ req[o] \in RequestState
  BY DEF IInv, TypeInv, TypeOK
<1>1. Proceed(o, "copy_check", x) /\ req[o].step = "copy_check"
  BY DEF CopyCheck, Proceed, At
<1>2. Blobs \ blobs[req[o].repo] \subseteq B /\ B \in SUBSET Blobs
  BY DEF BlobExist
<1> HIDE DEF B
<1>3. /\ x \in RequestState /\ x.step = "copy_blobs" /\ x.repo = req[o].repo /\ x.src = req[o].src
      /\ x.blobs = B
  BY <1>0, <1>2 DEF Step, RequestState, Steps
<1> HIDE DEF x
<1>4. Filled(x) /\ ~OfEvent(x)
  BY <1>0, <1>1, <1>3 DEF TypeInv, Filled, OfEvent, Notifying, Refreshing, Deleting, Copying, Syncing
<1>5. Grounds(x)
  BY <1>2, <1>3 DEF Grounds, CopyGrounds, RowGrounds, ProjectGrounds, SyncGrounds, PageGrounds,
                    Comparing, Syncing
<1>6. Sound(x)
  BY <1>3, <1>4, <1>5 DEF Sound, PutGrounds, Tagged
<1>7. Carries(o, x)
  BY <1>1 DEF Carries, Fresh, Deleting, Notifying
<1> QED
  BY <1>1, <1>6, <1>7, ProceedInv

\* CopyLost keeps the invariant.
LEMMA CopyLostInv ==
  ASSUME IInv, NEW o \in Requests, NEW b, CopyLost(o, b)
  PROVE  IInv'
<1>1. Proceed(o, "copy_blobs", Idle) /\ req[o].step = "copy_blobs"
  BY DEF CopyLost, Proceed, At
<1>2. Carries(o, Idle)
  BY <1>1 DEF Carries, Fresh, Deleting, Notifying
<1> QED
  BY <1>1, <1>2, IdleSound, ProceedInv

\* BlobsCopied keeps the invariant.
LEMMA BlobsCopiedInv ==
  ASSUME IInv, NEW o \in Requests, BlobsCopied(o)
  PROVE  IInv'
<1> DEFINE x == Step(o, "copy_manifest")
<1>0. TypeInv
  BY DEF IInv
<1>1. Proceed(o, "copy_blobs", x) /\ req[o].step = "copy_blobs" /\ req[o].blobs = {}
  BY DEF BlobsCopied, Proceed, At
<1>2. /\ x \in RequestState /\ x.step = "copy_manifest" /\ x.repo = req[o].repo
      /\ x.src = req[o].src /\ x.blobs = req[o].blobs /\ x.clean = req[o].clean
  BY <1>0, StepType DEF Steps
<1> HIDE DEF x
<1>3. Filled(x) /\ ~OfEvent(x)
  BY <1>0, <1>1, <1>2 DEF TypeInv, Filled, OfEvent, Notifying, Refreshing, Deleting, Copying, Syncing
<1>4. x.clean => Grounds(x)
  BY <1>1, <1>2, SoundNow DEF Sound, Grounds, CopyGrounds, RowGrounds, ProjectGrounds, SyncGrounds,
                              PageGrounds, Comparing, Syncing, Writing
<1>5. Sound(x)
  BY <1>2, <1>3, <1>4 DEF Sound, PutGrounds, Tagged
<1>6. Carries(o, x)
  BY <1>1 DEF Carries, Fresh, Deleting, Notifying
<1> QED
  BY <1>1, <1>5, <1>6, ProceedInv

\* One page more: the list so far is still the beginning of the whole.
LEMMA PageGrows ==
  ASSUME NEW L \in Seq(Repos), NEW page \in Nat, page >= 1
  PROVE  LET n == (page - 1) * PageSize
             m == page * PageSize
             e == IF m <= Len(L) THEN m ELSE Len(L)
         IN /\ PageOf(L, page) \in Seq(Repos)
            /\ \A t \in Seq(Repos) : IsPrefix(t, L, n) => IsPrefix(t \o PageOf(L, page), L, e)
<1> DEFINE n == (page - 1) * PageSize
           m == page * PageSize
           e == IF m <= Len(L) THEN m ELSE Len(L)
           P == SubSeq(L, n + 1, e)
<1>1. PageSize \in Nat
  BY CatalogAssumption
<1>2. n \in Nat /\ m \in Nat /\ m = n + PageSize
  <2>1. page - 1 \in Nat
    OBVIOUS
  <2> QED
    BY <1>1, <2>1
<1>3. PageOf(L, page) = P
  BY DEF PageOf
<1> HIDE DEF n, m
<1>4. e \in Nat /\ e <= Len(L) /\ Len(L) \in Nat
  BY <1>2
<1>10. n <= Len(L) => n <= e
  BY <1>1, <1>2
<1> HIDE DEF e
<1>5. \A i \in n + 1..e : i \in 1..Len(L) /\ L[i] \in Repos
  BY <1>2, <1>4
<1>6. /\ P \in Seq(Repos) /\ Len(P) = IF n + 1 <= e THEN e - (n + 1) + 1 ELSE 0
      /\ \A i \in 1..e - (n + 1) + 1 : P[i] = L[(n + 1) + i - 1]
  BY <1>2, <1>4, <1>5, SubSeqProperties
<1> HIDE DEF P
<1>7. ASSUME NEW t \in Seq(Repos), IsPrefix(t, L, n) PROVE IsPrefix(t \o P, L, e)
  <2>1. n <= e /\ Len(t) = n /\ Len(P) = e - n
    BY <1>2, <1>4, <1>6, <1>7, <1>10 DEF IsPrefix
  <2>2. Len(t \o P) = e
    <3>1. Len(t \o P) = Len(t) + Len(P)
      BY <1>6
    <3> QED
      BY ONLY <1>2, <1>4, <2>1, <3>1
  <2>3. ASSUME NEW i \in 1..e PROVE (t \o P)[i] = L[i]
    <3>1. CASE i <= n
      <4>1. (t \o P)[i] = t[i] /\ i \in 1..n
        BY <1>2, <1>4, <1>6, <2>1, <3>1
      <4> QED
        BY <1>7, <4>1 DEF IsPrefix
    <3>2. CASE i > n
      <4>1. (t \o P)[i] = P[i - n]
        BY <1>2, <1>4, <1>6, <2>1, <3>2
      <4>2. i - n \in 1..e - (n + 1) + 1 /\ (n + 1) + (i - n) - 1 = i
        BY <1>2, <1>4, <3>2
      <4> QED
        BY <1>6, <4>1, <4>2
    <3>3. i <= n \/ i > n
      BY ONLY <1>2, <1>4, i \in 1..e
    <3> QED
      BY <3>1, <3>2, <3>3
  <2> QED
    BY <1>4, <2>2, <2>3 DEF IsPrefix
<1> QED
  BY <1>3, <1>6, <1>7 DEF e, m, n

\* GetPage keeps the invariant.
LEMMA GetPageInv ==
  ASSUME IInv, NEW o \in Requests, GetPage(o)
  PROVE  IInv'
<1> DEFINE p == req[o].project
           page == req[o].page
           L == Listing(rows, p)
           old == req[o].seen.repos
           new == old \o PageOf(L, page)
           n == (page - 1) * PageSize
           m == page * PageSize
           e == IF m <= Len(L) THEN m ELSE Len(L)
<1>0. TypeInv /\ TypeOK /\ req[o] \in RequestState /\ Filled(req[o]) /\ req[o].step = "list"
  BY DEF IInv, TypeInv, TypeOK, GetPage, Proceed, At
<1>1. CASE p \notin project
  <2>1. Proceed(o, "list", Idle)
    BY <1>1 DEF GetPage
  <2>2. Carries(o, Idle)
    BY <1>0 DEF Carries, Fresh, Deleting, Notifying
  <2> QED
    BY <2>1, <2>2, IdleSound, ProceedInv
<1>2. CASE p \in project
  <2> DEFINE next == NextPage(Len(L), page)
             got == [req[o] EXCEPT !.seen.repos = @ \o PageOf(L, page)]
             x == [got EXCEPT !.page = next, !.step = IF next = 0 THEN "listed" ELSE "list"]
  <2>1. Proceed(o, "list", x)
    <3>1. GetReposByProject(p) = L
      BY DEF GetReposByProject, Listing
    <3> QED
      BY <1>2, <3>1 DEF GetPage
  <2>2. page \in Nat /\ page >= 1 /\ req[o].repo = None /\ p \in Projects /\ PageSize \in Nat
    BY <1>0, CatalogAssumption DEF RequestState, Filled
  <2>3. rows \in Seq(Repos) /\ IsInjective(rows) /\ old \in Seq(Repos)
    BY <1>0 DEF TypeOK, RequestState, CacheEntry
  <2>4. L \in Seq(Repos) /\ Len(L) \in Nat
    BY <2>3, ListingSeq
  <2>5. PageOf(L, page) \in Seq(Repos) /\ (IsPrefix(old, L, n) => IsPrefix(new, L, e))
    <3> HIDE DEF L, page, old
    <3> QED
      BY <2>2, <2>3, <2>4, PageGrows
  <2>6. new \in Seq(Repos)
    BY <2>3, <2>5
  <2>7. next \in Nat /\ (next = 0 \/ next = page + 1)
    BY <2>2 DEF NextPage
  <2>8. m \in Nat /\ (next = 0 => e = Len(L)) /\ (next # 0 => e = m /\ next = page + 1)
    <3>1. m \in Nat /\ PageSize * page = m
      BY <2>2
    <3> HIDE DEF m, L, page
    <3> QED
      BY <2>2, <2>4, <3>1 DEF NextPage, HasNext
  <2> HIDE DEF next
  <2>9. /\ x \in RequestState /\ x.repo = None /\ x.project = p /\ x.page = next
        /\ x.step = (IF next = 0 THEN "listed" ELSE "list")
        /\ x.catalog = req[o].catalog /\ x.clean = req[o].clean /\ x.seen.repos = new
    <3>1. /\ got \in RequestState /\ got.repo = None /\ got.project = p
          /\ got.catalog = req[o].catalog /\ got.clean = req[o].clean /\ got.seen.repos = new
      <4>1. got = [req[o] EXCEPT !.seen.repos = new]
        OBVIOUS
      <4> HIDE DEF got, new
      <4> QED
        BY <1>0, <2>2, <2>6, <4>1 DEF RequestState, CacheEntry
    <3> DEFINE st == IF next = 0 THEN "listed" ELSE "list"
    <3>2. st \in Steps
      BY DEF Steps
    <3>3. x = [got EXCEPT !.page = next, !.step = st]
      OBVIOUS
    <3> HIDE DEF got, new, st, x
    <3>4. /\ x \in RequestState /\ x.repo = None /\ x.project = p /\ x.page = next
          /\ x.step = st
          /\ x.catalog = req[o].catalog /\ x.clean = req[o].clean /\ x.seen.repos = new
      BY <2>7, <3>1, <3>2, <3>3 DEF RequestState
    <3> QED
      BY <3>4 DEF st
  <2> HIDE DEF x
  <2>10. Filled(x) /\ ~OfEvent(x)
    BY <2>2, <2>7, <2>9 DEF Filled, OfEvent, Notifying, Refreshing, Deleting, Copying, Syncing
  <2>11. x.clean => Grounds(x)
    <3> SUFFICES ASSUME x.clean PROVE Grounds(x)
      OBVIOUS
    <3>1. PageGrounds(req[o])
      BY <2>9, SoundNow DEF Sound, Grounds
    <3>2. req[o].catalog \subseteq {r \in Range(rows) : ProjectOf[r] = p} /\ IsPrefix(old, L, n)
      BY <1>0, <3>1 DEF PageGrounds
    <3>3. IsPrefix(new, L, e)
      BY <2>5, <3>2
    <3>4. PageGrounds(x)
      <4>1. CASE next = 0
        <5>1. \A r \in Range(rows) : ProjectOf[r] = p => Once(r, L)
          BY <2>3, ListingRows
        <5>2. new = L
          <6>1. Len(new) = Len(L) /\ \A i \in 1..Len(L) : new[i] = L[i]
            <7> HIDE DEF new, L, e
            <7> QED
              BY <2>8, <3>3, <4>1 DEF IsPrefix
          <6> HIDE DEF new, L
          <6> QED
            BY <2>4, <2>6, <6>1, SeqEqual
        <5> HIDE DEF new, L, e
        <5> QED
          BY <2>9, <3>2, <4>1, <5>1, <5>2 DEF PageGrounds
      <4>2. CASE next # 0
        <5>1. e = (x.page - 1) * PageSize
          <6>1. x.page - 1 = page /\ e = m
            BY <2>2, <2>8, <2>9, <4>2
          <6> HIDE DEF e
          <6> QED
            BY <6>1
        <5> HIDE DEF new, L, e
        <5> QED
          BY <2>9, <3>2, <3>3, <4>2, <5>1 DEF PageGrounds, L
      <4> QED
        BY <4>1, <4>2
    <3> QED
      BY <2>9, <3>4 DEF Grounds, CopyGrounds, RowGrounds, ProjectGrounds, SyncGrounds, Comparing,
                        Syncing, Writing
  <2>12. Sound(x)
    BY <2>9, <2>10, <2>11 DEF Sound, PutGrounds, Tagged
  <2>13. Carries(o, x)
    BY <1>0 DEF Carries, Fresh, Deleting, Notifying
  <2> QED
    BY <2>1, <2>12, <2>13, ProceedInv
<1> QED
  BY <1>1, <1>2

-----------------------------------------------------------------------------
(***************************************************************************)
(* Changes of the registry.                                                *)
(***************************************************************************)
LEMMA SpoiledKept ==
  ASSUME TypeInv, NEW q \in Requests, NEW S, NEW R, req'[q] = Spoiled(q, S, R)
  PROVE  /\ Kept(q) /\ req'[q] \in RequestState
         /\ req'[q].clean => req[q].clean /\ ~(req[q].step \in S /\ About(q, R))
<1>0. req[q] \in RequestState
  BY DEF TypeInv, TypeOK
<1> DEFINE b == ~(req[q].step \in S /\ About(q, R))
           c == req[q].clean /\ b
           x == req[q]
<1>1. req'[q] = [x EXCEPT !.clean = c]
  BY DEF Spoiled
<1>2. c \in BOOLEAN
  OBVIOUS
<1>3. c => x.clean /\ b
  OBVIOUS
<1> HIDE DEF c, b
<1>4. Kept(q) /\ req'[q] \in RequestState /\ req'[q].clean = c
  BY <1>0, <1>1, <1>2, <1>3 DEF Kept, RequestState
<1> QED
  BY <1>3, <1>4 DEF b

\* A request that counts on nothing.
LEMMA OwnFree ==
  ASSUME NEW o, req'[o].step \notin Based \cup {"refresh_put"}, ~OfEvent(req[o])'
  PROVE  OwnGrounds(o)
<1>1. Grounds(req[o])'
  BY DEF Grounds, CopyGrounds, RowGrounds, ProjectGrounds, SyncGrounds, PageGrounds, Based, Comparing,
         Syncing
<1>2. PutGrounds(req[o])' /\ Tagged(req[o])'
  BY DEF PutGrounds, Tagged
<1> QED
  BY <1>1, <1>2 DEF OwnGrounds

\* A request that ends counts on nothing.
LEMMA IdleOwn ==
  ASSUME NEW o, req'[o] = Idle
  PROVE  Filled(req[o])' /\ OwnGrounds(o)
<1>1. req'[o].step = "idle" /\ req'[o].repo = None /\ req'[o].page = 0
  BY IdleType
<1>2. Filled(req[o])' /\ ~OfEvent(req[o])'
  BY <1>1 DEF Filled, OfEvent, Notifying, Refreshing, Deleting, Copying, Syncing
<1> QED
  BY <1>1, <1>2, OwnFree DEF Based, Writing, Syncing

\* An image arrives: the last step of request o, or without one.
LEMMA ArriveInv ==
  ASSUME IInv, NEW o, NEW r \in Repos, NEW t \in Tags, Arrives(r, t),
         DOMAIN req' = Requests, req' = [q \in Requests |-> req'[q]],
         \A q \in Requests \ {o} : req'[q] = Spoiled(q, Removing, {r}),
         o \in Requests => req[o].step = "copy_manifest" /\ req'[o] = Idle,
         blobs' \in [Repos -> SUBSET Blobs], \A q \in Repos : blobs[q] \subseteq blobs'[q],
         pushes' \in 0..MaxPushes,
         UNCHANGED <<project, rows, cache, ui, version, begun, faults, history>>
  PROVE  IInv'
<1> DEFINE e == [repo |-> r, clean |-> TRUE]
           n == Len(events)
<1>1. /\ UNCHANGED <<project, rows, cache, ui, version, begun, faults, raced, batched, synced, newest,
                     overtaken>>
      /\ tags' = [tags EXCEPT ![r] = @ \cup {t}] /\ known' = known \cup {r}
      /\ events' = Append(events, e)
  BY DEF Arrives, history
<1>2. TypeInv /\ GroundsInv /\ RealInv /\ CompleteInv /\ CacheInv /\ TypeOK
  BY DEF IInv, TypeInv
<1>3. \A q \in Requests \ {o} : /\ Kept(q) /\ req'[q] \in RequestState
                                /\ req'[q].clean => ~(req[q].step \in Removing /\ About(q, {r}))
  <2> SUFFICES ASSUME NEW q \in Requests \ {o}
               PROVE  /\ Kept(q) /\ req'[q] \in RequestState
                      /\ req'[q].clean => ~(req[q].step \in Removing /\ About(q, {r}))
    OBVIOUS
  <2>1. q \in Requests /\ req'[q] = Spoiled(q, Removing, {r})
    OBVIOUS
  <2> QED
    BY <1>2, <2>1, SpoiledKept, Zenon
<1>4. req' \in [Requests -> RequestState] /\ Others(o)
  <2>1. \A q \in Requests : req'[q] \in RequestState
    BY <1>3, IdleType
  <2> QED
    BY <1>3, <2>1 DEF Others
<1>5. o \in Requests => Filled(req[o])' /\ OwnGrounds(o)
  BY IdleOwn
<1>6. /\ tags' \in [Repos -> SUBSET Tags] /\ t \in tags'[r]
      /\ \A q \in Repos : tags[q] \subseteq tags'[q] /\ (q # r => tags'[q] = tags[q])
  BY <1>1, <1>2 DEF TypeOK
<1>7. /\ events' \in Seq([repo : Repos, clean : BOOLEAN]) /\ DOMAIN events' = 1..n + 1 /\ n \in Nat
      /\ DOMAIN events = 1..n /\ events'[n + 1].repo = r
      /\ \A i \in 1..n : events'[i] = events[i] /\ events[i].repo \in Repos
  <2>1. events \in Seq([repo : Repos, clean : BOOLEAN]) /\ e \in [repo : Repos, clean : BOOLEAN]
          /\ e.repo = r
    BY <1>2 DEF TypeOK
  <2> DEFINE E == [repo : Repos, clean : BOOLEAN]
  <2>3. \A x \in E : x.repo \in Repos
    OBVIOUS
  <2>4. events \in Seq(E) /\ e \in E
    BY <2>1
  <2> HIDE DEF e, E
  <2>2. /\ events' \in Seq(E) /\ DOMAIN events' = 1..n + 1 /\ n \in Nat
        /\ DOMAIN events = 1..n /\ events'[n + 1] = e
        /\ \A i \in 1..n : events'[i] = events[i] /\ events[i] \in E
    BY <1>1, <2>4
  <2> QED
    BY <2>1, <2>2, <2>3 DEF E
<1> HIDE DEF e, n
<1>8. TypeInv'
  <2>1. TablesOK' /\ HistoryOK'
    BY <1>1, <1>2, <1>6, <1>7 DEF TypeOK, TablesOK, HistoryOK
  <2>2. ui' \in {"down", "starting", "up"} /\ (ui' = "down" => AllIdle')
    BY <1>1, <1>2, <1>4 DEF TypeInv, TypeOK, AllIdle, At, Others, Kept
  <2> QED
    BY <1>2, <1>4, <1>5, <2>1, <2>2, TypeStep
<1>9. GroundsInv'
  <2>1. ASSUME NEW q \in Requests \ {o} PROVE Calm(q)
    <3>1. Filled(req[q])
      BY <1>2 DEF TypeInv
    <3>2. req'[q].clean => req[q].step \notin Syncing
      BY <1>3, <3>1 DEF Filled, Removing, About
    <3>3. req'[q].clean /\ req[q].step = "delete_row" => req[q].repo # r
      BY <1>3 DEF Removing, About
    <3> QED
      BY <1>1, <1>6, <3>1, <3>2, <3>3 DEF Calm, Filled, Deleting, Copying, Writing
  <2>2. Counted
    BY <1>1 DEF Counted
  <2>3. (faults = 0 => EventsTagged)'
    <3>1. \A i \in 1..n + 1 : i \in 1..n \/ i = n + 1
      BY <1>7
    <3> QED
      BY <1>1, <1>2, <1>6, <1>7, <3>1 DEF GroundsInv, EventsTagged
  <2>4. RowsOwned'
    BY <1>1, <1>2 DEF GroundsInv, RowsOwned, ProjectExists
  <2> QED
    BY <1>1, <1>2, <1>4, <1>5, <2>1, <2>2, <2>3, <2>4, GroundsStep
<1>10. RealInv'
  <2>1. ASSUME NEW q \in Range(rows'), tags'[q] = {}
        PROVE  q \in Range(rows) /\ tags[q] = {} /\ ~(o \in Requests /\ Deletes(o, q))
    <3>1. q \in Repos
      BY <1>1, <1>2 DEF TypeOK, Range
    <3> QED
      BY <1>1, <1>6, <2>1, <3>1 DEF Deletes, Deleting
  <2> QED
    BY <1>1, <1>2, <1>4, <2>1, RealStep
<1>11. CompleteInv'
  <2>1. ASSUME NEW q \in Repos, Pullable(q)'
        PROVE  \/ q \in Range(rows') \/ Announced(q)'
               \/ Pullable(q) /\ q \notin Range(rows) /\ ~Announced(q) /\ ~(o \in Requests /\ Awaits(o, q))
    <3>1. CASE q = r
      BY <1>7, <3>1 DEF Announced
    <3>2. CASE q # r
      <4>1. Pullable(q) /\ ~(o \in Requests /\ Awaits(o, q))
        BY <1>1, <1>6, <2>1, <3>2 DEF Pullable, Awaits, Notifying
      <4>2. Announced(q) => Announced(q)'
        BY <1>7 DEF Announced
      <4> QED
        BY <1>1, <4>1, <4>2
    <3> QED
      BY <3>1, <3>2
  <2> QED
    BY <1>1, <1>2, <1>4, <2>1, CompleteStep
<1>12. CacheInv'
  <2>1. ~(o \in Requests /\ Fresh(req[o]))
    BY DEF Fresh
  <2> QED
    BY <1>1, <1>2, <1>4, <2>1, CacheStep DEF CacheInv
<1> QED
  BY <1>8, <1>9, <1>10, <1>11, <1>12 DEF IInv

\* Push keeps the invariant.
LEMMA PushInv ==
  ASSUME IInv, NEW r \in Repos, NEW t \in Tags, Push(r, t)
  PROVE  IInv'
<1>1. PICK o : o \notin Requests
  BY NoSetContainsEverything
<1>2. TypeOK
  BY DEF IInv, TypeInv
<1>3. blobs' \in [Repos -> SUBSET Blobs] /\ \A q \in Repos : blobs[q] \subseteq blobs'[q]
  BY <1>2 DEF Push, TypeOK
<1>4. pushes' \in 0..MaxPushes
  BY <1>2, CatalogAssumption DEF Push, TypeOK
<1>5. /\ req' = [q \in Requests |-> Spoiled(q, Removing, {r})] /\ Arrives(r, t)
      /\ UNCHANGED <<project, rows, cache, ui, version, begun, faults, history>>
  BY DEF Push
<1>6. /\ DOMAIN req' = Requests /\ req' = [q \in Requests |-> req'[q]]
      /\ \A q \in Requests \ {o} : req'[q] = Spoiled(q, Removing, {r})
  BY <1>5
<1> QED
  BY <1>1, <1>3, <1>4, <1>5, <1>6, ArriveInv, ZenonT(60)

\* CopyManifest keeps the invariant.
LEMMA CopyManifestInv ==
  ASSUME IInv, NEW o \in Requests, CopyManifest(o)
  PROVE  IInv'
<1> DEFINE r == req[o].repo
<1>1. req[o].step = "copy_manifest" /\ TypeOK /\ TypeInv
  BY DEF CopyManifest, At, IInv, TypeInv
<1>2. r \in Repos /\ req[o].tags \subseteq Tags
  BY <1>1 DEF TypeInv, TypeOK, Filled, Copying, RequestState
<1>3. CASE Blobs \subseteq blobs[r]
  <2>1. PICK t \in req[o].tags : Arrives(r, t)
    BY <1>3 DEF CopyManifest
  <2>2. t \in Tags
    BY <1>2
  <2>3. req' = [q \in Requests |-> IF q = o THEN Idle ELSE Spoiled(q, Removing, {r})]
    BY <1>3 DEF CopyManifest
  <2>4. UNCHANGED <<project, blobs, rows, cache, ui, version, pushes, begun, faults, history>>
    BY DEF CopyManifest
  <2>5. /\ DOMAIN req' = Requests /\ req' = [q \in Requests |-> req'[q]]
        /\ \A q \in Requests \ {o} : req'[q] = Spoiled(q, Removing, {r})
        /\ req'[o] = Idle
    BY <2>3
  <2>6. /\ blobs' \in [Repos -> SUBSET Blobs] /\ \A q \in Repos : blobs[q] \subseteq blobs'[q]
        /\ pushes' \in 0..MaxPushes
        /\ UNCHANGED <<project, rows, cache, ui, version, begun, faults, history>>
    BY <1>1, <2>4 DEF TypeOK
  <2> HIDE DEF r
  <2> QED
    BY <1>1, <1>2, <2>1, <2>2, <2>5, <2>6, ArriveInv, ZenonT(60)
<1>4. CASE ~(Blobs \subseteq blobs[r])
  <2>1. Proceed(o, "copy_manifest", Idle)
    BY <1>4 DEF CopyManifest, Proceed, registry
  <2>2. Carries(o, Idle)
    BY <1>1 DEF Carries, Fresh, Deleting, Notifying
  <2> QED
    BY <2>1, <2>2, IdleSound, ProceedInv
<1> QED
  BY <1>3, <1>4

\* After a fault only the grounds and the cache have to be right.
LEMMA FaultInv ==
  ASSUME IInv, NEW o, req' \in [Requests -> RequestState], Others(o),
         o \in Requests => Filled(req[o])' /\ OwnGrounds(o), TablesOK', HistoryOK',
         ui' \in {"down", "starting", "up"}, ui' = "down" => AllIdle',
         \A q \in Requests \ {o} : Calm(q), faults' # 0,
         UNCHANGED <<project, rows, cache, version, raced, newest>>
  PROVE  IInv'
<1>1. TypeInv /\ GroundsInv /\ RealInv /\ CompleteInv /\ CacheInv
  BY DEF IInv
<1>2. TypeInv'
  BY <1>1, TypeStep
<1>3. GroundsInv'
  <2>1. Counted
    BY DEF Counted
  <2>2. RowsOwned'
    BY <1>1 DEF GroundsInv, RowsOwned, ProjectExists
  <2> QED
    BY <1>1, <2>1, <2>2, GroundsStep
<1>4. RealInv' /\ CompleteInv' /\ CacheInv'
  BY <1>1 DEF RealInv, CompleteInv, CacheInv
<1> QED
  BY <1>2, <1>3, <1>4 DEF IInv

\* RegistryLoses keeps the invariant.
LEMMA RegistryLosesInv ==
  ASSUME IInv, NEW r \in Repos, RegistryLoses(r)
  PROVE  IInv'
<1> DEFINE S == Adding \cup Copying
<1>0. PICK o : o \notin Requests
  BY NoSetContainsEverything
<1>1. /\ UNCHANGED <<project, rows, cache, events, ui, version, pushes, begun, raced, batched, synced,
                     newest, overtaken>>
      /\ tags' = [tags EXCEPT ![r] = {}] /\ known' = known \ {r} /\ blobs' = [blobs EXCEPT ![r] = {}]
      /\ req' = [q \in Requests |-> Spoiled(q, S, {r})]
  BY DEF RegistryLoses, history
<1>2. TypeInv /\ TypeOK
  BY DEF IInv, TypeInv
<1>3. faults' \in 0..MaxFaults /\ faults' # 0
  BY <1>2, CatalogAssumption DEF RegistryLoses, TypeOK
<1> HIDE DEF S
<1>4. ASSUME NEW q \in Requests
      PROVE  /\ Kept(q) /\ req'[q] \in RequestState
             /\ req'[q].clean => ~(req[q].step \in S /\ About(q, {r}))
  <2>1. req'[q] = Spoiled(q, S, {r})
    BY <1>1
  <2> QED
    BY <1>2, <2>1, SpoiledKept, Zenon
<1>5. req' \in [Requests -> RequestState] /\ Others(o)
  BY <1>1, <1>4 DEF Others
<1>6. /\ tags' \in [Repos -> SUBSET Tags] /\ blobs' \in [Repos -> SUBSET Blobs]
      /\ \A q \in Repos : /\ tags'[q] \subseteq tags[q] /\ (q # r => blobs'[q] = blobs[q])
                          /\ (tags'[q] # {} => q # r /\ tags[q] # {})
  BY <1>1, <1>2 DEF TypeOK
<1>7. TablesOK' /\ HistoryOK'
  BY <1>1, <1>2, <1>3, <1>6 DEF TypeOK, TablesOK, HistoryOK
<1>8. ui' \in {"down", "starting", "up"} /\ (ui' = "down" => AllIdle')
  BY <1>1, <1>2, <1>4 DEF TypeInv, TypeOK, AllIdle, At, Kept
<1>9. ASSUME NEW q \in Requests \ {o} PROVE Calm(q)
  <2>1. Filled(req[q])
    BY <1>2 DEF TypeInv
  <2>2. req'[q].clean => req[q].step \notin Syncing
    BY <1>4, <2>1 DEF Filled, S, Adding, About
  <2>3. req'[q].clean /\ req[q].step \in Writing => req[q].repo # r
    BY <1>4 DEF S, Copying, Writing, About
  <2> QED
    BY <1>1, <1>3, <1>6, <2>1, <2>2, <2>3 DEF Calm, Filled, Deleting, Copying, Writing
<1> QED
  BY <1>0, <1>1, <1>3, <1>5, <1>7, <1>8, <1>9, FaultInv

-----------------------------------------------------------------------------
(***************************************************************************)
(* The process.                                                            *)
(***************************************************************************)

\* No request makes a step, and nothing that a request counts on changes.
LEMMA AsideInv ==
  ASSUME IInv, cache' \in {cache, None}, ui' \in {ui, "up"},
         UNCHANGED <<project, tags, known, blobs, rows, events, req, version, pushes, begun, faults,
                     raced, batched, synced, newest, overtaken>>
  PROVE  IInv'
<1>1. TypeInv /\ GroundsInv /\ RealInv /\ CompleteInv /\ CacheInv /\ TypeOK
  BY DEF IInv, TypeInv
<1>2. TypeInv'
  BY <1>1 DEF TypeInv, TypeOK, Filled, OfEvent, AllIdle, At
<1>3. GroundsInv'
  <2>1. \A q \in Requests : (req[q].clean => Grounds(req[q]))'
    BY <1>1 DEF GroundsInv, Grounds, CopyGrounds, RowGrounds, ProjectGrounds, SyncGrounds, PageGrounds
  <2>2. \A q \in Requests : PutGrounds(req[q])'
    BY <1>1 DEF GroundsInv, PutGrounds
  <2>3. (faults = 0 => EventsTagged /\ \A q \in Requests : req[q].clean => Tagged(req[q]))'
    BY <1>1 DEF GroundsInv, EventsTagged, Tagged, OfEvent
  <2>4. RowsOwned'
    BY <1>1 DEF GroundsInv, RowsOwned, ProjectExists
  <2> QED
    BY <2>1, <2>2, <2>3, <2>4 DEF GroundsInv
<1>4. RealInv' /\ CompleteInv'
  BY <1>1 DEF RealInv, CompleteInv
<1>5. CacheInv'
  BY <1>1 DEF CacheInv, Fresh
<1> QED
  BY <1>2, <1>3, <1>4, <1>5 DEF IInv

\* Expire keeps the invariant.
LEMMA ExpireInv ==
  ASSUME IInv, Expire
  PROVE  IInv'
<1>1. /\ UNCHANGED <<project, tags, known, blobs, rows, events, req, version, pushes, begun, faults,
                     raced, batched, synced, newest, overtaken>>
      /\ cache' \in {cache, None} /\ ui' \in {ui, "up"}
  BY DEF Expire, registry, history
<1> QED
  BY <1>1, AsideInv

\* Serve keeps the invariant.
LEMMA ServeInv ==
  ASSUME IInv, Serve
  PROVE  IInv'
<1>1. /\ UNCHANGED <<project, tags, known, blobs, rows, events, req, version, pushes, begun, faults,
                     raced, batched, synced, newest, overtaken>>
      /\ cache' \in {cache, None} /\ ui' \in {ui, "up"}
  BY DEF Serve, registry, history
<1> QED
  BY <1>1, AsideInv

\* Crash keeps the invariant.
LEMMA CrashInv ==
  ASSUME IInv, Crash
  PROVE  IInv'
<1>1. /\ UNCHANGED <<project, tags, known, blobs, rows, events, version, pushes, begun, raced, batched,
                     synced, newest, overtaken>>
      /\ cache' = None /\ ui' = "down" /\ req' = [o \in Requests |-> Idle]
  BY DEF Crash, registry, history
<1>2. TypeInv /\ TypeOK /\ GroundsInv /\ CacheInv
  BY DEF IInv, TypeInv
<1>3. faults' \in 0..MaxFaults /\ faults' # 0
  BY <1>2, CatalogAssumption DEF Crash, TypeOK
<1>4. ASSUME NEW o \in Requests PROVE Filled(req[o])' /\ OwnGrounds(o) /\ req'[o].step = "idle"
  <2>1. req'[o] = Idle
    BY <1>1
  <2> QED
    BY <2>1, IdleOwn, IdleType
<1>5. TypeInv'
  <2>1. req' \in [Requests -> RequestState]
    BY <1>1, IdleType
  <2>2. TypeOK'
    BY <1>1, <1>2, <1>3, <2>1 DEF TypeOK
  <2> QED
    BY <1>1, <1>4, <2>2 DEF TypeInv, AllIdle, At
<1>6. GroundsInv'
  <2>1. RowsOwned'
    BY <1>1, <1>2 DEF GroundsInv, RowsOwned, ProjectExists
  <2> QED
    BY <1>3, <1>4, <2>1 DEF GroundsInv, OwnGrounds
<1>7. RealInv' /\ CompleteInv' /\ CacheInv'
  BY <1>1, <1>2, <1>3 DEF RealInv, CompleteInv, CacheInv
<1> QED
  BY <1>5, <1>6, <1>7 DEF IInv

\* RefreshPut keeps the invariant.
LEMMA RefreshPutInv ==
  ASSUME IInv, NEW o \in Requests, RefreshPut(o)
  PROVE  IInv'
<1> DEFINE x == NextCopy(o)
           v == req[o].seen.version
<1>1. /\ UNCHANGED <<project, tags, known, blobs, rows, events, ui, version, pushes, begun, faults,
                     raced, batched, synced>>
      /\ req' = [req EXCEPT ![o] = x] /\ cache' = req[o].seen /\ newest' = v
      /\ overtaken' = (overtaken \/ v < newest)
      /\ req[o].step = "refresh_put"
  BY DEF RefreshPut, registry, At
<1>2. TypeInv /\ GroundsInv /\ RealInv /\ CompleteInv /\ CacheInv /\ TypeOK
  BY DEF IInv, TypeInv
<1>3. Sound(x)
  BY <1>1, NextCopySound DEF Refreshing
<1>4. req[o].seen \in CacheEntry /\ v \in Nat /\ version \in Nat /\ newest \in Nat
  BY <1>2 DEF TypeOK, RequestState, CacheEntry
<1>5. v <= version /\ (v = version => req[o].seen.repos = rows)
  BY <1>1, <1>2 DEF GroundsInv, PutGrounds
<1> HIDE DEF x
<1>6. req' \in [Requests -> RequestState] /\ req'[o] = x /\ Others(o)
  BY <1>1, <1>2, <1>3, ReplacedOthers DEF TypeOK, Sound
<1>7. Filled(req[o])' /\ OwnGrounds(o)
  BY <1>1, <1>3, <1>6, SoundOwn
<1>8. overtaken' \in BOOLEAN
  BY <1>1
<1>9. TypeInv'
  <2>1. TablesOK' /\ HistoryOK'
    <3>1. TablesOK'
      BY <1>1, <1>2, <1>4, TypeParts DEF TablesOK
    <3>2. HistoryOK'
      BY <1>1, <1>2, <1>4, <1>8, TypeParts DEF HistoryOK
    <3> QED
      BY <3>1, <3>2
  <2>2. ui' \in {"starting", "up"}
    BY <1>1, <1>2 DEF TypeInv, TypeOK, AllIdle, At
  <2> QED
    BY <1>2, <1>6, <1>7, <2>1, <2>2, TypeStep
<1>10. GroundsInv'
  <2>1. \A q \in Requests \ {o} : Calm(q)
    BY <1>1, QuietCalm
  <2>2. Counted
    BY <1>1 DEF Counted
  <2>3. (faults = 0 => EventsTagged)' /\ RowsOwned'
    BY <1>1, <1>2 DEF GroundsInv, EventsTagged, RowsOwned, ProjectExists
  <2> QED
    BY <1>1, <1>2, <1>6, <1>7, <2>1, <2>2, <2>3, GroundsStep
<1>11. RealInv'
  <2>1. \A r : ~Deletes(o, r)
    BY <1>1 DEF Deletes, Deleting
  <2> QED
    BY <1>1, <1>2, <1>6, <2>1, RealStep
<1>12. CompleteInv'
  <2>1. \A r : ~Awaits(o, r)
    BY <1>1 DEF Awaits, Notifying
  <2>2. ASSUME NEW r \in Repos, Pullable(r)'
        PROVE  \/ r \in Range(rows') \/ Announced(r)'
               \/ Pullable(r) /\ r \notin Range(rows) /\ ~Announced(r) /\ ~Awaits(o, r)
    BY <1>1, <2>1, <2>2 DEF Pullable, Announced
  <2> QED
    BY <1>1, <1>2, <1>6, <2>2, CompleteStep
<1>13. CacheInv'
  <2>1. ASSUME ~overtaken', v # version
        PROVE  ~overtaken /\ newest # version /\ ~Fresh(req[o])
    <3>1. ~overtaken /\ ~(v < newest)
      BY <1>1, <2>1
    <3>2. ~Fresh(req[o])
      BY <1>1, <2>1 DEF Fresh
    <3> HIDE DEF v
    <3> QED
      BY <1>4, <1>5, <2>1, <3>1, <3>2
  <2>2. newest' <= version' /\ cache'.version = newest'
          /\ (newest' = version' => cache'.repos = rows')
    BY <1>1, <1>5
  <2>3. faults' = 0 /\ ~overtaken' /\ ~synced' /\ newest' # version' =>
          /\ faults = 0 /\ ~overtaken /\ ~synced
          /\ newest # version /\ version' = version /\ ~Fresh(req[o])
    BY <1>1, <2>1
  <2> QED
    BY <1>2, <1>6, <2>2, <2>3, CacheStep
<1> QED
  BY <1>9, <1>10, <1>11, <1>12, <1>13 DEF IInv

\* Notify keeps the invariant.
LEMMA NotifyInv ==
  ASSUME IInv, NEW o \in Requests, NEW n \in 1..MaxBatch, Notify(o, n)
  PROVE  IInv'
<1> DEFINE E == [repo : Repos, clean : BOOLEAN]
           e == events[n]
           x == [Idle EXCEPT !.step = "notify_exists", !.repo = e.repo, !.page = n, !.clean = e.clean]
           m == Len(events)
<1>1. /\ UNCHANGED <<project, tags, known, blobs, rows, cache, ui, version, pushes, faults, raced,
                     synced, newest, overtaken>>
      /\ req' = [req EXCEPT ![o] = x] /\ req[o].step = "idle" /\ ui = "up" /\ n <= m
      /\ begun < MaxRequests /\ begun' = begun + 1
      /\ events' = SubSeq(events, n + 1, m)
      /\ batched' = (batched \/ \E i \in 1..n : events[i].repo # e.repo)
  BY DEF Notify, Begin, registry, At
<1>2. TypeInv /\ GroundsInv /\ RealInv /\ CompleteInv /\ CacheInv /\ TypeOK
  BY DEF IInv, TypeInv
<1>3. n \in Nat /\ n >= 1 /\ n <= m /\ m \in Nat /\ events \in Seq(E) /\ DOMAIN events = 1..m
  <2>1. events \in Seq(E)
    BY <1>2 DEF TypeOK
  <2>2. n \in Nat /\ n >= 1
    BY CatalogAssumption
  <2> HIDE DEF E
  <2> QED
    BY <1>1, <2>1, <2>2
<1> HIDE DEF m
<1>4. e \in E /\ e.repo \in Repos /\ e.clean \in BOOLEAN /\ n \in DOMAIN events
  <2>1. n \in 1..m
    BY <1>3
  <2>3. \A y \in E : y.repo \in Repos /\ y.clean \in BOOLEAN
    OBVIOUS
  <2> HIDE DEF E
  <2>2. e \in E
    BY <1>3, <2>1
  <2> QED
    BY <1>3, <2>1, <2>2, <2>3
<1>5. faults = 0 /\ e.clean => tags[e.repo] # {}
  BY <1>2, <1>4 DEF GroundsInv, EventsTagged
<1> HIDE DEF e
<1>6. x \in RequestState /\ x.step = "notify_exists" /\ x.repo = e.repo /\ x.clean = e.clean
  BY <1>3, <1>4, IdleType DEF RequestState, Steps
<1> HIDE DEF x
<1>7. Sound(x)
  <2>1. Filled(x)
    BY <1>4, <1>6 DEF Filled, OfEvent, Notifying, Refreshing, Deleting, Copying, Syncing
  <2>2. Grounds(x) /\ PutGrounds(x)
    BY <1>6 DEF PutGrounds, Grounds, CopyGrounds, RowGrounds, ProjectGrounds, SyncGrounds, PageGrounds,
                Comparing, Writing, Syncing
  <2> QED
    BY <1>5, <1>6, <2>1, <2>2 DEF Sound, Tagged
<1>8. /\ events' \in Seq(E) /\ DOMAIN events' = 1..m - n
      /\ \A i \in 1..m - n : n + i \in DOMAIN events /\ events'[i] = events[n + i]
  <2> HIDE DEF E
  <2>1. \A i \in n + 1..m : i \in 1..m /\ events[i] \in E
    BY <1>3
  <2>2. /\ events' \in Seq(E) /\ Len(events') = IF n + 1 <= m THEN m - (n + 1) + 1 ELSE 0
        /\ \A i \in 1..m - (n + 1) + 1 : events'[i] = events[(n + 1) + i - 1]
    BY <1>1, <1>3, <2>1, SubSeqProperties
  <2>3. Len(events') = m - n /\ m - n \in Nat
    BY <1>3, <2>2
  <2>4. \A i \in 1..m - n : n + i \in 1..m /\ (n + 1) + i - 1 = n + i /\ i \in 1..m - (n + 1) + 1
    BY <1>3
  <2> QED
    BY <1>3, <2>2, <2>3, <2>4
<1>9. req' \in [Requests -> RequestState] /\ req'[o] = x /\ Others(o)
  BY <1>1, <1>2, <1>7, ReplacedOthers DEF TypeOK, Sound
<1>10. Filled(req[o])' /\ OwnGrounds(o)
  BY <1>1, <1>7, <1>9, SoundOwn
<1>11. begun' \in 0..MaxRequests /\ batched' \in BOOLEAN
  BY <1>1, <1>2, CatalogAssumption DEF TypeOK
<1>12. TypeInv'
  <2>1. TablesOK'
    BY <1>1, <1>2, <1>8, TypeParts DEF TablesOK
  <2>2. HistoryOK'
    BY <1>1, <1>2, <1>11, TypeParts DEF HistoryOK
  <2> QED
    BY <1>1, <1>2, <1>9, <1>10, <2>1, <2>2, TypeStep
<1>13. GroundsInv'
  <2>1. \A q \in Requests \ {o} : Calm(q)
    BY <1>1, QuietCalm
  <2>2. Counted
    BY <1>1 DEF Counted
  <2>3. (faults = 0 => EventsTagged)'
    BY <1>1, <1>2, <1>8 DEF GroundsInv, EventsTagged
  <2>4. RowsOwned'
    BY <1>1, <1>2 DEF GroundsInv, RowsOwned, ProjectExists
  <2> QED
    BY <1>1, <1>2, <1>9, <1>10, <2>1, <2>2, <2>3, <2>4, GroundsStep
<1>14. RealInv'
  <2>1. \A r : ~Deletes(o, r)
    BY <1>1 DEF Deletes, Deleting
  <2> QED
    BY <1>1, <1>2, <1>9, <2>1, RealStep
<1>15. CompleteInv'
  <2>1. \A r : ~Awaits(o, r)
    BY <1>1 DEF Awaits, Notifying
  <2>2. ASSUME ~batched', NEW r \in Repos, Announced(r)
        PROVE  Announced(r)' \/ Awaits(o, r)'
    <3>1. PICK i \in 1..m : events[i].repo = r
      BY <1>3, <2>2 DEF Announced
    <3>2. CASE i <= n
      <4>1. i \in 1..n
        BY <1>3, <3>2
      <4>2. r = e.repo
        BY <1>1, <2>2, <3>1, <4>1
      <4> QED
        BY <1>6, <1>9, <4>2 DEF Awaits, Notifying
    <3>3. CASE i > n
      <4>1. i - n \in 1..m - n /\ n + (i - n) = i
        BY <1>3, <3>3
      <4> QED
        BY <1>8, <3>1, <4>1 DEF Announced
    <3> QED
      BY <1>3, <3>2, <3>3
  <2>3. ASSUME ~batched', NEW r \in Repos, Pullable(r)'
        PROVE  \/ r \in Range(rows') \/ Announced(r)' \/ Awaits(o, r)'
               \/ Pullable(r) /\ r \notin Range(rows) /\ ~Announced(r) /\ ~Awaits(o, r)
    BY <1>1, <2>1, <2>2, <2>3 DEF Pullable
  <2>4. ~batched' => ~batched
    BY <1>1
  <2> QED
    BY <1>1, <1>2, <1>9, <2>3, <2>4, CompleteStep
<1>16. CacheInv'
  <2>1. ~Fresh(req[o])
    BY <1>1 DEF Fresh
  <2> QED
    BY <1>1, <1>2, <1>9, <2>1, CacheStep DEF CacheInv
<1> QED
  BY <1>12, <1>13, <1>14, <1>15, <1>16 DEF IInv

\* DeleteTag keeps the invariant.
LEMMA DeleteTagInv ==
  ASSUME IInv, NEW o \in Requests, NEW t \in Tags, DeleteTag(o, t)
  PROVE  IInv'
<1> DEFINE E == [repo : Repos, clean : BOOLEAN]
           r == req[o].repo
           x == [req[o] EXCEPT !.tags = @ \ {t}]
           last == tags'[r] = {}
           ev(i) == [events[i] EXCEPT !.clean = @ /\ ~(last /\ events[i].repo = r)]
<1>1. /\ UNCHANGED <<project, known, blobs, rows, cache, ui, version, pushes, begun, faults, raced,
                     batched, synced, newest, overtaken>>
      /\ req[o].step = "delete_tags" /\ tags' = [tags EXCEPT ![r] = @ \ {t}]
      /\ events' = [i \in DOMAIN events |-> ev(i)]
      /\ req' = [q \in Requests |-> IF q = o THEN x
                                    ELSE IF last THEN Spoiled(q, Adding, {r}) ELSE req[q]]
  BY DEF DeleteTag, LastTagGone, history, At
<1>2. TypeInv /\ GroundsInv /\ RealInv /\ CompleteInv /\ CacheInv /\ TypeOK /\ req[o] \in RequestState
  BY DEF IInv, TypeInv, TypeOK
<1>3. r \in Repos /\ req[o].page = 0
  BY <1>1, <1>2 DEF TypeInv, Filled, Deleting
<1>4. x \in RequestState /\ x.step = "delete_tags" /\ x.repo = r /\ x.page = 0
  BY <1>1, <1>2, <1>3 DEF RequestState
<1>5. /\ tags' \in [Repos -> SUBSET Tags]
      /\ \A q \in Repos : tags'[q] \subseteq tags[q] /\ (q # r => tags'[q] = tags[q])
  BY <1>1, <1>2, <1>3 DEF TypeOK
<1>6. /\ events' \in Seq(E) /\ DOMAIN events' = DOMAIN events
      /\ \A i \in DOMAIN events : /\ events'[i].repo = events[i].repo /\ events[i].repo \in Repos
                                  /\ events'[i].clean => events[i].clean /\ ~(last /\ events[i].repo = r)
  <2>1. events \in Seq(E)
    BY <1>2 DEF TypeOK
  <2>2. ASSUME NEW i \in DOMAIN events
        PROVE  /\ ev(i) \in E /\ ev(i).repo = events[i].repo /\ events[i].repo \in Repos
               /\ ev(i).clean => events[i].clean /\ ~(last /\ events[i].repo = r)
    <3> DEFINE b == ~(last /\ events[i].repo = r)
               c == events[i].clean /\ b
               y == events[i]
    <3>1. y \in E
      <4> HIDE DEF E, y
      <4> QED
        BY <2>1 DEF y
    <3>2. c \in BOOLEAN /\ (c => y.clean /\ b)
      OBVIOUS
    <3>3. ev(i) = [y EXCEPT !.clean = c]
      OBVIOUS
    <3> HIDE DEF c, b, y
    <3>4. ev(i) \in E /\ ev(i).repo = y.repo /\ y.repo \in Repos /\ ev(i).clean = c
      BY <3>1, <3>2, <3>3
    <3> QED
      BY <3>2, <3>4 DEF b, y
  <2> HIDE DEF E, ev
  <2>3. Len(events) \in Nat /\ DOMAIN events = 1..Len(events)
    BY <2>1
  <2>4. events' \in Seq(E)
    BY <1>1, <2>2, <2>3
  <2> QED
    BY <1>1, <2>2, <2>4
<1> HIDE DEF x
<1>7. ASSUME NEW q \in Requests \ {o}
      PROVE  /\ Kept(q) /\ req'[q] \in RequestState
             /\ last /\ req'[q].clean => ~(req[q].step \in Adding /\ About(q, {r}))
  <2>1. CASE last
    <3>1. req'[q] = Spoiled(q, Adding, {r})
      BY <1>1, <2>1
    <3> QED
      BY <1>2, <3>1, SpoiledKept
  <2>2. CASE ~last
    <3>1. req'[q] = req[q]
      BY <1>1, <2>2
    <3> QED
      BY <1>2, <2>2, <3>1 DEF Kept, TypeOK
  <2> QED
    BY <2>1, <2>2
<1>8. req' \in [Requests -> RequestState] /\ Others(o) /\ req'[o] = x
  BY <1>1, <1>4, <1>7 DEF Others
<1>9. Filled(req[o])' /\ OwnGrounds(o)
  <2>1. Filled(req[o])' /\ ~OfEvent(req[o])'
    BY <1>3, <1>4, <1>8 DEF Filled, OfEvent, Notifying, Refreshing, Deleting, Copying, Syncing
  <2> QED
    BY <1>4, <1>8, <2>1, OwnFree DEF Based, Writing, Syncing
<1> HIDE DEF last
<1>10. TypeInv'
  <2>1. TablesOK' /\ HistoryOK'
    BY <1>1, <1>2, <1>5, <1>6 DEF TypeOK, TablesOK, HistoryOK
  <2>2. ui' \in {"starting", "up"}
    BY <1>1, <1>2 DEF TypeInv, TypeOK, AllIdle, At
  <2> QED
    BY <1>2, <1>8, <1>9, <2>1, <2>2, TypeStep
<1>11. GroundsInv'
  <2>1. ASSUME NEW q \in Requests \ {o} PROVE Calm(q)
    <3>1. Filled(req[q])
      BY <1>2 DEF TypeInv
    <3>2. ASSUME req'[q].clean, OfEvent(req[q]), tags[req[q].repo] # {} PROVE tags'[req[q].repo] # {}
      <4>1. req[q].repo \in Repos /\ req[q].step \in Adding
        BY <3>1, <3>2 DEF Filled, OfEvent, Adding, Notifying, Refreshing
      <4>2. last => req[q].repo # r
        BY <1>7, <3>2, <4>1 DEF About
      <4> QED
        BY <1>5, <3>2, <4>1, <4>2 DEF last
    <3> QED
      BY <1>1, <1>5, <3>1, <3>2 DEF Calm, Filled, Deleting
  <2>2. Counted
    BY <1>1 DEF Counted
  <2>3. (faults = 0 => EventsTagged)'
    <3>1. faults' = faults
      BY <1>1
    <3> SUFFICES ASSUME faults = 0, NEW i \in DOMAIN events, events'[i].clean
                 PROVE  tags'[events'[i].repo] # {}
      BY <1>6, <3>1 DEF EventsTagged
    <3>2. tags[events[i].repo] # {}
      BY <1>2, <1>6 DEF GroundsInv, EventsTagged
    <3>3. events'[i].repo = events[i].repo /\ events[i].repo \in Repos
            /\ ~(last /\ events[i].repo = r)
      BY <1>6
    <3> QED
      BY <1>5, <3>2, <3>3 DEF last
  <2>4. RowsOwned'
    BY <1>1, <1>2 DEF GroundsInv, RowsOwned, ProjectExists
  <2> QED
    BY <1>1, <1>2, <1>8, <1>9, <2>1, <2>2, <2>3, <2>4, GroundsStep
<1>12. RealInv'
  <2>1. ASSUME NEW q \in Range(rows'), tags'[q] = {}
        PROVE  Deletes(o, q)' \/ (q \in Range(rows) /\ tags[q] = {} /\ ~Deletes(o, q))
    <3>1. q \in Repos
      BY <1>1, <1>2 DEF TypeOK, Range
    <3>2. CASE q = r
      BY <1>4, <1>8, <3>2 DEF Deletes, Deleting
    <3>3. CASE q # r
      BY <1>1, <1>5, <2>1, <3>1, <3>3 DEF Deletes
    <3> QED
      BY <3>2, <3>3
  <2> QED
    BY <1>1, <1>2, <1>8, <2>1, RealStep
<1>13. CompleteInv'
  <2>1. ASSUME NEW q \in Repos, Pullable(q)'
        PROVE  \/ q \in Range(rows') \/ Announced(q)'
               \/ Pullable(q) /\ q \notin Range(rows) /\ ~Announced(q) /\ ~Awaits(o, q)
    <3>1. Pullable(q) /\ ~Awaits(o, q)
      BY <1>1, <1>5, <2>1 DEF Pullable, Awaits, Notifying
    <3>2. Announced(q) => Announced(q)'
      BY <1>6 DEF Announced
    <3> QED
      BY <1>1, <3>1, <3>2
  <2> QED
    BY <1>1, <1>2, <1>8, <2>1, CompleteStep
<1>14. CacheInv'
  <2>1. ~Fresh(req[o])
    BY <1>1 DEF Fresh
  <2> QED
    BY <1>1, <1>2, <1>8, <2>1, CacheStep DEF CacheInv
<1> QED
  BY <1>10, <1>11, <1>12, <1>13, <1>14 DEF IInv

\* CopyBlob keeps the invariant.
LEMMA CopyBlobInv ==
  ASSUME IInv, NEW o \in Requests, NEW b \in Blobs, CopyBlob(o, b)
  PROVE  IInv'
<1> DEFINE r == req[o].repo
           x == [req[o] EXCEPT !.blobs = @ \ {b}]
<1>1. /\ UNCHANGED <<project, tags, known, rows, cache, events, ui, version, pushes, begun, faults,
                     raced, batched, synced, newest, overtaken>>
      /\ req[o].step = "copy_blobs" /\ blobs' = [blobs EXCEPT ![r] = @ \cup {b}]
      /\ req' = [req EXCEPT ![o] = x]
  BY DEF CopyBlob, PushBlob, history, At
<1>2. TypeInv /\ GroundsInv /\ RealInv /\ CompleteInv /\ CacheInv /\ TypeOK /\ req[o] \in RequestState
  BY DEF IInv, TypeInv, TypeOK
<1>3. r \in Repos /\ req[o].src \in Repos
  BY <1>1, <1>2 DEF TypeInv, Filled, Copying
<1>4. /\ x \in RequestState /\ x.step = "copy_blobs" /\ x.repo = r /\ x.src = req[o].src
      /\ x.blobs = req[o].blobs \ {b} /\ x.clean = req[o].clean
  BY <1>1, <1>2 DEF RequestState
<1>5. /\ blobs' \in [Repos -> SUBSET Blobs] /\ blobs'[r] = blobs[r] \cup {b}
      /\ \A q \in Repos : blobs[q] \subseteq blobs'[q]
  BY <1>1, <1>2, <1>3 DEF TypeOK
<1> HIDE DEF x
<1>6. req' \in [Requests -> RequestState] /\ req'[o] = x /\ Others(o)
  BY <1>1, <1>2, <1>4, ReplacedOthers DEF TypeOK
<1>7. Filled(req[o])' /\ ~OfEvent(req[o])'
  BY <1>3, <1>4, <1>6 DEF Filled, OfEvent, Notifying, Refreshing, Deleting, Copying, Syncing
<1>8. OwnGrounds(o)
  <2>1. CopyGrounds(req[o]) => CopyGrounds(req[o])'
    BY <1>1, <1>4, <1>5, <1>6 DEF CopyGrounds, Writing
  <2>2. req[o].clean => CopyGrounds(req[o])
    BY <1>2 DEF GroundsInv, Grounds
  <2>3. (RowGrounds(req[o]) /\ ProjectGrounds(req[o]) /\ SyncGrounds(req[o]) /\ PageGrounds(req[o]))'
    BY <1>4, <1>6 DEF RowGrounds, ProjectGrounds, SyncGrounds, PageGrounds, Comparing, Syncing
  <2>4. PutGrounds(req[o])' /\ Tagged(req[o])'
    BY <1>4, <1>6, <1>7 DEF PutGrounds, Tagged
  <2> QED
    BY <1>4, <1>6, <2>1, <2>2, <2>3, <2>4 DEF OwnGrounds, Grounds
<1>9. TypeInv'
  <2>1. TablesOK' /\ HistoryOK'
    BY <1>1, <1>2, <1>5 DEF TypeOK, TablesOK, HistoryOK
  <2>2. ui' \in {"starting", "up"}
    BY <1>1, <1>2 DEF TypeInv, TypeOK, AllIdle, At
  <2> QED
    BY <1>2, <1>6, <1>7, <2>1, <2>2, TypeStep
<1>10. GroundsInv'
  <2>1. ASSUME NEW q \in Requests \ {o} PROVE Calm(q)
    BY <1>1, <1>2, <1>5 DEF TypeInv, Filled, Copying, Writing, Calm
  <2>2. Counted
    BY <1>1 DEF Counted
  <2>3. (faults = 0 => EventsTagged)' /\ RowsOwned'
    BY <1>1, <1>2 DEF GroundsInv, EventsTagged, RowsOwned, ProjectExists
  <2> QED
    BY <1>1, <1>2, <1>6, <1>8, <2>1, <2>2, <2>3, GroundsStep
<1>11. RealInv'
  <2>1. \A q : ~Deletes(o, q)
    BY <1>1 DEF Deletes, Deleting
  <2> QED
    BY <1>1, <1>2, <1>6, <2>1, RealStep
<1>12. CompleteInv'
  <2>1. \A q : ~Awaits(o, q)
    BY <1>1 DEF Awaits, Notifying
  <2>2. ASSUME NEW q \in Repos, Pullable(q)'
        PROVE  \/ q \in Range(rows') \/ Announced(q)'
               \/ Pullable(q) /\ q \notin Range(rows) /\ ~Announced(q) /\ ~Awaits(o, q)
    BY <1>1, <2>1, <2>2 DEF Pullable, Announced
  <2> QED
    BY <1>1, <1>2, <1>6, <2>2, CompleteStep
<1>13. CacheInv'
  <2>1. ~Fresh(req[o])
    BY <1>1 DEF Fresh
  <2> QED
    BY <1>1, <1>2, <1>6, <2>1, CacheStep DEF CacheInv
<1> QED
  BY <1>9, <1>10, <1>11, <1>12, <1>13 DEF IInv

\* DeleteProject keeps the invariant.
LEMMA DeleteProjectInv ==
  ASSUME IInv, NEW o \in Requests, DeleteProject(o)
  PROVE  IInv'
<1> DEFINE p == req[o].project
<1>1. /\ UNCHANGED <<tags, known, blobs, rows, cache, events, ui, version, pushes, begun, faults,
                     batched, synced, newest, overtaken>>
      /\ req[o].step = "project_delete" /\ project' = project \ {p}
      /\ raced' = (raced \/ ~req[o].clean) /\ req' = [req EXCEPT ![o] = Idle]
  BY DEF DeleteProject, registry, At
<1>2. TypeInv /\ GroundsInv /\ RealInv /\ CompleteInv /\ CacheInv /\ TypeOK
  BY DEF IInv, TypeInv
<1>3. req' \in [Requests -> RequestState] /\ req'[o] = Idle /\ Others(o)
  BY <1>1, <1>2, IdleType, ReplacedOthers DEF TypeOK
<1>4. Filled(req[o])' /\ OwnGrounds(o)
  BY <1>3, IdleOwn
<1>5. raced' \in BOOLEAN /\ (~raced' => ~raced /\ req[o].clean)
  BY <1>1
<1>6. TypeInv'
  <2>1. TablesOK' /\ HistoryOK'
    BY <1>1, <1>2, <1>5 DEF TypeOK, TablesOK, HistoryOK
  <2>2. ui' \in {"starting", "up"}
    BY <1>1, <1>2 DEF TypeInv, TypeOK, AllIdle, At
  <2> QED
    BY <1>2, <1>3, <1>4, <2>1, <2>2, TypeStep
<1>7. GroundsInv'
  <2>1. ASSUME NEW q \in Requests \ {o} PROVE Calm(q)
    BY <1>1 DEF Calm
  <2>2. Counted
    BY <1>1 DEF Counted
  <2>3. (faults = 0 => EventsTagged)'
    BY <1>1, <1>2 DEF GroundsInv, EventsTagged
  <2>4. RowsOwned'
    <3> SUFFICES ASSUME ~raced', NEW r \in Range(rows) PROVE ProjectOf[r] \in project'
      BY <1>1 DEF RowsOwned, ProjectExists
    <3>1. ProjectGrounds(req[o]) /\ RowsOwned
      BY <1>2, <1>5 DEF GroundsInv, Grounds
    <3> QED
      BY <1>1, <1>5, <3>1 DEF RowsOwned, ProjectExists, ProjectGrounds
  <2> QED
    BY <1>1, <1>2, <1>3, <1>4, <2>1, <2>2, <2>3, <2>4, GroundsStep
<1>8. RealInv'
  <2>1. \A q : ~Deletes(o, q)
    BY <1>1 DEF Deletes, Deleting
  <2> QED
    BY <1>1, <1>2, <1>3, <1>5, <2>1, RealStep
<1>9. CompleteInv'
  <2>1. \A q : ~Awaits(o, q)
    BY <1>1 DEF Awaits, Notifying
  <2>2. ASSUME NEW q \in Repos, Pullable(q)'
        PROVE  \/ q \in Range(rows') \/ Announced(q)'
               \/ Pullable(q) /\ q \notin Range(rows) /\ ~Announced(q) /\ ~Awaits(o, q)
    BY <1>1, <2>1, <2>2 DEF Pullable, Announced
  <2> QED
    BY <1>1, <1>2, <1>3, <1>5, <2>2, CompleteStep
<1>10. CacheInv'
  <2>1. ~Fresh(req[o])
    BY <1>1 DEF Fresh
  <2> QED
    BY <1>1, <1>2, <1>3, <2>1, CacheStep DEF CacheInv
<1> QED
  BY <1>6, <1>7, <1>8, <1>9, <1>10 DEF IInv

-----------------------------------------------------------------------------
(***************************************************************************)
(* Changes of the rows.                                                    *)
(***************************************************************************)

\* What ChangeRows does, in terms of its parameters.
Changed(o, new, x, S) ==
  /\ UNCHANGED <<project, tags, known, blobs, cache, events, ui, pushes, begun, faults, batched,
                 newest, overtaken>>
  /\ rows' = new /\ req'[o] = x /\ Others(o) /\ req' \in [Requests -> RequestState]
  /\ Counted
  /\ raced' \in BOOLEAN /\ (~raced' => ~raced /\ (new # rows => req[o].clean))
  /\ \A q \in Requests \ {o} :
       new # rows /\ req'[q].clean => ~(req[q].step \in S /\ About(q, Repos))

\* What ChangeRows does to the others, the version and the history.
LEMMA ChangeRowsParts ==
  ASSUME TypeInv, NEW o \in Requests, NEW s, NEW new, NEW x \in RequestState, NEW S,
         ChangeRows(o, s, new, x, S)
  PROVE  Changed(o, new, x, S)
<1>1. /\ UNCHANGED <<project, tags, known, blobs, cache, events, ui, pushes, begun, faults, batched,
                     newest, overtaken>>
      /\ rows' = new /\ version' = version + (IF new = rows THEN 0 ELSE 1)
      /\ raced' = (raced \/ (new # rows /\ ~req[o].clean))
      /\ req' = [q \in Requests |-> IF q = o THEN x
                                    ELSE IF new = rows THEN req[q] ELSE Spoiled(q, S, Repos)]
  BY DEF ChangeRows, registry
<1>2. TypeOK
  BY DEF TypeInv
<1>3. ASSUME NEW q \in Requests \ {o}
      PROVE  /\ Kept(q) /\ req'[q] \in RequestState
             /\ new # rows /\ req'[q].clean => ~(req[q].step \in S /\ About(q, Repos))
  <2>1. CASE new # rows
    <3>1. req'[q] = Spoiled(q, S, Repos)
      BY <1>1, <2>1
    <3> QED
      BY <3>1, SpoiledKept
  <2>2. CASE new = rows
    <3>1. req'[q] = req[q]
      BY <1>1, <2>2
    <3> QED
      BY <1>2, <2>2, <3>1 DEF Kept, TypeOK
  <2> QED
    BY <2>1, <2>2
<1>4. req'[o] = x /\ Others(o) /\ req' \in [Requests -> RequestState]
  BY <1>1, <1>3 DEF Others
<1>5. Counted
  BY <1>1, <1>2 DEF Counted, TypeOK
<1>6. raced' \in BOOLEAN /\ (~raced' => ~raced /\ (new # rows => req[o].clean))
  BY <1>1
<1> QED
  BY <1>1, <1>3, <1>4, <1>5, <1>6 DEF Changed

\* A change of the rows keeps the invariant, when it is well-founded.
LEMMA ChangeInv ==
  ASSUME IInv, NEW o \in Requests, req[o].step # "idle", NEW new \in Seq(Repos), IsInjective(new),
         NEW x, NEW S, Changed(o, new, x, S),
         synced' \in BOOLEAN, ~synced' => ~synced /\ x.step = "refresh_read",
         Filled(req[o])', OwnGrounds(o), \A q \in Requests \ {o} : Calm(q), RowsOwned',
         faults = 0 /\ ~raced' /\ ~synced' =>
           \A r \in Range(new) : tags[r] = {} => r \in Range(rows) /\ ~Deletes(o, r),
         faults = 0 /\ ~raced' =>
           \A r \in Repos : Pullable(r) => r \in Range(new) \/ (r \notin Range(rows) /\ ~Awaits(o, r))
  PROVE  IInv'
<1>1. /\ UNCHANGED <<project, tags, known, blobs, cache, events, ui, pushes, begun, faults, batched,
                     newest, overtaken>>
      /\ rows' = new /\ req'[o] = x /\ Others(o) /\ req' \in [Requests -> RequestState] /\ Counted
      /\ raced' \in BOOLEAN /\ (~raced' => ~raced)
  BY DEF Changed
<1>2. TypeInv /\ GroundsInv /\ RealInv /\ CompleteInv /\ CacheInv /\ TypeOK
  BY DEF IInv, TypeInv
<1>3. version \in Nat /\ newest \in Nat /\ version' \in Nat
  BY <1>1, <1>2 DEF TypeOK, Counted
<1>4. TypeInv'
  <2>1. TablesOK' /\ HistoryOK'
    BY <1>1, <1>2, <1>3 DEF TypeOK, TablesOK, HistoryOK
  <2>2. ui' \in {"starting", "up"}
    BY <1>1, <1>2 DEF TypeInv, TypeOK, AllIdle, At
  <2> QED
    BY <1>1, <1>2, <2>1, <2>2, TypeStep
<1>5. GroundsInv'
  <2>1. (faults = 0 => EventsTagged)'
    BY <1>1, <1>2 DEF GroundsInv, EventsTagged
  <2> QED
    BY <1>1, <1>2, <2>1, GroundsStep
<1>6. RealInv'
  <2>1. faults' = 0 /\ ~raced' /\ ~synced' =>
          /\ faults = 0 /\ ~raced /\ ~synced
          /\ \A r \in Range(rows') : tags'[r] = {} =>
               r \in Range(rows) /\ tags[r] = {} /\ ~Deletes(o, r)
    BY <1>1
  <2> QED
    BY <1>1, <1>2, <2>1, RealStep
<1>7. CompleteInv'
  <2>1. ASSUME faults = 0, ~raced', NEW r \in Repos, Pullable(r)'
        PROVE  \/ r \in Range(rows') \/ Announced(r)'
               \/ Pullable(r) /\ r \notin Range(rows) /\ ~Announced(r) /\ ~Awaits(o, r)
    <3>1. Pullable(r) /\ (Announced(r) => Announced(r)')
      BY <1>1, <2>1 DEF Pullable, Announced
    <3>2. r \in Range(new) \/ (r \notin Range(rows) /\ ~Awaits(o, r))
      BY <2>1, <3>1
    <3> QED
      BY <1>1, <3>1, <3>2
  <2> QED
    BY <1>1, <1>2, <2>1, CompleteStep
<1>8. CacheInv'
  <2>1. newest' <= version' /\ (newest' = version' => rows' = rows /\ newest = version)
    BY <1>1, <1>2, <1>3 DEF Counted, CacheInv
  <2>2. cache' # None => cache'.version = newest' /\ (newest' = version' => cache'.repos = rows')
    BY <1>1, <1>2, <2>1 DEF CacheInv
  <2>3. ~synced' => Fresh(req[o])'
    BY <1>1 DEF Fresh
  <2> QED
    BY <1>1, <1>2, <2>1, <2>2, <2>3, CacheStep
<1> QED
  BY <1>4, <1>5, <1>6, <1>7, <1>8 DEF IInv

\* A row is added on behalf of a push or of a comparison.
LEMMA AddRowInv ==
  ASSUME IInv, NEW o \in Requests, req[o].step \in {"notify_add", "sync_add"}, NEW r \in Repos, NEW x,
         Changed(o, WithRow(r), x, Syncing \cup {"project_delete"}),
         synced' \in BOOLEAN, ~synced' => ~synced /\ x.step = "refresh_read",
         Filled(req[o])', OwnGrounds(o),
         req[o].step = "notify_add" => req[o].repo = r,
         faults = 0 /\ req[o].clean /\ ~synced' => tags[r] # {}
  PROVE  IInv'
<1> DEFINE new == WithRow(r)
           S == Syncing \cup {"project_delete"}
<1>1. TypeInv /\ TypeOK /\ GroundsInv
  BY DEF IInv, TypeInv
<1>2. /\ new \in Seq(Repos) /\ IsInjective(new)
      /\ \/ new = rows /\ (r \in Range(rows) \/ ProjectOf[r] \notin project)
         \/ /\ new = Append(rows, r) /\ r \notin Range(rows) /\ ProjectOf[r] \in project
            /\ Range(new) = Range(rows) \cup {r}
  BY <1>1, WithRowRows DEF TypeOK
<1>9. Changed(o, new, x, S)
  OBVIOUS
<1> HIDE DEF new, S
<1>3. /\ UNCHANGED <<project, tags, known, blobs, faults>> /\ rows' = new
      /\ ~raced' => ~raced /\ (new # rows => req[o].clean)
      /\ \A q \in Requests \ {o} : new # rows /\ req'[q].clean => ~(req[q].step \in S /\ About(q, Repos))
  BY <1>9 DEF Changed
<1>4. ASSUME NEW q \in Requests \ {o} PROVE Calm(q)
  <2>1. req'[q].clean /\ req[q].step \in S => new = rows
    BY <1>1, <1>3 DEF TypeInv, Filled, About, S
  <2> QED
    BY <1>2, <1>3, <2>1 DEF Calm, S
<1>5. RowsOwned'
  BY <1>1, <1>2, <1>3 DEF GroundsInv, RowsOwned, ProjectExists
<1>6. ASSUME faults = 0, ~raced', ~synced', NEW q \in Range(new), tags[q] = {}
      PROVE  q \in Range(rows) /\ ~Deletes(o, q)
  BY <1>2, <1>3, <1>6 DEF Deletes, Deleting
<1>7. ASSUME NEW q \in Repos, Pullable(q)
      PROVE  q \in Range(new) \/ (q \notin Range(rows) /\ ~Awaits(o, q))
  BY <1>2, <1>7 DEF Pullable, Awaits, Notifying
<1> QED
  BY <1>2, <1>4, <1>5, <1>6, <1>7, <1>9, ChangeInv

\* A row is removed by Delete or by a comparison.
LEMMA RemoveRowInv ==
  ASSUME IInv, NEW o \in Requests, req[o].step \in {"delete_row", "sync_del"}, NEW r \in Repos, NEW x,
         Changed(o, WithoutRow(r), x, Syncing \cup {"list", "listed"}),
         synced' \in BOOLEAN, ~synced' => ~synced /\ x.step = "refresh_read",
         Filled(req[o])', OwnGrounds(o),
         req[o].step = "delete_row" => req[o].repo = r,
         req[o].clean => tags[r] = {}
  PROVE  IInv'
<1> DEFINE new == WithoutRow(r)
           S == Syncing \cup {"list", "listed"}
<1>1. TypeInv /\ TypeOK /\ GroundsInv
  BY DEF IInv, TypeInv
<1>2. new \in Seq(Repos) /\ IsInjective(new) /\ Range(new) = Range(rows) \ {r}
  BY <1>1, WithoutRowRows DEF TypeOK
<1>9. Changed(o, new, x, S)
  OBVIOUS
<1> HIDE DEF new, S
<1>3. /\ UNCHANGED <<project, tags, known, blobs, faults>> /\ rows' = new
      /\ ~raced' => ~raced /\ (new # rows => req[o].clean)
      /\ \A q \in Requests \ {o} : new # rows /\ req'[q].clean => ~(req[q].step \in S /\ About(q, Repos))
  BY <1>9 DEF Changed
<1>4. ASSUME NEW q \in Requests \ {o} PROVE Calm(q)
  <2>1. req'[q].clean /\ req[q].step \in S => new = rows
    BY <1>1, <1>3 DEF TypeInv, Filled, About, S
  <2> QED
    BY <1>2, <1>3, <2>1 DEF Calm, S
<1>5. RowsOwned'
  BY <1>1, <1>2, <1>3 DEF GroundsInv, RowsOwned, ProjectExists
<1>6. ASSUME NEW q \in Range(new) PROVE q \in Range(rows) /\ ~Deletes(o, q)
  BY <1>2 DEF Deletes, Deleting
<1>7. ASSUME ~raced', NEW q \in Repos, Pullable(q)
      PROVE  q \in Range(new) \/ (q \notin Range(rows) /\ ~Awaits(o, q))
  <2>1. ~Awaits(o, q)
    BY DEF Awaits, Notifying
  <2>2. CASE q = r /\ r \in Range(rows)
    <3>1. new # rows
      BY <1>2, <2>2
    <3> QED
      BY <1>3, <1>7, <2>2, <3>1 DEF Pullable
  <2>3. CASE ~(q = r /\ r \in Range(rows))
    BY <1>2, <2>1, <2>3
  <2> QED
    BY <2>2, <2>3
<1> QED
  BY <1>2, <1>4, <1>5, <1>6, <1>7, <1>9, ChangeInv

\* A request that counts on nothing but its tag.
LEMMA TaggedOwn ==
  ASSUME NEW o \in Requests, NEW x, Sound(x), req'[o] = x, x.step \notin Based \cup {"refresh_put"},
         UNCHANGED <<tags, faults>>
  PROVE  Filled(req[o])' /\ OwnGrounds(o)
<1>1. Filled(req[o])'
  BY DEF Sound, Filled, OfEvent
<1>2. Grounds(req[o])' /\ PutGrounds(req[o])'
  BY DEF Grounds, CopyGrounds, RowGrounds, ProjectGrounds, SyncGrounds, PageGrounds, PutGrounds, Based,
         Comparing, Syncing
<1>3. (faults = 0 /\ req[o].clean => Tagged(req[o]))'
  BY DEF Sound, Tagged, OfEvent
<1> QED
  BY <1>1, <1>2, <1>3 DEF OwnGrounds

\* NotifyAdd keeps the invariant.
LEMMA NotifyAddInv ==
  ASSUME IInv, NEW o \in Requests, NotifyAdd(o)
  PROVE  IInv'
<1> DEFINE r == req[o].repo
           x == Step(o, "refresh_read")
           S == Syncing \cup {"project_delete"}
<1>1. ChangeRows(o, "notify_add", WithRow(r), x, S) /\ synced' = synced /\ req[o].step = "notify_add"
  BY DEF NotifyAdd, ChangeRows, At
<1>2. TypeInv /\ TypeOK /\ OfEvent(req[o])
  BY <1>1 DEF IInv, TypeInv, OfEvent, Notifying
<1>3. r \in Repos
  BY <1>2 DEF TypeInv, Filled
<1>4. Sound(x) /\ x.step = "refresh_read"
  BY <1>1, SameEvent DEF Notifying
<1> HIDE DEF x, S
<1>5. x \in RequestState
  BY <1>4 DEF Sound
<1>6. Changed(o, WithRow(r), x, S)
  BY <1>1, <1>2, <1>5, ChangeRowsParts, ZenonT(60)
<1>7. req'[o] = x /\ UNCHANGED <<tags, faults>>
  BY <1>6 DEF Changed
<1>8. Filled(req[o])' /\ OwnGrounds(o)
  BY <1>4, <1>7, TaggedOwn DEF Based, Writing, Syncing
<1>9. faults = 0 /\ req[o].clean => tags[r] # {}
  BY <1>2, SoundNow DEF Sound, Tagged
<1>10. synced' \in BOOLEAN
  BY <1>1, <1>2 DEF TypeOK
<1> QED
  BY <1>1, <1>3, <1>4, <1>6, <1>8, <1>9, <1>10, AddRowInv DEF S

\* DeleteRow keeps the invariant.
LEMMA DeleteRowInv ==
  ASSUME IInv, NEW o \in Requests, DeleteRow(o)
  PROVE  IInv'
<1> DEFINE r == req[o].repo
           x == Step(o, "refresh_read")
           S == Syncing \cup {"list", "listed"}
<1>1. ChangeRows(o, "delete_row", WithoutRow(r), x, S) /\ synced' = synced /\ req[o].step = "delete_row"
  BY DEF DeleteRow, ChangeRows, At
<1>2. TypeInv /\ TypeOK
  BY DEF IInv, TypeInv
<1>3. r \in Repos /\ req[o].page = 0
  BY <1>1, <1>2 DEF TypeInv, Filled, Deleting
<1>4. x \in RequestState /\ x.step = "refresh_read" /\ x.page = 0
  BY <1>2, <1>3, StepType DEF Steps
<1> HIDE DEF x, S
<1>5. Sound(x)
  <2>1. Filled(x) /\ ~OfEvent(x)
    BY <1>4 DEF Filled, OfEvent, Notifying, Refreshing, Deleting, Copying, Syncing
  <2> QED
    BY <1>4, <2>1, SoundFree DEF Based, Writing, Syncing
<1>6. Changed(o, WithoutRow(r), x, S)
  BY <1>1, <1>2, <1>4, ChangeRowsParts, ZenonT(60)
<1>7. req'[o] = x /\ UNCHANGED <<tags, faults>>
  BY <1>6 DEF Changed
<1>8. Filled(req[o])' /\ OwnGrounds(o)
  BY <1>4, <1>5, <1>7, TaggedOwn DEF Based, Writing, Syncing
<1>9. req[o].clean => tags[r] = {}
  BY <1>1, SoundNow DEF Sound, Grounds, RowGrounds
<1>10. synced' \in BOOLEAN
  BY <1>1, <1>2 DEF TypeOK
<1> QED
  BY <1>1, <1>3, <1>4, <1>6, <1>8, <1>9, <1>10, RemoveRowInv DEF S

\* SyncAdd keeps the invariant.
LEMMA SyncAddInv ==
  ASSUME IInv, NEW o \in Requests, SyncAdd(o)
  PROVE  IInv'
<1> DEFINE r == First(req[o].add)
           x == [req[o] EXCEPT !.add = @ \ {r}]
           S == Syncing \cup {"project_delete"}
<1>1. /\ ChangeRows(o, "sync_add", WithRow(r), x, S) /\ synced' = TRUE /\ req[o].step = "sync_add"
      /\ req[o].add # {}
  BY DEF SyncAdd, ChangeRows, At
<1>2. TypeInv /\ TypeOK /\ req[o] \in RequestState
  BY DEF IInv, TypeInv, TypeOK
<1>3. r \in req[o].add /\ r \in Repos
  <2>1. req[o].add \subseteq Repos
    BY <1>2 DEF RequestState
  <2>2. req[o].add \subseteq Nat
    BY <2>1, CatalogAssumption
  <2> QED
    BY <1>1, <2>1, <2>2, FirstIn
<1> HIDE DEF r
<1>4. /\ x \in RequestState /\ x.step = "sync_add" /\ x.repo = req[o].repo /\ x.catalog = req[o].catalog
      /\ x.add = req[o].add \ {r} /\ x.del = req[o].del /\ x.clean = req[o].clean
  BY <1>1, <1>2 DEF RequestState
<1> HIDE DEF x, S
<1>5. Changed(o, WithRow(r), x, S)
  BY <1>1, <1>2, <1>4, ChangeRowsParts, ZenonT(60)
<1>6. UNCHANGED <<project, tags, known>> /\ rows' = WithRow(r) /\ req'[o] = x
  BY <1>5 DEF Changed
<1>7. /\ Range(rows) \subseteq Range(rows') /\ Range(rows') \subseteq Range(rows) \cup {r}
      /\ r \in Range(rows') \/ ProjectOf[r] \notin project
  BY <1>2, <1>3, <1>6, WithRowRows DEF TypeOK
<1>8. Filled(req[o])' /\ ~OfEvent(req[o])'
  BY <1>1, <1>2, <1>4, <1>6 DEF TypeInv, Filled, OfEvent, Notifying, Refreshing, Deleting, Copying, Syncing
<1>9. OwnGrounds(o)
  <2>1. ASSUME req'[o].clean PROVE SyncGrounds(req[o])'
    <3>1. SyncGrounds(req[o])
      BY <1>4, <1>6, <2>1, SoundNow DEF Sound, Grounds
    <3>2. /\ req[o].catalog = known
          /\ \A q \in Repos : tags[q] # {} /\ ProjectOf[q] \in project => q \in Range(rows) \cup req[o].add
          /\ Range(rows) \subseteq known \cup req[o].del
          /\ req[o].add \subseteq known /\ req[o].del \cap known = {}
      BY <1>1, <3>1 DEF SyncGrounds, Syncing, Comparing
    <3>3. \A q \in Repos : tags'[q] # {} /\ ProjectOf[q] \in project' => q \in Range(rows') \cup x.add
      BY <1>4, <1>6, <1>7, <3>2
    <3>4. /\ x.catalog = known' /\ Range(rows') \subseteq known' \cup x.del
          /\ x.add \subseteq known' /\ x.del \cap known' = {}
      <4>1. known' = known
        BY <1>6
      <4> QED
        BY <1>3, <1>4, <1>7, <3>2, <4>1
    <3> QED
      BY <1>4, <1>6, <3>3, <3>4 DEF SyncGrounds
  <2>2. (CopyGrounds(req[o]) /\ RowGrounds(req[o]) /\ ProjectGrounds(req[o]) /\ PageGrounds(req[o]))'
    BY <1>4, <1>6 DEF CopyGrounds, RowGrounds, ProjectGrounds, PageGrounds, Writing
  <2>3. PutGrounds(req[o])' /\ Tagged(req[o])'
    BY <1>4, <1>6, <1>8 DEF PutGrounds, Tagged
  <2> QED
    BY <2>1, <2>2, <2>3 DEF OwnGrounds, Grounds
<1> QED
  BY <1>1, <1>3, <1>5, <1>8, <1>9, AddRowInv DEF S

\* SyncDel keeps the invariant.
LEMMA SyncDelInv ==
  ASSUME IInv, NEW o \in Requests, SyncDel(o)
  PROVE  IInv'
<1> DEFINE r == First(req[o].del)
           x == [req[o] EXCEPT !.del = @ \ {r}]
           S == Syncing \cup {"list", "listed"}
<1>1. /\ ChangeRows(o, "sync_del", WithoutRow(r), x, S) /\ synced' = TRUE /\ req[o].step = "sync_del"
      /\ req[o].del # {}
  BY DEF SyncDel, ChangeRows, At
<1>2. TypeInv /\ TypeOK /\ req[o] \in RequestState
  BY DEF IInv, TypeInv, TypeOK
<1>3. r \in req[o].del /\ r \in Repos
  <2>1. req[o].del \subseteq Repos
    BY <1>2 DEF RequestState
  <2>2. req[o].del \subseteq Nat
    BY <2>1, CatalogAssumption
  <2> QED
    BY <1>1, <2>1, <2>2, FirstIn
<1> HIDE DEF r
<1>4. /\ x \in RequestState /\ x.step = "sync_del" /\ x.repo = req[o].repo /\ x.catalog = req[o].catalog
      /\ x.add = req[o].add /\ x.del = req[o].del \ {r} /\ x.clean = req[o].clean
  BY <1>1, <1>2 DEF RequestState
<1> HIDE DEF x, S
<1>5. Changed(o, WithoutRow(r), x, S)
  BY <1>1, <1>2, <1>4, ChangeRowsParts, ZenonT(60)
<1>6. UNCHANGED <<project, tags, known>> /\ rows' = WithoutRow(r) /\ req'[o] = x
  BY <1>5 DEF Changed
<1>7. Range(rows') = Range(rows) \ {r}
  BY <1>2, <1>3, <1>6, WithoutRowRows DEF TypeOK
<1>8. Filled(req[o])' /\ ~OfEvent(req[o])'
  BY <1>1, <1>2, <1>4, <1>6 DEF TypeInv, Filled, OfEvent, Notifying, Refreshing, Deleting, Copying, Syncing
<1>10. ASSUME req[o].clean
       PROVE  /\ req[o].catalog = known
              /\ \A q \in Repos : tags[q] # {} /\ ProjectOf[q] \in project =>
                                    q \in Range(rows) \cup req[o].add
              /\ Range(rows) \subseteq known \cup req[o].del
              /\ req[o].add \subseteq known /\ req[o].del \cap known = {} /\ tags[r] = {}
  <2>1. SyncGrounds(req[o])
    BY <1>10, SoundNow DEF Sound, Grounds
  <2>2. \A q \in Repos : tags[q] # {} => q \in known
    BY <1>2 DEF TypeOK
  <2> QED
    BY <1>1, <1>3, <2>1, <2>2 DEF SyncGrounds, Syncing, Comparing
<1>9. OwnGrounds(o)
  <2>1. ASSUME req'[o].clean PROVE SyncGrounds(req[o])'
    <3>1. req[o].clean
      BY <1>4, <1>6, <2>1
    <3>3. \A q \in Repos : tags'[q] # {} /\ ProjectOf[q] \in project' => q \in Range(rows') \cup x.add
      BY <1>4, <1>6, <1>7, <1>10, <3>1
    <3>4. /\ x.catalog = known' /\ Range(rows') \subseteq known' \cup x.del
          /\ x.add \subseteq known' /\ x.del \cap known' = {}
      <4>1. known' = known
        BY <1>6
      <4> QED
        BY <1>4, <1>7, <1>10, <3>1, <4>1
    <3> QED
      BY <1>4, <1>6, <3>3, <3>4 DEF SyncGrounds
  <2>2. (CopyGrounds(req[o]) /\ RowGrounds(req[o]) /\ ProjectGrounds(req[o]) /\ PageGrounds(req[o]))'
    BY <1>4, <1>6 DEF CopyGrounds, RowGrounds, ProjectGrounds, PageGrounds, Writing
  <2>3. PutGrounds(req[o])' /\ Tagged(req[o])'
    BY <1>4, <1>6, <1>8 DEF PutGrounds, Tagged
  <2> QED
    BY <2>1, <2>2, <2>3 DEF OwnGrounds, Grounds
<1> QED
  BY <1>1, <1>3, <1>5, <1>8, <1>9, <1>10, RemoveRowInv DEF S

-----------------------------------------------------------------------------
(***************************************************************************)
(* Failures.                                                               *)
(***************************************************************************)
LEMMA AfterFailureSound ==
  ASSUME IInv, NEW o \in Requests
  PROVE  Sound(AfterFailure(o))
<1>0. TypeInv /\ req[o] \in RequestState
  BY DEF IInv, TypeInv, TypeOK
<1>1. CASE req[o].step = "notify_exists"
  BY <1>1, SameEvent DEF AfterFailure, Notifying
<1>2. CASE req[o].step = "notify_add"
  BY <1>2, SameEvent DEF AfterFailure, Notifying
<1>3. CASE req[o].step = "refresh_read"
  BY <1>3, NextCopySound DEF AfterFailure, Refreshing
<1>4. CASE req[o].step = "sync_add" /\ req[o].add # {}
  <2> DEFINE x == [req[o] EXCEPT !.add = @ \ {First(req[o].add)}, !.clean = FALSE]
  <2>1. AfterFailure(o) = x
    BY <1>4 DEF AfterFailure
  <2>2. x \in RequestState /\ x.step = "sync_add" /\ x.repo = req[o].repo /\ ~x.clean
    BY <1>0, <1>4 DEF RequestState
  <2> HIDE DEF x
  <2>3. Filled(x)
    BY <1>0, <1>4, <2>2 DEF TypeInv, Filled, OfEvent, Notifying, Refreshing, Deleting, Copying, Syncing
  <2> QED
    BY <2>1, <2>2, <2>3 DEF Sound, PutGrounds
<1>5. CASE req[o].step = "sync_del" /\ req[o].del # {}
  <2> DEFINE x == [req[o] EXCEPT !.del = @ \ {First(req[o].del)}, !.clean = FALSE]
  <2>1. AfterFailure(o) = x
    BY <1>5 DEF AfterFailure
  <2>2. x \in RequestState /\ x.step = "sync_del" /\ x.repo = req[o].repo /\ ~x.clean /\ x.add = req[o].add
    BY <1>0, <1>5 DEF RequestState
  <2> HIDE DEF x
  <2>3. Filled(x)
    BY <1>0, <1>5, <2>2 DEF TypeInv, Filled, OfEvent, Notifying, Refreshing, Deleting, Copying, Syncing
  <2> QED
    BY <2>1, <2>2, <2>3 DEF Sound, PutGrounds
<1>6. CASE req[o].step = "copy_check"
  <2> DEFINE x == [Step(o, "copy_blobs") EXCEPT !.blobs = Blobs]
  <2>1. AfterFailure(o) = x
    BY <1>6 DEF AfterFailure
  <2>2. /\ x \in RequestState /\ x.step = "copy_blobs" /\ x.repo = req[o].repo /\ x.src = req[o].src
        /\ x.blobs = Blobs
    BY <1>0 DEF Step, RequestState, Steps
  <2> HIDE DEF x
  <2>3. Filled(x) /\ ~OfEvent(x)
    BY <1>0, <1>6, <2>2 DEF TypeInv, Filled, OfEvent, Notifying, Refreshing, Deleting, Copying, Syncing
  <2>4. Grounds(x)
    BY <2>2 DEF Grounds, CopyGrounds, RowGrounds, ProjectGrounds, SyncGrounds, PageGrounds, Comparing,
                Syncing
  <2> QED
    BY <2>1, <2>2, <2>3, <2>4 DEF Sound, PutGrounds, Tagged
<1>7. CASE /\ req[o].step \notin {"notify_exists", "notify_add", "refresh_read", "copy_check"}
           /\ ~(req[o].step = "sync_add" /\ req[o].add # {})
           /\ ~(req[o].step = "sync_del" /\ req[o].del # {})
  <2>1. AfterFailure(o) = Idle
    BY <1>7 DEF AfterFailure
  <2> QED
    BY <2>1, IdleSound
<1> QED
  BY <1>1, <1>2, <1>3, <1>4, <1>5, <1>6, <1>7

\* A failure takes nothing away from the others.
LEMMA FailsInv ==
  ASSUME IInv, NEW o \in Requests, Fails(o)
  PROVE  IInv'
<1> DEFINE x == AfterFailure(o)
<1>1. /\ UNCHANGED <<project, tags, known, blobs, rows, cache, events, ui, version, pushes, begun, raced,
                     batched, synced, newest, overtaken>>
      /\ req' = [req EXCEPT ![o] = x] /\ req[o].step # "idle"
  BY DEF Fails, registry, history
<1>2. TypeInv /\ TypeOK
  BY DEF IInv, TypeInv
<1>3. faults' \in 0..MaxFaults /\ faults' # 0
  BY <1>2, CatalogAssumption DEF Fails, TypeOK
<1>4. Sound(x)
  BY AfterFailureSound
<1> HIDE DEF x
<1>5. req' \in [Requests -> RequestState] /\ req'[o] = x /\ Others(o)
  BY <1>1, <1>2, <1>4, ReplacedOthers DEF TypeOK, Sound
<1>6. Filled(req[o])' /\ OwnGrounds(o)
  BY <1>1, <1>3, <1>4, <1>5, SoundOwn
<1>7. TablesOK' /\ HistoryOK'
  BY <1>1, <1>2, <1>3 DEF TypeOK, TablesOK, HistoryOK
<1>8. ui' \in {"starting", "up"}
  BY <1>1, <1>2 DEF TypeInv, TypeOK, AllIdle, At
<1>9. \A q \in Requests \ {o} : Calm(q)
  BY <1>1, <1>3, QuietCalm
<1> QED
  BY <1>1, <1>3, <1>5, <1>6, <1>7, <1>8, <1>9, FaultInv

-----------------------------------------------------------------------------
(***************************************************************************)
(* The invariant.                                                          *)
(***************************************************************************)
LEMMA InitInv == Init => IInv
<1> SUFFICES ASSUME Init PROVE IInv
  OBVIOUS
<1>1. TypeInv
  <2>1. /\ project = Projects /\ tags = [r \in Repos |-> {}] /\ known = {} /\ rows = <<>> /\ cache = None
        /\ blobs = [r \in Repos |-> {}] /\ events = <<>> /\ ui = "down" /\ version = 0 /\ pushes = 0
        /\ begun = 0 /\ faults = 0 /\ raced = FALSE /\ batched = FALSE /\ synced = FALSE /\ newest = 0
        /\ overtaken = FALSE /\ req = [o \in Requests |-> Idle]
    BY DEF Init
  <2>2. req \in [Requests -> RequestState]
    BY <2>1, IdleType
  <2>3. rows \in Seq(Repos) /\ IsInjective(rows)
    BY <2>1 DEF IsInjective
  <2>4. pushes \in 0..MaxPushes /\ begun \in 0..MaxRequests /\ faults \in 0..MaxFaults
    BY <2>1, CatalogAssumption
  <2>7. /\ project \in SUBSET Projects /\ tags \in [Repos -> SUBSET Tags] /\ known \in SUBSET Repos
        /\ blobs \in [Repos -> SUBSET Blobs] /\ \A r \in Repos : tags[r] # {} => r \in known
    BY <2>1
  <2>8. events \in Seq([repo : Repos, clean : BOOLEAN]) /\ version \in Nat /\ newest \in Nat
    BY <2>1
  <2>9. raced \in BOOLEAN /\ batched \in BOOLEAN /\ synced \in BOOLEAN /\ overtaken \in BOOLEAN
    BY <2>1
  <2>5. TypeOK
    BY <2>1, <2>2, <2>3, <2>4, <2>7, <2>8, <2>9, Zenon DEF TypeOK
  <2>6. \A o \in Requests : Filled(req[o]) /\ req[o].step = "idle"
    BY <2>1, IdleSound, IdleType DEF Sound
  <2> QED
    BY <2>5, <2>6 DEF TypeInv, AllIdle, At
<1>2. \A o \in Requests : req[o] = Idle
  BY DEF Init
<1>3. rows = <<>> /\ Range(rows) = {} /\ events = <<>> /\ cache = None /\ newest = 0 /\ version = 0
        /\ \A r \in Repos : tags[r] = {}
  BY DEF Init, Range
<1>4. GroundsInv
  <2>1. \A o \in Requests : Sound(req[o])
    BY <1>2, IdleSound
  <2>2. EventsTagged /\ RowsOwned
    BY <1>3 DEF EventsTagged, RowsOwned
  <2> QED
    BY <2>1, <2>2 DEF GroundsInv, Sound
<1>5. RealInv /\ CompleteInv /\ CacheInv
  BY <1>3 DEF RealInv, CompleteInv, CacheInv
<1> QED
  BY <1>1, <1>4, <1>5 DEF IInv

\* A step that changes nothing keeps the invariant.
LEMMA StutterInv ==
  ASSUME IInv, UNCHANGED vars
  PROVE  IInv'
<1>1. /\ UNCHANGED <<project, tags, known, blobs, rows, events, req, version, pushes, begun, faults,
                     raced, batched, synced, newest, overtaken>>
      /\ cache' \in {cache, None} /\ ui' \in {ui, "up"}
  BY DEF vars, registry, history
<1> QED
  BY <1>1, AsideInv

\* Every step keeps the invariant.
LEMMA NextInv == IInv /\ [Next]_vars => IInv'
<1> SUFFICES ASSUME IInv, [Next]_vars PROVE IInv'
  OBVIOUS
<1>1. CASE UNCHANGED vars
  BY <1>1, StutterInv
<1>2. ASSUME NEW r \in Repos, NEW t \in Tags, Push(r, t) PROVE IInv'
  BY <1>2, PushInv
<1>3. ASSUME NEW r \in Repos, RegistryLoses(r) PROVE IInv'
  BY <1>3, RegistryLosesInv
<1>4. CASE Expire \/ Serve \/ Crash
  BY <1>4, ExpireInv, ServeInv, CrashInv
<1>5. ASSUME NEW o \in Requests, NotifyStep(o) PROVE IInv'
  BY <1>5, NotifyInv, NotifyExistsInv, NotifyAddInv, RefreshReadInv, RefreshPutInv, SearchInv
     DEF NotifyStep
<1>6. ASSUME NEW o \in Requests, DeleteStep(o) PROVE IInv'
  BY <1>6, DeleteRepoInv, DeleteTagInv, TagsDeletedInv, DeleteExistInv, DeleteRowInv DEF DeleteStep
<1>7. ASSUME NEW o \in Requests, SyncStep(o) PROVE IInv'
  BY <1>7, SyncRegistryInv, StartInv, SyncRowsInv, SyncDiffInv, SyncAddInv, SyncDelInv, SyncEndsInv
     DEF SyncStep
<1>8. ASSUME NEW o \in Requests, ProjectStep(o) PROVE IInv'
  BY <1>8, ListInv, ProjectDeleteInv, GetPageInv, ListedInv, DeleteProjectInv DEF ProjectStep
<1>9. ASSUME NEW o \in Requests, CopyStep(o) PROVE IInv'
  BY <1>9, CopyRepoInv, CopyCheckInv, BlobsCopiedInv, CopyManifestInv, CopyBlobInv, CopyLostInv
     DEF CopyStep
<1>10. ASSUME NEW o \in Requests, Fails(o) PROVE IInv'
  BY <1>10, FailsInv
<1> QED
  BY <1>1, <1>2, <1>3, <1>4, <1>5, <1>6, <1>7, <1>8, <1>9, <1>10 DEF Next

\* The invariant holds in every reachable state.
LEMMA Invariance == Spec => []IInv
<1>1. Init => IInv
  BY InitInv
<1>2. IInv /\ [Next]_vars => IInv'
  BY NextInv
<1> QED
  BY <1>1, <1>2, PTL DEF Spec

-----------------------------------------------------------------------------
(***************************************************************************)
(* The theorems.                                                           *)
(***************************************************************************)

\* Type correctness: the rows have no name twice, what has a tag is in the registry's catalog, and
\* every request has the fields of its step, in any interleaving of the handlers.
THEOREM TypeCorrect == Spec => []TypeOK
<1>1. IInv => TypeOK
  BY DEF IInv, TypeInv
<1> QED
  BY <1>1, Invariance, PTL

\* Notifications and deletions together: once all is settled every repository with a tag has its
\* row, without faults, races and notifications of several repositories.
THEOREM RowsAlwaysComplete == Spec => []RowsComplete
<1>1. IInv => RowsComplete
  <2> SUFFICES ASSUME IInv, Settled, faults = 0, ~raced, ~batched, NEW r \in InUse
               PROVE  r \in Range(rows)
    BY DEF RowsComplete
  <2>1. CompleteInv /\ r \in Repos /\ tags[r] # {} /\ ProjectOf[r] \in project
    BY DEF IInv, InUse, ProjectExists
  <2>2. \A q \in Requests : req[q].step \notin Notifying
    BY DEF Settled, AllIdle, At, Notifying
  <2>3. DOMAIN events = {}
    BY DEF Settled
  <2> QED
    BY <2>1, <2>2, <2>3 DEF CompleteInv
<1> QED
  BY <1>1, Invariance, PTL

\* RepositoryAPI.Delete, NotificationHandler.Post: once all is settled no row is left of a
\* repository without tags, unless SyncRegistry has changed the rows.
THEOREM RowsAlwaysReal == Spec => []RowsReal
<1>1. IInv => RowsReal
  <2> SUFFICES ASSUME IInv, Settled, faults = 0, ~raced, ~synced, NEW r \in Range(rows)
               PROVE  tags[r] # {}
    BY DEF RowsReal
  <2>1. \A q \in Requests : req[q].step \notin Deleting
    BY DEF Settled, AllIdle, At, Deleting
  <2> QED
    BY <2>1 DEF IInv, RealInv
<1> QED
  BY <1>1, Invariance, PTL

\* SyncRegistry: a comparison that nothing has disturbed leaves the rows that the registry calls
\* for, whatever was wrong before.
THEOREM SyncAlwaysRepairs == Spec => []SyncRepairs
<1>1. IInv => SyncRepairs
  <2> SUFFICES ASSUME IInv, NEW o \in Requests, req[o].step = "synced", req[o].clean
               PROVE  InUse \subseteq Range(rows) /\ Range(rows) \subseteq known
    BY DEF SyncRepairs, At
  <2>1. SyncGrounds(req[o]) /\ req[o].add = {} /\ req[o].del = {}
    BY SoundNow DEF Sound, Grounds, Filled
  <2> QED
    BY <2>1 DEF SyncGrounds, Comparing, InUse, ProjectExists
<1> QED
  BY <1>1, Invariance, PTL

\* RefreshCatalogCache: with no request under way the cache is empty or the rows, unless an older
\* refresh overtook a newer one or SyncRegistry has changed the rows.
THEOREM CacheAlwaysFresh == Spec => []CacheFresh
<1>1. IInv => CacheFresh
  <2> SUFFICES ASSUME IInv, AllIdle, faults = 0, ~overtaken, ~synced, cache # None
               PROVE  cache.repos = rows
    BY DEF CacheFresh
  <2>1. \A q \in Requests : ~Fresh(req[q])
    BY DEF AllIdle, At, Fresh
  <2> QED
    BY <2>1 DEF IInv, CacheInv
<1> QED
  BY <1>1, Invariance, PTL

\* RepositoryAPI.Get, getRepoList: a listing page by page has every repository that was there from
\* start to end exactly once, whatever is added meanwhile and however long a page is.
THEOREM PagesAlwaysComplete == Spec => []PagesComplete
<1>1. IInv => PagesComplete
  <2> SUFFICES ASSUME IInv, NEW o \in Requests, req[o].step = "listed", req[o].clean,
                      NEW r \in req[o].catalog
               PROVE  LET got == req[o].seen.repos
                      IN Cardinality({i \in DOMAIN got : got[i] = r}) = 1
    BY DEF PagesComplete, At
  <2> DEFINE got == req[o].seen.repos
             places == {i \in DOMAIN got : got[i] = r}
  <2>1. Once(r, got)
    BY SoundNow DEF Sound, Grounds, PageGrounds
  <2>2. PICK i \in DOMAIN got : got[i] = r /\ \A j \in DOMAIN got : got[j] = r => j = i
    BY <2>1 DEF Once
  <2>3. places = {i}
    BY <2>2
  <2>4. Cardinality(places) = 1
    BY <2>3, FS_Singleton
  <2> QED
    BY <2>4
<1> QED
  BY <1>1, Invariance, PTL

\* ProjectAPI.Delete: without a race no row belongs to a deleted project.
THEOREM RowsAlwaysOwned == Spec => []RowsOwned
<1>1. IInv => RowsOwned
  BY DEF IInv, GroundsInv
<1> QED
  BY <1>1, Invariance, PTL

\* RepositoryAPI.CopyRepo: a manifest is pushed only to a repository with all its blobs, failures
\* of the checks included.
THEOREM CopyAlwaysComplete == Spec => []CopyComplete
<1>1. IInv => CopyComplete
  <2> SUFFICES ASSUME IInv, NEW o \in Requests, req[o].step = "copy_manifest", req[o].clean
               PROVE  Blobs \subseteq blobs[req[o].repo]
    BY DEF CopyComplete, At
  <2>1. CopyGrounds(req[o]) /\ req[o].blobs = {}
    BY SoundNow DEF Sound, Grounds, Filled
  <2> QED
    BY <2>1 DEF CopyGrounds, Writing
<1> QED
  BY <1>1, Invariance, PTL

\* filterRepositories: where the order of the repositories is that of their projects, a search
\* misses nothing that is in the cache.
THEOREM SearchAlwaysComplete ==
  ASSUME InProjectOrder
  PROVE  Spec => []SearchComplete
<1>1. IInv => SearchComplete
  <2> SUFFICES ASSUME IInv, cache # None
               PROVE  FilterRepositories(Range(cache.repos), project) =
                        {r \in Range(cache.repos) : ProjectExists(r)}
    BY DEF SearchComplete
  <2>1. cache \in CacheEntry /\ project \subseteq Projects
    BY DEF IInv, TypeInv, TypeOK
  <2>2. Range(cache.repos) \subseteq Repos
    BY <2>1 DEF CacheEntry, Range
  <2> QED
    BY <2>1, <2>2, FilterRepositoriesRight DEF ProjectExists
<1> QED
  BY <1>1, Invariance, PTL
=============================================================================
