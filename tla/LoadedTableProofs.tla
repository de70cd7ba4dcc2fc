-------------------------- MODULE LoadedTableProofs --------------------------
(***************************************************************************)
(* Proofs about LoadedTable, for any file, dialects, queries, keys, saved  *)
(* views, batch sizes and number of edits: what a finished export holds,   *)
(* what it leaves at the path, that a file comes back as it was left, that *)
(* a view displays every row it keeps, in order, and that Next and Prev    *)
(* find the nearest match.                                                 *)
(***************************************************************************)
EXTENDS LoadedTable, FiniteSetTheorems, SequenceTheorems, WellFoundedInduction, TLAPS

IsSeq(s) == \E S : s \in Seq(S)

------------------------------------------------------------------------------
(* Order. *)

(* A strict total order on S, as a set of pairs.                            *)
Orders(R, S) ==
  /\ \A x \in S : <<x, x>> \notin R
  /\ \A x, y, z \in S : <<x, y>> \in R /\ <<y, z>> \in R => <<x, z>> \in R
  /\ \A x, y \in S : x = y \/ <<x, y>> \in R \/ <<y, x>> \in R

Under(R, S, x) == {y \in S : <<y, x>> \in R}

(* Counting what is under an element of a finite set numbers the elements   *)
(* in order, from 0 on without a gap.                                       *)
LEMMA Ranked ==
  ASSUME NEW S, IsFiniteSet(S), NEW R, Orders(R, S)
  PROVE  /\ Cardinality(S) \in Nat
         /\ \A x \in S : Cardinality(Under(R, S, x)) \in 0 .. Cardinality(S) - 1
         /\ \A x, y \in S : <<x, y>> \in R <=>
              Cardinality(Under(R, S, x)) < Cardinality(Under(R, S, y))
         /\ \A k \in 0 .. Cardinality(S) - 1 :
              \E x \in S : Cardinality(Under(R, S, x)) = k
<1> DEFINE n == Cardinality(S)
           f == [x \in S |-> Cardinality(Under(R, S, x))]
<1>1. n \in Nat
  BY FS_CardinalityType
<1>2. ASSUME NEW x \in S
      PROVE  IsFiniteSet(Under(R, S, x)) /\ f[x] \in 0 .. n - 1
  <2>1. Under(R, S, x) \in SUBSET (S \ {x})
    BY DEF Under, Orders
  <2>2. IsFiniteSet(S \ {x}) /\ Cardinality(S \ {x}) = n - 1
    BY FS_RemoveElement
  <2>3. /\ IsFiniteSet(Under(R, S, x))
        /\ Cardinality(Under(R, S, x)) <= Cardinality(S \ {x})
    BY <2>1, <2>2, FS_Subset
  <2>4. Cardinality(Under(R, S, x)) \in Nat
    BY <2>3, FS_CardinalityType
  <2>5. QED
    BY <1>1, <2>2, <2>3, <2>4
<1>3. ASSUME NEW x \in S, NEW y \in S, <<x, y>> \in R PROVE f[x] < f[y]
  <2>1. Under(R, S, x) \in SUBSET Under(R, S, y)
    BY <1>3 DEF Under, Orders
  <2>2. x \in Under(R, S, y) /\ x \notin Under(R, S, x)
    BY <1>3 DEF Under, Orders
  <2>3. /\ Cardinality(Under(R, S, x)) <= Cardinality(Under(R, S, y))
        /\ Cardinality(Under(R, S, y)) # Cardinality(Under(R, S, x))
    BY <1>2, <2>1, <2>2, FS_Subset
  <2>4. f[x] \in Nat /\ f[y] \in Nat
    BY <1>2, <1>1
  <2>5. QED
    BY <2>3, <2>4
<1>4. \A x, y \in S : <<x, y>> \in R <=> f[x] < f[y]
  <2>1. ASSUME NEW x \in S, NEW y \in S, f[x] < f[y] PROVE <<x, y>> \in R
    <3>1. f[x] \in Int /\ f[y] \in Int
      BY <1>1, <1>2
    <3>2. ~(<<y, x>> \in R) /\ x # y
      BY <1>3, <2>1, <3>1
    <3>3. QED
      BY <3>2 DEF Orders
  <2>2. QED
    BY <1>3, <2>1
<1>5. ASSUME NEW k \in 0 .. n - 1 PROVE \E x \in S : f[x] = k
  <2>1. f \in [S -> 0 .. n - 1]
    BY <1>2
  <2>2. \A x, y \in S : f[x] = f[y] => x = y
    <3>1. ASSUME NEW x \in S, NEW y \in S, f[x] = f[y] PROVE x = y
      <4>1. f[x] \in Int /\ f[y] \in Int
        BY <1>1, <1>2
      <4>2. ~(f[x] < f[y]) /\ ~(f[y] < f[x])
        BY <3>1, <4>1
      <4>3. QED
        BY <1>3, <4>2 DEF Orders
    <3>2. QED
      BY <3>1
  <2> HIDE DEF f
  <2>3. f \in Injection(S, 0 .. n - 1)
    BY <2>1, <2>2 DEF Injection, IsInjective
  <2>4. IsFiniteSet(0 .. n - 1) /\ Cardinality(0 .. n - 1) = n
    BY <1>1, FS_Interval
  <2> DEFINE T == 0 .. n - 1
  <2>5. IsFiniteSet(T) /\ Cardinality(S) = Cardinality(T)
    BY <2>4
  <2>6. f \in Injection(S, T) /\ k \in T
    BY <2>3
  <2> HIDE DEF T, n
  <2>7. f \in Surjection(S, T)
    BY <2>5, <2>6, FS_Injection, Zenon
  <2>8. QED
    BY <2>6, <2>7 DEF Surjection
<1>6. QED
  BY <1>1, <1>2, <1>4, <1>5

(* A finite set put in order: every element once, each after those before it. *)
Lists(s, S, R) ==
  /\ s \in Seq(S) /\ Len(s) = Cardinality(S) /\ DOMAIN s = 1 .. Cardinality(S)
  /\ Cardinality(S) \in Nat
  /\ \A i \in DOMAIN s : s[i] \in S /\ Cardinality(Under(R, S, s[i])) = i - 1
  /\ \A x \in S : Cardinality(Under(R, S, x)) + 1 \in DOMAIN s
                    /\ s[Cardinality(Under(R, S, x)) + 1] = x
  /\ \A i, j \in DOMAIN s : i < j <=> <<s[i], s[j]>> \in R

LEMMA InOrderLists ==
  ASSUME NEW S, IsFiniteSet(S), NEW R, Orders(R, S)
  PROVE  Lists(InOrder(S, R), S, R)
<1> DEFINE N == Cardinality(S)
           place(x) == Cardinality(Under(R, S, x))
           s == InOrder(S, R)
<1>1. s = [i \in 1 .. N |-> CHOOSE x \in S : place(x) = i - 1]
  BY DEF InOrder, Under
<1> HIDE DEF s
<1>2. /\ N \in Nat /\ \A x \in S : place(x) \in 0 .. N - 1
      /\ \A x, y \in S : <<x, y>> \in R <=> place(x) < place(y)
      /\ \A k \in 0 .. N - 1 : \E x \in S : place(x) = k
  BY Ranked
<1>3. \A x, y \in S : place(x) = place(y) => x = y
  <2> TAKE x, y \in S
  <2> HAVE place(x) = place(y)
  <2>1. place(x) \in Int /\ place(y) \in Int
    BY <1>2
  <2>2. ~(place(x) < place(y)) /\ ~(place(y) < place(x))
    BY <2>1
  <2>3. <<x, y>> \notin R /\ <<y, x>> \notin R
    BY <1>2, <2>2
  <2>4. QED
    BY <2>3 DEF Orders
<1> HIDE DEF place, N
<1>4. ASSUME NEW i \in 1 .. N PROVE s[i] \in S /\ place(s[i]) = i - 1
  <2>1. i - 1 \in 0 .. N - 1
    BY <1>2
  <2>2. \E x \in S : place(x) = i - 1
    BY <1>2, <2>1
  <2>3. s[i] = CHOOSE x \in S : place(x) = i - 1
    BY <1>1
  <2>4. QED
    BY <2>2, <2>3
<1>5. s \in Seq(S) /\ Len(s) = N /\ DOMAIN s = 1 .. N
  <2> DEFINE e(i) == CHOOSE x \in S : place(x) = i - 1
  <2>1. \A i \in 1 .. N : e(i) \in S
    BY <1>1, <1>4
  <2>2. s = [i \in 1 .. N |-> e(i)]
    BY <1>1
  <2> HIDE DEF e
  <2>3. QED
    BY <1>2, <2>1, <2>2
<1>6. ASSUME NEW x \in S PROVE place(x) + 1 \in 1 .. N /\ s[place(x) + 1] = x
  <2>1. place(x) + 1 \in 1 .. N /\ (place(x) + 1) - 1 = place(x)
    BY <1>2
  <2>2. s[place(x) + 1] \in S /\ place(s[place(x) + 1]) = place(x)
    BY <1>4, <2>1
  <2>3. QED
    BY <1>3, <2>1, <2>2
<1>7. ASSUME NEW i \in 1 .. N, NEW j \in 1 .. N PROVE i < j <=> <<s[i], s[j]>> \in R
  <2>1. /\ s[i] \in S /\ s[j] \in S /\ place(s[i]) = i - 1 /\ place(s[j]) = j - 1
    BY <1>4
  <2>2. <<s[i], s[j]>> \in R <=> i - 1 < j - 1
    BY <1>2, <2>1
  <2>3. QED
    BY <2>2
<1>8. QED
  BY <1>2, <1>4, <1>5, <1>6, <1>7 DEF Lists, place, N, s

(* The numbers of a finite set, the lowest first. *)
Lower(S) == {p \in S \X S : p[1] < p[2]}

LEMMA AscendingLists ==
  ASSUME NEW S, IsFiniteSet(S), S \subseteq Int
  PROVE  /\ Lists(Ascending(S), S, Lower(S))
         /\ Ascending(S) \in Seq(S) /\ DOMAIN Ascending(S) = 1 .. Cardinality(S)
         /\ Len(Ascending(S)) = Cardinality(S) /\ Cardinality(S) \in Nat
         /\ \A i, j \in DOMAIN Ascending(S) : i < j <=> Ascending(S)[i] < Ascending(S)[j]
         /\ \A x \in S : \E i \in DOMAIN Ascending(S) : Ascending(S)[i] = x
<1>1. \A x, y \in S : <<x, y>> \in Lower(S) <=> x < y
  BY DEF Lower
<1>2. Orders(Lower(S), S)
  <2>1. \A x \in S : x \in Int
    OBVIOUS
  <2>2. QED
    BY <1>1, <2>1 DEF Orders
<1>3. \A x \in S : {y \in S : <<y, x>> \in Lower(S)} = {y \in S : y < x}
  BY <1>1
<1> DEFINE p(x) == {y \in S : <<y, x>> \in Lower(S)}
           q(x) == {y \in S : y < x}
           e(i) == CHOOSE x \in S : Cardinality(p(x)) = i - 1
           g(i) == CHOOSE x \in S : Cardinality(q(x)) = i - 1
<1>4. \A i : e(i) = g(i)
  <2> TAKE i
  <2> DEFINE P == {x \in S : Cardinality(p(x)) = i - 1}
             Q == {x \in S : Cardinality(q(x)) = i - 1}
  <2>1. P = Q
    BY <1>3
  <2>2. e(i) = CHOOSE x : x \in P
    OBVIOUS
  <2>3. g(i) = CHOOSE x : x \in Q
    OBVIOUS
  <2> HIDE DEF P, Q
  <2>4. QED
    BY <2>1, <2>2, <2>3, Zenon
<1>5. Ascending(S) = [i \in 1 .. Cardinality(S) |-> g(i)]
  BY DEF Ascending
<1>6. InOrder(S, Lower(S)) = [i \in 1 .. Cardinality(S) |-> e(i)]
  BY DEF InOrder
<1> HIDE DEF e, g
<1>7. Ascending(S) = InOrder(S, Lower(S))
  BY <1>4, <1>5, <1>6
<1>8. Lists(Ascending(S), S, Lower(S))
  BY <1>2, <1>7, InOrderLists
<1>9. \A i, j \in DOMAIN Ascending(S) : i < j <=> Ascending(S)[i] < Ascending(S)[j]
  BY <1>1, <1>8 DEF Lists
<1>10. \A x \in S : \E i \in DOMAIN Ascending(S) : Ascending(S)[i] = x
  BY <1>8 DEF Lists
<1>11. QED
  BY <1>8, <1>9, <1>10 DEF Lists

(* Every element of a finite set, once.                                     *)
Once(s, S) ==
  /\ s \in Seq(S) /\ Len(s) = Cardinality(S) /\ DOMAIN s = 1 .. Cardinality(S)
  /\ Cardinality(S) \in Nat
  /\ \A x \in S : \E i \in DOMAIN s : s[i] = x
  /\ \A i, j \in DOMAIN s : s[i] = s[j] => i = j

LEMMA ListsOnce ==
  ASSUME NEW S, NEW R, NEW s, Lists(s, S, R)
  PROVE  Once(s, S)
<1>1. \A x \in S : \E i \in DOMAIN s : s[i] = x
  BY DEF Lists
<1>2. ASSUME NEW i \in DOMAIN s, NEW j \in DOMAIN s, s[i] = s[j] PROVE i = j
  <2>1. Cardinality(Under(R, S, s[i])) = i - 1 /\ Cardinality(Under(R, S, s[j])) = j - 1
    BY DEF Lists
  <2>2. i \in Int /\ j \in Int
    BY DEF Lists
  <2>3. i - 1 = j - 1
    BY <1>2, <2>1
  <2>4. QED
    BY <2>2, <2>3
<1>3. QED
  BY <1>1, <1>2 DEF Lists, Once

(* compare_keys never has each of two keys before the other.                *)
LEMMA LessOneWay ==
  ASSUME NEW a \in Parsed, NEW b \in Parsed
  PROVE  ~(Less(a, b) /\ Less(b, a)) /\ ~Less(a, a)
BY DEF Parsed, Less

(* Keys that contradict each other nowhere put the rows in one order, with  *)
(* the ties among them in file order.                                       *)
LEMMA OrderlyOrders ==
  ASSUME NEW S, S \subseteq Int, NEW key, \A r \in S : key[r] \in Parsed,
         Orderly(key, S), NEW up \in BOOLEAN
  PROVE  Orders({p \in S \X S : Precedes(key, up, p[1], p[2])}, S)
<1> DEFINE R == {p \in S \X S : Precedes(key, up, p[1], p[2])}
           L == {p \in S \X S : Less(key[p[1]], key[p[2]])}
<1>1. \A a, b \in S : <<a, b>> \in L <=> Less(key[a], key[b])
  OBVIOUS
<1>2. \A a, b \in S : <<a, b>> \in R <=>
        \/ up /\ <<a, b>> \in L
        \/ ~up /\ <<b, a>> \in L
        \/ <<a, b>> \notin L /\ <<b, a>> \notin L /\ a < b
  BY <1>1 DEF Precedes
<1>3. \A a, b \in S : <<a, b>> \in L => <<b, a>> \notin L
  BY <1>1, LessOneWay
<1>4. \A a, b, c \in S : <<a, b>> \in L => <<a, c>> \in L \/ <<c, b>> \in L
  BY <1>1 DEF Orderly
<1>5. \A a \in S : a \in Int
  OBVIOUS
<1> HIDE DEF R, L
<1>6. \A x \in S : <<x, x>> \notin R
  BY <1>2, <1>3, <1>5
<1>7. ASSUME NEW x \in S, NEW y \in S, NEW z \in S, <<x, y>> \in R, <<y, z>> \in R
      PROVE  <<x, z>> \in R
  <2>1. x \in Int /\ y \in Int /\ z \in Int
    BY <1>5
  <2>2. /\ <<x, y>> \in L => <<x, z>> \in L \/ <<z, y>> \in L
        /\ <<y, z>> \in L => <<y, x>> \in L \/ <<x, z>> \in L
        /\ <<y, x>> \in L => <<y, z>> \in L \/ <<z, x>> \in L
        /\ <<z, y>> \in L => <<z, x>> \in L \/ <<x, y>> \in L
        /\ <<x, z>> \in L => <<x, y>> \in L \/ <<y, z>> \in L
        /\ <<z, x>> \in L => <<z, y>> \in L \/ <<y, x>> \in L
    BY <1>4
  <2>3. /\ <<x, y>> \in L => <<y, x>> \notin L
        /\ <<y, z>> \in L => <<z, y>> \notin L
        /\ <<x, z>> \in L => <<z, x>> \notin L
    BY <1>3
  <2>4. QED
    BY <1>2, <1>7, <2>1, <2>2, <2>3
<1>8. ASSUME NEW x \in S, NEW y \in S, x # y PROVE <<x, y>> \in R \/ <<y, x>> \in R
  <2>1. x < y \/ y < x
    BY <1>5, <1>8
  <2>2. CASE <<x, y>> \in L \/ <<y, x>> \in L
    BY <1>2, <2>2
  <2>3. CASE <<x, y>> \notin L /\ <<y, x>> \notin L
    BY <1>2, <2>1, <2>3
  <2>4. QED
    BY <2>2, <2>3
<1>9. QED
  BY <1>6, <1>7, <1>8 DEF Orders, R

(* sort_by keeps every row once; in the order of the keys, if these have    *)
(* one.                                                                     *)
LEMMA SortByLists ==
  ASSUME NEW S, IsFiniteSet(S), S \subseteq Int, NEW key, \A r \in S : key[r] \in Parsed,
         NEW up \in BOOLEAN
  PROVE  LET s == SortBy(S, key, up)
         IN  /\ Once(s, S)
             /\ Orderly(key, S) =>
                  \A i, j \in DOMAIN s : i < j <=> Precedes(key, up, s[i], s[j])
<1> DEFINE R == {p \in S \X S : Precedes(key, up, p[1], p[2])}
           N == Cardinality(S)
           Whole(s) == \A row \in S : \E i \in DOMAIN s : s[i] = row
<1>1. CASE Orderly(key, S)
  <2>1. SortBy(S, key, up) = InOrder(S, R)
    BY <1>1 DEF SortBy
  <2>2. Orders(R, S)
    BY <1>1, OrderlyOrders
  <2>3. \A x, y \in S : <<x, y>> \in R <=> Precedes(key, up, x, y)
    OBVIOUS
  <2> HIDE DEF R
  <2>4. Lists(InOrder(S, R), S, R)
    BY <2>2, InOrderLists
  <2>5. Once(InOrder(S, R), S)
    BY <2>4, ListsOnce
  <2> DEFINE s == InOrder(S, R)
  <2>6. \A i, j \in DOMAIN s : s[i] \in S /\ s[j] \in S /\ (i < j <=> <<s[i], s[j]>> \in R)
    BY <2>4 DEF Lists
  <2> HIDE DEF s
  <2>7. \A i, j \in DOMAIN s : i < j <=> Precedes(key, up, s[i], s[j])
    BY <2>3, <2>6
  <2>8. QED
    BY <2>1, <2>5, <2>7 DEF s
<1>2. CASE ~Orderly(key, S)
  <2> DEFINE s == CHOOSE s \in [1 .. N -> S] : Whole(s)
  <2>1. SortBy(S, key, up) = s
    BY <1>2 DEF SortBy
  <2>2. N \in Nat /\ Once(Ascending(S), S)
    BY AscendingLists, ListsOnce
  <2>3. Ascending(S) \in [1 .. N -> S] /\ Whole(Ascending(S))
    BY <2>2 DEF Once
  <2> HIDE DEF Whole, N
  <2>4. s \in [1 .. N -> S] /\ Whole(s)
    BY <2>3
  <2> HIDE DEF s
  <2>5. s \in Seq(S) /\ Len(s) = N /\ DOMAIN s = 1 .. N
    BY <2>2, <2>4
  <2>6. \A i, j \in DOMAIN s : s[i] = s[j] => i = j
    <3> DEFINE D == 1 .. N
    <3>1. IsFiniteSet(D) /\ Cardinality(D) = N
      BY <2>2, FS_Interval
    <3>2. s \in Surjection(D, S)
      BY <2>4, <2>5 DEF Surjection, Whole
    <3> HIDE DEF D
    <3>3. s \in Injection(D, S)
      BY <3>1, <3>2, FS_SurjSameCardinalityImpliesInj DEF N
    <3>4. \A i, j \in D : s[i] = s[j] => i = j
      BY <3>3 DEF Injection, IsInjective
    <3>5. QED
      BY <2>5, <3>4 DEF D
  <2>7. Once(s, S)
    BY <2>2, <2>4, <2>5, <2>6 DEF Once, Whole, N
  <2>8. QED
    BY <1>2, <2>1, <2>7
<1>3. QED
  BY <1>1, <1>2

(* Whatever is sorted comes out as a sequence of the same length.           *)
LEMMA SortBySeq ==
  ASSUME NEW S, IsFiniteSet(S), S \subseteq Int, NEW key, NEW up
  PROVE  IsSeq(SortBy(S, key, up)) /\ Len(SortBy(S, key, up)) = Cardinality(S)
<1> DEFINE N == Cardinality(S)
           R == {p \in S \X S : Precedes(key, up, p[1], p[2])}
           Whole(s) == \A row \in S : \E i \in DOMAIN s : s[i] = row
<1>1. N \in Nat /\ Once(Ascending(S), S)
  BY AscendingLists, ListsOnce
<1>2. CASE Orderly(key, S)
  <2> DEFINE e(i) == CHOOSE x \in S : Cardinality({y \in S : <<y, x>> \in R}) = i - 1
             E == {e(i) : i \in 1 .. N}
  <2>1. SortBy(S, key, up) = [i \in 1 .. N |-> e(i)]
    BY <1>2 DEF SortBy, InOrder
  <2>2. \A i \in 1 .. N : e(i) \in E
    OBVIOUS
  <2> HIDE DEF e, E, N
  <2>3. SortBy(S, key, up) \in Seq(E) /\ Len(SortBy(S, key, up)) = N
    BY <1>1, <2>1, <2>2
  <2>4. QED
    BY <2>3 DEF IsSeq, N
<1>3. CASE ~Orderly(key, S)
  <2>1. SortBy(S, key, up) = CHOOSE s \in [1 .. N -> S] : Whole(s)
    BY <1>3 DEF SortBy
  <2>2. Ascending(S) \in [1 .. N -> S] /\ Whole(Ascending(S))
    BY <1>1 DEF Once
  <2> HIDE DEF Whole, N
  <2>3. SortBy(S, key, up) \in [1 .. N -> S]
    BY <2>1, <2>2
  <2>4. SortBy(S, key, up) \in Seq(S) /\ Len(SortBy(S, key, up)) = N
    BY <1>1, <2>3
  <2>5. QED
    BY <2>4 DEF IsSeq, N
<1>4. QED
  BY <1>2, <1>3

------------------------------------------------------------------------------
(* The rows of a view. *)

LEMMA DataRowsType == ASSUME NEW d PROVE DataRows(d) \in Nat
BY FileAssumption DEF DataRows, HeaderRows

LEMMA KeptFinite ==
  ASSUME NEW d, NEW view
  PROVE  /\ IsFiniteSet(Kept(d, view)) /\ Kept(d, view) \subseteq Int
         /\ Cardinality(Kept(d, view)) \in Nat
         /\ view.query = NoQuery => Cardinality(Kept(d, view)) = DataRows(d)
<1>1. IsFiniteSet(0 .. DataRows(d) - 1) /\ Cardinality(0 .. DataRows(d) - 1) = DataRows(d)
  BY DataRowsType, FS_Interval
<1>2. Kept(d, view) \subseteq 0 .. DataRows(d) - 1
  BY DEF Kept
<1>3. view.query = NoQuery => Kept(d, view) = 0 .. DataRows(d) - 1
  BY DEF Kept
<1>4. QED
  BY <1>1, <1>2, <1>3, FS_Subset, FS_CardinalityType

(* A view is a sequence, as long as there are rows to keep.                 *)
LEMMA BuildSeq ==
  ASSUME NEW d, NEW view
  PROVE  IsSeq(Build(d, view)) /\ Len(Build(d, view)) = Cardinality(Kept(d, view))
<1> DEFINE K == Kept(d, view)
<1>1. IsFiniteSet(K) /\ K \subseteq Int
  BY KeptFinite
<1>2. CASE view.sort = None
  <2>1. Ascending(K) \in Seq(K) /\ Len(Ascending(K)) = Cardinality(K)
    BY <1>1, AscendingLists
  <2>2. QED
    BY <1>2, <2>1 DEF Build, IsSeq
<1>3. CASE view.sort # None
  <2>1. Build(d, view) = SortBy(K, SortedBy(d, view.sort), view.sort.ascending)
    BY <1>3 DEF Build
  <2> HIDE DEF K
  <2>2. QED
    BY <1>1, <2>1, SortBySeq DEF K
<1>4. QED
  BY <1>2, <1>3

(* Without filter and sort the rows are in the order of the file.           *)
LEMMA BuildIdentity ==
  ASSUME NEW d
  PROVE  Build(d, Identity) = Everything(d)
<1> DEFINE n == DataRows(d)
           S == 0 .. n - 1
           below(row) == {y \in S : y < row}
<1>1. n \in Nat
  BY DataRowsType
<1>2. Build(d, Identity) = Ascending(S) /\ Cardinality(S) = n
  <2>1. Kept(d, Identity) = S
    BY DEF Kept, Identity
  <2>2. Identity.sort = None
    BY DEF Identity
  <2>3. Build(d, Identity) = Ascending(S)
    BY <2>1, <2>2 DEF Build
  <2>4. Cardinality(S) = n
    BY <1>1, FS_Interval
  <2>5. QED
    BY <2>3, <2>4
<1>3. \A row \in S : Cardinality(below(row)) = row
  <2> SUFFICES ASSUME NEW row \in S PROVE Cardinality(below(row)) = row
    OBVIOUS
  <2>1. below(row) = 0 .. row - 1
    BY <1>1
  <2>2. Cardinality(0 .. row - 1) = row
    BY <1>1, FS_Interval
  <2>3. QED
    BY <2>1, <2>2
<1> DEFINE e(i) == CHOOSE x \in S : Cardinality(below(x)) = i - 1
<1>4. Ascending(S) = [i \in 1 .. Cardinality(S) |-> e(i)]
  BY DEF Ascending
<1>5. ASSUME NEW i \in 1 .. n PROVE e(i) = i - 1
  <2>1. i - 1 \in S /\ Cardinality(below(i - 1)) = i - 1
    BY <1>1, <1>3
  <2> HIDE DEF below
  <2>2. e(i) \in S /\ Cardinality(below(e(i))) = i - 1
    BY <2>1
  <2>3. QED
    BY <1>3, <2>2
<1> HIDE DEF e, S
<1>6. QED
  BY <1>2, <1>4, <1>5 DEF Everything

(* What fetch and fetch_source return are parts of these sequences.         *)
LEMMA EverythingSeq ==
  ASSUME NEW d PROVE Everything(d) \in Seq(Nat) /\ Len(Everything(d)) = DataRows(d)
BY DataRowsType DEF Everything

LEMMA FetchSourcePart ==
  ASSUME NEW t, NEW k \in Nat, NEW len \in Nat, k + len <= DataRows(t.dialect)
  PROVE  FetchSource(t, k, len) = SubSeq(Everything(t.dialect), k + 1, k + len)
<1>1. FetchSource(t, k, len) = [i \in 1 .. len |-> k + i - 1]
  <2>1. DataRows(t.dialect) \in Nat
    BY DataRowsType
  <2>2. \A i \in 1 .. len : k + i <= DataRows(t.dialect)
    BY <2>1
  <2>3. QED
    BY <2>2 DEF FetchSource
<1>2. SubSeq(Everything(t.dialect), k + 1, k + len) = [i \in 1 .. len |-> Everything(t.dialect)[k + i]]
  BY EverythingSeq, DataRowsType
<1>3. \A i \in 1 .. len : Everything(t.dialect)[k + i] = k + i - 1
  BY DataRowsType DEF Everything
<1>4. QED
  BY <1>1, <1>2, <1>3

LEMMA FetchPart ==
  ASSUME NEW t, NEW k \in Nat, NEW len \in Nat, k + len <= Len(Build(t.dialect, t.shown))
  PROVE  Fetch(t, k, len) = SubSeq(Build(t.dialect, t.shown), k + 1, k + len)
<1>1. CASE t.shown = Identity
  <2>1. Build(t.dialect, t.shown) = Everything(t.dialect)
    BY <1>1, BuildIdentity
  <2>2. QED
    BY <1>1, <2>1, EverythingSeq, FetchSourcePart DEF Fetch
<1>2. CASE t.shown # Identity
  <2>1. Minimum(k + len, Len(Build(t.dialect, t.shown))) = k + len
    BY DEF Minimum
  <2>2. QED
    BY <1>2, <2>1 DEF Fetch
<1>3. QED
  BY <1>1, <1>2

(* A prefix and the part that follows it are a longer prefix.               *)
LEMMA PrefixGrows ==
  ASSUME NEW S, NEW s \in Seq(S), NEW k \in Nat, NEW len \in Nat, k + len <= Len(s)
  PROVE  SubSeq(s, 1, k) \o SubSeq(s, k + 1, k + len) = SubSeq(s, 1, k + len)
<1>1. /\ SubSeq(s, 1, k) \in Seq(S) /\ Len(SubSeq(s, 1, k)) = k
      /\ SubSeq(s, k + 1, k + len) \in Seq(S) /\ Len(SubSeq(s, k + 1, k + len)) = len
      /\ SubSeq(s, 1, k + len) \in Seq(S) /\ Len(SubSeq(s, 1, k + len)) = k + len
  BY SubSeqProperties
<1>2. \A i \in 1 .. k : SubSeq(s, 1, k)[i] = s[i]
  OBVIOUS
<1>3. \A i \in 1 .. len : SubSeq(s, k + 1, k + len)[i] = s[k + i]
  OBVIOUS
<1>4. \A i \in 1 .. k + len : SubSeq(s, 1, k + len)[i] = s[i]
  OBVIOUS
<1> DEFINE both == SubSeq(s, 1, k) \o SubSeq(s, k + 1, k + len)
<1>5. both \in Seq(S) /\ Len(both) = k + len
  BY <1>1
<1>6. \A i \in 1 .. k + len : both[i] = s[i]
  BY <1>1, <1>2, <1>3
<1> HIDE DEF both
<1>7. both = SubSeq(s, 1, k + len)
  BY <1>1, <1>4, <1>5, <1>6, SeqEqual
<1>8. QED
  BY <1>7 DEF both

------------------------------------------------------------------------------
(* The inductive invariant. *)

CtlFields ==
  {"table", "dialect", "auto", "search", "filter", "sort", "applied", "error",
   "lead", "width", "visible"}
CtlShape(c) == c = [x \in CtlFields |-> c[x]]

TableFields == {"dialect", "indexed", "frontier", "asked", "shown"}
TableShape(t) == t = [x \in TableFields |-> t[x]]

ExportFields ==
  {"table", "scope", "phase", "total", "written", "cancelled", "shown", "steady"}
ExportShape(e) == e = [x \in ExportFields |-> e[x]]

(* The table on screen is there.                                            *)
OnScreen(c, ts) == c.table \in DOMAIN ts /\ TableShape(ts[c.table])

CtlOk ==
  /\ CtlShape(ctl) /\ IsSeq(tables)
  /\ InUse => OnScreen(ctl, tables)

(* A frame without edits leaves nothing to apply, and nothing to save.      *)
QuietOk ==
  InUse /\ quiet => Desired(ctl) = ctl.applied /\ disk = Snapshot(ctl)

(* What was left is on disk until a file is opened.                         *)
LeftOk ==
  ~InUse /\ left # None =>
    /\ disk = left
    /\ left.view = [query |-> left.view.query, sort |-> left.view.sort]

(* What the export is to write.                                             *)
Whole(e) ==
  IF e.scope = "view" THEN Build(tables[e.table].dialect, e.shown)
  ELSE Everything(tables[e.table].dialect)

(* The cases in which its row count is that of what it writes.              *)
Counts(e) == e.scope = "view" \/ e.shown.query = NoQuery

(* As long as the display stays the same, an export counts its rows when    *)
(* the count is exact, and has written a prefix of them.                    *)
ExportRight(e) ==
  LET t == tables[e.table]
  IN  /\ t.shown = e.shown
      /\ e.phase = "create" => e.written = <<>> /\ (e.shown # Identity \/ t.indexed = TRUE)
      /\ e.phase = "batch" => e.total = Len(Build(t.dialect, e.shown))
      /\ e.phase = "batch" /\ Counts(e) =>
           \E k \in 0 .. e.total : e.written = SubSeq(Whole(e), 1, k)
      /\ e.phase = "ok" /\ Counts(e) => e.written = Whole(e)

ExportOk ==
  /\ ExportShape(export)
  /\ export.phase \in {"none", "create", "batch", "ok", "err"}
  /\ export.table = 0 <=> export.phase = "none"
  /\ export.table # 0 =>
       /\ export.scope \in {"view", "source"}
       /\ OnScreen(export, tables)
       /\ export.steady = TRUE => ExportRight(export)

IInv == CtlOk /\ QuietOk /\ LeftOk /\ ExportOk /\ NoTruncatedFile

LEMMA InitIInv == Init => IInv
<1> SUFFICES ASSUME Init PROVE IInv
  OBVIOUS
<1>1. ctl.table = 0 /\ CtlShape(ctl)
  BY DEF Init, Closed, Fresh, CtlShape, CtlFields
<1>2. IsSeq(tables)
  <2>1. tables \in Seq({})
    BY DEF Init
  <2>2. QED
    BY <2>1 DEF IsSeq
<1>3. export.table = 0 /\ export.phase = "none" /\ ExportShape(export)
  BY DEF Init, NoExport, ExportShape, ExportFields
<1>4. left = None /\ file = "other"
  BY DEF Init
<1>5. QED
  BY <1>1, <1>2, <1>3, <1>4
     DEF IInv, CtlOk, QuietOk, LeftOk, ExportOk, NoTruncatedFile, InUse

------------------------------------------------------------------------------
(* The tables. *)

(* Another view changes only what is asked for and shown.                   *)
LEMMA SetViewShape ==
  ASSUME NEW t, TableShape(t), NEW view
  PROVE  /\ TableShape(SetView(t, view))
         /\ SetView(t, view).dialect = t.dialect /\ SetView(t, view).indexed = t.indexed
<1>1. \A v : LET u == [t EXCEPT !.asked = v] IN
        TableShape(u) /\ u.dialect = t.dialect /\ u.indexed = t.indexed
  BY DEF TableShape, TableFields
<1>2. \A v : LET u == [t EXCEPT !.asked = v, !.shown = v] IN
        TableShape(u) /\ u.dialect = t.dialect /\ u.indexed = t.indexed
  BY DEF TableShape, TableFields
<1>3. QED
  BY <1>1, <1>2 DEF SetView

(* ts has the tables there were, with the same dialects, and at least as    *)
(* far indexed.                                                             *)
Grown(ts) ==
  /\ IsSeq(ts)
  /\ \A k \in DOMAIN tables : TableShape(tables[k]) =>
       /\ k \in DOMAIN ts /\ TableShape(ts[k])
       /\ ts[k].dialect = tables[k].dialect
       /\ tables[k].indexed = TRUE => ts[k].indexed = TRUE

LEMMA SeqChanged ==
  ASSUME NEW s, IsSeq(s), NEW k \in DOMAIN s, NEW x
  PROVE  LET u == [s EXCEPT ![k] = x] IN
           /\ IsSeq(u) /\ DOMAIN u = DOMAIN s
           /\ \A i \in DOMAIN s : u[i] = IF i = k THEN x ELSE s[i]
<1>1. PICK S : s \in Seq(S)
  BY DEF IsSeq
<1>2. s \in Seq(S \cup {x})
  BY <1>1
<1>3. [s EXCEPT ![k] = x] \in Seq(S \cup {x})
  BY <1>2
<1>4. QED
  BY <1>1, <1>3 DEF IsSeq

LEMMA SeqAppended ==
  ASSUME NEW s, IsSeq(s), NEW x
  PROVE  LET u == Append(s, x) IN
           /\ IsSeq(u) /\ Len(s) + 1 \in DOMAIN u /\ DOMAIN s \subseteq DOMAIN u
           /\ 0 \notin DOMAIN u /\ Len(s) + 1 \notin DOMAIN s
           /\ \A i \in DOMAIN s : u[i] = s[i]
           /\ u[Len(s) + 1] = x
<1>1. PICK S : s \in Seq(S)
  BY DEF IsSeq
<1>2. s \in Seq(S \cup {x})
  BY <1>1
<1>3. Append(s, x) \in Seq(S \cup {x})
  BY <1>2
<1>4. QED
  BY <1>2, <1>3 DEF IsSeq

LEMMA NoTableZero == ASSUME NEW s, IsSeq(s) PROVE 0 \notin DOMAIN s
BY DEF IsSeq

(* Referred keeps the tables in use.                                        *)
LEMMA ReferredKeeps ==
  ASSUME NEW ts, IsSeq(ts), NEW c, NEW jobs
  PROVE  LET us == Referred(ts, c, jobs) IN
           /\ IsSeq(us) /\ DOMAIN us = DOMAIN ts
           /\ \A k \in DOMAIN ts : k = c.table \/ (\E j \in jobs : j.table = k) => us[k] = ts[k]
<1> DEFINE us == Referred(ts, c, jobs)
<1>1. PICK S : ts \in Seq(S)
  BY DEF IsSeq
<1>2. us \in Seq(S \cup {None})
  BY <1>1 DEF Referred
<1>3. DOMAIN us = DOMAIN ts
  BY DEF Referred
<1>4. \A k \in DOMAIN ts : k = c.table \/ (\E j \in jobs : j.table = k) => us[k] = ts[k]
  BY DEF Referred
<1>5. QED
  BY <1>2, <1>3, <1>4 DEF IsSeq

(* The export holds its promise while the tables go on, whether its display *)
(* is disturbed or not.                                                     *)
LEMMA ExportSurvives ==
  ASSUME ExportOk, NEW ts, Grown(ts), export' = Disturbed(export, ts),
         export.table # 0 =>
           export.table \in DOMAIN tables' /\ tables'[export.table] = ts[export.table]
  PROVE  ExportOk' /\ export'.table = export.table /\ export'.phase = export.phase
<1>1. CASE export.table = 0
  BY <1>1 DEF Disturbed, ExportOk
<1>2. CASE export.table # 0
  <2> DEFINE t == tables[export.table]
             u == ts[export.table]
  <2>1. OnScreen(export, tables) /\ ExportShape(export)
    BY <1>2 DEF ExportOk
  <2>2. /\ export.table \in DOMAIN tables' /\ tables'[export.table] = u
        /\ TableShape(u) /\ u.dialect = t.dialect /\ (t.indexed = TRUE => u.indexed = TRUE)
    BY <1>2, <2>1 DEF Grown, OnScreen
  <2>3. CASE u.shown # t.shown
    <3>1. export' = [export EXCEPT !.steady = FALSE]
      BY <1>2, <2>3 DEF Disturbed
    <3>2. /\ ExportShape(export') /\ export'.table = export.table /\ export'.phase = export.phase
          /\ export'.scope = export.scope /\ export'.steady = FALSE
      BY <2>1, <3>1 DEF ExportShape, ExportFields
    <3>3. QED
      BY <1>2, <2>2, <3>2 DEF ExportOk, OnScreen
  <2>4. CASE u.shown = t.shown
    <3>1. export' = export
      BY <1>2, <2>4 DEF Disturbed
    <3>2. Whole(export)' = Whole(export)
      BY <2>2, <3>1 DEF Whole
    <3>3. ExportRight(export) => ExportRight(export)'
      BY <2>2, <2>4, <3>1, <3>2 DEF ExportRight, Counts
    <3>4. QED
      BY <1>2, <2>2, <3>1, <3>3 DEF ExportOk, OnScreen
  <2>5. QED
    BY <2>3, <2>4
<1>3. QED
  BY <1>1, <1>2

(* The controls and the histories when only tables change.                  *)
LEMMA TablesStep ==
  ASSUME IInv, Grown(tables'), export' = Disturbed(export, tables'),
         UNCHANGED <<ctl, file, disk, left, quiet>>
  PROVE  IInv'
<1>1. ExportOk' /\ export'.phase = export.phase
  <2>1. export.table # 0 => export.table \in DOMAIN tables'
    BY DEF IInv, ExportOk, OnScreen, Grown
  <2>2. QED
    BY <2>1, ExportSurvives DEF IInv
<1>2. CtlOk'
  BY DEF IInv, CtlOk, InUse, OnScreen, Grown
<1>3. QuietOk' /\ LeftOk'
  BY DEF IInv, QuietOk, LeftOk, InUse
<1>4. NoTruncatedFile'
  BY <1>1 DEF IInv, NoTruncatedFile, ExportRunning
<1>5. QED
  BY <1>1, <1>2, <1>3, <1>4 DEF IInv

LEMMA IndexStep ==
  IInv /\ (\E k \in 1 .. Len(tables) : IndexGrows(k) \/ IndexLands(k)) => IInv'
<1> SUFFICES ASSUME IInv, NEW k \in 1 .. Len(tables), IndexGrows(k) \/ IndexLands(k)
             PROVE IInv'
  OBVIOUS
<1>1. IsSeq(tables) /\ k \in DOMAIN tables
  BY DEF IInv, CtlOk, IsSeq
<1>2. PICK x : /\ tables' = [tables EXCEPT ![k] = x]
               /\ TableShape(tables[k]) =>
                    /\ TableShape(x) /\ x.dialect = tables[k].dialect
                    /\ x.shown = tables[k].shown
                    /\ tables[k].indexed = TRUE => x.indexed = TRUE
  <2>1. CASE IndexGrows(k)
    <3> DEFINE x == [tables[k] EXCEPT !.frontier = tables[k].frontier + IndexBatch]
    <3>1. tables' = [tables EXCEPT ![k] = x]
      BY <2>1 DEF IndexGrows
    <3>2. TableShape(tables[k]) =>
            /\ TableShape(x) /\ x.dialect = tables[k].dialect
            /\ x.shown = tables[k].shown /\ x.indexed = tables[k].indexed
      BY DEF TableShape, TableFields
    <3>3. QED
      BY <3>1, <3>2
  <2>2. CASE IndexLands(k)
    <3> DEFINE x == [tables[k] EXCEPT !.indexed = TRUE, !.frontier = Records]
    <3>1. tables' = [tables EXCEPT ![k] = x]
      BY <1>1, <2>2 DEF IndexLands
    <3>2. TableShape(tables[k]) =>
            /\ TableShape(x) /\ x.dialect = tables[k].dialect
            /\ x.shown = tables[k].shown /\ x.indexed = TRUE
      BY DEF TableShape, TableFields
    <3>3. QED
      BY <3>1, <3>2
  <2>3. QED
    BY <2>1, <2>2
<1>3. Grown(tables') /\ \A i \in DOMAIN tables : TableShape(tables[i]) => tables'[i].shown = tables[i].shown
  BY <1>1, <1>2, SeqChanged DEF Grown
<1>4. UNCHANGED <<ctl, export, file, disk, left, quiet>>
  BY DEF IndexGrows, IndexLands
<1>5. export' = Disturbed(export, tables')
  BY <1>3, <1>4 DEF Disturbed, IInv, ExportOk, OnScreen
<1>6. QED
  BY <1>3, <1>4, <1>5, TablesStep

LEMMA ViewLandsStep == IInv /\ (\E k \in 1 .. Len(tables) : ViewLands(k)) => IInv'
<1> SUFFICES ASSUME IInv, NEW k \in 1 .. Len(tables), ViewLands(k) PROVE IInv'
  OBVIOUS
<1> DEFINE x == [tables[k] EXCEPT !.shown = tables[k].asked]
<1>1. IsSeq(tables) /\ k \in DOMAIN tables
  BY DEF IInv, CtlOk, IsSeq
<1>2. tables' = [tables EXCEPT ![k] = x]
  BY DEF ViewLands
<1>3. TableShape(tables[k]) =>
        /\ TableShape(x) /\ x.dialect = tables[k].dialect /\ x.indexed = tables[k].indexed
  BY DEF TableShape, TableFields
<1>4. Grown(tables')
  BY <1>1, <1>2, <1>3, SeqChanged DEF Grown
<1>5. QED
  BY <1>4, TablesStep DEF ViewLands

LEMMA FindWindowStep == IInv /\ FindWindow => IInv'
<1> SUFFICES ASSUME IInv, FindWindow PROVE IInv'
  OBVIOUS
<1>1. Grown(tables')
  BY DEF Grown, FindWindow, IInv, CtlOk
<1>2. export' = Disturbed(export, tables')
  BY DEF FindWindow, Disturbed
<1>3. QED
  BY <1>1, <1>2, TablesStep DEF FindWindow

------------------------------------------------------------------------------
(* The export. *)

(* A step of the export: the rest of the invariant is not touched.          *)
LEMMA ExportGoesStep ==
  ASSUME IInv, NEW job, NEW path, ExportGoes(job, path), ExportRunning,
         ExportShape(job), job.phase \in {"create", "batch", "ok", "err"},
         job.table = export.table, job.scope = export.scope,
         export.steady = TRUE /\ job.steady = TRUE /\ ExportRight(export) => ExportRight(job),
         job.steady = export.steady,
         path = "partial" => job.phase = "batch",
         job.phase = "ok" => path = "whole"
  PROVE  IInv'
<1>1. UNCHANGED <<ctl, tables, find, disk, left, quiet>> /\ export' = job /\ file' = path
  BY DEF ExportGoes
<1>2. export.table # 0
  BY DEF IInv, ExportOk, ExportRunning
<1>3. ExportRight(job)' = ExportRight(job)
  BY <1>1 DEF ExportRight, Whole
<1>4. ExportOk'
  BY <1>1, <1>2, <1>3 DEF IInv, ExportOk, OnScreen
<1>5. CtlOk' /\ QuietOk' /\ LeftOk'
  BY <1>1 DEF IInv, CtlOk, QuietOk, LeftOk, OnScreen, InUse
<1>6. NoTruncatedFile'
  BY <1>1 DEF NoTruncatedFile, ExportRunning
<1>7. QED
  BY <1>4, <1>5, <1>6 DEF IInv

(* The rows of an exact count are those of the view displayed.              *)
LEMMA ExactCount ==
  ASSUME NEW t, t.shown # Identity \/ t.indexed = TRUE
  PROVE  RowCount(t).exact = TRUE /\ RowCount(t).rows = Len(Build(t.dialect, t.shown))
<1>1. CASE t.shown # Identity
  BY <1>1 DEF RowCount
<1>2. CASE t.shown = Identity
  <2>1. Len(Build(t.dialect, t.shown)) = DataRows(t.dialect)
    BY <1>2, BuildIdentity, EverythingSeq
  <2>2. QED
    BY <1>2, <2>1 DEF RowCount
<1>3. QED
  BY <1>1, <1>2

LEMMA InexactCount ==
  ASSUME NEW t, RowCount(t).exact
  PROVE  t.shown # Identity \/ t.indexed = TRUE
BY SMT DEF RowCount

(* What an export is to write is a sequence as long as its count.           *)
LEMMA WholeSeq ==
  ASSUME NEW e
  PROVE  /\ IsSeq(Whole(e))
         /\ Counts(e) => Len(Whole(e)) = Len(Build(tables[e.table].dialect, e.shown))
<1> DEFINE d == tables[e.table].dialect
<1>1. CASE e.scope = "view"
  BY <1>1, BuildSeq DEF Whole
<1>2. CASE e.scope # "view"
  <2>1. Whole(e) = Everything(d)
    BY <1>2 DEF Whole
  <2>2. IsSeq(Everything(d)) /\ Len(Everything(d)) = DataRows(d)
    BY EverythingSeq DEF IsSeq
  <2>3. Counts(e) => Len(Build(d, e.shown)) = DataRows(d)
    BY <1>2, BuildSeq, KeptFinite DEF Counts
  <2>4. QED
    BY <2>1, <2>2, <2>3
<1>3. QED
  BY <1>1, <1>2

LEMMA BuildLength ==
  ASSUME NEW d, NEW view PROVE Len(Build(d, view)) \in Nat
BY BuildSeq, KeptFinite

LEMMA CreateFileStep == IInv /\ CreateFile => IInv'
<1> SUFFICES ASSUME IInv, CreateFile PROVE IInv'
  OBVIOUS
<1> DEFINE t == tables[export.table]
           job == [export EXCEPT !.phase = "batch", !.total = RowCount(t).rows]
<1>1. export.phase = "create" /\ ExportGoes(job, "partial") /\ ExportShape(export)
  BY DEF CreateFile, IInv, ExportOk
<1>2. /\ ExportShape(job) /\ job.phase = "batch" /\ job.total = RowCount(t).rows
      /\ job.table = export.table /\ job.scope = export.scope /\ job.shown = export.shown
      /\ job.written = export.written /\ job.steady = export.steady
  BY <1>1 DEF ExportShape, ExportFields
<1> HIDE DEF job
<1>3. ExportRight(export) => ExportRight(job)
  <2> SUFFICES ASSUME ExportRight(export) PROVE ExportRight(job)
    OBVIOUS
  <2>1. t.shown = job.shown /\ job.written = <<>> /\ (t.shown # Identity \/ t.indexed = TRUE)
    BY <1>1, <1>2 DEF ExportRight
  <2>2. job.total = Len(Build(t.dialect, job.shown))
    BY <1>2, <2>1, ExactCount
  <2>3. job.total \in Nat
    BY <2>2, BuildLength
  <2>4. SubSeq(Whole(job), 1, 0) = <<>>
    BY WholeSeq DEF IsSeq
  <2>5. QED
    BY <1>2, <2>1, <2>2, <2>3, <2>4 DEF ExportRight
<1>4. QED
  BY <1>1, <1>2, <1>3, ExportGoesStep DEF ExportRunning

(* How far a running export has got, and the rows of its next batch.        *)
LEMMA NextBatch ==
  ASSUME IInv, export.phase = "batch", ExportRight(export), Counts(export)
  PROVE  \E k \in 0 .. export.total :
           /\ export.written = SubSeq(Whole(export), 1, k)
           /\ Progress(export) = k
           /\ export.total \in Nat /\ export.total = Len(Whole(export))
           /\ MoreToWrite(export) => k < export.total /\
                \E len \in 1 .. export.total - k :
                  BatchRows(export) = SubSeq(Whole(export), k + 1, k + len)
<1> DEFINE t == tables[export.table]
           total == export.total
<1>1. /\ t.shown = export.shown /\ total = Len(Build(t.dialect, export.shown))
      /\ total \in Nat
  BY BuildLength DEF ExportRight
<1>2. PICK k \in 0 .. total : export.written = SubSeq(Whole(export), 1, k)
  BY DEF ExportRight
<1>3. PICK S : Whole(export) \in Seq(S)
  BY WholeSeq DEF IsSeq
<1>4. Len(Whole(export)) = total
  BY <1>1, WholeSeq
<1>5. Progress(export) = k
  BY <1>1, <1>2, <1>3, <1>4 DEF Progress
<1>6. ASSUME MoreToWrite(export)
      PROVE  k < total /\ \E len \in 1 .. total - k :
               BatchRows(export) = SubSeq(Whole(export), k + 1, k + len)
  <2> DEFINE len == Minimum(ExportBatch, total - k)
  <2>1. k < total
    BY <1>5, <1>6 DEF MoreToWrite
  <2>2. len \in 1 .. total - k
    BY <1>1, <2>1, BatchAssumption DEF Minimum
  <2> HIDE DEF len
  <2>3. k \in Nat /\ len \in Nat /\ k + len <= total
    BY <1>1, <2>2
  <2>4. CASE export.scope = "view"
    <3>1. BatchRows(export) = Fetch(t, k, len)
      BY <1>5, <2>4 DEF BatchRows, len
    <3>2. Fetch(t, k, len) = SubSeq(Build(t.dialect, t.shown), k + 1, k + len)
      <4>1. k + len <= Len(Build(t.dialect, t.shown))
        BY <1>1, <2>3
      <4> HIDE DEF t
      <4>2. QED
        BY <2>3, <4>1, FetchPart
    <3>3. QED
      BY <1>1, <2>1, <2>2, <2>4, <3>1, <3>2 DEF Whole
  <2>5. CASE export.scope # "view"
    <3>1. BatchRows(export) = FetchSource(t, k, len)
      BY <1>5, <2>5 DEF BatchRows, len
    <3>2. Whole(export) = Everything(t.dialect) /\ total = DataRows(t.dialect)
      BY <1>4, <2>5, EverythingSeq DEF Whole
    <3>3. FetchSource(t, k, len) = SubSeq(Everything(t.dialect), k + 1, k + len)
      BY <2>3, <3>2, FetchSourcePart
    <3>4. QED
      BY <2>1, <2>2, <3>1, <3>2, <3>3
  <2>6. QED
    BY <2>4, <2>5
<1>7. QED
  BY <1>1, <1>2, <1>4, <1>5, <1>6

LEMMA WriteBatchStep == IInv /\ WriteBatch => IInv'
<1> SUFFICES ASSUME IInv, WriteBatch PROVE IInv'
  OBVIOUS
<1> DEFINE rows == BatchRows(export)
           job == [export EXCEPT !.written = export.written \o rows]
<1>1. MoreToWrite(export) /\ ExportGoes(job, file) /\ ExportShape(export)
  BY DEF WriteBatch, IInv, ExportOk
<1>2. /\ ExportShape(job) /\ job.phase = export.phase /\ job.total = export.total
      /\ job.table = export.table /\ job.scope = export.scope /\ job.shown = export.shown
      /\ job.written = export.written \o rows /\ job.steady = export.steady
  BY <1>1 DEF ExportShape, ExportFields
<1>3. export.phase = "batch"
  BY <1>1 DEF MoreToWrite
<1> HIDE DEF job, rows
<1>4. Whole(job) = Whole(export) /\ Counts(job) = Counts(export)
  BY <1>2 DEF Whole, Counts
<1>5. ASSUME ExportRight(export) PROVE ExportRight(job)
  <2>1. ASSUME Counts(export)
        PROVE  \E j \in 0 .. job.total : job.written = SubSeq(Whole(job), 1, j)
    <3>0. PICK k \in 0 .. export.total :
            /\ export.written = SubSeq(Whole(export), 1, k)
            /\ export.total \in Nat /\ export.total = Len(Whole(export))
            /\ \E len \in 1 .. export.total - k :
                 rows = SubSeq(Whole(export), k + 1, k + len)
      BY <1>1, <1>3, <1>5, <2>1, NextBatch DEF rows
    <3>1. PICK len \in 1 .. export.total - k :
            rows = SubSeq(Whole(export), k + 1, k + len)
      BY <3>0
    <3>2. PICK S : Whole(export) \in Seq(S)
      BY WholeSeq DEF IsSeq
    <3>3. export.written \o rows = SubSeq(Whole(export), 1, k + len)
      <4>1. k \in Nat /\ len \in Nat /\ k + len <= Len(Whole(export))
        BY <3>0
      <4>2. QED
        BY <3>0, <3>1, <3>2, <4>1, PrefixGrows
    <3>4. k + len \in 0 .. job.total
      BY <1>2, <3>0
    <3>5. QED
      BY <1>2, <1>4, <3>3, <3>4
  <2>2. QED
    BY <1>2, <1>3, <1>4, <1>5, <2>1 DEF ExportRight
<1>6. QED
  BY <1>1, <1>2, <1>3, <1>5, ExportGoesStep DEF ExportRunning

LEMMA FinishExportStep == IInv /\ FinishExport => IInv'
<1> SUFFICES ASSUME IInv, FinishExport PROVE IInv'
  OBVIOUS
<1> DEFINE job == [export EXCEPT !.phase = "ok"]
<1>1. export.phase = "batch" /\ ExportGoes(job, "whole") /\ ExportShape(export)
  BY DEF FinishExport, IInv, ExportOk
<1>2. /\ ExportShape(job) /\ job.phase = "ok" /\ job.total = export.total
      /\ job.table = export.table /\ job.scope = export.scope /\ job.shown = export.shown
      /\ job.written = export.written /\ job.steady = export.steady
  BY <1>1 DEF ExportShape, ExportFields
<1> HIDE DEF job
<1>3. Whole(job) = Whole(export) /\ Counts(job) = Counts(export)
  BY <1>2 DEF Whole, Counts
<1>4. ASSUME ExportRight(export) PROVE ExportRight(job)
  <2>1. ASSUME Counts(export) PROVE export.written = Whole(export)
    <3>1. PICK k \in 0 .. export.total :
            /\ export.written = SubSeq(Whole(export), 1, k)
            /\ Progress(export) = k
            /\ export.total \in Nat /\ export.total = Len(Whole(export))
            /\ MoreToWrite(export) => k < export.total /\
                 \E len \in 1 .. export.total - k :
                   BatchRows(export) = SubSeq(Whole(export), k + 1, k + len)
      BY <1>1, <1>4, <2>1, NextBatch
    <3>2. PICK S : Whole(export) \in Seq(S)
      BY WholeSeq DEF IsSeq
    <3>3. ~MoreToWrite(export)
      <4> SUFFICES ASSUME MoreToWrite(export) PROVE FALSE
        OBVIOUS
      <4>1. BatchRows(export) = <<>>
        BY DEF FinishExport
      <4>2. PICK len \in 1 .. export.total - k :
              BatchRows(export) = SubSeq(Whole(export), k + 1, k + len)
        BY <3>1
      <4>3. Len(SubSeq(Whole(export), k + 1, k + len)) = len
        BY <3>1, <3>2
      <4>4. QED
        BY <4>1, <4>2, <4>3
    <3>4. k = export.total
      BY <1>1, <3>1, <3>3 DEF MoreToWrite
    <3>5. SubSeq(Whole(export), 1, Len(Whole(export))) = Whole(export)
      BY <3>2
    <3>6. QED
      BY <3>1, <3>4, <3>5
  <2>2. QED
    BY <1>2, <1>3, <1>4, <2>1 DEF ExportRight
<1>5. QED
  BY <1>1, <1>2, <1>4, ExportGoesStep DEF ExportRunning

LEMMA FailStep == IInv /\ (FailExport \/ SeeCancelled) => IInv'
<1> SUFFICES ASSUME IInv, FailExport \/ SeeCancelled PROVE IInv'
  OBVIOUS
<1> DEFINE job == [export EXCEPT !.phase = "err"]
<1>0. ExportRunning /\ Failed(export) /\ ExportShape(export)
  BY DEF FailExport, SeeCancelled, MoreToWrite, ExportRunning, IInv, ExportOk
<1>1. PICK path \in {"absent", IF export.phase = "batch" THEN "stuck" ELSE file} :
        ExportGoes(job, path)
  BY <1>0 DEF Failed
<1>2. /\ ExportShape(job) /\ job.phase = "err" /\ job.table = export.table
      /\ job.scope = export.scope /\ job.shown = export.shown /\ job.steady = export.steady
  BY <1>0 DEF ExportShape, ExportFields
<1> HIDE DEF job
<1>3. ExportRight(export) => ExportRight(job)
  BY <1>2 DEF ExportRight
<1>4. path # "partial"
  <2>1. export.phase # "batch" => file # "partial"
    BY DEF IInv, NoTruncatedFile
  <2>2. QED
    BY <1>1, <2>1
<1>5. QED
  BY <1>0, <1>1, <1>2, <1>3, <1>4, ExportGoesStep

LEMMA CancelStep == IInv /\ CancelExport => IInv'
<1> SUFFICES ASSUME IInv, CancelExport PROVE IInv'
  OBVIOUS
<1> DEFINE job == [export EXCEPT !.cancelled = TRUE]
<1>1. ExportRunning /\ ExportGoes(job, file) /\ ExportShape(export)
  BY DEF CancelExport, IInv, ExportOk
<1>2. /\ ExportShape(job) /\ job.phase = export.phase /\ job.total = export.total
      /\ job.table = export.table /\ job.scope = export.scope /\ job.shown = export.shown
      /\ job.written = export.written /\ job.steady = export.steady
  BY <1>1 DEF ExportShape, ExportFields
<1> HIDE DEF job
<1>3. Whole(job) = Whole(export) /\ Counts(job) = Counts(export)
  BY <1>2 DEF Whole, Counts
<1>4. ExportRight(export) => ExportRight(job)
  BY <1>2, <1>3 DEF ExportRight
<1>5. /\ file = "partial" => job.phase = "batch"
      /\ job.phase = "ok" => file = "whole"
  BY <1>1, <1>2 DEF IInv, NoTruncatedFile, ExportRunning
<1>6. QED
  BY <1>1, <1>2, <1>4, <1>5, ExportGoesStep DEF ExportRunning

LEMMA DismissStep == IInv /\ DismissExport => IInv'
<1> SUFFICES ASSUME IInv, DismissExport PROVE IInv'
  OBVIOUS
<1>1. /\ UNCHANGED <<ctl, file, disk, left, quiet>> /\ export' = NoExport
      /\ tables' = Referred(tables, ctl, {find}) /\ ~ExportRunning
  BY DEF DismissExport, ExportRunning
<1>2. /\ IsSeq(tables') /\ DOMAIN tables' = DOMAIN tables
      /\ ctl.table \in DOMAIN tables => tables'[ctl.table] = tables[ctl.table]
  BY <1>1, ReferredKeeps DEF IInv, CtlOk
<1>3. CtlOk'
  BY <1>1, <1>2 DEF IInv, CtlOk, OnScreen, InUse
<1>4. ExportOk'
  BY <1>1 DEF ExportOk, NoExport, ExportShape, ExportFields
<1>5. QuietOk' /\ LeftOk'
  BY <1>1 DEF IInv, QuietOk, LeftOk, InUse
<1>6. NoTruncatedFile'
  BY <1>1 DEF IInv, NoTruncatedFile, NoExport, ExportRunning
<1>7. QED
  BY <1>3, <1>4, <1>5, <1>6 DEF IInv

------------------------------------------------------------------------------
(* Opening and closing. *)

LEMMA OpenFileStep == IInv /\ OpenFile => IInv'
<1> SUFFICES ASSUME IInv, OpenFile PROVE IInv'
  OBVIOUS
<1> DEFINE auto == disk = None \/ disk.delimiter = None
           dialect == IF auto THEN Sniffed ELSE [Sniffed EXCEPT !.delimiter = disk.delimiter]
           fresh == Fresh(Len(tables) + 1, dialect, auto)
<1>1. PICK cached \in BOOLEAN :
        /\ ctl' = IF disk = None THEN fresh ELSE Applied(disk, fresh)
        /\ tables' = Append(tables, Opened(dialect, cached))
  BY DEF OpenFile
<1>2. UNCHANGED <<find, export, file, disk, left>> /\ quiet' = FALSE
  BY DEF OpenFile
<1> HIDE DEF auto, dialect
<1>3. CtlShape(fresh) /\ fresh.table = Len(tables) + 1
  BY DEF Fresh, CtlShape, CtlFields
<1>4. CtlShape(Applied(disk, fresh)) /\ Applied(disk, fresh).table = Len(tables) + 1
  <2> HIDE DEF fresh
  <2>1. QED
    BY <1>3 DEF Applied, CtlShape, CtlFields
<1>5. CtlShape(ctl') /\ ctl'.table = Len(tables) + 1
  BY <1>1, <1>3, <1>4
<1>6. /\ IsSeq(tables') /\ Len(tables) + 1 \in DOMAIN tables'
      /\ DOMAIN tables \subseteq DOMAIN tables' /\ Len(tables) + 1 # 0
      /\ \A k \in DOMAIN tables : tables'[k] = tables[k]
      /\ tables'[Len(tables) + 1] = Opened(dialect, cached)
  BY <1>1, SeqAppended DEF IInv, CtlOk
<1>7. TableShape(Opened(dialect, cached))
  BY DEF Opened, TableShape, TableFields
<1>8. CtlOk' /\ InUse'
  BY <1>5, <1>6, <1>7 DEF CtlOk, OnScreen, InUse
<1>9. QuietOk' /\ LeftOk'
  BY <1>2, <1>8 DEF QuietOk, LeftOk
<1>10. ExportOk'
  <2>1. Grown(tables)
    BY DEF Grown, IInv, CtlOk
  <2>2. export' = Disturbed(export, tables)
    BY <1>2 DEF Disturbed
  <2>3. export.table # 0 => export.table \in DOMAIN tables' /\ tables'[export.table] = tables[export.table]
    BY <1>6 DEF IInv, ExportOk, OnScreen
  <2>4. QED
    BY <2>1, <2>2, <2>3, ExportSurvives DEF IInv
<1>11. NoTruncatedFile'
  BY <1>2 DEF IInv, NoTruncatedFile, ExportRunning
<1>12. QED
  BY <1>8, <1>9, <1>10, <1>11 DEF IInv

LEMMA CloseStep == IInv /\ Close => IInv'
<1> SUFFICES ASSUME IInv, Close PROVE IInv'
  OBVIOUS
<1>1. /\ UNCHANGED <<export, file, disk>> /\ ctl' = Closed /\ quiet' = FALSE
      /\ tables' = Referred(tables, ctl', {export}) /\ InUse
      /\ left' = IF quiet THEN Snapshot(ctl) ELSE None
  BY DEF Close
<1>2. ctl'.table = 0 /\ CtlShape(ctl')
  BY <1>1 DEF Closed, Fresh, CtlShape, CtlFields
<1>3. /\ IsSeq(tables') /\ DOMAIN tables' = DOMAIN tables
      /\ export.table \in DOMAIN tables => tables'[export.table] = tables[export.table]
  BY <1>1, ReferredKeeps DEF IInv, CtlOk
<1>4. CtlOk' /\ QuietOk'
  BY <1>1, <1>2, <1>3 DEF CtlOk, QuietOk, InUse
<1>5. LeftOk'
  <2> SUFFICES ASSUME left' # None PROVE
        /\ disk' = left'
        /\ left'.view = [query |-> left'.view.query, sort |-> left'.view.sort]
    BY DEF LeftOk
  <2>1. left' = Snapshot(ctl) /\ disk = Snapshot(ctl)
    BY <1>1 DEF IInv, QuietOk
  <2>2. QED
    BY <1>1, <2>1 DEF Snapshot, Desired
<1>6. ExportOk'
  <2>1. Grown(tables)
    BY DEF Grown, IInv, CtlOk
  <2>2. export' = Disturbed(export, tables)
    BY <1>1 DEF Disturbed
  <2>3. export.table # 0 => export.table \in DOMAIN tables' /\ tables'[export.table] = tables[export.table]
    BY <1>3 DEF IInv, ExportOk, OnScreen
  <2>4. QED
    BY <2>1, <2>2, <2>3, ExportSurvives DEF IInv
<1>7. NoTruncatedFile'
  BY <1>1 DEF IInv, NoTruncatedFile, ExportRunning
<1>8. QED
  BY <1>4, <1>5, <1>6, <1>7 DEF IInv

------------------------------------------------------------------------------
(* The frames. *)

(* Edits of the controls of the table on screen.                            *)
EditOf(e) == CtlShape(e) /\ e.table = ctl.table

LEMMA SetViewGrows ==
  ASSUME CtlOk, InUse, NEW view
  PROVE  LET ts == [tables EXCEPT ![ctl.table] = SetView(tables[ctl.table], view)]
         IN  Grown(ts) /\ OnScreen(ctl, ts)
<1> DEFINE x == SetView(tables[ctl.table], view)
           ts == [tables EXCEPT ![ctl.table] = x]
<1>1. IsSeq(tables) /\ ctl.table \in DOMAIN tables /\ TableShape(tables[ctl.table])
  BY DEF CtlOk, OnScreen
<1>2. /\ TableShape(x) /\ x.dialect = tables[ctl.table].dialect
      /\ x.indexed = tables[ctl.table].indexed
  BY <1>1, SetViewShape
<1> HIDE DEF x
<1>3. /\ IsSeq(ts) /\ DOMAIN ts = DOMAIN tables
      /\ \A i \in DOMAIN tables : ts[i] = IF i = ctl.table THEN x ELSE tables[i]
  BY <1>1, SeqChanged
<1>4. QED
  BY <1>1, <1>2, <1>3 DEF Grown, OnScreen, x

(* Applying the view leaves nothing to apply, and changes nothing when      *)
(* there was nothing.                                                       *)
LEMMA ViewAppliedOk ==
  ASSUME CtlOk, InUse, NEW e, EditOf(e)
  PROVE  LET r == ViewApplied(e) IN
           /\ CtlShape(r.ctl) /\ r.ctl.table = ctl.table
           /\ Grown(r.tables) /\ OnScreen(r.ctl, r.tables)
           /\ Desired(r.ctl) = r.ctl.applied /\ r.disk = Snapshot(r.ctl)
           /\ Desired(e) = e.applied => r.ctl = e /\ r.tables = tables
<1> DEFINE desired == Desired(e)
           told == [e EXCEPT !.applied = desired, !.error = desired.query = BadQuery]
           ts == [tables EXCEPT ![e.table] = SetView(tables[e.table], desired)]
<1>1. CASE desired = e.applied
  <2>1. ViewApplied(e) = [ctl |-> e, tables |-> tables, disk |-> Snapshot(e)]
    BY <1>1 DEF ViewApplied
  <2>2. Grown(tables)
    BY DEF Grown, CtlOk
  <2>3. QED
    BY <1>1, <2>1, <2>2 DEF EditOf, CtlOk, OnScreen
<1>2. CASE desired # e.applied
  <2>1. ViewApplied(e) = [ctl |-> told, tables |-> ts, disk |-> Snapshot(told)]
    BY <1>2 DEF ViewApplied
  <2>2. Grown(ts) /\ OnScreen(ctl, ts)
    BY SetViewGrows DEF EditOf
  <2>3. CtlShape(told) /\ told.table = ctl.table /\ told.applied = desired
        /\ told.filter = e.filter /\ told.search = e.search /\ told.sort = e.sort
    <3> HIDE DEF desired
    <3> QED BY DEF EditOf, CtlShape, CtlFields
  <2>4. Desired(told) = desired
    BY <2>3 DEF Desired
  <2> HIDE DEF told, ts
  <2>5. QED
    BY <1>2, <2>1, <2>2, <2>3, <2>4 DEF OnScreen
<1>3. QED
  BY <1>1, <1>2

LEMMA ReopenedOk ==
  ASSUME CtlOk, InUse, NEW e, EditOf(e), NEW r \in Reopened(e)
  PROVE  CtlShape(r.ctl) /\ Grown(r.tables) /\ OnScreen(r.ctl, r.tables)
<1> DEFINE width == Width[e.dialect.delimiter]
           c == IF width # e.width
                  THEN [e EXCEPT !.width = width, !.visible = 0 .. width - 1] ELSE e
           told == [c EXCEPT !.table = Len(tables) + 1]
<1>1. PICK cached \in BOOLEAN :
        r = [ctl |-> told, tables |-> Append(tables, Opened(e.dialect, cached)),
             disk |-> disk]
  BY DEF Reopened
<1>2. CtlShape(c)
  <2> HIDE DEF width
  <2> QED BY DEF EditOf, CtlShape, CtlFields
<1>3. CtlShape(told) /\ told.table = Len(tables) + 1
  <2> HIDE DEF c
  <2> QED BY <1>2 DEF CtlShape, CtlFields
<1>4. TableShape(Opened(e.dialect, cached))
  BY DEF Opened, TableShape, TableFields
<1> HIDE DEF told
<1>5. /\ IsSeq(r.tables) /\ Len(tables) + 1 \in DOMAIN r.tables
      /\ DOMAIN tables \subseteq DOMAIN r.tables
      /\ \A k \in DOMAIN tables : r.tables[k] = tables[k]
      /\ r.tables[Len(tables) + 1] = Opened(e.dialect, cached)
  BY <1>1, SeqAppended DEF CtlOk
<1>6. QED
  BY <1>1, <1>3, <1>4, <1>5 DEF Grown, OnScreen

LEMMA ReactionOk ==
  ASSUME CtlOk, InUse, NEW e, EditOf(e), NEW r \in Reactions(e)
  PROVE  CtlShape(r.ctl) /\ Grown(r.tables) /\ OnScreen(r.ctl, r.tables)
<1>1. CASE r \in Reopened(e)
  BY <1>1, ReopenedOk
<1>2. CASE r = [ctl |-> e, tables |-> tables, disk |-> disk]
  BY <1>2 DEF Grown, CtlOk, EditOf, OnScreen
<1>3. CASE r = ViewApplied(e)
  BY <1>3, ViewAppliedOk
<1>4. QED
  BY <1>1, <1>2, <1>3 DEF Reactions

(* What the find result and the grid do to the controls after the reaction. *)
Moved(c, d) ==
  \/ d = c
  \/ \E x : d = [c EXCEPT !.lead = x] \/ d = [c EXCEPT !.sort = x]

LEMMA MovedOk ==
  ASSUME NEW c, CtlShape(c), NEW d, Moved(c, d)
  PROVE  CtlShape(d) /\ d.table = c.table
<1>1. \A x : LET u == [c EXCEPT !.lead = x] IN CtlShape(u) /\ u.table = c.table
  BY DEF CtlShape, CtlFields
<1>2. \A x : LET u == [c EXCEPT !.sort = x] IN CtlShape(u) /\ u.table = c.table
  BY DEF CtlShape, CtlFields
<1>3. QED
  BY <1>1, <1>2 DEF Moved

(* A frame that has the controls e after the edits and the reaction r.      *)
FrameOf(e, r) ==
  /\ InUse /\ EditOf(e) /\ r \in Reactions(e)
  /\ \E c : Moved(r.ctl, c) /\ Moved(c, ctl')
  /\ tables' = Referred(r.tables, ctl', {find', export'})
  /\ UNCHANGED <<file, left>>

LEMMA FrameTables ==
  ASSUME IInv, NEW e, NEW r, FrameOf(e, r)
  PROVE  /\ CtlOk' /\ InUse' /\ LeftOk' /\ Grown(r.tables)
         /\ CtlShape(ctl') /\ ctl'.table = r.ctl.table
         /\ \A k \in DOMAIN r.tables :
              k = ctl'.table \/ k = export'.table => k \in DOMAIN tables' /\ tables'[k] = r.tables[k]
<1>1. CtlShape(r.ctl) /\ Grown(r.tables) /\ OnScreen(r.ctl, r.tables)
  BY ReactionOk DEF FrameOf, IInv
<1>2. CtlShape(ctl') /\ ctl'.table = r.ctl.table
  BY <1>1, MovedOk DEF FrameOf
<1>3. /\ IsSeq(tables') /\ DOMAIN tables' = DOMAIN r.tables
      /\ \A k \in DOMAIN r.tables : k = ctl'.table \/ k = export'.table => tables'[k] = r.tables[k]
  BY <1>1, ReferredKeeps DEF Grown, FrameOf
<1>4. CtlOk' /\ InUse'
  BY <1>1, <1>2, <1>3, NoTableZero DEF CtlOk, OnScreen, InUse
<1>5. QED
  BY <1>1, <1>2, <1>3, <1>4 DEF LeftOk

(* A frame in which no export is started.                                   *)
LEMMA FrameStep ==
  ASSUME IInv, NEW e, NEW r, FrameOf(e, r), export' = Disturbed(export, r.tables),
         quiet' = FALSE \/ (Desired(ctl') = ctl'.applied /\ disk' = Snapshot(ctl'))
  PROVE  IInv'
<1>1. /\ CtlOk' /\ LeftOk' /\ Grown(r.tables)
      /\ \A k \in DOMAIN r.tables :
           k = ctl'.table \/ k = export'.table => k \in DOMAIN tables' /\ tables'[k] = r.tables[k]
  BY FrameTables
<1>2. export'.table = export.table
  BY DEF Disturbed, IInv, ExportOk, ExportShape, ExportFields
<1>3. export.table # 0 =>
        export.table \in DOMAIN tables' /\ tables'[export.table] = r.tables[export.table]
  BY <1>1, <1>2 DEF IInv, ExportOk, OnScreen, Grown
<1>4. ExportOk' /\ export'.phase = export.phase
  BY <1>1, <1>3, ExportSurvives DEF IInv
<1>5. QuietOk'
  BY DEF QuietOk
<1>6. NoTruncatedFile'
  BY <1>4 DEF IInv, NoTruncatedFile, ExportRunning, FrameOf
<1>7. QED
  BY <1>1, <1>4, <1>5, <1>6 DEF IInv

(* Every edit is such a frame.                                              *)
LEMMA EditedFrame ==
  ASSUME NEW e, NEW want, EditOf(e), UserFrame(e, want, None, Same)
  PROVE  \E r : FrameOf(e, r) /\ export' = Disturbed(export, r.tables) /\ quiet' = FALSE
<1>1. PICK r \in Reactions(e) :
        /\ \E x : ctl' = r.ctl \/ ctl' = [r.ctl EXCEPT !.lead = x]
        /\ export' = Disturbed(export, r.tables)
        /\ tables' = Referred(r.tables, ctl', {find', export'})
        /\ UNCHANGED <<file, left>>
  BY DEF UserFrame, Frame, Same
<1>2. Moved(r.ctl, ctl')
  BY <1>1 DEF Moved
<1>3. QED
  BY <1>1, <1>2 DEF UserFrame, FrameOf, Moved

LEMMA EditFrameStep ==
  ASSUME IInv, NEW e, EditOf(e), EditFrame(e) PROVE IInv'
BY EditedFrame, FrameStep DEF EditFrame

EditStep ==
  \/ TypeQuery \/ ToggleFilter \/ ToggleHeader \/ PickDelimiter \/ AutoDelimiter
  \/ ShowColumns \/ ResetView

LEMMA EditStepOk == IInv /\ EditStep => IInv'
<1> SUFFICES ASSUME IInv, EditStep PROVE IInv'
  OBVIOUS
<1>1. CtlShape(ctl)
  BY DEF IInv, CtlOk
<1>2. CASE TypeQuery
  <2>1. PICK text : EditFrame([ctl EXCEPT !.search = text])
    BY <1>2 DEF TypeQuery
  <2>2. EditOf([ctl EXCEPT !.search = text])
    BY <1>1 DEF EditOf, CtlShape, CtlFields
  <2>3. QED
    BY <2>1, <2>2, EditFrameStep
<1>3. CASE ToggleFilter
  <2>1. EditOf([ctl EXCEPT !.filter = ~ctl.filter])
    BY <1>1 DEF EditOf, CtlShape, CtlFields
  <2>2. QED
    BY <1>3, <2>1, EditFrameStep DEF ToggleFilter
<1>4. CASE ToggleHeader
  <2> DEFINE e == [ctl EXCEPT !.dialect.header = ~ctl.dialect.header]
  <2>1. EditOf(e)
    BY <1>1 DEF EditOf, CtlShape, CtlFields
  <2>2. EditFrame(e)
    BY <1>4 DEF ToggleHeader
  <2> HIDE DEF e
  <2>3. QED
    BY <2>1, <2>2, EditFrameStep
<1>5. CASE PickDelimiter
  <2>1. PICK d : EditFrame([ctl EXCEPT !.dialect.delimiter = d, !.auto = FALSE])
    BY <1>5 DEF PickDelimiter
  <2> DEFINE e == [ctl EXCEPT !.dialect.delimiter = d, !.auto = FALSE]
  <2>2. EditOf(e)
    BY <1>1 DEF EditOf, CtlShape, CtlFields
  <2> HIDE DEF e
  <2>3. QED
    BY <2>1, <2>2, EditFrameStep DEF e
<1>6. CASE AutoDelimiter
  <2> DEFINE e == [ctl EXCEPT !.dialect.delimiter = Detected, !.auto = TRUE]
  <2>1. EditOf(e)
    BY <1>1 DEF EditOf, CtlShape, CtlFields
  <2>2. EditFrame(e)
    BY <1>6 DEF AutoDelimiter
  <2> HIDE DEF e
  <2>3. QED
    BY <2>1, <2>2, EditFrameStep
<1>7. CASE ShowColumns
  <2>1. PICK cs : EditFrame([ctl EXCEPT !.visible = cs])
    BY <1>7 DEF ShowColumns
  <2>2. EditOf([ctl EXCEPT !.visible = cs])
    BY <1>1 DEF EditOf, CtlShape, CtlFields
  <2>3. QED
    BY <2>1, <2>2, EditFrameStep
<1>8. CASE ResetView
  <2> DEFINE e == [ctl EXCEPT !.width = Width[Current.dialect.delimiter],
                              !.visible = Columns(Current.dialect.delimiter),
                              !.sort = None, !.search = NoQuery, !.filter = FALSE,
                              !.lead = None]
  <2>1. EditOf(e)
    BY <1>1 DEF EditOf, CtlShape, CtlFields
  <2>2. EditFrame(e)
    BY <1>8 DEF ResetView
  <2> HIDE DEF e
  <2>3. QED
    BY <2>1, <2>2, EditFrameStep
<1>9. QED
  BY <1>2, <1>3, <1>4, <1>5, <1>6, <1>7, <1>8 DEF EditStep

LEMMA FindStep == IInv /\ Find => IInv'
<1> SUFFICES ASSUME IInv, Find PROVE IInv'
  OBVIOUS
<1>1. EditOf(ctl) /\ \E want : UserFrame(ctl, want, None, Same)
  BY DEF Find, EditOf, IInv, CtlOk
<1>2. QED
  BY <1>1, EditedFrame, FrameStep

LEMMA GridStep == IInv /\ (SelectRow \/ ClickHeader) => IInv'
<1> SUFFICES ASSUME IInv, SelectRow \/ ClickHeader PROVE IInv'
  OBVIOUS
<1>1. PICK r \in Reactions(ctl) :
        /\ \E c : /\ \E x : c = r.ctl \/ c = [r.ctl EXCEPT !.lead = x]
                  /\ \E x : ctl' = [c EXCEPT !.lead = x] \/ ctl' = [c EXCEPT !.sort = x]
        /\ export' = Disturbed(export, r.tables)
        /\ tables' = Referred(r.tables, ctl', {find', export'})
        /\ UNCHANGED <<file, left>> /\ InUse /\ quiet' = FALSE
  <2>1. CASE SelectRow
    BY <2>1 DEF SelectRow, GridFrame, UserFrame, Frame
  <2>2. CASE ClickHeader
    BY <2>2 DEF ClickHeader, GridFrame, UserFrame, Frame
  <2>3. QED
    BY <2>1, <2>2
<1>2. (\E c : Moved(r.ctl, c) /\ Moved(c, ctl')) /\ EditOf(ctl)
  BY <1>1 DEF Moved, EditOf, IInv, CtlOk
<1>3. FrameOf(ctl, r)
  BY <1>1, <1>2 DEF FrameOf
<1>4. QED
  BY <1>1, <1>3, FrameStep

LEMMA QuietFrameStep == IInv /\ QuietFrame => IInv'
<1> SUFFICES ASSUME IInv, QuietFrame PROVE IInv'
  OBVIOUS
<1> DEFINE r == ViewApplied(ctl)
<1>1. InUse /\ CtlOk /\ EditOf(ctl)
  BY DEF QuietFrame, IInv, CtlOk, EditOf
<1>2. /\ \E x : ctl' = r.ctl \/ ctl' = [r.ctl EXCEPT !.lead = x]
      /\ disk' = r.disk
      /\ export' = Disturbed(export, r.tables)
      /\ tables' = Referred(r.tables, ctl', {find', export'})
      /\ UNCHANGED <<file, left>> /\ quiet' = TRUE
  <2>1. Reactions(ctl) = {r}
    BY DEF Reactions
  <2> HIDE DEF r
  <2>2. QED
    BY <2>1 DEF QuietFrame, Frame, Same
<1>3. CtlShape(r.ctl) /\ Desired(r.ctl) = r.ctl.applied /\ r.disk = Snapshot(r.ctl)
  BY <1>1, ViewAppliedOk
<1>4. r \in Reactions(ctl)
  BY DEF Reactions
<1> HIDE DEF r
<1>5. Desired(ctl') = ctl'.applied /\ disk' = Snapshot(ctl')
  <2>1. \A x : LET c == [r.ctl EXCEPT !.lead = x] IN
          Desired(c) = c.applied /\ Snapshot(c) = Snapshot(r.ctl)
    BY <1>3 DEF CtlShape, CtlFields, Desired, Snapshot
  <2>2. QED
    BY <1>2, <1>3, <2>1
<1>6. FrameOf(ctl, r)
  <2>1. Moved(r.ctl, ctl') /\ Moved(ctl', ctl')
    BY <1>2 DEF Moved
  <2>2. QED
    BY <1>1, <1>2, <1>4, <2>1 DEF FrameOf
<1>7. QED
  BY <1>2, <1>5, <1>6, FrameStep

(* The export starts with nothing to apply, so it counts and shows what the *)
(* menu saw.                                                                *)
LEMMA StartExportStep == IInv /\ StartExport => IInv'
<1> SUFFICES ASSUME IInv, StartExport PROVE IInv'
  OBVIOUS
<1> DEFINE r == ViewApplied(ctl)
           t == tables[ctl.table]
<1>1. InUse /\ quiet /\ Exportable /\ ~ExportRunning /\ CtlOk /\ EditOf(ctl)
  BY DEF StartExport, IInv, CtlOk, EditOf
<1>2. PICK scope \in {"view", "source"} : UserFrame(ctl, None, scope, Same)
  BY DEF StartExport
<1>3. /\ \E x : ctl' = r.ctl \/ ctl' = [r.ctl EXCEPT !.lead = x]
      /\ export' = Exporting(r, scope)
      /\ tables' = Referred(r.tables, ctl', {find', export'})
      /\ UNCHANGED <<file, left>> /\ quiet' = FALSE
  <2>1. Reactions(ctl) = {r} /\ scope # None
    BY NoneAssumption DEF Reactions
  <2> HIDE DEF r
  <2>2. QED
    BY <1>2, <2>1 DEF UserFrame, Frame, Same
<1>4. r.ctl = ctl /\ r.tables = tables
  <2>1. Desired(ctl) = ctl.applied
    BY <1>1 DEF IInv, QuietOk
  <2>2. QED
    BY <1>1, <2>1, ViewAppliedOk
<1>5. r \in Reactions(ctl)
  BY DEF Reactions
<1> HIDE DEF r
<1>6. FrameOf(ctl, r)
  <2>1. Moved(r.ctl, ctl') /\ Moved(ctl', ctl')
    BY <1>3 DEF Moved
  <2>2. QED
    BY <1>1, <1>3, <1>5, <2>1 DEF FrameOf
<1>7. /\ CtlOk' /\ LeftOk' /\ ctl'.table = ctl.table
      /\ ctl.table \in DOMAIN tables' /\ tables'[ctl.table] = t
  <2>1. OnScreen(ctl, tables)
    BY <1>1 DEF CtlOk
  <2>2. QED
    BY <1>4, <1>6, <2>1, FrameTables DEF OnScreen
<1>8. export' = [table |-> ctl.table, scope |-> scope, phase |-> "create", total |-> 0,
                 written |-> <<>>, cancelled |-> FALSE, shown |-> t.shown, steady |-> TRUE]
  BY <1>3, <1>4 DEF Exporting
<1>9. ExportShape(export')
  BY <1>8 DEF ExportShape, ExportFields
<1>10. ExportRight(export)'
  <2>1. t.shown # Identity \/ t.indexed = TRUE
    BY <1>1, InexactCount DEF Exportable, Current
  <2> HIDE DEF t
  <2>2. QED
    BY <1>7, <1>8, <2>1 DEF ExportRight
<1>11. ExportOk'
  <2>1. TableShape(t)
    BY <1>1 DEF CtlOk, OnScreen
  <2> HIDE DEF t
  <2>2. QED
    BY <1>1, <1>7, <1>8, <1>9, <1>10, <2>1 DEF ExportOk, OnScreen, InUse
<1>12. QuietOk'
  BY <1>3 DEF QuietOk
<1>13. NoTruncatedFile'
  <2>1. export'.phase = "create" /\ file' = file
    BY <1>3, <1>8
  <2>2. file # "partial"
    BY <1>1 DEF IInv, NoTruncatedFile, ExportRunning
  <2>3. QED
    BY <2>1, <2>2 DEF NoTruncatedFile
<1>14. QED
  BY <1>7, <1>11, <1>12, <1>13 DEF IInv

LEMMA StutterStep == IInv /\ UNCHANGED vars => IInv'
<1> SUFFICES ASSUME IInv, UNCHANGED vars PROVE IInv'
  OBVIOUS
<1>1. Grown(tables') /\ export' = Disturbed(export, tables')
  BY DEF vars, Grown, Disturbed, IInv, CtlOk
<1>2. QED
  BY <1>1, TablesStep DEF vars

LEMMA NextIInv == IInv /\ [Next]_vars => IInv'
<1> SUFFICES ASSUME IInv, [Next]_vars PROVE IInv'
  OBVIOUS
<1>1. CASE OpenFile \/ Close
  BY <1>1, OpenFileStep, CloseStep
<1>2. CASE QuietFrame
  BY <1>2, QuietFrameStep
<1>3. CASE EditStep
  BY <1>3, EditStepOk
<1>4. CASE Find
  BY <1>4, FindStep
<1>5. CASE SelectRow \/ ClickHeader
  BY <1>5, GridStep
<1>6. CASE \E t \in 1 .. Len(tables) : IndexGrows(t) \/ IndexLands(t) \/ ViewLands(t)
  BY <1>6, IndexStep, ViewLandsStep
<1>7. CASE FindWindow
  BY <1>7, FindWindowStep
<1>8. CASE StartExport
  BY <1>8, StartExportStep
<1>9. CASE ExportStep \/ FailExport \/ CancelExport
  BY <1>9, CreateFileStep, WriteBatchStep, FinishExportStep, FailStep, CancelStep
     DEF ExportStep
<1>10. CASE DismissExport
  BY <1>10, DismissStep
<1>11. CASE UNCHANGED vars
  BY <1>11, StutterStep
<1>12. QED
  BY <1>1, <1>2, <1>3, <1>4, <1>5, <1>6, <1>7, <1>8, <1>9, <1>10, <1>11
     DEF Next, EditStep

LEMMA InvariantHolds == Spec => []IInv
BY InitIInv, NextIInv, PTL DEF Spec

------------------------------------------------------------------------------
(* The theorems. *)

(* A finished export holds every row of the view it was started on, once    *)
(* and in order, if the view displayed stayed the same; and every row of    *)
(* the source, unless a filter was on (run_export, for_each_batch).         *)
THEOREM ExportsAreComplete == Spec => []ExportComplete
<1>1. IInv => ExportComplete
  <2> SUFFICES ASSUME IInv, export.phase = "ok", export.steady PROVE
        LET t == tables[export.table]
        IN  /\ export.scope = "view" => export.written = Build(t.dialect, export.shown)
            /\ export.scope = "source" /\ export.shown.query = NoQuery =>
                 export.written = Everything(t.dialect)
    BY DEF ExportComplete
  <2>1. ExportRight(export)
    BY SMT DEF IInv, ExportOk
  <2>2. Counts(export) => export.written = Whole(export)
    BY <2>1 DEF ExportRight
  <2>3. QED
    BY <2>2 DEF Counts, Whole
<1>2. QED
  BY <1>1, InvariantHolds, PTL

(* A truncated file is at the path only while the export writes it: one     *)
(* that ends well has completed it, and one that failed or was cancelled    *)
(* has left none that it was able to remove (run_export).                   *)
THEOREM NothingTruncatedStays == Spec => []NoTruncatedFile
<1>1. IInv => NoTruncatedFile
  BY DEF IInv
<1>2. QED
  BY <1>1, InvariantHolds, PTL

Restores ==
  ~InUse /\ ctl'.table # 0 /\ left # None =>
    LET now == Snapshot(ctl')
    IN  /\ now.view = left.view
        /\ now.delimiter = left.delimiter
        /\ now.width = left.width => now.visible = left.visible

LEMMA OpenRestores == IInv /\ OpenFile => Restores
<1> SUFFICES ASSUME IInv, OpenFile, ~InUse, left # None PROVE
      LET now == Snapshot(ctl')
      IN  /\ now.view = left.view
          /\ now.delimiter = left.delimiter
          /\ now.width = left.width => now.visible = left.visible
  BY DEF Restores
<1> DEFINE auto == disk.delimiter = None
           dialect == IF auto THEN Sniffed ELSE [Sniffed EXCEPT !.delimiter = disk.delimiter]
           fresh == Fresh(Len(tables) + 1, dialect, auto)
<1>1. /\ disk = left
      /\ left.view = [query |-> left.view.query, sort |-> left.view.sort]
  BY DEF IInv, LeftOk
<1>2. ctl' = Applied(left, fresh)
  BY <1>1 DEF OpenFile
<1>3. fresh.auto = auto /\ fresh.dialect = dialect /\ CtlShape(fresh)
  <2> HIDE DEF auto, dialect
  <2> QED BY DEF Fresh, CtlShape, CtlFields
<1>4. ~auto => dialect.delimiter = left.delimiter
  BY <1>1 DEF Sniffed
<1> HIDE DEF fresh, dialect
<1>5. /\ ctl'.auto = auto /\ ctl'.dialect = dialect
      /\ ctl'.sort = left.view.sort /\ ctl'.search = left.view.query
      /\ ctl'.filter = (left.view.query # NoQuery)
      /\ ctl'.width = fresh.width
      /\ ctl'.visible = IF left.width = fresh.width THEN left.visible ELSE fresh.visible
  <2> HIDE DEF auto
  <2> QED BY <1>2, <1>3 DEF Applied, CtlShape, CtlFields
<1>6. Desired(ctl') = left.view
  BY <1>1, <1>5 DEF Desired
<1>7. Snapshot(ctl').delimiter = left.delimiter
  BY <1>1, <1>4, <1>5 DEF Snapshot
<1>8. QED
  BY <1>5, <1>6, <1>7 DEF Snapshot

LEMMA OthersRestore == IInv /\ [Next]_vars /\ ~OpenFile => Restores
<1> SUFFICES ASSUME IInv, [Next]_vars, ~OpenFile, ~InUse PROVE ctl'.table = 0
  BY DEF Restores
<1>1. ctl.table = 0
  BY DEF InUse
<1>2. CASE Close \/ QuietFrame \/ StartExport
  BY <1>2 DEF Close, QuietFrame, StartExport
<1>3. CASE EditStep \/ Find \/ SelectRow \/ ClickHeader
  BY <1>3 DEF EditStep, TypeQuery, ToggleFilter, ToggleHeader, PickDelimiter,
     AutoDelimiter, ShowColumns, ResetView, Find, SelectRow, ClickHeader, EditFrame,
     GridFrame, UserFrame
<1>4. CASE \E t \in 1 .. Len(tables) : IndexGrows(t) \/ IndexLands(t) \/ ViewLands(t)
  BY <1>1, <1>4 DEF IndexGrows, IndexLands, ViewLands
<1>5. CASE FindWindow
  BY <1>1, <1>5 DEF FindWindow
<1>6. CASE ExportStep \/ FailExport \/ CancelExport \/ DismissExport
  BY <1>1, <1>6 DEF ExportStep, CreateFile, WriteBatch, FinishExport, SeeCancelled,
     FailExport, CancelExport, DismissExport, Failed, ExportGoes
<1>7. CASE UNCHANGED vars
  BY <1>1, <1>7 DEF vars
<1>8. QED
  BY <1>2, <1>3, <1>4, <1>5, <1>6, <1>7 DEF Next, EditStep

(* A file closed after a frame without edits and opened again comes back    *)
(* with the filter, the sort, the hidden columns and the delimiter it was   *)
(* left with (save_view, open_resolved).                                    *)
THEOREM FilesComeBack == Spec => ReopenRestores
<1>1. IInv /\ [Next]_vars => [Restores]_vars
  BY OpenRestores, OthersRestore
<1>2. QED
  BY <1>1, InvariantHolds, PTL DEF Spec, ReopenRestores, Restores

------------------------------------------------------------------------------
(* The order of a view. *)

LEMMA KeptRows ==
  ASSUME NEW d, NEW view, NEW row \in Kept(d, view)
  PROVE  row \in Nat /\ row < DataRows(d) /\ row < Records
BY DataRowsType, FileAssumption DEF Kept, DataRows, HeaderRows

(* Every row a view keeps is in it once (build_view): nothing is lost or    *)
(* doubled, whatever the keys. Unsorted, the rows are in source order; and  *)
(* sorted they are in the order of their keys, ties in source order, if the *)
(* keys do not contradict each other.                                       *)
THEOREM BuildInOrder ==
  ASSUME NEW d \in Dialect, NEW view \in View
  PROVE  LET b == Build(d, view)
             key == SortedBy(d, view.sort)
             up == view.sort.ascending
         IN  /\ Once(b, Kept(d, view))
             /\ view.sort = None => \A i, j \in DOMAIN b : i < j <=> b[i] < b[j]
             /\ view.sort # None /\ Orderly(key, Kept(d, view)) =>
                  \A i, j \in DOMAIN b : i < j <=> Precedes(key, up, b[i], b[j])
<1> DEFINE K == Kept(d, view)
           b == Build(d, view)
           key == SortedBy(d, view.sort)
           up == view.sort.ascending
<1>1. IsFiniteSet(K) /\ K \subseteq Int
  BY KeptFinite
<1>2. CASE view.sort = None
  <2>1. b = Ascending(K)
    BY <1>2 DEF Build
  <2>2. Once(Ascending(K), K)
    BY <1>1, AscendingLists, ListsOnce
  <2>3. \A i, j \in DOMAIN Ascending(K) : i < j <=> Ascending(K)[i] < Ascending(K)[j]
    BY <1>1, AscendingLists
  <2>4. QED
    BY <1>2, <2>1, <2>2, <2>3
<1>3. CASE view.sort # None
  <2>1. up \in BOOLEAN
    BY <1>3 DEF View, Sort
  <2>2. ASSUME NEW r \in K PROVE key[r] \in Parsed
    <3>1. r \in 0 .. DataRows(d) - 1 /\ r + HeaderRows(d) \in 0 .. Records - 1
      BY FileAssumption DEF Kept, DataRows, HeaderRows
    <3>2. d.delimiter \in Delimiters
      BY DEF Dialect
    <3>3. ASSUME view.sort.column \in Columns(d.delimiter)
          PROVE  Key[d.delimiter][view.sort.column][r + HeaderRows(d)] \in Parsed
      BY <3>1, <3>2, <3>3, KeyAssumption DEF Columns
    <3>4. [kind |-> "text", integer |-> 0, number |-> 0, bytes |-> 0] \in Parsed
      BY DEF Parsed
    <3>5. QED
      BY <3>1, <3>3, <3>4 DEF SortedBy
  <2>3. b = SortBy(K, key, up)
    BY <1>3 DEF Build
  <2> HIDE DEF b, K, key, up
  <2>4. /\ Once(SortBy(K, key, up), K)
        /\ Orderly(key, K) => \A i, j \in DOMAIN SortBy(K, key, up) :
             i < j <=> Precedes(key, up, SortBy(K, key, up)[i], SortBy(K, key, up)[j])
    BY <1>1, <2>1, <2>2, SortByLists
  <2>5. QED
    BY <1>3, <2>3, <2>4 DEF b, K, key, up
<1>4. QED
  BY <1>2, <1>3

------------------------------------------------------------------------------
(* The rows fetched. *)

LEMMA TableTyped ==
  ASSUME NEW t \in Table
  PROVE  /\ t.dialect \in Dialect /\ t.indexed \in BOOLEAN /\ t.frontier \in Row
         /\ t.asked \in View /\ t.shown \in View
BY DEF Table

LEMMA RowCountType ==
  ASSUME NEW t \in Table PROVE RowCount(t).rows \in Row
<1>1. DataRows(t.dialect) \in Nat /\ DataRows(t.dialect) <= Records
  BY DataRowsType, FileAssumption DEF DataRows, HeaderRows
<1>2. CASE t.shown # Identity
  <2> DEFINE K == Kept(t.dialect, t.shown)
             S == 0 .. DataRows(t.dialect) - 1
  <2>1. IsFiniteSet(S) /\ Cardinality(S) = DataRows(t.dialect)
    BY <1>1, FS_Interval
  <2>2. K \in SUBSET S
    BY DEF Kept
  <2>3. Cardinality(K) \in Nat /\ RowCount(t).rows = Cardinality(K)
    BY <1>2, KeptFinite, BuildSeq DEF RowCount
  <2> HIDE DEF K, S
  <2>4. Cardinality(K) <= DataRows(t.dialect)
    BY <2>1, <2>2, FS_Subset
  <2>5. QED
    BY <1>1, <2>3, <2>4, FileAssumption DEF Row
<1>3. CASE t.shown = Identity /\ t.indexed
  BY <1>1, <1>3, FileAssumption DEF RowCount, Row
<1>4. CASE t.shown = Identity /\ ~t.indexed
  <2>1. RowCount(t).rows = Monus(t.frontier, HeaderRows(t.dialect))
    BY <1>4 DEF RowCount
  <2>2. t.frontier \in Row /\ HeaderRows(t.dialect) \in {0, 1}
    BY TableTyped DEF HeaderRows
  <2>3. QED
    BY <2>1, <2>2, FileAssumption DEF Monus, Row
<1>5. QED
  BY <1>2, <1>3, <1>4

(* A part of a sequence, wherever it begins and ends.                       *)
LEMMA PartOf ==
  ASSUME NEW S, NEW s \in Seq(S), NEW k \in Nat, NEW m \in Nat, m <= Len(s)
  PROVE  LET p == SubSeq(s, k + 1, m)
         IN  /\ p \in Seq(S)
             /\ \A i \in Nat \ {0} : i \in DOMAIN p <=> k + i <= m
             /\ \A i \in DOMAIN p : p[i] = s[k + i]
<1>1. CASE m < k
  <2>1. SubSeq(s, k + 1, m) = <<>>
    BY <1>1
  <2>2. QED
    BY <1>1, <2>1
<1>2. CASE k <= m
  <2>1. /\ SubSeq(s, k + 1, m) \in Seq(S)
        /\ Len(SubSeq(s, k + 1, m)) = m - k
        /\ \A i \in 1 .. m - k : SubSeq(s, k + 1, m)[i] = s[k + i]
    BY <1>2, SubSeqProperties
  <2>2. QED
    BY <1>2, <2>1
<1>3. QED
  BY <1>1, <1>2

LEMMA FetchSourceType ==
  ASSUME NEW t \in Table, NEW k \in Nat, NEW len \in Nat
  PROVE  FetchSource(t, k, len) \in Seq(Row) /\ DOMAIN FetchSource(t, k, len) = 1 .. len
<1>1. DataRows(t.dialect) \in Nat /\ DataRows(t.dialect) <= Records
  BY DataRowsType, FileAssumption DEF DataRows, HeaderRows
<1>2. FetchSource(t, k, len) =
        [i \in 1 .. len |-> IF k + i <= DataRows(t.dialect) THEN k + i - 1 ELSE Records]
  BY DEF FetchSource
<1>3. \A i \in 1 .. len :
        (IF k + i <= DataRows(t.dialect) THEN k + i - 1 ELSE Records) \in Row
  BY <1>1, FileAssumption DEF Row
<1>4. FetchSource(t, k, len) \in [1 .. len -> Row]
  BY <1>2, <1>3
<1>5. QED
  BY <1>4

LEMMA KeptInRow == ASSUME NEW d, NEW view PROVE Kept(d, view) \subseteq Row
BY KeptRows, FileAssumption DEF Row

(* What fetch returns, through the view on display or without one.          *)
LEMMA FetchView ==
  ASSUME NEW t \in Table, NEW k \in Nat, NEW len \in Nat, t.shown # Identity
  PROVE  LET b == Build(t.dialect, t.shown)
         IN  /\ b \in Seq(Row) /\ Len(b) \in Nat
             /\ Minimum(k + len, Len(b)) \in Nat /\ Minimum(k + len, Len(b)) <= Len(b)
             /\ Fetch(t, k, len) = SubSeq(b, k + 1, Minimum(k + len, Len(b)))
<1> DEFINE b == Build(t.dialect, t.shown)
<1>1. b \in Seq(Kept(t.dialect, t.shown))
  BY TableTyped, BuildInOrder DEF Once
<1> HIDE DEF b
<1>2. b \in Seq(Row) /\ Len(b) \in Nat
  BY <1>1, KeptInRow
<1>3. Minimum(k + len, Len(b)) \in Nat /\ Minimum(k + len, Len(b)) <= Len(b)
  BY <1>2 DEF Minimum
<1>4. Fetch(t, k, len) = SubSeq(b, k + 1, Minimum(k + len, Len(b)))
  BY DEF Fetch, b
<1>5. QED
  BY <1>2, <1>3, <1>4 DEF b

LEMMA FetchType ==
  ASSUME NEW t \in Table, NEW k \in Nat, NEW len \in Nat
  PROVE  Fetch(t, k, len) \in Seq(Row)
<1>1. CASE t.shown = Identity
  BY <1>1, FetchSourceType DEF Fetch
<1>2. CASE t.shown # Identity
  <2> DEFINE b == Build(t.dialect, t.shown)
             m == Minimum(k + len, Len(b))
  <2>1. b \in Seq(Row) /\ m \in Nat /\ m <= Len(b) /\ Fetch(t, k, len) = SubSeq(b, k + 1, m)
    BY <1>2, FetchView
  <2> HIDE DEF b, m
  <2>2. QED
    BY <2>1, PartOf
<1>3. QED
  BY <1>1, <1>2

(* A row of a window is what fetching that row alone returns.               *)
LEMMA FetchAt ==
  ASSUME NEW t \in Table, NEW k \in Nat, NEW len \in Nat, NEW i \in 1 .. len
  PROVE  LET rows == Fetch(t, k, len)
             one == Fetch(t, k + i - 1, 1)
         IN  /\ i \in DOMAIN rows <=> one # <<>>
             /\ one # <<>> => rows[i] = one[1]
<1>1. k + i - 1 \in Nat /\ 1 \in Nat
  OBVIOUS
<1>2. CASE t.shown = Identity
  <2>1. /\ Fetch(t, k, len) = FetchSource(t, k, len)
        /\ Fetch(t, k + i - 1, 1) = FetchSource(t, k + i - 1, 1)
    BY <1>2 DEF Fetch
  <2>2. DOMAIN FetchSource(t, k, len) = 1 .. len
    BY FetchSourceType
  <2>3. FetchSource(t, k + i - 1, 1) # <<>>
    <3>1. DOMAIN FetchSource(t, k + i - 1, 1) = 1 .. 1
      BY <1>1, FetchSourceType
    <3>2. DOMAIN <<>> # 1 .. 1
      OBVIOUS
    <3>3. QED
      BY <3>1, <3>2
  <2>4. FetchSource(t, k, len)[i] = FetchSource(t, k + i - 1, 1)[1]
    <3>1. DataRows(t.dialect) \in Nat
      BY DataRowsType
    <3>2. FetchSource(t, k, len)[i] = IF k + i <= DataRows(t.dialect) THEN k + i - 1 ELSE Records
      BY DEF FetchSource
    <3>3. FetchSource(t, k + i - 1, 1)[1] =
            IF (k + i - 1) + 1 <= DataRows(t.dialect) THEN (k + i - 1) + 1 - 1 ELSE Records
      BY DEF FetchSource
    <3>4. QED
      BY <3>1, <3>2, <3>3
  <2>5. QED
    BY <2>1, <2>2, <2>3, <2>4
<1>3. CASE t.shown # Identity
  <2> DEFINE b == Build(t.dialect, t.shown)
             m == Minimum(k + len, Len(b))
             o == Minimum((k + i - 1) + 1, Len(b))
             rows == SubSeq(b, k + 1, m)
             one == SubSeq(b, (k + i - 1) + 1, o)
  <2>1. /\ b \in Seq(Row) /\ Len(b) \in Nat /\ m \in Nat /\ m <= Len(b)
        /\ Fetch(t, k, len) = rows
    BY <1>3, FetchView
  <2>2. o \in Nat /\ o <= Len(b) /\ Fetch(t, k + i - 1, 1) = one
    BY <1>1, <1>3, FetchView
  <2>3. (k + i <= m <=> k + i <= Len(b)) /\ (k + i <= o <=> k + i <= Len(b))
    <3>1. Len(b) \in Nat
      BY <2>1
    <3> HIDE DEF b
    <3>2. QED
      BY <3>1 DEF Minimum
  <2>4. (i \in DOMAIN rows <=> k + i <= m) /\ (i \in DOMAIN rows => rows[i] = b[k + i])
    <3>1. i \in Nat \ {0}
      OBVIOUS
    <3> HIDE DEF b, m
    <3>2. QED
      BY <2>1, <3>1, PartOf
  <2>5. /\ one \in Seq(Row)
        /\ 1 \in DOMAIN one <=> k + i <= o
        /\ 1 \in DOMAIN one => one[1] = b[k + i]
    <3>1. (k + i - 1) + 1 = k + i /\ 1 \in Nat \ {0}
      OBVIOUS
    <3> HIDE DEF b, o
    <3>2. QED
      BY <1>1, <2>1, <2>2, <3>1, PartOf
  <2> HIDE DEF b, m, o, rows, one
  <2>6. one # <<>> <=> 1 \in DOMAIN one
    BY <2>5
  <2>7. QED
    BY <2>1, <2>2, <2>3, <2>4, <2>5, <2>6 DEF b
<1>4. QED
  BY <1>2, <1>3

------------------------------------------------------------------------------
(* The nearest of a set of rows. *)

LEMMA LeastNatural ==
  ASSUME NEW T, T \subseteq Nat, T # {}
  PROVE  \E x \in T : \A y \in T : x <= y
<1> DEFINE R == OpToRel(<, Nat)
<1>1. IsWellFoundedOn(R, Nat)
  BY NatLessThanWellFounded
<1>2. \A x, y \in Nat : x < y => <<x, y>> \in R
  BY DEF OpToRel
<1> HIDE DEF R
<1>3. \E x \in T : \A y \in T : ~(<<y, x>> \in R)
  BY <1>1, WFMin
<1>4. PICK x \in T : \A y \in T : ~(<<y, x>> \in R)
  BY <1>3
<1>5. ASSUME NEW y \in T PROVE x <= y
  <2>1. x \in Nat /\ y \in Nat
    OBVIOUS
  <2>2. ~(y < x)
    BY <1>2, <1>4, <2>1
  <2>3. QED
    BY <2>1, <2>2
<1>6. QED
  BY <1>5

LEMMA GreatestBelow ==
  ASSUME NEW T, NEW n \in Nat, T \subseteq 0 .. n, T # {}
  PROVE  \E x \in T : \A y \in T : y <= x
<1> DEFINE U == {n - y : y \in T}
<1>1. U \subseteq Nat
  OBVIOUS
<1>2. U # {}
  <2>1. PICK y \in T : TRUE
    OBVIOUS
  <2>2. n - y \in U
    OBVIOUS
  <2> HIDE DEF U
  <2>3. QED
    BY <2>2
<1> HIDE DEF U
<1>3. PICK u \in U : \A v \in U : u <= v
  BY <1>1, <1>2, LeastNatural
<1>4. PICK x \in T : u = n - x
  BY DEF U
<1>5. ASSUME NEW y \in T PROVE y <= x
  <2>1. n - y \in U
    BY DEF U
  <2>2. n - x <= n - y
    BY <1>3, <1>4, <2>1
  <2>3. QED
    BY <2>2
<1>6. QED
  BY <1>5

------------------------------------------------------------------------------
(* The invariant of the types and of the scan for the next match. *)

(* A saved view keeps one flag per column.                                  *)
SavedOk(s) == s = None \/ (s \in Saved /\ s.visible \subseteq 0 .. s.width - 1)

TablesOk(ts) == ts \in Seq(Table \cup {None}) /\ Len(ts) <= MaxTables

(* The table is there, and in use.                                          *)
Held(k, ts) == k \in DOMAIN ts /\ ts[k] \in Table

CtlTyped(c, ts) ==
  /\ c \in Controls
  /\ c.visible \subseteq 0 .. c.width - 1
  /\ c.lead # None => c.lead < Records
  /\ c.table # 0 => Held(c.table, ts) /\ c.width = Width[ts[c.table].dialect.delimiter]

(* Does display row r of table t match what job j looks for?                *)
MatchAt(j, t, r) ==
  LET rows == Fetch(t, r, 1)
  IN  rows # <<>> /\ Matches(t.dialect, rows[1], j.columns)

Nearest(j, t) ==
  LET hits == {r \in RowsAlong(j) : MatchAt(j, t, r)}
  IN  IF hits = {} THEN j.row = None
      ELSE /\ j.row \in hits
           /\ \A r \in hits : IF j.forward THEN j.row <= r ELSE r <= j.row

(* The rows a scan has been through have no match.                          *)
Passed(j) == IF j.forward THEN j.from .. j.at - 1 ELSE j.at + 1 .. j.from

FindRight(j, t) ==
  IF j.done THEN Nearest(j, t) ELSE \A r \in Passed(j) : ~MatchAt(j, t, r)

(* A scan that is stored has begun within the rows, and stays there.        *)
FindOk(j, ts) ==
  /\ j \in FindJob
  /\ j.table = 0 => j = NoFind
  /\ j.row # None => j.row < Records
  /\ j.table # 0 =>
       /\ Held(j.table, ts)
       /\ j.from < j.total
       /\ IF j.forward THEN j.from <= j.at /\ j.at < j.total ELSE j.at <= j.from
       /\ ~j.done => j.row = None
       /\ j.steady => FindRight(j, ts[j.table])

ExportTyped(j, ts) ==
  /\ j \in ExportJob
  /\ j.table = 0 => j = NoExport
  /\ j.table # 0 => Held(j.table, ts) /\ j.phase # "none"

Typed ==
  /\ TablesOk(tables)
  /\ CtlTyped(ctl, tables)
  /\ FindOk(find, tables)
  /\ ExportTyped(export, tables)
  /\ SavedOk(disk) /\ SavedOk(left)
  /\ file \in {"absent", "other", "partial", "stuck", "whole"}
  /\ quiet \in BOOLEAN /\ edits \in 0 .. MaxEdits

(* The hits in a window are the matching rows of it.                        *)
LEMMA HitsAreMatches ==
  ASSUME NEW j, tables[j.table] \in Table, NEW w, w.start \in Nat, w.len \in Nat
  PROVE  HitsIn(j, w) =
           {r \in w.start .. w.start + w.len - 1 : MatchAt(j, tables[j.table], r)}
<1> DEFINE t == tables[j.table]
           rows == Fetch(t, w.start, w.len)
           hit(i) == i \in DOMAIN rows /\ Matches(t.dialect, rows[i], j.columns)
<1>1. \A i \in 1 .. w.len : hit(i) <=> MatchAt(j, t, w.start + i - 1)
  <2> SUFFICES ASSUME NEW i \in 1 .. w.len
               PROVE hit(i) <=> MatchAt(j, t, w.start + i - 1)
    OBVIOUS
  <2> HIDE DEF t
  <2>1. /\ i \in DOMAIN rows <=> Fetch(t, w.start + i - 1, 1) # <<>>
        /\ Fetch(t, w.start + i - 1, 1) # <<>> => rows[i] = Fetch(t, w.start + i - 1, 1)[1]
    BY FetchAt DEF t
  <2> HIDE DEF rows
  <2>2. QED
    BY <2>1 DEF MatchAt
<1>2. DOMAIN rows \subseteq 1 .. w.len
  <2> HIDE DEF t
  <2>1. t \in Table
    BY DEF t
  <2>2. CASE t.shown = Identity
    BY <2>1, <2>2, FetchSourceType DEF Fetch
  <2>3. CASE t.shown # Identity
    <3> DEFINE b == Build(t.dialect, t.shown)
               m == Minimum(w.start + w.len, Len(b))
    <3>1. b \in Seq(Row) /\ m \in Nat /\ m <= Len(b) /\ rows = SubSeq(b, w.start + 1, m)
      BY <2>1, <2>3, FetchView
    <3>2. m <= w.start + w.len
      BY <3>1 DEF Minimum
    <3> HIDE DEF b, m
    <3>3. rows \in Seq(Row) /\ \A i \in Nat \ {0} : i \in DOMAIN rows <=> w.start + i <= m
      BY <3>1, PartOf
    <3> HIDE DEF rows
    <3>4. DOMAIN rows \subseteq Nat \ {0}
      BY <3>3
    <3>5. ASSUME NEW i \in DOMAIN rows PROVE i \in 1 .. w.len
      <4>1. i \in Nat /\ i >= 1
        BY <3>4
      <4>2. w.start + i <= m
        BY <3>3, <3>4
      <4>3. QED
        BY <3>1, <3>2, <4>1, <4>2
    <3>6. QED
      BY <3>5
  <2>4. QED
    BY <2>2, <2>3
<1>3. HitsIn(j, w) = {w.start + i - 1 : i \in {k \in DOMAIN rows : hit(k)}}
  BY DEF HitsIn
<1> HIDE DEF rows, t, hit
<1>4. \A i \in DOMAIN rows : hit(i) <=> MatchAt(j, t, w.start + i - 1)
  BY <1>1, <1>2
<1>5. \A r \in HitsIn(j, w) : r \in w.start .. w.start + w.len - 1 /\ MatchAt(j, t, r)
  BY <1>2, <1>3, <1>4
<1>6. ASSUME NEW r \in w.start .. w.start + w.len - 1, MatchAt(j, t, r)
      PROVE  r \in HitsIn(j, w)
  <2> DEFINE i == r - w.start + 1
  <2>1. i \in 1 .. w.len /\ r = w.start + i - 1
    OBVIOUS
  <2> HIDE DEF i
  <2>2. hit(i)
    BY <1>1, <1>6, <2>1
  <2>3. i \in DOMAIN rows
    BY <2>2 DEF hit
  <2>4. QED
    BY <1>3, <2>1, <2>2, <2>3
<1>7. QED
  BY <1>5, <1>6 DEF t

------------------------------------------------------------------------------
(* A window of the scan. *)

LEMMA FindJobTyped ==
  ASSUME NEW j \in FindJob
  PROVE  /\ j.table \in 0 .. MaxTables /\ j.from \in Nat /\ j.total \in Nat /\ j.at \in Nat
         /\ j.from <= Records /\ j.total <= Records /\ j.at <= Records
         /\ j.forward \in BOOLEAN /\ j.done \in BOOLEAN /\ j.steady \in BOOLEAN
         /\ j.columns \subseteq AllColumns /\ j.row \in Row \cup {None}
BY FileAssumption DEF FindJob, Row

(* The window lies among the rows the scan has yet to look at, next to      *)
(* those it has been through.                                               *)
LEMMA WindowNext ==
  ASSUME NEW j \in FindJob, j.from < j.total,
         IF j.forward THEN j.from <= j.at /\ j.at < j.total ELSE j.at <= j.from
  PROVE  LET w == Window(j)
             last == w.start + w.len - 1
         IN  /\ w.start \in Nat /\ w.len \in Nat \ {0} /\ last \in Nat /\ last < j.total
             /\ w.start .. last \subseteq RowsAlong(j)
             /\ \A r \in RowsAlong(j) :
                  \/ r \in Passed(j) \/ r \in w.start .. last
                  \/ IF j.forward THEN last < r ELSE r < w.start
             /\ j.forward => w.start = j.at
             /\ ~j.forward => last = j.at
<1> DEFINE w == Window(j)
           last == w.start + w.len - 1
<1>1. /\ j.from \in Nat /\ j.total \in Nat /\ j.at \in Nat /\ j.forward \in BOOLEAN
  BY FindJobTyped
<1>2. CASE j.forward
  <2>1. w.start = j.at /\ w.len = Minimum(FindBatch, j.total - j.at)
    BY <1>2 DEF Window
  <2>2. w.len \in 1 .. j.total - j.at
    BY <1>1, <1>2, <2>1, BatchAssumption DEF Minimum
  <2> DEFINE start == w.start
             len == w.len
  <2>3. start \in Nat /\ len \in Nat \ {0} /\ last \in Nat /\ last < j.total
    BY <1>1, <1>2, <2>1, <2>2
  <2>4. last = start + len - 1
    OBVIOUS
  <2> HIDE DEF last, start, len
  <2>5. start .. last \subseteq RowsAlong(j)
    BY <1>1, <1>2, <2>1, <2>2, <2>3, <2>4 DEF RowsAlong, start, len
  <2>6. ASSUME NEW r \in RowsAlong(j)
        PROVE  \/ r \in Passed(j) \/ r \in start .. last
               \/ IF j.forward THEN last < r ELSE r < start
    BY <1>1, <1>2, <2>1, <2>2, <2>3, <2>4 DEF RowsAlong, Passed, start, len
  <2>7. QED
    BY <1>1, <1>2, <2>1, <2>2, <2>3, <2>4, <2>5, <2>6 DEF start, len, last
<1>3. CASE ~j.forward
  <2>1. w.len = Minimum(FindBatch, j.at + 1) /\ w.start = j.at + 1 - w.len
    BY <1>3 DEF Window
  <2>2. w.len \in 1 .. j.at + 1
    BY <1>1, <2>1, BatchAssumption DEF Minimum
  <2> DEFINE start == w.start
             len == w.len
  <2>3. start \in Nat /\ len \in Nat \ {0} /\ last \in Nat /\ last < j.total
    BY <1>1, <1>3, <2>1, <2>2
  <2>4. last = start + len - 1
    OBVIOUS
  <2> HIDE DEF last, start, len
  <2>5. start .. last \subseteq RowsAlong(j)
    BY <1>1, <1>3, <2>1, <2>2, <2>3, <2>4 DEF RowsAlong, start, len
  <2>6. ASSUME NEW r \in RowsAlong(j)
        PROVE  \/ r \in Passed(j) \/ r \in start .. last
               \/ IF j.forward THEN last < r ELSE r < start
    BY <1>1, <1>3, <2>1, <2>2, <2>3, <2>4 DEF RowsAlong, Passed, start, len
  <2>7. QED
    BY <1>1, <1>3, <2>1, <2>2, <2>3, <2>4, <2>5, <2>6 DEF start, len, last
<1>4. QED
  BY <1>1, <1>2, <1>3

LEMMA FindWindowFinds ==
  ASSUME FindOk(find, tables), FindWindow PROVE FindOk(find', tables)
<1> DEFINE t == tables[find.table]
           w == Window(find)
           last == w.start + w.len - 1
           hits == HitsIn(find, w)
           hit == IF find.forward THEN CHOOSE r \in hits : \A o \in hits : r <= o
                  ELSE CHOOSE r \in hits : \A o \in hits : r >= o
<1>1. /\ find.table # 0 /\ ~find.done /\ find \in FindJob /\ t \in Table
      /\ Held(find.table, tables) /\ find.from < find.total /\ find.row = None
      /\ IF find.forward THEN find.from <= find.at /\ find.at < find.total
         ELSE find.at <= find.from
      /\ find.steady => \A r \in Passed(find) : ~MatchAt(find, t, r)
  BY DEF FindWindow, Scanning, FindOk, Held, FindRight
<1>2. /\ find.from \in Nat /\ find.total \in Nat /\ find.at \in Nat
      /\ find.forward \in BOOLEAN /\ find.total <= Records
  BY <1>1, FindJobTyped
<1>3. /\ w.start \in Nat /\ w.len \in Nat \ {0} /\ last \in Nat /\ last < find.total
      /\ w.start .. last \subseteq RowsAlong(find)
      /\ \A r \in RowsAlong(find) :
           \/ r \in Passed(find) \/ r \in w.start .. last
           \/ IF find.forward THEN last < r ELSE r < w.start
      /\ find.forward => w.start = find.at
      /\ ~find.forward => last = find.at
  BY <1>1, WindowNext
<1>4. hits = {r \in w.start .. last : MatchAt(find, t, r)}
  BY <1>1, <1>3, HitsAreMatches
<1>5. find' = IF hits # {} THEN [find EXCEPT !.done = TRUE, !.row = hit]
              ELSE IF find.forward /\ find.at + w.len < find.total
                THEN [find EXCEPT !.at = find.at + w.len]
              ELSE IF ~find.forward /\ w.start # 0
                THEN [find EXCEPT !.at = w.start - 1]
              ELSE [find EXCEPT !.done = TRUE]
  BY DEF FindWindow
<1> HIDE DEF w
<1>6. CASE hits # {}
  <2>1. hit \in hits /\ \A o \in hits : IF find.forward THEN hit <= o ELSE o <= hit
    <3>1. hits \subseteq Nat /\ hits \subseteq 0 .. last
      BY <1>3, <1>4
    <3> HIDE DEF hits, last
    <3>2. CASE find.forward
      <4>1. \E r \in hits : \A o \in hits : r <= o
        BY <1>6, <3>1, LeastNatural
      <4>2. QED
        BY <3>2, <4>1
    <3>3. CASE ~find.forward
      <4>1. \E r \in hits : \A o \in hits : o <= r
        BY <1>3, <1>6, <3>1, GreatestBelow
      <4>2. \E r \in hits : \A o \in hits : r >= o
        BY <4>1, <3>1
      <4>3. hit \in hits /\ \A o \in hits : hit >= o
        BY <3>3, <4>2
      <4>4. QED
        BY <3>1, <3>3, <4>3
    <3>4. QED
      BY <3>2, <3>3
  <2>2. hit \in w.start .. last /\ MatchAt(find, t, hit)
    BY <1>4, <2>1
  <2> DEFINE h == hit
  <2>4. find' = [find EXCEPT !.done = TRUE, !.row = h]
    BY <1>5, <1>6
  <2> HIDE DEF hit, hits, last
  <2>3. h \in Nat /\ h < Records /\ h \in RowsAlong(find)
    <3>1. h \in w.start .. last
      BY <2>2 DEF h
    <3> HIDE DEF h
    <3>2. h \in Nat /\ h < Records
      BY <1>2, <1>3, <3>1, FileAssumption
    <3>3. QED
      BY <1>3, <3>1, <3>2
  <2>5. h \in Row
    BY <2>3, FileAssumption DEF Row
  <2> HIDE DEF h
  <2>6. find' \in FindJob
    BY <1>1, <2>4, <2>5 DEF FindJob
  <2>7. /\ find'.done = TRUE /\ find'.row = h
        /\ find'.table = find.table /\ find'.columns = find.columns
        /\ find'.from = find.from /\ find'.forward = find.forward
        /\ find'.total = find.total /\ find'.at = find.at /\ find'.steady = find.steady
    BY <1>1, <2>4 DEF FindJob
  <2>8. /\ RowsAlong(find') = RowsAlong(find)
        /\ \A r : MatchAt(find', t, r) = MatchAt(find, t, r)
    BY <2>7 DEF RowsAlong, MatchAt
  <2>9. ASSUME find.steady PROVE Nearest(find', t)
    <3>1. h \in RowsAlong(find) /\ MatchAt(find, t, h)
      BY <2>2, <2>3 DEF h
    <3>2. ASSUME NEW r \in RowsAlong(find), MatchAt(find, t, r)
          PROVE  IF find.forward THEN h <= r ELSE r <= h
      <4>1. r \notin Passed(find)
        BY <1>1, <2>9, <3>2
      <4>2. CASE r \in w.start .. last
        <5>1. r \in hits
          BY <1>4, <3>2, <4>2
        <5>2. QED
          BY <2>1, <5>1 DEF h
      <4>3. CASE IF find.forward THEN last < r ELSE r < w.start
        <5>1. r \in Int
          BY <1>2, <3>2 DEF RowsAlong
        <5>2. h \in w.start .. last
          BY <2>2 DEF h
        <5>3. QED
          BY <1>3, <4>3, <5>1, <5>2
      <4>4. QED
        BY <1>3, <3>2, <4>1, <4>2, <4>3
    <3>3. QED
      BY <2>7, <2>8, <3>1, <3>2 DEF Nearest
  <2>10. h < Records
    BY <2>3 DEF h
  <2>11. QED
    BY <1>1, <2>6, <2>7, <2>9, <2>10 DEF FindOk, FindRight
<1>7. CASE hits = {}
  <2>1. \A r \in w.start .. last : ~MatchAt(find, t, r)
    BY <1>4, <1>7
  <2>2. CASE \/ find.forward /\ find.at + w.len < find.total
             \/ ~find.forward /\ w.start # 0
    <3> DEFINE at == IF find.forward THEN find.at + w.len ELSE w.start - 1
    <3>1. find' = [find EXCEPT !.at = at]
      BY <1>5, <1>7, <2>2
    <3>2. /\ at \in Row
          /\ find.forward => find.from <= at /\ at < find.total
          /\ ~find.forward => at <= find.from
      <4> DEFINE len == w.len
                 start == w.start
      <4>1. start \in Nat /\ len \in Nat \ {0} /\ start + len - 1 < find.total
        BY <1>3
      <4>2. CASE find.forward
        <5>1. at = find.at + len /\ find.at + len < find.total /\ find.from <= find.at
          BY <1>1, <2>2, <4>2
        <5> HIDE DEF len, at
        <5>2. QED
          BY <1>2, <4>1, <4>2, <5>1, FileAssumption DEF Row
      <4>3. CASE ~find.forward
        <5>1. at = start - 1 /\ start # 0 /\ start + len - 1 = find.at /\ find.at <= find.from
          BY <1>1, <1>3, <2>2, <4>3
        <5> HIDE DEF len, at, start
        <5>2. QED
          BY <1>1, <1>2, <4>1, <4>3, <5>1, FileAssumption DEF Row
      <4>4. QED
        BY <4>2, <4>3
    <3>3. ASSUME NEW r \in IF find.forward THEN find.from .. at - 1 ELSE at + 1 .. find.from
          PROVE r \in Passed(find) \/ r \in w.start .. last
      BY <1>1, <1>2, <1>3, <2>2, <3>2 DEF Passed, Row
    <3> HIDE DEF at, hits, last
    <3>4. find' \in FindJob
      BY <1>1, <3>1, <3>2 DEF FindJob
    <3>5. /\ find'.done = find.done /\ find'.row = find.row /\ find'.at = at
          /\ find'.table = find.table /\ find'.columns = find.columns
          /\ find'.from = find.from /\ find'.forward = find.forward
          /\ find'.total = find.total /\ find'.steady = find.steady
      BY <1>1, <3>1 DEF FindJob
    <3>6. \A r : MatchAt(find', t, r) = MatchAt(find, t, r)
      BY <3>5 DEF MatchAt
    <3>7. ASSUME find.steady PROVE \A r \in Passed(find') : ~MatchAt(find', t, r)
      <4> SUFFICES ASSUME NEW r \in Passed(find') PROVE ~MatchAt(find, t, r)
        BY <3>6
      <4>1. r \in IF find.forward THEN find.from .. at - 1 ELSE at + 1 .. find.from
        BY <3>5 DEF Passed
      <4>2. QED
        BY <1>1, <2>1, <3>3, <3>7, <4>1
    <3>8. QED
      BY <1>1, <3>2, <3>4, <3>5, <3>7 DEF FindOk, FindRight
  <2>3. CASE ~(\/ find.forward /\ find.at + w.len < find.total
               \/ ~find.forward /\ w.start # 0)
    <3>1. find' = [find EXCEPT !.done = TRUE]
      BY <1>5, <1>7, <2>3
    <3>2. ASSUME NEW r \in RowsAlong(find)
          PROVE r \in Passed(find) \/ r \in w.start .. last
      BY <1>2, <1>3, <2>3 DEF RowsAlong
    <3> HIDE DEF hits, last
    <3>3. find' \in FindJob
      BY <1>1, <3>1 DEF FindJob
    <3>4. /\ find'.done = TRUE /\ find'.row = find.row /\ find'.at = find.at
          /\ find'.table = find.table /\ find'.columns = find.columns
          /\ find'.from = find.from /\ find'.forward = find.forward
          /\ find'.total = find.total /\ find'.steady = find.steady
      BY <1>1, <3>1 DEF FindJob
    <3>5. /\ RowsAlong(find') = RowsAlong(find)
          /\ \A r : MatchAt(find', t, r) = MatchAt(find, t, r)
      BY <3>4 DEF RowsAlong, MatchAt
    <3>6. ASSUME find.steady PROVE Nearest(find', t)
      <4>1. {r \in RowsAlong(find') : MatchAt(find', t, r)} = {}
        BY <1>1, <2>1, <3>2, <3>5, <3>6
      <4>2. QED
        BY <1>1, <3>4, <4>1 DEF Nearest
    <3>7. QED
      BY <1>1, <3>3, <3>4, <3>6 DEF FindOk, FindRight
  <2>4. QED
    BY <2>2, <2>3
<1>8. QED
  BY <1>6, <1>7

------------------------------------------------------------------------------
(* The tables in use. *)

(* ts has the tables in use there were, with the same dialects.             *)
Later(ts) ==
  /\ TablesOk(ts)
  /\ \A k : Held(k, tables) => Held(k, ts) /\ ts[k].dialect = tables[k].dialect

LEMMA LaterItself == TablesOk(tables) => Later(tables)
BY DEF Later

LEMMA LaterChanged ==
  ASSUME TablesOk(tables), NEW k, Held(k, tables), NEW x \in Table,
         x.dialect = tables[k].dialect
  PROVE  LET ts == [tables EXCEPT ![k] = x] IN Later(ts) /\ ts[k] = x
<1> DEFINE ts == [tables EXCEPT ![k] = x]
<1>1. k \in DOMAIN tables /\ tables \in Seq(Table \cup {None})
  BY DEF Held, TablesOk
<1>2. /\ ts \in Seq(Table \cup {None}) /\ Len(ts) = Len(tables) /\ DOMAIN ts = DOMAIN tables
      /\ \A i \in DOMAIN tables : ts[i] = IF i = k THEN x ELSE tables[i]
  BY <1>1
<1> HIDE DEF ts
<1>3. TablesOk(ts)
  BY <1>2 DEF TablesOk
<1>4. \A i : Held(i, tables) => Held(i, ts) /\ ts[i].dialect = tables[i].dialect
  BY <1>2 DEF Held
<1>5. QED
  BY <1>1, <1>2, <1>3, <1>4 DEF Later, ts

LEMMA LaterAppended ==
  ASSUME TablesOk(tables), FreeTable, NEW x \in Table
  PROVE  LET ts == Append(tables, x)
         IN  /\ Later(ts) /\ Held(Len(tables) + 1, ts) /\ ts[Len(tables) + 1] = x
             /\ Len(tables) + 1 \in 0 .. MaxTables
<1> DEFINE ts == Append(tables, x)
<1>1. tables \in Seq(Table \cup {None}) /\ Len(tables) \in Nat /\ Len(tables) < MaxTables
  BY DEF TablesOk, FreeTable
<1>2. /\ ts \in Seq(Table \cup {None}) /\ Len(ts) = Len(tables) + 1
      /\ DOMAIN tables \subseteq DOMAIN ts /\ Len(tables) + 1 \in DOMAIN ts
      /\ \A i \in DOMAIN tables : ts[i] = tables[i]
      /\ ts[Len(tables) + 1] = x
  BY <1>1
<1> HIDE DEF ts
<1>3. TablesOk(ts)
  BY <1>1, <1>2, BoundAssumption DEF TablesOk
<1>4. \A i : Held(i, tables) => Held(i, ts) /\ ts[i].dialect = tables[i].dialect
  BY <1>2 DEF Held
<1>5. Held(Len(tables) + 1, ts)
  BY <1>2 DEF Held
<1>6. Len(tables) + 1 \in 0 .. MaxTables
  BY <1>1, BoundAssumption
<1>7. QED
  BY <1>2, <1>3, <1>4, <1>5, <1>6 DEF Later, ts

LEMMA ReferredTyped ==
  ASSUME NEW ts, TablesOk(ts), NEW c, NEW jobs
  PROVE  LET us == Referred(ts, c, jobs)
         IN  /\ TablesOk(us)
             /\ \A k : Held(k, ts) /\ (k = c.table \/ \E j \in jobs : j.table = k) =>
                  Held(k, us) /\ us[k] = ts[k]
<1> DEFINE us == Referred(ts, c, jobs)
<1>1. ts \in Seq(Table \cup {None}) /\ Len(ts) <= MaxTables
  BY DEF TablesOk
<1>2. us \in Seq(Table \cup {None}) /\ Len(us) = Len(ts) /\ DOMAIN us = DOMAIN ts
  BY <1>1 DEF Referred
<1>3. \A k \in DOMAIN ts : k = c.table \/ (\E j \in jobs : j.table = k) => us[k] = ts[k]
  BY DEF Referred
<1> HIDE DEF us
<1>4. TablesOk(us)
  BY <1>1, <1>2 DEF TablesOk
<1>5. QED
  BY <1>2, <1>3, <1>4 DEF Held, us

------------------------------------------------------------------------------
(* The promises are about the table of each job only.                       *)

LEMMA DialectDisplays ==
  ASSUME NEW j, NEW t \in Table, NEW u \in Table, u.dialect = t.dialect, u.shown = t.shown
  PROVE  FindRight(j, t) => FindRight(j, u)
<1>1. \A r : Fetch(u, r, 1) = Fetch(t, r, 1)
  BY DEF Fetch, FetchSource
<1>2. \A r : MatchAt(j, u, r) = MatchAt(j, t, r)
  BY <1>1 DEF MatchAt
<1>3. Nearest(j, u) = Nearest(j, t)
  BY <1>2 DEF Nearest
<1>4. QED
  BY <1>2, <1>3 DEF FindRight

LEMMA FindCarried ==
  ASSUME FindOk(find, tables), NEW ts, Later(ts)
  PROVE  LET j == Disturbed(find, ts) IN FindOk(j, ts) /\ j.table = find.table
<1> DEFINE t == tables[find.table]
           u == ts[find.table]
<1>1. find \in FindJob
  BY DEF FindOk
<1>2. CASE find.table = 0
  BY <1>2 DEF FindOk, Disturbed
<1>3. CASE find.table # 0
  <2>1. Held(find.table, tables) /\ Held(find.table, ts) /\ t \in Table /\ u \in Table
        /\ u.dialect = t.dialect
    BY <1>3 DEF FindOk, Later, Held
  <2>2. CASE u.shown # t.shown
    <3> DEFINE j == [find EXCEPT !.steady = FALSE]
    <3>1. Disturbed(find, ts) = j
      BY <1>3, <2>2 DEF Disturbed
    <3>2. /\ j \in FindJob /\ j.table = find.table /\ j.steady = FALSE /\ j.done = find.done
          /\ j.row = find.row /\ j.from = find.from /\ j.at = find.at
          /\ j.total = find.total /\ j.forward = find.forward
      BY <1>1 DEF FindJob
    <3> HIDE DEF j
    <3>3. QED
      BY <1>3, <2>1, <3>1, <3>2 DEF FindOk
  <2>3. CASE u.shown = t.shown
    <3>1. Disturbed(find, ts) = find
      BY <2>3 DEF Disturbed
    <3>2. FindRight(find, t) => FindRight(find, u)
      BY <2>1, <2>3, DialectDisplays
    <3>3. QED
      BY <1>3, <2>1, <3>1, <3>2 DEF FindOk
  <2>4. QED
    BY <2>2, <2>3
<1>4. QED
  BY <1>2, <1>3

LEMMA FindHeld ==
  ASSUME NEW j, NEW ts, FindOk(j, ts), NEW us,
         j.table # 0 => Held(j.table, us) /\ us[j.table] = ts[j.table]
  PROVE  FindOk(j, us)
BY DEF FindOk

LEMMA ExportCarried ==
  ASSUME ExportTyped(export, tables), NEW ts, Later(ts)
  PROVE  LET j == Disturbed(export, ts) IN ExportTyped(j, ts) /\ j.table = export.table
<1>1. export \in ExportJob
  BY DEF ExportTyped
<1>2. CASE export.table = 0
  BY <1>2 DEF ExportTyped, Disturbed
<1>3. CASE export.table # 0
  <2>1. Held(export.table, ts)
    BY <1>3 DEF ExportTyped, Later
  <2> DEFINE j == [export EXCEPT !.steady = FALSE]
  <2>2. j \in ExportJob /\ j.table = export.table /\ j.phase = export.phase
    BY <1>1 DEF ExportJob
  <2>3. Disturbed(export, ts) = j \/ Disturbed(export, ts) = export
    BY DEF Disturbed
  <2> HIDE DEF j
  <2>4. QED
    BY <1>3, <2>1, <2>2, <2>3 DEF ExportTyped
<1>4. QED
  BY <1>2, <1>3

LEMMA ExportHeld ==
  ASSUME NEW j, NEW ts, ExportTyped(j, ts), NEW us,
         j.table # 0 => Held(j.table, us) /\ us[j.table] = ts[j.table]
  PROVE  ExportTyped(j, us)
BY DEF ExportTyped

LEMMA CtlHeld ==
  ASSUME NEW c, NEW ts, CtlTyped(c, ts), NEW us,
         c.table # 0 => Held(c.table, us) /\ us[c.table].dialect = ts[c.table].dialect
  PROVE  CtlTyped(c, us)
BY DEF CtlTyped

LEMMA NoJobs ==
  ASSUME NEW ts PROVE FindOk(NoFind, ts) /\ ExportTyped(NoExport, ts)
<1>1. 0 \in 0 .. MaxTables /\ 0 \in Row
  BY BoundAssumption, FileAssumption DEF Row
<1>2. Identity \in View
  BY DEF Identity, View
<1>3. <<>> \in Seq(Row)
  OBVIOUS
<1>4. NoFind \in FindJob /\ NoFind.table = 0
  BY <1>1 DEF NoFind, FindJob
<1>5. NoExport \in ExportJob /\ NoExport.table = 0
  BY <1>1, <1>2, <1>3 DEF NoExport, ExportJob
<1>6. NoFind.row = None
  BY DEF NoFind
<1>7. QED
  BY <1>4, <1>5, <1>6 DEF FindOk, ExportTyped

------------------------------------------------------------------------------
LEMMA OpenedTyped ==
  ASSUME NEW d \in Dialect, NEW cached \in BOOLEAN
  PROVE  Opened(d, cached) \in Table /\ Opened(d, cached).dialect = d
<1>1. 0 \in Row /\ Records \in Row
  BY FileAssumption DEF Row
<1>2. Identity \in View
  BY DEF Identity, View
<1>3. QED
  BY <1>1, <1>2 DEF Opened, Table

LEMMA SetViewTyped ==
  ASSUME NEW t \in Table, NEW view \in View
  PROVE  SetView(t, view) \in Table /\ SetView(t, view).dialect = t.dialect
<1>1. LET u == [t EXCEPT !.asked = view] IN u \in Table /\ u.dialect = t.dialect
  BY DEF Table
<1>2. LET u == [t EXCEPT !.asked = view, !.shown = view] IN u \in Table /\ u.dialect = t.dialect
  BY DEF Table
<1>3. QED
  BY <1>1, <1>2 DEF SetView

LEMMA SniffedTyped == Sniffed \in Dialect
BY FileAssumption DEF Sniffed, Dialect

LEMMA FreshTyped ==
  ASSUME NEW k \in 0 .. MaxTables, NEW d \in Dialect, NEW auto \in BOOLEAN
  PROVE  /\ Fresh(k, d, auto) \in Controls
         /\ Fresh(k, d, auto).table = k /\ Fresh(k, d, auto).dialect = d
         /\ Fresh(k, d, auto).lead = None
         /\ Fresh(k, d, auto).width = Width[d.delimiter]
         /\ Fresh(k, d, auto).visible = 0 .. Width[d.delimiter] - 1
<1>1. d.delimiter \in Delimiters
  BY DEF Dialect
<1>2. Width[d.delimiter] \in Nat /\ Columns(d.delimiter) \subseteq AllColumns
  BY <1>1, FileAssumption DEF AllColumns
<1>3. Identity \in View
  BY DEF Identity, View
<1>4. QED
  BY <1>2, <1>3 DEF Fresh, Controls, Columns

(* What is saved of typed controls.                                         *)
LEMMA DesiredTyped ==
  ASSUME NEW c \in Controls PROVE Desired(c) \in View
BY DEF Controls, Desired, View

LEMMA SnapshotOk ==
  ASSUME NEW c \in Controls, c.visible \subseteq 0 .. c.width - 1
  PROVE  SavedOk(Snapshot(c))
<1>1. Desired(c) \in View
  BY DesiredTyped
<1>2. c.width \in Nat /\ c.visible \in SUBSET AllColumns /\ c.dialect.delimiter \in Delimiters
  BY DEF Controls, Dialect
<1>3. (IF c.auto THEN None ELSE c.dialect.delimiter) \in Delimiters \cup {None}
  BY <1>2
<1>4. Snapshot(c) \in Saved
  BY <1>1, <1>2, <1>3 DEF Snapshot, Saved
<1>5. Snapshot(c).visible = c.visible /\ Snapshot(c).width = c.width
  BY DEF Snapshot
<1>6. QED
  BY <1>4, <1>5 DEF SavedOk

LEMMA AppliedTyped ==
  ASSUME NEW s \in Saved, s.visible \subseteq 0 .. s.width - 1,
         NEW c \in Controls, c.visible \subseteq 0 .. c.width - 1
  PROVE  LET a == Applied(s, c)
         IN  /\ a \in Controls /\ a.table = c.table /\ a.width = c.width /\ a.lead = c.lead
             /\ a.visible \subseteq 0 .. a.width - 1
<1> DEFINE seen == IF s.width = c.width THEN s.visible ELSE c.visible
           on == s.view.query # NoQuery
           sort == s.view.sort
           text == s.view.query
<1>1. seen \in SUBSET AllColumns /\ seen \subseteq 0 .. c.width - 1
  BY DEF Saved, Controls
<1>2. sort \in Sort \cup {None} /\ text \in {Query, BadQuery, NoQuery} /\ on \in BOOLEAN
  BY DEF Saved, View
<1> DEFINE a == [c EXCEPT !.visible = seen, !.sort = sort, !.search = text, !.filter = on]
<1>3. Applied(s, c) = a
  BY DEF Applied
<1> HIDE DEF seen, on, sort, text
<1>4. a \in Controls
  BY <1>1, <1>2 DEF Controls
<1>5. a.table = c.table /\ a.width = c.width /\ a.lead = c.lead /\ a.visible = seen
  BY DEF Controls
<1>6. QED
  BY <1>1, <1>3, <1>4, <1>5

------------------------------------------------------------------------------
(* The steps. *)

LEMMA InitTyped == Init => Typed
<1> SUFFICES ASSUME Init PROVE Typed
  OBVIOUS
<1>1. tables = <<>> /\ TablesOk(<<>>)
  <2>1. <<>> \in Seq(Table \cup {None}) /\ Len(<<>>) = 0
    OBVIOUS
  <2>2. QED
    BY <2>1, BoundAssumption DEF Init, TablesOk
<1>2. CtlTyped(ctl, tables)
  <2>1. ctl = Fresh(0, Sniffed, TRUE) /\ 0 \in 0 .. MaxTables
    BY BoundAssumption DEF Init, Closed
  <2>2. /\ ctl \in Controls /\ ctl.table = 0 /\ ctl.lead = None
        /\ ctl.visible \subseteq 0 .. ctl.width - 1
    BY <2>1, FreshTyped, SniffedTyped
  <2>3. QED
    BY <2>2 DEF CtlTyped
<1>3. FindOk(find, tables) /\ ExportTyped(export, tables)
  BY NoJobs DEF Init
<1>4. SavedOk(disk) /\ SavedOk(left)
  BY SavedAssumption DEF Init, SavedOk
<1>5. file = "other" /\ quiet = FALSE /\ edits = 0 /\ 0 \in 0 .. MaxEdits
  BY BoundAssumption DEF Init
<1>6. QED
  BY <1>1, <1>2, <1>3, <1>4, <1>5 DEF Typed

(* A step in which only tables and the histories of the jobs change.        *)
LEMMA TablesTyped ==
  ASSUME Typed, Later(tables'), find' = Disturbed(find, tables'),
         export' = Disturbed(export, tables'), UNCHANGED <<ctl, file, disk, left, quiet, edits>>
  PROVE  Typed'
<1>1. FindOk(find', tables') /\ ExportTyped(export', tables')
  BY FindCarried, ExportCarried DEF Typed
<1>2. CtlTyped(ctl, tables')
  <2>1. CtlTyped(ctl, tables) /\
        (ctl.table # 0 => Held(ctl.table, tables') /\ tables'[ctl.table].dialect = tables[ctl.table].dialect)
    BY DEF Typed, CtlTyped, Later
  <2>2. QED
    BY <2>1, CtlHeld
<1>3. TablesOk(tables')
  BY DEF Later
<1>4. QED
  BY <1>1, <1>2, <1>3 DEF Typed

LEMMA InUseTable ==
  ASSUME TablesOk(tables), NEW k \in 1 .. Len(tables), tables[k] # None
  PROVE  Held(k, tables)
BY DEF TablesOk, Held

LEMMA IndexTyped ==
  ASSUME Typed, NEW k \in 1 .. Len(tables), IndexGrows(k) \/ IndexLands(k)
  PROVE  Typed'
<1> DEFINE t == tables[k]
<1>1. Held(k, tables) /\ t \in Table
  BY InUseTable DEF Typed, IndexGrows, IndexLands, Held
<1>2. PICK x \in Table :
        tables' = [tables EXCEPT ![k] = x] /\ x.dialect = t.dialect /\ x.shown = t.shown
  <2>1. CASE IndexGrows(k)
    <3> DEFINE front == t.frontier + IndexBatch
               x == [t EXCEPT !.frontier = front]
    <3>1. tables' = [tables EXCEPT ![k] = x] /\ front < Records
      BY <2>1 DEF IndexGrows
    <3>2. front \in Row
      BY <1>1, <3>1, TableTyped, BatchAssumption, FileAssumption DEF Row
    <3> HIDE DEF t, front
    <3>3. x \in Table /\ x.dialect = t.dialect /\ x.shown = t.shown
      BY <1>1, <3>2 DEF Table
    <3>4. QED
      BY <3>1, <3>3
  <2>2. CASE IndexLands(k)
    <3> DEFINE x == [t EXCEPT !.indexed = TRUE, !.frontier = Records]
    <3>1. tables' = [tables EXCEPT ![k] = x]
      <4>1. k \in DOMAIN tables
        BY <1>1 DEF Held
      <4>2. QED
        BY <2>2, <4>1 DEF IndexLands
    <3>2. Records \in Row
      BY FileAssumption DEF Row
    <3> HIDE DEF t
    <3>3. x \in Table /\ x.dialect = t.dialect /\ x.shown = t.shown
      BY <1>1, <3>2 DEF Table
    <3>4. QED
      BY <3>1, <3>3
  <2>3. QED
    BY <2>1, <2>2
<1>3. Later(tables') /\ tables'[k] = x
  BY <1>1, <1>2, LaterChanged DEF Typed
<1>4. \A i : i # k => tables'[i] = tables[i]
  BY <1>2
<1>5. UNCHANGED <<ctl, find, export, file, disk, left, quiet, edits>>
  BY DEF IndexGrows, IndexLands
<1>6. \A i : tables'[i].shown = tables[i].shown
  BY <1>2, <1>3, <1>4
<1>7. find' = Disturbed(find, tables') /\ export' = Disturbed(export, tables')
  BY <1>5, <1>6 DEF Disturbed
<1>8. QED
  BY <1>3, <1>5, <1>7, TablesTyped

LEMMA ViewLandsTyped ==
  ASSUME Typed, NEW k \in 1 .. Len(tables), ViewLands(k)
  PROVE  Typed'
<1> DEFINE t == tables[k]
           x == [t EXCEPT !.shown = t.asked]
<1>1. Held(k, tables) /\ t \in Table
  BY InUseTable DEF Typed, ViewLands, Held
<1>2. tables' = [tables EXCEPT ![k] = x]
  BY DEF ViewLands
<1>3. x \in Table /\ x.dialect = t.dialect
  <2>1. t.asked \in View
    BY <1>1, TableTyped
  <2> HIDE DEF t
  <2>2. QED
    BY <1>1, <2>1 DEF Table
<1> HIDE DEF x
<1>4. Later(tables')
  BY <1>1, <1>2, <1>3, LaterChanged DEF Typed
<1>5. QED
  BY <1>4, TablesTyped DEF ViewLands

LEMMA OpenFileTyped == ASSUME Typed, OpenFile PROVE Typed'
<1> DEFINE auto == disk = None \/ disk.delimiter = None
           dialect == IF auto THEN Sniffed ELSE [Sniffed EXCEPT !.delimiter = disk.delimiter]
           k == Len(tables) + 1
           fresh == Fresh(k, dialect, auto)
<1>1. PICK cached \in BOOLEAN :
        /\ ctl' = IF disk = None THEN fresh ELSE Applied(disk, fresh)
        /\ tables' = Append(tables, Opened(dialect, cached))
  BY DEF OpenFile
<1>2. UNCHANGED <<find, export, file, disk, left, edits>> /\ quiet' = FALSE /\ FreeTable
  BY DEF OpenFile
<1>3. auto \in BOOLEAN /\ dialect \in Dialect
  <2>1. ~auto => disk.delimiter \in Delimiters
    BY DEF Typed, SavedOk, Saved
  <2> HIDE DEF auto
  <2>2. QED
    BY <2>1, SniffedTyped DEF Dialect, auto
<1> HIDE DEF dialect, auto
<1>4. Opened(dialect, cached) \in Table /\ Opened(dialect, cached).dialect = dialect
  BY <1>3, OpenedTyped
<1>5. /\ Later(tables') /\ Held(k, tables') /\ tables'[k].dialect = dialect
      /\ k \in 0 .. MaxTables
  BY <1>1, <1>2, <1>4, LaterAppended DEF Typed
<1>6. \A i \in DOMAIN tables : tables'[i] = tables[i]
  BY <1>1 DEF Typed, TablesOk
<1>7. CtlTyped(ctl', tables')
  <2> HIDE DEF k
  <2>1. /\ fresh \in Controls /\ fresh.table = k /\ fresh.lead = None
        /\ fresh.width = Width[dialect.delimiter]
        /\ fresh.visible \subseteq 0 .. fresh.width - 1
    <3>1. k \in 0 .. MaxTables /\ dialect \in Dialect /\ auto \in BOOLEAN
      BY <1>3, <1>5
    <3>2. /\ fresh \in Controls /\ fresh.table = k /\ fresh.lead = None
          /\ fresh.width = Width[dialect.delimiter]
          /\ fresh.visible = 0 .. Width[dialect.delimiter] - 1
      BY <3>1, FreshTyped
    <3> HIDE DEF fresh
    <3>3. QED
      BY <3>2
  <2> HIDE DEF fresh
  <2>2. CASE disk = None
    BY <1>1, <1>5, <2>1, <2>2 DEF CtlTyped
  <2>3. CASE disk # None
    <3>1. disk \in Saved /\ disk.visible \subseteq 0 .. disk.width - 1
      BY <2>3 DEF Typed, SavedOk
    <3>2. ctl' = Applied(disk, fresh)
      BY <1>1, <2>3
    <3>3. /\ ctl' \in Controls /\ ctl'.table = k /\ ctl'.width = fresh.width
          /\ ctl'.lead = None /\ ctl'.visible \subseteq 0 .. ctl'.width - 1
      BY <2>1, <3>1, <3>2, AppliedTyped
    <3>4. QED
      BY <1>5, <2>1, <3>3 DEF CtlTyped
  <2>4. QED
    BY <2>2, <2>3
<1>8. FindOk(find', tables') /\ ExportTyped(export', tables')
  <2>1. \A i : Held(i, tables) => Held(i, tables') /\ tables'[i] = tables[i]
    BY <1>5, <1>6 DEF Later, Held
  <2>2. FindOk(find, tables) /\ ExportTyped(export, tables)
    BY DEF Typed
  <2>3. /\ find.table # 0 => Held(find.table, tables)
        /\ export.table # 0 => Held(export.table, tables)
    BY <2>2 DEF FindOk, ExportTyped
  <2>4. FindOk(find, tables') /\ ExportTyped(export, tables')
    BY <2>1, <2>2, <2>3, FindHeld, ExportHeld
  <2>5. QED
    BY <1>2, <2>4
<1>9. QED
  BY <1>2, <1>5, <1>7, <1>8 DEF Typed, Later

(* Referred keeps what the new controls and jobs promise.                   *)
LEMMA KeptTyped ==
  ASSUME NEW ts, TablesOk(ts), CtlTyped(ctl', ts), FindOk(find', ts), ExportTyped(export', ts),
         NEW c, NEW jobs, tables' = Referred(ts, c, jobs),
         ctl'.table # 0 => ctl'.table = c.table,
         find'.table # 0 => find'.table = c.table \/ \E j \in jobs : j.table = find'.table,
         export'.table # 0 => export'.table = c.table \/ \E j \in jobs : j.table = export'.table
  PROVE  /\ TablesOk(tables') /\ CtlTyped(ctl', tables')
         /\ FindOk(find', tables') /\ ExportTyped(export', tables')
<1>1. /\ TablesOk(tables')
      /\ \A k : Held(k, ts) /\ (k = c.table \/ \E j \in jobs : j.table = k) =>
           Held(k, tables') /\ tables'[k] = ts[k]
  BY ReferredTyped
<1>2. CtlTyped(ctl', tables')
  <2>1. ctl'.table # 0 => Held(ctl'.table, ts)
    BY DEF CtlTyped
  <2>2. QED
    BY <1>1, <2>1, CtlHeld
<1>3. FindOk(find', tables')
  <2>1. find'.table # 0 => Held(find'.table, ts)
    BY DEF FindOk
  <2>2. QED
    BY <1>1, <2>1, FindHeld
<1>4. ExportTyped(export', tables')
  <2>1. export'.table # 0 => Held(export'.table, ts)
    BY DEF ExportTyped
  <2>2. QED
    BY <1>1, <2>1, ExportHeld
<1>5. QED
  BY <1>1, <1>2, <1>3, <1>4

LEMMA CloseTyped == ASSUME Typed, Close PROVE Typed'
<1>1. /\ UNCHANGED <<export, file, disk, edits>> /\ ctl' = Closed /\ find' = NoFind
      /\ tables' = Referred(tables, ctl', {export}) /\ quiet' = FALSE
      /\ left' = IF quiet THEN Snapshot(ctl) ELSE None
  BY DEF Close
<1>2. CtlTyped(ctl', tables) /\ ctl'.table = 0
  <2>1. ctl' = Fresh(0, Sniffed, TRUE) /\ 0 \in 0 .. MaxTables
    BY <1>1, BoundAssumption DEF Closed
  <2>2. /\ ctl' \in Controls /\ ctl'.table = 0 /\ ctl'.lead = None
        /\ ctl'.visible \subseteq 0 .. ctl'.width - 1
    BY <2>1, FreshTyped, SniffedTyped
  <2>3. QED
    BY <2>2 DEF CtlTyped
<1>3. FindOk(find', tables) /\ find'.table = 0
  BY <1>1, NoJobs DEF NoFind
<1>4. TablesOk(tables) /\ ExportTyped(export', tables)
  BY <1>1 DEF Typed
<1>5. /\ TablesOk(tables') /\ CtlTyped(ctl', tables')
      /\ FindOk(find', tables') /\ ExportTyped(export', tables')
  BY <1>1, <1>2, <1>3, <1>4, KeptTyped
<1>6. SavedOk(left')
  BY <1>1, SnapshotOk DEF Typed, CtlTyped, SavedOk
<1>7. QED
  BY <1>1, <1>5, <1>6 DEF Typed

LEMMA DismissTyped == ASSUME Typed, DismissExport PROVE Typed'
<1>1. /\ UNCHANGED <<ctl, find, file, disk, left, quiet, edits>> /\ export' = NoExport
      /\ tables' = Referred(tables, ctl, {find})
  BY DEF DismissExport
<1>2. ExportTyped(export', tables) /\ export'.table = 0
  BY <1>1, NoJobs DEF NoExport
<1>3. TablesOk(tables) /\ CtlTyped(ctl', tables) /\ FindOk(find', tables)
  BY <1>1 DEF Typed
<1>4. /\ TablesOk(tables') /\ CtlTyped(ctl', tables')
      /\ FindOk(find', tables') /\ ExportTyped(export', tables')
  BY <1>1, <1>2, <1>3, KeptTyped
<1>5. QED
  BY <1>1, <1>4 DEF Typed

LEMMA FindWindowTyped == ASSUME Typed, FindWindow PROVE Typed'
<1>1. FindOk(find', tables)
  BY FindWindowFinds DEF Typed
<1>2. UNCHANGED <<ctl, tables, export, file, disk, left, quiet, edits>>
  BY DEF FindWindow
<1>3. QED
  BY <1>1, <1>2 DEF Typed

------------------------------------------------------------------------------
(* The frames. *)

(* The controls after edits: still of the table on screen.                  *)
Edited(e) ==
  CtlTyped(e, tables) /\ e.table = ctl.table /\ (e.dialect # ctl.dialect => FreeTable)

(* What a reaction leaves behind.                                           *)
Reacted(r) ==
  /\ Later(r.tables) /\ CtlTyped(r.ctl, r.tables) /\ r.ctl.table # 0
  /\ SavedOk(r.disk)

LEMMA ViewAppliedTyped ==
  ASSUME Typed, InUse, NEW e, Edited(e) PROVE Reacted(ViewApplied(e))
<1> DEFINE desired == Desired(e)
           news == desired # e.applied
           bad == desired.query = BadQuery
           told == [e EXCEPT !.applied = desired, !.error = bad]
           x == SetView(tables[e.table], desired)
           ts == [tables EXCEPT ![e.table] = x]
           r == ViewApplied(e)
<1>1. /\ e \in Controls /\ e.table # 0 /\ Held(e.table, tables) /\ tables[e.table] \in Table
      /\ e.visible \subseteq 0 .. e.width - 1
  BY DEF Edited, CtlTyped, InUse, Held
<1>2. desired \in View
  BY <1>1, DesiredTyped
<1> HIDE DEF desired
<1>3. bad \in BOOLEAN
  OBVIOUS
<1> HIDE DEF bad
<1>4. /\ told \in Controls /\ told.table = e.table /\ told.width = e.width
      /\ told.visible = e.visible /\ told.lead = e.lead
  BY <1>1, <1>2, <1>3 DEF Controls
<1>5. x \in Table /\ x.dialect = tables[e.table].dialect
  BY <1>1, <1>2, SetViewTyped
<1> HIDE DEF told, x
<1>6. TablesOk(tables) /\ Later(tables) /\ Later(ts)
  BY <1>1, <1>5, LaterChanged, LaterItself DEF Typed
<1> HIDE DEF ts
<1>7. /\ r.ctl = IF news THEN told ELSE e
      /\ r.tables = IF news THEN ts ELSE tables
      /\ r.disk = Snapshot(IF news THEN told ELSE e)
  BY DEF ViewApplied, desired, bad, told, ts, x
<1> HIDE DEF r, news
<1>8. Later(r.tables)
  BY <1>6, <1>7
<1>9. r.ctl.table = e.table /\ CtlTyped(r.ctl, tables)
  BY <1>1, <1>4, <1>7 DEF Edited, CtlTyped
<1>10. CtlTyped(r.ctl, r.tables)
  <2>1. Held(e.table, r.tables) /\ r.tables[e.table].dialect = tables[e.table].dialect
    BY <1>1, <1>8 DEF Later
  <2>2. QED
    BY <1>9, <2>1, CtlHeld
<1>11. SavedOk(r.disk)
  <2>1. r.disk = Snapshot(r.ctl)
    BY <1>7
  <2>2. QED
    BY <1>9, <2>1, SnapshotOk DEF CtlTyped
<1>12. QED
  BY <1>1, <1>8, <1>9, <1>10, <1>11 DEF Reacted, r

LEMMA ReopenedTyped ==
  ASSUME Typed, InUse, FreeTable, NEW e, Edited(e), NEW r \in Reopened(e)
  PROVE  Reacted(r)
<1> DEFINE width == Width[e.dialect.delimiter]
           k == Len(tables) + 1
           wide == [e EXCEPT !.width = width, !.visible = 0 .. width - 1]
           c == IF width # e.width THEN wide ELSE e
           told == [c EXCEPT !.table = k]
<1>1. PICK cached \in BOOLEAN :
        r = [ctl |-> told, tables |-> Append(tables, Opened(e.dialect, cached)), disk |-> disk]
  BY DEF Reopened
<1>2. e \in Controls /\ e.dialect \in Dialect /\ e.visible \subseteq 0 .. e.width - 1
      /\ e.dialect.delimiter \in Delimiters
  BY DEF Edited, CtlTyped, Controls, Dialect
<1>3. width \in Nat /\ 0 .. width - 1 \in SUBSET AllColumns
  BY <1>2, FileAssumption DEF AllColumns, Columns
<1> HIDE DEF width
<1>4. /\ wide \in Controls /\ wide.dialect = e.dialect /\ wide.width = width
      /\ wide.visible = 0 .. width - 1 /\ wide.lead = e.lead
  BY <1>2, <1>3 DEF Controls
<1> HIDE DEF wide
<1>5. /\ c \in Controls /\ c.width = width /\ c.visible \subseteq 0 .. width - 1
      /\ c.lead = e.lead
  BY <1>2, <1>4
<1> HIDE DEF c
<1>6. Opened(e.dialect, cached) \in Table /\ Opened(e.dialect, cached).dialect = e.dialect
  BY <1>2, OpenedTyped
<1>7. /\ Later(r.tables) /\ Held(k, r.tables) /\ r.tables[k].dialect = e.dialect
      /\ k \in 0 .. MaxTables
  BY <1>1, <1>6, LaterAppended DEF Typed
<1>8. k # 0
  <2>1. Len(tables) \in Nat
    BY DEF Typed, TablesOk
  <2>2. QED
    BY <2>1
<1> HIDE DEF k
<1>9. /\ told \in Controls /\ told.table = k /\ told.width = width
      /\ told.visible = c.visible /\ told.lead = c.lead
  BY <1>5, <1>7 DEF Controls
<1> HIDE DEF told
<1>10. r.ctl = told /\ r.disk = disk
  BY <1>1
<1>11. CtlTyped(r.ctl, r.tables)
  BY <1>5, <1>7, <1>9, <1>10 DEF CtlTyped, Edited, width
<1>12. QED
  BY <1>7, <1>8, <1>9, <1>10, <1>11 DEF Reacted, Typed

LEMMA ReactionTyped ==
  ASSUME Typed, InUse, NEW e, Edited(e), NEW r \in Reactions(e)
  PROVE  Reacted(r)
<1>1. CASE e.dialect # ctl.dialect /\ r \in Reopened(e)
  BY <1>1, ReopenedTyped DEF Edited
<1>2. CASE r = [ctl |-> e, tables |-> tables, disk |-> disk]
  BY <1>2, LaterItself DEF Typed, Edited, InUse, Reacted
<1>3. CASE r = ViewApplied(e)
  BY <1>3, ViewAppliedTyped
<1>4. QED
  BY <1>1, <1>2, <1>3 DEF Reactions

(* A scan that starts has been through nothing.                             *)
LEMMA ScanOk ==
  ASSUME Typed, NEW r, Reacted(r), NEW forward \in BOOLEAN
  PROVE  LET j == Scan(r, forward)
         IN  /\ j.table = find.table \/ j.table = r.ctl.table
             /\ j.row # None => j.row < Records
             /\ j.row \in Row \cup {None}
             /\ ~j.done => FindOk(j, r.tables)
<1> DEFINE j == Scan(r, forward)
           t == r.tables[r.ctl.table]
           total == RowCount(t).rows
           lead == r.ctl.lead
           from == IF lead = None THEN IF forward THEN 0 ELSE total - 1
                   ELSE IF forward THEN lead + 1 ELSE lead - 1
           job == [table |-> r.ctl.table, columns |-> r.ctl.visible,
                   from |-> from, forward |-> forward, total |-> total, at |-> from,
                   done |-> from >= total, row |-> None, steady |-> TRUE]
<1>1. /\ r.ctl \in Controls /\ r.ctl.table # 0 /\ Held(r.ctl.table, r.tables) /\ t \in Table
      /\ lead \in Row \cup {None} /\ (lead # None => lead < Records)
      /\ r.ctl.visible \in SUBSET AllColumns /\ r.ctl.table \in 0 .. MaxTables
  BY DEF Reacted, CtlTyped, Held, Controls
<1>2. total \in Row
  BY <1>1, RowCountType
<1>3. CASE j = Disturbed(find, r.tables)
  <2>1. FindOk(j, r.tables) /\ j.table = find.table
    BY <1>3, FindCarried DEF Typed, Reacted
  <2> HIDE DEF j
  <2>2. j \in FindJob /\ (j.row # None => j.row < Records)
    BY <2>1 DEF FindOk
  <2>3. QED
    BY <2>1, <2>2, FindJobTyped DEF j
<1>4. CASE j # Disturbed(find, r.tables)
  <2>1. j = job /\ total # 0 /\ (lead = 0 => forward)
    BY <1>4 DEF Scan
  <2> HIDE DEF j, t, total, lead
  <2>2. from \in Row
    BY <1>1, <1>2, <2>1, FileAssumption DEF Row
  <2> DEFINE late == from >= total
  <2>3. late \in BOOLEAN /\ (~late => from < total)
    <3>1. from \in Int /\ total \in Int
      BY <1>2, <2>2, FileAssumption DEF Row
    <3> HIDE DEF from
    <3>2. QED
      BY <3>1
  <2> DEFINE w == r.ctl.table
             seen == r.ctl.visible
  <2>4. job = [table |-> w, columns |-> seen,
               from |-> from, forward |-> forward, total |-> total, at |-> from,
               done |-> late, row |-> None, steady |-> TRUE]
    OBVIOUS
  <2>5. w \in 0 .. MaxTables /\ seen \in SUBSET AllColumns
    BY <1>1
  <2> HIDE DEF w, seen, from, late, job
  <2>6. job \in FindJob
    BY <1>2, <2>2, <2>3, <2>4, <2>5 DEF FindJob
  <2>7. /\ job.table = w /\ job.row = None /\ job.done = late /\ job.from = from
        /\ job.at = from /\ job.total = total /\ job.forward = forward
    BY <2>4
  <2>8. Passed(job) = {}
    <3>1. from \in Int
      BY <2>2, FileAssumption DEF Row
    <3>2. QED
      BY <2>7, <3>1 DEF Passed
  <2>9. ASSUME ~job.done PROVE FindOk(job, r.tables)
    <3>1. from < total /\ from <= from
      BY <2>2, <2>3, <2>7, <2>9, FileAssumption DEF Row
    <3>2. \A u : FindRight(job, u)
      BY <2>8, <2>9 DEF FindRight
    <3>3. w # 0 /\ Held(w, r.tables)
      BY <1>1 DEF w
    <3>4. QED
      BY <2>6, <2>7, <2>9, <3>1, <3>2, <3>3 DEF FindOk
  <2>10. QED
    BY <2>1, <2>7, <2>9 DEF w, j
<1>5. QED
  BY <1>3, <1>4

(* What the find result does to the controls, and then the grid.            *)
Led(c, d) == d = c \/ \E row : row < Records /\ row \in Row /\ d = [c EXCEPT !.lead = row]
Sorted(c, d) ==
  \E sort : sort \in Sort \cup {None} /\ d = [c EXCEPT !.sort = sort]

LEMMA LedTyped ==
  ASSUME NEW c, NEW ts, CtlTyped(c, ts), NEW d, Led(c, d) \/ Sorted(c, d)
  PROVE  CtlTyped(d, ts) /\ d.table = c.table
<1>1. c \in Controls
  BY DEF CtlTyped
<1>2. ASSUME NEW row \in Row, row < Records, d = [c EXCEPT !.lead = row]
      PROVE  CtlTyped(d, ts) /\ d.table = c.table
  <2>1. /\ d \in Controls /\ d.lead = row /\ d.table = c.table /\ d.width = c.width
        /\ d.visible = c.visible
    BY <1>1, <1>2 DEF Controls
  <2>2. QED
    BY <1>2, <2>1 DEF CtlTyped
<1>3. ASSUME NEW sort \in Sort \cup {None}, d = [c EXCEPT !.sort = sort]
      PROVE  CtlTyped(d, ts) /\ d.table = c.table
  <2>1. /\ d \in Controls /\ d.lead = c.lead /\ d.table = c.table /\ d.width = c.width
        /\ d.visible = c.visible
    BY <1>1, <1>3 DEF Controls
  <2>2. QED
    BY <2>1 DEF CtlTyped
<1>4. QED
  BY <1>2, <1>3 DEF Led, Sorted

(* A frame: the controls e, the find button and the export chosen; what the *)
(* grid does is a change of lead or sort.                                   *)
Framed(e, want, scope, r, c) ==
  LET job == IF want = None THEN Disturbed(find, r.tables)
             ELSE Scan(r, want = "next")
  IN  /\ r \in Reactions(e)
      /\ c = IF job.done /\ job.row # None THEN [r.ctl EXCEPT !.lead = job.row] ELSE r.ctl
      /\ Led(c, ctl') \/ Sorted(c, ctl')
      /\ disk' = r.disk
      /\ find' = IF job.done THEN NoFind ELSE job
      /\ export' = IF scope = None THEN Disturbed(export, r.tables) ELSE Exporting(r, scope)
      /\ tables' = Referred(r.tables, ctl', {find', export'})
      /\ UNCHANGED <<file, left>>

LEMMA ExportingTyped ==
  ASSUME NEW r, Reacted(r), NEW scope \in {"view", "source"}
  PROVE  ExportTyped(Exporting(r, scope), r.tables)
<1> DEFINE k == r.ctl.table
           shown == r.tables[k].shown
           job == Exporting(r, scope)
<1>1. k \in 0 .. MaxTables /\ k # 0 /\ Held(k, r.tables) /\ shown \in View
  BY TableTyped DEF Reacted, CtlTyped, Held, Controls
<1>2. job = [table |-> k, scope |-> scope, phase |-> "create", total |-> 0, written |-> <<>>,
             cancelled |-> FALSE, shown |-> shown, steady |-> TRUE]
  BY DEF Exporting
<1> HIDE DEF k, shown
<1>3. 0 \in Row /\ <<>> \in Seq(Row)
  BY FileAssumption DEF Row
<1>4. job \in ExportJob
  BY <1>1, <1>2, <1>3 DEF ExportJob
<1>5. job.table = k /\ job.phase = "create"
  BY <1>2
<1>6. QED
  BY <1>1, <1>4, <1>5 DEF ExportTyped

LEMMA FrameTyped ==
  ASSUME Typed, InUse, NEW e, Edited(e), NEW want,
         NEW scope, scope \in {None, "view", "source"}, NEW r, NEW c,
         Framed(e, want, scope, r, c)
  PROVE  /\ TablesOk(tables') /\ CtlTyped(ctl', tables')
         /\ FindOk(find', tables') /\ ExportTyped(export', tables')
         /\ SavedOk(disk') /\ SavedOk(left') /\ file' = file
<1> DEFINE job == IF want = None THEN Disturbed(find, r.tables) ELSE Scan(r, want = "next")
<1>1. /\ r \in Reactions(e)
      /\ c = IF job.done /\ job.row # None THEN [r.ctl EXCEPT !.lead = job.row] ELSE r.ctl
      /\ Led(c, ctl') \/ Sorted(c, ctl')
      /\ disk' = r.disk
      /\ find' = IF job.done THEN NoFind ELSE job
      /\ export' = IF scope = None THEN Disturbed(export, r.tables) ELSE Exporting(r, scope)
      /\ tables' = Referred(r.tables, ctl', {find', export'})
      /\ UNCHANGED <<file, left>>
  BY DEF Framed
<1>2. Reacted(r)
  BY <1>1, ReactionTyped
<1>3. /\ job.row # None => job.row < Records
      /\ job.row \in Row \cup {None}
      /\ ~job.done => FindOk(job, r.tables)
  <2>1. CASE want = None
    <3>1. FindOk(job, r.tables)
      BY <1>2, <2>1, FindCarried DEF Typed, Reacted
    <3> HIDE DEF job
    <3>2. QED
      BY <3>1, FindJobTyped DEF FindOk
  <2>2. CASE want # None
    <3>1. (want = "next") \in BOOLEAN /\ job = Scan(r, want = "next")
      BY <2>2
    <3> HIDE DEF job
    <3>2. QED
      BY <1>2, <3>1, ScanOk
  <2>3. QED
    BY <2>1, <2>2
<1> HIDE DEF job
<1>4. CtlTyped(c, r.tables)
  <2>1. CtlTyped(r.ctl, r.tables) /\ Led(r.ctl, c)
    BY <1>1, <1>2, <1>3 DEF Reacted, Led
  <2>2. QED
    BY <2>1, LedTyped
<1>5. CtlTyped(ctl', r.tables)
  BY <1>1, <1>4, LedTyped
<1>6. FindOk(find', r.tables)
  BY <1>1, <1>3, NoJobs
<1>7. ExportTyped(export', r.tables)
  <2>1. CASE scope = None
    BY <1>1, <1>2, <2>1, ExportCarried DEF Typed, Reacted
  <2>2. CASE scope # None
    BY <1>1, <1>2, <2>2, ExportingTyped
  <2>3. QED
    BY <2>1, <2>2
<1>8. TablesOk(r.tables)
  BY <1>2 DEF Reacted, Later
<1>9. /\ TablesOk(tables') /\ CtlTyped(ctl', tables')
      /\ FindOk(find', tables') /\ ExportTyped(export', tables')
  BY <1>1, <1>5, <1>6, <1>7, <1>8, KeptTyped
<1>10. SavedOk(disk') /\ SavedOk(left') /\ file' = file
  BY <1>1, <1>2 DEF Reacted, Typed
<1>11. QED
  BY <1>9, <1>10

LEMMA EditFrameTyped ==
  ASSUME Typed, NEW e, InUse => Edited(e), NEW want,
         NEW scope, scope \in {None, "view", "source"}, UserFrame(e, want, scope, Same)
  PROVE  Typed'
<1>1. InUse /\ edits < MaxEdits /\ quiet' = FALSE /\ edits' = edits + 1
  BY DEF UserFrame
<1>2. PICK r, c : Framed(e, want, scope, r, c)
  BY DEF UserFrame, Frame, Same, Framed, Led
<1>3. edits' \in 0 .. MaxEdits
  BY <1>1, BoundAssumption DEF Typed
<1>4. QED
  BY <1>1, <1>2, <1>3, FrameTyped DEF Typed

LEMMA QuietFrameTyped == ASSUME Typed, QuietFrame PROVE Typed'
<1>1. InUse /\ quiet' = TRUE /\ UNCHANGED edits
  BY DEF QuietFrame
<1>2. PICK r, c : Framed(ctl, None, None, r, c)
  BY DEF QuietFrame, Frame, Same, Framed, Led
<1>3. Edited(ctl)
  BY DEF Typed, Edited
<1>4. QED
  BY <1>1, <1>2, <1>3, FrameTyped DEF Typed

LEMMA SelectRowTyped == ASSUME Typed, SelectRow PROVE Typed'
<1>1. PICK row \in 0 .. Records :
        /\ InUse /\ row < RowCount(Current).rows
        /\ UserFrame(ctl, None, None, LAMBDA c : [c EXCEPT !.lead = row])
  BY DEF SelectRow, GridFrame
<1>2. row \in Row /\ row < Records
  <2>1. Current \in Table
    BY <1>1 DEF Typed, CtlTyped, Held, InUse, Current
  <2>2. RowCount(Current).rows \in Row
    BY <2>1, RowCountType
  <2>3. QED
    BY <1>1, <2>2, FileAssumption DEF Row
<1>3. \A c : Led(c, [c EXCEPT !.lead = row])
  BY <1>2 DEF Led
<1>4. PICK r, c : Framed(ctl, None, None, r, c)
  BY <1>1, <1>3 DEF UserFrame, Frame, Framed
<1>5. edits < MaxEdits /\ quiet' = FALSE /\ edits' = edits + 1
  BY <1>1 DEF UserFrame
<1>6. edits' \in 0 .. MaxEdits
  BY <1>5, BoundAssumption DEF Typed
<1>7. Edited(ctl)
  BY DEF Typed, Edited
<1>8. QED
  BY <1>1, <1>4, <1>5, <1>6, <1>7, FrameTyped DEF Typed

LEMMA ClickHeaderTyped == ASSUME Typed, ClickHeader PROVE Typed'
<1>1. PICK column \in ctl.visible :
        UserFrame(ctl, None, None, LAMBDA c : [c EXCEPT !.sort = Cycled(c.sort, column)])
  BY DEF ClickHeader, GridFrame
<1>2. column \in AllColumns
  BY DEF Typed, CtlTyped, Controls
<1>3. \A sort \in Sort \cup {None} : Cycled(sort, column) \in Sort \cup {None}
  BY <1>2 DEF Cycled, Sort
<1>4. PICK r, c :
        LET job == Disturbed(find, r.tables)
        IN  /\ r \in Reactions(ctl)
            /\ c = IF job.done /\ job.row # None THEN [r.ctl EXCEPT !.lead = job.row] ELSE r.ctl
            /\ ctl' = [c EXCEPT !.sort = Cycled(c.sort, column)]
            /\ disk' = r.disk
            /\ find' = IF job.done THEN NoFind ELSE job
            /\ export' = Disturbed(export, r.tables)
            /\ tables' = Referred(r.tables, ctl', {find', export'})
            /\ UNCHANGED <<file, left>>
  BY <1>1 DEF UserFrame, Frame
<1>5. InUse /\ edits < MaxEdits /\ quiet' = FALSE /\ edits' = edits + 1
  BY <1>1 DEF UserFrame
<1>6. edits' \in 0 .. MaxEdits
  BY <1>5, BoundAssumption DEF Typed
<1>7. Edited(ctl)
  BY DEF Typed, Edited
<1>8. c.sort \in Sort \cup {None}
  <2>1. r.ctl \in Controls
    BY <1>4, <1>5, <1>7, ReactionTyped DEF Reacted, CtlTyped
  <2>2. c.sort = r.ctl.sort
    BY <1>4, <2>1 DEF Controls
  <2>3. QED
    BY <2>1, <2>2 DEF Controls
<1>9. Sorted(c, ctl')
  BY <1>3, <1>4, <1>8 DEF Sorted
<1>10. Framed(ctl, None, None, r, c)
  BY <1>4, <1>9 DEF Framed
<1>11. QED
  BY <1>5, <1>6, <1>7, <1>10, FrameTyped DEF Typed

LEMMA EditStepTyped == ASSUME Typed, EditStep \/ Find PROVE Typed'
<1>1. ctl \in Controls /\ CtlTyped(ctl, tables)
  BY DEF Typed, CtlTyped
<1>2. ctl.dialect \in Dialect /\ ctl.dialect.header \in BOOLEAN
  BY <1>1 DEF Controls, Dialect
<1>3. CASE TypeQuery
  <2>1. PICK text \in {Query, BadQuery, NoQuery} : EditFrame([ctl EXCEPT !.search = text])
    BY <1>3 DEF TypeQuery
  <2> DEFINE e == [ctl EXCEPT !.search = text]
  <2>2. /\ e \in Controls /\ e.table = ctl.table /\ e.dialect = ctl.dialect
        /\ e.width = ctl.width /\ e.visible = ctl.visible /\ e.lead = ctl.lead
    BY <1>1 DEF Controls
  <2> HIDE DEF e
  <2>3. Edited(e)
    BY <1>1, <2>2 DEF Edited, CtlTyped
  <2>4. QED
    BY <2>1, <2>3, EditFrameTyped DEF EditFrame, e
<1>4. CASE ToggleFilter
  <2> DEFINE on == ~ctl.filter
             e == [ctl EXCEPT !.filter = on]
  <2>1. on \in BOOLEAN
    OBVIOUS
  <2> HIDE DEF on
  <2>2. /\ e \in Controls /\ e.table = ctl.table /\ e.dialect = ctl.dialect
        /\ e.width = ctl.width /\ e.visible = ctl.visible /\ e.lead = ctl.lead
    BY <1>1, <2>1 DEF Controls
  <2>3. EditFrame(e)
    BY <1>4 DEF ToggleFilter, on
  <2> HIDE DEF e
  <2>4. Edited(e)
    BY <1>1, <2>2 DEF Edited, CtlTyped
  <2>5. QED
    BY <2>3, <2>4, EditFrameTyped DEF EditFrame
<1>5. CASE ToggleHeader
  <2> DEFINE on == ~ctl.dialect.header
             e == [ctl EXCEPT !.dialect.header = on]
  <2>1. on \in BOOLEAN
    OBVIOUS
  <2> HIDE DEF on
  <2>2. /\ e \in Controls /\ e.table = ctl.table
        /\ e.width = ctl.width /\ e.visible = ctl.visible /\ e.lead = ctl.lead
    BY <1>1, <1>2, <2>1 DEF Controls, Dialect
  <2>3. EditFrame(e) /\ FreeTable
    BY <1>5 DEF ToggleHeader, on
  <2> HIDE DEF e
  <2>4. Edited(e)
    BY <1>1, <2>2, <2>3 DEF Edited, CtlTyped
  <2>5. QED
    BY <2>3, <2>4, EditFrameTyped DEF EditFrame
<1>6. CASE PickDelimiter \/ AutoDelimiter
  <2>1. PICK d \in Delimiters, auto \in BOOLEAN :
          FreeTable /\ EditFrame([ctl EXCEPT !.dialect.delimiter = d, !.auto = auto])
    <3>1. CASE PickDelimiter
      BY <3>1 DEF PickDelimiter
    <3>2. CASE AutoDelimiter
      <4>1. Detected \in Delimiters /\ TRUE \in BOOLEAN
        BY FileAssumption
      <4>2. FreeTable /\ EditFrame([ctl EXCEPT !.dialect.delimiter = Detected, !.auto = TRUE])
        BY <3>2 DEF AutoDelimiter
      <4>3. QED
        BY <4>1, <4>2
    <3>3. QED
      BY <1>6, <3>1, <3>2
  <2> DEFINE e == [ctl EXCEPT !.dialect.delimiter = d, !.auto = auto]
  <2>2. /\ e \in Controls /\ e.table = ctl.table
        /\ e.width = ctl.width /\ e.visible = ctl.visible /\ e.lead = ctl.lead
    BY <1>1, <1>2, <2>1 DEF Controls, Dialect
  <2>3. EditFrame(e) /\ FreeTable
    BY <2>1
  <2> HIDE DEF e
  <2>4. Edited(e)
    BY <1>1, <2>2, <2>3 DEF Edited, CtlTyped
  <2>5. QED
    BY <2>3, <2>4, EditFrameTyped DEF EditFrame
<1>7. CASE ShowColumns
  <2>1. PICK cs \in SUBSET (0 .. ctl.width - 1) : EditFrame([ctl EXCEPT !.visible = cs])
    BY <1>7 DEF ShowColumns
  <2> DEFINE e == [ctl EXCEPT !.visible = cs]
  <2>2. InUse => cs \in SUBSET AllColumns
    <3> SUFFICES ASSUME InUse PROVE cs \in SUBSET AllColumns
      OBVIOUS
    <3> DEFINE d == tables[ctl.table].dialect
    <3>1. d \in Dialect /\ ctl.width = Width[d.delimiter]
      BY <1>1, TableTyped DEF CtlTyped, Held, InUse
    <3>2. 0 .. ctl.width - 1 = Columns(d.delimiter) /\ d.delimiter \in Delimiters
      BY <3>1 DEF Columns, Dialect
    <3>3. QED
      BY <2>1, <3>2 DEF AllColumns
  <2>3. InUse => /\ e \in Controls /\ e.table = ctl.table /\ e.dialect = ctl.dialect
                 /\ e.width = ctl.width /\ e.visible = cs /\ e.lead = ctl.lead
    BY <1>1, <2>2 DEF Controls
  <2>4. EditFrame(e)
    BY <2>1
  <2> HIDE DEF e
  <2>5. InUse => Edited(e)
    BY <1>1, <2>1, <2>3 DEF Edited, CtlTyped
  <2>6. QED
    BY <2>4, <2>5, EditFrameTyped DEF EditFrame
<1>8. CASE ResetView
  <2> DEFINE d == tables[ctl.table].dialect
             width == Width[d.delimiter]
             seen == Columns(d.delimiter)
             e == [ctl EXCEPT !.width = width, !.visible = seen, !.sort = None,
                              !.search = NoQuery, !.filter = FALSE, !.lead = None]
  <2>1. EditFrame(e) /\ InUse
    BY <1>8 DEF ResetView, Current
  <2>2. d \in Dialect /\ ctl.width = Width[d.delimiter]
    BY <1>1, <2>1, TableTyped DEF CtlTyped, Held, InUse
  <2>3. d.delimiter \in Delimiters
    BY <2>2 DEF Dialect
  <2>4. width \in Nat /\ seen \in SUBSET AllColumns /\ seen = 0 .. width - 1 /\ width = ctl.width
    BY <2>2, <2>3, FileAssumption DEF AllColumns, Columns
  <2> HIDE DEF width, seen, d
  <2>5. /\ e \in Controls /\ e.table = ctl.table /\ e.dialect = ctl.dialect
        /\ e.width = width /\ e.visible = seen /\ e.lead = None
    BY <1>1, <2>4 DEF Controls
  <2> HIDE DEF e
  <2>6. Edited(e)
    BY <1>1, <2>4, <2>5 DEF Edited, CtlTyped
  <2>7. QED
    BY <2>1, <2>6, EditFrameTyped DEF EditFrame
<1>9. CASE Find
  <2>1. PICK want \in {"next", "prev"} : UserFrame(ctl, want, None, Same)
    BY <1>9 DEF Find
  <2>2. Edited(ctl)
    BY <1>1 DEF Edited
  <2>3. QED
    BY <2>1, <2>2, EditFrameTyped
<1>10. QED
  BY <1>3, <1>4, <1>5, <1>6, <1>7, <1>8, <1>9 DEF EditStep

LEMMA StartExportTyped == ASSUME Typed, StartExport PROVE Typed'
<1>1. PICK scope \in {"view", "source"} : UserFrame(ctl, None, scope, Same)
  BY DEF StartExport
<1>2. Edited(ctl)
  BY DEF Typed, Edited
<1>3. QED
  BY <1>1, <1>2, EditFrameTyped

------------------------------------------------------------------------------
(* The export thread. *)

LEMMA ExportGoesTyped ==
  ASSUME Typed, NEW job, NEW path, ExportGoes(job, path), job \in ExportJob,
         job.table = export.table, job.phase # "none", export.phase # "none",
         path \in {"absent", "other", "partial", "stuck", "whole"}
  PROVE  Typed'
<1>1. UNCHANGED <<ctl, tables, find, disk, left, quiet, edits>> /\ export' = job /\ file' = path
  BY DEF ExportGoes
<1>2. export.table # 0
  BY DEF Typed, ExportTyped, NoExport
<1>3. ExportTyped(job, tables)
  BY <1>2 DEF Typed, ExportTyped
<1>4. QED
  BY <1>1, <1>3 DEF Typed

LEMMA ExportRows ==
  ASSUME Typed, export.phase # "none"
  PROVE  /\ tables[export.table] \in Table /\ export \in ExportJob
         /\ MoreToWrite(export) => BatchRows(export) \in Seq(Row)
<1> DEFINE t == tables[export.table]
           k == Progress(export)
           len == Minimum(ExportBatch, export.total - k)
<1>1. t \in Table /\ export \in ExportJob
  BY DEF Typed, ExportTyped, NoExport, Held
<1>2. export.total \in Nat /\ k \in Nat
  BY <1>1, FileAssumption DEF ExportJob, Row, Progress
<1> HIDE DEF t
<1>3. ASSUME MoreToWrite(export) PROVE BatchRows(export) \in Seq(Row)
  <2>1. len \in Nat
    <3>1. k < export.total
      BY <1>3 DEF MoreToWrite
    <3> HIDE DEF k
    <3>2. QED
      BY <1>2, <3>1, BatchAssumption DEF Minimum
  <2>2. BatchRows(export) = IF export.scope = "view" THEN Fetch(t, k, len) ELSE FetchSource(t, k, len)
    BY DEF BatchRows, t
  <2> HIDE DEF k, len
  <2>3. QED
    BY <1>1, <1>2, <2>1, <2>2, FetchType, FetchSourceType
<1>4. QED
  BY <1>1, <1>3 DEF t

LEMMA ExportStepTyped ==
  ASSUME Typed, ExportStep \/ FailExport \/ CancelExport PROVE Typed'
<1>0. file \in {"absent", "other", "partial", "stuck", "whole"}
  BY DEF Typed
<1>1. CASE CreateFile
  <2> DEFINE total == RowCount(tables[export.table]).rows
             job == [export EXCEPT !.phase = "batch", !.total = total]
  <2>1. export.phase = "create" /\ ExportGoes(job, "partial")
    BY <1>1 DEF CreateFile
  <2>2. export \in ExportJob /\ total \in Row
    BY <2>1, ExportRows, RowCountType
  <2> HIDE DEF total
  <2>3. job \in ExportJob /\ job.table = export.table /\ job.phase = "batch"
    BY <2>2 DEF ExportJob
  <2> HIDE DEF job
  <2>4. QED
    BY <2>1, <2>3, ExportGoesTyped
<1>2. CASE WriteBatch
  <2> DEFINE rows == BatchRows(export)
             all == export.written \o rows
             job == [export EXCEPT !.written = all]
  <2>1. MoreToWrite(export) /\ export.phase = "batch" /\ ExportGoes(job, file)
    BY <1>2 DEF WriteBatch, MoreToWrite
  <2>2. export \in ExportJob /\ rows \in Seq(Row)
    BY <2>1, ExportRows
  <2> HIDE DEF rows
  <2>3. all \in Seq(Row)
    BY <2>2 DEF ExportJob
  <2> HIDE DEF all
  <2>4. job \in ExportJob /\ job.table = export.table /\ job.phase = "batch"
    BY <2>1, <2>2, <2>3 DEF ExportJob
  <2> HIDE DEF job
  <2>5. QED
    BY <1>0, <2>1, <2>4, ExportGoesTyped
<1>3. CASE FinishExport
  <2> DEFINE job == [export EXCEPT !.phase = "ok"]
  <2>1. export.phase = "batch" /\ ExportGoes(job, "whole")
    BY <1>3 DEF FinishExport
  <2>2. job \in ExportJob /\ job.table = export.table /\ job.phase = "ok"
    BY <2>1, ExportRows DEF ExportJob
  <2> HIDE DEF job
  <2>3. QED
    BY <2>1, <2>2, ExportGoesTyped
<1>4. CASE SeeCancelled \/ FailExport
  <2> DEFINE job == [export EXCEPT !.phase = "err"]
  <2>0. export.phase # "none" /\ Failed(export)
    BY <1>4 DEF SeeCancelled, FailExport, MoreToWrite, ExportRunning
  <2>1. PICK path \in {"absent", IF export.phase = "batch" THEN "stuck" ELSE file} :
          ExportGoes(job, path)
    BY <2>0 DEF Failed
  <2>2. job \in ExportJob /\ job.table = export.table /\ job.phase = "err"
    BY <2>0, ExportRows DEF ExportJob
  <2> HIDE DEF job
  <2>3. QED
    BY <1>0, <2>0, <2>1, <2>2, ExportGoesTyped
<1>5. CASE CancelExport
  <2> DEFINE job == [export EXCEPT !.cancelled = TRUE]
  <2>1. export.phase # "none" /\ ExportGoes(job, file)
    BY <1>5 DEF CancelExport, ExportRunning
  <2>2. job \in ExportJob /\ job.table = export.table /\ job.phase = export.phase
    BY <2>1, ExportRows DEF ExportJob
  <2> HIDE DEF job
  <2>3. QED
    BY <1>0, <2>1, <2>2, ExportGoesTyped
<1>6. QED
  BY <1>1, <1>2, <1>3, <1>4, <1>5 DEF ExportStep

LEMMA NextTyped == Typed /\ [Next]_vars => Typed'
<1> SUFFICES ASSUME Typed, [Next]_vars PROVE Typed'
  OBVIOUS
<1>1. CASE OpenFile \/ Close
  BY <1>1, OpenFileTyped, CloseTyped
<1>2. CASE QuietFrame
  BY <1>2, QuietFrameTyped
<1>3. CASE EditStep \/ Find
  BY <1>3, EditStepTyped
<1>4. CASE SelectRow \/ ClickHeader
  BY <1>4, SelectRowTyped, ClickHeaderTyped
<1>5. CASE \E t \in 1 .. Len(tables) : IndexGrows(t) \/ IndexLands(t) \/ ViewLands(t)
  BY <1>5, IndexTyped, ViewLandsTyped
<1>6. CASE FindWindow
  BY <1>6, FindWindowTyped
<1>7. CASE StartExport
  BY <1>7, StartExportTyped
<1>8. CASE ExportStep \/ FailExport \/ CancelExport
  BY <1>8, ExportStepTyped
<1>9. CASE DismissExport
  BY <1>9, DismissTyped
<1>10. CASE UNCHANGED vars
  BY <1>10 DEF vars, Typed
<1>11. QED
  BY <1>1, <1>2, <1>3, <1>4, <1>5, <1>6, <1>7, <1>8, <1>9, <1>10 DEF Next, EditStep

LEMMA TypedHolds == Spec => []Typed
BY InitTyped, NextTyped, PTL DEF Spec

(* The controls, the tables, the jobs and what is saved are of their types, *)
(* the columns of the controls those of the table on screen (model.rs).     *)
THEOREM TypeCorrect == Spec => []TypeOK
<1>1. Typed => TypeOK
  <2> SUFFICES ASSUME Typed PROVE TypeOK
    OBVIOUS
  <2>1. /\ ctl \in Controls
        /\ ctl.table # 0 =>
             /\ ctl.width = Width[tables[ctl.table].dialect.delimiter]
             /\ ctl.visible \subseteq 0 .. ctl.width - 1
    BY DEF Typed, CtlTyped
  <2>2. find \in FindJob /\ (find.table = 0 <=> find = NoFind)
    BY DEF Typed, FindOk, NoFind
  <2>3. export \in ExportJob /\ (export.table = 0 <=> export = NoExport)
    BY DEF Typed, ExportTyped, NoExport
  <2>4. disk \in Saved \cup {None} /\ left \in Saved \cup {None}
    BY DEF Typed, SavedOk
  <2>5. QED
    BY <2>1, <2>2, <2>3, <2>4 DEF Typed, TypeOK, TablesOk
<1>2. QED
  BY <1>1, TypedHolds, PTL

(* Next and Prev find the nearest match in their direction, or none if      *)
(* there is none, whatever the size of a window, as long as the view they   *)
(* scan stays the same (next_match).                                        *)
THEOREM FindIsNearest == Spec => []FindsNearest
<1>1. Typed => FindsNearest
  <2> SUFFICES ASSUME Typed, find.done, find.steady PROVE FindsNearest
    BY DEF FindsNearest
  <2>1. Nearest(find, tables[find.table])
    BY DEF Typed, FindOk, FindRight, NoFind
  <2>2. \A r : MatchesAt(find, r) = MatchAt(find, tables[find.table], r)
    BY DEF MatchesAt, MatchAt
  <2>3. QED
    BY <2>1, <2>2 DEF Nearest, FindsNearest
<1>2. QED
  BY <1>1, TypedHolds, PTL
==============================================================================
