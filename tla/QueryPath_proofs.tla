-------------------------- MODULE QueryPath_proofs --------------------------
(***************************************************************************)
(* What an answer holds, for any tables, requests, limits and pool, and    *)
(* any deletions and storing while the objects are fetched.                *)
(***************************************************************************)
EXTENDS QueryPath, FiniteSetTheorems, TLAPS

-----------------------------------------------------------------------------
(* Lists by rank.                                                           *)

IsOrder(S, R) ==
  /\ \A x \in S : <<x, x>> \notin R
  /\ \A x, y \in S : x # y => <<x, y>> \in R \/ <<y, x>> \in R
  /\ \A x, y, z \in S : <<x, y>> \in R /\ <<y, z>> \in R => <<x, z>> \in R

\* The numbers 1 .. n stand for the elements of S, each once.
Numbers(at, S) ==
  /\ at \in [1 .. Cardinality(S) -> S]
  /\ \A x \in S : \E k \in 1 .. Cardinality(S) : at[k] = x
  /\ \A j, k \in 1 .. Cardinality(S) : at[j] = at[k] => j = k

\* An element's rank is the number of those before it: in a finite ordered set
\* each number below the size is the rank of exactly one element.
LEMMA Ranks ==
  ASSUME NEW S, IsFiniteSet(S), NEW R, IsOrder(S, R),
         NEW rank, rank = [x \in S |-> Cardinality({y \in S : <<y, x>> \in R})]
  PROVE  /\ Cardinality(S) \in Nat
         /\ rank \in [S -> 0 .. Cardinality(S) - 1]
         /\ \A x, y \in S : <<x, y>> \in R => rank[x] < rank[y]
         /\ \A k \in 0 .. Cardinality(S) - 1 : \E x \in S : rank[x] = k
         /\ \A x, y \in S : rank[x] = rank[y] => x = y
<1> DEFINE n == Cardinality(S)
           Below(x) == {y \in S : <<y, x>> \in R}
<1>1. n \in Nat
  BY FS_CardinalityType
<1>2. ASSUME NEW x \in S PROVE IsFiniteSet(Below(x)) /\ Cardinality(Below(x)) \in 0 .. n - 1
  <2>1. Below(x) \in SUBSET (S \ {x})
    BY DEF IsOrder
  <2>2. IsFiniteSet(S \ {x}) /\ Cardinality(S \ {x}) = n - 1
    BY FS_RemoveElement
  <2> HIDE DEF Below
  <2>3. IsFiniteSet(Below(x)) /\ Cardinality(Below(x)) <= n - 1 /\ Cardinality(Below(x)) \in Nat
    BY <2>1, <2>2, FS_Subset, FS_CardinalityType
  <2> HIDE DEF n
  <2>4. QED
    BY <1>1, <2>3
<1>3. \A x \in S : rank[x] = Cardinality(Below(x))
  OBVIOUS
<1>4. rank \in [S -> 0 .. n - 1]
  BY <1>2, <1>3
<1>5. ASSUME NEW x \in S, NEW y \in S, <<x, y>> \in R PROVE rank[x] < rank[y]
  <2>1. Below(x) \union {x} \in SUBSET Below(y) /\ x \notin Below(x)
    BY <1>5 DEF IsOrder
  <2>2. IsFiniteSet(Below(x)) /\ Cardinality(Below(x)) \in 0 .. n - 1
        /\ IsFiniteSet(Below(y)) /\ Cardinality(Below(y)) \in 0 .. n - 1
    BY <1>2
  <2> HIDE DEF Below, n
  <2>3. Cardinality(Below(x) \union {x}) = Cardinality(Below(x)) + 1
    BY <2>1, <2>2, FS_AddElement
  <2>4. Cardinality(Below(x) \union {x}) <= Cardinality(Below(y))
    BY <2>1, <2>2, FS_Subset
  <2>5. QED
    BY <1>1, <1>3, <2>2, <2>3, <2>4
<1>6. ASSUME NEW x \in S, NEW y \in S, rank[x] = rank[y] PROVE x = y
  <2>1. rank[x] \in Int /\ ~(rank[x] < rank[y]) /\ ~(rank[y] < rank[x])
    BY <1>1, <1>4, <1>6
  <2>2. ~(<<x, y>> \in R) /\ ~(<<y, x>> \in R)
    BY <1>5, <2>1
  <2>3. QED
    BY <2>2 DEF IsOrder
<1>7. IsFiniteSet(0 .. n - 1) /\ Cardinality(0 .. n - 1) = n
  <2> HIDE DEF n
  <2>1. QED
    BY <1>1, FS_Interval
<1>8. rank \in Injection(S, 0 .. n - 1)
  BY <1>4, <1>6 DEF Injection, IsInjective
<1>9. rank \in Surjection(S, 0 .. n - 1)
  BY <1>7, <1>8, FS_Injection
<1>10. QED
  BY <1>1, <1>4, <1>5, <1>6, <1>9 DEF Surjection

LEMMA InOrderIs ==
  ASSUME NEW S, IsFiniteSet(S), NEW R, IsOrder(S, R)
  PROVE  /\ Numbers(InOrder(S, R), S)
         /\ \A j, k \in 1 .. Cardinality(S) : j < k => <<InOrder(S, R)[j], InOrder(S, R)[k]>> \in R
<1> DEFINE n == Cardinality(S)
           Below(x) == {y \in S : <<y, x>> \in R}
           at == InOrder(S, R)
<1>1. PICK rank : rank = [x \in S |-> Cardinality(Below(x))]
  OBVIOUS
<1>2. /\ n \in Nat /\ rank \in [S -> 0 .. n - 1]
      /\ \A x, y \in S : <<x, y>> \in R => rank[x] < rank[y]
      /\ \A k \in 0 .. n - 1 : \E x \in S : rank[x] = k
      /\ \A x, y \in S : rank[x] = rank[y] => x = y
  BY <1>1, Ranks
<1>3. at \in [1 .. n -> S] /\ \A k \in 1 .. n : rank[at[k]] = k - 1
  <2>1. at = [k \in 1 .. n |-> CHOOSE x \in S : Cardinality(Below(x)) = k - 1]
    BY DEF InOrder
  <2> HIDE DEF at, Below, n
  <2>2. ASSUME NEW k \in 1 .. n PROVE at[k] \in S /\ rank[at[k]] = k - 1
    <3>1. k - 1 \in 0 .. n - 1
      BY <1>2
    <3>2. PICK x \in S : rank[x] = k - 1
      BY <1>2, <3>1
    <3>3. Cardinality(Below(x)) = k - 1
      BY <1>1, <3>2
    <3>4. at[k] = CHOOSE y \in S : Cardinality(Below(y)) = k - 1
      BY <2>1
    <3>5. at[k] \in S /\ Cardinality(Below(at[k])) = k - 1
      BY <3>3, <3>4
    <3>6. QED
      BY <1>1, <3>5
  <2>3. QED
    BY <2>1, <2>2
<1> HIDE DEF n, Below, at
<1>4. \A x \in S : \E k \in 1 .. n : at[k] = x
  <2> SUFFICES ASSUME NEW x \in S PROVE \E k \in 1 .. n : at[k] = x
    OBVIOUS
  <2>1. rank[x] \in 0 .. n - 1 /\ rank[x] + 1 \in 1 .. n
    BY <1>2
  <2>2. PICK k \in 1 .. n : k = rank[x] + 1
    BY <2>1
  <2>3. at[k] \in S /\ rank[at[k]] = rank[x]
    BY <1>3, <2>1, <2>2
  <2>4. QED
    BY <1>2, <2>3
<1>5. Numbers(at, S)
  <2>1. at \in [1 .. n -> S]
    BY <1>3
  <2>2. \A j, k \in 1 .. n : at[j] = at[k] => j = k
    <3>1. \A k \in 1 .. n : k = rank[at[k]] + 1
      BY <1>2, <1>3
    <3>2. QED
      BY <3>1
  <2>3. \A x \in S : \E k \in 1 .. n : at[k] = x
    BY <1>4
  <2>4. QED
    BY <2>1, <2>2, <2>3 DEF Numbers, n
<1>6. \A j, k \in 1 .. n : j < k => <<at[j], at[k]>> \in R
  <2> SUFFICES ASSUME NEW j \in 1 .. n, NEW k \in 1 .. n, j < k PROVE <<at[j], at[k]>> \in R
    OBVIOUS
  <2>1. at[j] \in S /\ at[k] \in S /\ rank[at[j]] = j - 1 /\ rank[at[k]] = k - 1
    BY <1>3
  <2>2. at[j] # at[k] /\ ~(rank[at[k]] < rank[at[j]])
    BY <1>2, <2>1
  <2>3. QED
    BY <2>1, <2>2, <1>2 DEF IsOrder
<1>7. QED
  BY <1>5, <1>6 DEF at, n

\* p has the values of f at I, each once.
Arranged(p, f, I) ==
  \E at : Numbers(at, I) /\ p = [k \in 1 .. Cardinality(I) |-> f[at[k]]]

LEMMA ArrangedIs ==
  ASSUME NEW p, NEW f, NEW I, IsFiniteSet(I), Arranged(p, f, I)
  PROVE  /\ Cardinality(I) \in Nat /\ DOMAIN p = 1 .. Cardinality(I) /\ IsFiniteSet(DOMAIN p)
         /\ \A k \in DOMAIN p : \E i \in I : p[k] = f[i]
         /\ \A i \in I : \E k \in DOMAIN p : p[k] = f[i]
         /\ (\A i, j \in I : f[i] = f[j] => i = j) => \A k, l \in DOMAIN p : p[k] = p[l] => k = l
<1>1. PICK at : Numbers(at, I) /\ p = [k \in 1 .. Cardinality(I) |-> f[at[k]]]
  BY DEF Arranged
<1>2. Cardinality(I) \in Nat
  BY FS_CardinalityType
<1>3. IsFiniteSet(1 .. Cardinality(I))
  BY <1>2, FS_Interval
<1>4. QED
  BY <1>1, <1>2, <1>3 DEF Numbers

LEMMA PickIs ==
  ASSUME NEW s, NEW I \in SUBSET Int, IsFiniteSet(I)
  PROVE  Arranged(Pick(s, I), s, I)
<1> DEFINE R == {p \in I \X I : p[1] < p[2]}
           at == InOrder(I, R)
<1>1. IsOrder(I, R)
  BY DEF IsOrder
<1>2. Pick(s, I) = [k \in DOMAIN at |-> s[at[k]]]
  BY DEF Pick
<1> HIDE DEF R
<1>3. Numbers(at, I)
  BY <1>1, InOrderIs
<1> HIDE DEF at
<1>4. Pick(s, I) = [k \in 1 .. Cardinality(I) |-> s[at[k]]]
  BY <1>2, <1>3 DEF Numbers
<1>5. QED
  BY <1>3, <1>4 DEF Arranged

LEMMA SortedIs ==
  ASSUME NEW s, NEW key, DOMAIN s \in SUBSET Int, IsFiniteSet(DOMAIN s),
         \A i \in DOMAIN s : key[i] \in Int
  PROVE  \E at : /\ Numbers(at, DOMAIN s)
                 /\ SortedBy(s, key) = [k \in 1 .. Cardinality(DOMAIN s) |-> s[at[k]]]
                 /\ \A j, k \in 1 .. Cardinality(DOMAIN s) : j < k => key[at[j]] <= key[at[k]]
<1> DEFINE D == DOMAIN s
           Before(i, j) == key[i] < key[j] \/ (key[i] = key[j] /\ i < j)
           R == {p \in D \X D : Before(p[1], p[2])}
           at == InOrder(D, R)
<1>1. SortedBy(s, key) = [k \in DOMAIN at |-> s[at[k]]]
  BY DEF SortedBy
<1>2. \A x, y \in D : <<x, y>> \in R <=> Before(x, y)
  OBVIOUS
<1> HIDE DEF R
<1>3. IsOrder(D, R)
  <2>1. \A x \in D : ~Before(x, x)
    OBVIOUS
  <2>2. \A x, y \in D : x # y => Before(x, y) \/ Before(y, x)
    OBVIOUS
  <2>3. \A x, y, z \in D : Before(x, y) /\ Before(y, z) => Before(x, z)
    OBVIOUS
  <2> HIDE DEF Before
  <2>4. QED
    BY <1>2, <2>1, <2>2, <2>3 DEF IsOrder
<1> HIDE DEF D
<1>4. Numbers(at, D) /\ \A j, k \in 1 .. Cardinality(D) : j < k => <<at[j], at[k]>> \in R
  BY <1>3, InOrderIs DEF D
<1> HIDE DEF at
<1>5. \A j, k \in 1 .. Cardinality(D) : j < k => key[at[j]] <= key[at[k]]
  <2>1. \A k \in 1 .. Cardinality(D) : at[k] \in D /\ key[at[k]] \in Int
    BY <1>4 DEF Numbers, D
  <2>2. \A j, k \in 1 .. Cardinality(D) : j < k => Before(at[j], at[k])
    BY <1>2, <1>4, <2>1
  <2>3. \A i, j : key[i] \in Int /\ key[j] \in Int /\ Before(i, j) => key[i] <= key[j]
    OBVIOUS
  <2> HIDE DEF Before
  <2>4. QED
    BY <2>1, <2>2, <2>3
<1>6. SortedBy(s, key) = [k \in 1 .. Cardinality(D) |-> s[at[k]]]
  BY <1>1, <1>4 DEF Numbers
<1>7. QED
  BY <1>4, <1>5, <1>6 DEF D

Places(seqs) == UNION {{i} \X DOMAIN seqs[i] : i \in DOMAIN seqs}
AtPlaces(seqs) == [p \in Places(seqs) |-> seqs[p[1]][p[2]]]

LEMMA PlacesAre ==
  ASSUME NEW seqs, IsFiniteSet(DOMAIN seqs), \A i \in DOMAIN seqs : IsFiniteSet(DOMAIN seqs[i])
  PROVE  /\ IsFiniteSet(Places(seqs))
         /\ \A p : p \in Places(seqs) <=> p = <<p[1], p[2]>> /\ p[1] \in DOMAIN seqs /\ p[2] \in DOMAIN seqs[p[1]]
<1> DEFINE Row(i) == {i} \X DOMAIN seqs[i]
           D == DOMAIN seqs
           T == {Row(i) : i \in D}
           f == [i \in D |-> Row(i)]
<1>1. f \in Surjection(D, T)
  BY DEF Surjection
<1>2. ASSUME NEW t \in T PROVE IsFiniteSet(t)
  <2>1. PICK i \in D : t = Row(i)
    OBVIOUS
  <2>2. IsFiniteSet({i}) /\ IsFiniteSet(DOMAIN seqs[i])
    BY FS_Singleton
  <2>3. IsFiniteSet(Row(i))
    <3> DEFINE A == {i}
               B == DOMAIN seqs[i]
    <3> HIDE DEF A, B
    <3>1. IsFiniteSet(A \X B)
      BY <2>2, FS_Product DEF A, B
    <3>2. QED
      BY <3>1 DEF A, B
  <2>4. QED
    BY <2>1, <2>3
<1>3. Places(seqs) = UNION T
  BY DEF Places
<1>4. IsFiniteSet(Places(seqs))
  <2> HIDE DEF T, f
  <2>1. QED
    BY <1>1, <1>2, <1>3, FS_Surjection, FS_UNION
<1>5. \A p : p \in Places(seqs) <=> p = <<p[1], p[2]>> /\ p[1] \in DOMAIN seqs /\ p[2] \in DOMAIN seqs[p[1]]
  BY DEF Places
<1>6. QED
  BY <1>4, <1>5

LEMMA JoinedIs ==
  ASSUME NEW seqs, IsFiniteSet(DOMAIN seqs), DOMAIN seqs \in SUBSET Int,
         \A i \in DOMAIN seqs : IsFiniteSet(DOMAIN seqs[i]) /\ DOMAIN seqs[i] \in SUBSET Int
  PROVE  Arranged(Joined(seqs), AtPlaces(seqs), Places(seqs))
<1> DEFINE P == Places(seqs)
           Before(a, b) == a[1] < b[1] \/ (a[1] = b[1] /\ a[2] < b[2])
           R == {p \in P \X P : Before(p[1], p[2])}
           at == InOrder(P, R)
<1>1. Joined(seqs) = [k \in DOMAIN at |-> seqs[at[k][1]][at[k][2]]]
  BY DEF Joined, Places
<1>2. \A x, y \in P : <<x, y>> \in R <=> Before(x, y)
  OBVIOUS
<1>3. IsFiniteSet(P) /\ \A p \in P : p = <<p[1], p[2]>> /\ p[1] \in Int /\ p[2] \in Int
  BY PlacesAre
<1> HIDE DEF R, P
<1>4. IsOrder(P, R)
  <2>1. \A x \in P : ~Before(x, x)
    BY <1>3
  <2>2. \A x, y \in P : x # y => Before(x, y) \/ Before(y, x)
    <3> SUFFICES ASSUME NEW x \in P, NEW y \in P, ~Before(x, y), ~Before(y, x) PROVE x = y
      OBVIOUS
    <3>1. x[1] = y[1] /\ x[2] = y[2]
      BY <1>3
    <3>2. QED
      BY <1>3, <3>1
  <2>3. \A x, y, z \in P : Before(x, y) /\ Before(y, z) => Before(x, z)
    BY <1>3
  <2> HIDE DEF Before
  <2>4. QED
    BY <1>2, <2>1, <2>2, <2>3 DEF IsOrder
<1>5. Numbers(at, P)
  BY <1>3, <1>4, InOrderIs
<1> HIDE DEF at
<1>6. Joined(seqs) = [k \in 1 .. Cardinality(P) |-> AtPlaces(seqs)[at[k]]]
  BY <1>1, <1>5 DEF Numbers, AtPlaces, P
<1>7. QED
  BY <1>5, <1>6 DEF Arranged, P

\* Values that a function takes once each are as many as their arguments.
ValuesAt(f, J) == {f[i] : i \in J}

LEMMA SameCount ==
  ASSUME NEW f, NEW J, IsFiniteSet(J), \A i, j \in J : f[i] = f[j] => i = j
  PROVE  IsFiniteSet(ValuesAt(f, J)) /\ Cardinality(ValuesAt(f, J)) = Cardinality(J)
<1> DEFINE T == {f[i] : i \in J}
           g == [i \in J |-> f[i]]
<1>1. g \in Bijection(J, T)
  BY DEF Bijection, Injection, Surjection, IsInjective
<1> HIDE DEF T, g
<1>2. ExistsBijection(J, T)
  BY <1>1 DEF ExistsBijection
<1>3. IsFiniteSet(T) /\ Cardinality(T) = Cardinality(J)
  BY <1>2, FS_Bijection
<1>4. QED
  BY <1>3 DEF T, ValuesAt

LEMMA UpTo ==
  ASSUME NEW n \in Nat
  PROVE  IsFiniteSet(1 .. n) /\ Cardinality(1 .. n) = n /\ 1 .. n \in SUBSET Int
BY FS_Interval

\* A finite list with nothing in it twice.
IsList(q) == IsFiniteSet(ToSet(q)) /\ Numbers(q, ToSet(q))

LEMMA ListIs ==
  ASSUME NEW q, IsList(q)
  PROVE  /\ Len(q) \in Nat /\ Len(q) = Cardinality(ToSet(q)) /\ DOMAIN q = 1 .. Len(q)
         /\ q \in Seq(ToSet(q))
         /\ \A j, k \in DOMAIN q : q[j] = q[k] => j = k
<1> DEFINE n == Cardinality(ToSet(q))
<1>1. n \in Nat
  BY FS_CardinalityType DEF IsList
<1>2. q \in [1 .. n -> ToSet(q)] /\ \A j, k \in 1 .. n : q[j] = q[k] => j = k
  BY DEF IsList, Numbers
<1> HIDE DEF n
<1>3. q \in Seq(ToSet(q)) /\ Len(q) = n /\ DOMAIN q = 1 .. n
  BY <1>1, <1>2
<1>4. QED
  BY <1>1, <1>2, <1>3 DEF n

LEMMA IsAList ==
  ASSUME NEW q, NEW n \in Nat, DOMAIN q = 1 .. n, q = [k \in 1 .. n |-> q[k]],
         \A j, k \in 1 .. n : q[j] = q[k] => j = k
  PROVE  IsList(q) /\ Len(q) = n
<1>1. IsFiniteSet(1 .. n) /\ Cardinality(1 .. n) = n
  BY UpTo
<1>2. ToSet(q) = ValuesAt(q, 1 .. n)
  BY DEF ToSet, ValuesAt
<1>3. IsFiniteSet(ToSet(q)) /\ Cardinality(ToSet(q)) = n
  BY <1>1, <1>2, SameCount
<1>4. Numbers(q, ToSet(q))
  BY <1>2, <1>3 DEF Numbers, ValuesAt
<1>5. q \in [1 .. n -> ToSet(q)]
  BY <1>2 DEF ValuesAt
<1>6. Len(q) = n
  BY <1>5
<1>7. QED
  BY <1>3, <1>4, <1>6 DEF IsList

LEMMA ArrangedOnce ==
  ASSUME NEW p, NEW f, NEW I, IsFiniteSet(I), Arranged(p, f, I),
         \A i, j \in I : f[i] = f[j] => i = j
  PROVE  IsList(p) /\ ToSet(p) = {f[i] : i \in I} /\ Len(p) = Cardinality(I)
<1> DEFINE n == Cardinality(I)
<1>1. /\ n \in Nat /\ DOMAIN p = 1 .. n
      /\ \A k \in DOMAIN p : \E i \in I : p[k] = f[i]
      /\ \A i \in I : \E k \in DOMAIN p : p[k] = f[i]
      /\ \A k, l \in DOMAIN p : p[k] = p[l] => k = l
  BY ArrangedIs
<1>2. p = [k \in 1 .. n |-> p[k]]
  BY DEF Arranged
<1> HIDE DEF n
<1>3. IsList(p) /\ Len(p) = n
  BY <1>1, <1>2, IsAList
<1>4. ToSet(p) = {f[i] : i \in I}
  BY <1>1 DEF ToSet
<1>5. QED
  BY <1>3, <1>4 DEF n

LEMMA PickOfList ==
  ASSUME NEW q, IsList(q), NEW I \in SUBSET DOMAIN q
  PROVE  IsList(Pick(q, I)) /\ ToSet(Pick(q, I)) = {q[i] : i \in I} /\ Len(Pick(q, I)) = Cardinality(I)
<1>1. DOMAIN q = 1 .. Len(q) /\ Len(q) \in Nat /\ \A j, k \in DOMAIN q : q[j] = q[k] => j = k
  BY ListIs
<1>2. IsFiniteSet(I) /\ I \in SUBSET Int
  BY <1>1, UpTo, FS_Subset
<1>3. QED
  BY <1>1, <1>2, PickIs, ArrangedOnce

LEMMA SortOfList ==
  ASSUME NEW q, IsList(q), NEW key, \A i \in DOMAIN q : key[i] \in Int
  PROVE  /\ IsList(SortedBy(q, key)) /\ ToSet(SortedBy(q, key)) = ToSet(q)
         /\ Len(SortedBy(q, key)) = Len(q)
<1>1. DOMAIN q = 1 .. Len(q) /\ Len(q) \in Nat /\ \A j, k \in DOMAIN q : q[j] = q[k] => j = k
  BY ListIs
<1>2. IsFiniteSet(DOMAIN q) /\ DOMAIN q \in SUBSET Int /\ Cardinality(DOMAIN q) = Len(q)
  BY <1>1, UpTo
<1>3. Arranged(SortedBy(q, key), q, DOMAIN q)
  BY <1>2, SortedIs DEF Arranged
<1>4. ToSet(q) = {q[i] : i \in DOMAIN q}
  BY DEF ToSet
<1> DEFINE p == SortedBy(q, key)
<1> HIDE DEF p
<1>5. IsList(p) /\ ToSet(p) = {q[i] : i \in DOMAIN q} /\ Len(p) = Cardinality(DOMAIN q)
  BY <1>1, <1>2, <1>3, ArrangedOnce DEF p
<1>6. QED
  BY <1>2, <1>4, <1>5 DEF p

LEMMA SortOrders ==
  ASSUME NEW q, IsList(q), NEW key, \A i \in DOMAIN q : key[i] = q[i].timestamp /\ key[i] \in Int
  PROVE  \A j, k \in DOMAIN SortedBy(q, key) : j < k =>
           SortedBy(q, key)[j].timestamp <= SortedBy(q, key)[k].timestamp
<1>1. DOMAIN q = 1 .. Len(q) /\ Len(q) \in Nat
  BY ListIs
<1>2. IsFiniteSet(DOMAIN q) /\ DOMAIN q \in SUBSET Int /\ Cardinality(DOMAIN q) = Len(q)
  BY <1>1, UpTo
<1>3. PICK at : /\ Numbers(at, DOMAIN q)
                /\ SortedBy(q, key) = [k \in 1 .. Cardinality(DOMAIN q) |-> q[at[k]]]
                /\ \A j, k \in 1 .. Cardinality(DOMAIN q) : j < k => key[at[j]] <= key[at[k]]
  BY <1>2, SortedIs
<1>4. \A k \in 1 .. Len(q) : at[k] \in DOMAIN q
  BY <1>2, <1>3 DEF Numbers
<1> DEFINE p == SortedBy(q, key)
<1> HIDE DEF p
<1>5. DOMAIN p = 1 .. Len(q) /\ \A k \in 1 .. Len(q) : p[k].timestamp = key[at[k]]
  BY <1>2, <1>3, <1>4 DEF p
<1>6. \A j, k \in 1 .. Len(q) : j < k => key[at[j]] <= key[at[k]]
  BY <1>2, <1>3
<1>7. \A j, k \in DOMAIN p : j < k => p[j].timestamp <= p[k].timestamp
  BY <1>5, <1>6
<1>8. QED
  BY <1>7 DEF p

LEMMA Prefix ==
  ASSUME NEW q, IsList(q), NEW m \in 0 .. Len(q)
  PROVE  /\ IsList(SubSeq(q, 1, m)) /\ Len(SubSeq(q, 1, m)) = m
         /\ ToSet(SubSeq(q, 1, m)) \subseteq ToSet(q)
         /\ m = Len(q) => ToSet(SubSeq(q, 1, m)) = ToSet(q)
<1>1. /\ Len(q) \in Nat /\ DOMAIN q = 1 .. Len(q) /\ q \in Seq(ToSet(q))
      /\ \A j, k \in DOMAIN q : q[j] = q[k] => j = k
  BY ListIs
<1> DEFINE p == SubSeq(q, 1, m)
<1>2. /\ m \in Nat /\ DOMAIN p = 1 .. m /\ p = [k \in 1 .. m |-> p[k]]
      /\ \A k \in 1 .. m : p[k] = q[k] /\ k \in DOMAIN q
  BY <1>1
<1> HIDE DEF p
<1>3. IsList(p) /\ Len(p) = m
  BY <1>1, <1>2, IsAList
<1>4. ToSet(p) \subseteq ToSet(q) /\ (m = Len(q) => ToSet(p) = ToSet(q))
  BY <1>1, <1>2 DEF ToSet
<1>5. QED
  BY <1>3, <1>4 DEF p

LEMMA SmallerOf ==
  ASSUME NEW a \in Int, NEW b \in Int
  PROVE  Min({a, b}) = IF a <= b THEN a ELSE b
BY DEF Min

-----------------------------------------------------------------------------
(* The executor: it keeps, sorts and counts what it found.                  *)

\* The elements of a bucket, in a set and in a list.
In(S, width, b) == Cardinality({e \in S : Floor(e.timestamp, width) = b})
At(q, width, b) == Cardinality({i \in DOMAIN q : Floor(q[i].timestamp, width) = b})

LEMMA CountIs ==
  ASSUME NEW hits, IsList(hits), NEW width, NEW b
  PROVE  At(hits, width, b) = In(ToSet(hits), width, b)
<1> DEFINE J == {i \in DOMAIN hits : Floor(hits[i].timestamp, width) = b}
<1>1. Len(hits) \in Nat /\ DOMAIN hits = 1 .. Len(hits) /\ \A i, j \in DOMAIN hits : hits[i] = hits[j] => i = j
  BY ListIs
<1>2. IsFiniteSet(J) /\ \A i, j \in J : hits[i] = hits[j] => i = j
  <2>1. IsFiniteSet(DOMAIN hits) /\ J \in SUBSET DOMAIN hits
    BY <1>1, UpTo
  <2>2. QED
    BY <1>1, <2>1, FS_Subset
<1>3. ValuesAt(hits, J) = {e \in ToSet(hits) : Floor(e.timestamp, width) = b}
  BY DEF ToSet, ValuesAt
<1> HIDE DEF J
<1>4. Cardinality(ValuesAt(hits, J)) = Cardinality(J)
  BY <1>2, SameCount
<1>5. QED
  BY <1>3, <1>4 DEF J, At, In

LEMMA CountsGrow ==
  ASSUME NEW T, IsFiniteSet(T), NEW S \in SUBSET T, NEW width, NEW b
  PROVE  In(S, width, b) \in Nat /\ In(T, width, b) \in Nat /\ In(S, width, b) <= In(T, width, b)
<1> DEFINE Of(U) == {e \in U : Floor(e.timestamp, width) = b}
<1>1. Of(S) \in SUBSET Of(T) /\ Of(T) \in SUBSET T
  OBVIOUS
<1>2. In(S, width, b) = Cardinality(Of(S)) /\ In(T, width, b) = Cardinality(Of(T))
  BY DEF In
<1> HIDE DEF Of
<1>3. IsFiniteSet(Of(T)) /\ IsFiniteSet(Of(S)) /\ Cardinality(Of(S)) <= Cardinality(Of(T))
  BY <1>1, FS_Subset
<1>4. QED
  BY <1>2, <1>3, FS_CardinalityType

\* The points of hits, by bucket.
PointsOf(series, hits, width, seconds) ==
  /\ \A b : b \in DOMAIN series <=> \E e \in ToSet(hits) : b = Floor(e.timestamp, width)
  /\ \A b \in DOMAIN series : series[b] = <<At(hits, width, b), seconds>>

\* Hits that are between must and may have points that are.
LEMMA PointsAre ==
  ASSUME NEW hits, IsList(hits), NEW ast, NEW may, IsFiniteSet(may),
         ToSet(hits) \subseteq may, NEW must \in SUBSET ToSet(hits), NEW width, NEW seconds,
         width = Max({MinStep, Duration[ast.range]}),
         seconds = IF ast.fn = "rate" THEN width \div MinStep ELSE 1,
         NEW series, PointsOf(series, hits, width, seconds)
  PROVE  PointsCount(series, ast, may, must)
<1> DEFINE buckets == {Floor(e.timestamp, width) : e \in may}
<1>1. ASSUME NEW b PROVE /\ In(must, width, b) \in Nat /\ At(hits, width, b) \in Nat /\ In(may, width, b) \in Nat
                         /\ At(hits, width, b) \in In(must, width, b) .. In(may, width, b)
  <2>1. IsFiniteSet(ToSet(hits)) /\ ToSet(hits) \in SUBSET may
    BY DEF IsList
  <2>2. At(hits, width, b) = In(ToSet(hits), width, b)
    BY CountIs
  <2>3. QED
    <3>1. /\ In(must, width, b) \in Nat /\ In(ToSet(hits), width, b) \in Nat
          /\ In(must, width, b) <= In(ToSet(hits), width, b)
      BY <2>1, CountsGrow
    <3>2. In(may, width, b) \in Nat /\ In(ToSet(hits), width, b) <= In(may, width, b)
      BY <2>1, CountsGrow
    <3>3. QED
      BY <2>2, <3>1, <3>2
<1>2. ASSUME NEW b, b \notin DOMAIN series PROVE At(hits, width, b) = 0
  <2>1. {e \in ToSet(hits) : Floor(e.timestamp, width) = b} = {}
    BY <1>2 DEF PointsOf
  <2>2. In(ToSet(hits), width, b) = 0
    BY <2>1, FS_EmptySet DEF In
  <2>3. QED
    BY <2>2, CountIs
<1>3. DOMAIN series \subseteq buckets
  BY DEF PointsOf
<1>4. ASSUME NEW b \in buckets
      PROVE  LET point == IF b \in DOMAIN series THEN series[b] ELSE <<0, seconds>> IN
             point[1] \in In(must, width, b) .. In(may, width, b) /\ point[2] = seconds
  <2> DEFINE point == IF b \in DOMAIN series THEN series[b] ELSE <<0, seconds>>
  <2>1. b \in DOMAIN series => series[b] = <<At(hits, width, b), seconds>>
    BY DEF PointsOf
  <2>2. point = <<At(hits, width, b), seconds>>
    BY <1>2, <2>1
  <2> HIDE DEF point
  <2>3. point[1] = At(hits, width, b) /\ point[2] = seconds
    BY <2>2
  <2>4. point[1] \in In(must, width, b) .. In(may, width, b)
    BY <1>1, <2>3
  <2>5. QED
    BY <2>3, <2>4 DEF point
<1>5. QED
  BY <1>3, <1>4 DEF PointsCount, In

\* The list that the executor searches: what passes, bundle by bundle.
FoundIn(ast, range, bundles) ==
  Joined([i \in DOMAIN bundles |-> Passing(Selector(ast), range, bundles[i])])

\* An answer made from entries that include all of must and none but may is exact.
LEMMA ExecutorIsExact ==
  ASSUME NEW ast, NEW range, NEW bundles, NEW limit \in Nat, NEW may, NEW must,
         IsFiniteSet(may), \A e \in may : e.timestamp \in Int,
         IsList(FoundIn(ast, range, bundles)),
         ToSet(FoundIn(ast, range, bundles)) \subseteq may,
         must \subseteq ToSet(FoundIn(ast, range, bundles))
  PROVE  /\ ExecuteEntries(ast, range, bundles, limit).type = "logs"
         /\ ToSet(ExecuteEntries(ast, range, bundles, limit).hits) \subseteq may
         /\ IsExact(ast, limit, ExecuteEntries(ast, range, bundles, limit), may, must)
<1> DEFINE found == FoundIn(ast, range, bundles)
           m == Min({limit, Len(found)})
           kept == SubSeq(found, 1, m)
           key == [i \in DOMAIN kept |-> kept[i].timestamp]
           hits == SortedBy(kept, key)
           width == Max({MinStep, Duration[ast.range]})
           seconds == IF ast.fn = "rate" THEN width \div MinStep ELSE 1
           series == [b \in {Floor(e.timestamp, width) : e \in ToSet(hits)} |-> <<At(hits, width, b), seconds>>]
           a == ExecuteEntries(ast, range, bundles, limit)
<1>1. a = [type |-> "logs", truncated |-> Len(found) > limit,
           hits |-> IF ast.type = "selector" THEN hits ELSE <<>>,
           series |-> IF ast.type = "selector" THEN <<>> ELSE series]
  BY DEF ExecuteEntries, FoundIn, At
<1>2. /\ a.type = "logs" /\ (a.truncated <=> Len(found) > limit)
      /\ (ast.type = "selector" => a.hits = hits) /\ (ast.type # "selector" => a.hits = <<>> /\ a.series = series)
  <2> HIDE DEF a, found, hits, series
  <2>1. a.truncated <=> Len(found) > limit
    BY <1>1
  <2>2. a.type = "logs" /\ (ast.type = "selector" => a.hits = hits)
        /\ (ast.type # "selector" => a.hits = <<>> /\ a.series = series)
    BY <1>1
  <2>3. QED
    BY <2>1, <2>2
<1> HIDE DEF a
<1>3. Len(found) \in Nat /\ Len(found) = Cardinality(ToSet(found)) /\ IsFiniteSet(ToSet(found))
  BY ListIs DEF IsList
<1>4. IsList(found) /\ ToSet(found) \subseteq may /\ must \subseteq ToSet(found)
  OBVIOUS
<1> HIDE DEF found
<1>5. m \in 0 .. Len(found) /\ m = IF limit <= Len(found) THEN limit ELSE Len(found)
  BY <1>3, SmallerOf
<1> HIDE DEF m
<1>6. IsList(kept) /\ Len(kept) = m /\ ToSet(kept) \subseteq ToSet(found) /\ (m = Len(found) => ToSet(kept) = ToSet(found))
  BY <1>4, <1>5, Prefix
<1> HIDE DEF kept
<1>7. \A i \in DOMAIN kept : key[i] = kept[i].timestamp /\ key[i] \in Int
  BY <1>4, <1>6 DEF ToSet
<1> HIDE DEF key
<1>8. IsList(hits) /\ ToSet(hits) = ToSet(kept) /\ Len(hits) = m
  BY <1>6, <1>7, SortOfList
<1>9. \A j, k \in DOMAIN hits : j < k => hits[j].timestamp <= hits[k].timestamp
  BY <1>6, <1>7, SortOrders
<1> HIDE DEF hits
<1>10. ToSet(hits) \subseteq may /\ (~a.truncated => must \subseteq ToSet(hits))
  BY <1>2, <1>3, <1>4, <1>5, <1>6, <1>8
<1>11. ToSet(a.hits) \subseteq may
  <2>1. ToSet(<<>>) = {}
    BY DEF ToSet
  <2>2. QED
    BY <1>2, <1>10, <2>1
<1>12. IF a.truncated THEN Cardinality(may) > limit ELSE Cardinality(must) <= limit
  <2>1. Cardinality(ToSet(found)) <= Cardinality(may) /\ Cardinality(must) <= Cardinality(ToSet(found))
    BY <1>3, <1>4, FS_Subset
  <2>2. Cardinality(may) \in Nat /\ Cardinality(must) \in Nat
    BY <1>3, <1>4, FS_Subset, FS_CardinalityType
  <2>3. QED
    BY <1>2, <1>3, <2>1, <2>2
<1>13. ASSUME ast.type = "selector"
       PROVE  /\ ToSet(a.hits) \subseteq may
              /\ IF a.truncated THEN Len(a.hits) = limit ELSE must \subseteq ToSet(a.hits)
              /\ \A i, j \in DOMAIN a.hits : i < j =>
                   a.hits[i] # a.hits[j] /\ a.hits[i].timestamp <= a.hits[j].timestamp
  <2>1. a.hits = hits
    BY <1>2, <1>13
  <2>2. a.truncated => Len(hits) = limit
    BY <1>2, <1>3, <1>5, <1>8
  <2>3. \A i, j \in DOMAIN hits : i < j => hits[i] # hits[j]
    BY <1>8, ListIs
  <2>4. QED
    BY <1>9, <1>10, <2>1, <2>2, <2>3
<1>14. ASSUME ast.type = "aggregation", ~a.truncated PROVE PointsCount(a.series, ast, may, must)
  <2>1. a.series = series
    BY <1>2, <1>14
  <2>2. ToSet(hits) \subseteq may /\ must \in SUBSET ToSet(hits)
    BY <1>10, <1>14
  <2>3. width = Max({MinStep, Duration[ast.range]}) /\ seconds = IF ast.fn = "rate" THEN width \div MinStep ELSE 1
    OBVIOUS
  <2> HIDE DEF width, seconds
  <2>4. PointsOf(series, hits, width, seconds)
    BY DEF PointsOf
  <2> HIDE DEF series
  <2>5. PointsCount(series, ast, may, must)
    BY <1>8, <2>2, <2>3, <2>4, PointsAre
  <2>6. QED
    BY <2>1, <2>5
<1>15. IsExact(ast, limit, a, may, must)
  BY <1>12, <1>13, <1>14 DEF IsExact
<1>16. QED
  BY <1>2, <1>11, <1>15 DEF a

-----------------------------------------------------------------------------
(* What was fetched and found.                                             *)

\* Lists with nothing in common, one after the other, are a list.
LEMMA JoinOfLists ==
  ASSUME NEW seqs, NEW n \in Nat, DOMAIN seqs = 1 .. n, \A i \in 1 .. n : IsList(seqs[i]),
         \A i, j \in 1 .. n : \A x : x \in ToSet(seqs[i]) /\ x \in ToSet(seqs[j]) => i = j
  PROVE  IsList(Joined(seqs)) /\ ToSet(Joined(seqs)) = UNION {ToSet(seqs[i]) : i \in 1 .. n}
<1>1. ASSUME NEW i \in 1 .. n
      PROVE  /\ IsFiniteSet(DOMAIN seqs[i]) /\ DOMAIN seqs[i] \in SUBSET Int
             /\ \A j, k \in DOMAIN seqs[i] : seqs[i][j] = seqs[i][k] => j = k
  BY ListIs, UpTo
<1>2. IsFiniteSet(DOMAIN seqs) /\ DOMAIN seqs \in SUBSET Int
  BY UpTo
<1>3. Arranged(Joined(seqs), AtPlaces(seqs), Places(seqs))
  BY <1>1, <1>2, JoinedIs
<1> DEFINE P == Places(seqs)
           f == AtPlaces(seqs)
<1>4. IsFiniteSet(P) /\ \A p : p \in P <=> p = <<p[1], p[2]>> /\ p[1] \in 1 .. n /\ p[2] \in DOMAIN seqs[p[1]]
  BY <1>1, <1>2, PlacesAre
<1>5. \A p \in P : f[p] = seqs[p[1]][p[2]]
  BY DEF AtPlaces
<1> HIDE DEF P, f
<1>6. ASSUME NEW p \in P, NEW q \in P, f[p] = f[q] PROVE p = q
  <2>1. p[1] \in 1 .. n /\ q[1] \in 1 .. n /\ f[p] \in ToSet(seqs[p[1]]) /\ f[q] \in ToSet(seqs[q[1]])
    BY <1>4, <1>5 DEF ToSet
  <2>2. p[1] = q[1]
    BY <1>6, <2>1
  <2>3. p[2] = q[2]
    BY <1>1, <1>4, <1>5, <1>6, <2>1, <2>2
  <2>4. QED
    BY <1>4, <2>2, <2>3
<1>7. IsList(Joined(seqs)) /\ ToSet(Joined(seqs)) = {f[p] : p \in P}
  BY <1>3, <1>4, <1>6, ArrangedOnce DEF P, f
<1>8. ASSUME NEW x PROVE x \in {f[p] : p \in P} <=> \E i \in 1 .. n : x \in ToSet(seqs[i])
  <2>1. ASSUME NEW p \in P PROVE p[1] \in 1 .. n /\ f[p] \in ToSet(seqs[p[1]])
    BY <1>4, <1>5 DEF ToSet
  <2>2. ASSUME NEW i \in 1 .. n, NEW k \in DOMAIN seqs[i] PROVE \E p \in P : f[p] = seqs[i][k]
    <3>1. <<i, k>> \in P
      BY <1>4
    <3>2. f[<<i, k>>] = seqs[i][k]
      BY <1>5, <3>1
    <3>3. QED
      BY <3>1, <3>2
  <2>3. QED
    BY <2>1, <2>2 DEF ToSet
<1>9. QED
  BY <1>7, <1>8

LEMMA PassingIs ==
  ASSUME NEW sel, NEW range, NEW bundle, IsList(bundle)
  PROVE  /\ IsList(Passing(sel, range, bundle))
         /\ \A e : e \in ToSet(Passing(sel, range, bundle)) <=>
              e \in ToSet(bundle) /\ e.timestamp \in range.start .. range.end /\ EntryPasses(e, sel.pipeline)
<1> DEFINE I == {i \in DOMAIN bundle : /\ bundle[i].timestamp \in range.start .. range.end
                                       /\ EntryPasses(bundle[i], sel.pipeline)}
<1>1. I \in SUBSET DOMAIN bundle /\ Passing(sel, range, bundle) = Pick(bundle, I)
  BY DEF Passing
<1>2. \A e : e \in {bundle[i] : i \in I} <=>
        e \in ToSet(bundle) /\ e.timestamp \in range.start .. range.end /\ EntryPasses(e, sel.pipeline)
  BY DEF ToSet
<1> HIDE DEF I
<1>3. IsList(Pick(bundle, I)) /\ ToSet(Pick(bundle, I)) = {bundle[i] : i \in I}
  BY <1>1, PickOfList
<1>4. QED
  BY <1>1, <1>2, <1>3

LEMMA EntriesAre ==
  ASSUME NEW c \in DOMAIN Chunk
  PROVE  /\ DOMAIN Chunk[c].items = 1 .. Len(Chunk[c].items) /\ Len(Chunk[c].items) \in Nat
         /\ DOMAIN Entries(c) = DOMAIN Chunk[c].items
         /\ IsFiniteSet(ToSet(Entries(c)))
         /\ \A i \in DOMAIN Entries(c) : Entries(c)[i] = With(Chunk[c].items[i], "stream", Chunk[c].stream)
         /\ \A e \in ToSet(Entries(c)) : e.timestamp \in Int /\ e.stream = Chunk[c].stream
<1> DEFINE n == Len(Chunk[c].items)
           E == Entries(c)
<1>1. n \in Nat /\ DOMAIN Chunk[c].items = 1 .. n
  BY TablesAssumption
<1>2. DOMAIN E = 1 .. n /\ \A i \in 1 .. n : E[i] = With(Chunk[c].items[i], "stream", Chunk[c].stream)
  BY <1>1 DEF Entries, Tagged
<1>3. \A i \in 1 .. n : E[i].timestamp \in Int
  BY <1>1, TablesAssumption
<1>4. \A i \in 1 .. n : E[i].stream = Chunk[c].stream
  BY <1>2 DEF With
<1>5. IsFiniteSet(ToSet(E))
  <2> HIDE DEF E, n
  <2> DEFINE g == [i \in 1 .. n |-> E[i]]
  <2>1. g \in Surjection(1 .. n, ToSet(E))
    BY <1>2 DEF Surjection, ToSet
  <2>2. IsFiniteSet(1 .. n)
    BY <1>1, UpTo
  <2> HIDE DEF g
  <2>3. QED
    BY <2>1, <2>2, FS_Surjection
<1> HIDE DEF E
<1>6. \A e \in ToSet(E) : e.timestamp \in Int /\ e.stream = Chunk[c].stream
  BY <1>2, <1>3, <1>4 DEF ToSet
<1>7. QED
  BY <1>1, <1>2, <1>5, <1>6 DEF E

LEMMA NoRepeat ==
  ASSUME NEW c \in DOMAIN Chunk, NEW d \in DOMAIN Chunk,
         StreamOf(c).signal = "logs", StreamOf(d).signal = "logs",
         NEW i \in DOMAIN Entries(c), NEW j \in DOMAIN Entries(d), Entries(c)[i] = Entries(d)[j]
  PROVE  c = d /\ i = j
BY TablesAssumption

\* Each index that has returned holds its chunk's entries, or nothing when the
\* object had gone.
BodiesFetched ==
  /\ IsList(keys) /\ ToSet(keys) \subseteq DOMAIN Chunk
  /\ \A i \in DOMAIN bodies \intersect DOMAIN keys :
       \/ bodies[i] = Chunk[keys[i]].items
       \/ bodies[i] = Missing /\ keys[i] \in erased

\* The bundle of a log stream has entries of the chunks of that stream, each
\* once, and all of those that were not erased.
LEMMA BundleIs ==
  ASSUME BodiesFetched, DOMAIN bodies = DOMAIN keys,
         \A c \in ToSet(keys) : StreamOf(c).signal = "logs", NEW s
  PROVE  /\ IsList(Bundle(s))
         /\ \A e \in ToSet(Bundle(s)) :
              \E c \in ToSet(keys) : Chunk[c].stream = s /\ e \in ToSet(Entries(c))
         /\ \A c \in ToSet(keys) \ erased : Chunk[c].stream = s => ToSet(Entries(c)) \subseteq ToSet(Bundle(s))
<1> DEFINE I == {i \in DOMAIN keys : Chunk[keys[i]].stream = s}
           N == Cardinality(I)
           seqs == Pick(bodies, I)
           P == Places(seqs)
           f == [p \in P |-> With(seqs[p[1]][p[2]], "stream", s)]
<1>1. /\ Len(keys) \in Nat /\ DOMAIN keys = 1 .. Len(keys)
      /\ \A i, j \in DOMAIN keys : keys[i] = keys[j] => i = j
  BY ListIs DEF BodiesFetched
<1>2. IsFiniteSet(I) /\ I \in SUBSET Int
  <2>1. I \in SUBSET DOMAIN keys /\ DOMAIN keys \in SUBSET Int /\ IsFiniteSet(DOMAIN keys)
    BY <1>1, UpTo
  <2>2. QED
    BY <2>1, FS_Subset
<1>3. \A i \in I : /\ i \in DOMAIN keys /\ keys[i] \in ToSet(keys) /\ keys[i] \in DOMAIN Chunk
                   /\ Chunk[keys[i]].stream = s
                   /\ (bodies[i] = Chunk[keys[i]].items \/ (bodies[i] = Missing /\ keys[i] \in erased))
  <2>1. \A i \in DOMAIN keys : keys[i] \in ToSet(keys)
    BY DEF ToSet
  <2>2. ToSet(keys) \subseteq DOMAIN Chunk
    BY DEF BodiesFetched
  <2>3. \A i \in DOMAIN keys : bodies[i] = Chunk[keys[i]].items \/ (bodies[i] = Missing /\ keys[i] \in erased)
    <3>1. DOMAIN bodies \intersect DOMAIN keys = DOMAIN keys
      OBVIOUS
    <3>2. QED
      BY <3>1, Zenon DEF BodiesFetched
  <2>4. \A i \in I : i \in DOMAIN keys /\ Chunk[keys[i]].stream = s
    OBVIOUS
  <2> HIDE DEF I
  <2>5. QED
    BY <2>1, <2>2, <2>3, <2>4
<1>4. \A c \in ToSet(keys) : Chunk[c].stream = s => \E i \in I : keys[i] = c
  BY DEF ToSet
<1> HIDE DEF I
<1>5. Arranged(seqs, bodies, I)
  BY <1>2, PickIs
<1>6. PICK at : Numbers(at, I) /\ seqs = [k \in 1 .. N |-> bodies[at[k]]]
  BY <1>5 DEF Arranged
<1>7. N \in Nat /\ DOMAIN seqs = 1 .. N /\ \A k \in 1 .. N : at[k] \in I /\ seqs[k] = bodies[at[k]]
  BY <1>2, <1>6, FS_CardinalityType DEF Numbers
<1>8. ASSUME NEW k \in 1 .. N
      PROVE  /\ IsFiniteSet(DOMAIN seqs[k]) /\ DOMAIN seqs[k] \in SUBSET Int
             /\ \A m \in DOMAIN seqs[k] : /\ m \in DOMAIN Entries(keys[at[k]])
                                          /\ With(seqs[k][m], "stream", s) = Entries(keys[at[k]])[m]
             /\ keys[at[k]] \notin erased => DOMAIN seqs[k] = DOMAIN Entries(keys[at[k]])
  <2> DEFINE c == keys[at[k]]
  <2>1. c \in DOMAIN Chunk /\ Chunk[c].stream = s
    BY <1>3, <1>7
  <2>2. seqs[k] = Chunk[c].items \/ (seqs[k] = Missing /\ c \in erased)
    BY <1>3, <1>7
  <2>3. /\ DOMAIN Chunk[c].items = 1 .. Len(Chunk[c].items) /\ Len(Chunk[c].items) \in Nat
        /\ DOMAIN Entries(c) = DOMAIN Chunk[c].items
        /\ \A i \in DOMAIN Entries(c) : Entries(c)[i] = With(Chunk[c].items[i], "stream", Chunk[c].stream)
    BY <2>1, EntriesAre
  <2> HIDE DEF c, seqs
  <2>4. CASE seqs[k] = Chunk[c].items
    BY <2>1, <2>3, <2>4, UpTo DEF c
  <2>5. CASE seqs[k] = Missing /\ c \in erased
    <3>1. DOMAIN seqs[k] = {}
      BY <2>5 DEF Missing
    <3>2. QED
      BY <2>5, <3>1, FS_EmptySet DEF c
  <2>6. QED
    BY <2>2, <2>4, <2>5
<1>9. IsFiniteSet(DOMAIN seqs) /\ DOMAIN seqs \in SUBSET Int
  BY <1>7, UpTo
<1>10. IsFiniteSet(P) /\ \A p : p \in P <=> p = <<p[1], p[2]>> /\ p[1] \in 1 .. N /\ p[2] \in DOMAIN seqs[p[1]]
  <2> HIDE DEF seqs
  <2>1. \A i \in DOMAIN seqs : IsFiniteSet(DOMAIN seqs[i])
    BY <1>7, <1>8
  <2>2. QED
    BY <1>7, <1>9, <2>1, PlacesAre
<1>11. Arranged(Bundle(s), f, P)
  <2>1. Arranged(Joined(seqs), AtPlaces(seqs), P)
    <3> HIDE DEF seqs
    <3>1. \A i \in DOMAIN seqs : IsFiniteSet(DOMAIN seqs[i]) /\ DOMAIN seqs[i] \in SUBSET Int
      BY <1>7, <1>8
    <3>2. QED
      BY <1>9, <3>1, JoinedIs
  <2>2. Bundle(s) = Tagged(s, Joined(seqs))
    BY DEF Bundle, I
  <2> HIDE DEF seqs
  <2> DEFINE n == Cardinality(P)
  <2>3. PICK bt : Numbers(bt, P) /\ Joined(seqs) = [k \in 1 .. n |-> AtPlaces(seqs)[bt[k]]]
    BY <2>1 DEF Arranged
  <2>4. \A k \in 1 .. n : bt[k] \in P
    BY <2>3 DEF Numbers
  <2>5. Bundle(s) = [k \in 1 .. n |-> With(AtPlaces(seqs)[bt[k]], "stream", s)]
    BY <2>2, <2>3 DEF Tagged
  <2>6. \A k \in 1 .. n : With(AtPlaces(seqs)[bt[k]], "stream", s) = f[bt[k]]
    BY <2>4 DEF AtPlaces
  <2>7. Bundle(s) = [k \in 1 .. n |-> f[bt[k]]]
    BY <2>5, <2>6
  <2>8. QED
    BY <2>3, <2>7 DEF Arranged
<1>12. \A p \in P : f[p] = With(seqs[p[1]][p[2]], "stream", s)
  OBVIOUS
<1> HIDE DEF seqs, P, f, N
<1>13. ASSUME NEW p \in P
       PROVE  LET c == keys[at[p[1]]] IN
              /\ p[1] \in 1 .. N /\ at[p[1]] \in I /\ c \in ToSet(keys) /\ Chunk[c].stream = s
              /\ p[2] \in DOMAIN Entries(c) /\ f[p] = Entries(c)[p[2]]
  BY <1>3, <1>7, <1>8, <1>10, <1>12
<1>14. ASSUME NEW p \in P, NEW q \in P, f[p] = f[q] PROVE p = q
  <2>1. PICK u, v : u = keys[at[p[1]]] /\ v = keys[at[q[1]]]
    OBVIOUS
  <2>2. /\ u \in DOMAIN Chunk /\ StreamOf(u).signal = "logs" /\ p[2] \in DOMAIN Entries(u) /\ f[p] = Entries(u)[p[2]]
        /\ v \in DOMAIN Chunk /\ StreamOf(v).signal = "logs" /\ q[2] \in DOMAIN Entries(v) /\ f[q] = Entries(v)[q[2]]
    BY <1>13, <2>1 DEF BodiesFetched
  <2>3. Entries(u)[p[2]] = Entries(v)[q[2]]
    BY <1>14, <2>2
  <2>4. u = v /\ p[2] = q[2]
    BY <2>2, <2>3, NoRepeat
  <2>5. p[1] = q[1]
    <3>1. /\ p[1] \in 1 .. N /\ at[p[1]] \in I /\ q[1] \in 1 .. N /\ at[q[1]] \in I
          /\ at[p[1]] \in DOMAIN keys /\ at[q[1]] \in DOMAIN keys
      BY <1>3, <1>13
    <3>2. at[p[1]] = at[q[1]]
      BY <1>1, <2>1, <2>4, <3>1
    <3>3. \A j, k \in 1 .. N : at[j] = at[k] => j = k
      BY <1>6 DEF Numbers, N
    <3>4. QED
      BY <3>1, <3>2, <3>3
  <2>6. QED
    BY <1>10, <2>4, <2>5
<1>15. IsList(Bundle(s)) /\ ToSet(Bundle(s)) = {f[p] : p \in P}
  BY <1>10, <1>11, <1>14, ArrangedOnce
<1>16. \A e \in ToSet(Bundle(s)) : \E c \in ToSet(keys) : Chunk[c].stream = s /\ e \in ToSet(Entries(c))
  <2>1. ASSUME NEW p \in P PROVE \E c \in ToSet(keys) : Chunk[c].stream = s /\ f[p] \in ToSet(Entries(c))
    BY <1>13 DEF ToSet
  <2>2. QED
    BY <1>15, <2>1
<1>17. ASSUME NEW c \in ToSet(keys) \ erased, Chunk[c].stream = s PROVE ToSet(Entries(c)) \subseteq ToSet(Bundle(s))
  <2> SUFFICES ASSUME NEW m \in DOMAIN Entries(c) PROVE Entries(c)[m] \in ToSet(Bundle(s))
    BY DEF ToSet
  <2>1. PICK i \in I : keys[i] = c
    BY <1>4, <1>17
  <2>2. PICK k \in 1 .. N : at[k] = i
    BY <1>6 DEF Numbers, N
  <2>3. m \in DOMAIN seqs[k] /\ With(seqs[k][m], "stream", s) = Entries(c)[m]
    BY <1>8, <2>1, <2>2
  <2>4. PICK p : p = <<k, m>>
    OBVIOUS
  <2>5. p \in P /\ f[p] = Entries(c)[m]
    BY <1>10, <1>12, <2>3, <2>4
  <2>6. QED
    BY <1>15, <2>5
<1>18. QED
  BY <1>15, <1>16, <1>17

-----------------------------------------------------------------------------
(* The inductive invariant.                                                *)

TablesTyped ==
  /\ status \in [DOMAIN Chunk -> {"none", "pending", "ready", "deleting", "gone"}]
  /\ objects \subseteq DOMAIN Chunk

\* A request in progress is one a client asks; past the parser it was understood.
RequestTyped ==
  /\ phase \in {"idle", "refused", "lookup", "parse", "chunks", "fetch", "answered", "cached"}
  /\ phase # "idle" => request \in Request
  /\ phase = "lookup" => request.signal = "logs"
  /\ phase \in {"chunks", "fetch", "answered"} => Parsed(request)

\* Only streams of the asking tenant are listed, and only their chunks.
ListedOfTenant ==
  /\ IsList(streams)
  /\ \A s \in ToSet(streams) : s \in DOMAIN Stream /\ Stream[s].tenant = request.tenant
                               /\ Stream[s].signal = request.signal
  /\ \A c \in listed : c \in DOMAIN Chunk /\ Chunk[c].stream \in ToSet(streams) /\ status[c] # "none"
  /\ phase \in {"lookup", "parse", "chunks", "cached"} => listed = {}

\* erased has every chunk whose row has no object now.
ErasedKnown ==
  phase # "idle" => \A c \in DOMAIN Chunk : status[c] # "none" => c \in objects \/ c \in erased

\* A query of logs fetches the chunks listed of the streams planned.
KeysPlanned ==
  /\ phase \in {"lookup", "parse", "chunks"} => bodies = <<>>
  /\ phase = "fetch" /\ request.signal = "logs" =>
       BodiesFetched /\ ToSet(keys) = {c \in listed : Chunk[c].stream \in ToSet(Planned)}

\* A cached answer is of logs, of the tenant that its key names.
CacheOfTenant ==
  \A k \in DOMAIN cache :
    cache[k].type = "logs" /\ \A h \in ToSet(cache[k].hits) : Stream[h.stream].tenant = k[1]

AnswerOfTenant ==
  phase \in {"answered", "cached"} /\ answer.type = "logs" =>
    /\ request.signal = "logs"
    /\ \A h \in ToSet(answer.hits) : Stream[h.stream].tenant = request.tenant

IInv ==
  /\ TablesTyped /\ RequestTyped /\ ListedOfTenant /\ ErasedKnown
  /\ KeysPlanned /\ CacheOfTenant /\ AnswerOfTenant /\ LogAnswerIsExact

-----------------------------------------------------------------------------
(* The answer made when every index has returned.                          *)

LEMMA WantedIs ==
  ASSUME NEW r \in Request, r.signal = "logs", Parsed(r), NEW c \in DOMAIN Chunk
  PROVE  \A e : e \in Wanted[r][c] <=>
           /\ e \in ToSet(Entries(c)) /\ StreamMatches(StreamOf(c), Selector(Ast[r]).matchers)
           /\ e.timestamp >= r.range.start /\ e.timestamp <= r.range.end
           /\ EntryPasses(e, Selector(Ast[r]).pipeline)
<1>1. Wanted[r] = [d \in DOMAIN Chunk |->
        {e \in ToSet(Entries(d)) :
          /\ StreamMatches(StreamOf(d), Selector(Ast[r]).matchers)
          /\ e.timestamp >= r.range.start /\ e.timestamp <= r.range.end
          /\ EntryPasses(e, Selector(Ast[r]).pipeline)}]
  BY DEF Wanted
<1>2. QED
  BY <1>1

LEMMA PlannedIs ==
  ASSUME IsList(streams), request.signal = "logs"
  PROVE  /\ IsList(Planned)
         /\ \A s : s \in ToSet(Planned) <=>
              s \in ToSet(streams) /\ StreamMatches(Stream[s], Selector(Ast[request]).matchers)
<1> DEFINE I == {i \in DOMAIN streams : StreamMatches(Stream[streams[i]], Selector(Ast[request]).matchers)}
<1>1. I \in SUBSET DOMAIN streams /\ Planned = Pick(streams, I)
  BY DEF Planned
<1>2. \A s : s \in {streams[i] : i \in I} <=>
        s \in ToSet(streams) /\ StreamMatches(Stream[s], Selector(Ast[request]).matchers)
  BY DEF ToSet
<1> HIDE DEF I
<1>3. IsList(Pick(streams, I)) /\ ToSet(Pick(streams, I)) = {streams[i] : i \in I}
  BY <1>1, PickOfList
<1>4. QED
  BY <1>1, <1>2, <1>3

\* What is found is what passes of the bundles of the streams planned.
LEMMA FoundIs ==
  ASSUME BodiesFetched, DOMAIN bodies = DOMAIN keys, \A c \in ToSet(keys) : StreamOf(c).signal = "logs",
         IsList(Planned), NEW ast, NEW range
  PROVE  LET found == FoundIn(ast, range, [i \in DOMAIN Planned |-> Bundle(Planned[i])]) IN
         /\ IsList(found)
         /\ \A e : e \in ToSet(found) <=>
              \E s \in ToSet(Planned) : /\ e \in ToSet(Bundle(s)) /\ e.timestamp \in range.start .. range.end
                                        /\ EntryPasses(e, Selector(ast).pipeline)
<1> DEFINE n == Len(Planned)
           bundles == [i \in DOMAIN Planned |-> Bundle(Planned[i])]
           seqs == [i \in DOMAIN bundles |-> Passing(Selector(ast), range, bundles[i])]
           found == FoundIn(ast, range, bundles)
<1>1. /\ n \in Nat /\ DOMAIN Planned = 1 .. n
      /\ \A i, j \in DOMAIN Planned : Planned[i] = Planned[j] => i = j
  BY ListIs
<1>2. found = Joined(seqs) /\ DOMAIN seqs = 1 .. n
  BY <1>1 DEF FoundIn
<1>3. ASSUME NEW i \in 1 .. n
      PROVE  /\ IsList(seqs[i])
             /\ \A e : e \in ToSet(seqs[i]) <=>
                  /\ e \in ToSet(Bundle(Planned[i])) /\ e.timestamp \in range.start .. range.end
                  /\ EntryPasses(e, Selector(ast).pipeline)
  <2>1. seqs[i] = Passing(Selector(ast), range, Bundle(Planned[i]))
    BY <1>1
  <2>2. IsList(Bundle(Planned[i]))
    BY BundleIs
  <2> HIDE DEF seqs
  <2>3. QED
    BY <2>1, <2>2, PassingIs
<1> HIDE DEF seqs, n, found
<1>4. ASSUME NEW i \in 1 .. n, NEW j \in 1 .. n, NEW x, x \in ToSet(seqs[i]), x \in ToSet(seqs[j]) PROVE i = j
  <2>1. PICK u \in ToSet(keys) : Chunk[u].stream = Planned[i] /\ x \in ToSet(Entries(u))
    BY <1>3, <1>4, BundleIs
  <2>2. PICK v \in ToSet(keys) : Chunk[v].stream = Planned[j] /\ x \in ToSet(Entries(v))
    BY <1>3, <1>4, BundleIs
  <2>3. PICK k \in DOMAIN Entries(u) : Entries(u)[k] = x
    BY <2>1 DEF ToSet
  <2>4. PICK l \in DOMAIN Entries(v) : Entries(v)[l] = x
    BY <2>2 DEF ToSet
  <2>5. u \in DOMAIN Chunk /\ v \in DOMAIN Chunk /\ StreamOf(u).signal = "logs" /\ StreamOf(v).signal = "logs"
    BY DEF BodiesFetched
  <2>6. u = v
    BY <2>3, <2>4, <2>5, NoRepeat
  <2>7. QED
    BY <1>1, <2>1, <2>2, <2>6
<1>5. IsList(found) /\ ToSet(found) = UNION {ToSet(seqs[i]) : i \in 1 .. n}
  <2>1. \A i, j \in 1 .. n : \A x : x \in ToSet(seqs[i]) /\ x \in ToSet(seqs[j]) => i = j
    BY <1>4
  <2>2. QED
    BY <1>1, <1>2, <1>3, <2>1, JoinOfLists
<1>6. \A e : e \in ToSet(found) <=> \E i \in 1 .. n : e \in ToSet(seqs[i])
  BY <1>5
<1>7. \A s : s \in ToSet(Planned) <=> \E i \in 1 .. n : s = Planned[i]
  BY <1>1 DEF ToSet
<1>8. \A e : e \in ToSet(found) <=>
        \E s \in ToSet(Planned) : /\ e \in ToSet(Bundle(s)) /\ e.timestamp \in range.start .. range.end
                                  /\ EntryPasses(e, Selector(ast).pipeline)
  BY <1>3, <1>6, <1>7
<1>9. QED
  BY <1>5, <1>8 DEF found

MayHave == UNION {Wanted[request][c] : c \in listed}
MustHave == UNION {Wanted[request][c] : c \in listed \ erased}

\* What an answer may have is finite and of the tenant's own.
LEMMA MayIs ==
  ASSUME IInv, phase \in {"fetch", "answered"}, request.signal = "logs"
  PROVE  /\ \A c \in listed : \A e : e \in Wanted[request][c] <=>
              /\ e \in ToSet(Entries(c)) /\ StreamMatches(Stream[Chunk[c].stream], Selector(Ast[request]).matchers)
              /\ e.timestamp \in request.range.start .. request.range.end
              /\ EntryPasses(e, Selector(Ast[request]).pipeline)
         /\ \A e \in MayHave : e.timestamp \in Int /\ Stream[e.stream].tenant = request.tenant
         /\ IsFiniteSet(MayHave)
<1> DEFINE ast == Ast[request]
           range == request.range
<1>1. /\ request \in Request /\ Parsed(request)
      /\ \A c \in listed : /\ c \in DOMAIN Chunk /\ StreamOf(c).tenant = request.tenant
  BY DEF IInv, RequestTyped, ListedOfTenant, StreamOf
<1>2. range.start \in Int /\ range.end \in Int
  BY <1>1, RequestAssumption
<1>3. ASSUME NEW c \in listed
      PROVE  \A e : e \in Wanted[request][c] <=>
               /\ e \in ToSet(Entries(c)) /\ StreamMatches(Stream[Chunk[c].stream], Selector(ast).matchers)
               /\ e.timestamp \in range.start .. range.end /\ EntryPasses(e, Selector(ast).pipeline)
  <2>1. c \in DOMAIN Chunk /\ \A e \in ToSet(Entries(c)) : e.timestamp \in Int
    BY <1>1, EntriesAre
  <2>2. \A e : e \in Wanted[request][c] <=>
          /\ e \in ToSet(Entries(c)) /\ StreamMatches(StreamOf(c), Selector(ast).matchers)
          /\ e.timestamp >= range.start /\ e.timestamp <= range.end
          /\ EntryPasses(e, Selector(ast).pipeline)
    BY <1>1, <2>1, WantedIs
  <2> HIDE DEF range, ast
  <2>3. QED
    BY <1>2, <2>1, <2>2 DEF StreamOf
<1>4. \A e \in MayHave : e.timestamp \in Int /\ Stream[e.stream].tenant = request.tenant
  <2> SUFFICES ASSUME NEW c \in listed, NEW e \in Wanted[request][c]
               PROVE  e.timestamp \in Int /\ Stream[e.stream].tenant = request.tenant
    BY DEF MayHave
  <2>1. e \in ToSet(Entries(c)) /\ c \in DOMAIN Chunk /\ StreamOf(c).tenant = request.tenant
    BY <1>1, <1>3
  <2>2. QED
    BY <2>1, EntriesAre DEF StreamOf
<1>5. IsFiniteSet(MayHave)
  <2> DEFINE T == {Wanted[request][c] : c \in listed}
             g == [c \in listed |-> Wanted[request][c]]
  <2>1. g \in Surjection(listed, T)
    BY DEF Surjection
  <2>2. ASSUME NEW c \in listed PROVE IsFiniteSet(Wanted[request][c])
    <3>1. IsFiniteSet(ToSet(Entries(c)))
      BY <1>1, EntriesAre
    <3>2. Wanted[request][c] \in SUBSET ToSet(Entries(c))
      BY <1>3
    <3>3. QED
      BY <3>1, <3>2, FS_Subset
  <2>3. IsFiniteSet(listed)
    <3>1. listed \in SUBSET DOMAIN Chunk /\ IsFiniteSet(DOMAIN Chunk)
      BY <1>1, TablesAssumption
    <3>2. QED
      BY <3>1, FS_Subset
  <2>4. \A t \in T : IsFiniteSet(t)
    BY <2>2
  <2>5. MayHave = UNION T
    BY DEF MayHave
  <2> HIDE DEF T, g
  <2>6. QED
    BY <2>1, <2>3, <2>4, <2>5, FS_Surjection, FS_UNION
<1>6. QED
  BY <1>3, <1>4, <1>5

LEMMA AnswerIsExact ==
  ASSUME IInv, phase = "fetch", request.signal = "logs", DOMAIN bodies = DOMAIN keys
  PROVE  /\ Execute.type = "logs"
         /\ IsFiniteSet(MayHave)
         /\ IsExact(Ast[request], RowLimit, Execute, MayHave, MustHave)
         /\ \A h \in ToSet(Execute.hits) : Stream[h.stream].tenant = request.tenant
<1> DEFINE ast == Ast[request]
           range == request.range
           bundles == [i \in DOMAIN Planned |-> Bundle(Planned[i])]
           found == FoundIn(ast, range, bundles)
<1>1. /\ request \in Request /\ Parsed(request) /\ IsList(streams) /\ BodiesFetched
      /\ ToSet(keys) = {c \in listed : Chunk[c].stream \in ToSet(Planned)}
      /\ \A c \in listed : /\ c \in DOMAIN Chunk /\ Chunk[c].stream \in ToSet(streams)
                           /\ StreamOf(c).signal = "logs" /\ StreamOf(c).tenant = request.tenant
  BY DEF IInv, RequestTyped, ListedOfTenant, KeysPlanned, StreamOf
<1>2. range.start \in Int /\ range.end \in Int /\ RowLimit \in Nat
  <2>1. request.limit \in Nat /\ MaxRows \in Nat
    BY <1>1, RequestAssumption, LimitsAssumption
  <2>2. RowLimit \in Nat
    BY <2>1, SmallerOf DEF RowLimit
  <2>3. QED
    BY <1>1, <2>2, RequestAssumption
<1>3. /\ IsList(Planned)
      /\ \A s : s \in ToSet(Planned) <=> s \in ToSet(streams) /\ StreamMatches(Stream[s], Selector(ast).matchers)
  BY <1>1, PlannedIs
<1>4. \A c \in ToSet(keys) : StreamOf(c).signal = "logs"
  BY <1>1
<1>5. /\ IsList(found)
      /\ \A e : e \in ToSet(found) <=>
           \E s \in ToSet(Planned) : /\ e \in ToSet(Bundle(s)) /\ e.timestamp \in range.start .. range.end
                                     /\ EntryPasses(e, Selector(ast).pipeline)
  BY <1>1, <1>3, <1>4, FoundIs
<1>6. \A c \in listed : \A e : e \in Wanted[request][c] <=>
        /\ e \in ToSet(Entries(c)) /\ StreamMatches(Stream[Chunk[c].stream], Selector(ast).matchers)
        /\ e.timestamp \in range.start .. range.end /\ EntryPasses(e, Selector(ast).pipeline)
  BY MayIs
<1>7. \A e \in MayHave : e.timestamp \in Int /\ Stream[e.stream].tenant = request.tenant
  BY MayIs
<1>8. IsFiniteSet(MayHave)
  BY MayIs
<1> HIDE DEF found, ast, range
<1>9. ToSet(found) \subseteq MayHave
  <2> SUFFICES ASSUME NEW e \in ToSet(found) PROVE \E c \in listed : e \in Wanted[request][c]
    BY DEF MayHave
  <2>1. PICK s \in ToSet(Planned) : /\ e \in ToSet(Bundle(s)) /\ e.timestamp \in range.start .. range.end
                                    /\ EntryPasses(e, Selector(ast).pipeline)
    BY <1>5
  <2>2. PICK c \in ToSet(keys) : Chunk[c].stream = s /\ e \in ToSet(Entries(c))
    BY <1>1, <1>4, <2>1, BundleIs
  <2>3. QED
    BY <1>1, <1>3, <1>6, <2>1, <2>2
<1>10. MustHave \subseteq ToSet(found)
  <2> SUFFICES ASSUME NEW c \in listed \ erased, NEW e \in Wanted[request][c] PROVE e \in ToSet(found)
    BY DEF MustHave
  <2>1. /\ e \in ToSet(Entries(c)) /\ StreamMatches(Stream[Chunk[c].stream], Selector(ast).matchers)
        /\ e.timestamp \in range.start .. range.end /\ EntryPasses(e, Selector(ast).pipeline)
    BY <1>6
  <2>2. Chunk[c].stream \in ToSet(Planned)
    BY <1>1, <1>3, <2>1
  <2>3. c \in ToSet(keys) \ erased
    BY <1>1, <2>2
  <2>4. e \in ToSet(Bundle(Chunk[c].stream))
    BY <1>1, <1>4, <2>1, <2>3, BundleIs
  <2>5. QED
    BY <1>5, <2>1, <2>2, <2>4
<1>11. Execute = ExecuteEntries(ast, range, bundles, RowLimit)
  BY DEF Execute, ast, range
<1> HIDE DEF bundles
<1>12. /\ ExecuteEntries(ast, range, bundles, RowLimit).type = "logs"
       /\ ToSet(ExecuteEntries(ast, range, bundles, RowLimit).hits) \subseteq MayHave
       /\ IsExact(ast, RowLimit, ExecuteEntries(ast, range, bundles, RowLimit), MayHave, MustHave)
  BY <1>2, <1>5, <1>7, <1>8, <1>9, <1>10, ExecutorIsExact DEF found
<1>13. QED
  BY <1>7, <1>8, <1>11, <1>12 DEF ast

\* What is exact stays so when less must be in the answer.
LEMMA FewerAreExact ==
  ASSUME NEW ast, NEW limit \in Nat, NEW a, NEW may, IsFiniteSet(may), NEW must \in SUBSET may,
         NEW fewer \in SUBSET must, IsExact(ast, limit, a, may, must)
  PROVE  IsExact(ast, limit, a, may, fewer)
<1>1. /\ IsFiniteSet(must) /\ IsFiniteSet(fewer) /\ Cardinality(fewer) <= Cardinality(must)
      /\ Cardinality(must) \in Nat /\ Cardinality(fewer) \in Nat
  BY FS_Subset, FS_CardinalityType
<1>2. ASSUME ast.type = "aggregation", ~a.truncated PROVE PointsCount(a.series, ast, may, fewer)
  <2> DEFINE series == a.series
             width == Max({MinStep, Duration[ast.range]})
             seconds == IF ast.fn = "rate" THEN width \div MinStep ELSE 1
             buckets == {Floor(e.timestamp, width) : e \in may}
             point(b) == IF b \in DOMAIN series THEN series[b] ELSE <<0, seconds>>
  <2>1. PointsCount(series, ast, may, must)
    BY <1>2 DEF IsExact
  <2>2. /\ DOMAIN series \subseteq buckets
        /\ \A b \in buckets : point(b)[1] \in In(must, width, b) .. In(may, width, b) /\ point(b)[2] = seconds
    BY <2>1 DEF PointsCount, In
  <2> HIDE DEF point, buckets
  <2>3. \A b \in buckets : point(b)[1] \in In(fewer, width, b) .. In(may, width, b)
    <3> HIDE DEF width
    <3> SUFFICES ASSUME NEW b \in buckets PROVE point(b)[1] \in In(fewer, width, b) .. In(may, width, b)
      OBVIOUS
    <3>1. /\ In(fewer, width, b) \in Nat /\ In(must, width, b) \in Nat
          /\ In(fewer, width, b) <= In(must, width, b)
      BY <1>1, CountsGrow
    <3>2. In(may, width, b) \in Nat
      BY CountsGrow
    <3>3. QED
      BY <2>2, <3>1, <3>2
  <2>4. PointsCount(series, ast, may, fewer)
    BY <2>2, <2>3 DEF PointsCount, In, point, buckets
  <2>5. QED
    BY <2>4
<1>3. QED
  BY <1>1, <1>2 DEF IsExact

-----------------------------------------------------------------------------
(* The steps.                                                              *)

LEMMA EmptyList == IsList(<<>>) /\ ToSet(<<>>) = {}
<1>1. ToSet(<<>>) = {}
  BY DEF ToSet
<1>2. IsList(<<>>)
  <2>1. IsFiniteSet({}) /\ Cardinality({}) = 0
    BY FS_EmptySet
  <2>2. <<>> \in [1 .. 0 -> {}]
    OBVIOUS
  <2>3. Numbers(<<>>, {})
    BY <2>1, <2>2 DEF Numbers
  <2>4. QED
    BY <1>1, <2>1, <2>3 DEF IsList
<1>3. QED
  BY <1>1, <1>2

LEMMA ListsAre ==
  ASSUME NEW S, IsFiniteSet(S), NEW limit, NEW list \in Lists(S, limit)
  PROVE  IsList(list) /\ ToSet(list) \subseteq S
<1>1. PICK T \in SUBSET S : list \in SetToSeqs(T)
  BY DEF Lists, kSubset
<1> DEFINE n == Cardinality(T)
<1>2. n \in Nat
  BY FS_Subset, FS_CardinalityType
<1>3. list \in [1 .. n -> T] /\ \A i, j \in 1 .. n : i # j => list[i] # list[j]
  BY <1>1 DEF SetToSeqs
<1> HIDE DEF n
<1>4. IsList(list)
  BY <1>2, <1>3, IsAList
<1>5. ToSet(list) \subseteq T
  BY <1>3 DEF ToSet
<1>6. QED
  BY <1>4, <1>5

LEMMA InitInvariant ==
  ASSUME Init
  PROVE  IInv
<1>1. TablesTyped
  BY DEF Init, TablesTyped
<1>2. ListedOfTenant /\ RequestTyped /\ ErasedKnown /\ KeysPlanned
  BY EmptyList DEF Init, RequestTyped, ListedOfTenant, ErasedKnown, KeysPlanned
<1>3. CacheOfTenant /\ AnswerOfTenant /\ LogAnswerIsExact
  BY DEF Init, CacheOfTenant, AnswerOfTenant, LogAnswerIsExact
<1>4. QED
  BY <1>1, <1>2, <1>3 DEF IInv

LEMMA SubmitKeeps ==
  ASSUME IInv, NEW r \in Request, Submit(r)
  PROVE  IInv'
<1>1. /\ request' = r /\ phase' \in {"refused", "lookup", "parse"} /\ (phase' = "lookup" => r.signal = "logs")
      /\ streams' = <<>> /\ listed' = {} /\ bodies' = <<>>
      /\ erased' = {c \in DOMAIN Chunk : status[c] # "none" /\ c \notin objects}
      /\ UNCHANGED <<status, objects, cache>>
  BY DEF Submit, Forget, store
<1>2. TablesTyped' /\ RequestTyped'
  BY <1>1 DEF IInv, TablesTyped, RequestTyped
<1>3. ListedOfTenant'
  BY <1>1, EmptyList DEF ListedOfTenant
<1>4. ErasedKnown' /\ KeysPlanned'
  BY <1>1 DEF ErasedKnown, KeysPlanned
<1>5. CacheOfTenant' /\ AnswerOfTenant' /\ LogAnswerIsExact'
  BY <1>1 DEF IInv, CacheOfTenant, AnswerOfTenant, LogAnswerIsExact
<1>6. QED
  BY <1>2, <1>3, <1>4, <1>5 DEF IInv

LEMMA FailKeeps ==
  ASSUME IInv, Fail
  PROVE  IInv'
<1>1. /\ phase' = "idle" /\ streams' = <<>> /\ listed' = {} /\ bodies' = <<>>
      /\ UNCHANGED <<status, objects, cache>>
  BY DEF Fail, Forget, store
<1>2. TablesTyped' /\ RequestTyped'
  BY <1>1 DEF IInv, TablesTyped, RequestTyped
<1>3. ListedOfTenant'
  BY <1>1, EmptyList DEF ListedOfTenant
<1>4. ErasedKnown' /\ KeysPlanned'
  BY <1>1 DEF ErasedKnown, KeysPlanned
<1>5. CacheOfTenant' /\ AnswerOfTenant' /\ LogAnswerIsExact'
  BY <1>1 DEF IInv, CacheOfTenant, AnswerOfTenant, LogAnswerIsExact
<1>6. QED
  BY <1>2, <1>3, <1>4, <1>5 DEF IInv

LEMMA LookupKeeps ==
  ASSUME IInv, Lookup
  PROVE  IInv'
<1>1. /\ phase = "lookup" /\ request.signal = "logs" /\ request \in Request
      /\ phase' \in {"cached", "parse"}
      /\ phase' = "cached" => CacheKey(request) \in DOMAIN cache /\ answer' = cache[CacheKey(request)]
      /\ UNCHANGED <<status, objects, cache, request, streams, listed, keys, bodies, erased>>
  BY DEF IInv, RequestTyped, Lookup, store
<1>2. TablesTyped' /\ RequestTyped'
  BY <1>1 DEF IInv, TablesTyped, RequestTyped
<1>3. ListedOfTenant'
  BY <1>1 DEF IInv, ListedOfTenant
<1>4. ErasedKnown' /\ KeysPlanned'
  BY <1>1 DEF IInv, ErasedKnown, KeysPlanned
<1>5. AnswerOfTenant'
  <2>1. CacheKey(request)[1] = request.tenant
    BY DEF CacheKey
  <2>2. QED
    BY <1>1, <2>1 DEF IInv, CacheOfTenant, AnswerOfTenant
<1>6. CacheOfTenant' /\ LogAnswerIsExact'
  BY <1>1 DEF IInv, CacheOfTenant, LogAnswerIsExact
<1>7. QED
  BY <1>2, <1>3, <1>4, <1>5, <1>6 DEF IInv

\* A step that leaves the query alone, but for what mapPool has in flight, takes
\* nothing from the tables that the invariant needs.
LEMMA TablesKeep ==
  ASSUME IInv, UNCHANGED <<phase, request, streams, listed, keys, bodies, answer>>,
         TablesTyped', CacheOfTenant', ErasedKnown', erased \subseteq erased',
         \A c \in DOMAIN Chunk : status[c] # "none" => status'[c] # "none"
  PROVE  IInv'
<1>1. RequestTyped' /\ AnswerOfTenant'
  BY DEF IInv, RequestTyped, AnswerOfTenant
<1>2. ListedOfTenant'
  BY DEF IInv, ListedOfTenant
<1>3. KeysPlanned'
  <2>1. Planned' = Planned
    BY DEF Planned
  <2>2. BodiesFetched => BodiesFetched'
    BY DEF BodiesFetched
  <2>3. QED
    BY <2>1, <2>2 DEF IInv, KeysPlanned
<1>4. LogAnswerIsExact'
  <2> SUFFICES ASSUME phase = "answered", answer.type = "logs"
               PROVE  IsExact(Ast[request], RowLimit, answer, MayHave, MustHave')
    BY DEF LogAnswerIsExact, RowLimit, MayHave, MustHave
  <2>1. request.signal = "logs" /\ request \in Request
    BY DEF IInv, AnswerOfTenant, RequestTyped
  <2>2. RowLimit \in Nat
    <3>1. request.limit \in Nat /\ MaxRows \in Nat
      BY <2>1, RequestAssumption, LimitsAssumption
    <3>2. QED
      BY <3>1, SmallerOf DEF RowLimit
  <2>3. IsFiniteSet(MayHave)
    BY <2>1, MayIs
  <2>4. MustHave \in SUBSET MayHave /\ MustHave' \in SUBSET MustHave
    BY DEF MayHave, MustHave
  <2>5. IsExact(Ast[request], RowLimit, answer, MayHave, MustHave)
    BY DEF IInv, LogAnswerIsExact, MayHave, MustHave
  <2>6. QED
    BY <2>2, <2>3, <2>4, <2>5, FewerAreExact
<1>5. QED
  BY <1>1, <1>2, <1>3, <1>4 DEF IInv

LEMMA ExpireKeeps ==
  ASSUME IInv, Expire
  PROVE  IInv'
<1>1. UNCHANGED <<status, objects, erased, phase, request, streams, listed, keys, bodies, answer>>
  BY DEF Expire, store, query
<1>2. CacheOfTenant'
  <2>1. PICK k : cache' = [j \in DOMAIN cache \ {k} |-> cache[j]]
    BY DEF Expire
  <2>2. QED
    BY <2>1 DEF IInv, CacheOfTenant
<1>3. TablesTyped' /\ ErasedKnown'
  BY <1>1 DEF IInv, TablesTyped, ErasedKnown
<1>4. QED
  BY <1>1, <1>2, <1>3, TablesKeep

LEMMA ClaimKeeps ==
  ASSUME IInv, Claim
  PROVE  IInv'
<1>1. UNCHANGED <<status, objects, cache, erased, phase, request, streams, listed, keys, bodies, answer>>
  BY DEF Claim, store
<1>2. TablesTyped' /\ ErasedKnown' /\ CacheOfTenant'
  BY <1>1 DEF IInv, TablesTyped, ErasedKnown, CacheOfTenant
<1>3. QED
  BY <1>1, <1>2, TablesKeep

LEMMA ChangesKeep ==
  ASSUME IInv, NEW c \in DOMAIN Chunk, Store(c) \/ Mark(c) \/ DeleteObject(c) \/ DeleteRow(c)
  PROVE  IInv'
<1>1. UNCHANGED <<cache, phase, request, streams, listed, keys, bodies, answer>>
  BY DEF Store, Mark, DeleteObject, DeleteRow, query
<1>2. TablesTyped
  BY DEF IInv
<1>3. /\ TablesTyped' /\ erased \subseteq erased'
      /\ \A d \in DOMAIN Chunk : status[d] # "none" => status'[d] # "none"
      /\ \A d \in DOMAIN Chunk : status[d] = "none" /\ status'[d] # "none" => d \in objects'
      /\ \A d \in objects : d \in objects' \/ d \in erased'
  <2>1. CASE Store(c)
    BY <1>2, <2>1 DEF TablesTyped, Store, SetStatus
  <2>2. CASE Mark(c)
    BY <1>2, <2>2 DEF TablesTyped, Mark, SetStatus
  <2>3. CASE DeleteObject(c)
    BY <1>2, <2>3 DEF TablesTyped, DeleteObject
  <2>4. CASE DeleteRow(c)
    BY <1>2, <2>4 DEF TablesTyped, DeleteRow, SetStatus
  <2>5. QED
    BY <2>1, <2>2, <2>3, <2>4
<1>4. ErasedKnown' /\ CacheOfTenant'
  BY <1>1, <1>3 DEF IInv, ErasedKnown, CacheOfTenant
<1>5. QED
  BY <1>1, <1>3, <1>4, TablesKeep

LEMMA ListStreamsKeeps ==
  ASSUME IInv, ListStreams
  PROVE  IInv'
<1> DEFINE ast == Ast[request]
           Kept(s) == request.signal = "logs" \/ SeriesMatches(Stream[s], Leaf(ast).matchers)
<1>1. /\ phase = "parse" /\ listed = {} /\ bodies = <<>>
      /\ UNCHANGED <<status, objects, cache, request, listed, keys, bodies, erased>>
  BY DEF IInv, ListedOfTenant, KeysPlanned, ListStreams, store
<1>2. \/ phase' = "refused" /\ UNCHANGED <<streams, answer>>
      \/ /\ Parsed(request)
         /\ \E list \in Lists(Candidates(ast), MaxStreams) :
              streams' = Pick(list, {i \in DOMAIN list : Kept(list[i])})
         /\ \/ phase' = "answered" /\ answer' = [type |-> "metrics", matrix |-> <<>>]
            \/ phase' = "chunks"
  <2> HIDE DEF Kept
  <2>1. ListStreams
    OBVIOUS
  <2>2. QED
    BY <2>1, Zenon DEF ListStreams, Kept
<1>3. IsList(streams') /\ \A s \in ToSet(streams') : /\ s \in DOMAIN Stream /\ Stream[s].tenant = request.tenant
                                                     /\ Stream[s].signal = request.signal
  <2>1. CASE UNCHANGED streams
    BY <2>1 DEF IInv, ListedOfTenant
  <2>2. ASSUME NEW list \in Lists(Candidates(ast), MaxStreams), NEW I \in SUBSET DOMAIN list, streams' = Pick(list, I)
        PROVE  IsList(streams') /\ \A s \in ToSet(streams') : /\ s \in DOMAIN Stream /\ Stream[s].tenant = request.tenant
                                                        /\ Stream[s].signal = request.signal
    <3>1. Candidates(ast) \in SUBSET DOMAIN Stream /\ IsFiniteSet(Candidates(ast))
      BY TablesAssumption, FS_Subset DEF Candidates
    <3>2. IsList(list) /\ ToSet(list) \subseteq Candidates(ast)
      BY <3>1, ListsAre
    <3>3. IsList(Pick(list, I)) /\ ToSet(Pick(list, I)) = {list[i] : i \in I}
      BY <3>2, PickOfList
    <3>4. \A s \in ToSet(streams') : s \in Candidates(ast)
      BY <2>2, <3>2, <3>3 DEF ToSet
    <3>5. QED
      BY <2>2, <3>3, <3>4 DEF Candidates
  <2>3. CASE \E list \in Lists(Candidates(ast), MaxStreams) :
               streams' = Pick(list, {i \in DOMAIN list : Kept(list[i])})
    <3>1. PICK list \in Lists(Candidates(ast), MaxStreams) :
                 streams' = Pick(list, {i \in DOMAIN list : Kept(list[i])})
      BY <2>3
    <3> DEFINE I == {i \in DOMAIN list : Kept(list[i])}
    <3>2. I \in SUBSET DOMAIN list /\ streams' = Pick(list, I)
      BY <3>1
    <3> HIDE DEF I
    <3>3. QED
      BY <2>2, <3>2
  <2>4. QED
    BY <1>2, <2>1, <2>3
<1> HIDE DEF Kept, ast
<1>4. ListedOfTenant'
  BY <1>1, <1>3 DEF ListedOfTenant
<1>5. TablesTyped' /\ RequestTyped'
  <2>1. Parsed(request)' = Parsed(request)
    BY <1>1 DEF Parsed
  <2>2. QED
    BY <1>1, <1>2, <2>1 DEF IInv, TablesTyped, RequestTyped
<1>6. ErasedKnown' /\ KeysPlanned'
  BY <1>1, <1>2 DEF IInv, ErasedKnown, KeysPlanned
<1>7. AnswerOfTenant' /\ LogAnswerIsExact'
  BY <1>2 DEF AnswerOfTenant, LogAnswerIsExact
<1>8. CacheOfTenant'
  BY <1>1 DEF IInv, CacheOfTenant
<1>9. QED
  BY <1>4, <1>5, <1>6, <1>7, <1>8 DEF IInv

\* The chunks selected are those listed of the streams planned, each once.
LEMMA SelectedAre ==
  ASSUME NEW list, IsList(list), ToSet(list) \subseteq DOMAIN Chunk, NEW ids
  PROVE  /\ IsList(SelectChunks(list, ids))
         /\ ToSet(SelectChunks(list, ids)) = {c \in ToSet(list) : Chunk[c].stream \in ids}
<1> DEFINE I == {i \in DOMAIN list : Chunk[list[i]].stream \in ids}
           chosen == Pick(list, I)
           key == [i \in DOMAIN chosen |-> Chunk[chosen[i]].start]
<1>1. I \in SUBSET DOMAIN list /\ {list[i] : i \in I} = {c \in ToSet(list) : Chunk[c].stream \in ids}
  BY DEF ToSet
<1>2. SelectChunks(list, ids) = SortedBy(chosen, key)
  BY DEF SelectChunks
<1> HIDE DEF I
<1>3. IsList(chosen) /\ ToSet(chosen) = {list[i] : i \in I}
  BY <1>1, PickOfList
<1> HIDE DEF chosen
<1>4. \A i \in DOMAIN chosen : key[i] \in Int
  <2>1. \A i \in DOMAIN chosen : chosen[i] \in DOMAIN Chunk
    BY <1>1, <1>3 DEF ToSet
  <2>2. QED
    BY <2>1, TablesAssumption
<1> HIDE DEF key
<1>5. QED
  BY <1>1, <1>2, <1>3, <1>4, SortOfList

LEMMA ListChunksKeeps ==
  ASSUME IInv, ListChunks
  PROVE  IInv'
<1>1. PICK list \in Lists(InRange, MaxChunks) :
        /\ keys' = IF request.signal = "logs" THEN SelectChunks(list, ToSet(Planned))
                   ELSE Pick(list, {i \in DOMAIN list : status[list[i]] = "ready"})
        /\ listed' = ToSet(list)
  BY DEF ListChunks
<1>2. /\ phase = "chunks" /\ phase' = "fetch" /\ bodies = <<>>
      /\ UNCHANGED <<status, objects, cache, request, streams, bodies, answer, erased>>
  BY DEF IInv, KeysPlanned, ListChunks, store
<1>3. IsList(list) /\ ToSet(list) \subseteq InRange
  <2>1. InRange \in SUBSET DOMAIN Chunk /\ IsFiniteSet(InRange)
    BY TablesAssumption, FS_Subset DEF InRange
  <2>2. QED
    BY <2>1, ListsAre
<1>4. \A c \in ToSet(list) : c \in DOMAIN Chunk /\ Chunk[c].stream \in ToSet(streams) /\ status[c] # "none"
  BY <1>3 DEF InRange
<1>5. ListedOfTenant'
  BY <1>1, <1>2, <1>4 DEF IInv, ListedOfTenant
<1>6. KeysPlanned'
  <2> SUFFICES ASSUME request.signal = "logs"
               PROVE  BodiesFetched' /\ ToSet(keys') = {c \in ToSet(list) : Chunk[c].stream \in ToSet(Planned)}
    <3>1. Planned' = Planned
      BY <1>2 DEF Planned
    <3>2. QED
      BY <1>1, <1>2, <3>1 DEF KeysPlanned
  <2>1. IsList(keys') /\ ToSet(keys') = {c \in ToSet(list) : Chunk[c].stream \in ToSet(Planned)}
    BY <1>1, <1>3, <1>4, SelectedAre
  <2>2. DOMAIN bodies' = {}
    BY <1>2
  <2>3. BodiesFetched'
    BY <1>4, <2>1, <2>2 DEF BodiesFetched
  <2>4. QED
    BY <2>1, <2>3
<1>7. TablesTyped' /\ RequestTyped'
  <2>1. Parsed(request)' = Parsed(request)
    BY <1>2 DEF Parsed
  <2>2. QED
    BY <1>2, <2>1 DEF IInv, TablesTyped, RequestTyped
<1>8. ErasedKnown' /\ CacheOfTenant' /\ AnswerOfTenant' /\ LogAnswerIsExact'
  BY <1>2 DEF IInv, ErasedKnown, CacheOfTenant, AnswerOfTenant, LogAnswerIsExact
<1>9. QED
  BY <1>5, <1>6, <1>7, <1>8 DEF IInv

LEMMA FetchKeeps ==
  ASSUME IInv, NEW i \in inflight, Fetch(i)
  PROVE  IInv'
<1>1. /\ phase = "fetch"
      /\ bodies' = With(bodies, i, IF keys[i] \in objects THEN Chunk[keys[i]].items ELSE Missing)
      /\ UNCHANGED <<status, objects, cache, phase, request, streams, listed, keys, answer, erased>>
  BY DEF Fetch, store
<1>2. KeysPlanned'
  <2> SUFFICES ASSUME request.signal = "logs"
               PROVE  BodiesFetched' /\ ToSet(keys) = {c \in listed : Chunk[c].stream \in ToSet(Planned)}
    <3>1. Planned' = Planned
      BY <1>1 DEF Planned
    <3>2. QED
      BY <1>1, <3>1 DEF KeysPlanned
  <2>1. BodiesFetched /\ ToSet(keys) = {c \in listed : Chunk[c].stream \in ToSet(Planned)}
    BY <1>1 DEF IInv, KeysPlanned
  <2>2. ASSUME NEW j \in DOMAIN bodies' \intersect DOMAIN keys
        PROVE  bodies'[j] = Chunk[keys[j]].items \/ (bodies'[j] = Missing /\ keys[j] \in erased)
    <3>1. CASE j = i
      <4>1. bodies'[j] = IF keys[j] \in objects THEN Chunk[keys[j]].items ELSE Missing
        BY <1>1, <3>1 DEF With
      <4>2. keys[j] \in listed
        BY <2>1 DEF ToSet
      <4>3. keys[j] \in objects \/ keys[j] \in erased
        BY <1>1, <4>2 DEF IInv, ListedOfTenant, ErasedKnown
      <4>4. QED
        BY <4>1, <4>3
    <3>2. CASE j # i
      <4>1. j \in DOMAIN bodies \intersect DOMAIN keys /\ bodies'[j] = bodies[j]
        BY <1>1, <3>2 DEF With
      <4>2. QED
        BY <2>1, <4>1 DEF BodiesFetched
    <3>3. QED
      BY <3>1, <3>2
  <2>3. BodiesFetched'
    BY <1>1, <2>1, <2>2 DEF BodiesFetched
  <2>4. QED
    BY <2>1, <2>3
<1>3. TablesTyped' /\ RequestTyped'
  BY <1>1 DEF IInv, TablesTyped, RequestTyped
<1>4. ListedOfTenant' /\ ErasedKnown'
  BY <1>1 DEF IInv, ListedOfTenant, ErasedKnown
<1>5. CacheOfTenant' /\ AnswerOfTenant' /\ LogAnswerIsExact'
  BY <1>1 DEF IInv, CacheOfTenant, AnswerOfTenant, LogAnswerIsExact
<1>6. QED
  BY <1>2, <1>3, <1>4, <1>5 DEF IInv

LEMMA AnswerKeeps ==
  ASSUME IInv, Answer
  PROVE  IInv'
<1>1. /\ phase = "fetch" /\ phase' = "answered" /\ DOMAIN bodies = DOMAIN keys /\ answer' = Execute
      /\ cache' = IF request.signal = "logs" THEN With(cache, CacheKey(request), answer') ELSE cache
      /\ UNCHANGED <<status, objects, request, streams, listed, keys, bodies, erased>>
  BY DEF Answer, store
<1>2. request.signal = "logs" =>
        /\ answer'.type = "logs" /\ IsExact(Ast[request], RowLimit, answer', MayHave, MustHave)
        /\ \A h \in ToSet(answer'.hits) : Stream[h.stream].tenant = request.tenant
  BY <1>1, AnswerIsExact
<1>3. request.signal # "logs" => answer'.type # "logs"
  BY <1>1 DEF Execute, ExecuteMetric
<1>4. TablesTyped' /\ RequestTyped'
  <2>1. Parsed(request)' = Parsed(request)
    BY <1>1 DEF Parsed
  <2>2. QED
    BY <1>1, <2>1 DEF IInv, TablesTyped, RequestTyped
<1>5. ListedOfTenant' /\ ErasedKnown' /\ KeysPlanned'
  BY <1>1 DEF IInv, ListedOfTenant, ErasedKnown, KeysPlanned
<1>6. CacheOfTenant'
  <2>1. CASE request.signal = "logs"
    <3>1. CacheKey(request)[1] = request.tenant
      BY DEF CacheKey
    <3>2. cache' = With(cache, CacheKey(request), answer')
      BY <1>1, <2>1
    <3>3. ASSUME NEW k \in DOMAIN cache'
          PROVE  \/ k \in DOMAIN cache /\ cache'[k] = cache[k]
                 \/ k = CacheKey(request) /\ cache'[k] = answer'
      BY <3>2 DEF With
    <3>4. QED
      BY <1>2, <2>1, <3>1, <3>3 DEF IInv, CacheOfTenant
  <2>2. CASE request.signal # "logs"
    BY <1>1, <2>2 DEF IInv, CacheOfTenant
  <2>3. QED
    BY <2>1, <2>2
<1>7. AnswerOfTenant'
  BY <1>1, <1>2, <1>3 DEF AnswerOfTenant
<1>8. LogAnswerIsExact'
  BY <1>1, <1>2, <1>3 DEF LogAnswerIsExact, RowLimit, MayHave, MustHave
<1>9. QED
  BY <1>4, <1>5, <1>6, <1>7, <1>8 DEF IInv

LEMMA StepKeepsInvariant ==
  ASSUME IInv, [Next]_vars
  PROVE  IInv'
<1>1. ASSUME NEW r \in Request, Submit(r) PROVE IInv'
  BY <1>1, SubmitKeeps
<1>2. CASE Lookup
  BY <1>2, LookupKeeps
<1>3. CASE Expire
  BY <1>3, ExpireKeeps
<1>4. CASE ListStreams
  BY <1>4, ListStreamsKeeps
<1>5. CASE ListChunks
  BY <1>5, ListChunksKeeps
<1>6. CASE Claim
  BY <1>6, ClaimKeeps
<1>7. ASSUME NEW i \in inflight, Fetch(i) PROVE IInv'
  BY <1>7, FetchKeeps
<1>8. CASE Fail
  BY <1>8, FailKeeps
<1>9. CASE Answer
  BY <1>9, AnswerKeeps
<1>10. ASSUME NEW c \in DOMAIN Chunk, Store(c) \/ Mark(c) \/ DeleteObject(c) \/ DeleteRow(c) PROVE IInv'
  BY <1>10, ChangesKeep
<1>11. CASE UNCHANGED vars
  <2>1. UNCHANGED <<status, objects, cache, erased, phase, request, streams, listed, keys, bodies, answer>>
    BY <1>11 DEF vars, store, query
  <2>2. TablesTyped' /\ ErasedKnown' /\ CacheOfTenant'
    BY <2>1 DEF IInv, TablesTyped, ErasedKnown, CacheOfTenant
  <2>3. QED
    BY <2>1, <2>2, TablesKeep
<1>12. QED
  BY <1>1, <1>2, <1>3, <1>4, <1>5, <1>6, <1>7, <1>8, <1>9, <1>10, <1>11 DEF Next

\* The invariant of a query: what is listed and cached is of one tenant, what was
\* fetched is what the tables said or was erased meanwhile, and an answer of logs
\* is exact (ListStreams to Answer: run-log-query.ts, run-metric-query.ts).
THEOREM QueryInvariant == Spec => []IInv
<1>1. Init => IInv
  BY InitInvariant
<1>2. IInv /\ [Next]_vars => IInv'
  BY StepKeepsInvariant
<1>3. QED
  BY <1>1, <1>2, PTL DEF Spec

\* No answer, fresh or cached, of logs or metrics, is made of another tenant's
\* chunks, for any tables and any interleaving of requests and deletions.
THEOREM AnswersAreOwn == Spec => []OwnEntriesOnly
<1>1. IInv => OwnEntriesOnly
  BY DEF IInv, ListedOfTenant, AnswerOfTenant, OwnEntriesOnly, StreamOf
<1>2. QED
  BY <1>1, QueryInvariant, PTL

\* An answer of logs has every entry it must have and none it may not, each once
\* and in time order, whatever was deleted, stored or returned late while the
\* objects were fetched, and is called truncated exactly when the limit cut it.
THEOREM LogAnswersAreExact == Spec => []LogAnswerIsExact
<1>1. IInv => LogAnswerIsExact
  BY DEF IInv
<1>2. QED
  BY <1>1, QueryInvariant, PTL

=============================================================================
