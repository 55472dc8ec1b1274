-------------------------- MODULE EnumerationsProofs --------------------------
(***************************************************************************)
(* Facts about listings: a set of numbers in order, and the listings of    *)
(* several paths joined into one.                                          *)
(* The induction theorems of the library take an operator as a parameter,  *)
(* so induction is done here, and in the modules that extend this one,     *)
(* through the least element of a set of counterexamples.                  *)
(***************************************************************************)
EXTENDS Enumerations, SequencesExt, FiniteSetTheorems, SequenceTheorems,
        WellFoundedInduction, TLAPS

\* A nonempty set of naturals has a least element, by the well-foundedness of
\* the strict subsets of an interval.
LEMMA LeastNumber ==
  ASSUME NEW T, T \subseteq Nat, T # {}
  PROVE  \E n \in T : \A m \in T : n <= m
<1>1. PICK top \in T : TRUE
  OBVIOUS
<1>2. IsFiniteSet(0 .. top)
  BY FS_Interval
<1> DEFINE Upto == {0 .. m : m \in {x \in T : x <= top}}
<1>3. IsWellFoundedOn(StrictSubsetOrdering(0 .. top), SUBSET (0 .. top))
  BY <1>2, FS_StrictSubsetOrderingWellFounded, FS_FiniteSubsetsOfFinite
<1>4. Upto \subseteq SUBSET (0 .. top) /\ Upto # {}
  BY <1>1
<1>5. PICK b \in Upto : \A c \in Upto : ~ (<<c, b>> \in StrictSubsetOrdering(0 .. top))
  <2> HIDE DEF Upto
  <2> QED  BY <1>3, <1>4, WFMin
<1>6. PICK n \in T : n <= top /\ b = 0 .. n
  OBVIOUS
<1>7. ASSUME NEW m \in T, m < n PROVE FALSE
  <2>1. 0 .. m \in Upto
    BY <1>6, <1>7
  <2>2. (0 .. m) \subseteq 0 .. n /\ 0 .. m # 0 .. n
    BY <1>7
  <2>3. <<0 .. m, b>> \in StrictSubsetOrdering(0 .. top)
    BY <1>6, <1>7, <2>2 DEF StrictSubsetOrdering
  <2> QED  BY <1>5, <2>1, <2>3
<1> QED  BY <1>7

---------------------------------------------------------------------------
(* A set of numbers in order *)

\* How many members of the set come before a number, the number's place in it.
Smaller(S, n) == {m \in S : m < n}
Place(S, n) == Cardinality(Smaller(S, n)) + 1

\* The places are those of a sequence, smaller numbers have the earlier ones,
\* and every place is taken.
LEMMA Places ==
  ASSUME NEW S, S \subseteq Nat, IsFiniteSet(S)
  PROVE  /\ Cardinality(S) \in Nat
         /\ \A n \in S : Place(S, n) \in 1 .. Cardinality(S)
         /\ \A m, n \in S : m < n => Place(S, m) < Place(S, n)
         /\ \A i \in 1 .. Cardinality(S) : \E n \in S : Place(S, n) = i
<1> DEFINE size == Cardinality(S)
           place == [n \in S |-> Place(S, n)]
<1>1. IsFiniteSet(1 .. size) /\ Cardinality(1 .. size) = size /\ size \in Nat
  BY FS_Interval, FS_CardinalityType
<1>2. \A n \in S : IsFiniteSet(Smaller(S, n)) /\ Cardinality(Smaller(S, n)) \in Nat
  <2>1. \A n \in S : Smaller(S, n) \subseteq S
    BY DEF Smaller
  <2> QED  BY <2>1, FS_Subset, FS_CardinalityType
<1>3. ASSUME NEW n \in S PROVE Place(S, n) \in 1 .. size
  <2>1. Smaller(S, n) \in SUBSET S /\ Smaller(S, n) # S
    <3>1. n \notin Smaller(S, n)
      BY <1>3 DEF Smaller
    <3> QED  BY <1>3, <3>1 DEF Smaller
  <2>2. Cardinality(Smaller(S, n)) <= size /\ Cardinality(Smaller(S, n)) # size
    BY <1>1, <2>1, FS_Subset
  <2> QED  BY <1>1, <1>2, <1>3, <2>2 DEF Place
<1>4. ASSUME NEW m \in S, NEW n \in S, m < n PROVE Place(S, m) < Place(S, n)
  <2>1. Smaller(S, m) \in SUBSET Smaller(S, n) /\ m \in Smaller(S, n) /\ m \notin Smaller(S, m)
    <3>1. m \in Nat /\ n \in Nat /\ ~ (m < m) /\ \A k \in S : k < m => k < n
      BY <1>4
    <3> QED  BY <1>4, <3>1 DEF Smaller
  <2>2. /\ Cardinality(Smaller(S, m)) <= Cardinality(Smaller(S, n))
        /\ Cardinality(Smaller(S, m)) # Cardinality(Smaller(S, n))
    BY <1>2, <2>1, FS_Subset
  <2> QED  BY <1>2, <2>2 DEF Place
<1>5. ASSUME NEW m \in S, NEW n \in S, Place(S, m) = Place(S, n) PROVE m = n
  <2>1. Place(S, m) \in Nat /\ Place(S, n) \in Nat /\ m \in Nat /\ n \in Nat
    BY <1>1, <1>3
  <2>2. ~ (m < n) /\ ~ (n < m)
    BY <1>4, <1>5, <2>1
  <2> QED  BY <2>1, <2>2
<1>6. place \in Injection(S, 1 .. size)
  <2>1. place \in [S -> 1 .. size]
    BY <1>3
  <2>2. \A m, n \in S : place[m] = place[n] => m = n
    BY <1>5
  <2> HIDE DEF place
  <2> QED  BY <2>1, <2>2 DEF Injection, IsInjective
<1>7. place \in Surjection(S, 1 .. size)
  <2> HIDE DEF place
  <2> QED  BY <1>1, <1>6, FS_Injection
<1>8. \A i \in 1 .. size : \E n \in S : Place(S, n) = i
  <2>1. \A i \in 1 .. size : \E n \in S : place[n] = i
    <3> HIDE DEF place
    <3> QED  BY <1>7 DEF Surjection
  <2> QED  BY <2>1
<1> QED  BY <1>1, <1>3, <1>4, <1>8

\* A listing is increasing and has the members of the set, all of them.
Lists(q, S) ==
  /\ q \in [1 .. Cardinality(S) -> S]
  /\ \A m, n \in 1 .. Cardinality(S) : m < n => q[m] < q[n]
  /\ \A x \in S : \E n \in 1 .. Cardinality(S) : q[n] = x

\* Ascending, made of choices, lists the set.
LEMMA AscendingIs ==
  ASSUME NEW S, S \subseteq Nat, IsFiniteSet(S)
  PROVE  Cardinality(S) \in Nat /\ Lists(Ascending(S), S)
<1> DEFINE q == Ascending(S)
           size == Cardinality(S)
<1>1. /\ size \in Nat
      /\ \A n \in S : Place(S, n) \in 1 .. size
      /\ \A m, n \in S : m < n => Place(S, m) < Place(S, n)
      /\ \A i \in 1 .. size : \E n \in S : Place(S, n) = i
  BY Places
<1>2. ASSUME NEW i \in 1 .. size PROVE q[i] \in S /\ Place(S, q[i]) = i
  <2>1. \A n \in S : Cardinality(Smaller(S, n)) = i - 1 <=> Place(S, n) = i
    <3> SUFFICES ASSUME NEW n \in S
                 PROVE  Cardinality(Smaller(S, n)) = i - 1 <=> Place(S, n) = i
      OBVIOUS
    <3>1. IsFiniteSet(Smaller(S, n))
      BY FS_Subset DEF Smaller
    <3>2. Cardinality(Smaller(S, n)) \in Nat
      BY <3>1, FS_CardinalityType
    <3> QED  BY <1>2, <3>2 DEF Place
  <2>2. q[i] = CHOOSE n \in S : Cardinality(Smaller(S, n)) = i - 1
    BY <1>2 DEF Ascending, Smaller
  <2>3. \E n \in S : Cardinality(Smaller(S, n)) = i - 1
    BY <1>1, <1>2, <2>1
  <2> HIDE DEF q
  <2>4. q[i] \in S /\ Cardinality(Smaller(S, q[i])) = i - 1
    BY <2>2, <2>3
  <2> QED  BY <2>1, <2>4
<1>3. DOMAIN q = 1 .. size /\ q = [i \in 1 .. size |-> q[i]]
  <2> DEFINE choice(i) == CHOOSE n \in S : Cardinality({m \in S : m < n}) = i - 1
  <2>1. q = [i \in 1 .. size |-> choice(i)]
    BY DEF Ascending
  <2> HIDE DEF q, size, choice
  <2> QED  BY <2>1
<1> HIDE DEF q, size
<1>4. q \in [1 .. size -> S]
  BY <1>2, <1>3
<1>5. ASSUME NEW m \in 1 .. size, NEW n \in 1 .. size, m < n PROVE q[m] < q[n]
  <2>1. q[m] \in Nat /\ q[n] \in Nat /\ q[m] \in S /\ q[n] \in S
    BY <1>2, <1>5
  <2>2. ~ (q[n] < q[m]) /\ q[n] # q[m]
    BY <1>1, <1>2, <1>5, <2>1
  <2> QED  BY <2>1, <2>2
<1>6. ASSUME NEW x \in S PROVE \E n \in 1 .. size : q[n] = x
  <2> DEFINE y == q[Place(S, x)]
  <2>1. y \in S /\ Place(S, y) = Place(S, x) /\ Place(S, x) \in 1 .. size
    BY <1>1, <1>2, <1>6
  <2> HIDE DEF y
  <2>2. Place(S, x) \in Nat /\ ~ (Place(S, x) < Place(S, x))
    BY <1>1, <2>1
  <2>3. ~ (y < x) /\ ~ (x < y)
    BY <1>1, <1>6, <2>1, <2>2
  <2>4. y \in Nat /\ x \in Nat
    BY <1>6, <2>1
  <2> QED  BY <2>1, <2>3, <2>4 DEF y
<1> QED  BY <1>1, <1>4, <1>5, <1>6 DEF Lists, q, size

\* Any set of indexes of a sequence can be listed.
LEMMA IndexesFinite ==
  ASSUME NEW top \in Nat, NEW S \in SUBSET (1 .. top)
  PROVE  S \subseteq Nat /\ IsFiniteSet(S)
<1>1. IsFiniteSet(1 .. top)
  BY FS_Interval
<1>2. IsFiniteSet(S)
  BY <1>1, FS_Subset
<1> QED  BY <1>2

\* A set of one number is listed as that number.
LEMMA AscendingOne ==
  ASSUME NEW n \in Nat
  PROVE  Ascending({n}) = <<n>>
<1>1. Cardinality({n}) = 1 /\ IsFiniteSet({n})
  BY FS_Singleton
<1> DEFINE q == Ascending({n})
<1>2. q \in [1 .. 1 -> {n}]
  BY <1>1, AscendingIs DEF Lists
<1> HIDE DEF q
<1>3. q = <<n>>
  BY <1>2
<1> QED  BY <1>3 DEF q

---------------------------------------------------------------------------
(* Listings joined *)

\* The listings of the first k paths joined, for every k up to n.
Joins(f, lists, n) ==
  f = [i \in 1 .. n |-> IF i = 1 THEN lists[i] ELSE f[i - 1] \o lists[i]]

\* There is such a function, though it is defined by itself.
LEMMA JoinsExist ==
  ASSUME NEW lists, NEW n \in Nat
  PROVE  \E f : Joins(f, lists, n)
<1> DEFINE Wrong == {k \in Nat : ~ \E f : Joins(f, lists, k)}
<1>1. SUFFICES ASSUME Wrong # {} PROVE FALSE
  OBVIOUS
<1>2. PICK k \in Wrong : \A m \in Wrong : k <= m
  <2>1. Wrong \subseteq Nat
    OBVIOUS
  <2> HIDE DEF Wrong
  <2> QED  BY <1>1, <2>1, LeastNumber
<1>3. k # 0
  <2> DEFINE none == [i \in 1 .. 0 |-> 0]
  <2>1. none = [i \in 1 .. 0 |-> IF i = 1 THEN lists[i] ELSE none[i - 1] \o lists[i]]
    OBVIOUS
  <2>2. Joins(none, lists, 0)
    <3> HIDE DEF none
    <3> QED  BY <2>1 DEF Joins
  <2> QED  BY <2>2
<1>4. PICK f : Joins(f, lists, k - 1)
  <2>1. k - 1 \in Nat /\ k - 1 \notin Wrong
    BY <1>2, <1>3
  <2> QED  BY <2>1
<1> DEFINE g == [i \in 1 .. k |-> IF i = 1 THEN lists[i] ELSE f[i - 1] \o lists[i]]
<1>5. ASSUME NEW i \in 1 .. k - 1 PROVE g[i] = f[i]
  <2> DEFINE next == IF i = 1 THEN lists[i] ELSE f[i - 1] \o lists[i]
  <2>1. i \in 1 .. k
    BY <1>5
  <2>2. g[i] = next
    BY <2>1
  <2>3. f[i] = next
    <3> HIDE DEF g
    <3> QED  BY <1>4, <1>5 DEF Joins
  <2> QED  BY <2>2, <2>3
<1>6. g = [i \in 1 .. k |-> IF i = 1 THEN lists[i] ELSE g[i - 1] \o lists[i]]
  <2>1. ASSUME NEW i \in 1 .. k, i # 1 PROVE f[i - 1] = g[i - 1]
    <3>1. i - 1 \in 1 .. k - 1
      BY <2>1
    <3> QED  BY <1>5, <3>1
  <2> DEFINE onF(i) == IF i = 1 THEN lists[i] ELSE f[i - 1] \o lists[i]
             onG(i) == IF i = 1 THEN lists[i] ELSE g[i - 1] \o lists[i]
  <2>2. \A i \in 1 .. k : onF(i) = onG(i)
    <3> HIDE DEF g
    <3> QED  BY <2>1
  <2>3. g = [i \in 1 .. k |-> onF(i)]
    OBVIOUS
  <2> HIDE DEF onF, g
  <2>4. g = [i \in 1 .. k |-> onG(i)]
    <3> HIDE DEF onG
    <3> QED  BY <2>2, <2>3
  <2> QED  BY <2>4
<1>7. Joins(g, lists, k)
  <2> HIDE DEF g
  <2> QED  BY <1>6 DEF Joins
<1> QED  BY <1>7

Agree(f, g, n) == \A i \in 1 .. n : f[i] = g[i]

\* Two of them agree as far as the lists do.
LEMMA JoinsAgree ==
  ASSUME NEW lists, NEW others, NEW n \in Nat, NEW m \in Nat, n <= m,
         Agree(lists, others, n),
         NEW f, Joins(f, lists, n), NEW g, Joins(g, others, m)
  PROVE  Agree(f, g, n)
<1> DEFINE Wrong == {i \in 1 .. n : f[i] # g[i]}
<1>1. SUFFICES ASSUME Wrong # {} PROVE FALSE
  BY DEF Agree
<1>2. PICK i \in Wrong : \A j \in Wrong : i <= j
  <2>1. Wrong \subseteq Nat
    OBVIOUS
  <2> HIDE DEF Wrong
  <2> QED  BY <1>1, <2>1, LeastNumber
<1>3. i \in 1 .. n /\ i \in 1 .. m /\ lists[i] = others[i]
  BY DEF Agree
<1>4. f[i] = IF i = 1 THEN lists[i] ELSE f[i - 1] \o lists[i]
  BY <1>3 DEF Joins
<1>5. g[i] = IF i = 1 THEN others[i] ELSE g[i - 1] \o others[i]
  BY <1>3 DEF Joins
<1>6. i # 1 => f[i - 1] = g[i - 1]
  <2> SUFFICES ASSUME i # 1 PROVE f[i - 1] = g[i - 1]
    OBVIOUS
  <2>1. i - 1 \in 1 .. n /\ i - 1 \notin Wrong
    BY <1>2, <1>3
  <2> QED  BY <2>1
<1> QED  BY <1>3, <1>4, <1>5, <1>6

\* What FlattenSeq computes.
LEMMA FlattenIs ==
  ASSUME NEW lists, Len(lists) \in Nat \ {0}
  PROVE  \E f : Joins(f, lists, Len(lists)) /\ FlattenSeq(lists) = f[Len(lists)]
<1> DEFINE n == Len(lists)
           F == CHOOSE f : f = [i \in 1 .. n |-> IF i = 1 THEN lists[i] ELSE f[i - 1] \o lists[i]]
<1>1. FlattenSeq(lists) = F[n]
  BY DEF FlattenSeq
<1>2. \E f : f = [i \in 1 .. n |-> IF i = 1 THEN lists[i] ELSE f[i - 1] \o lists[i]]
  <2> HIDE DEF n
  <2> QED  BY JoinsExist DEF Joins, n
<1>3. F = [i \in 1 .. n |-> IF i = 1 THEN lists[i] ELSE F[i - 1] \o lists[i]]
  <2> HIDE DEF n
  <2> QED  BY <1>2
<1>4. Joins(F, lists, n)
  <2> HIDE DEF F, n
  <2> QED  BY <1>3 DEF Joins
<1> QED  BY <1>1, <1>4

\* One listing more is appended.
LEMMA FlattenAppend ==
  ASSUME NEW S, NEW lists \in Seq(Seq(S)), NEW last \in Seq(S)
  PROVE  FlattenSeq(Append(lists, last)) = FlattenSeq(lists) \o last
<1> DEFINE n == Len(lists)
           more == Append(lists, last)
<1>1. n \in Nat /\ Len(more) = n + 1 /\ more[n + 1] = last
      /\ \A i \in 1 .. n : more[i] = lists[i]
  OBVIOUS
<1> HIDE DEF n, more
<1>2. PICK g : Joins(g, more, n + 1) /\ FlattenSeq(more) = g[n + 1]
  BY <1>1, FlattenIs
<1>3. CASE n = 0
  <2>1. g[1] = more[1]
    BY <1>1, <1>2, <1>3 DEF Joins
  <2>2. FlattenSeq(lists) = <<>>
    <3>1. lists = <<>>
      BY <1>3 DEF n
    <3> QED  BY <3>1 DEF FlattenSeq
  <2> QED  BY <1>1, <1>2, <1>3, <2>1, <2>2 DEF more
<1>4. CASE n # 0
  <2>1. PICK f : Joins(f, lists, n) /\ FlattenSeq(lists) = f[n]
    BY <1>1, <1>4, FlattenIs DEF n
  <2>2. f[n] = g[n]
    <3>1. n \in Nat /\ n + 1 \in Nat /\ n <= n + 1 /\ n \in 1 .. n
      BY <1>1, <1>4
    <3>2. Agree(lists, more, n)
      BY <1>1 DEF Agree
    <3>3. Agree(f, g, n)
      BY <1>2, <2>1, <3>1, <3>2, JoinsAgree
    <3> QED  BY <3>1, <3>3 DEF Agree
  <2>3. g[n + 1] = g[n] \o more[n + 1]
    <3>1. n + 1 \in 1 .. n + 1 /\ n + 1 # 1 /\ (n + 1) - 1 = n
      BY <1>1, <1>4
    <3>2. g[n + 1] = IF n + 1 = 1 THEN more[n + 1] ELSE g[(n + 1) - 1] \o more[n + 1]
      BY <1>2, <3>1 DEF Joins
    <3> QED  BY <3>1, <3>2
  <2> QED  BY <1>1, <1>2, <2>1, <2>2, <2>3 DEF more
<1> QED  BY <1>3, <1>4

\* Nothing joined is nothing.
LEMMA FlattenEmpty == FlattenSeq(<<>>) = <<>>
BY DEF FlattenSeq

\* A member of the first j listings, and one that stands before another there.
IsOf(x, lists, j) == \E i \in 1 .. j : \E a \in DOMAIN lists[i] : x = lists[i][a]
StandsBefore(x, y, lists, j) ==
  \E i, k \in 1 .. j : \E a \in DOMAIN lists[i], b \in DOMAIN lists[k] :
    x = lists[i][a] /\ y = lists[k][b] /\ (i < k \/ (i = k /\ a < b))

\* A sequence has the members of the first j listings, in their order.
HasInOrder(q, lists, j) ==
  /\ \A m \in DOMAIN q : IsOf(q[m], lists, j)
  /\ \A m, n \in DOMAIN q : m < n => StandsBefore(q[m], q[n], lists, j)

\* One listing more goes behind those before.
LEMMA InOrderStep ==
  ASSUME NEW S, NEW q \in Seq(S), NEW lists, NEW j \in Nat, lists[j + 1] \in Seq(S),
         HasInOrder(q, lists, j)
  PROVE  HasInOrder(q \o lists[j + 1], lists, j + 1)
<1> DEFINE p == lists[j + 1]
           all == q \o p
<1>1. /\ Len(q) \in Nat /\ Len(p) \in Nat /\ DOMAIN all = 1 .. Len(q) + Len(p)
      /\ DOMAIN q = 1 .. Len(q) /\ DOMAIN p = 1 .. Len(p)
      /\ \A i \in 1 .. Len(q) : all[i] = q[i]
      /\ \A i \in 1 .. Len(q) + Len(p) :
           i > Len(q) => i - Len(q) \in 1 .. Len(p) /\ all[i] = p[i - Len(q)]
  OBVIOUS
<1> HIDE DEF all, p
<1>2. 1 .. j \subseteq 1 .. j + 1 /\ j + 1 \in 1 .. j + 1 /\ \A i \in 1 .. j : i < j + 1
  OBVIOUS
<1>3. \A a \in DOMAIN p : IsOf(p[a], lists, j + 1)
  BY <1>2 DEF IsOf, p
<1>4. \A x : IsOf(x, lists, j) => IsOf(x, lists, j + 1)
  BY <1>2 DEF IsOf
<1>5. \A m \in DOMAIN all : IsOf(all[m], lists, j + 1)
  <2> SUFFICES ASSUME NEW m \in DOMAIN all PROVE IsOf(all[m], lists, j + 1)
    OBVIOUS
  <2>1. CASE m <= Len(q)
    BY <1>1, <1>4, <2>1 DEF HasInOrder
  <2>2. CASE m > Len(q)
    BY <1>1, <1>3, <2>2
  <2> QED  BY <1>1, <2>1, <2>2
<1>6. ASSUME NEW m \in DOMAIN all, NEW n \in DOMAIN all, m < n
      PROVE  StandsBefore(all[m], all[n], lists, j + 1)
  <2>1. CASE n <= Len(q)
    <3>1. StandsBefore(all[m], all[n], lists, j)
      BY <1>1, <1>6, <2>1 DEF HasInOrder
    <3> QED  BY <1>2, <3>1 DEF StandsBefore
  <2>2. CASE m <= Len(q) /\ n > Len(q)
    <3>1. IsOf(all[m], lists, j)
      BY <1>1, <2>2 DEF HasInOrder
    <3>2. PICK i \in 1 .. j : \E a \in DOMAIN lists[i] : all[m] = lists[i][a]
      BY <3>1 DEF IsOf
    <3>3. n - Len(q) \in DOMAIN lists[j + 1] /\ all[n] = lists[j + 1][n - Len(q)]
      BY <1>1, <2>2 DEF p
    <3>4. i \in 1 .. j + 1 /\ j + 1 \in 1 .. j + 1 /\ i < j + 1
      BY <1>2
    <3> QED  BY <3>2, <3>3, <3>4 DEF StandsBefore
  <2>3. CASE m > Len(q)
    <3>1. /\ m - Len(q) \in DOMAIN lists[j + 1] /\ all[m] = lists[j + 1][m - Len(q)]
          /\ n - Len(q) \in DOMAIN lists[j + 1] /\ all[n] = lists[j + 1][n - Len(q)]
          /\ m - Len(q) < n - Len(q)
      <4>1. m > Len(q) /\ n > Len(q) /\ m \in 1 .. Len(q) + Len(p) /\ n \in 1 .. Len(q) + Len(p)
        BY <1>1, <1>6, <2>3
      <4>2. m - Len(q) < n - Len(q)
        BY <1>1, <1>6, <4>1
      <4> QED  BY <1>1, <4>1, <4>2 DEF p
    <3> QED  BY <1>2, <3>1 DEF StandsBefore
  <2> QED  BY <1>1, <1>6, <2>1, <2>2, <2>3
<1> QED  BY <1>5, <1>6 DEF HasInOrder, all, p

\* Listings joined are a listing; it has the members of each, in the order of
\* the listings and of each of them.
LEMMA FlattenInOrder ==
  ASSUME NEW S, NEW lists \in Seq(Seq(S))
  PROVE  FlattenSeq(lists) \in Seq(S) /\ HasInOrder(FlattenSeq(lists), lists, Len(lists))
<1> DEFINE n == Len(lists)
<1>1. CASE n = 0
  <2>1. FlattenSeq(lists) = <<>>
    <3>1. lists = <<>>
      BY <1>1
    <3> QED  BY <3>1, FlattenEmpty
  <2>2. <<>> \in Seq(S) /\ HasInOrder(<<>>, lists, n)
    BY DEF HasInOrder
  <2> QED  BY <2>1, <2>2
<1>2. CASE n # 0
  <2>1. n \in Nat \ {0} /\ \A i \in 1 .. n : lists[i] \in Seq(S)
    BY <1>2
  <2>2. PICK f : Joins(f, lists, n) /\ FlattenSeq(lists) = f[n]
    BY <2>1, FlattenIs
  <2> DEFINE Wrong == {i \in 1 .. n : ~ (f[i] \in Seq(S) /\ HasInOrder(f[i], lists, i))}
  <2> HIDE DEF n
  <2>3. Wrong = {}
    <3>1. SUFFICES ASSUME Wrong # {} PROVE FALSE
      OBVIOUS
    <3>2. PICK i \in Wrong : \A j \in Wrong : i <= j
      <4>1. Wrong \subseteq Nat
        BY <2>1
      <4> HIDE DEF Wrong
      <4> QED  BY <3>1, <4>1, LeastNumber
    <3>3. f[i] = IF i = 1 THEN lists[i] ELSE f[i - 1] \o lists[i]
      BY <2>2 DEF Joins
    <3>4. CASE i = 1
      <4>1. f[i] = lists[1] /\ lists[1] \in Seq(S)
        BY <2>1, <3>3, <3>4
      <4>2. HasInOrder(lists[1], lists, 1)
        BY 1 \in 1 .. 1 DEF HasInOrder, IsOf, StandsBefore
      <4> QED  BY <3>4, <4>1, <4>2
    <3>5. CASE i # 1
      <4> DEFINE j == i - 1
      <4>1. j \in Nat /\ j \in 1 .. n /\ j \notin Wrong /\ j + 1 = i
        BY <2>1, <3>2, <3>5
      <4>2. f[j] \in Seq(S) /\ HasInOrder(f[j], lists, j)
        BY <4>1
      <4>3. lists[j + 1] \in Seq(S) /\ f[i] = f[j] \o lists[j + 1]
        BY <2>1, <3>3, <3>5, <4>1
      <4> HIDE DEF j
      <4>4. HasInOrder(f[j] \o lists[j + 1], lists, j + 1) /\ f[j] \o lists[j + 1] \in Seq(S)
        BY <4>1, <4>2, <4>3, InOrderStep
      <4> QED  BY <4>1, <4>3, <4>4
    <3> QED  BY <3>4, <3>5
  <2>4. n \in 1 .. n
    BY <2>1
  <2>5. f[n] \in Seq(S) /\ HasInOrder(f[n], lists, n)
    BY <2>3, <2>4
  <2> QED  BY <2>2, <2>5 DEF n
<1> QED  BY <1>1, <1>2

---------------------------------------------------------------------------
(* Prefixes *)

\* One sequence begins another when it is no longer and agrees with it.
LEMMA PrefixIs ==
  ASSUME NEW S, NEW s \in Seq(S), NEW t \in Seq(S)
  PROVE  IsPrefix(s, t) <=> Len(s) <= Len(t) /\ \A i \in 1 .. Len(s) : s[i] = t[i]
<1>1. Len(s) \in Nat /\ Len(t) \in Nat /\ SubSeq(s, 1, Len(s)) = s
  OBVIOUS
<1>2. ASSUME Len(s) <= Len(t)
      PROVE  s = SubSeq(t, 1, Len(s)) <=> \A i \in 1 .. Len(s) : s[i] = t[i]
  <2>1. /\ SubSeq(t, 1, Len(s)) \in Seq(S) /\ Len(SubSeq(t, 1, Len(s))) = Len(s)
        /\ \A i \in 1 .. Len(s) : SubSeq(t, 1, Len(s))[i] = t[i]
    BY <1>1, <1>2
  <2> QED  BY <1>1, <2>1
<1> QED  BY <1>1, <1>2 DEF IsPrefix
=============================================================================
