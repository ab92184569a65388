--------------------------- MODULE ReadingsProofs ---------------------------
(***************************************************************************)
(* Proofs about build_readings: for every table of rows, in whatever order *)
(* they are listed, every window, every range of sums and every scale.     *)
(*                                                                         *)
(* build_readings is a loop, so its result is a recursive function.  The   *)
(* induction over it rests on LeastNumber, which follows from the          *)
(* well-foundedness of strict inclusion among finite sets.                 *)
(***************************************************************************)
EXTENDS ReadingsCheck, FiniteSetTheorems, TLAPS

-----------------------------------------------------------------------------
(***************************************************************************)
(* Induction.                                                              *)
(***************************************************************************)

\* Every non-empty set of natural numbers has a least element.
LEMMA LeastNumber ==
  ASSUME NEW S \in SUBSET Nat, S # {}
  PROVE  \E m \in S : \A n \in S : m <= n
<1> DEFINE Segments == {1..n : n \in S}
           Smaller == StrictSubsetOrdering(Nat)
<1>1. Segments # {} /\ Segments \subseteq FiniteSubsetsOf(Nat)
  <2>1. ASSUME NEW n \in S PROVE 1..n \in FiniteSubsetsOf(Nat)
    BY FS_Interval DEF FiniteSubsetsOf
  <2> QED BY <2>1
<1>2. \E x \in Segments : \A y \in Segments : <<y, x>> \notin Smaller
  <2>1. IsWellFoundedOn(Smaller, FiniteSubsetsOf(Nat))
    BY FS_StrictSubsetOrderingWellFounded
  <2> HIDE DEF Segments, Smaller
  <2> QED BY <1>1, <2>1, WFMin
<1>3. PICK m \in S : \A n \in S : <<1..n, 1..m>> \notin Smaller
  BY <1>2
<1>4. ASSUME NEW n \in S, n < m PROVE FALSE
  <2>1. 1..n \subseteq 1..m /\ 1..m \subseteq Nat /\ m \in 1..m /\ m \notin 1..n
    BY <1>4
  <2> QED BY <2>1, <1>3 DEF StrictSubsetOrdering
<1> QED BY <1>4

\* What holds of 0 and passes from n to n + 1 holds of every number.
LEMMA Induction ==
  ASSUME NEW S \in SUBSET Nat, 0 \in S, \A n \in S : n + 1 \in S
  PROVE  \A n \in Nat : n \in S
<1> SUFFICES ASSUME Nat \ S # {} PROVE FALSE
  OBVIOUS
<1>1. PICK m \in Nat \ S : \A n \in Nat \ S : m <= n
  BY LeastNumber
<1>2. m # 0 /\ m - 1 \in Nat
  BY <1>1
<1>3. m - 1 \in S
  BY <1>1, <1>2
<1>4. (m - 1) + 1 = m
  BY <1>1
<1> QED BY <1>1, <1>3, <1>4

\* A function that starts from base and takes each value from the one before.
Solves(f, N, X, base, g) ==
  /\ f \in [0..N -> X]
  /\ f[0] = base
  /\ \A n \in 1..N : f[n] = g[n][f[n - 1]]

\* A recursion over 1..N whose steps stay in X has a solution.
LEMMA Recursion ==
  ASSUME NEW N \in Nat, NEW X, NEW base \in X, NEW g \in [1..N -> [X -> X]]
  PROVE  \E f : Solves(f, N, X, base, g)
<1> DEFINE Part(f, k) ==
             f \in [0..k -> X] /\ f[0] = base /\ \A n \in 1..k : f[n] = g[n][f[n - 1]]
           S == {k \in Nat : k <= N => \E f : Part(f, k)}
<1>1. 0 \in S
  <2>1. Part([n \in 0..0 |-> base], 0)
    OBVIOUS
  <2> QED BY <2>1
<1>2. ASSUME NEW k \in S PROVE k + 1 \in S
  <2> SUFFICES ASSUME k + 1 <= N PROVE \E f : Part(f, k + 1)
    OBVIOUS
  <2>1. k \in Nat /\ k <= N
    OBVIOUS
  <2>2. PICK f : Part(f, k)
    BY <2>1
  <2>3. g[k + 1][f[k]] \in X
    <3>1. f[k] \in X /\ k + 1 \in 1..N
      BY <2>1, <2>2
    <3> QED BY <3>1
  <2> DEFINE h == [n \in 0..(k + 1) |-> IF n <= k THEN f[n] ELSE g[k + 1][f[k]]]
  <2>4. h \in [0..(k + 1) -> X] /\ h[0] = base
    BY <2>1, <2>2, <2>3
  <2>5. ASSUME NEW n \in 1..(k + 1) PROVE h[n] = g[n][h[n - 1]]
    <3>1. CASE n <= k
      BY <3>1, <2>1, <2>2
    <3>2. CASE n = k + 1
      <4>1. h[n] = g[n][f[k]] /\ h[n - 1] = f[k]
        BY <3>2, <2>1
      <4> QED BY <4>1
    <3> QED BY <3>1, <3>2, <2>1
  <2>6. Part(h, k + 1)
    BY <2>4, <2>5
  <2> QED BY <2>6
<1>3. N \in S
  <2> HIDE DEF S
  <2>1. S \in SUBSET Nat
    BY DEF S
  <2> QED BY <1>1, <1>2, <2>1, Induction
<1> QED BY <1>3 DEF Solves

-----------------------------------------------------------------------------
(***************************************************************************)
(* Ranks: how many of a finite set come no later in a total order.         *)
(***************************************************************************)

\* Ranks lie between 1 and the size of the set, and grow with the order.
LEMMA RanksGrow ==
  ASSUME NEW I, IsFiniteSet(I), NEW upTo \in [I -> SUBSET I],
         \A i \in I : i \in upTo[i],
         \A i, j \in I : j \in upTo[i] => upTo[j] \subseteq upTo[i],
         \A i, j \in I : j \in upTo[i] /\ i \in upTo[j] => i = j
  PROVE  /\ \A i \in I : Cardinality(upTo[i]) \in 1..Cardinality(I)
         /\ \A i, j \in I :
              j \in upTo[i] /\ j # i => Cardinality(upTo[j]) < Cardinality(upTo[i])
<1>1. ASSUME NEW i \in I
      PROVE  /\ IsFiniteSet(upTo[i])
             /\ Cardinality(upTo[i]) \in 1..Cardinality(I)
  <2>1. /\ IsFiniteSet(upTo[i]) /\ Cardinality(upTo[i]) <= Cardinality(I)
        /\ Cardinality(upTo[i]) \in Nat /\ Cardinality(I) \in Nat
    BY FS_Subset, FS_CardinalityType
  <2>2. Cardinality(upTo[i]) # 0
    BY <2>1, FS_EmptySet
  <2> QED BY <2>1, <2>2
<1>2. ASSUME NEW i \in I, NEW j \in I, j \in upTo[i], j # i
      PROVE  Cardinality(upTo[j]) < Cardinality(upTo[i])
  <2>1. upTo[j] \in SUBSET upTo[i] /\ i \in upTo[i] /\ i \notin upTo[j]
    BY <1>2
  <2>2. /\ Cardinality(upTo[j]) <= Cardinality(upTo[i])
        /\ Cardinality(upTo[j]) = Cardinality(upTo[i]) => upTo[i] = upTo[j]
    BY <1>1, <2>1, FS_Subset
  <2>3. Cardinality(upTo[j]) \in Nat /\ Cardinality(upTo[i]) \in Nat
    BY <1>1, FS_CardinalityType
  <2> QED BY <2>1, <2>2, <2>3
<1> QED BY <1>1, <1>2

\* A sequence lists the rows at some places, each once, in an order.
Lists(q, rs, I, upTo) ==
  \E place \in [DOMAIN q -> I] :
    /\ \A n \in DOMAIN q : q[n] = rs[place[n]]
    /\ \A i \in I : \E n \in DOMAIN q : place[n] = i
    /\ \A n, m \in DOMAIN q : n < m => place[n] \in upTo[place[m]] /\ place[n] # place[m]

\* Ranked lists every row at one of the places once, in the order given.
LEMMA RankedRows ==
  ASSUME NEW rs, NEW I, IsFiniteSet(I), NEW upTo \in [I -> SUBSET I],
         \A i \in I : i \in upTo[i],
         \A i, j \in I : j \in upTo[i] => upTo[j] \subseteq upTo[i],
         \A i, j \in I : j \in upTo[i] /\ i \in upTo[j] => i = j,
         \A i, j \in I : j \in upTo[i] \/ i \in upTo[j],
         NEW rank, \A i \in I : rank[i] = Cardinality(upTo[i]),
         NEW X, \A i \in I : rs[i] \in X
  PROVE  /\ Ranked(rs, I, rank) \in Seq(X)
         /\ Lists(Ranked(rs, I, rank), rs, I, upTo)
<1> DEFINE N == Cardinality(I)
           place == [n \in 1..N |-> CHOOSE i \in I : rank[i] = n]
           q == Ranked(rs, I, rank)
<1>1. N \in Nat
  BY FS_CardinalityType
<1>2. /\ \A i \in I : rank[i] \in 1..N
      /\ \A i, j \in I : j \in upTo[i] /\ j # i => rank[j] < rank[i]
  BY RanksGrow
<1>3. \A i, j \in I : rank[i] = rank[j] => i = j
  <2> SUFFICES ASSUME NEW i \in I, NEW j \in I, rank[i] = rank[j], i # j PROVE FALSE
    OBVIOUS
  <2>1. rank[i] \in Int /\ rank[j] \in Int /\ (rank[i] < rank[j] \/ rank[j] < rank[i])
    BY <1>2, <1>1
  <2> QED BY <2>1
<1>4. \A n \in 1..N : \E i \in I : rank[i] = n
  <2> DEFINE r == [i \in I |-> rank[i]]
  <2>1. r \in [I -> 1..N] /\ \A i \in I : r[i] = rank[i]
    BY <1>2
  <2> HIDE DEF r
  <2>2. r \in Injection(I, 1..N)
    BY <2>1, <1>3 DEF Injection, IsInjective
  <2>3. IsFiniteSet(1..N) /\ Cardinality(1..N) = N
    BY <1>1, FS_Interval
  <2>4. r \in Surjection(I, 1..N)
    BY <2>2, <2>3, FS_Injection
  <2> QED BY <2>1, <2>4 DEF Surjection
<1>5. \A n \in 1..N : place[n] \in I /\ rank[place[n]] = n
  BY <1>4
<1>6. place \in [1..N -> I]
  BY <1>5
<1>7. \A i \in I : \E n \in 1..N : place[n] = i
  <2> SUFFICES ASSUME NEW i \in I PROVE place[rank[i]] = i
    BY <1>2
  <2> QED BY <1>2, <1>3, <1>5
<1>8. \A n, m \in 1..N : n < m => place[n] \in upTo[place[m]] /\ place[n] # place[m]
  <2> SUFFICES ASSUME NEW n \in 1..N, NEW m \in 1..N, n < m
               PROVE  place[n] \in upTo[place[m]] /\ place[n] # place[m]
    OBVIOUS
  <2> HIDE DEF place
  <2>1. /\ place[n] \in I /\ rank[place[n]] = n
        /\ place[m] \in I /\ rank[place[m]] = m
    BY <1>5
  <2>2. place[n] # place[m]
    BY <2>1, <1>1
  <2>3. ~(place[m] \in upTo[place[n]])
    BY <1>1, <1>2, <2>1, <2>2
  <2> QED BY <2>1, <2>2, <2>3
<1>9. q = [n \in 1..N |-> rs[place[n]]]
  BY DEF Ranked
<1> HIDE DEF place, q
<1>10. DOMAIN q = 1..N /\ \A n \in 1..N : q[n] = rs[place[n]]
  BY <1>9
<1>11. q \in Seq(X)
  <2>1. \A n \in 1..N : rs[place[n]] \in X
    BY <1>5
  <2> QED BY <1>1, <1>9, <2>1
<1>12. Lists(q, rs, I, upTo)
  <2>1. place \in [DOMAIN q -> I]
    BY <1>6, <1>10
  <2>2. /\ \A n \in DOMAIN q : q[n] = rs[place[n]]
        /\ \A i \in I : \E n \in DOMAIN q : place[n] = i
        /\ \A n, m \in DOMAIN q :
             n < m => place[n] \in upTo[place[m]] /\ place[n] # place[m]
    BY <1>7, <1>8, <1>10
  <2> QED BY <2>1, <2>2, Zenon DEF Lists
<1> QED BY <1>11, <1>12 DEF q

-----------------------------------------------------------------------------
(***************************************************************************)
(* The rows build_readings goes through, in the order it does.             *)
(***************************************************************************)

Number == Int \cup {None}

\* A recorder's answer: no two rows have the same start.
IsTable(table) ==
  /\ table \in Seq([start : Number, sum : Number])
  /\ \A i, j \in DOMAIN table : table[i].start = table[j].start => i = j

\* What a sequence over a set is made of.
LEMMA Elements ==
  ASSUME NEW X, NEW s \in Seq(X)
  PROVE  /\ Len(s) \in Nat /\ DOMAIN s = 1..Len(s)
         /\ \A i \in DOMAIN s : s[i] \in X
OBVIOUS

\* The places of a table that satisfy a condition are finitely many.
LEMMA PlacesAreFinite ==
  ASSUME NEW table, IsTable(table), NEW I \in SUBSET DOMAIN table
  PROVE  IsFiniteSet(I)
<1>1. DOMAIN table = 1..Len(table) /\ Len(table) \in Nat
  BY DEF IsTable
<1>2. IsFiniteSet(1..Len(table))
  BY <1>1, FS_Interval
<1> QED BY <1>1, <1>2, FS_Subset

\* Fetched lists the rows asked for, each of them once.
LEMMA FetchedRows ==
  ASSUME NEW table, IsTable(table), NEW start \in Int, NEW end \in Int
  PROVE  LET Asked(row) == row.start = None \/ (start - 1 <= row.start /\ row.start < end)
             f == Fetched(table, start, end)
         IN  /\ IsTable(f)
             /\ \A n \in DOMAIN f : \E i \in DOMAIN table : f[n] = table[i] /\ Asked(table[i])
             /\ \A i \in DOMAIN table : Asked(table[i]) => \E n \in DOMAIN f : f[n] = table[i]
<1> DEFINE Asked(row) == row.start = None \/ (start - 1 <= row.start /\ row.start < end)
           I == {i \in DOMAIN table : Asked(table[i])}
           upTo == [i \in I |-> {j \in I : j <= i}]
           rank == [i \in I |-> Cardinality(upTo[i])]
           f == Fetched(table, start, end)
<1>1. DOMAIN table = 1..Len(table) /\ Len(table) \in Nat
  BY DEF IsTable
<1>2. IsFiniteSet(I)
  BY PlacesAreFinite
<1>3. f = Ranked(table, I, rank)
  BY DEF Fetched
<1>4. /\ upTo \in [I -> SUBSET I]
      /\ \A i \in I : i \in upTo[i]
      /\ \A i, j \in I : j \in upTo[i] => upTo[j] \subseteq upTo[i]
      /\ \A i, j \in I : j \in upTo[i] /\ i \in upTo[j] => i = j
      /\ \A i, j \in I : j \in upTo[i] \/ i \in upTo[j]
  BY <1>1
<1>5. \A i \in I : table[i] \in [start : Number, sum : Number]
  BY Elements DEF IsTable
<1>6. /\ Ranked(table, I, rank) \in Seq([start : Number, sum : Number])
      /\ Lists(Ranked(table, I, rank), table, I, upTo)
  <2>1. \A i \in I : rank[i] = Cardinality(upTo[i])
    OBVIOUS
  <2> HIDE DEF I, upTo, rank
  <2> QED BY <1>2, <1>4, <1>5, <2>1, RankedRows
<1> HIDE DEF f, upTo, rank
<1>7. f \in Seq([start : Number, sum : Number])
  BY <1>3, <1>6
<1>8. PICK place \in [DOMAIN f -> I] :
        /\ \A n \in DOMAIN f : f[n] = table[place[n]]
        /\ \A i \in I : \E n \in DOMAIN f : place[n] = i
        /\ \A n, m \in DOMAIN f : n < m => place[n] \in upTo[place[m]] /\ place[n] # place[m]
  BY <1>3, <1>6, Zenon DEF Lists
<1>9. ASSUME NEW n \in DOMAIN f, NEW m \in DOMAIN f, f[n].start = f[m].start
      PROVE  n = m
  <2>1. place[n] = place[m]
    BY <1>8, <1>9 DEF IsTable
  <2>2. n \in Int /\ m \in Int
    BY <1>7
  <2> QED BY <1>8, <2>1, <2>2
<1>10. IsTable(f)
  BY <1>7, <1>9 DEF IsTable
<1>11. \A n \in DOMAIN f : \E i \in DOMAIN table : f[n] = table[i] /\ Asked(table[i])
  BY <1>8
<1>12. \A i \in DOMAIN table : Asked(table[i]) => \E n \in DOMAIN f : f[n] = table[i]
  BY <1>8
<1> QED BY <1>10, <1>11, <1>12 DEF f

\* InOrder lists the rows that have a start, by increasing start.
LEMMA InOrderRows ==
  ASSUME NEW table, IsTable(table)
  PROVE  LET q == InOrder(table)
         IN  /\ q \in Seq([start : Int, sum : Number])
             /\ \A n, m \in DOMAIN q : n < m => q[n].start < q[m].start
             /\ \A n \in DOMAIN q : \E i \in DOMAIN table : q[n] = table[i]
             /\ \A i \in DOMAIN table :
                  table[i].start # None => \E n \in DOMAIN q : q[n] = table[i]
<1> DEFINE I == {i \in DOMAIN table : table[i].start # None}
           upTo == [i \in I |-> {j \in I : \/ table[j].start < table[i].start
                                           \/ table[j].start = table[i].start /\ j <= i}]
           rank == [i \in I |-> Cardinality(upTo[i])]
           q == InOrder(table)
<1>1. /\ DOMAIN table = 1..Len(table) /\ Len(table) \in Nat
      /\ \A i \in DOMAIN table : table[i] \in [start : Number, sum : Number]
  BY Elements DEF IsTable
<1>2. IsFiniteSet(I)
  BY PlacesAreFinite
<1>3. q = Ranked(table, I, rank)
  BY DEF InOrder
<1>4. \A i \in I : table[i].start \in Int /\ table[i] \in [start : Int, sum : Number]
  BY <1>1 DEF Number
<1>5. /\ upTo \in [I -> SUBSET I]
      /\ \A i \in I : i \in upTo[i]
      /\ \A i, j \in I : j \in upTo[i] => upTo[j] \subseteq upTo[i]
      /\ \A i, j \in I : j \in upTo[i] /\ i \in upTo[j] => i = j
      /\ \A i, j \in I : j \in upTo[i] \/ i \in upTo[j]
  BY <1>1, <1>4
<1>6. /\ Ranked(table, I, rank) \in Seq([start : Int, sum : Number])
      /\ Lists(Ranked(table, I, rank), table, I, upTo)
  <2>1. \A i \in I : rank[i] = Cardinality(upTo[i])
    OBVIOUS
  <2> HIDE DEF I, upTo, rank
  <2> QED BY <1>2, <1>4, <1>5, <2>1, RankedRows
<1> HIDE DEF q, rank
<1>7. q \in Seq([start : Int, sum : Number])
  BY <1>3, <1>6
<1>8. PICK place \in [DOMAIN q -> I] :
        /\ \A n \in DOMAIN q : q[n] = table[place[n]]
        /\ \A i \in I : \E n \in DOMAIN q : place[n] = i
        /\ \A n, m \in DOMAIN q : n < m => place[n] \in upTo[place[m]] /\ place[n] # place[m]
  BY <1>3, <1>6, Zenon DEF Lists
<1>9. ASSUME NEW n \in DOMAIN q, NEW m \in DOMAIN q, n < m
      PROVE  q[n].start < q[m].start
  <2> DEFINE i == place[n]
             j == place[m]
  <2>1. i \in I /\ j \in I /\ i \in upTo[j] /\ i # j /\ q[n] = table[i] /\ q[m] = table[j]
    BY <1>8, <1>9
  <2>2. table[i].start # table[j].start
    BY <2>1 DEF IsTable
  <2> HIDE DEF i, j
  <2> QED BY <2>1, <2>2
<1>10. \A n \in DOMAIN q : \E i \in DOMAIN table : q[n] = table[i]
  BY <1>8
<1>11. \A i \in DOMAIN table : table[i].start # None => \E n \in DOMAIN q : q[n] = table[i]
  BY <1>8
<1> QED BY <1>7, <1>9, <1>10, <1>11 DEF q

-----------------------------------------------------------------------------
(***************************************************************************)
(* Rounding.                                                               *)
(***************************************************************************)

\* Division by a positive number, as multiplication.
LEMMA Quotient ==
  ASSUME NEW n \in Int, NEW d \in Nat \ {0}
  PROVE  /\ n \div d \in Int
         /\ d * (n \div d) <= n /\ n < d * (n \div d) + d
OBVIOUS

\* A rounded number is an integer, and not negative if the number is not.
LEMMA QuantizedType ==
  ASSUME NEW n \in Int
  PROVE  /\ Quantized(n) \in Int
         /\ n >= 0 => Quantized(n) \in Nat
<1>1. 2 * Scale \in Nat \ {0}
  BY ReadingsAssumption
<1>2. ASSUME NEW m \in Nat
      PROVE  (2 * m + Scale) \div (2 * Scale) \in Nat
  <2> DEFINE d == 2 * Scale
             a == 2 * m + Scale
  <2>1. a \in Nat /\ d \in Nat \ {0}
    BY <1>1, ReadingsAssumption
  <2> HIDE DEF a, d
  <2>2. a \div d \in Int /\ a < d * (a \div d) + d
    BY <2>1, Quotient
  <2>3. a \div d \in Nat
    <3>1. SUFFICES ASSUME a \div d <= -1 PROVE FALSE
      BY <2>2
    <3>2. d * (a \div d) <= d * (-1)
      BY <2>1, <2>2, <3>1
    <3> QED BY <2>1, <2>2, <3>2
  <2> QED BY <2>3 DEF a, d
<1>3. CASE n >= 0
  BY <1>2, <1>3 DEF Quantized
<1>4. CASE ~(n >= 0)
  <2>1. -n \in Nat
    BY <1>4
  <2> QED BY <1>2, <1>4, <2>1 DEF Quantized
<1> QED BY <1>3, <1>4

\* Rounding to Scale is off by at most half of it.
LEMMA QuantizedError ==
  ASSUME NEW n \in Nat
  PROVE  /\ 2 * (Scale * Quantized(n)) <= 2 * n + Scale
         /\ 2 * n - Scale <= 2 * (Scale * Quantized(n))
<1> DEFINE d == 2 * Scale
           a == 2 * n + Scale
           r == a \div d
<1>1. a \in Int /\ d \in Nat \ {0}
  BY ReadingsAssumption
<1>2. r \in Int /\ d * r <= a /\ a < d * r + d
  <2> HIDE DEF a, d
  <2> QED BY <1>1, Quotient
<1>3. Quantized(n) = r
  BY DEF Quantized
<1> HIDE DEF r
<1>4. d * r = 2 * (Scale * r)
  BY <1>2, ReadingsAssumption
<1>5. Scale * r \in Int
  BY <1>2, ReadingsAssumption
<1> QED BY <1>2, <1>3, <1>4, <1>5, ReadingsAssumption

\* Nothing is rounded to nothing.
LEMMA QuantizedZero == Quantized(0) = 0
<1>1. Quantized(0) \in Nat /\ 2 * (Scale * Quantized(0)) <= Scale
  BY QuantizedType, QuantizedError, ReadingsAssumption
<1> DEFINE r == Quantized(0)
<1> HIDE DEF r
<1>2. SUFFICES ASSUME r \in Nat, 2 * (Scale * r) <= Scale, r >= 1 PROVE FALSE
  BY <1>1 DEF r
<1>3. Scale * r >= Scale * 1
  BY <1>2, ReadingsAssumption
<1> QED BY <1>2, <1>3, ReadingsAssumption

-----------------------------------------------------------------------------
(***************************************************************************)
(* The loop.                                                               *)
(***************************************************************************)

Reading == [slot : Int, value : Number, delta : Number]

State == [previous : Number, readings : Seq(Reading)]

Before == [previous |-> None, readings |-> <<>>]

\* What the loop keeps and sends are numbers or nothing.
LEMMA PayloadType ==
  /\ \A n \in Number : Payload(n) \in Number
  /\ \A p, c \in Number : Delta(p, c) \in Number
BY QuantizedType DEF Payload, Delta, Number

\* The body of the loop leaves what the next turn can start from.
LEMMA ReadRowType ==
  ASSUME NEW start \in Int, NEW end \in Int, NEW done \in State,
         NEW row \in [start : Int, sum : Number]
  PROVE  ReadRow(start, end, done, row) \in State
<1> DEFINE new == [slot |-> row.start, value |-> Payload(row.sum),
                   delta |-> Payload(Delta(done.previous, row.sum))]
<1>1. new \in Reading
  <2>1. row.start \in Int /\ row.sum \in Number /\ done.previous \in Number
    BY DEF State
  <2>2. Delta(done.previous, row.sum) \in Number
    BY <2>1, PayloadType
  <2>3. Payload(row.sum) \in Number /\ Payload(Delta(done.previous, row.sum)) \in Number
    BY <2>1, <2>2, PayloadType
  <2> QED BY <2>1, <2>3 DEF Reading
<1>2. done.previous \in Number /\ done.readings \in Seq(Reading)
  BY DEF State
<1>3. Append(done.readings, new) \in Seq(Reading)
  <2> HIDE DEF new
  <2> QED BY <1>1, <1>2
<1>4. row.start \in Int /\ row.sum \in Number
  OBVIOUS
<1>5. CASE row.start < start
  BY <1>2, <1>4, <1>5 DEF ReadRow, State
<1>6. CASE row.start >= start /\ row.start + 1 > end
  BY <1>4, <1>6 DEF ReadRow
<1>7. CASE ~(row.start < start) /\ ~(row.start >= start /\ row.start + 1 > end)
  <2>1. ReadRow(start, end, done, row)
          = [previous |-> row.sum, readings |-> Append(done.readings, new)]
    BY <1>4, <1>7 DEF ReadRow
  <2> HIDE DEF new
  <2> QED BY <1>3, <1>4, <2>1 DEF State
<1> QED BY <1>5, <1>6, <1>7

\* Loop starts from nothing and runs its body once for each row.
LEMMA LoopSteps ==
  ASSUME NEW q \in Seq([start : Int, sum : Number]), NEW start \in Int, NEW end \in Int
  PROVE  /\ Loop(q, start, end)[0] = Before
         /\ \A n \in 1..Len(q) :
              /\ Loop(q, start, end)[n - 1] \in State
              /\ Loop(q, start, end)[n] = ReadRow(start, end, Loop(q, start, end)[n - 1], q[n])
         /\ Loop(q, start, end)[Len(q)] \in State
<1> DEFINE N == Len(q)
           g == [n \in 1..N |-> [x \in State |-> ReadRow(start, end, x, q[n])]]
           Equation(h) ==
             h = [n \in 0..N |-> IF n = 0 THEN Before
                                 ELSE ReadRow(start, end, h[n - 1], q[n])]
           loop == Loop(q, start, end)
<1>1. N \in Nat /\ \A n \in 1..N : q[n] \in [start : Int, sum : Number]
  BY Elements
<1>2. Before \in State
  BY DEF Before, State, Number
<1>3. g \in [1..N -> [State -> State]]
  BY <1>1, ReadRowType
<1>4. PICK f : Solves(f, N, State, Before, g)
  <2> HIDE DEF g, N
  <2> QED BY <1>1, <1>2, <1>3, Recursion
<1>5. Equation(f)
  <2>1. f \in [0..N -> State] /\ f[0] = Before
    BY <1>4 DEF Solves
  <2>2. \A n \in 1..N : f[n] = ReadRow(start, end, f[n - 1], q[n])
    <3> SUFFICES ASSUME NEW n \in 1..N PROVE f[n] = ReadRow(start, end, f[n - 1], q[n])
      OBVIOUS
    <3>1. f[n] = g[n][f[n - 1]]
      <4> HIDE DEF g, N
      <4> QED BY <1>4 DEF Solves
    <3>2. n - 1 \in 0..N
      BY <1>1
    <3>3. f[n - 1] \in State
      BY <2>1, <3>2
    <3> QED BY <3>1, <3>3
  <2> QED BY <1>1, <2>1, <2>2
<1>6. loop = CHOOSE h : Equation(h)
  BY DEF Loop, Before
<1>7. Equation(loop)
  <2> HIDE DEF Equation
  <2> QED BY <1>5, <1>6
<1> HIDE DEF loop
<1>8. loop[0] = Before /\ \A n \in 1..N : loop[n] = ReadRow(start, end, loop[n - 1], q[n])
  BY <1>1, <1>7
<1>9. \A n \in 0..N : loop[n] \in State
  <2> DEFINE S == {n \in Nat : n <= N => loop[n] \in State}
  <2>1. 0 \in S
    BY <1>2, <1>8
  <2>2. ASSUME NEW n \in S PROVE n + 1 \in S
    <3> SUFFICES ASSUME n + 1 <= N PROVE loop[n + 1] \in State
      OBVIOUS
    <3>1. n + 1 \in 1..N /\ loop[n] \in State /\ (n + 1) - 1 = n
      BY <1>1
    <3>2. loop[n + 1] = ReadRow(start, end, loop[n], q[n + 1])
      BY <1>8, <3>1
    <3> QED BY <1>1, <3>1, <3>2, ReadRowType
  <2>3. \A n \in Nat : n \in S
    <3>1. S \in SUBSET Nat
      OBVIOUS
    <3> HIDE DEF S
    <3> QED BY <2>1, <2>2, <3>1, Induction
  <2> QED BY <1>1, <2>3
<1> QED BY <1>1, <1>8, <1>9 DEF loop

-----------------------------------------------------------------------------
(***************************************************************************)
(* One reading per row of the window.                                      *)
(***************************************************************************)

\* What is sent for the row at a place, the one before it being at hand.
ReadingAt(q, n) ==
  [slot |-> q[n].start, value |-> Payload(q[n].sum),
   delta |-> Payload(Delta(IF n = 1 THEN None ELSE q[n - 1].sum, q[n].sum))]

\* The loop sends a reading for every row but the first a of them, which
\* are before the window; the others are inside it.
LEMMA LoopReadings ==
  ASSUME NEW q \in Seq([start : Int, sum : Number]), NEW start \in Int, NEW end \in Int,
         NEW a \in Nat, a <= 1, a <= Len(q),
         \A n \in DOMAIN q : q[n].start < end /\ (q[n].start < start <=> n <= a)
  PROVE  LET r == Loop(q, start, end)[Len(q)].readings
         IN  /\ r \in Seq(Reading)
             /\ Len(r) = Len(q) - a
             /\ \A m \in 1..(Len(q) - a) : r[m] = ReadingAt(q, a + m)
<1> DEFINE N == Len(q)
           loop == Loop(q, start, end)
           Done(n) ==
             /\ loop[n].previous = IF n = 0 THEN None ELSE q[n].sum
             /\ Len(loop[n].readings) = IF n <= a THEN 0 ELSE n - a
             /\ \A m \in 1..(n - a) : loop[n].readings[m] = ReadingAt(q, a + m)
           S == {n \in Nat : n <= N => Done(n)}
<1>1. /\ N \in Nat /\ DOMAIN q = 1..N
      /\ \A n \in 1..N : q[n] \in [start : Int, sum : Number]
  BY Elements
<1>0. \A n \in 1..N : q[n].start \in Int /\ q[n].sum \in Number
  BY <1>1
<1>2. /\ loop[0] = Before /\ loop[N] \in State
      /\ \A n \in 1..N : /\ loop[n - 1] \in State
                         /\ loop[n] = ReadRow(start, end, loop[n - 1], q[n])
  BY LoopSteps
<1> HIDE DEF loop
<1>3. 0 \in S
  BY <1>2 DEF Before
<1>4. ASSUME NEW k \in S PROVE k + 1 \in S
  <2> SUFFICES ASSUME k + 1 <= N PROVE Done(k + 1)
    OBVIOUS
  <2> DEFINE n == k + 1
             was == loop[k]
  <2>1. n \in 1..N /\ n \in DOMAIN q /\ k = n - 1 /\ n # 0 /\ k \in Nat
    BY <1>1
  <2>2. Done(k)
    BY <2>1, <1>1
  <2>3. was \in State /\ loop[n] = ReadRow(start, end, was, q[n])
    BY <1>2, <2>1
  <2>4. was.readings \in Seq(Reading) /\ Len(was.readings) \in Nat
    BY <2>3 DEF State
  <2>5. CASE n <= a
    <3>1. q[n].start < start
      BY <2>1, <2>5
    <3>2. loop[n] = [was EXCEPT !.previous = q[n].sum]
      <4> HIDE DEF was
      <4> QED BY <1>0, <2>1, <2>3, <3>1 DEF ReadRow
    <3>3. loop[n].previous = q[n].sum /\ loop[n].readings = was.readings
      BY <2>3, <3>2 DEF State
    <3> QED BY <2>1, <2>2, <2>5, <3>3
  <2>6. CASE n > a
    <3> DEFINE new == [slot |-> q[n].start, value |-> Payload(q[n].sum),
                       delta |-> Payload(Delta(was.previous, q[n].sum))]
    <3>1. ~(q[n].start < start) /\ ~(q[n].start + 1 > end)
      BY <1>0, <2>1, <2>6
    <3>2. loop[n] = [previous |-> q[n].sum, readings |-> Append(was.readings, new)]
      <4> HIDE DEF was
      <4> QED BY <1>0, <2>1, <2>3, <3>1 DEF ReadRow
    <3>3. new = ReadingAt(q, n)
      <4>1. was.previous = IF n = 1 THEN None ELSE q[n - 1].sum
        BY <2>1, <2>2
      <4> QED BY <4>1 DEF ReadingAt
    <3>4. Len(was.readings) = k - a
      BY <2>1, <2>2, <2>6
    <3> HIDE DEF new, was
    <3>5. /\ loop[n].previous = q[n].sum
          /\ loop[n].readings = Append(was.readings, new)
      BY <3>2
    <3>6. Len(loop[n].readings) = n - a
      BY <2>1, <2>4, <3>4, <3>5
    <3>7. ASSUME NEW m \in 1..(n - a) PROVE loop[n].readings[m] = ReadingAt(q, a + m)
      <4>1. CASE m = n - a
        <5>1. m = Len(was.readings) + 1 /\ a + m = n
          BY <2>1, <3>4, <4>1
        <5>2. Append(was.readings, new)[m] = new
          BY <2>4, <5>1
        <5> QED BY <3>3, <3>5, <5>1, <5>2
      <4>2. CASE m # n - a
        <5>1. m \in 1..Len(was.readings) /\ m \in 1..(k - a)
          BY <2>1, <3>4, <4>2
        <5>2. Append(was.readings, new)[m] = was.readings[m]
          BY <2>4, <5>1
        <5> QED BY <2>2, <3>5, <5>1, <5>2 DEF was
      <4> QED BY <4>1, <4>2
    <3>8. loop[n].previous = IF n = 0 THEN None ELSE q[n].sum
      BY <2>1, <3>5
    <3>9. Len(loop[n].readings) = IF n <= a THEN 0 ELSE n - a
      BY <2>1, <2>6, <3>6
    <3> QED BY <3>7, <3>8, <3>9
  <2> QED BY <2>1, <2>5, <2>6
<1>5. \A n \in Nat : n \in S
  <2>1. S \in SUBSET Nat
    OBVIOUS
  <2> HIDE DEF S
  <2> QED BY <1>3, <1>4, <2>1, Induction
<1>6. Done(N)
  BY <1>1, <1>5
<1>7. Len(loop[N].readings) = N - a
  <2>1. Len(loop[N].readings) = IF N <= a THEN 0 ELSE N - a
    BY <1>6
  <2>2. N <= a => N - a = 0
    <3>1. N \in Nat /\ a <= N
      BY <1>1
    <3> HIDE DEF N
    <3> QED BY <3>1
  <2> QED BY <2>1, <2>2
<1> QED BY <1>2, <1>6, <1>7 DEF State, loop

\* A sequence that lists a set of numbers in increasing order.
Enumerates(slot, S) ==
  /\ slot \in Seq(S)
  /\ \A n, m \in DOMAIN slot : n < m => slot[n] < slot[m]
  /\ \A s \in S : \E n \in DOMAIN slot : slot[n] = s

\* The sum of a slot is that of the one row at it.
LEMMA SumOfRow ==
  ASSUME IsTable(rows), NEW i \in DOMAIN rows
  PROVE  SumAt(rows[i].start) = rows[i].sum
<1> DEFINE j == CHOOSE j \in DOMAIN rows : rows[j].start = rows[i].start
<1>1. j \in DOMAIN rows /\ rows[j].start = rows[i].start
  OBVIOUS
<1>2. j = i
  BY <1>1 DEF IsTable
<1> QED BY <1>2 DEF SumAt

\* The slots of a table's rows are numbers.
LEMMA RowSlotsAreNumbers ==
  ASSUME IsTable(rows)
  PROVE  RowSlots \subseteq Int
<1> SUFFICES ASSUME NEW i \in DOMAIN rows, rows[i].start # None
             PROVE  rows[i].start \in Int
  BY DEF RowSlots
<1>1. rows[i] \in [start : Number, sum : Number]
  BY Elements DEF IsTable
<1> QED BY <1>1 DEF Number

\* build_readings goes through the rows of the window and the slot before
\* it, and finds before each the row its delta is counted from.
LEMMA RowsReadInOrder ==
  ASSUME IsTable(rows), NEW start \in Int, NEW end \in Int
  PROVE  LET q == InOrder(Fetched(rows, start, end))
         IN  /\ q \in Seq([start : Int, sum : Number])
             /\ Enumerates([n \in DOMAIN q |-> q[n].start],
                           {s \in RowSlots : start - 1 <= s /\ s < end})
             /\ \A n \in DOMAIN q : q[n].sum = SumAt(q[n].start)
             /\ \A n \in DOMAIN q : SumBefore(start - 1, q[n].start)
                                      = IF n = 1 THEN None ELSE q[n - 1].sum
<1> DEFINE f == Fetched(rows, start, end)
           q == InOrder(f)
           S == {s \in RowSlots : start - 1 <= s /\ s < end}
           slot == [n \in DOMAIN q |-> q[n].start]
           Asked(row) == row.start = None \/ (start - 1 <= row.start /\ row.start < end)
<1>1. /\ IsTable(f)
      /\ \A n \in DOMAIN f : \E i \in DOMAIN rows : f[n] = rows[i] /\ Asked(rows[i])
      /\ \A i \in DOMAIN rows : Asked(rows[i]) => \E n \in DOMAIN f : f[n] = rows[i]
  BY FetchedRows
<1> HIDE DEF f
<1>2. /\ q \in Seq([start : Int, sum : Number])
      /\ \A n, m \in DOMAIN q : n < m => q[n].start < q[m].start
      /\ \A n \in DOMAIN q : \E i \in DOMAIN f : q[n] = f[i]
      /\ \A i \in DOMAIN f : f[i].start # None => \E n \in DOMAIN q : q[n] = f[i]
  BY <1>1, InOrderRows
<1> HIDE DEF q
<1>3. /\ Len(q) \in Nat /\ DOMAIN q = 1..Len(q)
      /\ \A n \in DOMAIN q : q[n].start \in Int /\ q[n].start # None
  <2>1. /\ Len(q) \in Nat /\ DOMAIN q = 1..Len(q)
        /\ \A n \in DOMAIN q : q[n] \in [start : Int, sum : Number]
    BY <1>2, Elements
  <2> QED BY <2>1, ReadingsAssumption
<1>4. \A s \in RowSlots : s # None /\ \E i \in DOMAIN rows : rows[i].start = s
  BY DEF RowSlots
<1>5. ASSUME NEW n \in DOMAIN q
      PROVE  q[n].start \in S /\ q[n].sum = SumAt(q[n].start)
  <2>1. PICK i \in DOMAIN rows : q[n] = rows[i] /\ Asked(rows[i])
    BY <1>1, <1>2
  <2>2. rows[i].start \in RowSlots /\ rows[i].start # None
    BY <1>3, <2>1 DEF RowSlots
  <2> QED BY <2>1, <2>2, SumOfRow
<1>6. ASSUME NEW s \in S PROVE \E n \in DOMAIN q : q[n].start = s
  <2>1. PICK i \in DOMAIN rows : rows[i].start = s /\ s # None
    BY <1>4
  <2>2. PICK n \in DOMAIN f : f[n] = rows[i]
    BY <1>1, <2>1
  <2> QED BY <1>2, <2>1, <2>2
<1>7. Enumerates(slot, S)
  <2>1. slot \in Seq(S)
    <3> HIDE DEF S
    <3> QED BY <1>3, <1>5
  <2> HIDE DEF S
  <2> QED BY <1>2, <1>6, <2>1 DEF Enumerates
<1>8. ASSUME NEW n \in DOMAIN q
      PROVE  SumBefore(start - 1, q[n].start) = IF n = 1 THEN None ELSE q[n - 1].sum
  <2> DEFINE x == q[n].start
             before == {s \in RowSlots : start - 1 <= s /\ s < x}
  <2>1. x \in Int /\ x < end
    BY <1>3, <1>5
  <2>2. \A s \in before : s \in S
    <3> SUFFICES ASSUME NEW s \in before PROVE s \in S
      OBVIOUS
    <3>1. s \in Int
      BY RowSlotsAreNumbers
    <3> QED BY <2>1, <3>1
  <2>3. \A s \in before : \E k \in 1..(n - 1) : q[k].start = s
    <3> SUFFICES ASSUME NEW s \in before PROVE \E k \in 1..(n - 1) : q[k].start = s
      OBVIOUS
    <3>1. PICK k \in DOMAIN q : q[k].start = s
      BY <1>6, <2>2
    <3>2. ~(n <= k)
      BY <1>2, <1>3, <3>1
    <3> QED BY <1>3, <3>1, <3>2
  <2>4. CASE n = 1
    <3>1. before = {}
      BY <2>3, <2>4
    <3> QED BY <2>4, <3>1 DEF SumBefore
  <2>5. CASE n # 1
    <3> DEFINE p == q[n - 1].start
    <3>1. n - 1 \in DOMAIN q /\ n - 1 < n
      BY <1>3, <2>5
    <3>2. p \in S /\ p < x /\ q[n - 1].sum = SumAt(p) /\ p \in Int
      BY <1>2, <1>3, <1>5, <3>1
    <3>3. p \in before
      BY <3>2
    <3>4. \A s \in before : s \in Int /\ s <= p
      <4> SUFFICES ASSUME NEW s \in before PROVE s \in Int /\ s <= p
        OBVIOUS
      <4>1. PICK k \in 1..(n - 1) : q[k].start = s
        BY <2>3
      <4>2. k \in DOMAIN q /\ (k = n - 1 \/ k < n - 1)
        BY <1>3, <4>1
      <4> QED BY <1>2, <1>3, <3>1, <4>1, <4>2
    <3> HIDE DEF p, before
    <3>5. (CHOOSE s \in before : \A o \in before : o <= s) = p
      <4> DEFINE c == CHOOSE s \in before : \A o \in before : o <= s
      <4>1. c \in before /\ \A o \in before : o <= c
        BY <3>3, <3>4
      <4> HIDE DEF c
      <4>2. c = p
        BY <3>3, <3>4, <4>1
      <4> QED BY <4>2 DEF c
    <3>6. SumBefore(start - 1, x) = SumAt(p)
      BY <3>3, <3>5 DEF SumBefore, before
    <3> QED BY <2>5, <3>2, <3>6
  <2> QED BY <2>4, <2>5
<1> QED BY <1>2, <1>5, <1>7, <1>8 DEF q, f

\* What is sent for a slot, when the rows are read from "first" on.
ReadingOf(first, s) ==
  [slot |-> s, value |-> Payload(SumAt(s)),
   delta |-> Payload(Delta(SumBefore(first, s), SumAt(s)))]

\* build_readings reads the rows of the window and at most one before it,
\* and sends a reading for each row but that one.
LEMMA RowsRead ==
  ASSUME IsTable(rows), NEW start \in Int, NEW end \in Int
  PROVE  LET q == InOrder(Fetched(rows, start, end))
             wider == {s \in RowSlots : start - 1 <= s /\ s < end}
             r == Imported(rows, start, end)
         IN  /\ q \in Seq([start : Int, sum : Number])
             /\ Len(q) \in Nat /\ DOMAIN q = 1..Len(q)
             /\ \A n \in 1..Len(q) : q[n].start \in wider /\ q[n].start \in Int
             /\ \A n, m \in 1..Len(q) : n < m => q[n].start < q[m].start
             /\ \A s \in wider : \E n \in 1..Len(q) : q[n].start = s
             /\ \A n \in 1..Len(q) : q[n].sum = SumAt(q[n].start)
             /\ \A n \in 1..Len(q) : SumBefore(start - 1, q[n].start)
                                       = IF n = 1 THEN None ELSE q[n - 1].sum
             /\ \E a \in Nat :
                  /\ a <= 1 /\ a <= Len(q)
                  /\ \A n \in 1..Len(q) : q[n].start < end /\ (q[n].start < start <=> n <= a)
                  /\ r \in Seq(Reading)
                  /\ Len(r) = Len(q) - a
                  /\ \A m \in 1..(Len(q) - a) : r[m] = ReadingAt(q, a + m)
<1> DEFINE q == InOrder(Fetched(rows, start, end))
           all == [n \in DOMAIN q |-> q[n].start]
           wider == {s \in RowSlots : start - 1 <= s /\ s < end}
           a == IF Len(q) > 0 /\ q[1].start < start THEN 1 ELSE 0
           r == Imported(rows, start, end)
<1>1. /\ q \in Seq([start : Int, sum : Number])
      /\ Enumerates(all, wider)
      /\ \A n \in DOMAIN q : q[n].sum = SumAt(q[n].start)
      /\ \A n \in DOMAIN q : SumBefore(start - 1, q[n].start)
                               = IF n = 1 THEN None ELSE q[n - 1].sum
  BY RowsReadInOrder
<1> HIDE DEF q
<1>2. Len(q) \in Nat /\ DOMAIN q = 1..Len(q)
  BY <1>1, Elements
<1>3. \A n \in 1..Len(q) : q[n].start \in wider /\ q[n].start \in Int
  <2>1. all \in Seq(wider) /\ DOMAIN all = DOMAIN q
    BY <1>1 DEF Enumerates
  <2> HIDE DEF all, wider
  <2>2. \A n \in 1..Len(q) : all[n] \in wider
    BY <1>2, <2>1
  <2>3. wider \subseteq Int
    BY RowSlotsAreNumbers DEF wider
  <2> QED BY <1>2, <2>2, <2>3 DEF all
<1>4. \A n, m \in 1..Len(q) : n < m => q[n].start < q[m].start
  BY <1>1, <1>2 DEF Enumerates
<1>5. \A s \in wider : \E n \in 1..Len(q) : q[n].start = s
  <2> HIDE DEF wider
  <2> QED BY <1>1, <1>2 DEF Enumerates
<1>6. a \in Nat /\ a <= 1 /\ a <= Len(q)
  BY <1>2
<1>7. \A n \in DOMAIN q : q[n].start < end /\ (q[n].start < start <=> n <= a)
  <2> SUFFICES ASSUME NEW n \in 1..Len(q)
               PROVE  q[n].start < end /\ (q[n].start < start <=> n <= a)
    BY <1>2
  <2>1. q[n].start < end /\ q[n].start \in Int /\ start - 1 <= q[n].start
    BY <1>3
  <2>2. CASE n = 1
    BY <2>1, <2>2, <1>2
  <2>3. CASE n # 1
    <3>1. 1 \in 1..Len(q) /\ 1 < n
      BY <2>3, <1>2
    <3>2. /\ q[1].start < q[n].start /\ q[1].start \in Int
          /\ start - 1 <= q[1].start
      BY <1>3, <1>4, <3>1
    <3>3. ~(q[n].start < start)
      BY <2>1, <3>2
    <3>4. ~(n <= a)
      BY <3>1, <1>2
    <3> QED BY <2>1, <3>3, <3>4
  <2> QED BY <2>2, <2>3
<1> HIDE DEF a
<1>8. /\ r \in Seq(Reading)
      /\ Len(r) = Len(q) - a
      /\ \A m \in 1..(Len(q) - a) : r[m] = ReadingAt(q, a + m)
  BY <1>1, <1>6, <1>7, LoopReadings DEF Imported, BuildReadings, q
<1> HIDE DEF r, wider
<1>9. /\ \A n \in 1..Len(q) : q[n].sum = SumAt(q[n].start)
      /\ \A n \in 1..Len(q) : SumBefore(start - 1, q[n].start)
                                = IF n = 1 THEN None ELSE q[n - 1].sum
  BY <1>1, <1>2
<1>10. \E b \in Nat :
         /\ b <= 1 /\ b <= Len(q)
         /\ \A n \in 1..Len(q) : q[n].start < end /\ (q[n].start < start <=> n <= b)
         /\ r \in Seq(Reading)
         /\ Len(r) = Len(q) - b
         /\ \A m \in 1..(Len(q) - b) : r[m] = ReadingAt(q, b + m)
  BY <1>2, <1>6, <1>7, <1>8
<1> QED BY <1>1, <1>2, <1>3, <1>4, <1>5, <1>9, <1>10 DEF q, r, wider

\* What an import sends, by the slots of its window in the order of time.
LEMMA ImportedReadings ==
  ASSUME IsTable(rows), NEW start \in Int, NEW end \in Int
  PROVE  \E slot : /\ Enumerates(slot, {s \in RowSlots : start <= s /\ s < end})
                   /\ Imported(rows, start, end)
                        = [m \in 1..Len(slot) |-> ReadingOf(start - 1, slot[m])]
<1> DEFINE q == InOrder(Fetched(rows, start, end))
           wider == {s \in RowSlots : start - 1 <= s /\ s < end}
           window == {s \in RowSlots : start <= s /\ s < end}
           r == Imported(rows, start, end)
<1>1. /\ Len(q) \in Nat /\ DOMAIN q = 1..Len(q)
      /\ \A n \in 1..Len(q) : q[n].start \in wider /\ q[n].start \in Int
      /\ \A n, m \in 1..Len(q) : n < m => q[n].start < q[m].start
      /\ \A s \in wider : \E n \in 1..Len(q) : q[n].start = s
      /\ \A n \in 1..Len(q) : q[n].sum = SumAt(q[n].start)
      /\ \A n \in 1..Len(q) : SumBefore(start - 1, q[n].start)
                                = IF n = 1 THEN None ELSE q[n - 1].sum
  BY RowsRead
<1>2. PICK a \in Nat :
        /\ a <= 1 /\ a <= Len(q)
        /\ \A n \in 1..Len(q) : q[n].start < end /\ (q[n].start < start <=> n <= a)
        /\ r \in Seq(Reading)
        /\ Len(r) = Len(q) - a
        /\ \A m \in 1..(Len(q) - a) : r[m] = ReadingAt(q, a + m)
  BY RowsRead
<1> DEFINE slot == [m \in 1..(Len(q) - a) |-> q[a + m].start]
<1> HIDE DEF q, r
<1>3. \A n \in 1..Len(q) : ReadingAt(q, n) = ReadingOf(start - 1, q[n].start)
  BY <1>1 DEF ReadingAt, ReadingOf
<1>4. /\ Len(slot) = Len(q) - a /\ DOMAIN slot = 1..(Len(q) - a)
       /\ \A m \in 1..(Len(q) - a) : a + m \in 1..Len(q) /\ slot[m] = q[a + m].start
  BY <1>1, <1>2
<1>5. r = [m \in 1..Len(slot) |-> ReadingOf(start - 1, slot[m])]
  <2>1. r = [m \in 1..(Len(q) - a) |-> r[m]]
    BY <1>2
  <2>2. \A m \in 1..(Len(q) - a) : r[m] = ReadingOf(start - 1, slot[m])
    BY <1>2, <1>3, <1>4
  <2> HIDE DEF slot
  <2> QED BY <1>4, <2>1, <2>2
<1>6. Enumerates(slot, window)
  <2>1. \A n \in 1..(Len(q) - a) : slot[n] \in window
    <3> SUFFICES ASSUME NEW n \in 1..(Len(q) - a) PROVE slot[n] \in window
      OBVIOUS
    <3>1. a + n \in 1..Len(q) /\ ~(a + n <= a) /\ slot[n] = q[a + n].start
      BY <1>1, <1>2, <1>4
    <3> HIDE DEF slot
    <3> QED BY <1>1, <1>2, <3>1
  <2>2. slot \in Seq(window)
    <3>1. Len(q) - a \in Nat
      BY <1>1, <1>2
    <3> HIDE DEF window
    <3> QED BY <2>1, <3>1
  <2>3. ASSUME NEW n \in DOMAIN slot, NEW m \in DOMAIN slot, n < m
        PROVE  slot[n] < slot[m]
    <3>1. a + n \in 1..Len(q) /\ a + m \in 1..Len(q) /\ a + n < a + m
      BY <1>1, <1>2, <1>4, <2>3
    <3> HIDE DEF slot
    <3> QED BY <1>1, <1>4, <3>1
  <2>4. ASSUME NEW s \in window PROVE \E n \in DOMAIN slot : slot[n] = s
    <3>1. s \in Int /\ s \in wider
      BY RowSlotsAreNumbers
    <3>2. PICK n \in 1..Len(q) : q[n].start = s
      BY <1>1, <3>1
    <3>3. ~(n <= a)
      BY <1>1, <1>2, <3>1, <3>2
    <3>4. n - a \in 1..(Len(q) - a) /\ a + (n - a) = n
      BY <1>1, <1>2, <3>3
    <3>5. slot[n - a] = s
      <4> HIDE DEF slot
      <4> QED BY <1>4, <3>2, <3>4
    <3> QED BY <1>4, <3>4, <3>5
  <2> HIDE DEF window, slot
  <2> QED BY <2>2, <2>3, <2>4 DEF Enumerates
<1> QED BY <1>5, <1>6 DEF r

-----------------------------------------------------------------------------
(***************************************************************************)
(* The recorder's table.                                                   *)
(***************************************************************************)

\* What every table has: its type, and one row for a start at most.
TableInv ==
  /\ rows \in Seq([start : Slots \cup {None}, sum : Sums \cup {None}])
  /\ \A i, j \in DOMAIN rows : rows[i].start = rows[j].start => i = j

\* Such a table is one build_readings can be asked about.
LEMMA TableInvIsTable == TableInv => IsTable(rows)
<1> SUFFICES ASSUME TableInv PROVE IsTable(rows)
  OBVIOUS
<1> DEFINE R == [start : Slots \cup {None}, sum : Sums \cup {None}]
           W == [start : Number, sum : Number]
<1>1. Slots \cup {None} \subseteq Number /\ Sums \cup {None} \subseteq Number
  <2>1. Slots \subseteq Int /\ Sums \subseteq Int
    BY ReadingsCheckAssumption DEF Slots
  <2> QED BY <2>1 DEF Number
<1>2. R \subseteq W
  BY <1>1
<1>3. rows \in Seq(R)
  BY DEF TableInv
<1>4. rows \in Seq(W)
  <2> HIDE DEF R, W
  <2> QED BY <1>2, <1>3, Elements
<1> QED BY <1>4 DEF TableInv, IsTable

\* The table keeps its type and never gets a second row for a start.
LEMMA TableInvHolds == Spec => []TableInv
<1>1. Init => TableInv
  BY DEF Init, TableInv
<1>2. TableInv /\ [Next]_rows => TableInv'
  <2> SUFFICES ASSUME TableInv, [Next]_rows PROVE TableInv'
    OBVIOUS
  <2> DEFINE R == [start : Slots \cup {None}, sum : Sums \cup {None}]
  <2>1. CASE UNCHANGED rows
    BY <2>1 DEF TableInv
  <2>2. CASE AddRow
    <3>1. PICK start \in Slots \cup {None}, sum \in Sums \cup {None} :
            /\ \A i \in DOMAIN rows : rows[i].start # start
            /\ rows' = Append(rows, Row(start, sum))
      BY <2>2 DEF AddRow
    <3> DEFINE row == Row(start, sum)
    <3>2. row \in R /\ row.start = start
      BY DEF Row
    <3>3. rows \in Seq(R)
      BY DEF TableInv
    <3> HIDE DEF R, row
    <3>4. /\ Len(rows) \in Nat /\ DOMAIN rows = 1..Len(rows)
          /\ rows' \in Seq(R) /\ DOMAIN rows' = 1..(Len(rows) + 1)
          /\ rows'[Len(rows) + 1] = row
          /\ \A i \in 1..Len(rows) : rows'[i] = rows[i]
      BY <3>1, <3>2, <3>3 DEF row
    <3>5. \A i, j \in DOMAIN rows' : rows'[i].start = rows'[j].start => i = j
      <4> SUFFICES ASSUME NEW i \in 1..(Len(rows) + 1), NEW j \in 1..(Len(rows) + 1),
                          rows'[i].start = rows'[j].start
                   PROVE  i = j
        BY <3>4
      <4>1. CASE i \in 1..Len(rows) /\ j \in 1..Len(rows)
        BY <3>4, <4>1 DEF TableInv
      <4>2. CASE i \in 1..Len(rows) /\ j = Len(rows) + 1
        BY <3>1, <3>2, <3>4, <4>2
      <4>3. CASE i = Len(rows) + 1 /\ j \in 1..Len(rows)
        BY <3>1, <3>2, <3>4, <4>3
      <4>4. CASE i = Len(rows) + 1 /\ j = Len(rows) + 1
        BY <4>4
      <4> QED BY <3>4, <4>1, <4>2, <4>3, <4>4
    <3> QED BY <3>4, <3>5 DEF TableInv, R
  <2> QED BY <2>1, <2>2 DEF Next
<1> QED BY <1>1, <1>2, PTL DEF Spec

-----------------------------------------------------------------------------
(***************************************************************************)
(* The theorems.                                                           *)
(***************************************************************************)

\* The slots of a table, the sum at each and the sum before each.
LEMMA TableTypes ==
  ASSUME TableInv
  PROVE  /\ RowSlots \subseteq Slots
         /\ \A s \in RowSlots : SumAt(s) \in Number
         /\ \A first \in Int, s \in RowSlots : SumBefore(first, s) \in Number
<1>1. /\ IsTable(rows)
      /\ rows \in Seq([start : Slots \cup {None}, sum : Sums \cup {None}])
  BY TableInvIsTable DEF TableInv
<1>2. \A i \in DOMAIN rows : rows[i] \in [start : Slots \cup {None}, sum : Sums \cup {None}]
  BY <1>1, Elements
<1>3. RowSlots \subseteq Slots
  BY <1>2 DEF RowSlots
<1>4. ASSUME NEW s \in RowSlots PROVE SumAt(s) \in Number
  <2>1. PICK i \in DOMAIN rows : rows[i].start = s
    BY DEF RowSlots
  <2>2. rows[i].sum \in Number
    BY <1>2, ReadingsCheckAssumption DEF Number
  <2> QED BY <1>1, <2>1, <2>2, SumOfRow
<1>5. ASSUME NEW first \in Int, NEW s \in RowSlots PROVE SumBefore(first, s) \in Number
  <2> DEFINE before == {q \in RowSlots : first <= q /\ q < s}
  <2>1. CASE before = {}
    BY <2>1 DEF SumBefore, Number
  <2>2. CASE before # {}
    <3>1. before \in SUBSET Nat /\ s \in Nat
      <4>1. Slots \subseteq Nat
        BY ReadingsCheckAssumption DEF Slots
      <4> QED BY <1>3, <4>1
    <3>2. \A o \in before : o <= s
      BY <3>1
    <3>3. PICK m \in before : \A o \in before : o <= m
      <4> HIDE DEF before
      <4>1. \A o \in before : s - o \in Nat
        BY <3>1, <3>2
      <4>2. {s - o : o \in before} \in SUBSET Nat /\ {s - o : o \in before} # {}
        BY <2>2, <4>1
      <4>3. PICK d \in {s - o : o \in before} : \A e \in {s - o : o \in before} : d <= e
        BY <4>2, LeastNumber
      <4>4. PICK m \in before : d = s - m
        BY <4>3
      <4>5. \A o \in before : s - m <= s - o
        BY <4>3, <4>4
      <4> QED BY <3>1, <4>4, <4>5
    <3> DEFINE c == CHOOSE q \in before : \A o \in before : o <= q
    <3>4. c \in before
      <4> HIDE DEF before
      <4> QED BY <3>3
    <3>5. SumBefore(first, s) = SumAt(c)
      BY <2>2 DEF SumBefore
    <3> HIDE DEF c
    <3> QED BY <1>4, <3>4, <3>5
  <2> QED BY <2>1, <2>2
<1> QED BY <1>3, <1>4, <1>5

\* What is sent for a slot has the type of a reading.
LEMMA ReadingOfType ==
  ASSUME TableInv, NEW first \in Int, NEW s \in RowSlots
  PROVE  /\ ReadingOf(first, s) \in
              [slot : Slots, value : Int \cup {None}, delta : Nat \cup {None}]
         /\ ReadingOf(first, s).slot = s
         /\ ReadingOf(first, s).delta
              = IF SumAt(s) = None THEN None ELSE Quantized(
                  IF \/ SumBefore(first, s) = None \/ SumAt(s) < SumBefore(first, s)
                  THEN 0 ELSE SumAt(s) - SumBefore(first, s))
<1>1. s \in Slots /\ SumAt(s) \in Number /\ SumBefore(first, s) \in Number
  BY TableTypes
<1> DEFINE c == SumAt(s)
           p == SumBefore(first, s)
           grown == IF p = None \/ c < p THEN 0 ELSE c - p
<1>2. /\ ReadingOf(first, s).slot = s
      /\ ReadingOf(first, s).value = Payload(c)
      /\ ReadingOf(first, s).delta = Payload(Delta(p, c))
      /\ ReadingOf(first, s)
           = [slot |-> s, value |-> Payload(c), delta |-> Payload(Delta(p, c))]
  BY DEF ReadingOf
<1> HIDE DEF c, p
<1>3. Payload(c) \in Int \cup {None}
  BY <1>1, PayloadType DEF Number, c
<1>4. c # None => c \in Int /\ grown \in Nat /\ Delta(p, c) = grown
  BY <1>1 DEF c, p, Delta, Number
<1>5. Payload(Delta(p, c)) = IF c = None THEN None ELSE Quantized(grown)
  <2>1. CASE c = None
    BY <2>1 DEF Delta, Payload
  <2>2. CASE c # None
    BY <1>4, <2>2, ReadingsAssumption DEF Payload
  <2> QED BY <2>1, <2>2
<1>6. Payload(Delta(p, c)) \in Nat \cup {None}
  <2> HIDE DEF grown
  <2> QED BY <1>4, <1>5, QuantizedType
<1> QED BY <1>1, <1>2, <1>3, <1>5, <1>6 DEF c, p

(***************************************************************************)
(* What build_readings returns for a window is well formed, and never a    *)
(* negative delta, whatever the recorder answers.                          *)
(***************************************************************************)
THEOREM TypeCorrect == Spec => []TypeOK
<1>1. TableInv => TypeOK
  <2> SUFFICES ASSUME TableInv PROVE TypeOK
    OBVIOUS
  <2> DEFINE T == [slot : Slots, value : Int \cup {None}, delta : Nat \cup {None}]
  <2>1. ASSUME NEW w \in Windows PROVE Imported(rows, w[1], w[2]) \in Seq(T)
    <3>1. w[1] \in Int /\ w[2] \in Int
      BY ReadingsCheckAssumption DEF Windows
    <3> DEFINE window == {s \in RowSlots : w[1] <= s /\ s < w[2]}
    <3>2. PICK slot : /\ Enumerates(slot, window)
                      /\ Imported(rows, w[1], w[2])
                           = [m \in 1..Len(slot) |-> ReadingOf(w[1] - 1, slot[m])]
      BY <3>1, ImportedReadings, TableInvIsTable
    <3>3. Len(slot) \in Nat /\ \A m \in 1..Len(slot) : slot[m] \in window
      <4> HIDE DEF window
      <4> QED BY <3>2, Elements DEF Enumerates
    <3>4. \A m \in 1..Len(slot) : ReadingOf(w[1] - 1, slot[m]) \in T
      <4> SUFFICES ASSUME NEW m \in 1..Len(slot)
                   PROVE  ReadingOf(w[1] - 1, slot[m]) \in T
        OBVIOUS
      <4>1. slot[m] \in RowSlots
        BY <3>3
      <4> QED BY <3>1, <4>1, ReadingOfType
    <3> HIDE DEF T
    <3> QED BY <3>2, <3>3, <3>4
  <2> QED BY <2>1 DEF TypeOK, TableInv
<1> QED BY <1>1, TableInvHolds, PTL

\* A set listed in increasing order has as many elements as the list.
LEMMA EnumerationCounts ==
  ASSUME NEW S \in SUBSET Int, NEW slot, Enumerates(slot, S)
  PROVE  /\ slot \in Seq(S) /\ Len(slot) \in Nat /\ DOMAIN slot = 1..Len(slot)
         /\ \A n \in 1..Len(slot) : slot[n] \in S /\ slot[n] \in Int
         /\ Len(slot) = Cardinality(S)
<1>1. /\ slot \in Seq(S) /\ Len(slot) \in Nat /\ DOMAIN slot = 1..Len(slot)
      /\ \A n \in 1..Len(slot) : slot[n] \in S
  BY Elements DEF Enumerates
<1>2. \A n \in 1..Len(slot) : slot[n] \in Int
  BY <1>1
<1>3. slot \in [1..Len(slot) -> S]
  BY <1>1
<1>4. slot \in Bijection(1..Len(slot), S)
  <2>1. ASSUME NEW n \in 1..Len(slot), NEW m \in 1..Len(slot), slot[n] = slot[m]
        PROVE  n = m
    <3>1. ~(n < m) /\ ~(m < n)
      BY <1>1, <1>2, <2>1 DEF Enumerates
    <3> QED BY <1>1, <3>1
  <2>2. slot \in Surjection(1..Len(slot), S)
    BY <1>1, <1>3 DEF Enumerates, Surjection
  <2> QED BY <1>3, <2>1, <2>2 DEF Bijection, Injection, IsInjective
<1>5. Cardinality(S) = Cardinality(1..Len(slot)) /\ IsFiniteSet(1..Len(slot))
  <2>1. IsFiniteSet(1..Len(slot))
    BY <1>1, FS_Interval
  <2>2. ExistsBijection(1..Len(slot), S)
    BY <1>4 DEF ExistsBijection
  <2> QED BY <2>1, <2>2, FS_Bijection
<1>6. Cardinality(1..Len(slot)) = Len(slot)
  <2>1. Cardinality(1..Len(slot)) = IF 1 > Len(slot) THEN 0 ELSE Len(slot) - 1 + 1
    BY <1>1, FS_Interval
  <2> QED BY <1>1, <2>1
<1> QED BY <1>1, <1>2, <1>5, <1>6

(***************************************************************************)
(* build_readings sends one reading per row of the window, in the order of *)
(* time, each delta taken from the row just before, for every table whose  *)
(* starts sort as texts in the order of time.                              *)
(***************************************************************************)
THEOREM DeltasBetweenNeighbours == Spec => []DeltasAreBetweenNeighbours
<1>1. TableInv => DeltasAreBetweenNeighbours
  <2> SUFFICES ASSUME TableInv, NEW w \in Windows
               PROVE
                 LET readings == Imported(rows, w[1], w[2])
                     slots == {s \in RowSlots : w[1] <= s /\ s < w[2]}
                 IN /\ Len(readings) = Cardinality(slots)
                    /\ {readings[i].slot : i \in DOMAIN readings} = slots
                    /\ \A i, j \in DOMAIN readings :
                         i < j => readings[i].slot < readings[j].slot
                    /\ \A i \in DOMAIN readings :
                         LET s == readings[i].slot
                         IN readings[i].delta = IF SumAt(s) = None THEN None
                                                ELSE Quantized(Growth(w[1] - 1, s))
    BY DEF DeltasAreBetweenNeighbours
  <2> DEFINE r == Imported(rows, w[1], w[2])
             window == {s \in RowSlots : w[1] <= s /\ s < w[2]}
  <2>1. w[1] \in Int /\ w[2] \in Int /\ w[1] - 1 \in Int
    BY ReadingsCheckAssumption DEF Windows
  <2>2. PICK slot : /\ Enumerates(slot, window)
                    /\ r = [m \in 1..Len(slot) |-> ReadingOf(w[1] - 1, slot[m])]
    BY <2>1, ImportedReadings, TableInvIsTable
  <2>3. window \in SUBSET Int
    BY RowSlotsAreNumbers, TableInvIsTable
  <2> HIDE DEF r, window
  <2>4. /\ Len(slot) \in Nat /\ DOMAIN slot = 1..Len(slot)
        /\ \A n \in 1..Len(slot) : slot[n] \in window
        /\ Len(slot) = Cardinality(window)
        /\ Len(r) = Len(slot) /\ DOMAIN r = 1..Len(slot)
    BY <2>2, <2>3, EnumerationCounts
  <2>5. \A n \in 1..Len(slot) : slot[n] \in RowSlots
    BY <2>4 DEF window
  <2>6. ASSUME NEW n \in 1..Len(slot)
        PROVE  /\ r[n].slot = slot[n]
               /\ r[n].delta = IF SumAt(slot[n]) = None THEN None
                               ELSE Quantized(Growth(w[1] - 1, slot[n]))
    <3>1. r[n] = ReadingOf(w[1] - 1, slot[n]) /\ slot[n] \in RowSlots
      BY <2>2, <2>5
    <3>2. /\ r[n].slot = slot[n]
          /\ r[n].delta
               = IF SumAt(slot[n]) = None THEN None ELSE Quantized(
                   IF \/ SumBefore(w[1] - 1, slot[n]) = None
                      \/ SumAt(slot[n]) < SumBefore(w[1] - 1, slot[n])
                   THEN 0 ELSE SumAt(slot[n]) - SumBefore(w[1] - 1, slot[n]))
      BY <2>1, <3>1, ReadingOfType
    <3>3. CASE SumAt(slot[n]) = None
      BY <3>2, <3>3
    <3>4. CASE SumAt(slot[n]) # None
      BY <3>2, <3>4 DEF Growth
    <3> QED BY <3>3, <3>4
  <2>7. {r[i].slot : i \in DOMAIN r} = window
    BY <2>2, <2>4, <2>6 DEF Enumerates
  <2>8. \A i, j \in DOMAIN r : i < j => r[i].slot < r[j].slot
    BY <2>2, <2>4, <2>6 DEF Enumerates
  <2>9. \A i \in DOMAIN r :
          r[i].delta = IF SumAt(r[i].slot) = None THEN None
                       ELSE Quantized(Growth(w[1] - 1, r[i].slot))
    BY <2>4, <2>6
  <2> QED BY <2>4, <2>7, <2>8, <2>9 DEF r, window
<1> QED BY <1>1, TableInvHolds, PTL

\* A set of numbers is listed in increasing order in one way.
LEMMA OneEnumeration ==
  ASSUME NEW S \in SUBSET Int, NEW f, NEW g, Enumerates(f, S), Enumerates(g, S)
  PROVE  f = g
<1>1. /\ Len(f) \in Nat /\ DOMAIN f = 1..Len(f) /\ Len(f) = Cardinality(S) /\ f \in Seq(S)
      /\ \A n \in 1..Len(f) : f[n] \in S /\ f[n] \in Int
      /\ Len(g) \in Nat /\ DOMAIN g = 1..Len(g) /\ Len(g) = Cardinality(S) /\ g \in Seq(S)
      /\ \A n \in 1..Len(g) : g[n] \in S /\ g[n] \in Int
  BY EnumerationCounts
<1> DEFINE N == Len(f)
           D == {n \in 1..N : f[n] # g[n]}
<1>2. D = {}
  <2> SUFFICES ASSUME D # {} PROVE FALSE
    OBVIOUS
  <2>1. D \in SUBSET Nat
    BY <1>1
  <2>2. PICK n \in D : \A m \in D : n <= m
    <3> HIDE DEF D
    <3> QED BY <2>1, LeastNumber
  <2>3. \A m \in 1..N : m < n => f[m] = g[m]
    BY <1>1, <2>2
  <2>4. n \in 1..N /\ f[n] # g[n] /\ f[n] \in S /\ g[n] \in S
    BY <1>1, <2>2
  <2>5. PICK k \in 1..N : g[k] = f[n]
    BY <1>1, <2>4 DEF Enumerates
  <2>6. PICK l \in 1..N : f[l] = g[n]
    BY <1>1, <2>4 DEF Enumerates
  <2>7. \A i, j \in 1..N : i < j => f[i] < f[j] /\ g[i] < g[j]
    BY <1>1 DEF Enumerates
  <2> HIDE DEF D
  <2>8. g[n] < f[n]
    <3>1. ~(k < n)
      <4> SUFFICES ASSUME k < n PROVE FALSE
        OBVIOUS
      <4>1. f[k] = f[n] /\ f[k] < f[n] /\ f[n] \in Int
        BY <1>1, <2>3, <2>4, <2>5, <2>7
      <4> QED BY <4>1
    <3>2. n < k
      BY <1>1, <2>4, <2>5, <3>1
    <3> QED BY <2>4, <2>5, <2>7, <3>2
  <2>9. f[n] < g[n]
    <3>1. ~(l < n)
      <4> SUFFICES ASSUME l < n PROVE FALSE
        OBVIOUS
      <4>1. g[l] = g[n] /\ g[l] < g[n] /\ g[n] \in Int
        BY <1>1, <2>3, <2>4, <2>6, <2>7
      <4> QED BY <4>1
    <3>2. n < l
      BY <1>1, <2>4, <2>6, <3>1
    <3> QED BY <2>4, <2>6, <2>7, <3>2
  <2>10. f[n] \in Int /\ g[n] \in Int
    BY <1>1, <2>4
  <2> QED BY <2>8, <2>9, <2>10
<1> QED BY <1>1, <1>2

\* Behind a row, or behind a stretch without rows, it does not matter from
\* where on the rows were asked for.
LEMMA SumBeforeSeam ==
  ASSUME TableInv, NEW first \in Int, NEW mid \in Int, first < mid,
         mid - 1 \in RowSlots \/ RowSlots \cap (first .. mid - 1) = {},
         NEW s \in RowSlots, mid <= s
  PROVE  SumBefore(mid - 1, s) = SumBefore(first, s)
<1> DEFINE near == {q \in RowSlots : mid - 1 <= q /\ q < s}
           far == {q \in RowSlots : first <= q /\ q < s}
           Top(S) == CHOOSE q \in S : \A o \in S : o <= q
<1>1. RowSlots \subseteq Int
  BY RowSlotsAreNumbers, TableInvIsTable
<1>2. near \subseteq far
  <2> SUFFICES ASSUME NEW q \in near PROVE first <= q
    OBVIOUS
  <2> QED BY <1>1
<1>3. CASE RowSlots \cap (first .. mid - 1) = {}
  <2>1. far \subseteq near
    <3> SUFFICES ASSUME NEW q \in far PROVE mid - 1 <= q
      OBVIOUS
    <3>1. q \notin first .. mid - 1 /\ q \in Int /\ first <= q
      BY <1>1, <1>3
    <3> QED BY <3>1
  <2>2. far = near
    BY <1>2, <2>1
  <2>3. /\ SumBefore(mid - 1, s) = IF near = {} THEN None ELSE SumAt(Top(near))
        /\ SumBefore(first, s) = IF far = {} THEN None ELSE SumAt(Top(far))
    BY DEF SumBefore
  <2> HIDE DEF near, far, Top
  <2> QED BY <2>2, <2>3
<1>4. CASE mid - 1 \in RowSlots
  <2>1. mid - 1 \in near
    BY <1>1, <1>4
  <2>2. \A q \in far : (\A o \in far : o <= q) <=> (q \in near /\ \A o \in near : o <= q)
    <3> SUFFICES ASSUME NEW q \in far
                 PROVE  (\A o \in far : o <= q) <=> (q \in near /\ \A o \in near : o <= q)
      OBVIOUS
    <3>1. ASSUME \A o \in far : o <= q PROVE q \in near /\ \A o \in near : o <= q
      <4>1. mid - 1 <= q
        BY <1>2, <2>1, <3>1
      <4> QED BY <1>2, <3>1, <4>1
    <3>2. ASSUME q \in near, \A o \in near : o <= q, NEW o \in far PROVE o <= q
      <4>1. o \in Int /\ q \in Int /\ mid - 1 <= q
        BY <1>1, <3>2
      <4>2. CASE o \in near
        BY <3>2, <4>2
      <4>3. CASE o \notin near
        BY <4>1, <4>3
      <4> QED BY <4>2, <4>3
    <3> QED BY <3>1, <3>2
  <2>3. Top(near) = Top(far)
    <3>1. \A q : (q \in near /\ \A o \in near : o <= q) <=> (q \in far /\ \A o \in far : o <= q)
      BY <1>2, <2>2
    <3> HIDE DEF near, far
    <3> QED BY <3>1
  <2>4. near # {} /\ far # {}
    BY <1>2, <2>1
  <2>5. /\ SumBefore(mid - 1, s) = IF near = {} THEN None ELSE SumAt(Top(near))
        /\ SumBefore(first, s) = IF far = {} THEN None ELSE SumAt(Top(far))
    BY DEF SumBefore
  <2> HIDE DEF near, far, Top
  <2> QED BY <2>3, <2>4, <2>5
<1> QED BY <1>3, <1>4

\* Two lists of which the one ends before the other begins, joined.
LEMMA EnumerationsJoin ==
  ASSUME NEW S \in SUBSET Int, NEW T \in SUBSET Int, \A s \in S, t \in T : s < t,
         NEW f, NEW g, Enumerates(f, S), Enumerates(g, T)
  PROVE  Enumerates(f \o g, S \cup T)
<1> DEFINE U == S \cup T
           h == f \o g
<1>1. /\ Len(f) \in Nat /\ DOMAIN f = 1..Len(f) /\ f \in Seq(S)
      /\ \A n \in 1..Len(f) : f[n] \in S /\ f[n] \in Int
      /\ Len(g) \in Nat /\ DOMAIN g = 1..Len(g) /\ g \in Seq(T)
      /\ \A n \in 1..Len(g) : g[n] \in T /\ g[n] \in Int
  BY EnumerationCounts
<1>2. f \in Seq(U) /\ g \in Seq(U)
  <2>1. S \subseteq U /\ T \subseteq U
    OBVIOUS
  <2> HIDE DEF U
  <2> QED BY <1>1, <2>1
<1>3. /\ h \in Seq(U)
      /\ DOMAIN h = 1..(Len(f) + Len(g))
      /\ \A n \in 1..(Len(f) + Len(g)) :
           h[n] = IF n <= Len(f) THEN f[n] ELSE g[n - Len(f)]
  <2> HIDE DEF U
  <2> QED BY <1>1, <1>2
<1> HIDE DEF h
<1>4. ASSUME NEW n \in DOMAIN h, NEW m \in DOMAIN h, n < m PROVE h[n] < h[m]
  <2>1. CASE m <= Len(f)
    <3>1. n \in 1..Len(f) /\ m \in 1..Len(f) /\ h[n] = f[n] /\ h[m] = f[m]
      BY <1>1, <1>3, <1>4, <2>1
    <3> QED BY <1>1, <1>4, <3>1 DEF Enumerates
  <2>2. CASE n <= Len(f) /\ ~(m <= Len(f))
    <3>1. /\ n \in 1..Len(f) /\ m - Len(f) \in 1..Len(g)
          /\ h[n] = f[n] /\ h[m] = g[m - Len(f)]
      BY <1>1, <1>3, <2>2
    <3> QED BY <1>1, <3>1
  <2>3. CASE ~(n <= Len(f))
    <3>1. /\ n - Len(f) \in 1..Len(g) /\ m - Len(f) \in 1..Len(g)
          /\ n - Len(f) < m - Len(f)
          /\ h[n] = g[n - Len(f)] /\ h[m] = g[m - Len(f)]
      BY <1>1, <1>3, <1>4, <2>3
    <3> QED BY <1>1, <3>1 DEF Enumerates
  <2> QED BY <1>1, <1>3, <2>1, <2>2, <2>3
<1>5. ASSUME NEW s \in U PROVE \E n \in DOMAIN h : h[n] = s
  <2>1. CASE s \in S
    <3>1. PICK n \in 1..Len(f) : f[n] = s
      BY <1>1, <2>1 DEF Enumerates
    <3>2. n \in 1..(Len(f) + Len(g)) /\ n <= Len(f)
      BY <1>1
    <3> QED BY <1>3, <3>1, <3>2
  <2>2. CASE s \in T
    <3>1. PICK n \in 1..Len(g) : g[n] = s
      BY <1>1, <2>2 DEF Enumerates
    <3>2. /\ Len(f) + n \in 1..(Len(f) + Len(g)) /\ ~(Len(f) + n <= Len(f))
          /\ (Len(f) + n) - Len(f) = n
      BY <1>1
    <3> QED BY <1>3, <3>1, <3>2
  <2> QED BY <2>1, <2>2
<1> QED BY <1>3, <1>4, <1>5 DEF Enumerates, h

\* What joining two lists makes.
LEMMA Joined ==
  ASSUME NEW X, NEW f \in Seq(X), NEW g \in Seq(X)
  PROVE  /\ f \o g \in Seq(X) /\ Len(f \o g) = Len(f) + Len(g)
         /\ DOMAIN (f \o g) = 1..(Len(f) + Len(g))
         /\ \A n \in 1..(Len(f) + Len(g)) :
              (f \o g)[n] = IF n <= Len(f) THEN f[n] ELSE g[n - Len(f)]
OBVIOUS

\* Joining two lists made slot by slot is making one of the joined slots.
LEMMA JoinedLists ==
  ASSUME NEW T, NEW f \in Seq(T), NEW g \in Seq(T), NEW a, NEW b, NEW c,
         a = [m \in 1..Len(f) |-> c[f[m]]], b = [m \in 1..Len(g) |-> c[g[m]]],
         NEW X, \A s \in T : c[s] \in X
  PROVE  a \o b = [m \in 1..Len(f \o g) |-> c[(f \o g)[m]]]
<1>1. /\ Len(f) \in Nat /\ Len(g) \in Nat
      /\ \A m \in 1..Len(f) : f[m] \in T /\ c[f[m]] \in X
      /\ \A m \in 1..Len(g) : g[m] \in T /\ c[g[m]] \in X
  BY Elements
<1>2. a \in Seq(X) /\ Len(a) = Len(f) /\ b \in Seq(X) /\ Len(b) = Len(g)
  BY <1>1
<1>3. /\ a \o b \in Seq(X) /\ Len(a \o b) = Len(f) + Len(g)
      /\ Len(f \o g) = Len(f) + Len(g)
  <2>1. Len(f \o g) = Len(f) + Len(g)
    BY Joined
  <2>2. a \o b \in Seq(X) /\ Len(a \o b) = Len(a) + Len(b)
    BY <1>2, Joined
  <2> QED BY <1>2, <2>1, <2>2
<1>4. ASSUME NEW m \in 1..(Len(f) + Len(g)) PROVE (a \o b)[m] = c[(f \o g)[m]]
  <2>1. CASE m <= Len(f)
    <3>1. m \in 1..Len(f)
      BY <1>1, <2>1
    <3>2. (a \o b)[m] = a[m] /\ (f \o g)[m] = f[m]
      BY <1>1, <1>2, <3>1
    <3> QED BY <3>1, <3>2
  <2>2. CASE ~(m <= Len(f))
    <3>1. m - Len(f) \in 1..Len(g)
      BY <1>1, <2>2
    <3>2. (a \o b)[m] = b[m - Len(f)] /\ (f \o g)[m] = g[m - Len(f)]
      BY <1>1, <1>2, <2>2
    <3> QED BY <3>1, <3>2
  <2> QED BY <2>1, <2>2
<1>5. a \o b = [m \in 1..(Len(f) + Len(g)) |-> (a \o b)[m]]
  BY <1>3
<1> QED BY <1>3, <1>4, <1>5

(***************************************************************************)
(* Two imports of adjoining windows send what one import of both would.    *)
(***************************************************************************)
THEOREM WindowsDoCompose == Spec => []WindowsCompose
<1>1. TableInv => WindowsCompose
  <2> SUFFICES ASSUME TableInv, NEW w \in Windows, NEW mid \in w[1] + 1 .. w[2] - 1,
                      \/ mid - 1 \in RowSlots
                      \/ RowSlots \cap (w[1] - 1 .. mid - 1) = {}
               PROVE  Imported(rows, w[1], mid) \o Imported(rows, mid, w[2])
                        = Imported(rows, w[1], w[2])
    BY DEF WindowsCompose
  <2> DEFINE left == {s \in RowSlots : w[1] <= s /\ s < mid}
             right == {s \in RowSlots : mid <= s /\ s < w[2]}
             both == {s \in RowSlots : w[1] <= s /\ s < w[2]}
             c == [s \in RowSlots |-> ReadingOf(w[1] - 1, s)]
  <2>1. /\ w[1] \in Int /\ w[2] \in Int /\ mid \in Int
        /\ w[1] - 1 \in Int /\ w[1] - 1 < mid /\ w[1] < mid /\ mid < w[2]
    BY ReadingsCheckAssumption DEF Windows
  <2>2. RowSlots \subseteq Int /\ IsTable(rows)
    BY RowSlotsAreNumbers, TableInvIsTable
  <2>3. PICK f : /\ Enumerates(f, left)
                 /\ Imported(rows, w[1], mid)
                      = [m \in 1..Len(f) |-> ReadingOf(w[1] - 1, f[m])]
    BY <2>1, <2>2, ImportedReadings
  <2>4. PICK g : /\ Enumerates(g, right)
                 /\ Imported(rows, mid, w[2])
                      = [m \in 1..Len(g) |-> ReadingOf(mid - 1, g[m])]
    BY <2>1, <2>2, ImportedReadings
  <2>5. PICK h : /\ Enumerates(h, both)
                 /\ Imported(rows, w[1], w[2])
                      = [m \in 1..Len(h) |-> ReadingOf(w[1] - 1, h[m])]
    BY <2>1, <2>2, ImportedReadings
  <2>6. /\ left \in SUBSET Int /\ right \in SUBSET Int /\ both \in SUBSET Int
        /\ \A s \in left, t \in right : s < t
    <3>1. left \subseteq RowSlots /\ right \subseteq RowSlots /\ both \subseteq RowSlots
      OBVIOUS
    <3>2. ASSUME NEW s \in left, NEW t \in right PROVE s < t
      <4>1. s \in Int /\ t \in Int /\ s < mid /\ mid <= t
        BY <2>2
      <4> QED BY <2>1, <4>1
    <3> HIDE DEF left, right, both
    <3> QED BY <2>2, <3>1, <3>2
  <2>7. both = left \cup right
    <3>1. \A s \in RowSlots : w[1] <= s /\ s < w[2]
                                <=> (w[1] <= s /\ s < mid) \/ (mid <= s /\ s < w[2])
      BY <2>1, <2>2
    <3> QED BY <3>1
  <2>8. left \subseteq RowSlots /\ right \subseteq RowSlots /\ \A s \in right : mid <= s
    OBVIOUS
  <2> HIDE DEF left, right, both
  <2>9. h = f \o g
    <3>1. Enumerates(f \o g, both)
      BY <2>3, <2>4, <2>6, <2>7, EnumerationsJoin
    <3> QED BY <2>5, <2>6, <3>1, OneEnumeration
  <2>10. /\ f \in Seq(RowSlots) /\ \A m \in 1..Len(f) : f[m] \in RowSlots
         /\ g \in Seq(RowSlots) /\ \A m \in 1..Len(g) : g[m] \in right /\ g[m] \in RowSlots
         /\ Len(f) \in Nat /\ Len(g) \in Nat
    <3>1. /\ f \in Seq(left) /\ Len(f) \in Nat /\ \A m \in 1..Len(f) : f[m] \in left
          /\ g \in Seq(right) /\ Len(g) \in Nat /\ \A m \in 1..Len(g) : g[m] \in right
      BY <2>3, <2>4, Elements DEF Enumerates
    <3> QED BY <2>8, <3>1
  <2>11. Imported(rows, w[1], mid) = [m \in 1..Len(f) |-> c[f[m]]]
    BY <2>3, <2>10
  <2>12. Imported(rows, mid, w[2]) = [m \in 1..Len(g) |-> c[g[m]]]
    <3>1. \A m \in 1..Len(g) : ReadingOf(mid - 1, g[m]) = c[g[m]]
      <4> SUFFICES ASSUME NEW m \in 1..Len(g) PROVE ReadingOf(mid - 1, g[m]) = c[g[m]]
        OBVIOUS
      <4>1. g[m] \in RowSlots /\ mid <= g[m]
        BY <2>8, <2>10
      <4>2. SumBefore(mid - 1, g[m]) = SumBefore(w[1] - 1, g[m])
        BY <2>1, <4>1, SumBeforeSeam
      <4> QED BY <4>1, <4>2 DEF ReadingOf
    <3> HIDE DEF c
    <3> QED BY <2>4, <3>1
  <2>13. Imported(rows, w[1], w[2]) = [m \in 1..Len(f \o g) |-> c[(f \o g)[m]]]
    <3>1. Len(f \o g) \in Nat /\ \A m \in 1..Len(f \o g) : (f \o g)[m] \in RowSlots
      <4>1. f \o g \in Seq(RowSlots)
        BY <2>10
      <4> QED BY <4>1, Elements
    <3> QED BY <2>5, <2>9, <3>1
  <2> DEFINE X == [slot : Slots, value : Int \cup {None}, delta : Nat \cup {None}]
  <2>14. \A s \in RowSlots : c[s] \in X
    <3> HIDE DEF X
    <3> SUFFICES ASSUME NEW s \in RowSlots PROVE ReadingOf(w[1] - 1, s) \in X
      OBVIOUS
    <3> QED BY <2>1, ReadingOfType DEF X
  <2> HIDE DEF c, X
  <2> QED BY <2>10, <2>11, <2>12, <2>13, <2>14, JoinedLists
<1> QED BY <1>1, TableInvHolds, PTL

\* What the running totals of a list are.
LEMMA TotalsSteps ==
  ASSUME NEW r, Len(r) \in Nat, \A n \in 1..Len(r) : r[n].delta \in Int
  PROVE  /\ Totals(r)[0] = 0
         /\ \A n \in 1..Len(r) : Totals(r)[n] = Totals(r)[n - 1] + r[n].delta
         /\ \A n \in 0..Len(r) : Totals(r)[n] \in Int
<1> DEFINE N == Len(r)
           g == [n \in 1..N |-> [x \in Int |-> x + r[n].delta]]
           Equation(f) == f = [n \in 0..N |-> IF n = 0 THEN 0 ELSE f[n - 1] + r[n].delta]
           total == Totals(r)
<1>1. g \in [1..N -> [Int -> Int]]
  OBVIOUS
<1>2. PICK f : Solves(f, N, Int, 0, g)
  <2> HIDE DEF g, N
  <2>1. N \in Nat
    BY DEF N
  <2>2. 0 \in Int
    OBVIOUS
  <2> QED BY <1>1, <2>1, <2>2, Recursion
<1>3. Equation(f)
  <2>1. f \in [0..N -> Int] /\ f[0] = 0
    BY <1>2 DEF Solves
  <2>2. \A n \in 1..N : f[n] = f[n - 1] + r[n].delta
    <3> SUFFICES ASSUME NEW n \in 1..N PROVE f[n] = f[n - 1] + r[n].delta
      OBVIOUS
    <3>1. f[n] = g[n][f[n - 1]]
      <4> HIDE DEF g, N
      <4> QED BY <1>2 DEF Solves
    <3>2. n - 1 \in 0..N
      OBVIOUS
    <3>3. f[n - 1] \in Int
      BY <2>1, <3>2
    <3> QED BY <3>1, <3>3
  <2> QED BY <2>1, <2>2
<1>4. total = CHOOSE t : Equation(t)
  BY DEF Totals
<1>5. Equation(total)
  <2> HIDE DEF Equation
  <2> QED BY <1>3, <1>4
<1> HIDE DEF total
<1>6. total[0] = 0 /\ \A n \in 1..N : total[n] = total[n - 1] + r[n].delta
  BY <1>5
<1>7. \A n \in 0..N : total[n] \in Int
  <2> DEFINE S == {n \in Nat : n <= N => total[n] \in Int}
  <2>1. 0 \in S
    BY <1>6
  <2>2. ASSUME NEW n \in S PROVE n + 1 \in S
    <3> SUFFICES ASSUME n + 1 <= N PROVE total[n + 1] \in Int
      OBVIOUS
    <3>1. n + 1 \in 1..N /\ total[n] \in Int /\ (n + 1) - 1 = n
      OBVIOUS
    <3>2. total[n + 1] = total[n] + r[n + 1].delta
      BY <1>6, <3>1
    <3> QED BY <3>1, <3>2
  <2>3. \A n \in Nat : n \in S
    <3>1. S \in SUBSET Nat
      OBVIOUS
    <3> HIDE DEF S
    <3> QED BY <2>1, <2>2, <3>1, Induction
  <2> QED BY <2>3
<1> QED BY <1>6, <1>7 DEF total

\* Rounded growth adds up to the growth of the whole, give or take half of
\* Scale for each number rounded.
LEMMA RoundedGrowth ==
  ASSUME NEW M \in Nat, NEW p \in [0..M -> Int], NEW d \in [1..M -> Nat],
         NEW t \in [0..M -> Int], t[0] = 0,
         \A m \in 1..M : t[m] = t[m - 1] + Quantized(d[m]) /\ d[m] >= p[m] - p[m - 1]
  PROVE  /\ 2 * (Scale * t[M] - (p[M] - p[0])) >= -(M * Scale)
         /\ (\A m \in 1..M : d[m] = p[m] - p[m - 1])
              => 2 * (Scale * t[M] - (p[M] - p[0])) <= M * Scale
<1> DEFINE Excess(m) == 2 * (Scale * t[m] - (p[m] - p[0]))
           Even == \A m \in 1..M : d[m] = p[m] - p[m - 1]
           S == {m \in Nat : m <= M => /\ Excess(m) >= -(m * Scale)
                                       /\ Even => Excess(m) <= m * Scale}
<1>1. Scale \in Nat
  BY ReadingsAssumption
<1>2. 0 \in S
  <2>1. Scale * t[0] = 0 /\ 0 * Scale = 0 /\ p[0] \in Int
    BY <1>1
  <2>2. Excess(0) = 0
    BY <2>1
  <2> HIDE DEF Excess, Even
  <2> QED BY <2>1, <2>2
<1>3. ASSUME NEW m \in S PROVE m + 1 \in S
  <2> SUFFICES ASSUME m + 1 <= M
               PROVE  /\ Excess(m + 1) >= -((m + 1) * Scale)
                      /\ Even => Excess(m + 1) <= (m + 1) * Scale
    OBVIOUS
  <2> DEFINE n == m + 1
             x == d[n]
             k == Quantized(x)
             u == Scale * k
  <2>1. /\ m \in Nat
        /\ Excess(m) >= -(m * Scale) /\ (Even => Excess(m) <= m * Scale)
    <3> HIDE DEF Excess, Even
    <3> QED OBVIOUS
  <2>2. m \in 0..M /\ n \in 1..M /\ n \in 0..M /\ n - 1 = m
    <3> HIDE DEF S, Excess, Even
    <3> QED BY <2>1
  <2>3. /\ t[m] \in Int /\ t[n] \in Int /\ p[m] \in Int /\ p[n] \in Int /\ p[0] \in Int
        /\ x \in Nat /\ x >= p[n] - p[m] /\ t[n] = t[m] + k
    <3> HIDE DEF S, n, k
    <3> QED BY <2>2 DEF k
  <2>4. Even => x = p[n] - p[m]
    <3> HIDE DEF S
    <3> QED BY <2>2
  <2> HIDE DEF S, x, n, Even
  <2>5. k \in Int /\ 2 * u <= 2 * x + Scale /\ 2 * x - Scale <= 2 * u
    BY <2>3, QuantizedType, QuantizedError
  <2> DEFINE tm == t[m]
             tn == t[n]
             pm == p[m]
             pn == p[n]
             p0 == p[0]
             ms == m * Scale
             ts == Scale * tm
  <2>6. /\ Excess(m) = 2 * (Scale * tm - (pm - p0))
        /\ Excess(n) = 2 * (Scale * tn - (pn - p0))
    OBVIOUS
  <2>7. tm \in Int /\ tn \in Int /\ pm \in Int /\ pn \in Int /\ p0 \in Int /\ tn = tm + k
    BY <2>3
  <2>8. x \in Int /\ x >= pn - pm /\ (Even => x = pn - pm)
    BY <2>3, <2>4
  <2> HIDE DEF Excess, tm, tn, pm, pn, p0, k
  <2>9. Scale * tn = ts + u
    BY <1>1, <2>5, <2>7
  <2>10. (m + 1) * Scale = ms + Scale
    BY <1>1, <2>1
  <2>11. ts \in Int /\ u \in Int /\ ms \in Int
    BY <1>1, <2>1, <2>5, <2>7
  <2>12. Excess(m) >= -ms /\ (Even => Excess(m) <= ms)
    BY <2>1
  <2>13. Excess(m) = 2 * (ts - (pm - p0)) /\ Excess(n) = 2 * (ts + u - (pn - p0))
    BY <1>1, <2>6, <2>7, <2>9, <2>11
  <2> HIDE DEF ts, ms, u
  <2>14. Excess(n) >= -(ms + Scale)
    BY <1>1, <2>5, <2>7, <2>8, <2>11, <2>12, <2>13
  <2>15. ASSUME Even PROVE Excess(n) <= ms + Scale
    BY <1>1, <2>5, <2>7, <2>8, <2>11, <2>12, <2>13, <2>15
  <2> QED BY <2>10, <2>14, <2>15 DEF n
<1>4. \A m \in Nat : m \in S
  <2>1. S \in SUBSET Nat
    OBVIOUS
  <2> HIDE DEF S
  <2> QED BY <1>2, <1>3, <2>1, Induction
<1> QED BY <1>4

(***************************************************************************)
(* Over a window without missing sums the deltas add up to at least what   *)
(* the sum grew, and to no more where it never fell, up to half of the     *)
(* last decimal for each of them.                                          *)
(***************************************************************************)
THEOREM DeltasDoAddUp == Spec => []DeltasAddUp
<1>1. TableInv => DeltasAddUp
  <2> SUFFICES ASSUME TableInv, NEW w \in Windows
               PROVE
                 LET readings == Imported(rows, w[1], w[2])
                     used == RowSlots \cap (w[1] - 1 .. w[2] - 1)
                     first == CHOOSE s \in used : \A o \in used : s <= o
                     last == CHOOSE s \in used : \A o \in used : o <= s
                     total == Totals(readings)[Len(readings)]
                     slack == Len(readings) * Scale
                 IN used # {} /\ (\A s \in used : SumAt(s) # None) =>
                      /\ 2 * (Scale * total - (SumAt(last) - SumAt(first))) >= -slack
                      /\ (\A s, t \in used : s < t => SumAt(s) <= SumAt(t)) =>
                           2 * (Scale * total - (SumAt(last) - SumAt(first))) <= slack
    BY DEF DeltasAddUp
  <2> DEFINE r == Imported(rows, w[1], w[2])
             used == RowSlots \cap (w[1] - 1 .. w[2] - 1)
             wider == {s \in RowSlots : w[1] - 1 <= s /\ s < w[2]}
             q == InOrder(Fetched(rows, w[1], w[2]))
             N == Len(q)
             first == CHOOSE s \in used : \A o \in used : s <= o
             last == CHOOSE s \in used : \A o \in used : o <= s
             Rises == \A s, t \in used : s < t => SumAt(s) <= SumAt(t)
  <2>1. w[1] \in Int /\ w[2] \in Int /\ IsTable(rows)
    BY ReadingsCheckAssumption, TableInvIsTable DEF Windows
  <2>2. used = wider
    <3>1. \A s \in RowSlots : s \in w[1] - 1 .. w[2] - 1 <=> w[1] - 1 <= s /\ s < w[2]
      BY <2>1, RowSlotsAreNumbers
    <3> QED BY <3>1
  <2>3. /\ N \in Nat
        /\ \A n \in 1..N : q[n].start \in wider /\ q[n].start \in Int
        /\ \A n, m \in 1..N : n < m => q[n].start < q[m].start
        /\ \A s \in wider : \E n \in 1..N : q[n].start = s
        /\ \A n \in 1..N : q[n].sum = SumAt(q[n].start)
    BY <2>1, RowsRead
  <2>4. PICK a \in Nat :
          /\ a <= 1 /\ a <= N
          /\ \A n \in 1..N : q[n].start < w[2] /\ (q[n].start < w[1] <=> n <= a)
          /\ r \in Seq(Reading)
          /\ Len(r) = N - a
          /\ \A m \in 1..(N - a) : r[m] = ReadingAt(q, a + m)
    BY <2>1, RowsRead
  <2> HIDE DEF r, q, N, wider, used
  <2> SUFFICES ASSUME used # {}, \A s \in used : SumAt(s) # None
               PROVE  LET total == Totals(r)[Len(r)]
                          slack == Len(r) * Scale
                      IN /\ 2 * (Scale * total - (SumAt(last) - SumAt(first))) >= -slack
                         /\ Rises =>
                              2 * (Scale * total - (SumAt(last) - SumAt(first))) <= slack
    BY DEF r, used
  <2>5. N >= 1
    <3>1. PICK s \in wider : TRUE
      BY <2>2
    <3>2. PICK n \in 1..N : q[n].start = s
      BY <2>3
    <3> QED BY <2>3, <3>2
  <2>6. first = q[1].start /\ last = q[N].start
    <3>1. q[1].start \in used /\ q[N].start \in used
      BY <2>2, <2>3, <2>5
    <3>2. ASSUME NEW s \in used
          PROVE  s \in Int /\ q[1].start <= s /\ s <= q[N].start
      <4>1. PICK n \in 1..N : q[n].start = s
        BY <2>2, <2>3
      <4>2. 1 \in 1..N /\ N \in 1..N /\ (n = 1 \/ 1 < n) /\ (n = N \/ n < N)
        BY <2>3, <2>5
      <4>3. /\ q[1].start \in Int /\ q[n].start \in Int /\ q[N].start \in Int
            /\ n # 1 => q[1].start < q[n].start
            /\ n # N => q[n].start < q[N].start
        BY <2>3, <4>2
      <4> QED BY <4>1, <4>3
    <3>3. first \in used /\ \A o \in used : first <= o
      BY <3>1, <3>2
    <3>4. last \in used /\ \A o \in used : o <= last
      BY <3>1, <3>2
    <3> HIDE DEF first, last
    <3>5. first = q[1].start
      BY <3>1, <3>2, <3>3
    <3>6. last = q[N].start
      BY <3>1, <3>2, <3>4
    <3> QED BY <3>5, <3>6
  <2>7. \A n \in 1..N : q[n].sum \in Int /\ q[n].sum # None
    <3> SUFFICES ASSUME NEW n \in 1..N PROVE q[n].sum \in Int /\ q[n].sum # None
      OBVIOUS
    <3>1. q[n].start \in used /\ q[n].start \in RowSlots
      BY <2>2, <2>3 DEF used
    <3>2. SumAt(q[n].start) \in Number /\ SumAt(q[n].start) # None
      BY <3>1, TableTypes
    <3> QED BY <2>3, <3>2 DEF Number
  <2> DEFINE M == N - a
             S(n) == IF n = 0 THEN q[1].sum ELSE q[n].sum
             p == [m \in 0..M |-> S(a + m)]
             grown(n) == Delta(IF n = 1 THEN None ELSE q[n - 1].sum, q[n].sum)
             d == [m \in 1..M |-> grown(a + m)]
             t == [m \in 0..M |-> Totals(r)[m]]
  <2>8. M \in Nat /\ \A m \in 0..M : a + m \in 0..N
    BY <2>3, <2>4
  <2>9. \A n \in 0..N : S(n) \in Int
    BY <2>3, <2>5, <2>7
  <2>10. ASSUME NEW n \in 1..N
         PROVE  /\ grown(n) \in Nat /\ grown(n) # None
                /\ grown(n) >= S(n) - S(n - 1)
                /\ Rises => grown(n) = S(n) - S(n - 1)
    <3>1. q[n].sum \in Int /\ q[n].sum # None
      BY <2>7
    <3>2. CASE n = 1
      <4>1. grown(n) = 0
        BY <3>1, <3>2 DEF Delta
      <4>2. S(n) = q[1].sum /\ S(n - 1) = q[1].sum
        BY <3>2
      <4> QED BY <3>1, <3>2, <4>1, <4>2, ReadingsAssumption
    <3>3. CASE n # 1
      <4>1. n - 1 \in 1..N /\ n - 1 < n /\ n # 0 /\ n - 1 # 0
        BY <2>3, <3>3
      <4>2. q[n - 1].sum \in Int /\ q[n - 1].sum # None
        BY <2>7, <4>1
      <4>3. S(n) = q[n].sum /\ S(n - 1) = q[n - 1].sum
        BY <4>1
      <4>4. grown(n) = IF q[n].sum < q[n - 1].sum THEN 0 ELSE q[n].sum - q[n - 1].sum
        BY <3>1, <3>3, <4>2 DEF Delta
      <4>5. Rises => q[n - 1].sum <= q[n].sum
        <5>1. /\ q[n - 1].start \in used /\ q[n].start \in used
              /\ q[n - 1].start < q[n].start
          BY <2>2, <2>3, <4>1
        <5>2. q[n - 1].sum = SumAt(q[n - 1].start) /\ q[n].sum = SumAt(q[n].start)
          BY <2>3, <4>1
        <5> QED BY <5>1, <5>2
      <4> HIDE DEF grown, S, Rises
      <4> QED BY <3>1, <4>2, <4>3, <4>4, <4>5, ReadingsAssumption
    <3> QED BY <3>2, <3>3
  <2> HIDE DEF grown, S, Rises
  <2>11. ASSUME NEW m \in 1..M
         PROVE  /\ a + m \in 1..N /\ m - 1 \in 0..M /\ m \in 0..M
                /\ a + (m - 1) = (a + m) - 1
                /\ r[m].delta = Quantized(d[m]) /\ r[m].delta \in Int
                /\ d[m] \in Nat /\ d[m] >= p[m] - p[m - 1]
                /\ Rises => d[m] = p[m] - p[m - 1]
    <3>1. a + m \in 1..N /\ m - 1 \in 0..M /\ m \in 0..M /\ a + (m - 1) = (a + m) - 1
      BY <2>3, <2>4
    <3>2. /\ d[m] = grown(a + m) /\ p[m] = S(a + m) /\ p[m - 1] = S((a + m) - 1)
      BY <3>1
    <3>3. r[m] = ReadingAt(q, a + m)
      BY <2>4
    <3>4. r[m].delta = Payload(grown(a + m))
      BY <3>3 DEF ReadingAt, grown
    <3>5. /\ grown(a + m) \in Nat /\ grown(a + m) # None
          /\ grown(a + m) >= S(a + m) - S((a + m) - 1)
          /\ Rises => grown(a + m) = S(a + m) - S((a + m) - 1)
      BY <2>10, <3>1
    <3>6. r[m].delta = Quantized(grown(a + m)) /\ Quantized(grown(a + m)) \in Int
      BY <3>4, <3>5, QuantizedType DEF Payload
    <3> HIDE DEF d, p, M
    <3> QED BY <3>1, <3>2, <3>5, <3>6
  <2>12. /\ Totals(r)[0] = 0
         /\ \A m \in 1..M : Totals(r)[m] = Totals(r)[m - 1] + r[m].delta
         /\ \A m \in 0..M : Totals(r)[m] \in Int
    <3>1. Len(r) = M /\ \A m \in 1..M : r[m].delta \in Int
      BY <2>4, <2>11
    <3> HIDE DEF M, d, p
    <3> QED BY <2>8, <3>1, TotalsSteps
  <2>13. p \in [0..M -> Int] /\ d \in [1..M -> Nat] /\ t \in [0..M -> Int] /\ t[0] = 0
    <3>1. p \in [0..M -> Int]
      BY <2>8, <2>9
    <3>2. d \in [1..M -> Nat]
      BY <2>10, <2>11
    <3>3. t \in [0..M -> Int] /\ t[0] = 0
      BY <2>8, <2>12
    <3> QED BY <3>1, <3>2, <3>3
  <2>14. /\ p[M] = SumAt(last) /\ p[0] = SumAt(first)
         /\ t[M] = Totals(r)[Len(r)] /\ Len(r) = M
    <3>1. p[M] = q[N].sum
      <4>1. M \in 0..M /\ a + M = N /\ N # 0
        BY <2>3, <2>4, <2>5
      <4> QED BY <4>1 DEF S
    <3>2. p[0] = q[1].sum
      <4>1. 0 \in 0..M /\ a + 0 = a /\ (a = 0 \/ a = 1)
        BY <2>4, <2>8
      <4> QED BY <4>1 DEF S
    <3>3. q[1].sum = SumAt(q[1].start) /\ q[N].sum = SumAt(q[N].start)
      BY <2>3, <2>5
    <3>4. t[M] = Totals(r)[M]
      BY <2>8
    <3> HIDE DEF p, t, first, last
    <3> QED BY <2>4, <2>6, <3>1, <3>2, <3>3, <3>4
  <2>15. \A m \in 1..M : t[m] = t[m - 1] + Quantized(d[m]) /\ d[m] >= p[m] - p[m - 1]
    <3> SUFFICES ASSUME NEW m \in 1..M
                 PROVE  t[m] = t[m - 1] + Quantized(d[m]) /\ d[m] >= p[m] - p[m - 1]
      OBVIOUS
    <3>1. t[m] = Totals(r)[m] /\ t[m - 1] = Totals(r)[m - 1]
      BY <2>11
    <3> HIDE DEF t, d, p
    <3> QED BY <2>11, <2>12, <3>1
  <2>16. Rises => \A m \in 1..M : d[m] = p[m] - p[m - 1]
    BY <2>11
  <2> HIDE DEF p, d, t, M, first, last
  <2>17. /\ 2 * (Scale * t[M] - (p[M] - p[0])) >= -(M * Scale)
         /\ Rises => 2 * (Scale * t[M] - (p[M] - p[0])) <= M * Scale
    BY <2>8, <2>13, <2>15, <2>16, RoundedGrowth
  <2> QED BY <2>14, <2>17
<1> QED BY <1>1, TableInvHolds, PTL

=============================================================================
