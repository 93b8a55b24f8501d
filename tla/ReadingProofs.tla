---------------------------- MODULE ReadingProofs ----------------------------
(***************************************************************************)
(* What the parsers of a crawl make of files and listings, for all of them *)
(* and for every path.  The state of Crawl plays no part here.             *)
(*                                                                         *)
(* Recursive definitions are solved by induction over sets of numbers      *)
(* (SetInduction, Recursion): flattening, the search for a date and the    *)
(* matching of a pattern are each told by the equation they solve.  First  *)
(* come types, whatever the lines are; then robots.txt, up to RobotsDecide; *)
(* then listings, up to ListingTells.                                      *)
(***************************************************************************)
EXTENDS Crawl, FiniteSetTheorems, SequenceTheorems, WellFoundedInduction, TLAPS

\* A set of naturals that is not empty has a least element, which is Min.
LEMMA MinInSet ==
  ASSUME NEW S \in SUBSET Nat, S # {}
  PROVE  Min(S) \in S /\ \A y \in S : Min(S) <= y
<1>1. PICK x \in S : \A y \in S : ~(<<y, x>> \in OpToRel(<, Nat))
  BY NatLessThanWellFounded, WFMin
<1>2. ASSUME NEW y \in S PROVE x <= y
  <2>1. y \in Nat /\ x \in Nat
    OBVIOUS
  <2>2. SUFFICES ASSUME y < x PROVE FALSE
    BY <2>1
  <2>3. <<y, x>> \in Nat \X Nat
    BY <2>1
  <2>4. <<y, x>> \in {ss \in Nat \X Nat : ss[1] < ss[2]}
    BY <2>2, <2>3
  <2>5. <<y, x>> \in OpToRel(<, Nat)
    BY <2>4 DEF OpToRel
  <2>6. QED
    BY <1>1, <2>5
<1>3. QED
  BY <1>2 DEF Min

\* Induction, with the property as the set of those that have it.
LEMMA SetInduction ==
  ASSUME NEW S, 0 \in S, \A n \in Nat : n \in S => n + 1 \in S
  PROVE  \A n \in Nat : n \in S
<1> DEFINE Bad == {n \in Nat : n \notin S}
<1>1. SUFFICES ASSUME Bad # {} PROVE FALSE
  OBVIOUS
<1>2. Bad \in SUBSET Nat
  OBVIOUS
<1> HIDE DEF Bad
<1>3. Min(Bad) \in Bad /\ \A y \in Bad : Min(Bad) <= y
  BY <1>1, <1>2, MinInSet
<1> DEFINE m == Min(Bad)
<1>4. m \in Nat /\ m \notin S /\ \A y \in Bad : m <= y
  BY <1>3 DEF Bad
<1> HIDE DEF m
<1>5. m # 0 /\ m - 1 \in Nat
  BY <1>4
<1>6. m - 1 \notin Bad
  BY <1>4, <1>5
<1>7. m - 1 \in S
  BY <1>5, <1>6 DEF Bad
<1>8. (m - 1) + 1 \in S
  BY <1>5, <1>7
<1>9. (m - 1) + 1 = m
  BY <1>4
<1> QED
  BY <1>4, <1>8, <1>9

\* A set of integers with an upper bound has a greatest element, which is Max.
LEMMA MaxInSet ==
  ASSUME NEW S \in SUBSET Nat, S # {}, NEW b \in Nat, \A y \in S : y <= b
  PROVE  Max(S) \in S /\ \A y \in S : y <= Max(S)
<1> DEFINE T == {b - y : y \in S}
<1>1. T \in SUBSET Nat /\ T # {}
  <2>1. \A y \in S : b - y \in Nat
    OBVIOUS
  <2>2. QED
    BY <2>1
<1> HIDE DEF T
<1>2. Min(T) \in T /\ \A z \in T : Min(T) <= z
  BY <1>1, MinInSet
<1>3. PICK x \in S : Min(T) = b - x
  BY <1>2 DEF T
<1>4. ASSUME NEW y \in S PROVE y <= x
  <2>1. b - y \in T
    BY DEF T
  <2>2. b - x <= b - y
    BY <1>2, <1>3, <2>1
  <2>3. y \in Nat /\ x \in Nat
    OBVIOUS
  <2>4. QED
    BY <2>2, <2>3
<1>5. \A y \in S : x >= y
  BY <1>4
<1>6. QED
  <2>1. \E z \in S : \A y \in S : z >= y
    BY <1>5
  <2>2. Max(S) \in S /\ \A y \in S : Max(S) >= y
    BY <2>1 DEF Max
  <2>3. \A y \in S : y \in Nat
    OBVIOUS
  <2>4. QED
    BY <2>2, <2>3

\* A recursion whose value only depends on the values of lower rank, of which
\* there are less than b, has a solution.
Recursive(D, V, rank, body, b) ==
  /\ rank \in [D -> Nat] /\ b \in Nat /\ \A x \in D : rank[x] < b
  /\ body \in [[D -> V] \X D -> V] /\ V # {}
  /\ \A g, h \in [D -> V], x \in D :
       (\A y \in D : rank[y] < rank[x] => g[y] = h[y]) => body[<<g, x>>] = body[<<h, x>>]

\* f is what body says it should be, everywhere.
Solves(f, D, V, body) == f \in [D -> V] /\ \A x \in D : f[x] = body[<<f, x>>]

\* A recursive definition has a solution if every value depends only on those of lower
\* rank: induction over the ranks, which are bounded.
LEMMA Recursion ==
  ASSUME NEW D, NEW V, NEW rank, NEW body, NEW b, Recursive(D, V, rank, body, b)
  PROVE  \E f : Solves(f, D, V, body)
<1> SUFFICES \E f \in [D -> V] : \A x \in D : f[x] = body[<<f, x>>]
  BY DEF Solves
<1>0. /\ rank \in [D -> Nat] /\ b \in Nat /\ \A x \in D : rank[x] < b
      /\ body \in [[D -> V] \X D -> V] /\ V # {}
      /\ \A g, h \in [D -> V], x \in D :
           (\A y \in D : rank[y] < rank[x] => g[y] = h[y]) => body[<<g, x>>] = body[<<h, x>>]
  BY DEF Recursive
<1> PICK v \in V : TRUE
  BY <1>0
<1> DEFINE Good == {n \in Nat :
      \E f \in [D -> V] : \A x \in D : rank[x] < n => f[x] = body[<<f, x>>]}
<1>1. 0 \in Good
  <2>1. [x \in D |-> v] \in [D -> V]
    OBVIOUS
  <2>2. \A x \in D : ~(rank[x] < 0)
    BY <1>0
  <2>3. QED
    BY <2>1, <2>2
<1>2. ASSUME NEW n \in Nat, n \in Good PROVE n + 1 \in Good
  <2>1. PICK f \in [D -> V] : \A x \in D : rank[x] < n => f[x] = body[<<f, x>>]
    BY <1>2
  <2> DEFINE g == [x \in D |-> IF rank[x] < n THEN f[x] ELSE body[<<f, x>>]]
  <2>2. g \in [D -> V]
    BY <1>0, <2>1
  <2>3. \A x \in D : g[x] = body[<<f, x>>]
    BY <2>1
  <2>4. \A x \in D : rank[x] < n => g[x] = f[x]
    OBVIOUS
  <2> HIDE DEF g
  <2>5. ASSUME NEW x \in D, rank[x] < n + 1 PROVE g[x] = body[<<g, x>>]
    <3>1. ASSUME NEW y \in D, rank[y] < rank[x] PROVE g[y] = f[y]
      <4>1. rank[y] \in Nat /\ rank[x] \in Nat
        BY <1>0
      <4>2. rank[y] < n
        BY <2>5, <3>1, <4>1
      <4>3. QED
        BY <2>4, <4>2
    <3>2. body[<<g, x>>] = body[<<f, x>>]
      BY <1>0, <2>1, <2>2, <3>1
    <3>3. QED
      BY <2>3, <3>2
  <2>6. QED
    BY <2>2, <2>5
<1>3. \A n \in Nat : n \in Good
  <2> HIDE DEF Good
  <2> QED
    BY <1>1, <1>2, SetInduction
<1>4. b \in Good
  BY <1>0, <1>3
<1>5. PICK f \in [D -> V] : \A x \in D : rank[x] < b => f[x] = body[<<f, x>>]
  BY <1>4
<1> QED
  BY <1>0, <1>5

-----------------------------------------------------------------------------
\* FlattenSeq by what it adds for each sequence.
Flattens(f, s, T) ==
  /\ f \in [0..Len(s) -> Seq(T)]
  /\ f[0] = <<>>
  /\ \A k \in 1..Len(s) : f[k] = f[k - 1] \o s[k]

\* FlattenSeq is the last of the sequences it builds up, one for each element.
LEMMA Flattened ==
  ASSUME NEW T, NEW s \in Seq(Seq(T))
  PROVE  \E f : Flattens(f, s, T) /\ FlattenSeq(s) = f[Len(s)]
<1> DEFINE n == Len(s)
           D == 1..n
           V == Seq(T)
           body == [p \in [D -> V] \X D |->
                      IF p[2] = 1 THEN s[p[2]] ELSE p[1][p[2] - 1] \o s[p[2]]]
           rank == [x \in D |-> x]
<1>1. n \in Nat
  OBVIOUS
<1>2. \A x \in D : s[x] \in V
  OBVIOUS
<1>3. CASE n = 0
  <2>1. s = <<>>
    BY <1>3
  <2>2. FlattenSeq(s) = s
    BY <1>3 DEF FlattenSeq
  <2>3. Flattens([k \in 0..0 |-> <<>>], s, T)
    BY <1>3 DEF Flattens
  <2>4. QED
    BY <1>3, <2>1, <2>2, <2>3
<1>4. CASE n # 0
  <2>1. body \in [[D -> V] \X D -> V]
    <3>1. ASSUME NEW p \in [D -> V] \X D
          PROVE  (IF p[2] = 1 THEN s[p[2]] ELSE p[1][p[2] - 1] \o s[p[2]]) \in V
      <4>1. p[1] \in [D -> V] /\ p[2] \in D
        OBVIOUS
      <4>2. p[2] # 1 => p[2] - 1 \in D
        BY <1>1, <4>1
      <4>3. p[2] # 1 => p[1][p[2] - 1] \in V
        BY <4>1, <4>2
      <4>4. s[p[2]] \in V
        BY <1>2, <4>1
      <4>5. p[2] # 1 => p[1][p[2] - 1] \o s[p[2]] \in V
        BY <4>3, <4>4, ConcatProperties
      <4>6. QED
        BY <4>4, <4>5
    <3>2. QED
      BY <3>1
  <2>2. \A g \in [D -> V], x \in D :
          body[<<g, x>>] = IF x = 1 THEN s[x] ELSE g[x - 1] \o s[x]
    OBVIOUS
  <2>3. rank \in [D -> Nat] /\ \A x \in D : rank[x] = x
    BY <1>1
  <2>4. <<>> \in V
    OBVIOUS
  <2> HIDE DEF body, rank, D, V
  <2>5. ASSUME NEW g \in [D -> V], NEW h \in [D -> V], NEW x \in D,
               \A y \in D : rank[y] < rank[x] => g[y] = h[y]
        PROVE  body[<<g, x>>] = body[<<h, x>>]
    <3>1. CASE x = 1
      BY <2>2, <3>1
    <3>2. CASE x # 1
      <4>1. x \in Int /\ x - 1 \in D /\ x - 1 < x
        BY <1>1, <3>2 DEF D
      <4>2. rank[x] = x /\ rank[x - 1] = x - 1
        BY <2>3, <4>1
      <4>3. g[x - 1] = h[x - 1]
        BY <2>5, <4>1, <4>2
      <4>4. QED
        BY <2>2, <3>2, <4>3
    <3>3. QED
      BY <3>1, <3>2
  <2>6. \A x \in D : rank[x] < n + 1
    BY <1>1, <2>3 DEF D
  <2>7. \E f : Solves(f, D, V, body)
    <3>1. \A g, h \in [D -> V], x \in D :
            (\A y \in D : rank[y] < rank[x] => g[y] = h[y]) => body[<<g, x>>] = body[<<h, x>>]
      BY <2>5
    <3>2. n + 1 \in Nat
      BY <1>1
    <3> HIDE DEF n
    <3>3. Recursive(D, V, rank, body, n + 1)
      BY <2>1, <2>3, <2>4, <2>6, <3>1, <3>2 DEF Recursive
    <3>4. QED
      BY <3>3, Recursion
  <2>8. PICK g \in [D -> V] : \A x \in D : g[x] = body[<<g, x>>]
    BY <2>7 DEF Solves
  <2>9. g = [i \in 1..Len(s) |-> IF i = 1 THEN s[i] ELSE g[i - 1] \o s[i]]
    BY <2>2, <2>8 DEF D
  <2> DEFINE F == CHOOSE h : h = [i \in 1..Len(s) |-> IF i = 1 THEN s[i] ELSE h[i - 1] \o s[i]]
  <2>10. FlattenSeq(s) = F[Len(s)]
    BY <1>4, Zenon DEF FlattenSeq
  <2>11. F = [i \in 1..Len(s) |-> IF i = 1 THEN s[i] ELSE F[i - 1] \o s[i]]
    BY <2>9
  <2> HIDE DEF F
  <2> DEFINE f == [k \in 0..n |-> IF k = 0 THEN <<>> ELSE F[k]]
  <2>12. \A k \in 1..n : F[k] = IF k = 1 THEN s[k] ELSE F[k - 1] \o s[k]
    BY <2>11
  <2>13. \A k \in 1..n : F[k] \in V
    <3> DEFINE P == {m \in Nat : m + 1 \in 1..n => F[m + 1] \in V}
    <3>1. 0 \in P
      <4>1. 0 + 1 = 1 /\ 1 \in 1..n
        BY <1>1, <1>4
      <4>2. F[1] = s[1]
        BY <2>12, <4>1
      <4>3. s[1] \in V
        BY <1>2, <4>1 DEF D
      <4>4. QED
        BY <4>1, <4>2, <4>3
    <3>2. ASSUME NEW m \in Nat, m \in P PROVE m + 1 \in P
      <4>1. SUFFICES ASSUME (m + 1) + 1 \in 1..n PROVE F[(m + 1) + 1] \in V
        OBVIOUS
      <4>2. m + 1 \in 1..n
        BY <1>1, <4>1
      <4>3. F[m + 1] \in V
        BY <3>2, <4>2
      <4>4. F[(m + 1) + 1] = F[m + 1] \o s[(m + 1) + 1]
        <5>1. ((m + 1) + 1) - 1 = m + 1 /\ (m + 1) + 1 # 1
          OBVIOUS
        <5>2. QED
          BY <2>12, <4>1, <5>1
      <4>5. s[(m + 1) + 1] \in V
        BY <1>2, <4>1 DEF D
      <4>6. QED
        BY <4>3, <4>4, <4>5, ConcatProperties DEF V
    <3>3. \A m \in Nat : m \in P
      <4> HIDE DEF P
      <4> QED BY <3>1, <3>2, SetInduction
    <3>4. ASSUME NEW k \in 1..n PROVE F[k] \in V
      <4>1. k - 1 \in Nat /\ (k - 1) + 1 = k
        BY <1>1
      <4>2. k - 1 \in P
        BY <3>3, <4>1
      <4>3. QED
        BY <4>1, <4>2
    <3>5. QED
      BY <3>4
  <2>14. f \in [0..n -> V]
    BY <1>1, <2>4, <2>13
  <2>15. f[0] = <<>>
    BY <1>1
  <2>16. ASSUME NEW k \in 1..n PROVE f[k] = f[k - 1] \o s[k]
    <3>1. f[k] = F[k] /\ k \in Nat
      BY <1>1
    <3>2. CASE k = 1
      <4>1. f[k - 1] = <<>>
        BY <2>15, <3>2
      <4>2. s[k] \in Seq(T)
        BY <1>2 DEF D, V
      <4>3. <<>> \o s[k] = s[k]
        BY <4>2, ConcatEmptySeq
      <4>4. QED
        BY <2>12, <3>1, <3>2, <4>1, <4>3
    <3>3. CASE k # 1
      <4>1. f[k - 1] = F[k - 1]
        BY <1>1, <3>3
      <4>2. QED
        BY <2>12, <3>1, <3>3, <4>1
    <3>4. QED
      BY <3>2, <3>3
  <2>17. f[n] = F[n]
    BY <1>1, <1>4
  <2>18. Flattens(f, s, T)
    <3> HIDE DEF f
    <3> QED BY <2>14, <2>15, <2>16 DEF Flattens, V
  <2>19. QED
    BY <2>10, <2>17, <2>18
<1>5. QED
  BY <1>3, <1>4

-----------------------------------------------------------------------------
\* What a search for the first or the last one finds.

\* SelectInSeq finds the first place that has x, or 0.
LEMMA SelectFirst ==
  ASSUME NEW T, NEW s \in Seq(T), NEW x
  PROVE  LET k == SelectInSeq(s, LAMBDA y : y = x)
         IN  /\ k \in 0..Len(s) /\ (k = 0 <=> ~Has(s, x))
             /\ k # 0 => s[k] = x /\ \A i \in 1..(k - 1) : s[i] # x
<1> DEFINE I == {i \in 1..Len(s) : s[i] = x}
<1>1. SelectInSeq(s, LAMBDA y : y = x) = IF I # {} THEN Min(I) ELSE 0
  BY DEF SelectInSeq
<1>2. Has(s, x) <=> I # {}
  BY DEF Has, Range
<1>3. I \in SUBSET Nat
  OBVIOUS
<1>4. I # {} => Min(I) \in I /\ \A y \in I : Min(I) <= y
  <2> HIDE DEF I
  <2> QED BY <1>3, MinInSet
<1>5. Len(s) \in Nat
  OBVIOUS
<1> DEFINE k == SelectInSeq(s, LAMBDA y : y = x)
<1>6. k = IF I # {} THEN Min(I) ELSE 0
  BY <1>1
<1>7. I = {} => k = 0
  BY <1>6
<1>8. I # {} => k \in I /\ \A y \in I : k <= y
  BY <1>4, <1>6
<1> HIDE DEF k
<1>9. k \in 0..Len(s) /\ (k = 0 <=> ~Has(s, x))
  BY <1>2, <1>5, <1>7, <1>8
<1>10. k # 0 => s[k] = x /\ \A i \in 1..(k - 1) : s[i] # x
  BY <1>5, <1>7, <1>8
<1>11. QED
  BY <1>9, <1>10 DEF k

\* The search for x, without its lambda expression.
First(s, x) == SelectInSeq(s, LAMBDA y : y = x)

\* The same with the search as an operator of its own.
LEMMA FirstIs ==
  ASSUME NEW T, NEW s \in Seq(T), NEW x
  PROVE  /\ First(s, x) \in 0..Len(s) /\ (First(s, x) = 0 <=> ~Has(s, x))
         /\ First(s, x) # 0 => s[First(s, x)] = x /\ \A i \in 1..(First(s, x) - 1) : s[i] # x
BY SelectFirst DEF First

\* Before(s, x) is what stands in front of the first x, all of s if there is none.
LEMMA BeforeIs ==
  ASSUME NEW T, NEW s \in Seq(T), NEW x
  PROVE  /\ Before(s, x) \in Seq(T) /\ Len(Before(s, x)) <= Len(s)
         /\ \A i \in 1..Len(Before(s, x)) : Before(s, x)[i] = s[i] /\ s[i] # x
         /\ ~Has(s, x) => Before(s, x) = s
         /\ Has(s, x) => Len(Before(s, x)) < Len(s) /\ s[Len(Before(s, x)) + 1] = x
<1> DEFINE k == SelectInSeq(s, LAMBDA y : y = x)
<1>1. /\ k \in 0..Len(s) /\ (k = 0 <=> ~Has(s, x))
      /\ k # 0 => s[k] = x /\ \A i \in 1..(k - 1) : s[i] # x
  BY SelectFirst
<1>2. Before(s, x) = IF Has(s, x) THEN SubSeq(s, 1, k - 1) ELSE s
  BY DEF Before
<1> HIDE DEF k
<1>3. Len(s) \in Nat
  OBVIOUS
<1>4. CASE ~Has(s, x)
  <2>1. Before(s, x) = s
    BY <1>2, <1>4
  <2>2. \A i \in 1..Len(s) : s[i] # x
    BY <1>4 DEF Has, Range
  <2>3. QED
    BY <1>3, <1>4, <2>1, <2>2
<1>5. CASE Has(s, x)
  <2>1. k \in 1..Len(s)
    BY <1>1, <1>5
  <2>2. Before(s, x) = SubSeq(s, 1, k - 1)
    BY <1>2, <1>5
  <2>3. \A i \in 1..(k - 1) : s[i] \in T
    BY <1>3, <2>1
  <2>4. /\ SubSeq(s, 1, k - 1) \in Seq(T) /\ Len(SubSeq(s, 1, k - 1)) = k - 1
        /\ \A i \in 1..(k - 1) : SubSeq(s, 1, k - 1)[i] = s[i]
    BY <1>3, <2>1, <2>3, SubSeqProperties
  <2>5. QED
    BY <1>1, <1>3, <1>5, <2>1, <2>2, <2>4
<1>6. QED
  BY <1>4, <1>5

\* Behind(s, x) is what stands behind the first x.
LEMMA BehindIs ==
  ASSUME NEW T, NEW s \in Seq(T), NEW x
  PROVE  /\ Behind(s, x) \in Seq(T)
         /\ Has(s, x) =>
              /\ Len(Behind(s, x)) = Len(s) - (Len(Before(s, x)) + 1)
              /\ \A i \in 1..Len(Behind(s, x)) :
                   Behind(s, x)[i] = s[Len(Before(s, x)) + 1 + i]
<1> DEFINE b == Len(Before(s, x))
<1>1. b \in Nat /\ b <= Len(s) /\ (Has(s, x) => b < Len(s))
  BY BeforeIs
<1>2. Behind(s, x) = SubSeq(s, b + 2, Len(s))
  BY DEF Behind
<1> HIDE DEF b
<1>3. Len(s) \in Nat /\ \A i \in (b + 2)..Len(s) : s[i] \in T
  BY <1>1
<1>4. /\ SubSeq(s, b + 2, Len(s)) \in Seq(T)
      /\ Len(SubSeq(s, b + 2, Len(s))) = IF b + 2 <= Len(s) THEN Len(s) - (b + 2) + 1 ELSE 0
      /\ \A i \in 1..(Len(s) - (b + 2) + 1) : SubSeq(s, b + 2, Len(s))[i] = s[(b + 2) + i - 1]
  BY <1>1, <1>3, SubSeqProperties
<1>5. Has(s, x) => Len(Behind(s, x)) = Len(s) - (b + 1)
  BY <1>1, <1>2, <1>3, <1>4
<1>6. ASSUME Has(s, x), NEW i \in 1..Len(Behind(s, x)) PROVE Behind(s, x)[i] = s[b + 1 + i]
  <2>1. i \in 1..(Len(s) - (b + 2) + 1)
    BY <1>1, <1>3, <1>5, <1>6
  <2>2. (b + 2) + i - 1 = b + 1 + i
    BY <1>1, <2>1
  <2>3. QED
    BY <1>2, <1>4, <2>1, <2>2
<1>7. QED
  BY <1>2, <1>4, <1>5, <1>6 DEF b

-----------------------------------------------------------------------------
\* What FlattenSeq keeps.

\* Flattening sequences over T gives a sequence over T.
LEMMA FlattenType ==
  ASSUME NEW T, NEW s \in Seq(Seq(T))
  PROVE  FlattenSeq(s) \in Seq(T)
<1>1. PICK f : Flattens(f, s, T) /\ FlattenSeq(s) = f[Len(s)]
  BY Flattened
<1>2. Len(s) \in 0..Len(s)
  OBVIOUS
<1>3. QED
  BY <1>1, <1>2 DEF Flattens

\* The elements of the first n sequences, and no others, are in the first part.
Elements(s, n) == UNION {Range(s[i]) : i \in 1..n}

\* What is in the first n sequences is in what they are flattened to, and no more.
LEMMA FlattenParts ==
  ASSUME NEW T, NEW s \in Seq(Seq(T)), NEW f, Flattens(f, s, T), NEW n \in 0..Len(s)
  PROVE  Range(f[n]) = Elements(s, n)
<1>0. Len(s) \in Nat /\ \A k \in 1..Len(s) : s[k] \in Seq(T)
  OBVIOUS
<1>1. /\ f \in [0..Len(s) -> Seq(T)] /\ f[0] = <<>>
      /\ \A k \in 1..Len(s) : f[k] = f[k - 1] \o s[k]
  BY DEF Flattens
<1> DEFINE P == {k \in Nat : k \in 0..Len(s) => Range(f[k]) = UNION {Range(s[i]) : i \in 1..k}}
<1>2. 0 \in P
  <2>1. Range(<<>>) = {}
    BY DEF Range
  <2>2. UNION {Range(s[i]) : i \in 1..0} = {}
    OBVIOUS
  <2>3. QED
    BY <1>1, <2>1, <2>2
<1>3. ASSUME NEW k \in Nat, k \in P PROVE k + 1 \in P
  <2>1. SUFFICES ASSUME k + 1 \in 0..Len(s)
                 PROVE  Range(f[k + 1]) = UNION {Range(s[i]) : i \in 1..(k + 1)}
    OBVIOUS
  <2>2. k \in 0..Len(s) /\ k + 1 \in 1..Len(s) /\ (k + 1) - 1 = k
    BY <1>0, <2>1
  <2>3. Range(f[k]) = UNION {Range(s[i]) : i \in 1..k}
    BY <1>3, <2>2
  <2>4. f[k + 1] = f[k] \o s[k + 1]
    BY <1>1, <2>2
  <2>5. f[k] \in Seq(T) /\ s[k + 1] \in Seq(T)
    BY <1>0, <1>1, <2>2
  <2>6. Range(f[k + 1]) = Range(f[k]) \cup Range(s[k + 1])
    BY <2>4, <2>5, RangeConcatenation
  <2>7. 1..(k + 1) = 1..k \cup {k + 1}
    <3>0. k \in Nat
      BY <1>3
    <3>1. ASSUME NEW i \in 1..(k + 1) PROVE i \in 1..k \cup {k + 1}
      BY <3>0
    <3>2. ASSUME NEW i \in 1..k \cup {k + 1} PROVE i \in 1..(k + 1)
      BY <3>0
    <3>3. QED
      BY <3>1, <3>2
  <2>8. QED
    BY <2>3, <2>6, <2>7
<1>4. \A k \in Nat : k \in P
  <2> HIDE DEF P
  <2> QED BY <1>2, <1>3, SetInduction
<1>5. n \in Nat
  BY <1>0
<1>6. n \in P
  BY <1>4, <1>5
<1>7. QED
  BY <1>6 DEF Elements

\* The same for all of them.
LEMMA FlattenRange ==
  ASSUME NEW T, NEW s \in Seq(Seq(T))
  PROVE  Range(FlattenSeq(s)) = UNION {Range(s[i]) : i \in DOMAIN s}
<1>1. PICK f : Flattens(f, s, T) /\ FlattenSeq(s) = f[Len(s)]
  BY Flattened
<1>2. Len(s) \in 0..Len(s) /\ DOMAIN s = 1..Len(s)
  OBVIOUS
<1>3. Range(f[Len(s)]) = UNION {Range(s[i]) : i \in 1..Len(s)}
  <2>1. Flattens(f, s, T)
    BY <1>1
  <2> DEFINE n == Len(s)
  <2>2. n \in 0..Len(s)
    BY <1>2
  <2> HIDE DEF n
  <2>3. Range(f[n]) = Elements(s, n)
    BY <2>1, <2>2, FlattenParts
  <2>4. QED
    BY <2>3 DEF n, Elements
<1>4. QED
  BY <1>1, <1>2, <1>3

-----------------------------------------------------------------------------
\* Types: symbols, tokens and paths.

\* The strings, and the special symbols by name; words and blanks; paths of directories;
\* names, which have no slash.
Symbol == STRING \cup {"/", "*", "$", "?", " ", ".", "->"}
Token == DOMAIN Word \cup {SP}
PathType == {p \in Seq(Symbol) : p # <<>> /\ Head(p) = "/" /\ Last(p) = "/"}
Slashless == {n \in Seq(Symbol) : "/" \notin Range(n)}

\* Which symbols there are for certain: the special ones and all strings.
LEMMA Symbols ==
  /\ {"/", "*", "$", "?", " ", ".", "->", SP, Blank} \subseteq Symbol
  /\ Seq(STRING) \subseteq Seq(Symbol) /\ Seq(Seq(STRING)) \subseteq Seq(Seq(Symbol))
<1>1. STRING \subseteq Symbol
  BY DEF Symbol
<1>2. Seq(STRING) \subseteq Seq(Symbol)
  BY <1>1, SeqMonotonic
<1>3. Seq(Seq(STRING)) \subseteq Seq(Seq(Symbol))
  BY <1>2, SeqMonotonic
<1>4. QED
  BY <1>2, <1>3 DEF Symbol, SP, Blank

\* A part of a sequence, element by element.
LEMMA Slices ==
  ASSUME NEW T, NEW s \in Seq(T), NEW m \in 1..(Len(s) + 1), NEW n \in 0..Len(s)
  PROVE  /\ SubSeq(s, m, n) \in Seq(T)
         /\ Len(SubSeq(s, m, n)) = IF m <= n THEN n - m + 1 ELSE 0
         /\ \A i \in 1..(n - m + 1) : SubSeq(s, m, n)[i] = s[m + i - 1]
<1>1. Len(s) \in Nat
  OBVIOUS
<1>2. m \in Int /\ n \in Int
  BY <1>1
<1>3. \A i \in m..n : s[i] \in T
  BY <1>1, <1>2
<1>4. QED
  BY <1>2, <1>3, SubSeqProperties

\* The text of a word is made of symbols.
LEMMA SymbolsOfWords ==
  ASSUME NEW token \in Token
  PROVE  Text(token) \in Seq(Symbol)
<1>1. CASE token = SP
  <2>1. SP \in Symbol
    BY Symbols
  <2>2. <<SP>> \in Seq(Symbol)
    BY <2>1
  <2>3. QED
    BY <1>1, <2>2 DEF Text
<1>2. CASE token # SP
  <2>1. token \in DOMAIN Word
    BY <1>2 DEF Token
  <2>2. Word[token].text \in Seq(STRING)
    BY <2>1, CrawlAssumption DEF CrawlAssumption
  <2>3. QED
    BY <1>2, <2>2, Symbols DEF Text
<1>3. QED
  BY <1>1, <1>2

\* So is the text of several words.
LEMMA JoinedType ==
  ASSUME NEW tokens \in Seq(Token)
  PROVE  Joined(tokens) \in Seq(Symbol)
<1> DEFINE parts == [i \in DOMAIN tokens |-> Text(tokens[i])]
<1>1. DOMAIN tokens = 1..Len(tokens) /\ Len(tokens) \in Nat
  OBVIOUS
<1>2. \A i \in 1..Len(tokens) : Text(tokens[i]) \in Seq(Symbol)
  BY SymbolsOfWords
<1>3. parts \in Seq(Seq(Symbol))
  BY <1>1, <1>2
<1>4. Joined(tokens) = FlattenSeq(parts)
  BY DEF Joined
<1> HIDE DEF parts
<1>5. QED
  BY <1>3, <1>4, FlattenType

\* Leaving an element out makes no new ones.
LEMMA WithoutType ==
  ASSUME NEW T, NEW s \in Seq(T), NEW x
  PROVE  Without(s, x) \in Seq(T)
<1> DEFINE parts == [i \in DOMAIN s |-> IF s[i] = x THEN <<>> ELSE <<s[i]>>]
<1>1. DOMAIN s = 1..Len(s) /\ Len(s) \in Nat
  OBVIOUS
<1>2. \A i \in 1..Len(s) : (IF s[i] = x THEN <<>> ELSE <<s[i]>>) \in Seq(T)
  OBVIOUS
<1>3. parts \in Seq(Seq(T))
  BY <1>1, <1>2
<1>4. Without(s, x) = FlattenSeq(parts)
  BY DEF Without
<1> HIDE DEF parts
<1>5. QED
  BY <1>3, <1>4, FlattenType

\* Where Trimmed cuts: behind the last symbol that is not a blank.
LEMMA TrimmedIs ==
  ASSUME NEW s \in Seq(Symbol)
  PROVE  \E e \in 0..Len(s) :
           /\ Trimmed(s) = SubSeq(s, 1, e) /\ Trimmed(s) \in Seq(Symbol) /\ Len(Trimmed(s)) = e
           /\ \A i \in 1..e : Trimmed(s)[i] = s[i]
           /\ e # 0 => s[e] # SP
           /\ \A i \in (e + 1)..Len(s) : s[i] = SP
<1> DEFINE solid == {i \in DOMAIN s : s[i] # SP}
           e == IF solid = {} THEN 0 ELSE Max(solid)
<1>1. Len(s) \in Nat /\ DOMAIN s = 1..Len(s)
  OBVIOUS
<1>2. Trimmed(s) = SubSeq(s, 1, e)
  BY DEF Trimmed
<1>3. solid # {} => Max(solid) \in solid /\ \A y \in solid : y <= Max(solid)
  <2>1. solid \in SUBSET Nat /\ \A y \in solid : y <= Len(s)
    BY <1>1
  <2> HIDE DEF solid
  <2>2. QED
    BY <1>1, <2>1, MaxInSet
<1>4. e \in 0..Len(s) /\ (e # 0 => s[e] # SP) /\ \A i \in (e + 1)..Len(s) : s[i] = SP
  <2>1. CASE solid = {}
    BY <1>1, <2>1
  <2>2. CASE solid # {}
    <3>1. e \in solid /\ \A y \in solid : y <= e
      BY <1>3, <2>2
    <3> HIDE DEF e
    <3>2. QED
      BY <1>1, <3>1
  <2>3. QED
    BY <2>1, <2>2
<1> HIDE DEF e
<1>5. /\ SubSeq(s, 1, e) \in Seq(Symbol)
      /\ Len(SubSeq(s, 1, e)) = e
      /\ \A i \in 1..e : SubSeq(s, 1, e)[i] = s[i]
  <2>1. 1 \in 1..(Len(s) + 1) /\ e - 1 + 1 = e
    BY <1>1, <1>4
  <2>2. \A i \in 1..e : 1 + i - 1 = i
    BY <1>4
  <2>3. QED
    BY <1>1, <1>4, <2>1, <2>2, Slices
<1>6. QED
  BY <1>2, <1>4, <1>5

\* What is enqueued is the directory with a slash at its end, or nothing if it is one
\* that is_useful_dir leaves out.
LEMMA EnqueuedIs ==
  ASSUME NEW dir \in PathType, NEW name \in Seq(Symbol)
  PROVE  LET path == dir \o name
             full == IF Last(path) = "/" THEN path ELSE Append(path, "/")
         IN  /\ full \in PathType
             /\ Enqueued(dir, name) = IF full \in Useless THEN <<>> ELSE <<full>>
<1> DEFINE path == dir \o name
           full == IF Last(path) = "/" THEN path ELSE Append(path, "/")
<1>1. dir \in Seq(Symbol) /\ dir # <<>> /\ Head(dir) = "/"
  BY DEF PathType
<1>2. Len(dir) \in Nat /\ Len(dir) # 0 /\ dir[1] = "/"
  BY <1>1
<1>3. /\ path \in Seq(Symbol) /\ Len(path) = Len(dir) + Len(name)
      /\ path[1] = dir[1]
  BY <1>1, <1>2, ConcatProperties
<1>4. Len(path) \in Nat /\ Len(path) # 0
  BY <1>2, <1>3
<1> HIDE DEF path
<1>5. CASE Last(path) = "/"
  <2>1. full = path /\ path # <<>> /\ Head(path) = "/"
    BY <1>2, <1>3, <1>4, <1>5
  <2>2. QED
    BY <1>3, <1>5, <2>1 DEF PathType, Enqueued, is_useful_dir, path
<1>6. CASE Last(path) # "/"
  <2>1. full = Append(path, "/")
    BY <1>6
  <2>2. /\ Append(path, "/") \in Seq(Symbol) /\ Append(path, "/") # <<>>
        /\ Len(Append(path, "/")) = Len(path) + 1
        /\ Append(path, "/")[Len(path) + 1] = "/" /\ Append(path, "/")[1] = path[1]
    <3>1. "/" \in Symbol
      BY Symbols
    <3>2. 1 \in 1..Len(path)
      BY <1>4
    <3>3. QED
      BY <1>3, <3>1, <3>2, AppendProperties
  <2>3. full \in PathType
    <3> DEFINE a == Append(path, "/")
    <3> HIDE DEF a
    <3>1. a \in Seq(Symbol) /\ a # <<>> /\ Len(a) = Len(path) + 1 /\ a[Len(path) + 1] = "/"
      BY <2>2 DEF a
    <3>2. Head(a) = "/"
      <4>1. a[1] = "/"
        BY <1>2, <1>3, <2>2 DEF a
      <4>2. QED
        BY <3>1, <4>1
    <3>3. Last(a) = "/"
      BY <3>1 DEF Last
    <3>4. a \in PathType
      BY <3>1, <3>2, <3>3 DEF PathType
    <3>5. QED
      BY <2>1, <3>4 DEF a
  <2>4. QED
    BY <2>3 DEF Enqueued, is_useful_dir, path
<1>7. QED
  BY <1>5, <1>6 DEF path

\* What is enqueued are paths of directories.
LEMMA EnqueuedType ==
  ASSUME NEW dir \in PathType, NEW name \in Seq(Symbol)
  PROVE  Enqueued(dir, name) \in Seq(PathType)
<1> DEFINE path == dir \o name
           full == IF Last(path) = "/" THEN path ELSE Append(path, "/")
<1>1. full \in PathType /\ Enqueued(dir, name) = IF full \in Useless THEN <<>> ELSE <<full>>
  BY EnqueuedIs
<1> HIDE DEF full
<1>2. QED
  BY <1>1

-----------------------------------------------------------------------------
\* The words of a line.

\* n is the place of the next word from at on, 0 if there is none.
NextWord(line, at, n) ==
  \/ n = 0 /\ \A i \in at..Len(line) : line[i] = SP
  \/ n \in at..Len(line) /\ line[n] # SP /\ \A i \in at..(n - 1) : line[i] = SP

\* token_queue_iter_next_string finds the next word, 0 if there is none.
LEMMA NextIs ==
  ASSUME NEW line \in Seq(Token), NEW at \in Nat \ {0}
  PROVE  next_string(line, at) \in 0..Len(line) /\ NextWord(line, at, next_string(line, at))
<1> DEFINE words == {i \in at..Len(line) : line[i] # SP}
           n == next_string(line, at)
<1>1. n = IF words = {} THEN 0 ELSE Min(words)
  BY DEF next_string
<1>2. Len(line) \in Nat
  OBVIOUS
<1>3. words # {} => Min(words) \in words /\ \A y \in words : Min(words) <= y
  <2>1. words \in SUBSET Nat
    BY <1>2
  <2> HIDE DEF words
  <2>2. QED
    BY <2>1, MinInSet
<1>4. CASE words = {}
  <2>1. n = 0
    BY <1>1, <1>4
  <2>2. \A i \in at..Len(line) : line[i] = SP
    BY <1>4
  <2> HIDE DEF n
  <2>3. QED
    BY <1>2, <2>1, <2>2 DEF NextWord, n
<1>5. CASE words # {}
  <2>1. n \in words /\ \A y \in words : n <= y
    BY <1>1, <1>3, <1>5
  <2> HIDE DEF n
  <2>2. n \in at..Len(line) /\ line[n] # SP
    BY <2>1
  <2>3. ASSUME NEW i \in at..(n - 1) PROVE line[i] = SP
    <3>1. i \in at..Len(line) /\ ~(n <= i)
      BY <1>2, <2>2
    <3>2. QED
      BY <2>1, <3>1
  <2>4. n \in 0..Len(line)
    BY <1>2, <2>2
  <2>5. QED
    BY <2>2, <2>3, <2>4 DEF NextWord, n
<1>6. QED
  BY <1>4, <1>5

\* There is only one next word.
LEMMA NextIsOne ==
  ASSUME NEW line \in Seq(Token), NEW at \in Nat \ {0}, NEW m \in Nat, NEW n \in Nat,
         NextWord(line, at, m), NextWord(line, at, n)
  PROVE  m = n
<1>1. Len(line) \in Nat
  OBVIOUS
<1>2. ASSUME NEW i \in Nat, NEW j \in Nat, NextWord(line, at, i), NextWord(line, at, j)
      PROVE ~(i < j)
  <2>1. SUFFICES ASSUME i < j PROVE FALSE
    OBVIOUS
  <2>2. j # 0 /\ j \in at..Len(line) /\ line[j] # SP /\ \A k \in at..(j - 1) : line[k] = SP
    BY <1>2, <2>1 DEF NextWord
  <2>3. i # 0
    <3>1. SUFFICES ASSUME i = 0 PROVE FALSE
      OBVIOUS
    <3>2. \A k \in at..Len(line) : line[k] = SP
      BY <1>2, <3>1 DEF NextWord
    <3>3. QED
      BY <2>2, <3>2
  <2>4. i \in at..(j - 1) /\ line[i] # SP
    BY <1>1, <1>2, <2>1, <2>2, <2>3 DEF NextWord
  <2>5. QED
    BY <2>2, <2>4
<1>3. ~(m < n) /\ ~(n < m)
  BY <1>2
<1>4. QED
  BY <1>3

\* The word that follows i is the one it finds behind i ...
LEMMA NextFollows ==
  ASSUME NEW line \in Seq(Token), NEW i \in Nat, NEW j \in DOMAIN line, Follows(line, i, j)
  PROVE  next_string(line, i + 1) = j
<1>1. Len(line) \in Nat /\ j \in 1..Len(line) /\ j \in Nat /\ i + 1 \in Nat \ {0}
  OBVIOUS
<1>2. NextWord(line, i + 1, j)
  BY <1>1 DEF Follows, NextWord
<1>3. next_string(line, i + 1) \in Nat /\ NextWord(line, i + 1, next_string(line, i + 1))
  BY <1>1, NextIs
<1>4. QED
  BY <1>1, <1>2, <1>3, NextIsOne

\* ... what it finds behind i follows i ...
LEMMA FollowsNext ==
  ASSUME NEW line \in Seq(Token), NEW i \in Nat, next_string(line, i + 1) # 0
  PROVE  /\ next_string(line, i + 1) \in DOMAIN line
         /\ Follows(line, i, next_string(line, i + 1))
<1> DEFINE n == next_string(line, i + 1)
<1>1. Len(line) \in Nat /\ i + 1 \in Nat \ {0}
  OBVIOUS
<1>2. n \in 0..Len(line) /\ NextWord(line, i + 1, n)
  BY <1>1, NextIs
<1>3. n # 0
  OBVIOUS
<1> HIDE DEF n
<1>4. n \in DOMAIN line /\ Follows(line, i, n)
  BY <1>1, <1>2, <1>3 DEF NextWord, Follows
<1>5. QED
  BY <1>4 DEF n

\* ... and it finds none exactly behind the last word.
LEMMA NoneNext ==
  ASSUME NEW line \in Seq(Token), NEW i \in Nat
  PROVE  next_string(line, i + 1) = 0 <=> IsLast(line, i)
<1> DEFINE n == next_string(line, i + 1)
<1>1. Len(line) \in Nat /\ i + 1 \in Nat \ {0}
  OBVIOUS
<1>2. n \in 0..Len(line) /\ NextWord(line, i + 1, n)
  BY <1>1, NextIs
<1> HIDE DEF n
<1>3. n = 0 <=> IsLast(line, i)
  BY <1>1, <1>2 DEF NextWord, IsLast
<1>4. QED
  BY <1>3 DEF n

-----------------------------------------------------------------------------
\* The search for a date, by the equation it solves.

\* What a search may end with; where it may be.
Results == {<<>>} \cup {<<name>> : name \in Seq(Symbol)}
Places(line) == 1..(Len(line) + 1)

\* The words a search looks at: one, two, and what should be the year or the time.  It
\* breaks off at the end of the line; a date is whole if all its words are right.
One(line, at) == next_string(line, at)
Two(line, at) == next_string(line, One(line, at) + 1)
Year(line, format, at) ==
  IF WithDay(format) THEN next_string(line, Two(line, at) + 1) ELSE Two(line, at)
HasMonth(line, format, at) == Month(format, line[One(line, at)])
HasDay(line, format, at) == WithDay(format) => is_day(line[Two(line, at)])
Breaks(line, format, at) ==
  \/ One(line, at) = 0
  \/ /\ HasMonth(line, format, at)
     /\ Two(line, at) = 0 \/ (HasDay(line, format, at) /\ Year(line, format, at) = 0)
Whole(line, format, at) ==
  /\ HasMonth(line, format, at) /\ HasDay(line, format, at)
  /\ is_year_time(line[Year(line, format, at)])

\* What is found from at on, by what is found from a later place on.
Scanned(line, format, scan, at) ==
  IF at > Len(line) THEN <<>>
  ELSE IF Breaks(line, format, at) THEN <<<<>>>>
  ELSE IF Whole(line, format, at) THEN <<NameAt(line, Year(line, format, at) + 1)>>
  ELSE scan[One(line, at) + 1]

\* scan is the function that search defines.
Scans(scan, line, format) ==
  /\ scan \in [Places(line) -> Results]
  /\ \A at \in Places(line) : scan[at] = Scanned(line, format, scan, at)

\* No result, and an empty name, are results of a search.
LEMMA ResultsAre ==
  <<>> \in Results /\ <<<<>>>> \in Results
<1>1. <<>> \in Seq(Symbol)
  OBVIOUS
<1>2. QED
  BY <1>1 DEF Results

\* The name behind a date is made of symbols.
LEMMA NameAtType ==
  ASSUME NEW line \in Seq(Token), NEW at \in Nat \ {0}
  PROVE  NameAt(line, at) \in Seq(Symbol)
<1> DEFINE n == next_string(line, at)
<1>1. n \in 0..Len(line) /\ Len(line) \in Nat
  BY NextIs
<1>2. NameAt(line, at) = IF n = 0 THEN <<>> ELSE Joined(SubSeq(line, n, Len(line)))
  BY DEF NameAt
<1> HIDE DEF n
<1>3. ASSUME n # 0 PROVE Joined(SubSeq(line, n, Len(line))) \in Seq(Symbol)
  <2>1. n \in 1..(Len(line) + 1) /\ Len(line) \in 0..Len(line)
    BY <1>1, <1>3
  <2>2. SubSeq(line, n, Len(line)) \in Seq(Token)
    BY <2>1, Slices
  <2>3. QED
    BY <2>2, JoinedType
<1>4. <<>> \in Seq(Symbol)
  OBVIOUS
<1>5. QED
  BY <1>2, <1>3, <1>4

\* The words a search looks at are words of the line, or 0.
LEMMA WordsScanned ==
  ASSUME NEW line \in Seq(Token), NEW format, NEW at \in Places(line)
  PROVE  /\ One(line, at) \in 0..Len(line) /\ NextWord(line, at, One(line, at))
         /\ Two(line, at) \in 0..Len(line)
         /\ Year(line, format, at) \in 0..Len(line)
<1>1. at \in Nat \ {0}
  BY DEF Places
<1>2. One(line, at) \in 0..Len(line) /\ NextWord(line, at, One(line, at))
  BY <1>1, NextIs DEF One
<1>3. One(line, at) + 1 \in Nat \ {0}
  BY <1>2
<1>4. Two(line, at) \in 0..Len(line)
  BY <1>3, NextIs DEF Two
<1>5. Two(line, at) + 1 \in Nat \ {0}
  BY <1>4
<1>6. Year(line, format, at) \in 0..Len(line)
  BY <1>4, <1>5, NextIs DEF Year
<1>7. QED
  BY <1>2, <1>4, <1>6

\* The search for a date solves its equation: what is found from a place on is told by
\* the words there, or it is what is found from the next word on.
LEMMA SearchScans ==
  ASSUME NEW line \in Seq(Token), NEW format
  PROVE  \E scan : Scans(scan, line, format) /\ search(line, format) = scan[1]
<1> DEFINE n == Len(line)
           D == Places(line)
           V == Results
           body == [p \in [D -> V] \X D |-> Scanned(line, format, p[1], p[2])]
           rank == [at \in D |-> (n + 1) - at]
<1>1. n \in Nat /\ D = 1..(n + 1)
  BY DEF Places
<1>2. \A g \in [D -> V], at \in D : body[<<g, at>>] = Scanned(line, format, g, at)
  OBVIOUS
<1>3. ASSUME NEW g \in [D -> V], NEW at \in D PROVE Scanned(line, format, g, at) \in V
  <2>1. <<>> \in V /\ <<<<>>>> \in V
    BY ResultsAre
  <2>2. Year(line, format, at) + 1 \in Nat \ {0}
    BY <1>1, WordsScanned
  <2>3. <<NameAt(line, Year(line, format, at) + 1)>> \in V
    BY <2>2, NameAtType DEF Results
  <2>4. One(line, at) + 1 \in D
    <3>1. One(line, at) \in 0..n
      BY WordsScanned
    <3>2. QED
      BY <1>1, <3>1
  <2>5. g[One(line, at) + 1] \in V
    BY <2>4
  <2> HIDE DEF V
  <2>6. QED
    BY <2>1, <2>3, <2>5 DEF Scanned
<1>4. body \in [[D -> V] \X D -> V]
  <2>1. ASSUME NEW p \in [D -> V] \X D PROVE Scanned(line, format, p[1], p[2]) \in V
    <3>1. p[1] \in [D -> V] /\ p[2] \in D
      OBVIOUS
    <3>2. QED
      BY <1>3, <3>1
  <2>2. QED
    BY <2>1
<1>5. rank \in [D -> Nat] /\ \A at \in D : rank[at] = (n + 1) - at /\ rank[at] < n + 1
  BY <1>1
<1>6. V # {} /\ n + 1 \in Nat
  BY <1>1 DEF Results
<1> HIDE DEF body, rank, V
<1>7. ASSUME NEW g \in [D -> V], NEW h \in [D -> V], NEW at \in D,
             \A y \in D : rank[y] < rank[at] => g[y] = h[y]
      PROVE  body[<<g, at>>] = body[<<h, at>>]
  <2>1. CASE at > n \/ One(line, at) = 0
    BY <1>2, <2>1 DEF Scanned, Breaks
  <2>2. CASE at <= n /\ One(line, at) # 0
    <3> DEFINE o == One(line, at)
    <3>1. o \in at..n
      BY <2>2, WordsScanned DEF NextWord
    <3> HIDE DEF o
    <3>2. o + 1 \in D /\ (n + 1) - (o + 1) < (n + 1) - at
      BY <1>1, <3>1
    <3>3. g[o + 1] = h[o + 1]
      BY <1>5, <1>7, <3>2
    <3>4. QED
      BY <1>2, <3>3 DEF Scanned, o
  <2>3. at \in Int
    BY <1>1
  <2>4. QED
    BY <1>1, <2>1, <2>2, <2>3
<1>8. Recursive(D, V, rank, body, n + 1)
  <2> HIDE DEF D, n
  <2>1. \A g, h \in [D -> V], x \in D :
          (\A y \in D : rank[y] < rank[x] => g[y] = h[y]) => body[<<g, x>>] = body[<<h, x>>]
    BY <1>7
  <2>2. QED
    BY <1>4, <1>5, <1>6, <2>1 DEF Recursive
<1>9. PICK g : Solves(g, D, V, body)
  BY <1>8, Recursion
<1>10. g \in [D -> V] /\ \A at \in D : g[at] = Scanned(line, format, g, at)
  BY <1>2, <1>9 DEF Solves
<1> DEFINE Found(f, at) ==
       LET one == next_string(line, at)
           two == next_string(line, one + 1)
           date == IF WithDay(format) THEN next_string(line, two + 1) ELSE two
           month == Month(format, line[one])
           day == WithDay(format) => is_day(line[two])
       IN  CASE at > Len(line) -> <<>>
             [] at <= Len(line) /\ (one = 0 \/ (month /\ (two = 0 \/ (day /\ date = 0)))) ->
                  <<<<>>>>
             [] OTHER -> IF month /\ day /\ is_year_time(line[date])
                         THEN <<NameAt(line, date + 1)>> ELSE f[one + 1]
           F == CHOOSE f : f = [at \in 1..(Len(line) + 1) |-> Found(f, at)]
<1>11. ASSUME NEW f, NEW at \in D PROVE Found(f, at) = Scanned(line, format, f, at)
  <2>1. at \in Int /\ Len(line) \in Int
    BY <1>1
  <2>2. CASE at > Len(line)
    <3>1. ~(at <= Len(line))
      BY <2>1, <2>2
    <3>2. QED
      BY <2>2, <3>1 DEF Scanned
  <2>3. CASE at <= Len(line)
    <3>1. ~(at > Len(line))
      BY <2>1, <2>3
    <3>2. Breaks(line, format, at) <=>
            LET one == next_string(line, at)
                two == next_string(line, one + 1)
                date == IF WithDay(format) THEN next_string(line, two + 1) ELSE two
                month == Month(format, line[one])
                day == WithDay(format) => is_day(line[two])
            IN  one = 0 \/ (month /\ (two = 0 \/ (day /\ date = 0)))
      BY DEF Breaks, One, Two, Year, HasMonth, HasDay
    <3>3. CASE Breaks(line, format, at)
      BY <2>3, <3>1, <3>2, <3>3 DEF Scanned
    <3>4. CASE ~Breaks(line, format, at)
      <4>1. Found(f, at) =
              LET one == next_string(line, at)
                  two == next_string(line, one + 1)
                  date == IF WithDay(format) THEN next_string(line, two + 1) ELSE two
                  month == Month(format, line[one])
                  day == WithDay(format) => is_day(line[two])
              IN  IF month /\ day /\ is_year_time(line[date])
                  THEN <<NameAt(line, date + 1)>> ELSE f[one + 1]
        BY <3>1, <3>2, <3>4
      <4>2. QED
        BY <3>1, <3>4, <4>1 DEF Scanned, Whole, One, Two, Year, HasMonth, HasDay
    <3>5. QED
      BY <3>3, <3>4
  <2>4. QED
    BY <2>1, <2>2, <2>3
<1>12. search(line, format) = F[1]
  BY Zenon DEF search
<1>13. g = [at \in 1..(Len(line) + 1) |-> Found(g, at)]
  <2> HIDE DEF Found
  <2>1. \A at \in D : g[at] = Found(g, at)
    BY <1>10, <1>11
  <2>2. QED
    BY <1>1, <1>10, <2>1
<1>14. F = [at \in 1..(Len(line) + 1) |-> Found(F, at)]
  <2> HIDE DEF Found
  <2>1. QED
    BY <1>13
<1> HIDE DEF F, Found
<1>15. \A at \in D : F[at] = Scanned(line, format, F, at)
  BY <1>1, <1>11, <1>14
<1>16. \A at \in D : F[at] \in V
  \* from the end of the line to its beginning
  <2> DEFINE P == {m \in Nat : \A at \in D : at >= (n + 1) - m => F[at] \in V}
  <2>1. 0 \in P
    <3>1. ASSUME NEW at \in D, at >= (n + 1) - 0 PROVE F[at] \in V
      <4>1. at > Len(line)
        BY <1>1, <3>1
      <4>2. F[at] = <<>>
        BY <1>15, <4>1 DEF Scanned
      <4>3. QED
        BY <4>2 DEF V, Results
    <3>2. QED
      BY <3>1
  <2>2. ASSUME NEW m \in Nat, m \in P PROVE m + 1 \in P
    <3>1. SUFFICES ASSUME NEW at \in D, at >= (n + 1) - (m + 1) PROVE F[at] \in V
      OBVIOUS
    <3> DEFINE o == One(line, at)
    <3>2. CASE at > Len(line)
      <4>1. F[at] = <<>>
        BY <1>15, <3>2 DEF Scanned
      <4>2. QED
        BY <4>1 DEF V, Results
    <3>3. CASE Breaks(line, format, at)
      <4>1. F[at] = <<>> \/ F[at] = <<<<>>>>
        BY <1>15, <3>3 DEF Scanned
      <4>2. QED
        BY <4>1, ResultsAre DEF V
    <3>4. CASE ~(at > Len(line)) /\ ~Breaks(line, format, at)
      <4>1. Year(line, format, at) + 1 \in Nat \ {0}
        BY <1>1, WordsScanned
      <4>2. <<NameAt(line, Year(line, format, at) + 1)>> \in V
        BY <4>1, NameAtType DEF V, Results
      <4>3. o # 0
        BY <3>4 DEF Breaks
      <4>4. o \in at..n
        BY <4>3, WordsScanned DEF NextWord
      <4> HIDE DEF o
      <4>5. o + 1 \in D /\ o + 1 >= (n + 1) - m
        BY <1>1, <3>1, <4>4
      <4>6. F[o + 1] \in V
        BY <2>2, <4>5
      <4>7. F[at] = <<NameAt(line, Year(line, format, at) + 1)>> \/ F[at] = F[o + 1]
        BY <1>15, <3>4 DEF Scanned, o
      <4>8. QED
        BY <4>2, <4>6, <4>7
    <3>5. QED
      BY <3>2, <3>3, <3>4
  <2>3. \A m \in Nat : m \in P
    <3> HIDE DEF P
    <3> QED BY <2>1, <2>2, SetInduction
  <2>4. ASSUME NEW at \in D PROVE F[at] \in V
    <3>1. n + 1 \in P /\ at >= (n + 1) - (n + 1)
      BY <1>1, <2>3
    <3>2. QED
      BY <3>1
  <2>5. QED
    BY <2>4
<1>17. F \in [D -> V]
  <2>1. DOMAIN F = D
    BY <1>1, <1>14
  <2>2. F = [at \in D |-> F[at]]
    BY <1>1, <1>14
  <2>3. QED
    BY <1>16, <2>2
<1>18. Scans(F, line, format)
  BY <1>15, <1>17 DEF Scans, V
<1>19. QED
  BY <1>12, <1>18

-----------------------------------------------------------------------------
\* What the parsers return, whatever the lines are.

\* The name field is made of symbols, whatever the line is.
LEMMA FieldType ==
  ASSUME NEW line \in Seq(Token)
  PROVE  find_linux_name_field2(line) \in Seq(Symbol)
<1> DEFINE found == [format \in 1..4 |-> search(line, format)]
           ended == {format \in 1..4 : found[format] # <<>>}
<1>1. \A format \in 1..4 : found[format] \in Results
  <2>1. ASSUME NEW format \in 1..4 PROVE search(line, format) \in Results
    <3>1. PICK scan : Scans(scan, line, format) /\ search(line, format) = scan[1]
      BY SearchScans
    <3>2. 1 \in Places(line)
      BY DEF Places
    <3>3. QED
      BY <3>1, <3>2 DEF Scans
  <2>2. QED
    BY <2>1
<1>2. find_linux_name_field2(line) = IF ended = {} THEN <<>> ELSE found[Min(ended)][1]
  BY DEF find_linux_name_field2
<1>3. ended \in SUBSET Nat /\ \A f \in ended : f \in 1..4 /\ found[f] # <<>>
  OBVIOUS
<1>4. <<>> \in Seq(Symbol)
  OBVIOUS
<1> HIDE DEF ended, found
<1>5. ASSUME ended # {} PROVE found[Min(ended)][1] \in Seq(Symbol)
  <2>1. Min(ended) \in ended
    BY <1>3, <1>5, MinInSet
  <2>2. found[Min(ended)] \in Results /\ found[Min(ended)] # <<>>
    BY <1>1, <1>3, <2>1
  <2>3. QED
    BY <2>2 DEF Results
<1>6. QED
  BY <1>2, <1>4, <1>5

\* So is a name without its trailing blanks ...
LEMMA TrimmedType ==
  ASSUME NEW s \in Seq(Symbol)
  PROVE  Trimmed(s) \in Seq(Symbol)
BY TrimmedIs

\* Arrow is the place of the first "->".
LEMMA ArrowIs ==
  ASSUME NEW field \in Seq(Symbol)
  PROVE  /\ Arrow(field) \in 0..Len(field) /\ (Arrow(field) = 0 <=> ~Has(field, "->"))
         /\ Arrow(field) # 0 =>
              field[Arrow(field)] = "->" /\ \A i \in 1..(Arrow(field) - 1) : field[i] # "->"
BY SelectFirst DEF Arrow

\* ... so is the name of a link ...
LEMMA FakeType ==
  ASSUME NEW field \in Seq(Symbol)
  PROVE  Fake(field) \in Seq(Symbol)
<1> DEFINE a == Arrow(field)
<1>1. a \in 0..Len(field) /\ Len(field) \in Nat
  BY ArrowIs
<1>2. Fake(field) = Trimmed(IF a = 0 THEN field ELSE SubSeq(field, 1, a - 1))
  BY DEF Fake
<1> HIDE DEF a
<1>3. a # 0 => SubSeq(field, 1, a - 1) \in Seq(Symbol)
  <2>1. SUFFICES ASSUME a # 0 PROVE SubSeq(field, 1, a - 1) \in Seq(Symbol)
    OBVIOUS
  <2>2. 1 \in 1..(Len(field) + 1) /\ a - 1 \in 0..Len(field)
    BY <1>1, <2>1
  <2>3. QED
    BY <2>2, Slices
<1>4. QED
  BY <1>2, <1>3, TrimmedType

\* ... and so is its target.
LEMMA RealType ==
  ASSUME NEW field \in Seq(Symbol)
  PROVE  Real(field) \in Seq(Symbol)
<1> DEFINE a == Arrow(field)
           behind == IF a = 0 THEN <<>> ELSE Without(SubSeq(field, a, Len(field)), "->")
           solid == {i \in DOMAIN behind : behind[i] # SP}
<1>1. a \in 0..Len(field) /\ Len(field) \in Nat
  BY ArrowIs
<1>2. Real(field) = IF solid = {} THEN <<>>
                    ELSE Trimmed(SubSeq(behind, Min(solid), Len(behind)))
  BY DEF Real
<1>3. behind \in Seq(Symbol)
  <2> HIDE DEF a
  <2>1. CASE a = 0
    BY <2>1
  <2>2. CASE a # 0
    <3>1. a \in 1..(Len(field) + 1) /\ Len(field) \in 0..Len(field)
      BY <1>1, <2>2
    <3>2. SubSeq(field, a, Len(field)) \in Seq(Symbol)
      BY <3>1, Slices
    <3>3. Without(SubSeq(field, a, Len(field)), "->") \in Seq(Symbol)
      BY <3>2, WithoutType
    <3>4. QED
      BY <2>2, <3>3
  <2>3. QED
    BY <2>1, <2>2
<1> HIDE DEF behind
<1>4. ASSUME solid # {} PROVE Trimmed(SubSeq(behind, Min(solid), Len(behind))) \in Seq(Symbol)
  <2>1. solid \in SUBSET Nat /\ \A i \in solid : i \in 1..Len(behind)
    BY <1>3
  <2> HIDE DEF solid
  <2>2. Min(solid) \in 1..Len(behind) /\ Len(behind) \in Nat
    <3>1. Min(solid) \in solid
      BY <1>4, <2>1, MinInSet
    <3>2. Len(behind) \in Nat
      BY <1>3
    <3>3. QED
      BY <2>1, <3>1, <3>2
  <2>3. Min(solid) \in 1..(Len(behind) + 1) /\ Len(behind) \in 0..Len(behind)
    BY <2>2
  <2>4. SubSeq(behind, Min(solid), Len(behind)) \in Seq(Symbol)
    BY <1>3, <2>3, Slices
  <2>5. QED
    BY <2>4, TrimmedType
<1>5. <<>> \in Seq(Symbol)
  OBVIOUS
<1>6. QED
  BY <1>2, <1>4, <1>5

\* Each line adds one directory or none.
Added == {<<>>} \cup {<<path>> : path \in PathType}

\* One name makes one directory or none.
LEMMA EnqueuedAdds ==
  ASSUME NEW dir \in PathType, NEW name \in Seq(Symbol)
  PROVE  Enqueued(dir, name) \in Added
<1> DEFINE path == dir \o name
           full == IF Last(path) = "/" THEN path ELSE Append(path, "/")
<1>1. full \in PathType /\ Enqueued(dir, name) = IF full \in Useless THEN <<>> ELSE <<full>>
  BY EnqueuedIs
<1> HIDE DEF full
<1>2. QED
  BY <1>1 DEF Added

\* A line in the style of Unix adds one directory or none ...
LEMMA UnixLineType ==
  ASSUME NEW dir \in PathType, NEW line \in Seq(Token)
  PROVE  parse_unix_line(dir, line) \in Added
<1>1. <<>> \in Added
  BY DEF Added
<1>2. parse_unix_dir_name(dir, line) \in Added
  <2>1. Trimmed(find_linux_name_field2(line)) \in Seq(Symbol)
    BY FieldType, TrimmedType
  <2>2. QED
    BY <1>1, <2>1, EnqueuedAdds DEF parse_unix_dir_name
<1>3. parse_unix_link_name(dir, line) \in Added
  <2>1. Fake(find_linux_name_field2(line)) \in Seq(Symbol)
    BY FieldType, FakeType
  <2>2. QED
    BY <1>1, <2>1, EnqueuedAdds DEF parse_unix_link_name
<1>4. QED
  BY <1>1, <1>2, <1>3 DEF parse_unix_line

\* ... so does a line of Windows ...
LEMMA WindowsLineType ==
  ASSUME NEW dir \in PathType, NEW line \in Seq(Token)
  PROVE  parse_windows_dir_name(dir, line) \in Added
<1> DEFINE d == SelectInSeq(line, LAMBDA x : x = DIR)
           word == next_string(line, d + 1)
           name == Joined(SubSeq(line, Min({word, d + 11}), Len(line)))
<1>1. parse_windows_dir_name(dir, line) =
        IF d = 0 \/ word = 0 \/ name = <<>> THEN <<>> ELSE Enqueued(dir, name)
  BY DEF parse_windows_dir_name
<1>2. d \in 0..Len(line) /\ Len(line) \in Nat
  <2>1. d \in 0..Len(line)
    <3>1. d = First(line, DIR)
      BY DEF First
    <3>2. First(line, DIR) \in 0..Len(line)
      BY FirstIs
    <3>3. QED
      BY <3>1, <3>2
  <2>2. QED
    BY <2>1
<1> HIDE DEF d
<1>3. word \in 0..Len(line) /\ NextWord(line, d + 1, word)
  BY <1>2, NextIs
<1> HIDE DEF word
<1>4. <<>> \in Added
  BY DEF Added
<1>5. ASSUME word # 0 PROVE name \in Seq(Symbol)
  <2> DEFINE m == Min({word, d + 11})
  <2>1. m \in {word, d + 11} /\ m <= word
    <3>1. {word, d + 11} \in SUBSET Nat
      BY <1>2, <1>3
    <3>2. QED
      BY <3>1, MinInSet
  <2> HIDE DEF m
  <2>2. m \in 1..(Len(line) + 1) /\ Len(line) \in 0..Len(line)
    BY <1>2, <1>3, <1>5, <2>1
  <2>3. SubSeq(line, m, Len(line)) \in Seq(Token)
    BY <2>2, Slices
  <2>4. QED
    BY <2>3, JoinedType DEF m
<1> HIDE DEF name
<1>6. QED
  BY <1>1, <1>4, <1>5, EnqueuedAdds

\* ... and one of VxWorks.
LEMMA VxWorksLineType ==
  ASSUME NEW dir \in PathType, NEW line \in Seq(Token)
  PROVE  parse_vxworks_dir_name(dir, line) \in Added
<1> DEFINE size == next_string(line, 1)
           date == next_string(line, size + 1)
           time == next_string(line, date + 1)
           word == next_string(line, time + 1)
           name == Joined(Without(SubSeq(line, word, Len(line)), DIR))
<1>1. \/ parse_vxworks_dir_name(dir, line) = <<>>
      \/ word # 0 /\ parse_vxworks_dir_name(dir, line) = Enqueued(dir, Trimmed(name))
  BY DEF parse_vxworks_dir_name
<1>2. size \in Nat
  BY NextIs
<1>3. date \in Nat
  BY <1>2, NextIs
<1>4. time \in Nat
  BY <1>3, NextIs
<1>5. word \in 0..Len(line) /\ Len(line) \in Nat
  BY <1>4, NextIs
<1> HIDE DEF word
<1>6. ASSUME word # 0 PROVE Trimmed(name) \in Seq(Symbol)
  <2>1. word \in 1..(Len(line) + 1) /\ Len(line) \in 0..Len(line)
    BY <1>5, <1>6
  <2>2. SubSeq(line, word, Len(line)) \in Seq(Token)
    BY <2>1, Slices
  <2>3. QED
    BY <2>2, WithoutType, JoinedType, TrimmedType
<1>7. <<>> \in Added
  BY DEF Added
<1> HIDE DEF name
<1>8. QED
  BY <1>1, <1>6, <1>7, EnqueuedAdds

\* What a line of a listing of some type adds, and what all of them add.
LineAdds(type, dir, line) ==
  CASE type = "UNIX" -> parse_unix_line(dir, line)
    [] type = "WINDOWS" -> parse_windows_dir_name(dir, line)
    [] type = "VXWORKS" -> IF SaysDIR(line) THEN parse_vxworks_dir_name(dir, line) ELSE <<>>
Additions(type, dir, lines) == [i \in DOMAIN lines |-> LineAdds(type, dir, lines[i])]

\* The styles of listings.
ListTypes == {"UNIX", "WINDOWS", "VXWORKS"}

\* parse_list_data flattens what its lines add.
LEMMA ListDataIs ==
  ASSUME NEW dir, NEW dest, NEW lines, id_list_type(dest, lines) \in ListTypes
  PROVE  parse_list_data(dir, dest, lines) =
           IF id_list_type(dest, lines) = "VXWORKS" /\ ~IsPrefix(VxHeader, lines) THEN <<>>
           ELSE FlattenSeq(Additions(id_list_type(dest, lines), dir, lines))
<1> DEFINE type == id_list_type(dest, lines)
<1>1. type \in ListTypes
  OBVIOUS
<1>2. parse_list_data(dir, dest, lines) =
        CASE type = "UNIX" -> parse_list_data_unix(dir, lines)
          [] type = "WINDOWS" -> parse_list_data_windows(dir, lines)
          [] type = "VXWORKS" -> parse_list_data_vxworks(dir, lines)
  BY DEF parse_list_data
<1> HIDE DEF type
<1>3. CASE type = "UNIX"
  <2>1. parse_list_data(dir, dest, lines) = parse_list_data_unix(dir, lines)
    BY <1>2, <1>3
  <2>2. parse_list_data_unix(dir, lines) = FlattenSeq([i \in DOMAIN lines |-> parse_unix_line(dir, lines[i])])
    BY DEF parse_list_data_unix, CollectedFrom
  <2>3. Additions(type, dir, lines) = [i \in DOMAIN lines |-> parse_unix_line(dir, lines[i])]
    BY <1>3 DEF Additions, LineAdds
  <2>4. QED
    BY <1>3, <2>1, <2>2, <2>3 DEF type
<1>4. CASE type = "WINDOWS"
  <2>1. parse_list_data(dir, dest, lines) = parse_list_data_windows(dir, lines)
    BY <1>2, <1>4
  <2>2. parse_list_data_windows(dir, lines) = FlattenSeq([i \in DOMAIN lines |-> parse_windows_dir_name(dir, lines[i])])
    BY DEF parse_list_data_windows, CollectedFrom
  <2>3. Additions(type, dir, lines) = [i \in DOMAIN lines |-> parse_windows_dir_name(dir, lines[i])]
    BY <1>4 DEF Additions, LineAdds
  <2>4. QED
    BY <1>4, <2>1, <2>2, <2>3 DEF type
<1>5. CASE type = "VXWORKS"
  <2> DEFINE parts == [i \in DOMAIN lines |->
               IF SaysDIR(lines[i]) THEN parse_vxworks_dir_name(dir, lines[i]) ELSE <<>>]
  <2>1. parse_list_data(dir, dest, lines) = parse_list_data_vxworks(dir, lines)
    BY <1>2, <1>5
  <2>2. parse_list_data_vxworks(dir, lines) =
          IF ~IsPrefix(VxHeader, lines) THEN <<>> ELSE FlattenSeq(parts)
    BY DEF parse_list_data_vxworks, CollectedFrom
  <2>3. Additions(type, dir, lines) = parts
    BY <1>5 DEF Additions, LineAdds
  <2> HIDE DEF parts
  <2>4. QED
    BY <1>5, <2>1, <2>2, <2>3 DEF type
<1>6. QED
  BY <1>1, <1>3, <1>4, <1>5 DEF ListTypes

\* What all lines add, as sequences of paths.
LEMMA AdditionsType ==
  ASSUME NEW type \in ListTypes, NEW dir \in PathType, NEW lines \in Seq(Seq(Token))
  PROVE  Additions(type, dir, lines) \in Seq(Added) /\ Additions(type, dir, lines) \in Seq(Seq(PathType))
<1>1. ASSUME NEW line \in Seq(Token) PROVE LineAdds(type, dir, line) \in Added
  <2>1. <<>> \in Added
    BY DEF Added
  <2>2. type = "UNIX" \/ type = "WINDOWS" \/ type = "VXWORKS"
    BY DEF ListTypes
  <2>3. QED
    BY <2>1, <2>2, UnixLineType, WindowsLineType, VxWorksLineType DEF LineAdds
<1>2. DOMAIN lines = 1..Len(lines) /\ Len(lines) \in Nat /\ \A i \in 1..Len(lines) : lines[i] \in Seq(Token)
  OBVIOUS
<1>3. Additions(type, dir, lines) \in Seq(Added)
  BY <1>1, <1>2 DEF Additions
<1>4. Added \subseteq Seq(PathType)
  <2>1. <<>> \in Seq(PathType)
    OBVIOUS
  <2>2. \A path \in PathType : <<path>> \in Seq(PathType)
    OBVIOUS
  <2>3. QED
    BY <2>1, <2>2 DEF Added
<1>5. QED
  BY <1>3, <1>4, SeqMonotonic

\* Whatever a listing is, its type is known and what is parsed are paths of directories.
LEMMA ListDataType ==
  ASSUME NEW dir \in PathType, NEW dest \in {"UNK", "UNIX", "WINDOWS", "VXWORKS"},
         NEW lines \in Seq(Seq(Token))
  PROVE  /\ id_list_type(dest, lines) \in ListTypes
         /\ NewDestType(dest, lines) \in {"UNK", "UNIX", "WINDOWS", "VXWORKS"}
         /\ parse_list_data(dir, dest, lines) \in Seq(PathType)
<1>1. id_list_type(dest, lines) \in ListTypes
  BY DEF id_list_type, ListTypes
<1>2. NewDestType(dest, lines) \in {"UNK", "UNIX", "WINDOWS", "VXWORKS"}
  BY <1>1 DEF NewDestType, ListTypes
<1>3. FlattenSeq(Additions(id_list_type(dest, lines), dir, lines)) \in Seq(PathType)
  BY <1>1, AdditionsType, FlattenType
<1>4. <<>> \in Seq(PathType)
  OBVIOUS
<1>5. parse_list_data(dir, dest, lines) \in Seq(PathType)
  <2> DEFINE all == FlattenSeq(Additions(id_list_type(dest, lines), dir, lines))
             none == id_list_type(dest, lines) = "VXWORKS" /\ ~IsPrefix(VxHeader, lines)
  <2>1. parse_list_data(dir, dest, lines) = IF none THEN <<>> ELSE all
    BY <1>1, ListDataIs
  <2>2. all \in Seq(PathType)
    BY <1>3
  <2> HIDE DEF all, none
  <2>3. QED
    BY <1>4, <2>1, <2>2
<1>6. QED
  BY <1>1, <1>2, <1>5

-----------------------------------------------------------------------------
\* robots.txt: what is compared, and what is taken out of it.

\* The name of this program is not empty.
LEMMA AgentIs ==
  /\ USER_AGENT \in Seq(Symbol) /\ USER_AGENT # <<>>
  /\ Len(USER_AGENT) \in Nat \ {0}
<1>1. USER_AGENT \in Seq(STRING) /\ USER_AGENT # <<>>
  BY CrawlAssumption DEF CrawlAssumption
<1>2. USER_AGENT \in Seq(Symbol)
  BY <1>1, Symbols
<1>3. QED
  BY <1>1, <1>2

\* A group agrees with it in all characters if it names it, in none if it begins otherwise.
LEMMA CompareIs ==
  ASSUME NEW value \in Seq(Symbol)
  PROVE  /\ user_agent_compare(value) \in 0..Len(USER_AGENT)
         /\ value = USER_AGENT => user_agent_compare(value) = Len(USER_AGENT)
         /\ value = <<>> \/ Head(value) # Head(USER_AGENT) => user_agent_compare(value) = 0
<1> DEFINE UA == USER_AGENT
           S == {value, UA}
           C == CommonPrefixes(S)
           longest == LongestCommonPrefix(S)
<1>1. UA \in Seq(Symbol) /\ UA # <<>> /\ Len(UA) \in Nat \ {0}
  BY AgentIs
<1>2. ASSUME NEW p \in C PROVE IsPrefix(p, value) /\ IsPrefix(p, UA) /\ Len(p) \in 0..Len(UA)
  <2>1. IsPrefix(p, value) /\ IsPrefix(p, UA)
    BY DEF CommonPrefixes
  <2>2. PICK s \in S : p \in Prefixes(s)
    BY DEF CommonPrefixes
  <2>3. PICK l \in 0..Len(s) : p = SubSeq(s, 1, l)
    BY <2>2 DEF Prefixes
  <2>4. s \in Seq(Symbol)
    BY <1>1
  <2>5. Len(p) \in Nat
    BY <2>3, <2>4
  <2>6. QED
    BY <1>1, <2>1, <2>5 DEF IsPrefix
<1>3. ASSUME NEW p \in Seq(Symbol), p \in Prefixes(value), IsPrefix(p, value), IsPrefix(p, UA)
      PROVE  p \in C
  BY <1>3 DEF CommonPrefixes
<1>4. <<>> \in C
  <2>1. SubSeq(value, 1, 0) = <<>> /\ SubSeq(UA, 1, 0) = <<>> /\ SubSeq(<<>>, 1, 0) = <<>>
    BY SubSeqEmpty
  <2>2. 0 \in 0..Len(value)
    OBVIOUS
  <2>3. <<>> \in Prefixes(value)
    BY <2>1, <2>2 DEF Prefixes
  <2>4. IsPrefix(<<>>, value) /\ IsPrefix(<<>>, UA)
    BY <1>1, <2>1 DEF IsPrefix
  <2>5. <<>> \in Seq(Symbol)
    OBVIOUS
  <2>6. QED
    BY <1>3, <2>3, <2>4, <2>5
<1> HIDE DEF C
<1>5. longest \in C /\ \A p \in C : Len(p) <= Len(longest)
  <2> DEFINE L == {Len(p) : p \in C}
  <2>1. L \in SUBSET Nat /\ L # {} /\ Len(UA) \in Nat /\ \A y \in L : y <= Len(UA)
    BY <1>1, <1>2, <1>4
  <2> HIDE DEF L
  <2>2. Max(L) \in L /\ \A y \in L : y <= Max(L)
    BY <2>1, MaxInSet
  <2>3. PICK p \in C : Len(p) = Max(L)
    BY <2>2 DEF L
  <2>4. \A q \in C : Len(q) <= Len(p)
    BY <2>2, <2>3 DEF L
  <2>5. longest = CHOOSE p1 \in C : \A q \in C : Len(q) <= Len(p1)
    BY DEF LongestCommonPrefix, C
  <2> HIDE DEF longest
  <2>6. QED
    BY <2>4, <2>5
<1>6. user_agent_compare(value) = Len(longest)
  BY DEF user_agent_compare
<1> HIDE DEF longest
<1>7. Len(longest) \in 0..Len(UA) /\ IsPrefix(longest, value) /\ IsPrefix(longest, UA)
  BY <1>2, <1>5
<1>8. ASSUME value = UA PROVE Len(longest) = Len(UA)
  <2>1. UA = SubSeq(UA, 1, Len(UA)) /\ Len(UA) \in 0..Len(UA)
    BY <1>1, SubSeqFull
  <2>2. UA \in Prefixes(value) /\ IsPrefix(UA, UA)
    <3>1. UA \in Prefixes(UA)
      BY <2>1 DEF Prefixes
    <3>2. IsPrefix(UA, UA)
      BY <1>1 DEF IsPrefix
    <3>3. QED
      BY <1>8, <3>1, <3>2
  <2>3. UA \in C
    BY <1>1, <1>3, <1>8, <2>2
  <2>4. QED
    BY <1>1, <1>5, <1>7, <2>3
<1>9. ASSUME value = <<>> \/ Head(value) # Head(UA) PROVE Len(longest) = 0
  <2> DEFINE n == Len(longest)
  <2>1. SUFFICES ASSUME n \in 1..Len(UA) PROVE FALSE
    BY <1>7
  <2>2. n <= Len(value) /\ SubSeq(longest, 1, n) = SubSeq(value, 1, n) /\ SubSeq(longest, 1, n) = SubSeq(UA, 1, n)
    BY <1>7 DEF IsPrefix
  <2> HIDE DEF n
  <2>3. Len(value) \in Nat /\ value # <<>>
    BY <1>1, <2>1, <2>2
  <2>4. n \in 1..Len(value)
    BY <1>1, <2>1, <2>2, <2>3
  <2>5. SubSeq(value, 1, n)[1] = value[1] /\ SubSeq(UA, 1, n)[1] = UA[1]
    BY <1>1, <2>1, <2>3, <2>4
  <2>6. value[1] = UA[1]
    BY <2>2, <2>5
  <2>7. QED
    BY <1>1, <1>9, <2>3, <2>6
<1>10. QED
  BY <1>6, <1>7, <1>8, <1>9

\* The records of robots.txt, and the places of its agents.
Record == [type : {"GROUP_MEMBER_DENY", "GROUP_MEMBER_ALLOW", "START_OF_GROUP"},
           value : Seq(Symbol)]
StartsOf(records) == {i \in DOMAIN records : IsStart(records[i])}

\* The group that is taken begins with an agent.
LEMMA MaxMatchIn ==
  ASSUME NEW records \in Seq(Record), StartsOf(records) # {}
  PROVE  MaxMatch(records) \in StartsOf(records)
<1> DEFINE starts == StartsOf(records)
           compared == {user_agent_compare(records[i].value) : i \in starts}
           best == Max(compared)
           stars == {i \in starts : records[i].value = <<"*">>}
           bests == {i \in starts : user_agent_compare(records[i].value) = best}
<1>1. MaxMatch(records) = IF best = 0 /\ stars # {} THEN Max(stars) ELSE Min(bests)
  BY DEF MaxMatch, StartsOf
<1>2. Len(records) \in Nat /\ DOMAIN records = 1..Len(records) /\ starts \in SUBSET (1..Len(records))
  BY DEF StartsOf
<1>3. \A i \in starts : user_agent_compare(records[i].value) \in 0..Len(USER_AGENT)
  <2>1. ASSUME NEW i \in starts PROVE user_agent_compare(records[i].value) \in 0..Len(USER_AGENT)
    <3>1. records[i] \in Record
      BY <1>2
    <3>2. records[i].value \in Seq(Symbol)
      BY <3>1 DEF Record
    <3>3. QED
      BY <3>2, CompareIs
  <2>2. QED
    BY <2>1
<1> HIDE DEF starts
<1>4. best \in compared
  <2>1. compared \in SUBSET Nat /\ compared # {} /\ Len(USER_AGENT) \in Nat
        /\ \A y \in compared : y <= Len(USER_AGENT)
    BY <1>3, AgentIs DEF starts
  <2> HIDE DEF compared
  <2>2. QED
    BY <2>1, MaxInSet
<1>5. bests # {}
  BY <1>4
<1>6. Min(bests) \in bests
  <2>0. \A i \in starts : i \in Nat
    BY <1>2
  <2>1. bests \in SUBSET Nat
    BY <2>0
  <2> HIDE DEF bests
  <2>2. QED
    BY <1>5, <2>1, MinInSet
<1>7. stars # {} => Max(stars) \in stars
  <2>0. \A i \in starts : i \in Nat /\ i <= Len(records)
    BY <1>2
  <2>1. stars \in SUBSET Nat /\ \A y \in stars : y <= Len(records)
    BY <2>0
  <2> HIDE DEF stars
  <2>2. QED
    BY <1>2, <2>1, MaxInSet
<1>8. QED
  BY <1>1, <1>6, <1>7 DEF starts

\* Where the members of a group stand.
MembersAt(records, at, first, last) ==
  /\ first \in (at + 1)..(Len(records) + 1) /\ last \in first..(Len(records) + 1)
  /\ first = Len(records) + 1 \/ ~IsStart(records[first])
  /\ \A i \in (at + 1)..(first - 1) : IsStart(records[i])
  /\ last = Len(records) + 1 \/ IsStart(records[last])
  /\ \A i \in first..(last - 1) : ~IsStart(records[i])
  /\ Members(records, at) = SubSeq(records, first, last - 1)

\* The members of a group stand between two places, which there always are.
LEMMA MembersAre ==
  ASSUME NEW records \in Seq(Record), NEW at \in 1..Len(records)
  PROVE  \E first, last : MembersAt(records, at, first, last)
<1> DEFINE n == Len(records) + 1
           F == {i \in (at + 1)..n : i = n \/ ~IsStart(records[i])}
           first == Min(F)
           L == {i \in first..n : i = n \/ IsStart(records[i])}
           last == Min(L)
<1>1. n \in Nat /\ at \in Nat /\ at + 1 <= n
  OBVIOUS
<1>2. first \in F /\ \A i \in F : first <= i
  <2>1. F \in SUBSET Nat /\ n \in F
    BY <1>1
  <2> HIDE DEF F
  <2>2. QED
    BY <2>1, MinInSet
<1>3. Members(records, at) = SubSeq(records, first, last - 1)
  BY DEF Members
<1> HIDE DEF first
<1>4. first \in (at + 1)..n /\ (first = n \/ ~IsStart(records[first]))
  BY <1>2
<1>5. \A i \in (at + 1)..(first - 1) : IsStart(records[i])
  <2>1. SUFFICES ASSUME NEW i \in (at + 1)..(first - 1), ~IsStart(records[i]) PROVE FALSE
    OBVIOUS
  <2>2. i \in F /\ i < first
    BY <1>1, <1>4, <2>1
  <2>3. QED
    BY <1>1, <1>2, <1>4, <2>2
<1>6. last \in L /\ \A i \in L : last <= i
  <2>1. L \in SUBSET Nat /\ n \in L
    BY <1>1, <1>4
  <2> HIDE DEF L
  <2>2. QED
    BY <2>1, MinInSet
<1> HIDE DEF last, F
<1>7. last \in first..n /\ (last = n \/ IsStart(records[last]))
  BY <1>6
<1>8. \A i \in first..(last - 1) : ~IsStart(records[i])
  <2>1. SUFFICES ASSUME NEW i \in first..(last - 1), IsStart(records[i]) PROVE FALSE
    OBVIOUS
  <2>2. i \in L /\ i < last
    BY <1>1, <1>4, <1>7, <2>1
  <2>3. QED
    BY <1>1, <1>4, <1>6, <1>7, <2>2
<1>9. MembersAt(records, at, first, last)
  BY <1>3, <1>4, <1>5, <1>7, <1>8 DEF MembersAt
<1>10. QED
  BY <1>9

\* The members of a group are records of the file.
LEMMA MembersType ==
  ASSUME NEW records \in Seq(Record), NEW at \in 1..Len(records)
  PROVE  Members(records, at) \in Seq(Record)
<1>1. PICK first, last : MembersAt(records, at, first, last)
  BY MembersAre
<1>2. Len(records) \in Nat
  OBVIOUS
<1>3. first \in 1..(Len(records) + 1) /\ last - 1 \in 0..Len(records)
  BY <1>1, <1>2 DEF MembersAt
<1>4. SubSeq(records, first, last - 1) \in Seq(Record)
  BY <1>3, Slices
<1>5. QED
  BY <1>1, <1>4 DEF MembersAt

\* So are the records that are applicable.
LEMMA ApplicableType ==
  ASSUME NEW records \in Seq(Record)
  PROVE  extract_applicable_records(records) \in Seq(Record)
<1>1. CASE StartsOf(records) # {}
  <2>1. MaxMatch(records) \in 1..Len(records)
    BY <1>1, MaxMatchIn DEF StartsOf
  <2>2. Members(records, MaxMatch(records)) \in Seq(Record)
    BY <2>1, MembersType
  <2>3. extract_applicable_records(records) = Members(records, MaxMatch(records))
    BY <1>1 DEF extract_applicable_records, StartsOf
  <2>4. QED
    BY <2>2, <2>3
<1>2. CASE StartsOf(records) = {}
  <2>1. extract_applicable_records(records) = <<>>
    BY <1>2 DEF extract_applicable_records, StartsOf
  <2>2. QED
    BY <2>1
<1>3. QED
  BY <1>1, <1>2

\* What the lines of any file become are records.
LEMMA LinesType ==
  ASSUME NEW lines \in Seq(Seq(Symbol))
  PROVE  parse_lines(lines) \in Seq(Record)
<1>1. ASSUME NEW line \in Seq(Symbol) PROVE RecordsOf(strippedLine(clean_line(line))) \in Seq(Record)
  <2> DEFINE clean == clean_line(line)
             parts == [i \in DOMAIN clean |->
                        IF clean[i] # Blank /\ TokenOf(clean, i) <= 3 THEN <<clean[i]>> ELSE <<>>]
             stripped == strippedLine(clean)
  <2>1. clean \in Seq(Symbol)
    BY BeforeIs DEF clean_line
  <2> HIDE DEF clean
  <2>2. DOMAIN clean = 1..Len(clean) /\ Len(clean) \in Nat
    BY <2>1
  <2>3. \A i \in 1..Len(clean) : <<clean[i]>> \in Seq(Symbol) /\ <<>> \in Seq(Symbol)
    BY <2>1
  <2>4. parts \in Seq(Seq(Symbol))
    BY <2>2, <2>3
  <2>5. stripped = FlattenSeq(parts)
    BY DEF strippedLine
  <2> HIDE DEF parts
  <2>6. stripped \in Seq(Symbol)
    BY <2>4, <2>5, FlattenType
  <2> HIDE DEF stripped
  <2> DEFINE type == field_type(Before(stripped, ":"))
             record == [type |-> type, value |-> Behind(stripped, ":")]
  <2>7. Behind(stripped, ":") \in Seq(Symbol)
    BY <2>6, BehindIs
  <2>8. type # "UNK_TYPE" => record \in Record
    BY <2>7 DEF field_type, Record
  <2>9. RecordsOf(stripped) = <<>> \/ (type # "UNK_TYPE" /\ RecordsOf(stripped) = <<record>>)
    BY DEF RecordsOf
  <2> HIDE DEF record, type
  <2>10. RecordsOf(stripped) \in Seq(Record)
    <3>1. CASE RecordsOf(stripped) = <<>>
      BY <3>1
    <3>2. CASE type # "UNK_TYPE" /\ RecordsOf(stripped) = <<record>>
      <4>1. <<record>> \in Seq(Record)
        BY <2>8, <3>2
      <4>2. QED
        BY <3>2, <4>1
    <3>3. QED
      BY <2>9, <3>1, <3>2
  <2>11. QED
    BY <2>10 DEF stripped, clean
<1> DEFINE parts == [i \in DOMAIN lines |-> RecordsOf(strippedLine(clean_line(lines[i])))]
<1>2. DOMAIN lines = 1..Len(lines) /\ Len(lines) \in Nat /\ \A i \in 1..Len(lines) : lines[i] \in Seq(Symbol)
  OBVIOUS
<1>3. parts \in Seq(Seq(Record))
  BY <1>1, <1>2
<1>4. parse_lines(lines) = FlattenSeq(parts)
  BY DEF parse_lines
<1> HIDE DEF parts
<1>5. QED
  BY <1>3, <1>4, FlattenType

\* A rule's pattern begins with a slash.
LEMMA PatternIs ==
  ASSUME NEW base \in Seq(Symbol)
  PROVE  /\ patternize(base) \in Seq(Symbol) /\ patternize(base) # <<>>
         /\ Head(patternize(base)) = "/"
<1> DEFINE temp == IF base = <<>> \/ base[1] # "/" THEN <<"/">> \o base ELSE base
<1>1. patternize(base) = IF base # <<>> /\ Last(base) = "$" THEN Front(temp) ELSE Append(temp, "*")
  BY DEF patternize
<1>2. Len(base) \in Nat /\ (base # <<>> => Len(base) # 0)
  OBVIOUS
<1>3. /\ temp \in Seq(Symbol) /\ temp # <<>> /\ Len(temp) \in Nat \ {0} /\ temp[1] = "/"
      /\ base # <<>> /\ Last(base) = "$" => Len(temp) > 1
  <2>1. CASE base = <<>> \/ base[1] # "/"
    <3>0. "/" \in Symbol
      BY Symbols
    <3>1. <<"/">> \in Seq(Symbol) /\ Len(<<"/">>) = 1 /\ <<"/">>[1] = "/"
      BY <3>0
    <3>2. /\ <<"/">> \o base \in Seq(Symbol) /\ Len(<<"/">> \o base) = 1 + Len(base)
          /\ (<<"/">> \o base)[1] = "/"
      <4>1. 1 \in 1..(1 + Len(base)) /\ 1 <= 1
        BY <1>2
      <4>2. QED
        BY <3>1, <4>1, ConcatProperties
    <3>3. temp = <<"/">> \o base
      BY <2>1
    <3> HIDE DEF temp
    <3>4. QED
      BY <1>2, <3>2, <3>3
  <2>2. CASE ~(base = <<>> \/ base[1] # "/")
    <3>1. temp = base /\ base # <<>> /\ base[1] = "/"
      BY <2>2
    <3> HIDE DEF temp
    <3>2. Last(base) = "$" => Len(base) # 1
      BY <3>1 DEF Last
    <3>3. Len(temp) \in Nat \ {0} /\ temp \in Seq(Symbol) /\ temp # <<>> /\ temp[1] = "/"
      BY <1>2, <3>1
    <3>4. Last(base) = "$" => Len(temp) > 1
      <4>1. Len(temp) = Len(base)
        BY <3>1
      <4>2. SUFFICES ASSUME Last(base) = "$" PROVE Len(temp) > 1
        OBVIOUS
      <4>3. Len(temp) # 1
        BY <3>2, <4>1, <4>2
      <4>4. \A k \in Nat \ {0} : k # 1 => k > 1
        OBVIOUS
      <4>5. Len(temp) \in Nat \ {0}
        BY <3>3
      <4>6. QED
        BY <4>3, <4>4, <4>5
    <3>5. QED
      BY <3>3, <3>4
  <2>3. QED
    BY <2>1, <2>2
<1> HIDE DEF temp
<1>4. CASE base # <<>> /\ Last(base) = "$"
  <2> DEFINE p == SubSeq(temp, 1, Len(temp) - 1)
  <2>1. Len(temp) - 1 \in 1..Len(temp) /\ 1 \in 1..(Len(temp) + 1) /\ Len(temp) - 1 \in 0..Len(temp)
    BY <1>3, <1>4
  <2>2. p \in Seq(Symbol) /\ Len(p) = Len(temp) - 1 /\ p[1] = temp[1]
    BY <1>3, <2>1
  <2>3. patternize(base) = p
    BY <1>1, <1>4 DEF Front
  <2> HIDE DEF p
  <2>4. p # <<>> /\ Head(p) = "/"
    BY <1>3, <2>1, <2>2
  <2>5. QED
    BY <2>2, <2>3, <2>4
<1>5. CASE ~(base # <<>> /\ Last(base) = "$")
  <2> DEFINE p == Append(temp, "*")
  <2>1. patternize(base) = p
    BY <1>1, <1>5
  <2>2. "*" \in Symbol
    BY Symbols
  <2>3. p \in Seq(Symbol) /\ p # <<>> /\ Head(p) = "/"
    <3>1. p \in Seq(Symbol) /\ p # <<>>
      BY <1>3, <2>2, AppendProperties
    <3>2. Head(p) = Head(temp)
      BY <1>3, HeadTailAppend
    <3>3. QED
      BY <1>3, <3>1, <3>2
  <2>4. QED
    BY <2>1, <2>3
<1>6. QED
  BY <1>4, <1>5

\* What RobotsRead needs of the rules: they begin with a slash.
RobotsType(obj) ==
  /\ obj.noRobotsFound \in BOOLEAN
  /\ \A i \in DOMAIN obj.compareQueue : Head(obj.compareQueue[i].value) = "/"

\* Whatever the file is, its rules begin with a slash.
LEMMA RobotsTyped ==
  /\ RobotsType(NoRobots)
  /\ \A lines \in Seq(Seq(Symbol)) : RobotsType(robot_parser_init(lines))
<1>1. RobotsType(NoRobots)
  BY DEF RobotsType, NoRobots
<1>2. ASSUME NEW lines \in Seq(Seq(Symbol)) PROVE RobotsType(robot_parser_init(lines))
  <2>1. CASE lines = <<>>
    BY <1>1, <2>1 DEF robot_parser_init
  <2>2. CASE lines # <<>>
    <3> DEFINE found == extract_applicable_records(parse_lines(lines))
               queue == [i \in DOMAIN found |-> Rule(found[i])]
    <3>1. found \in Seq(Record)
      BY LinesType, ApplicableType
    <3>2. robot_parser_init(lines) = [noRobotsFound |-> FALSE, compareQueue |-> queue]
      BY <2>2 DEF robot_parser_init
    <3> HIDE DEF found
    <3>3. \A i \in DOMAIN queue : Head(queue[i].value) = "/"
      <4>1. ASSUME NEW i \in DOMAIN found PROVE Head(Rule(found[i]).value) = "/"
        <5>1. found[i] \in Record
          BY <3>1
        <5>2. found[i].value \in Seq(Symbol)
          BY <5>1 DEF Record
        <5>3. Head(patternize(found[i].value)) = "/"
          BY <5>2, PatternIs
        <5>4. QED
          BY <5>3 DEF Rule
      <4>2. QED
        BY <4>1
    <3> HIDE DEF queue
    <3>4. QED
      BY <3>2, <3>3 DEF RobotsType
  <2>3. QED
    BY <2>1, <2>2
<1>3. QED
  BY <1>1, <1>2

\* What a listing consists of.
LineType == [tokens : Seq(Token), means : Seq(STRING), format : Nat, date : Nat, name : Nat]

\* A listing is a sequence of lines, and these of words.
LEMMA ListingIs ==
  ASSUME NEW listing, IsListing(listing)
  PROVE  /\ listing.lines \in Seq(LineType) /\ listing.lines # <<>>
         /\ Tokens(listing) \in Seq(Seq(Token))
         /\ DOMAIN Tokens(listing) = DOMAIN listing.lines
         /\ \A i \in DOMAIN listing.lines : Tokens(listing)[i] = listing.lines[i].tokens
<1>1. listing.lines \in Seq(LineType) /\ listing.lines # <<>>
  BY DEF IsListing, LineType, Token
<1>2. DOMAIN listing.lines = 1..Len(listing.lines) /\ Len(listing.lines) \in Nat
      /\ \A i \in 1..Len(listing.lines) : listing.lines[i] \in LineType
  BY <1>1
<1>3. \A i \in 1..Len(listing.lines) : listing.lines[i].tokens \in Seq(Token)
  BY <1>2 DEF LineType
<1>4. Tokens(listing) \in Seq(Seq(Token))
  BY <1>2, <1>3 DEF Tokens
<1>5. QED
  BY <1>1, <1>4 DEF Tokens

\* A directory below a directory is one too.
LEMMA DirType ==
  ASSUME NEW dir \in PathType, NEW means \in Seq(Symbol)
  PROVE  Append(dir \o means, "/") \in PathType
<1>1. dir \in Seq(Symbol) /\ Len(dir) \in Nat \ {0} /\ dir[1] = "/"
  BY DEF PathType
<1> DEFINE path == dir \o means
<1>2. path \in Seq(Symbol) /\ Len(path) = Len(dir) + Len(means) /\ path[1] = "/"
  <2>1. 1 \in 1..(Len(dir) + Len(means)) /\ 1 <= Len(dir)
    BY <1>1
  <2>2. QED
    BY <1>1, <2>1, ConcatProperties
<1> HIDE DEF path
<1>3. Len(path) \in Nat \ {0}
  BY <1>1, <1>2
<1> DEFINE a == Append(path, "/")
<1>4. a \in Seq(Symbol) /\ a # <<>> /\ Len(a) = Len(path) + 1 /\ a[1] = path[1] /\ a[Len(path) + 1] = "/"
  <2>0. "/" \in Symbol
    BY Symbols
  <2>1. "/" \in Symbol /\ 1 \in 1..Len(path)
    BY <1>3, <2>0
  <2>2. QED
    BY <1>2, <2>1, AppendProperties
<1> HIDE DEF a
<1>5. Head(a) = "/" /\ Last(a) = "/"
  BY <1>2, <1>4 DEF Last
<1>6. a \in PathType
  BY <1>4, <1>5 DEF PathType
<1>7. QED
  BY <1>6 DEF a, path

-----------------------------------------------------------------------------
\* Where the sequences that are flattened come to stand.

\* What step g of flattening adds, and where.
Extends(f, s, T, g) ==
  /\ f[g - 1] \in Seq(T) /\ f[g] \in Seq(T) /\ s[g] \in Seq(T)
  /\ Len(f[g]) = Len(f[g - 1]) + Len(s[g])
  /\ \A j \in 1..Len(f[g - 1]) : f[g][j] = f[g - 1][j]
  /\ \A j \in 1..Len(s[g]) : f[g][Len(f[g - 1]) + j] = s[g][j]

\* Step g adds sequence g at the end, and leaves the rest where it is.
LEMMA FlattenStep ==
  ASSUME NEW T, NEW s \in Seq(Seq(T)), NEW f, Flattens(f, s, T), NEW g \in 1..Len(s)
  PROVE  Extends(f, s, T, g)
<1>1. Len(s) \in Nat /\ g \in Nat /\ g \in 0..Len(s) /\ g - 1 \in 0..Len(s)
  OBVIOUS
<1>2. f[g - 1] \in Seq(T) /\ f[g] \in Seq(T) /\ s[g] \in Seq(T) /\ f[g] = f[g - 1] \o s[g]
  <2>1. f \in [0..Len(s) -> Seq(T)] /\ f[g] = f[g - 1] \o s[g]
    BY DEF Flattens
  <2>2. s[g] \in Seq(T)
    OBVIOUS
  <2>3. f[g - 1] \in Seq(T) /\ f[g] \in Seq(T)
    BY <1>1, <2>1
  <2>4. QED
    BY <2>1, <2>2, <2>3
<1> DEFINE a == f[g - 1]
           b == s[g]
<1>3. /\ Len(a \o b) = Len(a) + Len(b)
      /\ \A i \in 1..(Len(a) + Len(b)) : (a \o b)[i] = IF i <= Len(a) THEN a[i] ELSE b[i - Len(a)]
  BY <1>2, ConcatProperties
<1>4. Len(a) \in Nat /\ Len(b) \in Nat /\ f[g] = a \o b
  BY <1>2
<1> HIDE DEF a, b
<1>5. ASSUME NEW j \in 1..Len(a) PROVE f[g][j] = a[j]
  <2>1. j \in 1..(Len(a) + Len(b)) /\ j <= Len(a)
    BY <1>4
  <2>2. QED
    BY <1>3, <1>4, <2>1
<1>6. ASSUME NEW j \in 1..Len(b) PROVE f[g][Len(a) + j] = b[j]
  <2>1. Len(a) + j \in 1..(Len(a) + Len(b)) /\ ~(Len(a) + j <= Len(a)) /\ (Len(a) + j) - Len(a) = j
    BY <1>4
  <2>2. QED
    BY <1>3, <1>4, <2>1
<1>7. QED
  BY <1>2, <1>3, <1>4, <1>5, <1>6 DEF a, b, Extends

\* What is there stays where it is.
BeginsAs(s, t) == Len(t) <= Len(s) /\ \A j \in 1..Len(t) : s[j] = t[j]

\* What is there stays where it is.
LEMMA FlattenKeeps ==
  ASSUME NEW T, NEW s \in Seq(Seq(T)), NEW f, Flattens(f, s, T), NEW g \in 0..Len(s), NEW n \in g..Len(s)
  PROVE  BeginsAs(f[n], f[g])
<1> DEFINE P == {d \in Nat : g + d <= Len(s) =>
                   Len(f[g]) <= Len(f[g + d]) /\ \A j \in 1..Len(f[g]) : f[g + d][j] = f[g][j]}
<1>1. Len(s) \in Nat /\ g \in Nat /\ n \in Nat
  OBVIOUS
<1>2. \A k \in 0..Len(s) : f[k] \in Seq(T)
  BY DEF Flattens
<1>3. 0 \in P
  <2>1. g + 0 = g /\ Len(f[g]) \in Nat
    BY <1>1, <1>2
  <2>2. QED
    BY <2>1
<1>4. ASSUME NEW d \in Nat, d \in P PROVE d + 1 \in P
  <2>1. SUFFICES ASSUME g + (d + 1) <= Len(s)
                 PROVE  /\ Len(f[g]) <= Len(f[g + (d + 1)])
                        /\ \A j \in 1..Len(f[g]) : f[g + (d + 1)][j] = f[g][j]
    OBVIOUS
  <2> DEFINE k == g + d
  <2>2. k + 1 = g + (d + 1) /\ k \in 0..Len(s) /\ k + 1 \in 1..Len(s) /\ (k + 1) - 1 = k
    BY <1>1, <2>1
  <2>3. Len(f[g]) <= Len(f[k]) /\ \A j \in 1..Len(f[g]) : f[k][j] = f[g][j]
    BY <1>4, <2>2
  <2> HIDE DEF k
  <2>4. /\ s[k + 1] \in Seq(T) /\ Len(f[k + 1]) = Len(f[k]) + Len(s[k + 1])
        /\ \A j \in 1..Len(f[k]) : f[k + 1][j] = f[k][j]
    <3> DEFINE h == k + 1
    <3>1. h \in 1..Len(s) /\ h - 1 = k
      BY <2>2
    <3> HIDE DEF h
    <3>2. /\ s[h] \in Seq(T) /\ Len(f[h]) = Len(f[h - 1]) + Len(s[h])
          /\ \A j \in 1..Len(f[h - 1]) : f[h][j] = f[h - 1][j]
      <4>1. Extends(f, s, T, h)
        BY <3>1, FlattenStep
      <4>2. QED
        BY <4>1 DEF Extends
    <3>3. QED
      BY <3>1, <3>2 DEF h
  <2>5. Len(f[g]) \in Nat /\ Len(f[k]) \in Nat /\ Len(s[k + 1]) \in Nat
    BY <1>1, <1>2, <2>2, <2>4
  <2> DEFINE a == Len(f[g])
             b == Len(f[k])
             c == Len(s[k + 1])
  <2>6. Len(f[g]) <= Len(f[k + 1])
    <3>1. a \in Nat /\ b \in Nat /\ c \in Nat /\ a <= b /\ Len(f[k + 1]) = b + c
      BY <2>3, <2>4, <2>5
    <3> HIDE DEF a, b, c
    <3>2. a <= b + c
      BY <3>1
    <3>3. QED
      BY <3>1, <3>2 DEF a
  <2>7. \A j \in 1..Len(f[g]) : f[k + 1][j] = f[g][j]
    <3>1. ASSUME NEW j \in 1..a PROVE j \in 1..b
      BY <2>3, <2>5, <3>1
    <3>2. QED
      BY <2>3, <2>4, <3>1
  <2>8. QED
    BY <2>2, <2>6, <2>7
<1>5. \A d \in Nat : d \in P
  <2> HIDE DEF P
  <2> QED BY <1>3, <1>4, SetInduction
<1>6. n - g \in Nat /\ g + (n - g) = n /\ n <= Len(s)
  BY <1>1
<1>7. n - g \in P
  BY <1>5, <1>6
<1>8. QED
  BY <1>6, <1>7 DEF BeginsAs

\* Each element comes from one of them.
ComesFrom(f, s, n, i) == \E g \in 1..n : \E j \in 1..Len(s[g]) : i = Len(f[g - 1]) + j

\* Each element comes from one of the sequences.
LEMMA FlattenFrom ==
  ASSUME NEW T, NEW s \in Seq(Seq(T)), NEW f, Flattens(f, s, T), NEW n \in 0..Len(s),
         NEW i \in 1..Len(f[n])
  PROVE  ComesFrom(f, s, n, i)
<1> DEFINE P == {k \in Nat : k <= Len(s) => \A x \in 1..Len(f[k]) :
                   \E g \in 1..k : \E j \in 1..Len(s[g]) : x = Len(f[g - 1]) + j}
<1>1. Len(s) \in Nat /\ n \in Nat
  OBVIOUS
<1>2. 0 \in P
  BY DEF Flattens
<1>3. ASSUME NEW k \in Nat, k \in P PROVE k + 1 \in P
  <2>1. SUFFICES ASSUME k + 1 <= Len(s), NEW x \in 1..Len(f[k + 1])
                 PROVE  \E g \in 1..(k + 1) : \E j \in 1..Len(s[g]) : x = Len(f[g - 1]) + j
    OBVIOUS
  <2> DEFINE h == k + 1
  <2>2. h \in 1..Len(s) /\ h - 1 = k /\ k <= Len(s)
    BY <1>1, <2>1
  <2>3. \A y \in 1..Len(f[k]) : \E g \in 1..k : \E j \in 1..Len(s[g]) : y = Len(f[g - 1]) + j
    BY <1>3, <2>2
  <2> HIDE DEF h
  <2>4. Len(f[h]) = Len(f[h - 1]) + Len(s[h]) /\ Len(f[h - 1]) \in Nat /\ Len(s[h]) \in Nat
    <3>1. Extends(f, s, T, h)
      BY <2>2, FlattenStep
    <3>2. f[h - 1] \in Seq(T) /\ s[h] \in Seq(T) /\ Len(f[h]) = Len(f[h - 1]) + Len(s[h])
      BY <3>1 DEF Extends
    <3>3. QED
      BY <3>2
  <2>5. x \in 1..(Len(f[k]) + Len(s[h])) /\ Len(f[k]) \in Nat
    BY <2>1, <2>2, <2>4 DEF h
  <2>6. CASE x <= Len(f[k])
    <3>1. x \in 1..Len(f[k])
      BY <2>5, <2>6
    <3>2. PICK g \in 1..k : \E j \in 1..Len(s[g]) : x = Len(f[g - 1]) + j
      BY <2>3, <3>1
    <3>3. g \in 1..(k + 1)
      BY <1>3
    <3>4. QED
      BY <3>2, <3>3
  <2>7. CASE ~(x <= Len(f[k]))
    <3>1. x - Len(f[k]) \in 1..Len(s[h]) /\ x = Len(f[h - 1]) + (x - Len(f[k]))
      <4> DEFINE a == Len(f[k])
                 b == Len(s[h])
      <4>1. a \in Nat /\ b \in Nat /\ x \in 1..(a + b) /\ ~(x <= a)
        BY <2>4, <2>5, <2>7
      <4> HIDE DEF a, b
      <4>2. x - a \in 1..b /\ x = a + (x - a)
        BY <4>1
      <4>3. QED
        BY <2>2, <4>2 DEF a, b
    <3>2. h \in 1..(k + 1)
      BY <1>3 DEF h
    <3>3. QED
      BY <3>1, <3>2
  <2>8. QED
    BY <2>6, <2>7
<1>4. \A k \in Nat : k \in P
  <2> HIDE DEF P
  <2> QED BY <1>2, <1>3, SetInduction
<1>5. n \in P
  BY <1>1, <1>4
<1>6. n <= Len(s)
  BY <1>1
<1>7. QED
  BY <1>5, <1>6 DEF ComesFrom

-----------------------------------------------------------------------------
\* The records of a file and its groups.

\* Rules and groups of a file.
RuleType == [allow : BOOLEAN, path : Seq(STRING)]
GroupType == [agents : Seq(Seq(STRING)) \ {<<>>}, rules : Seq(RuleType) \ {<<>>}]

\* The record of a rule.
RuleRecord(rule) ==
  [type |-> IF rule.allow THEN "GROUP_MEMBER_ALLOW" ELSE "GROUP_MEMBER_DENY",
   value |-> rule.path]

\* The records of a group: its agents, then its rules.
LEMMA GroupRecordsAre ==
  ASSUME NEW group \in GroupType
  PROVE  LET na == Len(group.agents)
             nr == Len(group.rules)
             records == GroupRecords(group)
         IN  /\ na \in Nat \ {0} /\ nr \in Nat \ {0}
             /\ records \in Seq(Record) /\ Len(records) = na + nr
             /\ \A a \in 1..na : IsStart(records[a]) /\ records[a].value = group.agents[a]
             /\ \A r \in 1..nr : ~IsStart(records[na + r]) /\ records[na + r] = RuleRecord(group.rules[r])
<1> DEFINE na == Len(group.agents)
           nr == Len(group.rules)
           starts == [i \in DOMAIN group.agents |-> [type |-> "START_OF_GROUP", value |-> group.agents[i]]]
           members == [i \in DOMAIN group.rules |-> RuleRecord(group.rules[i])]
<1>1. /\ group.agents \in Seq(Seq(STRING)) /\ group.agents # <<>>
      /\ group.rules \in Seq(RuleType) /\ group.rules # <<>>
  BY DEF GroupType
<1>2. /\ na \in Nat \ {0} /\ nr \in Nat \ {0}
      /\ DOMAIN group.agents = 1..na /\ DOMAIN group.rules = 1..nr
  BY <1>1
<1>3. \A i \in 1..na : group.agents[i] \in Seq(Symbol)
  <2>1. \A i \in 1..na : group.agents[i] \in Seq(STRING)
    BY <1>1
  <2>2. QED
    BY <2>1, Symbols
<1>4. \A i \in 1..na : [type |-> "START_OF_GROUP", value |-> group.agents[i]] \in Record
  BY <1>3 DEF Record
<1>5. starts \in Seq(Record) /\ Len(starts) = na
  BY <1>2, <1>4
<1>6. \A i \in 1..nr : RuleRecord(group.rules[i]) \in Record /\ ~IsStart(RuleRecord(group.rules[i]))
  <2>1. ASSUME NEW i \in 1..nr
        PROVE RuleRecord(group.rules[i]) \in Record /\ ~IsStart(RuleRecord(group.rules[i]))
    <3>1. group.rules[i] \in RuleType
      BY <1>1
    <3>2. group.rules[i].path \in Seq(Symbol)
      BY <3>1, Symbols DEF RuleType
    <3>3. QED
      BY <3>2 DEF RuleRecord, Record, IsStart
  <2>2. QED
    BY <2>1
<1>7. members \in Seq(Record) /\ Len(members) = nr
  BY <1>2, <1>6
<1>8. GroupRecords(group) = starts \o members
  BY DEF GroupRecords, RuleRecord
<1>9. \A a \in 1..na : starts[a].value = group.agents[a] /\ IsStart(starts[a])
  BY <1>2 DEF IsStart
<1>10. \A r \in 1..nr : members[r] = RuleRecord(group.rules[r])
  BY <1>2
<1> HIDE DEF starts, members, na, nr
<1> DEFINE all == starts \o members
<1>11. /\ all \in Seq(Record) /\ Len(all) = na + nr
       /\ \A i \in 1..(na + nr) : all[i] = IF i <= na THEN starts[i] ELSE members[i - na]
  BY <1>5, <1>7, ConcatProperties
<1> HIDE DEF all
<1>12. ASSUME NEW a \in 1..na PROVE IsStart(all[a]) /\ all[a].value = group.agents[a]
  <2>1. a \in 1..(na + nr) /\ a <= na
    BY <1>2
  <2>2. QED
    BY <1>9, <1>11, <2>1
<1>13. ASSUME NEW r \in 1..nr PROVE ~IsStart(all[na + r]) /\ all[na + r] = RuleRecord(group.rules[r])
  <2>1. na + r \in 1..(na + nr) /\ ~(na + r <= na) /\ (na + r) - na = r
    BY <1>2
  <2>2. QED
    BY <1>6, <1>10, <1>11, <2>1
<1>14. GroupRecords(group) = all
  BY <1>8 DEF all
<1>15. QED
  BY <1>2, <1>11, <1>12, <1>13, <1>14 DEF na, nr

\* The records of each group.
Blocks(groups) == [i \in DOMAIN groups |-> GroupRecords(groups[i])]

\* offset[g] is what stands in front of group g + 1.
Lays(f, groups) ==
  /\ Flattens(f, Blocks(groups), Record) /\ FileRecords(groups) = f[Len(groups)]
  /\ Blocks(groups) \in Seq(Seq(Record)) /\ Len(Blocks(groups)) = Len(groups)
  /\ \A g \in 1..Len(groups) : Blocks(groups)[g] = GroupRecords(groups[g])
  /\ FileRecords(groups) \in Seq(Record)

\* The records of a file are those of its groups, one group behind the other.
LEMMA FileLays ==
  ASSUME NEW groups \in Seq(GroupType)
  PROVE  \E f : Lays(f, groups)
<1>1. Len(groups) \in Nat /\ DOMAIN groups = 1..Len(groups) /\ \A g \in 1..Len(groups) : groups[g] \in GroupType
  OBVIOUS
<1>2. \A g \in 1..Len(groups) : GroupRecords(groups[g]) \in Seq(Record)
  BY <1>1, GroupRecordsAre
<1>3. /\ Blocks(groups) \in Seq(Seq(Record)) /\ Len(Blocks(groups)) = Len(groups)
      /\ \A g \in 1..Len(groups) : Blocks(groups)[g] = GroupRecords(groups[g])
  BY <1>1, <1>2 DEF Blocks
<1>4. FileRecords(groups) = FlattenSeq(Blocks(groups))
  BY DEF FileRecords, Blocks
<1>5. PICK f : Flattens(f, Blocks(groups), Record) /\ FlattenSeq(Blocks(groups)) = f[Len(Blocks(groups))]
  BY <1>3, Flattened
<1>6. FileRecords(groups) \in Seq(Record)
  BY <1>3, <1>4, FlattenType
<1>7. QED
  BY <1>3, <1>4, <1>5, <1>6 DEF Lays

\* The records of group g.
RecordOf(groups, f, g) ==
  LET group == groups[g]
      na == Len(group.agents)
      nr == Len(group.rules)
      o == Len(f[g - 1])
      records == FileRecords(groups)
  IN  /\ o \in Nat /\ Len(f[g]) = o + (na + nr) /\ o + (na + nr) <= Len(records)
      /\ na \in Nat \ {0} /\ nr \in Nat \ {0}
      /\ \A a \in 1..na : IsStart(records[o + a]) /\ records[o + a].value = group.agents[a]
      /\ \A r \in 1..nr : /\ ~IsStart(records[(o + na) + r])
                          /\ records[(o + na) + r] = RuleRecord(group.rules[r])

\* Where the records of group g stand in the file.
LEMMA RecordOfIs ==
  ASSUME NEW groups \in Seq(GroupType), NEW f, Lays(f, groups), NEW g \in 1..Len(groups)
  PROVE  RecordOf(groups, f, g)
<1> DEFINE group == groups[g]
           na == Len(group.agents)
           nr == Len(group.rules)
           o == Len(f[g - 1])
           records == FileRecords(groups)
           blocks == Blocks(groups)
           n == Len(groups)
<1>1. /\ Flattens(f, blocks, Record) /\ records = f[n]
      /\ blocks \in Seq(Seq(Record)) /\ Len(blocks) = n
      /\ blocks[g] = GroupRecords(group)
  BY DEF Lays
<1>2. group \in GroupType /\ n \in Nat /\ g \in 0..n /\ n \in g..n
  OBVIOUS
<1>3. /\ na \in Nat \ {0} /\ nr \in Nat \ {0}
      /\ Len(blocks[g]) = na + nr
      /\ \A a \in 1..na : IsStart(blocks[g][a]) /\ blocks[g][a].value = group.agents[a]
      /\ \A r \in 1..nr : ~IsStart(blocks[g][na + r]) /\ blocks[g][na + r] = RuleRecord(group.rules[r])
  <2>1. LET records2 == GroupRecords(group)
        IN  /\ na \in Nat \ {0} /\ nr \in Nat \ {0} /\ Len(records2) = na + nr
            /\ \A a \in 1..na : IsStart(records2[a]) /\ records2[a].value = group.agents[a]
            /\ \A r \in 1..nr : ~IsStart(records2[na + r]) /\ records2[na + r] = RuleRecord(group.rules[r])
    BY <1>2, GroupRecordsAre
  <2>2. QED
    BY <1>1, <2>1
<1> HIDE DEF group, na, nr, records, blocks, n
<1>4. /\ f[g - 1] \in Seq(Record) /\ Len(f[g]) = Len(f[g - 1]) + Len(blocks[g])
      /\ \A j \in 1..Len(blocks[g]) : f[g][Len(f[g - 1]) + j] = blocks[g][j]
  <2>1. g \in 1..Len(blocks)
    BY <1>1 DEF n
  <2>2. Extends(f, blocks, Record, g)
    BY <1>1, <2>1, FlattenStep
  <2>3. QED
    BY <2>2 DEF Extends
<1>5. Len(f[g]) <= Len(f[n]) /\ \A j \in 1..Len(f[g]) : f[n][j] = f[g][j]
  <2>1. g \in 0..Len(blocks) /\ n \in g..Len(blocks)
    BY <1>1, <1>2
  <2>2. BeginsAs(f[n], f[g])
    BY <1>1, <2>1, FlattenKeeps
  <2>3. QED
    BY <2>2 DEF BeginsAs
<1>6. o \in Nat /\ Len(f[g]) = o + (na + nr) /\ o + (na + nr) <= Len(records)
  <2>1. o \in Nat
    BY <1>4
  <2>2. Len(f[g]) = o + (na + nr)
    BY <1>3, <1>4
  <2>3. QED
    BY <1>1, <1>5, <2>1, <2>2
<1> HIDE DEF o
<1>7. ASSUME NEW j \in 1..(na + nr) PROVE records[o + j] = blocks[g][j]
  <2>1. o + j \in 1..Len(f[g])
    BY <1>3, <1>6
  <2>2. QED
    BY <1>1, <1>3, <1>4, <1>5, <2>1 DEF o
<1>8. ASSUME NEW a \in 1..na PROVE IsStart(records[o + a]) /\ records[o + a].value = group.agents[a]
  <2>1. a \in 1..(na + nr)
    BY <1>3
  <2>2. QED
    BY <1>3, <1>7, <2>1
<1>9. ASSUME NEW r \in 1..nr
      PROVE ~IsStart(records[(o + na) + r]) /\ records[(o + na) + r] = RuleRecord(group.rules[r])
  <2>1. na + r \in 1..(na + nr) /\ o + (na + r) = (o + na) + r
    BY <1>3, <1>6
  <2>2. records[o + (na + r)] = blocks[g][na + r]
    BY <1>7, <2>1
  <2>3. QED
    BY <1>3, <2>1, <2>2
<1>10. QED
  BY <1>3, <1>6, <1>8, <1>9 DEF group, na, nr, o, records, RecordOf

-----------------------------------------------------------------------------
\* Of a plain file the rules of one group are taken.

\* Every start is an agent of some group.
LEMMA StartIsAgent ==
  ASSUME NEW groups \in Seq(GroupType), NEW f, Lays(f, groups),
         NEW i \in StartsOf(FileRecords(groups))
  PROVE  \E g \in 1..Len(groups) : \E a \in 1..Len(groups[g].agents) :
           i = Len(f[g - 1]) + a /\ FileRecords(groups)[i].value = groups[g].agents[a]
<1> DEFINE records == FileRecords(groups)
           blocks == Blocks(groups)
           n == Len(groups)
<1>1. /\ Flattens(f, blocks, Record) /\ records = f[n]
      /\ blocks \in Seq(Seq(Record)) /\ Len(blocks) = n /\ records \in Seq(Record)
      /\ \A g \in 1..n : blocks[g] = GroupRecords(groups[g])
  BY DEF Lays
<1>2. i \in 1..Len(records) /\ IsStart(records[i])
  BY <1>1 DEF StartsOf
<1>3. PICK g \in 1..n : \E j \in 1..Len(blocks[g]) : i = Len(f[g - 1]) + j
  <2> HIDE DEF blocks, records
  <2>1. n \in 0..Len(blocks) /\ i \in 1..Len(f[n])
    BY <1>1, <1>2
  <2>2. ComesFrom(f, blocks, n, i)
    BY <1>1, <2>1, FlattenFrom
  <2>3. QED
    BY <2>2 DEF ComesFrom
<1>4. PICK j \in 1..Len(blocks[g]) : i = Len(f[g - 1]) + j
  BY <1>3
<1>5. RecordOf(groups, f, g)
  BY RecordOfIs
<1> DEFINE na == Len(groups[g].agents)
           nr == Len(groups[g].rules)
           o == Len(f[g - 1])
<1>6. /\ o \in Nat /\ na \in Nat \ {0} /\ nr \in Nat \ {0}
      /\ \A a \in 1..na : IsStart(records[o + a]) /\ records[o + a].value = groups[g].agents[a]
      /\ \A r \in 1..nr : ~IsStart(records[(o + na) + r])
  BY <1>5 DEF RecordOf
<1>7. Len(blocks[g]) = na + nr
  <2>1. groups[g] \in GroupType
    OBVIOUS
  <2>2. Len(GroupRecords(groups[g])) = na + nr
    BY <2>1, GroupRecordsAre
  <2>3. QED
    BY <1>1, <2>2
<1> HIDE DEF na, nr, o, records, blocks
<1>8. j \in 1..(na + nr) /\ i = o + j
  BY <1>4, <1>7 DEF o
<1>9. j \in 1..na
  <2>1. SUFFICES ASSUME j > na PROVE FALSE
    BY <1>6, <1>8
  <2>2. j - na \in 1..nr /\ (o + na) + (j - na) = o + j
    BY <1>6, <1>8, <2>1
  <2>3. ~IsStart(records[o + j])
    BY <1>6, <2>2
  <2>4. QED
    BY <1>2, <1>8, <2>3 DEF records
<1>10. i = o + j /\ records[i].value = groups[g].agents[j]
  BY <1>6, <1>8, <1>9
<1>11. QED
  BY <1>9, <1>10 DEF na, o, records

\* What the rules of a group become.
TakenFrom(found, rules) ==
  /\ found \in Seq(Record) /\ Len(found) = Len(rules)
  /\ \A r \in 1..Len(rules) : found[r] = RuleRecord(rules[r])

\* The members behind an agent are the rules of its group.
LEMMA MembersOfGroup ==
  ASSUME NEW groups \in Seq(GroupType), NEW f, Lays(f, groups), NEW g \in 1..Len(groups),
         NEW a \in 1..Len(groups[g].agents)
  PROVE  TakenFrom(Members(FileRecords(groups), Len(f[g - 1]) + a), groups[g].rules)
<1> DEFINE records == FileRecords(groups)
           n == Len(records) + 1
           na == Len(groups[g].agents)
           nr == Len(groups[g].rules)
           o == Len(f[g - 1])
           at == o + a
<1>1. RecordOf(groups, f, g)
  BY RecordOfIs
<1>2. /\ o \in Nat /\ na \in Nat \ {0} /\ nr \in Nat \ {0}
      /\ Len(f[g]) = o + (na + nr) /\ o + (na + nr) <= Len(records)
      /\ \A b \in 1..na : IsStart(records[o + b])
      /\ \A r \in 1..nr : ~IsStart(records[(o + na) + r]) /\ records[(o + na) + r] = RuleRecord(groups[g].rules[r])
  BY <1>1 DEF RecordOf
<1>3. records \in Seq(Record) /\ Len(records) \in Nat /\ n \in Nat
  <2>1. records \in Seq(Record)
    BY DEF Lays
  <2>2. QED
    BY <2>1
<1>4. at \in 1..Len(records)
  <2> HIDE DEF na, nr, o, records
  <2>1. a \in 1..na
    BY DEF na
  <2>2. QED
    BY <1>2, <1>3, <2>1
<1>5. PICK first, last : MembersAt(records, at, first, last)
  <2> HIDE DEF at, records
  <2>1. QED
    BY <1>3, <1>4, MembersAre
<1>6. /\ first \in (at + 1)..n /\ last \in first..n
      /\ first = n \/ ~IsStart(records[first])
      /\ \A i \in (at + 1)..(first - 1) : IsStart(records[i])
      /\ last = n \/ IsStart(records[last])
      /\ \A i \in first..(last - 1) : ~IsStart(records[i])
      /\ Members(records, at) = SubSeq(records, first, last - 1)
  BY <1>5 DEF MembersAt
<1>7. a \in 1..na
  OBVIOUS
\* the record behind the group is another group's start
<1>8. o + (na + nr) + 1 = n \/ IsStart(records[o + (na + nr) + 1])
  <2>1. CASE g = Len(groups)
    <3>1. Len(records) = Len(f[g])
      BY <2>1 DEF Lays
    <3>2. QED
      BY <1>2, <3>1
  <2>2. CASE g # Len(groups)
    <3> DEFINE h == g + 1
    <3>1. h \in 1..Len(groups) /\ h - 1 = g
      BY <2>2
    <3> HIDE DEF h
    <3>2. RecordOf(groups, f, h)
      BY <3>1, RecordOfIs
    <3>3. /\ Len(groups[h].agents) \in Nat \ {0}
          /\ \A b \in 1..Len(groups[h].agents) : IsStart(records[Len(f[h - 1]) + b])
      BY <3>2 DEF RecordOf
    <3>4. 1 \in 1..Len(groups[h].agents)
      BY <3>3
    <3>5. IsStart(records[Len(f[h - 1]) + 1])
      BY <3>3, <3>4
    <3>6. Len(f[h - 1]) + 1 = o + (na + nr) + 1
      BY <1>2, <3>1
    <3>7. QED
      BY <3>5, <3>6
  <2>3. QED
    BY <2>1, <2>2
<1> HIDE DEF na, nr, o, records
<1> DEFINE F == (o + na) + 1
           L == o + (na + nr) + 1
<1>9. F \in (at + 1)..n /\ L \in F..n /\ L - F = nr /\ F \in Nat /\ L \in Nat /\ at \in Nat
  BY <1>2, <1>3, <1>7
<1>10. \A i \in (at + 1)..(F - 1) : IsStart(records[i])
  <2>1. SUFFICES ASSUME NEW i \in (at + 1)..(F - 1) PROVE IsStart(records[i])
    OBVIOUS
  <2>2. i - o \in 1..na /\ o + (i - o) = i
    BY <1>2, <1>7, <2>1
  <2>3. QED
    BY <1>2, <2>2
<1>11. \A i \in F..(L - 1) : ~IsStart(records[i])
  <2>1. SUFFICES ASSUME NEW i \in F..(L - 1) PROVE ~IsStart(records[i])
    OBVIOUS
  <2>2. i - (o + na) \in 1..nr /\ (o + na) + (i - (o + na)) = i
    BY <1>2, <1>7, <2>1
  <2>3. QED
    BY <1>2, <2>2
<1>12. L = n \/ IsStart(records[L])
  BY <1>8
<1>13. L - 1 >= F /\ ~IsStart(records[F])
  <2>1. L - 1 >= F
    BY <1>2, <1>9
  <2>2. F \in F..(L - 1)
    BY <1>9, <2>1
  <2>3. QED
    BY <1>11, <2>1, <2>2
<1> HIDE DEF F, L, n, at
<1>14. first = F
  <2>1. ~(first < F)
    <3>1. SUFFICES ASSUME first < F PROVE FALSE
      OBVIOUS
    <3>2. first \in (at + 1)..(F - 1) /\ first # n
      BY <1>6, <1>9, <3>1
    <3>3. QED
      BY <1>6, <1>10, <3>2
  <2>2. ~(F < first)
    <3>1. SUFFICES ASSUME F < first PROVE FALSE
      OBVIOUS
    <3>2. F \in (at + 1)..(first - 1)
      BY <1>6, <1>9, <3>1
    <3>3. QED
      BY <1>6, <1>13, <3>2
  <2>3. QED
    BY <1>6, <1>9, <2>1, <2>2
<1>15. last = L
  <2>1. ~(last < L)
    <3>1. SUFFICES ASSUME last < L PROVE FALSE
      OBVIOUS
    <3>2. last \in F..(L - 1) /\ last # n
      BY <1>3, <1>6, <1>9, <1>14, <3>1
    <3>3. QED
      BY <1>6, <1>11, <3>2
  <2>2. ~(L < last)
    <3>1. SUFFICES ASSUME L < last PROVE FALSE
      OBVIOUS
    <3>2. L \in first..(last - 1) /\ L # n
      BY <1>3, <1>6, <1>9, <1>14, <3>1
    <3>3. QED
      BY <1>6, <1>12, <3>2
  <2>3. QED
    BY <1>6, <1>9, <1>14, <2>1, <2>2
<1> DEFINE found == SubSeq(records, F, L - 1)
<1>16. Members(records, at) = found
  BY <1>6, <1>14, <1>15
<1>17. /\ found \in Seq(Record)
       /\ Len(found) = IF F <= L - 1 THEN (L - 1) - F + 1 ELSE 0
       /\ \A i \in 1..((L - 1) - F + 1) : found[i] = records[F + i - 1]
  <2>1. F \in 1..(Len(records) + 1) /\ L - 1 \in 0..Len(records)
    BY <1>3, <1>9, <1>4 DEF n
  <2>2. QED
    BY <1>3, <2>1, Slices
<1>18. Len(found) = nr /\ (L - 1) - F + 1 = nr
  BY <1>9, <1>13, <1>17
<1>19. ASSUME NEW r \in 1..nr PROVE found[r] = RuleRecord(groups[g].rules[r])
  <2>1. F + r - 1 = (o + na) + r
    BY <1>2, <1>9 DEF F
  <2>2. found[r] = records[F + r - 1]
    BY <1>17, <1>18
  <2>3. QED
    BY <1>2, <2>1, <2>2
<1> HIDE DEF found
<1>20. TakenFrom(found, groups[g].rules)
  BY <1>17, <1>18, <1>19 DEF TakenFrom, nr
<1>21. QED
  BY <1>16, <1>20 DEF at, o, records

\* The agents of all groups.
AgentsOf(groups) == UNION {Range(groups[i].agents) : i \in DOMAIN groups}

\* What the parts of a group are.
LEMMA GroupParts ==
  ASSUME NEW groups \in Seq(GroupType), NEW g \in DOMAIN groups
  PROVE  /\ g \in 1..Len(groups) /\ groups[g] \in GroupType
         /\ groups[g].agents \in Seq(Seq(STRING)) /\ groups[g].rules \in Seq(RuleType)
         /\ DOMAIN groups[g].agents = 1..Len(groups[g].agents)
<1>1. g \in 1..Len(groups) /\ groups[g] \in GroupType
  OBVIOUS
<1>2. groups[g].agents \in Seq(Seq(STRING)) /\ groups[g].rules \in Seq(RuleType)
  BY <1>1 DEF GroupType
<1>3. QED
  BY <1>1, <1>2

\* The parts of Plain about the agents.
LEMMA PlainAgents ==
  ASSUME NEW groups \in Seq(GroupType), Plain(groups)
  PROVE  /\ \A i, j \in DOMAIN groups :
              \A a \in DOMAIN groups[i].agents, b \in DOMAIN groups[j].agents :
                groups[i].agents[a] = groups[j].agents[b] => i = j /\ a = b
         /\ \A a \in AgentsOf(groups) : a = USER_AGENT \/ (a # <<>> /\ Head(a) # Head(USER_AGENT))
         /\ AgentsOf(groups) # {} => USER_AGENT \in AgentsOf(groups) \/ <<"*">> \in AgentsOf(groups)
BY DEF Plain, AgentsOf

\* The start that is taken is for us, or for all if none is.
LEMMA MatchIsOurs ==
  ASSUME NEW groups \in Seq(GroupType), NEW f, Lays(f, groups), Plain(groups), groups # <<>>
  PROVE  /\ MaxMatch(FileRecords(groups)) \in StartsOf(FileRecords(groups))
         /\ FileRecords(groups)[MaxMatch(FileRecords(groups))].value =
              IF USER_AGENT \in AgentsOf(groups) THEN USER_AGENT ELSE <<"*">>
<1> DEFINE records == FileRecords(groups)
           starts == StartsOf(records)
           Value(i) == records[i].value
           compared == {user_agent_compare(Value(i)) : i \in starts}
           best == Max(compared)
           stars == {i \in starts : Value(i) = <<"*">>}
           bests == {i \in starts : user_agent_compare(Value(i)) = best}
           at == MaxMatch(records)
           agents == AgentsOf(groups)
<1>1. records \in Seq(Record)
  BY DEF Lays
<1>2. DOMAIN groups = 1..Len(groups) /\ Len(groups) \in Nat \ {0}
  OBVIOUS
\* the values of the starts are the agents
<1>3. ASSUME NEW i \in starts PROVE Value(i) \in agents /\ Value(i) \in Seq(Symbol)
  <2>1. PICK g \in 1..Len(groups) : \E a \in 1..Len(groups[g].agents) :
           i = Len(f[g - 1]) + a /\ Value(i) = groups[g].agents[a]
    BY StartIsAgent
  <2>2. PICK a \in 1..Len(groups[g].agents) : Value(i) = groups[g].agents[a]
    BY <2>1
  <2>3. groups[g].agents \in Seq(Seq(STRING))
    BY <1>2, GroupParts
  <2>4. Value(i) \in Range(groups[g].agents) /\ Value(i) \in Seq(STRING)
    BY <2>2, <2>3 DEF Range
  <2>5. QED
    BY <1>2, <2>4, Symbols DEF AgentsOf
<1>4. ASSUME NEW v \in agents PROVE \E i \in starts : Value(i) = v
  <2>1. PICK g \in DOMAIN groups : v \in Range(groups[g].agents)
    BY DEF AgentsOf
  <2>2. groups[g].agents \in Seq(Seq(STRING))
    BY GroupParts
  <2>3. PICK a \in 1..Len(groups[g].agents) : v = groups[g].agents[a]
    BY <2>1, <2>2 DEF Range
  <2>4. RecordOf(groups, f, g)
    BY <1>2, RecordOfIs
  <2> DEFINE o == Len(f[g - 1])
             na == Len(groups[g].agents)
  <2>5. /\ o \in Nat /\ na \in Nat /\ Len(groups[g].rules) \in Nat
        /\ o + (na + Len(groups[g].rules)) <= Len(records)
        /\ IsStart(records[o + a]) /\ Value(o + a) = groups[g].agents[a]
    BY <2>3, <2>4 DEF RecordOf
  <2> HIDE DEF o, na, records
  <2>6. o + a \in 1..Len(records)
    <3> DEFINE nr == Len(groups[g].rules)
               n == Len(records)
    <3>1. nr \in Nat /\ n \in Nat /\ o + (na + nr) <= n
      BY <1>1, <2>5
    <3>2. a \in 1..na
      BY <2>3 DEF na
    <3> HIDE DEF nr, n
    <3>3. o + a \in 1..n
      BY <2>5, <3>1, <3>2
    <3>4. QED
      BY <3>3 DEF n
  <2>7. o + a \in starts
    BY <1>1, <2>5, <2>6 DEF StartsOf
  <2>8. QED
    BY <2>3, <2>5, <2>7
<1>5. /\ \A a \in agents : a = USER_AGENT \/ (a # <<>> /\ Head(a) # Head(USER_AGENT))
      /\ agents # {} => USER_AGENT \in agents \/ <<"*">> \in agents
  BY PlainAgents
<1>6. agents # {}
  <2>1. 1 \in DOMAIN groups /\ groups[1] \in GroupType
    BY <1>2
  <2>2. groups[1].agents \in Seq(Seq(STRING)) /\ groups[1].agents # <<>>
    BY <2>1 DEF GroupType
  <2>3. groups[1].agents[1] \in Range(groups[1].agents)
    BY <2>2 DEF Range
  <2>4. QED
    BY <2>1, <2>3 DEF AgentsOf
<1>7. at = IF best = 0 /\ stars # {} THEN Max(stars) ELSE Min(bests)
  BY DEF MaxMatch, StartsOf
<1> HIDE DEF agents
<1>8. starts # {}
  BY <1>4, <1>6
<1>9. at \in starts
  BY <1>1, <1>8, MaxMatchIn
<1>10. starts \in SUBSET Nat /\ \A i \in starts : i <= Len(records)
  BY <1>1 DEF StartsOf
<1>11. Len(records) \in Nat /\ Len(USER_AGENT) \in Nat \ {0}
  BY <1>1, AgentIs
<1> HIDE DEF records, starts, Value, at
<1>12. \A i \in starts : user_agent_compare(Value(i)) = IF Value(i) = USER_AGENT THEN Len(USER_AGENT) ELSE 0
  <2>1. ASSUME NEW i \in starts
        PROVE  user_agent_compare(Value(i)) = IF Value(i) = USER_AGENT THEN Len(USER_AGENT) ELSE 0
    BY <1>3, <1>5, CompareIs
  <2>2. QED
    BY <2>1
<1>13. best \in compared /\ \A y \in compared : y <= best
  <2>1. compared \in SUBSET Nat /\ compared # {} /\ \A y \in compared : y <= Len(USER_AGENT)
    BY <1>8, <1>11, <1>12
  <2> HIDE DEF compared
  <2>2. QED
    BY <1>11, <2>1, MaxInSet
<1>14. CASE USER_AGENT \in agents
  <2>1. PICK i \in starts : Value(i) = USER_AGENT
    BY <1>4, <1>14
  <2>2. Len(USER_AGENT) \in compared
    BY <1>12, <2>1
  <2>3. best = Len(USER_AGENT)
    <3>1. \A y \in compared : y = 0 \/ y = Len(USER_AGENT)
      BY <1>12
    <3> HIDE DEF compared, best
    <3>2. QED
      BY <1>11, <1>13, <2>2, <3>1
  <2>4. best # 0
    BY <1>11, <2>3
  <2>5. at = Min(bests)
    BY <1>7, <2>4
  <2>6. bests # {} /\ bests \in SUBSET Nat
    BY <1>10, <1>13
  <2>7. Min(bests) \in bests
    <3> HIDE DEF bests
    <3>1. QED
      BY <2>6, MinInSet
  <2>8. user_agent_compare(Value(at)) = Len(USER_AGENT)
    BY <2>3, <2>5, <2>7
  <2>9. Value(at) = USER_AGENT
    BY <1>9, <1>11, <1>12, <2>8
  <2>10. QED
    BY <1>9, <1>14, <2>9 DEF Value, records, starts, at, agents
<1>15. CASE USER_AGENT \notin agents
  <2>1. <<"*">> \in agents
    BY <1>5, <1>6, <1>15
  <2>2. stars # {}
    BY <1>4, <2>1
  <2>3. \A i \in starts : Value(i) # USER_AGENT
    BY <1>3, <1>15
  <2>4. \A y \in compared : y = 0
    BY <1>12, <2>3
  <2>5. best = 0
    <3> HIDE DEF compared, best
    <3>1. QED
      BY <1>13, <2>4
  <2>6. at = Max(stars)
    BY <1>7, <2>2, <2>5
  <2>7. stars \in SUBSET Nat /\ \A i \in stars : i <= Len(records)
    BY <1>10
  <2>8. Max(stars) \in stars
    <3> HIDE DEF stars
    <3>1. QED
      BY <1>11, <2>2, <2>7, MaxInSet
  <2>9. Value(at) = <<"*">>
    BY <2>6, <2>8
  <2>10. QED
    BY <1>9, <1>15, <2>9 DEF Value, records, starts, at, agents
<1>16. QED
  BY <1>14, <1>15

\* Of a plain file the rules of the group for this program are taken, or of that for all.
LEMMA PlainRules ==
  ASSUME NEW groups \in Seq(GroupType), Plain(groups)
  PROVE  \E rules \in Seq(RuleType) :
           /\ Range(rules) = Rules(groups)
           /\ TakenFrom(extract_applicable_records(FileRecords(groups)), rules)
<1> DEFINE records == FileRecords(groups)
<1>0. PICK f : Lays(f, groups)
  BY FileLays
<1>1. CASE groups = <<>>
  <2>1. Rules(groups) = {}
    BY <1>1 DEF Rules
  <2>2. records \in Seq(Record) /\ records = f[0]
    BY <1>0, <1>1 DEF Lays
  <2>3. records = <<>>
    BY <1>0, <2>2 DEF Lays, Flattens
  <2>4. extract_applicable_records(records) = <<>>
    BY <2>3 DEF extract_applicable_records
  <2>5. TakenFrom(<<>>, <<>>) /\ Range(<<>>) = {} /\ <<>> \in Seq(RuleType)
    BY DEF TakenFrom, Range
  <2>6. QED
    BY <2>1, <2>4, <2>5
<1>2. CASE groups # <<>>
  <2> DEFINE at == MaxMatch(records)
             v == IF USER_AGENT \in AgentsOf(groups) THEN USER_AGENT ELSE <<"*">>
  <2>1. at \in StartsOf(records) /\ records[at].value = v
    BY <1>0, <1>2, MatchIsOurs
  <2>2. extract_applicable_records(records) = Members(records, at)
    BY <2>1 DEF extract_applicable_records, StartsOf
  <2>3. PICK g \in 1..Len(groups) : \E a \in 1..Len(groups[g].agents) :
           at = Len(f[g - 1]) + a /\ records[at].value = groups[g].agents[a]
    BY <1>0, <2>1, StartIsAgent
  <2>4. PICK a \in 1..Len(groups[g].agents) :
           at = Len(f[g - 1]) + a /\ records[at].value = groups[g].agents[a]
    BY <2>3
  <2>5. TakenFrom(Members(records, at), groups[g].rules)
    BY <1>0, <2>4, MembersOfGroup
  <2>6. g \in DOMAIN groups /\ DOMAIN groups[g].agents = 1..Len(groups[g].agents) /\ groups[g].rules \in Seq(RuleType)
    <3>1. g \in DOMAIN groups
      OBVIOUS
    <3>2. QED
      BY <3>1, GroupParts
  <2>7. groups[g].agents[a] = v
    BY <2>1, <2>4
  <2>8. \A i \in DOMAIN groups : v \in Range(groups[i].agents) <=> i = g
    <3>1. v \in Range(groups[g].agents)
      BY <2>6, <2>7 DEF Range
    <3>2. ASSUME NEW i \in DOMAIN groups, v \in Range(groups[i].agents) PROVE i = g
      <4>1. PICK b \in DOMAIN groups[i].agents : groups[i].agents[b] = v
        BY <3>2 DEF Range
      <4>2. QED
        BY <2>6, <2>7, <4>1, PlainAgents
    <3>3. QED
      BY <3>1, <3>2
  <2> DEFINE For(agent) == {i \in DOMAIN groups : agent \in Range(groups[i].agents)}
             ours == IF For(USER_AGENT) # {} THEN For(USER_AGENT) ELSE For(<<"*">>)
  <2>9. For(USER_AGENT) # {} <=> USER_AGENT \in AgentsOf(groups)
    BY DEF AgentsOf
  <2>10. ours = For(v)
    BY <2>9
  <2>11. For(v) = {g}
    BY <2>6, <2>8
  <2>12. Rules(groups) = UNION {Range(groups[i].rules) : i \in ours}
    BY DEF Rules
  <2> HIDE DEF ours
  <2>13. ours = {g}
    BY <2>10, <2>11
  <2>14. Rules(groups) = Range(groups[g].rules)
    BY <2>12, <2>13
  <2>15. QED
    BY <2>2, <2>5, <2>6, <2>14
<1>3. QED
  BY <1>1, <1>2

-----------------------------------------------------------------------------
\* fnmatch, by the equation its ends solve.

\* How much of the path i symbols of the pattern can match, by what the ones before can;
\* e is the function that fnmatch defines.
EndsAt(p, s, e, i) ==
  IF i = 0 THEN {0}
  ELSE IF p[i] = "*" THEN {k \in 0..Len(s) : \E j \in e[i - 1] : j <= k}
  ELSE {k \in 1..Len(s) : k - 1 \in e[i - 1] /\ p[i] \in {"?", s[k]}}

Ends(e, p, s) ==
  /\ e \in [0..Len(p) -> SUBSET (0..Len(s))]
  /\ \A i \in 0..Len(p) : e[i] = EndsAt(p, s, e, i)

\* A pattern without brackets and escapes; each of its symbols is a unit.
UnitsAreOne(p) == \A i \in 1..Len(p) : p[i] \notin {"[", "\\"}

\* One symbol matches itself, or any if it is a "?".
LEMMA UnitIsOne ==
  ASSUME NEW p, NEW i \in 1..Len(p), UnitsAreOne(p)
  PROVE  /\ {u \in 1..i : UnitEnd(p, u) = i} = {i}
         /\ \A c : UnitMatches(p, i, i, c) <=> p[i] \in {"?", c}
<1>1. \A u \in 1..i : UnitEnd(p, u) = u
  BY DEF UnitsAreOne, UnitEnd
<1>2. p[i] # "[" /\ p[i] # "\\"
  BY DEF UnitsAreOne
<1>3. QED
  BY <1>1, <1>2 DEF UnitMatches

\* fnmatch holds if the whole path is one of the ends of the whole pattern.
LEMMA FnmatchEnds ==
  ASSUME NEW p \in Seq(Symbol), NEW s \in Seq(Symbol), UnitsAreOne(p)
  PROVE  \E e : Ends(e, p, s) /\ (fnmatch(p, s) <=> Len(s) \in e[Len(p)])
<1> DEFINE n == Len(p)
           D == 0..n
           V == SUBSET (0..Len(s))
           body == [q \in [D -> V] \X D |-> EndsAt(p, s, q[1], q[2])]
           rank == [i \in D |-> i]
<1>1. n \in Nat /\ Len(s) \in Nat
  OBVIOUS
<1>2. \A g \in [D -> V], i \in D : body[<<g, i>>] = EndsAt(p, s, g, i)
  OBVIOUS
<1>3. ASSUME NEW g, NEW i \in D PROVE EndsAt(p, s, g, i) \in V
  <2>1. {0} \in V
    BY <1>1
  <2>2. {k \in 0..Len(s) : \E j \in g[i - 1] : j <= k} \in V
    OBVIOUS
  <2>3. {k \in 1..Len(s) : k - 1 \in g[i - 1] /\ p[i] \in {"?", s[k]}} \in V
    BY <1>1
  <2>4. QED
    BY <2>1, <2>2, <2>3 DEF EndsAt
<1>4. body \in [[D -> V] \X D -> V]
  <2> HIDE DEF V
  <2>1. \A q \in [D -> V] \X D : EndsAt(p, s, q[1], q[2]) \in V
    BY <1>3
  <2>2. QED
    BY <2>1
<1>5. rank \in [D -> Nat] /\ \A i \in D : rank[i] = i /\ rank[i] < n + 1
  BY <1>1
<1>6. V # {} /\ n + 1 \in Nat
  <2>1. {} \in V
    OBVIOUS
  <2> HIDE DEF V
  <2>2. V # {}
    BY <2>1
  <2>3. n + 1 \in Nat
    BY <1>1
  <2>4. QED
    BY <2>2, <2>3
<1> HIDE DEF body, rank, V
<1>7. ASSUME NEW g \in [D -> V], NEW h \in [D -> V], NEW i \in D,
             \A j \in D : rank[j] < rank[i] => g[j] = h[j]
      PROVE  body[<<g, i>>] = body[<<h, i>>]
  <2>1. CASE i = 0
    BY <1>2, <2>1 DEF EndsAt
  <2>2. CASE i # 0
    <3>1. i - 1 \in D /\ i - 1 < i
      BY <1>1, <2>2
    <3>2. g[i - 1] = h[i - 1]
      BY <1>5, <1>7, <3>1
    <3>3. EndsAt(p, s, g, i) = EndsAt(p, s, h, i)
      BY <3>2, Zenon DEF EndsAt
    <3>4. QED
      BY <1>2, <3>3
  <2>3. QED
    BY <2>1, <2>2
<1>8. Recursive(D, V, rank, body, n + 1)
  <2> HIDE DEF D, n
  <2>1. \A g, h \in [D -> V], x \in D :
          (\A y \in D : rank[y] < rank[x] => g[y] = h[y]) => body[<<g, x>>] = body[<<h, x>>]
    BY <1>7
  <2>2. QED
    BY <1>4, <1>5, <1>6, <2>1 DEF Recursive
<1>9. PICK g : Solves(g, D, V, body)
  BY <1>8, Recursion
<1>10. g \in [D -> V] /\ \A i \in D : g[i] = EndsAt(p, s, g, i)
  BY <1>2, <1>9 DEF Solves
<1> DEFINE At(f, i) ==
             IF i = 0 THEN {0}
             ELSE UNION {Onward(p, u, i, s, f[u - 1]) : u \in {u \in 1..i : UnitEnd(p, u) = i}}
           F == CHOOSE f : f = [i \in 0..Len(p) |-> At(f, i)]
<1>11. fnmatch(p, s) <=> Len(s) \in F[Len(p)]
  BY Zenon DEF fnmatch
<1>12. ASSUME NEW f, NEW i \in D PROVE At(f, i) = EndsAt(p, s, f, i)
  <2>1. CASE i = 0
    BY <2>1 DEF EndsAt
  <2>2. CASE i # 0
    <3>1. i \in 1..Len(p)
      BY <1>1, <2>2 DEF D
    <3>2. {u \in 1..i : UnitEnd(p, u) = i} = {i} /\ \A c : UnitMatches(p, i, i, c) <=> p[i] \in {"?", c}
      BY <3>1, UnitIsOne
    <3>3. Onward(p, i, i, s, f[i - 1]) = EndsAt(p, s, f, i)
      BY <2>2, <3>2 DEF EndsAt, Onward
    <3>4. At(f, i) = UNION {Onward(p, u, i, s, f[u - 1]) : u \in {i}}
      BY <2>2, <3>2
    <3>5. QED
      BY <3>3, <3>4
  <2>3. QED
    BY <2>1, <2>2
<1>13. g = [i \in 0..Len(p) |-> At(g, i)]
  <2> HIDE DEF At
  <2>1. \A i \in D : g[i] = At(g, i)
    BY <1>10, <1>12
  <2>2. QED
    BY <1>10, <2>1
<1>14. F = [i \in 0..Len(p) |-> At(F, i)]
  <2> HIDE DEF At
  <2>1. QED
    BY <1>13
<1> HIDE DEF F, At
<1>15. \A i \in D : F[i] = EndsAt(p, s, F, i)
  BY <1>12, <1>14
<1>16. F \in [D -> V]
  <2>1. \A i \in D : F[i] \in V
    BY <1>3, <1>15
  <2>2. F = [i \in D |-> F[i]]
    BY <1>14
  <2>3. QED
    BY <2>1, <2>2
<1>17. Ends(F, p, s)
  BY <1>15, <1>16 DEF Ends, V
<1>18. QED
  BY <1>11, <1>17

\* The symbols of the pattern behind i up to n stand in the path behind k.
Stand(p, i, n, s, k) ==
  k + (n - i) <= Len(s) /\ \A j \in 1..(n - i) : p[i + j] = s[k + j]
Literal(p, i, n) == \A j \in (i + 1)..n : p[j] \notin {"*", "?"}
Moves(e, p, i, n, s) ==
  \A m \in 0..Len(s) : m \in e[n] <=> \E k \in e[i] : m = k + (n - i) /\ Stand(p, i, n, s, k)

\* Symbols that only stand for themselves match one by one.
LEMMA LiteralEnds ==
  ASSUME NEW p \in Seq(Symbol), NEW s \in Seq(Symbol), NEW e, Ends(e, p, s),
         NEW i \in 0..Len(p), NEW n \in i..Len(p), Literal(p, i, n)
  PROVE  Moves(e, p, i, n, s)
<1>1. Len(p) \in Nat /\ Len(s) \in Nat /\ i \in Nat /\ n \in Nat
  OBVIOUS
<1>2. \A j \in 0..Len(p) : e[j] \subseteq 0..Len(s) /\ e[j] = EndsAt(p, s, e, j)
  BY DEF Ends
<1> DEFINE P == {d \in Nat : i + d <= n => Moves(e, p, i, i + d, s)}
<1>3. 0 \in P
  <2>1. ASSUME NEW k \in e[i] PROVE k + ((i + 0) - i) = k /\ Stand(p, i, i + 0, s, k)
    <3>1. k \in 0..Len(s)
      BY <1>2
    <3>2. k + ((i + 0) - i) = k /\ k <= Len(s) /\ 1..((i + 0) - i) = {}
      BY <1>1, <3>1
    <3>3. QED
      BY <3>2 DEF Stand
  <2>2. i + 0 = i
    BY <1>1
  <2>3. QED
    BY <2>1, <2>2 DEF Moves
<1>4. ASSUME NEW d \in Nat, d \in P PROVE d + 1 \in P
  <2> DEFINE c == i + d
  <2>1. SUFFICES ASSUME i + (d + 1) <= n PROVE Moves(e, p, i, i + (d + 1), s)
    OBVIOUS
  <2>2. c \in Nat /\ c <= n /\ i + (d + 1) = c + 1 /\ c + 1 \in (i + 1)..n /\ c \in 0..Len(p)
        /\ c + 1 \in 0..Len(p) /\ c + 1 # 0 /\ (c + 1) - 1 = c /\ c - i = d /\ (c + 1) - i = d + 1
    BY <1>1, <2>1
  <2>3. Moves(e, p, i, c, s)
    BY <1>4, <2>2
  <2> HIDE DEF c
  <2>4. p[c + 1] # "*" /\ p[c + 1] # "?"
    BY <2>2 DEF Literal
  <2>5. e[c + 1] = {k \in 1..Len(s) : k - 1 \in e[c] /\ p[c + 1] \in {"?", s[k]}}
    <3>1. e[c + 1] = EndsAt(p, s, e, c + 1)
      BY <1>2, <2>2
    <3>2. QED
      BY <2>2, <2>4, <3>1 DEF EndsAt
  <2>6. \A m : m \in e[c + 1] <=> m \in 1..Len(s) /\ m - 1 \in e[c] /\ p[c + 1] = s[m]
    BY <2>4, <2>5
  <2>7. ASSUME NEW m \in 0..Len(s), m \in e[c + 1]
        PROVE  \E k \in e[i] : m = k + ((c + 1) - i) /\ Stand(p, i, c + 1, s, k)
    <3>1. m \in 1..Len(s) /\ m - 1 \in e[c] /\ p[c + 1] = s[m] /\ m - 1 \in 0..Len(s)
      BY <1>1, <2>6, <2>7
    <3>2. PICK k \in e[i] : m - 1 = k + (c - i) /\ Stand(p, i, c, s, k)
      BY <2>3, <3>1 DEF Moves
    <3>3. k \in 0..Len(s)
      BY <1>2
    <3>4. m = k + (d + 1) /\ k + (d + 1) <= Len(s)
      BY <1>1, <2>2, <3>1, <3>2, <3>3
    <3>5. ASSUME NEW j \in 1..(d + 1) PROVE p[i + j] = s[k + j]
      <4>1. CASE j = d + 1
        <5>1. i + j = c + 1 /\ k + j = m
          BY <1>1, <2>2, <3>3, <3>4, <4>1
        <5>2. QED
          BY <3>1, <5>1
      <4>2. CASE j # d + 1
        <5>1. j \in 1..(c - i)
          BY <2>2, <4>2
        <5>2. QED
          BY <3>2, <5>1 DEF Stand
      <4>3. QED
        BY <4>1, <4>2
    <3>6. Stand(p, i, c + 1, s, k)
      BY <2>2, <3>4, <3>5 DEF Stand
    <3>7. QED
      BY <2>2, <3>4, <3>6
  <2>8. ASSUME NEW m \in 0..Len(s), NEW k \in e[i], m = k + ((c + 1) - i), Stand(p, i, c + 1, s, k)
        PROVE  m \in e[c + 1]
    <3>1. k \in 0..Len(s) /\ m = k + (d + 1)
      BY <1>2, <2>2, <2>8
    <3>2. \A j \in 1..(d + 1) : p[i + j] = s[k + j]
      BY <2>2, <2>8 DEF Stand
    <3>0. k \in Nat /\ m \in Nat /\ m <= Len(s) /\ m # 0
      BY <1>1, <3>1
    <3>3. m - 1 = k + (c - i) /\ m - 1 \in 0..Len(s) /\ m \in 1..Len(s) /\ k + (c - i) <= Len(s)
      <4>1. m - 1 = k + d /\ c - i = d
        BY <2>2, <3>0, <3>1
      <4>2. m - 1 \in 0..Len(s) /\ m \in 1..Len(s) /\ k + d <= Len(s)
        BY <1>1, <3>0, <4>1
      <4>3. QED
        BY <4>1, <4>2
    <3>4. Stand(p, i, c, s, k)
      <4>1. \A j \in 1..(c - i) : p[i + j] = s[k + j]
        <5>1. \A j \in 1..(c - i) : j \in 1..(d + 1)
          BY <2>2
        <5>2. QED
          BY <3>2, <5>1
      <4>2. QED
        BY <3>3, <4>1 DEF Stand
    <3>5. m - 1 \in e[c]
      BY <2>3, <3>3, <3>4 DEF Moves
    <3>6. p[c + 1] = s[m]
      <4>1. d + 1 \in 1..(d + 1) /\ i + (d + 1) = c + 1 /\ k + (d + 1) = m
        BY <2>2, <3>1
      <4>2. QED
        BY <3>2, <4>1
    <3>7. QED
      BY <2>6, <3>3, <3>5, <3>6
  <2>9. Moves(e, p, i, c + 1, s)
    BY <2>7, <2>8 DEF Moves
  <2>10. QED
    BY <2>2, <2>9
<1>5. \A d \in Nat : d \in P
  <2> HIDE DEF P
  <2> QED BY <1>3, <1>4, SetInduction
<1>6. n - i \in Nat /\ i + (n - i) = n
  BY <1>1
<1>7. n - i \in P
  BY <1>5, <1>6
<1>8. QED
  BY <1>6, <1>7

\* A star moves any distance.
LEMMA StarEnds ==
  ASSUME NEW p \in Seq(Symbol), NEW s \in Seq(Symbol), NEW e, Ends(e, p, s),
         NEW i \in 1..Len(p), p[i] = "*", NEW m \in 0..Len(s)
  PROVE  m \in e[i] <=> \E k \in e[i - 1] : k <= m
<1>1. i \in 0..Len(p) /\ i # 0
  OBVIOUS
<1>2. e[i] = EndsAt(p, s, e, i)
  BY <1>1 DEF Ends
<1>3. e[i] = {k \in 0..Len(s) : \E j \in e[i - 1] : j <= k}
  BY <1>1, <1>2 DEF EndsAt
<1>4. QED
  BY <1>3

-----------------------------------------------------------------------------
\* A rule's pattern matches as the rule is meant.

\* A prefix, element by element.
LEMMA PrefixIs ==
  ASSUME NEW s \in Seq(Symbol), NEW t \in Seq(Symbol)
  PROVE  IsPrefix(s, t) <=> Len(s) <= Len(t) /\ \A j \in 1..Len(s) : s[j] = t[j]
<1> DEFINE n == Len(s)
<1>1. n \in Nat /\ Len(t) \in Nat
  OBVIOUS
<1>2. CASE ~(n <= Len(t))
  BY <1>2 DEF IsPrefix
<1>3. CASE n <= Len(t)
  <2>1. n \in 0..Len(s) /\ n \in 0..Len(t) /\ 1 \in 1..(Len(s) + 1) /\ 1 \in 1..(Len(t) + 1)
        /\ (1 <= n => n - 1 + 1 = n) /\ \A i \in 1..n : 1 + i - 1 = i
    BY <1>1, <1>3
  <2> DEFINE u == SubSeq(s, 1, n)
             v == SubSeq(t, 1, n)
  <2>2. /\ u \in Seq(Symbol) /\ Len(u) = (IF 1 <= n THEN n - 1 + 1 ELSE 0)
        /\ \A i \in 1..(n - 1 + 1) : u[i] = s[1 + i - 1]
    BY <2>1, Slices
  <2>3. /\ v \in Seq(Symbol) /\ Len(v) = (IF 1 <= n THEN n - 1 + 1 ELSE 0)
        /\ \A i \in 1..(n - 1 + 1) : v[i] = t[1 + i - 1]
    BY <2>1, Slices
  <2>4. IsPrefix(s, t) <=> u = v
    BY <1>3 DEF IsPrefix
  <2> HIDE DEF u, v, n
  <2>5. Len(u) = n /\ Len(v) = n /\ \A i \in 1..n : u[i] = s[i] /\ v[i] = t[i]
    BY <1>1, <2>1, <2>2, <2>3
  <2>6. (\A i \in 1..n : u[i] = v[i]) => u = v
    BY <2>2, <2>3, <2>5, SeqEqual
  <2>7. u = v <=> \A j \in 1..n : s[j] = t[j]
    BY <2>5, <2>6
  <2>8. QED
    BY <1>3, <2>4, <2>7 DEF n
<1>4. QED
  BY <1>2, <1>3

\* The rules of a plain file; a rule has no more than one "*".
PlainPath(r) ==
  /\ r \in Seq(Symbol) /\ r # <<>> /\ Head(r) = "/" /\ {"?", "[", "\\"} \cap Range(r) = {}
  /\ Cardinality(Stars(r)) <= 1
StarIsOne(r) == \A i, j \in DOMAIN r : r[i] = "*" /\ r[j] = "*" => i = j

\* The weight of a rule: what the program takes for its length.
LEMMA WeightIs ==
  ASSUME NEW r, PlainPath(r)
  PROVE  /\ StarIsOne(r)
         /\ Weight(r) = Len(r) - (IF Has(r, "*") THEN 1 ELSE 0)
         /\ Weight(r) \in Nat \ {0}
<1>1. r \in Seq(Symbol) /\ Len(r) \in Nat \ {0} /\ DOMAIN r = 1..Len(r) /\ r[1] = "/"
  BY DEF PlainPath
<1>2. IsFiniteSet(1..Len(r)) /\ Stars(r) \in SUBSET (1..Len(r))
  BY <1>1, FS_Interval DEF Stars
<1>3. IsFiniteSet(Stars(r))
  BY <1>2, FS_Subset
<1>4. ASSUME NEW i \in DOMAIN r, NEW j \in DOMAIN r, r[i] = "*", r[j] = "*" PROVE i = j
  <2>1. SUFFICES ASSUME i # j PROVE FALSE
    OBVIOUS
  <2>2. {i} \cup {j} \in SUBSET Stars(r)
    BY <1>4 DEF Stars
  <2>3. IsFiniteSet({i}) /\ Cardinality({i}) = 1 /\ j \notin {i}
    BY <2>1, FS_Singleton
  <2>4. Cardinality({i} \cup {j}) = 1 + 1
    BY <2>3, FS_AddElement
  <2>5. Cardinality({i} \cup {j}) <= Cardinality(Stars(r))
    BY <1>3, <2>2, FS_Subset
  <2>6. Cardinality(Stars(r)) <= 1
    BY DEF PlainPath
  <2>7. Cardinality(Stars(r)) \in Nat
    BY <1>3, FS_CardinalityType
  <2>8. QED
    BY <2>4, <2>5, <2>6, <2>7
<1>5. StarIsOne(r)
  BY <1>4 DEF StarIsOne
<1>6. CASE Has(r, "*")
  <2>1. PICK i \in DOMAIN r : r[i] = "*"
    BY <1>6 DEF Has, Range
  <2>2. Stars(r) = {i}
    BY <1>4, <2>1 DEF Stars
  <2>3. Cardinality(Stars(r)) = 1
    BY <2>2, FS_Singleton
  <2>4. i # 1
    BY <1>1, <2>1
  <2>5. Len(r) - 1 \in Nat \ {0}
    BY <1>1, <2>1, <2>4
  <2>6. QED
    BY <1>5, <1>6, <2>3, <2>5 DEF Weight
<1>7. CASE ~Has(r, "*")
  <2>1. Stars(r) = {}
    BY <1>7 DEF Has, Range, Stars
  <2>2. Cardinality(Stars(r)) = 0
    BY <2>1, FS_EmptySet
  <2>3. QED
    BY <1>1, <1>5, <1>7, <2>2 DEF Weight
<1>8. QED
  BY <1>6, <1>7

\* A rule with a "$" at its end, and what is in front of it.
Anchored(r) == r # <<>> /\ Last(r) = "$"
Body(r) == IF Anchored(r) THEN Front(r) ELSE r
BodyType == {b \in Seq(Symbol) : StarIsOne(b) /\ \A i \in 1..Len(b) : b[i] \notin {"?", "[", "\\"}}

\* The pattern p begins with the body b, and has a star behind it if open.
Begins(p, b, open) ==
  /\ p \in Seq(Symbol) /\ Len(p) = Len(b) + (IF open THEN 1 ELSE 0)
  /\ \A i \in 1..Len(b) : p[i] = b[i]
  /\ open => p[Len(b) + 1] = "*"

\* What patternize makes of a rule: its body, and a star if no "$" stood at its end.
LEMMA BodyIs ==
  ASSUME NEW r, PlainPath(r)
  PROVE  Body(r) \in BodyType /\ Begins(patternize(r), Body(r), ~Anchored(r))
<1>1. r \in Seq(Symbol) /\ r # <<>> /\ Len(r) \in Nat \ {0} /\ DOMAIN r = 1..Len(r) /\ r[1] = "/"
  BY DEF PlainPath
<1>2. \A i \in 1..Len(r) : r[i] \notin {"?", "[", "\\"}
  <2>1. {"?", "[", "\\"} \cap Range(r) = {}
    BY DEF PlainPath
  <2>2. QED
    BY <1>1, <2>1 DEF Range
<1>3. \A i, j \in 1..Len(r) : r[i] = "*" /\ r[j] = "*" => i = j
  BY <1>1, WeightIs DEF StarIsOne
<1>4. patternize(r) = IF Anchored(r) THEN Front(r) ELSE Append(r, "*")
  BY <1>1 DEF patternize, Anchored
<1>5. CASE Anchored(r)
  <2> DEFINE b == SubSeq(r, 1, Len(r) - 1)
  <2>1. Len(r) - 1 \in 0..Len(r) /\ 1 \in 1..(Len(r) + 1) /\ (Len(r) - 1) - 1 + 1 = Len(r) - 1
        /\ \A i \in 1..(Len(r) - 1) : 1 + i - 1 = i /\ i \in 1..Len(r)
    BY <1>1
  <2>2. /\ b \in Seq(Symbol) /\ Len(b) = (IF 1 <= Len(r) - 1 THEN (Len(r) - 1) - 1 + 1 ELSE 0)
        /\ \A i \in 1..((Len(r) - 1) - 1 + 1) : b[i] = r[1 + i - 1]
    BY <1>1, <2>1, Slices
  <2>3. Body(r) = b /\ patternize(r) = b
    BY <1>4, <1>5 DEF Body, Front
  <2> HIDE DEF b
  <2>4. Len(b) = Len(r) - 1
    <3>1. CASE 1 <= Len(r) - 1
      BY <2>1, <2>2, <3>1
    <3>2. CASE ~(1 <= Len(r) - 1)
      <4>1. Len(b) = 0
        BY <2>2, <3>2
      <4>2. Len(r) - 1 = 0
        BY <1>1, <3>2
      <4>3. QED
        BY <4>1, <4>2
    <3>3. QED
      BY <3>1, <3>2
  <2>5. \A i \in 1..Len(b) : b[i] = r[i] /\ i \in 1..Len(r)
    BY <2>1, <2>2, <2>4
  <2>6. DOMAIN b = 1..Len(b) /\ Len(b) + 0 = Len(b)
    BY <2>2
  <2>7. StarIsOne(b)
    BY <1>3, <2>5, <2>6 DEF StarIsOne
  <2>8. b \in BodyType
    BY <1>2, <2>2, <2>5, <2>7 DEF BodyType
  <2>9. Begins(b, b, FALSE)
    BY <2>2, <2>6 DEF Begins
  <2>10. QED
    BY <1>5, <2>3, <2>8, <2>9
<1>6. CASE ~Anchored(r)
  <2> DEFINE p == Append(r, "*")
  <2>1. Body(r) = r /\ patternize(r) = p
    BY <1>4, <1>6 DEF Body
  <2>2. r \in BodyType
    BY <1>1, <1>2, <1>3 DEF BodyType, StarIsOne
  <2>3. "*" \in Symbol
    BY Symbols
  <2>4. p \in Seq(Symbol) /\ Len(p) = Len(r) + 1 /\ (\A i \in 1..Len(r) : p[i] = r[i]) /\ p[Len(r) + 1] = "*"
    BY <1>1, <2>3, AppendProperties
  <2> HIDE DEF p
  <2>5. Begins(p, r, TRUE)
    BY <2>4 DEF Begins
  <2>6. QED
    BY <1>6, <2>1, <2>2, <2>5
<1>7. QED
  BY <1>5, <1>6

\* Up to which m of the path the body can match.
Reaches(b, s, m) ==
  LET h == Len(Before(b, "*"))
  IN  IF ~Has(b, "*") THEN m = Len(b) /\ Stand(b, 0, Len(b), s, 0)
      ELSE /\ Stand(b, 0, h, s, 0)
           /\ \E k \in h..Len(s) : m = k + (Len(b) - (h + 1)) /\ Stand(b, h + 1, Len(b), s, k)

\* The body reaches from the beginning of the path up to m if its parts stand there.
LEMMA BodyEnds ==
  ASSUME NEW b \in BodyType, NEW open, NEW p, Begins(p, b, open),
         NEW s \in Seq(Symbol), NEW e, Ends(e, p, s), NEW m \in 0..Len(s)
  PROVE  m \in e[Len(b)] <=> Reaches(b, s, m)
<1> DEFINE n == Len(b)
           h == Len(Before(b, "*"))
<1>1. b \in Seq(Symbol) /\ n \in Nat /\ Len(s) \in Nat /\ DOMAIN b = 1..n /\ m \in Nat
  BY DEF BodyType
<1>2. \A i \in 1..n : b[i] # "?" /\ p[i] = b[i]
  BY DEF BodyType, Begins
<1>3. p \in Seq(Symbol) /\ n <= Len(p) /\ Len(p) \in Nat
  BY <1>1 DEF Begins
<1>4. e[0] = {0}
  <2>1. 0 \in 0..Len(p)
    BY <1>3
  <2>2. e[0] = EndsAt(p, s, e, 0)
    BY <2>1 DEF Ends
  <2>3. QED
    BY <2>2 DEF EndsAt
<1>5. ASSUME NEW i \in 0..n, NEW j \in i..n, NEW k \in 0..Len(s)
      PROVE  Stand(p, i, j, s, k) <=> Stand(b, i, j, s, k)
  <2>1. \A x \in 1..(j - i) : i + x \in 1..n
    BY <1>1
  <2>2. \A x \in 1..(j - i) : p[i + x] = b[i + x]
    BY <1>2, <2>1
  <2>3. QED
    BY <2>2 DEF Stand
<1>6. CASE ~Has(b, "*")
  <2>1. \A i \in 1..n : b[i] # "*"
    BY <1>1, <1>6 DEF Has, Range
  <2>2. Literal(p, 0, n)
    <3>1. \A i \in (0 + 1)..n : i \in 1..n
      OBVIOUS
    <3>2. QED
      BY <1>2, <2>1, <3>1 DEF Literal
  <2>3. 0 \in 0..Len(p) /\ n \in 0..Len(p) /\ 0 \in 0..n /\ n \in 0..n /\ 0 \in 0..Len(s) /\ n - 0 = n /\ 0 + (n - 0) = n
    BY <1>1, <1>3
  <2> HIDE DEF n
  <2>4. Moves(e, p, 0, n, s)
    BY <1>3, <2>2, <2>3, LiteralEnds
  <2>5. m \in e[n] <=> \E k \in e[0] : m = k + (n - 0) /\ Stand(p, 0, n, s, k)
    BY <2>4 DEF Moves
  <2>6. m \in e[n] <=> m = n /\ Stand(p, 0, n, s, 0)
    BY <1>4, <2>3, <2>5
  <2>7. m \in e[n] <=> m = n /\ Stand(b, 0, n, s, 0)
    BY <1>5, <2>3, <2>6
  <2>8. QED
    BY <1>6, <2>7 DEF Reaches, n
<1>7. CASE Has(b, "*")
  <2>1. h \in Nat /\ h < n /\ b[h + 1] = "*" /\ \A i \in 1..h : b[i] # "*"
    BY <1>1, <1>7, BeforeIs
  <2> HIDE DEF h
  <2>2. \A i \in 1..n : i # h + 1 => b[i] # "*"
    <3>1. h + 1 \in 1..n
      BY <1>1, <2>1
    <3>2. StarIsOne(b)
      BY DEF BodyType
    <3>3. QED
      BY <1>1, <2>1, <3>1, <3>2 DEF StarIsOne
  <2>3. Literal(p, 0, h) /\ Literal(p, h + 1, n)
    <3>1. \A i \in (0 + 1)..h : i \in 1..n /\ i # h + 1
      BY <1>1, <2>1
    <3>2. \A i \in (h + 1 + 1)..n : i \in 1..n /\ i # h + 1
      BY <1>1, <2>1
    <3>3. QED
      BY <1>2, <2>2, <3>1, <3>2 DEF Literal
  <2>4. /\ 0 \in 0..Len(p) /\ h \in 0..Len(p) /\ h + 1 \in 0..Len(p) /\ n \in (h + 1)..Len(p)
        /\ 0 \in 0..n /\ h \in 0..n /\ h + 1 \in 0..n /\ n \in (h + 1)..n /\ 0 \in 0..Len(s)
        /\ h - 0 = h /\ 0 + (h - 0) = h /\ h + 1 \in 1..Len(p) /\ (h + 1) - 1 = h
    BY <1>1, <1>3, <2>1
  <2>5. p[h + 1] = "*"
    <3>1. h + 1 \in 1..n
      BY <1>1, <2>1
    <3>2. QED
      BY <1>2, <2>1, <3>1
  <2> HIDE DEF n
  <2>6. Moves(e, p, 0, h, s)
    BY <1>3, <2>3, <2>4, LiteralEnds
  <2>7. Moves(e, p, h + 1, n, s)
    BY <1>3, <2>3, <2>4, LiteralEnds
  <2>8. \A k \in 0..Len(s) : k \in e[h] <=> k = h /\ Stand(b, 0, h, s, 0)
    <3>1. ASSUME NEW k \in 0..Len(s) PROVE k \in e[h] <=> k = h /\ Stand(b, 0, h, s, 0)
      <4>1. k \in e[h] <=> \E k0 \in e[0] : k = k0 + (h - 0) /\ Stand(p, 0, h, s, k0)
        BY <2>6 DEF Moves
      <4>2. k \in e[h] <=> k = h /\ Stand(p, 0, h, s, 0)
        BY <1>4, <2>4, <4>1
      <4>3. QED
        BY <1>5, <2>4, <4>2
    <3>2. QED
      BY <3>1
  <2>9. e[h] \subseteq 0..Len(s) /\ e[h + 1] \subseteq 0..Len(s)
    BY <2>4 DEF Ends
  <2>10. \A k \in 0..Len(s) : k \in e[h + 1] <=> h <= k /\ Stand(b, 0, h, s, 0)
    <3>1. ASSUME NEW k \in 0..Len(s) PROVE k \in e[h + 1] <=> h <= k /\ Stand(b, 0, h, s, 0)
      <4>1. k \in e[h + 1] <=> \E j \in e[(h + 1) - 1] : j <= k
        BY <1>3, <2>4, <2>5, StarEnds
      <4>2. k \in e[h + 1] <=> \E j \in e[h] : j <= k
        BY <2>4, <4>1
      <4>3. ASSUME k \in e[h + 1] PROVE h <= k /\ Stand(b, 0, h, s, 0)
        BY <2>8, <2>9, <4>2, <4>3
      <4>4. ASSUME h <= k, Stand(b, 0, h, s, 0) PROVE k \in e[h + 1]
        <5>1. h \in 0..Len(s)
          BY <1>1, <2>1, <4>4
        <5>2. h \in e[h]
          BY <2>8, <4>4, <5>1
        <5>3. QED
          BY <4>2, <4>4, <5>2
      <4>5. QED
        BY <4>3, <4>4
    <3>2. QED
      BY <3>1
  <2>11. m \in e[n] <=> \E k \in e[h + 1] : m = k + (n - (h + 1)) /\ Stand(p, h + 1, n, s, k)
    BY <2>7 DEF Moves
  <2>12. \A k \in 0..Len(s) : Stand(p, h + 1, n, s, k) <=> Stand(b, h + 1, n, s, k)
    BY <1>5, <2>4
  <2>13. \A k : k \in e[h + 1] <=> k \in h..Len(s) /\ Stand(b, 0, h, s, 0)
    <3>1. \A k : k \in h..Len(s) <=> k \in 0..Len(s) /\ h <= k
      BY <1>1, <2>1
    <3>2. QED
      BY <2>9, <2>10, <3>1
  <2>14. \A k \in h..Len(s) : k \in 0..Len(s)
    BY <1>1, <2>1
  <2>15. m \in e[n] <=> Stand(b, 0, h, s, 0) /\ \E k \in h..Len(s) : m = k + (n - (h + 1)) /\ Stand(b, h + 1, n, s, k)
    BY <2>11, <2>12, <2>13, <2>14
  <2>16. QED
    BY <1>7, <2>15 DEF Reaches, n, h
<1>8. QED
  BY <1>6, <1>7

\* What is meant, by where the body reaches.
LEMMA MatchesIs ==
  ASSUME NEW r, PlainPath(r), NEW s \in Seq(Symbol)
  PROVE  Matches(r, s) <=> \E m \in 0..Len(s) : Reaches(Body(r), s, m) /\ (Anchored(r) => m = Len(s))
<1> DEFINE b == Body(r)
           n == Len(b)
           h == Len(Before(b, "*"))
           fits(x, rest) == IF Anchored(r) THEN x = rest ELSE IsPrefix(x, rest)
<1>1. b \in Seq(Symbol) /\ n \in Nat /\ Len(s) \in Nat
  BY BodyIs DEF BodyType
<1>2. Matches(r, s) <=>
        IF ~Has(b, "*") THEN fits(b, s)
        ELSE /\ IsPrefix(Before(b, "*"), s)
             /\ \E k \in h..Len(s) : fits(Behind(b, "*"), SubSeq(s, k + 1, Len(s)))
  BY DEF Matches, Body, Anchored
<1>3. ASSUME NEW x \in Seq(Symbol), NEW y \in Seq(Symbol)
      PROVE  fits(x, y) <=> /\ Len(x) <= Len(y) /\ \A j \in 1..Len(x) : x[j] = y[j]
                            /\ Anchored(r) => Len(x) = Len(y)
  <2>1. CASE Anchored(r)
    <3>1. Len(x) \in Nat /\ Len(y) \in Nat
      OBVIOUS
    <3>2. x = y => Len(x) <= Len(y) /\ (\A j \in 1..Len(x) : x[j] = y[j]) /\ Len(x) = Len(y)
      BY <3>1
    <3>3. (\A j \in 1..Len(x) : x[j] = y[j]) /\ Len(x) = Len(y) => x = y
      BY SeqEqual
    <3>4. fits(x, y) <=> x = y
      BY <2>1
    <3> HIDE DEF fits
    <3>5. QED
      BY <2>1, <3>2, <3>3, <3>4
  <2>2. CASE ~Anchored(r)
    <3>1. fits(x, y) <=> IsPrefix(x, y)
      BY <2>2
    <3> HIDE DEF fits
    <3>2. QED
      BY <2>2, <3>1, PrefixIs
  <2>3. QED
    BY <2>1, <2>2
<1> HIDE DEF fits, b
<1>4. CASE ~Has(b, "*")
  <2>1. Matches(r, s) <=> n <= Len(s) /\ (\A j \in 1..n : b[j] = s[j]) /\ (Anchored(r) => n = Len(s))
    BY <1>1, <1>2, <1>3, <1>4
  <2>2. Stand(b, 0, n, s, 0) <=> n <= Len(s) /\ \A j \in 1..n : b[j] = s[j]
    <3>1. 0 + (n - 0) = n /\ n - 0 = n /\ \A j \in 1..n : 0 + j = j
      BY <1>1
    <3>2. QED
      BY <3>1 DEF Stand
  <2>3. \A m : Reaches(b, s, m) <=> m = n /\ Stand(b, 0, n, s, 0)
    BY <1>4 DEF Reaches
  <2>4. n <= Len(s) => n \in 0..Len(s)
    BY <1>1
  <2> HIDE DEF n
  <2>5. QED
    BY <2>1, <2>2, <2>3, <2>4 DEF b
<1>5. CASE Has(b, "*")
  <2>1. Before(b, "*") \in Seq(Symbol) /\ h \in Nat /\ h < n /\ \A i \in 1..h : Before(b, "*")[i] = b[i]
    BY <1>1, <1>5, BeforeIs
  <2>2. Behind(b, "*") \in Seq(Symbol) /\ Len(Behind(b, "*")) = n - (h + 1)
        /\ \A i \in 1..Len(Behind(b, "*")) : Behind(b, "*")[i] = b[h + 1 + i]
    BY <1>1, <1>5, BehindIs
  <2>3. IsPrefix(Before(b, "*"), s) <=> Stand(b, 0, h, s, 0)
    <3>1. 0 + (h - 0) = h /\ h - 0 = h /\ \A j \in 1..h : 0 + j = j
      BY <2>1
    <3>2. IsPrefix(Before(b, "*"), s) <=> h <= Len(s) /\ \A j \in 1..h : Before(b, "*")[j] = s[j]
      BY <2>1, PrefixIs
    <3> HIDE DEF h
    <3>3. QED
      BY <2>1, <3>1, <3>2 DEF Stand
  <2>4. ASSUME NEW k \in h..Len(s)
        PROVE  fits(Behind(b, "*"), SubSeq(s, k + 1, Len(s))) <=>
                 /\ Stand(b, h + 1, n, s, k)
                 /\ Anchored(r) => k + (n - (h + 1)) = Len(s)
    <3> DEFINE x == Behind(b, "*")
               y == SubSeq(s, k + 1, Len(s))
               c == n - (h + 1)
    <3>1. k \in Nat /\ k + 1 \in 1..(Len(s) + 1) /\ Len(s) \in 0..Len(s) /\ Len(s) - (k + 1) + 1 = Len(s) - k
          /\ k <= Len(s) /\ (k + 1 <= Len(s) <=> k # Len(s)) /\ c \in Nat
      BY <1>1, <2>1
    <3>2. /\ y \in Seq(Symbol) /\ Len(y) = (IF k + 1 <= Len(s) THEN Len(s) - (k + 1) + 1 ELSE 0)
          /\ \A i \in 1..(Len(s) - (k + 1) + 1) : y[i] = s[k + 1 + i - 1]
      BY <3>1, Slices
    <3>3. Len(x) = c /\ x \in Seq(Symbol) /\ \A i \in 1..c : x[i] = b[h + 1 + i]
      BY <2>2
    <3>4. fits(x, y) <=> /\ Len(x) <= Len(y) /\ \A j \in 1..Len(x) : x[j] = y[j]
                         /\ Anchored(r) => Len(x) = Len(y)
      BY <1>3, <3>2, <3>3
    <3> DEFINE l == Len(s)
    <3>a. l \in Nat /\ k \in Nat /\ c \in Nat /\ k <= l /\ l - (k + 1) + 1 = l - k /\ (k + 1 <= l <=> k # l)
      BY <1>1, <3>1
    <3>8. Stand(b, h + 1, n, s, k) <=> k + c <= Len(s) /\ \A j \in 1..c : b[h + 1 + j] = s[k + j]
      BY DEF Stand
    <3> HIDE DEF x, y, c, h, n, l
    <3>5. Len(y) = l - k
      <4>1. Len(y) = IF k + 1 <= l THEN l - (k + 1) + 1 ELSE 0
        BY <3>2 DEF l
      <4>2. QED
        BY <3>a, <4>1
    <3>6. \A i \in 1..(l - k) : y[i] = s[k + i]
      <4>1. \A i \in 1..(l - k) : k + 1 + i - 1 = k + i
        BY <3>a
      <4>2. \A i \in 1..(l - (k + 1) + 1) : y[i] = s[k + 1 + i - 1]
        BY <3>2 DEF l
      <4>3. QED
        BY <3>a, <4>1, <4>2
    <3>7. (Len(x) <= Len(y) <=> k + c <= l) /\ (Len(x) = Len(y) <=> k + c = l)
      BY <3>a, <3>3, <3>5
    <3>9. k + c <= l => \A j \in 1..c : j \in 1..(l - k)
      BY <3>a
    <3>10. k + c <= l => ((\A j \in 1..Len(x) : x[j] = y[j]) <=> \A j \in 1..c : b[h + 1 + j] = s[k + j])
      BY <3>3, <3>6, <3>9
    <3>11. QED
      BY <3>4, <3>7, <3>8, <3>10 DEF x, y, c, l
  <2>5. Matches(r, s) <=> /\ Stand(b, 0, h, s, 0)
                          /\ \E k \in h..Len(s) : /\ Stand(b, h + 1, n, s, k)
                                                  /\ Anchored(r) => k + (n - (h + 1)) = Len(s)
    BY <1>2, <1>5, <2>3, <2>4
  <2>6. \A m : Reaches(b, s, m) <=>
          /\ Stand(b, 0, h, s, 0)
          /\ \E k \in h..Len(s) : m = k + (n - (h + 1)) /\ Stand(b, h + 1, n, s, k)
    BY <1>5 DEF Reaches
  <2>7. \A k \in h..Len(s) : Stand(b, h + 1, n, s, k) => k + (n - (h + 1)) \in 0..Len(s)
    <3>1. ASSUME NEW k \in h..Len(s), k + (n - (h + 1)) <= Len(s) PROVE k + (n - (h + 1)) \in 0..Len(s)
      BY <1>1, <2>1, <3>1
    <3>2. QED
      BY <3>1 DEF Stand
  <2> HIDE DEF h, n
  <2>8. QED
    BY <2>5, <2>6, <2>7 DEF b
<1>6. QED
  BY <1>4, <1>5

\* A pattern matches exactly the paths its rule matches.
LEMMA PatternMatches ==
  ASSUME NEW r, PlainPath(r), NEW s \in Seq(Symbol)
  PROVE  fnmatch(patternize(r), s) <=> Matches(r, s)
<1> DEFINE p == patternize(r)
           b == Body(r)
<1>1. b \in BodyType /\ Begins(p, b, ~Anchored(r))
  <2>2. Body(r) \in BodyType /\ Begins(patternize(r), Body(r), ~Anchored(r))
    BY BodyIs
  <2> DEFINE open == ~Anchored(r)
  <2> HIDE DEF open
  <2>3. QED
    BY <2>2 DEF open
<1>2. p \in Seq(Symbol) /\ b \in Seq(Symbol) /\ Len(b) \in Nat /\ Len(s) \in Nat
  BY <1>1 DEF Begins, BodyType
<1> HIDE DEF p, b
<1>9. \A i \in 1..Len(p) : p[i] \notin {"[", "\\"}
  BY <1>1, <1>2 DEF Begins, BodyType
<1>3. PICK e : Ends(e, p, s) /\ (fnmatch(p, s) <=> Len(s) \in e[Len(p)])
  BY <1>2, <1>9, FnmatchEnds DEF UnitsAreOne
<1> USE DEF b
<1>4. Matches(r, s) <=> \E m \in 0..Len(s) : Reaches(b, s, m) /\ (Anchored(r) => m = Len(s))
  BY MatchesIs
<1> HIDE DEF p, b
<1>5. ASSUME NEW m \in 0..Len(s) PROVE m \in e[Len(b)] <=> Reaches(b, s, m)
  BY <1>1, <1>3, BodyEnds
<1>6. CASE Anchored(r)
  <2>1. Len(p) = Len(b)
    BY <1>1, <1>2, <1>6 DEF Begins
  <2>2. Len(s) \in 0..Len(s)
    BY <1>2
  <2>3. QED
    BY <1>3, <1>4, <1>5, <1>6, <2>1, <2>2 DEF p
<1>7. CASE ~Anchored(r)
  <2>1. Len(p) = Len(b) + 1 /\ p[Len(b) + 1] = "*"
    BY <1>1, <1>2, <1>7 DEF Begins
  <2>2. Len(p) \in 1..Len(p) /\ Len(p) - 1 = Len(b) /\ Len(s) \in 0..Len(s) /\ Len(b) \in 0..Len(p)
    BY <1>2, <2>1
  <2>3. Len(s) \in e[Len(p)] <=> \E k \in e[Len(p) - 1] : k <= Len(s)
    BY <1>2, <1>3, <2>1, <2>2, StarEnds
  <2>4. e[Len(b)] \subseteq 0..Len(s)
    BY <1>3, <2>2 DEF Ends
  <2>5. \A k \in 0..Len(s) : k <= Len(s)
    BY <1>2
  <2>6. Len(s) \in e[Len(p)] <=> \E k \in 0..Len(s) : k \in e[Len(b)]
    BY <2>2, <2>3, <2>4, <2>5
  <2>7. QED
    BY <1>3, <1>4, <1>5, <1>7, <2>6 DEF p
<1>8. QED
  BY <1>6, <1>7

\* Sequences that are empty or have one element, the g[i]-th one of t.
Gathers(g, s, t) ==
  /\ g \in [0..Len(s) -> 0..Len(t)] /\ g[0] = 0 /\ g[Len(s)] = Len(t)
  /\ \A i \in 1..Len(s) : \/ s[i] = <<>> /\ g[i] = g[i - 1]
                          \/ g[i] = g[i - 1] + 1 /\ s[i] = <<t[g[i]]>>

\* Sequences of one element or none, flattened, are the elements in their order.
LEMMA FlattenCounted ==
  ASSUME NEW T, NEW s \in Seq(Seq(T)), NEW t \in Seq(T), NEW g, Gathers(g, s, t)
  PROVE  FlattenSeq(s) = t
<1> DEFINE n == Len(s)
           Copies(u, k) == u \in Seq(T) /\ Len(u) = k /\ \A j \in 1..k : u[j] = t[j]
<1>1. PICK f : Flattens(f, s, T) /\ FlattenSeq(s) = f[n]
  BY Flattened
<1>2. n \in Nat /\ Len(t) \in Nat
  OBVIOUS
<1>3. /\ g \in [0..n -> 0..Len(t)] /\ g[0] = 0 /\ g[n] = Len(t)
      /\ \A i \in 1..n : \/ s[i] = <<>> /\ g[i] = g[i - 1]
                         \/ g[i] = g[i - 1] + 1 /\ s[i] = <<t[g[i]]>>
  BY DEF Gathers
<1>4. f[0] = <<>> /\ \A i \in 1..n : f[i] = f[i - 1] \o s[i]
  BY <1>1 DEF Flattens
<1> HIDE DEF n
<1> DEFINE P == {i \in Nat : i <= n => Copies(f[i], g[i])}
<1>5. 0 \in P
  <2>1. Copies(<<>>, 0)
    OBVIOUS
  <2>2. QED
    BY <1>3, <1>4, <2>1
<1>6. ASSUME NEW i \in Nat, i \in P PROVE i + 1 \in P
  <2>1. SUFFICES ASSUME i + 1 <= n PROVE Copies(f[i + 1], g[i + 1])
    OBVIOUS
  <2>2. i \in 0..n /\ i + 1 \in 1..n /\ i + 1 \in 0..n /\ (i + 1) - 1 = i
    BY <1>2, <2>1
  <2>3. Copies(f[i], g[i])
    BY <1>6, <2>2
  <2>4. f[i + 1] = f[i] \o s[i + 1]
    BY <1>4, <2>2
  <2> DEFINE u == f[i]
             w == s[i + 1]
             k == g[i]
             l == g[i + 1]
  <2>5. k \in 0..Len(t) /\ l \in 0..Len(t) /\ ((w = <<>> /\ l = k) \/ (l = k + 1 /\ w = <<t[l]>>))
    BY <1>3, <2>2
  <2>6. Copies(u, k) /\ f[i + 1] = u \o w
    BY <2>3, <2>4
  <2> HIDE DEF u, w, k
  <2>7. SUFFICES Copies(u \o w, l)
    BY <2>6
  <2> HIDE DEF l
  <2>8. CASE w = <<>> /\ l = k
    BY <2>6, <2>8
  <2>9. CASE l = k + 1 /\ w = <<t[l]>>
    <3> DEFINE x == t[l]
    <3>1. k \in Nat /\ l \in 1..Len(t)
      BY <1>2, <2>5, <2>9
    <3>2. x \in T
      BY <3>1
    <3>3. u \in Seq(T) /\ Len(u) = k /\ \A j \in 1..k : u[j] = t[j]
      BY <2>6
    <3>4. u \o w \in Seq(T) /\ Len(u \o w) = k + 1
          /\ (\A j \in 1..k : (u \o w)[j] = u[j]) /\ (u \o w)[k + 1] = x
      <4> HIDE DEF x
      <4>1. w = <<x>>
        BY <2>9 DEF x
      <4>2. w \in Seq(T) /\ Len(w) = 1 /\ w[1] = x
        BY <3>2, <4>1
      <4>3. /\ u \o w \in Seq(T) /\ Len(u \o w) = Len(u) + Len(w)
            /\ \A j \in 1..(Len(u) + Len(w)) : (u \o w)[j] = IF j <= Len(u) THEN u[j] ELSE w[j - Len(u)]
        BY <3>3, <4>2, ConcatProperties
      <4>4. /\ k + 1 \in 1..(k + 1) /\ ~(k + 1 <= k) /\ (k + 1) - k = 1
            /\ \A j \in 1..k : j \in 1..(k + 1) /\ j <= k
        BY <3>1
      <4>5. Len(u) = k /\ Len(w) = 1
        BY <3>3, <4>2
      <4>6. \A j \in 1..(k + 1) : (u \o w)[j] = IF j <= k THEN u[j] ELSE w[j - k]
        BY <4>3, <4>5
      <4>7. \A j \in 1..k : (u \o w)[j] = u[j]
        BY <4>4, <4>6
      <4>8. QED
        BY <4>2, <4>3, <4>4, <4>5, <4>6, <4>7
    <3>5. QED
      BY <2>9, <3>1, <3>3, <3>4
  <2>10. QED
    BY <2>5, <2>8, <2>9
<1>7. \A i \in Nat : i \in P
  <2> HIDE DEF P
  <2>1. QED
    BY <1>5, <1>6, SetInduction
<1>8. Copies(f[n], Len(t))
  BY <1>2, <1>3, <1>7
<1>9. f[n] = t
  <2> DEFINE u == f[n]
  <2>1. u \in Seq(T) /\ Len(u) = Len(t) /\ \A j \in 1..Len(t) : u[j] = t[j]
    BY <1>8
  <2> HIDE DEF u
  <2>2. u = t
    BY <2>1
  <2>3. QED
    BY <2>2 DEF u
<1>10. QED
  BY <1>1, <1>9

-----------------------------------------------------------------------------
\* Three places where a token may begin make no more than three tokens.
LEMMA ThreeTokens ==
  ASSUME NEW S, NEW a, NEW b, NEW c, S \subseteq {a, b, c}
  PROVE  Cardinality(S) \in Nat /\ Cardinality(S) <= 3
<1>1. IsFiniteSet({}) /\ Cardinality({}) = 0
  BY FS_EmptySet
<1>2. IsFiniteSet({} \cup {a}) /\ Cardinality({} \cup {a}) = 1
  BY <1>1, FS_AddElement
<1>3. IsFiniteSet({a}) /\ Cardinality({a}) = 1
  <2>1. {} \cup {a} = {a}
    OBVIOUS
  <2>2. QED
    BY <1>2, <2>1
<1>4. IsFiniteSet({a} \cup {b}) /\ Cardinality({a} \cup {b}) \in Nat /\ Cardinality({a} \cup {b}) <= 2
  BY <1>3, FS_AddElement
<1>5. IsFiniteSet(({a} \cup {b}) \cup {c}) /\ Cardinality(({a} \cup {b}) \cup {c}) \in Nat
      /\ Cardinality(({a} \cup {b}) \cup {c}) <= 3
  BY <1>4, FS_AddElement
<1>6. S \in SUBSET (({a} \cup {b}) \cup {c})
  OBVIOUS
<1>7. IsFiniteSet(S) /\ Cardinality(S) <= Cardinality(({a} \cup {b}) \cup {c})
  BY <1>5, <1>6, FS_Subset
<1>8. Cardinality(S) \in Nat
  BY <1>7, FS_CardinalityType
<1>9. QED
  BY <1>5, <1>7, <1>8
-----------------------------------------------------------------------------
\* What is left of a line that says a record: its field, the colon and its value.
LEMMA StrippedSays ==
  ASSUME NEW c \in Seq(Symbol), NEW value \in Seq(Symbol), NEW name \in Symbol,
         NEW field \in 1..Len(c), NEW colon \in 1..Len(c), NEW before \in 0..Len(c),
         field < colon, colon <= before, before + Len(value) <= Len(c),
         c[field] = name, name # Blank, c[colon] = ":",
         \A i \in 1..Len(value) : c[before + i] = value[i] /\ value[i] # Blank,
         \A i \in 1..Len(c) : c[i] = Blank \/ i \in {field, colon}
                               \/ i \in (before + 1)..(before + Len(value))
  PROVE  strippedLine(c) = <<name, ":">> \o value
<1> DEFINE n == Len(c)
           m == Len(value)
           t == <<name, ":">> \o value
           parts == [i \in DOMAIN c |->
                      IF c[i] # Blank /\ TokenOf(c, i) <= 3 THEN <<c[i]>> ELSE <<>>]
           g == [i \in 0..n |-> IF i < field THEN 0 ELSE IF i < colon THEN 1
                                ELSE IF i <= before THEN 2
                                ELSE IF i <= before + m THEN 2 + (i - before) ELSE 2 + m]
<1>1. /\ n \in Nat /\ m \in Nat /\ DOMAIN c = 1..n /\ n = Len(c)
      /\ field \in 1..n /\ colon \in 1..n /\ before \in 0..n
  OBVIOUS
<1>2. strippedLine(c) = FlattenSeq(parts)
  BY DEF strippedLine
<1>3. Blank # ":" /\ ":" \in Symbol
  <2>1. c[colon] \in Symbol
    OBVIOUS
  <2>2. QED
    BY <2>1 DEF Blank
<1>4. /\ t \in Seq(Symbol) /\ Len(t) = m + 2 /\ t[1] = name /\ t[2] = ":"
      /\ \A i \in 1..m : t[2 + i] = value[i]
  BY <1>3
<1>5. \A i \in 1..m : value[i] # Blank /\ c[before + i] = value[i]
  OBVIOUS
<1>6. field < colon /\ colon <= before /\ before + m <= n
  OBVIOUS
<1>7. \A i \in 1..n : c[i] = Blank \/ i = field \/ i = colon \/ i \in (before + 1)..(before + m)
  OBVIOUS
<1>8. c[field] = name /\ name # Blank /\ c[colon] = ":"
  OBVIOUS
<1>9. \A i \in 1..n : c[i] \in Symbol
  OBVIOUS
<1> HIDE DEF n, m
<1>10. ASSUME NEW i \in 1..n PROVE TokenOf(c, i) \in Nat /\ TokenOf(c, i) <= 3
  <2> DEFINE S == {j \in 1..i : c[j] # Blank /\ (j = 1 \/ c[j - 1] = Blank)}
  <2>1. S \subseteq {field, colon, before + 1}
    <3>1. SUFFICES ASSUME NEW j \in 1..i, c[j] # Blank, j = 1 \/ c[j - 1] = Blank,
                          j # field, j # colon
                   PROVE  j = before + 1
      OBVIOUS
    <3>2. j \in 1..n /\ j \in Nat
      BY <1>1
    <3>3. j \in (before + 1)..(before + m)
      BY <1>7, <3>1, <3>2
    <3>4. SUFFICES ASSUME j # before + 1 PROVE FALSE
      OBVIOUS
    <3> DEFINE k == j - 1 - before
    <3>5. k \in 1..m /\ before + k = j - 1 /\ j # 1
      BY <1>1, <3>2, <3>3, <3>4
    <3>6. c[j - 1] # Blank
      BY <1>5, <3>5
    <3>7. QED
      BY <3>1, <3>5, <3>6
  <2> HIDE DEF S
  <2>2. Cardinality(S) \in Nat /\ Cardinality(S) <= 3
    BY <2>1, ThreeTokens
  <2>3. QED
    BY <2>2 DEF S, TokenOf
<1>11. \A i \in 1..n : parts[i] = IF c[i] # Blank THEN <<c[i]>> ELSE <<>>
  BY <1>1, <1>10
<1>12. parts \in Seq(Seq(Symbol)) /\ Len(parts) = n
  <2>1. parts \in [1..n -> Seq(Symbol)]
    BY <1>1, <1>9
  <2>2. QED
    BY <1>1, <2>1
<1> HIDE DEF parts, t
<1>13. Gathers(g, parts, t)
  <2>1. \A i \in 0..n : g[i] \in 0..Len(t)
    BY <1>1, <1>4, <1>6
  <2>2. g \in [0..n -> 0..Len(t)]
    BY <2>1
  <2>3. g[0] = 0 /\ g[n] = Len(t)
    BY <1>1, <1>4, <1>6
  <2>4. ASSUME NEW i \in 1..n
        PROVE  \/ parts[i] = <<>> /\ g[i] = g[i - 1]
               \/ g[i] = g[i - 1] + 1 /\ parts[i] = <<t[g[i]]>>
    <3>0. i - 1 \in 0..n /\ i \in 0..n
      BY <1>1
    <3>1. CASE i = field
      <4>1. g[i] = 1 /\ g[i - 1] = 0
        BY <1>1, <1>6, <3>0, <3>1
      <4> HIDE DEF g
      <4>2. parts[i] = <<t[1]>>
        BY <1>4, <1>8, <1>11, <3>1
      <4>3. QED
        BY <4>1, <4>2
    <3>2. CASE i = colon
      <4>1. g[i] = 2 /\ g[i - 1] = 1
        BY <1>1, <1>6, <3>0, <3>2
      <4> HIDE DEF g
      <4>2. parts[i] = <<t[2]>>
        BY <1>3, <1>4, <1>8, <1>11, <3>2
      <4>3. QED
        BY <4>1, <4>2
    <3>3. CASE i \in (before + 1)..(before + m)
      <4> DEFINE k == i - before
      <4>1. k \in 1..m /\ before + k = i
        BY <1>1, <3>3
      <4>2. g[i] = 2 + k /\ g[i] = g[i - 1] + 1
        BY <1>1, <1>6, <3>0, <3>3
      <4>3. c[i] = value[k] /\ value[k] # Blank /\ t[2 + k] = value[k]
        BY <1>4, <1>5, <4>1
      <4> HIDE DEF k, g
      <4>4. QED
        BY <1>11, <4>2, <4>3
    <3>4. CASE i # field /\ i # colon /\ i \notin (before + 1)..(before + m)
      <4>1. g[i] = g[i - 1]
        BY <1>1, <1>6, <3>0, <3>4
      <4>2. c[i] = Blank
        BY <1>7, <3>4
      <4>3. QED
        BY <1>11, <4>1, <4>2
    <3>5. QED
      BY <3>1, <3>2, <3>3, <3>4
  <2> HIDE DEF g
  <2>5. QED
    BY <1>12, <2>2, <2>3, <2>4 DEF Gathers
<1> HIDE DEF g
<1>14. FlattenSeq(parts) = t
  BY <1>4, <1>12, <1>13, FlattenCounted
<1>15. QED
  BY <1>2, <1>14 DEF t
\* A line that says a record is read as this record ...
LEMMA LineSays ==
  ASSUME NEW line \in Seq(Symbol), NEW r \in Record, Says(line, r)
  PROVE  RecordsOf(strippedLine(clean_line(line))) = <<r>>
<1> DEFINE c == clean_line(line)
           value == r.value
           name == Fields[r.type]
           s == <<name, ":">> \o value
<1>1. /\ c \in Seq(Symbol) /\ Len(c) <= Len(line) /\ \A i \in 1..Len(c) : c[i] = line[i]
      /\ c = Before(line, "#")
  BY BeforeIs DEF clean_line
<1> HIDE DEF c
<1>2. Len(c) \in Nat
  BY <1>1
<1>3. PICK field, colon \in 1..Len(c), before \in 0..Len(c) :
        /\ field < colon /\ colon <= before /\ before + Len(value) <= Len(c)
        /\ line[field] = name /\ line[colon] = ":"
        /\ \A i \in 1..Len(value) : line[before + i] = value[i] /\ value[i] # Blank
        /\ \A i \in 1..Len(c) : line[i] = Blank \/ i \in {field, colon}
                                \/ i \in (before + 1)..(before + Len(value))
  BY <1>1 DEF Says
<1>4. value \in Seq(Symbol) /\ r = [type |-> r.type, value |-> value]
      /\ r.type \in {"GROUP_MEMBER_DENY", "GROUP_MEMBER_ALLOW", "START_OF_GROUP"}
  BY DEF Record
<1>5. name \in {"user-agent", "allow", "disallow"} /\ name # Blank /\ name # ":"
      /\ field_type(<<name>>) = r.type
  <2>1. name = CASE r.type = "START_OF_GROUP" -> "user-agent"
                 [] r.type = "GROUP_MEMBER_ALLOW" -> "allow"
                 [] r.type = "GROUP_MEMBER_DENY" -> "disallow"
    BY <1>4 DEF Fields
  <2>2. \A x : Has(<<name>>, x) <=> x = name
    BY DEF Has, Range
  <2> HIDE DEF name
  <2>3. QED
    BY <1>4, <2>1, <2>2 DEF field_type, Blank
<1> HIDE DEF value, name
<1>6. strippedLine(c) = s
  <2>1. Len(value) \in Nat
    BY <1>4
  <2>2. \A i \in 1..Len(value) : before + i \in 1..Len(c)
    BY <1>2, <1>3, <2>1
  <2>3. c[field] = name /\ c[colon] = ":" /\ name \in Symbol
    BY <1>1, <1>3
  <2>4. \A i \in 1..Len(value) : c[before + i] = value[i] /\ value[i] # Blank
    BY <1>1, <1>3, <2>2
  <2>5. \A i \in 1..Len(c) : c[i] = Blank \/ i \in {field, colon}
                               \/ i \in (before + 1)..(before + Len(value))
    BY <1>1, <1>3
  <2>6. QED
    BY <1>1, <1>3, <1>4, <1>5, <2>3, <2>4, <2>5, StrippedSays
<1>7. /\ s \in Seq(Symbol) /\ Len(s) = Len(value) + 2 /\ s[1] = name /\ s[2] = ":"
      /\ \A i \in 1..Len(value) : s[2 + i] = value[i]
  <2>1. name \in Symbol /\ ":" \in Symbol
    BY <1>1, <1>3
  <2>2. QED
    BY <1>4, <2>1
<1> HIDE DEF s
<1> DEFINE head == Before(s, ":")
           tail == Behind(s, ":")
<1>8. Len(value) \in Nat
  BY <1>4
<1>9. Has(s, ":")
  BY <1>7, <1>8 DEF Has, Range
<1>10. /\ head \in Seq(Symbol) /\ Len(head) < Len(s) /\ s[Len(head) + 1] = ":"
       /\ \A i \in 1..Len(head) : head[i] = s[i] /\ s[i] # ":"
  BY <1>7, <1>9, BeforeIs
<1>11. /\ tail \in Seq(Symbol) /\ Len(tail) = Len(s) - (Len(head) + 1)
       /\ \A i \in 1..Len(tail) : tail[i] = s[Len(head) + 1 + i]
  BY <1>7, <1>9, BehindIs
<1> HIDE DEF head, tail
<1>12. Len(head) = 1
  <2> DEFINE k == Len(head)
  <2>1. k \in Nat /\ s[k + 1] = ":" /\ \A i \in 1..k : s[i] # ":"
    BY <1>10
  <2> HIDE DEF k
  <2>2. k # 0
    BY <1>5, <1>7, <2>1
  <2>3. ~(2 \in 1..k)
    BY <1>7, <2>1
  <2>4. k = 1
    BY <2>1, <2>2, <2>3
  <2>5. QED
    BY <2>4 DEF k
<1>13. head = <<name>>
  BY <1>7, <1>10, <1>12
<1>14. tail = value
  <2>1. Len(tail) = Len(value)
    BY <1>7, <1>8, <1>11, <1>12
  <2>2. \A i \in 1..Len(value) : tail[i] = value[i]
    BY <1>7, <1>8, <1>11, <1>12, <2>1
  <2>3. tail \in Seq(Symbol) /\ value \in Seq(Symbol)
    BY <1>4, <1>11
  <2>4. QED
    BY <2>1, <2>2, <2>3
<1>15. RecordsOf(s) = <<r>>
  BY <1>4, <1>5, <1>9, <1>13, <1>14 DEF RecordsOf, head, tail
<1>16. QED
  BY <1>6, <1>15 DEF c

-----------------------------------------------------------------------------
\* Nothing is in a stripped line that is not in the line.
LEMMA StrippedRange ==
  ASSUME NEW c \in Seq(Symbol)
  PROVE  strippedLine(c) \in Seq(Symbol) /\ Range(strippedLine(c)) \subseteq Range(c)
<1> DEFINE parts == [i \in DOMAIN c |->
                      IF c[i] # Blank /\ TokenOf(c, i) <= 3 THEN <<c[i]>> ELSE <<>>]
<1>1. DOMAIN c = 1..Len(c) /\ Len(c) \in Nat /\ \A i \in 1..Len(c) : c[i] \in Symbol
  OBVIOUS
<1>2. \A i \in 1..Len(c) : parts[i] = <<c[i]>> \/ parts[i] = <<>>
  BY <1>1
<1>3. parts \in Seq(Seq(Symbol)) /\ DOMAIN parts = 1..Len(c)
  <2>1. \A i \in 1..Len(c) : <<c[i]>> \in Seq(Symbol) /\ <<>> \in Seq(Symbol)
    BY <1>1
  <2>2. QED
    BY <1>1, <2>1
<1>4. strippedLine(c) = FlattenSeq(parts)
  BY DEF strippedLine
<1> HIDE DEF parts
<1>5. FlattenSeq(parts) \in Seq(Symbol)
      /\ Range(FlattenSeq(parts)) = UNION {Range(parts[i]) : i \in DOMAIN parts}
  BY <1>3, FlattenType, FlattenRange
<1>6. \A i \in DOMAIN parts : Range(parts[i]) \subseteq Range(c)
  <2>1. \A i \in 1..Len(c) : c[i] \in Range(c)
    BY <1>1 DEF Range
  <2>2. \A x : Range(<<x>>) = {x}
    BY DEF Range
  <2>3. Range(<<>>) = {}
    BY DEF Range
  <2>4. ASSUME NEW i \in DOMAIN parts PROVE Range(parts[i]) \subseteq Range(c)
    <3>1. c[i] \in Range(c)
      BY <1>3, <2>1
    <3>2. CASE parts[i] = <<c[i]>>
      <4>1. Range(parts[i]) = {c[i]}
        BY <2>2, <3>2
      <4>2. QED
        BY <3>1, <4>1
    <3>3. CASE parts[i] = <<>>
      BY <2>3, <3>3
    <3>4. QED
      BY <1>2, <1>3, <3>2, <3>3
  <2>5. QED
    BY <2>4
<1>7. QED
  BY <1>4, <1>5, <1>6

\* ... and one that says nothing is passed over.
LEMMA LineSilent ==
  ASSUME NEW line \in Seq(Symbol), Silent(line)
  PROVE  RecordsOf(strippedLine(clean_line(line))) = <<>>
<1> DEFINE c == clean_line(line)
           s == strippedLine(c)
           head == Before(s, ":")
<1>1. c \in Seq(Symbol) /\ c = Before(line, "#")
  BY BeforeIs DEF clean_line
<1>2. ":" \notin Range(c) \/ \A x \in {"user-agent", "allow", "disallow"} : x \notin Range(c)
  <2>1. {"user-agent", "allow", "disallow"} \subseteq Range(Fields)
    <3>1. DOMAIN Fields = {"START_OF_GROUP", "GROUP_MEMBER_ALLOW", "GROUP_MEMBER_DENY"}
      BY DEF Fields
    <3>2. Fields["START_OF_GROUP"] = "user-agent" /\ Fields["GROUP_MEMBER_ALLOW"] = "allow"
          /\ Fields["GROUP_MEMBER_DENY"] = "disallow"
      BY DEF Fields
    <3>3. QED
      BY <3>1, <3>2 DEF Range
  <2>2. ":" \notin Range(c) \/ Range(c) \cap Range(Fields) = {}
    BY <1>1 DEF Silent
  <2>3. QED
    BY <2>1, <2>2
<1> HIDE DEF c
<1>3. s \in Seq(Symbol) /\ Range(s) \subseteq Range(c)
  BY <1>1, StrippedRange
<1> HIDE DEF s
<1>4. CASE ":" \notin Range(c)
  BY <1>3, <1>4 DEF RecordsOf, Has, s, c
<1>5. CASE \A x \in {"user-agent", "allow", "disallow"} : x \notin Range(c)
  <2>1. head \in Seq(Symbol) /\ Len(head) <= Len(s) /\ \A i \in 1..Len(head) : head[i] = s[i]
    BY <1>3, BeforeIs
  <2> HIDE DEF head
  <2>2. Len(s) \in Nat /\ Len(head) \in Nat
    BY <1>3, <2>1
  <2>3. \A i \in 1..Len(head) : head[i] \in Range(s)
    BY <1>3, <2>1, <2>2 DEF Range
  <2>4. Range(head) \subseteq Range(s)
    BY <2>1, <2>3 DEF Range
  <2>5. \A x \in {"user-agent", "allow", "disallow"} : x \notin Range(head)
    BY <1>3, <1>5, <2>4
  <2>6. field_type(head) = "UNK_TYPE"
    BY <2>5 DEF field_type, Has
  <2>7. RecordsOf(s) = <<>>
    BY <2>6 DEF RecordsOf, head
  <2>8. QED
    BY <2>7 DEF s, c
<1>6. QED
  BY <1>2, <1>4, <1>5
\* A file that is written for some records is read as these.
LEMMA WrittenIsRead ==
  ASSUME NEW text \in Seq(Seq(Symbol)), NEW records \in Seq(Record), IsWritten(text, records)
  PROVE  parse_lines(text) = records
<1> DEFINE n == Len(text)
           Some(i) == {j \in 1..i : ~Silent(text[j])}
           g == [i \in 0..n |-> Cardinality(Some(i))]
           parts == [i \in DOMAIN text |-> RecordsOf(strippedLine(clean_line(text[i])))]
<1>1. n \in Nat /\ DOMAIN text = 1..n /\ \A i \in 1..n : text[i] \in Seq(Symbol)
  OBVIOUS
<1>2. /\ Cardinality(Some(n)) = Len(records)
      /\ \A i \in 1..n : Silent(text[i]) \/ Says(text[i], records[Cardinality(Some(i))])
  BY <1>1 DEF IsWritten
<1>3. parse_lines(text) = FlattenSeq(parts) /\ Len(parts) = n
  BY <1>1 DEF parse_lines
<1>4. Len(records) \in Nat /\ \A i \in 1..Len(records) : records[i] \in Record
  OBVIOUS
<1>5. \A i \in 1..n : parts[i] = RecordsOf(strippedLine(clean_line(text[i])))
  BY <1>1
<1> HIDE DEF parts
<1>6. ASSUME NEW i \in 0..n
      PROVE  IsFiniteSet(Some(i)) /\ Cardinality(Some(i)) \in Nat
             /\ Cardinality(Some(i)) <= Len(records)
  <2>1. IsFiniteSet(1..n)
    BY <1>1, FS_Interval
  <2>2. Some(n) \in SUBSET (1..n) /\ Some(i) \in SUBSET Some(n)
    BY <1>1
  <2> HIDE DEF Some
  <2>3. IsFiniteSet(Some(n))
    BY <2>1, <2>2, FS_Subset
  <2>4. IsFiniteSet(Some(i)) /\ Cardinality(Some(i)) <= Cardinality(Some(n))
    BY <2>2, <2>3, FS_Subset
  <2>5. Cardinality(Some(i)) \in Nat
    BY <2>4, FS_CardinalityType
  <2>6. QED
    BY <1>2, <2>4, <2>5
<1>7. Cardinality(Some(0)) = 0
  <2>1. Some(0) = {}
    OBVIOUS
  <2>2. QED
    BY <2>1, FS_EmptySet
<1>8. ASSUME NEW i \in 1..n
      PROVE  \/ parts[i] = <<>> /\ g[i] = g[i - 1]
             \/ g[i] = g[i - 1] + 1 /\ parts[i] = <<records[g[i]]>>
  <2>1. i \in 0..n /\ i - 1 \in 0..n /\ i \in Nat
    BY <1>1
  <2>2. g[i] = Cardinality(Some(i)) /\ g[i - 1] = Cardinality(Some(i - 1))
    BY <2>1
  <2>3. text[i] \in Seq(Symbol)
    BY <1>1
  <2>4. CASE Silent(text[i])
    <3>1. Some(i) = Some(i - 1)
      <4>1. \A j \in 1..i : j = i \/ j \in 1..(i - 1)
        BY <2>1
      <4>2. \A j \in 1..(i - 1) : j \in 1..i
        BY <2>1
      <4>3. QED
        BY <2>4, <4>1, <4>2
    <3>2. RecordsOf(strippedLine(clean_line(text[i]))) = <<>>
      BY <2>3, <2>4, LineSilent
    <3>3. QED
      BY <1>5, <2>2, <3>1, <3>2
  <2>5. CASE ~Silent(text[i])
    <3>1. Some(i) = Some(i - 1) \cup {i} /\ i \notin Some(i - 1)
      <4>1. \A j \in 1..i : j = i \/ j \in 1..(i - 1)
        BY <2>1
      <4>2. \A j \in 1..(i - 1) : j \in 1..i /\ j # i
        BY <2>1
      <4>3. i \in 1..i
        BY <2>1
      <4>4. QED
        BY <2>5, <4>1, <4>2, <4>3
    <3>2. IsFiniteSet(Some(i - 1)) /\ Cardinality(Some(i - 1)) \in Nat /\ Cardinality(Some(i)) <= Len(records)
      BY <1>6, <2>1
    <3> DEFINE k == Cardinality(Some(i))
    <3>3. k = Cardinality(Some(i - 1)) + 1
      <4> HIDE DEF Some
      <4>1. QED
        BY <3>1, <3>2, FS_AddElement
    <3>4. Says(text[i], records[k])
      BY <1>2, <2>5
    <3> HIDE DEF k
    <3>5. k \in 1..Len(records)
      BY <1>4, <3>2, <3>3 DEF k
    <3> DEFINE r == records[k]
    <3>6. r \in Record /\ Says(text[i], r)
      BY <1>4, <3>4, <3>5
    <3> HIDE DEF r
    <3>7. RecordsOf(strippedLine(clean_line(text[i]))) = <<r>>
      BY <2>3, <3>6, LineSays
    <3>8. parts[i] = <<r>>
      BY <1>5, <3>7
    <3>9. g[i] = k /\ g[i] = g[i - 1] + 1
      BY <2>2, <3>3 DEF k
    <3> HIDE DEF g
    <3>10. QED
      BY <3>8, <3>9 DEF r
  <2>6. QED
    BY <2>4, <2>5
<1>9. parts \in Seq(Seq(Record))
  <2>1. <<>> \in Seq(Record) /\ \A r \in Record : <<r>> \in Seq(Record)
    OBVIOUS
  <2>2. ASSUME NEW i \in 1..n PROVE parts[i] \in Seq(Record)
    <3>1. CASE parts[i] = <<>>
      BY <2>1, <3>1
    <3>2. CASE g[i] = g[i - 1] + 1 /\ parts[i] = <<records[g[i]]>>
      <4>1. i \in 0..n /\ i - 1 \in 0..n
        BY <1>1
      <4>2. g[i] = Cardinality(Some(i)) /\ g[i - 1] = Cardinality(Some(i - 1))
        BY <4>1
      <4> HIDE DEF g
      <4>3. g[i] \in Nat /\ g[i - 1] \in Nat /\ g[i] <= Len(records)
        BY <1>6, <4>1, <4>2
      <4>4. g[i] \in 1..Len(records)
        BY <1>4, <3>2, <4>3
      <4>5. QED
        BY <1>4, <2>1, <3>2, <4>4
    <3> HIDE DEF g
    <3>3. QED
      BY <1>8, <3>1, <3>2
  <2>3. DOMAIN parts = 1..n /\ parts = [i \in 1..n |-> parts[i]]
    BY <1>1 DEF parts
  <2>4. parts \in [1..n -> Seq(Record)]
    BY <2>2, <2>3
  <2> HIDE DEF n
  <2>5. QED
    BY <1>1, <2>4
<1>10. Gathers(g, parts, records)
  <2>1. \A i \in 0..n : g[i] = Cardinality(Some(i))
    OBVIOUS
  <2>2. ASSUME NEW i \in 0..n PROVE g[i] \in 0..Len(records)
    <3> DEFINE k == Cardinality(Some(i))
    <3>1. k \in Nat /\ k <= Len(records)
      BY <1>6
    <3>2. g[i] = k
      BY <2>1
    <3> HIDE DEF k, g
    <3>3. QED
      BY <1>4, <3>1, <3>2
  <2>3. g \in [0..n -> 0..Len(records)]
    BY <2>2
  <2>4. 0 \in 0..n /\ n \in 0..n
    BY <1>1
  <2>5. g[0] = 0 /\ g[n] = Len(records)
    BY <1>2, <1>7, <2>1, <2>4
  <2> HIDE DEF g
  <2>6. QED
    BY <1>3, <1>8, <2>3, <2>5 DEF Gathers
<1> HIDE DEF g
<1>11. FlattenSeq(parts) = records
  BY <1>9, <1>10, FlattenCounted
<1>12. QED
  BY <1>3, <1>11

\* A plain file is read as the records of its groups.
LEMMA FileIs ==
  ASSUME NEW s \in Servers, Plain(s.groups)
  PROVE  s.groups \in Seq(GroupType) /\ parse_lines(s.text) = FileRecords(s.groups)
<1>1. s.groups \in Seq(GroupType) /\ IsWritten(s.text, FileRecords(s.groups))
  BY FileAssumption DEF GroupType, RuleType
<1>2. s.text \in Seq(Seq(Symbol))
  <2>1. s.text \in Seq(Seq(STRING))
    BY CrawlAssumption
  <2>2. QED
    BY <2>1, Symbols
<1>3. PICK f : Lays(f, s.groups)
  BY <1>1, FileLays
<1>4. FileRecords(s.groups) \in Seq(Record)
  BY <1>3 DEF Lays
<1> DEFINE text == s.text
           records == FileRecords(s.groups)
<1> HIDE DEF text, records
<1>5. text \in Seq(Seq(Symbol)) /\ records \in Seq(Record) /\ IsWritten(text, records)
  BY <1>1, <1>2, <1>4 DEF text, records
<1>6. parse_lines(text) = records
  BY <1>5, WrittenIsRead
<1>7. QED
  BY <1>1, <1>6 DEF text, records

-----------------------------------------------------------------------------
\* What the rules say of a path.

\* Of the places in a set one has the greatest value.
LEMMA GreatestIn ==
  ASSUME NEW n \in Nat, NEW f \in [1..n -> Nat], NEW S \in SUBSET (1..n), S # {}
  PROVE  \E i \in S : \A j \in S : f[j] <= f[i]
<1> DEFINE P == {m \in Nat : m <= n => \E b \in Nat : \A i \in 1..m : f[i] <= b}
<1>1. 0 \in P
  OBVIOUS
<1>2. ASSUME NEW m \in Nat, m \in P PROVE m + 1 \in P
  <2>1. SUFFICES ASSUME m + 1 <= n PROVE \E b \in Nat : \A i \in 1..(m + 1) : f[i] <= b
    OBVIOUS
  <2>2. m <= n
    BY <2>1
  <2>3. PICK b \in Nat : \A i \in 1..m : f[i] <= b
    BY <1>2, <2>2
  <2>4. m + 1 \in 1..n /\ f[m + 1] \in Nat
    BY <2>1
  <2>5. b + f[m + 1] \in Nat
    BY <2>4
  <2>6. ASSUME NEW i \in 1..(m + 1) PROVE f[i] <= b + f[m + 1]
    <3>1. CASE i = m + 1
      BY <2>4, <3>1
    <3>2. CASE i # m + 1
      <4>1. i \in 1..m /\ i \in 1..n
        BY <2>1, <3>2
      <4>2. f[i] \in Nat /\ f[i] <= b
        BY <2>3, <4>1
      <4>3. QED
        BY <2>4, <4>2
    <3>3. QED
      BY <3>1, <3>2
  <2>7. QED
    BY <2>5, <2>6
<1>3. n \in P
  <2> HIDE DEF P
  <2> QED BY <1>1, <1>2, SetInduction
<1>4. PICK b \in Nat : \A i \in 1..n : f[i] <= b
  BY <1>3
<1> DEFINE values == {f[i] : i \in S}
<1>5. values \in SUBSET Nat /\ values # {} /\ \A y \in values : y <= b
  BY <1>4
<1> HIDE DEF values
<1>6. Max(values) \in values /\ \A y \in values : y <= Max(values)
  BY <1>5, MaxInSet
<1>7. PICK i \in S : Max(values) = f[i]
  BY <1>6 DEF values
<1>8. \A j \in S : f[j] <= f[i]
  BY <1>6, <1>7 DEF values
<1>9. QED
  BY <1>8

\* The rules of the queue, in terms of the rules of the file.
Judges(rule, r) ==
  /\ rule.type = "GROUP_MEMBER_ALLOW" <=> r.allow
  /\ rule.len \in Nat
  /\ r.path = <<>> => rule.len = 0
  /\ r.path # <<>> => rule.len = Weight(r.path) /\ rule.len > 0
  /\ r.path # <<>> => \A path \in Seq(Symbol) : fnmatch(rule.value, path) <=> Matches(r.path, path)

\* A rule of the queue judges paths as the rule of the file does.
LEMMA RuleJudges ==
  ASSUME NEW r \in RuleType, r.path = <<>> \/ PlainPath(r.path)
  PROVE  Judges(Rule(RuleRecord(r)), r)
<1> DEFINE rule == Rule(RuleRecord(r))
<1>1. /\ rule.type = (IF r.allow THEN "GROUP_MEMBER_ALLOW" ELSE "GROUP_MEMBER_DENY")
      /\ rule.value = patternize(r.path)
      /\ rule.len = Len(r.path) - (IF Has(r.path, "*") THEN 1 ELSE 0)
  BY DEF Rule, RuleRecord
<1> HIDE DEF rule
<1>2. rule.type = "GROUP_MEMBER_ALLOW" <=> r.allow
  BY <1>1 DEF RuleType
<1>3. CASE r.path = <<>>
  <2>1. ~Has(<<>>, "*")
    BY DEF Has, Range
  <2>2. rule.len = 0
    BY <1>1, <1>3, <2>1
  <2>3. QED
    BY <1>2, <1>3, <2>2 DEF Judges, rule
<1>4. CASE r.path # <<>>
  <2>1. PlainPath(r.path)
    BY <1>4
  <2>2. rule.len = Weight(r.path) /\ Weight(r.path) \in Nat \ {0}
    BY <1>1, <2>1, WeightIs
  <2>3. \A path \in Seq(Symbol) : fnmatch(rule.value, path) <=> Matches(r.path, path)
    BY <1>1, <2>1, PatternMatches
  <2>4. rule.len \in Nat /\ rule.len > 0
    BY <2>2
  <2>5. QED
    BY <1>2, <1>4, <2>2, <2>3, <2>4 DEF Judges, rule
<1>5. QED
  BY <1>3, <1>4

\* The rules of a plain file are plain, or empty.
LEMMA PlainPaths ==
  ASSUME NEW groups \in Seq(GroupType), Plain(groups), NEW r \in Rules(groups)
  PROVE  r.path = <<>> \/ PlainPath(r.path)
<1>1. PICK i \in DOMAIN groups : r \in Range(groups[i].rules)
  BY DEF Rules
<1>2. r \in UNION {Range(groups[j].rules) : j \in DOMAIN groups}
  BY <1>1
<1>3. \/ r.path = <<>>
      \/ /\ Head(r.path) = "/" /\ {"?", "[", "\\", Blank} \cap Range(r.path) = {}
         /\ Cardinality(Stars(r.path)) <= 1
  BY <1>2 DEF Plain
<1>4. groups[i].rules \in Seq(RuleType)
  BY GroupParts
<1>5. r \in RuleType
  BY <1>1, <1>4, RangeOfSeq
<1>6. r.path \in Seq(Symbol)
  BY <1>5, Symbols DEF RuleType
<1>7. QED
  BY <1>3, <1>6 DEF PlainPath

\* The whole queue.
Judged(queue, rules) ==
  /\ DOMAIN queue = 1..Len(rules)
  /\ \A i \in 1..Len(rules) : rules[i] \in RuleType /\ Judges(queue[i], rules[i])

\* The queue of a plain file holds the rules for this program, in some order.
LEMMA QueueIs ==
  ASSUME NEW s \in Servers, Plain(s.groups)
  PROVE  \E rules \in Seq(RuleType) :
           /\ Range(rules) = Rules(s.groups)
           /\ s.text = <<>> => rules = <<>>
           /\ s.text # <<>> => Judged(robot_parser_init(s.text).compareQueue, rules)
<1>1. s.groups \in Seq(GroupType) /\ parse_lines(s.text) = FileRecords(s.groups)
  BY FileIs
<1> DEFINE found == extract_applicable_records(FileRecords(s.groups))
<1>2. PICK rules \in Seq(RuleType) : Range(rules) = Rules(s.groups) /\ TakenFrom(found, rules)
  BY <1>1, PlainRules
<1>3. s.text = <<>> => rules = <<>>
  <2>1. SUFFICES ASSUME s.text = <<>> PROVE rules = <<>>
    OBVIOUS
  <2>2. parse_lines(<<>>) = <<>>
    BY DEF parse_lines, FlattenSeq
  <2>3. found = <<>>
    BY <1>1, <2>1, <2>2 DEF extract_applicable_records
  <2> HIDE DEF found
  <2>4. Len(rules) = 0
    BY <1>2, <2>3 DEF TakenFrom
  <2>5. QED
    BY <2>4
<1>4. ASSUME s.text # <<>> PROVE Judged(robot_parser_init(s.text).compareQueue, rules)
  <2> DEFINE queue == [i \in DOMAIN found |-> Rule(found[i])]
  <2>1. robot_parser_init(s.text).compareQueue = queue
    BY <1>1, <1>4 DEF robot_parser_init
  <2> HIDE DEF found
  <2>2. found \in Seq(Record) /\ Len(found) = Len(rules) /\ \A i \in 1..Len(rules) : found[i] = RuleRecord(rules[i])
    BY <1>2 DEF TakenFrom
  <2>3. DOMAIN queue = 1..Len(rules) /\ \A i \in 1..Len(rules) : queue[i] = Rule(RuleRecord(rules[i]))
    BY <2>2
  <2> HIDE DEF queue
  <2>4. ASSUME NEW i \in 1..Len(rules) PROVE rules[i] \in RuleType /\ Judges(queue[i], rules[i])
    <3>1. rules[i] \in RuleType /\ rules[i] \in Rules(s.groups)
      BY <1>2 DEF Range
    <3>2. rules[i].path = <<>> \/ PlainPath(rules[i].path)
      BY <1>1, <3>1, PlainPaths
    <3>3. Judges(Rule(RuleRecord(rules[i])), rules[i])
      BY <3>1, <3>2, RuleJudges
    <3>4. QED
      BY <2>3, <3>1, <3>3
  <2>5. QED
    BY <2>1, <2>3, <2>4 DEF Judged
<1>5. QED
  BY <1>2, <1>3, <1>4

\* The rule that decides: it matches, and none that matches weighs more.
Decides(rules, b, path) ==
  /\ b \in 1..Len(rules) /\ rules[b].path # <<>> /\ Matches(rules[b].path, path)
  /\ \A i \in 1..Len(rules) :
       rules[i].path # <<>> /\ Matches(rules[i].path, path) => Weight(rules[i].path) <= Weight(rules[b].path)

\* A path is judged by one of the longest rules that match it, or allowed if none does.
LEMMA VerdictIs ==
  ASSUME NEW rules \in Seq(RuleType), NEW obj, ~obj.noRobotsFound, Judged(obj.compareQueue, rules),
         NEW path \in Seq(Symbol)
  PROVE  \/ \E b : Decides(rules, b, path) /\ (access_is_allowed(obj, path) <=> rules[b].allow)
         \/ /\ \A i \in 1..Len(rules) : rules[i].path = <<>> \/ ~Matches(rules[i].path, path)
            /\ access_is_allowed(obj, path)
<1> DEFINE n == Len(rules)
           queue == obj.compareQueue
           matching == {i \in DOMAIN queue : queue[i].len > 0 /\ fnmatch(queue[i].value, path)}
           best == {i \in matching : \A j \in matching : queue[j].len <= queue[i].len}
<1>1. n \in Nat
  OBVIOUS
<1>2. DOMAIN queue = 1..n /\ \A i \in 1..n : Judges(queue[i], rules[i])
  BY DEF Judged
<1>3. Deciding(queue, path) = best
  BY DEF Deciding
<1>4. access_is_allowed(obj, path) <=> best = {} \/ queue[Min(best)].type = "GROUP_MEMBER_ALLOW"
  BY <1>3 DEF access_is_allowed
<1>5. \A i \in 1..n : i \in matching <=> rules[i].path # <<>> /\ Matches(rules[i].path, path)
  <2>1. ASSUME NEW i \in 1..n
        PROVE  queue[i].len > 0 /\ fnmatch(queue[i].value, path) <=> rules[i].path # <<>> /\ Matches(rules[i].path, path)
    BY <1>2 DEF Judges
  <2>2. QED
    BY <1>2, <2>1
<1>6. matching \in SUBSET (1..n)
  BY <1>2
<1>7. \A i \in matching : queue[i].len = Weight(rules[i].path)
  BY <1>2, <1>5, <1>6 DEF Judges
<1>8. CASE matching = {}
  <2>1. best = {}
    BY <1>8
  <2>2. access_is_allowed(obj, path)
    BY <1>4, <2>1
  <2> HIDE DEF matching
  <2>3. \A i \in 1..n : rules[i].path = <<>> \/ ~Matches(rules[i].path, path)
    BY <1>5, <1>8
  <2>4. QED
    BY <2>2, <2>3
<1>9. CASE matching # {}
  <2> DEFINE f == [i \in 1..n |-> queue[i].len]
  <2>1. f \in [1..n -> Nat]
    BY <1>2 DEF Judges
  <2>2. \A i \in matching : f[i] = queue[i].len
    BY <1>6
  <2> HIDE DEF matching, f
  <2>3. PICK g \in matching : \A j \in matching : f[j] <= f[g]
    BY <1>1, <1>6, <1>9, <2>1, GreatestIn
  <2>4. g \in best
    BY <2>2, <2>3
  <2>5. best \in SUBSET Nat
    BY <1>1, <1>6
  <2> DEFINE b == Min(best)
  <2>6. b \in best
    <3> HIDE DEF best
    <3>1. QED
      BY <2>4, <2>5, MinInSet
  <2>7. access_is_allowed(obj, path) <=> queue[b].type = "GROUP_MEMBER_ALLOW"
    BY <1>4, <2>4
  <2> HIDE DEF b
  <2>8. b \in matching /\ b \in 1..n /\ \A j \in matching : queue[j].len <= queue[b].len
    BY <1>6, <2>6
  <2>9. queue[b].type = "GROUP_MEMBER_ALLOW" <=> rules[b].allow
    BY <1>2, <2>8 DEF Judges
  <2>10. Decides(rules, b, path)
    BY <1>5, <1>7, <2>8 DEF Decides
  <2>11. QED
    BY <2>7, <2>9, <2>10
<1>10. QED
  BY <1>8, <1>9

\* What a plain robots.txt forbids access_is_allowed denies, and what it permits it allows:
\* for every file that is written for its groups, with whatever blanks and comments, and
\* for every path.
THEOREM RobotsDecide ==
  ASSUME NEW s \in Servers, NEW path \in Seq(Symbol)
  PROVE  /\ Forbids(s.groups, path) => ~access_is_allowed(robot_parser_init(s.text), path)
         /\ Permits(s.groups, path) => access_is_allowed(robot_parser_init(s.text), path)
<1> DEFINE obj == robot_parser_init(s.text)
<1>1. SUFFICES ASSUME Plain(s.groups)
               PROVE  /\ Outweighs(s.groups, path, FALSE) => ~access_is_allowed(obj, path)
                      /\ Permits(s.groups, path) => access_is_allowed(obj, path)
  BY DEF Forbids, Permits
<1>2. PICK rules \in Seq(RuleType) :
        /\ Range(rules) = Rules(s.groups)
        /\ s.text = <<>> => rules = <<>>
        /\ s.text # <<>> => Judged(obj.compareQueue, rules)
  BY <1>1, QueueIs
<1>3. \A i \in 1..Len(rules) : rules[i] \in Rules(s.groups) /\ rules[i] \in RuleType
  BY <1>2 DEF Range
<1>4. \A r \in Rules(s.groups) : \E i \in 1..Len(rules) : r = rules[i]
  BY <1>2 DEF Range
<1>5. \A i \in 1..Len(rules) : rules[i].path # <<>> => Weight(rules[i].path) \in Nat
  <2>1. ASSUME NEW i \in 1..Len(rules), rules[i].path # <<>> PROVE Weight(rules[i].path) \in Nat
    <3>1. s.groups \in Seq(GroupType)
      BY FileAssumption DEF FileAssumption, GroupType, RuleType
    <3>2. PlainPath(rules[i].path)
      BY <1>1, <1>3, <2>1, <3>1, PlainPaths
    <3>3. QED
      BY <3>2, WeightIs
  <2>2. QED
    BY <2>1
<1>6. CASE s.text = <<>>
  <2>1. access_is_allowed(obj, path)
    BY <1>6 DEF access_is_allowed, robot_parser_init, NoRobots
  <2>2. Rules(s.groups) = {}
    BY <1>2, <1>6 DEF Range
  <2>3. ~Outweighs(s.groups, path, FALSE)
    BY <2>2 DEF Outweighs
  <2>4. QED
    BY <2>1, <2>3
<1>7. CASE s.text # <<>>
  <2>1. ~obj.noRobotsFound
    BY <1>7 DEF robot_parser_init
  <2> HIDE DEF obj
  <2>2. CASE /\ \A i \in 1..Len(rules) : rules[i].path = <<>> \/ ~Matches(rules[i].path, path)
             /\ access_is_allowed(obj, path)
    <3>1. ~Outweighs(s.groups, path, FALSE)
      BY <1>4, <2>2 DEF Outweighs
    <3>2. QED
      BY <2>2, <3>1
  <2>3. ASSUME NEW b, Decides(rules, b, path), access_is_allowed(obj, path) <=> rules[b].allow
        PROVE  /\ Outweighs(s.groups, path, FALSE) => ~access_is_allowed(obj, path)
               /\ Permits(s.groups, path) => access_is_allowed(obj, path)
    <3>1. b \in 1..Len(rules) /\ rules[b] \in Rules(s.groups) /\ rules[b].allow \in BOOLEAN
          /\ rules[b].path # <<>> /\ Matches(rules[b].path, path)
      BY <1>3, <2>3 DEF Decides, RuleType
    <3>2. ASSUME NEW allow \in BOOLEAN, Outweighs(s.groups, path, allow) PROVE rules[b].allow = allow
      <4>1. PICK r \in Rules(s.groups) :
              /\ r.allow = allow /\ r.path # <<>> /\ Matches(r.path, path)
              /\ \A t \in Rules(s.groups) :
                   t.allow = allow \/ Weight(t.path) < Weight(r.path) \/ ~Matches(t.path, path)
        BY <3>2 DEF Outweighs
      <4>2. PICK i \in 1..Len(rules) : r = rules[i]
        BY <1>4
      <4>3. Weight(r.path) <= Weight(rules[b].path)
        BY <2>3, <4>1, <4>2 DEF Decides
      <4>4. Weight(r.path) \in Nat /\ Weight(rules[b].path) \in Nat
        BY <1>5, <3>1, <4>1, <4>2
      <4>5. ~(Weight(rules[b].path) < Weight(r.path))
        BY <4>3, <4>4
      <4>6. QED
        BY <3>1, <4>1, <4>5
    <3>3. Outweighs(s.groups, path, FALSE) => ~rules[b].allow
      BY <3>2
    <3>4. Outweighs(s.groups, path, TRUE) => rules[b].allow
      BY <3>2
    <3>5. (\A r \in Rules(s.groups) : r.allow \/ ~Matches(r.path, path) \/ r.path = <<>>) => rules[b].allow
      BY <3>1
    <3>6. Permits(s.groups, path) => rules[b].allow
      BY <3>4, <3>5 DEF Permits
    <3>7. QED
      BY <2>3, <3>3, <3>6
  <2>4. QED
    BY <1>2, <1>7, <2>1, <2>2, <2>3, VerdictIs
<1>8. QED
  BY <1>6, <1>7

-----------------------------------------------------------------------------
\* The search for a date, on lines that do not end in a blank.

\* A line that does not end in a blank.
EndsInWord(line) == line # <<>> /\ Last(line) # SP

\* On a line that ends in a word there is a next word at every place.
LEMMA NextExists ==
  ASSUME NEW line \in Seq(Token), EndsInWord(line), NEW at \in 1..Len(line)
  PROVE  /\ One(line, at) \in at..Len(line) /\ line[One(line, at)] # SP
         /\ Follows(line, at - 1, One(line, at))
<1>1. Len(line) \in Nat \ {0} /\ at \in Nat \ {0} /\ line[Len(line)] # SP
  BY DEF EndsInWord, Last
<1> DEFINE n == One(line, at)
<1>2. n \in 0..Len(line) /\ NextWord(line, at, n)
  BY <1>1, NextIs DEF One
<1> HIDE DEF n
<1>3. n # 0
  BY <1>1, <1>2 DEF NextWord
<1>4. n \in at..Len(line) /\ line[n] # SP /\ \A i \in at..(n - 1) : line[i] = SP
  BY <1>2, <1>3 DEF NextWord
<1>5. Follows(line, at - 1, n)
  BY <1>1, <1>4 DEF Follows
<1>6. QED
  BY <1>4, <1>5 DEF n

\* Whether the line ends within a date whose month is at i.
EndsFrom(line, format, i) ==
  /\ Month(format, line[i])
  /\ \/ IsLast(line, i)
     \/ /\ WithDay(format)
        /\ \E d \in DOMAIN line : Follows(line, i, d) /\ is_day(line[d]) /\ IsLast(line, d)
DateFrom(line, format, i) ==
  Month(format, line[i]) /\ \E e \in DOMAIN line : Dated(line, format, i, e)

\* Where a search breaks off the line ends in a date; where it finds one there is one.
LEMMA BreaksIs ==
  ASSUME NEW line \in Seq(Token), EndsInWord(line), NEW format, NEW at \in 1..Len(line)
  PROVE  /\ Breaks(line, format, at) => EndsFrom(line, format, One(line, at))
         /\ ~Breaks(line, format, at) /\ Whole(line, format, at) => DateFrom(line, format, One(line, at))
<1> DEFINE one == One(line, at)
           two == Two(line, at)
           year == Year(line, format, at)
<1>1. one \in at..Len(line) /\ one \in Nat \ {0} /\ one \in DOMAIN line
  <2>1. one \in at..Len(line)
    BY NextExists
  <2> HIDE DEF one
  <2>2. QED
    BY <2>1
<1>2. two = next_string(line, one + 1)
  BY DEF Two
<1>3. year = IF WithDay(format) THEN next_string(line, two + 1) ELSE two
  BY DEF Year
<1>4. Breaks(line, format, at) <=>
        Month(format, line[one]) /\ (two = 0 \/ ((WithDay(format) => is_day(line[two])) /\ year = 0))
  BY <1>1 DEF Breaks, HasMonth, HasDay
<1>5. Whole(line, format, at) <=>
        Month(format, line[one]) /\ (WithDay(format) => is_day(line[two])) /\ is_year_time(line[year])
  BY DEF Whole, HasMonth, HasDay
<1> HIDE DEF one, two, year
<1>6. two = 0 <=> IsLast(line, one)
  BY <1>1, <1>2, NoneNext
<1>7. two # 0 => two \in DOMAIN line /\ Follows(line, one, two)
  BY <1>1, <1>2, FollowsNext
<1>8. ASSUME two # 0, WithDay(format)
      PROVE  (year = 0 <=> IsLast(line, two)) /\ (year # 0 => year \in DOMAIN line /\ Follows(line, two, year))
  <2>1. two \in Nat
    BY <1>7, <1>8
  <2>2. year = next_string(line, two + 1)
    BY <1>3, <1>8
  <2>3. QED
    BY <2>1, <2>2, NoneNext, FollowsNext
<1>9. ASSUME Breaks(line, format, at) PROVE EndsFrom(line, format, one)
  <2>1. CASE two = 0
    BY <1>4, <1>6, <1>9, <2>1 DEF EndsFrom
  <2>2. CASE two # 0
    <3>1. (WithDay(format) => is_day(line[two])) /\ year = 0 /\ Month(format, line[one])
      BY <1>4, <1>9, <2>2
    <3>2. WithDay(format)
      BY <1>3, <2>2, <3>1
    <3>3. QED
      BY <1>7, <1>8, <2>2, <3>1, <3>2 DEF EndsFrom
  <2>3. QED
    BY <2>1, <2>2
<1>10. ASSUME ~Breaks(line, format, at), Whole(line, format, at) PROVE DateFrom(line, format, one)
  <2>1. Month(format, line[one]) /\ (WithDay(format) => is_day(line[two])) /\ is_year_time(line[year])
    BY <1>5, <1>10
  <2>2. two # 0 /\ year # 0
    BY <1>4, <1>10, <2>1
  <2>3. CASE WithDay(format)
    <3>1. year \in DOMAIN line /\ Follows(line, two, year) /\ two \in DOMAIN line /\ Follows(line, one, two)
      BY <1>7, <1>8, <2>2, <2>3
    <3>2. Dated(line, format, one, year)
      BY <2>1, <2>3, <3>1 DEF Dated
    <3>3. QED
      BY <2>1, <3>1, <3>2 DEF DateFrom
  <2>4. CASE ~WithDay(format)
    <3>1. year = two /\ year \in DOMAIN line /\ Follows(line, one, year)
      BY <1>3, <1>7, <2>2, <2>4
    <3>2. Dated(line, format, one, year)
      BY <2>1, <2>4, <3>1 DEF Dated
    <3>3. QED
      BY <2>1, <3>1, <3>2 DEF DateFrom
  <2>5. QED
    BY <2>3, <2>4
<1>11. QED
  BY <1>9, <1>10 DEF one

\* A format of which there is no date, nor the beginning of one at the end.
LEMMA SearchFails ==
  ASSUME NEW line \in Seq(Token), EndsInWord(line), NEW format,
         ~HasDate(line, format, Len(line) + 1), ~EndsInDate(line, format)
  PROVE  search(line, format) = <<>>
<1>1. PICK scan : Scans(scan, line, format) /\ search(line, format) = scan[1]
  BY SearchScans
<1> DEFINE n == Len(line)
           P == {d \in Nat : \A at \in 1..(n + 1) : at >= (n + 1) - d => scan[at] = <<>>}
<1>2. n \in Nat /\ Places(line) = 1..(n + 1)
  BY DEF Places
<1>3. \A at \in 1..(n + 1) : scan[at] = Scanned(line, format, scan, at)
  BY <1>1, <1>2 DEF Scans
<1>4. ASSUME NEW at \in 1..n PROVE scan[at] = scan[One(line, at) + 1] /\ One(line, at) \in at..n
  <2> DEFINE one == One(line, at)
  <2>1. one \in at..n /\ line[one] # SP
    BY NextExists
  <2>2. ~EndsFrom(line, format, one) /\ ~DateFrom(line, format, one)
    <3> HIDE DEF one
    <3>0. one \in DOMAIN line /\ one \in 1..((n + 1) - 1)
      BY <1>2, <2>1
    <3>1. ~EndsFrom(line, format, one)
      BY <2>1, <3>0 DEF EndsInDate, EndsFrom
    <3>2. ~DateFrom(line, format, one)
      BY <2>1, <3>0 DEF HasDate, DateFrom
    <3>3. QED
      BY <3>1, <3>2
  <2>3. ~Breaks(line, format, at) /\ ~Whole(line, format, at)
    BY <2>2, BreaksIs
  <2>4. at \in 1..(n + 1) /\ ~(at > Len(line))
    BY <1>2
  <2>5. scan[at] = scan[one + 1]
    BY <1>3, <2>3, <2>4 DEF Scanned
  <2>6. QED
    BY <2>1, <2>5
<1>5. 0 \in P
  <2>1. ASSUME NEW at \in 1..(n + 1), at >= (n + 1) - 0 PROVE scan[at] = <<>>
    <3>1. at > Len(line)
      BY <1>2, <2>1
    <3>2. QED
      BY <1>3, <3>1 DEF Scanned
  <2>2. QED
    BY <2>1
<1>6. ASSUME NEW d \in Nat, d \in P PROVE d + 1 \in P
  <2>1. SUFFICES ASSUME NEW at \in 1..(n + 1), at >= (n + 1) - (d + 1) PROVE scan[at] = <<>>
    OBVIOUS
  <2>2. CASE at = n + 1
    <3>1. at > Len(line)
      BY <1>2, <2>2
    <3>2. QED
      BY <1>3, <3>1 DEF Scanned
  <2>3. CASE at # n + 1
    <3>1. at \in 1..n
      BY <1>2, <2>3
    <3> DEFINE one == One(line, at)
    <3>2. scan[at] = scan[one + 1] /\ one \in at..n
      BY <1>4, <3>1
    <3> HIDE DEF one
    <3>3. one + 1 \in 1..(n + 1) /\ one + 1 >= (n + 1) - d
      BY <1>2, <2>1, <3>1, <3>2
    <3>4. QED
      BY <1>6, <3>2, <3>3
  <2>4. QED
    BY <2>2, <2>3
<1>7. \A d \in Nat : d \in P
  <2> HIDE DEF P
  <2> QED BY <1>5, <1>6, SetInduction
<1>8. n \in P
  <2> HIDE DEF P, n
  <2> QED BY <1>2, <1>7
<1>9. 1 \in 1..(n + 1) /\ 1 >= (n + 1) - n
  BY <1>2
<1>10. QED
  BY <1>1, <1>8, <1>9

\* A date of the format, at w, and the name behind it.
DateAndName(line, format, w, e, name) ==
  /\ w \in DOMAIN line /\ line[w] # SP /\ Month(format, line[w])
  /\ e \in DOMAIN line /\ Dated(line, format, w, e)
  /\ name \in DOMAIN line /\ Follows(line, e, name)

\* The words of a date, and the name behind it, as a search looks at them.
LEMMA DateWords ==
  ASSUME NEW line \in Seq(Token), NEW format, NEW w, NEW e, NEW name,
         DateAndName(line, format, w, e, name)
  PROVE  /\ Two(line, w) # 0 /\ HasDay(line, format, w) /\ Year(line, format, w) = e /\ w < e /\ e < name
         /\ One(line, w) = w
         /\ NameAt(line, e + 1) = Joined(SubSeq(line, name, Len(line)))
<1>1. w \in 1..Len(line) /\ e \in 1..Len(line) /\ name \in 1..Len(line) /\ Len(line) \in Nat
  BY DEF DateAndName
<1>2. w \in Nat \ {0} /\ e \in Nat \ {0} /\ name \in Nat \ {0}
  BY <1>1
<1>3. One(line, w) = w
  <2>1. Follows(line, w - 1, w) /\ w - 1 \in Nat /\ (w - 1) + 1 = w
    BY <1>2 DEF DateAndName, Follows
  <2>2. w \in DOMAIN line
    BY DEF DateAndName
  <2>3. next_string(line, (w - 1) + 1) = w
    BY <2>1, <2>2, NextFollows
  <2>4. QED
    BY <2>1, <2>3 DEF One
<1>4. NameAt(line, e + 1) = Joined(SubSeq(line, name, Len(line)))
  <2>1. next_string(line, e + 1) = name
    BY <1>2, NextFollows DEF DateAndName
  <2>2. QED
    BY <1>2, <2>1 DEF NameAt
<1>5. e < name
  BY DEF DateAndName, Follows
<1>6. CASE WithDay(format)
  <2>1. PICK d \in DOMAIN line : Follows(line, w, d) /\ is_day(line[d]) /\ Follows(line, d, e)
    BY <1>6 DEF DateAndName, Dated
  <2>2. d \in 1..Len(line) /\ d \in Nat \ {0}
    BY <1>1, <2>1
  <2>3. Two(line, w) = d
    BY <1>2, <1>3, <2>1, NextFollows DEF Two
  <2>4. next_string(line, d + 1) = e
    BY <2>1, <2>2, NextFollows DEF DateAndName
  <2>5. w < d /\ d < e
    BY <2>1 DEF Follows
  <2>6. QED
    BY <1>2, <1>3, <1>4, <1>5, <1>6, <2>1, <2>2, <2>3, <2>4, <2>5 DEF Year, HasDay
<1>7. CASE ~WithDay(format)
  <2>1. Follows(line, w, e)
    BY <1>7 DEF DateAndName, Dated
  <2>2. Two(line, w) = e
    BY <1>2, <1>3, <2>1, NextFollows DEF Two, DateAndName
  <2>3. w < e
    BY <2>1 DEF Follows
  <2>4. QED
    BY <1>2, <1>3, <1>4, <1>5, <1>7, <2>2, <2>3 DEF Year, HasDay
<1>8. QED
  BY <1>6, <1>7

\* If the first date of a format is at w, its name is found.
LEMMA SearchFinds ==
  ASSUME NEW line \in Seq(Token), EndsInWord(line), NEW format, NEW w, NEW e, NEW name,
         DateAndName(line, format, w, e, name), ~HasDate(line, format, w)
  PROVE  search(line, format) = <<Joined(SubSeq(line, name, Len(line)))>>
<1> DEFINE n == Len(line)
           result == <<Joined(SubSeq(line, name, n))>>
<1>1. PICK scan : Scans(scan, line, format) /\ search(line, format) = scan[1]
  BY SearchScans
<1>2. n \in Nat /\ Places(line) = 1..(n + 1) /\ w \in 1..n /\ e \in 1..n /\ w < e
      /\ line[w] # SP /\ line[e] # SP
  <2>1. w \in 1..n /\ e \in 1..n /\ line[w] # SP
    BY DEF DateAndName
  <2>2. line[e] # SP
    BY DEF DateAndName, Dated, Follows
  <2>3. w < e
    BY DateWords
  <2>4. QED
    BY <2>1, <2>2, <2>3 DEF Places
<1>3. \A at \in 1..(n + 1) : scan[at] = Scanned(line, format, scan, at)
  BY <1>1, <1>2 DEF Scans
\* At the date itself the name is found.
<1>4. scan[w] = result
  <2>1. One(line, w) = w /\ Two(line, w) # 0 /\ HasDay(line, format, w) /\ Year(line, format, w) = e
        /\ NameAt(line, e + 1) = Joined(SubSeq(line, name, n))
    BY DateWords
  <2>2. w # 0 /\ e # 0 /\ w \in 1..(n + 1) /\ ~(w > Len(line))
    BY <1>2
  <2>3. ~Breaks(line, format, w)
    BY <2>1, <2>2 DEF Breaks
  <2>4. is_year_time(line[e]) /\ Month(format, line[w])
    BY DEF DateAndName, Dated
  <2>5. Whole(line, format, w)
    BY <2>1, <2>4 DEF Whole, HasMonth
  <2>6. QED
    BY <1>3, <2>1, <2>2, <2>3, <2>5 DEF Scanned
\* In front of it the search goes on.
<1>5. ASSUME NEW at \in 1..w, One(line, at) # w
      PROVE  scan[at] = scan[One(line, at) + 1] /\ One(line, at) + 1 \in (at + 1)..w
  <2> DEFINE one == One(line, at)
  <2>1. at \in 1..n
    BY <1>2
  <2>2. one \in at..n /\ line[one] # SP /\ Follows(line, at - 1, one)
    BY <2>1, NextExists
  <2>3. one # w
    BY <1>5
  <2> HIDE DEF one
  <2>4. one < w
    <3>1. SUFFICES ASSUME w < one PROVE FALSE
      BY <1>2, <2>2, <2>3
    <3>2. w \in ((at - 1) + 1)..(one - 1)
      BY <1>2, <2>1, <2>2, <3>1
    <3>3. QED
      BY <1>2, <2>2, <3>2 DEF Follows
  <2>5. ~EndsFrom(line, format, one)
    <3>1. ~IsLast(line, one)
      <4>1. w \in (one + 1)..Len(line)
        BY <1>2, <2>1, <2>2, <2>4
      <4>2. QED
        BY <1>2, <4>1 DEF IsLast
    <3>2. ASSUME NEW d \in DOMAIN line, Follows(line, one, d), IsLast(line, d) PROVE FALSE
      <4>1. d \in 1..n /\ one < d
        BY <3>2 DEF Follows
      <4>2. ~(w < d)
        <5>1. SUFFICES ASSUME w < d PROVE FALSE
          OBVIOUS
        <5>2. w \in (one + 1)..(d - 1)
          BY <1>2, <2>1, <2>2, <2>4, <4>1, <5>1
        <5>3. QED
          BY <1>2, <3>2, <5>2 DEF Follows
      <4>3. e \in (d + 1)..Len(line)
        BY <1>2, <4>1, <4>2
      <4>4. QED
        BY <1>2, <3>2, <4>3 DEF IsLast
    <3>3. QED
      BY <3>1, <3>2 DEF EndsFrom
  <2>6. ~DateFrom(line, format, one)
    <3>1. one \in 1..(w - 1)
      BY <1>2, <2>1, <2>2, <2>4
    <3>2. QED
      BY <2>2, <3>1 DEF HasDate, DateFrom
  <2>7. ~Breaks(line, format, at) /\ ~Whole(line, format, at)
    BY <2>1, <2>5, <2>6, BreaksIs DEF one
  <2>8. at \in 1..(n + 1) /\ ~(at > Len(line))
    BY <1>2, <2>1
  <2>9. scan[at] = scan[one + 1]
    BY <1>3, <2>7, <2>8 DEF Scanned, one
  <2>10. one + 1 \in (at + 1)..w
    BY <1>2, <2>1, <2>2, <2>4
  <2>11. QED
    BY <2>9, <2>10 DEF one
<1> DEFINE P == {d \in Nat : \A at \in 1..w : at >= w - d => scan[at] = result}
<1> HIDE DEF result
<1>6. 0 \in P
  <2>1. ASSUME NEW at \in 1..w, at >= w - 0 PROVE scan[at] = result
    <3>1. at = w
      BY <1>2, <2>1
    <3>2. QED
      BY <1>4, <3>1
  <2>2. QED
    BY <2>1
<1>7. ASSUME NEW d \in Nat, d \in P PROVE d + 1 \in P
  <2>1. SUFFICES ASSUME NEW at \in 1..w, at >= w - (d + 1) PROVE scan[at] = result
    OBVIOUS
  <2>2. CASE One(line, at) = w
    \* the same words as at the date
    <3>1. at \in 1..(n + 1) /\ ~(at > Len(line)) /\ w \in 1..(n + 1) /\ ~(w > Len(line))
      BY <1>2
    <3>2. One(line, w) = w
      BY DateWords
    <3>3. Two(line, at) = Two(line, w)
      BY <2>2, <3>2 DEF Two
    <3>4. Year(line, format, at) = Year(line, format, w) /\ HasDay(line, format, at) = HasDay(line, format, w)
          /\ HasMonth(line, format, at) = HasMonth(line, format, w)
      BY <2>2, <3>2, <3>3 DEF Year, HasDay, HasMonth
    <3>5. Scanned(line, format, scan, at) = Scanned(line, format, scan, w)
      BY <2>2, <3>1, <3>2, <3>3, <3>4 DEF Scanned, Breaks, Whole
    <3>6. QED
      BY <1>3, <1>4, <3>1, <3>5
  <2>3. CASE One(line, at) # w
    <3> DEFINE one == One(line, at)
    <3>1. scan[at] = scan[one + 1] /\ one + 1 \in (at + 1)..w
      BY <1>5, <2>3
    <3> HIDE DEF one
    <3>2. one + 1 \in 1..w /\ one + 1 >= w - d
      BY <1>2, <2>1, <3>1
    <3>3. QED
      BY <1>7, <3>1, <3>2
  <2>4. QED
    BY <2>2, <2>3
<1>8. \A d \in Nat : d \in P
  <2> HIDE DEF P
  <2> QED BY <1>6, <1>7, SetInduction
<1>9. w \in P
  <2>1. w \in Nat
    BY <1>2
  <2> HIDE DEF P
  <2> QED BY <1>8, <2>1
<1>10. 1 \in 1..w /\ 1 >= w - w
  BY <1>2
<1>11. QED
  BY <1>1, <1>9, <1>10 DEF result

\* The name field of a line whose date is clear.
LEMMA FieldIs ==
  ASSUME NEW line \in LineType, EndsInWord(line.tokens), ClearDate(line), line.format \in 1..4,
         NEW e, DateAndName(line.tokens, line.format, line.date, e, line.name)
  PROVE  find_linux_name_field2(line.tokens) = Joined(SubSeq(line.tokens, line.name, Len(line.tokens)))
<1> DEFINE tokens == line.tokens
           found == [format \in 1..4 |-> search(tokens, format)]
           ended == {format \in 1..4 : found[format] # <<>>}
           text == Joined(SubSeq(tokens, line.name, Len(tokens)))
<1>1. tokens \in Seq(Token)
  BY DEF LineType
<1>2. find_linux_name_field2(tokens) = IF ended = {} THEN <<>> ELSE found[Min(ended)][1]
  BY DEF find_linux_name_field2
<1>3. \A f \in 1..(line.format - 1) : search(tokens, f) = <<>>
  BY <1>1, SearchFails DEF ClearDate
<1>4. search(tokens, line.format) = <<text>>
  BY <1>1, SearchFinds DEF ClearDate
<1> HIDE DEF text
<1> DEFINE own == line.format
<1>a. own \in 1..4 /\ search(tokens, own) = <<text>> /\ \A f \in 1..(own - 1) : search(tokens, f) = <<>>
  BY <1>3, <1>4
<1> HIDE DEF tokens, own
<1>5. own \in ended
  <2>1. found[own] = <<text>>
    BY <1>a
  <2>2. <<text>> # <<>>
    OBVIOUS
  <2> HIDE DEF found
  <2>3. QED
    BY <1>a, <2>1, <2>2
<1>6. \A f \in ended : f \in 1..4 /\ ~(f < own)
  BY <1>a
<1>7. ended \in SUBSET Nat
  OBVIOUS
<1> DEFINE m == Min(ended)
<1>8. m \in ended /\ m <= own
  <2> HIDE DEF ended
  <2>1. QED
    BY <1>5, <1>7, MinInSet
<1> HIDE DEF m
<1>9. m = own
  BY <1>a, <1>6, <1>8
<1>10. found[m] = <<text>>
  BY <1>a, <1>9
<1>11. find_linux_name_field2(tokens) = text
  <2>1. ended # {}
    BY <1>5
  <2> HIDE DEF ended, found
  <2>2. QED
    BY <1>2, <1>10, <2>1 DEF m
<1>12. QED
  BY <1>11 DEF tokens, text

-----------------------------------------------------------------------------
\* What dropping, trimming and enqueuing leave of a name.

\* t is s without its element k.
Drops(t, s, k) ==
  /\ Len(t) = Len(s) - 1
  /\ \A j \in 1..(Len(s) - 1) : t[j] = IF j < k THEN s[j] ELSE s[j + 1]

\* Leaving out the one x of a sequence.
LEMMA DropOne ==
  ASSUME NEW T, NEW s \in Seq(T), NEW k \in 1..Len(s), NEW x,
         \A i \in 1..Len(s) : s[i] = x <=> i = k
  PROVE  Drops(Without(s, x), s, k)
<1> DEFINE n == Len(s)
           parts == [i \in DOMAIN s |-> IF s[i] = x THEN <<>> ELSE <<s[i]>>]
           upto(m) == IF m < k THEN m ELSE m - 1
<1>1. n \in Nat /\ DOMAIN s = 1..n /\ k \in Nat \ {0} /\ k <= n
  OBVIOUS
<1>2. \A i \in 1..n : (IF s[i] = x THEN <<>> ELSE <<s[i]>>) \in Seq(T)
  OBVIOUS
<1>3. parts \in Seq(Seq(T)) /\ Len(parts) = n /\ \A i \in 1..n : parts[i] = IF i = k THEN <<>> ELSE <<s[i]>>
  BY <1>1, <1>2
<1>4. Without(s, x) = FlattenSeq(parts)
  BY DEF Without
<1> HIDE DEF parts, n
<1>5. PICK f : Flattens(f, parts, T) /\ FlattenSeq(parts) = f[Len(parts)]
  BY <1>3, Flattened
<1> DEFINE P == {m \in Nat : m <= n =>
                   Len(f[m]) = upto(m) /\ \A j \in 1..upto(m) : f[m][j] = IF j < k THEN s[j] ELSE s[j + 1]}
<1>6. 0 \in P
  <2>1. f[0] = <<>>
    BY <1>5 DEF Flattens
  <2>2. upto(0) = 0
    BY <1>1
  <2>3. QED
    BY <2>1, <2>2
<1>7. ASSUME NEW m \in Nat, m \in P PROVE m + 1 \in P
  <2> DEFINE g == m + 1
  <2>1. SUFFICES ASSUME g <= n
                 PROVE  Len(f[g]) = upto(g) /\ \A j \in 1..upto(g) : f[g][j] = IF j < k THEN s[j] ELSE s[j + 1]
    OBVIOUS
  <2>2. g \in 1..n /\ g - 1 = m /\ g \in Nat /\ m <= n
    BY <1>1, <2>1
  <2>3. Len(f[m]) = upto(m) /\ \A j \in 1..upto(m) : f[m][j] = IF j < k THEN s[j] ELSE s[j + 1]
    BY <1>7, <2>2
  <2> HIDE DEF P
  <2>4. Extends(f, parts, T, g)
    <3> HIDE DEF g
    <3>1. g \in 1..Len(parts)
      BY <1>3, <2>2
    <3>2. QED
      BY <1>3, <1>5, <3>1, FlattenStep
  <2>5. /\ Len(f[g]) = Len(f[m]) + Len(parts[g])
        /\ \A j \in 1..Len(f[m]) : f[g][j] = f[m][j]
        /\ \A j \in 1..Len(parts[g]) : f[g][Len(f[m]) + j] = parts[g][j]
    BY <2>2, <2>4 DEF Extends
  <2> HIDE DEF g
  <2>6. CASE g = k
    <3>1. parts[g] = <<>> /\ Len(<<>>) = 0
      BY <1>3, <2>2, <2>6
    <3>2. upto(g) = m /\ upto(m) = m /\ m \in Nat /\ g = m + 1
      BY <1>1, <2>2, <2>6
    <3> HIDE DEF upto
    <3>3. QED
      BY <2>3, <2>5, <3>1, <3>2
  <2>7. CASE g # k
    <3>1. parts[g] = <<s[g]>> /\ Len(<<s[g]>>) = 1 /\ <<s[g]>>[1] = s[g]
      BY <1>3, <2>2, <2>7
    <3>2. upto(g) = upto(m) + 1 /\ upto(m) \in Nat /\ g = m + 1
          /\ (g < k => upto(g) = g) /\ (~(g < k) => upto(g) + 1 = g /\ ~(upto(g) < k))
      BY <1>1, <2>2, <2>7
    <3> DEFINE u == upto(m)
               v == upto(g)
    <3>3. v = u + 1 /\ u \in Nat /\ Len(f[m]) = u
          /\ (g < k => v = g) /\ (~(g < k) => v + 1 = g /\ ~(v < k))
          /\ \A j \in 1..u : f[m][j] = IF j < k THEN s[j] ELSE s[j + 1]
      BY <2>3, <3>2
    <3> HIDE DEF u, v, upto
    <3>4. Len(f[g]) = v /\ \A j \in 1..u : f[g][j] = f[m][j]
      BY <2>5, <3>1, <3>3
    <3>5. f[g][v] = s[g]
      <4>1. 1 \in 1..Len(parts[g])
        BY <3>1
      <4>2. f[g][Len(f[m]) + 1] = parts[g][1]
        BY <2>5, <4>1
      <4>3. QED
        BY <3>1, <3>3, <4>2
    <3>6. ASSUME NEW j \in 1..v PROVE f[g][j] = IF j < k THEN s[j] ELSE s[j + 1]
      <4>1. CASE j = v
        BY <2>2, <3>3, <3>5, <4>1
      <4>2. CASE j # v
        <5>1. j \in 1..u
          BY <3>3, <4>2
        <5>2. QED
          BY <3>3, <3>4, <5>1
      <4>3. QED
        BY <4>1, <4>2
    <3>7. QED
      BY <3>4, <3>6 DEF v
  <2>8. QED
    BY <2>6, <2>7
<1>8. n \in P
  <2> HIDE DEF P
  <2> QED BY <1>1, <1>6, <1>7, SetInduction
<1>9. upto(n) = n - 1
  BY <1>1
<1>10. Len(f[n]) = upto(n) /\ \A j \in 1..upto(n) : f[n][j] = IF j < k THEN s[j] ELSE s[j + 1]
  <2>1. n <= n
    BY <1>1
  <2> HIDE DEF upto
  <2>2. QED
    BY <1>8, <2>1
<1>11. Without(s, x) = f[n]
  BY <1>3, <1>4, <1>5
<1> HIDE DEF P, upto
<1>12. QED
  BY <1>9, <1>10, <1>11 DEF Drops, n

\* Trimmed ends in the last symbol that is no blank.
LEMMA TrimmedEnds ==
  ASSUME NEW s \in Seq(Symbol), NEW e \in 1..Len(s), s[e] # SP, \A i \in (e + 1)..Len(s) : s[i] = SP
  PROVE  Trimmed(s) # <<>> /\ Last(Trimmed(s)) = s[e] /\ Len(Trimmed(s)) = e
<1>1. PICK f \in 0..Len(s) :
         /\ Trimmed(s) \in Seq(Symbol) /\ Len(Trimmed(s)) = f
         /\ \A i \in 1..f : Trimmed(s)[i] = s[i]
         /\ f # 0 => s[f] # SP
         /\ \A i \in (f + 1)..Len(s) : s[i] = SP
  BY TrimmedIs
<1>2. Len(s) \in Nat /\ e \in Nat \ {0} /\ f \in Nat
  OBVIOUS
<1>3. ~(f < e)
  <2>1. SUFFICES ASSUME f < e PROVE FALSE
    OBVIOUS
  <2>2. e \in (f + 1)..Len(s)
    BY <1>2, <2>1
  <2>3. QED
    BY <1>1, <2>2
<1>4. ~(e < f)
  <2>1. SUFFICES ASSUME e < f PROVE FALSE
    OBVIOUS
  <2>2. f \in (e + 1)..Len(s) /\ f # 0
    BY <1>2, <2>1
  <2>3. QED
    BY <1>1, <2>2
<1>5. f = e
  BY <1>2, <1>3, <1>4
<1>6. QED
  BY <1>1, <1>2, <1>5 DEF Last

\* The target of a link, with one arrow at k.
LEMMA RealEnds ==
  ASSUME NEW field \in Seq(Symbol), NEW k \in 1..Len(field),
         \A i \in 1..Len(field) : field[i] = "->" <=> i = k,
         NEW e \in k..Len(field), field[e] # SP, \A i \in (e + 1)..Len(field) : field[i] = SP
  PROVE  /\ e = k => Real(field) = <<>>
         /\ e # k => Real(field) # <<>> /\ Last(Real(field)) = field[e]
<1> DEFINE n == Len(field)
           sub == SubSeq(field, k, n)
           behind == IF Arrow(field) = 0 THEN <<>> ELSE Without(SubSeq(field, Arrow(field), Len(field)), "->")
           solid == {i \in DOMAIN behind : behind[i] # SP}
<1>1. n \in Nat /\ k \in Nat \ {0} /\ k <= n /\ e \in Nat /\ e <= n /\ k <= e
  OBVIOUS
<1>2. Arrow(field) = k
  <2>1. Has(field, "->")
    <3>1. DOMAIN field = 1..Len(field)
      OBVIOUS
    <3>2. QED
      BY <3>1 DEF Has, Range
  <2>2. Arrow(field) # 0 /\ Arrow(field) \in 0..Len(field) /\ field[Arrow(field)] = "->"
    BY <2>1, ArrowIs
  <2> DEFINE a == Arrow(field)
  <2> HIDE DEF a
  <2>3. a \in 1..Len(field) /\ field[a] = "->"
    BY <2>2 DEF a
  <2>4. QED
    BY <2>3 DEF a
<1>3. sub \in Seq(Symbol) /\ Len(sub) = n - k + 1 /\ \A i \in 1..(n - k + 1) : sub[i] = field[k + i - 1]
  <2>1. k \in 1..(Len(field) + 1) /\ n \in 0..Len(field) /\ k <= n
    BY <1>1
  <2>2. QED
    BY <2>1, Slices
<1>4. behind = Without(sub, "->")
  BY <1>1, <1>2
<1>5. behind \in Seq(Symbol)
  BY <1>3, <1>4, WithoutType
<1>6. Real(field) = IF solid = {} THEN <<>> ELSE Trimmed(SubSeq(behind, Min(solid), Len(behind)))
  BY DEF Real
<1> HIDE DEF sub, behind
<1>7. Drops(behind, sub, 1)
  <2>1. 1 \in 1..Len(sub)
    BY <1>1, <1>3
  <2>2. \A i \in 1..Len(sub) : sub[i] = "->" <=> i = 1
    <3>1. \A i \in 1..(n - k + 1) : k + i - 1 \in 1..n /\ (k + i - 1 = k <=> i = 1)
      BY <1>1
    <3>2. QED
      BY <1>3, <3>1
  <2>3. QED
    BY <1>3, <1>4, <2>1, <2>2, DropOne
<1> DEFINE b == n - k
<1>8. b \in Nat /\ Len(behind) = b /\ \A j \in 1..b : behind[j] = field[k + j]
  <2>1. Len(behind) = (n - k + 1) - 1 /\ (n - k + 1) - 1 = b /\ b \in Nat
    BY <1>1, <1>3, <1>7 DEF Drops
  <2>2. ASSUME NEW j \in 1..b PROVE behind[j] = field[k + j]
    <3>1. j \in 1..(Len(sub) - 1) /\ ~(j < 1) /\ j + 1 \in 1..(n - k + 1) /\ k + (j + 1) - 1 = k + j
      BY <1>1, <1>3
    <3>2. QED
      BY <1>3, <1>7, <3>1 DEF Drops
  <2>3. QED
    BY <2>1, <2>2
<1> HIDE DEF b
<1>9. b = n - k /\ DOMAIN behind = 1..b
  BY <1>5, <1>8 DEF b
<1>10. ASSUME e = k PROVE Real(field) = <<>>
  <2>1. \A j \in 1..b : k + j \in (e + 1)..Len(field)
    BY <1>1, <1>9, <1>10
  <2>2. solid = {}
    BY <1>8, <1>9, <2>1
  <2>3. QED
    BY <1>6, <2>2
<1>11. ASSUME e # k PROVE Real(field) # <<>> /\ Last(Real(field)) = field[e]
  <2>1. e - k \in 1..b /\ k + (e - k) = e
    BY <1>1, <1>9, <1>11
  <2>2. e - k \in solid
    BY <1>8, <1>9, <2>1
  <2>3. solid \in SUBSET Nat /\ \A i \in solid : i \in 1..b
    BY <1>9
  <2> DEFINE m == Min(solid)
             rest == SubSeq(behind, m, Len(behind))
             l == e - k - m + 1
  <2>4. Real(field) = Trimmed(rest)
    BY <1>6, <2>2
  <2>5. m \in 1..b /\ m <= e - k
    <3> HIDE DEF solid
    <3>1. QED
      BY <2>2, <2>3, MinInSet
  <2> HIDE DEF m, solid
  <2>6. m \in 1..(Len(behind) + 1) /\ Len(behind) \in 0..Len(behind) /\ m <= Len(behind)
    BY <1>8, <2>5
  <2>7. rest \in Seq(Symbol) /\ Len(rest) = b - m + 1 /\ \A i \in 1..(b - m + 1) : rest[i] = behind[m + i - 1]
    BY <1>5, <1>8, <2>6, Slices
  <2> HIDE DEF rest
  <2>8. l \in 1..Len(rest) /\ m + l - 1 = e - k /\ l \in 1..(b - m + 1)
    BY <1>1, <1>8, <1>9, <2>1, <2>5, <2>7
  <2>9. rest[l] = field[e]
    <3>1. rest[l] = behind[m + l - 1]
      BY <2>7, <2>8
    <3>2. QED
      BY <1>8, <2>1, <2>8, <3>1
  <2>10. ASSUME NEW i \in (l + 1)..Len(rest) PROVE rest[i] = SP
    <3>1. i \in 1..(b - m + 1) /\ m + i - 1 \in 1..b /\ k + (m + i - 1) \in (e + 1)..Len(field)
      BY <1>1, <1>8, <1>9, <2>1, <2>5, <2>7
    <3>2. QED
      BY <1>8, <2>7, <3>1
  <2> HIDE DEF l
  <2>11. Trimmed(rest) # <<>> /\ Last(Trimmed(rest)) = rest[l]
    BY <2>7, <2>8, <2>9, <2>10, TrimmedEnds
  <2>12. QED
    BY <2>4, <2>9, <2>11
<1>12. QED
  BY <1>10, <1>11

\* What a line adds that means the directory of this name.
Meant(dir, means) ==
  LET path == Append(dir \o means, "/")
  IN  IF means \in {<<>>, Dot, DotDot} \/ path \in Useless THEN <<>> ELSE <<path>>

\* A name, with or without a slash, makes the directory it means.
LEMMA EnqueuedMeans ==
  ASSUME NEW dir \in PathType, NEW means \in Slashless, means # <<>>,
         NEW name, name = means \/ name = Append(means, "/")
  PROVE  Enqueued(dir, name) = IF Append(dir \o means, "/") \in Useless THEN <<>> ELSE <<Append(dir \o means, "/")>>
<1> DEFINE path == dir \o name
           full == IF Last(path) = "/" THEN path ELSE Append(path, "/")
           whole == Append(dir \o means, "/")
           d == Len(dir)
           m == Len(means)
<1>1. dir \in Seq(Symbol) /\ means \in Seq(Symbol) /\ d \in Nat /\ m \in Nat \ {0} /\ "/" \in Symbol
      /\ \A i \in 1..m : means[i] # "/"
  <2>1. dir \in Seq(Symbol) /\ means \in Seq(Symbol) /\ "/" \notin Range(means)
    BY DEF PathType, Slashless
  <2>2. "/" \in Symbol
    BY Symbols
  <2>3. DOMAIN means = 1..m /\ m \in Nat \ {0} /\ d \in Nat
    BY <2>1
  <2>4. QED
    BY <2>1, <2>2, <2>3 DEF Range
<1>2. /\ dir \o means \in Seq(Symbol) /\ Len(dir \o means) = d + m
      /\ \A i \in 1..(d + m) : (dir \o means)[i] = IF i <= d THEN dir[i] ELSE means[i - d]
  BY <1>1, ConcatProperties
<1>3. Enqueued(dir, name) = IF full \in Useless THEN <<>> ELSE <<full>>
  BY DEF Enqueued, is_useful_dir
<1>4. full = whole
  <2>1. CASE name = means
    <3>1. d + m \in 1..(d + m) /\ ~(d + m <= d) /\ (d + m) - d = m /\ m \in 1..m
      BY <1>1
    <3>2. Last(path) = means[m]
      BY <1>2, <2>1, <3>1 DEF Last
    <3>3. QED
      BY <1>1, <2>1, <3>1, <3>2
  <2>2. CASE name = Append(means, "/")
    <3>1. name \in Seq(Symbol) /\ Len(name) = m + 1 /\ name[m + 1] = "/" /\ \A i \in 1..m : name[i] = means[i]
      BY <1>1, <2>2, AppendProperties
    <3>2. /\ path \in Seq(Symbol) /\ Len(path) = d + (m + 1)
          /\ \A i \in 1..(d + (m + 1)) : path[i] = IF i <= d THEN dir[i] ELSE name[i - d]
      <4>1. /\ dir \o name \in Seq(Symbol) /\ Len(dir \o name) = Len(dir) + Len(name)
            /\ \A i \in 1..(Len(dir) + Len(name)) :
                 (dir \o name)[i] = IF i <= Len(dir) THEN dir[i] ELSE name[i - Len(dir)]
        BY <1>1, <3>1, ConcatProperties
      <4> HIDE DEF path, m
      <4>2. Len(name) = m + 1
        BY <3>1
      <4>3. QED
        BY <4>1, <4>2 DEF path
    <3>3. /\ whole \in Seq(Symbol) /\ Len(whole) = (d + m) + 1 /\ whole[(d + m) + 1] = "/"
          /\ \A i \in 1..(d + m) : whole[i] = (dir \o means)[i]
      BY <1>1, <1>2, AppendProperties
    <3> HIDE DEF path, whole, d, m
    <3>4. d + (m + 1) = (d + m) + 1 /\ (d + m) + 1 \in 1..(d + (m + 1)) /\ ~((d + m) + 1 <= d)
          /\ ((d + m) + 1) - d = m + 1
      BY <1>1
    <3>5. path[(d + m) + 1] = "/"
      BY <3>1, <3>2, <3>4
    <3>6. ASSUME NEW i \in 1..(d + m) PROVE path[i] = whole[i]
      <4>1. i \in 1..(d + (m + 1)) /\ (~(i <= d) => i - d \in 1..m)
        BY <1>1
      <4>2. QED
        BY <1>2, <3>1, <3>2, <3>3, <4>1
    <3>7. \A i \in 1..Len(path) : path[i] = whole[i]
      <4>1. \A i \in 1..((d + m) + 1) : i = (d + m) + 1 \/ i \in 1..(d + m)
        BY <1>1
      <4>2. QED
        BY <3>2, <3>3, <3>4, <3>5, <3>6, <4>1
    <3>8. path = whole
      BY <3>2, <3>3, <3>4, <3>7, SeqEqual
    <3>9. Last(path) = "/"
      BY <3>2, <3>4, <3>5 DEF Last
    <3>10. QED
      BY <3>8, <3>9
  <2>3. QED
    BY <2>1, <2>2
<1>5. QED
  BY <1>3, <1>4

-----------------------------------------------------------------------------
\* A clear line adds what it means.

\* The lines of a listing.
LineOf(line) == line \in LineType /\ EndsInWord(line.tokens) /\ line.means \in Slashless

\* The names of the directory itself and of its parent.
LEMMA DotsAre ==
  Dot # <<>> /\ DotDot # <<>> /\ Last(Dot) # "/" /\ Last(DotDot) # "/"
BY DEF Dot, DotDot, Last

\* A clear line in the style of Unix adds the directory it means ...
LEMMA UnixAdds ==
  ASSUME NEW dir \in PathType, NEW line, LineOf(line), ClearLine("UNIX", line), UnixMeans(line)
  PROVE  parse_unix_line(dir, line.tokens) = Meant(dir, line.means)
<1> DEFINE tokens == line.tokens
           means == line.means
           text == Joined(SubSeq(tokens, line.name, Len(tokens)))
           arrows == {i \in DOMAIN text : text[i] = "->"}
<1>1. tokens \in Seq(Token) /\ means \in Slashless /\ Len(tokens) \in Nat
  BY DEF LineOf, LineType
<1>2. CASE line.date = 0
  <2>1. Initial(tokens) \notin {"d", "l"} /\ means = <<>>
    BY <1>2 DEF UnixMeans
  <2>2. QED
    BY <2>1 DEF parse_unix_line, Meant
<1>3. CASE line.date # 0
  <2>1. /\ line.format \in 1..4 /\ line.date \in DOMAIN tokens
        /\ tokens[line.date] # SP /\ Month(line.format, tokens[line.date])
        /\ line.name \in DOMAIN tokens
        /\ \E e \in DOMAIN tokens :
             Dated(tokens, line.format, line.date, e) /\ Follows(tokens, e, line.name)
    BY <1>3 DEF UnixMeans
  <2>2. /\ Initial(tokens) = "d" =>
             means = IF Trimmed(text) # <<>> /\ Head(Trimmed(text)) = "/" THEN <<>> ELSE Trimmed(text)
        /\ Initial(tokens) = "l" =>
             \E k \in arrows :
               /\ arrows = {k}
               /\ means = IF Last(Trimmed(text)) = "/" THEN Trimmed(SubSeq(text, 1, k - 1)) ELSE <<>>
        /\ Initial(tokens) \notin {"d", "l"} => means = <<>>
    BY <1>3 DEF UnixMeans
  <2>3. PICK e : DateAndName(tokens, line.format, line.date, e, line.name)
    BY <2>1 DEF DateAndName
  <2>4. ClearDate(line)
    BY <1>3 DEF ClearLine
  <2>5. find_linux_name_field2(tokens) = text
    BY <2>1, <2>3, <2>4, FieldIs DEF LineOf
  <2>6. text \in Seq(Symbol)
    BY <1>1, <2>5, FieldType
  <2> HIDE DEF tokens, means, text
  <2>7. CASE Initial(tokens) = "d"
    <3> DEFINE name == Trimmed(text)
    <3>1. parse_unix_line(dir, tokens) =
            IF name \in {<<>>, Dot, DotDot} \/ Head(name) = "/" THEN <<>> ELSE Enqueued(dir, name)
      BY <2>5, <2>7 DEF parse_unix_line, parse_unix_dir_name
    <3>2. means = IF name # <<>> /\ Head(name) = "/" THEN <<>> ELSE name
      BY <2>2, <2>7
    <3>3. name \in Seq(Symbol)
      BY <2>6, TrimmedType
    <3> HIDE DEF name
    <3>4. ASSUME means \in {<<>>, Dot, DotDot} PROVE parse_unix_line(dir, tokens) = Meant(dir, means)
      BY <3>1, <3>2, <3>4 DEF Meant
    <3>5. ASSUME means \notin {<<>>, Dot, DotDot} PROVE parse_unix_line(dir, tokens) = Meant(dir, means)
      <4>1. name = means /\ name # <<>> /\ Head(name) # "/"
        BY <3>2, <3>5
      <4>2. Enqueued(dir, means) =
              IF Append(dir \o means, "/") \in Useless THEN <<>> ELSE <<Append(dir \o means, "/")>>
        BY <1>1, <3>5, EnqueuedMeans
      <4>3. parse_unix_line(dir, tokens) = Enqueued(dir, means)
        BY <3>1, <3>5, <4>1
      <4>4. QED
        BY <3>5, <4>2, <4>3 DEF Meant
    <3>6. parse_unix_line(dir, tokens) = Meant(dir, means)
      BY <3>4, <3>5
    <3>7. QED
      BY <3>6 DEF tokens, means
  <2>8. CASE Initial(tokens) = "l"
    <3>1. PICK k \in arrows :
            /\ arrows = {k}
            /\ means = IF Last(Trimmed(text)) = "/" THEN Trimmed(SubSeq(text, 1, k - 1)) ELSE <<>>
      BY <2>2, <2>8
    <3>2. DOMAIN text = 1..Len(text) /\ Len(text) \in Nat /\ k \in 1..Len(text)
      BY <2>6
    <3>3. \A i \in 1..Len(text) : text[i] = "->" <=> i = k
      BY <3>1, <3>2
    <3>4. PICK t \in 0..Len(text) :
            /\ Trimmed(text) \in Seq(Symbol) /\ Len(Trimmed(text)) = t
            /\ \A i \in 1..t : Trimmed(text)[i] = text[i]
            /\ t # 0 => text[t] # SP
            /\ \A i \in (t + 1)..Len(text) : text[i] = SP
      BY <2>6, TrimmedIs
    <3>5. t \in k..Len(text)
      <4>1. text[k] # SP
        BY <3>2, <3>3 DEF SP
      <4>2. ~(t < k)
        BY <3>2, <3>4, <4>1
      <4>3. QED
        BY <3>2, <4>2
    <3>6. t \in 1..t /\ text[t] # SP /\ Last(Trimmed(text)) = text[t]
      <4>1. t \in 1..t /\ t # 0
        BY <3>2, <3>5
      <4>2. QED
        BY <3>4, <4>1 DEF Last
    <3> DEFINE fake == Fake(text)
               real == Real(text)
    <3>7. (t = k => real = <<>>) /\ (t # k => real # <<>> /\ Last(real) = text[t])
      BY <2>6, <3>2, <3>3, <3>4, <3>5, <3>6, RealEnds
    <3>8. Arrow(text) = k
      <4>1. Has(text, "->")
        BY <3>2, <3>3 DEF Has, Range
      <4> DEFINE a == Arrow(text)
      <4>2. a # 0 /\ a \in 0..Len(text) /\ text[a] = "->"
        BY <2>6, <4>1, ArrowIs
      <4> HIDE DEF a
      <4>3. a \in 1..Len(text)
        BY <3>2, <4>2
      <4>4. QED
        BY <3>3, <4>2, <4>3 DEF a
    <3>9. fake = Trimmed(SubSeq(text, 1, k - 1))
      BY <3>2, <3>8 DEF Fake
    <3>10. parse_unix_line(dir, tokens) =
             IF fake \in {<<>>, Dot, DotDot} \/ real \in {<<>>, Dot, DotDot} \/ Last(real) # "/"
             THEN <<>> ELSE Enqueued(dir, fake)
      BY <2>5, <2>8 DEF parse_unix_line, parse_unix_link_name
    <3>11. text[k] # "/"
      BY <3>2, <3>3
    <3> HIDE DEF fake, real, arrows
    <3>12. CASE Last(Trimmed(text)) # "/"
      <4>1. means = <<>>
        BY <3>1, <3>12
      <4>2. real = <<>> \/ Last(real) # "/"
        BY <3>6, <3>7, <3>12
      <4>3. parse_unix_line(dir, tokens) = <<>>
        BY <3>10, <4>2
      <4>4. QED
        BY <4>1, <4>3 DEF Meant, tokens, means
    <3>13. CASE Last(Trimmed(text)) = "/"
      <4>1. means = fake
        BY <3>1, <3>9, <3>13
      <4>2. t # k
        BY <3>6, <3>11, <3>13
      <4>3. real # <<>> /\ Last(real) = "/"
        BY <3>6, <3>7, <3>13, <4>2
      <4>4. real \notin {<<>>, Dot, DotDot}
        BY <4>3, DotsAre
      <4>5. parse_unix_line(dir, tokens) = IF means \in {<<>>, Dot, DotDot} THEN <<>> ELSE Enqueued(dir, means)
        BY <3>10, <4>1, <4>3, <4>4
      <4>6. CASE means \in {<<>>, Dot, DotDot}
        BY <4>5, <4>6 DEF Meant, tokens, means
      <4>7. CASE means \notin {<<>>, Dot, DotDot}
        <5>1. Enqueued(dir, means) =
                IF Append(dir \o means, "/") \in Useless THEN <<>> ELSE <<Append(dir \o means, "/")>>
          BY <1>1, <4>7, EnqueuedMeans
        <5>2. parse_unix_line(dir, tokens) = Meant(dir, means)
          BY <4>5, <4>7, <5>1 DEF Meant
        <5>3. QED
          BY <5>2 DEF tokens, means
      <4>8. QED
        BY <4>6, <4>7
    <3>14. QED
      BY <3>12, <3>13
  <2>9. CASE Initial(tokens) \notin {"d", "l"}
    <3>1. means = <<>>
      BY <2>2, <2>9
    <3>2. parse_unix_line(dir, tokens) = <<>>
      BY <2>9 DEF parse_unix_line
    <3>3. QED
      BY <3>1, <3>2 DEF Meant, tokens, means
  <2>10. QED
    BY <2>7, <2>8, <2>9
<1>4. QED
  BY <1>2, <1>3

\* ... so does one of Windows ...
LEMMA WindowsAdds ==
  ASSUME NEW dir \in PathType, NEW line, LineOf(line), ClearLine("WINDOWS", line), WindowsMeans(line)
  PROVE  parse_windows_dir_name(dir, line.tokens) = Meant(dir, line.means)
<1> DEFINE tokens == line.tokens
           means == line.means
           first == First(tokens, DIR)
           word == next_string(tokens, first + 1)
           name == Joined(SubSeq(tokens, Min({word, first + 11}), Len(tokens)))
<1>1. tokens \in Seq(Token) /\ means \in Slashless /\ Len(tokens) \in Nat /\ DOMAIN tokens = 1..Len(tokens)
  BY DEF LineOf, LineType
<1>2. parse_windows_dir_name(dir, tokens) =
        IF first = 0 \/ word = 0 \/ name = <<>> THEN <<>> ELSE Enqueued(dir, name)
  BY DEF parse_windows_dir_name, First
<1>3. means \notin {Dot, DotDot} /\ ~ManyBlanks(line)
  BY DEF ClearLine
<1>4. /\ first \in 0..Len(tokens) /\ (first = 0 <=> ~Has(tokens, DIR))
      /\ first # 0 => tokens[first] = DIR /\ \A i \in 1..(first - 1) : tokens[i] # DIR
  BY <1>1, FirstIs
<1>5. \/ DIR \notin Range(tokens) /\ means = <<>>
      \/ \E d \in DOMAIN tokens :
           /\ tokens[d] = DIR /\ \A i \in 1..(d - 1) : tokens[i] # DIR
           /\ \/ IsLast(tokens, d) /\ means = <<>>
              \/ \E n \in DOMAIN tokens :
                   /\ Follows(tokens, d, n)
                   /\ \/ Joined(SubSeq(tokens, n, Len(tokens))) = means
                      \/ means # <<>> /\ Joined(SubSeq(tokens, n, Len(tokens))) = Append(means, "/")
  BY DEF WindowsMeans
<1>6. ~\E i \in 1..(Len(tokens) - 10) : \A j \in i..(i + 10) : tokens[j] = SP
  BY <1>3 DEF ManyBlanks
<1> HIDE DEF first, name, tokens, means
<1>7. CASE DIR \notin Range(tokens) /\ means = <<>>
  <2>1. first = 0
    BY <1>4, <1>7 DEF Has
  <2>2. parse_windows_dir_name(dir, tokens) = <<>>
    BY <1>2, <2>1
  <2>3. QED
    BY <1>7, <2>2 DEF Meant, tokens, means
<1>8. ASSUME NEW d \in DOMAIN tokens, tokens[d] = DIR, \A i \in 1..(d - 1) : tokens[i] # DIR,
             \/ IsLast(tokens, d) /\ means = <<>>
             \/ \E n \in DOMAIN tokens :
                  /\ Follows(tokens, d, n)
                  /\ \/ Joined(SubSeq(tokens, n, Len(tokens))) = means
                     \/ means # <<>> /\ Joined(SubSeq(tokens, n, Len(tokens))) = Append(means, "/")
      PROVE  parse_windows_dir_name(dir, tokens) = Meant(dir, means)
  <2>0. d \in 1..Len(tokens) /\ d \in Nat \ {0}
    BY <1>1
  <2>1. first = d
    <3>1. Has(tokens, DIR)
      BY <1>8 DEF Has, Range
    <3>2. first \in 1..Len(tokens) /\ tokens[first] = DIR /\ \A i \in 1..(first - 1) : tokens[i] # DIR
      BY <1>1, <1>4, <3>1
    <3>3. ~(first < d)
      BY <1>1, <1>8, <2>0, <3>2
    <3>4. ~(d < first)
      BY <1>1, <1>8, <2>0, <3>2
    <3>5. QED
      BY <1>1, <2>0, <3>2, <3>3, <3>4
  <2>2. word = next_string(tokens, d + 1)
    BY <2>1
  <2> HIDE DEF word
  <2>3. CASE IsLast(tokens, d) /\ means = <<>>
    <3>1. word = 0
      BY <1>1, <2>0, <2>2, <2>3, NoneNext
    <3>2. parse_windows_dir_name(dir, tokens) = <<>>
      BY <1>2, <3>1
    <3>3. QED
      BY <2>3, <3>2 DEF Meant
  <2>4. ASSUME NEW n \in DOMAIN tokens, Follows(tokens, d, n),
               \/ Joined(SubSeq(tokens, n, Len(tokens))) = means
               \/ means # <<>> /\ Joined(SubSeq(tokens, n, Len(tokens))) = Append(means, "/")
        PROVE  parse_windows_dir_name(dir, tokens) = Meant(dir, means)
    <3>1. word = n /\ n \in 1..Len(tokens) /\ d < n /\ \A k \in (d + 1)..(n - 1) : tokens[k] = SP
      BY <1>1, <2>0, <2>2, <2>4, NextFollows DEF Follows
    <3>2. n <= d + 11
      <4>1. SUFFICES ASSUME d + 11 < n PROVE FALSE
        BY <1>1, <2>0, <3>1
      <4>2. d + 1 \in 1..(Len(tokens) - 10)
        BY <1>1, <2>0, <3>1, <4>1
      <4>3. \A j \in (d + 1)..((d + 1) + 10) : j \in (d + 1)..(n - 1)
        BY <1>1, <2>0, <3>1, <4>1
      <4>4. QED
        BY <1>6, <3>1, <4>2, <4>3
    <3>3. Min({word, first + 11}) = n
      <4> DEFINE S == {n, d + 11}
                 m == Min(S)
      <4>1. S \in SUBSET Nat /\ S # {}
        BY <1>1, <2>0, <3>1
      <4>2. \A y \in S : n <= y
        BY <1>1, <2>0, <3>1, <3>2
      <4>3. n \in S
        OBVIOUS
      <4> HIDE DEF S
      <4>4. m \in S /\ \A y \in S : m <= y
        BY <4>1, MinInSet
      <4> HIDE DEF m
      <4>5. m <= n /\ n <= m /\ m \in Nat /\ n \in Nat
        BY <4>1, <4>2, <4>3, <4>4
      <4>6. m = n
        BY <4>5
      <4>7. QED
        BY <2>1, <3>1, <4>6 DEF S, m
    <3>4. name = Joined(SubSeq(tokens, n, Len(tokens)))
      BY <3>3 DEF name
    <3>5. name = means \/ (means # <<>> /\ name = Append(means, "/"))
      BY <2>4, <3>4
    <3>6. first # 0 /\ word # 0
      BY <2>0, <2>1, <3>1
    <3>7. CASE means = <<>>
      BY <1>2, <3>5, <3>7 DEF Meant
    <3>8. CASE means # <<>>
      <4>1. Enqueued(dir, name) =
              IF Append(dir \o means, "/") \in Useless THEN <<>> ELSE <<Append(dir \o means, "/")>>
        BY <1>1, <3>5, <3>8, EnqueuedMeans
      <4>2. name # <<>>
        <5>1. means \in Seq(Symbol) /\ "/" \in Symbol
          BY <1>1, Symbols DEF Slashless
        <5>2. Append(means, "/") # <<>>
          BY <5>1, AppendProperties
        <5>3. QED
          BY <3>5, <3>8, <5>2
      <4>3. parse_windows_dir_name(dir, tokens) = Enqueued(dir, name)
        BY <1>2, <3>6, <4>2
      <4>4. means \notin {<<>>, Dot, DotDot}
        BY <1>3, <3>8 DEF means
      <4>5. QED
        BY <4>1, <4>3, <4>4 DEF Meant
    <3>9. QED
      BY <3>7, <3>8
  <2>5. QED
    BY <1>8, <2>3, <2>4
<1>9. QED
  BY <1>5, <1>7, <1>8 DEF tokens, means

\* ... and one of VxWorks.
LEMMA VxWorksAdds ==
  ASSUME NEW dir \in PathType, NEW line, LineOf(line), VxWorksMeans(line), ClearLine("VXWORKS", line)
  PROVE  LineAdds("VXWORKS", dir, line.tokens) = Meant(dir, line.means)
<1> DEFINE tokens == line.tokens
           means == line.means
           N == Len(tokens)
<1>1. tokens \in Seq(Token) /\ means \in Slashless /\ N \in Nat /\ DOMAIN tokens = 1..N
  BY DEF LineOf, LineType
<1>2. LineAdds("VXWORKS", dir, tokens) = IF SaysDIR(tokens) THEN parse_vxworks_dir_name(dir, tokens) ELSE <<>>
  BY DEF LineAdds
<1>3. \/ DIR \notin Range(tokens) /\ means = <<>>
      \/ /\ means # <<>> /\ {i \in DOMAIN tokens : tokens[i] = DIR} = {N}
         /\ \E size, date, time, name \in DOMAIN tokens :
              /\ Follows(tokens, 0, size) /\ Follows(tokens, size, date)
              /\ Follows(tokens, date, time) /\ Follows(tokens, time, name)
              /\ Word[tokens[size]].digits # 0
              /\ Word[tokens[date]].vx = "date" /\ Word[tokens[time]].vx = "time"
              /\ means = Trimmed(Joined(SubSeq(tokens, name, N - 1)))
  BY DEF VxWorksMeans
<1>7. means = <<>> => ~SaysDIR(tokens)
  BY DEF ClearLine
<1> HIDE DEF tokens, means, N
<1>4. CASE DIR \notin Range(tokens) /\ means = <<>>
  <2>1. LineAdds("VXWORKS", dir, tokens) = <<>>
    BY <1>2, <1>4, <1>7
  <2>2. QED
    BY <1>4, <2>1 DEF Meant, tokens, means
<1>5. ASSUME means # <<>>, {i \in DOMAIN tokens : tokens[i] = DIR} = {N},
             NEW size \in DOMAIN tokens, NEW date \in DOMAIN tokens, NEW time \in DOMAIN tokens,
             NEW name \in DOMAIN tokens,
             Follows(tokens, 0, size), Follows(tokens, size, date),
             Follows(tokens, date, time), Follows(tokens, time, name),
             Word[tokens[size]].digits # 0,
             Word[tokens[date]].vx = "date", Word[tokens[time]].vx = "time",
             means = Trimmed(Joined(SubSeq(tokens, name, N - 1)))
      PROVE  LineAdds("VXWORKS", dir, tokens) = Meant(dir, means)
  <2>1. size \in Nat \ {0} /\ date \in Nat \ {0} /\ time \in Nat \ {0} /\ name \in 1..N
    BY <1>1
  <2>2. next_string(tokens, 0 + 1) = size
    BY <1>1, <1>5, NextFollows
  <2>3. next_string(tokens, size + 1) = date
    BY <1>1, <1>5, <2>1, NextFollows
  <2>4. next_string(tokens, date + 1) = time
    BY <1>1, <1>5, <2>1, NextFollows
  <2>5. next_string(tokens, time + 1) = name
    BY <1>1, <1>5, <2>1, NextFollows
  <2>6. next_string(tokens, 1) = size
    BY <2>2
  <2> DEFINE sub == SubSeq(tokens, name, N)
             cut == SubSeq(tokens, name, N - 1)
             text == Joined(Without(sub, DIR))
  <2>7. parse_vxworks_dir_name(dir, tokens) =
          IF 0 \in {size, date, time, name} \/ text = <<>> THEN <<>>
          ELSE IF \/ Word[tokens[size]].digits = 0
                  \/ Word[tokens[date]].vx # "date" \/ Word[tokens[time]].vx # "time"
                  \/ Trimmed(text) \in {Dot, DotDot}
          THEN <<>> ELSE Enqueued(dir, Trimmed(text))
    BY <2>3, <2>4, <2>5, <2>6 DEF parse_vxworks_dir_name, N
  <2>8. \A i \in 1..N : tokens[i] = DIR <=> i = N
    <3>1. \A i \in 1..N : i \in {j \in DOMAIN tokens : tokens[j] = DIR} <=> i = N
      BY <1>5
    <3>2. QED
      BY <1>1, <3>1
  <2>9. SaysDIR(tokens)
    <3>1. N \in DOMAIN tokens /\ tokens[N] = DIR
      BY <1>5
    <3>2. DIR \in Range(tokens) /\ DIR # SP
      BY <3>1 DEF Range, DIR, SP
    <3>3. QED
      BY <3>2 DEF SaysDIR
  <2>10. Without(sub, DIR) = cut
    <3>1. /\ sub \in Seq(Token) /\ Len(sub) = N - name + 1
          /\ \A i \in 1..(N - name + 1) : sub[i] = tokens[name + i - 1]
      <4>1. name \in 1..(Len(tokens) + 1) /\ N \in 0..Len(tokens) /\ name <= N
        BY <1>1, <2>1 DEF N
      <4>2. QED
        BY <1>1, <4>1, Slices
    <3>2. /\ cut \in Seq(Token) /\ Len(cut) = N - name
          /\ \A i \in 1..(N - name) : cut[i] = tokens[name + i - 1]
      <4>1. name \in 1..(Len(tokens) + 1) /\ N - 1 \in 0..Len(tokens)
        BY <1>1, <2>1 DEF N
      <4>2. /\ cut \in Seq(Token) /\ Len(cut) = (IF name <= N - 1 THEN (N - 1) - name + 1 ELSE 0)
            /\ \A i \in 1..((N - 1) - name + 1) : cut[i] = tokens[name + i - 1]
        BY <1>1, <4>1, Slices
      <4> HIDE DEF cut
      <4>3. (N - 1) - name + 1 = N - name /\ (~(name <= N - 1) => N - name = 0)
        BY <1>1, <2>1
      <4>4. QED
        BY <4>2, <4>3
    <3> DEFINE k == N - name + 1
               rest == Without(sub, DIR)
    <3> HIDE DEF sub, cut
    <3>3. k \in 1..Len(sub) /\ Len(sub) = k /\ k - 1 = N - name
      BY <1>1, <2>1, <3>1
    <3>4. \A i \in 1..Len(sub) : sub[i] = DIR <=> i = k
      <4>1. \A i \in 1..k : name + i - 1 \in 1..N /\ (name + i - 1 = N <=> i = k)
        BY <1>1, <2>1
      <4>2. QED
        BY <2>8, <3>1, <3>3, <4>1
    <3> HIDE DEF k
    <3>5. Drops(rest, sub, k)
      BY <3>1, <3>3, <3>4, DropOne
    <3>6. rest \in Seq(Token)
      BY <3>1, WithoutType
    <3> HIDE DEF rest
    <3>7. Len(rest) = N - name
      BY <3>3, <3>5 DEF Drops
    <3>8. ASSUME NEW i \in 1..(N - name) PROVE rest[i] = cut[i]
      <4>1. i \in 1..(Len(sub) - 1) /\ i < k /\ i \in 1..(N - name + 1)
        BY <1>1, <2>1, <3>3
      <4>2. rest[i] = sub[i]
        BY <3>5, <4>1 DEF Drops
      <4>3. QED
        BY <3>1, <3>2, <4>1, <4>2
    <3>9. rest = cut
      BY <3>2, <3>6, <3>7, <3>8, SeqEqual
    <3>10. QED
      BY <3>9 DEF rest
  <2>11. means = Trimmed(text)
    BY <1>5, <2>10
  <2>12. text # <<>>
    <3>1. Trimmed(<<>>) = <<>>
      <4>1. <<>> \in Seq(Symbol) /\ Len(<<>>) = 0
        OBVIOUS
      <4> DEFINE none == <<>>
      <4> HIDE DEF none
      <4>2. none \in Seq(Symbol) /\ Len(none) = 0
        BY <4>1 DEF none
      <4>3. PICK e \in 0..Len(none) : Trimmed(none) \in Seq(Symbol) /\ Len(Trimmed(none)) = e
        BY <4>2, TrimmedIs
      <4>4. e = 0
        BY <4>2
      <4>5. Trimmed(none) = <<>>
        BY <4>3, <4>4
      <4>6. QED
        BY <4>5 DEF none
    <3> HIDE DEF text
    <3>2. QED
      BY <1>5, <2>11, <3>1
  <2> HIDE DEF text
  <2>13. parse_vxworks_dir_name(dir, tokens) = IF means \in {Dot, DotDot} THEN <<>> ELSE Enqueued(dir, means)
    BY <1>5, <2>1, <2>7, <2>11, <2>12
  <2>14. Enqueued(dir, means) =
          IF Append(dir \o means, "/") \in Useless THEN <<>> ELSE <<Append(dir \o means, "/")>>
    BY <1>1, <1>5, EnqueuedMeans
  <2>15. means \in {<<>>, Dot, DotDot} <=> means \in {Dot, DotDot}
    BY <1>5
  <2>16. QED
    BY <1>2, <2>9, <2>13, <2>14, <2>15 DEF Meant
<1>6. QED
  BY <1>3, <1>4, <1>5 DEF tokens, means

-----------------------------------------------------------------------------
\* What a listing adds whose style is recognised: each clear line what it means.

\* What the lines of a listing add, one part for each: nothing or one directory, and what
\* it means if it is clear.
Tells(parts, listing, dir) ==
  /\ parts \in Seq(Added) /\ Len(parts) = Len(listing.lines)
  /\ \A i \in 1..Len(listing.lines) :
       ClearLine(listing.style, listing.lines[i]) => parts[i] = Meant(dir, listing.lines[i].means)

\* The lines of a listing have the meaning they should have.
LEMMA LinesAre ==
  ASSUME NEW listing, IsListing(listing), NEW i \in 1..Len(listing.lines)
  PROVE  /\ LineOf(listing.lines[i]) /\ Tokens(listing)[i] = listing.lines[i].tokens
         /\ ClearLine(listing.style, listing.lines[i]) => LineMeans(listing.style, listing.lines[i])
<1> DEFINE line == listing.lines[i]
<1>1. listing.lines \in Seq(LineType) /\ DOMAIN Tokens(listing) = DOMAIN listing.lines
      /\ \A j \in DOMAIN listing.lines : Tokens(listing)[j] = listing.lines[j].tokens
  BY ListingIs
<1>2. line \in LineType /\ line \in Range(listing.lines) /\ i \in DOMAIN listing.lines
  BY <1>1 DEF Range
<1>3. /\ line.tokens # <<>> /\ Last(line.tokens) # SP /\ "/" \notin Range(line.means)
      /\ ClearLine(listing.style, line) => LineMeans(listing.style, line)
  BY <1>2 DEF IsListing
<1>4. line.means \in Slashless
  <2>1. line.means \in Seq(STRING)
    BY <1>2 DEF LineType
  <2>2. QED
    BY <1>3, <2>1, Symbols DEF Slashless
<1> HIDE DEF line
<1>5. LineOf(line)
  BY <1>2, <1>3, <1>4 DEF LineOf, EndsInWord
<1>6. QED
  BY <1>1, <1>2, <1>3, <1>5 DEF line

\* A listing of clear style is parsed in this style.
LEMMA StyleIs ==
  ASSUME NEW listing, IsListing(listing), NEW dest \in {"UNK", "UNIX", "WINDOWS", "VXWORKS"},
         ClearStyle(listing, dest)
  PROVE  id_list_type(dest, Tokens(listing)) = listing.style /\ listing.style \in ListTypes
<1>1. listing.style \in {"UNIX", "WINDOWS", "VXWORKS"}
      /\ (listing.style # "UNIX" => ~begins_with_linux_permissions(Tokens(listing)))
  BY DEF IsListing
<1>2. CASE listing.style = "UNIX"
  BY <1>2 DEF ClearStyle, id_list_type, ListTypes
<1>3. CASE listing.style = "WINDOWS"
  BY <1>1, <1>3 DEF ClearStyle, id_list_type, ListTypes
<1>4. CASE listing.style = "VXWORKS"
  BY <1>1, <1>4 DEF ClearStyle, id_list_type, ListTypes
<1>5. QED
  BY <1>1, <1>2, <1>3, <1>4

\* Nothing but empty sequences makes an empty one.
LEMMA FlattenNone ==
  ASSUME NEW T, NEW s \in Seq(Seq(T)), \A i \in 1..Len(s) : s[i] = <<>>
  PROVE  FlattenSeq(s) = <<>>
<1> DEFINE all == FlattenSeq(s)
<1>1. all \in Seq(T)
  BY FlattenType
<1>2. Range(all) = UNION {Range(s[i]) : i \in DOMAIN s}
  BY FlattenRange
<1>3. \A i \in DOMAIN s : Range(s[i]) = {}
  BY DEF Range
<1> HIDE DEF all
<1>4. Range(all) = {}
  BY <1>2, <1>3
<1>5. \A i \in 1..Len(all) : all[i] \in Range(all)
  BY <1>1 DEF Range
<1>6. Len(all) = 0
  <2>1. Len(all) \in Nat
    BY <1>1
  <2>2. ~(1 \in 1..Len(all))
    BY <1>4, <1>5
  <2>3. QED
    BY <2>1, <2>2
<1>7. all = <<>>
  BY <1>1, <1>6
<1>8. QED
  BY <1>7 DEF all

\* A listing of clear style is parsed line by line: each clear line adds the directory it
\* means if it means one, and nothing else; for every directory it is listed for, and for
\* whatever SYST told.
THEOREM ListingTells ==
  ASSUME NEW listing, IsListing(listing), NEW dir \in PathType,
         NEW dest \in {"UNK", "UNIX", "WINDOWS", "VXWORKS"}, ClearStyle(listing, dest)
  PROVE  \E parts : Tells(parts, listing, dir)
                    /\ parse_list_data(dir, dest, Tokens(listing)) = FlattenSeq(parts)
<1> DEFINE lines == Tokens(listing)
           style == listing.style
           n == Len(listing.lines)
<1>1. listing.lines \in Seq(LineType) /\ lines \in Seq(Seq(Token)) /\ DOMAIN lines = DOMAIN listing.lines
  BY ListingIs
<1>2. n \in Nat /\ DOMAIN lines = 1..n /\ Len(lines) = n
  BY <1>1
<1>3. id_list_type(dest, lines) = style /\ style \in ListTypes
  BY StyleIs
<1>4. \A i \in 1..n : LineOf(listing.lines[i]) /\ lines[i] = listing.lines[i].tokens
                      /\ (ClearLine(style, listing.lines[i]) => LineMeans(style, listing.lines[i]))
  BY LinesAre
<1>5. parse_list_data(dir, dest, lines) =
        IF style = "VXWORKS" /\ ~IsPrefix(VxHeader, lines) THEN <<>>
        ELSE FlattenSeq(Additions(style, dir, lines))
  <2> HIDE DEF lines, style
  <2>1. QED
    BY <1>3, ListDataIs
<1>6. style # "VXWORKS" \/ IsPrefix(VxHeader, lines) \/ Range(Names(listing)) = {<<>>}
  BY DEF IsListing
<1>7. CASE style = "VXWORKS" /\ ~IsPrefix(VxHeader, lines)
  <2> DEFINE parts == [i \in 1..n |-> <<>>]
  <2>1. parts \in Seq(Added) /\ Len(parts) = n /\ \A i \in 1..n : parts[i] = <<>>
    BY <1>2 DEF Added
  <2>2. parts \in Seq(Seq(PathType))
    BY <1>2
  <2> HIDE DEF parts
  <2>3. FlattenSeq(parts) = <<>>
    BY <2>1, <2>2, FlattenNone
  <2>4. \A i \in 1..n : listing.lines[i].means = <<>>
    <3>1. \A i \in 1..n : Names(listing)[i] = listing.lines[i].means /\ i \in DOMAIN Names(listing)
      BY <1>1, <1>2 DEF Names
    <3>2. Range(Names(listing)) = {<<>>}
      BY <1>6, <1>7
    <3>3. \A i \in 1..n : Names(listing)[i] \in {<<>>}
      BY <3>1, <3>2 DEF Range
    <3>4. QED
      BY <3>1, <3>3
  <2>5. Tells(parts, listing, dir)
    BY <2>1, <2>4 DEF Tells, Meant
  <2>6. QED
    BY <1>5, <1>7, <2>3, <2>5
<1>8. CASE ~(style = "VXWORKS" /\ ~IsPrefix(VxHeader, lines))
  <2> DEFINE parts == Additions(style, dir, lines)
  <2>1. parse_list_data(dir, dest, lines) = FlattenSeq(parts)
    BY <1>5, <1>8
  <2>2. parts \in Seq(Added)
    <3> HIDE DEF lines, style
    <3>1. QED
      BY <1>1, <1>3, AdditionsType
  <2>3. Len(parts) = n /\ \A i \in 1..n : parts[i] = LineAdds(style, dir, lines[i])
    BY <1>2 DEF Additions
  <2>4. ASSUME NEW i \in 1..n, ClearLine(style, listing.lines[i])
        PROVE  parts[i] = Meant(dir, listing.lines[i].means)
    <3> DEFINE line == listing.lines[i]
    <3>1. LineOf(line) /\ LineMeans(style, line) /\ lines[i] = line.tokens /\ ClearLine(style, line)
      BY <1>4, <2>4
    <3>2. LineAdds(style, dir, line.tokens) = Meant(dir, line.means)
      <4> HIDE DEF line
      <4>1. CASE style = "UNIX"
        BY <3>1, <4>1, UnixAdds DEF LineAdds, LineMeans
      <4>2. CASE style = "WINDOWS"
        BY <3>1, <4>2, WindowsAdds DEF LineAdds, LineMeans
      <4>3. CASE style = "VXWORKS"
        <5>1. VxWorksMeans(line)
          BY <3>1, <4>3 DEF LineMeans
        <5>2. ClearLine("VXWORKS", line)
          BY <3>1, <4>3
        <5>3. LineAdds("VXWORKS", dir, line.tokens) = Meant(dir, line.means)
          BY <3>1, <5>1, <5>2, VxWorksAdds
        <5>4. QED
          BY <4>3, <5>3
      <4>4. QED
        BY <1>3, <4>1, <4>2, <4>3 DEF ListTypes
    <3>3. QED
      BY <2>3, <3>1, <3>2
  <2> HIDE DEF parts
  <2>5. Tells(parts, listing, dir)
    BY <2>2, <2>3, <2>4 DEF Tells
  <2>6. QED
    BY <2>1, <2>5
<1>9. QED
  BY <1>7, <1>8
=============================================================================
