------------------------- MODULE Arithmetic_proofs -------------------------
(***************************************************************************)
(* What the rounding of Money and the sums of the accounts do, for every   *)
(* amount and every finite set: the facts the proofs about loans, vaults   *)
(* and installment plans rest on.                                          *)
(***************************************************************************)
EXTENDS Money, FiniteSetsExt, FiniteSetTheorems, WellFoundedInduction, TLAPS

-----------------------------------------------------------------------------
(* Sums over finite sets                                                   *)

\* A set of naturals that is not empty has a least element.
LEMMA LeastOf ==
  ASSUME NEW T, T \subseteq Nat, T # {} PROVE \E m \in T : \A n \in T : m <= n
  <1>1. PICK m \in T : \A n \in T : ~(<<n, m>> \in OpToRel(<, Nat))
    BY WFMin, NatLessThanWellFounded
  <1>2. ASSUME NEW n \in T, n < m PROVE <<n, m>> \in OpToRel(<, Nat)
    BY <1>2 DEF OpToRel
  <1>3. ASSUME NEW n \in T PROVE m <= n
    <2>1. ~(n < m)
      BY <1>1, <1>2
    <2>2. n \in Nat /\ m \in Nat
      OBVIOUS
    <2> QED
      BY <2>1, <2>2
  <1> QED
    BY <1>3

Chosen(s) == CHOOSE x \in s : TRUE

\* The fold behind the library's sum: h adds up f over the subsets D of S.
FoldsOn(h, f, D) ==
    h = [s \in D |-> IF s = {} THEN 0 ELSE f[Chosen(s)] + h[s \ {Chosen(s)}]]

SumOver(f, S) == MapThenSumSet(LAMBDA x : f[x], S)

UpTo(S, n) == {s \in SUBSET S : Cardinality(s) <= n}

LEMMA SumIsFold ==
  ASSUME NEW f, NEW S
  PROVE  SumOver(f, S) = (CHOOSE h : FoldsOn(h, f, SUBSET S))[S]
  BY DEF SumOver, MapThenSumSet, MapThenFoldSet, FoldsOn, Chosen

LEMMA ChosenSmaller ==
  ASSUME NEW s, IsFiniteSet(s), s # {}
  PROVE  /\ Chosen(s) \in s /\ IsFiniteSet(s \ {Chosen(s)})
         /\ Cardinality(s) \in Nat /\ Cardinality(s \ {Chosen(s)}) = Cardinality(s) - 1
         /\ Cardinality(s) > 0 /\ Cardinality(s \ {Chosen(s)}) \in Nat
  <1>1. Chosen(s) \in s
    BY DEF Chosen
  <1>2. Cardinality(s) \in Nat /\ Cardinality(s) # 0
    BY FS_CardinalityType, FS_EmptySet
  <1>3. /\ IsFiniteSet(s \ {Chosen(s)}) /\ Cardinality(s \ {Chosen(s)}) = Cardinality(s) - 1
    BY <1>1, FS_RemoveElement
  <1> QED
    BY <1>1, <1>2, <1>3

LEMMA FoldExists ==
  ASSUME NEW f, NEW S, IsFiniteSet(S) PROVE \E h : FoldsOn(h, f, SUBSET S)
  <1> DEFINE Bad == {n \in Nat : ~\E h : FoldsOn(h, f, UpTo(S, n))}
  <1>1. \A s \in SUBSET S : IsFiniteSet(s) /\ Cardinality(s) \in Nat
    BY FS_Subset, FS_CardinalityType
  <1>2. Bad = {}
    <2> SUFFICES ASSUME Bad # {} PROVE FALSE
      OBVIOUS
    <2>1. PICK m \in Bad : \A n \in Bad : m <= n
      BY LeastOf
    <2>2. CASE m = 0
      <3>1. \A s \in UpTo(S, 0) : s = {}
        BY <1>1, FS_EmptySet DEF UpTo
      <3> DEFINE h == [s \in UpTo(S, 0) |-> 0]
      <3>2. FoldsOn(h, f, UpTo(S, 0))
        BY <3>1 DEF FoldsOn
      <3> QED
        BY <2>1, <2>2, <3>2
    <2>3. CASE m > 0
      <3>1. m - 1 \in Nat /\ m - 1 \notin Bad
        BY <2>1, <2>3
      <3>2. PICK h : FoldsOn(h, f, UpTo(S, m - 1))
        BY <3>1
      <3> DEFINE k == [s \in UpTo(S, m) |->
                         IF s = {} THEN 0 ELSE f[Chosen(s)] + h[s \ {Chosen(s)}]]
      <3>3. ASSUME NEW s \in UpTo(S, m), s # {}
            PROVE  s \ {Chosen(s)} \in UpTo(S, m - 1) /\ s \ {Chosen(s)} \in UpTo(S, m)
        BY <1>1, <2>1, <3>1, <3>3, ChosenSmaller DEF UpTo
      <3>4. ASSUME NEW u \in UpTo(S, m - 1), u \in UpTo(S, m) PROVE k[u] = h[u]
        BY <3>2, <3>4 DEF FoldsOn
      <3>5. FoldsOn(k, f, UpTo(S, m))
        BY <3>3, <3>4 DEF FoldsOn
      <3> QED
        BY <2>1, <3>5
    <2> QED
      BY <2>1, <2>2, <2>3
  <1>3. UpTo(S, Cardinality(S)) = SUBSET S
    BY FS_Subset, FS_CardinalityType DEF UpTo
  <1>4. Cardinality(S) \in Nat /\ Cardinality(S) \notin Bad
    BY <1>2, FS_CardinalityType
  <1>5. \E h : FoldsOn(h, f, UpTo(S, Cardinality(S)))
    BY <1>4
  <1> QED
    BY <1>3, <1>5

LEMMA SumFolds ==
  ASSUME NEW f, NEW S, IsFiniteSet(S)
  PROVE  \E h : FoldsOn(h, f, SUBSET S) /\ SumOver(f, S) = h[S]
  BY FoldExists, SumIsFold

\* Two folds agree where they add up the same.
LEMMA FoldsAgree ==
  ASSUME NEW f, NEW g, NEW S, NEW T, NEW h, NEW k, NEW U, IsFiniteSet(U),
         FoldsOn(h, f, SUBSET S), FoldsOn(k, g, SUBSET T),
         U \subseteq S, U \subseteq T, \A x \in U : f[x] = g[x]
  PROVE  h[U] = k[U]
  <1> DEFINE Bad == {n \in Nat : \E s \in SUBSET U : Cardinality(s) = n /\ h[s] # k[s]}
  <1>1. \A s \in SUBSET U : IsFiniteSet(s) /\ Cardinality(s) \in Nat
    BY FS_Subset, FS_CardinalityType
  <1>2. Bad = {}
    <2> SUFFICES ASSUME Bad # {} PROVE FALSE
      OBVIOUS
    <2>1. PICK m \in Bad : \A n \in Bad : m <= n
      BY LeastOf
    <2>2. PICK s \in SUBSET U : Cardinality(s) = m /\ h[s] # k[s]
      BY <2>1
    <2>3. /\ h[s] = IF s = {} THEN 0 ELSE f[Chosen(s)] + h[s \ {Chosen(s)}]
          /\ k[s] = IF s = {} THEN 0 ELSE g[Chosen(s)] + k[s \ {Chosen(s)}]
      BY <2>2 DEF FoldsOn
    <2>4. s # {} /\ Chosen(s) \in U /\ f[Chosen(s)] = g[Chosen(s)]
      BY <2>2, <2>3 DEF Chosen
    <2>5. h[s \ {Chosen(s)}] # k[s \ {Chosen(s)}]
      BY <2>2, <2>3, <2>4
    <2>6. m - 1 \in Bad
      BY <1>1, <2>2, <2>4, <2>5, ChosenSmaller
    <2> QED
      BY <2>1, <2>6
  <1> QED
    BY <1>1, <1>2

LEMMA SumSame ==
  ASSUME NEW f, NEW g, NEW S, IsFiniteSet(S), \A x \in S : f[x] = g[x]
  PROVE  SumOver(f, S) = SumOver(g, S)
  <1>1. PICK h : FoldsOn(h, f, SUBSET S) /\ SumOver(f, S) = h[S]
    BY SumFolds
  <1>2. PICK k : FoldsOn(k, g, SUBSET S) /\ SumOver(g, S) = k[S]
    BY SumFolds
  <1>3. S \subseteq S
    OBVIOUS
  <1>4. h[S] = k[S]
    BY <1>1, <1>2, <1>3, FoldsAgree
  <1> QED
    BY <1>1, <1>2, <1>4

LEMMA SumOfNone == ASSUME NEW f PROVE SumOver(f, {}) = 0
  <1>1. PICK h : FoldsOn(h, f, SUBSET {}) /\ SumOver(f, {}) = h[{}]
    BY SumFolds, FS_EmptySet
  <1> QED
    BY <1>1 DEF FoldsOn

\* The fold takes out whichever element comes first; so does the sum.
LEMMA FoldInt ==
  ASSUME NEW f, NEW S, NEW h, IsFiniteSet(S), FoldsOn(h, f, SUBSET S),
         \A x \in S : f[x] \in Int
  PROVE  \A s \in SUBSET S : h[s] \in Int
  <1> DEFINE Bad == {n \in Nat : \E s \in SUBSET S : Cardinality(s) = n /\ h[s] \notin Int}
  <1>1. \A s \in SUBSET S : IsFiniteSet(s) /\ Cardinality(s) \in Nat
    BY FS_Subset, FS_CardinalityType
  <1>2. Bad = {}
    <2> SUFFICES ASSUME Bad # {} PROVE FALSE
      OBVIOUS
    <2>1. PICK m \in Bad : \A n \in Bad : m <= n
      BY LeastOf
    <2>2. PICK s \in SUBSET S : Cardinality(s) = m /\ h[s] \notin Int
      BY <2>1
    <2>3. h[s] = IF s = {} THEN 0 ELSE f[Chosen(s)] + h[s \ {Chosen(s)}]
      BY <2>2 DEF FoldsOn
    <2>4. s # {} /\ Chosen(s) \in S /\ f[Chosen(s)] \in Int
      BY <2>2, <2>3 DEF Chosen
    <2>5. h[s \ {Chosen(s)}] \notin Int
      BY <2>2, <2>3, <2>4
    <2>6. m - 1 \in Bad
      BY <1>1, <2>2, <2>4, <2>5, ChosenSmaller
    <2> QED
      BY <2>1, <2>6
  <1> QED
    BY <1>1, <1>2

LEMMA FoldRemoves ==
  ASSUME NEW f, NEW S, NEW h, IsFiniteSet(S), FoldsOn(h, f, SUBSET S),
         \A x \in S : f[x] \in Int, NEW z \in S
  PROVE  h[S] = f[z] + h[S \ {z}]
  <1> DEFINE Bad == {n \in Nat : \E s \in SUBSET S : /\ Cardinality(s) = n
                                                     /\ \E x \in s : h[s] # f[x] + h[s \ {x}]}
  <1>1. \A s \in SUBSET S : IsFiniteSet(s) /\ Cardinality(s) \in Nat /\ h[s] \in Int
    BY FS_Subset, FS_CardinalityType, FoldInt
  <1>2. Bad = {}
    <2> SUFFICES ASSUME Bad # {} PROVE FALSE
      OBVIOUS
    <2>1. PICK m \in Bad : \A n \in Bad : m <= n
      BY LeastOf
    <2>2. PICK s \in SUBSET S : Cardinality(s) = m /\ \E x \in s : h[s] # f[x] + h[s \ {x}]
      BY <2>1
    <2>3. PICK x \in s : h[s] # f[x] + h[s \ {x}]
      BY <2>2
    <2> DEFINE y == Chosen(s)
               u == s \ {y}
               v == s \ {x}
    <2>4. s # {} /\ y \in s /\ IsFiniteSet(s)
      BY <1>1, <2>3 DEF Chosen
    <2>5. h[s] = f[y] + h[u]
      BY <2>4 DEF FoldsOn
    <2>6. x # y
      BY <2>3, <2>5
    <2>7. x \in u /\ y \in v /\ u \in SUBSET S /\ v \in SUBSET S /\ u \ {x} = v \ {y}
      BY <2>3, <2>4, <2>6
    <2>8. Cardinality(u) = m - 1 /\ Cardinality(v) = m - 1 /\ m - 1 \in Nat
      <3>1. Cardinality(u) = m - 1 /\ m - 1 \in Nat
        BY <2>2, <2>4, ChosenSmaller
      <3>2. Cardinality(v) = m - 1
        BY <2>2, <2>3, <2>4, FS_RemoveElement
      <3> QED
        BY <3>1, <3>2
    <2>9. m - 1 \notin Bad
      BY <2>1, <2>8
    <2>10. h[u] = f[x] + h[u \ {x}] /\ h[v] = f[y] + h[v \ {y}]
      BY <2>7, <2>8, <2>9
    <2>11. /\ f[x] \in Int /\ f[y] \in Int /\ h[u] \in Int /\ h[v] \in Int
           /\ h[u \ {x}] \in Int /\ h[v \ {y}] \in Int /\ h[u \ {x}] = h[v \ {y}]
      <3>1. u \ {x} \in SUBSET S /\ v \ {y} \in SUBSET S
        BY <2>7
      <3> QED
        BY <1>1, <2>3, <2>4, <2>7, <3>1
    <2>12. h[s] = f[x] + h[v]
      BY <2>5, <2>10, <2>11
    <2> QED
      BY <2>3, <2>12
  <1>3. S \in SUBSET S /\ Cardinality(S) \in Nat /\ Cardinality(S) \notin Bad
    BY <1>1, <1>2
  <1> QED
    BY <1>3

LEMMA SumInt ==
  ASSUME NEW f, NEW S, IsFiniteSet(S), \A x \in S : f[x] \in Int PROVE SumOver(f, S) \in Int
  <1>1. PICK h : FoldsOn(h, f, SUBSET S) /\ SumOver(f, S) = h[S]
    BY SumFolds
  <1>2. \A s \in SUBSET S : h[s] \in Int
    BY <1>1, FoldInt
  <1> QED
    BY <1>1, <1>2

LEMMA FoldsAgreeBelow ==
  ASSUME NEW f, NEW S, NEW h, NEW k, NEW U, IsFiniteSet(U), U \subseteq S,
         FoldsOn(h, f, SUBSET S), FoldsOn(k, f, SUBSET U)
  PROVE  h[U] = k[U]
  <1>1. U \subseteq U /\ \A x \in U : f[x] = f[x]
    OBVIOUS
  <1> QED
    BY <1>1, FoldsAgree

\* A sum is one of its terms and the sum of the others.
LEMMA SumSplit ==
  ASSUME NEW f, NEW S, IsFiniteSet(S), \A x \in S : f[x] \in Int, NEW x \in S
  PROVE  SumOver(f, S) = f[x] + SumOver(f, S \ {x})
  <1>1. IsFiniteSet(S \ {x})
    BY FS_RemoveElement
  <1>2. PICK h : FoldsOn(h, f, SUBSET S) /\ SumOver(f, S) = h[S]
    BY SumFolds
  <1>3. PICK k : FoldsOn(k, f, SUBSET (S \ {x})) /\ SumOver(f, S \ {x}) = k[S \ {x}]
    BY <1>1, SumFolds
  <1>4. h[S \ {x}] = k[S \ {x}]
    <2> DEFINE U == S \ {x}
    <2>1. IsFiniteSet(U) /\ U \subseteq S
      BY <1>1
    <2>2. FoldsOn(h, f, SUBSET S) /\ FoldsOn(k, f, SUBSET U)
      BY <1>2, <1>3
    <2> HIDE DEF U
    <2>3. h[U] = k[U]
      BY <2>1, <2>2, FoldsAgreeBelow
    <2> QED
      BY <2>3 DEF U
  <1>5. h[S] = f[x] + h[S \ {x}]
    <2>1. FoldsOn(h, f, SUBSET S) /\ IsFiniteSet(S)
      BY <1>2
    <2> QED
      BY <2>1, FoldRemoves
  <1> QED
    BY <1>2, <1>3, <1>4, <1>5

LEMMA SumNat ==
  ASSUME NEW f, NEW S, IsFiniteSet(S), \A x \in S : f[x] \in Nat PROVE SumOver(f, S) \in Nat
  <1> DEFINE Bad == {n \in Nat : \E s \in SUBSET S : Cardinality(s) = n /\ SumOver(f, s) \notin Nat}
  <1>1. \A s \in SUBSET S : IsFiniteSet(s) /\ Cardinality(s) \in Nat
    BY FS_Subset, FS_CardinalityType
  <1>2. Bad = {}
    <2> SUFFICES ASSUME Bad # {} PROVE FALSE
      OBVIOUS
    <2>1. PICK m \in Bad : \A n \in Bad : m <= n
      BY LeastOf
    <2>2. PICK s \in SUBSET S : Cardinality(s) = m /\ SumOver(f, s) \notin Nat
      BY <2>1
    <2>3. s # {}
      BY <2>2, SumOfNone
    <2> DEFINE u == s \ {Chosen(s)}
    <2>4. Chosen(s) \in s /\ Cardinality(u) = m - 1 /\ m - 1 \in Nat /\ u \in SUBSET S
      BY <1>1, <2>2, <2>3, ChosenSmaller
    <2>5. SumOver(f, s) = f[Chosen(s)] + SumOver(f, u)
      BY <1>1, <2>2, <2>4, SumSplit
    <2>6. SumOver(f, u) \notin Nat
      BY <2>2, <2>4, <2>5
    <2> QED
      BY <2>1, <2>4, <2>6
  <1> QED
    BY <1>1, <1>2

\* One term changes, and the sum by as much.
LEMMA SumChanges ==
  ASSUME NEW f, NEW g, NEW S, IsFiniteSet(S), NEW x \in S,
         \A y \in S : f[y] \in Int /\ g[y] \in Int, \A y \in S \ {x} : g[y] = f[y]
  PROVE  SumOver(g, S) = SumOver(f, S) - f[x] + g[x]
  <1>1. IsFiniteSet(S \ {x})
    BY FS_RemoveElement
  <1>2. SumOver(g, S) = g[x] + SumOver(g, S \ {x}) /\ SumOver(f, S) = f[x] + SumOver(f, S \ {x})
    BY SumSplit
  <1>3. SumOver(g, S \ {x}) = SumOver(f, S \ {x}) /\ SumOver(f, S \ {x}) \in Int
    BY <1>1, SumSame, SumInt
  <1> QED
    BY <1>2, <1>3

\* No term of a sum of amounts is more than the sum.
LEMMA TermWithinSum ==
  ASSUME NEW f, NEW S, IsFiniteSet(S), \A y \in S : f[y] \in Nat, NEW x \in S
  PROVE  f[x] <= SumOver(f, S)
  <1>1. IsFiniteSet(S \ {x})
    BY FS_RemoveElement
  <1>2. SumOver(f, S) = f[x] + SumOver(f, S \ {x})
    BY SumSplit
  <1>3. SumOver(f, S \ {x}) \in Nat
    BY <1>1, SumNat
  <1> QED
    BY <1>2, <1>3

\* Terms that are zero may be left out.
LEMMA SumOfPart ==
  ASSUME NEW f, NEW S, NEW T, IsFiniteSet(S), T \subseteq S,
         \A y \in S : f[y] \in Int, \A y \in S \ T : f[y] = 0
  PROVE  SumOver(f, T) = SumOver(f, S)
  <1> DEFINE Bad == {n \in Nat : \E s \in SUBSET (S \ T) :
                                   Cardinality(s) = n /\ SumOver(f, T \cup s) # SumOver(f, T)}
  <1>1. \A s \in SUBSET (S \ T) : /\ IsFiniteSet(s) /\ Cardinality(s) \in Nat
                                  /\ IsFiniteSet(T \cup s)
    <2>1. \A s \in SUBSET (S \ T) : s \in SUBSET S /\ T \cup s \in SUBSET S
      OBVIOUS
    <2> QED
      BY <2>1, FS_Subset, FS_CardinalityType
  <1>2. Bad = {}
    <2> SUFFICES ASSUME Bad # {} PROVE FALSE
      OBVIOUS
    <2>1. PICK m \in Bad : \A n \in Bad : m <= n
      BY LeastOf
    <2>2. PICK s \in SUBSET (S \ T) : Cardinality(s) = m /\ SumOver(f, T \cup s) # SumOver(f, T)
      BY <2>1
    <2>3. s # {}
      BY <2>2
    <2> DEFINE x == Chosen(s)
               u == s \ {x}
    <2>4. x \in s /\ Cardinality(u) = m - 1 /\ m - 1 \in Nat /\ u \in SUBSET (S \ T)
      BY <1>1, <2>2, <2>3, ChosenSmaller
    <2>5. (T \cup s) \ {x} = T \cup u /\ x \in T \cup s /\ f[x] = 0
      BY <2>2, <2>4
    <2>6. SumOver(f, T \cup s) = f[x] + SumOver(f, (T \cup s) \ {x})
      BY <1>1, <2>2, <2>5, SumSplit
    <2>7. SumOver(f, T \cup u) \in Int
      BY <1>1, <2>4, SumInt
    <2>8. SumOver(f, T \cup u) # SumOver(f, T)
      BY <2>2, <2>5, <2>6, <2>7
    <2>9. m - 1 \in Bad
      <3> HIDE DEF u
      <3> QED
        BY <2>4, <2>8
    <2>10. m <= m - 1 /\ m \in Nat
      BY <2>1, <2>9
    <2> QED
      BY <2>10
  <1>3. T \cup (S \ T) = S /\ S \ T \in SUBSET (S \ T)
    OBVIOUS
  <1>4. Cardinality(S \ T) \in Nat /\ Cardinality(S \ T) \notin Bad
    BY <1>1, <1>2, <1>3
  <1>5. SumOver(f, T \cup (S \ T)) = SumOver(f, T)
    BY <1>3, <1>4
  <1> QED
    BY <1>3, <1>5

-----------------------------------------------------------------------------
(* Rounding                                                                *)

LEMMA TimesMono ==
  ASSUME NEW y \in Nat, NEW a \in Int, NEW b \in Int, a <= b PROVE y * a <= y * b
  OBVIOUS

LEMMA QuotientBounds ==
  ASSUME NEW a \in Int, NEW b \in Nat \ {0}
  PROVE  a \div b \in Int /\ b * (a \div b) <= a /\ a < b * (a \div b) + b
  OBVIOUS

\* The rounded quotient is at most half a divisor off.
LEMMA RoundBounds ==
  ASSUME NEW x \in Int, NEW y \in Nat \ {0}
  PROVE  /\ Round(x, y) \in Int
         /\ 2 * (y * Round(x, y)) <= 2 * x + y
         /\ 2 * x + y < 2 * (y * Round(x, y)) + 2 * y
  <1> DEFINE a == 2 * x + y
             b == 2 * y
             q == a \div b
  <1>1. a \in Int /\ b \in Nat \ {0}
    OBVIOUS
  <1>2. q \in Int /\ b * q <= a /\ a < b * q + b
    <2> HIDE DEF a, b
    <2> QED
      BY <1>1, QuotientBounds
  <1>3. b * q = 2 * (y * q)
    <2> HIDE DEF q
    <2> QED
      BY <1>2
  <1> QED
    BY <1>2, <1>3 DEF Round

\* And the only integer that is.
LEMMA RoundIs ==
  ASSUME NEW x \in Int, NEW y \in Nat \ {0}, NEW r \in Int,
         2 * (y * r) <= 2 * x + y, 2 * x + y < 2 * (y * r) + 2 * y
  PROVE  Round(x, y) = r
  <1> DEFINE q == Round(x, y)
  <1>1. q \in Int /\ 2 * (y * q) <= 2 * x + y /\ 2 * x + y < 2 * (y * q) + 2 * y
    BY RoundBounds
  <1> HIDE DEF q
  <1>2. ~(q >= r + 1)
    <2> SUFFICES ASSUME q >= r + 1 PROVE FALSE
      OBVIOUS
    <2>1. y * (r + 1) <= y * q
      BY <1>1, TimesMono
    <2>2. y * (r + 1) = y * r + y
      OBVIOUS
    <2> QED
      BY <1>1, <2>1, <2>2
  <1>3. ~(r >= q + 1)
    <2> SUFFICES ASSUME r >= q + 1 PROVE FALSE
      OBVIOUS
    <2>1. y * (q + 1) <= y * r
      BY <1>1, TimesMono
    <2>2. y * (q + 1) = y * q + y
      BY <1>1
    <2> QED
      BY <1>1, <2>1, <2>2
  <1>4. q = r
    BY <1>1, <1>2, <1>3
  <1> QED
    BY <1>4 DEF q

LEMMA RoundMono ==
  ASSUME NEW x \in Int, NEW z \in Int, NEW y \in Nat \ {0}, x <= z
  PROVE  Round(x, y) <= Round(z, y)
  <1> DEFINE q == Round(x, y)
             r == Round(z, y)
  <1>1. /\ q \in Int /\ r \in Int
        /\ 2 * (y * q) <= 2 * x + y /\ 2 * z + y < 2 * (y * r) + 2 * y
    BY RoundBounds
  <1> HIDE DEF q, r
  <1>2. ~(q >= r + 1)
    <2> SUFFICES ASSUME q >= r + 1 PROVE FALSE
      OBVIOUS
    <2>1. y * (r + 1) <= y * q
      BY <1>1, TimesMono
    <2>2. y * (r + 1) = y * r + y
      BY <1>1
    <2> QED
      BY <1>1, <2>1, <2>2
  <1>3. q <= r
    BY <1>1, <1>2
  <1> QED
    BY <1>3 DEF q, r

\* Whole multiples of the divisor come out of a rounded quotient as they are.
LEMMA RoundShift ==
  ASSUME NEW x \in Int, NEW y \in Nat \ {0}, NEW k \in Int
  PROVE  Round(x + k * y, y) = Round(x, y) + k
  <1> DEFINE q == Round(x, y)
  <1>1. q \in Int /\ 2 * (y * q) <= 2 * x + y /\ 2 * x + y < 2 * (y * q) + 2 * y
    BY RoundBounds
  <1> HIDE DEF q
  <1>2. y * (q + k) = y * q + k * y /\ x + k * y \in Int /\ q + k \in Int /\ k * y \in Int
        /\ y * q \in Int
    BY <1>1
  <1> DEFINE z == x + k * y
             m == k * y
             n == y * q
  <1>3. 2 * z = 2 * x + 2 * m /\ 2 * (y * (q + k)) = 2 * n + 2 * m
    BY <1>2
  <1>4. 2 * (y * (q + k)) <= 2 * z + y /\ 2 * z + y < 2 * (y * (q + k)) + 2 * y
    <2> HIDE DEF z, m
    <2> QED
      BY <1>1, <1>2, <1>3 DEF m
  <1>5. Round(z, y) = q + k
    <2> HIDE DEF z
    <2> QED
      BY <1>2, <1>4, RoundIs DEF z
  <1> QED
    BY <1>5 DEF q

LEMMA RoundExact ==
  ASSUME NEW k \in Int, NEW y \in Nat \ {0} PROVE Round(k * y, y) = k
  <1>1. k * y \in Int /\ y * k = k * y
    OBVIOUS
  <1> QED
    BY <1>1, RoundIs

-----------------------------------------------------------------------------
(* What an installment releases                                            *)

\* What should be released once `repaid` of the principal is.
ShareDue(principal, locked, repaid) ==
    Round(locked * repaid * (100 - SafetyBuffer), principal * 100)

\* A release brings what has been released up to the share due, if it is below.
LEMMA ReleaseCatchesUp ==
  ASSUME NEW p \in Nat \ {0}, NEW L \in Int, NEW R \in Int, NEW rep \in Int
  PROVE  LET due == ShareDue(p, L, rep)
         IN /\ due \in Int
            /\ ReleaseDue(p, L, R, rep) = IF due > R THEN due - R ELSE 0
  <1> DEFINE X == L * rep * (100 - SafetyBuffer)
             y == p * 100
             due == Round(X, y)
  <1>1. X \in Int /\ y \in Nat \ {0} /\ R * p * 100 = R * y
    BY SafetyBufferAssumption
  <1> HIDE DEF X, y
  <1>2. due \in Int /\ R * y \in Int /\ (-R) * y \in Int /\ (-R) * y = -(R * y) /\ -R \in Int
    BY <1>1, RoundBounds
  <1>3. Round(X + (-R) * y, y) = due + (-R)
    BY <1>1, <1>2, RoundShift
  <1>4. Round(R * y, y) = R /\ Round(0 * y, y) = 0 /\ 0 * y = 0
    BY <1>1, RoundExact
  <1>5. CASE X > R * y
    <2>1. R <= due
      BY <1>1, <1>2, <1>4, <1>5, RoundMono
    <2>2. AtLeastZero(X - R * y) = X + (-R) * y
      BY <1>1, <1>2, <1>5 DEF AtLeastZero
    <2>3. Round(AtLeastZero(X - R * y), y) = due - R
      BY <1>2, <1>3, <2>2
    <2>4. due - R = IF due > R THEN due - R ELSE 0
      BY <1>2, <2>1
    <2> QED
      BY <1>1, <1>2, <2>3, <2>4 DEF ReleaseDue, ShareDue, X, y
  <1>6. CASE ~(X > R * y)
    <2>1. due <= R
      BY <1>1, <1>2, <1>4, <1>6, RoundMono
    <2>2. AtLeastZero(X - R * y) = 0
      BY <1>1, <1>2, <1>6 DEF AtLeastZero
    <2>3. Round(AtLeastZero(X - R * y), y) = 0
      BY <1>4, <2>2
    <2>4. ~(due > R)
      BY <1>2, <2>1
    <2> QED
      BY <1>1, <1>2, <2>3, <2>4 DEF ReleaseDue, ShareDue, X, y
  <1> QED
    BY <1>5, <1>6

\* The share due grows with what is repaid, and is never more than was locked.
LEMMA ShareMono ==
  ASSUME NEW p \in Nat \ {0}, NEW L \in Nat, NEW a \in Int, NEW b \in Int, a <= b
  PROVE  ShareDue(p, L, a) <= ShareDue(p, L, b)
  <1> DEFINE c == 100 - SafetyBuffer
  <1>1. c \in Nat /\ p * 100 \in Nat \ {0}
    BY SafetyBufferAssumption
  <1> HIDE DEF c
  <1>2. L * a \in Int /\ L * b \in Int /\ L * a <= L * b
    BY TimesMono
  <1>3. L * a * c \in Int /\ L * b * c \in Int /\ L * a * c = c * (L * a) /\ L * b * c = c * (L * b)
    BY <1>1
  <1>4. L * a * c <= L * b * c
    BY <1>1, <1>2, <1>3, TimesMono
  <1> QED
    BY <1>1, <1>3, <1>4, RoundMono DEF ShareDue, c

LEMMA ShareBounds ==
  ASSUME NEW p \in Nat \ {0}, NEW L \in Nat, NEW rep \in Nat, rep <= p
  PROVE  ShareDue(p, L, rep) \in Nat /\ ShareDue(p, L, rep) <= L
  <1> DEFINE c == 100 - SafetyBuffer
             y == p * 100
  <1>1. c \in Nat /\ c <= 100 /\ y \in Nat \ {0}
    BY SafetyBufferAssumption
  <1> HIDE DEF c
  <1>2. L * rep \in Nat /\ L * p \in Nat /\ L * rep <= L * p
    BY TimesMono
  <1>3. L * rep * c \in Nat /\ L * rep * c <= L * rep * 100
    BY <1>1, <1>2, TimesMono
  <1>4. L * rep * 100 <= L * p * 100 /\ L * p * 100 = L * y /\ L * y \in Nat /\ L * rep * 100 \in Nat
    BY <1>2
  <1>5. L * rep * c <= L * y
    BY <1>3, <1>4
  <1> HIDE DEF y
  <1>6. Round(L * y, y) = L /\ Round(0 * y, y) = 0 /\ 0 * y = 0
    BY <1>1, RoundExact
  <1>7. Round(L * rep * c, y) <= L /\ 0 <= Round(L * rep * c, y) /\ Round(L * rep * c, y) \in Int
    <2>1. L * rep * c \in Int /\ L * y \in Int /\ 0 \in Int /\ 0 <= L * rep * c
      BY <1>3, <1>4
    <2> QED
      BY <1>1, <1>5, <1>6, <2>1, RoundMono, RoundBounds
  <1> QED
    BY <1>7 DEF ShareDue, c, y

\* What is still locked once the share due is released covers what is still
\* owed, if what was locked covers the principal.
LEMMA ShareCovers ==
  ASSUME NEW p \in Nat \ {0}, NEW L \in Nat, NEW rep \in Nat, rep <= p, p <= L
  PROVE  p - rep <= L - ShareDue(p, L, rep)
  <1> DEFINE c == 100 - SafetyBuffer
             y == p * 100
             k == rep + (L - p)
  <1>1. c \in Nat /\ c <= 100 /\ y \in Nat \ {0} /\ L - p \in Nat /\ k \in Nat
    BY SafetyBufferAssumption
  <1> HIDE DEF c
  <1>2. L * rep = p * rep + (L - p) * rep /\ L * rep \in Nat /\ p * rep \in Nat
        /\ (L - p) * rep \in Nat
    OBVIOUS
  <1>3. (L - p) * rep <= (L - p) * p
    BY <1>1, TimesMono
  <1>4. p * k = p * rep + (L - p) * p /\ p * k \in Nat
    BY <1>1
  <1>5. L * rep <= p * k
    <2> DEFINE u == (L - p) * rep
               v == (L - p) * p
    <2>1. u \in Nat /\ v \in Nat
      BY <1>1
    <2> HIDE DEF k, u, v
    <2> QED
      BY <1>2, <1>3, <1>4, <2>1 DEF u, v
  <1> HIDE DEF k
  <1>6. L * rep * c \in Nat /\ L * rep * c <= L * rep * 100
    BY <1>1, <1>2, TimesMono
  <1>7. L * rep * 100 <= p * k * 100 /\ p * k * 100 = k * y /\ k * y \in Nat /\ L * rep * 100 \in Nat
    BY <1>1, <1>2, <1>4, <1>5
  <1>8. L * rep * c <= k * y
    BY <1>6, <1>7
  <1> HIDE DEF y
  <1>9. Round(L * rep * c, y) <= k /\ Round(L * rep * c, y) \in Int
    <2>1. L * rep * c \in Int /\ k * y \in Int /\ k \in Int
      BY <1>1, <1>6, <1>7
    <2> QED
      BY <1>1, <1>8, <2>1, RoundMono, RoundBounds, RoundExact
  <1> QED
    BY <1>1, <1>9 DEF ShareDue, c, y, k

-----------------------------------------------------------------------------
(* What installments add up to                                             *)

\* With enough cents to go round, rounding up leaves some for the last one.
LEMMA LastIsPositive ==
  ASSUME NEW p \in Nat \ {0}, NEW c \in Nat \ {0}, c * (c - 1) < 2 * p
  PROVE  /\ Round(p, c) \in Nat /\ Round(p, c) * (c - 1) < p
         /\ c > 1 => Round(p, c) > 0
  <1> DEFINE a == Round(p, c)
             n == c - 1
  <1>1. a \in Int /\ n \in Nat /\ 2 * (c * a) <= 2 * p + c /\ 2 * p + c < 2 * (c * a) + 2 * c
    BY RoundBounds
  <1>2. a \in Nat
    <2>1. Round(0 * c, c) = 0 /\ 0 * c = 0
      BY RoundExact
    <2> QED
      BY <1>1, <2>1, RoundMono
  <1> HIDE DEF a
  <1>3. c > 1 => a > 0
    <2> SUFFICES ASSUME c > 1, a = 0 PROVE FALSE
      BY <1>2
    <2>1. c * 1 <= c * (c - 1)
      BY TimesMono
    <2> QED
      BY <1>1, <2>1
  <1>4. a * n < p
    <2> SUFFICES ASSUME p <= a * n PROVE FALSE
      BY <1>1, <1>2
    <2>1. a * n \in Nat /\ c * p <= c * (a * n)
      BY <1>1, <1>2, TimesMono
    <2>2. n * (2 * (c * a)) <= n * (2 * p + c)
      BY <1>1, <1>2, TimesMono
    <2>3. n * (2 * (c * a)) = 2 * (c * (a * n))
      BY <1>1, <1>2
    <2>4. n * (2 * p + c) = 2 * (p * n) + c * n /\ c * n < 2 * p
      BY <1>1
    <2>5. c * p = p * n + p /\ p * n \in Nat /\ c * n \in Nat /\ c * p \in Nat
      BY <1>1
    <2> QED
      BY <2>1, <2>2, <2>3, <2>4, <2>5
  <1> QED
    BY <1>2, <1>3, <1>4 DEF a

LEMMA InstallmentIsPositive ==
  ASSUME NEW p \in Nat \ {0}, NEW c \in Nat \ {0}, c * (c - 1) < 2 * p, NEW i \in 1 .. c
  PROVE  InstallmentAmount(p, c, i) \in Nat \ {0}
  <1>1. /\ Round(p, c) \in Nat /\ Round(p, c) * (c - 1) < p
        /\ c > 1 => Round(p, c) > 0
    BY LastIsPositive
  <1> DEFINE a == Round(p, c)
             b == a * (c - 1)
  <1>2. b \in Nat /\ b < p /\ a \in Nat /\ (i # c => a > 0)
    BY <1>1
  <1>3. InstallmentAmount(p, c, i) = IF i = c THEN p - b ELSE a
    BY DEF InstallmentAmount
  <1> HIDE DEF a, b
  <1> QED
    BY <1>2, <1>3

\* Besides the last, at most count - 1 installments are repaid.
LEMMA RepaidCount ==
  ASSUME NEW c \in Nat \ {0}, NEW paid, paid \subseteq 1 .. c
  PROVE  /\ IsFiniteSet(paid \ {c}) /\ Cardinality(paid \ {c}) \in 0 .. (c - 1)
         /\ paid = 1 .. c => Cardinality(paid \ {c}) = c - 1
  <1>1. IsFiniteSet(1 .. (c - 1)) /\ Cardinality(1 .. (c - 1)) = c - 1
    <2>1. Cardinality(1 .. (c - 1)) = IF 1 > c - 1 THEN 0 ELSE c - 1 - 1 + 1
      BY FS_Interval
    <2> QED
      BY <2>1, FS_Interval
  <1>2. paid \ {c} \in SUBSET (1 .. (c - 1)) /\ (paid = 1 .. c => paid \ {c} = 1 .. (c - 1))
    OBVIOUS
  <1>3. /\ IsFiniteSet(paid \ {c}) /\ Cardinality(paid \ {c}) <= c - 1
        /\ Cardinality(paid \ {c}) \in Nat
    BY <1>1, <1>2, FS_Subset, FS_CardinalityType
  <1> DEFINE k == Cardinality(paid \ {c})
  <1>4. k \in Nat /\ k <= c - 1 /\ (paid = 1 .. c => k = c - 1)
    BY <1>1, <1>2, <1>3
  <1>5. k \in 0 .. (c - 1)
    <2> HIDE DEF k
    <2> QED
      BY <1>4
  <1> QED
    BY <1>3, <1>4, <1>5

\* What is repaid is never more than the principal, and all of it in the end.
LEMMA RepaidBounds ==
  ASSUME NEW p \in Nat \ {0}, NEW c \in Nat \ {0}, c * (c - 1) < 2 * p,
         NEW paid, paid \subseteq 1 .. c
  PROVE  /\ TotalRepaid(p, c, paid) \in Nat /\ TotalRepaid(p, c, paid) <= p
         /\ paid = 1 .. c => TotalRepaid(p, c, paid) = p
  <1> DEFINE a == Round(p, c)
             k == Cardinality(paid \ {c})
  <1>1. a \in Nat /\ a * (c - 1) < p
    BY LastIsPositive
  <1>2. k \in 0 .. (c - 1) /\ (paid = 1 .. c => k = c - 1)
    BY RepaidCount
  <1>3. TotalRepaid(p, c, paid) = a * k + (IF c \in paid THEN p - a * (c - 1) ELSE 0)
    BY DEF TotalRepaid, InstallmentAmount
  <1> HIDE DEF a, k
  <1>4. a * k \in Nat /\ a * (c - 1) \in Nat /\ a * k <= a * (c - 1)
    BY <1>1, <1>2, TimesMono
  <1>5. paid = 1 .. c => c \in paid
    OBVIOUS
  <1> QED
    BY <1>1, <1>2, <1>3, <1>4, <1>5

\* Each installment adds its own amount to what has been repaid.
LEMMA RepaidGrows ==
  ASSUME NEW p \in Nat \ {0}, NEW c \in Nat \ {0}, NEW paid, paid \subseteq 1 .. c,
         NEW i \in 1 .. c, i \notin paid
  PROVE  TotalRepaid(p, c, paid \cup {i}) = TotalRepaid(p, c, paid) + InstallmentAmount(p, c, i)
  <1> DEFINE a == Round(p, c)
             k == Cardinality(paid \ {c})
             m == Cardinality((paid \cup {i}) \ {c})
             b == p - a * (c - 1)
  <1>1. a \in Int /\ IsFiniteSet(paid \ {c}) /\ k \in Int
    <2>1. k \in 0 .. (c - 1) /\ IsFiniteSet(paid \ {c})
      BY RepaidCount
    <2> QED
      BY <2>1, RoundBounds
  <1>2. /\ TotalRepaid(p, c, paid) = a * k + (IF c \in paid THEN b ELSE 0)
        /\ TotalRepaid(p, c, paid \cup {i}) = a * m + (IF c \in paid \cup {i} THEN b ELSE 0)
        /\ InstallmentAmount(p, c, i) = IF i = c THEN b ELSE a
    BY DEF TotalRepaid, InstallmentAmount
  <1>3. CASE i = c
    <2>1. (paid \cup {i}) \ {c} = paid \ {c}
      BY <1>3
    <2>2. m = k /\ c \notin paid /\ c \in paid \cup {i}
      BY <1>3, <2>1
    <2>3. a * k \in Int /\ b \in Int
      BY <1>1
    <2> HIDE DEF a, k, m, b
    <2> QED
      BY <1>2, <1>3, <2>2, <2>3
  <1>4. CASE i # c
    <2>1. (paid \cup {i}) \ {c} = (paid \ {c}) \cup {i} /\ i \notin paid \ {c}
      BY <1>4
    <2>2. m = k + 1
      BY <1>1, <2>1, FS_AddElement
    <2>3. a * m = a * k + a /\ a * k \in Int /\ b \in Int /\ (c \in paid \cup {i} <=> c \in paid)
      <3>1. b \in Int
        BY <1>1
      <3> HIDE DEF a, k, m, b
      <3> QED
        BY <1>1, <1>4, <2>2, <3>1
    <2> DEFINE e == IF c \in paid THEN b ELSE 0
    <2>4. e \in Int
      BY <2>3
    <2> DEFINE u == a * k
               v == a * m
    <2>5. /\ TotalRepaid(p, c, paid) = u + e
          /\ TotalRepaid(p, c, paid \cup {i}) = v + e
          /\ InstallmentAmount(p, c, i) = a
      BY <1>2, <1>4, <2>3
    <2>6. v = u + a /\ u \in Int /\ a \in Int
      BY <1>1, <2>3
    <2> HIDE DEF a, k, m, b, e, u, v
    <2> QED
      BY <2>4, <2>5, <2>6
  <1> QED
    BY <1>3, <1>4

\* A common factor cancels.
LEMMA RoundScale ==
  ASSUME NEW x \in Int, NEW y \in Nat \ {0}, NEW k \in Nat \ {0}
  PROVE  Round(k * x, k * y) = Round(x, y)
  <1> DEFINE r == Round(x, y)
             n == y * r
  <1>1. r \in Int /\ n \in Int /\ 2 * n <= 2 * x + y /\ 2 * x + y < 2 * n + 2 * y
    <2>1. r \in Int /\ 2 * n <= 2 * x + y /\ 2 * x + y < 2 * n + 2 * y
      BY RoundBounds
    <2>2. n \in Int
      <3> HIDE DEF r
      <3> QED
        BY <2>1
    <2> QED
      BY <2>1, <2>2
  <1>2. k * y \in Nat \ {0} /\ k * x \in Int /\ (k * y) * r = k * n
    <2> HIDE DEF r
    <2> QED
      BY <1>1
  <1> HIDE DEF n
  <1>3. k * (2 * n) <= k * (2 * x + y) /\ k * (2 * x + y) < k * (2 * n + 2 * y)
    <2>1. k * (2 * x + y + 1) <= k * (2 * n + 2 * y)
      BY <1>1, TimesMono
    <2>2. k * (2 * x + y + 1) = k * (2 * x + y) + k
      BY <1>1
    <2> QED
      BY <1>1, <2>1, <2>2, TimesMono
  <1>4. /\ k * (2 * n) = 2 * (k * n) /\ k * (2 * x + y) = 2 * (k * x) + k * y
        /\ k * (2 * n + 2 * y) = 2 * (k * n) + 2 * (k * y)
    BY <1>1
  <1>5. 2 * ((k * y) * r) <= 2 * (k * x) + k * y /\ 2 * (k * x) + k * y < 2 * ((k * y) * r) + 2 * (k * y)
    BY <1>2, <1>3, <1>4
  <1> HIDE DEF r
  <1>6. Round(k * x, k * y) = r
    BY <1>1, <1>2, <1>5, RoundIs
  <1> QED
    BY <1>6 DEF r

LEMMA RequiredIsNat ==
  ASSUME NEW p \in Nat, NEW ltv \in Nat PROVE RequiredCollateral(p, ltv) \in Nat
  <1> DEFINE x == p * ltv
  <1>1. x \in Nat
    OBVIOUS
  <1> HIDE DEF x
  <1>2. Round(0 * 100, 100) = 0
    BY RoundExact
  <1>3. Round(0, 100) = 0
    BY <1>2
  <1>4. Round(0, 100) <= Round(x, 100)
    BY <1>1, RoundMono
  <1>5. Round(x, 100) \in Int
    BY <1>1, RoundBounds
  <1> QED
    BY <1>3, <1>4, <1>5 DEF RequiredCollateral, x
=============================================================================
