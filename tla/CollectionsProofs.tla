------------------------- MODULE CollectionsProofs -------------------------
(***************************************************************************)
(* What the arithmetic and the lists of the other proofs rest on: the sum  *)
(* over a finite set exists, takes its elements in any order, and splits   *)
(* over subsets; what is kept of a sequence is what was to be kept.  Each  *)
(* induction takes a smallest counterexample, a natural number or a subset *)
(* of a finite set.                                                        *)
(***************************************************************************)
EXTENDS Collections, FiniteSets, WellFoundedInduction, TLAPS

-----------------------------------------------------------------------------
(* A nonempty set of naturals has a smallest member.                       *)
LEMMA SmallestNumber ==
  ASSUME NEW T \in SUBSET Nat, T # {}
  PROVE  \E m \in T : \A k \in T : m <= k
<1>1. PICK m \in T : \A k \in T : ~(<<k, m>> \in OpToRel(<, Nat))
  BY NatLessThanWellFounded, WFMin
<1>2. ASSUME NEW k \in T, k < m PROVE FALSE
  <2>1. <<k, m>> \in OpToRel(<, Nat)
    BY <1>2 DEF OpToRel
  <2>. QED BY <1>1, <2>1
<1>. QED BY <1>2

(* Induction over an initial segment of the naturals.                      *)
LEMMA CountUp ==
  ASSUME NEW n \in Nat, NEW Good, 0 \in Good,
         \A i \in 0 .. n - 1 : i \in Good => i + 1 \in Good
  PROVE  \A i \in 0 .. n : i \in Good
<1>. DEFINE Bad == {i \in 0 .. n : i \notin Good}
<1>1. SUFFICES ASSUME Bad # {} PROVE FALSE
  OBVIOUS
<1>2. Bad \in SUBSET Nat
  OBVIOUS
<1>. HIDE DEF Bad
<1>3. PICK m \in Bad : \A k \in Bad : m <= k
  BY <1>1, <1>2, SmallestNumber
<1>4. m \in 0 .. n /\ m \notin Good /\ m # 0
  BY DEF Bad
<1>5. m - 1 \in 0 .. n - 1 /\ m - 1 \in 0 .. n /\ (m - 1) + 1 = m /\ ~(m <= m - 1)
  BY <1>4
<1>6. m - 1 \notin Bad
  BY <1>3, <1>5
<1>. QED BY <1>4, <1>5, <1>6 DEF Bad

-----------------------------------------------------------------------------
(* Finite sets.                                                            *)

LEMMA EmptyFinite == IsFiniteSet({})
<1>1. <<>> \in Seq({})
  OBVIOUS
<1>. QED BY <1>1 DEF IsFiniteSet

LEMMA SubsetFinite ==
  ASSUME NEW S, IsFiniteSet(S), NEW T \in SUBSET S
  PROVE  IsFiniteSet(T)
<1>1. CASE T = {}
  BY <1>1, EmptyFinite
<1>2. ASSUME NEW x \in T PROVE IsFiniteSet(T)
  <2>1. PICK q \in Seq(S) : \A s \in S : \E n \in 1 .. Len(q) : q[n] = s
    BY DEF IsFiniteSet
  <2>. DEFINE r == [i \in 1 .. Len(q) |-> IF q[i] \in T THEN q[i] ELSE x]
  <2>2. r \in Seq(T) /\ Len(r) = Len(q) /\ \A i \in 1 .. Len(q) : q[i] \in T => r[i] = q[i]
    BY <1>2
  <2>3. \A s \in T : \E n \in 1 .. Len(r) : r[n] = s
    <3>. HIDE DEF r
    <3>. QED BY <2>1, <2>2
  <2>. QED BY <2>2, <2>3 DEF IsFiniteSet
<1>. QED BY <1>1, <1>2

LEMMA AddFinite ==
  ASSUME NEW S, IsFiniteSet(S), NEW x
  PROVE  IsFiniteSet(S \cup {x})
<1>1. PICK q \in Seq(S) : \A s \in S : \E n \in 1 .. Len(q) : q[n] = s
  BY DEF IsFiniteSet
<1>. DEFINE T == S \cup {x}
            r == Append(q, x)
<1>2. /\ r \in Seq(T) /\ Len(r) = Len(q) + 1 /\ Len(q) \in Nat
      /\ r[Len(q) + 1] = x /\ \A i \in 1 .. Len(q) : r[i] = q[i]
  <2>1. q \in Seq(T) /\ x \in T
    OBVIOUS
  <2>. QED BY <2>1
<1>. HIDE DEF r
<1>3. \A s \in T : \E n \in 1 .. Len(r) : r[n] = s
  <2>1. \A s \in S : \E n \in 1 .. Len(r) : r[n] = s
    BY <1>1, <1>2
  <2>2. \E n \in 1 .. Len(r) : r[n] = x
    BY <1>2
  <2>. QED BY <2>1, <2>2
<1>. QED BY <1>2, <1>3 DEF IsFiniteSet

(* A nonempty family of subsets of a finite set has a smallest member.     *)
HasSmallest(F) == F # {} => \E T \in F : \A U \in F : U \subseteq T => U = T

LEMMA SmallestSubset ==
  ASSUME NEW S, IsFiniteSet(S), NEW Bad \in SUBSET (SUBSET S), Bad # {}
  PROVE  \E T \in Bad : \A U \in Bad : U \subseteq T => U = T
<1>1. PICK q \in Seq(S) : \A s \in S : \E n \in 1 .. Len(q) : q[n] = s
  BY DEF IsFiniteSet
<1>. DEFINE n == Len(q)
            Upto(k) == {q[i] : i \in 1 .. k}
            Good == {k \in 0 .. n : \A F \in SUBSET (SUBSET Upto(k)) : HasSmallest(F)}
<1>2. n \in Nat /\ Upto(n) = S
  BY <1>1
<1>. HIDE DEF n
<1>3. 0 \in Good
  <2>1. Upto(0) = {}
    OBVIOUS
  <2>. HIDE DEF Upto
  <2>2. ASSUME NEW F \in SUBSET (SUBSET {}), F # {}
        PROVE  \E T \in F : \A U \in F : U \subseteq T => U = T
    <3>1. \A U \in F : U = {}
      OBVIOUS
    <3>2. PICK T \in F : TRUE
      BY <2>2
    <3>. QED BY <3>1, <3>2
  <2>. QED BY <1>2, <2>1, <2>2 DEF HasSmallest
<1>4. ASSUME NEW k \in 0 .. n - 1, k \in Good PROVE k + 1 \in Good
  <2>. DEFINE x == q[k + 1]
  <2>1. \A y : y \in Upto(k + 1) => y \in Upto(k) \/ y = x
    BY <1>2
  <2>2. k + 1 \in 0 .. n
    BY <1>2
  <2>3. \A F \in SUBSET (SUBSET Upto(k)) : HasSmallest(F)
    BY <1>4
  <2>. HIDE DEF Upto, x
  <2>4. ASSUME NEW F \in SUBSET (SUBSET Upto(k + 1)), F # {}
        PROVE  \E T \in F : \A U \in F : U \subseteq T => U = T
    <3>1. CASE \E U \in F : x \notin U
      <4>. DEFINE G == {U \in F : x \notin U}
      <4>1. G \in SUBSET (SUBSET Upto(k)) /\ G # {}
        BY <2>1, <3>1
      <4>2. HasSmallest(G)
        BY <2>3, <4>1
      <4>3. PICK T \in G : \A U \in G : U \subseteq T => U = T
        BY <4>1, <4>2 DEF HasSmallest
      <4>. QED BY <4>3
    <3>2. CASE \A U \in F : x \in U
      <4>. DEFINE G == {U \ {x} : U \in F}
      <4>1. G \in SUBSET (SUBSET Upto(k)) /\ G # {}
        <5>1. \A U \in F : U \ {x} \in SUBSET Upto(k)
          BY <2>1
        <5>2. PICK U \in F : TRUE
          BY <2>4
        <5>. QED BY <5>1, <5>2
      <4>2. HasSmallest(G)
        BY <2>3, <4>1
      <4>3. PICK T \in G : \A U \in G : U \subseteq T => U = T
        BY <4>1, <4>2 DEF HasSmallest
      <4>4. PICK V \in F : T = V \ {x}
        BY <4>3
      <4>5. ASSUME NEW U \in F, U \subseteq V PROVE U = V
        <5>1. U \ {x} \in G /\ U \ {x} \subseteq T
          BY <4>4, <4>5
        <5>2. U \ {x} = V \ {x}
          BY <4>3, <4>4, <5>1
        <5>. QED BY <3>2, <4>5, <5>2
      <4>. QED BY <4>5
    <3>. QED BY <3>1, <3>2
  <2>. QED BY <2>2, <2>4 DEF HasSmallest
<1>. HIDE DEF Good
<1>5. n \in Good
  <2>1. \A i \in 0 .. n : i \in Good
    BY <1>2, <1>3, <1>4, CountUp
  <2>. QED BY <1>2, <2>1
<1>6. HasSmallest(Bad)
  BY <1>2, <1>5 DEF Good
<1>. QED BY <1>6 DEF HasSmallest

-----------------------------------------------------------------------------
(* Sums over a finite set.                                                 *)

Pick(T) == CHOOSE y \in T : TRUE

(* g is the table of sums of f over the subsets of S.                      *)
IsSumTable(f, S, g) ==
  g = [T \in SUBSET S |-> IF T = {} THEN 0 ELSE f[Pick(T)] + g[T \ {Pick(T)}]]

SumTable(f, S) == CHOOSE g : IsSumTable(f, S, g)

(* The element the sum over a non-empty set takes first is in the set.     *)
LEMMA PickIn == ASSUME NEW T, T # {} PROVE Pick(T) \in T
BY DEF Pick

(* A sum table and the table of a smaller set agree where both speak.      *)
LEMMA TablesAgree ==
  ASSUME NEW f, NEW S, IsFiniteSet(S), NEW W \in SUBSET S, NEW g, NEW h,
         IsSumTable(f, S, g), IsSumTable(f, W, h)
  PROVE  g[W] = h[W]
<1>. DEFINE Bad == {T \in SUBSET W : g[T] # h[T]}
<1>1. SUFFICES ASSUME Bad # {} PROVE FALSE
  OBVIOUS
<1>2. IsFiniteSet(W)
  BY SubsetFinite
<1>3. PICK T \in Bad : \A U \in Bad : U \subseteq T => U = T
  <2>1. Bad \in SUBSET (SUBSET W)
    OBVIOUS
  <2>. HIDE DEF Bad
  <2>. QED BY <1>1, <1>2, <2>1, SmallestSubset
<1>4. T \in SUBSET W /\ T \in SUBSET S
  OBVIOUS
<1>5. CASE T = {}
  <2>1. g[T] = 0 /\ h[T] = 0
    BY <1>4, <1>5 DEF IsSumTable
  <2>. QED BY <2>1
<1>6. CASE T # {}
  <2>1. Pick(T) \in T
    BY <1>6, PickIn
  <2>2. T \ {Pick(T)} \in SUBSET W /\ T \ {Pick(T)} # T /\ T \ {Pick(T)} \subseteq T
    BY <2>1, <1>4
  <2>3. g[T \ {Pick(T)}] = h[T \ {Pick(T)}]
    BY <2>2, <1>3
  <2>4. g[T] = f[Pick(T)] + g[T \ {Pick(T)}]
    BY <1>4, <1>6 DEF IsSumTable
  <2>5. h[T] = f[Pick(T)] + h[T \ {Pick(T)}]
    BY <1>4, <1>6 DEF IsSumTable
  <2>. QED BY <2>3, <2>4, <2>5
<1>. QED BY <1>5, <1>6

(* The recursive definition of a sum defines something.                    *)
LEMMA TableExists ==
  ASSUME NEW f, NEW S, IsFiniteSet(S)
  PROVE  \E g : IsSumTable(f, S, g)
<1>. DEFINE Bad == {T \in SUBSET S : ~\E g : IsSumTable(f, T, g)}
<1>1. SUFFICES ASSUME Bad # {} PROVE FALSE
  OBVIOUS
<1>2. PICK T \in Bad : \A U \in Bad : U \subseteq T => U = T
  <2>1. Bad \in SUBSET (SUBSET S)
    OBVIOUS
  <2>. HIDE DEF Bad
  <2>. QED BY <1>1, <2>1, SmallestSubset
<1>. DEFINE sum(U) == SumTable(f, U)[U]
            h == [U \in SUBSET T |->
                    IF U = {} THEN 0 ELSE f[Pick(U)] + sum(U \ {Pick(U)})]
<1>3. \A V \in SUBSET T : V # T => IsSumTable(f, V, SumTable(f, V))
  BY <1>2 DEF SumTable
<1>4. \A V \in SUBSET T : IsFiniteSet(V)
  BY SubsetFinite
<1>5. ASSUME NEW V \in SUBSET T, V # T
      PROVE  h[V] = sum(V)
  <2>1. CASE V = {}
    <3>1. SumTable(f, V)[V] = 0
      BY <2>1, <1>3, <1>5 DEF IsSumTable
    <3>. QED BY <2>1, <3>1
  <2>2. CASE V # {}
    <3>. DEFINE W == V \ {Pick(V)}
    <3>1. Pick(V) \in V
      BY <2>2, PickIn
    <3>2. W \in SUBSET V /\ W \in SUBSET T /\ W # T
      BY <1>5
    <3>3. SumTable(f, V)[V] = f[Pick(V)] + SumTable(f, V)[W]
      BY <2>2, <1>3, <1>5 DEF IsSumTable
    <3>4. SumTable(f, V)[W] = SumTable(f, W)[W]
      <4>1. IsSumTable(f, V, SumTable(f, V)) /\ IsSumTable(f, W, SumTable(f, W))
        BY <1>3, <1>5, <3>2
      <4>2. IsFiniteSet(V)
        BY <1>4
      <4>. HIDE DEF W
      <4>. QED BY <4>1, <4>2, <3>2, TablesAgree
    <3>. QED BY <2>2, <3>3, <3>4
  <2>. QED BY <2>1, <2>2
<1>6. IsSumTable(f, T, h)
  <2>1. ASSUME NEW U \in SUBSET T, U # {}
        PROVE  h[U \ {Pick(U)}] = sum(U \ {Pick(U)})
    <3>1. Pick(U) \in U
      BY <2>1, PickIn
    <3>2. U \ {Pick(U)} \in SUBSET T /\ U \ {Pick(U)} # T
      BY <3>1
    <3>. HIDE DEF h, sum
    <3>. QED BY <3>2, <1>5
  <2>2. \A U \in SUBSET T :
          h[U] = IF U = {} THEN 0 ELSE f[Pick(U)] + h[U \ {Pick(U)}]
    BY <2>1
  <2>3. h = [U \in SUBSET T |-> h[U]]
    OBVIOUS
  <2>. HIDE DEF h, sum
  <2>. QED BY <2>2, <2>3 DEF IsSumTable
<1>. QED BY <1>6, <1>2

(* SumOver reads its set's entry of the set's table.                       *)
LEMMA SumIsTableEntry ==
  ASSUME NEW f, NEW S
  PROVE  SumOver(f, S) = SumTable(f, S)[S]
BY DEF SumOver, SumTable, IsSumTable, Pick

(* The sum over no lease is zero.                                          *)
LEMMA SumEmpty ==
  ASSUME NEW f
  PROVE  SumOver(f, {}) = 0
<1>1. IsSumTable(f, {}, SumTable(f, {}))
  BY EmptyFinite, TableExists DEF SumTable
<1>2. SumTable(f, {})[{}] = 0
  BY <1>1 DEF IsSumTable
<1>. QED BY <1>2, SumIsTableEntry

(* A sum is the picked element plus the sum of the others.                 *)
LEMMA SumUnfold ==
  ASSUME NEW f, NEW S, IsFiniteSet(S), S # {}
  PROVE  SumOver(f, S) = f[Pick(S)] + SumOver(f, S \ {Pick(S)})
<1>. DEFINE W == S \ {Pick(S)}
<1>1. IsSumTable(f, S, SumTable(f, S))
  BY TableExists DEF SumTable
<1>2. IsFiniteSet(W)
  BY SubsetFinite
<1>3. IsSumTable(f, W, SumTable(f, W))
  BY <1>2, TableExists DEF SumTable
<1>4. SumTable(f, S)[S] = f[Pick(S)] + SumTable(f, S)[W]
  BY <1>1 DEF IsSumTable
<1>5. SumTable(f, S)[W] = SumTable(f, W)[W]
  <2>1. W \in SUBSET S
    OBVIOUS
  <2>. HIDE DEF W
  <2>. QED BY <2>1, <1>1, <1>3, TablesAgree
<1>. QED BY <1>4, <1>5, SumIsTableEntry

(* The sum of integers is an integer, the sum of naturals a natural.       *)
LEMMA SumType ==
  ASSUME NEW f, NEW S, IsFiniteSet(S), \A x \in S : f[x] \in Int
  PROVE  SumOver(f, S) \in Int
<1>. DEFINE Bad == {T \in SUBSET S : SumOver(f, T) \notin Int}
<1>1. SUFFICES ASSUME Bad # {} PROVE FALSE
  OBVIOUS
<1>2. PICK T \in Bad : \A U \in Bad : U \subseteq T => U = T
  <2>1. Bad \in SUBSET (SUBSET S)
    OBVIOUS
  <2>. HIDE DEF Bad
  <2>. QED BY <1>1, <2>1, SmallestSubset
<1>3. T # {}
  BY SumEmpty
<1>4. Pick(T) \in T /\ IsFiniteSet(T)
  BY <1>3, PickIn, SubsetFinite
<1>5. SumOver(f, T \ {Pick(T)}) \in Int
  BY <1>2, <1>4
<1>6. SumOver(f, T) = f[Pick(T)] + SumOver(f, T \ {Pick(T)})
  BY <1>3, <1>4, SumUnfold
<1>. QED BY <1>2, <1>4, <1>5, <1>6

(* A sum of natural numbers is one: byte totals are never negative.        *)
LEMMA SumNonNegative ==
  ASSUME NEW f, NEW S, IsFiniteSet(S), \A x \in S : f[x] \in Nat
  PROVE  SumOver(f, S) \in Nat
<1>. DEFINE Bad == {T \in SUBSET S : SumOver(f, T) \notin Nat}
<1>1. SUFFICES ASSUME Bad # {} PROVE FALSE
  OBVIOUS
<1>2. PICK T \in Bad : \A U \in Bad : U \subseteq T => U = T
  <2>1. Bad \in SUBSET (SUBSET S)
    OBVIOUS
  <2>. HIDE DEF Bad
  <2>. QED BY <1>1, <2>1, SmallestSubset
<1>3. T # {}
  BY SumEmpty
<1>4. Pick(T) \in T /\ IsFiniteSet(T)
  BY <1>3, PickIn, SubsetFinite
<1>5. SumOver(f, T \ {Pick(T)}) \in Nat
  BY <1>2, <1>4
<1>6. SumOver(f, T) = f[Pick(T)] + SumOver(f, T \ {Pick(T)})
  BY <1>3, <1>4, SumUnfold
<1>. QED BY <1>2, <1>4, <1>5, <1>6

(* Any element may be taken out first.                                     *)
LEMMA SumRemove ==
  ASSUME NEW f, NEW S, IsFiniteSet(S), \A x \in S : f[x] \in Int, NEW a \in S
  PROVE  SumOver(f, S) = f[a] + SumOver(f, S \ {a})
<1>. DEFINE Bad == {T \in SUBSET S :
                      \E x \in T : SumOver(f, T) # f[x] + SumOver(f, T \ {x})}
<1>1. SUFFICES ASSUME Bad # {} PROVE FALSE
  OBVIOUS
<1>2. PICK T \in Bad : \A U \in Bad : U \subseteq T => U = T
  <2>1. Bad \in SUBSET (SUBSET S)
    OBVIOUS
  <2>. HIDE DEF Bad
  <2>. QED BY <1>1, <2>1, SmallestSubset
<1>3. PICK x \in T : SumOver(f, T) # f[x] + SumOver(f, T \ {x})
  OBVIOUS
<1>. DEFINE p == Pick(T)
<1>4. p \in T /\ IsFiniteSet(T) /\ IsFiniteSet(T \ {p}) /\ IsFiniteSet(T \ {x})
  BY <1>3, PickIn, SubsetFinite
<1>5. SumOver(f, T) = f[p] + SumOver(f, T \ {p})
  BY <1>3, <1>4, SumUnfold
<1>6. p # x
  BY <1>3, <1>5
<1>7. T \ {p} \notin Bad /\ T \ {x} \notin Bad
  BY <1>2, <1>3, <1>4
<1>8. SumOver(f, T \ {p}) = f[x] + SumOver(f, (T \ {p}) \ {x})
  BY <1>3, <1>6, <1>7
<1>9. SumOver(f, T \ {x}) = f[p] + SumOver(f, (T \ {x}) \ {p})
  BY <1>4, <1>6, <1>7
<1>10. (T \ {p}) \ {x} = (T \ {x}) \ {p}
  OBVIOUS
<1>11. IsFiniteSet((T \ {x}) \ {p})
  BY <1>4, SubsetFinite
<1>12. f[x] \in Int /\ f[p] \in Int /\ SumOver(f, (T \ {x}) \ {p}) \in Int
  BY <1>3, <1>4, <1>11, SumType
<1>13. \A i, j, k \in Int : i + (j + k) = j + (i + k)
  OBVIOUS
<1>14. SumOver(f, T) = f[p] + (f[x] + SumOver(f, (T \ {x}) \ {p}))
  BY <1>5, <1>8, <1>10
<1>15. SumOver(f, T) = f[x] + SumOver(f, T \ {x})
  BY <1>9, <1>12, <1>13, <1>14
<1>. QED BY <1>3, <1>15

(* Only the values inside the set matter.                                  *)
LEMMA SumSame ==
  ASSUME NEW f, NEW g, NEW S, IsFiniteSet(S), \A x \in S : f[x] = g[x]
  PROVE  SumOver(f, S) = SumOver(g, S)
<1>. DEFINE Bad == {T \in SUBSET S : SumOver(f, T) # SumOver(g, T)}
<1>1. SUFFICES ASSUME Bad # {} PROVE FALSE
  OBVIOUS
<1>2. PICK T \in Bad : \A U \in Bad : U \subseteq T => U = T
  <2>1. Bad \in SUBSET (SUBSET S)
    OBVIOUS
  <2>. HIDE DEF Bad
  <2>. QED BY <1>1, <2>1, SmallestSubset
<1>3. T # {}
  BY SumEmpty
<1>4. Pick(T) \in T /\ IsFiniteSet(T)
  BY <1>3, PickIn, SubsetFinite
<1>5. SumOver(f, T \ {Pick(T)}) = SumOver(g, T \ {Pick(T)})
  BY <1>2, <1>4
<1>6. /\ SumOver(f, T) = f[Pick(T)] + SumOver(f, T \ {Pick(T)})
      /\ SumOver(g, T) = g[Pick(T)] + SumOver(g, T \ {Pick(T)})
  BY <1>3, <1>4, SumUnfold
<1>. QED BY <1>2, <1>4, <1>5, <1>6

(* A sum splits into the sum over a subset and the sum over the rest.      *)
LEMMA SumSplit ==
  ASSUME NEW f, NEW S, IsFiniteSet(S), \A x \in S : f[x] \in Int, NEW D \in SUBSET S
  PROVE  SumOver(f, S) = SumOver(f, D) + SumOver(f, S \ D)
<1>. DEFINE Bad == {T \in SUBSET D : SumOver(f, S) # SumOver(f, T) + SumOver(f, S \ T)}
<1>1. SUFFICES ASSUME Bad # {} PROVE FALSE
  OBVIOUS
<1>2. PICK T \in Bad : \A U \in Bad : U \subseteq T => U = T
  <2>1. Bad \in SUBSET (SUBSET D) /\ IsFiniteSet(D)
    BY SubsetFinite
  <2>. HIDE DEF Bad
  <2>. QED BY <1>1, <2>1, SmallestSubset
<1>3. IsFiniteSet(T) /\ IsFiniteSet(S \ T) /\ \A U \in SUBSET S : SumOver(f, U) \in Int
  BY SubsetFinite, SumType
<1>4. T # {}
  <2>1. SUFFICES ASSUME T = {} PROVE FALSE
    OBVIOUS
  <2>2. S \ T = S /\ S \in SUBSET S
    BY <2>1
  <2>3. SumOver(f, T) = 0
    BY <2>1, SumEmpty
  <2>4. SumOver(f, S \ T) = SumOver(f, S)
    BY <2>2
  <2>5. SumOver(f, S) \in Int
    BY SumType
  <2>6. SumOver(f, S) = 0 + SumOver(f, S)
    BY <2>5
  <2>7. SumOver(f, S) = SumOver(f, T) + SumOver(f, S \ T)
    BY <2>3, <2>4, <2>6, Zenon
  <2>. QED BY <2>7
<1>. DEFINE p == Pick(T)  U == T \ {p}
<1>5. p \in T /\ p \in S
  BY <1>4, PickIn
<1>6. SumOver(f, S) = SumOver(f, U) + SumOver(f, S \ U)
  BY <1>2, <1>5
<1>7. SumOver(f, T) = f[p] + SumOver(f, U)
  BY <1>3, <1>5, SumRemove
<1>8. SumOver(f, S \ U) = f[p] + SumOver(f, S \ T)
  <2>1. p \in S \ U /\ (S \ U) \ {p} = S \ T
    BY <1>5
  <2>2. IsFiniteSet(S \ U)
    BY SubsetFinite
  <2>. HIDE DEF U, p
  <2>. QED BY <2>1, <2>2, SumRemove
<1>9. U \in SUBSET S /\ S \ U \in SUBSET S /\ T \in SUBSET S /\ f[p] \in Int
  BY <1>5
<1>10. SumOver(f, S) # SumOver(f, T) + SumOver(f, S \ T)
  BY <1>2
<1>. HIDE DEF U, p
<1>. QED BY <1>3, <1>6, <1>7, <1>8, <1>9, <1>10

(* Byte counts only grow with the set.                                     *)
LEMMA SumMonotone ==
  ASSUME NEW f, NEW S, IsFiniteSet(S), \A x \in S : f[x] \in Nat, NEW D \in SUBSET S
  PROVE  SumOver(f, D) <= SumOver(f, S)
<1>1. IsFiniteSet(D) /\ IsFiniteSet(S \ D)
  BY SubsetFinite
<1>2. SumOver(f, D) \in Nat /\ SumOver(f, S \ D) \in Nat
  BY <1>1, SumNonNegative
<1>3. SumOver(f, S) = SumOver(f, D) + SumOver(f, S \ D)
  BY SumSplit
<1>. QED BY <1>2, <1>3

-----------------------------------------------------------------------------
(* What is kept of a sequence.                                             *)

Members(s) == {s[i] : i \in 1 .. Len(s)}
Distinct(s) == \A i, j \in 1 .. Len(s) : s[i] = s[j] => i = j

(* g says what is kept of the first n elements of s, and of each fewer.    *)
IsKeptTable(s, S, n, g) ==
  g = [i \in 0 .. n |-> IF i = 0 THEN <<>>
                        ELSE IF s[i] \in S THEN Append(g[i - 1], s[i]) ELSE g[i - 1]]

LEMMA KeptTableExists ==
  ASSUME NEW s, NEW S, NEW n \in Nat
  PROVE  \E g : IsKeptTable(s, S, n, g)
<1>. DEFINE Good == {k \in Nat : \E g : IsKeptTable(s, S, k, g)}
<1>1. 0 \in Good
  <2>1. IsKeptTable(s, S, 0, [i \in 0 .. 0 |-> <<>>])
    BY DEF IsKeptTable
  <2>. QED BY <2>1
<1>2. ASSUME NEW k \in 0 .. n - 1, k \in Good PROVE k + 1 \in Good
  <2>1. PICK g : IsKeptTable(s, S, k, g)
    BY <1>2
  <2>. DEFINE step(i) == IF i = 0 THEN <<>>
                         ELSE IF s[i] \in S THEN Append(g[i - 1], s[i]) ELSE g[i - 1]
              h == [i \in 0 .. k + 1 |-> step(i)]
  <2>2. \A i \in 0 .. k : g[i] = step(i)
    BY <2>1 DEF IsKeptTable
  <2>3. \A i \in 0 .. k + 1 : i # 0 => i - 1 \in 0 .. k /\ i - 1 \in 0 .. k + 1
    OBVIOUS
  <2>4. \A i \in 0 .. k + 1 : i # 0 => h[i - 1] = g[i - 1]
    BY <2>2, <2>3
  <2>5. IsKeptTable(s, S, k + 1, h)
    BY <2>4 DEF IsKeptTable
  <2>. QED BY <2>5
<1>3. \A i \in 0 .. n : i \in Good
  <2>. HIDE DEF Good
  <2>. QED BY <1>1, <1>2, CountUp
<1>. QED BY <1>3

(* What is kept has the elements that were to be kept, each once where the *)
(* sequence had it once.                                                   *)
LEMMA KeptFacts ==
  ASSUME NEW V, NEW s \in Seq(V), NEW S
  PROVE  /\ Kept(s, S) \in Seq(V)
         /\ \A x : x \in Members(Kept(s, S)) <=> x \in Members(s) /\ x \in S
         /\ Distinct(s) => Distinct(Kept(s, S))
<1>. DEFINE n == Len(s)
            g == CHOOSE h : IsKeptTable(s, S, n, h)
            Part(i) == {s[j] : j \in 1 .. i}
            Right(t, i) == /\ t \in Seq(V)
                           /\ \A x : x \in Members(t) <=> x \in Part(i) /\ x \in S
                           /\ Distinct(s) => Distinct(t)
            Good == {i \in 0 .. n : Right(g[i], i)}
<1>0. n \in Nat
  OBVIOUS
<1>1. IsKeptTable(s, S, n, g)
  <2>. HIDE DEF n
  <2>. QED BY <1>0, KeptTableExists
<1>2. Kept(s, S) = g[n]
  BY DEF Kept, IsKeptTable
<1>. HIDE DEF g
<1>3. 0 \in Good
  <2>1. g[0] = <<>> /\ 0 \in 0 .. n
    BY <1>1 DEF IsKeptTable
  <2>2. <<>> \in Seq(V) /\ Members(<<>>) = {} /\ Distinct(<<>>)
    BY DEF Members, Distinct
  <2>3. Part(0) = {}
    OBVIOUS
  <2>4. Right(<<>>, 0)
    BY <2>2, <2>3
  <2>. HIDE DEF Right
  <2>. QED BY <2>1, <2>4
<1>4. ASSUME NEW i \in 0 .. n - 1, i \in Good PROVE i + 1 \in Good
  <2>1. Right(g[i], i) /\ i + 1 \in 1 .. n /\ i + 1 \in 0 .. n /\ (i + 1) - 1 = i /\ i + 1 # 0
    BY <1>4
  <2>2. g[i + 1] = IF s[i + 1] \in S THEN Append(g[i], s[i + 1]) ELSE g[i]
    BY <1>1, <2>1 DEF IsKeptTable
  <2>3. s[i + 1] \in V
    BY <2>1
  <2>4. Part(i + 1) = Part(i) \cup {s[i + 1]}
    <3>1. \A j : j \in 1 .. i + 1 <=> j \in 1 .. i \/ j = i + 1
      BY <2>1
    <3>. QED BY <3>1
  <2>5. CASE s[i + 1] \notin S
    BY <2>1, <2>2, <2>4, <2>5
  <2>6. CASE s[i + 1] \in S
    <3>. DEFINE t == g[i]
                u == Append(t, s[i + 1])
    <3>1. /\ u \in Seq(V) /\ Len(u) = Len(t) + 1
          /\ u[Len(t) + 1] = s[i + 1] /\ \A j \in 1 .. Len(t) : u[j] = t[j]
      BY <2>1, <2>3
    <3>2. Members(u) = Members(t) \cup {s[i + 1]}
      <4>1. \A j : j \in 1 .. Len(u) <=> j \in 1 .. Len(t) \/ j = Len(t) + 1
        BY <3>1, <2>1
      <4>. HIDE DEF t, u
      <4>. QED BY <3>1, <4>1 DEF Members
    <3>3. ASSUME Distinct(s) PROVE Distinct(u)
      <4>1. s[i + 1] \notin Part(i)
        BY <3>3, <2>1 DEF Distinct
      <4>2. s[i + 1] \notin Members(t)
        BY <2>1, <4>1
      <4>3. Distinct(t)
        BY <2>1, <3>3
      <4>4. Len(t) \in Nat
        BY <2>1
      <4>. HIDE DEF t, u
      <4>. QED BY <3>1, <4>2, <4>3, <4>4 DEF Distinct, Members
    <3>4. Right(u, i + 1)
      <4>1. \A x : x \in Members(t) <=> x \in Part(i) /\ x \in S
        BY <2>1
      <4>. HIDE DEF t, u, Part
      <4>. QED BY <3>1, <3>2, <3>3, <2>4, <2>6, <4>1
    <3>5. g[i + 1] = u
      BY <2>2, <2>6
    <3>. QED BY <3>4, <3>5, <2>1
  <2>. QED BY <2>5, <2>6
<1>5. n \in Good
  <2>1. n \in 0 .. n
    BY <1>0
  <2>. HIDE DEF Good, n
  <2>. QED BY <1>0, <1>3, <1>4, <2>1, CountUp
<1>. QED BY <1>2, <1>5 DEF Members

(* The first element in S of a sequence that has one is one.               *)
LEMMA FirstOfFacts ==
  ASSUME NEW V, NEW s \in Seq(V), NEW S, Members(s) \cap S # {}
  PROVE  FirstOf(s, S) \in Members(s) /\ FirstOf(s, S) \in S
<1>. DEFINE n == Len(s)
            Good == {i \in 0 .. n : \A j \in 1 .. i : s[j] \notin S}
            First(i) == s[i] \in S /\ \A j \in 1 .. i - 1 : s[j] \notin S
<1>1. n \in Nat /\ DOMAIN s = 1 .. n
  OBVIOUS
<1>2. \E i \in DOMAIN s : First(i)
  <2>1. SUFFICES ASSUME \A i \in 1 .. n : ~First(i) PROVE FALSE
    BY <1>1
  <2>2. 0 \in Good
    BY <1>1
  <2>3. ASSUME NEW i \in 0 .. n - 1, i \in Good PROVE i + 1 \in Good
    <3>1. i + 1 \in 1 .. n /\ i + 1 \in 0 .. n /\ (i + 1) - 1 = i
      BY <1>1
    <3>2. ~First(i + 1)
      BY <2>1, <3>1
    <3>3. s[i + 1] \notin S
      BY <2>3, <3>1, <3>2
    <3>4. \A j \in 1 .. i + 1 : j \in 1 .. i \/ j = i + 1
      BY <1>1
    <3>. QED BY <2>3, <3>1, <3>3, <3>4
  <2>4. n \in Good
    <3>1. n \in 0 .. n
      BY <1>1
    <3>. HIDE DEF Good, n
    <3>. QED BY <1>1, <2>2, <2>3, <3>1, CountUp
  <2>. QED BY <2>4 DEF Members
<1>3. PICK i \in DOMAIN s : First(i) /\ FirstOf(s, S) = s[i]
  BY <1>2 DEF FirstOf
<1>. QED BY <1>1, <1>3 DEF Members
=============================================================================
