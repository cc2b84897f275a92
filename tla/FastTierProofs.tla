--------------------------- MODULE FastTierProofs ---------------------------
(***************************************************************************)
(* The fast tier under the read path's data: every operation keeps its     *)
(* slots conserved and its resident blocks whole, whatever the numbers of  *)
(* slabs, slots and objects.                                               *)
(***************************************************************************)
EXTENDS ReadPath, CollectionsProofs

-----------------------------------------------------------------------------
(* What joining, cutting and extending sequences yields, element by        *)
(* element.                                                                *)

LEMMA JoinFacts ==
  ASSUME NEW S, NEW u \in Seq(S), NEW v \in Seq(S)
  PROVE  /\ u \o v \in Seq(S) /\ Len(u \o v) = Len(u) + Len(v)
         /\ \A i \in 1 .. Len(u) + Len(v) :
              (u \o v)[i] = IF i <= Len(u) THEN u[i] ELSE v[i - Len(u)]
OBVIOUS

LEMMA CutFacts ==
  ASSUME NEW S, NEW u, NEW a \in Int, NEW b \in Int, \A i \in a .. b : u[i] \in S
  PROVE  /\ SubSeq(u, a, b) \in Seq(S)
         /\ Len(SubSeq(u, a, b)) = IF a <= b THEN b - a + 1 ELSE 0
         /\ \A i \in 1 .. b - a + 1 : SubSeq(u, a, b)[i] = u[a + i - 1]
OBVIOUS

LEMMA RestFacts ==
  ASSUME NEW S, NEW u \in Seq(S), u # <<>>
  PROVE  /\ Tail(u) \in Seq(S) /\ Len(Tail(u)) = Len(u) - 1
         /\ \A i \in 1 .. Len(Tail(u)) : Tail(u)[i] = u[i + 1]
OBVIOUS

LEMMA ExtendFacts ==
  ASSUME NEW S, NEW u \in Seq(S), NEW x \in S
  PROVE  /\ Append(u, x) \in Seq(S) /\ Len(Append(u, x)) = Len(u) + 1
         /\ Append(u, x)[Len(u) + 1] = x
         /\ \A i \in 1 .. Len(u) : Append(u, x)[i] = u[i]
OBVIOUS

-----------------------------------------------------------------------------
(* Sequences that hold every element of a set once.                        *)

LEMMA RangeMembers ==
  ASSUME NEW V, NEW s \in Seq(V)
  PROVE  Range(s) = Members(s)
BY DEF Range, Members

LEMMA OnceMeans ==
  ASSUME NEW V, NEW s \in Seq(V), NEW A
  PROVE  OnceEach(s, A) <=> Members(s) = A /\ Distinct(s)
BY RangeMembers DEF OnceEach, Distinct

LEMMA KeptOnce ==
  ASSUME NEW V, NEW s \in Seq(V), NEW A, OnceEach(s, A), NEW S
  PROVE  Kept(s, S) \in Seq(V) /\ OnceEach(Kept(s, S), A \cap S)
<1>1. Members(s) = A /\ Distinct(s)
  BY OnceMeans
<1>2. /\ Kept(s, S) \in Seq(V) /\ Distinct(Kept(s, S))
      /\ \A x : x \in Members(Kept(s, S)) <=> x \in A /\ x \in S
  BY <1>1, KeptFacts
<1>3. Members(Kept(s, S)) = A \cap S
  BY <1>2
<1>. HIDE DEF OnceEach
<1>. QED BY Zenon, <1>2, <1>3, OnceMeans

LEMMA AppendOnce ==
  ASSUME NEW V, NEW s \in Seq(V), NEW x \in V, NEW A, OnceEach(s, A), x \notin A
  PROVE  Append(s, x) \in Seq(V) /\ OnceEach(Append(s, x), A \cup {x})
<1>. DEFINE t == Append(s, x)
            n == Len(s)
<1>1. Members(s) = A /\ Distinct(s)
  BY OnceMeans
<1>2. /\ t \in Seq(V) /\ n \in Nat /\ Len(t) = n + 1
      /\ t[n + 1] = x /\ \A i \in 1 .. n : t[i] = s[i]
  OBVIOUS
<1>3. \A i : i \in 1 .. n + 1 <=> i \in 1 .. n \/ i = n + 1
  BY <1>2
<1>. HIDE DEF t
<1>4. Members(t) = A \cup {x}
  BY <1>1, <1>2, <1>3 DEF Members
<1>5. Distinct(t)
  <2>1. \A i \in 1 .. n : s[i] # x
    BY <1>1 DEF Members
  <2>. HIDE DEF n
  <2>. QED BY <1>1, <1>2, <1>3, <2>1 DEF Distinct, n
<1>6. OnceEach(t, A \cup {x})
  BY Zenon, <1>2, <1>4, <1>5, OnceMeans
<1>. QED BY <1>2, <1>6 DEF t

LEMMA FrontOnce ==
  ASSUME NEW V, NEW s \in Seq(V), s # <<>>, NEW A, OnceEach(s, A)
  PROVE  /\ SubSeq(s, 1, Len(s) - 1) \in Seq(V) /\ s[Len(s)] \in A
         /\ OnceEach(SubSeq(s, 1, Len(s) - 1), A \ {s[Len(s)]})
<1>. DEFINE n == Len(s)
            t == SubSeq(s, 1, n - 1)
            last == s[n]
<1>1. Members(s) = A /\ Distinct(s)
  BY OnceMeans
<1>2. n \in Nat /\ n >= 1 /\ n \in 1 .. n /\ last = s[n]
  OBVIOUS
<1>3. t \in Seq(V) /\ Len(t) = n - 1 /\ \A i \in 1 .. n - 1 : t[i] = s[i]
  <2>1. \A i \in 1 .. n - 1 : s[i] \in V
    BY <1>2
  <2>2. /\ SubSeq(s, 1, n - 1) \in Seq(V)
        /\ Len(SubSeq(s, 1, n - 1)) = IF 1 <= n - 1 THEN n - 1 - 1 + 1 ELSE 0
        /\ \A i \in 1 .. n - 1 - 1 + 1 : SubSeq(s, 1, n - 1)[i] = s[1 + i - 1]
    BY <1>2, <2>1, CutFacts
  <2>3. t = SubSeq(s, 1, n - 1)
    OBVIOUS
  <2>. HIDE DEF t, n
  <2>. QED BY <1>2, <2>2, <2>3
<1>4. \A i : i \in 1 .. n <=> i \in 1 .. n - 1 \/ i = n
  BY <1>2
<1>5. n \notin 1 .. n - 1
  BY <1>2
<1>. HIDE DEF t, last
<1>6. last \in A
  BY <1>1, <1>2 DEF Members
<1>7. Distinct(t)
  BY <1>1, <1>3, <1>4 DEF Distinct
<1>8. Members(t) = A \ {last}
  <2>1. \A i \in 1 .. n - 1 : s[i] # s[n]
    BY <1>1, <1>2, <1>4, <1>5 DEF Distinct
  <2>2. Members(t) = {s[i] : i \in 1 .. n - 1}
    BY <1>3 DEF Members
  <2>3. A = {s[i] : i \in 1 .. n}
    BY <1>1 DEF Members
  <2>. HIDE DEF n
  <2>. QED BY <1>2, <1>4, <2>1, <2>2, <2>3
<1>9. OnceEach(t, A \ {last})
  BY Zenon, <1>3, <1>7, <1>8, OnceMeans
<1>. QED BY <1>3, <1>6, <1>9 DEF t, last, n

-----------------------------------------------------------------------------
(* The bytes of a range.                                                   *)

UnitsOf(o) == {<<o, u>> : u \in Int}

LEMMA BytesFacts ==
  ASSUME NEW o, NEW a \in Int, NEW b \in Int, a <= b
  PROVE  /\ Reference!Bytes(o, a, b) \in Seq(UnitsOf(o))
         /\ Len(Reference!Bytes(o, a, b)) = b - a
         /\ \A i \in 1 .. b - a : Reference!Bytes(o, a, b)[i] = <<o, a + i - 1>>
<1>1. b - a \in Nat
  OBVIOUS
<1>2. \A i \in 1 .. b - a : <<o, a + i - 1>> \in UnitsOf(o)
  BY DEF UnitsOf
<1>. DEFINE s == [i \in 1 .. b - a |-> <<o, a + i - 1>>]
<1>3. s \in [1 .. b - a -> UnitsOf(o)]
  BY <1>2
<1>4. s \in Seq(UnitsOf(o)) /\ Len(s) = b - a
  <2>. HIDE DEF s
  <2>. QED BY <1>1, <1>3
<1>5. \A i \in 1 .. b - a : s[i] = <<o, a + i - 1>>
  OBVIOUS
<1>. QED BY <1>4, <1>5 DEF Reference!Bytes

LEMMA SameBytes ==
  ASSUME NEW o, NEW a \in Int, NEW b \in Int, a <= b, NEW V, NEW s \in Seq(V),
         Len(s) = b - a, \A i \in 1 .. b - a : s[i] = <<o, a + i - 1>>
  PROVE  s = Reference!Bytes(o, a, b)
<1>1. DOMAIN s = 1 .. b - a
  OBVIOUS
<1>2. s = [i \in 1 .. b - a |-> s[i]]
  BY <1>1
<1>. QED BY <1>2 DEF Reference!Bytes

LEMMA BytesJoin ==
  ASSUME NEW o, NEW a \in Int, NEW b \in Int, NEW c \in Int, a <= b, b <= c
  PROVE  Reference!Bytes(o, a, b) \o Reference!Bytes(o, b, c) = Reference!Bytes(o, a, c)
<1>. DEFINE V == UnitsOf(o)
            s == Reference!Bytes(o, a, b)
            t == Reference!Bytes(o, b, c)
<1>1. /\ s \in Seq(V) /\ Len(s) = b - a /\ \A i \in 1 .. b - a : s[i] = <<o, a + i - 1>>
      /\ t \in Seq(V) /\ Len(t) = c - b /\ \A i \in 1 .. c - b : t[i] = <<o, b + i - 1>>
  BY Zenon, BytesFacts
<1>. HIDE DEF s, t, V
<1>. DEFINE u == s \o t
<1>2. /\ u \in Seq(V) /\ Len(u) = Len(s) + Len(t)
      /\ \A i \in 1 .. Len(s) + Len(t) : u[i] = IF i <= Len(s) THEN s[i] ELSE t[i - Len(s)]
  BY Zenon, <1>1, JoinFacts
<1>. HIDE DEF u
<1>3. ASSUME NEW i \in 1 .. c - a PROVE u[i] = <<o, a + i - 1>>
  <2>1. CASE i <= b - a
    <3>1. i \in 1 .. b - a /\ i \in 1 .. Len(s) + Len(t) /\ i <= Len(s)
      BY <1>1, <2>1
    <3>2. u[i] = s[i]
      BY <1>2, <3>1
    <3>. QED BY <1>1, <3>1, <3>2
  <2>2. CASE i > b - a
    <3>. DEFINE j == i - (b - a)
    <3>1. u[i] = t[j] /\ j \in 1 .. c - b /\ b + j - 1 = a + i - 1
      BY <1>1, <1>2, <2>2
    <3>2. t[j] = <<o, b + j - 1>>
      BY Zenon, <1>1, <3>1
    <3>. HIDE DEF j
    <3>. QED BY <3>1, <3>2
  <2>. QED BY <2>1, <2>2
<1>4. a <= c /\ Len(u) = c - a
  BY SMTT(20), <1>1, <1>2
<1>5. u = Reference!Bytes(o, a, c)
  BY Zenon, <1>2, <1>3, <1>4, SameBytes
<1>. QED BY <1>5 DEF u, s, t

LEMMA BytesPart ==
  ASSUME NEW o, NEW a \in Int, NEW b \in Int, NEW lo \in Nat, NEW hi \in Nat,
         lo <= hi, a + hi <= b
  PROVE  SubSeq(Reference!Bytes(o, a, b), lo + 1, hi) = Reference!Bytes(o, a + lo, a + hi)
<1>. DEFINE V == UnitsOf(o)
            s == Reference!Bytes(o, a, b)
            t == SubSeq(s, lo + 1, hi)
<1>1. s \in Seq(V) /\ Len(s) = b - a /\ \A i \in 1 .. b - a : s[i] = <<o, a + i - 1>>
  <2>1. a <= b
    OBVIOUS
  <2>. QED BY <2>1, BytesFacts
<1>. HIDE DEF s, V
<1>2. /\ t \in Seq(V) /\ Len(t) = hi - lo
      /\ \A i \in 1 .. hi - lo : t[i] = s[lo + i] /\ lo + i \in 1 .. b - a
  <2>1. \A i \in lo + 1 .. hi : s[i] \in V
    BY <1>1
  <2>2. /\ t \in Seq(V) /\ Len(t) = IF lo + 1 <= hi THEN hi - (lo + 1) + 1 ELSE 0
        /\ \A i \in 1 .. hi - (lo + 1) + 1 : t[i] = s[lo + 1 + i - 1]
    BY <2>1, CutFacts
  <2>. HIDE DEF t
  <2>3. hi - (lo + 1) + 1 = hi - lo
    OBVIOUS
  <2>4. \A i \in 1 .. hi - lo : lo + 1 + i - 1 = lo + i /\ lo + i \in 1 .. b - a
    OBVIOUS
  <2>. QED BY <2>2, <2>3, <2>4
<1>. HIDE DEF t
<1>3. \A i \in 1 .. hi - lo : t[i] = <<o, (a + lo) + i - 1>>
  <2>1. \A i \in 1 .. hi - lo : t[i] = <<o, a + (lo + i) - 1>>
    BY Zenon, <1>1, <1>2
  <2>2. \A i \in 1 .. hi - lo : a + (lo + i) - 1 = (a + lo) + i - 1
    OBVIOUS
  <2>. QED BY <2>1, <2>2
<1>4. hi - lo = (a + hi) - (a + lo) /\ a + lo <= a + hi /\ a + lo \in Int /\ a + hi \in Int
  OBVIOUS
<1>5. Len(t) = (a + hi) - (a + lo) /\ \A i \in 1 .. (a + hi) - (a + lo) : t[i] = <<o, (a + lo) + i - 1>>
  BY <1>2, <1>3, <1>4
<1>. DEFINE c == a + lo
            d == a + hi
<1>6. c \in Int /\ d \in Int /\ c <= d /\ Len(t) = d - c /\ \A i \in 1 .. d - c : t[i] = <<o, c + i - 1>>
  BY <1>4, <1>5
<1>. HIDE DEF c, d
<1>7. t = Reference!Bytes(o, c, d)
  BY <1>2, <1>6, SameBytes
<1>. QED BY <1>7 DEF c, d, t, s

-----------------------------------------------------------------------------
(* Arithmetic of blocks.                                                   *)

LEMMA NextBlock ==
  ASSUME NEW i \in Int, NEW b \in Int
  PROVE  i * b \in Int /\ (i + 1) * b = i * b + b
OBVIOUS

LEMMA BlockStarts ==
  ASSUME NEW i \in Nat, NEW b \in Nat \ {0}
  PROVE  i * b \in Nat /\ i <= i * b
OBVIOUS

LEMMA BlockHolding ==
  ASSUME NEW a \in Nat, NEW b \in Nat \ {0}
  PROVE  a \div b \in Nat /\ (a \div b) * b <= a /\ a < (a \div b) * b + b
OBVIOUS

(* The block a key names: where it begins and ends, and its bytes.         *)
KeyData(k) == BlockData(k[1], k[2])
From(k) == k[2] * BlockUnits
To(k) == Smaller(From(k) + BlockUnits, SizeOf[k[1]])
Units == {Blank} \cup (Objects \X Int)

LEMMA KeyMeans ==
  ASSUME NEW o, NEW i
  PROVE  Key(o, i) \in Keys <=> /\ o \in Objects /\ i \in Nat
                                /\ i * BlockUnits < SizeOf[o]
<1>1. Key(o, i) \in Keys <=> o \in Objects /\ i \in Blocks(o)
  BY DEF Keys, Key
<1>2. ASSUME o \in Objects PROVE SizeOf[o] \in Nat
  BY <1>2, PathAssumption
<1>3. ASSUME o \in Objects, i \in Nat, i * BlockUnits < SizeOf[o]
      PROVE  i \in 0 .. SizeOf[o]
  BY <1>2, <1>3, BlockStarts, TierAssumption
<1>4. ASSUME o \in Objects, i \in 0 .. SizeOf[o] PROVE i \in Nat
  BY <1>2, <1>4
<1>. QED BY <1>1, <1>3, <1>4 DEF Blocks

LEMMA KeyIsPair ==
  ASSUME NEW k \in Keys
  PROVE  /\ k = Key(k[1], k[2]) /\ k[1] \in Objects /\ k[2] \in Nat
         /\ From(k) \in Nat /\ To(k) \in Nat
         /\ From(k) < To(k) /\ To(k) <= From(k) + BlockUnits
         /\ To(k) <= SizeOf[k[1]] /\ SizeOf[k[1]] \in Nat /\ From(k) < SizeOf[k[1]]
<1>1. PICK o \in Objects : \E i \in Blocks(o) : k = Key(o, i)
  BY DEF Keys
<1>2. k = Key(k[1], k[2])
  BY <1>1 DEF Key
<1>3. k[1] \in Objects /\ k[2] \in Nat /\ k[2] * BlockUnits < SizeOf[k[1]]
  BY <1>2, KeyMeans
<1>4. SizeOf[k[1]] \in Nat /\ BlockUnits \in Nat \ {0} /\ From(k) \in Nat
  BY <1>3, PathAssumption, TierAssumption, BlockStarts DEF From
<1>5. From(k) < SizeOf[k[1]]
  BY <1>3 DEF From
<1>. QED BY <1>2, <1>3, <1>4, <1>5 DEF To, Smaller

LEMMA KeyDataFacts ==
  ASSUME NEW k \in Keys
  PROVE  /\ KeyData(k) = Reference!Bytes(k[1], From(k), To(k))
         /\ KeyData(k) \in Seq(Units)
         /\ Len(KeyData(k)) = To(k) - From(k) /\ Len(KeyData(k)) \in 1 .. BlockUnits
         /\ \A u \in 1 .. Len(KeyData(k)) : KeyData(k)[u] = <<k[1], From(k) + u - 1>>
<1>. DEFINE d == Reference!Bytes(k[1], From(k), To(k))
            a == From(k)
            b == To(k)
<1>1. (k[2] + 1) * BlockUnits = From(k) + BlockUnits
  BY KeyIsPair, NextBlock, TierAssumption DEF From
<1>2. KeyData(k) = d
  BY <1>1 DEF KeyData, BlockData, From, To
<1>3. /\ a \in Nat /\ b \in Nat /\ a < b /\ b <= a + BlockUnits
      /\ k[1] \in Objects /\ BlockUnits \in Nat
  BY KeyIsPair, TierAssumption
<1>. HIDE DEF a, b, d
<1>. DEFINE o == k[1]
            e == Reference!Bytes(o, a, b)
<1>7. d = e
  BY DEF d, a, b
<1>. HIDE DEF o
<1>8. /\ e \in Seq(UnitsOf(o)) /\ Len(e) = b - a
      /\ \A i \in 1 .. b - a : e[i] = <<o, a + i - 1>>
  <2>1. a \in Int /\ b \in Int /\ a <= b
    BY <1>3
  <2>. QED BY Zenon, <2>1, BytesFacts
<1>. HIDE DEF e
<1>4. /\ d \in Seq(UnitsOf(k[1])) /\ Len(d) = b - a
      /\ \A i \in 1 .. b - a : d[i] = <<k[1], a + i - 1>>
  BY <1>7, <1>8 DEF o
<1>5. b - a \in 1 .. BlockUnits
  BY <1>3
<1>6. d \in Seq(Units)
  <2>1. \A u \in Int : <<k[1], u>> \in Units
    BY <1>3 DEF Units
  <2>2. \A i \in 1 .. b - a : a + i - 1 \in Int
    BY <1>3
  <2>3. \A i \in 1 .. Len(d) : d[i] \in Units
    BY Zenon, <1>4, <2>1, <2>2
  <2>. QED BY <1>4, <2>3
<1>9. Len(d) \in 1 .. BlockUnits /\ \A u \in 1 .. Len(d) : d[u] = <<k[1], a + u - 1>>
  BY <1>4, <1>5
<1>10. From(k) = a /\ To(k) = b /\ d = Reference!Bytes(k[1], From(k), To(k))
  BY DEF a, b, d
<1>. HIDE DEF KeyData
<1>. QED BY <1>2, <1>4, <1>6, <1>9, <1>10

-----------------------------------------------------------------------------
(* The tier's invariant.                                                   *)

Used(s) == {resident[k].slot : k \in On(s)}
AtPlace(k, slab, slot) == resident[k].slab = slab /\ resident[k].slot = slot

Shape ==
  /\ generation \in Nat
  /\ order \in Seq(Slabs) /\ Members(order) \cap revoked = {}
  /\ free \in [Slabs -> Seq(Slots)]
  /\ disk \in [Slabs -> [Slots -> [1 .. BlockUnits -> Units]]]

(* A resident block is on a slab held, in a slot of it, whole.             *)
Placed(k) ==
  /\ k \in Keys
  /\ resident[k].slab \in Members(order) /\ resident[k].slot \in Slots
  /\ resident[k].gen \in Nat /\ resident[k].gen <= generation
  /\ resident[k].length = Len(KeyData(k))

AllPlaced == \A k \in DOMAIN resident : Placed(k)

Apart ==
  \A k, l \in DOMAIN resident : AtPlace(k, resident[l].slab, resident[l].slot) => k = l

RestFree == \A s \in Members(order) : OnceEach(free[s], Slots \ Used(s))

AllRecent == recency \in Seq(Keys) /\ OnceEach(recency, DOMAIN resident)

TierInv == Shape /\ AllPlaced /\ Apart /\ RestFree /\ AllRecent /\ ResidentBlocksIntact

(* What no step does: give an entry of the tier another placement without  *)
(* a generation that is new.                                               *)
Ages ==
  /\ generation' \in Nat /\ generation <= generation'
  /\ \A k \in DOMAIN resident' :
       \/ k \in DOMAIN resident /\ resident'[k] = resident[k]
       \/ resident'[k].gen > generation

-----------------------------------------------------------------------------
(* Where a block is put (placeLocked): in a slot nothing resident is in,   *)
(* or in the one of the block that leaves it.                              *)
GoodPlace(p) ==
  /\ p.slab \in Members(order) /\ p.slab \in Slabs /\ p.slot \in Slots
  /\ p.victim \subseteq DOMAIN resident
  /\ \A k \in DOMAIN resident : AtPlace(k, p.slab, p.slot) <=> k \in p.victim
  /\ p.victim = {} => free[p.slab] # <<>> /\ p.slot = free[p.slab][Len(free[p.slab])]
  /\ p.victim # {} => \E v : p.victim = {v}

LEMMA OrderMembers ==
  ASSUME Shape
  PROVE  Range(order) = Members(order) /\ Members(order) \subseteq Slabs
<1>1. order \in Seq(Slabs)
  BY DEF Shape
<1>2. Members(order) \subseteq Slabs
  BY <1>1 DEF Members
<1>. QED BY <1>1, <1>2, RangeMembers

LEMMA FreePlace ==
  ASSUME TierInv, HasFree # {}, NEW f, f = FirstOf(order, HasFree), NEW p,
         p = [slab |-> f, slot |-> free[f][Len(free[f])], victim |-> {}]
  PROVE  GoodPlace(p)
<1>1. order \in Seq(Slabs) /\ free \in [Slabs -> Seq(Slots)] /\ Range(order) = Members(order)
      /\ Members(order) \subseteq Slabs
  BY OrderMembers DEF TierInv, Shape
<1>2. Members(order) \cap HasFree # {}
  BY <1>1 DEF HasFree
<1>3. f \in Members(order) /\ f \in HasFree
  BY <1>1, <1>2, FirstOfFacts
<1>4. f \in Slabs /\ free[f] # <<>> /\ free[f] \in Seq(Slots) /\ OnceEach(free[f], Slots \ Used(f))
  BY Zenon, <1>1, <1>3 DEF HasFree, TierInv, RestFree
<1>5. free[f][Len(free[f])] \in Slots \ Used(f)
  BY Zenon, <1>4, FrontOnce
<1>6. \A k \in DOMAIN resident : ~ AtPlace(k, f, free[f][Len(free[f])])
  BY <1>5 DEF AtPlace, Used, On
<1>7. p.slab = f /\ p.slot = free[f][Len(free[f])] /\ p.victim = {}
  OBVIOUS
<1>. QED BY <1>3, <1>4, <1>5, <1>6, <1>7 DEF GoodPlace

LEMMA EvictedPlace ==
  ASSUME TierInv, Occupied # {}, NEW o, o = FirstOf(order, Occupied),
         NEW v, v = FirstOf(recency, On(o)), NEW p,
         p = [slab |-> o, slot |-> resident[v].slot, victim |-> {v}]
  PROVE  GoodPlace(p)
<1>1. order \in Seq(Slabs) /\ Range(order) = Members(order) /\ Members(order) \subseteq Slabs
  BY OrderMembers DEF TierInv, Shape
<1>2. Members(order) \cap Occupied # {}
  BY <1>1 DEF Occupied
<1>3. o \in Members(order) /\ o \in Occupied
  BY <1>1, <1>2, FirstOfFacts
<1>4. recency \in Seq(Keys) /\ Members(recency) = DOMAIN resident
  BY OnceMeans DEF TierInv, AllRecent
<1>5. Members(recency) \cap On(o) # {}
  BY <1>3, <1>4 DEF Occupied, On
<1>6. v \in DOMAIN resident /\ v \in On(o)
  BY <1>4, <1>5, FirstOfFacts
<1>7. resident[v].slab = o /\ resident[v].slot \in Slots
  BY <1>6 DEF On, TierInv, AllPlaced, Placed
<1>8. \A k \in DOMAIN resident : AtPlace(k, o, resident[v].slot) <=> k = v
  BY <1>6, <1>7 DEF TierInv, Apart, AtPlace
<1>9. p.slab = o /\ p.slot = resident[v].slot /\ p.victim = {v}
  OBVIOUS
<1>. QED BY Zenon, <1>1, <1>3, <1>6, <1>7, <1>8, <1>9 DEF GoodPlace

LEMMA PlaceFacts ==
  ASSUME TierInv, NEW pre, pre \in BOOLEAN, NEW p, p = Place(pre), p # NoPlace
  PROVE  GoodPlace(p) /\ (pre => p.victim = {})
<1>. DEFINE f == FirstOf(order, HasFree)
            o == FirstOf(order, Occupied)
            v == FirstOf(recency, On(o))
<1>1. CASE HasFree # {}
  <2>1. p = [slab |-> f, slot |-> free[f][Len(free[f])], victim |-> {}]
    BY <1>1 DEF Place
  <2>2. p.victim = {}
    BY <2>1
  <2>. HIDE DEF f
  <2>3. GoodPlace(p)
    BY <1>1, <2>1, FreePlace DEF f
  <2>. QED BY <2>2, <2>3
<1>2. CASE HasFree = {} /\ ~ pre /\ Occupied # {}
  <2>1. p = [slab |-> o, slot |-> resident[v].slot, victim |-> {v}]
    BY <1>2 DEF Place, MayEvict
  <2>2. GoodPlace(p)
    BY <1>2, <2>1, EvictedPlace
  <2>. QED BY <1>2, <2>2
<1>3. CASE HasFree = {} /\ (pre \/ Occupied = {})
  BY <1>3 DEF Place, MayEvict
<1>. QED BY <1>1, <1>2, <1>3

-----------------------------------------------------------------------------
(* A block written to the device changes the slot it is written to only.   *)
LEMMA WrittenFacts ==
  ASSUME Shape, NEW p, p.slab \in Slabs, p.slot \in Slots,
         NEW d \in Seq(Units), Len(d) <= BlockUnits
  PROVE  /\ Written(p, d) \in [Slabs -> [Slots -> [1 .. BlockUnits -> Units]]]
         /\ \A u \in 1 .. Len(d) : Written(p, d)[p.slab][p.slot][u] = d[u]
         /\ \A s \in Slabs, n \in Slots :
              s # p.slab \/ n # p.slot => Written(p, d)[s][n] = disk[s][n]
<1>. DEFINE B == 1 .. BlockUnits
            a == p.slab
            m == p.slot
            old == disk[a][m]
            new == [u \in B |-> IF u <= Len(d) THEN d[u] ELSE old[u]]
            D == [disk EXCEPT ![a][m] = new]
<1>1. disk \in [Slabs -> [Slots -> [B -> Units]]]
  BY DEF Shape
<1>2. Written(p, d) = D
  BY DEF Written
<1>3. BlockUnits \in Nat /\ Len(d) \in Nat
  BY TierAssumption
<1>4. new \in [B -> Units] /\ \A u \in 1 .. Len(d) : new[u] = d[u]
  <2>1. old \in [B -> Units]
    BY <1>1
  <2>2. \A u \in B : u <= Len(d) => u \in 1 .. Len(d)
    BY <1>3
  <2>3. \A u \in 1 .. Len(d) : d[u] \in Units /\ u \in B /\ u <= Len(d)
    BY <1>3
  <2>. HIDE DEF old, B
  <2>. QED BY <2>1, <2>2, <2>3
<1>. HIDE DEF new, B
<1>5. D \in [Slabs -> [Slots -> [B -> Units]]] /\ D[a][m] = new
  BY <1>1, <1>4
<1>6. \A s \in Slabs, n \in Slots : s # a \/ n # m => D[s][n] = disk[s][n]
  BY SMTT(20), <1>1
<1>. HIDE DEF D
<1>. QED BY <1>2, <1>4, <1>5, <1>6 DEF B

(* What is resident after a write over p is what was, but for the victim   *)
(* and the block written, and all of it is on the device.                  *)
LEMMA IntactAfter ==
  ASSUME TierInv, NEW p, GoodPlace(p), NEW k \in Keys,
         disk' = Written(p, KeyData(k)),
         \A x \in DOMAIN resident' :
           \/ x \in DOMAIN resident \ p.victim /\ resident'[x] = resident[x]
           \/ /\ x = k /\ resident'[x].slab = p.slab /\ resident'[x].slot = p.slot
              /\ resident'[x].length = Len(KeyData(k))
  PROVE  /\ disk' \in [Slabs -> [Slots -> [1 .. BlockUnits -> Units]]]
         /\ ResidentBlocksIntact'
<1>. DEFINE d == KeyData(k)
<1>1. /\ d \in Seq(Units) /\ Len(d) \in 1 .. BlockUnits
      /\ \A u \in 1 .. Len(d) : d[u] = <<k[1], k[2] * BlockUnits + u - 1>>
  BY KeyDataFacts DEF From
<1>2. Shape /\ p.slab \in Slabs /\ p.slot \in Slots /\ Len(d) <= BlockUnits
  BY SMTT(20), <1>1, TierAssumption DEF TierInv, GoodPlace
<1>. HIDE DEF d
<1>3. /\ disk' \in [Slabs -> [Slots -> [1 .. BlockUnits -> Units]]]
      /\ \A u \in 1 .. Len(d) : disk'[p.slab][p.slot][u] = d[u]
      /\ \A s \in Slabs, n \in Slots :
           s # p.slab \/ n # p.slot => disk'[s][n] = disk[s][n]
  <2>1. disk' = Written(p, d)
    BY SMTT(20) DEF d
  <2>. QED BY SMTT(20), <1>1, <1>2, <2>1, WrittenFacts
<1>4. ASSUME NEW x \in DOMAIN resident', NEW u \in 1 .. resident'[x].length
      PROVE  disk'[resident'[x].slab][resident'[x].slot][u] = <<x[1], x[2] * BlockUnits + u - 1>>
  <2>1. CASE x \in DOMAIN resident \ p.victim /\ resident'[x] = resident[x]
    <3>1. /\ resident[x].slab \in Slabs /\ resident[x].slot \in Slots
          /\ disk[resident[x].slab][resident[x].slot][u] = <<x[1], x[2] * BlockUnits + u - 1>>
      BY Zenon, <2>1, OrderMembers DEF TierInv, AllPlaced, Placed, ResidentBlocksIntact
    <3>2. resident[x].slab # p.slab \/ resident[x].slot # p.slot
      BY <2>1 DEF GoodPlace, AtPlace
    <3>3. disk'[resident[x].slab][resident[x].slot] = disk[resident[x].slab][resident[x].slot]
      BY ZenonT(30), <1>3, <3>1, <3>2
    <3>. QED BY Zenon, <2>1, <3>1, <3>3
  <2>2. CASE /\ x = k /\ resident'[x].slab = p.slab /\ resident'[x].slot = p.slot
             /\ resident'[x].length = Len(KeyData(k))
    BY <1>1, <1>3, <2>2 DEF d
  <2>. QED BY ZenonT(30), <2>1, <2>2
<1>. QED BY <1>3, <1>4 DEF ResidentBlocksIntact

(* Blocks forgotten: what is left is as it was.                            *)
LEMMA FewerFacts ==
  ASSUME TierInv, NEW ks, resident' = WithoutKeys(ks), recency' = NotRecent(ks),
         generation' = generation
  PROVE  /\ DOMAIN resident' = DOMAIN resident \ ks
         /\ \A x \in DOMAIN resident' : x \in DOMAIN resident /\ resident'[x] = resident[x]
         /\ Apart' /\ AllRecent' /\ Ages
<1>1. /\ DOMAIN resident' = DOMAIN resident \ ks
      /\ \A x \in DOMAIN resident' : x \in DOMAIN resident /\ resident'[x] = resident[x]
  BY DEF WithoutKeys, Restrict
<1>2. Apart'
  BY <1>1 DEF TierInv, Apart, AtPlace
<1>3. AllRecent'
  <2>. DEFINE S == DOMAIN resident \ ks
  <2>1. recency \in Seq(Keys) /\ OnceEach(recency, DOMAIN resident)
    BY DEF TierInv, AllRecent
  <2>2. recency' = Kept(recency, S)
    BY DEF NotRecent
  <2>. HIDE DEF S
  <2>3. recency' \in Seq(Keys) /\ OnceEach(recency', DOMAIN resident \cap S)
    BY <2>1, <2>2, KeptOnce
  <2>4. DOMAIN resident \cap S = DOMAIN resident'
    BY <1>1 DEF S
  <2>5. OnceEach(recency', DOMAIN resident')
    BY <2>3, <2>4
  <2>. QED BY Zenon, <2>3, <2>5 DEF AllRecent, OnceEach
<1>4. Ages
  BY SMTT(20), <1>1 DEF Ages, TierInv, Shape
<1>. QED BY <1>1, <1>2, <1>3, <1>4

(* One block forgotten, its slot given back (Read, Admit).                 *)
LEMMA OneFewer ==
  ASSUME TierInv, NEW v \in DOMAIN resident,
         resident' = WithoutKeys({v}), recency' = NotRecent({v}), generation' = generation,
         free' = [free EXCEPT ![resident[v].slab] = Append(@, resident[v].slot)],
         order' = order
  PROVE  free' \in [Slabs -> Seq(Slots)] /\ AllPlaced' /\ RestFree'
<1>0. PICK a, n : a = resident[v].slab /\ n = resident[v].slot
  OBVIOUS
<1>1. /\ DOMAIN resident' = DOMAIN resident \ {v}
      /\ \A x \in DOMAIN resident' : x \in DOMAIN resident /\ resident'[x] = resident[x]
  BY Zenon, FewerFacts
<1>2. AllPlaced'
  BY Zenon, <1>1 DEF TierInv, AllPlaced, Placed
<1>3. /\ a \in Members(order) /\ a \in Slabs /\ n \in Slots
      /\ free \in [Slabs -> Seq(Slots)] /\ Members(order) \subseteq Slabs
  BY <1>0, OrderMembers DEF TierInv, AllPlaced, Placed, Shape
<1>4. \A s : On(s)' = On(s) \ {v}
  BY Zenon, <1>1 DEF On
<1>5. n \in Used(a) /\ Used(a)' = Used(a) \ {n}
  <2>1. \A x \in On(a) : x # v => resident[x].slot # n
    BY <1>0 DEF TierInv, Apart, AtPlace, On
  <2>2. Used(a)' = {resident[x].slot : x \in On(a) \ {v}}
    <3>1. Used(a)' = {resident'[x].slot : x \in On(a)'}
      BY DEF Used
    <3>2. \A x \in On(a) \ {v} : resident'[x].slot = resident[x].slot
      BY Zenon, <1>1 DEF On
    <3>. QED BY Zenon, <1>4, <3>1, <3>2
  <2>3. v \in On(a)
    BY <1>0 DEF On
  <2>. QED BY Zenon, <1>0, <2>1, <2>2, <2>3 DEF Used
<1>6. \A s : s # a => Used(s)' = Used(s)
  <2>1. \A s : s # a => On(s) \ {v} = On(s)
    BY <1>0 DEF On
  <2>2. \A s : s # a => \A x \in On(s) : resident'[x] = resident[x]
    BY Zenon, <1>0, <1>1 DEF On
  <2>. QED BY Zenon, <1>4, <2>1, <2>2 DEF Used
<1>7. free' = [free EXCEPT ![a] = Append(@, n)]
  BY <1>0
<1>8. /\ free[a] \in Seq(Slots) /\ OnceEach(free[a], Slots \ Used(a)) /\ n \notin Slots \ Used(a)
  BY Zenon, <1>3, <1>5 DEF TierInv, RestFree
<1>9. /\ Append(free[a], n) \in Seq(Slots)
      /\ OnceEach(Append(free[a], n), (Slots \ Used(a)) \cup {n})
  BY Zenon, <1>3, <1>8, AppendOnce
<1>10. free' \in [Slabs -> Seq(Slots)]
  BY <1>3, <1>7, <1>9
<1>11. (Slots \ Used(a)) \cup {n} = Slots \ Used(a)'
  BY <1>3, <1>5
<1>12. ASSUME NEW s \in Members(order) PROVE OnceEach(free'[s], Slots \ Used(s)')
  <2>1. CASE s = a
    <3>1. free'[a] = Append(free[a], n)
      BY <1>3, <1>7
    <3>. QED BY Zenon, <1>9, <1>11, <2>1, <3>1
  <2>2. CASE s # a
    <3>1. free'[s] = free[s] /\ Used(s)' = Used(s)
      BY SMTT(20), <1>3, <1>6, <1>7, <2>2
    <3>. QED BY Zenon, <3>1 DEF TierInv, RestFree
  <2>. QED BY <2>1, <2>2
<1>. QED BY <1>2, <1>10, <1>12 DEF RestFree, OnceEach

-----------------------------------------------------------------------------
(* The operations of the tier, one lemma for each.                         *)

LEMMA StillIntact ==
  ASSUME ResidentBlocksIntact, disk' = disk,
         \A x \in DOMAIN resident' : x \in DOMAIN resident /\ resident'[x] = resident[x]
  PROVE  ResidentBlocksIntact'
<1>1. ASSUME NEW x \in DOMAIN resident', NEW u \in 1 .. resident'[x].length
      PROVE  disk'[resident'[x].slab][resident'[x].slot][u] = <<x[1], x[2] * BlockUnits + u - 1>>
  <2>1. x \in DOMAIN resident /\ resident'[x] = resident[x] /\ u \in 1 .. resident[x].length
    OBVIOUS
  <2>2. disk[resident[x].slab][resident[x].slot][u] = <<x[1], x[2] * BlockUnits + u - 1>>
    BY Zenon, <2>1 DEF ResidentBlocksIntact
  <2>. QED BY <2>1, <2>2
<1>. QED BY SMTT(20), <1>1 DEF ResidentBlocksIntact

LEMMA TierIdle ==
  ASSUME TierInv, UNCHANGED <<order, revoked, free, disk, resident, recency, generation>>
  PROVE  TierInv' /\ Ages
<1>1. Shape'
  BY DEF TierInv, Shape
<1>2. AllPlaced' /\ Apart'
  BY DEF TierInv, AllPlaced, Placed, Apart, AtPlace
<1>3. RestFree' /\ AllRecent'
  BY DEF TierInv, RestFree, AllRecent, OnceEach, Used, On
<1>4. ResidentBlocksIntact'
  BY StillIntact DEF TierInv
<1>5. Ages
  BY DEF TierInv, Shape, Ages
<1>. QED BY <1>1, <1>2, <1>3, <1>4, <1>5 DEF TierInv

LEMMA TouchFacts ==
  ASSUME TierInv, NEW k, Touch(k)
  PROVE  TierInv' /\ Ages
<1>1. Shape'
  BY DEF TierInv, Shape, Touch
<1>2. AllPlaced' /\ Apart'
  BY DEF TierInv, AllPlaced, Placed, Apart, AtPlace, Touch
<1>3. RestFree'
  BY SMTT(20) DEF TierInv, RestFree, OnceEach, Used, On, Touch
<1>4. ResidentBlocksIntact'
  BY StillIntact DEF TierInv, Touch
<1>6. Ages
  BY DEF TierInv, Shape, Touch, Ages
<1>5. AllRecent'
  <2>. DEFINE S == DOMAIN resident \ {k}
              t == Kept(recency, S)
  <2>1. recency \in Seq(Keys) /\ OnceEach(recency, DOMAIN resident) /\ k \in DOMAIN resident
    BY DEF TierInv, AllRecent, Touch
  <2>2. k \in Keys
    BY <2>1 DEF TierInv, AllPlaced, Placed
  <2>3. t \in Seq(Keys) /\ OnceEach(t, DOMAIN resident \cap S)
    <3>. HIDE DEF S
    <3>. QED BY <2>1, KeptOnce
  <2>4. DOMAIN resident \cap S = S /\ k \notin S /\ S \cup {k} = DOMAIN resident
    BY Zenon, <2>1
  <2>5. recency' = Append(t, k) /\ resident' = resident
    BY DEF Touch, NotRecent
  <2>. HIDE DEF S, t
  <2>6. OnceEach(t, S)
    BY Zenon, <2>3, <2>4
  <2>7. recency' \in Seq(Keys) /\ OnceEach(recency', S \cup {k})
    BY <2>2, <2>3, <2>4, <2>5, <2>6, AppendOnce
  <2>8. OnceEach(recency', DOMAIN resident')
    BY <2>4, <2>5, <2>7
  <2>. QED BY Zenon, <2>7, <2>8 DEF AllRecent, OnceEach
<1>. QED BY SMTT(20), <1>1, <1>2, <1>3, <1>4, <1>5, <1>6 DEF TierInv

LEMMA DropUnreadFacts ==
  ASSUME TierInv, NEW k, NEW h, Same(k, h) => h = resident[k], DropUnread(k, h)
  PROVE  TierInv' /\ Ages /\ DOMAIN resident' \subseteq DOMAIN resident /\ first' = first
<1>1. CASE Same(k, h)
  <2>1. /\ k \in DOMAIN resident /\ h = resident[k] /\ h.slab \notin revoked
        /\ h.slab \in Slabs
    BY <1>1, OrderMembers DEF Same, TierInv, AllPlaced, Placed, Shape
  <2>2. /\ resident' = WithoutKeys({k}) /\ recency' = NotRecent({k})
        /\ free' = [free EXCEPT ![resident[k].slab] = Append(@, resident[k].slot)]
        /\ UNCHANGED <<order, revoked, disk, first, generation>>
    BY <1>1, <2>1 DEF DropUnread
  <2>3. free' \in [Slabs -> Seq(Slots)] /\ AllPlaced' /\ RestFree'
    BY Zenon, <2>1, <2>2, OneFewer
  <2>4. /\ DOMAIN resident' = DOMAIN resident \ {k}
        /\ \A x \in DOMAIN resident' : x \in DOMAIN resident /\ resident'[x] = resident[x]
        /\ Apart' /\ AllRecent' /\ Ages
    BY Zenon, <2>2, FewerFacts
  <2>5. Shape'
    BY <2>2, <2>3 DEF TierInv, Shape
  <2>6. ResidentBlocksIntact'
    BY Zenon, <2>2, <2>4, StillIntact DEF TierInv
  <2>. QED BY SMTT(20), <2>2, <2>3, <2>4, <2>5, <2>6 DEF TierInv
<1>2. CASE ~ Same(k, h)
  <2>1. UNCHANGED tierVars
    BY <1>2 DEF DropUnread
  <2>. QED BY <2>1, TierIdle DEF tierVars
<1>. QED BY SMTT(20), <1>1, <1>2

LEMMA RevokeFacts ==
  ASSUME TierInv, NEW s \in Slabs, Revoke(s)
  PROVE  TierInv' /\ Ages /\ DOMAIN resident' \subseteq DOMAIN resident /\ first' = first
<1>1. PICK ks, S : ks = On(s) /\ S = Slabs \ {s}
  BY Zenon
<1>2. /\ resident' = WithoutKeys(ks) /\ recency' = NotRecent(ks)
      /\ order' = Kept(order, S) /\ revoked' = revoked \cup {s}
      /\ free' = [free EXCEPT ![s] = <<>>]
      /\ UNCHANGED <<disk, first, generation>>
  BY <1>1 DEF Revoke
<1>3. /\ DOMAIN resident' = DOMAIN resident \ ks
      /\ \A x \in DOMAIN resident' : x \in DOMAIN resident /\ resident'[x] = resident[x]
      /\ Apart' /\ AllRecent' /\ Ages
  BY Zenon, <1>2, FewerFacts
<1>4. /\ order \in Seq(Slabs) /\ Members(order) \subseteq Slabs
      /\ Members(order) \cap revoked = {} /\ free \in [Slabs -> Seq(Slots)]
  BY OrderMembers DEF TierInv, Shape
<1>5. order' \in Seq(Slabs) /\ \A x : x \in Members(order') <=> x \in Members(order) /\ x \in S
  BY <1>2, <1>4, KeptFacts
<1>6. \A x : x \in Members(order)' <=> x \in Members(order) /\ x # s
  <2>1. Members(order)' = Members(order')
    BY DEF Members
  <2>. QED BY <1>1, <1>4, <1>5, <2>1
<1>7. Shape'
  <2>1. free' \in [Slabs -> Seq(Slots)]
    BY <1>2, <1>4
  <2>2. (Members(order) \cap revoked)' = {}
    BY <1>2, <1>4, <1>6
  <2>. QED BY <1>2, <1>5, <2>1, <2>2 DEF TierInv, Shape
<1>8. AllPlaced'
  <2>1. ASSUME NEW x \in DOMAIN resident' PROVE Placed(x)'
    <3>1. Placed(x) /\ resident'[x] = resident[x] /\ resident[x].slab # s
      BY <1>1, <1>3 DEF TierInv, AllPlaced, On
    <3>. QED BY Zenon, <1>2, <1>6, <3>1 DEF Placed
  <2>. QED BY <2>1 DEF AllPlaced
<1>9. RestFree'
  <2>1. ASSUME NEW t \in Members(order)' PROVE OnceEach(free'[t], Slots \ Used(t)')
    <3>1. t \in Members(order) /\ t # s /\ free'[t] = free[t]
      BY <1>2, <1>4, <1>6
    <3>2. On(t)' = On(t) /\ \A x \in On(t) : resident'[x] = resident[x]
      BY <1>1, <1>3, <3>1 DEF On
    <3>3. Used(t)' = Used(t)
      BY SMTT(20), <3>2 DEF Used
    <3>. QED BY <3>1, <3>3 DEF TierInv, RestFree
  <2>. QED BY <2>1 DEF RestFree, OnceEach
<1>10. ResidentBlocksIntact'
  BY <1>2, <1>3, StillIntact DEF TierInv
<1>. QED BY <1>2, <1>3, <1>7, <1>8, <1>9, <1>10 DEF TierInv

LEMMA FreshSlots ==
  ASSUME NEW t, t = [i \in 1 .. SlotsPerSlab |-> SlotsPerSlab - i]
  PROVE  t \in Seq(Slots) /\ OnceEach(t, Slots)
<1>. DEFINE N == SlotsPerSlab
<1>1. N \in Nat /\ Slots = 0 .. N - 1
  BY TierAssumption DEF Slots
<1>2. \A i \in 1 .. N : N - i \in 0 .. N - 1
  BY <1>1
<1>3. t \in [1 .. N -> 0 .. N - 1]
  BY <1>2
<1>4. t \in Seq(0 .. N - 1) /\ Len(t) = N /\ DOMAIN t = 1 .. N
  BY <1>1, <1>3
<1>5. ASSUME NEW n \in 0 .. N - 1 PROVE \E i \in DOMAIN t : t[i] = n
  <2>1. N - n \in 1 .. N /\ N - (N - n) = n
    BY <1>1
  <2>2. t[N - n] = N - (N - n)
    BY <2>1
  <2>. QED BY <1>4, <2>1, <2>2
<1>6. Range(t) = 0 .. N - 1
  <2>1. \A i \in DOMAIN t : t[i] \in 0 .. N - 1
    BY <1>3, <1>4
  <2>. QED BY <1>5, <2>1 DEF Range
<1>7. \A i, j \in DOMAIN t : t[i] = t[j] => i = j
  BY <1>1, <1>4
<1>. QED BY <1>1, <1>4, <1>6, <1>7 DEF OnceEach

LEMMA AddCapacityFacts ==
  ASSUME TierInv, NEW s \in Slabs, AddCapacity(s)
  PROVE  TierInv' /\ Ages /\ DOMAIN resident' \subseteq DOMAIN resident /\ first' = first
<1>1. PICK t : t = [i \in 1 .. SlotsPerSlab |-> SlotsPerSlab - i]
  BY Zenon
<1>2. /\ order' = Append(order, s) /\ free' = [free EXCEPT ![s] = t]
      /\ UNCHANGED <<revoked, disk, resident, recency, first, generation>>
  BY <1>1 DEF AddCapacity
<1>3. t \in Seq(Slots) /\ OnceEach(t, Slots)
  BY SMTT(20), <1>1, FreshSlots
<1>4. /\ order \in Seq(Slabs) /\ Members(order) \subseteq Slabs
      /\ Members(order) \cap revoked = {} /\ free \in [Slabs -> Seq(Slots)]
      /\ s \notin revoked /\ s \notin Members(order)
  BY OrderMembers DEF TierInv, Shape, AddCapacity
<1>5. order' \in Seq(Slabs) /\ \A x : x \in Members(order)' <=> x \in Members(order) \/ x = s
  <2>1. /\ order' \in Seq(Slabs) /\ Len(order') = Len(order) + 1
        /\ \A i \in 1 .. Len(order) : order'[i] = order[i]
        /\ order'[Len(order) + 1] = s
    BY <1>2, <1>4, ExtendFacts
  <2>2. \A i : i \in 1 .. Len(order) + 1 <=> i \in 1 .. Len(order) \/ i = Len(order) + 1
    BY <1>4
  <2>. QED BY SMTT(20), <2>1, <2>2 DEF Members
<1>6. Shape'
  <2>1. free' \in [Slabs -> Seq(Slots)]
    BY <1>2, <1>3, <1>4
  <2>2. (Members(order) \cap revoked)' = {}
    BY SMTT(20), <1>2, <1>4, <1>5
  <2>. QED BY <1>2, <1>5, <2>1, <2>2 DEF TierInv, Shape
<1>7. AllPlaced' /\ Apart'
  BY <1>2, <1>5 DEF TierInv, AllPlaced, Placed, Apart, AtPlace
<1>8. AllRecent'
  BY <1>2 DEF TierInv, AllRecent, OnceEach
<1>9. RestFree'
  <2>1. ASSUME NEW x \in Members(order)' PROVE OnceEach(free'[x], Slots \ Used(x)')
    <3>1. Used(x)' = Used(x)
      BY <1>2 DEF Used, On
    <3>2. CASE x = s
      <4>1. Used(x) = {}
        BY <1>4, <3>2 DEF TierInv, AllPlaced, Placed, Used, On
      <4>2. free'[x] = t /\ Slots \ Used(x)' = Slots
        BY SMTT(20), <1>2, <1>4, <3>1, <3>2, <4>1
      <4>. QED BY Zenon, <1>3, <4>2
    <3>3. CASE x # s
      <4>1. x \in Members(order) /\ free'[x] = free[x]
        BY <1>2, <1>4, <1>5, <3>3
      <4>. QED BY <3>1, <4>1 DEF TierInv, RestFree
    <3>. QED BY <3>2, <3>3
  <2>. QED BY <2>1 DEF RestFree, OnceEach
<1>10. ResidentBlocksIntact'
  BY SMTT(20), <1>2, StillIntact DEF TierInv
<1>11. Ages
  BY SMTT(20), <1>2 DEF TierInv, Shape, Ages
<1>. QED BY <1>2, <1>6, <1>7, <1>8, <1>9, <1>10, <1>11 DEF TierInv

LEMMA UnstoredFacts ==
  ASSUME TierInv, NEW p, GoodPlace(p), NEW k \in Keys, Unstored(p, KeyData(k))
  PROVE  /\ TierInv' /\ Ages /\ DOMAIN resident' = DOMAIN resident \ p.victim
         /\ first' = first
<1>1. /\ resident' = WithoutKeys(p.victim) /\ recency' = NotRecent(p.victim)
      /\ free' = FreeGivenBack(p) /\ disk' = Written(p, KeyData(k))
      /\ UNCHANGED <<order, revoked, first, generation>>
  BY DEF Unstored
<1>2. /\ DOMAIN resident' = DOMAIN resident \ p.victim
      /\ \A x \in DOMAIN resident' : x \in DOMAIN resident /\ resident'[x] = resident[x]
      /\ Apart' /\ AllRecent' /\ Ages
  BY Zenon, <1>1, FewerFacts
<1>3. disk' \in [Slabs -> [Slots -> [1 .. BlockUnits -> Units]]] /\ ResidentBlocksIntact'
  BY Zenon, <1>1, <1>2, IntactAfter
<1>4. free \in [Slabs -> Seq(Slots)]
  BY DEF TierInv, Shape
<1>5. free' \in [Slabs -> Seq(Slots)] /\ AllPlaced' /\ RestFree'
  <2>1. CASE p.victim = {}
    <3>1. free' = free
      BY Zenon, <1>1, <1>4, <2>1 DEF FreeGivenBack
    <3>2. DOMAIN resident' = DOMAIN resident /\ \A x \in DOMAIN resident : resident'[x] = resident[x]
      BY <1>2, <2>1
    <3>3. AllPlaced'
      BY Zenon, <1>1, <3>2 DEF TierInv, AllPlaced, Placed
    <3>4. \A s : On(s)' = On(s) /\ Used(s)' = Used(s)
      BY <3>2 DEF On, Used
    <3>5. RestFree'
      BY <1>1, <3>1, <3>4 DEF TierInv, RestFree, OnceEach
    <3>. QED BY SMTT(20), <1>4, <3>1, <3>3, <3>5
  <2>2. CASE p.victim # {}
    <3>1. PICK v : p.victim = {v}
      BY Zenon, <2>2 DEF GoodPlace
    <3>2. v \in DOMAIN resident /\ resident[v].slab = p.slab /\ resident[v].slot = p.slot
      BY Zenon, <3>1 DEF GoodPlace, AtPlace
    <3>3. free' = [free EXCEPT ![resident[v].slab] = Append(@, resident[v].slot)]
      BY Zenon, <1>1, <2>2, <3>2 DEF FreeGivenBack
    <3>. QED BY Zenon, <1>1, <3>1, <3>2, <3>3, OneFewer
  <2>. QED BY Zenon, <2>1, <2>2
<1>6. Shape'
  BY <1>1, <1>3, <1>5 DEF TierInv, Shape
<1>. QED BY SMTT(20), <1>1, <1>2, <1>3, <1>5, <1>6 DEF TierInv

LEMMA StoredResident ==
  ASSUME TierInv, NEW p, GoodPlace(p), NEW k \in Keys \ DOMAIN resident, NEW d,
         Stored(k, p, d)
  PROVE  /\ DOMAIN resident' = (DOMAIN resident \ p.victim) \cup {k}
         /\ \A x \in DOMAIN resident \ p.victim : x # k /\ resident'[x] = resident[x]
         /\ resident'[k] = [slab |-> p.slab, slot |-> p.slot, length |-> Len(d),
                            gen |-> generation + 1]
         /\ \A s : On(s)' = (On(s) \ p.victim) \cup (IF s = p.slab THEN {k} ELSE {})
         /\ Used(p.slab)' = Used(p.slab) \cup {p.slot}
         /\ \A s : s # p.slab => Used(s)' = Used(s)
<1>. DEFINE new == [slab |-> p.slab, slot |-> p.slot, length |-> Len(d), gen |-> generation + 1]
<1>1. resident' = [x \in (DOMAIN resident \ p.victim) \cup {k} |->
                     IF x = k THEN new ELSE resident[x]]
  BY Zenon DEF Stored
<1>2. new.slab = p.slab /\ new.slot = p.slot
  BY SMTT(20)
<1>. HIDE DEF new
<1>3. /\ DOMAIN resident' = (DOMAIN resident \ p.victim) \cup {k}
      /\ \A x \in DOMAIN resident \ p.victim : x # k /\ resident'[x] = resident[x]
      /\ resident'[k] = new
  BY <1>1
<1>4. ASSUME NEW s
      PROVE  On(s)' = (On(s) \ p.victim) \cup (IF s = p.slab THEN {k} ELSE {})
  BY SMTT(20), <1>2, <1>3 DEF On
<1>5. Used(p.slab)' = Used(p.slab) \cup {p.slot}
  <2>1. PICK a, A, B : a = p.slab /\ A = On(a) /\ B = On(a) \ p.victim
    BY Zenon
  <2>2. On(a)' = B \cup {k}
    BY SMTT(20), <1>4, <2>1
  <2>3. Used(a)' = {resident'[x].slot : x \in B \cup {k}}
    BY SMTT(20), <2>2 DEF Used
  <2>4. \A x \in B : resident'[x].slot = resident[x].slot
    BY SMTT(20), <1>3, <2>1 DEF On
  <2>5. \A x \in A : x \in B \/ resident[x].slot = p.slot
    BY <2>1 DEF GoodPlace, AtPlace, On
  <2>6. resident'[k].slot = p.slot /\ B \subseteq A
    BY Zenon, <1>2, <1>3, <2>1
  <2>7. Used(a)' = Used(a) \cup {p.slot}
    BY <2>1, <2>3, <2>4, <2>5, <2>6 DEF Used
  <2>. QED BY <2>1, <2>7
<1>6. ASSUME NEW s, s # p.slab PROVE Used(s)' = Used(s)
  <2>1. On(s) \ p.victim = On(s)
    BY <1>6 DEF GoodPlace, AtPlace, On
  <2>2. On(s)' = On(s)
    BY Zenon, <1>4, <1>6, <2>1
  <2>3. \A x \in On(s) : x \in DOMAIN resident \ p.victim
    BY Zenon, <2>1 DEF On
  <2>4. \A x \in On(s) : resident'[x] = resident[x]
    BY Zenon, <1>3, <2>3
  <2>. QED BY Zenon, <2>2, <2>4 DEF Used
<1>. QED BY Zenon, <1>3, <1>4, <1>5, <1>6 DEF new

LEMMA StoredFacts ==
  ASSUME TierInv, NEW p, GoodPlace(p), NEW k \in Keys \ DOMAIN resident,
         Stored(k, p, KeyData(k))
  PROVE  TierInv' /\ Ages /\ DOMAIN resident' = (DOMAIN resident \ p.victim) \cup {k}
<1>1. PICK a, n, vs : a = p.slab /\ n = p.slot /\ vs = p.victim
  OBVIOUS
<1>2. /\ generation' = generation + 1 /\ recency' = Append(NotRecent(vs), k)
      /\ free' = FreeAfter(p) /\ disk' = Written(p, KeyData(k))
      /\ UNCHANGED <<order, revoked>>
  BY Zenon, <1>1 DEF Stored
<1>3. /\ DOMAIN resident' = (DOMAIN resident \ vs) \cup {k}
      /\ \A x \in DOMAIN resident \ vs : x # k /\ resident'[x] = resident[x]
      /\ resident'[k].slab = a /\ resident'[k].slot = n
      /\ resident'[k].length = Len(KeyData(k)) /\ resident'[k].gen = generation + 1
      /\ Used(a)' = Used(a) \cup {n}
      /\ \A s : s # a => Used(s)' = Used(s)
  <2>. DEFINE new == [slab |-> p.slab, slot |-> p.slot, length |-> Len(KeyData(k)),
                      gen |-> generation + 1]
  <2>1. /\ DOMAIN resident' = (DOMAIN resident \ p.victim) \cup {k}
        /\ \A x \in DOMAIN resident \ p.victim : x # k /\ resident'[x] = resident[x]
        /\ resident'[k] = new
        /\ Used(p.slab)' = Used(p.slab) \cup {p.slot}
        /\ \A s : s # p.slab => Used(s)' = Used(s)
    BY Zenon, StoredResident
  <2>2. /\ new.slab = a /\ new.slot = n /\ new.length = Len(KeyData(k))
        /\ new.gen = generation + 1
    BY <1>1
  <2>. HIDE DEF new
  <2>. QED BY Zenon, <1>1, <2>1, <2>2
<1>4. /\ a \in Members(order) /\ a \in Slabs /\ n \in Slots /\ vs \subseteq DOMAIN resident
      /\ \A x \in DOMAIN resident : AtPlace(x, a, n) <=> x \in vs
      /\ vs = {} => free[a] # <<>> /\ n = free[a][Len(free[a])]
  BY Zenon, <1>1 DEF GoodPlace
<1>5. /\ generation \in Nat /\ free \in [Slabs -> Seq(Slots)] /\ Members(order) \subseteq Slabs
      /\ Members(order)' = Members(order)
  <2>1. generation \in Nat /\ free \in [Slabs -> Seq(Slots)] /\ Members(order) \subseteq Slabs
    BY Zenon, OrderMembers DEF TierInv, Shape
  <2>2. Members(order)' = Members(order)
    BY ZenonT(30), <1>2 DEF Members
  <2>. QED BY Zenon, <2>1, <2>2
<1>6. disk' \in [Slabs -> [Slots -> [1 .. BlockUnits -> Units]]] /\ ResidentBlocksIntact'
  <2>1. \A x \in DOMAIN resident' :
          \/ x \in DOMAIN resident \ p.victim /\ resident'[x] = resident[x]
          \/ /\ x = k /\ resident'[x].slab = p.slab /\ resident'[x].slot = p.slot
             /\ resident'[x].length = Len(KeyData(k))
    BY Zenon, <1>1, <1>3
  <2>. QED BY Zenon, <1>2, <2>1, IntactAfter
<1>7. AllPlaced'
  <2>1. ASSUME NEW x \in DOMAIN resident' PROVE Placed(x)'
    <3>1. CASE x = k
      <4>1. /\ resident'[x].slab \in Members(order)' /\ resident'[x].slot \in Slots
            /\ resident'[x].gen \in Nat /\ resident'[x].gen <= generation'
            /\ resident'[x].length = Len(KeyData(x))
        <5>1. generation + 1 \in Nat /\ generation + 1 <= generation'
          BY <1>2, <1>5
        <5>. QED BY Zenon, <1>3, <1>4, <1>5, <3>1, <5>1
      <4>. QED BY Zenon, <3>1, <4>1 DEF Placed
    <3>2. CASE x # k
      <4>1. Placed(x) /\ resident'[x] = resident[x]
        BY ZenonT(30), <1>3, <3>2 DEF TierInv, AllPlaced
      <4>2. resident'[x].gen \in Nat /\ resident'[x].gen <= generation'
        <5>1. resident[x].gen \in Nat /\ resident[x].gen <= generation
          BY Zenon, <4>1 DEF Placed
        <5>2. generation \in Nat /\ generation' = generation + 1
          BY Zenon, <1>2, <1>5
        <5>3. \A g \in Nat : g <= generation => g <= generation'
          BY <5>2
        <5>. QED BY Zenon, <4>1, <5>1, <5>3
      <4>. QED BY Zenon, <1>5, <4>1, <4>2 DEF Placed
    <3>. QED BY <3>1, <3>2
  <2>. QED BY <2>1 DEF AllPlaced
<1>8. Apart'
  <2>1. ASSUME NEW x \in DOMAIN resident', NEW y \in DOMAIN resident',
               resident'[x].slab = resident'[y].slab, resident'[x].slot = resident'[y].slot
        PROVE  x = y
    <3>1. \A z \in DOMAIN resident \ vs : resident'[z].slab # a \/ resident'[z].slot # n
      BY Zenon, <1>3, <1>4 DEF AtPlace
    <3>2. CASE x = k \/ y = k
      BY SMTT(20), <1>3, <2>1, <3>1, <3>2
    <3>3. CASE x # k /\ y # k
      <4>1. /\ x \in DOMAIN resident /\ y \in DOMAIN resident
            /\ resident'[x] = resident[x] /\ resident'[y] = resident[y]
        BY <1>3, <3>3
      <4>. QED BY SMTT(20), <2>1, <4>1 DEF TierInv, Apart, AtPlace
    <3>. QED BY <3>2, <3>3
  <2>. QED BY <2>1 DEF Apart, AtPlace
<1>9. AllRecent'
  <2>1. PICK S, t : S = DOMAIN resident \ vs /\ t = Kept(recency, S)
    BY Zenon
  <2>2. recency \in Seq(Keys) /\ OnceEach(recency, DOMAIN resident)
    BY DEF TierInv, AllRecent
  <2>3. t \in Seq(Keys) /\ OnceEach(t, DOMAIN resident \cap S)
    BY <2>1, <2>2, KeptOnce
  <2>4. OnceEach(t, S) /\ k \notin S /\ S \cup {k} = DOMAIN resident'
    <3>1. DOMAIN resident \cap S = S
      BY <2>1
    <3>. QED BY Zenon, <1>3, <2>1, <2>3, <3>1
  <2>5. recency' = Append(t, k)
    BY SMTT(20), <1>2, <2>1 DEF NotRecent
  <2>6. recency' \in Seq(Keys) /\ OnceEach(recency', S \cup {k})
    BY SMTT(20), <2>3, <2>4, <2>5, AppendOnce
  <2>7. OnceEach(recency', DOMAIN resident')
    BY <2>4, <2>6
  <2>. QED BY Zenon, <2>6, <2>7 DEF AllRecent, OnceEach
<1>10. free' \in [Slabs -> Seq(Slots)] /\ OnceEach(free'[a], Slots \ Used(a)')
       /\ \A s \in Slabs : s # a => free'[s] = free[s]
  <2>1. free[a] \in Seq(Slots) /\ OnceEach(free[a], Slots \ Used(a))
    BY Zenon, <1>4, <1>5 DEF TierInv, RestFree
  <2>2. CASE vs = {}
    <3>1. free' = [free EXCEPT ![a] = SubSeq(free[a], 1, Len(free[a]) - 1)]
      BY <1>1, <1>2, <2>2 DEF FreeAfter
    <3>2. /\ SubSeq(free[a], 1, Len(free[a]) - 1) \in Seq(Slots)
          /\ OnceEach(SubSeq(free[a], 1, Len(free[a]) - 1), (Slots \ Used(a)) \ {n})
      BY Zenon, <1>4, <2>1, <2>2, FrontOnce
    <3>3. (Slots \ Used(a)) \ {n} = Slots \ Used(a)'
      BY Zenon, <1>3
    <3>4. OnceEach(SubSeq(free[a], 1, Len(free[a]) - 1), Slots \ Used(a)')
      BY Zenon, <3>2, <3>3
    <3>5. free'[a] = SubSeq(free[a], 1, Len(free[a]) - 1)
      BY SMTT(20), <1>4, <1>5, <3>1
    <3>6. free' \in [Slabs -> Seq(Slots)] /\ \A s \in Slabs : s # a => free'[s] = free[s]
      BY SMTT(20), <1>4, <1>5, <3>1, <3>2
    <3>. QED BY SMTT(20), <3>4, <3>5, <3>6
  <2>3. CASE vs # {}
    <3>1. free' = free
      BY ZenonT(30), <1>1, <1>2, <2>3 DEF FreeAfter
    <3>2. n \in Used(a)
      BY SMTT(20), <1>4, <2>3 DEF Used, On, AtPlace
    <3>3. Used(a)' = Used(a)
      BY <1>3, <3>2
    <3>. QED BY <1>5, <2>1, <3>1, <3>3
  <2>. QED BY Zenon, <2>2, <2>3
<1>11. RestFree'
  <2>1. ASSUME NEW s \in Members(order)' PROVE OnceEach(free'[s], Slots \ Used(s)')
    <3>1. CASE s = a
      BY SMTT(20), <1>10, <3>1
    <3>2. CASE s # a
      <4>1. s \in Members(order) /\ free'[s] = free[s] /\ Used(s)' = Used(s)
        BY Zenon, <1>3, <1>5, <1>10, <3>2
      <4>. QED BY SMTT(20), <4>1 DEF TierInv, RestFree
    <3>. QED BY SMTT(20), <3>1, <3>2
  <2>. QED BY <2>1 DEF RestFree, OnceEach
<1>12. Shape'
  BY <1>2, <1>5, <1>6, <1>10 DEF TierInv, Shape
<1>13. Ages
  <2>1. \A x \in DOMAIN resident' : \/ x \in DOMAIN resident /\ resident'[x] = resident[x]
                                    \/ resident'[x].gen > generation
    <3>1. generation + 1 > generation
      BY <1>5
    <3>. QED BY Zenon, <1>3, <3>1
  <2>2. generation' \in Nat /\ generation <= generation'
    BY <1>2, <1>5
  <2>. QED BY Zenon, <2>1, <2>2 DEF Ages
<1>. QED BY Zenon, <1>1, <1>3, <1>6, <1>7, <1>8, <1>9, <1>11, <1>12, <1>13 DEF TierInv

(* What is remembered of first reads (sawBefore, forget).                  *)
LEMMA RememberedFacts ==
  ASSUME first \in Seq(Keys), NEW k \in Keys
  PROVE  Remembered(k) \in Seq(Keys) /\ Members(Remembered(k)) \subseteq Members(first) \cup {k}
<1>1. ASSUME NEW s \in Seq(Keys)
      PROVE  Append(s, k) \in Seq(Keys) /\ Members(Append(s, k)) \subseteq Members(s) \cup {k}
  <2>1. /\ Append(s, k) \in Seq(Keys) /\ Len(Append(s, k)) = Len(s) + 1
        /\ \A i \in 1 .. Len(s) : Append(s, k)[i] = s[i]
        /\ Append(s, k)[Len(s) + 1] = k
    BY ExtendFacts
  <2>2. \A i : i \in 1 .. Len(s) + 1 => i \in 1 .. Len(s) \/ i = Len(s) + 1
    OBVIOUS
  <2>. QED BY <2>1, <2>2 DEF Members
<1>2. ASSUME first # <<>>
      PROVE  Tail(first) \in Seq(Keys) /\ Members(Tail(first)) \subseteq Members(first)
  <2>1. /\ Tail(first) \in Seq(Keys) /\ Len(Tail(first)) = Len(first) - 1
        /\ \A i \in 1 .. Len(Tail(first)) : Tail(first)[i] = first[i + 1]
    BY <1>2, RestFacts
  <2>2. \A i \in 1 .. Len(first) - 1 : i + 1 \in 1 .. Len(first)
    OBVIOUS
  <2>. QED BY <2>1, <2>2 DEF Members
<1>3. FirstReadLimit \in Nat
  BY TierAssumption
<1>4. CASE FirstReadLimit = 0
  BY <1>4 DEF Remembered
<1>5. CASE FirstReadLimit > 0 /\ Len(first) >= FirstReadLimit
  <2>1. first # <<>>
    BY <1>3, <1>5
  <2>2. Remembered(k) = Append(Tail(first), k)
    BY <1>3, <1>5 DEF Remembered
  <2>. QED BY Zenon, <1>1, <1>2, <2>1, <2>2
<1>6. CASE FirstReadLimit > 0 /\ ~ (Len(first) >= FirstReadLimit)
  <2>1. Remembered(k) = Append(first, k)
    BY <1>3, <1>6 DEF Remembered
  <2>. QED BY <1>1, <2>1
<1>. QED BY SMTT(20), <1>3, <1>4, <1>5, <1>6

LEMMA AdmitFacts ==
  ASSUME TierInv, first \in Seq(Keys), NEW k \in Keys, NEW pre, pre \in BOOLEAN,
         Admit(k, KeyData(k), pre)
  PROVE  /\ TierInv' /\ Ages
         /\ DOMAIN resident' \subseteq DOMAIN resident \cup {k}
         /\ k \in DOMAIN resident' => k \in DOMAIN resident \/ pre \/ k \in Members(first)
         /\ pre => DOMAIN resident \subseteq DOMAIN resident'
         /\ first' \in Seq(Keys) /\ Members(first') \subseteq Members(first) \cup {k}
<1>1. PICK p : p = Place(pre)
  OBVIOUS
<1>2. SawBefore(k) <=> k \in Members(first)
  BY RangeMembers DEF SawBefore
<1>3. CASE UNCHANGED tierVars
  BY <1>3, TierIdle DEF tierVars
<1>4. CASE /\ first' = Remembered(k)
           /\ UNCHANGED <<order, revoked, free, disk, resident, recency, generation>>
  BY SMTT(20), <1>4, TierIdle, RememberedFacts
<1>5. ASSUME k \notin DOMAIN resident, pre \/ SawBefore(k), p # NoPlace, Stored(k, p, KeyData(k))
      PROVE  /\ TierInv' /\ Ages
             /\ DOMAIN resident' \subseteq DOMAIN resident \cup {k}
             /\ pre => DOMAIN resident \subseteq DOMAIN resident'
             /\ first' \in Seq(Keys) /\ Members(first') \subseteq Members(first) \cup {k}
  <2>1. GoodPlace(p) /\ (pre => p.victim = {})
    BY <1>1, <1>5, PlaceFacts
  <2>2. TierInv' /\ Ages /\ DOMAIN resident' = (DOMAIN resident \ p.victim) \cup {k}
    BY Zenon, <1>5, <2>1, StoredFacts
  <2>3. PICK S : S = Range(first) \ {k}
    BY Zenon
  <2>4. first' = Kept(first, S)
    BY Zenon, <1>5, <2>3 DEF Stored, Forgotten
  <2>5. first' \in Seq(Keys) /\ Members(first') \subseteq Members(first)
    BY <2>4, KeptFacts
  <2>. QED BY Zenon, <2>1, <2>2, <2>5
<1>6. ASSUME k \notin DOMAIN resident, pre \/ SawBefore(k), p # NoPlace, Unstored(p, KeyData(k))
      PROVE  /\ TierInv' /\ Ages
             /\ DOMAIN resident' \subseteq DOMAIN resident
             /\ pre => DOMAIN resident \subseteq DOMAIN resident'
             /\ first' = first
  <2>1. GoodPlace(p) /\ (pre => p.victim = {})
    BY <1>1, <1>6, PlaceFacts
  <2>2. /\ TierInv' /\ Ages /\ DOMAIN resident' = DOMAIN resident \ p.victim
        /\ first' = first
    BY Zenon, <1>6, <2>1, UnstoredFacts
  <2>3. DOMAIN resident' \subseteq DOMAIN resident
    BY Zenon, <2>2
  <2>4. pre => DOMAIN resident \subseteq DOMAIN resident'
    BY Zenon, <2>1, <2>2
  <2>. QED BY Zenon, <2>2, <2>3, <2>4
<1>. QED BY Zenon, <1>1, <1>2, <1>3, <1>4, <1>5, <1>6 DEF Admit

=============================================================================
