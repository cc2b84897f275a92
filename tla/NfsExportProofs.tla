-------------------------- MODULE NfsExportProofs ---------------------------
(***************************************************************************)
(* What every reading and listing through the export gives, whatever       *)
(* connections break.  The invariant is of the conversation: a connection  *)
(* in use holds, of requests and replies, only what the thread with the    *)
(* lock asked, or what answers it, and one nobody holds is empty.          *)
(***************************************************************************)
EXTENDS NfsExport, CollectionsProofs, FiniteSetTheorems, SequenceTheorems

(* Zenon proves most leaves; the others name the SMT solver.               *)
USE ZenonT(20)

Datum == Nat \cup (Nat \X Nat)
Task ==
    [op : {"none", "size", "read", "list"}, at : {"idle", "ask", "sent", "done"}, name : Nat,
     off : Nat, len : Nat, size : Nat, after : Nat, iov : Nat, from : Nat, data : Seq(Datum),
     eof : BOOLEAN, status : {"OK", "FAILED"}, always : SUBSET Names]
Request == [op : {"size", "read", "list"}, name : Nat, off : Nat, len : Nat, after : Nat]
Reply == [status : {"OK", "FAILED"}, data : Seq(Datum)]
Conns == [made : {TRUE}, broken : BOOLEAN, open : BOOLEAN, slow : BOOLEAN,
          requests : Seq(Request), replies : Seq(Reply)]

NfsTypes ==
    /\ names \subseteq Names
    /\ handle \in [Names -> Int]
    /\ task \in [Threads -> Task]
    /\ conn \in {NoConn} \cup Conns

(* What the first i of the buffers hold. *)
Upto(i) == SumOver(Iov, 1..i)

(* A read that is to ask for its next buffer: it has all it asked for.     *)
ReadSoFar(k, N) ==
    /\ k.name \in N \ Dirs /\ k.size = Size[k.name]
    /\ k.iov \in 1..Len(Iov) + 1 /\ k.eof = FALSE /\ k.status = "OK"
    /\ k.off >= k.from /\ k.data = Bytes(k.name, k.from, k.off - k.from)
    /\ \/ k.off = k.from + Upto(k.iov - 1)
       \/ k.off = k.size /\ k.off < k.from + Upto(k.iov - 1)
    /\ k.off <= k.size \/ k.off = k.from
Reading(k, N) ==
    /\ ReadSoFar(k, N)
    /\ k.iov <= Len(Iov) /\ k.off < k.size /\ k.len = Clamped(k)

Ascending(s) == \A i, j \in 1..Len(s) : i < j => s[i] < s[j]
InOrder == Enumerates # "s3"

(* A listing between its pages: what it has is in order, and it has what   *)
(* was there from the start, as far as it has come.                        *)
Listing(k, N) ==
    /\ k.data \in Seq(N) /\ k.always \subseteq N
    /\ InOrder =>
        /\ Ascending(k.data)
        /\ \A i \in 1..Len(k.data) : k.data[i] <= k.after
        /\ \A n \in k.always : n <= k.after => \E i \in 1..Len(k.data) : k.data[i] = n

ReadDone(k) ==
    LET n == Larger(0, Smaller(SumOver(Iov, DOMAIN Iov), Size[k.name] - k.from)) IN
    /\ k.data = Bytes(k.name, k.from, n)
    /\ k.eof = (k.from + n >= Size[k.name])
ListDone(k) ==
    /\ k.always \subseteq Range(k.data)
    /\ IsInjective(k.data)

Asking(k) == k.at \in {"ask", "sent"}
TaskRight(k, N) ==
    /\ Asking(k) => k.op # "none"
    /\ k.op = "size" => Asking(k) /\ k.name \in Names
    /\ k.op = "read" /\ Asking(k) => Reading(k, N)
    /\ k.op = "list" /\ Asking(k) => Listing(k, N)
    /\ k.op = "read" /\ k.at = "done" /\ k.status = "OK" => ReadDone(k)
    /\ k.op = "list" /\ k.at = "done" /\ k.status = "OK" /\ InOrder => ListDone(k)

(* A page that answers a listing.                                          *)
PageRight(k, page, N) ==
    /\ page \in Seq(N)
    /\ InOrder =>
        /\ Ascending(page)
        /\ \A i \in 1..Len(page) : page[i] > k.after
        /\ \A n \in k.always : 
            n > k.after /\ (Len(page) < ListNames \/ n <= page[Len(page)])
                => \E i \in 1..Len(page) : page[i] = n

(* A reply to what the task k asked.                                       *)
ReplyRight(k, r, N) ==
    /\ r \in Reply
    /\ r.status # "OK" => r.data = <<>>
    /\ r.status = "OK" /\ k.op = "size" => k.name \in N \ Dirs /\ r.data = <<Size[k.name]>>
    /\ r.status = "OK" /\ k.op = "read" => r.data = Bytes(k.name, k.off, k.len)
    /\ r.status = "OK" /\ k.op = "list" => PageRight(k, r.data, N)

Quiet(c) == c.requests = <<>> /\ c.replies = <<>>
Conversing(k, c, N) ==
    \/ c.requests = <<Ask(k, k.op)>> /\ c.replies = <<>>
    \/ Quiet(c)
    \/ /\ c.requests = <<>> /\ Len(c.replies) = 1
       /\ ReplyRight(k, c.replies[1], N)

LineInv ==
    /\ lock \subseteq Threads
    /\ \A t \in Threads : t \in lock <=> task[t].at = "sent"
    /\ \A t, u \in lock : t = u
    /\ conn.made /\ conn.broken => ~conn.open /\ ~conn.slow
    /\ Usable /\ lock = {} => Quiet(conn)
    /\ \A t \in lock : Usable /\ Conversing(task[t], conn, names)

NfsInv ==
    /\ NfsTypes
    /\ \A t \in Threads : TaskRight(task[t], names)
    /\ FilesAreFiles
    /\ LineInv

-----------------------------------------------------------------------------
(* The order of a listing.                                                 *)

LEMMA Keys ==
  ASSUME NEW m \in Nat, NEW n \in Nat
  PROVE  /\ KeyOf(m) \in Nat
         /\ KeyOf(m) = KeyOf(n) => m = n
         /\ m < n => KeyOf(m) < KeyOf(n)
         /\ KeyOf(m) > 2 * n => m >= n
         /\ InOrder => KeyOf(m) = 2 * m
BY SMTT(20) DEF KeyOf, InOrder

(* How many names come before one says its place.                          *)
LEMMA Ranks ==
  ASSUME NEW S \in SUBSET Nat, IsFiniteSet(S)
  PROVE  /\ Cardinality(S) \in Nat
         /\ \A n \in S : Cardinality(Below(n, S)) \in 0..Cardinality(S) - 1
         /\ \A m, n \in S : KeyOf(m) < KeyOf(n)
                => Cardinality(Below(m, S)) < Cardinality(Below(n, S))
         /\ \A i \in 0..Cardinality(S) - 1 : \E n \in S : Cardinality(Below(n, S)) = i
<1>. DEFINE N == Cardinality(S)
<1>1. N \in Nat
  BY FS_CardinalityType
<1>2. \A n \in S : KeyOf(n) \in Nat /\ \A m \in S : KeyOf(m) = KeyOf(n) => m = n
  BY Keys
<1>3. ASSUME NEW n \in S
      PROVE  /\ Below(n, S) \in SUBSET S /\ n \notin Below(n, S) /\ IsFiniteSet(Below(n, S))
             /\ Cardinality(Below(n, S)) \in 0..N - 1
  <2>1. Below(n, S) \in SUBSET S /\ n \notin Below(n, S)
    BY SMTT(20), <1>2 DEF Below
  <2>2. /\ IsFiniteSet(Below(n, S)) /\ Cardinality(Below(n, S)) <= N
        /\ N # Cardinality(Below(n, S))
    BY <2>1, FS_Subset
  <2>3. Cardinality(Below(n, S)) \in Nat
    BY <2>2, FS_CardinalityType
  <2>. HIDE DEF N
  <2>. QED BY SMTT(20), <1>1, <2>1, <2>2, <2>3
<1>4. ASSUME NEW m \in S, NEW n \in S, KeyOf(m) < KeyOf(n)
      PROVE  Cardinality(Below(m, S)) < Cardinality(Below(n, S))
  <2>1. Below(m, S) \in SUBSET Below(n, S) /\ m \in Below(n, S)
    <3>1. \A x \in S : KeyOf(x) \in Nat
      BY <1>2
    <3>2. ASSUME NEW x \in S, KeyOf(x) < KeyOf(m) PROVE KeyOf(x) < KeyOf(n)
      BY SMTT(20), <1>4, <3>1, <3>2
    <3>. QED BY <1>4, <3>2 DEF Below
  <2>2. /\ Cardinality(Below(m, S)) <= Cardinality(Below(n, S))
        /\ Cardinality(Below(m, S)) # Cardinality(Below(n, S))
    BY <1>3, <2>1, FS_Subset
  <2>3. Cardinality(Below(m, S)) \in Int /\ Cardinality(Below(n, S)) \in Int
    BY SMTT(20), <1>3
  <2>. QED BY SMTT(20), <2>2, <2>3
<1>5. \A i \in 0..N - 1 : \E n \in S : Cardinality(Below(n, S)) = i
  <2>. DEFINE rank == [n \in S |-> Cardinality(Below(n, S))]
  <2>1. \A m, n \in S : rank[m] = rank[n] => m = n
    <3>1. SUFFICES ASSUME NEW m \in S, NEW n \in S, rank[m] = rank[n], m # n PROVE FALSE
      OBVIOUS
    <3>2. KeyOf(m) < KeyOf(n) \/ KeyOf(n) < KeyOf(m)
      BY SMTT(20), <1>2, <3>1
    <3>3. rank[m] < rank[n] \/ rank[n] < rank[m]
      BY <1>4, <3>2
    <3>4. rank[m] \in Int
      BY SMTT(20), <1>3
    <3>. QED BY SMTT(20), <3>1, <3>3, <3>4
  <2>2. rank \in [S -> 0..N - 1]
    BY <1>3
  <2>3. rank \in Injection(S, 0..N - 1)
    <3>. HIDE DEF rank, N
    <3>. QED BY <2>1, <2>2 DEF Injection, IsInjective
  <2>4. IsFiniteSet(0..N - 1) /\ Cardinality(0..N - 1) = N
    <3>1. 0 \in Int /\ N - 1 \in Int
      BY SMTT(20), <1>1
    <3>2. /\ IsFiniteSet(0..N - 1)
          /\ Cardinality(0..N - 1) = IF 0 > N - 1 THEN 0 ELSE (N - 1) - 0 + 1
      BY <3>1, FS_Interval
    <3>. HIDE DEF N
    <3>. QED BY SMTT(20), <1>1, <3>2
  <2>5. rank \in Surjection(S, 0..N - 1)
    <3>1. Cardinality(S) = Cardinality(0..N - 1)
      BY <2>4
    <3>. HIDE DEF rank
    <3>. QED BY <2>3, <2>4, <3>1, FS_Injection
  <2>6. \A i \in 0..N - 1 : \E n \in S : rank[n] = i
    <3>. HIDE DEF rank, N
    <3>. QED BY <2>5 DEF Surjection
  <2>. QED BY <2>6
<1>. QED BY <1>1, <1>3, <1>4, <1>5

(* ByKey is what it says.                                                  *)
LEMMA Sorted ==
  ASSUME NEW S \in SUBSET Nat, IsFiniteSet(S), NEW s, s = ByKey(S)
  PROVE  /\ s \in Seq(S) /\ Len(s) \in Nat
         /\ \A i, j \in 1..Len(s) : i < j => KeyOf(s[i]) < KeyOf(s[j])
         /\ \A n \in S : \E i \in 1..Len(s) : s[i] = n
<1>. DEFINE N == Cardinality(S)
<1>1. N \in Nat
  BY Ranks
<1>2. ASSUME NEW i \in 1..N
      PROVE  s[i] \in S /\ Cardinality(Below(s[i], S)) = i - 1
  <2>1. i - 1 \in 0..N - 1
    BY SMTT(20), <1>1
  <2>2. \E n \in S : Cardinality(Below(n, S)) = i - 1
    BY <2>1, Ranks
  <2>3. s[i] = CHOOSE n \in S : Cardinality(Below(n, S)) = i - 1
    BY DEF ByKey
  <2>. QED BY <2>2, <2>3
<1>3. s = [i \in 1..N |-> s[i]]
  BY SMTT(20) DEF ByKey
<1>4. s \in Seq(S) /\ Len(s) = N
  <2>. HIDE DEF N
  <2>. QED BY SMTT(20), <1>1, <1>2, <1>3
<1>5. \A m, n \in S : KeyOf(m) \in Nat /\ KeyOf(n) \in Nat /\ (KeyOf(m) = KeyOf(n) => m = n)
  BY Keys
<1>6. ASSUME NEW i \in 1..N, NEW j \in 1..N, i < j PROVE KeyOf(s[i]) < KeyOf(s[j])
  <2>0. s[i] \in S /\ s[j] \in S
    BY <1>2
  <2>. DEFINE a == KeyOf(s[i])  b == KeyOf(s[j])
  <2>9. a \in Nat /\ b \in Nat /\ (a = b => s[i] = s[j])
    BY <1>5, <2>0
  <2>. HIDE DEF a, b
  <2>1. SUFFICES ASSUME b <= a PROVE FALSE
    BY SMTT(20), <2>9 DEF a, b
  <2>2. s[i] # s[j]
    BY SMTT(20), <1>2, <1>6, <1>1
  <2>3. KeyOf(s[j]) < KeyOf(s[i])
    <3>1. b < a
      BY SMTT(20), <2>9, <2>1, <2>2
    <3>. QED BY <3>1 DEF a, b
  <2>4. Cardinality(Below(s[j], S)) < Cardinality(Below(s[i], S))
    BY <1>2, <2>3, Ranks
  <2>. QED BY SMTT(20), <1>1, <1>2, <1>6, <2>4
<1>7. ASSUME NEW n \in S PROVE \E i \in 1..N : s[i] = n
  <2>. DEFINE i == Cardinality(Below(n, S)) + 1
  <2>1. i \in 1..N /\ Cardinality(Below(n, S)) = i - 1
    BY SMTT(20), <1>1, Ranks
  <2>. HIDE DEF i
  <2>2. Cardinality(Below(s[i], S)) = Cardinality(Below(n, S)) /\ s[i] \in S
    BY <1>2, <2>1
  <2>3. ~(KeyOf(s[i]) < KeyOf(n)) /\ ~(KeyOf(n) < KeyOf(s[i]))
    <3>1. Cardinality(Below(n, S)) \in Int
      BY SMTT(20), Ranks
    <3>2. ~(Cardinality(Below(s[i], S)) < Cardinality(Below(n, S)))
      BY SMTT(20), <2>2, <3>1
    <3>3. ~(Cardinality(Below(n, S)) < Cardinality(Below(s[i], S)))
      BY SMTT(20), <2>2, <3>1
    <3>. QED BY <2>2, <3>2, <3>3, Ranks
  <2>4. s[i] = n
    <3>. DEFINE a == KeyOf(s[i])  b == KeyOf(n)
    <3>1. a \in Nat /\ b \in Nat /\ (a = b => s[i] = n)
      BY <1>5, <2>2
    <3>2. ~(a < b) /\ ~(b < a)
      BY <2>3
    <3>. HIDE DEF a, b
    <3>. QED BY SMTT(20), <3>1, <3>2
  <2>. QED BY <2>1, <2>4
<1>. HIDE DEF N
<1>. QED BY <1>1, <1>4, <1>6, <1>7

(* A page is the first names of the order, and not full only when it has   *)
(* them all.                                                               *)
LEMMA Pages ==
  ASSUME NEW S \in SUBSET Nat, IsFiniteSet(S), NEW p, p = Page(ByKey(S))
  PROVE  /\ p \in Seq(S) /\ Len(p) \in Nat
         /\ \A i, j \in 1..Len(p) : i < j => KeyOf(p[i]) < KeyOf(p[j])
         /\ \A n \in S : Len(p) < ListNames \/ KeyOf(n) <= KeyOf(p[Len(p)])
                => \E i \in 1..Len(p) : p[i] = n
<1>. DEFINE s == ByKey(S)
            k == Smaller(ListNames, Len(s))
<1>1. /\ s \in Seq(S) /\ Len(s) \in Nat
      /\ \A i, j \in 1..Len(s) : i < j => KeyOf(s[i]) < KeyOf(s[j])
      /\ \A n \in S : \E i \in 1..Len(s) : s[i] = n
  BY SMTT(20), Sorted
<1>. HIDE DEF s
<1>2. /\ k \in 0..Len(s) /\ (k < ListNames => k = Len(s)) /\ ListNames \in Nat \ {0}
      /\ (k = 0 => Len(s) = 0)
  BY SMTT(20), <1>1, NfsConfig DEF Smaller
<1>3. p = SubSeq(s, 1, k)
  BY DEF Page, s
<1>. HIDE DEF k
<1>4. Len(p) = k /\ p \in Seq(S) /\ \A i \in 1..k : p[i] = s[i]
  BY SMTT(20), <1>1, <1>2, <1>3
<1>5. ASSUME NEW n \in S, Len(p) < ListNames \/ KeyOf(n) <= KeyOf(p[Len(p)])
      PROVE  \E i \in 1..Len(p) : p[i] = n
  <2>1. PICK i \in 1..Len(s) : s[i] = n
    BY <1>1
  <2>2. i <= k
    <3>1. SUFFICES ASSUME k < i PROVE FALSE
      BY SMTT(20), <1>2, <1>1
    <3>2. k \in 1..Len(s) /\ k = ListNames
      <4>1. i \in Int /\ k \in Int /\ Len(s) \in Int /\ i <= Len(s)
        BY SMTT(20), <1>1, <1>2, <2>1
      <4>2. k # Len(s) /\ k # 0
        BY SMTT(20), <1>2, <3>1, <4>1
      <4>3. ~(k < ListNames)
        BY <1>2, <4>2
      <4>4. k <= ListNames
        BY SMTT(20), <1>1, <1>2 DEF k, Smaller
      <4>. QED BY SMTT(20), <1>1, <1>2, <4>1, <4>2, <4>3, <4>4
    <3>3. KeyOf(s[k]) < KeyOf(n) /\ p[k] = s[k]
      BY SMTT(20), <1>1, <1>4, <2>1, <3>1, <3>2
    <3>4. s[k] \in Nat /\ n \in Nat
      <4>1. s[k] \in S
        BY SMTT(20), <1>1, <3>2
      <4>. QED BY <4>1
    <3>5. KeyOf(s[k]) \in Nat /\ KeyOf(n) \in Nat
      BY <3>4, Keys
    <3>. QED BY SMTT(20), <1>4, <1>5, <3>2, <3>3, <3>5
  <2>. QED BY SMTT(20), <1>1, <1>2, <1>4, <2>1, <2>2
<1>6. \A i, j \in 1..Len(p) : i < j => KeyOf(p[i]) < KeyOf(p[j])
  BY SMTT(20), <1>1, <1>2, <1>4
<1>. QED BY SMTT(20), <1>2, <1>4, <1>5, <1>6

-----------------------------------------------------------------------------
(* A read, buffer by buffer.                                               *)

LEMMA Buffers ==
  /\ Len(Iov) \in Nat /\ DOMAIN Iov = 1..Len(Iov)
  /\ \A i \in 0..Len(Iov) : Upto(i) \in Nat /\ Upto(i) <= SumOver(Iov, DOMAIN Iov)
  /\ \A i \in 1..Len(Iov) : Iov[i] \in Nat /\ Upto(i) = Upto(i - 1) + Iov[i]
  /\ Upto(0) = 0 /\ Upto(Len(Iov)) = SumOver(Iov, DOMAIN Iov)
<1>1. Len(Iov) \in Nat /\ DOMAIN Iov = 1..Len(Iov) /\ \A i \in 1..Len(Iov) : Iov[i] \in Nat
  BY SMTT(20), NfsConfig
<1>2. IsFiniteSet(1..Len(Iov))
  BY SMTT(20), <1>1, FS_Interval
<1>3. Upto(0) = 0
  <2>1. 1..0 = {}
    BY SMTT(20)
  <2>. QED BY <2>1, SumEmpty DEF Upto
<1>4. ASSUME NEW i \in 0..Len(Iov)
      PROVE  Upto(i) \in Nat /\ Upto(i) <= SumOver(Iov, DOMAIN Iov)
  <2>1. 1..i \in SUBSET (1..Len(Iov)) /\ IsFiniteSet(1..i)
    BY SMTT(20), <1>1, <1>2, SubsetFinite
  <2>2. \A x \in 1..i : Iov[x] \in Nat
    BY <1>1, <2>1
  <2>3. SumOver(Iov, 1..i) \in Nat
    BY <2>1, <2>2, SumNonNegative
  <2>4. SumOver(Iov, 1..i) <= SumOver(Iov, 1..Len(Iov))
    BY <1>1, <1>2, <2>1, SumMonotone
  <2>. QED BY <1>1, <2>3, <2>4 DEF Upto
<1>5. ASSUME NEW i \in 1..Len(Iov)
      PROVE  Upto(i) = Upto(i - 1) + Iov[i]
  <2>1. 1..i \in SUBSET (1..Len(Iov)) /\ IsFiniteSet(1..i)
    BY SMTT(20), <1>1, <1>2, SubsetFinite
  <2>2. i \in 1..i /\ (1..i) \ {i} = 1..i - 1
    BY SMTT(20), <1>1
  <2>3. \A x \in 1..i : Iov[x] \in Int
    BY SMTT(20), <1>1, <2>1
  <2>4. SumOver(Iov, 1..i) = Iov[i] + SumOver(Iov, (1..i) \ {i})
    BY SMTT(20), <2>1, <2>2, <2>3, SumRemove
  <2>5. i - 1 \in 0..Len(Iov)
    BY SMTT(20), <1>1
  <2>6. Upto(i) = Iov[i] + Upto(i - 1)
    BY <2>2, <2>4 DEF Upto
  <2>. QED BY SMTT(20), <1>1, <1>4, <2>5, <2>6
<1>. QED BY <1>1, <1>3, <1>4, <1>5 DEF Upto

LEMMA BytesAre ==
  ASSUME NEW n \in Nat, NEW off \in Nat, NEW len \in Nat
  PROVE  /\ Bytes(n, off, len) \in Seq(Datum) /\ Len(Bytes(n, off, len)) = len
         /\ \A i \in 1..len : Bytes(n, off, len)[i] = <<n, off + i>>
BY SMTT(20) DEF Bytes, Datum

Join(n, off, a, b) == Bytes(n, off, a) \o Bytes(n, off + a, b) = Bytes(n, off, a + b)
LEMMA BytesJoin ==
  ASSUME NEW n \in Nat, NEW off \in Nat, NEW a \in Nat, NEW b \in Nat
  PROVE  Join(n, off, a, b)
<1>. DEFINE mid == off + a  len == a + b
            x == Bytes(n, off, a)  y == Bytes(n, mid, b)  z == Bytes(n, off, len)
            w == x \o y
<1>0. mid \in Nat /\ len \in Nat
  BY SMTT(20)
<1>. HIDE DEF mid, len
<1>1. x \in Seq(Datum) /\ Len(x) = a /\ \A i \in 1..a : x[i] = <<n, off + i>>
  BY BytesAre
<1>2. y \in Seq(Datum) /\ Len(y) = b /\ \A i \in 1..b : y[i] = <<n, mid + i>>
  BY <1>0, BytesAre
<1>3. z \in Seq(Datum) /\ Len(z) = len /\ \A i \in 1..len : z[i] = <<n, off + i>>
  BY <1>0, BytesAre
<1>. HIDE DEF x, y, z, Datum
<1>. SUFFICES w = z
  BY DEF x, y, z, mid, len, Join
<1>. USE <1>0 DEF mid, len
<1>4. /\ w \in Seq(Datum) /\ Len(w) = len
      /\ \A i \in 1..len : w[i] = IF i <= a THEN x[i] ELSE y[i - a]
  BY <1>1, <1>2, ConcatProperties
<1>. HIDE DEF w
<1>5. ASSUME NEW i \in 1..len PROVE w[i] = z[i]
  <2>1. CASE i <= a
    <3>1. w[i] = x[i] /\ i \in 1..a
      BY SMTT(20), <1>4, <2>1
    <3>. QED BY <1>1, <1>3, <3>1
  <2>2. CASE ~(i <= a)
    <3>1. w[i] = y[i - a] /\ i - a \in 1..b
      BY SMTT(20), <1>4, <2>2
    <3>2. mid + (i - a) = off + i
      BY SMTT(20)
    <3>. QED BY <1>2, <1>3, <3>1, <3>2
  <2>. QED BY <2>1, <2>2
<1>. QED BY <1>3, <1>4, <1>5, SeqEqual

LEMMA DoneIs ==
  ASSUME NEW k \in Task, NEW s \in {"OK", "FAILED"}, NEW d, d = Done(k, s)
  PROVE  /\ d \in Task /\ d.at = "done" /\ d.op = k.op /\ d.status = s /\ d.name = k.name
         /\ d.from = k.from /\ d.eof = k.eof /\ d.always = k.always
         /\ s = "OK" => d.data = k.data
<1>. DEFINE f == Forgotten(k)
            c == IF s = "OK" THEN k.data ELSE <<>>
<1>1. f \in Task
  BY DEF Forgotten, Task
<1>2. /\ f.op = k.op /\ f.name = k.name /\ f.from = k.from /\ f.eof = k.eof
      /\ f.always = k.always /\ f.data = k.data
  BY DEF Forgotten, Task
<1>3. d = [f EXCEPT !.at = "done", !.status = s, !.data = c]
  BY <1>2 DEF Done
<1>4. c \in Seq(Datum) /\ (s = "OK" => c = k.data)
  BY SMTT(20) DEF Task
<1>. HIDE DEF c, f
<1>5. d \in Task
  BY <1>1, <1>3, <1>4 DEF Task
<1>6. /\ d.at = "done" /\ d.op = f.op /\ d.status = s /\ d.name = f.name
      /\ d.from = f.from /\ d.eof = f.eof /\ d.always = f.always /\ d.data = c
  BY <1>1, <1>3, <1>4 DEF Task
<1>. QED BY <1>2, <1>4, <1>5, <1>6

LEMMA EofIs ==
  ASSUME NEW k \in Task, NEW e \in BOOLEAN, NEW d, d = [k EXCEPT !.eof = e]
  PROVE  /\ d \in Task /\ d.at = k.at /\ d.op = k.op /\ d.status = k.status /\ d.name = k.name
         /\ d.from = k.from /\ d.eof = e /\ d.always = k.always /\ d.data = k.data
BY DEF Task

(* A read that goes on asks for what it should, or has what it should.     *)
LEMMA ReadGoesOn ==
  ASSUME NEW k \in Task, k.op = "read", ReadSoFar(k, names), NEW d, d = ReadNext(k)
  PROVE  d \in Task /\ d.op = "read" /\ d.at \in {"ask", "done"} /\ TaskRight(d, names)
<1>1. /\ k.name \in names \ Dirs /\ k.size = Size[k.name]
      /\ k.iov \in 1..Len(Iov) + 1 /\ k.eof = FALSE /\ k.status = "OK"
      /\ k.off >= k.from /\ k.data = Bytes(k.name, k.from, k.off - k.from)
      /\ \/ k.off = k.from + Upto(k.iov - 1)
         \/ k.off = k.size /\ k.off < k.from + Upto(k.iov - 1)
      /\ k.off <= k.size \/ k.off = k.from
  BY DEF ReadSoFar
<1>2. k.off \in Nat /\ k.from \in Nat /\ k.size \in Nat /\ k.iov \in Nat
  BY DEF Task
<1>3. /\ Len(Iov) \in Nat /\ k.iov - 1 \in 0..Len(Iov)
      /\ Upto(k.iov - 1) \in Nat /\ Upto(k.iov - 1) <= SumOver(Iov, DOMAIN Iov)
      /\ Upto(Len(Iov)) = SumOver(Iov, DOMAIN Iov)
  <2>1. Len(Iov) \in Nat /\ k.iov - 1 \in 0..Len(Iov)
    <3>1. Len(Iov) \in Nat /\ k.iov \in 1..Len(Iov) + 1
      BY <1>1, Buffers
    <3>. QED BY SMTT(20), <3>1
  <2>. QED BY <2>1, Buffers
<1>4. CASE k.iov > Len(Iov) \/ k.off >= k.size
  <2>. DEFINE e == k.eof \/ k.off >= k.size
              m == [k EXCEPT !.eof = e]
              total == SumOver(Iov, DOMAIN Iov)
              n == Larger(0, Smaller(total, k.size - k.from))
  <2>1. e \in BOOLEAN /\ (e <=> k.off >= k.size)
    BY <1>1
  <2>2. d = Done(m, "OK")
    BY <1>4 DEF ReadNext
  <2>. HIDE DEF e
  <2>3. /\ m \in Task /\ m.op = "read" /\ m.name = k.name /\ m.from = k.from /\ m.eof = e
        /\ m.data = k.data
    BY SMTT(20), <2>1, EofIs
  <2>. HIDE DEF m
  <2>4. /\ d \in Task /\ d.at = "done" /\ d.op = "read" /\ d.status = "OK" /\ d.name = k.name
        /\ d.from = k.from /\ d.eof = e /\ d.data = k.data
    BY SMTT(20), <2>2, <2>3, DoneIs
  <2>5. n = k.off - k.from
    <3>1. total \in Nat
      BY SMTT(20), <1>3, Buffers
    <3>. HIDE DEF total
    <3>2. CASE k.off >= k.size
      <4>. DEFINE u == Upto(k.iov - 1)  off == k.off  from == k.from  size == k.size
      <4>1. /\ u \in Nat /\ off \in Nat /\ from \in Nat /\ size \in Nat /\ u <= total
            /\ off >= from /\ off >= size
            /\ off = from + u \/ (off = size /\ off < from + u)
            /\ off <= size \/ off = from
        BY <1>1, <1>2, <1>3, <3>2 DEF total
      <4>. HIDE DEF u, off, from, size
      <4>2. Larger(0, Smaller(total, size - from)) = off - from
        BY SMTT(20), <3>1, <4>1 DEF Larger, Smaller
      <4>. QED BY <4>2 DEF off, from, size
    <3>3. CASE k.off < k.size
      <4>1. k.iov - 1 = Len(Iov)
        BY SMTT(20), <1>1, <1>2, <1>3, <1>4, <3>3
      <4>2. k.off = k.from + total
        BY SMTT(20), <1>1, <1>2, <1>3, <3>3, <4>1 DEF total
      <4>. QED BY SMTT(20), <1>2, <3>1, <3>3, <4>2 DEF Larger, Smaller
    <3>. QED BY SMTT(20), <1>2, <3>2, <3>3
  <2>. HIDE DEF n
  <2>6. k.from + n >= k.size <=> k.off >= k.size
    BY SMTT(20), <1>2, <2>5
  <2>7. ReadDone(d)
    <3>1. d.data = Bytes(d.name, d.from, n)
      BY <1>1, <2>4, <2>5
    <3>2. d.eof = (d.from + n >= Size[d.name])
      BY SMTT(20), <1>1, <2>1, <2>4, <2>6
    <3>3. n = Larger(0, Smaller(SumOver(Iov, DOMAIN Iov), Size[d.name] - d.from))
      BY <1>1, <2>4 DEF n, total
    <3>. QED BY <3>1, <3>2, <3>3 DEF ReadDone
  <2>. QED BY <2>4, <2>7 DEF TaskRight, Asking
<1>5. CASE ~(k.iov > Len(Iov) \/ k.off >= k.size)
  <2>1. k.iov \in 1..Len(Iov) /\ k.off < k.size
    <3>1. k.iov \in 1..Len(Iov)
      <4>1. Len(Iov) \in Nat /\ k.iov \in 1..Len(Iov) + 1 /\ ~(k.iov > Len(Iov))
        BY <1>1, <1>3, <1>5
      <4>. QED BY SMTT(20), <4>1
    <3>. QED BY SMTT(20), <1>2, <1>5, <3>1
  <2>2. Clamped(k) \in Nat
    BY SMTT(20), <1>2, <2>1, Buffers DEF Clamped, Smaller
  <2>3. d = [k EXCEPT !.at = "ask", !.len = Clamped(k)]
    BY <1>5 DEF ReadNext
  <2>4. d \in Task
    BY <2>2, <2>3 DEF Task
  <2>5. /\ d.op = "read" /\ d.at = "ask" /\ d.len = Clamped(k) /\ d.name = k.name
        /\ d.size = k.size /\ d.iov = k.iov /\ d.eof = k.eof /\ d.status = k.status
        /\ d.off = k.off /\ d.from = k.from /\ d.data = k.data
    BY <2>2, <2>3 DEF Task
  <2>6. Reading(d, names)
    <3>1. ReadSoFar(d, names)
      BY <1>1, <2>5 DEF ReadSoFar
    <3>2. Clamped(d) = Clamped(k)
      BY <2>5 DEF Clamped
    <3>. QED BY SMTT(20), <2>1, <2>5, <3>1, <3>2 DEF Reading
  <2>. QED BY <2>4, <2>5, <2>6 DEF TaskRight, Asking
<1>. QED BY <1>4, <1>5

(* What a read makes of a reply to what it asked.                          *)
LEMMA ReadGotRight ==
  ASSUME NEW k \in Task, k.op = "read", Reading(k, names), NEW r, ReplyRight(k, r, names),
         names \subseteq Names, NEW d, d = ReadGot(k, r)
  PROVE  d \in Task /\ d.op = "read" /\ d.at \in {"ask", "done"} /\ TaskRight(d, names)
<1>1. r \in Reply /\ (r.status = "OK" => r.data = Bytes(k.name, k.off, k.len))
  BY DEF ReplyRight
<1>2. CASE r.status = "FAILED"
  <2>1. d = Done(k, "FAILED")
    BY <1>2 DEF ReadGot
  <2>2. d \in Task /\ d.at = "done" /\ d.op = "read" /\ d.status = "FAILED"
    BY SMTT(20), <2>1, DoneIs
  <2>. QED BY <2>2 DEF TaskRight, Asking
<1>3. CASE r.status = "OK"
  <2>. DEFINE m == [k EXCEPT !.data = @ \o r.data, !.off = @ + Len(r.data), !.iov = @ + 1]
              c == k.data \o r.data  o == k.off + k.len  v == k.iov + 1
  <2>1. /\ k.off \in Nat /\ k.from \in Nat /\ k.size \in Nat /\ k.iov \in Nat /\ k.len \in Nat
        /\ k.name \in Nat
    BY DEF Task
  <2>2. r.data \in Seq(Datum) /\ Len(r.data) = k.len
    <3>1. /\ Bytes(k.name, k.off, k.len) \in Seq(Datum)
          /\ Len(Bytes(k.name, k.off, k.len)) = k.len
      <4>1. \A n, f, x \in Nat : Bytes(n, f, x) \in Seq(Datum) /\ Len(Bytes(n, f, x)) = x
        BY BytesAre
      <4>2. k.name \in Nat /\ k.off \in Nat /\ k.len \in Nat
        BY <2>1
      <4>. QED BY <4>1, <4>2
    <3>. QED BY <1>1, <1>3, <3>1
  <2>3. d = ReadNext(m)
    BY SMTT(20), <1>3, <2>1, <2>2 DEF ReadGot
  <2>4. c \in Seq(Datum) /\ o \in Nat /\ v \in Nat
    <3>1. k.data \in Seq(Datum)
      BY DEF Task
    <3>. QED BY SMTT(20), <2>1, <2>2, <3>1
  <2>5. m = [k EXCEPT !.data = c, !.off = o, !.iov = v]
    BY <2>2
  <2>. HIDE DEF m, c, o, v
  <2>14. m \in Task
    BY <2>4, <2>5 DEF Task
  <2>15. /\ m.op = "read" /\ m.name = k.name /\ m.size = k.size /\ m.iov = v
        /\ m.eof = k.eof /\ m.status = k.status /\ m.off = o
        /\ m.from = k.from /\ m.data = c
    BY <2>4, <2>5 DEF Task
  <2>6. /\ m.op = "read" /\ m.name = k.name /\ m.size = k.size /\ m.iov = k.iov + 1
        /\ m.eof = k.eof /\ m.status = k.status /\ m.off = k.off + k.len
        /\ m.from = k.from /\ m.data = k.data \o r.data
    BY <2>15 DEF c, o, v
  <2>7. /\ k.name \in names \ Dirs /\ k.size = Size[k.name]
        /\ k.iov \in 1..Len(Iov) /\ k.eof = FALSE /\ k.status = "OK" /\ k.off < k.size
        /\ k.off >= k.from /\ k.data = Bytes(k.name, k.from, k.off - k.from)
        /\ k.off = k.from + Upto(k.iov - 1)
        /\ k.len = Clamped(k)
    BY SMTT(20), <2>1, Buffers DEF Reading, ReadSoFar
  <2>8. /\ Len(Iov) \in Nat /\ Iov[k.iov] \in Nat /\ Upto(k.iov) = Upto(k.iov - 1) + Iov[k.iov]
        /\ Upto(k.iov - 1) \in Nat /\ Upto(k.iov) \in Nat
    <3>1. k.iov - 1 \in 0..Len(Iov) /\ k.iov \in 0..Len(Iov)
      BY SMTT(20), <2>1, <2>7, Buffers
    <3>. QED BY <2>7, <3>1, Buffers
  <2>9. /\ k.off + k.len <= k.size /\ k.off + k.len >= k.from
        /\ \/ k.off + k.len = k.from + Upto(k.iov)
           \/ k.off + k.len = k.size /\ k.off + k.len < k.from + Upto(k.iov)
    <3>. DEFINE u == Upto(k.iov - 1)  w == Upto(k.iov)  b == Iov[k.iov]
                off == k.off  from == k.from  size == k.size  len == k.len
    <3>1. /\ u \in Nat /\ w \in Nat /\ b \in Nat /\ w = u + b /\ off = from + u
          /\ len = Smaller(b, size - off) /\ off < size /\ off >= from
          /\ off \in Nat /\ from \in Nat /\ size \in Nat /\ len \in Nat
      BY <2>1, <2>7, <2>8 DEF Clamped
    <3>. HIDE DEF u, w, b, off, from, size, len
    <3>2. /\ off + len <= size /\ off + len >= from
          /\ off + len = from + w \/ (off + len = size /\ off + len < from + w)
      BY SMTT(20), <3>1 DEF Smaller
    <3>. QED BY <3>2 DEF w, off, from, size, len
  <2>10. m.data = Bytes(m.name, m.from, m.off - m.from)
    <3>. DEFINE n == k.name  f == k.from  a == k.off - k.from  x == k.len
                o1 == k.off  c1 == m.off - m.from
    <3>1. n \in Nat /\ f \in Nat /\ a \in Nat /\ x \in Nat
      BY SMTT(20), <2>1, <2>6, <2>7
    <3>2. o1 = f + a /\ c1 = a + x
      BY SMTT(20), <2>1, <2>6, <2>7
    <3>3. k.data = Bytes(n, f, a) /\ r.data = Bytes(n, o1, x) /\ m.name = n /\ m.from = f
      BY <1>1, <1>3, <2>6, <2>7
    <3>. HIDE DEF n, f, a, x, o1, c1
    <3>4. Join(n, f, a, x)
      BY <3>1, BytesJoin
    <3>5. Bytes(n, f, a) \o Bytes(n, o1, x) = Bytes(n, f, c1)
      BY <3>2, <3>4 DEF Join
    <3>6. m.data = Bytes(m.name, m.from, c1)
      BY <2>6, <3>3, <3>5
    <3>. QED BY <3>6 DEF c1
  <2>11. \/ m.off = m.from + Upto(m.iov - 1)
         \/ m.off = m.size /\ m.off < m.from + Upto(m.iov - 1)
    <3>1. m.iov - 1 = k.iov
      BY SMTT(20), <2>1, <2>6
    <3>. QED BY <2>6, <2>9, <3>1
  <2>12. /\ m.iov \in 1..Len(Iov) + 1 /\ m.off >= m.from
         /\ m.off <= m.size
    <3>1. k.iov + 1 \in 1..Len(Iov) + 1
      BY SMTT(20), <2>7, <2>8
    <3>. QED BY <2>6, <2>9, <3>1
  <2>13. ReadSoFar(m, names)
    BY <2>6, <2>7, <2>10, <2>11, <2>12 DEF ReadSoFar
  <2>. QED BY <2>3, <2>14, <2>6, <2>13, ReadGoesOn
<1>. QED BY <1>1, <1>2, <1>3 DEF Reply

-----------------------------------------------------------------------------
(* A listing, page by page.                                                *)

Has(s, n) == \E i \in 1..Len(s) : s[i] = n
EndOf(after, page) == IF page = <<>> THEN after ELSE Last(page)

Fits(data, page, after) ==
    LET c == data \o page  end == EndOf(after, page) IN
    /\ Ascending(c) /\ (\A i \in 1..Len(c) : c[i] <= end)
    /\ \A n : Has(c, n) <=> Has(data, n) \/ Has(page, n)

(* A page after what was listed leaves the whole in order.                 *)
LEMMA PageJoins ==
  ASSUME NEW N \in SUBSET Nat, NEW data \in Seq(N), NEW page \in Seq(N), NEW after \in Nat,
         Ascending(data), \A i \in 1..Len(data) : data[i] <= after,
         Ascending(page), \A i \in 1..Len(page) : page[i] > after
  PROVE  Fits(data, page, after)
<1>. DEFINE c == data \o page  end == EndOf(after, page)
<1>1. /\ c \in Seq(N) /\ Len(c) = Len(data) + Len(page) /\ Len(data) \in Nat /\ Len(page) \in Nat
      /\ \A i \in 1..Len(c) : c[i] = IF i <= Len(data) THEN data[i] ELSE page[i - Len(data)]
  BY SMTT(20), ConcatProperties
<1>. HIDE DEF c
<1>2. \A i \in 1..Len(c) : i <= Len(data) => i \in 1..Len(data) /\ c[i] = data[i]
  BY SMTT(20), <1>1
<1>3. \A i \in 1..Len(c) : ~(i <= Len(data))
          => i - Len(data) \in 1..Len(page) /\ c[i] = page[i - Len(data)]
  BY SMTT(20), <1>1
<1>4. /\ \A i \in 1..Len(data) : data[i] \in Nat /\ data[i] <= after
      /\ \A i \in 1..Len(page) : page[i] \in Nat /\ page[i] > after
  <2>1. \A i \in 1..Len(data) : data[i] \in N
    BY SMTT(20)
  <2>2. \A i \in 1..Len(page) : page[i] \in N
    BY SMTT(20)
  <2>. QED BY <2>1, <2>2
<1>5. Ascending(c)
  <2>1. SUFFICES ASSUME NEW i \in 1..Len(c), NEW j \in 1..Len(c), i < j PROVE c[i] < c[j]
    BY DEF Ascending
  <2>2. CASE j <= Len(data)
    <3>1. i <= Len(data)
      BY SMTT(20), <1>1, <2>1, <2>2
    <3>. QED BY <1>2, <2>1, <2>2, <3>1 DEF Ascending
  <2>3. CASE ~(i <= Len(data))
    <3>1. ~(j <= Len(data)) /\ i - Len(data) < j - Len(data)
      BY SMTT(20), <1>1, <2>1, <2>3
    <3>. QED BY <1>3, <2>3, <3>1 DEF Ascending
  <2>4. CASE i <= Len(data) /\ ~(j <= Len(data))
    <3>1. c[i] \in Nat /\ c[i] <= after /\ c[j] \in Nat /\ c[j] > after
      BY <1>2, <1>3, <1>4, <2>4
    <3>. QED BY SMTT(20), <3>1
  <2>. QED BY <2>2, <2>3, <2>4
<1>6. /\ end \in Nat /\ end >= after
      /\ \A i \in 1..Len(page) : page[i] <= end
  <2>1. CASE page = <<>>
    BY SMTT(20), <2>1 DEF EndOf
  <2>2. CASE page # <<>>
    <3>1. end = page[Len(page)] /\ Len(page) \in 1..Len(page)
      BY SMTT(20), <1>1, <2>2 DEF EndOf, Last
    <3>2. ASSUME NEW i \in 1..Len(page) PROVE page[i] <= end
      <4>1. CASE i = Len(page)
        BY SMTT(20), <1>4, <3>1, <4>1
      <4>2. CASE i < Len(page)
        <5>1. page[i] < page[Len(page)]
          BY <3>1, <4>2 DEF Ascending
        <5>2. page[i] \in Nat /\ page[Len(page)] \in Nat
          BY <1>4, <3>1
        <5>. QED BY SMTT(20), <3>1, <5>1, <5>2
      <4>. QED BY SMTT(20), <1>1, <4>1, <4>2
    <3>. QED BY SMTT(20), <1>4, <3>1, <3>2
  <2>. QED BY <2>1, <2>2
<1>7. ASSUME NEW i \in 1..Len(c) PROVE c[i] <= end
  <2>1. CASE i <= Len(data)
    <3>1. c[i] \in Nat /\ c[i] <= after
      BY <1>2, <1>4, <2>1
    <3>. QED BY SMTT(20), <1>6, <3>1
  <2>2. CASE ~(i <= Len(data))
    BY <1>3, <1>6, <2>2
  <2>. QED BY <2>1, <2>2
<1>8. ASSUME NEW n PROVE Has(c, n) <=> Has(data, n) \/ Has(page, n)
  <2>1. Has(c, n) => Has(data, n) \/ Has(page, n)
    BY <1>2, <1>3 DEF Has
  <2>2. Has(data, n) => Has(c, n)
    <3>1. ASSUME NEW i \in 1..Len(data) PROVE i \in 1..Len(c) /\ c[i] = data[i]
      BY SMTT(20), <1>1
    <3>. QED BY <3>1 DEF Has
  <2>3. Has(page, n) => Has(c, n)
    <3>1. ASSUME NEW i \in 1..Len(page)
          PROVE  i + Len(data) \in 1..Len(c) /\ c[i + Len(data)] = page[i]
      <4>. DEFINE j == i + Len(data)
      <4>1. j \in 1..Len(c) /\ ~(j <= Len(data)) /\ j - Len(data) = i
        BY SMTT(20), <1>1
      <4>. HIDE DEF j
      <4>2. c[j] = page[i]
        BY <1>3, <4>1
      <4>. QED BY <4>1, <4>2 DEF j
    <3>. QED BY <3>1 DEF Has
  <2>. QED BY <2>1, <2>2, <2>3
<1>. QED BY <1>5, <1>6, <1>7, <1>8 DEF Fits, c

(* What is in order names nothing twice.                                   *)
LEMMA AscendingIsInjective ==
  ASSUME NEW N \in SUBSET Nat, NEW s \in Seq(N), Ascending(s)
  PROVE  IsInjective(s) /\ \A n : Has(s, n) => n \in Range(s)
<1>1. DOMAIN s = 1..Len(s) /\ Len(s) \in Nat
  BY SMTT(20)
<1>2. \A i \in 1..Len(s) : s[i] \in Nat
  <2>1. \A i \in 1..Len(s) : s[i] \in N
    BY SMTT(20)
  <2>. QED BY <2>1
<1>3. ASSUME NEW i \in 1..Len(s), NEW j \in 1..Len(s), s[i] = s[j] PROVE i = j
  <2>1. ~(i < j)
    BY SMTT(20), <1>2, <1>3 DEF Ascending
  <2>2. ~(j < i)
    BY SMTT(20), <1>2, <1>3 DEF Ascending
  <2>. QED BY SMTT(20), <1>1, <2>1, <2>2
<1>4. IsInjective(s)
  BY <1>1, <1>3 DEF IsInjective
<1>5. \A n : Has(s, n) => n \in Range(s)
  BY <1>1 DEF Has, Range
<1>. QED BY <1>4, <1>5

(* What a listing makes of a page that answers it.                         *)
LEMMA ListGotRight ==
  ASSUME NEW k \in Task, k.op = "list", Listing(k, names), NEW r, ReplyRight(k, r, names),
         names \subseteq Names, NEW d, d = ListGot(k, r)
  PROVE  d \in Task /\ d.op = "list" /\ d.at \in {"ask", "done"} /\ TaskRight(d, names)
<1>1. r \in Reply /\ (r.status = "OK" => PageRight(k, r.data, names))
  BY DEF ReplyRight
<1>2. CASE r.status = "FAILED"
  <2>1. d = Done(k, "FAILED")
    BY <1>2 DEF ListGot
  <2>2. d \in Task /\ d.at = "done" /\ d.op = "list" /\ d.status = "FAILED"
    BY SMTT(20), <2>1, DoneIs
  <2>. QED BY <2>2 DEF TaskRight, Asking
<1>3. CASE r.status = "OK"
  <2>. DEFINE page == r.data
              c == k.data \o page
              end == EndOf(k.after, page)
              more == [k EXCEPT !.data = c, !.after = end]
  <2>1. names \in SUBSET Nat /\ k.after \in Nat /\ ListNames \in Nat
    BY NfsConfig DEF Task
  <2>2. /\ k.data \in Seq(names) /\ page \in Seq(names) /\ c \in Seq(names)
        /\ Len(page) \in Nat
    BY SMTT(20), <1>1, <1>3 DEF Listing, PageRight
  <2>3. end \in Nat
    <3>1. CASE page = <<>>
      BY <2>1, <3>1 DEF EndOf
    <3>2. CASE page # <<>>
      <4>1. end = page[Len(page)] /\ Len(page) \in 1..Len(page)
        BY SMTT(20), <2>2, <3>2 DEF EndOf, Last
      <4>2. page[Len(page)] \in names
        BY SMTT(20), <2>2, <4>1
      <4>. QED BY <2>1, <4>1, <4>2
    <3>. QED BY <3>1, <3>2
  <2>4. InOrder =>
          /\ Ascending(c) /\ (\A i \in 1..Len(c) : c[i] <= end)
          /\ \A n \in k.always : n <= end \/ Len(page) < ListNames => Has(c, n)
    <3>1. SUFFICES ASSUME InOrder
                   PROVE  /\ Ascending(c) /\ (\A i \in 1..Len(c) : c[i] <= end)
                          /\ \A n \in k.always : n <= end \/ Len(page) < ListNames => Has(c, n)
      OBVIOUS
    <3>2. /\ Ascending(k.data) /\ \A i \in 1..Len(k.data) : k.data[i] <= k.after
          /\ \A n \in k.always : n <= k.after => Has(k.data, n)
      BY <3>1 DEF Listing, Has
    <3>3. /\ Ascending(page) /\ \A i \in 1..Len(page) : page[i] > k.after
          /\ \A n \in k.always :
                n > k.after /\ (Len(page) < ListNames \/ n <= page[Len(page)]) => Has(page, n)
      BY <1>1, <1>3, <3>1 DEF PageRight, Has
    <3>. DEFINE listed == k.data  after == k.after
    <3>6. /\ listed \in Seq(names) /\ after \in Nat /\ Ascending(listed)
          /\ \A i \in 1..Len(listed) : listed[i] <= after
          /\ \A i \in 1..Len(page) : page[i] > after
      BY <2>1, <2>2, <3>2, <3>3
    <3>7. c = listed \o page /\ end = EndOf(after, page)
      OBVIOUS
    <3>. HIDE DEF page, listed, after, c, end
    <3>8. /\ Ascending(c) /\ (\A i \in 1..Len(c) : c[i] <= end)
          /\ \A n : Has(c, n) <=> Has(listed, n) \/ Has(page, n)
      <4>1. names \in SUBSET Nat /\ page \in Seq(names) /\ Ascending(page)
        BY <2>1, <2>2, <3>3
      <4>2. Fits(listed, page, after)
        BY <3>6, <4>1, PageJoins
      <4>. QED BY <3>7, <4>2 DEF Fits
    <3>4. /\ Ascending(c) /\ (\A i \in 1..Len(c) : c[i] <= end)
          /\ \A n : Has(c, n) <=> Has(k.data, n) \/ Has(page, n)
      BY <3>8 DEF listed
    <3>5. ASSUME NEW n \in k.always, n <= end \/ Len(page) < ListNames PROVE Has(c, n)
      <4>1. n \in Nat
        BY <2>1 DEF Listing
      <4>2. CASE n <= k.after
        BY <3>2, <3>4, <4>2
      <4>3. CASE n > k.after
        <5>1. Len(page) < ListNames \/ n <= page[Len(page)]
          <6>1. CASE page = <<>>
            BY SMTT(20), <2>1, <3>5, <4>1, <4>3, <6>1 DEF EndOf, end
          <6>2. CASE page # <<>>
            BY <3>5, <6>2 DEF EndOf, Last, end
          <6>. QED BY <6>1, <6>2
        <5>. QED BY <3>3, <3>4, <4>3, <5>1
      <4>. QED BY SMTT(20), <2>1, <4>1, <4>2, <4>3
    <3>. QED BY <3>4, <3>5
  <2>5. c \in Seq(Datum)
    <3>1. names \subseteq Datum
      BY <2>1 DEF Datum
    <3>. HIDE DEF c, Datum
    <3>. QED BY <2>2, <3>1, SeqMonotonic
  <2>6. IF Len(page) < ListNames THEN d = Done([more EXCEPT !.eof = TRUE], "OK")
        ELSE d = [more EXCEPT !.at = "ask"]
    BY SMTT(20), <1>3, <2>1, <2>2 DEF ListGot, EndOf
  <2>. HIDE DEF c, end
  <2>7. more \in Task
    BY <2>3, <2>5 DEF Task
  <2>8. /\ more.op = "list" /\ more.data = c /\ more.after = end /\ more.always = k.always
    BY <2>3, <2>5 DEF Task
  <2>. HIDE DEF more
  <2>9. CASE Len(page) < ListNames
    <3>. DEFINE m == [more EXCEPT !.eof = TRUE]
    <3>1. d = Done(m, "OK")
      BY <2>6, <2>9
    <3>2. m \in Task /\ m.op = "list" /\ m.data = c /\ m.always = k.always
      BY <2>7, <2>8 DEF Task
    <3>. HIDE DEF m
    <3>3. d \in Task /\ d.at = "done" /\ d.op = "list" /\ d.data = c /\ d.always = k.always
      BY SMTT(20), <3>1, <3>2, DoneIs
    <3>4. InOrder => ListDone(d)
      <4>1. SUFFICES ASSUME InOrder PROVE ListDone(d)
        OBVIOUS
      <4>2. Ascending(c) /\ \A n \in k.always : Has(c, n)
        BY <2>4, <2>9, <4>1
      <4>3. IsInjective(c) /\ \A n : Has(c, n) => n \in Range(c)
        BY <2>1, <2>2, <4>2, AscendingIsInjective
      <4>. QED BY <3>3, <4>2, <4>3 DEF ListDone
    <3>. QED BY <3>3, <3>4 DEF TaskRight, Asking
  <2>10. CASE ~(Len(page) < ListNames)
    <3>1. d = [more EXCEPT !.at = "ask"]
      BY <2>6, <2>10
    <3>2. d \in Task
      BY <2>7, <3>1 DEF Task
    <3>3. /\ d.op = "list" /\ d.data = c /\ d.after = end /\ d.always = k.always
          /\ d.at = "ask"
      BY <2>7, <2>8, <3>1 DEF Task
    <3>4. Listing(d, names)
      <4>1. c \in Seq(names) /\ k.always \subseteq names
        BY <2>2 DEF Listing
      <4>. QED BY <2>4, <3>3, <4>1 DEF Listing, Has
    <3>. QED BY <3>2, <3>3, <3>4 DEF TaskRight, Asking
  <2>. QED BY <2>9, <2>10
<1>. QED BY <1>1, <1>2, <1>3 DEF Reply

-----------------------------------------------------------------------------
(* Replies.                                                                *)

LEMMA FailureRight ==
  ASSUME NEW k, NEW N
  PROVE  ReplyRight(k, Error("FAILED"), N)
BY SMTT(20) DEF ReplyRight, Error, Reply

(* What the agent answers to what a task asks is a reply to it.            *)
LEMMA AnswerRight ==
  ASSUME names \subseteq Names, NEW k \in Task, TaskRight(k, names), Asking(k),
         NEW r, r = Answer(Ask(k, k.op))
  PROVE  ReplyRight(k, r, names)
<1>. DEFINE q == Ask(k, k.op)
<1>1. q.op = k.op /\ q.name = k.name /\ q.off = k.off /\ q.len = k.len /\ q.after = k.after
  BY DEF Ask
<1>2. k.name \in Nat /\ k.off \in Nat /\ k.len \in Nat /\ k.after \in Nat /\ names \in SUBSET Nat
  BY NfsConfig DEF Task
<1>3. r = Answer(q)
  OBVIOUS
<1>. HIDE DEF q
<1>4. CASE k.op = "size"
  <2>1. k.name \in names \ Dirs => Size[k.name] \in Nat
    BY NfsConfig DEF Names
  <2>2. CASE k.name \in names \ Dirs
    <3>1. r = OK(<<Size[k.name]>>)
      BY <1>1, <1>3, <1>4, <2>2 DEF Answer, AnswerSize
    <3>2. <<Size[k.name]>> \in Seq(Datum)
      BY SMTT(20), <2>1, <2>2 DEF Datum
    <3>3. r \in Reply /\ r.status = "OK" /\ r.data = <<Size[k.name]>>
      <4>. DEFINE data == <<Size[k.name]>>
      <4>. HIDE DEF data, Datum
      <4>1. r = OK(data) /\ data \in Seq(Datum)
        BY <3>1, <3>2 DEF data
      <4>2. r \in Reply /\ r.status = "OK" /\ r.data = data
        BY SMTT(20), <4>1 DEF OK, Reply
      <4>. QED BY <4>2 DEF data
    <3>. QED BY <1>4, <2>2, <3>3 DEF ReplyRight
  <2>3. CASE k.name \notin names \ Dirs
    <3>1. r = Error("FAILED")
      BY <1>1, <1>3, <1>4, <2>3 DEF Answer, AnswerSize
    <3>. QED BY <3>1, FailureRight
  <2>. QED BY <2>2, <2>3
<1>5. CASE k.op = "read"
  <2>1. Reading(k, names)
    BY <1>5 DEF TaskRight
  <2>2. /\ k.name \in names \ Dirs /\ k.size = Size[k.name] /\ k.iov \in 1..Len(Iov)
        /\ k.off < k.size /\ k.len = Clamped(k)
    BY SMTT(20), <2>1, Buffers DEF Reading, ReadSoFar
  <2>3. ~(k.off + k.len > Size[k.name])
    <3>1. k.size \in Nat /\ Iov[k.iov] \in Nat
      BY <2>2, Buffers DEF Task
    <3>. QED BY SMTT(20), <1>2, <2>2, <3>1 DEF Clamped, Smaller
  <2>4. r = OK(Bytes(k.name, k.off, k.len))
    BY <1>1, <1>3, <1>5, <2>2, <2>3 DEF Answer, AnswerRead
  <2>5. Bytes(k.name, k.off, k.len) \in Seq(Datum)
    <3>1. \A n, f, x \in Nat : Bytes(n, f, x) \in Seq(Datum)
      BY BytesAre
    <3>2. k.name \in Nat /\ k.off \in Nat /\ k.len \in Nat
      BY <1>2
    <3>. QED BY <3>1, <3>2
  <2>. QED BY SMTT(20), <1>5, <2>4, <2>5 DEF ReplyRight, OK, Reply
<1>6. CASE k.op = "list"
  <2>0. Listing(k, names)
    BY <1>6 DEF TaskRight
  <2>1. CASE Enumerates = "no"
    <3>1. r = Error("FAILED")
      BY <1>1, <1>3, <1>6, <2>1 DEF Answer, AnswerList
    <3>. QED BY <3>1, FailureRight
  <2>2. CASE Enumerates # "no"
    <3>. DEFINE S == {n \in names : KeyOf(n) > 2 * k.after}
                p == Page(ByKey(S))
    <3>1. r = OK(p)
      BY <1>1, <1>3, <1>6, <2>2 DEF Answer, AnswerList
    <3>2. S \in SUBSET names /\ S \in SUBSET Nat /\ IsFiniteSet(S)
      <4>1. S \in SUBSET Names /\ S \in SUBSET Nat
        BY <1>2
      <4>. QED BY <4>1, NfsConfig, SubsetFinite
    <3>8. \A n \in names : n \in S <=> KeyOf(n) > 2 * k.after
      OBVIOUS
    <3>. HIDE DEF S
    <3>3. /\ p \in Seq(S) /\ Len(p) \in Nat
          /\ \A i, j \in 1..Len(p) : i < j => KeyOf(p[i]) < KeyOf(p[j])
          /\ \A n \in S : Len(p) < ListNames \/ KeyOf(n) <= KeyOf(p[Len(p)])
                 => \E i \in 1..Len(p) : p[i] = n
      BY SMTT(20), <3>2, Pages
    <3>. HIDE DEF p
    <3>4. p \in Seq(names) /\ \A i \in 1..Len(p) : p[i] \in S /\ p[i] \in names /\ p[i] \in Nat
      <4>1. p \in Seq(names)
        BY <3>2, <3>3, SeqMonotonic
      <4>2. \A i \in 1..Len(p) : p[i] \in S
        BY SMTT(20), <3>3
      <4>. QED BY <1>2, <3>2, <4>1, <4>2
    <3>5. p \in Seq(Datum)
      <4>1. names \subseteq Datum
        BY <1>2 DEF Datum
      <4>. HIDE DEF Datum
      <4>. QED BY <3>4, <4>1, SeqMonotonic
    <3>6. PageRight(k, p, names)
      <4>1. SUFFICES ASSUME InOrder
                     PROVE  /\ Ascending(p)
                            /\ \A i \in 1..Len(p) : p[i] > k.after
                            /\ \A n \in k.always :
                                n > k.after /\ (Len(p) < ListNames \/ n <= p[Len(p)])
                                    => \E i \in 1..Len(p) : p[i] = n
        BY <3>4 DEF PageRight
      <4>2. \A n \in Nat : KeyOf(n) = 2 * n
        BY <4>1, Keys
      <4>3. Ascending(p)
        <5>1. ASSUME NEW i \in 1..Len(p), NEW j \in 1..Len(p), i < j PROVE p[i] < p[j]
          <6>1. KeyOf(p[i]) < KeyOf(p[j])
            BY <3>3, <5>1
          <6>2. p[i] \in Nat /\ p[j] \in Nat
            BY <3>4
          <6>3. 2 * p[i] < 2 * p[j]
            BY <4>2, <6>1, <6>2
          <6>. QED BY SMTT(20), <6>2, <6>3
        <5>. QED BY <5>1 DEF Ascending
      <4>4. ASSUME NEW i \in 1..Len(p) PROVE p[i] > k.after
        <5>1. p[i] \in Nat /\ p[i] \in names /\ p[i] \in S
          BY <3>4
        <5>2. KeyOf(p[i]) > 2 * k.after /\ KeyOf(p[i]) = 2 * p[i]
          BY <3>8, <4>2, <5>1
        <5>. QED BY SMTT(20), <1>2, <5>1, <5>2
      <4>5. ASSUME NEW n \in k.always, n > k.after, Len(p) < ListNames \/ n <= p[Len(p)]
            PROVE  \E i \in 1..Len(p) : p[i] = n
        <5>1. n \in names /\ n \in Nat
          BY <1>2, <2>0 DEF Listing
        <5>2. KeyOf(n) = 2 * n
          BY <4>2, <5>1
        <5>3. KeyOf(n) > 2 * k.after
          BY SMTT(20), <1>2, <4>5, <5>1, <5>2
        <5>4. n \in S
          BY <3>8, <5>1, <5>3
        <5>5. Len(p) < ListNames \/ KeyOf(n) <= KeyOf(p[Len(p)])
          <6>1. CASE Len(p) = 0
            BY SMTT(20), <6>1, NfsConfig
          <6>2. CASE Len(p) # 0
            <7>1. Len(p) \in 1..Len(p)
              BY SMTT(20), <3>3, <6>2
            <7>2. p[Len(p)] \in Nat
              BY <3>4, <7>1
            <7>3. KeyOf(p[Len(p)]) = 2 * p[Len(p)]
              BY <4>2, <7>2
            <7>. QED BY SMTT(20), <4>5, <5>1, <5>2, <7>2, <7>3
          <6>. QED BY <6>1, <6>2
        <5>. QED BY <3>3, <5>4, <5>5
      <4>. QED BY <4>3, <4>4, <4>5
    <3>. QED BY SMTT(20), <1>6, <3>1, <3>5, <3>6 DEF ReplyRight, OK, Reply
  <2>. QED BY <2>1, <2>2
<1>. QED BY <1>4, <1>5, <1>6 DEF TaskRight, Task

Fresh(w, op, n, off, size) ==
    /\ w \in Task /\ w.op = op /\ w.at = "ask" /\ w.name = n /\ w.off = off /\ w.size = size
    /\ w.after = 0 /\ w.iov = 1 /\ w.from = off /\ w.data = <<>> /\ w.eof = FALSE
    /\ w.status = "OK"
LEMMA WantIs ==
  ASSUME NEW op \in {"none", "size", "read", "list"}, NEW n \in Nat, NEW off \in Nat,
         NEW size \in Nat
  PROVE  Fresh(Want(op, n, off, size), op, n, off, size)
<1>1. <<>> \in Seq(Datum)
  BY SMTT(20)
<1>. HIDE DEF Datum
<1>2. Want(op, n, off, size) \in Task
  BY <1>1 DEF Want, Task
<1>. QED BY <1>2 DEF Want, Fresh

LEMMA IdleIs ==
  /\ Idle \in Task /\ Idle.at = "idle" /\ Idle.op = "none"
  /\ TaskRight(Idle, names)
<1>1. Idle \in Task /\ Idle.at = "idle" /\ Idle.op = "none"
  <2>. DEFINE w == Want("none", 0, 0, 0)
  <2>1. w \in Task /\ w.op = "none"
    <3>1. <<>> \in Seq(Datum)
      BY SMTT(20)
    <3>. HIDE DEF Datum
    <3>. QED BY <3>1 DEF Want, Task
  <2>2. Idle = [w EXCEPT !.at = "idle"]
    BY DEF Idle
  <2>. HIDE DEF w
  <2>. QED BY <2>1, <2>2 DEF Task
<1>. QED BY <1>1 DEF TaskRight, Asking

(* What an operation makes of a reply to what it asked.                    *)
LEMMA GotRight ==
  ASSUME names \subseteq Names, NEW k \in Task, TaskRight(k, names), Asking(k),
         NEW r, ReplyRight(k, r, names), NEW d, d = Got(k, r)
  PROVE  d \in Task /\ d.at \in {"idle", "ask", "done"} /\ TaskRight(d, names)
<1>1. CASE k.op = "size"
  BY <1>1, IdleIs DEF Got
<1>2. CASE k.op = "read"
  <2>1. d = ReadGot(k, r) /\ Reading(k, names)
    BY <1>2 DEF Got, TaskRight
  <2>. QED BY <1>2, <2>1, ReadGotRight
<1>3. CASE k.op = "list"
  <2>1. d = ListGot(k, r) /\ Listing(k, names)
    BY <1>3 DEF Got, TaskRight
  <2>. QED BY <1>3, <2>1, ListGotRight
<1>. QED BY <1>1, <1>2, <1>3 DEF TaskRight, Task

(* New names change nothing of this.                                       *)
LEMMA StillRight ==
  ASSUME NEW N, NEW M, N \subseteq M, NEW k
  PROVE  /\ TaskRight(k, N) => TaskRight(k, M)
         /\ \A r : ReplyRight(k, r, N) => ReplyRight(k, r, M)
<1>1. \A s : s \in Seq(N) => s \in Seq(M)
  BY SeqMonotonic
<1>2. Reading(k, N) => Reading(k, M)
  BY DEF Reading, ReadSoFar
<1>3. Listing(k, N) => Listing(k, M)
  BY <1>1 DEF Listing
<1>4. \A p : PageRight(k, p, N) => PageRight(k, p, M)
  BY <1>1 DEF PageRight
<1>5. TaskRight(k, N) => TaskRight(k, M)
  BY <1>2, <1>3 DEF TaskRight
<1>6. \A r : ReplyRight(k, r, N) => ReplyRight(k, r, M)
  BY <1>4 DEF ReplyRight
<1>. QED BY <1>5, <1>6

-----------------------------------------------------------------------------
(* The steps.                                                              *)

LEMMA NfsStart == NfsInit => NfsInv
<1>. SUFFICES ASSUME NfsInit PROVE NfsInv
  OBVIOUS
<1>1. NfsTypes
  BY SMTT(20), NfsConfig, IdleIs DEF NfsInit, NfsTypes, NoHandle
<1>2. \A t \in Threads : TaskRight(task[t], names)
  BY IdleIs DEF NfsInit
<1>3. FilesAreFiles
  BY SMTT(20) DEF NfsInit, FilesAreFiles, NoHandle
<1>4. LineInv
  BY IdleIs DEF NfsInit, LineInv, Usable, NoConn
<1>. QED BY <1>1, <1>2, <1>3, <1>4 DEF NfsInv

(* The end of an exchange leaves handles and tasks right.                  *)
LEMMA ResumeRight ==
  ASSUME NfsInv, NEW t \in Threads, Asking(task[t]), NEW r, ReplyRight(task[t], r, names),
         Resume(t, r), names' = names
  PROVE  /\ handle' \in [Names -> Int] /\ FilesAreFiles'
         /\ task' \in [Threads -> Task] /\ \A u \in Threads : TaskRight(task'[u], names)
         /\ task'[t].at # "sent" /\ \A u \in Threads \ {t} : task'[u] = task[u]
<1>1. /\ names \subseteq Names /\ handle \in [Names -> Int] /\ task \in [Threads -> Task]
      /\ FilesAreFiles /\ \A u \in Threads : TaskRight(task[u], names)
  BY DEF NfsInv, NfsTypes
<1>2. task[t] \in Task /\ TaskRight(task[t], names)
  BY <1>1
<1>3. task' = [task EXCEPT ![t] = Got(task[t], r)]
  BY DEF Resume
<1>4. /\ Got(task[t], r) \in Task /\ Got(task[t], r).at \in {"idle", "ask", "done"}
      /\ TaskRight(Got(task[t], r), names)
  BY <1>1, <1>2, GotRight
<1>5. /\ task' \in [Threads -> Task] /\ \A u \in Threads : TaskRight(task'[u], names)
      /\ task'[t].at # "sent" /\ \A u \in Threads \ {t} : task'[u] = task[u]
  BY <1>1, <1>3, <1>4
<1>6. \A n \in Names : n \notin Dirs => Size[n] \in Nat
  BY NfsConfig DEF Names
<1>7. \A n \in Names : handle[n] \in Int /\ (handle[n] >= 0 => n \in names \ Dirs /\ handle[n] = Size[n])
  BY <1>1 DEF FilesAreFiles
<1>8. SUFFICES /\ handle' \in [Names -> Int]
               /\ \A n \in Names : handle'[n] >= 0 => n \in names \ Dirs /\ handle'[n] = Size[n]
  BY <1>5 DEF FilesAreFiles
<1>9. CASE task[t].op = "size"
  <2>. DEFINE m == task[t].name
  <2>1. m \in Names /\ handle' = [handle EXCEPT ![m] = Known(r)]
    BY <1>2, <1>9 DEF Resume, TaskRight
  <2>2. /\ Known(r) \in Int /\ (Known(r) >= 0 => m \in names \ Dirs /\ Known(r) = Size[m])
    <3>1. CASE r.status = "OK"
      <4>1. m \in names \ Dirs /\ r.data = <<Size[m]>>
        BY <1>9, <3>1 DEF ReplyRight
      <4>2. Known(r) = Size[m]
        BY SMTT(20), <3>1, <4>1 DEF Known
      <4>. QED BY SMTT(20), <1>6, <2>1, <4>1, <4>2
    <3>2. CASE r.status # "OK"
      BY SMTT(20), <3>2 DEF Known, Directory
    <3>. QED BY <3>1, <3>2
  <2>. HIDE DEF m
  <2>. QED BY <1>1, <1>7, <2>1, <2>2
<1>10. CASE task[t].op = "list"
  <2>. DEFINE R == Range(r.data)
  <2>1. handle' = [n \in Names |-> IF n \in R THEN Listed(n) ELSE handle[n]]
    BY <1>10 DEF Resume
  <2>2. R \subseteq names
    <3>1. r.data \in Seq(names)
      <4>1. CASE r.status = "OK"
        BY <1>10, <4>1 DEF ReplyRight, PageRight
      <4>2. CASE r.status # "OK"
        <5>1. r.data = <<>>
          BY <4>2 DEF ReplyRight
        <5>. QED BY SMTT(20), <5>1
      <4>. QED BY <4>1, <4>2
    <3>. QED BY SMTT(20), <3>1 DEF Range
  <2>. HIDE DEF R
  <2>3. \A n \in R : /\ Listed(n) \in Int
                     /\ Listed(n) >= 0 => n \in names \ Dirs /\ Listed(n) = Size[n]
    BY SMTT(20), <1>1, <1>6, <1>7, <2>2 DEF Listed, Directory
  <2>. QED BY <1>1, <1>7, <2>1, <2>3
<1>11. CASE task[t].op \notin {"size", "list"}
  <2>1. handle' = handle
    BY <1>11 DEF Resume
  <2>. QED BY <1>1, <1>7, <2>1
<1>. QED BY <1>9, <1>10, <1>11

(* A step of a thread that neither has nor takes the lock.                 *)
LEMMA ThreadStep ==
  ASSUME NfsInv, NEW t \in Threads, NEW d \in Task, TaskRight(d, names),
         d.at # "sent", task[t].at # "sent", task' = [task EXCEPT ![t] = d],
         UNCHANGED <<names, handle, sourceVars>>
  PROVE  NfsInv'
<1>1. /\ task \in [Threads -> Task] /\ NfsTypes /\ FilesAreFiles /\ LineInv
      /\ \A u \in Threads : TaskRight(task[u], names)
  BY DEF NfsInv, NfsTypes
<1>2. /\ task' \in [Threads -> Task] /\ task'[t] = d
      /\ \A u \in Threads \ {t} : task'[u] = task[u]
  BY <1>1
<1>3. names' = names /\ handle' = handle /\ lock' = lock /\ conn' = conn
  BY DEF sourceVars
<1>4. NfsTypes'
  BY <1>1, <1>2, <1>3 DEF NfsTypes
<1>5. \A u \in Threads : TaskRight(task[u], names)'
  BY <1>1, <1>2, <1>3
<1>6. FilesAreFiles'
  BY <1>1, <1>3 DEF FilesAreFiles
<1>7. LineInv'
  <2>1. t \notin lock
    BY <1>1 DEF LineInv
  <2>2. \A u \in lock : u \in Threads \ {t} /\ task'[u] = task[u]
    BY <1>1, <1>2, <2>1 DEF LineInv
  <2>3. \A u \in lock : Conversing(task[u], conn, names)'
    BY <1>1, <1>3, <2>2 DEF LineInv
  <2>4. \A u \in Threads : u \in lock <=> task'[u].at = "sent"
    BY <1>1, <1>2, <2>1 DEF LineInv
  <2>. QED BY <1>1, <1>3, <2>3, <2>4 DEF LineInv, Usable, Quiet
<1>. QED BY <1>4, <1>5, <1>6, <1>7 DEF NfsInv

LEMMA LookupKeeps ==
  ASSUME NfsInv, NEW t \in Threads, NEW n \in Names, Lookup(t, n)
  PROVE  NfsInv'
<1>. DEFINE d == Want("size", n, 0, 0)
<1>1. task[t].at # "sent" /\ task' = [task EXCEPT ![t] = d]
  BY IdleIs DEF Lookup
<1>2. UNCHANGED <<names, handle, sourceVars>>
  BY DEF Lookup
<1>3. d \in Task /\ d.at = "ask" /\ d.op = "size" /\ d.name = n
  <2>1. n \in Nat /\ 0 \in Nat /\ "size" \in {"none", "size", "read", "list"}
    BY NfsConfig
  <2>2. Fresh(d, "size", n, 0, 0)
    BY <2>1, WantIs
  <2>. HIDE DEF d
  <2>. QED BY <2>2 DEF Fresh
<1>. HIDE DEF d
<1>4. TaskRight(d, names)
  BY <1>3 DEF TaskRight, Asking
<1>. QED BY <1>1, <1>2, <1>3, <1>4, ThreadStep

LEMMA ReadKeeps ==
  ASSUME NfsInv, NEW t \in Threads, NEW n \in Names, NEW off \in Offsets, Read(t, n, off)
  PROVE  NfsInv'
<1>. DEFINE w == Want("read", n, off, handle[n])
            d == ReadNext(w)
<1>1. task[t].at # "sent" /\ task' = [task EXCEPT ![t] = d]
  BY IdleIs DEF Read
<1>2. UNCHANGED <<names, handle, sourceVars>>
  BY DEF Read
<1>3. /\ n \in Nat /\ off \in Nat /\ handle[n] \in Nat /\ n \in names \ Dirs
      /\ handle[n] = Size[n]
  BY SMTT(20), NfsConfig DEF Read, NfsInv, NfsTypes, FilesAreFiles
<1>4. /\ w \in Task /\ w.op = "read" /\ w.at = "ask" /\ w.name = n /\ w.off = off
      /\ w.size = handle[n] /\ w.iov = 1 /\ w.from = off /\ w.data = <<>> /\ w.eof = FALSE
      /\ w.status = "OK"
  <2>1. "read" \in {"none", "size", "read", "list"}
    OBVIOUS
  <2>2. Fresh(w, "read", n, off, handle[n])
    BY <1>3, <2>1, WantIs
  <2>. HIDE DEF w
  <2>. QED BY <2>2 DEF Fresh
<1>. HIDE DEF w
<1>5. ReadSoFar(w, names)
  <2>1. Bytes(n, off, 0) = <<>>
    BY SMTT(20) DEF Bytes
  <2>2. w.off - w.from = 0 /\ w.iov - 1 = 0 /\ 1 \in 1..Len(Iov) + 1 /\ off = off + Upto(0)
    BY SMTT(20), <1>3, <1>4, Buffers
  <2>. QED BY SMTT(20), <1>3, <1>4, <2>1, <2>2 DEF ReadSoFar
<1>6. d \in Task /\ d.at \in {"ask", "done"} /\ TaskRight(d, names)
  BY <1>4, <1>5, ReadGoesOn
<1>. HIDE DEF d
<1>. QED BY <1>1, <1>2, <1>6, ThreadStep

LEMMA ReadDirKeeps ==
  ASSUME NfsInv, NEW t \in Threads, ReadDir(t)
  PROVE  NfsInv'
<1>. DEFINE w == Want("list", 0, 0, 0)
            d == [w EXCEPT !.always = names]
<1>1. task[t].at # "sent" /\ task' = [task EXCEPT ![t] = d]
  BY IdleIs DEF ReadDir
<1>2. UNCHANGED <<names, handle, sourceVars>>
  BY DEF ReadDir
<1>3. names \subseteq Names /\ names \in SUBSET (Nat \ {0})
  BY NfsConfig DEF NfsInv, NfsTypes
<1>4. w \in Task /\ w.op = "list" /\ w.at = "ask" /\ w.after = 0 /\ w.data = <<>>
  <2>1. 0 \in Nat /\ "list" \in {"none", "size", "read", "list"}
    OBVIOUS
  <2>2. Fresh(w, "list", 0, 0, 0)
    BY <2>1, WantIs
  <2>. HIDE DEF w
  <2>. QED BY <2>2 DEF Fresh
<1>. HIDE DEF w
<1>5. d \in Task
  BY <1>3, <1>4 DEF Task
<1>6. d.op = "list" /\ d.at = "ask" /\ d.after = 0 /\ d.data = <<>> /\ d.always = names
  BY <1>4 DEF Task
<1>. HIDE DEF d
<1>7. Listing(d, names)
  <2>1. <<>> \in Seq(names) /\ Len(<<>>) = 0
    BY SMTT(20)
  <2>2. \A n \in names : ~(n <= 0)
    BY SMTT(20), <1>3
  <2>. QED BY SMTT(20), <1>6, <2>1, <2>2 DEF Listing, Ascending
<1>8. TaskRight(d, names)
  BY <1>6, <1>7 DEF TaskRight, Asking
<1>. QED BY <1>1, <1>2, <1>5, <1>6, <1>8, ThreadStep

LEMMA EndsKeep ==
  ASSUME NfsInv, NEW t \in Threads, Return(t) \/ StopListing(t)
  PROVE  NfsInv'
<1>1. /\ task[t].at # "sent" /\ task' = [task EXCEPT ![t] = Idle]
      /\ UNCHANGED <<names, handle, sourceVars>>
  BY DEF Return, StopListing
<1>. QED BY <1>1, IdleIs, ThreadStep

LEMMA ReleaseKeeps ==
  ASSUME NfsInv, NEW n \in Names, Release(n)
  PROVE  NfsInv'
<1>1. /\ names' = names /\ task' = task /\ lock' = lock /\ conn' = conn
      /\ handle' = [handle EXCEPT ![n] = NoHandle]
  BY DEF Release, sourceVars
<1>2. handle \in [Names -> Int] /\ NfsTypes /\ FilesAreFiles /\ LineInv
  BY DEF NfsInv, NfsTypes
<1>3. NfsTypes'
  BY SMTT(20), <1>1, <1>2 DEF NfsTypes, NoHandle
<1>4. FilesAreFiles'
  BY SMTT(20), <1>1, <1>2 DEF FilesAreFiles, NoHandle
<1>5. LineInv'
  BY <1>1, <1>2 DEF LineInv, Usable
<1>. QED BY <1>1, <1>3, <1>4, <1>5 DEF NfsInv

LEMMA UploadKeeps ==
  ASSUME NfsInv, NEW n \in Names, Upload(n)
  PROVE  NfsInv'
<1>1. /\ names' = names \cup {n} /\ names \subseteq names' /\ handle' = handle /\ task' = task
      /\ lock' = lock /\ conn' = conn
  BY DEF Upload, sourceVars
<1>2. NfsTypes /\ FilesAreFiles /\ LineInv /\ \A t \in Threads : TaskRight(task[t], names)
  BY DEF NfsInv
<1>3. NfsTypes'
  BY <1>1, <1>2 DEF NfsTypes
<1>4. FilesAreFiles'
  BY <1>1, <1>2 DEF FilesAreFiles
<1>5. \A t \in Threads : TaskRight(task[t], names)'
  BY <1>1, <1>2, StillRight
<1>6. \A t \in lock : Conversing(task[t], conn, names')
  <2>1. \A k, r : ReplyRight(k, r, names) => ReplyRight(k, r, names')
    BY <1>1, StillRight
  <2>. QED BY <1>2, <2>1 DEF LineInv, Conversing
<1>7. LineInv'
  BY <1>1, <1>2, <1>6 DEF LineInv, Usable
<1>. QED BY <1>3, <1>4, <1>5, <1>7 DEF NfsInv

-----------------------------------------------------------------------------
(* The two ends of the connection.                                         *)

(* An exchange ends: nobody has the lock, and the connection, if it can    *)
(* still be used, has nothing in it.                                       *)
LEMMA ExchangeEnds ==
  ASSUME NfsInv, NEW t \in Threads, Asking(task[t]), \A u \in lock : u = t,
         NEW r, ReplyRight(task[t], r, names), Resume(t, r), names' = names, lock' = {},
         conn' \in {NoConn} \cup Conns, 
         conn'.made /\ conn'.broken => ~conn'.open /\ ~conn'.slow,
         conn'.made /\ ~conn'.broken => Quiet(conn')
  PROVE  NfsInv'
<1>1. /\ handle' \in [Names -> Int] /\ FilesAreFiles'
      /\ task' \in [Threads -> Task] /\ \A u \in Threads : TaskRight(task'[u], names)
      /\ task'[t].at # "sent" /\ \A u \in Threads \ {t} : task'[u] = task[u]
  BY ResumeRight
<1>2. NfsTypes'
  BY <1>1 DEF NfsInv, NfsTypes
<1>3. \A u \in Threads : TaskRight(task[u], names)'
  BY <1>1
<1>4. \A u \in Threads : task'[u].at # "sent"
  <2>1. \A u \in Threads \ {t} : task[u].at # "sent"
    BY DEF NfsInv, LineInv
  <2>. QED BY <1>1, <2>1
<1>5. LineInv'
  BY <1>4 DEF LineInv, Usable
<1>. QED BY <1>1, <1>2, <1>3, <1>5 DEF NfsInv

LEMMA BrokenIs ==
  /\ Broken \in Conns /\ Broken.made /\ Broken.broken /\ ~Broken.open /\ ~Broken.slow
<1>. DEFINE new == NewConn(FALSE)
<1>1. new \in Conns /\ new.made /\ ~new.open /\ ~new.slow
  BY SMTT(20) DEF NewConn, Conns
<1>2. Broken = [new EXCEPT !.broken = TRUE]
  BY DEF Broken
<1>. HIDE DEF new
<1>. QED BY <1>1, <1>2 DEF Conns

(* The exchanges that end without a reply.                                 *)
LEMMA FailuresKeep ==
  ASSUME NfsInv, NEW t \in Threads,
         SendFails(t) \/ DialNotYet(t) \/ Fail(t) \/ (Dial(t) /\ ~up)
  PROVE  NfsInv'
<1>1. /\ Asking(task[t]) /\ Resume(t, Error("FAILED")) /\ names' = names /\ lock' = {}
      /\ conn' \in {NoConn, Broken}
  BY DEF SendFails, DialNotYet, Fail, Dial, Asking
<1>2. \A u \in lock : u = t
  BY DEF SendFails, DialNotYet, Fail, Dial, NfsInv, LineInv
<1>3. /\ conn' \in {NoConn} \cup Conns
      /\ conn'.made /\ conn'.broken => ~conn'.open /\ ~conn'.slow
      /\ ~(conn'.made /\ ~conn'.broken)
  <2>1. CASE conn' = NoConn
    BY <2>1 DEF NoConn
  <2>2. CASE conn' = Broken
    BY <2>2, BrokenIs
  <2>. QED BY <1>1, <2>1, <2>2
<1>. QED BY <1>1, <1>2, <1>3, FailureRight, ExchangeEnds

(* A thread that has the lock has asked, and a reply there is to it.       *)
LEMMA ReceiveKeeps ==
  ASSUME NfsInv, NEW t \in Threads, Receive(t)
  PROVE  NfsInv'
<1>1. /\ task[t].at = "sent" /\ conn.replies # <<>>
      /\ conn' = [conn EXCEPT !.replies = Tail(conn.replies)]
      /\ lock' = {} /\ Resume(t, Head(conn.replies)) /\ names' = names
  BY DEF Receive
<1>2. t \in lock /\ (\A u \in lock : u = t) /\ Usable /\ Conversing(task[t], conn, names)
  BY <1>1 DEF NfsInv, LineInv
<1>3. /\ conn.requests = <<>> /\ Len(conn.replies) = 1
      /\ ReplyRight(task[t], conn.replies[1], names)
  BY <1>1, <1>2 DEF Conversing, Quiet
<1>4. conn \in Conns /\ conn.replies \in Seq(Reply)
  <2>1. conn \in Conns
    BY SMTT(20), <1>2 DEF NfsInv, NfsTypes, Usable, NoConn
  <2>. HIDE DEF Reply
  <2>. QED BY <2>1 DEF Conns
<1>5. Head(conn.replies) = conn.replies[1] /\ Tail(conn.replies) = <<>>
  <2>. DEFINE s == conn.replies
  <2>1. s \in Seq(Reply) /\ s # <<>> /\ Len(s) = 1
    BY <1>1, <1>3, <1>4
  <2>. HIDE DEF Reply, s
  <2>2. Head(s) = s[1] /\ Tail(s) \in Seq(Reply) /\ Len(Tail(s)) = 0
    BY SMTT(20), <2>1, HeadTailProperties
  <2>3. Tail(s) = <<>>
    BY <2>2, EmptySeq
  <2>. QED BY <2>2, <2>3 DEF s
<1>6. /\ conn' \in Conns /\ conn'.made /\ ~conn'.broken /\ conn'.requests = <<>>
      /\ conn'.replies = <<>>
  <2>1. conn' = [conn EXCEPT !.replies = <<>>]
    BY <1>1, <1>5
  <2>2. <<>> \in Seq(Reply)
    BY SMTT(20)
  <2>. QED BY <1>2, <1>3, <1>4, <2>1, <2>2 DEF Conns, Usable
<1>7. Asking(task[t])
  BY <1>1 DEF Asking
<1>8. ReplyRight(task[t], Head(conn.replies), names)
  BY <1>3, <1>5
<1>9. Quiet(conn')
  BY <1>6 DEF Quiet
<1>. QED BY <1>1, <1>2, <1>6, <1>7, <1>8, <1>9, ExchangeEnds

(* A thread asks, on a connection with nothing in it.                      *)
LEMMA AskKeeps ==
  ASSUME NfsInv, NEW t \in Threads, task[t].at = "ask", lock = {},
         NEW c \in Conns, ~c.broken, Quiet(c), conn' = Sent(c, Ask(task[t], task[t].op)),
         lock' = {t}, task' = [task EXCEPT ![t].at = "sent"], names' = names, handle' = handle
  PROVE  NfsInv'
<1>1. /\ task \in [Threads -> Task] /\ NfsTypes /\ FilesAreFiles /\ LineInv
      /\ \A u \in Threads : TaskRight(task[u], names)
  BY DEF NfsInv, NfsTypes
<1>. DEFINE k == task[t]  d == task'[t]  q == Ask(k, k.op)
<1>2. k \in Task /\ TaskRight(k, names)
  BY <1>1
<1>3. /\ d = [k EXCEPT !.at = "sent"] /\ \A u \in Threads \ {t} : task'[u] = task[u]
  BY <1>1
<1>4. d \in Task
  BY SMTT(20), <1>2, <1>3 DEF Task
<1>5. /\ d.at = "sent" /\ d.op = k.op /\ d.name = k.name /\ d.off = k.off /\ d.len = k.len
      /\ d.size = k.size /\ d.after = k.after /\ d.iov = k.iov /\ d.from = k.from
      /\ d.data = k.data /\ d.eof = k.eof /\ d.status = k.status /\ d.always = k.always
  BY SMTT(20), <1>2, <1>3 DEF Task
<1>6. task' \in [Threads -> Task]
  BY <1>1, <1>4
<1>7. Ask(d, d.op) = q
  BY <1>5 DEF Ask
<1>8. k.op \in {"size", "read", "list"} /\ k.at = "ask"
  BY <1>2 DEF TaskRight, Asking, Task
<1>9. q \in Request
  BY <1>2, <1>8 DEF Ask, Task, Request
<1>. HIDE DEF k, d, q
<1>10. TaskRight(d, names)
  <2>1. Asking(k) /\ Asking(d)
    BY <1>5, <1>8 DEF Asking
  <2>2. Reading(k, names) => Reading(d, names)
    BY <1>5 DEF Reading, ReadSoFar, Clamped
  <2>3. Listing(k, names) => Listing(d, names)
    BY SMTT(20), <1>5 DEF Listing
  <2>. QED BY <1>2, <1>5, <1>8, <2>1, <2>2, <2>3 DEF TaskRight
<1>11. /\ conn' \in Conns /\ conn'.made /\ ~conn'.broken
       /\ conn'.requests = <<q>> /\ conn'.replies = <<>>
  <2>1. conn' = [c EXCEPT !.requests = Append(c.requests, q)]
    BY DEF Sent, q, k
  <2>2. c.requests = <<>> /\ c.replies = <<>>
    BY DEF Quiet
  <2>3. Append(<<>>, q) = <<q>> /\ <<q>> \in Seq(Request)
    BY SMTT(20), <1>9
  <2>4. conn' = [c EXCEPT !.requests = <<q>>]
    BY <2>1, <2>2, <2>3
  <2>. QED BY <2>2, <2>3, <2>4 DEF Conns
<1>12. NfsTypes'
  BY <1>1, <1>6, <1>11 DEF NfsTypes
<1>13. \A u \in Threads : TaskRight(task[u], names)'
  BY <1>1, <1>3, <1>10 DEF d
<1>14. FilesAreFiles'
  BY <1>1 DEF FilesAreFiles
<1>15. LineInv'
  <2>1. \A u \in Threads : u \in lock' <=> task'[u].at = "sent"
    BY <1>1, <1>3, <1>5 DEF LineInv, d
  <2>2. Conversing(task[t], conn, names)'
    BY <1>7, <1>11 DEF Conversing, d
  <2>. QED BY <1>11, <2>1, <2>2 DEF LineInv, Usable
<1>. QED BY <1>12, <1>13, <1>14, <1>15 DEF NfsInv

LEMMA SendKeeps ==
  ASSUME NfsInv, NEW t \in Threads, Send(t) \/ (Dial(t) /\ up)
  PROVE  NfsInv'
<1>1. CASE Send(t)
  <2>1. conn \in Conns /\ ~conn.broken /\ Quiet(conn)
    BY SMTT(20), <1>1 DEF Send, Usable, NfsInv, NfsTypes, LineInv, NoConn
  <2>2. /\ task[t].at = "ask" /\ lock = {} /\ conn' = Sent(conn, Ask(task[t], task[t].op))
        /\ lock' = {t} /\ task' = [task EXCEPT ![t].at = "sent"] /\ names' = names
        /\ handle' = handle
    BY <1>1 DEF Send
  <2>. QED BY <2>1, <2>2, AskKeeps
<1>2. CASE Dial(t) /\ up
  <2>. DEFINE c == NewConn(TRUE)
  <2>1. c \in Conns /\ ~c.broken /\ Quiet(c)
    BY SMTT(20) DEF NewConn, Conns, Quiet
  <2>2. /\ task[t].at = "ask" /\ lock = {} /\ conn' = Sent(c, Ask(task[t], task[t].op))
        /\ lock' = {t} /\ task' = [task EXCEPT ![t].at = "sent"] /\ names' = names
        /\ handle' = handle
    BY <1>2 DEF Dial
  <2>. HIDE DEF c
  <2>. QED BY <2>1, <2>2, AskKeeps
<1>. QED BY <1>1, <1>2

(* A step of the agent, or of time, on a connection that is in use.        *)
LEMMA AgentStep ==
  ASSUME NfsInv, conn' \in Conns, ~conn'.broken, Usable,
         names' = names, handle' = handle, task' = task, lock' = lock,
         Quiet(conn) => Quiet(conn'),
         \A t \in lock : Conversing(task[t], conn', names)
  PROVE  NfsInv'
<1>1. NfsTypes'
  BY DEF NfsInv, NfsTypes
<1>2. FilesAreFiles'
  BY DEF NfsInv, FilesAreFiles
<1>3. conn'.made
  BY DEF Conns
<1>4. LineInv'
  BY <1>3 DEF NfsInv, LineInv, Usable
<1>5. \A t \in Threads : TaskRight(task[t], names)'
  BY DEF NfsInv
<1>. QED BY <1>1, <1>2, <1>4, <1>5 DEF NfsInv

LEMMA InUse ==
  ASSUME NfsInv, conn.made, conn.open \/ conn.slow
  PROVE  Usable /\ conn \in Conns
BY SMTT(20) DEF NfsInv, NfsTypes, LineInv, Usable, NoConn

(* The agent answers what is asked, or fails to.                           *)
LEMMA ConverseKeeps ==
  ASSUME NfsInv, Converse
  PROVE  NfsInv'
<1>1. PICK reply \in {Answer(Head(conn.requests)), Error("FAILED")} :
        conn' = [conn EXCEPT !.requests = Tail(conn.requests),
                             !.replies = Append(conn.replies, reply)]
  BY DEF Converse
<1>2. /\ names' = names /\ handle' = handle /\ task' = task /\ lock' = lock
      /\ conn.made /\ conn.open /\ conn.requests # <<>>
  BY DEF Converse
<1>3. Usable /\ conn \in Conns
  BY <1>2, InUse
<1>4. lock # {}
  BY <1>2, <1>3 DEF NfsInv, LineInv, Quiet
<1>5. PICK t \in Threads : lock = {t}
  BY <1>4 DEF NfsInv, LineInv
<1>. DEFINE q == Ask(task[t], task[t].op)
<1>6. /\ conn.requests = <<q>> /\ conn.replies = <<>>
      /\ task[t].at = "sent" /\ task[t] \in Task /\ TaskRight(task[t], names)
      /\ names \subseteq Names
  BY <1>2, <1>5 DEF NfsInv, NfsTypes, LineInv, Conversing, Quiet
<1>7. Asking(task[t])
  BY <1>6 DEF Asking
<1>. HIDE DEF q
<1>8. Head(conn.requests) = q /\ Tail(conn.requests) = <<>> /\ Append(conn.replies, reply) = <<reply>>
  BY SMTT(20), <1>6
<1>9. ReplyRight(task[t], reply, names)
  <2>1. CASE reply = Answer(q)
    BY <1>6, <1>7, <2>1, AnswerRight DEF q
  <2>2. CASE reply = Error("FAILED")
    BY <2>2, FailureRight
  <2>. QED BY <1>8, <2>1, <2>2
<1>10. reply \in Reply
  BY <1>9 DEF ReplyRight
<1>11. /\ conn' \in Conns /\ ~conn'.broken /\ conn'.requests = <<>> /\ conn'.replies = <<reply>>
  <2>. HIDE DEF Reply
  <2>1. conn' = [conn EXCEPT !.requests = <<>>, !.replies = <<reply>>]
    BY <1>1, <1>8
  <2>2. <<reply>> \in Seq(Reply) /\ <<>> \in Seq(Request)
    BY SMTT(20), <1>10
  <2>3. conn' \in Conns
    BY <1>3, <2>1, <2>2 DEF Conns
  <2>4. conn'.requests = <<>> /\ conn'.replies = <<reply>> /\ conn'.broken = conn.broken
    BY <1>3, <2>1 DEF Conns
  <2>. QED BY <1>3, <2>3, <2>4 DEF Usable
<1>12. \A u \in lock : Conversing(task[u], conn', names)
  BY SMTT(20), <1>5, <1>9, <1>11 DEF Conversing
<1>13. ~Quiet(conn)
  BY <1>2 DEF Quiet
<1>. QED BY <1>2, <1>3, <1>11, <1>12, <1>13, AgentStep

(* The agent is slow, or is again not, or hangs up.                        *)
LEMMA AgentKeeps ==
  ASSUME NfsInv, Stall \/ Recover \/ HangUp
  PROVE  NfsInv'
<1>1. /\ names' = names /\ handle' = handle /\ task' = task /\ lock' = lock
      /\ conn.made /\ (conn.open \/ conn.slow)
  BY DEF Stall, Recover, HangUp
<1>2. Usable /\ conn \in Conns
  BY <1>1, InUse
<1>3. /\ conn' \in Conns /\ ~conn'.broken /\ conn'.replies = conn.replies
      /\ conn'.requests = conn.requests \/ conn'.requests = <<>>
  <2>. HIDE DEF Reply
  <2>1. CASE Stall
    BY <1>2, <2>1 DEF Stall, Conns, Usable
  <2>2. CASE Recover
    BY <1>2, <2>2 DEF Recover, Conns, Usable
  <2>3. CASE HangUp
    <3>1. conn' = [conn EXCEPT !.open = FALSE, !.slow = FALSE, !.requests = <<>>]
      BY <2>3 DEF HangUp
    <3>2. <<>> \in Seq(Request)
      BY SMTT(20)
    <3>3. conn' \in Conns
      BY <1>2, <3>1, <3>2 DEF Conns
    <3>4. /\ conn'.requests = <<>> /\ conn'.replies = conn.replies
          /\ conn'.broken = conn.broken
      BY <1>2, <3>1 DEF Conns
    <3>. QED BY <1>2, <3>3, <3>4 DEF Usable
  <2>. QED BY <2>1, <2>2, <2>3
<1>4. \A t \in lock : Conversing(task[t], conn', names)
  BY <1>3 DEF NfsInv, LineInv, Conversing, Quiet
<1>5. Quiet(conn) => Quiet(conn')
  BY <1>3 DEF Quiet
<1>. QED BY <1>1, <1>2, <1>3, <1>4, <1>5, AgentStep

LEMMA OtherKeeps ==
  ASSUME NfsInv, AgentStarts \/ Tick \/ UNCHANGED nfsVars
  PROVE  NfsInv'
<1>1. names' = names /\ handle' = handle /\ task' = task /\ lock' = lock /\ conn' = conn
  BY DEF AgentStarts, Tick, nfsVars, sourceVars
<1>2. NfsTypes' /\ FilesAreFiles' /\ LineInv'
  BY <1>1 DEF NfsInv, NfsTypes, FilesAreFiles, LineInv, Usable
<1>. QED BY <1>1, <1>2 DEF NfsInv

LEMMA NfsStep ==
  ASSUME NfsInv, [NfsNext]_nfsVars
  PROVE  NfsInv'
<1>1. CASE \E t \in Threads : Exchange(t)
  <2>1. PICK t \in Threads : Exchange(t)
    BY <1>1
  <2>. QED BY <2>1, FailuresKeep, ReceiveKeeps, SendKeeps DEF Exchange
<1>2. CASE Agent
  BY <1>2, ConverseKeeps, AgentKeeps, OtherKeeps DEF Agent
<1>3. CASE Clients
  BY <1>3, LookupKeeps, ReadKeeps, ReadDirKeeps, EndsKeep, ReleaseKeeps DEF Clients
<1>4. CASE Stall \/ HangUp \/ Tick \/ UNCHANGED nfsVars
  BY <1>4, AgentKeeps, OtherKeeps
<1>5. CASE \E n \in Names : Upload(n)
  BY <1>5, UploadKeeps
<1>. QED BY <1>1, <1>2, <1>3, <1>4, <1>5 DEF NfsNext

(* What each thread has so far is right, and the one connection carries    *)
(* nothing but the lock holder's question or the answer to it: a broken    *)
(* exchange never leaves a reply for the next one (exchange, fail).        *)
THEOREM NfsInvariance == NfsSpec => []NfsInv
<1>1. NfsInv /\ [NfsNext]_nfsVars => NfsInv'
  BY NfsStep
<1>. QED BY <1>1, NfsStart, PTL DEF NfsSpec

(* A name the export takes for a file is one, and of the size it believes, *)
(* whatever connections broke while it found out (forebay_size, lookup).   *)
THEOREM FilesAlwaysFiles == NfsSpec => []FilesAreFiles
<1>1. NfsInv => FilesAreFiles
  BY DEF NfsInv
<1>. QED BY <1>1, NfsInvariance, PTL

(* A read that answers without error gives the bytes it was asked for, for *)
(* any buffers, offset and file, any number of threads and any failures of *)
(* the agent or the connection (exchange, fail, read2).                    *)
THEOREM ExportReadsAlwaysRight == NfsSpec => []ReadsRight
<1>1. NfsInv => ReadsRight
  BY DEF NfsInv, TaskRight, ReadDone, ReadsRight
<1>. QED BY <1>1, NfsInvariance, PTL

(* A listing of a store that pages in the order of names shows each name   *)
(* once, and every name that was there when it began (forebay_readdir).    *)
THEOREM AlwaysListedOnce ==
  ASSUME InOrder
  PROVE  NfsSpec => []ListedOnce
<1>1. NfsInv => ListedOnce
  BY DEF NfsInv, TaskRight, ListDone, ListedOnce
<1>. QED BY <1>1, NfsInvariance, PTL

=============================================================================
