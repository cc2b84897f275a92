--------------------------- MODULE ReadPathProofs ---------------------------
(***************************************************************************)
(* ReadPath implements ObjectReads, and its cache conserves its slots, for *)
(* every number of readers, slabs, slots and objects.                      *)
(***************************************************************************)
EXTENDS FastTierProofs

-----------------------------------------------------------------------------
(* The readers' part of the invariant.                                     *)

(* Reads, so far, of what is in the record of first reads and in the tier. *)
Evidenced ==
  /\ first \in Seq(Keys) /\ evidence \in [Keys -> 0 .. 2]
  /\ \A k \in Members(first) : evidence[k] >= 1
  /\ \A k \in DOMAIN resident : evidence[k] = 2

(* A reader between blocks has assembled exactly what precedes the block   *)
(* it is at.                                                               *)
Asking(r) ==
  /\ asked[r] \in Requests[r]
  /\ asked[r].offset \in Nat /\ asked[r].length \in Nat \ {0}
  /\ asked[r].length <= MaxRead /\ asked[r].offset <= MaxOffset - asked[r].length
  /\ at[r] \in Nat /\ Start(r) < End(r) /\ asked[r].offset < Start(r) + BlockUnits
  /\ out[r] = Reference!Bytes(asked[r].object, asked[r].offset,
                              Larger(asked[r].offset, Start(r)))

(* A reader sent to a slot has read the block, if the block is still there. *)
Holding(r) ==
  /\ held[r].gen \in Nat /\ held[r].gen <= generation
  /\ Same(BlockOf(r), held[r]) =>
       /\ held[r] = resident[BlockOf(r)]
       /\ step[r] = "rest" => data[r] = <<KeyData(BlockOf(r))[1]>>
       /\ step[r] = "finish" /\ data[r] # Nobody => data[r] = KeyData(BlockOf(r))

Reading == {"half", "rest", "finish"}
Steps == {"idle", "block", "half", "rest", "finish", "fetch", "tail"}

ReaderInv(r) ==
  /\ step[r] \in Steps
  /\ step[r] = "idle" => asked[r] = Nobody
  /\ step[r] # "idle" => Asking(r)
  /\ step[r] \in Reading => Holding(r)

ReadersAll ==
  /\ DOMAIN asked = Readers /\ DOMAIN step = Readers /\ DOMAIN at = Readers
  /\ DOMAIN out = Readers /\ DOMAIN held = Readers /\ DOMAIN data = Readers
  /\ \A r \in Readers : ReaderInv(r)

PathInv == TierInv /\ Evidenced /\ ReadersAll

-----------------------------------------------------------------------------
(* A block in hand (ReadRange).                                            *)

(* A block of b units at s, of an object of z, for a read of off .. e:     *)
(* what there is of it past what is assembled, and where that ends.        *)
InHand(o, off, e, s, b, z, to, d, u, part) ==
  /\ off \in Nat /\ e \in Nat /\ s \in Nat /\ b \in Nat \ {0} /\ z \in Nat /\ to \in Nat
  /\ s < e /\ off < e /\ off < s + b
  /\ s < to /\ to <= z /\ to <= s + b
  /\ to = s + b \/ to = z \/ to = e
  /\ d = Reference!Bytes(o, s, to)
  /\ u = Reference!Bytes(o, off, Larger(off, s))
  /\ part = SubSeq(d, Larger(off - s, 0) + 1, Smaller(e - s, Len(d)))

(* Then the read is past the object, or this much of it is assembled: w.   *)
Assembled(o, off, e, s, b, z, d, w) ==
  /\ Len(d) < b /\ e > s + Len(d) => e > z
  /\ ~ (Len(d) < b /\ e > s + Len(d)) =>
       /\ s + b < e => w = Reference!Bytes(o, off, s + b)
       /\ ~ (s + b < e) => e <= z /\ w = Reference!Bytes(o, off, e)

LEMMA PartFacts ==
  ASSUME NEW o, NEW off, NEW e, NEW s, NEW b, NEW z, NEW to, NEW d, NEW u, NEW part,
         InHand(o, off, e, s, b, z, to, d, u, part)
  PROVE  Assembled(o, off, e, s, b, z, d, u \o part)
<1>0. /\ off \in Nat /\ e \in Nat /\ s \in Nat /\ b \in Nat \ {0} /\ z \in Nat /\ to \in Nat
      /\ s < e /\ off < e /\ off < s + b
      /\ s < to /\ to <= z /\ to <= s + b
      /\ to = s + b \/ to = z \/ to = e
  BY DEF InHand
<1>5. /\ d = Reference!Bytes(o, s, to)
      /\ u = Reference!Bytes(o, off, Larger(off, s))
      /\ part = SubSeq(d, Larger(off - s, 0) + 1, Smaller(e - s, Len(d)))
  BY DEF InHand
<1>1. Len(d) = to - s
  <2>1. s \in Int /\ to \in Int /\ s <= to
    BY <1>0
  <2>. QED BY <1>5, <2>1, BytesFacts
<1>2. Len(d) < b /\ e > s + Len(d) => e > z
  BY <1>0, <1>1
<1>3. ASSUME ~ (Len(d) < b /\ e > s + Len(d)), NEW end \in Nat,
             end = IF s + b < e THEN s + b ELSE e
      PROVE  end <= z /\ u \o part = Reference!Bytes(o, off, end)
  <2>. DEFINE lo == Larger(off - s, 0)
              hi == Smaller(e - s, Len(d))
              c == Larger(off, s)
  <2>1. lo \in Nat /\ hi \in Nat /\ lo <= hi /\ s + hi = end /\ s + hi <= to
    BY <1>0, <1>1, <1>3 DEF Larger, Smaller
  <2>2. c \in Nat /\ s + lo = c /\ off <= c /\ c <= end
    BY <1>0, <1>1, <1>3 DEF Larger, Smaller
  <2>3. part = SubSeq(d, lo + 1, hi)
    BY <1>5
  <2>. HIDE DEF lo, hi
  <2>4. part = Reference!Bytes(o, s + lo, s + hi)
    <3>1. s \in Int /\ to \in Int
      BY <1>0
    <3>2. SubSeq(Reference!Bytes(o, s, to), lo + 1, hi) = Reference!Bytes(o, s + lo, s + hi)
      BY ZenonT(30), <2>1, <3>1, BytesPart
    <3>. QED BY Zenon, <1>5, <2>3, <3>2
  <2>5. part = Reference!Bytes(o, c, end)
    BY <2>1, <2>2, <2>4
  <2>6. u = Reference!Bytes(o, off, c)
    BY <1>5
  <2>. HIDE DEF c
  <2>7. off \in Int /\ c \in Int /\ end \in Int
    BY <1>0, <2>2
  <2>8. Reference!Bytes(o, off, c) \o Reference!Bytes(o, c, end) = Reference!Bytes(o, off, end)
    BY <2>2, <2>7, BytesJoin
  <2>9. end <= z
    BY <1>0, <2>1
  <2>. QED BY <2>5, <2>6, <2>8, <2>9
<1>4. s + b \in Nat /\ e \in Nat
  BY <1>0
<1>. QED BY <1>2, <1>3, <1>4 DEF Assembled

(* The store's own answer to a read in progress.                           *)
LEMMA ReferenceFacts ==
  ASSUME NEW r \in Readers, Asking(r)
  PROVE  /\ asked[r].object \in Objects /\ SizeOf[asked[r].object] \in Nat
         /\ asked[r].offset \in Nat /\ asked[r].length \in Nat \ {0}
         /\ Start(r) \in Nat /\ End(r) \in Nat /\ asked[r].offset < End(r)
         /\ Reference!Reference(asked[r]) =
              IF End(r) > SizeOf[asked[r].object] THEN Reference!Bad("range")
              ELSE Reference!Ok(Reference!Bytes(asked[r].object, asked[r].offset, End(r)))
<1>. DEFINE q == asked[r]
<1>1. q \in [object: Objects, offset: Int, length: Int] /\ MaxRead \in Nat /\ MaxOffset \in Nat
  BY Zenon, PathAssumption DEF Asking
<1>2. q.object \in Objects /\ SizeOf[q.object] \in Nat
  BY <1>1, PathAssumption
<1>3. q.offset \in Nat /\ q.length \in Nat \ {0} /\ q.length <= MaxRead
      /\ q.offset <= MaxOffset - q.length
  BY DEF Asking
<1>4. Start(r) \in Nat
  BY BlockStarts, TierAssumption DEF Start, Asking
<1>5. End(r) = q.offset + q.length /\ End(r) \in Nat /\ q.offset < End(r)
  BY <1>3 DEF End
<1>. HIDE DEF q
<1>6. /\ ~ (q.offset < 0 \/ q.length < 0)
      /\ ~ (q.offset >= 0 /\ q.length = 0)
      /\ ~ (q.offset >= 0 /\ q.length > 0 /\ (q.offset > MaxOffset - q.length \/ q.length > MaxRead))
  BY <1>1, <1>3
<1>7. Reference!Reference(q) =
        IF q.offset + q.length > SizeOf[q.object] THEN Reference!Bad("range")
        ELSE Reference!Ok(Reference!Bytes(q.object, q.offset, q.offset + q.length))
  BY <1>6 DEF Reference!Reference
<1>. QED BY Zenon, <1>2, <1>3, <1>4, <1>5, <1>7 DEF q

(* The other readers are left alone.                                       *)
Others(r) ==
  /\ DOMAIN asked' = Readers /\ DOMAIN step' = Readers /\ DOMAIN at' = Readers
  /\ DOMAIN out' = Readers /\ DOMAIN held' = Readers /\ DOMAIN data' = Readers
  /\ \A x \in Readers : x # r =>
       /\ asked'[x] = asked[x] /\ step'[x] = step[x] /\ at'[x] = at[x]
       /\ out'[x] = out[x] /\ held'[x] = held[x] /\ data'[x] = data[x]

(* What the promised behaviour sees of a step that answers, or does not.   *)
Replied(r) ==
  /\ answer' = [answer EXCEPT ![r] = Reference!Reference(asked[r])]
  /\ asked' = [asked EXCEPT ![r] = Nobody]

LEMMA AnswerFacts ==
  ASSUME ReadersAll, NEW r \in Readers, NEW a, Answer(r, a)
  PROVE  Others(r) /\ ReaderInv(r)'
<1>1. step'[r] = "idle" /\ asked'[r] = Nobody
  BY DEF ReadersAll, Answer
<1>2. Others(r)
  BY DEF ReadersAll, Answer, Others
<1>. QED BY Zenon, <1>1, <1>2 DEF ReaderInv, Steps, Reading

LEMMA DeliverFacts ==
  ASSUME ReadersAll, NEW r \in Readers, Asking(r), NEW d, NEW to \in Nat,
         d = Reference!Bytes(asked[r].object, Start(r), to),
         Start(r) < to, to <= SizeOf[asked[r].object], to <= Start(r) + BlockUnits,
         to = Start(r) + BlockUnits \/ to = SizeOf[asked[r].object] \/ to = End(r),
         Deliver(r, d)
  PROVE  Others(r) /\ ReaderInv(r)' /\ (Replied(r) \/ UNCHANGED <<asked, answer>>)
<1>1. PICK o, off, s, e, z, b, u, part :
        /\ o = asked[r].object /\ off = asked[r].offset /\ s = Start(r) /\ e = End(r)
        /\ z = SizeOf[o] /\ b = BlockUnits /\ u = out[r] /\ part = Part(r, d)
  BY Zenon
<1>2. /\ off \in Nat /\ e \in Nat /\ s \in Nat /\ z \in Nat /\ b \in Nat \ {0}
      /\ off < e /\ s < e /\ off < s + b
      /\ asked[r].length = e - off
      /\ Reference!Reference(asked[r]) =
           IF e > z THEN Reference!Bad("range") ELSE Reference!Ok(Reference!Bytes(o, off, e))
  <2>1. /\ off \in Nat /\ e \in Nat /\ s \in Nat /\ z \in Nat /\ off < e
        /\ Reference!Reference(asked[r]) =
             IF e > z THEN Reference!Bad("range") ELSE Reference!Ok(Reference!Bytes(o, off, e))
    BY Zenon, <1>1, ReferenceFacts
  <2>2. s < e /\ off < s + b /\ b \in Nat \ {0}
    BY Zenon, <1>1, TierAssumption DEF Asking
  <2>3. asked[r].length \in Nat /\ e = off + asked[r].length
    BY Zenon, <1>1 DEF Asking, End
  <2>4. asked[r].length = e - off
    <3>1. off \in Nat
      BY Zenon, <2>1
    <3>. QED BY <2>3, <3>1
  <2>. QED BY Zenon, <2>1, <2>2, <2>4
<1>3. u = Reference!Bytes(o, off, Larger(off, s))
  BY Zenon, <1>1 DEF Asking
<1>4. part = SubSeq(d, Larger(off - s, 0) + 1, Smaller(e - s, Len(d)))
  BY <1>1 DEF Part
<1>5. /\ d = Reference!Bytes(o, s, to) /\ s < to /\ to <= z /\ to <= s + b
      /\ to = s + b \/ to = z \/ to = e
  BY Zenon, <1>1
<1>6. Assembled(o, off, e, s, b, z, d, u \o part)
  <2>1. InHand(o, off, e, s, b, z, to, d, u, part)
    BY Zenon, <1>2, <1>3, <1>4, <1>5 DEF InHand
  <2>. QED BY Zenon, <2>1, PartFacts
<1>7. CASE Len(d) < b /\ e > s + Len(d)
  <2>1. Answer(r, Reference!Bad("range"))
    BY Zenon, <1>1, <1>7 DEF Deliver
  <2>2. Reference!Reference(asked[r]) = Reference!Bad("range")
    BY Zenon, <1>2, <1>6, <1>7 DEF Assembled
  <2>3. Replied(r)
    BY Zenon, <2>1, <2>2 DEF Answer, Replied
  <2>. QED BY Zenon, <2>1, <2>3, AnswerFacts
<1>8. CASE ~ (Len(d) < b /\ e > s + Len(d)) /\ s + b < e
  <2>1. /\ out' = [out EXCEPT ![r] = u \o part] /\ at' = [at EXCEPT ![r] = @ + 1]
        /\ step' = [step EXCEPT ![r] = "block"]
        /\ held' = [held EXCEPT ![r] = Nobody] /\ data' = [data EXCEPT ![r] = Nobody]
        /\ UNCHANGED <<asked, answer>>
    BY Zenon, <1>1, <1>8 DEF Deliver
  <2>2. Others(r)
    BY Zenon, <2>1 DEF ReadersAll, Others
  <2>3. /\ step'[r] = "block" /\ asked'[r] = asked[r] /\ at'[r] = at[r] + 1
        /\ out'[r] = Reference!Bytes(o, off, s + b)
    BY Zenon, <1>6, <1>8, <2>1 DEF ReadersAll, Assembled
  <2>4. at[r] \in Nat /\ s = at[r] * BlockUnits /\ b = BlockUnits
    BY Zenon, <1>1 DEF Asking, Start
  <2>5. Start(r)' = s + b /\ at'[r] \in Nat /\ End(r)' = e
    <3>1. (at[r] + 1) * BlockUnits = at[r] * BlockUnits + BlockUnits
      <4>1. at[r] \in Int /\ BlockUnits \in Int
        BY <2>4, TierAssumption
      <4>. QED BY Zenon, <4>1, NextBlock
    <3>2. Start(r)' = (at[r] + 1) * BlockUnits
      BY Zenon, <2>3 DEF Start
    <3>3. End(r)' = e
      BY Zenon, <1>1, <2>1 DEF End
    <3>4. at[r] + 1 \in Nat
      BY <2>4
    <3>. QED BY Zenon, <2>3, <2>4, <3>1, <3>2, <3>3, <3>4
  <2>6. Larger(off, s + b) = s + b /\ off < s + b + b
    <3>1. off \in Nat /\ s \in Nat /\ b \in Nat /\ off < s + b
      BY Zenon, <1>1, <1>2, <2>4, TierAssumption
    <3>. QED BY <3>1 DEF Larger
  <2>7. Asking(r)'
    <3>1. /\ asked'[r] \in Requests[r] /\ asked'[r].length <= MaxRead
          /\ asked'[r].offset <= MaxOffset - asked'[r].length
          /\ asked'[r].offset \in Nat /\ asked'[r].length \in Nat \ {0}
          /\ asked'[r].offset = off /\ asked'[r].object = o
      BY Zenon, <1>1, <2>3 DEF Asking
    <3>2. Start(r)' < End(r)' /\ off < Start(r)' + BlockUnits
      BY Zenon, <1>1, <1>8, <2>5, <2>6
    <3>3. out'[r] = Reference!Bytes(o, off, Larger(off, Start(r)'))
      BY Zenon, <2>3, <2>5, <2>6
    <3>. QED BY Zenon, <2>5, <3>1, <3>2, <3>3 DEF Asking
  <2>. QED BY Zenon, <2>1, <2>2, <2>3, <2>7 DEF ReaderInv, Steps, Reading
<1>9. CASE ~ (Len(d) < b /\ e > s + Len(d)) /\ ~ (s + b < e)
  <2>1. e <= z /\ u \o part = Reference!Bytes(o, off, e)
    BY Zenon, <1>6, <1>9 DEF Assembled
  <2>2. Len(u \o part) = asked[r].length
    <3>1. off \in Int /\ e \in Int /\ off <= e /\ asked[r].length = e - off
      <4>1. off \in Nat /\ e \in Nat /\ off < e /\ asked[r].length = e - off
        BY Zenon, <1>2
      <4>. QED BY <4>1
    <3>2. Len(Reference!Bytes(o, off, e)) = e - off
      BY Zenon, <3>1, BytesFacts
    <3>. QED BY Zenon, <2>1, <3>1, <3>2
  <2>3. Answer(r, Reference!Ok(u \o part))
    BY Zenon, <1>1, <1>9, <2>2 DEF Deliver
  <2>4. Reference!Reference(asked[r]) = Reference!Ok(u \o part)
    <3>1. ~ (e > z)
      <4>1. e \in Nat /\ z \in Nat
        BY Zenon, <1>2
      <4>. QED BY <2>1, <4>1
    <3>. QED BY Zenon, <1>2, <2>1, <3>1
  <2>5. Replied(r)
    BY Zenon, <2>3, <2>4 DEF Answer, Replied
  <2>. QED BY Zenon, <2>3, <2>5, AnswerFacts
<1>. QED BY Zenon, <1>7, <1>8, <1>9

-----------------------------------------------------------------------------
(* Steps that leave a reader, or what is known of reads, as it was.        *)

LEMMA AskingKept ==
  ASSUME NEW x, Asking(x), asked'[x] = asked[x], at'[x] = at[x], out'[x] = out[x]
  PROVE  Asking(x)'
<1>1. Start(x)' = Start(x) /\ End(x)' = End(x)
  BY DEF Start, End
<1>. QED BY Zenon, <1>1 DEF Asking

LEMMA ReaderKept ==
  ASSUME NEW x \in Readers, ReaderInv(x), Ages, generation \in Nat,
         asked'[x] = asked[x], step'[x] = step[x], at'[x] = at[x],
         out'[x] = out[x], held'[x] = held[x], data'[x] = data[x]
  PROVE  ReaderInv(x)'
<1>1. step'[x] # "idle" => Asking(x)'
  BY Zenon, AskingKept DEF ReaderInv
<1>2. ASSUME step'[x] \in Reading PROVE Holding(x)'
  <2>1. PICK k, h, g : k = BlockOf(x) /\ h = held[x] /\ g = generation
    OBVIOUS
  <2>2. BlockOf(x)' = k /\ held'[x] = h
    BY Zenon, <2>1 DEF BlockOf
  <2>3. /\ h.gen \in Nat /\ h.gen <= g /\ g \in Nat
        /\ Same(k, h) => /\ h = resident[k]
                         /\ step[x] = "rest" => data[x] = <<KeyData(k)[1]>>
                         /\ step[x] = "finish" /\ data[x] # Nobody => data[x] = KeyData(k)
    BY Zenon, <1>2, <2>1 DEF ReaderInv, Holding
  <2>4. h.gen <= generation' /\ ~ (h.gen > g)
    <3>1. h.gen \in Nat /\ g \in Nat /\ h.gen <= g /\ generation' \in Nat /\ g <= generation'
      BY Zenon, <2>1, <2>3 DEF Ages
    <3>. QED BY <3>1
  <2>5. Same(k, h)' => Same(k, h) /\ resident'[k] = resident[k]
    <3>1. ASSUME k \in DOMAIN resident', resident'[k].gen = h.gen
          PROVE  k \in DOMAIN resident /\ resident'[k] = resident[k]
      BY Zenon, <2>1, <2>4, <3>1 DEF Ages
    <3>. QED BY <3>1 DEF Same
  <2>. QED BY Zenon, <2>2, <2>3, <2>4, <2>5 DEF Holding
<1>. QED BY <1>1, <1>2 DEF ReaderInv

LEMMA ReadersKept ==
  ASSUME ReadersAll, UNCHANGED readerVars, Ages, generation \in Nat
  PROVE  ReadersAll'
<1>1. ASSUME NEW x \in Readers PROVE ReaderInv(x)'
  BY <1>1, ReaderKept DEF ReadersAll, readerVars
<1>. QED BY Zenon, <1>1 DEF ReadersAll, readerVars

LEMMA OthersKept ==
  ASSUME ReadersAll, NEW r \in Readers, Others(r), ReaderInv(r)', Ages, generation \in Nat
  PROVE  ReadersAll'
<1>1. ASSUME NEW x \in Readers, x # r PROVE ReaderInv(x)'
  BY <1>1, ReaderKept DEF ReadersAll, Others
<1>. QED BY <1>1 DEF ReadersAll, Others

LEMMA EvidenceKept ==
  ASSUME Evidenced, first' = first, evidence' = evidence,
         DOMAIN resident' \subseteq DOMAIN resident
  PROVE  Evidenced'
<1>1. Members(first)' = Members(first)
  BY Zenon DEF Members
<1>. QED BY <1>1 DEF Evidenced

(* What the promise allows a reader's step to be.                          *)
Seen(r) ==
  \/ Reference!Ask(r) \/ Reference!Reply(r) \/ Reference!Fail(r) \/ Reference!AskAndReply(r)
  \/ UNCHANGED Reference!readVars

(* What a reader's step does.                                              *)
Right(r) == TierInv' /\ Ages /\ Evidenced' /\ Others(r) /\ ReaderInv(r)' /\ Seen(r)

LEMMA AskingWhile ==
  ASSUME PathInv, NEW r \in Readers, step[r] # "idle"
  PROVE  /\ ReadersAll /\ Asking(r) /\ asked[r] # Nobody
         /\ TierInv /\ generation \in Nat /\ Evidenced
BY Zenon, PathAssumption DEF PathInv, ReadersAll, ReaderInv, Asking, TierInv, Shape

LEMMA FailRight ==
  ASSUME PathInv, NEW r \in Readers, step[r] # "idle",
         Answer(r, Reference!Bad("failed")), faults' = faults + 1,
         UNCHANGED tierVars, UNCHANGED evidence
  PROVE  Right(r)
<1>1. ReadersAll /\ asked[r] # Nobody /\ TierInv /\ Evidenced
  BY Zenon, AskingWhile
<1>2. TierInv' /\ Ages
  BY Zenon, <1>1, TierIdle DEF tierVars
<1>3. Evidenced'
  BY <1>1, EvidenceKept DEF tierVars
<1>4. Others(r) /\ ReaderInv(r)'
  BY <1>1, AnswerFacts
<1>5. Reference!Fail(r)
  BY <1>1 DEF Answer, Reference!Fail
<1>. QED BY <1>2, <1>3, <1>4, <1>5 DEF Right, Seen

LEMMA BeginRight ==
  ASSUME PathInv, NEW r \in Readers, Begin(r)
  PROVE  Right(r)
<1>1. ReadersAll /\ TierInv /\ Evidenced /\ step[r] = "idle" /\ asked[r] = Nobody
  BY Zenon DEF PathInv, ReadersAll, ReaderInv, Begin
<1>2. UNCHANGED <<tierVars, faults, evidence>>
  BY Zenon DEF Begin
<1>3. TierInv' /\ Ages
  BY Zenon, <1>1, <1>2, TierIdle DEF tierVars
<1>4. Evidenced'
  BY Zenon, <1>1, <1>2, EvidenceKept DEF tierVars
<1>5. PICK q \in Requests[r] :
        LET known == Reference!Reference(q)
        IN  IF known.status = "refused" \/ q.length = 0
              THEN /\ answer' = [answer EXCEPT ![r] = known]
                   /\ UNCHANGED <<asked, step, at, out, held, data>>
              ELSE /\ answer' = [answer EXCEPT ![r] = Nobody]
                   /\ asked' = [asked EXCEPT ![r] = q]
                   /\ step' = [step EXCEPT ![r] = "block"]
                   /\ at' = [at EXCEPT ![r] = q.offset \div BlockUnits]
                   /\ out' = [out EXCEPT ![r] = <<>>]
                   /\ UNCHANGED <<held, data>>
  BY Zenon DEF Begin
<1>6. CASE Reference!Reference(q).status = "refused" \/ q.length = 0
  <2>1. /\ answer' = [answer EXCEPT ![r] = Reference!Reference(q)]
        /\ UNCHANGED <<asked, step, at, out, held, data>>
    BY <1>5, <1>6
  <2>2. Others(r)
    BY <1>1, <2>1 DEF ReadersAll, Others
  <2>3. ReaderInv(r)'
    BY Zenon, <1>1, <2>1 DEF ReaderInv, Steps, Reading
  <2>4. Reference!AskAndReply(r)
    BY Zenon, <1>1, <1>2, <2>1 DEF Reference!AskAndReply
  <2>. QED BY SMTT(20), <1>3, <1>4, <2>2, <2>3, <2>4 DEF Right, Seen
<1>7. CASE ~ (Reference!Reference(q).status = "refused" \/ q.length = 0)
  <2>1. /\ answer' = [answer EXCEPT ![r] = Nobody]
        /\ asked' = [asked EXCEPT ![r] = q]
        /\ step' = [step EXCEPT ![r] = "block"]
        /\ at' = [at EXCEPT ![r] = q.offset \div BlockUnits]
        /\ out' = [out EXCEPT ![r] = <<>>]
        /\ UNCHANGED <<held, data>>
    BY Zenon, <1>5, <1>7
  <2>2. Others(r)
    BY Zenon, <1>1, <2>1 DEF ReadersAll, Others
  <2>3. /\ asked'[r] = q /\ step'[r] = "block" /\ out'[r] = <<>>
        /\ at'[r] = q.offset \div BlockUnits
    BY Zenon, <1>1, <2>1 DEF ReadersAll
  <2>4. q.offset \in Int /\ q.length \in Int /\ MaxRead \in Nat /\ MaxOffset \in Nat
    BY PathAssumption
  <2>5. Reference!Bad("refused").status = "refused"
    BY DEF Reference!Bad
  <2>6. ~ (q.offset < 0 \/ q.length < 0)
    BY <1>7, <2>5 DEF Reference!Reference
  <2>7. q.offset \in Nat /\ q.length \in Nat \ {0}
    BY SMTT(20), <1>7, <2>4, <2>6
  <2>8. ~ (q.offset >= 0 /\ q.length > 0 /\ (q.offset > MaxOffset - q.length \/ q.length > MaxRead))
    BY SMTT(20), <1>7, <2>5, <2>6, <2>7 DEF Reference!Reference
  <2>9. q.length <= MaxRead /\ q.offset <= MaxOffset - q.length
    BY <2>4, <2>7, <2>8
  <2>10. /\ at'[r] \in Nat /\ Start(r)' <= q.offset /\ q.offset < Start(r)' + BlockUnits
         /\ Start(r)' \in Nat
    <3>1. Start(r)' = (q.offset \div BlockUnits) * BlockUnits
      BY <2>3 DEF Start
    <3>2. BlockUnits \in Nat \ {0}
      BY TierAssumption
    <3>3. /\ q.offset \div BlockUnits \in Nat
          /\ (q.offset \div BlockUnits) * BlockUnits <= q.offset
          /\ q.offset < (q.offset \div BlockUnits) * BlockUnits + BlockUnits
      BY Zenon, <2>7, <3>2, BlockHolding
    <3>4. Start(r)' \in Nat
      BY <3>1, <3>2, <3>3, BlockStarts
    <3>. QED BY SMTT(20), <2>3, <3>1, <3>3, <3>4
  <2>11. End(r)' = q.offset + q.length
    BY <2>3 DEF End
  <2>12. Start(r)' < End(r)'
    BY <2>7, <2>10, <2>11
  <2>13. out'[r] = Reference!Bytes(q.object, q.offset, Larger(q.offset, Start(r)'))
    <3>1. Larger(q.offset, Start(r)') = q.offset
      BY <2>7, <2>10 DEF Larger
    <3>2. Reference!Bytes(q.object, q.offset, q.offset) = <<>>
      BY <2>7 DEF Reference!Bytes
    <3>. QED BY SMTT(20), <2>3, <3>1, <3>2
  <2>14. Asking(r)'
    BY Zenon, <2>3, <2>7, <2>9, <2>10, <2>12, <2>13 DEF Asking
  <2>15. ReaderInv(r)'
    BY <2>3, <2>14 DEF ReaderInv, Steps, Reading
  <2>16. Reference!Ask(r)
    BY Zenon, <1>1, <1>2, <2>1 DEF Reference!Ask
  <2>. QED BY SMTT(20), <1>3, <1>4, <2>2, <2>15, <2>16 DEF Right, Seen
<1>. QED BY <1>6, <1>7

-----------------------------------------------------------------------------
(* The lookup, the device read and what follows it (Cache.Read, blockAt).  *)

LEMMA OnDevice ==
  ASSUME TierInv, NEW k \in DOMAIN resident
  PROVE  /\ k \in Keys /\ KeyData(k) \in Seq(Units)
         /\ resident[k].length = Len(KeyData(k)) /\ Len(KeyData(k)) \in Nat \ {0}
         /\ \A u \in 1 .. Len(KeyData(k)) :
              disk[resident[k].slab][resident[k].slot][u] = KeyData(k)[u]
<1>1. k \in Keys /\ resident[k].length = Len(KeyData(k))
  BY DEF TierInv, AllPlaced, Placed
<1>2. /\ KeyData(k) \in Seq(Units) /\ Len(KeyData(k)) \in 1 .. BlockUnits
      /\ \A u \in 1 .. Len(KeyData(k)) : KeyData(k)[u] = <<k[1], k[2] * BlockUnits + u - 1>>
  BY SMTT(20), <1>1, KeyDataFacts DEF From
<1>3. \A u \in 1 .. Len(KeyData(k)) :
        disk[resident[k].slab][resident[k].slot][u] = <<k[1], k[2] * BlockUnits + u - 1>>
  BY <1>1 DEF TierInv, ResidentBlocksIntact
<1>4. Len(KeyData(k)) \in Nat \ {0}
  BY <1>2, TierAssumption
<1>. QED BY Zenon, <1>1, <1>2, <1>3, <1>4

LEMMA HeadAndRest ==
  ASSUME NEW V, NEW d \in Seq(V), Len(d) \in Nat \ {0}
  PROVE  <<d[1]>> \o [i \in 1 .. Len(d) - 1 |-> d[i + 1]] = d
<1>. DEFINE n == Len(d)
            h == <<d[1]>>
            t == [i \in 1 .. n - 1 |-> d[i + 1]]
            u == h \o t
<1>1. n \in Nat /\ n >= 1 /\ n - 1 \in Nat /\ \A i \in 1 .. n : d[i] \in V
  OBVIOUS
<1>2. h \in Seq(V) /\ Len(h) = 1 /\ h[1] = d[1]
  BY <1>1
<1>3. \A i \in 1 .. n - 1 : i + 1 \in 1 .. n
  BY <1>1
<1>4. t \in [1 .. n - 1 -> V] /\ \A i \in 1 .. n - 1 : t[i] = d[i + 1]
  BY <1>1, <1>3
<1>. HIDE DEF n, h, t
<1>5. t \in Seq(V) /\ Len(t) = n - 1
  BY <1>1, <1>4
<1>6. /\ u \in Seq(V) /\ Len(u) = Len(h) + Len(t)
      /\ \A i \in 1 .. Len(h) + Len(t) : u[i] = IF i <= Len(h) THEN h[i] ELSE t[i - Len(h)]
  BY Zenon, <1>2, <1>5, JoinFacts
<1>. HIDE DEF u
<1>7. Len(u) = n
  BY <1>1, <1>2, <1>5, <1>6
<1>8. ASSUME NEW i \in 1 .. n PROVE u[i] = d[i]
  <2>1. CASE i = 1
    BY <1>1, <1>2, <1>5, <1>6, <2>1
  <2>2. CASE i # 1
    <3>1. i - 1 \in 1 .. n - 1 /\ i - 1 + 1 = i /\ ~ (i <= 1)
      BY <1>1, <2>2
    <3>2. u[i] = t[i - 1]
      BY <1>1, <1>2, <1>5, <1>6, <3>1
    <3>3. t[i - 1] = d[i - 1 + 1]
      BY <1>4, <3>1
    <3>. QED BY <3>1, <3>2, <3>3
  <2>. QED BY <2>1, <2>2
<1>9. u = d
  BY <1>6, <1>7, <1>8 DEF n
<1>. QED BY <1>9 DEF u, h, t, n

LEMMA LookupRight ==
  ASSUME PathInv, NEW r \in Readers, Lookup(r)
  PROVE  Right(r)
<1>1. step[r] = "block" /\ UNCHANGED <<asked, answer, faults, at, out, data, evidence>>
  BY Zenon DEF Lookup
<1>2. ReadersAll /\ Asking(r) /\ TierInv /\ generation \in Nat /\ Evidenced
  BY Zenon, <1>1, AskingWhile
<1>3. UNCHANGED Reference!readVars
  BY <1>1 DEF Reference!readVars
<1>4. Asking(r)'
  BY Zenon, <1>1, <1>2, AskingKept
<1>5. PICK k : k = BlockOf(r) /\ BlockOf(r)' = k
  BY Zenon, <1>1 DEF BlockOf
<1>6. CASE /\ Touch(k) /\ held' = [held EXCEPT ![r] = resident[k]]
           /\ step' = [step EXCEPT ![r] = "half"]
  <2>1. TierInv' /\ Ages
    BY <1>2, <1>6, TouchFacts
  <2>2. Evidenced'
    BY <1>1, <1>2, <1>6, EvidenceKept DEF Touch
  <2>3. Others(r)
    BY Zenon, <1>1, <1>2, <1>6 DEF ReadersAll, Others
  <2>4. /\ step'[r] = "half" /\ held'[r] = resident[k] /\ resident' = resident
        /\ generation' = generation /\ k \in DOMAIN resident
    BY Zenon, <1>2, <1>6 DEF ReadersAll, Touch
  <2>5. Holding(r)'
    <3>1. resident[k].gen \in Nat /\ resident[k].gen <= generation
      BY Zenon, <1>2, <2>4 DEF TierInv, AllPlaced, Placed
    <3>. QED BY Zenon, <1>5, <2>4, <3>1 DEF Holding
  <2>6. ReaderInv(r)'
    BY <1>4, <2>4, <2>5 DEF ReaderInv, Steps
  <2>. QED BY <1>3, <2>1, <2>2, <2>3, <2>6 DEF Right, Seen
<1>7. CASE Miss(k) /\ step' = [step EXCEPT ![r] = "fetch"] /\ UNCHANGED held
  <2>1. TierInv' /\ Ages
    BY <1>2, <1>7, TierIdle DEF Miss, tierVars
  <2>2. Evidenced'
    BY SMTT(20), <1>1, <1>2, <1>7, EvidenceKept DEF Miss, tierVars
  <2>3. Others(r) /\ step'[r] = "fetch"
    BY SMTT(20), <1>1, <1>2, <1>7 DEF ReadersAll, Others
  <2>4. ReaderInv(r)'
    BY <1>4, <2>3 DEF ReaderInv, Steps, Reading
  <2>. QED BY <1>3, <2>1, <2>2, <2>3, <2>4 DEF Right, Seen
<1>. QED BY Zenon, <1>5, <1>6, <1>7 DEF Lookup

(* A step that moves only a reader's own step and data.                    *)
LEMMA DeviceRight ==
  ASSUME PathInv, NEW r \in Readers, step[r] # "idle",
         NEW next \in {"rest", "finish"}, NEW got,
         step' = [step EXCEPT ![r] = next], data' = [data EXCEPT ![r] = got],
         UNCHANGED <<asked, answer, faults, at, out, held, tierVars, evidence>>,
         Holding(r),
         Same(BlockOf(r), held[r]) =>
           /\ next = "rest" => got = <<KeyData(BlockOf(r))[1]>>
           /\ next = "finish" /\ got # Nobody => got = KeyData(BlockOf(r))
  PROVE  Right(r)
<1>1. ReadersAll /\ Asking(r) /\ TierInv /\ generation \in Nat /\ Evidenced
  BY AskingWhile
<1>2. TierInv' /\ Ages
  BY <1>1, TierIdle DEF tierVars
<1>3. Evidenced'
  BY <1>1, EvidenceKept DEF tierVars
<1>4. Others(r) /\ step'[r] = next /\ data'[r] = got /\ held'[r] = held[r]
  BY <1>1 DEF ReadersAll, Others
<1>5. Asking(r)'
  BY <1>1, AskingKept
<1>6. Holding(r)'
  <2>1. PICK k, h : k = BlockOf(r) /\ h = held[r] /\ BlockOf(r)' = k /\ held'[r] = h
    BY <1>4 DEF BlockOf
  <2>2. Same(k, h)' = Same(k, h) /\ resident' = resident /\ generation' = generation
    BY DEF Same, tierVars
  <2>. QED BY Zenon, <1>4, <2>1, <2>2 DEF Holding
<1>7. ReaderInv(r)'
  BY <1>4, <1>5, <1>6 DEF ReaderInv, Steps
<1>8. UNCHANGED Reference!readVars
  BY DEF Reference!readVars
<1>. QED BY SMTT(20), <1>2, <1>3, <1>4, <1>7, <1>8 DEF Right, Seen

LEMMA ReadHalfRight ==
  ASSUME PathInv, NEW r \in Readers, ReadHalf(r)
  PROVE  Right(r)
<1>1. /\ step[r] = "half"
      /\ UNCHANGED <<asked, answer, faults, at, out, held, tierVars, evidence>>
  BY DEF ReadHalf
<1>2. TierInv /\ Holding(r)
  BY <1>1 DEF PathInv, ReadersAll, ReaderInv, Reading
<1>3. PICK k, h, got : k = BlockOf(r) /\ h = held[r] /\ got = <<disk[h.slab][h.slot][1]>>
  BY Zenon
<1>4. CASE data' = [data EXCEPT ![r] = got] /\ step' = [step EXCEPT ![r] = "rest"]
  <2>1. ASSUME Same(k, h) PROVE got = <<KeyData(k)[1]>>
    <3>1. k \in DOMAIN resident /\ h = resident[k]
      BY Zenon, <1>2, <1>3, <2>1 DEF Same, Holding
    <3>2. Len(KeyData(k)) \in Nat \ {0}
          /\ \A u \in 1 .. Len(KeyData(k)) : disk[h.slab][h.slot][u] = KeyData(k)[u]
      BY <1>2, <3>1, OnDevice
    <3>3. 1 \in 1 .. Len(KeyData(k))
      BY <3>2
    <3>. QED BY Zenon, <1>3, <3>2, <3>3
  <2>. QED BY Zenon, <1>1, <1>2, <1>3, <1>4, <2>1, DeviceRight
<1>5. CASE data' = [data EXCEPT ![r] = Nobody] /\ step' = [step EXCEPT ![r] = "finish"]
  BY Zenon, <1>1, <1>2, <1>5, DeviceRight
<1>. QED BY Zenon, <1>3, <1>4, <1>5 DEF ReadHalf

LEMMA ReadRestRight ==
  ASSUME PathInv, NEW r \in Readers, ReadRest(r)
  PROVE  Right(r)
<1>1. PICK k, h, d : k = BlockOf(r) /\ h = held[r] /\ d = KeyData(k)
  OBVIOUS
<1>2. PICK got : got = data[r] \o [i \in 1 .. h.length - 1 |-> disk[h.slab][h.slot][i + 1]]
  BY Zenon
<1>3. /\ step[r] = "rest" /\ step' = [step EXCEPT ![r] = "finish"]
      /\ data' = [data EXCEPT ![r] = got]
      /\ UNCHANGED <<asked, answer, faults, at, out, held, tierVars, evidence>>
  BY Zenon, <1>1, <1>2 DEF ReadRest
<1>4. TierInv /\ Holding(r)
  BY Zenon, <1>3 DEF PathInv, ReadersAll, ReaderInv, Reading
<1>5. ASSUME Same(k, h) PROVE got = d
  <2>1. k \in DOMAIN resident /\ h = resident[k] /\ data[r] = <<d[1]>>
    BY <1>1, <1>3, <1>4, <1>5 DEF Same, Holding
  <2>2. /\ d \in Seq(Units) /\ h.length = Len(d) /\ Len(d) \in Nat \ {0}
        /\ \A u \in 1 .. Len(d) : disk[h.slab][h.slot][u] = d[u]
    BY Zenon, <1>1, <1>4, <2>1, OnDevice
  <2>3. \A i \in 1 .. Len(d) - 1 : disk[h.slab][h.slot][i + 1] = d[i + 1]
    <3>1. \A i \in 1 .. Len(d) - 1 : i + 1 \in 1 .. Len(d)
      BY <2>2
    <3>. QED BY <2>2, <3>1
  <2>4. got = <<d[1]>> \o [i \in 1 .. Len(d) - 1 |-> d[i + 1]]
    BY Zenon, <1>2, <2>1, <2>2, <2>3
  <2>. QED BY SMTT(20), <2>2, <2>4, HeadAndRest
<1>. QED BY Zenon, <1>1, <1>3, <1>4, <1>5, DeviceRight

(* The block a reader is at, delivered whole.                              *)
LEMMA BlockDelivered ==
  ASSUME ReadersAll, NEW r \in Readers, Asking(r), BlockOf(r) \in Keys,
         Deliver(r, KeyData(BlockOf(r)))
  PROVE  Others(r) /\ ReaderInv(r)' /\ (Replied(r) \/ UNCHANGED <<asked, answer>>)
<1>1. PICK k : k = BlockOf(r)
  OBVIOUS
<1>2. k[1] = asked[r].object /\ From(k) = Start(r)
  BY <1>1 DEF BlockOf, Key, From, Start
<1>3. /\ To(k) \in Nat /\ From(k) < To(k) /\ To(k) <= From(k) + BlockUnits
      /\ To(k) <= SizeOf[k[1]]
      /\ KeyData(k) = Reference!Bytes(k[1], From(k), To(k))
  BY Zenon, <1>1, KeyIsPair, KeyDataFacts
<1>4. To(k) = From(k) + BlockUnits \/ To(k) = SizeOf[k[1]]
  BY DEF To, Smaller
<1>5. PICK to, d : to = To(k) /\ d = KeyData(k)
  OBVIOUS
<1>6. /\ to \in Nat /\ d = Reference!Bytes(asked[r].object, Start(r), to)
      /\ Start(r) < to /\ to <= SizeOf[asked[r].object] /\ to <= Start(r) + BlockUnits
      /\ to = Start(r) + BlockUnits \/ to = SizeOf[asked[r].object] \/ to = End(r)
      /\ Deliver(r, d)
  BY Zenon, <1>1, <1>2, <1>3, <1>4, <1>5
<1>. QED BY Zenon, <1>6, DeliverFacts

LEMMA RepliedSeen ==
  ASSUME NEW r, asked[r] # Nobody, faults' = faults,
         Replied(r) \/ UNCHANGED <<asked, answer>>
  PROVE  Seen(r)
<1>1. CASE Replied(r)
  BY <1>1 DEF Replied, Seen, Reference!Reply
<1>2. CASE UNCHANGED <<asked, answer>>
  BY <1>2 DEF Seen, Reference!readVars
<1>. QED BY <1>1, <1>2

LEMMA FinishReadRight ==
  ASSUME PathInv, NEW r \in Readers, FinishRead(r)
  PROVE  Right(r)
<1>1. step[r] = "finish" /\ faults' = faults /\ evidence' = evidence
  BY DEF FinishRead
<1>2. /\ ReadersAll /\ Asking(r) /\ asked[r] # Nobody /\ TierInv /\ generation \in Nat
      /\ Evidenced /\ Holding(r)
  BY Zenon, <1>1, AskingWhile DEF PathInv, ReadersAll, ReaderInv, Reading
<1>3. PICK k, h : k = BlockOf(r) /\ h = held[r]
  OBVIOUS
<1>4. CASE data[r] # Nobody /\ Hit(k, h) /\ Deliver(r, data[r]) /\ UNCHANGED tierVars
  <2>1. k \in Keys /\ data[r] = KeyData(k)
    BY Zenon, <1>1, <1>2, <1>3, <1>4 DEF Hit, Same, Holding, TierInv, AllPlaced, Placed
  <2>2. Others(r) /\ ReaderInv(r)' /\ (Replied(r) \/ UNCHANGED <<asked, answer>>)
    BY Zenon, <1>2, <1>3, <1>4, <2>1, BlockDelivered
  <2>3. TierInv' /\ Ages
    BY Zenon, <1>2, <1>4, TierIdle DEF tierVars
  <2>4. Evidenced'
    BY SMTT(20), <1>1, <1>2, <1>4, EvidenceKept DEF tierVars
  <2>5. Seen(r)
    BY SMTT(20), <1>1, <1>2, <2>2, RepliedSeen
  <2>. QED BY SMTT(20), <2>2, <2>3, <2>4, <2>5 DEF Right
<1>5. CASE /\ \/ UNCHANGED tierVars
              \/ data[r] = Nobody /\ DropUnread(k, h)
           /\ step' = [step EXCEPT ![r] = "fetch"]
           /\ held' = [held EXCEPT ![r] = Nobody]
           /\ data' = [data EXCEPT ![r] = Nobody]
           /\ UNCHANGED <<asked, answer, at, out>>
  <2>1. TierInv' /\ Ages /\ DOMAIN resident' \subseteq DOMAIN resident /\ first' = first
    <3>1. CASE UNCHANGED tierVars
      BY SMTT(20), <1>2, <3>1, TierIdle DEF tierVars
    <3>2. CASE DropUnread(k, h)
      <4>1. Same(k, h) => h = resident[k]
        BY Zenon, <1>2, <1>3 DEF Holding
      <4>. QED BY <1>2, <3>2, <4>1, DropUnreadFacts
    <3>. QED BY <1>5, <3>1, <3>2
  <2>2. Evidenced'
    BY SMTT(20), <1>1, <1>2, <2>1, EvidenceKept
  <2>3. Others(r) /\ step'[r] = "fetch"
    BY <1>2, <1>5 DEF ReadersAll, Others
  <2>4. Asking(r)'
    BY Zenon, <1>2, <1>5, AskingKept
  <2>5. ReaderInv(r)'
    BY Zenon, <2>3, <2>4 DEF ReaderInv, Steps, Reading
  <2>6. Seen(r)
    BY <1>1, <1>5 DEF Seen, Reference!readVars
  <2>. QED BY SMTT(20), <2>1, <2>2, <2>3, <2>5, <2>6 DEF Right
<1>. QED BY SMTT(20), <1>3, <1>4, <1>5 DEF FinishRead

-----------------------------------------------------------------------------
(* The backend after a miss.                                               *)

LEMMA OfferRight ==
  ASSUME PathInv, NEW r \in Readers, step[r] # "idle", BlockOf(r) \in Keys,
         Offer(r), faults' = faults
  PROVE  Right(r)
<1>1. /\ ReadersAll /\ Asking(r) /\ asked[r] # Nobody /\ TierInv /\ generation \in Nat
      /\ Evidenced
  BY AskingWhile
<1>2. PICK k : k = BlockOf(r)
  OBVIOUS
<1>3. KeyData(k) = BlockData(asked[r].object, at[r])
  BY <1>2 DEF KeyData, BlockOf, Key
<1>4. /\ Admit(k, KeyData(k), FALSE) /\ Deliver(r, KeyData(k))
      /\ evidence' = [evidence EXCEPT ![k] = Smaller(@ + 1, 2)]
  BY Zenon, <1>2, <1>3 DEF Offer
<1>5. k \in Keys /\ first \in Seq(Keys)
  BY Zenon, <1>1, <1>2 DEF Evidenced
<1>6. /\ TierInv' /\ Ages
      /\ DOMAIN resident' \subseteq DOMAIN resident \cup {k}
      /\ k \in DOMAIN resident' => k \in DOMAIN resident \/ k \in Members(first)
      /\ first' \in Seq(Keys) /\ Members(first') \subseteq Members(first) \cup {k}
  BY Zenon, <1>1, <1>4, <1>5, AdmitFacts
<1>7. Others(r) /\ ReaderInv(r)' /\ (Replied(r) \/ UNCHANGED <<asked, answer>>)
  BY Zenon, <1>1, <1>2, <1>4, <1>5, BlockDelivered
<1>8. Seen(r)
  BY Zenon, <1>1, <1>7, RepliedSeen
<1>9. Evidenced'
  <2>1. evidence \in [Keys -> 0 .. 2] /\ evidence[k] \in 0 .. 2
    BY <1>1, <1>5 DEF Evidenced
  <2>2. Smaller(evidence[k] + 1, 2) \in 1 .. 2
        /\ (evidence[k] >= 1 => Smaller(evidence[k] + 1, 2) = 2)
    BY <2>1 DEF Smaller
  <2>3. /\ evidence' \in [Keys -> 0 .. 2] /\ evidence'[k] >= 1
        /\ evidence[k] >= 1 => evidence'[k] = 2
        /\ \A x \in Keys : x # k => evidence'[x] = evidence[x]
    BY SMTT(20), <1>4, <1>5, <2>1, <2>2
  <2>4. Members(first)' = Members(first')
    BY DEF Members
  <2>5. \A x \in Members(first) : x \in Keys
    BY <1>5 DEF Members
  <2>6. \A x \in DOMAIN resident' : x \in Keys
    BY <1>6 DEF TierInv, AllPlaced, Placed
  <2>7. \A x \in Members(first)' : evidence'[x] >= 1
    BY Zenon, <1>1, <1>6, <2>3, <2>4, <2>5 DEF Evidenced
  <2>8. \A x \in DOMAIN resident' : evidence'[x] = 2
    <3>1. TAKE x \in DOMAIN resident'
    <3>2. CASE x # k
      BY Zenon, <1>1, <1>6, <2>3, <2>6, <3>2 DEF Evidenced
    <3>3. CASE x = k
      <4>1. evidence[k] = 2 \/ evidence[k] >= 1
        BY Zenon, <1>1, <1>6, <3>3 DEF Evidenced
      <4>2. evidence[k] >= 1
        BY <4>1
      <4>. QED BY Zenon, <2>3, <3>3, <4>2
    <3>. QED BY <3>2, <3>3
  <2>. QED BY Zenon, <1>6, <2>3, <2>7, <2>8 DEF Evidenced
<1>. QED BY Zenon, <1>6, <1>7, <1>8, <1>9 DEF Right

(* A range the store refuses is refused to the reader.                     *)
LEMMA RangeRight ==
  ASSUME PathInv, NEW r \in Readers, step[r] # "idle", End(r) > SizeOf[asked[r].object],
         Answer(r, Reference!Bad("range")), faults' = faults,
         UNCHANGED tierVars, UNCHANGED evidence
  PROVE  Right(r)
<1>1. ReadersAll /\ Asking(r) /\ asked[r] # Nobody /\ TierInv /\ Evidenced
  BY Zenon, AskingWhile
<1>2. TierInv' /\ Ages
  BY Zenon, <1>1, TierIdle DEF tierVars
<1>3. Evidenced'
  BY <1>1, EvidenceKept DEF tierVars
<1>4. Others(r) /\ ReaderInv(r)'
  BY Zenon, <1>1, AnswerFacts
<1>5. Reference!Reference(asked[r]) = Reference!Bad("range")
  BY Zenon, <1>1, ReferenceFacts
<1>6. Seen(r)
  BY Zenon, <1>1, <1>5, RepliedSeen DEF Replied, Answer
<1>. QED BY Zenon, <1>2, <1>3, <1>4, <1>6 DEF Right

LEMMA AtBlock ==
  ASSUME NEW r \in Readers, Asking(r)
  PROVE  /\ BlockOf(r) \in Keys <=> Start(r) < SizeOf[asked[r].object]
         /\ (at[r] + 1) * BlockUnits = Start(r) + BlockUnits
         /\ Start(r) \in Nat /\ End(r) \in Nat /\ SizeOf[asked[r].object] \in Nat
         /\ Start(r) < End(r) /\ BlockUnits \in Nat \ {0}
<1>1. /\ asked[r].object \in Objects /\ SizeOf[asked[r].object] \in Nat
      /\ Start(r) \in Nat /\ End(r) \in Nat
  BY ReferenceFacts
<1>2. at[r] \in Nat /\ Start(r) < End(r) /\ BlockUnits \in Nat \ {0}
  BY Zenon, TierAssumption DEF Asking
<1>3. (at[r] + 1) * BlockUnits = Start(r) + BlockUnits
  BY SMTT(20), <1>2, NextBlock DEF Start
<1>4. BlockOf(r) \in Keys <=> Start(r) < SizeOf[asked[r].object]
  BY <1>1, <1>2, KeyMeans DEF BlockOf, Start
<1>. QED BY Zenon, <1>1, <1>2, <1>3, <1>4

LEMMA FetchRight ==
  ASSUME PathInv, NEW r \in Readers, Fetch(r)
  PROVE  Right(r)
<1>1. step[r] = "fetch" /\ faults' = faults
  BY Zenon DEF Fetch
<1>2. /\ ReadersAll /\ Asking(r) /\ asked[r] # Nobody /\ TierInv /\ generation \in Nat
      /\ Evidenced
  BY Zenon, <1>1, AskingWhile
<1>3. PICK o, s, e, z, b : /\ o = asked[r].object /\ s = Start(r) /\ e = End(r)
                           /\ z = SizeOf[o] /\ b = BlockUnits
  BY Zenon
<1>4. /\ s \in Nat /\ e \in Nat /\ z \in Nat /\ b \in Nat \ {0} /\ s < e
      /\ BlockOf(r) \in Keys <=> s < z
      /\ Whole(o, at[r]) <=> s + b <= z
  BY Zenon, <1>2, <1>3, AtBlock DEF Whole, InRange
<1>5. CASE Whole(o, at[r]) /\ Offer(r)
  <2>1. BlockOf(r) \in Keys
    BY <1>4, <1>5
  <2>. QED BY Zenon, <1>1, <1>5, <2>1, OfferRight
<1>6. CASE /\ step' = [step EXCEPT ![r] = "tail"]
           /\ UNCHANGED <<asked, answer, at, out, held, data, tierVars, evidence>>
  <2>1. TierInv' /\ Ages
    BY <1>2, <1>6, TierIdle DEF tierVars
  <2>2. Evidenced'
    BY SMTT(20), <1>2, <1>6, EvidenceKept DEF tierVars
  <2>3. Others(r) /\ step'[r] = "tail"
    BY <1>2, <1>6 DEF ReadersAll, Others
  <2>4. Asking(r)'
    BY Zenon, <1>2, <1>6, AskingKept
  <2>5. ReaderInv(r)'
    BY <2>3, <2>4 DEF ReaderInv, Steps, Reading
  <2>6. Seen(r)
    BY SMTT(20), <1>1, <1>6 DEF Seen, Reference!readVars
  <2>. QED BY SMTT(20), <2>1, <2>2, <2>3, <2>5, <2>6 DEF Right
<1>7. CASE /\ ~ Whole(o, at[r]) /\ e - s < b /\ InRange(o, e)
           /\ Deliver(r, Reference!Bytes(o, s, e)) /\ UNCHANGED <<tierVars, evidence>>
  <2>1. e <= z /\ e <= s + b
    <3>1. s \in Nat /\ e \in Nat /\ b \in Nat \ {0} /\ e - s < b /\ e <= z
      BY Zenon, <1>3, <1>4, <1>7 DEF InRange
    <3>. QED BY <3>1
  <2>2. PICK d : d = Reference!Bytes(o, s, e)
    OBVIOUS
  <2>3. Others(r) /\ ReaderInv(r)' /\ (Replied(r) \/ UNCHANGED <<asked, answer>>)
    <3>1. /\ d = Reference!Bytes(asked[r].object, Start(r), e) /\ e \in Nat
          /\ Start(r) < e /\ e <= SizeOf[asked[r].object] /\ e <= Start(r) + BlockUnits
          /\ e = End(r) /\ Deliver(r, d)
      BY Zenon, <1>3, <1>4, <1>7, <2>1, <2>2
    <3>. QED BY Zenon, <1>2, <3>1, DeliverFacts
  <2>4. TierInv' /\ Ages
    BY ZenonT(30), <1>2, <1>7, TierIdle DEF tierVars
  <2>5. Evidenced'
    BY SMTT(20), <1>2, <1>7, EvidenceKept DEF tierVars
  <2>6. Seen(r)
    BY SMTT(20), <1>1, <1>2, <2>3, RepliedSeen
  <2>. QED BY <2>3, <2>4, <2>5, <2>6 DEF Right
<1>8. CASE /\ ~ Whole(o, at[r]) /\ ~ (e - s < b /\ InRange(o, e))
           /\ Answer(r, Reference!Bad("range")) /\ UNCHANGED <<tierVars, evidence>>
  <2>1. e > z
    <3>1. /\ s \in Nat /\ e \in Nat /\ z \in Nat /\ b \in Nat \ {0}
          /\ ~ (s + b <= z) /\ ~ (e - s < b /\ e <= z)
      BY Zenon, <1>3, <1>4, <1>8 DEF InRange
    <3>. QED BY <3>1
  <2>. QED BY Zenon, <1>1, <1>3, <1>8, <2>1, RangeRight
<1>. QED BY Zenon, <1>3, <1>5, <1>6, <1>7, <1>8 DEF Fetch

LEMMA TailBySizeRight ==
  ASSUME PathInv, NEW r \in Readers, TailBySize(r)
  PROVE  Right(r)
<1>1. step[r] = "tail" /\ faults' = faults
  BY DEF TailBySize
<1>2. Asking(r)
  BY <1>1, AskingWhile
<1>3. /\ Start(r) \in Nat /\ End(r) \in Nat /\ SizeOf[asked[r].object] \in Nat
      /\ Start(r) < End(r)
      /\ BlockOf(r) \in Keys <=> Start(r) < SizeOf[asked[r].object]
  BY Zenon, <1>2, AtBlock
<1>4. CASE InRange(asked[r].object, End(r)) /\ Offer(r)
  <2>1. BlockOf(r) \in Keys
    BY SMTT(20), <1>3, <1>4 DEF InRange
  <2>. QED BY Zenon, <1>1, <1>4, <2>1, OfferRight
<1>5. CASE /\ ~ InRange(asked[r].object, End(r)) /\ Answer(r, Reference!Bad("range"))
           /\ UNCHANGED <<tierVars, evidence>>
  <2>1. End(r) > SizeOf[asked[r].object]
    BY <1>3, <1>5 DEF InRange
  <2>. QED BY SMTT(20), <1>1, <1>5, <2>1, RangeRight
<1>. QED BY ZenonT(30), <1>4, <1>5 DEF TailBySize

LEMMA ReaderStepRight ==
  ASSUME PathInv, NEW r \in Readers,
         Begin(r) \/ ReaderStep(r) \/ Cancelled(r) \/ FetchFails(r) \/ Narrowed(r)
  PROVE  Right(r)
<1>1. CASE Cancelled(r) \/ TailRefused(r) \/ FetchFails(r) \/ Narrowed(r)
  <2>1. /\ step[r] # "idle" /\ Answer(r, Reference!Bad("failed")) /\ faults' = faults + 1
        /\ UNCHANGED tierVars /\ UNCHANGED evidence
    BY <1>1 DEF Cancelled, TailRefused, FetchFails, Narrowed
  <2>. QED BY SMTT(20), <2>1, FailRight
<1>. QED BY SMTT(20), <1>1, BeginRight, LookupRight, ReadHalfRight, ReadRestRight, FinishReadRight,
            FetchRight, TailBySizeRight DEF ReaderStep

-----------------------------------------------------------------------------
(* The specification.                                                      *)

LEMMA PathInvInit == PathInit => PathInv
<1>. SUFFICES ASSUME PathInit PROVE PathInv
  OBVIOUS
<1>1. /\ order = <<>> /\ revoked = {} /\ free = [s \in Slabs |-> <<>>]
      /\ disk = [s \in Slabs |-> [n \in Slots |-> [u \in 1 .. BlockUnits |-> Blank]]]
      /\ resident = <<>> /\ recency = <<>> /\ first = <<>> /\ generation = 0
  BY DEF PathInit, TierInit
<1>2. DOMAIN resident = {} /\ Range(recency) = {} /\ Members(order) = {} /\ Members(first) = {}
  BY <1>1 DEF Range, Members
<1>3. Shape
  <2>1. Blank \in Units
    BY DEF Units
  <2>2. disk \in [Slabs -> [Slots -> [1 .. BlockUnits -> Units]]]
    BY <1>1, <2>1
  <2>3. free \in [Slabs -> Seq(Slots)] /\ order \in Seq(Slabs)
    BY <1>1
  <2>. QED BY <1>1, <1>2, <2>2, <2>3 DEF Shape
<1>4. AllRecent
  BY <1>1, <1>2 DEF AllRecent, OnceEach
<1>5. TierInv
  BY Zenon, <1>2, <1>3, <1>4 DEF TierInv, AllPlaced, Apart, RestFree, ResidentBlocksIntact
<1>6. Evidenced
  <2>1. evidence \in [Keys -> 0 .. 2]
    BY DEF PathInit
  <2>. QED BY <1>1, <1>2, <2>1 DEF Evidenced
<1>7. ReadersAll
  <2>1. \A r \in Readers : step[r] = "idle" /\ asked[r] = Nobody
    BY DEF PathInit, Reference!Init
  <2>2. /\ DOMAIN asked = Readers /\ DOMAIN step = Readers /\ DOMAIN at = Readers
        /\ DOMAIN out = Readers /\ DOMAIN held = Readers /\ DOMAIN data = Readers
    BY DEF PathInit, Reference!Init
  <2>. QED BY <2>1, <2>2 DEF ReadersAll, ReaderInv, Steps, Reading
<1>. QED BY <1>5, <1>6, <1>7 DEF PathInv

(* A block admitted ahead of its first read.                               *)
LEMMA FetchPredictionRight ==
  ASSUME PathInv, FetchPrediction
  PROVE  /\ TierInv' /\ Ages /\ Evidenced' /\ UNCHANGED readerVars
         /\ DOMAIN resident \subseteq DOMAIN resident'
<1>1. TierInv /\ Evidenced /\ UNCHANGED readerVars
  BY DEF PathInv, FetchPrediction
<1>2. CASE UNCHANGED <<tierVars, evidence>>
  <2>1. TierInv' /\ Ages
    BY <1>1, <1>2, TierIdle DEF tierVars
  <2>2. Evidenced'
    BY <1>1, <1>2, EvidenceKept DEF tierVars
  <2>. QED BY <1>1, <1>2, <2>1, <2>2 DEF tierVars
<1>3. CASE /\ worker \in Keys
           /\ Admit(worker, BlockData(worker[1], worker[2]), TRUE)
           /\ evidence' = [evidence EXCEPT ![worker] = 2]
  <2>1. PICK k : k = worker
    OBVIOUS
  <2>2. k \in Keys /\ first \in Seq(Keys) /\ evidence \in [Keys -> 0 .. 2]
    BY <1>1, <1>3, <2>1 DEF Evidenced
  <2>3. Admit(k, KeyData(k), TRUE)
    BY Zenon, <1>3, <2>1 DEF KeyData
  <2>4. /\ TierInv' /\ Ages
        /\ DOMAIN resident' \subseteq DOMAIN resident \cup {k}
        /\ DOMAIN resident \subseteq DOMAIN resident'
        /\ first' \in Seq(Keys) /\ Members(first') \subseteq Members(first) \cup {k}
    BY Zenon, <1>1, <2>2, <2>3, AdmitFacts
  <2>5. /\ evidence' \in [Keys -> 0 .. 2] /\ evidence'[k] = 2
        /\ \A x \in Keys : x # k => evidence'[x] = evidence[x]
    BY <1>3, <2>1, <2>2
  <2>6. Members(first)' = Members(first') /\ \A x \in Members(first) : x \in Keys
    BY <2>2 DEF Members
  <2>7. \A x \in DOMAIN resident' : x \in Keys
    BY Zenon, <2>4 DEF TierInv, AllPlaced, Placed
  <2>8. \A x \in Members(first)' : evidence'[x] >= 1
    <3>1. 2 >= 1 /\ \A x \in Members(first) : evidence[x] >= 1
      BY <1>1 DEF Evidenced
    <3>. QED BY Zenon, <2>4, <2>5, <2>6, <3>1
  <2>9. \A x \in DOMAIN resident' : evidence'[x] = 2
    BY SMTT(20), <1>1, <2>4, <2>5, <2>7 DEF Evidenced
  <2>10. Evidenced'
    BY SMTT(20), <2>4, <2>5, <2>8, <2>9 DEF Evidenced
  <2>. QED BY <1>1, <2>4, <2>10
<1>. QED BY Zenon, <1>2, <1>3 DEF FetchPrediction

(* The steps of nobody in particular.                                      *)
LEMMA QuietRight ==
  ASSUME PathInv,
         \/ TakePrediction \/ Tick \/ UNCHANGED pathVars
         \/ \E s \in Slabs : Granted(s) \/ Releasing(s)
  PROVE  TierInv' /\ Ages /\ Evidenced' /\ UNCHANGED readerVars
<1>1. TierInv /\ Evidenced
  BY DEF PathInv
<1>2. UNCHANGED readerVars /\ evidence' = evidence
  BY Zenon DEF TakePrediction, Tick, pathVars, Granted, Releasing
<1>3. CASE UNCHANGED tierVars
  <2>1. TierInv' /\ Ages
    BY <1>1, <1>3, TierIdle DEF tierVars
  <2>2. Evidenced'
    BY SMTT(20), <1>1, <1>2, <1>3, EvidenceKept DEF tierVars
  <2>. QED BY <1>2, <2>1, <2>2
<1>4. ASSUME NEW s \in Slabs, Granted(s) \/ Releasing(s)
      PROVE  TierInv' /\ Ages /\ Evidenced'
  <2>1. TierInv' /\ Ages /\ DOMAIN resident' \subseteq DOMAIN resident /\ first' = first
    BY Zenon, <1>1, <1>4, AddCapacityFacts, RevokeFacts DEF Granted, Releasing
  <2>2. Evidenced'
    BY <1>1, <1>2, <2>1, EvidenceKept
  <2>. QED BY <2>1, <2>2
<1>. QED BY <1>2, <1>3, <1>4 DEF TakePrediction, Tick, pathVars

LEMMA PathStep ==
  ASSUME PathInv, [PathNext]_pathVars
  PROVE  PathInv' /\ [Reference!Next]_(Reference!readVars)
<1>1. ReadersAll /\ generation \in Nat
  BY DEF PathInv, TierInv, Shape
<1>2. CASE UNCHANGED readerVars /\ TierInv' /\ Ages /\ Evidenced'
  <2>1. ReadersAll'
    BY <1>1, <1>2, ReadersKept
  <2>2. UNCHANGED Reference!readVars
    BY <1>2 DEF readerVars, Reference!readVars
  <2>. QED BY <1>2, <2>1, <2>2 DEF PathInv
<1>3. ASSUME NEW r \in Readers, Right(r) PROVE PathInv' /\ [Reference!Next]_(Reference!readVars)
  <2>1. ReadersAll'
    BY <1>1, <1>3, OthersKept DEF Right
  <2>2. [Reference!Next]_(Reference!readVars)
    BY <1>3 DEF Right, Seen, Reference!Next
  <2>. QED BY <1>3, <2>1, <2>2 DEF Right, PathInv
<1>. QED BY Zenon, <1>2, <1>3, ReaderStepRight, FetchPredictionRight, QuietRight DEF PathNext

LEMMA PathInvariance == PathSpec => []PathInv
<1>1. PathInv /\ [PathNext]_pathVars => PathInv'
  BY PathStep
<1>. QED BY <1>1, PathInvInit, PTL DEF PathSpec

(* The read path implements the promise: every read is answered as the     *)
(* store itself would have answered it (ReadRange, blockAt, Cache.Read).   *)
THEOREM ReadsAlwaysRight == PathSpec => AnswersRight
<1>1. PathInit => Reference!Init
  BY DEF PathInit
<1>2. PathInv /\ [PathNext]_pathVars => [Reference!Next]_(Reference!readVars)
  BY PathStep
<1>3. PathSpec => Reference!Spec
  BY <1>1, <1>2, PathInvariance, PTL DEF PathSpec, Reference!Spec
<1>. QED BY <1>3 DEF AnswersRight

(* No slot is lost, handed out twice, or free and occupied at once (take,  *)
(* release, Admit, Revoke, evictOneLocked).                                *)
THEOREM SlotsAlwaysConserved == PathSpec => []SlotsConserved
<1>1. ASSUME PathInv PROVE SlotsConserved
  <2>1. Range(order) = Members(order)
    BY <1>1, OrderMembers DEF PathInv, TierInv
  <2>2. OnceEach(recency, DOMAIN resident)
    BY <1>1 DEF PathInv, TierInv, AllRecent
  <2>3. ASSUME NEW s \in Members(order) PROVE OnceEach(free[s], Slots \ {resident[k].slot : k \in On(s)})
    BY Zenon, <1>1, <2>3 DEF PathInv, TierInv, RestFree, Used
  <2>4. \A s : \A k, l \in On(s) : resident[k].slot = resident[l].slot => k = l
    BY <1>1 DEF PathInv, TierInv, Apart, AtPlace, On
  <2>. QED BY Zenon, <2>1, <2>2, <2>3, <2>4 DEF SlotsConserved
<1>. QED BY <1>1, PathInvariance, PTL

(* What the tier calls resident is on the device, whatever writes failed   *)
(* (Admit).                                                                *)
THEOREM ResidentAlwaysIntact == PathSpec => []ResidentBlocksIntact
<1>1. PathInv => ResidentBlocksIntact
  BY DEF PathInv, TierInv
<1>. QED BY <1>1, PathInvariance, PTL

(* Nothing enters the tier on a single read (sawBefore, Admit).            *)
THEOREM KeptAlwaysWanted == PathSpec => []KeptOnlyIfWanted
<1>1. PathInv => KeptOnlyIfWanted
  BY DEF PathInv, Evidenced, KeptOnlyIfWanted
<1>. QED BY <1>1, PathInvariance, PTL

(* A prediction takes no space from a block somebody read (placeLocked).   *)
THEOREM PredictionsNeverEvict == PathSpec => PredictionsEvictNothing
<1>1. ASSUME PathInv, [PathNext]_pathVars, worker # Nobody, worker' = Nobody
      PROVE  DOMAIN resident \subseteq DOMAIN resident'
  <2>1. CASE FetchPrediction
    BY SMTT(20), <1>1, <2>1, FetchPredictionRight
  <2>2. CASE ~ FetchPrediction
    <3>1. worker' = worker
      BY Zenon, <1>1, <2>2 DEF PathNext, pathVars, aheadVars, Begin, ReaderStep, Lookup, Predict,
            ReadHalf, ReadRest, FinishRead, Fetch, TailBySize, TailRefused, Cancelled,
            FetchFails, Narrowed, TakePrediction, Tick, Granted, Releasing
    <3>. QED BY <1>1, <3>1
  <2>. QED BY Zenon, <2>1, <2>2
<1>2. PathInv /\ [PathNext]_pathVars =>
        [worker # Nobody /\ worker' = Nobody => DOMAIN resident \subseteq DOMAIN resident']_pathVars
  BY <1>1
<1>. QED BY <1>2, PathInvariance, PTL DEF PathSpec, PredictionsEvictNothing
=============================================================================
