----------------------------- MODULE MCReadPath -----------------------------
(* Small instances of the read path.                                       *)
EXTENDS ReadPath, TLC

CONSTANTS Scanner, Pointer

(* Four whole blocks, and an object that is entirely tail.                 *)
MCSizeOf == "A" :> 4 * BlockUnits @@ "B" :> 1
Read(object, offset, length) == [object |-> object, offset |-> offset, length |-> length]
MCRequests ==
  Scanner :> {Read("A", 0, 3 * BlockUnits), Read("B", 0, 1)}
  @@ Pointer :> {Read("A", 3 * BlockUnits, 1), Read("B", 0, BlockUnits),
                 Read("B", 0, 0), Read("A", MaxOffset, 1)}
MCMaxReads == Scanner :> 2 @@ Pointer :> 1
SlabSymmetry == Permutations(Slabs)

(* States that differ only in what no step can tell apart are one: of      *)
(* generations only which are equal matters, and of the device only what a *)
(* block or a reader still refers to.                                      *)
Placements == {resident[k] : k \in DOMAIN resident} \cup ({held[r] : r \in Readers} \ {Nobody})
Rank(p) == [p EXCEPT !.gen = Cardinality({q.gen : q \in {x \in Placements : x.gen <= p.gen}})]
Readable(s, n) == \E p \in Placements : p.slab = s /\ p.slot = n
PathView ==
  << order, revoked, free, recency, first,
     [s \in Slabs |-> [n \in Slots |-> IF Readable(s, n) THEN disk[s][n] ELSE <<>>]],
     [k \in DOMAIN resident |-> Rank(resident[k])],
     [r \in Readers |-> IF held[r] = Nobody THEN held[r] ELSE Rank(held[r])],
     asked, answer, faults, step, at, out, data, streams, ahead, worker, sizes, now, reads, evidence >>
=============================================================================
