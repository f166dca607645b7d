------------------------- MODULE VaryingLinkingProofs -------------------------
(***************************************************************************)
(* What the functions that link varyings compute, for any shader: how      *)
(* inputs are numbered and named and which of them can be linked, and what *)
(* the words of a producer say about its exports.                          *)
(***************************************************************************)
EXTENDS VaryingLinking, FiniteSetTheorems, TLAPS

(* A shader as the library hands it to these functions.                    *)
Shader(r) ==
    /\ {r.clip, r.cull, r.prefix} \subseteq Nat
    /\ r.perPrimitive \in BOOLEAN
    /\ r.loads \subseteq Load
    /\ \A l \in r.loads : /\ l.kind = "dist" => l.loc < r.clip + r.cull
                          /\ l.kind = "viewport" => l.slots = 1

Pixel(r) == r.stage = "FRAGMENT"

(* What the steps compute for a request r.                                 *)
LinkedAt(r) ==
    [l \in r.loads |-> IF Pixel(r) THEN LinkedComponent(r, l) ELSE l.loc]

Splits(r) == Pixel(r) /\ r.target = "PS5"

FirstBase(r)  == nir_recompute_io_bases(r, LinkedAt(r))
FirstCount(r) == num_inputs(r, LinkedAt(r))

FinalBase(r) ==
    IF Splits(r) THEN split_ps5_mixed_inputs(r, FirstBase(r), FirstCount(r)) ELSE FirstBase(r)
FinalCount(r) ==
    IF Splits(r) THEN SplitCount(r, FirstCount(r)) ELSE FirstCount(r)

Semantics(r) ==
    IF Pixel(r)
    THEN build_input_semantics(r, LinkedAt(r), FinalBase(r), FinalCount(r))
    ELSE [valid |-> TRUE, words |-> <<>>]

Links(r) == Pixel(r) => link_fragment_distance_layout(r)

(* Numbers counted from zero and from one.                                 *)
LEMMA Counted ==
  ASSUME NEW n \in Nat
  PROVE  /\ IsFiniteSet(0..n - 1) /\ Cardinality(0..n - 1) = n
         /\ IsFiniteSet(1..n) /\ Cardinality(1..n) = n
<1>1. IsFiniteSet(0..n - 1) /\ Cardinality(0..n - 1) = n BY FS_Interval
<1>2. IsFiniteSet(1..n) /\ Cardinality(1..n) = n BY FS_Interval
<1> QED BY <1>1, <1>2, Zenon

-----------------------------------------------------------------------------
(* Ranks in a finite set of numbers, which nir_recompute_io_bases and the  *)
(* numbering of exports count bit by bit.                                  *)
LEMMA RankBound ==
  ASSUME NEW S \in SUBSET Int, IsFiniteSet(S), NEW s \in S
  PROVE  Below(S, s) \in 0..Cardinality(S) - 1
<1> DEFINE B == {t \in S : t < s}
<1>1. B \subseteq S \ {s} OBVIOUS
<1>2. IsFiniteSet(S \ {s}) /\ Cardinality(S \ {s}) = Cardinality(S) - 1
  BY FS_RemoveElement, Zenon
<1>3. IsFiniteSet(B) /\ Cardinality(B) <= Cardinality(S) - 1
  BY <1>1, <1>2, FS_Subset
<1>4. Cardinality(B) \in Nat /\ Cardinality(S) \in Nat BY <1>3, FS_CardinalityType, Zenon
<1> QED BY <1>3, <1>4 DEF Below

(* A rank is a natural number.                                             *)
LEMMA RankNat ==
  ASSUME NEW S, IsFiniteSet(S), NEW s
  PROVE  Below(S, s) \in Nat
<1> DEFINE B == {t \in S : t < s}
<1>1. B \subseteq S BY Zenon
<1> QED BY <1>1, FS_Subset, FS_CardinalityType, Zenon DEF Below

(* Ranks grow with the number ...                                          *)
LEMMA RankGrows ==
  ASSUME NEW S \in SUBSET Int, IsFiniteSet(S), NEW s \in S, NEW t \in S, s < t
  PROVE  Below(S, s) < Below(S, t)
<1> DEFINE B == {x \in S : x < s}
           C == {x \in S : x < t}
<1>b. \A x \in S : x < s => x < t /\ x # s
  <2> SUFFICES ASSUME NEW x \in S, x < s PROVE x < t /\ x # s BY Zenon
  <2> x \in Int /\ s \in Int /\ t \in Int BY Zenon
  <2> QED OBVIOUS
<1>1. s \in C /\ B \subseteq C \ {s} BY <1>b, Zenon
<1>0. C \in SUBSET S BY Zenon
<1>2. IsFiniteSet(C) BY <1>0, FS_Subset, Zenon
<1>3. IsFiniteSet(C \ {s}) /\ Cardinality(C \ {s}) = Cardinality(C) - 1
  BY <1>1, <1>2, FS_RemoveElement, Zenon
<1>4. IsFiniteSet(B) /\ Cardinality(B) <= Cardinality(C) - 1 BY <1>1, <1>3, FS_Subset
<1>5. Cardinality(B) \in Nat /\ Cardinality(C) \in Nat BY <1>2, <1>4, FS_CardinalityType, Zenon
<1> QED BY <1>4, <1>5 DEF Below

(* ... so that different numbers have different ranks ...                  *)
LEMMA RankDistinct ==
  ASSUME NEW S \in SUBSET Int, IsFiniteSet(S), NEW s \in S, NEW t \in S,
         Below(S, s) = Below(S, t)
  PROVE  s = t
<1>1. CASE s < t BY <1>1, RankGrows, RankNat
<1>2. CASE t < s BY <1>2, RankGrows, RankNat
<1> QED BY <1>1, <1>2

(* ... and the rank behind a member is one more.                           *)
LEMMA RankNext ==
  ASSUME NEW S \in SUBSET Int, IsFiniteSet(S), NEW s \in S
  PROVE  Below(S, s + 1) = Below(S, s) + 1
<1> DEFINE B == {x \in S : x < s}
<1>a. s \in Int /\ ~ (s < s) OBVIOUS
<1>b. \A x \in S : x < s + 1 <=> (x < s \/ x = s) OBVIOUS
<1>c. s \notin B BY <1>a, Zenon
<1>d. {x \in S : x < s + 1} = B \cup {s}
  <2> DEFINE C == {x \in S : x < s + 1}
  <2>1. \A x \in C : x \in B \cup {s} BY <1>b, Zenon
  <2>2. \A x \in B \cup {s} : x \in C BY <1>b, Zenon
  <2> QED BY <2>1, <2>2, Zenon
<1>1. {x \in S : x < s + 1} = B \cup {s} /\ s \notin B BY <1>c, <1>d, Zenon
<1>0. B \in SUBSET S BY Zenon
<1>2. IsFiniteSet(B) BY <1>0, FS_Subset, Zenon
<1>3. Cardinality(B \cup {s}) = Cardinality(B) + 1 BY <1>1, <1>2, FS_AddElement, Zenon
<1> QED BY <1>1, <1>3, Zenon DEF Below

(* Every rank is some element's.                                           *)
LEMMA RankOnto ==
  ASSUME NEW S \in SUBSET Int, IsFiniteSet(S), NEW k \in 0..Cardinality(S) - 1
  PROVE  \E s \in S : Below(S, s) = k
<1> DEFINE n == Cardinality(S)
           f == [s \in S |-> Below(S, s)]
<1>1. n \in Nat BY FS_CardinalityType, Zenon
<1>2. IsFiniteSet(0..n - 1) /\ Cardinality(0..n - 1) = n
  BY <1>1, FS_Interval
<1>3. f \in [S -> 0..n - 1] BY RankBound, Zenon
<1>4. f \in Injection(S, 0..n - 1)
  BY <1>3, RankDistinct, Zenon DEF Injection, IsInjective
<1>5. f \in Surjection(S, 0..n - 1)
  BY <1>2, <1>4, FS_Injection, Zenon
<1> QED BY <1>5, Zenon DEF Surjection

(* fill_output_semantics keeps a list whole when it is short and every     *)
(* parameter in it is small.                                               *)
LEMMA PrefixWhole ==
  ASSUME NEW n \in Nat, NEW M \in Nat, NEW s
  PROVE  {k \in 1..n : k <= M /\ \A j \in 1..k : s[j].parameter < M} = 1..n
            <=> n <= M /\ \A k \in 1..n : s[k].parameter < M
<1> DEFINE P == {k \in 1..n : k <= M /\ \A j \in 1..k : s[j].parameter < M}
<1>1. \A k \in 1..n : k <= n /\ k \in 1..k /\ (n <= M => k <= M) OBVIOUS
<1>2. \A k \in 1..n : \A j \in 1..k : j \in 1..n OBVIOUS
<1>3. n = 0 => n <= M OBVIOUS
<1>4. n # 0 => n \in 1..n OBVIOUS
<1>5. ASSUME n <= M, \A k \in 1..n : s[k].parameter < M PROVE P = 1..n
  <2>1. \A k \in 1..n : k \in P BY <1>1, <1>2, <1>5, Zenon
  <2> QED BY <2>1, Zenon
<1>6. ASSUME P = 1..n PROVE n <= M /\ \A k \in 1..n : s[k].parameter < M
  <2>1. \A k \in 1..n : k <= M /\ \A j \in 1..k : s[j].parameter < M BY <1>6, Zenon
  <2>2. n <= M BY <1>3, <1>4, <2>1, Zenon
  <2> QED BY <1>1, <2>1, <2>2, Zenon
<1> QED BY <1>5, <1>6, Zenon

-----------------------------------------------------------------------------
(* The inputs of a shader.                                                 *)
LEMMA DivNat ==
  ASSUME NEW n \in Nat, NEW w \in Nat \ {0}
  PROVE  n \div w \in 0..n /\ w * (n \div w) <= n /\ n < w * (n \div w) + w
  OBVIOUS

(* The constants are numbers.                                              *)
LEMMA LinkingNat == MaxSemantics \in Nat /\ Width \in Nat \ {0}
  BY LinkingAssumption

(* The fields of a load.                                                   *)
LEMMA LoadKinds ==
  ASSUME NEW r, Shader(r), NEW l \in r.loads
  PROVE  /\ l \in Load
         /\ l.kind \in {"var", "prim", "viewport", "dist"}
         /\ l.loc \in 0..MaxSemantics + 2 * Width
         /\ l.slots \in {1, 2} /\ l.mode \in {1, 2}
         /\ r.clip \in Nat /\ r.cull \in Nat /\ r.prefix \in Nat
<1>1. r.loads \subseteq Load BY Zenon DEF Shader
<1>2. MaxSemantics \in Nat /\ Width \in Nat BY LinkingNat, Zenon
<1> QED BY <1>1, <1>2 DEF Shader, Load, Flat, Smooth

(* link_fragment_distance_layout moves a load up by at most the prefix.    *)
LEMMA LinkedNat ==
  ASSUME NEW r, Shader(r), NEW l \in r.loads
  PROVE  LinkedAt(r)[l] \in 0..l.loc + r.prefix
  BY LoadKinds DEF LinkedAt, LinkedComponent

(* A load reads a component with a number.                                 *)
LEMMA LinkedNumber ==
  ASSUME NEW r, Shader(r), NEW l \in r.loads
  PROVE  l.loc \in Nat /\ LinkedAt(r)[l] \in Nat
<1> DEFINE k == LinkedAt(r)[l]
<1>1. l.loc \in 0..MaxSemantics + 2 * Width /\ r.prefix \in Nat BY LoadKinds, Zenon
<1>2. l.loc \in Nat BY <1>1, LinkingAssumption
<1>3. k \in 0..l.loc + r.prefix BY LinkedNat, Zenon
<1> HIDE DEF k
<1>4. k \in Nat BY <1>1, <1>2, <1>3
<1> QED BY <1>2, <1>4, Zenon DEF k

(* The slots a shader reads are numbers, and finitely many.                *)
Slots(r) == inputs_read(r, LinkedAt(r))
First(r, l) == Location(l, LinkedAt(r))

(* The slot a load starts at is a number, and bounded.                     *)
LEMMA FirstNat ==
  ASSUME NEW r, Shader(r), NEW l \in r.loads
  PROVE  First(r, l) \in 0..MaxSemantics + 2 * Width + r.prefix + 5
<1> DEFINE a == LinkedAt(r)[l]
<1>1. a \in 0..l.loc + r.prefix BY LinkedNat, Zenon
<1>2. Width \in Nat \ {0} /\ MaxSemantics \in Nat BY LinkingNat, Zenon
<1>3. a \in Nat BY <1>1, LoadKinds
<1> HIDE DEF a
<1>4. a \div Width \in 0..a BY <1>2, <1>3, DivNat, Zenon
<1>5. CASE l.kind = "dist"
  <2>1. First(r, l) = a \div Width BY <1>5, Zenon DEF First, Location, DistanceSlot, a
  <2>2. l.loc \in Nat /\ l.loc <= MaxSemantics + 2 * Width /\ r.prefix \in Nat
    BY <1>2, LoadKinds
  <2>3. a <= l.loc + r.prefix BY <1>1, <2>2
  <2> DEFINE q == a \div Width
  <2>4. q \in Nat /\ q <= a BY <1>3, <1>4
  <2> HIDE DEF q
  <2>5. q \in 0..MaxSemantics + 2 * Width + r.prefix + 5 BY <1>2, <1>3, <2>2, <2>3, <2>4
  <2> QED BY <2>1, <2>5, Zenon DEF q
<1>6. CASE l.kind = "prim"
  BY <1>2, <1>6, LoadKinds DEF First, Location, PrimitiveIdSlot
<1>7. CASE l.kind = "viewport"
  BY <1>2, <1>7, LoadKinds DEF First, Location, ViewportSlot
<1>8. CASE l.kind = "var"
  BY <1>2, <1>8, LoadKinds DEF First, Location, VarSlot
<1> QED BY <1>5, <1>6, <1>7, <1>8, LoadKinds, Zenon

(* The slots read are finitely many, those of the loads.                   *)
LEMMA SlotsFinite ==
  ASSUME NEW r, Shader(r)
  PROVE  /\ Slots(r) \in SUBSET Nat /\ Slots(r) \in SUBSET Int /\ IsFiniteSet(Slots(r))
         /\ \A s : s \in Slots(r) <=>
                \E l \in r.loads : s \in First(r, l)..First(r, l) + l.slots - 1
<1> DEFINE n == MaxSemantics + 2 * Width + r.prefix + 6
<1>1. \A s : s \in Slots(r) <=>
          \E l \in r.loads : s \in First(r, l)..First(r, l) + l.slots - 1
  BY Zenon DEF Slots, First, inputs_read, SlotsOf
<1>2. n \in Nat BY LinkingAssumption DEF Shader
<1>3. ASSUME NEW s \in Slots(r) PROVE s \in Nat /\ s <= n
  <2>1. PICK l \in r.loads : s \in First(r, l)..First(r, l) + l.slots - 1 BY <1>1, Zenon
  <2> QED BY <2>1, FirstNat, LoadKinds, LinkingAssumption
<1>4. Slots(r) \in SUBSET Nat BY <1>3, Zenon
<1>5. IsFiniteSet(Slots(r)) BY <1>2, <1>3, <1>4, FS_BoundedSetOfNaturals, Zenon
<1> QED BY <1>1, <1>4, <1>5

(* nir_recompute_io_bases numbers the built-ins a primitive may supply     *)
(* behind all other inputs.                                                *)
Last(r)   == Slots(r) \cap {PrimitiveIdSlot, LayerSlot, ViewportSlot}
Others(r) == Slots(r) \ Last(r)

(* The first numbering in terms of ranks: the slots numbered last follow   *)
(* the others.                                                             *)
LEMMA Numbered ==
  ASSUME NEW r, Shader(r)
  PROVE  /\ Last(r) \in SUBSET Int /\ IsFiniteSet(Last(r)) /\ Cardinality(Last(r)) \in Nat
         /\ Others(r) \in SUBSET Int /\ IsFiniteSet(Others(r)) /\ Cardinality(Others(r)) \in Nat
         /\ FirstCount(r) = Cardinality(Others(r)) + Cardinality(Last(r))
         /\ FirstBase(r) = [l \in r.loads |-> IF First(r, l) \in Last(r)
                                THEN Cardinality(Others(r)) + Below(Last(r), First(r, l))
                                ELSE Below(Others(r), First(r, l))]
<1>1. Slots(r) \in SUBSET Int /\ IsFiniteSet(Slots(r)) BY SlotsFinite, Zenon
<1>2. Last(r) \in SUBSET Slots(r) /\ Others(r) \in SUBSET Slots(r) /\ Slots(r) \cap Last(r) = Last(r)
  BY Zenon DEF Last, Others
<1>3. IsFiniteSet(Last(r)) /\ IsFiniteSet(Others(r)) BY <1>1, <1>2, FS_Subset, Zenon
<1>4. Cardinality(Others(r)) = Cardinality(Slots(r)) - Cardinality(Last(r))
  <2>1. Cardinality(Slots(r) \ Last(r)) = Cardinality(Slots(r)) - Cardinality(Slots(r) \cap Last(r))
    BY <1>1, FS_Difference, Zenon
  <2> QED BY <2>1, <1>2, Zenon DEF Others
<1>5. /\ Cardinality(Last(r)) \in Nat /\ Cardinality(Others(r)) \in Nat
      /\ Cardinality(Slots(r)) \in Nat
  BY <1>1, <1>3, FS_CardinalityType, Zenon
<1>6. FirstCount(r) = Cardinality(Slots(r)) BY Zenon DEF FirstCount, num_inputs, Slots
<1>7. FirstBase(r) = [l \in r.loads |-> IF First(r, l) \in Last(r)
                          THEN Cardinality(Others(r)) + Below(Last(r), First(r, l))
                          ELSE Below(Others(r), First(r, l))]
  BY Zenon DEF FirstBase, nir_recompute_io_bases, Last, Others, Slots, First
<1> QED BY <1>1, <1>2, <1>3, <1>4, <1>5, <1>6, <1>7

(* A load of the primitive id takes one of the last numbers.               *)
LEMMA PrimitiveIdCounted ==
  ASSUME NEW r, Shader(r), NEW l \in r.loads, l.kind = "prim"
  PROVE  /\ First(r, l) = PrimitiveIdSlot /\ PrimitiveIdSlot \in Last(r)
         /\ Cardinality(Last(r)) >= 1
<1>1. First(r, l) = PrimitiveIdSlot BY Zenon DEF First, Location
<1>2. PrimitiveIdSlot \in First(r, l)..First(r, l) + l.slots - 1
  BY <1>1, LoadKinds DEF PrimitiveIdSlot
<1>3. PrimitiveIdSlot \in Last(r) BY <1>2, SlotsFinite, Zenon DEF Last
<1>4. Below(Last(r), PrimitiveIdSlot) \in 0..Cardinality(Last(r)) - 1
  BY <1>3, Numbered, RankBound, Zenon
<1> QED BY <1>1, <1>3, <1>4, Numbered

(* Finitely many locations are read both flat and smooth.                  *)
LEMMA MixedFinite ==
  ASSUME NEW r
  PROVE  /\ Mixed(r) \in SUBSET Int /\ IsFiniteSet(Mixed(r)) /\ Cardinality(Mixed(r)) \in Nat
<1>1. Mixed(r) \in SUBSET (0..MaxSemantics - 1) BY Zenon DEF Mixed
<1>2. IsFiniteSet(0..MaxSemantics - 1) BY LinkingAssumption, FS_Interval
<1>3. IsFiniteSet(Mixed(r)) BY <1>1, <1>2, FS_Subset, Zenon
<1> QED BY <1>1, <1>3, FS_CardinalityType

(* Both counts of inputs are numbers, and a per-primitive id is counted.   *)
LEMMA CountsNat ==
  ASSUME NEW r, Shader(r)
  PROVE  /\ FirstCount(r) \in Nat /\ FinalCount(r) \in Nat
         /\ FirstAlias(r, FirstCount(r)) \in Nat
         /\ PerPrimitiveId(r) => FirstCount(r) >= 1 /\ FinalCount(r) >= 1
<1>1. FirstCount(r) \in Nat BY Numbered
<1>2. PerPrimitiveId(r) => FirstCount(r) >= 1
  <2> SUFFICES ASSUME PerPrimitiveId(r) PROVE FirstCount(r) >= 1 BY Zenon
  <2>1. PICK l \in r.loads : l.kind = "prim" BY Zenon DEF PerPrimitiveId, prim_id_input
  <2> QED BY <2>1, PrimitiveIdCounted, Numbered
<1>3. FirstAlias(r, FirstCount(r)) \in Nat BY <1>1, <1>2 DEF FirstAlias
<1>4. SplitCount(r, FirstCount(r)) \in Nat /\ SplitCount(r, FirstCount(r)) >= FirstCount(r)
  BY <1>1, <1>3, MixedFinite DEF SplitCount, FirstAlias
<1> QED BY <1>1, <1>2, <1>3, <1>4 DEF FinalCount

(* Both numberings number every load.                                      *)
LEMMA BasesNat ==
  ASSUME NEW r, Shader(r)
  PROVE  /\ DOMAIN FirstBase(r) = r.loads /\ DOMAIN FinalBase(r) = r.loads
         /\ \A l \in r.loads : FirstBase(r)[l] \in Nat /\ FinalBase(r)[l] \in Nat
<1>1. ASSUME NEW l \in r.loads PROVE FirstBase(r)[l] \in Nat
  <2>1. /\ Below(Last(r), First(r, l)) \in Nat /\ Below(Others(r), First(r, l)) \in Nat
    BY Numbered, RankNat, Zenon
  <2> QED BY <2>1, Numbered
<1>2. DOMAIN FirstBase(r) = r.loads BY Numbered, Zenon
<1>3. ASSUME NEW l \in r.loads
      PROVE  remap_ps5_flat_input(r, FirstBase(r), FirstCount(r), l) \in Nat
  <2>1. Below(Mixed(r), l.loc) \in Nat BY MixedFinite, RankNat, Zenon
  <2> QED BY <1>1, <2>1, CountsNat, MixedFinite DEF remap_ps5_flat_input
<1> QED BY <1>1, <1>2, <1>3, Zenon DEF FinalBase, split_ps5_mixed_inputs

-----------------------------------------------------------------------------
(* Inputs the walk of build_input_semantics accepts: distances are read    *)
(* from the two registers, built-ins from one slot.                        *)
Accepted(r) ==
    Pixel(r) /\ \A l \in r.loads : LoadAccepted(r, LinkedAt(r), l)

Reads(r, kind) == \E l \in r.loads : l.kind = kind

(* The slot of each kind of load that build_input_semantics accepts.       *)
LEMMA AcceptedSlots ==
  ASSUME NEW r, Shader(r), Accepted(r), NEW l \in r.loads
  PROVE  /\ l.kind = "dist" => First(r, l) \in {0, 1} /\ l.slots = 1
         /\ l.kind = "prim" => First(r, l) = 2 /\ l.slots = 1 /\ l.mode = Flat
         /\ l.kind = "viewport" => First(r, l) = 4 /\ l.slots = 1
         /\ l.kind = "var" => First(r, l) = l.loc + 5 /\ l.loc + l.slots <= MaxSemantics
<1>1. LoadAccepted(r, LinkedAt(r), l) BY Zenon DEF Accepted
<1>2. CASE l.kind = "dist"
  <2>1. First(r, l) = LinkedAt(r)[l] \div Width BY <1>2, Zenon DEF First, Location, DistanceSlot
  <2>2. l.slots = 1 /\ LinkedAt(r)[l] \div Width <= 1 BY <1>1, <1>2, Zenon DEF LoadAccepted
  <2> QED BY <1>2, <2>1, <2>2, FirstNat, LinkingAssumption, LoadKinds
<1>3. CASE l.kind = "prim"
  BY <1>1, <1>3, Zenon DEF LoadAccepted, First, Location, PrimitiveIdSlot
<1>4. CASE l.kind = "viewport"
  BY <1>4, Zenon DEF Shader, First, Location, ViewportSlot
<1>5. CASE l.kind = "var"
  BY <1>1, <1>5, LoadKinds DEF LoadAccepted, First, Location, VarSlot
<1> QED BY <1>2, <1>3, <1>4, <1>5, LoadKinds, Zenon

(* Which slots come last, and which do not.                                *)
LEMMA LastSlots ==
  ASSUME NEW r, Shader(r), Accepted(r)
  PROVE  /\ 2 \in Last(r) <=> Reads(r, "prim")
         /\ 4 \in Last(r) <=> Reads(r, "viewport")
         /\ Last(r) \subseteq {2, 4}
         /\ \A l \in r.loads : l.kind \in {"var", "dist"} =>
                \A i \in 0..l.slots - 1 : First(r, l) + i \in Others(r)
<1>1. ASSUME NEW l \in r.loads, NEW s \in First(r, l)..First(r, l) + l.slots - 1
      PROVE  /\ s = 2 => l.kind = "prim"
             /\ s = 4 => l.kind = "viewport"
             /\ s # 3
             /\ l.kind \in {"var", "dist"} => s \notin {2, 3, 4}
  BY AcceptedSlots, LoadKinds
<1>2. ASSUME NEW s \in Slots(r)
      PROVE  /\ s = 2 => Reads(r, "prim")
             /\ s = 4 => Reads(r, "viewport")
             /\ s # 3
  <2>1. PICK l \in r.loads : s \in First(r, l)..First(r, l) + l.slots - 1 BY SlotsFinite, Zenon
  <2> QED BY <1>1, <2>1, Zenon DEF Reads
<1>3. ASSUME NEW l \in r.loads
      PROVE  /\ l.kind = "prim" => 2 \in Slots(r)
             /\ l.kind = "viewport" => 4 \in Slots(r)
  <2>1. l.kind = "prim" => 2 \in First(r, l)..First(r, l) + l.slots - 1 BY AcceptedSlots
  <2>2. l.kind = "viewport" => 4 \in First(r, l)..First(r, l) + l.slots - 1 BY AcceptedSlots
  <2> QED BY <2>1, <2>2, SlotsFinite, Zenon
<1>4. ASSUME NEW l \in r.loads, l.kind \in {"var", "dist"}, NEW i \in 0..l.slots - 1
      PROVE  First(r, l) + i \in Others(r)
  <2>1. First(r, l) + i \in First(r, l)..First(r, l) + l.slots - 1
    BY AcceptedSlots, LoadKinds
  <2>2. First(r, l) + i \in Slots(r) /\ First(r, l) + i \notin {2, 3, 4}
    BY <1>1, <1>4, <2>1, SlotsFinite, Zenon
  <2> QED BY <2>2, Zenon DEF Others, Last, PrimitiveIdSlot, LayerSlot, ViewportSlot
<1> QED BY <1>2, <1>3, <1>4, Zenon DEF Last, Reads, PrimitiveIdSlot, LayerSlot, ViewportSlot

(* The numbers before inputs are split.                                    *)
One(b) == IF b THEN 1 ELSE 0

(* Of the slots numbered last only the primitive id and the viewport can   *)
(* be read.                                                                *)
LEMMA LastCounted ==
  ASSUME NEW r, Shader(r), Accepted(r)
  PROVE  /\ Cardinality(Last(r)) = One(Reads(r, "prim")) + One(Reads(r, "viewport"))
         /\ Below(Last(r), 2) = 0
         /\ Below(Last(r), 4) = One(Reads(r, "prim"))
<1>1. Cardinality({}) = 0 BY FS_EmptySet, Zenon
<1>2. Cardinality({2}) = 1 /\ IsFiniteSet({2}) /\ Cardinality({4}) = 1 BY FS_Singleton, Zenon
<1>3. Cardinality({2, 4}) = 2
  <2>1. {2, 4} = {2} \cup {4} /\ 4 \notin {2} OBVIOUS
  <2> QED BY <1>2, <2>1, FS_AddElement
<1>4. {t \in Last(r) : t < 2} = {} BY LastSlots
<1>5. {t \in Last(r) : t < 4} = IF Reads(r, "prim") THEN {2} ELSE {} BY LastSlots
<1>6. CASE Reads(r, "prim") /\ Reads(r, "viewport")
  <2>1. Last(r) = {2, 4} BY <1>6, LastSlots, Zenon
  <2> QED BY <1>1, <1>2, <1>3, <1>4, <1>5, <1>6, <2>1 DEF Below, One
<1>7. CASE Reads(r, "prim") /\ ~Reads(r, "viewport")
  <2>1. Last(r) = {2} BY <1>7, LastSlots, Zenon
  <2> QED BY <1>1, <1>2, <1>4, <1>5, <1>7, <2>1 DEF Below, One
<1>8. CASE ~Reads(r, "prim") /\ Reads(r, "viewport")
  <2>1. Last(r) = {4} BY <1>8, LastSlots, Zenon
  <2> QED BY <1>1, <1>2, <1>4, <1>5, <1>8, <2>1 DEF Below, One
<1>9. CASE ~Reads(r, "prim") /\ ~Reads(r, "viewport")
  <2>1. Last(r) = {} BY <1>9, LastSlots, Zenon
  <2> QED BY <1>1, <1>4, <1>5, <1>9, <2>1 DEF Below, One
<1> QED BY <1>6, <1>7, <1>8, <1>9, Zenon

(* What nir_recompute_io_bases assigns to each kind of load.               *)
LEMMA FirstNumbers ==
  ASSUME NEW r, Shader(r), Accepted(r), NEW l \in r.loads
  PROVE  /\ l.kind \in {"var", "dist"} =>
                /\ FirstBase(r)[l] = Below(Others(r), First(r, l))
                /\ First(r, l) \in Others(r)
                /\ FirstBase(r)[l] + l.slots <= Cardinality(Others(r))
         /\ l.kind = "prim" => FirstBase(r)[l] = Cardinality(Others(r))
         /\ FirstCount(r) = Cardinality(Others(r)) + One(Reads(r, "prim"))
                            + One(Reads(r, "viewport"))
<1> DEFINE O == Others(r)
           s == First(r, l)
<1>1. O \in SUBSET Int /\ IsFiniteSet(O) /\ Cardinality(O) \in Nat BY Numbered, Zenon
<1>2. FirstBase(r)[l] = IF s \in Last(r) THEN Cardinality(O) + Below(Last(r), s) ELSE Below(O, s)
  BY Numbered, Zenon
<1>3. ASSUME l.kind \in {"var", "dist"}
      PROVE  /\ FirstBase(r)[l] = Below(O, s) /\ s \in O
             /\ FirstBase(r)[l] + l.slots <= Cardinality(O)
  <2>1. \A i \in 0..l.slots - 1 : s + i \in O BY <1>3, LastSlots, Zenon
  <2>2. s \in O /\ s \in Int
    <3>1. 0 \in 0..l.slots - 1 /\ s \in Int BY LoadKinds, FirstNat, LinkingAssumption
    <3>2. s + 0 \in O BY <2>1, <3>1, Zenon
    <3> QED BY <3>1, <3>2
  <2>3. FirstBase(r)[l] = Below(O, s) BY <1>2, <2>2, Zenon DEF Others
  <2>4. CASE l.slots = 1
    <3>1. Below(O, s) \in 0..Cardinality(O) - 1 BY <1>1, <2>2, RankBound, Zenon
    <3> QED BY <1>1, <2>2, <2>3, <2>4, <3>1
  <2>5. CASE l.slots = 2
    <3>1. s + 1 \in O BY <2>1, <2>5
    <3>2. Below(O, s + 1) \in 0..Cardinality(O) - 1 BY <1>1, <3>1, RankBound, Zenon
    <3>3. Below(O, s + 1) = Below(O, s) + 1 BY <1>1, <2>2, RankNext, Zenon
    <3>4. Below(O, s) \in Nat BY <1>1, RankNat, Zenon
    <3> QED BY <1>1, <2>2, <2>3, <2>5, <3>2, <3>3, <3>4
  <2> QED BY <2>4, <2>5, LoadKinds, Zenon
<1>4. ASSUME l.kind = "prim" PROVE FirstBase(r)[l] = Cardinality(O)
  <2>1. s = 2 /\ 2 \in Last(r) BY <1>4, AcceptedSlots, LastSlots, Zenon DEF Reads
  <2>2. Below(Last(r), 2) = 0 BY LastCounted, Zenon
  <2> QED BY <1>1, <1>2, <2>1, <2>2
<1>5. FirstCount(r) = Cardinality(O) + One(Reads(r, "prim")) + One(Reads(r, "viewport"))
  BY <1>1, Numbered, LastCounted DEF One
<1> QED BY <1>3, <1>4, <1>5, Zenon

(* The numbers after inputs are split: a flat read of a varying that is    *)
(* also interpolated has an alias.                                         *)
Alias(r, l) == l.kind = "var" /\ l.mode = Flat /\ l.slots = 1 /\ l.loc \in Mixed(r)

Aliases(r) == IF Splits(r) THEN Cardinality(Mixed(r)) ELSE 0

(* What split_ps5_mixed_inputs makes of it.                                *)
LEMMA FinalNumbers ==
  ASSUME NEW r, Shader(r), Accepted(r), NEW l \in r.loads
  PROVE  /\ Aliases(r) \in Nat
         /\ FinalCount(r) = FirstCount(r) + Aliases(r)
         /\ l.kind \in {"var", "dist"} /\ ~(Splits(r) /\ Alias(r, l)) =>
                FinalBase(r)[l] = FirstBase(r)[l]
         /\ Splits(r) /\ Alias(r, l) =>
                /\ Aliases(r) > 0
                /\ FinalBase(r)[l] = FirstAlias(r, FirstCount(r)) + Below(Mixed(r), l.loc)
                /\ Below(Mixed(r), l.loc) \in 0..Aliases(r) - 1
         /\ l.kind = "prim" =>
                FinalBase(r)[l] = IF Splits(r) /\ PerPrimitiveId(r) /\ Aliases(r) > 0
                                  THEN FirstAlias(r, FirstCount(r)) + Aliases(r)
                                  ELSE FirstBase(r)[l]
<1> DEFINE n == FirstCount(r)
           m == Cardinality(Mixed(r))
<1>1. /\ Mixed(r) \in SUBSET Int /\ IsFiniteSet(Mixed(r)) /\ m \in Nat BY MixedFinite, Zenon
<1>2. n \in Nat /\ FirstAlias(r, n) \in Nat BY CountsNat, Zenon
<1>3. SplitCount(r, n) = n + m BY <1>1, <1>2 DEF SplitCount, FirstAlias
<1>4. Aliases(r) \in Nat /\ FinalCount(r) = n + Aliases(r)
  BY <1>1, <1>2, <1>3 DEF Aliases, FinalCount
<1>5. CASE ~Splits(r)
  BY <1>4, <1>5, Zenon DEF FinalBase, Aliases
<1>6. CASE Splits(r) /\ m = 0
  <2>1. FinalBase(r) = FirstBase(r)
    BY <1>2, <1>3, <1>6 DEF FinalBase, split_ps5_mixed_inputs
  <2>2. ~Alias(r, l) BY <1>1, <1>6, FS_EmptySet, Zenon DEF Alias
  <2> QED BY <1>4, <1>6, <2>1, <2>2 DEF Aliases
<1>7. CASE Splits(r) /\ m # 0
  <2>1. SplitCount(r, n) # n BY <1>1, <1>2, <1>3, <1>7
  <2>2. FinalBase(r)[l] = remap_ps5_flat_input(r, FirstBase(r), n, l)
    BY <1>7, <2>1, Zenon DEF FinalBase, split_ps5_mixed_inputs
  <2>3. Alias(r, l) => Below(Mixed(r), l.loc) \in 0..m - 1
    BY <1>1, RankBound, Zenon DEF Alias
  <2>4. l.kind = "prim" => l.mode = Flat BY AcceptedSlots, Zenon
  <2>5. Aliases(r) = m /\ m > 0 BY <1>1, <1>7 DEF Aliases
  <2> QED BY <1>4, <1>7, <2>2, <2>3, <2>4, <2>5, Zenon DEF remap_ps5_flat_input, Alias
<1> QED BY <1>1, <1>5, <1>6, <1>7, Zenon

-----------------------------------------------------------------------------
(* A list build_input_semantics calls valid has one word for each          *)
(* attribute, which every load that uses the attribute agrees with.        *)
Words(r) == WordsOf(r, LinkedAt(r), FinalBase(r))

(* Semantics that are valid have exactly one word for every number.        *)
LEMMA ValidWords ==
  ASSUME NEW r, Shader(r), Pixel(r), Semantics(r).valid
  PROVE  /\ Accepted(r) /\ NoConflict(Words(r))
         /\ \A w \in Words(r) : w.attribute < FinalCount(r)
         /\ \A k \in 0..FinalCount(r) - 1 : \E w \in Words(r) : w.attribute = k
         /\ Semantics(r).words = [k \in 1..FinalCount(r) |->
                                     (CHOOSE w \in Words(r) : w.attribute = k - 1).word]
<1> DEFINE n == FinalCount(r)
           seen == Seen(Words(r), n)
<1>1. n \in Nat BY CountsNat, Zenon
<1>2. Semantics(r) = build_input_semantics(r, LinkedAt(r), FinalBase(r), n)
  BY Zenon DEF Semantics
<1>3. /\ n <= MaxSemantics /\ \A l \in r.loads : LoadAccepted(r, LinkedAt(r), l)
      /\ \A w \in Words(r) : w.attribute < n
      /\ NoConflict(Words(r))
      /\ Cardinality(seen) = n
      /\ Semantics(r).words = [k \in 1..Cardinality(seen) |->
                                  (CHOOSE w \in Words(r) : w.attribute = k - 1).word]
  <2> DEFINE walked == /\ n <= MaxSemantics /\ ~r.exotic
                       /\ \A l \in r.loads : LoadAccepted(r, LinkedAt(r), l)
                       /\ \A w \in Words(r) : w.attribute < n
                       /\ NoConflict(Words(r))
             list == [k \in 1..Cardinality(seen) |->
                         (CHOOSE w \in Words(r) : w.attribute = k - 1).word]
  <2>1. Semantics(r) = IF ~walked THEN [valid |-> FALSE, words |-> <<>>]
                       ELSE [valid |-> Cardinality(seen) = n, words |-> list]
    BY <1>2, Zenon DEF build_input_semantics, Words
  <2> HIDE DEF walked, list, seen
  <2>2. walked BY <2>1
  <2>4. Semantics(r) = [valid |-> Cardinality(seen) = n, words |-> list] BY <2>1, <2>2, Zenon
  <2>5. Cardinality(seen) = n
    <3> DEFINE full == Cardinality(seen) = n
    <3>1. Semantics(r) = [valid |-> full, words |-> list] /\ full \in BOOLEAN BY <2>4, Zenon
    <3> HIDE DEF full
    <3>2. Semantics(r).valid = full BY <3>1
    <3>3. full BY <3>1, <3>2, Zenon
    <3> QED BY <3>3, Zenon DEF full
  <2>6. Semantics(r).words = list BY <2>4
  <2>3. Cardinality(seen) = n /\ Semantics(r).words = list BY <2>5, <2>6, Zenon
  <2> QED BY <2>2, <2>3, Zenon DEF walked, list
<1>4. seen = 0..n - 1
  <2>1. seen \in SUBSET (0..n - 1) BY <1>1, LinkingAssumption DEF Seen
  <2>2. IsFiniteSet(0..n - 1) /\ Cardinality(0..n - 1) = n
    <3>1. n \in Nat BY <1>1, Zenon
    <3> HIDE DEF n
    <3> QED BY <3>1, Counted, Zenon
  <2> QED BY <1>3, <2>1, <2>2, FS_Subset, Zenon
<1>5. \A k \in 0..n - 1 : \E w \in Words(r) : w.attribute = k
  BY <1>1, <1>4 DEF Seen
<1> QED BY <1>3, <1>5, Zenon DEF Accepted

(* Every slot a load reads adds a word ...                                 *)
LEMMA WordOfLoad ==
  ASSUME NEW r, NEW l \in r.loads, l.kind # "viewport", NEW i \in 0..l.slots - 1
  PROVE  [attribute |-> FinalBase(r)[l] + i, word |-> InputWord(r, l, LinkedAt(r), i)] \in Words(r)
  BY DEF Words, WordsOf

(* ... and every word was added for one.                                   *)
LEMMA LoadOfWord ==
  ASSUME NEW r, NEW w \in Words(r)
  PROVE  \E l \in r.loads : \E i \in 0..l.slots - 1 :
             /\ l.kind # "viewport"
             /\ w = [attribute |-> FinalBase(r)[l] + i, word |-> InputWord(r, l, LinkedAt(r), i)]
  BY Zenon DEF Words, WordsOf

(* The list of a valid result has the word of each load at its number.     *)
LEMMA ListedWord ==
  ASSUME NEW r, Shader(r), Pixel(r), Semantics(r).valid,
         NEW l \in r.loads, l.kind # "viewport", NEW i \in 0..l.slots - 1
  PROVE  /\ FinalBase(r)[l] + i + 1 \in DOMAIN Semantics(r).words
         /\ Semantics(r).words[FinalBase(r)[l] + i + 1] = InputWord(r, l, LinkedAt(r), i)
<1> DEFINE n == FinalCount(r)
           b == FinalBase(r)[l]
           w == [attribute |-> b + i, word |-> InputWord(r, l, LinkedAt(r), i)]
<1>1. w \in Words(r) BY WordOfLoad, Zenon
<1>2. b \in Nat /\ n \in Nat /\ i \in Nat BY BasesNat, CountsNat, LoadKinds
<1>3. b + i < n BY <1>1, ValidWords, Zenon
<1>4. b + i + 1 \in 1..n /\ (b + i + 1) - 1 = b + i BY <1>2, <1>3
<1> DEFINE c == CHOOSE v \in Words(r) : v.attribute = b + i
<1>5. c \in Words(r) /\ c.attribute = b + i BY <1>1
<1>9. NoConflict(Words(r)) BY ValidWords, Zenon
<1>6. c.word = w.word BY <1>1, <1>5, <1>9, Zenon DEF NoConflict
<1>7. Semantics(r).words = [k \in 1..n |-> (CHOOSE v \in Words(r) : v.attribute = k - 1).word]
  BY ValidWords
<1>8. Semantics(r).words[b + i + 1] = c.word BY <1>4, <1>7
<1> QED BY <1>4, <1>6, <1>7, <1>8, Zenon

(* The walk has no word for the viewport index; its attribute would leave  *)
(* a hole, so a list that is valid has none.                               *)
LEMMA NoViewport ==
  ASSUME NEW r, Shader(r), Pixel(r), Semantics(r).valid
  PROVE  ~Reads(r, "viewport")
<1> SUFFICES ASSUME Reads(r, "viewport") PROVE FALSE BY Zenon
<1> DEFINE o == Cardinality(Others(r))
           hole == IF PerPrimitiveId(r) /\ Aliases(r) > 0 THEN o
                   ELSE o + One(Reads(r, "prim"))
<1>1. Accepted(r) BY ValidWords, Zenon
<1>2. o \in Nat BY Numbered, Zenon
<1>3. PICK v \in r.loads : v.kind = "viewport" BY Zenon DEF Reads
<1>4. /\ FirstCount(r) = o + One(Reads(r, "prim")) + 1
      /\ Aliases(r) \in Nat /\ FinalCount(r) = FirstCount(r) + Aliases(r)
  BY <1>1, <1>3, FirstNumbers, FinalNumbers, Zenon DEF One
<1>5. hole \in 0..FinalCount(r) - 1 BY <1>2, <1>4 DEF One
<1>6. PICK w \in Words(r) : w.attribute = hole BY <1>5, ValidWords, Zenon
<1>12. PICK l \in r.loads : \E i \in 0..l.slots - 1 :
           l.kind # "viewport" /\ w.attribute = FinalBase(r)[l] + i
  BY <1>6, LoadOfWord
<1>7. PICK i \in 0..l.slots - 1 : l.kind # "viewport" /\ w.attribute = FinalBase(r)[l] + i
  BY <1>12, Zenon
<1>8. PerPrimitiveId(r) => Reads(r, "prim") BY Zenon DEF PerPrimitiveId, prim_id_input, Reads
<1>9. CASE l.kind \in {"var", "dist"} /\ ~(Splits(r) /\ Alias(r, l))
  <2>1. FinalBase(r)[l] + l.slots <= o /\ FinalBase(r)[l] \in Nat
    BY <1>1, <1>9, FirstNumbers, FinalNumbers, BasesNat, Zenon
  <2> QED BY <1>2, <1>6, <1>7, <2>1, LoadKinds DEF One
<1>10. CASE Splits(r) /\ Alias(r, l)
  <2>1. /\ FinalBase(r)[l] >= FirstAlias(r, FirstCount(r)) /\ Aliases(r) > 0 /\ l.slots = 1
        /\ FinalBase(r)[l] \in Nat
    <3>1. /\ FinalBase(r)[l] = FirstAlias(r, FirstCount(r)) + Below(Mixed(r), l.loc)
          /\ Below(Mixed(r), l.loc) \in 0..Aliases(r) - 1 /\ Aliases(r) > 0
      BY <1>1, <1>10, FinalNumbers, Zenon
    <3>2. l.slots = 1 BY <1>10, Zenon DEF Alias
    <3> QED BY <1>4, <3>1, <3>2, CountsNat, BasesNat
  <2>2. FirstAlias(r, FirstCount(r)) = IF PerPrimitiveId(r) THEN o + 1
                                       ELSE o + One(Reads(r, "prim")) + 1
    BY <1>2, <1>4, <1>8 DEF One, FirstAlias
  <2>3. hole < FirstAlias(r, FirstCount(r)) BY <1>2, <2>1, <2>2 DEF One
  <2>4. w.attribute = FinalBase(r)[l] BY <1>7, <2>1
  <2>5. hole \in Nat /\ FirstAlias(r, FirstCount(r)) \in Nat BY <1>2, CountsNat DEF One
  <2> HIDE DEF hole
  <2> QED BY <1>6, <2>1, <2>3, <2>4, <2>5
<1>11. CASE l.kind = "prim"
  <2>1. Reads(r, "prim") /\ l.slots = 1 /\ i = 0 BY <1>1, <1>11, AcceptedSlots DEF Reads
  <2>2. CASE Splits(r) /\ PerPrimitiveId(r) /\ Aliases(r) > 0
    <3>1. FinalBase(r)[l] = FirstAlias(r, FirstCount(r)) + Aliases(r)
      BY <1>1, <1>11, <2>2, FinalNumbers, Zenon
    <3> QED BY <1>2, <1>4, <1>6, <1>7, <2>1, <2>2, <3>1 DEF One, FirstAlias
  <2>3. CASE ~(Splits(r) /\ PerPrimitiveId(r) /\ Aliases(r) > 0)
    <3>1. FinalBase(r)[l] = o BY <1>1, <1>11, <2>3, FinalNumbers, FirstNumbers
    <3>2. ~(PerPrimitiveId(r) /\ Aliases(r) > 0) BY <2>3 DEF Aliases
    <3> QED BY <1>2, <1>6, <1>7, <2>1, <3>1, <3>2 DEF One
  <2> QED BY <2>2, <2>3, Zenon
<1> QED BY <1>7, <1>9, <1>10, <1>11, LoadKinds, Zenon

(* A per-primitive primitive id has the attribute behind all others, and   *)
(* no other input does.                                                    *)
LEMMA IdLast ==
  ASSUME NEW r, Shader(r), Splits(r), PerPrimitiveId(r), Semantics(r).valid, NEW l \in r.loads
  PROVE  (FinalBase(r)[l] + l.slots > FinalCount(r) - 1) = (l.kind = "prim")
<1> DEFINE o == Cardinality(Others(r))
<1>2. Reads(r, "prim") BY Zenon DEF PerPrimitiveId, prim_id_input, Reads
<1>4. ~Reads(r, "viewport") /\ Accepted(r) BY NoViewport, ValidWords, Zenon DEF Splits
<1>5. o \in Nat BY Numbered, Zenon
<1>6. /\ FirstCount(r) = o + 1
      /\ Aliases(r) \in Nat /\ FinalCount(r) = FirstCount(r) + Aliases(r)
  <2>1. FirstCount(r) = o + One(Reads(r, "prim")) + One(Reads(r, "viewport"))
    BY <1>4, FirstNumbers, Zenon
  <2>2. FirstCount(r) = o + 1 BY <1>2, <1>4, <1>5, <2>1 DEF One
  <2>3. Aliases(r) \in Nat /\ FinalCount(r) = FirstCount(r) + Aliases(r)
    BY <1>4, FinalNumbers, Zenon
  <2> QED BY <2>2, <2>3, Zenon
<1>7. FirstAlias(r, FirstCount(r)) = o BY <1>5, <1>6 DEF FirstAlias
<1>8. FinalCount(r) - 1 = o + Aliases(r) BY <1>5, <1>6
<1>9. FinalBase(r)[l] \in Nat /\ l.slots \in {1, 2} BY BasesNat, LoadKinds, Zenon
<1>10. CASE l.kind \in {"var", "dist"} /\ ~Alias(r, l)
  <2>1. FinalBase(r)[l] + l.slots <= o BY <1>4, <1>10, FirstNumbers, FinalNumbers, Zenon
  <2> QED BY <1>5, <1>6, <1>8, <1>9, <1>10, <2>1
<1>11. CASE Alias(r, l)
  <2>1. /\ FinalBase(r)[l] = o + Below(Mixed(r), l.loc)
        /\ Below(Mixed(r), l.loc) \in 0..Aliases(r) - 1
    BY <1>2, <1>4, <1>7, <1>11, FinalNumbers, Zenon
  <2>2. l.slots = 1 /\ l.kind = "var" BY <1>11, Zenon DEF Alias
  <2> QED BY <1>5, <1>6, <1>8, <2>1, <2>2
<1>12. CASE l.kind = "prim"
  <2>1. FirstBase(r)[l] = o BY <1>4, <1>12, FirstNumbers, Zenon
  <2>2. FinalBase(r)[l] = o + Aliases(r)
    <3>1. CASE Aliases(r) > 0
      <4>1. FinalBase(r)[l] = FirstAlias(r, FirstCount(r)) + Aliases(r)
        BY <1>4, <1>12, <3>1, FinalNumbers, Zenon
      <4> QED BY <1>7, <4>1, Zenon
    <3>2. CASE ~(Aliases(r) > 0)
      <4>1. FinalBase(r)[l] = FirstBase(r)[l] BY <1>4, <1>12, <3>2, FinalNumbers, Zenon
      <4>2. Aliases(r) = 0 BY <1>6, <3>2
      <4> QED BY <1>5, <2>1, <4>1, <4>2
    <3> QED BY <3>1, <3>2, Zenon
  <2> QED BY <1>5, <1>6, <1>8, <1>9, <1>12, <2>2
<1>13. l.kind # "viewport" BY <1>4, Zenon DEF Reads
<1> QED BY <1>10, <1>11, <1>12, <1>13, LoadKinds, Zenon

(* Linking gives a distance the component the producer exports it in.      *)
LEMMA LinkedToProducer ==
  ASSUME NEW r, Shader(r), Pixel(r), Links(r),
         NEW l \in r.loads, l.kind = "dist"
  PROVE  LinkedAt(r)[l] = ProducerComponent(r, l)
<1>1. /\ l.loc \in Nat /\ r.clip \in Nat /\ r.cull \in Nat /\ r.prefix \in Nat
      /\ l.loc < r.clip + r.cull
  <2>1. l.loc \in Nat /\ r.clip \in Nat /\ r.cull \in Nat /\ r.prefix \in Nat
    BY LoadKinds, LinkingAssumption
  <2>2. \A m \in r.loads : m.kind = "dist" => m.loc < r.clip + r.cull
    BY Zenon DEF Shader
  <2> QED BY <2>1, <2>2, Zenon
<1>2. LinkedAt(r)[l] = LinkedComponent(r, l) BY Zenon DEF LinkedAt
<1> QED BY <1>1, <1>2 DEF LinkedComponent, ProducerComponent, Moves

-----------------------------------------------------------------------------
(* The other direction: a shader whose inputs can be described is linked.  *)
LEMMA DivSmall ==
  ASSUME NEW n \in Nat, NEW w \in Nat \ {0}, n < 2 * w
  PROVE  n \div w \in {0, 1}
<1> DEFINE q == n \div w
<1>1. q \in Nat /\ w * q <= n BY DivNat
<1> HIDE DEF q
<1>2. ASSUME q >= 2 PROVE FALSE
  <2>1. w * q >= w * 2 BY <1>1, <1>2
  <2> QED BY <1>1, <2>1
<1> QED BY <1>1, <1>2 DEF q

(* A linkable shader is not refused by the functions that link it.         *)
LEMMA LinkableAccepted ==
  ASSUME NEW r, Shader(r), Pixel(r), Linkable(r)
  PROVE  Links(r) /\ Accepted(r) /\ ~Reads(r, "viewport")
<1> USE DEF Linkable
<1>1. r.clip \in Nat /\ r.cull \in Nat /\ r.prefix \in Nat
  BY Zenon DEF Shader
<1>2. Width \in Nat \ {0} BY LinkingAssumption, Zenon
<1>3. \A l \in r.loads : l.kind = "dist" => l.loc < r.clip + r.cull BY Zenon DEF Shader
<1>4. \A l \in r.loads : l.loc \in Nat BY LoadKinds, LinkingAssumption
<1>5. Links(r)
  BY <1>1, <1>3, <1>4 DEF Links, link_fragment_distance_layout, Distances
<1>6. ASSUME NEW l \in r.loads PROVE LoadAccepted(r, LinkedAt(r), l)
  <2>1. CASE l.kind = "dist"
    <3> DEFINE a == LinkedAt(r)[l]
    <3>1. a = ProducerComponent(r, l) BY <1>5, <2>1, LinkedToProducer, Zenon
    <3>2. a \in Nat /\ a < 2 * Width
      BY <1>1, <1>2, <1>3, <1>4, <2>1, <3>1 DEF ProducerComponent, DistanceFits
    <3> HIDE DEF a
    <3>3. a \div Width \in {0, 1} BY <1>2, <3>2, DivSmall, Zenon
    <3>4. r.clip + r.cull \in 1..2 * Width BY <1>1, <1>2, <1>3, <1>4, <2>1
    <3> QED BY <2>1, <3>3, <3>4 DEF LoadAccepted, a
  <2>2. CASE l.kind = "var"
    BY <1>4, <2>2, LinkingAssumption DEF LoadAccepted
  <2>3. CASE l.kind \in {"prim", "viewport"}
    BY <2>3, Zenon DEF LoadAccepted
  <2> QED BY <2>1, <2>2, <2>3, LoadKinds, Zenon
<1> QED BY <1>5, <1>6, Zenon DEF Accepted, Reads

(* The numbers of the loads, in the order plain inputs, a per-vertex       *)
(* primitive id, aliases, a per-primitive primitive id.                    *)
Linked(r) == Shader(r) /\ Splits(r) /\ Linkable(r)

Plain(r, l)   == l.kind \in {"var", "dist"} /\ ~Alias(r, l)
Plains(r)     == Cardinality(Others(r))
AliasStart(r) == Plains(r) + One(Reads(r, "prim") /\ ~PerPrimitiveId(r))
IdNumber(r)   == Plains(r) + (IF PerPrimitiveId(r) THEN Aliases(r) ELSE 0)

(* What a linked shader is.                                                *)
LEMMA LinkedFacts ==
  ASSUME NEW r, Linked(r)
  PROVE  /\ Shader(r) /\ Splits(r) /\ Linkable(r) /\ Pixel(r)
         /\ Accepted(r) /\ Links(r) /\ ~Reads(r, "viewport")
  BY LinkableAccepted, Zenon DEF Linked, Splits

(* Its inputs are the plain ones, the primitive id and the aliases.        *)
LEMMA LinkCounts ==
  ASSUME NEW r, Linked(r)
  PROVE  /\ Plains(r) \in Nat /\ Aliases(r) \in Nat /\ Aliases(r) = Cardinality(Mixed(r))
         /\ PerPrimitiveId(r) => Reads(r, "prim")
         /\ FinalCount(r) = Plains(r) + One(Reads(r, "prim")) + Aliases(r)
         /\ FirstAlias(r, FirstCount(r)) = AliasStart(r) /\ AliasStart(r) \in Nat
<1>1. Shader(r) /\ Splits(r) /\ Accepted(r) /\ ~Reads(r, "viewport") BY LinkedFacts, Zenon
<1>2. Plains(r) \in Nat BY <1>1, Numbered, Zenon DEF Plains
<1>3. Aliases(r) = Cardinality(Mixed(r)) /\ Aliases(r) \in Nat
  BY <1>1, MixedFinite, Zenon DEF Aliases
<1>4. PerPrimitiveId(r) => Reads(r, "prim") BY Zenon DEF PerPrimitiveId, prim_id_input, Reads
<1>5. FirstCount(r) = Plains(r) + One(Reads(r, "prim"))
  <2>1. Cardinality(Last(r)) = One(Reads(r, "prim")) BY <1>1, LastCounted DEF One
  <2> QED BY <1>1, <2>1, Numbered, Zenon DEF Plains
<1>6. FinalCount(r) = FirstCount(r) + Aliases(r)
  BY <1>1, <1>2, <1>3, <1>5 DEF FinalCount, SplitCount, FirstAlias, One
<1>7. FirstAlias(r, FirstCount(r)) = AliasStart(r)
  BY <1>2, <1>4, <1>5 DEF FirstAlias, AliasStart, One
<1> QED BY <1>2, <1>3, <1>4, <1>5, <1>6, <1>7 DEF AliasStart, One

(* The numbers of plain inputs, of the primitive id and of aliases do not  *)
(* meet, and there is no gap between them.                                 *)
LEMMA NumberLayout ==
  ASSUME NEW r, Linked(r)
  PROVE  /\ Plains(r) \in Nat /\ Aliases(r) \in Nat /\ AliasStart(r) \in Nat /\ IdNumber(r) \in Nat
         /\ Plains(r) <= AliasStart(r) /\ Plains(r) <= IdNumber(r)
         /\ Reads(r, "prim") => IdNumber(r) < AliasStart(r) \/ AliasStart(r) + Aliases(r) <= IdNumber(r)
         /\ \A n \in 0..FinalCount(r) - 1 :
               \/ n < Plains(r) \/ n \in AliasStart(r)..AliasStart(r) + Aliases(r) - 1
               \/ Reads(r, "prim") /\ n = IdNumber(r)
<1> DEFINE p == Plains(r)
           a == Aliases(r)
<1>1. p \in Nat /\ a \in Nat /\ (PerPrimitiveId(r) => Reads(r, "prim"))
      /\ FinalCount(r) = p + One(Reads(r, "prim")) + a
  BY LinkCounts, Zenon
<1>2. /\ AliasStart(r) = p + One(Reads(r, "prim") /\ ~PerPrimitiveId(r))
      /\ IdNumber(r) = p + (IF PerPrimitiveId(r) THEN a ELSE 0)
  BY Zenon DEF AliasStart, IdNumber
<1> HIDE DEF p, a
<1>3. CASE ~Reads(r, "prim")
  <2>1. AliasStart(r) = p /\ IdNumber(r) = p /\ FinalCount(r) = p + a BY <1>1, <1>2, <1>3 DEF One
  <2> QED BY <1>1, <1>3, <2>1 DEF p, a
<1>4. CASE Reads(r, "prim") /\ PerPrimitiveId(r)
  <2>1. AliasStart(r) = p /\ IdNumber(r) = p + a /\ FinalCount(r) = p + 1 + a
    BY <1>1, <1>2, <1>4 DEF One
  <2> QED BY <1>1, <1>4, <2>1 DEF p, a
<1>5. CASE Reads(r, "prim") /\ ~PerPrimitiveId(r)
  <2>1. AliasStart(r) = p + 1 /\ IdNumber(r) = p /\ FinalCount(r) = p + 1 + a
    BY <1>1, <1>2, <1>5 DEF One
  <2> QED BY <1>1, <1>5, <2>1 DEF p, a
<1> QED BY <1>3, <1>4, <1>5, Zenon

(* Its loads are of three sorts: plain, alias, primitive id.               *)
LEMMA LinkedLoad ==
  ASSUME NEW r, Linked(r), NEW l \in r.loads
  PROVE  /\ l.kind \in {"var", "dist", "prim"} /\ l.slots = 1
         /\ Plain(r, l) \/ Alias(r, l) \/ l.kind = "prim"
         /\ l.loc \in Nat /\ l.mode \in {Flat, Smooth}
         /\ First(r, l) \in Int
<1>1. Shader(r) /\ Linkable(r) /\ ~Reads(r, "viewport") BY LinkedFacts, Zenon
<1>2. l.kind \in {"var", "dist", "prim"} /\ l.slots = 1
  <2>1. l.kind # "viewport" BY <1>1, Zenon DEF Reads
  <2>2. l.slots = 1 BY <1>1, Zenon DEF Linkable
  <2> QED BY <1>1, <2>1, <2>2, LoadKinds, Zenon
<1>3. l.loc \in Nat /\ l.mode \in {Flat, Smooth}
  <2>1. l.loc \in 0..MaxSemantics + 2 * Width /\ l.mode \in {1, 2} BY <1>1, LoadKinds, Zenon
  <2> DEFINE x == l.loc
  <2>2. x \in 0..MaxSemantics + 2 * Width BY <2>1, Zenon
  <2> HIDE DEF x
  <2>3. x \in Nat BY <2>2, LinkingAssumption
  <2> QED BY <2>1, <2>3, Zenon DEF Flat, Smooth, x
<1>4. First(r, l) \in Int
  <2>1. First(r, l) \in 0..MaxSemantics + 2 * Width + r.prefix + 5 BY <1>1, FirstNat, Zenon
  <2>2. MaxSemantics + 2 * Width + r.prefix + 5 \in Int BY <1>1, LinkingAssumption DEF Shader
  <2> QED BY <2>1, <2>2
<1> QED BY <1>2, <1>3, <1>4, Zenon DEF Plain

(* The numbers of the plain loads come first ...                           *)
LEMMA PlainNumber ==
  ASSUME NEW r, Linked(r), NEW l \in r.loads, Plain(r, l)
  PROVE  /\ FinalBase(r)[l] = Below(Others(r), First(r, l))
         /\ First(r, l) \in Others(r) /\ FinalBase(r)[l] \in 0..Plains(r) - 1
<1>1. Shader(r) /\ Accepted(r) BY LinkedFacts, Zenon
<1>2. First(r, l) \in Others(r) /\ FirstBase(r)[l] = Below(Others(r), First(r, l))
  BY <1>1, FirstNumbers, Zenon DEF Plain
<1>3. FinalBase(r)[l] = FirstBase(r)[l] BY <1>1, FinalNumbers, Zenon DEF Plain
<1>4. Below(Others(r), First(r, l)) \in 0..Plains(r) - 1
  BY <1>1, <1>2, Numbered, RankBound, Zenon DEF Plains
<1> QED BY <1>2, <1>3, <1>4, Zenon

(* ... those of the aliases are in a row ...                               *)
LEMMA AliasNumber ==
  ASSUME NEW r, Linked(r), NEW l \in r.loads, Alias(r, l)
  PROVE  /\ FinalBase(r)[l] = AliasStart(r) + Below(Mixed(r), l.loc)
         /\ FinalBase(r)[l] \in AliasStart(r)..AliasStart(r) + Aliases(r) - 1
<1>1. Shader(r) /\ Accepted(r) /\ Splits(r) BY LinkedFacts, Zenon
<1>2. /\ FinalBase(r)[l] = FirstAlias(r, FirstCount(r)) + Below(Mixed(r), l.loc)
      /\ Below(Mixed(r), l.loc) \in 0..Aliases(r) - 1
  BY <1>1, FinalNumbers, Zenon
<1>3. /\ FirstAlias(r, FirstCount(r)) = AliasStart(r) /\ AliasStart(r) \in Nat
      /\ Aliases(r) \in Nat
  BY LinkCounts, Zenon
<1> QED BY <1>2, <1>3

(* ... and the primitive id is before or after the aliases.                *)
LEMMA IdNumbered ==
  ASSUME NEW r, Linked(r), NEW l \in r.loads, l.kind = "prim"
  PROVE  FinalBase(r)[l] = IdNumber(r) /\ Reads(r, "prim")
<1>1. Shader(r) /\ Accepted(r) /\ Splits(r) BY LinkedFacts, Zenon
<1>2. FirstBase(r)[l] = Plains(r) BY <1>1, FirstNumbers, Zenon DEF Plains
<1>3. FinalBase(r)[l] = IF PerPrimitiveId(r) /\ Aliases(r) > 0
                        THEN AliasStart(r) + Aliases(r) ELSE Plains(r)
  BY <1>1, <1>2, FinalNumbers, LinkCounts, Zenon
<1>4. Reads(r, "prim") BY Zenon DEF Reads
<1> QED BY <1>3, <1>4, LinkCounts DEF IdNumber, AliasStart, One

(* Every load is numbered below the count.                                 *)
LEMMA NumberRange ==
  ASSUME NEW r, Linked(r), NEW l \in r.loads
  PROVE  FinalBase(r)[l] \in 0..FinalCount(r) - 1
<1>1. CASE Plain(r, l) BY <1>1, PlainNumber, LinkCounts DEF One
<1>2. CASE Alias(r, l) BY <1>2, AliasNumber, LinkCounts DEF One, AliasStart
<1>3. CASE l.kind = "prim" BY <1>3, IdNumbered, LinkCounts DEF One, IdNumber
<1> QED BY <1>1, <1>2, <1>3, LinkedLoad, Zenon

(* Loads that need the same attribute get the same number, ...             *)
LEMMA SameAttribute ==
  ASSUME NEW r, Linked(r), NEW k \in r.loads, NEW l \in r.loads,
         AttributeOf(r, k) = AttributeOf(r, l)
  PROVE  FinalBase(r)[k] = FinalBase(r)[l]
<1>0. Shader(r) /\ Pixel(r) /\ Links(r) BY LinkedFacts, Zenon
<1>1. /\ k.kind \in {"var", "dist", "prim"} /\ k.slots = 1
      /\ l.kind \in {"var", "dist", "prim"} /\ l.slots = 1 BY LinkedLoad, Zenon
<1>2. k.kind = l.kind BY <1>1 DEF AttributeOf
<1>3. CASE k.kind = "var"
  <2>1. k.loc = l.loc /\ k.mode = l.mode BY <1>2, <1>3, Zenon DEF AttributeOf
  <2>2. Alias(r, k) <=> Alias(r, l) BY <1>1, <1>2, <2>1, Zenon DEF Alias
  <2>3. First(r, k) = First(r, l) BY <1>2, <1>3, <2>1, Zenon DEF First, Location
  <2>4. CASE Alias(r, k) BY <2>1, <2>2, <2>4, AliasNumber, Zenon
  <2>5. CASE ~Alias(r, k)
    <3>1. Plain(r, k) /\ Plain(r, l) BY <1>2, <1>3, <2>2, <2>5, Zenon DEF Plain
    <3> QED BY <2>3, <3>1, PlainNumber, Zenon
  <2> QED BY <2>4, <2>5, Zenon
<1>4. CASE k.kind = "dist"
  <2>1. ProducerComponent(r, k) \div Width = ProducerComponent(r, l) \div Width
    BY <1>2, <1>4, Zenon DEF AttributeOf
  <2>2. First(r, k) = First(r, l)
    BY <1>0, <1>2, <1>4, <2>1, LinkedToProducer, Zenon DEF First, Location
  <2>3. Plain(r, k) /\ Plain(r, l) BY <1>2, <1>4, Zenon DEF Alias, Plain
  <2> QED BY <2>2, <2>3, PlainNumber, Zenon
<1>5. CASE k.kind = "prim"
  BY <1>2, <1>5, IdNumbered, Zenon
<1> QED BY <1>1, <1>3, <1>4, <1>5, Zenon

(* ... loads with the same number have the same word, ...                  *)
LEMMA BothModes ==
  ASSUME NEW r, Linked(r), NEW k \in r.loads, NEW l \in r.loads,
         k.kind = "var", l.kind = "var", k.loc = l.loc, k.mode # l.mode
  PROVE  Alias(r, k) \/ Alias(r, l)
<1>1. /\ k.slots = 1 /\ l.slots = 1 /\ k.loc \in Nat
      /\ k.mode \in {Flat, Smooth} /\ l.mode \in {Flat, Smooth}
  BY LinkedLoad, Zenon
<1>2. k.loc \in 0..MaxSemantics - 1
  <2>1. k.loc < MaxSemantics BY LinkedFacts, Zenon DEF Linkable
  <2> QED BY <1>1, <2>1, LinkingAssumption
<1>3. k.loc \in k.loc..k.loc + k.slots - 1 /\ k.loc \in l.loc..l.loc + l.slots - 1
  BY <1>1
<1>4. k.mode \in ModesOf(r, k.loc) /\ l.mode \in ModesOf(r, k.loc)
  BY <1>3, Zenon DEF ModesOf, VarLoads
<1>5. \A x \in r.loads : x.mode \in {Flat, Smooth} BY LinkedLoad, Zenon
<1>6. ModesOf(r, k.loc) \subseteq {Flat, Smooth} BY <1>5, Zenon DEF ModesOf, VarLoads
<1>7. ModesOf(r, k.loc) = {Flat, Smooth} BY <1>1, <1>4, <1>6, Zenon
<1>8. k.loc \in Mixed(r) BY <1>2, <1>7, Zenon DEF Mixed
<1> QED BY <1>1, <1>8, Zenon DEF Alias

(* Loads with one number are described by one word.                        *)
LEMMA SameNumber ==
  ASSUME NEW r, Linked(r), NEW k \in r.loads, NEW l \in r.loads,
         FinalBase(r)[k] = FinalBase(r)[l]
  PROVE  InputWord(r, k, LinkedAt(r), 0) = InputWord(r, l, LinkedAt(r), 0)
<1>0. Shader(r) /\ Accepted(r) BY LinkedFacts, Zenon
<1>1. CASE k.kind = "prim" /\ l.kind = "prim"
  <2>1. k.mode = l.mode BY <1>0, <1>1, AcceptedSlots, Zenon
  <2> QED BY <1>1, <2>1, Zenon DEF InputWord
<1>2. CASE Alias(r, k) /\ Alias(r, l)
  <2>1. Below(Mixed(r), k.loc) = Below(Mixed(r), l.loc)
    <3>1. Below(Mixed(r), k.loc) \in Nat /\ Below(Mixed(r), l.loc) \in Nat
      BY MixedFinite, RankNat, Zenon
    <3>2. AliasStart(r) + Below(Mixed(r), k.loc) = AliasStart(r) + Below(Mixed(r), l.loc)
      BY <1>2, AliasNumber, Zenon
    <3>3. AliasStart(r) \in Nat BY LinkCounts, Zenon
    <3> QED BY <3>1, <3>2, <3>3
  <2>2. k.loc = l.loc BY <1>2, <2>1, MixedFinite, RankDistinct, Zenon DEF Alias
  <2> QED BY <1>2, <2>2, Zenon DEF InputWord, Alias
<1>3. CASE Plain(r, k) /\ Plain(r, l)
  <2>1. First(r, k) = First(r, l)
    <3>1. /\ First(r, k) \in Others(r) /\ First(r, l) \in Others(r)
          /\ Below(Others(r), First(r, k)) = Below(Others(r), First(r, l))
      BY <1>3, PlainNumber, Zenon
    <3> QED BY <1>0, <3>1, Numbered, RankDistinct
  <2>2. CASE k.kind = "dist" /\ l.kind = "dist"
    BY <2>1, <2>2, Zenon DEF InputWord, First, Location, DistanceSlot
  <2>3. CASE k.kind = "var" /\ l.kind = "var"
    <3>1. k.loc = l.loc
      <4>1. k.loc \in Nat /\ l.loc \in Nat BY LinkedLoad, Zenon
      <4> QED BY <1>0, <2>1, <2>3, <4>1, AcceptedSlots
    <3>2. k.mode = l.mode BY <1>3, <2>3, <3>1, BothModes, Zenon DEF Plain
    <3> QED BY <2>3, <3>1, <3>2, Zenon DEF InputWord
  <2>4. CASE k.kind # l.kind
    <3>1. k.loc \in Nat /\ l.loc \in Nat BY LinkedLoad, Zenon
    <3> QED BY <1>0, <1>3, <2>1, <2>4, <3>1, AcceptedSlots DEF Plain
  <2> QED BY <1>3, <2>2, <2>3, <2>4, Zenon DEF Plain
<1>4. Plain(r, k) => FinalBase(r)[k] \in 0..Plains(r) - 1 BY PlainNumber, Zenon
<1>5. Plain(r, l) => FinalBase(r)[l] \in 0..Plains(r) - 1 BY PlainNumber, Zenon
<1>6. Alias(r, k) => FinalBase(r)[k] \in AliasStart(r)..AliasStart(r) + Aliases(r) - 1
  BY AliasNumber, Zenon
<1>7. Alias(r, l) => FinalBase(r)[l] \in AliasStart(r)..AliasStart(r) + Aliases(r) - 1
  BY AliasNumber, Zenon
<1>8. k.kind = "prim" => FinalBase(r)[k] = IdNumber(r) /\ Reads(r, "prim") BY IdNumbered, Zenon
<1>9. l.kind = "prim" => FinalBase(r)[l] = IdNumber(r) /\ Reads(r, "prim") BY IdNumbered, Zenon
<1>10. /\ Plain(r, k) \/ Alias(r, k) \/ k.kind = "prim"
       /\ Plain(r, l) \/ Alias(r, l) \/ l.kind = "prim" BY LinkedLoad, Zenon
<1>11. /\ Plains(r) \in Nat /\ Aliases(r) \in Nat /\ AliasStart(r) \in Nat /\ IdNumber(r) \in Nat
       /\ Plains(r) <= AliasStart(r) /\ Plains(r) <= IdNumber(r)
       /\ Reads(r, "prim") => IdNumber(r) < AliasStart(r) \/ AliasStart(r) + Aliases(r) <= IdNumber(r)
  BY NumberLayout, Zenon
<1>12. CASE Plain(r, k) /\ ~Plain(r, l)
  <2>1. CASE Alias(r, l) BY <1>4, <1>7, <1>11, <1>12, <2>1
  <2>2. CASE l.kind = "prim" BY <1>4, <1>9, <1>11, <1>12, <2>2
  <2> QED BY <1>10, <1>12, <2>1, <2>2, Zenon
<1>13. CASE ~Plain(r, k) /\ Plain(r, l)
  <2>1. CASE Alias(r, k) BY <1>5, <1>6, <1>11, <1>13, <2>1
  <2>2. CASE k.kind = "prim" BY <1>5, <1>8, <1>11, <1>13, <2>2
  <2> QED BY <1>10, <1>13, <2>1, <2>2, Zenon
<1>14. CASE Alias(r, k) /\ l.kind = "prim" BY <1>6, <1>9, <1>11, <1>14
<1>15. CASE k.kind = "prim" /\ Alias(r, l) BY <1>7, <1>8, <1>11, <1>15
<1> QED BY <1>1, <1>2, <1>3, <1>10, <1>12, <1>13, <1>14, <1>15, Zenon

(* ... and every number below the count is some load's.                    *)
LEMMA ReadInMode ==
  ASSUME NEW r, Linked(r), NEW location \in Mixed(r), NEW mode \in {Flat, Smooth}
  PROVE  \E l \in r.loads : l.kind = "var" /\ l.loc = location /\ l.mode = mode
<1>1. mode \in ModesOf(r, location) BY Zenon DEF Mixed
<1>2. PICK l \in VarLoads(r) : location \in l.loc..l.loc + l.slots - 1 /\ l.mode = mode
  BY <1>1, Zenon DEF ModesOf
<1>3. l \in r.loads /\ l.kind = "var" BY <1>2, Zenon DEF VarLoads
<1>4. l.slots = 1 /\ l.loc \in Nat BY <1>3, LinkedLoad, Zenon
<1> QED BY <1>2, <1>3, <1>4

(* Every number below the count is the number of a load.                   *)
LEMMA EveryNumber ==
  ASSUME NEW r, Linked(r), NEW n \in 0..FinalCount(r) - 1
  PROVE  \E l \in r.loads : FinalBase(r)[l] = n
<1>0. Shader(r) BY LinkedFacts, Zenon
<1>1. /\ Plains(r) \in Nat /\ Aliases(r) \in Nat /\ Aliases(r) = Cardinality(Mixed(r))
      /\ PerPrimitiveId(r) => Reads(r, "prim")
      /\ FinalCount(r) = Plains(r) + One(Reads(r, "prim")) + Aliases(r)
      /\ AliasStart(r) \in Nat
  BY LinkCounts, Zenon
<1>3. CASE n < Plains(r)
  <2>1. n \in 0..Cardinality(Others(r)) - 1 BY <1>1, <1>3 DEF Plains
  <2>2. PICK s \in Others(r) : Below(Others(r), s) = n BY <1>0, <2>1, Numbered, RankOnto, Zenon
  <2>3. s \in Slots(r) /\ s \notin Last(r) BY <2>2, Zenon DEF Others
  <2>4. PICK l \in r.loads : s \in First(r, l)..First(r, l) + l.slots - 1
    BY <1>0, <2>3, SlotsFinite, Zenon
  <2>5. l.slots = 1 /\ First(r, l) \in Int BY LinkedLoad, Zenon
  <2>6. s = First(r, l) BY <2>4, <2>5
  <2>7. Plain(r, l) \/ Alias(r, l) BY <1>0, <2>3, <2>6, PrimitiveIdCounted, LinkedLoad, Zenon
  <2>8. CASE Plain(r, l) BY <2>2, <2>6, <2>8, PlainNumber, Zenon
  <2>9. CASE Alias(r, l)
    <3>1. l.kind = "var" /\ l.loc \in Mixed(r) BY <2>9, Zenon DEF Alias
    <3>2. PICK k \in r.loads : k.kind = "var" /\ k.loc = l.loc /\ k.mode = Smooth
      BY <3>1, ReadInMode, Zenon
    <3>3. Plain(r, k) BY <3>2 DEF Alias, Plain, Flat, Smooth
    <3>4. First(r, k) = First(r, l) BY <3>1, <3>2, Zenon DEF First, Location
    <3> QED BY <2>2, <2>6, <3>3, <3>4, PlainNumber, Zenon
  <2> QED BY <2>7, <2>8, <2>9, Zenon
<1>4. CASE n \in AliasStart(r)..AliasStart(r) + Aliases(r) - 1
  <2>1. n - AliasStart(r) \in 0..Cardinality(Mixed(r)) - 1 BY <1>1, <1>4
  <2>2. PICK location \in Mixed(r) : Below(Mixed(r), location) = n - AliasStart(r)
    BY <2>1, MixedFinite, RankOnto, Zenon
  <2>3. PICK l \in r.loads : l.kind = "var" /\ l.loc = location /\ l.mode = Flat BY ReadInMode
  <2>4. Alias(r, l) BY <2>3, LinkedLoad, Zenon DEF Alias
  <2>5. FinalBase(r)[l] = AliasStart(r) + Below(Mixed(r), l.loc) BY <2>4, AliasNumber, Zenon
  <2> QED BY <1>1, <2>2, <2>3, <2>5
<1>5. CASE Reads(r, "prim") /\ n = IdNumber(r)
  <2>1. PICK l \in r.loads : l.kind = "prim" BY <1>5, Zenon DEF Reads
  <2> QED BY <1>5, <2>1, IdNumbered, Zenon
<1> QED BY <1>3, <1>4, <1>5, NumberLayout, Zenon

(* So a shader has no more numbers than inputs that need an attribute.     *)
LEMMA MixedRadix ==
  ASSUME NEW x \in Int, NEW y \in Int, NEW s \in {0, 1, 2}, NEW t \in {0, 1, 2},
         NEW u \in {1, 2}, NEW v \in {1, 2}, 6 * x + 2 * s + u - 1 = 6 * y + 2 * t + v - 1
  PROVE  x = y /\ u = v /\ s = t
<1>1. x = y BY Z3
<1>2. 2 * s + u = 2 * t + v BY <1>1
<1> QED BY <1>1, <1>2

(* A linkable shader needs finitely many attributes.                       *)
LEMMA AttributesFinite ==
  ASSUME NEW r, Shader(r), Linkable(r)
  PROVE  IsFiniteSet({AttributeOf(r, l) : l \in r.loads})
<1> DEFINE T == {AttributeOf(r, l) : l \in r.loads}
           tag(a) == CASE a[1] = "var" -> 0 [] a[1] = "dist" -> 1 [] OTHER -> 2
           code(a) == 6 * a[2] + 2 * tag(a) + a[3] - 1
           top == 6 * (MaxSemantics + 2 * Width + r.prefix) + 6
           f == [a \in T |-> code(a)]
<1>1. top \in Nat BY LinkingAssumption DEF Shader
<1>2. ASSUME NEW a \in T
      PROVE  /\ a[1] \in {"var", "dist", "prim"} /\ a[3] \in {1, 2}
             /\ a[2] \in 0..MaxSemantics + 2 * Width + r.prefix
             /\ a = <<a[1], a[2], a[3]>>
  <2>1. PICK l \in r.loads : a = AttributeOf(r, l) BY Zenon
  <2>2. l.loc \in 0..MaxSemantics + 2 * Width /\ l.mode \in {1, 2} BY LoadKinds, Zenon
  <2>3. /\ r.clip \in Nat /\ r.prefix \in Nat /\ MaxSemantics \in Nat
        /\ Width \in Nat \ {0} BY LinkingAssumption DEF Shader
  <2> DEFINE c == ProducerComponent(r, l)
  <2>4. c \in 0..MaxSemantics + 2 * Width + r.prefix
    BY <2>2, <2>3 DEF ProducerComponent
  <2> HIDE DEF c
  <2>7. c \in Nat BY <2>3, <2>4
  <2>5. c \div Width \in 0..c BY <2>3, <2>7, DivNat, Zenon
  <2>6. c \div Width \in 0..MaxSemantics + 2 * Width + r.prefix BY <2>3, <2>4, <2>5
  <2>8. CASE l.kind = "var"
    <3>1. a = <<"var", l.loc, l.mode>> BY <2>1, <2>8, Zenon DEF AttributeOf
    <3> QED BY <2>2, <2>3, <3>1
  <2>9. CASE l.kind = "dist"
    <3>1. a = <<"dist", c \div Width, 2>> BY <2>1, <2>9, Zenon DEF AttributeOf, Smooth, c
    <3> QED BY <2>6, <3>1, Zenon
  <2>10. CASE l.kind \notin {"var", "dist"}
    <3>1. a = <<"prim", 0, 1>> BY <2>1, <2>10, Zenon DEF AttributeOf, Flat
    <3> QED BY <2>3, <3>1
  <2> QED BY <2>8, <2>9, <2>10, Zenon
<1>3. ASSUME NEW a \in T PROVE f[a] \in 0..top
  <2> DEFINE m == MaxSemantics + 2 * Width + r.prefix
  <2>1. m \in Nat BY LinkingAssumption DEF Shader
  <2>2. a[2] \in 0..m /\ a[3] \in {1, 2} BY <1>2, Zenon
  <2>3. tag(a) \in {0, 1, 2} BY Zenon
  <2>4. f[a] = 6 * a[2] + 2 * tag(a) + a[3] - 1 /\ top = 6 * m + 6 BY Zenon
  <2> HIDE DEF f, tag, m, top
  <2>5. 6 * a[2] + 2 * tag(a) + a[3] - 1 \in 0..6 * m + 6 BY <2>1, <2>2, <2>3
  <2> QED BY <2>4, <2>5, Zenon
<1>4. ASSUME NEW a \in T, NEW b \in T, f[a] = f[b] PROVE a = b
  <2>1. code(a) = code(b) BY <1>4, Zenon
  <2>2. a[2] \in Int /\ b[2] \in Int /\ a[3] \in {1, 2} /\ b[3] \in {1, 2}
        /\ tag(a) \in {0, 1, 2} /\ tag(b) \in {0, 1, 2}
    BY <1>2, LinkingAssumption DEF Shader
  <2>3. a[2] = b[2] /\ a[3] = b[3] /\ tag(a) = tag(b)
    <3> DEFINE x == a[2]  y == b[2]  u == a[3]  v == b[3]  s == tag(a)  t == tag(b)
    <3>1. 6 * x + 2 * s + u - 1 = 6 * y + 2 * t + v - 1 BY <2>1, Zenon
    <3>2. /\ x \in Int /\ y \in Int /\ s \in {0, 1, 2} /\ t \in {0, 1, 2}
          /\ u \in {1, 2} /\ v \in {1, 2} BY <2>2, Zenon
    <3> HIDE DEF x, y, u, v, s, t
    <3>3. x = y /\ u = v /\ s = t BY <3>1, <3>2, MixedRadix
    <3> QED BY <3>3, Zenon DEF x, y, u, v, s, t
  <2>4. a[1] = b[1] BY <1>2, <2>3
  <2> QED BY <1>2, <2>3, <2>4, Zenon
<1>5. f \in Injection(T, 0..top)
  <2> HIDE DEF f
  <2>1. f = [a \in T |-> f[a]] BY Zenon DEF f
  <2> QED BY <1>3, <1>4, <2>1, Zenon DEF Injection, IsInjective
<1>6. IsFiniteSet(0..top) BY <1>1, FS_Interval
<1> QED BY <1>5, <1>6, FS_Injection, Zenon

(* The numbering uses no more of them than it needs.                       *)
LEMMA EnoughAttributes ==
  ASSUME NEW r, Linked(r)
  PROVE  FinalCount(r) <= MaxSemantics
<1> DEFINE n == FinalCount(r)
           T == {AttributeOf(r, l) : l \in r.loads}
           user(k) == CHOOSE l \in r.loads : FinalBase(r)[l] = k
           f == [k \in 0..n - 1 |-> AttributeOf(r, user(k))]
<1>0. Shader(r) /\ Linkable(r) BY LinkedFacts, Zenon
<1>1. n \in Nat BY <1>0, CountsNat, Zenon
<1>2. IsFiniteSet(T) /\ Cardinality(T) <= MaxSemantics
  BY <1>0, AttributesFinite, Zenon DEF Linkable
<1>3. \A k \in 0..n - 1 : user(k) \in r.loads /\ FinalBase(r)[user(k)] = k BY EveryNumber, Zenon
<1>4. f \in [0..n - 1 -> T] BY <1>3, Zenon
<1>5. ASSUME NEW j \in 0..n - 1, NEW k \in 0..n - 1, f[j] = f[k] PROVE j = k
  <2>1. AttributeOf(r, user(j)) = AttributeOf(r, user(k)) BY <1>5, Zenon
  <2> HIDE DEF user
  <2>2. FinalBase(r)[user(j)] = FinalBase(r)[user(k)] BY <1>3, <2>1, SameAttribute, Zenon
  <2> QED BY <1>3, <2>2, Zenon
<1> HIDE DEF f
<1>6. f \in Injection(0..n - 1, T) BY <1>4, <1>5, Zenon DEF Injection, IsInjective
<1>7. Cardinality(0..n - 1) <= Cardinality(T) BY <1>2, <1>6, FS_Injection, Zenon
<1>8. Cardinality(0..n - 1) = n BY <1>1, FS_Interval
<1>9. Cardinality(T) \in Nat BY <1>2, FS_CardinalityType, Zenon
<1>10. MaxSemantics \in Nat BY LinkingNat, Zenon
<1>11. n <= MaxSemantics
  <2> HIDE DEF n, T
  <2> QED BY <1>1, <1>2, <1>7, <1>8, <1>9, <1>10
<1> QED BY <1>11, Zenon

(* So the input semantics of a linkable shader are valid.                  *)
LEMMA LinkableValid ==
  ASSUME NEW r, Linked(r)
  PROVE  Semantics(r).valid
<1> DEFINE n == FinalCount(r)
           seen == Seen(Words(r), n)
<1>2. Shader(r) /\ Linkable(r) /\ Accepted(r) /\ Pixel(r) BY LinkedFacts, Zenon
<1>1. n \in Nat /\ n <= MaxSemantics BY <1>2, CountsNat, EnoughAttributes, Zenon
<1>3. \A l \in r.loads : l.slots = 1 /\ l.kind # "viewport" BY <1>2, Zenon DEF Linkable
<1>4. ASSUME NEW w \in Words(r)
      PROVE  \E l \in r.loads : /\ w.attribute = FinalBase(r)[l]
                                  /\ w.word = InputWord(r, l, LinkedAt(r), 0)
  <2>1. PICK l \in r.loads : \E i \in 0..l.slots - 1 :
            w = [attribute |-> FinalBase(r)[l] + i, word |-> InputWord(r, l, LinkedAt(r), i)]
    BY LoadOfWord, Zenon
  <2>2. w = [attribute |-> FinalBase(r)[l] + 0, word |-> InputWord(r, l, LinkedAt(r), 0)]
    BY <1>3, <2>1
  <2> QED BY <1>2, <2>2, BasesNat
<1>5. ASSUME NEW l \in r.loads
      PROVE  /\ FinalBase(r)[l] \in 0..n - 1
             /\ \E w \in Words(r) : w.attribute = FinalBase(r)[l]
  <2>1. 0 \in 0..l.slots - 1 /\ l.kind # "viewport" BY <1>3
  <2>2. [attribute |-> FinalBase(r)[l] + 0, word |-> InputWord(r, l, LinkedAt(r), 0)]
            \in Words(r) BY <2>1, WordOfLoad, Zenon
  <2>3. FinalBase(r)[l] \in 0..n - 1 BY NumberRange, Zenon
  <2> QED BY <1>1, <2>2, <2>3
<1>6. \A w \in Words(r) : w.attribute < n BY <1>1, <1>4, <1>5
<1>7. NoConflict(Words(r))
  <2> SUFFICES ASSUME NEW u \in Words(r), NEW v \in Words(r), u.attribute = v.attribute
               PROVE  u.word = v.word
    BY Zenon DEF NoConflict
  <2>1. PICK k \in r.loads : /\ u.attribute = FinalBase(r)[k]
                               /\ u.word = InputWord(r, k, LinkedAt(r), 0) BY <1>4, Zenon
  <2>2. PICK l \in r.loads : /\ v.attribute = FinalBase(r)[l]
                               /\ v.word = InputWord(r, l, LinkedAt(r), 0) BY <1>4, Zenon
  <2> QED BY <2>1, <2>2, SameNumber, Zenon
<1>8. Cardinality(seen) = n
  <2>1. \A k \in 0..n - 1 : \E w \in Words(r) : w.attribute = k
    <3> SUFFICES ASSUME NEW k \in 0..n - 1 PROVE \E w \in Words(r) : w.attribute = k BY Zenon
    <3>1. PICK l \in r.loads : FinalBase(r)[l] = k BY EveryNumber, Zenon
    <3> QED BY <1>5, <3>1, Zenon
  <2>2. seen \subseteq 0..n - 1 BY <1>1, LinkingAssumption DEF Seen
  <2>3. ASSUME NEW k \in 0..n - 1 PROVE k \in seen
    <3>1. k \in 0..MaxSemantics - 1 /\ k < n BY <1>1, LinkingAssumption
    <3>2. \A a \in 0..k : a \in 0..n - 1 BY <1>1
    <3> QED BY <2>1, <3>1, <3>2, Zenon DEF Seen
  <2>4. seen = 0..n - 1 BY <2>2, <2>3, Zenon
  <2> QED BY <1>1, <2>4, FS_Interval
<1> DEFINE list == [k \in 1..Cardinality(seen) |->
                       (CHOOSE w \in Words(r) : w.attribute = k - 1).word]
<1>9. build_input_semantics(r, LinkedAt(r), FinalBase(r), n) =
          [valid |-> Cardinality(seen) = n, words |-> list]
  BY <1>1, <1>2, <1>6, <1>7, Zenon DEF build_input_semantics, Accepted, Linkable, Words
<1> HIDE DEF seen, list
<1>10. Semantics(r) = [valid |-> TRUE, words |-> list] BY <1>2, <1>8, <1>9, Zenon DEF Semantics
<1> QED BY <1>10

-----------------------------------------------------------------------------
(* The exports of a producer.                                              *)
Producer(p) == p.vars \subseteq 0..MaxSemantics - 1 /\ p.dists \subseteq 0..2 * Width - 1

(* A list of slots without repetition.                                     *)
Listing(s) == s \in Seq(Int) /\ \A i, j \in 1..Len(s) : s[i] = s[j] => i = j

(* There are two distance registers at most.                               *)
LEMMA Pair == IsFiniteSet({0, 1})
<1>1. IsFiniteSet({0}) BY FS_Singleton, Zenon
<1>2. IsFiniteSet({0} \cup {1}) BY <1>1, FS_AddElement, Zenon
<1>3. {0} \cup {1} = {0, 1} BY Zenon
<1> QED BY <1>2, <1>3, Zenon

(* An empty list ...                                                       *)
LEMMA NoListing == Listing(<<>>) /\ Range(<<>>) = {}
  BY DEF Listing, Range

(* ... a list of one slot ...                                              *)
LEMMA OneListing == ASSUME NEW x \in Int PROVE Listing(<<x>>) /\ Range(<<x>>) = {x}
<1>1. Len(<<x>>) = 1 /\ <<x>>[1] = x /\ <<x>> \in Seq(Int) /\ DOMAIN <<x>> = 1..1 OBVIOUS
<1> QED BY <1>1 DEF Listing, Range

(* ... and two lists without a slot in common list their slots once.       *)
LEMMA JoinedListing ==
  ASSUME NEW s, NEW t, Listing(s), Listing(t), Range(s) \cap Range(t) = {}
  PROVE  Listing(s \o t) /\ Range(s \o t) = Range(s) \cup Range(t)
<1> DEFINE m == Len(s)
           n == Len(t)
           u == s \o t
<1>1. s \in Seq(Int) /\ t \in Seq(Int) /\ m \in Nat /\ n \in Nat BY DEF Listing
<1>2. /\ u \in Seq(Int) /\ Len(u) = m + n
      /\ \A i \in 1..m : u[i] = s[i]
      /\ \A i \in 1..n : u[m + i] = t[i]
  BY <1>1
<1>3. /\ DOMAIN s = 1..m /\ DOMAIN t = 1..n /\ DOMAIN u = 1..m + n BY <1>1, <1>2
<1>4. /\ \A i \in 1..m : u[i] \in Range(s)
      /\ \A i \in 1..n : u[m + i] \in Range(t)
  BY <1>2, <1>3, Zenon DEF Range
<1>5. \A i \in 1..m + n : i \in 1..m \/ \E k \in 1..n : i = m + k
  <2> SUFFICES ASSUME NEW i \in 1..m + n, i \notin 1..m PROVE \E k \in 1..n : i = m + k
    BY Zenon
  <2>1. i - m \in 1..n /\ i = m + (i - m) BY <1>1
  <2> QED BY <2>1, Zenon
<1> HIDE DEF m, n, u
<1>6. ASSUME NEW i \in 1..m + n, NEW j \in 1..m + n, u[i] = u[j] PROVE i = j
  <2>1. CASE i \in 1..m /\ j \in 1..m BY <1>2, <1>6, <2>1, Zenon DEF Listing, m
  <2>2. CASE \E k \in 1..n : i = m + k
    <3>1. PICK k \in 1..n : i = m + k BY <2>2, Zenon
    <3>2. u[j] \in Range(t) BY <1>4, <1>6, <3>1, Zenon
    <3>3. j \notin 1..m BY <1>4, <3>2, Zenon
    <3>4. PICK k2 \in 1..n : j = m + k2 BY <1>5, <3>3, Zenon
    <3>5. t[k] = t[k2] BY <1>2, <1>6, <3>1, <3>4, Zenon
    <3> QED BY <3>1, <3>4, <3>5, Zenon DEF Listing, n
  <2>3. CASE i \in 1..m /\ j \notin 1..m
    <3>1. PICK k \in 1..n : j = m + k BY <1>5, <2>3, Zenon
    <3> QED BY <1>4, <1>6, <2>3, <3>1, Zenon
  <2> QED BY <1>5, <2>1, <2>2, <2>3, Zenon
<1>7. Range(u) \subseteq Range(s) \cup Range(t) BY <1>3, <1>4, <1>5 DEF Range
<1>8. ASSUME NEW i \in 1..m PROVE s[i] \in Range(u)
  <2>1. i \in 1..m + n BY <1>1
  <2> QED BY <1>2, <1>3, <2>1, Zenon DEF Range
<1>9. ASSUME NEW i \in 1..n PROVE t[i] \in Range(u)
  <2>1. m + i \in 1..m + n BY <1>1
  <2> QED BY <1>2, <1>3, <2>1, Zenon DEF Range
<1>10. Range(s) \cup Range(t) \subseteq Range(u) BY <1>3, <1>8, <1>9, Zenon DEF Range
<1> QED BY <1>2, <1>6, <1>7, <1>10, Zenon DEF Listing, u

(* Listing a set in order leaves none out.                                 *)
LEMMA OrderedListing ==
  ASSUME NEW S \in SUBSET Int, IsFiniteSet(S)
  PROVE  /\ Listing(InOrder(S)) /\ Range(InOrder(S)) = S
         /\ Len(InOrder(S)) = Cardinality(S)
<1> DEFINE n == Cardinality(S)
           pick(k) == CHOOSE s \in S : Below(S, s) = k - 1
<1>1. n \in Nat BY FS_CardinalityType, Zenon
<1>2. ASSUME NEW k \in 1..n PROVE pick(k) \in S /\ Below(S, pick(k)) = k - 1
  <2>1. k - 1 \in 0..n - 1 BY <1>1
  <2>2. \E s \in S : Below(S, s) = k - 1 BY <2>1, RankOnto, Zenon
  <2> QED BY <2>2, Zenon
<1>3. /\ InOrder(S) \in Seq(Int) /\ Len(InOrder(S)) = n /\ DOMAIN InOrder(S) = 1..n
      /\ \A k \in 1..n : InOrder(S)[k] = pick(k)
  <2>1. InOrder(S) = [k \in 1..n |-> pick(k)] BY Zenon DEF InOrder
  <2>2. \A k \in 1..n : pick(k) \in Int BY <1>2, Zenon
  <2> HIDE DEF pick, n
  <2> QED BY <1>1, <2>1, <2>2
<1> HIDE DEF pick, n
<1>4. ASSUME NEW i \in 1..n, NEW j \in 1..n, InOrder(S)[i] = InOrder(S)[j] PROVE i = j
  <2>1. i - 1 = j - 1 BY <1>2, <1>3, <1>4, Zenon
  <2> QED BY <1>1, <2>1
<1>5. ASSUME NEW s \in S PROVE s \in Range(InOrder(S))
  <2> DEFINE b == Below(S, s)
  <2>1. b \in 0..n - 1 BY RankBound, Zenon DEF n
  <2>2. b + 1 \in 1..n /\ (b + 1) - 1 = b BY <1>1, <2>1
  <2>3. pick(b + 1) \in S /\ Below(S, pick(b + 1)) = b BY <1>2, <2>2, Zenon
  <2>4. pick(b + 1) = s
    <3> DEFINE x == pick(b + 1)
    <3>1. x \in S /\ Below(S, x) = Below(S, s) BY <2>3, Zenon
    <3> HIDE DEF x
    <3>2. x = s BY <3>1, RankDistinct, Zenon
    <3> QED BY <3>2, Zenon DEF x
  <2> QED BY <1>3, <2>2, <2>4, Zenon DEF Range
<1>6. Range(InOrder(S)) \subseteq S BY <1>2, <1>3, Zenon DEF Range
<1> QED BY <1>3, <1>4, <1>5, <1>6, Zenon DEF Listing, n
(* A listing has as many entries as slots.                                 *)
LEMMA ListingSize ==
  ASSUME NEW s, Listing(s)
  PROVE  IsFiniteSet(Range(s)) /\ Cardinality(Range(s)) = Len(s) /\ Len(s) \in Nat
<1> DEFINE n == Len(s)
<1>1. n \in Nat /\ DOMAIN s = 1..n /\ s \in [1..n -> Range(s)] BY DEF Listing, Range
<1>2. IsFiniteSet(1..n) /\ Cardinality(1..n) = n
  <2> HIDE DEF n
  <2> QED BY <1>1, Counted, Zenon
<1>3. s \in Bijection(1..n, Range(s))
  <2>1. s \in Injection(1..n, Range(s)) BY <1>1, Zenon DEF Listing, Injection, IsInjective
  <2>2. s \in Surjection(1..n, Range(s)) BY <1>1, Zenon DEF Surjection, Range
  <2> QED BY <2>1, <2>2, Zenon DEF Bijection
<1>4. IsFiniteSet(Range(s)) /\ Cardinality(Range(s)) = Cardinality(1..n)
  <2> DEFINE A == 1..n
             B == Range(s)
  <2>1. IsFiniteSet(A) /\ s \in Bijection(A, B) BY <1>2, <1>3, Zenon
  <2> HIDE DEF A, B
  <2>2. ExistsBijection(A, B) BY <2>1, Zenon DEF ExistsBijection
  <2>3. IsFiniteSet(B) /\ Cardinality(B) = Cardinality(A) BY <2>1, <2>2, FS_Bijection, Zenon
  <2> QED BY <2>3, Zenon DEF A, B
<1> QED BY <1>1, <1>2, <1>4, Zenon

(* What a producer exports: what it writes, the distances and perhaps a    *)
(* primitive id, none of them twice.                                       *)
LEMMA ProducerSlots ==
  ASSUME NEW p, Producer(p)
  PROVE  /\ DistanceRegisters(p) \subseteq {0, 1} /\ IsFiniteSet(DistanceRegisters(p))
         /\ {DistanceSlot(r) : r \in DistanceRegisters(p)} = DistanceRegisters(p)
         /\ WrittenParams(p) \subseteq 2..MaxSemantics + 4 /\ IsFiniteSet(WrittenParams(p))
         /\ PrimitiveIdSlot \in WrittenParams(p) => p.primWritten
<1>1. ASSUME NEW c \in p.dists PROVE c \div Width \in {0, 1}
  <2>1. c \in Nat /\ c < 2 * Width /\ Width \in Nat \ {0} BY LinkingAssumption DEF Producer
  <2> QED BY <2>1, DivSmall, Zenon
<1>2. DistanceRegisters(p) \subseteq {0, 1} BY <1>1, Zenon DEF DistanceRegisters
<1>3. IsFiniteSet(DistanceRegisters(p)) BY <1>2, FS_Subset, Pair, Zenon
<1>4. {DistanceSlot(r) : r \in DistanceRegisters(p)} = DistanceRegisters(p)
  BY Zenon DEF DistanceSlot
<1>5. /\ WrittenParams(p) \subseteq 2..MaxSemantics + 4
      /\ PrimitiveIdSlot \in WrittenParams(p) => p.primWritten
  <2>1. \A v \in p.vars : VarSlot(v) \in 5..MaxSemantics + 4 BY LinkingAssumption DEF Producer, VarSlot
  <2> QED BY <2>1, LinkingAssumption DEF WrittenParams, PrimitiveIdSlot, LayerSlot, ViewportSlot
<1>6. IsFiniteSet(2..MaxSemantics + 4) BY LinkingAssumption, FS_Interval
<1>7. IsFiniteSet(WrittenParams(p)) BY <1>5, <1>6, FS_Subset, Zenon
<1> QED BY <1>2, <1>3, <1>4, <1>5, <1>7, Zenon

(* The parameters of a producer are listed once each, all that it writes   *)
(* among them.                                                             *)
LEMMA ExportsListed ==
  ASSUME NEW p, Producer(p)
  PROVE  /\ Listing(Exports(p))
         /\ WrittenParams(p) \cup DistanceRegisters(p) \subseteq Range(Exports(p))
         /\ Range(Exports(p)) \subseteq WrittenParams(p) \cup {PrimitiveIdSlot} \cup DistanceRegisters(p)
<1> DEFINE W == WrittenParams(p)
           D == DistanceRegisters(p)
           I == IF ImplicitPerVertex(p) /\ ~p.primWritten THEN <<PrimitiveIdSlot>> ELSE <<>>
           e == InOrder(W) \o I \o InOrder(D)
           P == IF ImplicitPerPrimitive(p) /\ ~p.primWritten THEN <<PrimitiveIdSlot>> ELSE <<>>
<1>1. /\ W \subseteq 2..MaxSemantics + 4 /\ IsFiniteSet(W) /\ D \subseteq {0, 1} /\ IsFiniteSet(D)
      /\ PrimitiveIdSlot \in W => p.primWritten
  BY ProducerSlots, Zenon
<1>2. radv_set_vs_output_param(p) = [vertex |-> e, primitive |-> P]
  BY ProducerSlots, Zenon DEF radv_set_vs_output_param
<1>3. W \in SUBSET Int /\ D \in SUBSET Int /\ W \cap D = {} /\ PrimitiveIdSlot \notin D
      /\ PrimitiveIdSlot \in Int
  BY <1>1, LinkingAssumption DEF PrimitiveIdSlot
<1>4. /\ Listing(InOrder(W)) /\ Range(InOrder(W)) = W
      /\ Listing(InOrder(D)) /\ Range(InOrder(D)) = D
  BY <1>1, <1>3, OrderedListing, Zenon
<1>5. Listing(I) /\ Range(I) \subseteq {PrimitiveIdSlot} /\ Range(I) \cap W = {}
      /\ (ImplicitPerPrimitive(p) => Range(I) = {})
  BY <1>1, <1>3, NoListing, OneListing, Zenon DEF ImplicitPerVertex
<1> DEFINE f == InOrder(W) \o I
<1>6. Listing(f) /\ Range(f) = W \cup Range(I)
  BY <1>4, <1>5, JoinedListing
<1>7. Range(f) \cap Range(InOrder(D)) = {} BY <1>3, <1>4, <1>5, <1>6
<1>8. Listing(e) /\ Range(e) = W \cup Range(I) \cup D
  <2> HIDE DEF f
  <2>1. Listing(f \o InOrder(D)) /\ Range(f \o InOrder(D)) = Range(f) \cup D
    BY <1>4, <1>6, <1>7, JoinedListing
  <2> QED BY <1>6, <2>1, Zenon DEF f
<1>9. Listing(P) /\ Range(P) \subseteq {PrimitiveIdSlot} /\ Range(P) \cap Range(e) = {}
  <2>1. CASE P = <<>> BY <2>1, NoListing, Zenon
  <2>2. CASE P # <<>>
    <3>1. P = <<PrimitiveIdSlot>> /\ ImplicitPerPrimitive(p) /\ ~p.primWritten BY <2>2, Zenon
    <3>2. PrimitiveIdSlot \notin Range(e) BY <1>1, <1>3, <1>5, <1>8, <3>1, Zenon
    <3> QED BY <1>3, <3>1, <3>2, OneListing, Zenon
  <2> QED BY <2>1, <2>2, Zenon
<1> HIDE DEF e, P
<1>10. Listing(e \o P) /\ Range(e \o P) = Range(e) \cup Range(P) BY <1>8, <1>9, JoinedListing
<1>11. Exports(p) = e \o <<>> \/ Exports(p) = (e \o P) \o <<>>
  <2> DEFINE x == radv_set_vs_output_param(p)
  <2>1. x.vertex = e /\ x.primitive = P BY <1>2
  <2>2. LinkedExports(p) \in {[vertex |-> e, primitive |-> <<>>], [vertex |-> e \o P, primitive |-> <<>>]}
    <3>1. CASE P = <<>> BY <1>2, <3>1 DEF LinkedExports
    <3>2. CASE P # <<>> /\ p.omit BY <1>2, <3>2 DEF LinkedExports
    <3>3. CASE P # <<>> /\ ~p.omit BY <1>2, <3>3 DEF LinkedExports
    <3> QED BY <3>1, <3>2, <3>3, Zenon
  <2>3. /\ LinkedExports(p).vertex = e \/ LinkedExports(p).vertex = e \o P
        /\ LinkedExports(p).primitive = <<>>
    BY <2>2
  <2> QED BY <2>3, Zenon DEF Exports
<1>12. /\ Listing(e \o <<>>) /\ Range(e \o <<>>) = Range(e)
       /\ Listing((e \o P) \o <<>>) /\ Range((e \o P) \o <<>>) = Range(e \o P)
  BY <1>8, <1>10, NoListing, JoinedListing
<1> QED BY <1>5, <1>8, <1>9, <1>10, <1>11, <1>12, Zenon

-----------------------------------------------------------------------------
(* The parameter of an exported slot is where the slot is listed.          *)
LEMMA ParameterOf ==
  ASSUME NEW p, Producer(p), NEW x
  PROVE  /\ vs_output_param_offset(p, x) \in Nat
         /\ x \in Range(Exports(p)) =>
                /\ vs_output_param_offset(p, x) + 1 \in 1..Len(Exports(p))
                /\ Exports(p)[vs_output_param_offset(p, x) + 1] = x
         /\ x \notin Range(Exports(p)) => vs_output_param_offset(p, x) = 255
<1> DEFINE E == Exports(p)
           k == CHOOSE i \in 1..Len(E) : E[i] = x
<1>1. Listing(E) BY ExportsListed, Zenon
<1>2. Len(E) \in Nat /\ DOMAIN E = 1..Len(E) BY <1>1 DEF Listing
<1>3. CASE x \in Range(E)
  <2>1. \E i \in 1..Len(E) : E[i] = x BY <1>2, <1>3, Zenon DEF Range
  <2>2. k \in 1..Len(E) /\ E[k] = x BY <2>1, Zenon
  <2>3. vs_output_param_offset(p, x) = k - 1 BY <1>3, Zenon DEF vs_output_param_offset
  <2> HIDE DEF k, E
  <2>4. (k - 1) + 1 = k /\ k - 1 \in Nat BY <1>2, <2>2
  <2> QED BY <1>3, <2>2, <2>3, <2>4, Zenon DEF E
<1>4. CASE x \notin Range(E)
  BY <1>4 DEF vs_output_param_offset
<1> QED BY <1>3, <1>4, Zenon

(* Words for exactly the slots of S, one each, with the parameters of the  *)
(* slots they name.                                                        *)
Word == [kind : {"var", "prim", "viewport", "dist"}, loc : Nat, parameter : Nat]

Naming(p, s, S) ==
    /\ s \in Seq(Word)
    /\ \A k \in 1..Len(s) : /\ WordSlot(s[k]) \in S
                            /\ s[k].parameter = vs_output_param_offset(p, WordSlot(s[k]))
    /\ \A i, j \in 1..Len(s) : WordSlot(s[i]) = WordSlot(s[j]) => i = j
    /\ \A x \in S : \E k \in 1..Len(s) : WordSlot(s[k]) = x

(* No words name no slots ...                                              *)
LEMMA NoNaming == ASSUME NEW p PROVE Naming(p, <<>>, {})
  BY DEF Naming

(* ... a word names its slot ...                                           *)
LEMMA OneNaming ==
  ASSUME NEW p, Producer(p), NEW kind \in {"var", "prim", "viewport", "dist"}, NEW loc \in Nat, NEW x,
         WordSlot(OutputWord(p, kind, loc, x)) = x
  PROVE  Naming(p, <<OutputWord(p, kind, loc, x)>>, {x})
<1> DEFINE w == OutputWord(p, kind, loc, x)
<1>1. w \in Word /\ w.parameter = vs_output_param_offset(p, x) BY ParameterOf DEF OutputWord, Word
<1> HIDE DEF w
<1>2. <<w>> \in Seq(Word) /\ Len(<<w>>) = 1 /\ <<w>>[1] = w BY <1>1
<1> QED BY <1>1, <1>2 DEF Naming, w

(* ... and two lists of words for different slots name the slots of both.  *)
LEMMA JoinedNaming ==
  ASSUME NEW p, NEW s, NEW t, NEW S, NEW T, Naming(p, s, S), Naming(p, t, T), S \cap T = {}
  PROVE  Naming(p, s \o t, S \cup T)
<1> DEFINE m == Len(s)
           n == Len(t)
           u == s \o t
<1>1. s \in Seq(Word) /\ t \in Seq(Word) /\ m \in Nat /\ n \in Nat BY DEF Naming
<1>2. /\ u \in Seq(Word) /\ Len(u) = m + n
      /\ \A i \in 1..m : u[i] = s[i]
      /\ \A i \in 1..n : u[m + i] = t[i]
  BY <1>1
<1>3. \A i \in 1..m + n : i \in 1..m \/ \E k \in 1..n : i = m + k
  <2> SUFFICES ASSUME NEW i \in 1..m + n, i \notin 1..m PROVE \E k \in 1..n : i = m + k
    BY Zenon
  <2>1. i - m \in 1..n /\ i = m + (i - m) BY <1>1
  <2> QED BY <2>1, Zenon
<1>4. /\ \A k \in 1..m : /\ WordSlot(s[k]) \in S
                         /\ s[k].parameter = vs_output_param_offset(p, WordSlot(s[k]))
      /\ \A k \in 1..n : /\ WordSlot(t[k]) \in T
                         /\ t[k].parameter = vs_output_param_offset(p, WordSlot(t[k]))
  BY Zenon DEF Naming
<1>5. /\ \A i, j \in 1..m : WordSlot(s[i]) = WordSlot(s[j]) => i = j
      /\ \A i, j \in 1..n : WordSlot(t[i]) = WordSlot(t[j]) => i = j
  BY Zenon DEF Naming
<1>6. /\ \A x \in S : \E k \in 1..m : WordSlot(s[k]) = x
      /\ \A x \in T : \E k \in 1..n : WordSlot(t[k]) = x
  BY Zenon DEF Naming
<1> HIDE DEF m, n, u
<1>7. ASSUME NEW k \in 1..m + n
      PROVE  /\ WordSlot(u[k]) \in S \cup T
             /\ u[k].parameter = vs_output_param_offset(p, WordSlot(u[k]))
  <2>1. CASE k \in 1..m BY <1>2, <1>4, <2>1, Zenon
  <2>2. CASE k \notin 1..m
    <3>1. PICK i \in 1..n : k = m + i BY <1>3, <2>2, Zenon
    <3> QED BY <1>2, <1>4, <3>1, Zenon
  <2> QED BY <2>1, <2>2, Zenon
<1>8. ASSUME NEW i \in 1..m + n, NEW j \in 1..m + n, WordSlot(u[i]) = WordSlot(u[j]) PROVE i = j
  <2>1. CASE i \in 1..m /\ j \in 1..m BY <1>2, <1>5, <1>8, <2>1, Zenon
  <2>2. CASE i \in 1..m /\ j \notin 1..m
    <3>1. PICK k \in 1..n : j = m + k BY <1>3, <2>2, Zenon
    <3> QED BY <1>2, <1>4, <1>8, <2>2, <3>1, Zenon
  <2>3. CASE i \notin 1..m /\ j \in 1..m
    <3>1. PICK k \in 1..n : i = m + k BY <1>3, <2>3, Zenon
    <3> QED BY <1>2, <1>4, <1>8, <2>3, <3>1
  <2>4. CASE i \notin 1..m /\ j \notin 1..m
    <3>1. PICK k \in 1..n : i = m + k BY <1>3, <2>4, Zenon
    <3>2. PICK q \in 1..n : j = m + q BY <1>3, <2>4, Zenon
    <3>3. k = q BY <1>2, <1>5, <1>8, <3>1, <3>2
    <3> QED BY <3>1, <3>2, <3>3, Zenon
  <2> QED BY <2>1, <2>2, <2>3, <2>4
<1>9. ASSUME NEW x \in S \cup T PROVE \E k \in 1..m + n : WordSlot(u[k]) = x
  <2>1. CASE x \in S
    <3>1. PICK k \in 1..m : WordSlot(s[k]) = x BY <1>6, <2>1, Zenon
    <3>2. k \in 1..m + n BY <1>1
    <3> QED BY <1>2, <3>1, <3>2, Zenon
  <2>2. CASE x \in T
    <3>1. PICK k \in 1..n : WordSlot(t[k]) = x BY <1>6, <2>2, Zenon
    <3>2. m + k \in 1..m + n BY <1>1
    <3> QED BY <1>2, <3>1, <3>2, Zenon
  <2> QED BY <2>1, <2>2, Zenon
<1> QED BY <1>2, <1>7, <1>8, <1>9, Zenon DEF Naming, u

(* The slots the three lists name.                                         *)
ListedVars(p) == {v \in 0..MaxSemantics - 1 : ListedAt(p, VarSlot(v))}
VarNames(p)      == {VarSlot(v) : v \in ListedVars(p)}
BuiltinNames(p)  == {x \in {PrimitiveIdSlot, ViewportSlot} : ListedAt(p, x)}
Registers(p)     == (Cardinality(p.dists) + Width - 1) \div Width
DistanceNames(p) == 0..Registers(p) - 1
NamedSlots(p)    == VarNames(p) \cup BuiltinNames(p) \cup DistanceNames(p)

Wanted(p) == VarWords(p) \o BuiltinWords(p) \o DistanceWords(p)

(* The words for varyings ...                                              *)
LEMMA VarNaming ==
  ASSUME NEW p, Producer(p)
  PROVE  Naming(p, VarWords(p), VarNames(p))
<1> DEFINE L == ListedVars(p)
           vs == InOrder(L)
           s == VarWords(p)
           n == Len(vs)
<1>1. L \in SUBSET (0..MaxSemantics - 1) BY Zenon DEF ListedVars
<1>2. IsFiniteSet(0..MaxSemantics - 1) BY LinkingAssumption, FS_Interval
<1>3. IsFiniteSet(L) BY <1>1, <1>2, FS_Subset, Zenon
<1>13. L \in SUBSET Int BY <1>1
<1>4. Listing(vs) /\ Range(vs) = L BY <1>3, <1>13, OrderedListing, Zenon
<1>5. n \in Nat /\ DOMAIN vs = 1..n BY <1>4 DEF Listing
<1>6. \A k \in 1..n : vs[k] \in L /\ vs[k] \in Nat BY <1>1, <1>4, <1>5 DEF Range
<1>7. s = [k \in 1..n |-> OutputWord(p, "var", vs[k], VarSlot(vs[k]))]
  BY Zenon DEF VarWords, ListedVars
<1> HIDE DEF s, n, vs, L
<1>8. ASSUME NEW k \in 1..n
      PROVE  /\ s[k] \in Word /\ WordSlot(s[k]) = VarSlot(vs[k])
             /\ s[k].parameter = vs_output_param_offset(p, VarSlot(vs[k]))
  <2>1. s[k] = [kind |-> "var", loc |-> vs[k], parameter |-> vs_output_param_offset(p, VarSlot(vs[k]))]
    BY <1>7, Zenon DEF OutputWord
  <2>2. vs_output_param_offset(p, VarSlot(vs[k])) \in Nat BY ParameterOf
  <2> QED BY <1>6, <2>1, <2>2 DEF Word, WordSlot
<1>9. s \in Seq(Word) /\ Len(s) = n BY <1>5, <1>7, <1>8
<1>10. ASSUME NEW i \in 1..n, NEW j \in 1..n, WordSlot(s[i]) = WordSlot(s[j]) PROVE i = j
  <2>1. vs[i] = vs[j] BY <1>6, <1>8, <1>10 DEF VarSlot
  <2> QED BY <1>4, <2>1, Zenon DEF Listing, n
<1>11. ASSUME NEW x \in VarNames(p) PROVE \E k \in 1..n : WordSlot(s[k]) = x
  <2>1. PICK v \in L : x = VarSlot(v) BY Zenon DEF VarNames, L
  <2>2. PICK k \in 1..n : vs[k] = v BY <1>4, <1>5, Zenon DEF Range
  <2> QED BY <1>8, <2>1, <2>2, Zenon
<1>12. \A k \in 1..n : WordSlot(s[k]) \in VarNames(p) BY <1>6, <1>8, Zenon DEF VarNames, L
<1> QED BY <1>8, <1>9, <1>10, <1>11, <1>12, Zenon DEF Naming, s

(* ... for the primitive id and the viewport ...                           *)
LEMMA BuiltinNaming ==
  ASSUME NEW p, Producer(p)
  PROVE  Naming(p, BuiltinWords(p), BuiltinNames(p))
<1> DEFINE a == ListedAt(p, PrimitiveIdSlot)
           b == ListedAt(p, ViewportSlot)
           u == IF a THEN <<OutputWord(p, "prim", 0, PrimitiveIdSlot)>> ELSE <<>>
           v == IF b THEN <<OutputWord(p, "viewport", 0, ViewportSlot)>> ELSE <<>>
           U == IF a THEN {PrimitiveIdSlot} ELSE {}
           V == IF b THEN {ViewportSlot} ELSE {}
<1>1. /\ WordSlot(OutputWord(p, "prim", 0, PrimitiveIdSlot)) = PrimitiveIdSlot
      /\ WordSlot(OutputWord(p, "viewport", 0, ViewportSlot)) = ViewportSlot
  BY Zenon DEF WordSlot, OutputWord
<1>2. Naming(p, <<OutputWord(p, "prim", 0, PrimitiveIdSlot)>>, {PrimitiveIdSlot})
  BY <1>1, OneNaming, Zenon
<1>3. Naming(p, <<OutputWord(p, "viewport", 0, ViewportSlot)>>, {ViewportSlot})
  BY <1>1, OneNaming, Zenon
<1>4. Naming(p, u, U) BY <1>2, NoNaming, Zenon
<1>5. Naming(p, v, V) BY <1>3, NoNaming, Zenon
<1>6. U \cap V = {} BY DEF PrimitiveIdSlot, ViewportSlot
<1>7. U \cup V = BuiltinNames(p) BY Zenon DEF BuiltinNames
<1>8. BuiltinWords(p) = u \o v BY Zenon DEF BuiltinWords
<1> HIDE DEF u, v, U, V
<1>9. Naming(p, u \o v, U \cup V) BY <1>4, <1>5, <1>6, JoinedNaming, Zenon
<1> QED BY <1>7, <1>8, <1>9, Zenon

(* Two registers hold all distances.                                       *)
LEMMA RegisterCount ==
  ASSUME NEW p, Producer(p)
  PROVE  /\ Registers(p) \in {0, 1, 2} /\ Cardinality(p.dists) \in Nat /\ IsFiniteSet(p.dists)
         /\ Width * Registers(p) <= Cardinality(p.dists) + Width - 1
         /\ Cardinality(p.dists) + Width - 1 < Width * Registers(p) + Width
<1> DEFINE c == Cardinality(p.dists)
           q == Registers(p)
<1>1. Width \in Nat \ {0} BY LinkingAssumption, Zenon
<1>2. IsFiniteSet(0..2 * Width - 1) /\ Cardinality(0..2 * Width - 1) = 2 * Width
  <2>1. 2 * Width \in Nat /\ 2 * Width - 1 \in Int /\ 0 <= 2 * Width - 1 BY <1>1
  <2> DEFINE h == 2 * Width
  <2>2. h \in Nat /\ h > 0 BY <1>1, <2>1
  <2> HIDE DEF h
  <2>4. 0 \in Int /\ h - 1 \in Int /\ ~(0 > h - 1) /\ (h - 1) - 0 + 1 = h BY <2>2
  <2>3. IsFiniteSet(0..h - 1) /\ Cardinality(0..h - 1) = h BY <2>4, FS_Interval, Zenon
  <2> QED BY <2>3, Zenon DEF h
<1>3. IsFiniteSet(p.dists) /\ c <= 2 * Width
  <2> DEFINE D == 0..2 * Width - 1
  <2>1. p.dists \in SUBSET D /\ IsFiniteSet(D) /\ Cardinality(D) = 2 * Width
    BY <1>2, Zenon DEF Producer
  <2> HIDE DEF D
  <2>2. IsFiniteSet(p.dists) /\ c <= Cardinality(D) BY <2>1, FS_Subset, Zenon
  <2> QED BY <2>1, <2>2, Zenon
<1>4. c \in Nat BY <1>3, FS_CardinalityType, Zenon
<1> DEFINE n == c + Width - 1
<1>5. n \in Nat BY <1>1, <1>4
<1>6. q = n \div Width BY Zenon DEF Registers
<1> HIDE DEF n
<1>7. q \in Nat /\ Width * q <= n /\ n < Width * q + Width BY <1>1, <1>5, <1>6, DivNat
<1>8. n < 3 * Width BY <1>1, <1>3, <1>4 DEF n
<1> HIDE DEF q, c
<1>9. ~(q >= 3)
  <2> SUFFICES ASSUME q >= 3 PROVE FALSE BY Zenon
  <2> DEFINE e == q - 3
  <2>1. e \in Nat /\ q = e + 3 BY <1>7
  <2> HIDE DEF e
  <2>2. Width * q = Width * e + 3 * Width BY <1>1, <2>1
  <2>3. Width * e \in Nat BY <1>1, <2>1
  <2> QED BY <1>1, <1>5, <1>7, <1>8, <2>2, <2>3
<1>10. q \in {0, 1, 2} BY <1>7, <1>9
<1> QED BY <1>3, <1>4, <1>7, <1>10, Zenon DEF n, q, c

(* ... and for the distance registers name what they are for.              *)
LEMMA DistanceNaming ==
  ASSUME NEW p, Producer(p)
  PROVE  Naming(p, DistanceWords(p), DistanceNames(p)) /\ DistanceNames(p) \subseteq {0, 1}
<1> DEFINE n == Registers(p)
           s == DistanceWords(p)
<1>1. n \in {0, 1, 2} BY RegisterCount, Zenon
<1>2. s = [k \in 1..n |-> OutputWord(p, "dist", k - 1, DistanceSlot(k - 1))]
  BY Zenon DEF DistanceWords, Registers
<1>3. DistanceNames(p) = 0..n - 1 BY Zenon DEF DistanceNames
<1> HIDE DEF n, s
<1>4. ASSUME NEW k \in 1..n
      PROVE  /\ s[k] \in Word /\ WordSlot(s[k]) = k - 1 /\ k - 1 \in 0..n - 1
             /\ s[k].parameter = vs_output_param_offset(p, k - 1)
  <2>1. s[k] = [kind |-> "dist", loc |-> k - 1, parameter |-> vs_output_param_offset(p, k - 1)]
    BY <1>2, Zenon DEF OutputWord, DistanceSlot
  <2>2. vs_output_param_offset(p, k - 1) \in Nat BY ParameterOf
  <2>3. k - 1 \in Nat /\ k - 1 \in 0..n - 1 BY <1>1
  <2> QED BY <2>1, <2>2, <2>3 DEF Word, WordSlot, DistanceSlot
<1>5. s \in Seq(Word) /\ Len(s) = n BY <1>1, <1>2, <1>4
<1>6. ASSUME NEW x \in 0..n - 1 PROVE \E k \in 1..n : WordSlot(s[k]) = x
  <2>1. x + 1 \in 1..n /\ (x + 1) - 1 = x BY <1>1
  <2> QED BY <1>4, <2>1, Zenon
<1>7. ASSUME NEW i \in 1..n, NEW j \in 1..n, WordSlot(s[i]) = WordSlot(s[j]) PROVE i = j
  <2>1. i - 1 = j - 1 BY <1>4, <1>7, Zenon
  <2> QED BY <1>1, <2>1
<1>8. 0..n - 1 \subseteq {0, 1} BY <1>1
<1> QED BY <1>3, <1>4, <1>5, <1>6, <1>7, <1>8 DEF Naming, s

(* So do all the words fill_output_semantics would list.                   *)
LEMMA WantedNaming ==
  ASSUME NEW p, Producer(p)
  PROVE  Naming(p, Wanted(p), NamedSlots(p))
<1> DEFINE s == VarWords(p) \o BuiltinWords(p)
           S == VarNames(p) \cup BuiltinNames(p)
<1>1. VarNames(p) \subseteq 5..MaxSemantics + 4 /\ BuiltinNames(p) \subseteq {2, 4}
  BY LinkingAssumption DEF VarNames, ListedVars, VarSlot, BuiltinNames, PrimitiveIdSlot, ViewportSlot
<1>2. VarNames(p) \cap BuiltinNames(p) = {} BY <1>1
<1>3. Naming(p, s, S) BY <1>2, VarNaming, BuiltinNaming, JoinedNaming, Zenon
<1>4. S \cap DistanceNames(p) = {} BY <1>1, DistanceNaming
<1> HIDE DEF s, S
<1>5. Naming(p, s \o DistanceWords(p), S \cup DistanceNames(p))
  BY <1>3, <1>4, DistanceNaming, JoinedNaming, Zenon
<1> QED BY <1>5, Zenon DEF Wanted, NamedSlots, s, S

(* Distances in a row fill the registers in order.                         *)
LEMMA PackedRegister ==
  ASSUME NEW w \in Nat \ {0}, NEW q \in Nat, NEW c \in Nat, c + w - 1 < w * q + w, NEW d \in 0..c - 1
  PROVE  d \div w \in 0..q - 1
<1> DEFINE x == d \div w
           a == w * q
<1>1. d \in Nat /\ a \in Nat OBVIOUS
<1>2. x \in Nat /\ w * x <= d BY <1>1, DivNat
<1>3. d < a BY <1>1
<1> HIDE DEF x
<1>4. ~(x >= q)
  <2> SUFFICES ASSUME x >= q PROVE FALSE BY Zenon
  <2> DEFINE e == x - q
  <2>1. e \in Nat /\ x = q + e BY <1>2
  <2> HIDE DEF e
  <2>2. w * x = a + w * e /\ w * e \in Nat BY <2>1
  <2> HIDE DEF a
  <2> QED BY <1>1, <1>2, <1>3, <2>2
<1>5. x \in 0..q - 1 BY <1>2, <1>4
<1> QED BY <1>5, Zenon DEF x

(* Distances without gaps fill their registers from the first component.   *)
LEMMA RegisterFilled ==
  ASSUME NEW w \in Nat \ {0}, NEW q \in Nat, NEW c \in Nat, w * q <= c + w - 1, NEW x \in 0..q - 1
  PROVE  w * x \in 0..c - 1 /\ (w * x) \div w = x
<1> DEFINE d == w * x
           e == q - 1 - x
<1>1. x \in Nat /\ e \in Nat /\ q = x + 1 + e OBVIOUS
<1>2. d \in Nat BY <1>1
<1> HIDE DEF e
<1>3. w * q = d + w + w * e /\ w * e \in Nat BY <1>1
<1>4. d \in 0..c - 1 BY <1>2, <1>3
<1>5. d \div w = x BY <1>1
<1> QED BY <1>4, <1>5, Zenon

(* There is a word for each named slot.                                    *)
LEMMA NamedSize ==
  ASSUME NEW p, NEW s, NEW S, Naming(p, s, S)
  PROVE  IsFiniteSet(S) /\ Cardinality(S) = Len(s) /\ Len(s) \in Nat
<1> DEFINE n == Len(s)
           f == [k \in 1..n |-> WordSlot(s[k])]
           A == 1..n
<1>1. n \in Nat BY DEF Naming
<1>2. IsFiniteSet(A) /\ Cardinality(A) = n BY <1>1, Counted, Zenon
<1>3. f \in [A -> S] BY Zenon DEF Naming
<1>8. \A i, j \in A : f[i] = f[j] => i = j BY Zenon DEF Naming
<1>4. f \in Injection(A, S) BY <1>3, <1>8, Zenon DEF Injection, IsInjective
<1>5. f \in Surjection(A, S) BY <1>3, Zenon DEF Naming, Surjection
<1>6. ExistsBijection(A, S) BY <1>4, <1>5, Zenon DEF Bijection, ExistsBijection
<1> HIDE DEF A
<1>7. IsFiniteSet(S) /\ Cardinality(S) = Cardinality(A) BY <1>2, <1>6, FS_Bijection, Zenon
<1> QED BY <1>1, <1>2, <1>7, Zenon

(* When fill_output_semantics calls its list complete, and what it then    *)
(* lists.                                                                  *)
LEMMA ListComplete ==
  ASSUME NEW p, Producer(p)
  PROVE  /\ fill_output_semantics(p).complete <=>
                /\ Len(Wanted(p)) = Len(Exports(p)) /\ Len(Wanted(p)) <= MaxSemantics
                /\ \A k \in 1..Len(Wanted(p)) : Wanted(p)[k].parameter < MaxSemantics
         /\ fill_output_semantics(p).complete => fill_output_semantics(p).words = Wanted(p)
<1> DEFINE s == Wanted(p)
           n == Len(s)
           placed == {k \in 1..n : k <= MaxSemantics /\ \A j \in 1..k : s[j].parameter < MaxSemantics}
           fits == n <= MaxSemantics /\ \A k \in 1..n : s[k].parameter < MaxSemantics
<1>1. s \in Seq(Word) /\ n \in Nat BY WantedNaming DEF Naming
<1>2. fill_output_semantics(p) =
          [complete |-> placed = 1..n /\ n = Len(Exports(p)),
           words    |-> SubSeq(s, 1, Cardinality(placed))]
  BY Zenon DEF fill_output_semantics, Wanted
<1>3. placed = 1..n <=> fits BY <1>1, PrefixWhole, LinkingNat, Zenon
<1> HIDE DEF placed
<1>5. placed = 1..n => SubSeq(s, 1, Cardinality(placed)) = s
  <2>1. Cardinality(1..n) = n BY <1>1, Counted, Zenon
  <2> HIDE DEF s
  <2>2. SubSeq(s, 1, Len(s)) = s BY <1>1
  <2> HIDE DEF n
  <2>3. placed = 1..n => Cardinality(placed) = n BY <2>1, Zenon
  <2> QED BY <2>2, <2>3, Zenon DEF n
<1> DEFINE all == placed = 1..n /\ n = Len(Exports(p))
           head == SubSeq(s, 1, Cardinality(placed))
<1>10. fill_output_semantics(p) = [complete |-> all, words |-> head] BY <1>2, Zenon
<1> HIDE DEF head
<1>7. fill_output_semantics(p).words = head BY <1>10
<1>6. fill_output_semantics(p).complete = all BY <1>10
<1>8. fill_output_semantics(p).complete <=> fits /\ n = Len(Exports(p))
  BY <1>3, <1>6, Zenon
<1>9. fill_output_semantics(p).complete => fill_output_semantics(p).words = s
  BY <1>5, <1>6, <1>7, Zenon DEF head
<1> QED BY <1>8, <1>9, Zenon

(* A complete list names every exported parameter, and nothing else.       *)
LEMMA CompleteNames ==
  ASSUME NEW p, Producer(p), fill_output_semantics(p).complete
  PROVE  NamedSlots(p) = Range(Exports(p))
<1> DEFINE s == Wanted(p)
           S == NamedSlots(p)
           R == Range(Exports(p))
<1>1. Naming(p, s, S) BY WantedNaming, Zenon
<1>2. /\ Len(s) = Len(Exports(p))
      /\ \A k \in 1..Len(s) : s[k].parameter < MaxSemantics
  BY ListComplete, Zenon
<1> HIDE DEF s, S
<1>3. ASSUME NEW x \in S PROVE x \in R
  <2>1. PICK k \in 1..Len(s) : WordSlot(s[k]) = x BY <1>1, Zenon DEF Naming
  <2>4. s[k].parameter = vs_output_param_offset(p, x) BY <1>1, <2>1, Zenon DEF Naming
  <2>2. vs_output_param_offset(p, x) < MaxSemantics BY <1>2, <2>4, Zenon
  <2>3. vs_output_param_offset(p, x) # 255 BY <2>2, LinkingAssumption
  <2> QED BY <2>3, ParameterOf
<1>4. IsFiniteSet(R) /\ Cardinality(R) = Len(Exports(p)) BY ExportsListed, ListingSize, Zenon
<1>5. Cardinality(S) = Len(s) BY <1>1, NamedSize, Zenon
<1> HIDE DEF R
<1>6. S \in SUBSET R /\ Cardinality(R) = Cardinality(S) BY <1>2, <1>3, <1>4, <1>5, Zenon
<1>7. R = S BY <1>4, <1>6, FS_Subset, Zenon
<1> QED BY <1>7, Zenon DEF R, S

(* The words for a parameter are those that name what is exported there,   *)
(* and there is one.                                                       *)
LEMMA ParametersNamed ==
  ASSUME NEW p, Producer(p), fill_output_semantics(p).complete, NEW k \in 1..Len(Exports(p))
  PROVE  LET words == Range(fill_output_semantics(p).words)
         IN  /\ {w \in words : w.parameter = k - 1} = {w \in words : WordSlot(w) = Exports(p)[k]}
             /\ \E w \in words : w.parameter = k - 1
<1> DEFINE s == Wanted(p)
           E == Exports(p)
<1>1. Naming(p, s, Range(E)) BY WantedNaming, CompleteNames, Zenon
<1>2. fill_output_semantics(p).words = s BY ListComplete, Zenon
<1>3. Listing(E) /\ DOMAIN E = 1..Len(E) /\ Len(E) \in Nat BY ExportsListed DEF Listing
<1>4. DOMAIN s = 1..Len(s) BY <1>1 DEF Naming
<1> HIDE DEF s
<1>5. ASSUME NEW w \in Range(s)
      PROVE  /\ WordSlot(w) \in Range(E)
             /\ w.parameter \in Nat /\ w.parameter + 1 \in 1..Len(E) /\ E[w.parameter + 1] = WordSlot(w)
  <2>1. PICK i \in 1..Len(s) : w = s[i] BY <1>4, Zenon DEF Range
  <2>2. WordSlot(w) \in Range(E) /\ w.parameter = vs_output_param_offset(p, WordSlot(w))
    BY <1>1, <2>1, Zenon DEF Naming
  <2> DEFINE q == vs_output_param_offset(p, WordSlot(w))
  <2>3. q \in Nat /\ q + 1 \in 1..Len(E) /\ E[q + 1] = WordSlot(w) BY <2>2, ParameterOf
  <2> HIDE DEF q, E
  <2>4. w.parameter = q BY <2>2, Zenon DEF q
  <2> QED BY <2>2, <2>3, <2>4, Zenon
<1>6. ASSUME NEW w \in Range(s) PROVE w.parameter = k - 1 <=> WordSlot(w) = E[k]
  <2> DEFINE q == w.parameter
  <2>1. q \in Nat /\ q + 1 \in 1..Len(E) /\ E[q + 1] = WordSlot(w) BY <1>5, Zenon
  <2> HIDE DEF q, E
  <2>2. q = k - 1 => q + 1 = k BY <1>3, <2>1 DEF E
  <2>3. E[q + 1] = E[k] => q + 1 = k BY <1>3, <2>1, Zenon DEF Listing, E
  <2>4. q + 1 = k => q = k - 1 BY <2>1
  <2>5. q = k - 1 <=> WordSlot(w) = E[k] BY <2>1, <2>2, <2>3, <2>4, Zenon
  <2> QED BY <2>5, Zenon DEF q, E
<1>7. \E w \in Range(s) : WordSlot(w) = E[k]
  <2>1. E[k] \in Range(E) BY <1>3, Zenon DEF Range
  <2>2. PICK i \in 1..Len(s) : WordSlot(s[i]) = E[k] BY <1>1, <2>1, Zenon DEF Naming
  <2>3. s[i] \in Range(s) BY <1>4, Zenon DEF Range
  <2> QED BY <2>2, <2>3, Zenon
<1>8. {w \in Range(s) : w.parameter = k - 1} = {w \in Range(s) : WordSlot(w) = E[k]}
  BY <1>6, Zenon
<1>9. \E w \in Range(s) : w.parameter = k - 1 BY <1>6, <1>7, Zenon
<1> QED BY <1>2, <1>8, <1>9, Zenon

(* Without a layer and with distances in a row there is a word for every   *)
(* export, so only the number of words can be too small.                   *)
LEMMA LinkableOutputs ==
  ASSUME NEW p, Producer(p), ~p.layer, p.dists = 0..Cardinality(p.dists) - 1,
         Len(Exports(p)) <= MaxSemantics
  PROVE  fill_output_semantics(p).complete
<1> DEFINE s == Wanted(p)
           S == NamedSlots(p)
           E == Exports(p)
           R == Range(E)
           c == Cardinality(p.dists)
           q == Registers(p)
<1>1. Naming(p, s, S) BY WantedNaming, Zenon
<1>2. /\ Listing(E) /\ WrittenParams(p) \cup DistanceRegisters(p) \subseteq R
      /\ R \subseteq WrittenParams(p) \cup {PrimitiveIdSlot} \cup DistanceRegisters(p)
  BY ExportsListed, Zenon
<1>3. IsFiniteSet(R) /\ Cardinality(R) = Len(E) /\ Len(E) \in Nat BY <1>2, ListingSize, Zenon
<1>4. ASSUME NEW x PROVE x \in R <=> ListedAt(p, x)
  <2> DEFINE o == vs_output_param_offset(p, x)
  <2>0. o \in Nat BY ParameterOf, Zenon
  <2>5. x \in R => o + 1 \in 1..Len(E) BY ParameterOf
  <2>6. x \notin R => o = 255 BY ParameterOf
  <2>1. (x \in R => o + 1 \in 1..Len(E)) /\ (x \notin R => o = 255) BY <2>5, <2>6, Zenon
  <2>2. ListedAt(p, x) <=> o < MaxSemantics BY Zenon DEF ListedAt
  <2> HIDE DEF o, R
  <2>3. x \in R => o < MaxSemantics BY <1>3, <2>0, <2>1, LinkingAssumption
  <2>4. x \notin R => ~(o < MaxSemantics) BY <2>1, LinkingAssumption
  <2> QED BY <2>2, <2>3, <2>4, Zenon
<1>5. DistanceRegisters(p) = DistanceNames(p)
  <2>1. /\ Width \in Nat \ {0} /\ q \in Nat /\ c \in Nat
        /\ Width * q <= c + Width - 1 /\ c + Width - 1 < Width * q + Width
    BY RegisterCount, LinkingAssumption
  <2>2. DistanceNames(p) = 0..q - 1 BY Zenon DEF DistanceNames
  <2>3. DistanceRegisters(p) = {d \div Width : d \in 0..c - 1} BY Zenon DEF DistanceRegisters
  <2> HIDE DEF q, c
  <2>4. ASSUME NEW d \in 0..c - 1 PROVE d \div Width \in 0..q - 1
    BY <2>1, <2>4, PackedRegister, Zenon
  <2>5. ASSUME NEW x \in 0..q - 1 PROVE \E d \in 0..c - 1 : d \div Width = x
    <3>1. Width * x \in 0..c - 1 /\ (Width * x) \div Width = x BY <2>1, RegisterFilled, Zenon
    <3> DEFINE d == Width * x
    <3>2. d \in 0..c - 1 /\ d \div Width = x BY <3>1, Zenon
    <3> HIDE DEF d
    <3> QED BY <3>2, Zenon
  <2> QED BY <2>2, <2>3, <2>4, <2>5
<1>6. ASSUME NEW x \in R PROVE x \in S
  <2>1. ListedAt(p, x) BY <1>4, Zenon
  <2>2. CASE x \in DistanceRegisters(p) BY <1>5, <2>2, Zenon DEF NamedSlots
  <2>3. CASE x \in {PrimitiveIdSlot, ViewportSlot}
    BY <2>1, <2>3, Zenon DEF NamedSlots, BuiltinNames
  <2>4. CASE \E v \in p.vars : x = VarSlot(v)
    <3>1. PICK v \in p.vars : x = VarSlot(v) BY <2>4, Zenon
    <3>2. v \in ListedVars(p) BY <2>1, <3>1, Zenon DEF ListedVars, Producer
    <3> QED BY <3>1, <3>2, Zenon DEF NamedSlots, VarNames
  <2> QED BY <1>2, <2>2, <2>3, <2>4, Zenon DEF WrittenParams
<1>7. ASSUME NEW x \in S PROVE x \in R
  <2>1. CASE x \in DistanceNames(p) BY <1>2, <1>5, <2>1, Zenon
  <2>2. CASE x \in VarNames(p) BY <1>4, <2>2, Zenon DEF VarNames, ListedVars
  <2>3. CASE x \in BuiltinNames(p) BY <1>4, <2>3, Zenon DEF BuiltinNames
  <2> QED BY <2>1, <2>2, <2>3, Zenon DEF NamedSlots
<1>8. S = R BY <1>6, <1>7, Zenon
<1>9. Len(s) = Len(E) BY <1>1, <1>3, <1>8, NamedSize, Zenon
<1>10. ASSUME NEW k \in 1..Len(s) PROVE s[k].parameter < MaxSemantics
  <2>1. WordSlot(s[k]) \in R /\ s[k].parameter = vs_output_param_offset(p, WordSlot(s[k]))
    BY <1>1, <1>8 DEF Naming
  <2> QED BY <1>4, <2>1, Zenon DEF ListedAt
<1> QED BY <1>9, <1>10, ListComplete, Zenon
=============================================================================
