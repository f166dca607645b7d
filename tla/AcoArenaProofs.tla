---------------------------- MODULE AcoArenaProofs ----------------------------
(***************************************************************************)
(* The arena hands out memory that is valid, aligned and its own, for any  *)
(* number of arenas and blocks, any sizes and limits.  The invariant adds  *)
(* to the properties what makes them inductive: an allocation ends below   *)
(* the index of its block, whether or not the block is still the newest.   *)
(* A sum of sizes is the number of bytes it stands for; that shows that    *)
(* release_reallocate asks for enough.                                     *)
(***************************************************************************)
EXTENDS AcoArena, SequenceTheorems, FiniteSetTheorems, TLAPS

LiveBelowIndex == \A a \in live : a.idx + a.size <= current_idx[a.block]

AInv == TypeOK /\ BlocksOwned /\ LiveInside /\ LiveDisjoint /\ LiveBelowIndex

-----------------------------------------------------------------------------
(* align rounds up to a multiple.                                          *)
LEMMA AlignUp ==
    ASSUME NEW i \in Nat, NEW a \in Alignments
    PROVE  align(i, a) \in Nat /\ align(i, a) >= i /\ (Header + align(i, a)) % a = 0
<1>1. a \in {1, 2, 4, 8} /\ Header \in Nat /\ Header % a = 0
  BY ArenaAssumption, Zenon
<1>2. CASE a = 1 BY <1>1, <1>2 DEF align
<1>3. CASE a = 2 BY <1>1, <1>3 DEF align
<1>4. CASE a = 4 BY <1>1, <1>4 DEF align
<1>5. CASE a = 8 BY <1>1, <1>5 DEF align
<1> QED BY <1>1, <1>2, <1>3, <1>4, <1>5, Zenon

(* The smaller and the larger of two sizes.                                *)
LEMMA MinOfTwo ==
    ASSUME NEW x \in Nat, NEW y \in Nat
    PROVE  Min({x, y}) \in {x, y} /\ Min({x, y}) <= x /\ Min({x, y}) <= y
<1>1. \E z \in {x, y} : \A w \in {x, y} : z <= w OBVIOUS
<1> QED BY <1>1, Zenon DEF Min

(* The larger of two sizes.                                                *)
LEMMA MaxOfTwo ==
    ASSUME NEW x \in Nat, NEW y \in Nat
    PROVE  Max({x, y}) \in {x, y} /\ Max({x, y}) >= x /\ Max({x, y}) >= y
<1>1. \E z \in {x, y} : \A w \in {x, y} : z >= w OBVIOUS
<1> QED BY <1>1, Zenon DEF Max

(* Doubling does not shrink.                                               *)
LEMMA ProductGrows ==
    ASSUME NEW x \in Nat, NEW f \in Nat \ {0}
    PROVE  x * f \in Nat /\ x * f >= x
<1>1. f = (f - 1) + 1 /\ f - 1 \in Nat OBVIOUS
<1>2. x * (f - 1) \in Nat BY <1>1
<1>3. x * ((f - 1) + 1) = x * (f - 1) + x BY <1>1
<1> QED BY <1>1, <1>2, <1>3

(* A block grown or reallocated has room behind its header.                *)
LEMMA DoubledFits ==
    ASSUME NEW from \in Nat, from >= Header, NEW size, NEW total, Doubled(from, size, total)
    PROVE  total \in Nat /\ total - Header \in Nat /\ total - Header >= size
<1>1. PICK f \in Doublings : total = from * f /\ total - Header >= size
  BY Zenon DEF Doubled
<1>2. f \in Nat \ {0} /\ Header \in Nat BY ArenaAssumption, Zenon
<1>3. total \in Nat /\ total >= from BY <1>1, <1>2, ProductGrows, Zenon
<1> QED BY <1>1, <1>2, <1>3

(* The next block has room for its header and is within the cap.           *)
LEMMA NextTotalLarge ==
    ASSUME TypeOK, NEW b \in Blocks
    PROVE  NextTotal(b) \in Nat /\ NextTotal(b) >= Header /\ NextTotal(b) <= maximum_block_size
<1>1. Header \in Nat /\ maximum_block_size \in Nat /\ maximum_block_size >= Header
  BY ArenaAssumption
<1>2. (data_size[b] + Header) * 2 \in Nat /\ (data_size[b] + Header) * 2 >= Header
  BY <1>1 DEF TypeOK
<1> QED BY <1>1, <1>2, MinOfTwo, Zenon DEF NextTotal

-----------------------------------------------------------------------------
(* The ends of a list are blocks of it, and blocks are in the heap.        *)
LEMMA ListEnds ==
    ASSUME AInv, NEW m \in Arenas, Built(m)
    PROVE  /\ Len(chain[m]) \in Nat \ {0}
           /\ Newest(m) \in Chained(m) /\ Oldest(m) \in Chained(m)
           /\ Chained(m) \subseteq heap /\ heap \subseteq Blocks
<1>1. chain[m] \in Seq(Blocks) /\ chain[m] # <<>> BY Zenon DEF AInv, TypeOK, Built
<1>2. Len(chain[m]) \in Nat \ {0} BY <1>1, EmptySeq, LenProperties, Zenon
<1>3. 1 \in 1..Len(chain[m]) /\ Len(chain[m]) \in 1..Len(chain[m]) BY <1>2
<1> QED BY <1>2, <1>3 DEF Newest, Oldest, Chained, AInv, BlocksOwned, TypeOK

(* What a step leaves alone of the allocations stays valid.                *)
LEMMA SurvivorsValid ==
    ASSUME AInv, NEW gone, live' = Survivors(gone),
           \A b \in heap \ gone : /\ b \in heap'
                                  /\ data_size'[b] = data_size[b]
                                  /\ current_idx'[b] = current_idx[b]
    PROVE  LiveInside' /\ LiveDisjoint' /\ LiveBelowIndex'
<1> USE DEF AInv
<1>1. \A a \in live' : a \in live /\ a.block \in heap \ gone
  BY Zenon DEF Survivors, LiveInside
<1>2. LiveInside' BY <1>1, Zenon DEF LiveInside
<1>3. LiveDisjoint' BY <1>1, Zenon DEF LiveDisjoint
<1>4. LiveBelowIndex' BY <1>1, Zenon DEF LiveBelowIndex
<1> QED BY <1>2, <1>3, <1>4, Zenon

(* Freed blocks lose their fields, and the others keep them.               *)
LEMMA WithoutType ==
    ASSUME NEW field \in [Blocks -> Nat], NEW gone
    PROVE  /\ Without(field, gone) \in [Blocks -> Nat]
           /\ \A b \in Blocks : Without(field, gone)[b] = IF b \in gone THEN 0 ELSE field[b]
BY Zenon DEF Without

(* A list of another arena shares no block with this one.                  *)
LEMMA ListsApart ==
    ASSUME AInv, NEW m \in Arenas, NEW o \in Arenas, o # m
    PROVE  Chained(m) \cap Chained(o) = {}
BY DEF AInv, BlocksOwned, Chained

(* Steps that leave the lists alone keep blocks owned ...                  *)
LEMMA ListsUnchanged ==
    ASSUME BlocksOwned, chain' = chain, heap' = heap
    PROVE  BlocksOwned'
<1>1. \A m \in Arenas : Chained(m)' = Chained(m) BY Zenon DEF Chained
<1>2. heap' = UNION {Chained(m)' : m \in Arenas} BY <1>1 DEF BlocksOwned
<1> QED BY <1>2 DEF BlocksOwned

(* One arena gets a list of new blocks and of its own.                     *)
LEMMA ListReplaced ==
    ASSUME AInv, NEW m \in Arenas, NEW s \in Seq(Blocks),
           chain' = [chain EXCEPT ![m] = s],
           \A i \in 1..Len(s) : s[i] \in Chained(m) \/ s[i] \notin heap,
           \A i, j \in 1..Len(s) : s[i] = s[j] => i = j,
           heap' = (heap \ Chained(m)) \cup {s[i] : i \in 1..Len(s)}
    PROVE  BlocksOwned'
<1>1. \A o \in Arenas : chain'[o] = IF o = m THEN s ELSE chain[o]
  BY Zenon DEF AInv, TypeOK
<1>2. \A o \in Arenas : Chained(o)' = IF o = m THEN {s[i] : i \in 1..Len(s)} ELSE Chained(o)
  BY <1>1 DEF Chained
<1>3. heap = UNION {Chained(o) : o \in Arenas} BY Zenon DEF AInv, BlocksOwned
<1>4. heap' = UNION {Chained(o)' : o \in Arenas}
  BY <1>2, <1>3, ListsApart
<1>5. ASSUME NEW o \in Arenas, NEW p \in Arenas,
             NEW i \in 1..Len(chain'[o]), NEW j \in 1..Len(chain'[p]),
             chain'[o][i] = chain'[p][j]
      PROVE  o = p /\ i = j
  <2>1. chain'[o][i] \in Chained(o)' /\ chain'[p][j] \in Chained(p)' BY Zenon DEF Chained
  <2>2. CASE o = m /\ p = m BY <1>1, <1>5, <2>2
  <2>3. CASE o # m /\ p # m BY <1>1, <1>5, <2>3 DEF AInv, BlocksOwned
  <2>4. ASSUME NEW x \in Arenas, x # m, NEW b \in Chained(x), NEW k \in 1..Len(s)
        PROVE  b # s[k]
    <3>1. b \in heap /\ b \notin Chained(m) BY <1>3, <2>4, ListsApart, Zenon
    <3> QED BY <3>1, Zenon
  <2>5. CASE o = m /\ p # m BY <1>1, <1>2, <1>5, <2>1, <2>4, <2>5
  <2>6. CASE o # m /\ p = m BY <1>1, <1>2, <1>5, <2>1, <2>4, <2>6
  <2> QED BY <2>2, <2>3, <2>5, <2>6, Zenon
<1> QED BY <1>4, <1>5, Zenon DEF BlocksOwned

(* A list of one block.                                                    *)
LEMMA OneBlock ==
    ASSUME NEW b \in Blocks
    PROVE  /\ <<b>> \in Seq(Blocks) /\ Len(<<b>>) = 1 /\ <<b>>[1] = b
           /\ 1..Len(<<b>>) = {1}
           /\ {<<b>>[i] : i \in 1..Len(<<b>>)} = {b}
<1>1. <<b>> \in Seq(Blocks) /\ Len(<<b>>) = 1 /\ <<b>>[1] = b OBVIOUS
<1>2. 1..Len(<<b>>) = {1} BY <1>1
<1> QED BY <1>1, <1>2, Zenon

(* ... so does leaving an arena with one block, its own or a new one.      *)
LEMMA ListOfOne ==
    ASSUME AInv, NEW m \in Arenas, NEW b \in Blocks,
           chain' = [chain EXCEPT ![m] = <<b>>],
           b \in Chained(m) \/ b \notin heap,
           heap' = (heap \ Chained(m)) \cup {b}
    PROVE  BlocksOwned'
<1> DEFINE s == <<b>>
<1>1. s \in Seq(Blocks) /\ 1..Len(s) = {1} /\ s[1] = b /\ {s[i] : i \in 1..Len(s)} = {b}
  BY OneBlock, Zenon
<1>2. chain' = [chain EXCEPT ![m] = s] BY Zenon
<1> HIDE DEF s
<1>3. \A i \in 1..Len(s) : s[i] \in Chained(m) \/ s[i] \notin heap BY <1>1, Zenon
<1>4. \A i, j \in 1..Len(s) : s[i] = s[j] => i = j BY <1>1, Zenon
<1>5. heap' = (heap \ Chained(m)) \cup {s[i] : i \in 1..Len(s)} BY <1>1, Zenon
<1> QED BY <1>1, <1>2, <1>3, <1>4, <1>5, ListReplaced, Zenon

(* One arena gets the list of another, which is left with one block.       *)
LEMMA ListHandedOver ==
    ASSUME AInv, NEW m \in Arenas, NEW o \in Arenas, m # o, NEW b \in Blocks,
           b \in Chained(m) \/ b \notin heap,
           chain' = [chain EXCEPT ![m] = chain[o], ![o] = <<b>>],
           heap' = (heap \ Chained(m)) \cup {b}
    PROVE  BlocksOwned'
<1> DEFINE s == <<b>>
<1>s. 1..Len(s) = {1} /\ {s[i] : i \in 1..Len(s)} = {b} BY OneBlock, Zenon
<1>1. \A x \in Arenas : chain'[x] = IF x = o THEN s ELSE IF x = m THEN chain[o] ELSE chain[x]
  BY Zenon DEF AInv, TypeOK
<1> HIDE DEF s
<1>2. \A x \in Arenas : Chained(x)' = IF x = o THEN {b} ELSE IF x = m THEN Chained(o) ELSE Chained(x)
  <2>1. Chained(o)' = {b}
    <3>1. chain'[o] = s BY <1>1, Zenon
    <3>2. Chained(o)' = {s[i] : i \in 1..Len(s)} BY <3>1, Zenon DEF Chained
    <3> QED BY <1>s, <3>2, Zenon
  <2>2. \A x \in Arenas : x # o => Chained(x)' = IF x = m THEN Chained(o) ELSE Chained(x)
    BY <1>1, ZenonT(30) DEF Chained
  <2> QED BY <2>1, <2>2, Zenon
<1>3. heap = UNION {Chained(x) : x \in Arenas} BY Zenon DEF AInv, BlocksOwned
<1>4. heap' = UNION {Chained(x)' : x \in Arenas}
  BY <1>2, <1>3, ListsApart
<1>5. ASSUME NEW x \in Arenas, NEW y \in Arenas,
             NEW i \in 1..Len(chain'[x]), NEW j \in 1..Len(chain'[y]),
             chain'[x][i] = chain'[y][j]
      PROVE  x = y /\ i = j
  <2>1. chain'[x][i] \in Chained(x)' /\ chain'[y][j] \in Chained(y)' BY Zenon DEF Chained
  <2>2. \A z \in Arenas : z # o => b \notin Chained(z)'
    BY <1>2, <1>3, ListsApart, Zenon
  <2>3. CASE x = o /\ y = o
    <3>1. i \in {1} /\ j \in {1} BY <1>s, <1>1, <2>3, Zenon
    <3> QED BY <2>3, <3>1, Zenon
  <2>4. CASE x = o /\ y # o BY <1>1, <1>2, <1>5, <2>1, <2>2, <2>4, Zenon
  <2>5. CASE x # o /\ y = o BY <1>1, <1>2, <1>5, <2>1, <2>2, <2>5, Zenon
  <2>6. CASE x # o /\ y # o
    <3>1. PICK u \in Arenas : u = IF x = m THEN o ELSE x BY Zenon
    <3>2. PICK v \in Arenas : v = IF y = m THEN o ELSE y BY Zenon
    <3>3. chain'[x] = chain[u] /\ chain'[y] = chain[v] BY <1>1, <2>6, <3>1, <3>2, Zenon
    <3>4. i \in 1..Len(chain[u]) /\ j \in 1..Len(chain[v]) /\ chain[u][i] = chain[v][j]
      BY <1>5, <3>3, Zenon
    <3>5. u = v /\ i = j BY <3>4 DEF AInv, BlocksOwned
    <3> QED BY <2>6, <3>1, <3>2, <3>5, Zenon
  <2> QED BY <2>3, <2>4, <2>5, <2>6, Zenon
<1> QED BY <1>4, <1>5, Zenon DEF BlocksOwned

(* A constructor adds a block that nobody has.                             *)
LEMMA ConstructKeeps ==
    ASSUME AInv, NEW m \in Arenas, NEW total \in Totals, Construct(m, total)
    PROVE  AInv'
<1> USE DEF AInv
<1>1. CASE Exhausted(ConstructorSize(total))
  <2>1. ConstructorSize(total) \in Nat
    BY ArenaAssumption, MaxOfTwo, Zenon DEF ConstructorSize
  <2> QED BY <1>1, <2>1 DEF Exhausted, TypeOK, BlocksOwned, LiveInside, LiveDisjoint,
             LiveBelowIndex, Chained
<1>2. ASSUME NEW b \in Blocks \ heap,
             heap' = heap \cup {b},
             chain' = [chain EXCEPT ![m] = <<b>>],
             data_size' = [data_size EXCEPT ![b] = ConstructorSize(total) - Header],
             current_idx' = [current_idx EXCEPT ![b] = 0],
             UNCHANGED <<live, refused>>
      PROVE  AInv'
  <2>1. ConstructorSize(total) - Header \in Nat
    <3>1. total \in Nat /\ minimum_size \in Nat /\ Header \in Nat /\ Header < minimum_size
      BY ArenaAssumption, Zenon
    <3>2. ConstructorSize(total) \in {total, minimum_size} /\ ConstructorSize(total) >= minimum_size
      BY <3>1, MaxOfTwo, Zenon DEF ConstructorSize
    <3> QED BY <3>1, <3>2
  <2>2. TypeOK' BY <1>2, <2>1 DEF TypeOK
  <2>3. BlocksOwned' 
    <3>1. Chained(m) = {} BY DEF Construct, Absent, Chained
    <3> QED BY <1>2, <3>1, ListOfOne, Zenon
  <2>4. LiveInside' /\ LiveDisjoint' /\ LiveBelowIndex'
    <3>1. live' = Survivors({}) BY <1>2, Zenon DEF Survivors
    <3>2. \A c \in heap \ {} : c \in heap' /\ data_size'[c] = data_size[c]
                              /\ current_idx'[c] = current_idx[c]
      BY <1>2, Zenon DEF TypeOK
    <3> QED BY <3>1, <3>2, SurvivorsValid, Zenon
  <2> QED BY <2>2, <2>3, <2>4, Zenon
<1> QED BY <1>1, <1>2, Zenon DEF Construct

(* The destructor frees the whole list.                                    *)
LEMMA DestroyKeeps ==
    ASSUME AInv, NEW m \in Arenas, Destroy(m)
    PROVE  AInv'
<1> USE DEF AInv
<1>1. TypeOK'
  <2>1. data_size' \in [Blocks -> Nat] /\ current_idx' \in [Blocks -> Nat]
    BY WithoutType, Zenon DEF Destroy, TypeOK
  <2> QED BY <2>1 DEF Destroy, TypeOK, Survivors
<1>2. BlocksOwned'
  <2> DEFINE s == <<>>
  <2>1. s \in Seq(Blocks) /\ 1..Len(s) = {} /\ chain' = [chain EXCEPT ![m] = s]
    BY DEF Destroy
  <2> HIDE DEF s
  <2>2. heap' = (heap \ Chained(m)) \cup {s[i] : i \in 1..Len(s)}
    BY <2>1, Zenon DEF Destroy
  <2> QED BY <2>1, <2>2, ListReplaced, Zenon
<1>3. LiveInside' /\ LiveDisjoint' /\ LiveBelowIndex'
  <2>1. \A b \in heap \ Chained(m) : /\ b \in heap' /\ data_size'[b] = data_size[b]
                                     /\ current_idx'[b] = current_idx[b]
    <3>1. heap \subseteq Blocks BY Zenon DEF TypeOK
    <3>2. heap' = heap \ Chained(m) BY Zenon DEF Destroy
    <3>3. /\ data_size' = Without(data_size, Chained(m))
          /\ current_idx' = Without(current_idx, Chained(m))
      BY Zenon DEF Destroy
    <3> QED BY <3>1, <3>2, <3>3, Zenon DEF Without
  <2> QED BY <2>1, SurvivorsValid, Zenon DEF Destroy
<1> QED BY <1>1, <1>2, <1>3, Zenon

(* Releasing and reallocating in place keep one block of the list.         *)
LEMMA FreeAllButKeeps ==
    ASSUME AInv, NEW m \in Arenas, NEW b \in Chained(m), Chained(m) \subseteq heap,
           FreeAllBut(m, b)
    PROVE  /\ chain' \in [Arenas -> Seq(Blocks)] => TypeOK'
           /\ LiveInside' /\ LiveDisjoint' /\ LiveBelowIndex'
           /\ heap' = (heap \ Chained(m)) \cup {b}
<1> USE DEF AInv
<1>1. chain' \in [Arenas -> Seq(Blocks)] => TypeOK'
  <2>1. data_size' \in [Blocks -> Nat] /\ current_idx' \in [Blocks -> Nat]
    <3>1. data_size \in [Blocks -> Nat] /\ current_idx \in [Blocks -> Nat] BY Zenon DEF TypeOK
    <3>2. /\ data_size' = Without(data_size, Chained(m) \ {b})
          /\ current_idx' = Without(current_idx, Chained(m))
      BY Zenon DEF FreeAllBut
    <3> QED BY <3>1, <3>2, WithoutType, Zenon
  <2> QED BY <2>1, Zenon DEF FreeAllBut, TypeOK, Survivors
<1>2. \A c \in heap \ Chained(m) : /\ c \in heap' /\ data_size'[c] = data_size[c]
                                   /\ current_idx'[c] = current_idx[c]
  <2>1. heap \subseteq Blocks BY Zenon DEF TypeOK
  <2>2. heap' = heap \ (Chained(m) \ {b}) BY Zenon DEF FreeAllBut
  <2>3. /\ data_size' = Without(data_size, Chained(m) \ {b})
        /\ current_idx' = Without(current_idx, Chained(m))
    BY Zenon DEF FreeAllBut
  <2> QED BY <2>1, <2>2, <2>3, Zenon DEF Without
<1>3. LiveInside' /\ LiveDisjoint' /\ LiveBelowIndex'
  BY <1>2, SurvivorsValid, Zenon DEF FreeAllBut
<1>4. heap' = (heap \ Chained(m)) \cup {b}
  BY Zenon DEF FreeAllBut
<1> QED BY <1>1, <1>3, <1>4, Zenon

(* Releasing and reallocating in place keep the invariant.                 *)
LEMMA ReleaseKeeps ==
    ASSUME AInv, NEW m \in Arenas, Release(m) \/ ReallocateKeeps(m)
    PROVE  AInv'
<1>1. Built(m) BY Zenon DEF Release, ReallocateKeeps
<1>2. PICK b \in Chained(m) : FreeAllBut(m, b) /\ chain' = [chain EXCEPT ![m] = <<b>>]
  BY <1>1, ListEnds, Zenon DEF Release, ReallocateKeeps
<1>3. Chained(m) \subseteq heap /\ b \in Blocks BY <1>1, ListEnds, Zenon
<1>4. chain' \in [Arenas -> Seq(Blocks)] BY <1>2, <1>3, OneBlock, Zenon DEF AInv, TypeOK
<1>5. BlocksOwned' BY <1>2, <1>3, FreeAllButKeeps, ListOfOne, Zenon
<1> QED BY <1>2, <1>3, <1>4, <1>5, FreeAllButKeeps, Zenon DEF AInv

(* So does assigning one arena to another.                                 *)
LEMMA MoveAssignKeeps ==
    ASSUME AInv, NEW m \in Arenas, NEW o \in Arenas, MoveAssign(m, o)
    PROVE  AInv'
<1>1. Built(m) /\ m # o BY Zenon DEF MoveAssign
<1> DEFINE b == Oldest(m)
<1>2. b \in Chained(m) /\ Chained(m) \subseteq heap /\ b \in Blocks BY <1>1, ListEnds, Zenon
<1>3. FreeAllBut(m, b) /\ chain' = [chain EXCEPT ![m] = chain[o], ![o] = <<b>>]
  BY Zenon DEF MoveAssign
<1> HIDE DEF b
<1>4. chain' \in [Arenas -> Seq(Blocks)] BY <1>2, <1>3, OneBlock, Zenon DEF AInv, TypeOK
<1>5. BlocksOwned' BY <1>1, <1>2, <1>3, FreeAllButKeeps, ListHandedOver, Zenon
<1> QED BY <1>2, <1>3, <1>4, <1>5, FreeAllButKeeps, Zenon DEF AInv

(* A process that stops leaves everything as it was.                       *)
LEMMA ExhaustedKeeps ==
    ASSUME AInv, NEW total \in Nat, Exhausted(total)
    PROVE  AInv'
BY DEF AInv, Exhausted, TypeOK, BlocksOwned, LiveInside, LiveDisjoint, LiveBelowIndex, Chained

(* The moved arena is left with a fresh block.                             *)
LEMMA MoveConstructKeeps ==
    ASSUME AInv, NEW m \in Arenas, NEW o \in Arenas, MoveConstruct(m, o)
    PROVE  AInv'
<1>1. Absent(m) /\ Built(o) BY Zenon DEF MoveConstruct
<1>2. m # o /\ Chained(m) = {} BY <1>1 DEF Absent, Built, Chained
<1>3. CASE Exhausted(initial_size) BY <1>3, ExhaustedKeeps, ArenaAssumption, Zenon
<1>4. ASSUME NEW n \in Blocks \ heap,
             heap' = heap \cup {n},
             chain' = [chain EXCEPT ![m] = chain[o], ![o] = <<n>>],
             data_size' = [data_size EXCEPT ![n] = initial_size - Header],
             current_idx' = [current_idx EXCEPT ![n] = 0],
             UNCHANGED <<live, refused>>
      PROVE  AInv'
  <2>1. initial_size - Header \in Nat BY ArenaAssumption
  <2>2. TypeOK'
    <3>1. chain' \in [Arenas -> Seq(Blocks)] BY <1>4, OneBlock, Zenon DEF AInv, TypeOK
    <3> QED BY <1>4, <2>1, <3>1, Zenon DEF AInv, TypeOK
  <2>3. BlocksOwned'
    <3>1. heap' = (heap \ Chained(m)) \cup {n} BY <1>2, <1>4, Zenon
    <3> QED BY <1>2, <1>4, <3>1, ListHandedOver, Zenon
  <2>4. LiveInside' /\ LiveDisjoint' /\ LiveBelowIndex'
    <3>1. live' = Survivors({}) BY <1>4, Zenon DEF Survivors
    <3>2. \A c \in heap \ {} : c \in heap' /\ data_size'[c] = data_size[c]
                              /\ current_idx'[c] = current_idx[c]
      BY <1>4, Zenon DEF AInv, TypeOK
    <3> QED BY <3>1, <3>2, SurvivorsValid, Zenon
  <2> QED BY <2>2, <2>3, <2>4, Zenon DEF AInv
<1> QED BY <1>3, <1>4, Zenon DEF MoveConstruct

(* The whole list is freed for one block, perhaps at an old address.       *)
LEMMA ReallocateReplacesKeeps ==
    ASSUME AInv, NEW m \in Arenas, ReallocateReplaces(m)
    PROVE  AInv'
<1>1. Built(m) BY Zenon DEF ReallocateReplaces
<1>2. Chained(m) \subseteq heap /\ heap \subseteq Blocks BY <1>1, ListEnds, Zenon
<1>3. PICK total : /\ Doubled(initial_size * 2, Used(m), total)
                   /\ \/ Exhausted(total)
                      \/ \E n \in Blocks \ (heap \ Chained(m)) :
                             /\ heap' = (heap \ Chained(m)) \cup {n}
                             /\ live' = Survivors(Chained(m))
                             /\ chain' = [chain EXCEPT ![m] = <<n>>]
                             /\ data_size' = [Without(data_size, Chained(m)) EXCEPT ![n] = total - Header]
                             /\ current_idx' = [Without(current_idx, Chained(m)) EXCEPT ![n] = 0]
                             /\ UNCHANGED refused
  BY Zenon DEF ReallocateReplaces
<1>4. initial_size * 2 \in Nat /\ initial_size * 2 >= Header BY ArenaAssumption
<1>5. total \in Nat /\ total - Header \in Nat BY <1>3, <1>4, DoubledFits, Zenon
<1>6. CASE Exhausted(total) BY <1>5, <1>6, ExhaustedKeeps, Zenon
<1>7. ASSUME NEW n \in Blocks \ (heap \ Chained(m)),
             heap' = (heap \ Chained(m)) \cup {n},
             live' = Survivors(Chained(m)),
             chain' = [chain EXCEPT ![m] = <<n>>],
             data_size' = [Without(data_size, Chained(m)) EXCEPT ![n] = total - Header],
             current_idx' = [Without(current_idx, Chained(m)) EXCEPT ![n] = 0],
             UNCHANGED refused
      PROVE  AInv'
  <2>1. data_size' \in [Blocks -> Nat] /\ current_idx' \in [Blocks -> Nat]
    <3>1. data_size \in [Blocks -> Nat] /\ current_idx \in [Blocks -> Nat]
      BY Zenon DEF AInv, TypeOK
    <3> QED BY <1>5, <1>7, <3>1, WithoutType, Zenon
  <2>2. TypeOK'
    <3>1. chain' \in [Arenas -> Seq(Blocks)] BY <1>7, OneBlock, Zenon DEF AInv, TypeOK
    <3> QED BY <1>7, <2>1, <3>1, Zenon DEF AInv, TypeOK, Survivors
  <2>3. BlocksOwned'
    <3>1. n \in Chained(m) \/ n \notin heap BY Zenon
    <3> QED BY <1>7, <3>1, ListOfOne, Zenon
  <2>4. \A c \in heap \ Chained(m) : c \in heap' /\ data_size'[c] = data_size[c]
                                    /\ current_idx'[c] = current_idx[c]
    BY <1>2, <1>7, Zenon DEF Without
  <2>5. LiveInside' /\ LiveDisjoint' /\ LiveBelowIndex'
    BY <1>7, <2>4, SurvivorsValid, Zenon
  <2> QED BY <2>2, <2>3, <2>5, Zenon DEF AInv
<1> QED BY <1>3, <1>6, <1>7, Zenon

-----------------------------------------------------------------------------
(* An allocation that starts at or behind the index of its block, inside   *)
(* the data and aligned, joins the others.                                 *)
LEMMA AllocationJoins ==
    ASSUME AInv, NEW b \in Blocks, NEW i \in Nat, NEW size \in Sizes, NEW al \in Alignments,
           live' = live \cup {Allocation(b, i, size, al)},
           heap \subseteq heap', b \in heap',
           \A c \in heap : data_size'[c] = data_size[c] /\ current_idx'[c] >= current_idx[c],
           data_size' \in [Blocks -> Nat], current_idx' \in [Blocks -> Nat],
           \A a \in live : a.block = b => a.idx + a.size <= i,
           i + size <= data_size'[b], i + size <= current_idx'[b],
           (Header + i) % al = 0
    PROVE  LiveInside' /\ LiveDisjoint' /\ LiveBelowIndex'
<1> DEFINE new == Allocation(b, i, size, al)
<1>1. new.block = b /\ new.idx = i /\ new.size = size /\ new.alignment = al
  BY Zenon DEF Allocation
<1>2. live' = live \cup {new} BY Zenon
<1> HIDE DEF new
<1>3. \A a \in live : /\ a.block \in heap /\ a.block \in Blocks /\ a.idx \in Nat /\ a.size \in Nat
                      /\ a.idx + a.size <= data_size[a.block]
                      /\ a.idx + a.size <= current_idx[a.block]
                      /\ (Header + a.idx) % a.alignment = 0
  BY ArenaAssumption, Zenon DEF AInv, TypeOK, LiveInside, LiveBelowIndex
<1>4. size \in Nat BY ArenaAssumption, Zenon
<1>5. LiveInside'
  <2>1. \A a \in live : /\ a.block \in heap'
                        /\ a.idx + a.size <= data_size'[a.block]
                        /\ (Header + a.idx) % a.alignment = 0
    BY <1>3, Zenon
  <2> QED BY <1>1, <1>2, <2>1, Zenon DEF LiveInside
<1>6. LiveDisjoint'
  <2>1. \A a, c \in live : a # c /\ a.block = c.block =>
            a.idx + a.size <= c.idx \/ c.idx + c.size <= a.idx
    BY Zenon DEF AInv, LiveDisjoint
  <2>2. \A a \in live : a.block = new.block => a.idx + a.size <= new.idx BY <1>1, Zenon
  <2> QED BY <1>2, <2>1, <2>2, Zenon DEF LiveDisjoint
<1>7. LiveBelowIndex'
  <2>1. \A a \in live : a.idx + a.size <= current_idx'[a.block]
    <3>1. TAKE a \in live
    <3>2. current_idx'[a.block] >= current_idx[a.block] BY <1>3, Zenon
    <3>3. current_idx[a.block] \in Nat /\ current_idx'[a.block] \in Nat
      BY <1>3, Zenon DEF AInv, TypeOK
    <3> QED BY <1>3, <3>2, <3>3
  <2> QED BY <1>1, <1>2, <2>1, Zenon DEF LiveBelowIndex
<1> QED BY <1>5, <1>6, <1>7, Zenon

(* An allocation in the newest block.                                      *)
LEMMA AllocateFitsKeeps ==
    ASSUME AInv, NEW m \in Arenas, NEW size \in Sizes, NEW al \in Alignments,
           AllocateFits(m, size, al)
    PROVE  AInv'
<1> DEFINE b == Newest(m)
           i == align(current_idx[b], al)
<1>1. Built(m) /\ b \in heap /\ b \in Blocks BY ListEnds, Zenon DEF AllocateFits
<1>2. /\ i + size <= data_size[b]
      /\ live' = live \cup {Allocation(b, i, size, al)}
      /\ current_idx' = [current_idx EXCEPT ![b] = i + size]
      /\ UNCHANGED <<chain, data_size, heap, refused>>
  BY Zenon DEF AllocateFits
<1>3. current_idx[b] \in Nat BY <1>1, Zenon DEF AInv, TypeOK
<1>4. i \in Nat /\ i >= current_idx[b] /\ (Header + i) % al = 0 BY <1>3, AlignUp, Zenon
<1>5. size \in Nat BY ArenaAssumption, Zenon
<1> HIDE DEF b, i
<1>6. TypeOK'
  <2>1. current_idx' \in [Blocks -> Nat] BY <1>1, <1>2, <1>4, <1>5 DEF AInv, TypeOK
  <2>2. \A a \in live' : /\ a.block \in Blocks /\ a.idx \in Nat
                         /\ a.size \in Sizes /\ a.alignment \in Alignments
    BY <1>1, <1>2, <1>4 DEF Allocation, AInv, TypeOK
  <2> QED BY <1>2, <2>1, <2>2, Zenon DEF AInv, TypeOK
<1>7. BlocksOwned' BY <1>2, ListsUnchanged, Zenon DEF AInv
<1>8. LiveInside' /\ LiveDisjoint' /\ LiveBelowIndex'
  <2>1. \A c \in heap : data_size'[c] = data_size[c] /\ current_idx'[c] >= current_idx[c]
    BY <1>1, <1>2, <1>3, <1>4, <1>5 DEF AInv, TypeOK
  <2>2. \A a \in live : a.block = b => a.idx + a.size <= i
    <3>1. TAKE a \in live
    <3>2. a.idx \in Nat /\ a.size \in Nat BY ArenaAssumption, Zenon DEF AInv, TypeOK
    <3>3. a.idx + a.size <= current_idx[a.block] BY Zenon DEF AInv, LiveBelowIndex
    <3> QED BY <1>3, <1>4, <3>2, <3>3
  <2>3. i + size <= current_idx'[b] BY <1>1, <1>2, <1>4, <1>5 DEF AInv, TypeOK
  <2>4. data_size' \in [Blocks -> Nat] /\ current_idx' \in [Blocks -> Nat]
    BY <1>6, Zenon DEF TypeOK
  <2> QED BY <1>1, <1>2, <1>4, <2>1, <2>2, <2>3, <2>4, AllocationJoins, Zenon
<1> QED BY <1>6, <1>7, <1>8, Zenon DEF AInv

(* What a growth adds: a block that was not in the heap, with room.        *)
GrowsInto(m, size, al, n, total) ==
    /\ Doubled(NextTotal(Newest(m)), size, total)
    /\ heap' = heap \cup {n}
    /\ chain' = [chain EXCEPT ![m] = <<n>> \o chain[m]]
    /\ data_size' = [data_size EXCEPT ![n] = total - Header]
    /\ current_idx' = [current_idx EXCEPT ![Newest(m)] = align(current_idx[Newest(m)], al),
                                          ![n] = size]
    /\ live' = live \cup {Allocation(n, 0, size, al)}
    /\ UNCHANGED refused

(* A new block in front of a list.                                         *)
LEMMA ListGrows ==
    ASSUME AInv, NEW m \in Arenas, NEW n \in Blocks \ heap,
           chain' = [chain EXCEPT ![m] = <<n>> \o chain[m]],
           heap' = heap \cup {n}, Chained(m) \subseteq heap
    PROVE  chain' \in [Arenas -> Seq(Blocks)] /\ BlocksOwned'
<1> DEFINE s == <<n>> \o chain[m]
<1>1. chain[m] \in Seq(Blocks) BY Zenon DEF AInv, TypeOK
<1>2. /\ s \in Seq(Blocks) /\ Len(s) = Len(chain[m]) + 1 /\ s[1] = n
      /\ \A i \in 2..Len(s) : s[i] = chain[m][i - 1]
  BY <1>1, OneBlock, ConcatProperties
<1>3. chain' = [chain EXCEPT ![m] = s] BY Zenon
<1> HIDE DEF s
<1>4. Len(chain[m]) \in Nat BY <1>1, LenProperties, Zenon
<1>5. \A i \in 1..Len(s) : i = 1 \/ (i \in 2..Len(s) /\ i - 1 \in 1..Len(chain[m]))
  BY <1>2, <1>4
<1>6. \A i \in 2..Len(s) : s[i] \in Chained(m)
  <2>1. TAKE i \in 2..Len(s)
  <2>2. i - 1 \in 1..Len(chain[m]) /\ s[i] = chain[m][i - 1] BY <1>2, <1>4
  <2> QED BY <2>2, Zenon DEF Chained
<1>7. \A i \in 1..Len(s) : s[i] \in Chained(m) \/ s[i] \notin heap BY <1>2, <1>5, <1>6, Zenon
<1>8. ASSUME NEW i \in 1..Len(s), NEW j \in 1..Len(s), s[i] = s[j]
      PROVE  i = j
  <2>1. n \notin Chained(m) BY Zenon
  <2>2. CASE i = 1 \/ j = 1 BY <1>2, <1>5, <1>6, <1>8, <2>1, <2>2, Zenon
  <2>3. CASE i # 1 /\ j # 1
    <3>1. i - 1 \in 1..Len(chain[m]) /\ j - 1 \in 1..Len(chain[m]) BY <1>5, <2>3, Zenon
    <3>2. chain[m][i - 1] = chain[m][j - 1] BY <1>2, <1>5, <1>8, <2>3, Zenon
    <3>3. i - 1 = j - 1 BY <3>1, <3>2 DEF AInv, BlocksOwned
    <3> QED BY <1>4, <1>2, <3>3
  <2> QED BY <2>2, <2>3, Zenon
<1>9. {s[i] : i \in 1..Len(s)} = Chained(m) \cup {n}
  <2>1. \A i \in 1..Len(s) : s[i] \in Chained(m) \cup {n} BY <1>2, <1>5, <1>6, Zenon
  <2>2. ASSUME NEW c \in Chained(m) PROVE \E i \in 1..Len(s) : c = s[i]
    <3>1. PICK k \in 1..Len(chain[m]) : c = chain[m][k] BY Zenon DEF Chained
    <3>2. k + 1 \in 2..Len(s) /\ (k + 1) - 1 = k /\ k + 1 \in 1..Len(s) BY <1>2, <1>4
    <3>3. c = s[k + 1] BY <1>2, <3>1, <3>2, Zenon
    <3> QED BY <3>2, <3>3, Zenon
  <2>3. 1 \in 1..Len(s) BY <1>2, <1>4
  <2> QED BY <1>2, <2>1, <2>2, <2>3
<1>10. heap' = (heap \ Chained(m)) \cup {s[i] : i \in 1..Len(s)} BY <1>9, Zenon
<1>11. BlocksOwned' BY <1>2, <1>3, <1>7, <1>8, <1>10, ListReplaced, Zenon
<1>12. chain' \in [Arenas -> Seq(Blocks)] BY <1>2, <1>3, Zenon DEF AInv, TypeOK
<1> QED BY <1>11, <1>12, Zenon

(* An allocation that starts a new block.                                  *)
LEMMA GrowsIntoKeeps ==
    ASSUME AInv, NEW m \in Arenas, Built(m), NEW size \in Sizes, NEW al \in Alignments,
           NEW n \in Blocks \ heap, NEW total, GrowsInto(m, size, al, n, total)
    PROVE  AInv'
<1> DEFINE b == Newest(m)
           i == align(current_idx[b], al)
<1>1. Chained(m) \subseteq heap /\ b \in heap /\ b \in Blocks BY ListEnds, Zenon
<1>2. total - Header \in Nat /\ total - Header >= size
  BY <1>1, NextTotalLarge, DoubledFits, Zenon DEF GrowsInto, AInv
<1>3. current_idx[b] \in Nat BY <1>1, Zenon DEF AInv, TypeOK
<1>4. i \in Nat /\ i >= current_idx[b] BY <1>3, AlignUp, Zenon
<1>5. /\ heap' = heap \cup {n}
      /\ data_size' = [data_size EXCEPT ![n] = total - Header]
      /\ current_idx' = [current_idx EXCEPT ![b] = i, ![n] = size]
      /\ live' = live \cup {Allocation(n, 0, size, al)}
      /\ refused' = refused
  BY Zenon DEF GrowsInto
<1>6. chain' \in [Arenas -> Seq(Blocks)] /\ BlocksOwned'
  BY <1>1, ListGrows, Zenon DEF GrowsInto
<1>7. size \in Nat /\ b # n /\ 0 \in Nat BY <1>1, ArenaAssumption, Zenon
<1>8. (Header + 0) % al = 0 BY ArenaAssumption
<1> HIDE DEF b, i
<1>9. data_size' \in [Blocks -> Nat] /\ current_idx' \in [Blocks -> Nat]
  BY <1>1, <1>2, <1>4, <1>5, <1>7, Zenon DEF AInv, TypeOK
<1>10. TypeOK'
  <2>1. \A a \in live' : /\ a.block \in Blocks /\ a.idx \in Nat
                         /\ a.size \in Sizes /\ a.alignment \in Alignments
    BY <1>5 DEF Allocation, AInv, TypeOK
  <2> QED BY <1>5, <1>6, <1>9, <2>1, Zenon DEF AInv, TypeOK
<1>11. LiveInside' /\ LiveDisjoint' /\ LiveBelowIndex'
  <2>1. \A c \in heap : data_size'[c] = data_size[c] /\ current_idx'[c] >= current_idx[c]
    BY <1>1, <1>3, <1>4, <1>5, <1>7 DEF AInv, TypeOK
  <2>2. \A a \in live : a.block = n => a.idx + a.size <= 0
    BY Zenon DEF AInv, LiveInside
  <2>3. 0 + size <= data_size'[n] /\ 0 + size <= current_idx'[n]
    BY <1>1, <1>2, <1>5, <1>7 DEF AInv, TypeOK
  <2> DEFINE z == 0
  <2>4. /\ z \in Nat /\ live' = live \cup {Allocation(n, z, size, al)}
        /\ \A a \in live : a.block = n => a.idx + a.size <= z
        /\ z + size <= data_size'[n] /\ z + size <= current_idx'[n]
        /\ (Header + z) % al = 0
    BY <1>5, <1>7, <1>8, <2>2, <2>3, Zenon
  <2> HIDE DEF z
  <2>5. heap \subseteq heap' /\ n \in heap' BY <1>5, Zenon
  <2> QED BY <1>9, <2>1, <2>4, <2>5, AllocationJoins, Zenon
<1> QED BY <1>6, <1>10, <1>11, Zenon DEF AInv

(* A growth ends the process or adds a block.                              *)
LEMMA GrowthCases ==
    ASSUME AInv, NEW m \in Arenas, NEW size \in Sizes, NEW al \in Alignments,
           AllocateGrows(m, size, al)
    PROVE  \/ \E total \in Nat : Exhausted(total)
           \/ \E n \in Blocks \ heap : \E total : GrowsInto(m, size, al, n, total)
<1>1. Built(m) /\ Newest(m) \in Blocks BY ListEnds, Zenon DEF AllocateGrows
<1>2. PICK total : /\ Doubled(NextTotal(Newest(m)), size, total)
                   /\ \/ Exhausted(total)
                      \/ \E n \in Blocks \ heap : GrowsInto(m, size, al, n, total)
  BY <1>1, Zenon DEF AllocateGrows, GrowsInto, AInv, TypeOK
<1>3. total \in Nat BY <1>1, <1>2, NextTotalLarge, DoubledFits, Zenon DEF AInv
<1> QED BY <1>2, <1>3, Zenon

(* An allocation that needs a new block keeps the invariant, whether       *)
(* malloc succeeds or not.                                                 *)
LEMMA AllocateGrowsKeeps ==
    ASSUME AInv, NEW m \in Arenas, NEW size \in Sizes, NEW al \in Alignments,
           AllocateGrows(m, size, al)
    PROVE  AInv'
<1>1. Built(m) BY Zenon DEF AllocateGrows
<1> QED BY <1>1, GrowthCases, ExhaustedKeeps, GrowsIntoKeeps, Zenon

-----------------------------------------------------------------------------
(* Nothing is built at first.                                              *)
LEMMA ArenaInit == Init => AInv
<1> SUFFICES ASSUME Init PROVE AInv
  BY Zenon
<1>1. <<>> \in Seq(Blocks) /\ Len(<<>>) = 0 OBVIOUS
<1>2. TypeOK BY <1>1, Zenon DEF Init, TypeOK
<1>3. BlocksOwned BY <1>1 DEF Init, BlocksOwned, Chained
<1> QED BY <1>2, <1>3, Zenon DEF Init, AInv, LiveInside, LiveDisjoint, LiveBelowIndex

(* Every step keeps the invariant.                                         *)
LEMMA ArenaNext == AInv /\ [Next]_vars => AInv'
<1> SUFFICES ASSUME AInv, [Next]_vars PROVE AInv'
  BY Zenon
<1>1. CASE UNCHANGED vars
  BY <1>1 DEF vars, AInv, TypeOK, BlocksOwned, LiveInside, LiveDisjoint, LiveBelowIndex, Chained
<1>2. CASE Next
  BY <1>2, ConstructKeeps, DestroyKeeps, AllocateFitsKeeps, AllocateGrowsKeeps, ReleaseKeeps,
     ReallocateReplacesKeeps, MoveConstructKeeps, MoveAssignKeeps, Zenon DEF Next
<1> QED BY <1>1, <1>2, Zenon

(* The inductive invariant holds in every behaviour.                       *)
THEOREM ArenaInvariant == Spec => []AInv
BY ArenaInit, ArenaNext, PTL DEF Spec

(* The memory an arena hands out stays valid, inside its block and aligned *)
(* until that arena releases it, whatever arenas grow, move or shrink.     *)
THEOREM ArenaMemoryValid == Spec => []LiveInside
BY ArenaInvariant, PTL DEF AInv

(* No two allocations share a byte.                                        *)
THEOREM ArenaMemoryApart == Spec => []LiveDisjoint
BY ArenaInvariant, PTL DEF AInv

(* No block is leaked, freed twice or shared.                              *)
THEOREM ArenaBlocksOwned == Spec => []BlocksOwned
BY ArenaInvariant, PTL DEF AInv

(* The sizes never wrap.                                                   *)
THEOREM ArenaTypeCorrect == Spec => []TypeOK
BY ArenaInvariant, PTL DEF AInv

-----------------------------------------------------------------------------
(* The list of m has a new block in front.                                 *)
Grown(m) == /\ Len(chain[m]) > 0
            /\ Len(chain'[m]) = Len(chain[m]) + 1
            /\ chain'[m][1] \notin heap

(* Only an allocation grows a list.                                        *)
LEMMA OnlyAllocateGrows ==
    ASSUME AInv, [Next]_vars, NEW o \in Arenas, Grown(o)
    PROVE  \E size \in Sizes, al \in Alignments : AllocateGrows(o, size, al)
<1>1. chain[o] \in Seq(Blocks) /\ Len(chain[o]) \in Nat BY LenProperties, Zenon DEF AInv, TypeOK
<1>2. chain'[o] # chain[o] BY <1>1 DEF Grown
<1>3. Len(chain'[o]) # 1 /\ Len(chain'[o]) # 0 /\ chain[o] # <<>> BY <1>1 DEF Grown
<1>4. \A m \in Arenas : Built(m) => Newest(m) \in heap /\ Oldest(m) \in heap BY ListEnds, Zenon
<1>5. Next BY <1>2, Zenon DEF vars
<1>6. PICK m \in Arenas :
          \/ \E total \in Totals : Construct(m, total)
          \/ \E size \in Sizes, al \in Alignments :
                  AllocateFits(m, size, al) \/ AllocateGrows(m, size, al)
          \/ Release(m) \/ ReallocateKeeps(m) \/ ReallocateReplaces(m) \/ Destroy(m)
          \/ \E other \in Arenas : MoveConstruct(m, other) \/ MoveAssign(m, other)
  BY <1>5, Zenon DEF Next
<1>7. chain \in [Arenas -> Seq(Blocks)] BY Zenon DEF AInv, TypeOK
<1>8. \A b : Len(<<b>>) = 1 BY Zenon
<1>9. \A total : ~Exhausted(total) BY <1>2, Zenon DEF Exhausted
<1>10. ASSUME NEW total \in Totals, Construct(m, total) PROVE FALSE
  BY <1>2, <1>3, <1>7, <1>8, <1>9, <1>10 DEF Construct
<1>11. ASSUME NEW size, NEW al, AllocateFits(m, size, al) PROVE FALSE
  BY <1>2, <1>11, Zenon DEF AllocateFits
<1>12. ~Release(m) BY <1>2, <1>3, <1>7, <1>8, Zenon DEF Release
<1>13. ~ReallocateKeeps(m) BY <1>2, <1>3, <1>7, <1>8, Zenon DEF ReallocateKeeps
<1>14. ~ReallocateReplaces(m) BY <1>2, <1>3, <1>7, <1>8, <1>9 DEF ReallocateReplaces
<1>15. ~Destroy(m)
  <2>1. Len(<<>>) = 0 BY Zenon
  <2> QED BY <1>2, <1>3, <1>7, <2>1, Zenon DEF Destroy
<1>16. ASSUME NEW other \in Arenas, MoveConstruct(m, other) PROVE FALSE
  <2>1. PICK n : chain' = [chain EXCEPT ![m] = chain[other], ![other] = <<n>>]
    BY <1>9, <1>16, Zenon DEF MoveConstruct
  <2>2. o # m BY <1>3, <1>16, Zenon DEF MoveConstruct, Absent
  <2>3. CASE o = other
    <3>1. chain'[o] = <<n>> BY <1>7, <2>1, <2>3, Zenon
    <3> QED BY <1>3, <1>8, <3>1, Zenon
  <2>4. CASE o # other
    <3>1. chain'[o] = chain[o] BY <1>7, <2>1, <2>2, <2>4, Zenon
    <3> QED BY <1>2, <3>1, Zenon
  <2> QED BY <2>3, <2>4, Zenon
<1>17. ASSUME NEW other \in Arenas, MoveAssign(m, other) PROVE FALSE
  <2>1. Newest(other) \in heap /\ m # other BY <1>4, <1>17, Zenon DEF MoveAssign
  <2>2. CASE o = other BY <1>3, <1>7, <1>8, <1>17, <2>1, <2>2, Zenon DEF MoveAssign
  <2>3. CASE o = m /\ o # other
    <3>1. chain'[o] = chain[other] BY <1>7, <1>17, <2>3, Zenon DEF MoveAssign
    <3> QED BY <2>1, <3>1, Zenon DEF Newest, Grown
  <2>4. CASE o # m /\ o # other BY <1>2, <1>7, <1>17, <2>4, Zenon DEF MoveAssign
  <2> QED BY <2>2, <2>3, <2>4, Zenon
<1>18. PICK size \in Sizes, al \in Alignments : AllocateGrows(m, size, al)
  BY <1>6, <1>10, <1>11, <1>12, <1>13, <1>14, <1>15, <1>16, <1>17, Zenon
<1>19. o = m BY <1>2, <1>7, <1>9, <1>18, Zenon DEF AllocateGrows
<1> QED BY <1>18, <1>19, Zenon

(* A size past the limit was doubled for the allocation.                   *)
LEMMA DoubledPastLimit ==
    ASSUME NEW from \in Nat, from <= maximum_block_size, NEW size \in Nat, NEW total,
           Doubled(from, size, total), total > maximum_block_size
    PROVE  total < 2 * (size + Header)
<1>1. PICK f \in Doublings : total = from * f /\ (f > 1 => from * (f \div 2) - Header < size)
  BY Zenon DEF Doubled
<1>2. f \in Nat \ {0} /\ (f = 1 \/ f % 2 = 0) /\ Header \in Nat /\ maximum_block_size \in Nat
  BY ArenaAssumption, Zenon
<1>3. f # 1 BY <1>1, <1>2
<1>4. PICK h \in Nat : h = f \div 2 /\ f = 2 * h BY <1>2, <1>3
<1>5. from * h \in Nat /\ total = 2 * (from * h) BY <1>1, <1>4
<1>6. from * h - Header < size BY <1>1, <1>2, <1>3, <1>4
<1> QED BY <1>2, <1>5, <1>6

(* No block exceeds maximum_block_size unless one allocation needs it, for *)
(* any limits and sizes.                                                   *)
THEOREM ArenaGrowthBounded == Spec => GrowthBounded
<1>1. ASSUME AInv, [Next]_vars, NEW m \in Arenas, Grown(m) PROVE GrowthFits(chain'[m][1])
  <2>1. PICK size \in Sizes, al \in Alignments : AllocateGrows(m, size, al)
    BY <1>1, OnlyAllocateGrows, Zenon
  <2>2. \A total : ~Exhausted(total)
    <3>1. chain[m] \in Seq(Blocks) /\ Len(chain[m]) \in Nat
      BY <1>1, LenProperties, Zenon DEF AInv, TypeOK
    <3> QED BY <1>1, <3>1 DEF Exhausted, Grown
  <2>3. PICK n \in Blocks \ heap : \E total : GrowsInto(m, size, al, n, total)
    BY <1>1, <2>1, <2>2, GrowthCases, Zenon
  <2>4. PICK total : GrowsInto(m, size, al, n, total) BY <2>3, Zenon
  <2>5. Newest(m) \in Blocks BY <1>1, <2>1, ListEnds, Zenon DEF AllocateGrows
  <2>6. chain'[m][1] = n
    <3>1. chain[m] \in Seq(Blocks) /\ chain \in [Arenas -> Seq(Blocks)]
      BY <1>1, Zenon DEF AInv, TypeOK
    <3>2. (<<n>> \o chain[m])[1] = n BY <3>1, OneBlock, ConcatProperties
    <3> QED BY <2>4, <3>1, <3>2, Zenon DEF GrowsInto
  <2>7. /\ NextTotal(Newest(m)) \in Nat /\ NextTotal(Newest(m)) <= maximum_block_size
        /\ Doubled(NextTotal(Newest(m)), size, total) /\ total \in Nat
    BY <1>1, <2>4, <2>5, NextTotalLarge, DoubledFits, Zenon DEF GrowsInto, AInv
  <2>8. size \in Nat /\ Header \in Nat /\ maximum_block_size \in Nat BY ArenaAssumption, Zenon
  <2>9. data_size'[n] + Header = total
    BY <1>1, <2>4, <2>7, <2>8 DEF GrowsInto, AInv, TypeOK
  <2>10. \A a \in live' : a.block = n => a.size = size
    <3>1. live' = live \cup {Allocation(n, 0, size, al)} BY <2>4, Zenon DEF GrowsInto
    <3>2. \A a \in live : a.block # n BY <1>1, Zenon DEF AInv, LiveInside
    <3>3. Allocation(n, 0, size, al).size = size BY Zenon DEF Allocation
    <3> QED BY <3>1, <3>2, <3>3, Zenon
  <2>11. total <= maximum_block_size \/ total < 2 * (size + Header)
    BY <2>7, <2>8, DoubledPastLimit
  <2> QED BY <2>6, <2>9, <2>10, <2>11, Zenon DEF GrowthFits
<1>2. AInv /\ [Next]_vars => [\A m \in Arenas : Grown(m) => GrowthFits(chain'[m][1])]_vars
  BY <1>1, Zenon
<1> QED BY <1>2, ArenaInvariant, PTL DEF Spec, GrowthBounded, Grown

-----------------------------------------------------------------------------
(* One element for every unit that f adds up over s, so that a sum is a    *)
(* cardinality.                                                            *)
Units(f, s) == UNION {{x} \X (1..f[x]) : x \in s}

(* A finite sum of natural numbers has finitely many units.                *)
LEMMA UnitsFinite ==
  ASSUME NEW s, IsFiniteSet(s), NEW f, \A x \in s : f[x] \in Nat
  PROVE  IsFiniteSet(Units(f, s))
<1> DEFINE C == {{x} \X (1..f[x]) : x \in s}
           h == [x \in s |-> {x} \X (1..f[x])]
<1>1. h \in Surjection(s, C) BY Zenon DEF Surjection
<1>2. IsFiniteSet(C)
  <2> HIDE DEF C, h
  <2> QED BY <1>1, FS_Surjection, Zenon
<1>3. ASSUME NEW x \in s PROVE IsFiniteSet({x} \X (1..f[x]))
  <2>1. IsFiniteSet({x}) BY FS_Singleton, Zenon
  <2>2. IsFiniteSet(1..f[x]) BY FS_Interval
  <2> QED BY <2>1, <2>2, FS_Product, Zenon
<1>4. \A T \in C : IsFiniteSet(T) BY <1>3, Zenon
<1>5. IsFiniteSet(UNION C)
  <2> HIDE DEF C
  <2> QED BY <1>2, <1>4, FS_UNION, Zenon
<1> QED BY <1>5, Zenon DEF Units

(* Taking one summand away takes its units away.                           *)
LEMMA UnitsOfOne ==
  ASSUME NEW s, IsFiniteSet(s), NEW f, \A x \in s : f[x] \in Nat, NEW x \in s
  PROVE  /\ Cardinality(Units(f, s)) \in Nat
         /\ Cardinality(Units(f, s)) = f[x] + Cardinality(Units(f, s \ {x}))
<1> DEFINE A == {x} \X (1..f[x])
           B == Units(f, s \ {x})
<1>1. IsFiniteSet(A) /\ Cardinality(A) = f[x]
  <2>1. IsFiniteSet({x}) /\ Cardinality({x}) = 1 BY FS_Singleton, Zenon
  <2>2. IsFiniteSet(1..f[x]) /\ Cardinality(1..f[x]) = f[x] BY FS_Interval
  <2>3. IsFiniteSet(A) /\ Cardinality(A) = Cardinality({x}) * Cardinality(1..f[x])
    BY <2>1, <2>2, FS_Product, Zenon
  <2>4. 1 * f[x] = f[x] OBVIOUS
  <2> QED BY <2>1, <2>2, <2>3, <2>4, Zenon
<1>2. IsFiniteSet(s \ {x}) BY FS_RemoveElement, Zenon
<1>3. IsFiniteSet(B)
  <2>1. \A y \in s \ {x} : f[y] \in Nat BY Zenon
  <2> QED BY <1>2, <2>1, UnitsFinite, Zenon
<1>4. Units(f, s) = A \cup B BY Zenon DEF Units
<1>5. A \cap B = {} BY DEF Units
<1> HIDE DEF A, B
<1>6. Cardinality(A \cup B) = Cardinality(A) + Cardinality(B) - Cardinality(A \cap B)
  BY <1>1, <1>3, FS_Union, Zenon
<1>7. Cardinality(A \cap B) = 0 BY <1>5, FS_EmptySet, Zenon
<1>8. Cardinality(B) \in Nat BY <1>3, FS_CardinalityType, Zenon
<1>9. Cardinality(Units(f, s)) = f[x] + Cardinality(B) BY <1>1, <1>4, <1>6, <1>7, <1>8
<1>10. f[x] \in Nat BY Zenon
<1> QED BY <1>8, <1>9, <1>10 DEF B

(* What the recursion of MapThenSumSet computes for the parts of S.        *)
Adds(g, f, S) ==
    g = [s \in SUBSET S |-> IF s = {} THEN 0
                            ELSE f[CHOOSE x \in s : TRUE] + g[s \ {CHOOSE x \in s : TRUE}]]

(* Counting units satisfies the recursion ...                              *)
LEMMA UnitsAdd ==
  ASSUME NEW S, IsFiniteSet(S), NEW f, \A x \in S : f[x] \in Nat
  PROVE  \E g : Adds(g, f, S)
<1> DEFINE g == [s \in SUBSET S |-> Cardinality(Units(f, s))]
           k == [s \in SUBSET S |-> IF s = {} THEN 0
                            ELSE f[CHOOSE x \in s : TRUE] + g[s \ {CHOOSE x \in s : TRUE}]]
<1>1. ASSUME NEW s \in SUBSET S PROVE g[s] = k[s]
  <2>1. CASE s = {}
    <3>1. Units(f, {}) = {} BY Zenon DEF Units
    <3> QED BY <2>1, <3>1, FS_EmptySet, Zenon
  <2>2. CASE s # {}
    <3> DEFINE x == CHOOSE x \in s : TRUE
    <3>1. x \in s BY <2>2, Zenon
    <3>2. k[s] = f[x] + g[s \ {x}] BY <2>2, Zenon
    <3>3. s \ {x} \in SUBSET S BY Zenon
    <3>4. g[s \ {x}] = Cardinality(Units(f, s \ {x})) BY <3>3, Zenon
    <3>5. IsFiniteSet(s) BY FS_Subset, Zenon
    <3>6. \A y \in s : f[y] \in Nat BY Zenon
    <3> HIDE DEF x, k
    <3>7. Cardinality(Units(f, s)) = f[x] + Cardinality(Units(f, s \ {x}))
      BY <3>1, <3>5, <3>6, UnitsOfOne, Zenon
    <3> QED BY <3>2, <3>4, <3>7, Zenon
  <2> QED BY <2>1, <2>2, Zenon
<1>2. g = k
  <2>1. g = [s \in SUBSET S |-> g[s]] BY Zenon
  <2>2. k = [s \in SUBSET S |-> k[s]] OBVIOUS
  <2> HIDE DEF g, k
  <2>3. [s \in SUBSET S |-> g[s]] = [s \in SUBSET S |-> k[s]] BY <1>1, Zenon
  <2> QED BY <2>1, <2>2, <2>3, Zenon
<1>3. g = [s \in SUBSET S |-> IF s = {} THEN 0
                            ELSE f[CHOOSE x \in s : TRUE] + g[s \ {CHOOSE x \in s : TRUE}]]
  BY <1>2, Zenon
<1> HIDE DEF g
<1> QED BY <1>3, Zenon DEF Adds

(* ... and whatever satisfies it counts them: a smallest part of S where   *)
(* they differ would have a smaller one.                                   *)
LEMMA AddsUnits ==
  ASSUME NEW S, IsFiniteSet(S), NEW f, \A x \in S : f[x] \in Nat, NEW g, Adds(g, f, S)
  PROVE  g[S] = Cardinality(Units(f, S))
<1> DEFINE R == StrictSubsetOrdering(S)
           T == {s \in SUBSET S : g[s] # Cardinality(Units(f, s))}
<1> SUFFICES ASSUME S \in T PROVE FALSE
  BY Zenon
<1>1. FiniteSubsetsOf(S) = SUBSET S BY FS_FiniteSubsetsOfFinite, Zenon
<1>2. IsWellFoundedOn(R, SUBSET S) BY <1>1, FS_StrictSubsetOrderingWellFounded, Zenon
<1>3. T \subseteq SUBSET S /\ T # {} BY Zenon
<1>4. \E s \in T : \A u \in T : ~(<<u, s>> \in R)
  <2> HIDE DEF R, T
  <2> QED BY <1>2, <1>3, WFMin, Zenon
<1>5. PICK s \in T : \A u \in T : ~(<<u, s>> \in R) BY <1>4, Zenon
<1>6. s \in SUBSET S /\ g[s] # Cardinality(Units(f, s)) BY <1>5, Zenon
<1>7. g[s] = IF s = {} THEN 0
             ELSE f[CHOOSE x \in s : TRUE] + g[s \ {CHOOSE x \in s : TRUE}]
  BY <1>6, Zenon DEF Adds
<1>8. s # {}
  <2>1. Units(f, {}) = {} BY Zenon DEF Units
  <2> QED BY <1>6, <1>7, <2>1, FS_EmptySet, Zenon
<1> DEFINE x == CHOOSE x \in s : TRUE
<1>9. x \in s BY <1>8, Zenon
<1>10. g[s] = f[x] + g[s \ {x}] BY <1>7, <1>8, Zenon
<1> HIDE DEF x
<1>11. <<s \ {x}, s>> \in R
  <2>1. s \ {x} \subseteq s /\ s \ {x} # s /\ s \ {x} \subseteq S BY <1>6, <1>9, Zenon
  <2> QED BY <1>6, <2>1, Zenon DEF StrictSubsetOrdering
<1>12. g[s \ {x}] = Cardinality(Units(f, s \ {x})) BY <1>5, <1>6, <1>11, Zenon
<1>13. IsFiniteSet(s) BY <1>6, FS_Subset, Zenon
<1>14. \A y \in s : f[y] \in Nat BY <1>6, Zenon
<1>15. Cardinality(Units(f, s)) = f[x] + Cardinality(Units(f, s \ {x}))
  BY <1>9, <1>13, <1>14, UnitsOfOne, Zenon
<1> QED BY <1>6, <1>10, <1>12, <1>15, Zenon

(* What Used adds up.                                                      *)
Fill(m) == [i \in 1..Len(chain[m]) |-> current_idx[chain[m][i]]]

(* Used counts the bytes below the index of every block of m.              *)
LEMMA UsedCounts ==
  ASSUME TypeOK, NEW m \in Arenas
  PROVE  Used(m) = Cardinality(Units(Fill(m), 1..Len(chain[m])))
<1> DEFINE S == 1..Len(chain[m])
           c(s) == CHOOSE x \in s : TRUE
<1>1. Len(chain[m]) \in Nat /\ \A i \in S : chain[m][i] \in Blocks BY DEF TypeOK
<1>2. IsFiniteSet(S) BY <1>1, FS_Interval
<1>3. \A i \in S : Fill(m)[i] = current_idx[chain[m][i]] BY Zenon DEF Fill
<1>4. \A i \in S : Fill(m)[i] \in Nat BY <1>1, <1>3, Zenon DEF TypeOK
<1> DEFINE Rec(g) == g = [s \in SUBSET S |-> IF s = {} THEN 0
                 ELSE current_idx[chain[m][CHOOSE x \in s : TRUE]] + g[s \ {CHOOSE x \in s : TRUE}]]
<1>5. ASSUME NEW g PROVE Adds(g, Fill(m), S) <=> Rec(g)
  <2> DEFINE p == [s \in SUBSET S |-> IF s = {} THEN 0
                   ELSE Fill(m)[CHOOSE x \in s : TRUE] + g[s \ {CHOOSE x \in s : TRUE}]]
             q == [s \in SUBSET S |-> IF s = {} THEN 0
                   ELSE current_idx[chain[m][CHOOSE x \in s : TRUE]] + g[s \ {CHOOSE x \in s : TRUE}]]
  <2>1. ASSUME NEW s \in SUBSET S, s # {} PROVE Fill(m)[c(s)] = current_idx[chain[m][c(s)]]
    <3>1. c(s) \in s BY <2>1, Zenon
    <3>2. c(s) \in S BY <3>1, Zenon
    <3> HIDE DEF c
    <3> QED BY <3>2, <1>3, Zenon
  <2>2. p = q BY <2>1
  <2> QED BY <2>2, Zenon DEF Adds
<1>6. \E g : Rec(g)
  <2> HIDE DEF Rec, S
  <2>1. PICK g : Adds(g, Fill(m), S) BY <1>2, <1>4, UnitsAdd, Zenon
  <2> QED BY <1>5, <2>1, Zenon
<1>7. \E g : Rec(g) /\ Used(m) = g[S]
  BY <1>6, Zenon DEF Used, MapThenSumSet, MapThenFoldSet
<1> HIDE DEF Rec, S
<1>8. PICK g : Rec(g) /\ Used(m) = g[S] BY <1>7, Zenon
<1>9. Adds(g, Fill(m), S) BY <1>5, <1>8, Zenon
<1>10. g[S] = Cardinality(Units(Fill(m), S)) BY <1>2, <1>4, <1>9, AddsUnits, Zenon
<1> QED BY <1>8, <1>10, Zenon DEF S

(* What InUse adds up.                                                     *)
Held(m)    == {a \in live : a.block \in Chained(m)}
Lengths(m) == [a \in Held(m) |-> a.size]

(* InUse counts the bytes of every allocation from m.                      *)
LEMMA InUseCounts ==
  ASSUME TypeOK, NEW m \in Arenas, IsFiniteSet(Held(m))
  PROVE  InUse(m) = Cardinality(Units(Lengths(m), Held(m)))
<1> DEFINE S == Held(m)
           c(s) == CHOOSE x \in s : TRUE
<1>2. IsFiniteSet(S) BY Zenon
<1>3. \A a \in S : Lengths(m)[a] = a.size BY Zenon DEF Lengths
<1>4. \A a \in S : Lengths(m)[a] \in Nat
  <2>1. \A a \in S : a.size \in Sizes BY Zenon DEF TypeOK, Held
  <2> QED BY <1>3, <2>1, ArenaAssumption, Zenon
<1> DEFINE Rec(g) == g = [s \in SUBSET S |-> IF s = {} THEN 0
                 ELSE (CHOOSE x \in s : TRUE).size + g[s \ {CHOOSE x \in s : TRUE}]]
<1>5. ASSUME NEW g PROVE Adds(g, Lengths(m), S) <=> Rec(g)
  <2> DEFINE p == [s \in SUBSET S |-> IF s = {} THEN 0
                   ELSE Lengths(m)[CHOOSE x \in s : TRUE] + g[s \ {CHOOSE x \in s : TRUE}]]
             q == [s \in SUBSET S |-> IF s = {} THEN 0
                   ELSE (CHOOSE x \in s : TRUE).size + g[s \ {CHOOSE x \in s : TRUE}]]
  <2>1. ASSUME NEW s \in SUBSET S, s # {} PROVE Lengths(m)[c(s)] = c(s).size
    <3>1. c(s) \in s BY <2>1, Zenon
    <3>2. c(s) \in S BY <3>1, Zenon
    <3> HIDE DEF c
    <3> QED BY <3>2, <1>3, Zenon
  <2>2. p = q BY <2>1
  <2> QED BY <2>2, Zenon DEF Adds
<1>6. \E g : Rec(g)
  <2> HIDE DEF Rec, S
  <2>1. PICK g : Adds(g, Lengths(m), S) BY <1>2, <1>4, UnitsAdd, Zenon
  <2> QED BY <1>5, <2>1, Zenon
<1>7. \E g : Rec(g) /\ InUse(m) = g[S]
  BY <1>6, Zenon DEF InUse, MapThenSumSet, MapThenFoldSet, Held
<1> HIDE DEF Rec, S
<1>8. PICK g : Rec(g) /\ InUse(m) = g[S] BY <1>7, Zenon
<1>9. Adds(g, Lengths(m), S) BY <1>5, <1>8, Zenon
<1>10. g[S] = Cardinality(Units(Lengths(m), S)) BY <1>2, <1>4, <1>9, AddsUnits, Zenon
<1> QED BY <1>8, <1>10, Zenon DEF S

(* The bytes handed out are different bytes below the indices of m's       *)
(* blocks, so there are no more of them than Used counts.                  *)
LEMMA InUseWithinUsed ==
  ASSUME AInv, NEW m \in Arenas
  PROVE  InUse(m) \in Nat /\ Used(m) \in Nat /\ InUse(m) <= Used(m)
<1> DEFINE S        == 1..Len(chain[m])
           place(b) == CHOOSE i \in S : chain[m][i] = b
           A        == Units(Lengths(m), Held(m))
           B        == Units(Fill(m), S)
           h        == [p \in A |-> <<place(p[1].block), p[1].idx + p[2]>>]
<1>1. TypeOK /\ LiveDisjoint /\ LiveBelowIndex BY Zenon DEF AInv
<1>2. Len(chain[m]) \in Nat /\ \A i \in S : chain[m][i] \in Blocks BY <1>1 DEF TypeOK
<1>3. ASSUME NEW a \in Held(m)
      PROVE  /\ a \in live /\ a.block \in Blocks /\ a.idx \in Nat /\ a.size \in Nat \ {0}
             /\ place(a.block) \in S /\ chain[m][place(a.block)] = a.block
  <2>1. a \in live /\ a.block \in Chained(m) BY Zenon DEF Held
  <2>2. \E i \in S : chain[m][i] = a.block BY <2>1, Zenon DEF Chained
  <2>3. a.block \in Blocks /\ a.idx \in Nat /\ a.size \in Sizes BY <1>1, <2>1, Zenon DEF TypeOK
  <2>4. a.size \in Nat \ {0} BY <2>3, ArenaAssumption, Zenon
  <2> QED BY <2>1, <2>2, <2>3, <2>4, Zenon
<1> HIDE DEF place
<1>4. ASSUME NEW p \in A
      PROVE  /\ p = <<p[1], p[2]>> /\ p[1] \in Held(m) /\ p[2] \in Nat
             /\ 1 <= p[2] /\ p[2] <= p[1].size
  <2>1. PICK a \in Held(m) : p \in {a} \X (1..Lengths(m)[a]) BY Zenon DEF Units
  <2>2. Lengths(m)[a] = a.size /\ a.size \in Nat BY <1>3, Zenon DEF Lengths
  <2>3. p = <<p[1], p[2]>> /\ p[1] = a /\ p[2] \in 1..a.size BY <2>1, <2>2
  <2> QED BY <2>2, <2>3
<1>5. ASSUME NEW p \in A PROVE h[p] \in B
  <2> DEFINE a == p[1]
             i == place(p[1].block)
             k == p[1].idx + p[2]
  <2>1. a \in Held(m) /\ p[2] \in Nat /\ 1 <= p[2] /\ p[2] <= a.size BY <1>4, Zenon
  <2>2. a \in live /\ a.block \in Blocks /\ a.idx \in Nat /\ a.size \in Nat
        /\ i \in S /\ chain[m][i] = a.block
    BY <1>3, <2>1, Zenon
  <2>3. a.idx + a.size <= current_idx[a.block] BY <1>1, <2>2, Zenon DEF LiveBelowIndex
  <2>4. current_idx[a.block] \in Nat BY <1>1, <2>2, Zenon DEF TypeOK
  <2>5. Fill(m)[i] = current_idx[a.block] BY <2>2, Zenon DEF Fill
  <2>6. k \in 1..current_idx[a.block]
    <3> DEFINE x == a.idx
               z == a.size
               c == current_idx[a.block]
               u == p[2]
    <3>1. /\ x \in Nat /\ z \in Nat /\ c \in Nat /\ u \in Nat
          /\ 1 <= u /\ u <= z /\ x + z <= c
      BY <2>1, <2>2, <2>3, <2>4, Zenon
    <3> HIDE DEF x, z, c, u
    <3>2. x + u \in 1..c BY <3>1
    <3> QED BY <3>2, Zenon DEF x, c, u
  <2>7. h[p] = <<i, k>> BY Zenon
  <2> HIDE DEF i, k, h, A
  <2>8. <<i, k>> \in {i} \X (1..Fill(m)[i]) BY <2>5, <2>6, Zenon
  <2> QED BY <2>2, <2>7, <2>8, Zenon DEF Units
<1>6. ASSUME NEW p \in A, NEW q \in A, h[p] = h[q] PROVE p = q
  <2> DEFINE a == p[1]
             c == q[1]
  <2>1. a \in Held(m) /\ p[2] \in Nat /\ 1 <= p[2] /\ p[2] <= a.size /\ p = <<a, p[2]>>
    BY <1>4, Zenon
  <2>2. c \in Held(m) /\ q[2] \in Nat /\ 1 <= q[2] /\ q[2] <= c.size /\ q = <<c, q[2]>>
    BY <1>4, Zenon
  <2>3. place(a.block) = place(c.block) /\ a.idx + p[2] = c.idx + q[2]
    <3> DEFINE i == place(a.block)
               j == place(c.block)
               k == a.idx + p[2]
               l == c.idx + q[2]
    <3>1. h[p] = <<i, k>> /\ h[q] = <<j, l>> BY Zenon
    <3> HIDE DEF i, j, k, l, h
    <3>2. <<i, k>> = <<j, l>> BY <1>6, <3>1, Zenon
    <3>3. i = j /\ k = l BY <3>2, Zenon
    <3> QED BY <3>3, Zenon DEF i, j, k, l
  <2> HIDE DEF a, c, h
  <2>4. a \in live /\ a.idx \in Nat /\ a.size \in Nat /\ chain[m][place(a.block)] = a.block
    BY <1>3, <2>1, Zenon
  <2>5. c \in live /\ c.idx \in Nat /\ c.size \in Nat /\ chain[m][place(c.block)] = c.block
    BY <1>3, <2>2, Zenon
  <2>6. a.block = c.block BY <2>3, <2>4, <2>5, Zenon
  <2>7. a = c
    <3> SUFFICES ASSUME a # c PROVE FALSE BY Zenon
    <3>1. a.idx + a.size <= c.idx \/ c.idx + c.size <= a.idx
      BY <1>1, <2>4, <2>5, <2>6, Zenon DEF LiveDisjoint
    <3>2. \A x, y, d, e, i, j \in Nat :
             /\ 1 <= i /\ i <= x /\ 1 <= j /\ j <= y /\ d + i = e + j
             => ~(d + x <= e) /\ ~(e + y <= d)
      OBVIOUS
    <3> QED BY <2>1, <2>2, <2>3, <2>4, <2>5, <3>1, <3>2, Zenon
  <2>8. p[2] = q[2] BY <2>1, <2>2, <2>3, <2>4, <2>7
  <2> QED BY <2>1, <2>2, <2>7, <2>8, Zenon
<1>7. IsFiniteSet(B)
  <2>1. IsFiniteSet(S) BY <1>2, FS_Interval
  <2>2. \A i \in S : Fill(m)[i] \in Nat BY <1>1, <1>2, Zenon DEF TypeOK, Fill
  <2> HIDE DEF S
  <2> QED BY <2>1, <2>2, UnitsFinite, Zenon
<1>8. h \in Injection(A, B)
  <2>1. h \in [A -> B]
    <3>1. h = [p \in A |-> h[p]] BY Zenon
    <3> HIDE DEF h, A, B
    <3> QED BY <1>5, <3>1, Zenon
  <2> HIDE DEF h, A, B
  <2> QED BY <1>6, <2>1, Zenon DEF Injection, IsInjective
<1>9. IsFiniteSet(A) /\ Cardinality(A) <= Cardinality(B)
  <2> HIDE DEF h, A, B
  <2> QED BY <1>7, <1>8, FS_Injection, Zenon
<1>10. IsFiniteSet(Held(m))
  <2> DEFINE e == [a \in Held(m) |-> <<a, 1>>]
  <2>1. ASSUME NEW a \in Held(m) PROVE <<a, 1>> \in A
    <3>1. Lengths(m)[a] = a.size /\ a.size \in Nat \ {0} BY <1>3, Zenon DEF Lengths
    <3>2. <<a, 1>> \in {a} \X (1..Lengths(m)[a]) BY <3>1
    <3> QED BY <3>2, Zenon DEF Units
  <2> HIDE DEF A
  <2>2. e \in Injection(Held(m), A) BY <2>1, Zenon DEF Injection, IsInjective
  <2> HIDE DEF e
  <2> QED BY <1>9, <2>2, FS_Injection, Zenon
<1>11. InUse(m) = Cardinality(A) BY <1>1, <1>10, InUseCounts, Zenon
<1>12. Used(m) = Cardinality(B) BY <1>1, UsedCounts, Zenon
<1> HIDE DEF A, B
<1>13. Cardinality(A) \in Nat /\ Cardinality(B) \in Nat BY <1>7, <1>9, FS_CardinalityType, Zenon
<1> QED BY <1>9, <1>11, <1>12, <1>13, Zenon

(* release_reallocate leaves one empty block with room for everything that *)
(* was handed out, for any number of allocations, blocks and paddings.     *)
THEOREM ArenaReallocationKeepsRoom == Spec => ReallocationKeepsRoom
<1>1. ASSUME AInv, NEW m \in Arenas, ReallocateKeeps(m) \/ ReallocateReplaces(m)
      PROVE  \/ refused' > 0
             \/ /\ Len(chain'[m]) = 1
                /\ data_size'[chain'[m][1]] >= InUse(m)
                /\ current_idx'[chain'[m][1]] = 0
  <2>1. InUse(m) \in Nat /\ Used(m) \in Nat /\ InUse(m) <= Used(m)
    BY <1>1, InUseWithinUsed, Zenon
  <2>2. TypeOK /\ chain[m] # <<>>
    BY <1>1, Zenon DEF AInv, ReallocateKeeps, ReallocateReplaces, Built
  <2>3. Newest(m) \in Blocks /\ Newest(m) \in Chained(m) /\ data_size[Newest(m)] \in Nat
    BY <2>2 DEF TypeOK, Newest, Chained
  <2>4. CASE ReallocateKeeps(m)
    <3>1. chain'[m] = <<Newest(m)>> BY <2>2, <2>4, Zenon DEF ReallocateKeeps, TypeOK
    <3>2. data_size'[Newest(m)] = data_size[Newest(m)] /\ current_idx'[Newest(m)] = 0
      BY <2>3, <2>4, Zenon DEF ReallocateKeeps, FreeAllBut, Without
    <3>3. data_size[Newest(m)] >= Used(m) BY <2>4, Zenon DEF ReallocateKeeps
    <3>4. Len(chain'[m]) = 1 /\ chain'[m][1] = Newest(m) BY <3>1
    <3> QED BY <2>1, <2>3, <3>2, <3>3, <3>4
  <2>5. CASE ReallocateReplaces(m)
    <3>1. PICK total \in Candidates(initial_size * 2) :
             /\ Doubled(initial_size * 2, Used(m), total)
             /\ \/ Exhausted(total)
                \/ \E n \in Blocks \ (heap \ Chained(m)) :
                       /\ chain' = [chain EXCEPT ![m] = <<n>>]
                       /\ data_size' = [Without(data_size, Chained(m)) EXCEPT ![n] = total - Header]
                       /\ current_idx' = [Without(current_idx, Chained(m)) EXCEPT ![n] = 0]
      BY <2>5, Zenon DEF ReallocateReplaces
    <3>2. data_size[Newest(m)] < Used(m) BY <2>5, Zenon DEF ReallocateReplaces
    <3>3. initial_size * 2 \in Nat /\ initial_size * 2 >= Header /\ Header \in Nat BY ArenaAssumption
    <3>4. total \in Nat /\ total - Header >= Used(m) BY <3>1, <3>3, DoubledFits, Zenon
    <3>5. CASE Exhausted(total)
      <4>1. refused' = total BY <3>5, Zenon DEF Exhausted
      <4>2. Used(m) > 0 BY <2>1, <2>3, <3>2
      <4>3. total > 0 BY <2>1, <3>3, <3>4, <4>2
      <4> QED BY <4>1, <4>3, Zenon
    <3>6. ASSUME NEW n \in Blocks,
                 chain' = [chain EXCEPT ![m] = <<n>>],
                 data_size' = [Without(data_size, Chained(m)) EXCEPT ![n] = total - Header],
                 current_idx' = [Without(current_idx, Chained(m)) EXCEPT ![n] = 0]
          PROVE  /\ Len(chain'[m]) = 1
                 /\ data_size'[chain'[m][1]] >= InUse(m)
                 /\ current_idx'[chain'[m][1]] = 0
      <4>1. chain'[m] = <<n>> BY <2>2, <3>6, Zenon DEF TypeOK
      <4>2. data_size'[n] = total - Header /\ current_idx'[n] = 0 BY <3>6, Zenon DEF Without
      <4>3. Len(chain'[m]) = 1 /\ chain'[m][1] = n BY <4>1
      <4>4. total - Header >= InUse(m) BY <2>1, <3>3, <3>4
      <4> QED BY <4>2, <4>3, <4>4, Zenon
    <3> QED BY <3>1, <3>5, <3>6, Zenon
  <2> QED BY <1>1, <2>4, <2>5, Zenon
<1>2. AInv /\ [Next]_vars =>
        [\A m \in Arenas : ReallocateKeeps(m) \/ ReallocateReplaces(m) =>
           \/ refused' > 0
           \/ /\ Len(chain'[m]) = 1
              /\ data_size'[chain'[m][1]] >= InUse(m)
              /\ current_idx'[chain'[m][1]] = 0]_vars
  BY <1>1, Zenon
<1> QED BY ArenaInvariant, <1>2, PTL DEF Spec, ReallocationKeepsRoom
===============================================================================
