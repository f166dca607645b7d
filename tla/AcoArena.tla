------------------------------- MODULE AcoArena -------------------------------
(***************************************************************************)
(* aco::monotonic_buffer_resource, the arena that holds the instructions   *)
(* and the live sets of a compile: a list of blocks, newest first, of      *)
(* which only the newest is allocated from.  Arenas release everything at  *)
(* once, shrink to one block, and hand their blocks to each other when     *)
(* they are moved.  malloc may fail at any time, which ends the process    *)
(* after the size was reported to the embedder.                            *)
(***************************************************************************)
EXTENDS Integers, Sequences, FiniteSets, FiniteSetsExt

CONSTANTS
    Arenas,        \* the objects
    Blocks,        \* addresses malloc returns
    Totals,        \* sizes passed to the constructor
    Sizes,         \* sizes requested
    Alignments,    \* alignof of the types allocated
    Header,        \* sizeof(Buffer)
    initial_size, maximum_block_size, minimum_size,
    Doublings,     \* factors one growth may reach: powers of two up to a bound
    MaxLive        \* bound on the allocations alive at once

ASSUME ArenaAssumption ==
    /\ Totals \subseteq Nat /\ Sizes \subseteq Nat \ {0}
    /\ Alignments \subseteq {1, 2, 4, 8}
    /\ Header \in Nat /\ \A a \in Alignments : Header % a = 0
    /\ {initial_size, maximum_block_size, minimum_size} \subseteq Nat
    /\ Header < minimum_size /\ minimum_size <= initial_size
    /\ initial_size <= maximum_block_size
    /\ Doublings \subseteq Nat \ {0} /\ \A f \in Doublings : f = 1 \/ f % 2 = 0
    /\ MaxLive \in Nat

VARIABLES
    chain,     \* blocks of each arena, newest first; none before construction
    data_size, current_idx,
    heap,      \* blocks malloc returned that were not freed
    live,      \* what allocate returned and nobody released
    refused    \* size of the malloc that failed, 0 while the process runs

vars == <<chain, data_size, current_idx, heap, live, refused>>

Chained(m) == {chain[m][i] : i \in 1..Len(chain[m])}
Newest(m)  == chain[m][1]
Oldest(m)  == chain[m][Len(chain[m])]

Init ==
    /\ chain       = [m \in Arenas |-> <<>>]
    /\ data_size   = [b \in Blocks |-> 0]
    /\ current_idx = [b \in Blocks |-> 0]
    /\ heap        = {}
    /\ live        = {}
    /\ refused     = 0

-----------------------------------------------------------------------------
Built(m)  == refused = 0 /\ chain[m] # <<>>
Absent(m) == refused = 0 /\ chain[m] = <<>>

(* What is left of the allocations when those in some blocks are released. *)
Survivors(gone) == {a \in live : a.block \notin gone}

(* free() of the blocks in gone: they have no fields any more.             *)
Without(field, gone) == [b \in Blocks |-> IF b \in gone THEN 0 ELSE field[b]]

(* aco_arena_exhausted: nothing runs after abort().                        *)
Exhausted(total) ==
    /\ refused' = total
    /\ UNCHANGED <<chain, data_size, current_idx, heap, live>>

(* Mutant: the constructor takes any size.                                 *)
ConstructorSizeAsGiven(total) == total

ConstructorSize(total) == Max({total, minimum_size})

Construct(m, total) ==
    /\ Absent(m)
    /\ \/ Exhausted(ConstructorSize(total))
       \/ \E b \in Blocks \ heap :
              /\ heap' = heap \cup {b}
              /\ chain' = [chain EXCEPT ![m] = <<b>>]
              /\ data_size' = [data_size EXCEPT ![b] = ConstructorSize(total) - Header]
              /\ current_idx' = [current_idx EXCEPT ![b] = 0]
              /\ UNCHANGED <<live, refused>>

Destroy(m) ==
    /\ Built(m)
    /\ heap' = heap \ Chained(m)
    /\ live' = Survivors(Chained(m))
    /\ chain' = [chain EXCEPT ![m] = <<>>]
    /\ data_size' = Without(data_size, Chained(m))
    /\ current_idx' = Without(current_idx, Chained(m))
    /\ UNCHANGED refused

-----------------------------------------------------------------------------
align(i, a) == ((i + a - 1) \div a) * a

Allocation(b, i, size, a) == [block |-> b, idx |-> i, size |-> size, alignment |-> a]

(* Mutant: the index passes over the size and not over the padding.        *)
AllocateFitsUnpadded(m, size, a) ==
    LET b == Newest(m)
        i == align(current_idx[b], a)
    IN  /\ Built(m)
        /\ i + size <= data_size[b]
        /\ live' = live \cup {Allocation(b, i, size, a)}
        /\ current_idx' = [current_idx EXCEPT ![b] = @ + size]
        /\ UNCHANGED <<chain, data_size, heap, refused>>

AllocateFits(m, size, a) ==
    LET b == Newest(m)
        i == align(current_idx[b], a)
    IN  /\ Built(m)
        /\ i + size <= data_size[b]
        /\ live' = live \cup {Allocation(b, i, size, a)}
        /\ current_idx' = [current_idx EXCEPT ![b] = i + size]
        /\ UNCHANGED <<chain, data_size, heap, refused>>

(* Mutant: the header is not counted.                                      *)
DoubledWithHeader(from, size, total) ==
    \E f \in Doublings : /\ total = from * f
                         /\ total >= size
                         /\ f > 1 => from * (f \div 2) < size

(* total is from, doubled until size fits behind the header.               *)
Doubled(from, size, total) ==
    \E f \in Doublings : /\ total = from * f
                         /\ total - Header >= size
                         /\ f > 1 => from * (f \div 2) - Header < size

(* Mutant: blocks double without end.                                      *)
NextTotalUncapped(b) == (data_size[b] + Header) * 2

NextTotal(b) == Min({(data_size[b] + Header) * 2, maximum_block_size})

Candidates(from) == {from * f : f \in Doublings}

(* The index of the full block keeps the padding tried; the new block      *)
(* takes the allocation at its start.                                      *)
AllocateGrows(m, size, a) ==
    LET b == Newest(m)
        i == align(current_idx[b], a)
    IN  /\ Built(m)
        /\ i + size > data_size[b]
        /\ \E total \in Candidates(NextTotal(b)) :
               /\ Doubled(NextTotal(b), size, total)
               /\ \/ Exhausted(total)
                  \/ \E n \in Blocks \ heap :
                         /\ heap' = heap \cup {n}
                         /\ chain' = [chain EXCEPT ![m] = <<n>> \o @]
                         /\ data_size' = [data_size EXCEPT ![n] = total - Header]
                         /\ current_idx' = [current_idx EXCEPT ![b] = i, ![n] = size]
                         /\ live' = live \cup {Allocation(n, 0, size, a)}
                         /\ UNCHANGED refused

-----------------------------------------------------------------------------
(* Every block of m but b is freed, and b is empty.                        *)
FreeAllBut(m, b) ==
    /\ heap' = heap \ (Chained(m) \ {b})
    /\ live' = Survivors(Chained(m))
    /\ data_size' = Without(data_size, Chained(m) \ {b})
    /\ current_idx' = Without(current_idx, Chained(m))
    /\ UNCHANGED refused

Release(m) ==
    /\ Built(m)
    /\ FreeAllBut(m, Oldest(m))
    /\ chain' = [chain EXCEPT ![m] = <<Oldest(m)>>]

(* Mutant: only the newest block is counted.                               *)
UsedOfNewest(m) == current_idx[Newest(m)]

Used(m) == MapThenSumSet(LAMBDA i : current_idx[chain[m][i]], 1..Len(chain[m]))

(* release_reallocate when the newest block could hold everything.         *)
ReallocateKeeps(m) ==
    /\ Built(m)
    /\ data_size[Newest(m)] >= Used(m)
    /\ FreeAllBut(m, Newest(m))
    /\ chain' = [chain EXCEPT ![m] = <<Newest(m)>>]

(* Otherwise everything is freed before one block is allocated, which may  *)
(* come back at an address just freed.                                     *)
ReallocateReplaces(m) ==
    /\ Built(m)
    /\ data_size[Newest(m)] < Used(m)
    /\ \E total \in Candidates(initial_size * 2) :
           /\ Doubled(initial_size * 2, Used(m), total)
           /\ \/ Exhausted(total)
              \/ \E n \in Blocks \ (heap \ Chained(m)) :
                     /\ heap' = (heap \ Chained(m)) \cup {n}
                     /\ live' = Survivors(Chained(m))
                     /\ chain' = [chain EXCEPT ![m] = <<n>>]
                     /\ data_size' = [Without(data_size, Chained(m)) EXCEPT ![n] = total - Header]
                     /\ current_idx' = [Without(current_idx, Chained(m)) EXCEPT ![n] = 0]
                     /\ UNCHANGED refused

-----------------------------------------------------------------------------
(* The new arena makes a block of its own, which the old one is left with. *)
MoveConstruct(m, other) ==
    /\ Absent(m) /\ Built(other)
    /\ \/ Exhausted(initial_size)
       \/ \E n \in Blocks \ heap :
              /\ heap' = heap \cup {n}
              /\ chain' = [chain EXCEPT ![m] = chain[other], ![other] = <<n>>]
              /\ data_size' = [data_size EXCEPT ![n] = initial_size - Header]
              /\ current_idx' = [current_idx EXCEPT ![n] = 0]
              /\ UNCHANGED <<live, refused>>

(* Mutant: the arena assigned to takes the other list and drops its own.   *)
MoveAssignDrops(m, other) ==
    /\ m # other /\ Built(m) /\ Built(other)
    /\ chain' = [chain EXCEPT ![m] = chain[other], ![other] = <<Oldest(m)>>]
    /\ live' = Survivors(Chained(m))
    /\ current_idx' = Without(current_idx, Chained(m))
    /\ UNCHANGED <<data_size, heap, refused>>

(* The arena assigned to releases, and the two swap their lists.           *)
MoveAssign(m, other) ==
    /\ m # other /\ Built(m) /\ Built(other)
    /\ FreeAllBut(m, Oldest(m))
    /\ chain' = [chain EXCEPT ![m] = chain[other], ![other] = <<Oldest(m)>>]

Next ==
    \E m \in Arenas :
        \/ \E total \in Totals : Construct(m, total)
        \/ /\ Cardinality(live) < MaxLive
           /\ \E size \in Sizes, a \in Alignments :
                  AllocateFits(m, size, a) \/ AllocateGrows(m, size, a)
        \/ Release(m) \/ ReallocateKeeps(m) \/ ReallocateReplaces(m) \/ Destroy(m)
        \/ \E other \in Arenas : MoveConstruct(m, other) \/ MoveAssign(m, other)

Spec == Init /\ [][Next]_vars

-----------------------------------------------------------------------------
(* Every variable keeps its kind of value: the sizes the code computes by  *)
(* subtracting the header never wrap.                                      *)
TypeOK ==
    /\ chain \in [Arenas -> Seq(Blocks)]
    /\ data_size \in [Blocks -> Nat] /\ current_idx \in [Blocks -> Nat]
    /\ heap \subseteq Blocks
    /\ \A a \in live : /\ a.block \in Blocks /\ a.idx \in Nat
                       /\ a.size \in Sizes /\ a.alignment \in Alignments
    /\ refused \in Nat

(* A block from malloc is in the list of one arena, once, until it is      *)
(* freed: no release, move or destructor loses a block or keeps one that   *)
(* is gone.                                                                *)
BlocksOwned ==
    /\ heap = UNION {Chained(m) : m \in Arenas}
    /\ \A m, o \in Arenas : \A i \in 1..Len(chain[m]), j \in 1..Len(chain[o]) :
           chain[m][i] = chain[o][j] => m = o /\ i = j

(* Memory that was handed out and not released lies in a block that is     *)
(* still allocated, inside its data, aligned as asked, through growth,     *)
(* moves and releases of other arenas.                                     *)
LiveInside ==
    \A a \in live : /\ a.block \in heap
                    /\ a.idx + a.size <= data_size[a.block]
                    /\ (Header + a.idx) % a.alignment = 0

(* Two allocations never share a byte.                                     *)
LiveDisjoint ==
    \A a, c \in live :
        a # c /\ a.block = c.block => a.idx + a.size <= c.idx \/ c.idx + c.size <= a.idx

(* A block within the cap, or less than twice what its allocation needs.   *)
GrowthFits(n) ==
    \/ data_size'[n] + Header <= maximum_block_size
    \/ \A a \in live' : a.block = n => data_size'[n] + Header < 2 * (a.size + Header)

(* A block grown for an allocation is larger than maximum_block_size only  *)
(* if that allocation does not fit a smaller one, and then it is less than *)
(* twice what the allocation needs.                                        *)
GrowthBounded ==
    [][\A m \in Arenas :
           /\ Len(chain[m]) > 0
           /\ Len(chain'[m]) = Len(chain[m]) + 1
           /\ chain'[m][1] \notin heap
           => GrowthFits(chain'[m][1])]_vars

(* Bytes of m that are handed out.                                         *)
InUse(m) == MapThenSumSet(LAMBDA a : a.size, {a \in live : a.block \in Chained(m)})

(* Reallocating leaves one empty block with room for everything that was   *)
(* in use; the code does it "with the expectation that a similar amount    *)
(* will be allocated again".                                               *)
ReallocationKeepsRoom ==
    [][\A m \in Arenas : ReallocateKeeps(m) \/ ReallocateReplaces(m) =>
           \/ refused' > 0
           \/ /\ Len(chain'[m]) = 1
              /\ data_size'[chain'[m][1]] >= InUse(m)
              /\ current_idx'[chain'[m][1]] = 0]_vars
===============================================================================
