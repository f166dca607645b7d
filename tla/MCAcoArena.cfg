SPECIFICATION Spec
CONSTANTS
    Arenas = {m1, m2}
    Blocks = {b1, b2, b3, b4}
    Totals = {2, 16}
    Sizes = {1, 6, 30}
    Alignments = {1, 4}
    Header = 4
    initial_size = 16
    maximum_block_size = 32
    minimum_size = 8
    Doublings = {1, 2, 4, 8}
    MaxLive = 4
SYMMETRY Symmetry
INVARIANTS
    TypeOK
    BlocksOwned
    LiveInside
    LiveDisjoint
PROPERTIES
    GrowthBounded
    ReallocationKeepsRoom
CHECK_DEADLOCK FALSE
