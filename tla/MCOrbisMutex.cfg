SPECIFICATION Spec
CONSTANTS
    t1 = t1
    t2 = t2
    t3 = t3
    t4 = t4
    m1 = m1
    m2 = m2
    f1 = f1
    f2 = f2
    None = None
    Threads <- AllFour
    Mutexes = {m1}
    Fences = {}
    Workers = {}
SYMMETRY FourAlike
INVARIANTS TypeOK NoLostWake
PROPERTIES SimpleMtxSpec
