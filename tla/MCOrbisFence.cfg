SPECIFICATION FairSpec
CONSTANTS
    t1 = t1
    t2 = t2
    t3 = t3
    t4 = t4
    m1 = m1
    m2 = m2
    f1 = f1
    f2 = f2
    None = None
    Threads <- FirstThree
    Mutexes = {}
    Fences = {f1, f2}
    Workers = {t1}
INVARIANTS WaitMeansSignalled
PROPERTIES FenceWaitReturns
