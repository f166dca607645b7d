SPECIFICATION FairSpec
CONSTANTS
    Threads = {t1, t2}
    NoThread = NoThread
    NoRequest = NoRequest
    MaxCalls = 2
    Shared <- ShapeRequests
    Requests <- LifecycleRequests
INVARIANTS
    TypeOK
    NirNeedsTypeCache
    RefcountExact
    NoBadFree
    IInv
    CompiledModulesValidated
    ReturnOwnership
    
PROPERTIES
    TypeCacheSpec
    CallsReturn
CHECK_DEADLOCK FALSE
