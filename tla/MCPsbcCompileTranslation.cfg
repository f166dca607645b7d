SPECIFICATION Spec
CONSTANTS
    Threads = {t1}
    NoThread = NoThread
    NoRequest = NoRequest
    MaxCalls = 1
    Requests <- Untranslatable
    Shared <- Untranslatable
INVARIANT FailureReturnsCode
CHECK_DEADLOCK FALSE
