SPECIFICATION Spec
CONSTANTS
    Threads = {t1}
    NoThread = NoThread
    NoRequest = NoRequest
    MaxCalls = 1
    Requests <- CallersNir
    Shared <- CallersNir
INVARIANT CallerNirUntouched
CHECK_DEADLOCK FALSE
