SPECIFICATION Spec
CONSTANTS
    Threads = {t1}
    NoThread = NoThread
    NoRequest = NoRequest
    MaxCalls = 1
    Requests <- WithheldLink
    Shared <- WithheldLink
INVARIANT LinkedModulesValidated
CHECK_DEADLOCK FALSE
