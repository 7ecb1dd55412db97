\* The liveness properties, without symmetry.
SPECIFICATION FairSpec
CONSTANTS
    Calls = {c1, c2}
    NoCall = NoCall
    NoCode = NoCode
    Codes = {0, 1, 4}
    CodeModulus = 4
    CrashCode = 2
    MaxOptions = 2
    GoCanCrash = TRUE
    GoTimers = TRUE
PROPERTIES StartSettles CallsSettle ExitReported
\* The system may stop: every call made, Go exited.
CHECK_DEADLOCK FALSE
