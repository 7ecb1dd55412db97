\* A sentence of index.d.ts, refuted without crashes or timeouts of Go.
SPECIFICATION Spec
CONSTANTS
    Calls = {c1}
    NoCall = NoCall
    NoCode = NoCode
    Codes = {0, 1, 4}
    CodeModulus = 4
    CrashCode = 2
    MaxOptions = 2
    GoCanCrash = FALSE
    GoTimers = FALSE
INVARIANT DocExitFires
\* The system may stop: every call made, Go exited.
CHECK_DEADLOCK FALSE
