\* Two calls that may nest, exit(0), exit(1) and exit(2^32), crashes and timeouts of Go.
SPECIFICATION Spec
CONSTANTS
    Calls = {c1, c2}
    NoCall = NoCall
    NoCode = NoCode
    Codes = {0, 1, 4}
    CodeModulus = 4
    CrashCode = 2
    MaxOptions = 2
    GoCanCrash = TRUE
    GoTimers = TRUE
SYMMETRY CallSymmetry
INVARIANTS TypeOK CallbackOnce NoLostCall ExitEntersOnce ExitCodeReported EventOrder
PROPERTIES ProcessSurvives AnsweredByLiveGo KeepsContract
\* The system may stop: every call made, Go exited.
CHECK_DEADLOCK FALSE
