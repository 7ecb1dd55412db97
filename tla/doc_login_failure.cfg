\* beginLogin against its own check of croErr.
SPECIFICATION Spec
CONSTANTS
    Kinds <- Login
    MaxOptions = 3
INVARIANT DocLoginFailureRejects
\* One call, which ends.
CHECK_DEADLOCK FALSE
