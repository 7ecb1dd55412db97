\* beginLogin against index.d.ts.
SPECIFICATION Spec
CONSTANTS
    Kinds <- Login
    MaxOptions = 3
INVARIANT DocLoginAppliesAll
\* One call, which ends.
CHECK_DEADLOCK FALSE
