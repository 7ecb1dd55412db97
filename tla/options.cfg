\* Either call, with up to three option functions.
SPECIFICATION Spec
CONSTANTS
    Kinds <- Both
    MaxOptions = 3
INVARIANTS TypeOK RegistrationAppliesAll FailureRejects
\* One call, which ends.
CHECK_DEADLOCK FALSE
