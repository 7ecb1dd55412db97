\* Two users, two ceremonies, a restart, and a clock that reaches
\* the timeout of session data.
SPECIFICATION FairSpec
CONSTANTS
    Names = {alice, bob}
    Authenticators = {counter}
    Counting = {counter}
    Requests = {r1, r2}
    Timeout = 1
    MaxCeremonies = 2
    MaxNow = 1
    MaxRestarts = 1
INVARIANTS TypeOK CredentialsBelong ArrivedInTime
PROPERTIES ImplementsRegistry EveryRequestAnswered
CHECK_DEADLOCK FALSE
