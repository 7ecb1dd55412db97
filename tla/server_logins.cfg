\* Two users, an authenticator that counts and one that does not: three
\* ceremonies, two requests at a time, a restart.
SPECIFICATION Spec
CONSTANTS
    Names = {alice, bob}
    Authenticators = {counter, zero}
    Counting = {counter}
    Requests = {r1, r2}
    Timeout = 1
    MaxCeremonies = 3
    MaxNow = 0
    MaxRestarts = 1
SYMMETRY ServerSymmetry
INVARIANTS CredentialOnce ExcludedStaysOut CredentialStillThere LoginsBelong
    ReplayedOnlyIfRaced
PROPERTIES CountGoesBackOnlyIfRaced
CHECK_DEADLOCK FALSE
