\* The largest call has eight elements.  The system stops when the call has arrived or
\* failed.
CONSTANTS
    Numbers = {1, 2}
    Seconds = {1, 4, 6, 9}
    Calls <- MCCalls
    FailurePoints = {0, 1, 2, 3, 4, 5, 6, 7, 8}
SPECIFICATION Spec
CHECK_DEADLOCK FALSE
INVARIANTS
    WrittenAsDeployed
    SignatureAgrees
    RoundTrip
    FailureReported
    NothingReadAfterFailure
