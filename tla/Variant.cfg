\* Three variants of two types.  What follows the use of an object that is not there is
\* undefined, and the model stops.
CONSTANTS
    zero = zero
    minusZero = minusZero
    nan = nan
    Vars = {a, b, c}
    TypeCount = 2
    Values = {zero, minusZero, nan}
    Default = zero
    Equals <- MCEquals
    Raw = Raw
SPECIFICATION Spec
CHECK_DEADLOCK FALSE
INVARIANTS
    ContentTyped
    NothingLeaks
    UndefinedOnlyIfBroken
