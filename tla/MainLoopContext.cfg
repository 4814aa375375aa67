\* One kind of source and the wakeups; three listeners, so that a notification can
\* have called one, be in the callback of another, and lose or gain a third.
CONSTANTS
    Kinds = {"watches", "wakeups"}
    WakeupKind = "wakeups"
    Subscriptions = {s1, s2, s3}
    Sources = {x1, x2}
    NoSource = NoSource
    MaxDepth = 3
SYMMETRY Symmetry
SPECIFICATION Spec
INVARIANTS
    IteratorsValid
    MirrorsAgree
PROPERTIES
    ImplementsBroadcast
