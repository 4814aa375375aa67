\* Two dispatcher threads, which also run clients' code: enough for a subscription to be
\* pending, merged or being unsubscribed while the other thread notifies.
CONSTANTS
    d1 = d1
    d2 = d2
    c1 = c1
    Threads <- TwoDispatchers
    Dispatchers <- TwoDispatchers
    NoThread = NoThread
    IdSpace = 2
    Listeners = {"plain", "full"}
    ErrorListeners = {"full"}
    MaxSubscribes = 2
    MaxNotifications = 2
SPECIFICATION FairSpec
INVARIANTS
    TypeOK
    SafeIteration
    HooksBalanced
    RemovedHookOnce
PROPERTIES
    SubscriptionsStable
    ImplementsDelivery
    CallsReturn
