\* Two threads that only subscribe and unsubscribe: no notification at all.
CONSTANTS
    d1 = d1
    d2 = d2
    c1 = c1
    Threads <- TwoDispatchers
    Dispatchers <- TwoDispatchers
    NoThread = NoThread
    IdSpace = 2
    Listeners = {"plain", "full"}
    ErrorListeners = {"full"}
    MaxSubscribes = 2
    MaxNotifications = 0
SPECIFICATION Spec
INVARIANTS
    SubscribedMeansArmed
