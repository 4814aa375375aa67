\* One thread does everything: its listeners subscribe and unsubscribe too.
CONSTANTS
    d1 = d1
    d2 = d2
    c1 = c1
    Threads <- OneThread
    Dispatchers <- OneThread
    NoThread = NoThread
    IdSpace = 3
    Listeners = {"plain", "full"}
    ErrorListeners = {"full"}
    MaxSubscribes = 3
    MaxNotifications = 3
SPECIFICATION Spec
INVARIANTS
    ArmedWhileSubscribed
    FirstOnlyWhenDisarmed
