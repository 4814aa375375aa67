\* A binding thread that notifies, and a client thread.
CONSTANTS
    d1 = d1
    d2 = d2
    c1 = c1
    Threads <- OneDispatcher
    Dispatchers <- OneThread
    NoThread = NoThread
    IdSpace = 2
    Listeners = {"plain", "full"}
    ErrorListeners = {"full"}
    MaxSubscribes = 2
    MaxNotifications = 1
SPECIFICATION Spec
PROPERTIES
    NoDeliveryAfterUnsubscribe
