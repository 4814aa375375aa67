\* Two threads, both of them the binding's and clients'; the extension and two other
\* listeners, subscribed in any order.  The system stops
\* when the ids and the notifications are used up and nothing can be read.
CONSTANTS
    Threads = {t1, t2}
    NoThread = NoThread
    IdSpace = 3
    Listeners = {"cache", "other"}
    ErrorListeners = {}
    CacheListener = "cache"
    Values = {v1, v2}
    NoValue = NoValue
    Torn = Torn
    Unread = Unread
    MaxNotifications = 3
SPECIFICATION CacheSpec
CHECK_DEADLOCK FALSE
INVARIANTS
    CacheAgrees
PROPERTIES
    ListenersSeeCache
    UpdatesArrive
