--------------------------- MODULE AttributeCache ---------------------------
(***************************************************************************)
(* AttributeCacheExtension of an observable attribute                      *)
(* (include/CommonAPI/Extensions/AttributeCacheExtension.hpp), together    *)
(* with the changed event of the attribute, of which it is one listener.   *)
(*                                                                         *)
(* The event is the abstract one of EventDelivery, to which Event is shown *)
(* to conform; here its notifications carry a value of the attribute, and  *)
(* its ids grow.  onValueUpdate() compares and assigns the cached pointer  *)
(* on the thread that notifies; getCachedValue() reads the pointer on the  *)
(* threads of the clients, and no mutex is between the two: a read during  *)
(* the assignment returns the old value, the new one, or a torn pointer.   *)
(*                                                                         *)
(* MaxNotifications and IdSpace bound the notifications and subscriptions. *)
(***************************************************************************)
EXTENDS EventDelivery

CONSTANTS
    CacheListener,    \* the listener that the extension subscribes
    Values, NoValue,  \* values of the attribute; the null pointer
    Torn,             \* what a read that races with an assignment may return
    Unread,           \* no read yet
    MaxNotifications  \* bound: notifications

ASSUME CacheListenerAssumption == CacheListener \in Listeners
ASSUME ValuesAssumption == /\ NoValue \notin Values
                           /\ Torn \notin Values \cup {NoValue}
                           /\ Unread \notin Values \cup {NoValue, Torn}
ASSUME MaxNotificationsAssumption == MaxNotifications \in Nat

VARIABLES
    cacheIds,   \* the subscription that the constructor made; empty before it
    payload,    \* the value and the call of the notification being served
    updating,   \* where the thread that notifies is in onValueUpdate()
    cached,     \* cachedValue_
    read,       \* read[t]: what getCachedValue() last returned to t
    delivered,  \* ghost: the value of the last complete onValueUpdate()
    issued,     \* the next id of the event
    notified    \* counts notifications, for MaxNotifications

cacheVars == <<vars, cacheIds, payload, updating, cached, read, delivered, issued, notified>>

NoPayload == [value |-> NoValue, kind |-> "listeners"]

CacheInit ==
    /\ Init
    /\ cacheIds = {}
    /\ payload = NoPayload
    /\ updating = "no"
    /\ cached = NoValue
    /\ read = [t \in Threads |-> Unread]
    /\ delivered = NoValue
    /\ issued = 0
    /\ notified = 0

\* The subscription of the extension, while it is live.
CacheIds == cacheIds \cap DOMAIN live

\* The constructor subscribes onValueUpdate(), and does not keep the subscription.
Construct ==
    /\ cacheIds = {}
    /\ issued \in Ids
    /\ Subscribe(issued, CacheListener)
    /\ cacheIds' = {issued}
    /\ issued' = issued + 1
    /\ UNCHANGED <<payload, updating, cached, read, delivered, notified>>

\* Other listeners of the changed event come and go.
SubscribeOther(l) ==
    /\ l # CacheListener
    /\ issued \in Ids
    /\ Subscribe(issued, l)
    /\ issued' = issued + 1
    /\ UNCHANGED <<cacheIds, payload, updating, cached, read, delivered, notified>>

UnsubscribeOther(s) ==
    /\ s \notin cacheIds
    /\ Unsubscribe(s)
    /\ UNCHANGED <<cacheIds, payload, updating, cached, read, delivered, issued, notified>>

\* notifySpecificError reports that subscribing the extension failed: it has no error
\* listener to tell, and is not updated any more, while a notification that has begun
\* still reaches it.
DropCache(s) ==
    /\ s \in cacheIds
    /\ Unsubscribe(s)
    /\ UNCHANGED <<cacheIds, payload, updating, cached, read, delivered, issued, notified>>

\* The binding notifies a value to all listeners, or to one of them.
BeginUpdate(t, c, v) ==
    /\ ~IsError(c)
    /\ notified < MaxNotifications
    /\ notified' = notified + 1
    /\ Begin(t, c)
    /\ payload' = [value |-> v, kind |-> c.kind]
    /\ UNCHANGED <<cacheIds, updating, cached, read, delivered, issued>>

\* Mutant: the callbacks of two listeners overlap.
DeliverMeanwhile(t, s) ==
    /\ s \notin cacheIds
    /\ Deliver(t, s)
    /\ UNCHANGED <<cacheIds, payload, updating, cached, read, delivered, issued, notified>>

\* The callback of another listener; it may well call getCachedValue().
DeliverOther(t, s) ==
    /\ updating = "no"
    /\ s \notin cacheIds
    /\ Deliver(t, s)
    /\ UNCHANGED <<cacheIds, payload, updating, cached, read, delivered, issued, notified>>

DeliverToCache(t, s) ==
    /\ updating = "no"
    /\ s \in cacheIds
    /\ Deliver(t, s)
    /\ updating' = "compare"
    /\ UNCHANGED <<cacheIds, payload, cached, read, delivered, issued, notified>>

------------------------------------------------------------------------------
(***************************************************************************)
(* onValueUpdate()                                                         *)
(***************************************************************************)
\* Mutants: the first value is kept; the assignment is lost.
IsCachedAlready == cached # NoValue
AssignNothing(t) ==
    /\ notifier = t
    /\ updating = "assign"
    /\ updating' = "no"
    /\ delivered' = payload.value
    /\ UNCHANGED <<vars, cacheIds, payload, cached, read, issued, notified>>

IsCurrent == cached # NoValue /\ cached = payload.value

Compare(t) ==
    /\ notifier = t
    /\ updating = "compare"
    /\ updating' = IF IsCurrent THEN "no" ELSE "assign"
    /\ delivered' = IF IsCurrent THEN payload.value ELSE delivered
    /\ UNCHANGED <<vars, cacheIds, payload, cached, read, issued, notified>>

AssignCached(t) ==
    /\ notifier = t
    /\ updating = "assign"
    /\ updating' = "no"
    /\ cached' = payload.value
    /\ delivered' = payload.value
    /\ UNCHANGED <<vars, cacheIds, payload, read, issued, notified>>

FinishUpdate(t) ==
    /\ updating = "no"
    /\ Finish(t)
    /\ payload' = NoPayload
    /\ UNCHANGED <<cacheIds, updating, cached, read, delivered, issued, notified>>

(***************************************************************************)
(* getCachedValue(), outside of onValueUpdate().                           *)
(***************************************************************************)
Readable == IF updating = "assign" THEN {cached, payload.value, Torn} ELSE {cached}

GetCachedValue(t) ==
    /\ cacheIds # {}
    /\ notifier = t => updating = "no"
    /\ \E v \in Readable : read' = [read EXCEPT ![t] = v]
    /\ UNCHANGED <<vars, cacheIds, payload, updating, cached, delivered, issued, notified>>

ServeUpdate(t) ==
    \/ Compare(t) \/ AssignCached(t) \/ FinishUpdate(t)
    \/ \E s \in Ids : DeliverOther(t, s) \/ DeliverToCache(t, s)

CacheNext ==
    \/ Construct
    \/ \E l \in Listeners : SubscribeOther(l)
    \/ \E s \in Ids : UnsubscribeOther(s) \/ DropCache(s)
    \/ \E t \in Threads :
          \/ \E c \in Calls, v \in Values : BeginUpdate(t, c, v)
          \/ ServeUpdate(t)
          \/ GetCachedValue(t)

\* A notification that was begun goes on, as in the abstract event.
CacheSpec == CacheInit /\ [][CacheNext]_cacheVars
             /\ \A t \in Threads : WF_cacheVars(ServeUpdate(t))

------------------------------------------------------------------------------
(***************************************************************************)
(* Properties                                                              *)
(***************************************************************************)
\* Every variable has its type, and the extension is in onValueUpdate() only in a
\* notification.
CacheTypeOK ==
    /\ TypeOK
    /\ cacheIds \subseteq Ids
    /\ payload \in [value : Values \cup {NoValue}, kind : {"listeners", "listener"}]
    /\ updating \in {"no", "compare", "assign"}
    /\ cached \in Values \cup {NoValue}
    /\ read \in [Threads -> Values \cup {NoValue, Torn, Unread}]
    /\ delivered \in Values \cup {NoValue}
    /\ issued \in 0 .. IdSpace
    /\ notified \in 0 .. MaxNotifications
    /\ notifier = NoThread => updating = "no" /\ payload = NoPayload

\* Between two updates the cache holds the last value that was notified to it, even
\* though equal values are not assigned and two threads may notify in turn.
CacheAgrees ==
    /\ CacheTypeOK
    /\ updating # "assign" => cached = delivered

\* A listener that subscribed after the extension was constructed sees the cache
\* agree with the value it is notified of, if that goes to all listeners and the
\* extension is still one of them.
ListenersSeeCache ==
    [][\A t \in Threads, s \in Ids, i \in CacheIds :
          (DeliverOther(t, s) /\ s > i /\ payload.kind = "listeners")
              => cached = payload.value]_cacheVars

\* A value of which a notification owes a callback to the extension arrives in the
\* cache, even if the extension's subscription is dropped before the callback.
UpdatesArrive ==
    \A v \in Values :
        (payload.value = v /\ owed \cap cacheIds # {}) ~> cached = v
==============================================================================
