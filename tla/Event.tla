-------------------------------- MODULE Event --------------------------------
(***************************************************************************)
(* CommonAPI::Event<Arguments...> (include/CommonAPI/Event.hpp): clients   *)
(* subscribe and unsubscribe listeners from any thread, also from inside a *)
(* listener; the binding notifies them, from any of its threads.           *)
(*                                                                         *)
(* subscribe() and unsubscribe() only touch the two pending containers,    *)
(* under subscriptionMutex_.  A notification holds notificationMutex_ all  *)
(* along, takes subscriptionMutex_ to merge the pending containers into    *)
(* subscriptions_, releases it, and iterates over subscriptions_ with only *)
(* notificationMutex_ held.  Each lock acquisition, each hook and each     *)
(* callback of a listener is a step of its own.                            *)
(*                                                                         *)
(* MaxSubscribes and MaxNotifications bound the calls of a behaviour; they *)
(* are not in the code.                                                    *)
(***************************************************************************)
EXTENDS EventCalls

CONSTANTS
    Dispatchers,      \* the threads on which the binding notifies
    MaxSubscribes,    \* bound: subscribe() calls
    MaxNotifications  \* bound: notifications

ASSUME DispatchersAssumption == Dispatchers \subseteq Threads
ASSUME BoundsAssumption == MaxSubscribes \in Nat /\ MaxNotifications \in Nat

VARIABLES
    subscriptions,           \* subscriptions_
    nextSubscription,        \* nextSubscription_
    pendingSubscriptions,    \* pendingSubscriptions_
    pendingUnsubscriptions,  \* pendingUnsubscriptions_
    notificationMutex,       \* the owner of notificationMutex_
    subscriptionMutex,       \* the owner of subscriptionMutex_, between steps
    client,        \* client[t]: the subscribe() or unsubscribe() call of t
    notification,  \* notification[t]: the notification t serves
    armed,    \* the binding: onFirstListenerAdded called after the last
              \* onLastListenerRemoved
    hooked,   \* the binding: ids between onListenerAdded and onListenerRemoved
    known,    \* the ids that subscribe() has returned to the clients
    dropped,  \* ghost: the live ids a failed notifySpecificError removed
    issued,   \* counts subscribe(), for MaxSubscribes
    notified  \* counts notifications, for MaxNotifications

maps == <<subscriptions, nextSubscription, pendingSubscriptions,
          pendingUnsubscriptions>>
mutexes == <<notificationMutex, subscriptionMutex>>
binding == <<armed, hooked, known>>
bounds == <<issued, notified>>

vars == <<maps, mutexes, client, notification, binding, dropped, bounds>>

------------------------------------------------------------------------------
(***************************************************************************)
(* The control points of the calls, with the locals that survive a step.   *)
(***************************************************************************)
ClientCalls ==
    [at : {"idle",         \* in no call
           "checkStale",   \* subscribe, before line 129
           "staleLast",    \* subscribe, before onLastListenerRemoved
           "first",        \* subscribe, before onFirstListenerAdded
           "added",        \* subscribe, before onListenerAdded
           "removed",      \* unsubscribe, before onListenerRemoved
           "last"},        \* unsubscribe, before onLastListenerRemoved
     token : Ids, isLast : BOOLEAN]

NoCall == [at |-> "idle", token |-> 0, isLast |-> FALSE]

Notifications ==
    [at : {"idle",      \* in no notification
           "lock",      \* before notificationMutex_ is acquired
           "merge",     \* before subscriptionMutex_ is acquired
           "unlock",    \* merged, before subscriptionMutex_ is released
           "iterate",   \* the iterator is at cursor
           "callback",  \* inside the listener at cursor
           "drop"},     \* notifySpecificError, before line 263
     call : Calls, cursor : 0 .. IdSpace]

NotNotifying ==
    [at |-> "idle", cursor |-> End,
     call |-> [kind |-> "listeners", target |-> 0, failed |-> FALSE]]

Init ==
    /\ subscriptions = NoListeners
    /\ nextSubscription = 0
    /\ pendingSubscriptions = NoListeners
    /\ pendingUnsubscriptions = {}
    /\ notificationMutex = NoThread
    /\ subscriptionMutex = NoThread
    /\ client = [t \in Threads |-> NoCall]
    /\ notification = [t \in Threads |-> NotNotifying]
    /\ armed = FALSE
    /\ hooked = {}
    /\ known = {}
    /\ dropped = {}
    /\ issued = 0
    /\ notified = 0

\* A thread calls the event from its own code or from inside a listener.
MayCall(t) ==
    /\ client[t].at = "idle"
    /\ notification[t].at \in {"idle", "callback"}
    /\ subscriptionMutex = NoThread

NoneRemain(ps, pu) ==
    DOMAIN ps = {} /\ Cardinality(pu) = Cardinality(DOMAIN subscriptions)

------------------------------------------------------------------------------
(***************************************************************************)
(* subscribe(): the critical section, then the hooks without any lock.     *)
(***************************************************************************)
\* Mutants: the pending unsubscriptions are forgotten; nextSubscription_ never wraps.
FirstIgnoresPendingUnsubscriptions == NoneRemain(pendingSubscriptions, {})
FirstIfNothingPending == DOMAIN pendingSubscriptions = {}
UnboundedSuccessor == nextSubscription + 1

IsFirstListener == NoneRemain(pendingSubscriptions, pendingUnsubscriptions)

\* nextSubscription_++ of a uint32_t
SuccessorId == (nextSubscription + 1) % IdSpace

Subscribe(t, l) ==
    /\ MayCall(t)
    /\ issued < MaxSubscribes
    /\ issued' = issued + 1
    /\ nextSubscription' = SuccessorId
    /\ pendingSubscriptions' = Assign(pendingSubscriptions, nextSubscription, l)
    /\ client' = [client EXCEPT ![t] =
           [at |-> IF IsFirstListener THEN "checkStale" ELSE "added",
            token |-> nextSubscription, isLast |-> FALSE]]
    /\ UNCHANGED <<subscriptions, pendingUnsubscriptions, mutexes, notification,
                   binding, dropped, notified>>

\* Line 129 reads pendingUnsubscriptions_ again, without the lock.
CheckStale(t) ==
    /\ client[t].at = "checkStale"
    /\ client' = [client EXCEPT ![t].at =
           IF pendingUnsubscriptions # {} THEN "staleLast" ELSE "first"]
    /\ UNCHANGED <<maps, mutexes, notification, binding, dropped, bounds>>

OnStaleLastListenerRemoved(t) ==
    /\ client[t].at = "staleLast"
    /\ armed' = FALSE
    /\ client' = [client EXCEPT ![t].at = "first"]
    /\ UNCHANGED <<maps, mutexes, notification, hooked, known, dropped, bounds>>

OnFirstListenerAdded(t) ==
    /\ client[t].at = "first"
    /\ armed' = TRUE
    /\ client' = [client EXCEPT ![t].at = "added"]
    /\ UNCHANGED <<maps, mutexes, notification, hooked, known, dropped, bounds>>

OnListenerAdded(t) ==
    /\ client[t].at = "added"
    /\ hooked' = hooked \cup {client[t].token}
    /\ known' = known \cup {client[t].token}
    /\ client' = [client EXCEPT ![t] = NoCall]
    /\ UNCHANGED <<maps, mutexes, notification, armed, dropped, bounds>>

------------------------------------------------------------------------------
(***************************************************************************)
(* unsubscribe(s): what the removal does to the pending containers, which  *)
(* notifySpecificError repeats, then the hooks without any lock.           *)
(***************************************************************************)

\* Mutants: a pending subscription is not erased; a repeated unsubscribe() is
\* taken for a first one; unsubscribe() erases from subscriptions_ at once.
PendingKept(s) == pendingSubscriptions
UnsubscribedAgain(s) == s \in DOMAIN subscriptions \cup DOMAIN pendingSubscriptions
RemoveAtOnce(s) ==
    /\ subscriptions' = Without(subscriptions, s)
    /\ pendingSubscriptions' = Without(pendingSubscriptions, s)
    /\ UNCHANGED <<nextSubscription, pendingUnsubscriptions>>

PendingWithout(s) ==
    IF s \in pendingUnsubscriptions /\ s \in DOMAIN subscriptions
    THEN pendingSubscriptions
    ELSE Without(pendingSubscriptions, s)

UnsubscriptionsWith(s) ==
    IF s \in DOMAIN subscriptions \ DOMAIN pendingSubscriptions
    THEN pendingUnsubscriptions \cup {s}
    ELSE pendingUnsubscriptions

HasUnsubscribed(s) ==
    IF s \in DOMAIN subscriptions
    THEN s \notin pendingUnsubscriptions \cup DOMAIN pendingSubscriptions
    ELSE s \in DOMAIN pendingSubscriptions

Remove(s) ==
    /\ pendingSubscriptions' = PendingWithout(s)
    /\ pendingUnsubscriptions' = UnsubscriptionsWith(s)
    /\ UNCHANGED <<subscriptions, nextSubscription>>

Unsubscribe(t, s) ==
    /\ MayCall(t)
    /\ s \in known
    /\ Remove(s)
    /\ client' = IF HasUnsubscribed(s)
                 THEN [client EXCEPT ![t] =
                         [at |-> "removed", token |-> s,
                          isLast |-> NoneRemain(PendingWithout(s),
                                                UnsubscriptionsWith(s))]]
                 ELSE client
    /\ UNCHANGED <<mutexes, notification, binding, dropped, bounds>>

OnListenerRemoved(t) ==
    /\ client[t].at = "removed"
    /\ hooked' = hooked \ {client[t].token}
    /\ client' = [client EXCEPT ![t] =
           IF client[t].isLast THEN [client[t] EXCEPT !.at = "last"] ELSE NoCall]
    /\ UNCHANGED <<maps, mutexes, notification, armed, known, dropped, bounds>>

OnLastListenerRemoved(t) ==
    /\ client[t].at = "last"
    /\ armed' = FALSE
    /\ client' = [client EXCEPT ![t] = NoCall]
    /\ UNCHANGED <<maps, mutexes, notification, hooked, known, dropped, bounds>>

------------------------------------------------------------------------------
(***************************************************************************)
(* notifyListeners, notifySpecificListener, notifyErrorListeners and       *)
(* notifySpecificError.  A binding only names ids it saw in                *)
(* onListenerAdded.                                                        *)
(***************************************************************************)
Notify(t, c) ==
    /\ notification[t].at = "idle" /\ client[t].at = "idle"
    /\ IsSpecific(c) => c.target \in known
    /\ notified < MaxNotifications
    /\ notified' = notified + 1
    /\ notification' = [notification EXCEPT ![t] =
           [at |-> "lock", call |-> c, cursor |-> End]]
    /\ UNCHANGED <<maps, mutexes, client, binding, dropped, issued>>

\* Mutants: no notificationMutex_; a merge that forgets the unsubscriptions.
LockFreely(t) ==
    /\ notification[t].at = "lock"
    /\ notificationMutex' = t
    /\ notification' = [notification EXCEPT ![t].at = "merge"]
    /\ UNCHANGED <<maps, subscriptionMutex, client, binding, dropped, bounds>>
MergedWithoutErase == [s \in DOMAIN subscriptions \cup DOMAIN pendingSubscriptions |->
    IF s \in DOMAIN subscriptions THEN subscriptions[s] ELSE pendingSubscriptions[s]]

LockNotification(t) ==
    /\ notification[t].at = "lock"
    /\ notificationMutex = NoThread
    /\ notificationMutex' = t
    /\ notification' = [notification EXCEPT ![t].at = "merge"]
    /\ UNCHANGED <<maps, subscriptionMutex, client, binding, dropped, bounds>>

\* map::insert does not overwrite: an id that is still in use keeps its listener.
Merged ==
    LET kept == DOMAIN subscriptions \ pendingUnsubscriptions
    IN  [s \in kept \cup DOMAIN pendingSubscriptions |->
            IF s \in kept THEN subscriptions[s] ELSE pendingSubscriptions[s]]

Merge(t) ==
    /\ notification[t].at = "merge"
    /\ subscriptionMutex = NoThread
    /\ subscriptionMutex' = t
    /\ subscriptions' = Merged
    /\ pendingSubscriptions' = NoListeners
    /\ pendingUnsubscriptions' = {}
    /\ notification' = [notification EXCEPT ![t].at = "unlock"]
    /\ UNCHANGED <<nextSubscription, notificationMutex, client, binding, dropped,
                   bounds>>

\* The ids from i on that the iteration of t has yet to invoke.
ToInvoke(t, i) == {s \in Addressed(notification[t].call, subscriptions) : s >= i}

\* The iterator moves on from i to the next listener to invoke, or to end().
Advance(t, i) ==
    \E n \in ToInvoke(t, i) \cup {End} :
        /\ IsLeast(n, ToInvoke(t, i) \cup {End})
        /\ notification' = [notification EXCEPT ![t] =
               [at |-> "iterate", call |-> notification[t].call, cursor |-> n]]

UnlockSubscriptions(t) ==
    /\ notification[t].at = "unlock"
    /\ subscriptionMutex' = NoThread
    /\ Advance(t, 0)
    /\ UNCHANGED <<maps, notificationMutex, client, binding, dropped, bounds>>

Invoke(t) ==
    /\ notification[t].at = "iterate"
    /\ notification[t].cursor # End
    /\ notification' = [notification EXCEPT ![t].at = "callback"]
    /\ UNCHANGED <<maps, mutexes, client, binding, dropped, bounds>>

\* Mutant: the iterator is not incremented.
ReturnInPlace(t) ==
    /\ notification[t].at = "callback"
    /\ client[t].at = "idle"
    /\ Advance(t, notification[t].cursor)
    /\ UNCHANGED <<maps, mutexes, client, binding, dropped, bounds>>

\* The listener returns, with no call of its own still open.
Return(t) ==
    /\ notification[t].at = "callback"
    /\ client[t].at = "idle"
    /\ Advance(t, notification[t].cursor + 1)
    /\ UNCHANGED <<maps, mutexes, client, binding, dropped, bounds>>

EndNotification(t) ==
    /\ notification[t].at = "iterate"
    /\ notification[t].cursor = End
    /\ notificationMutex' = NoThread
    /\ notification' = [notification EXCEPT ![t] =
           IF notification[t].call.failed
           THEN [notification[t] EXCEPT !.at = "drop"] ELSE NotNotifying]
    /\ UNCHANGED <<maps, subscriptionMutex, client, binding, dropped, bounds>>

\* The end of a failed notifySpecificError: the removal, but none of the hooks.
Drop(t) ==
    /\ notification[t].at = "drop"
    /\ subscriptionMutex = NoThread
    /\ LET s == notification[t].call.target
       IN  /\ Remove(s)
           /\ dropped' = dropped \cup {i \in {s} : HasUnsubscribed(i)}
    /\ notification' = [notification EXCEPT ![t] = NotNotifying]
    /\ UNCHANGED <<mutexes, client, binding, bounds>>
------------------------------------------------------------------------------
ClientStep(t) ==
    \/ CheckStale(t) \/ OnStaleLastListenerRemoved(t) \/ OnFirstListenerAdded(t)
    \/ OnListenerAdded(t) \/ OnListenerRemoved(t) \/ OnLastListenerRemoved(t)

NotificationStep(t) ==
    \/ LockNotification(t) \/ Merge(t) \/ UnlockSubscriptions(t) \/ Invoke(t)
    \/ Return(t) \/ EndNotification(t) \/ Drop(t)

Next ==
    \E t \in Threads :
        \/ \E l \in Listeners : Subscribe(t, l)
        \/ \E s \in known : Unsubscribe(t, s)
        \/ ClientStep(t)
        \/ t \in Dispatchers /\ \E c \in Calls : Notify(t, c)
        \/ NotificationStep(t)

Spec == Init /\ [][Next]_vars

(***************************************************************************)
(* A thread in a call goes on: hooks and listeners return, and a mutex is  *)
(* granted to a thread that could take it for good.  Nothing makes clients *)
(* call, or the binding notify.                                            *)
(***************************************************************************)
Fairness ==
    \A t \in Threads : WF_vars(ClientStep(t)) /\ WF_vars(NotificationStep(t))

FairSpec == Spec /\ Fairness

------------------------------------------------------------------------------
(***************************************************************************)
(* Properties                                                              *)
(***************************************************************************)
Iterating(t) == notification[t].at \in {"iterate", "callback"}

\* The ids that count as subscribed between two calls, and their listeners.
Live == DOMAIN pendingSubscriptions \cup (DOMAIN subscriptions \ pendingUnsubscriptions)

LiveMap == [s \in Live |-> IF s \in DOMAIN pendingSubscriptions
                           THEN pendingSubscriptions[s] ELSE subscriptions[s]]

\* The ids whose onListenerAdded, or onListenerRemoved, has yet to be called.
IsAdding(t) == client[t].at \in {"checkStale", "staleLast", "first", "added"}
IsRemoving(t) == client[t].at = "removed"

Adding == {client[t].token : t \in {u \in Threads : IsAdding(u)}}
Removing == {client[t].token : t \in {u \in Threads : IsRemoving(u)}}

\* No id is handed out twice: the code relies on it.
NoWrap == MaxSubscribes <= IdSpace

\* Every variable has its type.
TypeOK ==
    /\ IsListenersMap(subscriptions)
    /\ nextSubscription \in Ids
    /\ IsListenersMap(pendingSubscriptions)
    /\ pendingUnsubscriptions \subseteq Ids
    /\ notificationMutex \in Threads \cup {NoThread}
    /\ subscriptionMutex \in Threads \cup {NoThread}
    /\ client \in [Threads -> ClientCalls]
    /\ notification \in [Threads -> Notifications]
    /\ armed \in BOOLEAN
    /\ hooked \subseteq Ids
    /\ known \subseteq Ids
    /\ dropped \subseteq Ids
    /\ issued \in 0 .. MaxSubscribes
    /\ notified \in 0 .. MaxNotifications

\* Each mutex is held exactly by the thread that stands between its acquisition
\* and its release.
MutexesOwned ==
    \A t \in Threads :
        /\ notification[t].at \in {"merge", "unlock", "iterate", "callback"}
               <=> notificationMutex = t
        /\ notification[t].at = "unlock" <=> subscriptionMutex = t

\* The iterator of lines 198, 224, 252 and 301 is end() or refers to an element of
\* subscriptions_, and a listener runs only from an element.
IteratorValid ==
    \A t \in Threads :
        /\ notification[t].at = "iterate" =>
               notification[t].cursor \in DOMAIN subscriptions \cup {End}
        /\ notification[t].at = "callback" => notification[t].cursor \in DOMAIN subscriptions

\* A pending unsubscription is one of a merged subscription, and, unless ids wrap,
\* no id is both merged and pending.
PendingConsistent ==
    /\ pendingUnsubscriptions \subseteq DOMAIN subscriptions
    /\ NoWrap => DOMAIN subscriptions \cap DOMAIN pendingSubscriptions = {}

\* Unless ids wrap, the next id is one that no container holds.
IdsFresh ==
    NoWrap => /\ DOMAIN subscriptions \cup DOMAIN pendingSubscriptions \subseteq 0 .. issued - 1
              /\ issued < MaxSubscribes => nextSubscription = issued

\* The locking discipline of the class: who holds the mutexes, that no iterator
\* dangles, and that the pending containers agree with subscriptions_.
SafeIteration == MutexesOwned /\ IteratorValid /\ PendingConsistent /\ IdsFresh

\* While a notification iterates over subscriptions_ without subscriptionMutex_,
\* nobody changes subscriptions_: neither clients, nor a listener that
\* unsubscribes itself, nor another notification.
SubscriptionsStable ==
    [][(\E t \in Threads : Iterating(t)) => subscriptions' = subscriptions]_vars

\* The hooks the binding keeps its books by are balanced: at any time, the ids
\* between onListenerAdded and onListenerRemoved are the live ones, up to the
\* hooks still to be called, and those a failed notifySpecificError removed
\* without any hook.
HooksBalanced ==
    NoWrap =>
        /\ hooked \cup Adding = Live \cup Removing \cup dropped
        /\ hooked \cap Adding = {}
        /\ Live \cap (Removing \cup dropped) = {}

\* However many threads unsubscribe the same id, and whatever notifications do in
\* between, onListenerRemoved is called at most once for it.
RemovedHookOnce ==
    NoWrap => \A t \in Threads : IsRemoving(t) =>
                  /\ client[t].token \in hooked
                  /\ \A u \in Threads \ {t} : IsRemoving(u) =>
                         client[u].token # client[t].token

\* A notification, once started, returns; so does a subscribe() or unsubscribe().
CallsReturn ==
    \A t \in Threads : /\ notification[t].at # "idle" ~> notification[t].at = "idle"
                       /\ client[t].at # "idle" ~> client[t].at = "idle"

(***************************************************************************)
(* The event implements the abstract one.  A notification takes its        *)
(* snapshot when it merges.                                                *)
(***************************************************************************)
Notifying(t) == notification[t].at \in {"unlock", "iterate", "callback"}

Owed(t) ==
    CASE notification[t].at = "unlock" -> ToInvoke(t, 0)
      [] notification[t].at = "iterate" -> ToInvoke(t, notification[t].cursor)
      [] OTHER -> ToInvoke(t, notification[t].cursor + 1)

\* The thread that serves a notification, and the ids it has yet to invoke.
Notifier == IF \E t \in Threads : Notifying(t) THEN notificationMutex ELSE NoThread
AllOwed == UNION {Owed(t) : t \in {u \in Threads : Notifying(u)}}

Delivery == INSTANCE EventDelivery WITH
    live <- LiveMap, notifier <- Notifier, owed <- AllOwed

\* Every notification invokes, once each and in the order of their ids, the
\* listeners that were live when it merged, whatever other threads and the
\* listeners themselves subscribe and unsubscribe; and it always ends.
ImplementsDelivery == Delivery!FairSpec

(***************************************************************************)
(* Properties of the hooks that keep the binding armed.                    *)
(***************************************************************************)
AtRest == \A t \in Threads : client[t].at = "idle"

\* When no call is open, the binding is armed if there is a live subscription, and
\* disarmed if there is none and no notifySpecificError removed one.
ArmedWhileSubscribed ==
    AtRest => /\ Live # {} => armed
              /\ (Live = {} /\ dropped = {}) => ~armed

\* onFirstListenerAdded is not called twice in a row, as long as no
\* notifySpecificError removed a subscription without hooks.
FirstOnlyWhenDisarmed ==
    \A t \in Threads : (client[t].at = "first" /\ dropped = {}) => ~armed

(***************************************************************************)
(* What the comments and the change log say, and the code does not do.     *)
(***************************************************************************)
\* A live subscription keeps the binding armed, whatever threads subscribe.
SubscribedMeansArmed == (AtRest /\ Live # {}) => armed

\* The ids for which unsubscribe() has returned.
Unsubscribed ==
    {s \in known \ hooked : \A t \in Threads : client[t].at = "last" => client[t].token # s}

\* A listener is not invoked after unsubscribe() returned (CHANGES, v3.1.12.6).
NoDeliveryAfterUnsubscribe ==
    [][\A t \in Threads :
          (notification[t].at = "iterate" /\ notification'[t].at = "callback")
              => notification[t].cursor \notin Unsubscribed]_vars
==============================================================================
