----------------------------- MODULE EventProofs -----------------------------
(***************************************************************************)
(* Theorems about Event, for every number of ids, listeners and threads,   *)
(* and for every bound on the calls.                                       *)
(***************************************************************************)
EXTENDS Event, FiniteSetTheorems, TLAPS

-----------------------------------------------------------------------------
(***************************************************************************)
(* Lemmas about the helpers.                                               *)
(***************************************************************************)
\* nextSubscription_++ stays a Subscription and, below 2^32, is the successor.
LEMMA SuccessorInIds ==
    ASSUME nextSubscription \in Ids
    PROVE  /\ SuccessorId \in Ids
           /\ nextSubscription + 1 < IdSpace => SuccessorId = nextSubscription + 1
BY IdSpaceAssumption DEF Ids, SuccessorId

\* Assigning, removing and merging listeners yields listeners maps.
LEMMA AssignType ==
    ASSUME NEW m, NEW s \in Ids, NEW l \in Listeners, IsListenersMap(m)
    PROVE  IsListenersMap(Assign(m, s, l)) /\ DOMAIN Assign(m, s, l) = DOMAIN m \cup {s}
BY DEF Assign, IsListenersMap

LEMMA WithoutType ==
    ASSUME NEW m, NEW s, IsListenersMap(m)
    PROVE  IsListenersMap(Without(m, s)) /\ DOMAIN Without(m, s) = DOMAIN m \ {s}
BY DEF Without, Restrict, IsListenersMap

LEMMA MergedType ==
    ASSUME TypeOK
    PROVE  /\ IsListenersMap(Merged)
           /\ DOMAIN Merged = (DOMAIN subscriptions \ pendingUnsubscriptions)
                                \cup DOMAIN pendingSubscriptions
BY DEF Merged, IsListenersMap, TypeOK

LEMMA NoListenersType == IsListenersMap(NoListeners) /\ DOMAIN NoListeners = {}
BY DEF NoListeners, IsListenersMap

\* A removal leaves well-typed pending containers.
LEMMA RemoveType ==
    ASSUME TypeOK, NEW s \in Ids
    PROVE  /\ IsListenersMap(PendingWithout(s))
           /\ DOMAIN PendingWithout(s) \subseteq DOMAIN pendingSubscriptions
           /\ UnsubscriptionsWith(s) \subseteq Ids
<1>1. IsListenersMap(pendingSubscriptions) /\ pendingUnsubscriptions \subseteq Ids
  BY DEF TypeOK
<1>2. /\ IsListenersMap(Without(pendingSubscriptions, s))
      /\ DOMAIN Without(pendingSubscriptions, s) = DOMAIN pendingSubscriptions \ {s}
  BY <1>1, WithoutType
<1>3. UnsubscriptionsWith(s) \subseteq Ids
  BY <1>1 DEF UnsubscriptionsWith
<1> QED BY <1>1, <1>2, <1>3 DEF PendingWithout

\* A call names an id.
LEMMA CallType == \A c \in Calls : c.target \in Ids /\ c.failed \in BOOLEAN
<1>1. 0 \in Ids
  BY IdSpaceAssumption DEF Ids
<1> QED BY <1>1 DEF Calls

\* The initial and the final control points are typed.
LEMMA RestingType == NoCall \in ClientCalls /\ NotNotifying \in Notifications
BY IdSpaceAssumption DEF NoCall, ClientCalls, NotNotifying, Notifications, Calls, Ids, End

\* Advancing an iteration changes the entry of one thread only: it now stands at an
\* element of subscriptions_ from i on, or at the end.
LEMMA AdvanceFacts ==
    ASSUME TypeOK, NEW t \in Threads, NEW i \in Nat, Advance(t, i)
    PROVE  \E n \in (DOMAIN subscriptions) \cup {End} :
              /\ n \in 0 .. IdSpace
              /\ IsLeast(n, ToInvoke(t, i) \cup {End})
              /\ notification' = [notification EXCEPT ![t] =
                     [at |-> "iterate", call |-> notification[t].call, cursor |-> n]]
<1>1. ToInvoke(t, i) \subseteq DOMAIN subscriptions
  BY DEF ToInvoke, Addressed
<1>2. DOMAIN subscriptions \cup {End} \subseteq 0 .. IdSpace
  BY IdSpaceAssumption DEF TypeOK, IsListenersMap, Ids, End
<1> QED BY <1>1, <1>2 DEF Advance

-----------------------------------------------------------------------------
(***************************************************************************)
(* Type correctness.                                                       *)
(***************************************************************************)
LEMMA InitType == Init => TypeOK
<1>1. 0 \in Ids /\ 0 \in 0 .. MaxSubscribes /\ 0 \in 0 .. MaxNotifications
  BY IdSpaceAssumption, BoundsAssumption DEF Ids
<1>2. Init => client \in [Threads -> ClientCalls] /\ notification \in [Threads -> Notifications]
  BY RestingType DEF Init
<1> QED BY <1>1, <1>2, NoListenersType DEF Init, TypeOK

LEMMA SubscribeType ==
    ASSUME TypeOK, NEW t \in Threads, NEW l \in Listeners, Subscribe(t, l)
    PROVE  TypeOK'
<1>1. IsListenersMap(pendingSubscriptions') /\ nextSubscription' \in Ids
  BY AssignType, SuccessorInIds DEF Subscribe, TypeOK
<1>2. client' \in [Threads -> ClientCalls]
  BY DEF Subscribe, TypeOK, ClientCalls
<1>3. issued' \in 0 .. MaxSubscribes
  BY BoundsAssumption DEF Subscribe, TypeOK
<1> QED BY <1>1, <1>2, <1>3 DEF Subscribe, TypeOK, mutexes, binding

LEMMA UnsubscribeType ==
    ASSUME TypeOK, NEW t \in Threads, NEW s \in known, Unsubscribe(t, s)
    PROVE  TypeOK'
<1>1. s \in Ids
  BY DEF TypeOK
<1>2. IsListenersMap(pendingSubscriptions') /\ pendingUnsubscriptions' \subseteq Ids
  BY <1>1, RemoveType DEF Unsubscribe, Remove
<1>3. client' \in [Threads -> ClientCalls]
  BY <1>1 DEF Unsubscribe, TypeOK, ClientCalls, NoneRemain
<1> QED BY <1>1, <1>2, <1>3 DEF Unsubscribe, Remove, TypeOK, mutexes, binding, bounds

LEMMA ClientStepType ==
    ASSUME TypeOK, NEW t \in Threads, ClientStep(t)
    PROVE  TypeOK'
<1> USE RestingType DEF TypeOK, maps, mutexes, binding, bounds
<1>1. client[t] \in ClientCalls /\ client[t].token \in Ids
  BY DEF ClientCalls
<1>2. CASE CheckStale(t)
  BY <1>1, <1>2 DEF CheckStale, ClientCalls
<1>3. CASE OnStaleLastListenerRemoved(t)
  BY <1>1, <1>3 DEF OnStaleLastListenerRemoved, ClientCalls
<1>4. CASE OnFirstListenerAdded(t)
  BY <1>1, <1>4 DEF OnFirstListenerAdded, ClientCalls
<1>5. CASE OnListenerAdded(t)
  BY <1>1, <1>5 DEF OnListenerAdded
<1>6. CASE OnListenerRemoved(t)
  BY <1>1, <1>6 DEF OnListenerRemoved, ClientCalls
<1>7. CASE OnLastListenerRemoved(t)
  BY <1>1, <1>7 DEF OnLastListenerRemoved
<1> QED BY <1>2, <1>3, <1>4, <1>5, <1>6, <1>7 DEF ClientStep

LEMMA NotifyType ==
    ASSUME TypeOK, NEW t \in Threads, NEW c \in Calls, Notify(t, c)
    PROVE  TypeOK'
BY IdSpaceAssumption, BoundsAssumption
   DEF Notify, TypeOK, Notifications, End, maps, mutexes, binding

\* Advance keeps the notifications typed.
LEMMA AdvanceType ==
    ASSUME TypeOK, NEW t \in Threads, NEW i \in Nat, Advance(t, i)
    PROVE  notification' \in [Threads -> Notifications]
<1>1. notification[t].call \in Calls
  BY DEF TypeOK, Notifications
<1>2. PICK n \in 0 .. IdSpace :
         notification' = [notification EXCEPT ![t] =
             [at |-> "iterate", call |-> notification[t].call, cursor |-> n]]
  BY AdvanceFacts
<1>3. [at |-> "iterate", call |-> notification[t].call, cursor |-> n] \in Notifications
  BY <1>1 DEF Notifications
<1> QED BY <1>2, <1>3 DEF TypeOK

LEMMA NotificationStepType ==
    ASSUME TypeOK, NEW t \in Threads, NotificationStep(t)
    PROVE  TypeOK'
<1> USE RestingType DEF maps, mutexes, binding, bounds
<1>1. notification[t] \in Notifications /\ notification[t].cursor + 1 \in Nat
  BY IdSpaceAssumption DEF TypeOK, Notifications
<1>2. CASE LockNotification(t)
  BY <1>1, <1>2 DEF LockNotification, Notifications, TypeOK
<1>3. CASE Merge(t)
  BY <1>1, <1>3, MergedType, NoListenersType DEF Merge, Notifications, TypeOK
<1>4. CASE UnlockSubscriptions(t)
  BY <1>4, AdvanceType DEF UnlockSubscriptions, TypeOK
<1>5. CASE Invoke(t)
  BY <1>1, <1>5 DEF Invoke, Notifications, TypeOK
<1>6. CASE Return(t)
  BY <1>1, <1>6, AdvanceType DEF Return, TypeOK
<1>7. CASE EndNotification(t)
  BY <1>1, <1>7 DEF EndNotification, Notifications, TypeOK
<1>8. CASE Drop(t)
  <2>1. PICK s : s = notification[t].call.target /\ Remove(s)
                 /\ dropped' = dropped \cup {i \in {s} : HasUnsubscribed(i)}
    BY <1>8 DEF Drop
  <2>2. s \in Ids
    BY <1>1, <2>1, CallType DEF Notifications
  <2>3. IsListenersMap(pendingSubscriptions') /\ pendingUnsubscriptions' \subseteq Ids
    BY <2>1, <2>2, RemoveType DEF Remove
  <2> QED BY <1>8, <2>1, <2>2, <2>3 DEF Drop, Remove, TypeOK
<1> QED BY <1>2, <1>3, <1>4, <1>5, <1>6, <1>7, <1>8 DEF NotificationStep

\* Every variable keeps its type, also when ids wrap around.
THEOREM TypeCorrect == Spec => []TypeOK
<1>1. Init => TypeOK
  BY InitType
<1>2. TypeOK /\ [Next]_vars => TypeOK'
  <2> SUFFICES ASSUME TypeOK, [Next]_vars PROVE TypeOK'
    OBVIOUS
  <2>1. CASE UNCHANGED vars
    BY <2>1 DEF TypeOK, vars, maps, mutexes, binding, bounds
  <2>2. CASE Next
    BY <2>2, SubscribeType, UnsubscribeType, ClientStepType, NotifyType,
       NotificationStepType DEF Next
  <2> QED BY <2>1, <2>2
<1> QED BY <1>1, <1>2, PTL DEF Spec

-----------------------------------------------------------------------------
(***************************************************************************)
(* Safe iteration.  TypeOK /\ SafeIteration is inductive: an iterator can  *)
(* only dangle if subscriptions_ changes, subscriptions_ only changes in   *)
(* Merge, and the thread in Merge owns notificationMutex_, so that no      *)
(* other thread iterates.                                                  *)
(***************************************************************************)
SafeInv == TypeOK /\ SafeIteration

\* A step that leaves the maps, the mutexes and the notifications alone.
LEMMA QuietStepSafe ==
    ASSUME SafeInv, UNCHANGED <<maps, mutexes, notification, issued>>
    PROVE  SafeIteration'
BY DEF SafeInv, SafeIteration, MutexesOwned, IteratorValid, PendingConsistent, IdsFresh, maps, mutexes

\* A step that only touches the pending containers, and leaves them consistent.
LEMMA PendingStepSafe ==
    ASSUME SafeInv, UNCHANGED <<subscriptions, mutexes, notification>>,
           PendingConsistent', IdsFresh'
    PROVE  SafeIteration'
BY DEF SafeInv, SafeIteration, MutexesOwned, IteratorValid, mutexes

\* A removal leaves the pending containers consistent.
LEMMA RemoveSafe ==
    ASSUME SafeInv, NEW s \in Ids, Remove(s), UNCHANGED issued
    PROVE  PendingConsistent' /\ IdsFresh'
<1>1. /\ DOMAIN pendingSubscriptions' \subseteq DOMAIN pendingSubscriptions
      /\ pendingUnsubscriptions' \subseteq pendingUnsubscriptions \cup DOMAIN subscriptions
      /\ UNCHANGED <<subscriptions, nextSubscription>>
  BY RemoveType DEF SafeInv, Remove, UnsubscriptionsWith
<1> QED BY <1>1 DEF SafeInv, SafeIteration, PendingConsistent, IdsFresh, NoWrap

LEMMA SubscribeSafe ==
    ASSUME SafeInv, NEW t \in Threads, NEW l \in Listeners, Subscribe(t, l)
    PROVE  SafeIteration'
<1> USE DEF SafeInv
<1>1. DOMAIN pendingSubscriptions' = DOMAIN pendingSubscriptions \cup {nextSubscription}
  BY AssignType DEF Subscribe, TypeOK
<1>2. PendingConsistent'
  <2>1. NoWrap => nextSubscription = issued /\ issued \notin DOMAIN subscriptions
    BY BoundsAssumption DEF Subscribe, SafeIteration, IdsFresh, TypeOK
  <2> QED BY <1>1, <2>1 DEF Subscribe, SafeIteration, PendingConsistent, NoWrap
<1>3. IdsFresh'
  <2> SUFFICES ASSUME NoWrap
               PROVE  /\ (DOMAIN subscriptions \cup DOMAIN pendingSubscriptions)'
                            \subseteq 0 .. issued' - 1
                      /\ issued' < MaxSubscribes => nextSubscription' = issued'
    BY DEF IdsFresh, NoWrap
  <2>1. /\ issued \in Nat /\ issued' = issued + 1 /\ nextSubscription = issued
        /\ MaxSubscribes \in Nat /\ IdSpace \in Nat /\ MaxSubscribes <= IdSpace
    BY BoundsAssumption, IdSpaceAssumption
       DEF Subscribe, SafeIteration, IdsFresh, TypeOK, NoWrap
  <2>2. DOMAIN subscriptions \cup DOMAIN pendingSubscriptions \subseteq 0 .. issued - 1
    BY DEF SafeIteration, IdsFresh
  <2>3. issued' < MaxSubscribes => nextSubscription' = issued'
    BY <2>1, SuccessorInIds DEF Subscribe, TypeOK
  <2>4. DOMAIN subscriptions' = DOMAIN subscriptions
    BY DEF Subscribe
  <2>5. 0 .. issued - 1 \subseteq 0 .. issued' - 1 /\ issued \in 0 .. issued' - 1
    BY <2>1
  <2> QED BY <1>1, <2>1, <2>2, <2>3, <2>4, <2>5
<1> QED BY <1>2, <1>3, PendingStepSafe DEF Subscribe, mutexes

LEMMA UnsubscribeSafe ==
    ASSUME SafeInv, NEW t \in Threads, NEW s \in known, Unsubscribe(t, s)
    PROVE  SafeIteration'
<1>1. s \in Ids
  BY DEF SafeInv, TypeOK
<1> QED BY <1>1, RemoveSafe, PendingStepSafe DEF Unsubscribe, Remove, bounds

LEMMA ClientStepSafe ==
    ASSUME SafeInv, NEW t \in Threads, ClientStep(t)
    PROVE  SafeIteration'
BY QuietStepSafe DEF ClientStep, CheckStale, OnStaleLastListenerRemoved,
   OnFirstListenerAdded, OnListenerAdded, OnListenerRemoved, OnLastListenerRemoved, bounds

\* A step of a notification from one control point to another, by a thread that
\* takes or releases the mutexes as it has to.
LEMMA NotificationMoveSafe ==
    ASSUME SafeInv, NEW t \in Threads, UNCHANGED <<maps, issued>>, MutexesOwned',
           NEW n, notification' = [notification EXCEPT ![t] = n],
           n.at = "iterate" => n.cursor \in DOMAIN subscriptions \cup {End},
           n.at = "callback" => n.cursor \in DOMAIN subscriptions
    PROVE  SafeIteration'
<1>1. IteratorValid'
  BY DEF SafeInv, SafeIteration, TypeOK, IteratorValid, maps
<1> QED BY <1>1 DEF SafeInv, SafeIteration, PendingConsistent, IdsFresh, NoWrap, maps

LEMMA NotifySafe ==
    ASSUME SafeInv, NEW t \in Threads, NEW c \in Calls, Notify(t, c)
    PROVE  SafeIteration'
<1>1. MutexesOwned'
  BY DEF Notify, SafeInv, SafeIteration, TypeOK, MutexesOwned, mutexes
<1> QED BY <1>1, NotificationMoveSafe DEF Notify

LEMMA MergeSafe ==
    ASSUME SafeInv, NEW t \in Threads, Merge(t)
    PROVE  SafeIteration'
<1> USE DEF SafeInv
<1>1. /\ DOMAIN subscriptions' = (DOMAIN subscriptions \ pendingUnsubscriptions)
                                    \cup DOMAIN pendingSubscriptions
      /\ DOMAIN pendingSubscriptions' = {}
      /\ pendingUnsubscriptions' = {}
  BY MergedType, NoListenersType DEF Merge
<1>2. \A u \in Threads \ {t} : notification'[u] = notification[u]
  BY DEF Merge, TypeOK
<1>3. notification'[t].at = "unlock"
  BY DEF Merge, TypeOK
<1>4. MutexesOwned'
  BY <1>2, <1>3, NoThreadAssumption DEF Merge, SafeIteration, MutexesOwned
<1>5. \A u \in Threads \ {t} : ~Iterating(u)
  BY DEF Merge, SafeIteration, MutexesOwned, Iterating
<1>6. IteratorValid'
  BY <1>2, <1>3, <1>5 DEF IteratorValid, Iterating
<1>7. PendingConsistent' /\ IdsFresh'
  BY <1>1 DEF Merge, SafeIteration, PendingConsistent, IdsFresh, NoWrap, bounds
<1> QED BY <1>4, <1>6, <1>7 DEF SafeIteration

\* A thread that stands in the iteration owns notificationMutex_, whichever of its
\* control points it goes to.
LEMMA NotificationStepSafe ==
    ASSUME SafeInv, NEW t \in Threads, NotificationStep(t)
    PROVE  SafeIteration'
<1> USE DEF SafeInv
<1>1. CASE LockNotification(t)
  <2>1. MutexesOwned'
    BY <1>1, NoThreadAssumption DEF LockNotification, SafeIteration, TypeOK, MutexesOwned
  <2>2. [notification[t] EXCEPT !.at = "merge"].at = "merge"
    BY DEF TypeOK, Notifications
  <2>3. notification' = [notification EXCEPT ![t] = [notification[t] EXCEPT !.at = "merge"]]
    BY <1>1 DEF LockNotification
  <2> QED BY <1>1, <2>1, <2>2, <2>3, NotificationMoveSafe DEF LockNotification, bounds
<1>2. CASE Merge(t)
  BY <1>2, MergeSafe
<1>3. CASE UnlockSubscriptions(t)
  <2>1. PICK n \in DOMAIN subscriptions \cup {End} : notification' = [notification EXCEPT ![t] =
            [at |-> "iterate", call |-> notification[t].call, cursor |-> n]]
    BY <1>3, AdvanceFacts DEF UnlockSubscriptions
  <2>2. MutexesOwned'
    BY <1>3, <2>1, NoThreadAssumption
       DEF UnlockSubscriptions, SafeIteration, TypeOK, MutexesOwned
  <2> QED BY <1>3, <2>1, <2>2, NotificationMoveSafe DEF UnlockSubscriptions, bounds
<1>4. CASE Invoke(t)
  <2>1. MutexesOwned'
    BY <1>4 DEF Invoke, SafeIteration, TypeOK, MutexesOwned, mutexes
  <2>2. IteratorValid'
    BY <1>4 DEF Invoke, SafeIteration, TypeOK, IteratorValid, maps, Notifications
  <2> QED BY <1>4, <2>1, <2>2
          DEF Invoke, SafeIteration, PendingConsistent, IdsFresh, NoWrap, maps, bounds
<1>5. CASE Return(t)
  <2>1. notification[t].cursor + 1 \in Nat
    BY IdSpaceAssumption DEF TypeOK, Notifications
  <2>2. PICK n \in DOMAIN subscriptions \cup {End} : notification' = [notification EXCEPT ![t] =
            [at |-> "iterate", call |-> notification[t].call, cursor |-> n]]
    BY <1>5, <2>1, AdvanceFacts DEF Return
  <2>3. MutexesOwned'
    BY <1>5, <2>2 DEF Return, SafeIteration, TypeOK, MutexesOwned, mutexes
  <2> QED BY <1>5, <2>2, <2>3, NotificationMoveSafe DEF Return, bounds
<1>6. CASE EndNotification(t)
  <2>1. PICK n : /\ notification' = [notification EXCEPT ![t] = n]
                 /\ n.at \in {"drop", "idle"}
    <3>1. NotNotifying.at = "idle" /\ [notification[t] EXCEPT !.at = "drop"].at = "drop"
      BY DEF NotNotifying, TypeOK, Notifications
    <3> QED BY <1>6, <3>1 DEF EndNotification
  <2>2. MutexesOwned'
    BY <1>6, <2>1, NoThreadAssumption
       DEF EndNotification, SafeIteration, TypeOK, MutexesOwned
  <2> QED BY <1>6, <2>1, <2>2, NotificationMoveSafe DEF EndNotification, bounds
<1>7. CASE Drop(t)
  <2>1. notification[t].call.target \in Ids
    BY CallType DEF TypeOK, Notifications
  <2>2. PendingConsistent' /\ IdsFresh'
    BY <1>7, <2>1, RemoveSafe DEF Drop, bounds
  <2>3. NotNotifying.at = "idle"
    BY DEF NotNotifying
  <2>4. MutexesOwned' /\ IteratorValid'
    BY <1>7, <2>3 DEF Drop, Remove, SafeIteration, TypeOK, MutexesOwned, IteratorValid, mutexes
  <2> QED BY <2>2, <2>4 DEF SafeIteration
<1> QED BY <1>1, <1>2, <1>3, <1>4, <1>5, <1>6, <1>7 DEF NotificationStep

LEMMA InitSafe == Init => SafeIteration
<1>1. NoCall.at = "idle" /\ NotNotifying.at = "idle"
  BY DEF NoCall, NotNotifying
<1>2. Init => MutexesOwned /\ IteratorValid
  BY <1>1, NoThreadAssumption DEF Init, MutexesOwned, IteratorValid
<1>3. Init => PendingConsistent /\ IdsFresh
  BY NoListenersType DEF Init, PendingConsistent, IdsFresh
<1> QED BY <1>2, <1>3 DEF SafeIteration

LEMMA NextSafe == SafeInv /\ [Next]_vars => SafeInv'
<1> SUFFICES ASSUME SafeInv, [Next]_vars PROVE SafeInv'
  OBVIOUS
<1>1. CASE UNCHANGED vars
  BY <1>1, QuietStepSafe DEF SafeInv, TypeOK, vars, maps, mutexes, binding, bounds
<1>2. CASE Next
  <2>1. TypeOK'
    BY <1>2, SubscribeType, UnsubscribeType, ClientStepType, NotifyType,
       NotificationStepType DEF Next, SafeInv
  <2>2. SafeIteration'
    BY <1>2, SubscribeSafe, UnsubscribeSafe, ClientStepSafe, NotifySafe,
       NotificationStepSafe DEF Next
  <2> QED BY <2>1, <2>2 DEF SafeInv
<1> QED BY <1>1, <1>2

\* The locking discipline holds: the mutexes are owned as the code means them to be,
\* no iterator over subscriptions_ dangles, the pending containers are consistent.
THEOREM IterationSafe == Spec => []SafeIteration
<1>1. Init => SafeInv
  BY InitType, InitSafe DEF SafeInv
<1>2. SafeInv => SafeIteration
  BY DEF SafeInv
<1> QED BY <1>1, <1>2, NextSafe, PTL DEF Spec

\* Nobody changes subscriptions_ under the iterator of a notification.
THEOREM SubscriptionsAreStable == Spec => SubscriptionsStable
<1>1. Init => SafeInv
  BY InitType, InitSafe DEF SafeInv
<1>2. SafeInv /\ [Next]_vars
         => [(\E t \in Threads : Iterating(t)) => subscriptions' = subscriptions]_vars
  <2> SUFFICES ASSUME SafeInv, Next, NEW t \in Threads, Iterating(t)
               PROVE  subscriptions' = subscriptions
    OBVIOUS
  <2>1. \A u \in Threads : ~Merge(u)
    BY DEF Merge, Iterating, SafeInv, SafeIteration, MutexesOwned
  <2> QED BY <2>1 DEF Next, Subscribe, Unsubscribe, Remove, ClientStep, CheckStale,
          OnStaleLastListenerRemoved, OnFirstListenerAdded, OnListenerAdded,
          OnListenerRemoved, OnLastListenerRemoved, Notify, NotificationStep,
          LockNotification, UnlockSubscriptions, Invoke, Return, EndNotification, Drop, maps
<1> QED BY <1>1, <1>2, NextSafe, PTL DEF Spec, SubscriptionsStable

-----------------------------------------------------------------------------
(***************************************************************************)
(* The hooks.  HooksBalanced and RemovedHookOnce become inductive with the *)
(* facts that an id is unknown to the clients until its onListenerAdded,   *)
(* that no two threads add or remove the same id, and that an id being     *)
(* removed is not a dropped one.                                           *)
(***************************************************************************)
HookBooks ==
    NoWrap =>
        /\ hooked \subseteq known /\ known \subseteq 0 .. issued - 1
        /\ Removing \cap dropped = {}
        /\ \A t \in Threads : IsAdding(t) =>
               /\ client[t].token \in (0 .. issued - 1) \ known
               /\ \A u \in Threads \ {t} : IsAdding(u) => client[u].token # client[t].token

HookInv == HooksBalanced /\ RemovedHookOnce /\ HookBooks

\* A removal takes the id out of the live ones, and finds out whether it was one.
LEMMA RemoveLive ==
    ASSUME SafeInv, NoWrap, NEW s \in Ids, Remove(s)
    PROVE  /\ HasUnsubscribed(s) <=> s \in Live
           /\ Live' = Live \ {s}
<1>1. /\ DOMAIN subscriptions \cap DOMAIN pendingSubscriptions = {}
      /\ pendingUnsubscriptions \subseteq DOMAIN subscriptions
  BY DEF SafeInv, SafeIteration, PendingConsistent
<1>2. DOMAIN PendingWithout(s) = DOMAIN pendingSubscriptions \ {s}
  BY <1>1, WithoutType DEF PendingWithout, SafeInv, TypeOK
<1>3. UnsubscriptionsWith(s) = pendingUnsubscriptions \cup ({s} \cap DOMAIN subscriptions)
  BY <1>1 DEF UnsubscriptionsWith
<1> QED BY <1>1, <1>2, <1>3 DEF HasUnsubscribed, Live, Remove

\* A merge leaves the live ids as they are.
LEMMA MergeLive ==
    ASSUME SafeInv, NEW t \in Threads, Merge(t)
    PROVE  Live' = Live
BY MergedType, NoListenersType DEF SafeInv, Merge, Live

\* A step that leaves the live ids, the client calls and the binding alone.
LEMMA QuietStepHooks ==
    ASSUME HookInv, Live' = Live, UNCHANGED <<client, binding, dropped, issued>>
    PROVE  HookInv'
BY DEF HookInv, HooksBalanced, RemovedHookOnce, HookBooks, Adding, Removing, IsAdding,
       IsRemoving, NoWrap, binding

LEMMA SubscribeHooks ==
    ASSUME SafeInv, HookInv, NEW t \in Threads, NEW l \in Listeners, Subscribe(t, l)
    PROVE  HookInv'
<1> SUFFICES ASSUME NoWrap PROVE HookInv'
  BY DEF HookInv, HooksBalanced, RemovedHookOnce, HookBooks, NoWrap
<1> USE DEF NoWrap
<1>1. /\ nextSubscription = issued /\ issued \in Nat /\ issued' = issued + 1
  BY BoundsAssumption DEF Subscribe, SafeInv, SafeIteration, IdsFresh, TypeOK
<1>2. Live' = Live \cup {issued}
  <2>1. DOMAIN pendingSubscriptions' = DOMAIN pendingSubscriptions \cup {issued}
    BY <1>1, AssignType DEF Subscribe, SafeInv, TypeOK
  <2> QED BY <2>1 DEF Live, Subscribe
<1>3. /\ ~IsAdding(t) /\ ~IsRemoving(t)
      /\ IsAdding(t)' /\ ~IsRemoving(t)' /\ client'[t].token = issued
  BY <1>1 DEF Subscribe, MayCall, IsAdding, IsRemoving, SafeInv, TypeOK
<1>4. \A u \in Threads \ {t} : client'[u] = client[u]
  BY DEF Subscribe, SafeInv, TypeOK
<1>5. Adding' = Adding \cup {issued} /\ Removing' = Removing
  BY <1>3, <1>4 DEF Adding, Removing, IsAdding, IsRemoving
<1>6. hooked \cup Adding \subseteq 0 .. issued - 1
  BY DEF HookInv, HookBooks, Adding
<1>7. issued \notin hooked \cup Adding
  BY <1>1, <1>6
<1>8. UNCHANGED <<hooked, known, dropped>>
  BY DEF Subscribe, binding
<1>9. HooksBalanced'
  BY <1>2, <1>5, <1>7, <1>8 DEF HookInv, HooksBalanced
<1>10. RemovedHookOnce'
  BY <1>3, <1>4, <1>8 DEF HookInv, RemovedHookOnce, IsRemoving
<1>11. HookBooks'
  <2>1. 0 .. issued - 1 \subseteq 0 .. issued' - 1 /\ issued \in 0 .. issued' - 1
    BY <1>1
  <2>2. issued \notin known
    BY <1>1 DEF HookInv, HookBooks
  <2>3. \A u \in Threads \ {t} : IsAdding(u) =>
            client[u].token \in (0 .. issued - 1) \ known /\ client[u].token # issued
    BY <1>1 DEF HookInv, HookBooks
  <2>4. \A u \in Threads : IsAdding(u)' =>
            /\ client'[u].token \in (0 .. issued' - 1) \ known
            /\ \A v \in Threads \ {u} : IsAdding(v)' => client'[v].token # client'[u].token
    BY <1>3, <1>4, <2>1, <2>2, <2>3 DEF HookInv, HookBooks, IsAdding
  <2> QED BY <1>5, <1>8, <2>1, <2>4 DEF HookInv, HookBooks
<1> QED BY <1>9, <1>10, <1>11 DEF HookInv

LEMMA UnsubscribeHooks ==
    ASSUME SafeInv, HookInv, NEW t \in Threads, NEW s \in known, Unsubscribe(t, s)
    PROVE  HookInv'
<1> SUFFICES ASSUME NoWrap PROVE HookInv'
  BY DEF HookInv, HooksBalanced, RemovedHookOnce, HookBooks, NoWrap
<1> USE DEF NoWrap
<1>1. /\ HasUnsubscribed(s) <=> s \in Live
      /\ Live' = Live \ {s}
  BY RemoveLive DEF Unsubscribe, SafeInv, TypeOK
<1>2. CASE ~HasUnsubscribed(s)
  BY <1>1, <1>2, QuietStepHooks DEF Unsubscribe, bounds
<1>3. CASE HasUnsubscribed(s)
  <2>1. /\ ~IsAdding(t) /\ ~IsRemoving(t)
        /\ ~IsAdding(t)' /\ IsRemoving(t)' /\ client'[t].token = s
    BY <1>3 DEF Unsubscribe, MayCall, IsAdding, IsRemoving, SafeInv, TypeOK
  <2>2. \A u \in Threads \ {t} : client'[u] = client[u]
    BY <1>3 DEF Unsubscribe, SafeInv, TypeOK
  <2>3. Adding' = Adding /\ Removing' = Removing \cup {s}
    BY <2>1, <2>2 DEF Adding, Removing, IsAdding, IsRemoving
  <2>4. s \in hooked /\ s \notin Removing /\ s \notin dropped
    BY <1>1, <1>3 DEF HookInv, HooksBalanced, HookBooks, Adding
  <2>5. UNCHANGED <<hooked, known, dropped, issued>>
    BY DEF Unsubscribe, binding, bounds
  <2>6. HooksBalanced'
    BY <1>1, <1>3, <2>3, <2>4, <2>5 DEF HookInv, HooksBalanced
  <2>7. RemovedHookOnce'
    BY <2>1, <2>2, <2>4, <2>5 DEF HookInv, RemovedHookOnce, IsRemoving, Removing
  <2>8. HookBooks'
    BY <2>1, <2>2, <2>3, <2>4, <2>5 DEF HookInv, HookBooks, IsAdding
  <2> QED BY <2>6, <2>7, <2>8 DEF HookInv
<1> QED BY <1>2, <1>3

\* A hook of subscribe() other than onListenerAdded: the same threads add and remove
\* the same ids as before, whatever happens to armed.
LEMMA HookMoveHooks ==
    ASSUME HookInv, UNCHANGED <<maps, hooked, known, dropped, issued>>,
           \A u \in Threads :
              /\ IsAdding(u)' <=> IsAdding(u)
              /\ IsRemoving(u)' <=> IsRemoving(u)
              /\ (IsAdding(u) \/ IsRemoving(u)) => client'[u].token = client[u].token
    PROVE  HookInv'
<1>1. Adding' = Adding
  BY DEF Adding, IsAdding, IsRemoving
<1>2. Removing' = Removing
  BY DEF Removing, IsAdding, IsRemoving
<1>3. Live' = Live
  BY DEF Live, maps
<1>4. HooksBalanced'
  BY <1>1, <1>2, <1>3 DEF HookInv, HooksBalanced, NoWrap
<1>5. RemovedHookOnce'
  BY DEF HookInv, RemovedHookOnce, NoWrap, IsAdding, IsRemoving
<1>6. HookBooks'
  BY <1>2 DEF HookInv, HookBooks, NoWrap, IsAdding, IsRemoving
<1> QED BY <1>4, <1>5, <1>6 DEF HookInv

LEMMA ClientStepHooks ==
    ASSUME SafeInv, HookInv, NEW t \in Threads, ClientStep(t)
    PROVE  HookInv'
<1>1. client[t] \in ClientCalls
  BY DEF SafeInv, TypeOK
<1>2. NoCall.at = "idle"
  BY DEF NoCall
<1>3. CASE CheckStale(t)
  BY <1>1, <1>3, HookMoveHooks
     DEF CheckStale, IsAdding, IsRemoving, SafeInv, TypeOK, ClientCalls, binding, bounds
<1>4. CASE OnStaleLastListenerRemoved(t)
  BY <1>1, <1>4, HookMoveHooks
     DEF OnStaleLastListenerRemoved, IsAdding, IsRemoving, SafeInv, TypeOK, ClientCalls, bounds
<1>5. CASE OnFirstListenerAdded(t)
  BY <1>1, <1>5, HookMoveHooks
     DEF OnFirstListenerAdded, IsAdding, IsRemoving, SafeInv, TypeOK, ClientCalls, bounds
<1>6. CASE OnLastListenerRemoved(t)
  <2>1. /\ \A u \in Threads \ {t} : client'[u] = client[u]
        /\ client'[t].at = "idle" /\ client[t].at = "last"
    BY <1>2, <1>6 DEF OnLastListenerRemoved, SafeInv, TypeOK
  <2> QED BY <1>6, <2>1, HookMoveHooks DEF OnLastListenerRemoved, IsAdding, IsRemoving, bounds
<1>7. CASE OnListenerAdded(t)
  <2> SUFFICES ASSUME NoWrap PROVE HookInv'
    BY DEF HookInv, HooksBalanced, RemovedHookOnce, HookBooks, NoWrap
  <2> DEFINE s == client[t].token
  <2>1. /\ IsAdding(t) /\ ~IsRemoving(t) /\ ~IsAdding(t)' /\ ~IsRemoving(t)'
    BY <1>2, <1>7 DEF OnListenerAdded, IsAdding, IsRemoving, SafeInv, TypeOK
  <2>2. \A u \in Threads \ {t} : client'[u] = client[u]
    BY <1>7 DEF OnListenerAdded, SafeInv, TypeOK
  <2>3. \A u \in Threads \ {t} : IsAdding(u) => client[u].token # s
    BY <2>1 DEF HookInv, HookBooks, NoWrap
  <2>4. Adding' = Adding \ {s} /\ s \in Adding /\ Removing' = Removing
    BY <2>1, <2>2, <2>3 DEF Adding, Removing, IsAdding, IsRemoving
  <2>5. /\ hooked' = hooked \cup {s} /\ known' = known \cup {s}
        /\ UNCHANGED <<dropped, issued>> /\ Live' = Live
    BY <1>7 DEF OnListenerAdded, Live, maps, bounds
  <2>6. HooksBalanced'
    BY <2>4, <2>5 DEF HookInv, HooksBalanced, NoWrap
  <2>7. RemovedHookOnce'
    BY <2>1, <2>2, <2>5 DEF HookInv, RemovedHookOnce, IsRemoving, NoWrap
  <2>8. s \in 0 .. issued - 1
    BY <2>1 DEF HookInv, HookBooks, NoWrap
  <2>9. HookBooks'
    BY <2>1, <2>2, <2>3, <2>4, <2>5, <2>8 DEF HookInv, HookBooks, IsAdding, NoWrap
  <2> QED BY <2>6, <2>7, <2>9 DEF HookInv
<1>8. CASE OnListenerRemoved(t)
  <2> SUFFICES ASSUME NoWrap PROVE HookInv'
    BY DEF HookInv, HooksBalanced, RemovedHookOnce, HookBooks, NoWrap
  <2> DEFINE s == client[t].token
  <2>1. /\ ~IsAdding(t) /\ IsRemoving(t) /\ ~IsAdding(t)' /\ ~IsRemoving(t)'
    BY <1>1, <1>2, <1>8
       DEF OnListenerRemoved, IsAdding, IsRemoving, SafeInv, TypeOK, ClientCalls
  <2>2. \A u \in Threads \ {t} : client'[u] = client[u]
    BY <1>8 DEF OnListenerRemoved, SafeInv, TypeOK
  <2>3. s \in hooked /\ \A u \in Threads \ {t} : IsRemoving(u) => client[u].token # s
    BY <2>1 DEF HookInv, RemovedHookOnce, NoWrap
  <2>4. Adding' = Adding /\ Removing' = Removing \ {s} /\ s \in Removing
    BY <2>1, <2>2, <2>3 DEF Adding, Removing, IsAdding, IsRemoving
  <2>5. /\ hooked' = hooked \ {s} /\ UNCHANGED <<known, dropped, issued>> /\ Live' = Live
    BY <1>8 DEF OnListenerRemoved, Live, maps, bounds
  <2>6. s \notin Live \cup dropped \cup Adding
    BY <2>3, <2>4 DEF HookInv, HooksBalanced, HookBooks, NoWrap
  <2>7. HooksBalanced'
    BY <2>4, <2>5, <2>6 DEF HookInv, HooksBalanced, NoWrap
  <2>8. RemovedHookOnce'
    BY <2>1, <2>2, <2>3, <2>5 DEF HookInv, RemovedHookOnce, IsRemoving, NoWrap
  <2>9. HookBooks'
    BY <2>1, <2>2, <2>4, <2>5 DEF HookInv, HookBooks, IsAdding, NoWrap
  <2> QED BY <2>7, <2>8, <2>9 DEF HookInv
<1> QED BY <1>3, <1>4, <1>5, <1>6, <1>7, <1>8 DEF ClientStep

LEMMA DropHooks ==
    ASSUME SafeInv, HookInv, NEW t \in Threads, Drop(t)
    PROVE  HookInv'
<1> SUFFICES ASSUME NoWrap PROVE HookInv'
  BY DEF HookInv, HooksBalanced, RemovedHookOnce, HookBooks, NoWrap
<1> DEFINE s == notification[t].call.target
<1>1. s \in Ids
  BY CallType DEF SafeInv, TypeOK, Notifications
<1>2. (HasUnsubscribed(s) <=> s \in Live) /\ Live' = Live \ {s}
  BY <1>1, RemoveLive DEF Drop
<1>3. dropped' = dropped \cup ({s} \cap Live)
  BY <1>2 DEF Drop
<1>4. /\ UNCHANGED <<hooked, known, issued, client>>
      /\ Adding' = Adding /\ Removing' = Removing
  BY DEF Drop, Adding, Removing, IsAdding, IsRemoving, binding, bounds
<1> QED BY <1>2, <1>3, <1>4
        DEF HookInv, HooksBalanced, RemovedHookOnce, HookBooks, IsAdding, IsRemoving, NoWrap

LEMMA NotificationStepHooks ==
    ASSUME SafeInv, HookInv, NEW t \in Threads, NotificationStep(t)
    PROVE  HookInv'
<1>1. CASE Merge(t)
  BY <1>1, MergeLive, QuietStepHooks DEF Merge, bounds
<1>2. CASE Drop(t)
  BY <1>2, DropHooks
<1>3. CASE LockNotification(t) \/ UnlockSubscriptions(t) \/ Invoke(t) \/ Return(t)
           \/ EndNotification(t)
  <2>1. Live' = Live /\ UNCHANGED <<client, binding, dropped, issued>>
    BY <1>3 DEF LockNotification, UnlockSubscriptions, Invoke, Return, EndNotification,
            Live, maps, bounds
  <2> QED BY <2>1, QuietStepHooks
<1> QED BY <1>1, <1>2, <1>3 DEF NotificationStep

LEMMA InitHooks == Init => HookInv
<1> SUFFICES ASSUME Init PROVE HookInv
  OBVIOUS
<1>1. \A t \in Threads : ~IsAdding(t) /\ ~IsRemoving(t)
  BY DEF Init, NoCall, IsAdding, IsRemoving
<1>2. Live = {}
  BY NoListenersType DEF Init, Live
<1> QED BY <1>1, <1>2 DEF Init, HookInv, HooksBalanced, RemovedHookOnce, HookBooks, Adding, Removing

LEMMA NextHooks == SafeInv /\ HookInv /\ [Next]_vars => HookInv'
<1> SUFFICES ASSUME SafeInv, HookInv, [Next]_vars PROVE HookInv'
  OBVIOUS
<1>1. CASE UNCHANGED vars
  BY <1>1, QuietStepHooks DEF vars, maps, bounds, Live
<1>2. ASSUME NEW t \in Threads, NEW c \in Calls, Notify(t, c) PROVE HookInv'
  BY <1>2, QuietStepHooks DEF Notify, maps, Live
<1>3. CASE Next
  BY <1>2, <1>3, SubscribeHooks, UnsubscribeHooks, ClientStepHooks, NotificationStepHooks
     DEF Next
<1> QED BY <1>1, <1>3

\* The ids between onListenerAdded and onListenerRemoved are the live ones, up to the
\* hooks still to be called and to the removals by notifySpecificError.
THEOREM HooksAreBalanced == Spec => []HooksBalanced
<1>1. Init => SafeInv /\ HookInv
  BY InitType, InitSafe, InitHooks DEF SafeInv
<1>2. HookInv => HooksBalanced
  BY DEF HookInv
<1> QED BY <1>1, <1>2, NextSafe, NextHooks, PTL DEF Spec

\* onListenerRemoved is called at most once per subscription.
THEOREM RemovedHookIsCalledOnce == Spec => []RemovedHookOnce
<1>1. Init => SafeInv /\ HookInv
  BY InitType, InitSafe, InitHooks DEF SafeInv
<1>2. HookInv => RemovedHookOnce
  BY DEF HookInv
<1> QED BY <1>1, <1>2, NextSafe, NextHooks, PTL DEF Spec

-----------------------------------------------------------------------------
(***************************************************************************)
(* The hooks of a single thread.  With two, the hooks of one subscribe()   *)
(* and one unsubscribe() may be called in the wrong order.                 *)
(***************************************************************************)
SingleThread == \E t \in Threads : \A u \in Threads : u = t

\* While a call is open, the thread is in no notification but that of the listener that
\* made the call.
CallInListener ==
    \A t \in Threads : client[t].at # "idle" => notification[t].at \in {"idle", "callback"}

\* What is between the two calls of the hooks.
ArmedInv ==
    \A t \in Threads :
        /\ client[t].at \in {"checkStale", "staleLast", "first"} =>
              Live # {} /\ (dropped = {} => ~armed)
        /\ client[t].at = "added" => Live # {} /\ armed
        /\ client[t].at = "removed" => armed /\ (client[t].isLast <=> Live = {})
        /\ client[t].at = "last" => Live = {}
        /\ client[t].at = "idle" => (Live # {} => armed) /\ (Live = {} /\ dropped = {} => ~armed)

\* NoneRemain compares two sizes to find out whether an id is live.
LEMMA NoneRemainFacts ==
    ASSUME NEW subs \in SUBSET Ids, NEW pu \in SUBSET subs
    PROVE  Cardinality(pu) = Cardinality(subs) <=> subs \ pu = {}
<1>1. IsFiniteSet(Ids)
  BY FS_Interval, IdSpaceAssumption DEF Ids
<1>2. IsFiniteSet(subs)
  BY <1>1, FS_Subset
<1>3. Cardinality(subs) = Cardinality(pu) => subs = pu
  BY <1>2, FS_Subset
<1> QED BY <1>3

LEMMA FirstMeansNoneLive ==
    ASSUME SafeInv
    PROVE  IsFirstListener <=> Live = {}
<1>1. pendingUnsubscriptions \subseteq DOMAIN subscriptions /\ DOMAIN subscriptions \subseteq Ids
  BY DEF SafeInv, SafeIteration, PendingConsistent, TypeOK, IsListenersMap
<1> QED BY <1>1, NoneRemainFacts DEF IsFirstListener, NoneRemain, Live

LEMMA LastMeansNoneLive ==
    ASSUME SafeInv, NoWrap, NEW s \in Ids, Remove(s)
    PROVE  NoneRemain(PendingWithout(s), UnsubscriptionsWith(s)) <=> Live \ {s} = {}
<1>1. /\ pendingUnsubscriptions \subseteq DOMAIN subscriptions /\ DOMAIN subscriptions \subseteq Ids
      /\ DOMAIN subscriptions \cap DOMAIN pendingSubscriptions = {}
  BY DEF SafeInv, SafeIteration, PendingConsistent, TypeOK, IsListenersMap
<1>2. DOMAIN PendingWithout(s) = DOMAIN pendingSubscriptions \ {s}
  BY <1>1, WithoutType DEF PendingWithout, SafeInv, TypeOK
<1>3. UnsubscriptionsWith(s) = pendingUnsubscriptions \cup ({s} \cap DOMAIN subscriptions)
  BY <1>1 DEF UnsubscriptionsWith
<1>4. Cardinality(UnsubscriptionsWith(s)) = Cardinality(DOMAIN subscriptions)
         <=> DOMAIN subscriptions \ UnsubscriptionsWith(s) = {}
  BY <1>1, <1>3, NoneRemainFacts
<1> QED BY <1>1, <1>2, <1>3, <1>4 DEF NoneRemain, Live

LEMMA InitArmed == Init => CallInListener /\ ArmedInv
<1> SUFFICES ASSUME Init PROVE CallInListener /\ ArmedInv
  OBVIOUS
<1>1. Live = {}
  BY NoListenersType DEF Init, Live
<1> QED BY <1>1 DEF Init, NoCall, CallInListener, ArmedInv

LEMMA NextCallInListener == SafeInv /\ CallInListener /\ [Next]_vars => CallInListener'
<1> SUFFICES ASSUME SafeInv, CallInListener, [Next]_vars PROVE CallInListener'
  OBVIOUS
<1>1. ASSUME NEW t \in Threads, \A u \in Threads \ {t} : UNCHANGED <<client[u], notification[u]>>,
             client'[t].at = "idle" \/ notification'[t].at \in {"idle", "callback"}
      PROVE  CallInListener'
  BY <1>1 DEF CallInListener
<1>2. CASE UNCHANGED <<client, notification>>
  BY <1>2 DEF CallInListener
<1>3. ASSUME NEW t \in Threads,
             (\E l \in Listeners : Subscribe(t, l)) \/ (\E s \in known : Unsubscribe(t, s))
      PROVE  CallInListener'
  BY <1>1, <1>3 DEF Subscribe, Unsubscribe, MayCall, SafeInv, TypeOK
<1>4. ASSUME NEW t \in Threads, ClientStep(t) PROVE CallInListener'
  <2>1. client[t].at # "idle" /\ UNCHANGED notification
        /\ \A u \in Threads \ {t} : client'[u] = client[u]
    BY <1>4 DEF ClientStep, CheckStale, OnStaleLastListenerRemoved, OnFirstListenerAdded,
         OnListenerAdded, OnListenerRemoved, OnLastListenerRemoved, SafeInv, TypeOK
  <2> QED BY <1>1, <2>1 DEF CallInListener
<1>5. ASSUME NEW t \in Threads, NEW c \in Calls, Notify(t, c) PROVE CallInListener'
  BY <1>1, <1>5 DEF Notify, SafeInv, TypeOK
<1>6. ASSUME NEW t \in Threads, NotificationStep(t) PROVE CallInListener'
  <2>1. UNCHANGED client /\ client[t].at = "idle"
    BY <1>6 DEF NotificationStep, LockNotification, Merge, UnlockSubscriptions, Invoke, Return,
         EndNotification, Drop, CallInListener
  <2>2. \A u \in Threads \ {t} : notification'[u] = notification[u]
    BY <1>6 DEF NotificationStep, LockNotification, Merge, UnlockSubscriptions, Invoke, Return,
         EndNotification, Drop, Advance, SafeInv, TypeOK
  <2> QED BY <1>1, <2>1, <2>2
<1>7. CASE Next
  BY <1>3, <1>4, <1>5, <1>6, <1>7 DEF Next
<1> QED BY <1>2, <1>7 DEF vars

LEMMA SubscribeArmed ==
    ASSUME SingleThread, SafeInv, ArmedInv, NEW t \in Threads, NEW l \in Listeners,
           Subscribe(t, l)
    PROVE  ArmedInv'
<1>1. Live' # {}
  <2>1. nextSubscription \in DOMAIN pendingSubscriptions'
    BY DEF Subscribe, Assign
  <2> QED BY <2>1 DEF Live
<1>2. /\ client[t].at = "idle" /\ UNCHANGED <<armed, dropped>>
      /\ client'[t].at = IF Live = {} THEN "checkStale" ELSE "added"
  BY FirstMeansNoneLive DEF Subscribe, MayCall, binding, SafeInv, TypeOK
<1> QED BY <1>1, <1>2 DEF ArmedInv, SingleThread

LEMMA UnsubscribeArmed ==
    ASSUME SingleThread, NoWrap, SafeInv, ArmedInv, NEW t \in Threads, NEW s \in known,
           Unsubscribe(t, s)
    PROVE  ArmedInv'
<1>1. /\ HasUnsubscribed(s) <=> s \in Live
      /\ Live' = Live \ {s}
      /\ NoneRemain(PendingWithout(s), UnsubscriptionsWith(s)) <=> Live \ {s} = {}
  BY RemoveLive, LastMeansNoneLive DEF Unsubscribe, SafeInv, TypeOK
<1>2. client[t].at = "idle" /\ UNCHANGED <<armed, dropped>>
  BY DEF Unsubscribe, MayCall, binding
<1>3. CASE s \in Live
  <2>1. client'[t].at = "removed" /\ (client'[t].isLast <=> Live' = {})
    BY <1>1, <1>3 DEF Unsubscribe, SafeInv, TypeOK
  <2> QED BY <1>2, <1>3, <2>1 DEF ArmedInv, SingleThread
<1>4. CASE s \notin Live
  BY <1>1, <1>2, <1>4 DEF Unsubscribe, ArmedInv, SingleThread
<1> QED BY <1>3, <1>4

LEMMA ClientStepArmed ==
    ASSUME SingleThread, SafeInv, ArmedInv, NEW t \in Threads, ClientStep(t)
    PROVE  ArmedInv'
<1>1. Live' = Live /\ dropped' = dropped /\ client[t] \in ClientCalls
  BY DEF ClientStep, CheckStale, OnStaleLastListenerRemoved, OnFirstListenerAdded,
      OnListenerAdded, OnListenerRemoved, OnLastListenerRemoved, Live, maps, SafeInv, TypeOK
<1>2. CASE CheckStale(t)
  <2>1. client'[t].at \in {"staleLast", "first"} /\ armed' = armed
    BY <1>1, <1>2 DEF CheckStale, binding, SafeInv, TypeOK, ClientCalls
  <2> QED BY <1>1, <1>2, <2>1 DEF CheckStale, ArmedInv, SingleThread
<1>3. CASE OnStaleLastListenerRemoved(t)
  <2>1. client'[t].at = "first" /\ ~armed'
    BY <1>1, <1>3 DEF OnStaleLastListenerRemoved, SafeInv, TypeOK, ClientCalls
  <2> QED BY <1>1, <1>3, <2>1 DEF OnStaleLastListenerRemoved, ArmedInv, SingleThread
<1>4. CASE OnFirstListenerAdded(t)
  <2>1. client'[t].at = "added" /\ armed'
    BY <1>1, <1>4 DEF OnFirstListenerAdded, SafeInv, TypeOK, ClientCalls
  <2> QED BY <1>1, <1>4, <2>1 DEF OnFirstListenerAdded, ArmedInv, SingleThread
<1>5. CASE OnListenerAdded(t)
  <2>1. client'[t].at = "idle" /\ armed' = armed
    BY <1>5 DEF OnListenerAdded, NoCall, SafeInv, TypeOK
  <2> QED BY <1>1, <1>5, <2>1 DEF OnListenerAdded, ArmedInv, SingleThread
<1>6. CASE OnListenerRemoved(t)
  <2>1. /\ client'[t].at = IF client[t].isLast THEN "last" ELSE "idle"
        /\ armed' = armed
    BY <1>1, <1>6 DEF OnListenerRemoved, NoCall, SafeInv, TypeOK, ClientCalls
  <2> QED BY <1>1, <1>6, <2>1 DEF OnListenerRemoved, ArmedInv, SingleThread
<1>7. CASE OnLastListenerRemoved(t)
  <2>1. client'[t].at = "idle" /\ ~armed'
    BY <1>7 DEF OnLastListenerRemoved, NoCall, SafeInv, TypeOK
  <2> QED BY <1>1, <1>7, <2>1 DEF OnLastListenerRemoved, ArmedInv, SingleThread
<1> QED BY <1>2, <1>3, <1>4, <1>5, <1>6, <1>7 DEF ClientStep

LEMMA NotificationStepArmed ==
    ASSUME SingleThread, NoWrap, SafeInv, CallInListener, ArmedInv, NEW t \in Threads,
           NotificationStep(t)
    PROVE  ArmedInv'
<1>1. CASE Merge(t)
  BY <1>1, MergeLive DEF Merge, binding, ArmedInv
<1>2. CASE Drop(t)
  <2> DEFINE s == notification[t].call.target
  <2>1. s \in Ids
    BY CallType DEF SafeInv, TypeOK, Notifications
  <2>2. (HasUnsubscribed(s) <=> s \in Live) /\ Live' = Live \ {s}
    BY <1>2, <2>1, RemoveLive DEF Drop
  <2>3. dropped' = dropped \cup ({s} \cap Live) /\ UNCHANGED <<client, armed>>
    BY <1>2, <2>2 DEF Drop, binding
  <2>4. client[t].at = "idle"
    BY <1>2 DEF Drop, CallInListener
  <2> QED BY <2>2, <2>3, <2>4 DEF ArmedInv, SingleThread
<1>3. CASE LockNotification(t) \/ UnlockSubscriptions(t) \/ Invoke(t) \/ Return(t)
           \/ EndNotification(t)
  <2>1. Live' = Live /\ UNCHANGED <<client, armed, dropped>>
    BY <1>3 DEF LockNotification, UnlockSubscriptions, Invoke, Return, EndNotification,
            Live, maps, binding
  <2> QED BY <2>1 DEF ArmedInv
<1> QED BY <1>1, <1>2, <1>3 DEF NotificationStep

LEMMA NextArmed ==
    ASSUME SingleThread, NoWrap
    PROVE  SafeInv /\ CallInListener /\ ArmedInv /\ [Next]_vars => ArmedInv'
<1> SUFFICES ASSUME SafeInv, CallInListener, ArmedInv, [Next]_vars PROVE ArmedInv'
  OBVIOUS
<1>1. ASSUME UNCHANGED <<maps, client, armed, dropped>> PROVE ArmedInv'
  BY <1>1 DEF ArmedInv, Live, maps
<1>2. ASSUME NEW t \in Threads, NEW c \in Calls, Notify(t, c) PROVE ArmedInv'
  BY <1>1, <1>2 DEF Notify, binding
<1>3. CASE Next
  BY <1>2, <1>3, SubscribeArmed, UnsubscribeArmed, ClientStepArmed, NotificationStepArmed
     DEF Next
<1> QED BY <1>1, <1>3 DEF vars, binding

\* With one thread, only the hooks of the one open call change whether the binding is armed.
LEMMA SingleThreadInvariant == SingleThread /\ NoWrap => (Spec => []ArmedInv)
<1> SUFFICES ASSUME SingleThread, NoWrap PROVE Spec => []ArmedInv
  OBVIOUS
<1>1. Init => SafeInv /\ CallInListener /\ ArmedInv
  BY InitType, InitSafe, InitArmed DEF SafeInv
<1> QED BY <1>1, NextSafe, NextCallInListener, NextArmed, PTL DEF Spec

\* With one thread, a live subscription keeps the binding armed, and without one it is
\* disarmed, unless a failed notifySpecificError removed one without its hooks.
THEOREM SingleThreadArmed == SingleThread /\ NoWrap => (Spec => []ArmedWhileSubscribed)
<1> SUFFICES ASSUME SingleThread, NoWrap PROVE Spec => []ArmedWhileSubscribed
  OBVIOUS
<1>1. ArmedInv => ArmedWhileSubscribed
  BY DEF ArmedInv, ArmedWhileSubscribed, AtRest, SingleThread
<1> QED BY <1>1, SingleThreadInvariant, PTL

\* With one thread, onFirstListenerAdded is only called on a binding that is not armed
\* (Event.hpp:129), although isFirstListener was decided before the lock was released.
THEOREM FirstHookDisarmed == SingleThread /\ NoWrap => (Spec => []FirstOnlyWhenDisarmed)
<1> SUFFICES ASSUME SingleThread, NoWrap PROVE Spec => []FirstOnlyWhenDisarmed
  OBVIOUS
<1>1. ArmedInv => FirstOnlyWhenDisarmed
  BY DEF ArmedInv, FirstOnlyWhenDisarmed
<1> QED BY <1>1, SingleThreadInvariant, PTL

-----------------------------------------------------------------------------
(***************************************************************************)
(* Event implements EventDelivery: as long as ids do not wrap, every step  *)
(* of the detailed event is a step of the abstract one or leaves it alone. *)
(*                                                                         *)
(* A subscription takes effect at once, although it is merged later; a     *)
(* notification begins with its merge, delivers with each invocation, and  *)
(* finishes when it releases notificationMutex_.                           *)
(***************************************************************************)
\* The iterator is at an element that the notification addresses, or at the end.  This
\* is what the merge, the only change of subscriptions_, needs notificationMutex_ for.
CursorInv ==
    \A t \in Threads :
        /\ notification[t].at = "iterate" =>
              notification[t].cursor \in Addressed(notification[t].call, subscriptions) \cup {End}
        /\ notification[t].at = "callback" =>
              notification[t].cursor \in Addressed(notification[t].call, subscriptions)

RefInv == SafeInv /\ CursorInv

-----------------------------------------------------------------------------
(***************************************************************************)
(* The notifications.                                                      *)
(***************************************************************************)
LEMMA InitCursor == Init => CursorInv
BY DEF Init, NotNotifying, CursorInv

\* What Advance does to the thread that iterates, and to the others.
LEMMA AdvanceMoves ==
    ASSUME SafeInv, NEW t \in Threads, NEW i \in Nat, Advance(t, i)
    PROVE  /\ \A u \in Threads \ {t} : notification'[u] = notification[u]
           /\ notification'[t].at = "iterate" /\ notification'[t].call = notification[t].call
           /\ IsLeast(notification'[t].cursor, ToInvoke(t, i) \cup {End})
BY DEF Advance, SafeInv, TypeOK

\* The steps of a notification that move one thread and leave subscriptions_ alone.
LEMMA NextCursor == SafeInv /\ CursorInv /\ [Next]_vars => CursorInv'
<1> SUFFICES ASSUME SafeInv, CursorInv, [Next]_vars PROVE CursorInv'
  OBVIOUS
<1>1. CASE UNCHANGED <<subscriptions, notification>>
  BY <1>1 DEF CursorInv
<1>2. ASSUME NEW t \in Threads, UNCHANGED subscriptions,
             \A u \in Threads \ {t} : notification'[u] = notification[u],
             notification'[t].at \notin {"iterate", "callback"}
      PROVE  CursorInv'
  BY <1>2 DEF CursorInv
<1>3. ASSUME NEW t \in Threads, NEW c \in Calls, Notify(t, c) PROVE CursorInv'
  BY <1>2, <1>3 DEF Notify, maps, SafeInv, TypeOK
<1>4. ASSUME NEW t \in Threads, LockNotification(t) PROVE CursorInv'
  BY <1>2, <1>4 DEF LockNotification, maps, SafeInv, TypeOK, Notifications
<1>5. ASSUME NEW t \in Threads, Merge(t) PROVE CursorInv'
  <2>1. \A u \in Threads \ {t} : notification'[u] = notification[u] /\ ~Iterating(u)
    BY <1>5 DEF Merge, SafeInv, SafeIteration, MutexesOwned, TypeOK, Iterating
  <2>2. notification'[t].at = "unlock"
    BY <1>5 DEF Merge, SafeInv, TypeOK, Notifications
  <2> QED BY <2>1, <2>2 DEF CursorInv, Iterating
<1>6. ASSUME NEW t \in Threads, NEW i \in Nat, Advance(t, i), UNCHANGED subscriptions
      PROVE  CursorInv'
  BY <1>6, AdvanceMoves DEF CursorInv, ToInvoke, IsLeast
<1>7. ASSUME NEW t \in Threads, UnlockSubscriptions(t) PROVE CursorInv'
  BY <1>6, <1>7 DEF UnlockSubscriptions, maps
<1>8. ASSUME NEW t \in Threads, Return(t) PROVE CursorInv'
  <2>1. notification[t].cursor + 1 \in Nat
    BY IdSpaceAssumption DEF SafeInv, TypeOK, Notifications
  <2> QED BY <1>6, <1>8, <2>1 DEF Return, maps
<1>9. ASSUME NEW t \in Threads, Invoke(t) PROVE CursorInv'
  <2>1. /\ \A u \in Threads \ {t} : notification'[u] = notification[u]
        /\ notification'[t].at = "callback" /\ notification[t].at = "iterate"
        /\ notification'[t].cursor = notification[t].cursor
        /\ notification'[t].call = notification[t].call
        /\ notification[t].cursor # End
        /\ subscriptions' = subscriptions
    BY <1>9 DEF Invoke, maps, SafeInv, TypeOK, Notifications
  <2> QED BY <2>1 DEF CursorInv
<1>10. ASSUME NEW t \in Threads, EndNotification(t) PROVE CursorInv'
  <2>1. notification'[t].at \in {"drop", "idle"}
    BY <1>10 DEF EndNotification, NotNotifying, SafeInv, TypeOK, Notifications
  <2> QED BY <1>2, <1>10, <2>1 DEF EndNotification, maps, SafeInv, TypeOK
<1>11. ASSUME NEW t \in Threads, Drop(t) PROVE CursorInv'
  BY <1>2, <1>11 DEF Drop, Remove, NotNotifying, SafeInv, TypeOK
<1>12. ASSUME NEW t \in Threads, ClientStep(t) PROVE CursorInv'
  BY <1>1, <1>12 DEF ClientStep, CheckStale, OnStaleLastListenerRemoved, OnFirstListenerAdded,
      OnListenerAdded, OnListenerRemoved, OnLastListenerRemoved, maps
<1>13. ASSUME NEW t \in Threads,
              (\E l \in Listeners : Subscribe(t, l)) \/ (\E s \in known : Unsubscribe(t, s))
       PROVE  CursorInv'
  BY <1>1, <1>13 DEF Subscribe, Unsubscribe, Remove
<1>14. CASE Next
  BY <1>3, <1>4, <1>5, <1>7, <1>8, <1>9, <1>10, <1>11, <1>12, <1>13, <1>14
     DEF Next, NotificationStep
<1> QED BY <1>1, <1>14 DEF vars, maps

-----------------------------------------------------------------------------
(***************************************************************************)
(* The abstract variables.                                                 *)
(***************************************************************************)
\* At most one thread notifies; it is the abstract notifier, and owes what it owes.
LEMMA SoleNotifier ==
    ASSUME SafeInv
    PROVE  /\ \A t \in Threads : Notifying(t) => Notifier = t /\ AllOwed = Owed(t)
           /\ (\A t \in Threads : ~Notifying(t)) => Notifier = NoThread /\ AllOwed = {}
<1>1. ASSUME NEW t \in Threads, Notifying(t) PROVE Notifier = t /\ AllOwed = Owed(t)
  <2>1. notificationMutex = t /\ \A u \in Threads : Notifying(u) => u = t
    BY <1>1 DEF Notifying, SafeInv, SafeIteration, MutexesOwned
  <2> QED BY <1>1, <2>1 DEF Notifier, AllOwed
<1> QED BY <1>1 DEF Notifier, AllOwed

LEMMA SoleNotifierNext ==
    ASSUME SafeInv'
    PROVE  /\ \A t \in Threads : Notifying(t)' => Notifier' = t /\ AllOwed' = Owed(t)'
           /\ (\A t \in Threads : ~Notifying(t)') => Notifier' = NoThread /\ AllOwed' = {}
<1>1. ASSUME NEW t \in Threads, Notifying(t)' PROVE Notifier' = t /\ AllOwed' = Owed(t)'
  <2>1. notificationMutex' = t /\ \A u \in Threads : Notifying(u)' => u = t
    BY <1>1 DEF Notifying, SafeInv, SafeIteration, MutexesOwned
  <2> QED BY <1>1, <2>1 DEF Notifier, AllOwed
<1> QED BY <1>1 DEF Notifier, AllOwed

\* Steps that leave the notification of every notifying thread and subscriptions_ alone.
LEMMA SameNotifier ==
    ASSUME SafeInv, SafeInv', UNCHANGED subscriptions,
           \A u \in Threads : /\ Notifying(u)' <=> Notifying(u)
                              /\ Notifying(u) => notification'[u] = notification[u]
    PROVE  UNCHANGED <<Notifier, AllOwed>>
<1>1. CASE \E t \in Threads : Notifying(t)
  <2>1. PICK t \in Threads : Notifying(t)
    BY <1>1
  <2>2. Owed(t)' = Owed(t)
    BY <2>1 DEF Owed, ToInvoke
  <2> QED BY <2>1, <2>2, SoleNotifier, SoleNotifierNext
<1>2. CASE \A t \in Threads : ~Notifying(t)
  BY <1>2, SoleNotifier, SoleNotifierNext
<1> QED BY <1>1, <1>2

\* The live map, value by value.
LEMMA LiveMapFacts ==
    ASSUME SafeInv
    PROVE  /\ DOMAIN LiveMap = Live /\ IsListenersMap(LiveMap)
           /\ Live \subseteq Ids
BY DEF SafeInv, TypeOK, Live, LiveMap, IsListenersMap

LEMMA SubscribeLive ==
    ASSUME SafeInv, NoWrap, NEW t \in Threads, NEW l \in Listeners, Subscribe(t, l)
    PROVE  /\ nextSubscription \notin DOMAIN subscriptions \cup Live
           /\ LiveMap' = Assign(LiveMap, nextSubscription, l)
<1> DEFINE s == nextSubscription
<1>1. s \notin DOMAIN subscriptions \cup DOMAIN pendingSubscriptions
  BY BoundsAssumption DEF Subscribe, SafeInv, SafeIteration, IdsFresh, TypeOK
<1>2. /\ pendingSubscriptions' = Assign(pendingSubscriptions, s, l)
      /\ UNCHANGED <<subscriptions, pendingUnsubscriptions>>
  BY DEF Subscribe
<1>3. Live' = Live \cup {s}
  BY <1>2 DEF Live, Assign
<1> QED BY <1>1, <1>2, <1>3 DEF Live, LiveMap, Assign

LEMMA RemoveLiveMap ==
    ASSUME SafeInv, NoWrap, NEW s \in Ids, Remove(s)
    PROVE  IF s \in Live THEN LiveMap' = Without(LiveMap, s) ELSE LiveMap' = LiveMap
<1>1. /\ DOMAIN subscriptions \cap DOMAIN pendingSubscriptions = {}
      /\ pendingUnsubscriptions \subseteq DOMAIN subscriptions
      /\ UNCHANGED subscriptions /\ pendingSubscriptions' = PendingWithout(s)
  BY DEF SafeInv, SafeIteration, PendingConsistent, Remove
<1>2. Live' = Live \ {s}
  BY RemoveLive
<1>3. /\ DOMAIN pendingSubscriptions' = DOMAIN pendingSubscriptions \ {s}
      /\ \A i \in DOMAIN pendingSubscriptions \ {s} :
            pendingSubscriptions'[i] = pendingSubscriptions[i]
  BY <1>1 DEF PendingWithout, Without, Restrict, SafeInv, TypeOK, IsListenersMap
<1> QED BY <1>1, <1>2, <1>3 DEF LiveMap, Without, Restrict

LEMMA MergeLiveMap ==
    ASSUME SafeInv, NoWrap, NEW t \in Threads, Merge(t)
    PROVE  subscriptions' = LiveMap /\ LiveMap' = LiveMap
<1>1. /\ DOMAIN subscriptions \cap DOMAIN pendingSubscriptions = {}
      /\ pendingUnsubscriptions \subseteq DOMAIN subscriptions
  BY DEF SafeInv, SafeIteration, PendingConsistent
<1>2. Merged = LiveMap
  BY <1>1 DEF Merged, LiveMap, Live
<1>3. Live' = Live
  BY MergeLive
<1>4. LiveMap' = subscriptions'
  BY <1>2, <1>3, NoListenersType DEF Merge, LiveMap, Live
<1> QED BY <1>2, <1>4 DEF Merge

-----------------------------------------------------------------------------
(***************************************************************************)
(* The steps.                                                              *)
(***************************************************************************)
LEMMA InitDelivers == Init => Delivery!Init
<1> SUFFICES ASSUME Init PROVE Delivery!Init
  OBVIOUS
<1>1. \A t \in Threads : ~Notifying(t)
  BY DEF Init, NotNotifying, Notifying
<1>2. Notifier = NoThread /\ AllOwed = {}
  BY <1>1 DEF Notifier, AllOwed
<1>3. LiveMap = NoListeners
  BY NoListenersType DEF Init, LiveMap, Live, NoListeners
<1> QED BY <1>2, <1>3 DEF Delivery!Init, Delivery!NoListeners, NoListeners

\* An iteration invokes only subscribed ids, and owes nothing beyond the last one.
LEMMA OwedSubscribed ==
    ASSUME SafeInv
    PROVE  AllOwed \subseteq DOMAIN subscriptions
BY DEF AllOwed, Owed, ToInvoke, Addressed

LEMMA SubscribeDelivers ==
    ASSUME SafeInv, SafeInv', NoWrap, NEW t \in Threads, NEW l \in Listeners, Subscribe(t, l)
    PROVE  Delivery!Next
<1>1. UNCHANGED <<Notifier, AllOwed>>
  BY SameNotifier DEF Subscribe, Notifying
<1>2. nextSubscription \notin DOMAIN LiveMap \cup AllOwed /\ nextSubscription \in Ids
  BY SubscribeLive, OwedSubscribed, LiveMapFacts DEF SafeInv, TypeOK
<1>3. LiveMap' = Delivery!Assign(LiveMap, nextSubscription, l)
  BY SubscribeLive DEF Assign, Delivery!Assign
<1>4. Delivery!Subscribe(nextSubscription, l)
  BY <1>1, <1>2, <1>3 DEF Delivery!Subscribe
<1> QED BY <1>2, <1>4 DEF Delivery!Next, Delivery!Ids, Ids

\* A removal, by unsubscribe() or at the end of a failed notifySpecificError.
LEMMA RemoveDelivers ==
    ASSUME SafeInv, NoWrap, NEW s \in Ids, Remove(s), UNCHANGED <<Notifier, AllOwed>>
    PROVE  Delivery!Next \/ UNCHANGED Delivery!vars
<1>1. CASE s \in Live
  <2>1. Delivery!Unsubscribe(s)
    BY <1>1, RemoveLiveMap, LiveMapFacts
       DEF Delivery!Unsubscribe, Delivery!Without, Without, Delivery!Restrict, Restrict
  <2> QED BY <2>1 DEF Delivery!Next, Delivery!Ids, Ids
<1>2. CASE s \notin Live
  BY <1>2, RemoveLiveMap DEF Delivery!vars
<1> QED BY <1>1, <1>2

\* A step that leaves the maps alone, and what each notifying thread is at.
LEMMA QuietDelivers ==
    ASSUME SafeInv, SafeInv', UNCHANGED maps,
           \A u \in Threads : /\ Notifying(u)' <=> Notifying(u)
                              /\ Notifying(u) => notification'[u] = notification[u]
    PROVE  UNCHANGED Delivery!vars
<1>1. UNCHANGED <<Notifier, AllOwed>>
  BY SameNotifier DEF maps
<1>2. LiveMap' = LiveMap
  BY DEF LiveMap, Live, maps
<1> QED BY <1>1, <1>2 DEF Delivery!vars

LEMMA MergeDelivers ==
    ASSUME SafeInv, SafeInv', NoWrap, NEW t \in Threads, Merge(t)
    PROVE  Delivery!Next
<1> DEFINE c == notification[t].call
<1>1. c \in Calls /\ notification[t] \in Notifications
  BY DEF SafeInv, TypeOK, Notifications
<1>2. /\ notification'[t].at = "unlock" /\ notification'[t].call = c
      /\ notification[t].at = "merge"
  BY <1>1 DEF Merge, SafeInv, TypeOK, Notifications
<1>3. \A u \in Threads : ~Notifying(u)
  BY <1>2 DEF Notifying, SafeInv, SafeIteration, MutexesOwned
<1>4. Notifier = NoThread /\ Notifier' = t /\ AllOwed' = Owed(t)'
  BY <1>2, <1>3, SoleNotifier, SoleNotifierNext DEF Notifying
<1>5. Owed(t)' = Addressed(c, subscriptions')
  <2>1. \A s \in DOMAIN subscriptions' : s >= 0
    BY MergeLiveMap, LiveMapFacts DEF Ids
  <2> QED BY <1>2, <2>1 DEF Owed, ToInvoke, Addressed
<1>6. AllOwed' = Delivery!Addressed(c, LiveMap) /\ LiveMap' = LiveMap
  BY <1>4, <1>5, MergeLiveMap
     DEF Addressed, IsSpecific, IsError, Delivery!Addressed, Delivery!IsSpecific,
         Delivery!IsError
<1>7. Delivery!Begin(t, c)
  BY <1>4, <1>6 DEF Delivery!Begin
<1> QED BY <1>1, <1>7 DEF Delivery!Next, Delivery!Calls, Calls, Delivery!Ids, Ids

\* The iterator moves to the next id it owes.
LEMMA AdvanceDelivers ==
    ASSUME SafeInv, SafeInv', NEW t \in Threads, NEW i \in Nat, Advance(t, i),
           Notifying(t), Owed(t) = ToInvoke(t, i), UNCHANGED maps
    PROVE  UNCHANGED Delivery!vars
<1>1. /\ notification'[t].at = "iterate" /\ notification'[t].call = notification[t].call
      /\ IsLeast(notification'[t].cursor, ToInvoke(t, i) \cup {End})
  BY AdvanceMoves
<1>2. /\ \A s \in ToInvoke(t, i) : s \in Nat /\ s >= i
      /\ \/ notification'[t].cursor \in Nat /\ notification'[t].cursor >= i
         \/ ToInvoke(t, i) = {}
  BY <1>1, IdSpaceAssumption
     DEF ToInvoke, Addressed, SafeInv, TypeOK, IsListenersMap, Ids, End, IsLeast
<1>3. Owed(t)' = {s \in Addressed(notification[t].call, subscriptions)
                     : s >= notification'[t].cursor}
  BY <1>1 DEF Owed, ToInvoke, maps
<1>4. Owed(t)' = ToInvoke(t, i)
  <2>1. \A s \in Addressed(notification[t].call, subscriptions) : s \in Nat /\ s < End
    BY IdSpaceAssumption DEF Addressed, SafeInv, TypeOK, IsListenersMap, Ids, End
  <2> QED BY <1>1, <1>2, <1>3, <2>1, IdSpaceAssumption DEF ToInvoke, IsLeast, End
<1>5. AllOwed' = AllOwed /\ Notifier' = Notifier
  BY <1>1, <1>4, SoleNotifier, SoleNotifierNext DEF Notifying
<1>6. LiveMap' = LiveMap
  BY DEF LiveMap, Live, maps
<1> QED BY <1>5, <1>6 DEF Delivery!vars

LEMMA InvokeDelivers ==
    ASSUME RefInv, SafeInv', NEW t \in Threads, Invoke(t)
    PROVE  Delivery!Next
<1> USE DEF RefInv
<1> DEFINE s == notification[t].cursor
           c == notification[t].call
<1>1. /\ notification[t].at = "iterate" /\ notification'[t].at = "callback"
      /\ notification'[t].cursor = s /\ notification'[t].call = c /\ UNCHANGED maps
  BY DEF Invoke, SafeInv, TypeOK, Notifications
<1>2. s \in Addressed(c, subscriptions) /\ s \in Ids
  BY DEF Invoke, CursorInv, Addressed, SafeInv, TypeOK, IsListenersMap
<1>3. AllOwed = ToInvoke(t, s) /\ Notifier = t /\ Notifier' = t
  BY <1>1, SoleNotifier, SoleNotifierNext DEF Notifying, Owed
<1>4. AllOwed' = {k \in Addressed(c, subscriptions) : k >= s + 1}
  BY <1>1, SoleNotifierNext DEF Notifying, Owed, ToInvoke, maps
<1>5. \A k \in Addressed(c, subscriptions) : k \in Nat
  BY DEF Addressed, SafeInv, TypeOK, IsListenersMap, Ids
<1>6. AllOwed = {k \in Addressed(c, subscriptions) : k >= s}
  BY <1>3 DEF ToInvoke
<1>7. s \in AllOwed /\ (\A k \in AllOwed : s <= k) /\ AllOwed' = AllOwed \ {s}
  BY <1>2, <1>4, <1>5, <1>6
<1>8. LiveMap' = LiveMap
  BY <1>1 DEF LiveMap, Live, maps
<1>9. Delivery!Deliver(t, s)
  BY <1>3, <1>7, <1>8 DEF Delivery!Deliver, Delivery!IsLeast
<1> QED BY <1>2, <1>9 DEF Delivery!Next, Delivery!Serve, Delivery!Ids, Ids

LEMMA EndDelivers ==
    ASSUME SafeInv, SafeInv', NEW t \in Threads, EndNotification(t)
    PROVE  Delivery!Next
<1>1. /\ notification[t].at = "iterate" /\ notification[t].cursor = End
      /\ notification'[t].at \in {"drop", "idle"} /\ UNCHANGED maps
      /\ \A u \in Threads \ {t} : notification'[u] = notification[u]
  BY DEF EndNotification, NotNotifying, SafeInv, TypeOK, Notifications
<1>2. \A u \in Threads : ~Notifying(u)'
  BY <1>1 DEF Notifying, SafeInv, SafeIteration, MutexesOwned
<1>3. Notifier = t /\ AllOwed = ToInvoke(t, End)
  BY <1>1, SoleNotifier DEF Notifying, Owed
<1>4. ToInvoke(t, End) = {}
  BY IdSpaceAssumption DEF ToInvoke, Addressed, SafeInv, TypeOK, IsListenersMap, Ids, End
<1>5. Notifier' = NoThread /\ AllOwed' = {}
  BY <1>2, SoleNotifierNext
<1>6. LiveMap' = LiveMap
  BY <1>1 DEF LiveMap, Live, maps
<1>7. Delivery!Finish(t)
  BY <1>3, <1>4, <1>5, <1>6 DEF Delivery!Finish
<1> QED BY <1>7 DEF Delivery!Next, Delivery!Serve

LEMMA DropDelivers ==
    ASSUME SafeInv, SafeInv', NoWrap, NEW t \in Threads, Drop(t)
    PROVE  Delivery!Next \/ UNCHANGED Delivery!vars
<1> DEFINE s == notification[t].call.target
<1>1. s \in Ids
  BY CallType DEF SafeInv, TypeOK, Notifications
<1>2. /\ notification[t].at = "drop" /\ notification'[t].at = "idle"
      /\ \A u \in Threads \ {t} : notification'[u] = notification[u]
  BY DEF Drop, NotNotifying, SafeInv, TypeOK
<1>3. UNCHANGED <<Notifier, AllOwed>>
  <2>1. \A u \in Threads : /\ Notifying(u)' <=> Notifying(u)
                           /\ Notifying(u) => notification'[u] = notification[u]
    BY <1>2 DEF Notifying
  <2> QED BY <2>1, SameNotifier DEF Drop, Remove
<1> QED BY <1>1, <1>3, RemoveDelivers DEF Drop

LEMMA UnsubscribeDelivers ==
    ASSUME SafeInv, SafeInv', NoWrap, NEW t \in Threads, NEW s \in known, Unsubscribe(t, s)
    PROVE  Delivery!Next \/ UNCHANGED Delivery!vars
<1>1. s \in Ids
  BY DEF SafeInv, TypeOK
<1>2. UNCHANGED <<Notifier, AllOwed>>
  BY SameNotifier DEF Unsubscribe, Remove, Notifying
<1> QED BY <1>1, <1>2, RemoveDelivers DEF Unsubscribe

LEMMA NotificationStepDelivers ==
    ASSUME RefInv, SafeInv', NoWrap, NEW t \in Threads, NotificationStep(t)
    PROVE  Delivery!Next \/ UNCHANGED Delivery!vars
<1> USE DEF RefInv
<1>1. CASE LockNotification(t)
  <2>1. /\ notification[t].at = "lock" /\ notification'[t].at = "merge"
        /\ \A u \in Threads \ {t} : notification'[u] = notification[u]
        /\ UNCHANGED maps
    BY <1>1 DEF LockNotification, SafeInv, TypeOK, Notifications
  <2>2. \A u \in Threads : /\ Notifying(u)' <=> Notifying(u)
                           /\ Notifying(u) => notification'[u] = notification[u]
    BY <2>1 DEF Notifying
  <2> QED BY <2>1, <2>2, QuietDelivers
<1>2. CASE UnlockSubscriptions(t)
  BY <1>2, AdvanceDelivers DEF UnlockSubscriptions, Notifying, Owed
<1>3. CASE Return(t)
  <2>1. notification[t].cursor + 1 \in Nat
    BY IdSpaceAssumption DEF SafeInv, TypeOK, Notifications
  <2>2. Notifying(t) /\ Owed(t) = ToInvoke(t, notification[t].cursor + 1)
    BY <1>3 DEF Return, Notifying, Owed
  <2> QED BY <1>3, <2>1, <2>2, AdvanceDelivers DEF Return
<1> QED BY <1>1, <1>2, <1>3, MergeDelivers, InvokeDelivers, EndDelivers, DropDelivers
        DEF NotificationStep

LEMMA NextDelivers ==
    NoWrap /\ RefInv /\ SafeInv' /\ [Next]_vars => [Delivery!Next]_Delivery!vars
<1> SUFFICES ASSUME NoWrap, RefInv, SafeInv', [Next]_vars
             PROVE  Delivery!Next \/ UNCHANGED Delivery!vars
  OBVIOUS
<1> USE DEF RefInv
<1>1. ASSUME UNCHANGED <<maps, notification>> PROVE UNCHANGED Delivery!vars
  BY <1>1, QuietDelivers DEF Notifying
<1>2. ASSUME NEW t \in Threads, ClientStep(t) PROVE UNCHANGED Delivery!vars
  BY <1>1, <1>2 DEF ClientStep, CheckStale, OnStaleLastListenerRemoved, OnFirstListenerAdded,
      OnListenerAdded, OnListenerRemoved, OnLastListenerRemoved
<1>3. ASSUME NEW t \in Threads, NEW c \in Calls, Notify(t, c) PROVE UNCHANGED Delivery!vars
  <2>1. /\ notification[t].at = "idle" /\ notification'[t].at = "lock" /\ UNCHANGED maps
        /\ \A u \in Threads \ {t} : notification'[u] = notification[u]
    BY <1>3 DEF Notify, SafeInv, TypeOK
  <2>2. \A u \in Threads : /\ Notifying(u)' <=> Notifying(u)
                           /\ Notifying(u) => notification'[u] = notification[u]
    BY <2>1 DEF Notifying
  <2> QED BY <2>1, <2>2, QuietDelivers
<1>4. CASE Next
  BY <1>2, <1>3, <1>4, SubscribeDelivers, UnsubscribeDelivers, NotificationStepDelivers
     DEF Next
<1> QED BY <1>1, <1>4 DEF vars

\* Unless ids wrap, every notification invokes, once each and in the order of their ids,
\* the listeners that were live when it merged, whatever other threads and the listeners
\* themselves subscribe and unsubscribe: the safety part of ImplementsDelivery.
THEOREM DeliversAsPromised == NoWrap => (Spec => Delivery!Spec)
<1> SUFFICES ASSUME NoWrap PROVE Spec => Delivery!Spec
  OBVIOUS
<1>1. Init => RefInv
  BY InitType, InitSafe, InitCursor DEF SafeInv, RefInv
<1>2. RefInv /\ [Next]_vars => RefInv'
  BY NextSafe, NextCursor DEF RefInv
<1>3. RefInv /\ RefInv' /\ [Next]_vars => [Delivery!Next]_Delivery!vars
  BY NextDelivers DEF RefInv
<1> QED BY <1>1, <1>2, <1>3, InitDelivers, PTL DEF Spec, Delivery!Spec
==============================================================================
