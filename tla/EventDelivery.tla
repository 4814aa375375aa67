---------------------------- MODULE EventDelivery ----------------------------
(***************************************************************************)
(* What an Event promises, without its mutexes, its pending containers and *)
(* its iterators.                                                          *)
(*                                                                         *)
(* There is one set of live subscriptions.  A subscription is live from    *)
(* the moment subscribe() recorded it to the moment unsubscribe() did.  A  *)
(* notification is served in a window of its own: it takes a snapshot of   *)
(* the subscriptions it addresses, and invokes each of them exactly once,  *)
(* in the order of their ids.  Subscriptions that come or go during the    *)
(* window do not change the snapshot.                                      *)
(***************************************************************************)
EXTENDS EventCalls

VARIABLES
    live,      \* the live subscriptions: id -> listener
    notifier,  \* the thread that is serving a notification, or NoThread
    owed       \* the ids of its snapshot that it has not invoked yet

vars == <<live, notifier, owed>>

TypeOK ==
    /\ IsListenersMap(live)
    /\ notifier \in Threads \cup {NoThread}
    /\ owed \subseteq Ids

Init ==
    /\ live = NoListeners
    /\ notifier = NoThread
    /\ owed = {}

(***************************************************************************)
(* subscribe() hands out an id that no live subscription has and that no   *)
(* notification still owes a callback.                                     *)
(***************************************************************************)
Subscribe(s, l) ==
    /\ s \notin DOMAIN live \cup owed
    /\ live' = Assign(live, s, l)
    /\ UNCHANGED <<notifier, owed>>

\* unsubscribe(), or the removal at the end of a failed notifySpecificError.
Unsubscribe(s) ==
    /\ s \in DOMAIN live
    /\ live' = Without(live, s)
    /\ UNCHANGED <<notifier, owed>>

\* Two notifications never overlap.
Begin(t, c) ==
    /\ notifier = NoThread
    /\ notifier' = t
    /\ owed' = Addressed(c, live)
    /\ UNCHANGED live

Deliver(t, s) ==
    /\ notifier = t
    /\ IsLeast(s, owed)
    /\ owed' = owed \ {s}
    /\ UNCHANGED <<live, notifier>>

Finish(t) ==
    /\ notifier = t
    /\ owed = {}
    /\ notifier' = NoThread
    /\ UNCHANGED <<live, owed>>

Serve(t) == Finish(t) \/ \E s \in Ids : Deliver(t, s)

Next ==
    \/ \E s \in Ids, l \in Listeners : Subscribe(s, l)
    \/ \E s \in Ids : Unsubscribe(s)
    \/ \E t \in Threads : Serve(t) \/ \E c \in Calls : Begin(t, c)

Spec == Init /\ [][Next]_vars

FairSpec == Spec /\ \A t \in Threads : WF_vars(Serve(t))
==============================================================================
