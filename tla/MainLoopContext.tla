--------------------------- MODULE MainLoopContext ---------------------------
(***************************************************************************)
(* CommonAPI::MainLoopContext (src/CommonAPI/MainLoopContext.cpp), through *)
(* which a binding tells the main loops of an application about its        *)
(* dispatch sources, watches, timeouts and wakeups.                        *)
(*                                                                         *)
(* Each kind has a std::list of listeners, new ones at the front, and the  *)
(* iterators of the list are the subscriptions.  A notification iterates   *)
(* over the list in place, so a callback that subscribes, unsubscribes or  *)
(* starts another notification does so under the iterators of those that   *)
(* are running.  The class has no mutex: one thread uses it, and nested    *)
(* calls are all the concurrency there is.                                 *)
(*                                                                         *)
(* The three kinds of sources have the same code; wakeups have no source.  *)
(* MaxDepth bounds how deep notifications nest.                            *)
(***************************************************************************)
EXTENDS Integers, FiniteSets, SequencesExt

CONSTANTS
    Kinds,          \* the kinds one can subscribe for
    WakeupKind,     \* the one of the wakeups
    Subscriptions,  \* the nodes of the lists
    Sources,        \* the sources that a binding registers, of any kind
    NoSource,
    MaxDepth        \* bound: nested notifications

ASSUME KindsAssumption == WakeupKind \in Kinds /\ NoSource \notin Sources
ASSUME MaxDepthAssumption == MaxDepth \in Nat

VARIABLES
    listeners,   \* listeners[k]: the list of kind k
    calls,       \* the running notifications, the innermost last
    registered,  \* external: registered[k]: the sources the binding has registered
    mirror,      \* external: mirror[s]: the sources that the main loop of the
                 \* subscription s knows of
    missed,      \* ghost: missed[s]: the registered sources older than s
    overlapped   \* ghost: <<k, x>>: a callback of a notification about x
                 \* started another notification about x

vars == <<listeners, calls, registered, mirror, missed, overlapped>>

------------------------------------------------------------------------------
SourceKinds == Kinds \ {WakeupKind}

\* The notifications of registerX, deregisterX and wakeup.
Notices == [kind : SourceKinds, op : {"added", "removed"}, source : Sources]
           \cup [kind : {WakeupKind}, op : {"wakeup"}, source : {NoSource}]

Subscribed == UNION {Range(listeners[k]) : k \in Kinds}

\* The end() iterator; like all iterators of an empty list.
End == "end"

ASSUME EndAssumption == End \notin Subscriptions

Frames == [notice : Notices, cursor : Subscriptions \cup {End}, inCallback : BOOLEAN]

Innermost == Last(calls)

First(list) == IF list = <<>> THEN End ELSE Head(list)

\* The elements of the list behind the node s.
Behind(list, s) ==
    LET i == CHOOSE j \in DOMAIN list : list[j] = s
    IN  SubSeq(list, i + 1, Len(list))

Init ==
    /\ listeners = [k \in Kinds |-> <<>>]
    /\ calls = <<>>
    /\ registered = [k \in SourceKinds |-> {}]
    /\ mirror = [s \in Subscriptions |-> {}]
    /\ missed = [s \in Subscriptions |-> {}]
    /\ overlapped = {}

\* The thread runs code of the application: outside of all notifications, or in the
\* callback of the innermost one.
MayCall == calls # <<>> => Innermost.inCallback

------------------------------------------------------------------------------
(***************************************************************************)
(* subscribeForX: emplace_front.  The new main loop knows of no source.    *)
(***************************************************************************)
\* Mutant: new listeners at the back of the list.
AtBack(k, s) == Append(listeners[k], s)

AtFront(k, s) == Cons(s, listeners[k])

Subscribe(k, s) ==
    /\ MayCall
    /\ s \notin Subscribed
    /\ listeners' = [listeners EXCEPT ![k] = AtFront(k, s)]
    /\ mirror' = [mirror EXCEPT ![s] = {}]
    /\ missed' = [missed EXCEPT ![s] = IF k = WakeupKind THEN {} ELSE registered[k]]
    /\ UNCHANGED <<calls, registered, overlapped>>

(***************************************************************************)
(* unsubscribeForX: erase.  It leaves the callers to see to it that no     *)
(* notification has its iterator on the erased node, in other words, that  *)
(* no callback unsubscribes its own listener: std::list would go on from a *)
(* freed node.                                                             *)
(***************************************************************************)
\* Mutant: the newest node is erased.
WithoutNewest(k, s) == Tail(listeners[k])

Erased(k, s) == RemoveFirst(listeners[k], s)

IsCalled(s) == \E i \in DOMAIN calls : calls[i].cursor = s

Unsubscribe(k, s) ==
    /\ MayCall
    /\ s \in Range(listeners[k])
    /\ ~IsCalled(s)
    /\ listeners' = [listeners EXCEPT ![k] = Erased(k, s)]
    /\ mirror' = [mirror EXCEPT ![s] = {}]
    /\ missed' = [missed EXCEPT ![s] = {}]
    /\ UNCHANGED <<calls, registered, overlapped>>

------------------------------------------------------------------------------
(***************************************************************************)
(* registerX, deregisterX and wakeup: one iteration over the list.  A      *)
(* binding registers a source once, and deregisters what it registered.    *)
(***************************************************************************)
IsDue(n) ==
    \/ n.op = "added" /\ n.source \notin registered[n.kind]
    \/ n.op = "removed" /\ n.source \in registered[n.kind]
    \/ n.op = "wakeup"

RegisteredAfter(n) ==
    CASE n.op = "added" -> [registered EXCEPT ![n.kind] = @ \cup {n.source}]
      [] n.op = "removed" -> [registered EXCEPT ![n.kind] = @ \ {n.source}]
      [] OTHER -> registered

MissedAfter(n) ==
    IF n.op = "removed"
    THEN [s \in Subscriptions |->
             IF s \in Range(listeners[n.kind]) THEN missed[s] \ {n.source} ELSE missed[s]]
    ELSE missed

Overlaps(n) ==
    n.op # "wakeup" /\ \E i \in DOMAIN calls :
        calls[i].notice.kind = n.kind /\ calls[i].notice.source = n.source

Notify(n) ==
    /\ MayCall
    /\ Len(calls) < MaxDepth
    /\ IsDue(n)
    /\ calls' = Append(calls, [notice |-> n, cursor |-> First(listeners[n.kind]),
                               inCallback |-> FALSE])
    /\ registered' = RegisteredAfter(n)
    /\ missed' = MissedAfter(n)
    /\ overlapped' = IF Overlaps(n) THEN overlapped \cup {<<n.kind, n.source>>}
                     ELSE overlapped
    /\ UNCHANGED <<listeners, mirror>>

\* The callback of the listener under the iterator starts: its main loop records or
\* forgets the source.
Heard(s, n) ==
    CASE n.op = "added" -> [mirror EXCEPT ![s] = @ \cup {n.source}]
      [] n.op = "removed" -> [mirror EXCEPT ![s] = @ \ {n.source}]
      [] OTHER -> mirror

Invoke ==
    /\ calls # <<>> /\ ~Innermost.inCallback /\ Innermost.cursor # End
    /\ calls' = [calls EXCEPT ![Len(calls)].inCallback = TRUE]
    /\ mirror' = Heard(Innermost.cursor, Innermost.notice)
    /\ UNCHANGED <<listeners, registered, missed, overlapped>>

\* Mutant: the iterator is incremented twice.
SecondNext(k, s) ==
    LET rest == Behind(listeners[k], s)
    IN  IF rest = <<>> THEN End ELSE First(Tail(rest))

\* ++listener, after the callback: what is behind the node now.
Successor(k, s) == First(Behind(listeners[k], s))

Return ==
    /\ calls # <<>> /\ Innermost.inCallback
    /\ calls' = [calls EXCEPT
           ![Len(calls)].cursor = Successor(Innermost.notice.kind, Innermost.cursor),
           ![Len(calls)].inCallback = FALSE]
    /\ UNCHANGED <<listeners, registered, mirror, missed, overlapped>>

EndNotification ==
    /\ calls # <<>> /\ ~Innermost.inCallback /\ Innermost.cursor = End
    /\ calls' = Front(calls)
    /\ UNCHANGED <<listeners, registered, mirror, missed, overlapped>>

Next ==
    \/ \E k \in Kinds, s \in Subscriptions : Subscribe(k, s) \/ Unsubscribe(k, s)
    \/ \E n \in Notices : Notify(n)
    \/ Invoke \/ Return \/ EndNotification

Spec == Init /\ [][Next]_vars

------------------------------------------------------------------------------
(***************************************************************************)
(* Properties                                                              *)
(***************************************************************************)
\* Every variable has its type.
TypeOK ==
    /\ listeners \in [Kinds -> Seq(Subscriptions)]
    /\ calls \in Seq(Frames) /\ Len(calls) <= MaxDepth
    /\ registered \in [SourceKinds -> SUBSET Sources]
    /\ mirror \in [Subscriptions -> SUBSET Sources]
    /\ missed \in [Subscriptions -> SUBSET Sources]
    /\ overlapped \subseteq SourceKinds \X Sources

\* However notifications nest and callbacks subscribe and unsubscribe others, no node
\* is in a list twice, the iterator of every running notification stays on a node of
\* its list, and only the innermost notification is between two callbacks.
IteratorsValid ==
    /\ TypeOK
    /\ \A k \in Kinds : IsInjective(listeners[k])
    /\ \A i \in DOMAIN calls :
          /\ calls[i].cursor \in Range(listeners[calls[i].notice.kind]) \cup {End}
          /\ calls[i].inCallback => calls[i].cursor # End
          /\ i < Len(calls) => calls[i].inCallback

\* When no notification runs, the main loop of every listener knows exactly the
\* sources that were registered since it subscribed and are registered still, except
\* those that were registered or deregistered from within a callback about them: of
\* these, the listeners at the back hear in the reverse order.
MirrorsAgree ==
    calls = <<>> =>
        \A k \in SourceKinds : \A s \in Range(listeners[k]), x \in Sources :
            <<k, x>> \notin overlapped =>
                (x \in mirror[s] <=> x \in registered[k] \ missed[s])

(***************************************************************************)
(* The abstract specification: what a notification has yet to call are the *)
(* elements of its list from its iterator on.                              *)
(***************************************************************************)
Owed(c) ==
    LET list == listeners[c.notice.kind]
    IN  IF c.cursor = End THEN {}
        ELSE Range(Behind(list, c.cursor)) \cup (IF c.inCallback THEN {} ELSE {c.cursor})

Live == [k \in Kinds |-> Range(listeners[k])]

Owing == [i \in DOMAIN calls |-> [kind |-> calls[i].notice.kind, owed |-> Owed(calls[i])]]

Promise == INSTANCE Broadcast WITH live <- Live, owing <- Owing

\* Every notification calls exactly once each listener that was subscribed when it
\* started and still is, and never one that subscribed since.
ImplementsBroadcast == Promise!Spec
==============================================================================
