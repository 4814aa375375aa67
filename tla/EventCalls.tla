----------------------------- MODULE EventCalls -----------------------------
(***************************************************************************)
(* The vocabulary shared by the abstract and the detailed specification of *)
(* CommonAPI::Event (include/CommonAPI/Event.hpp): subscription ids,       *)
(* listeners, and the four kinds of notification the bindings start.       *)
(***************************************************************************)
EXTENDS Integers, FiniteSets, Functions

CONSTANTS
    IdSpace,         \* number of values of Event::Subscription (2^32 in the code)
    Listeners,       \* the (Listener, ErrorListener) pairs clients subscribe
    ErrorListeners,  \* those of them whose ErrorListener is not null
    Threads,         \* the threads that use the event
    NoThread         \* the owner of a mutex nobody holds

ASSUME IdSpaceAssumption == IdSpace \in Nat \ {0}
ASSUME ErrorListenersAssumption == ErrorListeners \subseteq Listeners
ASSUME NoThreadAssumption == NoThread \notin Threads

Ids == 0 .. IdSpace - 1

\* The end() iterator of a map keyed by Ids.
End == IdSpace

(***************************************************************************)
(* notifyListeners, notifyErrorListeners, notifySpecificListener and       *)
(* notifySpecificError, with the arguments that steer them: the id they    *)
(* name, and whether the CallStatus is not SUCCESS.                        *)
(***************************************************************************)
Calls == [kind : {"listeners", "errors"}, target : {0}, failed : {FALSE}]
         \cup [kind : {"listener"}, target : Ids, failed : {FALSE}]
         \cup [kind : {"error"}, target : Ids, failed : BOOLEAN]

IsSpecific(c) == c.kind \in {"listener", "error"}

IsError(c) == c.kind \in {"error", "errors"}

\* A ListenersMap: a partial function from ids to listeners.
IsListenersMap(m) == /\ DOMAIN m \subseteq Ids
                     /\ m \in [DOMAIN m -> Listeners]

\* The ids of the map m whose callback the notification c invokes.
Addressed(c, m) ==
    {s \in DOMAIN m : /\ IsSpecific(c) => s = c.target
                      /\ IsError(c) => m[s] \in ErrorListeners}

NoListeners == [s \in {} |-> s]

\* m[s] = l of std::map: a new entry, or a new value for the old one.
Assign(m, s, l) == [i \in DOMAIN m \cup {s} |-> IF i = s THEN l ELSE m[i]]

Without(m, s) == Restrict(m, DOMAIN m \ {s})

IsLeast(n, S) == n \in S /\ \A k \in S : n <= k
=============================================================================
