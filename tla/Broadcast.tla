------------------------------ MODULE Broadcast ------------------------------
(***************************************************************************)
(* What a MainLoopContext promises to those who run and those who feed a   *)
(* main loop: a notification calls every listener that is subscribed when  *)
(* it starts, and stays so until its turn, exactly once; and nobody else.  *)
(* Callbacks may subscribe, unsubscribe and start further notifications,   *)
(* which nest.                                                             *)
(***************************************************************************)
EXTENDS Integers, Sequences

CONSTANTS
    Kinds,         \* what one subscribes for
    Subscriptions  \* what identifies a subscribed listener

VARIABLES
    live,  \* live[k]: the subscriptions of kind k
    owing  \* the running notifications, the innermost last: their kind, and
           \* the subscriptions they have yet to call

vars == <<live, owing>>

Notifications == [kind : Kinds, owed : SUBSET Subscriptions]

Init == live = [k \in Kinds |-> {}] /\ owing = <<>>

Innermost == owing[Len(owing)]

\* A new subscription has no share in the notifications that are running.
Subscribe(k, s) ==
    /\ \A j \in Kinds : s \notin live[j]
    /\ live' = [live EXCEPT ![k] = @ \cup {s}]
    /\ UNCHANGED owing

Unsubscribe(k, s) ==
    /\ s \in live[k]
    /\ live' = [live EXCEPT ![k] = @ \ {s}]
    /\ owing' = [i \in DOMAIN owing |-> [owing[i] EXCEPT !.owed = @ \ {s}]]

Begin(k) ==
    /\ owing' = Append(owing, [kind |-> k, owed |-> live[k]])
    /\ UNCHANGED live

Deliver(s) ==
    /\ owing # <<>> /\ s \in Innermost.owed
    /\ owing' = [owing EXCEPT ![Len(owing)].owed = @ \ {s}]
    /\ UNCHANGED live

Finish ==
    /\ owing # <<>> /\ Innermost.owed = {}
    /\ owing' = SubSeq(owing, 1, Len(owing) - 1)
    /\ UNCHANGED live

Next ==
    \/ \E k \in Kinds : Begin(k) \/ \E s \in Subscriptions : Subscribe(k, s) \/ Unsubscribe(k, s)
    \/ \E s \in Subscriptions : Deliver(s)
    \/ Finish

Spec == Init /\ [][Next]_vars
==============================================================================
