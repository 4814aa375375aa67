------------------------- MODULE AttributeCacheProofs -------------------------
(***************************************************************************)
(* Theorems about AttributeCache, for any threads, ids, listeners and      *)
(* values of the attribute, and for every number of notifications.         *)
(***************************************************************************)
EXTENDS AttributeCache, TLAPS

-----------------------------------------------------------------------------
(***************************************************************************)
(* The inductive invariant                                                 *)
(***************************************************************************)
\* Ids grow: a new subscription has a larger one than any that is live or owed.
IdsGrow == \A s \in DOMAIN live \cup owed : s < issued

\* What a notification to all listeners still owes to ids behind that of the extension,
\* it owes after onValueUpdate().
CacheFirst ==
    payload.kind = "listeners" /\ updating = "no" =>
        \A i \in CacheIds \ owed, s \in owed : s > i => cached = payload.value

CacheInv == CacheAgrees /\ IdsGrow /\ CacheFirst

-----------------------------------------------------------------------------
\* What a new and what a removed subscription do to the map.
LEMMA SubscribeFacts ==
    ASSUME TypeOK, NEW s \in Ids, NEW l \in Listeners, Subscribe(s, l)
    PROVE  TypeOK' /\ DOMAIN live' = DOMAIN live \cup {s} /\ s \notin DOMAIN live \cup owed
BY DEF Subscribe, Assign, TypeOK, IsListenersMap

LEMMA UnsubscribeFacts ==
    ASSUME TypeOK, NEW s \in Ids, Unsubscribe(s)
    PROVE  TypeOK' /\ DOMAIN live' = DOMAIN live \ {s}
BY DEF Unsubscribe, Without, Restrict, TypeOK, IsListenersMap

LEMMA IdsFacts == /\ \A s \in Ids : s \in Nat /\ s + 1 \in 0 .. IdSpace
                  /\ 0 \in 0 .. IdSpace
BY IdSpaceAssumption DEF Ids

LEMMA InitCache == CacheInit => CacheInv
<1> SUFFICES ASSUME CacheInit PROVE CacheInv
  OBVIOUS
<1>1. DOMAIN live = {} /\ owed = {}
  BY DEF CacheInit, Init, NoListeners
<1>2. TypeOK
  BY DEF CacheInit, Init, NoListeners, TypeOK, IsListenersMap
<1>3. payload \in [value : Values \cup {NoValue}, kind : {"listeners", "listener"}]
  BY DEF CacheInit, NoPayload
<1>4. 0 \in 0 .. MaxNotifications
  BY MaxNotificationsAssumption
<1>5. CacheAgrees
  BY <1>2, <1>3, <1>4, IdsFacts DEF CacheInit, CacheAgrees, CacheTypeOK
<1> QED BY <1>1, <1>5 DEF CacheInv, IdsGrow, CacheFirst, CacheIds

LEMMA NextCache == CacheInv /\ [CacheNext]_cacheVars => CacheInv'
<1> SUFFICES ASSUME CacheInv, [CacheNext]_cacheVars PROVE CacheInv'
  OBVIOUS
<1>0. /\ CacheAgrees /\ CacheTypeOK /\ TypeOK /\ IdsGrow /\ CacheFirst
      /\ DOMAIN live \subseteq Ids /\ owed \subseteq Ids /\ issued \in Nat
  BY IdSpaceAssumption DEF CacheInv, CacheAgrees, CacheTypeOK, TypeOK, IsListenersMap
<1>1. ASSUME NEW l \in Listeners, Subscribe(issued, l), issued \in Ids, issued' = issued + 1,
             cacheIds' \in {cacheIds, {issued}},
             UNCHANGED <<payload, updating, cached, read, delivered, notified>>
      PROVE  CacheInv'
  <2>1. /\ TypeOK' /\ DOMAIN live' = DOMAIN live \cup {issued} /\ owed' = owed
        /\ notifier' = notifier /\ cacheIds' \subseteq Ids
    <3>1. cacheIds \subseteq Ids
      BY <1>0 DEF CacheTypeOK
    <3>2. TypeOK' /\ DOMAIN live' = DOMAIN live \cup {issued}
      BY <1>0, <1>1, SubscribeFacts
    <3> QED BY <1>1, <3>1, <3>2 DEF Subscribe
  <2>2. CacheAgrees'
    BY <1>0, <1>1, <2>1, IdsFacts DEF CacheAgrees, CacheTypeOK
  <2>3. IdsGrow'
    <3>1. \A s \in DOMAIN live' \cup owed' : s \in Nat /\ s <= issued
      BY <1>0, <2>1, IdsFacts DEF IdsGrow
    <3> QED BY <1>0, <1>1, <3>1 DEF IdsGrow
  <2>4. CacheFirst'
    <3>1. \A s \in owed : ~(s > issued)
      BY <1>0, IdsFacts DEF IdsGrow
    <3>2. CacheIds' \subseteq CacheIds \cup {issued}
      BY <1>1, <2>1 DEF CacheIds
    <3> QED BY <1>0, <1>1, <2>1, <3>1, <3>2 DEF CacheFirst
  <2> QED BY <2>2, <2>3, <2>4 DEF CacheInv
<1>2. ASSUME NEW s \in Ids, UnsubscribeOther(s) \/ DropCache(s) PROVE CacheInv'
  <2>1. TypeOK' /\ DOMAIN live' = DOMAIN live \ {s}
    BY <1>0, <1>2, UnsubscribeFacts DEF UnsubscribeOther, DropCache
  <2>2. UNCHANGED <<cacheIds, notifier, owed, payload, updating, cached, read, delivered,
                    issued, notified>>
    BY <1>2 DEF UnsubscribeOther, DropCache, Unsubscribe
  <2>3. CacheAgrees'
    BY <1>0, <2>1, <2>2 DEF CacheAgrees, CacheTypeOK
  <2>4. CacheIds' \subseteq CacheIds
    BY <2>1, <2>2 DEF CacheIds
  <2> QED BY <1>0, <2>1, <2>2, <2>3, <2>4 DEF CacheInv, IdsGrow, CacheFirst
<1>3. ASSUME NEW t \in Threads, NEW c \in Calls, NEW v \in Values, BeginUpdate(t, c, v)
      PROVE  CacheInv'
  <2>1. /\ notifier = NoThread /\ notifier' = t /\ owed' = Addressed(c, live)
        /\ payload' = [value |-> v, kind |-> c.kind] /\ ~IsError(c)
        /\ notified' = notified + 1 /\ notified < MaxNotifications
        /\ UNCHANGED <<live, cacheIds, updating, cached, read, delivered, issued>>
    BY <1>3 DEF BeginUpdate, Begin
  <2>2. c.kind \in {"listeners", "listener"} /\ owed' \subseteq DOMAIN live
    BY <2>1 DEF Calls, IsError, Addressed
  <2>3. TypeOK'
    BY <1>0, <2>1, <2>2 DEF TypeOK
  <2>4. CacheAgrees'
    <3>1. notified' \in 0 .. MaxNotifications
      BY <1>0, <2>1, MaxNotificationsAssumption DEF CacheTypeOK
    <3> QED BY <1>0, <2>1, <2>2, <2>3, <3>1, NoThreadAssumption DEF CacheAgrees, CacheTypeOK
  <2>5. CacheIds' = CacheIds
    BY <2>1 DEF CacheIds
  <2>6. c.kind = "listeners" => owed' = DOMAIN live
    BY <2>1 DEF Addressed, IsSpecific, IsError
  <2>7. CacheFirst'
    BY <2>1, <2>5, <2>6 DEF CacheFirst, CacheIds
  <2> QED BY <1>0, <2>1, <2>2, <2>4, <2>5, <2>7 DEF CacheInv, IdsGrow
<1>4. ASSUME NEW t \in Threads, NEW s \in Ids, DeliverOther(t, s) PROVE CacheInv'
  <2>1. /\ s \notin cacheIds /\ owed' = owed \ {s}
        /\ UNCHANGED <<live, cacheIds, notifier, payload, updating, cached, read, delivered,
                       issued, notified>>
    BY <1>4 DEF DeliverOther, Deliver
  <2>2. CacheIds' = CacheIds /\ TypeOK'
    BY <1>0, <2>1 DEF CacheIds, TypeOK
  <2>3. CacheAgrees'
    BY <1>0, <2>1, <2>2 DEF CacheAgrees, CacheTypeOK
  <2> QED BY <1>0, <2>1, <2>2, <2>3 DEF CacheInv, IdsGrow, CacheFirst, CacheIds
<1>5. ASSUME NEW t \in Threads, NEW s \in Ids, DeliverToCache(t, s) PROVE CacheInv'
  <2>1. /\ notifier = t /\ owed' = owed \ {s} /\ updating = "no" /\ updating' = "compare"
        /\ UNCHANGED <<live, cacheIds, notifier, payload, cached, read, delivered,
                       issued, notified>>
    BY <1>5 DEF DeliverToCache, Deliver
  <2>2. CacheIds' = CacheIds /\ TypeOK'
    BY <1>0, <2>1 DEF CacheIds, TypeOK
  <2>3. CacheAgrees'
    BY <1>0, <2>1, <2>2, NoThreadAssumption DEF CacheAgrees, CacheTypeOK
  <2> QED BY <1>0, <2>1, <2>2, <2>3 DEF CacheInv, IdsGrow, CacheFirst
<1>6. ASSUME NEW t \in Threads, Compare(t) \/ AssignCached(t) PROVE CacheInv'
  <2>1. /\ notifier = t
        /\ UNCHANGED <<live, cacheIds, notifier, owed, payload, read, issued, notified>>
    BY <1>6 DEF Compare, AssignCached, vars
  <2>2. /\ updating' \in {"no", "assign"}
        /\ updating' = "no" => cached' = payload.value /\ delivered' = payload.value
        /\ cached' \in {cached, payload.value} /\ delivered' \in {delivered, payload.value}
    BY <1>0, <1>6 DEF Compare, AssignCached, IsCurrent
  <2>3. CacheIds' = CacheIds /\ TypeOK'
    BY <1>0, <2>1 DEF CacheIds, TypeOK
  <2>4. CacheAgrees'
    <3>1. payload.value \in Values \cup {NoValue}
      BY <1>0 DEF CacheTypeOK
    <3> QED BY <1>0, <2>1, <2>2, <2>3, <3>1, NoThreadAssumption DEF CacheAgrees, CacheTypeOK
  <2> QED BY <1>0, <2>1, <2>2, <2>3, <2>4 DEF CacheInv, IdsGrow, CacheFirst
<1>7. ASSUME NEW t \in Threads, FinishUpdate(t) PROVE CacheInv'
  <2>1. /\ updating = "no" /\ owed = {} /\ notifier' = NoThread /\ payload' = NoPayload
        /\ UNCHANGED <<live, cacheIds, owed, updating, cached, read, delivered, issued, notified>>
    BY <1>7 DEF FinishUpdate, Finish
  <2>2. CacheIds' = CacheIds /\ TypeOK'
    BY <1>0, <2>1 DEF CacheIds, TypeOK
  <2>3. CacheAgrees'
    BY <1>0, <2>1, <2>2 DEF CacheAgrees, CacheTypeOK, NoPayload
  <2> QED BY <1>0, <2>1, <2>2, <2>3 DEF CacheInv, IdsGrow, CacheFirst
<1>8. ASSUME NEW t \in Threads, GetCachedValue(t) PROVE CacheInv'
  <2>1. UNCHANGED <<live, cacheIds, notifier, owed, payload, updating, cached, delivered,
                    issued, notified>>
    BY <1>8 DEF GetCachedValue, vars
  <2>2. PICK v \in Readable : read' = [read EXCEPT ![t] = v]
    BY <1>8 DEF GetCachedValue
  <2>3. v \in Values \cup {NoValue, Torn}
    BY <1>0, <2>2 DEF Readable, CacheTypeOK
  <2>4. CacheIds' = CacheIds /\ TypeOK'
    BY <1>0, <2>1 DEF CacheIds, TypeOK
  <2>5. CacheAgrees'
    BY <1>0, <2>1, <2>2, <2>3, <2>4 DEF CacheAgrees, CacheTypeOK
  <2> QED BY <1>0, <2>1, <2>4, <2>5 DEF CacheInv, IdsGrow, CacheFirst
<1>9. CASE UNCHANGED cacheVars
  <2>1. UNCHANGED <<live, cacheIds, notifier, owed, payload, updating, cached, read,
                    delivered, issued, notified>>
    BY <1>9 DEF cacheVars, vars
  <2>2. CacheIds' = CacheIds /\ TypeOK'
    BY <1>0, <2>1 DEF CacheIds, TypeOK
  <2>3. CacheAgrees'
    BY <1>0, <2>1, <2>2 DEF CacheAgrees, CacheTypeOK
  <2> QED BY <1>0, <2>1, <2>2, <2>3 DEF CacheInv, IdsGrow, CacheFirst
<1>10. Construct => CacheInv'
  BY <1>1, CacheListenerAssumption DEF Construct
<1>11. ASSUME NEW l \in Listeners, SubscribeOther(l) PROVE CacheInv'
  BY <1>1, <1>11 DEF SubscribeOther
<1> QED BY <1>2, <1>3, <1>4, <1>5, <1>6, <1>7, <1>8, <1>9, <1>10, <1>11
        DEF CacheNext, ServeUpdate

-----------------------------------------------------------------------------
\* Between two updates the cache holds the last value that was notified to it, although
\* onValueUpdate() takes two steps and does not assign what it takes for equal.
THEOREM CacheInStep == CacheSpec => []CacheAgrees
<1>1. CacheInv => CacheAgrees
  BY DEF CacheInv
<1> QED BY <1>1, InitCache, NextCache, PTL DEF CacheSpec

\* Every listener that subscribed after the extension finds the cache up to date when it
\* is called back by a notification to all: the extension was called before it.
THEOREM CacheBeforeListeners == CacheSpec => ListenersSeeCache
<1>1. CacheInv /\ [CacheNext]_cacheVars =>
         [\A t \in Threads, s \in Ids, i \in CacheIds :
             (DeliverOther(t, s) /\ s > i /\ payload.kind = "listeners")
                 => cached = payload.value]_cacheVars
  <2> SUFFICES ASSUME CacheInv, NEW t \in Threads, NEW s \in Ids, NEW i \in CacheIds,
                      DeliverOther(t, s), s > i, payload.kind = "listeners"
               PROVE  cached = payload.value
    OBVIOUS
  <2>1. updating = "no" /\ IsLeast(s, owed)
    BY DEF DeliverOther, Deliver
  <2>2. i \in Ids /\ i \in Nat /\ s \in Nat
    BY IdsFacts DEF CacheInv, CacheAgrees, CacheTypeOK, TypeOK, IsListenersMap, CacheIds
  <2>3. i \notin owed /\ s \in owed
    BY <2>1, <2>2 DEF IsLeast
  <2> QED BY <2>1, <2>3 DEF CacheInv, CacheFirst
<1> QED BY <1>1, InitCache, NextCache, PTL DEF CacheSpec, ListenersSeeCache
===============================================================================
