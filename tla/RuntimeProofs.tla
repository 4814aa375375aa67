---------------------------- MODULE RuntimeProofs ----------------------------
(***************************************************************************)
(* Theorems about Runtime, for any threads, factories, bindings, addresses *)
(* and libraries, and for every number of calls.                           *)
(***************************************************************************)
EXTENDS Runtime, TLAPS

-----------------------------------------------------------------------------
(***************************************************************************)
(* Types and locks.  What an iterating helper reads is only typed because  *)
(* it holds factoriesMutex_, so that its cursor stays on an element.       *)
(***************************************************************************)
\* Between locking and unlocking loadMutex_.
Loading(t) ==
    \/ thread[t].at \in {"load", "open", "register", "insert", "decide", "unlockLoad"}
    \/ thread[t].at \in {"try", "ask"} /\ thread[t].useDefault

MutexesOwned ==
    \A t \in Threads : /\ thread[t].at = "ask" <=> factoriesMutex = t
                       /\ Loading(t) <=> loadMutex = t

LocalsValid ==
    \A t \in Threads :
        /\ thread[t].at = "ask" => thread[t].cursor \in DOMAIN factories \cup {AtDefault}
        /\ thread[t].at \in {"check", "init", "lockLoad"} => ~thread[t].useDefault
        /\ Unregistering(t) => thread[t].address \in Stubs

LockInv == TypeOK /\ MutexesOwned /\ LocalsValid

\* The numbers of bindings and the position behind them.
LEMMA CursorType ==
    /\ AtDefault \notin Bindings
    /\ \A c \in Bindings : c \in Nat /\ c + 1 \in Nat
BY NamesAssumption DEF AtDefault

\* The call of an address is typed, and so is the thread that is in none.
LEMMA CallType ==
    /\ Idle \in Calls /\ Idle.at = "idle"
    /\ \A a \in Addresses :
          /\ Call(a, "check") \in Calls /\ Call(a, "return") \in Calls
          /\ \A c \in Bindings \cup {AtDefault} :
                [Call(a, "unregister") EXCEPT !.cursor = c] \in Calls
BY NamesAssumption DEF Idle, Call, Calls, AtDefault

\* A cursor that is moved on is on an element, or behind all of them.
LEMMA CursorFromFacts ==
    ASSUME TypeOK, NEW b \in Nat, NEW c \in Bindings \cup {AtDefault}, CursorFrom(b, c)
    PROVE  /\ c \in DOMAIN factories \cup {AtDefault}
           /\ \A k \in DOMAIN factories : (c = AtDefault \/ k < c) => k < b
BY NamesAssumption DEF CursorFrom, AtDefault, TypeOK

\* The map with one more factory.
LEMMA MapWithFacts ==
    ASSUME TypeOK, NEW f \in Factories
    PROVE  /\ MapWith(f) \in [DOMAIN MapWith(f) -> Factories]
           /\ DOMAIN factories \subseteq DOMAIN MapWith(f)
           /\ DOMAIN MapWith(f) \subseteq Bindings \ {DefaultBinding}
           /\ \A b \in DOMAIN factories : MapWith(f)[b] = factories[b]
           /\ \A b \in DOMAIN MapWith(f) \ DOMAIN factories :
                 b = BindingOf[f] /\ MapWith(f)[b] = f /\ IsAccepted(f)
           /\ (IsAccepted(f) /\ BindingOf[f] # DefaultBinding) =>
                 BindingOf[f] \in DOMAIN MapWith(f) /\ MapWith(f)[BindingOf[f]] = f
BY NamesAssumption DEF MapWith, TypeOK, IsAccepted

\* The map without a binding.
LEMMA RestrictFacts ==
    ASSUME TypeOK, NEW b
    PROVE  /\ Restrict(factories, DOMAIN factories \ {b})
                 \in [DOMAIN factories \ {b} -> Factories]
           /\ \A c \in DOMAIN factories \ {b} :
                 Restrict(factories, DOMAIN factories \ {b})[c] = factories[c]
BY DEF Restrict, TypeOK

LEMMA InitLock == Init => LockInv
<1> SUFFICES ASSUME Init PROVE LockInv
  OBVIOUS
<1>1. TypeOK
  <2>1. NoLibrary \in [DOMAIN NoLibrary -> Factories] /\ DOMAIN NoLibrary = {}
    BY DEF NoLibrary
  <2>2. thread \in [Threads -> Calls]
    BY CallType DEF Init
  <2>3. /\ inits \in [Factories -> Nat] /\ accepted \in [Factories -> Nat]
        /\ opens \in [Libraries -> Nat]
        /\ supports \subseteq Factories \X Addresses /\ stubs \subseteq Factories \X Stubs
    BY NamesAssumption DEF Init
  <2>4. calls \in 0 .. MaxCalls /\ DefaultBinding \in Bindings
    BY NamesAssumption, MaxCallsAssumption DEF Init
  <2> QED BY <2>1, <2>2, <2>3, <2>4 DEF Init, TypeOK
<1>2. \A t \in Threads : thread[t].at = "idle"
  BY CallType DEF Init
<1> QED BY <1>1, <1>2, NamesAssumption
        DEF LockInv, MutexesOwned, LocalsValid, Loading, Unregistering, Init

\* Registering a factory, wherever the thread that does it is.
LEMMA AddFactoryType ==
    ASSUME LockInv, NEW f \in Factories, AddFactory(f)
    PROVE  /\ factories' \in [DOMAIN factories' -> Factories]
           /\ DOMAIN factories' \subseteq Bindings \ {DefaultBinding}
           /\ defaultFactory' \in Factories \cup {NoFactory}
           /\ inits' \in [Factories -> Nat] /\ accepted' \in [Factories -> Nat]
           /\ ousted' \subseteq Factories
           /\ overlapped' \subseteq Threads /\ undefined' \in BOOLEAN
           /\ \A t \in Threads : thread[t].at # "ask"
           /\ UNCHANGED <<isInitialized, mutexes, stubs>>
<1>1. \A t \in Threads : thread[t].at # "ask"
  BY NamesAssumption DEF AddFactory, LockInv, MutexesOwned
<1>2. inits' \in [Factories -> Nat] /\ accepted' \in [Factories -> Nat]
  BY DEF AddFactory, LockInv, TypeOK, InitedWith
<1>3. overlapped' \subseteq Threads /\ undefined' \in BOOLEAN
  BY DEF AddFactory, Overlap, LockInv, TypeOK
<1> QED BY <1>1, <1>2, <1>3, MapWithFacts DEF AddFactory, LockInv, TypeOK

LEMMA InitAllType ==
    ASSUME LockInv, InitAll
    PROVE  inits' \in [Factories -> Nat]
BY DEF InitAll, AllInited, LockInv, TypeOK

(***************************************************************************)
(* Every operation preserves LockInv.                                      *)
(***************************************************************************)
LEMMA RegistrationLock ==
    ASSUME LockInv, NEW t \in Threads,
           \/ \E f \in Factories : RegisterFactory(t, f)
           \/ \E b \in Bindings : UnregisterFactory(t, b)
           \/ InitFactories(t)
    PROVE  LockInv'
<1>1. ASSUME NEW f \in Factories, RegisterFactory(t, f) PROVE LockInv'
  BY <1>1, AddFactoryType, MaxCallsAssumption
     DEF RegisterFactory, StartCall, LockInv, TypeOK, MutexesOwned, LocalsValid, Loading,
         Unregistering, loading, mutexes
<1>2. ASSUME NEW b \in Bindings, UnregisterFactory(t, b) PROVE LockInv'
  <2>1. \A u \in Threads : thread[u].at # "ask"
    BY <1>2, NamesAssumption DEF UnregisterFactory, LockInv, MutexesOwned
  <2>2. /\ factories' \in [DOMAIN factories' -> Factories]
        /\ DOMAIN factories' \subseteq Bindings \ {DefaultBinding}
    BY <1>2, RestrictFacts DEF UnregisterFactory, LockInv, TypeOK
  <2>3. defaultFactory' \in Factories \cup {NoFactory} /\ ousted' \subseteq Factories
    BY <1>2 DEF UnregisterFactory, LockInv, TypeOK, Registered, Range
  <2>4. calls' \in 0 .. MaxCalls
    BY <1>2, MaxCallsAssumption DEF UnregisterFactory, StartCall, LockInv, TypeOK
  <2>5. UNCHANGED <<isInitialized, mutexes, loading, thread, stubs, inits, accepted>>
    BY <1>2 DEF UnregisterFactory
  <2>8. overlapped' \subseteq Threads /\ undefined' \in BOOLEAN
    BY <1>2 DEF UnregisterFactory, Overlap, LockInv, TypeOK
  <2>6. TypeOK'
    BY <2>2, <2>3, <2>4, <2>5, <2>8 DEF LockInv, TypeOK, loading, mutexes
  <2>7. MutexesOwned' /\ LocalsValid'
    BY <2>1, <2>5 DEF LockInv, MutexesOwned, LocalsValid, Loading, Unregistering, mutexes
  <2> QED BY <2>6, <2>7 DEF LockInv
<1>3. CASE InitFactories(t)
  BY <1>3, InitAllType, MaxCallsAssumption
     DEF InitFactories, InitAll, StartCall, LockInv, TypeOK, MutexesOwned, LocalsValid,
         Loading, Unregistering, loading, mutexes, history
<1> QED BY <1>1, <1>2, <1>3

\* A step that changes nothing but where one thread is, and its locals.
LEMMA MoveLockAny ==
    ASSUME LockInv, NEW t \in Threads, NEW call \in Calls,
           thread' = [thread EXCEPT ![t] = call],
           UNCHANGED <<registry, inits, accepted, ousted>>,
           overlapped' \subseteq Threads, undefined' \in BOOLEAN,
           calls' \in 0 .. MaxCalls,
           stubs' \subseteq Factories \X Stubs,
           loadedLibraries' \subseteq Libraries,
           supports' \subseteq Factories \X Addresses,
           opens' \in [Libraries -> Nat],
           \/ UNCHANGED factoriesMutex /\ (thread[t].at = "ask" <=> call.at = "ask")
           \/ factoriesMutex = NoThread /\ factoriesMutex' = t /\ call.at = "ask"
           \/ factoriesMutex = t /\ factoriesMutex' = NoThread /\ call.at # "ask",
           \/ UNCHANGED loadMutex /\ (Loading(t) <=> Loading(t)')
           \/ loadMutex = NoThread /\ loadMutex' = t /\ Loading(t)'
           \/ loadMutex = t /\ loadMutex' = NoThread /\ ~Loading(t)',
           call.at = "ask" => call.cursor \in DOMAIN factories \cup {AtDefault},
           call.at \in {"check", "init", "lockLoad"} => ~call.useDefault,
           call.at \in {"unregister", "readDefault", "callDefault"} => call.address \in Stubs
    PROVE  LockInv'
<1>1. thread'[t] = call /\ \A u \in Threads \ {t} : thread'[u] = thread[u]
  BY DEF LockInv, TypeOK
<1>2. TypeOK'
  BY DEF LockInv, TypeOK, registry
<1>3. \A u \in Threads \ {t} : Loading(u)' <=> Loading(u)
  BY <1>1 DEF Loading
<1>4. MutexesOwned'
  BY <1>1, <1>3, NamesAssumption DEF LockInv, MutexesOwned
<1>5. LocalsValid'
  BY <1>1 DEF LockInv, LocalsValid, Unregistering, registry
<1> QED BY <1>2, <1>4, <1>5 DEF LockInv

LEMMA MoveLock ==
    ASSUME LockInv, NEW t \in Threads, NEW call \in Calls,
           thread' = [thread EXCEPT ![t] = call],
           UNCHANGED <<registry, inits, history>>,
           calls' \in 0 .. MaxCalls,
           stubs' \subseteq Factories \X Stubs,
           loadedLibraries' \subseteq Libraries,
           supports' \subseteq Factories \X Addresses,
           opens' \in [Libraries -> Nat],
           \/ UNCHANGED factoriesMutex /\ (thread[t].at = "ask" <=> call.at = "ask")
           \/ factoriesMutex = NoThread /\ factoriesMutex' = t /\ call.at = "ask"
           \/ factoriesMutex = t /\ factoriesMutex' = NoThread /\ call.at # "ask",
           \/ UNCHANGED loadMutex /\ (Loading(t) <=> Loading(t)')
           \/ loadMutex = NoThread /\ loadMutex' = t /\ Loading(t)'
           \/ loadMutex = t /\ loadMutex' = NoThread /\ ~Loading(t)',
           call.at = "ask" => call.cursor \in DOMAIN factories \cup {AtDefault},
           call.at \in {"check", "init", "lockLoad"} => ~call.useDefault,
           call.at \in {"unregister", "readDefault", "callDefault"} => call.address \in Stubs
    PROVE  LockInv'
BY MoveLockAny DEF LockInv, TypeOK, history

\* The same for a step that leaves the mutexes and the externals alone.
LEMMA QuietMoveLock ==
    ASSUME LockInv, NEW t \in Threads, NEW call \in Calls,
           thread' = [thread EXCEPT ![t] = call],
           UNCHANGED <<registry, mutexes, loading, stubs, inits, history, calls>>,
           thread[t].at # "ask", call.at # "ask",
           Loading(t) <=> Loading(t)',
           call.at \in {"check", "init", "lockLoad"} => ~call.useDefault,
           call.at \in {"unregister", "readDefault", "callDefault"} => call.address \in Stubs
    PROVE  LockInv'
BY MoveLock DEF LockInv, TypeOK, mutexes, loading

LEMMA StartLock ==
    ASSUME LockInv, NEW t \in Threads,
           \/ \E a \in Addresses : Create(t, a)
           \/ \E a \in Stubs : CreateNothing(t, a) \/ UnregisterStub(t, a)
    PROVE  LockInv'
<1>1. calls' \in 0 .. MaxCalls /\ thread[t].at = "idle" /\ ~Loading(t)
  BY MaxCallsAssumption
     DEF Create, CreateNothing, UnregisterStub, StartCall, LockInv, TypeOK, Loading
<1>2. ASSUME NEW a \in Addresses, NEW at \in {"check", "return"},
             thread' = [thread EXCEPT ![t] = Call(a, at)],
             UNCHANGED <<registry, mutexes, loading, stubs, inits, history>>
      PROVE  LockInv'
  <2> DEFINE call == Call(a, at)
  <2>1. call \in Calls /\ call.at \in {"check", "return"} /\ ~call.useDefault
    BY CallType DEF Call
  <2>2. thread' = [thread EXCEPT ![t] = call] /\ thread'[t] = call
    BY <1>2 DEF LockInv, TypeOK
  <2>3. ~Loading(t)'
    BY <2>1, <2>2 DEF Loading
  <2> HIDE DEF call
  <2> QED BY <1>1, <1>2, <2>1, <2>2, <2>3, MoveLock DEF mutexes, loading, LockInv, TypeOK
<1>3. ASSUME NEW a \in Stubs, UnregisterStub(t, a) PROVE LockInv'
  <2>1. PICK c \in Bindings \cup {AtDefault} :
           thread' = [thread EXCEPT ![t] = [Call(a, "unregister") EXCEPT !.cursor = c]]
    BY <1>3 DEF UnregisterStub
  <2> DEFINE call == [Call(a, "unregister") EXCEPT !.cursor = c]
  <2>2. call \in Calls /\ call.at = "unregister" /\ call.address = a
    BY CallType, NamesAssumption DEF Call
  <2>3. thread'[t] = call /\ ~Loading(t)'
    BY <2>1, <2>2 DEF LockInv, TypeOK, Loading
  <2>4. /\ UNCHANGED <<registry, mutexes, loading, stubs, inits, history>>
        /\ thread' = [thread EXCEPT ![t] = call]
    BY <1>3, <2>1 DEF UnregisterStub
  <2>5. /\ stubs' \subseteq Factories \X Stubs /\ loadedLibraries' \subseteq Libraries
        /\ supports' \subseteq Factories \X Addresses /\ opens' \in [Libraries -> Nat]
    BY <2>4 DEF loading, LockInv, TypeOK
  <2>6. thread[t].at # "ask" /\ call.at # "ask" /\ call.at \notin {"readDefault", "callDefault"}
    BY <1>1, <2>2
  <2> HIDE DEF call
  <2> QED BY <1>1, <2>2, <2>3, <2>4, <2>5, <2>6, MoveLock DEF mutexes
<1> QED BY <1>2, <1>3, NamesAssumption DEF Create, CreateNothing

\* What a thread's record is after a step that moves it to a control point.
LEMMA GotoFacts ==
    ASSUME TypeOK, NEW t \in Threads,
           NEW at \in {"idle", "check", "init", "try", "ask", "lockLoad", "load", "open",
                       "register", "insert", "decide", "unlockLoad", "return", "unregister",
                       "readDefault", "callDefault"},
           Goto(t, at)
    PROVE  \E call \in Calls :
              /\ thread' = [thread EXCEPT ![t] = call] /\ thread'[t] = call
              /\ call.at = at /\ call.useDefault = thread[t].useDefault
              /\ call.address = thread[t].address /\ call.cursor = thread[t].cursor
              /\ call.loaded = thread[t].loaded /\ call.servedBy = thread[t].servedBy
              /\ \A u \in Threads \ {t} : thread'[u] = thread[u]
<1> DEFINE call == [thread[t] EXCEPT !.at = at]
<1>1. call \in Calls
  BY DEF TypeOK, Calls
<1>2. thread' = [thread EXCEPT ![t] = call]
  BY DEF Goto, TypeOK
<1>3. thread[t] \in Calls
  BY DEF TypeOK
<1>4. thread'[t] = call /\ \A u \in Threads \ {t} : thread'[u] = thread[u]
  BY <1>2 DEF TypeOK
<1>5. /\ call.at = at /\ call.useDefault = thread[t].useDefault
      /\ call.address = thread[t].address /\ call.cursor = thread[t].cursor
      /\ call.loaded = thread[t].loaded /\ call.servedBy = thread[t].servedBy
  BY <1>3 DEF Calls
<1> HIDE DEF call
<1> QED BY <1>1, <1>2, <1>4, <1>5

LEMMA HelperLock ==
    ASSUME LockInv, NEW t \in Threads,
           LockFactories(t) \/ AskFactory(t) \/ AskDefaultFactory(t)
    PROVE  LockInv'
<1> USE DEF Loading
<1>1. CASE LockFactories(t)
  <2>1. PICK c \in Bindings \cup {AtDefault} :
           /\ CursorFrom(0, c)
           /\ thread' = [thread EXCEPT ![t].at = "ask", ![t].cursor = c]
    BY <1>1 DEF LockFactories
  <2> DEFINE call == [thread[t] EXCEPT !.at = "ask", !.cursor = c]
  <2>2. /\ call \in Calls /\ call.at = "ask" /\ call.useDefault = thread[t].useDefault
        /\ call.cursor = c
    <3>1. thread[t] \in Calls
      BY DEF LockInv, TypeOK
    <3> QED BY <3>1 DEF Calls, AtDefault
  <2>3. thread' = [thread EXCEPT ![t] = call] /\ thread'[t] = call
    BY <2>1 DEF LockInv, TypeOK
  <2>4. c \in DOMAIN factories \cup {AtDefault}
    BY <2>1, CursorFromFacts DEF LockInv
  <2>5. thread[t].at = "try" /\ (Loading(t) <=> Loading(t)')
    BY <1>1, <2>2, <2>3 DEF LockFactories
  <2> HIDE DEF call, Loading
  <2> QED BY <1>1, <2>2, <2>3, <2>4, <2>5, MoveLock
          DEF LockFactories, loading, LockInv, TypeOK
<1>2. ASSUME NEW f \in Factories, Served(t, f), thread[t].at = "ask",
             UNCHANGED <<registry, loadMutex, loading, inits, history, calls>>
      PROVE  LockInv'
  <2> DEFINE call == [thread[t] EXCEPT !.servedBy = f,
                         !.at = IF thread[t].useDefault THEN "unlockLoad" ELSE "return"]
  <2>1. /\ call \in Calls /\ call.useDefault = thread[t].useDefault
        /\ call.at = IF thread[t].useDefault THEN "unlockLoad" ELSE "return"
    <3>1. thread[t] \in Calls
      BY DEF LockInv, TypeOK
    <3> QED BY <3>1 DEF Calls
  <2>2. thread' = [thread EXCEPT ![t] = call] /\ thread'[t] = call
    BY <1>2 DEF Served, LockInv, TypeOK
  <2>3. stubs' \subseteq Factories \X Stubs
    BY <1>2 DEF Served, LockInv, TypeOK
  <2>4. (Loading(t) <=> Loading(t)') /\ call.at # "ask"
    BY <1>2, <2>1, <2>2
  <2>5. factoriesMutex = t /\ factoriesMutex' = NoThread
    BY <1>2 DEF Served, LockInv, MutexesOwned
  <2>6. call.at \notin {"check", "init", "lockLoad", "unregister", "readDefault", "callDefault"}
    BY <2>1
  <2> HIDE DEF call, Loading
  <2> QED BY <1>2, <2>1, <2>2, <2>3, <2>4, <2>5, <2>6, MoveLock DEF loading, LockInv, TypeOK
<1>3. CASE AskFactory(t)
  <2>1. /\ thread[t].at = "ask" /\ thread[t].cursor \in DOMAIN factories
        /\ thread[t].cursor + 1 \in Nat
        /\ factories[thread[t].cursor] \in Factories
    BY <1>3, CursorType DEF AskFactory, LockInv, LocalsValid, TypeOK
  <2>2. CASE Served(t, factories[thread[t].cursor])
    BY <1>2, <1>3, <2>1, <2>2 DEF AskFactory
  <2>3. ASSUME NEW c \in Bindings \cup {AtDefault}, CursorFrom(thread[t].cursor + 1, c),
               thread' = [thread EXCEPT ![t].cursor = c], UNCHANGED <<factoriesMutex, stubs>>
        PROVE  LockInv'
    <3> DEFINE call == [thread[t] EXCEPT !.cursor = c]
    <3>1. /\ call \in Calls /\ call.at = "ask" /\ call.useDefault = thread[t].useDefault
          /\ call.cursor = c
      BY <2>1 DEF LockInv, TypeOK, Calls, AtDefault
    <3>2. thread' = [thread EXCEPT ![t] = call] /\ thread'[t] = call
      BY <2>3 DEF LockInv, TypeOK
    <3>3. c \in DOMAIN factories \cup {AtDefault}
      BY <2>1, <2>3, CursorFromFacts DEF LockInv
    <3>4. Loading(t) <=> Loading(t)'
      BY <2>1, <3>1, <3>2
    <3> HIDE DEF call, Loading
    <3> QED BY <1>3, <2>1, <2>3, <3>1, <3>2, <3>3, <3>4, MoveLock
            DEF AskFactory, loading, LockInv, TypeOK
  <2> QED BY <1>3, <2>2, <2>3 DEF AskFactory
<1>4. CASE AskDefaultFactory(t)
  <2>1. CASE DefaultServes(t)
    BY <1>2, <1>4, <2>1 DEF AskDefaultFactory, DefaultServes, LockInv, TypeOK
  <2>2. CASE ~DefaultServes(t)
    <3>1. /\ thread[t].at = "ask" /\ Unserved(t)
          /\ UNCHANGED <<registry, loadMutex, loading, inits, history, calls>>
      BY <1>4, <2>2 DEF AskDefaultFactory
    <3>2. PICK call \in Calls :
             /\ thread' = [thread EXCEPT ![t] = call] /\ thread'[t] = call
             /\ call.at = IF thread[t].useDefault THEN "unlockLoad" ELSE "lockLoad"
             /\ call.useDefault = thread[t].useDefault
      BY <3>1, GotoFacts DEF Unserved, LockInv
    <3>3. (Loading(t) <=> Loading(t)') /\ call.at \in {"unlockLoad", "lockLoad"}
      BY <3>1, <3>2
    <3>4. factoriesMutex = t /\ factoriesMutex' = NoThread /\ UNCHANGED stubs
      BY <3>1 DEF Unserved, LockInv, MutexesOwned
    <3> HIDE DEF Loading
    <3> QED BY <3>1, <3>2, <3>3, <3>4, MoveLock DEF loading, LockInv, TypeOK
  <2> QED BY <2>1, <2>2
<1> QED BY <1>1, <1>3, <1>4

\* The steps of loadLibrary() and around it, and those that only go on.
LEMMA LoadStepLock ==
    ASSUME LockInv, NEW t \in Threads,
           \/ LockLoad(t) \/ LoadLibrary(t) \/ OpenFails(t) \/ OpenSucceeds(t)
           \/ InsertLoaded(t) \/ Decide(t) \/ UnlockLoad(t)
    PROVE  LockInv'
<1>a. /\ stubs \subseteq Factories \X Stubs /\ calls \in 0 .. MaxCalls
      /\ loadedLibraries \subseteq Libraries /\ opens \in [Libraries -> Nat]
      /\ supports \subseteq Factories \X Addresses
      /\ thread[t].address \in Addresses /\ LibraryOf[thread[t].address] \in Libraries
      /\ thread[t] \in Calls
  BY NamesAssumption DEF LockInv, TypeOK, Calls
<1>1. CASE LockLoad(t)
  <2>1. PICK call \in Calls :
           /\ thread' = [thread EXCEPT ![t] = call] /\ thread'[t] = call
           /\ call.at = "load"
    BY <1>1, GotoFacts DEF LockLoad, LockInv
  <2> QED BY <1>1, <1>a, <2>1, MoveLock DEF LockLoad, Loading, loading
<1>2. CASE LoadLibrary(t)
  <2> DEFINE call == IF LibraryOf[thread[t].address] \in loadedLibraries
                     THEN [thread[t] EXCEPT !.at = "decide", !.loaded = TRUE]
                     ELSE [thread[t] EXCEPT !.at = "open"]
  <2>1. call \in Calls /\ call.at \in {"decide", "open"}
    BY <1>a DEF Calls
  <2>2. thread' = [thread EXCEPT ![t] = call] /\ thread'[t] = call
    BY <1>2 DEF LoadLibrary, LockInv, TypeOK
  <2> HIDE DEF call
  <2> QED BY <1>2, <2>1, <2>2, QuietMoveLock DEF LoadLibrary, Loading
<1>3. CASE OpenFails(t)
  <2>1. PICK call \in Calls :
           /\ thread' = [thread EXCEPT ![t] = call] /\ thread'[t] = call
           /\ call.at = "decide"
    BY <1>3, GotoFacts DEF OpenFails, LockInv
  <2> QED BY <1>3, <2>1, QuietMoveLock DEF OpenFails, Loading
<1>4. CASE OpenSucceeds(t)
  <2>1. PICK at \in {"insert", "register"} : Goto(t, at)
    BY <1>4 DEF OpenSucceeds
  <2>2. PICK call \in Calls :
           /\ thread' = [thread EXCEPT ![t] = call] /\ thread'[t] = call
           /\ call.at = at
    BY <2>1, GotoFacts DEF LockInv
  <2>3. opens' \in [Libraries -> Nat] /\ supports' \subseteq Factories \X Addresses
    <3> DEFINE l == LibraryOf[thread[t].address]
    <3>1. l \in Libraries /\ opens' = [opens EXCEPT ![l] = @ + 1]
      BY <1>4, NamesAssumption DEF OpenSucceeds
    <3>2. supports' = supports \cup
             {<<FactoryOf[l], a>> : a \in {x \in Addresses : LibraryOf[x] = l}}
      BY <1>4 DEF OpenSucceeds
    <3>3. FactoryOf[l] \in Factories
      BY <3>1, NamesAssumption
    <3> HIDE DEF l
    <3>4. opens' \in [Libraries -> Nat]
      <4>1. opens \in [Libraries -> Nat] /\ opens[l] + 1 \in Nat
        BY <1>a, <3>1
      <4> QED BY <3>1, <4>1
    <3>5. supports' \subseteq Factories \X Addresses
      BY <1>a, <3>2, <3>3
    <3> QED BY <3>4, <3>5
  <2>4. /\ thread[t].at = "open"
        /\ UNCHANGED <<registry, mutexes, loadedLibraries, stubs, inits, history, calls>>
    BY <1>4 DEF OpenSucceeds
  <2>5. Loading(t) <=> Loading(t)'
    BY <2>2, <2>4 DEF Loading
  <2>6. /\ stubs' \subseteq Factories \X Stubs /\ loadedLibraries' \subseteq Libraries
        /\ calls' \in 0 .. MaxCalls
    BY <2>4 DEF LockInv, TypeOK
  <2>7. thread[t].at # "ask" /\ call.at # "ask"
        /\ call.at \notin {"check", "init", "lockLoad", "unregister", "readDefault", "callDefault"}
    BY <2>2, <2>4
  <2> HIDE DEF Loading
  <2> QED BY <2>2, <2>3, <2>4, <2>5, <2>6, <2>7, MoveLock DEF mutexes
<1>5. CASE InsertLoaded(t)
  <2> DEFINE call == [thread[t] EXCEPT !.at = "decide", !.loaded = TRUE]
  <2>1. call \in Calls /\ call.at = "decide"
    BY <1>a DEF Calls
  <2>2. thread' = [thread EXCEPT ![t] = call] /\ thread'[t] = call
    BY <1>5 DEF InsertLoaded, LockInv, TypeOK
  <2>3. loadedLibraries' \subseteq Libraries
    BY <1>5, <1>a DEF InsertLoaded
  <2> HIDE DEF call
  <2> QED BY <1>5, <1>a, <2>1, <2>2, <2>3, MoveLock DEF InsertLoaded, Loading, mutexes
<1>6. CASE Decide(t)
  <2> DEFINE call == IF TriesAgain(t)
                     THEN [thread[t] EXCEPT !.at = "try", !.useDefault = TRUE]
                     ELSE [thread[t] EXCEPT !.at = "unlockLoad"]
  <2>1. /\ call \in Calls /\ call.at \in {"try", "unlockLoad"}
        /\ call.at = "try" => call.useDefault
    BY <1>a DEF Calls
  <2>2. thread' = [thread EXCEPT ![t] = call] /\ thread'[t] = call
    BY <1>6 DEF Decide, LockInv, TypeOK
  <2> HIDE DEF call
  <2> QED BY <1>6, <2>1, <2>2, QuietMoveLock DEF Decide, Loading
<1>7. CASE UnlockLoad(t)
  <2>1. PICK call \in Calls :
           /\ thread' = [thread EXCEPT ![t] = call] /\ thread'[t] = call
           /\ call.at = "return"
    BY <1>7, GotoFacts DEF UnlockLoad, LockInv
  <2>2. loadMutex = t
    BY <1>7 DEF UnlockLoad, LockInv, MutexesOwned, Loading
  <2> QED BY <1>7, <1>a, <2>1, <2>2, MoveLock DEF UnlockLoad, Loading, loading
<1> QED BY <1>1, <1>2, <1>3, <1>4, <1>5, <1>6, <1>7

\* A library registers its factory while the thread holds loadMutex_.
LEMMA RegisterLoadedLock ==
    ASSUME LockInv, NEW t \in Threads, RegisterLoaded(t)
    PROVE  LockInv'
<1>1. PICK call \in Calls :
         /\ thread' = [thread EXCEPT ![t] = call] /\ thread'[t] = call
         /\ call.at = "insert"
         /\ \A u \in Threads \ {t} : thread'[u] = thread[u]
  BY GotoFacts DEF RegisterLoaded, LockInv
<1>2. FactoryOf[LibraryOf[thread[t].address]] \in Factories
  BY NamesAssumption DEF LockInv, TypeOK, Calls
<1>3. TypeOK'
  BY <1>1, <1>2, AddFactoryType DEF RegisterLoaded, LockInv, TypeOK, loading, mutexes
<1>4. \A u \in Threads : Loading(u)' <=> Loading(u)
  BY <1>1 DEF RegisterLoaded, Loading
<1>5. \A u \in Threads : thread[u].at # "ask" /\ thread'[u].at # "ask"
  BY <1>1, <1>2, AddFactoryType DEF RegisterLoaded
<1>6. MutexesOwned' /\ LocalsValid'
  BY <1>1, <1>2, <1>4, <1>5, AddFactoryType
     DEF RegisterLoaded, LockInv, MutexesOwned, LocalsValid, Unregistering, mutexes
<1> QED BY <1>3, <1>6 DEF LockInv

LEMMA RestLock ==
    ASSUME LockInv, NEW t \in Threads,
           CheckInitialized(t) \/ InitFromCall(t) \/ Return(t)
    PROVE  LockInv'
<1>1. CASE CheckInitialized(t)
  <2>1. PICK at \in {"try", "init"} : Goto(t, at)
    BY <1>1 DEF CheckInitialized
  <2>2. PICK call \in Calls :
           /\ thread' = [thread EXCEPT ![t] = call] /\ thread'[t] = call
           /\ call.at = at /\ call.useDefault = thread[t].useDefault
    BY <2>1, GotoFacts DEF LockInv
  <2>3. ~thread[t].useDefault /\ thread[t].at = "check"
    BY <1>1 DEF CheckInitialized, LockInv, LocalsValid
  <2> QED BY <1>1, <2>2, <2>3, QuietMoveLock DEF CheckInitialized, Loading
<1>2. CASE InitFromCall(t)
  <2>1. PICK call \in Calls :
           /\ thread' = [thread EXCEPT ![t] = call] /\ thread'[t] = call
           /\ call.at = "try" /\ call.useDefault = thread[t].useDefault
           /\ \A u \in Threads \ {t} : thread'[u] = thread[u]
    BY <1>2, GotoFacts DEF InitFromCall, LockInv
  <2>2. ~thread[t].useDefault /\ thread[t].at = "init"
    BY <1>2 DEF InitFromCall, LockInv, LocalsValid
  <2>3. TypeOK'
    BY <1>2, <2>1, InitAllType
       DEF InitFromCall, InitAll, LockInv, TypeOK, mutexes, loading, history
  <2>4. \A u \in Threads : Loading(u)' <=> Loading(u)
    BY <2>1, <2>2 DEF Loading
  <2>5. MutexesOwned' /\ LocalsValid'
    BY <1>2, <2>1, <2>2, <2>4
       DEF InitFromCall, InitAll, LockInv, MutexesOwned, LocalsValid, Unregistering, mutexes
  <2> QED BY <2>3, <2>5 DEF LockInv
<1>3. CASE Return(t)
  <2>1. thread' = [thread EXCEPT ![t] = Idle] /\ thread'[t] = Idle
    BY <1>3 DEF Return, LockInv, TypeOK
  <2>2. Idle \in Calls /\ Idle.at = "idle" /\ ~Loading(t) /\ ~Loading(t)'
    BY <1>3, <2>1, CallType DEF Return, Loading
  <2>3. /\ calls' \in 0 .. MaxCalls /\ stubs' \subseteq Factories \X Stubs
        /\ loadedLibraries' \subseteq Libraries /\ supports' \subseteq Factories \X Addresses
        /\ opens' \in [Libraries -> Nat]
        /\ overlapped' \subseteq Threads /\ undefined' \in BOOLEAN
    BY <1>3 DEF Return, loading, LockInv, TypeOK
  <2> HIDE DEF Loading
  <2> QED BY <1>3, <2>1, <2>2, <2>3, MoveLockAny DEF Return, mutexes
<1> QED BY <1>1, <1>2, <1>3

\* The steps of unregisterStub(), which has no lock.
LEMMA UnregisterFacts ==
    ASSUME LockInv, NEW t \in Threads, UnregisterStep(t)
    PROVE  /\ Unregistering(t) /\ thread[t].address \in Stubs
           /\ UNCHANGED <<registry, mutexes, loading, inits, accepted, ousted, overlapped, calls>>
           /\ stubs' \subseteq stubs /\ undefined' \in BOOLEAN
           /\ \E call \in Calls :
                 /\ thread' = [thread EXCEPT ![t] = call] /\ thread'[t] = call
                 /\ call.at \in {"unregister", "readDefault", "callDefault", "return"}
                 /\ call.address = thread[t].address /\ call.useDefault = thread[t].useDefault
                 /\ call.loaded = thread[t].loaded
<1>a. /\ thread[t] \in Calls /\ Unregistering(t) /\ thread[t].address \in Stubs
      /\ UNCHANGED <<registry, mutexes, loading, inits, accepted, ousted, overlapped, calls>>
      /\ undefined' \in BOOLEAN
  BY DEF UnregisterStep, UnregisterAt, UnregisterAtErased, CheckDefault, ReadDefault, CallDefault,
         FollowDangling, Unregistering, Iterating, LockInv, LocalsValid, TypeOK, history
<1> DEFINE Moves ==
       \E call \in Calls :
          /\ thread' = [thread EXCEPT ![t] = call] /\ thread'[t] = call
          /\ call.at \in {"unregister", "readDefault", "callDefault", "return"}
          /\ call.address = thread[t].address /\ call.useDefault = thread[t].useDefault
          /\ call.loaded = thread[t].loaded
<1> SUFFICES Moves /\ stubs' \subseteq stubs
  BY <1>a
<1>1. ASSUME NEW c \in Bindings \cup {AtDefault}, thread' = [thread EXCEPT ![t].cursor = c]
      PROVE  Moves
  <2> DEFINE call == [thread[t] EXCEPT !.cursor = c]
  <2>1. /\ call \in Calls /\ call.at = thread[t].at /\ call.address = thread[t].address
        /\ call.useDefault = thread[t].useDefault /\ call.loaded = thread[t].loaded
    BY <1>a DEF Calls, AtDefault
  <2>2. thread' = [thread EXCEPT ![t] = call] /\ thread'[t] = call
    BY <1>1 DEF LockInv, TypeOK
  <2> HIDE DEF call
  <2> QED BY <1>a, <2>1, <2>2 DEF Unregistering
<1>2. ASSUME NEW f \in Factories \cup {NoFactory}, Unregistered(t, f)
      PROVE  Moves /\ stubs' \subseteq stubs
  <2> DEFINE call == [thread[t] EXCEPT !.at = "return", !.servedBy = f]
  <2>1. /\ call \in Calls /\ call.at = "return" /\ call.address = thread[t].address
        /\ call.useDefault = thread[t].useDefault /\ call.loaded = thread[t].loaded
    BY <1>a DEF Calls
  <2>2. thread' = [thread EXCEPT ![t] = call] /\ thread'[t] = call /\ stubs' \subseteq stubs
    BY <1>2 DEF Unregistered, LockInv, TypeOK
  <2> HIDE DEF call
  <2> QED BY <2>1, <2>2
<1>3. ASSUME NEW at \in {"return", "readDefault"}, Goto(t, at)
      PROVE  Moves
  BY <1>3, GotoFacts DEF LockInv
<1>4. CASE UnregisterAt(t)
  <2>1. factories[thread[t].cursor] \in Factories
    BY <1>4 DEF UnregisterAt, LockInv, TypeOK
  <2> HIDE DEF Moves
  <2> QED BY <1>a, <1>1, <1>2, <1>4, <2>1 DEF UnregisterAt
<1>5. CASE UnregisterAtErased(t)
  <2>1. PICK c \in {k \in DOMAIN factories : k > thread[t].cursor} \cup {AtDefault} :
           thread' = [thread EXCEPT ![t].cursor = c]
    BY <1>5 DEF UnregisterAtErased
  <2>2. c \in Bindings \cup {AtDefault}
    BY DEF LockInv, TypeOK
  <2> HIDE DEF Moves
  <2> QED BY <1>a, <1>1, <1>5, <2>1, <2>2 DEF UnregisterAtErased
<1>6. CASE CheckDefault(t)
  <2>1. \E at \in {"return", "readDefault"} : Goto(t, at)
    BY <1>6 DEF CheckDefault
  <2> HIDE DEF Moves
  <2> QED BY <1>a, <1>3, <1>6, <2>1 DEF CheckDefault
<1>7. CASE ReadDefault(t)
  <2> DEFINE call == [thread[t] EXCEPT !.at = "callDefault", !.factory = defaultFactory]
  <2>1. /\ call \in Calls /\ call.at = "callDefault" /\ call.address = thread[t].address
        /\ call.useDefault = thread[t].useDefault /\ call.loaded = thread[t].loaded
    BY <1>a DEF LockInv, TypeOK, Calls
  <2>2. thread' = [thread EXCEPT ![t] = call] /\ thread'[t] = call
    BY <1>7 DEF ReadDefault, LockInv, TypeOK
  <2>3. stubs' = stubs
    BY <1>7 DEF ReadDefault
  <2> HIDE DEF call
  <2> QED BY <1>a, <2>1, <2>2, <2>3
<1>8. CASE CallDefault(t)
  <2>1. thread[t].factory \in Factories \cup {NoFactory}
    BY <1>a DEF Calls
  <2> HIDE DEF Moves
  <2> QED BY <1>a, <1>2, <1>3, <1>8, <2>1 DEF CallDefault
<1>9. CASE FollowDangling(t)
  <2>1. thread' = thread /\ stubs' = stubs
    BY <1>9 DEF FollowDangling
  <2>2. thread' = [thread EXCEPT ![t] = thread[t]] /\ thread'[t] = thread[t]
    BY <2>1 DEF LockInv, TypeOK
  <2>3. thread[t].at \in {"unregister", "readDefault", "callDefault"}
    BY <1>a DEF Unregistering
  <2> QED BY <1>a, <2>1, <2>2, <2>3
<1> HIDE DEF Moves
<1> QED BY <1>4, <1>5, <1>6, <1>7, <1>8, <1>9 DEF UnregisterStep

LEMMA UnregisterLock ==
    ASSUME LockInv, NEW t \in Threads, UnregisterStep(t)
    PROVE  LockInv'
<1>1. PICK call \in Calls :
         /\ thread' = [thread EXCEPT ![t] = call] /\ thread'[t] = call
         /\ call.at \in {"unregister", "readDefault", "callDefault", "return"}
         /\ call.address = thread[t].address
  BY UnregisterFacts
<1>2. /\ Unregistering(t) /\ thread[t].address \in Stubs
      /\ UNCHANGED <<registry, mutexes, loading, inits, accepted, ousted, overlapped, calls>>
      /\ stubs' \subseteq stubs /\ undefined' \in BOOLEAN
  BY UnregisterFacts
<1>3. ~Loading(t) /\ ~Loading(t)' /\ thread[t].at # "ask" /\ call.at # "ask"
  BY <1>1, <1>2 DEF Loading, Unregistering
<1>4. /\ calls' \in 0 .. MaxCalls /\ stubs' \subseteq Factories \X Stubs
      /\ loadedLibraries' \subseteq Libraries /\ supports' \subseteq Factories \X Addresses
      /\ opens' \in [Libraries -> Nat] /\ overlapped' \subseteq Threads
  BY <1>2 DEF loading, LockInv, TypeOK
<1> HIDE DEF Loading
<1> QED BY <1>1, <1>2, <1>3, <1>4, MoveLockAny DEF mutexes

LEMMA NextLock == LockInv /\ [Next]_vars => LockInv'
<1> SUFFICES ASSUME LockInv, [Next]_vars PROVE LockInv'
  OBVIOUS
<1>1. CASE UNCHANGED vars
  BY <1>1 DEF vars, registry, mutexes, loading, history, LockInv, TypeOK, MutexesOwned,
              LocalsValid, Loading, Unregistering
<1>2. CASE Next
  <2>1. PICK t \in Threads :
           \/ \E f \in Factories : RegisterFactory(t, f)
           \/ \E b \in Bindings : UnregisterFactory(t, b)
           \/ InitFactories(t)
           \/ \E a \in Addresses : Create(t, a)
           \/ \E a \in Stubs : CreateNothing(t, a) \/ UnregisterStub(t, a)
           \/ Step(t)
    BY <1>2 DEF Next
  <2>2. CASE Step(t)
    BY <2>2, HelperLock, LoadStepLock, RegisterLoadedLock, RestLock, UnregisterLock DEF Step
  <2> QED BY <2>1, <2>2, RegistrationLock, StartLock
<1> QED BY <1>1, <1>2

\* Every variable has its type; in particular, what the helpers read under
\* factoriesMutex_ is a factory.
THEOREM TypeCorrect == Spec => []TypeOK
<1>1. LockInv => TypeOK
  BY DEF LockInv
<1> QED BY <1>1, InitLock, NextLock, PTL DEF Spec

-----------------------------------------------------------------------------
(***************************************************************************)
(* The registry.  A factory is registered under its own binding, and one   *)
(* that is no longer registered is among the ousted ones.                  *)
(***************************************************************************)
RegistryInv ==
    /\ \A b \in DOMAIN factories : BindingOf[factories[b]] = b
    /\ defaultFactory # NoFactory => BindingOf[defaultFactory] = DefaultBinding

LEMMA AddFactoryRegistry ==
    ASSUME LockInv, RegistryInv, NEW f \in Factories, AddFactory(f)
    PROVE  /\ RegistryInv'
           /\ \A g \in Registered' : g \in Registered \/ (g = f /\ IsAccepted(f))
           /\ f \in Registered' \cup ousted'
           /\ Registered \cup ousted \subseteq Registered' \cup ousted'
<1>1. RegistryInv'
  BY MapWithFacts DEF AddFactory, RegistryInv, LockInv
<1>2. ASSUME NEW g \in Registered' PROVE g \in Registered \/ (g = f /\ IsAccepted(f))
  <2>1. CASE g = defaultFactory' /\ g # NoFactory
    BY <2>1 DEF AddFactory, IsAccepted, Registered
  <2>2. CASE g \in Range(factories')
    BY <2>2, MapWithFacts DEF AddFactory, Registered, Range, LockInv
  <2> QED BY <1>2, <2>1, <2>2 DEF Registered
<1>3. f \in Registered' \cup ousted'
  BY MapWithFacts, NamesAssumption DEF AddFactory, Registered, Range, LockInv, IsAccepted
<1>4. ASSUME NEW g \in Registered PROVE g \in Registered' \cup ousted'
  <2>1. CASE g = defaultFactory /\ g # NoFactory
    BY <2>1 DEF AddFactory, Registered
  <2>2. CASE g \in Range(factories)
    BY <2>2, MapWithFacts DEF AddFactory, Registered, Range, LockInv
  <2> QED BY <1>4, <2>1, <2>2 DEF Registered
<1>5. ousted \subseteq ousted'
  BY DEF AddFactory
<1> QED BY <1>1, <1>2, <1>3, <1>4, <1>5

LEMMA UnregisterFactoryRegistry ==
    ASSUME LockInv, RegistryInv, NEW t \in Threads, NEW b \in Bindings, UnregisterFactory(t, b)
    PROVE  /\ RegistryInv'
           /\ Registered' \subseteq Registered
           /\ Registered \cup ousted \subseteq Registered' \cup ousted'
<1>1. /\ DOMAIN factories' = DOMAIN factories \ {b}
      /\ \A c \in DOMAIN factories \ {b} : factories'[c] = factories[c]
  BY RestrictFacts DEF UnregisterFactory, LockInv, Restrict
<1>2. RegistryInv'
  BY <1>1 DEF UnregisterFactory, RegistryInv
<1>3. Registered' \subseteq Registered
  BY <1>1 DEF UnregisterFactory, Registered, Range
<1>4. ASSUME NEW g \in Registered PROVE g \in Registered' \cup ousted'
  <2>1. CASE BindingOf[g] = b
    BY <1>4, <2>1 DEF UnregisterFactory
  <2>2. CASE BindingOf[g] # b
    BY <1>1, <1>4, <2>2 DEF UnregisterFactory, Registered, Range, RegistryInv
  <2> QED BY <2>1, <2>2
<1>5. ousted \subseteq ousted'
  BY DEF UnregisterFactory
<1> QED BY <1>2, <1>3, <1>4, <1>5

\* The operations that change the registry, and what each of them does to it.
LEMMA RegistryChanges ==
    ASSUME LockInv, RegistryInv, [Next]_vars
    PROVE  \/ \E f \in Factories : AddFactory(f)
           \/ \E t \in Threads, b \in Bindings : UnregisterFactory(t, b)
           \/ InitAll
           \/ UNCHANGED <<registry, inits, accepted, ousted>>
<1>1. CASE UNCHANGED vars
  BY <1>1 DEF vars, history
<1>2. ASSUME NEW t \in Threads, Step(t)
      PROVE  ~RegisterLoaded(t) => (InitAll \/ UNCHANGED <<registry, inits, accepted, ousted>>)
  BY <1>2, UnregisterFacts
     DEF Step, CheckInitialized, InitFromCall, LockFactories, AskFactory, AskDefaultFactory,
         LockLoad, LoadLibrary, OpenFails, OpenSucceeds, InsertLoaded, Decide, UnlockLoad, Return,
         history
<1>3. ASSUME NEW t \in Threads, RegisterLoaded(t) PROVE \E f \in Factories : AddFactory(f)
  BY <1>3, NamesAssumption DEF RegisterLoaded, LockInv, TypeOK, Calls
<1>4. ASSUME NEW t \in Threads,
             \/ \E a \in Addresses : Create(t, a)
             \/ \E a \in Stubs : CreateNothing(t, a) \/ UnregisterStub(t, a)
      PROVE  UNCHANGED <<registry, inits, accepted, ousted>>
  BY <1>4 DEF Create, CreateNothing, UnregisterStub, history
<1>5. CASE Next
  BY <1>2, <1>3, <1>4, <1>5 DEF Next, RegisterFactory, InitFactories
<1> QED BY <1>1, <1>5

LEMMA InitRegistry == Init => RegistryInv
BY DEF Init, NoLibrary, RegistryInv

LEMMA NextRegistry == LockInv /\ RegistryInv /\ [Next]_vars => RegistryInv'
BY RegistryChanges, AddFactoryRegistry, UnregisterFactoryRegistry
   DEF InitAll, RegistryInv, registry

\* What a step does to the other threads: nothing.
LEMMA StepOthers ==
    ASSUME LockInv, NEW t \in Threads, Step(t)
    PROVE  \A u \in Threads \ {t} : thread'[u] = thread[u]
<1> SUFFICES ASSUME NEW u \in Threads \ {t} PROVE thread'[u] = thread[u]
  OBVIOUS
<1>1. thread \in [Threads -> Calls]
  BY DEF LockInv, TypeOK
<1>2. CASE UnregisterStep(t)
  BY <1>1, <1>2, UnregisterFacts
<1>3. CASE LockFactories(t)
  BY <1>1, <1>3 DEF LockFactories
<1>4. CASE AskFactory(t)
  BY <1>1, <1>4 DEF AskFactory, Served
<1>5. CASE AskDefaultFactory(t)
  BY <1>1, <1>5 DEF AskDefaultFactory, Served, Unserved, Goto
<1>6. CASE CheckInitialized(t) \/ InitFromCall(t) \/ LockLoad(t) \/ LoadLibrary(t)
  BY <1>1, <1>6 DEF Goto, CheckInitialized, InitFromCall, LockLoad, LoadLibrary
<1>7. CASE OpenFails(t) \/ OpenSucceeds(t) \/ RegisterLoaded(t) \/ InsertLoaded(t)
  <2>1. \/ \E at \in {"decide", "insert", "register"} : Goto(t, at)
        \/ InsertLoaded(t)
    BY <1>7 DEF OpenFails, OpenSucceeds, RegisterLoaded
  <2> QED BY <1>1, <2>1 DEF Goto, InsertLoaded
<1>8. CASE Decide(t) \/ UnlockLoad(t) \/ Return(t)
  BY <1>1, <1>8 DEF Goto, Decide, UnlockLoad, Return
<1> QED BY <1>2, <1>3, <1>4, <1>5, <1>6, <1>7, <1>8 DEF Step

-----------------------------------------------------------------------------
(***************************************************************************)
(* Initialisation.  isInitialized_ is never reset, a thread that has read  *)
(* it needs no lock to rely on it, and every factory that is registered    *)
(* when or after it is set is initialised, once per registration.          *)
(***************************************************************************)
\* The control points of a call that has not yet seen isInitialized_ set.
Uninitialized ==
    {"idle", "check", "init", "return", "unregister", "readDefault", "callDefault"}

InitBooks ==
    /\ \A f \in Factories : inits[f] <= accepted[f] /\ (~isInitialized => inits[f] = 0)
    /\ \A f \in Registered : accepted[f] > 0 /\ (isInitialized => inits[f] > 0)
    /\ \A t \in Threads : thread[t].at \notin Uninitialized => isInitialized

LEMMA RegisteredType == TypeOK => Registered \subseteq Factories
BY DEF TypeOK, Registered, Range

LEMMA InitInitBooks == Init => InitBooks
BY CallType DEF Init, InitBooks, Registered, Range, NoLibrary, Uninitialized

\* The counters, for each change of the registry.
LEMMA CountersNext ==
    ASSUME LockInv, RegistryInv, InitBooks, [Next]_vars
    PROVE  /\ \A f \in Factories : inits'[f] <= accepted'[f] /\ (~isInitialized' => inits'[f] = 0)
           /\ \A f \in Registered' : accepted'[f] > 0 /\ (isInitialized' => inits'[f] > 0)
           /\ isInitialized => isInitialized'
<1>a. Registered \subseteq Factories /\ isInitialized \in BOOLEAN
      /\ inits \in [Factories -> Nat] /\ accepted \in [Factories -> Nat]
  BY RegisteredType DEF LockInv, TypeOK
<1>1. ASSUME NEW f \in Factories, AddFactory(f)
      PROVE  /\ \A g \in Factories : inits'[g] <= accepted'[g] /\ (~isInitialized' => inits'[g] = 0)
             /\ \A g \in Registered' : accepted'[g] > 0 /\ (isInitialized' => inits'[g] > 0)
             /\ isInitialized => isInitialized'
  <2>1. /\ \A g \in Registered' : g \in Registered \/ (g = f /\ IsAccepted(f))
        /\ UNCHANGED isInitialized
        /\ inits' = InitedWith(f)
        /\ accepted' = IF IsAccepted(f) THEN [accepted EXCEPT ![f] = @ + 1] ELSE accepted
    BY <1>1, AddFactoryRegistry DEF AddFactory
  <2> QED BY <1>a, <2>1 DEF InitBooks, InitedWith
<1>2. ASSUME NEW t \in Threads, NEW b \in Bindings, UnregisterFactory(t, b)
      PROVE  /\ \A g \in Factories : inits'[g] <= accepted'[g] /\ (~isInitialized' => inits'[g] = 0)
             /\ \A g \in Registered' : accepted'[g] > 0 /\ (isInitialized' => inits'[g] > 0)
             /\ isInitialized => isInitialized'
  <2>1. Registered' \subseteq Registered /\ UNCHANGED <<isInitialized, inits, accepted>>
    BY <1>2, UnregisterFactoryRegistry DEF UnregisterFactory
  <2> QED BY <1>a, <2>1 DEF InitBooks
<1>3. CASE InitAll
  <2>1. Registered' = Registered
    BY <1>3 DEF InitAll, Registered
  <2> QED BY <1>3, <1>a, <2>1 DEF InitAll, AllInited, InitBooks, history
<1>4. CASE UNCHANGED <<registry, inits, accepted, ousted>>
  <2>1. Registered' = Registered
    BY <1>4 DEF registry, Registered
  <2> QED BY <1>4, <1>a, <2>1 DEF InitBooks, registry, history
<1> QED BY <1>1, <1>2, <1>3, <1>4, RegistryChanges

\* A thread is past its check of isInitialized_ only when that was set.
LEMMA PastCheckNext ==
    ASSUME LockInv, RegistryInv, InitBooks, [Next]_vars
    PROVE  \A t \in Threads : thread'[t].at \notin Uninitialized => isInitialized'
<1> SUFFICES ASSUME NEW u \in Threads, thread'[u].at \notin Uninitialized PROVE isInitialized'
  OBVIOUS
<1>1. isInitialized => isInitialized'
  BY CountersNext
<1>2. CASE thread'[u] = thread[u]
  BY <1>1, <1>2 DEF InitBooks
<1>3. CASE Step(u)
  <2>1. CASE thread[u].at \notin Uninitialized
    BY <1>1, <2>1 DEF InitBooks
  <2>2. CASE CheckInitialized(u)
    BY <1>1, <2>2 DEF CheckInitialized, Goto, LockInv, TypeOK, Calls, Uninitialized
  <2>3. CASE InitFromCall(u)
    BY <2>3 DEF InitFromCall, InitAll
  <2>4. CASE Return(u)
    BY <2>4, CallType DEF Return, LockInv, TypeOK, Uninitialized
  <2>5. CASE UnregisterStep(u)
    BY <2>5, UnregisterFacts DEF Uninitialized
  <2> QED BY <1>3, <2>1, <2>2, <2>3, <2>4, <2>5
          DEF Step, Uninitialized, LockFactories, AskFactory, AskDefaultFactory, LockLoad,
              LoadLibrary, OpenFails, OpenSucceeds, RegisterLoaded, InsertLoaded, Decide,
              UnlockLoad
<1>4. ASSUME NEW t \in Threads, NEW a \in Addresses,
             Create(t, a) \/ CreateNothing(t, a) \/ UnregisterStub(t, a)
      PROVE  thread'[u] = thread[u] \/ thread'[u].at \in Uninitialized
  BY <1>4 DEF Create, CreateNothing, UnregisterStub, Call, Uninitialized, LockInv, TypeOK
<1>5. ASSUME NEW t \in Threads, Step(t), t # u PROVE thread'[u] = thread[u]
  BY <1>5, StepOthers
<1>6. CASE Next
  BY <1>2, <1>3, <1>4, <1>5, <1>6, NamesAssumption
     DEF Next, RegisterFactory, UnregisterFactory, InitFactories
<1>7. CASE UNCHANGED vars
  BY <1>2, <1>7 DEF vars
<1> QED BY <1>6, <1>7

LEMMA NextInitBooks == LockInv /\ RegistryInv /\ InitBooks /\ [Next]_vars => InitBooks'
BY CountersNext, PastCheckNext DEF InitBooks

\* A factory is initialised at most once for each time it was registered, although the
\* check of isInitialized_ in createProxy() takes no lock.
THEOREM InitsCounted == Spec => []InitializedOnce
<1>1. InitBooks => InitializedOnce
  BY DEF InitBooks, InitializedOnce
<1> QED BY <1>1, InitLock, NextLock, InitRegistry, NextRegistry, InitInitBooks,
           NextInitBooks, PTL DEF Spec

\* The helpers ask initialised factories only.
THEOREM AskedInitialized == Spec => []AskedOnlyInitialized
<1>1. InitBooks => AskedOnlyInitialized
  BY DEF InitBooks, AskedOnlyInitialized, Uninitialized
<1> QED BY <1>1, InitLock, NextLock, InitRegistry, NextRegistry, InitInitBooks,
           NextInitBooks, PTL DEF Spec

-----------------------------------------------------------------------------
(***************************************************************************)
(* Where the threads are and come from.                                    *)
(***************************************************************************)
\* The steps that take a thread to a control point.
LEMMA Arrivals ==
    ASSUME LockInv, NEW t \in Threads, Step(t)
    PROVE  /\ thread'[t].at = "ask" => LockFactories(t) \/ AskFactory(t)
           /\ thread'[t].at = "open" => LoadLibrary(t)
           /\ thread'[t].at = "register" => OpenSucceeds(t)
           /\ thread'[t].at = "insert" => OpenSucceeds(t) \/ RegisterLoaded(t)
           /\ thread'[t].at = "decide" => LoadLibrary(t) \/ OpenFails(t) \/ InsertLoaded(t)
           /\ thread'[t].at = "unlockLoad" => AskFactory(t) \/ AskDefaultFactory(t) \/ Decide(t)
           /\ thread'[t].at = "return" =>
                 \/ AskFactory(t) \/ AskDefaultFactory(t) \/ UnlockLoad(t)
                 \/ UnregisterStep(t)
<1> USE DEF Goto, LockInv, TypeOK, Calls
<1>1. CASE CheckInitialized(t) \/ InitFromCall(t) \/ LockFactories(t) \/ LockLoad(t)
  BY <1>1 DEF CheckInitialized, InitFromCall, LockFactories, LockLoad
<1>2. CASE AskFactory(t) \/ AskDefaultFactory(t)
  <2>1. thread[t].at = "ask"
    BY <1>2 DEF AskFactory, AskDefaultFactory
  <2>2. thread'[t].at \in {"ask", "unlockLoad", "return", "lockLoad"}
    BY <1>2, <2>1 DEF AskFactory, AskDefaultFactory, Served, Unserved
  <2>3. AskDefaultFactory(t) => thread'[t].at # "ask"
    BY <2>1 DEF AskDefaultFactory, Served, Unserved
  <2> QED BY <1>2, <2>2, <2>3
<1>3. CASE LoadLibrary(t)
  <2>1. thread'[t].at \in {"open", "decide"}
    BY <1>3 DEF LoadLibrary
  <2> QED BY <1>3, <2>1
<1>7. CASE OpenFails(t)
  BY <1>7 DEF OpenFails
<1>8. CASE OpenSucceeds(t)
  <2>1. PICK at \in {"insert", "register"} : Goto(t, at)
    BY <1>8 DEF OpenSucceeds
  <2> QED BY <1>8, <2>1
<1>4. CASE RegisterLoaded(t) \/ InsertLoaded(t) \/ Decide(t) \/ UnlockLoad(t)
  BY <1>4 DEF RegisterLoaded, InsertLoaded, Decide, UnlockLoad
<1>5. CASE Return(t)
  BY <1>5, CallType DEF Return
<1>6. CASE UnregisterStep(t)
  <2>1. thread'[t].at \in {"unregister", "readDefault", "callDefault", "return"}
    BY <1>6, UnregisterFacts
  <2> QED BY <1>6, <2>1
<1> QED BY <1>1, <1>2, <1>3, <1>4, <1>5, <1>6, <1>7, <1>8 DEF Step

\* What the steps of a call do to its locals.
LEMMA StepLocals ==
    ASSUME LockInv, NEW t \in Threads, Step(t), ~Return(t)
    PROVE  /\ thread'[t].address = thread[t].address
           /\ thread[t].at # "decide" => thread'[t].useDefault = thread[t].useDefault
           /\ thread[t].at \notin {"load", "insert"} => thread'[t].loaded = thread[t].loaded
           /\ thread[t].at # "ask" /\ ~Unregistering(t) =>
                 thread'[t].servedBy = thread[t].servedBy
<1> USE DEF Goto, LockInv, TypeOK, Calls
<1>1. CASE CheckInitialized(t) \/ InitFromCall(t) \/ LockFactories(t) \/ LockLoad(t)
  BY <1>1 DEF CheckInitialized, InitFromCall, LockFactories, LockLoad
<1>2. CASE AskFactory(t) \/ AskDefaultFactory(t)
  BY <1>2 DEF AskFactory, AskDefaultFactory, Served, Unserved
<1>3. CASE LoadLibrary(t) \/ OpenFails(t) \/ OpenSucceeds(t)
  BY <1>3 DEF LoadLibrary, OpenFails, OpenSucceeds
<1>4. CASE RegisterLoaded(t) \/ InsertLoaded(t) \/ Decide(t) \/ UnlockLoad(t)
  BY <1>4 DEF RegisterLoaded, InsertLoaded, Decide, UnlockLoad
<1>6. CASE UnregisterStep(t)
  BY <1>6, UnregisterFacts
<1> QED BY <1>1, <1>2, <1>3, <1>4, <1>6 DEF Step

\* A call that has just begun, or is over, has tried nothing.
Fresh(call) ==
    /\ call.at \in {"idle", "check", "unregister", "return"}
    /\ ~call.useDefault /\ ~call.loaded /\ call.servedBy = NoFactory

\* A thread moves by a step of its own, by beginning or ending a call, or not at all.
LEMMA ThreadMoves ==
    ASSUME LockInv, [Next]_vars, NEW u \in Threads
    PROVE  \/ thread'[u] = thread[u]
           \/ Step(u) /\ ~Return(u) /\ thread[u].at # "return"
           \/ /\ thread[u].at \in {"idle", "return"} /\ Fresh(thread'[u])
              /\ UNCHANGED loading
<1>1. CASE UNCHANGED vars
  BY <1>1 DEF vars
<1>2. ASSUME NEW t \in Threads, NEW a \in Addresses,
             Create(t, a) \/ CreateNothing(t, a) \/ UnregisterStub(t, a)
      PROVE  \/ thread'[u] = thread[u]
             \/ thread[u].at = "idle" /\ Fresh(thread'[u]) /\ UNCHANGED loading
  BY <1>2 DEF Create, CreateNothing, UnregisterStub, StartCall, Call, Fresh, LockInv, TypeOK
<1>3. ASSUME Return(u)
      PROVE  thread[u].at = "return" /\ Fresh(thread'[u]) /\ UNCHANGED loading
  BY <1>3 DEF Return, Idle, Call, Fresh, LockInv, TypeOK
<1>4. CASE Step(u)
  <2>1. thread[u].at = "return" => Return(u)
    BY <1>4, UnregisterFacts
       DEF Step, CheckInitialized, InitFromCall, LockFactories, AskFactory, AskDefaultFactory,
           LockLoad, LoadLibrary, OpenFails, OpenSucceeds, RegisterLoaded, InsertLoaded, Decide,
           UnlockLoad, Unregistering
  <2> QED BY <1>3, <1>4, <2>1
<1>5. ASSUME NEW t \in Threads, Step(t), t # u PROVE thread'[u] = thread[u]
  BY <1>5, StepOthers
<1>6. CASE Next
  BY <1>2, <1>4, <1>5, <1>6, NamesAssumption
     DEF Next, RegisterFactory, UnregisterFactory, InitFactories
<1> QED BY <1>1, <1>6

\* The operations that change what is loaded.
LEMMA LoadingChanges ==
    ASSUME LockInv, [Next]_vars
    PROVE  \/ \E t \in Threads : OpenSucceeds(t) \/ InsertLoaded(t)
           \/ UNCHANGED loading
<1>1. ASSUME NEW t \in Threads, Step(t)
      PROVE  OpenSucceeds(t) \/ InsertLoaded(t) \/ UNCHANGED loading
  BY <1>1, UnregisterFacts
     DEF Step, CheckInitialized, InitFromCall, LockFactories, AskFactory, AskDefaultFactory,
         LockLoad, LoadLibrary, OpenFails, RegisterLoaded, Decide, UnlockLoad, Return, InitAll
<1> QED BY <1>1 DEF Next, vars, RegisterFactory, UnregisterFactory, InitFactories, InitAll,
                    Create, CreateNothing, UnregisterStub

-----------------------------------------------------------------------------
(***************************************************************************)
(* Loading.  A library is opened and recorded in two steps: in between     *)
(* only loadMutex_ keeps another thread from opening it again.             *)
(***************************************************************************)
\* The library of the thread's call; whether the thread has it open, but not recorded.
Library(t) == LibraryOf[thread[t].address]
Opening(t) == thread[t].at \in {"register", "insert"}

LoadInv ==
    /\ \A l \in Libraries :
          opens[l] = IF l \in loadedLibraries \/ \E t \in Threads : Opening(t) /\ Library(t) = l
                     THEN 1 ELSE 0
    /\ \A t \in Threads : thread[t].at = "open" \/ Opening(t) => Library(t) \notin loadedLibraries

LEMMA InitLoad == Init => LoadInv
BY CallType DEF Init, LoadInv, Opening

\* Only one thread at a time is between locking and unlocking loadMutex_.
LEMMA OneLoading ==
    ASSUME LockInv, NEW t \in Threads, NEW u \in Threads, Loading(t), Loading(u)
    PROVE  t = u
BY DEF LockInv, MutexesOwned

LEMMA LibraryType == ASSUME LockInv, NEW t \in Threads PROVE Library(t) \in Libraries
BY NamesAssumption DEF LockInv, TypeOK, Calls, Library

\* While no thread opens or records a library, a thread stays where it is with its library.
LEMMA QuietOpening ==
    ASSUME LockInv, LoadInv, [Next]_vars, UNCHANGED loading, NEW u \in Threads
    PROVE  /\ Opening(u)' <=> Opening(u)
           /\ Opening(u) => Library(u)' = Library(u)
           /\ thread'[u].at = "open" => Library(u)' \notin loadedLibraries
<1>1. CASE thread'[u] = thread[u]
  BY <1>1 DEF Opening, Library, LoadInv, loading
<1>2. CASE thread[u].at \in {"idle", "return"} /\ Fresh(thread'[u])
  BY <1>2 DEF Fresh, Opening
<1>3. CASE Step(u) /\ ~Return(u)
  <2>1. Library(u)' = Library(u)
    BY <1>3, StepLocals DEF Library
  <2>2. ~OpenSucceeds(u)
    BY LibraryType DEF OpenSucceeds, Library, loading, LockInv, TypeOK
  <2>3. InsertLoaded(u) => ~Opening(u)
    BY DEF InsertLoaded, Library, LoadInv, loading
  <2>4. RegisterLoaded(u) => Opening(u) /\ Opening(u)'
    BY DEF RegisterLoaded, Goto, Opening, LockInv, TypeOK, Calls
  <2>5. Opening(u) => RegisterLoaded(u) \/ InsertLoaded(u)
    BY <1>3, UnregisterFacts
       DEF Step, Opening, CheckInitialized, InitFromCall, LockFactories, AskFactory,
           AskDefaultFactory, LockLoad, LoadLibrary, OpenFails, OpenSucceeds, Decide, UnlockLoad,
           Unregistering
  <2>6. Opening(u)' => RegisterLoaded(u)
    BY <1>3, <2>2, Arrivals DEF Opening
  <2>7. LoadLibrary(u) /\ thread'[u].at = "open" => Library(u) \notin loadedLibraries
    BY DEF LoadLibrary, Library, LockInv, TypeOK, Calls
  <2> QED BY <1>3, <2>1, <2>3, <2>4, <2>5, <2>6, <2>7, Arrivals
<1> QED BY <1>1, <1>2, <1>3, ThreadMoves

LEMMA OpenSucceedsLoad ==
    ASSUME LockInv, LoadInv, NEW t \in Threads, OpenSucceeds(t)
    PROVE  LoadInv'
<1>1. /\ \A u \in Threads \ {t} : thread'[u] = thread[u]
      /\ ~Opening(t) /\ Opening(t)' /\ Library(t)' = Library(t)
      /\ Library(t) \notin loadedLibraries /\ Library(t) \in Libraries
  <2>1. PICK at \in {"insert", "register"} : Goto(t, at)
    BY DEF OpenSucceeds
  <2>2. thread[t].at = "open"
    BY DEF OpenSucceeds
  <2> QED BY <2>1, <2>2, GotoFacts, LibraryType DEF LockInv, LoadInv, Opening, Library
<1>2. \A u \in Threads \ {t} : ~Opening(u) /\ thread[u].at # "open"
  BY OneLoading DEF OpenSucceeds, Loading, Opening
<1>3. /\ loadedLibraries' = loadedLibraries
      /\ opens' = [opens EXCEPT ![Library(t)] = @ + 1]
  BY DEF OpenSucceeds, Library
<1>4. \A u \in Threads \ {t} :
         (Opening(u)' <=> Opening(u)) /\ (thread'[u].at = "open" <=> thread[u].at = "open")
  BY <1>1 DEF Opening
<1>5. ASSUME NEW l \in Libraries
      PROVE  opens'[l] = IF l \in loadedLibraries \/ \E u \in Threads : Opening(u)' /\ Library(u)' = l
                         THEN 1 ELSE 0
  <2>1. CASE l = Library(t)
    <3>1. opens[l] = 0
      BY <1>1, <1>2, <2>1 DEF LoadInv
    <3> QED BY <1>1, <1>3, <2>1, <3>1 DEF LockInv, TypeOK
  <2>2. CASE l # Library(t)
    BY <1>1, <1>2, <1>3, <1>4, <2>2 DEF LoadInv, LockInv, TypeOK
  <2> QED BY <2>1, <2>2
<1> QED BY <1>1, <1>2, <1>3, <1>4, <1>5 DEF LoadInv, Opening

LEMMA InsertLoadedLoad ==
    ASSUME LockInv, LoadInv, NEW t \in Threads, InsertLoaded(t)
    PROVE  LoadInv'
<1>1. /\ \A u \in Threads \ {t} : thread'[u] = thread[u]
      /\ thread[t].at = "insert" /\ thread'[t].at = "decide"
  BY DEF InsertLoaded, LockInv, TypeOK, Calls
<1>2. \A u \in Threads \ {t} : ~Opening(u) /\ thread[u].at # "open"
  BY OneLoading DEF InsertLoaded, Loading, Opening
<1>3. \A u \in Threads : ~Opening(u)' /\ thread'[u].at # "open"
  BY <1>1, <1>2 DEF Opening
<1>4. loadedLibraries' = loadedLibraries \cup {Library(t)} /\ opens' = opens
  BY DEF InsertLoaded, Library
<1>5. Opening(t)
  BY <1>1 DEF Opening
<1> QED BY <1>2, <1>3, <1>4, <1>5 DEF LoadInv

LEMMA NextLoad == LockInv /\ LoadInv /\ [Next]_vars => LoadInv'
<1> SUFFICES ASSUME LockInv, LoadInv, [Next]_vars PROVE LoadInv'
  OBVIOUS
<1>1. CASE UNCHANGED loading
  <2>1. opens' = opens /\ loadedLibraries' = loadedLibraries
    BY <1>1 DEF loading
  <2>2. \A u \in Threads : /\ Opening(u)' <=> Opening(u)
                           /\ Opening(u) => Library(u)' = Library(u)
                           /\ thread'[u].at = "open" => Library(u)' \notin loadedLibraries
    BY <1>1, QuietOpening
  <2>3. \A l : (\E u \in Threads : Opening(u)' /\ Library(u)' = l)
                  <=> (\E u \in Threads : Opening(u) /\ Library(u) = l)
    BY <2>2
  <2> QED BY <2>1, <2>2, <2>3 DEF LoadInv
<1> QED BY <1>1, LoadingChanges, OpenSucceedsLoad, InsertLoadedLoad

\* A library is opened at most once, however many threads build proxies of it.
THEOREM LibrariesOpenedOnce == Spec => []OpenedOnce
<1>1. LoadInv => OpenedOnce
  BY DEF LoadInv, OpenedOnce
<1> QED BY <1>1, InitLock, NextLock, InitLoad, NextLoad, PTL DEF Spec

-----------------------------------------------------------------------------
(***************************************************************************)
(* Serving.  A library that is open has given its addresses to its factory *)
(* and, but for the moment before it registers, the factory to the Runtime.*)
(***************************************************************************)
Accounted(f) == f \in Registered \cup ousted
Registering(t) == thread[t].at = "register"

ServeInv ==
    /\ \A f \in Factories, a \in Addresses :
          <<f, a>> \in supports \ Linked =>
             Accounted(f) \/ \E t \in Threads : Registering(t) /\ FactoryOf[Library(t)] = f
    /\ \A l \in Libraries : opens[l] > 0 =>
          /\ \A a \in Addresses : LibraryOf[a] = l => <<FactoryOf[l], a>> \in supports
          /\ Accounted(FactoryOf[l]) \/ \E t \in Threads : Registering(t) /\ Library(t) = l

LEMMA InitServe == Init => ServeInv
BY DEF Init, ServeInv

LEMMA AccountedStable ==
    ASSUME LockInv, RegistryInv, [Next]_vars, NEW f, Accounted(f)
    PROVE  Accounted(f)'
<1>1. CASE InitAll \/ UNCHANGED <<registry, inits, accepted, ousted>>
  BY <1>1 DEF InitAll, Accounted, Registered, registry, history
<1> QED BY <1>1, RegistryChanges, AddFactoryRegistry, UnregisterFactoryRegistry DEF Accounted

\* A library that is about to register its factory does so next.
LEMMA RegisteringStays ==
    ASSUME LockInv, [Next]_vars, NEW u \in Threads, Registering(u)
    PROVE  thread'[u] = thread[u] \/ RegisterLoaded(u)
BY ThreadMoves, UnregisterFacts
   DEF Registering, Step, CheckInitialized, InitFromCall, LockFactories, AskFactory,
       AskDefaultFactory, LockLoad, LoadLibrary, OpenFails, OpenSucceeds, InsertLoaded, Decide,
       UnlockLoad, Unregistering

LEMMA OpenSucceedsServe ==
    ASSUME LockInv, RegistryInv, ServeInv, NEW t \in Threads, OpenSucceeds(t), [Next]_vars
    PROVE  ServeInv'
<1>l. PICK l \in Libraries : l = Library(t)
  BY LibraryType
<1> DEFINE isKnown == \E a \in Addresses : <<FactoryOf[l], a>> \in supports \ Linked
<1>a. FactoryOf[l] \in Factories
  BY NamesAssumption
<1>b. \A u \in Threads : ~Registering(u)
  BY OneLoading DEF OpenSucceeds, Loading, Registering
<1>c. /\ opens' = [opens EXCEPT ![l] = @ + 1]
      /\ supports' = supports \cup {<<FactoryOf[l], a>> : a \in {x \in Addresses : LibraryOf[x] = l}}
      /\ Goto(t, IF isKnown THEN "insert" ELSE "register")
  BY <1>l DEF OpenSucceeds, Library
<1>1. Accounted(FactoryOf[l])' \/ (Registering(t)' /\ Library(t)' = l)
  <2>1. CASE isKnown
    BY <1>a, <1>b, <2>1, AccountedStable DEF ServeInv
  <2>2. CASE ~isKnown
    <3>1. Goto(t, "register")
      BY <1>c, <2>2
    <3> QED BY <1>l, <3>1, GotoFacts DEF LockInv, Registering, Library
  <2> QED BY <2>1, <2>2
<1>2. ASSUME NEW f \in Factories, NEW a \in Addresses, <<f, a>> \in supports' \ Linked
      PROVE  Accounted(f)' \/ \E u \in Threads : Registering(u)' /\ FactoryOf[Library(u)'] = f
  <2>1. CASE <<f, a>> \in supports
    BY <1>2, <1>b, <2>1, AccountedStable DEF ServeInv
  <2>2. CASE f = FactoryOf[l]
    BY <1>1, <2>2
  <2> QED BY <1>2, <1>c, <2>1, <2>2
<1>3. ASSUME NEW k \in Libraries, opens'[k] > 0
      PROVE  /\ \A a \in Addresses : LibraryOf[a] = k => <<FactoryOf[k], a>> \in supports'
             /\ Accounted(FactoryOf[k])' \/ \E u \in Threads : Registering(u)' /\ Library(u)' = k
  <2>1. CASE k = l
    BY <1>1, <1>c, <2>1
  <2>2. CASE k # l
    <3>1. opens[k] > 0
      BY <1>3, <1>c, <2>2 DEF LockInv, TypeOK
    <3> QED BY <1>b, <1>c, <3>1, AccountedStable DEF ServeInv
  <2> QED BY <2>1, <2>2
<1> QED BY <1>2, <1>3 DEF ServeInv

LEMMA NextServe ==
    LockInv /\ RegistryInv /\ ServeInv /\ [Next]_vars => ServeInv'
<1> SUFFICES ASSUME LockInv, RegistryInv, ServeInv, [Next]_vars PROVE ServeInv'
  OBVIOUS
<1>1. CASE \E t \in Threads : OpenSucceeds(t)
  BY <1>1, OpenSucceedsServe
<1>2. CASE UNCHANGED <<supports, opens>>
  <2>1. ASSUME NEW f \in Factories, NEW u \in Threads, Registering(u), FactoryOf[Library(u)] = f
        PROVE  Accounted(f)' \/ (Registering(u)' /\ Library(u)' = Library(u))
    <3>1. CASE RegisterLoaded(u)
      <4>1. AddFactory(f)
        BY <2>1, <3>1 DEF RegisterLoaded, Library
      <4> QED BY <4>1, AddFactoryRegistry DEF Accounted
    <3>2. CASE thread'[u] = thread[u]
      BY <2>1, <3>2 DEF Registering, Library
    <3> QED BY <2>1, <3>1, <3>2, RegisteringStays
  <2>2. \A l \in Libraries : FactoryOf[l] \in Factories
    BY NamesAssumption
  <2>3. ASSUME NEW f \in Factories, NEW a \in Addresses, <<f, a>> \in supports' \ Linked
        PROVE  Accounted(f)' \/ \E u \in Threads : Registering(u)' /\ FactoryOf[Library(u)'] = f
    BY <1>2, <2>1, <2>3, AccountedStable DEF ServeInv
  <2>4. ASSUME NEW l \in Libraries, opens'[l] > 0
        PROVE  /\ \A a \in Addresses : LibraryOf[a] = l => <<FactoryOf[l], a>> \in supports'
               /\ Accounted(FactoryOf[l])' \/ \E u \in Threads : Registering(u)' /\ Library(u)' = l
    BY <1>2, <2>1, <2>2, <2>4, AccountedStable DEF ServeInv
  <2> QED BY <2>3, <2>4 DEF ServeInv
<1> QED BY <1>1, <1>2, LoadingChanges DEF loading, InsertLoaded

\* A recorded library is open, and its factory has been registered.
LEMMA RecordedServed ==
    ASSUME LockInv, LoadInv, ServeInv, NEW l \in loadedLibraries
    PROVE  /\ \A a \in Addresses : LibraryOf[a] = l => <<FactoryOf[l], a>> \in supports
           /\ Accounted(FactoryOf[l])
<1>1. l \in Libraries /\ opens[l] > 0
  BY DEF LockInv, TypeOK, LoadInv
<1>2. \A t \in Threads : Registering(t) => Library(t) # l
  BY DEF LoadInv, Opening, Registering
<1> QED BY <1>1, <1>2 DEF ServeInv

-----------------------------------------------------------------------------
(***************************************************************************)
(* The second try.  A thread uses the default factory when the library of  *)
(* its address is recorded or absent; then, while it holds both mutexes,   *)
(* the factories before its cursor cannot create the proxy.                *)
(***************************************************************************)
TriedInv ==
    \A t \in Threads :
        /\ thread[t].loaded => Library(t) \in loadedLibraries
        /\ thread[t].useDefault \/ thread[t].at = "decide" =>
              Library(t) \in loadedLibraries \/ Library(t) \notin Present

LEMMA InitTried == Init => TriedInv
BY DEF Init, TriedInv, Idle, Call

LEMMA LibrariesStay ==
    ASSUME LockInv, [Next]_vars
    PROVE  loadedLibraries \subseteq loadedLibraries'
BY LoadingChanges DEF OpenSucceeds, InsertLoaded, loading

LEMMA NextTried == LockInv /\ TriedInv /\ [Next]_vars => TriedInv'
<1> SUFFICES ASSUME LockInv, TriedInv, [Next]_vars, NEW u \in Threads
             PROVE  /\ thread'[u].loaded => Library(u)' \in loadedLibraries'
                    /\ thread'[u].useDefault \/ thread'[u].at = "decide" =>
                          Library(u)' \in loadedLibraries' \/ Library(u)' \notin Present
  BY DEF TriedInv
<1>1. CASE thread'[u] = thread[u]
  BY <1>1, LibrariesStay DEF TriedInv, Library
<1>2. CASE Fresh(thread'[u])
  BY <1>2 DEF Fresh
<1>3. CASE Step(u) /\ ~Return(u)
  <2>1. Library(u)' = Library(u)
    BY <1>3, StepLocals DEF Library
  <2>2. ASSUME LoadLibrary(u)
        PROVE  /\ thread'[u].loaded => Library(u) \in loadedLibraries
               /\ thread'[u].at = "decide" => Library(u) \in loadedLibraries
    BY <2>2 DEF LoadLibrary, Library, TriedInv, LockInv, TypeOK, Calls
  <2>3. ASSUME InsertLoaded(u) PROVE Library(u) \in loadedLibraries'
    BY <2>3 DEF InsertLoaded, Library
  <2>4. ASSUME thread[u].at \in {"load", "insert"} PROVE LoadLibrary(u) \/ InsertLoaded(u)
    BY <1>3, <2>4, UnregisterFacts
       DEF Step, CheckInitialized, InitFromCall, LockFactories, AskFactory, AskDefaultFactory,
           LockLoad, OpenFails, OpenSucceeds, RegisterLoaded, Decide, UnlockLoad, Unregistering
  <2>5. thread'[u].loaded => Library(u) \in loadedLibraries'
    BY <1>3, <2>2, <2>3, <2>4, StepLocals, LibrariesStay DEF TriedInv
  <2>6. OpenFails(u) => Library(u) \notin Present
    BY DEF OpenFails, Library
  <2>7. ASSUME thread'[u].at = "decide"
        PROVE  Library(u) \in loadedLibraries' \/ Library(u) \notin Present
    BY <1>3, <2>2, <2>3, <2>6, <2>7, Arrivals, LibrariesStay
  <2>8. ASSUME thread'[u].useDefault
        PROVE  Library(u) \in loadedLibraries' \/ Library(u) \notin Present
    BY <1>3, <2>8, StepLocals, LibrariesStay DEF TriedInv
  <2> QED BY <2>1, <2>5, <2>7, <2>8
<1> QED BY <1>1, <1>2, <1>3, ThreadMoves

AskedInv ==
    \A t \in Threads :
        (thread[t].at = "ask" /\ thread[t].useDefault /\ thread[t].address \notin Stubs) =>
            \A b \in DOMAIN factories :
                thread[t].cursor = AtDefault \/ b < thread[t].cursor =>
                    ~Serves(factories[b], thread[t].address)

\* Nothing changes under a thread that holds factoriesMutex_ on its second try.
LEMMA HeldStill ==
    ASSUME LockInv, RegistryInv, [Next]_vars,
           NEW t \in Threads, thread[t].at = "ask", thread[t].useDefault
    PROVE  UNCHANGED <<registry, supports>>
<1>1. factoriesMutex # NoThread
  BY NamesAssumption DEF LockInv, MutexesOwned
<1>2. UNCHANGED registry
  BY <1>1, RegistryChanges DEF AddFactory, UnregisterFactory, InitAll
<1>3. \A u \in Threads : ~OpenSucceeds(u)
  BY OneLoading DEF OpenSucceeds, Loading
<1> QED BY <1>2, <1>3, LoadingChanges DEF InsertLoaded, loading

\* No stub takes an address of a proxy, so that only supports decides who creates it.
LEMMA ProxyServes ==
    ASSUME TypeOK, NEW f, NEW a \in Addresses \ Stubs
    PROVE  Serves(f, a) <=> <<f, a>> \in supports
BY DEF TypeOK, Serves

LEMMA NextAsked ==
    ASSUME LockInv, RegistryInv, AskedInv, [Next]_vars
    PROVE  AskedInv'
<1> SUFFICES ASSUME NEW u \in Threads, thread'[u].at = "ask", thread'[u].useDefault,
                    thread'[u].address \notin Stubs, NEW b \in DOMAIN factories',
                    thread'[u].cursor = AtDefault \/ b < thread'[u].cursor
             PROVE  ~Serves(factories[b], thread[u].address)'
  BY DEF AskedInv
<1>a. LockInv'
  BY NextLock
<1>b. thread[u].address \in Addresses /\ thread'[u].address \in Addresses
  BY <1>a DEF LockInv, TypeOK, Calls
<1>1. ASSUME UNCHANGED <<registry, supports>>, thread'[u].address = thread[u].address,
             ~Serves(factories[b], thread[u].address)
      PROVE  ~Serves(factories[b], thread[u].address)'
  <2>1. <<factories[b], thread[u].address>> \notin supports
    BY <1>1, <1>b, ProxyServes DEF LockInv
  <2> QED BY <1>1, <2>1 DEF Serves, registry
<1>2. CASE thread'[u] = thread[u]
  BY <1>1, <1>2, HeldStill DEF AskedInv, registry
<1>3. CASE LockFactories(u)
  <2>1. PICK c \in Bindings \cup {AtDefault} :
           /\ CursorFrom(0, c)
           /\ thread' = [thread EXCEPT ![u].at = "ask", ![u].cursor = c]
    BY <1>3 DEF LockFactories
  <2>2. thread'[u].cursor = c /\ factories' = factories
    BY <1>3, <2>1 DEF LockFactories, registry, LockInv, TypeOK, Calls
  <2>3. \A k \in DOMAIN factories : (c = AtDefault \/ k < c) => k < 0
    BY <2>1, CursorFromFacts DEF LockInv
  <2>4. b \in Nat
    BY <2>2, NamesAssumption DEF LockInv, TypeOK
  <2> QED BY <2>2, <2>3, <2>4
<1>4. CASE Step(u) /\ AskFactory(u)
  <2> DEFINE at == thread[u].cursor
  <2>1. /\ thread[u].at = "ask" /\ at \in DOMAIN factories /\ at \in Nat /\ at + 1 \in Nat
        /\ UNCHANGED <<registry, supports>>
    BY <1>4, CursorType DEF AskFactory, loading, LockInv, LocalsValid, TypeOK
  <2>2. thread'[u].useDefault = thread[u].useDefault /\ thread'[u].address = thread[u].address
    BY <1>4, <2>1, StepLocals DEF Return
  <2>3. PICK c \in Bindings \cup {AtDefault} :
           /\ ~Serves(factories[at], thread[u].address)
           /\ CursorFrom(at + 1, c)
           /\ thread' = [thread EXCEPT ![u].cursor = c]
    BY <1>4, <2>1 DEF AskFactory, Served, LockInv, TypeOK, Calls
  <2>4. thread'[u].cursor = c
    BY <2>3 DEF LockInv, TypeOK, Calls
  <2>5. b < at + 1 /\ b \in Nat
    BY <2>1, <2>3, <2>4, CursorFromFacts, NamesAssumption DEF LockInv, TypeOK, registry
  <2>6. CASE b = at
    BY <1>1, <2>1, <2>2, <2>3, <2>6
  <2>7. CASE b < at
    BY <1>1, <2>1, <2>2, <2>7 DEF AskedInv, registry
  <2> QED BY <2>1, <2>5, <2>6, <2>7
<1> QED BY <1>2, <1>3, <1>4, ThreadMoves, Arrivals DEF Fresh

\* The factory that creates a proxy on the second try is the default one only when the
\* library was tried and no other factory can create it.
LEMMA LastResortStep ==
    ASSUME LockInv, RegistryInv, TriedInv, AskedInv, [Next]_vars, NEW t \in Threads,
           thread'[t].servedBy # thread[t].servedBy,
           thread'[t].servedBy \in Factories \cap {defaultFactory},
           thread[t].address \notin Stubs
    PROVE  /\ LibraryOf[thread[t].address] \in loadedLibraries
                 \/ LibraryOf[thread[t].address] \notin Present
           /\ \A b \in DOMAIN factories : ~Serves(factories[b], thread[t].address)
<1>1. Step(t) /\ ~Return(t) /\ (thread[t].at = "ask" \/ Unregistering(t))
  BY ThreadMoves, StepLocals, NamesAssumption DEF Fresh
<1>2. thread[t].at = "ask"
  BY <1>1 DEF LockInv, LocalsValid
<1>3. AskFactory(t) \/ AskDefaultFactory(t)
  BY <1>1, <1>2, UnregisterFacts
     DEF Step, CheckInitialized, InitFromCall, LockFactories, LockLoad, LoadLibrary, OpenFails,
         OpenSucceeds, RegisterLoaded, InsertLoaded, Decide, UnlockLoad, Return, Unregistering
<1>4. ~AskFactory(t)
  <2>1. SUFFICES ASSUME AskFactory(t) PROVE FALSE
    OBVIOUS
  <2>2. thread[t].cursor \in DOMAIN factories
    BY <2>1 DEF AskFactory, LockInv, LocalsValid
  <2>3. thread'[t].servedBy = factories[thread[t].cursor]
    BY <2>1 DEF AskFactory, Served, LockInv, TypeOK, Calls
  <2> QED BY <2>2, <2>3, NamesAssumption DEF RegistryInv, LockInv, TypeOK
<1>5. DefaultServes(t) /\ thread[t].cursor = AtDefault
  <2>1. ~DefaultServes(t) => thread'[t].servedBy = thread[t].servedBy
    BY <1>3, <1>4 DEF AskDefaultFactory, Unserved, Goto, LockInv, TypeOK, Calls
  <2> QED BY <1>3, <1>4, <2>1 DEF AskDefaultFactory
<1> QED BY <1>2, <1>5 DEF DefaultServes, TriedInv, AskedInv, Library

(***************************************************************************)
(* A call that gave up although its library was loaded.                    *)
(***************************************************************************)
GaveUpInv ==
    \A t \in Threads :
        (/\ thread[t].at \in {"unlockLoad", "return"}
         /\ thread[t].loaded /\ thread[t].servedBy = NoFactory /\ thread[t].address \notin Stubs)
            => FactoryOf[Library(t)] \in ousted

LEMMA InitGaveUp == Init => GaveUpInv /\ AskedInv
BY CallType DEF Init, GaveUpInv, AskedInv

LEMMA OustedStay ==
    ASSUME LockInv, RegistryInv, [Next]_vars
    PROVE  ousted \subseteq ousted'
BY RegistryChanges DEF AddFactory, UnregisterFactory, InitAll, history

\* The last factory did not serve the second try: the library's own was not among them.
LEMMA NobodyServes ==
    ASSUME LockInv, LoadInv, ServeInv, TriedInv, AskedInv, NEW t \in Threads,
           thread[t].at = "ask", thread[t].cursor = AtDefault, thread[t].useDefault,
           thread[t].loaded, thread[t].address \notin Stubs, ~DefaultServes(t)
    PROVE  FactoryOf[Library(t)] \in ousted
<1> DEFINE f == FactoryOf[Library(t)]
<1>1. /\ Library(t) \in loadedLibraries
      /\ thread[t].address \in Addresses \ Stubs /\ LibraryOf[thread[t].address] = Library(t)
  BY DEF TriedInv, LockInv, TypeOK, Calls, Library
<1>2. <<f, thread[t].address>> \in supports /\ Accounted(f)
  BY <1>1, RecordedServed
<1>3. Serves(f, thread[t].address)
  BY <1>1, <1>2, ProxyServes DEF LockInv
<1>4. f # defaultFactory \/ defaultFactory = NoFactory
  BY <1>3 DEF DefaultServes
<1>5. f \notin Range(factories)
  BY <1>3 DEF AskedInv, Range
<1> QED BY <1>2, <1>4, <1>5 DEF Accounted, Registered

LEMMA NextGaveUp ==
    ASSUME LockInv, RegistryInv, LoadInv, ServeInv, TriedInv, AskedInv, GaveUpInv, [Next]_vars
    PROVE  GaveUpInv'
<1> SUFFICES ASSUME NEW u \in Threads, thread'[u].at \in {"unlockLoad", "return"},
                    thread'[u].loaded, thread'[u].servedBy = NoFactory,
                    thread'[u].address \notin Stubs
             PROVE  FactoryOf[Library(u)'] \in ousted'
  BY DEF GaveUpInv
<1>1. CASE thread'[u] = thread[u]
  BY <1>1, OustedStay DEF GaveUpInv, Library
<1>2. CASE Step(u) /\ ~Return(u)
  <2>1. Library(u)' = Library(u) /\ thread[u].address \notin Stubs
    BY <1>2, StepLocals DEF Library
  <2>2. CASE AskFactory(u)
    <3>1. factories[thread[u].cursor] \in Factories /\ thread[u].at = "ask"
      BY <2>2 DEF AskFactory, LockInv, LocalsValid, TypeOK
    <3>2. Served(u, factories[thread[u].cursor])
      BY <2>2, <3>1 DEF AskFactory, LockInv, TypeOK, Calls
    <3>3. thread'[u].servedBy = factories[thread[u].cursor]
      BY <3>2 DEF Served, LockInv, TypeOK, Calls
    <3> QED BY <3>1, <3>3, NamesAssumption
  <2>3. CASE AskDefaultFactory(u)
    <3>1. thread[u].at = "ask" /\ thread[u].cursor = AtDefault
          /\ thread[u].loaded /\ thread'[u].useDefault = thread[u].useDefault
      BY <1>2, <2>3, StepLocals DEF AskDefaultFactory
    <3>2. ~DefaultServes(u)
      <4>1. ASSUME DefaultServes(u) PROVE thread'[u].servedBy = defaultFactory
        BY <2>3, <4>1 DEF AskDefaultFactory, Served, LockInv, TypeOK, Calls
      <4> QED BY <4>1 DEF DefaultServes
    <3>3. thread[u].useDefault
      BY <2>3, <3>2 DEF AskDefaultFactory, Unserved, Goto, LockInv, TypeOK, Calls
    <3> QED BY <2>1, <3>1, <3>2, <3>3, NobodyServes, OustedStay
  <2>4. CASE Decide(u)
    BY <1>2, <2>4, StepLocals DEF Decide, TriesAgain, LockInv, TypeOK, Calls
  <2>5. CASE UnlockLoad(u)
    BY <1>2, <2>1, <2>5, StepLocals, OustedStay DEF UnlockLoad, Unregistering, GaveUpInv
  <2>6. CASE UnregisterStep(u)
    BY <2>1, <2>6, UnregisterFacts
  <2> QED BY <1>2, <2>2, <2>3, <2>4, <2>5, <2>6, Arrivals
<1> QED BY <1>1, <1>2, ThreadMoves DEF Fresh

(***************************************************************************)
(* The inductive invariant of the second try, and what follows from it.    *)
(***************************************************************************)
TryInv ==
    /\ LockInv /\ RegistryInv /\ LoadInv /\ ServeInv
    /\ TriedInv /\ AskedInv /\ GaveUpInv

LEMMA InitTry == Init => TryInv
BY InitLock, InitRegistry, InitLoad, InitServe, InitTried, InitGaveUp DEF TryInv

LEMMA NextTry == TryInv /\ [Next]_vars => TryInv'
BY NextLock, NextRegistry, NextLoad, NextServe, NextTried, NextAsked, NextGaveUp DEF TryInv

\* createProxy() of an address whose library was loaded, by whichever thread, fails
\* only if the factory of the library was refused, replaced or unregistered.
THEOREM LoadedServed == Spec => []LoadedMeansServed
<1>1. TryInv => LoadedMeansServed
  BY DEF TryInv, GaveUpInv, LoadedMeansServed, Library
<1> QED BY <1>1, InitTry, NextTry, PTL DEF Spec

\* The default factory creates a proxy only after the library of the address was tried,
\* and when no other registered factory can create it.
THEOREM DefaultLast == Spec => DefaultIsLastResort
<1>1. TryInv /\ [Next]_vars =>
         [\A t \in Threads :
             LET f == thread'[t].servedBy
                 a == thread[t].address
             IN  (f # thread[t].servedBy /\ f \in Factories \cap {defaultFactory} /\ a \notin Stubs) =>
                    /\ LibraryOf[a] \in loadedLibraries \/ LibraryOf[a] \notin Present
                    /\ \A b \in DOMAIN factories : ~Serves(factories[b], a)]_vars
  BY LastResortStep DEF TryInv
<1> QED BY <1>1, InitTry, NextTry, PTL DEF Spec, DefaultIsLastResort

-----------------------------------------------------------------------------
(***************************************************************************)
(* unregisterStub() without a lock.  While nobody else changes the         *)
(* factories, its iterator stays on an element, defaultFactory_ does not   *)
(* become null between its check and its use, and the factory that was     *)
(* read stays the default one.                                             *)
(***************************************************************************)
Valid(t) ==
    /\ Iterating(t) => thread[t].cursor \in DOMAIN factories
    /\ thread[t].at = "readDefault" => defaultFactory # NoFactory
    /\ thread[t].at = "callDefault" => thread[t].factory = defaultFactory

OverlapInv ==
    /\ \A t \in Threads \ overlapped : Valid(t)
    /\ undefined => \E t \in overlapped : Unregistering(t)

LEMMA InitOverlap == Init => OverlapInv
BY CallType DEF Init, OverlapInv, Valid, Iterating

\* A step that leaves the threads where they are, and lists those in unregisterStub()
\* when it changes the factories.
LEMMA OverlapListed ==
    ASSUME LockInv, OverlapInv, Overlap,
           \A u \in Threads : Unregistering(u) => thread'[u] = thread[u],
           \A u \in Threads : Unregistering(u)' => Unregistering(u)
    PROVE  OverlapInv'
<1>1. \A u \in Threads : Unregistering(u)' <=> Unregistering(u)
  BY DEF Unregistering
<1>2. overlapped \subseteq overlapped' /\ overlapped \subseteq Threads
      /\ overlapped' \subseteq Threads
  BY DEF Overlap, LockInv, TypeOK
<1>3. ASSUME NEW u \in Threads \ overlapped' PROVE Valid(u)'
  <2>1. CASE Unregistering(u)
    <3>1. factories' = factories /\ defaultFactory' = defaultFactory /\ thread'[u] = thread[u]
      BY <1>3, <2>1 DEF Overlap
    <3>2. Valid(u)
      BY <1>2, <1>3 DEF OverlapInv
    <3> QED BY <3>1, <3>2 DEF Valid, Iterating
  <2>2. CASE ~Unregistering(u)
    <3>1. ~Unregistering(u)'
      BY <1>3, <2>2
    <3> QED BY <3>1 DEF Valid, Iterating, Unregistering
  <2> QED BY <2>1, <2>2
<1>4. ASSUME undefined' PROVE \E u \in overlapped' : Unregistering(u)'
  <2>1. CASE undefined
    BY <1>1, <1>2, <2>1 DEF OverlapInv
  <2>2. CASE factories' # factories /\ \E u \in Threads : Iterating(u)
    <3>1. PICK u \in Threads : Iterating(u)
      BY <2>2
    <3>2. Unregistering(u) /\ u \in overlapped'
      BY <2>2, <3>1 DEF Overlap, Iterating, Unregistering
    <3> QED BY <1>1, <3>2
  <2> QED BY <1>4, <2>1, <2>2 DEF Overlap
<1> QED BY <1>3, <1>4 DEF OverlapInv

\* Where unregisterStub() starts, and where the default factory is checked and read, it
\* is as valid as the factories are then.
LEMMA UnregisterValid ==
    ASSUME LockInv, NEW t \in Threads, UnregisterStep(t), Valid(t)
    PROVE  Valid(t)' /\ undefined' = undefined
<1>a. /\ thread[t] \in Calls /\ factories' = factories /\ defaultFactory' = defaultFactory
      /\ \E call \in Calls : thread' = [thread EXCEPT ![t] = call] /\ thread'[t] = call
  BY UnregisterFacts DEF registry, LockInv, TypeOK
<1>1. CASE UnregisterAt(t)
  <2>1. undefined' = undefined
    BY <1>1 DEF UnregisterAt, history
  <2>2. CASE thread'[t].at = "return"
    BY <2>1, <2>2 DEF Valid, Iterating
  <2>3. ASSUME NEW c \in Bindings \cup {AtDefault}, CursorFrom(thread[t].cursor + 1, c),
               thread' = [thread EXCEPT ![t].cursor = c]
        PROVE  Valid(t)'
    <3>1. /\ thread[t].at = "unregister"
          /\ thread[t].cursor \in Nat /\ thread[t].cursor + 1 \in Nat
      BY <1>1, CursorType DEF UnregisterAt, LockInv, TypeOK
    <3>2. c \in DOMAIN factories \cup {AtDefault}
      BY <2>3, <3>1, CursorFromFacts DEF LockInv
    <3>3. thread'[t].at = "unregister" /\ thread'[t].cursor = c
      BY <2>3, <3>1 DEF LockInv, TypeOK, Calls
    <3> QED BY <1>a, <3>2, <3>3 DEF Valid, Iterating
  <2>4. Unregistered(t, factories[thread[t].cursor]) => thread'[t].at = "return"
    BY DEF Unregistered, LockInv, TypeOK, Calls
  <2> QED BY <1>1, <2>1, <2>2, <2>3, <2>4 DEF UnregisterAt
<1>2. ~UnregisterAtErased(t)
  BY DEF UnregisterAtErased, Valid, Iterating
<1>3. CASE CheckDefault(t)
  <2>1. /\ thread'[t].at = IF defaultFactory = NoFactory THEN "return" ELSE "readDefault"
        /\ undefined' = undefined
    BY <1>3 DEF CheckDefault, Goto, history, LockInv, TypeOK, Calls
  <2> QED BY <1>a, <2>1 DEF Valid, Iterating
<1>4. CASE ReadDefault(t)
  <2>1. /\ thread'[t].at = "callDefault" /\ thread'[t].factory = defaultFactory
        /\ undefined' = undefined
    BY <1>4 DEF ReadDefault, history, LockInv, TypeOK, Calls
  <2> QED BY <1>a, <2>1 DEF Valid, Iterating
<1>5. CASE CallDefault(t)
  <2>1. thread'[t].at = "return" /\ undefined' = undefined
    BY <1>5 DEF CallDefault, Unregistered, Goto, history, LockInv, TypeOK, Calls
  <2> QED BY <2>1 DEF Valid, Iterating
<1>6. ~FollowDangling(t)
  BY DEF FollowDangling, Valid, Iterating
<1> QED BY <1>1, <1>2, <1>3, <1>4, <1>5, <1>6 DEF UnregisterStep

LEMMA OverlapQuiet ==
    ASSUME UNCHANGED <<factories, defaultFactory>>, ~undefined',
           \A u \in Threads \ overlapped' : (Valid(u) /\ thread'[u] = thread[u]) \/ Valid(u)'
    PROVE  OverlapInv'
BY DEF OverlapInv, Valid, Iterating

\* The other steps of a thread are not in unregisterStub().
LEMMA ElsewhereSteps ==
    ASSUME LockInv, NEW t \in Threads, Step(t), ~UnregisterStep(t)
    PROVE  ~Unregistering(t) /\ ~Unregistering(t)'
<1> USE DEF Unregistering, Goto, LockInv, TypeOK, Calls
<1>1. CASE CheckInitialized(t) \/ InitFromCall(t) \/ LockFactories(t) \/ LockLoad(t)
  BY <1>1 DEF CheckInitialized, InitFromCall, LockFactories, LockLoad
<1>2. CASE AskFactory(t) \/ AskDefaultFactory(t)
  BY <1>2 DEF AskFactory, AskDefaultFactory, Served, Unserved
<1>3. CASE LoadLibrary(t) \/ OpenFails(t)
  BY <1>3 DEF LoadLibrary, OpenFails
<1>6. CASE OpenSucceeds(t)
  <2>1. thread[t].at = "open" /\ \E at \in {"insert", "register"} : Goto(t, at)
    BY <1>6 DEF OpenSucceeds
  <2> QED BY <2>1
<1>4. CASE RegisterLoaded(t) \/ InsertLoaded(t) \/ Decide(t) \/ UnlockLoad(t)
  BY <1>4 DEF RegisterLoaded, InsertLoaded, Decide, UnlockLoad
<1>5. CASE Return(t)
  BY <1>5, CallType DEF Return
<1> QED BY <1>1, <1>2, <1>3, <1>4, <1>5, <1>6 DEF Step

LEMMA NextOverlap == LockInv /\ OverlapInv /\ [Next]_vars => OverlapInv'
<1> SUFFICES ASSUME LockInv, OverlapInv, [Next]_vars PROVE OverlapInv'
  OBVIOUS
<1>1. CASE UNCHANGED vars
  BY <1>1 DEF vars, registry, history, OverlapInv, Valid, Iterating, Unregistering
<1>2. ASSUME NEW t \in Threads,
             \/ \E f \in Factories : RegisterFactory(t, f)
             \/ \E b \in Bindings : UnregisterFactory(t, b)
      PROVE  OverlapInv'
  <2>1. Overlap /\ thread' = thread
    BY <1>2 DEF RegisterFactory, AddFactory, UnregisterFactory
  <2> QED BY <2>1, OverlapListed DEF Unregistering
<1>3. ASSUME NEW t \in Threads, InitFactories(t) PROVE OverlapInv'
  <2>1. UNCHANGED <<factories, defaultFactory, thread, overlapped, undefined>> /\ ~undefined
    BY <1>3 DEF InitFactories, InitAll, StartCall, history
  <2> QED BY <2>1, OverlapQuiet DEF OverlapInv
<1>4. ASSUME NEW t \in Threads, NEW a \in Addresses,
             Create(t, a) \/ CreateNothing(t, a) \/ UnregisterStub(t, a)
      PROVE  OverlapInv'
  <2>1. /\ UNCHANGED <<factories, defaultFactory, overlapped, undefined>> /\ ~undefined
        /\ \A u \in Threads \ {t} : thread'[u] = thread[u]
    BY <1>4 DEF Create, CreateNothing, UnregisterStub, StartCall, registry, history, LockInv, TypeOK
  <2>2. Valid(t)'
    <3>1. CASE Create(t, a) \/ CreateNothing(t, a)
      BY <3>1 DEF Create, CreateNothing, Call, Valid, Iterating, LockInv, TypeOK
    <3>2. CASE UnregisterStub(t, a)
      <4>1. PICK c \in Bindings \cup {AtDefault} :
               /\ CursorFrom(0, c)
               /\ thread' = [thread EXCEPT ![t] = [Call(a, "unregister") EXCEPT !.cursor = c]]
        BY <3>2 DEF UnregisterStub
      <4>2. thread'[t].at = "unregister" /\ thread'[t].cursor = c
        BY <4>1 DEF Call, LockInv, TypeOK
      <4>3. c \in DOMAIN factories \cup {AtDefault}
        BY <4>1, CursorFromFacts DEF LockInv
      <4> QED BY <2>1, <4>2, <4>3 DEF Valid, Iterating
    <3> QED BY <1>4, <3>1, <3>2
  <2> QED BY <2>1, <2>2, OverlapQuiet DEF OverlapInv
<1>5. ASSUME NEW t \in Threads, Step(t) PROVE OverlapInv'
  <2>a. ~undefined /\ \A u \in Threads \ {t} : thread'[u] = thread[u]
    BY <1>5, StepOthers DEF Step
  <2>1. CASE RegisterLoaded(t)
    <3>1. Overlap
      BY <2>1 DEF RegisterLoaded, AddFactory
    <3>2. ~UnregisterStep(t)
      BY <2>1, UnregisterFacts DEF RegisterLoaded, Unregistering
    <3>3. ~Unregistering(t) /\ ~Unregistering(t)'
      BY <1>5, <3>2, ElsewhereSteps
    <3>4. \A u \in Threads : /\ Unregistering(u) => thread'[u] = thread[u]
                             /\ Unregistering(u)' => Unregistering(u)
      BY <2>a, <3>3 DEF Unregistering
    <3> QED BY <3>1, <3>4, OverlapListed
  <2>2. CASE ~RegisterLoaded(t) /\ ~UnregisterStep(t)
    <3>1. ~Unregistering(t)'
      BY <1>5, <2>2, ElsewhereSteps
    <3>2. /\ UNCHANGED <<factories, defaultFactory, undefined>>
          /\ overlapped' = overlapped \/ overlapped' = overlapped \ {t}
      BY <1>5, <2>2
         DEF Step, CheckInitialized, InitFromCall, InitAll, LockFactories, AskFactory,
             AskDefaultFactory, LockLoad, LoadLibrary, OpenFails, OpenSucceeds, InsertLoaded,
             Decide, UnlockLoad, Return, registry, history
    <3>3. Valid(t)'
      BY <3>1 DEF Valid, Iterating, Unregistering
    <3> QED BY <2>a, <3>2, <3>3, OverlapQuiet DEF OverlapInv
  <2>3. CASE UnregisterStep(t)
    <3>1. UNCHANGED <<factories, defaultFactory, overlapped>> /\ Unregistering(t)
      BY <2>3, UnregisterFacts DEF registry
    <3>2. CASE t \notin overlapped
      <4>1. Valid(t)' /\ ~undefined'
        BY <2>3, <2>a, <3>2, UnregisterValid DEF OverlapInv
      <4> QED BY <2>a, <3>1, <4>1, OverlapQuiet DEF OverlapInv
    <3>3. CASE t \in overlapped /\ ~FollowDangling(t)
      <4>1. undefined' = undefined
        BY <2>3, <3>3 DEF UnregisterStep, UnregisterAt, UnregisterAtErased, CheckDefault,
                          ReadDefault, CallDefault, history
      <4> QED BY <2>a, <3>1, <3>3, <4>1, OverlapQuiet DEF OverlapInv
    <3>4. CASE t \in overlapped /\ FollowDangling(t)
      <4>1. thread' = thread
        BY <3>4 DEF FollowDangling
      <4>2. \A u \in Threads \ overlapped' : Valid(u)'
        BY <3>1, <4>1 DEF OverlapInv, Valid, Iterating
      <4>3. t \in overlapped' /\ Unregistering(t)'
        BY <3>1, <3>4, <4>1 DEF Unregistering
      <4> QED BY <4>2, <4>3 DEF OverlapInv
    <3> QED BY <3>2, <3>3, <3>4
  <2> QED BY <2>1, <2>2, <2>3
<1>6. Stubs \subseteq Addresses
  BY NamesAssumption
<1> QED BY <1>1, <1>2, <1>3, <1>4, <1>5, <1>6 DEF Next

\* unregisterStub() uses a stale iterator, a null pointer or a freed factory only while
\* another thread changes the factories, whatever else the threads do.
THEOREM SafeUnlessOverlapped == Spec => []UndefinedOnlyIfOverlapped
<1>1. OverlapInv => UndefinedOnlyIfOverlapped
  BY DEF OverlapInv, UndefinedOnlyIfOverlapped
<1> QED BY <1>1, InitLock, NextLock, InitOverlap, NextOverlap, PTL DEF Spec
==============================================================================
