------------------------------- MODULE Runtime -------------------------------
(***************************************************************************)
(* CommonAPI::Runtime (src/CommonAPI/Runtime.cpp) once Runtime::get() has  *)
(* configured it: the factories of the bindings, the interface libraries   *)
(* loaded on demand, and the proxies and stubs created through them.       *)
(*                                                                         *)
(* Three facts are external, and modelled from how Runtime.cpp uses them:  *)
(* a factory creates the proxies and stubs of the addresses it supports    *)
(* and registers one stub per address; dlopen() finds the libraries in     *)
(* Present; and the initialisers of a library, which run inside dlopen(),  *)
(* register the factory of its binding with the Runtime and the addresses  *)
(* of the library with that factory.                                       *)
(*                                                                         *)
(* Names are abstract: an address stands for domain, interface, instance   *)
(* and for proxy or stub, LibraryOf for getLibrary() and the normalised    *)
(* name of loadLibrary(), and Bindings are numbered in the order of their  *)
(* names.  MaxCalls bounds the calls of a behaviour.                       *)
(***************************************************************************)
EXTENDS Integers, FiniteSets, Functions

CONSTANTS
    Threads, NoThread,
    Factories, NoFactory,
    Bindings,          \* numbers, in the order of a std::map's keys
    DefaultBinding,    \* defaultBinding_
    BindingOf,         \* the binding under which a factory is registered
    Addresses,
    Stubs,             \* the addresses of stubs; the others are of proxies
    Libraries,
    LibraryOf,         \* the library of an address
    FactoryOf,         \* the factory that the initialiser of a library registers
    Present,           \* the libraries that dlopen() finds
    Linked,            \* <<f, a>>: f supports a without any library
    MaxCalls           \* bound: calls of the public operations

ASSUME NamesAssumption ==
    /\ NoThread \notin Threads /\ NoFactory \notin Factories
    /\ Bindings \subseteq Nat /\ DefaultBinding \in Bindings
    /\ BindingOf \in [Factories -> Bindings]
    /\ Addresses # {} /\ Stubs \subseteq Addresses
    /\ LibraryOf \in [Addresses -> Libraries]
    /\ FactoryOf \in [Libraries -> Factories]
    /\ Present \subseteq Libraries
    /\ Linked \subseteq Factories \X Addresses
ASSUME MaxCallsAssumption == MaxCalls \in Nat

VARIABLES
    factories,        \* factories_: binding -> factory, without the default one
    defaultFactory,   \* defaultFactory_, or NoFactory
    isInitialized,    \* isInitialized_
    loadedLibraries,  \* loadedLibraries_
    factoriesMutex,   \* the owner of factoriesMutex_, between steps
    loadMutex,        \* the owner of loadMutex_
    thread,           \* thread[t]: the call t is in
    supports,  \* external: <<f, a>>: the factory f can serve the address a
    stubs,     \* external: <<f, a>>: the stub at a is registered with f
    inits,     \* external: inits[f] counts the calls of f->init()
    opens,     \* external: opens[l] counts the successful calls of dlopen()
    accepted,  \* ghost: accepted[f] counts the registrations of f that succeeded
    ousted,    \* ghost: the factories refused, replaced or unregistered so far
    overlapped,  \* ghost: the threads in whose unregisterStub() the factories changed
    undefined,   \* ghost: an iterator or a pointer was used that was not valid
    calls      \* counts calls, for MaxCalls

registry == <<factories, defaultFactory, isInitialized>>
mutexes == <<factoriesMutex, loadMutex>>
loading == <<loadedLibraries, supports, opens>>

history == <<accepted, ousted, overlapped, undefined>>

vars == <<registry, mutexes, loading, thread, stubs, inits, history, calls>>

NoLibrary == [b \in {} |-> NoFactory]

(***************************************************************************)
(* The control points of createProxy and registerStub (the same code up to *)
(* the call of the factory) and of unregisterStub, with their locals.      *)
(***************************************************************************)
Calls ==
    [at : {"idle",
           "check",        \* before reading isInitialized_
           "init",         \* before initFactories() locks factoriesMutex_
           "try",          \* before the helper locks factoriesMutex_
           "ask",          \* the helper, before asking the factory at cursor
           "lockLoad",     \* before locking loadMutex_
           "load",         \* loadLibrary(), before looking up loadedLibraries_
           "open",         \* loadLibrary(), before dlopen()
           "register",     \* inside dlopen(): the library registers its factory
           "insert",       \* dlopen() returned, before recording the library
           "decide",       \* after loadLibrary()
           "unlockLoad",   \* before releasing loadMutex_
           "return",       \* the call returns servedBy
           "unregister",   \* unregisterStub, before asking the factory at cursor
           "readDefault",  \* unregisterStub, defaultFactory_ was not null
           "callDefault"}, \* unregisterStub, before asking the default factory
     address : Addresses, servedBy : Factories \cup {NoFactory},
     factory : Factories \cup {NoFactory},  \* what was read of defaultFactory_
     useDefault : BOOLEAN, loaded : BOOLEAN, cursor : Bindings \cup {-1}]

\* The cursor at the default factory, which comes after the map.
AtDefault == -1

Call(a, at) == [at |-> at, address |-> a, servedBy |-> NoFactory, factory |-> NoFactory,
                useDefault |-> FALSE, loaded |-> FALSE, cursor |-> AtDefault]

Idle == Call(CHOOSE a \in Addresses : TRUE, "idle")

Init ==
    /\ factories = NoLibrary
    /\ defaultFactory = NoFactory
    /\ isInitialized = FALSE
    /\ loadedLibraries = {}
    /\ factoriesMutex = NoThread
    /\ loadMutex = NoThread
    /\ thread = [t \in Threads |-> Idle]
    /\ supports = Linked
    /\ stubs = {}
    /\ inits = [f \in Factories |-> 0]
    /\ opens = [l \in Libraries |-> 0]
    /\ accepted = [f \in Factories |-> 0]
    /\ ousted = {}
    /\ overlapped = {}
    /\ undefined = FALSE
    /\ calls = 0

Registered == Range(factories) \cup ({defaultFactory} \ {NoFactory})

StartCall(t) ==
    /\ ~undefined
    /\ thread[t].at = "idle"
    /\ calls < MaxCalls
    /\ calls' = calls + 1

Goto(t, at) == thread' = [thread EXCEPT ![t].at = at]

\* The first binding of the map from b on, or the default factory after the last one.
CursorFrom(b, c) ==
    LET rest == {k \in DOMAIN factories : k >= b}
    IN  IF rest = {} THEN c = AtDefault
        ELSE c \in rest /\ \A k \in rest : c <= k

------------------------------------------------------------------------------
(***************************************************************************)
(* registerFactory(), called by the application or, inside dlopen(), by    *)
(* the initialiser of a library; unregisterFactory(); initFactories().     *)
(***************************************************************************)
IsAccepted(f) == BindingOf[f] = DefaultBinding \/ BindingOf[f] \notin DOMAIN factories

\* Mutants: the default binding is treated like any other; a factory registered late,
\* or initFactories() called again, does not look at isInitialized_.
MapWithAny(f) == [b \in DOMAIN factories \cup {BindingOf[f]} |->
                     IF b = BindingOf[f] THEN f ELSE factories[b]]
RegisteredOnly(f) == inits
AllInitedAgain == [f \in Factories |-> inits[f] + (IF f \in Registered THEN 1 ELSE 0)]

MapWith(f) ==
    IF BindingOf[f] \in DOMAIN factories \cup {DefaultBinding} THEN factories
    ELSE [b \in DOMAIN factories \cup {BindingOf[f]} |->
             IF b = BindingOf[f] THEN f ELSE factories[b]]

InitedWith(f) ==
    IF IsAccepted(f) /\ isInitialized THEN [inits EXCEPT ![f] = @ + 1] ELSE inits

AllInited ==
    IF isInitialized THEN inits
    ELSE [f \in Factories |-> inits[f] + (IF f \in Registered THEN 1 ELSE 0)]

\* unregisterStub() takes no lock: it iterates over factories_, or is past that.
Iterating(t) == thread[t].at = "unregister" /\ thread[t].cursor # AtDefault
Unregistering(t) == thread[t].at \in {"unregister", "readDefault", "callDefault"}

\* What a change of the factories does to it: a map that changes under an iteration is
\* a data race.
Overlap ==
    /\ overlapped' = overlapped \cup
          {t \in Threads : Unregistering(t)
                           /\ (factories' # factories \/ defaultFactory' # defaultFactory)}
    /\ \/ undefined' = undefined
       \/ undefined' = TRUE /\ factories' # factories /\ \E t \in Threads : Iterating(t)

AddFactory(f) ==
    /\ factoriesMutex = NoThread
    /\ factories' = MapWith(f)
    /\ defaultFactory' = IF BindingOf[f] = DefaultBinding THEN f ELSE defaultFactory
    /\ inits' = InitedWith(f)
    /\ accepted' = IF IsAccepted(f) THEN [accepted EXCEPT ![f] = @ + 1] ELSE accepted
    /\ ousted' = ousted \cup (IF IsAccepted(f) THEN {} ELSE {f})
                       \cup {d \in {defaultFactory} \ {NoFactory} : defaultFactory' # d}
    /\ Overlap
    /\ UNCHANGED <<isInitialized, mutexes, stubs>>

RegisterFactory(t, f) ==
    /\ StartCall(t)
    /\ AddFactory(f)
    /\ UNCHANGED <<loading, thread>>

UnregisterFactory(t, b) ==
    /\ StartCall(t)
    /\ factoriesMutex = NoThread
    /\ factories' = Restrict(factories, DOMAIN factories \ {b})
    /\ defaultFactory' = IF b = DefaultBinding THEN NoFactory ELSE defaultFactory
    /\ ousted' = ousted \cup {f \in Registered : BindingOf[f] = b}
    /\ Overlap
    /\ UNCHANGED <<isInitialized, mutexes, loading, thread, stubs, inits, accepted>>

InitAll ==
    /\ factoriesMutex = NoThread
    /\ isInitialized' = TRUE
    /\ inits' = AllInited
    /\ UNCHANGED <<factories, defaultFactory, mutexes, loading, stubs, history>>

InitFactories(t) == StartCall(t) /\ InitAll /\ UNCHANGED thread

------------------------------------------------------------------------------
(***************************************************************************)
(* createProxy() and registerStub().                                       *)
(***************************************************************************)
Create(t, a) ==
    /\ StartCall(t)
    /\ thread' = [thread EXCEPT ![t] = Call(a, "check")]
    /\ UNCHANGED <<registry, mutexes, loading, stubs, inits, history>>

\* registerStub() of no stub.
CreateNothing(t, a) ==
    /\ StartCall(t)
    /\ thread' = [thread EXCEPT ![t] = Call(a, "return")]
    /\ UNCHANGED <<registry, mutexes, loading, stubs, inits, history>>

\* isInitialized_ is read without a lock.
CheckInitialized(t) ==
    /\ thread[t].at = "check"
    /\ Goto(t, IF isInitialized THEN "try" ELSE "init")
    /\ UNCHANGED <<registry, mutexes, loading, stubs, inits, history, calls>>

InitFromCall(t) ==
    /\ thread[t].at = "init"
    /\ InitAll
    /\ Goto(t, "try")
    /\ UNCHANGED calls

\* createProxyHelper and registerStubHelper hold factoriesMutex_ while they ask the
\* factories one after the other.
LockFactories(t) ==
    /\ thread[t].at = "try"
    /\ factoriesMutex = NoThread
    /\ factoriesMutex' = t
    /\ \E c \in Bindings \cup {AtDefault} :
          /\ CursorFrom(0, c)
          /\ thread' = [thread EXCEPT ![t].at = "ask", ![t].cursor = c]
    /\ UNCHANGED <<registry, loadMutex, loading, stubs, inits, history, calls>>

Serves(f, a) == <<f, a>> \in supports /\ <<f, a>> \notin stubs

\* The factory at the cursor serves the call: the helper returns.
Served(t, f) ==
    /\ Serves(f, thread[t].address)
    /\ stubs' = IF thread[t].address \in Stubs THEN stubs \cup {<<f, thread[t].address>>}
                ELSE stubs
    /\ factoriesMutex' = NoThread
    /\ thread' = [thread EXCEPT ![t].servedBy = f,
                     ![t].at = IF thread[t].useDefault THEN "unlockLoad" ELSE "return"]

\* Mutants: factoriesMutex_ stays locked; loadMutex_ does not exclude.
UnservedLocked(t) ==
    /\ Goto(t, IF thread[t].useDefault THEN "unlockLoad" ELSE "lockLoad")
    /\ UNCHANGED <<factoriesMutex, stubs>>
LockLoadFreely(t) ==
    /\ thread[t].at = "lockLoad"
    /\ loadMutex' = t
    /\ Goto(t, "load")
    /\ UNCHANGED <<registry, factoriesMutex, loading, stubs, inits, history, calls>>

\* No factory served the call: load the library, or give up if that was done.
Unserved(t) ==
    /\ factoriesMutex' = NoThread
    /\ Goto(t, IF thread[t].useDefault THEN "unlockLoad" ELSE "lockLoad")
    /\ UNCHANGED stubs

AskFactory(t) ==
    /\ thread[t].at = "ask" /\ thread[t].cursor # AtDefault
    /\ LET f == factories[thread[t].cursor]
       IN  \/ Served(t, f)
           \/ /\ ~Serves(f, thread[t].address)
              /\ \E c \in Bindings \cup {AtDefault} :
                    /\ CursorFrom(thread[t].cursor + 1, c)
                    /\ thread' = [thread EXCEPT ![t].cursor = c]
              /\ UNCHANGED <<factoriesMutex, stubs>>
    /\ UNCHANGED <<registry, loadMutex, loading, inits, history, calls>>

\* Mutant: the first try uses the default factory too.
DefaultServesAlways(t) ==
    defaultFactory # NoFactory /\ Serves(defaultFactory, thread[t].address)

DefaultServes(t) ==
    /\ thread[t].useDefault
    /\ defaultFactory # NoFactory
    /\ Serves(defaultFactory, thread[t].address)

AskDefaultFactory(t) ==
    /\ thread[t].at = "ask" /\ thread[t].cursor = AtDefault
    /\ IF DefaultServes(t)
       THEN Served(t, defaultFactory)
       ELSE Unserved(t)
    /\ UNCHANGED <<registry, loadMutex, loading, inits, history, calls>>

LockLoad(t) ==
    /\ thread[t].at = "lockLoad"
    /\ loadMutex = NoThread
    /\ loadMutex' = t
    /\ Goto(t, "load")
    /\ UNCHANGED <<registry, factoriesMutex, loading, stubs, inits, history, calls>>

\* getLibrary() names the library; loadLibrary() knows those it has loaded.
LoadLibrary(t) ==
    /\ thread[t].at = "load"
    /\ thread' = IF LibraryOf[thread[t].address] \in loadedLibraries
                 THEN [thread EXCEPT ![t].at = "decide", ![t].loaded = TRUE]
                 ELSE [thread EXCEPT ![t].at = "open"]
    /\ UNCHANGED <<registry, mutexes, loading, stubs, inits, history, calls>>

OpenFails(t) ==
    /\ thread[t].at = "open"
    /\ LibraryOf[thread[t].address] \notin Present
    /\ Goto(t, "decide")
    /\ UNCHANGED <<registry, mutexes, loading, stubs, inits, history, calls>>

\* dlopen() runs the initialisers of the library: its factory gets to know the
\* addresses, and, the first time, is registered with the Runtime by the thread that
\* holds loadMutex_.
OpenSucceeds(t) ==
    LET l == LibraryOf[thread[t].address]
        isKnown == \E a \in Addresses : <<FactoryOf[l], a>> \in supports \ Linked
    IN  /\ thread[t].at = "open"
        /\ l \in Present
        /\ opens' = [opens EXCEPT ![l] = @ + 1]
        /\ supports' = supports \cup {<<FactoryOf[l], a>> : a \in {x \in Addresses : LibraryOf[x] = l}}
        /\ Goto(t, IF isKnown THEN "insert" ELSE "register")
        /\ UNCHANGED <<registry, mutexes, loadedLibraries, stubs, inits, history, calls>>

RegisterLoaded(t) ==
    /\ thread[t].at = "register"
    /\ AddFactory(FactoryOf[LibraryOf[thread[t].address]])
    /\ Goto(t, "insert")
    /\ UNCHANGED <<loading, calls>>

InsertLoaded(t) ==
    /\ thread[t].at = "insert"
    /\ loadedLibraries' = loadedLibraries \cup {LibraryOf[thread[t].address]}
    /\ thread' = [thread EXCEPT ![t].at = "decide", ![t].loaded = TRUE]
    /\ UNCHANGED <<registry, mutexes, supports, opens, stubs, inits, history, calls>>

\* Mutant: only the default factory is tried again.
TriesDefaultAgain(t) == defaultFactory # NoFactory

\* The second try may use the default factory.  defaultFactory_ is read without
\* factoriesMutex_.
TriesAgain(t) == thread[t].loaded \/ defaultFactory # NoFactory

Decide(t) ==
    /\ thread[t].at = "decide"
    /\ thread' = IF TriesAgain(t)
                 THEN [thread EXCEPT ![t].at = "try", ![t].useDefault = TRUE]
                 ELSE [thread EXCEPT ![t].at = "unlockLoad"]
    /\ UNCHANGED <<registry, mutexes, loading, stubs, inits, history, calls>>

UnlockLoad(t) ==
    /\ thread[t].at = "unlockLoad"
    /\ loadMutex' = NoThread
    /\ Goto(t, "return")
    /\ UNCHANGED <<registry, factoriesMutex, loading, stubs, inits, history, calls>>

Return(t) ==
    /\ thread[t].at = "return"
    /\ thread' = [thread EXCEPT ![t] = Idle]
    /\ overlapped' = overlapped \ {t}
    /\ UNCHANGED <<registry, mutexes, loading, stubs, inits, accepted, ousted, undefined, calls>>

------------------------------------------------------------------------------
(***************************************************************************)
(* unregisterStub() iterates over factories_, and reads defaultFactory_    *)
(* twice, without factoriesMutex_: once to check it, once to use it.  When *)
(* another thread has erased the element under the iterator, or cleared or *)
(* replaced the default factory, that is undefined.  It may go well, too:  *)
(* the iteration goes on at some later element, or ends, and a factory     *)
(* that someone else still holds is asked.                                 *)
(***************************************************************************)
UnregisterStub(t, a) ==
    /\ StartCall(t)
    /\ \E c \in Bindings \cup {AtDefault} :
          /\ CursorFrom(0, c)
          /\ thread' = [thread EXCEPT ![t] = [Call(a, "unregister") EXCEPT !.cursor = c]]
    /\ UNCHANGED <<registry, mutexes, loading, stubs, inits, history>>

Unregistered(t, f) ==
    /\ <<f, thread[t].address>> \in stubs
    /\ stubs' = stubs \ {<<f, thread[t].address>>}
    /\ thread' = [thread EXCEPT ![t].at = "return", ![t].servedBy = f]

UnregisterAt(t) ==
    /\ thread[t].at = "unregister" /\ thread[t].cursor \in DOMAIN factories
    /\ LET f == factories[thread[t].cursor]
       IN  \/ Unregistered(t, f)
           \/ /\ <<f, thread[t].address>> \notin stubs
              /\ \E c \in Bindings \cup {AtDefault} :
                    /\ CursorFrom(thread[t].cursor + 1, c)
                    /\ thread' = [thread EXCEPT ![t].cursor = c]
              /\ UNCHANGED stubs
    /\ UNCHANGED <<registry, mutexes, loading, inits, history, calls>>

UnregisterAtErased(t) ==
    /\ thread[t].at = "unregister"
    /\ thread[t].cursor \notin DOMAIN factories \cup {AtDefault}
    /\ \E c \in {k \in DOMAIN factories : k > thread[t].cursor} \cup {AtDefault} :
          thread' = [thread EXCEPT ![t].cursor = c]
    /\ UNCHANGED <<registry, mutexes, loading, stubs, inits, history, calls>>

\* Mutant: the default factory is used unchecked.
UncheckedDefault(t) ==
    /\ thread[t].at = "unregister" /\ thread[t].cursor = AtDefault
    /\ Goto(t, "readDefault")
    /\ UNCHANGED <<registry, mutexes, loading, stubs, inits, history, calls>>

CheckDefault(t) ==
    /\ thread[t].at = "unregister" /\ thread[t].cursor = AtDefault
    /\ Goto(t, IF defaultFactory = NoFactory THEN "return" ELSE "readDefault")
    /\ UNCHANGED <<registry, mutexes, loading, stubs, inits, history, calls>>

ReadDefault(t) ==
    /\ thread[t].at = "readDefault" /\ defaultFactory # NoFactory
    /\ thread' = [thread EXCEPT ![t].at = "callDefault", ![t].factory = defaultFactory]
    /\ UNCHANGED <<registry, mutexes, loading, stubs, inits, history, calls>>

CallDefault(t) ==
    /\ thread[t].at = "callDefault"
    /\ \/ Unregistered(t, thread[t].factory)
       \/ /\ <<thread[t].factory, thread[t].address>> \notin stubs
          /\ Goto(t, "return")
          /\ UNCHANGED stubs
    /\ UNCHANGED <<registry, mutexes, loading, inits, history, calls>>

\* The iterator, the null pointer, or the factory that was freed.
FollowDangling(t) ==
    /\ \/ Iterating(t) /\ thread[t].cursor \notin DOMAIN factories
       \/ thread[t].at = "readDefault" /\ defaultFactory = NoFactory
       \/ thread[t].at = "callDefault" /\ thread[t].factory # defaultFactory
    /\ undefined' = TRUE
    /\ UNCHANGED <<registry, mutexes, loading, thread, stubs, inits, accepted, ousted,
                   overlapped, calls>>

UnregisterStep(t) ==
    \/ UnregisterAt(t) \/ UnregisterAtErased(t) \/ CheckDefault(t) \/ ReadDefault(t)
    \/ CallDefault(t) \/ FollowDangling(t)

------------------------------------------------------------------------------
Step(t) ==
    /\ ~undefined
    /\ \/ CheckInitialized(t) \/ InitFromCall(t) \/ LockFactories(t) \/ AskFactory(t)
       \/ AskDefaultFactory(t) \/ LockLoad(t) \/ LoadLibrary(t) \/ OpenFails(t)
       \/ OpenSucceeds(t) \/ RegisterLoaded(t) \/ InsertLoaded(t) \/ Decide(t)
       \/ UnlockLoad(t) \/ Return(t) \/ UnregisterStep(t)

Next ==
    \E t \in Threads :
        \/ \E f \in Factories : RegisterFactory(t, f)
        \/ \E b \in Bindings : UnregisterFactory(t, b)
        \/ InitFactories(t)
        \/ \E a \in Addresses : Create(t, a)
        \/ \E a \in Stubs : CreateNothing(t, a) \/ UnregisterStub(t, a)
        \/ Step(t)

Spec == Init /\ [][Next]_vars

\* A thread in a call goes on; nothing makes threads call, and nothing is said of what
\* happens after undefined behaviour.
FairSpec == Spec /\ \A t \in Threads : WF_vars(Step(t))

------------------------------------------------------------------------------
(***************************************************************************)
(* Properties                                                              *)
(***************************************************************************)
\* Every variable has its type.
TypeOK ==
    /\ factories \in [DOMAIN factories -> Factories]
    /\ DOMAIN factories \subseteq Bindings \ {DefaultBinding}
    /\ defaultFactory \in Factories \cup {NoFactory}
    /\ isInitialized \in BOOLEAN
    /\ loadedLibraries \subseteq Libraries
    /\ factoriesMutex \in Threads \cup {NoThread}
    /\ loadMutex \in Threads \cup {NoThread}
    /\ thread \in [Threads -> Calls]
    /\ supports \subseteq Factories \X Addresses
    /\ stubs \subseteq Factories \X Stubs
    /\ inits \in [Factories -> Nat]
    /\ opens \in [Libraries -> Nat]
    /\ accepted \in [Factories -> Nat]
    /\ ousted \subseteq Factories
    /\ overlapped \subseteq Threads /\ undefined \in BOOLEAN
    /\ calls \in 0 .. MaxCalls

\* The helpers only ever ask factories that have been initialised, although factories
\* come and go at any time and isInitialized_ is first read without a lock.
AskedOnlyInitialized ==
    \A t \in Threads : thread[t].at = "ask" => \A f \in Registered : inits[f] > 0

\* A factory is initialised at most once for each time it was registered.
InitializedOnce == \A f \in Factories : inits[f] <= accepted[f]

\* A library is loaded at most once, however many threads build proxies of it.
OpenedOnce == \A l \in Libraries : opens[l] <= 1

\* The default factory creates a proxy only after the library of the address was
\* tried, and when no other registered factory can create it.
DefaultIsLastResort ==
    [][\A t \in Threads :
          LET f == thread'[t].servedBy
              a == thread[t].address
          IN  (f # thread[t].servedBy /\ f \in Factories \cap {defaultFactory} /\ a \notin Stubs) =>
                 /\ LibraryOf[a] \in loadedLibraries \/ LibraryOf[a] \notin Present
                 /\ \A b \in DOMAIN factories : ~Serves(factories[b], a)]_vars

\* createProxy() of an address whose library was loaded, by whichever thread, fails
\* only if the factory of the library was refused, replaced or unregistered.
LoadedMeansServed ==
    \A t \in Threads :
        (/\ thread[t].at = "return" /\ thread[t].loaded /\ thread[t].servedBy = NoFactory
         /\ thread[t].address \notin Stubs)
            => FactoryOf[LibraryOf[thread[t].address]] \in ousted

\* unregisterStub(), which takes no lock, uses a stale iterator, a null pointer or a
\* freed factory only if another thread changes the factories in the course of the call:
\* by registerFactory(), unregisterFactory() or loading a library.  Else it is safe,
\* whichever proxies and stubs other threads create and unregister.
UndefinedOnlyIfOverlapped == undefined => \E t \in overlapped : Unregistering(t)

\* Every call returns, although a library registers its factory while the thread
\* that loads it holds loadMutex_, and others hold factoriesMutex_; but for undefined
\* behaviour of unregisterStub().
CallsReturn ==
    \A t \in Threads : thread[t].at # "idle" ~> (thread[t].at = "idle" \/ undefined)
==============================================================================
