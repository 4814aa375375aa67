# A verification project for the CommonAPI C++ core runtime

The CommonAPI core runtime (`src/`) is the part of CommonAPI that is the same for
every IPC mechanism: generated proxies and stubs use it, and a *binding* (D-Bus,
SOME/IP) is a library that plugs into it.  The TLA+ modules here model its stateful
parts, TLC checks them on small instances, and TLAPS proves the most important
properties for every instance.

    tlc -config EventRefinement.cfg MCEvent.tla     # one run; the table below lists all
    tlapm EventProofs.tla                           # one module of proofs

## 1. Inventory

Who calls what: an application obtains `Runtime::get()`, asks it for proxies and stubs;
the Runtime asks the factories of the bindings, which register themselves from the
initialisers of their libraries.  A proxy has attributes and events; the binding
derives from `Event` (the hooks `onFirstListenerAdded` ... arm and disarm its
connection), and notifies on its dispatching threads, while clients subscribe and
unsubscribe on theirs.  An `AttributeCacheExtension` is a listener of a changed event.
A binding that uses an application's main loop announces its watches, timeouts and
dispatch sources through a `MainLoopContext`.  Values travel as `Variant`s, structs
and containers over streams of the binding.

| component | state | operations | what is hard | what makes it correct |
|---|---|---|---|---|
| `Event` (Event.hpp) | merged map, pending maps, next id, two mutexes | `subscribe`, `unsubscribe`, four kinds of notification, six hooks | iteration without the subscription mutex, calls from inside listeners, hooks after the mutex was released, removal by a failed `notifySpecificError`, ids that wrap | no dangling iterator; a notification invokes its snapshot once, in order; hooks balanced; binding armed while there are subscriptions; every call returns |
| `Runtime`: factories, libraries, proxies, stubs (Runtime.cpp) | factory map, default factory, initialised flag, loaded libraries, two mutexes | `registerFactory`, `unregisterFactory`, `initFactories`, `createProxy`, `registerStub`, `unregisterStub`, `loadLibrary` | unlocked reads, an unlocked iteration, loading on demand with initialisers that call back, two-stage search | only initialised factories are asked; initialised once; opened once; a loaded library serves; default factory only as the last resort; nothing stale is followed unless the factories change under `unregisterStub` |
| `Runtime`: lifetime and configuration | singleton, destructor object, properties, folders, default binding | `get`, `setProperty`, `readConfiguration`, destruction | destruction without the mutex; precedence of environment, configuration and defaults | the singleton is initialised once; the configuration follows the precedence |
| `MainLoopContext` | four lists of listeners | `subscribeFor…`, `unsubscribeFor…`, `register…`, `deregister…`, `wakeup` | callbacks subscribe, unsubscribe and notify under the iterators of running notifications | iterators stay valid; each listener is called once; main loops mirror the sources |
| `AttributeCacheExtension` | cached pointer | construction, `onValueUpdate`, `getCachedValue` | unlocked read, equal values, order among listeners, a subscription that a failed `notifySpecificError` drops, nothing retrieves | the cache follows the notifications |
| `Variant` | raw storage, type index | constructors, assignments, comparison, visitors, reading | throwing constructors, readings that throw, own values, indexes without a type, values unequal to themselves | the storage holds what the index says; nothing leaks; nothing is used that is not there |
| streams, `Struct`, `SerializableArguments`, deployments | the streams of a binding | read and write | nested readers and writers that fail in the middle; three kinds of templates that must choose the same deployments; indexes that count from the end | what is written is what was declared, is announced by its signature, and is read back; a failure is known and nothing is read behind it |
| `Address` | domain, interface, instance | parse, compare, format | optional versions, unchecked setters, order by three parts | parsing inverts formatting; the order is strict and total |
| `IniFileReader`, `Utils` | sections and mappings | load, get | duplicate sections and keys | first definition wins |
| `CallInfo` | timeout | construction | bounds of the environment's timeout | timeouts in range |
| `Logger` | level, file, mutex | `init`, `log` | `init` without the mutex; a file that cannot be opened | it logs what the file says, where it says |
| `Proxy`, `ProxyManager` | a promise | destruction, `getCompletionFuture` | the promise may be asked for one future | - |
| `Factory`, `Stub`, attributes, interfaces of main loops | none | abstract | - | - |
| `RangedInteger`, `Enumeration`, `Version`, `ByteBuffer`, hashes | a value | comparisons | - | - |

The hazards, each at its line and with the properties that guard against it, are in
`PROJECT.json`.

## 2. Plan

Done, in this order:

1. `EventCalls`, `EventDelivery`, `Event`, `MCEvent`, `EventProofs`: the heart of the
   runtime, and its only component that many threads use at once by design.
2. `Runtime`, `MCRuntime`, `RuntimeProofs`: factories and libraries.
3. `Broadcast`, `MainLoopContext`, `MCMainLoopContext`, `MainLoopContextProofs`: nested
   notifications.
4. `AttributeCache`, `AttributeCacheProofs`: composes with the *abstract* event.
5. `Variant`, `MCVariant`, `VariantProofs`: the life of the object in a variant.
6. `IniFile`, `Configuration`, `RuntimeLifetime`, `MCRuntimeLifetime`,
   `RuntimeLifetimeProofs`: the singleton and what it is configured with.
7. `Serialization`, `MCSerialization`, `SerializationProofs`: the arguments of a call
   through the streams.
8. `Address`, `MCAddress`, `AddressProofs`: parsing, printing and comparing.
9. The `Logger` that `init()` sets up, in `Configuration` and `RuntimeLifetime`.

Every invariant and every action property that the runs check is also proved.

## 3. The modules

### Event

`EventCalls` holds what the two levels share: ids, the notification calls, which ids a
call addresses.  `EventDelivery` is what an event promises: a map of live listeners; a
notification takes a snapshot of those it addresses, delivers to each of them once,
lowest id first, and ends; one notification at a time.

`Event` is Event.hpp.  The variables are the members of the class, the two mutexes
with their owners, `client[t]` (where thread `t` is in `subscribe` or `unsubscribe`)
and `notification[t]` (where it is in a notification, with the iterator `cursor`), and
the binding's view `armed`, `hooked`.  A critical section is one action, because
nothing else can touch the containers within it; only the merge of a notification is
two (`Merge`, `UnlockSubscriptions`).  Everything that runs without a lock is an
action of its own: every hook, the unlocked read of line 129 (`CheckStale`), each
callback (`Invoke`, `Return`).  In between, the same thread may subscribe and
unsubscribe from inside the listener.  The end of a failed `notifySpecificError` is
`Drop`.  A notifying thread stops only at listeners it invokes: skipping one that has
no error listener or another id changes nothing.

Abstractions: `std::function`s are `Listeners`, of which `ErrorListeners` have an error
listener; arguments are not modelled.  A listener does not notify the same event (it
would wait for the mutex of its own thread forever), hooks do not call the event, and
clients only unsubscribe ids they got.  `getSubscriptionCount` only reads.

`AttributeCache` extends `EventDelivery`: one of the listeners is the extension's, and
a notification carries a value.  `onValueUpdate` is `Compare` and `AssignCached`; a
`GetCachedValue` between these returns the old pointer, the new one or a torn one,
because the code has no lock there.  The extension does not keep its subscription, so
nothing but a failed `notifySpecificError` ends it (`DropCache`): it has no error listener
that would hear of it, `getCachedValue` goes on returning what came last, and a
notification that has begun still reaches it.

### Runtime

`thread[t]` is the control point of a `createProxy`, `registerStub` or `unregisterStub`
call with its locals.  The two helpers lock `factoriesMutex_` and ask one factory after
the other (`LockFactories`, `AskFactory`, `AskDefaultFactory`).  A miss locks
`loadMutex_`, loads the library, and tries again, now with the default factory.
`isInitialized_` and `defaultFactory_` are read without a lock where the code does so
(`CheckInitialized`, `Decide`).  `dlopen` and the initialisers of the library are
external: the initialiser registers a factory (`RegisterLoaded`), by the thread that
holds `loadMutex_`.  `registerStub` of no stub is `CreateNothing`.

`unregisterStub` takes no lock.  It asks one factory of the map after the other
(`UnregisterAt`), then checks the default factory (`CheckDefault`), reads it once more to
use it (`ReadDefault`), and calls it (`CallDefault`), each in an action of its own.  Other
threads may erase the element under its iterator, clear the default factory between the
check and its use, or replace it during the call, and any change of the map under the
iteration is a data race.  What follows is undefined: the model sets `undefined`
(`Overlap`, `FollowDangling`) and stops, or it goes well and the call goes on at any later
element (`UnregisterAtErased`), or with a factory that somebody else keeps alive.  The ghost
`overlapped` has the threads in whose `unregisterStub` the factories have changed.

`supports` and `stubs` say what the factories can do and have done, `inits` and `opens`
count calls of external functions, `accepted` and `ousted` are history for the
properties.

### Lifetime and configuration of the Runtime

`IniFile` is the reader: a recursive function of the lines of a file, each of them a
section, an unclosed section, an entry or something else.  `Configuration` has what depends on it as
operators: `Configured` is `init()` with `readConfiguration()`, for a file (missing,
unreadable, or a text) and an environment, up to the exception of `std::stoi`;
`GetLibrary` is the search of `getLibrary()`, and `CallTimeout` the constructors of
`CallInfo`.

`RuntimeLifetime` is `get()` and the destructor function `RuntimeDeinit`, which takes no
mutex.  `pointer` and `object` are `theRuntimePtr__` and what it points to; every line of
`get()` that looks at them is an action, and every line of `RuntimeDeinit`.  `init()` is
one action: the only other step that could disturb it is `ResetObject`, and whether
that comes before `init()` or within it, a dead object is used.  The ghosts `threw`,
`overlapped` and `undefined` say which `init()` threw, whether some `get()` ran at the
same time as `RuntimeDeinit`, and whether a dead or null pointer was followed; after
that the model stops.

The `Logger` is the members of the class as `init()` leaves them: `LoggerAfterInit` makes
them from the section `logging`, and `Sinks` says where a message of a level goes.  Each
`init()` may find that the file cannot be opened (`opened`): the stream is then there but
not open, also in the place of one that was, and `doLog()` writes nothing to it.  The
text of a message, DLT and the mutex of `doLog()`, which keeps lines apart, are left
out, and so is the text of a line of the file (trimming, the position of `=`): a line is
what the reader takes it for.

### MainLoopContext

`listeners[k]` are the lists, `calls` the stack of running notifications with their
iterators.  A callback is the time between `Invoke` and `Return` of the innermost
notification, and any operation may happen in it, except that it does not unsubscribe
the listener whose callback runs (of this or of an outer notification): the iterator of
the code would stand on a freed node, and the class leaves that to its callers.
`mirror` is what the listeners' main loops have recorded.

`Broadcast` is the promise: a notification calls exactly once each listener that was
subscribed when it began and still is, and nobody who subscribed since.

### Variant

A variant is `valueType` and `storage`; an object in the storage is its type and value.
Actions are the constructors, the destructor, assignment of values and of variants,
each with a variant in which the object's constructor throws, comparison and reading
by a binding, whose index may have no type.  A reading destroys the old object and stores
the index first; what comes then (the constructor of the `Deployable`, its `operator>>`, the
move into the storage) may throw (`ReadingThrows`), and leaves an index that names a type
and no object.  Objects are compared with the `==` of their type, which is external: the
relation `Equals` need not hold of a value and itself, and may hold of two values that
differ, so that an assignment between them is skipped (`AssignNothing`).

The ghost variables record when an object was overwritten alive (`leaked`) and when one was
used that was not there (`undefined`): after that C++ defines nothing, and the model stops.
`broken` has the variants of which an assignment or a reading threw, or that were assigned
their own value; the properties say that only these are ever in disorder.

### Serialization

A call is a tree, and a node of it the path that leads there: `<<>>` is the call, `<<i>>`
its `i`-th argument, `Append(p, i)` the `i`-th member of the struct `p`, or what the variant
`p` holds if it holds its `i`-th type.  `call` gives each node its type, its value and the
deployment that is declared for it; the alternatives that C++ chooses at compile time (a
struct with the deployments of its members, with one it cannot use, without any) are kinds
of these.  A pointer to a deployment is the node it is declared for, or `NullDepl`.

The readers and writers call each other recursively, down the tree.  `todo` is the stack of
the calls that are still to be made: `StructWriter`, `StructReader` and `StructTypeWriter`
replace the frame of a struct by frames for its members, from the first to the last; the
visitors of Variant.hpp replace that of a variant by one for its content, which they find,
with its deployment, by the index.  `StructReader` looks at the error of the stream before
each member but the first (`VisitChecked`, `SkipMember`).  `InputStreamReadVisitor` reads
the content into an object of its own, and sets the variant to it afterwards (`SetVariant`),
also if the content could not be read.  Each step of `writeType`, `writeValue` and
`readValue` is one such call.  `at` goes through the stages of a call: `announce`, when the
`TypeOutputStream` takes the types, `serialize`, and `deserialize` at the receiver, each
argument after the other, until an argument leaves the stream with an error.

An `InputStream` or `OutputStream` is what the code in `src/` requires of a binding: it has
an error from the element on at which it fails (`failAt`), and works on if it is called
again.  A stream that reads an element as something else, or with another deployment, than
it was written with returns `Garbage`.  A binding writes the index of a variant before its
content.  Vectors, maps and byte buffers are loops of the binding around the same calls,
and are left out.

The properties say without the templates what a call is to be written as: its `Elements`,
the numbers, texts, enumerations and indexes of variants that its values hold, at their
`Place` from left to right, with the deployment that is `Declared` for them.

### Address

A text is the sequence of its parts between the colons, a part a sequence of
characters, and a character its code.  `Set` is `setAddress`: the search for colons
amounts to three parts, or
four of which the third is a version or empty.  Setters and constructors are actions on
objects, and the ghost `whole` holds the objects that were last set as a whole.
`operator<` compares whole strings, in which the colons between the parts count as
characters, behind digits and before letters: `StringLess` looks for the first place
where two texts differ, and `CodeAt` says what is there, a character, a colon, or the
end, which is less than all of them.

## 4. The runs

| run | instance | shows |
|---|---|---|
| `EventRefinement` | 2 threads that are both dispatchers and clients, 2 subscriptions, 2 notifications | `SafeIteration`, `SubscriptionsStable`: mutexes and iterators; `HooksBalanced`, `RemovedHookOnce`; `ImplementsDelivery` (with fairness) and `CallsReturn` |
| `EventSerial` | 1 thread, 3 subscriptions, 3 notifications | the binding is armed exactly while there are subscriptions, also when listeners call |
| `Runtime` | 2 threads, 3 factories of 2 bindings, 4 addresses, 2 libraries, 4 calls | initialisation, loading and the search of factories; `UndefinedOnlyIfOverlapped`: `unregisterStub` is safe by itself; `CallsReturn` |
| `MainLoopContext` | 3 listeners, 2 sources, depth 3, one kind of source and wakeups | `IteratorsValid`, `MirrorsAgree`, `ImplementsBroadcast` |
| `AttributeCache` | 2 threads, 3 ids, 3 notifications, 2 values | the cache and its listeners, also after its subscription was dropped |
| `Variant` | 3 variants, 2 types, two values that are equal (0.0 and -0.0) and one that is not equal to itself (NaN) | the life of objects |
| `RuntimeLifetime` | 2 threads, 3 `get()`, all files of 2 lines and seven longer ones, 3 environments, a log file that opens or not | the singleton through threads, exceptions and the end of the process; the configuration and the Logger (`LoggingAsSaid`, a part of `ConfiguredAsSaid`) against what the file says |
| `Serialization` | calls of one argument of 9 types with deployments, or of two, the second of 4 of these, all values over 2 numbers, both streams failing at every element | `WrittenAsDeployed`, `SignatureAgrees`, `RoundTrip`; `FailureReported`, `NothingReadAfterFailure` |
| `Address` | 2 addresses, 10 texts of 2 to 5 parts, 3 values for each part | `ReadsBack`, `StrictOrder` |
| `EventHookRace` | 2 threads, no notification | **violated**: `SubscribedMeansArmed` |
| `EventLateDelivery` | a dispatcher and a client | **violated**: `NoDeliveryAfterUnsubscribe` |
| `RuntimeDeinit` | 2 threads, 2 `get()` | **violated**: `DeinitNeedsNoMutex` |

Why the bounds are enough.  Event: two subscriptions are one that is merged, or being
removed, beside one that is pending, and with three, in the run of one thread, an id is
in each state a removal distinguishes (merged, pending, merged and pending removal) at
the same time; the invariants of `EventRefinement` are also proved for all bounds;
two threads produce every overtaking of hooks, and two notifications a merge between
any two calls.  Ids do not wrap in the runs (`IdSpace` is at least `MaxSubscribes`):
the code relies on that for 2^32 subscriptions.  Runtime: four calls
are two overlapping requests with a registration and an unregistration, the least in
which every stale read matters; the second binding has two factories so that one can
be refused.  MainLoopContext: three listeners make an iterator with one node before
and one behind it, three nested notifications one below and one above a given one.
RuntimeLifetime: two overlapping `get()` and one after them are what an exception or a
destruction can matter to; two lines of a file are a section and its entry, or an entry
outside of any, and the longer files add repeated keys and sections, unclosed ones,
mappings of both kinds, and an exception after the first assignments.
Serialization: structs in structs, in variants, and variants in structs are every pair of
templates that call each other; two arguments put a failure before, in and behind the
first one, and no call has more than eight elements, the last at which a stream may fail.
Address: the texts have every number of parts around the two legal ones, and
a version that fails each of its conditions alone; an object is compared with another
one and with each text.
Variant: two types separate "first" from "other", three variants an assignment from
its bystander; the operations are on two variants at a time.  The three values are the
ways in which `==` can differ from identity, and the one in which it does not.

Deadlock is checked, except in `Runtime` (it stops when the bounded calls are used
up, and after undefined behaviour), `AttributeCache` (the same, for ids and notifications), `Serialization` (it stops
when the call arrived or failed), `RuntimeLifetime` and `Variant` (they stop after
undefined behaviour).  In the Event runs
clients can always unsubscribe an id they know once more, so a thread that hangs
shows as a violation of `CallsReturn` rather than as a deadlock.

Fairness.  `Event`, `Runtime` and `AttributeCache` assume weak fairness of each
thread's steps inside a call: threads are scheduled, hooks, callbacks and the calls of
factories return, and a mutex that stays free is granted.  Weak fairness is enough
because the bounded number of calls leaves each mutex free for good at last (`CallsReturn`
of `Runtime` promises nothing after undefined behaviour); a guarantee against starvation by endlessly many other calls is not claimed.  Nothing
makes a client call or a binding notify.  `RuntimeLifetime` has no liveness property and
assumes no fairness; nor have `Serialization` and `Address`, which are sequential.
The abstract `EventDelivery` assumes that
a notification, once begun, goes on, and the runs show that `Event` guarantees it.

The violated properties are statements of the repository:

* Event.hpp:47 promises to subscribe a listener.  The first and last hooks are called
  after `subscriptionMutex_` is released, so those of two threads can be called in
  the reverse order: a live subscription stays with a disarmed binding.
* CHANGES:48 reports the fix of deliveries after an unsubscription.  A notification
  that has merged still invokes a listener whose `unsubscribe` has returned.
* Runtime.cpp:38 says that `RuntimeDeinit` needs no mutex because it runs on the main
  thread.  Other threads may be in `get()` then, and use what it deletes.

A fourth statement is contradicted inside a passing run.  CHANGES:29 reports that the
self-assignment of variants was fixed.  `operator=` knows its own value only by comparing
(Variant.hpp:653), so a variant whose value is not equal to itself, such as a NaN, is
destroyed and then copied from what was destroyed; so is one in `v = v.get<T>()`, which
compares nothing.  `AssignVariant(v, v)` and `AssignOwnValue` do that in the model, and
`UndefinedOnlyIfBroken` has to except them: it is violated if `broken` does not record such
assignments.

Two more comments were found to be out of date.  AttributeCacheExtension.hpp:80 says that
reading a value that is not cached triggers its retrieval: the code has no such call, and
`valueRetrieved` is never used.  Event.hpp:63 warns that `unsubscribe`
inside a listener deadlocks, but the mutex it takes is free then (`EventSerial` and
`EventRefinement` make such calls).

## 5. The proofs

Every theorem is for all values of the constants that the named assumptions of its
module admit: the bounds are numbers, `NoThread` is no thread, names are not reused, and
what is said below.  Most properties are not inductive, and the invariants that imply
them say what the locks, or the order of the steps, are good for.

### Event (`EventProofs`)

* `TypeCorrect`: `TypeOK` is inductive.
* `IterationSafe`: `SafeInv == TypeOK /\ SafeIteration` is inductive.  Validity of
  iterators (`IteratorValid`) needs the ownership of the mutexes (`MutexesOwned`): only
  the merge changes `subscriptions_`, and it needs `notificationMutex_`, which any
  iterating thread holds.  `PendingConsistent` and `IdsFresh` are part of it because a
  new id must not be in any container.
* `SubscriptionsAreStable`: the action property, from the same invariant.
* `HooksAreBalanced`, `RemovedHookIsCalledOnce`: `HookInv` adds to the two properties
  `HookBooks`, which says what the open calls mean for the containers: the id of an
  open `subscribe` is known to nobody else, and an id is removed once, by
  `unsubscribe` or by `notifySpecificError`.
* `SingleThreadArmed`, `FirstHookDisarmed`, of `ArmedWhileSubscribed` and
  `FirstOnlyWhenDisarmed`: `ArmedInv` says what is true between the hooks of an open call, and
  `CallInListener` that such a
  call of the only thread is made outside of all notifications or in a callback.  That
  there is one thread is a premise (`SingleThread`): with two the property is false, as
  `EventHookRace` shows.
* `DeliversAsPromised`: every step of `Event` is a step of `EventDelivery` or leaves it
  alone.  `CursorInv` adds to `SafeInv` that the iterator of a notification is at an id
  that the call addresses, or at the end; what the abstract notification owes is what
  the iterator has before it, without the pending removals.

The hooks, the single thread and the refinement assume, in their statements (`NoWrap`),
that ids do not wrap.

### Runtime (`RuntimeProofs`)

No assumption but that an address has one library and a library registers one factory
(`NamesAssumption`), and that there is an address.

* `TypeCorrect`: `LockInv` adds to `TypeOK` who owns the mutexes (`MutexesOwned`) and
  that a cursor is on a registered factory (`LocalsValid`), without which asking a
  factory has no type: it holds because every change of `factories_` takes
  `factoriesMutex_`, and the helpers keep it while they ask.
* `InitsCounted`, `AskedInitialized`: `InitBooks` relates `isInitialized_` to the calls
  of `init()`: a thread past the unlocked check needs no lock, because the flag is never
  reset and whoever registers later is initialised at once.  `RegistryInv` says that a
  factory is registered under its own binding.
* `LibrariesOpenedOnce`: `LoadInv` counts a library as opened if it is recorded or in the
  hands of the one thread that has opened and not yet recorded it.
* `LoadedServed`, `DefaultLast`: `TryInv` adds to these what the second try of a request
  has behind it.  `ServeInv`: a library that is open has given its factory to the
  Runtime, or it was ousted since, or is about to register.  `TriedInv`: a request uses
  the default factory only when its library is recorded or absent.  `AskedInv`: the
  factories before its cursor cannot serve it, which stays true because the thread
  holds both mutexes.  `GaveUpInv`: one that gave up on a loaded library had its factory
  ousted.
* `SafeUnlessOverlapped`: `OverlapInv` says that while nobody changes the factories
  (`overlapped`), the iterator of an `unregisterStub` stays on an element, and the default
  factory that it has checked, or read, stays the one (`Valid`).

### Lifetime (`RuntimeLifetimeProofs`)

* `MutexLeft`, from `BaseInv`: also every Runtime is as built or as `init()` left it.
* `ReturnedConfigured`, `OneForAll`, `DefinedAlone`: `LifetimeInv` is `BaseInv` with
  `ResolvedInv` (only the holder of `getMutex__` has a Runtime that `init()` is not done
  with), `AloneInv` (how far creation and destruction are while they do not overlap) and
  `HeldInv` (before the end of the process, what one caller was given is what all get).
* `TimeoutsStaySane` needs that numbers are what `std::stoi` can return, and the timeouts
  of callers what the parameter can hold (`IntsAssumption`).
* `ConfiguredFromFile`, `LibraryFromFile`: what the process found never changes
  (`InputInv`), so `BaseInv` reduces them to what `init()` makes of a file, and
  `LoggedInv` says that a second `init()`, in a Runtime after the first one, leaves nothing
  of the first one in the Logger, not even its open file.  `LoadFacts` is the heart: what is read line by line is what the
  file says as a whole.  `HasRead` relates the reader after some lines to the sections
  and entries among them, `LineRead` shows that each line keeps it, and `TextRead` that
  it is true of all lines, because there is no least number of lines after which it is
  not; the same argument (`Least`) shows that the recursive function exists at all.
  Assumed is that what is read is a text, whose sections have names
  (`FilesAssumption`), and that the empty string is not the name of a level
  (`EmptyAssumption`).

### Main loops (`MainLoopContextProofs`)

`EndAssumption` says that `end()` is no node of a list.

* `IteratorsStayValid`: `StackInv` adds to the property that a node is in one list only;
  otherwise the end of a subscription could free a node that an iteration over another
  list is on.
* `BroadcastsAsPromised`: the refinement of `Broadcast`.  What a notification owes is
  the part of the list behind its iterator.  The lemmas follow it through each change of
  a list that happens under the iterator: a node at the front is never owed, an erased
  one no longer is, and the order of the rest stays.
* `MirrorsStayTrue`: `MirrorsAgree` is about the time when no notification runs, so
  `MirrorInv` says what is true meanwhile.  For each source whose registration and
  deregistration did not overlap, all notifications that still owe a call to a listener
  say the same, and what they will say is what is missing in its mirror.

### Attribute cache (`AttributeCacheProofs`)

* `CacheInStep`, `CacheBeforeListeners`, from `CacheInv`: ids grow (`IdsGrow`), and what
  a notification to all still owes behind the id of the extension is owed after the update
  (`CacheFirst`).

### Variant (`VariantProofs`)

* `LifeInvariant`: `LifeInv` is inductive.  `ContentTyped` alone is not: it says nothing
  of broken variants, which are still assigned, read and destroyed.  `ContentInv` says what
  remains true of these: the storage is empty or of the type of the index.  Nothing is
  assumed of `Equals`.
* `ContentIsTyped`, `NothingIsLeaked`, `OnlyBrokenIsUndefined`: its consequences.

### Serialization (`SerializationProofs`)

The calls are any finite trees (`CallsAssumption`: the members and types of a node are
numbered from 1, and a variant has the index of one of its types), and the streams fail at
any element or at none (`FailuresAssumption`).

Reading and writing is recursive, but no theorem needs an induction over the depth of a
call.  `Before` orders the paths, a node before what is below it and before what is right of
it, and `PlaceFacts` says that the places of the elements are the numbers from 1 to their
count, in this order.  The elements that are still to come are those that are covered by a
frame of the stack, and those of the arguments behind (`Rest`).  `IsStack` says that the
frames cover disjoint parts of the call, from left to right.  Then `Remains` is invariant:
what is still to come is always everything behind one place.  The lemmas `StructStep`,
`VariantStep` and `ElementStep` show that a call only divides what it covers, or moves on
by one element, which is the next one (`NextElement`).

`SerialInvariant`: `SerialInv` is inductive.  It has four parts:

* `StackInv`: the stack is one, and empty when the call has arrived or failed.
* `AnnounceInv`: the announced types are those of the elements up to where the
  `TypeOutputStream` is.  Each frame has the deployment that is declared for its node, or an
  empty one where a struct has handed an `EmptyDeployment` on (`AllAnnounced`): that the
  elements below get the same by both rules is `AnnouncedElement`.
* `WriteInv`: so are the elements of the `OutputStream`, as long as it has no error; if it
  has one, it has passed the element it fails at, and since an error stops no writer,
  `serialize()` sees it behind the argument.
* `ReadInv`: the `InputStream` is at the place it has read up to, or stopped where it
  failed, because then every frame left is one that looks at the error first, or sets a
  variant (`ChecksErrors`).  A target is as sent up to that place and as initialised behind
  it, but a variant whose content is not yet read has its index still in the frame that
  will set it (`Received`, `Sets`).

`SpecWrittenAsDeployed`, `SpecSignatureAgrees`, `SpecRoundTrip`, `SpecFailureReported` and
`SpecNothingReadAfterFailure` follow: where the stack is empty, what is still to come is
behind one place, and all before it is done.

### Address (`AddressProofs`)

The texts are any sequences of parts, over all characters but the colon
(`TextsAssumption`); the constants `Texts` and `Parts` only say which of them a program
uses.

* `AddressReadsBack`: `WholeInv` says that an address that took a text is what was read
  of some text, also after it was copied or compared.
* `AddressesOrdered`: `AddressType` is inductive, and `StringLess` is a strict total order
  of texts of any length.  `Agree` says that two texts are the same up to a place, and
  the proofs compare the places where each pair of three texts first differs.  Such a
  place exists by `Least`: a set of numbers that is not empty has a least element.

### Only model-checked

* Liveness, which TLAPS cannot prove: `CallsReturn`, `UpdatesArrive`, and the fairness
  that `ImplementsDelivery` asks for (`DeliversAsPromised` is about its safety).

## 6. Not modelled

* An index of a variant that no type has and that comes from a peer: the code only logs
  it (Variant.hpp:346) and leaves the variant to the binding; the life of such a variant
  is in `Variant`, its content is not read.
* What DLT gets, and how lines of several threads are kept apart by `doLog`.
* What follows a data race: a torn map or list.  `Runtime` stops where `unregisterStub` runs
  into one; those on the lists of `MainLoopContext` and on `properties__` are left out.
* What the program does with a variant after its object was used though it was not there.
* The destruction of an `AttributeCacheExtension` or `Event` in use.
* `Proxy`, `ProxyManager` and value types: they have no protocol of their
  own.  Interfaces and build headers: no behaviour.
* What is behind the interfaces: bindings, `dlopen`, operating system, main loops.
