--------------------------- MODULE RuntimeLifetime ---------------------------
(***************************************************************************)
(* The singleton of CommonAPI::Runtime (src/CommonAPI/Runtime.cpp): get()  *)
(* creates and configures it on first use, and RuntimeDeinit, which the    *)
(* main thread runs at the end of the process, destroys it.                *)
(*                                                                         *)
(* theRuntimePtr__ is a pointer to a shared_ptr.  get() locks getMutex__;  *)
(* RuntimeDeinit does not, and other threads may still be in get().  After *)
(* RuntimeDeinit, destructors of other objects may call get() again.       *)
(*                                                                         *)
(* MaxGets bounds the calls of get().                                      *)
(***************************************************************************)
EXTENDS Configuration

CONSTANTS
    Threads, Main, NoThread,
    Environments,  \* the environments and
    FileSystems,   \* the files that the process may find
    Bases,         \* the values of the property LibraryBase
    Addresses,     \* what proxies and stubs are looked up by
    Timeouts,      \* the timeouts that calls are made with
    MaxGets        \* bound: calls of get()

ASSUME ThreadsAssumption == Main \in Threads /\ NoThread \notin Threads
ASSUME MaxGetsAssumption == MaxGets \in Nat

\* What std::stoi can return.
Ints == (-MaxTimeout - 1) .. MaxTimeout

ASSUME FilesAssumption ==
    \A e \in Environments, f \in FileSystems :
        UsedFile(e, f) \in {Missing, Unreadable} \/ IsText(UsedFile(e, f))
ASSUME IntsAssumption ==
    /\ \A x \in Timeouts : x \in Ints
    /\ \A e \in Environments : e.timeout \in {Unset, NoNumber} \/ e.timeout \in Ints
    /\ \A e \in Environments, f \in FileSystems :
          UsedFile(e, f) # Unreadable =>
             LET timeout == GetValue(Sections(UsedFile(e, f)), "default", "callTimeout")
             IN  timeout \in {Empty, NoNumber} \/ timeout \in Ints

VARIABLES
    env, files,   \* what the process found
    base,         \* the property LibraryBase
    pointer,      \* theRuntimePtr__: "null", "valid", or "deleted"
    object,       \* the Runtime in *theRuntimePtr__, or NoRuntime
    runtimes,     \* the Runtimes created so far, in order
    logger,       \* the Logger
    opened,       \* external: whether the log file could be opened when init() last ran
    getMutex,     \* the owner of getMutex__
    thread,       \* thread[t]: where t is in get(), and what get() last gave it
    deinit,       \* where the main thread is in RuntimeDeinit
    threw,        \* ghost: the Runtimes whose init() threw
    overlapped,   \* ghost: some get() ran at the same time as RuntimeDeinit
    undefined,    \* ghost: a pointer was followed that was null or deleted
    gets          \* counts get(), for MaxGets

input == <<env, files>>
outside == <<input, logger, opened>>

vars == <<input, base, pointer, object, runtimes, logger, opened, getMutex, thread,
          deinit, threw, overlapped, undefined, gets>>

NoRuntime == 0

Calls == [at : {"idle",
                "lock",           \* before getMutex__ is locked
                "checkPointer",   \* line 65
                "checkObject",    \* lines 68 and 69
                "init",           \* line 71
                "return"},        \* line 73
          got : Nat, failed : BOOLEAN]

Init ==
    /\ env \in Environments
    /\ files \in FileSystems
    /\ base = Empty
    /\ pointer = "null"
    /\ object = NoRuntime
    /\ runtimes = <<>>
    /\ logger = NewLogger
    /\ opened = FALSE
    /\ getMutex = NoThread
    /\ thread = [t \in Threads |-> [at |-> "idle", got |-> NoRuntime, failed |-> FALSE]]
    /\ deinit = "no"
    /\ threw = {}
    /\ overlapped = FALSE
    /\ undefined = FALSE
    /\ gets = 0

Goto(t, at) == thread' = [thread EXCEPT ![t].at = at]

InGet(t) == thread[t].at # "idle"

InDeinit == deinit \in {"reset", "delete", "clear"}

\* Mutant: the mutex stays locked when init() throws.
StaysLocked(t, runtime, failed) ==
    /\ getMutex' = IF failed THEN getMutex ELSE NoThread
    /\ thread' = [thread EXCEPT ![t] = [at |-> "idle", got |-> runtime, failed |-> failed]]

\* A call of get() ends: with a Runtime, with nullptr, or with an exception.
Leave(t, runtime, failed) ==
    /\ getMutex' = NoThread
    /\ thread' = [thread EXCEPT ![t] = [at |-> "idle", got |-> runtime, failed |-> failed]]

------------------------------------------------------------------------------
(***************************************************************************)
(* setProperty("LibraryBase", b) and get()                                 *)
(***************************************************************************)
SetProperty(b) ==
    /\ ~undefined
    /\ base' = b
    /\ UNCHANGED <<outside, pointer, object, runtimes, getMutex, thread, deinit, threw,
                   overlapped, undefined, gets>>

Get(t) ==
    /\ ~undefined
    /\ ~InGet(t)
    /\ t = Main => ~InDeinit
    /\ gets < MaxGets
    /\ gets' = gets + 1
    /\ Goto(t, "lock")
    /\ overlapped' = (overlapped \/ InDeinit)
    /\ UNCHANGED <<outside, base, pointer, object, runtimes, getMutex, deinit, threw, undefined>>

\* Mutant: no mutex.
LockGetFreely(t) ==
    /\ thread[t].at = "lock"
    /\ getMutex' = t
    /\ Goto(t, "checkPointer")
    /\ UNCHANGED <<outside, base, pointer, object, runtimes, deinit, threw, overlapped,
                   undefined, gets>>

LockGet(t) ==
    /\ thread[t].at = "lock"
    /\ getMutex = NoThread
    /\ getMutex' = t
    /\ Goto(t, "checkPointer")
    /\ UNCHANGED <<outside, base, pointer, object, runtimes, deinit, threw, overlapped,
                   undefined, gets>>

\* Mutant: a new pointer for every call.
AllocateAnew(t) ==
    /\ thread[t].at = "checkPointer"
    /\ pointer' = "valid"
    /\ object' = NoRuntime
    /\ Goto(t, "checkObject")
    /\ UNCHANGED <<outside, base, runtimes, getMutex, deinit, threw, overlapped, undefined, gets>>

CheckPointer(t) ==
    /\ thread[t].at = "checkPointer"
    /\ pointer' = IF pointer = "null" THEN "valid" ELSE pointer
    /\ object' = IF pointer = "null" THEN NoRuntime ELSE object
    /\ Goto(t, "checkObject")
    /\ UNCHANGED <<outside, base, runtimes, getMutex, deinit, threw, overlapped, undefined, gets>>

CheckObject(t) ==
    /\ thread[t].at = "checkObject" /\ pointer = "valid"
    /\ IF object = NoRuntime
       THEN /\ runtimes' = Append(runtimes, Builtin)
            /\ object' = Len(runtimes')
            /\ Goto(t, "init")
       ELSE Goto(t, "return") /\ UNCHANGED <<object, runtimes>>
    /\ UNCHANGED <<outside, base, pointer, getMutex, deinit, threw, overlapped, undefined, gets>>

\* Line 75: the pointer has become null since line 65.
ReturnNull(t) ==
    /\ thread[t].at = "checkObject" /\ pointer = "null"
    /\ Leave(t, NoRuntime, FALSE)
    /\ UNCHANGED <<outside, base, pointer, object, runtimes, deinit, threw, overlapped,
                   undefined, gets>>

\* init() of the new Runtime.  When it throws, the Runtime stays the singleton.  A
\* RuntimeDeinit during init() has the same outcome as one just before it.
InitRuntime(t) ==
    /\ thread[t].at = "init" /\ pointer = "valid" /\ object # NoRuntime
    /\ runtimes' = [runtimes EXCEPT ![object] = Configured(env, files)]
    /\ opened' \in BOOLEAN
    /\ logger' = LoggerAfterInit(logger, env, files, opened')
    /\ IF InitThrows(env, files)
       THEN /\ threw' = threw \cup {object}
            /\ Leave(t, NoRuntime, TRUE)
       ELSE Goto(t, "return") /\ UNCHANGED <<threw, getMutex>>
    /\ UNCHANGED <<input, base, pointer, object, deinit, overlapped, undefined, gets>>

ReturnRuntime(t) ==
    /\ thread[t].at = "return" /\ pointer = "valid"
    /\ Leave(t, object, FALSE)
    /\ UNCHANGED <<outside, base, pointer, object, runtimes, deinit, threw, overlapped,
                   undefined, gets>>

\* get() follows a deleted or null pointer, or calls init() of no object.
FollowDangling(t) ==
    /\ \/ thread[t].at = "checkObject" /\ pointer = "deleted"
       \/ thread[t].at = "init" /\ (pointer # "valid" \/ object = NoRuntime)
       \/ thread[t].at = "return" /\ pointer # "valid"
    /\ undefined' = TRUE
    /\ UNCHANGED <<outside, base, pointer, object, runtimes, getMutex, thread, deinit, threw,
                   overlapped, gets>>

------------------------------------------------------------------------------
(***************************************************************************)
(* RuntimeDeinit: three steps without a lock, unless there is nothing to   *)
(* destroy.                                                                *)
(***************************************************************************)
StartDeinit ==
    /\ ~undefined
    /\ deinit = "no" /\ ~InGet(Main)
    /\ deinit' = IF pointer = "null" THEN "done" ELSE "reset"
    /\ overlapped' = (overlapped \/ \E t \in Threads : InGet(t))
    /\ UNCHANGED <<outside, base, pointer, object, runtimes, getMutex, thread, threw,
                   undefined, gets>>

ResetObject ==
    /\ deinit = "reset"
    /\ object' = NoRuntime
    /\ deinit' = "delete"
    /\ UNCHANGED <<outside, base, pointer, runtimes, getMutex, thread, threw, overlapped,
                   undefined, gets>>

\* Mutant: the deleted pointer is kept.
KeepPointer ==
    /\ deinit = "clear"
    /\ deinit' = "done"
    /\ UNCHANGED <<outside, base, pointer, object, runtimes, getMutex, thread, threw, overlapped,
                   undefined, gets>>

DeletePointer ==
    /\ deinit = "delete"
    /\ pointer' = "deleted"
    /\ deinit' = "clear"
    /\ UNCHANGED <<outside, base, object, runtimes, getMutex, thread, threw, overlapped,
                   undefined, gets>>

ClearPointer ==
    /\ deinit = "clear"
    /\ pointer' = "null"
    /\ deinit' = "done"
    /\ UNCHANGED <<outside, base, object, runtimes, getMutex, thread, threw, overlapped,
                   undefined, gets>>

GetStep(t) ==
    /\ ~undefined
    /\ \/ LockGet(t) \/ CheckPointer(t) \/ CheckObject(t) \/ ReturnNull(t)
       \/ InitRuntime(t) \/ ReturnRuntime(t) \/ FollowDangling(t)

DeinitStep == ~undefined /\ (ResetObject \/ DeletePointer \/ ClearPointer)

Next ==
    \/ \E b \in Bases : SetProperty(b)
    \/ \E t \in Threads : Get(t) \/ GetStep(t)
    \/ StartDeinit \/ DeinitStep

Spec == Init /\ [][Next]_vars

------------------------------------------------------------------------------
(***************************************************************************)
(* Properties                                                              *)
(***************************************************************************)
\* Every variable has its type.
TypeOK ==
    /\ base \in Bases \cup {Empty}
    /\ pointer \in {"null", "valid", "deleted"}
    /\ object \in 0 .. Len(runtimes)
    /\ logger.console \in BOOLEAN /\ Rank(logger.level) \in 0 .. Len(Levels)
    /\ logger.file \in {"none", "closed", "open"} /\ opened \in BOOLEAN
    /\ getMutex \in Threads \cup {NoThread}
    /\ thread \in [Threads -> Calls]
    /\ \A t \in Threads : thread[t].got <= Len(runtimes)
    /\ deinit \in {"no", "reset", "delete", "clear", "done"}
    /\ threw \subseteq DOMAIN runtimes
    /\ overlapped \in BOOLEAN /\ undefined \in BOOLEAN
    /\ gets \in 0 .. MaxGets

\* What get() returns has been configured, whichever thread created it, unless its
\* init() threw: then it is returned without a configuration ever after.  And a thread
\* that has a Runtime may log: until RuntimeDeinit no other thread is in init(), which
\* sets up the Logger without its mutex (Logger.cpp:87).
ConfiguredUnlessThrew ==
    \A t \in Threads :
        LET r == thread[t].got
        IN  r # NoRuntime =>
                /\ runtimes[r].isConfigured <=> r \notin threw
                /\ deinit = "no" => \A u \in Threads : thread[u].at # "init"

\* There is one Runtime until the process ends, and at most one more after that, as
\* long as no get() runs at the same time as RuntimeDeinit.
OneRuntime ==
    ~overlapped => Len(runtimes) <= (IF deinit \in {"no", "reset"} THEN 1 ELSE 2)

\* get() before RuntimeDeinit, or after it, is safe: only one at the same time is not.
DefinedUnlessOverlapped == undefined => overlapped

\* Whichever way a get() ends, with a Runtime, with nullptr or by an exception of
\* init(), it leaves getMutex__ to others.
MutexOwned ==
    /\ TypeOK
    /\ \A t \in Threads :
          getMutex = t <=> thread[t].at \in {"checkPointer", "checkObject", "init", "return"}

\* The text that the configuration was read from.
TextSaid == IF UsedFile(env, files) \in {Missing, Unreadable} THEN <<>> ELSE UsedFile(env, files)

Said(name, key) == ValueSaid(TextSaid, name, key)

\* A message goes to the console and to the file as the section "logging" says, even if
\* a timeout behind it is no number: to the console, up to "info", without that section,
\* and to the file if it could be opened by the last init(), whatever an earlier one did.
LoggingAsSaid ==
    \A i \in DOMAIN runtimes, level \in Range(Levels) :
        runtimes[i].isConfigured \/ i \in threw =>
            LET said(key) == Said("logging", key)
                limit == IF said("level") \in Range(Levels) \cup {"none"}
                         THEN said("level") ELSE "info"
                isLogged == Rank(level) <= Rank(limit)
                hasSection == Headers(TextSaid, "logging") # {}
            IN  /\ "file" \in Sinks(logger, level) <=> isLogged /\ said("file") # Empty /\ opened
                /\ "console" \in Sinks(logger, level) <=>
                      isLogged /\ (hasSection => said("console") = True)

\* A configured Runtime has the binding and the folder of the environment, else those
\* that the first definition of the first section in the file says, else the built-in
\* ones; likewise its timeout, which the environment of the Runtime does not set.  The
\* Logger is set up as said, too, even by an init() that throws.
ConfiguredAsSaid ==
    /\ LoggingAsSaid
    /\ \A i \in DOMAIN runtimes : runtimes[i].isConfigured =>
          /\ runtimes[i].binding = IF env.binding # Unset THEN env.binding
                                   ELSE Or(Said("default", "binding"), BuiltinBinding)
          /\ runtimes[i].folder = IF env.folder # Unset THEN env.folder
                                  ELSE Or(Said("default", "folder"), BuiltinFolder)
          /\ runtimes[i].timeout = Or(Said("default", "callTimeout"), DefaultTimeout)

\* getLibrary() returns what the section of proxies or that of stubs says of the
\* address; if that says nothing, what LibraryBase says, and then the default binding
\* counts; and else the name of the address.
LibraryAsSaid ==
    \A i \in DOMAIN runtimes, a \in Addresses, p \in BOOLEAN : runtimes[i].isConfigured =>
        LET said == {j \in DOMAIN TextSaid :
                        j \in Entries(TextSaid, IF p THEN "proxy" ELSE "stub", a)}
            library == GetLibrary(runtimes[i], base, a, p)
        IN  IF said # {} THEN library = TextSaid[Min(said)].value
            ELSE IF base # Empty THEN library = <<base, runtimes[i].binding>>
            ELSE library = <<Flattened[a]>>

\* Whatever the file, the environment and the caller ask for, the timeout of a call is
\* a number of milliseconds, and a copied CallInfo has the timeout of the original.
TimeoutsSane ==
    \A i \in DOMAIN runtimes, x \in Timeouts : env.timeout # NoNumber =>
        LET timeout == CallTimeout(runtimes[i], env, x)
        IN  /\ timeout \in 0 .. MaxTimeout
            /\ CallTimeout(runtimes[i], env, timeout) = timeout

(***************************************************************************)
(* What a comment says, and the code does not do.                          *)
(***************************************************************************)
\* RuntimeDeinit needs no mutex (Runtime.cpp:38): no get() follows what it deletes.
DeinitNeedsNoMutex == ~undefined
==============================================================================
