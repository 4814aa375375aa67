------------------------ MODULE RuntimeLifetimeProofs ------------------------
(***************************************************************************)
(* Theorems about RuntimeLifetime, for any threads, environments, files    *)
(* and number of calls.  They hold wherever RuntimeDeinit interferes,      *)
(* unless the property excludes it by ~overlapped.                         *)
(***************************************************************************)
EXTENDS RuntimeLifetime, WellFoundedInduction, TLAPS

-----------------------------------------------------------------------------
(***************************************************************************)
(* The inductive invariant                                                 *)
(***************************************************************************)
\* The Runtimes are in one of two states.
BooksInv == runtimes \in Seq({Builtin, Configured(env, files)})

\* init() of the Runtime has come to an end, one way or the other.
Resolved(r) == runtimes[r].isConfigured <=> r \notin threw

\* A Runtime that init() has not come to an end for is in nobody's hands, and the mutex
\* that is held meanwhile keeps it the last one.
ResolvedInv ==
    /\ \A t \in Threads : thread[t].got # NoRuntime => Resolved(thread[t].got)
    /\ (object # NoRuntime /\ \A t \in Threads : thread[t].at # "init") => Resolved(object)
    /\ \A t \in Threads : (thread[t].at = "init" /\ object # NoRuntime) =>
          object \notin threw /\ \A u \in Threads : thread[u].got # object

\* How far the singleton is while get() and RuntimeDeinit do not overlap.
Alive == IF object = NoRuntime THEN 0 ELSE 1

StageInv ==
    /\ deinit = "no" => Len(runtimes) = Alive
    /\ deinit = "reset" => Len(runtimes) <= 1
    /\ deinit \in {"delete", "clear"} => Len(runtimes) <= 1 /\ object = NoRuntime
    /\ deinit = "done" => Len(runtimes) <= 1 + Alive
    /\ deinit \in {"no", "done"} =>
          pointer \in {"null", "valid"} /\ (pointer = "null" => object = NoRuntime)

AloneInv ==
    /\ deinit = "no" => ~overlapped
    /\ undefined => overlapped
    /\ ~overlapped =>
          /\ StageInv
          /\ \A t \in Threads :
                /\ InGet(t) => deinit \in {"no", "done"}
                /\ thread[t].at \in {"checkObject", "init", "return"} => pointer = "valid"
                /\ thread[t].at \in {"init", "return"} => object # NoRuntime

\* Before RuntimeDeinit, the Runtime that anyone was given is the one that all get.
HeldInv ==
    deinit = "no" /\ (\E t \in Threads : thread[t].got # NoRuntime) =>
        /\ pointer = "valid" /\ object # NoRuntime
        /\ \A t \in Threads : thread[t].at # "init"

-----------------------------------------------------------------------------
(***************************************************************************)
(* What init() does to a Runtime and to the Logger                         *)
(***************************************************************************)
\* A Runtime is configured unless its init() throws.
LEMMA ConfiguredFacts ==
    /\ Builtin.isConfigured = FALSE
    /\ Configured(env, files).isConfigured = ~InitThrows(env, files)
<1> DEFINE file == UsedFile(env, files)
           value(key) == GetValue(Sections(file), "default", key)
           runtime == WithFile(Builtin, file)
<1>1. Builtin.isConfigured = FALSE /\ "isConfigured" \in DOMAIN Builtin
  BY DEF Builtin
<1>2. runtime.isConfigured = FALSE /\ "isConfigured" \in DOMAIN runtime
  <2>1. CASE file = Unreadable
    BY <1>1, <2>1 DEF WithFile
  <2>2. CASE ReadThrows(file)
    BY <1>1, <2>2 DEF WithFile, Builtin
  <2>3. CASE file # Unreadable /\ ~ReadThrows(file)
    BY <1>1, <2>3 DEF WithFile, Builtin
  <2> QED BY <2>1, <2>2, <2>3
<1>3. WithEnvironment(runtime, env).isConfigured = FALSE
      /\ "isConfigured" \in DOMAIN WithEnvironment(runtime, env)
  BY <1>2 DEF WithEnvironment
<1>4. [WithEnvironment(runtime, env) EXCEPT !.isConfigured = TRUE].isConfigured = TRUE
  BY <1>3
<1> HIDE DEF runtime
<1>5. Configured(env, files) = IF InitThrows(env, files) THEN runtime
                ELSE [WithEnvironment(runtime, env) EXCEPT !.isConfigured = TRUE]
  BY DEF Configured, runtime, file
<1>6. InitThrows(env, files) \in BOOLEAN
  BY DEF InitThrows, ReadThrows
<1> QED BY <1>1, <1>2, <1>4, <1>5, <1>6

\* Every level has a rank.
LEMMA RankType ==
    \A level \in Range(Levels) \cup {"none"} : Rank(level) \in 0 .. Len(Levels)
<1>1. Rank("none") = 0 /\ Len(Levels) = 6
  BY DEF Rank, Levels
<1>2. ASSUME NEW level \in Range(Levels), level # "none"
      PROVE  Rank(level) \in 0 .. Len(Levels)
  <2>1. \E i \in DOMAIN Levels : Levels[i] = level
    BY <1>2 DEF Range
  <2>2. Rank(level) \in DOMAIN Levels
    BY <1>2, <2>1 DEF Rank
  <2>3. DOMAIN Levels = 1 .. 6
    BY DEF Levels
  <2> QED BY <1>1, <2>2, <2>3
<1> QED BY <1>1, <1>2

LoggerType ==
    /\ logger.console \in BOOLEAN /\ Rank(logger.level) \in 0 .. Len(Levels)
    /\ logger.file \in {"none", "closed", "open"} /\ opened \in BOOLEAN

\* The Logger stays one through init().
LEMMA LoggerAfterInitType ==
    ASSUME LoggerType, opened' \in BOOLEAN,
           logger' = LoggerAfterInit(logger, env, files, opened')
    PROVE  LoggerType'
<1>1. CASE UsedFile(env, files) = Unreadable
  BY <1>1 DEF LoggerType, LoggerAfterInit
<1>2. CASE UsedFile(env, files) # Unreadable
  <2> DEFINE sections == Sections(UsedFile(env, files))
  <2>1. logger' = LoggerWith(logger, sections, opened')
    BY <1>2 DEF LoggerAfterInit
  <2>2. AsLevel(GetValue(sections, "logging", "level")) \in Range(Levels) \cup {"none"}
    <3>1. "info" = Levels[4] /\ 4 \in DOMAIN Levels
      BY DEF Levels
    <3> QED BY <3>1 DEF AsLevel, Range
  <2> HIDE DEF sections
  <2>3. /\ logger'.console = ("logging" \in DOMAIN sections
                                 => GetValue(sections, "logging", "console") = True)
        /\ logger'.level = AsLevel(GetValue(sections, "logging", "level"))
        /\ logger'.file \in {logger.file, "open", "closed"}
    BY <2>1 DEF LoggerWith
  <2> QED BY <2>2, <2>3, RankType DEF LoggerType
<1> QED BY <1>1, <1>2

LEMMA NewLoggerType == logger = NewLogger /\ opened = FALSE => LoggerType
<1>1. "info" = Levels[4] /\ 4 \in DOMAIN Levels
  BY DEF Levels
<1>2. "info" \in Range(Levels)
  BY <1>1 DEF Range
<1>3. Rank("info") \in 0 .. Len(Levels)
  BY <1>2, RankType
<1>4. NewLogger.console = TRUE /\ NewLogger.file = "none" /\ NewLogger.level = "info"
  BY DEF NewLogger
<1> HIDE DEF NewLogger
<1> QED BY <1>3, <1>4 DEF LoggerType

-----------------------------------------------------------------------------
(***************************************************************************)
(* The mutex                                                               *)
(***************************************************************************)
BaseInv == MutexOwned /\ BooksInv

\* The Runtimes are a sequence.
LEMMA RuntimesFacts ==
    ASSUME BooksInv
    PROVE  /\ Len(runtimes) \in Nat /\ DOMAIN runtimes = 1 .. Len(runtimes)
           /\ \A r \in DOMAIN runtimes : runtimes[r] \in {Builtin, Configured(env, files)}
BY DEF BooksInv

LEMMA InitBase == Init => BaseInv
<1> SUFFICES ASSUME Init PROVE BaseInv
  OBVIOUS
<1>1. BooksInv
  BY DEF Init, BooksInv
<1>2. LoggerType
  BY NewLoggerType DEF Init
<1>3. thread \in [Threads -> Calls]
  BY DEF Init, Calls, NoRuntime
<1>4. TypeOK
  <2>1. runtimes = <<>> /\ object = 0 /\ \A t \in Threads : thread[t].got = 0
    BY DEF Init, NoRuntime
  <2>2. Len(runtimes) = 0
    BY <2>1
  <2>3. gets \in 0 .. MaxGets
    BY MaxGetsAssumption DEF Init
  <2>4. /\ logger.console \in BOOLEAN /\ Rank(logger.level) \in 0 .. Len(Levels)
        /\ logger.file \in {"none", "closed", "open"} /\ opened \in BOOLEAN
    BY <1>2 DEF LoggerType
  <2>5. /\ base \in Bases \cup {Empty} /\ pointer \in {"null", "valid", "deleted"}
        /\ getMutex \in Threads \cup {NoThread} /\ threw \subseteq DOMAIN runtimes
        /\ deinit \in {"no", "reset", "delete", "clear", "done"}
        /\ overlapped \in BOOLEAN /\ undefined \in BOOLEAN
    BY DEF Init
  <2>6. object \in 0 .. Len(runtimes) /\ \A t \in Threads : thread[t].got <= Len(runtimes)
    BY <2>1, <2>2
  <2> QED BY <1>3, <2>3, <2>4, <2>5, <2>6 DEF TypeOK
<1> QED BY <1>1, <1>4, ThreadsAssumption DEF Init, BaseInv, MutexOwned

\* What the sequence of Runtimes becomes.
LEMMA AppendFacts ==
    ASSUME BooksInv, runtimes' = Append(runtimes, Builtin), env' = env, files' = files
    PROVE  /\ runtimes' \in Seq({Builtin, Configured(env, files)})'
           /\ Len(runtimes') = Len(runtimes) + 1
           /\ \A r \in DOMAIN runtimes : runtimes'[r] = runtimes[r]
           /\ runtimes'[Len(runtimes')] = Builtin
BY DEF BooksInv

LEMMA ConfigureFacts ==
    ASSUME BooksInv, object \in DOMAIN runtimes, env' = env, files' = files,
           runtimes' = [runtimes EXCEPT ![object] = Configured(env, files)]
    PROVE  /\ runtimes' \in Seq({Builtin, Configured(env, files)})'
           /\ Len(runtimes') = Len(runtimes)
           /\ \A r \in DOMAIN runtimes \ {object} : runtimes'[r] = runtimes[r]
           /\ runtimes'[object] = Configured(env, files)
BY DEF BooksInv

\* A call of get() that ends, and one that goes on.
LEMMA LeaveFacts ==
    ASSUME TypeOK, NEW t \in Threads, NEW r \in Nat, NEW f \in BOOLEAN, Leave(t, r, f)
    PROVE  /\ thread' \in [Threads -> Calls] /\ getMutex' = NoThread
           /\ thread'[t].at = "idle" /\ thread'[t].got = r
           /\ \A u \in Threads \ {t} : thread'[u] = thread[u]
BY DEF Leave, TypeOK, Calls

LEMMA GotoFacts ==
    ASSUME TypeOK, NEW t \in Threads,
           NEW at \in {"lock", "checkPointer", "checkObject", "init", "return"}, Goto(t, at)
    PROVE  /\ thread' \in [Threads -> Calls]
           /\ thread'[t].at = at /\ thread'[t].got = thread[t].got
           /\ \A u \in Threads \ {t} : thread'[u] = thread[u]
BY DEF Goto, TypeOK, Calls

LEMMA NextBase == BaseInv /\ [Next]_vars => BaseInv'
<1> SUFFICES ASSUME BaseInv, [Next]_vars PROVE BaseInv'
  OBVIOUS
<1> DEFINE Owned == \A t \in Threads :
              getMutex = t <=> thread[t].at \in {"checkPointer", "checkObject", "init", "return"}
<1>0. /\ TypeOK /\ Owned /\ BooksInv /\ LoggerType
      /\ Len(runtimes) \in Nat /\ DOMAIN runtimes = 1 .. Len(runtimes)
  BY RuntimesFacts DEF BaseInv, MutexOwned, TypeOK, LoggerType
<1>1. env' = env /\ files' = files
  BY DEF Next, vars, input, outside, SetProperty, Get, GetStep, LockGet, CheckPointer,
         CheckObject, ReturnNull, InitRuntime, ReturnRuntime, FollowDangling, StartDeinit,
         DeinitStep, ResetObject, DeletePointer, ClearPointer
<1>2. ASSUME NEW b \in Bases, SetProperty(b) PROVE BaseInv'
  BY <1>0, <1>1, <1>2 DEF SetProperty, outside, TypeOK, BooksInv, BaseInv, MutexOwned
<1>3. ASSUME NEW t \in Threads, Get(t) PROVE BaseInv'
  <2>1. thread' \in [Threads -> Calls] /\ thread'[t].at = "lock"
        /\ thread'[t].got = thread[t].got /\ \A u \in Threads \ {t} : thread'[u] = thread[u]
    BY <1>0, <1>3, GotoFacts DEF Get
  <2>2. gets' \in 0 .. MaxGets
    BY <1>0, <1>3, MaxGetsAssumption DEF Get, TypeOK
  <2>3. overlapped' \in BOOLEAN
    BY <1>0, <1>3 DEF Get, TypeOK, InDeinit
  <2>4. TypeOK'
    BY <1>0, <1>3, <2>1, <2>2, <2>3 DEF Get, outside, TypeOK, LoggerType
  <2>5. Owned'
    BY <1>0, <1>3, <2>1 DEF Get, InGet, TypeOK
  <2>6. BooksInv'
    BY <1>0, <1>1, <1>3 DEF Get, BooksInv
  <2> QED BY <2>4, <2>5, <2>6 DEF BaseInv, MutexOwned
<1>4. ASSUME NEW t \in Threads, LockGet(t) PROVE BaseInv'
  <2>1. thread' \in [Threads -> Calls] /\ thread'[t].at = "checkPointer"
        /\ thread'[t].got = thread[t].got /\ \A u \in Threads \ {t} : thread'[u] = thread[u]
    BY <1>0, <1>4, GotoFacts DEF LockGet
  <2>2. TypeOK'
    BY <1>0, <1>4, <2>1 DEF LockGet, outside, TypeOK, LoggerType
  <2>3. Owned'
    BY <1>0, <1>4, <2>1, ThreadsAssumption DEF LockGet, TypeOK
  <2>4. BooksInv'
    BY <1>0, <1>1, <1>4 DEF LockGet, BooksInv
  <2> QED BY <2>2, <2>3, <2>4 DEF BaseInv, MutexOwned
<1>5. ASSUME NEW t \in Threads, CheckPointer(t) PROVE BaseInv'
  <2>1. thread' \in [Threads -> Calls] /\ thread'[t].at = "checkObject"
        /\ thread'[t].got = thread[t].got /\ \A u \in Threads \ {t} : thread'[u] = thread[u]
    BY <1>0, <1>5, GotoFacts DEF CheckPointer
  <2>2. TypeOK'
    BY <1>0, <1>5, <2>1 DEF CheckPointer, outside, TypeOK, LoggerType, NoRuntime
  <2>3. Owned'
    BY <1>0, <1>5, <2>1 DEF CheckPointer, TypeOK
  <2>4. BooksInv'
    BY <1>0, <1>1, <1>5 DEF CheckPointer, BooksInv
  <2> QED BY <2>2, <2>3, <2>4 DEF BaseInv, MutexOwned
<1>6. ASSUME NEW t \in Threads, CheckObject(t) PROVE BaseInv'
  <2>1. PICK at \in {"init", "return"} : Goto(t, at)
    BY <1>6 DEF CheckObject
  <2>2. thread' \in [Threads -> Calls] /\ thread'[t].at = at
        /\ thread'[t].got = thread[t].got /\ \A u \in Threads \ {t} : thread'[u] = thread[u]
    BY <1>0, <2>1, GotoFacts
  <2>3. /\ runtimes' \in Seq({Builtin, Configured(env, files)})'
        /\ Len(runtimes') \in Nat /\ Len(runtimes') >= Len(runtimes)
        /\ object' \in 0 .. Len(runtimes')
        /\ DOMAIN runtimes' = 1 .. Len(runtimes')
    <3>1. CASE object = NoRuntime
      BY <1>0, <1>1, <1>6, <3>1, AppendFacts DEF CheckObject
    <3>2. CASE object # NoRuntime
      BY <1>0, <1>1, <1>6, <3>2 DEF CheckObject, BooksInv, TypeOK
    <3> QED BY <3>1, <3>2
  <2>4. TypeOK'
    <3>1. threw' \subseteq DOMAIN runtimes'
      <4>1. DOMAIN runtimes \subseteq DOMAIN runtimes'
        BY <1>0, <2>3
      <4>2. threw' = threw /\ threw \subseteq DOMAIN runtimes
        BY <1>0, <1>6 DEF CheckObject, TypeOK
      <4> QED BY <4>1, <4>2
    <3>2. \A u \in Threads : thread'[u].got <= Len(runtimes')
      <4>1. \A u \in Threads : thread'[u].got = thread[u].got /\ thread[u].got \in Nat
                               /\ thread[u].got <= Len(runtimes)
        BY <1>0, <2>2 DEF TypeOK, Calls
      <4> QED BY <1>0, <2>3, <4>1
    <3>3. UNCHANGED <<base, pointer, logger, opened, getMutex, deinit, overlapped, undefined, gets>>
      BY <1>6 DEF CheckObject, outside
    <3>4. LoggerType'
      BY <1>0, <3>3 DEF LoggerType
    <3> QED BY <1>0, <2>2, <2>3, <3>1, <3>2, <3>3, <3>4 DEF TypeOK, LoggerType
  <2>5. Owned'
    BY <1>0, <1>6, <2>2 DEF CheckObject, TypeOK
  <2>6. BooksInv'
    BY <1>0, <1>6, <2>3 DEF CheckObject, BooksInv
  <2> QED BY <2>4, <2>5, <2>6 DEF BaseInv, MutexOwned
<1>7. ASSUME NEW t \in Threads, ReturnNull(t) \/ ReturnRuntime(t) PROVE BaseInv'
  <2>1. PICK r \in {NoRuntime, object} : Leave(t, r, FALSE)
    BY <1>7 DEF ReturnNull, ReturnRuntime
  <2>2. r \in Nat /\ r <= Len(runtimes)
    BY <1>0 DEF TypeOK, NoRuntime
  <2>3. thread' \in [Threads -> Calls] /\ thread'[t].at = "idle" /\ getMutex' = NoThread
        /\ thread'[t].got = r /\ \A u \in Threads \ {t} : thread'[u] = thread[u]
    BY <1>0, <2>1, <2>2, LeaveFacts
  <2>4. TypeOK'
    <3>1. UNCHANGED <<base, pointer, object, runtimes, logger, opened, deinit, threw,
                      overlapped, undefined, gets>>
      BY <1>7 DEF ReturnNull, ReturnRuntime, outside
    <3>2. \A u \in Threads : thread'[u].got <= Len(runtimes')
      BY <1>0, <2>2, <2>3, <3>1 DEF TypeOK
    <3>3. LoggerType'
      BY <1>0, <3>1 DEF LoggerType
    <3> QED BY <1>0, <2>3, <3>1, <3>2, <3>3 DEF TypeOK, LoggerType
  <2>5. Owned'
    BY <1>0, <1>7, <2>3, ThreadsAssumption DEF ReturnNull, ReturnRuntime, TypeOK
  <2>6. BooksInv'
    BY <1>0, <1>1, <1>7 DEF ReturnNull, ReturnRuntime, BooksInv
  <2> QED BY <2>4, <2>5, <2>6 DEF BaseInv, MutexOwned
<1>8. ASSUME NEW t \in Threads, InitRuntime(t) PROVE BaseInv'
  <2>1. object \in DOMAIN runtimes
    BY <1>0, <1>8 DEF InitRuntime, TypeOK, NoRuntime
  <2>2. /\ runtimes' \in Seq({Builtin, Configured(env, files)})'
        /\ Len(runtimes') = Len(runtimes) /\ DOMAIN runtimes' = DOMAIN runtimes
    BY <1>0, <1>1, <1>8, <2>1, ConfigureFacts DEF InitRuntime, BooksInv
  <2>3. LoggerType'
    BY <1>0, <1>8, LoggerAfterInitType DEF InitRuntime
  <2>4. BooksInv'
    BY <1>0, <1>8, <2>2 DEF InitRuntime, BooksInv
  <2>5. threw' \subseteq DOMAIN runtimes'
    BY <1>0, <1>8, <2>1, <2>2 DEF InitRuntime, TypeOK
  <2>6. TypeOK' /\ Owned'
    <3>1. CASE InitThrows(env, files)
      <4>1. thread' \in [Threads -> Calls] /\ thread'[t].at = "idle" /\ getMutex' = NoThread
            /\ thread'[t].got = 0 /\ \A u \in Threads \ {t} : thread'[u] = thread[u]
        BY <1>0, <1>8, <3>1, LeaveFacts DEF InitRuntime, NoRuntime
      <4>2. TypeOK'
        BY <1>0, <1>8, <2>2, <2>3, <2>5, <4>1 DEF InitRuntime, input, TypeOK, LoggerType
      <4>3. Owned'
        BY <1>0, <1>8, <4>1, ThreadsAssumption DEF InitRuntime, TypeOK
      <4> QED BY <4>2, <4>3
    <3>2. CASE ~InitThrows(env, files)
      <4>1. thread' \in [Threads -> Calls] /\ thread'[t].at = "return" /\ getMutex' = getMutex
            /\ thread'[t].got = thread[t].got /\ \A u \in Threads \ {t} : thread'[u] = thread[u]
        BY <1>0, <1>8, <3>2, GotoFacts DEF InitRuntime
      <4>2. TypeOK'
        BY <1>0, <1>8, <2>2, <2>3, <2>5, <4>1 DEF InitRuntime, input, TypeOK, LoggerType
      <4>3. Owned'
        BY <1>0, <1>8, <4>1 DEF InitRuntime, TypeOK
      <4> QED BY <4>2, <4>3
    <3> QED BY <3>1, <3>2
  <2> QED BY <2>4, <2>6 DEF BaseInv, MutexOwned
<1>9. ASSUME NEW t \in Threads, FollowDangling(t) PROVE BaseInv'
  <2>1. undefined' = TRUE /\ UNCHANGED <<base, pointer, object, runtimes, logger, opened,
                                          getMutex, thread, deinit, threw, overlapped, gets>>
    BY <1>9 DEF FollowDangling, outside
  <2>2. TypeOK' /\ Owned'
    BY <1>0, <2>1 DEF TypeOK, LoggerType
  <2>3. BooksInv'
    BY <1>0, <1>1, <2>1 DEF BooksInv
  <2> QED BY <2>2, <2>3 DEF BaseInv, MutexOwned
<1>10. ASSUME StartDeinit PROVE BaseInv'
  <2>1. /\ overlapped' \in BOOLEAN /\ deinit' \in {"no", "reset", "delete", "clear", "done"}
        /\ UNCHANGED <<base, pointer, object, runtimes, logger, opened, getMutex, thread, threw,
                       undefined, gets>>
    BY <1>0, <1>10 DEF StartDeinit, outside, TypeOK
  <2>2. TypeOK' /\ Owned'
    BY <1>0, <2>1 DEF TypeOK, LoggerType
  <2>3. BooksInv'
    BY <1>0, <1>1, <1>10 DEF StartDeinit, BooksInv
  <2> QED BY <2>2, <2>3 DEF BaseInv, MutexOwned
<1>11. ASSUME ResetObject \/ DeletePointer \/ ClearPointer PROVE BaseInv'
  <2>1. /\ object' \in 0 .. Len(runtimes) /\ pointer' \in {"null", "valid", "deleted"}
        /\ deinit' \in {"no", "reset", "delete", "clear", "done"}
        /\ UNCHANGED <<base, runtimes, logger, opened, getMutex, thread, threw, overlapped,
                       undefined, gets>>
    BY <1>0, <1>11 DEF ResetObject, DeletePointer, ClearPointer, outside, TypeOK, NoRuntime
  <2>2. TypeOK' /\ Owned'
    BY <1>0, <2>1 DEF TypeOK, LoggerType
  <2>3. BooksInv'
    BY <1>0, <1>1, <2>1 DEF BooksInv
  <2> QED BY <2>2, <2>3 DEF BaseInv, MutexOwned
<1>12. CASE UNCHANGED vars
  <2>1. UNCHANGED <<base, pointer, object, runtimes, logger, opened, getMutex, thread, deinit,
                    threw, overlapped, undefined, gets>>
    BY <1>12 DEF vars
  <2>2. TypeOK' /\ Owned'
    BY <1>0, <2>1 DEF TypeOK, LoggerType
  <2>3. BooksInv'
    BY <1>0, <1>1, <2>1 DEF BooksInv
  <2> QED BY <2>2, <2>3 DEF BaseInv, MutexOwned
<1> QED BY <1>2, <1>3, <1>4, <1>5, <1>6, <1>7, <1>8, <1>9, <1>10, <1>11, <1>12
        DEF Next, GetStep, DeinitStep

\* However a get() ends, with a Runtime, with nullptr or by an exception of init(), it
\* leaves getMutex__ to others; and every variable keeps its type.
THEOREM MutexLeft == Spec => []MutexOwned
<1>1. BaseInv => MutexOwned
  BY DEF BaseInv
<1> QED BY <1>1, InitBase, NextBase, PTL DEF Spec

-----------------------------------------------------------------------------
(***************************************************************************)
(* What became of init()                                                   *)
(***************************************************************************)
\* Where a thread holds getMutex__.
Inside == {"checkPointer", "checkObject", "init", "return"}

LEMMA OneInside ==
    ASSUME BaseInv, NEW t \in Threads, thread[t].at \in Inside
    PROVE  \A u \in Threads \ {t} : thread[u].at \notin Inside
BY DEF BaseInv, MutexOwned, Inside

\* What any thread has is one of the Runtimes.
LEMMA HandlesFacts ==
    ASSUME BaseInv
    PROVE  /\ Len(runtimes) \in Nat /\ DOMAIN runtimes = 1 .. Len(runtimes)
           /\ object \in 0 .. Len(runtimes) /\ object \in Nat
           /\ threw \subseteq DOMAIN runtimes
           /\ \A u \in Threads : thread[u].got \in 0 .. Len(runtimes)
BY RuntimesFacts DEF BaseInv, MutexOwned, TypeOK, Calls

LEMMA NextResolved == BaseInv /\ ResolvedInv /\ [Next]_vars => ResolvedInv'
<1> SUFFICES ASSUME BaseInv, ResolvedInv, [Next]_vars PROVE ResolvedInv'
  OBVIOUS
<1>0. /\ TypeOK /\ BooksInv /\ Len(runtimes) \in Nat /\ DOMAIN runtimes = 1 .. Len(runtimes)
      /\ object \in 0 .. Len(runtimes) /\ threw \subseteq DOMAIN runtimes
      /\ \A u \in Threads : thread[u].got \in 0 .. Len(runtimes)
  BY HandlesFacts DEF BaseInv, MutexOwned
<1>1. ASSUME UNCHANGED <<runtimes, threw, thread>>, object' \in {object, NoRuntime}
      PROVE  ResolvedInv'
  BY <1>1 DEF ResolvedInv, Resolved
<1>2. ASSUME NEW t \in Threads, Get(t) \/ LockGet(t) \/ CheckPointer(t) PROVE ResolvedInv'
  <2>1. PICK at \in {"lock", "checkPointer", "checkObject"} : Goto(t, at)
    BY <1>2 DEF Get, LockGet, CheckPointer
  <2>2. thread'[t].at = at /\ thread'[t].got = thread[t].got
        /\ \A u \in Threads \ {t} : thread'[u] = thread[u]
    BY <1>0, <2>1, GotoFacts
  <2>3. runtimes' = runtimes /\ threw' = threw /\ object' \in {object, NoRuntime}
        /\ thread[t].at # "init"
    BY <1>2 DEF Get, LockGet, CheckPointer, InGet
  <2> QED BY <2>2, <2>3 DEF ResolvedInv, Resolved
<1>3. ASSUME NEW t \in Threads, CheckObject(t) PROVE ResolvedInv'
  <2>1. PICK at \in {"init", "return"} : Goto(t, at)
    BY <1>3 DEF CheckObject
  <2>2. thread'[t].at = at /\ thread'[t].got = thread[t].got
        /\ \A u \in Threads \ {t} : thread'[u] = thread[u]
    BY <1>0, <2>1, GotoFacts
  <2>3. threw' = threw /\ thread[t].at = "checkObject" /\ env' = env /\ files' = files
    BY <1>3 DEF CheckObject, outside, input
  <2>4. \A u \in Threads : u # t => thread[u].at # "init"
    BY <2>3, OneInside DEF Inside
  <2>5. CASE object = NoRuntime
    <3>1. /\ Len(runtimes') = Len(runtimes) + 1 /\ object' = Len(runtimes) + 1
          /\ \A r \in DOMAIN runtimes : runtimes'[r] = runtimes[r]
      BY <1>0, <1>3, <2>3, <2>5, AppendFacts DEF CheckObject
    <3>2. \A u \in Threads : thread'[u].got = thread[u].got
      BY <2>2
    <3>3. thread'[t].at = "init"
      BY <1>0, <1>3, <2>5, GotoFacts DEF CheckObject
    <3>4. \A u \in Threads : thread'[u].got # NoRuntime => Resolved(thread[u].got)'
      <4>1. ASSUME NEW u \in Threads, thread'[u].got # NoRuntime
            PROVE  Resolved(thread[u].got)'
        <5>1. thread'[u].got = thread[u].got /\ thread[u].got \in DOMAIN runtimes
          BY <1>0, <3>2, <4>1 DEF NoRuntime
        <5>2. Resolved(thread[u].got)
          BY <3>2, <4>1 DEF ResolvedInv
        <5> QED BY <2>3, <3>1, <5>1, <5>2 DEF Resolved
      <4> QED BY <4>1
    <3>5. object' \notin threw' /\ \A u \in Threads : thread'[u].got # object'
      <4>1. object' \notin DOMAIN runtimes /\ \A u \in Threads : thread[u].got # object'
        <5>1. object' = Len(runtimes) + 1 /\ Len(runtimes) \in Nat
          BY <1>0, <3>1
        <5>2. object' \notin 1 .. Len(runtimes) /\ object' \notin 0 .. Len(runtimes)
          BY <5>1
        <5> QED BY <1>0, <5>2
      <4> QED BY <1>0, <2>3, <3>2, <4>1
    <3> QED BY <3>3, <3>4, <3>5 DEF ResolvedInv
  <2>6. CASE object # NoRuntime
    <3>1. UNCHANGED <<runtimes, object>> /\ thread'[t].at = "return"
      BY <1>0, <1>3, <2>6, GotoFacts DEF CheckObject
    <3>2. Resolved(object)
      BY <2>3, <2>4, <2>6 DEF ResolvedInv
    <3> QED BY <2>2, <2>3, <2>4, <3>1, <3>2 DEF ResolvedInv, Resolved
  <2> QED BY <2>5, <2>6
<1>4. ASSUME NEW t \in Threads, ReturnNull(t) \/ ReturnRuntime(t) PROVE ResolvedInv'
  <2>1. PICK r \in {NoRuntime, object} : Leave(t, r, FALSE)
    BY <1>4 DEF ReturnNull, ReturnRuntime
  <2>2. thread'[t].at = "idle" /\ thread'[t].got = r
        /\ \A u \in Threads \ {t} : thread'[u] = thread[u]
    <3>1. r \in Nat
      BY <1>0 DEF NoRuntime
    <3> QED BY <1>0, <2>1, <3>1, LeaveFacts
  <2>3. UNCHANGED <<runtimes, threw, object>> /\ thread[t].at \in {"checkObject", "return"}
    BY <1>4 DEF ReturnNull, ReturnRuntime
  <2>4. \A u \in Threads : thread[u].at # "init"
    BY <2>3, OneInside DEF Inside
  <2>5. r # NoRuntime => Resolved(r)
    BY <2>4 DEF ResolvedInv
  <2> QED BY <2>2, <2>3, <2>4, <2>5 DEF ResolvedInv, Resolved
<1>5. ASSUME NEW t \in Threads, InitRuntime(t) PROVE ResolvedInv'
  <2>1. thread[t].at = "init" /\ object # NoRuntime /\ object' = object
        /\ env' = env /\ files' = files
    BY <1>5 DEF InitRuntime, input
  <2>2. object \in DOMAIN runtimes
    BY <1>0, <2>1 DEF NoRuntime
  <2>3. object \notin threw /\ \A u \in Threads : thread[u].got # object
    BY <2>1 DEF ResolvedInv
  <2>4. \A u \in Threads \ {t} : thread[u].at # "init"
    BY <2>1, OneInside DEF Inside
  <2>5. \A r \in DOMAIN runtimes \ {object} : runtimes'[r] = runtimes[r]
    BY <1>0, <1>5, <2>1, <2>2, ConfigureFacts DEF InitRuntime
  <2>6. runtimes'[object] = Configured(env, files)
    BY <1>0, <1>5, <2>1, <2>2, ConfigureFacts DEF InitRuntime
  <2>7. /\ threw' = IF InitThrows(env, files) THEN threw \cup {object} ELSE threw
        /\ thread'[t].at # "init" /\ thread'[t].got \in {thread[t].got, NoRuntime}
        /\ \A u \in Threads \ {t} : thread'[u] = thread[u]
    <3>1. CASE InitThrows(env, files)
      BY <1>0, <1>5, <3>1, LeaveFacts DEF InitRuntime, NoRuntime
    <3>2. CASE ~InitThrows(env, files)
      BY <1>0, <1>5, <3>2, GotoFacts DEF InitRuntime
    <3> QED BY <3>1, <3>2
  <2>8. Resolved(object)'
    BY <2>1, <2>3, <2>6, <2>7, ConfiguredFacts DEF Resolved
  <2>9. ASSUME NEW u \in Threads, thread'[u].got # NoRuntime PROVE Resolved(thread[u].got)'
    <3>1. thread'[u].got = thread[u].got
      BY <2>7, <2>9
    <3>2. thread[u].got \in DOMAIN runtimes \ {object}
      BY <1>0, <2>3, <2>9, <3>1 DEF NoRuntime
    <3>3. Resolved(thread[u].got)
      BY <2>9, <3>1 DEF ResolvedInv
    <3>4. runtimes'[thread[u].got] = runtimes[thread[u].got]
          /\ (thread[u].got \in threw' <=> thread[u].got \in threw)
      BY <2>5, <2>7, <3>2
    <3> QED BY <3>1, <3>3, <3>4 DEF Resolved
  <2> QED BY <2>1, <2>4, <2>7, <2>8, <2>9 DEF ResolvedInv
<1>6. ASSUME \/ \E b \in Bases : SetProperty(b)
             \/ \E t \in Threads : FollowDangling(t)
             \/ StartDeinit \/ ResetObject \/ DeletePointer \/ ClearPointer \/ UNCHANGED vars
      PROVE  UNCHANGED <<runtimes, threw, thread>> /\ object' \in {object, NoRuntime}
  BY <1>6 DEF SetProperty, FollowDangling, StartDeinit, ResetObject, DeletePointer,
              ClearPointer, vars
<1> QED BY <1>1, <1>2, <1>3, <1>4, <1>5, <1>6 DEF Next, GetStep, DeinitStep

-----------------------------------------------------------------------------
(***************************************************************************)
(* get() and RuntimeDeinit, one after the other                            *)
(***************************************************************************)
LEMMA NextAlone == BaseInv /\ AloneInv /\ [Next]_vars => AloneInv'
<1> SUFFICES ASSUME BaseInv, AloneInv, [Next]_vars PROVE AloneInv'
  OBVIOUS
<1>0. /\ TypeOK /\ BooksInv /\ Len(runtimes) \in Nat /\ object \in Nat
      /\ deinit \in {"no", "reset", "delete", "clear", "done"}
      /\ overlapped \in BOOLEAN /\ undefined \in BOOLEAN
  BY HandlesFacts DEF BaseInv, MutexOwned, TypeOK
<1>1. CASE overlapped
  <2>1. overlapped' /\ deinit' # "no"
    BY <1>1 DEF Next, vars, SetProperty, Get, GetStep, LockGet, CheckPointer, CheckObject,
         ReturnNull, InitRuntime, ReturnRuntime, FollowDangling, StartDeinit, DeinitStep,
         ResetObject, DeletePointer, ClearPointer, AloneInv
  <2> QED BY <2>1 DEF AloneInv
<1>2. CASE ~overlapped
  <2>0. /\ StageInv /\ ~undefined
        /\ \A t \in Threads :
              /\ InGet(t) => deinit \in {"no", "done"}
              /\ thread[t].at \in {"checkObject", "init", "return"} => pointer = "valid"
              /\ thread[t].at \in {"init", "return"} => object # NoRuntime
    BY <1>2 DEF AloneInv
  <2>1. ASSUME NEW t \in Threads, Get(t) PROVE AloneInv'
    <3>1. /\ thread'[t].at = "lock" /\ \A u \in Threads \ {t} : thread'[u] = thread[u]
          /\ UNCHANGED <<pointer, object, runtimes, deinit, undefined>>
          /\ overlapped' <=> InDeinit
      <4>1. Goto(t, "lock") /\ UNCHANGED <<pointer, object, runtimes, deinit, undefined>>
        BY <2>1 DEF Get
      <4>2. overlapped' <=> InDeinit
        BY <1>2, <2>1 DEF Get
      <4> QED BY <1>0, <4>1, <4>2, GotoFacts
    <3>2. CASE InDeinit
      BY <2>0, <3>1, <3>2 DEF AloneInv, InDeinit
    <3>3. CASE ~InDeinit
      <4>1. deinit \in {"no", "done"} /\ ~overlapped' /\ ~undefined'
        BY <1>0, <2>0, <3>1, <3>3 DEF InDeinit
      <4>2. StageInv'
        BY <2>0, <3>1 DEF StageInv, Alive
      <4> QED BY <2>0, <3>1, <4>1, <4>2 DEF AloneInv, InGet
    <3> QED BY <3>2, <3>3
  <2>2. ASSUME NEW t \in Threads, LockGet(t) PROVE AloneInv'
    <3>1. /\ thread'[t].at = "checkPointer" /\ \A u \in Threads \ {t} : thread'[u] = thread[u]
          /\ UNCHANGED <<pointer, object, runtimes, deinit, undefined, overlapped>>
          /\ thread[t].at = "lock"
      BY <1>0, <2>2, GotoFacts DEF LockGet
    <3> QED BY <1>2, <2>0, <3>1 DEF AloneInv, StageInv, Alive, InGet
  <2>3. ASSUME NEW t \in Threads, CheckPointer(t) PROVE AloneInv'
    <3>1. /\ thread'[t].at = "checkObject" /\ \A u \in Threads \ {t} : thread'[u] = thread[u]
          /\ UNCHANGED <<runtimes, deinit, undefined, overlapped>>
          /\ thread[t].at = "checkPointer"
      BY <1>0, <2>3, GotoFacts DEF CheckPointer
    <3>2. deinit \in {"no", "done"}
      BY <2>0, <3>1 DEF InGet
    <3>3. pointer' = "valid" /\ object' = object
      BY <2>0, <2>3, <3>2 DEF CheckPointer, StageInv
    <3>4. StageInv'
      BY <2>0, <3>1, <3>2, <3>3 DEF StageInv, Alive
    <3> QED BY <1>2, <2>0, <3>1, <3>2, <3>3, <3>4 DEF AloneInv, InGet
  <2>4. ASSUME NEW t \in Threads, CheckObject(t) PROVE AloneInv'
    <3>1. PICK at \in {"init", "return"} : Goto(t, at)
      BY <2>4 DEF CheckObject
    <3>2. /\ thread'[t].at = at /\ \A u \in Threads \ {t} : thread'[u] = thread[u]
          /\ UNCHANGED <<pointer, deinit, undefined, overlapped>>
          /\ thread[t].at = "checkObject"
      BY <1>0, <2>4, <3>1, GotoFacts DEF CheckObject
    <3>3. deinit \in {"no", "done"} /\ pointer = "valid"
      BY <2>0, <3>2 DEF InGet
    <3>4. /\ object' # NoRuntime
          /\ \/ object = NoRuntime /\ Len(runtimes') = Len(runtimes) + 1
             \/ object # NoRuntime /\ runtimes' = runtimes
      <4>1. CASE object = NoRuntime
        <5>1. Len(runtimes') = Len(runtimes) + 1 /\ object' = Len(runtimes')
          BY <1>0, <2>4, <4>1 DEF CheckObject, BooksInv
        <5> QED BY <1>0, <4>1, <5>1 DEF NoRuntime
      <4>2. CASE object # NoRuntime
        BY <2>4, <4>2 DEF CheckObject
      <4> QED BY <4>1, <4>2
    <3>5. StageInv'
      <4>1. Alive' = 1 /\ Len(runtimes') = Len(runtimes) + 1 - Alive
        BY <1>0, <3>4 DEF Alive
      <4>2. Len(runtimes) <= 1 + Alive /\ (deinit = "no" => Len(runtimes) = Alive)
        <5>1. CASE deinit = "no"
          <6>1. Len(runtimes) = Alive
            BY <2>0, <5>1 DEF StageInv
          <6> QED BY <6>1 DEF Alive
        <5>2. CASE deinit = "done"
          BY <2>0, <5>2 DEF StageInv
        <5> QED BY <3>3, <5>1, <5>2
      <4>3. Alive \in {0, 1}
        BY DEF Alive
      <4>4. Len(runtimes') <= 1 + Alive' /\ (deinit = "no" => Len(runtimes') = Alive')
        BY <1>0, <4>1, <4>2, <4>3
      <4> QED BY <3>2, <3>3, <3>4, <4>4 DEF StageInv
    <3> QED BY <1>2, <2>0, <3>2, <3>3, <3>4, <3>5 DEF AloneInv, InGet
  <2>5. ASSUME NEW t \in Threads, ReturnNull(t) \/ ReturnRuntime(t) PROVE AloneInv'
    <3>1. PICK r \in {NoRuntime, object} : Leave(t, r, FALSE)
      BY <2>5 DEF ReturnNull, ReturnRuntime
    <3>2. r \in Nat
      BY <1>0 DEF NoRuntime
    <3>3. thread'[t].at = "idle" /\ \A u \in Threads \ {t} : thread'[u] = thread[u]
      BY <1>0, <3>1, <3>2, LeaveFacts
    <3>4. UNCHANGED <<pointer, object, runtimes, deinit, undefined, overlapped>>
      BY <2>5 DEF ReturnNull, ReturnRuntime
    <3> QED BY <1>2, <2>0, <3>3, <3>4 DEF AloneInv, StageInv, Alive, InGet
  <2>6. ASSUME NEW t \in Threads, InitRuntime(t) PROVE AloneInv'
    <3>1. /\ UNCHANGED <<pointer, object, deinit, undefined, overlapped>>
          /\ Len(runtimes') = Len(runtimes) /\ thread[t].at = "init"
      BY <1>0, <2>6 DEF InitRuntime, BooksInv
    <3>2. thread'[t].at \in {"idle", "return"} /\ \A u \in Threads \ {t} : thread'[u] = thread[u]
      <4>1. CASE InitThrows(env, files)
        BY <1>0, <2>6, <4>1, LeaveFacts DEF InitRuntime, NoRuntime
      <4>2. CASE ~InitThrows(env, files)
        BY <1>0, <2>6, <4>2, GotoFacts DEF InitRuntime
      <4> QED BY <4>1, <4>2
    <3>3. StageInv'
      BY <2>0, <3>1 DEF StageInv, Alive
    <3> QED BY <1>2, <2>0, <3>1, <3>2, <3>3 DEF AloneInv, InGet
  <2>7. ASSUME NEW t \in Threads, FollowDangling(t) PROVE FALSE
    BY <2>0, <2>7 DEF FollowDangling
  <2>8. ASSUME StartDeinit PROVE AloneInv'
    <3>1. /\ UNCHANGED <<pointer, object, runtimes, thread, undefined>> /\ deinit = "no"
          /\ overlapped' = \E t \in Threads : InGet(t)
          /\ deinit' = IF pointer = "null" THEN "done" ELSE "reset"
      BY <1>2, <2>8 DEF StartDeinit
    <3>2. CASE \E t \in Threads : InGet(t)
      BY <2>0, <3>1, <3>2 DEF AloneInv
    <3>3. CASE \A t \in Threads : ~InGet(t)
      <4>1. StageInv'
        <5>1. Len(runtimes) = Alive /\ Alive \in {0, 1} /\ Alive' = Alive
          BY <2>0, <3>1 DEF StageInv, Alive
        <5>2. pointer \in {"null", "valid"} /\ (pointer = "null" => object = NoRuntime)
          BY <2>0, <3>1 DEF StageInv
        <5> QED BY <3>1, <5>1, <5>2 DEF StageInv
      <4> QED BY <2>0, <3>1, <3>3, <4>1 DEF AloneInv, InGet
    <3> QED BY <3>2, <3>3
  <2>9. ASSUME ResetObject \/ DeletePointer \/ ClearPointer PROVE AloneInv'
    <3>1. deinit \in {"reset", "delete", "clear"} /\ \A t \in Threads : ~InGet(t)
      BY <2>0, <2>9 DEF ResetObject, DeletePointer, ClearPointer
    <3>2. UNCHANGED <<runtimes, thread, undefined, overlapped>>
      BY <2>9 DEF ResetObject, DeletePointer, ClearPointer
    <3>3. StageInv' /\ deinit' # "no"
      <4>1. CASE ResetObject
        BY <2>0, <4>1 DEF ResetObject, StageInv, Alive
      <4>2. CASE DeletePointer
        BY <2>0, <4>2 DEF DeletePointer, StageInv, Alive
      <4>3. CASE ClearPointer
        BY <1>0, <2>0, <4>3 DEF ClearPointer, StageInv, Alive
      <4> QED BY <2>9, <4>1, <4>2, <4>3
    <3> QED BY <1>2, <2>0, <3>1, <3>2, <3>3 DEF AloneInv, InGet
  <2>10. CASE UNCHANGED vars \/ \E b \in Bases : SetProperty(b)
    <3>1. UNCHANGED <<pointer, object, runtimes, thread, deinit, undefined, overlapped>>
      BY <2>10 DEF vars, SetProperty
    <3> QED BY <1>2, <2>0, <3>1 DEF AloneInv, StageInv, Alive, InGet
  <2> QED BY <2>1, <2>2, <2>3, <2>4, <2>5, <2>6, <2>7, <2>8, <2>9, <2>10
          DEF Next, GetStep, DeinitStep
<1> QED BY <1>0, <1>1, <1>2

-----------------------------------------------------------------------------
(***************************************************************************)
(* What a thread holds before RuntimeDeinit                                *)
(***************************************************************************)
LEMMA NextHeld == BaseInv /\ AloneInv /\ HeldInv /\ [Next]_vars => HeldInv'
<1> SUFFICES ASSUME BaseInv, AloneInv, HeldInv, [Next]_vars PROVE HeldInv'
  OBVIOUS
<1>0. TypeOK /\ object \in Nat
  BY HandlesFacts DEF BaseInv, MutexOwned
<1>1. CASE deinit' # "no"
  BY <1>1 DEF HeldInv
<1>2. CASE deinit' = "no"
  <2>1. /\ deinit = "no"
        /\ \A t \in Threads :
              /\ thread[t].at \in {"checkObject", "init", "return"} => pointer = "valid"
              /\ thread[t].at \in {"init", "return"} => object # NoRuntime
    <3>1. deinit = "no"
      BY <1>2 DEF Next, vars, SetProperty, Get, GetStep, LockGet, CheckPointer, CheckObject,
         ReturnNull, InitRuntime, ReturnRuntime, FollowDangling, StartDeinit, DeinitStep,
         ResetObject, DeletePointer, ClearPointer
    <3> QED BY <3>1 DEF AloneInv
  <2> DEFINE AnyHeld == \E u \in Threads : thread[u].got # NoRuntime
             NoInit == \A u \in Threads : thread[u].at # "init"
  <2>2. AnyHeld => pointer = "valid" /\ object # NoRuntime /\ NoInit
    BY <2>1 DEF HeldInv
  <2>3. ASSUME NEW t \in Threads, Get(t) \/ LockGet(t) \/ CheckPointer(t) PROVE HeldInv'
    <3>1. PICK at \in {"lock", "checkPointer", "checkObject"} : Goto(t, at)
      BY <2>3 DEF Get, LockGet, CheckPointer
    <3>2. /\ thread'[t].at = at /\ thread'[t].got = thread[t].got
          /\ \A u \in Threads \ {t} : thread'[u] = thread[u]
      BY <1>0, <3>1, GotoFacts
    <3>3. AnyHeld => UNCHANGED <<pointer, object>>
      BY <2>2, <2>3 DEF Get, LockGet, CheckPointer
    <3> QED BY <2>2, <3>2, <3>3 DEF HeldInv
  <2>4. ASSUME NEW t \in Threads, CheckObject(t) PROVE HeldInv'
    <3>1. PICK at \in {"init", "return"} : Goto(t, at)
      BY <2>4 DEF CheckObject
    <3>2. /\ thread'[t].at = at /\ thread'[t].got = thread[t].got
          /\ \A u \in Threads \ {t} : thread'[u] = thread[u]
      BY <1>0, <3>1, GotoFacts
    <3>3. CASE AnyHeld
      <4>1. UNCHANGED <<pointer, object>> /\ thread'[t].at = "return"
        BY <1>0, <2>2, <2>4, <3>3, GotoFacts DEF CheckObject
      <4> QED BY <2>2, <3>2, <3>3, <4>1 DEF HeldInv
    <3>4. CASE ~AnyHeld
      BY <3>2, <3>4 DEF HeldInv
    <3> QED BY <3>3, <3>4
  <2>5. ASSUME NEW t \in Threads, ReturnNull(t) PROVE FALSE
    BY <2>1, <2>5 DEF ReturnNull
  <2>6. ASSUME NEW t \in Threads, ReturnRuntime(t) PROVE HeldInv'
    <3>1. thread[t].at = "return" /\ UNCHANGED <<pointer, object>>
      BY <2>6 DEF ReturnRuntime
    <3>2. thread'[t].at = "idle" /\ \A u \in Threads \ {t} : thread'[u] = thread[u]
      BY <1>0, <2>6, LeaveFacts DEF ReturnRuntime
    <3>3. NoInit
      BY <3>1, OneInside DEF Inside
    <3> QED BY <2>1, <3>1, <3>2, <3>3 DEF HeldInv
  <2>7. ASSUME NEW t \in Threads, InitRuntime(t) PROVE HeldInv'
    <3>1. ~AnyHeld
      BY <2>2, <2>7 DEF InitRuntime
    <3>2. /\ thread'[t].got \in {NoRuntime, thread[t].got}
          /\ \A u \in Threads \ {t} : thread'[u] = thread[u]
      <4>1. CASE InitThrows(env, files)
        BY <1>0, <2>7, <4>1, LeaveFacts DEF InitRuntime, NoRuntime
      <4>2. CASE ~InitThrows(env, files)
        BY <1>0, <2>7, <4>2, GotoFacts DEF InitRuntime
      <4> QED BY <4>1, <4>2
    <3> QED BY <3>1, <3>2 DEF HeldInv
  <2>8. ASSUME UNCHANGED <<pointer, object, thread>> PROVE HeldInv'
    BY <2>2, <2>8 DEF HeldInv
  <2>9. ASSUME \/ \E b \in Bases : SetProperty(b)
               \/ \E t \in Threads : FollowDangling(t)
               \/ StartDeinit \/ UNCHANGED vars
        PROVE  UNCHANGED <<pointer, object, thread>>
    BY <2>9 DEF SetProperty, FollowDangling, StartDeinit, vars
  <2>10. ~ResetObject /\ ~DeletePointer /\ ~ClearPointer
    BY <2>1 DEF ResetObject, DeletePointer, ClearPointer
  <2> QED BY <2>3, <2>4, <2>5, <2>6, <2>7, <2>8, <2>9, <2>10 DEF Next, GetStep, DeinitStep
<1> QED BY <1>1, <1>2

-----------------------------------------------------------------------------
(***************************************************************************)
(* The inductive invariant of all of it, and what follows from it          *)
(***************************************************************************)
LifetimeInv == BaseInv /\ ResolvedInv /\ AloneInv /\ HeldInv

LEMMA InitLifetime == Init => LifetimeInv
<1> SUFFICES ASSUME Init PROVE LifetimeInv
  OBVIOUS
<1>1. BaseInv
  BY InitBase
<1>2. \A t \in Threads : thread[t].at = "idle" /\ thread[t].got = NoRuntime
  BY DEF Init
<1>3. Len(runtimes) = 0 /\ object = NoRuntime /\ pointer = "null" /\ deinit = "no"
      /\ ~overlapped /\ ~undefined
  BY DEF Init
<1>4. ResolvedInv /\ HeldInv
  BY <1>2, <1>3 DEF ResolvedInv, HeldInv
<1>5. StageInv
  BY <1>3 DEF StageInv, Alive
<1>6. AloneInv
  BY <1>2, <1>3, <1>5 DEF AloneInv
<1> QED BY <1>1, <1>4, <1>6 DEF LifetimeInv

LEMMA NextLifetime == LifetimeInv /\ [Next]_vars => LifetimeInv'
BY NextBase, NextResolved, NextAlone, NextHeld DEF LifetimeInv

\* What get() returns has been configured, whichever thread created it and however often
\* RuntimeDeinit interfered, unless its init() threw; and before RuntimeDeinit nobody is
\* in init() any more once somebody has a Runtime.
THEOREM ReturnedConfigured == Spec => []ConfiguredUnlessThrew
<1>1. LifetimeInv => ConfiguredUnlessThrew
  <2> SUFFICES ASSUME LifetimeInv, NEW t \in Threads, thread[t].got # NoRuntime
               PROVE  /\ runtimes[thread[t].got].isConfigured <=> thread[t].got \notin threw
                      /\ deinit = "no" => \A u \in Threads : thread[u].at # "init"
    BY DEF ConfiguredUnlessThrew
  <2> QED BY DEF LifetimeInv, ResolvedInv, Resolved, HeldInv
<1> QED BY <1>1, InitLifetime, NextLifetime, PTL DEF Spec

\* One Runtime serves the process, and at most one more is made after RuntimeDeinit, as
\* long as no get() runs at the same time as RuntimeDeinit.
THEOREM OneForAll == Spec => []OneRuntime
<1>1. LifetimeInv => OneRuntime
  <2> SUFFICES ASSUME LifetimeInv, ~overlapped PROVE OneRuntime
    BY DEF OneRuntime
  <2>1. /\ StageInv /\ Alive \in {0, 1} /\ Len(runtimes) \in Nat
        /\ deinit \in {"no", "reset", "delete", "clear", "done"}
    BY HandlesFacts DEF LifetimeInv, AloneInv, Alive, BaseInv, MutexOwned, TypeOK
  <2> QED BY <2>1 DEF StageInv, OneRuntime
<1> QED BY <1>1, InitLifetime, NextLifetime, PTL DEF Spec

\* Nothing is dereferenced that is null or deleted unless a get() runs at the same time
\* as RuntimeDeinit, also when init() throws and when get() is called after it.
THEOREM DefinedAlone == Spec => []DefinedUnlessOverlapped
<1>1. LifetimeInv => DefinedUnlessOverlapped
  BY DEF LifetimeInv, AloneInv, DefinedUnlessOverlapped
<1> QED BY <1>1, InitLifetime, NextLifetime, PTL DEF Spec

-----------------------------------------------------------------------------
(***************************************************************************)
(* Timeouts.  What std::stoi reads of a text is an int or an exception:    *)
(* of the environment, of any file, and so of what a caller passes on.     *)
(***************************************************************************)
InputInv == env \in Environments /\ files \in FileSystems

LEMMA InitInput == Init => InputInv
BY DEF Init, InputInv

LEMMA NextInput == InputInv /\ [Next]_vars => InputInv' /\ UNCHANGED input
BY DEF InputInv, Next, vars, input, outside, SetProperty, Get, GetStep, LockGet, CheckPointer,
       CheckObject, ReturnNull, InitRuntime, ReturnRuntime, FollowDangling, StartDeinit,
       DeinitStep, ResetObject, DeletePointer, ClearPointer

\* The timeout of a Runtime is an int.
LEMMA RuntimeTimeout ==
    ASSUME InputInv
    PROVE  Builtin.timeout \in Ints /\ Configured(env, files).timeout \in Ints
<1> DEFINE file == UsedFile(env, files)
           value(key) == GetValue(Sections(file), "default", key)
           runtime == WithFile(Builtin, file)
<1>1. DefaultTimeout \in Ints
  BY TimeoutsAssumption DEF Ints
<1>2. Builtin.timeout = DefaultTimeout
  BY DEF Builtin
<1>3. runtime.timeout \in Ints /\ "timeout" \in DOMAIN runtime
  <2>1. CASE file = Unreadable
    BY <1>1, <1>2, <2>1 DEF WithFile, Builtin
  <2>2. CASE ReadThrows(file)
    BY <1>1, <1>2, <2>2 DEF WithFile, Builtin
  <2>3. CASE file # Unreadable /\ ~ReadThrows(file)
    <3>1. Or(value("callTimeout"), DefaultTimeout) \in Ints
      BY <1>1, <2>3, IntsAssumption DEF Or, ReadThrows, InputInv
    <3>2. runtime.timeout = Or(value("callTimeout"), DefaultTimeout)
          /\ "timeout" \in DOMAIN runtime
      BY <2>3 DEF WithFile, Builtin
    <3> QED BY <3>1, <3>2
  <2> QED BY <2>1, <2>2, <2>3
<1> HIDE DEF runtime
<1>4. WithEnvironment(runtime, env).timeout = runtime.timeout
      /\ "timeout" \in DOMAIN WithEnvironment(runtime, env)
  BY <1>3 DEF WithEnvironment
<1>5. [WithEnvironment(runtime, env) EXCEPT !.isConfigured = TRUE].timeout = runtime.timeout
  BY <1>4
<1>6. Configured(env, files) = IF InitThrows(env, files) THEN runtime
                ELSE [WithEnvironment(runtime, env) EXCEPT !.isConfigured = TRUE]
  BY DEF Configured, runtime, file
<1> QED BY <1>1, <1>2, <1>3, <1>5, <1>6

\* The timeout of a CallInfo is a number of milliseconds, and its copy has the same.
LEMMA CallTimeoutFacts ==
    ASSUME NEW runtime, NEW e, NEW x \in Ints,
           runtime.timeout \in Ints, e.timeout \in Ints \cup {Unset}
    PROVE  /\ CallTimeout(runtime, e, x) \in 0 .. MaxTimeout
           /\ CallTimeout(runtime, e, CallTimeout(runtime, e, x)) = CallTimeout(runtime, e, x)
<1>1. \A y \in Ints : Clamped(y) \in 0 .. MaxTimeout
                      /\ (y >= 0 => Clamped(y) = y) /\ (y < 0 => Clamped(y) = MaxTimeout)
  BY TimeoutsAssumption DEF Clamped, Ints
<1>2. CASE e.timeout # Unset /\ e.timeout >= -1
  BY <1>1, <1>2 DEF CallTimeout
<1>3. CASE ~(e.timeout # Unset /\ e.timeout >= -1)
  <2> DEFINE Chosen(y) == IF y = DefaultTimeout /\ runtime.timeout # 0
                          THEN runtime.timeout ELSE y
  <2>1. \A y \in Ints : CallTimeout(runtime, e, y) = Clamped(Chosen(y)) /\ Chosen(y) \in Ints
    BY <1>3 DEF CallTimeout
  <2>2. Clamped(Chosen(x)) \in 0 .. MaxTimeout /\ Clamped(Chosen(x)) \in Ints
    BY <1>1, <2>1, TimeoutsAssumption DEF Ints
  <2>3. Clamped(Chosen(Clamped(Chosen(x)))) = Clamped(Chosen(x))
    <3> DEFINE y == Clamped(Chosen(x))
    <3>1. CASE y = DefaultTimeout /\ runtime.timeout # 0
      <4>1. Chosen(x) = DefaultTimeout
        BY <1>1, <2>1, <3>1, TimeoutsAssumption DEF Ints
      <4>2. Chosen(x) = runtime.timeout
        BY <3>1, <4>1
      <4> QED BY <3>1, <4>2
    <3>2. CASE ~(y = DefaultTimeout /\ runtime.timeout # 0)
      <4>1. Chosen(y) = y
        BY <3>2
      <4>2. y \in 0 .. MaxTimeout /\ y \in Ints
        BY <2>2
      <4> HIDE DEF y, Chosen
      <4>3. Clamped(y) = y
        BY <1>1, <4>2, TimeoutsAssumption
      <4> QED BY <4>1, <4>3 DEF y
    <3> QED BY <3>1, <3>2
  <2> HIDE DEF Chosen
  <2> QED BY <2>1, <2>2, <2>3
<1> QED BY <1>2, <1>3

\* Whatever the file, the environment and the caller ask for, the timeout of a call is a
\* number of milliseconds, and a copied CallInfo keeps it.
THEOREM TimeoutsStaySane == Spec => []TimeoutsSane
<1>1. BaseInv /\ InputInv => TimeoutsSane
  <2> SUFFICES ASSUME BaseInv, InputInv, NEW i \in DOMAIN runtimes, NEW x \in Timeouts,
                      env.timeout # NoNumber
               PROVE  /\ CallTimeout(runtimes[i], env, x) \in 0 .. MaxTimeout
                      /\ CallTimeout(runtimes[i], env, CallTimeout(runtimes[i], env, x))
                            = CallTimeout(runtimes[i], env, x)
    BY DEF TimeoutsSane
  <2>1. runtimes[i] \in {Builtin, Configured(env, files)}
    BY RuntimesFacts DEF BaseInv
  <2>2. runtimes[i].timeout \in Ints
    BY <2>1, RuntimeTimeout
  <2>3. x \in Ints /\ env.timeout \in Ints \cup {Unset}
    BY IntsAssumption DEF InputInv
  <2> QED BY <2>2, <2>3, CallTimeoutFacts
<1> QED BY <1>1, InitBase, NextBase, InitInput, NextInput, PTL DEF Spec

-----------------------------------------------------------------------------
(***************************************************************************)
(* Numbers                                                                 *)
(***************************************************************************)
LEMMA Least ==
    ASSUME NEW T, T \subseteq Nat, T # {}
    PROVE  \E x \in T : \A y \in T : x <= y
<1> DEFINE R == OpToRel(<, Nat)
<1>1. IsWellFoundedOn(R, Nat)
  BY NatLessThanWellFounded
<1>2. \A x, y \in Nat : <<x, y>> \in R <=> x < y
  BY DEF OpToRel
<1> HIDE DEF R
<1>3. PICK x \in T : \A y \in T : ~(<<y, x>> \in R)
  BY <1>1, WFMin
<1>4. ASSUME NEW y \in T PROVE x <= y
  <2>1. ~(y < x) /\ x \in Nat /\ y \in Nat
    BY <1>2, <1>3
  <2> QED BY <2>1
<1> QED BY <1>4

\* Min is the least element of a set of numbers.
LEMMA MinFacts ==
    ASSUME NEW T, T \subseteq Nat
    PROVE  /\ T # {} => Min(T) \in T /\ \A y \in T : Min(T) <= y
           /\ \A x \in T : (\A y \in T : x <= y) => Min(T) = x
<1>1. ASSUME NEW x \in T, \A y \in T : x <= y PROVE Min(T) \in T /\ \A y \in T : Min(T) <= y
  BY <1>1 DEF Min
<1>2. ASSUME NEW x \in T, \A y \in T : x <= y PROVE Min(T) = x
  <2>1. Min(T) \in Nat /\ x \in Nat /\ Min(T) <= x /\ x <= Min(T)
    BY <1>1, <1>2
  <2> QED BY <2>1
<1> QED BY <1>1, <1>2, Least

-----------------------------------------------------------------------------
(***************************************************************************)
(* The reader.  The function of its states exists: otherwise there were a  *)
(* least number of lines for which it does not.                            *)
(***************************************************************************)
IsReading(text, n, f) ==
    f = [i \in 0 .. n |-> IF i = 0 THEN NewReader ELSE ReadLine(f[i - 1], text[i])]

LEMMA ReadingExists ==
    ASSUME NEW text, NEW n \in Nat
    PROVE  \E f : IsReading(text, n, f)
<1> DEFINE T == {m \in Nat : ~\E f : IsReading(text, m, f)}
<1>1. SUFFICES ASSUME T # {} PROVE FALSE
  OBVIOUS
<1>2. PICK m \in T : \A y \in T : m <= y
  BY <1>1, Least
<1>3. CASE m = 0
  <2> DEFINE f == [i \in 0 .. 0 |-> NewReader]
  <2>1. IsReading(text, 0, f)
    BY DEF IsReading
  <2> QED BY <1>2, <1>3, <2>1
<1>4. CASE m # 0
  <2>1. m - 1 \in Nat /\ m \in Nat /\ ~(m <= m - 1)
    BY <1>4
  <2>2. PICK f : IsReading(text, m - 1, f)
    BY <1>2, <2>1
  <2> DEFINE g == [i \in 0 .. m |-> IF i = m THEN ReadLine(f[m - 1], text[m]) ELSE f[i]]
  <2>3. ASSUME NEW i \in 0 .. m
        PROVE  g[i] = IF i = 0 THEN NewReader ELSE ReadLine(g[i - 1], text[i])
    <3>1. CASE i = 0
      <4>1. 0 \in 0 .. m - 1 /\ 0 # m
        BY <1>4, <2>1
      <4>2. f[0] = NewReader
        BY <2>2, <4>1 DEF IsReading
      <4> QED BY <3>1, <4>1, <4>2
    <3>2. CASE i # 0 /\ i # m
      <4>1. i \in 0 .. m - 1 /\ i - 1 \in 0 .. m /\ i - 1 # m
        BY <2>1, <3>2
      <4>2. f[i] = ReadLine(f[i - 1], text[i])
        BY <2>2, <3>2, <4>1 DEF IsReading
      <4> QED BY <3>2, <4>1, <4>2
    <3>3. CASE i = m
      <4>1. i - 1 \in 0 .. m /\ i - 1 # m /\ i # 0
        BY <1>4, <2>1, <3>3
      <4> QED BY <3>3, <4>1
    <3> QED BY <3>1, <3>2, <3>3
  <2>4. IsReading(text, m, g)
    BY <2>3 DEF IsReading
  <2> QED BY <1>2, <2>4
<1> QED BY <1>3, <1>4

LEMMA ReadersFacts ==
    ASSUME NEW text, Len(text) \in Nat
    PROVE  /\ Readers(text)[0] = NewReader
           /\ \A n \in 1 .. Len(text) :
                 Readers(text)[n] = ReadLine(Readers(text)[n - 1], text[n])
<1>1. PICK f : IsReading(text, Len(text), f)
  BY ReadingExists
<1>2. Readers(text) = [i \in 0 .. Len(text) |->
          IF i = 0 THEN NewReader ELSE ReadLine(Readers(text)[i - 1], text[i])]
  BY <1>1 DEF Readers, IsReading
<1> QED BY <1>2

\* The reader with its two members apart.
LEMMA ReaderParts ==
    ASSUME NEW s, NEW c
    PROVE  /\ [sections |-> s, current |-> c].sections = s
           /\ [sections |-> s, current |-> c].current = c
           /\ [[sections |-> s, current |-> c] EXCEPT !.current = NoSection]
                 = [sections |-> s, current |-> NoSection]
OBVIOUS

LEMMA EntryFacts ==
    ASSUME NEW s, NEW c, NEW k, NEW v, c \in DOMAIN s, s = [m \in DOMAIN s |-> s[m]],
           c # NoSection,
           NEW r, r = ReadEntry([sections |-> s, current |-> c], k, v)
    PROVE  /\ r = [sections |-> r.sections, current |-> c]
           /\ r.sections = [m \in DOMAIN s |-> r.sections[m]]
           /\ r.sections[c] = Added(s[c], k, v)
           /\ \A m \in DOMAIN s \ {c} : r.sections[m] = s[m]
<1>1. r = [[sections |-> s, current |-> c] EXCEPT !.sections[c] = Added(s[c], k, v)]
  BY DEF ReadEntry
<1> QED BY <1>1

FirstHeader(text, name, h) ==
    h \in Headers(text, name) /\ \A j \in Headers(text, name) : h <= j

\* The section that begins at line h goes on at line n.
IsOpen(text, h, n) == h <= n /\ \A j \in h + 1 .. n : text[j].kind # "section"

\* What a reader with the sections s, and c as the current one, has read of n lines.
IsMap(s) == s = [m \in DOMAIN s |-> s[m]]

SectionsRead(text, n, s) ==
    \A m : m \in DOMAIN s <=> \E h \in Headers(text, m) : h <= n

CurrentRead(text, n, c) ==
    \A m : m # NoSection => (m = c <=> \E h : FirstHeader(text, m, h) /\ IsOpen(text, h, n))

KeyRead(text, n, s, m, k) ==
    /\ k \in DOMAIN s[m] <=> \E i \in Entries(text, m, k) : i <= n
    /\ k \in DOMAIN s[m] => s[m][k] = text[Min(Entries(text, m, k))].value

HasRead(text, n, s, c) ==
    /\ IsMap(s) /\ SectionsRead(text, n, s) /\ CurrentRead(text, n, c)
    /\ \A m \in DOMAIN s : \A k : KeyRead(text, n, s, m, k)

LEMMA LineFacts ==
    ASSUME NEW text, IsText(text), NEW m
    PROVE  /\ Headers(text, m) \subseteq 1 .. Len(text)
           /\ Headers(text, m) # {} => m # NoSection /\ \E h : FirstHeader(text, m, h)
           /\ \A h : FirstHeader(text, m, h) => h = Min(Headers(text, m))
           /\ \A h \in Headers(text, m) : text[h].kind = "section" /\ text[h].name = m
<1>1. Headers(text, m) \subseteq 1 .. Len(text) /\ Headers(text, m) \subseteq Nat
  BY DEF Headers, IsText
<1>2. Headers(text, m) # {} => m # NoSection
  BY DEF Headers, IsText
<1>3. Headers(text, m) # {} => \E h : FirstHeader(text, m, h)
  BY <1>1, Least DEF FirstHeader
<1>4. \A h : FirstHeader(text, m, h) => h = Min(Headers(text, m))
  BY <1>1, MinFacts DEF FirstHeader
<1>5. \A h \in Headers(text, m) : text[h].kind = "section" /\ text[h].name = m
  BY DEF Headers
<1> QED BY <1>1, <1>2, <1>3, <1>4, <1>5

\* The entries are those lines behind a section that is open.
LEMMA EntryLines ==
    ASSUME NEW text, IsText(text), NEW m, NEW k
    PROVE  /\ Entries(text, m, k) \subseteq 1 .. Len(text)
           /\ \A n \in 1 .. Len(text) :
                 n \in Entries(text, m, k) <=>
                     /\ text[n].kind = "entry" /\ text[n].key = k
                     /\ \E h : FirstHeader(text, m, h) /\ IsOpen(text, h, n - 1)
<1>1. Entries(text, m, k) \subseteq 1 .. Len(text)
  BY DEF Entries, IsText
<1>2. ASSUME NEW n \in 1 .. Len(text), n \in Entries(text, m, k)
      PROVE  /\ text[n].kind = "entry" /\ text[n].key = k
             /\ \E h : FirstHeader(text, m, h) /\ IsOpen(text, h, n - 1)
  <2>1. /\ text[n].kind = "entry" /\ text[n].key = k
        /\ Headers(text, m) # {} /\ IsWithin(text, Min(Headers(text, m)), n)
    BY <1>2 DEF Entries
  <2>2. PICK h : FirstHeader(text, m, h)
    BY <2>1, LineFacts
  <2>3. h = Min(Headers(text, m)) /\ h \in Nat
    BY <2>2, LineFacts DEF FirstHeader
  <2>4. h < n /\ \A j \in h + 1 .. n : text[j].kind # "section"
    BY <2>1, <2>3 DEF IsWithin
  <2>5. h <= n - 1 /\ h + 1 .. n - 1 \subseteq h + 1 .. n
    BY <2>3, <2>4
  <2>6. IsOpen(text, h, n - 1)
    BY <2>4, <2>5 DEF IsOpen
  <2> QED BY <2>1, <2>2, <2>6
<1>3. ASSUME NEW n \in 1 .. Len(text), text[n].kind = "entry", text[n].key = k,
             NEW h, FirstHeader(text, m, h), IsOpen(text, h, n - 1)
      PROVE  n \in Entries(text, m, k)
  <2>1. h = Min(Headers(text, m)) /\ h \in Nat /\ Headers(text, m) # {}
    BY <1>3, LineFacts DEF FirstHeader
  <2>2. h < n /\ \A j \in h + 1 .. n : j \in h + 1 .. n - 1 \/ j = n
    BY <1>3, <2>1 DEF IsOpen
  <2>3. IsWithin(text, h, n)
    BY <1>3, <2>2 DEF IsOpen, IsWithin
  <2>4. n \in DOMAIN text
    BY DEF IsText
  <2> QED BY <1>3, <2>1, <2>3, <2>4 DEF Entries
<1> QED BY <1>1, <1>2, <1>3

\* A section stays open up to the next one.
LEMMA OpenStep ==
    ASSUME NEW text, IsText(text), NEW n \in 1 .. Len(text), NEW h \in 1 .. Len(text)
    PROVE  IsOpen(text, h, n) <=>
               h = n \/ (IsOpen(text, h, n - 1) /\ text[n].kind # "section")
<1>1. CASE h = n
  BY <1>1 DEF IsOpen
<1>2. CASE h > n
  BY <1>2 DEF IsOpen
<1>3. CASE h < n
  <2>1. \A j : j \in h + 1 .. n <=> j \in h + 1 .. n - 1 \/ j = n
    BY <1>3
  <2>2. h <= n /\ h <= n - 1 /\ h # n
    BY <1>3
  <2> QED BY <2>1, <2>2 DEF IsOpen
<1> QED BY <1>1, <1>2, <1>3

LEMMA HeaderStep ==
    ASSUME NEW text, IsText(text), NEW n \in 1 .. Len(text), NEW m
    PROVE  (\E h \in Headers(text, m) : h <= n) <=>
               \/ \E h \in Headers(text, m) : h <= n - 1
               \/ text[n].kind = "section" /\ text[n].name = m
<1>1. Headers(text, m) \subseteq 1 .. Len(text) /\ n \in DOMAIN text
  BY LineFacts DEF IsText
<1>2. n \in Headers(text, m) <=> text[n].kind = "section" /\ text[n].name = m
  BY <1>1 DEF Headers
<1>3. \A h \in 1 .. Len(text) : h <= n <=> h <= n - 1 \/ h = n
  OBVIOUS
<1> QED BY <1>1, <1>2, <1>3

\* A line that is no entry of the section and key.
LEMMA SameEntries ==
    ASSUME NEW text, IsText(text), NEW n \in 1 .. Len(text), NEW m, NEW k,
           n \notin Entries(text, m, k), NEW s, NEW a, KeyRead(text, n - 1, s, m, k),
           k \in DOMAIN a[m] <=> k \in DOMAIN s[m],
           k \in DOMAIN s[m] => a[m][k] = s[m][k]
    PROVE  KeyRead(text, n, a, m, k)
<1>1. \A i \in Entries(text, m, k) : i \in 1 .. Len(text) /\ i # n
  BY EntryLines
<1>2. \A i \in 1 .. Len(text) : i # n => (i <= n <=> i <= n - 1)
  OBVIOUS
<1> QED BY <1>1, <1>2 DEF KeyRead

\* What is read of a line that begins no section.
LEMMA NoSectionLine ==
    ASSUME NEW text, IsText(text), NEW n \in 1 .. Len(text), NEW s, NEW c,
           HasRead(text, n - 1, s, c), text[n].kind # "section"
    PROVE  /\ SectionsRead(text, n, s) /\ CurrentRead(text, n, c)
           /\ \A m, k : n \in Entries(text, m, k) <=>
                 text[n].kind = "entry" /\ text[n].key = k /\ m = c /\ m # NoSection
<1>1. SectionsRead(text, n, s)
  BY HeaderStep DEF HasRead, SectionsRead
<1>2. ASSUME NEW m, NEW h, FirstHeader(text, m, h)
      PROVE  (IsOpen(text, h, n) <=> IsOpen(text, h, n - 1)) /\ m # NoSection
  <2>1. h \in Headers(text, m) /\ h \in 1 .. Len(text) /\ text[h].kind = "section"
    BY <1>2, LineFacts DEF FirstHeader
  <2>2. h # n
    BY <2>1
  <2> QED BY <2>1, <2>2, OpenStep, LineFacts
<1>3. CurrentRead(text, n, c)
  BY <1>2 DEF HasRead, CurrentRead
<1>4. ASSUME NEW m, NEW k
      PROVE  n \in Entries(text, m, k) <=>
                 text[n].kind = "entry" /\ text[n].key = k /\ m = c /\ m # NoSection
  BY <1>2, EntryLines DEF HasRead, CurrentRead
<1> QED BY <1>1, <1>3, <1>4

LEMMA OtherRead ==
    ASSUME NEW text, IsText(text), NEW n \in 1 .. Len(text), NEW s, NEW c,
           HasRead(text, n - 1, s, c), text[n].kind # "section",
           text[n].kind # "entry" \/ c = NoSection
    PROVE  HasRead(text, n, s, c)
<1>1. \A m, k : n \notin Entries(text, m, k)
  BY NoSectionLine
<1>2. \A m \in DOMAIN s : \A k : KeyRead(text, n, s, m, k)
  BY <1>1, SameEntries DEF HasRead
<1> QED BY <1>2, NoSectionLine DEF HasRead

\* A repeated section.
LEMMA RepeatedRead ==
    ASSUME NEW text, IsText(text), NEW n \in 1 .. Len(text), NEW s, NEW c,
           HasRead(text, n - 1, s, c), text[n].kind = "section", text[n].name \in DOMAIN s
    PROVE  HasRead(text, n, s, NoSection)
<1>1. \A m, k : n \notin Entries(text, m, k)
  BY EntryLines
<1>2. \A m \in DOMAIN s : \A k : KeyRead(text, n, s, m, k)
  BY <1>1, SameEntries DEF HasRead
<1>3. SectionsRead(text, n, s)
  BY HeaderStep DEF HasRead, SectionsRead
<1>4. ASSUME NEW m, NEW h, FirstHeader(text, m, h), IsOpen(text, h, n)
      PROVE  FALSE
  <2>1. h \in Headers(text, m) /\ h \in 1 .. Len(text) /\ text[h].name = m
    BY <1>4, LineFacts DEF FirstHeader
  <2>2. h = n
    BY <1>4, <2>1, OpenStep
  <2>3. PICK j \in Headers(text, m) : j <= n - 1
    BY <2>1, <2>2 DEF HasRead, SectionsRead
  <2>4. h <= j /\ j \in 1 .. Len(text)
    BY <1>4, <2>3, LineFacts DEF FirstHeader
  <2> QED BY <2>2, <2>3, <2>4
<1>5. CurrentRead(text, n, NoSection)
  BY <1>4 DEF CurrentRead
<1> QED BY <1>2, <1>3, <1>5 DEF HasRead

\* The first section of its name.
LEMMA FirstRead ==
    ASSUME NEW text, IsText(text), NEW n \in 1 .. Len(text), NEW s, NEW c,
           HasRead(text, n - 1, s, c), text[n].kind = "section", text[n].name \notin DOMAIN s
    PROVE  HasRead(text, n, Added(s, text[n].name, NoMappings), text[n].name)
<1> DEFINE name == text[n].name
           a == Added(s, name, NoMappings)
<1>1. /\ DOMAIN a = DOMAIN s \cup {name} /\ a[name] = NoMappings
      /\ \A m \in DOMAIN s : a[m] = s[m]
  BY DEF Added
<1>2. IsMap(a)
  BY DEF IsMap, Added
<1> HIDE DEF a
<1>3. \A m, k : n \notin Entries(text, m, k)
  BY EntryLines
<1>4. n \in Headers(text, name) /\ name # NoSection
  BY DEF Headers, IsText
<1>5. FirstHeader(text, name, n)
  <2>1. \A h \in Headers(text, name) : h \in 1 .. Len(text) /\ ~(h <= n - 1)
    BY LineFacts DEF HasRead, SectionsRead
  <2>2. \A h \in 1 .. Len(text) : ~(h <= n - 1) => n <= h
    OBVIOUS
  <2> QED BY <1>4, <2>1, <2>2 DEF FirstHeader
<1>6. SectionsRead(text, n, a)
  BY <1>1, HeaderStep DEF HasRead, SectionsRead
<1>7. ASSUME NEW m, NEW h, FirstHeader(text, m, h), IsOpen(text, h, n)
      PROVE  m = name
  <2>1. h \in Headers(text, m) /\ h \in 1 .. Len(text) /\ text[h].name = m
    BY <1>7, LineFacts DEF FirstHeader
  <2> QED BY <1>7, <2>1, OpenStep
<1>8. CurrentRead(text, n, name)
  <2>1. IsOpen(text, n, n)
    BY OpenStep
  <2> QED BY <1>5, <1>7, <2>1 DEF CurrentRead
<1>9. ASSUME NEW m \in DOMAIN a, NEW k
      PROVE  KeyRead(text, n, a, m, k)
  <2>1. CASE m \in DOMAIN s
    BY <1>1, <1>3, <2>1, SameEntries DEF HasRead
  <2>2. CASE m = name
    <3>1. DOMAIN a[m] = {}
      BY <1>1, <2>2 DEF NoMappings
    <3>2. ASSUME NEW i \in Entries(text, m, k), i <= n
          PROVE  FALSE
      <4>1. PICK h : FirstHeader(text, m, h) /\ IsOpen(text, h, i - 1) /\ i \in 1 .. Len(text)
        BY EntryLines
      <4>2. h = n /\ i \in 1 .. Len(text) /\ h <= i - 1
        BY <1>5, <2>2, <4>1, LineFacts DEF IsOpen
      <4> QED BY <3>2, <4>2
    <3> QED BY <3>1, <3>2 DEF KeyRead
  <2> QED BY <1>1, <2>1, <2>2
<1>10. HasRead(text, n, a, name)
  BY <1>2, <1>6, <1>8, <1>9 DEF HasRead
<1> QED BY <1>10 DEF a

\* An entry of the current section.
LEMMA EntryRead ==
    ASSUME NEW text, IsText(text), NEW n \in 1 .. Len(text), NEW s, NEW c,
           HasRead(text, n - 1, s, c), text[n].kind = "entry", c # NoSection,
           NEW a, DOMAIN a = DOMAIN s, IsMap(a),
           a[c] = Added(s[c], text[n].key, text[n].value),
           \A m \in DOMAIN s \ {c} : a[m] = s[m]
    PROVE  HasRead(text, n, a, c)
<1> DEFINE key == text[n].key
<1>1. /\ DOMAIN a[c] = DOMAIN s[c] \cup {key} /\ \A j \in DOMAIN s[c] : a[c][j] = s[c][j]
      /\ key \notin DOMAIN s[c] => a[c][key] = text[n].value
  BY DEF Added
<1> HIDE DEF key
<1>2. /\ SectionsRead(text, n, s) /\ CurrentRead(text, n, c)
      /\ \A m, k : n \in Entries(text, m, k) <=> key = k /\ m = c
  <2>1. text[n].kind # "section"
    OBVIOUS
  <2>2. /\ SectionsRead(text, n, s) /\ CurrentRead(text, n, c)
        /\ \A m, k : n \in Entries(text, m, k) <=>
              text[n].kind = "entry" /\ text[n].key = k /\ m = c /\ m # NoSection
    BY <2>1, NoSectionLine, Zenon
  <2>3. \A m, k : n \in Entries(text, m, k) <=> text[n].key = k /\ m = c
    BY <2>2
  <2> QED BY <2>2, <2>3 DEF key
<1>3. ASSUME NEW m \in DOMAIN s, NEW k, m # c \/ k # key
      PROVE  KeyRead(text, n, a, m, k)
  <2>1. n \notin Entries(text, m, k)
    BY <1>2, <1>3
  <2>2. (k \in DOMAIN a[m] <=> k \in DOMAIN s[m]) /\ (k \in DOMAIN s[m] => a[m][k] = s[m][k])
    BY <1>1, <1>3
  <2>3. KeyRead(text, n - 1, s, m, k)
    BY DEF HasRead
  <2> QED BY <2>1, <2>2, <2>3, SameEntries
<1>4. ASSUME c \in DOMAIN s
      PROVE  KeyRead(text, n, a, c, key)
  <2>1. n \in Entries(text, c, key) /\ n <= n
    BY <1>2
  <2>2. KeyRead(text, n - 1, s, c, key)
    BY <1>4 DEF HasRead
  <2>3. CASE key \in DOMAIN s[c]
    BY <1>1, <2>1, <2>2, <2>3 DEF KeyRead
  <2>4. CASE key \notin DOMAIN s[c]
    <3>1. \A i \in Entries(text, c, key) : i \in 1 .. Len(text) /\ ~(i <= n - 1)
      BY <2>2, <2>4, EntryLines DEF KeyRead
    <3>2. \A i \in Entries(text, c, key) : n <= i /\ i \in Nat
      BY <3>1
    <3>3. Min(Entries(text, c, key)) = n
      BY <2>1, <3>2, MinFacts
    <3> QED BY <1>1, <2>1, <2>4, <3>3 DEF KeyRead
  <2> QED BY <2>3, <2>4
<1>5. \A m \in DOMAIN a : \A k : KeyRead(text, n, a, m, k)
  BY <1>3, <1>4
<1> QED BY <1>2, <1>5 DEF HasRead, SectionsRead

LEMMA LineRead ==
    ASSUME NEW text, IsText(text), NEW n \in 1 .. Len(text), NEW r,
           r = [sections |-> r.sections, current |-> r.current],
           HasRead(text, n - 1, r.sections, r.current)
    PROVE  LET x == ReadLine(r, text[n])
           IN  /\ x = [sections |-> x.sections, current |-> x.current]
               /\ HasRead(text, n, x.sections, x.current)
<1> DEFINE s == r.sections
           c == r.current
           x == ReadLine(r, text[n])
           name == text[n].name
<1>1. CASE text[n].kind = "section" /\ name \in DOMAIN s
  <2>1. x = [sections |-> s, current |-> NoSection]
    <3>1. x = ReadSection(r, name)
      BY <1>1 DEF ReadLine
    <3>2. x = [r EXCEPT !.current = NoSection]
      BY <1>1, <3>1 DEF ReadSection
    <3> QED BY <3>2
  <2> QED BY <1>1, <2>1, RepeatedRead
<1>2. CASE text[n].kind = "section" /\ name \notin DOMAIN s
  <2>1. x = [sections |-> Added(s, name, NoMappings), current |-> name]
    <3>1. x = ReadSection(r, name)
      BY <1>2 DEF ReadLine
    <3> QED BY <1>2, <3>1 DEF ReadSection
  <2> QED BY <1>2, <2>1, FirstRead
<1>3. CASE text[n].kind = "entry" /\ c # NoSection
  <2>1. x = ReadEntry(r, text[n].key, text[n].value)
    BY <1>3 DEF ReadLine
  <2>2. c \in DOMAIN s
    <3>1. PICK h : FirstHeader(text, c, h) /\ IsOpen(text, h, n - 1)
      BY <1>3 DEF HasRead, CurrentRead
    <3> QED BY <3>1 DEF FirstHeader, IsOpen, HasRead, SectionsRead
  <2>3. /\ x = [sections |-> x.sections, current |-> c]
        /\ x.sections = [m \in DOMAIN s |-> x.sections[m]]
        /\ x.sections[c] = Added(s[c], text[n].key, text[n].value)
        /\ \A m \in DOMAIN s \ {c} : x.sections[m] = s[m]
    BY <1>3, <2>1, <2>2, EntryFacts DEF HasRead, IsMap
  <2> HIDE DEF x
  <2>4. IsMap(x.sections) /\ DOMAIN x.sections = DOMAIN s
    BY <2>3 DEF IsMap
  <2>5. HasRead(text, n, x.sections, c)
    BY <1>3, <2>3, <2>4, EntryRead
  <2>6. x.current = c
    BY <2>3
  <2> QED BY <2>3, <2>5, <2>6 DEF x
<1>4. CASE text[n].kind = "entry" /\ c = NoSection
  <2>1. x = r /\ text[n].kind # "section"
    BY <1>4 DEF ReadLine, ReadEntry
  <2> QED BY <1>4, <2>1, OtherRead
<1>5. CASE text[n].kind \notin {"section", "entry"}
  <2>1. x = r /\ text[n].kind # "section"
    BY <1>5 DEF ReadLine
  <2> QED BY <1>5, <2>1, OtherRead
<1> QED BY <1>1, <1>2, <1>3, <1>4, <1>5

\* Otherwise there were a least number of lines after which the reader had gone wrong.
LEMMA TextRead ==
    ASSUME NEW text, IsText(text)
    PROVE  \E c : HasRead(text, Len(text), Load(text), c)
<1> DEFINE x(n) == Readers(text)[n]
           Right(n) == /\ x(n) = [sections |-> x(n).sections, current |-> x(n).current]
                       /\ HasRead(text, n, x(n).sections, x(n).current)
           T == {n \in 0 .. Len(text) : ~Right(n)}
<1>1. Len(text) \in Nat
  BY DEF IsText
<1>2. Right(0)
  <2>1. x(0) = NewReader
    BY <1>1, ReadersFacts
  <2>2. x(0).sections = NoMappings /\ x(0).current = NoSection
    BY <2>1 DEF NewReader
  <2>3. \A m : \A h \in Headers(text, m) : ~(h <= 0)
    BY LineFacts
  <2>4. DOMAIN NoMappings = {} /\ IsMap(NoMappings)
    BY DEF NoMappings, IsMap
  <2>5. SectionsRead(text, 0, NoMappings)
    BY <2>3, <2>4 DEF SectionsRead
  <2>6. CurrentRead(text, 0, NoSection)
    BY <2>3 DEF CurrentRead, FirstHeader, IsOpen
  <2>7. HasRead(text, 0, NoMappings, NoSection)
    BY <2>4, <2>5, <2>6 DEF HasRead
  <2> QED BY <2>1, <2>2, <2>7 DEF NewReader
<1>3. ASSUME NEW n \in 1 .. Len(text), Right(n - 1)
      PROVE  Right(n)
  <2>1. x(n) = ReadLine(x(n - 1), text[n])
    BY <1>1, ReadersFacts
  <2> HIDE DEF x
  <2> QED BY <1>3, <2>1, LineRead
<1> HIDE DEF x, Right
<1>4. T = {}
  <2> SUFFICES ASSUME T # {} PROVE FALSE
    OBVIOUS
  <2>1. T \subseteq Nat
    BY <1>1
  <2>2. PICK n \in T : \A y \in T : n <= y
    BY <2>1, Least
  <2>3. n \in 1 .. Len(text)
    BY <1>1, <1>2, <2>2
  <2>4. n - 1 \in 0 .. Len(text) /\ ~(n <= n - 1)
    BY <1>1, <2>3
  <2> QED BY <1>3, <2>2, <2>3, <2>4
<1>5. Right(Len(text))
  BY <1>1, <1>4
<1> QED BY <1>5 DEF Right, x, Load

\* What a file says is what is read of it.
LEMMA LoadFacts ==
    ASSUME NEW text, IsText(text)
    PROVE  \A name :
              /\ name \in DOMAIN Load(text) <=> Headers(text, name) # {}
              /\ \A key : GetValue(Load(text), name, key) = ValueSaid(text, name, key)
              /\ name \in DOMAIN Load(text) => \A key :
                    /\ key \in DOMAIN Load(text)[name] <=> Entries(text, name, key) # {}
                    /\ Entries(text, name, key) # {} =>
                          Load(text)[name][key] = text[Min(Entries(text, name, key))].value
<1>1. PICK c : HasRead(text, Len(text), Load(text), c)
  BY TextRead
<1> SUFFICES ASSUME NEW name
             PROVE  /\ name \in DOMAIN Load(text) <=> Headers(text, name) # {}
                    /\ \A key : GetValue(Load(text), name, key) = ValueSaid(text, name, key)
                    /\ name \in DOMAIN Load(text) => \A key :
                          /\ key \in DOMAIN Load(text)[name] <=> Entries(text, name, key) # {}
                          /\ Entries(text, name, key) # {} =>
                                Load(text)[name][key]
                                   = text[Min(Entries(text, name, key))].value
  OBVIOUS
<1>2. name \in DOMAIN Load(text) <=> Headers(text, name) # {}
  <2>1. \A h \in Headers(text, name) : h \in 1 .. Len(text) /\ h <= Len(text)
    BY LineFacts
  <2> QED BY <1>1, <2>1 DEF HasRead, SectionsRead
<1>3. ASSUME NEW key, name \in DOMAIN Load(text)
      PROVE  /\ key \in DOMAIN Load(text)[name] <=> Entries(text, name, key) # {}
             /\ Entries(text, name, key) # {} =>
                   Load(text)[name][key] = text[Min(Entries(text, name, key))].value
  <2>1. \A i \in Entries(text, name, key) : i \in 1 .. Len(text) /\ i <= Len(text)
    BY EntryLines
  <2> QED BY <1>1, <1>3, <2>1 DEF HasRead, KeyRead
<1>4. ASSUME NEW key
      PROVE  GetValue(Load(text), name, key) = ValueSaid(text, name, key)
  <2>1. Headers(text, name) = {} => Entries(text, name, key) = {}
    BY DEF Entries
  <2> QED BY <1>2, <1>3, <2>1 DEF GetValue, ValueSaid
<1> QED BY <1>2, <1>3, <1>4

-----------------------------------------------------------------------------
(***************************************************************************)
(* The configuration.  What the process found never changes, and every     *)
(* Runtime is as built or as init() left it: so it is enough to know what  *)
(* init() makes of the file and of the environment.                        *)
(***************************************************************************)
LEMMA SaidFacts ==
    ASSUME InputInv, UsedFile(env, files) # Unreadable
    PROVE  LET sections == Sections(UsedFile(env, files))
           IN  \A name :
                  /\ name \in DOMAIN sections <=> Headers(TextSaid, name) # {}
                  /\ \A key : GetValue(sections, name, key) = Said(name, key)
                  /\ name \in DOMAIN sections => \A key :
                        /\ key \in DOMAIN sections[name] <=> Entries(TextSaid, name, key) # {}
                        /\ Entries(TextSaid, name, key) # {} =>
                              sections[name][key]
                                 = TextSaid[Min(Entries(TextSaid, name, key))].value
<1> DEFINE file == UsedFile(env, files)
<1>1. CASE file = Missing
  <2>1. TextSaid = <<>> /\ Sections(file) = NoMappings
    BY <1>1 DEF TextSaid, Sections
  <2>2. \A name : Headers(<<>>, name) = {}
    BY DEF Headers
  <2>3. \A name, key : Entries(<<>>, name, key) = {}
    BY <2>2 DEF Entries
  <2>4. \A name : name \notin DOMAIN NoMappings
    BY DEF NoMappings
  <2>5. \A name, key : GetValue(NoMappings, name, key) = Empty
    BY <2>4 DEF GetValue
  <2>6. \A name, key : Said(name, key) = Empty
    BY <2>1, <2>3 DEF Said, ValueSaid
  <2> QED BY <2>1, <2>2, <2>4, <2>5, <2>6
<1>2. CASE file # Missing
  <2>1. TextSaid = file /\ Sections(file) = Load(file) /\ IsText(file)
    BY <1>2, FilesAssumption DEF TextSaid, Sections, InputInv
  <2>2. \A name, key : Said(name, key) = ValueSaid(file, name, key)
    BY <2>1 DEF Said
  <2> HIDE DEF file
  <2>3. \A name :
           /\ name \in DOMAIN Load(file) <=> Headers(file, name) # {}
           /\ \A key : GetValue(Load(file), name, key) = ValueSaid(file, name, key)
           /\ name \in DOMAIN Load(file) => \A key :
                 /\ key \in DOMAIN Load(file)[name] <=> Entries(file, name, key) # {}
                 /\ Entries(file, name, key) # {} =>
                       Load(file)[name][key] = file[Min(Entries(file, name, key))].value
    BY <2>1, LoadFacts
  <2> QED BY <2>1, <2>2, <2>3 DEF file
<1> QED BY <1>1, <1>2

LEMMA NothingSaid ==
    ASSUME UsedFile(env, files) = Unreadable
    PROVE  /\ \A name, key : Said(name, key) = Empty
           /\ \A name : Headers(TextSaid, name) = {}
           /\ \A name, key : Entries(TextSaid, name, key) = {}
<1>1. TextSaid = <<>>
  BY DEF TextSaid
<1>2. \A name : Headers(<<>>, name) = {}
  BY DEF Headers
<1>3. \A name, key : Entries(<<>>, name, key) = {}
  BY <1>2 DEF Entries
<1> QED BY <1>1, <1>2, <1>3 DEF Said, ValueSaid

RuntimeOf(binding, folder, timeout, libraries, isConfigured) ==
    [binding |-> binding, folder |-> folder, timeout |-> timeout, libraries |-> libraries,
     isConfigured |-> isConfigured]

\* What init() assigns when it does not throw.
LEMMA ConfiguredMembers ==
    ASSUME ~InitThrows(env, files)
    PROVE  LET file == UsedFile(env, files)
               value(key) == IF file = Unreadable THEN Empty
                             ELSE GetValue(Sections(file), "default", key)
               r == Configured(env, files)
           IN  /\ r.binding = IF env.binding # Unset THEN env.binding
                              ELSE Or(value("binding"), BuiltinBinding)
               /\ r.folder = IF env.folder # Unset THEN env.folder
                             ELSE Or(value("folder"), BuiltinFolder)
               /\ r.timeout = Or(value("callTimeout"), DefaultTimeout)
               /\ r.libraries = IF file = Unreadable THEN NoMappings
                                ELSE MappingsOf(Sections(file))
<1> DEFINE file == UsedFile(env, files)
           value(key) == IF file = Unreadable THEN Empty
                         ELSE GetValue(Sections(file), "default", key)
           libraries == IF file = Unreadable THEN NoMappings ELSE MappingsOf(Sections(file))
           read == WithFile(Builtin, file)
           b == Or(value("binding"), BuiltinBinding)
           f == Or(value("folder"), BuiltinFolder)
           t == Or(value("callTimeout"), DefaultTimeout)
           x == IF env.binding = Unset THEN b ELSE env.binding
           y == IF env.folder = Unset THEN f ELSE env.folder
<1>1. read = RuntimeOf(b, f, t, libraries, FALSE)
  <2>1. CASE file = Unreadable
    <3>1. WithFile(Builtin, Unreadable) = Builtin
      BY DEF WithFile, ReadThrows
    <3>2. b = BuiltinBinding /\ f = BuiltinFolder /\ t = DefaultTimeout /\ libraries = NoMappings
      BY <2>1 DEF Or
    <3>3. read = Builtin
      BY <2>1, <3>1
    <3> HIDE DEF read, b, f, t, libraries
    <3> QED BY <3>2, <3>3 DEF Builtin, RuntimeOf
  <2>2. CASE file # Unreadable
    <3>1. ~ReadThrows(file)
      BY DEF InitThrows
    <3>2. b = Or(GetValue(Sections(file), "default", "binding"), BuiltinBinding)
          /\ f = Or(GetValue(Sections(file), "default", "folder"), BuiltinFolder)
          /\ t = Or(GetValue(Sections(file), "default", "callTimeout"), DefaultTimeout)
          /\ libraries = MappingsOf(Sections(file))
      BY <2>2
    <3>3. read = [[Builtin EXCEPT
                      !.binding = Or(GetValue(Sections(file), "default", "binding"), @),
                      !.folder = Or(GetValue(Sections(file), "default", "folder"), @)] EXCEPT
                      !.timeout = Or(GetValue(Sections(file), "default", "callTimeout"), @),
                      !.libraries = MappingsOf(Sections(file))]
      BY <2>2, <3>1 DEF WithFile
    <3> HIDE DEF read, b, f, t, libraries, file
    <3> QED BY <3>2, <3>3 DEF Builtin, RuntimeOf
  <2> QED BY <2>1, <2>2
<1>2. Configured(env, files) = [WithEnvironment(read, env) EXCEPT !.isConfigured = TRUE]
  BY DEF Configured
<1> HIDE DEF b, f, t, libraries, read
<1>3. WithEnvironment(read, env) = [read EXCEPT !.binding = x, !.folder = y]
  BY <1>1 DEF WithEnvironment, RuntimeOf
<1> HIDE DEF x, y
<1>4. Configured(env, files) = RuntimeOf(x, y, t, libraries, TRUE)
  BY <1>1, <1>2, <1>3 DEF RuntimeOf
<1> QED BY <1>4 DEF RuntimeOf, x, y, b, f, t, libraries

-----------------------------------------------------------------------------
(***************************************************************************)
(* The Logger.  A later init(), which reads the same file, sets it up like *)
(* the first one: only whether the log file opens may differ.              *)
(***************************************************************************)
SetUp == LoggerAfterInit(NewLogger, env, files, opened)

Settled == \E i \in DOMAIN runtimes : runtimes[i].isConfigured \/ i \in threw

LoggedInv == logger \in {NewLogger, SetUp} /\ (Settled => logger = SetUp)

\* A later init() sets it up like the first one, whether the earlier open succeeded or
\* failed.
LEMMA SetUpAgain ==
    ASSUME NEW isOpened,
           NEW l \in {NewLogger, SetUp}
    PROVE  LoggerAfterInit(l, env, files, isOpened)
              = LoggerAfterInit(NewLogger, env, files, isOpened)
<1> DEFINE file == UsedFile(env, files)
           sections == Sections(file)
<1>1. CASE file = Unreadable
  BY <1>1 DEF SetUp, LoggerAfterInit
<1>2. CASE file # Unreadable
  <2>1. /\ SetUp = LoggerWith(NewLogger, sections, opened)
        /\ \A x : LoggerAfterInit(x, env, files, isOpened) = LoggerWith(x, sections, isOpened)
    BY <1>2 DEF SetUp, LoggerAfterInit
  <2> HIDE DEF sections
  <2>2. GetValue(sections, "logging", "file") = Empty => SetUp.file = NewLogger.file
    BY <2>1 DEF LoggerWith
  <2>3. LoggerWith(SetUp, sections, isOpened) = LoggerWith(NewLogger, sections, isOpened)
    BY <2>2 DEF LoggerWith
  <2> QED BY <2>1, <2>3
<1> QED BY <1>1, <1>2

LEMMA InitLogged == Init => LoggedInv
BY DEF Init, LoggedInv, Settled

LEMMA NextLogged == BaseInv /\ InputInv /\ LoggedInv /\ [Next]_vars => LoggedInv'
<1> SUFFICES ASSUME BaseInv, InputInv, LoggedInv, [Next]_vars PROVE LoggedInv'
  OBVIOUS
<1>1. UNCHANGED input
  BY NextInput
<1>2. ASSUME NEW t \in Threads, InitRuntime(t)
      PROVE  LoggedInv'
  <2>1. logger' = LoggerAfterInit(logger, env, files, opened')
    BY <1>2 DEF InitRuntime
  <2>2. logger' = LoggerAfterInit(NewLogger, env, files, opened')
    BY <2>1, SetUpAgain DEF LoggedInv
  <2> QED BY <1>1, <2>2 DEF input, SetUp, LoggedInv
<1>3. ASSUME logger' = logger, opened' = opened, Settled' => Settled
      PROVE  LoggedInv'
  <2>1. SetUp' = SetUp
    BY <1>1, <1>3 DEF input, SetUp
  <2> QED BY <1>3, <2>1 DEF LoggedInv
<1>4. ASSUME NEW t \in Threads, CheckObject(t)
      PROVE  LoggedInv'
  <2>1. /\ logger' = logger /\ opened' = opened
        /\ threw' = threw /\ threw \subseteq DOMAIN runtimes
    BY <1>4 DEF CheckObject, outside, BaseInv, MutexOwned, TypeOK
  <2>2. CASE object = NoRuntime
    <3>1. runtimes' = Append(runtimes, Builtin) /\ UNCHANGED input
      BY <1>4, <2>2 DEF CheckObject, outside
    <3>2. /\ Len(runtimes) \in Nat /\ DOMAIN runtimes = 1 .. Len(runtimes)
          /\ runtimes' \in Seq({Builtin, Configured(env, files)})
          /\ Len(runtimes') = Len(runtimes) + 1
          /\ \A r \in DOMAIN runtimes : runtimes'[r] = runtimes[r]
          /\ runtimes'[Len(runtimes')] = Builtin
      BY <3>1, RuntimesFacts, AppendFacts DEF BaseInv, input, BooksInv
    <3>3. DOMAIN runtimes' = DOMAIN runtimes \cup {Len(runtimes')}
          /\ Len(runtimes') \notin DOMAIN runtimes
      BY <3>2
    <3>4. Settled' => Settled
      BY <2>1, <3>2, <3>3, ConfiguredFacts DEF Settled
    <3> QED BY <1>3, <2>1, <3>4
  <2>3. CASE object # NoRuntime
    BY <1>3, <1>4, <2>1, <2>3 DEF CheckObject, Settled
  <2> QED BY <2>2, <2>3
<1>5. CASE UNCHANGED <<logger, opened, runtimes, threw>>
  BY <1>3, <1>5 DEF Settled
<1>6. CASE Next
  BY <1>2, <1>4, <1>5, <1>6
     DEF Next, outside, SetProperty, Get, GetStep, LockGet, CheckPointer, ReturnNull,
         ReturnRuntime, FollowDangling, StartDeinit, DeinitStep, ResetObject, DeletePointer,
         ClearPointer
<1>7. CASE UNCHANGED vars
  BY <1>5, <1>7 DEF vars, outside
<1> QED BY <1>6, <1>7

\* What the Logger is when it is set up.
LEMMA SetUpSaid ==
    ASSUME InputInv
    PROVE  /\ SetUp.console = (Headers(TextSaid, "logging") # {}
                                  => Said("logging", "console") = True)
           /\ SetUp.file = "open" <=> Said("logging", "file") # Empty /\ opened
           /\ SetUp.level = AsLevel(Said("logging", "level"))
<1> DEFINE file == UsedFile(env, files)
           sections == Sections(file)
<1>1. CASE file = Unreadable
  <2>1. SetUp = NewLogger
    BY <1>1 DEF SetUp, LoggerAfterInit
  <2>2. AsLevel(Empty) = "info"
    BY EmptyAssumption DEF AsLevel
  <2> QED BY <1>1, <2>1, <2>2, NothingSaid DEF NewLogger
<1>2. CASE file # Unreadable
  <2>1. SetUp = LoggerWith(NewLogger, sections, opened)
    BY <1>2 DEF SetUp, LoggerAfterInit
  <2>2. /\ "logging" \in DOMAIN sections <=> Headers(TextSaid, "logging") # {}
        /\ \A key : GetValue(sections, "logging", key) = Said("logging", key)
    BY <1>2, SaidFacts
  <2> HIDE DEF sections
  <2>3. /\ SetUp.console = ("logging" \in DOMAIN sections
                               => GetValue(sections, "logging", "console") = True)
        /\ SetUp.file = IF GetValue(sections, "logging", "file") = Empty THEN "none"
                        ELSE IF opened THEN "open" ELSE "closed"
        /\ SetUp.level = AsLevel(GetValue(sections, "logging", "level"))
    BY <2>1 DEF LoggerWith, NewLogger
  <2>4. SetUp.file = "open" <=> Said("logging", "file") # Empty /\ opened
    BY <2>2, <2>3
  <2> QED BY <2>2, <2>3, <2>4
<1> QED BY <1>1, <1>2

LEMMA LoggedAsSaid == BaseInv /\ InputInv /\ LoggedInv => LoggingAsSaid
<1> SUFFICES ASSUME BaseInv, InputInv, LoggedInv, NEW i \in DOMAIN runtimes,
                    NEW level \in Range(Levels), runtimes[i].isConfigured \/ i \in threw
             PROVE  LET said(key) == Said("logging", key)
                        limit == IF said("level") \in Range(Levels) \cup {"none"}
                                 THEN said("level") ELSE "info"
                        isLogged == Rank(level) <= Rank(limit)
                        hasSection == Headers(TextSaid, "logging") # {}
                    IN  /\ "file" \in Sinks(logger, level)
                              <=> isLogged /\ said("file") # Empty /\ opened
                        /\ "console" \in Sinks(logger, level) <=>
                              isLogged /\ (hasSection => said("console") = True)
  BY DEF LoggingAsSaid
<1> DEFINE limit == AsLevel(Said("logging", "level"))
<1>1. logger = SetUp
  BY DEF LoggedInv, Settled
<1>2. /\ logger.console = (Headers(TextSaid, "logging") # {}
                              => Said("logging", "console") = True)
      /\ logger.file = "open" <=> Said("logging", "file") # Empty /\ opened
      /\ logger.level = limit
  BY <1>1, SetUpSaid
<1>3. limit \in Range(Levels) \cup {"none"}
  <2>1. "info" = Levels[4] /\ 4 \in DOMAIN Levels
    BY DEF Levels
  <2> QED BY <2>1 DEF AsLevel, Range
<1> HIDE DEF limit
<1>4. Rank(level) \in Int /\ Rank(limit) \in Int
  <2>1. Len(Levels) = 6
    BY DEF Levels
  <2> QED BY <1>3, <2>1, RankType
<1>5. Rank(level) > Rank(limit) <=> ~(Rank(level) <= Rank(limit))
  BY <1>4
<1>6. /\ "file" \in Sinks(logger, level)
            <=> Rank(level) <= Rank(limit) /\ logger.file = "open"
      /\ "console" \in Sinks(logger, level)
            <=> Rank(level) <= Rank(limit) /\ logger.console
  BY <1>2, <1>5 DEF Sinks
<1> QED BY <1>2, <1>6 DEF limit, AsLevel

-----------------------------------------------------------------------------
(***************************************************************************)
(* The Runtime and the library                                             *)
(***************************************************************************)
LEMMA IsConfigured ==
    ASSUME BaseInv, NEW i \in DOMAIN runtimes, runtimes[i].isConfigured
    PROVE  runtimes[i] = Configured(env, files) /\ ~InitThrows(env, files)
BY RuntimesFacts, ConfiguredFacts DEF BaseInv

LEMMA MembersSaid ==
    ASSUME BaseInv, InputInv, NEW i \in DOMAIN runtimes, runtimes[i].isConfigured
    PROVE  /\ runtimes[i].binding = IF env.binding # Unset THEN env.binding
                                    ELSE Or(Said("default", "binding"), BuiltinBinding)
           /\ runtimes[i].folder = IF env.folder # Unset THEN env.folder
                                   ELSE Or(Said("default", "folder"), BuiltinFolder)
           /\ runtimes[i].timeout = Or(Said("default", "callTimeout"), DefaultTimeout)
<1> DEFINE file == UsedFile(env, files)
           value(key) == IF file = Unreadable THEN Empty
                         ELSE GetValue(Sections(file), "default", key)
<1>1. \A key : value(key) = Said("default", key)
  BY NothingSaid, SaidFacts
<1>2. /\ runtimes[i].binding = IF env.binding # Unset THEN env.binding
                               ELSE Or(value("binding"), BuiltinBinding)
      /\ runtimes[i].folder = IF env.folder # Unset THEN env.folder
                              ELSE Or(value("folder"), BuiltinFolder)
      /\ runtimes[i].timeout = Or(value("callTimeout"), DefaultTimeout)
  BY IsConfigured, ConfiguredMembers
<1> HIDE DEF value
<1> QED BY <1>1, <1>2

\* What a configured Runtime has of the first definitions in the file, of the environment
\* and of the built-in values, whichever thread called init().  Once an init() is over, also
\* one that threw, messages go where the section "logging" says: to the log file just if
\* the last init() could open it.
THEOREM ConfiguredFromFile == Spec => []ConfiguredAsSaid
<1>1. BaseInv /\ InputInv /\ LoggedInv => ConfiguredAsSaid
  BY MembersSaid, LoggedAsSaid DEF ConfiguredAsSaid
<1> QED BY <1>1, InitBase, NextBase, InitInput, NextInput, InitLogged, NextLogged, PTL
        DEF Spec

\* What the mappings are of a Runtime that is configured.
LEMMA LibrariesSaid ==
    ASSUME BaseInv, InputInv, NEW i \in DOMAIN runtimes, runtimes[i].isConfigured,
           NEW a, NEW p \in BOOLEAN
    PROVE  LET entries == Entries(TextSaid, MappingSection(p), a)
           IN  /\ <<a, p>> \in DOMAIN runtimes[i].libraries <=> entries # {}
               /\ entries # {} =>
                     runtimes[i].libraries[<<a, p>>] = TextSaid[Min(entries)].value
<1> DEFINE file == UsedFile(env, files)
           sections == Sections(file)
           entries == Entries(TextSaid, MappingSection(p), a)
<1>1. CASE file = Unreadable
  <2>1. runtimes[i].libraries = NoMappings
    BY <1>1, IsConfigured, ConfiguredMembers
  <2>2. DOMAIN NoMappings = {}
    BY DEF NoMappings
  <2> QED BY <1>1, <2>1, <2>2, NothingSaid
<1>2. CASE file # Unreadable
  <2>1. runtimes[i].libraries = MappingsOf(sections)
    BY <1>2, IsConfigured, ConfiguredMembers
  <2>2. /\ MappingSection(p) \in DOMAIN sections <=> Headers(TextSaid, MappingSection(p)) # {}
        /\ MappingSection(p) \in DOMAIN sections =>
              /\ a \in DOMAIN sections[MappingSection(p)] <=> entries # {}
              /\ entries # {} =>
                    sections[MappingSection(p)][a] = TextSaid[Min(entries)].value
    BY <1>2, SaidFacts
  <2>3. entries # {} => Headers(TextSaid, MappingSection(p)) # {}
    BY DEF Entries
  <2> HIDE DEF sections, entries
  <2>4. a \in AddressesIn(sections, MappingSection(p)) <=> entries # {}
    BY <2>2, <2>3 DEF AddressesIn
  <2>5. /\ <<a, p>> \in DOMAIN MappingsOf(sections)
              <=> a \in AddressesIn(sections, MappingSection(p))
        /\ <<a, p>> \in DOMAIN MappingsOf(sections) =>
              MappingsOf(sections)[<<a, p>>] = sections[MappingSection(p)][a]
    BY DEF MappingsOf
  <2> QED BY <2>1, <2>2, <2>3, <2>4, <2>5 DEF entries
<1> QED BY <1>1, <1>2

\* Whatever files and threads there are, a library is looked for under the name that the
\* file maps the address to, else under LibraryBase, else under the address.
THEOREM LibraryFromFile == Spec => []LibraryAsSaid
<1>1. ASSUME BaseInv, InputInv, NEW i \in DOMAIN runtimes, NEW a \in Addresses,
             NEW p \in BOOLEAN, runtimes[i].isConfigured
      PROVE  LET said == {j \in DOMAIN TextSaid :
                             j \in Entries(TextSaid, IF p THEN "proxy" ELSE "stub", a)}
                 library == GetLibrary(runtimes[i], base, a, p)
             IN  IF said # {} THEN library = TextSaid[Min(said)].value
                 ELSE IF base # Empty THEN library = <<base, runtimes[i].binding>>
                 ELSE library = <<Flattened[a]>>
  <2> DEFINE entries == Entries(TextSaid, MappingSection(p), a)
             said == {j \in DOMAIN TextSaid :
                         j \in Entries(TextSaid, IF p THEN "proxy" ELSE "stub", a)}
  <2>1. said = entries
    BY DEF Entries, MappingSection
  <2>2. /\ <<a, p>> \in DOMAIN runtimes[i].libraries <=> entries # {}
        /\ entries # {} => runtimes[i].libraries[<<a, p>>] = TextSaid[Min(entries)].value
    BY <1>1, LibrariesSaid
  <2> HIDE DEF entries, said
  <2>3. IF said # {} THEN GetLibrary(runtimes[i], base, a, p) = TextSaid[Min(said)].value
        ELSE IF base # Empty
             THEN GetLibrary(runtimes[i], base, a, p) = <<base, runtimes[i].binding>>
             ELSE GetLibrary(runtimes[i], base, a, p) = <<Flattened[a]>>
    BY <2>1, <2>2 DEF GetLibrary
  <2> QED BY <2>3 DEF said
<1>2. BaseInv /\ InputInv => LibraryAsSaid
  BY <1>1 DEF LibraryAsSaid
<1> QED BY <1>2, InitBase, NextBase, InitInput, NextInput, PTL DEF Spec
==============================================================================
