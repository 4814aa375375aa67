---------------------------- MODULE Configuration ----------------------------
(***************************************************************************)
(* What Runtime::init() makes of the environment and the configuration     *)
(* file, and what getLibrary() and CallInfo (src/CommonAPI/CallInfo.cpp)   *)
(* make of it.                                                             *)
(*                                                                         *)
(* The environment holds COMMONAPI_CONFIG (set or not),                    *)
(* COMMONAPI_DEFAULT_BINDING, COMMONAPI_DEFAULT_FOLDER and                 *)
(* COMMONAPI_OVERRIDE_GLOBAL_CALL_TIMEOUT.  A timeout is read by           *)
(* std::stoi, which throws on text that is no int.  The section "logging"  *)
(* of the file sets up the Logger (src/CommonAPI/Logger.cpp), which is one *)
(* for the process; its sinks are the console and a file, DLT is left out. *)
(* Opening the file may succeed or fail (isOpened).                        *)
(***************************************************************************)
EXTENDS IniFile

CONSTANTS
    Unset,           \* a variable that the environment does not have
    NoNumber,        \* text that std::stoi throws on
    Missing,         \* a file that stat() does not find
    Unreadable,      \* a file that stat() finds and that cannot be opened
    NoDirectory,     \* getcwd() failed
    BuiltinBinding,  \* COMMONAPI_DEFAULT_BINDING
    BuiltinFolder,   \* COMMONAPI_DEFAULT_FOLDER
    DefaultTimeout,  \* DEFAULT_SEND_TIMEOUT
    MaxTimeout,      \* the largest Timeout_t
    True,            \* the text "true"
    Flattened        \* Flattened[a]: the name of a with _ for each dot

ASSUME TimeoutsAssumption == /\ DefaultTimeout \in Nat \ {0}
                             /\ MaxTimeout \in Nat /\ DefaultTimeout < MaxTimeout

\* A Runtime as its constructor leaves it.
Builtin == [binding |-> BuiltinBinding, folder |-> BuiltinFolder,
            timeout |-> DefaultTimeout, libraries |-> NoMappings, isConfigured |-> FALSE]

\* The file in the working directory comes first, if it is there.
UsedFile(env, files) ==
    CASE files.directory = NoDirectory -> Unreadable
      [] files.directory \notin {NoDirectory, Missing} -> files.directory
      [] OTHER -> IF env.hasConfig THEN files.configured ELSE files.etc

Sections(file) == IF file = Missing THEN NoMappings ELSE Load(file)

Or(value, otherwise) == IF value = Empty THEN otherwise ELSE value

\* The section that maps the addresses of proxies, or those of stubs, to libraries.
MappingSection(isProxy) == IF isProxy THEN "proxy" ELSE "stub"

AddressesIn(sections, name) == IF name \in DOMAIN sections THEN DOMAIN sections[name] ELSE {}

MappingsOf(sections) ==
    [m \in UNION {AddressesIn(sections, MappingSection(p)) \X {p} : p \in BOOLEAN} |->
        sections[MappingSection(m[2])][m[1]]]

\* std::stoi throws.
ReadThrows(file) ==
    file # Unreadable /\ GetValue(Sections(file), "default", "callTimeout") = NoNumber

\* readConfiguration(); when that throws, the binding and the folder are already
\* assigned, and the mappings are not.
WithFile(runtime, file) ==
    LET sections == Sections(file)
        value(key) == GetValue(sections, "default", key)
        named == [runtime EXCEPT !.binding = Or(value("binding"), @),
                                 !.folder = Or(value("folder"), @)]
    IN  CASE file = Unreadable -> runtime
          [] ReadThrows(file) -> named
          [] OTHER -> [named EXCEPT
                 !.timeout = Or(value("callTimeout"), @),
                 !.libraries = MappingsOf(sections)]

(***************************************************************************)
(* The Logger: stringAsLevel(), init() and doLog()                         *)
(***************************************************************************)
Levels == <<"fatal", "error", "warning", "info", "debug", "verbose">>

ASSUME EmptyAssumption == Empty \notin Range(Levels) \cup {"none"}

\* The stream file_ is there or not ("none"), and open or not.
NewLogger == [console |-> TRUE, file |-> "none", level |-> "info"]

AsLevel(text) == IF text \in Range(Levels) \cup {"none"} THEN text ELSE "info"

\* Mutant: the old stream is given up only for one that is open.
KeepsStream(logger, sections, isOpened) ==
    LET value(key) == GetValue(sections, "logging", key)
        isSaid == "logging" \in DOMAIN sections
    IN  [console |-> isSaid => value("console") = True,
         file |-> IF value("file") # Empty /\ isOpened THEN "open" ELSE logger.file,
         level |-> AsLevel(value("level"))]

\* A section "logging" without "console" turns the console off.  An open stream stays
\* open when the section has no "file"; else it is replaced, also by one that fails to
\* open.
LoggerWith(logger, sections, isOpened) ==
    LET value(key) == GetValue(sections, "logging", key)
        isSaid == "logging" \in DOMAIN sections
    IN  [console |-> isSaid => value("console") = True,
         file |-> IF value("file") = Empty THEN logger.file
                  ELSE IF isOpened THEN "open" ELSE "closed",
         level |-> AsLevel(value("level"))]

\* Also if init() throws later on.
LoggerAfterInit(logger, env, files, isOpened) ==
    LET file == UsedFile(env, files)
    IN  IF file = Unreadable THEN logger ELSE LoggerWith(logger, Sections(file), isOpened)

Rank(level) == IF level = "none" THEN 0 ELSE CHOOSE i \in DOMAIN Levels : Levels[i] = level

\* Where a message goes.
Sinks(logger, level) ==
    IF Rank(level) > Rank(logger.level) THEN {}
    ELSE {sink \in {"console", "file"} :
             IF sink = "console" THEN logger.console ELSE logger.file = "open"}

\* A variable that is set to the empty string overrides, too.
WithEnvironment(runtime, env) ==
    [runtime EXCEPT !.binding = IF env.binding = Unset THEN @ ELSE env.binding,
                    !.folder = IF env.folder = Unset THEN @ ELSE env.folder]

InitThrows(env, files) == ReadThrows(UsedFile(env, files))

\* init(), up to an exception.
Configured(env, files) ==
    LET runtime == WithFile(Builtin, UsedFile(env, files))
    IN  IF InitThrows(env, files)
        THEN runtime
        ELSE [WithEnvironment(runtime, env) EXCEPT !.isConfigured = TRUE]

------------------------------------------------------------------------------
(***************************************************************************)
(* getLibrary(): the mapping, else the name made of the property           *)
(* LibraryBase, else the one made of the address.                          *)
(***************************************************************************)
GetLibrary(runtime, base, address, isProxy) ==
    IF <<address, isProxy>> \in DOMAIN runtime.libraries
    THEN runtime.libraries[<<address, isProxy>>]
    ELSE IF base # Empty THEN <<base, runtime.binding>> ELSE <<Flattened[address]>>

------------------------------------------------------------------------------
(***************************************************************************)
(* The timeout of a CallInfo that is constructed with a timeout, or copied *)
(* from one that has it.                                                   *)
(***************************************************************************)
\* Mutant: -1 stays -1.
Unclamped(timeout) == timeout

Clamped(timeout) == IF timeout < 0 THEN MaxTimeout ELSE timeout

CallTimeout(runtime, env, timeout) ==
    LET default == IF timeout = DefaultTimeout /\ runtime.timeout # 0
                   THEN runtime.timeout ELSE timeout
    IN  IF env.timeout # Unset /\ env.timeout >= -1
        THEN Clamped(env.timeout) ELSE Clamped(default)
==============================================================================
