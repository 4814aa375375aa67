\* Two threads.  MaxCalls leaves room for two proxies being built while factories are
\* registered and unregistered.  The system stops when MaxCalls calls were made,
\* and after undefined behaviour.
CONSTANTS
    t1 = t1
    t2 = t2
    fd = fd
    fs = fs
    gs = gs
    proxyD = proxyD
    proxyS = proxyS
    proxyL = proxyL
    stubS = stubS
    Threads = {t1, t2}
    NoThread = NoThread
    Factories = {fd, fs, gs}
    NoFactory = NoFactory
    Bindings = {1, 2}
    DefaultBinding = 1
    BindingOf <- MCBindingOf
    Addresses = {proxyD, proxyS, proxyL, stubS}
    Stubs = {stubS}
    Libraries = {"libD", "libS", "none"}
    LibraryOf <- MCLibraryOf
    FactoryOf <- MCFactoryOf
    Present = {"libD", "libS"}
    Linked <- MCLinked
    MaxCalls = 4
SPECIFICATION FairSpec
CHECK_DEADLOCK FALSE
INVARIANTS
    TypeOK
    AskedOnlyInitialized
    InitializedOnce
    OpenedOnce
    UndefinedOnlyIfOverlapped
    LoadedMeansServed
PROPERTIES
    DefaultIsLastResort
    CallsReturn
