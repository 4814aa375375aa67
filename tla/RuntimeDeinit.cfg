\* The end of the process while another thread is in get().
CONSTANTS
    main = main
    other = other
    b1 = b1
    b2 = b2
    f1 = f1
    l1 = l1
    l2 = l2
    local = local
    remote = remote
    NoSection = NoSection
    Empty = Empty
    Unset = Unset
    NoNumber = NoNumber
    True = True
    Missing = Missing
    Unreadable = Unreadable
    NoDirectory = NoDirectory
    BuiltinBinding = BuiltinBinding
    BuiltinFolder = BuiltinFolder
    DefaultTimeout = 5000
    MaxTimeout = 2147483647
    Flattened <- MCFlattened
    Threads = {main, other}
    Main = main
    NoThread = NoThread
    Environments <- MCEnvironments
    FileSystems <- MCFileSystems
    Bases = {b2}
    Addresses = {local, remote}
    Timeouts <- MCTimeouts
    MaxGets = 2
SPECIFICATION Spec
CHECK_DEADLOCK FALSE
INVARIANTS
    DeinitNeedsNoMutex
