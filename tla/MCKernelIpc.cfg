SPECIFICATION Spec
CONSTANTS
    NUM_TASKS = 3
    NUM_BOOT = 3
    PRIORITY_MAX = 1
    TIME_SLICE = 0
    MAX_TIMEOUT = 0
    IRQ_MAX = 0
    FASTPATH = TRUE
    FASTFAULT = FALSE
    DISCIPLINED = TRUE
    FAULTING = {}
    ABI_EMU = {}
    USER_FLAGS <- AllCalls
    USER_TYPES = {"data"}
    USER_NOTIFY = {"ABORTED"}
    CREATE_CAPS = {}
    BOOT_CAPS = {1}
VIEW Live
INVARIANTS
    NoMissedRendezvous
    NoLostWakeup
    CallersWait
PROPERTIES
    ClosedReceive
