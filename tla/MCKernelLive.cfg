SPECIFICATION FairSpec
CONSTANTS
    NUM_TASKS = 3
    NUM_BOOT = 3
    PRIORITY_MAX = 1
    TIME_SLICE = 1
    MAX_TIMEOUT = 0
    IRQ_MAX = 0
    FASTPATH = TRUE
    FASTFAULT = FALSE
    DISCIPLINED = TRUE
    FAULTING = {}
    ABI_EMU = {}
    USER_FLAGS <- RecvReply
    USER_TYPES = {"data"}
    USER_NOTIFY = {}
    CREATE_CAPS = {}
    BOOT_CAPS = {}
PROPERTIES
    RoundRobin
