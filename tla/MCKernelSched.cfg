SPECIFICATION Spec
CONSTANTS
    NUM_TASKS = 3
    NUM_BOOT = 3
    PRIORITY_MAX = 2
    TIME_SLICE = 1
    MAX_TIMEOUT = 1
    IRQ_MAX = 1
    FASTPATH = TRUE
    FASTFAULT = FALSE
    DISCIPLINED = TRUE
    FAULTING = {}
    ABI_EMU = {}
    USER_FLAGS <- RecvOnly
    USER_TYPES = {"data"}
    USER_NOTIFY = {}
    CREATE_CAPS = {}
    BOOT_CAPS = {1}
VIEW Live
PROPERTIES
    HighestPriority
