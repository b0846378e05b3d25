SPECIFICATION Spec
CONSTANTS
    NUM_TASKS = 3
    NUM_BOOT = 2
    PRIORITY_MAX = 1
    TIME_SLICE = 0
    MAX_TIMEOUT = 0
    IRQ_MAX = 0
    FASTPATH = TRUE
    FASTFAULT = FALSE
    DISCIPLINED = TRUE
    FAULTING = {2}
    ABI_EMU = {}
    USER_FLAGS <- BlockingCalls
    USER_TYPES = {"page_fault_reply"}
    USER_NOTIFY = {}
    CREATE_CAPS = {TRUE}
    BOOT_CAPS = {1, 2}
VIEW Live
INVARIANTS
    RunQueueExact
    RefCountExact
