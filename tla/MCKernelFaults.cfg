SPECIFICATION Spec
CONSTANTS
    NUM_TASKS = 3
    NUM_BOOT = 3
    PRIORITY_MAX = 1
    TIME_SLICE = 0
    MAX_TIMEOUT = 0
    IRQ_MAX = 0
    FASTPATH = FALSE
    FASTFAULT = FALSE
    DISCIPLINED = TRUE
    FAULTING = {3}
    ABI_EMU = {2}
    USER_FLAGS <- PagerCalls
    USER_TYPES = {"data","page_fault_reply","abi_hook_reply"}
    USER_NOTIFY = {}
    CREATE_CAPS = {}
    BOOT_CAPS = {}
VIEW Live
INVARIANTS
    ReceiverHolds
PROPERTIES
    MessageIntact
