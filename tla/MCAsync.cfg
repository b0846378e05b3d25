CONSTANTS
    NUM_BUCKETS = 2
    Dsts = {1, 2, 3}
    MAX_SENT = 2
SPECIFICATION Spec
PROPERTY ImplementsMailbox
