SPECIFICATION QueueSpec
CONSTANTS
    Senders = {1}
    Messages <- Checks
    Handled = {0, 1, 2, 4}
    MayCrash = {}
    mmap_size = 26
    mapped_words = 28
    MaxWords = 24
INVARIANTS
    PositionsAgree
CHECK_DEADLOCK FALSE
