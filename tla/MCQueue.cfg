SPECIFICATION QueueFairSpec
CONSTANTS
    Senders = {1, 2, 3}
    Messages <- Orders
    Handled = {0, 1, 2, 4}
    MayCrash = {2}
    mmap_size = 30
    mapped_words = 12
    MaxWords = 7
INVARIANTS
    QueueTypeOK
    StretchesApart
    PositionsAgree
    EventsAreEvents
PROPERTIES
    ImplementsChannel
    WritesFinish
    MessagesArrive
\* everything has been sent and received
CHECK_DEADLOCK FALSE
