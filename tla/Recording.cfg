SPECIFICATION RecordSpec
CONSTANTS
    Values = {a, b}
    Capacity = 4
    None = None
    MaxSize = 2
INVARIANTS
    RingOrder
    NoSlotConflict
    HistoryIsRecent
PROPERTIES
    ImplementsFifo
    PushEventuallyAccepted
    FullWithoutConsumer
