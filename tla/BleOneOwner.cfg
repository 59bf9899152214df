SPECIFICATION Spec
CONSTANTS
    None = None
    Owner = {o1}
    Sender = {s1}
    Cancellable = TRUE
    MaxLinks = 3
INVARIANTS
    TypeOK
    SubscribedFirst
    HeardWhenUp
    RequestedIsSilent
    SlotReturned
PROPERTY KeepsContract
