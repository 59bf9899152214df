SPECIFICATION Spec
CONSTANTS
    None = None
    Owner = {o1}
    Sender = {s1}
    Cancellable = TRUE
    MaxLinks = 2
INVARIANT FailureGivesSlotBack
