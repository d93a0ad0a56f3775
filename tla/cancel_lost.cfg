SPECIFICATION Spec
CONSTANTS
    Descendant = {d1}
    Client = {c1}
    Delivered = {2, 15}
    OwnStatus = {0}
    CallsFail = FALSE
    MaxKills = 0
INVARIANT CancelHonoured
