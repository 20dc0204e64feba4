CONSTANTS
    Base = 2
    Sizes = {1, 3}
    ByeSize = 2
    Settings <- MCSettings
    TimeoutInHeader = FALSE
    MaxUp = 2
    MaxDown = 2
SPECIFICATION Spec
INVARIANTS
    BothUnderstand
PROPERTIES
    AllDelivered
