CONSTANTS
    Base = 2
    Sizes = {1, 3}
    ByeSize = 2
    Settings <- MCHeaderSettings
    TimeoutInHeader = TRUE
    MaxUp = 1
    MaxDown = 2
SPECIFICATION Spec
INVARIANTS
    BothUnderstand
