CONSTANTS
    main = main
    c1 = c1
    c2 = c2
    Co = {c1, c2}
    Programs <- MCPrograms
    Slack = 2
    MaxCalls = 5
    BasicCI = 2
SPECIFICATION Spec
INVARIANTS
    StacksAgree
    CCallsCounted
    HandlersNest
    StatusTrue
