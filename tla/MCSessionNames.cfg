CONSTANTS
    nil = nil
    c1 = c1
    c2 = c2
    c3 = c3
    n1 = n1
    n2 = n2
    n3 = n3
    Conn = {c1, c2, c3}
    Name = {n1, n2, n3}
    AddressName <- MCAddressName
    LoginName <- MCLoginName
    BadPass = {}
    MaxMessages <- MCMaxMessages
SPECIFICATION Spec
INVARIANTS
    ErrorsClose
\* An error that is not caught ends the server's loop.
CHECK_DEADLOCK FALSE
