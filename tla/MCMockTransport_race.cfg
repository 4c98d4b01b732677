CONSTANTS
    c1 = c1
    c2 = c2
    c3 = c3
    Clients <- MCClients
    Deadlined <- MCOneDeadlined
    Responder = TRUE
SPECIFICATION Spec
INVARIANT NoGiveUpRace
CHECK_DEADLOCK FALSE
