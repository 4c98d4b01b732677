CONSTANTS
    c1 = c1
    c2 = c2
    c3 = c3
    Clients <- MCClients
    Deadlined <- MCDeadlined
    Responder = TRUE
SPECIFICATION FairSpec
INVARIANT ResponseNotLost
PROPERTY AloneReturns
CHECK_DEADLOCK FALSE
