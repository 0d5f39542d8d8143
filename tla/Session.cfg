CONSTANTS
    Clients <- TheClients
    c1 = c1
    c2 = c2
    Command <- JoinAndMcp
    MaxAttempts = 2
    MaxSockets = 3
    MaxLaunches = 1
    MaxIds = 2
    MaxFaults = 1
    MaxStops = 1
    MaxInFlight = 1
CHECK_DEADLOCK FALSE
SPECIFICATION FairSpec
INVARIANTS TypeOK TablesAgree StateMatchesSocket
PROPERTIES StartSettles GivesUp GoneClientsLeave
