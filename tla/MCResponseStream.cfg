SPECIFICATION StreamSpec
CONSTANTS
    Responses <- MCResponses
INVARIANTS
    EventsReachClient
    ClientModelNamed
PROPERTIES
    SeenIsRegistered
CHECK_DEADLOCK FALSE
