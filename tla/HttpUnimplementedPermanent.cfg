CONSTANTS
    PermanentCodes = {3, 5, 12}
    TransportCodes = {5, 14}
    FetchCodes = {5, 14}
    MaxDelay = 2
SPECIFICATION Spec
INVARIANT PermanentErrorWindow
