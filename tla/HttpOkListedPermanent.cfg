CONSTANTS
    PermanentCodes = {0, 5}
    TransportCodes = {5, 14}
    FetchCodes = {5, 14}
    MaxDelay = 2
SPECIFICATION Spec
INVARIANT NoCrashForContractCaller
