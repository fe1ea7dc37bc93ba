CONSTANTS
    a1 = a1
    a2 = a2
    a3 = a3
    kx = kx
    ky = ky
    Aggs <- MCAggs2
    Schema <- MCSchemaNoKeyDiffer
    KeyVals = {kx, ky}
    Vals = {1}
    MaxRows = 1
    MaxInputs = 1
SPECIFICATION Spec
PROPERTY FailedCallsDoNotMutate
