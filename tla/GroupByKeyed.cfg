CONSTANTS
    a1 = a1
    a2 = a2
    a3 = a3
    Aggs <- MCAggs2
    Schema <- MCSchemaKeyed
    kx = kx
    ky = ky
    KeyVals = {kx, ky}
    Vals = {1, 2}
    MaxRows = 2
    MaxInputs = 2
SPECIFICATION Spec
INVARIANT TypeOK
INVARIANT NoFatalAfterMutation
INVARIANT NestedStateAligned
PROPERTY FailedCallsDoNotMutate
PROPERTY AggregatorSpecRefined
