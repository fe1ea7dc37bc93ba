\* Two instances with a composite key whose first component is anonymous,
\* and one without keys.
CONSTANTS
    a1 = a1
    a2 = a2
    a3 = a3
    Aggs <- MCAggs
    Schema <- MCSchemaMixed
    kx = kx
    ky = ky
    KeyVals = {kx, ky}
    Vals = {1}
    MaxRows = 2
    MaxInputs = 1
SPECIFICATION Spec
INVARIANT NoFatalAfterMutation
INVARIANT NestedStateAligned
PROPERTY FailedCallsDoNotMutate
PROPERTY AggregatorSpecRefined
