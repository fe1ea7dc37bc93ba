\* Two keyed instances whose nested intrinsics have the same specs but
\* different URIs: a grouping sum and a DP grouping sum.
CONSTANTS
    a1 = a1
    a2 = a2
    a3 = a3
    Aggs <- MCAggs2
    Schema <- MCSchemaSumVsDpSum
    kx = kx
    ky = ky
    KeyVals = {kx, ky}
    Vals = {1}
    MaxRows = 1
    MaxInputs = 1
SPECIFICATION Spec
PROPERTY MergeOnlySameIntrinsics
