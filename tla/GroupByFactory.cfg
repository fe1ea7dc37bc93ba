\* kFedSqlPrefix is carried by the sums and an unregistered URI, not by
\* the group-by URI.  Create is called once: the system stops after it.
CONSTANTS
    gbUri = gbUri
    sumUri = sumUri
    dpSumUri = dpSumUri
    otherUri = otherUri
    unknownUri = unknownUri
    GroupByUri = gbUri
    SumUri = sumUri
    DpSumUri = dpSumUri
    FedSqlPrefixed = {sumUri, dpSumUri, unknownUri}
    Intrinsics <- MCIntrinsics
SPECIFICATION Spec
CHECK_DEADLOCK FALSE
INVARIANT FactoryNeverCrashesConstructor
INVARIANT NestedAggregatorsGrouping
