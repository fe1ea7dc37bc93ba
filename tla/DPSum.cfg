\* Two DP sum instances, one client per Accumulate, at most two each.
CONSTANTS
    d1 = d1
    d2 = d2
    Aggs <- MCAggs
    Batches <- MCBatches
    BoundChoices <- MCBoundChoices
    MaxInputs = 2
SPECIFICATION Spec
INVARIANT ContributionBounded
