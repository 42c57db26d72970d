SPECIFICATION Spec
CONSTANTS
    Alpha32 = 20
    Samples <- SignedSamples
INVARIANTS
    TypeOK
    SmoothedInRange
    SumBounded
PROPERTY
    Approaches
