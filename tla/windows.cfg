SPECIFICATION Spec
CONSTANTS
    Width = 3
    Height = 25
    RamXInPixels = TRUE
    Requests <- SeveralPages
INVARIANTS
    TypeOK
    WindowHoldsBuffer
    BytesInPlace
