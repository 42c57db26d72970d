SPECIFICATION PathSpec
CONSTANTS
    Width = 1
    Height = 20
    RamXInPixels = FALSE
    HavePartial = TRUE
    Rotation = "rot90"
    Images = {"picture", "other"}
    Rects <- WholeScreen
    Turns = {}
    Faults = {"reset", "profile", "window", "data", "refresh", "entry"}
    MayRestart = TRUE
INVARIANTS
    TrustJustified
