SPECIFICATION Spec
CONSTANTS
    Width = 2
    Height = 16
    RamXInPixels = FALSE
    HavePartial = TRUE
    Rotation = "normal"
    Images = {"A"}
    Rects <- FullScreens
    Turns = {}
    Faults = {"profile"}
    MayRestart = TRUE
INVARIANT
    PartialActive
