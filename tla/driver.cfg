SPECIFICATION Spec
CONSTANTS
    Width = 1
    Height = 16
    RamXInPixels = FALSE
    HavePartial = TRUE
    Rotation = "rot90"
    Images = {"blank", "ink"}
    Rects <- Drawings
    Turns = {"normal", "rot90"}
    Faults = {"reset", "profile", "window", "data", "refresh", "entry"}
    MayRestart = TRUE
INVARIANTS
    TypeOK
    InStep
PROPERTIES
    PanelHeld
    ImplementsFramebuffer
