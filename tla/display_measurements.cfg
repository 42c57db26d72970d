SPECIFICATION Spec
CONSTANTS
    StrictPriority = FALSE
    TaskQueueSize = 1
    Display = TRUE
    MaxAge = 1
    DisplayInterval = 1
    Faults = {"fetch", "channel", "offset"}
    Maintenance = TRUE
    Available = {"hdc", "sht"}
    Buttons = {"toggle", "calibrate"}
    MaxCalibrations = 1
INVARIANTS
    PanelShowsLast
    PanelNamesSource
    DeltaAcrossSensors
    OffsetOfPrimary
    CachedOffsetFresh
    AverageUnderOneOffset
