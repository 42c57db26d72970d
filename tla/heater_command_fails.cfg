SPECIFICATION Spec
CONSTANTS
    StrictPriority = TRUE
    TaskQueueSize = 1
    Display = FALSE
    MaxAge = 1
    DisplayInterval = 1
    Faults = {"heater"}
    Maintenance = TRUE
    Available = {"hdc"}
    Buttons = {"decon"}
    MaxCalibrations = 0
INVARIANT
    NoHeatedReading
