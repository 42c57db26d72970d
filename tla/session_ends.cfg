SPECIFICATION FairSpec
CONSTANTS
    StrictPriority = TRUE
    TaskQueueSize = 1
    Display = FALSE
    MaxAge = 1
    DisplayInterval = 1
    Faults = {"fetch"}
    Maintenance = TRUE
    Available = {"hdc", "sht"}
    Buttons = {"toggle", "decon"}
    MaxCalibrations = 0
PROPERTIES
    HeaterStops
    AttributeFollowsPrimary
