SPECIFICATION Spec
CONSTANTS
    StrictPriority = TRUE
    TaskQueueSize = 1
    Display = TRUE
    MaxAge = 1
    DisplayInterval = 1
    Faults = {"set"}
    Maintenance = TRUE
    Available = {"hdc", "sht"}
    Buttons = {"toggle", "decon"}
    MaxCalibrations = 0
INVARIANTS
    TypeOK
    HeaterSupervised
    NoHeatedReading
    SessionHasTimer
    SessionOnPrimary
PROPERTY
    ImplementsInterlock
VIEW WithoutPicture
