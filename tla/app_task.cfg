SPECIFICATION FairSpec
CONSTANTS
    SensorFaults = {"mode", "offset", "fetch"}
    InitialSteps <- SomeSteps
    ServerFaults = {"bounds", "set"}
    DeviceSets <- SomeDevices
    FailingStages = {"server"}
    Temperatures <- SomeTemperatures
    References <- SomeReferences
    RawHumidities <- SomeRawHumidities
    TaskQueueSize = 1
    MaxRequests = 1
    MaxResets = 1
CHECK_DEADLOCK FALSE
INVARIANTS
    TypeOK
    HandlersSet
    AutomaticOutsideApply
    NeverClamped
    ReportedWithinBounds
PROPERTIES
    DisplayFirst
    CalibrationAligns
    MeasurementsStart
