SPECIFICATION FairSpec
CONSTANTS
    WrittenInterval = 259
    InfoCount = 2
    Temperatures <- SomeTemperatures
    Humidities <- SomeHumidities
    Names <- SomeNames
    Offsets <- SomeOffsets
    Links <- SomeLinks
    Seconds = {61}
    Faults = {"blanking_on", "flush", "blanking_off"}
INVARIANTS
    TypeOK
    FullUpdateInTime
    ReadsNearest
    RefreshShowsCurrent
PROPERTIES
    InfoWindow
    InfoHides
