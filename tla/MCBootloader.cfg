SPECIFICATION FairBootSpec
CONSTANTS
    Version = {0, 1, 2}
    ImageSize <- MCImageSize
    FlashSize = 4
    SectorSize = 2
    Failures = {"erase", "program", "config"}
    MaxFaults = 3
INVARIANTS
    Consistent
    RecordedIsInstalled
    BootsWholeImage

    
