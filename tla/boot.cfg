CONSTANTS
    Mode <- CardModes
    Bitmaps <- SmallBitmaps
    Word = 100
    Buses = 2
    BootMode = "m24"
    target_mode = "m32"
    Fonts <- SmallFonts
    Pictures <- Backgrounds
    MaxCalls = 1
    Lines = {0}
SPECIFICATION Spec
INVARIANTS
    MachineIsConsistent
    DrawnInFrame
    PictureIsRight
PROPERTIES
    BootEnds
CHECK_DEADLOCK FALSE
