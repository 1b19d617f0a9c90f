CONSTANTS
    DEFAULT_SCREEN_WIDTH = 3
    DEFAULT_SCREEN_HEIGHT = 2
    MIN_SCREEN_SIZE = 2
    MOUSE_NORMAL_SPEED = 1
    SCREEN_WIDTH_BASELINE = 3
    SCREEN_HEIGHT_BASELINE = 2
    DeltaBits = 2
    ShortBits = 3
    Bytes <- MouseBytes
    Sizes <- ScreenSizes
    Types = {"cross"}
    MaxBytes = 6
    MaxCalls = 2
    MaxWrites = 1
SPECIFICATION PointerSpec
INVARIANTS
    CursorIsTransparent
    PointerIsOnScreen
CHECK_DEADLOCK FALSE
