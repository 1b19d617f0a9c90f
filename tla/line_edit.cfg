\* A screen of twelve cells: lines wrap, scroll and fill the buffer.
SPECIFICATION ConsoleSpec
CONSTANTS
    screenwidth = 4
    screenheight = 3
    tabsize = 2
    INPUT_BUFFER_SIZE = 7
    Printable = {a, b}
    BLANK = BLANK
    TAB = TAB
    NEWLINE = NEWLINE
    BACKSPACE = BACKSPACE
    MaxCalls = 2
    MaxKeys = 7
SYMMETRY Characters
INVARIANTS
    LineIsOnScreen
