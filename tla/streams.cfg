CONSTANTS
    Files = {"f", "g"}
    Chars <- Letters
    NL = "n"
    Strings <- Texts
    BUFSIZ = 3
    PRINTSIZ = 4
    MaxCalls = 3
    MaxPieces = 1
SPECIFICATION StreamsSpec
INVARIANTS
    LinesAreOut
    DescriptorsAreStreams
    SnprintfIsStandard
    FormatStringIsExact
    TestsPassButFour
    ScanReadsWhatWasPrinted
    TextIsColoured
    EveryCharacterHasAKey
PROPERTIES
    PipeSpec
    CallsReturn
CHECK_DEADLOCK FALSE
