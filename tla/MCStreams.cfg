CONSTANTS
    Formats = {"apertium", "niceline", "plain", "fst", "fstconv", "mwe", "matxin", "tree"}
    Pieces <- MCPieces
    MaxPieces <- MCMaxPieces
    NumWindows = 1
    SoftLimit = 3
    HardLimit = 4
    HardWords <- MCHardWords
    SoftWords <- MCSoftWords
SPECIFICATION Spec
CHECK_DEADLOCK FALSE
INVARIANTS
    StreamIsKept
    EndTagClosesWindows
    WindowsWithinLimit
    NoPartIsLost
    WordsAreInTheirSentence
