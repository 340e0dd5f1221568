\* Codes of up to 5 bits, blocks of 4 bytes; two delays of 1 can be added, three
\* cannot; four frames, so that two of them are written while others follow.
CONSTANTS
    MaxCodeLen = 5
    BlockSize = 4
    MaxTable = 8
    RGB = {"red", "green", "blue", "key", "black"}
    Black = "black"
    Clear = "clear"
    Width = 2
    Height = 5
    MaxDelay = 2
    MaxFrames = 4
    Configs <- MCConfigs
    FramesFor <- MCFrames
SPECIFICATION Spec
INVARIANTS
    ShowsWhatWasAsked
CHECK_DEADLOCK FALSE
