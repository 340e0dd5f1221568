\* One worker and two open files, over images with and without defects.
CONSTANTS
    Threads = {t1}
    Opens = {o1, o2}
    fa = fa
    fb = fb
    sub = sub
    Names <- MCNames
    Deep = {deep}
    Top = Top
    Free = Free
    Images <- AllImages
    ClusterSize = 2
    N_FD = 3
    Word = 6
    EndOfChain = 4095
    MaxRead = 3
SPECIFICATION FairSpec
INVARIANTS
    TypeOK
    CursorInStep
    DataIsOwn
    DirectoryExact
PROPERTIES
    ImplementsFileService
    CallsReturn
CHECK_DEADLOCK FALSE
