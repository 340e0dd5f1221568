\* One worker, but two files open at the same time.
CONSTANTS
    Threads = {t1}
    Opens = {o1, o2}
    fa = fa
    fb = fb
    sub = sub
    Names <- MCNames
    Deep = {deep}
    Top = Top
    Free = Free
    Images <- OneImage
    ClusterSize = 2
    N_FD = 3
    Word = 6
    EndOfChain = 4095
    MaxRead = 2
SPECIFICATION Spec
INVARIANTS
    HandlesApart
CHECK_DEADLOCK FALSE
