CONSTANTS
    Readers = {r1, r2}
    Writers = {w1}
    Bytes = {0}
    PipeSize = 2
    U32 = 4
    Counts = {1, 2}
    MaxKills = 0
    NoOne = NoOne
SPECIFICATION PipeFairSpec
PROPERTIES EofWakesReaders
CHECK_DEADLOCK FALSE
