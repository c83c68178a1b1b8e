CONSTANTS
    a = a
    b = b
    v = v
    w = w
    Names <- MCNames
    Values <- MCValues
    NoVal = NoVal
    Bad = Bad
    NoReq = NoReq
    BlockSize = 16
    Blocks = 4
    HeadSize = 3
    DescSize = 3
    Demarcation = 1
    LongLength = 9
    Length <- MCLength
SPECIFICATION FlashSpec
INVARIANTS FlashTypeOK CountersRight SwapClear CopyBackFits EdgeOnly
PROPERTIES MapSpec ComesUp
