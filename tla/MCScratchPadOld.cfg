SPECIFICATION Spec
CONSTANTS
    a = a
    b = b
    c = c
    x = x
    y = y
    none = none
    PadLen = 18
    HeadLen = 2
    TokLen = 2
    Align = 2
    Name <- MCName
    Val <- MCVal
    Lengths = {0, 2, 3, 13, 14}
    None = none
    OldPads <- MCOld
PROPERTIES
    NewPadJustToken
