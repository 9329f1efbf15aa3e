SPECIFICATION RingAndWindowSpec
CONSTANTS
    Cap = 3
    Byte = {0, 1}
    MaxArg = 4
    Width = 4
    Window = 4
    MaxSeq = 9
INVARIANTS
    TypeOK
    BitmapExact
    AtMostOnce
PROPERTIES
    Implements
    FreshAccepted
