SPECIFICATION Spec
CONSTANTS
    Modes <- Small
    GWide = 2
    GHigh = 1
    FontHeight = 2
    Planes <- TwoPlanes
    Chars = {1}
    Colours = {0, 1}
    Inks <- Few
    MaxGone = 2
    Far = 4
INVARIANTS BufferShown LinesRight
PROPERTIES ImplementsTerminal
