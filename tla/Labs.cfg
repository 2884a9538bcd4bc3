\* lab5_1 sends one image and stops.
SPECIFICATION Spec
CHECK_DEADLOCK FALSE
CONSTANTS
    Bounce = 2
    Hold = 6
    MaxPresses = 3
    Debounce = 3
    Full = 24
    Slowest = 1
    Fastest = 3
    ServoLow = 2
    ServoHigh = 6
    High = 3
    LongPress = 2
    SpeedLow = 1
    SpeedHigh = 2
    MaxCount = 4
    Base = 2
    Digits = 2
    MaxAverage = 3
    Half = 4
    Pages = 3
    Cell = 3
    FullScale = 8
    Images = 3
INVARIANTS LabsTypeOK NoPressCountedTwice OneLedAtATime EveryPressSeen
INVARIANTS PressesRegistered CountStartsAtZero WholeLinesPlotted ShowsPicture
PROPERTIES FadesSmoothly
