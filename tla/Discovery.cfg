SPECIFICATION Spec
CONSTANTS
    r1 = r1
    r2 = r2
    Recorders = {r1, r2}
    Nodes = {"mouse", "multi", "panel", "keyboard", "lid"}
    EvBits <- MCEvBits
    AbsBits <- MCAbsBits
    AxisRange <- MCAxisRange
    MaskBits = 3
    AbsMax = 21
    Selections = {{"TOUCHSCREEN", "MOUSE"}}
    MaxFds = 6
    MaxFaults = 1
SYMMETRY MCSymmetry
INVARIANTS
    TypeOK
    SelectionExact
    LeaksOnlySkipped
    InputsListedOnce
    CoordinatesFit
