SPECIFICATION Spec
CONSTANTS
    FrameSides = {4}
    AreaSides = {3}
    Offsets = {0}
    Garbage = {0}
    Dispositions = {"MOVINGWINDOW"}
    MaskChoices = {FALSE}
    Dists = {0}
    Units = {0}
    Strata = {1}
INVARIANTS WindowMovesOverAll
CHECK_DEADLOCK FALSE
