SPECIFICATION FairSpec
CONSTANTS
    FrameSides = {1, 4, 6}
    AreaSides = {1, 2, 3}
    Offsets = {0, 2}
    Garbage = {0}
    Dispositions = {"MOVINGWINDOW", "SYSTEMATICCONTIGUOUS", "SYSTEMATICNONCONTIGUOUS", "RANDOMNONOVERLAPPING", "STRATIFIEDRANDOM"}
    MaskChoices = {FALSE}
    Dists = {0, 1, 2}
    Units = {0, 2}
    Strata = {1, 2}
INVARIANTS AreasInFrame AreasApart AidIsPlace NoAreaMissing
PROPERTIES EndsForGood
CHECK_DEADLOCK FALSE
