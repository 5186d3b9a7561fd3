\* Every CI tool, with GETs that fail and with none, and one change of class.
SPECIFICATION Spec
CONSTANTS
    ci1 = ci1
    ci2 = ci2
    ci3 = ci3
    ci4 = ci4
    noNumber = noNumber
    CIs <- MCCIs
    Lineages <- MCLineages
    Display <- MCDisplay
    Fitting <- MCFitting
    Scenes <- MCScenes
    Slots = 3
    SearchLimit = 3
    SimilarLimit = 2
    MaxMoves = 1
INVARIANTS
    CITypeOK
    FirstListed
    FoundIfThere
PROPERTIES
    SimilarComplete
    CallEnds
CHECK_DEADLOCK FALSE
