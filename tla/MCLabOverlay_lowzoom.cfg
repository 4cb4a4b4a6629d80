CONSTANTS
    Views = {"here", "there", "far"}
    HighViews = {"here", "there"}
    Cells = {1, 2}
    Epochs = {0, 1}
    Region <- MCRegion
    Sealed <- MCSealed
    Genuine <- MCGenuine
    FirstView = "here"
    FirstEpoch = 1
    None = None
    MaxGestures = 3
    MaxClicks = 2
    LabCells = {"north", "south"}
    Parent <- MCParent
    Recorded = {"north"}
SPECIFICATION LabSpec
INVARIANTS LowZoomShowsNoCells
CHECK_DEADLOCK FALSE
