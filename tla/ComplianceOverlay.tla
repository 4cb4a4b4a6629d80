-------------------------- MODULE ComplianceOverlay --------------------------
(***************************************************************************)
(* The compliance view (demo/compliance_overlay.js): it scores each cell   *)
(* of the shared state, writes the tier into the features of the page's    *)
(* source, and colours the page's layer by it.  It paints when the view is *)
(* toggled, at the page's events, and whenever the source has loaded.      *)
(***************************************************************************)
EXTENDS Integers, FiniteSets

CONSTANTS
    ScoredCells,  \* the cells the page may show
    Facts,        \* Facts[c]: the cell's form, [signature, jurisdiction,
                  \* delegation : BOOLEAN, epoch : the epoch it is of]
    SliderEpochs

VARIABLES
    viewOn,       \* the toggle
    mapLoaded,    \* the page's layer and source exist
    slider,       \* the page's epoch
    dragged,      \* the slider was moved, and has not been let go since
    sharedEpoch,  \* mobydbState.currentEpoch: set when cells arrive
    sharedCells,  \* mobydbState.cells
    tiers,        \* the tier written into each feature of the source
    loading,      \* the source has data it has not loaded yet
    colours,      \* what fill-color of the layer is: the page's or the tiers'
    savedPaint,   \* the fill-color to go back to
    legend,       \* the legend is visible
    auditTier     \* the tier in the section of the panel, "none" without one

complianceVars == <<viewOn, mapLoaded, slider, dragged, sharedEpoch, sharedCells,
                    tiers, loading, colours, savedPaint, legend, auditTier>>

Tiers == {"OK", "WA", "VI"}

-----------------------------------------------------------------------------
\* scoreCell: four checks, of which freshness depends on the current epoch; a
\* cell ahead of it counts as fresh.
Passed(c, epoch) ==
    {k \in {"signature", "jurisdiction", "delegation"} : Facts[c][k]}
        \cup (IF epoch - Facts[c].epoch <= 1 THEN {"freshness"} ELSE {})

Tier(c, epoch) ==
    LET score == Cardinality(Passed(c, epoch)) IN
    IF score = 4 THEN "OK" ELSE IF score = 3 THEN "WA" ELSE "VI"

\* annotateCells: the features of cells that the shared state holds.
Annotated(features, cells, epoch) ==
    [c \in DOMAIN features |-> IF c \in cells THEN Tier(c, epoch) ELSE features[c]]

\* paint(on), with the source's features and the shared state of the moment;
\* setData loads the source again.
Paint(features, cells, epoch) ==
    /\ tiers' = Annotated(features, cells, epoch)
    /\ loading' = TRUE
    /\ savedPaint' = colours
    /\ colours' = "tiers"

Plain(cells) == [c \in cells |-> "none"]

ComplianceInit ==
    /\ viewOn \in BOOLEAN
    /\ mapLoaded = FALSE
    /\ slider \in SliderEpochs /\ dragged = FALSE
    /\ sharedEpoch = slider
    /\ sharedCells = {} /\ tiers = Plain({})
    /\ loading = FALSE
    /\ colours = "page" /\ savedPaint = "none"
    /\ legend = TRUE /\ auditTier = "none"

MapLoads ==
    /\ ~mapLoaded
    /\ mapLoaded' = TRUE
    /\ IF viewOn
       THEN Paint(tiers, sharedCells, sharedEpoch)
       ELSE UNCHANGED <<tiers, loading, savedPaint, colours>>
    /\ UNCHANGED <<viewOn, slider, dragged, sharedEpoch, sharedCells, legend, auditTier>>

\* Without a layer paint only sets the toggle and the legend.
ToggleView ==
    /\ viewOn' = ~viewOn
    /\ IF mapLoaded /\ ~viewOn
       THEN Paint(tiers, sharedCells, sharedEpoch)
       ELSE /\ colours' = IF mapLoaded /\ savedPaint # "none" THEN savedPaint ELSE colours
            /\ UNCHANGED <<tiers, loading, savedPaint>>
    /\ UNCHANGED <<mapLoaded, slider, dragged, sharedEpoch, sharedCells, legend, auditTier>>

\* Mutant: the event of new cells does not paint.
IgnoreCells(cells) ==
    /\ tiers' = Plain(cells)
    /\ loading' = TRUE
    /\ UNCHANGED <<savedPaint, colours>>

OnCells(cells) ==
    IF viewOn
    THEN Paint(Plain(cells), cells, slider)
    ELSE /\ tiers' = Plain(cells)
         /\ loading' = TRUE
         /\ UNCHANGED <<savedPaint, colours>>

\* The page's refreshCells ends: new features, the shared state, the event, in
\* one go (app.js:354-431, 737-746).
CellsSynced(cells) ==
    /\ mapLoaded
    /\ sharedCells' = cells
    /\ sharedEpoch' = slider
    /\ OnCells(cells)
    /\ UNCHANGED <<viewOn, mapLoaded, slider, dragged, legend, auditTier>>

\* "input": the slider is dragged, and only the page's epoch changes.
SliderInput(e) ==
    /\ e # slider
    /\ slider' = e
    /\ dragged' = TRUE
    /\ UNCHANGED <<viewOn, mapLoaded, sharedEpoch, sharedCells, tiers, loading,
                   colours, savedPaint, legend, auditTier>>

\* "change": the slider is let go.  The page dispatches "epoch" before it asks
\* for the cells, so that the shared state is still that of the cells before.
EpochEvent ==
    /\ dragged
    /\ dragged' = FALSE
    /\ IF mapLoaded /\ viewOn
       THEN Paint(tiers, sharedCells, sharedEpoch)
       ELSE UNCHANGED <<tiers, loading, savedPaint, colours>>
    /\ UNCHANGED <<viewOn, mapLoaded, slider, sharedEpoch, sharedCells, legend, auditTier>>

\* The map's sourcedata event; a paint makes another one due.
SourceData ==
    /\ loading
    /\ IF viewOn
       THEN Paint(tiers, sharedCells, sharedEpoch)
       ELSE loading' = FALSE /\ UNCHANGED <<tiers, savedPaint, colours>>
    /\ UNCHANGED <<viewOn, mapLoaded, slider, dragged, sharedEpoch, sharedCells,
                   legend, auditTier>>

\* A bundle is opened: its section is appended, and the legend hides.
AuditOpens(c) ==
    /\ auditTier' = Tier(c, sharedEpoch)
    /\ legend' = FALSE
    /\ UNCHANGED <<viewOn, mapLoaded, slider, dragged, sharedEpoch, sharedCells,
                   tiers, loading, colours, savedPaint>>

\* The page renders its panel anew.
PanelCleared ==
    /\ auditTier' = "none"
    /\ UNCHANGED <<viewOn, mapLoaded, slider, dragged, sharedEpoch, sharedCells,
                   tiers, loading, colours, savedPaint, legend>>

\* A click beside the cells.
LegendBack ==
    /\ viewOn
    /\ legend' = TRUE
    /\ UNCHANGED <<viewOn, mapLoaded, slider, dragged, sharedEpoch, sharedCells,
                   tiers, loading, colours, savedPaint, auditTier>>

ComplianceNext ==
    \/ MapLoads \/ ToggleView \/ SourceData \/ LegendBack \/ PanelCleared
    \/ \E c \in ScoredCells : AuditOpens(c)
    \/ \E cells \in SUBSET ScoredCells : CellsSynced(cells)
    \/ \E e \in SliderEpochs : SliderInput(e)
    \/ EpochEvent

ComplianceSpec == ComplianceInit /\ [][ComplianceNext]_complianceVars

-----------------------------------------------------------------------------
\* While the view is on, each feature on the map has the tier of its cell at the
\* epoch of the shared state, mobydbState.currentEpoch, which is the slider's at
\* the moment the cells arrived (app.js:740), whatever the order of toggles,
\* cells, slider and source events (compliance_overlay.js:433-448, 533-591).
TiersFollowSharedState ==
    viewOn /\ mapLoaded =>
        /\ colours = "tiers"
        /\ tiers = [c \in sharedCells |-> Tier(c, sharedEpoch)]
=============================================================================
