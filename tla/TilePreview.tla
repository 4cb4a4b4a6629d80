----------------------------- MODULE TilePreview -----------------------------
(***************************************************************************)
(* The satellite preview (demo/lab_tile_preview.js).  A lab section gets a *)
(* button, by an event of the lab overlay or by an observer of the         *)
(* document; the button opens a modal that fetches the tile's metadata,    *)
(* then its picture, and draws the record's cell on it.  Metadata are      *)
(* cached by the tile; closing the modal aborts what it awaits.            *)
(***************************************************************************)
EXTENDS Integers

CONSTANTS
    Records,          \* the records the lab overlay may show
    TileOf,           \* TileOf[r]: input.stac_item_id, or NoTile
    NoTile,
    MaxTileGestures   \* bound: clicks, Escapes and sections rendered

VARIABLES
    labSection,   \* the lab section: its record, and its buttons
    itemCache,    \* the tiles with cached metadata: what was cached for each
    openModal,    \* the modal in the document, by number; 0 for none
    tiles,        \* modals that load or have loaded, and what each shows
    keyListens,   \* onKey is registered
    tileGestures

tileVars == <<labSection, itemCache, openModal, tiles, keyListens, tileGestures>>

NoSectionYet == [has |-> FALSE, record |-> NoTile, buttons |-> {}]

TileInit ==
    /\ labSection = NoSectionYet
    /\ itemCache = [t \in {} |-> NoTile]
    /\ openModal = 0
    /\ tiles = {}
    /\ keyListens = FALSE
    /\ tileGestures = 0

TileGesture ==
    /\ tileGestures < MaxTileGestures
    /\ tileGestures' = tileGestures + 1

-----------------------------------------------------------------------------
\* The lab overlay renders a section, and has not dispatched its event yet.
SectionRendered(r) ==
    /\ TileGesture
    /\ labSection' = [has |-> TRUE, record |-> r, buttons |-> {}]
    /\ UNCHANGED <<itemCache, openModal, tiles, keyListens>>

\* injectTrigger, of the event or of the observer: a section with a button is
\* left alone, and a record without a tile gets none.
InjectTrigger ==
    /\ labSection.has
    /\ TileOf[labSection.record] # NoTile
    /\ labSection.buttons = {}
    /\ labSection' = [labSection EXCEPT !.buttons = {labSection.record}]
    /\ UNCHANGED <<itemCache, openModal, tiles, keyListens, tileGestures>>

\* closeModal: the requests reject, and their pipelines end.
Aborted == {t \in tiles : t.no # openModal}

CloseModal(gone) ==
    /\ tiles' = gone
    /\ openModal' = 0
    /\ keyListens' = FALSE

CloseTile ==
    /\ TileGesture
    /\ openModal # 0
    /\ CloseModal(Aborted)
    /\ UNCHANGED <<labSection, itemCache>>

\* Mutant: the metadata cached last serve any tile.
AnyCached(t) == CHOOSE item \in {itemCache[u] : u \in DOMAIN itemCache} : TRUE

Cached(t) == itemCache[t]

Picture(n, r, stage, item) == [no |-> n, record |-> r, stage |-> stage, item |-> item]

\* buildModal: a modal that is open closes; with the metadata cached the
\* picture is requested at once.
BuildModal(r) ==
    /\ TileGesture
    /\ r \in labSection.buttons
    /\ LET n == tileGestures + 1
           known == DOMAIN itemCache # {} /\ TileOf[r] \in DOMAIN itemCache
       IN /\ tiles' = Aborted \cup
                 {IF known THEN Picture(n, r, "image", Cached(TileOf[r]))
                           ELSE Picture(n, r, "item", NoTile)}
          /\ openModal' = n
    /\ keyListens' = TRUE
    /\ UNCHANGED <<labSection, itemCache>>

-----------------------------------------------------------------------------
\* fetchStacItem: the metadata are cached; without a thumbnail the modal fails.
ItemArrives(t) ==
    /\ t.stage = "item"
    /\ LET tile == TileOf[t.record] IN
       /\ itemCache' = [u \in DOMAIN itemCache \cup {tile} |-> IF u = tile THEN tile ELSE itemCache[u]]
       /\ \E stage \in {"image", "failed"} :
              tiles' = (tiles \ {t}) \cup {Picture(t.no, t.record, stage, tile)}
    /\ UNCHANGED <<labSection, openModal, keyListens, tileGestures>>

\* drawTileWithCell, or a failure that the modal tells.
ImageArrives(t) ==
    /\ t.stage = "image"
    /\ \E stage \in {"drawn", "failed"} :
           tiles' = (tiles \ {t}) \cup {[t EXCEPT !.stage = stage]}
    /\ UNCHANGED <<labSection, itemCache, openModal, keyListens, tileGestures>>

ItemFails(t) ==
    /\ t.stage = "item"
    /\ tiles' = (tiles \ {t}) \cup {[t EXCEPT !.stage = "failed"]}
    /\ UNCHANGED <<labSection, itemCache, openModal, keyListens, tileGestures>>

TileNext ==
    \/ \E r \in Records : SectionRendered(r) \/ BuildModal(r)
    \/ InjectTrigger \/ CloseTile
    \/ \E t \in tiles : ItemArrives(t) \/ ImageArrives(t) \/ ItemFails(t)

TileSpec == TileInit /\ [][TileNext]_tileVars

-----------------------------------------------------------------------------
\* The picture of the modal that is open is of its record's own tile, whichever
\* modals were closed and whatever was cached before, and Escape closes it
\* (lab_tile_preview.js:232-241, 313-403).
PictureIsOfRecord ==
    /\ \A t \in tiles :
           /\ t.stage = "drawn" => t.item = TileOf[t.record]
           /\ t.no = openModal => keyListens
    /\ openModal # 0 => \E t \in tiles : t.no = openModal
=============================================================================
