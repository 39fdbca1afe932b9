------------------------------ MODULE Lightbox ------------------------------
(***************************************************************************)
(* The lightbox and the preview dialog it shares with the community        *)
(* gallery: the record shown, the arrows to its neighbours, and the zoom   *)
(* and pan of its image.                                                   *)
(*                                                                         *)
(* The pan is limited by what the image, scaled to the viewport and        *)
(* zoomed, leaves outside of it.  Both change by themselves: the window is *)
(* resized, another record is shown while the image of the last one is     *)
(* still leaving the page, an image is loaded again.  One dimension stands *)
(* for both.                                                               *)
(***************************************************************************)
EXTENDS Integers, Sequences, FiniteSets

CONSTANTS
    Pictures,      \* the records, in the order of the list they are opened from
    Natural,       \* the size of the image of each, a multiple of 8
    Viewports,     \* sizes of the viewport, multiples of 8
    ZoomStep,      \* what a button or the wheel changes the zoom by, in quarters
    Drags,         \* the distances a pointer drags the image to
    NoPicture,
    MaxResizes, MaxLosses   \* bounds: resizes; images that must be loaded again, and deletes

\* Zoom in quarters.
MinZoom == 4
MaxZoom == 12
DoubleClickZoom == 8

VARIABLES
    kept, sourced,         \* the records of the history, and those of them with an image
    open, recordId, nav,   \* the lightbox; whether it has arrows
    zoomState, imageBox,   \* state of the dialog
    viewport, element,     \* its DOM: the size, and the img there is
    due,                   \* whether updateImageBox is going to run
    publishTarget,
    resizes, losses

history == <<kept, sourced>>
shown   == <<open, recordId, nav>>
dom     == <<viewport, element>>
limits  == <<resizes, losses>>
vars == <<history, shown, zoomState, imageBox, dom, due, publishTarget, limits>>

-----------------------------------------------------------------------------
(* Geometry.                                                               *)

Larger(a, b)  == IF a > b THEN a ELSE b
Smaller(a, b) == IF a < b THEN a ELSE b

clampZoom(value) == Smaller(MaxZoom, Larger(MinZoom, value))

\* Nothing has a size before the image is loaded.
getFittedImageSize == IF element.loaded THEN Smaller(viewport, Natural[element.id]) ELSE 0

getPanLimits(zoom) ==
    IF zoom <= MinZoom THEN 0 ELSE Larger(0, (getFittedImageSize * zoom - 4 * viewport) \div 8)

clampPan(value, limit) == IF limit <= 0 THEN 0 ELSE Larger(-limit, Smaller(limit, value))

-----------------------------------------------------------------------------
(* Zoom and pan.                                                           *)

DefaultZoom == [id |-> NoPicture, value |-> MinZoom, x |-> 0, dragging |-> FALSE]

\* The zoom of another record does not count.
zoom == IF zoomState.id = recordId THEN zoomState ELSE [DefaultZoom EXCEPT !.id = recordId]

NoElement == [id |-> NoPicture, loaded |-> FALSE]

Visible == open /\ recordId \in sourced /\ element.id # NoPicture

SetZoom(z) ==
    /\ zoomState' = z
    /\ UNCHANGED <<history, shown, imageBox, dom, due, publishTarget, limits>>

\* Mutant of ApplyZoom: the pan survives a smaller zoom.
ApplyZoomOnly(value) ==
    SetZoom([zoom EXCEPT !.value = clampZoom(value), !.dragging = FALSE])

ApplyZoom(value) ==
    SetZoom([zoom EXCEPT !.value = clampZoom(value), !.dragging = FALSE,
                         !.x = clampPan(zoom.x, getPanLimits(clampZoom(value)))])

\* The buttons of the toolbar that are there and enabled.
Toolbar ==
    {"close", "download", "favorite", "public", "copy"}
        \cup (IF zoom.value > MinZoom THEN {"out"} ELSE {})
        \cup (IF zoom.value < MaxZoom THEN {"in"} ELSE {})

\* The buttons, the wheel, a double click.
Zoom ==
    /\ Visible
    /\ \/ "out" \in Toolbar /\ ApplyZoom(zoom.value - ZoomStep)
       \/ "in" \in Toolbar /\ ApplyZoom(zoom.value + ZoomStep)
       \/ ApplyZoom(IF zoom.value > MinZoom THEN MinZoom ELSE DoubleClickZoom)

PointerDown ==
    /\ Visible /\ zoom.value > MinZoom /\ ~zoom.dragging
    /\ SetZoom([zoom EXCEPT !.dragging = TRUE])

PointerMove ==
    /\ Visible /\ zoom.dragging /\ zoom.value > MinZoom
    /\ \E x \in Drags : SetZoom([zoom EXCEPT !.x = clampPan(x, getPanLimits(zoom.value))])

PointerUp == Visible /\ zoom.dragging /\ SetZoom([zoom EXCEPT !.dragging = FALSE])

UpdateZoom ==
    zoomState' = IF zoomState.id # recordId \/ zoomState.value <= MinZoom THEN zoomState
                 ELSE [zoomState EXCEPT !.x = clampPan(@, getPanLimits(zoomState.value))]

\* Effects, the observer of the viewport and the resize of the window call it.
UpdateImageBox ==
    /\ due /\ due' = FALSE
    /\ imageBox' = getFittedImageSize /\ UpdateZoom
    /\ UNCHANGED <<history, shown, dom, publishTarget, limits>>

-----------------------------------------------------------------------------
(* The page.                                                               *)

Resize(v) ==
    /\ resizes < MaxResizes /\ resizes' = resizes + 1
    /\ viewport' = v /\ v # viewport
    /\ due' = (due \/ open)
    /\ UNCHANGED <<history, shown, zoomState, imageBox, element, publishTarget, losses>>

\* The image of the last record leaves before that of the next one is mounted.
Mount ==
    /\ open /\ recordId \in sourced /\ element.id # recordId
    /\ element' = [id |-> recordId, loaded |-> FALSE]
    /\ UNCHANGED <<history, shown, zoomState, imageBox, viewport, due, publishTarget, limits>>

\* onLoad calls updateImageBox too.
ImageLoads ==
    /\ Visible /\ ~element.loaded
    /\ element' = [element EXCEPT !.loaded = TRUE]
    /\ due' = TRUE
    /\ UNCHANGED <<history, shown, zoomState, imageBox, viewport, publishTarget, limits>>

-----------------------------------------------------------------------------
(* The lightbox.                                                           *)

\* Opened with a list from the gallery, without one from the stage.
OpenWith(i, n) ==
    /\ ~open /\ i \in kept /\ publishTarget = NoPicture
    /\ open' = TRUE /\ recordId' = i /\ nav' = n /\ due' = TRUE
    /\ UNCHANGED <<history, zoomState, imageBox, dom, publishTarget, limits>>

\* The arrows go by the list, which still names the records that were deleted since.
Arrows == IF open /\ nav THEN {recordId - 1, recordId + 1} \cap Pictures ELSE {}

Step(i) ==
    /\ i \in Arrows
    /\ recordId' = i /\ due' = TRUE
    /\ UNCHANGED <<history, open, nav, zoomState, imageBox, dom, publishTarget, limits>>

Closed(z) ==
    /\ open' = FALSE /\ recordId' = NoPicture /\ nav' = FALSE /\ due' = FALSE
    /\ element' = NoElement
    /\ zoomState' = z
    /\ UNCHANGED <<history, imageBox, viewport, publishTarget, limits>>

Close == open /\ Closed(DefaultZoom)

\* The effect that closes the lightbox of a record that is gone keeps the zoom.
CloseGone == open /\ recordId \notin kept /\ Closed(zoomState)

\* The effect that asks for an image that is missing; it comes.
ReloadImage ==
    /\ open /\ recordId \in kept \ sourced
    /\ sourced' = sourced \cup {recordId}
    /\ UNCHANGED <<kept, shown, zoomState, imageBox, dom, due, publishTarget, limits>>

\* The image of a record is loaded again, or the record is deleted.
Lose(i) ==
    /\ losses < MaxLosses /\ losses' = losses + 1
    /\ i \in kept
    /\ \/ i \in sourced /\ sourced' = sourced \ {i} /\ UNCHANGED kept
       \/ kept' = kept \ {i} /\ sourced' = sourced \ {i}
    /\ element' = IF element.id = i THEN NoElement ELSE element
    /\ UNCHANGED <<shown, zoomState, imageBox, viewport, due, publishTarget, resizes>>

\* The dialog that publishes a record goes over the lightbox, and stays when that closes.
Publish ==
    /\ \/ /\ open /\ "public" \in Toolbar /\ recordId \in kept
          /\ publishTarget = NoPicture /\ publishTarget' = recordId
       \/ publishTarget # NoPicture /\ publishTarget' = NoPicture
    /\ UNCHANGED <<history, shown, zoomState, imageBox, dom, due, limits>>

Init ==
    /\ kept = Pictures /\ sourced \in SUBSET Pictures
    /\ open = FALSE /\ recordId = NoPicture /\ nav = FALSE
    /\ zoomState = DefaultZoom /\ imageBox = 0
    /\ viewport \in Viewports /\ element = NoElement
    /\ due = FALSE /\ publishTarget = NoPicture
    /\ resizes = 0 /\ losses = 0

Next ==
    \/ UpdateImageBox \/ Mount \/ ImageLoads \/ CloseGone \/ ReloadImage \/ Publish
    \/ /\ publishTarget = NoPicture
       /\ Zoom \/ PointerDown \/ PointerMove \/ PointerUp \/ Close
    \/ \E v \in Viewports : Resize(v)
    \/ \E i \in Pictures :
        \/ \E n \in BOOLEAN : OpenWith(i, n)
        \/ publishTarget = NoPicture /\ Step(i)
        \/ Lose(i)

Spec == Init /\ [][Next]_vars

-----------------------------------------------------------------------------
Settled == Visible /\ element = [id |-> recordId, loaded |-> TRUE] /\ ~due

\* Once the page has settled, the image covers the viewport as far as it can, and the toolbar sits on
\* its edge: no resize, change of record or reload while zoomed, in any order, leaves the image
\* dragged out of view or the box of another.
PanWithinLimits ==
    Settled => /\ zoom.x \in -getPanLimits(zoom.value)..getPanLimits(zoom.value)
               /\ imageBox = getFittedImageSize
=============================================================================
