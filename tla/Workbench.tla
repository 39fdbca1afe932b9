----------------------------- MODULE Workbench ------------------------------
(***************************************************************************)
(* The workbench: the prompt, the parameters and the reference images of   *)
(* the next generation, the control panels that edit and submit them, and  *)
(* the record that a link asks to show.                                    *)
(*                                                                         *)
(* The page mounts one control panel beside the preview and, on a narrow   *)
(* window, another in a sheet that is mounted anew whenever it is opened;  *)
(* both edit one state, but each knows only of its own submission.         *)
(***************************************************************************)
EXTENDS Naturals, FiniteSets

CONSTANTS
    Prompts, Links,               \* what may be typed; records a link may name
    Nothing,
    MaxReferences,                \* MAX_REFERENCE_IMAGES
    Qualities, Backgrounds, Moderations, Formats, Compressions,   \* some of the options of data.ts
    MaxReads, MaxSubmits, MaxMoves   \* bounds: batches of files, submissions, sheets and links opened

VARIABLES
    prompt, imageParams, imageRatio, referenceImages,   \* state of ImageWorkbench
    sheet, submitting,              \* whether the sheet is open; the panels that are submitting
    previewing,                     \* previewIndex, from 1; 0 for none
    reading, batches,               \* handleFiles under way
    submissions,                    \* requests in flight: the panel each belongs to, if it is mounted
    link, applied, active, arrived, \* ?activeId, appliedActiveIdRef, activeHistoryId, the linked records there are
    opened,                         \* ghost: how often the link has been followed
    submits, moves

draft   == <<prompt, imageParams, imageRatio, referenceImages>>
files   == <<previewing, reading, batches>>
sending == <<submitting, submissions, submits>>
linking == <<link, applied, active, arrived, opened>>
vars == <<draft, sheet, files, sending, linking, moves>>

-----------------------------------------------------------------------------
(* Ratios and sizes.                                                       *)

\* Mutant of SizeOf: the ratio of a portrait gets the size of a landscape.
SizeOfTransposed ==
    [auto |-> "auto", square |-> "1024x1024", w3h4 |-> "1536x1024", w4h3 |-> "1024x1536",
     w9h16 |-> "1536x1024", w16h9 |-> "1024x1536"]

\* Two ratios share a size: the API has no 9:16 of its own.
SizeOf ==
    [auto |-> "auto", square |-> "1024x1024", w3h4 |-> "1024x1536", w4h3 |-> "1536x1024",
     w9h16 |-> "1024x1536", w16h9 |-> "1536x1024"]

Ratios == DOMAIN SizeOf

\* Sizes a record may have been made with, "odd" for the ones no option names.
Sizes == {"auto", "1024x1024", "2048x2048", "4096x4096", "1024x1536", "1536x1024", "odd"}

imageSizeToRatio(size) ==
    CASE size \in {"1024x1024", "2048x2048", "4096x4096"} -> "square"
      [] size = "1024x1536" -> "w3h4"
      [] size = "1536x1024" -> "w4h3"
      [] OTHER -> "auto"

-----------------------------------------------------------------------------
(* The parameters.                                                         *)

Params == [size : Sizes, quality : Qualities, background : Backgrounds, moderation : Moderations,
           format : Formats, compression : Compressions]

\* The sheet covers the page.
Panels == IF sheet THEN {"sheet"} ELSE {"desktop"}

\* What the fields of the parameters offer: each a patch.  (The menus of a "stacked" panel would
\* offer the same; no page has one.)
RatioField       == {[ratio |-> r, size |-> SizeOf[r]] : r \in Ratios}
QualityField     == {[quality |-> q] : q \in Qualities}
SelectField      == {[background |-> b] : b \in Backgrounds} \cup {[moderation |-> m] : m \in Moderations}
FormatField      == {[format |-> f] : f \in Formats}
CompressionField == {[compression |-> c] : c \in Compressions}

ParameterFields == QualityField \cup SelectField \cup FormatField \cup CompressionField

UpdateImageParams ==
    \/ \E patch \in ParameterFields :
        /\ imageParams' = [f \in DOMAIN imageParams |-> IF f \in DOMAIN patch THEN patch[f] ELSE imageParams[f]]
        /\ UNCHANGED imageRatio
    \/ \E patch \in RatioField :
        /\ imageRatio' = patch.ratio
        /\ imageParams' = [imageParams EXCEPT !.size = patch.size]

ChangeParams ==
    /\ UpdateImageParams
    /\ UNCHANGED <<prompt, referenceImages, sheet, files, sending, linking, moves>>

ApplyImageParams(params) == imageParams' = params /\ imageRatio' = imageSizeToRatio(params.size)

\* The library, the preview or the gallery reuses a record.
Reuse(text, params) ==
    /\ prompt' = text /\ ApplyImageParams(params)
    /\ UNCHANGED <<referenceImages, sheet, files, sending, linking, moves>>

-----------------------------------------------------------------------------
(* Reference images.                                                       *)

\* handleFiles: the files of one pick or drop, which are read one after the other.
PickFiles(n) ==
    /\ batches < MaxReads /\ batches' = batches + 1
    /\ reading' = reading \cup {[batch |-> batches', left |-> n, accepted |-> 0]}
    /\ UNCHANGED <<draft, previewing, sheet, sending, linking, moves>>

Kept(n) == IF n > MaxReferences THEN MaxReferences ELSE n

\* What was read is added to the images there are by then.
Add(b, n) ==
    /\ referenceImages' = Kept(referenceImages + n)
    /\ reading' = reading \ {b}

\* readImageFileAsDataUrl: no image, too large, or unreadable ends the batch.
ReadImage(b) ==
    /\ b \in reading /\ b.left > 0
    /\ \/ /\ b.left > 1
          /\ reading' = (reading \ {b}) \cup {[b EXCEPT !.left = @ - 1, !.accepted = @ + 1]}
          /\ UNCHANGED referenceImages
       \/ b.left = 1 /\ Add(b, b.accepted + 1)
       \/ Add(b, b.accepted)
    /\ UNCHANGED <<prompt, imageParams, imageRatio, sheet, previewing, batches, sending, linking, moves>>

\* The cross of an image.
RemoveReference ==
    /\ referenceImages > 0 /\ referenceImages' = referenceImages - 1
    /\ UNCHANGED <<prompt, imageParams, imageRatio, sheet, files, sending, linking, moves>>

\* The preview of an image, its arrows, and its close.
Preview ==
    /\ \/ previewing = 0 /\ previewing' \in 1..referenceImages
       \/ previewing > 1 /\ previewing' = previewing - 1
       \/ previewing > 0 /\ previewing < referenceImages /\ previewing' = previewing + 1
       \/ previewing > 0 /\ previewing' = 0
    /\ UNCHANGED <<draft, sheet, reading, batches, sending, linking, moves>>

-----------------------------------------------------------------------------
(* Submitting.                                                             *)

GenerateDisabled(p) == prompt = Nothing \/ p \in submitting

\* What the panel offers below the parameters: the prompt, its eraser, the button.
InputArea(p) ==
    {"type"} \cup (IF prompt # Nothing THEN {"clear"} ELSE {})
             \cup (IF GenerateDisabled(p) THEN {} ELSE {"submit"})

Type(text) ==
    /\ \E p \in Panels : (IF text = Nothing THEN "clear" ELSE "type") \in InputArea(p)
    /\ prompt' = text
    /\ UNCHANGED <<imageParams, imageRatio, referenceImages, sheet, files, sending, linking, moves>>

\* handleGenerate and submit: the request carries what is shown at the click.
HandleGenerate(p) ==
    /\ p \in Panels /\ "submit" \in InputArea(p)
    /\ submits < MaxSubmits /\ submits' = submits + 1
    /\ submitting' = submitting \cup {p}
    /\ submissions' = submissions \cup {[id |-> submits', panel |-> p]}
    /\ UNCHANGED <<draft, sheet, files, linking, moves>>

\* A submission that succeeds clears the prompt, whatever has been typed since, and shows its
\* record.  A panel that is no longer mounted does the same.
Submitted(s) ==
    /\ s \in submissions /\ submissions' = submissions \ {s}
    /\ submitting' = submitting \ {s.panel}
    /\ \/ prompt' = Nothing /\ active' = Nothing
       \/ UNCHANGED <<prompt, active>>
    /\ UNCHANGED <<imageParams, imageRatio, referenceImages, sheet, files, submits,
                   link, applied, arrived, opened, moves>>

\* The sheet is opened or closed: what it knew of its submission is forgotten.
ToggleSheet ==
    /\ moves < MaxMoves /\ moves' = moves + 1
    /\ sheet' = ~sheet
    /\ submitting' = submitting \ {"sheet"}
    /\ submissions' = {IF s.panel = "sheet" THEN [s EXCEPT !.panel = Nothing] ELSE s : s \in submissions}
    /\ UNCHANGED <<draft, files, submits, linking>>

-----------------------------------------------------------------------------
(* Links.                                                                  *)

\* The page is opened with another ?activeId.
FollowLink(i) ==
    /\ moves < MaxMoves /\ moves' = moves + 1
    /\ link' = i /\ link' # link /\ opened' = 0
    /\ UNCHANGED <<draft, sheet, files, sending, applied, active, arrived>>

\* Mutant of Applied: the effect does not remember what it has applied.
AppliedNever(i) == UNCHANGED applied

Applied(i) == applied' = i

\* The effect that runs when the records, or the link, have changed; there are none before hydration.
ApplyActiveId ==
    /\ link \in arrived /\ applied # link
    /\ Applied(link) /\ active' = link
    /\ opened' = opened + 1
    /\ UNCHANGED <<draft, sheet, files, sending, link, arrived, moves>>

\* A page of the history brings the record, or it is deleted.
RecordsChange(i) ==
    /\ arrived' = IF i \in arrived THEN arrived \ {i} ELSE arrived \cup {i}
    /\ active' = IF i \in arrived /\ active = i THEN Nothing ELSE active
    /\ UNCHANGED <<draft, sheet, files, sending, link, applied, opened, moves>>

\* The user selects another record.
SelectOther ==
    /\ active' = Nothing /\ active # Nothing
    /\ UNCHANGED <<draft, sheet, files, sending, link, applied, arrived, opened, moves>>

-----------------------------------------------------------------------------
Init ==
    /\ prompt = Nothing /\ imageRatio = "auto" /\ referenceImages = 0
    /\ imageParams \in Params /\ imageParams.size = "auto"
    /\ sheet = FALSE /\ submitting = {} /\ submissions = {}
    /\ previewing = 0 /\ reading = {} /\ batches = 0
    /\ link = Nothing /\ applied = Nothing /\ active = Nothing /\ arrived = {}
    /\ opened = 0 /\ submits = 0 /\ moves = 0

Edit ==
    \/ ChangeParams
    \/ \E text \in Prompts \cup {Nothing} : Type(text)
    \/ \E text \in Prompts, params \in Params : Reuse(text, params)

Attach == RemoveReference \/ \E n \in 1..MaxReferences : PickFiles(n)

Send == ToggleSheet \/ \E p \in Panels : HandleGenerate(p)

Answers ==
    \/ \E b \in reading : ReadImage(b)
    \/ \E s \in submissions : Submitted(s)
    \/ ApplyActiveId
    \/ \E i \in Links : RecordsChange(i)

\* The preview is modal: what the user does elsewhere has to wait, what arrives does not.
Next ==
    \/ previewing = 0 /\ (Edit \/ Attach \/ Send \/ SelectOther \/ \E i \in Links : FollowLink(i))
    \/ Preview \/ Answers

Spec == Init /\ [][Next]_vars

-----------------------------------------------------------------------------
\* The ratio shown is that of the size that will be sent, whichever way either was chosen.
RatioOfSize == imageSizeToRatio(imageParams.size) = imageSizeToRatio(SizeOf[imageRatio])

\* However many batches of files are read at a time, no more images are attached than the API takes.
ReferencesWithinLimit == referenceImages <= MaxReferences

\* What the panels edit can always be sent as it is shown.
DraftIsValid == RatioOfSize /\ ReferencesWithinLimit

\* A link shows its record once: what the user selects later stays selected while records come and go.
LinkOpensOnce == opened <= 1
=============================================================================
