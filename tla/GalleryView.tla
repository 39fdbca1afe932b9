---------------------------- MODULE GalleryView ----------------------------
(***************************************************************************)
(* The gallery.  Its community side loads public records page by page with *)
(* requests of its own, and their images with loaders of its own: one at a *)
(* time for a record, the URL of its blob kept until the page is left.     *)
(* Records are published and withdrawn elsewhere between two pages.  The   *)
(* side of one's own records shows what usePagedRecords and the provider   *)
(* keep.                                                                   *)
(***************************************************************************)
EXTENDS Naturals, Sequences, FiniteSets, SequencesExt, Listing

CONSTANTS
    Queries, Records,
    Matching,      \* the records that a query finds, as long as they and their prompts are public
    NoRecord,
    PageSize,
    MaxMoves,      \* bound: changes of scope, tab or search text, and dialogs opened
    MaxMishaps     \* bound: requests and loads that fail, publications and withdrawals elsewhere

VARIABLES
    published,                               \* on the server: the latest publication first
    mounted, scope, tab, query,
    records, page, totalPages, status,       \* communityState
    loading, requests,                       \* communityLoadingRef; "current" is communityRequestIdRef's
    urls, loaders,                           \* communityUrlsRef, communityLoadersRef
    images,                                  \* communityImages: what is known of a record's image
    live,                                    \* URLs that are not revoked, by record
    measuring, measured,                     \* images that GalleryAlbum loads for their size; naturalSizes
    preview, previewImage,                   \* communityPreview: the record as it was when it was opened
    publishTarget, deleteTarget, saving,     \* the dialogs of one's own records
    moves, mishaps

community == <<records, page, totalPages, status, loading, requests>>
pictures  == <<urls, loaders, images, live>>
album     == <<measuring, measured>>
dialogs   == <<preview, previewImage, publishTarget, deleteTarget, saving>>
place     == <<mounted, scope, tab, query>>
vars == <<published, place, community, pictures, album, dialogs, moves, mishaps>>

Move == moves < MaxMoves /\ moves' = moves + 1
Mishap == mishaps < MaxMishaps /\ mishaps' = mishaps + 1
NoMove == UNCHANGED <<moves, mishaps>>

-----------------------------------------------------------------------------
(* Pages of the community.                                                 *)

\* ORDER BY published_at DESC.
Found(q) == Keep(published, {n \in DOMAIN published : published[n] \in Matching[q]})

ServedIds(q, p) ==
    LET last == IF p * PageSize < Len(Found(q)) THEN p * PageSize ELSE Len(Found(q))
    IN SubSeq(Found(q), (p - 1) * PageSize + 1, last)
ServedPages(q) == IF Found(q) = <<>> THEN 1 ELSE (Len(Found(q)) + PageSize - 1) \div PageSize

\* A record that is published again moves to the front.
Withdrawn(r)   == Keep(published, {n \in DOMAIN published : published[n] # r})
Republished(r) == <<r>> \o Withdrawn(r)

Superseded == {[r EXCEPT !.current = FALSE] : r \in requests}
NewRequest(q, p, m) == [query |-> q, page |-> p, mode |-> m, current |-> TRUE, state |-> "sent",
                        ids |-> <<>>, pages |-> 0]

\* The effect of a change of scope or search text.  The rows stay until the request is begun, which
\* on the community side is at once.
Restart(s, q) ==
    IF s = "community"
    THEN /\ loading' = TRUE /\ status' = "loading"
         /\ records' = <<>> /\ page' = 0 /\ totalPages' = 1
         /\ requests' = Superseded \cup {NewRequest(q, 1, "reset")}
    ELSE /\ loading' = FALSE /\ requests' = Superseded
         /\ UNCHANGED <<records, page, totalPages, status>>

Navigate(s, t, q) ==
    /\ mounted /\ Move
    /\ t # tab => scope = "mine"
    /\ scope' = s /\ tab' = t /\ query' = q
    /\ IF s # scope \/ q # query THEN Restart(s, q) ELSE UNCHANGED community
    /\ UNCHANGED <<published, mounted, pictures, dialogs, mishaps>>

HasMore == page < totalPages

\* handleLoadMore and loadCommunityPage.
LoadMore ==
    /\ mounted /\ scope = "community" /\ status # "loading" /\ HasMore /\ ~loading
    /\ loading' = TRUE /\ status' = "loading"
    /\ requests' = Superseded \cup {NewRequest(query, page + 1, "append")}
    /\ UNCHANGED <<published, place, records, page, totalPages, pictures, dialogs>> /\ NoMove

Serve(r) ==
    /\ r.state = "sent"
    /\ \/ /\ requests' = (requests \ {r}) \cup
                {[r EXCEPT !.state = "done", !.ids = ServedIds(r.query, r.page),
                           !.pages = ServedPages(r.query)]}
          /\ UNCHANGED mishaps
       \/ /\ Mishap
          /\ requests' = (requests \ {r}) \cup {[r EXCEPT !.state = "failed"]}
    /\ UNCHANGED <<published, place, records, page, totalPages, status, loading, pictures, dialogs,
                   moves>>

\* Mutant of appendUniqueRecords: a record that has moved to the next page is there twice.
appendRecords(current, incoming) == current \o incoming

\* A map by id keeps the order in which the ids first came.
appendUniqueRecords(current, incoming) ==
    current \o Keep(incoming, {n \in DOMAIN incoming : incoming[n] \notin ToSet(current)})

Concerns(r) == r.current

Arrived(r) ==
    /\ r.state = "done" /\ Concerns(r)
    /\ records' = IF r.mode = "reset" THEN r.ids ELSE appendUniqueRecords(records, r.ids)
    /\ page' = r.page /\ totalPages' = r.pages
    /\ status' = "ready" /\ loading' = FALSE
    /\ requests' = requests \ {r}
    /\ UNCHANGED <<published, place, pictures, dialogs>> /\ NoMove

Failed(r) ==
    /\ r.state = "failed" /\ Concerns(r)
    /\ status' = "error" /\ loading' = FALSE
    /\ requests' = requests \ {r}
    /\ UNCHANGED <<published, place, records, page, totalPages, pictures, dialogs>> /\ NoMove

Ignored(r) ==
    /\ r.state # "sent" /\ ~Concerns(r)
    /\ requests' = requests \ {r}
    /\ UNCHANGED <<published, place, records, page, totalPages, status, loading, pictures, dialogs>>
    /\ NoMove

-----------------------------------------------------------------------------
(* What is shown.                                                          *)

\* An error of a later page hides the pages before it.
Content ==
    CASE ~mounted \/ scope = "mine"                -> "mine"
      [] status = "loading" /\ records = <<>>      -> "loading"
      [] status = "error"                          -> "error"
      [] OTHER -> IF records # <<>> THEN "album" ELSE "empty"

Cards == IF Content = "album" THEN ToSet(records) ELSE {}

\* What a card offers on either side.
CardActions(r) ==
    {"open", "favorite", "details"} \cup (IF images[r] = "url" THEN {"download"} ELSE {})
MineActions == {"publish", "reuse", "move", "delete"}

-----------------------------------------------------------------------------
(* Images of the community.                                                *)

\* A card that comes into view asks for its image, if it was not asked for before.
AsksForImage(r) == r \in Cards /\ images[r] = "none"

\* A click on a card whose image could not be loaded asks again.
AsksAgain(r) == r \in Cards /\ images[r] = "error" /\ "open" \in CardActions(r)

RequestImage(r) ==
    /\ \/ AsksForImage(r) /\ UNCHANGED moves
       \/ AsksAgain(r) /\ moves < MaxMoves /\ moves' = moves + 1
    /\ r \notin urls \cup loaders
    /\ loaders' = loaders \cup {r}
    /\ images' = [images EXCEPT ![r] = "loading"]
    /\ UNCHANGED <<published, place, community, urls, live, dialogs, mishaps>>

\* Mutant of ImageLoaded: the ref is not told of the URL.
ImageLoadedUnkept(r) ==
    /\ r \in loaders
    /\ live' = [live EXCEPT ![r] = @ + 1]
    /\ loaders' = loaders \ {r}
    /\ images' = [images EXCEPT ![r] = "url"]
    /\ UNCHANGED <<published, place, community, urls, dialogs>> /\ NoMove

\* The URL replaces a previous one, which is revoked.  After the page is left the load goes on.
ImageLoaded(r) ==
    /\ r \in loaders
    /\ live' = [live EXCEPT ![r] = IF r \in urls THEN @ ELSE @ + 1]
    /\ urls' = urls \cup {r} /\ loaders' = loaders \ {r}
    /\ images' = [images EXCEPT ![r] = "url"]
    /\ UNCHANGED <<published, place, community, dialogs>> /\ NoMove

ImageFailed(r) ==
    /\ r \in loaders /\ Mishap
    /\ loaders' = loaders \ {r}
    /\ images' = [images EXCEPT ![r] = "error"]
    /\ UNCHANGED <<published, place, community, urls, live, dialogs, moves>>

Leave ==
    /\ mounted /\ mounted' = FALSE
    /\ live' = [r \in Records |-> IF r \in urls THEN live[r] - 1 ELSE live[r]]
    /\ urls' = {}
    /\ measuring' = {} /\ measured' = {}
    /\ UNCHANGED <<published, scope, tab, query, community, loaders, images, dialogs>> /\ NoMove

-----------------------------------------------------------------------------
(* The album.                                                              *)

\* The images that cards show.
WithImage == {r \in Cards : images[r] = "url"}

\* Mutant of Measure: images whose loading was cancelled are not loaded again.
MeasureOnce == UNCHANGED measured /\ measuring' = {}

\* The effect of GalleryAlbum, on every change of its list: the loads of the old list are cancelled,
\* every image of the new one is loaded.  An album that is not shown forgets the sizes.
Measure ==
    LET cards == Cards' IN
    /\ measuring' = {r \in cards : images'[r] = "url"}
    /\ measured' = measured \cap cards

Measured(r) ==
    /\ r \in measuring
    /\ measured' = measured \cup {r} /\ measuring' = measuring \ {r}
    /\ UNCHANGED <<published, place, community, pictures, dialogs>> /\ NoMove

ListChanges == Cards' # Cards \/ WithImage' # WithImage

Relist == IF ListChanges THEN Measure ELSE UNCHANGED album

-----------------------------------------------------------------------------
(* Dialogs.                                                                *)

\* The preview shows a snapshot; its arrows go through the list as it is now, to cards whose image
\* may not have been loaded, and nothing loads it for the preview.
OpenPreview(r) ==
    /\ Move /\ mounted
    /\ \/ preview = NoRecord /\ r \in Cards /\ images[r] = "url"
       \/ /\ preview # NoRecord /\ scope = "community"
          /\ \E n, m \in 1..Len(records) :
              records[n] = preview /\ (m = n + 1 \/ n = m + 1) /\ records[m] = r
    /\ preview' = r /\ previewImage' = (images[r] = "url")
    /\ UNCHANGED <<published, place, community, pictures, album, publishTarget, deleteTarget, saving,
                   mishaps>>

ClosePreview ==
    /\ preview # NoRecord /\ preview' = NoRecord /\ previewImage' = FALSE
    /\ UNCHANGED <<published, place, community, pictures, album, publishTarget, deleteTarget, saving>>
    /\ NoMove

NoDialog == preview = NoRecord /\ publishTarget = NoRecord /\ deleteTarget = NoRecord

\* A card of one's own opens a dialog; withdrawing needs none.
AskFirst(r) ==
    /\ Move /\ mounted /\ scope = "mine" /\ NoDialog
    /\ \/ "publish" \in MineActions /\ publishTarget' = r /\ UNCHANGED deleteTarget
       \/ "delete" \in MineActions /\ deleteTarget' = r /\ UNCHANGED publishTarget
    /\ UNCHANGED <<published, place, community, pictures, album, preview, previewImage, saving,
                   mishaps>>

\* Confirmed, a dialog stays until the answer comes, or closes at once; cancelled it closes.
Answer ==
    /\ mounted
    /\ \/ /\ publishTarget # NoRecord
          /\ \/ saving' = saving \cup {<<"publish", publishTarget>>} /\ UNCHANGED publishTarget
             \/ publishTarget' = NoRecord /\ UNCHANGED saving
          /\ UNCHANGED deleteTarget
       \/ /\ deleteTarget # NoRecord /\ deleteTarget' = NoRecord
          /\ \/ saving' = saving \cup {<<"delete", deleteTarget>>}
             \/ UNCHANGED saving
          /\ UNCHANGED publishTarget
    /\ UNCHANGED <<published, place, community, pictures, album, preview, previewImage>> /\ NoMove

Saved(s) ==
    /\ s \in saving /\ saving' = saving \ {s}
    /\ IF s[1] = "publish" THEN publishTarget' = NoRecord /\ UNCHANGED deleteTarget
       ELSE deleteTarget' = NoRecord /\ UNCHANGED publishTarget
    /\ published' = IF s[1] = "publish" THEN Republished(s[2]) ELSE Withdrawn(s[2])
    /\ UNCHANGED <<place, community, pictures, album, preview, previewImage>> /\ NoMove

\* Elsewhere a record is published, once more perhaps, or withdrawn.
Elsewhere(r) ==
    /\ Mishap
    /\ published' \in {Republished(r), Withdrawn(r)} /\ published' # published
    /\ UNCHANGED <<place, community, pictures, album, dialogs, moves>>

Init ==
    /\ \E n \in 0..Cardinality(Records) : published \in [1..n -> Records]
    /\ \A m, n \in 1..Len(published) : published[m] = published[n] => m = n
    /\ mounted = TRUE /\ scope = "community" /\ tab = "all" /\ query \in Queries
    /\ records = <<>> /\ page = 0 /\ totalPages = 1 /\ status = "loading"
    /\ loading = TRUE /\ requests = {NewRequest(query, 1, "reset")}
    /\ urls = {} /\ loaders = {}
    /\ images = [r \in Records |-> "none"] /\ live = [r \in Records |-> 0]
    /\ measuring = {} /\ measured = {}
    /\ preview = NoRecord /\ previewImage = FALSE
    /\ publishTarget = NoRecord /\ deleteTarget = NoRecord /\ saving = {}
    /\ moves = 0 /\ mishaps = 0

Answered   == \E r \in requests : Serve(r) \/ Arrived(r) \/ Failed(r) \/ Ignored(r)
ImageEnds  == \E r \in loaders : ImageLoaded(r) \/ ImageFailed(r)

Next ==
    \/ /\ \/ \E s \in {"mine", "community"}, t \in {"all", "favorites", "projects"}, q \in Queries :
              <<s, t, q>> # <<scope, tab, query>> /\ Navigate(s, t, q)
          \/ LoadMore \/ Answered \/ ImageEnds
          \/ \E r \in Records : RequestImage(r)
       /\ Relist
    \/ Leave \/ ClosePreview \/ Answer
    \/ \E s \in saving : Saved(s)
    \/ \E r \in Records : Measured(r) \/ OpenPreview(r) \/ AskFirst(r) \/ Elsewhere(r)

Spec == Init /\ [][Next]_vars

-----------------------------------------------------------------------------
\* The community's list, while it is the side that is shown, is what PagedList promises, although
\* records come and go on the server and the answers to earlier searches are late.
Community == INSTANCE PagedList WITH
    Queries <- Queries, Records <- Records, found <- Matching, asked <- query,
    listed <- IF scope = "community" THEN records ELSE <<>>

ImplementsPagedList == Community!Spec

\* The page waits exactly as long as the answer to a request for what it shows can still come: a
\* change of side and back, in any order with the answers, leaves no spinner behind.
WaitsForAnAnswer ==
    LET current == {r \in requests : r.current} IN
    /\ loading <=> current # {}
    /\ \A r \in current : r.query = query /\ scope = "community"
    /\ scope = "community" => (status = "loading" <=> loading)

\* A spinner on a card has a loader, and an image on a card a URL that was not revoked.  What is not
\* revoked is known to the ref, so that leaving the page revokes it, but for the loads that end after.
ImagesAreLive ==
    /\ loaders = {r \in Records : images[r] = "loading"}
    /\ mounted => \A r \in Records : live[r] = (IF r \in urls THEN 1 ELSE 0)
    /\ mounted => urls = {r \in Records : images[r] = "url"}
    /\ \A r \in Records : live[r] <= 1

\* Every image on a card is laid out by its own size.
AllMeasured == WithImage \subseteq measured \/ ~mounted
=============================================================================
