------------------------------- MODULE Lists -------------------------------
(***************************************************************************)
(* The lists that grow page by page: those of one's own records, which     *)
(* PagedRecords models, and the community's in the gallery (GalleryView).  *)
(* Each has a list, requests and a budget of its own, and one of them      *)
(* moves while the other stays where it begins.                            *)
(***************************************************************************)
EXTENDS Naturals, FiniteSets

CONSTANTS
    Queries,   \* the search texts and filters
    Records,   \* numbers: a higher one is newer
    Matching,   \* the records that each query may find in the gallery
    Profiles,   \* the sets of queries that one's own records may match
    NoRecord, PageSize,
    MaxChanges, MaxTurns,   \* bounds of PagedRecords
    MaxMoves, MaxMishaps   \* bounds of GalleryView

ASSUME ListsAssumption ==
    /\ Records \subseteq Nat /\ IsFiniteSet(Records)
    /\ Matching \in [Queries -> SUBSET Records]
    /\ Profiles \subseteq SUBSET Queries
    /\ PageSize \in Nat \ {0}

VARIABLE part   \* the part of the client that moves

-----------------------------------------------------------------------------
VARIABLES
    pag_created, pag_existing, pag_profile, pag_known, pag_copy, pag_query, pag_enabled, pag_ids,
    pag_page, pag_totalPages, pag_status, pag_loading, pag_requests, pag_inView, pag_notice,
    pag_ever, pag_entered, pag_left, pag_torn, pag_changes, pag_turns

pagVars ==
    <<pag_created, pag_existing, pag_profile, pag_known, pag_copy, pag_query, pag_enabled, pag_ids,
      pag_page, pag_totalPages, pag_status, pag_loading, pag_requests, pag_inView, pag_notice,
      pag_ever, pag_entered, pag_left, pag_torn, pag_changes, pag_turns>>
Pag == INSTANCE PagedRecords WITH
    created <- pag_created, existing <- pag_existing, profile <- pag_profile, known <- pag_known,
    copy <- pag_copy, query <- pag_query, enabled <- pag_enabled, ids <- pag_ids, page <- pag_page,
    totalPages <- pag_totalPages, status <- pag_status, loading <- pag_loading,
    requests <- pag_requests, inView <- pag_inView, notice <- pag_notice, ever <- pag_ever,
    entered <- pag_entered, left <- pag_left, torn <- pag_torn, changes <- pag_changes,
    turns <- pag_turns

VARIABLES
    gal_published, gal_mounted, gal_scope, gal_tab, gal_query, gal_records, gal_page,
    gal_totalPages, gal_status, gal_loading, gal_requests, gal_urls, gal_loaders, gal_images,
    gal_live, gal_measuring, gal_measured, gal_preview, gal_previewImage, gal_publishTarget,
    gal_deleteTarget, gal_saving, gal_moves, gal_mishaps

galVars ==
    <<gal_published, gal_mounted, gal_scope, gal_tab, gal_query, gal_records, gal_page,
    gal_totalPages, gal_status, gal_loading, gal_requests, gal_urls, gal_loaders, gal_images,
    gal_live, gal_measuring, gal_measured, gal_preview, gal_previewImage, gal_publishTarget,
    gal_deleteTarget, gal_saving, gal_moves, gal_mishaps>>
Gal == INSTANCE GalleryView WITH
    published <- gal_published, mounted <- gal_mounted, scope <- gal_scope, tab <- gal_tab,
    query <- gal_query, records <- gal_records, page <- gal_page, totalPages <- gal_totalPages,
    status <- gal_status, loading <- gal_loading, requests <- gal_requests, urls <- gal_urls,
    loaders <- gal_loaders, images <- gal_images, live <- gal_live, measuring <- gal_measuring,
    measured <- gal_measured, preview <- gal_preview, previewImage <- gal_previewImage,
    publishTarget <- gal_publishTarget, deleteTarget <- gal_deleteTarget, saving <- gal_saving,
    moves <- gal_moves, mishaps <- gal_mishaps

-----------------------------------------------------------------------------
\* Neither list cares for the other, nor for what else part may say.
listsVars == <<part, pagVars, galVars>>

ListsInit == Pag!Init /\ Gal!Init

ListsNext ==
    /\ UNCHANGED part
    /\ IF part = "paged" THEN Pag!Next ELSE UNCHANGED pagVars
    /\ IF part = "gallery" THEN Gal!Next ELSE UNCHANGED galVars

ListsSpec == ListsInit /\ [][ListsNext]_listsVars

-----------------------------------------------------------------------------
\* What is shown as being loaded has a request or a loader that can still end it: a page of one's own
\* records, a page of the community's, and the image on a card.
NothingWaitsInVain ==
    /\ Pag!LoadingHasRequest
    /\ Gal!WaitsForAnAnswer /\ Gal!ImagesAreLive

\* Both lists promise what PagedList says.
RecordsPaged   == Pag!ImplementsPagedList
CommunityPaged == Gal!ImplementsPagedList

\* No record of a query is left out (PagedRecords).
AllShown == Pag!AllShown
=============================================================================
