------------------------------- MODULE Views -------------------------------
(***************************************************************************)
(* The views of the client.  They meet only in the provider, whose part    *)
(* each models for itself: they stand side by side, and one of them moves  *)
(* while the others stay where they begin.                                 *)
(***************************************************************************)
EXTENDS Integers, FiniteSets

CONSTANTS
    LibraryCards, ProjectIds, ProjectNames, Given, None, LibraryActs,   \* of LibraryPanel
    Prompts, Links, MaxReferences,   \* of Workbench
    Qualities, Backgrounds, Moderations, Formats, Compressions,
    MaxReads, MaxSubmits, MaxMoves,
    Pictures, Natural, Viewports, ZoomStep, Drags,   \* of Lightbox
    NoPicture, MaxResizes, MaxLosses,
    Ids, NoRecord, Skews, MaxTime, StageActs,   \* of PreviewStage
    Names, NoUser, MaxEdits, MaxConfigs, AccountSubmits,   \* of AccountForms
    Rows, Admins, Matching, Start, Cards, PageSize, Nobody,   \* of AdminLists
    ListActs, Leaving, MaxChanges,
    Keys, Models, Titles, Limits, SettingsActs, MaxFailures,   \* of AdminSettings
    Nothing   \* no value, in AdminSettings and Workbench

\* The ids of projects are no names of filters.
ASSUME LibraryAssumption == None \notin ProjectIds /\ {"all", "inbox"} \cap ProjectIds = {}

ASSUME WorkbenchAssumption == MaxReferences \in Nat

\* Sizes and distances are in pixels.
ASSUME LightboxAssumption ==
    /\ Pictures \subseteq Int /\ NoPicture \notin Pictures
    /\ Natural \in [Pictures -> Nat]
    /\ Viewports \subseteq Nat /\ Drags \subseteq Int /\ ZoomStep \in Nat

ASSUME StageAssumption == NoRecord \notin Ids /\ Skews \subseteq Int

ASSUME ListsAssumption ==
    /\ Rows \subseteq Int /\ IsFiniteSet(Rows)
    /\ PageSize \in Nat \ {0}

VARIABLE part   \* the part of the client that moves

-----------------------------------------------------------------------------
VARIABLES
    lib_cards, lib_projects, lib_activeId, lib_tab, lib_projectFilter, lib_creating, lib_editing,
    lib_deleteRecordTarget, lib_cancelRecordTarget, lib_deleteProjectTarget, lib_jobs,
    lib_reselected, lib_raced, lib_acts

libVars ==
    <<lib_cards, lib_projects, lib_activeId, lib_tab, lib_projectFilter, lib_creating,
    lib_editing, lib_deleteRecordTarget, lib_cancelRecordTarget, lib_deleteProjectTarget,
    lib_jobs, lib_reselected, lib_raced, lib_acts>>
Lib == INSTANCE LibraryPanel WITH
    Cards <- LibraryCards, Names <- ProjectNames, MaxActs <- LibraryActs, cards <- lib_cards,
    projects <- lib_projects, activeId <- lib_activeId, tab <- lib_tab,
    projectFilter <- lib_projectFilter, creating <- lib_creating, editing <- lib_editing,
    deleteRecordTarget <- lib_deleteRecordTarget, cancelRecordTarget <- lib_cancelRecordTarget,
    deleteProjectTarget <- lib_deleteProjectTarget, jobs <- lib_jobs,
    reselected <- lib_reselected, raced <- lib_raced, acts <- lib_acts

VARIABLES
    ben_prompt, ben_imageParams, ben_imageRatio, ben_referenceImages, ben_sheet, ben_submitting,
    ben_previewing, ben_reading, ben_batches, ben_submissions, ben_link, ben_applied, ben_active,
    ben_arrived, ben_opened, ben_submits, ben_moves

benVars ==
    <<ben_prompt, ben_imageParams, ben_imageRatio, ben_referenceImages, ben_sheet, ben_submitting,
    ben_previewing, ben_reading, ben_batches, ben_submissions, ben_link, ben_applied, ben_active,
    ben_arrived, ben_opened, ben_submits, ben_moves>>
Ben == INSTANCE Workbench WITH
    prompt <- ben_prompt, imageParams <- ben_imageParams, imageRatio <- ben_imageRatio,
    referenceImages <- ben_referenceImages, sheet <- ben_sheet, submitting <- ben_submitting,
    previewing <- ben_previewing, reading <- ben_reading, batches <- ben_batches,
    submissions <- ben_submissions, link <- ben_link, applied <- ben_applied,
    active <- ben_active, arrived <- ben_arrived, opened <- ben_opened, submits <- ben_submits,
    moves <- ben_moves

VARIABLES
    box_kept, box_sourced, box_open, box_recordId, box_nav, box_zoomState, box_imageBox,
    box_viewport, box_element, box_due, box_publishTarget, box_resizes, box_losses

boxVars ==
    <<box_kept, box_sourced, box_open, box_recordId, box_nav, box_zoomState, box_imageBox,
    box_viewport, box_element, box_due, box_publishTarget, box_resizes, box_losses>>
Box == INSTANCE Lightbox WITH
    kept <- box_kept, sourced <- box_sourced, open <- box_open, recordId <- box_recordId,
    nav <- box_nav, zoomState <- box_zoomState, imageBox <- box_imageBox,
    viewport <- box_viewport, element <- box_element, due <- box_due,
    publishTarget <- box_publishTarget, resizes <- box_resizes, losses <- box_losses

VARIABLES
    sta_records, sta_active, sta_publishTarget, sta_saving, sta_draft, sta_lightbox, sta_clock,
    sta_skew, sta_now, sta_acts

staVars ==
    <<sta_records, sta_active, sta_publishTarget, sta_saving, sta_draft, sta_lightbox, sta_clock,
    sta_skew, sta_now, sta_acts>>
Sta == INSTANCE PreviewStage WITH
    MaxActs <- StageActs, records <- sta_records, active <- sta_active,
    publishTarget <- sta_publishTarget, saving <- sta_saving, draft <- sta_draft,
    lightbox <- sta_lightbox, clock <- sta_clock, skew <- sta_skew, now <- sta_now,
    acts <- sta_acts

VARIABLES
    acc_page, acc_user, acc_authStatus, acc_authError, acc_registrationEnabled,
    acc_demoLoginEnabled, acc_values, acc_touched, acc_errors, acc_agreeTerms, acc_typed,
    acc_refilled, acc_displayName, acc_displayNameError, acc_profilePending, acc_avatarPending,
    acc_passwordOpen, acc_passwordPending, acc_passwordValues, acc_passwordErrors, acc_section,
    acc_avatarChosen, acc_mountedAt, acc_calls, acc_crossed, acc_serverName, acc_edits,
    acc_configs, acc_submits

accVars ==
    <<acc_page, acc_user, acc_authStatus, acc_authError, acc_registrationEnabled,
    acc_demoLoginEnabled, acc_values, acc_touched, acc_errors, acc_agreeTerms, acc_typed,
    acc_refilled, acc_displayName, acc_displayNameError, acc_profilePending, acc_avatarPending,
    acc_passwordOpen, acc_passwordPending, acc_passwordValues, acc_passwordErrors, acc_section,
    acc_avatarChosen, acc_mountedAt, acc_calls, acc_crossed, acc_serverName, acc_edits,
    acc_configs, acc_submits>>
Acc == INSTANCE AccountForms WITH
    MaxSubmits <- AccountSubmits, page <- acc_page, user <- acc_user,
    authStatus <- acc_authStatus, authError <- acc_authError,
    registrationEnabled <- acc_registrationEnabled, demoLoginEnabled <- acc_demoLoginEnabled,
    values <- acc_values, touched <- acc_touched, errors <- acc_errors,
    agreeTerms <- acc_agreeTerms, typed <- acc_typed, refilled <- acc_refilled,
    displayName <- acc_displayName, displayNameError <- acc_displayNameError,
    profilePending <- acc_profilePending,
    avatarPending <- acc_avatarPending, passwordOpen <- acc_passwordOpen,
    passwordPending <- acc_passwordPending, passwordValues <- acc_passwordValues,
    passwordErrors <- acc_passwordErrors, section <- acc_section,
    avatarChosen <- acc_avatarChosen, mountedAt <- acc_mountedAt, calls <- acc_calls,
    crossed <- acc_crossed, serverName <- acc_serverName, edits <- acc_edits,
    configs <- acc_configs, submits <- acc_submits

VARIABLES
    lst_card, lst_query, lst_page, lst_rows, lst_off, lst_total, lst_loading, lst_due,
    lst_working, lst_target, lst_existing, lst_disabled, lst_calls, lst_acts, lst_changes

lstVars ==
    <<lst_card, lst_query, lst_page, lst_rows, lst_off, lst_total, lst_loading, lst_due,
    lst_working, lst_target, lst_existing, lst_disabled, lst_calls, lst_acts, lst_changes>>
Lst == INSTANCE AdminLists WITH
    MaxActs <- ListActs, card <- lst_card, query <- lst_query, page <- lst_page, rows <- lst_rows,
    off <- lst_off, total <- lst_total, loading <- lst_loading, due <- lst_due,
    working <- lst_working, target <- lst_target, existing <- lst_existing,
    disabled <- lst_disabled, calls <- lst_calls, acts <- lst_acts, changes <- lst_changes

VARIABLES
    set_tab, set_loading, set_saving, set_testing, set_key, set_baseline, set_models,
    set_testModel, set_limit, set_title, set_savedTitle, set_open, set_savedOpen, set_stored,
    set_calls, set_acts, set_failures

setVars ==
    <<set_tab, set_loading, set_saving, set_testing, set_key, set_baseline, set_models,
    set_testModel, set_limit, set_title, set_savedTitle, set_open, set_savedOpen, set_stored,
    set_calls, set_acts, set_failures>>
Set == INSTANCE AdminSettings WITH
    MaxActs <- SettingsActs, tab <- set_tab, loading <- set_loading, saving <- set_saving,
    testing <- set_testing, key <- set_key, baseline <- set_baseline, models <- set_models,
    testModel <- set_testModel, limit <- set_limit, title <- set_title,
    savedTitle <- set_savedTitle, open <- set_open, savedOpen <- set_savedOpen,
    stored <- set_stored, calls <- set_calls, acts <- set_acts, failures <- set_failures

-----------------------------------------------------------------------------
viewsVars == <<part, libVars, benVars, boxVars, staVars, accVars, lstVars, setVars>>

ViewsInit == Lib!Init /\ Ben!Init /\ Box!Init /\ Sta!Init /\ Acc!Init /\ Lst!Init /\ Set!Init

ViewsNext ==
    /\ UNCHANGED part
    /\ IF part = "library" THEN Lib!Next ELSE UNCHANGED libVars
    /\ IF part = "workbench" THEN Ben!Next ELSE UNCHANGED benVars
    /\ IF part = "lightbox" THEN Box!Next ELSE UNCHANGED boxVars
    /\ IF part = "stage" THEN Sta!Next ELSE UNCHANGED staVars
    /\ IF part = "account" THEN Acc!Next ELSE UNCHANGED accVars
    /\ IF part = "lists" THEN Lst!Next ELSE UNCHANGED lstVars
    /\ IF part = "settings" THEN Set!Next ELSE UNCHANGED setVars

ViewsSpec == ViewsInit /\ [][ViewsNext]_viewsVars

-----------------------------------------------------------------------------
(* The properties of the views; each is about one of them, and its module  *)
(* says what it means.                                                     *)
ProjectsExist      == Lib!ProjectsExist
DraftIsValid       == Ben!DraftIsValid
LinkOpensOnce      == Ben!LinkOpensOnce
PanWithinLimits    == Box!PanWithinLimits
ProgressNeverFalls == Sta!ProgressNeverFalls
FormIsCurrent      == Acc!FormIsCurrent
OneAttempt         == Acc!OneAttempt
MarkedIsUnderWay   == Lst!MarkedIsUnderWay
PaginationIsTrue   == Lst!PaginationIsTrue
BusyWhileCalling   == Set!BusyWhileCalling
=============================================================================
