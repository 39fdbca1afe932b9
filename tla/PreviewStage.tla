---------------------------- MODULE PreviewStage ----------------------------
(***************************************************************************)
(* The stage of the workbench: what it shows of the active record, what it *)
(* offers to do with it, and the bar it draws while the record is made.    *)
(*                                                                         *)
(* Nothing reports progress: the bar is computed from the status and the   *)
(* time since the record was created or started.  These times are the      *)
(* server's, the time they are compared with is the browser's, and it is   *)
(* only read once a second.  Time is counted in steps of 20 seconds and    *)
(* the bar in thirds of a percent.                                         *)
(***************************************************************************)
EXTENDS Integers, FiniteSets

CONSTANTS
    Ids,        \* of records
    NoRecord,
    Skews,      \* by how much the clock of the server may be ahead
    MaxTime,    \* bound: steps of the clock
    MaxActs     \* bound: operations of the user

VARIABLES
    records,            \* [Ids -> record], status "none" if there is no such record
    active,             \* activeHistoryId
    publishTarget,      \* the record the publish dialog is open for
    saving,             \* answers awaited by updateRecord
    draft, lightbox,    \* what the prompt was taken from; what the lightbox was opened with
    clock, skew, now,   \* of the browser; of the server; state of GeneratingState
    acts

vars == <<records, active, publishTarget, saving, draft, lightbox, clock, skew, now, acts>>

NoTime   == -100
NoMaking == [status |-> "none", created |-> NoTime, started |-> NoTime, image |-> "none", marks |-> {}]
Created  == [NoMaking EXCEPT !.status = "waiting", !.created = clock + skew]

-----------------------------------------------------------------------------
(* What is shown.                                                          *)

\* The key of the part of the stage that is mounted.
StageKey ==
    IF active = NoRecord THEN <<"empty", NoRecord>> ELSE
    LET r == records[active] IN
    CASE r.status = "none"                        -> <<"empty", NoRecord>>
      [] r.status \in {"waiting", "running"}      -> <<"loading", active>>
      [] r.status = "failed"                      -> <<"failed", active>>
      [] r.status = "completed" /\ r.image = "url"   -> <<"completed", active>>
      [] r.status = "completed" /\ r.image = "error" -> <<"image-error", active>>
      [] OTHER                                    -> <<"loading", active>>

\* A click on the image opens the lightbox, the bar above it has the other actions.
CompletedState       == {"open"} \cup {"download", "favorite", "public", "copy", "regenerate"}
FailedState          == {"retry", "reuse"}
ImageLoadFailedState == {"reload"}

Offers ==
    CASE StageKey[1] = "completed"   -> CompletedState
      [] StageKey[1] = "failed"      -> FailedState
      [] StageKey[1] = "image-error" -> ImageLoadFailedState
      [] OTHER                       -> {}

\* The time the bar of a record counts from.
StartOf(r) == IF r.status = "running" /\ r.started # NoTime THEN r.started ELSE r.created

AtMost(n, most) == IF n > most THEN most ELSE n

\* Mutant of Elapsed: a time in the future counts backwards.
ElapsedSigned(r, t) == t - StartOf(r)

Elapsed(r, t) == IF t > StartOf(r) THEN t - StartOf(r) ELSE 0

getGeneratingProgress(r, t) ==
    CASE r.status = "waiting" -> AtMost(12 + 6 * Elapsed(r, t), 30)
      [] r.status = "running" -> AtMost(36 + 26 * Elapsed(r, t), 288)
      [] OTHER -> 288

\* What the bar of a part that shows a record under way says at the time it has read.
GeneratingState(r, t) == getGeneratingProgress(r, t)

\* A part that is mounted anew reads the clock, one that stays keeps what it has read.
Remount == now' = IF StageKey' = StageKey THEN now ELSE clock

-----------------------------------------------------------------------------
(* What the user does.                                                     *)

Act == acts < MaxActs /\ acts' = acts + 1

Select(i) ==
    /\ Act /\ i # active /\ records[i].status # "none"
    /\ active' = i
    /\ UNCHANGED <<records, publishTarget, saving, draft, lightbox, clock, skew>>
    /\ Remount

Put(i, r) ==
    /\ records' = [records EXCEPT ![i] = r]
    /\ UNCHANGED <<publishTarget, saving, draft, lightbox, clock, skew>>

\* submit adds the record and selects it.
Regenerate ==
    /\ Act /\ "regenerate" \in Offers /\ publishTarget = NoRecord
    /\ \E i \in Ids : records[i] = NoMaking /\ Put(i, Created) /\ active' = i
    /\ Remount

\* The server clears the start of the record but not its creation.
Retry ==
    /\ Act /\ "retry" \in Offers
    /\ Put(active, [records[active] EXCEPT !.status = "waiting", !.started = NoTime, !.image = "none"])
    /\ UNCHANGED active /\ Remount

ReloadImage ==
    /\ Act /\ "reload" \in Offers
    /\ Put(active, [records[active] EXCEPT !.image = "none"])
    /\ UNCHANGED active /\ Remount

Reuse ==
    /\ Act /\ "reuse" \in Offers /\ draft' = active
    /\ UNCHANGED <<records, active, publishTarget, saving, lightbox, clock, skew, now>>

OpenLightbox ==
    /\ Act /\ "open" \in Offers /\ publishTarget = NoRecord /\ lightbox' = active
    /\ UNCHANGED <<records, active, publishTarget, saving, draft, clock, skew, now>>

\* Both ask for the opposite of what they see; to publish is confirmed first.
Toggle(mark) ==
    /\ Act /\ mark \in Offers /\ publishTarget = NoRecord
    /\ LET on == mark \notin records[active].marks IN
       IF mark = "public" /\ on THEN publishTarget' = active /\ UNCHANGED saving
       ELSE /\ saving' = saving \cup {[id |-> active, mark |-> mark, on |-> on, confirmed |-> FALSE]}
            /\ UNCHANGED publishTarget
    /\ UNCHANGED <<records, active, draft, lightbox, clock, skew, now>>

\* The dialog stays until the answer comes, unless it is cancelled.
ConfirmPublish ==
    /\ Act /\ publishTarget # NoRecord
    /\ saving' = saving \cup {[id |-> publishTarget, mark |-> "public", on |-> TRUE, confirmed |-> TRUE]}
    /\ UNCHANGED <<records, active, publishTarget, draft, lightbox, clock, skew, now>>

CancelPublish ==
    /\ publishTarget # NoRecord /\ publishTarget' = NoRecord
    /\ UNCHANGED <<records, active, saving, draft, lightbox, clock, skew, now, acts>>

\* updateRecord does not fail its caller: it shows the failure itself.
Saved(s) ==
    /\ s \in saving /\ saving' = saving \ {s}
    /\ \E ok \in BOOLEAN :
        records' = IF ok /\ records[s.id].status # "none"
                   THEN [records EXCEPT ![s.id].marks =
                            IF s.on THEN @ \cup {s.mark} ELSE @ \ {s.mark}]
                   ELSE records
    /\ publishTarget' = IF s.confirmed THEN NoRecord ELSE publishTarget
    /\ UNCHANGED <<active, draft, lightbox, clock, skew, now, acts>>

-----------------------------------------------------------------------------
(* What happens to a record.                                               *)

Server(i, r) == Put(i, r) /\ UNCHANGED <<active, acts>> /\ Remount

Starts(i)    == records[i].status = "waiting"
                /\ Server(i, [records[i] EXCEPT !.status = "running", !.started = clock + skew])
\* After a restart of the server.
Requeued(i)  == records[i].status = "running"
                /\ Server(i, [records[i] EXCEPT !.status = "waiting", !.started = NoTime])
Ends(i)      == records[i].status = "running"
                /\ \E s \in {"completed", "failed"} : Server(i, [records[i] EXCEPT !.status = s])
ImageEnds(i) == records[i].status = "completed" /\ records[i].image = "none"
                /\ \E image \in {"url", "error"} : Server(i, [records[i] EXCEPT !.image = image])
\* The active record is deleted in the library, which selects none.
Deleted(i)   == /\ records[i].status # "none"
                /\ Put(i, [records[i] EXCEPT !.status = "none"])
                /\ active' = IF active = i THEN NoRecord ELSE active
                /\ Remount /\ Act

\* The interval of GeneratingState, which a busy page may miss.
Time ==
    /\ clock < MaxTime /\ clock' = clock + 1
    /\ \E t \in {now, clock'} : now' = t
    /\ UNCHANGED <<records, active, publishTarget, saving, draft, lightbox, skew, acts>>

Init ==
    /\ skew \in Skews /\ clock = 0 /\ now = 0
    /\ \E i \in Ids :
        records = [j \in Ids |-> IF j = i THEN Created ELSE NoMaking] /\ active = i
    /\ publishTarget = NoRecord /\ saving = {} /\ draft = NoRecord /\ lightbox = NoRecord
    /\ acts = 0

Next ==
    \/ Regenerate \/ Retry \/ ReloadImage \/ Reuse \/ OpenLightbox
    \/ Toggle("favorite") \/ Toggle("public") \/ ConfirmPublish \/ CancelPublish \/ Time
    \/ \E s \in saving : Saved(s)
    \/ \E i \in Ids : Select(i) \/ Starts(i) \/ Requeued(i) \/ Ends(i) \/ ImageEnds(i) \/ Deleted(i)

Spec == Init /\ [][Next]_vars

-----------------------------------------------------------------------------
Rank(r) == CASE r.status = "waiting" -> 1 [] r.status = "running" -> 2 [] OTHER -> 3

\* While one bar stays on the stage and its record does not fall back, the bar never does either:
\* whatever the clocks differ by, when the time counted from changes, and when ticks are missed.
ProgressNeverFalls ==
    [][/\ StageKey[1] = "loading" /\ StageKey' = StageKey
       /\ Rank(records[active]) <= Rank(records[active])'
       => GeneratingState(records[active], now) <= GeneratingState(records[active], now)']_vars
=============================================================================
