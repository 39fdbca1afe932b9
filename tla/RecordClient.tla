---------------------------- MODULE RecordClient ----------------------------
(***************************************************************************)
(* The records as the web client keeps them (AppStateProvider): the        *)
(* history, the polls of unfinished records, the image downloads and their *)
(* object URLs, and the calls that create, retry, change and delete        *)
(* records.                                                                *)
(*                                                                         *)
(* A call is sent, served and answered in three steps, so that answers     *)
(* arrive in any order and after whatever the user has done meanwhile: a   *)
(* retry, a delete, a logout.  The server is the rows it would answer      *)
(* from; the queue moves them as RecordQueue does, and other devices of    *)
(* the same user change them too.                                          *)
(***************************************************************************)
EXTENDS Naturals

CONSTANTS
    Ids,          \* the records that may come to exist
    Accounts,     \* the users of this browser
    Slots,        \* HTTP calls in flight together
    NoUser, NoId,
    MaxCalls,     \* bound: calls the user makes
    MaxFaults,    \* bound: calls that fail on the network
    MaxSwitches,  \* bound: logins and logouts
    MaxRemote     \* bound: retries and deletes made on other devices

ASSUME BoundsAssumption ==
    MaxCalls \in Nat /\ MaxFaults \in Nat /\ MaxSwitches \in Nat /\ MaxRemote \in Nat

ASSUME NamesAssumption == NoUser \notin Accounts /\ NoId \notin Ids

VARIABLES
    \* the server
    rows,
    \* who is logged in, and the state of the provider
    user, history, active, ready, apiStatus,
    \* the refs of the provider: polls, image loads, object URLs
    pollers, loaders, blobs,
    \* what the browser holds for it: setTimeout ticks, calls, object URLs no ref names
    timers, calls, lost,
    \* ghosts: the records an update has patched, and those whose poll was ended under a chain
    patched, cut,
    \* the environment's budget
    issued, faults, switches, remote

serverVars == <<rows, remote>>
stateVars  == <<history, active, ready, apiStatus>>
refVars    == <<pollers, timers, patched, cut>>
imageVars  == <<loaders, blobs, lost>>
budgetVars == <<issued, faults, switches>>
vars == <<serverVars, user, stateVars, refVars, imageVars, calls, budgetVars>>

-----------------------------------------------------------------------------
(* Types.                                                                  *)

Statuses   == {"waiting", "running", "completed", "failed"}
Unfinished == {"waiting", "running"}

Dto == [status : Statuses, favorite : BOOLEAN]

\* A record in the history: the fields of the DTO and base64/imageError.
Shown == [status : Statuses, favorite : BOOLEAN, image : {"none", "url", "error"}]

Row == [owner : Accounts \cup {NoUser}, status : Statuses \cup {"unborn", "gone"}, favorite : BOOLEAN]

Partial(D, R) == UNION {[S -> R] : S \in SUBSET D}
Empty == [i \in {} |-> 0]
One(i, d) == [j \in {i} |-> d]

Kinds == {"get", "image", "list", "hydrate", "create", "retry", "update", "delete"}

Idle == [kind |-> "none"]
Call == [kind : Kinds, id : Ids \cup {NoId}, by : Accounts \cup {NoUser}, favorite : BOOLEAN,
         live : BOOLEAN, phase : {"sent", "done", "failed"}, dtos : Partial(Ids, Dto)]

-----------------------------------------------------------------------------
(* Calls.                                                                  *)

Open(c)       == calls[c] # Idle
Answered(c, k) == Open(c) /\ calls[c].kind = k /\ calls[c].phase # "sent"
Succeeded(c)  == calls[c].phase = "done"

Request(k, i, fav) ==
    [kind |-> k, id |-> i, by |-> user, favorite |-> fav,
     live |-> TRUE, phase |-> "sent", dtos |-> Empty]

Send(c, k, i, fav) ==
    /\ calls[c] = Idle
    /\ calls' = [calls EXCEPT ![c] = Request(k, i, fav)]

Closed(c) == [calls EXCEPT ![c] = Idle]

\* The user's own calls are bounded; polls, page loads of a login and image loads follow from them.
Issue == issued < MaxCalls /\ issued' = issued + 1 /\ UNCHANGED <<faults, switches>>

-----------------------------------------------------------------------------
(* The server: how it serves each call, and what moves the rows otherwise. *)

Exists(i, u) == rows[i].owner = u /\ rows[i].status \in Statuses
Own(u)       == {i \in Ids : Exists(i, u)}
DtoOf(r)     == [status |-> r.status, favorite |-> r.favorite]

Respond(c, dtos) == calls' = [calls EXCEPT ![c].phase = "done", ![c].dtos = dtos]
Refuse(c)        == calls' = [calls EXCEPT ![c].phase = "failed"]

Pending(c, k) == Open(c) /\ calls[c].kind = k /\ calls[c].phase = "sent"

ServeGet(c) ==
    /\ Pending(c, "get")
    /\ LET i == calls[c].id IN
       IF Exists(i, calls[c].by) THEN Respond(c, One(i, DtoOf(rows[i]))) ELSE Refuse(c)
    /\ UNCHANGED serverVars

\* A page holds some of the user's records: those of the page and of the filter asked for.
ServeList(c) ==
    /\ Pending(c, "list") \/ Pending(c, "hydrate")
    /\ \E S \in SUBSET Own(calls[c].by) :
        /\ calls[c].kind = "hydrate" => S = Own(calls[c].by)
        /\ Respond(c, [i \in S |-> DtoOf(rows[i])])
    /\ UNCHANGED serverVars

\* A user whose queue is full gets no new record, and no retry either.
ServeCreate(c) ==
    /\ Pending(c, "create")
    /\ \/ \E i \in Ids :
            LET row == [owner |-> calls[c].by, status |-> "waiting", favorite |-> FALSE] IN
            /\ rows[i].status = "unborn" /\ \A j \in Ids : j < i => rows[j].status # "unborn"
            /\ rows' = [rows EXCEPT ![i] = row]
            /\ Respond(c, One(i, DtoOf(row)))
       \/ Refuse(c) /\ UNCHANGED rows
    /\ UNCHANGED remote

ServeRetry(c) ==
    /\ Pending(c, "retry")
    /\ LET i == calls[c].id IN
       \/ /\ Exists(i, calls[c].by) /\ rows[i].status = "failed"
          /\ rows' = [rows EXCEPT ![i].status = "waiting"]
          /\ Respond(c, One(i, DtoOf([rows[i] EXCEPT !.status = "waiting"])))
       \/ Refuse(c) /\ UNCHANGED rows
    /\ UNCHANGED remote

ServeUpdate(c) ==
    /\ Pending(c, "update")
    /\ LET i == calls[c].id IN
       \/ /\ Exists(i, calls[c].by)
          /\ rows' = [rows EXCEPT ![i].favorite = calls[c].favorite]
          /\ Respond(c, One(i, DtoOf([rows[i] EXCEPT !.favorite = calls[c].favorite])))
       \/ ~Exists(i, calls[c].by) /\ Refuse(c) /\ UNCHANGED rows
    /\ UNCHANGED remote

ServeDelete(c) ==
    /\ Pending(c, "delete")
    /\ LET i == calls[c].id IN
       \/ Exists(i, calls[c].by) /\ rows' = [rows EXCEPT ![i].status = "gone"] /\ Respond(c, Empty)
       \/ ~Exists(i, calls[c].by) /\ Refuse(c) /\ UNCHANGED rows
    /\ UNCHANGED remote

ServeImage(c) ==
    /\ Pending(c, "image")
    /\ LET i == calls[c].id IN
       IF Exists(i, calls[c].by) /\ rows[i].status = "completed" THEN Respond(c, Empty) ELSE Refuse(c)
    /\ UNCHANGED serverVars

Serve(c) ==
    /\ \/ ServeGet(c) \/ ServeList(c) \/ ServeCreate(c) \/ ServeRetry(c)
       \/ ServeUpdate(c) \/ ServeDelete(c) \/ ServeImage(c)
    /\ UNCHANGED <<user, stateVars, refVars, imageVars, budgetVars>>

\* The network loses a request before the server has it, or the answer after that.
Lose(c) ==
    /\ Open(c) /\ calls[c].phase \in {"sent", "done"} /\ faults < MaxFaults
    /\ Refuse(c) /\ faults' = faults + 1
    /\ UNCHANGED <<serverVars, user, stateVars, refVars, imageVars, issued, switches>>

Becomes == [waiting |-> {"running"}, running |-> {"completed", "failed"}]

\* The queue works on a record.
Advance(i) ==
    /\ rows[i].status \in Unfinished
    /\ \E s \in Becomes[rows[i].status] : rows' = [rows EXCEPT ![i].status = s]
    /\ UNCHANGED <<remote, user, stateVars, refVars, imageVars, calls, budgetVars>>

\* Another device of the owner retries or deletes a record.
Remote(i) ==
    /\ remote < MaxRemote /\ remote' = remote + 1
    /\ \/ rows[i].status = "failed" /\ rows' = [rows EXCEPT ![i].status = "waiting"]
       \/ rows[i].status \in Statuses /\ rows' = [rows EXCEPT ![i].status = "gone"]
    /\ UNCHANGED <<user, stateVars, refVars, imageVars, calls, budgetVars>>

-----------------------------------------------------------------------------
(* The history.                                                            *)

Visible == DOMAIN history

FromDto(d) == [status |-> d.status, favorite |-> d.favorite, image |-> "none"]

\* The fields of a DTO replace those shown; the image survives.
Patched(old, d) == [old EXCEPT !.status = d.status, !.favorite = d.favorite]

Load(dtos) == [i \in DOMAIN dtos |-> FromDto(dtos[i])]

Merge(dtos) ==
    [i \in Visible \cup DOMAIN dtos |->
        IF i \notin DOMAIN dtos THEN history[i]
        ELSE IF i \in Visible THEN Patched(history[i], dtos[i]) ELSE FromDto(dtos[i])]

\* history/update: a record that is not in the history stays out of it.
Update(i, New(_)) == [j \in Visible |-> IF j = i THEN New(history[j]) ELSE history[j]]

Drop(i) == [j \in Visible \ {i} |-> history[j]]

UnfinishedIn(dtos) == {i \in DOMAIN dtos : dtos[i].status \in Unfinished}

-----------------------------------------------------------------------------
(* Polling.                                                                *)

Gets(i)  == {c \in Slots : Open(c) /\ calls[c].kind = "get" /\ calls[c].id = i}
Loads(i) == {c \in Slots : Open(c) /\ calls[c].kind = "image" /\ calls[c].id = i}

\* A chain of ticks and requests: the code takes it for ended when the record is unregistered.
Chained(i) == timers[i] > 0 \/ Gets(i) # {}

StartPolling(S) ==
    /\ pollers' = pollers \cup S
    /\ cut' = cut
    /\ timers' = [i \in Ids |-> timers[i] + (IF i \in S \ pollers THEN 1 ELSE 0)]

\* A tick asks for the record, unless the poll has been given up.
Tick(i, c) ==
    /\ timers[i] > 0
    /\ timers' = [timers EXCEPT ![i] = @ - 1]
    /\ \/ i \in pollers /\ Send(c, "get", i, FALSE)
       \/ i \notin pollers /\ UNCHANGED calls
    /\ UNCHANGED <<serverVars, user, stateVars, pollers, patched, cut, imageVars, budgetVars>>

Again(i) == timers' = [timers EXCEPT ![i] = @ + 1]

\* Mutant of PollFails: a network error ends the chain.
PollFailsForGood(c) ==
    /\ Answered(c, "get") /\ ~Succeeded(c)
    /\ calls' = Closed(c)
    /\ UNCHANGED <<serverVars, user, stateVars, pollers, timers, patched, cut, imageVars, budgetVars>>

PollFails(c) ==
    /\ Answered(c, "get") /\ ~Succeeded(c)
    /\ Again(calls[c].id)
    /\ calls' = Closed(c)
    /\ UNCHANGED <<serverVars, user, stateVars, pollers, patched, cut, imageVars, budgetVars>>

PollUnfinished(c) ==
    /\ Answered(c, "get") /\ Succeeded(c)
    /\ LET i == calls[c].id
           d == calls[c].dtos[i]
       IN /\ d.status \in Unfinished
          /\ history' = Update(i, LAMBDA r : Patched(r, d))
          /\ Again(i)
    /\ calls' = Closed(c)
    /\ UNCHANGED <<serverVars, user, active, ready, apiStatus, pollers, patched, cut,
                   imageVars, budgetVars>>

PollFailed(c) ==
    /\ Answered(c, "get") /\ Succeeded(c)
    /\ LET i == calls[c].id
           d == calls[c].dtos[i]
       IN /\ d.status = "failed"
          /\ history' = Update(i, LAMBDA r : Patched(r, d))
          /\ pollers' = pollers \ {i}
    /\ calls' = Closed(c)
    /\ UNCHANGED <<serverVars, user, active, ready, apiStatus, timers, patched, cut,
                   imageVars, budgetVars>>

-----------------------------------------------------------------------------
(* Images.                                                                 *)

NoImage(r) == [r EXCEPT !.image = "none"]

\* loadImageFor: the old object URL is revoked before the image is fetched again.
LoadImage(i, c) ==
    /\ loaders' = loaders \cup {i}
    /\ blobs' = [blobs EXCEPT ![i] = IF @ = "live" THEN "revoked" ELSE @]
    /\ calls' = [calls EXCEPT ![c] = Request("image", i, FALSE)]

\* Mutant of PollCompleted: the image shown is not cleared before its object URL is revoked.
PollCompletedKeepsImage(c) ==
    /\ Answered(c, "get") /\ Succeeded(c)
    /\ LET i == calls[c].id
           d == calls[c].dtos[i]
       IN /\ d.status = "completed"
          /\ pollers' = pollers \ {i}
          /\ history' = Update(i, LAMBDA r : Patched(r, d))
          /\ \/ i \notin loaders /\ LoadImage(i, c)
             \/ i \in loaders /\ calls' = Closed(c) /\ UNCHANGED <<loaders, blobs>>
    /\ UNCHANGED <<serverVars, user, active, ready, apiStatus, timers, patched, cut, lost, budgetVars>>

\* The poll that finds a record completed loads its image, unless a load is under way.
PollCompleted(c) ==
    /\ Answered(c, "get") /\ Succeeded(c)
    /\ LET i == calls[c].id
           d == calls[c].dtos[i]
       IN /\ d.status = "completed"
          /\ pollers' = pollers \ {i}
          /\ \/ /\ i \notin loaders
                /\ LoadImage(i, c)
                /\ history' = Update(i, LAMBDA r : NoImage(Patched(r, d)))
             \/ /\ i \in loaders
                /\ calls' = Closed(c)
                /\ history' = Update(i, LAMBDA r : Patched(r, d))
                /\ UNCHANGED <<loaders, blobs>>
    /\ UNCHANGED <<serverVars, user, active, ready, apiStatus, timers, patched, cut, lost, budgetVars>>

\* reloadImage, which the views call for a completed record they show without an image.
ReloadImage(i, c) ==
    /\ i \in Visible /\ history[i].status = "completed" /\ history[i].image # "url"
    /\ i \notin loaders /\ calls[c] = Idle
    /\ LoadImage(i, c)
    /\ history' = Update(i, NoImage)
    /\ UNCHANGED <<serverVars, user, active, ready, apiStatus, refVars, lost, budgetVars>>

\* blobUrlsRef.set drops the object URL it held for the record; it is lost if it was live.
ImageLoaded(c) ==
    /\ Answered(c, "image") /\ Succeeded(c)
    /\ LET i == calls[c].id IN
       /\ lost' = IF blobs[i] = "live" THEN lost \cup {i} ELSE lost
       /\ blobs' = [blobs EXCEPT ![i] = "live"]
       /\ history' = Update(i, LAMBDA r : [r EXCEPT !.image = "url"])
       /\ loaders' = loaders \ {i}
    /\ calls' = Closed(c)
    /\ UNCHANGED <<serverVars, user, active, ready, apiStatus, refVars, budgetVars>>

ImageFailed(c) ==
    /\ Answered(c, "image") /\ ~Succeeded(c)
    /\ history' = Update(calls[c].id, LAMBDA r : [r EXCEPT !.image = "error"])
    /\ loaders' = loaders \ {calls[c].id}
    /\ calls' = Closed(c)
    /\ UNCHANGED <<serverVars, user, active, ready, apiStatus, refVars, blobs, lost, budgetVars>>

-----------------------------------------------------------------------------
(* Login, logout and the first page.                                       *)

\* The effect of a change of user: everything is wiped, a load still under way is cancelled, and
\* the new user's records are asked for.  Image loads go on.
SwitchUser(u, c) ==
    /\ u # user /\ switches < MaxSwitches
    /\ calls[c] = Idle
    /\ user' = u
    /\ history' = Empty /\ active' = NoId
    /\ pollers' = {}
    /\ cut' = cut \cup {i \in Ids : Chained(i)}
    /\ blobs' = [i \in Ids |-> "none"]
    /\ LET cancelled == [d \in Slots |->
                IF Open(d) /\ calls[d].kind = "hydrate" THEN [calls[d] EXCEPT !.live = FALSE] ELSE calls[d]]
       IN \/ /\ u = NoUser
             /\ calls' = cancelled
             /\ ready' = TRUE /\ apiStatus' = "idle"
          \/ /\ u # NoUser
             /\ calls' = [cancelled EXCEPT ![c] = [Request("hydrate", NoId, FALSE) EXCEPT !.by = u]]
             /\ UNCHANGED <<ready, apiStatus>>
    /\ switches' = switches + 1
    /\ UNCHANGED <<serverVars, timers, patched, loaders, lost, issued, faults>>

HydrateCancelled(c) ==
    /\ Answered(c, "hydrate") /\ ~calls[c].live
    /\ calls' = Closed(c)
    /\ UNCHANGED <<serverVars, user, stateVars, refVars, imageVars, budgetVars>>

\* The configuration loaded with the page says whether any model is enabled.
Hydrated(c) ==
    /\ Answered(c, "hydrate") /\ calls[c].live /\ Succeeded(c)
    /\ history' = Load(calls[c].dtos)
    /\ apiStatus' \in {"success", "error"}
    /\ ready' = TRUE
    /\ StartPolling(UnfinishedIn(calls[c].dtos))
    /\ calls' = Closed(c)
    /\ UNCHANGED <<serverVars, user, active, patched, imageVars, budgetVars>>

HydrateFails(c) ==
    /\ Answered(c, "hydrate") /\ calls[c].live /\ ~Succeeded(c)
    /\ apiStatus' = "error" /\ ready' = TRUE
    /\ calls' = Closed(c)
    /\ UNCHANGED <<serverVars, user, history, active, refVars, imageVars, budgetVars>>

-----------------------------------------------------------------------------
(* What the user does.                                                     *)

\* A view asks for a page, of whatever filter it shows.
LoadPage(c) ==
    /\ user # NoUser /\ Issue /\ Send(c, "list", NoId, FALSE)
    /\ UNCHANGED <<serverVars, user, stateVars, refVars, imageVars>>

\* Mutant of PageLoaded: the unfinished records of the page are not polled.
PageLoadedUnpolled(c) ==
    /\ Answered(c, "list") /\ Succeeded(c)
    /\ history' = Merge(calls[c].dtos)
    /\ calls' = Closed(c)
    /\ UNCHANGED <<serverVars, user, active, ready, apiStatus, refVars, imageVars, budgetVars>>

\* The page is merged into the history of whoever is logged in by now.
PageLoaded(c) ==
    /\ Answered(c, "list") /\ Succeeded(c)
    /\ history' = Merge(calls[c].dtos)
    /\ StartPolling(UnfinishedIn(calls[c].dtos))
    /\ calls' = Closed(c)
    /\ UNCHANGED <<serverVars, user, active, ready, apiStatus, patched, imageVars, budgetVars>>

\* A call whose failure changes no record: the caller shows a message.
CallFails(c) ==
    /\ \E k \in {"list", "create", "retry"} : Answered(c, k)
    /\ ~Succeeded(c)
    /\ calls' = Closed(c)
    /\ UNCHANGED <<serverVars, user, stateVars, refVars, imageVars, budgetVars>>

Create(c) ==
    /\ user # NoUser /\ Issue /\ Send(c, "create", NoId, FALSE)
    /\ UNCHANGED <<serverVars, user, stateVars, refVars, imageVars>>

\* addRecord, and submit, which selects the new record.
Created(c) ==
    /\ Answered(c, "create") /\ Succeeded(c)
    /\ history' = Merge(calls[c].dtos)
    /\ StartPolling(DOMAIN calls[c].dtos)
    /\ active' = CHOOSE i \in Ids : i \in DOMAIN calls[c].dtos
    /\ calls' = Closed(c)
    /\ UNCHANGED <<serverVars, user, ready, apiStatus, patched, imageVars, budgetVars>>

Retry(i, c) ==
    /\ i \in Visible /\ history[i].status = "failed"
    /\ Issue /\ Send(c, "retry", i, FALSE)
    /\ UNCHANGED <<serverVars, user, stateVars, refVars, imageVars>>

\* retryRecord, and retry, which selects the record.
Retried(c) ==
    /\ Answered(c, "retry") /\ Succeeded(c)
    /\ LET i == calls[c].id IN
       /\ history' = Update(i, LAMBDA r : NoImage(Patched(r, calls[c].dtos[i])))
       /\ StartPolling({i})
       /\ active' = i
    /\ calls' = Closed(c)
    /\ UNCHANGED <<serverVars, user, ready, apiStatus, patched, imageVars, budgetVars>>

ToggleFavorite(i, c) ==
    /\ i \in Visible
    /\ Issue /\ Send(c, "update", i, ~history[i].favorite)
    /\ UNCHANGED <<serverVars, user, stateVars, refVars, imageVars>>

\* The whole DTO of the answer is applied, and no poll is started for it.
Updated(c) ==
    /\ Answered(c, "update") /\ Succeeded(c)
    /\ LET i == calls[c].id IN
       /\ history' = Update(i, LAMBDA r : Patched(r, calls[c].dtos[i]))
       /\ patched' = patched \cup {i}
    /\ calls' = Closed(c)
    /\ UNCHANGED <<serverVars, user, active, ready, apiStatus, pollers, timers, cut,
                   imageVars, budgetVars>>

\* A refused update is swallowed, and the change is shown as if it had been made.
UpdateFails(c) ==
    /\ Answered(c, "update") /\ ~Succeeded(c)
    /\ history' = Update(calls[c].id, LAMBDA r : [r EXCEPT !.favorite = calls[c].favorite])
    /\ calls' = Closed(c)
    /\ UNCHANGED <<serverVars, user, active, ready, apiStatus, refVars, imageVars, budgetVars>>

Delete(i, c) ==
    /\ i \in Visible
    /\ Issue /\ Send(c, "delete", i, FALSE)
    /\ UNCHANGED <<serverVars, user, stateVars, refVars, imageVars>>

\* The record is dropped whether or not the server deleted it.  Its object URL stays in the map: the
\* keys to revoke are those that start with "<id>:", and the map's key is "<id>".
Deleted(c) ==
    /\ Answered(c, "delete")
    /\ LET i == calls[c].id IN
       /\ history' = Drop(i)
       /\ pollers' = pollers \ {i}
       /\ cut' = cut \cup {j \in {i} : Chained(j)}
       /\ active' = IF active = i THEN NoId ELSE active
    /\ calls' = Closed(c)
    /\ UNCHANGED <<serverVars, user, ready, apiStatus, timers, patched, imageVars, budgetVars>>

-----------------------------------------------------------------------------
\* Records of earlier sessions.
InitialRow ==
    {[owner |-> NoUser, status |-> "unborn", favorite |-> FALSE]}
        \cup [owner : Accounts, status : Statuses, favorite : {FALSE}]

Init ==
    /\ rows \in {r \in [Ids -> InitialRow] : \A i, j \in Ids :
                    i < j /\ r[j].status # "unborn" => r[i].status # "unborn"}
    /\ user = NoUser
    /\ history = Empty /\ active = NoId /\ ready = TRUE /\ apiStatus = "idle"
    /\ pollers = {} /\ timers = [i \in Ids |-> 0] /\ patched = {} /\ cut = {}
    /\ loaders = {} /\ blobs = [i \in Ids |-> "none"] /\ lost = {}
    /\ calls = [c \in Slots |-> Idle]
    /\ issued = 0 /\ faults = 0 /\ switches = 0 /\ remote = 0

\* An answer is handled.
Handle(c) ==
    \/ PollFails(c) \/ PollUnfinished(c) \/ PollFailed(c) \/ PollCompleted(c)
    \/ ImageLoaded(c) \/ ImageFailed(c)
    \/ HydrateCancelled(c) \/ Hydrated(c) \/ HydrateFails(c)
    \/ PageLoaded(c) \/ CallFails(c) \/ Created(c) \/ Retried(c)
    \/ Updated(c) \/ UpdateFails(c) \/ Deleted(c)

UserStep(c) ==
    \/ LoadPage(c) \/ Create(c)
    \/ \E i \in Ids : Retry(i, c) \/ ToggleFavorite(i, c) \/ Delete(i, c) \/ ReloadImage(i, c)
    \/ \E u \in Accounts \cup {NoUser} : SwitchUser(u, c)

Next ==
    \/ \E c \in Slots : Serve(c) \/ Lose(c) \/ Handle(c) \/ UserStep(c)
    \/ \E i \in Ids : Advance(i) \/ Remote(i) \/ \E c \in Slots : Tick(i, c)

Spec == Init /\ [][Next]_vars

-----------------------------------------------------------------------------
(* Properties.                                                             *)

TypeOK ==
    /\ rows \in [Ids -> Row]
    /\ user \in Accounts \cup {NoUser}
    /\ history \in Partial(Ids, Shown)
    /\ active \in Ids \cup {NoId}
    /\ ready \in BOOLEAN /\ apiStatus \in {"idle", "success", "error"}
    /\ pollers \subseteq Ids /\ timers \in [Ids -> Nat]
    /\ patched \subseteq Ids /\ cut \subseteq Ids
    /\ loaders \subseteq Ids /\ blobs \in [Ids -> {"none", "live", "revoked"}] /\ lost \subseteq Ids
    /\ calls \in [Slots -> Call \cup {Idle}]

\* A record that is registered as polled has a tick or a request of its own: startPolling refuses a
\* registered record, so a registration that nothing stands behind would stop its polling for good.
PolledIsAlive == \A i \in pollers : Chained(i)

\* A record whose image is being loaded has exactly one request for it, and one that is not being
\* loaded has none: otherwise loadImageFor would refuse every later attempt, or two would overlap.
LoaderIsAlive ==
    \A i \in Ids :
        /\ i \in loaders <=> Loads(i) # {}
        /\ \A c, d \in Loads(i) : c = d

\* An image on the screen has an object URL that nobody has revoked.
ShownImageIsLive == \A i \in Visible : history[i].image = "url" => blobs[i] = "live"

\* Every object URL stays in the map until it is revoked: none is replaced while it is live.
NoUrlLost == lost = {}

\* A record that is shown unfinished is being polled, unless an answer to an update has patched it
\* or its poll was ended by a delete or a wipe while a tick or a request of it was under way.
UnfinishedIsPolled ==
    \A i \in Visible \ (patched \cup cut) : history[i].status \in Unfinished => i \in pollers

\* What the answer to a call is about is in the answer.
ReplyInv ==
    \A c \in Slots : Open(c) =>
        /\ calls[c].kind \in {"get", "image", "retry", "update", "delete"} => calls[c].id \in Ids
        /\ calls[c].phase = "done" =>
              /\ calls[c].kind \in {"get", "retry", "update"} => calls[c].id \in DOMAIN calls[c].dtos
              /\ calls[c].kind = "create" => DOMAIN calls[c].dtos # {}

\* A record whose poll was never cut has at most one tick or request, and is registered while it has.
OneChain ==
    \A i \in Ids \ cut :
        /\ timers[i] \in {0, 1} /\ (timers[i] = 1 => Gets(i) = {})
        /\ \A c, d \in Gets(i) : c = d
        /\ Chained(i) => i \in pollers

\* While an image is being loaded there is no object URL for it.
LoadingHasNoUrl == \A i \in loaders : blobs[i] # "live"

\* Everything that the steps of the client preserve together: types, answers, polls and images.
ClientInv ==
    /\ TypeOK /\ ReplyInv
    /\ PolledIsAlive /\ OneChain /\ UnfinishedIsPolled
    /\ LoaderIsAlive /\ LoadingHasNoUrl /\ ShownImageIsLive /\ NoUrlLost

\* The comments on the effect say that a change of user drops stale data: whatever is shown belongs
\* to who is logged in.
OnlyOwnRecords == \A i \in Visible : rows[i].owner = user
=============================================================================
