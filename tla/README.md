# A formal model of shadraw

shadraw is a web application that generates images: a Go server (`src/cmd/server`, `src/internal`)
with PostgreSQL and a blob store behind it, and a React client (`src/web`). This directory holds
TLA+ modules that model the parts of it where interleavings, crashes and order matter, TLC
configurations that check them, and proofs for TLAPS.

    tlc -config RecordQueue.cfg MCRecordQueue.tla           # one run
    tlapm RecordQueueProofs.tla                             # the proofs about one module

`PROJECT.json` lists the components, the runs, the hazards with the properties that are about them,
the source lines of every definition, the theorems, and for each property a change of the model, as
a bug might make it, that breaks it.

## 1. Inventory

### The server

**Generation queue** (`internal/record/repo.go`, `handler.go`, `internal/worker/pool.go:157-206`).
State: the rows of `records` (status, owner, image path), the objects in the blob store, the locks
of open transactions. Operations: create, retry, delete, delete by an admin (requests); claim,
generate, upload, store, mark failed (workers); sweep (start). Hard: a claim, a create and a retry
are transactions of several statements under READ COMMITTED, which count rows that others change; a
job takes minutes between two of its statements, in which its record may be deleted or the process
may end; updates at the end of a job go by id alone. Right when: both per-user limits hold, a job
belongs to one worker, a completed record has its object, nothing stays running without a worker,
everything that was accepted gets a result.

**Worker pool** (`internal/worker/pool.go`). State: `desired`, `current`, the WaitGroup, `stopCh`,
`wake`, the goroutines. Operations: Resize, Wake, Stop, the loop of a worker. Hard: a worker reads
both counters in one critical section and acts on them in another; Resize and Stop come at any time
from HTTP handlers and from `main`. Right when: the counters tell the truth, no more jobs run than
ever allowed, a stopped pool is empty and stays so, its size follows its setting.

**Settings store** (`internal/admin/store.go`, `handler.go`). State: the row of `upstream_configs`,
its copy in memory, the size it gave to the pool. Operations: Load and the updates of upstream,
runtime limits and site. Hard: three updates with three ways of ordering row, copy and mutex; a
statement that fails after it was applied. Right when: row, copy and pool agree once updates are
over, and an update changes only what it names.

**Authentication and sessions** (`internal/auth`). State: the users, their password hashes, the
refresh tokens. Operations: register, login, refresh, logout, change and reset of the password,
disable. Hard: every operation is several statements without a transaction. Right when: a session
that was ended stays ended, and one that was not goes on.

**Small parts.** Avatars (`internal/auth/handler.go`), the rate limiter
(`internal/httpx/ratelimit.go`), the upstream client and its parser (`internal/upstream`),
`cmd/migrate-blobs`, configuration, encryption, static files: see section 7.

### The web client (`web/src`)

**API and session** (`lib/api/client.ts`, `auth-refresh.ts`, `token-storage.ts`,
`providers/auth-provider.tsx`). State: the access token and the refresh under way of each tab, the
cookie all tabs share, the user and the flags of the provider. Hard: calls that fail with 401
together share one refresh of a token that rotates; tabs share the cookie and not the refresh. Right
when: only a session that is over is refused, and every call ends.

**Records** (`providers/app-state-provider.tsx`). State: `history`, `activeHistoryId`, the refs of
polls, image loads and object URLs. Operations: hydrate on a change of user, load a page, create,
retry, update, delete, reload an image, one poll per unfinished record. Hard: all of them write one
list as their answers arrive, in any order, after deletes and logouts. Right when: what is
unfinished is polled, by one chain; what is shown has a live URL and none is lost.

**Lists that grow** (`components/use-paged-records.ts`, `infinite-load-sentinel.tsx`,
`components/gallery/gallery-view.tsx`). State: pages, request ids, the sentinel's observer, and in
the gallery images and their measures. Hard: answers to superseded requests; records that come, go,
and begin or cease to match between two pages, while the history holds older copies of them; an
observer that reports changes only. Right when: what matches on the server is shown, as far as the
client can know it, and nothing waits for ever.

**Views with state of their own**: the library panel, the workbench with its control panels, the
preview stage, the lightbox, the forms of an account, the settings and lists of the admin console.
Hard: an `await` in a handler goes on with what the closure saw; a view is left and entered again
while its calls go on; flags shared by several calls.

### How they meet

A handler of the queue wakes the pool after a create or retry; a worker reads the per-user cap and
the upstream from the settings store for each job; an update of the runtime limits calls
`Pool.Resize`; `main` loads the settings, sweeps, starts the pool, and stops it before it stops the
HTTP server. Database and blob store are the only state that outlives it. The client learns what the
queue did only by polling; its provider learns from the session who the user is; its views read the
provider and call it.

## 2. The modules

| module | models | composed with |
|---|---|---|
| `GenerationQueue` | what users are promised: life of a record, both limits | implemented by `RecordQueue` |
| `RecordQueue` | rows, locks, transactions, workers, crashes | `MCRecordQueue`, `RecordQueueProofs` |
| `WorkerPool` | the goroutines and their counters | `MCWorkerPool`, `WorkerPoolProofs` |
| `SettingsStore` | row, copy, mutex, the size of the pool | `MCSettingsStore`, `SettingsStoreProofs` |
| `AuthSession` | users and refresh tokens, by statement | `MCAuthSession`, `AuthSessionProofs` |
| `RecordClient` | the provider of the records | `Client`, `MCRecordClient`, `MCLiveness`, `RecordClientProofs` |
| `BrowserSession` | tokens, the shared refresh, the cookie, `AuthProvider` | `Client`, `MCLiveness` |
| `Client` | the last two side by side | `MCClient`, `ClientProofs` |
| `PagedList` | what a list that grows promises | implemented by the next two |
| `PagedRecords` | `usePagedRecords` and the sentinel | `Lists` |
| `GalleryView` | the gallery: pages, images, measures, dialogs | `Lists` |
| `Listing` | sorting by id and filtering, defined by counting | used by the two and by `AdminLists` |
| `Lists` | the two lists side by side | `MCLiveness`, `ListsProofs` |
| `LibraryPanel`, `Workbench`, `PreviewStage`, `Lightbox`, `AccountForms`, `AdminSettings`, `AdminLists` | one view each | `Views`; `AdminSettings` also by itself |
| `Views` | the views side by side | `MCViews`, `ViewsProofs` |

`Client`, `Lists` and `Views` put modules that share no state side by side: `part` names the one
that moves, the others stay where they begin (`SumInit` and `SumNext`, `ListsInit` and `ListsNext`,
`ViewsInit` and `ViewsNext`). Their reachable states are those of the parts, so that each part is
explored in full and by itself; the product of the parts, which would show nothing more, is not
built. The properties of the parts have names there, which the runs check and the theorems are
about. `MCViews` begins with fewer values for the parts that do not move, and `MCLiveness` adds
fairness and two parts of the client; neither changes a step.

## 3. The modules and the code

Every definition that stands for code is listed with its lines under `map` in `PROJECT.json`. On the
server a step is one SQL statement, one critical section, or one call to the outside (upload,
generation); what Go does between two of these touches nothing that others see. In the client a step
is what JavaScript runs without an `await`: an event handler up to its call, the continuation after
an answer, a timer or an effect. A call is therefore three steps: sent, served, answered. Where a
ref or a state setter with a function is written, the step sees the newest value; where a closure's
own variable is read after an `await`, the call carries it (`Job.filter`, `Call.body`).

### RecordQueue, GenerationQueue

`status`, `owner`, `imagePath` are columns of `records`, `nextId` its sequence, `objects` the blob
store: record and file type make the key of an object. A worker runs `BeginClaim`, `ScanPick`
(`SELECT ... FOR UPDATE SKIP LOCKED`), `TryLock` (`pg_try_advisory_xact_lock`), `Recount`, `Claim`
(the `UPDATE` and the commit), then `Fetch`, `Generate`, `Put`, `Store` or `MarkFailed`. A create
and a retry take the advisory lock and wait for it, count, and write. A worker that does not get the
advisory lock excludes that user and scans again, still holding the lock on the row; these row locks
are `rowLocks`. The end of a transaction releases everything (`EndClaim`, `Answer`). `Crash` ends
the process at any step, `Boot` is the sweep of the next start, which `main` runs before the pool.
Faults: any statement of a claim, a job or a request may fail (`ClaimError`, `JobError`,
`RequestError`), and so may generation, upload and sweep.

Two simplifications: the transaction of a failed statement is rolled back whole (a commit that was
applied and reported as failed is not modelled), and the settings that requests and workers read are
one step old at most when they are read, but may change right after.

`GenerationQueue` is what users are promised: the life cycle of a record and the two limits. The
refinement is by name: `status` and `owner` mean the same in both, the rest of `RecordQueue` is
hidden. All statements that do not write a status are stutters.

### WorkerPool

`desired`, `current`, `closed`, `wake`, `wg` are the fields of `Pool`. `pc[g]` is where a goroutine
is in `run()`: "check" computes the excess under the mutex, "poll" is the `select` with a default,
"tick" is `tickOnce`, "idle" is the waiting `select`, "leave" and "done" are the two deferred calls.
A goroutine acts on what it saw in "check" after it has given the mutex back. `peak` is a history
variable, the largest `desired` so far.

### SettingsStore

`db` is the row of `upstream_configs`, `cache` its copy in memory, `pool` what the resizer was
called with last. The three updates differ as in the code: the upstream update holds `mu` from the
read of the old key to the write of the copy; the runtime update writes the row without it and then
calls the resizer without it; the site update fills omitted switches from a copy read earlier. A
write may fail with or without having been applied (`WriteFails`, `unsure`). `clean` is history: the
kinds of settings whose updates have not overlapped so far.

### AuthSession

`password`, `disabled`, `mustChange` are columns of `users`; `owner`, `live`, `expired` are the rows
of `refresh_tokens`. A password is the number of times it was set, so old and new differ. `pc[c]` is
the next statement of a request that has passed the checks before it: login is the check, then
`Issue`; refresh is `BeginRefresh` (find and check the row), `FindUser`, `Revoke`, `Issue`; a change
or reset is `UpdatePassword`, `RevokeAll`. A request that is refused at its first check writes
nothing and is left out. History: `session` and `basis` give the login a token goes back to and the
password it was made with; `ended` are sessions that something ended on purpose or by a failure;
`settled` is the newest password whose change has revoked all tokens; `late` and `overtaken` are
requests such a revocation came in the middle of, and the tokens they issued.

### RecordClient

`history`, `active`, `ready`, `apiStatus` are state of the provider; `pollers` is `pollersRef`,
`loaders` is `loadersRef`, `blobs` is `blobUrlsRef`. What the browser holds for them is `timers`
(ticks of `setTimeout`), `calls` and `lost` (object URLs that no ref names any more). The rows of
the server change as the queue and other devices change them. `StartPolling` skips what is
registered; `Tick` sends a request or finds that the poll was given up; the four answers of a poll
are `PollFails`, `PollUnfinished`, `PollFailed`, `PollCompleted`. `LoadImage` revokes the old URL
and asks for the image. `SwitchUser` is the effect of a change of user: it wipes everything but
calls in flight and image loads. Ghosts: `patched` are records an answer to an update has written
(it may show them as unfinished and no poll is started for it), `cut` those whose poll was ended
while a tick or request of it was under way (a later poll then runs beside that chain until one of
them ends both).

### BrowserSession

`access`, `refreshing` are the module variables of a tab, `cookie` is the browser's, `who`,
`initializing`, `form` are the provider's, `valid` are the tokens the server accepts. A refresh is
sent with the cookie of that moment (`Ask`), rotates the token when it is served and sets the cookie
when it is answered. `Mount` is a load or reload of the page. `over` is a ghost: the session was
ended on purpose, or a rotation was lost, or two tabs refreshed at a time (the code does not prevent
this, and the second one is refused). `AuthSession` models the same refresh statement by statement;
there two that overlap may also both succeed, which loses nothing.

### PagedList, PagedRecords, GalleryView

`PagedList` is the promise: records of the query that is asked for and of no other, each once, and
growing at the end, until the query is asked anew. Both lists implement it.

`PagedRecords`. On the server a record matches a set of queries (`profile`), which changes while it
exists: it is finished, retried, made a favourite or moved (`Turn`), here or elsewhere; it is created
(`Appear`) and deleted (`Vanish`). `Count` and `Find` are the two statements of `List`. The history
holds copies (`known`, `copy`) that lag behind: a page is merged into it even if the hook does not
want it any more (`Merge`), answers of other calls bring records as they were (`Learn`), and
`deleteRecord` drops one that the server may still have (`Forget`). The hook lists ids and filters
the copies by itself (`Shown`); its requests carry whether they are the one `requestIdRef` names.
`inView` and `notice` are the sentinel and what its observer has still to report: an observer that is
new reports where it finds the sentinel, and after that only changes. The sentinel is disabled while
a later page is loaded, and not during the first (`Armed`). Whether a page leaves it in view is open
after every page. Of the user's scrolling only the way down is modelled, which brings it into view;
it goes out of it when a page comes or the query changes. Ghosts: `ever` has what ever matched,
`entered` what came to match since the query was asked, `left` that one ceased to, `torn` that one
came between count and rows of the last page.

`GalleryView` implements `PagedList` by the community's records while that side is shown; it also
loads images by itself, keeps their URLs in a ref until it is left, and measures each image once it
is there (`Relist` is the layout after each change of the cards). The server's list is ordered by
publication, the latest first, so that a record published again moves to the front (`Saved`,
`Elsewhere`).

### The views

`LibraryPanel`: handlers are `jobs` that carry the filter of the moment of the click; `creating`,
`editing` and the three targets are its inputs and dialogs. Ghosts `reselected` and `raced` name
what the user chose or moved while the same project was being deleted. `Workbench`: one draft under
two panels, the second in a sheet that is mounted anew; `batches` are files that are being read.
`PreviewStage`: the stage by its key, the bar of `GeneratingState` computed from two clocks; time is
counted in steps of 20 seconds. `Lightbox`: the record, its neighbours, the zoom and the pan in one
dimension; `due` is a measurement the page still has to make. `AccountForms`: fields by class of
value (empty, wrong, own, other, demo), which the user may fill and clear, and what ends the session.
Ghosts: `typed` are the fields that hold what the user typed, `refilled` those of the login that the
configuration has filled in or emptied since the last validation. A user who types the demo login by
hand is left out. `AdminSettings`: calls carry the closure's key; a tab that is left forgets its
calls. `AdminLists`: the users or the records card with debounce, pages and pagination.

Left out everywhere: wording, toasts, layout, animation. A call that fails is one outcome, whatever
its status code, unless the code tells them apart.

## 4. What the runs check

| run | instance | what it shows |
|---|---|---|
| `queue` | 2 users, 2 workers, 2 requests at once and 3 in all, 3 records, caps 1 and 2 that change, limit 2, 1 failing call, 1 crash | `ExclusiveJob`, `CompletedIsServable`, `RunningIsWorkedOn`, `ClaimWithinCapRead`, `AdmitWithinLimitRead`, and the refinement `ImplementsQueue` |
| `queue_live` | 1 user, 2 workers, 3 requests, 2 records, 2 file types, 1 crash, no faults | `EveryRecordSettles`, `EveryRequestAnswered`, and no deadlock |
| `pool` | 4 goroutines, ceiling 2, targets -1 to 3, 3 resizes | `PoolInv`, `BusyWithinPeak`, `NoWorkAfterStop`, `SurplusLeaves`, `StopDrains` |
| `pool_short` | 3 goroutines, 2 resizes | counterexample to `NeverShort` |
| `settings` | 2 admins, 4 updates, 1 failing write, 1 crash | `StoreInv`, `UpstreamInStep`, `KeyKept`, `EveryUpdateAnswered` |
| `settings_pool` | 2 admins, 2 updates | counterexample to `PoolFollowsCache` |
| `session` | 2 users, 2 requests at once and 5 in all, 3 tokens, 2 changes, 1 fault, 1 crash | `SessionKept`, `PasswordEndsSessions` |
| `client_core` | records: 1 record, 2 accounts, 2 calls at once, 2 by the user, 2 logins or logouts, 1 change on another device; session: 2 tabs, 2 calls at once, 3 tokens | `ClientInv`, `UnfinishedIsPolled`, `ShownImageIsLive`; `SessionInv`, `RefusedOnlyWhenOver` |
| `client_views` | library: 1 record, 2 projects, 2 calls; workbench: 2 batches, 2 submissions, 2 sheets or links, 2 references; stage: 2 records, clocks apart by 2 steps either way, 4 steps of time, 2 clicks; lightbox: 2 images of 8 and 32, viewports of 8 and 16; account: 4 edits, 3 submissions, 1 late configuration; lists: 13 rows, pages of 2, 4 clicks, 1 failure or deletion elsewhere; settings: 4 clicks, 1 failure | `ProjectsExist`, `DraftIsValid`, `LinkOpensOnce`, `PanWithinLimits`, `ProgressNeverFalls`, `FormIsCurrent`, `OneAttempt`, `MarkedIsUnderWay`, `PaginationIsTrue`, `BusyWhileCalling` |
| `client_live` | records: 1 record, 1 account, 1 call, 1 lost call, 1 login; session: 1 tab, 1 call, 2 tokens, 1 network error or reload; hook: 2 queries, 3 records, of which 2 exist at first, pages of 1, 1 change of the query, 1 turn (a record that changes or goes, an outdated copy, or a failure); gallery: 2 queries, 3 records, of which 2 are public at first, 2 moves, 1 change elsewhere | `NothingWaitsInVain`, `AllShown`, `RecordsPaged`, `CommunityPaged`, `EveryWaitEnds`, `ListsSettle` |
| `client_own` | 1 record, 2 accounts, 3 calls by the user | counterexample to `OnlyOwnRecords` |
| `admin_mask` | the upstream card, 5 clicks | counterexample to `MaskNeverStored` |

**The bounds.** Two workers or requests are what a race needs; the code has no step that waits for
three. In the queue, two users tell a per-user lock from a global one, and three records fill one
user's limit beside another's; caps of 1 and 2 let the setting shrink below what is in use. Four
goroutines are two more than the ceiling: surplus ones and new ones live together. Four updates let
two overlapping ones be followed by two others. Three tokens are a login and two rotations, of one
token or in a row; five requests are enough for register, two refreshes of one token, and a change.

In the client, records do not interact but through the order of their answers, so one record with
two calls in flight has every race of the provider: poll against retry, delete or page load, image
against poll, each of them against a logout and the login of another account. A lost call needs a
state of its own only for polls and hydration, and `client_live` has it. Two tabs are what a cookie
is shared by. Pages of one record make every record a page boundary; three of them leave a page
before, at and after the one that moves. A handler that awaits needs one other call to be overtaken
by, and two projects are one that is deleted and one that is not. In the hook, a record that appears
costs no turn, so that one turn meets creations and a change of the query in any order. Two rows to a
page and four clicks let two operations of the admin overlap, and the dialog of one row be open while
that of another is under way; seven pages give the pagination both ellipses at once, on the fourth.
Four clicks let the three calls of the upstream card be under way together. Three submissions are a
login and two changes of the password. The only records that others delete under the admin are those
in `Leaving`.

Every passing run reaches its bounds. `CHECK_DEADLOCK FALSE` stands where the environment is bounded
and stops, and where a pool that was stopped has nothing left to do; `queue` and `queue_live` check
for deadlock, since a service there always has a worker that looks for records. Symmetry is used
where identities do not matter and in no run that checks liveness. The bounds are constants whose
comments begin with "bound".

**Fairness.** Queue: each worker and each request takes its next step (WF), since goroutines are
scheduled and every context has a deadline; the steps that wait for a lock are strongly fair, since
PostgreSQL queues those who wait; a service that ended is started again (WF on `Boot`, the
`Restart=on-failure` of `deploy/shadraw-api.service`). Nobody has to send a request. Pool: WF on
each goroutine; a tick ends because its context does after six minutes, and the waiting `select`
because of its backoff. Settings: SF on each step of an update, since a Go mutex passes to whoever
has waited too long. Neither `StopReturns` nor anything of the environment is fair.

Client: WF on serving a call and on handling its answer (the network answers or fails, the event
loop goes on), on the queue finishing a record (`queue_live` shows it), on the end of a refresh
token that no tab holds any more, on a notice of the observer and on the end of an image load, which
are the browser's. `ListsSettle` is a promise to a user who scrolls on, hence WF on `Scroll`. The
timer of a poll is strongly fair: it fires in the code whatever happens, but in the model it takes
one of a bounded number of slots, which is not always free. Nothing the user, another device or a
fault does is fair. In `MCLiveness` the n-th fair action is that of whichever part moves, as a part
never changes into another.

### What the counterexamples mean

- `pool_short`: `current` is decremented after the excess was seen, in another critical section.
  After a reduction by one, several workers see the same excess and all leave; the pool stays short,
  or empty, until the next `Resize`.
- `settings_pool`: of two runtime updates the one that wins in the copy may lose in the pool. For
  the same reason copy and row may disagree after two overlapping updates, until the next one or a
  restart: what `StoreInv` says of runtime and site settings is about updates that meet no other.
- `client_own`: a page that was asked for before a logout is merged into the history of whoever has
  logged in when it arrives. The effect that hydrates guards against this with `cancelled`;
  `loadRecordsPage` has no such guard. The record is shown to the other user of the same browser
  until the next reload.
- `admin_mask`: an upstream card is saved with a new key and reset before the save is answered. When
  the reset is answered the field shows the mask; when the save is, the card remembers the typed key
  as "unchanged". The field differs from that, so the next save sends the mask as the key.

## 5. What is proved

Every invariant and every action property that a run checks, and all three refinements, are theorems
of `RecordQueueProofs`, `WorkerPoolProofs`, `SettingsStoreProofs`, `AuthSessionProofs`,
`RecordClientProofs`, `ClientProofs`, `ListsProofs` and `ViewsProofs`, for every value of the
constants that the assumptions allow: finite or infinite sets of users, requests, records, tabs and
calls in flight, and any bounds. The assumptions say that names of nothing are not names of
something, that sizes and ids are numbers, and that what a server lists is finite. Hardly any
property is inductive on its own; each rests on an inductive invariant:

- **Queue**, `IndInv`. That a limit holds when a row is written needs that what was counted is still
  true (`CountInv`), hence that whoever counts or writes holds the user's advisory lock (`LockInv`).
  That a job stays with its worker (`ExclusiveJob`) needs that a locked row stays waiting and that
  two workers lock different rows (`WorkerInv`). That a completed record has its object needs
  `ImageInv`, which deletes threaten: a delete removes an object only when its row is gone
  (`RequestInv`). From these follow both limits (`CapTheorem`, `LimitTheorem`), `ExclusiveJob`,
  `CompletedIsServable`, `ClaimWithinCapRead`, `AdmitWithinLimitRead`, and `RefinementTheorem`:
  `Spec` implies `GenerationQueue`'s `Spec`. The refinement is by name: `status` and `owner` mean
  the same in both. `RunningIsWorkedOn` is inductive on top of `IndInv`: while nothing fails, only a
  claim makes a record running, and its worker lets go of it only with the record settled or gone.
- **Pool**, `PoolInv`: the counters are exact, neither they nor `desired` pass `peak`, and after a
  successful `Stop` every goroutine is before its look at `stopCh`.
- **Settings**, `StoreInv`: what an update knows at each stage (`UpstreamInv`, from the mutex;
  `RuntimeAlone`, `SiteAlone`, from having met no other).
- **Sessions**, `AuthInv`: `SessionKept` is nearly inductive: the lemma `Prolonged` says what a step
  other than `Issue` owes it. `PasswordEndsSessions` needs that a request which still carries an old
  password was marked late (`LateKnown`), and that no revocation is ahead of the password in the row
  (`PasswordsKnown`).
- **Client**, `ClientInv`. `UnfinishedIsPolled` needs that whoever is registered has a tick or a
  request (`PolledIsAlive`: `startPolling` refuses a registered record, so a registration with
  nothing behind it would be for ever), and that this chain is the only one (`OneChain`: the answer
  of a second one would unregister the record while the first has seen it unfinished).
  `ShownImageIsLive` needs that one load at a time is under way (`LoaderIsAlive`) and that while it
  is, no URL of the record is live (`LoadingHasNoUrl`), which gives `NoUrlLost` too. `ReplyInv` says
  that an answer is about what was asked. The proof goes action by action in three layers: types
  (`TypeStep`), polls (`PollStep`) and images (`ImageStep`).

- **Session**, `SessionInv`, which is inductive: that a refresh is refused only when the session is
  over needs that as long as it is not, one tab at a time refreshes, with a token that is accepted
  (`CookieIsLive`); that its calls go on needs that whoever waits has a refresh to wait for
  (`WaitersHaveRefresh`) and that no call is sent a third time.
- **Lists**, `PagInv` and `GalInv`. That what is loading ends (`NothingWaitsInVain`) needs that there
  is at most one request that still counts, exactly while the flag is up, for the query and the page
  that are next (`PagWaits`, `GalWaits`). `AllShown` needs `PagCovers`: as long as no record that
  matched has ceased to (`left`), what is listed matches and is known, and after p pages a record
  that matches is listed, or came to match since the query was asked (`entered`), or has so many
  others before it that it is still to come; the last holds only while there are pages left, or if a
  record came after the last count (`torn`). The same holds of an answer that is on its way, together
  with what is listed, and a count that is not torn has room for all that match. A creation or a
  record that begins to match only moves others down, to where they are still to come; one that
  ceases to match moves them up, past the page that is next. Both
  refinements of `PagedList` follow from the invariant and from the lemmas on `Listing`: a page in
  descending order has no record twice, and appending what is new keeps it so. In the gallery,
  `GalImages` says which URLs are live, after the page is left too.
- **Views**, `ViewsInv`, a conjunction of one invariant per view. The library's filter survives a
  deletion because the answer has seen the filter it clears, or that filter was chosen since
  (`LibFilter`); the draft stays valid because a patch of the other parameters leaves the size alone
  and every reader of files counts again (`BenDraft`). The pan stays in its limits because every
  change of zoom, viewport or image clamps it again or leaves a measurement to be made (`BoxPan`).
  `ProgressNeverFalls` is an action property: the time that was read lies in the past, and what the
  bar counts from changes with the status only (`StaTimes`). A form's errors are of its own values,
  on the login and on the registration, because it is emptied whenever it is mounted, an edit that
  validates nothing changes a field that was not left, and the values that the configuration changes
  are excepted until the next validation (`refilled`, `AccForm`). `BusyWhileCalling` needs that the
  calls of the card on the screen are at most one per flag (`SetBusy`), `MarkedIsUnderWay` that the
  users card opens only dialogs that mark (`LstMarks`). `PaginationIsTrue` is a fact about
  `visiblePages` for every number of pages (the lemma `VisiblePages`), and needs of the card only
  that its total and its page are numbers (`LstPages`).

`OneAttempt` was found to be false without its condition when the proof was tried, in an instance
larger than the one `client_views` explores: the attempts to enter, and the changes of the password
in the settings and the logout of the header, share one status. A logout that was asked for twice,
or a change that was sent from a section left since: the first answer ends the session, the second
one comes during the next attempt to log in and takes the status off it, and a second attempt can be
started while the first is under way (five submissions; `client_views` makes three). The ghost
`crossed` says that this has happened; the theorem is that nothing else lets two attempts overlap.

TLC checks `PoolInv`, `StoreInv`, `ClientInv`, `SessionInv` and the properties that follow from the
other invariants on the runs above. Only model-checked: liveness (`EveryRecordSettles`,
`EveryRequestAnswered`, `SurplusLeaves`, `StopDrains`, `EveryUpdateAnswered`, `EveryWaitEnds`,
`ListsSettle`), since TLAPS does not reason about fairness and `ENABLED`. What a run finds violated
is not proved either way. `Listing` says by counting what the community modules say by recursion,
and `PagedRecords`, `GalleryView` and `AdminLists` use it for that reason alone: what a recursive
definition computes for every input needs an induction that these provers do not do.

## 6. What the models show without a property

The code makes no promise about these, or it is a matter of taste which of them matter.

On the server:

- `ClaimWaiting` does not always take the oldest record, as its comment says (`repo.go:375`): the
  row lock that `SKIP LOCKED` respects comes before the advisory lock, so a second worker may pass
  the first one with a newer record of the same user. The limits hold all the same.
- A failed `MarkFailed` or `Store` leaves its record running, and counted, until the next restart
  sweeps it; this includes a job whose own context has run out, since `MarkFailed` uses that
  context.
- Objects that no row names are never removed: one that was put when its record had been deleted
  meanwhile, one left by a crash between `Put` and `Store` when the second try yields another file
  type, and those of records that an admin deletes.
- A site update that names one switch writes back the others as it read them before
  (`internal/admin/handler.go:193`), and so may undo another admin's change.
- A login or refresh in flight while a password is changed issues a token that the revocation does
  not see (`service.go:207`; `docs/api.md:246` says that all sessions end). `PasswordEndsSessions`
  says that this is the only way around it.
- Two refreshes with one token both succeed if neither has revoked it when the other looks: one
  login then has two tokens. `SessionKept` allows it.
- A change that had verified the old password before an admin's reset may write after it, and clears
  `must_change_password` again.
- `wg.Add` during the return of `wg.Wait` makes Go's `WaitGroup` panic; `Resize` after `Stop` could
  meet it. The model lets the wait return in one step.
- Access tokens (15 minutes) are not revoked by anything; only `disabled` stops them.

In the client:

- Records: a failed update is shown as if it had been made, until the record is read again; an
  update that answers with an unfinished record starts no poll (`patched`); a deleted record comes
  back when an older list answers after it.
- Lists, end: the sentinel is observed while the first page is loaded, and its notice is spent by
  then. If that page fails, or does not push it out of view, the observer stays silent and the second
  page is never asked for, unless the user scrolls up and down again or changes the query
  (`Stranded`, which `ListsSettle` excepts). A page of 24 or 30 records fills most windows; nothing
  in the code sees to it. A later page that fails or is short re-arms the sentinel.
- Lists, content: an older record that begins to match (it is finished, retried, made a favourite or
  moved) after its page was loaded is known and matches, and is not shown until the query is asked
  anew, since only records newer than the first one listed are put in front
  (`use-paged-records.ts:147-155`). A record that ceases to match or is deleted between two pages
  moves the others up and so hides one (`left`). Count and rows are two statements: a record that
  comes between them may push another past the last page (`torn`). An outdated copy in the history
  hides a record that matches, or shows one that does not; one that came to match elsewhere is not in
  the history at all. `AllShown` excepts these and nothing else (`NotSeen`). The client compares
  `createdAt` before the id, the server sorts by id; the model takes one order for both.
- Library and workbench: dialogs keep the record as it was when they were opened, and an answer
  closes the dialog of another record; Enter followed by blur commits a rename twice; what is typed
  during a submission is wiped by its answer; a sheet that is opened again has forgotten that it is
  submitting.
- Stage, lightbox and gallery: the bar falls back when a restart of the server requeues the record;
  a neighbour reached with the arrows whose image is not loaded shows a skeleton until something
  loads it; a late answer of a publication closes the dialog of another record; an image of the
  community that arrives after the page was left keeps its URL.
- Forms: the answer of an avatar upload carries the name it was sent with and undoes a rename; the
  answer of a profile change that comes after a logout sets a user again; the error of a demo login
  shows on a form that was opened since. A field of the login that was left empty keeps its error
  when the configuration fills it in, and one that held the demo login shows none when the
  configuration empties it, since that effect does not validate (`login-form.tsx:73-81`); the next
  validation puts it right (`refilled`). The effect fills in a field that the user has cleared.
- Admin: when the settings fail to load, a save sends the defaults the card shows; two commits of a
  slider are stored in the order of arrival; a title typed during a save is overwritten by its
  answer; stale lists bring deleted rows back, and a page may be beyond the last after deletions.

## 7. Not modelled

- **Avatars** on the server: two uploads of a user read the same old path, and the object of the one
  that is overwritten is not removed. One row and one object: there is no further state.
- **Rate limiter**: a counter per key in a fixed window behind one mutex. Around the end of a window
  two full bursts may follow each other, by design.
- **Upstream client**: one request and the parser of its stream, a function over its events. The
  queue sees its result, an image or an error.
- **Partial updates of a record** (`handler.go:225`): an update applies its fields in up to three
  statements. The client shows what it reads afterwards.
- **Projects on the server**: a project that is deleted under a record that moves into it is left to
  the foreign key.
- **migrate-blobs**: copies objects in order and removes none; started again, it copies them again.
- **Logs and statistics**: a table over `usePagedRecords`, which `PagedRecords` models, and figures
  that are read every 30 seconds.
- Configuration, encryption of the key, HTTP helpers, migrations, static files, deployment, themes
  and ui components, and the parts of `lib/db` and the scheduler that nothing uses: pure I/O, pure
  functions, or no state. An upload to the blob store is whole or failed; the temporary file and its
  rename are not modelled.

What could come next: the role of a user, which an admin may change while sessions go on, the objects
of avatars, and the three statements of an update of a record.
