---------------------------- MODULE SettingsStore ----------------------------
(***************************************************************************)
(* The settings an admin can change while shadraw runs                     *)
(* (internal/admin/store.go): one row of the database, a copy of it in     *)
(* memory behind the mutex of Store, and the size of the worker pool that  *)
(* follows the copy.                                                       *)
(*                                                                         *)
(* The settings come in three kinds, each with an update of its own.  An   *)
(* update of the upstream holds the mutex from reading the old key to      *)
(* writing the copy.  Updates of the runtime limits and of the site write  *)
(* the row first and take the mutex for the copy only, so two of them can  *)
(* pass each other.                                                        *)
(***************************************************************************)
EXTENDS Naturals, FiniteSets

CONSTANTS
    Admins,         \* admin requests that may be in flight together
    RuntimeValues,  \* worker concurrency and per-user limits, taken as one value
    Toggles,        \* the switches of the site: registration, demo login
    Urls, Keys,     \* of the upstream; "no key" is one of Keys
    Keep,           \* what a request that omits a field gives for it
    Nobody,
    Default,        \* the settings of a new installation
    MaxUpdates,     \* bound: updates ever begun
    MaxFaults,      \* bound: database writes that fail
    MaxCrashes      \* bound: ends of the process

Sites     == [Toggles -> BOOLEAN]
Upstreams == [url : Urls, key : Keys]
Settings  == [runtime : RuntimeValues, site : Sites, upstream : Upstreams]

ASSUME StoreAssumption ==
    /\ Default \in Settings
    /\ Nobody \notin Admins
    /\ Keep \notin Keys /\ Keep \notin BOOLEAN
    /\ MaxUpdates \in Nat /\ MaxFaults \in Nat /\ MaxCrashes \in Nat

VARIABLES
    db,      \* the row of upstream_configs
    cache,   \* s.cached and s.apiKey
    pool,    \* the value that the resizer got last: p.desired of the worker pool
    mu,      \* who holds s.mu for writing across steps
    kind,    \* which update an admin's request is
    stage,   \* the step it takes next
    arg,     \* the values it writes
    given,   \* the fields that the request named
    up,
    updates, faults, crashes,
    clean,   \* history: kinds whose last update began alone, and no other began or failed since
    unsure   \* history: an upstream update has failed since the last one that did not

vars == <<db, cache, pool, mu, kind, stage, arg, given, up, updates, faults, crashes, clean, unsure>>

Kinds == {"runtime", "site", "upstream"}

Busy(k) == {a \in Admins : kind[a] = k}

Init ==
    /\ db = Default /\ cache = Default /\ pool = Default.runtime
    /\ mu = Nobody
    /\ kind = [a \in Admins |-> "none"]
    /\ stage = [a \in Admins |-> "idle"]
    /\ arg = [a \in Admins |-> Default]
    /\ given = [a \in Admins |-> {}]
    /\ up = TRUE
    /\ updates = 0 /\ faults = 0 /\ crashes = 0
    /\ clean = {"runtime", "site"} /\ unsure = FALSE

\* Request a starts an update of kind k with these values.
Begin(a, k, values, fields) ==
    /\ up /\ kind[a] = "none"
    /\ updates < MaxUpdates /\ updates' = updates + 1
    /\ kind' = [kind EXCEPT ![a] = k]
    /\ stage' = [stage EXCEPT ![a] = "db"]
    /\ arg' = [arg EXCEPT ![a] = values]
    /\ given' = [given EXCEPT ![a] = fields]
    /\ clean' = IF Busy(k) = {} THEN clean \cup {k} ELSE clean \ {k}

\* Request a is answered.
Finish(a) ==
    /\ kind' = [kind EXCEPT ![a] = "none"]
    /\ stage' = [stage EXCEPT ![a] = "idle"]
    /\ arg' = [arg EXCEPT ![a] = Default]
    /\ given' = [given EXCEPT ![a] = {}]

GoOn(a, s) == stage' = [stage EXCEPT ![a] = s] /\ UNCHANGED <<kind, arg, given>>

\* UpdateRuntimeSettings: every field is required.
BeginRuntime(a, v) ==
    /\ Begin(a, "runtime", [Default EXCEPT !.runtime = v], {})
    /\ UNCHANGED <<db, cache, pool, mu, up, faults, crashes, unsure>>

\* The handler of the site settings fills what the request omits from the copy, under the read
\* lock, and hands all of it to UpdateSiteConfig.
BeginSite(a, patch) ==
    /\ mu = Nobody
    /\ Begin(a, "site",
             [Default EXCEPT !.site = [t \in Toggles |->
                 IF patch[t] = Keep THEN cache.site[t] ELSE patch[t]]],
             {t \in Toggles : patch[t] # Keep})
    /\ UNCHANGED <<db, cache, pool, mu, up, faults, crashes, unsure>>

\* Mutant of BeginUpstream: the mutex is not held across the write.
BeginUpstreamUnlocked(a, url, key) ==
    /\ Begin(a, "upstream",
             [Default EXCEPT !.upstream = [url |-> url, key |-> IF key = Keep THEN cache.upstream.key ELSE key]],
             IF key = Keep THEN {} ELSE {"key"})
    /\ UNCHANGED <<db, cache, pool, mu, up, faults, crashes, unsure>>

\* UpdateUpstream takes the mutex first; a request without a key keeps the one of the copy.
BeginUpstream(a, url, key) ==
    /\ mu = Nobody /\ mu' = a
    /\ Begin(a, "upstream",
             [Default EXCEPT !.upstream = [url |-> url, key |-> IF key = Keep THEN cache.upstream.key ELSE key]],
             IF key = Keep THEN {} ELSE {"key"})
    /\ UNCHANGED <<db, cache, pool, up, faults, crashes, unsure>>

\* The row with the fields of a's update set.
Written(a) ==
    CASE kind[a] = "runtime"  -> [db EXCEPT !.runtime = arg[a].runtime]
      [] kind[a] = "site"     -> [db EXCEPT !.site = arg[a].site]
      [] kind[a] = "upstream" -> [db EXCEPT !.upstream = arg[a].upstream]

\* UPDATE ... WHERE id = 1.
WriteDB(a) ==
    /\ stage[a] = "db"
    /\ db' = Written(a)
    /\ GoOn(a, "cache")
    /\ UNCHANGED <<cache, pool, mu, up, updates, faults, crashes, clean, unsure>>

\* Mutant of Unlock: an early return leaves the mutex locked.
UnlockForgotten(a) == mu

\* The mutex after the update of a: the deferred Unlock of UpdateUpstream.
Unlock(a) == IF mu = a THEN Nobody ELSE mu

\* The UPDATE is reported as failed, be it applied or not: the copy is not touched.
WriteFails(a) ==
    /\ stage[a] = "db"
    /\ faults < MaxFaults /\ faults' = faults + 1
    /\ db' \in {db, Written(a)}
    /\ mu' = Unlock(a)
    /\ Finish(a)
    /\ clean' = clean \ {kind[a]}
    /\ unsure' = (unsure \/ kind[a] = "upstream")
    /\ UNCHANGED <<cache, pool, up, updates, crashes>>

\* The copy of the runtime limits, under the mutex ...
CacheRuntime(a) ==
    /\ stage[a] = "cache" /\ kind[a] = "runtime" /\ mu = Nobody
    /\ cache' = [cache EXCEPT !.runtime = arg[a].runtime]
    /\ GoOn(a, "resize")
    /\ UNCHANGED <<db, pool, mu, up, updates, faults, crashes, clean, unsure>>

\* Mutant of CallResizer: the pool is not told.
ResizerSkipped(a) ==
    /\ stage[a] = "resize"
    /\ Finish(a)
    /\ UNCHANGED <<db, cache, pool, mu, up, updates, faults, crashes, clean, unsure>>

\* ... and the call of Resize after it.
CallResizer(a) ==
    /\ stage[a] = "resize"
    /\ pool' = arg[a].runtime
    /\ Finish(a)
    /\ UNCHANGED <<db, cache, mu, up, updates, faults, crashes, clean, unsure>>

CacheSite(a) ==
    /\ stage[a] = "cache" /\ kind[a] = "site" /\ mu = Nobody
    /\ cache' = [cache EXCEPT !.site = arg[a].site]
    /\ Finish(a)
    /\ UNCHANGED <<db, pool, mu, up, updates, faults, crashes, clean, unsure>>

CacheUpstream(a) ==
    /\ stage[a] = "cache" /\ kind[a] = "upstream"
    /\ cache' = [cache EXCEPT !.upstream = arg[a].upstream]
    /\ mu' = Unlock(a)
    /\ Finish(a)
    /\ unsure' = FALSE
    /\ UNCHANGED <<db, pool, up, updates, faults, crashes, clean>>

Crash ==
    /\ up /\ crashes < MaxCrashes
    /\ up' = FALSE /\ crashes' = crashes + 1
    /\ mu' = Nobody
    /\ kind' = [a \in Admins |-> "none"]
    /\ stage' = [a \in Admins |-> "idle"]
    /\ arg' = [a \in Admins |-> Default]
    /\ given' = [a \in Admins |-> {}]
    /\ UNCHANGED <<db, cache, pool, updates, faults, clean, unsure>>

\* main: Load reads the row, and the pool starts with what it holds.
Boot ==
    /\ ~up /\ up' = TRUE
    /\ cache' = db /\ pool' = db.runtime
    /\ clean' = {"runtime", "site"} /\ unsure' = FALSE
    /\ UNCHANGED <<db, mu, kind, stage, arg, given, updates, faults, crashes>>

NewUpdate(a) ==
    \/ \E v \in RuntimeValues : BeginRuntime(a, v)
    \/ \E patch \in [Toggles -> BOOLEAN \cup {Keep}] : BeginSite(a, patch)
    \/ \E url \in Urls, key \in Keys \cup {Keep} : BeginUpstream(a, url, key)

Step(a) == WriteDB(a) \/ CacheRuntime(a) \/ CallResizer(a) \/ CacheSite(a) \/ CacheUpstream(a)

Next ==
    \/ \E a \in Admins : NewUpdate(a) \/ Step(a) \/ WriteFails(a)
    \/ Crash \/ Boot

Spec == Init /\ [][Next]_vars

\* A handler goes on.  Who waits for the mutex gets it: a sync.RWMutex hands it to the one that
\* has waited longest.
FairSpec == Spec /\ \A a \in Admins : SF_vars(Step(a))

(***************************************************************************)
(* Properties.                                                             *)
(***************************************************************************)

\* Every variable has its type.
TypeOK ==
    /\ db \in Settings /\ cache \in Settings /\ pool \in RuntimeValues
    /\ mu \in Admins \cup {Nobody}
    /\ kind \in [Admins -> Kinds \cup {"none"}]
    /\ stage \in [Admins -> {"idle", "db", "cache", "resize"}]
    /\ arg \in [Admins -> Settings]
    /\ given \in [Admins -> SUBSET (Toggles \cup {"key"})]
    /\ up \in BOOLEAN /\ unsure \in BOOLEAN
    /\ updates \in 0..MaxUpdates /\ faults \in 0..MaxFaults /\ crashes \in 0..MaxCrashes
    /\ clean \subseteq Kinds

\* Upstream updates never pass each other: whenever the mutex is free, the upstream that the
\* workers use is the one in the database, unless an update failed since.
UpstreamInStep == up /\ mu = Nobody /\ ~unsure => cache.upstream = db.upstream

\* store.go, UpdateUpstreamArgs: "nil = leave unchanged".  An upstream update without a key leaves
\* the key in the database as it is, although it writes one: it has read it under the mutex that
\* it still holds, and no failed update came between.
KeyKept ==
    [][\A a \in Admins :
        /\ kind[a] = "upstream" /\ stage[a] = "db" /\ stage'[a] = "cache"
        /\ "key" \notin given[a] /\ ~unsure
        => db'.upstream.key = db.upstream.key]_vars

\* One runtime update that meets no other leaves the database, the copy and the pool with its
\* value, whatever was there before, and so does a restart.
RuntimeInStep ==
    up /\ "runtime" \in clean /\ Busy("runtime") = {} =>
        db.runtime = cache.runtime /\ cache.runtime = pool

\* One site update that meets no other leaves the database and the copy with its switches.
SiteInStep ==
    up /\ "site" \in clean /\ Busy("site") = {} => db.site = cache.site

\* Every update is answered: whoever fails gives the mutex back.
EveryUpdateAnswered == \A a \in Admins : kind[a] # "none" ~> kind[a] = "none"

\* store.go: with the resizer "admin runtime changes apply hot".  When no runtime update is in
\* flight, the pool has the size of the copy that GET /admin/runtime shows.
PoolFollowsCache ==
    up /\ Busy("runtime") = {} => pool = cache.runtime

(***************************************************************************)
(* The inductive invariant behind the safety properties.                   *)
(***************************************************************************)

\* Which stages a kind of update has, and who holds the mutex.
ControlInv ==
    /\ \A a \in Admins :
        /\ kind[a] = "none" <=> stage[a] = "idle"
        /\ stage[a] = "resize" => kind[a] = "runtime"
        /\ kind[a] = "upstream" => mu = a
    /\ mu # Nobody => kind[mu] = "upstream"
    /\ ~up => \A a \in Admins : kind[a] = "none"

\* What an upstream update knows at each stage.
UpstreamInv ==
    up => /\ mu = Nobody /\ ~unsure => cache.upstream = db.upstream
          /\ \A a \in Admins : kind[a] = "upstream" =>
                /\ stage[a] = "db" /\ ~unsure => cache.upstream = db.upstream
                /\ stage[a] = "db" /\ "key" \notin given[a]
                      => arg[a].upstream.key = cache.upstream.key
                /\ stage[a] = "cache" => db.upstream = arg[a].upstream

\* What a runtime update that meets no other knows at each stage.
RuntimeAlone ==
    up /\ "runtime" \in clean =>
        /\ \A a, b \in Busy("runtime") : a = b
        /\ \A a \in Busy("runtime") :
              /\ stage[a] \in {"cache", "resize"} => db.runtime = arg[a].runtime
              /\ stage[a] = "resize" => cache.runtime = arg[a].runtime

\* What a site update that meets no other knows at each stage.
SiteAlone ==
    up /\ "site" \in clean =>
        /\ \A a, b \in Busy("site") : a = b
        /\ \A a \in Busy("site") : stage[a] = "cache" => db.site = arg[a].site

\* Everything that the steps of the store preserve together.
StoreInv ==
    /\ TypeOK /\ ControlInv
    /\ UpstreamInv
    /\ RuntimeAlone /\ RuntimeInStep
    /\ SiteAlone /\ SiteInStep
==============================================================================
