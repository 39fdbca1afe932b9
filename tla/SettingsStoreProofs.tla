------------------------- MODULE SettingsStoreProofs -------------------------
(***************************************************************************)
(* Proofs about SettingsStore, for any admins and values: upstream updates *)
(* never leave the copy behind the row, and a runtime or site update that  *)
(* meets no other leaves row, copy and pool in step.                       *)
(***************************************************************************)
EXTENDS SettingsStore, TLAPS

\* The initial state.
LEMMA StoreInit == Init => StoreInv
<1> SUFFICES ASSUME Init PROVE StoreInv
  OBVIOUS
<1>1. up \in BOOLEAN /\ unsure \in BOOLEAN
  BY Zenon DEF Init
<1>2. TypeOK
  BY <1>1, StoreAssumption DEF StoreAssumption, Init, TypeOK, Kinds, Settings
<1>3. ControlInv /\ UpstreamInv /\ RuntimeAlone /\ SiteAlone /\ RuntimeInStep /\ SiteInStep
  BY StoreAssumption
  DEF StoreAssumption, Init, ControlInv, UpstreamInv, RuntimeAlone, SiteAlone, RuntimeInStep, SiteInStep, Busy
<1> QED
  BY <1>2, <1>3 DEF StoreInv

\* A row stays a row when one kind of settings in it is set.
LEMMA WrittenType ==
  ASSUME TypeOK, NEW a \in Admins, kind[a] \in Kinds
  PROVE  /\ Written(a) \in Settings
         /\ kind[a] = "runtime" => Written(a) = [db EXCEPT !.runtime = arg[a].runtime]
         /\ kind[a] = "site" => Written(a) = [db EXCEPT !.site = arg[a].site]
         /\ kind[a] = "upstream" => Written(a) = [db EXCEPT !.upstream = arg[a].upstream]
<1>1. arg[a] \in Settings /\ db \in Settings
  BY DEF TypeOK
<1>2. CASE kind[a] = "runtime"
  BY <1>1, <1>2 DEF Written, Settings
<1>3. CASE kind[a] = "site"
  BY <1>1, <1>3 DEF Written, Settings
<1>4. CASE kind[a] = "upstream"
  BY <1>1, <1>4 DEF Written, Settings
<1> QED
  BY <1>2, <1>3, <1>4 DEF Kinds

\* A begun update is one of its kind, with values that are settings.
LEMMA BeginType ==
  ASSUME TypeOK, NEW a \in Admins, NEW k \in Kinds, NEW values \in Settings,
         NEW fields \in SUBSET (Toggles \cup {"key"}), Begin(a, k, values, fields)
  PROVE  /\ kind' \in [Admins -> Kinds \cup {"none"}]
         /\ stage' \in [Admins -> {"idle", "db", "cache", "resize"}]
         /\ arg' \in [Admins -> Settings]
         /\ given' \in [Admins -> SUBSET (Toggles \cup {"key"})]
         /\ updates' \in 0..MaxUpdates
         /\ clean' \subseteq Kinds
<1>1. updates' \in 0..MaxUpdates
  BY StoreAssumption DEF StoreAssumption, Begin, TypeOK
<1>2. kind' \in [Admins -> Kinds \cup {"none"}] /\ stage' \in [Admins -> {"idle", "db", "cache", "resize"}]
  BY DEF Begin, TypeOK
<1>3. arg' \in [Admins -> Settings] /\ given' \in [Admins -> SUBSET (Toggles \cup {"key"})]
  BY DEF Begin, TypeOK
<1>4. clean' \subseteq Kinds
  BY DEF Begin, TypeOK
<1> QED
  BY <1>1, <1>2, <1>3, <1>4

\* Answering an update keeps the types.
LEMMA FinishType ==
  ASSUME TypeOK, NEW a \in Admins, Finish(a)
  PROVE  /\ kind' \in [Admins -> Kinds \cup {"none"}]
         /\ stage' \in [Admins -> {"idle", "db", "cache", "resize"}]
         /\ arg' \in [Admins -> Settings]
         /\ given' \in [Admins -> SUBSET (Toggles \cup {"key"})]
  BY StoreAssumption DEF StoreAssumption, Finish, TypeOK

\* What the three kinds of updates ask for are settings.
LEMMA NewValues ==
  /\ \A v \in RuntimeValues : [Default EXCEPT !.runtime = v] \in Settings
  /\ \A patch \in [Toggles -> BOOLEAN \cup {Keep}], c \in Settings :
        [Default EXCEPT !.site = [t \in Toggles |-> IF patch[t] = Keep THEN c.site[t] ELSE patch[t]]]
            \in Settings
  /\ \A url \in Urls, key \in Keys \cup {Keep}, c \in Settings :
        [Default EXCEPT !.upstream =
            [url |-> url, key |-> IF key = Keep THEN c.upstream.key ELSE key]] \in Settings
<1>1. \A v \in RuntimeValues : [Default EXCEPT !.runtime = v] \in Settings
  BY StoreAssumption DEF StoreAssumption, Settings
<1>2. ASSUME NEW patch \in [Toggles -> BOOLEAN \cup {Keep}], NEW c \in Settings
      PROVE  [Default EXCEPT !.site =
                [t \in Toggles |-> IF patch[t] = Keep THEN c.site[t] ELSE patch[t]]] \in Settings
  <2> DEFINE s == [t \in Toggles |-> IF patch[t] = Keep THEN c.site[t] ELSE patch[t]]
  <2>1. ASSUME NEW t \in Toggles PROVE (IF patch[t] = Keep THEN c.site[t] ELSE patch[t]) \in BOOLEAN
    <3>1. c.site[t] \in BOOLEAN /\ patch[t] \in BOOLEAN \cup {Keep}
      <4>1. c.site \in Sites
        BY <1>2 DEF Settings
      <4> QED
        BY <4>1, <1>2, Zenon DEF Sites
    <3> QED
      BY <3>1, Zenon
  <2>2. s \in Sites
    BY <2>1, Zenon DEF Sites
  <2> HIDE DEF s
  <2>3. [Default EXCEPT !.site = s] \in Settings
    BY <2>2, StoreAssumption DEF StoreAssumption, Settings
  <2> QED
    BY <2>3 DEF s
<1>3. ASSUME NEW url \in Urls, NEW key \in Keys \cup {Keep}, NEW c \in Settings
      PROVE  [Default EXCEPT !.upstream =
                [url |-> url, key |-> IF key = Keep THEN c.upstream.key ELSE key]] \in Settings
  <2>1. (IF key = Keep THEN c.upstream.key ELSE key) \in Keys
    BY <1>3 DEF Settings, Upstreams
  <2> QED
    BY <2>1, StoreAssumption DEF StoreAssumption, Settings, Upstreams
<1> QED
  BY <1>1, <1>2, <1>3

\* Every step keeps the types.
LEMMA StoreType == ASSUME TypeOK, ControlInv, [Next]_vars PROVE TypeOK'
<1> USE BeginType, FinishType
<1>1. CASE UNCHANGED vars
  BY <1>1 DEF vars, TypeOK
<1>2. ASSUME NEW a \in Admins, NewUpdate(a) PROVE TypeOK'
  <2>1. ASSUME NEW v \in RuntimeValues, BeginRuntime(a, v) PROVE TypeOK'
    <3>1. Begin(a, "runtime", [Default EXCEPT !.runtime = v], {})
      BY <2>1 DEF BeginRuntime
    <3>2. UNCHANGED <<db, cache, pool, mu, up, faults, crashes, unsure>>
      BY <2>1 DEF BeginRuntime
    <3>3. /\ kind' \in [Admins -> Kinds \cup {"none"}]
          /\ stage' \in [Admins -> {"idle", "db", "cache", "resize"}]
          /\ arg' \in [Admins -> Settings]
          /\ given' \in [Admins -> SUBSET (Toggles \cup {"key"})]
          /\ updates' \in 0..MaxUpdates
          /\ clean' \subseteq Kinds
      BY <3>1, NewValues DEF Kinds
    <3> QED
      BY <3>2, <3>3 DEF TypeOK
  <2>2. ASSUME NEW patch \in [Toggles -> BOOLEAN \cup {Keep}], BeginSite(a, patch) PROVE TypeOK'
    <3> DEFINE values == [Default EXCEPT !.site = [t \in Toggles |->
                             IF patch[t] = Keep THEN cache.site[t] ELSE patch[t]]]
               fields == {t \in Toggles : patch[t] # Keep}
    <3>1. Begin(a, "site", values, fields)
      BY <2>2 DEF BeginSite
    <3>2. UNCHANGED <<db, cache, pool, mu, up, faults, crashes, unsure>>
      BY <2>2 DEF BeginSite
    <3>3. values \in Settings /\ fields \in SUBSET (Toggles \cup {"key"})
      BY <2>2, NewValues DEF TypeOK
    <3> HIDE DEF values, fields
    <3>4. /\ kind' \in [Admins -> Kinds \cup {"none"}]
          /\ stage' \in [Admins -> {"idle", "db", "cache", "resize"}]
          /\ arg' \in [Admins -> Settings]
          /\ given' \in [Admins -> SUBSET (Toggles \cup {"key"})]
          /\ updates' \in 0..MaxUpdates
          /\ clean' \subseteq Kinds
      BY <3>1, <3>3 DEF Kinds
    <3> QED
      BY <3>2, <3>4 DEF TypeOK
  <2>3. ASSUME NEW url \in Urls, NEW key \in Keys \cup {Keep}, BeginUpstream(a, url, key) PROVE TypeOK'
    <3> DEFINE values == [Default EXCEPT !.upstream =
                             [url |-> url, key |-> IF key = Keep THEN cache.upstream.key ELSE key]]
               fields == IF key = Keep THEN {} ELSE {"key"}
    <3>1. Begin(a, "upstream", values, fields)
      BY <2>3 DEF BeginUpstream
    <3>2. UNCHANGED <<db, cache, pool, up, faults, crashes, unsure>> /\ mu' = a
      BY <2>3 DEF BeginUpstream
    <3>3. values \in Settings /\ fields \in SUBSET (Toggles \cup {"key"})
      BY <2>3, NewValues DEF TypeOK
    <3> HIDE DEF values, fields
    <3>4. /\ kind' \in [Admins -> Kinds \cup {"none"}]
          /\ stage' \in [Admins -> {"idle", "db", "cache", "resize"}]
          /\ arg' \in [Admins -> Settings]
          /\ given' \in [Admins -> SUBSET (Toggles \cup {"key"})]
          /\ updates' \in 0..MaxUpdates
          /\ clean' \subseteq Kinds
      BY <3>1, <3>3 DEF Kinds
    <3> QED
      BY <3>2, <3>4 DEF TypeOK
  <2> QED
    BY <1>2, <2>1, <2>2, <2>3 DEF NewUpdate
<1>3. ASSUME NEW a \in Admins, WriteDB(a) PROVE TypeOK'
  <2>1. db' \in Settings
    BY <1>3, WrittenType DEF WriteDB, ControlInv, TypeOK
  <2> QED
    BY <1>3, <2>1 DEF WriteDB, GoOn, TypeOK
<1>4. ASSUME NEW a \in Admins, WriteFails(a) PROVE TypeOK'
  <2>1. db' \in Settings
    BY <1>4, WrittenType DEF WriteFails, ControlInv, TypeOK
  <2>2. mu' \in Admins \cup {Nobody} /\ clean' \subseteq Kinds
    BY <1>4 DEF WriteFails, Unlock, TypeOK
  <2>3. faults' \in 0..MaxFaults
    BY <1>4, StoreAssumption DEF StoreAssumption, WriteFails, TypeOK
  <2>4. unsure' \in BOOLEAN
    BY <1>4, Zenon DEF WriteFails
  <2>5. Finish(a) /\ UNCHANGED <<cache, pool, up, updates, crashes>>
    BY <1>4 DEF WriteFails
  <2> QED
    BY <2>1, <2>2, <2>3, <2>4, <2>5 DEF TypeOK
<1>5. ASSUME NEW a \in Admins, CacheRuntime(a) PROVE TypeOK'
  <2>1. cache' \in Settings
    BY <1>5 DEF CacheRuntime, TypeOK, Settings
  <2> QED
    BY <1>5, <2>1 DEF CacheRuntime, GoOn, TypeOK
<1>6. ASSUME NEW a \in Admins, CallResizer(a) PROVE TypeOK'
  <2>1. pool' \in RuntimeValues
    BY <1>6 DEF CallResizer, TypeOK, Settings
  <2>2. Finish(a) /\ UNCHANGED <<db, cache, mu, up, updates, faults, crashes, clean, unsure>>
    BY <1>6 DEF CallResizer
  <2> QED
    BY <2>1, <2>2 DEF TypeOK
<1>7. ASSUME NEW a \in Admins, CacheSite(a) PROVE TypeOK'
  <2>1. cache' \in Settings
    BY <1>7 DEF CacheSite, TypeOK, Settings
  <2>2. Finish(a) /\ UNCHANGED <<db, pool, mu, up, updates, faults, crashes, clean, unsure>>
    BY <1>7 DEF CacheSite
  <2> QED
    BY <2>1, <2>2 DEF TypeOK
<1>8. ASSUME NEW a \in Admins, CacheUpstream(a) PROVE TypeOK'
  <2>1. cache' \in Settings
    BY <1>8 DEF CacheUpstream, TypeOK, Settings
  <2>2. unsure' \in BOOLEAN
    BY <1>8, Zenon DEF CacheUpstream
  <2>3. mu' \in Admins \cup {Nobody}
    BY <1>8 DEF CacheUpstream, Unlock, TypeOK
  <2>4. Finish(a) /\ UNCHANGED <<db, pool, up, updates, faults, crashes, clean>>
    BY <1>8 DEF CacheUpstream
  <2> QED
    BY <2>1, <2>2, <2>3, <2>4 DEF TypeOK
<1>9. CASE Crash
  <2>1. up' \in BOOLEAN
    BY <1>9, Zenon DEF Crash
  <2>2. crashes' \in 0..MaxCrashes
    BY <1>9, StoreAssumption DEF StoreAssumption, Crash, TypeOK
  <2> QED
    BY <1>9, <2>1, <2>2, StoreAssumption DEF StoreAssumption, Crash, TypeOK
<1>10. CASE Boot
  <2>1. up' \in BOOLEAN /\ unsure' \in BOOLEAN
    BY <1>10, Zenon DEF Boot
  <2>2. pool' \in RuntimeValues /\ cache' \in Settings
    BY <1>10 DEF Boot, TypeOK, Settings
  <2> QED
    BY <1>10, <2>1, <2>2 DEF Boot, TypeOK, Kinds
<1> QED
  BY <1>1, <1>2, <1>3, <1>4, <1>5, <1>6, <1>7, <1>8, <1>9, <1>10 DEF Next, Step

\* What a step does to the request of one admin, and that it leaves the others alone.
LEMMA Requests ==
  ASSUME TypeOK, NEW a \in Admins
  PROVE  /\ \A k, values, fields : Begin(a, k, values, fields) =>
              /\ kind'[a] = k /\ stage'[a] = "db" /\ arg'[a] = values /\ given'[a] = fields
              /\ kind[a] = "none" /\ up
         /\ Finish(a) => kind'[a] = "none" /\ stage'[a] = "idle"
         /\ \A s : GoOn(a, s) =>
              kind'[a] = kind[a] /\ stage'[a] = s /\ arg'[a] = arg[a] /\ given'[a] = given[a]
         /\ Finish(a) \/ (\E s : GoOn(a, s)) \/ (\E k, values, fields : Begin(a, k, values, fields)) =>
              \A b \in Admins \ {a} :
                 kind'[b] = kind[b] /\ stage'[b] = stage[b] /\ arg'[b] = arg[b] /\ given'[b] = given[b]
  BY DEF TypeOK, Begin, Finish, GoOn

\* The request whose step it is: it begins, goes on or finishes.
LEMMA OneRequest ==
  ASSUME TypeOK, NEW a \in Admins, NewUpdate(a) \/ Step(a) \/ WriteFails(a)
  PROVE  \A b \in Admins \ {a} :
            kind'[b] = kind[b] /\ stage'[b] = stage[b] /\ arg'[b] = arg[b] /\ given'[b] = given[b]
<1>1. Finish(a) \/ (\E s : GoOn(a, s)) \/ (\E k, values, fields : Begin(a, k, values, fields))
  BY Zenon DEF NewUpdate, Step, BeginRuntime, BeginSite, BeginUpstream, WriteDB, WriteFails, CacheRuntime,
       CallResizer, CacheSite, CacheUpstream
<1> QED
  BY <1>1, Requests

\* A new update is of one kind; an upstream update takes the mutex.
LEMMA NewRequest ==
  ASSUME TypeOK, NEW a \in Admins, NewUpdate(a)
  PROVE  /\ up /\ up' = up /\ stage'[a] = "db" /\ kind[a] = "none"
         /\ UNCHANGED <<db, cache, pool, unsure>>
         /\ \/ kind'[a] = "runtime" /\ mu' = mu
            \/ kind'[a] = "site" /\ mu' = mu
            \/ kind'[a] = "upstream" /\ mu = Nobody /\ mu' = a
         /\ clean' = IF Busy(kind'[a]) = {} THEN clean \cup {kind'[a]} ELSE clean \ {kind'[a]}
<1> DEFINE Begun(k, values, fields) ==
      /\ up /\ stage'[a] = "db" /\ kind[a] = "none" /\ kind'[a] = k
      /\ clean' = IF Busy(k) = {} THEN clean \cup {k} ELSE clean \ {k}
<1>1. ASSUME NEW k, NEW values, NEW fields, Begin(a, k, values, fields) PROVE Begun(k, values, fields)
  BY <1>1 DEF Begin, TypeOK
<1>2. ASSUME NEW v \in RuntimeValues, BeginRuntime(a, v) PROVE kind'[a] = "runtime" /\ mu' = mu /\ Begun("runtime", v, v)
  BY <1>1, <1>2 DEF BeginRuntime
<1>3. ASSUME NEW patch, BeginSite(a, patch) PROVE kind'[a] = "site" /\ mu' = mu /\ Begun("site", patch, patch)
  BY <1>1, <1>3 DEF BeginSite
<1>4. ASSUME NEW url, NEW key, BeginUpstream(a, url, key)
      PROVE  kind'[a] = "upstream" /\ mu = Nobody /\ mu' = a /\ Begun("upstream", url, key)
  BY <1>1, <1>4 DEF BeginUpstream
<1>5. up' = up /\ UNCHANGED <<db, cache, pool, unsure>>
  BY DEF NewUpdate, BeginRuntime, BeginSite, BeginUpstream
<1> QED
  BY <1>2, <1>3, <1>4, <1>5 DEF NewUpdate

\* Stages fit their kinds, and an upstream update holds the mutex from its first step to its last.
LEMMA ControlNext == ASSUME TypeOK, ControlInv, [Next]_vars PROVE ControlInv'
<1>1. CASE UNCHANGED <<kind, stage, mu, up>>
  BY <1>1 DEF ControlInv
<1>2. ASSUME NEW a \in Admins, NewUpdate(a) PROVE ControlInv'
  <2>1. /\ up /\ up' = up /\ stage'[a] = "db" /\ kind[a] = "none"
        /\ \/ kind'[a] \in {"runtime", "site"} /\ mu' = mu
           \/ kind'[a] = "upstream" /\ mu = Nobody /\ mu' = a
    BY <1>2, NewRequest
  <2>2. \A b \in Admins \ {a} : kind'[b] = kind[b] /\ stage'[b] = stage[b]
    BY <1>2, OneRequest
  <2> QED
    BY <2>1, <2>2, StoreAssumption DEF StoreAssumption, ControlInv, TypeOK
<1>3. ASSUME NEW a \in Admins, WriteDB(a) \/ CacheRuntime(a) PROVE ControlInv'
  <2>1. Step(a)
    BY <1>3 DEF Step
  <2>2. /\ kind'[a] = kind[a] /\ UNCHANGED <<mu, up>> /\ stage[a] \in {"db", "cache"}
        /\ \/ stage'[a] = "cache"
           \/ stage'[a] = "resize" /\ kind[a] = "runtime"
    BY <1>3, Requests DEF WriteDB, CacheRuntime
  <2>3. \A b \in Admins \ {a} : kind'[b] = kind[b] /\ stage'[b] = stage[b]
    BY <2>1, OneRequest
  <2> QED
    BY <2>2, <2>3, StoreAssumption DEF StoreAssumption, ControlInv, TypeOK
<1>4. ASSUME NEW a \in Admins, CallResizer(a) \/ CacheSite(a) \/ CacheUpstream(a) \/ WriteFails(a)
      PROVE  ControlInv'
  <2>1. Step(a) \/ WriteFails(a)
    BY <1>4 DEF Step
  <2>2. kind'[a] = "none" /\ stage'[a] = "idle" /\ up' = up
    BY <1>4, Requests DEF CallResizer, CacheSite, CacheUpstream, WriteFails
  <2>3. mu' = IF mu = a THEN Nobody ELSE mu
    BY <1>4, StoreAssumption
    DEF StoreAssumption, CallResizer, CacheSite, CacheUpstream, WriteFails, Unlock, ControlInv
  <2>4. \A b \in Admins \ {a} : kind'[b] = kind[b] /\ stage'[b] = stage[b]
    BY <2>1, OneRequest
  <2> QED
    BY <2>2, <2>3, <2>4, StoreAssumption DEF StoreAssumption, ControlInv, TypeOK
<1>5. CASE Crash
  BY <1>5 DEF Crash, ControlInv
<1>6. CASE Boot
  BY <1>6 DEF Boot, ControlInv
<1> QED
  BY <1>1, <1>2, <1>3, <1>4, <1>5, <1>6 DEF Next, Step, vars

\* Only an upstream update touches the upstream, and only one does at a time.
LEMMA UpstreamNext == ASSUME TypeOK, ControlInv, UpstreamInv, [Next]_vars PROVE UpstreamInv'
<1> USE DEF UpstreamInv
<1>1. CASE UNCHANGED vars
  BY <1>1 DEF vars
<1>2. ASSUME NEW a \in Admins, NewUpdate(a) PROVE UpstreamInv'
  <2>1. CASE \E v \in RuntimeValues : BeginRuntime(a, v)
    BY <2>1, <1>2, Requests, OneRequest DEF BeginRuntime
  <2>2. CASE \E patch \in [Toggles -> BOOLEAN \cup {Keep}] : BeginSite(a, patch)
    BY <2>2, <1>2, Requests, OneRequest DEF BeginSite
  <2>3. ASSUME NEW url \in Urls, NEW key \in Keys \cup {Keep}, BeginUpstream(a, url, key)
        PROVE  UpstreamInv'
    <3>1. /\ kind'[a] = "upstream" /\ stage'[a] = "db" /\ mu = Nobody /\ mu' = a /\ up
          /\ UNCHANGED <<db, cache, up, unsure>>
      BY <2>3, Requests DEF BeginUpstream
    <3>2. arg'[a].upstream.key = IF key = Keep THEN cache.upstream.key ELSE key
      BY <2>3, Requests, StoreAssumption DEF StoreAssumption, BeginUpstream, Settings
    <3>3. given'[a] = IF key = Keep THEN {} ELSE {"key"}
      BY <2>3, Requests DEF BeginUpstream
    <3>4. \A b \in Admins \ {a} : kind'[b] # "upstream"
      BY <1>2, <3>1, OneRequest, StoreAssumption DEF StoreAssumption, ControlInv
    <3>5. a # Nobody
      BY StoreAssumption DEF StoreAssumption
    <3> QED
      BY <3>1, <3>2, <3>3, <3>4, <3>5
  <2> QED
    BY <1>2, <2>1, <2>2, <2>3 DEF NewUpdate
<1>3. ASSUME NEW a \in Admins, WriteDB(a) PROVE UpstreamInv'
  <2>1. CASE kind[a] = "upstream"
    <3>1. db' = [db EXCEPT !.upstream = arg[a].upstream]
      BY <1>3, <2>1, WrittenType DEF WriteDB, Kinds
    <3>2. db'.upstream = arg[a].upstream
      BY <3>1 DEF TypeOK, Settings
    <3>3. stage'[a] = "cache" /\ arg'[a] = arg[a] /\ mu' = a
      BY <1>3, <2>1, Requests DEF WriteDB, ControlInv
    <3>4. \A b \in Admins \ {a} : kind'[b] # "upstream"
      BY <1>3, <2>1, OneRequest DEF Step, ControlInv
    <3>5. a # Nobody
      BY StoreAssumption DEF StoreAssumption
    <3> QED
      BY <1>3, <3>2, <3>3, <3>4, <3>5
  <2>2. CASE kind[a] # "upstream"
    <3>1. db'.upstream = db.upstream
      BY <1>3, <2>2, WrittenType DEF WriteDB, TypeOK, Settings, ControlInv, Kinds
    <3> QED
      BY <1>3, <2>2, <3>1, Requests, OneRequest DEF WriteDB, Step
  <2> QED
    BY <2>1, <2>2
<1>4. ASSUME NEW a \in Admins, WriteFails(a) PROVE UpstreamInv'
  <2>1. CASE kind[a] = "upstream"
    <3>1. unsure' /\ cache' = cache
      BY <1>4, <2>1 DEF WriteFails
    <3>2. \A b \in Admins : kind'[b] # "upstream"
      BY <1>4, <2>1, Requests, OneRequest DEF WriteFails, ControlInv
    <3> QED
      BY <3>1, <3>2
  <2>2. CASE kind[a] # "upstream"
    <3>1. db'.upstream = db.upstream
      BY <1>4, <2>2, WrittenType DEF WriteFails, TypeOK, Settings, ControlInv, Kinds
    <3>2. mu' = mu /\ (unsure' <=> unsure) /\ UNCHANGED <<cache, up>>
      BY <1>4, <2>2 DEF WriteFails, Unlock, ControlInv
    <3> QED
      BY <1>4, <2>2, <3>1, <3>2, Requests, OneRequest DEF WriteFails
  <2> QED
    BY <2>1, <2>2
<1>5. ASSUME NEW a \in Admins, CacheRuntime(a) \/ CacheSite(a) \/ CallResizer(a) PROVE UpstreamInv'
  <2>1. cache'.upstream = cache.upstream /\ UNCHANGED <<db, mu, up, unsure>> /\ kind[a] # "upstream"
    BY <1>5 DEF CacheRuntime, CacheSite, CallResizer, TypeOK, Settings, ControlInv
  <2>2. kind'[a] # "upstream"
    BY <1>5, <2>1, Requests DEF CacheRuntime, CacheSite, CallResizer
  <2> QED
    BY <1>5, <2>1, <2>2, OneRequest DEF Step
<1>6. ASSUME NEW a \in Admins, CacheUpstream(a) PROVE UpstreamInv'
  <2>1. db.upstream = arg[a].upstream \/ ~up
    BY <1>6 DEF CacheUpstream
  <2>2. cache'.upstream = arg[a].upstream /\ UNCHANGED <<db, up>>
    BY <1>6 DEF CacheUpstream, TypeOK, Settings
  <2>3. \A b \in Admins : kind'[b] # "upstream"
    BY <1>6, Requests, OneRequest DEF CacheUpstream, ControlInv, Step
  <2> QED
    BY <2>1, <2>2, <2>3
<1>7. CASE Crash
  BY <1>7 DEF Crash
<1>8. CASE Boot
  BY <1>8 DEF Boot, ControlInv
<1> QED
  BY <1>1, <1>2, <1>3, <1>4, <1>5, <1>6, <1>7, <1>8 DEF Next, Step

\* A step of a request that is not of kind k leaves the requests of kind k as they are.
LEMMA OtherKind ==
  ASSUME TypeOK, NEW a \in Admins, NewUpdate(a) \/ Step(a) \/ WriteFails(a),
         NEW k \in Kinds, kind[a] # k, kind'[a] # k
  PROVE  /\ Busy(k)' = Busy(k)
         /\ \A b \in Busy(k) : stage'[b] = stage[b] /\ arg'[b] = arg[b]
  BY OneRequest DEF Busy

\* A step within an update of kind k keeps it the only one.
LEMMA OwnKind ==
  ASSUME TypeOK, NEW a \in Admins, Step(a) \/ WriteFails(a), NEW k \in Kinds, kind[a] = k,
         \A b, c \in Busy(k) : b = c
  PROVE  Busy(k)' \subseteq {a} /\ (kind'[a] = "none" => Busy(k)' = {})
<1>1. \A b \in Admins \ {a} : kind'[b] = kind[b] /\ kind[b] # k
  BY OneRequest DEF Busy
<1> QED
  BY <1>1 DEF Busy, Kinds

\* A runtime update that meets no other takes row, copy and pool to its value, one by one.
LEMMA RuntimeNext ==
  ASSUME TypeOK, ControlInv, RuntimeAlone, RuntimeInStep, [Next]_vars
  PROVE  RuntimeAlone' /\ RuntimeInStep'
<1> "runtime" \in Kinds
  BY DEF Kinds
<1>1. CASE UNCHANGED vars
  BY <1>1 DEF vars, RuntimeAlone, RuntimeInStep, Busy
<1>2. ASSUME NEW a \in Admins, NewUpdate(a) PROVE RuntimeAlone' /\ RuntimeInStep'
  <2>1. CASE kind'[a] = "runtime"
    <3>1. "runtime" \in clean' => Busy("runtime")' = {a} /\ stage'[a] = "db"
      <4>1. "runtime" \in clean' => Busy("runtime") = {}
        BY <1>2, <2>1, NewRequest
      <4>2. \A b \in Admins \ {a} : kind'[b] = kind[b]
        BY <1>2, OneRequest
      <4> QED
        BY <1>2, <2>1, <4>1, <4>2, NewRequest DEF Busy
    <3> QED
      BY <3>1 DEF RuntimeAlone, RuntimeInStep
  <2>2. CASE kind'[a] # "runtime"
    <3>1. kind[a] # "runtime" /\ UNCHANGED <<up, db, cache, pool>> /\ ("runtime" \in clean' <=> "runtime" \in clean)
      BY <1>2, <2>2, NewRequest
    <3>2. /\ Busy("runtime")' = Busy("runtime")
          /\ \A b \in Busy("runtime") : stage'[b] = stage[b] /\ arg'[b] = arg[b]
      BY <1>2, <2>2, <3>1, OtherKind
    <3> QED
      BY <3>1, <3>2 DEF RuntimeAlone, RuntimeInStep
  <2> QED
    BY <2>1, <2>2
<1>3. ASSUME NEW a \in Admins, WriteDB(a) \/ CacheRuntime(a) \/ CallResizer(a) \/ WriteFails(a),
             kind[a] = "runtime"
      PROVE  RuntimeAlone' /\ RuntimeInStep'
  <2>1. Step(a) \/ WriteFails(a)
    BY <1>3 DEF Step
  <2>2. kind'[a] \in {kind[a], "none"} /\ a \in Busy("runtime") /\ up' = up
    BY <1>3, Requests DEF WriteDB, CacheRuntime, CallResizer, WriteFails, Busy
  <2>3. up /\ "runtime" \in clean => Busy("runtime")' \subseteq {a} /\ (kind'[a] = "none" => Busy("runtime")' = {})
    BY <1>3, <2>1, <2>2, OwnKind DEF RuntimeAlone
  <2>4. CASE WriteDB(a)
    <3>1. db'.runtime = arg'[a].runtime /\ stage'[a] = "cache" /\ clean' = clean /\ kind'[a] = "runtime"
      BY <1>3, <2>4, WrittenType, Requests DEF WriteDB, TypeOK, Settings
    <3>2. a \in Busy("runtime")'
      BY <3>1 DEF Busy
    <3> QED
      BY <2>2, <2>3, <3>1, <3>2 DEF RuntimeAlone, RuntimeInStep
  <2>5. CASE CacheRuntime(a)
    <3>1. /\ cache'.runtime = arg[a].runtime /\ arg'[a] = arg[a] /\ stage[a] = "cache"
          /\ kind'[a] = "runtime" /\ UNCHANGED <<db, clean>>
      BY <1>3, <2>5, Requests DEF CacheRuntime, TypeOK, Settings
    <3>2. a \in Busy("runtime")'
      BY <3>1 DEF Busy
    <3> QED
      BY <2>2, <2>3, <3>1, <3>2 DEF RuntimeAlone, RuntimeInStep
  <2>6. CASE CallResizer(a)
    <3>1. pool' = arg[a].runtime /\ stage[a] = "resize" /\ UNCHANGED <<db, cache, clean>> /\ kind'[a] = "none"
      BY <2>6, Requests DEF CallResizer
    <3> QED
      BY <2>2, <2>3, <3>1 DEF RuntimeAlone, RuntimeInStep
  <2>7. CASE WriteFails(a)
    BY <1>3, <2>7 DEF WriteFails, RuntimeAlone, RuntimeInStep
  <2> QED
    BY <1>3, <2>4, <2>5, <2>6, <2>7
<1>4. ASSUME NEW a \in Admins, Step(a) \/ WriteFails(a), kind[a] # "runtime"
      PROVE  RuntimeAlone' /\ RuntimeInStep'
  <2>1. stage[a] # "resize"
    BY <1>4 DEF ControlInv
  <2>2. kind'[a] # "runtime" /\ UNCHANGED <<up, pool>> /\ ("runtime" \in clean' <=> "runtime" \in clean)
    BY <1>4, <2>1, Requests
    DEF Step, WriteDB, CacheRuntime, CallResizer, CacheSite, CacheUpstream, WriteFails
  <2>3. db'.runtime = db.runtime
    <3>1. kind[a] \in Kinds => Written(a).runtime = db.runtime
      BY <1>4, WrittenType DEF TypeOK, Settings, Kinds
    <3>2. kind[a] \in Kinds \/ stage[a] = "idle"
      BY DEF ControlInv, TypeOK
    <3> QED
      BY <1>4, <2>1, <3>1, <3>2
      DEF Step, WriteDB, CacheRuntime, CallResizer, CacheSite, CacheUpstream, WriteFails
  <2>4. cache'.runtime = cache.runtime
    BY <1>4, <2>1 DEF Step, WriteDB, CacheRuntime, CallResizer, CacheSite, CacheUpstream, WriteFails,
                      TypeOK, Settings
  <2>5. /\ Busy("runtime")' = Busy("runtime")
        /\ \A b \in Busy("runtime") : stage'[b] = stage[b] /\ arg'[b] = arg[b]
    BY <1>4, <2>2, OtherKind
  <2> QED
    BY <2>2, <2>3, <2>4, <2>5 DEF RuntimeAlone, RuntimeInStep
<1>5. CASE Crash
  BY <1>5 DEF Crash, RuntimeAlone, RuntimeInStep
<1>6. CASE Boot
  BY <1>6 DEF Boot, ControlInv, RuntimeAlone, RuntimeInStep, Busy
<1>7. ASSUME NEW a \in Admins, Step(a), kind[a] = "runtime"
      PROVE  WriteDB(a) \/ CacheRuntime(a) \/ CallResizer(a)
  BY <1>7 DEF Step, CacheSite, CacheUpstream
<1> QED
  BY <1>1, <1>2, <1>3, <1>4, <1>5, <1>6, <1>7 DEF Next

\* A site update that meets no other takes row and copy to its switches.
LEMMA SiteNext ==
  ASSUME TypeOK, ControlInv, SiteAlone, SiteInStep, [Next]_vars
  PROVE  SiteAlone' /\ SiteInStep'
<1> "site" \in Kinds
  BY DEF Kinds
<1>1. CASE UNCHANGED vars
  BY <1>1 DEF vars, SiteAlone, SiteInStep, Busy
<1>2. ASSUME NEW a \in Admins, NewUpdate(a) PROVE SiteAlone' /\ SiteInStep'
  <2>1. CASE kind'[a] = "site"
    <3>1. "site" \in clean' => Busy("site")' = {a} /\ stage'[a] = "db"
      <4>1. "site" \in clean' => Busy("site") = {}
        BY <1>2, <2>1, NewRequest
      <4>2. \A b \in Admins \ {a} : kind'[b] = kind[b]
        BY <1>2, OneRequest
      <4> QED
        BY <1>2, <2>1, <4>1, <4>2, NewRequest DEF Busy
    <3> QED
      BY <3>1 DEF SiteAlone, SiteInStep
  <2>2. CASE kind'[a] # "site"
    <3>1. kind[a] # "site" /\ UNCHANGED <<up, db, cache>> /\ ("site" \in clean' <=> "site" \in clean)
      BY <1>2, <2>2, NewRequest
    <3>2. /\ Busy("site")' = Busy("site")
          /\ \A b \in Busy("site") : stage'[b] = stage[b] /\ arg'[b] = arg[b]
      BY <1>2, <2>2, <3>1, OtherKind
    <3> QED
      BY <3>1, <3>2 DEF SiteAlone, SiteInStep
  <2> QED
    BY <2>1, <2>2
<1>3. ASSUME NEW a \in Admins, WriteDB(a) \/ CacheSite(a) \/ WriteFails(a), kind[a] = "site"
      PROVE  SiteAlone' /\ SiteInStep'
  <2>1. Step(a) \/ WriteFails(a)
    BY <1>3 DEF Step
  <2>2. kind'[a] \in {kind[a], "none"} /\ a \in Busy("site") /\ up' = up
    BY <1>3, Requests DEF WriteDB, CacheSite, WriteFails, Busy
  <2>3. up /\ "site" \in clean => Busy("site")' \subseteq {a} /\ (kind'[a] = "none" => Busy("site")' = {})
    BY <1>3, <2>1, <2>2, OwnKind DEF SiteAlone
  <2>4. CASE WriteDB(a)
    <3>1. db'.site = arg'[a].site /\ stage'[a] = "cache" /\ clean' = clean /\ kind'[a] = "site"
      BY <1>3, <2>4, WrittenType, Requests DEF WriteDB, TypeOK, Settings
    <3>2. a \in Busy("site")'
      BY <3>1 DEF Busy
    <3> QED
      BY <2>2, <2>3, <3>1, <3>2 DEF SiteAlone, SiteInStep
  <2>5. CASE CacheSite(a)
    <3>1. cache'.site = arg[a].site /\ stage[a] = "cache" /\ UNCHANGED <<db, clean>> /\ kind'[a] = "none"
      BY <2>5, Requests DEF CacheSite, TypeOK, Settings
    <3> QED
      BY <2>2, <2>3, <3>1 DEF SiteAlone, SiteInStep
  <2>6. CASE WriteFails(a)
    BY <1>3, <2>6 DEF WriteFails, SiteAlone, SiteInStep
  <2> QED
    BY <1>3, <2>4, <2>5, <2>6
<1>4. ASSUME NEW a \in Admins, Step(a) \/ WriteFails(a), kind[a] # "site"
      PROVE  SiteAlone' /\ SiteInStep'
  <2>1. kind'[a] # "site" /\ up' = up /\ ("site" \in clean' <=> "site" \in clean)
    BY <1>4, Requests
    DEF Step, WriteDB, CacheRuntime, CallResizer, CacheSite, CacheUpstream, WriteFails
  <2>2. db'.site = db.site
    <3>1. kind[a] \in Kinds => Written(a).site = db.site
      BY <1>4, WrittenType DEF TypeOK, Settings, Kinds
    <3>2. kind[a] \in Kinds \/ stage[a] = "idle"
      BY DEF ControlInv, TypeOK
    <3> QED
      BY <1>4, <3>1, <3>2
      DEF Step, WriteDB, CacheRuntime, CallResizer, CacheSite, CacheUpstream, WriteFails
  <2>3. cache'.site = cache.site
    BY <1>4 DEF Step, WriteDB, CacheRuntime, CallResizer, CacheSite, CacheUpstream, WriteFails,
                TypeOK, Settings
  <2>4. /\ Busy("site")' = Busy("site")
        /\ \A b \in Busy("site") : stage'[b] = stage[b] /\ arg'[b] = arg[b]
    BY <1>4, <2>1, OtherKind
  <2> QED
    BY <2>1, <2>2, <2>3, <2>4 DEF SiteAlone, SiteInStep
<1>5. CASE Crash
  BY <1>5 DEF Crash, SiteAlone, SiteInStep
<1>6. CASE Boot
  BY <1>6 DEF Boot, ControlInv, SiteAlone, SiteInStep, Busy
<1>7. ASSUME NEW a \in Admins, Step(a), kind[a] = "site" PROVE WriteDB(a) \/ CacheSite(a)
  BY <1>7 DEF Step, CacheRuntime, CallResizer, CacheUpstream, ControlInv
<1> QED
  BY <1>1, <1>2, <1>3, <1>4, <1>5, <1>6, <1>7 DEF Next

\* Everything that the steps of the store preserve, for any admins, values and bounds.
THEOREM StoreInvariant == Spec => []StoreInv
<1>1. StoreInv /\ [Next]_vars => StoreInv'
  <2> SUFFICES ASSUME StoreInv, [Next]_vars PROVE StoreInv'
    OBVIOUS
  <2> QED
    BY StoreType, ControlNext, UpstreamNext, RuntimeNext, SiteNext DEF StoreInv
<1> QED
  BY StoreInit, <1>1, PTL DEF Spec

\* Every variable of the settings store always has its type.
THEOREM StoreTypeTheorem == Spec => []TypeOK
<1>1. StoreInv => TypeOK
  BY DEF StoreInv
<1> QED
  BY StoreInvariant, <1>1, PTL

\* The workers use the upstream of the database whenever no update of it is under way or failed:
\* the mutex that UpdateUpstream holds keeps two of them from passing each other.
THEOREM UpstreamTheorem == Spec => []UpstreamInStep
<1>1. StoreInv => UpstreamInStep
  BY DEF StoreInv, UpstreamInv, UpstreamInStep
<1> QED
  BY StoreInvariant, <1>1, PTL

\* A runtime update that meets no other brings row, copy and worker pool to its value.
THEOREM RuntimeTheorem == Spec => []RuntimeInStep
<1>1. StoreInv => RuntimeInStep
  BY DEF StoreInv
<1> QED
  BY StoreInvariant, <1>1, PTL

\* A site update that meets no other brings row and copy to its switches.
THEOREM SiteTheorem == Spec => []SiteInStep
<1>1. StoreInv => SiteInStep
  BY DEF StoreInv
<1> QED
  BY StoreInvariant, <1>1, PTL

\* An upstream update without a key writes the key that is in the database already.
THEOREM KeyTheorem == Spec => KeyKept
<1> DEFINE KeepsKey == \A a \in Admins :
        /\ kind[a] = "upstream" /\ stage[a] = "db" /\ stage'[a] = "cache"
        /\ "key" \notin given[a] /\ ~unsure
        => db'.upstream.key = db.upstream.key
<1>1. StoreInv /\ [Next]_vars => [KeepsKey]_vars
  <2> SUFFICES ASSUME StoreInv, Next, NEW a \in Admins,
                      kind[a] = "upstream", stage[a] = "db", stage'[a] = "cache",
                      "key" \notin given[a], ~unsure
               PROVE  db'.upstream.key = db.upstream.key
    OBVIOUS
  <2>1. TypeOK /\ up /\ cache.upstream = db.upstream /\ arg[a].upstream.key = cache.upstream.key
    BY DEF StoreInv, UpstreamInv, ControlInv
  <2>2. WriteDB(a)
    <3>1. ~Crash /\ ~Boot
      BY <2>1 DEF Crash, Boot
    <3>2. PICK b \in Admins : NewUpdate(b) \/ Step(b) \/ WriteFails(b)
      BY <3>1 DEF Next
    <3>3. b = a
      BY <2>1, <3>2, OneRequest
    <3>4. ~NewUpdate(a) /\ ~WriteFails(a)
      BY <2>1, NewRequest, Requests DEF WriteFails
    <3> QED
      BY <3>2, <3>3, <3>4 DEF Step, CacheRuntime, CallResizer, CacheSite, CacheUpstream
  <2>3. db' = [db EXCEPT !.upstream = arg[a].upstream]
    BY <2>1, <2>2, WrittenType DEF WriteDB, Kinds
  <2> QED
    BY <2>1, <2>3 DEF TypeOK, Settings
<1> QED
  BY StoreInvariant, <1>1, PTL DEF Spec, KeyKept
==============================================================================
