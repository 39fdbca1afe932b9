---------------------------- MODULE AdminSettings ----------------------------
(***************************************************************************)
(* The two cards of the admin console that edit the settings of the site:  *)
(* the upstream card (address, key, models, connection test, limits) and   *)
(* the site card (title and switches).  A tab shows one card at a time and *)
(* unmounts the other; its calls go on, and nobody waits for the answers.  *)
(*                                                                         *)
(* The server gives a mask in place of the stored key.  The card shows the *)
(* mask in the field and remembers it as the value that means "no change". *)
(***************************************************************************)
EXTENDS Naturals, FiniteSets

CONSTANTS
    Keys,           \* the keys an admin can type
    Models,         \* the models an admin can enable
    Titles,         \* the titles an admin can type, with surrounding space cut off
    Limits,         \* the values of a runtime limit
    Nothing,        \* an absent value
    MaxActs,        \* bound: clicks and edits of the admin
    MaxFailures     \* bound: calls that fail

VARIABLES
    tab,                                     \* the card on the screen
    loading, saving, testing,                \* its flags
    key, baseline, models, testModel, limit, \* the upstream card; "baseline" is initialApiKeyRef
    title, savedTitle, open, savedOpen,      \* the site card; "open" stands for both its switches
    stored,                                  \* the settings on the server
    calls,                                   \* the calls in flight
    acts, failures

vars == <<tab, loading, saving, testing, key, baseline, models, testModel, limit,
          title, savedTitle, open, savedOpen, stored, calls, acts, failures>>
flags    == <<loading, saving, testing>>
upstream == <<key, baseline, models, testModel, limit>>
site     == <<title, savedTitle, open, savedOpen>>
budget   == <<acts, failures>>

-----------------------------------------------------------------------------
(* Keys and their masks: what stands in the field is a text.               *)

Empty     == [kind |-> "empty"]
Key(k)    == [kind |-> "key", of |-> k]
Mask(k)   == [kind |-> "mask", of |-> k]
Stars     == [kind |-> "stars"]

\* A key shows its first and last characters; a text as short as a mask shows nothing of itself.
MaskAPIKey(t) ==
    IF t = Empty THEN Empty ELSE IF t.kind = "key" THEN Mask(t.of) ELSE Stars

IsMask(t) == t.kind \in {"mask", "stars"}

-----------------------------------------------------------------------------
(* Calls.                                                                  *)

Call(kind, body) == [kind |-> kind, body |-> body, here |-> TRUE, phase |-> "sent", reply |-> Nothing]
Mine(kind)       == {c \in calls : c.here /\ c.kind = kind}
Forgotten        == {[c EXCEPT !.here = FALSE] : c \in calls}
Becomes(c, d)    == calls' = (calls \ {c}) \cup {d}

View == [key |-> MaskAPIKey(stored.key), models |-> stored.models, limit |-> stored.limit,
         title |-> stored.title, open |-> stored.open]

\* What the server has stored once it has carried out c.  A save of the upstream card leaves the
\* key out unless it was edited; the client sends an empty key as "" and the server clears it.
After(c) ==
    CASE c.kind = "saveUpstream" ->
            [stored EXCEPT !.models = c.body.models,
                           !.key    = IF c.body.key = Nothing THEN stored.key ELSE c.body.key]
      [] c.kind = "limit"    -> [stored EXCEPT !.limit = c.body.limit]
      [] c.kind = "saveSite" -> [stored EXCEPT !.title = c.body.title, !.open = c.body.open]
      [] OTHER               -> stored

Serve(c) ==
    /\ c.phase = "sent"
    /\ stored' = After(c)
    /\ Becomes(c, [c EXCEPT !.phase = "done", !.reply = View'])
    /\ UNCHANGED <<tab, flags, upstream, site, budget>>

Refuse(c) ==
    /\ c.phase = "sent" /\ failures < MaxFailures
    /\ failures' = failures + 1
    /\ Becomes(c, [c EXCEPT !.phase = "failed"])
    /\ UNCHANGED <<tab, flags, upstream, site, stored, acts>>

\* An answer for a card that is gone sets the state of nothing.
Ignored(c) ==
    /\ ~c.here /\ c.phase # "sent"
    /\ calls' = calls \ {c}
    /\ UNCHANGED <<tab, flags, upstream, site, stored, budget>>

Takes(c, kind) == c.here /\ c.kind = kind /\ c.phase # "sent" /\ calls' = calls \ {c}
Failed(c)      == c.phase = "failed"

\* The flags fall whatever the answer was.
LoadEnds(c) == loading' = FALSE
SaveEnds(c) == saving' = FALSE

-----------------------------------------------------------------------------
(* Both cards.                                                             *)

Blank == key' = Empty /\ baseline' = Empty /\ models' = {} /\ testModel' = Nothing
         /\ limit' = Nothing /\ title' = Nothing /\ savedTitle' = Nothing
         /\ open' = TRUE /\ savedOpen' = TRUE

\* The admin does one more thing.
Act == acts < MaxActs /\ acts' = acts + 1 /\ UNCHANGED failures

\* A card that is mounted knows nothing and loads everything.
OpenTab(t) ==
    /\ Act /\ t # tab
    /\ tab' = t
    /\ Blank
    /\ loading' = (t # "other") /\ saving' = FALSE /\ testing' = FALSE
    /\ calls' = IF t = "other" THEN Forgotten ELSE Forgotten \cup {Call("load", Nothing)}
    /\ UNCHANGED stored

\* While it loads, a card shows a skeleton and offers nothing.
Offers(t) == tab = t /\ ~loading

Loaded(c) ==
    /\ Takes(c, "load")
    /\ LoadEnds(c)
    /\ IF Failed(c) THEN UNCHANGED <<upstream, site>>
       ELSE IF tab = "upstream"
       THEN /\ key' = c.reply.key /\ baseline' = c.reply.key
            /\ models' = c.reply.models /\ limit' = c.reply.limit
            /\ testModel' \in IF testModel # Nothing \/ c.reply.models = {}
                              THEN {testModel} ELSE c.reply.models
            /\ UNCHANGED site
       ELSE /\ title' = c.reply.title /\ savedTitle' = c.reply.title
            /\ open' = c.reply.open /\ savedOpen' = c.reply.open
            /\ UNCHANGED upstream
    /\ UNCHANGED <<tab, saving, testing, stored, budget>>

-----------------------------------------------------------------------------
(* The upstream card.                                                      *)

TypeKey(t) ==
    /\ Offers("upstream") /\ Act /\ key' = t /\ key # t
    /\ UNCHANGED <<tab, flags, baseline, models, testModel, limit, site, stored, calls>>

TypeModels(ms) ==
    /\ Offers("upstream") /\ Act /\ models' = ms /\ models # ms
    /\ UNCHANGED <<tab, flags, key, baseline, testModel, limit, site, stored, calls>>

\* Mutant of ResetOffered: the button "reset" is offered while the card is busy, too.
ResetAlwaysOffered == tab = "upstream"

ResetOffered == Offers("upstream")

ResetUpstream ==
    /\ ResetOffered /\ Act
    /\ loading' = TRUE
    /\ calls' = calls \cup {Call("load", Nothing)}
    /\ UNCHANGED <<tab, saving, testing, upstream, site, stored>>

SaveUpstream ==
    /\ Offers("upstream") /\ ~saving /\ Act
    /\ saving' = TRUE
    /\ calls' = calls \cup {Call("saveUpstream",
          [key |-> IF key = baseline THEN Nothing ELSE key, typed |-> key, models |-> models])}
    /\ UNCHANGED <<tab, loading, testing, upstream, site, stored>>

\* A save that succeeded makes the key it was called with the one that means "no change".
UpstreamSaved(c) ==
    /\ Takes(c, "saveUpstream")
    /\ SaveEnds(c)
    /\ baseline' = IF Failed(c) THEN baseline ELSE c.body.typed
    /\ UNCHANGED <<tab, loading, testing, key, models, testModel, limit, site, stored, budget>>

ChooseTestModel(m) ==
    /\ Offers("upstream") /\ m \in models /\ m # testModel /\ Act
    /\ testModel' = m
    /\ UNCHANGED <<tab, flags, key, baseline, models, limit, site, stored, calls>>

TestOffered == Offers("upstream") /\ ~testing /\ models # {} /\ testModel # Nothing

TestUpstream ==
    /\ TestOffered /\ Act
    /\ testing' = TRUE
    /\ calls' = calls \cup {Call("test", [model |-> testModel])}
    /\ UNCHANGED <<tab, loading, saving, upstream, site, stored>>

\* The result is only told.
TestEnds(c) ==
    /\ Takes(c, "test")
    /\ testing' = FALSE
    /\ UNCHANGED <<tab, loading, saving, upstream, site, stored, budget>>

\* A slider goes to another value than it stands at.
RuntimeSlider == Limits \ {limit}

\* It shows a limit before the server has it, and again what the server answers.
CommitLimit(n) ==
    /\ Offers("upstream") /\ n \in RuntimeSlider /\ Act
    /\ limit' = n
    /\ calls' = calls \cup {Call("limit", [limit |-> n])}
    /\ UNCHANGED <<tab, flags, key, baseline, models, testModel, site, stored>>

LimitAnswered(c) ==
    /\ Takes(c, "limit")
    /\ limit' = IF Failed(c) THEN limit ELSE c.reply.limit
    /\ UNCHANGED <<tab, flags, key, baseline, models, testModel, site, stored, budget>>

-----------------------------------------------------------------------------
(* The site card.                                                          *)

Dirty == title # savedTitle \/ open # savedOpen

TypeTitle(t) ==
    /\ Offers("site") /\ Act /\ title' = t /\ title # t
    /\ UNCHANGED <<tab, flags, upstream, savedTitle, open, savedOpen, stored, calls>>

\* The switches are disabled while a save is under way; the field of the title is not.
Flip ==
    /\ Offers("site") /\ ~saving /\ Act
    /\ open' = ~open
    /\ UNCHANGED <<tab, flags, upstream, title, savedTitle, savedOpen, stored, calls>>

DropChanges ==
    /\ Offers("site") /\ ~saving /\ Dirty /\ Act
    /\ title' = savedTitle /\ open' = savedOpen
    /\ UNCHANGED <<tab, flags, upstream, savedTitle, savedOpen, stored, calls>>

\* An empty title is an error and cannot be saved.
SaveSite ==
    /\ Offers("site") /\ ~saving /\ Dirty /\ title # Nothing /\ Act
    /\ saving' = TRUE
    /\ calls' = calls \cup {Call("saveSite", [title |-> title, open |-> open])}
    /\ UNCHANGED <<tab, loading, testing, upstream, site, stored>>

\* The answer replaces what the card shows, and the save goes on until the configuration of the
\* page has been read again.
SiteSaved(c) ==
    /\ c.here /\ c.kind = "saveSite" /\ c.phase # "sent"
    /\ IF Failed(c) THEN SaveEnds(c) /\ calls' = calls \ {c} /\ UNCHANGED site
       ELSE /\ title' = c.reply.title /\ savedTitle' = c.reply.title
            /\ open' = c.reply.open /\ savedOpen' = c.reply.open
            /\ Becomes(c, Call("config", Nothing))
            /\ UNCHANGED saving
    /\ UNCHANGED <<tab, loading, testing, upstream, stored, budget>>

ConfigRead(c) ==
    /\ Takes(c, "config")
    /\ SaveEnds(c)
    /\ UNCHANGED <<tab, loading, testing, upstream, site, stored, budget>>

-----------------------------------------------------------------------------
Init ==
    /\ tab = "site" /\ loading = TRUE /\ saving = FALSE /\ testing = FALSE
    /\ key = Empty /\ baseline = Empty /\ models = {} /\ testModel = Nothing /\ limit = Nothing
    /\ title = Nothing /\ savedTitle = Nothing /\ open = TRUE /\ savedOpen = TRUE
    /\ \E k \in {Empty} \cup {Key(x) : x \in Keys}, ms \in SUBSET Models, t \in Titles, n \in Limits :
          stored = [key |-> k, models |-> ms, limit |-> n, title |-> t, open |-> FALSE]
    /\ calls = {Call("load", Nothing)}
    /\ acts = 0 /\ failures = 0

EditUpstream ==
    \/ \E t \in {Empty} \cup {Key(k) : k \in Keys} : TypeKey(t)
    \/ \E ms \in SUBSET Models : TypeModels(ms)
    \/ ResetUpstream \/ SaveUpstream \/ TestUpstream
    \/ \E m \in Models : ChooseTestModel(m)
    \/ \E n \in Limits : CommitLimit(n)

EditSite == (\E t \in Titles \cup {Nothing} : TypeTitle(t)) \/ Flip \/ DropChanges \/ SaveSite

Answer(c) ==
    \/ Ignored(c) \/ Loaded(c) \/ UpstreamSaved(c) \/ TestEnds(c) \/ LimitAnswered(c)
    \/ SiteSaved(c) \/ ConfigRead(c)

Answered == \E c \in calls : Answer(c)
Served   == \E c \in calls : Serve(c) \/ Refuse(c)

Next ==
    \/ \E t \in {"site", "upstream", "other"} : OpenTab(t)
    \/ EditUpstream \/ EditSite \/ Answered \/ Served

Spec == Init /\ [][Next]_vars

-----------------------------------------------------------------------------
(* Properties.                                                             *)

\* The flags of a card tell what is under way, however tabs are opened and left and saves, tests
\* and resets overlap: no button stays disabled for a call that has ended, and no card ever has two
\* saves, two tests or two loads of its own under way (upstream-config-card.tsx and
\* site-settings-card.tsx, the flags loading, saving and testing).
BusyWhileCalling ==
    LET saves == Mine("saveUpstream") \cup Mine("saveSite") \cup Mine("config") IN
    /\ loading <=> Mine("load") # {}
    /\ saving  <=> saves # {}
    /\ testing <=> Mine("test") # {}
    /\ \A S \in {Mine("load"), saves, Mine("test")} : Cardinality(S) <= 1

\* upstream-config-card.tsx:38 and :97, "only send apiKey when the user actually edited it": the
\* mask the server gives out never comes back to it as the key.
MaskNeverStored == ~IsMask(stored.key)
=============================================================================
