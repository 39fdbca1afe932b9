--------------------------- MODULE BrowserSession ---------------------------
(***************************************************************************)
(* The session of a browser: the access token that each tab keeps in       *)
(* memory, the refresh cookie that the tabs share, the refresh that the    *)
(* calls of a tab share, and the user that AuthProvider shows.             *)
(*                                                                         *)
(* A call is sent with the token the tab holds then; a 401 makes it wait   *)
(* for a refresh and sends it once more.  A refresh rotates the cookie: it *)
(* is sent with the cookie of that moment, and the new cookie is set when  *)
(* the answer arrives.  The server is the set of refresh tokens it would   *)
(* accept; AuthSession models how it keeps them.                           *)
(***************************************************************************)
EXTENDS Naturals, FiniteSets

CONSTANTS
    Tabs,
    Flows,       \* calls in flight together, over all tabs
    Tokens,      \* names for refresh tokens: enough for those alive or in flight
    NoToken,
    MaxMishaps   \* bound: network errors and reloads

VARIABLES
    valid,         \* refresh tokens the server accepts
    cookie,        \* the refresh cookie
    access,        \* whether tokenStorage of each tab holds a token that has not run out
    refreshing,    \* refreshPromise of each tab, with the request behind it
    who,           \* whether AuthProvider has a user
    initializing,  \* isInitializing
    form,          \* status, whose "error" counts as "idle"; "closed" before the tab is open
    flows,         \* the calls
    over,          \* ghost: the session was ended, or a rotation was lost
    mishaps

vars == <<valid, cookie, access, refreshing, who, initializing, form, flows, over, mishaps>>
provider == <<who, initializing, form>>

-----------------------------------------------------------------------------
Kinds == {"restore", "login", "logout", "password", "profile"}

Free == [kind |-> "none"]
Flow == [kind : Kinds, tab : Tabs, pc : {"waiting", "sent", "401", "ok", "refused"},
         tries : 0..2, fresh : BOOLEAN, token : Tokens \cup {NoToken}]

NoRefresh == [phase |-> "none", token |-> NoToken]
Refresh   == [phase : {"none", "sent", "granted", "refused", "failed"}, token : Tokens \cup {NoToken}]

Busy(k)     == flows[k] # Free
At(k, pc)   == Busy(k) /\ flows[k].pc = pc
Waiting(t)  == {k \in Flows : At(k, "waiting") /\ flows[k].tab = t}

Held(n) ==
    \/ n = cookie
    \/ \E t \in Tabs : refreshing[t].token = n
    \/ \E k \in Flows : Busy(k) /\ flows[k].token = n

NewToken(n) == n \notin valid /\ ~Held(n)

\* Two tabs that refresh at a time present the same cookie.
Overlap(t) == \E s \in Tabs \ {t} : refreshing[s].phase \in {"sent", "granted"}

\* Mutant of Ask: every 401 sends a refresh of its own, and only the last is heard of.
AskAgain(t) == [phase |-> "sent", token |-> cookie]

\* refreshAccessToken: the calls of a tab share one refresh.
Ask(t) == IF refreshing[t].phase = "none" THEN [phase |-> "sent", token |-> cookie] ELSE refreshing[t]

Sent(f, fresh, tok) == [f EXCEPT !.pc = "sent", !.tries = @ + 1, !.fresh = fresh, !.token = tok]

-----------------------------------------------------------------------------
(* The page.                                                               *)

\* A tab is opened or reloaded: what it had in flight is lost, and it restores its session.
Mount(t, k) ==
    /\ IF form[t] = "closed" THEN UNCHANGED mishaps
       ELSE mishaps < MaxMishaps /\ mishaps' = mishaps + 1
    /\ Busy(k) => flows[k].tab = t
    /\ access' = [access EXCEPT ![t] = FALSE]
    /\ who' = [who EXCEPT ![t] = FALSE]
    /\ initializing' = [initializing EXCEPT ![t] = TRUE]
    /\ form' = [form EXCEPT ![t] = "idle"]
    /\ over' = (over \/ Overlap(t) \/ refreshing[t].phase \in {"sent", "granted"})
    /\ valid' \in IF refreshing[t].phase = "sent" THEN {valid, valid \ {refreshing[t].token}} ELSE {valid}
    /\ refreshing' = [refreshing EXCEPT ![t] = [phase |-> "sent", token |-> cookie]]
    /\ flows' = [j \in Flows |->
        IF j = k THEN [kind |-> "restore", tab |-> t, pc |-> "waiting", tries |-> 0,
                       fresh |-> FALSE, token |-> NoToken]
        ELSE IF Busy(j) /\ flows[j].tab = t THEN Free ELSE flows[j]]
    /\ UNCHANGED cookie

Offered(t) ==
    IF who[t] THEN {"logout", "password", "profile"}
    ELSE IF form[t] = "idle" THEN {"login"} ELSE {}

\* A call of the user or of a view.
Begin(t, k) ==
    /\ ~Busy(k)
    /\ \E kind \in Offered(t) :
        /\ flows' = [flows EXCEPT ![k] =
               [kind |-> kind, tab |-> t, pc |-> "sent", tries |-> 1,
                fresh |-> access[t], token |-> cookie]]
        /\ form' = IF kind = "login" THEN [form EXCEPT ![t] = "submitting"] ELSE form
    /\ UNCHANGED <<valid, cookie, access, refreshing, who, initializing, over, mishaps>>

\* The access token of a tab runs out.
Expire(t) ==
    /\ access[t]
    /\ access' = [access EXCEPT ![t] = FALSE]
    /\ UNCHANGED <<valid, cookie, refreshing, provider, flows, over, mishaps>>

-----------------------------------------------------------------------------
(* The server.                                                             *)

Outcome(k, pc) == flows' = [flows EXCEPT ![k].pc = pc]

\* A token that no tab can present any more runs out in the end.
Lapse(n) ==
    /\ n \in valid /\ ~Held(n)
    /\ valid' = valid \ {n}
    /\ UNCHANGED <<cookie, access, refreshing, provider, flows, over, mishaps>>

\* A refresh accepts a live token once.
ServeRefresh(t) ==
    /\ refreshing[t].phase = "sent"
    /\ LET tok == refreshing[t].token IN
       IF tok \in valid
       THEN \E n \in Tokens :
              /\ NewToken(n)
              /\ valid' = (valid \ {tok}) \cup {n}
              /\ refreshing' = [refreshing EXCEPT ![t] = [phase |-> "granted", token |-> n]]
       ELSE /\ refreshing' = [refreshing EXCEPT ![t].phase = "refused"]
            /\ UNCHANGED valid
    /\ UNCHANGED <<cookie, access, provider, flows, over, mishaps>>

ServeLogin(k) ==
    /\ At(k, "sent") /\ flows[k].kind = "login"
    /\ \/ \E n \in Tokens :
            /\ NewToken(n)
            /\ valid' = valid \cup {n}
            /\ flows' = [flows EXCEPT ![k].pc = "ok", ![k].token = n]
       \/ Outcome(k, "refused") /\ UNCHANGED valid
    /\ UNCHANGED <<cookie, access, refreshing, provider, over, mishaps>>

\* Logout needs no access token: it revokes the token of the cookie it was sent with.
ServeLogout(k) ==
    /\ At(k, "sent") /\ flows[k].kind = "logout"
    /\ valid' = valid \ {flows[k].token}
    /\ over' = TRUE
    /\ Outcome(k, "ok")
    /\ UNCHANGED <<cookie, access, refreshing, provider, mishaps>>

\* The other calls need a token that has not run out.  A wrong old password is a 401 too.
ServeCall(k) ==
    /\ At(k, "sent") /\ flows[k].kind \in {"restore", "password", "profile"}
    /\ \/ ~flows[k].fresh /\ Outcome(k, "401") /\ UNCHANGED <<valid, over>>
       \/ /\ flows[k].fresh /\ flows[k].kind = "password"
          /\ \/ Outcome(k, "ok") /\ valid' = {} /\ over' = TRUE
             \/ Outcome(k, "401") /\ UNCHANGED <<valid, over>>
       \/ /\ flows[k].fresh /\ flows[k].kind # "password"
          /\ Outcome(k, "ok") \/ Outcome(k, "refused")
          /\ UNCHANGED <<valid, over>>
    /\ UNCHANGED <<cookie, access, refreshing, provider, mishaps>>

\* A network error, before or after the server has done its part.
LoseCall(k) ==
    /\ mishaps < MaxMishaps /\ mishaps' = mishaps + 1
    /\ Busy(k) /\ flows[k].pc \in {"sent", "ok"}
    /\ Outcome(k, "refused")
    /\ UNCHANGED <<valid, cookie, access, refreshing, provider, over>>

LoseRefresh(t) ==
    /\ mishaps < MaxMishaps /\ mishaps' = mishaps + 1
    /\ refreshing[t].phase \in {"sent", "granted"}
    /\ refreshing' = [refreshing EXCEPT ![t].phase = "failed"]
    /\ over' = (over \/ refreshing[t].phase = "granted")
    /\ UNCHANGED <<valid, cookie, access, provider, flows>>

-----------------------------------------------------------------------------
(* Answers.                                                                *)

\* Mutant of Refreshed: a failed refresh never wakes the calls that wait for it.
RefreshedAlone(t) ==
    /\ refreshing[t].phase \in {"granted", "refused", "failed"}
    /\ LET granted == refreshing[t].phase = "granted" IN
       /\ access' = [access EXCEPT ![t] = granted]
       /\ cookie' = IF granted THEN refreshing[t].token ELSE NoToken
       /\ flows' = [k \in Flows |->
            IF k \in Waiting(t) /\ granted THEN Sent(flows[k], TRUE, refreshing[t].token) ELSE flows[k]]
       /\ over' = (over \/ (refreshing[t].phase = "refused" /\ cookie \in valid))
    /\ refreshing' = [refreshing EXCEPT ![t] = NoRefresh]
    /\ UNCHANGED <<valid, provider, mishaps>>

\* doRefresh: whatever goes wrong, the tab forgets its token.  The calls that waited are sent
\* again with the new token, or fail; a restore goes on to ask who it is.
Refreshed(t) ==
    /\ refreshing[t].phase \in {"granted", "refused", "failed"}
    /\ LET granted == refreshing[t].phase = "granted" IN
       /\ access' = [access EXCEPT ![t] = granted]
       /\ cookie' = CASE granted -> refreshing[t].token
                      [] refreshing[t].phase = "refused" -> NoToken
                      [] OTHER -> cookie
       /\ flows' = [k \in Flows |->
            IF k \notin Waiting(t) THEN flows[k]
            ELSE IF granted THEN Sent(flows[k], TRUE, refreshing[t].token)
            ELSE [flows[k] EXCEPT !.pc = "refused"]]
       \* the clear of a refusal may overtake the cookie of a login
       /\ over' = (over \/ (refreshing[t].phase = "refused" /\ cookie \in valid))
    /\ refreshing' = [refreshing EXCEPT ![t] = NoRefresh]
    /\ UNCHANGED <<valid, provider, mishaps>>

\* Mutant of MayRetry: the retry of a call is retried too.
MayRetryAlways(k) == TRUE

\* Only a call that has been sent once is sent again.
MayRetry(k) == flows[k].tries = 1

\* request(): a first 401 joins the refresh of the tab.
Unauthorized(k) ==
    /\ At(k, "401")
    /\ LET t == flows[k].tab IN
       \/ /\ MayRetry(k)
          /\ refreshing' = [refreshing EXCEPT ![t] = Ask(t)]
          /\ flows' = [flows EXCEPT ![k].pc = "waiting"]
          /\ over' = (over \/ Overlap(t))
       \/ ~MayRetry(k) /\ Outcome(k, "refused") /\ UNCHANGED <<refreshing, over>>
    /\ UNCHANGED <<valid, cookie, access, provider, mishaps>>

Ended(k) == Busy(k) /\ flows[k].pc \in {"ok", "refused"}

End(k, kinds) == Ended(k) /\ flows[k].kind \in kinds /\ flows' = [flows EXCEPT ![k] = Free]

Restored(k) ==
    /\ End(k, {"restore"})
    /\ LET t == flows[k].tab IN
       /\ who' = IF flows[k].pc = "ok" THEN [who EXCEPT ![t] = TRUE] ELSE who
       /\ initializing' = [initializing EXCEPT ![t] = FALSE]
    /\ UNCHANGED <<valid, cookie, access, refreshing, form, over, mishaps>>

\* login and register.
LoggedIn(k) ==
    /\ End(k, {"login"})
    /\ LET t == flows[k].tab IN
       \/ /\ flows[k].pc = "ok"
          /\ cookie' = flows[k].token
          /\ access' = [access EXCEPT ![t] = TRUE]
          /\ who' = [who EXCEPT ![t] = TRUE]
          /\ form' = [form EXCEPT ![t] = "idle"]
          /\ over' = (flows[k].token \notin valid \/ (over /\ \E s \in Tabs : refreshing[s] # NoRefresh))
       \/ /\ flows[k].pc = "refused"
          /\ form' = [form EXCEPT ![t] = "idle"]
          /\ UNCHANGED <<cookie, access, who, over>>
    /\ UNCHANGED <<valid, refreshing, initializing, mishaps>>

\* Logging out is best effort: the tab forgets its token and its user whatever the answer is.
LoggedOut(k) ==
    /\ End(k, {"logout"})
    /\ LET t == flows[k].tab IN
       /\ cookie' = IF flows[k].pc = "ok" THEN NoToken ELSE cookie
       /\ access' = [access EXCEPT ![t] = FALSE]
       /\ who' = [who EXCEPT ![t] = FALSE]
       /\ form' = [form EXCEPT ![t] = "idle"]
    /\ UNCHANGED <<valid, refreshing, initializing, over, mishaps>>

PasswordChanged(k) ==
    /\ End(k, {"password"})
    /\ LET t == flows[k].tab IN
       \/ /\ flows[k].pc = "ok"
          /\ cookie' = NoToken
          /\ access' = [access EXCEPT ![t] = FALSE]
          /\ who' = [who EXCEPT ![t] = FALSE]
          /\ form' = [form EXCEPT ![t] = "idle"]
       \/ flows[k].pc = "refused" /\ UNCHANGED <<cookie, access, who, form>>
    /\ UNCHANGED <<valid, refreshing, initializing, over, mishaps>>

\* updateProfile, uploadAvatar and deleteAvatar set the user to the one the answer names, and so
\* bring back a user who has logged out meanwhile.
ProfileSaved(k) ==
    /\ End(k, {"profile"})
    /\ who' = IF flows[k].pc = "ok" THEN [who EXCEPT ![flows[k].tab] = TRUE] ELSE who
    /\ UNCHANGED <<valid, cookie, access, refreshing, initializing, form, over, mishaps>>

-----------------------------------------------------------------------------
\* Nothing is open yet; the cookie of an earlier visit may be there.
Init ==
    /\ cookie \in Tokens \cup {NoToken}
    /\ valid = {cookie} \ {NoToken}
    /\ access = [t \in Tabs |-> FALSE]
    /\ refreshing = [t \in Tabs |-> NoRefresh]
    /\ who = [t \in Tabs |-> FALSE]
    /\ initializing = [t \in Tabs |-> TRUE]
    /\ form = [t \in Tabs |-> "closed"]
    /\ flows = [k \in Flows |-> Free]
    /\ over = FALSE /\ mishaps = 0

Serve(k)  == ServeLogin(k) \/ ServeLogout(k) \/ ServeCall(k)
Answer(k) ==
    \/ Unauthorized(k) \/ Restored(k) \/ LoggedIn(k) \/ LoggedOut(k)
    \/ PasswordChanged(k) \/ ProfileSaved(k)

\* Nothing can be told from when a token that nobody holds runs out: it does so at once.
AllHeld == \A n \in valid : Held(n)

Next ==
    \/ /\ AllHeld
       /\ \E t \in Tabs :
        \/ Expire(t) \/ ServeRefresh(t) \/ Refreshed(t) \/ LoseRefresh(t)
        \/ \E k \in Flows : Mount(t, k) \/ Begin(t, k)
    \/ /\ AllHeld
       /\ \E k \in Flows : Serve(k) \/ Answer(k) \/ LoseCall(k)
    \/ \E n \in Tokens : Lapse(n)

Spec == Init /\ [][Next]_vars

-----------------------------------------------------------------------------
TypeOK ==
    /\ valid \subseteq Tokens /\ cookie \in Tokens \cup {NoToken}
    /\ access \in [Tabs -> BOOLEAN]
    /\ refreshing \in [Tabs -> Refresh]
    /\ who \in [Tabs -> BOOLEAN] /\ initializing \in [Tabs -> BOOLEAN]
    /\ form \in [Tabs -> {"closed", "idle", "submitting"}]
    /\ flows \in [Flows -> Flow \cup {Free}]
    /\ over \in BOOLEAN /\ mishaps \in 0..MaxMishaps

\* The server refuses a refresh only to a browser without a cookie, or after the session was ended,
\* a rotation lost, or two tabs refreshed at a time: however many calls of a tab fail together, and
\* whichever tab comes next, the cookie is one the server accepts.
RefusedOnlyWhenOver ==
    \A t \in Tabs : refreshing[t].phase = "refused" => over \/ refreshing[t].token = NoToken

\* A call that waits for a refresh has one to wait for.
WaitersHaveRefresh == \A t \in Tabs : Waiting(t) # {} => refreshing[t].phase # "none"

\* A call is sent twice at most.
SentTwiceAtMost == \A k \in Flows : At(k, "waiting") => flows[k].tries < 2

InFlight(t) == refreshing[t].phase \in {"sent", "granted"}

\* Why a refresh is not refused: while the session is not over, one tab at most has a refresh under
\* way, the token it presented or was granted is accepted, and so is the cookie, but for the time in
\* which the answer to a refresh is on its way to replace it.
CookieIsLive ==
    ~over =>
        /\ \A s, t \in Tabs : InFlight(s) /\ InFlight(t) => s = t
        /\ \A t \in Tabs : InFlight(t) =>
              \/ refreshing[t].token \in valid
              \/ refreshing[t] = [phase |-> "sent", token |-> NoToken]
        /\ (\A t \in Tabs : refreshing[t].phase # "granted") => cookie \in valid \cup {NoToken}

\* What the steps of a session preserve: every variable has its type, no call waits for nothing or is
\* sent a third time, and the cookie is one the server accepts.
SessionInv == TypeOK /\ WaitersHaveRefresh /\ SentTwiceAtMost /\ CookieIsLive
=============================================================================
