----------------------------- MODULE AuthSession -----------------------------
(***************************************************************************)
(* Accounts and sessions (internal/auth): the users table, the             *)
(* refresh_tokens table, and the requests that register, log in, rotate a  *)
(* refresh token, log out, change a password and reset one.  No request    *)
(* uses a transaction, so each is a sequence of single statements that     *)
(* interleave with those of the others.                                    *)
(*                                                                         *)
(* A password is the number of times it was set.  A session is what a      *)
(* registration or a login begins and refreshes prolong: the tokens of a   *)
(* session each replace the one before.  A request that is refused before  *)
(* it writes anything leaves no trace here.                                *)
(***************************************************************************)
EXTENDS Naturals, FiniteSets

CONSTANTS
    Users,
    Requests,     \* the HTTP requests that may be in flight together
    MaxTokens,    \* bound: refresh tokens ever issued
    MaxRequests,  \* bound: requests ever begun
    MaxChanges,   \* bound: changes and resets of passwords ever begun
    MaxFaults,    \* bound: failed statements
    MaxCrashes,   \* bound: ends of the process
    NoUser

ASSUME AuthAssumption ==
    /\ NoUser \notin Users
    /\ MaxTokens \in Nat /\ MaxRequests \in Nat /\ MaxChanges \in Nat
    /\ MaxFaults \in Nat /\ MaxCrashes \in Nat

VARIABLES
    \* users: the password (0: no account yet), disabled, must_change_password
    password, disabled, mustChange,
    \* refresh_tokens: the user of each row (NoUser: not inserted), the rows that are not
    \* revoked, those whose time is over, and the next id
    owner, live, expired, nextToken,
    \* requests: the next step, the user, the token found (0: none), the password known
    pc, who, tok, ver,
    issued, changes, faults, crashes,
    \* history: the session of each token and the password it began with; sessions that were ended;
    \* the newest password whose change has revoked all tokens; requests and tokens that such a
    \* revocation has overtaken
    session, basis, ended, settled, late, overtaken

users    == <<password, disabled, mustChange>>
tokens   == <<owner, live, expired, nextToken>>
requests == <<pc, who, tok, ver>>
budget   == <<issued, changes, faults, crashes>>
history  == <<session, basis, ended, settled, late, overtaken>>
vars     == <<users, tokens, requests, budget, history>>

Tokens  == 1..MaxTokens
NoToken == 0

TokensOf(u) == {t \in Tokens : owner[t] = u}

\* Requests that have passed their checks and will issue a token to u.
Issuing(u) == {c \in Requests : who[c] = u /\ pc[c] \in {"find_user", "revoke", "issue"}}

Init ==
    /\ password = [u \in Users |-> 0]
    /\ disabled = {} /\ mustChange = {}
    /\ owner = [t \in Tokens |-> NoUser]
    /\ live = {} /\ expired = {} /\ nextToken = 1
    /\ pc = [c \in Requests |-> "idle"]
    /\ who = [c \in Requests |-> NoUser]
    /\ tok = [c \in Requests |-> NoToken]
    /\ ver = [c \in Requests |-> 0]
    /\ issued = 0 /\ changes = 0 /\ faults = 0 /\ crashes = 0
    /\ session = [t \in Tokens |-> NoToken]
    /\ basis = [t \in Tokens |-> 0]
    /\ ended = {}
    /\ settled = [u \in Users |-> 0]
    /\ late = {} /\ overtaken = {}

\* Request c starts for user u at this step, with token t and password p in hand.
Begin(c, step, u, t, p) ==
    /\ pc[c] = "idle"
    /\ issued < MaxRequests /\ issued' = issued + 1
    /\ pc' = [pc EXCEPT ![c] = step]
    /\ who' = [who EXCEPT ![c] = u]
    /\ tok' = [tok EXCEPT ![c] = t]
    /\ ver' = [ver EXCEPT ![c] = p]

GoOn(c, step) == pc' = [pc EXCEPT ![c] = step] /\ UNCHANGED <<who, tok, ver>>

\* Request c is answered.
Answer(c) ==
    /\ pc' = [pc EXCEPT ![c] = "idle"]
    /\ who' = [who EXCEPT ![c] = NoUser]
    /\ tok' = [tok EXCEPT ![c] = NoToken]
    /\ ver' = [ver EXCEPT ![c] = 0]
    /\ late' = late \ {c}

(***************************************************************************)
(* Register and Login.                                                     *)
(***************************************************************************)

\* EmailExists has found no account.
BeginRegister(c, u) ==
    /\ password[u] = 0
    /\ Begin(c, "create", u, NoToken, 1)
    /\ UNCHANGED <<users, tokens, changes, faults, crashes, history>>

\* The INSERT; the unique index on the email refuses the second of two.
CreateUser(c) ==
    /\ pc[c] = "create"
    /\ IF password[who[c]] = 0
         THEN /\ password' = [password EXCEPT ![who[c]] = 1]
              /\ GoOn(c, "issue")
              /\ UNCHANGED late
         ELSE Answer(c) /\ UNCHANGED password
    /\ UNCHANGED <<disabled, mustChange, tokens, budget, session, basis, ended, settled, overtaken>>

\* FindByEmail, the check of disabled and VerifyPassword work on one row as it was read.
BeginLogin(c, u) ==
    /\ password[u] # 0 /\ u \notin disabled
    /\ Begin(c, "issue", u, NoToken, password[u])
    /\ UNCHANGED <<users, tokens, changes, faults, crashes, history>>

\* issueTokens: the row of a new token.  It begins a session, or prolongs that of the token found.
Issue(c) ==
    /\ pc[c] = "issue" /\ nextToken \in Tokens
    /\ owner' = [owner EXCEPT ![nextToken] = who[c]]
    /\ live' = live \cup {nextToken}
    /\ nextToken' = nextToken + 1
    /\ session' = [session EXCEPT ![nextToken] = IF tok[c] = NoToken THEN nextToken ELSE session[tok[c]]]
    /\ basis' = [basis EXCEPT ![nextToken] = ver[c]]
    /\ overtaken' = IF c \in late THEN overtaken \cup {nextToken} ELSE overtaken
    /\ Answer(c)
    /\ UNCHANGED <<users, expired, budget, ended, settled>>

(***************************************************************************)
(* Refresh and Logout.                                                     *)
(***************************************************************************)

\* FindByHash has found the row, not revoked and not expired.
BeginRefresh(c, t) ==
    /\ t \in live \ expired
    /\ Begin(c, "find_user", owner[t], t, basis[t])
    /\ late' = IF t \in overtaken THEN late \cup {c} ELSE late
    /\ UNCHANGED <<users, tokens, changes, faults, crashes, session, basis, ended, settled, overtaken>>

\* Mutant of FindUser: the token is revoked before the user is looked at.
FindUserRevoking(c) ==
    /\ pc[c] = "find_user"
    /\ live' = live \ {tok[c]}
    /\ IF who[c] \in disabled THEN Answer(c) ELSE GoOn(c, "issue") /\ UNCHANGED late
    /\ UNCHANGED <<users, owner, expired, nextToken, budget, session, basis, ended, settled, overtaken>>

FindUser(c) ==
    /\ pc[c] = "find_user"
    /\ IF who[c] \in disabled THEN Answer(c) ELSE GoOn(c, "revoke") /\ UNCHANGED late
    /\ UNCHANGED <<users, tokens, budget, session, basis, ended, settled, overtaken>>

\* The old token, by its id: revoked already or not.
Revoke(c) ==
    /\ pc[c] = "revoke"
    /\ live' = live \ {tok[c]}
    /\ GoOn(c, "issue")
    /\ UNCHANGED <<users, owner, expired, nextToken, budget, history>>

\* Any token that is known will do, be it revoked or expired.
BeginLogout(c, t) ==
    /\ owner[t] # NoUser
    /\ Begin(c, "logout", owner[t], t, 0)
    /\ UNCHANGED <<users, tokens, changes, faults, crashes, history>>

Logout(c) ==
    /\ pc[c] = "logout"
    /\ live' = live \ {tok[c]}
    /\ ended' = IF tok[c] \in live THEN ended \cup {session[tok[c]]} ELSE ended
    /\ Answer(c)
    /\ UNCHANGED <<users, owner, expired, nextToken, budget, session, basis, settled, overtaken>>

(***************************************************************************)
(* ChangePassword, ResetPasswordByAdmin and UpdateUser.                    *)
(***************************************************************************)

Changing == changes < MaxChanges /\ changes' = changes + 1

\* RequireAuth has let an enabled user in, and the old password was verified.
BeginChange(c, u) ==
    /\ password[u] # 0 /\ u \notin disabled
    /\ Changing
    /\ Begin(c, "change", u, NoToken, password[u])
    /\ UNCHANGED <<users, tokens, faults, crashes, history>>

BeginReset(c, u) ==
    /\ password[u] # 0
    /\ Changing
    /\ Begin(c, "reset", u, NoToken, password[u])
    /\ UNCHANGED <<users, tokens, faults, crashes, history>>

\* UpdatePassword, by the id of the user alone: must_change_password is set by a reset and cleared
\* by a change.
UpdatePassword(c) ==
    /\ pc[c] \in {"change", "reset"}
    /\ password' = [password EXCEPT ![who[c]] = @ + 1]
    /\ mustChange' = IF pc[c] = "reset" THEN mustChange \cup {who[c]} ELSE mustChange \ {who[c]}
    /\ pc' = [pc EXCEPT ![c] = "revoke_all"]
    /\ ver' = [ver EXCEPT ![c] = password[who[c]] + 1]
    /\ UNCHANGED <<who, tok, disabled, tokens, budget, history>>

\* Mutant of RevokeAll: one session is taken for all of them.
RevokeOne(c) ==
    /\ pc[c] = "revoke_all"
    /\ \E kept \in SUBSET (live \cap TokensOf(who[c])) :
        /\ Cardinality(kept) <= 1
        /\ live' = (live \ TokensOf(who[c])) \cup kept
    /\ ended' = ended \cup {session[t] : t \in TokensOf(who[c])}
    /\ settled' = [settled EXCEPT ![who[c]] = IF ver[c] > @ THEN ver[c] ELSE @]
    /\ pc' = [pc EXCEPT ![c] = "idle"]
    /\ who' = [who EXCEPT ![c] = NoUser]
    /\ tok' = [tok EXCEPT ![c] = NoToken]
    /\ ver' = [ver EXCEPT ![c] = 0]
    /\ late' = late \cup Issuing(who[c])
    /\ UNCHANGED <<users, owner, expired, nextToken, budget, session, basis, overtaken>>

\* RevokeAllForUser: every token of the user that is in the table.
RevokeAll(c) ==
    /\ pc[c] = "revoke_all"
    /\ live' = live \ TokensOf(who[c])
    /\ ended' = ended \cup {session[t] : t \in TokensOf(who[c])}
    /\ settled' = [settled EXCEPT ![who[c]] = IF ver[c] > @ THEN ver[c] ELSE @]
    /\ pc' = [pc EXCEPT ![c] = "idle"]
    /\ who' = [who EXCEPT ![c] = NoUser]
    /\ tok' = [tok EXCEPT ![c] = NoToken]
    /\ ver' = [ver EXCEPT ![c] = 0]
    /\ late' = late \cup Issuing(who[c])
    /\ UNCHANGED <<users, owner, expired, nextToken, budget, session, basis, overtaken>>

\* UpdateUser of the admin, one UPDATE.
SetDisabled(u) ==
    /\ password[u] # 0
    /\ disabled' \in {disabled \cup {u}, disabled \ {u}}
    /\ UNCHANGED <<password, mustChange, tokens, requests, budget, history>>

(***************************************************************************)
(* Time, failures and the end of the process.                              *)
(***************************************************************************)

\* RefreshTTL has passed for a token.
Expire(t) ==
    /\ t \in live \ expired
    /\ expired' = expired \cup {t}
    /\ ended' = ended \cup {session[t]}
    /\ UNCHANGED <<users, owner, live, nextToken, requests, budget, session, basis, settled, late, overtaken>>

\* Sessions whose old token is revoked and whose new one is not there yet.
BetweenTokens(cs) == {session[tok[c]] : c \in {d \in cs : pc[d] = "issue" /\ tok[d] # NoToken}}

\* The next statement of c fails: it is answered with an error.
RequestError(c) ==
    /\ pc[c] # "idle"
    /\ faults < MaxFaults /\ faults' = faults + 1
    /\ ended' = ended \cup BetweenTokens({c})
    /\ Answer(c)
    /\ UNCHANGED <<users, tokens, issued, changes, crashes, session, basis, settled, overtaken>>

\* The process ends, and its requests with it; the next one finds the tables as they are.
Crash ==
    /\ crashes < MaxCrashes /\ crashes' = crashes + 1
    /\ ended' = ended \cup BetweenTokens(Requests)
    /\ pc' = [c \in Requests |-> "idle"]
    /\ who' = [c \in Requests |-> NoUser]
    /\ tok' = [c \in Requests |-> NoToken]
    /\ ver' = [c \in Requests |-> 0]
    /\ late' = {}
    /\ UNCHANGED <<users, tokens, issued, changes, faults, session, basis, settled, overtaken>>

NewRequest(c) ==
    \/ \E u \in Users : BeginRegister(c, u) \/ BeginLogin(c, u) \/ BeginChange(c, u) \/ BeginReset(c, u)
    \/ \E t \in Tokens : BeginRefresh(c, t) \/ BeginLogout(c, t)

Step(c) ==
    \/ CreateUser(c) \/ Issue(c) \/ FindUser(c) \/ Revoke(c) \/ Logout(c)
    \/ UpdatePassword(c) \/ RevokeAll(c)

Next ==
    \/ \E c \in Requests : NewRequest(c) \/ Step(c) \/ RequestError(c)
    \/ \E u \in Users : SetDisabled(u)
    \/ \E t \in Tokens : Expire(t)
    \/ Crash

Spec == Init /\ [][Next]_vars

(***************************************************************************)
(* Properties.                                                             *)
(***************************************************************************)

\* Every variable has its type, and the rows of the tokens are the ids given out so far.
UsersOK ==
    /\ password \in [Users -> Nat]
    /\ disabled \subseteq Users /\ mustChange \subseteq Users

TokensOK ==
    /\ owner \in [Tokens -> Users \cup {NoUser}]
    /\ live \cup expired \subseteq {t \in Tokens : t < nextToken}
    /\ nextToken \in 1..(MaxTokens + 1)
    /\ \A t \in Tokens : owner[t] # NoUser <=> t < nextToken

RequestsOK ==
    /\ pc \in [Requests -> {"idle", "create", "issue", "find_user", "revoke", "logout",
                            "change", "reset", "revoke_all"}]
    /\ who \in [Requests -> Users \cup {NoUser}]
    /\ tok \in [Requests -> Tokens \cup {NoToken}]
    /\ ver \in [Requests -> Nat]
    /\ \A c \in Requests : pc[c] # "idle" => who[c] \in Users

BudgetOK ==
    /\ issued \in 0..MaxRequests /\ changes \in 0..MaxChanges
    /\ faults \in 0..MaxFaults /\ crashes \in 0..MaxCrashes

HistoryOK ==
    /\ session \in [Tokens -> Tokens \cup {NoToken}]
    /\ basis \in [Tokens -> Nat]
    /\ ended \subseteq Tokens \cup {NoToken}
    /\ settled \in [Users -> Nat]
    /\ late \subseteq Requests /\ overtaken \subseteq Tokens

TypeOK == UsersOK /\ TokensOK /\ RequestsOK /\ BudgetOK /\ HistoryOK

\* docs/api.md, POST /auth/refresh, "rotates the cookie": rotation never loses a session.  As long
\* as nobody logs out, changes the password or fails between the two statements, and no token
\* runs out, a session has a token that will be accepted, or gets one next: also when several
\* refreshes use one token, and while its user is disabled.
SessionKept ==
    \A t \in Tokens : owner[t] # NoUser /\ session[t] \notin ended =>
        \/ \E s \in live \ expired : session[s] = session[t]
        \/ session[t] \in BetweenTokens(Requests)

\* docs/api.md, POST /auth/password: a change revokes all refresh tokens.  The sessions that began
\* with an older password are over, but for those that a login or refresh prolonged that had
\* passed its checks when the tokens were revoked.
PasswordEndsSessions ==
    \A t \in live : basis[t] < settled[owner[t]] => t \in overtaken

\* What the proofs need to know besides.  Only tokens of the table are in hand.
TokensKnown ==
    /\ \A c \in Requests : tok[c] # NoToken => tok[c] < nextToken
    /\ \A c \in Requests : pc[c] = "revoke" \/ pc[c] = "find_user" => tok[c] # NoToken

\* A request about to revoke all tokens knows a password that was set; passwords only grow.
PasswordsKnown ==
    /\ \A c \in Requests : pc[c] = "revoke_all" => ver[c] <= password[who[c]]
    /\ \A u \in Users : settled[u] <= password[u]

\* A request that is about to prolong an outdated session was overtaken.
LateKnown == \A u \in Users : \A c \in Issuing(u) : ver[c] < settled[u] => c \in late

\* The inductive invariant: what each step of each request relies on, whatever the others do.
AuthInv ==
    /\ TypeOK /\ TokensKnown /\ PasswordsKnown /\ LateKnown
    /\ SessionKept /\ PasswordEndsSessions
=============================================================================
