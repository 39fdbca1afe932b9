---------------------------- MODULE AccountForms ----------------------------
(***************************************************************************)
(* The forms of an account: login, registration, and the account section   *)
(* of the settings.  The login and the registration share the status of    *)
(* the provider, and one may be left for the other while it is being       *)
(* submitted; the configuration of the site, which comes later, fills in   *)
(* or takes away the demo login and closes the registration.               *)
(*                                                                         *)
(* A value of a field is its class: empty, too short or malformed, the     *)
(* user's own, another one, or that of the demo login.  The session ends   *)
(* with a change of the password or with the logout of the header.         *)
(***************************************************************************)
EXTENDS Naturals, FiniteSets

CONSTANTS
    Names,         \* display names
    NoUser,
    MaxEdits,      \* bound: edits, blurs and openings of dialogs
    MaxConfigs,    \* bound: answers with the configuration of the site
    MaxSubmits     \* bound: submissions of all kinds

VARIABLES
    page,                           \* the route
    user,                           \* the provider's: the display name of the user
    authStatus, authError,          \* the provider's; the error is that of an attempt
    registrationEnabled, demoLoginEnabled,
    values, touched, errors, agreeTerms,          \* the form that is mounted
    typed,                          \* ghost: the fields that hold what the user typed
    refilled,                       \* ghost: those that the configuration has changed since the last validation
    displayName, displayNameError, profilePending, avatarPending,      \* AccountSection
    passwordOpen, passwordPending, passwordValues, passwordErrors,
    section, avatarChosen,
    mountedAt,                      \* which mount of AccountSection it is: the edits before it
    calls,                          \* calls in flight
    crossed,                        \* ghost: the session was ended by a late answer during an attempt to enter
    serverName,
    edits, configs, submits

session == <<user, authStatus, authError>>
site    == <<registrationEnabled, demoLoginEnabled>>
form    == <<values, touched, errors, agreeTerms, typed, refilled>>
account == <<displayName, displayNameError, profilePending, avatarPending, avatarChosen, section, mountedAt,
             passwordOpen, passwordPending, passwordValues, passwordErrors>>
vars == <<page, session, site, form, account, calls, crossed, serverName, edits, configs, submits>>

Edit   == edits < MaxEdits /\ edits' = edits + 1 /\ UNCHANGED <<configs, submits>>
Config == configs < MaxConfigs /\ configs' = configs + 1 /\ UNCHANGED <<edits, submits>>
Submit == submits < MaxSubmits /\ submits' = submits + 1 /\ UNCHANGED <<edits, configs>>
Free   == UNCHANGED <<edits, configs, submits>>

-----------------------------------------------------------------------------
(* Validation.                                                             *)

Fields == [login |-> {"email", "password"},
           register |-> {"displayName", "email", "password", "confirmPassword"}]
Mounted == IF page \in DOMAIN Fields THEN Fields[page] ELSE {}

Choices(f) == {"empty", "bad", "own"} \cup (IF f \in {"displayName", "email"} THEN {} ELSE {"other"})

Blank == [f \in Fields.register |-> "empty"]

Valid(v) == v \notin {"empty", "bad"}

runValidation(vs) ==
    {f \in Mounted : IF f = "confirmPassword" THEN vs.confirmPassword # vs.password
                     ELSE ~Valid(vs[f])}

-----------------------------------------------------------------------------
(* Login and registration.                                                 *)

Submitting == authStatus = "submitting"

\* The effect of LoginForm on the demo login: it overwrites nothing but its own values.
DemoFilled(vs, demo) ==
    IF demo THEN [vs EXCEPT !.email = IF @ = "empty" THEN "demo" ELSE @,
                            !.password = IF @ = "empty" THEN "demo" ELSE @]
    ELSE [vs EXCEPT !.email = IF @ = "demo" THEN "empty" ELSE @,
                    !.password = IF @ = "demo" THEN "empty" ELSE @]

\* Mutant of clearError: whatever the status is, the form is free again.
clearErrorAlways == authStatus' = "idle" /\ authError' = FALSE

clearError ==
    /\ authStatus' = IF authStatus = "error" THEN "idle" ELSE authStatus
    /\ authError' = FALSE

\* A form is mounted blank and clears the error of the last attempt.
Mount(p) ==
    /\ page' = p
    /\ values' = IF p = "login" THEN DemoFilled(Blank, demoLoginEnabled) ELSE Blank
    /\ touched' = {} /\ errors' = {} /\ agreeTerms' = FALSE /\ typed' = {} /\ refilled' = {}

NoPasswords == [old |-> "empty", new |-> "empty", confirm |-> "empty"]

MountAccount(name) ==
    /\ displayName' = name /\ displayNameError' = FALSE
    /\ profilePending' = FALSE /\ avatarPending' = FALSE /\ avatarChosen' = "none"
    /\ passwordOpen' = FALSE /\ passwordPending' = FALSE
    /\ passwordValues' = NoPasswords /\ passwordErrors' = {}
    /\ section' = "account" /\ mountedAt' = edits'

\* What the forms link to: the registration while it is open, and the login.
LinksTo == (IF registrationEnabled THEN {"register"} ELSE {}) \cup {"login"}

Go(p) ==
    /\ Edit /\ page \in {"login", "register"} /\ p \in LinksTo \ {page}
    /\ Mount(p) /\ clearError
    /\ UNCHANGED <<user, site, account, calls, crossed, serverName>>

\* Mutant of Revalidates: the repeated password is not validated with the password.
RevalidatesOwn(f) == f \in touched

\* A field that was left is validated while it is edited.
Revalidates(f) ==
    f \in touched \/ (page = "register" /\ f = "password" /\ "confirmPassword" \in touched)

Change(f, v) ==
    /\ Edit /\ ~Submitting /\ f \in Mounted
    /\ page = "register" => registrationEnabled
    /\ values' = [values EXCEPT ![f] = v] /\ v # values[f]
    /\ typed' = IF v = "empty" THEN typed \ {f} ELSE typed \cup {f}
    /\ IF Revalidates(f) THEN errors' = runValidation(values') /\ refilled' = {}
       ELSE UNCHANGED <<errors, refilled>>
    /\ UNCHANGED <<page, session, site, touched, agreeTerms, account, calls, crossed, serverName>>

Blur(f) ==
    /\ Edit /\ ~Submitting /\ f \in Mounted
    /\ page = "register" => registrationEnabled
    /\ touched' = touched \cup {f} /\ errors' = runValidation(values) /\ refilled' = {}
    /\ UNCHANGED <<page, session, site, values, typed, agreeTerms, account, calls, crossed, serverName>>

Agree ==
    /\ Edit /\ ~Submitting /\ page = "register" /\ registrationEnabled
    /\ agreeTerms' = ~agreeTerms
    /\ UNCHANGED <<page, session, site, values, typed, touched, errors, refilled, account, calls, crossed,
                   serverName>>

SubmitEnabled ==
    /\ ~Submitting
    /\ page = "register" => registrationEnabled /\ agreeTerms

SubmitForm ==
    /\ Submit /\ Mounted # {} /\ SubmitEnabled
    /\ errors' = runValidation(values) /\ touched' = Mounted /\ refilled' = {}
    /\ IF errors' = {}
       THEN /\ authStatus' = "submitting" /\ authError' = FALSE
            /\ calls' = calls \cup {[kind |-> page, name |-> serverName, at |-> mountedAt, n |-> submits]}
       ELSE UNCHANGED <<authStatus, authError, calls>>
    /\ UNCHANGED <<page, user, site, values, typed, agreeTerms, account, crossed, serverName>>

\* The answer moves on to the workbench from wherever the user is by now.
LoggedIn(c) ==
    /\ Free
    /\ c \in calls /\ c.kind \in {"login", "register"} /\ calls' = calls \ {c}
    /\ \/ /\ user' = serverName /\ authStatus' = "idle" /\ UNCHANGED authError
          /\ Mount("settings") /\ MountAccount(serverName)
       \/ /\ authStatus' = "error" /\ authError' = TRUE
          /\ UNCHANGED <<page, user, form, account>>
    /\ UNCHANGED <<site, crossed, serverName>>

\* Filled in or taken away, a value is not validated.
ConfigArrives(registration, demo) ==
    /\ Config /\ <<registration, demo>> # site
    /\ registrationEnabled' = registration /\ demoLoginEnabled' = demo
    /\ values' = IF page = "login" /\ demo # demoLoginEnabled THEN DemoFilled(values, demo) ELSE values
    /\ refilled' = refilled \cup {f \in Mounted : values'[f] # values[f]}
    /\ UNCHANGED <<page, session, typed, touched, errors, agreeTerms, account, calls, crossed, serverName>>

-----------------------------------------------------------------------------
(* The account section.                                                    *)

Settings == page = "settings" /\ section = "account"

\* Leaving a section unmounts it; its calls go on.
OpenSection(s) ==
    /\ Edit /\ page = "settings" /\ s # section /\ ~passwordOpen
    /\ IF s = "account" THEN MountAccount(user)
       ELSE /\ section' = s
            /\ UNCHANGED <<mountedAt, displayName, displayNameError, profilePending, avatarPending, avatarChosen,
                           passwordOpen, passwordPending, passwordValues, passwordErrors>>
    /\ UNCHANGED <<page, session, site, form, calls, crossed, serverName>>

TypeName(n) ==
    /\ Edit /\ Settings /\ ~profilePending /\ ~passwordOpen
    /\ displayName' = n /\ displayNameError' = FALSE
    /\ UNCHANGED <<page, session, site, form, profilePending, avatarPending, avatarChosen, section, mountedAt,
                   passwordOpen, passwordPending, passwordValues, passwordErrors, calls, crossed, serverName>>

\* On blur; Enter blurs.
SaveName ==
    /\ Settings /\ ~profilePending /\ ~passwordOpen
    /\ displayNameError' = (displayName = "bad")
    /\ IF displayName \notin {"bad", user}
       THEN /\ Submit /\ profilePending' = TRUE
            /\ calls' = calls \cup {[kind |-> "profile", name |-> displayName, at |-> mountedAt, n |-> submits]}
       ELSE Free /\ UNCHANGED <<profilePending, calls>>
    /\ UNCHANGED <<page, session, site, form, displayName, avatarPending, avatarChosen, section, mountedAt,
                   passwordOpen, passwordPending, passwordValues, passwordErrors, crossed, serverName>>

\* A file that is no JPEG or PNG or is too large is refused at once.
ChooseAvatar(file) ==
    /\ Submit /\ Settings /\ ~avatarPending /\ ~passwordOpen
    /\ avatarChosen' = file
    /\ IF file = "image"
       THEN /\ avatarPending' = TRUE
            /\ calls' = calls \cup {[kind |-> "avatar", name |-> serverName, at |-> mountedAt, n |-> submits]}
       ELSE UNCHANGED <<avatarPending, calls>>
    /\ UNCHANGED <<page, session, site, form, displayName, displayNameError, profilePending, section, mountedAt,
                   passwordOpen, passwordPending, passwordValues, passwordErrors, crossed, serverName>>

\* The server has done the call; the answer that comes back says what the name was then.
Written(c) ==
    /\ c \in calls /\ c.kind = "profile" /\ c.name # serverName
    /\ serverName' = c.name
    /\ UNCHANGED <<page, session, site, form, account, calls, crossed>> /\ Free

\* It sets the user, even after the session has ended, which leads away from the login.  What waits
\* for it is the mount that sent it.
ProfileAnswered(c) ==
    /\ Free
    /\ c \in calls /\ c.kind \in {"profile", "avatar"} /\ calls' = calls \ {c}
    /\ \/ /\ c.kind = "avatar" \/ c.name = serverName
          /\ user' = c.name
       \/ UNCHANGED user
    /\ IF user = NoUser /\ user' # NoUser
       THEN Mount("settings") /\ MountAccount(user')
       ELSE /\ displayName' = IF user' # user THEN user' ELSE displayName
            /\ profilePending' = (profilePending /\ (c.at # mountedAt \/ c.kind = "avatar"))
            /\ avatarPending' = (avatarPending /\ (c.at # mountedAt \/ c.kind = "profile"))
            /\ UNCHANGED <<page, form, displayNameError, avatarChosen, section, mountedAt,
                           passwordOpen, passwordPending, passwordValues, passwordErrors>>
    /\ UNCHANGED <<authStatus, authError, site, crossed, serverName>>

PasswordUnchanged == UNCHANGED <<page, site, form, displayName, displayNameError, profilePending,
                                 avatarPending, avatarChosen, section, mountedAt, crossed, serverName>>

resetPasswordForm == passwordValues' = NoPasswords /\ passwordErrors' = {}

\* The dialog may be closed while the change is on its way, and then keeps what was typed.
PasswordDialog(open) ==
    /\ Edit /\ Settings /\ open # passwordOpen /\ passwordOpen' = open
    /\ IF ~open /\ ~passwordPending THEN resetPasswordForm
       ELSE UNCHANGED <<passwordValues, passwordErrors>>
    /\ UNCHANGED <<session, passwordPending, calls>> /\ PasswordUnchanged

TypePassword(f, v) ==
    /\ Edit /\ Settings /\ passwordOpen /\ ~passwordPending /\ passwordValues[f] # v
    /\ passwordValues' = [passwordValues EXCEPT ![f] = v]
    /\ passwordErrors' = passwordErrors \ {f}
    /\ UNCHANGED <<session, passwordOpen, passwordPending, calls>> /\ PasswordUnchanged

validatePasswordForm ==
    (IF passwordValues.old = "empty" THEN {"old"} ELSE {}) \cup
    (IF Valid(passwordValues.new) THEN {} ELSE {"new"}) \cup
    (IF passwordValues.confirm = passwordValues.new THEN {} ELSE {"confirm"})

PasswordSubmittable == passwordOpen /\ ~passwordPending

SubmitPassword ==
    /\ Submit /\ Settings /\ PasswordSubmittable
    /\ passwordErrors' = validatePasswordForm
    /\ IF passwordErrors' = {}
       THEN /\ passwordPending' = TRUE
            /\ calls' = calls \cup {[kind |-> "password", name |-> serverName, at |-> mountedAt, n |-> submits]}
       ELSE UNCHANGED <<passwordPending, calls>>
    /\ UNCHANGED <<session, passwordOpen, passwordValues>> /\ PasswordUnchanged

\* The login is shown and the status taken back, also when the answer comes so late that another
\* attempt to enter is under way by now.  The login that is shown already stays as it is.
SessionEnds ==
    /\ user' = NoUser /\ authStatus' = "idle" /\ authError' = FALSE
    /\ IF page = "login" THEN UNCHANGED <<page, form>> ELSE Mount("login")
    /\ MountAccount(NoUser)
    /\ crossed' = (crossed \/ Submitting)

\* A changed password ends the session, also when the change was sent from a section that was left.
PasswordAnswered(c) ==
    /\ Free
    /\ c \in calls /\ c.kind = "password" /\ calls' = calls \ {c}
    /\ \/ SessionEnds
       \/ /\ passwordPending' = (passwordPending /\ c.at # mountedAt)
          /\ UNCHANGED <<page, session, form, displayName, displayNameError, profilePending, avatarPending,
                         avatarChosen, section, mountedAt, passwordOpen, passwordValues, passwordErrors, crossed>>
    /\ UNCHANGED <<site, serverName>>

\* The header does not say that a logout is under way, and it can be asked for again.
Logout ==
    /\ Submit /\ page = "settings" /\ user # NoUser /\ ~passwordOpen
    /\ calls' = calls \cup {[kind |-> "logout", name |-> serverName, at |-> mountedAt, n |-> submits]}
    /\ UNCHANGED <<page, session, site, form, account, crossed, serverName>>

\* A logout ends the session here, whatever the server says.
LoggedOut(c) ==
    /\ Free
    /\ c \in calls /\ c.kind = "logout" /\ calls' = calls \ {c}
    /\ SessionEnds
    /\ UNCHANGED <<site, serverName>>

-----------------------------------------------------------------------------
Init ==
    /\ page = "login" /\ user = NoUser /\ authStatus = "idle" /\ authError = FALSE
    /\ registrationEnabled = TRUE /\ demoLoginEnabled \in BOOLEAN
    /\ values = DemoFilled(Blank, demoLoginEnabled)
    /\ touched = {} /\ errors = {} /\ agreeTerms = FALSE /\ typed = {} /\ refilled = {}
    /\ displayName = NoUser /\ displayNameError = FALSE /\ profilePending = FALSE
    /\ avatarPending = FALSE /\ avatarChosen = "none" /\ section = "account" /\ mountedAt = 0
    /\ passwordOpen = FALSE /\ passwordPending = FALSE
    /\ passwordValues = NoPasswords /\ passwordErrors = {}
    /\ calls = {} /\ crossed = FALSE /\ serverName \in Names
    /\ edits = 0 /\ configs = 0 /\ submits = 0

Next ==
    \/ Agree \/ SubmitForm \/ SaveName \/ SubmitPassword \/ Logout
    \/ \E p \in DOMAIN Fields : Go(p)
    \/ \E f \in Mounted : Blur(f) \/ \E v \in Choices(f) : Change(f, v)
    \/ \E registration, demo \in BOOLEAN : ConfigArrives(registration, demo)
    \/ \E s \in {"account", "general"} : OpenSection(s)
    \/ \E n \in Names \cup {"bad"} : TypeName(n)
    \/ \E file \in {"image", "other"} : ChooseAvatar(file)
    \/ \E open \in BOOLEAN : PasswordDialog(open)
    \/ \E f \in DOMAIN NoPasswords, v \in {"own", "other"} : TypePassword(f, v)
    \/ \E c \in calls : LoggedIn(c) \/ Written(c) \/ ProfileAnswered(c) \/ PasswordAnswered(c) \/ LoggedOut(c)

Spec == Init /\ [][Next]_vars

-----------------------------------------------------------------------------
\* Whatever the order of edits, blurs and submissions, a field that was left shows an error if and only
\* if what the form now holds is wrong: an edit of the password makes that of the repeated one appear or
\* go.  Only a field of the login that the configuration has filled in or emptied shows what held before,
\* until the next validation.
ShownErrorsAreCurrent ==
    \A f \in touched \ refilled : f \in errors <=> f \in runValidation(values)

\* One attempt to enter at a time, although both forms share it and one may be left for the other
\* while it runs, unless a late answer to a logout or to a change of the password has ended the
\* session meanwhile.  One change of the password at a time, although its dialog may be closed and opened
\* again, as long as the section is not left.
OneAttempt ==
    /\ ~crossed => Cardinality({c \in calls : c.kind \in {"login", "register"}}) <= 1
    /\ Cardinality({c \in calls : c.kind = "password" /\ c.at = mountedAt}) <= 1

\* When the site takes the demo login back, none of it is left in the form; and neither then nor when
\* the site offers it does it replace what the user has typed and not cleared.
DemoGone ==
    page = "login" => \A f \in Fields.login :
        /\ ~demoLoginEnabled => values[f] # "demo"
        /\ f \in typed => values[f] \notin {"empty", "demo"}

\* What a form shows is of this moment: its errors are those of its values, but for values that the
\* configuration has put there since, and the demo login is in it only while the site offers it.
FormIsCurrent == ShownErrorsAreCurrent /\ DemoGone
=============================================================================
