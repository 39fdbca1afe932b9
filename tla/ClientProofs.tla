---------------------------- MODULE ClientProofs ----------------------------
(***************************************************************************)
(* The sessions of the tabs keep their invariant, and a refresh is refused *)
(* only when the session is over, for any number of tabs, calls and tokens *)
(* and for any number of reloads and network errors.  The records of the   *)
(* client have their proofs in RecordClientProofs.                         *)
(***************************************************************************)
EXTENDS Client, TLAPS

USE DEF Ses!vars, Ses!provider, sesVars

-----------------------------------------------------------------------------
(* Types.                                                                  *)

\* A call that is busy is a call, and stays one whatever its next step is.
LEMMA BusyIsFlow ==
  ASSUME Ses!TypeOK, NEW k \in Flows, Ses!Busy(k)
  PROVE  ses_flows[k] \in Ses!Flow
  BY DEF Ses!TypeOK, Ses!Busy

LEMMA FlowStep ==
  ASSUME NEW f \in Ses!Flow, NEW pc \in {"waiting", "sent", "401", "ok", "refused"}
  PROVE  [f EXCEPT !.pc = pc] \in Ses!Flow
  BY DEF Ses!Flow

\* The call that is granted a token is sent again.
LEMMA SentType ==
  ASSUME NEW f \in Ses!Flow, f.tries < 2, NEW tok \in Tokens \cup {NoToken}
  PROVE  Ses!Sent(f, TRUE, tok) \in Ses!Flow
<1>1. f.tries + 1 \in 0..2
  <2>1. f.tries \in 0..2
    BY DEF Ses!Flow
  <2> QED
    BY <2>1
<1> QED
  BY <1>1 DEF Ses!Sent, Ses!Flow

\* Every step of a session keeps the types of its variables.
LEMMA SessionTypeNext ==
  ASSUME Ses!TypeOK, Ses!SentTwiceAtMost, [Ses!Next]_sesVars
  PROVE  Ses!TypeOK'
<1> USE DEF Ses!TypeOK, Ses!Refresh
<1>1. ASSUME NEW t \in Tabs, NEW k \in Flows, Ses!Mount(t, k) PROVE Ses!TypeOK'
  <2>1. ses_over' \in BOOLEAN /\ ses_access' \in [Tabs -> BOOLEAN] /\ ses_who' \in [Tabs -> BOOLEAN]
        /\ ses_initializing' \in [Tabs -> BOOLEAN]
    BY <1>1 DEF Ses!Mount
  <2>2. ses_flows' \in [Flows -> Ses!Flow \cup {Ses!Free}]
    BY <1>1 DEF Ses!Mount, Ses!Flow, Ses!Kinds
  <2>3. ses_valid' \subseteq Tokens /\ ses_cookie' = ses_cookie /\ ses_refreshing' \in [Tabs -> Ses!Refresh]
    BY <1>1 DEF Ses!Mount
  <2>4. ses_form' \in [Tabs -> {"closed", "idle", "submitting"}] /\ ses_mishaps' \in 0..MaxMishaps
    BY <1>1, SessionBound DEF Ses!Mount, SessionBound
  <2> QED
    BY <2>1, <2>2, <2>3, <2>4
<1>2. ASSUME NEW t \in Tabs, NEW k \in Flows, Ses!Begin(t, k) PROVE Ses!TypeOK'
  BY <1>2 DEF Ses!Begin, Ses!Offered, Ses!Flow, Ses!Kinds, Ses!Free, Ses!Busy
<1>3. ASSUME NEW t \in Tabs, Ses!Expire(t) \/ Ses!ServeRefresh(t) PROVE Ses!TypeOK'
  <2>1. CASE Ses!Expire(t)
    BY <2>1 DEF Ses!Expire
  <2>2. CASE Ses!ServeRefresh(t)
    <3>1. ses_refreshing' \in [Tabs -> Ses!Refresh] /\ ses_valid' \subseteq Tokens
      BY <2>2 DEF Ses!ServeRefresh
    <3> QED
      BY <2>2, <3>1 DEF Ses!ServeRefresh
  <2> QED
    BY <1>3, <2>1, <2>2
<1>4. ASSUME NEW t \in Tabs, Ses!LoseRefresh(t) PROVE Ses!TypeOK'
  BY <1>4, SessionBound DEF Ses!LoseRefresh, SessionBound
<1>5. ASSUME NEW t \in Tabs, Ses!Refreshed(t) PROVE Ses!TypeOK'
  <2>1. ses_flows' \in [Flows -> Ses!Flow \cup {Ses!Free}]
    <3>1. \A k \in Ses!Waiting(t) :
             /\ Ses!Sent(ses_flows[k], TRUE, ses_refreshing[t].token) \in Ses!Flow
             /\ [ses_flows[k] EXCEPT !.pc = "refused"] \in Ses!Flow
      BY BusyIsFlow, FlowStep, SentType DEF Ses!Waiting, Ses!At, Ses!SentTwiceAtMost
    <3> QED
      BY <1>5, <3>1 DEF Ses!Refreshed
  <2> QED
    BY <1>5, <2>1 DEF Ses!Refreshed, Ses!NoRefresh
<1>6. ASSUME NEW k \in Flows, Ses!Serve(k) \/ Ses!LoseCall(k) PROVE Ses!TypeOK'
  <2>1. ses_flows[k] \in Ses!Flow
    BY <1>6, BusyIsFlow DEF Ses!Serve, Ses!ServeLogin, Ses!ServeLogout, Ses!ServeCall, Ses!LoseCall, Ses!At
  <2>2. ses_flows' \in [Flows -> Ses!Flow \cup {Ses!Free}]
    <3>1. \A pc \in {"401", "ok", "refused"} : [ses_flows[k] EXCEPT !.pc = pc] \in Ses!Flow
      BY <2>1, FlowStep
    <3>2. CASE \E pc \in {"401", "ok", "refused"} : Ses!Outcome(k, pc)
      BY <3>1, <3>2 DEF Ses!Outcome
    <3>3. CASE Ses!ServeLogin(k)
      BY <2>1, <3>2, <3>3 DEF Ses!ServeLogin, Ses!Flow
    <3> QED
      BY <1>6, <3>2, <3>3 DEF Ses!Serve, Ses!ServeLogout, Ses!ServeCall, Ses!LoseCall
  <2> QED
    <3>1. ses_over' \in BOOLEAN /\ ses_valid' \subseteq Tokens
      BY <1>6 DEF Ses!Serve, Ses!ServeLogin, Ses!ServeLogout, Ses!ServeCall, Ses!LoseCall
    <3>2. ses_mishaps' \in 0..MaxMishaps
      BY <1>6, SessionBound DEF Ses!Serve, Ses!ServeLogin, Ses!ServeLogout, Ses!ServeCall, Ses!LoseCall,
         SessionBound
    <3> QED
      BY <1>6, <2>2, <3>1, <3>2 DEF Ses!Serve, Ses!ServeLogin, Ses!ServeLogout, Ses!ServeCall, Ses!LoseCall
<1>7. ASSUME NEW k \in Flows, Ses!Unauthorized(k) PROVE Ses!TypeOK'
  <2>1. ses_flows[k] \in Ses!Flow
    BY <1>7, BusyIsFlow DEF Ses!Unauthorized, Ses!At
  <2>2. \A pc \in {"waiting", "refused"} : [ses_flows[k] EXCEPT !.pc = pc] \in Ses!Flow
    BY <2>1, FlowStep
  <2>3. ses_flows[k].tab \in Tabs
    BY <2>1 DEF Ses!Flow
  <2>4. Ses!Ask(ses_flows[k].tab) \in Ses!Refresh
    BY <2>3 DEF Ses!Ask
  <2>5. ses_over' \in BOOLEAN
    BY <1>7 DEF Ses!Unauthorized
  <2>6. ses_flows' \in [Flows -> Ses!Flow \cup {Ses!Free}]
    <3>1. \E pc \in {"waiting", "refused"} : ses_flows' = [ses_flows EXCEPT ![k] = [@ EXCEPT !.pc = pc]]
      BY <1>7 DEF Ses!Unauthorized, Ses!Outcome
    <3>2. ses_flows \in [Flows -> Ses!Flow \cup {Ses!Free}]
      OBVIOUS
    <3> HIDE DEF Ses!TypeOK, Ses!Refresh
    <3> QED
      BY <2>2, <3>1, <3>2
  <2>7. ses_refreshing' \in [Tabs -> Ses!Refresh]
    <3>1. \/ ses_refreshing' = ses_refreshing
          \/ ses_refreshing' = [ses_refreshing EXCEPT ![ses_flows[k].tab] = Ses!Ask(ses_flows[k].tab)]
      BY <1>7 DEF Ses!Unauthorized
    <3>2. ses_refreshing \in [Tabs -> Ses!Refresh]
      OBVIOUS
    <3> HIDE DEF Ses!TypeOK, Ses!Refresh
    <3> QED
      BY <2>4, <3>1, <3>2
  <2> QED
    BY <1>7, <2>5, <2>6, <2>7 DEF Ses!Unauthorized
<1>8. ASSUME NEW k \in Flows, Ses!Answer(k), ~Ses!Unauthorized(k) PROVE Ses!TypeOK'
  <2>1. ses_flows[k] \in Ses!Flow
    BY <1>8, BusyIsFlow DEF Ses!Answer, Ses!Restored, Ses!LoggedIn, Ses!LoggedOut, Ses!PasswordChanged,
       Ses!ProfileSaved, Ses!End, Ses!Ended
  <2>2. ses_flows' = [ses_flows EXCEPT ![k] = Ses!Free]
    BY <1>8 DEF Ses!Answer, Ses!Restored, Ses!LoggedIn, Ses!LoggedOut, Ses!PasswordChanged,
       Ses!ProfileSaved, Ses!End
  <2>3. ses_flows[k].tab \in Tabs /\ ses_flows[k].token \in Tokens \cup {NoToken}
    BY <2>1 DEF Ses!Flow
  <2> QED
    BY <1>8, <2>2, <2>3 DEF Ses!Answer, Ses!Restored, Ses!LoggedIn, Ses!LoggedOut, Ses!PasswordChanged,
       Ses!ProfileSaved
<1>9. ASSUME NEW n \in Tokens, Ses!Lapse(n) PROVE Ses!TypeOK'
  BY <1>9 DEF Ses!Lapse
<1> QED
  BY <1>1, <1>2, <1>3, <1>4, <1>5, <1>6, <1>7, <1>8, <1>9 DEF Ses!Next
-----------------------------------------------------------------------------
(* The calls of a tab.                                                     *)

\* A call that waits after a step has a refresh to wait for, and was sent once at most.
LEMMA WaitingNext ==
  ASSUME Ses!TypeOK, Ses!WaitersHaveRefresh, Ses!SentTwiceAtMost, [Ses!Next]_sesVars,
         NEW j \in Flows, Ses!At(j, "waiting")'
  PROVE  /\ ses_refreshing'[ses_flows'[j].tab].phase # "none"
         /\ ses_flows'[j].tries < 2
<1> USE DEF Ses!TypeOK, Ses!Busy
<1> DEFINE Fine == /\ ses_refreshing'[ses_flows'[j].tab].phase # "none"
                   /\ ses_flows'[j].tries < 2
<1>1. ASSUME Ses!At(j, "waiting")
      PROVE  /\ ses_flows[j].tab \in Tabs /\ ses_refreshing[ses_flows[j].tab].phase # "none"
             /\ ses_flows[j].tries < 2
  <2>1. ses_flows[j].tab \in Tabs
    BY <1>1, BusyIsFlow DEF Ses!At, Ses!Flow
  <2> QED
    BY <1>1, <2>1 DEF Ses!At, Ses!WaitersHaveRefresh, Ses!SentTwiceAtMost, Ses!Waiting
<1>2. ASSUME ses_flows'[j] = ses_flows[j],
             \A t \in Tabs : ses_refreshing[t].phase # "none" => ses_refreshing'[t].phase # "none"
      PROVE  Fine
  BY <1>1, <1>2 DEF Ses!At
<1>3. ASSUME NEW t \in Tabs, NEW k \in Flows, Ses!Mount(t, k) PROVE Fine
  <2>1. CASE j = k
    BY <1>3, <2>1 DEF Ses!Mount
  <2>2. CASE j # k
    BY <1>2, <1>3, <2>2 DEF Ses!Mount, Ses!At, Ses!Free
  <2> QED
    BY <2>1, <2>2
<1>4. ASSUME NEW t \in Tabs, NEW k \in Flows, Ses!Begin(t, k) PROVE Fine
  BY <1>2, <1>4 DEF Ses!Begin, Ses!At
<1>5. ASSUME NEW t \in Tabs, Ses!Expire(t) PROVE Fine
  BY <1>2, <1>5 DEF Ses!Expire
<1>6. ASSUME NEW t \in Tabs, Ses!ServeRefresh(t) \/ Ses!LoseRefresh(t) PROVE Fine
  <2>1. \A u \in Tabs : ses_refreshing[u].phase # "none" => ses_refreshing'[u].phase # "none"
    BY <1>6 DEF Ses!ServeRefresh, Ses!LoseRefresh, Ses!Refresh
  <2> QED
    BY <1>2, <1>6, <2>1 DEF Ses!ServeRefresh, Ses!LoseRefresh
<1>7. ASSUME NEW t \in Tabs, Ses!Refreshed(t) PROVE Fine
  <2>1. ASSUME j \in Ses!Waiting(t) PROVE FALSE
    <3>1. ses_flows[j] \in Ses!Flow
      BY <2>1, BusyIsFlow DEF Ses!Waiting, Ses!At
    <3>2. ses_flows'[j].pc # "waiting"
      BY <1>7, <2>1, <3>1 DEF Ses!Refreshed, Ses!Sent, Ses!Flow
    <3> QED
      BY <3>2 DEF Ses!At
  <2>2. ses_flows'[j] = ses_flows[j]
    BY <1>7, <2>1 DEF Ses!Refreshed
  <2>3. Ses!At(j, "waiting") /\ ses_flows[j].tab # t
    BY <2>1, <2>2 DEF Ses!At, Ses!Waiting
  <2> QED
    BY <1>1, <1>7, <2>2, <2>3 DEF Ses!Refreshed
<1>8. ASSUME NEW k \in Flows, Ses!Unauthorized(k) PROVE Fine
  <2>1. \A t \in Tabs : ses_refreshing[t].phase # "none" => ses_refreshing'[t].phase # "none"
    BY <1>8 DEF Ses!Unauthorized, Ses!Ask
  <2>2. ses_flows[k] \in Ses!Flow
    BY <1>8, BusyIsFlow DEF Ses!Unauthorized, Ses!At
  <2>3. CASE j # k
    BY <1>2, <1>8, <2>1, <2>3 DEF Ses!Unauthorized, Ses!Outcome
  <2>4. CASE j = k
    <3>1. ses_flows'[j] = [ses_flows[j] EXCEPT !.pc = "waiting"] /\ ses_flows[j].tries = 1
          /\ ses_refreshing' = [ses_refreshing EXCEPT ![ses_flows[j].tab] = Ses!Ask(ses_flows[j].tab)]
      BY <1>8, <2>2, <2>4 DEF Ses!Unauthorized, Ses!Outcome, Ses!MayRetry, Ses!At, Ses!Flow
    <3>2. ses_flows'[j].tab = ses_flows[j].tab /\ ses_flows'[j].tries = 1 /\ ses_flows[j].tab \in Tabs
      BY <2>2, <2>4, <3>1 DEF Ses!Flow
    <3> QED
      BY <3>1, <3>2 DEF Ses!Ask
  <2> QED
    BY <2>3, <2>4
<1>9. ASSUME NEW k \in Flows, Ses!Serve(k) \/ Ses!LoseCall(k) PROVE Fine
  <2>1. ses_refreshing' = ses_refreshing /\ (j # k => ses_flows'[j] = ses_flows[j])
    BY <1>9 DEF Ses!Serve, Ses!ServeLogin, Ses!ServeLogout, Ses!ServeCall, Ses!LoseCall, Ses!Outcome
  <2>2. j # k
    <3>1. ses_flows[k] \in Ses!Flow
      BY <1>9, BusyIsFlow DEF Ses!Serve, Ses!ServeLogin, Ses!ServeLogout, Ses!ServeCall, Ses!LoseCall, Ses!At
    <3>2. ses_flows'[k].pc # "waiting"
      BY <1>9, <3>1 DEF Ses!Serve, Ses!ServeLogin, Ses!ServeLogout, Ses!ServeCall, Ses!LoseCall,
         Ses!Outcome, Ses!Flow
    <3> QED
      BY <3>2 DEF Ses!At
  <2> QED
    BY <1>2, <2>1, <2>2
<1>10. ASSUME NEW k \in Flows, Ses!Answer(k), ~Ses!Unauthorized(k) PROVE Fine
  <2>1. ses_flows' = [ses_flows EXCEPT ![k] = Ses!Free] /\ ses_refreshing' = ses_refreshing
    BY <1>10 DEF Ses!Answer, Ses!Restored, Ses!LoggedIn, Ses!LoggedOut, Ses!PasswordChanged,
       Ses!ProfileSaved, Ses!End
  <2> QED
    BY <1>2, <2>1 DEF Ses!At
<1>11. ASSUME NEW n \in Tokens, Ses!Lapse(n) PROVE Fine
  BY <1>2, <1>11 DEF Ses!Lapse
<1> QED
  BY <1>2, <1>3, <1>4, <1>5, <1>6, <1>7, <1>8, <1>9, <1>10, <1>11 DEF Ses!Next

-----------------------------------------------------------------------------
(* The cookie and the refreshes.                                           *)

\* A token that is still accepted keeps CookieIsLive when nothing else changes.
LEMMA CookieSame ==
  ASSUME Ses!CookieIsLive, ses_over' = ses_over, ses_refreshing' = ses_refreshing,
         ses_cookie' \in {ses_cookie, NoToken},
         \A n \in ses_valid : Ses!Held(n) => n \in ses_valid'
  PROVE  Ses!CookieIsLive'
<1> SUFFICES ASSUME ~ses_over
             PROVE  /\ \A s, t \in Tabs : Ses!InFlight(s)' /\ Ses!InFlight(t)' => s = t
                    /\ \A t \in Tabs : Ses!InFlight(t)' =>
                          \/ ses_refreshing'[t].token \in ses_valid'
                          \/ ses_refreshing'[t] = [phase |-> "sent", token |-> NoToken]
                    /\ (\A t \in Tabs : ses_refreshing'[t].phase # "granted")
                          => ses_cookie' \in ses_valid' \cup {NoToken}
  BY DEF Ses!CookieIsLive
<1> QED
  BY DEF Ses!CookieIsLive, Ses!InFlight, Ses!Held

\* Every step of a session keeps its cookie live and refuses nothing that is.
LEMMA CookieNext ==
  ASSUME Ses!TypeOK, Ses!CookieIsLive, Ses!RefusedOnlyWhenOver, [Ses!Next]_sesVars
  PROVE  Ses!CookieIsLive' /\ Ses!RefusedOnlyWhenOver'
<1> USE DEF Ses!TypeOK, Ses!Refresh, Ses!NoRefresh, Ses!RefusedOnlyWhenOver
<1>1. CASE UNCHANGED <<ses_valid, ses_cookie, ses_refreshing, ses_over>>
  BY <1>1, CookieSame
<1>2. ASSUME NEW t \in Tabs, NEW k \in Flows, Ses!Mount(t, k)
      PROVE  Ses!CookieIsLive' /\ Ses!RefusedOnlyWhenOver'
  <2>1. Ses!RefusedOnlyWhenOver'
    BY <1>2 DEF Ses!Mount
  <2>2. ASSUME ~ses_over' PROVE Ses!CookieIsLive'
    <3>1. /\ ~ses_over /\ \A s \in Tabs : ~Ses!InFlight(s)
          /\ ses_valid' = ses_valid /\ ses_cookie' = ses_cookie
          /\ ses_refreshing' = [ses_refreshing EXCEPT ![t] = [phase |-> "sent", token |-> ses_cookie]]
      BY <1>2, <2>2 DEF Ses!Mount, Ses!Overlap, Ses!InFlight
    <3>2. ses_cookie \in ses_valid \cup {NoToken}
      BY <3>1 DEF Ses!CookieIsLive, Ses!InFlight
    <3> QED
      BY <3>1, <3>2 DEF Ses!CookieIsLive, Ses!InFlight
  <2> QED
    BY <2>1, <2>2 DEF Ses!CookieIsLive
<1>3. ASSUME NEW n \in Tokens, Ses!Lapse(n) PROVE Ses!CookieIsLive' /\ Ses!RefusedOnlyWhenOver'
  BY <1>3, CookieSame DEF Ses!Lapse
<1>4. ASSUME NEW t \in Tabs, Ses!ServeRefresh(t) PROVE Ses!CookieIsLive' /\ Ses!RefusedOnlyWhenOver'
  <2>1. Ses!RefusedOnlyWhenOver'
    BY <1>4 DEF Ses!ServeRefresh, Ses!CookieIsLive, Ses!InFlight
  <2>2. ASSUME ~ses_over' PROVE Ses!CookieIsLive'
    <3>1. ~ses_over /\ ses_cookie' = ses_cookie /\ \A s \in Tabs : Ses!InFlight(s) => s = t
      BY <1>4, <2>2 DEF Ses!ServeRefresh, Ses!CookieIsLive, Ses!InFlight
    <3>2. CASE ses_refreshing[t].token \in ses_valid
      BY <1>4, <3>1, <3>2 DEF Ses!ServeRefresh, Ses!CookieIsLive, Ses!InFlight
    <3>3. CASE ses_refreshing[t].token \notin ses_valid
      <4>1. /\ ses_valid' = ses_valid /\ ses_refreshing[t].phase = "sent"
            /\ \A s \in Tabs : s # t => ses_refreshing'[s] = ses_refreshing[s]
            /\ ses_refreshing'[t].phase = "refused"
        BY <1>4, <3>3 DEF Ses!ServeRefresh
      <4>2. \A s \in Tabs : ~Ses!InFlight(s)' /\ ses_refreshing[s].phase # "granted"
        BY <3>1, <4>1 DEF Ses!InFlight
      <4> QED
        BY <3>1, <4>1, <4>2 DEF Ses!CookieIsLive
    <3> QED
      BY <3>2, <3>3
  <2> QED
    BY <2>1, <2>2 DEF Ses!CookieIsLive
<1>5. ASSUME NEW t \in Tabs, Ses!LoseRefresh(t) PROVE Ses!CookieIsLive' /\ Ses!RefusedOnlyWhenOver'
  <2>1. Ses!RefusedOnlyWhenOver'
    BY <1>5 DEF Ses!LoseRefresh
  <2>2. ASSUME ~ses_over' PROVE Ses!CookieIsLive'
    <3>1. ~ses_over /\ ses_refreshing[t].phase = "sent"
      BY <1>5, <2>2 DEF Ses!LoseRefresh
    <3> QED
      BY <1>5, <3>1 DEF Ses!LoseRefresh, Ses!CookieIsLive, Ses!InFlight
  <2> QED
    BY <2>1, <2>2 DEF Ses!CookieIsLive
<1>6. ASSUME NEW t \in Tabs, Ses!Refreshed(t) PROVE Ses!CookieIsLive' /\ Ses!RefusedOnlyWhenOver'
  <2>1. Ses!RefusedOnlyWhenOver'
    BY <1>6 DEF Ses!Refreshed
  <2>2. ASSUME ~ses_over' PROVE Ses!CookieIsLive'
    <3>1. ~ses_over /\ ses_valid' = ses_valid
          /\ ses_refreshing' = [ses_refreshing EXCEPT ![t] = Ses!NoRefresh]
      BY <1>6, <2>2 DEF Ses!Refreshed
    <3>2. CASE ses_refreshing[t].phase = "granted"
      <4>1. ses_cookie' = ses_refreshing[t].token
        BY <1>6, <3>2 DEF Ses!Refreshed
      <4> QED
        BY <3>1, <3>2, <4>1 DEF Ses!CookieIsLive, Ses!InFlight
    <3>3. CASE ses_refreshing[t].phase # "granted"
      <4>1. ses_cookie' \in {ses_cookie, NoToken}
        BY <1>6, <3>3 DEF Ses!Refreshed
      <4> QED
        BY <3>1, <3>3, <4>1 DEF Ses!CookieIsLive, Ses!InFlight
    <3> QED
      BY <3>2, <3>3
  <2> QED
    BY <2>1, <2>2 DEF Ses!CookieIsLive
<1>7. ASSUME NEW k \in Flows, Ses!Unauthorized(k) PROVE Ses!CookieIsLive' /\ Ses!RefusedOnlyWhenOver'
  <2> DEFINE t == ses_flows[k].tab
  <2>1. t \in Tabs /\ UNCHANGED <<ses_valid, ses_cookie>>
    BY <1>7, BusyIsFlow DEF Ses!Unauthorized, Ses!At, Ses!Flow
  <2>2. CASE ~Ses!MayRetry(k)
    BY <1>1, <1>7, <2>2 DEF Ses!Unauthorized
  <2>3. CASE Ses!MayRetry(k)
    <3>1. ses_refreshing' = [ses_refreshing EXCEPT ![t] = Ses!Ask(t)]
          /\ ses_over' = (ses_over \/ Ses!Overlap(t))
      BY <1>7, <2>3 DEF Ses!Unauthorized
    <3>2. Ses!RefusedOnlyWhenOver'
      BY <2>1, <3>1 DEF Ses!Ask
    <3>3. ASSUME ~ses_over' PROVE Ses!CookieIsLive'
      <4>1. ~ses_over /\ \A s \in Tabs : Ses!InFlight(s) => s = t
        BY <3>1, <3>3 DEF Ses!Overlap, Ses!InFlight
      <4>2. CASE ses_refreshing[t].phase = "none"
        BY <2>1, <3>1, <4>1, <4>2 DEF Ses!CookieIsLive, Ses!InFlight, Ses!Ask
      <4>3. CASE ses_refreshing[t].phase # "none"
        <5>1. ses_refreshing' = ses_refreshing
          BY <2>1, <3>1, <4>3 DEF Ses!Ask
        <5> QED
          BY <2>1, <4>1, <5>1 DEF Ses!CookieIsLive, Ses!InFlight
      <4> QED
        BY <4>2, <4>3
    <3> QED
      BY <3>2, <3>3 DEF Ses!CookieIsLive
  <2> QED
    BY <2>2, <2>3
<1>8. ASSUME NEW k \in Flows, Ses!ServeLogin(k) PROVE Ses!CookieIsLive' /\ Ses!RefusedOnlyWhenOver'
  BY <1>8, CookieSame DEF Ses!ServeLogin
\* The session is over as soon as the server has logged the user out.
<1>9. ASSUME NEW k \in Flows, Ses!ServeLogout(k) \/ Ses!ServeCall(k)
      PROVE  Ses!CookieIsLive' /\ Ses!RefusedOnlyWhenOver'
  <2>1. CASE ses_over' = TRUE
    BY <2>1 DEF Ses!CookieIsLive
  <2>2. CASE UNCHANGED <<ses_valid, ses_cookie, ses_refreshing, ses_over>>
    BY <1>1, <2>2
  <2> QED
    BY <1>9, <2>1, <2>2 DEF Ses!ServeLogout, Ses!ServeCall
<1>10. ASSUME NEW k \in Flows, Ses!LoggedIn(k) PROVE Ses!CookieIsLive' /\ Ses!RefusedOnlyWhenOver'
  <2>1. CASE UNCHANGED <<ses_cookie, ses_over>>
    BY <1>1, <1>10, <2>1 DEF Ses!LoggedIn
  <2>2. CASE /\ ses_cookie' = ses_flows[k].token
             /\ ses_over' = (\/ ses_flows[k].token \notin ses_valid
                             \/ (ses_over /\ \E s \in Tabs : ses_refreshing[s] # Ses!NoRefresh))
    <3>1. UNCHANGED <<ses_valid, ses_refreshing>>
      BY <1>10 DEF Ses!LoggedIn
    <3>2. ASSUME ~ses_over' PROVE ses_cookie' \in ses_valid
      BY <2>2, <3>2
    <3>3. ASSUME ses_over, ~ses_over' PROVE \A s \in Tabs : ses_refreshing[s].phase = "none"
      BY <2>2, <3>3
    <3> QED
      BY <3>1, <3>2, <3>3 DEF Ses!CookieIsLive, Ses!InFlight
  <2> QED
    BY <1>10, <2>1, <2>2 DEF Ses!LoggedIn
<1>11. ASSUME NEW k \in Flows, Ses!LoggedOut(k) \/ Ses!PasswordChanged(k)
      PROVE  Ses!CookieIsLive' /\ Ses!RefusedOnlyWhenOver'
  BY <1>11, CookieSame DEF Ses!LoggedOut, Ses!PasswordChanged
<1>12. ASSUME NEW k \in Flows, Ses!Restored(k) \/ Ses!ProfileSaved(k) \/ Ses!LoseCall(k)
      PROVE  Ses!CookieIsLive' /\ Ses!RefusedOnlyWhenOver'
  BY <1>1, <1>12 DEF Ses!Restored, Ses!ProfileSaved, Ses!LoseCall
<1>13. ASSUME NEW t \in Tabs, Ses!Expire(t) \/ \E k \in Flows : Ses!Begin(t, k)
      PROVE  Ses!CookieIsLive' /\ Ses!RefusedOnlyWhenOver'
  BY <1>1, <1>13 DEF Ses!Expire, Ses!Begin
<1> QED
  BY <1>1, <1>2, <1>3, <1>4, <1>5, <1>6, <1>7, <1>8, <1>9, <1>10, <1>11, <1>12, <1>13
     DEF Ses!Next, Ses!Serve, Ses!Answer

-----------------------------------------------------------------------------
(* The theorems.                                                           *)

LEMMA SessionInit == Ses!Init => Ses!SessionInv /\ Ses!RefusedOnlyWhenOver
<1> SUFFICES ASSUME Ses!Init PROVE Ses!SessionInv /\ Ses!RefusedOnlyWhenOver
  OBVIOUS
<1> USE DEF Ses!Init, Ses!NoRefresh
<1>1. Ses!TypeOK
  <2>1. ses_valid \subseteq Tokens /\ ses_cookie \in Tokens \cup {NoToken} /\ ses_mishaps \in 0..MaxMishaps
    BY SessionBound DEF SessionBound
  <2>2. ses_refreshing \in [Tabs -> Ses!Refresh] /\ ses_flows \in [Flows -> Ses!Flow \cup {Ses!Free}]
    BY DEF Ses!Refresh
  <2> QED
    BY <2>1, <2>2 DEF Ses!TypeOK
<1>2. Ses!WaitersHaveRefresh /\ Ses!SentTwiceAtMost
  BY DEF Ses!WaitersHaveRefresh, Ses!SentTwiceAtMost, Ses!Waiting, Ses!At, Ses!Busy
<1>3. Ses!CookieIsLive /\ Ses!RefusedOnlyWhenOver
  BY DEF Ses!CookieIsLive, Ses!InFlight, Ses!RefusedOnlyWhenOver
<1> QED
  BY <1>1, <1>2, <1>3 DEF Ses!SessionInv

LEMMA SessionNext ==
  Ses!SessionInv /\ Ses!RefusedOnlyWhenOver /\ [Ses!Next]_sesVars
    => Ses!SessionInv' /\ Ses!RefusedOnlyWhenOver'
<1> SUFFICES ASSUME Ses!SessionInv, Ses!RefusedOnlyWhenOver, [Ses!Next]_sesVars
             PROVE  Ses!SessionInv' /\ Ses!RefusedOnlyWhenOver'
  OBVIOUS
<1>1. Ses!TypeOK'
  BY SessionTypeNext DEF Ses!SessionInv
<1>2. Ses!WaitersHaveRefresh' /\ Ses!SentTwiceAtMost'
  BY WaitingNext DEF Ses!SessionInv, Ses!WaitersHaveRefresh, Ses!SentTwiceAtMost, Ses!Waiting, Ses!At
<1> QED
  BY <1>1, <1>2, CookieNext DEF Ses!SessionInv

LEMMA SessionInvariant == SumSpec => [](SessionInv /\ RefusedOnlyWhenOver)
<1>1. SumInit => SessionInv /\ RefusedOnlyWhenOver
  BY SessionInit DEF SumInit, SessionInv, RefusedOnlyWhenOver
<1>2. SessionInv /\ RefusedOnlyWhenOver /\ [SumNext]_AllVars => SessionInv' /\ RefusedOnlyWhenOver'
  BY SessionNext DEF SumNext, AllVars, SessionInv, RefusedOnlyWhenOver
<1> QED
  BY <1>1, <1>2, PTL DEF SumSpec

\* In the tabs of a browser, whatever is lost or reloaded, every call that waits has a refresh to wait
\* for, none is sent a third time, and the cookie is one the server accepts or about to be replaced by one.
THEOREM SessionTheorem == SumSpec => []SessionInv
  BY SessionInvariant, PTL

\* A refresh is refused only to a browser without a cookie or after the session was ended, a rotation
\* lost, or two tabs refreshed at a time.
THEOREM RefusalTheorem == SumSpec => []RefusedOnlyWhenOver
  BY SessionInvariant, PTL
=============================================================================
