------------------------------ MODULE Client ------------------------------
(***************************************************************************)
(* The client: its records (RecordClient, extended) and the sessions of    *)
(* its tabs (BrowserSession).  The provider only learns from a session who *)
(* is logged in, which RecordClient leaves open: the two share no state,   *)
(* and one of them moves while the other stays where it begins.            *)
(***************************************************************************)
EXTENDS RecordClient

CONSTANTS
    Tabs, Flows, Tokens, NoToken, MaxMishaps   \* those of BrowserSession

ASSUME SessionBound == MaxMishaps \in Nat

VARIABLE part   \* the part of the client that moves

-----------------------------------------------------------------------------
VARIABLES
    ses_valid, ses_cookie, ses_access, ses_refreshing, ses_who, ses_initializing, ses_form,
    ses_flows, ses_over, ses_mishaps

sesVars ==
    <<ses_valid, ses_cookie, ses_access, ses_refreshing, ses_who, ses_initializing, ses_form,
    ses_flows, ses_over, ses_mishaps>>
Ses == INSTANCE BrowserSession WITH
    valid <- ses_valid, cookie <- ses_cookie, access <- ses_access, refreshing <- ses_refreshing,
    who <- ses_who, initializing <- ses_initializing, form <- ses_form, flows <- ses_flows,
    over <- ses_over, mishaps <- ses_mishaps

-----------------------------------------------------------------------------
AllVars == <<part, vars, sesVars>>

SumInit == part \in {"records", "session"} /\ Init /\ Ses!Init

SumNext ==
    /\ UNCHANGED part
    /\ IF part = "records" THEN Next ELSE UNCHANGED vars
    /\ IF part = "session" THEN Ses!Next ELSE UNCHANGED sesVars

SumSpec == SumInit /\ [][SumNext]_AllVars

-----------------------------------------------------------------------------
RefusedOnlyWhenOver == Ses!RefusedOnlyWhenOver
SessionInv          == Ses!SessionInv
=============================================================================
