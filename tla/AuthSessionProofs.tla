------------------------- MODULE AuthSessionProofs -------------------------
(***************************************************************************)
(* Proofs about AuthSession, for any users, requests and bounds: refreshes *)
(* never lose a session, whatever they race with, and a change of password *)
(* ends the sessions before it, but for those a request in flight prolongs.*)
(*                                                                         *)
(* Each lemma about a step treats the actions that change what it is about *)
(* and shows that the others leave it alone.                               *)
(***************************************************************************)
EXTENDS AuthSession, TLAPS

\* The rows of users keep their types.
LEMMA UsersType == TypeOK /\ [Next]_vars => UsersOK'
<1> SUFFICES ASSUME TypeOK, [Next]_vars PROVE UsersOK'
  OBVIOUS
<1>1. CASE UNCHANGED users
  BY <1>1 DEF TypeOK, UsersOK, RequestsOK, users
<1>2. ASSUME NEW c \in Requests, CreateUser(c) PROVE UsersOK'
  BY <1>2 DEF CreateUser, Answer, GoOn, TypeOK, UsersOK, RequestsOK, tokens, budget
<1>3. ASSUME NEW c \in Requests, UpdatePassword(c) PROVE UsersOK'
  BY <1>3 DEF UpdatePassword, TypeOK, UsersOK, RequestsOK, tokens, budget, history
<1>4. ASSUME NEW u \in Users, SetDisabled(u) PROVE UsersOK'
  BY <1>4 DEF SetDisabled, TypeOK, UsersOK, RequestsOK, tokens, requests, budget, history
<1>5. ASSUME NEW c \in Requests, NewRequest(c) PROVE UNCHANGED users
  BY <1>5 DEF NewRequest, BeginRegister, BeginLogin, BeginChange, BeginReset, BeginRefresh,
    BeginLogout, Begin, Changing, users, tokens, history
<1>6. ASSUME NEW c \in Requests, Issue(c) PROVE UNCHANGED users
  BY <1>6 DEF Issue, Answer, users, budget
<1>7. ASSUME NEW c \in Requests, FindUser(c) PROVE UNCHANGED users
  BY <1>7 DEF FindUser, Answer, GoOn, users, tokens, budget
<1>8. ASSUME NEW c \in Requests, Revoke(c) PROVE UNCHANGED users
  BY <1>8 DEF Revoke, GoOn, users, budget, history
<1>9. ASSUME NEW c \in Requests, Logout(c) PROVE UNCHANGED users
  BY <1>9 DEF Logout, Answer, users, budget
<1>10. ASSUME NEW c \in Requests, RevokeAll(c) PROVE UNCHANGED users
  BY <1>10 DEF RevokeAll, users, budget
<1>11. ASSUME NEW c \in Requests, RequestError(c) PROVE UNCHANGED users
  BY <1>11 DEF RequestError, Answer, users, tokens
<1>12. ASSUME NEW t \in Tokens, Expire(t) PROVE UNCHANGED users
  BY <1>12 DEF Expire, users, requests, budget
<1>13. ASSUME Crash PROVE UNCHANGED users
  BY <1>13 DEF Crash, users, tokens
<1> QED
  BY <1>1, <1>2, <1>3, <1>4, <1>5, <1>6, <1>7, <1>8, <1>9, <1>10, <1>11, <1>12, <1>13
    DEF Next, Step, vars

\* The rows of tokens keep their types.
LEMMA TokensType == TypeOK /\ [Next]_vars => TokensOK'
<1> SUFFICES ASSUME TypeOK, [Next]_vars PROVE TokensOK'
  OBVIOUS
<1>1. CASE UNCHANGED tokens
  BY <1>1 DEF TypeOK, TokensOK, RequestsOK, Tokens, tokens
<1>2. ASSUME NEW c \in Requests, Issue(c) PROVE TokensOK'
  BY <1>2, AuthAssumption DEF AuthAssumption, Issue, Answer, TypeOK, TokensOK, RequestsOK,
    Tokens, users, budget
<1>3. ASSUME NEW c \in Requests, Revoke(c) PROVE TokensOK'
  BY <1>3, AuthAssumption DEF AuthAssumption, Revoke, GoOn, TypeOK, TokensOK, RequestsOK,
    Tokens, users, budget, history
<1>4. ASSUME NEW c \in Requests, Logout(c) PROVE TokensOK'
  BY <1>4, AuthAssumption DEF AuthAssumption, Logout, Answer, TypeOK, TokensOK, RequestsOK,
    Tokens, users, budget
<1>5. ASSUME NEW c \in Requests, RevokeAll(c) PROVE TokensOK'
  BY <1>5, AuthAssumption DEF AuthAssumption, RevokeAll, TypeOK, TokensOK, RequestsOK, Tokens,
    users, budget
<1>6. ASSUME NEW t \in Tokens, Expire(t) PROVE TokensOK'
  BY <1>6, AuthAssumption DEF AuthAssumption, Expire, TypeOK, TokensOK, RequestsOK, Tokens,
    users, requests, budget
<1>7. ASSUME NEW c \in Requests, NewRequest(c) PROVE UNCHANGED tokens
  BY <1>7 DEF NewRequest, BeginRegister, BeginLogin, BeginChange, BeginReset, BeginRefresh,
    BeginLogout, Begin, Changing, users, tokens, history
<1>8. ASSUME NEW c \in Requests, CreateUser(c) PROVE UNCHANGED tokens
  BY <1>8 DEF CreateUser, Answer, GoOn, tokens, budget
<1>9. ASSUME NEW c \in Requests, FindUser(c) PROVE UNCHANGED tokens
  BY <1>9 DEF FindUser, Answer, GoOn, users, tokens, budget
<1>10. ASSUME NEW c \in Requests, UpdatePassword(c) PROVE UNCHANGED tokens
  BY <1>10 DEF UpdatePassword, tokens, budget, history
<1>11. ASSUME NEW c \in Requests, RequestError(c) PROVE UNCHANGED tokens
  BY <1>11 DEF RequestError, Answer, users, tokens
<1>12. ASSUME NEW u \in Users, SetDisabled(u) PROVE UNCHANGED tokens
  BY <1>12 DEF SetDisabled, tokens, requests, budget, history
<1>13. ASSUME Crash PROVE UNCHANGED tokens
  BY <1>13 DEF Crash, users, tokens
<1> QED
  BY <1>1, <1>2, <1>3, <1>4, <1>5, <1>6, <1>7, <1>8, <1>9, <1>10, <1>11, <1>12, <1>13
    DEF Next, Step, vars

\* The requests keep their types.
LEMMA RequestsType == TypeOK /\ [Next]_vars => RequestsOK'
<1> SUFFICES ASSUME TypeOK, [Next]_vars PROVE RequestsOK'
  OBVIOUS
<1>1. CASE UNCHANGED requests
  BY <1>1 DEF TypeOK, TokensOK, RequestsOK, UsersOK, HistoryOK, Tokens, NoToken, requests
<1>2. ASSUME NEW c \in Requests, NEW u \in Users, BeginRegister(c, u) PROVE RequestsOK'
  BY <1>2, AuthAssumption DEF AuthAssumption, BeginRegister, Begin, TypeOK, TokensOK,
    RequestsOK, UsersOK, HistoryOK, Tokens, NoToken, users, tokens, history
<1>3. ASSUME NEW c \in Requests, NEW u \in Users, BeginLogin(c, u) PROVE RequestsOK'
  BY <1>3, AuthAssumption DEF AuthAssumption, BeginLogin, Begin, TypeOK, TokensOK, RequestsOK,
    UsersOK, HistoryOK, Tokens, NoToken, users, tokens, history
<1>4. ASSUME NEW c \in Requests, NEW u \in Users, BeginChange(c, u) PROVE RequestsOK'
  BY <1>4, AuthAssumption DEF AuthAssumption, BeginChange, Begin, Changing, TypeOK, TokensOK,
    RequestsOK, UsersOK, HistoryOK, Tokens, NoToken, users, tokens, history
<1>5. ASSUME NEW c \in Requests, NEW u \in Users, BeginReset(c, u) PROVE RequestsOK'
  BY <1>5, AuthAssumption DEF AuthAssumption, BeginReset, Begin, Changing, TypeOK, TokensOK,
    RequestsOK, UsersOK, HistoryOK, Tokens, NoToken, users, tokens, history
<1>6. ASSUME NEW c \in Requests, NEW t \in Tokens, BeginRefresh(c, t) PROVE RequestsOK'
  BY <1>6, AuthAssumption DEF AuthAssumption, BeginRefresh, Begin, TypeOK, TokensOK, RequestsOK,
    UsersOK, HistoryOK, Tokens, NoToken, users, tokens
<1>7. ASSUME NEW c \in Requests, NEW t \in Tokens, BeginLogout(c, t) PROVE RequestsOK'
  BY <1>7, AuthAssumption DEF AuthAssumption, BeginLogout, Begin, TypeOK, TokensOK, RequestsOK,
    UsersOK, HistoryOK, Tokens, NoToken, users, tokens, history
<1>8. ASSUME NEW c \in Requests, CreateUser(c) PROVE RequestsOK'
<2>1. CASE password[who[c]] = 0
    BY <1>8, <2>1, AuthAssumption DEF AuthAssumption, CreateUser, Answer, GoOn, TypeOK,
      RequestsOK, NoToken, Tokens
<2>2. CASE ~(password[who[c]] = 0)
    BY <1>8, <2>2, AuthAssumption DEF AuthAssumption, CreateUser, Answer, GoOn, TypeOK,
      RequestsOK, NoToken, Tokens
<2> QED
    BY <2>1, <2>2
<1>9. ASSUME NEW c \in Requests, Issue(c) PROVE RequestsOK'
  BY <1>9, AuthAssumption DEF AuthAssumption, Issue, Answer, TypeOK, TokensOK, RequestsOK,
    UsersOK, HistoryOK, Tokens, NoToken, users, budget
<1>10. ASSUME NEW c \in Requests, FindUser(c) PROVE RequestsOK'
<2>1. CASE who[c] \in disabled
    BY <1>10, <2>1, AuthAssumption DEF AuthAssumption, FindUser, Answer, GoOn, TypeOK,
      RequestsOK, NoToken, Tokens
<2>2. CASE ~(who[c] \in disabled)
    BY <1>10, <2>2, AuthAssumption DEF AuthAssumption, FindUser, Answer, GoOn, TypeOK,
      RequestsOK, NoToken, Tokens
<2> QED
    BY <2>1, <2>2
<1>11. ASSUME NEW c \in Requests, Revoke(c) PROVE RequestsOK'
  BY <1>11, AuthAssumption DEF AuthAssumption, Revoke, GoOn, TypeOK, TokensOK, RequestsOK,
    UsersOK, HistoryOK, Tokens, NoToken, users, budget, history
<1>12. ASSUME NEW c \in Requests, Logout(c) PROVE RequestsOK'
  BY <1>12, AuthAssumption DEF AuthAssumption, Logout, Answer, TypeOK, TokensOK, RequestsOK,
    UsersOK, HistoryOK, Tokens, NoToken, users, budget
<1>13. ASSUME NEW c \in Requests, UpdatePassword(c) PROVE RequestsOK'
  BY <1>13, AuthAssumption DEF AuthAssumption, UpdatePassword, TypeOK, TokensOK, RequestsOK,
    UsersOK, HistoryOK, Tokens, NoToken, tokens, budget, history
<1>14. ASSUME NEW c \in Requests, RevokeAll(c) PROVE RequestsOK'
  BY <1>14, AuthAssumption DEF AuthAssumption, RevokeAll, TypeOK, TokensOK, RequestsOK, UsersOK,
    HistoryOK, Tokens, NoToken, users, budget
<1>15. ASSUME NEW c \in Requests, RequestError(c) PROVE RequestsOK'
  BY <1>15, AuthAssumption DEF AuthAssumption, RequestError, Answer, TypeOK, TokensOK,
    RequestsOK, UsersOK, HistoryOK, Tokens, NoToken, users, tokens
<1>16. CASE Crash
  BY <1>16, AuthAssumption DEF AuthAssumption, Crash, TypeOK, TokensOK, RequestsOK, UsersOK,
    HistoryOK, Tokens, NoToken, users, tokens
<1>17. ASSUME NEW u \in Users, SetDisabled(u) PROVE UNCHANGED requests
  BY <1>17 DEF SetDisabled, tokens, requests, budget, history
<1>18. ASSUME NEW t \in Tokens, Expire(t) PROVE UNCHANGED requests
  BY <1>18 DEF Expire, users, requests, budget
<1> QED
  BY <1>1, <1>2, <1>3, <1>4, <1>5, <1>6, <1>7, <1>8, <1>9, <1>10, <1>11, <1>12, <1>13, <1>14,
      <1>15, <1>16, <1>17, <1>18 DEF Next, Step, vars, NewRequest

\* The counters stay within their bounds.
LEMMA BudgetType == TypeOK /\ [Next]_vars => BudgetOK'
<1> SUFFICES ASSUME TypeOK, [Next]_vars PROVE BudgetOK'
  OBVIOUS
<1>1. CASE UNCHANGED budget
  BY <1>1 DEF TypeOK, BudgetOK, budget
<1>2. ASSUME NEW c \in Requests, NEW u \in Users, BeginRegister(c, u) PROVE BudgetOK'
  BY <1>2, AuthAssumption DEF AuthAssumption, BeginRegister, Begin, TypeOK, BudgetOK, users,
    tokens, history
<1>3. ASSUME NEW c \in Requests, NEW u \in Users, BeginLogin(c, u) PROVE BudgetOK'
  BY <1>3, AuthAssumption DEF AuthAssumption, BeginLogin, Begin, TypeOK, BudgetOK, users,
    tokens, history
<1>4. ASSUME NEW c \in Requests, NEW u \in Users, BeginChange(c, u) PROVE BudgetOK'
  BY <1>4, AuthAssumption DEF AuthAssumption, BeginChange, Begin, Changing, TypeOK, BudgetOK,
    users, tokens, history
<1>5. ASSUME NEW c \in Requests, NEW u \in Users, BeginReset(c, u) PROVE BudgetOK'
  BY <1>5, AuthAssumption DEF AuthAssumption, BeginReset, Begin, Changing, TypeOK, BudgetOK,
    users, tokens, history
<1>6. ASSUME NEW c \in Requests, NEW t \in Tokens, BeginRefresh(c, t) PROVE BudgetOK'
  BY <1>6, AuthAssumption DEF AuthAssumption, BeginRefresh, Begin, TypeOK, BudgetOK, users,
    tokens
<1>7. ASSUME NEW c \in Requests, NEW t \in Tokens, BeginLogout(c, t) PROVE BudgetOK'
  BY <1>7, AuthAssumption DEF AuthAssumption, BeginLogout, Begin, TypeOK, BudgetOK, users,
    tokens, history
<1>8. ASSUME NEW c \in Requests, RequestError(c) PROVE BudgetOK'
  BY <1>8, AuthAssumption DEF AuthAssumption, RequestError, Answer, TypeOK, BudgetOK, users,
    tokens
<1>9. CASE Crash
  BY <1>9, AuthAssumption DEF AuthAssumption, Crash, TypeOK, BudgetOK, users, tokens
<1>10. ASSUME NEW c \in Requests, CreateUser(c) PROVE UNCHANGED budget
  BY <1>10 DEF CreateUser, Answer, GoOn, tokens, budget
<1>11. ASSUME NEW c \in Requests, Issue(c) PROVE UNCHANGED budget
  BY <1>11 DEF Issue, Answer, users, budget
<1>12. ASSUME NEW c \in Requests, FindUser(c) PROVE UNCHANGED budget
  BY <1>12 DEF FindUser, Answer, GoOn, users, tokens, budget
<1>13. ASSUME NEW c \in Requests, Revoke(c) PROVE UNCHANGED budget
  BY <1>13 DEF Revoke, GoOn, users, budget, history
<1>14. ASSUME NEW c \in Requests, Logout(c) PROVE UNCHANGED budget
  BY <1>14 DEF Logout, Answer, users, budget
<1>15. ASSUME NEW c \in Requests, UpdatePassword(c) PROVE UNCHANGED budget
  BY <1>15 DEF UpdatePassword, tokens, budget, history
<1>16. ASSUME NEW c \in Requests, RevokeAll(c) PROVE UNCHANGED budget
  BY <1>16 DEF RevokeAll, users, budget
<1>17. ASSUME NEW u \in Users, SetDisabled(u) PROVE UNCHANGED budget
  BY <1>17 DEF SetDisabled, tokens, requests, budget, history
<1>18. ASSUME NEW t \in Tokens, Expire(t) PROVE UNCHANGED budget
  BY <1>18 DEF Expire, users, requests, budget
<1> QED
  BY <1>1, <1>2, <1>3, <1>4, <1>5, <1>6, <1>7, <1>8, <1>9, <1>10, <1>11, <1>12, <1>13, <1>14,
      <1>15, <1>16, <1>17, <1>18 DEF Next, Step, vars, NewRequest

\* The history keeps its types.
LEMMA HistoryType == TypeOK /\ [Next]_vars => HistoryOK'
<1> SUFFICES ASSUME TypeOK, [Next]_vars PROVE HistoryOK'
  OBVIOUS
<1>1. CASE UNCHANGED history
  BY <1>1 DEF TypeOK, TokensOK, RequestsOK, HistoryOK, Tokens, NoToken, history
<1>2. ASSUME NEW c \in Requests, NEW t \in Tokens, BeginRefresh(c, t) PROVE HistoryOK'
  BY <1>2 DEF BeginRefresh, Begin, TypeOK, TokensOK, RequestsOK, HistoryOK, Tokens, NoToken,
    users, tokens
<1>3. ASSUME NEW c \in Requests, CreateUser(c) PROVE HistoryOK'
  BY <1>3 DEF CreateUser, Answer, GoOn, TypeOK, TokensOK, RequestsOK, HistoryOK, Tokens,
    NoToken, tokens, budget
<1>4. ASSUME NEW c \in Requests, Issue(c) PROVE HistoryOK'
  BY <1>4 DEF Issue, Answer, TypeOK, TokensOK, RequestsOK, HistoryOK, Tokens, NoToken, users,
    budget
<1>5. ASSUME NEW c \in Requests, FindUser(c) PROVE HistoryOK'
  BY <1>5 DEF FindUser, Answer, GoOn, TypeOK, TokensOK, RequestsOK, HistoryOK, Tokens, NoToken,
    users, tokens, budget
<1>6. ASSUME NEW c \in Requests, Logout(c) PROVE HistoryOK'
  BY <1>6 DEF Logout, Answer, TypeOK, TokensOK, RequestsOK, HistoryOK, Tokens, NoToken, users,
    budget
<1>7. ASSUME NEW c \in Requests, RevokeAll(c) PROVE HistoryOK'
<2>1. ended' \subseteq Tokens \cup {NoToken}
    BY <1>7 DEF RevokeAll, TypeOK, HistoryOK, TokensOf, Tokens, NoToken
<2>2. settled' \in [Users -> Nat]
    BY <1>7 DEF RevokeAll, TypeOK, HistoryOK, RequestsOK
<2>3. late' \subseteq Requests
    BY <1>7 DEF RevokeAll, TypeOK, HistoryOK, Issuing
<2> QED
    BY <1>7, <2>1, <2>2, <2>3 DEF RevokeAll, TypeOK, HistoryOK
<1>8. ASSUME NEW t \in Tokens, Expire(t) PROVE HistoryOK'
  BY <1>8 DEF Expire, TypeOK, TokensOK, RequestsOK, HistoryOK, Tokens, NoToken, users, requests,
    budget
<1>9. ASSUME NEW c \in Requests, RequestError(c) PROVE HistoryOK'
<2>1. BetweenTokens({c}) \subseteq Tokens \cup {NoToken}
    BY DEF BetweenTokens, TypeOK, HistoryOK, RequestsOK, Tokens, NoToken
<2> QED
    BY <1>9, <2>1 DEF RequestError, Answer, TypeOK, HistoryOK
<1>10. CASE Crash
<2>1. BetweenTokens(Requests) \subseteq Tokens \cup {NoToken}
    BY DEF BetweenTokens, TypeOK, HistoryOK, RequestsOK, Tokens, NoToken
<2> QED
    BY <1>10, <2>1 DEF Crash, TypeOK, HistoryOK
<1>11. ASSUME NEW c \in Requests, NEW u \in Users, BeginRegister(c, u) PROVE UNCHANGED history
  BY <1>11 DEF BeginRegister, Begin, users, tokens, history
<1>12. ASSUME NEW c \in Requests, NEW u \in Users, BeginLogin(c, u) PROVE UNCHANGED history
  BY <1>12 DEF BeginLogin, Begin, users, tokens, history
<1>13. ASSUME NEW c \in Requests, NEW u \in Users, BeginChange(c, u) PROVE UNCHANGED history
  BY <1>13 DEF BeginChange, Begin, Changing, users, tokens, history
<1>14. ASSUME NEW c \in Requests, NEW u \in Users, BeginReset(c, u) PROVE UNCHANGED history
  BY <1>14 DEF BeginReset, Begin, Changing, users, tokens, history
<1>15. ASSUME NEW c \in Requests, NEW t \in Tokens, BeginLogout(c, t) PROVE UNCHANGED history
  BY <1>15 DEF BeginLogout, Begin, users, tokens, history
<1>16. ASSUME NEW c \in Requests, Revoke(c) PROVE UNCHANGED history
  BY <1>16 DEF Revoke, GoOn, users, budget, history
<1>17. ASSUME NEW c \in Requests, UpdatePassword(c) PROVE UNCHANGED history
  BY <1>17 DEF UpdatePassword, tokens, budget, history
<1>18. ASSUME NEW u \in Users, SetDisabled(u) PROVE UNCHANGED history
  BY <1>18 DEF SetDisabled, tokens, requests, budget, history
<1> QED
  BY <1>1, <1>2, <1>3, <1>4, <1>5, <1>6, <1>7, <1>8, <1>9, <1>10, <1>11, <1>12, <1>13, <1>14,
      <1>15, <1>16, <1>17, <1>18 DEF Next, Step, vars, NewRequest

\* Every variable keeps its type.
LEMMA TypeStep == TypeOK /\ [Next]_vars => TypeOK'
  BY UsersType, TokensType, RequestsType, BudgetType, HistoryType DEF TypeOK

\* A request that is answered has no token in hand.
LEMMA AnswerKnown ==
  ASSUME AuthInv, NEW c \in Requests, Answer(c), nextToken' \in {nextToken, nextToken + 1}
  PROVE  TokensKnown'
<1>1. TokensKnown /\ nextToken \in Nat /\ tok \in [Requests -> Nat] /\ DOMAIN pc = Requests
  BY AuthAssumption DEF AuthAssumption, AuthInv, TypeOK, TokensOK, RequestsOK, Tokens, NoToken
<1>2. tok' = [tok EXCEPT ![c] = NoToken] /\ pc' = [pc EXCEPT ![c] = "idle"]
  BY DEF Answer
<1>3. ASSUME NEW d \in Requests
      PROVE  /\ tok'[d] # NoToken => tok[d] # NoToken /\ tok'[d] = tok[d]
             /\ pc'[d] # "idle" => pc'[d] = pc[d] /\ tok'[d] = tok[d]
  BY <1>1, <1>2
<1> QED
  BY <1>1, <1>3 DEF TokensKnown

\* Every step keeps TokensKnown.
LEMMA TokensStep == AuthInv /\ [Next]_vars => TokensKnown'
<1> SUFFICES ASSUME AuthInv, [Next]_vars PROVE TokensKnown'
  OBVIOUS
<1>1. CASE UNCHANGED <<tokens, requests>>
  BY <1>1 DEF AuthInv, TokensKnown, TypeOK, TokensOK, RequestsOK, Tokens, NoToken, tokens,
    requests
<1>2. ASSUME NEW c \in Requests, NEW u \in Users, BeginRegister(c, u) PROVE TokensKnown'
  BY <1>2 DEF BeginRegister, Begin, AuthInv, TokensKnown, TypeOK, TokensOK, RequestsOK, Tokens,
    NoToken, tokens, users, history
<1>3. ASSUME NEW c \in Requests, NEW u \in Users, BeginLogin(c, u) PROVE TokensKnown'
  BY <1>3 DEF BeginLogin, Begin, AuthInv, TokensKnown, TypeOK, TokensOK, RequestsOK, Tokens,
    NoToken, tokens, users, history
<1>4. ASSUME NEW c \in Requests, NEW u \in Users, BeginChange(c, u) PROVE TokensKnown'
  BY <1>4 DEF BeginChange, Begin, Changing, AuthInv, TokensKnown, TypeOK, TokensOK, RequestsOK,
    Tokens, NoToken, tokens, users, history
<1>5. ASSUME NEW c \in Requests, NEW u \in Users, BeginReset(c, u) PROVE TokensKnown'
  BY <1>5 DEF BeginReset, Begin, Changing, AuthInv, TokensKnown, TypeOK, TokensOK, RequestsOK,
    Tokens, NoToken, tokens, users, history
<1>6. ASSUME NEW c \in Requests, NEW t \in Tokens, BeginRefresh(c, t) PROVE TokensKnown'
  BY <1>6 DEF BeginRefresh, Begin, AuthInv, TokensKnown, TypeOK, TokensOK, RequestsOK, Tokens,
    NoToken, tokens, users
<1>7. ASSUME NEW c \in Requests, NEW t \in Tokens, BeginLogout(c, t) PROVE TokensKnown'
  BY <1>7 DEF BeginLogout, Begin, AuthInv, TokensKnown, TypeOK, TokensOK, RequestsOK, Tokens,
    NoToken, tokens, users, history
<1>8. ASSUME NEW c \in Requests, CreateUser(c) PROVE TokensKnown'
  BY <1>8 DEF CreateUser, Answer, GoOn, AuthInv, TokensKnown, TypeOK, TokensOK, RequestsOK,
    Tokens, NoToken, tokens, budget
<1>9. ASSUME NEW c \in Requests, Issue(c) PROVE TokensKnown'
  BY <1>9, AnswerKnown DEF Issue
<1>10. ASSUME NEW c \in Requests, FindUser(c) PROVE TokensKnown'
  <2>1. CASE who[c] \in disabled
    BY <1>10, <2>1, AnswerKnown DEF FindUser, tokens
  <2>2. CASE who[c] \notin disabled
    BY <1>10, <2>2 DEF FindUser, GoOn, AuthInv, TokensKnown, TypeOK, TokensOK, RequestsOK,
      Tokens, NoToken, tokens
  <2> QED
    BY <2>1, <2>2
<1>11. ASSUME NEW c \in Requests, Revoke(c) PROVE TokensKnown'
  BY <1>11 DEF Revoke, GoOn, AuthInv, TokensKnown, TypeOK, TokensOK, RequestsOK, Tokens,
    NoToken, users, budget, history
<1>12. ASSUME NEW c \in Requests, Logout(c) PROVE TokensKnown'
  BY <1>12, AnswerKnown DEF Logout
<1>13. ASSUME NEW c \in Requests, UpdatePassword(c) PROVE TokensKnown'
  BY <1>13 DEF UpdatePassword, AuthInv, TokensKnown, TypeOK, TokensOK, RequestsOK, Tokens,
    NoToken, tokens, budget, history
<1>14. ASSUME NEW c \in Requests, RevokeAll(c) PROVE TokensKnown'
  BY <1>14 DEF RevokeAll, AuthInv, TokensKnown, TypeOK, TokensOK, RequestsOK, Tokens, NoToken,
    users, budget
<1>15. ASSUME NEW c \in Requests, RequestError(c) PROVE TokensKnown'
  BY <1>15, AnswerKnown DEF RequestError, tokens
<1>16. ASSUME NEW t \in Tokens, Expire(t) PROVE TokensKnown'
  BY <1>16 DEF Expire, AuthInv, TokensKnown, TypeOK, TokensOK, RequestsOK, Tokens, NoToken,
    requests, users, budget
<1>17. CASE Crash
  BY <1>17 DEF Crash, AuthInv, TokensKnown, TypeOK, TokensOK, RequestsOK, Tokens, NoToken,
    tokens, users
<1>18. ASSUME NEW u \in Users, SetDisabled(u) PROVE UNCHANGED <<tokens, requests>>
  BY <1>18 DEF SetDisabled, tokens, requests, budget, history
<1> QED
  BY <1>1, <1>2, <1>3, <1>4, <1>5, <1>6, <1>7, <1>8, <1>9, <1>10, <1>11, <1>12, <1>13, <1>14,
      <1>15, <1>16, <1>17, <1>18 DEF Next, Step, vars, NewRequest

\* Every step keeps PasswordsKnown.
LEMMA PasswordsStep == AuthInv /\ [Next]_vars => PasswordsKnown'
<1> SUFFICES ASSUME AuthInv, [Next]_vars PROVE PasswordsKnown'
  OBVIOUS
<1>1. CASE UNCHANGED <<users, requests, history>>
  BY <1>1 DEF AuthInv, PasswordsKnown, TypeOK, UsersOK, RequestsOK, HistoryOK, users, requests,
    history
<1>2. ASSUME NEW c \in Requests, NEW u \in Users, BeginRegister(c, u) PROVE PasswordsKnown'
  BY <1>2 DEF BeginRegister, Begin, AuthInv, PasswordsKnown, TypeOK, UsersOK, RequestsOK,
    HistoryOK, users, history, tokens
<1>3. ASSUME NEW c \in Requests, NEW u \in Users, BeginLogin(c, u) PROVE PasswordsKnown'
  BY <1>3 DEF BeginLogin, Begin, AuthInv, PasswordsKnown, TypeOK, UsersOK, RequestsOK,
    HistoryOK, users, history, tokens
<1>4. ASSUME NEW c \in Requests, NEW u \in Users, BeginChange(c, u) PROVE PasswordsKnown'
  BY <1>4 DEF BeginChange, Begin, Changing, AuthInv, PasswordsKnown, TypeOK, UsersOK,
    RequestsOK, HistoryOK, users, history, tokens
<1>5. ASSUME NEW c \in Requests, NEW u \in Users, BeginReset(c, u) PROVE PasswordsKnown'
  BY <1>5 DEF BeginReset, Begin, Changing, AuthInv, PasswordsKnown, TypeOK, UsersOK, RequestsOK,
    HistoryOK, users, history, tokens
<1>6. ASSUME NEW c \in Requests, NEW t \in Tokens, BeginRefresh(c, t) PROVE PasswordsKnown'
  BY <1>6 DEF BeginRefresh, Begin, AuthInv, PasswordsKnown, TypeOK, UsersOK, RequestsOK,
    HistoryOK, users, tokens
<1>7. ASSUME NEW c \in Requests, NEW t \in Tokens, BeginLogout(c, t) PROVE PasswordsKnown'
  BY <1>7 DEF BeginLogout, Begin, AuthInv, PasswordsKnown, TypeOK, UsersOK, RequestsOK,
    HistoryOK, users, history, tokens
<1>8. ASSUME NEW c \in Requests, CreateUser(c) PROVE PasswordsKnown'
  BY <1>8 DEF CreateUser, Answer, GoOn, AuthInv, PasswordsKnown, TypeOK, UsersOK, RequestsOK,
    HistoryOK, tokens, budget
<1>9. ASSUME NEW c \in Requests, Issue(c) PROVE PasswordsKnown'
  BY <1>9 DEF Issue, Answer, AuthInv, PasswordsKnown, TypeOK, UsersOK, RequestsOK, HistoryOK,
    users, budget
<1>10. ASSUME NEW c \in Requests, FindUser(c) PROVE PasswordsKnown'
  BY <1>10 DEF FindUser, Answer, GoOn, AuthInv, PasswordsKnown, TypeOK, UsersOK, RequestsOK,
    HistoryOK, users, tokens, budget
<1>11. ASSUME NEW c \in Requests, Revoke(c) PROVE PasswordsKnown'
  BY <1>11 DEF Revoke, GoOn, AuthInv, PasswordsKnown, TypeOK, UsersOK, RequestsOK, HistoryOK,
    users, history, budget
<1>12. ASSUME NEW c \in Requests, Logout(c) PROVE PasswordsKnown'
  BY <1>12 DEF Logout, Answer, AuthInv, PasswordsKnown, TypeOK, UsersOK, RequestsOK, HistoryOK,
    users, budget
<1>13. ASSUME NEW c \in Requests, UpdatePassword(c) PROVE PasswordsKnown'
  BY <1>13 DEF UpdatePassword, AuthInv, PasswordsKnown, TypeOK, UsersOK, RequestsOK, HistoryOK,
    history, tokens, budget
<1>14. ASSUME NEW c \in Requests, RevokeAll(c) PROVE PasswordsKnown'
  BY <1>14 DEF RevokeAll, AuthInv, PasswordsKnown, TypeOK, UsersOK, RequestsOK, HistoryOK,
    users, budget
<1>15. ASSUME NEW c \in Requests, RequestError(c) PROVE PasswordsKnown'
  BY <1>15 DEF RequestError, Answer, AuthInv, PasswordsKnown, TypeOK, UsersOK, RequestsOK,
    HistoryOK, users, tokens
<1>16. ASSUME NEW u \in Users, SetDisabled(u) PROVE PasswordsKnown'
  BY <1>16 DEF SetDisabled, AuthInv, PasswordsKnown, TypeOK, UsersOK, RequestsOK, HistoryOK,
    requests, history, tokens, budget
<1>17. ASSUME NEW t \in Tokens, Expire(t) PROVE PasswordsKnown'
  BY <1>17 DEF Expire, AuthInv, PasswordsKnown, TypeOK, UsersOK, RequestsOK, HistoryOK, users,
    requests, budget
<1>18. CASE Crash
  BY <1>18 DEF Crash, AuthInv, PasswordsKnown, TypeOK, UsersOK, RequestsOK, HistoryOK, users,
    tokens
<1> QED
  BY <1>1, <1>2, <1>3, <1>4, <1>5, <1>6, <1>7, <1>8, <1>9, <1>10, <1>11, <1>12, <1>13, <1>14,
      <1>15, <1>16, <1>17, <1>18 DEF Next, Step, vars, NewRequest

\* Every step keeps LateKnown.
LEMMA LateStep == AuthInv /\ [Next]_vars => LateKnown'
<1> SUFFICES ASSUME AuthInv, [Next]_vars PROVE LateKnown'
  OBVIOUS
<1>1. CASE UNCHANGED <<requests, history>>
  BY <1>1 DEF AuthInv, LateKnown, Issuing, PasswordEndsSessions, PasswordsKnown, TypeOK,
    UsersOK, TokensOK, RequestsOK, HistoryOK, requests, history
<1>2. ASSUME NEW c \in Requests, NEW u \in Users, BeginRegister(c, u) PROVE LateKnown'
  BY <1>2 DEF BeginRegister, Begin, AuthInv, LateKnown, Issuing, PasswordEndsSessions,
    PasswordsKnown, TypeOK, UsersOK, TokensOK, RequestsOK, HistoryOK, history, users, tokens
<1>3. ASSUME NEW c \in Requests, NEW u \in Users, BeginLogin(c, u) PROVE LateKnown'
  BY <1>3 DEF BeginLogin, Begin, AuthInv, LateKnown, Issuing, PasswordEndsSessions,
    PasswordsKnown, TypeOK, UsersOK, TokensOK, RequestsOK, HistoryOK, history, users, tokens
<1>4. ASSUME NEW c \in Requests, NEW u \in Users, BeginChange(c, u) PROVE LateKnown'
  BY <1>4 DEF BeginChange, Begin, Changing, AuthInv, LateKnown, Issuing, PasswordEndsSessions,
    PasswordsKnown, TypeOK, UsersOK, TokensOK, RequestsOK, HistoryOK, history, users, tokens
<1>5. ASSUME NEW c \in Requests, NEW u \in Users, BeginReset(c, u) PROVE LateKnown'
  BY <1>5 DEF BeginReset, Begin, Changing, AuthInv, LateKnown, Issuing, PasswordEndsSessions,
    PasswordsKnown, TypeOK, UsersOK, TokensOK, RequestsOK, HistoryOK, history, users, tokens
<1>6. ASSUME NEW c \in Requests, NEW t \in Tokens, BeginRefresh(c, t) PROVE LateKnown'
  BY <1>6 DEF BeginRefresh, Begin, AuthInv, LateKnown, Issuing, PasswordEndsSessions,
    PasswordsKnown, TypeOK, UsersOK, TokensOK, RequestsOK, HistoryOK, users, tokens
<1>7. ASSUME NEW c \in Requests, NEW t \in Tokens, BeginLogout(c, t) PROVE LateKnown'
  BY <1>7 DEF BeginLogout, Begin, AuthInv, LateKnown, Issuing, PasswordEndsSessions,
    PasswordsKnown, TypeOK, UsersOK, TokensOK, RequestsOK, HistoryOK, history, users, tokens
<1>8. ASSUME NEW c \in Requests, CreateUser(c) PROVE LateKnown'
  BY <1>8 DEF CreateUser, Answer, GoOn, AuthInv, LateKnown, Issuing, PasswordEndsSessions,
    PasswordsKnown, TypeOK, UsersOK, TokensOK, RequestsOK, HistoryOK, tokens, budget
<1>9. ASSUME NEW c \in Requests, Issue(c) PROVE LateKnown'
  BY <1>9 DEF Issue, Answer, AuthInv, LateKnown, Issuing, PasswordEndsSessions, PasswordsKnown,
    TypeOK, UsersOK, TokensOK, RequestsOK, HistoryOK, users, budget
<1>10. ASSUME NEW c \in Requests, FindUser(c) PROVE LateKnown'
  BY <1>10 DEF FindUser, Answer, GoOn, AuthInv, LateKnown, Issuing, PasswordEndsSessions,
    PasswordsKnown, TypeOK, UsersOK, TokensOK, RequestsOK, HistoryOK, users, tokens, budget
<1>11. ASSUME NEW c \in Requests, Revoke(c) PROVE LateKnown'
  BY <1>11 DEF Revoke, GoOn, AuthInv, LateKnown, Issuing, PasswordEndsSessions, PasswordsKnown,
    TypeOK, UsersOK, TokensOK, RequestsOK, HistoryOK, history, users, budget
<1>12. ASSUME NEW c \in Requests, Logout(c) PROVE LateKnown'
  BY <1>12 DEF Logout, Answer, AuthInv, LateKnown, Issuing, PasswordEndsSessions,
    PasswordsKnown, TypeOK, UsersOK, TokensOK, RequestsOK, HistoryOK, users, budget
<1>13. ASSUME NEW c \in Requests, UpdatePassword(c) PROVE LateKnown'
  BY <1>13 DEF UpdatePassword, AuthInv, LateKnown, Issuing, PasswordEndsSessions,
    PasswordsKnown, TypeOK, UsersOK, TokensOK, RequestsOK, HistoryOK, history, tokens, budget
<1>14. ASSUME NEW c \in Requests, RevokeAll(c) PROVE LateKnown'
  BY <1>14 DEF RevokeAll, AuthInv, LateKnown, Issuing, PasswordEndsSessions, PasswordsKnown,
    TypeOK, UsersOK, TokensOK, RequestsOK, HistoryOK, users, budget
<1>15. ASSUME NEW c \in Requests, RequestError(c) PROVE LateKnown'
  BY <1>15 DEF RequestError, Answer, AuthInv, LateKnown, Issuing, PasswordEndsSessions,
    PasswordsKnown, TypeOK, UsersOK, TokensOK, RequestsOK, HistoryOK, users, tokens
<1>16. ASSUME NEW t \in Tokens, Expire(t) PROVE LateKnown'
  BY <1>16 DEF Expire, AuthInv, LateKnown, Issuing, PasswordEndsSessions, PasswordsKnown,
    TypeOK, UsersOK, TokensOK, RequestsOK, HistoryOK, requests, users, budget
<1>17. CASE Crash
  BY <1>17 DEF Crash, AuthInv, LateKnown, Issuing, PasswordEndsSessions, PasswordsKnown, TypeOK,
    UsersOK, TokensOK, RequestsOK, HistoryOK, users, tokens
<1>18. ASSUME NEW u \in Users, SetDisabled(u) PROVE UNCHANGED <<requests, history>>
  BY <1>18 DEF SetDisabled, tokens, requests, budget, history
<1> QED
  BY <1>1, <1>2, <1>3, <1>4, <1>5, <1>6, <1>7, <1>8, <1>9, <1>10, <1>11, <1>12, <1>13, <1>14,
      <1>15, <1>16, <1>17, <1>18 DEF Next, Step, vars, NewRequest

\* Every step keeps PasswordEndsSessions.
LEMMA PasswordEndsStep == AuthInv /\ [Next]_vars => PasswordEndsSessions'
<1> SUFFICES ASSUME AuthInv, [Next]_vars PROVE PasswordEndsSessions'
  OBVIOUS
<1>1. CASE UNCHANGED <<tokens, history>>
  BY <1>1 DEF AuthInv, PasswordEndsSessions, LateKnown, Issuing, TypeOK, TokensOK, RequestsOK,
    HistoryOK, Tokens, tokens, history
<1>2. ASSUME NEW c \in Requests, NEW t \in Tokens, BeginRefresh(c, t) PROVE PasswordEndsSessions'
  BY <1>2 DEF BeginRefresh, Begin, AuthInv, PasswordEndsSessions, LateKnown, Issuing, TypeOK,
    TokensOK, RequestsOK, HistoryOK, Tokens, tokens, users
<1>3. ASSUME NEW c \in Requests, CreateUser(c) PROVE PasswordEndsSessions'
  BY <1>3 DEF CreateUser, Answer, GoOn, AuthInv, PasswordEndsSessions, LateKnown, Issuing,
    TypeOK, TokensOK, RequestsOK, HistoryOK, Tokens, tokens, budget
<1>4. ASSUME NEW c \in Requests, Issue(c) PROVE PasswordEndsSessions'
  BY <1>4 DEF Issue, Answer, AuthInv, PasswordEndsSessions, LateKnown, Issuing, TypeOK,
    TokensOK, RequestsOK, HistoryOK, Tokens, users, budget
<1>5. ASSUME NEW c \in Requests, FindUser(c) PROVE PasswordEndsSessions'
  BY <1>5 DEF FindUser, Answer, GoOn, AuthInv, PasswordEndsSessions, LateKnown, Issuing, TypeOK,
    TokensOK, RequestsOK, HistoryOK, Tokens, tokens, users, budget
<1>6. ASSUME NEW c \in Requests, Revoke(c) PROVE PasswordEndsSessions'
  BY <1>6 DEF Revoke, GoOn, AuthInv, PasswordEndsSessions, LateKnown, Issuing, TypeOK, TokensOK,
    RequestsOK, HistoryOK, Tokens, history, users, budget
<1>7. ASSUME NEW c \in Requests, Logout(c) PROVE PasswordEndsSessions'
  BY <1>7 DEF Logout, Answer, AuthInv, PasswordEndsSessions, LateKnown, Issuing, TypeOK,
    TokensOK, RequestsOK, HistoryOK, Tokens, users, budget
<1>8. ASSUME NEW c \in Requests, RevokeAll(c) PROVE PasswordEndsSessions'
  BY <1>8 DEF RevokeAll, AuthInv, PasswordEndsSessions, LateKnown, Issuing, TokensOf, TypeOK,
    TokensOK, RequestsOK, HistoryOK, Tokens, users, budget
<1>9. ASSUME NEW t \in Tokens, Expire(t) PROVE PasswordEndsSessions'
  BY <1>9 DEF Expire, AuthInv, PasswordEndsSessions, LateKnown, Issuing, TypeOK, TokensOK,
    RequestsOK, HistoryOK, Tokens, users, requests, budget
<1>10. ASSUME NEW c \in Requests, RequestError(c) PROVE PasswordEndsSessions'
  BY <1>10 DEF RequestError, Answer, AuthInv, PasswordEndsSessions, LateKnown, Issuing, TypeOK,
    TokensOK, RequestsOK, HistoryOK, Tokens, tokens, users
<1>11. CASE Crash
  BY <1>11 DEF Crash, AuthInv, PasswordEndsSessions, LateKnown, Issuing, TypeOK, TokensOK,
    RequestsOK, HistoryOK, Tokens, tokens, users
<1>12. ASSUME NEW c \in Requests, NEW u \in Users, BeginRegister(c, u) PROVE UNCHANGED <<tokens, history>>
  BY <1>12 DEF BeginRegister, Begin, users, tokens, history
<1>13. ASSUME NEW c \in Requests, NEW u \in Users, BeginLogin(c, u) PROVE UNCHANGED <<tokens, history>>
  BY <1>13 DEF BeginLogin, Begin, users, tokens, history
<1>14. ASSUME NEW c \in Requests, NEW u \in Users, BeginChange(c, u) PROVE UNCHANGED <<tokens, history>>
  BY <1>14 DEF BeginChange, Begin, Changing, users, tokens, history
<1>15. ASSUME NEW c \in Requests, NEW u \in Users, BeginReset(c, u) PROVE UNCHANGED <<tokens, history>>
  BY <1>15 DEF BeginReset, Begin, Changing, users, tokens, history
<1>16. ASSUME NEW c \in Requests, NEW t \in Tokens, BeginLogout(c, t) PROVE UNCHANGED <<tokens, history>>
  BY <1>16 DEF BeginLogout, Begin, users, tokens, history
<1>17. ASSUME NEW c \in Requests, UpdatePassword(c) PROVE UNCHANGED <<tokens, history>>
  BY <1>17 DEF UpdatePassword, tokens, budget, history
<1>18. ASSUME NEW u \in Users, SetDisabled(u) PROVE UNCHANGED <<tokens, history>>
  BY <1>18 DEF SetDisabled, tokens, requests, budget, history
<1> QED
  BY <1>1, <1>2, <1>3, <1>4, <1>5, <1>6, <1>7, <1>8, <1>9, <1>10, <1>11, <1>12, <1>13, <1>14,
      <1>15, <1>16, <1>17, <1>18 DEF Next, Step, vars, NewRequest

\* What a step other than Issue has to do for SessionKept: each session that loses a token is
\* ended or between two tokens, and each session between two tokens stays there or is ended.
LEMMA Prolonged ==
  ASSUME AuthInv, owner' = owner, session' = session, ended \subseteq ended',
         \A s \in live \ expired :
            \/ s \in live' \ expired'
            \/ session[s] \in ended'
            \/ \E d \in Requests : pc'[d] = "issue" /\ tok'[d] = s,
         \A d \in Requests : pc[d] = "issue" /\ tok[d] # NoToken =>
            \/ pc'[d] = "issue" /\ tok'[d] = tok[d]
            \/ session[tok[d]] \in ended'
  PROVE  SessionKept'
<1> SUFFICES ASSUME NEW t \in Tokens, owner[t] # NoUser, session[t] \notin ended'
             PROVE  \/ \E s \in live' \ expired' : session[s] = session[t]
                    \/ session[t] \in BetweenTokens(Requests)'
  BY DEF SessionKept
<1>1. CASE \E s \in live \ expired : session[s] = session[t]
  <2>1. PICK s \in live \ expired : session[s] = session[t]
    BY <1>1
  <2>2. s \in Tokens
    BY DEF AuthInv, TypeOK, TokensOK
  <2>3. CASE s \in live' \ expired'
    BY <2>1, <2>3
  <2>4. CASE \E d \in Requests : pc'[d] = "issue" /\ tok'[d] = s
    BY <2>1, <2>2, <2>4 DEF BetweenTokens, Tokens, NoToken
  <2> QED
    BY <2>1, <2>3, <2>4
<1>2. CASE session[t] \in BetweenTokens(Requests)
  <2>1. PICK d \in Requests : pc[d] = "issue" /\ tok[d] # NoToken /\ session[t] = session[tok[d]]
    BY <1>2 DEF BetweenTokens
  <2>2. pc'[d] = "issue" /\ tok'[d] = tok[d]
    BY <2>1
  <2> QED
    BY <2>1, <2>2 DEF BetweenTokens
<1> QED
  BY <1>1, <1>2 DEF AuthInv, SessionKept

\* Every step keeps SessionKept.
LEMMA SessionStep == AuthInv /\ [Next]_vars => SessionKept'
<1> SUFFICES ASSUME AuthInv, [Next]_vars PROVE SessionKept'
  OBVIOUS
<1>1. CASE UNCHANGED <<tokens, requests, history>>
  BY <1>1 DEF AuthInv, SessionKept, BetweenTokens, tokens, requests, history
<1>2. ASSUME NEW c \in Requests, NEW u \in Users, BeginRegister(c, u) PROVE SessionKept'
  BY <1>2, Prolonged DEF BeginRegister, Begin, AuthInv, TypeOK, TokensOK, RequestsOK, HistoryOK,
    TokensKnown, Tokens, NoToken, users, tokens, history
<1>3. ASSUME NEW c \in Requests, NEW u \in Users, BeginLogin(c, u) PROVE SessionKept'
  BY <1>3, Prolonged DEF BeginLogin, Begin, AuthInv, TypeOK, TokensOK, RequestsOK, HistoryOK,
    TokensKnown, Tokens, NoToken, users, tokens, history
<1>4. ASSUME NEW c \in Requests, NEW u \in Users, BeginChange(c, u) PROVE SessionKept'
  BY <1>4, Prolonged DEF BeginChange, Begin, Changing, AuthInv, TypeOK, TokensOK, RequestsOK,
    HistoryOK, TokensKnown, Tokens, NoToken, users, tokens, history
<1>5. ASSUME NEW c \in Requests, NEW u \in Users, BeginReset(c, u) PROVE SessionKept'
  BY <1>5, Prolonged DEF BeginReset, Begin, Changing, AuthInv, TypeOK, TokensOK, RequestsOK,
    HistoryOK, TokensKnown, Tokens, NoToken, users, tokens, history
<1>6. ASSUME NEW c \in Requests, NEW t \in Tokens, BeginRefresh(c, t) PROVE SessionKept'
  BY <1>6, Prolonged DEF BeginRefresh, Begin, AuthInv, TypeOK, TokensOK, RequestsOK, HistoryOK,
    TokensKnown, Tokens, NoToken, users, tokens
<1>7. ASSUME NEW c \in Requests, NEW t \in Tokens, BeginLogout(c, t) PROVE SessionKept'
  BY <1>7, Prolonged DEF BeginLogout, Begin, AuthInv, TypeOK, TokensOK, RequestsOK, HistoryOK,
    TokensKnown, Tokens, NoToken, users, tokens, history
<1>8. ASSUME NEW c \in Requests, CreateUser(c) PROVE SessionKept'
  BY <1>8, Prolonged DEF CreateUser, Answer, GoOn, AuthInv, TypeOK, TokensOK, RequestsOK,
    HistoryOK, TokensKnown, Tokens, NoToken, tokens, budget
<1>9. ASSUME NEW c \in Requests, Issue(c) PROVE SessionKept'
  <2>1. nextToken \in Tokens /\ owner'[nextToken] # NoUser /\ nextToken \in live' \ expired'
    BY <1>9, AuthAssumption DEF AuthAssumption, Issue, AuthInv, TypeOK, TokensOK, RequestsOK,
      Tokens
  <2>2. \A t \in Tokens : t # nextToken => owner'[t] = owner[t] /\ session'[t] = session[t]
    BY <1>9 DEF Issue, AuthInv, TypeOK, TokensOK, HistoryOK
  <2>3. live \ expired \subseteq (live' \ expired') \ {nextToken} /\ live \subseteq Tokens
    BY <1>9 DEF Issue, AuthInv, TypeOK, TokensOK, Tokens
  <2>4. tok[c] # NoToken => session'[nextToken] = session[tok[c]]
    BY <1>9 DEF Issue, AuthInv, TypeOK, HistoryOK, TokensOK
  <2>5. \A d \in Requests \ {c} : pc'[d] = pc[d] /\ tok'[d] = tok[d]
    BY <1>9 DEF Issue, Answer, AuthInv, TypeOK, RequestsOK
  <2>6. ended' = ended
    BY <1>9 DEF Issue
  <2> SUFFICES ASSUME NEW t \in Tokens, owner'[t] # NoUser, session'[t] \notin ended, t # nextToken
               PROVE  \/ \E s \in live' \ expired' : session'[s] = session'[t]
                      \/ session'[t] \in BetweenTokens(Requests)'
    BY <2>1, <2>6 DEF SessionKept
  <2>7. owner[t] # NoUser /\ session'[t] = session[t]
    BY <2>2
  <2>8. CASE \E s \in live \ expired : session[s] = session[t]
    BY <2>2, <2>3, <2>7, <2>8
  <2>9. CASE session[t] \in BetweenTokens(Requests)
    <3>1. PICK d \in Requests : pc[d] = "issue" /\ tok[d] # NoToken /\ session[t] = session[tok[d]]
      BY <2>9 DEF BetweenTokens
    <3>2. CASE d = c
      BY <2>1, <2>4, <2>7, <3>1, <3>2
    <3>3. CASE d # c
      <4>1. tok[d] \in Tokens /\ tok[d] # nextToken
        BY <3>1 DEF AuthInv, TypeOK, TokensOK, RequestsOK, TokensKnown, Tokens
      <4> QED
        BY <2>2, <2>5, <2>7, <3>1, <3>3, <4>1 DEF BetweenTokens
    <3> QED
      BY <3>2, <3>3
  <2> QED
    BY <2>7, <2>8, <2>9 DEF AuthInv, SessionKept
<1>10. ASSUME NEW c \in Requests, FindUser(c) PROVE SessionKept'
  BY <1>10, Prolonged DEF FindUser, Answer, GoOn, AuthInv, TypeOK, TokensOK, RequestsOK,
    HistoryOK, TokensKnown, Tokens, NoToken, users, tokens, budget
<1>11. ASSUME NEW c \in Requests, Revoke(c) PROVE SessionKept'
  BY <1>11, Prolonged DEF Revoke, GoOn, AuthInv, TypeOK, TokensOK, RequestsOK, HistoryOK,
    TokensKnown, Tokens, NoToken, users, budget, history
<1>12. ASSUME NEW c \in Requests, Logout(c) PROVE SessionKept'
  BY <1>12, Prolonged DEF Logout, Answer, AuthInv, TypeOK, TokensOK, RequestsOK, HistoryOK,
    TokensKnown, Tokens, NoToken, users, budget
<1>13. ASSUME NEW c \in Requests, UpdatePassword(c) PROVE SessionKept'
  BY <1>13, Prolonged DEF UpdatePassword, AuthInv, TypeOK, TokensOK, RequestsOK, HistoryOK,
    TokensKnown, Tokens, NoToken, tokens, budget, history
<1>14. ASSUME NEW c \in Requests, RevokeAll(c) PROVE SessionKept'
  BY <1>14, Prolonged DEF RevokeAll, AuthInv, TypeOK, TokensOK, RequestsOK, HistoryOK,
    TokensKnown, TokensOf, Tokens, NoToken, users, budget
<1>15. ASSUME NEW c \in Requests, RequestError(c) PROVE SessionKept'
  BY <1>15, Prolonged DEF RequestError, Answer, AuthInv, TypeOK, TokensOK, RequestsOK,
    HistoryOK, TokensKnown, BetweenTokens, Tokens, NoToken, users, tokens
<1>16. ASSUME NEW t \in Tokens, Expire(t) PROVE SessionKept'
  BY <1>16, Prolonged DEF Expire, AuthInv, TypeOK, TokensOK, RequestsOK, HistoryOK, TokensKnown,
    Tokens, NoToken, users, requests, budget
<1>17. CASE Crash
  BY <1>17, Prolonged DEF Crash, AuthInv, TypeOK, TokensOK, RequestsOK, HistoryOK, TokensKnown,
    BetweenTokens, Tokens, NoToken, users, tokens
<1>18. ASSUME NEW u \in Users, SetDisabled(u) PROVE UNCHANGED <<tokens, requests, history>>
  BY <1>18 DEF SetDisabled, tokens, requests, budget, history
<1> QED
  BY <1>1, <1>2, <1>3, <1>4, <1>5, <1>6, <1>7, <1>8, <1>9, <1>10, <1>11, <1>12, <1>13, <1>14,
      <1>15, <1>16, <1>17, <1>18 DEF Next, Step, vars, NewRequest

\* The initial state.
LEMMA AuthInit == Init => AuthInv
<1> SUFFICES ASSUME Init PROVE AuthInv
  OBVIOUS
<1>1. TypeOK
  BY AuthAssumption DEF AuthAssumption, Init, TypeOK, UsersOK, TokensOK, RequestsOK, BudgetOK,
    HistoryOK, Tokens, NoToken
<1>2. TokensKnown /\ PasswordsKnown /\ LateKnown
  BY DEF Init, TokensKnown, PasswordsKnown, LateKnown, Issuing, NoToken
<1>3. SessionKept /\ PasswordEndsSessions
  BY AuthAssumption DEF AuthAssumption, Init, SessionKept, PasswordEndsSessions, Tokens
<1> QED
  BY <1>1, <1>2, <1>3 DEF AuthInv

\* The inductive invariant holds in every reachable state.
THEOREM AuthInvariant == Spec => []AuthInv
<1>1. AuthInv /\ [Next]_vars => AuthInv'
  <2>1. AuthInv => TypeOK
    BY DEF AuthInv
  <2> QED
    BY <2>1, TypeStep, TokensStep, PasswordsStep, LateStep, SessionStep, PasswordEndsStep DEF
      AuthInv
<1> QED
  BY AuthInit, <1>1, PTL DEF Spec

\* Rotation never loses a session: whatever refreshes of one token, logins, changes of other
\* users and an administrator do meanwhile, a session that was not ended has its next token.
THEOREM SessionTheorem == Spec => []SessionKept
<1>1. AuthInv => SessionKept
  BY DEF AuthInv
<1> QED
  BY AuthInvariant, <1>1, PTL

\* A change or reset of a password ends every session that began with an older one, and only a
\* request that had passed its checks before prolongs one.
THEOREM PasswordTheorem == Spec => []PasswordEndsSessions
<1>1. AuthInv => PasswordEndsSessions
  BY DEF AuthInv
<1> QED
  BY AuthInvariant, <1>1, PTL

\* Every variable keeps its type.
THEOREM AuthTypeTheorem == Spec => []TypeOK
<1>1. AuthInv => TypeOK
  BY DEF AuthInv
<1> QED
  BY AuthInvariant, <1>1, PTL
=============================================================================
